------------------------------ MODULE LogFiles ------------------------------
(***************************************************************************)
(* Reading persisted logs back: list_log_files(), read_log_file() and      *)
(* read_log_files() of FileLogger and UniqueFileLogger, while the logger   *)
(* writes, rotates, compresses and deletes the same files.                 *)
(*                                                                         *)
(* A reader takes no lock of the logger, except m_file_path_mutex to copy  *)
(* the current path and m_mutex to flush the open stream.  What the writer *)
(* does under m_mutex is one step (FileRotation has its details); what it  *)
(* wrote since the last flush is in buffered, not yet on disk.  A file is  *)
(* named by its day, the kind of name, the numbers in it and its suffix.   *)
(* A write that fails leaves no record to look for, and is left out.       *)
(***************************************************************************)
EXTENDS Callers

CONSTANTS
    FileDays,      \* days of records
    MaxWritten,    \* bound on the records written
    MaxFiles       \* bound on the files of the directory

VARIABLE disk

\* kinds of names, by make_file_sort_key(): the day alone, with a number, with a time
Base == 0
Numbered == 1
Timed == 2
Foreign == 9

Name(day, kind, primary, suffix) == [day |-> day, kind |-> kind, primary |-> primary, suffix |-> suffix]
NoName == Name(0, Base, 0, "")
Note == Name(1, Foreign, 0, "")     \* a file of someone else in the directory
Today == Name(Min(FileDays), Base, 0, "")

Reader == [pc |-> "idle", paths |-> <<>>, current |-> NoName, listed |-> <<>>, results |-> <<>>, known |-> {}]

\* start_logging() opens the file of the day
Start ==
    {[logger |-> k, zlib |-> z,
      dir |-> [n \in {Note} \cup (IF k = "FileLogger" THEN {Today} ELSE {}) |-> {}],
      open |-> IF k = "FileLogger" THEN Today ELSE NoName, buffered |-> {},
      written |-> 0, calls |-> 0, reader |-> Reader, moved |-> FALSE, reused |-> {}] :
        k \in {"FileLogger", "UniqueFileLogger"}, z \in BOOLEAN}

Init == disk \in Start

Put(s, name, ids) ==
    [s EXCEPT !.dir = [n \in DOMAIN s.dir \cup {name} |-> IF n = name THEN ids ELSE s.dir[n]]]
Without(s, names) == [s EXCEPT !.dir = Restrict(@, DOMAIN s.dir \ names)]
Content(s, name) == IF name \in DOMAIN s.dir THEN s.dir[name] ELSE {}
-----------------------------------------------------------------------------
(* The writer *)

flush(s) == IF s.open = NoName THEN s
            ELSE [Put(s, s.open, Content(s, s.open) \cup s.buffered) EXCEPT !.buffered = {}]

open_log_file(s, day) ==
    LET o == flush(s) name == Name(day, Base, 0, "")
    IN  [Put(o, name, Content(o, name)) EXCEPT !.open = name]

\* rotate_current_file(): the stream is closed and its file takes the first free
\* name; names are free again when their file is compressed or removed
rotate_current_file(s) ==
    LET o == flush(s)
        free == {i \in 1..MaxFiles : Name(s.open.day, Numbered, i, "") \notin DOMAIN s.dir}
        name == Name(s.open.day, Numbered, Min(free), "")
        used == \E n \in DOMAIN s.dir : n.day = name.day /\ n.kind = Numbered /\ n.primary >= name.primary
    IN  open_log_file([Put(Without(o, {s.open}), name, o.dir[s.open])
                          EXCEPT !.moved = TRUE, !.reused = IF used THEN @ \cup {name.day} ELSE @,
                                 !.open = NoName], s.open.day)

is_valid_log_filename(name) == name.kind # Foreign

\* The end of every write: of the files in old, which retention or their age
\* selects (FileRotation has the rules), those with a name of the logger's go;
\* the open one is of the day that the age is counted from.
remove_old_logs(s, old) ==
    LET gone == {n \in old : is_valid_log_filename(n) /\ n # s.open}
    IN  [Without(s, gone) EXCEPT !.moved = @ \/ gone # {}]

Room == Cardinality(DOMAIN disk.dir) < MaxFiles /\ disk.written < MaxWritten
Record(s) == [s EXCEPT !.written = @ + 1]

\* FileLogger: the record's day selects the file, its size may rotate it first
write_log(day, full, old) ==
    LET s == Record(disk)
        o == IF disk.open.day # day THEN open_log_file(s, day) ELSE s
        r == IF full THEN rotate_current_file(o) ELSE o
    IN  /\ disk.logger = "FileLogger" /\ Room
        /\ disk' = remove_old_logs([r EXCEPT !.buffered = @ \cup {s.written}], old)

\* UniqueFileLogger: a file for every record, named by its time and a hash
write_unique(day, old) ==
    LET name == Name(day, Timed, disk.written + 1, "") IN
    /\ disk.logger = "UniqueFileLogger" /\ Room
    /\ disk' = remove_old_logs(Put(Record(disk), name, {disk.written + 1}), old)

\* the stream writes its buffer when it is full
spill == disk.buffered # {} /\ disk' = flush(disk)

\* compress_file(): the archive appears (it may replace an earlier one of a number
\* used again), then its source goes
compress(name) ==
    LET archive == [name EXCEPT !.suffix = ".gz"] IN
    /\ disk.logger = "FileLogger" /\ name.kind = Numbered /\ name.suffix = ""
    /\ disk' = IF archive \in DOMAIN disk.dir /\ disk.dir[archive] = disk.dir[name]
               THEN Without(disk, {name})
               ELSE [Put(disk, archive, disk.dir[name]) EXCEPT !.moved = @ \/ archive \in DOMAIN disk.dir]
-----------------------------------------------------------------------------
(* Listing *)

\* the comparators of both loggers; .gz and .zst are not told apart
newest_first(current, a, b) ==
    IF a.day # b.day THEN a.day > b.day
    ELSE IF (a = current) # (b = current) THEN a = current
    ELSE IF a.kind # b.kind THEN a.kind > b.kind
    ELSE IF a.primary # b.primary THEN a.primary > b.primary
    ELSE a.suffix = "" /\ b.suffix # ""

sort_log_files(names, current) ==
    [i \in 1..Cardinality(names) |->
        CHOOSE n \in names : Cardinality({m \in names : newest_first(current, m, n)}) = i - 1]

\* list_log_files() for the caller, and at the beginning of read_log_files()
list_log_files(pc) ==
    /\ disk.reader.pc = "idle" /\ disk.calls < MaxCalls
    /\ disk' = [disk EXCEPT !.calls = @ + 1, !.reader.pc = pc, !.reader.current = disk.open,
                            !.reader.results = <<>>, !.reader.listed = <<>>,
                            !.reader.known = disk.buffered \cup UNION {disk.dir[n] : n \in DOMAIN disk.dir},
                            !.moved = FALSE]

managed_files(s) == {n \in DOMAIN s.dir : is_valid_log_filename(n)}

list_directory ==
    LET r == disk.reader
        files == sort_log_files(managed_files(disk), r.current)
    IN  \/ /\ r.pc = "list"
           /\ disk' = [disk EXCEPT !.reader.pc = "idle", !.reader.paths = files, !.reader.listed = files,
                                   !.reader.known = {}]
        \/ r.pc = "begin" /\ disk' = [disk EXCEPT !.reader.pc = "read", !.reader.listed = files]
-----------------------------------------------------------------------------
(* Reading *)

\* the paths of the request, one after the other
Wanted(r) == r.paths[Len(r.results) + 1]
Result(s, result) == [s EXCEPT !.reader.pc = "read", !.reader.results = Append(@, result)]

\* read_log_file_from_info(): the current file is flushed first
read_flush_Missing ==
    /\ disk.reader.pc = "read" /\ Len(disk.reader.results) < Len(disk.reader.paths)
    /\ Wanted(disk.reader) \in Elements(disk.reader.listed)
    /\ disk' = [disk EXCEPT !.reader.pc = "open"]

read_flush ==
    LET r == disk.reader IN
    /\ r.pc = "read" /\ Len(r.results) < Len(r.paths)
    /\ Wanted(r) \in Elements(r.listed)
    /\ disk' = [(IF Wanted(r) = r.current THEN flush(disk) ELSE disk) EXCEPT !.reader.pc = "open"]

read_unknown ==
    LET r == disk.reader IN
    /\ r.pc = "read" /\ Len(r.results) < Len(r.paths)
    /\ Wanted(r) \notin Elements(r.listed)
    /\ disk' = Result(disk, [file |-> Wanted(r), ok |-> FALSE, content |-> {}])

\* an archive needs the library it was compressed with
decompress_string_by_suffix(s, name) == name.suffix # "" /\ s.zlib

\* the file may be gone by now
read_log_file_from_info(s, name) ==
    LET ok == name \in DOMAIN s.dir /\ (name.suffix = "" \/ decompress_string_by_suffix(s, name))
    IN  [file |-> name, ok |-> ok, content |-> IF ok THEN s.dir[name] ELSE {}]

read_file ==
    /\ disk.reader.pc = "open"
    /\ disk' = Result(disk, read_log_file_from_info(disk, Wanted(disk.reader)))

read_return ==
    LET r == disk.reader IN
    /\ r.pc = "read" /\ Len(r.results) = Len(r.paths)
    /\ disk' = [disk EXCEPT !.reader = Reader]
-----------------------------------------------------------------------------
Next ==
    \/ \E day \in FileDays, old \in {{}} \cup {{n} : n \in DOMAIN disk.dir} :
          write_unique(day, old) \/ \E full \in BOOLEAN : write_log(day, full, old)
    \/ \E name \in DOMAIN disk.dir : compress(name)
    \/ spill \/ (\E pc \in {"list", "begin"} : list_log_files(pc)) \/ list_directory
    \/ read_flush \/ read_unknown \/ read_file \/ read_return

Spec == Init /\ [][Next]_disk
-----------------------------------------------------------------------------
\* The values the state may take.
TypeOK ==
    /\ disk.open \in DOMAIN disk.dir \cup {NoName}
    /\ disk.buffered \subseteq 1..disk.written
    /\ disk.reader.pc \in {"idle", "list", "begin", "read", "open"}

\* a file and its archive are copies
Newer(s, a, b) == \/ Content(s, a) = Content(s, b)
                  \/ \A x \in Content(s, a), y \in Content(s, b) : x > y

\* list_log_files() gives "newest first": of two files of a day the one that is
\* named first has the later records.  The exceptions the code makes: the base
\* file of a day that is over comes last, and a number that a rotation used again.
ListingIsChronological ==
    LET l == disk.reader.listed IN
    \A i, j \in DOMAIN l : i < j /\ l[i].day = l[j].day /\ l[i].day \notin disk.reused =>
        \/ l[j].kind = Base /\ l[j] # disk.reader.current
        \/ Newer(disk, l[i], l[j])

\* The comparator is a strict order on the names, as std::sort demands, and tells
\* any two names of a directory apart.
Names == [day : FileDays, kind : {Base, Numbered, Timed}, primary : 1..2, suffix : {"", ".gz"}]
ComparatorIsStrict ==
    disk.written = 0 /\ disk.calls = 0 =>
    \A c \in {NoName, Name(1, Base, 1, "")} : \A a, b \in Names :
        /\ newest_first(c, a, b) => ~newest_first(c, b, a)
        /\ a # b => newest_first(c, a, b) \/ newest_first(c, b, a)
        /\ \A d \in Names : newest_first(c, a, b) /\ newest_first(c, b, d) => newest_first(c, a, d)

\* read_log_files() answers every path, in the order of the request.
ResultsMatchRequest ==
    LET r == disk.reader IN
    r.pc # "idle" => \A i \in DOMAIN r.results : r.results[i].file = r.paths[i]

Found(r) == UNION {r.results[i].content : i \in DOMAIN r.results}
Listed(r) == managed_files(disk) \subseteq Elements(r.paths)

\* A record that was written when read_log_files() was called for every path is
\* in the results, unless a result says that its file could not be read, or a
\* file was rotated or deleted during the call: neither compression nor the
\* buffer of the open stream hides a record silently.
ReadsMissNothing ==
    LET r == disk.reader
        undisturbed == Listed(r) /\ ~disk.moved /\ \A i \in DOMAIN r.results : r.results[i].ok
    IN  r.pc = "read" /\ Len(r.results) = Len(r.paths) /\ undisturbed => r.known \subseteq Found(r)

\* The listing and the reading in one invariant.
Safety == TypeOK /\ ListingIsChronological /\ ComparatorIsStrict /\ ResultsMatchRequest /\ ReadsMissNothing
=============================================================================
