---------------------------- MODULE FileRotation ----------------------------
(***************************************************************************)
(* The files of loggers/FileLogger.hpp and detail/CompressionWorker.hpp:   *)
(* what write_log() does on disk, with the rotation by size, the retention *)
(* of rotated files, the deletion of old days and clear_logs(), while the  *)
(* compression thread replaces rotated files by archives.                  *)
(*                                                                         *)
(* The directory is a function from the names present to their contents.   *)
(* A name is a day, what the rotation put after it, and a suffix; the file *)
(* being written has stamp 0.  Everything FileLogger does here it does     *)
(* under m_mutex, so one write is in progress at a time; the compression   *)
(* thread does not take that mutex and runs between its steps.  Opening,   *)
(* renaming and compressing may fail, MaxFaults times; removing a file and *)
(* writing to an open one succeed.                                         *)
(***************************************************************************)
EXTENDS Naturals, Sequences, FiniteSets, Functions, SequencesExt

CONSTANTS
    Configs,              \* the configurations a logger may be created with
    Days,                 \* days of the records' timestamps
    Stamps,               \* times of day a timestamp name may carry
    Sizes,                \* sizes of messages, the newline included
    MaxRecords, MaxClears, MaxFaults  \* bounds

Config == [naming : {"Sequence", "Timestamp"},
           max_file_size_bytes : Nat, max_rotated_files : Nat, auto_delete_days : Nat,
           compress : {"NONE", "GZIP"}, compress_async : BOOLEAN]

ASSUME ConfigAssumption ==
    /\ Configs \subseteq Config
    /\ Days \subseteq Nat \ {0} /\ Stamps \subseteq Nat \ {0} /\ Sizes \subseteq Nat \ {0}
    /\ MaxRecords \in Nat /\ MaxClears \in Nat /\ MaxFaults \in Nat

VARIABLES
    m_config,
    files,                \* the directory
    m_file,               \* the name of the open file, or NoFile
    m_current_date_ts, m_current_file_size,
    pc, message,          \* the write in progress and its record
    doomed,               \* what enforce_rotation_retention() found to remove
    m_q, m_busy, m_stop,  \* CompressionWorker
    src, wpc,             \* its thread: the file in hand and where it is
    \* history
    records, faults, clears,
    lost,                 \* records that were given up with an error
    given,                \* how often a name was given to a rotated file
    late,                 \* names with an earlier time than one given before them
    deleted               \* archives that retention, age or clear_logs() removed

fileVars   == <<m_file, m_current_date_ts, m_current_file_size>>
callVars   == <<pc, message, doomed>>
workerVars == <<m_q, m_busy, m_stop, src, wpc>>
history    == <<records, clears, lost, given, late, deleted>>
vars       == <<m_config, files, fileVars, callVars, workerVars, faults, history>>

Name(day, stamp, index, suffix) ==
    [day |-> day, stamp |-> stamp, index |-> index, suffix |-> suffix]

NoFile == Name(0, 0, 0, "")

CurrentName(day) == Name(day, 0, 0, ".log")

Archive(name) == [name EXCEPT !.suffix = ".gz"]
Temporary(name) == [name EXCEPT !.suffix = ".gz.tmp"]

With(dir, name, content) ==
    [n \in DOMAIN dir \cup {name} |-> IF n = name THEN content ELSE dir[n]]

Without(dir, names) == Restrict(dir, DOMAIN dir \ names)

Bytes(content) == FoldLeft(LAMBDA sum, r : sum + r.size, 0, content)

NoMessage == [id |-> 0, size |-> 0]

\* write_log() returns, or throws, which log() and its task catch.
Return == pc' = "idle" /\ message' = NoMessage

\* A call of the file system may fail; every failure uses up one fault.
Fault == faults < MaxFaults /\ faults' = faults + 1
NoFault == UNCHANGED faults

\* start_logging(): today's file is open, unless that failed; the compressor is
\* not yet created.
Init ==
    /\ m_config \in Configs
    /\ \E today \in Days :
          /\ m_current_date_ts = today
          /\ \/ /\ files = With(<<>>, CurrentName(today), <<>>)
                /\ m_file = CurrentName(today) /\ faults = 0
             \/ /\ MaxFaults > 0
                /\ files = <<>> /\ m_file = NoFile /\ faults = 1
    /\ m_current_file_size = 0
    /\ pc = "idle" /\ message = NoMessage
    /\ doomed = {}
    /\ m_q = <<>> /\ m_busy = FALSE /\ m_stop = FALSE /\ src = NoFile /\ wpc = "none"
    /\ records = 0 /\ clears = 0
    /\ lost = {} /\ given = [n \in {} |-> 0] /\ late = {} /\ deleted = {}
-----------------------------------------------------------------------------
(* write_log() *)

\* open_log_file() in append mode, in a directory that is otherwise dir.
OpenLogFile(dir, day) ==
    /\ files' = IF CurrentName(day) \in DOMAIN dir THEN dir
                ELSE With(dir, CurrentName(day), <<>>)
    /\ m_file' = CurrentName(day)
    /\ m_current_date_ts' = day
    /\ m_current_file_size' = Bytes(files'[CurrentName(day)])

\* It throws: the old stream is closed and the date is already the new one.
OpenFails(dir, day) ==
    /\ files' = dir
    /\ m_file' = NoFile
    /\ m_current_date_ts' = day
    /\ UNCHANGED m_current_file_size

\* The record is given up: what was thrown only reaches std::cerr.
GiveUp(record) == lost' = lost \cup {record.id} /\ Return

\* The record's day selects the file.
write_log(day, size) ==
    LET record == [id |-> records + 1, size |-> size]
    IN  /\ pc = "idle" /\ records < MaxRecords
        /\ records' = records + 1
        /\ \/ /\ day = m_current_date_ts /\ NoFault
              /\ pc' = "opened" /\ message' = record
              /\ UNCHANGED <<files, fileVars, lost>>
           \/ /\ day # m_current_date_ts /\ NoFault /\ OpenLogFile(files, day)
              /\ pc' = "opened" /\ message' = record
              /\ UNCHANGED lost
           \/ day # m_current_date_ts /\ Fault /\ OpenFails(files, day) /\ GiveUp(record)
        /\ UNCHANGED <<m_config, doomed, workerVars, clears, given, late, deleted>>

MustRotate(size) ==
    /\ m_config.max_file_size_bytes > 0
    /\ m_current_file_size + size > m_config.max_file_size_bytes

\* is_valid_log_filename(): the three patterns, compressed or not.
ValidLogName(name) == name.suffix # ".gz.tmp"

TooOld_Inclusive(name) == name.day + m_config.auto_delete_days <= m_current_date_ts

TooOld(name) == name.day + m_config.auto_delete_days < m_current_date_ts

\* remove_old_logs(): by age relative to the day of the open file.
OldLogs(dir) == {n \in DOMAIN dir : ValidLogName(n) /\ TooOld(n)}

\* What is in the directory once the line is written.
DirectoryWith(record) ==
    IF m_file = NoFile THEN files ELSE [files EXCEPT ![m_file] = Append(@, record)]

\* History: the archives among the names that are removed.
Delete(names) == deleted' = deleted \cup {n \in names : n.suffix = ".gz"}

\* The line is written, unless no file is open, and remove_old_logs() runs.
write_log_append ==
    /\ pc = "written" \/ (pc = "opened" /\ ~MustRotate(message.size))
    /\ files' = Without(DirectoryWith(message), OldLogs(files))
    /\ Delete(OldLogs(files))
    /\ \/ /\ m_file # NoFile
          /\ m_current_file_size' = m_current_file_size + message.size
          /\ UNCHANGED lost
       \/ /\ m_file = NoFile
          /\ lost' = lost \cup {message.id}
          /\ UNCHANGED m_current_file_size
    /\ Return
    /\ UNCHANGED <<m_config, m_file, m_current_date_ts, doomed, workerVars,
                   faults, records, clears, given, late>>
-----------------------------------------------------------------------------
(* rotate_current_file() *)

\* The first candidate, a function of its number, that is not a plain file yet.
FirstFree(candidate) ==
    LET free == {i \in DOMAIN candidate : candidate[i] \notin DOMAIN files}
    IN  candidate[CHOOSE i \in free : \A j \in free : i <= j]

\* With so many numbers to try one is free.
Tries == Cardinality(DOMAIN files) + 1

\* make_sequence_name()
SequenceName(day) == FirstFree([i \in 1..Tries |-> Name(day, i, 0, ".log")])

\* make_timestamp_name(): the time of day, and an index if it is taken.
TimestampName(day, now) == FirstFree([i \in 0..Tries |-> Name(day, now, i, ".log")])

\* make_rotated_name(), with the time it reads.
RotatedName(now) ==
    IF m_config.naming = "Sequence" THEN SequenceName(m_current_date_ts)
    ELSE TimestampName(m_current_date_ts, now)

\* The wall clock says any time of day, whatever day m_current_date_ts is: a late
\* record of yesterday is rotated after midnight, and clocks are set back.
Times == IF m_config.naming = "Sequence" THEN {0} ELSE Stamps

\* History: the time a name is made of is earlier than that of a name the day had.
GoesBack(name) ==
    m_config.naming # "Sequence" /\ \E n \in DOMAIN given : n.day = name.day /\ n.stamp > name.stamp

Count(name) == With(given, name, IF name \in DOMAIN given THEN given[name] + 1 ELSE 1)

\* What compress_file() makes of the directory when it succeeds at once.
Compressed(dir, name) == Without(With(dir, Archive(name), dir[name]), {name})

Reopen_Forgotten(dir, name) ==
    /\ NoFault
    /\ files' = dir
    /\ m_file' = NoFile
    /\ UNCHANGED <<m_current_date_ts, m_current_file_size, workerVars>>

\* The file is re-opened and the rotated one compressed: now, where a failure is
\* ignored, or by the compressor, which the first rotation creates.
Reopen(dir, name) ==
    \/ /\ m_config.compress = "NONE" /\ NoFault
       /\ OpenLogFile(dir, m_current_date_ts)
       /\ UNCHANGED workerVars
    \/ /\ m_config.compress # "NONE" /\ ~m_config.compress_async
       /\ \/ NoFault /\ OpenLogFile(Compressed(dir, name), m_current_date_ts)
          \/ Fault /\ OpenLogFile(dir, m_current_date_ts)
       /\ UNCHANGED workerVars
    \/ /\ m_config.compress # "NONE" /\ m_config.compress_async /\ NoFault
       /\ OpenLogFile(dir, m_current_date_ts)
       /\ m_q' = Append(m_q, name)
       /\ wpc' = IF wpc = "none" THEN "wait" ELSE wpc
       /\ UNCHANGED <<m_busy, m_stop, src>>

\* The stream is closed and the current file renamed.  The re-opening may fail.
rotate_current_file ==
    /\ pc = "opened" /\ MustRotate(message.size)
    /\ CurrentName(m_current_date_ts) \in DOMAIN files
    /\ \E now \in Times :
          LET current == CurrentName(m_current_date_ts)
              name    == RotatedName(now)
              renamed == With(Without(files, {current}), name, files[current])
          IN  /\ given' = Count(name)
              /\ late' = IF GoesBack(name) THEN late \cup {name} ELSE late
              /\ \/ /\ Reopen(renamed, name)
                    /\ pc' = IF m_config.max_rotated_files > 0 THEN "retain" ELSE "written"
                    /\ UNCHANGED <<message, lost>>
                 \/ /\ Fault /\ OpenFails(renamed, m_current_date_ts)
                    /\ GiveUp(message)
                    /\ UNCHANGED workerVars
    /\ UNCHANGED <<m_config, doomed, records, clears, deleted>>

\* The renaming fails: the file system does, or there is no current file since
\* an earlier open failed.
rotate_rename_fails ==
    /\ pc = "opened" /\ MustRotate(message.size)
    /\ IF CurrentName(m_current_date_ts) \in DOMAIN files THEN Fault ELSE NoFault
    /\ m_file' = NoFile
    /\ GiveUp(message)
    /\ UNCHANGED <<m_config, files, m_current_date_ts, m_current_file_size, doomed,
                   workerVars, records, clears, given, late, deleted>>

\* The files enforce_rotation_retention() counts: every name that begins with
\* the day, archives and temporary files included, but the current one.
Rotated(dir, day) == {n \in DOMAIN dir : n.day = day /\ n # CurrentName(day)}

Before_NoIndex(a, b) == a.stamp < b.stamp

Before_IndexOnly(a, b) == a.index < b.index

\* Its sort key: the number after the day, then the index.
Before(a, b) == a.stamp < b.stamp \/ (a.stamp = b.stamp /\ a.index < b.index)

Excess_OneMore(n) == IF n <= m_config.max_rotated_files + 1 THEN 0
                     ELSE n - m_config.max_rotated_files - 1

Excess(n) == IF n <= m_config.max_rotated_files THEN 0 ELSE n - m_config.max_rotated_files

\* The front of the sorted list.  std::sort leaves the order of names that
\* differ only in the suffix open.
retention_list ==
    /\ pc = "retain"
    /\ LET all == Rotated(files, m_current_date_ts)
       IN  doomed' \in {s \in SUBSET all :
               /\ Cardinality(s) = Excess(Cardinality(all))
               /\ \A a \in s, b \in all \ s : ~Before(b, a)}
    /\ pc' = "remove"
    /\ UNCHANGED <<m_config, files, fileVars, message, workerVars, faults, history>>

retention_remove ==
    /\ pc = "remove"
    /\ files' = Without(files, doomed)
    /\ Delete(doomed)
    /\ doomed' = {}
    /\ pc' = "written"
    /\ UNCHANGED <<m_config, fileVars, message, workerVars, faults,
                   records, clears, lost, given, late>>
-----------------------------------------------------------------------------
(* clear_logs() and the destructor *)

\* Every valid file of the directory is removed and today's is opened.
clear_logs(today) ==
    /\ pc = "idle" /\ clears < MaxClears
    /\ clears' = clears + 1
    /\ LET listed == {n \in DOMAIN files : ValidLogName(n)}
       IN  /\ Delete(listed)
           /\ \/ NoFault /\ OpenLogFile(Without(files, listed), today)
              \/ /\ Fault
                 /\ files' = Without(files, listed)
                 /\ m_file' = NoFile /\ m_current_date_ts' = today
                 /\ m_current_file_size' = 0
    /\ UNCHANGED <<m_config, callVars, workerVars, records, lost, given, late>>

\* ~FileLogger(): stop_logging() closes the file.
stop_logging ==
    /\ pc = "idle"
    /\ m_file' = NoFile
    /\ pc' = "stopping"
    /\ UNCHANGED <<m_config, files, m_current_date_ts, m_current_file_size,
                   message, doomed, workerVars, faults, history>>

\* CompressionWorker::wait(), then the first half of ~CompressionWorker().
compressor_stop ==
    /\ pc = "stopping"
    /\ m_q = <<>> /\ ~m_busy
    /\ m_stop' = TRUE
    /\ pc' = "joining"
    /\ UNCHANGED <<m_config, files, fileVars, message, doomed, m_q, m_busy, src, wpc,
                   faults, history>>

compressor_join ==
    /\ pc = "joining" /\ wpc \in {"none", "exited"}
    /\ pc' = "destroyed"
    /\ UNCHANGED <<m_config, files, fileVars, message, doomed, workerVars,
                   faults, history>>
-----------------------------------------------------------------------------
(* CompressionWorker::run() and compress_file() *)

loggerVars == <<m_config, fileVars, callVars, history>>

MustExit_Never == FALSE

MustExit == m_stop /\ m_q = <<>>

compressor_exit ==
    /\ wpc = "wait" /\ MustExit
    /\ wpc' = "exited"
    /\ UNCHANGED <<loggerVars, files, m_q, m_busy, m_stop, src, faults>>

compressor_take ==
    /\ wpc = "wait" /\ m_q # <<>>
    /\ src' = Head(m_q) /\ m_q' = Tail(m_q) /\ m_busy' = TRUE
    /\ wpc' = "compress"
    /\ UNCHANGED <<loggerVars, files, m_stop, faults>>

\* The source is read into the temporary file.  It may be gone already, or the
\* compression fails; what was written of the temporary file is removed.
compress_file ==
    /\ wpc = "compress"
    /\ \/ /\ src \in DOMAIN files /\ NoFault
          /\ files' = With(files, Temporary(src), files[src])
          /\ wpc' = "publish"
       \/ /\ IF src \in DOMAIN files THEN Fault ELSE NoFault
          /\ files' = Without(files, {Temporary(src)})
          /\ wpc' = "done"
    /\ UNCHANGED <<loggerVars, m_q, m_busy, m_stop, src>>

RenameFails_KeepsTemporary == UNCHANGED files /\ wpc' = "done"

RenameFails_RemovesSource == files' = Without(files, {Temporary(src)}) /\ wpc' = "remove"

\* The archive could not be put in place: the source stays.
RenameFails == files' = Without(files, {Temporary(src)}) /\ wpc' = "done"

\* rename() of the temporary file to the archive, which it replaces.
compress_publish ==
    /\ wpc = "publish"
    /\ \/ /\ Temporary(src) \in DOMAIN files /\ NoFault
          /\ files' = With(Without(files, {Temporary(src)}),
                           Archive(src), files[Temporary(src)])
          /\ wpc' = "remove"
       \/ /\ IF Temporary(src) \in DOMAIN files THEN Fault ELSE NoFault
          /\ RenameFails
    /\ UNCHANGED <<loggerVars, m_q, m_busy, m_stop, src>>

compress_remove ==
    /\ wpc = "remove"
    /\ files' = Without(files, {src})
    /\ wpc' = "done"
    /\ UNCHANGED <<loggerVars, m_q, m_busy, m_stop, src, faults>>

compressor_done_StillBusy ==
    /\ wpc = "done"
    /\ src' = NoFile
    /\ wpc' = "wait"
    /\ UNCHANGED <<loggerVars, files, m_q, m_busy, m_stop, faults>>

compressor_done ==
    /\ wpc = "done"
    /\ m_busy' = FALSE /\ src' = NoFile
    /\ wpc' = "wait"
    /\ UNCHANGED <<loggerVars, files, m_q, m_stop, faults>>
-----------------------------------------------------------------------------
run == \/ compressor_exit \/ compressor_take \/ compress_file
       \/ compress_publish \/ compress_remove \/ compressor_done

\* What the thread in write_log() or in the destructor does next.
Continue == \/ write_log_append \/ rotate_current_file \/ rotate_rename_fails
            \/ retention_list \/ retention_remove
            \/ compressor_stop \/ compressor_join

Next ==
    \/ \E day \in Days, size \in Sizes : write_log(day, size)
    \/ \E day \in Days : clear_logs(day)
    \/ stop_logging
    \/ Continue
    \/ run

Spec == Init /\ [][Next]_vars

\* Both threads run, and a call that was begun goes on.
Fairness == WF_vars(Continue) /\ WF_vars(run)

FairSpec == Spec /\ Fairness
-----------------------------------------------------------------------------
(* Properties *)

FileNames == [day : Days, stamp : Nat, index : Nat, suffix : {".log", ".gz", ".gz.tmp"}]
Record == [id : 1..MaxRecords, size : Sizes]

\* Every variable has its type; the compressor is busy exactly while its
\* thread holds a file.
TypeOK ==
    /\ m_config \in Configs
    /\ DOMAIN files \subseteq FileNames
    /\ \A n \in DOMAIN files : files[n] \in Seq(Record)
    /\ m_file \in {CurrentName(d) : d \in Days} \cup {NoFile}
    /\ m_current_date_ts \in Days /\ m_current_file_size \in Nat
    /\ pc \in {"idle", "opened", "retain", "remove", "written",
               "stopping", "joining", "destroyed"}
    /\ doomed \subseteq FileNames
    /\ ToSet(m_q) \subseteq FileNames
    /\ m_busy \in BOOLEAN /\ m_stop \in BOOLEAN
    /\ src \in FileNames \cup {NoFile} /\ m_busy = (src # NoFile)
    /\ wpc \in {"none", "wait", "compress", "publish", "remove", "done", "exited"}
    /\ records \in 0..MaxRecords /\ lost \subseteq 1..MaxRecords

\* The open stream is the file of the current date.  That file is on disk,
\* whatever retention, remove_old_logs() and the compressor removed, and
\* m_current_file_size is its size.
OpenFileIsCurrent ==
    m_file # NoFile =>
        /\ m_file = CurrentName(m_current_date_ts)
        /\ m_file \in DOMAIN files
        /\ m_current_file_size = Bytes(files[m_file])

\* Temporary files do not outlive their compression, nor the logger.
NoTemporaryLeft ==
    \A n \in DOMAIN files :
        n.suffix = ".gz.tmp" => wpc = "publish" /\ n = Temporary(src)

\* The directory in one invariant: types, the open file, the temporary files.
Safety == TypeOK /\ OpenFileIsCurrent /\ NoTemporaryLeft

\* Without a failure of the file system write_log() gives no record up.  After
\* one it does so only while no file is open and the day stays the same: a
\* change of day recovers.
LossNeedsFailure ==
    lost' # lost =>
        /\ faults' > 0
        /\ \/ faults' # faults
           \/ m_file = NoFile /\ m_current_date_ts' = m_current_date_ts

\* The records in the log files and archives; temporary files do not count.
Kept(dir) == UNION {ToSet(dir[n]) : n \in {f \in DOMAIN dir : ValidLogName(f)}}

\* The compressor never removes the last copy of a record, unless the rotation
\* had given one name to two files or the logger deleted the archive.
CompressionKeepsRecords ==
    src # NoFile /\ wpc' # wpc =>
        \/ Kept(files) \subseteq Kept(files')
        \/ given[src] > 1
        \/ Archive(src) \in deleted

\* Neither write_log() nor the compressor loses a record: LossNeedsFailure and
\* CompressionKeepsRecords of every step.
RecordsAreKept == [][LossNeedsFailure /\ CompressionKeepsRecords]_vars

\* The copies compression makes of a rotated file share its plain name.
Plain(name) == [name EXCEPT !.suffix = ".log"]

\* enforce_rotation_retention() leaves at most max_rotated_files rotated files
\* of the day.  The compressor may have added one, and may have turned some
\* that were to be removed into archives that stay until the next rotation.
RetentionBound ==
    pc = "remove" /\ pc' = "written" =>
        LET left == {n \in Rotated(files', m_current_date_ts) : Plain(n) \notin doomed}
        IN  Cardinality(left) <= m_config.max_rotated_files
                + (IF wpc \in {"none", "wait", "done"} THEN 0 ELSE 1)

\* "chronological sorting" in enforce_rotation_retention(): a file it removes is
\* older than every other rotated file it keeps.  Not so when the name does not
\* tell its age: the rotation gave the name of one of them twice, or made the name
\* of the removed one at an earlier time of day than that of an older file.
RetentionRemovesOldest ==
    pc = "remove" /\ pc' = "written" =>
        \A gone \in DOMAIN files \ DOMAIN files' :
            \A kept \in Rotated(files', m_current_date_ts) :
                \/ Plain(gone) = Plain(kept)
                \/ given[Plain(gone)] > 1 \/ given[Plain(kept)] > 1
                \/ Plain(gone) \in late
                \/ \A r1 \in ToSet(files[gone]), r2 \in ToSet(files[kept]) :
                      r1.id < r2.id

\* enforce_rotation_retention() removes as many files as it must, the oldest
\* ones: RetentionBound and RetentionRemovesOldest of every step.
Retention == [][RetentionBound /\ RetentionRemovesOldest]_vars

\* The destructor returns, after every rotated file in the queue was handled.
DestructorDrains ==
    /\ (pc = "stopping") ~> (pc = "destroyed")
    /\ [](pc = "destroyed" => m_q = <<>> /\ src = NoFile)

\* "0 = unlimited": with max_rotated_files = 0, and nothing cleared or too
\* old (a single day), every record that was written stays on disk.
UnlimitedKeepsRecords ==
    m_config.max_rotated_files = 0 /\ clears = 0 /\ Cardinality(Days) = 1 /\ pc = "idle" =>
        \A i \in 1..records : i \in lost \/ \E r \in Kept(files) : r.id = i
=============================================================================
