------------------------------ MODULE CrashRing ------------------------------
(***************************************************************************)
(* CrashPosixLogger and CrashWindowsLogger: log() copies its message into  *)
(* a ring of bytes without a lock, and a fatal signal (an unhandled        *)
(* exception) writes the ring to the crash file and ends the process.      *)
(*                                                                         *)
(* A byte is <<record, position>>; position 0 is the newline that ends the *)
(* message.  A step is one atomic operation or one copy; the dump happens  *)
(* between any two of them, and the other threads go on while it writes.   *)
(* A record below the level of the logger is never copied, and left out.   *)
(***************************************************************************)
EXTENDS Callers

CONSTANTS
    Lengths,      \* lengths of a message
    Capacities    \* values of Config::buffer_size

VARIABLE crash

Zero == <<0, 0>>                  \* what the ring holds before the first message
Ready == [pc |-> "idle", r |-> 0, start |-> 0, len |-> 0, from |-> 0]

\* The constructors: a buffer of no bytes becomes a buffer of one, and the
\* logger is the active one.
Start ==
    {[windows |-> w, capacity |-> IF c = 0 THEN 1 ELSE c,
      open |-> o, active |-> TRUE, next_offset |-> 0, committed |-> 0,
      ring |-> [i \in 0..(IF c = 0 THEN 1 ELSE c) - 1 |-> Zero],
      at |-> [t \in Threads |-> Ready],
      stream |-> <<>>, lapped |-> FALSE, calls |-> 0,
      handler |-> [pc |-> "none", committed |-> 0, logged |-> 0, quiet |-> TRUE], dump |-> <<>>, marked |-> FALSE] :
        w \in BOOLEAN, c \in Capacities, o \in BOOLEAN}

Init == crash \in Start
-----------------------------------------------------------------------------
(* log() *)

Live == crash.handler.pc # "exited"
Goto(s, t, p) == [s EXCEPT !.at[t].pc = p]
Byte(w, i) == IF i > w.len THEN <<w.r, 0>> ELSE <<w.r, w.from + i>>

\* The offsets a writer has reserved; the ring cells that are its own.
Span(w) == w.start..w.start + w.len
Cells(s, offsets) == {o % s.capacity : o \in offsets}
Writers(s) == {t \in Threads : s.at[t].pc # "idle"}

\* Of a message that does not fit the end is kept, with room for the newline.
copy_len(s, len) == IF len >= s.capacity THEN s.capacity - 1 ELSE len

Reserve(t) ==
    \E len \in Lengths :
        LET s == crash
            n == copy_len(s, len)
            w == [pc |-> "copy", r |-> s.calls + 1, start |-> s.next_offset, len |-> n, from |-> len - n]
        IN  /\ s.at[t].pc = "idle" /\ s.calls < MaxCalls /\ Live
            /\ crash' = [s EXCEPT !.at[t] = w, !.calls = @ + 1, !.next_offset = @ + n + 1,
                                  !.stream = @ \o [i \in 1..n + 1 |-> Byte(w, i)],
                                  !.lapped = @ \/ \E u \in Writers(s) :
                                        Cells(s, Span(w)) \cap Cells(s, Span(s.at[u])) # {}]

\* Positions lo..hi of the message go to their cells.
Copied(s, w, lo, hi) ==
    [s EXCEPT !.ring = [c \in DOMAIN s.ring |->
        IF \E i \in lo..hi : (w.start + i - 1) % s.capacity = c
        THEN Byte(w, CHOOSE i \in lo..hi : (w.start + i - 1) % s.capacity = c) ELSE s.ring[c]]]

FirstPart(s, w) == LET room == s.capacity - (w.start % s.capacity) IN IF w.len < room THEN w.len ELSE room

\* memcpy() up to the end of the ring, memcpy() of the rest from its beginning.
CopyFirst(t) ==
    LET w == crash.at[t] IN
    /\ w.pc = "copy" /\ Live
    /\ crash' = Goto(Copied(crash, w, 1, FirstPart(crash, w)), t,
                     IF FirstPart(crash, w) < w.len THEN "wrap" ELSE "newline")

CopyRest(t) ==
    LET w == crash.at[t] IN
    /\ w.pc = "wrap" /\ Live
    /\ crash' = Goto(Copied(crash, w, FirstPart(crash, w) + 1, w.len), t, "newline")

Newline(t) ==
    LET w == crash.at[t] IN
    /\ w.pc = "newline" /\ Live
    /\ crash' = Goto(Copied(crash, w, w.len + 1, w.len + 1), t, "commit")

\* m_committed only grows: a later message may have committed already.
Committed_Stored(s, w) == w.start + w.len + 1
Committed(s, w) == IF s.committed < w.start + w.len + 1 THEN w.start + w.len + 1 ELSE s.committed

Commit(t) ==
    LET w == crash.at[t] IN
    /\ w.pc = "commit" /\ Live
    /\ crash' = [crash EXCEPT !.committed = Committed(crash, w), !.at[t] = Ready]

WriteRing(t) == CopyFirst(t) \/ CopyRest(t) \/ Newline(t) \/ Commit(t)
CrashPosixLogger_log(t) == ~crash.windows /\ (Reserve(t) \/ WriteRing(t))
CrashWindowsLogger_log(t) == crash.windows /\ (Reserve(t) \/ WriteRing(t))
-----------------------------------------------------------------------------
(* The handler *)

\* The destructor: no handler uses the logger any more.
destroy ==
    /\ Live /\ crash.active /\ Writers(crash) = {} /\ crash.handler.pc = "none"
    /\ crash' = [crash EXCEPT !.active = FALSE]

\* Nobody is logging, or has logged since the first so many bytes.
Quiet(s, bytes) == Writers(s) = {} /\ s.next_offset = bytes

Raise(s) ==
    [s EXCEPT !.handler = [pc |-> IF s.active /\ s.open THEN "write" ELSE "exited",
                           committed |-> s.committed, logged |-> s.next_offset,
                           quiet |-> Quiet(s, s.next_offset)]]

signal_handler ==
    /\ ~crash.windows /\ crash.handler.pc = "none" /\ crash' = Raise(crash)

exception_filter ==
    /\ crash.windows /\ crash.handler.pc = "none" /\ crash' = Raise(crash)

\* The dump is the last bytes committed when it began: up to the end of the
\* ring, and then from its beginning.
Available(s) == IF s.handler.committed > s.capacity THEN s.capacity ELSE s.handler.committed
StartOffset(s) == s.handler.committed - Available(s)

Piece(s, lo, hi) == [i \in 1..hi - lo |-> s.ring[(StartOffset(s) + lo + i - 1) % s.capacity]]
ToEnd(s) == LET room == s.capacity - (StartOffset(s) % s.capacity)
            IN  IF Available(s) < room THEN Available(s) ELSE room

DumpFirst_AwaitsWriters ==
    /\ crash.handler.pc = "write" /\ Writers(crash) = {}
    /\ crash' = [crash EXCEPT !.dump = Piece(crash, 0, ToEnd(crash)), !.handler.pc = "rest"]

DumpFirst ==
    /\ crash.handler.pc = "write"
    /\ crash' = [crash EXCEPT !.dump = Piece(crash, 0, ToEnd(crash)), !.handler.pc = "rest",
                              !.handler.quiet = @ /\ Quiet(crash, crash.handler.logged)]

DumpRest ==
    /\ crash.handler.pc = "rest"
    /\ crash' = [crash EXCEPT !.dump = @ \o Piece(crash, ToEnd(crash), Available(crash)),
                              !.handler.pc = "marker", !.handler.quiet = @ /\ Quiet(crash, crash.handler.logged)]

\* The marker names the signal (the exception code); then the process ends.
WriteMarker ==
    /\ crash.handler.pc = "marker"
    /\ crash' = [crash EXCEPT !.marked = TRUE, !.handler.pc = "exited"]

CrashPosixLogger_write_snapshot == ~crash.windows /\ (DumpFirst \/ DumpRest \/ WriteMarker)
CrashWindowsLogger_write_snapshot == crash.windows /\ (DumpFirst \/ DumpRest \/ WriteMarker)

Dump == CrashPosixLogger_write_snapshot \/ CrashWindowsLogger_write_snapshot

Next ==
    \/ \E t \in Threads : CrashPosixLogger_log(t) \/ CrashWindowsLogger_log(t)
    \/ destroy \/ signal_handler \/ exception_filter \/ Dump

\* A handler that has begun is run to its end.
Fairness == WF_crash(Dump)

Spec == Init /\ [][Next]_crash /\ Fairness
-----------------------------------------------------------------------------
(* write_marker(): the digits of a number, built backwards, and safe_write() *)

digits[n \in 0..300, base \in {10, 16}] ==
    IF n < base THEN <<n>> ELSE Append(digits[n \div base, base], n % base)

Parts == UNION {[1..k -> 0..3] : k \in 0..3}

\* What reaches the file when write() takes the bytes in parts of the given
\* sizes; a part of size 0 is an error and ends it.
safe_write[size \in 0..6, parts \in Parts] ==
    IF size = 0 \/ parts = <<>> \/ Head(parts) = 0 THEN 0
    ELSE LET n == IF Head(parts) < size THEN Head(parts) ELSE size
         IN  n + safe_write[size - n, Tail(parts)]
-----------------------------------------------------------------------------
\* The values the state may take.
TypeOK ==
    /\ crash.ring \in [0..crash.capacity - 1 -> {Zero} \cup Elements(crash.stream)]
    /\ crash.committed <= crash.next_offset /\ crash.next_offset = Len(crash.stream)
    /\ Len(crash.dump) <= crash.capacity

\* Where no two messages were ever copied at the same time into the same cells,
\* every committed byte among the last capacity ones is in its place, except
\* those of a message that is still being copied.
RingHoldsTheTail ==
    ~crash.lapped =>
        \A o \in 0..crash.committed - 1 :
            o >= crash.next_offset - crash.capacity
            /\ (\A t \in Writers(crash) : o \notin Span(crash.at[t]))
               => crash.ring[o % crash.capacity] = crash.stream[o + 1]

\* A dump during which nobody was logging is the end of the log: the last bytes
\* logged, in order, as many as the ring holds.
DumpIsTheTail ==
    LET n == crash.handler.logged IN
    crash.marked /\ crash.handler.quiet /\ ~crash.lapped =>
        /\ Len(crash.dump) = Min({crash.capacity, n})
        /\ crash.dump = SubSeq(crash.stream, n - Len(crash.dump) + 1, n)

\* The digits of the marker read back as the number, and a short write loses
\* nothing unless write() fails or the parts end.
MarkerIsExact ==
    crash.calls = 0 /\ crash.handler.pc = "none" =>
        /\ \A n \in {0, 1, 9, 10, 11, 15, 16, 128, 255, 256, 300}, base \in {10, 16} :
              FoldLeft(LAMBDA v, d : base * v + d, 0, digits[n, base]) = n
        /\ \A size \in 0..6, parts \in Parts :
              LET sum == FoldLeft(LAMBDA v, p : v + p, 0, parts)
              IN  (0 \notin Elements(parts)) => safe_write[size, parts] = Min({size, sum})

\* The ring and its dump in one invariant.
Safety == TypeOK /\ RingHoldsTheTail /\ DumpIsTheTail /\ MarkerIsExact
=============================================================================
