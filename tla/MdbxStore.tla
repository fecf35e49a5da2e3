------------------------------ MODULE MdbxStore ------------------------------
(***************************************************************************)
(* MdbxLogger: records go through a bounded queue to a worker that writes  *)
(* them in batches, one transaction of the database per batch, and then    *)
(* tells the subscribers.  The tables survive the process; the queue, the  *)
(* sequence numbers handed out and the current session do not.             *)
(*                                                                         *)
(* A step is one critical section of m_mutex or one transaction under      *)
(* m_db_mutex.  A thread that sleeps on m_cv or m_space_cv has pc "asleep" *)
(* and the name of the variable in on; the worker's own wait has a         *)
(* timeout.  The identifiers of make_unique_id() are numbers not in use    *)
(* (the code tries candidates until one is free).                          *)
(***************************************************************************)
EXTENDS Callers

CONSTANTS
    Shapes,       \* records: [ts, large], timestamp and whether the message spills
    MaxSequence,  \* the largest sequence number of a timestamp
    MaxBatch,     \* max_batch_size
    MaxQueue,     \* max_queue_size; 0: unlimited
    ClearOptions, \* the sets of tables a clear_logs() may name
    MaxOpens      \* bound on the processes that open the store in turn

VARIABLE mdbx

Times == {sh.ts : sh \in Shapes}

Worker == "worker"
Actors == Threads \cup {Worker}
Ready == [pc |-> "idle", on |-> "", r |-> 0, seen |-> {}, batch |-> <<>>, opt |-> {}]

\* What a process holds in memory, after the constructor.
Fresh(async, drop, session) ==
    [async |-> async, drop |-> drop, session |-> session,
     queue |-> <<>>, idle |-> TRUE, m_stopping |-> FALSE, m_shutdown |-> FALSE,
     next |-> [ts \in Times |-> 0], m_dropped |-> 0, failed_writes |-> 0, down |-> FALSE,
     at |-> [x \in Actors |-> IF x = Worker THEN [Ready EXCEPT !.pc = IF async THEN "top" ELSE "exited"]
                              ELSE Ready]]

\* open_session(): the session that was asked for, found or created, or a new one.
open_session(sessions, id) == {s \in sessions : s.id # id} \cup {[id |-> id, ended |-> FALSE]}

NewId(used) == Max(used \cup {0}) + 1
SessionIds(tables) == {s.id : s \in tables.sessions}

\* A record's file and payload are not told apart; large: it spills.
Start ==
    {[mem |-> Fresh(a, d, 1),
      tables |-> [records |-> {}, payloads |-> {}, sessions |-> open_session({}, 1)],
      log |-> <<>>, dropped |-> {}, failed |-> {}, lost |-> {}, cleared |-> {}, notified |-> <<>>,
      calls |-> 0, faults |-> 0, opens |-> 1, cuts |-> {}, early |-> {}] : a \in BOOLEAN, d \in BOOLEAN}

Init == mdbx \in {s \in Start : ~s.mem.async => ~s.mem.drop}
-----------------------------------------------------------------------------
(* Steps as functions of the state *)

Goto(s, x, p) == [s EXCEPT !.mem.at[x].pc = p]
Return(s, x) == [s EXCEPT !.mem.at[x] = Ready]
Sleep(s, x, cv) == [s EXCEPT !.mem.at[x].pc = "asleep", !.mem.at[x].on = cv]
Drop(s, r) == [s EXCEPT !.mem.m_dropped = @ + 1, !.dropped = @ \cup {r}]
Everything(s) == 1..Len(s.log)

notify_all_Missing(s, cv) == s
notify_all(s, cv) == [s EXCEPT !.mem.at = [x \in Actors |->
                        IF s.mem.at[x].pc = "asleep" /\ s.mem.at[x].on = cv
                        THEN [s.mem.at[x] EXCEPT !.pc = "awake"] ELSE s.mem.at[x]]]
-----------------------------------------------------------------------------
(* The transaction *)

Keys(w) == {<<k.ts, k.seq>> : k \in w.tables.records}

\* The first sequence number, from the one remembered, whose key is free.
next_record_key_NoLookup(w, ts) == IF w.next[ts] <= MaxSequence THEN {w.next[ts]} ELSE {}

next_record_key(w, ts) ==
    LET free == {q \in w.next[ts]..MaxSequence : <<ts, q>> \notin Keys(w)}
    IN  IF free = {} THEN {} ELSE {Min(free)}

\* A large message goes to log_payloads and the record keeps a preview.  One that
\* does not compress is stored as it is, and counted as a failed write.
spill(w, large, compresses) ==
    IF large THEN [w EXCEPT !.tables.payloads = @ \cup {NewId(@)},
                            !.failed_writes = IF compresses THEN @ ELSE @ + 1] ELSE w

\* w: the tables inside the transaction, and the sequence numbers, which no
\* rollback restores.
write_item(s, w, r, plain) ==
    LET ts  == s.log[r].ts
        w2  == spill(w, s.log[r].large, r \notin plain)
        key == next_record_key(w, ts)
        new == [ts |-> ts, seq |-> Min(key), r |-> r, session |-> s.mem.session,
                payload |-> IF s.log[r].large THEN NewId(w.tables.payloads) ELSE 0]
    IN  IF ~w.ok THEN w
        ELSE IF key = {} THEN [w2 EXCEPT !.ok = FALSE]
        ELSE [w2 EXCEPT !.tables.records = {k \in @ : <<k.ts, k.seq>> # <<ts, Min(key)>>} \cup {new},
                        !.next[ts] = IF Min(key) = MaxSequence THEN @ ELSE Min(key) + 1]

\* plain: the records of the batch whose payload does not compress.
Transaction(s, batch, plain) ==
    FoldLeft(LAMBDA w, r : write_item(s, w, r, plain),
             [tables |-> s.tables, next |-> s.mem.next, ok |-> TRUE, failed_writes |-> 0], batch)

\* History: a batch that is committed between the transaction of a clear_logs() and
\* its reset of the sequence numbers.
NumberedEarly(s, batch) ==
    IF \E t \in Threads : s.mem.at[t].pc = "clearseq" THEN Elements(batch) ELSE {}

\* The batch is committed as a whole; any exception rolls it back, is counted
\* once, and nobody is told.
write_batch(x) ==
    LET s     == mdbx
        batch == s.mem.at[x].batch
    IN  \E plain \in SUBSET {r \in Elements(batch) : s.log[r].large} :
        LET w  == Transaction(s, batch, plain)
            s2 == [s EXCEPT !.mem.next = w.next, !.mem.failed_writes = @ + w.failed_writes,
                            !.faults = @ + Cardinality(plain)]
        IN  /\ s.mem.at[x].pc = "write" /\ s2.faults <= MaxFaults
            /\ \/ w.ok /\ mdbx' = Goto([s2 EXCEPT !.tables = w.tables,
                                                  !.early = @ \cup NumberedEarly(s, batch)], x, "notify")
               \/ /\ ~w.ok \/ s2.faults < MaxFaults
                  /\ mdbx' = Goto([s2 EXCEPT !.mem.failed_writes = @ + 1, !.failed = @ \cup Elements(batch),
                                             !.faults = IF w.ok THEN @ + 1 ELSE @], x, "written")

\* The subscribers, outside every lock.
notify_callbacks(x) ==
    /\ mdbx.mem.at[x].pc = "notify"
    /\ mdbx' = Goto([mdbx EXCEPT !.notified = @ \o mdbx.mem.at[x].batch], x, "written")

written(x) ==
    /\ mdbx.mem.at[x].pc = "written"
    /\ mdbx' = IF x = Worker
               THEN notify_all([mdbx EXCEPT !.mem.at[x] = [Ready EXCEPT !.pc = "top"], !.mem.idle = TRUE], "m_cv")
               ELSE Return(mdbx, x)
-----------------------------------------------------------------------------
(* log() *)

\* MaxCalls bounds the calls; a failure and a restart leave one call less
Call(t) == mdbx.mem.at[t].pc = "idle" /\ mdbx.calls + mdbx.faults + mdbx.opens <= MaxCalls
Counted == [mdbx EXCEPT !.calls = @ + 1]

Full(s) == MaxQueue > 0 /\ Len(s.mem.queue) >= MaxQueue

Enqueue(s, t) ==
    LET r == s.mem.at[t].r IN
    IF s.mem.m_stopping THEN Return(Drop(s, r), t)
    ELSE IF ~Full(s) THEN Return([s EXCEPT !.mem.queue = Append(@, r)], t)
    ELSE IF s.mem.drop THEN Return(Drop(s, r), t)
    ELSE Sleep(s, t, "m_space_cv")

log(t) ==
    \E shape \in Shapes :
        LET r == Len(mdbx.log) + 1
            s == [Counted EXCEPT !.log = Append(@, [ts |-> shape.ts, large |-> shape.large, by |-> t]),
                                 !.mem.at[t].r = r]
        IN  /\ Call(t)
            /\ mdbx' = IF s.mem.async THEN Enqueue(s, t)
                       ELSE IF s.mem.m_stopping THEN Return(Drop(s, r), t)
                       ELSE [Goto(s, t, "write") EXCEPT !.mem.at[t].batch = <<r>>]

log_awake(t) ==
    /\ mdbx.mem.at[t].pc = "awake" /\ mdbx.mem.at[t].on = "m_space_cv"
    /\ mdbx' = IF ~mdbx.mem.m_stopping /\ Full(mdbx) THEN Sleep(mdbx, t, "m_space_cv") ELSE Enqueue(mdbx, t)
-----------------------------------------------------------------------------
worker_loop ==
    LET s == mdbx
        n == IF Len(s.mem.queue) < MaxBatch THEN Len(s.mem.queue) ELSE MaxBatch
    IN  /\ s.mem.at[Worker].pc = "top"
        /\ \/ /\ s.mem.m_stopping /\ s.mem.queue = <<>>
              /\ mdbx' = notify_all(Goto([s EXCEPT !.mem.idle = TRUE], Worker, "exited"), "m_cv")
           \/ /\ n > 0
              /\ mdbx' = notify_all(Goto([s EXCEPT !.mem.idle = FALSE,
                                                   !.mem.queue = SubSeq(@, n + 1, Len(@)),
                                                   !.mem.at[Worker].batch = SubSeq(s.mem.queue, 1, n)],
                                         Worker, "write"), "m_space_cv")
-----------------------------------------------------------------------------
(* wait(), clear_logs(), shutdown() *)

Idle_QueueOnly(s) == s.mem.queue = <<>>
Idle(s) == s.mem.queue = <<>> /\ s.mem.idle

Pending(s) == {s.mem.at[t].r : t \in Threads}
WaitThen(s, t, opt) ==
    [Goto(s, t, "awake") EXCEPT !.mem.at[t].on = "m_cv", !.mem.at[t].opt = opt,
                                !.mem.at[t].seen = Everything(s) \ Pending(s)]

wait(t) == Call(t) /\ mdbx.mem.async /\ mdbx' = WaitThen(Counted, t, {})

clear_logs(t) ==
    \E opt \in ClearOptions :
        /\ Call(t)
        /\ mdbx' = IF mdbx.mem.async THEN WaitThen(Counted, t, opt)
                   ELSE [Goto(Counted, t, "clear") EXCEPT !.mem.at[t].opt = opt]

wait_test(t) ==
    LET s == mdbx IN
    /\ s.mem.at[t].pc = "awake" /\ s.mem.at[t].on = "m_cv"
    /\ mdbx' = IF ~Idle(s) THEN Sleep(s, t, "m_cv")
               ELSE IF s.mem.at[t].opt = {} THEN Return(s, t) ELSE Goto(s, t, "clear")

\* One transaction; with the sessions the current one is replaced, and
\* m_session_id keeps the new value when the transaction fails.
clear_tables(t) ==
    LET s   == mdbx
        opt == s.mem.at[t].opt
        id  == NewId(SessionIds(s.tables) \cup {s.mem.session})
        s2  == IF "sessions" \in opt THEN [s EXCEPT !.mem.session = id] ELSE s
        rs  == IF "records" \in opt THEN s.tables.records ELSE {}
    IN  /\ s.mem.at[t].pc = "clear"
        /\ \/ mdbx' = Goto([s2 EXCEPT
                 !.tables.records = @ \ rs,
                 !.tables.payloads = IF "payloads" \in opt THEN {} ELSE @,
                 !.tables.sessions = IF "sessions" \in opt THEN open_session({}, id) ELSE @,
                 !.cleared = @ \cup {k.r : k \in rs},
                 !.cuts = @ \cup {opt}], t, "clearseq")
           \/ /\ s.faults < MaxFaults
              /\ mdbx' = Return([s2 EXCEPT !.faults = @ + 1, !.cuts = @ \cup {{"failed"}}], t)

clear_sequences(t) ==
    /\ mdbx.mem.at[t].pc = "clearseq"
    /\ mdbx' = Return([mdbx EXCEPT !.mem.next = [ts \in Times |-> 0]], t)

shutdown(t) ==
    /\ Call(t) /\ ~mdbx.mem.m_shutdown
    /\ mdbx' = Goto([Counted EXCEPT !.mem.m_shutdown = TRUE], t, "stop")

shutdown_stop(t) ==
    /\ mdbx.mem.at[t].pc = "stop"
    /\ mdbx' = Goto([mdbx EXCEPT !.mem.m_stopping = TRUE], t, "wake")

shutdown_notify(t) ==
    /\ mdbx.mem.at[t].pc = "wake"
    /\ mdbx' = Goto(notify_all(notify_all(mdbx, "m_cv"), "m_space_cv"), t, "join")

shutdown_join(t) ==
    /\ mdbx.mem.at[t].pc = "join" /\ mdbx.mem.at[Worker].pc = "exited"
    /\ mdbx' = Goto(mdbx, t, "end")

\* The end of the session is written, and the session itself if it is missing.
update_session_end(t) ==
    LET s == mdbx IN
    /\ s.mem.at[t].pc = "end"
    /\ \/ mdbx' = Return([s EXCEPT !.mem.down = TRUE,
              !.tables.sessions = {x \in @ : x.id # s.mem.session}
                                  \cup {[id |-> s.mem.session, ended |-> TRUE]}], t)
       \/ /\ s.faults < MaxFaults
          /\ mdbx' = Return([s EXCEPT !.faults = @ + 1, !.mem.failed_writes = @ + 1, !.mem.down = TRUE,
                                      !.cuts = @ \cup {{"failed"}}], t)

\* The process ends, between any two steps, and another one opens the store.
InMemory(s) == Elements(s.mem.queue) \cup (Pending(s) \ {0})
               \cup UNION {Elements(s.mem.at[x].batch) : x \in Actors}

StoredIds(s) == {k.r : k \in s.tables.records}
Settled(s) == StoredIds(s) \cup s.failed \cup s.dropped \cup s.lost \cup s.cleared

reopen ==
    LET s == mdbx IN
    /\ s.opens < MaxOpens
    /\ \E id \in SessionIds(s.tables) \cup {NewId(SessionIds(s.tables))} :
          mdbx' = [s EXCEPT !.mem = Fresh(s.mem.async, s.mem.drop, id),
                            !.tables.sessions = open_session(@, id),
                            !.lost = @ \cup (InMemory(s) \ Settled(s)),
                            !.opens = @ + 1]
-----------------------------------------------------------------------------
Write(x) == write_batch(x) \/ notify_callbacks(x) \/ written(x)

Continue(t) ==
    \/ log_awake(t) \/ Write(t) \/ wait_test(t) \/ clear_tables(t) \/ clear_sequences(t)
    \/ shutdown_stop(t) \/ shutdown_notify(t) \/ shutdown_join(t) \/ update_session_end(t)

Begin(t) == log(t) \/ wait(t) \/ clear_logs(t) \/ shutdown(t)

Work == worker_loop \/ Write(Worker)

Next == (\E t \in Threads : Begin(t) \/ Continue(t)) \/ Work \/ reopen

Fairness == (\A t \in Threads : WF_mdbx(Continue(t))) /\ WF_mdbx(Work)

Spec == Init /\ [][Next]_mdbx /\ Fairness
-----------------------------------------------------------------------------
(* Reading *)

Before(a, b) == a.ts < b.ts \/ (a.ts = b.ts /\ a.seq < b.seq)

\* The records in [from, to) in the order of their keys, the first limit of
\* them; limit 0: all.
read_range(records, from, to, limit) ==
    LET all == SetToSortSeq({k \in records : k.ts >= from /\ k.ts < to}, Before)
    IN  IF limit = 0 \/ Len(all) <= limit THEN all ELSE SubSeq(all, 1, limit)

\* The last limit records up to now, not older than period.
read_recent(records, now, limit, period) ==
    LET all == read_range(records, IF period > 0 THEN now - period ELSE 0, now + 1, 0)
    IN  IF limit > 0 /\ Len(all) > limit THEN SubSeq(all, Len(all) - limit + 1, Len(all)) ELSE all
-----------------------------------------------------------------------------
\* The values the state may take.
TypeOK ==
    /\ mdbx.mem.next \in [Times -> 0..MaxSequence]
    /\ mdbx.mem.queue \in Seq(Everything(mdbx))
    /\ \A k \in mdbx.tables.records : k.ts \in Times /\ k.seq \in 0..MaxSequence /\ k.r \in Everything(mdbx)

\* Every record is accounted for exactly: still in memory, or stored, failed,
\* dropped, cleared, or lost with its process; a key holds one record, and a
\* record has one key.  No batch fails in silence: the counter says so.
StoreAccounting ==
    LET s == mdbx
        t == s.tables.records
    IN  /\ Everything(s) = InMemory(s) \cup Settled(s)
        /\ Cardinality(Keys(s)) = Cardinality(t) /\ Cardinality(StoredIds(s)) = Cardinality(t)
        /\ StoredIds(s) \cap (s.failed \cup s.dropped \cup s.lost \cup s.cleared) = {}
        /\ s.opens = 1 /\ s.failed # {} => s.mem.failed_writes > 0

\* A subscriber hears of a record once, and only of one that was committed.
NotifiedWereStored ==
    /\ IsInjective(mdbx.notified)
    /\ Elements(mdbx.notified) \subseteq StoredIds(mdbx) \cup mdbx.cleared

\* What a record refers to is there: its payload unless the payloads alone were
\* cleared, its session unless the sessions alone were cleared or a clear failed.
ReferencesResolve ==
    \A k \in mdbx.tables.records :
        /\ (\A c \in mdbx.cuts : "payloads" \in c => "records" \in c) => k.payload \in mdbx.tables.payloads \cup {0}
        /\ (\A c \in mdbx.cuts : c # {"failed"} /\ ("sessions" \in c => "records" \in c))
              => k.session \in SessionIds(mdbx.tables)

\* Records of one thread and timestamp are read in the order in which they were
\* logged, over a reopening of the store too.  Not so when a write failed and its
\* sequence number stayed free, or when the earlier record was committed after the
\* transaction of a clear_logs() and before its reset of the sequence numbers: it
\* has the old next number, and the reset makes the smaller ones free.
ReadInLogOrder ==
    mdbx.failed = {} =>
        \A a, b \in mdbx.tables.records :
            a.ts = b.ts /\ a.r < b.r /\ mdbx.log[a.r].by = mdbx.log[b.r].by /\ a.r \notin mdbx.early
                => a.seq < b.seq

\* The tables the reading functions are checked on.
SmallTables == SUBSET [ts : 1..3, seq : 0..1]

\* read_recent() with a limit gives the newest records of the period and no
\* others, and read_range() reads them in key order and cuts them at its limit:
\* reading on from the last timestamp read misses nothing.
ReadsAreExact ==
    mdbx.calls = 0 =>
    \A rs \in SmallTables, now \in 1..3, limit \in 1..2, period \in 0..1 :
        LET got  == Elements(read_recent(rs, now, limit, period))
            due  == {k \in rs : k.ts <= now /\ (period > 0 => k.ts >= now - period)}
            page == read_range(rs, 1, now + 1, limit)
            rest == read_range(rs, IF page = <<>> THEN 1 ELSE Last(page).ts, now + 1, 0)
        IN  /\ got \subseteq due /\ Cardinality(got) = Min({limit, Cardinality(due)})
            /\ \A k \in due \ got, g \in got : Before(k, g)
            /\ {k \in rs : k.ts <= now} = Elements(page) \cup Elements(rest)

\* Once shutdown() has returned the queue is drained, and the session has its end
\* unless writing it failed.
ShutdownEndsSession ==
    mdbx.mem.down => /\ mdbx.mem.queue = <<>> /\ mdbx.mem.at[Worker].pc = "exited"
                     /\ mdbx.cuts = {} => [id |-> mdbx.mem.session, ended |-> TRUE] \in mdbx.tables.sessions

\* The store in one invariant.
Safety ==
    TypeOK /\ StoreAccounting /\ NotifiedWereStored /\ ReferencesResolve /\ ReadInLogOrder
    /\ ReadsAreExact /\ ShutdownEndsSession

\* wait(), and the wait of clear_logs(): when it returns, the records logged
\* before the call are settled.
WaitStep ==
    \A t \in Threads :
        mdbx.mem.at[t].on = "m_cv" /\ mdbx.mem.at[t].pc = "awake" /\ mdbx'.mem.at[t].pc \in {"idle", "clear"}
        /\ mdbx'.opens = mdbx.opens
            => mdbx.mem.at[t].seen \subseteq Settled(mdbx)
=============================================================================
