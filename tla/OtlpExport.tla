----------------------------- MODULE OtlpExport -----------------------------
(***************************************************************************)
(* OtlpHttpLogger and OtlpPayloadLogger: a bounded queue, a worker that    *)
(* takes batches from it, splits them into payloads of bounded size, and   *)
(* posts them over HTTP (at most max_in_flight_requests at a time) or      *)
(* hands them to the callback of the user.  In the synchronous mode the    *)
(* caller of log() does the worker's part for its one record.              *)
(*                                                                         *)
(* A step is one critical section of m_state->mutex (m_mutex).  The        *)
(* threads that sleep on the condition variables cv and space_cv are those *)
(* whose pc is "asleep" with that name in on; the worker's own wait has a  *)
(* timeout, so it looks at the queue whenever it is scheduled.  The        *)
(* notify_one of log() is for the worker; another thread that it wakes     *)
(* finds its condition false and sleeps again.                             *)
(***************************************************************************)
EXTENDS Callers

CONSTANTS
    Sizes,        \* sizes of a serialized record
    MaxPayload,   \* max_payload_bytes; 0: no splitting
    MaxBatch,     \* max_batch_size
    Queues,       \* values of max_queue_size
    MaxInFlight   \* max_in_flight_requests

VARIABLE otlp

Worker == "worker"
Actors == Threads \cup {Worker}
Ready == [pc |-> "idle", on |-> "", r |-> 0, seen |-> {}, chunks |-> <<>>]

\* The constructors: a worker thread when the logger is asynchronous.
Start ==
    {[kind |-> k, on_payload |-> p, async |-> a, drop |-> d, cancel |-> c, max_queue |-> q,
      queue |-> <<>>, in_flight |-> 0, idle |-> TRUE, stopping |-> FALSE, lifecycle |-> {},
      m_dropped |-> 0, failed_exports |-> 0, net |-> {},
      at |-> [x \in Actors |-> IF x = Worker THEN [Ready EXCEPT !.pc = IF a THEN "top" ELSE "exited"]
                               ELSE Ready],
      size |-> <<>>, exported |-> <<>>, failed |-> {}, dropped |-> {}, ignored |-> {},
      calls |-> 0, faults |-> 0, down |-> FALSE] :
        k \in {"http", "payload"}, p \in BOOLEAN, a \in BOOLEAN, d \in BOOLEAN, c \in BOOLEAN, q \in Queues}

Init ==
    otlp \in {o \in Start :
                /\ o.kind = "payload" => ~o.cancel
                /\ ~o.async \/ ~o.on_payload => ~o.drop /\ o.max_queue = Min(Queues)
                /\ o.on_payload \/ o.kind = "payload"}
-----------------------------------------------------------------------------
(* build_otlp_logs_json_payload_chunks() *)

Weight(o, s) == FoldLeft(LAMBDA n, r : n + o.size[r], 0, s)

\* One record more: it joins the open payload, is sent alone because it is too
\* large, or opens the next payload.
Place(o, acc, r) ==
    CASE Weight(o, Append(acc.open, r)) <= MaxPayload -> [acc EXCEPT !.open = Append(@, r)]
      [] Weight(o, <<r>>) > MaxPayload /\ acc.open = <<>> -> [acc EXCEPT !.done = Append(@, <<r>>)]
      [] OTHER -> [done |-> Append(acc.done, acc.open), open |-> <<r>>]

Chunks(o, batch) ==
    LET acc == FoldLeft(LAMBDA a, r : Place(o, a, r), [done |-> <<>>, open |-> <<>>], batch)
    IN  IF MaxPayload = 0 THEN <<batch>>
        ELSE IF acc.open = <<>> THEN acc.done ELSE Append(acc.done, acc.open)
-----------------------------------------------------------------------------
(* Steps as functions of the state *)

Goto(o, x, p) == [o EXCEPT !.at[x].pc = p]
Return(o, t) == [o EXCEPT !.at[t] = Ready, !.lifecycle = @ \ {t}]
Sleep(o, x, cv) == [o EXCEPT !.at[x].pc = "asleep", !.at[x].on = cv]

\* A sleeper that is woken tests its condition again.
Awake(o, cv) == [o EXCEPT !.at = [x \in Actors |->
                   IF o.at[x].pc = "asleep" /\ o.at[x].on = cv
                   THEN [o.at[x] EXCEPT !.pc = "awake"] ELSE o.at[x]]]

notify_all(o, cv) == Awake(o, cv)

Drop(o, rs) == [o EXCEPT !.m_dropped = @ + Cardinality(rs), !.dropped = @ \cup rs]
Fail(o, rs) == [o EXCEPT !.failed_exports = @ + 1, !.failed = @ \cup rs]
Push(o, r) == [o EXCEPT !.queue = Append(@, r)]

\* A batch leaves the queue; whoever waits for space may go on.
TakeBatch(o) ==
    LET n == IF Len(o.queue) < MaxBatch THEN Len(o.queue) ELSE MaxBatch
        batch == SubSeq(o.queue, 1, n)
    IN  notify_all([o EXCEPT !.queue = SubSeq(@, n + 1, Len(@)), !.idle = o.kind = "http",
                             !.at[Worker].chunks = Chunks(o, batch)], "space_cv")
-----------------------------------------------------------------------------
(* log() *)

Call(t) == otlp.at[t].pc = "idle" /\ otlp.calls < MaxCalls
Logged(t, s) == [otlp EXCEPT !.calls = @ + 1, !.size = Append(@, s), !.at[t].r = Len(otlp.size) + 1]

\* The synchronous mode: the caller is its own worker.
Direct(o, t) == [o EXCEPT !.at[t].chunks = Chunks(o, <<o.at[t].r>>), !.at[t].pc = "compress"]

\* The asynchronous mode, under the mutex of the queue.  http: the lifecycle
\* mutex is given up while the call waits for space.
Enqueue(o, t) ==
    LET r == o.at[t].r IN
    IF o.stopping THEN Return(Drop(o, {r}), t)
    ELSE IF Len(o.queue) < o.max_queue THEN Return(Push(o, r), t)
    ELSE IF o.drop THEN Return(Drop(o, {r}), t)
    ELSE Sleep([o EXCEPT !.lifecycle = @ \ {t}], t, "space_cv")

OtlpHttpLogger_log(t) ==
    \E s \in Sizes :
        LET o == Logged(t, s) IN
        /\ otlp.kind = "http" /\ Call(t) /\ otlp.lifecycle = {}
        /\ otlp' = IF otlp.stopping THEN Return(Drop(o, {o.at[t].r}), t)
                   ELSE IF otlp.async THEN Enqueue(o, t)
                   ELSE Direct([o EXCEPT !.lifecycle = {t}], t)

\* Without a callback a record goes nowhere and is not counted.
OtlpPayloadLogger_log(t) ==
    \E s \in Sizes :
        LET o == Logged(t, s) IN
        /\ otlp.kind = "payload" /\ Call(t)
        /\ otlp' = IF ~otlp.on_payload THEN Return([o EXCEPT !.ignored = @ \cup {o.at[t].r}], t)
                   ELSE IF otlp.async THEN Enqueue(o, t)
                   ELSE IF otlp.stopping THEN Return(Drop(o, {o.at[t].r}), t)
                   ELSE [Direct(o, t) EXCEPT !.at[t].pc = "deliver"]

\* Woken on space_cv.  OtlpPayloadLogger goes on under the same lock;
\* OtlpHttpLogger first takes the lifecycle mutex again, and then everything
\* may have changed.
log_awake(t) ==
    /\ otlp.at[t].pc = "awake" /\ otlp.at[t].on = "space_cv"
    /\ otlp' = IF ~otlp.stopping /\ Len(otlp.queue) >= otlp.max_queue THEN Sleep(otlp, t, "space_cv")
               ELSE IF otlp.kind = "http" THEN Goto(otlp, t, "relock")
               ELSE Enqueue(otlp, t)

log_relock_Blind(t) ==
    /\ otlp.at[t].pc = "relock" /\ otlp.lifecycle = {}
    /\ otlp' = Return(Push(otlp, otlp.at[t].r), t)

log_relock(t) ==
    /\ otlp.at[t].pc = "relock" /\ otlp.lifecycle = {}
    /\ otlp' = Enqueue(otlp, t)
-----------------------------------------------------------------------------
(* The worker, and the caller of log() in the synchronous mode *)

worker_loop_http ==
    LET o == otlp IN
    /\ o.kind = "http" /\ o.at[Worker].pc = "top"
    /\ \/ /\ o.stopping /\ (o.cancel \/ (o.queue = <<>> /\ o.in_flight = 0))
          /\ otlp' = Goto(o, Worker, "exited")
       \/ /\ ~(o.stopping /\ o.cancel) /\ o.queue # <<>> /\ o.in_flight < MaxInFlight
          /\ otlp' = Goto(TakeBatch(o), Worker, "compress")

worker_loop_payload ==
    LET o == otlp IN
    /\ o.kind = "payload" /\ o.at[Worker].pc = "top"
    /\ \/ /\ o.stopping /\ o.queue = <<>>
          /\ otlp' = notify_all(Goto([o EXCEPT !.idle = TRUE], Worker, "exited"), "cv")
       \/ o.queue # <<>> /\ otlp' = Goto(TakeBatch(o), Worker, "deliver")

\* OtlpPayloadLogger: the callback of the user takes a payload, or throws.
deliver(x) ==
    /\ otlp.at[x].pc = "deliver" /\ otlp.at[x].chunks # <<>>
    /\ LET chunk == Head(otlp.at[x].chunks)
           o == [otlp EXCEPT !.at[x].chunks = Tail(@)]
       IN  \/ otlp' = [o EXCEPT !.exported = Append(@, chunk)]
           \/ otlp.faults < MaxFaults /\ otlp' = Fail([o EXCEPT !.faults = @ + 1], Elements(chunk))

delivered_Busy(x) ==
    /\ otlp.at[x].pc = "deliver" /\ otlp.at[x].chunks = <<>>
    /\ otlp' = IF x = Worker THEN Goto([otlp EXCEPT !.idle = TRUE], Worker, "top") ELSE Return(otlp, x)

delivered(x) ==
    /\ otlp.at[x].pc = "deliver" /\ otlp.at[x].chunks = <<>>
    /\ otlp' = IF x = Worker THEN notify_all(Goto([otlp EXCEPT !.idle = TRUE], Worker, "top"), "cv")
               ELSE Return(otlp, x)

\* submit_batch_async(), one payload: a failed compression is counted and the
\* payload sent as it is.
compress(x) ==
    /\ otlp.at[x].pc = "compress" /\ otlp.at[x].chunks # <<>>
    /\ \/ otlp' = Goto(otlp, x, "awake")
       \/ /\ otlp.faults < MaxFaults
          /\ otlp' = Goto(Fail([otlp EXCEPT !.faults = @ + 1], {}), x, "awake")

\* It waits for a free request slot, or is given up at a cancelling shutdown.
request_slot(x) ==
    LET o == otlp IN
    /\ o.at[x].pc = "awake" /\ o.at[x].chunks # <<>>
    /\ otlp' = IF o.stopping /\ o.cancel
               THEN Goto(Fail([o EXCEPT !.at[x].chunks = Tail(@)], Elements(Head(o.at[x].chunks))), x, "compress")
               ELSE IF o.in_flight < MaxInFlight
               THEN Goto([o EXCEPT !.in_flight = @ + 1], x, "post")
               ELSE Sleep(o, x, "cv")

Released(o) == notify_all([o EXCEPT !.in_flight = IF @ > 0 THEN @ - 1 ELSE @], "cv")

\* The HTTP client takes the request, or refuses it or throws.
post(x) ==
    LET chunk == Head(otlp.at[x].chunks)
        o == Goto([otlp EXCEPT !.at[x].chunks = Tail(@)], x, "compress")
    IN  /\ otlp.at[x].pc = "post"
        /\ \/ otlp' = [o EXCEPT !.net = @ \cup {chunk}]
           \/ /\ otlp.faults < MaxFaults
              /\ otlp' = Released(Fail([o EXCEPT !.faults = @ + 1], Elements(chunk)))

\* Nothing left to submit: the worker goes on, log() waits for its request.
submitted(x) ==
    /\ otlp.at[x].pc = "compress" /\ otlp.at[x].chunks = <<>>
    /\ otlp' = Goto(otlp, x, IF x = Worker THEN "top" ELSE "requests")

\* The response callback: any status but 2xx is a failed export.
on_response ==
    \E chunk \in otlp.net :
        LET o == Released([otlp EXCEPT !.net = @ \ {chunk}]) IN
        \/ otlp' = [o EXCEPT !.exported = Append(@, chunk)]
        \/ otlp.faults < MaxFaults /\ otlp' = Fail([o EXCEPT !.faults = @ + 1], Elements(chunk))
-----------------------------------------------------------------------------
(* wait() and shutdown() *)

Pending(o) == UNION {{o.at[x].r} : x \in {t \in Threads : o.at[t].r > 0}}
Everything(o) == 1..Len(o.size)

AllExported_IgnoresIdle(o) == o.queue = <<>>
AllExported(o) == o.queue = <<>> /\ (IF o.kind = "http" THEN o.in_flight = 0 ELSE o.idle)

wait(t) ==
    LET o == [otlp EXCEPT !.calls = @ + 1, !.at[t].seen = Everything(otlp) \ Pending(otlp)] IN
    /\ Call(t) /\ otlp.async
    /\ otlp' = [Goto(o, t, "awake") EXCEPT !.at[t].on = "cv"]

wait_test(t) ==
    /\ otlp.at[t].pc = "awake" /\ otlp.at[t].on = "cv" /\ otlp.at[t].chunks = <<>>
    /\ otlp' = IF AllExported(otlp) THEN Return(otlp, t) ELSE Sleep(otlp, t, "cv")

\* Only the first stop() does anything.
OtlpHttpLogger_stop(t) ==
    LET o == Goto([otlp EXCEPT !.calls = @ + 1, !.stopping = TRUE], t, "notify") IN
    /\ otlp.kind = "http" /\ Call(t) /\ otlp.lifecycle = {} /\ ~otlp.stopping
    /\ otlp' = IF ~otlp.cancel THEN o
               ELSE notify_all([Drop(o, Elements(o.queue)) EXCEPT !.queue = <<>>], "space_cv")

OtlpPayloadLogger_stop(t) ==
    /\ otlp.kind = "payload" /\ Call(t) /\ ~otlp.stopping
    /\ otlp' = Goto([otlp EXCEPT !.calls = @ + 1, !.stopping = TRUE], t, "notify")

stop_notify(t) ==
    /\ otlp.at[t].pc = "notify"
    /\ otlp' = Goto(notify_all(notify_all(otlp, "cv"), "space_cv"), t, "join")

stop_join(t) ==
    /\ otlp.at[t].pc = "join" /\ otlp.at[Worker].pc = "exited"
    /\ otlp' = IF otlp.kind = "http" /\ ~otlp.cancel THEN Goto(otlp, t, "requests")
               ELSE [Return(otlp, t) EXCEPT !.down = TRUE]

\* wait_requests() of the HTTP client, at the end of log() and of stop().
wait_requests(t) ==
    /\ otlp.at[t].pc = "requests" /\ otlp.net = {}
    /\ otlp' = [Return(otlp, t) EXCEPT !.down = @ \/ otlp.at[t].r = 0]
-----------------------------------------------------------------------------
Submit(x) ==
    deliver(x) \/ delivered(x) \/ compress(x) \/ request_slot(x) \/ post(x) \/ submitted(x)

Continue(t) ==
    \/ log_awake(t) \/ log_relock(t) \/ wait_test(t) \/ Submit(t)
    \/ stop_notify(t) \/ stop_join(t) \/ wait_requests(t)

Begin(t) ==
    \/ OtlpHttpLogger_log(t) \/ OtlpPayloadLogger_log(t) \/ wait(t)
    \/ OtlpHttpLogger_stop(t) \/ OtlpPayloadLogger_stop(t)

Work == worker_loop_http \/ worker_loop_payload \/ Submit(Worker)

Next == (\E t \in Threads : Begin(t) \/ Continue(t)) \/ Work \/ on_response

\* The worker runs, a call that can go on does, and the HTTP client answers
\* every request (it has a timeout).
Fairness ==
    /\ \A t \in Threads : WF_otlp(Continue(t))
    /\ WF_otlp(Work) /\ WF_otlp(on_response)

Spec == Init /\ [][Next]_otlp /\ Fairness
-----------------------------------------------------------------------------
\* The values the state may take.
TypeOK ==
    /\ otlp.queue \in Seq(Everything(otlp)) /\ otlp.in_flight \in 0..MaxInFlight
    /\ otlp.lifecycle \subseteq Threads /\ Cardinality(otlp.lifecycle) <= 1
    /\ \A x \in Actors : otlp.at[x].chunks \in Seq(Seq(Everything(otlp)))

Flat(ss) == FoldLeft(LAMBDA s, c : s \o c, <<>>, ss)
InHand(x) == Elements(Flat(otlp.at[x].chunks))
Settled == Elements(Flat(otlp.exported)) \cup otlp.failed \cup otlp.dropped \cup otlp.ignored
InFlight == UNION {Elements(c) : c \in otlp.net}

\* A record is in one place only, and nothing loses one: it is with its caller,
\* queued, in a batch, in a request, exported, failed or dropped (or there is no
\* callback to take it: then and only then it is ignored).  dropped_count()
\* is the number of records dropped, the request count is the number of requests
\* and never exceeds its limit, and a record is exported at most once.
ExportAccounting ==
    LET o == otlp
        waiting == {o.at[t].r : t \in {u \in Threads : o.at[u].r > 0 /\ o.at[u].chunks = <<>>
                                         /\ (o.at[u].on = "space_cv" \/ o.at[u].pc = "relock")}}
        held == UNION {InHand(x) : x \in Actors}
        posting == {x \in Actors : o.at[x].pc = "post"}
    IN  /\ Everything(o) = waiting \cup Elements(o.queue) \cup held \cup InFlight \cup Settled
        /\ Len(o.size) = Cardinality(waiting) + Len(o.queue) + Cardinality(held)
                         + Cardinality(InFlight) + Len(Flat(o.exported))
                         + Cardinality(o.failed) + Cardinality(o.dropped) + Cardinality(o.ignored)
        /\ o.ignored = IF o.on_payload THEN {} ELSE Everything(o)
        /\ o.m_dropped = Cardinality(o.dropped)
        /\ o.in_flight = Cardinality(o.net) + Cardinality(posting)
        /\ Len(o.queue) <= o.max_queue

\* No payload exceeds max_payload_bytes unless it holds a single record, and
\* none is closed while the record that follows would still have fitted.
PayloadsBounded ==
    MaxPayload > 0 =>
    \A x \in Actors : LET c == otlp.at[x].chunks IN
        /\ \A i \in DOMAIN c : c[i] # <<>> /\ (Len(c[i]) = 1 \/ Weight(otlp, c[i]) <= MaxPayload)
        /\ \A i \in 1..Len(c) - 1 : Weight(otlp, Append(c[i], Head(c[i + 1]))) > MaxPayload

\* shutdown() of an exporter that does not cancel exports what was accepted:
\* once it has returned every record is settled.
ShutdownExports ==
    otlp.down /\ otlp.async =>
        /\ otlp.at[Worker].pc = "exited" /\ otlp.queue = <<>>
        /\ ~otlp.cancel => Everything(otlp) \ Pending(otlp) \subseteq Settled

\* An exporter in one invariant.
Safety == TypeOK /\ ExportAccounting /\ PayloadsBounded /\ ShutdownExports

\* wait(): when it returns, the records logged before the call are settled.  Of
\* OtlpHttpLogger only those that its worker does not hold in a batch.
WaitStep ==
    \A t \in Threads :
        otlp.at[t].on = "cv" /\ otlp.at[t].chunks = <<>> /\ otlp.at[t].pc = "awake" /\ otlp'.at[t].pc = "idle"
            => otlp.at[t].seen \ Settled \subseteq (IF otlp.kind = "http" THEN InHand(Worker) ELSE {})
=============================================================================
