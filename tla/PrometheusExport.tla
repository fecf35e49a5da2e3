-------------------------- MODULE PrometheusExport --------------------------
(***************************************************************************)
(* PrometheusPayloadLogger and PrometheusHttpServerLogger: counters that   *)
(* log() updates without a lock, and collect_payload(), which reads them   *)
(* one by one under m_collect_mutex, lets the application add its own      *)
(* metrics, and is called by log() and wait() or by the handler of a       *)
(* scrape on the server thread.  The HTTP server itself is external: its   *)
(* thread serves one request at a time until stop(), and a stop() that     *)
(* comes before the thread has begun to serve is taken to end it as well.  *)
(***************************************************************************)
EXTENDS Callers

CONSTANT MaxClock   \* bound on the clock

VARIABLE prometheus

Server == "server"
Actors == Threads \cup {Server}
Ready == [pc |-> "idle", ts |-> 0, now |-> 0, todo |-> <<>>, sample |-> <<>>, floor |-> 0]

\* The options of both Config structures; start_immediately runs start().
Start ==
    {[kind |-> k, emit_on_log |-> el, emit_on_wait |-> ew,
      last_log_ts |-> 0, records |-> 0, dropped |-> 0, failed |-> 0, collect_mutex |-> {},
      running |-> (k = "http"), serving |-> (k = "http"), scrapes |-> 0, scrape_errors |-> 0, last_scrape |-> 0,
      at |-> [x \in Actors |-> Ready], clock |-> 1, calls |-> 0, faults |-> 0,
      started |-> 0, finished |-> 0, throws |-> 0, collected |-> <<>>, stopped |-> FALSE] :
        k \in {"payload", "http"}, el \in BOOLEAN, ew \in BOOLEAN}

Init == prometheus \in {p \in Start : p.kind = "http" => ~p.emit_on_log /\ ~p.emit_on_wait}
-----------------------------------------------------------------------------
(* PrometheusLoggerMetrics *)

\* a record may be stamped after the collection has read the clock
time_since_last_log_ms(p, now) == IF p.last_log_ts > 0 /\ now > p.last_log_ts THEN now - p.last_log_ts ELSE 0

\* on_log(): two atomics, the timestamp first
on_log(p, x) == [p EXCEPT !.last_log_ts = p.at[x].ts]
count_record(p) == [p EXCEPT !.records = @ + 1]
add_failed_export(p) == [p EXCEPT !.failed = @ + 1, !.throws = @ + 1, !.faults = @ + 1]

\* build_builtin_metrics(), then build_scrape_metrics() of the HTTP server; the
\* build information and the duration of a collection are left out
Families(p) ==
    <<"records", "dropped", "failed", "last_log_ts", "time_since">>
    \o IF p.kind = "http" THEN <<"scrapes", "scrape_errors", "last_scrape">> ELSE <<>>

Value(p, x, family) ==
    IF family = "time_since" THEN time_since_last_log_ms(p, p.at[x].now) ELSE p[family]
-----------------------------------------------------------------------------
Goto(p, x, pc) == [p EXCEPT !.at[x].pc = pc]
Return(p, x) == [p EXCEPT !.at[x] = Ready]
Call(t) == prometheus.at[t].pc = "idle" /\ prometheus.calls < MaxCalls
Counted(p) == [p EXCEPT !.calls = @ + 1]

log(t) ==
    /\ Call(t)
    /\ prometheus' = [Counted(prometheus) EXCEPT
           !.at[t].pc = "on_log", !.at[t].ts = prometheus.clock, !.started = @ + 1]

log_timestamp(t) ==
    /\ prometheus.at[t].pc = "on_log"
    /\ prometheus' = Goto(on_log(prometheus, t), t, "count")

log_count(t) ==
    LET p == count_record(prometheus) IN
    /\ prometheus.at[t].pc = "count"
    /\ prometheus' = IF p.kind = "payload" /\ p.emit_on_log THEN Goto(p, t, "collect")
                     ELSE [Return(p, t) EXCEPT !.finished = @ + 1]

wait(t) ==
    /\ Call(t)
    /\ prometheus.kind = "payload" /\ prometheus.emit_on_wait
    /\ prometheus' = Goto(Counted(prometheus), t, "collect")

\* the handler of a GET on the metrics path
scrape ==
    /\ prometheus.serving /\ prometheus.at[Server].pc = "idle" /\ prometheus.calls < MaxCalls
    /\ prometheus' = [Goto(Counted(prometheus), Server, "collect") EXCEPT
           !.scrapes = @ + 1, !.last_scrape = prometheus.clock]

\* collect_payload(): the lock is held until the metrics are built
collect_payload(x) ==
    /\ prometheus.at[x].pc = "collect" /\ prometheus.collect_mutex = {}
    /\ prometheus' = [prometheus EXCEPT
           !.collect_mutex = {x},
           !.at[x] = [@ EXCEPT !.pc = "load", !.now = prometheus.clock, !.todo = Families(prometheus),
                               !.floor = prometheus.finished]]

build_builtin_metrics(x) ==
    LET a == prometheus.at[x] IN
    /\ a.pc = "load" /\ a.todo # <<>>
    /\ prometheus' = [prometheus EXCEPT
           !.at[x].todo = Tail(@), !.at[x].sample = Append(@, Value(prometheus, x, Head(a.todo)))]

\* on_collect() (absent is as good as one that returns) adds the metrics of the
\* application, or throws; then the unlock
on_collect(x) ==
    LET p == [prometheus EXCEPT !.at[x].pc = "emit", !.collect_mutex = @ \ {x},
                                !.collected = Append(@, [sample |-> prometheus.at[x].sample,
                                                         floor |-> prometheus.at[x].floor,
                                                         ceiling |-> prometheus.started])]
    IN /\ prometheus.at[x].pc = "load" /\ prometheus.at[x].todo = <<>>
       /\ \/ prometheus' = p
          \/ prometheus.faults < MaxFaults /\ prometheus' = add_failed_export(p)

Done(p, x) == IF x \in Threads /\ p.at[x].ts > 0 THEN [Return(p, x) EXCEPT !.finished = @ + 1] ELSE Return(p, x)

\* on_payload() takes the text, or throws; the server writes the response
emit(x) ==
    /\ prometheus.at[x].pc = "emit"
    /\ \/ prometheus' = Done(prometheus, x)
       \/ /\ prometheus.faults < MaxFaults
          /\ prometheus' = IF x = Server
                           THEN Done([prometheus EXCEPT !.scrape_errors = @ + 1, !.faults = @ + 1], x)
                           ELSE Done(add_failed_export(prometheus), x)

\* start() by a caller that has the logger to itself
start(t) ==
    /\ Call(t) /\ prometheus.kind = "http" /\ ~prometheus.running
    /\ \A u \in Threads : prometheus.at[u].pc = "idle"
    /\ prometheus' = [Counted(prometheus) EXCEPT !.running = TRUE, !.serving = TRUE, !.stopped = FALSE]

\* the first stop() after a start() takes m_running; any other returns at once
stop(t) ==
    /\ Call(t) /\ prometheus.kind = "http"
    /\ prometheus' = IF prometheus.running
                     THEN [Goto(Counted(prometheus), t, "join") EXCEPT !.running = FALSE, !.serving = FALSE]
                     ELSE Counted(prometheus)

stop_join_Detached(t) ==
    /\ prometheus.at[t].pc = "join"
    /\ prometheus' = [Return(prometheus, t) EXCEPT !.stopped = TRUE]

stop_join(t) ==
    /\ prometheus.at[t].pc = "join" /\ prometheus.at[Server].pc = "idle"
    /\ prometheus' = [Return(prometheus, t) EXCEPT !.stopped = TRUE]

get_int_param(p, param) ==
    CASE param = "LastLogTimestamp" -> p.last_log_ts
      [] param = "TimeSinceLastLog" -> time_since_last_log_ms(p, p.clock)
      [] param = "DroppedLogCount" -> p.dropped
      [] param = "FailedExportCount" -> p.failed
      [] OTHER -> 0

tick == prometheus.clock < MaxClock /\ prometheus' = [prometheus EXCEPT !.clock = @ + 1]

Step(x) == collect_payload(x) \/ build_builtin_metrics(x) \/ on_collect(x) \/ emit(x)
Body(t) == log_timestamp(t) \/ log_count(t) \/ stop_join(t)

Next ==
    \/ \E t \in Threads : log(t) \/ wait(t) \/ start(t) \/ stop(t) \/ Body(t)
    \/ \E x \in Actors : Step(x)
    \/ scrape \/ tick

Fairness == \A x \in Actors : WF_prometheus(Step(x)) /\ (x \in Threads => WF_prometheus(Body(x)))
Spec == Init /\ [][Next]_prometheus /\ Fairness
-----------------------------------------------------------------------------
\* The values the state may take.
TypeOK ==
    /\ prometheus.records \in 0..MaxCalls /\ prometheus.failed \in 0..MaxFaults
    /\ prometheus.collect_mutex \subseteq Actors /\ Cardinality(prometheus.collect_mutex) <= 1
    /\ \A x \in Actors : prometheus.at[x].pc \in
           {"idle", "on_log", "count", "collect", "load", "emit", "join"}

Counters(p) == {1, 2, 3} \cup IF p.kind = "http" THEN {6, 7} ELSE {}

(* The counters of successive collections never go back, although they are *)
(* read one by one while other threads log: m_collect_mutex orders the     *)
(* collections.                                                            *)
CountersNeverGoBack ==
    \A i, j \in DOMAIN prometheus.collected : i < j =>
        \A c \in Counters(prometheus) :
            prometheus.collected[i].sample[c] <= prometheus.collected[j].sample[c]

(* A collection counts every log() call that had returned when it began,   *)
(* and none that has not started; the age it reports is never negative,    *)
(* also when a record is logged while the collection is being made.        *)
SamplesAreCurrent ==
    \A i \in DOMAIN prometheus.collected :
        LET c == prometheus.collected[i]
        IN c.sample[1] \in c.floor..c.ceiling /\ c.sample[5] >= 0

(* Every exception of on_collect and on_payload is counted exactly once,   *)
(* and FailedExportCount reports them all.                                 *)
FailuresAreCounted == get_int_param(prometheus, "FailedExportCount") = prometheus.throws

(* After the stop() that ended the server has returned, no handler of a    *)
(* scrape refers to the logger any more: what the note on the lifecycle in *)
(* the constructor relies on.                                              *)
NoHandlerAfterStop == prometheus.stopped => prometheus.at[Server].pc = "idle"

\* An exporter in one invariant.
Safety ==
    /\ TypeOK /\ CountersNeverGoBack /\ SamplesAreCurrent /\ FailuresAreCounted /\ NoHandlerAfterStop
=============================================================================
