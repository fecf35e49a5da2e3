------------------------------- MODULE Logger --------------------------------
(***************************************************************************)
(* Logger.hpp: the process-wide registry of logger strategies and the      *)
(* dispatch of records to them, with m_shutdown, m_loggers_mx (as a        *)
(* shared_mutex), the published snapshot and one exec_mx per strategy.     *)
(*                                                                         *)
(* A step is one critical section or one stretch between two points where  *)
(* a thread may have to wait.  A backend is seen through ILogger only: a   *)
(* synchronous one handles a record inside log(); an asynchronous one      *)
(* queues it for its worker thread, which bears the strategy's name, and   *)
(* its wait(), clear_logs() and shutdown() wait until the worker is idle.  *)
(* A subscriber callback (MemoryLogger: inside log(); MdbxLogger: on the   *)
(* worker) may log one record of its own.                                  *)
(***************************************************************************)
EXTENDS Naturals, Sequences, FiniteSets

CONSTANTS
    Threads,          \* client threads
    LogCallers, SetupCallers, TuneCallers, WaitCallers, ClearCallers, ShutdownCallers,
    Strategies,       \* strategies that may be added
    Concurrent,       \* those with concurrent_dispatch
    Async,            \* those whose backend has a worker
    Subscribed,       \* those with a callback that logs
    Levels,           \* log levels; a raw record has RawLevel
    RawLevel,
    MaxCalls,         \* bound: number of calls the clients make
    NoActor           \* no owner of a mutex

ASSUME LoggerAssumption ==
    /\ LogCallers \cup SetupCallers \cup TuneCallers \cup WaitCallers \cup ClearCallers
        \cup ShutdownCallers \subseteq Threads
    /\ Concurrent \cup Async \cup Subscribed \subseteq Strategies
    /\ Threads \cap Strategies = {}
    /\ Levels \subseteq Nat /\ 0 \in Levels
    /\ RawLevel \in Nat /\ \A l \in Levels : l < RawLevel
    /\ MaxCalls \in Nat
    /\ NoActor \notin Threads \cup Strategies

Actors == Threads \cup Async

VARIABLES
    m_loggers, m_loggers_snapshot, m_shutdown,
    writer, readers,   \* m_loggers_mx: its owner, and those that hold it shared
    exec_mx,           \* owner of each strategy's exec_mx
    enabled, single_mode, log_level,
    queue,             \* each backend's queue: TRUE for a record a callback logged
    closed,            \* backends whose shutdown() has begun
    pc,
    todo,              \* strategies an actor has still to visit
    frames,            \* the calls of log() an actor is in, innermost last
    calls,             \* calls made so far
    \* history
    delivered, handled, seen,
    completed          \* the shutdown() that does the work has returned

registryVars == <<m_loggers, m_loggers_snapshot, writer, readers>>
flagVars     == <<enabled, single_mode, log_level>>
backendVars  == <<queue, closed, delivered, handled>>
shutdownVars == <<m_shutdown, completed>>
actorVars    == <<pc, todo, frames, calls, seen>>
vars == <<registryVars, flagVars, backendVars, shutdownVars, actorVars, exec_mx>>

Init ==
    /\ m_loggers = <<>> /\ m_loggers_snapshot = <<>>
    /\ m_shutdown = FALSE
    /\ writer = NoActor /\ readers = {}
    /\ exec_mx = [s \in Strategies |-> NoActor]
    /\ enabled = [s \in Strategies |-> TRUE]
    /\ single_mode = [s \in Strategies |-> FALSE]
    /\ log_level = [s \in Strategies |-> 0]
    /\ queue = [s \in Strategies |-> <<>>]
    /\ closed = [s \in Strategies |-> FALSE]
    /\ pc = [a \in Actors |-> "idle"]
    /\ todo = [a \in Actors |-> <<>>]
    /\ frames = [a \in Actors |-> <<>>]
    /\ calls = 0
    /\ delivered = [s \in Strategies |-> 0]
    /\ handled = [s \in Strategies |-> 0]
    /\ seen = [t \in Threads |-> [s \in Strategies |-> 0]]
    /\ completed = FALSE

GoTo(a, location) == pc' = [pc EXCEPT ![a] = location]
Visit(a, list)    == todo' = [todo EXCEPT ![a] = list]

Registered == {m_loggers[i] : i \in DOMAIN m_loggers}

\* m_loggers_mx can be taken for writing, for reading.
CanWrite == writer = NoActor /\ readers = {}
CanRead  == writer = NoActor

Lock(s, a) == exec_mx[s] = NoActor /\ exec_mx' = [exec_mx EXCEPT ![s] = a]

Unlock_Leaked(s) == UNCHANGED exec_mx

Unlock(s) == exec_mx' = [exec_mx EXCEPT ![s] = NoActor]

\* A client calls an operation, which first looks at m_shutdown and returns
\* at once when it is set; what follows starts at location.
Call(a, location) ==
    /\ pc[a] = "idle" /\ calls < MaxCalls
    /\ ~m_shutdown
    /\ calls' = calls + 1
    /\ GoTo(a, location)
    /\ UNCHANGED <<registryVars, flagVars, backendVars, shutdownVars, exec_mx, todo,
                   frames, seen>>
-----------------------------------------------------------------------------
(* The registry *)

MayAdd_Unchecked == TRUE

\* The second look at m_shutdown, under m_loggers_mx.
MayAdd == ~m_shutdown

\* Each call brings a strategy of its own: those under way count.
add_logger(a) ==
    /\ Len(m_loggers) + Cardinality({b \in Threads : pc[b] \in {"add_lock", "add_publish"}})
        < Cardinality(Strategies)
    /\ Call(a, "add_lock")

add_logger_lock(a) ==
    /\ pc[a] = "add_lock" /\ CanWrite
    /\ IF MayAdd THEN writer' = a /\ GoTo(a, "add_publish")
                 ELSE writer' = writer /\ GoTo(a, "idle")
    /\ UNCHANGED <<m_loggers, m_loggers_snapshot, readers, flagVars, backendVars,
                   shutdownVars, exec_mx, todo, frames, calls, seen>>

PublishSnapshot_BeforePush == m_loggers_snapshot' = m_loggers

\* publish_strategy_snapshot_locked().
PublishSnapshot == m_loggers_snapshot' = m_loggers'

\* push_back, publish, unlock.
add_logger_publish(a) ==
    /\ pc[a] = "add_publish"
    /\ \E s \in Strategies \ Registered, b \in BOOLEAN :
        /\ m_loggers' = Append(m_loggers, s)
        /\ single_mode' = [single_mode EXCEPT ![s] = b]
    /\ PublishSnapshot
    /\ writer' = NoActor
    /\ GoTo(a, "idle")
    /\ UNCHANGED <<readers, enabled, log_level, backendVars, shutdownVars, exec_mx, todo,
                   frames, calls, seen>>

\* In the setters an s that is not registered is an index out of range.
set_flag(a) == Call(a, "set_flag")

set_logger_enabled(a, s) ==
    /\ pc[a] = "set_flag" /\ CanWrite
    /\ \E b \in BOOLEAN :
        enabled' = IF s \in Registered THEN [enabled EXCEPT ![s] = b] ELSE enabled
    /\ GoTo(a, "idle")
    /\ UNCHANGED <<registryVars, single_mode, log_level, backendVars, shutdownVars,
                   exec_mx, todo, frames, calls, seen>>

set_logger_single_mode(a, s) ==
    /\ pc[a] = "set_flag" /\ CanWrite
    /\ \E b \in BOOLEAN :
        single_mode' = IF s \in Registered THEN [single_mode EXCEPT ![s] = b]
                                           ELSE single_mode
    /\ GoTo(a, "idle")
    /\ UNCHANGED <<registryVars, enabled, log_level, backendVars, shutdownVars, exec_mx,
                   todo, frames, calls, seen>>

set_level(a) == Call(a, "set_level")

\* set_log_level(index, level) holds m_loggers_mx while it waits for exec_mx;
\* set_timestamp_offset() takes the same locks and changes the formatter.
set_log_level(a, s) ==
    /\ pc[a] = "set_level" /\ CanWrite
    /\ writer' = a
    /\ Visit(a, IF s \in Registered THEN <<s>> ELSE <<>>)
    /\ GoTo(a, "leveling")
    /\ UNCHANGED <<m_loggers, m_loggers_snapshot, readers, flagVars, backendVars,
                   shutdownVars, exec_mx, frames, calls, seen>>

\* set_log_level(level) holds m_loggers_mx shared.
set_log_level_all(a) ==
    /\ pc[a] = "set_level" /\ CanRead
    /\ readers' = readers \cup {a}
    /\ Visit(a, m_loggers)
    /\ GoTo(a, "leveling")
    /\ UNCHANGED <<m_loggers, m_loggers_snapshot, writer, flagVars, backendVars,
                   shutdownVars, exec_mx, frames, calls, seen>>

leveling(a) ==
    /\ pc[a] = "leveling" /\ todo[a] # <<>>
    /\ exec_mx[Head(todo[a])] = NoActor
    /\ \E l \in Levels : log_level' = [log_level EXCEPT ![Head(todo[a])] = l]
    /\ Visit(a, Tail(todo[a]))
    /\ UNCHANGED <<registryVars, enabled, single_mode, backendVars, shutdownVars, exec_mx,
                   pc, frames, calls, seen>>

leveling_done(a) ==
    /\ pc[a] = "leveling" /\ todo[a] = <<>>
    /\ writer' = IF writer = a THEN NoActor ELSE writer
    /\ readers' = readers \ {a}
    /\ GoTo(a, "idle")
    /\ UNCHANGED <<m_loggers, m_loggers_snapshot, flagVars, backendVars, shutdownVars,
                   exec_mx, todo, frames, calls, seen>>
-----------------------------------------------------------------------------
(* Dispatch *)

log(a) == Call(a, "log")

Frame(a) == Head(frames[a])

\* get_strategy_snapshot(): nothing if the index is out of range.
StrategyAt(i) ==
    IF i \in DOMAIN m_loggers_snapshot THEN <<m_loggers_snapshot[i]>> ELSE <<>>

\* log() loads the published snapshot, without a lock, and picks the
\* strategies: one for a targeted record (none if its index is out of range),
\* all of them otherwise.
log_snapshot(a) ==
    /\ pc[a] = "log"
    /\ \E target \in 0..Len(m_loggers_snapshot) + 1, level \in Levels \cup {RawLevel} :
        LET list == IF target = 0 THEN m_loggers_snapshot
                    ELSE StrategyAt(target)
            frame == [list |-> list, targeted |-> target # 0, level |-> level,
                      nested |-> a \in Async \/ frames[a] # <<>>]
        IN  frames' = [frames EXCEPT ![a] = <<frame>> \o frames[a]]
    /\ GoTo(a, "dispatch")
    /\ UNCHANGED <<registryVars, flagVars, backendVars, shutdownVars, exec_mx, todo, calls,
                   seen>>

\* dispatch_to_strategy_if_allowed takes exec_mx unless the strategy allows
\* concurrent dispatch.
dispatch(a) ==
    /\ pc[a] = "dispatch" /\ Frame(a).list # <<>>
    /\ LET s == Head(Frame(a).list) IN
        \/ s \in Concurrent /\ UNCHANGED exec_mx
        \/ s \notin Concurrent /\ Lock(s, a)
    /\ GoTo(a, "check")
    /\ UNCHANGED <<registryVars, flagVars, backendVars, shutdownVars, todo, frames, calls,
                   seen>>

Allowed_AfterShutdown(s, f) ==
    /\ f.targeted \/ ~single_mode[s]
    /\ enabled[s]
    /\ f.level >= log_level[s]

\* The early returns of dispatch_to_strategy_if_allowed_unlocked.
Allowed(s, f) ==
    /\ ~m_shutdown
    /\ f.targeted \/ ~single_mode[s]
    /\ enabled[s]
    /\ f.level >= log_level[s]

check(a) ==
    /\ pc[a] = "check"
    /\ GoTo(a, IF Allowed(Head(Frame(a).list), Frame(a)) THEN "deliver" ELSE "leave")
    /\ UNCHANGED <<registryVars, flagVars, backendVars, shutdownVars, exec_mx, todo,
                   frames, calls, seen>>

\* logger->log(): a backend that is shut down ignores the record.  A callback
\* of a synchronous backend runs here and may call log().
deliver(a) ==
    /\ pc[a] = "deliver"
    /\ LET s == Head(Frame(a).list) IN
        /\ \/ closed[s] /\ UNCHANGED <<queue, delivered, handled>>
           \/ /\ ~closed[s]
              /\ delivered' = [delivered EXCEPT ![s] = @ + 1]
              /\ IF s \in Async
                    THEN /\ queue' = [queue EXCEPT ![s] = Append(@, Frame(a).nested)]
                         /\ UNCHANGED handled
                    ELSE /\ handled' = [handled EXCEPT ![s] = @ + 1]
                         /\ UNCHANGED queue
        /\ GoTo(a, IF s \in Subscribed \ Async /\ ~Frame(a).nested /\ ~m_shutdown
                      THEN "log" ELSE "leave")
    /\ UNCHANGED <<registryVars, flagVars, closed, shutdownVars, exec_mx, todo, frames,
                   calls, seen>>

leave(a) ==
    /\ pc[a] = "leave"
    /\ LET s == Head(Frame(a).list) IN
        \/ s \in Concurrent /\ UNCHANGED exec_mx
        \/ s \notin Concurrent /\ Unlock(s)
    /\ frames' = [frames EXCEPT ![a][1].list = Tail(@)]
    /\ GoTo(a, "dispatch")
    /\ UNCHANGED <<registryVars, flagVars, backendVars, shutdownVars, todo, calls, seen>>

\* log() returns: to the client, to the backend whose callback called it, or
\* to the worker.
log_return(a) ==
    /\ pc[a] = "dispatch" /\ Frame(a).list = <<>>
    /\ frames' = [frames EXCEPT ![a] = Tail(@)]
    /\ GoTo(a, IF Tail(frames[a]) # <<>> THEN "leave"
               ELSE IF a \in Async THEN "task_done" ELSE "idle")
    /\ UNCHANGED <<registryVars, flagVars, backendVars, shutdownVars, exec_mx, todo, calls,
                   seen>>
-----------------------------------------------------------------------------
(* The worker of an asynchronous backend s: it handles a record, calls the  *)
(* callback if there is one, and takes the record off.                      *)

worker_task(s) ==
    /\ pc[s] = "idle" /\ queue[s] # <<>>
    /\ GoTo(s, IF s \in Subscribed /\ ~Head(queue[s]) /\ ~m_shutdown
                  THEN "log" ELSE "task_done")
    /\ UNCHANGED <<registryVars, flagVars, backendVars, shutdownVars, exec_mx, todo,
                   frames, calls, seen>>

worker_task_done(s) ==
    /\ pc[s] = "task_done"
    /\ queue' = [queue EXCEPT ![s] = Tail(@)]
    /\ handled' = [handled EXCEPT ![s] = @ + 1]
    /\ GoTo(s, "idle")
    /\ UNCHANGED <<registryVars, flagVars, closed, delivered, shutdownVars, exec_mx, todo,
                   frames, calls, seen>>

\* The backend's wait() returns; its clear_logs() and shutdown() wait likewise.
BackendIdle(s) == queue[s] = <<>>
-----------------------------------------------------------------------------
(* wait() *)

LoggersToWait_EnabledOnly == SelectSeq(m_loggers, LAMBDA s : enabled[s])

\* get_all_strategy_snapshots().
LoggersToWait == m_loggers

wait(a) ==
    /\ pc[a] = "idle" /\ calls < MaxCalls
    /\ calls' = calls + 1
    /\ seen' = [seen EXCEPT ![a] = delivered]
    /\ GoTo(a, "wait_list")
    /\ UNCHANGED <<registryVars, flagVars, backendVars, shutdownVars, exec_mx, todo,
                   frames>>

wait_list(a) ==
    /\ pc[a] = "wait_list" /\ CanRead
    /\ Visit(a, LoggersToWait)
    /\ GoTo(a, "wait")
    /\ UNCHANGED <<registryVars, flagVars, backendVars, shutdownVars, exec_mx, frames,
                   calls, seen>>

wait_each(a) ==
    /\ pc[a] = "wait" /\ todo[a] # <<>>
    /\ BackendIdle(Head(todo[a]))
    /\ Visit(a, Tail(todo[a]))
    /\ UNCHANGED <<registryVars, flagVars, backendVars, shutdownVars, exec_mx, pc, frames,
                   calls, seen>>

wait_return(a) ==
    /\ pc[a] = "wait" /\ todo[a] = <<>>
    /\ GoTo(a, "idle")
    /\ UNCHANGED <<registryVars, flagVars, backendVars, shutdownVars, exec_mx, todo,
                   frames, calls, seen>>
-----------------------------------------------------------------------------
(* clear_logger(), clear_all_loggers() *)

clear(a) == Call(a, "clear_list")

\* An index picked from the published snapshot.
clear_logger(a) ==
    /\ pc[a] = "clear_list"
    /\ \E i \in 1..Len(m_loggers_snapshot) + 1 : Visit(a, StrategyAt(i))
    /\ GoTo(a, "clear")
    /\ UNCHANGED <<registryVars, flagVars, backendVars, shutdownVars, exec_mx, frames,
                   calls, seen>>

clear_all_loggers(a) ==
    /\ pc[a] = "clear_list" /\ CanRead
    /\ Visit(a, m_loggers)
    /\ GoTo(a, "clear")
    /\ UNCHANGED <<registryVars, flagVars, backendVars, shutdownVars, exec_mx, frames,
                   calls, seen>>

\* Under exec_mx m_shutdown is looked at again: if set, the call fails.
clear_lock(a) ==
    /\ pc[a] = "clear" /\ todo[a] # <<>>
    /\ exec_mx[Head(todo[a])] = NoActor
    /\ IF m_shutdown
          THEN Visit(a, <<>>) /\ GoTo(a, "idle") /\ UNCHANGED exec_mx
          ELSE Lock(Head(todo[a]), a) /\ GoTo(a, "clearing") /\ UNCHANGED todo
    /\ UNCHANGED <<registryVars, flagVars, backendVars, shutdownVars, frames, calls, seen>>

\* logger->clear_logs(), which waits for the backend's worker.
clear_logs(a) ==
    /\ pc[a] = "clearing"
    /\ BackendIdle(Head(todo[a]))
    /\ Unlock(Head(todo[a]))
    /\ Visit(a, Tail(todo[a]))
    /\ GoTo(a, "clear")
    /\ UNCHANGED <<registryVars, flagVars, backendVars, shutdownVars, frames, calls, seen>>

clear_return(a) ==
    /\ pc[a] = "clear" /\ todo[a] = <<>>
    /\ GoTo(a, "idle")
    /\ UNCHANGED <<registryVars, flagVars, backendVars, shutdownVars, exec_mx, todo,
                   frames, calls, seen>>
-----------------------------------------------------------------------------
(* shutdown() *)

\* m_shutdown.exchange(true): only the first caller goes on.
shutdown(a) ==
    /\ pc[a] = "idle" /\ calls < MaxCalls
    /\ calls' = calls + 1
    /\ m_shutdown' = TRUE
    /\ IF m_shutdown THEN UNCHANGED pc ELSE GoTo(a, "shutdown_list")
    /\ UNCHANGED <<registryVars, flagVars, backendVars, completed, exec_mx, todo, frames,
                   seen>>

shutdown_list(a) ==
    /\ pc[a] = "shutdown_list" /\ CanRead
    /\ Visit(a, m_loggers)
    /\ GoTo(a, "shutdown")
    /\ UNCHANGED <<registryVars, flagVars, backendVars, shutdownVars, exec_mx, frames,
                   calls, seen>>

shutdown_lock(a) ==
    /\ pc[a] = "shutdown" /\ todo[a] # <<>>
    /\ Lock(Head(todo[a]), a)
    /\ closed' = [closed EXCEPT ![Head(todo[a])] = TRUE]
    /\ GoTo(a, "closing")
    /\ UNCHANGED <<registryVars, flagVars, queue, delivered, handled, shutdownVars, todo,
                   frames, calls, seen>>

\* logger->shutdown() returns once the worker has drained the queue.
shutdown_logger(a) ==
    /\ pc[a] = "closing"
    /\ BackendIdle(Head(todo[a]))
    /\ Unlock(Head(todo[a]))
    /\ Visit(a, Tail(todo[a]))
    /\ GoTo(a, "shutdown")
    /\ UNCHANGED <<registryVars, flagVars, backendVars, shutdownVars, frames, calls, seen>>

shutdown_return(a) ==
    /\ pc[a] = "shutdown" /\ todo[a] = <<>>
    /\ completed' = TRUE
    /\ GoTo(a, "idle")
    /\ UNCHANGED <<registryVars, flagVars, backendVars, m_shutdown, exec_mx, todo, frames,
                   calls, seen>>
-----------------------------------------------------------------------------
\* The calls clients make.
ClientCall ==
    \/ \E a \in LogCallers : log(a)
    \/ \E a \in SetupCallers : add_logger(a)
    \/ \E a \in TuneCallers : set_flag(a) \/ set_level(a)
    \/ \E a \in WaitCallers : wait(a)
    \/ \E a \in ClearCallers : clear(a)
    \/ \E a \in ShutdownCallers : shutdown(a)

\* A step of a call under way, log() called by a worker included.
Step(a) ==
    \/ add_logger_lock(a) \/ add_logger_publish(a)
    \/ \E s \in Strategies : \/ set_logger_enabled(a, s) \/ set_logger_single_mode(a, s)
                             \/ set_log_level(a, s)
    \/ set_log_level_all(a) \/ leveling(a) \/ leveling_done(a)
    \/ log_snapshot(a) \/ dispatch(a) \/ check(a) \/ deliver(a) \/ leave(a) \/ log_return(a)
    \/ wait_list(a) \/ wait_each(a) \/ wait_return(a)
    \/ clear_logger(a) \/ clear_all_loggers(a) \/ clear_lock(a) \/ clear_logs(a)
    \/ clear_return(a)
    \/ shutdown_list(a) \/ shutdown_lock(a) \/ shutdown_logger(a) \/ shutdown_return(a)

WorkerStep(s) == worker_task(s) \/ worker_task_done(s)

Next == ClientCall \/ (\E a \in Actors : Step(a)) \/ (\E s \in Async : WorkerStep(s))

Spec == Init /\ [][Next]_vars

\* Threads run; calls are bounded, so nobody is overtaken at a mutex for ever.
Fairness ==
    /\ \A a \in Actors : WF_vars(Step(a))
    /\ \A s \in Async : WF_vars(WorkerStep(s))

FairSpec == Spec /\ Fairness
-----------------------------------------------------------------------------
(* Properties *)

Locations ==
    {"idle", "add_lock", "add_publish", "set_flag", "set_level", "leveling", "log",
     "dispatch", "check", "deliver", "leave", "task_done", "wait_list", "wait",
     "clear_list", "clear", "clearing", "shutdown_list", "shutdown", "closing"}

Frames == [list : Seq(Strategies), targeted : BOOLEAN, level : Levels \cup {RawLevel},
           nested : BOOLEAN]

\* Type invariant.  The snapshot that log() reads without a lock always is
\* m_loggers (publish_strategy_snapshot_locked), m_loggers_mx is never held
\* shared and exclusively at once, and a call leaves nothing behind.
TypeOK ==
    /\ m_loggers \in Seq(Strategies)
    /\ m_loggers_snapshot = m_loggers
    /\ \A i, j \in DOMAIN m_loggers : m_loggers[i] = m_loggers[j] => i = j
    /\ m_shutdown \in BOOLEAN
    /\ writer \in Threads \cup {NoActor} /\ readers \subseteq Threads
    /\ writer = NoActor \/ readers = {}
    /\ exec_mx \in [Strategies -> Actors \cup {NoActor}]
    /\ enabled \in [Strategies -> BOOLEAN] /\ single_mode \in [Strategies -> BOOLEAN]
    /\ log_level \in [Strategies -> Levels]
    /\ queue \in [Strategies -> Seq(BOOLEAN)]
    /\ closed \in [Strategies -> BOOLEAN]
    /\ pc \in [Actors -> Locations]
    /\ todo \in [Actors -> Seq(Strategies)]
    /\ frames \in [Actors -> Seq(Frames)]
    /\ \A a \in Actors : pc[a] = "idle" => frames[a] = <<>> /\ todo[a] = <<>>
    /\ calls \in 0..MaxCalls
    /\ delivered \in [Strategies -> Nat] /\ handled \in [Strategies -> Nat]
    /\ seen \in [Threads -> [Strategies -> Nat]]
    /\ completed \in BOOLEAN

\* The strategies whose backend actor a is inside of: log(), clear_logs().
Inside(a) ==
    IF pc[a] = "deliver" THEN {Head(Frame(a).list)}
    ELSE IF pc[a] = "clearing" THEN {Head(todo[a])} ELSE {}

\* A backend without concurrent dispatch is used by one thread at a time, and
\* once Logger::shutdown() has begun to shut it down neither log() nor
\* clear_logs() is called on it, whatever calls were under way.
BackendExclusive ==
    \A a \in Actors : \A s \in Inside(a) \ Concurrent :
        /\ ~closed[s]
        /\ \A b \in Actors \ {a} : s \notin Inside(b)

\* When the shutdown() that does the work returns, every registered logger
\* has been shut down and has handled all it accepted: add_logger() cannot
\* slip in a logger that shutdown() does not see.
EveryLoggerShutDown ==
    completed => \A s \in Registered : closed[s] /\ handled[s] = delivered[s]

\* The registry in one invariant: types and locks, one thread at a time in a
\* backend and none after its shutdown, and no logger that shutdown() misses.
Safety == TypeOK /\ BackendExclusive /\ EveryLoggerShutDown

\* Logger::wait() returns only when every record a backend had been given
\* before the call has been handled.
WaitContract ==
    [][\A t \in WaitCallers :
        wait_return(t) => \A s \in Strategies : handled[s] >= seen[t][s]]_vars

\* Every call returns (no cycle through m_loggers_mx, exec_mx and the
\* workers), when no callback logs.
CallsReturn == \A t \in Threads : pc[t] # "idle" ~> pc[t] = "idle"

\* guides/concurrency.md: no lock is held when a callback runs, so a callback
\* may log: every call still returns.
CallbacksMayLog == CallsReturn
=============================================================================
