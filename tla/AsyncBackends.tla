---------------------------- MODULE AsyncBackends ----------------------------
(***************************************************************************)
(* The backends that hand their records to an executor: ConsoleLogger,     *)
(* FileLogger, UniqueFileLogger, SyslogLogger, EventLogLogger and          *)
(* WindowsDebugLogger.  kind says which one the behaviour is about.        *)
(*                                                                         *)
(* The executors are what FifoExecutor promises: executor 0 is the shared  *)
(* TaskExecutor, unlimited; the others are the logger's own                *)
(* SingleThreadExecutors, one per life of m_executor.  What the backends   *)
(* do under m_mutex is one step.  m_lifecycle_mutex is held over blocking  *)
(* calls, so it is a variable; ConsoleLogger has none and counts the calls *)
(* that are about to enqueue instead.                                      *)
(***************************************************************************)
EXTENDS Integers, Sequences, FiniteSets

CONSTANTS
    Kinds,        \* the classes this instance is about
    Threads,
    Configs,      \* the values the executor fields of a Config may have
    Levels,       \* levels of records
    MaxCalls,     \* bound on the calls of all threads
    MaxFaults     \* bound on the files that cannot be created

Kind == {"console", "file", "unique", "syslog", "eventlog", "debug"}

Config == [async : BOOLEAN, own : BOOLEAN, cap : Nat, policy : {"Block", "DropNewest", "DropOldest"}]

ASSUME BackendAssumption ==
    /\ Kinds \subseteq Kind /\ Configs \subseteq Config /\ Levels \subseteq Nat
    /\ MaxCalls \in Nat /\ MaxFaults \in Nat
    /\ IsFiniteSet(Threads) /\ "none" \notin Threads

VARIABLES
    kind,
    lg,           \* the fields of the logger object
    exec,         \* the executors: queue, task in hand, stop flag, limit
    th,           \* the threads: program counter and locals
    info,         \* UniqueFileLogger: m_thread_log_info
    h             \* history: calls made, authors and fates of the records

vars == <<kind, lg, exec, th, info, h>>

None == "none"
Sync == -1                        \* no executor: the call writes itself
Absent == -1                      \* the thread has no entry in m_thread_log_info
NoFile == 0                       \* it has, with no file yet
NotAvailable == -2                \* its last file could not be created
NoInfo == [pending_logs |-> 0, last |-> Absent]

Idle(e) == exec[e].q = <<>> /\ exec[e].run = 0
Settled == {h.written[i] : i \in DOMAIN h.written} \cup h.dropped \cup h.filtered
Calling(t) == th[t].pc # "idle"
Entering == {th[t].r : t \in {u \in Threads : th[u].pc \in {"add", "enqueue", "finish"}}}

NewExecutor(c) == [q |-> <<>>, run |-> 0, stop |-> FALSE, cap |-> c.cap, policy |-> c.policy]
Shared == NewExecutor([cap |-> 0, policy |-> "Block"])

Resting == [pc |-> "idle", r |-> 0, e |-> 0, seen |-> {}, config |-> CHOOSE c \in Configs : TRUE]

\* The constructors: a dedicated executor is created for an asynchronous
\* logger that asks for one; EventLogLogger may get no handle of its source.
Init ==
    /\ kind \in Kinds
    /\ \E c \in Configs, hsrc \in BOOLEAN :
          /\ hsrc \/ kind = "eventlog"
          /\ lg = [config |-> c, executor |-> IF c.async /\ c.own THEN 1 ELSE 0, made |-> 1,
                   shutdown |-> FALSE, lifecycle |-> None, pending |-> 0, level |-> 0,
                   hsrc |-> hsrc]
          /\ exec = [e \in 0..MaxCalls + 1 |-> IF e = 1 THEN NewExecutor(c) ELSE Shared]
    /\ th = [t \in Threads |-> Resting]
    /\ info = [t \in Threads |-> NoInfo]
    /\ h = [calls |-> 0, by |-> <<>>, level |-> <<>>, written |-> <<>>, dropped |-> {},
            filtered |-> {}, files |-> {}, faults |-> 0, configs |-> 0, clears |-> 0, down |-> FALSE]
-----------------------------------------------------------------------------
(* Executors *)

Full(x) == x.cap > 0 /\ Len(x.q) >= x.cap
CanAdd(e) == exec[e].stop \/ ~Full(exec[e]) \/ exec[e].policy # "Block"

\* add_task() as the callers see it: the queue grows, or a task is dropped.
AddTask(e, r, hist) ==
    LET x == exec[e]
    IN  \/ /\ \/ x.stop
              \/ Full(x) /\ x.policy = "DropNewest"
           /\ h' = [hist EXCEPT !.dropped = @ \cup {r}]
           /\ UNCHANGED exec
        \/ /\ ~x.stop /\ Full(x) /\ x.policy = "DropOldest"
           /\ h' = [hist EXCEPT !.dropped = @ \cup {Head(x.q)}]
           /\ exec' = [exec EXCEPT ![e].q = Append(Tail(@), r)]
        \/ /\ ~x.stop /\ ~Full(x)
           /\ h' = hist
           /\ exec' = [exec EXCEPT ![e].q = Append(@, r)]

take_task(e) ==
    /\ exec[e].run = 0 /\ exec[e].q # <<>>
    /\ exec' = [exec EXCEPT ![e].run = Head(exec[e].q), ![e].q = Tail(@)]
    /\ UNCHANGED <<kind, lg, th, info, h>>

Done(e) == exec' = [exec EXCEPT ![e].run = 0]
Wrote(hist, r) == [hist EXCEPT !.written = Append(@, r)]

\* FileLogger, ConsoleLogger and WindowsDebugLogger: the task writes.
write_task(e) ==
    /\ kind \in {"console", "file", "debug"} /\ exec[e].run # 0
    /\ Done(e) /\ h' = Wrote(h, exec[e].run)
    /\ UNCHANGED <<kind, lg, th, info>>

\* SyslogLogger and EventLogLogger: the level is tested when the task runs (a raw
\* record, which is never filtered, is one of the highest level), and without a
\* handle nothing is reported.
Filter(r, hist) ==
    IF hist.level[r] < lg.level \/ ~lg.hsrc THEN [hist EXCEPT !.filtered = @ \cup {r}] ELSE Wrote(hist, r)

syslog_task(e) ==
    /\ kind \in {"syslog", "eventlog"} /\ exec[e].run # 0
    /\ Done(e) /\ h' = Filter(exec[e].run, h)
    /\ UNCHANGED <<kind, lg, th, info>>

\* UniqueFileLogger: create_unique_file_path() and write_log(); the file cannot
\* be created, or it holds the record alone.
WriteFile(r, hist, ok) ==
    IF ok THEN [Wrote(hist, r) EXCEPT !.files = @ \cup {r}]
          ELSE [hist EXCEPT !.dropped = @ \cup {r}, !.faults = @ + 1]

MayFail(ok) == ok \/ h.faults < MaxFaults

unique_task_KeepsCount(e) ==
    \E ok \in BOOLEAN :
        LET r == exec[e].run IN
        /\ kind = "unique" /\ r # 0 /\ MayFail(ok)
        /\ Done(e) /\ h' = WriteFile(r, h, ok)
        /\ info' = [info EXCEPT ![h.by[r]].last = IF ok THEN r ELSE NotAvailable]
        /\ UNCHANGED <<kind, lg, th>>

\* The task writes the file and, unless clear_logs() removed the entry of the
\* thread that logged, notes it there and counts the record off.
unique_task(e) ==
    \E ok \in BOOLEAN :
        LET r == exec[e].run
            t == h.by[r]
        IN  /\ kind = "unique" /\ r # 0 /\ MayFail(ok)
            /\ Done(e) /\ h' = WriteFile(r, h, ok)
            /\ info' = IF info[t].last = Absent THEN info
                       ELSE [info EXCEPT ![t] = [pending_logs |-> @.pending_logs - 1,
                                                 last |-> IF ok THEN r ELSE NotAvailable]]
            /\ UNCHANGED <<kind, lg, th>>
-----------------------------------------------------------------------------
(* log() *)

\* A thread makes a call, with the lifecycle mutex free where it takes it.
Call(t) == th[t].pc = "idle" /\ h.calls < MaxCalls
Enter(t) == Call(t) /\ lg.lifecycle = None

Release(t) == [lg EXCEPT !.lifecycle = IF @ = t THEN None ELSE @]
Goto(t, p) == th' = [th EXCEPT ![t].pc = p]
Return(t) == th' = [th EXCEPT ![t] = Resting]

Counted == [h EXCEPT !.calls = @ + 1]
Logged(t, level) == [Counted EXCEPT !.by = Append(@, t), !.level = Append(@, level)]
NewId == Len(h.by) + 1

\* The call holds the lifecycle mutex while add_task() blocks.
Submit(t, hist) ==
    \/ CanAdd(lg.executor) /\ AddTask(lg.executor, NewId, hist) /\ UNCHANGED <<lg, th>>
    \/ /\ ~CanAdd(lg.executor)
       /\ lg' = [lg EXCEPT !.lifecycle = t]
       /\ th' = [th EXCEPT ![t].pc = "add", ![t].r = NewId]
       /\ h' = hist /\ UNCHANGED exec

log_add(t) ==
    /\ th[t].pc = "add" /\ CanAdd(lg.executor)
    /\ AddTask(lg.executor, th[t].r, h)
    /\ lg' = Release(t) /\ Return(t)
    /\ UNCHANGED <<kind, info>>

Unchecked == UNCHANGED <<lg, exec, th>>

\* Under the lifecycle mutex: written at once, or handed over.
LockedLog(t, level, direct) ==
    /\ Enter(t) /\ ~lg.shutdown
    /\ \/ ~lg.config.async /\ h' = direct /\ Unchecked
       \/ lg.config.async /\ Submit(t, Logged(t, level))
    /\ UNCHANGED <<kind, info>>

FileLogger_log(t) == kind = "file" /\ LockedLog(t, 0, Wrote(Logged(t, 0), NewId))
WindowsDebugLogger_log(t) == kind = "debug" /\ LockedLog(t, 0, Wrote(Logged(t, 0), NewId))

SyslogLogger_log(t) ==
    kind = "syslog" /\ \E level \in Levels : LockedLog(t, level, Filter(NewId, Logged(t, level)))

EventLogLogger_log(t) ==
    kind = "eventlog" /\ \E level \in Levels : LockedLog(t, level, Filter(NewId, Logged(t, level)))

UniqueFileLogger_log(t) ==
    /\ kind = "unique" /\ Enter(t) /\ ~lg.shutdown
    /\ \/ \E ok \in BOOLEAN :
             /\ ~lg.config.async /\ MayFail(ok)
             /\ h' = WriteFile(NewId, Logged(t, 0), ok)
             /\ info' = [info EXCEPT ![t].last = IF ok THEN NewId ELSE NotAvailable]
             /\ Unchecked
       \/ /\ lg.config.async
          /\ info' = [info EXCEPT ![t].pending_logs = @ + 1,
                                  ![t].last = IF @ = Absent THEN NoFile ELSE @]
          /\ Submit(t, Logged(t, 0))
    /\ UNCHANGED kind

\* The executor is read and the call counted under m_mutex; the task is added
\* after the unlock.
ConsoleLogger_log(t) ==
    /\ kind = "console" /\ Call(t) /\ ~lg.shutdown
    /\ \/ ~lg.config.async /\ h' = Wrote(Logged(t, 0), NewId) /\ Unchecked
       \/ /\ lg.config.async
          /\ lg' = [lg EXCEPT !.pending = @ + 1]
          /\ th' = [th EXCEPT ![t].pc = "enqueue", ![t].r = NewId, ![t].e = lg.executor]
          /\ h' = Logged(t, 0) /\ UNCHANGED exec
    /\ UNCHANGED <<kind, info>>

ConsoleLogger_enqueue(t) ==
    /\ th[t].pc = "enqueue" /\ CanAdd(th[t].e)
    /\ AddTask(th[t].e, th[t].r, h)
    /\ Goto(t, "finish") /\ UNCHANGED <<kind, lg, info>>

finish_pending_enqueue(t) ==
    /\ th[t].pc = "finish"
    /\ lg' = [lg EXCEPT !.pending = @ - 1]
    /\ Return(t) /\ UNCHANGED <<kind, exec, info, h>>

set_log_level(t) ==
    \E level \in Levels :
        /\ kind \in {"syslog", "eventlog"} /\ Call(t)
        /\ lg' = [lg EXCEPT !.level = level]
        /\ h' = Counted /\ UNCHANGED <<kind, exec, th, info>>
-----------------------------------------------------------------------------
(* wait() and clear_logs() *)

WaitTarget_SharedOnly == IF lg.config.async THEN 0 ELSE Sync

\* What there is to wait for: the executor in use, or nothing.
WaitTarget == IF lg.config.async THEN lg.executor ELSE Sync
Drained(t) == th[t].e # Sync => Idle(th[t].e)
Returned == (1..Len(h.by)) \ Entering

WaitFor(t, p) ==
    th' = [th EXCEPT ![t].pc = p, ![t].e = WaitTarget, ![t].seen = Returned]

\* The lifecycle mutex is held until the executor is idle.
LockedWait(t, p) ==
    /\ Enter(t) /\ lg' = [lg EXCEPT !.lifecycle = t]
    /\ WaitFor(t, p) /\ h' = Counted /\ UNCHANGED <<kind, exec, info>>

UnlockedWait(t) ==
    /\ Call(t) /\ WaitFor(t, "wait")
    /\ h' = Counted /\ UNCHANGED <<kind, lg, exec, info>>

FileLogger_wait(t) == kind = "file" /\ LockedWait(t, "wait")
UniqueFileLogger_wait(t) == kind = "unique" /\ LockedWait(t, "wait")
WindowsDebugLogger_wait(t) == kind = "debug" /\ LockedWait(t, "wait")
SyslogLogger_wait(t) == kind = "syslog" /\ UnlockedWait(t)
EventLogLogger_wait(t) == kind = "eventlog" /\ UnlockedWait(t)

\* ConsoleLogger first waits for the calls that are enqueuing, and only then
\* looks at the executor.
ConsoleLogger_wait(t) ==
    /\ kind = "console" /\ Call(t)
    /\ th' = [th EXCEPT ![t].pc = "pending", ![t].seen = Returned]
    /\ h' = Counted /\ UNCHANGED <<kind, lg, exec, info>>

wait_for_pending_enqueues(t) ==
    /\ th[t].pc = "pending" /\ lg.pending = 0
    /\ th' = [th EXCEPT ![t].pc = "wait", ![t].e = WaitTarget]
    /\ UNCHANGED <<kind, lg, exec, info, h>>

wait_return(t) ==
    /\ th[t].pc = "wait" /\ Drained(t)
    /\ lg' = Release(t) /\ Return(t)
    /\ UNCHANGED <<kind, exec, info, h>>

\* clear_logs() first waits, then takes the lifecycle mutex again.
FileLogger_clear_logs(t) == kind = "file" /\ LockedWait(t, "clearwait")
UniqueFileLogger_clear_logs(t) == kind = "unique" /\ LockedWait(t, "clearwait")

clear_wait(t) ==
    /\ th[t].pc = "clearwait" /\ Drained(t)
    /\ lg' = Release(t) /\ Goto(t, "clear")
    /\ UNCHANGED <<kind, exec, info, h>>

\* The files go, and with them what is known of the threads' last files.
clear_files(t) ==
    /\ th[t].pc = "clear" /\ lg.lifecycle = None
    /\ \/ lg.shutdown /\ UNCHANGED <<info, h>>
       \/ /\ ~lg.shutdown
          /\ h' = [h EXCEPT !.files = {}, !.clears = @ + 1]
          /\ info' = IF kind = "unique" THEN [u \in Threads |-> NoInfo] ELSE info
    /\ Return(t) /\ UNCHANGED <<kind, lg, exec>>

\* get_last_log_file_name() and get_last_log_file_path() wait until the calling
\* thread has no pending record.
get_last_log_file(t) ==
    /\ kind = "unique" /\ Call(t) /\ Goto(t, "get")
    /\ h' = Counted /\ UNCHANGED <<kind, lg, exec, info>>

get_last_log_file_return_NoWait(t) ==
    /\ th[t].pc = "get"
    /\ Return(t) /\ UNCHANGED <<kind, lg, exec, info, h>>

get_last_log_file_return(t) ==
    /\ th[t].pc = "get" /\ info[t].pending_logs = 0
    /\ Return(t) /\ UNCHANGED <<kind, lg, exec, info, h>>
-----------------------------------------------------------------------------
(* set_config() and set_queue_config() *)

Configured == [Counted EXCEPT !.configs = @ + 1]

\* Accepted tasks are drained under the lifecycle mutex before the switch.
LockedSetConfig(t, c) ==
    /\ Enter(t) /\ ~lg.shutdown
    /\ lg' = [lg EXCEPT !.lifecycle = t]
    /\ th' = [th EXCEPT ![t].pc = "drain", ![t].e = WaitTarget, ![t].config = c]
    /\ h' = Configured /\ UNCHANGED <<kind, exec, info>>

FileLogger_set_config(t) == kind = "file" /\ \E c \in Configs : LockedSetConfig(t, c)
UniqueFileLogger_set_config(t) == kind = "unique" /\ \E c \in Configs : LockedSetConfig(t, c)
WindowsDebugLogger_set_config(t) == kind = "debug" /\ \E c \in Configs : LockedSetConfig(t, c)

\* ConsoleLogger only waits for the calls that are enqueuing.
ConsoleLogger_set_config(t) ==
    \E c \in Configs :
        /\ kind = "console" /\ Call(t) /\ ~lg.shutdown
        /\ th' = [th EXCEPT ![t].pc = "configure", ![t].config = c]
        /\ h' = Configured /\ UNCHANGED <<kind, lg, exec, info>>

\* The executor in use afterwards; one that is no longer used is shut down
\* once the mutex is released.
Apply(t) ==
    LET c   == th[t].config
        old == lg.executor
        new == IF ~(c.async /\ c.own) THEN 0 ELSE IF old # 0 THEN old ELSE lg.made + 1
    IN  /\ lg' = [Release(t) EXCEPT !.config = c, !.executor = new,
                                    !.made = IF new > @ THEN new ELSE @]
        /\ exec' = IF new = 0 THEN exec
                   ELSE [exec EXCEPT ![new].cap = c.cap, ![new].policy = c.policy]
        /\ IF new = 0 /\ old # 0 THEN th' = [th EXCEPT ![t].pc = "retire", ![t].e = old] ELSE Return(t)
        /\ UNCHANGED <<kind, info, h>>

set_config_switch_NoDrain(t) == th[t].pc = "drain" /\ Apply(t)
set_config_switch(t) == th[t].pc = "drain" /\ Drained(t) /\ Apply(t)
ConsoleLogger_configure(t) == th[t].pc = "configure" /\ lg.pending = 0 /\ Apply(t)

retire(t) ==
    /\ th[t].pc = "retire"
    /\ exec' = [exec EXCEPT ![th[t].e].stop = TRUE]
    /\ Goto(t, "join") /\ UNCHANGED <<kind, lg, info, h>>

retire_join(t) ==
    /\ th[t].pc = "join" /\ Idle(th[t].e)
    /\ Return(t) /\ UNCHANGED <<kind, lg, exec, info, h>>

\* The limit of the dedicated executor, without draining.
SetQueueConfig(t, c) ==
    /\ Enter(t) /\ ~lg.shutdown
    /\ lg' = [lg EXCEPT !.config.cap = c.cap, !.config.policy = c.policy]
    /\ exec' = IF lg.executor = 0 THEN exec
               ELSE [exec EXCEPT ![lg.executor].cap = c.cap, ![lg.executor].policy = c.policy]
    /\ h' = Counted /\ UNCHANGED <<kind, th, info>>

FileLogger_set_queue_config(t) == kind = "file" /\ \E c \in Configs : SetQueueConfig(t, c)
UniqueFileLogger_set_queue_config(t) == kind = "unique" /\ \E c \in Configs : SetQueueConfig(t, c)
WindowsDebugLogger_set_queue_config(t) == kind = "debug" /\ \E c \in Configs : SetQueueConfig(t, c)
-----------------------------------------------------------------------------
(* shutdown() *)

\* The flag is set under the lifecycle mutex, which is then released.
LockedShutdown(t) ==
    /\ Enter(t) /\ ~lg.shutdown
    /\ lg' = [lg EXCEPT !.shutdown = TRUE]
    /\ WaitFor(t, "stop") /\ h' = Counted /\ UNCHANGED <<kind, exec, info>>

FileLogger_shutdown(t) == kind = "file" /\ LockedShutdown(t)
UniqueFileLogger_shutdown(t) == kind = "unique" /\ LockedShutdown(t)
WindowsDebugLogger_shutdown(t) == kind = "debug" /\ LockedShutdown(t)
SyslogLogger_shutdown(t) == kind = "syslog" /\ LockedShutdown(t)
EventLogLogger_shutdown(t) == kind = "eventlog" /\ LockedShutdown(t)

\* ConsoleLogger sets the flag first; then no call may still be enqueuing.
ConsoleLogger_shutdown(t) ==
    /\ kind = "console" /\ Call(t) /\ ~lg.shutdown
    /\ lg' = [lg EXCEPT !.shutdown = TRUE]
    /\ Goto(t, "quiesce") /\ h' = Counted /\ UNCHANGED <<kind, exec, info>>

ConsoleLogger_quiesce_NoCount(t) ==
    /\ th[t].pc = "quiesce"
    /\ lg' = [lg EXCEPT !.executor = 0]
    /\ WaitFor(t, "stop") /\ UNCHANGED <<kind, exec, info, h>>

ConsoleLogger_quiesce(t) ==
    /\ th[t].pc = "quiesce" /\ lg.pending = 0
    /\ lg' = [lg EXCEPT !.executor = 0]
    /\ WaitFor(t, "stop") /\ UNCHANGED <<kind, exec, info, h>>

\* The dedicated executor is stopped and drained, the shared one waited for;
\* FileLogger does that in wait(), under the lifecycle mutex.
shutdown_stop(t) ==
    LET e == th[t].e IN
    /\ th[t].pc = "stop"
    /\ \/ e > 0 /\ exec' = [exec EXCEPT ![e].stop = TRUE] /\ UNCHANGED lg
       \/ e = 0 /\ kind = "file" /\ lg.lifecycle = None
          /\ lg' = [lg EXCEPT !.lifecycle = t] /\ UNCHANGED exec
       \/ (e = Sync \/ (e = 0 /\ kind # "file")) /\ UNCHANGED <<lg, exec>>
    /\ Goto(t, "down") /\ UNCHANGED <<kind, info, h>>

shutdown_return(t) ==
    /\ th[t].pc = "down" /\ Drained(t)
    /\ h' = [h EXCEPT !.down = TRUE]
    /\ lg' = Release(t) /\ Return(t) /\ UNCHANGED <<kind, exec, info>>
-----------------------------------------------------------------------------
log(t) ==
    \/ ConsoleLogger_log(t) \/ FileLogger_log(t) \/ UniqueFileLogger_log(t)
    \/ SyslogLogger_log(t) \/ EventLogLogger_log(t) \/ WindowsDebugLogger_log(t)

wait(t) ==
    \/ ConsoleLogger_wait(t) \/ FileLogger_wait(t) \/ UniqueFileLogger_wait(t)
    \/ SyslogLogger_wait(t) \/ EventLogLogger_wait(t) \/ WindowsDebugLogger_wait(t)

set_config(t) ==
    \/ ConsoleLogger_set_config(t) \/ FileLogger_set_config(t)
    \/ UniqueFileLogger_set_config(t) \/ WindowsDebugLogger_set_config(t)
    \/ FileLogger_set_queue_config(t) \/ UniqueFileLogger_set_queue_config(t)
    \/ WindowsDebugLogger_set_queue_config(t)

shutdown(t) ==
    \/ ConsoleLogger_shutdown(t) \/ FileLogger_shutdown(t) \/ UniqueFileLogger_shutdown(t)
    \/ SyslogLogger_shutdown(t) \/ EventLogLogger_shutdown(t) \/ WindowsDebugLogger_shutdown(t)

\* The steps of a call that has begun.
Continue(t) ==
    \/ log_add(t) \/ ConsoleLogger_enqueue(t) \/ finish_pending_enqueue(t)
    \/ wait_for_pending_enqueues(t) \/ wait_return(t)
    \/ clear_wait(t) \/ clear_files(t) \/ get_last_log_file_return(t)
    \/ set_config_switch(t) \/ ConsoleLogger_configure(t) \/ retire(t) \/ retire_join(t)
    \/ ConsoleLogger_quiesce(t) \/ shutdown_stop(t) \/ shutdown_return(t)

Begin(t) ==
    \/ log(t) \/ wait(t) \/ set_config(t) \/ shutdown(t) \/ set_log_level(t)
    \/ FileLogger_clear_logs(t) \/ UniqueFileLogger_clear_logs(t) \/ get_last_log_file(t)

Work(e) == take_task(e) \/ write_task(e) \/ syslog_task(e) \/ unique_task(e)

Next == (\E t \in Threads : Begin(t) \/ Continue(t)) \/ (\E e \in DOMAIN exec : Work(e))

\* The worker of an executor, a caller of its wait() and one that its add_task()
\* blocks sleep on one condition variable, and the notify_one() of add_task() may
\* wake any of them.  With such a sleeper the worker may never learn of a task,
\* until the notify_all() of a shutdown.  The classes that hold the lifecycle
\* mutex over add_task() and over the wait do not meet themselves there, but on
\* the shared executor they meet the other loggers.
Sleepers(e) ==
    {t \in Threads : th[t].e = e /\ th[t].pc \in {"wait", "clearwait", "drain", "down", "enqueue"}}
MayMissWakeup(e) ==
    /\ ~exec[e].stop /\ Sleepers(e) # {}
    /\ e = 0 \/ kind \in {"console", "syslog", "eventlog"}

\* A call that can go on does, a task that was taken ends, and a worker that was
\* told of a task takes it; nobody has to make another call.
Fairness ==
    /\ \A t \in Threads : WF_vars(Continue(t))
    /\ \A e \in 0..MaxCalls + 1 : WF_vars(Work(e) /\ (MayMissWakeup(e) => exec[e].run # 0))

Spec == Init /\ [][Next]_vars /\ Fairness
-----------------------------------------------------------------------------
Ids == 1..Len(h.by)

\* The values the state may take.
TypeOK ==
    /\ kind \in Kinds /\ lg.config \in Config
    /\ lg.executor \in DOMAIN exec /\ lg.lifecycle \in Threads \cup {None} /\ lg.pending \in Nat
    /\ \A e \in DOMAIN exec : exec[e].q \in Seq(Ids) /\ exec[e].run \in Ids \cup {0}
    /\ \A t \in Threads : info[t].pending_logs \in Int /\ th[t].e \in DOMAIN exec \cup {Sync}

Queued == UNION {{exec[e].q[i] : i \in DOMAIN exec[e].q} \cup {exec[e].run} : e \in DOMAIN exec}

\* A record is written at most once and is never lost but by being dropped or
\* filtered (an EventLogLogger without a handle filters every one): at any time each one is on its way into an executor,
\* in one, or settled, whatever switches of configuration and whatever
\* shutdown happened meanwhile.
RecordsAccounted ==
    /\ \A r \in Ids : r \in Entering \cup Queued \cup Settled
    /\ \A i, j \in DOMAIN h.written : h.written[i] = h.written[j] => i = j

\* Which behaviours drain before they change the executor: all but those of a
\* ConsoleLogger whose configuration was changed.
Draining == kind # "console" \/ h.configs = 0

\* Once shutdown() has returned, none of the logger's tasks is left in an
\* executor and none can be added: nothing uses the logger any more, and its
\* destructor may run.
ShutdownQuiesces == Draining /\ h.down => Queued \subseteq {0} /\ Entering = {}

\* A backend on an executor in one invariant.
BackendSafety == TypeOK /\ RecordsAccounted /\ ShutdownQuiesces

\* The records of one thread are written in the order in which it logged them,
\* also over a change from asynchronous to synchronous writing or from one
\* executor to another.
ProgramOrder ==
    Draining => \A i, j \in DOMAIN h.written :
        i < j /\ h.by[h.written[i]] = h.by[h.written[j]] => h.written[i] < h.written[j]

\* ILogger::wait() and the wait of clear_logs(): when it returns, the records
\* whose log() had returned before the call are settled.  Not so of a
\* ConsoleLogger that another thread configures or shuts down: it waits for no
\* executor then.
WaitStep ==
    \A t \in Threads :
        Draining /\ (kind = "console" => ~lg.shutdown) /\ th[t].pc \in {"wait", "clearwait"} /\ th'[t].pc # th[t].pc
            => th[t].seen \subseteq Settled

\* get_last_log_file_name(): the file it names is the one of the last record
\* the calling thread logged, not of another thread's or an earlier one.
LastFileStep ==
    \A t \in Threads :
        LET mine == {r \in Ids : h.by[r] = t}
            last == CHOOSE r \in mine : \A s \in mine : s <= r
        IN  th[t].pc = "get" /\ th'[t].pc # "get" /\ mine # {} /\ h.clears = 0
                => info[t].last = IF last \in h.files THEN last ELSE NotAvailable
=============================================================================
