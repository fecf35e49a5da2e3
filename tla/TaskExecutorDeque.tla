-------------------------- MODULE TaskExecutorDeque --------------------------
(***************************************************************************)
(* detail/TaskExecutor.hpp, native build without LOGIT_USE_MPSC_RING: the  *)
(* process-wide executor shared by every asynchronous logger.  A deque     *)
(* guarded by m_queue_mutex, one worker thread, one condition variable for *)
(* the worker, the blocked producers and the callers of wait(), and        *)
(* m_lifecycle_mutex, which shutdown() holds until the worker is joined.   *)
(*                                                                         *)
(* Steps, the condition variable and tickets are as in                     *)
(* SingleThreadExecutor; where that class differs: its notify after a pop  *)
(* wakes everyone, its blocked producers treat a limit of 0 as unlimited,  *)
(* its set_max_queue_size() notifies, and its wait() does not end on stop. *)
(***************************************************************************)
EXTENDS Naturals, Sequences, FiniteSets, TicketQueue

CONSTANTS
    Threads,      \* client threads, the worker not included
    Producers,    \* threads that call add_task()
    WaitCallers,  \* threads that call wait()
    Configurers,  \* threads that call the setters, reset and shutdown()
    Worker,       \* the worker thread
    Capacities,   \* arguments of set_max_queue_size()
    Policies,     \* arguments of set_queue_policy()
    MaxTasks      \* bound: number of add_task() calls

QueuePolicy == {"Block", "DropNewest", "DropOldest"}

ASSUME ConstantsAssumption ==
    /\ Producers \subseteq Threads
    /\ WaitCallers \subseteq Threads
    /\ Configurers \subseteq Threads
    /\ Worker \notin Threads
    /\ Capacities \subseteq Nat
    /\ Policies \subseteq QueuePolicy
    /\ MaxTasks \in Nat

VARIABLES
    m_tasks_queue,      \* tickets, oldest first
    m_queue_condition,  \* threads asleep on the condition variable
    m_stop_flag,
    m_max_queue_size,
    m_overflow_policy,
    m_dropped_tasks,
    m_active_tasks,
    task,               \* the ticket held by worker_function(), 0 if none
    pc,                 \* where each thread is
    \* history
    submitted,          \* add_task() calls
    accepted,           \* tickets pushed
    finished,           \* tickets executed
    evicted,            \* tickets popped by DropOldest
    forgotten,          \* drops erased by reset_dropped_tasks()
    target              \* tickets a caller of wait() found accepted

queueVars   == <<m_tasks_queue, accepted, evicted>>
configVars  == <<m_stop_flag, m_max_queue_size, m_overflow_policy>>
workerVars  == <<m_active_tasks, task, finished>>
counterVars == <<m_dropped_tasks, submitted, forgotten>>
vars == <<queueVars, configVars, workerVars, counterVars, m_queue_condition, pc, target>>

Locations == {"idle", "blocked", "notify_one", "waiting",
              "shutdown_notify", "join", "loop", "popped", "task", "exited"}

GoTo(t, location) == pc' = [pc EXCEPT ![t] = location]

Awake(t) == t \notin m_queue_condition

Sleep(t) == m_queue_condition' = m_queue_condition \cup {t}

NotifyOne_Missing == UNCHANGED m_queue_condition

NotifyOne ==
    \/ m_queue_condition = {} /\ UNCHANGED m_queue_condition
    \/ \E t \in m_queue_condition : m_queue_condition' = m_queue_condition \ {t}

NotifyAll == m_queue_condition' = {}

Init ==
    /\ m_tasks_queue = <<>>
    /\ m_queue_condition = {}
    /\ m_stop_flag = FALSE
    /\ m_max_queue_size = 0
    /\ m_overflow_policy = "Block"
    /\ m_dropped_tasks = 0
    /\ m_active_tasks = 0
    /\ task = 0
    /\ pc = [t \in Threads \cup {Worker} |-> IF t = Worker THEN "loop" ELSE "idle"]
    /\ submitted = 0
    /\ accepted = 0
    /\ finished = {}
    /\ evicted = {}
    /\ forgotten = 0
    /\ target = [t \in Threads |-> 0]
-----------------------------------------------------------------------------
(* add_task() *)

QueueIsFull == m_max_queue_size > 0 /\ Len(m_tasks_queue) >= m_max_queue_size

PushBack_AtFront ==
    /\ m_tasks_queue' = <<accepted + 1>> \o m_tasks_queue
    /\ accepted' = accepted + 1

PushBack ==
    /\ m_tasks_queue' = Append(m_tasks_queue, accepted + 1)
    /\ accepted' = accepted + 1

\* DropOldest: pop_front(), then push_back() the new task.
PopFrontPushBack ==
    /\ m_tasks_queue # <<>>
    /\ m_tasks_queue' = Append(Tail(m_tasks_queue), accepted + 1)
    /\ accepted' = accepted + 1
    /\ evicted' = evicted \cup {Head(m_tasks_queue)}

Discard == m_dropped_tasks' = m_dropped_tasks + 1

add_task(p) ==
    /\ pc[p] = "idle"
    /\ submitted < MaxTasks
    /\ submitted' = submitted + 1
    /\ \/ /\ m_stop_flag
          /\ UNCHANGED <<queueVars, m_dropped_tasks, m_queue_condition, pc>>
       \/ /\ ~m_stop_flag /\ ~QueueIsFull
          /\ PushBack
          /\ GoTo(p, "notify_one")
          /\ UNCHANGED <<evicted, m_dropped_tasks, m_queue_condition>>
       \/ /\ ~m_stop_flag /\ QueueIsFull /\ m_overflow_policy = "DropNewest"
          /\ Discard
          /\ UNCHANGED <<queueVars, m_queue_condition, pc>>
       \/ /\ ~m_stop_flag /\ QueueIsFull /\ m_overflow_policy = "DropOldest"
          /\ PopFrontPushBack
          /\ Discard
          /\ GoTo(p, "notify_one")
          /\ UNCHANGED m_queue_condition
       \/ /\ ~m_stop_flag /\ QueueIsFull /\ m_overflow_policy = "Block"
          /\ Sleep(p)
          /\ GoTo(p, "blocked")
          /\ UNCHANGED <<queueVars, m_dropped_tasks>>
    /\ UNCHANGED <<configVars, workerVars, forgotten, target>>

HasRoom_AtLimit == Len(m_tasks_queue) <= m_max_queue_size

\* The predicate of a blocked producer: unlike QueueIsFull it has no case for
\* a limit of 0.
HasRoom == Len(m_tasks_queue) < m_max_queue_size

add_task_wake(p) ==
    /\ pc[p] = "blocked" /\ Awake(p)
    /\ \/ /\ m_stop_flag
          /\ GoTo(p, "idle")
          /\ UNCHANGED <<m_tasks_queue, accepted, m_queue_condition>>
       \/ /\ ~m_stop_flag /\ HasRoom
          /\ PushBack
          /\ GoTo(p, "notify_one")
          /\ UNCHANGED m_queue_condition
       \/ /\ ~m_stop_flag /\ ~HasRoom
          /\ Sleep(p)
          /\ UNCHANGED <<m_tasks_queue, accepted, pc>>
    /\ UNCHANGED <<evicted, configVars, workerVars, counterVars, target>>

add_task_notify(p) ==
    /\ pc[p] = "notify_one"
    /\ NotifyOne
    /\ GoTo(p, "idle")
    /\ UNCHANGED <<queueVars, configVars, workerVars, counterVars, target>>
-----------------------------------------------------------------------------
(* wait() *)

Drained_IgnoresActive == m_tasks_queue = <<>>

Drained == m_tasks_queue = <<>> /\ m_active_tasks = 0

wait(c) ==
    /\ pc[c] = "idle"
    /\ GoTo(c, "waiting")
    /\ target' = [target EXCEPT ![c] = accepted]
    /\ UNCHANGED <<queueVars, configVars, workerVars, counterVars, m_queue_condition>>

wait_test(c) ==
    /\ pc[c] = "waiting" /\ Awake(c)
    /\ \/ /\ Drained \/ m_stop_flag
          /\ GoTo(c, "idle")
          /\ UNCHANGED m_queue_condition
       \/ /\ ~Drained /\ ~m_stop_flag
          /\ Sleep(c)
          /\ UNCHANGED pc
    /\ UNCHANGED <<queueVars, configVars, workerVars, counterVars, target>>
-----------------------------------------------------------------------------
(* shutdown() and the setters: m_lifecycle_mutex serialises them *)

LifecycleFree == \A c \in Threads : pc[c] \notin {"shutdown_notify", "join"}

shutdown(c) ==
    /\ pc[c] = "idle"
    /\ LifecycleFree
    /\ m_stop_flag' = TRUE
    /\ GoTo(c, "shutdown_notify")
    /\ UNCHANGED <<m_max_queue_size, m_overflow_policy,
                   queueVars, workerVars, counterVars, m_queue_condition, target>>

shutdown_notify(c) ==
    /\ pc[c] = "shutdown_notify"
    /\ NotifyAll
    /\ GoTo(c, "join")
    /\ UNCHANGED <<queueVars, configVars, workerVars, counterVars, target>>

shutdown_join(c) ==
    /\ pc[c] = "join"
    /\ pc[Worker] = "exited"
    /\ GoTo(c, "idle")
    /\ UNCHANGED <<queueVars, configVars, workerVars, counterVars,
                   m_queue_condition, target>>

set_max_queue_size(c, size) ==
    /\ pc[c] = "idle"
    /\ LifecycleFree
    /\ ~m_stop_flag
    /\ m_max_queue_size' = size
    /\ UNCHANGED <<m_stop_flag, m_overflow_policy, queueVars, workerVars,
                   counterVars, m_queue_condition, pc, target>>

set_queue_policy(c, policy) ==
    /\ pc[c] = "idle"
    /\ LifecycleFree
    /\ ~m_stop_flag
    /\ m_overflow_policy' = policy
    /\ UNCHANGED <<m_stop_flag, m_max_queue_size, queueVars, workerVars,
                   counterVars, m_queue_condition, pc, target>>

reset_dropped_tasks(c) ==
    /\ pc[c] = "idle"
    /\ forgotten' = forgotten + m_dropped_tasks
    /\ m_dropped_tasks' = 0
    /\ UNCHANGED <<submitted, queueVars, configVars, workerVars,
                   m_queue_condition, pc, target>>
-----------------------------------------------------------------------------
(* worker_function() *)

MustExit_Undrained == m_stop_flag

MustExit == m_stop_flag /\ m_tasks_queue = <<>>

worker_sleep ==
    /\ pc[Worker] = "loop" /\ Awake(Worker)
    /\ m_tasks_queue = <<>> /\ ~m_stop_flag
    /\ Sleep(Worker)
    /\ UNCHANGED <<queueVars, configVars, workerVars, counterVars, pc, target>>

worker_exit ==
    /\ pc[Worker] = "loop" /\ Awake(Worker)
    /\ MustExit
    /\ GoTo(Worker, "exited")
    /\ UNCHANGED <<queueVars, configVars, workerVars, counterVars,
                   m_queue_condition, target>>

worker_pop ==
    /\ pc[Worker] = "loop" /\ Awake(Worker)
    /\ ~MustExit /\ m_tasks_queue # <<>>
    /\ task' = Head(m_tasks_queue)
    /\ m_tasks_queue' = Tail(m_tasks_queue)
    /\ m_active_tasks' = m_active_tasks + 1
    /\ GoTo(Worker, "popped")
    /\ UNCHANGED <<accepted, evicted, finished, configVars, counterVars,
                   m_queue_condition, target>>

worker_notify ==
    /\ pc[Worker] = "popped"
    /\ NotifyOne
    /\ GoTo(Worker, "task")
    /\ UNCHANGED <<queueVars, configVars, workerVars, counterVars, target>>

TaskDone == m_active_tasks' = m_active_tasks - 1

\* task() returned, and the critical section after it.
worker_finish ==
    /\ pc[Worker] = "task"
    /\ finished' = finished \cup {task}
    /\ task' = 0
    /\ TaskDone
    /\ IF m_tasks_queue = <<>> /\ m_active_tasks' = 0
       THEN NotifyAll ELSE UNCHANGED m_queue_condition
    /\ GoTo(Worker, "loop")
    /\ UNCHANGED <<queueVars, configVars, counterVars, target>>

\* The C++ standard lets a wait return without a notification.
spurious_wakeup(t) ==
    /\ t \in m_queue_condition
    /\ m_queue_condition' = m_queue_condition \ {t}
    /\ UNCHANGED <<queueVars, configVars, workerVars, counterVars, pc, target>>
-----------------------------------------------------------------------------
ClientStep(c) ==
    \/ add_task_wake(c)
    \/ add_task_notify(c)
    \/ wait_test(c)
    \/ shutdown_notify(c)
    \/ shutdown_join(c)

worker_function ==
    worker_sleep \/ worker_exit \/ worker_pop \/ worker_notify \/ worker_finish

\* The calls the program may make, or not.
Configure(c) ==
    \/ shutdown(c)
    \/ \E size \in Capacities : set_max_queue_size(c, size)
    \/ \E policy \in Policies : set_queue_policy(c, policy)
    \/ reset_dropped_tasks(c)

Next ==
    \/ \E p \in Producers : add_task(p)
    \/ \E c \in WaitCallers : wait(c)
    \/ \E c \in Configurers : Configure(c)
    \/ \E c \in Threads : ClientStep(c)
    \/ worker_function
    \/ \E t \in Threads \cup {Worker} : spurious_wakeup(t)

Spec == Init /\ [][Next]_vars

\* Every runnable thread keeps running and every task returns.  The program
\* is not obliged to call anything, nor the platform to wake spuriously.
Fairness ==
    /\ WF_vars(worker_function)
    /\ \A c \in Threads : WF_vars(ClientStep(c))

FairSpec == Spec /\ Fairness
-----------------------------------------------------------------------------
(* Properties *)

Queued  == Tickets(m_tasks_queue)
Running == IF task = 0 THEN {} ELSE {task}
Settled == finished \cup evicted

\* Every variable has its type; in particular m_active_tasks never leaves
\* {0, 1}: worker_function() runs one task at a time.
TypeOK ==
    /\ m_tasks_queue \in Seq(Nat)
    /\ m_queue_condition \subseteq Threads \cup {Worker}
    /\ m_stop_flag \in BOOLEAN
    /\ m_max_queue_size \in Nat
    /\ m_overflow_policy \in QueuePolicy
    /\ m_dropped_tasks \in Nat
    /\ m_active_tasks \in {0, 1}
    /\ task \in Nat
    /\ pc \in [Threads \cup {Worker} -> Locations]
    /\ submitted \in Nat
    /\ accepted \in Nat
    /\ finished \subseteq Nat
    /\ evicted \subseteq Nat
    /\ forgotten \in Nat
    /\ target \in [Threads -> Nat]

\* When wait() returns, every task accepted before the call was executed or
\* evicted, unless a shutdown was requested.
WaitContract ==
    [][\A c \in Threads :
         pc[c] = "waiting" /\ pc'[c] = "idle" =>
            m_stop_flag \/ 1..target[c] \subseteq Settled]_vars

\* "Stop the worker thread and drain outstanding tasks": once the worker has
\* exited no accepted task is left, and none is accepted any more.
DrainedAtExit ==
    pc[Worker] = "exited" => m_stop_flag /\ 1..accepted = Settled

\* The two in one invariant.
Safety == TypeOK /\ DrainedAtExit

\* add_task() never makes the deque grow past the limit in force, even when
\* the limit was lowered below its length or several producers are woken.
NeverGrowsPastLimit ==
    [][Len(m_tasks_queue') > Len(m_tasks_queue) =>
         m_max_queue_size = 0 \/ Len(m_tasks_queue') <= m_max_queue_size]_vars

Abstract == INSTANCE FifoExecutor
    WITH pending <- Queued, running <- task, closed <- m_stop_flag

\* The executor implements the abstract one: each accepted task is started at
\* most once, oldest first, one at a time, or is evicted by DropOldest, and
\* nothing is accepted once the executor is closed.
ImplementsFifoExecutor == Abstract!Spec

\* Only a client asleep on m_queue_condition can stall the worker: again and again each
\* accepted task is settled or some thread is blocked in add_task() or wait(),
\* where it may have taken the notify_one() that was meant for the worker.
AcceptedTasksSettle ==
    \A i \in 1..MaxTasks :
        (i <= accepted) ~>
            (i \in Settled \/ \E c \in Threads : pc[c] \in {"blocked", "waiting"})

\* shutdown() eventually gets everyone out: the worker exits, and every thread
\* in add_task(), wait() or shutdown() returns.
ShutdownReleasesEveryone ==
    /\ m_stop_flag ~> (pc[Worker] = "exited")
    /\ \A c \in Threads :
          (m_stop_flag /\ pc[c] \in {"blocked", "waiting", "join"}) ~> (pc[c] = "idle")

\* What shutdown() and the worker owe to the threads, in one property: accepted
\* tasks settle unless a client sleeps, and shutdown() gets everyone out.
Progress == AcceptedTasksSettle /\ ShutdownReleasesEveryone

\* "`0` disables the limit": a producer does not stay blocked by a queue whose
\* limit was disabled.
UnlimitedQueueDoesNotBlock ==
    \A p \in Threads :
        (pc[p] = "blocked" /\ m_max_queue_size = 0) ~> (pc[p] # "blocked" \/ m_max_queue_size # 0)
=============================================================================
