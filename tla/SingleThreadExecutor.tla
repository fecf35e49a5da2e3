------------------------ MODULE SingleThreadExecutor ------------------------
(***************************************************************************)
(* detail/SingleThreadExecutor.hpp (native build): a deque guarded by      *)
(* m_mutex, one worker thread, and ONE condition variable m_cv on which    *)
(* the worker, the producers blocked by QueuePolicy::Block and the callers *)
(* of wait() all sleep.                                                    *)
(*                                                                         *)
(* A step is a stretch of code between two points where the thread holds   *)
(* no lock: a whole critical section, or one notify call made after the    *)
(* mutex was released.  m_cv is the set of threads asleep on the condition *)
(* variable; a thread taken out of it has still to re-acquire the mutex    *)
(* and re-test its predicate.  Tasks are told apart by their ticket only,  *)
(* the position at which they were pushed.                                 *)
(***************************************************************************)
EXTENDS Naturals, Sequences, FiniteSets, TicketQueue

CONSTANTS
    Threads,      \* client threads, the worker not included
    Producers,    \* threads that call add_task()
    WaitCallers,  \* threads that call wait()
    Configurers,  \* threads that call the setters, reset and shutdown()
    Worker,       \* the worker thread
    InitCapacity, \* m_max_queue_size and
    InitPolicy,   \* m_overflow_policy as the owner's constructor leaves them
    Capacities,   \* arguments of set_max_queue_size()
    Policies,     \* arguments of set_queue_policy()
    MaxTasks      \* bound: number of add_task() calls

QueuePolicy == {"Block", "DropNewest", "DropOldest"}

ASSUME ConstantsAssumption ==
    /\ Producers \subseteq Threads
    /\ WaitCallers \subseteq Threads
    /\ Configurers \subseteq Threads
    /\ Worker \notin Threads
    /\ IsFiniteSet(Threads)
    /\ InitCapacity \in Nat
    /\ InitPolicy \in QueuePolicy
    /\ Capacities \subseteq Nat
    /\ Policies \subseteq QueuePolicy
    /\ MaxTasks \in Nat

VARIABLES
    m_queue,            \* tickets, oldest first
    m_cv,               \* threads asleep on the condition variable
    m_stop,             \* m_stop and m_shutdown_done: one critical section sets both
    m_max_queue_size,
    m_overflow_policy,
    m_dropped_tasks,
    m_active_tasks,
    task,               \* the ticket held by worker_loop, 0 if none
    pc,                 \* where each thread is
    \* history
    submitted,          \* add_task() calls
    accepted,           \* tickets pushed
    finished,           \* tickets executed
    evicted,            \* tickets popped by DropOldest
    forgotten,          \* drops erased by reset_dropped_tasks()
    target              \* tickets a caller of wait() found accepted

queueVars   == <<m_queue, accepted, evicted>>
configVars  == <<m_stop, m_max_queue_size, m_overflow_policy>>
workerVars  == <<m_active_tasks, task, finished>>
counterVars == <<m_dropped_tasks, submitted, forgotten>>
vars == <<queueVars, configVars, workerVars, counterVars, m_cv, pc, target>>

Locations == {"idle", "blocked", "notify_one", "waiting", "notify_all",
              "shutdown_notify", "join", "loop", "popped", "task", "exited"}

GoTo(t, location) == pc' = [pc EXCEPT ![t] = location]

Awake(t) == t \notin m_cv

\* std::condition_variable: wait puts the caller to sleep, notify_one wakes
\* an arbitrary sleeper, notify_all wakes every one.
Sleep(t) == m_cv' = m_cv \cup {t}

NotifyOne_Missing == UNCHANGED m_cv

NotifyOne ==
    \/ m_cv = {} /\ UNCHANGED m_cv
    \/ \E t \in m_cv : m_cv' = m_cv \ {t}

NotifyAll_WakesOne == NotifyOne

NotifyAll == m_cv' = {}

Init ==
    /\ m_queue = <<>>
    /\ m_cv = {}
    /\ m_stop = FALSE
    /\ m_max_queue_size = InitCapacity
    /\ m_overflow_policy = InitPolicy
    /\ m_dropped_tasks = 0
    /\ m_active_tasks = 0
    /\ task = 0
    /\ pc = [t \in Threads \cup {Worker} |-> IF t = Worker THEN "loop" ELSE "idle"]
    /\ submitted = 0
    /\ accepted = 0
    /\ finished = {}
    /\ evicted = {}
    /\ forgotten = 0
    /\ target = [t \in Threads |-> 0]
-----------------------------------------------------------------------------
(* add_task() *)

QueueIsFull == m_max_queue_size > 0 /\ Len(m_queue) >= m_max_queue_size

PushBack_AtFront ==
    /\ m_queue' = <<accepted + 1>> \o m_queue
    /\ accepted' = accepted + 1

PushBack ==
    /\ m_queue' = Append(m_queue, accepted + 1)
    /\ accepted' = accepted + 1

\* DropNewest: the new task is discarded and counted.
Discard_Uncounted == UNCHANGED m_dropped_tasks

Discard == m_dropped_tasks' = m_dropped_tasks + 1

\* DropOldest: pop_front(), then push_back() the new task.
PopFrontPushBack ==
    /\ m_queue # <<>>
    /\ m_queue' = Append(Tail(m_queue), accepted + 1)
    /\ accepted' = accepted + 1
    /\ evicted' = evicted \cup {Head(m_queue)}

\* The critical section of add_task(), up to the unlock or the wait.
add_task(p) ==
    /\ pc[p] = "idle"
    /\ submitted < MaxTasks
    /\ submitted' = submitted + 1
    /\ \/ /\ m_stop
          /\ UNCHANGED <<queueVars, m_dropped_tasks, m_cv, pc>>
       \/ /\ ~m_stop /\ ~QueueIsFull
          /\ PushBack
          /\ GoTo(p, "notify_one")
          /\ UNCHANGED <<evicted, m_dropped_tasks, m_cv>>
       \/ /\ ~m_stop /\ QueueIsFull /\ m_overflow_policy = "DropNewest"
          /\ Discard
          /\ UNCHANGED <<queueVars, m_cv, pc>>
       \/ /\ ~m_stop /\ QueueIsFull /\ m_overflow_policy = "DropOldest"
          /\ PopFrontPushBack
          /\ Discard
          /\ GoTo(p, "notify_one")
          /\ UNCHANGED m_cv
       \/ /\ ~m_stop /\ QueueIsFull /\ m_overflow_policy = "Block"
          /\ Sleep(p)
          /\ GoTo(p, "blocked")
          /\ UNCHANGED <<queueVars, m_dropped_tasks>>
    /\ UNCHANGED <<configVars, workerVars, forgotten, target>>

\* A blocked producer re-tests the predicate of its m_cv.wait().
add_task_wake(p) ==
    /\ pc[p] = "blocked" /\ Awake(p)
    /\ \/ /\ m_stop
          /\ GoTo(p, "idle")
          /\ UNCHANGED <<m_queue, accepted, m_cv>>
       \/ /\ ~m_stop /\ ~QueueIsFull
          /\ PushBack
          /\ GoTo(p, "notify_one")
          /\ UNCHANGED m_cv
       \/ /\ ~m_stop /\ QueueIsFull
          /\ Sleep(p)
          /\ UNCHANGED <<m_queue, accepted, pc>>
    /\ UNCHANGED <<evicted, configVars, workerVars, counterVars, target>>

\* The notify_one() after the unlock.
add_task_notify(p) ==
    /\ pc[p] = "notify_one"
    /\ NotifyOne
    /\ GoTo(p, "idle")
    /\ UNCHANGED <<queueVars, configVars, workerVars, counterVars, target>>
-----------------------------------------------------------------------------
(* wait() *)

Drained_IgnoresActive == m_queue = <<>>

Drained == m_queue = <<>> /\ m_active_tasks = 0

wait(c) ==
    /\ pc[c] = "idle"
    /\ GoTo(c, "waiting")
    /\ target' = [target EXCEPT ![c] = accepted]
    /\ UNCHANGED <<queueVars, configVars, workerVars, counterVars, m_cv>>

wait_test(c) ==
    /\ pc[c] = "waiting" /\ Awake(c)
    /\ \/ Drained /\ GoTo(c, "idle") /\ UNCHANGED m_cv
       \/ ~Drained /\ Sleep(c) /\ UNCHANGED pc
    /\ UNCHANGED <<queueVars, configVars, workerVars, counterVars, target>>
-----------------------------------------------------------------------------
(* shutdown(): its callers in src/ serialise it behind their own flag *)

ShuttingDown == \E c \in Threads : pc[c] \in {"shutdown_notify", "join"}

shutdown(c) ==
    /\ pc[c] = "idle"
    /\ ~ShuttingDown
    /\ m_stop' = TRUE
    /\ GoTo(c, IF m_stop THEN "join" ELSE "shutdown_notify")
    /\ UNCHANGED <<m_max_queue_size, m_overflow_policy,
                   queueVars, workerVars, counterVars, m_cv, target>>

shutdown_notify(c) ==
    /\ pc[c] = "shutdown_notify"
    /\ NotifyAll
    /\ GoTo(c, "join")
    /\ UNCHANGED <<queueVars, configVars, workerVars, counterVars, target>>

shutdown_join(c) ==
    /\ pc[c] = "join"
    /\ pc[Worker] = "exited"
    /\ GoTo(c, "idle")
    /\ UNCHANGED <<queueVars, configVars, workerVars, counterVars, m_cv, target>>
-----------------------------------------------------------------------------
(* The setters and the drop counter *)

set_max_queue_size(c, size) ==
    /\ pc[c] = "idle"
    /\ \/ m_stop /\ UNCHANGED <<m_max_queue_size, pc>>
       \/ ~m_stop /\ m_max_queue_size' = size /\ GoTo(c, "notify_all")
    /\ UNCHANGED <<m_stop, m_overflow_policy,
                   queueVars, workerVars, counterVars, m_cv, target>>

set_max_queue_size_notify(c) ==
    /\ pc[c] = "notify_all"
    /\ NotifyAll
    /\ GoTo(c, "idle")
    /\ UNCHANGED <<queueVars, configVars, workerVars, counterVars, target>>

set_queue_policy(c, policy) ==
    /\ pc[c] = "idle"
    /\ ~m_stop
    /\ m_overflow_policy' = policy
    /\ UNCHANGED <<m_stop, m_max_queue_size, queueVars, workerVars,
                   counterVars, m_cv, pc, target>>

reset_dropped_tasks(c) ==
    /\ pc[c] = "idle"
    /\ forgotten' = forgotten + m_dropped_tasks
    /\ m_dropped_tasks' = 0
    /\ UNCHANGED <<submitted, queueVars, configVars, workerVars, m_cv, pc, target>>
-----------------------------------------------------------------------------
(* worker_loop() *)

MustExit_Undrained == m_stop

MustExit == m_stop /\ m_queue = <<>>

worker_sleep ==
    /\ pc[Worker] = "loop" /\ Awake(Worker)
    /\ m_queue = <<>> /\ ~m_stop
    /\ Sleep(Worker)
    /\ UNCHANGED <<queueVars, configVars, workerVars, counterVars, pc, target>>

worker_exit ==
    /\ pc[Worker] = "loop" /\ Awake(Worker)
    /\ MustExit
    /\ GoTo(Worker, "exited")
    /\ UNCHANGED <<queueVars, configVars, workerVars, counterVars, m_cv, target>>

PopFront_Kept == task' = Head(m_queue) /\ UNCHANGED m_queue

PopFront == task' = Head(m_queue) /\ m_queue' = Tail(m_queue)

worker_pop ==
    /\ pc[Worker] = "loop" /\ Awake(Worker)
    /\ ~MustExit /\ m_queue # <<>>
    /\ PopFront
    /\ m_active_tasks' = m_active_tasks + 1
    /\ GoTo(Worker, "popped")
    /\ UNCHANGED <<accepted, evicted, finished, configVars, counterVars, m_cv, target>>

worker_notify ==
    /\ pc[Worker] = "popped"
    /\ NotifyAll
    /\ GoTo(Worker, "task")
    /\ UNCHANGED <<queueVars, configVars, workerVars, counterVars, target>>

TaskDone_Leaked == UNCHANGED m_active_tasks

TaskDone == m_active_tasks' = m_active_tasks - 1

\* task() returned or threw, and the critical section after it.
worker_finish ==
    /\ pc[Worker] = "task"
    /\ finished' = finished \cup {task}
    /\ task' = 0
    /\ TaskDone
    /\ IF m_queue = <<>> /\ m_active_tasks' = 0 THEN NotifyAll ELSE UNCHANGED m_cv
    /\ GoTo(Worker, "loop")
    /\ UNCHANGED <<queueVars, configVars, counterVars, target>>

\* The C++ standard lets a wait return without a notification.
spurious_wakeup(t) ==
    /\ t \in m_cv
    /\ m_cv' = m_cv \ {t}
    /\ UNCHANGED <<queueVars, configVars, workerVars, counterVars, pc, target>>
-----------------------------------------------------------------------------
\* What a thread that is inside an operation does next.
ClientStep(c) ==
    \/ add_task_wake(c)
    \/ add_task_notify(c)
    \/ wait_test(c)
    \/ shutdown_notify(c)
    \/ shutdown_join(c)
    \/ set_max_queue_size_notify(c)

worker_loop == worker_sleep \/ worker_exit \/ worker_pop \/ worker_notify \/ worker_finish

\* The calls the program may make, or not.
Configure(c) ==
    \/ shutdown(c)
    \/ \E size \in Capacities : set_max_queue_size(c, size)
    \/ \E policy \in Policies : set_queue_policy(c, policy)
    \/ reset_dropped_tasks(c)

Next ==
    \/ \E p \in Producers : add_task(p)
    \/ \E c \in WaitCallers : wait(c)
    \/ \E c \in Configurers : Configure(c)
    \/ \E c \in Threads : ClientStep(c)
    \/ worker_loop
    \/ \E t \in Threads \cup {Worker} : spurious_wakeup(t)

Spec == Init /\ [][Next]_vars

\* Every runnable thread keeps running and every task returns.  The program
\* is not obliged to call anything, nor the platform to wake spuriously.
Fairness ==
    /\ WF_vars(worker_loop)
    /\ \A c \in Threads : WF_vars(ClientStep(c))

FairSpec == Spec /\ Fairness
-----------------------------------------------------------------------------
(* Properties *)

Queued  == Tickets(m_queue)
Running == IF task = 0 THEN {} ELSE {task}
Settled == finished \cup evicted

\* Every variable has its type; in particular m_active_tasks never leaves
\* {0, 1}: worker_loop() runs one task at a time.
TypeOK ==
    /\ m_queue \in Seq(Nat)
    /\ m_cv \subseteq Threads \cup {Worker}
    /\ m_stop \in BOOLEAN
    /\ m_max_queue_size \in Nat
    /\ m_overflow_policy \in QueuePolicy
    /\ m_dropped_tasks \in Nat
    /\ m_active_tasks \in {0, 1}
    /\ task \in Nat
    /\ pc \in [Threads \cup {Worker} -> Locations]
    /\ submitted \in Nat
    /\ accepted \in Nat
    /\ finished \subseteq Nat
    /\ evicted \subseteq Nat
    /\ forgotten \in Nat
    /\ target \in [Threads -> Nat]

\* A task add_task() accepted is, at every moment, in exactly one place: in
\* the deque, in the worker's hands, executed, or evicted by DropOldest.  No
\* interleaving loses it, runs it twice or runs it after its eviction.
OneFate ==
    /\ 1..accepted = Queued \cup Running \cup Settled
    /\ Queued \cap (Running \cup Settled) = {}
    /\ Running \cap Settled = {}
    /\ finished \cap evicted = {}

\* Tasks are executed in the order of acceptance: what was started precedes
\* everything still queued, and the deque itself is in ticket order.
InAcceptanceOrder ==
    /\ Increasing(m_queue)
    /\ \A s \in finished \cup Running, q \in Queued : s < q
    /\ \A f \in finished, r \in Running : f < r

\* "Returns once every task that was already accepted by add_task() has
\* completed": when wait() returns, every ticket handed out before the call
\* was executed or evicted, whatever was added meanwhile.
WaitContract ==
    [][\A c \in Threads :
         pc[c] = "waiting" /\ pc'[c] = "idle" => 1..target[c] \subseteq Settled]_vars

\* shutdown() drains before it joins: once the worker has left its loop the
\* deque is empty for good and no accepted task is left behind.
DrainedAtExit ==
    pc[Worker] = "exited" => m_stop /\ m_queue = <<>> /\ 1..accepted = Settled

\* The task accounting in one invariant: types, one fate for each accepted task,
\* and an empty deque when the worker has left.
Safety == TypeOK /\ OneFate /\ DrainedAtExit

\* Until shutdown() every add_task() call is accounted for: its task was
\* accepted, was counted as dropped, or its thread is still blocked.
NoSilentLoss ==
    ~m_stop =>
        submitted + Cardinality(evicted) =
            accepted + m_dropped_tasks + forgotten
                + Cardinality({p \in Producers : pc[p] = "blocked"})

Abstract == INSTANCE FifoExecutor
    WITH pending <- Queued, running <- task, closed <- m_stop

\* The executor implements the abstract one: each accepted task is started at
\* most once, oldest first, one at a time, or is evicted by DropOldest, and
\* nothing is accepted once the executor is closed.
ImplementsFifoExecutor == Abstract!Spec

\* Only a client asleep on m_cv can stall the worker: again and again each
\* accepted task is settled or some thread is blocked in add_task() or wait(),
\* where it may have taken the notify_one() that was meant for the worker.
AcceptedTasksSettle ==
    \A i \in 1..MaxTasks :
        (i <= accepted) ~>
            (i \in Settled \/ \E c \in Threads : pc[c] \in {"blocked", "waiting"})

\* shutdown() eventually gets everyone out: the worker exits, every thread
\* blocked in add_task() returns, and so does a caller of wait() asleep when
\* shutdown() is called, whom the last notify_all() of the worker reaches.
ShutdownReleasesEveryone ==
    /\ m_stop ~> (pc[Worker] = "exited" /\ \A c \in Threads : pc[c] # "blocked")
    /\ \A c \in Threads : (m_stop /\ pc[c] = "waiting") ~> (pc[c] = "idle")

\* What shutdown() and the worker owe to the threads, in one property: accepted
\* tasks settle unless a client sleeps, and shutdown() gets everyone out.
Progress == AcceptedTasksSettle /\ ShutdownReleasesEveryone

\* "wait() blocks until the queue drains and no active tasks remain": a caller
\* of wait() eventually returns.  (While no thread adds tasks forever, which
\* MaxTasks excludes, nothing but a lost wake-up can keep it.)
WaitReturns ==
    \A c \in Threads : (pc[c] = "waiting") ~> (pc[c] = "idle")
=============================================================================
