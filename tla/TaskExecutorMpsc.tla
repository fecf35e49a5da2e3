-------------------------- MODULE TaskExecutorMpsc ---------------------------
(***************************************************************************)
(* detail/TaskExecutor.hpp, native build with LOGIT_USE_MPSC_RING.         *)
(*                                                                         *)
(* Producers publish into the lock-free ring (cells of MpscCells, which    *)
(* MpscRing implements) and worker_function() drains it.  wait() follows   *)
(* completion tickets; set_max_queue_size() is a "hot" resize that pauses  *)
(* the producers, waits for the executor to be idle, stops the worker,     *)
(* replaces the ring and starts a new worker.                              *)
(*                                                                         *)
(* A step is one access to shared state or one critical section.  Every    *)
(* sleep on m_cv is timed, so a notification of m_cv only shortens a       *)
(* delay: m_cv is left out and the sleeper may go on at any moment.        *)
(* m_cv_mutex guards no data.  m_resize_cv (producers) and m_completion_cv *)
(* are slept on without a timeout and are sets of sleepers; between the    *)
(* test of a predicate and the sleep, another thread may run.  Deadlines   *)
(* may pass at any moment.  DRAIN_BUDGET is abstracted: a batch may end    *)
(* after any task.                                                         *)
(***************************************************************************)
EXTENDS Naturals, Sequences, FiniteSets, MpscCells

CONSTANTS
    Threads, Producers, WaitCallers, Configurers,  \* as in TaskExecutorDeque
    Worker,
    DefaultCap,   \* LOGIT_TASK_EXECUTOR_DEFAULT_RING_CAPACITY
    Capacities,   \* arguments of set_max_queue_size()
    Policies,     \* arguments of set_queue_policy()
    MaxTasks,     \* bound: number of add_task() calls
    MaxResizes    \* bound: number of resizes

QueuePolicy == {"Block", "DropNewest", "DropOldest"}

ASSUME ConstantsAssumption ==
    /\ Producers \subseteq Threads
    /\ WaitCallers \subseteq Threads
    /\ Configurers \subseteq Threads
    /\ Worker \notin Threads
    /\ IsFiniteSet(Threads) /\ "none" \notin Threads
    /\ DefaultCap \in Nat
    /\ Capacities \subseteq Nat
    /\ Policies \subseteq QueuePolicy
    /\ MaxTasks \in Nat /\ MaxResizes \in Nat

VARIABLES
    m_mpsc_queue,        \* the ring's cells, front first
    m_stop_flag, m_resizing, m_max_queue_size, m_overflow_policy,
    m_dropped_tasks, m_active_tasks, m_active_producers,
    m_submitted_tasks, m_completed_tasks,
    m_completion_wait_mutex,  \* its owner while wait() holds it between steps
    m_completion_cv, m_resize_cv,
    task,                \* the ticket held by worker_function(), 0 if none
    drained_any,
    policy,              \* the policy a producer loaded
    target,              \* the submission count a caller of wait() loaded
    pc,
    \* history
    calls, resizes,      \* add_task() calls and resizes begun
    accepted,            \* tickets: positions claimed in the ring, over all rings
    finished,            \* tickets executed
    closing,             \* shutdown() was called
    seen                 \* tickets accepted when a thread called wait()

ringVars       == <<m_mpsc_queue, accepted>>
configVars     == <<m_stop_flag, m_resizing, m_max_queue_size, m_overflow_policy, closing>>
completionVars == <<m_completed_tasks, m_completion_wait_mutex, m_completion_cv>>
producerVars   == <<m_active_producers, m_submitted_tasks, m_dropped_tasks, policy, calls>>
workerVars     == <<task, drained_any, m_active_tasks, finished>>
waitVars       == <<target, seen>>
vars == <<ringVars, configVars, completionVars, producerVars, workerVars, waitVars,
          m_resize_cv, resizes, pc>>

NoOwner == "none"

GoTo(t, location) == pc' = [pc EXCEPT ![t] = location]

CompletionFree == m_completion_wait_mutex = NoOwner

\* The capacity of the ring for the limit in force; the ring holds at least 2.
RingCap ==
    LET cap == IF m_max_queue_size = 0 THEN DefaultCap ELSE m_max_queue_size
    IN  IF cap < 2 THEN 2 ELSE cap

Init ==
    /\ m_mpsc_queue = <<>>
    /\ m_stop_flag = FALSE /\ m_resizing = FALSE
    /\ m_max_queue_size = 0 /\ m_overflow_policy = "Block"
    /\ m_dropped_tasks = 0 /\ m_active_tasks = 0 /\ m_active_producers = 0
    /\ m_submitted_tasks = 0 /\ m_completed_tasks = 0
    /\ m_completion_wait_mutex = NoOwner
    /\ m_completion_cv = {} /\ m_resize_cv = {}
    /\ task = 0 /\ drained_any = FALSE
    /\ policy = [t \in Threads |-> "Block"]
    /\ target = [t \in Threads |-> 0]
    /\ pc = [t \in Threads \cup {Worker} |-> IF t = Worker THEN "probe" ELSE "idle"]
    /\ calls = 0 /\ resizes = 0
    /\ accepted = 0 /\ finished = {}
    /\ closing = FALSE
    /\ seen = [t \in Threads |-> 0]
-----------------------------------------------------------------------------
(* enter_producer_() and leave_producer_() *)

add_task(p) ==
    /\ pc[p] = "idle"
    /\ calls < MaxTasks
    /\ calls' = calls + 1
    /\ GoTo(p, "enter")
    /\ UNCHANGED <<ringVars, configVars, completionVars, m_active_producers,
                   m_submitted_tasks, m_dropped_tasks, policy, workerVars, waitVars,
                   m_resize_cv, resizes>>

enter_load(p) ==
    /\ pc[p] = "enter"
    /\ GoTo(p, IF m_resizing THEN "resize_test" ELSE "fetch_add")
    /\ UNCHANGED <<ringVars, configVars, completionVars, producerVars, workerVars,
                   waitVars, m_resize_cv, resizes>>

resize_test(p) ==
    /\ pc[p] = "resize_test"
    /\ GoTo(p, IF m_resizing THEN "resize_sleep" ELSE "enter")
    /\ UNCHANGED <<ringVars, configVars, completionVars, producerVars, workerVars,
                   waitVars, m_resize_cv, resizes>>

resize_sleep(p) ==
    /\ pc[p] = "resize_sleep"
    /\ m_resize_cv' = m_resize_cv \cup {p}
    /\ GoTo(p, "resize_asleep")
    /\ UNCHANGED <<ringVars, configVars, completionVars, producerVars, workerVars,
                   waitVars, resizes>>

resize_wake(p) ==
    /\ pc[p] = "resize_asleep" /\ p \notin m_resize_cv
    /\ GoTo(p, "resize_test")
    /\ UNCHANGED <<ringVars, configVars, completionVars, producerVars, workerVars,
                   waitVars, m_resize_cv, resizes>>

enter_fetch_add(p) ==
    /\ pc[p] = "fetch_add"
    /\ m_active_producers' = m_active_producers + 1
    /\ GoTo(p, "recheck")
    /\ UNCHANGED <<ringVars, configVars, completionVars, m_submitted_tasks,
                   m_dropped_tasks, policy, calls, workerVars, waitVars, m_resize_cv,
                   resizes>>

MayEnter_Unchecked == TRUE

\* The second look at m_resizing, after the producer announced itself.
MayEnter == ~m_resizing

enter_recheck(p) ==
    /\ pc[p] = "recheck"
    /\ GoTo(p, IF MayEnter THEN "reserve" ELSE "retry_leave")
    /\ UNCHANGED <<ringVars, configVars, completionVars, producerVars, workerVars,
                   waitVars, m_resize_cv, resizes>>

\* fetch_sub(), and, for the last producer, the test and the notification.
leave_producer_(p) ==
    /\ pc[p] \in {"leave", "retry_leave"}
    /\ m_active_producers' = m_active_producers - 1
    /\ GoTo(p, CASE m_active_producers = 1 -> IF pc[p] = "leave" THEN "leave_check" ELSE "retry_check"
                 [] OTHER                  -> IF pc[p] = "leave" THEN "idle" ELSE "enter")
    /\ UNCHANGED <<ringVars, configVars, completionVars, m_submitted_tasks,
                   m_dropped_tasks, policy, calls, workerVars, waitVars, m_resize_cv,
                   resizes>>

leave_check(p) ==
    /\ pc[p] \in {"leave_check", "retry_check"}
    /\ m_resize_cv' = IF m_resizing THEN {} ELSE m_resize_cv
    /\ GoTo(p, IF pc[p] = "leave_check" THEN "idle" ELSE "enter")
    /\ UNCHANGED <<ringVars, configVars, completionVars, producerVars, workerVars,
                   waitVars, resizes>>
-----------------------------------------------------------------------------
(* The body of add_task() *)

Reserve_Missing == UNCHANGED m_submitted_tasks

\* The completion ticket, reserved before publication is attempted.
Reserve == m_submitted_tasks' = m_submitted_tasks + 1

add_task_reserve(p) ==
    /\ pc[p] = "reserve"
    /\ Reserve
    /\ GoTo(p, "loop")
    /\ UNCHANGED <<ringVars, configVars, completionVars, m_active_producers,
                   m_dropped_tasks, policy, calls, workerVars, waitVars, m_resize_cv,
                   resizes>>

\* The top of the loop: the stop flag, then the policy.
add_task_loop(p) ==
    /\ pc[p] = "loop"
    /\ policy' = [policy EXCEPT ![p] = m_overflow_policy]
    /\ GoTo(p, IF m_stop_flag THEN "reject" ELSE "push")
    /\ UNCHANGED <<ringVars, configVars, completionVars, m_active_producers,
                   m_submitted_tasks, m_dropped_tasks, calls, workerVars, waitVars,
                   m_resize_cv, resizes>>

TooManyInFlight == m_max_queue_size > 0 /\ m_active_tasks >= m_max_queue_size

RingIsFull == Len(m_mpsc_queue) >= RingCap

\* The in-flight test and try_push().  A timed wait of Block ends in the loop.
add_task_push(p) ==
    /\ pc[p] = "push"
    /\ \/ /\ policy[p] = "Block" /\ (TooManyInFlight \/ RingIsFull)
          /\ GoTo(p, "loop")
          /\ UNCHANGED <<ringVars, m_dropped_tasks>>
       \/ /\ ~(policy[p] = "Block" /\ TooManyInFlight)
          /\ ~RingIsFull
          /\ m_mpsc_queue' = Claimed(m_mpsc_queue, <<accepted + 1, p>>)
          /\ accepted' = accepted + 1
          /\ GoTo(p, "publish")
          /\ UNCHANGED m_dropped_tasks
       \/ /\ policy[p] # "Block" /\ RingIsFull
          /\ m_dropped_tasks' = m_dropped_tasks + 1
          /\ GoTo(p, "reject")
          /\ UNCHANGED ringVars
    /\ UNCHANGED <<configVars, completionVars, m_active_producers, m_submitted_tasks,
                   policy, calls, workerVars, waitVars, m_resize_cv, resizes>>

\* The store that publishes the cell this producer claimed.
add_task_publish(p) ==
    /\ pc[p] = "publish"
    /\ \E i \in DOMAIN m_mpsc_queue :
        /\ m_mpsc_queue[i].item[2] = p /\ ~m_mpsc_queue[i].published
        /\ m_mpsc_queue' = Published(m_mpsc_queue, m_mpsc_queue[i].item)
    /\ GoTo(p, "leave")
    /\ UNCHANGED <<accepted, configVars, completionVars, producerVars, workerVars,
                   waitVars, m_resize_cv, resizes>>

\* complete_task_() of a task that was rejected or executed: the increment
\* under m_completion_wait_mutex, then the notification.
Complete(t, next) ==
    /\ CompletionFree
    /\ m_completed_tasks' = m_completed_tasks + 1
    /\ GoTo(t, next)
    /\ UNCHANGED <<m_completion_wait_mutex, m_completion_cv>>

NotifyCompletion_Missing(t, next) ==
    /\ GoTo(t, next)
    /\ UNCHANGED completionVars

NotifyCompletion(t, next) ==
    /\ m_completion_cv' = {}
    /\ GoTo(t, next)
    /\ UNCHANGED <<m_completed_tasks, m_completion_wait_mutex>>

add_task_reject(p) ==
    /\ \/ pc[p] = "reject" /\ Complete(p, "reject_notify")
       \/ pc[p] = "reject_notify" /\ NotifyCompletion(p, "leave")
    /\ UNCHANGED <<ringVars, configVars, producerVars, workerVars, waitVars,
                   m_resize_cv, resizes>>
-----------------------------------------------------------------------------
(* wait() *)

wait(c) ==
    /\ pc[c] = "idle"
    /\ seen' = [seen EXCEPT ![c] = accepted]
    /\ GoTo(c, "wait_load")
    /\ UNCHANGED <<ringVars, configVars, completionVars, producerVars, workerVars,
                   target, m_resize_cv, resizes>>

\* Lock m_completion_wait_mutex (kept when the loop comes back here), load the
\* frontier.
wait_load(c) ==
    /\ pc[c] = "wait_load"
    /\ CompletionFree \/ m_completion_wait_mutex = c
    /\ m_completion_wait_mutex' = c
    /\ target' = [target EXCEPT ![c] = m_submitted_tasks]
    /\ GoTo(c, "wait_test")
    /\ UNCHANGED <<ringVars, configVars, m_completed_tasks, m_completion_cv,
                   producerVars, workerVars, seen, m_resize_cv, resizes>>

\* The predicate of m_completion_cv.wait().
wait_test(c) ==
    /\ pc[c] = "wait_test"
    /\ GoTo(c, IF m_completed_tasks >= target[c] \/ m_stop_flag
               THEN "wait_done" ELSE "wait_sleep")
    /\ UNCHANGED <<ringVars, configVars, completionVars, producerVars, workerVars,
                   waitVars, m_resize_cv, resizes>>

wait_sleep(c) ==
    /\ pc[c] = "wait_sleep"
    /\ m_completion_cv' = m_completion_cv \cup {c}
    /\ m_completion_wait_mutex' = NoOwner
    /\ GoTo(c, "wait_asleep")
    /\ UNCHANGED <<ringVars, configVars, m_completed_tasks, producerVars, workerVars,
                   waitVars, m_resize_cv, resizes>>

wait_wake(c) ==
    /\ pc[c] = "wait_asleep" /\ c \notin m_completion_cv
    /\ CompletionFree
    /\ m_completion_wait_mutex' = c
    /\ GoTo(c, "wait_test")
    /\ UNCHANGED <<ringVars, configVars, m_completed_tasks, m_completion_cv,
                   producerVars, workerVars, waitVars, m_resize_cv, resizes>>

FrontierReached_Stale(c) == m_completed_tasks >= seen[c]

FrontierReached(c) == m_completed_tasks >= m_submitted_tasks

\* The test that ends the loop or advances the frontier.
wait_done(c) ==
    /\ pc[c] = "wait_done"
    /\ \/ /\ m_stop_flag \/ FrontierReached(c)
          /\ m_completion_wait_mutex' = NoOwner
          /\ GoTo(c, "idle")
       \/ /\ ~m_stop_flag /\ ~FrontierReached(c)
          /\ GoTo(c, "wait_load")
          /\ UNCHANGED m_completion_wait_mutex
    /\ UNCHANGED <<ringVars, configVars, m_completed_tasks, m_completion_cv,
                   producerVars, workerVars, waitVars, m_resize_cv, resizes>>
-----------------------------------------------------------------------------
(* shutdown() and the setters: m_lifecycle_mutex serialises them *)

LifecycleLocations ==
    {"shutdown_notify", "shutdown_join", "pause", "drain", "stop", "join", "restart",
     "open", "open_notify"}

LifecycleFree == \A c \in Threads : pc[c] \notin LifecycleLocations

shutdown(c) ==
    /\ pc[c] = "idle" /\ LifecycleFree
    /\ m_stop_flag' = TRUE
    /\ closing' = TRUE
    /\ GoTo(c, "shutdown_notify")
    /\ UNCHANGED <<ringVars, m_resizing, m_max_queue_size, m_overflow_policy,
                   completionVars, producerVars, workerVars, waitVars, m_resize_cv, resizes>>

\* m_completion_cv.notify_all(), made without m_completion_wait_mutex.
shutdown_notify(c) ==
    /\ pc[c] = "shutdown_notify"
    /\ NotifyCompletion(c, "shutdown_join")
    /\ UNCHANGED <<ringVars, configVars, producerVars, workerVars, waitVars,
                   m_resize_cv, resizes>>

shutdown_join(c) ==
    /\ pc[c] = "shutdown_join" /\ pc[Worker] = "exited"
    /\ GoTo(c, "idle")
    /\ UNCHANGED <<ringVars, configVars, completionVars, producerVars, workerVars,
                   waitVars, m_resize_cv, resizes>>

set_queue_policy(c, p) ==
    /\ pc[c] = "idle" /\ LifecycleFree
    /\ ~m_stop_flag
    /\ m_overflow_policy' = p
    /\ UNCHANGED <<ringVars, m_stop_flag, m_resizing, m_max_queue_size, closing,
                   completionVars, producerVars, workerVars, waitVars, m_resize_cv,
                   resizes, pc>>

set_max_queue_size(c) ==
    /\ pc[c] = "idle" /\ LifecycleFree
    /\ ~m_stop_flag
    /\ resizes < MaxResizes
    /\ resizes' = resizes + 1
    /\ m_resizing' = TRUE
    /\ GoTo(c, "pause")
    /\ UNCHANGED <<ringVars, m_stop_flag, m_max_queue_size, m_overflow_policy, closing,
                   completionVars, producerVars, workerVars, waitVars, m_resize_cv>>

\* Re-open the barrier: the store, and in a later step the notification.
OpenBarrier(c) == m_resizing' = FALSE /\ GoTo(c, "open_notify")

\* wait_until_producers_paused_(): the predicate holds, or the deadline passes.
resize_pause(c) ==
    /\ pc[c] = "pause"
    /\ \/ m_active_producers = 0 /\ GoTo(c, "drain") /\ UNCHANGED m_resizing
       \/ m_active_producers # 0 /\ OpenBarrier(c)
    /\ UNCHANGED <<ringVars, m_stop_flag, m_max_queue_size, m_overflow_policy, closing,
                   completionVars, producerVars, workerVars, waitVars, m_resize_cv, resizes>>

Idle_Unchecked == TRUE

Idle == m_completed_tasks >= m_submitted_tasks

\* wait_until_idle_(): every submission completed, or the deadline passes.
resize_drain(c) ==
    /\ pc[c] = "drain" /\ CompletionFree
    /\ \/ Idle /\ GoTo(c, "stop") /\ UNCHANGED m_resizing
       \/ ~Idle /\ OpenBarrier(c)
    /\ UNCHANGED <<ringVars, m_stop_flag, m_max_queue_size, m_overflow_policy, closing,
                   completionVars, producerVars, workerVars, waitVars, m_resize_cv, resizes>>

resize_stop(c) ==
    /\ pc[c] = "stop"
    /\ m_stop_flag' = TRUE
    /\ GoTo(c, "join")
    /\ UNCHANGED <<ringVars, m_resizing, m_max_queue_size, m_overflow_policy, closing,
                   completionVars, producerVars, workerVars, waitVars, m_resize_cv, resizes>>

\* join(), then the new limit and the new ring, which discards the old one.
\* (The argument of the call is not used before this point.)
resize_join(c, size) ==
    /\ pc[c] = "join" /\ pc[Worker] = "exited"
    /\ m_max_queue_size' = size
    /\ m_mpsc_queue' = <<>>
    /\ m_active_tasks' = 0
    /\ GoTo(c, "restart")
    /\ UNCHANGED <<accepted, m_stop_flag, m_resizing, m_overflow_policy, closing,
                   completionVars, producerVars, task, drained_any, finished, waitVars,
                   m_resize_cv, resizes>>

\* Clear the stop flag and start the new worker thread.
resize_restart(c) ==
    /\ pc[c] = "restart"
    /\ m_stop_flag' = FALSE
    /\ drained_any' = FALSE
    /\ pc' = [pc EXCEPT ![c] = "open", ![Worker] = "probe"]
    /\ UNCHANGED <<ringVars, m_resizing, m_max_queue_size, m_overflow_policy, closing,
                   completionVars, producerVars, task, m_active_tasks, finished,
                   waitVars, m_resize_cv, resizes>>

resize_open(c) ==
    /\ pc[c] = "open"
    /\ OpenBarrier(c)
    /\ UNCHANGED <<ringVars, m_stop_flag, m_max_queue_size, m_overflow_policy, closing,
                   completionVars, producerVars, workerVars, waitVars, m_resize_cv, resizes>>

resize_open_notify(c) ==
    /\ pc[c] = "open_notify"
    /\ m_resize_cv' = {}
    /\ GoTo(c, "idle")
    /\ UNCHANGED <<ringVars, configVars, completionVars, producerVars, workerVars,
                   waitVars, resizes>>
-----------------------------------------------------------------------------
(* worker_function() *)

ReleaseActive_Missing == UNCHANGED m_active_tasks

ReleaseActive == m_active_tasks' = m_active_tasks - 1

MayExit_Idle == TRUE

MayExit == m_stop_flag

worker_probe ==
    /\ pc[Worker] = "probe"
    /\ m_active_tasks' = m_active_tasks + 1
    /\ GoTo(Worker, "pop")
    /\ UNCHANGED <<ringVars, configVars, completionVars, producerVars, task,
                   drained_any, finished, waitVars, m_resize_cv, resizes>>

worker_pop ==
    /\ pc[Worker] = "pop"
    /\ \/ /\ ~CanPop(m_mpsc_queue)
          /\ GoTo(Worker, "pop_failed")
          /\ UNCHANGED <<m_mpsc_queue, task, drained_any>>
       \/ /\ CanPop(m_mpsc_queue)
          /\ task' = Head(m_mpsc_queue).item[1]
          /\ m_mpsc_queue' = Tail(m_mpsc_queue)
          /\ drained_any' = TRUE
          /\ GoTo(Worker, "task")
    /\ UNCHANGED <<accepted, configVars, completionVars, producerVars, m_active_tasks,
                   finished, waitVars, m_resize_cv, resizes>>

worker_pop_failed ==
    /\ pc[Worker] = "pop_failed"
    /\ ReleaseActive
    /\ GoTo(Worker, "check_empty")
    /\ UNCHANGED <<ringVars, configVars, completionVars, producerVars, task,
                   drained_any, finished, waitVars, m_resize_cv, resizes>>

worker_task ==
    /\ pc[Worker] = "task"
    /\ finished' = finished \cup {task}
    /\ task' = 0
    /\ GoTo(Worker, "complete")
    /\ UNCHANGED <<ringVars, configVars, completionVars, producerVars, drained_any,
                   m_active_tasks, waitVars, m_resize_cv, resizes>>

worker_complete ==
    /\ \/ pc[Worker] = "complete" /\ Complete(Worker, "complete_notify")
       \/ pc[Worker] = "complete_notify" /\ NotifyCompletion(Worker, "release")
    /\ UNCHANGED <<ringVars, configVars, producerVars, workerVars, waitVars,
                   m_resize_cv, resizes>>

worker_release ==
    /\ pc[Worker] = "release"
    /\ ReleaseActive
    /\ \E next \in {"probe", "check_empty"} : GoTo(Worker, next)
    /\ UNCHANGED <<ringVars, configVars, completionVars, producerVars, task,
                   drained_any, finished, waitVars, m_resize_cv, resizes>>

\* queue_empty_() && m_active_tasks == 0, and only then the stop flag.
worker_check_empty ==
    /\ pc[Worker] = "check_empty"
    /\ GoTo(Worker, IF ~CanPop(m_mpsc_queue) /\ m_active_tasks = 0
                    THEN "check_stop" ELSE "check_idle")
    /\ UNCHANGED <<ringVars, configVars, completionVars, producerVars, workerVars,
                   waitVars, m_resize_cv, resizes>>

worker_check_stop ==
    /\ pc[Worker] = "check_stop"
    /\ GoTo(Worker, IF MayExit THEN "exited" ELSE "check_idle")
    /\ UNCHANGED <<ringVars, configVars, completionVars, producerVars, workerVars,
                   waitVars, m_resize_cv, resizes>>

\* if (!drained_any): leave when stopped and empty, else a timed wait.
worker_check_idle ==
    /\ pc[Worker] = "check_idle"
    /\ GoTo(Worker, IF ~drained_any /\ MayExit /\ ~CanPop(m_mpsc_queue)
                    THEN "exited" ELSE "probe")
    /\ drained_any' = FALSE
    /\ UNCHANGED <<ringVars, configVars, completionVars, producerVars, task,
                   m_active_tasks, finished, waitVars, m_resize_cv, resizes>>

\* The C++ standard lets a wait return without a notification.
spurious_wakeup(t) ==
    /\ t \in m_completion_cv \cup m_resize_cv
    /\ m_completion_cv' = m_completion_cv \ {t}
    /\ m_resize_cv' = m_resize_cv \ {t}
    /\ UNCHANGED <<ringVars, configVars, m_completed_tasks, m_completion_wait_mutex,
                   producerVars, workerVars, waitVars, resizes, pc>>
-----------------------------------------------------------------------------
ProducerStep(p) ==
    \/ enter_load(p) \/ resize_test(p) \/ resize_sleep(p) \/ resize_wake(p)
    \/ enter_fetch_add(p) \/ enter_recheck(p) \/ leave_producer_(p) \/ leave_check(p)
    \/ add_task_reserve(p) \/ add_task_loop(p) \/ add_task_push(p)
    \/ add_task_publish(p) \/ add_task_reject(p)

WaitStep(c) ==
    wait_load(c) \/ wait_test(c) \/ wait_sleep(c) \/ wait_wake(c) \/ wait_done(c)

LifecycleStep(c) ==
    \/ shutdown_notify(c) \/ shutdown_join(c)
    \/ resize_pause(c) \/ resize_drain(c) \/ resize_stop(c)
    \/ \E size \in Capacities : resize_join(c, size)
    \/ resize_restart(c) \/ resize_open(c) \/ resize_open_notify(c)

worker_function ==
    \/ worker_probe \/ worker_pop \/ worker_pop_failed \/ worker_task
    \/ worker_complete \/ worker_release
    \/ worker_check_empty \/ worker_check_stop \/ worker_check_idle

ClientStep(c) == ProducerStep(c) \/ WaitStep(c) \/ LifecycleStep(c)

Next ==
    \/ \E p \in Producers : add_task(p)
    \/ \E c \in WaitCallers : wait(c)
    \/ \E c \in Configurers :
        \/ shutdown(c) \/ set_max_queue_size(c)
        \/ \E p \in Policies : set_queue_policy(c, p)
    \/ \E c \in Threads : ClientStep(c)
    \/ worker_function
    \/ \E t \in Threads : spurious_wakeup(t)

Spec == Init /\ [][Next]_vars

\* Every runnable thread keeps running, every task returns and timed waits end.
\* Strong fairness: a thread that finds m_completion_wait_mutex free again and
\* again gets it.
Fairness ==
    /\ SF_vars(worker_function)
    /\ \A c \in Threads : SF_vars(ClientStep(c))

FairSpec == Spec /\ Fairness
-----------------------------------------------------------------------------
(* Properties *)

Inside(cs) == {c \in Threads : pc[c] \in cs}

Queued == {m_mpsc_queue[i].item[1] : i \in DOMAIN m_mpsc_queue}

\* Every variable has its type; in particular neither m_active_tasks nor
\* m_active_producers ever goes below zero.
TypeOK ==
    /\ m_mpsc_queue \in Seq([item : Nat \X Threads, published : BOOLEAN])
    /\ {m_stop_flag, m_resizing, drained_any, closing} \subseteq BOOLEAN
    /\ m_max_queue_size \in Nat
    /\ m_overflow_policy \in QueuePolicy
    /\ {m_dropped_tasks, m_active_producers, m_submitted_tasks, m_completed_tasks,
        task, accepted} \subseteq Nat
    /\ m_active_tasks \in {0, 1}
    /\ m_completion_wait_mutex \in WaitCallers \cup {NoOwner}
    /\ m_completion_cv \subseteq WaitCallers
    /\ m_resize_cv \subseteq Producers
    /\ policy \in [Threads -> QueuePolicy]
    /\ target \in [Threads -> Nat] /\ seen \in [Threads -> Nat]
    /\ finished \subseteq Nat

\* The completion frontier is exact: a reserved submission that is not counted
\* as completed is held by a producer inside add_task(), sits in the ring or
\* is in the worker's hands.  wait() would otherwise return early or never.
CompletionAccounting ==
    m_submitted_tasks =
        m_completed_tasks + Len(m_mpsc_queue)
            + Cardinality(Inside({"loop", "push", "reject"}))
            + (IF pc[Worker] \in {"task", "complete"} THEN 1 ELSE 0)

\* m_active_producers counts the producers between enter and leave, and while
\* a resize works behind the barrier none of them is past the second look.
ResizeBarrier ==
    /\ m_active_producers =
        Cardinality(Inside({"recheck", "retry_leave", "reserve", "loop", "push",
                            "publish", "reject", "reject_notify", "leave"}))
    /\ Inside({"drain", "stop", "join", "restart", "open"}) # {} =>
        Inside({"reserve", "loop", "push", "publish", "reject", "reject_notify"}) = {}

\* The counters of the executor in one invariant: types, the completion frontier
\* and the barrier of a resize.
Safety == TypeOK /\ CompletionAccounting /\ ResizeBarrier

\* When wait() returns, every task accepted before the call was executed,
\* unless shutdown() was called.  The stop flag a resize raises is no excuse.
WaitContract ==
    [][\A c \in Threads :
         pc[c] = "wait_done" /\ pc'[c] = "idle" =>
            closing \/ 1..seen[c] \subseteq finished]_vars

Abstract == INSTANCE FifoExecutor
    WITH pending <- Queued, running <- task, evicted <- {}, closed <- FALSE

\* The executor, resizes included, implements the abstract one: accepted tasks
\* start once each, oldest first, and a resize discards none.  (Without its
\* closing: see NoTaskLeftBehind.)
ImplementsFifoExecutor == Abstract!Spec

\* "Stop the worker thread and drain outstanding tasks": when shutdown() has
\* joined the worker, every accepted task was executed.
NoTaskLeftBehind ==
    closing /\ pc[Worker] = "exited" => 1..accepted \subseteq finished
=============================================================================
