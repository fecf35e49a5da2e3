--------------------- MODULE SingleThreadExecutorProofs ---------------------
(***************************************************************************)
(* Proofs about SingleThreadExecutor for any number of threads and tasks,  *)
(* any capacities and policies.                                            *)
(*                                                                         *)
(* OneFate and InAcceptanceOrder are not inductive on their own: that the  *)
(* worker holds at most one task, and that m_active_tasks counts it, is    *)
(* tied to where the worker is (WorkerInv); that wait() may trust an empty *)
(* deque needs target never to be ahead of accepted (TargetInv).           *)
(***************************************************************************)
EXTENDS SingleThreadExecutor, TicketQueueTheorems

\* The prover of the steps that name none.
USE SMTT(60)

WorkerInv ==
    /\ pc[Worker] \in {"loop", "popped", "task", "exited"}
    /\ task # 0 <=> pc[Worker] \in {"popped", "task"}
    /\ m_active_tasks = IF task = 0 THEN 0 ELSE 1
    /\ pc[Worker] = "exited" => m_stop /\ m_queue = <<>>

TargetInv == \A c \in Threads : target[c] <= accepted

IInv == TypeOK /\ WorkerInv /\ OneFate /\ InAcceptanceOrder /\ TargetInv

taskVars == <<m_queue, accepted, evicted, finished, task>>
-----------------------------------------------------------------------------
(* The four ways a step changes the place of a task. *)

\* push_back() of a new ticket keeps every task in one place and the order.
LEMMA PushBackKeeps ==
    ASSUME TypeOK, OneFate, InAcceptanceOrder,
           PushBack, UNCHANGED <<evicted, finished, task>>
    PROVE  /\ m_queue' \in Seq(Nat)
           /\ m_queue' # <<>>
           /\ Queued' = Queued \cup {accepted + 1}
           /\ OneFate'
           /\ InAcceptanceOrder'
<1>1. m_queue \in Seq(Nat) /\ accepted \in Nat /\ accepted + 1 \in Nat
  BY DEF TypeOK
<1>2. 1..(accepted + 1) = 1..accepted \cup {accepted + 1} /\ accepted + 1 \notin 1..accepted
  BY <1>1
<1>3. \A u \in 1..accepted : u < accepted + 1
  BY <1>1
<1>4. Queued \subseteq 1..accepted /\ Running \subseteq 1..accepted /\ Settled \subseteq 1..accepted
  BY DEF OneFate
<1>5. Increasing(m_queue) /\ \A u \in Tickets(m_queue) : u < accepted + 1
  BY <1>3, <1>4 DEF InAcceptanceOrder, Queued
<1>6. /\ m_queue' \in Seq(Nat)
      /\ m_queue' # <<>>
      /\ Queued' = Queued \cup {accepted + 1}
      /\ Increasing(m_queue')
  BY <1>1, <1>5, PushBackTickets DEF PushBack, Queued
<1>7. Running' = Running /\ Settled' = Settled /\ accepted' = accepted + 1
  BY DEF Running, Settled, PushBack
<1>8. OneFate'
  BY <1>2, <1>4, <1>6, <1>7 DEF OneFate
<1>9. InAcceptanceOrder'
  <2>1. \A s \in finished \cup Running : s < accepted + 1
    BY <1>3, <1>4, ZenonT(60) DEF Settled
  <2> QED BY <1>6, <1>7, <2>1 DEF InAcceptanceOrder
<1> QED BY <1>6, <1>8, <1>9

\* pop_front() then push_back(): the oldest queued task becomes evicted.
LEMMA PopFrontPushBackKeeps ==
    ASSUME TypeOK, OneFate, InAcceptanceOrder,
           PopFrontPushBack, UNCHANGED <<finished, task>>
    PROVE  /\ m_queue' \in Seq(Nat)
           /\ m_queue' # <<>>
           /\ Head(m_queue) \in Queued
           /\ \A u \in Queued : Head(m_queue) <= u
           /\ Queued' = (Queued \ {Head(m_queue)}) \cup {accepted + 1}
           /\ OneFate'
           /\ InAcceptanceOrder'
<1> DEFINE h == Head(m_queue)
           q == Tail(m_queue)
<1>1. m_queue \in Seq(Nat) /\ accepted \in Nat /\ accepted + 1 \in Nat
  BY DEF TypeOK
<1>2. 1..(accepted + 1) = 1..accepted \cup {accepted + 1} /\ accepted + 1 \notin 1..accepted
  BY <1>1
<1>3. \A u \in 1..accepted : u < accepted + 1
  BY <1>1
<1>4. Queued \subseteq 1..accepted /\ Running \subseteq 1..accepted /\ Settled \subseteq 1..accepted
  BY DEF OneFate
<1>5. /\ h \in Queued
      /\ \A u \in Queued : h <= u
      /\ q \in Seq(Nat)
      /\ Tickets(q) = Queued \ {h}
      /\ Increasing(q)
  BY <1>1, PopFrontTickets DEF PopFrontPushBack, Queued, InAcceptanceOrder
<1>6. m_queue' = Append(q, accepted + 1) /\ accepted' = accepted + 1
      /\ evicted' = evicted \cup {h}
  BY DEF PopFrontPushBack
<1> HIDE DEF h, q
<1>7. \A u \in Tickets(q) : u < accepted + 1
  BY <1>3, <1>4, <1>5, ZenonT(60)
<1>8. /\ m_queue' \in Seq(Nat)
      /\ m_queue' # <<>>
      /\ Queued' = (Queued \ {h}) \cup {accepted + 1}
      /\ Increasing(m_queue')
  BY <1>1, <1>5, <1>6, <1>7, PushBackTickets DEF Queued
<1>9. Running' = Running /\ Settled' = Settled \cup {h}
  BY <1>6 DEF Running, Settled
<1>10. OneFate'
  <2>1. h \in 1..accepted /\ h \notin Running /\ h \notin finished /\ h # accepted + 1
    BY <1>2, <1>4, <1>5 DEF OneFate, Settled
  <2>2. 1..accepted' = Queued' \cup Running' \cup Settled'
    BY <1>2, <1>6, <1>8, <1>9, <2>1 DEF OneFate
  <2>3. Queued' \cap (Running' \cup Settled') = {}
    BY <1>2, <1>4, <1>8, <1>9, <2>1 DEF OneFate
  <2>4. Running' \cap Settled' = {} /\ finished' \cap evicted' = {}
    BY <1>6, <1>9, <2>1 DEF OneFate
  <2> QED BY <2>2, <2>3, <2>4 DEF OneFate
<1>11. InAcceptanceOrder'
  <2>1. \A s \in finished \cup Running : s < accepted + 1
    BY <1>3, <1>4, ZenonT(60) DEF Settled
  <2> QED BY <1>8, <1>9, <2>1 DEF InAcceptanceOrder
<1> QED BY <1>5, <1>8, <1>10, <1>11 DEF h

\* The worker takes the oldest queued task into its hands.
LEMMA PopFrontKeeps ==
    ASSUME TypeOK, OneFate, InAcceptanceOrder, task = 0, m_queue # <<>>,
           PopFront, UNCHANGED <<accepted, evicted, finished>>
    PROVE  /\ m_queue' \in Seq(Nat)
           /\ task' \in Nat /\ task' # 0
           /\ task' \in Queued
           /\ \A u \in Queued : task' <= u
           /\ Queued' = Queued \ {task'}
           /\ OneFate'
           /\ InAcceptanceOrder'
<1>1. m_queue \in Seq(Nat) /\ accepted \in Nat
  BY DEF TypeOK
<1>2. /\ task' \in Queued
      /\ \A u \in Queued : task' <= u
      /\ m_queue' \in Seq(Nat)
      /\ Queued' = Queued \ {task'}
      /\ Increasing(m_queue')
  BY <1>1, PopFrontTickets DEF PopFront, Queued, InAcceptanceOrder
<1>3. Queued \subseteq 1..accepted
  BY DEF OneFate
<1>4. task' \in Nat /\ task' # 0
  BY <1>1, <1>2, <1>3
<1>5. Running = {} /\ Running' = {task'} /\ Settled' = Settled
  BY <1>4 DEF Running, Settled
<1>6. OneFate'
  BY <1>2, <1>5 DEF OneFate
<1>7. InAcceptanceOrder'
  <2>1. \A u \in Queued' : task' < u
    <3> SUFFICES ASSUME NEW u \in Queued' PROVE task' < u
      OBVIOUS
    <3>1. u \in Nat /\ task' <= u /\ u # task'
      BY <1>1, <1>2, <1>3
    <3> QED BY <1>4, <3>1
  <2>2. \A f \in finished : f < task'
    BY <1>2 DEF InAcceptanceOrder
  <2> QED BY <1>2, <1>5, <2>1, <2>2 DEF InAcceptanceOrder
<1> QED BY <1>2, <1>4, <1>6, <1>7

\* The task the worker holds becomes executed.
LEMMA FinishKeeps ==
    ASSUME TypeOK, OneFate, InAcceptanceOrder, task # 0,
           finished' = finished \cup {task}, task' = 0,
           UNCHANGED <<m_queue, accepted, evicted>>
    PROVE  OneFate' /\ InAcceptanceOrder' /\ Queued' = Queued
<1>1. Running = {task} /\ Running' = {} /\ Settled' = Settled \cup {task} /\ Queued' = Queued
  BY DEF Running, Settled, Queued
<1>2. OneFate'
  BY <1>1 DEF OneFate, Settled
<1>3. InAcceptanceOrder'
  BY <1>1 DEF InAcceptanceOrder
<1> QED BY <1>1, <1>2, <1>3
-----------------------------------------------------------------------------
(* Every step, seen from the tasks only. *)

TaskStep ==
    \/ UNCHANGED taskVars /\ (m_stop' = m_stop \/ m_stop' = TRUE)
    \/ ~m_stop /\ PushBack /\ UNCHANGED <<evicted, finished, task, m_stop>>
    \/ ~m_stop /\ PopFrontPushBack /\ UNCHANGED <<finished, task, m_stop>>
    \/ /\ pc[Worker] = "loop" /\ m_queue # <<>>
       /\ PopFront
       /\ UNCHANGED <<accepted, evicted, finished, m_stop>>
    \/ /\ pc[Worker] = "task"
       /\ finished' = finished \cup {task} /\ task' = 0
       /\ UNCHANGED <<m_queue, accepted, evicted, m_stop>>

\* Whatever thread runs, a step moves at most one task (or swaps one out).
LEMMA StepIsTaskStep == ASSUME [Next]_vars PROVE TaskStep
<1> USE DEF vars, queueVars, configVars, workerVars, counterVars, taskVars
<1>1. ASSUME NEW p \in Producers, add_task(p) PROVE TaskStep
  BY <1>1 DEF add_task, TaskStep
<1>2. ASSUME NEW c \in WaitCallers, wait(c) PROVE TaskStep
  BY <1>2 DEF wait, TaskStep
<1>3. ASSUME NEW c \in Configurers, Configure(c) PROVE TaskStep
  BY <1>3 DEF Configure, shutdown, set_max_queue_size, set_queue_policy, reset_dropped_tasks,
     TaskStep
<1>4. ASSUME NEW c \in Threads, ClientStep(c) PROVE TaskStep
  BY <1>4 DEF ClientStep, add_task_wake, add_task_notify, wait_test, shutdown_notify,
     shutdown_join, set_max_queue_size_notify, TaskStep
<1>5. ASSUME worker_loop PROVE TaskStep
  BY <1>5 DEF worker_loop, worker_sleep, worker_exit, worker_pop, worker_notify, worker_finish,
     TaskStep
<1>6. ASSUME NEW t \in Threads \cup {Worker}, spurious_wakeup(t) PROVE TaskStep
  BY <1>6 DEF spurious_wakeup, TaskStep
<1>7. ASSUME UNCHANGED vars PROVE TaskStep
  BY <1>7 DEF TaskStep
<1> QED BY <1>1, <1>2, <1>3, <1>4, <1>5, <1>6, <1>7 DEF Next

\* A step keeps every task in one place and in order.
LEMMA TasksKept ==
    ASSUME IInv, [Next]_vars
    PROVE  /\ OneFate' /\ InAcceptanceOrder'
           /\ m_queue' \in Seq(Nat) /\ accepted' \in Nat /\ task' \in Nat
           /\ finished' \subseteq Nat /\ evicted' \subseteq Nat
           /\ accepted <= accepted'
<1>1. TypeOK /\ WorkerInv /\ OneFate /\ InAcceptanceOrder
  BY DEF IInv
<1>2. /\ m_queue \in Seq(Nat) /\ accepted \in Nat /\ task \in Nat
      /\ finished \subseteq Nat /\ evicted \subseteq Nat
  BY <1>1 DEF TypeOK
<1>3. CASE UNCHANGED taskVars
  BY <1>1, <1>2, <1>3 DEF taskVars, OneFate, InAcceptanceOrder, Queued, Running, Settled
<1>4. CASE PushBack /\ UNCHANGED <<evicted, finished, task>>
  <2>1. accepted' = accepted + 1
    BY <1>4 DEF PushBack
  <2> QED BY <1>1, <1>2, <1>4, <2>1, PushBackKeeps
<1>5. CASE PopFrontPushBack /\ UNCHANGED <<finished, task>>
  <2> DEFINE h == Head(m_queue)
  <2>1. accepted' = accepted + 1 /\ evicted' = evicted \cup {h}
    BY <1>5 DEF PopFrontPushBack
  <2>2. h \in Queued
    BY <1>1, <1>5, PopFrontPushBackKeeps
  <2>3. m_queue' \in Seq(Nat) /\ OneFate' /\ InAcceptanceOrder'
    BY <1>1, <1>5, PopFrontPushBackKeeps
  <2> HIDE DEF h
  <2>4. Queued \subseteq 1..accepted
    BY <1>1 DEF OneFate
  <2>5. h \in Nat
    BY <1>2, <2>2, <2>4
  <2>6. accepted' \in Nat /\ accepted <= accepted' /\ evicted' \subseteq Nat
    BY <1>2, <2>1, <2>5
  <2> QED BY <1>2, <1>5, <2>3, <2>6
<1>6. CASE /\ pc[Worker] = "loop" /\ m_queue # <<>>
           /\ PopFront /\ UNCHANGED <<accepted, evicted, finished>>
  <2>1. task = 0
    BY <1>1, <1>6 DEF WorkerInv
  <2> QED BY <1>1, <1>2, <1>6, <2>1, PopFrontKeeps
<1>7. CASE /\ pc[Worker] = "task"
           /\ finished' = finished \cup {task} /\ task' = 0
           /\ UNCHANGED <<m_queue, accepted, evicted>>
  <2>1. task # 0
    BY <1>1, <1>7 DEF WorkerInv
  <2> QED BY <1>1, <1>2, <1>7, <2>1, FinishKeeps
<1> QED BY <1>3, <1>4, <1>5, <1>6, <1>7, StepIsTaskStep, ZenonT(60) DEF TaskStep
-----------------------------------------------------------------------------
(* The inductive invariant. *)

\* The executor starts empty, idle and in order.
LEMMA InitIInv == ASSUME Init PROVE IInv
<1> USE ConstantsAssumption DEF Init
<1>1. TypeOK
  <2>1. m_queue \in Seq(Nat) /\ finished \subseteq Nat /\ evicted \subseteq Nat
    OBVIOUS
  <2>2. pc \in [Threads \cup {Worker} -> Locations]
    BY DEF Locations
  <2>3. target \in [Threads -> Nat]
    OBVIOUS
  <2> QED BY <2>1, <2>2, <2>3, ZenonT(60) DEF TypeOK
<1>2. Queued = {} /\ Running = {} /\ Settled = {} /\ Increasing(m_queue)
  BY EmptyQueue DEF Queued, Running, Settled
<1>3. OneFate
  BY <1>2 DEF OneFate
<1>4. InAcceptanceOrder
  BY <1>2 DEF InAcceptanceOrder
<1>5. WorkerInv
  BY DEF WorkerInv
<1>6. TargetInv
  BY DEF TargetInv
<1> QED BY <1>1, <1>3, <1>4, <1>5, <1>6 DEF IInv

\* m_active_tasks counts the task in the worker's hands, and the worker exits
\* only with an empty deque, which stays empty because m_stop stays set.
LEMMA WorkerKept == ASSUME IInv, [Next]_vars PROVE WorkerInv'
<1> USE ConstantsAssumption
    DEF IInv, vars, queueVars, configVars, workerVars, counterVars, GoTo
<1>0. pc \in [Threads \cup {Worker} -> Locations] /\ WorkerInv
  BY DEF TypeOK
<1>1. ASSUME NEW p \in Producers, add_task(p) PROVE WorkerInv'
  BY <1>0, <1>1 DEF add_task, WorkerInv
<1>2. ASSUME NEW c \in WaitCallers, wait(c) PROVE WorkerInv'
  BY <1>0, <1>2 DEF wait, WorkerInv
<1>3. ASSUME NEW c \in Configurers, Configure(c) PROVE WorkerInv'
  BY <1>0, <1>3 DEF Configure, shutdown, set_max_queue_size, set_queue_policy,
     reset_dropped_tasks, WorkerInv
<1>4. ASSUME NEW c \in Threads, ClientStep(c) PROVE WorkerInv'
  BY <1>0, <1>4 DEF ClientStep, add_task_wake, add_task_notify, wait_test, shutdown_notify,
     shutdown_join, set_max_queue_size_notify, WorkerInv
<1>5. ASSUME worker_loop PROVE WorkerInv'
  <2>1. CASE worker_sleep
    BY <1>0, <2>1 DEF worker_sleep, WorkerInv
  <2>2. CASE worker_exit
    BY <1>0, <2>2 DEF worker_exit, MustExit, WorkerInv
  <2>3. CASE worker_pop
    <3>1. task = 0 /\ m_active_tasks = 0
      BY <1>0, <2>3 DEF worker_pop, WorkerInv
    <3>2. task' # 0
      BY <2>3, <3>1, PopFrontKeeps DEF worker_pop
    <3> QED BY <1>0, <2>3, <3>1, <3>2 DEF worker_pop, WorkerInv
  <2>4. CASE worker_notify
    BY <1>0, <2>4 DEF worker_notify, WorkerInv
  <2>5. CASE worker_finish
    BY <1>0, <2>5 DEF worker_finish, TaskDone, WorkerInv
  <2> QED BY <1>5, <2>1, <2>2, <2>3, <2>4, <2>5 DEF worker_loop
<1>6. ASSUME NEW t \in Threads \cup {Worker}, spurious_wakeup(t) PROVE WorkerInv'
  BY <1>0, <1>6 DEF spurious_wakeup, WorkerInv
<1>7. ASSUME UNCHANGED vars PROVE WorkerInv'
  BY <1>0, <1>7 DEF WorkerInv
<1> QED BY <1>1, <1>2, <1>3, <1>4, <1>5, <1>6, <1>7 DEF Next

\* A caller of wait() looks back at tickets already handed out.
LEMMA TargetKept == ASSUME IInv, [Next]_vars PROVE TargetInv' /\ target' \in [Threads -> Nat]
<1>1. accepted \in Nat /\ accepted' \in Nat /\ accepted <= accepted'
  BY TasksKept DEF IInv, TypeOK
<1>2. target \in [Threads -> Nat] /\ TargetInv
  BY DEF IInv, TypeOK
<1>3. UNCHANGED target \/ \E c \in WaitCallers : target' = [target EXCEPT ![c] = accepted]
  BY DEF Next, add_task, wait, Configure, shutdown, set_max_queue_size, set_queue_policy,
     reset_dropped_tasks, ClientStep, add_task_wake, add_task_notify, wait_test,
     shutdown_notify, shutdown_join, set_max_queue_size_notify, worker_loop, worker_sleep,
     worker_exit, worker_pop, worker_notify, worker_finish, spurious_wakeup, vars
<1> QED BY <1>1, <1>2, <1>3, ConstantsAssumption DEF TargetInv

\* Every step keeps the types.
LEMMA TypeKept == ASSUME IInv, [Next]_vars PROVE TypeOK'
<1> USE ConstantsAssumption
    DEF vars, queueVars, configVars, workerVars, counterVars, GoTo, Locations,
        Sleep, NotifyOne, NotifyAll
<1>0. TypeOK
  BY DEF IInv
<1>1. /\ m_queue' \in Seq(Nat) /\ accepted' \in Nat /\ task' \in Nat
      /\ finished' \subseteq Nat /\ evicted' \subseteq Nat
      /\ target' \in [Threads -> Nat]
  BY TasksKept, TargetKept
<1>2. m_active_tasks' \in {0, 1}
  BY WorkerKept DEF WorkerInv
<1> DEFINE Rest ==
      /\ m_cv \subseteq Threads \cup {Worker}
      /\ m_stop \in BOOLEAN
      /\ m_max_queue_size \in Nat
      /\ m_overflow_policy \in QueuePolicy
      /\ m_dropped_tasks \in Nat
      /\ pc \in [Threads \cup {Worker} -> Locations]
      /\ submitted \in Nat
      /\ forgotten \in Nat
<1>3. Rest'
  <2>0. Rest
    BY <1>0 DEF TypeOK
  <2>1. ASSUME NEW p \in Producers, add_task(p) PROVE Rest'
    BY <2>0, <2>1 DEF add_task, Discard
  <2>2. ASSUME NEW c \in WaitCallers, wait(c) PROVE Rest'
    BY <2>0, <2>2 DEF wait
  <2>3. ASSUME NEW c \in Configurers, Configure(c) PROVE Rest'
    <3>1. CASE shutdown(c)
      BY <2>0, <3>1 DEF shutdown
    <3>2. ASSUME NEW size \in Capacities, set_max_queue_size(c, size) PROVE Rest'
      BY <2>0, <3>2 DEF set_max_queue_size
    <3>3. ASSUME NEW policy \in Policies, set_queue_policy(c, policy) PROVE Rest'
      BY <2>0, <3>3 DEF set_queue_policy
    <3>4. CASE reset_dropped_tasks(c)
      BY <2>0, <3>4 DEF reset_dropped_tasks
    <3> HIDE DEF Rest
    <3> QED BY <2>3, <3>1, <3>2, <3>3, <3>4 DEF Configure
  <2>4. ASSUME NEW c \in Threads, ClientStep(c) PROVE Rest'
    BY <2>0, <2>4 DEF ClientStep, add_task_wake, add_task_notify, wait_test, shutdown_notify,
       shutdown_join, set_max_queue_size_notify
  <2>5. ASSUME worker_loop PROVE Rest'
    BY <2>0, <2>5 DEF worker_loop, worker_sleep, worker_exit, worker_pop, worker_notify,
       worker_finish
  <2>6. ASSUME NEW t \in Threads \cup {Worker}, spurious_wakeup(t) PROVE Rest'
    BY <2>0, <2>6 DEF spurious_wakeup
  <2>7. ASSUME UNCHANGED vars PROVE Rest'
    BY <2>0, <2>7
  <2> HIDE DEF Rest
  <2> QED BY <2>1, <2>2, <2>3, <2>4, <2>5, <2>6, <2>7 DEF Next
<1> QED BY <1>1, <1>2, <1>3 DEF TypeOK

\* The invariant holds in every reachable state.
THEOREM Invariance == Spec => []IInv
<1>1. IInv /\ [Next]_vars => IInv'
  BY TasksKept, WorkerKept, TargetKept, TypeKept DEF IInv
<1> QED BY InitIInv, <1>1, PTL DEF Spec
-----------------------------------------------------------------------------
(* What the executor guarantees. *)

\* Every variable keeps its type; worker_loop() runs one task at a time.
THEOREM TypeCorrect == Spec => []TypeOK
<1>1. IInv => TypeOK
  BY DEF IInv
<1> QED BY Invariance, <1>1, PTL

\* No interleaving of add_task(), the setters, shutdown() and worker_loop()
\* loses an accepted task, executes it twice or executes an evicted one.
THEOREM TasksHaveOneFate == Spec => []OneFate
<1>1. IInv => OneFate
  BY DEF IInv
<1> QED BY Invariance, <1>1, PTL

\* worker_loop() executes tasks in the order add_task() accepted them.
THEOREM FifoExecution == Spec => []InAcceptanceOrder
<1>1. IInv => InAcceptanceOrder
  BY DEF IInv
<1> QED BY Invariance, <1>1, PTL

\* When the worker thread has exited, shutdown() left no accepted task behind.
THEOREM ShutdownDrains == Spec => []DrainedAtExit
<1>1. IInv => DrainedAtExit
  <2> SUFFICES ASSUME IInv, pc[Worker] = "exited"
               PROVE  m_stop /\ m_queue = <<>> /\ 1..accepted = Settled
    BY DEF DrainedAtExit
  <2>1. m_stop /\ m_queue = <<>> /\ task = 0
    BY DEF IInv, WorkerInv
  <2>2. Queued = {} /\ Running = {}
    BY <2>1, EmptyQueue DEF Queued, Running
  <2>3. 1..accepted = Queued \cup Running \cup Settled
    BY DEF IInv, OneFate
  <2> QED BY <2>1, <2>2, <2>3
<1> QED BY Invariance, <1>1, PTL

\* wait() returns only after every task accepted before the call has settled.
THEOREM WaitKeepsItsPromise == Spec => WaitContract
<1>1. ASSUME IInv, [Next]_vars, NEW c \in Threads, pc[c] = "waiting", pc'[c] = "idle"
      PROVE  1..target[c] \subseteq Settled
  <2> USE ConstantsAssumption DEF GoTo
  <2>1. pc \in [Threads \cup {Worker} -> Locations] /\ c # Worker
    BY <1>1 DEF IInv, TypeOK
  <2>2. Drained
    <3>1. ASSUME NEW p \in Producers, add_task(p) PROVE FALSE
      BY <1>1, <2>1, <3>1 DEF add_task
    <3>2. ASSUME NEW d \in WaitCallers, wait(d) PROVE FALSE
      BY <1>1, <2>1, <3>2 DEF wait
    <3>3. ASSUME NEW d \in Configurers, Configure(d) PROVE FALSE
      BY <1>1, <2>1, <3>3 DEF Configure, shutdown, set_max_queue_size, set_queue_policy,
         reset_dropped_tasks
    <3>4. ASSUME NEW d \in Threads, ClientStep(d) PROVE Drained
      BY <1>1, <2>1, <3>4 DEF ClientStep, add_task_wake, add_task_notify, wait_test,
         shutdown_notify, shutdown_join, set_max_queue_size_notify
    <3>5. ASSUME worker_loop PROVE FALSE
      BY <1>1, <2>1, <3>5 DEF worker_loop, worker_sleep, worker_exit, worker_pop, worker_notify,
         worker_finish
    <3>6. ASSUME NEW t \in Threads \cup {Worker}, spurious_wakeup(t) PROVE FALSE
      BY <1>1, <2>1, <3>6 DEF spurious_wakeup
    <3>7. ASSUME UNCHANGED vars PROVE FALSE
      BY <1>1, <2>1, <3>7 DEF vars
    <3> QED BY <1>1, <3>1, <3>2, <3>3, <3>4, <3>5, <3>6, <3>7 DEF Next
  <2>3. m_queue = <<>> /\ task = 0
    BY <1>1, <2>2 DEF Drained, IInv, WorkerInv
  <2>4. Queued = {} /\ Running = {}
    BY <2>3, EmptyQueue DEF Queued, Running
  <2>5. 1..accepted = Settled
    BY <1>1, <2>4 DEF IInv, OneFate
  <2>6. target[c] \in Nat /\ accepted \in Nat /\ target[c] <= accepted
    BY <1>1 DEF IInv, TypeOK, TargetInv
  <2> QED BY <2>5, <2>6
<1>2. IInv /\ [Next]_vars =>
        [\A c \in Threads :
           pc[c] = "waiting" /\ pc'[c] = "idle" => 1..target[c] \subseteq Settled]_vars
  BY <1>1
<1> QED BY Invariance, <1>2, PTL DEF Spec, WaitContract

\* What the run checks as one invariant: the types, the one fate of every task
\* that add_task() accepted, and the drained queue when the worker has left.
THEOREM SafetyHolds == Spec => []Safety
BY TypeCorrect, TasksHaveOneFate, ShutdownDrains, PTL DEF Safety
-----------------------------------------------------------------------------
(* Refinement *)

\* SingleThreadExecutor implements FifoExecutor: the locks, the condition
\* variable and the threads are invisible to the clients.
THEOREM Refinement == Spec => ImplementsFifoExecutor
<1>1. Init => Abstract!Init
  BY EmptyQueue DEF Init, Abstract!Init, Queued
<1>2. ASSUME IInv, [Next]_vars
      PROVE  [Abstract!Next]_(Abstract!abstractVars)
  <2> USE DEF Abstract!Next, Abstract!abstractVars
  <2>1. TypeOK /\ WorkerInv /\ OneFate /\ InAcceptanceOrder
    BY <1>2 DEF IInv
  <2>2. CASE UNCHANGED taskVars /\ (m_stop' = m_stop \/ m_stop' = TRUE)
    BY <2>2 DEF taskVars, Queued, Abstract!Close
  <2>3. CASE ~m_stop /\ PushBack /\ UNCHANGED <<evicted, finished, task, m_stop>>
    <3>1. Queued' = Queued \cup {accepted + 1} /\ accepted' = accepted + 1
      BY <2>1, <2>3, PushBackKeeps DEF PushBack
    <3> QED BY <2>3, <3>1 DEF Abstract!Accept
  <2>4. CASE ~m_stop /\ PopFrontPushBack /\ UNCHANGED <<finished, task, m_stop>>
    <3> DEFINE h == Head(m_queue)
    <3>1. h \in Queued /\ \A u \in Queued : h <= u
      BY <2>1, <2>4, PopFrontPushBackKeeps
    <3>2. Queued' = (Queued \ {h}) \cup {accepted + 1}
      BY <2>1, <2>4, PopFrontPushBackKeeps
    <3>3. accepted' = accepted + 1 /\ evicted' = evicted \cup {h}
      BY <2>4 DEF PopFrontPushBack
    <3> HIDE DEF h
    <3> QED BY <2>4, <3>1, <3>2, <3>3 DEF Abstract!EvictAndAccept, Abstract!Oldest
  <2>5. CASE /\ pc[Worker] = "loop" /\ m_queue # <<>>
             /\ PopFront /\ UNCHANGED <<accepted, evicted, finished, m_stop>>
    <3>1. task = 0
      BY <2>1, <2>5 DEF WorkerInv
    <3>2. task' \in Queued /\ (\A u \in Queued : task' <= u) /\ Queued' = Queued \ {task'}
      BY <2>1, <2>5, <3>1, PopFrontKeeps
    <3> QED BY <2>5, <3>1, <3>2 DEF Abstract!Start, Abstract!Oldest
  <2>6. CASE /\ pc[Worker] = "task"
             /\ finished' = finished \cup {task} /\ task' = 0
             /\ UNCHANGED <<m_queue, accepted, evicted, m_stop>>
    <3>1. task # 0
      BY <2>1, <2>6 DEF WorkerInv
    <3> QED BY <2>6, <3>1 DEF Abstract!Finish, Queued
  <2> QED BY <1>2, <2>2, <2>3, <2>4, <2>5, <2>6, StepIsTaskStep, ZenonT(60) DEF TaskStep
<1> QED BY <1>1, <1>2, Invariance, PTL DEF Spec, ImplementsFifoExecutor, Abstract!Spec
-----------------------------------------------------------------------------
(* The accounting of add_task() *)

INSTANCE FiniteSetTheorems

Blocked == {p \in Producers : pc[p] = "blocked"}

\* Only callers of add_task() block there.
BlockedInv == \A c \in Threads : pc[c] = "blocked" => c \in Producers

\* The invariant of the accounting.
LossInv == IInv /\ BlockedInv /\ NoSilentLoss

\* The sets that are counted are finite.
LEMMA CountedSetsFinite ==
    ASSUME IInv
    PROVE  /\ IsFiniteSet(evicted) /\ Cardinality(evicted) \in Nat
           /\ IsFiniteSet(Blocked) /\ Cardinality(Blocked) \in Nat
<1>1. evicted \subseteq 1..accepted /\ accepted \in Nat
  BY DEF IInv, TypeOK, OneFate, Settled
<1>2. IsFiniteSet(evicted)
  <2>1. IsFiniteSet(1..accepted)
    BY <1>1, 1 \in Int, accepted \in Int, FS_Interval
  <2> QED BY <1>1, <2>1, FS_Subset, ZenonT(60)
<1>3. Blocked \subseteq Threads
  BY ConstantsAssumption DEF Blocked
<1>4. IsFiniteSet(Blocked)
  BY <1>3, ConstantsAssumption, FS_Subset
<1> QED BY <1>2, <1>4, FS_CardinalityType

\* A thread that begins to block is counted once more, one that leaves once less.
LEMMA BlockedCount ==
    ASSUME IInv, NEW p \in Producers, NEW location \in Locations, GoTo(p, location)
    PROVE  Cardinality(Blocked') =
             Cardinality(Blocked) + (IF location = "blocked" /\ pc[p] # "blocked" THEN 1 ELSE 0)
                                  - (IF location # "blocked" /\ pc[p] = "blocked" THEN 1 ELSE 0)
<1>1. pc \in [Threads \cup {Worker} -> Locations] /\ p \in Threads
  BY ConstantsAssumption DEF IInv, TypeOK
<1>2. Blocked' = IF location = "blocked" THEN Blocked \cup {p} ELSE Blocked \ {p}
  BY <1>1, ConstantsAssumption DEF GoTo, Blocked
<1>3. IsFiniteSet(Blocked) /\ Cardinality(Blocked) \in Nat
  BY CountedSetsFinite
<1>4. p \in Blocked <=> pc[p] = "blocked"
  BY DEF Blocked
<1>5. CASE location = "blocked" /\ pc[p] # "blocked"
  <2>1. Cardinality(Blocked \cup {p}) = Cardinality(Blocked) + 1
    BY <1>3, <1>4, <1>5, FS_AddElement, ZenonT(60)
  <2> QED BY <1>2, <1>3, <1>5, <2>1
<1>6. CASE location # "blocked" /\ pc[p] = "blocked"
  <2>1. Cardinality(Blocked \ {p}) = Cardinality(Blocked) - 1
    BY <1>3, <1>4, <1>6, FS_RemoveElement, ZenonT(60)
  <2> QED BY <1>2, <1>3, <1>6, <2>1
<1>7. CASE (location = "blocked") = (pc[p] = "blocked")
  <2>1. Blocked' = Blocked
    BY <1>2, <1>4, <1>7
  <2> QED BY <1>3, <1>7, <2>1
<1> QED BY <1>5, <1>6, <1>7

\* A step outside add_task() moves no thread in or out of its wait, accepts and
\* evicts nothing, and only reset_dropped_tasks() touches the counter.
LEMMA OtherStepsKeepAccount ==
    ASSUME IInv, [Next]_vars,
           ~\E p \in Producers : add_task(p), ~\E p \in Threads : add_task_wake(p)
    PROVE  /\ \A c \in Threads : pc'[c] = "blocked" <=> pc[c] = "blocked"
           /\ UNCHANGED <<submitted, accepted, evicted>>
           /\ m_dropped_tasks' + forgotten' = m_dropped_tasks + forgotten
           /\ m_stop => m_stop'
<1> DEFINE Kept ==
      /\ \A c \in Threads : pc'[c] = "blocked" <=> pc[c] = "blocked"
      /\ UNCHANGED <<submitted, accepted, evicted>>
      /\ m_dropped_tasks' + forgotten' = m_dropped_tasks + forgotten
      /\ m_stop => m_stop'
<1> USE ConstantsAssumption DEF queueVars, configVars, workerVars, counterVars, GoTo
<1>0. /\ pc \in [Threads \cup {Worker} -> Locations]
      /\ m_dropped_tasks \in Nat /\ forgotten \in Nat
  BY DEF IInv, TypeOK
<1>1. ASSUME NEW c \in WaitCallers, wait(c) PROVE Kept
  BY <1>0, <1>1 DEF wait
<1>2. ASSUME NEW c \in Configurers, Configure(c) PROVE Kept
  <2>1. CASE shutdown(c)
    BY <1>0, <2>1 DEF shutdown
  <2>2. ASSUME NEW size \in Capacities, set_max_queue_size(c, size) PROVE Kept
    BY <1>0, <2>2 DEF set_max_queue_size
  <2>3. ASSUME NEW policy \in Policies, set_queue_policy(c, policy) PROVE Kept
    BY <1>0, <2>3 DEF set_queue_policy
  <2>4. CASE reset_dropped_tasks(c)
    BY <1>0, <2>4 DEF reset_dropped_tasks
  <2> HIDE DEF Kept
  <2> QED BY <1>2, <2>1, <2>2, <2>3, <2>4 DEF Configure
<1>3. ASSUME NEW c \in Threads, ClientStep(c), ~add_task_wake(c) PROVE Kept
  BY <1>0, <1>3 DEF ClientStep, add_task_notify, wait_test, shutdown_notify, shutdown_join,
     set_max_queue_size_notify
<1>4. ASSUME worker_loop PROVE Kept
  BY <1>0, <1>4 DEF worker_loop, worker_sleep, worker_exit, worker_pop, worker_notify,
     worker_finish
<1>5. ASSUME NEW t \in Threads \cup {Worker}, spurious_wakeup(t) PROVE Kept
  BY <1>0, <1>5 DEF spurious_wakeup
<1>6. ASSUME UNCHANGED vars PROVE Kept
  BY <1>0, <1>6 DEF vars
<1> HIDE DEF Kept
<1>7. Kept
  BY <1>1, <1>2, <1>3, <1>4, <1>5, <1>6 DEF Next
<1> QED BY <1>7 DEF Kept

\* The accounting is kept by every step.
LEMMA LossKept == LossInv /\ IInv' /\ [Next]_vars => LossInv'
<1> SUFFICES ASSUME IInv, IInv', BlockedInv, NoSilentLoss, [Next]_vars
             PROVE  BlockedInv' /\ NoSilentLoss'
  BY DEF LossInv
<1> USE ConstantsAssumption DEF queueVars, configVars, workerVars, counterVars
<1>0. /\ pc \in [Threads \cup {Worker} -> Locations]
      /\ submitted \in Nat /\ accepted \in Nat /\ m_dropped_tasks \in Nat /\ forgotten \in Nat
      /\ submitted' \in Nat /\ accepted' \in Nat /\ m_dropped_tasks' \in Nat
      /\ forgotten' \in Nat
  BY DEF IInv, TypeOK
<1>1. /\ IsFiniteSet(evicted) /\ Cardinality(evicted) \in Nat
      /\ IsFiniteSet(Blocked) /\ Cardinality(Blocked) \in Nat
  BY CountedSetsFinite
<1>2. ~m_stop => submitted + Cardinality(evicted) =
                    accepted + m_dropped_tasks + forgotten + Cardinality(Blocked)
  BY DEF NoSilentLoss, Blocked
<1> SUFFICES /\ BlockedInv'
             /\ ~m_stop' => submitted' + Cardinality(evicted') =
                    accepted' + m_dropped_tasks' + forgotten' + Cardinality(Blocked')
  BY DEF NoSilentLoss, Blocked
<1>3. ASSUME NEW p \in Producers, add_task(p)
      PROVE  /\ BlockedInv'
             /\ ~m_stop' => submitted' + Cardinality(evicted') =
                    accepted' + m_dropped_tasks' + forgotten' + Cardinality(Blocked')
  <2>1. BlockedInv'
    BY <1>0, <1>3 DEF add_task, GoTo, BlockedInv
  <2> SUFFICES ASSUME ~m_stop
               PROVE  submitted' + Cardinality(evicted') =
                        accepted' + m_dropped_tasks' + forgotten' + Cardinality(Blocked')
    BY <1>3, <2>1 DEF add_task
  <2>2. submitted' = submitted + 1 /\ forgotten' = forgotten /\ pc[p] = "idle"
    BY <1>3 DEF add_task
  <2>3. CASE PushBack /\ GoTo(p, "notify_one") /\ UNCHANGED <<evicted, m_dropped_tasks>>
    <3>1. accepted' = accepted + 1
      BY <2>3 DEF PushBack
    <3>2. Cardinality(Blocked') = Cardinality(Blocked)
      BY <1>1, <2>2, <2>3, BlockedCount DEF Locations
    <3> QED BY <1>0, <1>1, <1>2, <2>2, <2>3, <3>1, <3>2
  <2>4. CASE Discard /\ UNCHANGED <<queueVars, pc>>
    BY <1>0, <1>1, <1>2, <2>2, <2>4 DEF Discard, Blocked
  <2>5. CASE PopFrontPushBack /\ Discard /\ GoTo(p, "notify_one")
    <3>1. accepted' = accepted + 1 /\ m_dropped_tasks' = m_dropped_tasks + 1
          /\ evicted' = evicted \cup {Head(m_queue)}
      BY <2>5 DEF PopFrontPushBack, Discard
    <3>2. Head(m_queue) \notin evicted
      <4>1. Head(m_queue) \in Queued
        BY <2>5, <1>3, PopFrontPushBackKeeps DEF IInv, add_task
      <4> QED BY <4>1 DEF IInv, OneFate, Settled
    <3>3. Cardinality(evicted \cup {Head(m_queue)}) = Cardinality(evicted) + 1
      BY <1>1, <3>2, FS_AddElement, ZenonT(60)
    <3>4. Cardinality(Blocked') = Cardinality(Blocked)
      BY <1>1, <2>2, <2>5, BlockedCount DEF Locations
    <3> QED BY <1>0, <1>1, <1>2, <2>2, <3>1, <3>3, <3>4
  <2>6. CASE GoTo(p, "blocked") /\ UNCHANGED <<queueVars, m_dropped_tasks>>
    <3>1. Cardinality(Blocked') = Cardinality(Blocked) + 1
      BY <1>1, <2>2, <2>6, BlockedCount DEF Locations
    <3> QED BY <1>0, <1>1, <1>2, <2>2, <2>6, <3>1
  <2> QED BY <1>3, <2>3, <2>4, <2>5, <2>6 DEF add_task
<1>4. ASSUME NEW p \in Threads, add_task_wake(p)
      PROVE  /\ BlockedInv'
             /\ ~m_stop' => submitted' + Cardinality(evicted') =
                    accepted' + m_dropped_tasks' + forgotten' + Cardinality(Blocked')
  <2>1. BlockedInv'
    BY <1>0, <1>4 DEF add_task_wake, GoTo, BlockedInv
  <2> SUFFICES ASSUME ~m_stop
               PROVE  submitted' + Cardinality(evicted') =
                        accepted' + m_dropped_tasks' + forgotten' + Cardinality(Blocked')
    BY <1>4, <2>1 DEF add_task_wake
  <2>2. /\ UNCHANGED <<submitted, evicted, m_dropped_tasks, forgotten>>
        /\ pc[p] = "blocked" /\ p \in Producers
    BY <1>4 DEF add_task_wake, BlockedInv
  <2>3. CASE PushBack /\ GoTo(p, "notify_one")
    <3>1. accepted' = accepted + 1
      BY <2>3 DEF PushBack
    <3>2. Cardinality(Blocked') = Cardinality(Blocked) - 1
      BY <1>1, <2>2, <2>3, BlockedCount DEF Locations
    <3> QED BY <1>0, <1>1, <1>2, <2>2, <3>1, <3>2
  <2>4. CASE UNCHANGED <<accepted, pc>>
    BY <1>0, <1>1, <1>2, <2>2, <2>4 DEF Blocked
  <2> QED BY <1>4, <2>3, <2>4 DEF add_task_wake
<1>5. CASE ~(\E p \in Producers : add_task(p)) /\ ~(\E p \in Threads : add_task_wake(p))
  <2>1. /\ \A c \in Threads : pc'[c] = "blocked" <=> pc[c] = "blocked"
        /\ UNCHANGED <<submitted, accepted, evicted>>
        /\ m_dropped_tasks' + forgotten' = m_dropped_tasks + forgotten
        /\ m_stop => m_stop'
    BY <1>5, OtherStepsKeepAccount
  <2>2. Blocked' = Blocked /\ BlockedInv'
    BY <2>1 DEF Blocked, BlockedInv
  <2>3. Cardinality(Blocked') = Cardinality(Blocked) /\ Cardinality(evicted') = Cardinality(evicted)
    BY <2>1, <2>2
  <2>4. submitted' = submitted /\ accepted' = accepted /\ (~m_stop' => ~m_stop)
    BY <2>1
  <2>5. m_dropped_tasks' + forgotten' = m_dropped_tasks + forgotten
    BY <2>1
  <2>6. ~m_stop' => submitted' + Cardinality(evicted') =
                      accepted' + m_dropped_tasks' + forgotten' + Cardinality(Blocked')
    <3> SUFFICES ASSUME ~m_stop'
                 PROVE  submitted' + Cardinality(evicted') =
                          accepted' + m_dropped_tasks' + forgotten' + Cardinality(Blocked')
      OBVIOUS
    <3>1. submitted + Cardinality(evicted) =
            accepted + (m_dropped_tasks + forgotten) + Cardinality(Blocked)
      BY <1>0, <1>1, <1>2, <2>4
    <3>2. submitted' + Cardinality(evicted') =
            accepted' + (m_dropped_tasks' + forgotten') + Cardinality(Blocked')
      BY <2>3, <2>4, <2>5, <3>1, ZenonT(60)
    <3> QED BY <1>0, <1>1, <2>3, <3>2
  <2> QED BY <2>2, <2>6
<1> QED BY <1>3, <1>4, <1>5

\* Until shutdown(), every add_task() call was accepted, is counted in
\* m_dropped_tasks or still blocks, whatever the limits and policies were set to.
THEOREM NothingIsLostSilently == Spec => []NoSilentLoss
<1>1. Init => LossInv
  <2> SUFFICES ASSUME Init PROVE LossInv
    OBVIOUS
  <2>1. IInv
    BY InitIInv
  <2>2. BlockedInv /\ Blocked = {}
    BY ConstantsAssumption DEF Init, BlockedInv, Blocked
  <2>3. Cardinality({}) = 0
    BY FS_EmptySet
  <2>4. Cardinality(Blocked) = 0 /\ Cardinality(evicted) = 0
    BY <2>2, <2>3 DEF Init
  <2>5. submitted = 0 /\ accepted = 0 /\ m_dropped_tasks = 0 /\ forgotten = 0
    BY DEF Init
  <2>6. submitted + Cardinality(evicted) =
          accepted + m_dropped_tasks + forgotten + Cardinality(Blocked)
    BY <2>4, <2>5
  <2>7. NoSilentLoss
    BY <2>6 DEF NoSilentLoss, Blocked
  <2> QED BY <2>1, <2>2, <2>7 DEF LossInv
<1>2. LossInv => NoSilentLoss
  BY DEF LossInv
<1> QED BY <1>1, <1>2, Invariance, LossKept, PTL DEF Spec
=============================================================================
