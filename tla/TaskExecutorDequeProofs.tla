----------------------- MODULE TaskExecutorDequeProofs -----------------------
(***************************************************************************)
(* Proofs about TaskExecutorDeque for any number of threads and tasks, any *)
(* capacities and policies.                                                *)
(*                                                                         *)
(* The argument goes through the abstract executor.  The deque is in       *)
(* ticket order and holds only tickets handed out (QueueInv), and the      *)
(* worker's location tells whether it holds a task (WorkerInv): enough for *)
(* every step to be a step of FifoExecutor.  That every task has one fate  *)
(* is then inherited from there, and with it what wait() and shutdown()    *)
(* promise follows.                                                        *)
(***************************************************************************)
EXTENDS TaskExecutorDeque, TicketQueueTheorems

\* The prover of the steps that name none.
USE SMTT(60)

WorkerInv ==
    /\ pc[Worker] \in {"loop", "popped", "task", "exited"}
    /\ task # 0 <=> pc[Worker] \in {"popped", "task"}
    /\ m_active_tasks = IF task = 0 THEN 0 ELSE 1
    /\ pc[Worker] = "exited" => m_stop_flag /\ m_tasks_queue = <<>>

QueueInv == Increasing(m_tasks_queue) /\ Queued \subseteq 1..accepted

TargetInv == \A c \in Threads : target[c] <= accepted

IInv == TypeOK /\ WorkerInv /\ QueueInv /\ TargetInv

taskVars == <<m_tasks_queue, accepted, evicted, finished, task>>

PopFront == task' = Head(m_tasks_queue) /\ m_tasks_queue' = Tail(m_tasks_queue)

\* The task that the worker holds.
Held == IF task = 0 THEN {} ELSE {task}

\* An accepted task is pending, running, executed or evicted, never two of them.
OneFate ==
    /\ accepted \in Nat
    /\ 1..accepted = Queued \cup Held \cup finished \cup evicted
    /\ Queued \cap (Held \cup finished \cup evicted) = {}
    /\ Held \cap (finished \cup evicted) = {}
    /\ finished \cap evicted = {}

\* Started tasks precede pending ones, executed tasks the running one.
InOrder ==
    /\ \A s \in finished \cup Held, p \in Queued : s < p
    /\ \A f \in finished, r \in Held : f < r
-----------------------------------------------------------------------------
(* Every step, seen from the tasks only. *)

TaskStep ==
    \/ UNCHANGED taskVars /\ (m_stop_flag' = m_stop_flag \/ m_stop_flag' = TRUE)
    \/ ~m_stop_flag /\ PushBack /\ UNCHANGED <<evicted, finished, task, m_stop_flag>>
    \/ ~m_stop_flag /\ PopFrontPushBack /\ UNCHANGED <<finished, task, m_stop_flag>>
    \/ /\ pc[Worker] = "loop" /\ m_tasks_queue # <<>>
       /\ PopFront
       /\ UNCHANGED <<accepted, evicted, finished, m_stop_flag>>
    \/ /\ pc[Worker] = "task"
       /\ finished' = finished \cup {task} /\ task' = 0
       /\ UNCHANGED <<m_tasks_queue, accepted, evicted, m_stop_flag>>

\* Whatever thread runs, a step moves at most one task (or swaps one out).
LEMMA StepIsTaskStep == ASSUME [Next]_vars PROVE TaskStep
<1> USE DEF vars, queueVars, configVars, workerVars, counterVars, taskVars
<1>1. ASSUME NEW p \in Producers, add_task(p) PROVE TaskStep
  BY <1>1 DEF add_task, TaskStep
<1>2. ASSUME NEW c \in WaitCallers, wait(c) PROVE TaskStep
  BY <1>2 DEF wait, TaskStep
<1>3. ASSUME NEW c \in Configurers, Configure(c) PROVE TaskStep
  BY <1>3 DEF Configure, shutdown, set_max_queue_size, set_queue_policy, reset_dropped_tasks,
     TaskStep
<1>4. ASSUME NEW c \in Threads, ClientStep(c) PROVE TaskStep
  BY <1>4 DEF ClientStep, add_task_wake, add_task_notify, wait_test, shutdown_notify,
     shutdown_join, TaskStep
<1>5. ASSUME worker_function PROVE TaskStep
  BY <1>5 DEF worker_function, worker_sleep, worker_exit, worker_pop, worker_notify,
     worker_finish, PopFront, TaskStep
<1>6. ASSUME NEW t \in Threads \cup {Worker}, spurious_wakeup(t) PROVE TaskStep
  BY <1>6 DEF spurious_wakeup, TaskStep
<1>7. ASSUME UNCHANGED vars PROVE TaskStep
  BY <1>7 DEF TaskStep
<1> QED BY <1>1, <1>2, <1>3, <1>4, <1>5, <1>6, <1>7 DEF Next

\* push_back() of a new ticket keeps the deque in order.
LEMMA PushBackKeeps ==
    ASSUME TypeOK, QueueInv, PushBack
    PROVE  /\ m_tasks_queue' \in Seq(Nat) /\ accepted' = accepted + 1
           /\ Queued' = Queued \cup {accepted + 1}
           /\ QueueInv'
<1>1. m_tasks_queue \in Seq(Nat) /\ accepted \in Nat /\ accepted + 1 \in Nat
  BY DEF TypeOK
<1>2. \A u \in Tickets(m_tasks_queue) : u < accepted + 1
  BY <1>1 DEF QueueInv, Queued
<1>3. /\ m_tasks_queue' \in Seq(Nat)
      /\ Queued' = Queued \cup {accepted + 1}
      /\ Increasing(m_tasks_queue')
  BY <1>1, <1>2, PushBackTickets DEF PushBack, Queued, QueueInv
<1>4. Queued' \subseteq 1..(accepted + 1)
  BY <1>1, <1>3 DEF QueueInv
<1> QED BY <1>3, <1>4 DEF QueueInv, PushBack

\* pop_front() then push_back() takes the oldest ticket out.
LEMMA PopFrontPushBackKeeps ==
    ASSUME TypeOK, QueueInv, PopFrontPushBack
    PROVE  /\ m_tasks_queue' \in Seq(Nat) /\ accepted' = accepted + 1
           /\ Head(m_tasks_queue) \in Queued
           /\ \A u \in Queued : Head(m_tasks_queue) <= u
           /\ Queued' = (Queued \ {Head(m_tasks_queue)}) \cup {accepted + 1}
           /\ evicted' = evicted \cup {Head(m_tasks_queue)}
           /\ QueueInv'
<1> DEFINE h == Head(m_tasks_queue)
           q == Tail(m_tasks_queue)
<1>1. m_tasks_queue \in Seq(Nat) /\ accepted \in Nat /\ accepted + 1 \in Nat
  BY DEF TypeOK
<1>2. /\ h \in Queued
      /\ \A u \in Queued : h <= u
      /\ q \in Seq(Nat)
      /\ Tickets(q) = Queued \ {h}
      /\ Increasing(q)
  BY <1>1, PopFrontTickets DEF PopFrontPushBack, Queued, QueueInv
<1>3. m_tasks_queue' = Append(q, accepted + 1) /\ accepted' = accepted + 1
      /\ evicted' = evicted \cup {h}
  BY DEF PopFrontPushBack
<1> HIDE DEF h, q
<1>4. \A u \in Tickets(q) : u < accepted + 1
  <2>1. Tickets(q) \subseteq 1..accepted
    BY <1>2 DEF QueueInv
  <2>2. \A u \in 1..accepted : u < accepted + 1
    BY <1>1
  <2> QED BY <2>1, <2>2
<1>5. /\ m_tasks_queue' \in Seq(Nat)
      /\ Queued' = (Queued \ {h}) \cup {accepted + 1}
      /\ Increasing(m_tasks_queue')
  BY <1>1, <1>2, <1>3, <1>4, PushBackTickets DEF Queued
<1>6. Queued' \subseteq 1..accepted'
  <2>1. Queued \subseteq 1..accepted /\ accepted + 1 \in 1..(accepted + 1)
    BY <1>1 DEF QueueInv
  <2>2. 1..accepted \subseteq 1..(accepted + 1)
    BY <1>1
  <2> QED BY <1>3, <1>5, <2>1, <2>2, ZenonT(60)
<1>7. QueueInv'
  BY <1>5, <1>6 DEF QueueInv
<1> QED BY <1>2, <1>3, <1>5, <1>7 DEF h

\* worker_function() takes the oldest ticket out.
LEMMA PopFrontKeeps ==
    ASSUME TypeOK, QueueInv, m_tasks_queue # <<>>, PopFront, UNCHANGED accepted
    PROVE  /\ m_tasks_queue' \in Seq(Nat)
           /\ task' \in Nat /\ task' # 0
           /\ task' \in Queued
           /\ \A u \in Queued : task' <= u
           /\ Queued' = Queued \ {task'}
           /\ QueueInv'
<1>1. m_tasks_queue \in Seq(Nat) /\ accepted \in Nat
  BY DEF TypeOK
<1>2. /\ task' \in Queued
      /\ \A u \in Queued : task' <= u
      /\ m_tasks_queue' \in Seq(Nat)
      /\ Queued' = Queued \ {task'}
      /\ Increasing(m_tasks_queue')
  BY <1>1, PopFrontTickets DEF PopFront, Queued, QueueInv
<1>3. task' \in Nat /\ task' # 0
  BY <1>1, <1>2 DEF QueueInv
<1>4. Queued' \subseteq 1..accepted'
  BY <1>2 DEF QueueInv
<1>5. QueueInv'
  BY <1>2, <1>4 DEF QueueInv
<1> QED BY <1>2, <1>3, <1>5
-----------------------------------------------------------------------------
(* The inductive invariant. *)

\* A step keeps the deque in order and the task variables in their types.
LEMMA TasksKept ==
    ASSUME IInv, [Next]_vars
    PROVE  /\ QueueInv'
           /\ m_tasks_queue' \in Seq(Nat) /\ accepted' \in Nat /\ task' \in Nat
           /\ finished' \subseteq Nat /\ evicted' \subseteq Nat
           /\ accepted <= accepted'
<1>1. TypeOK /\ WorkerInv /\ QueueInv
  BY DEF IInv
<1>2. /\ m_tasks_queue \in Seq(Nat) /\ accepted \in Nat /\ task \in Nat
      /\ finished \subseteq Nat /\ evicted \subseteq Nat
  BY <1>1 DEF TypeOK
<1>3. CASE UNCHANGED taskVars
  BY <1>1, <1>2, <1>3 DEF taskVars, QueueInv, Queued
<1>4. CASE PushBack /\ UNCHANGED <<evicted, finished, task>>
  BY <1>1, <1>2, <1>4, PushBackKeeps
<1>5. CASE PopFrontPushBack /\ UNCHANGED <<finished, task>>
  <2> DEFINE h == Head(m_tasks_queue)
  <2>1. /\ m_tasks_queue' \in Seq(Nat) /\ accepted' = accepted + 1
        /\ h \in Queued /\ evicted' = evicted \cup {h} /\ QueueInv'
    BY <1>1, <1>5, PopFrontPushBackKeeps
  <2> HIDE DEF h
  <2>2. h \in Nat
    BY <1>1, <1>2, <2>1 DEF QueueInv
  <2> QED BY <1>2, <1>5, <2>1, <2>2
<1>6. CASE /\ m_tasks_queue # <<>>
           /\ PopFront /\ UNCHANGED <<accepted, evicted, finished>>
  BY <1>1, <1>2, <1>6, PopFrontKeeps
<1>7. CASE /\ finished' = finished \cup {task} /\ task' = 0
           /\ UNCHANGED <<m_tasks_queue, accepted, evicted>>
  BY <1>1, <1>2, <1>7 DEF QueueInv, Queued
<1> QED BY <1>3, <1>4, <1>5, <1>6, <1>7, StepIsTaskStep, ZenonT(60) DEF TaskStep

\* The executor starts empty and idle.
LEMMA InitIInv == ASSUME Init PROVE IInv
<1> USE ConstantsAssumption DEF Init
<1>1. TypeOK
  <2>1. m_tasks_queue \in Seq(Nat) /\ finished \subseteq Nat /\ evicted \subseteq Nat
    OBVIOUS
  <2>2. pc \in [Threads \cup {Worker} -> Locations]
    BY DEF Locations
  <2>3. target \in [Threads -> Nat]
    OBVIOUS
  <2> QED BY <2>1, <2>2, <2>3, ZenonT(60) DEF TypeOK, QueuePolicy
<1>2. QueueInv
  BY EmptyQueue DEF QueueInv, Queued
<1>3. WorkerInv
  BY DEF WorkerInv
<1>4. TargetInv
  BY DEF TargetInv
<1> QED BY <1>1, <1>2, <1>3, <1>4 DEF IInv

\* m_active_tasks counts the task in the worker's hands, and the worker exits
\* only with an empty deque, which stays empty because m_stop_flag stays set.
LEMMA WorkerKept == ASSUME IInv, [Next]_vars PROVE WorkerInv'
<1> USE ConstantsAssumption
    DEF IInv, vars, queueVars, configVars, workerVars, counterVars, GoTo
<1>0. pc \in [Threads \cup {Worker} -> Locations] /\ WorkerInv
  BY DEF TypeOK
<1>1. ASSUME NEW p \in Producers, add_task(p) PROVE WorkerInv'
  BY <1>0, <1>1 DEF add_task, WorkerInv
<1>2. ASSUME NEW c \in WaitCallers, wait(c) PROVE WorkerInv'
  BY <1>0, <1>2 DEF wait, WorkerInv
<1>3. ASSUME NEW c \in Configurers, Configure(c) PROVE WorkerInv'
  BY <1>0, <1>3 DEF Configure, shutdown, set_max_queue_size, set_queue_policy,
     reset_dropped_tasks, WorkerInv
<1>4. ASSUME NEW c \in Threads, ClientStep(c) PROVE WorkerInv'
  BY <1>0, <1>4 DEF ClientStep, add_task_wake, add_task_notify, wait_test, shutdown_notify,
     shutdown_join, WorkerInv
<1>5. ASSUME worker_function PROVE WorkerInv'
  <2>1. CASE worker_sleep
    BY <1>0, <2>1 DEF worker_sleep, WorkerInv
  <2>2. CASE worker_exit
    BY <1>0, <2>2 DEF worker_exit, MustExit, WorkerInv
  <2>3. CASE worker_pop
    <3>1. task = 0 /\ m_active_tasks = 0
      BY <1>0, <2>3 DEF worker_pop, WorkerInv
    <3>2. task' # 0
      BY <2>3, PopFrontKeeps DEF worker_pop, PopFront
    <3> QED BY <1>0, <2>3, <3>1, <3>2 DEF worker_pop, WorkerInv
  <2>4. CASE worker_notify
    BY <1>0, <2>4 DEF worker_notify, WorkerInv
  <2>5. CASE worker_finish
    BY <1>0, <2>5 DEF worker_finish, TaskDone, WorkerInv
  <2> QED BY <1>5, <2>1, <2>2, <2>3, <2>4, <2>5 DEF worker_function
<1>6. ASSUME NEW t \in Threads \cup {Worker}, spurious_wakeup(t) PROVE WorkerInv'
  BY <1>0, <1>6 DEF spurious_wakeup, WorkerInv
<1>7. ASSUME UNCHANGED vars PROVE WorkerInv'
  BY <1>0, <1>7 DEF WorkerInv
<1> QED BY <1>1, <1>2, <1>3, <1>4, <1>5, <1>6, <1>7 DEF Next

\* A caller of wait() looks back at tickets already handed out.
LEMMA TargetKept == ASSUME IInv, [Next]_vars PROVE TargetInv' /\ target' \in [Threads -> Nat]
<1>1. accepted \in Nat /\ accepted' \in Nat /\ accepted <= accepted'
  BY TasksKept DEF IInv, TypeOK
<1>2. target \in [Threads -> Nat] /\ TargetInv
  BY DEF IInv, TypeOK
<1>3. UNCHANGED target \/ \E c \in WaitCallers : target' = [target EXCEPT ![c] = accepted]
  BY DEF Next, add_task, wait, Configure, shutdown, set_max_queue_size, set_queue_policy,
     reset_dropped_tasks, ClientStep, add_task_wake, add_task_notify, wait_test,
     shutdown_notify, shutdown_join, worker_function, worker_sleep, worker_exit, worker_pop,
     worker_notify, worker_finish, spurious_wakeup, vars
<1> QED BY <1>1, <1>2, <1>3, ConstantsAssumption DEF TargetInv

\* Every step keeps the types.
LEMMA TypeKept == ASSUME IInv, [Next]_vars PROVE TypeOK'
<1> USE ConstantsAssumption
    DEF vars, queueVars, configVars, workerVars, counterVars, GoTo, Locations,
        Sleep, NotifyOne, NotifyAll
<1>0. TypeOK
  BY DEF IInv
<1>1. /\ m_tasks_queue' \in Seq(Nat) /\ accepted' \in Nat /\ task' \in Nat
      /\ finished' \subseteq Nat /\ evicted' \subseteq Nat
      /\ target' \in [Threads -> Nat]
  BY TasksKept, TargetKept
<1>2. m_active_tasks' \in {0, 1}
  BY WorkerKept DEF WorkerInv
<1> DEFINE Rest ==
      /\ m_queue_condition \subseteq Threads \cup {Worker}
      /\ m_stop_flag \in BOOLEAN
      /\ m_max_queue_size \in Nat
      /\ m_overflow_policy \in QueuePolicy
      /\ m_dropped_tasks \in Nat
      /\ pc \in [Threads \cup {Worker} -> Locations]
      /\ submitted \in Nat
      /\ forgotten \in Nat
<1>3. Rest'
  <2>0. Rest
    BY <1>0 DEF TypeOK
  <2>1. ASSUME NEW p \in Producers, add_task(p) PROVE Rest'
    BY <2>0, <2>1 DEF add_task, Discard
  <2>2. ASSUME NEW c \in WaitCallers, wait(c) PROVE Rest'
    BY <2>0, <2>2 DEF wait
  <2>3. ASSUME NEW c \in Configurers, Configure(c) PROVE Rest'
    <3>1. CASE shutdown(c)
      BY <2>0, <3>1 DEF shutdown
    <3>2. ASSUME NEW size \in Capacities, set_max_queue_size(c, size) PROVE Rest'
      BY <2>0, <3>2 DEF set_max_queue_size
    <3>3. ASSUME NEW policy \in Policies, set_queue_policy(c, policy) PROVE Rest'
      BY <2>0, <3>3 DEF set_queue_policy
    <3>4. CASE reset_dropped_tasks(c)
      BY <2>0, <3>4 DEF reset_dropped_tasks
    <3> HIDE DEF Rest
    <3> QED BY <2>3, <3>1, <3>2, <3>3, <3>4 DEF Configure
  <2>4. ASSUME NEW c \in Threads, ClientStep(c) PROVE Rest'
    BY <2>0, <2>4 DEF ClientStep, add_task_wake, add_task_notify, wait_test, shutdown_notify,
       shutdown_join
  <2>5. ASSUME worker_function PROVE Rest'
    BY <2>0, <2>5 DEF worker_function, worker_sleep, worker_exit, worker_pop, worker_notify,
       worker_finish
  <2>6. ASSUME NEW t \in Threads \cup {Worker}, spurious_wakeup(t) PROVE Rest'
    BY <2>0, <2>6 DEF spurious_wakeup
  <2>7. ASSUME UNCHANGED vars PROVE Rest'
    BY <2>0, <2>7
  <2> HIDE DEF Rest
  <2> QED BY <2>1, <2>2, <2>3, <2>4, <2>5, <2>6, <2>7 DEF Next
<1> QED BY <1>1, <1>2, <1>3 DEF TypeOK

\* The invariant holds in every reachable state.
THEOREM Invariance == Spec => []IInv
<1>1. IInv /\ [Next]_vars => IInv'
  BY TasksKept, WorkerKept, TargetKept, TypeKept DEF IInv
<1> QED BY InitIInv, <1>1, PTL DEF Spec
-----------------------------------------------------------------------------
(* Refinement, and what is inherited through it *)

\* TaskExecutor implements FifoExecutor: the locks, the condition variable and
\* the threads are invisible to the loggers that share it.
THEOREM Refinement == Spec => ImplementsFifoExecutor
<1>1. Init => Abstract!Init
  BY EmptyQueue DEF Init, Abstract!Init, Queued
<1>2. ASSUME IInv, [Next]_vars
      PROVE  [Abstract!Next]_(Abstract!abstractVars)
  <2> USE DEF Abstract!Next, Abstract!abstractVars
  <2>1. TypeOK /\ WorkerInv /\ QueueInv
    BY <1>2 DEF IInv
  <2>2. CASE UNCHANGED taskVars /\ (m_stop_flag' = m_stop_flag \/ m_stop_flag' = TRUE)
    BY <2>2 DEF taskVars, Queued, Abstract!Close
  <2>3. CASE ~m_stop_flag /\ PushBack /\ UNCHANGED <<evicted, finished, task, m_stop_flag>>
    <3>1. Queued' = Queued \cup {accepted + 1} /\ accepted' = accepted + 1
      BY <2>1, <2>3, PushBackKeeps
    <3> QED BY <2>3, <3>1 DEF Abstract!Accept
  <2>4. CASE ~m_stop_flag /\ PopFrontPushBack /\ UNCHANGED <<finished, task, m_stop_flag>>
    <3> DEFINE h == Head(m_tasks_queue)
    <3>1. /\ h \in Queued /\ \A u \in Queued : h <= u
          /\ Queued' = (Queued \ {h}) \cup {accepted + 1}
          /\ accepted' = accepted + 1 /\ evicted' = evicted \cup {h}
      BY <2>1, <2>4, PopFrontPushBackKeeps
    <3> HIDE DEF h
    <3> QED BY <2>4, <3>1 DEF Abstract!EvictAndAccept, Abstract!Oldest
  <2>5. CASE /\ pc[Worker] = "loop" /\ m_tasks_queue # <<>>
             /\ PopFront /\ UNCHANGED <<accepted, evicted, finished, m_stop_flag>>
    <3>1. task = 0
      BY <2>1, <2>5 DEF WorkerInv
    <3>2. task' \in Queued /\ (\A u \in Queued : task' <= u) /\ Queued' = Queued \ {task'}
      BY <2>1, <2>5, PopFrontKeeps
    <3> QED BY <2>5, <3>1, <3>2 DEF Abstract!Start, Abstract!Oldest
  <2>6. CASE /\ pc[Worker] = "task"
             /\ finished' = finished \cup {task} /\ task' = 0
             /\ UNCHANGED <<m_tasks_queue, accepted, evicted, m_stop_flag>>
    <3>1. task # 0
      BY <2>1, <2>6 DEF WorkerInv
    <3> QED BY <2>6, <3>1 DEF Abstract!Finish, Queued
  <2> QED BY <1>2, <2>2, <2>3, <2>4, <2>5, <2>6, StepIsTaskStep, ZenonT(60) DEF TaskStep
<1> QED BY <1>1, <1>2, Invariance, PTL DEF Spec, ImplementsFifoExecutor, Abstract!Spec

\* A new ticket is larger than all earlier ones.
LEMMA NewTicket ==
    ASSUME NEW n \in Nat
    PROVE  /\ n + 1 \in Nat
           /\ 1..(n + 1) = 1..n \cup {n + 1}
           /\ n + 1 \notin 1..n
           /\ \A u \in 1..n : u < n + 1 /\ u # 0 /\ u \in Nat
OBVIOUS

\* Whatever the clients do, no step of the executor gives a task two fates,
\* loses one, or starts one out of order.
LEMMA StepKeepsFates == ASSUME OneFate, InOrder, [Abstract!Next]_(Abstract!abstractVars) PROVE OneFate' /\ InOrder'
<1>1. /\ accepted + 1 \in Nat
      /\ 1..(accepted + 1) = 1..accepted \cup {accepted + 1}
      /\ accepted + 1 \notin 1..accepted
      /\ \A u \in 1..accepted : u < accepted + 1 /\ u # 0 /\ u \in Nat
  BY NewTicket DEF OneFate
<1>2. CASE Abstract!Accept
  <2>1. accepted' = accepted + 1 /\ Queued' = Queued \cup {accepted + 1}
        /\ Held' = Held /\ finished' = finished /\ evicted' = evicted
    BY <1>2 DEF Abstract!Accept, Held
  <2>2. OneFate'
    BY <1>1, <2>1 DEF OneFate
  <2>3. \A s \in finished \cup Held : s < accepted + 1
    BY <1>1 DEF OneFate
  <2> QED BY <2>1, <2>2, <2>3 DEF InOrder
<1>3. CASE Abstract!EvictAndAccept
  <2>1. PICK t \in Queued : /\ Queued' = (Queued \ {t}) \cup {accepted + 1}
                             /\ evicted' = evicted \cup {t}
    BY <1>3 DEF Abstract!EvictAndAccept
  <2>2. accepted' = accepted + 1 /\ Held' = Held /\ finished' = finished
    BY <1>3 DEF Abstract!EvictAndAccept, Held
  <2>3. OneFate'
    <3>1. t \in 1..accepted /\ t # accepted + 1
      BY <1>1 DEF OneFate
    <3>2. 1..accepted' = Queued' \cup Held' \cup finished' \cup evicted'
      BY <1>1, <2>1, <2>2, <3>1 DEF OneFate
    <3>3. Queued' \cap (Held' \cup finished' \cup evicted') = {}
      BY <1>1, <2>1, <2>2, <3>1 DEF OneFate
    <3>4. Held' \cap (finished' \cup evicted') = {} /\ finished' \cap evicted' = {}
      BY <2>1, <2>2 DEF OneFate
    <3> QED BY <1>1, <2>2, <3>2, <3>3, <3>4 DEF OneFate
  <2>4. \A s \in finished \cup Held : s < accepted + 1
    BY <1>1 DEF OneFate
  <2> QED BY <2>1, <2>2, <2>3, <2>4 DEF InOrder
<1>4. CASE Abstract!Start
  <2>1. PICK t \in Queued : Abstract!Oldest(t) /\ task' = t /\ Queued' = Queued \ {t}
    BY <1>4 DEF Abstract!Start
  <2>2. task = 0 /\ UNCHANGED <<accepted, finished, evicted>>
    BY <1>4 DEF Abstract!Start
  <2>3. t \in 1..accepted /\ t # 0 /\ Queued \subseteq 1..accepted
    BY <1>1 DEF OneFate
  <2>4. Held = {} /\ Held' = {t}
    BY <2>1, <2>2, <2>3 DEF Held
  <2>5. OneFate'
    BY <2>1, <2>2, <2>4 DEF OneFate
  <2>6. \A p \in Queued' : t < p
    <3> SUFFICES ASSUME NEW p \in Queued' PROVE t < p
      OBVIOUS
    <3>1. p \in Nat /\ t \in Nat /\ t <= p /\ p # t
      BY <1>1, <2>1, <2>3 DEF Abstract!Oldest
    <3> QED BY <3>1
  <2> QED BY <2>1, <2>2, <2>4, <2>5, <2>6 DEF InOrder
<1>5. CASE Abstract!Finish
  <2>1. Held = {task} /\ Held' = {} /\ finished' = finished \cup {task}
        /\ UNCHANGED <<accepted, Queued, evicted>>
    BY <1>5 DEF Abstract!Finish, Held
  <2>2. OneFate'
    BY <2>1 DEF OneFate
  <2> QED BY <2>1, <2>2 DEF InOrder
<1>6. CASE Abstract!Close \/ UNCHANGED Abstract!abstractVars
  <2>1. UNCHANGED <<accepted, Queued, task, finished, evicted>>
    BY <1>6 DEF Abstract!Close, Abstract!abstractVars
  <2> QED BY <2>1 DEF OneFate, InOrder, Held
<1> QED BY <1>2, <1>3, <1>4, <1>5, <1>6 DEF Abstract!Next

\* A task given to an executor of this kind is never lost, executed twice or
\* executed after its eviction, and tasks start in the order of acceptance.
THEOREM FatesAndOrder == ImplementsFifoExecutor => [](OneFate /\ InOrder)
<1>1. Abstract!Init => OneFate /\ InOrder
  BY DEF Abstract!Init, OneFate, InOrder, Held
<1>2. OneFate /\ InOrder /\ [Abstract!Next]_(Abstract!abstractVars) => OneFate' /\ InOrder'
  BY StepKeepsFates
<1> QED BY <1>1, <1>2, PTL DEF ImplementsFifoExecutor, Abstract!Spec

\* Every accepted task is in exactly one place, and none overtakes another.
THEOREM TasksHaveOneFate == Spec => [](OneFate /\ InOrder)
  BY Refinement, FatesAndOrder, PTL

\* With nothing queued or running, every accepted task has settled.
LEMMA EmptyMeansSettled ==
    ASSUME OneFate, m_tasks_queue = <<>>, task = 0
    PROVE  1..accepted = Settled
<1>1. Queued = {} /\ Held = {}
  BY EmptyQueue DEF Queued, Held
<1> QED BY <1>1 DEF OneFate, Settled

\* The types hold, and when the worker thread has exited, shutdown() left no
\* accepted task behind.
THEOREM SafetyHolds == Spec => []Safety
<1>1. IInv /\ OneFate => Safety
  <2> SUFFICES ASSUME IInv, OneFate PROVE Safety
    OBVIOUS
  <2>1. ASSUME pc[Worker] = "exited" PROVE m_stop_flag /\ 1..accepted = Settled
    <3>1. m_stop_flag /\ m_tasks_queue = <<>> /\ task = 0
      BY <2>1 DEF IInv, WorkerInv
    <3> QED BY <3>1, EmptyMeansSettled
  <2> QED BY <2>1 DEF Safety, DrainedAtExit, IInv
<1> QED BY <1>1, Invariance, TasksHaveOneFate, PTL

\* wait() returns only after every task accepted before the call has settled,
\* or because a shutdown was requested.
THEOREM WaitKeepsItsPromise == Spec => WaitContract
<1>1. ASSUME IInv, OneFate, [Next]_vars,
             NEW c \in Threads, pc[c] = "waiting", pc'[c] = "idle"
      PROVE  m_stop_flag \/ 1..target[c] \subseteq Settled
  <2> USE ConstantsAssumption DEF GoTo
  <2>1. pc \in [Threads \cup {Worker} -> Locations]
    BY <1>1 DEF IInv, TypeOK
  <2>2. Drained \/ m_stop_flag
    <3>1. ASSUME NEW p \in Producers, add_task(p) PROVE FALSE
      BY <1>1, <2>1, <3>1 DEF add_task
    <3>2. ASSUME NEW d \in WaitCallers, wait(d) PROVE FALSE
      BY <1>1, <2>1, <3>2 DEF wait
    <3>3. ASSUME NEW d \in Configurers, Configure(d) PROVE FALSE
      BY <1>1, <2>1, <3>3 DEF Configure, shutdown, set_max_queue_size, set_queue_policy,
         reset_dropped_tasks
    <3>4. ASSUME NEW d \in Threads, ClientStep(d) PROVE Drained \/ m_stop_flag
      BY <1>1, <2>1, <3>4 DEF ClientStep, add_task_wake, add_task_notify, wait_test,
         shutdown_notify, shutdown_join
    <3>5. ASSUME worker_function PROVE FALSE
      BY <1>1, <2>1, <3>5 DEF worker_function, worker_sleep, worker_exit, worker_pop,
         worker_notify, worker_finish
    <3>6. ASSUME NEW t \in Threads \cup {Worker}, spurious_wakeup(t) PROVE FALSE
      BY <1>1, <3>6 DEF spurious_wakeup
    <3>7. ASSUME UNCHANGED vars PROVE FALSE
      BY <1>1, <3>7 DEF vars
    <3> QED BY <1>1, <3>1, <3>2, <3>3, <3>4, <3>5, <3>6, <3>7 DEF Next
  <2>3. CASE Drained
    <3>1. m_tasks_queue = <<>> /\ task = 0
      BY <1>1, <2>3 DEF Drained, IInv, WorkerInv
    <3>2. 1..accepted = Settled
      BY <1>1, <3>1, EmptyMeansSettled
    <3>3. target[c] \in Nat /\ accepted \in Nat /\ target[c] <= accepted
      BY <1>1 DEF IInv, TypeOK, TargetInv
    <3> QED BY <3>2, <3>3
  <2> QED BY <2>2, <2>3
<1>2. IInv /\ OneFate /\ [Next]_vars =>
        [\A c \in Threads : pc[c] = "waiting" /\ pc'[c] = "idle" =>
            m_stop_flag \/ 1..target[c] \subseteq Settled]_vars
  BY <1>1
<1> QED BY Invariance, TasksHaveOneFate, <1>2, PTL DEF Spec, WaitContract

\* add_task() respects the limit in force, whoever lowered it meanwhile and
\* however many blocked producers wake for one free slot.
THEOREM LimitRespected == Spec => NeverGrowsPastLimit
<1>1. ASSUME IInv, [Next]_vars, Len(m_tasks_queue') > Len(m_tasks_queue)
      PROVE  m_max_queue_size = 0 \/ Len(m_tasks_queue') <= m_max_queue_size
  <2>1. m_tasks_queue \in Seq(Nat) /\ m_max_queue_size \in Nat /\ accepted + 1 \in Nat
    BY <1>1 DEF IInv, TypeOK
  <2>2. Len(m_tasks_queue) \in Nat
    BY <2>1
  <2>3. PushBack => Len(m_tasks_queue') = Len(m_tasks_queue) + 1
    BY <2>1 DEF PushBack
  <2>4. ~PopFrontPushBack
    <3> SUFFICES ASSUME PopFrontPushBack PROVE FALSE
      OBVIOUS
    <3>1. Tail(m_tasks_queue) \in Seq(Nat) /\ Len(Tail(m_tasks_queue)) = Len(m_tasks_queue) - 1
      BY <2>1 DEF PopFrontPushBack
    <3>2. Len(m_tasks_queue') = Len(Tail(m_tasks_queue)) + 1
      BY <2>1, <3>1 DEF PopFrontPushBack
    <3> QED BY <1>1, <2>2, <3>1, <3>2
  <2>5. m_tasks_queue # <<>> => m_tasks_queue' # Tail(m_tasks_queue)
    <3> SUFFICES ASSUME m_tasks_queue # <<>>, m_tasks_queue' = Tail(m_tasks_queue) PROVE FALSE
      OBVIOUS
    <3>1. Len(m_tasks_queue') = Len(m_tasks_queue) - 1
      BY <2>1
    <3> QED BY <1>1, <2>2, <3>1
  <2>6. m_tasks_queue' # m_tasks_queue
    BY <1>1, <2>2
  <2>7. PushBack /\ (~QueueIsFull \/ HasRoom)
    <3> USE DEF queueVars
    <3>1. ASSUME NEW p \in Producers, add_task(p) PROVE PushBack /\ ~QueueIsFull
      BY <2>4, <2>6, <3>1 DEF add_task
    <3>2. ASSUME NEW c \in Threads, ClientStep(c) PROVE PushBack /\ HasRoom
      BY <2>6, <3>2 DEF ClientStep, add_task_wake, add_task_notify, wait_test, shutdown_notify,
         shutdown_join
    <3>3. ASSUME worker_function PROVE FALSE
      BY <2>5, <2>6, <3>3 DEF worker_function, worker_sleep, worker_exit, worker_pop,
         worker_notify, worker_finish
    <3>4. ASSUME NEW c \in Configurers, Configure(c) PROVE FALSE
      BY <2>6, <3>4 DEF Configure, shutdown, set_max_queue_size, set_queue_policy,
         reset_dropped_tasks
    <3>5. ASSUME NEW c \in WaitCallers, wait(c) PROVE FALSE
      BY <2>6, <3>5 DEF wait
    <3>6. ASSUME NEW t \in Threads \cup {Worker}, spurious_wakeup(t) PROVE FALSE
      BY <2>6, <3>6 DEF spurious_wakeup
    <3>7. ASSUME UNCHANGED vars PROVE FALSE
      BY <2>6, <3>7 DEF vars
    <3> QED BY <1>1, <3>1, <3>2, <3>3, <3>4, <3>5, <3>6, <3>7 DEF Next
  <2> QED BY <2>1, <2>2, <2>3, <2>7 DEF QueueIsFull, HasRoom
<1>2. IInv /\ [Next]_vars =>
        [Len(m_tasks_queue') > Len(m_tasks_queue) =>
            m_max_queue_size = 0 \/ Len(m_tasks_queue') <= m_max_queue_size]_vars
  BY <1>1
<1> QED BY Invariance, <1>2, PTL DEF Spec, NeverGrowsPastLimit
=============================================================================
