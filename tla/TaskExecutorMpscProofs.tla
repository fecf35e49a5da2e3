----------------------- MODULE TaskExecutorMpscProofs -----------------------
(***************************************************************************)
(* Proofs about TaskExecutorMpsc for any number of threads, tasks and      *)
(* resizes, any capacities and policies.                                   *)
(*                                                                         *)
(* The counters of Safety are not inductive on their own.  That a resize   *)
(* may throw the old ring away needs the chain behind its barrier          *)
(* (ResizeInv): one lifecycle operation at a time, m_resizing raised       *)
(* throughout, and from the end of the drain on as many completions as     *)
(* submissions, which by CompletionAccounting leaves the ring empty.  That *)
(* wait() may trust the counters needs every ticket to be in one place     *)
(* (OneFate), and the order of execution needs the ring to be in ticket    *)
(* order (InAcceptanceOrder).                                              *)
(***************************************************************************)
EXTENDS TaskExecutorMpsc, TicketQueueTheorems, TLAPS

\* The prover of the steps that name none.
USE ZenonT(60)

Cells == [item : Nat \X Threads, published : BOOLEAN]

ProducerLocations ==
    {"enter", "resize_test", "resize_sleep", "resize_asleep", "fetch_add", "recheck",
     "retry_leave", "retry_check", "reserve", "loop", "push", "publish", "reject",
     "reject_notify", "leave", "leave_check"}

WaitLocations == {"wait_load", "wait_test", "wait_sleep", "wait_asleep", "wait_done"}

WorkerLocations ==
    {"probe", "pop", "pop_failed", "task", "complete", "complete_notify", "release",
     "check_empty", "check_stop", "check_idle", "exited"}

Locations ==
    {"idle"} \cup ProducerLocations \cup WaitLocations \cup LifecycleLocations
        \cup WorkerLocations

\* Only producers are inside add_task(), only callers of wait() inside wait().
LocationInv ==
    /\ pc \in [Threads \cup {Worker} -> Locations]
    /\ pc[Worker] \in WorkerLocations
    /\ \A c \in Threads :
        /\ pc[c] \notin WorkerLocations
        /\ pc[c] \in ProducerLocations => c \in Producers
        /\ pc[c] \in WaitLocations => c \in WaitCallers

\* worker_function() holds a task, and counts itself as active, by where it is.
WorkerInv ==
    /\ task # 0 <=> pc[Worker] = "task"
    /\ m_active_tasks =
        IF pc[Worker] \in {"pop", "pop_failed", "task", "complete", "complete_notify", "release"}
        THEN 1 ELSE 0

\* m_lifecycle_mutex admits one operation; what a resize has established so far.
ResizeInv ==
    /\ \A c, d \in Threads :
        pc[c] \in LifecycleLocations /\ pc[d] \in LifecycleLocations => c = d
    /\ \A c \in Threads :
        /\ pc[c] \in {"pause", "drain", "stop", "join", "restart", "open"} => m_resizing
        /\ pc[c] \in {"stop", "join", "restart", "open"} => m_submitted_tasks <= m_completed_tasks
        /\ pc[c] = "restart" => pc[Worker] = "exited"
    /\ m_stop_flag => closing \/ \E c \in Threads : pc[c] \in {"join", "restart"}

\* The tickets in the ring, front first.
LineOf(q) == [i \in 1..Len(q) |-> q[i].item[1]]
Line == LineOf(m_mpsc_queue)

Running == IF task = 0 THEN {} ELSE {task}

\* An accepted task is in the ring, in the worker's hands or executed, never two of them.
OneFate ==
    /\ 1..accepted = Queued \cup Running \cup finished
    /\ Queued \cap (Running \cup finished) = {}
    /\ Running \cap finished = {}

InAcceptanceOrder ==
    /\ Increasing(Line)
    /\ \A s \in finished \cup Running, q \in Queued : s < q
    /\ \A f \in finished, r \in Running : f < r

SeenInv == \A c \in Threads : seen[c] <= accepted

IInv ==
    /\ TypeOK /\ LocationInv /\ WorkerInv /\ ResizeInv
    /\ CompletionAccounting /\ ResizeBarrier
    /\ OneFate /\ InAcceptanceOrder /\ SeenInv
-----------------------------------------------------------------------------
(* The cells of the ring and their tickets *)

\* The tickets of a ring are a queue of tickets.
LEMMA LineFacts ==
    ASSUME NEW q \in Seq(Cells)
    PROVE  /\ LineOf(q) \in Seq(Nat) /\ Len(LineOf(q)) = Len(q)
           /\ LineOf(q) = <<>> <=> q = <<>>
           /\ {q[i].item[1] : i \in DOMAIN q} = Tickets(LineOf(q))
<1>1. Len(q) \in Nat /\ DOMAIN q = 1..Len(q) /\ \A i \in 1..Len(q) : q[i] \in Cells
  BY SMTT(60)
<1>2. \A i \in 1..Len(q) : q[i].item[1] \in Nat
  <2> SUFFICES ASSUME NEW i \in 1..Len(q) PROVE q[i].item[1] \in Nat
    OBVIOUS
  <2>1. q[i] \in Cells
    BY <1>1
  <2>2. q[i].item \in Nat \X Threads
    BY <2>1 DEF Cells
  <2> QED BY <2>2
<1>3. LineOf(q) \in Seq(Nat) /\ Len(LineOf(q)) = Len(q)
  BY <1>1, <1>2, SMTT(60) DEF LineOf
<1>4. \A i \in 1..Len(q) : LineOf(q)[i] = q[i].item[1]
  BY DEF LineOf
<1>5. {q[i].item[1] : i \in DOMAIN q} = Tickets(LineOf(q))
  BY <1>1, <1>3, <1>4 DEF Tickets
<1>6. LineOf(q) = <<>> <=> q = <<>>
  BY <1>1, <1>3, SMTT(60)
<1> QED BY <1>3, <1>5, <1>6

\* try_push() appends the new ticket.
LEMMA ClaimLine ==
    ASSUME NEW q \in Seq(Cells), NEW t \in Nat, NEW p \in Threads
    PROVE  /\ Claimed(q, <<t, p>>) \in Seq(Cells)
           /\ Len(Claimed(q, <<t, p>>)) = Len(q) + 1
           /\ LineOf(Claimed(q, <<t, p>>)) = Append(LineOf(q), t)
<1> DEFINE cell == [item |-> <<t, p>>, published |-> FALSE]
           r == Append(q, cell)
<1>1. cell \in Cells /\ cell.item[1] = t
  BY DEF Cells
<1> HIDE DEF cell
<1>2. /\ r \in Seq(Cells) /\ Len(r) = Len(q) + 1 /\ Len(q) \in Nat
      /\ \A i \in 1..Len(q) : r[i] = q[i]
      /\ r[Len(q) + 1] = cell
  BY <1>1, SMTT(60)
<1> HIDE DEF r
<1>3. LineOf(q) \in Seq(Nat) /\ Len(LineOf(q)) = Len(q)
  BY LineFacts
<1>4. LineOf(r) \in Seq(Nat) /\ Len(LineOf(r)) = Len(q) + 1
  BY <1>2, LineFacts
<1>5. \A i \in 1..(Len(q) + 1) : LineOf(r)[i] = Append(LineOf(q), t)[i]
  <2> SUFFICES ASSUME NEW i \in 1..(Len(q) + 1) PROVE LineOf(r)[i] = Append(LineOf(q), t)[i]
    OBVIOUS
  <2>1. LineOf(r)[i] = r[i].item[1]
    BY <1>2 DEF LineOf
  <2>2. CASE i \in 1..Len(q)
    <3>1. LineOf(q)[i] = q[i].item[1]
      BY <2>2 DEF LineOf
    <3>2. Append(LineOf(q), t)[i] = LineOf(q)[i]
      BY <1>3, <2>2, SMTT(60)
    <3>3. r[i] = q[i]
      BY <1>2, <2>2
    <3> QED BY <2>1, <3>1, <3>2, <3>3
  <2>3. CASE i = Len(q) + 1
    <3>1. Append(LineOf(q), t)[i] = t
      BY <1>2, <1>3, <2>3, SMTT(60)
    <3>2. r[i] = cell
      BY <1>2, <2>3
    <3> QED BY <1>1, <2>1, <3>1, <3>2
  <2>4. i \in 1..Len(q) \/ i = Len(q) + 1
    BY <1>2, SMTT(60)
  <2> QED BY <2>2, <2>3, <2>4
<1>6. LineOf(r) = Append(LineOf(q), t)
  BY <1>2, <1>3, <1>4, <1>5, SMTT(60)
<1>7. Claimed(q, <<t, p>>) = r
  BY DEF Claimed, r, cell
<1> QED BY <1>2, <1>6, <1>7

\* The store that publishes a cell leaves the tickets alone.
LEMMA PublishLine ==
    ASSUME NEW q \in Seq(Cells), NEW item
    PROVE  /\ Published(q, item) \in Seq(Cells)
           /\ Len(Published(q, item)) = Len(q)
           /\ LineOf(Published(q, item)) = LineOf(q)
<1> DEFINE r == Published(q, item)
<1>1. Len(q) \in Nat /\ DOMAIN q = 1..Len(q) /\ \A i \in 1..Len(q) : q[i] \in Cells
  BY SMTT(60)
<1>2. \A i \in 1..Len(q) :
        r[i] = IF q[i].item = item THEN [q[i] EXCEPT !.published = TRUE] ELSE q[i]
  BY <1>1 DEF Published
<1>3. \A i \in 1..Len(q) : r[i] \in Cells /\ r[i].item = q[i].item
  <2> SUFFICES ASSUME NEW i \in 1..Len(q) PROVE r[i] \in Cells /\ r[i].item = q[i].item
    OBVIOUS
  <2>1. q[i] \in Cells
    BY <1>1
  <2>2. \A cell \in Cells : LET d == [cell EXCEPT !.published = TRUE]
                           IN  d \in Cells /\ d.item = cell.item
    BY DEF Cells
  <2> QED BY <1>2, <2>1, <2>2
<1>4. r \in Seq(Cells) /\ Len(r) = Len(q)
  BY <1>1, <1>3, SMTT(60) DEF Published
<1> HIDE DEF r
<1>5. LineOf(r) = LineOf(q)
  BY <1>3, <1>4 DEF LineOf
<1> QED BY <1>4, <1>5 DEF r

\* try_pop() takes the ticket at the front.
LEMMA PopLine ==
    ASSUME NEW q \in Seq(Cells), q # <<>>
    PROVE  /\ Tail(q) \in Seq(Cells)
           /\ Len(Tail(q)) = Len(q) - 1
           /\ LineOf(Tail(q)) = Tail(LineOf(q))
           /\ Head(LineOf(q)) = Head(q).item[1]
<1>1. /\ Len(q) \in Nat /\ Len(q) # 0
      /\ Tail(q) \in Seq(Cells) /\ Len(Tail(q)) = Len(q) - 1
      /\ \A i \in 1..(Len(q) - 1) : Tail(q)[i] = q[i + 1]
  BY SMTT(60)
<1>2. /\ LineOf(q) \in Seq(Nat) /\ Len(LineOf(q)) = Len(q)
      /\ LineOf(Tail(q)) \in Seq(Nat) /\ Len(LineOf(Tail(q))) = Len(q) - 1
  BY <1>1, LineFacts
<1>3. \A i \in 1..(Len(q) - 1) : LineOf(Tail(q))[i] = Tail(LineOf(q))[i]
  <2> SUFFICES ASSUME NEW i \in 1..(Len(q) - 1)
               PROVE  LineOf(Tail(q))[i] = Tail(LineOf(q))[i]
    OBVIOUS
  <2>1. LineOf(Tail(q))[i] = q[i + 1].item[1]
    BY <1>1 DEF LineOf
  <2>2. Tail(LineOf(q))[i] = LineOf(q)[i + 1]
    BY <1>1, <1>2, SMTT(60)
  <2>3. LineOf(q)[i + 1] = q[i + 1].item[1]
    BY <1>1, SMTT(60) DEF LineOf
  <2> QED BY <2>1, <2>2, <2>3
<1>4. Tail(LineOf(q)) \in Seq(Nat) /\ Len(Tail(LineOf(q))) = Len(q) - 1
  BY <1>1, <1>2, SMTT(60)
<1>5. LineOf(Tail(q)) = Tail(LineOf(q))
  <2>1. \A s \in Seq(Nat) : s = [i \in 1..Len(s) |-> s[i]]
    BY SMTT(60)
  <2> QED BY <1>2, <1>3, <1>4, <2>1
<1>6. Head(LineOf(q)) = LineOf(q)[1] /\ Head(q) = q[1] /\ LineOf(q)[1] = q[1].item[1]
  BY <1>1, <1>2, SMTT(60) DEF LineOf
<1> QED BY <1>1, <1>5, <1>6
-----------------------------------------------------------------------------
(* The ways a step changes the place of a task *)

\* Queued, read off the line of tickets, before and after a step.
LEMMA QueuedIs ==
    /\ m_mpsc_queue \in Seq(Cells) => Queued = Tickets(Line) /\ Line \in Seq(Nat)
    /\ m_mpsc_queue' \in Seq(Cells) => Queued' = Tickets(Line') /\ Line' \in Seq(Nat)
BY LineFacts DEF Queued, Line

\* try_push() of a new ticket keeps every task in one place and the order.
LEMMA AcceptKeeps ==
    ASSUME TypeOK, OneFate, InAcceptanceOrder, NEW p \in Threads,
           m_mpsc_queue' = Claimed(m_mpsc_queue, <<accepted + 1, p>>),
           accepted' = accepted + 1, UNCHANGED <<task, finished>>
    PROVE  /\ m_mpsc_queue' \in Seq(Cells)
           /\ Len(m_mpsc_queue') = Len(m_mpsc_queue) + 1
           /\ Queued' = Queued \cup {accepted + 1}
           /\ OneFate'
           /\ InAcceptanceOrder'
<1>1. m_mpsc_queue \in Seq(Cells) /\ accepted \in Nat /\ accepted + 1 \in Nat
  BY SMTT(60) DEF TypeOK, Cells
<1>2. 1..(accepted + 1) = 1..accepted \cup {accepted + 1} /\ accepted + 1 \notin 1..accepted
  BY <1>1, SMTT(60)
<1>3. \A u \in 1..accepted : u < accepted + 1
  BY <1>1, SMTT(60)
<1>4. Queued \subseteq 1..accepted /\ Running \subseteq 1..accepted /\ finished \subseteq 1..accepted
  BY DEF OneFate
<1>5. /\ m_mpsc_queue' \in Seq(Cells)
      /\ Len(m_mpsc_queue') = Len(m_mpsc_queue) + 1
      /\ Line' = Append(Line, accepted + 1)
  BY <1>1, ClaimLine DEF Line
<1>6. Increasing(Line) /\ \A u \in Tickets(Line) : u < accepted + 1
  BY <1>1, <1>3, <1>4, QueuedIs DEF InAcceptanceOrder
<1>7. Queued' = Queued \cup {accepted + 1} /\ Increasing(Line')
  BY <1>1, <1>5, <1>6, QueuedIs, PushBackTickets
<1>8. Running' = Running
  BY DEF Running
<1>9. OneFate'
  BY <1>2, <1>4, <1>7, <1>8, SMTT(60) DEF OneFate
<1>10. InAcceptanceOrder'
  <2>1. \A s \in finished \cup Running : s < accepted + 1
    BY <1>3, <1>4
  <2> QED BY <1>7, <1>8, <2>1 DEF InAcceptanceOrder
<1> QED BY <1>5, <1>7, <1>9, <1>10

\* try_pop() hands the oldest queued ticket to the worker.
LEMMA StartKeeps ==
    ASSUME TypeOK, OneFate, InAcceptanceOrder, m_mpsc_queue # <<>>, task = 0,
           task' = Head(m_mpsc_queue).item[1], m_mpsc_queue' = Tail(m_mpsc_queue),
           UNCHANGED <<accepted, finished>>
    PROVE  /\ m_mpsc_queue' \in Seq(Cells)
           /\ Len(m_mpsc_queue') = Len(m_mpsc_queue) - 1
           /\ task' \in Nat /\ task' # 0
           /\ task' \in Queued /\ \A u \in Queued : task' <= u
           /\ Queued' = Queued \ {task'}
           /\ OneFate'
           /\ InAcceptanceOrder'
<1>1. m_mpsc_queue \in Seq(Cells) /\ accepted \in Nat
  BY DEF TypeOK, Cells
<1>2. /\ m_mpsc_queue' \in Seq(Cells)
      /\ Len(m_mpsc_queue') = Len(m_mpsc_queue) - 1
      /\ Line' = Tail(Line) /\ Head(Line) = task'
  BY <1>1, PopLine DEF Line
<1>3. Line \in Seq(Nat) /\ Line # <<>> /\ Increasing(Line)
  BY <1>1, LineFacts DEF InAcceptanceOrder, Line
<1>4. /\ task' \in Queued /\ \A u \in Queued : task' <= u
      /\ Queued' = Queued \ {task'} /\ Increasing(Line')
  BY <1>1, <1>2, <1>3, QueuedIs, PopFrontTickets
<1>5. Queued \subseteq 1..accepted
  BY DEF OneFate
<1>6. task' \in Nat /\ task' # 0 /\ \A u \in Queued : u \in Nat
  BY <1>1, <1>4, <1>5, SMTT(60)
<1>7. Running = {} /\ Running' = {task'}
  BY <1>6 DEF Running
<1>8. OneFate'
  BY <1>4, <1>7, SMTT(60) DEF OneFate
<1>9. InAcceptanceOrder'
  <2>1. ASSUME NEW u \in Queued' PROVE task' < u
    <3>1. u \in Nat /\ task' \in Nat /\ task' <= u /\ u # task'
      BY <1>4, <1>6
    <3> QED BY <3>1, SMTT(60)
  <2> QED BY <1>4, <1>7, <2>1 DEF InAcceptanceOrder
<1> QED BY <1>2, <1>4, <1>6, <1>8, <1>9

\* The worker has executed its task.
LEMMA FinishKeeps ==
    ASSUME OneFate, InAcceptanceOrder, task # 0,
           finished' = finished \cup {task}, task' = 0, UNCHANGED <<m_mpsc_queue, accepted>>
    PROVE  OneFate' /\ InAcceptanceOrder'
<1>1. Running = {task} /\ Running' = {} /\ Queued' = Queued /\ Line' = Line
  BY DEF Running, Queued, Line
<1>2. OneFate'
  BY <1>1 DEF OneFate
<1>3. InAcceptanceOrder'
  BY <1>1 DEF InAcceptanceOrder
<1> QED BY <1>2, <1>3

\* A step that leaves the line of tickets and the worker's hands alone.
LEMMA SamePlaces ==
    ASSUME TypeOK, OneFate, InAcceptanceOrder, m_mpsc_queue' \in Seq(Cells), Line' = Line,
           UNCHANGED <<accepted, task, finished>>
    PROVE  Queued' = Queued /\ OneFate' /\ InAcceptanceOrder'
<1>1. Queued' = Queued
  BY QueuedIs DEF TypeOK, Cells
<1>2. Running' = Running
  BY DEF Running
<1> QED BY <1>1, <1>2 DEF OneFate, InAcceptanceOrder
-----------------------------------------------------------------------------
(* Where the threads are *)

\* A thread that goes on inside the operation it is in keeps LocationInv.
LEMMA MoveKeepsLocations ==
    ASSUME LocationInv, NEW c \in Threads, NEW l \in Locations, GoTo(c, l),
           l \notin WorkerLocations,
           l \in ProducerLocations => c \in Producers,
           l \in WaitLocations => c \in WaitCallers
    PROVE  LocationInv' /\ pc'[Worker] = pc[Worker] /\ pc'[c] = l
<1>1. Worker \notin Threads
  BY ConstantsAssumption
<1>2. pc \in [Threads \cup {Worker} -> Locations]
  BY DEF LocationInv
<1>3. /\ pc' \in [Threads \cup {Worker} -> Locations]
      /\ pc'[Worker] = pc[Worker] /\ pc'[c] = l
      /\ \A d \in Threads \ {c} : pc'[d] = pc[d]
  BY <1>1, <1>2 DEF GoTo
<1> QED BY <1>3 DEF LocationInv

\* What the steps of a producer do to the locations.
LEMMA ProducerMoves ==
    ASSUME LocationInv, NEW p \in Threads, ProducerStep(p)
    PROVE  /\ LocationInv' /\ p \in Producers
           /\ \E l \in ProducerLocations \cup {"idle"} : GoTo(p, l)
           /\ pc[p] \in ProducerLocations
           /\ pc'[Worker] = pc[Worker]
<1>1. /\ \E l \in ProducerLocations \cup {"idle"} : GoTo(p, l)
      /\ pc[p] \in ProducerLocations
  BY DEF ProducerStep, enter_load, resize_test, resize_sleep, resize_wake, enter_fetch_add,
     enter_recheck, leave_producer_, leave_check, add_task_reserve, add_task_loop,
     add_task_push, add_task_publish, add_task_reject, Complete, NotifyCompletion,
     ProducerLocations
<1>2. PICK l \in ProducerLocations \cup {"idle"} : GoTo(p, l)
  BY <1>1
<1>3. p \in Producers
  BY <1>1 DEF LocationInv
<1>4. l \in Locations /\ l \notin WorkerLocations /\ l \notin WaitLocations
  BY DEF Locations, ProducerLocations, WorkerLocations, WaitLocations
<1> QED BY <1>1, <1>2, <1>3, <1>4, MoveKeepsLocations

\* What the steps of a caller of wait() do to the locations.
LEMMA WaitMoves ==
    ASSUME LocationInv, NEW c \in Threads, WaitStep(c)
    PROVE  /\ LocationInv' /\ c \in WaitCallers
           /\ \E l \in WaitLocations \cup {"idle"} : GoTo(c, l)
           /\ pc[c] \in WaitLocations
           /\ pc'[Worker] = pc[Worker]
<1>1. /\ \E l \in WaitLocations \cup {"idle"} : GoTo(c, l)
      /\ pc[c] \in WaitLocations
  BY DEF WaitStep, wait_load, wait_test, wait_sleep, wait_wake, wait_done, WaitLocations
<1>2. PICK l \in WaitLocations \cup {"idle"} : GoTo(c, l)
  BY <1>1
<1>3. c \in WaitCallers
  BY <1>1 DEF LocationInv
<1>4. l \in Locations /\ l \notin WorkerLocations /\ l \notin ProducerLocations
  BY DEF Locations, ProducerLocations, WorkerLocations, WaitLocations
<1> QED BY <1>1, <1>2, <1>3, <1>4, MoveKeepsLocations

\* What shutdown() and the setters do to the locations, the restart apart.
LEMMA LifecycleMoves ==
    ASSUME LocationInv, NEW c \in Threads, LifecycleStep(c), ~resize_restart(c)
    PROVE  /\ LocationInv'
           /\ \E l \in LifecycleLocations \cup {"idle"} : GoTo(c, l)
           /\ pc[c] \in LifecycleLocations
           /\ pc'[Worker] = pc[Worker]
<1>1. /\ \E l \in LifecycleLocations \cup {"idle"} : GoTo(c, l)
      /\ pc[c] \in LifecycleLocations
  BY DEF LifecycleStep, shutdown_notify, NotifyCompletion, shutdown_join, resize_pause,
     resize_drain, OpenBarrier, resize_stop, resize_join, resize_open, resize_open_notify,
     LifecycleLocations
<1>2. PICK l \in LifecycleLocations \cup {"idle"} : GoTo(c, l)
  BY <1>1
<1>3. l \in Locations /\ l \notin WorkerLocations /\ l \notin ProducerLocations
      /\ l \notin WaitLocations
  BY DEF Locations, ProducerLocations, WorkerLocations, WaitLocations, LifecycleLocations
<1> QED BY <1>1, <1>2, <1>3, MoveKeepsLocations

\* The restart moves the caller of the resize and starts the new worker.
LEMMA RestartMoves ==
    ASSUME LocationInv, NEW c \in Threads, resize_restart(c)
    PROVE  /\ LocationInv'
           /\ pc[c] = "restart" /\ pc'[c] = "open" /\ pc'[Worker] = "probe"
           /\ \A d \in Threads \ {c} : pc'[d] = pc[d]
<1>1. Worker \notin Threads /\ pc \in [Threads \cup {Worker} -> Locations]
  BY ConstantsAssumption DEF LocationInv
<1>2. /\ pc[c] = "restart" /\ pc'[c] = "open" /\ pc'[Worker] = "probe"
      /\ \A d \in Threads \ {c} : pc'[d] = pc[d]
      /\ DOMAIN pc' = Threads \cup {Worker}
  BY <1>1 DEF resize_restart
<1>3. "open" \in Locations /\ "probe" \in WorkerLocations /\ "probe" \in Locations
      /\ "open" \notin WorkerLocations /\ "open" \notin ProducerLocations
      /\ "open" \notin WaitLocations
  BY DEF Locations, ProducerLocations, WorkerLocations, WaitLocations, LifecycleLocations
<1>4. pc' \in [Threads \cup {Worker} -> Locations]
  BY <1>1, <1>3 DEF resize_restart
<1> QED BY <1>2, <1>3, <1>4 DEF LocationInv

\* A call of one of the operations.
Call ==
    \/ \E p \in Producers : add_task(p)
    \/ \E c \in WaitCallers : wait(c)
    \/ \E c \in Configurers : shutdown(c) \/ set_max_queue_size(c)

\* A call moves an idle thread into an operation.
LEMMA CallMoves ==
    ASSUME LocationInv, Call
    PROVE  /\ LocationInv' /\ pc'[Worker] = pc[Worker]
           /\ \E c \in Threads : /\ pc[c] = "idle"
                                /\ \E l \in {"enter", "wait_load", "shutdown_notify", "pause"} :
                                      GoTo(c, l)
<1> USE ConstantsAssumption DEF Locations, ProducerLocations, WaitLocations,
                                LifecycleLocations, WorkerLocations
<1>1. ASSUME NEW p \in Producers, add_task(p) PROVE LocationInv' /\ pc'[Worker] = pc[Worker]
  BY <1>1, MoveKeepsLocations DEF add_task
<1>2. ASSUME NEW c \in WaitCallers, wait(c) PROVE LocationInv' /\ pc'[Worker] = pc[Worker]
  BY <1>2, MoveKeepsLocations DEF wait
<1>3. ASSUME NEW c \in Configurers, shutdown(c) \/ set_max_queue_size(c)
      PROVE  LocationInv' /\ pc'[Worker] = pc[Worker]
  BY <1>3, MoveKeepsLocations DEF shutdown, set_max_queue_size
<1>4. \E c \in Threads : /\ pc[c] = "idle"
                         /\ \E l \in {"enter", "wait_load", "shutdown_notify", "pause"} : GoTo(c, l)
  BY DEF Call, add_task, wait, shutdown, set_max_queue_size
<1> QED BY <1>1, <1>2, <1>3, <1>4 DEF Call

\* The worker moves alone.
LEMMA WorkerMoves ==
    ASSUME LocationInv, worker_function
    PROVE  /\ LocationInv'
           /\ \E l \in WorkerLocations : GoTo(Worker, l)
           /\ pc[Worker] # "exited"
           /\ \A c \in Threads : pc'[c] = pc[c]
<1>1. \E l \in WorkerLocations : GoTo(Worker, l)
  BY DEF worker_function, worker_probe, worker_pop, worker_pop_failed, worker_task,
     worker_complete, Complete, NotifyCompletion, worker_release, worker_check_empty,
     worker_check_stop, worker_check_idle, WorkerLocations
<1>2. pc[Worker] # "exited"
  BY DEF worker_function, worker_probe, worker_pop, worker_pop_failed, worker_task,
     worker_complete, worker_release, worker_check_empty, worker_check_stop, worker_check_idle
<1>3. PICK l \in WorkerLocations : GoTo(Worker, l)
  BY <1>1
<1>4. l \in Locations
  BY DEF Locations
<1>5. /\ pc' \in [Threads \cup {Worker} -> Locations] /\ pc'[Worker] = l
      /\ \A c \in Threads : pc'[c] = pc[c]
  BY <1>3, <1>4, ConstantsAssumption DEF LocationInv, GoTo
<1> QED BY <1>1, <1>2, <1>5 DEF LocationInv

\* The steps that move no thread.
Still == UNCHANGED pc /\ UNCHANGED <<task, finished, m_active_tasks, drained_any, seen, target>>
         /\ UNCHANGED <<ringVars, m_submitted_tasks, m_completed_tasks, m_active_producers>>
         /\ UNCHANGED <<m_stop_flag, m_resizing, closing>>

\* Every step is a step of a client, of the worker, a call, or moves no thread.
LEMMA StepKinds ==
    ASSUME [Next]_vars
    PROVE  \/ Call
           \/ \E c \in Threads : ProducerStep(c)
           \/ \E c \in Threads : WaitStep(c)
           \/ \E c \in Threads : LifecycleStep(c) /\ ~resize_restart(c)
           \/ \E c \in Threads : resize_restart(c)
           \/ worker_function
           \/ Still
<1>1. ASSUME NEW c \in Configurers, NEW p \in Policies, set_queue_policy(c, p) PROVE Still
  BY <1>1 DEF set_queue_policy, Still, ringVars, completionVars, producerVars, workerVars,
     waitVars
<1>2. ASSUME NEW t \in Threads, spurious_wakeup(t) PROVE Still
  BY <1>2 DEF spurious_wakeup, Still, ringVars, configVars, producerVars, workerVars, waitVars
<1>3. ASSUME UNCHANGED vars PROVE Still
  BY <1>3 DEF vars, Still, ringVars, configVars, completionVars, producerVars, workerVars,
     waitVars
<1> QED BY <1>1, <1>2, <1>3 DEF Next, Call, ClientStep

\* Threads stay inside the operations they may call.
LEMMA LocationKept == LocationInv /\ [Next]_vars => LocationInv'
<1> SUFFICES ASSUME LocationInv, [Next]_vars PROVE LocationInv'
  OBVIOUS
<1>1. CASE Still
  BY <1>1 DEF Still, LocationInv
<1> QED BY <1>1, StepKinds, CallMoves, ProducerMoves, WaitMoves, LifecycleMoves, RestartMoves,
           WorkerMoves

\* Calls, producers and callers of wait() leave the worker alone.
LEMMA ClientFrame ==
    ASSUME LocationInv,
           Call \/ \E c \in Threads : ProducerStep(c) \/ WaitStep(c)
    PROVE  UNCHANGED workerVars /\ pc'[Worker] = pc[Worker]
<1> USE DEF workerVars
<1>1. CASE Call
  BY <1>1, CallMoves DEF Call, add_task, wait, shutdown, set_max_queue_size
<1>2. ASSUME NEW c \in Threads, ProducerStep(c) PROVE UNCHANGED workerVars /\ pc'[Worker] = pc[Worker]
  BY <1>2, ProducerMoves DEF ProducerStep, enter_load, resize_test, resize_sleep, resize_wake,
     enter_fetch_add, enter_recheck, leave_producer_, leave_check, add_task_reserve,
     add_task_loop, add_task_push, add_task_publish, add_task_reject
<1>3. ASSUME NEW c \in Threads, WaitStep(c) PROVE UNCHANGED workerVars /\ pc'[Worker] = pc[Worker]
  BY <1>3, WaitMoves DEF WaitStep, wait_load, wait_test, wait_sleep, wait_wake, wait_done
<1> QED BY <1>1, <1>2, <1>3

\* The worker's hands and its count of active tasks.
LEMMA WorkerKept == IInv /\ [Next]_vars => WorkerInv'
<1> SUFFICES ASSUME IInv, [Next]_vars PROVE WorkerInv'
  OBVIOUS
<1>1. LocationInv /\ WorkerInv /\ ResizeInv /\ OneFate /\ TypeOK /\ InAcceptanceOrder
  BY DEF IInv
<1>2. CASE Call \/ \E c \in Threads : ProducerStep(c) \/ WaitStep(c)
  BY <1>1, <1>2, ClientFrame DEF WorkerInv, workerVars
<1>3. ASSUME NEW c \in Threads, LifecycleStep(c), ~resize_restart(c) PROVE WorkerInv'
  <2>1. pc'[Worker] = pc[Worker]
    BY <1>1, <1>3, LifecycleMoves
  <2>2. CASE \E size \in Capacities : resize_join(c, size)
    BY <1>1, <2>1, <2>2 DEF resize_join, WorkerInv
  <2>3. CASE ~\E size \in Capacities : resize_join(c, size)
    <3>1. UNCHANGED <<task, m_active_tasks>>
      BY <1>3, <2>3 DEF LifecycleStep, shutdown_notify, shutdown_join, resize_pause,
         resize_drain, resize_stop, resize_open, resize_open_notify, workerVars
    <3> QED BY <1>1, <2>1, <3>1 DEF WorkerInv
  <2> QED BY <2>2, <2>3
<1>4. ASSUME NEW c \in Threads, resize_restart(c) PROVE WorkerInv'
  <2>1. pc[c] = "restart" /\ pc'[Worker] = "probe"
    BY <1>1, <1>4, RestartMoves
  <2>2. pc[Worker] = "exited"
    BY <1>1, <2>1 DEF ResizeInv
  <2> QED BY <1>1, <1>4, <2>1, <2>2 DEF resize_restart, WorkerInv
<1>5. CASE worker_function
  <2>1. Worker \in DOMAIN pc
    BY <1>1 DEF LocationInv
  <2> USE <1>1, <2>1 DEF WorkerInv, GoTo
  <2>2. CASE worker_probe
    BY <2>2, SMTT(60) DEF worker_probe
  <2>3. CASE worker_pop
    <3>1. CASE CanPop(m_mpsc_queue)
      <4>1. task = 0 /\ pc'[Worker] = "task" /\ UNCHANGED m_active_tasks
        BY <2>3, <3>1 DEF worker_pop
      <4>2. task' # 0
        BY <2>3, <3>1, <4>1, StartKeeps DEF worker_pop, CanPop, workerVars
      <4> QED BY <2>3, <4>1, <4>2 DEF worker_pop
    <3>2. CASE ~CanPop(m_mpsc_queue)
      BY <2>3, <3>2 DEF worker_pop
    <3> QED BY <3>1, <3>2
  <2>4. CASE worker_pop_failed
    BY <2>4, SMTT(60) DEF worker_pop_failed, ReleaseActive
  <2>5. CASE worker_task
    BY <2>5 DEF worker_task
  <2>6. CASE worker_complete
    BY <2>6 DEF worker_complete, Complete, NotifyCompletion, workerVars
  <2>7. CASE worker_release
    BY <2>7, SMTT(60) DEF worker_release, ReleaseActive
  <2>8. CASE worker_check_empty \/ worker_check_stop \/ worker_check_idle
    BY <2>8 DEF worker_check_empty, worker_check_stop, worker_check_idle, workerVars
  <2> QED BY <1>5, <2>2, <2>3, <2>4, <2>5, <2>6, <2>7, <2>8 DEF worker_function
<1>6. CASE Still
  BY <1>1, <1>6 DEF Still, WorkerInv
<1> QED BY <1>2, <1>3, <1>4, <1>5, <1>6, StepKinds
-----------------------------------------------------------------------------
(* The barrier of a resize *)

BehindBarrier == {"drain", "stop", "join", "restart", "open"}

\* Only shutdown() and the setters move threads in and out of their operations.
LEMMA OutsideLifecycle ==
    ASSUME LocationInv,
           worker_function \/ \E c \in Threads : ProducerStep(c) \/ WaitStep(c)
    PROVE  \A d \in Threads :
             pc[d] \in LifecycleLocations \/ pc'[d] \in LifecycleLocations => pc'[d] = pc[d]
<1>1. CASE worker_function
  BY <1>1, WorkerMoves
<1>2. ASSUME NEW c \in Threads, ProducerStep(c) \/ WaitStep(c)
      PROVE  \A d \in Threads :
               pc[d] \in LifecycleLocations \/ pc'[d] \in LifecycleLocations => pc'[d] = pc[d]
  <2>1. PICK l \in ProducerLocations \cup WaitLocations \cup {"idle"} : GoTo(c, l)
    BY <1>2, ProducerMoves, WaitMoves
  <2>2. pc[c] \notin LifecycleLocations /\ l \notin LifecycleLocations
    BY <1>2, ProducerMoves, WaitMoves DEF ProducerLocations, WaitLocations, LifecycleLocations
  <2>3. pc'[c] = l /\ \A d \in Threads \ {c} : pc'[d] = pc[d]
    BY <2>1 DEF GoTo, LocationInv
  <2> QED BY <2>2, <2>3
<1> QED BY <1>1, <1>2

\* What producers, callers of wait() and the worker do to what ResizeInv reads.
LEMMA OthersRespectResize ==
    ASSUME IInv,
           worker_function \/ \E c \in Threads : ProducerStep(c) \/ WaitStep(c)
    PROVE  /\ UNCHANGED <<m_resizing, m_stop_flag, closing>>
           /\ m_completed_tasks' \in Nat /\ m_completed_tasks <= m_completed_tasks'
           /\ m_submitted_tasks' # m_submitted_tasks =>
                \A c \in Threads : pc[c] \notin BehindBarrier
           /\ pc[Worker] = "exited" => pc'[Worker] = "exited"
<1> USE DEF configVars, completionVars, producerVars
<1>0. LocationInv /\ m_completed_tasks \in Nat /\ m_submitted_tasks \in Nat
  BY DEF IInv, TypeOK
<1>1. CASE worker_function
  <2>1. pc[Worker] # "exited"
    BY <1>0, <1>1, WorkerMoves
  <2>2. /\ UNCHANGED <<m_resizing, m_stop_flag, closing, m_submitted_tasks>>
        /\ m_completed_tasks' \in {m_completed_tasks, m_completed_tasks + 1}
    BY <1>1 DEF worker_function, worker_probe, worker_pop, worker_pop_failed, worker_task,
       worker_complete, Complete, NotifyCompletion, worker_release, worker_check_empty,
       worker_check_stop, worker_check_idle
  <2> QED BY <1>0, <2>1, <2>2, SMTT(60)
<1>2. ASSUME NEW c \in Threads, WaitStep(c)
      PROVE  UNCHANGED <<m_resizing, m_stop_flag, closing, m_completed_tasks, m_submitted_tasks>>
  BY <1>2 DEF WaitStep, wait_load, wait_test, wait_sleep, wait_wake, wait_done
<1>3. ASSUME NEW c \in Threads, ProducerStep(c), ~add_task_reserve(c)
      PROVE  /\ UNCHANGED <<m_resizing, m_stop_flag, closing, m_submitted_tasks>>
             /\ m_completed_tasks' \in {m_completed_tasks, m_completed_tasks + 1}
  BY <1>3 DEF ProducerStep, enter_load, resize_test, resize_sleep, resize_wake, enter_fetch_add,
     enter_recheck, leave_producer_, leave_check, add_task_loop, add_task_push,
     add_task_publish, add_task_reject, Complete, NotifyCompletion
<1>4. ASSUME NEW c \in Threads, add_task_reserve(c)
      PROVE  /\ UNCHANGED <<m_resizing, m_stop_flag, closing, m_completed_tasks>>
             /\ \A d \in Threads : pc[d] \notin BehindBarrier
  <2>1. pc[c] = "reserve"
    BY <1>4 DEF add_task_reserve
  <2>2. Inside(BehindBarrier) = {}
    BY <2>1 DEF IInv, ResizeBarrier, Inside, BehindBarrier
  <2> QED BY <1>4, <2>2 DEF add_task_reserve, Inside
<1>5. ASSUME NEW c \in Threads, ProducerStep(c) \/ WaitStep(c) PROVE pc'[Worker] = pc[Worker]
  BY <1>0, <1>5, ClientFrame
<1> QED BY <1>0, <1>1, <1>2, <1>3, <1>4, <1>5, SMTT(60)

\* One lifecycle operation at a time, and what a resize has established so far.
LEMMA ResizeKept == IInv /\ [Next]_vars => ResizeInv'
<1> SUFFICES ASSUME IInv, [Next]_vars PROVE ResizeInv'
  OBVIOUS
<1>1. LocationInv /\ ResizeInv /\ m_completed_tasks \in Nat /\ m_submitted_tasks \in Nat
  BY DEF IInv, TypeOK
<1>2. CASE worker_function \/ \E c \in Threads : ProducerStep(c) \/ WaitStep(c)
  <2>1. \A d \in Threads :
          pc[d] \in LifecycleLocations \/ pc'[d] \in LifecycleLocations => pc'[d] = pc[d]
    BY <1>1, <1>2, OutsideLifecycle
  <2>2. /\ UNCHANGED <<m_resizing, m_stop_flag, closing>>
        /\ m_completed_tasks' \in Nat /\ m_completed_tasks <= m_completed_tasks'
        /\ m_submitted_tasks' # m_submitted_tasks => \A c \in Threads : pc[c] \notin BehindBarrier
        /\ pc[Worker] = "exited" => pc'[Worker] = "exited"
    BY <1>2, OthersRespectResize
  <2>3. \A c, d \in Threads :
          pc'[c] \in LifecycleLocations /\ pc'[d] \in LifecycleLocations => c = d
    BY <1>1, <2>1 DEF ResizeInv
  <2>4. ASSUME NEW c \in Threads
        PROVE  /\ pc'[c] \in {"pause", "drain", "stop", "join", "restart", "open"} => m_resizing'
               /\ pc'[c] \in {"stop", "join", "restart", "open"} =>
                    m_submitted_tasks' <= m_completed_tasks'
               /\ pc'[c] = "restart" => pc'[Worker] = "exited"
    <3>1. CASE pc'[c] \in LifecycleLocations
      <4>1. pc'[c] = pc[c]
        BY <2>1, <3>1
      <4>2. pc'[c] \in {"stop", "join", "restart", "open"} => m_submitted_tasks' = m_submitted_tasks
        BY <2>2, <4>1 DEF BehindBarrier
      <4>3. pc'[c] \in {"stop", "join", "restart", "open"} => m_submitted_tasks' <= m_completed_tasks'
        BY <1>1, <2>2, <4>1, <4>2, SMTT(60) DEF ResizeInv
      <4> QED BY <1>1, <2>2, <4>1, <4>3 DEF ResizeInv
    <3>2. CASE pc'[c] \notin LifecycleLocations
      BY <3>2 DEF LifecycleLocations
    <3> QED BY <3>1, <3>2
  <2>5. m_stop_flag' => closing' \/ \E c \in Threads : pc'[c] \in {"join", "restart"}
    <3>1. \A c \in Threads : pc[c] \in {"join", "restart"} => pc'[c] = pc[c]
      BY <2>1 DEF LifecycleLocations
    <3> QED BY <1>1, <2>2, <3>1 DEF ResizeInv
  <2> QED BY <2>3, <2>4, <2>5 DEF ResizeInv
<1>3. CASE Call
  <2>1. CASE \E p \in Threads : add_task(p) \/ wait(p)
    <3>1. PICK p \in Threads, l \in {"enter", "wait_load"} : pc[p] = "idle" /\ GoTo(p, l)
      BY <2>1 DEF add_task, wait
    <3>2. \A d \in Threads :
            pc[d] \in LifecycleLocations \/ pc'[d] \in LifecycleLocations => pc'[d] = pc[d]
      BY <1>1, <3>1 DEF LocationInv, GoTo, LifecycleLocations
    <3>3. /\ UNCHANGED <<m_resizing, m_stop_flag, closing, m_submitted_tasks, m_completed_tasks>>
          /\ pc'[Worker] = pc[Worker]
      BY <1>1, <1>3, <2>1, CallMoves DEF add_task, wait, configVars, completionVars, producerVars
    <3> QED BY <1>1, <3>2, <3>3 DEF ResizeInv, LifecycleLocations
  <2>2. ASSUME NEW c \in Threads, shutdown(c) PROVE ResizeInv'
    <3>1. /\ \A d \in Threads : pc[d] \notin LifecycleLocations
          /\ pc'[c] = "shutdown_notify" /\ \A d \in Threads \ {c} : pc'[d] = pc[d]
          /\ closing'
      BY <1>1, <2>2 DEF shutdown, LifecycleFree, LocationInv, GoTo
    <3> QED BY <3>1, SMTT(60) DEF ResizeInv, LifecycleLocations
  <2>3. ASSUME NEW c \in Threads, set_max_queue_size(c) PROVE ResizeInv'
    <3>1. /\ \A d \in Threads : pc[d] \notin LifecycleLocations
          /\ pc'[c] = "pause" /\ \A d \in Threads \ {c} : pc'[d] = pc[d]
          /\ m_resizing' /\ m_stop_flag' = m_stop_flag /\ ~m_stop_flag
      BY <1>1, <2>3 DEF set_max_queue_size, LifecycleFree, LocationInv, GoTo
    <3> QED BY <3>1, SMTT(60) DEF ResizeInv, LifecycleLocations
  <2> QED BY <1>3, <2>1, <2>2, <2>3, ConstantsAssumption DEF Call
<1>4. ASSUME NEW c \in Threads, LifecycleStep(c) PROVE ResizeInv'
  <2>1. pc[c] \in LifecycleLocations /\ \A d \in Threads \ {c} : pc'[d] = pc[d]
    BY <1>1, <1>4, LifecycleMoves, RestartMoves, SMTT(60) DEF GoTo, LocationInv,
       LifecycleLocations
  <2>2. \A d \in Threads \ {c} : pc'[d] \notin LifecycleLocations
    BY <1>1, <2>1 DEF ResizeInv
  <2>3. UNCHANGED <<m_submitted_tasks, m_completed_tasks>>
    BY <1>4 DEF LifecycleStep, shutdown_notify, shutdown_join, resize_pause, resize_drain,
       resize_stop, resize_join, resize_restart, resize_open, resize_open_notify,
       completionVars, producerVars, NotifyCompletion
  <2>4. c \in DOMAIN pc /\ pc \in [Threads \cup {Worker} -> Locations] /\ Worker \notin Threads
    BY <1>1, ConstantsAssumption DEF LocationInv
  <2> SUFFICES /\ pc'[c] \in {"pause", "drain", "stop", "join", "restart", "open"} => m_resizing'
               /\ pc'[c] \in {"stop", "join", "restart", "open"} =>
                    m_submitted_tasks' <= m_completed_tasks'
               /\ pc'[c] = "restart" => pc'[Worker] = "exited"
               /\ m_stop_flag' => closing' \/ pc'[c] \in {"join", "restart"}
    BY <2>2 DEF ResizeInv, LifecycleLocations
  <2>a. /\ pc[c] \in {"pause", "drain", "stop", "join", "restart", "open"} => m_resizing
        /\ pc[c] \in {"stop", "join", "restart", "open"} => m_submitted_tasks <= m_completed_tasks
        /\ pc[c] = "restart" => pc[Worker] = "exited"
        /\ m_stop_flag => closing \/ pc[c] \in {"join", "restart"}
    <3>1. \A d \in Threads : pc[d] \in {"join", "restart"} => d = c
      BY <1>1, <2>1 DEF ResizeInv, LifecycleLocations
    <3> QED BY <1>1, <3>1 DEF ResizeInv
  <2> USE <2>a, <2>4 DEF GoTo, configVars
  <2>5. CASE shutdown_notify(c) \/ shutdown_join(c)
    BY <2>3, <2>5, SMTT(60) DEF shutdown_notify, shutdown_join, NotifyCompletion
  <2>6. CASE resize_pause(c)
    BY <2>6 DEF resize_pause, OpenBarrier
  <2>7. CASE resize_drain(c)
    <3>1. UNCHANGED <<m_stop_flag, closing>> /\ pc[c] = "drain"
      BY <2>7 DEF resize_drain
    <3>2. CASE Idle
      <4>1. pc'[c] = "stop" /\ m_resizing' = m_resizing
        BY <2>7, <3>2 DEF resize_drain
      <4>2. m_submitted_tasks' <= m_completed_tasks'
        BY <1>1, <2>3, <3>2 DEF Idle
      <4> QED BY <3>1, <4>1, <4>2
    <3>3. CASE ~Idle
      <4>1. pc'[c] = "open_notify"
        BY <2>7, <3>3 DEF resize_drain, OpenBarrier
      <4> QED BY <3>1, <4>1
    <3> QED BY <3>2, <3>3
  <2>8. CASE resize_stop(c)
    BY <2>3, <2>8 DEF resize_stop
  <2>9. ASSUME NEW size \in Capacities, resize_join(c, size)
        PROVE  /\ pc'[c] \in {"pause", "drain", "stop", "join", "restart", "open"} => m_resizing'
               /\ pc'[c] \in {"stop", "join", "restart", "open"} =>
                    m_submitted_tasks' <= m_completed_tasks'
               /\ pc'[c] = "restart" => pc'[Worker] = "exited"
               /\ m_stop_flag' => closing' \/ pc'[c] \in {"join", "restart"}
    BY <2>3, <2>9 DEF resize_join
  <2>10. CASE resize_restart(c)
    BY <2>3, <2>10 DEF resize_restart
  <2>11. CASE resize_open(c)
    BY <2>3, <2>11 DEF resize_open, OpenBarrier
  <2>12. CASE resize_open_notify(c)
    BY <2>3, <2>12 DEF resize_open_notify
  <2> QED BY <1>4, <2>5, <2>6, <2>7, <2>8, <2>9, <2>10, <2>11, <2>12 DEF LifecycleStep
<1>5. CASE Still
  BY <1>1, <1>5 DEF Still, ResizeInv
<1>6. \A c \in Threads : resize_restart(c) => LifecycleStep(c)
  BY DEF LifecycleStep
<1> QED BY <1>2, <1>3, <1>4, <1>5, <1>6, StepKinds
-----------------------------------------------------------------------------
(* Types *)

\* The part of TypeOK that no other conjunct of IInv implies.
RestTypes ==
    /\ m_stop_flag \in BOOLEAN /\ m_resizing \in BOOLEAN /\ drained_any \in BOOLEAN
    /\ closing \in BOOLEAN
    /\ m_max_queue_size \in Nat
    /\ m_overflow_policy \in QueuePolicy
    /\ m_dropped_tasks \in Nat /\ m_submitted_tasks \in Nat /\ m_completed_tasks \in Nat
    /\ m_completion_wait_mutex \in WaitCallers \cup {NoOwner}
    /\ m_completion_cv \subseteq WaitCallers
    /\ m_resize_cv \subseteq Producers
    /\ policy \in [Threads -> QueuePolicy]
    /\ target \in [Threads -> Nat]

restVars ==
    <<m_stop_flag, m_resizing, drained_any, closing, m_max_queue_size, m_overflow_policy,
      m_dropped_tasks, m_submitted_tasks, m_completed_tasks, m_completion_wait_mutex,
      m_completion_cv, m_resize_cv, policy, target>>

\* The variables of RestTypes keep their types.
LEMMA RestTypesKept == IInv /\ [Next]_vars => RestTypes'
<1> SUFFICES ASSUME IInv, [Next]_vars PROVE RestTypes'
  OBVIOUS
<1>1. RestTypes /\ LocationInv
  BY DEF IInv, TypeOK, RestTypes
<1>2. CASE UNCHANGED restVars
  BY <1>1, <1>2 DEF restVars, RestTypes
<1> USE DEF ringVars, configVars, completionVars, producerVars, workerVars, waitVars, restVars
<1>3. ASSUME NEW p \in Threads, add_task(p) \/ wait(p) PROVE UNCHANGED restVars
  BY <1>3 DEF add_task, wait
<1>4. ASSUME NEW c \in Threads, shutdown(c) \/ set_max_queue_size(c) PROVE RestTypes'
  BY <1>1, <1>4 DEF shutdown, set_max_queue_size, RestTypes
<1>5. ASSUME NEW c \in Threads, NEW p \in Policies, set_queue_policy(c, p) PROVE RestTypes'
  BY <1>1, <1>5, ConstantsAssumption DEF set_queue_policy, RestTypes
<1>6. ASSUME NEW p \in Threads, ProducerStep(p) PROVE RestTypes'
  <2>1. p \in Producers
    BY <1>1, <1>6, ProducerMoves
  <2>2. CASE \/ enter_load(p) \/ resize_test(p) \/ resize_wake(p) \/ enter_fetch_add(p)
             \/ enter_recheck(p) \/ leave_producer_(p) \/ add_task_publish(p)
    BY <1>2, <2>2 DEF enter_load, resize_test, resize_wake, enter_fetch_add, enter_recheck,
       leave_producer_, add_task_publish
  <2>3. CASE resize_sleep(p) \/ leave_check(p)
    BY <1>1, <2>1, <2>3 DEF resize_sleep, leave_check, RestTypes
  <2>4. CASE add_task_reserve(p)
    BY <1>1, <2>4, SMTT(60) DEF add_task_reserve, Reserve, RestTypes
  <2>5. CASE add_task_loop(p)
    BY <1>1, <2>5 DEF add_task_loop, RestTypes
  <2>6. CASE add_task_push(p)
    BY <1>1, <2>6, SMTT(60) DEF add_task_push, RestTypes
  <2>7. CASE add_task_reject(p)
    BY <1>1, <2>7, SMTT(60) DEF add_task_reject, Complete, NotifyCompletion, RestTypes
  <2> QED BY <1>6, <2>2, <2>3, <2>4, <2>5, <2>6, <2>7 DEF ProducerStep
<1>7. ASSUME NEW c \in Threads, WaitStep(c) PROVE RestTypes'
  <2>1. c \in WaitCallers
    BY <1>1, <1>7, WaitMoves
  <2>2. CASE wait_load(c)
    BY <1>1, <2>1, <2>2 DEF wait_load, RestTypes
  <2>3. CASE wait_test(c)
    BY <1>2, <2>3 DEF wait_test
  <2>4. CASE wait_sleep(c) \/ wait_wake(c) \/ wait_done(c)
    BY <1>1, <2>1, <2>4 DEF wait_sleep, wait_wake, wait_done, RestTypes
  <2> QED BY <1>7, <2>2, <2>3, <2>4 DEF WaitStep
<1>8. ASSUME NEW c \in Threads, LifecycleStep(c) PROVE RestTypes'
  <2>1. CASE shutdown_notify(c) \/ shutdown_join(c) \/ resize_open_notify(c)
    BY <1>1, <2>1 DEF shutdown_notify, shutdown_join, resize_open_notify, NotifyCompletion,
       RestTypes
  <2>2. CASE resize_pause(c) \/ resize_drain(c) \/ resize_open(c)
    BY <1>1, <2>2 DEF resize_pause, resize_drain, resize_open, OpenBarrier, RestTypes
  <2>3. CASE resize_stop(c) \/ resize_restart(c)
    BY <1>1, <2>3 DEF resize_stop, resize_restart, RestTypes
  <2>4. ASSUME NEW size \in Capacities, resize_join(c, size) PROVE RestTypes'
    BY <1>1, <2>4, ConstantsAssumption DEF resize_join, RestTypes
  <2> QED BY <1>8, <2>1, <2>2, <2>3, <2>4 DEF LifecycleStep
<1>9. CASE worker_function
  <2>1. CASE \/ worker_probe \/ worker_pop_failed \/ worker_task \/ worker_release
             \/ worker_check_empty \/ worker_check_stop
    BY <1>2, <2>1 DEF worker_probe, worker_pop_failed, worker_task, worker_release,
       worker_check_empty, worker_check_stop
  <2>2. CASE worker_pop \/ worker_check_idle
    BY <1>1, <2>2 DEF worker_pop, worker_check_idle, RestTypes
  <2>3. CASE worker_complete
    BY <1>1, <2>3, SMTT(60) DEF worker_complete, Complete, NotifyCompletion, RestTypes
  <2> QED BY <1>9, <2>1, <2>2, <2>3 DEF worker_function
<1>10. ASSUME NEW t \in Threads, spurious_wakeup(t) PROVE RestTypes'
  BY <1>1, <1>10 DEF spurious_wakeup, RestTypes
<1>11. CASE UNCHANGED vars
  BY <1>2, <1>11 DEF vars
<1> QED BY <1>2, <1>3, <1>4, <1>5, <1>6, <1>7, <1>8, <1>9, <1>10, <1>11, ConstantsAssumption DEF
           Next, ClientStep
-----------------------------------------------------------------------------
(* Counting threads by where they are *)

\* What the accounts below use of counting: a count is a number, it is zero when
\* nobody is there, and a thread that moves changes it by at most one.  It holds
\* in every step because the threads are finitely many (CountingThreads).
Counted ==
    \A S :
      /\ Cardinality(Inside(S)) \in Nat /\ Cardinality(Inside(S)') \in Nat
      /\ Cardinality(Inside(S)) = 0 => Inside(S) = {}
      /\ \A c \in Threads : \A l : GoTo(c, l) =>
          /\ (pc[c] \in S <=> l \in S) => Inside(S)' = Inside(S)
          /\ pc[c] \notin S /\ l \in S => Cardinality(Inside(S)') = Cardinality(Inside(S)) + 1
          /\ pc[c] \in S /\ l \notin S => Cardinality(Inside(S)') = Cardinality(Inside(S)) - 1

\* A count is a number.
LEMMA InsideFinite ==
    ASSUME Counted, NEW S
    PROVE  /\ Cardinality(Inside(S)) \in Nat /\ Cardinality(Inside(S)') \in Nat
           /\ Cardinality(Inside(S)) = 0 => Inside(S) = {}
BY DEF Counted

\* A move changes a count by at most one.
LEMMA InsideMove ==
    ASSUME Counted, NEW c \in Threads, NEW l, GoTo(c, l), NEW S
    PROVE  /\ (pc[c] \in S <=> l \in S) => Inside(S)' = Inside(S)
           /\ pc[c] \notin S /\ l \in S => Cardinality(Inside(S)') = Cardinality(Inside(S)) + 1
           /\ pc[c] \in S /\ l \notin S => Cardinality(Inside(S)') = Cardinality(Inside(S)) - 1
BY DEF Counted
-----------------------------------------------------------------------------
(* The completion frontier *)

\* Producers that hold a reserved submission outside the ring.
HoldingAt == {"loop", "push", "reject"}

InHand == IF pc[Worker] \in {"task", "complete"} THEN 1 ELSE 0

\* The numbers of CompletionAccounting.
LEMMA AccountNumbers ==
    ASSUME IInv, Counted
    PROVE  /\ m_submitted_tasks \in Nat /\ m_completed_tasks \in Nat
           /\ m_mpsc_queue \in Seq(Cells) /\ Len(m_mpsc_queue) \in Nat
           /\ Cardinality(Inside(HoldingAt)) \in Nat /\ InHand \in {0, 1}
           /\ m_submitted_tasks = m_completed_tasks + Len(m_mpsc_queue)
                                    + Cardinality(Inside(HoldingAt)) + InHand
<1>1. m_submitted_tasks \in Nat /\ m_completed_tasks \in Nat /\ m_mpsc_queue \in Seq(Cells)
  BY DEF IInv, TypeOK, Cells
<1>2. Len(m_mpsc_queue) \in Nat
  BY <1>1, SMTT(60)
<1>3. Cardinality(Inside(HoldingAt)) \in Nat
  BY InsideFinite
<1>4. InHand \in {0, 1}
  BY DEF InHand
<1>5. m_submitted_tasks = m_completed_tasks + Len(m_mpsc_queue)
                            + Cardinality(Inside(HoldingAt)) + InHand
  BY DEF IInv, CompletionAccounting, HoldingAt, InHand
<1> QED BY <1>1, <1>2, <1>3, <1>4, <1>5

\* When as many tasks are completed as were submitted, nothing is outstanding.
LEMMA NothingOutstanding ==
    ASSUME IInv, Counted, m_submitted_tasks <= m_completed_tasks
    PROVE  m_mpsc_queue = <<>> /\ task = 0 /\ finished = 1..accepted
<1>1. Len(m_mpsc_queue) = 0 /\ InHand = 0
  BY AccountNumbers, SMTT(60)
<1>2. m_mpsc_queue = <<>> /\ Queued = {}
  <2>1. m_mpsc_queue \in Seq(Cells)
    BY AccountNumbers
  <2>2. m_mpsc_queue = <<>>
    BY <1>1, <2>1, SMTT(60)
  <2> QED BY <2>2, SMTT(60) DEF Queued
<1>3. task = 0
  BY <1>1, SMTT(60) DEF IInv, WorkerInv, InHand
<1>4. finished = 1..accepted
  BY <1>2, <1>3 DEF IInv, OneFate, Running
<1> QED BY <1>2, <1>3, <1>4

\* What a producer does to the account.
LEMMA ProducerAccount ==
    ASSUME IInv, Counted, NEW p \in Threads, ProducerStep(p)
    PROVE  m_submitted_tasks' = m_completed_tasks' + Len(m_mpsc_queue')
                                 + Cardinality(Inside(HoldingAt)') + InHand'
<1> DEFINE held == Cardinality(Inside(HoldingAt))
           held2 == Cardinality(Inside(HoldingAt)')
<1>1. LocationInv /\ TypeOK /\ OneFate /\ InAcceptanceOrder /\ p \in Threads
  BY DEF IInv
<1>2. /\ m_submitted_tasks \in Nat /\ m_completed_tasks \in Nat
      /\ Len(m_mpsc_queue) \in Nat /\ held \in Nat /\ InHand \in {0, 1}
      /\ m_submitted_tasks = m_completed_tasks + Len(m_mpsc_queue) + held + InHand
  BY AccountNumbers
<1>3. InHand' = InHand /\ UNCHANGED workerVars
  BY <1>1, ClientFrame DEF InHand
<1>4. \A l : GoTo(p, l) =>
        /\ (pc[p] \in HoldingAt <=> l \in HoldingAt) => held2 = held
        /\ pc[p] \notin HoldingAt /\ l \in HoldingAt => held2 = held + 1
        /\ pc[p] \in HoldingAt /\ l \notin HoldingAt => held2 = held - 1
  BY <1>1, InsideMove
<1> HIDE DEF held, held2
<1> SUFFICES m_submitted_tasks' = m_completed_tasks' + Len(m_mpsc_queue') + held2 + InHand'
  BY DEF held2
<1>5. CASE /\ UNCHANGED <<m_submitted_tasks, m_completed_tasks>>
           /\ Len(m_mpsc_queue') = Len(m_mpsc_queue) /\ held2 = held
  BY <1>2, <1>3, <1>5
<1> USE DEF HoldingAt, ringVars, completionVars, producerVars
<1>6. CASE \/ enter_load(p) \/ resize_test(p) \/ resize_sleep(p) \/ resize_wake(p)
           \/ enter_fetch_add(p) \/ enter_recheck(p) \/ leave_producer_(p) \/ leave_check(p)
  <2>1. UNCHANGED <<m_submitted_tasks, m_completed_tasks, m_mpsc_queue>>
    BY <1>6 DEF enter_load, resize_test, resize_sleep, resize_wake, enter_fetch_add,
       enter_recheck, leave_producer_, leave_check
  <2>2. held2 = held
    BY <1>4, <1>6, SMTT(60) DEF enter_load, resize_test, resize_sleep, resize_wake,
       enter_fetch_add, enter_recheck, leave_producer_, leave_check
  <2> QED BY <1>5, <2>1, <2>2
<1>7. CASE add_task_reserve(p)
  <2>1. held2 = held + 1 /\ m_submitted_tasks' = m_submitted_tasks + 1
        /\ UNCHANGED <<m_completed_tasks, m_mpsc_queue>>
    BY <1>4, <1>7 DEF add_task_reserve, Reserve
  <2> QED BY <1>2, <1>3, <2>1, SMTT(60)
<1>8. CASE add_task_loop(p)
  BY <1>4, <1>5, <1>8 DEF add_task_loop
<1>9. CASE add_task_push(p)
  <2>1. UNCHANGED <<m_submitted_tasks, m_completed_tasks>> /\ pc[p] = "push"
    BY <1>9 DEF add_task_push
  <2>2. CASE UNCHANGED ringVars /\ \E l \in {"loop", "reject"} : GoTo(p, l)
    BY <1>4, <1>5, <2>1, <2>2
  <2>3. CASE /\ m_mpsc_queue' = Claimed(m_mpsc_queue, <<accepted + 1, p>>)
             /\ accepted' = accepted + 1 /\ GoTo(p, "publish")
    <3>1. Len(m_mpsc_queue') = Len(m_mpsc_queue) + 1
      BY <1>1, <1>3, <2>3, AcceptKeeps DEF workerVars
    <3>2. held2 = held - 1
      BY <1>4, <2>1, <2>3, SMTT(60)
    <3> QED BY <1>2, <1>3, <2>1, <3>1, <3>2, SMTT(60)
  <2> QED BY <1>9, <2>2, <2>3 DEF add_task_push
<1>10. CASE add_task_publish(p)
  <2>1. PICK item : m_mpsc_queue' = Published(m_mpsc_queue, item)
    BY <1>10 DEF add_task_publish
  <2>2. Len(m_mpsc_queue') = Len(m_mpsc_queue)
    BY <2>1, AccountNumbers, PublishLine
  <2>3. held2 = held /\ UNCHANGED <<m_submitted_tasks, m_completed_tasks>>
    BY <1>4, <1>10, SMTT(60) DEF add_task_publish
  <2> QED BY <1>5, <2>2, <2>3
<1>11. CASE add_task_reject(p)
  <2>1. UNCHANGED <<m_submitted_tasks, m_mpsc_queue>>
    BY <1>11 DEF add_task_reject
  <2>2. CASE pc[p] = "reject" /\ Complete(p, "reject_notify")
    <3>1. held2 = held - 1 /\ m_completed_tasks' = m_completed_tasks + 1
      BY <1>4, <2>2, SMTT(60) DEF Complete
    <3> QED BY <1>2, <1>3, <2>1, <3>1, SMTT(60)
  <2>3. CASE pc[p] = "reject_notify" /\ NotifyCompletion(p, "leave")
    BY <1>4, <1>5, <2>1, <2>3, SMTT(60) DEF NotifyCompletion
  <2> QED BY <1>11, <2>2, <2>3 DEF add_task_reject
<1> QED BY <1>6, <1>7, <1>8, <1>9, <1>10, <1>11 DEF ProducerStep

\* The completion frontier is exact.
LEMMA AccountKept == IInv /\ Counted /\ [Next]_vars => CompletionAccounting'
<1> SUFFICES ASSUME IInv, Counted, [Next]_vars
             PROVE  m_submitted_tasks' = m_completed_tasks' + Len(m_mpsc_queue')
                                           + Cardinality(Inside(HoldingAt)') + InHand'
  BY DEF CompletionAccounting, HoldingAt, InHand
<1> DEFINE held == Cardinality(Inside(HoldingAt))
           held2 == Cardinality(Inside(HoldingAt)')
<1>1. LocationInv /\ TypeOK /\ OneFate /\ InAcceptanceOrder /\ WorkerInv /\ ResizeInv
  BY DEF IInv
<1>2. /\ m_submitted_tasks \in Nat /\ m_completed_tasks \in Nat
      /\ Len(m_mpsc_queue) \in Nat /\ held \in Nat /\ InHand \in {0, 1}
      /\ m_submitted_tasks = m_completed_tasks + Len(m_mpsc_queue) + held + InHand
  BY AccountNumbers
<1>3. (\A c \in Threads : pc'[c] \in HoldingAt <=> pc[c] \in HoldingAt) => held2 = held
  BY DEF Inside
<1> HIDE DEF held, held2
<1> SUFFICES m_submitted_tasks' = m_completed_tasks' + Len(m_mpsc_queue') + held2 + InHand'
  BY DEF held2
<1>4. CASE /\ UNCHANGED <<m_submitted_tasks, m_completed_tasks>> /\ InHand' = InHand
           /\ Len(m_mpsc_queue') = Len(m_mpsc_queue) /\ held2 = held
  BY <1>2, <1>4
<1>5. CASE \E c \in Threads : ProducerStep(c)
  BY <1>5, ProducerAccount DEF held2
<1>6. CASE Call \/ \E c \in Threads : WaitStep(c)
  <2>1. UNCHANGED <<m_submitted_tasks, m_completed_tasks, m_mpsc_queue>>
    BY <1>6 DEF Call, add_task, wait, shutdown, set_max_queue_size, WaitStep, wait_load,
       wait_test, wait_sleep, wait_wake, wait_done, ringVars, completionVars, producerVars
  <2>2. PICK c \in Threads, l \in Locations \ HoldingAt : GoTo(c, l) /\ pc[c] \notin HoldingAt
    BY <1>1, <1>6, CallMoves, WaitMoves DEF HoldingAt, WaitLocations, Locations,
       ProducerLocations, LifecycleLocations
  <2>3. held2 = held
    BY <1>1, <1>3, <2>2 DEF GoTo, LocationInv
  <2>4. InHand' = InHand
    BY <1>1, <1>6, ClientFrame DEF InHand
  <2> QED BY <1>4, <2>1, <2>3, <2>4
<1>7. ASSUME NEW c \in Threads, LifecycleStep(c)
      PROVE  m_submitted_tasks' = m_completed_tasks' + Len(m_mpsc_queue') + held2 + InHand'
  <2>1. UNCHANGED <<m_submitted_tasks, m_completed_tasks>>
    BY <1>7 DEF LifecycleStep, shutdown_notify, shutdown_join, resize_pause, resize_drain,
       resize_stop, resize_join, resize_restart, resize_open, resize_open_notify,
       completionVars, producerVars, NotifyCompletion
  <2>2. /\ pc[c] \in LifecycleLocations /\ pc'[c] \in LifecycleLocations \cup {"idle"}
        /\ \A d \in Threads \ {c} : pc'[d] = pc[d]
    BY <1>1, <1>7, LifecycleMoves, RestartMoves, SMTT(60) DEF GoTo, LocationInv,
       LifecycleLocations
  <2>3. held2 = held
    BY <1>3, <2>2 DEF HoldingAt, LifecycleLocations
  <2>4. InHand' = InHand
    <3>1. CASE resize_restart(c)
      BY <1>1, <3>1, RestartMoves DEF InHand, ResizeInv
    <3>2. CASE ~resize_restart(c)
      BY <1>1, <1>7, <3>2, LifecycleMoves DEF InHand
    <3> QED BY <3>1, <3>2
  <2>5. Len(m_mpsc_queue') = Len(m_mpsc_queue)
    <3>1. ASSUME NEW size \in Capacities, resize_join(c, size)
          PROVE  Len(m_mpsc_queue') = Len(m_mpsc_queue)
      <4>1. m_submitted_tasks <= m_completed_tasks
        BY <1>1, <3>1 DEF resize_join, ResizeInv
      <4> QED BY <3>1, <4>1, NothingOutstanding DEF resize_join
    <3>2. CASE ~\E size \in Capacities : resize_join(c, size)
      <4>1. m_mpsc_queue' = m_mpsc_queue
        BY <1>7, <3>2 DEF LifecycleStep, shutdown_notify, shutdown_join, resize_pause,
           resize_drain, resize_stop, resize_restart, resize_open, resize_open_notify, ringVars
      <4> QED BY <4>1
    <3> QED BY <3>1, <3>2
  <2> QED BY <1>4, <2>1, <2>3, <2>4, <2>5
<1>8. CASE worker_function
  <2>1. held2 = held
    BY <1>1, <1>3, <1>8, WorkerMoves
  <2>2. pc \in [Threads \cup {Worker} -> Locations]
    BY <1>1 DEF LocationInv
  <2> USE <2>2 DEF InHand, GoTo, ringVars, completionVars, producerVars
  <2>3. CASE worker_pop
    <3>1. UNCHANGED <<m_submitted_tasks, m_completed_tasks, accepted, finished>>
      BY <2>3 DEF worker_pop
    <3>2. CASE CanPop(m_mpsc_queue)
      <4>1. m_mpsc_queue # <<>> /\ task = 0
        BY <1>1, <2>3, <3>2 DEF CanPop, worker_pop, WorkerInv
      <4>2. Len(m_mpsc_queue') = Len(m_mpsc_queue) - 1
        BY <1>1, <2>3, <3>1, <3>2, <4>1, StartKeeps DEF worker_pop
      <4>3. InHand = 0 /\ InHand' = 1
        BY <2>3, <3>2 DEF worker_pop
      <4> QED BY <1>2, <2>1, <3>1, <4>2, <4>3, SMTT(60)
    <3>3. CASE ~CanPop(m_mpsc_queue)
      <4>1. m_mpsc_queue' = m_mpsc_queue /\ InHand = 0 /\ InHand' = 0
        BY <2>3, <3>3 DEF worker_pop
      <4> QED BY <1>4, <2>1, <3>1, <4>1
    <3> QED BY <3>2, <3>3
  <2>4. CASE worker_complete
    <3>1. UNCHANGED <<m_submitted_tasks, m_mpsc_queue>>
      BY <2>4 DEF worker_complete
    <3>2. CASE pc[Worker] = "complete" /\ Complete(Worker, "complete_notify")
      <4>1. InHand = 1 /\ InHand' = 0 /\ m_completed_tasks' = m_completed_tasks + 1
        BY <3>2 DEF Complete
      <4> QED BY <1>2, <2>1, <3>1, <4>1, SMTT(60)
    <3>3. CASE pc[Worker] = "complete_notify" /\ NotifyCompletion(Worker, "release")
      <4>1. InHand = 0 /\ InHand' = 0 /\ m_completed_tasks' = m_completed_tasks
        BY <3>3 DEF NotifyCompletion
      <4> QED BY <1>4, <2>1, <3>1, <4>1
    <3> QED BY <2>4, <3>2, <3>3 DEF worker_complete
  <2>5. CASE \/ worker_probe \/ worker_pop_failed \/ worker_task \/ worker_release
             \/ worker_check_empty \/ worker_check_stop \/ worker_check_idle
    <3>1. UNCHANGED <<m_submitted_tasks, m_completed_tasks, m_mpsc_queue>> /\ InHand' = InHand
      BY <2>5 DEF worker_probe, worker_pop_failed, worker_task, worker_release,
         worker_check_empty, worker_check_stop, worker_check_idle
    <3> QED BY <1>4, <2>1, <3>1
  <2> QED BY <1>8, <2>3, <2>4, <2>5 DEF worker_function
<1>9. CASE Still
  <2>1. /\ UNCHANGED <<m_submitted_tasks, m_completed_tasks, m_mpsc_queue>>
        /\ InHand' = InHand /\ held2 = held
    BY <1>3, <1>9 DEF Still, InHand, ringVars
  <2> QED BY <1>4, <2>1
<1>10. \A c \in Threads : resize_restart(c) => LifecycleStep(c)
  BY DEF LifecycleStep
<1> QED BY <1>5, <1>6, <1>7, <1>8, <1>9, <1>10, StepKinds
-----------------------------------------------------------------------------
(* The producers inside add_task() *)

\* Producers counted in m_active_producers, and those past the second look.
AnnouncedAt ==
    {"recheck", "retry_leave", "reserve", "loop", "push", "publish", "reject",
     "reject_notify", "leave"}

BodyAt == {"reserve", "loop", "push", "publish", "reject", "reject_notify"}

\* ResizeBarrier in these terms, before and after a step.
LEMMA BarrierIs ==
    /\ ResizeBarrier <=> /\ m_active_producers = Cardinality(Inside(AnnouncedAt))
                         /\ Inside(BehindBarrier) # {} => Inside(BodyAt) = {}
    /\ ResizeBarrier' <=> /\ m_active_producers' = Cardinality(Inside(AnnouncedAt)')
                          /\ Inside(BehindBarrier)' # {} => Inside(BodyAt)' = {}
BY DEF ResizeBarrier, AnnouncedAt, BodyAt, BehindBarrier

\* What a producer does to the count and to the barrier.
LEMMA ProducerBarrier ==
    ASSUME IInv, Counted, NEW p \in Threads, ProducerStep(p)
    PROVE  ResizeBarrier'
<1> DEFINE n == Cardinality(Inside(AnnouncedAt))
           n2 == Cardinality(Inside(AnnouncedAt)')
<1>1. LocationInv /\ ResizeInv
  BY DEF IInv
<1>2. m_active_producers = n /\ n \in Nat /\ (Inside(BehindBarrier) # {} => Inside(BodyAt) = {})
  BY BarrierIs, InsideFinite DEF IInv
<1>3. \A l : GoTo(p, l) =>
        /\ (pc[p] \in AnnouncedAt <=> l \in AnnouncedAt) => n2 = n
        /\ pc[p] \notin AnnouncedAt /\ l \in AnnouncedAt => n2 = n + 1
        /\ pc[p] \in AnnouncedAt /\ l \notin AnnouncedAt => n2 = n - 1
  BY <1>1, InsideMove
<1>4. Inside(BehindBarrier)' = Inside(BehindBarrier)
  <2>1. \A d \in Threads :
          pc[d] \in LifecycleLocations \/ pc'[d] \in LifecycleLocations => pc'[d] = pc[d]
    BY <1>1, OutsideLifecycle
  <2> QED BY <2>1 DEF Inside, BehindBarrier, LifecycleLocations
<1>5. \A l : GoTo(p, l) /\ (l \in BodyAt => pc[p] \in BodyAt) => Inside(BodyAt)' \subseteq Inside(BodyAt)
  BY <1>1 DEF Inside, GoTo, LocationInv
<1> HIDE DEF n, n2
<1> SUFFICES /\ m_active_producers' = n2
             /\ Inside(BehindBarrier)' # {} => Inside(BodyAt)' = {}
  BY BarrierIs DEF n2
<1> USE DEF AnnouncedAt, BodyAt, producerVars
<1>6. CASE \/ enter_load(p) \/ resize_test(p) \/ resize_sleep(p) \/ resize_wake(p)
           \/ leave_check(p)
  <2>1. m_active_producers' = m_active_producers /\ pc[p] \notin AnnouncedAt
    BY <1>6 DEF enter_load, resize_test, resize_sleep, resize_wake, leave_check
  <2>2. \E l : GoTo(p, l) /\ l \notin AnnouncedAt /\ l \notin BodyAt
    BY <1>6, SMTT(60) DEF enter_load, resize_test, resize_sleep, resize_wake, leave_check
  <2>3. n2 = n /\ Inside(BodyAt)' \subseteq Inside(BodyAt)
    BY <1>3, <1>5, <2>1, <2>2
  <2> QED BY <1>2, <1>4, <2>1, <2>3
<1>10. CASE \/ add_task_reserve(p) \/ add_task_loop(p) \/ add_task_push(p)
            \/ add_task_publish(p) \/ add_task_reject(p)
  <2>1. m_active_producers' = m_active_producers /\ pc[p] \in BodyAt
    BY <1>10 DEF add_task_reserve, add_task_loop, add_task_push, add_task_publish, add_task_reject
  <2>2. \E l \in AnnouncedAt : GoTo(p, l)
    BY <1>10 DEF add_task_reserve, add_task_loop, add_task_push, add_task_publish,
       add_task_reject, Complete, NotifyCompletion
  <2>3. n2 = n /\ Inside(BodyAt)' \subseteq Inside(BodyAt)
    BY <1>3, <1>5, <2>1, <2>2
  <2> QED BY <1>2, <1>4, <2>1, <2>3
<1>7. CASE enter_fetch_add(p)
  <2>1. m_active_producers' = m_active_producers + 1 /\ n2 = n + 1
    BY <1>3, <1>7 DEF enter_fetch_add
  <2>2. Inside(BodyAt)' \subseteq Inside(BodyAt)
    BY <1>5, <1>7 DEF enter_fetch_add
  <2> QED BY <1>2, <1>4, <2>1, <2>2
<1>8. CASE leave_producer_(p)
  <2>1. m_active_producers' = m_active_producers - 1
    BY <1>8 DEF leave_producer_
  <2>2. \E l \in {"leave_check", "retry_check", "idle", "enter"} : GoTo(p, l)
    BY <1>8 DEF leave_producer_
  <2>3. n2 = n - 1 /\ Inside(BodyAt)' \subseteq Inside(BodyAt)
    BY <1>3, <1>5, <1>8, <2>2 DEF leave_producer_
  <2> QED BY <1>2, <1>4, <2>1, <2>3
<1>9. CASE enter_recheck(p)
  <2>1. m_active_producers' = m_active_producers /\ n2 = n
    BY <1>3, <1>9 DEF enter_recheck
  <2>2. CASE m_resizing
    <3>1. Inside(BodyAt)' \subseteq Inside(BodyAt)
      BY <1>5, <1>9, <2>2 DEF enter_recheck, MayEnter
    <3> QED BY <1>2, <1>4, <2>1, <3>1
  <2>3. CASE ~m_resizing
    <3>1. Inside(BehindBarrier) = {}
      BY <1>1, <2>3 DEF ResizeInv, Inside, BehindBarrier
    <3> QED BY <1>2, <1>4, <2>1, <3>1
  <2> QED BY <2>2, <2>3
<1> QED BY <1>6, <1>7, <1>8, <1>9, <1>10 DEF ProducerStep

\* The count of producers, and the barrier of a resize.
LEMMA BarrierKept == IInv /\ Counted /\ [Next]_vars => ResizeBarrier'
<1> SUFFICES ASSUME IInv, Counted, [Next]_vars PROVE ResizeBarrier'
  OBVIOUS
<1>1. LocationInv /\ ResizeInv
  BY DEF IInv
<1>2. /\ m_active_producers = Cardinality(Inside(AnnouncedAt))
      /\ Inside(BehindBarrier) # {} => Inside(BodyAt) = {}
  BY BarrierIs DEF IInv
<1>3. \A c \in Threads : ProducerStep(c) => ResizeBarrier'
  BY ProducerBarrier
<1>4. CASE /\ m_active_producers' = m_active_producers
           /\ Inside(AnnouncedAt)' = Inside(AnnouncedAt)
           /\ Inside(BodyAt)' = Inside(BodyAt)
           /\ Inside(BehindBarrier)' \subseteq Inside(BehindBarrier) \/ Inside(BodyAt) = {}
  BY <1>2, <1>4, BarrierIs
<1>5. CASE worker_function \/ Still
  <2>1. \A c \in Threads : pc'[c] = pc[c]
    BY <1>1, <1>5, WorkerMoves DEF Still
  <2>2. m_active_producers' = m_active_producers
    BY <1>5 DEF Still, worker_function, worker_probe, worker_pop, worker_pop_failed,
       worker_task, worker_complete, worker_release, worker_check_empty, worker_check_stop,
       worker_check_idle, producerVars
  <2>3. \A S : Inside(S)' = Inside(S)
    BY <2>1 DEF Inside
  <2> QED BY <1>4, <2>2, <2>3
<1>6. ASSUME NEW c \in Threads, NEW l \in {"idle", "enter", "shutdown_notify", "pause"} \cup WaitLocations,
             GoTo(c, l), pc[c] = "idle" \/ pc[c] \in WaitLocations,
             m_active_producers' = m_active_producers
      PROVE  ResizeBarrier'
  <2>1. ASSUME NEW S \in {AnnouncedAt, BodyAt, BehindBarrier} PROVE Inside(S)' = Inside(S)
    <3>1. pc[c] \notin S /\ l \notin S
      BY <1>6 DEF AnnouncedAt, BodyAt, BehindBarrier, WaitLocations
    <3> QED BY <1>1, <1>6, <3>1, InsideMove
  <2> QED BY <1>4, <1>6, <2>1
<1>7. CASE Call \/ \E c \in Threads : WaitStep(c)
  <2>1. m_active_producers' = m_active_producers
    BY <1>7 DEF Call, add_task, wait, shutdown, set_max_queue_size, WaitStep, wait_load,
       wait_test, wait_sleep, wait_wake, wait_done, producerVars
  <2>2. \E c \in Threads, l \in {"idle", "enter", "shutdown_notify", "pause"} \cup WaitLocations :
          GoTo(c, l) /\ (pc[c] = "idle" \/ pc[c] \in WaitLocations)
    <3>1. "wait_load" \in WaitLocations
      BY DEF WaitLocations
    <3> QED BY <1>1, <1>7, <3>1, CallMoves, WaitMoves
  <2> QED BY <1>6, <2>1, <2>2
<1>8. ASSUME NEW c \in Threads, LifecycleStep(c) PROVE ResizeBarrier'
  <2>1. m_active_producers' = m_active_producers
    BY <1>8 DEF LifecycleStep, shutdown_notify, shutdown_join, resize_pause, resize_drain,
       resize_stop, resize_join, resize_restart, resize_open, resize_open_notify, producerVars
  <2>2. /\ pc[c] \in LifecycleLocations /\ pc'[c] \in LifecycleLocations \cup {"idle"}
        /\ \A d \in Threads \ {c} : pc'[d] = pc[d]
    BY <1>1, <1>8, LifecycleMoves, RestartMoves, SMTT(60) DEF GoTo, LocationInv,
       LifecycleLocations
  <2>3. Inside(AnnouncedAt)' = Inside(AnnouncedAt) /\ Inside(BodyAt)' = Inside(BodyAt)
    BY <2>2, SMTT(60) DEF Inside, AnnouncedAt, BodyAt, LifecycleLocations
  <2>4. CASE pc[c] = "pause" /\ m_active_producers = 0
    <3>1. Inside(AnnouncedAt) = {}
      BY <1>2, <2>4, InsideFinite
    <3>2. Inside(BodyAt) = {}
      BY <3>1 DEF Inside, AnnouncedAt, BodyAt
    <3> QED BY <1>4, <2>1, <2>3, <3>2
  <2>5. CASE ~(pc[c] = "pause" /\ m_active_producers = 0)
    <3>1. pc'[c] \in BehindBarrier => pc[c] \in BehindBarrier
      BY <1>1, <1>8, <2>5 DEF LifecycleStep, shutdown_notify, shutdown_join, resize_pause,
         resize_drain, resize_stop, resize_join, resize_restart, resize_open,
         resize_open_notify, NotifyCompletion, OpenBarrier, GoTo, BehindBarrier, LocationInv
    <3>2. Inside(BehindBarrier)' \subseteq Inside(BehindBarrier)
      BY <2>2, <3>1 DEF Inside
    <3> QED BY <1>4, <2>1, <2>3, <3>2
  <2> QED BY <2>4, <2>5
<1>9. \A c \in Threads : resize_restart(c) => LifecycleStep(c)
  BY DEF LifecycleStep
<1> QED BY <1>3, <1>5, <1>7, <1>8, <1>9, StepKinds
-----------------------------------------------------------------------------
(* Tickets *)

\* What a step may do to the tasks: nothing, accept, start or finish one.
Accepts ==
    /\ \E p \in Threads : m_mpsc_queue' = Claimed(m_mpsc_queue, <<accepted + 1, p>>)
    /\ accepted' = accepted + 1
    /\ UNCHANGED <<task, finished>>

Starts ==
    /\ m_mpsc_queue # <<>> /\ task = 0
    /\ task' = Head(m_mpsc_queue).item[1] /\ m_mpsc_queue' = Tail(m_mpsc_queue)
    /\ UNCHANGED <<accepted, finished>>

Finishes ==
    /\ task # 0
    /\ finished' = finished \cup {task} /\ task' = 0
    /\ UNCHANGED <<m_mpsc_queue, accepted>>

LeavesTasks ==
    /\ m_mpsc_queue' \in Seq(Cells) /\ Line' = Line
    /\ UNCHANGED <<accepted, task, finished>>

\* Every step of the executor is one of these four; a resize leaves the tasks alone.
LEMMA StepIsTaskStep ==
    ASSUME IInv, Counted, [Next]_vars
    PROVE  Accepts \/ Starts \/ Finishes \/ LeavesTasks
<1>1. LocationInv /\ WorkerInv /\ ResizeInv /\ m_mpsc_queue \in Seq(Cells)
  BY DEF IInv, TypeOK, Cells
<1>2. CASE UNCHANGED <<m_mpsc_queue, accepted, task, finished>>
  BY <1>1, <1>2 DEF LeavesTasks, Line
<1> USE DEF ringVars, workerVars
<1>3. CASE Still \/ Call \/ \E c \in Threads : WaitStep(c)
  BY <1>2, <1>3 DEF Still, Call, add_task, wait, shutdown, set_max_queue_size, WaitStep,
     wait_load, wait_test, wait_sleep, wait_wake, wait_done
<1>4. ASSUME NEW p \in Threads, ProducerStep(p)
      PROVE  Accepts \/ Starts \/ Finishes \/ LeavesTasks
  <2>1. CASE add_task_push(p)
    BY <1>2, <2>1 DEF add_task_push, Accepts
  <2>2. CASE add_task_publish(p)
    <3>1. PICK item : m_mpsc_queue' = Published(m_mpsc_queue, item)
      BY <2>2 DEF add_task_publish
    <3>2. m_mpsc_queue' \in Seq(Cells) /\ Line' = Line
      BY <1>1, <3>1, PublishLine DEF Line
    <3> QED BY <2>2, <3>2 DEF add_task_publish, LeavesTasks
  <2>3. CASE ~add_task_push(p) /\ ~add_task_publish(p)
    BY <1>2, <1>4, <2>3 DEF ProducerStep, enter_load, resize_test, resize_sleep, resize_wake,
       enter_fetch_add, enter_recheck, leave_producer_, leave_check, add_task_reserve,
       add_task_loop, add_task_reject
  <2> QED BY <2>1, <2>2, <2>3
<1>5. ASSUME NEW c \in Threads, LifecycleStep(c)
      PROVE  Accepts \/ Starts \/ Finishes \/ LeavesTasks
  <2>1. ASSUME NEW size \in Capacities, resize_join(c, size)
        PROVE  UNCHANGED <<m_mpsc_queue, accepted, task, finished>>
    <3>1. m_submitted_tasks <= m_completed_tasks
      BY <1>1, <2>1 DEF resize_join, ResizeInv
    <3> QED BY <2>1, <3>1, NothingOutstanding DEF resize_join
  <2>2. CASE ~\E size \in Capacities : resize_join(c, size)
    BY <1>2, <1>5, <2>2 DEF LifecycleStep, shutdown_notify, shutdown_join, resize_pause,
       resize_drain, resize_stop, resize_restart, resize_open, resize_open_notify
  <2> QED BY <1>2, <2>1, <2>2
<1>6. CASE worker_function
  <2>1. CASE worker_pop
    <3>1. task = 0
      BY <1>1, <2>1 DEF worker_pop, WorkerInv
    <3> QED BY <1>2, <2>1, <3>1 DEF worker_pop, CanPop, Starts
  <2>2. CASE worker_task
    <3>1. task # 0
      BY <1>1, <2>2 DEF worker_task, WorkerInv
    <3> QED BY <2>2, <3>1 DEF worker_task, Finishes
  <2>3. CASE ~worker_pop /\ ~worker_task
    BY <1>2, <1>6, <2>3 DEF worker_function, worker_probe, worker_pop_failed, worker_complete,
       worker_release, worker_check_empty, worker_check_stop, worker_check_idle
  <2> QED BY <2>1, <2>2, <2>3
<1>7. \A c \in Threads : resize_restart(c) => LifecycleStep(c)
  BY DEF LifecycleStep
<1> QED BY <1>3, <1>4, <1>5, <1>6, <1>7, StepKinds

\* Every ticket stays in one place, and the order is kept.
LEMMA FateKept ==
    ASSUME IInv, Counted, [Next]_vars
    PROVE  /\ OneFate' /\ InAcceptanceOrder'
           /\ m_mpsc_queue' \in Seq(Cells)
           /\ task' \in Nat /\ accepted' \in Nat /\ accepted <= accepted' /\ finished' \subseteq Nat
<1>1. TypeOK /\ OneFate /\ InAcceptanceOrder /\ m_mpsc_queue \in Seq(Cells)
      /\ task \in Nat /\ accepted \in Nat /\ finished \subseteq Nat
  BY DEF IInv, TypeOK, Cells
<1>2. CASE Accepts
  BY <1>1, <1>2, AcceptKeeps, SMTT(60) DEF Accepts
<1>3. CASE Starts
  BY <1>1, <1>3, StartKeeps, SMTT(60) DEF Starts
<1>4. CASE Finishes
  BY <1>1, <1>4, FinishKeeps, SMTT(60) DEF Finishes
<1>5. CASE LeavesTasks
  BY <1>1, <1>5, SamePlaces, SMTT(60) DEF LeavesTasks
<1> QED BY <1>2, <1>3, <1>4, <1>5, StepIsTaskStep

\* What wait() saw was accepted.
LEMMA SeenKept == IInv /\ Counted /\ [Next]_vars => SeenInv' /\ seen' \in [Threads -> Nat]
<1> SUFFICES ASSUME IInv, Counted, [Next]_vars PROVE SeenInv' /\ seen' \in [Threads -> Nat]
  OBVIOUS
<1>1. accepted \in Nat /\ seen \in [Threads -> Nat] /\ \A c \in Threads : seen[c] <= accepted
  BY DEF IInv, TypeOK, SeenInv
<1>2. accepted' \in Nat /\ accepted <= accepted'
  BY FateKept
<1>3. CASE seen' = seen
  <2>1. \A c \in Threads : seen[c] <= accepted'
    <3> SUFFICES ASSUME NEW c \in Threads PROVE seen[c] <= accepted'
      OBVIOUS
    <3>1. seen[c] \in Nat /\ seen[c] <= accepted
      BY <1>1
    <3> QED BY <1>1, <1>2, <3>1, SMTT(60)
  <2> QED BY <1>1, <1>3, <2>1 DEF SeenInv
<1>4. ASSUME NEW c \in WaitCallers, wait(c) PROVE SeenInv' /\ seen' \in [Threads -> Nat]
  <2>1. seen' = [seen EXCEPT ![c] = accepted] /\ accepted' = accepted
    BY <1>4 DEF wait, ringVars
  <2>2. \A d \in Threads : seen'[d] = IF d = c THEN accepted ELSE seen[d]
    BY <1>1, <2>1
  <2>3. seen' \in [Threads -> Nat]
    BY <1>1, <2>1
  <2>4. \A d \in Threads : seen'[d] <= accepted
    <3> SUFFICES ASSUME NEW d \in Threads PROVE seen'[d] <= accepted
      OBVIOUS
    <3>1. CASE d = c
      BY <1>1, <2>2, <3>1, SMTT(60)
    <3>2. CASE d # c
      BY <1>1, <2>2, <3>2
    <3> QED BY <3>1, <3>2
  <2> QED BY <2>1, <2>3, <2>4 DEF SeenInv
<1>5. ASSUME ~\E c \in WaitCallers : wait(c) PROVE seen' = seen
  <2> USE DEF waitVars
  <2>1. CASE Call \/ Still
    BY <1>5, <2>1 DEF Call, add_task, shutdown, set_max_queue_size, Still
  <2>2. ASSUME NEW p \in Threads, ProducerStep(p) PROVE seen' = seen
    BY <2>2 DEF ProducerStep, enter_load, resize_test, resize_sleep, resize_wake,
       enter_fetch_add, enter_recheck, leave_producer_, leave_check, add_task_reserve,
       add_task_loop, add_task_push, add_task_publish, add_task_reject
  <2>3. ASSUME NEW c \in Threads, WaitStep(c) PROVE seen' = seen
    BY <2>3 DEF WaitStep, wait_load, wait_test, wait_sleep, wait_wake, wait_done
  <2>4. ASSUME NEW c \in Threads, LifecycleStep(c) PROVE seen' = seen
    BY <2>4 DEF LifecycleStep, shutdown_notify, shutdown_join, resize_pause, resize_drain,
       resize_stop, resize_join, resize_restart, resize_open, resize_open_notify
  <2>5. CASE worker_function
    BY <2>5 DEF worker_function, worker_probe, worker_pop, worker_pop_failed, worker_task,
       worker_complete, worker_release, worker_check_empty, worker_check_stop, worker_check_idle
  <2>6. \A c \in Threads : resize_restart(c) => LifecycleStep(c)
    BY DEF LifecycleStep
  <2> QED BY <2>1, <2>2, <2>3, <2>4, <2>5, <2>6, StepKinds
<1> QED BY <1>3, <1>4, <1>5
-----------------------------------------------------------------------------
(* Theorems *)

INSTANCE FiniteSetTheorems

\* The threads are finitely many, so Counted holds in every step.
LEMMA CountingThreads == LocationInv => Counted
<1> SUFFICES ASSUME LocationInv, NEW S
             PROVE  /\ Cardinality(Inside(S)) \in Nat /\ Cardinality(Inside(S)') \in Nat
                    /\ Cardinality(Inside(S)) = 0 => Inside(S) = {}
                    /\ \A c \in Threads : \A l : GoTo(c, l) =>
                        /\ (pc[c] \in S <=> l \in S) => Inside(S)' = Inside(S)
                        /\ pc[c] \notin S /\ l \in S =>
                            Cardinality(Inside(S)') = Cardinality(Inside(S)) + 1
                        /\ pc[c] \in S /\ l \notin S =>
                            Cardinality(Inside(S)') = Cardinality(Inside(S)) - 1
  BY DEF Counted
<1>1. Inside(S) \subseteq Threads /\ Inside(S)' \subseteq Threads /\ IsFiniteSet(Threads)
  BY ConstantsAssumption DEF Inside
<1>2. IsFiniteSet(Inside(S)) /\ IsFiniteSet(Inside(S)')
  BY <1>1, FS_Subset
<1>3. Cardinality(Inside(S)) \in Nat /\ Cardinality(Inside(S)') \in Nat
  BY <1>2, FS_CardinalityType
<1>4. Cardinality(Inside(S)) = 0 => Inside(S) = {}
  BY <1>2, FS_EmptySet
<1>5. ASSUME NEW c \in Threads, NEW l, GoTo(c, l)
      PROVE  /\ (pc[c] \in S <=> l \in S) => Inside(S)' = Inside(S)
             /\ pc[c] \notin S /\ l \in S => Cardinality(Inside(S)') = Cardinality(Inside(S)) + 1
             /\ pc[c] \in S /\ l \notin S => Cardinality(Inside(S)') = Cardinality(Inside(S)) - 1
  <2>1. pc'[c] = l /\ \A t \in Threads : t # c => pc'[t] = pc[t]
    BY <1>5 DEF GoTo, LocationInv
  <2>2. CASE pc[c] \in S <=> l \in S
    BY <2>1, <2>2 DEF Inside
  <2>3. CASE pc[c] \notin S /\ l \in S
    <3>1. Inside(S)' = Inside(S) \cup {c} /\ c \notin Inside(S)
      BY <2>1, <2>3 DEF Inside
    <3>2. Cardinality(Inside(S) \cup {c}) = Cardinality(Inside(S)) + 1
      BY <1>2, <3>1, FS_AddElement
    <3> QED BY <2>3, <3>1, <3>2
  <2>4. CASE pc[c] \in S /\ l \notin S
    <3>1. Inside(S)' = Inside(S) \ {c} /\ c \in Inside(S)
      BY <2>1, <2>4 DEF Inside
    <3>2. Cardinality(Inside(S) \ {c}) = Cardinality(Inside(S)) - 1
      BY <1>2, <3>1, FS_RemoveElement
    <3> QED BY <2>4, <3>1, <3>2
  <2> QED BY <2>2, <2>3, <2>4
<1> QED BY <1>3, <1>4, <1>5

\* The inductive invariant is kept by every step.
LEMMA IInvKept == IInv /\ [Next]_vars => IInv'
<1> SUFFICES ASSUME IInv, [Next]_vars PROVE IInv'
  OBVIOUS
<1>0. Counted
  BY CountingThreads DEF IInv
<1>1. LocationInv' /\ WorkerInv' /\ ResizeInv' /\ CompletionAccounting' /\ ResizeBarrier'
  BY LocationKept, WorkerKept, ResizeKept, AccountKept, BarrierKept, <1>0 DEF IInv
<1>2. /\ OneFate' /\ InAcceptanceOrder' /\ m_mpsc_queue' \in Seq(Cells)
      /\ task' \in Nat /\ accepted' \in Nat /\ finished' \subseteq Nat
  BY <1>0, FateKept
<1>3. SeenInv' /\ seen' \in [Threads -> Nat] /\ RestTypes'
  BY <1>0, SeenKept, RestTypesKept
<1>4. m_active_producers' \in Nat
  BY <1>0, <1>1, BarrierIs, InsideFinite
<1>5. m_active_tasks' \in {0, 1}
  BY <1>1 DEF WorkerInv
<1>6. TypeOK'
  BY <1>2, <1>3, <1>4, <1>5 DEF TypeOK, RestTypes, Cells
<1> QED BY <1>1, <1>2, <1>3, <1>6 DEF IInv

\* The initial state satisfies the inductive invariant.
LEMMA InitIInv == Init => IInv
<1> SUFFICES ASSUME Init PROVE IInv
  OBVIOUS
<1>1. \A c \in Threads : pc[c] = "idle"
  BY ConstantsAssumption DEF Init
<1>2. pc[Worker] = "probe"
  BY DEF Init
<1>3. \A S : "idle" \notin S => Inside(S) = {}
  BY <1>1 DEF Inside
<1>4. Cardinality({}) = 0
  BY FS_EmptySet
<1>5. LocationInv
  <2>1. pc \in [Threads \cup {Worker} -> Locations]
    BY DEF Init, Locations, WorkerLocations
  <2> QED BY <1>1, <1>2, <2>1 DEF LocationInv, ProducerLocations, WaitLocations, WorkerLocations
<1>6. WorkerInv /\ SeenInv
  BY <1>2, SMTT(60) DEF Init, WorkerInv, SeenInv
<1>7. ResizeInv
  BY <1>1 DEF Init, ResizeInv, LifecycleLocations
<1>8. CompletionAccounting
  <2>1. Cardinality(Inside({"loop", "push", "reject"})) = 0
    BY <1>3, <1>4
  <2>2. m_mpsc_queue = <<>> /\ m_submitted_tasks = 0 /\ m_completed_tasks = 0
    BY DEF Init
  <2> QED BY <1>2, <2>1, <2>2, SMTT(60) DEF CompletionAccounting
<1>9. ResizeBarrier
  <2>1. "idle" \notin AnnouncedAt /\ "idle" \notin BodyAt /\ "idle" \notin BehindBarrier
    BY DEF AnnouncedAt, BodyAt, BehindBarrier
  <2>2. Inside(AnnouncedAt) = {} /\ Inside(BodyAt) = {} /\ Inside(BehindBarrier) = {}
    BY <1>3, <2>1
  <2>3. m_active_producers = 0
    BY DEF Init
  <2> QED BY <1>4, <2>2, <2>3, BarrierIs
<1>10. OneFate /\ InAcceptanceOrder
  <2>1. m_mpsc_queue = <<>> /\ task = 0 /\ finished = {} /\ accepted = 0
    BY DEF Init
  <2>2. Queued = {} /\ Running = {} /\ m_mpsc_queue \in Seq(Cells)
    BY <2>1, SMTT(60) DEF Queued, Running
  <2>3. Line = <<>>
    BY <2>1, <2>2, LineFacts DEF Line
  <2> QED BY <2>1, <2>2, <2>3, EmptyQueue, SMTT(60) DEF OneFate, InAcceptanceOrder
<1>11. TypeOK
  <2>1. /\ policy \in [Threads -> QueuePolicy]
        /\ target \in [Threads -> Nat] /\ seen \in [Threads -> Nat]
    BY DEF Init, QueuePolicy
  <2>2. m_mpsc_queue \in Seq([item : Nat \X Threads, published : BOOLEAN])
    BY SMTT(60) DEF Init
  <2>3. /\ {m_stop_flag, m_resizing, drained_any, closing} \subseteq BOOLEAN
        /\ {m_dropped_tasks, m_active_producers, m_submitted_tasks, m_completed_tasks,
            task, accepted} \subseteq Nat
    <3>1. /\ m_stop_flag = FALSE /\ m_resizing = FALSE /\ drained_any = FALSE /\ closing = FALSE
          /\ m_dropped_tasks = 0 /\ m_active_producers = 0 /\ m_submitted_tasks = 0
          /\ m_completed_tasks = 0 /\ task = 0 /\ accepted = 0
      BY DEF Init
    <3>2. {m_stop_flag, m_resizing, drained_any, closing} \subseteq BOOLEAN
      BY <3>1
    <3>3. {m_dropped_tasks, m_active_producers, m_submitted_tasks, m_completed_tasks,
           task, accepted} \subseteq Nat
      BY <3>1, SMTT(60)
    <3> QED BY <3>2, <3>3
  <2> QED BY <2>1, <2>2, <2>3 DEF Init, TypeOK, QueuePolicy
<1> QED BY <1>5, <1>6, <1>7, <1>8, <1>9, <1>10, <1>11 DEF IInv

\* The inductive invariant holds in every reachable state.
THEOREM Invariance == Spec => []IInv
BY InitIInv, IInvKept, PTL DEF Spec

\* The counters of the lock-free executor are exact, however many threads add,
\* wait, resize and shut down: m_submitted_tasks, m_completed_tasks and
\* m_active_producers count what they are meant to, and no producer is past the
\* second look at m_resizing while a resize works behind the barrier.
THEOREM SafetyHolds == Spec => []Safety
<1>1. IInv => Safety
  BY DEF IInv, Safety
<1> QED BY <1>1, Invariance, PTL

\* An accepted task is in the ring, in the worker's hands or executed, never two
\* of them, also across resizes.
THEOREM TasksHaveOneFate == Spec => []OneFate
<1>1. IInv => OneFate
  BY DEF IInv
<1> QED BY <1>1, Invariance, PTL

\* When wait() returns, every task accepted before the call was executed, unless
\* shutdown() was called; the stop flag of a resize is raised only when nothing
\* is outstanding.
THEOREM WaitKeepsItsPromise == Spec => WaitContract
<1>1. ASSUME IInv, [Next]_vars
      PROVE  [\A c \in Threads : pc[c] = "wait_done" /\ pc'[c] = "idle" =>
                closing \/ 1..seen[c] \subseteq finished]_vars
  <2> SUFFICES ASSUME NEW c \in Threads, pc[c] = "wait_done", pc'[c] = "idle", ~closing
               PROVE  1..seen[c] \subseteq finished
    OBVIOUS
  <2>1. LocationInv /\ ResizeInv /\ SeenInv
    BY <1>1 DEF IInv
  <2>2. wait_done(c)
    <3>1. ASSUME NEW d \in Threads, NEW m, GoTo(d, m), pc[d] # "wait_done" PROVE FALSE
      BY <2>1, <3>1 DEF GoTo, LocationInv
    <3>2. CASE \E d \in Threads : WaitStep(d)
      <4>1. PICK d \in Threads : WaitStep(d)
        BY <3>2
      <4>2. d = c
        BY <2>1, <4>1, WaitMoves DEF GoTo, LocationInv
      <4> QED BY <4>1, <4>2 DEF WaitStep, wait_load, wait_test, wait_sleep, wait_wake
    <3>3. ~Still /\ ~worker_function
      BY <2>1, WorkerMoves DEF Still
    <3>4. ~Call
      BY <2>1, <3>1, CallMoves
    <3>5. \A d \in Threads : ~ProducerStep(d)
      BY <2>1, <3>1, ProducerMoves DEF ProducerLocations
    <3>6. \A d \in Threads : ~(LifecycleStep(d) /\ ~resize_restart(d))
      BY <2>1, <3>1, LifecycleMoves DEF LifecycleLocations
    <3>7. \A d \in Threads : ~resize_restart(d)
      BY <2>1, RestartMoves
    <3> QED BY <1>1, <3>2, <3>3, <3>4, <3>5, <3>6, <3>7, StepKinds
  <2>3. m_submitted_tasks \in Nat /\ m_completed_tasks \in Nat /\ accepted \in Nat
        /\ seen[c] \in Nat /\ seen[c] <= accepted
    BY <1>1, <2>1 DEF IInv, TypeOK, SeenInv
  <2>4. m_stop_flag \/ m_completed_tasks >= m_submitted_tasks
    BY <2>1, <2>2 DEF wait_done, FrontierReached, GoTo, LocationInv
  <2>5. m_submitted_tasks <= m_completed_tasks
    BY <2>1, <2>3, <2>4 DEF ResizeInv
  <2>6. finished = 1..accepted
    BY <1>1, <2>1, <2>5, NothingOutstanding, CountingThreads
  <2> QED BY <2>3, <2>6, SMTT(60)
<1> QED BY <1>1, Invariance, PTL DEF Spec, WaitContract

\* TaskExecutorMpsc implements FifoExecutor: ring, counters, barrier and resizes
\* are invisible to the clients.
THEOREM Refinement == Spec => ImplementsFifoExecutor
<1>1. Init => Abstract!Init
  BY SMTT(60) DEF Init, Abstract!Init, Queued
<1>2. ASSUME IInv, [Next]_vars
      PROVE  [Abstract!Next]_(Abstract!abstractVars)
  <2> USE DEF Abstract!Next, Abstract!abstractVars
  <2>1. TypeOK /\ OneFate /\ InAcceptanceOrder /\ Counted
    BY <1>2, CountingThreads DEF IInv
  <2>2. CASE Accepts
    <3>1. Queued' = Queued \cup {accepted + 1}
      BY <2>1, <2>2, AcceptKeeps DEF Accepts
    <3> QED BY <2>2, <3>1 DEF Accepts, Abstract!Accept
  <2>3. CASE Starts
    <3>1. task' \in Queued /\ (\A u \in Queued : task' <= u) /\ Queued' = Queued \ {task'}
      BY <2>1, <2>3, StartKeeps DEF Starts
    <3> QED BY <2>3, <3>1 DEF Starts, Abstract!Start, Abstract!Oldest
  <2>4. CASE Finishes
    BY <2>4 DEF Finishes, Abstract!Finish, Queued
  <2>5. CASE LeavesTasks
    <3>1. Queued' = Queued
      BY <2>1, <2>5, SamePlaces DEF LeavesTasks
    <3> QED BY <2>5, <3>1 DEF LeavesTasks
  <2> QED BY <1>2, <2>1, <2>2, <2>3, <2>4, <2>5, StepIsTaskStep
<1> QED BY <1>1, <1>2, Invariance, PTL DEF Spec, ImplementsFifoExecutor, Abstract!Spec
=============================================================================
