---------------------------- MODULE FifoExecutor ----------------------------
(***************************************************************************)
(* What a task executor of this library promises its clients, without the  *)
(* locks, condition variables, rings and threads that realise it.          *)
(*                                                                         *)
(* Every accepted task gets a ticket: its position in the order of         *)
(* acceptance.  One worker runs the tasks one at a time, always the oldest *)
(* pending one; the DropOldest policy may discard the oldest pending task  *)
(* in favour of a new one; a closed executor accepts nothing and may only  *)
(* drain.  SingleThreadExecutor, TaskExecutorDeque and TaskExecutorMpsc    *)
(* are shown to implement this module.                                     *)
(***************************************************************************)
EXTENDS Naturals

VARIABLES
    accepted,   \* number of tickets handed out
    pending,    \* tickets accepted and not yet started
    running,    \* the ticket being executed, 0 if none
    finished,   \* tickets whose task was executed
    evicted,    \* tickets discarded after they had been accepted
    closed      \* shutdown was requested

abstractVars == <<accepted, pending, running, finished, evicted, closed>>

Oldest(t) == t \in pending /\ \A u \in pending : t <= u

Init ==
    /\ accepted = 0
    /\ pending = {}
    /\ running = 0
    /\ finished = {}
    /\ evicted = {}
    /\ closed = FALSE

Accept ==
    /\ ~closed
    /\ accepted' = accepted + 1
    /\ pending' = pending \cup {accepted + 1}
    /\ UNCHANGED <<running, finished, evicted, closed>>

\* DropOldest: the oldest pending task makes room for the new one.
EvictAndAccept ==
    /\ ~closed
    /\ \E t \in pending :
        /\ Oldest(t)
        /\ pending' = (pending \ {t}) \cup {accepted + 1}
        /\ evicted' = evicted \cup {t}
    /\ accepted' = accepted + 1
    /\ UNCHANGED <<running, finished, closed>>

Start ==
    /\ running = 0
    /\ \E t \in pending :
        /\ Oldest(t)
        /\ running' = t
        /\ pending' = pending \ {t}
    /\ UNCHANGED <<accepted, finished, evicted, closed>>

Finish ==
    /\ running # 0
    /\ finished' = finished \cup {running}
    /\ running' = 0
    /\ UNCHANGED <<accepted, pending, evicted, closed>>

Close ==
    /\ closed' = TRUE
    /\ UNCHANGED <<accepted, pending, running, finished, evicted>>

Next == Accept \/ EvictAndAccept \/ Start \/ Finish \/ Close

Spec == Init /\ [][Next]_abstractVars
=============================================================================
