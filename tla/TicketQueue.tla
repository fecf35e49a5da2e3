---------------------------- MODULE TicketQueue -----------------------------
(* Queues of tickets: the tickets a queue holds, and a queue in ticket order. *)
EXTENDS Naturals, Sequences

Tickets(q) == {q[i] : i \in 1..Len(q)}

Increasing(q) == \A i, j \in 1..Len(q) : i < j => q[i] < q[j]
=============================================================================
