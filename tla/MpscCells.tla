----------------------------- MODULE MpscCells ------------------------------
(* A queue of cells, front first, filled in two steps: claim, then publish. *)
EXTENDS Naturals, Sequences

Claimed(q, item) == Append(q, [item |-> item, published |-> FALSE])

Published(q, item) ==
    [i \in DOMAIN q |-> IF q[i].item = item THEN [q[i] EXCEPT !.published = TRUE] ELSE q[i]]

\* What try_pop() and empty() test: a claimed but unpublished front hides the rest.
CanPop(q) == q # <<>> /\ Head(q).published
=============================================================================
