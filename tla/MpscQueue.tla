----------------------------- MODULE MpscQueue ------------------------------
(***************************************************************************)
(* What the ring promises its users: a bounded queue into which producers  *)
(* put in two steps, claim a place and then publish, and from which the    *)
(* one consumer takes the front element once that one is published.        *)
(* MpscRing implements it, and TaskExecutorMpsc uses its cells.            *)
(***************************************************************************)
EXTENDS MpscCells

CONSTANTS Capacity, Items

VARIABLES
    cells,      \* [item, published] records, front first
    delivered   \* items the consumer took, in order

Init == cells = <<>> /\ delivered = <<>>

Claim(item) ==
    /\ Len(cells) < Capacity
    /\ cells' = Claimed(cells, item)
    /\ UNCHANGED delivered

Publish(item) ==
    /\ \E i \in DOMAIN cells : cells[i].item = item /\ ~cells[i].published
    /\ cells' = Published(cells, item)
    /\ UNCHANGED delivered

Take ==
    /\ CanPop(cells)
    /\ delivered' = Append(delivered, Head(cells).item)
    /\ cells' = Tail(cells)

\* The destructor discards what was not taken.
Discard ==
    /\ cells' = <<>>
    /\ UNCHANGED delivered

Next ==
    \/ \E item \in Items : Claim(item) \/ Publish(item)
    \/ Take
    \/ Discard

Spec == Init /\ [][Next]_<<cells, delivered>>
=============================================================================
