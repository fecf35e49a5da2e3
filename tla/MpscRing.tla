------------------------------ MODULE MpscRing ------------------------------
(***************************************************************************)
(* detail/MpscRingAny.hpp: the lock-free ring of the MPSC executor.  One   *)
(* step is one access to an atomic (or to the storage the accessing thread *)
(* owns), in a sequentially consistent order; compare_exchange_weak may    *)
(* fail spuriously.  Positions are not wrapped at the width of size_t.     *)
(***************************************************************************)
EXTENDS Naturals, Integers, Sequences

CONSTANTS
    Producers,
    CapacityArg,   \* argument of the constructor
    MaxPushes      \* bound: try_push() calls per producer

ASSUME RingAssumption == CapacityArg \in Nat /\ MaxPushes \in Nat

VARIABLES
    m_enqueue_pos, m_dequeue_pos,
    m_seq,          \* the cells' sequence numbers
    m_storage,      \* the cells' elements, None where no object lives
    pc, pos,        \* the producers' place in try_push() and their local pos
    item,           \* what a producer pushes: <<producer, number of its call>>
    consumer, out,  \* the consumer's place in try_pop() and the element it moved
    destroyed,
    \* history
    claimed,        \* items in the order of their positions
    delivered       \* items popped, in order

None == <<>>

producerVars == <<pc, pos, item>>
consumerVars == <<consumer, out, m_dequeue_pos, delivered>>
vars == <<m_enqueue_pos, m_seq, m_storage, producerVars, consumerVars, destroyed, claimed>>

\* The constructor: capacity < 2 ? 2 : capacity.
m_cap == IF CapacityArg < 2 THEN 2 ELSE CapacityArg

Cells == 0..(m_cap - 1)

Cell(p) == p % m_cap

Init ==
    /\ m_enqueue_pos = 0
    /\ m_dequeue_pos = 0
    /\ m_seq = [i \in Cells |-> i]
    /\ m_storage = [i \in Cells |-> None]
    /\ pc = [p \in Producers |-> "idle"]
    /\ pos = [p \in Producers |-> 0]
    /\ item = [p \in Producers |-> <<p, 0>>]
    /\ consumer = "idle"
    /\ out = None
    /\ destroyed = FALSE
    /\ claimed = <<>>
    /\ delivered = <<>>
-----------------------------------------------------------------------------
(* try_push() *)

GoTo(p, location) == pc' = [pc EXCEPT ![p] = location]

Diff(p) == m_seq[Cell(pos[p])] - pos[p]

push_load_pos(p) ==
    /\ pc[p] = "idle" /\ ~destroyed
    /\ item[p][2] < MaxPushes
    /\ item' = [item EXCEPT ![p] = <<p, item[p][2] + 1>>]
    /\ pos' = [pos EXCEPT ![p] = m_enqueue_pos]
    /\ GoTo(p, "load_seq")
    /\ UNCHANGED <<m_enqueue_pos, m_seq, m_storage, consumerVars, destroyed, claimed>>

\* The acquire load of m_seq, and the branch on diff.
push_load_seq(p) ==
    /\ pc[p] = "load_seq"
    /\ \/ Diff(p) = 0 /\ GoTo(p, "cas")
       \/ Diff(p) < 0 /\ GoTo(p, "idle")
       \/ Diff(p) > 0 /\ GoTo(p, "reload")
    /\ UNCHANGED <<m_enqueue_pos, m_seq, m_storage, pos, item, consumerVars,
                   destroyed, claimed>>

push_reload(p) ==
    /\ pc[p] = "reload"
    /\ pos' = [pos EXCEPT ![p] = m_enqueue_pos]
    /\ GoTo(p, "load_seq")
    /\ UNCHANGED <<m_enqueue_pos, m_seq, m_storage, item, consumerVars,
                   destroyed, claimed>>

CasMaySucceed_Unchecked(p) == TRUE

CasMaySucceed(p) == m_enqueue_pos = pos[p]

push_cas(p) ==
    /\ pc[p] = "cas"
    /\ \/ /\ CasMaySucceed(p)
          /\ m_enqueue_pos' = pos[p] + 1
          /\ claimed' = Append(claimed, item[p])
          /\ GoTo(p, "construct")
          /\ UNCHANGED pos
       \/ /\ pos' = [pos EXCEPT ![p] = m_enqueue_pos]
          /\ GoTo(p, "load_seq")
          /\ UNCHANGED <<m_enqueue_pos, claimed>>
    /\ UNCHANGED <<m_seq, m_storage, item, consumerVars, destroyed>>

push_construct(p) ==
    /\ pc[p] = "construct"
    /\ m_storage' = [m_storage EXCEPT ![Cell(pos[p])] = item[p]]
    /\ GoTo(p, "publish")
    /\ UNCHANGED <<m_enqueue_pos, m_seq, pos, item, consumerVars, destroyed, claimed>>

push_publish(p) ==
    /\ pc[p] = "publish"
    /\ m_seq' = [m_seq EXCEPT ![Cell(pos[p])] = pos[p] + 1]
    /\ GoTo(p, "idle")
    /\ UNCHANGED <<m_enqueue_pos, m_storage, pos, item, consumerVars, destroyed, claimed>>
-----------------------------------------------------------------------------
(* try_pop(), called by the only consumer *)

FrontCell == Cell(m_dequeue_pos)

Ready_Claimed == m_dequeue_pos < m_enqueue_pos

Ready == m_seq[FrontCell] = m_dequeue_pos + 1

pop_load ==
    /\ consumer = "idle" /\ ~destroyed
    /\ Ready
    /\ consumer' = "cas"
    /\ UNCHANGED <<m_enqueue_pos, m_seq, m_storage, producerVars, out,
                   m_dequeue_pos, delivered, destroyed, claimed>>

pop_cas ==
    /\ consumer = "cas"
    /\ \/ m_dequeue_pos' = m_dequeue_pos + 1 /\ consumer' = "move"
       \/ UNCHANGED m_dequeue_pos /\ consumer' = "idle"
    /\ UNCHANGED <<m_enqueue_pos, m_seq, m_storage, producerVars, out, delivered,
                   destroyed, claimed>>

\* out = std::move(*p), then p->~T().
pop_move ==
    /\ consumer = "move"
    /\ out' = m_storage[Cell(m_dequeue_pos - 1)]
    /\ m_storage' = [m_storage EXCEPT ![Cell(m_dequeue_pos - 1)] = None]
    /\ consumer' = "free"
    /\ UNCHANGED <<m_enqueue_pos, m_seq, producerVars, m_dequeue_pos, delivered,
                   destroyed, claimed>>

NextLap_Short == m_dequeue_pos - 1 + m_cap - 1

\* The sequence number that frees the cell for the next lap.
NextLap == m_dequeue_pos - 1 + m_cap

pop_free ==
    /\ consumer = "free"
    /\ m_seq' = [m_seq EXCEPT ![Cell(m_dequeue_pos - 1)] = NextLap]
    /\ delivered' = Append(delivered, out)
    /\ out' = None
    /\ consumer' = "idle"
    /\ UNCHANGED <<m_enqueue_pos, m_storage, producerVars, m_dequeue_pos, destroyed,
                   claimed>>
-----------------------------------------------------------------------------
(* ~MpscRingAny() and move assignment: destroy_all_(), with everyone stopped *)

Outstanding == m_dequeue_pos..(m_enqueue_pos - 1)

destroy_all_ ==
    /\ ~destroyed
    /\ consumer = "idle" /\ \A p \in Producers : pc[p] = "idle"
    /\ m_storage' =
        [i \in Cells |->
            IF \E q \in Outstanding : Cell(q) = i /\ m_seq[i] = q + 1
            THEN None ELSE m_storage[i]]
    /\ destroyed' = TRUE
    /\ UNCHANGED <<m_enqueue_pos, m_seq, producerVars, consumerVars, claimed>>
-----------------------------------------------------------------------------
try_push(p) ==
    \/ push_load_pos(p) \/ push_load_seq(p) \/ push_reload(p)
    \/ push_cas(p) \/ push_construct(p) \/ push_publish(p)

try_pop == pop_load \/ pop_cas \/ pop_move \/ pop_free

Next == (\E p \in Producers : try_push(p)) \/ try_pop \/ destroy_all_

Spec == Init /\ [][Next]_vars
-----------------------------------------------------------------------------
(* Properties *)

Items == Producers \X (1..MaxPushes)

\* Every variable has its type.
TypeOK ==
    /\ m_enqueue_pos \in Nat /\ m_dequeue_pos \in Nat
    /\ m_seq \in [Cells -> Nat]
    /\ m_storage \in [Cells -> Items \cup {None}]
    /\ pc \in [Producers -> {"idle", "load_seq", "reload", "cas", "construct", "publish"}]
    /\ pos \in [Producers -> Nat]
    /\ item \in [Producers -> Producers \X (0..MaxPushes)]
    /\ consumer \in {"idle", "cas", "move", "free"}
    /\ out \in Items \cup {None}
    /\ destroyed \in BOOLEAN
    /\ claimed \in Seq(Items) /\ delivered \in Seq(Items)

\* The cell protocol: a producer that won a position constructs in a cell where
\* no object lives and publishes the object it constructed, no two producers
\* own a cell, and the consumer moves from the object claimed at its position.
CellOwnership ==
    /\ \A p \in Producers :
        /\ pc[p] = "construct" => m_storage[Cell(pos[p])] = None
        /\ pc[p] = "publish" => m_storage[Cell(pos[p])] = item[p]
    /\ \A p, q \in Producers :
        p # q /\ {pc[p], pc[q]} \subseteq {"construct", "publish"} =>
            Cell(pos[p]) # Cell(pos[q])
    /\ consumer = "move" => m_storage[Cell(m_dequeue_pos - 1)] = claimed[m_dequeue_pos]

\* "false if queue is full": try_push() gives up only when every cell holds an
\* element not yet freed by the consumer, however stale its pos was.
PushFailsOnlyWhenFull ==
    [][\A p \in Producers :
         pc[p] = "load_seq" /\ pc'[p] = "idle" => m_enqueue_pos = Len(delivered) + m_cap]_vars

\* destroy_all_() ends the life of every object still in the ring.
NoLeakAfterDestroy == destroyed => \A i \in Cells : m_storage[i] = None

\* Producers and the consumer own the cells they touch, and destruction ends the
\* life of every element.
RingSafety == TypeOK /\ CellOwnership /\ NoLeakAfterDestroy

\* The cells between the last one freed and m_enqueue_pos.
Occupied ==
    IF destroyed THEN <<>>
    ELSE [i \in 1..(m_enqueue_pos - Len(delivered)) |->
            LET q == Len(delivered) + i - 1
            IN  [item |-> claimed[q + 1], published |-> m_seq[Cell(q)] = q + 1]]

Abstract == INSTANCE MpscQueue
    WITH cells <- Occupied, Capacity <- m_cap

\* The ring implements the two-step bounded queue: elements come out once each,
\* in the order in which their positions were claimed, never before they are
\* published, and never more than m_cap are inside.
ImplementsMpscQueue == Abstract!Spec
=============================================================================
