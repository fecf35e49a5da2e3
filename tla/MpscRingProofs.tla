--------------------------- MODULE MpscRingProofs ---------------------------
(***************************************************************************)
(* RingSafety, PushFailsOnlyWhenFull and ImplementsMpscQueue of the ring,  *)
(* for every capacity, any producers and any number of calls.              *)
(***************************************************************************)
EXTENDS MpscRing, TLAPS

\* The prover of the steps that name none.
USE ZenonT(60)

\* The positions up to freed have been popped and their cells given back.
freed == Len(delivered)

Owns(p) == pc[p] \in {"construct", "publish"}

Pushing(p) == pc[p] \in {"load_seq", "reload", "cas"}

\* The two positions are where the histories say, at most m_cap apart.
PositionInv ==
    /\ m_enqueue_pos = Len(claimed)
    /\ consumer \in {"idle", "cas"} => m_dequeue_pos = freed
    /\ consumer \in {"move", "free"} => m_dequeue_pos = freed + 1
    /\ m_dequeue_pos <= m_enqueue_pos
    /\ m_enqueue_pos <= freed + m_cap

\* A cell's sequence number tells which position of the current lap it serves:
\* claimed or free at q, published at q + 1.
SeqInv ==
    /\ \A q \in freed..(m_enqueue_pos - 1) : m_seq[Cell(q)] \in {q, q + 1}
    /\ \A q \in m_enqueue_pos..(freed + m_cap - 1) : m_seq[Cell(q)] = q
    /\ consumer # "idle" => freed < m_enqueue_pos /\ m_seq[Cell(freed)] = freed + 1

\* An object lives in the cells published and not yet moved from.
StorageInv ==
    ~destroyed =>
        /\ \A q \in m_enqueue_pos..(freed + m_cap - 1) : m_storage[Cell(q)] = None
        /\ \A q \in freed..(m_enqueue_pos - 1) :
            m_seq[Cell(q)] = q + 1 /\ ~(consumer = "free" /\ q = freed)
                => m_storage[Cell(q)] = claimed[q + 1]
        /\ consumer = "free" => /\ m_storage[Cell(freed)] = None
                                /\ out = claimed[freed + 1]

\* The producers between their compare_exchange and their publication are the
\* owners of the positions claimed and not published.
OwnerInv ==
    /\ \A p \in Producers : Owns(p) =>
        /\ pos[p] \in m_dequeue_pos..(m_enqueue_pos - 1)
        /\ m_seq[Cell(pos[p])] = pos[p]
        /\ claimed[pos[p] + 1] = item[p]
        /\ m_storage[Cell(pos[p])] = IF pc[p] = "publish" THEN item[p] ELSE None
    /\ \A p, q \in Producers : Owns(p) /\ Owns(q) /\ pos[p] = pos[q] => p = q
    /\ \A q \in m_dequeue_pos..(m_enqueue_pos - 1) :
        m_seq[Cell(q)] = q => \E p \in Producers : Owns(p) /\ pos[p] = q

\* A producer's local pos is never ahead of m_enqueue_pos, and when it is not
\* stale either, the cell it saw free is still free.
LocalPosInv ==
    \A p \in Producers :
        /\ pos[p] <= m_enqueue_pos
        /\ pc[p] = "cas" /\ pos[p] = m_enqueue_pos => m_seq[Cell(pos[p])] = pos[p]

\* No call claims two positions.
ItemInv ==
    /\ \A p \in Producers : item[p][1] = p /\ (pc[p] # "idle" => item[p][2] > 0)
    /\ \A p \in Producers : \A i \in 1..m_enqueue_pos :
        claimed[i][1] = p => /\ claimed[i][2] <= item[p][2]
                             /\ Pushing(p) => claimed[i][2] < item[p][2]
    /\ \A i, j \in 1..m_enqueue_pos : claimed[i] = claimed[j] => i = j

\* Nothing runs once the ring is destroyed.
DestroyedInv ==
    destroyed => /\ consumer = "idle"
                 /\ \A p \in Producers : pc[p] = "idle"
                 /\ \A i \in Cells : m_storage[i] = None

IInv ==
    /\ TypeOK /\ PositionInv /\ SeqInv /\ StorageInv /\ OwnerInv /\ LocalPosInv
    /\ ItemInv /\ DestroyedInv
-----------------------------------------------------------------------------
(* The cells of the positions of a lap *)

\* Division with remainder.
LEMMA DivMod ==
    ASSUME NEW a \in Nat, NEW m \in Nat \ {0}
    PROVE  a = m * (a \div m) + (a % m) /\ a % m \in 0..(m - 1) /\ a \div m \in Nat
BY SMTT(60)

\* A positive multiple is no smaller than what it is a multiple of.
LEMMA MultipleAtLeast ==
    ASSUME NEW k \in Int, NEW m \in Nat \ {0}, 0 < m * k
    PROVE  m <= m * k
BY SMTT(60)

\* A number has one remainder.
LEMMA RemainderUnique ==
    ASSUME NEW m \in Nat \ {0}, NEW q \in Int, NEW r \in Int, NEW s \in Int, NEW t \in Int,
           m * q + s = m * r + t, s <= t, t < s + m
    PROVE  s = t
<1> DEFINE k == q - r
<1>1. k \in Int /\ m * k = t - s
  BY SMTT(60)
<1> HIDE DEF k
<1>2. 0 < m * k => m <= m * k
  BY <1>1, MultipleAtLeast
<1> QED BY <1>1, <1>2, SMTT(60)

\* The remainder is what is left when multiples are taken away.
LEMMA RemainderIs ==
    ASSUME NEW m \in Nat \ {0}, NEW a \in Nat, NEW r \in Int, NEW t \in 0..(m - 1),
           a = m * r + t
    PROVE  a % m = t
<1> DEFINE q == a \div m
           s == a % m
<1>1. a = m * q + s /\ s \in 0..(m - 1) /\ q \in Nat
  BY DivMod
<1> HIDE DEF q, s
<1>2. /\ m * q + s = m * r + t
      /\ q \in Int /\ s \in Int /\ t \in Int
      /\ t < s + m /\ s < t + m /\ (s <= t \/ t <= s)
  BY <1>1, SMTT(60)
<1>3. CASE s <= t
  <2>1. s = t
    BY <1>2, <1>3, RemainderUnique
  <2> QED BY <2>1 DEF s
<1>4. CASE t <= s
  <2>1. s = t
    BY <1>2, <1>4, RemainderUnique
  <2> QED BY <2>1 DEF s
<1> QED BY <1>2, <1>3, <1>4

\* The constructor's capacity is at least 2.
LEMMA CapFacts == m_cap \in Nat /\ m_cap >= 2
BY RingAssumption, SMTT(60) DEF m_cap

\* pos % m_cap is the index of a cell.
LEMMA CellInCells == ASSUME NEW q \in Nat PROVE Cell(q) \in Cells
BY CapFacts, DivMod, SMTT(60) DEF Cell, Cells

\* Two positions less than m_cap apart have different cells.
LEMMA CellInjective ==
    ASSUME NEW a \in Nat, NEW b \in Nat, a < b, b < a + m_cap
    PROVE  Cell(a) # Cell(b)
<1> DEFINE m == m_cap
<1>1. m \in Nat \ {0}
  BY CapFacts, SMTT(60)
<1> HIDE DEF m
<1> SUFFICES ASSUME a % m = b % m, b < a + m PROVE FALSE
  BY DEF Cell, m
<1> DEFINE k == (b \div m) - (a \div m)
<1>2. k \in Int /\ m * k = b - a
  BY <1>1, DivMod, SMTT(60)
<1> HIDE DEF k
<1>3. 0 < m * k => m <= m * k
  BY <1>1, <1>2, MultipleAtLeast
<1> QED BY <1>1, <1>2, <1>3, SMTT(60)

\* A lap later the cell is the same one.
LEMMA CellNextLap == ASSUME NEW a \in Nat PROVE Cell(a + m_cap) = Cell(a)
<1> DEFINE m == m_cap
           r == a \div m
           t == a % m
<1>1. m \in Nat \ {0}
  BY CapFacts, SMTT(60)
<1> HIDE DEF m
<1>2. a = m * r + t /\ t \in 0..(m - 1) /\ r \in Nat
  BY <1>1, DivMod
<1> HIDE DEF r, t
<1>3. a + m = m * (r + 1) + t /\ a + m \in Nat /\ r + 1 \in Int
  BY <1>1, <1>2, SMTT(60)
<1>4. (a + m) % m = t
  BY <1>1, <1>2, <1>3, RemainderIs
<1> QED BY <1>4 DEF Cell, m, t

\* Every cell serves a position of the lap that starts at a.
LEMMA CellOnto ==
    ASSUME NEW a \in Nat, NEW i \in Cells
    PROVE  \E q \in a..(a + m_cap - 1) : Cell(q) = i
<1> DEFINE m == m_cap
           r == a \div m
           t == a % m
<1>1. m \in Nat \ {0} /\ i \in 0..(m - 1)
  BY CapFacts, SMTT(60) DEF Cells
<1> SUFFICES \E q \in a..(a + m - 1) : q % m = i
  BY DEF Cell
<1> HIDE DEF m
<1>2. a = m * r + t /\ t \in 0..(m - 1) /\ r \in Nat
  BY <1>1, DivMod
<1> HIDE DEF r, t
<1>3. CASE t <= i
  <2>1. a + i - t = m * r + i /\ a + i - t \in Nat /\ a + i - t \in a..(a + m - 1)
    BY <1>1, <1>2, <1>3, SMTT(60)
  <2>2. (a + i - t) % m = i
    BY <1>1, <1>2, <2>1, RemainderIs, SMTT(60)
  <2> QED BY <2>1, <2>2
<1>4. CASE i < t
  <2>1. /\ a + m + i - t = m * (r + 1) + i /\ r + 1 \in Int
        /\ a + m + i - t \in Nat /\ a + m + i - t \in a..(a + m - 1)
    BY <1>1, <1>2, <1>4, SMTT(60)
  <2>2. (a + m + i - t) % m = i
    BY <1>1, <2>1, RemainderIs
  <2> QED BY <2>1, <2>2
<1> QED BY <1>1, <1>2, <1>3, <1>4, SMTT(60)

\* What the proofs below use of the cells of a lap.
LEMMA LapCells ==
    /\ m_cap \in Nat /\ m_cap >= 2
    /\ \A q \in Nat : Cell(q) \in Cells
    /\ \A a, b \in Nat : a < b /\ b < a + m_cap => Cell(a) # Cell(b)
    /\ \A a \in Nat : Cell(a + m_cap) = Cell(a)
BY CapFacts, CellInCells, CellInjective, CellNextLap

\* The positions of a lap have a cell each.
LEMMA LapDistinct ==
    ASSUME NEW a \in Nat
    PROVE  \A c, q \in a..(a + m_cap - 1) :
               Cell(q) \in Cells /\ (c # q => Cell(c) # Cell(q))
<1> SUFFICES ASSUME NEW c \in a..(a + m_cap - 1), NEW q \in a..(a + m_cap - 1)
             PROVE  Cell(q) \in Cells /\ (c # q => Cell(c) # Cell(q))
  OBVIOUS
<1>1. c \in Nat /\ q \in Nat /\ (c < q => q < c + m_cap) /\ (q < c => c < q + m_cap)
  BY CapFacts, SMTT(60)
<1> QED BY <1>1, LapCells, SMTT(60)
-----------------------------------------------------------------------------
(* The invariant *)

\* The constructed ring satisfies the invariant.
LEMMA InitIInv == Init => IInv
<1> SUFFICES ASSUME Init PROVE IInv
  OBVIOUS
<1>1. \A q \in 0..(m_cap - 1) : Cell(q) = q
  BY CapFacts, RemainderIs, SMTT(60) DEF Cell
<1> USE CapFacts, RingAssumption DEF Init, None
<1>2. TypeOK
  <2>1. claimed \in Seq(Items) /\ delivered \in Seq(Items)
    BY SMTT(60)
  <2>2. m_seq \in [Cells -> Nat]
    BY SMTT(60) DEF Cells
  <2>3. 0 \in 0..MaxPushes
    BY SMTT(60)
  <2>4. item \in [Producers -> Producers \X (0..MaxPushes)]
    BY <2>3
  <2> QED BY <2>1, <2>2, <2>4 DEF TypeOK
<1>3. PositionInv
  BY SMTT(60) DEF PositionInv, freed
<1>4. SeqInv
  BY <1>1, SMTT(60) DEF SeqInv, freed, Cells
<1>5. StorageInv
  BY <1>1, SMTT(60) DEF StorageInv, freed, Cells
<1>6. OwnerInv /\ LocalPosInv
  BY SMTT(60) DEF OwnerInv, LocalPosInv, Owns
<1>7. ItemInv
  BY SMTT(60) DEF ItemInv, Pushing
<1>8. DestroyedInv
  BY DEF DestroyedInv
<1> QED BY <1>2, <1>3, <1>4, <1>5, <1>6, <1>7, <1>8 DEF IInv

\* A cell that is free at m_enqueue_pos belongs to the current lap.
LEMMA FreeCellInLap ==
    ASSUME IInv, m_seq[Cell(m_enqueue_pos)] = m_enqueue_pos
    PROVE  m_enqueue_pos < freed + m_cap
<1>1. freed \in Nat
  BY SMTT(60) DEF IInv, TypeOK, freed
<1> SUFFICES ASSUME m_enqueue_pos = freed + m_cap PROVE FALSE
  BY <1>1, CapFacts, SMTT(60) DEF IInv, TypeOK, PositionInv
<1>2. Cell(m_enqueue_pos) = Cell(freed)
  BY <1>1, LapCells
<1>3. m_seq[Cell(freed)] \in {freed, freed + 1}
  BY <1>1, LapCells, SMTT(60) DEF IInv, SeqInv
<1> QED BY <1>1, <1>2, <1>3, LapCells, SMTT(60)

\* A claimed item is one of the items, and it names its producer and call.
LEMMA ItemFacts ==
    ASSUME IInv
    PROVE  /\ \A p \in Producers : pc[p] # "idle" => item[p] \in Items
           /\ \A i \in 1..m_enqueue_pos : claimed[i] \in Items
           /\ m_enqueue_pos \in Nat /\ m_dequeue_pos \in Nat /\ freed \in Nat
           /\ freed <= m_dequeue_pos
<1>1. ASSUME NEW p \in Producers, pc[p] # "idle" PROVE item[p] \in Items
  <2>1. item[p] \in Producers \X (0..MaxPushes) /\ item[p][2] > 0
    BY <1>1 DEF IInv, TypeOK, ItemInv
  <2> QED BY <2>1, RingAssumption, SMTT(60) DEF Items
<1>2. ASSUME NEW i \in 1..m_enqueue_pos PROVE claimed[i] \in Items
  BY SMTT(60) DEF IInv, TypeOK, PositionInv
<1>3. m_enqueue_pos \in Nat /\ m_dequeue_pos \in Nat /\ freed \in Nat
  BY SMTT(60) DEF IInv, TypeOK, freed
<1>4. freed <= m_dequeue_pos
  BY <1>3, SMTT(60) DEF IInv, PositionInv, TypeOK
<1> QED BY <1>1, <1>2, <1>3, <1>4

\* Every step keeps the types.
LEMMA TypeKept == IInv /\ [Next]_vars => TypeOK'
<1> SUFFICES ASSUME IInv, [Next]_vars PROVE TypeOK'
  OBVIOUS
<1>a. TypeOK
  BY DEF IInv
<1>b. /\ \A p \in Producers : pc[p] # "idle" => item[p] \in Items
      /\ \A i \in 1..m_enqueue_pos : claimed[i] \in Items
      /\ m_enqueue_pos \in Nat /\ m_dequeue_pos \in Nat /\ freed \in Nat
  BY ItemFacts
<1>c. \A q \in Nat : Cell(q) \in Cells
  BY LapCells
<1> USE DEF GoTo, consumerVars, producerVars
<1>1. ASSUME NEW p \in Producers, push_load_pos(p) PROVE TypeOK'
  <2>1. item' \in [Producers -> Producers \X (0..MaxPushes)]
    BY <1>1, <1>a, RingAssumption, SMTT(60) DEF push_load_pos, TypeOK
  <2> QED BY <1>1, <1>a, <2>1 DEF push_load_pos, TypeOK
<1>2. ASSUME NEW p \in Producers, push_load_seq(p) PROVE TypeOK'
  BY <1>2, <1>a DEF push_load_seq, TypeOK
<1>3. ASSUME NEW p \in Producers, push_reload(p) PROVE TypeOK'
  BY <1>3, <1>a DEF push_reload, TypeOK
<1>4. ASSUME NEW p \in Producers, push_cas(p) PROVE TypeOK'
  <2>0. item[p] \in Items /\ pos[p] \in Nat /\ pos[p] + 1 \in Nat /\ claimed \in Seq(Items)
    BY <1>4, <1>a, <1>b, SMTT(60) DEF push_cas, TypeOK
  <2>1. claimed' \in Seq(Items)
    BY <1>4, <2>0, SMTT(60) DEF push_cas
  <2>2. m_enqueue_pos' \in Nat
    BY <1>4, <1>a, <2>0 DEF push_cas, TypeOK
  <2>3. pos' = pos \/ pos' = [pos EXCEPT ![p] = m_enqueue_pos]
    BY <1>4 DEF push_cas
  <2>4. pos' \in [Producers -> Nat]
    BY <1>a, <2>3 DEF TypeOK
  <2> QED BY <1>4, <1>a, <2>1, <2>2, <2>4 DEF push_cas, TypeOK
<1>5. ASSUME NEW p \in Producers, push_construct(p) PROVE TypeOK'
  <2>1. m_storage' \in [Cells -> Items \cup {None}]
    BY <1>5, <1>a, <1>b DEF push_construct, TypeOK
  <2> QED BY <1>5, <1>a, <2>1 DEF push_construct, TypeOK
<1>6. ASSUME NEW p \in Producers, push_publish(p) PROVE TypeOK'
  <2>0. pos[p] \in Nat /\ pos[p] + 1 \in Nat
    BY <1>a, SMTT(60) DEF TypeOK
  <2>1. m_seq' \in [Cells -> Nat]
    BY <1>6, <1>a, <2>0 DEF push_publish, TypeOK
  <2> QED BY <1>6, <1>a, <2>1 DEF push_publish, TypeOK
<1>7. CASE pop_load
  BY <1>7, <1>a DEF pop_load, TypeOK
<1>8. CASE pop_cas
  BY <1>8, <1>a, SMTT(60) DEF pop_cas, TypeOK
<1>9. CASE pop_move
  <2>1. m_dequeue_pos - 1 \in Nat
    BY <1>9, <1>b, SMTT(60) DEF pop_move, IInv, PositionInv
  <2>2. /\ m_storage' \in [Cells -> Items \cup {None}]
        /\ out' \in Items \cup {None}
    BY <1>9, <1>a, <1>c, <2>1 DEF pop_move, TypeOK
  <2> QED BY <1>9, <1>a, <2>2 DEF pop_move, TypeOK
<1>10. CASE pop_free
  <2>1. m_dequeue_pos - 1 \in Nat /\ NextLap \in Nat
    BY <1>10, <1>b, CapFacts, SMTT(60) DEF pop_free, IInv, PositionInv, NextLap
  <2>2. out \in Items
    BY <1>10, <1>b, SMTT(60) DEF pop_free, IInv, StorageInv, DestroyedInv, SeqInv
  <2>3. delivered' \in Seq(Items)
    BY <1>10, <1>a, <2>2, SMTT(60) DEF pop_free, TypeOK
  <2>4. m_seq' \in [Cells -> Nat]
    BY <1>10, <1>a, <2>1 DEF pop_free, TypeOK
  <2> QED BY <1>10, <1>a, <2>3, <2>4 DEF pop_free, TypeOK
<1>11. CASE destroy_all_
  <2>1. m_storage' \in [Cells -> Items \cup {None}]
    BY <1>11, <1>a DEF destroy_all_, TypeOK
  <2> QED BY <1>11, <1>a, <2>1 DEF destroy_all_, TypeOK
<1>12. CASE UNCHANGED vars
  BY <1>12, <1>a DEF vars, TypeOK
<1> QED BY <1>1, <1>2, <1>3, <1>4, <1>5, <1>6, <1>7, <1>8, <1>9, <1>10, <1>11, <1>12 DEF Next,
           try_push, try_pop

\* Claiming a position and freeing a cell move the two positions together with
\* the histories; the compare_exchange of a free cell stays within the lap.
LEMMA PositionKept == IInv /\ [Next]_vars => PositionInv'
<1> SUFFICES ASSUME IInv, [Next]_vars PROVE PositionInv'
  OBVIOUS
<1>a. TypeOK /\ PositionInv /\ SeqInv /\ LocalPosInv
  BY DEF IInv
<1>b. m_enqueue_pos \in Nat /\ m_dequeue_pos \in Nat /\ freed \in Nat /\ m_cap \in Nat
  BY ItemFacts, CapFacts
<1> USE DEF GoTo, consumerVars, producerVars
<1>1. ASSUME NEW p \in Producers,
             push_load_pos(p) \/ push_load_seq(p) \/ push_reload(p) \/ push_construct(p)
                \/ push_publish(p)
      PROVE  PositionInv'
  BY <1>1, <1>a DEF push_load_pos, push_load_seq, push_reload, push_construct, push_publish,
     PositionInv, freed
<1>2. ASSUME NEW p \in Producers, push_cas(p) PROVE PositionInv'
  <2>1. CASE UNCHANGED <<m_enqueue_pos, claimed>>
    BY <1>2, <2>1, <1>a DEF push_cas, PositionInv, freed
  <2>2. CASE /\ CasMaySucceed(p)
             /\ m_enqueue_pos' = pos[p] + 1
             /\ claimed' = Append(claimed, item[p])
    <3>1. m_enqueue_pos < freed + m_cap
      BY <1>2, <2>2, <1>a, FreeCellInLap DEF push_cas, CasMaySucceed, LocalPosInv
    <3>2. Len(claimed') = Len(claimed) + 1
      BY <2>2, <1>2, <1>a, ItemFacts, SMTT(60) DEF TypeOK, push_cas
    <3> QED BY <1>2, <2>2, <1>a, <1>b, <3>1, <3>2, SMTT(60) DEF push_cas, CasMaySucceed,
               PositionInv, freed
  <2> QED BY <1>2, <2>1, <2>2 DEF push_cas
<1>3. CASE pop_load \/ pop_cas \/ pop_move
  BY <1>3, <1>a, <1>b, SMTT(60) DEF pop_load, pop_cas, pop_move, PositionInv, SeqInv, freed
<1>4. CASE pop_free
  <2>1. delivered' \in Seq(Items) /\ Len(delivered') = freed + 1
    BY <1>4, <1>a, TypeKept, SMTT(60) DEF pop_free, TypeOK, freed
  <2> QED BY <1>4, <1>a, <1>b, <2>1, SMTT(60) DEF pop_free, PositionInv, freed
<1>5. CASE destroy_all_ \/ UNCHANGED vars
  BY <1>5, <1>a DEF destroy_all_, vars, PositionInv, freed
<1> QED BY <1>1, <1>2, <1>3, <1>4, <1>5 DEF Next, try_push, try_pop

\* The compare_exchange that succeeds: it claims the next position, whose cell is
\* free and in the lap.
Claims(p) ==
    /\ push_cas(p)
    /\ CasMaySucceed(p) /\ m_enqueue_pos' = pos[p] + 1 /\ claimed' = Append(claimed, item[p])
    /\ GoTo(p, "construct") /\ UNCHANGED pos

\* The compare_exchange that fails: it loads m_enqueue_pos again.
Retries(p) ==
    /\ push_cas(p)
    /\ pos' = [pos EXCEPT ![p] = m_enqueue_pos]
    /\ GoTo(p, "load_seq") /\ UNCHANGED <<m_enqueue_pos, claimed>>

\* What the compare_exchange that succeeds does.
LEMMA ClaimStep ==
    ASSUME IInv, NEW p \in Producers, Claims(p)
    PROVE  /\ m_seq[Cell(m_enqueue_pos)] = m_enqueue_pos
           /\ m_enqueue_pos < freed + m_cap
           /\ pos[p] = m_enqueue_pos /\ m_enqueue_pos' = m_enqueue_pos + 1
           /\ \A i \in 1..m_enqueue_pos : claimed'[i] = claimed[i]
           /\ claimed'[m_enqueue_pos + 1] = item[p]
           /\ pc[p] = "cas" /\ pc' = [pc EXCEPT ![p] = "construct"] /\ pos' = pos
           /\ m_seq' = m_seq /\ m_storage' = m_storage /\ item' = item
           /\ consumer' = consumer /\ out' = out /\ m_dequeue_pos' = m_dequeue_pos
           /\ freed' = freed /\ destroyed' = destroyed
<1>1. /\ pos[p] = m_enqueue_pos /\ m_enqueue_pos' = m_enqueue_pos + 1
      /\ pc[p] = "cas" /\ pc' = [pc EXCEPT ![p] = "construct"] /\ pos' = pos
      /\ m_seq' = m_seq /\ m_storage' = m_storage /\ item' = item
      /\ consumer' = consumer /\ out' = out /\ m_dequeue_pos' = m_dequeue_pos
      /\ freed' = freed /\ destroyed' = destroyed
  BY DEF Claims, push_cas, CasMaySucceed, GoTo, consumerVars, freed
<1>2. m_seq[Cell(m_enqueue_pos)] = m_enqueue_pos
  BY <1>1 DEF IInv, LocalPosInv
<1>3. m_enqueue_pos < freed + m_cap
  BY <1>2, FreeCellInLap
<1>4. claimed \in Seq(Items) /\ item[p] \in Items /\ Len(claimed) = m_enqueue_pos
  BY <1>1, ItemFacts DEF IInv, TypeOK, PositionInv
<1>5. /\ \A i \in 1..m_enqueue_pos : claimed'[i] = claimed[i]
      /\ claimed'[m_enqueue_pos + 1] = item[p]
  BY <1>4, SMTT(60) DEF Claims
<1> QED BY <1>1, <1>2, <1>3, <1>5

\* What publishing does to the sequence numbers of the lap.
LEMMA PublishStep ==
    ASSUME IInv, NEW p \in Producers, push_publish(p)
    PROVE  /\ pos[p] \in m_dequeue_pos..(m_enqueue_pos - 1)
           /\ pos[p] \in freed..(m_enqueue_pos - 1)
           /\ pos[p] \in freed..(freed + m_cap - 1)
           /\ m_seq[Cell(pos[p])] = pos[p] /\ claimed[pos[p] + 1] = item[p]
           /\ m_storage[Cell(pos[p])] = item[p]
           /\ \A q \in freed..(freed + m_cap - 1) :
                m_seq'[Cell(q)] = IF q = pos[p] THEN q + 1 ELSE m_seq[Cell(q)]
           /\ m_enqueue_pos' = m_enqueue_pos /\ claimed' = claimed /\ pos' = pos
           /\ m_storage' = m_storage /\ item' = item
           /\ consumer' = consumer /\ out' = out /\ m_dequeue_pos' = m_dequeue_pos
           /\ freed' = freed /\ destroyed' = destroyed
<1>1. /\ pos[p] \in m_dequeue_pos..(m_enqueue_pos - 1)
      /\ m_seq[Cell(pos[p])] = pos[p] /\ claimed[pos[p] + 1] = item[p]
      /\ m_storage[Cell(pos[p])] = item[p]
  BY DEF push_publish, IInv, OwnerInv, Owns
<1>2. m_enqueue_pos \in Nat /\ m_dequeue_pos \in Nat /\ freed \in Nat /\ freed <= m_dequeue_pos
  BY ItemFacts
<1>3. pos[p] \in freed..(m_enqueue_pos - 1) /\ pos[p] \in freed..(freed + m_cap - 1)
  BY <1>1, <1>2, CapFacts, SMTT(60) DEF IInv, PositionInv
<1>4. \A q \in freed..(freed + m_cap - 1) :
        Cell(q) \in Cells /\ (pos[p] # q => Cell(pos[p]) # Cell(q))
  BY <1>2, <1>3, LapDistinct
<1>5. \A q \in freed..(freed + m_cap - 1) :
        m_seq'[Cell(q)] = IF q = pos[p] THEN q + 1 ELSE m_seq[Cell(q)]
  BY <1>3, <1>4 DEF push_publish, IInv, TypeOK
<1>6. /\ m_enqueue_pos' = m_enqueue_pos /\ claimed' = claimed /\ pos' = pos
      /\ m_storage' = m_storage /\ item' = item
      /\ consumer' = consumer /\ out' = out /\ m_dequeue_pos' = m_dequeue_pos
      /\ freed' = freed /\ destroyed' = destroyed
  BY DEF push_publish, consumerVars, freed
<1> QED BY <1>1, <1>3, <1>5, <1>6

\* What freeing the front cell does to the sequence numbers of the next lap.
LEMMA FreeStep ==
    ASSUME IInv, pop_free
    PROVE  /\ m_dequeue_pos = freed + 1 /\ freed' = freed + 1
           /\ freed + 1 <= m_enqueue_pos /\ m_enqueue_pos <= freed + m_cap
           /\ \A q \in (freed + 1)..(freed + m_cap) :
                m_seq'[Cell(q)] = IF q = freed + m_cap THEN q ELSE m_seq[Cell(q)]
           /\ Cell(freed + m_cap) = Cell(freed)
           /\ consumer = "free" /\ consumer' = "idle" /\ m_dequeue_pos' = m_dequeue_pos
           /\ m_enqueue_pos' = m_enqueue_pos /\ claimed' = claimed
           /\ m_storage' = m_storage /\ pc' = pc /\ pos' = pos /\ item' = item
           /\ destroyed' = destroyed
<1>1. /\ consumer = "free" /\ consumer' = "idle" /\ m_dequeue_pos' = m_dequeue_pos
      /\ m_enqueue_pos' = m_enqueue_pos /\ claimed' = claimed
      /\ m_storage' = m_storage /\ pc' = pc /\ pos' = pos /\ item' = item
      /\ destroyed' = destroyed
  BY DEF pop_free, producerVars
<1>2. m_enqueue_pos \in Nat /\ m_dequeue_pos \in Nat /\ freed \in Nat
  BY ItemFacts
<1>3. /\ m_dequeue_pos = freed + 1 /\ freed' = m_dequeue_pos'
      /\ freed + 1 <= m_enqueue_pos /\ m_enqueue_pos <= freed + m_cap
  BY <1>1, PositionKept DEF IInv, PositionInv, Next, try_pop
<1>4. NextLap = freed + m_cap /\ m_dequeue_pos - 1 = freed
  BY <1>2, <1>3, CapFacts, SMTT(60) DEF NextLap
<1>5. /\ freed + 1 \in Nat /\ freed + m_cap \in (freed + 1)..(freed + 1 + m_cap - 1)
      /\ freed + 1 + m_cap - 1 = freed + m_cap
  BY <1>2, CapFacts, SMTT(60)
<1>6. \A q \in (freed + 1)..(freed + m_cap) :
        Cell(q) \in Cells /\ (freed + m_cap # q => Cell(freed + m_cap) # Cell(q))
  BY <1>5, LapDistinct
<1>7. Cell(freed + m_cap) = Cell(freed)
  BY <1>2, LapCells
<1>8. m_seq' = [m_seq EXCEPT ![Cell(freed)] = freed + m_cap]
  BY <1>4 DEF pop_free
<1>9. m_seq' = [m_seq EXCEPT ![Cell(freed + m_cap)] = freed + m_cap]
  BY <1>7, <1>8
<1>10. \A q \in (freed + 1)..(freed + m_cap) :
        m_seq'[Cell(q)] = IF q = freed + m_cap THEN q ELSE m_seq[Cell(q)]
  BY <1>5, <1>6, <1>9 DEF IInv, TypeOK
<1> QED BY <1>1, <1>3, <1>7, <1>10

\* Publishing a position and freeing a cell change the sequence number of that
\* cell of the lap and of no other.
LEMMA SeqKept == IInv /\ [Next]_vars => SeqInv'
<1> SUFFICES ASSUME IInv, [Next]_vars PROVE SeqInv'
  OBVIOUS
<1>a. TypeOK /\ PositionInv /\ SeqInv /\ LocalPosInv /\ OwnerInv /\ DestroyedInv
  BY DEF IInv
<1>b. /\ m_enqueue_pos \in Nat /\ m_dequeue_pos \in Nat /\ freed \in Nat
      /\ freed <= m_dequeue_pos
  BY ItemFacts
<1>c. PositionInv' /\ TypeOK'
  BY PositionKept, TypeKept
<1> USE DEF GoTo, consumerVars, producerVars
<1>1. ASSUME NEW p \in Producers,
             push_load_pos(p) \/ push_load_seq(p) \/ push_reload(p) \/ push_construct(p)
      PROVE  SeqInv'
  BY <1>1, <1>a DEF push_load_pos, push_load_seq, push_reload, push_construct, SeqInv, freed
<1>2. ASSUME NEW p \in Producers, push_cas(p) PROVE SeqInv'
  <2>1. CASE Retries(p)
    BY <2>1, <1>a DEF Retries, push_cas, SeqInv, freed
  <2>2. CASE Claims(p)
    BY <2>2, ClaimStep, <1>a, <1>b, CapFacts, SMTT(60) DEF SeqInv, PositionInv
  <2> QED BY <1>2, <2>1, <2>2 DEF push_cas, Claims, Retries
<1>3. ASSUME NEW p \in Producers, push_publish(p) PROVE SeqInv'
  <2>1. m_enqueue_pos <= freed + m_cap /\ m_cap \in Nat /\ m_cap >= 2
    BY <1>a, CapFacts DEF PositionInv
  <2>2. \A q \in freed..(m_enqueue_pos - 1) : m_seq'[Cell(q)] \in {q, q + 1}
    BY <1>a, <1>b, <1>3, <2>1, PublishStep, SMTT(60) DEF SeqInv
  <2>3. \A q \in m_enqueue_pos..(freed + m_cap - 1) : m_seq'[Cell(q)] = q
    BY <1>a, <1>b, <1>3, <2>1, PublishStep, SMTT(60) DEF SeqInv
  <2>4. consumer # "idle" => freed < m_enqueue_pos /\ m_seq'[Cell(freed)] = freed + 1
    BY <1>a, <1>b, <1>3, <2>1, PublishStep, SMTT(60) DEF SeqInv
  <2> QED BY <1>3, <2>2, <2>3, <2>4, PublishStep DEF SeqInv
<1>4. CASE pop_load \/ pop_cas \/ pop_move
  <2>1. CASE pop_load
    <3>0. m_dequeue_pos = freed /\ m_seq[Cell(freed)] = freed + 1
      BY <2>1, <1>a DEF pop_load, Ready, FrontCell, PositionInv
    <3>1. freed < m_enqueue_pos
      <4> SUFFICES ASSUME freed = m_enqueue_pos PROVE FALSE
        BY <1>a, <1>b, <3>0, SMTT(60) DEF PositionInv
      <4> QED BY <1>a, <1>b, <3>0, CapFacts, SMTT(60) DEF SeqInv
    <3> QED BY <2>1, <3>1, <1>a, <1>b DEF pop_load, Ready, FrontCell, PositionInv, SeqInv, freed
  <2>2. CASE pop_cas \/ pop_move
    BY <2>2, <1>a DEF pop_cas, pop_move, SeqInv, freed
  <2> QED BY <1>4, <2>1, <2>2
<1>5. CASE pop_free
  BY <1>a, <1>b, <1>5, FreeStep, CapFacts, SMTT(60) DEF SeqInv
<1>6. CASE destroy_all_ \/ UNCHANGED vars
  BY <1>6, <1>a DEF destroy_all_, vars, SeqInv, freed
<1> QED BY <1>1, <1>2, <1>3, <1>4, <1>5, <1>6 DEF Next, try_push, try_pop

\* What constructing and moving do to the elements of the lap.
LEMMA ConstructStep ==
    ASSUME IInv, NEW p \in Producers, push_construct(p)
    PROVE  /\ pos[p] \in m_dequeue_pos..(m_enqueue_pos - 1)
           /\ pos[p] \in freed..(freed + m_cap - 1)
           /\ m_seq[Cell(pos[p])] = pos[p]
           /\ \A q \in freed..(freed + m_cap - 1) :
                m_storage'[Cell(q)] = IF q = pos[p] THEN item[p] ELSE m_storage[Cell(q)]
           /\ pc' = [pc EXCEPT ![p] = "publish"]
           /\ m_enqueue_pos' = m_enqueue_pos /\ claimed' = claimed /\ pos' = pos
           /\ m_seq' = m_seq /\ item' = item
           /\ consumer' = consumer /\ out' = out /\ m_dequeue_pos' = m_dequeue_pos
           /\ freed' = freed /\ destroyed' = destroyed
<1>1. pos[p] \in m_dequeue_pos..(m_enqueue_pos - 1) /\ m_seq[Cell(pos[p])] = pos[p]
  BY DEF push_construct, IInv, OwnerInv, Owns
<1>2. m_enqueue_pos \in Nat /\ m_dequeue_pos \in Nat /\ freed \in Nat /\ freed <= m_dequeue_pos
  BY ItemFacts
<1>3. pos[p] \in freed..(freed + m_cap - 1)
  BY <1>1, <1>2, CapFacts, SMTT(60) DEF IInv, PositionInv
<1>4. \A q \in freed..(freed + m_cap - 1) :
        Cell(q) \in Cells /\ (pos[p] # q => Cell(pos[p]) # Cell(q))
  BY <1>2, <1>3, LapDistinct
<1>5. \A q \in freed..(freed + m_cap - 1) :
        m_storage'[Cell(q)] = IF q = pos[p] THEN item[p] ELSE m_storage[Cell(q)]
  BY <1>3, <1>4 DEF push_construct, IInv, TypeOK
<1> QED BY <1>1, <1>3, <1>5 DEF push_construct, GoTo, consumerVars, freed

\* What moving the front element does to the elements of the lap.
LEMMA MoveStep ==
    ASSUME IInv, pop_move
    PROVE  /\ m_dequeue_pos = freed + 1
           /\ freed < m_enqueue_pos /\ m_seq[Cell(freed)] = freed + 1
           /\ out' = m_storage[Cell(freed)]
           /\ \A q \in freed..(freed + m_cap - 1) :
                m_storage'[Cell(q)] = IF q = freed THEN None ELSE m_storage[Cell(q)]
           /\ m_enqueue_pos' = m_enqueue_pos /\ claimed' = claimed
           /\ pc' = pc /\ pos' = pos /\ m_seq' = m_seq /\ item' = item
           /\ consumer = "move" /\ consumer' = "free" /\ m_dequeue_pos' = m_dequeue_pos
           /\ freed' = freed /\ destroyed' = destroyed
<1>1. /\ m_enqueue_pos' = m_enqueue_pos /\ claimed' = claimed
      /\ pc' = pc /\ pos' = pos /\ m_seq' = m_seq /\ item' = item
      /\ consumer = "move" /\ consumer' = "free" /\ m_dequeue_pos' = m_dequeue_pos
      /\ freed' = freed /\ destroyed' = destroyed
  BY DEF pop_move, producerVars, freed
<1>2. m_enqueue_pos \in Nat /\ m_dequeue_pos \in Nat /\ freed \in Nat
  BY ItemFacts
<1>3. m_dequeue_pos = freed + 1 /\ freed < m_enqueue_pos /\ m_seq[Cell(freed)] = freed + 1
  BY <1>1 DEF IInv, PositionInv, SeqInv
<1>4. m_dequeue_pos - 1 = freed
  BY <1>2, <1>3, SMTT(60)
<1>5. /\ out' = m_storage[Cell(freed)]
      /\ m_storage' = [m_storage EXCEPT ![Cell(freed)] = None]
  BY <1>4 DEF pop_move
<1>6. \A q \in freed..(freed + m_cap - 1) :
        Cell(q) \in Cells /\ (freed # q => Cell(freed) # Cell(q))
  <2>1. freed \in freed..(freed + m_cap - 1)
    BY <1>2, CapFacts, SMTT(60)
  <2> QED BY <1>2, <2>1, LapDistinct
<1>7. \A q \in freed..(freed + m_cap - 1) :
        m_storage'[Cell(q)] = IF q = freed THEN None ELSE m_storage[Cell(q)]
  BY <1>5, <1>6 DEF IInv, TypeOK
<1> QED BY <1>1, <1>3, <1>5, <1>7

\* Objects live where the sequence numbers say.
LEMMA StorageKept == IInv /\ [Next]_vars => StorageInv'
<1> SUFFICES ASSUME IInv, [Next]_vars PROVE StorageInv'
  OBVIOUS
<1>a. TypeOK /\ PositionInv /\ SeqInv /\ StorageInv
  BY DEF IInv
<1>b. /\ m_enqueue_pos \in Nat /\ m_dequeue_pos \in Nat /\ freed \in Nat
      /\ freed <= m_dequeue_pos /\ m_cap \in Nat /\ m_cap >= 2
      /\ m_enqueue_pos <= freed + m_cap
  BY ItemFacts, CapFacts, <1>a DEF PositionInv
<1> USE DEF GoTo, consumerVars, producerVars
<1>1. ASSUME NEW p \in Producers, push_load_pos(p) \/ push_load_seq(p) \/ push_reload(p)
      PROVE  StorageInv'
  BY <1>1, <1>a DEF push_load_pos, push_load_seq, push_reload, StorageInv, freed
<1>2. ASSUME NEW p \in Producers, push_cas(p) PROVE StorageInv'
  <2>1. CASE Retries(p)
    BY <2>1, <1>a DEF Retries, push_cas, StorageInv, freed
  <2>2. CASE Claims(p)
    BY <2>2, ClaimStep, <1>a, <1>b, SMTT(60) DEF StorageInv, SeqInv
  <2> QED BY <1>2, <2>1, <2>2 DEF push_cas, Claims, Retries
<1>3. ASSUME NEW p \in Producers, push_construct(p) PROVE StorageInv'
  <2> SUFFICES ASSUME ~destroyed'
               PROVE  /\ \A q \in m_enqueue_pos..(freed + m_cap - 1) : m_storage'[Cell(q)] = None
                      /\ \A q \in freed..(m_enqueue_pos - 1) :
                            m_seq'[Cell(q)] = q + 1 /\ ~(consumer = "free" /\ q = freed)
                                => m_storage'[Cell(q)] = claimed[q + 1]
                      /\ consumer = "free" => /\ m_storage'[Cell(freed)] = None
                                              /\ out = claimed[freed + 1]
    BY <1>3, ConstructStep DEF StorageInv
  <2>1. ~destroyed
    BY <1>3, ConstructStep
  <2>2. \A q \in m_enqueue_pos..(freed + m_cap - 1) : m_storage'[Cell(q)] = None
    BY <1>3, <2>1, ConstructStep, <1>a, <1>b, SMTT(60) DEF StorageInv
  <2>3. ASSUME NEW q \in freed..(m_enqueue_pos - 1), m_seq'[Cell(q)] = q + 1,
               ~(consumer = "free" /\ q = freed)
        PROVE  m_storage'[Cell(q)] = claimed[q + 1]
    BY <1>3, <2>1, <2>3, ConstructStep, <1>a, <1>b, SMTT(60) DEF StorageInv
  <2>4. consumer = "free" => m_storage'[Cell(freed)] = None /\ out = claimed[freed + 1]
    BY <1>3, <2>1, ConstructStep, <1>a, <1>b, SMTT(60) DEF StorageInv, PositionInv
  <2> QED BY <2>2, <2>3, <2>4
<1>4. ASSUME NEW p \in Producers, push_publish(p) PROVE StorageInv'
  <2> SUFFICES ASSUME ~destroyed'
               PROVE  /\ \A q \in m_enqueue_pos..(freed + m_cap - 1) : m_storage'[Cell(q)] = None
                      /\ \A q \in freed..(m_enqueue_pos - 1) :
                            m_seq'[Cell(q)] = q + 1 /\ ~(consumer = "free" /\ q = freed)
                                => m_storage'[Cell(q)] = claimed[q + 1]
                      /\ consumer = "free" => /\ m_storage'[Cell(freed)] = None
                                              /\ out = claimed[freed + 1]
    BY <1>4, PublishStep DEF StorageInv
  <2>1. ~destroyed
    BY <1>4, PublishStep
  <2>2. \A q \in m_enqueue_pos..(freed + m_cap - 1) : m_storage'[Cell(q)] = None
    BY <1>4, <2>1, PublishStep, <1>a, <1>b DEF StorageInv
  <2>3. ASSUME NEW q \in freed..(m_enqueue_pos - 1), m_seq'[Cell(q)] = q + 1,
               ~(consumer = "free" /\ q = freed)
        PROVE  m_storage'[Cell(q)] = claimed[q + 1]
    BY <1>4, <2>1, <2>3, PublishStep, <1>a, <1>b, SMTT(60) DEF StorageInv
  <2>4. consumer = "free" => m_storage'[Cell(freed)] = None /\ out = claimed[freed + 1]
    BY <1>4, <2>1, PublishStep, <1>a, <1>b DEF StorageInv, PositionInv
  <2> QED BY <2>2, <2>3, <2>4
<1>5. CASE pop_load \/ pop_cas
  BY <1>5, <1>a DEF pop_load, pop_cas, StorageInv, freed
<1>6. CASE pop_move
  BY <1>6, MoveStep, <1>a, <1>b, SMTT(60) DEF StorageInv
<1>7. CASE pop_free
  BY <1>7, FreeStep, <1>a, <1>b, SMTT(60) DEF StorageInv
<1>8. CASE destroy_all_
  BY <1>8 DEF destroy_all_, StorageInv
<1>9. CASE UNCHANGED vars
  BY <1>9, <1>a DEF vars, StorageInv, freed
<1> QED BY <1>1, <1>2, <1>3, <1>4, <1>5, <1>6, <1>7, <1>8, <1>9 DEF Next, try_push, try_pop

\* A producer that owns a position keeps its cell, and nobody else owns it.
LEMMA OwnerKept == IInv /\ [Next]_vars => OwnerInv'
<1> SUFFICES ASSUME IInv, [Next]_vars PROVE OwnerInv'
  OBVIOUS
<1>a. TypeOK /\ PositionInv /\ SeqInv /\ StorageInv /\ OwnerInv /\ DestroyedInv
  BY DEF IInv
<1>b. /\ m_enqueue_pos \in Nat /\ m_dequeue_pos \in Nat /\ freed \in Nat
      /\ freed <= m_dequeue_pos /\ m_cap \in Nat /\ m_cap >= 2
      /\ m_enqueue_pos <= freed + m_cap
  BY ItemFacts, CapFacts, <1>a DEF PositionInv
<1>c. \A r \in Producers : Owns(r) => /\ pos[r] \in m_dequeue_pos..(m_enqueue_pos - 1)
                                      /\ pos[r] \in freed..(freed + m_cap - 1)
  BY <1>a, <1>b, SMTT(60) DEF OwnerInv
<1> USE DEF GoTo, consumerVars, producerVars
<1>1. ASSUME NEW p \in Producers,
             \/ push_load_pos(p) \/ push_load_seq(p) \/ push_reload(p) \/ Retries(p)
      PROVE  OwnerInv'
  <2>1. /\ ~Owns(p) /\ ~Owns(p)'
        /\ \A r \in Producers \ {p} : pc'[r] = pc[r] /\ pos'[r] = pos[r] /\ item'[r] = item[r]
        /\ m_enqueue_pos' = m_enqueue_pos /\ m_dequeue_pos' = m_dequeue_pos
        /\ m_seq' = m_seq /\ m_storage' = m_storage /\ claimed' = claimed
    BY <1>1, <1>a DEF push_load_pos, push_load_seq, push_reload, Retries, push_cas, Owns, TypeOK
  <2> QED BY <2>1, <1>a, SMTT(60) DEF OwnerInv, Owns
<1>2. ASSUME NEW p \in Producers, Claims(p) PROVE OwnerInv'
  <2>1. /\ ~Owns(p) /\ Owns(p)' /\ pc'[p] = "construct"
        /\ \A r \in Producers \ {p} : pc'[r] = pc[r]
        /\ \A r \in Producers \ {p} : Owns(r)' <=> Owns(r)
    BY <1>2, ClaimStep, <1>a, SMTT(60) DEF Owns, TypeOK
  <2>2. m_storage[Cell(m_enqueue_pos)] = None
    <3>1. ~destroyed
      BY <1>2, ClaimStep, <1>a DEF DestroyedInv
    <3> QED BY <1>2, ClaimStep, <1>a, <1>b, <3>1, SMTT(60) DEF StorageInv
  <2>3. ASSUME NEW r \in Producers, Owns(r)'
        PROVE  /\ pos'[r] \in m_dequeue_pos'..(m_enqueue_pos' - 1)
               /\ m_seq'[Cell(pos'[r])] = pos'[r]
               /\ claimed'[pos'[r] + 1] = item'[r]
               /\ m_storage'[Cell(pos'[r])] = IF pc'[r] = "publish" THEN item'[r] ELSE None
    <3>1. CASE r = p
      BY <1>2, <2>1, <2>2, <3>1, ClaimStep, <1>a, <1>b, SMTT(60) DEF PositionInv
    <3>2. CASE r # p
      <4>1. Owns(r) /\ pos[r] + 1 \in 1..m_enqueue_pos
        BY <2>1, <2>3, <3>2, <1>b, <1>c, SMTT(60)
      <4> QED BY <1>2, <2>1, <3>2, <4>1, ClaimStep, <1>a, <1>b, SMTT(60) DEF OwnerInv
    <3> QED BY <3>1, <3>2
  <2>4. ASSUME NEW r \in Producers, NEW t \in Producers, Owns(r)', Owns(t)', pos'[r] = pos'[t]
        PROVE  r = t
    BY <1>2, <2>1, <2>4, ClaimStep, <1>a, <1>b, <1>c, SMTT(60) DEF OwnerInv
  <2>5. ASSUME NEW q \in m_dequeue_pos'..(m_enqueue_pos' - 1), m_seq'[Cell(q)] = q
        PROVE  \E r \in Producers : Owns(r)' /\ pos'[r] = q
    <3>1. CASE q = m_enqueue_pos
      BY <1>2, <2>1, <3>1, ClaimStep
    <3>2. CASE q # m_enqueue_pos
      <4>1. PICK r \in Producers : Owns(r) /\ pos[r] = q
        BY <1>2, <2>5, <3>2, ClaimStep, <1>a, <1>b, SMTT(60) DEF OwnerInv
      <4> QED BY <1>2, <2>1, <4>1, ClaimStep
    <3> QED BY <3>1, <3>2
  <2> QED BY <2>3, <2>4, <2>5 DEF OwnerInv
<1>3. ASSUME NEW p \in Producers, push_construct(p) PROVE OwnerInv'
  <2>1. /\ Owns(p) /\ pc'[p] = "publish"
        /\ \A r \in Producers \ {p} : pc'[r] = pc[r]
        /\ \A r \in Producers : Owns(r)' <=> Owns(r)
    BY <1>3, <1>a DEF push_construct, Owns, TypeOK
  <2>2. \A r \in Producers \ {p} : Owns(r) => pos[r] # pos[p]
    BY <1>a, <2>1 DEF OwnerInv
  <2>3. ASSUME NEW r \in Producers, Owns(r)
        PROVE  m_storage'[Cell(pos[r])] = IF pc'[r] = "publish" THEN item[r] ELSE None
    BY <1>3, <2>1, <2>2, <2>3, ConstructStep, <1>a, <1>c, SMTT(60) DEF OwnerInv
  <2> QED BY <1>3, <2>1, <2>3, ConstructStep, <1>a, SMTT(60) DEF OwnerInv
<1>4. ASSUME NEW p \in Producers, push_publish(p) PROVE OwnerInv'
  <2>1. /\ Owns(p) /\ ~Owns(p)'
        /\ \A r \in Producers \ {p} : pc'[r] = pc[r] /\ (Owns(r)' <=> Owns(r))
    BY <1>4, <1>a DEF push_publish, Owns, TypeOK
  <2>2. \A r \in Producers \ {p} : Owns(r) => pos[r] # pos[p]
    BY <1>a, <2>1 DEF OwnerInv
  <2>3. ASSUME NEW r \in Producers, Owns(r)'
        PROVE  r # p /\ Owns(r) /\ pc'[r] = pc[r] /\ m_seq'[Cell(pos[r])] = m_seq[Cell(pos[r])]
    BY <1>4, <2>1, <2>2, <2>3, PublishStep, <1>c
  <2>4. ASSUME NEW q \in m_dequeue_pos..(m_enqueue_pos - 1), m_seq'[Cell(q)] = q
        PROVE  \E r \in Producers : Owns(r)' /\ pos[r] = q
    <3>1. q # pos[p] /\ m_seq[Cell(q)] = q
      BY <1>4, <2>4, PublishStep, <1>a, <1>b, SMTT(60)
    <3>2. PICK r \in Producers : Owns(r) /\ pos[r] = q
      BY <3>1, <1>a DEF OwnerInv
    <3> QED BY <2>1, <3>1, <3>2
  <2> QED BY <1>4, <2>3, <2>4, PublishStep, <1>a, SMTT(60) DEF OwnerInv
<1>5. CASE pop_load \/ pop_cas
  <2>1. CASE UNCHANGED m_dequeue_pos
    BY <1>5, <2>1, <1>a, SMTT(60) DEF pop_load, pop_cas, OwnerInv, Owns
  <2>2. CASE pop_cas /\ m_dequeue_pos' = m_dequeue_pos + 1
    <3>1. m_seq[Cell(m_dequeue_pos)] = m_dequeue_pos + 1
      BY <2>2, <1>a DEF pop_cas, SeqInv, PositionInv
    <3>2. ASSUME NEW r \in Producers, Owns(r)
          PROVE  pos[r] \in m_dequeue_pos'..(m_enqueue_pos - 1)
      BY <2>2, <3>1, <3>2, <1>a, <1>b, SMTT(60) DEF OwnerInv
    <3> QED BY <2>2, <3>2, <1>a, <1>b, SMTT(60) DEF pop_cas, OwnerInv, Owns
  <2> QED BY <1>5, <2>1, <2>2 DEF pop_load, pop_cas
<1>6. CASE pop_move
  <2>1. ASSUME NEW r \in Producers, Owns(r)
        PROVE  m_storage'[Cell(pos[r])] = m_storage[Cell(pos[r])]
    BY <1>6, <2>1, MoveStep, <1>b, <1>c, SMTT(60)
  <2> QED BY <1>6, <2>1, MoveStep, <1>a, SMTT(60) DEF OwnerInv, Owns
<1>7. CASE pop_free
  <2>1. \A q \in m_dequeue_pos..(m_enqueue_pos - 1) : m_seq'[Cell(q)] = m_seq[Cell(q)]
    BY <1>7, FreeStep, <1>b, SMTT(60)
  <2> QED BY <1>7, <2>1, FreeStep, <1>a, SMTT(60) DEF OwnerInv, Owns
<1>8. CASE destroy_all_
  BY <1>8, <1>a DEF destroy_all_, OwnerInv, Owns
<1>9. CASE UNCHANGED vars
  BY <1>9, <1>a, SMTT(60) DEF vars, OwnerInv, Owns
<1>10. ASSUME NEW p \in Producers, push_cas(p) PROVE Claims(p) \/ Retries(p)
  BY <1>10 DEF push_cas, Claims, Retries
<1> QED BY <1>1, <1>2, <1>3, <1>4, <1>5, <1>6, <1>7, <1>8, <1>9, <1>10 DEF Next, try_push, try_pop

\* A producer about to compare_exchange with a current pos still sees a free cell:
\* the cell changes only when its position is claimed.
LEMMA LocalPosKept == IInv /\ [Next]_vars => LocalPosInv'
<1> SUFFICES ASSUME IInv, [Next]_vars PROVE LocalPosInv'
  OBVIOUS
<1>a. TypeOK /\ PositionInv /\ LocalPosInv
  BY DEF IInv
<1>b. /\ m_enqueue_pos \in Nat /\ m_dequeue_pos \in Nat /\ freed \in Nat
      /\ freed <= m_dequeue_pos /\ m_cap \in Nat /\ m_cap >= 2
      /\ m_enqueue_pos <= freed + m_cap
  BY ItemFacts, CapFacts, <1>a DEF PositionInv
<1> USE DEF GoTo, consumerVars, producerVars
<1>1. ASSUME NEW p \in Producers, push_load_pos(p) \/ push_reload(p) \/ Retries(p)
      PROVE  LocalPosInv'
  <2>1. /\ pc'[p] = "load_seq" /\ pos'[p] = m_enqueue_pos
        /\ \A r \in Producers \ {p} : pc'[r] = pc[r] /\ pos'[r] = pos[r]
        /\ m_enqueue_pos' = m_enqueue_pos /\ m_seq' = m_seq
    BY <1>1, <1>a DEF push_load_pos, push_reload, Retries, push_cas, TypeOK
  <2> QED BY <1>a, <1>b, <2>1, SMTT(60) DEF LocalPosInv
<1>2. ASSUME NEW p \in Producers, push_load_seq(p) PROVE LocalPosInv'
  <2>1. pos[p] \in Nat /\ m_seq[Cell(pos[p])] \in Nat
    BY <1>a, LapCells DEF TypeOK
  <2>2. pc'[p] = "cas" => m_seq[Cell(pos[p])] = pos[p]
    BY <1>2, <1>a, <2>1, SMTT(60) DEF push_load_seq, Diff, TypeOK
  <2>3. /\ \A r \in Producers \ {p} : pc'[r] = pc[r]
        /\ pos' = pos /\ m_enqueue_pos' = m_enqueue_pos /\ m_seq' = m_seq
    BY <1>2, <1>a DEF push_load_seq, TypeOK
  <2> QED BY <1>a, <2>2, <2>3 DEF LocalPosInv
<1>3. ASSUME NEW p \in Producers, Claims(p) PROVE LocalPosInv'
  <2>1. \A r \in Producers : pos[r] \in Nat
    BY <1>a DEF TypeOK
  <2> QED BY <1>3, ClaimStep, <1>a, <1>b, <2>1, SMTT(60) DEF LocalPosInv
<1>4. ASSUME NEW p \in Producers, push_construct(p) PROVE LocalPosInv'
  BY <1>4, <1>a DEF push_construct, LocalPosInv, TypeOK
<1>5. ASSUME NEW p \in Producers, push_publish(p) PROVE LocalPosInv'
  <2>1. /\ pc'[p] = "idle" /\ \A r \in Producers \ {p} : pc'[r] = pc[r]
    BY <1>5, <1>a DEF push_publish, TypeOK
  <2>2. ASSUME m_seq[Cell(m_enqueue_pos)] = m_enqueue_pos
        PROVE  m_seq'[Cell(m_enqueue_pos)] = m_enqueue_pos
    <3>1. m_enqueue_pos \in freed..(freed + m_cap - 1)
      BY <1>a, <1>b, <2>2, FreeCellInLap, SMTT(60) DEF PositionInv
    <3> QED BY <1>5, <1>b, <2>2, <3>1, PublishStep, SMTT(60)
  <2> QED BY <1>5, <1>a, <2>1, <2>2, PublishStep, SMTT(60) DEF LocalPosInv
<1>6. CASE pop_load \/ pop_cas \/ pop_move
  BY <1>6, <1>a DEF pop_load, pop_cas, pop_move, LocalPosInv
<1>7. CASE pop_free
  <2>1. ASSUME m_seq[Cell(m_enqueue_pos)] = m_enqueue_pos
        PROVE  m_seq'[Cell(m_enqueue_pos)] = m_enqueue_pos
    <3>1. m_enqueue_pos < freed + m_cap
      BY <2>1, FreeCellInLap
    <3> QED BY <1>7, <1>b, <2>1, <3>1, FreeStep, SMTT(60)
  <2> QED BY <1>7, <1>a, <2>1, FreeStep DEF LocalPosInv
<1>8. CASE destroy_all_ \/ UNCHANGED vars
  BY <1>8, <1>a DEF destroy_all_, vars, LocalPosInv
<1>9. ASSUME NEW p \in Producers, push_cas(p) PROVE Claims(p) \/ Retries(p)
  BY <1>9 DEF push_cas, Claims, Retries
<1> QED BY <1>1, <1>2, <1>3, <1>4, <1>5, <1>6, <1>7, <1>8, <1>9 DEF Next, try_push, try_pop

\* The calls of a producer are numbered, and each claims at most one position.
LEMMA ItemKept == IInv /\ [Next]_vars => ItemInv'
<1> SUFFICES ASSUME IInv, [Next]_vars PROVE ItemInv'
  OBVIOUS
<1>a. TypeOK /\ ItemInv
  BY DEF IInv
<1>b. m_enqueue_pos \in Nat /\ \A i \in 1..m_enqueue_pos : claimed[i] \in Items
  BY ItemFacts
<1>c. /\ \A p \in Producers : item[p] \in Producers \X Nat /\ item[p][2] \in Nat
      /\ \A i \in 1..m_enqueue_pos : claimed[i][2] \in Nat
  BY <1>a, <1>b, RingAssumption, SMTT(60) DEF TypeOK, Items
<1> USE DEF GoTo, consumerVars, producerVars
<1>1. ASSUME NEW p \in Producers, push_load_pos(p) PROVE ItemInv'
  <2>1. /\ item'[p] = <<p, item[p][2] + 1>> /\ pc'[p] = "load_seq"
        /\ \A r \in Producers \ {p} : item'[r] = item[r] /\ pc'[r] = pc[r]
        /\ m_enqueue_pos' = m_enqueue_pos /\ claimed' = claimed
    BY <1>1, <1>a DEF push_load_pos, TypeOK
  <2>2. item'[p][1] = p /\ item'[p][2] = item[p][2] + 1
    BY <2>1, SMTT(60)
  <2> QED BY <1>a, <1>c, <2>1, <2>2, SMTT(60) DEF ItemInv, Pushing
<1>2. ASSUME NEW p \in Producers, push_load_seq(p) \/ push_reload(p) \/ Retries(p)
      PROVE  ItemInv'
  <2>1. /\ Pushing(p) /\ pc[p] # "idle" /\ item' = item
        /\ \A r \in Producers \ {p} : pc'[r] = pc[r]
        /\ m_enqueue_pos' = m_enqueue_pos /\ claimed' = claimed
    BY <1>2, <1>a DEF push_load_seq, push_reload, Retries, push_cas, Pushing, TypeOK
  <2> QED BY <1>a, <1>c, <2>1 DEF ItemInv, Pushing
<1>3. ASSUME NEW p \in Producers, Claims(p) PROVE ItemInv'
  <2>1. /\ Pushing(p) /\ ~Pushing(p)' /\ pc[p] # "idle"
        /\ \A r \in Producers \ {p} : pc'[r] = pc[r] /\ (Pushing(r)' <=> Pushing(r))
    BY <1>3, ClaimStep, <1>a, SMTT(60) DEF Pushing, TypeOK
  <2>2. \A i \in 1..(m_enqueue_pos + 1) :
            claimed'[i] = IF i = m_enqueue_pos + 1 THEN item[p] ELSE claimed[i]
    BY <1>3, <1>b, ClaimStep, SMTT(60)
  <2>3. \A i \in 1..m_enqueue_pos : claimed[i] # item[p]
    BY <1>a, <1>c, <2>1, SMTT(60) DEF ItemInv
  <2>4. ASSUME NEW r \in Producers, NEW i \in 1..(m_enqueue_pos + 1), claimed'[i][1] = r
        PROVE  claimed'[i][2] <= item[r][2] /\ (Pushing(r)' => claimed'[i][2] < item[r][2])
    <3>1. CASE i = m_enqueue_pos + 1
      BY <1>a, <1>c, <2>1, <2>2, <2>4, <3>1, SMTT(60) DEF ItemInv
    <3>2. CASE i \in 1..m_enqueue_pos
      BY <1>a, <1>b, <1>c, <2>1, <2>2, <2>4, <3>2, SMTT(60) DEF ItemInv
    <3> QED BY <1>b, <3>1, <3>2, SMTT(60)
  <2>5. ASSUME NEW i \in 1..(m_enqueue_pos + 1), NEW j \in 1..(m_enqueue_pos + 1),
               claimed'[i] = claimed'[j]
        PROVE  i = j
    BY <1>a, <1>b, <2>2, <2>3, <2>5, SMTT(60) DEF ItemInv
  <2> QED BY <1>3, ClaimStep, <1>a, <2>1, <2>4, <2>5 DEF ItemInv
<1>4. ASSUME NEW p \in Producers, push_construct(p) \/ push_publish(p) PROVE ItemInv'
  <2>1. /\ pc[p] # "idle" /\ ~Pushing(p)' /\ item' = item
        /\ \A r \in Producers \ {p} : pc'[r] = pc[r]
        /\ m_enqueue_pos' = m_enqueue_pos /\ claimed' = claimed
    BY <1>4, <1>a DEF push_construct, push_publish, Pushing, TypeOK
  <2> QED BY <1>a, <2>1 DEF ItemInv, Pushing
<1>5. CASE pop_load \/ pop_cas \/ pop_move \/ pop_free \/ destroy_all_ \/ UNCHANGED vars
  BY <1>5, <1>a DEF pop_load, pop_cas, pop_move, pop_free, destroy_all_, vars, ItemInv, Pushing
<1>6. ASSUME NEW p \in Producers, push_cas(p) PROVE Claims(p) \/ Retries(p)
  BY <1>6 DEF push_cas, Claims, Retries
<1> QED BY <1>1, <1>2, <1>3, <1>4, <1>5, <1>6 DEF Next, try_push, try_pop

\* destroy_all_() finds every object: with nobody inside, each claimed position is
\* published, and the cells of the others hold nothing.
LEMMA DestroyedKept == IInv /\ [Next]_vars => DestroyedInv'
<1> SUFFICES ASSUME IInv, [Next]_vars PROVE DestroyedInv'
  OBVIOUS
<1>a. TypeOK /\ PositionInv /\ SeqInv /\ StorageInv /\ OwnerInv /\ DestroyedInv
  BY DEF IInv
<1>b. /\ m_enqueue_pos \in Nat /\ m_dequeue_pos \in Nat /\ freed \in Nat
      /\ m_cap \in Nat
  BY ItemFacts, CapFacts
<1> USE DEF GoTo, consumerVars, producerVars
<1>1. ASSUME NEW p \in Producers, try_push(p) PROVE DestroyedInv'
  <2>1. ~destroyed
    BY <1>1, <1>a DEF DestroyedInv, try_push, push_load_pos, push_load_seq, push_reload,
       push_cas, push_construct, push_publish
  <2>2. destroyed' = destroyed
    BY <1>1 DEF try_push, push_load_pos, push_load_seq, push_reload, push_cas, push_construct,
       push_publish
  <2> QED BY <2>1, <2>2 DEF DestroyedInv
<1>2. CASE try_pop
  <2>1. ~destroyed
    BY <1>2, <1>a DEF DestroyedInv, try_pop, pop_load, pop_cas, pop_move, pop_free
  <2>2. destroyed' = destroyed
    BY <1>2 DEF try_pop, pop_load, pop_cas, pop_move, pop_free
  <2> QED BY <2>1, <2>2 DEF DestroyedInv
<1>3. CASE destroy_all_
  <2>1. ASSUME NEW i \in Cells PROVE m_storage'[i] = None
    <3>1. PICK q \in freed..(freed + m_cap - 1) : Cell(q) = i
      BY <1>b, CellOnto
    <3>2. ~destroyed /\ consumer = "idle" /\ m_dequeue_pos = freed
      BY <1>3, <1>a DEF destroy_all_, PositionInv
    <3>3. m_storage'[i] = IF \E r \in Outstanding : Cell(r) = i /\ m_seq[i] = r + 1
                          THEN None ELSE m_storage[i]
      BY <1>3 DEF destroy_all_
    <3>4. CASE q < m_enqueue_pos
      <4>1. q \in Outstanding /\ q \in m_dequeue_pos..(m_enqueue_pos - 1)
        BY <1>b, <3>2, <3>4, SMTT(60) DEF Outstanding
      <4>2. m_seq[Cell(q)] # q
        BY <1>3, <1>a, <4>1 DEF destroy_all_, OwnerInv, Owns
      <4>3. m_seq[i] = q + 1
        BY <1>a, <3>1, <3>2, <4>1, <4>2 DEF SeqInv
      <4> QED BY <3>1, <3>3, <4>1, <4>3
    <3>5. CASE q >= m_enqueue_pos
      BY <1>a, <1>b, <3>1, <3>2, <3>3, <3>5, SMTT(60) DEF StorageInv
    <3> QED BY <1>b, <3>4, <3>5, SMTT(60)
  <2> QED BY <1>3, <2>1 DEF destroy_all_, DestroyedInv
<1>4. CASE UNCHANGED vars
  BY <1>4, <1>a DEF vars, DestroyedInv
<1> QED BY <1>1, <1>2, <1>3, <1>4 DEF Next

\* The inductive invariant of the ring.
THEOREM Invariance == Spec => []IInv
<1>1. IInv /\ [Next]_vars => IInv'
  BY TypeKept, PositionKept, SeqKept, StorageKept, OwnerKept, LocalPosKept, ItemKept,
     DestroyedKept DEF IInv
<1> QED BY InitIInv, <1>1, PTL DEF Spec
-----------------------------------------------------------------------------
(* The theorems *)

\* Whatever the capacity and the producers, a producer constructs in a cell where
\* no object lives and publishes what it constructed, no two producers share a
\* cell, the consumer moves the element of its position, and destroy_all_() ends
\* the life of every object: RingSafety.
THEOREM RingIsSafe == Spec => []RingSafety
<1>1. ASSUME IInv PROVE CellOwnership
  <2>1. TypeOK /\ PositionInv /\ SeqInv /\ StorageInv /\ OwnerInv /\ DestroyedInv
    BY <1>1 DEF IInv
  <2>2. /\ m_enqueue_pos \in Nat /\ m_dequeue_pos \in Nat /\ freed \in Nat
        /\ freed <= m_dequeue_pos /\ m_enqueue_pos <= freed + m_cap /\ m_cap \in Nat
    BY <1>1, <2>1, ItemFacts, CapFacts DEF PositionInv
  <2>3. ASSUME NEW p \in Producers
        PROVE  /\ pc[p] = "construct" => m_storage[Cell(pos[p])] = None
               /\ pc[p] = "publish" => m_storage[Cell(pos[p])] = item[p]
    BY <2>1 DEF OwnerInv, Owns
  <2>4. ASSUME NEW p \in Producers, NEW q \in Producers, p # q,
               {pc[p], pc[q]} \subseteq {"construct", "publish"}
        PROVE  Cell(pos[p]) # Cell(pos[q])
    <3>1. Owns(p) /\ Owns(q)
      BY <2>4 DEF Owns
    <3>2. /\ pos[p] \in freed..(freed + m_cap - 1) /\ pos[q] \in freed..(freed + m_cap - 1)
          /\ pos[p] # pos[q]
      BY <2>1, <2>2, <2>4, <3>1, SMTT(60) DEF OwnerInv
    <3> QED BY <2>2, <3>2, LapDistinct
  <2>5. consumer = "move" => m_storage[Cell(m_dequeue_pos - 1)] = claimed[m_dequeue_pos]
    <3> SUFFICES ASSUME consumer = "move"
                 PROVE  m_storage[Cell(m_dequeue_pos - 1)] = claimed[m_dequeue_pos]
      OBVIOUS
    <3>1. /\ ~destroyed /\ m_dequeue_pos = freed + 1 /\ m_dequeue_pos - 1 = freed
          /\ freed \in freed..(m_enqueue_pos - 1)
      BY <2>1, <2>2, SMTT(60) DEF DestroyedInv, PositionInv
    <3>2. m_storage[Cell(freed)] = claimed[freed + 1]
      BY <2>1, <3>1 DEF SeqInv, StorageInv
    <3> QED BY <3>1, <3>2
  <2> QED BY <2>3, <2>4, <2>5 DEF CellOwnership
<1>2. IInv => RingSafety
  BY <1>1 DEF IInv, RingSafety, DestroyedInv, NoLeakAfterDestroy
<1> QED BY Invariance, <1>2, PTL

\* try_push() returns false only when m_cap positions are claimed and not freed:
\* a stale pos sees a larger sequence number and loads m_enqueue_pos again.
THEOREM PushFailsOnlyWhenFullHolds == Spec => PushFailsOnlyWhenFull
<1> DEFINE Full == m_enqueue_pos = Len(delivered) + m_cap
           Fails(p) == pc[p] = "load_seq" /\ pc'[p] = "idle"
<1>1. ASSUME IInv, NEW p \in Producers, push_load_seq(p), Diff(p) < 0 PROVE Full
  <2>1. TypeOK /\ PositionInv /\ SeqInv /\ LocalPosInv
    BY <1>1 DEF IInv
  <2>2. /\ m_enqueue_pos \in Nat /\ freed \in Nat /\ m_cap \in Nat /\ m_cap >= 2
        /\ m_enqueue_pos <= freed + m_cap
    BY <1>1, <2>1, ItemFacts, CapFacts DEF PositionInv
  <2>3. pos[p] \in Nat /\ pos[p] <= m_enqueue_pos /\ Cell(pos[p]) \in Cells
    BY <2>1, LapCells DEF TypeOK, LocalPosInv
  <2>4. m_seq[Cell(pos[p])] \in Nat /\ m_seq[Cell(pos[p])] < pos[p]
    BY <1>1, <2>1, <2>3, SMTT(60) DEF Diff, TypeOK
  <2>5. PICK q \in freed..(freed + m_cap - 1) : Cell(q) = Cell(pos[p])
    BY <2>2, <2>3, CellOnto
  <2>6. m_seq[Cell(q)] >= q
    <3>1. CASE q < m_enqueue_pos
      BY <2>1, <2>2, <3>1, SMTT(60) DEF SeqInv
    <3>2. CASE q >= m_enqueue_pos
      BY <2>1, <2>2, <3>2, SMTT(60) DEF SeqInv
    <3> QED BY <2>2, <3>1, <3>2, SMTT(60)
  <2>7. pos[p] = q + m_cap
    <3>1. q < pos[p] /\ q \in Nat /\ pos[p] <= freed + m_cap
      BY <2>2, <2>3, <2>4, <2>5, <2>6, SMTT(60)
    <3>2. ~(pos[p] < q + m_cap)
      BY <2>3, <2>5, <3>1, LapCells
    <3> QED BY <2>2, <2>3, <3>1, <3>2, SMTT(60)
  <2> QED BY <2>2, <2>3, <2>7, SMTT(60) DEF freed
<1>2. ASSUME IInv, [Next]_vars, NEW p \in Producers, Fails(p) PROVE Full
  <2>1. pc \in [Producers -> {"idle", "load_seq", "reload", "cas", "construct", "publish"}]
    BY <1>2 DEF IInv, TypeOK
  <2>2. ASSUME NEW r \in Producers, try_push(r) PROVE push_load_seq(p) /\ Diff(p) < 0
    BY <1>2, <2>1, <2>2 DEF try_push, push_load_pos, push_load_seq, push_reload, push_cas,
       push_construct, push_publish, GoTo
  <2>3. pc' # pc
    BY <1>2
  <2>4. ~try_pop /\ ~destroy_all_ /\ ~UNCHANGED vars
    BY <2>3 DEF try_pop, pop_load, pop_cas, pop_move, pop_free, destroy_all_, vars, producerVars
  <2>5. PICK r \in Producers : try_push(r)
    BY <1>2, <2>4 DEF Next
  <2> QED BY <1>1, <1>2, <2>2, <2>5
<1>3. IInv /\ [Next]_vars => [\A p \in Producers : Fails(p) => Full]_vars
  BY <1>2
<1> QED BY Invariance, <1>3, PTL DEF Spec, PushFailsOnlyWhenFull
-----------------------------------------------------------------------------
(* The ring implements MpscQueue *)

\* The cell of the queue at index i of Occupied.
CellAt(i) ==
    [item |-> claimed[freed + i],
     published |-> m_seq[Cell(freed + i - 1)] = freed + i]

\* The refinement mapping, index by index.
OccupiedShape ==
    /\ Occupied = [i \in 1..(m_enqueue_pos - freed) |-> CellAt(i)]
    /\ m_enqueue_pos \in Nat /\ freed \in Nat /\ m_enqueue_pos - freed \in Nat

\* Until the ring is destroyed, Occupied has one cell for each position claimed and
\* not freed.
LEMMA OccupiedIs == IInv /\ ~destroyed => OccupiedShape
<1> SUFFICES ASSUME IInv, ~destroyed PROVE OccupiedShape
  OBVIOUS
<1>1. /\ m_enqueue_pos \in Nat /\ freed \in Nat /\ m_enqueue_pos - freed \in Nat
  BY ItemFacts, SMTT(60) DEF IInv, PositionInv
<1>2. ASSUME NEW i \in 1..(m_enqueue_pos - freed)
      PROVE  freed + i - 1 + 1 = freed + i
  BY <1>1, SMTT(60)
<1>3. Occupied = [i \in 1..(m_enqueue_pos - freed) |-> CellAt(i)]
  BY <1>1, <1>2 DEF Occupied, CellAt, freed
<1> QED BY <1>1, <1>3 DEF OccupiedShape

\* The same in the next state.
LEMMA OccupiedIsNext == (IInv /\ ~destroyed => OccupiedShape)'
BY OccupiedIs, PTL

\* The compare_exchange that succeeds is Claim.
LEMMA ClaimRefines ==
    ASSUME IInv, IInv', NEW p \in Producers, Claims(p)
    PROVE  Abstract!Claim(item[p])
<1>1. ~destroyed /\ ~destroyed'
  BY ClaimStep DEF IInv, DestroyedInv
<1>2. OccupiedShape /\ OccupiedShape'
  BY <1>1, OccupiedIs, OccupiedIsNext
<1>3. PICK n \in Nat : n = m_enqueue_pos - freed
  BY <1>2 DEF OccupiedShape
<1>4. m_enqueue_pos \in Nat /\ freed \in Nat
  BY <1>2 DEF OccupiedShape
<1>5. /\ freed' = freed /\ m_enqueue_pos' - freed' = n + 1 /\ n < m_cap
      /\ freed + (n + 1) = m_enqueue_pos + 1 /\ freed + (n + 1) - 1 = m_enqueue_pos
  BY <1>3, <1>4, ClaimStep, CapFacts, SMTT(60)
<1>6. Occupied = [i \in 1..n |-> CellAt(i)] /\ Occupied' = [i \in 1..(n + 1) |-> CellAt(i)']
  BY <1>2, <1>3, <1>5 DEF OccupiedShape
<1>7. ASSUME NEW i \in 1..n PROVE CellAt(i)' = CellAt(i)
  <2>1. freed + i \in 1..m_enqueue_pos
    BY <1>3, <1>4, SMTT(60)
  <2> QED BY <1>5, <2>1, ClaimStep DEF CellAt
<1>8. CellAt(n + 1)' = [item |-> item[p], published |-> FALSE]
  <2>1. (m_seq'[Cell(m_enqueue_pos)] = m_enqueue_pos + 1) = FALSE
    BY <1>4, ClaimStep, SMTT(60)
  <2> QED BY <1>5, <2>1, ClaimStep DEF CellAt
<1>9. Occupied' = Append(Occupied, [item |-> item[p], published |-> FALSE])
  <2> DEFINE e == [item |-> item[p], published |-> FALSE]
  <2>1. CellAt(n + 1)' = e
    BY <1>8
  <2> HIDE DEF e
  <2>2. Occupied' = Append(Occupied, e)
    BY <1>6, <1>7, <2>1, SMTT(60)
  <2> QED BY <2>2 DEF e
<1>10. Len(Occupied) = n
  BY <1>6, SMTT(60)
<1>11. delivered' = delivered
  BY DEF Claims, push_cas, consumerVars
<1> QED BY <1>5, <1>9, <1>10, <1>11 DEF Abstract!Claim, Abstract!Claimed

\* The release store of a producer is Publish.
LEMMA PublishRefines ==
    ASSUME IInv, IInv', NEW p \in Producers, push_publish(p)
    PROVE  Abstract!Publish(item[p])
<1>1. ~destroyed /\ ~destroyed'
  BY PublishStep DEF push_publish, IInv, DestroyedInv
<1>2. OccupiedShape /\ OccupiedShape'
  BY <1>1, OccupiedIs, OccupiedIsNext
<1>3. PICK n \in Nat : n = m_enqueue_pos - freed
  BY <1>2 DEF OccupiedShape
<1>4. m_enqueue_pos \in Nat /\ freed \in Nat /\ m_enqueue_pos <= freed + m_cap /\ m_cap \in Nat
  BY <1>2, CapFacts DEF OccupiedShape, IInv, PositionInv
<1>5. freed' = freed /\ m_enqueue_pos' = m_enqueue_pos
  BY PublishStep
<1>6. Occupied = [i \in 1..n |-> CellAt(i)] /\ Occupied' = [i \in 1..n |-> CellAt(i)']
  BY <1>2, <1>3, <1>5 DEF OccupiedShape
<1>7. PICK k \in 1..n : freed + k - 1 = pos[p] /\ freed + k = pos[p] + 1
  <2>1. pos[p] - freed + 1 \in 1..n
    BY <1>3, <1>4, PublishStep, SMTT(60)
  <2> WITNESS pos[p] - freed + 1 \in 1..n
  <2> QED BY <1>4, PublishStep, SMTT(60)
<1>8. CellAt(k) = [item |-> item[p], published |-> FALSE]
  <2>1. (m_seq[Cell(pos[p])] = pos[p] + 1) = FALSE
    BY <1>4, PublishStep, SMTT(60)
  <2> QED BY <1>7, <2>1, PublishStep DEF CellAt
<1>9. CellAt(k)' = [item |-> item[p], published |-> TRUE]
  <2>1. (m_seq'[Cell(pos[p])] = pos[p] + 1) = TRUE
    BY PublishStep
  <2> QED BY <1>5, <1>7, <2>1, PublishStep DEF CellAt
<1>10. ASSUME NEW i \in 1..n, i # k PROVE CellAt(i)' = CellAt(i) /\ CellAt(i).item # item[p]
  <2>1. /\ freed + i - 1 \in freed..(freed + m_cap - 1) /\ freed + i - 1 # pos[p]
        /\ freed + i \in 1..m_enqueue_pos /\ freed + i # pos[p] + 1
        /\ pos[p] + 1 \in 1..m_enqueue_pos
    BY <1>3, <1>4, <1>7, <1>10, PublishStep, SMTT(60)
  <2>2. m_seq'[Cell(freed + i - 1)] = m_seq[Cell(freed + i - 1)]
    BY <2>1, PublishStep
  <2>3. claimed[freed + i] # claimed[pos[p] + 1]
    BY <2>1 DEF IInv, ItemInv
  <2> QED BY <1>5, <2>2, <2>3, PublishStep DEF CellAt
<1>11. \E i \in DOMAIN Occupied : Occupied[i].item = item[p] /\ ~Occupied[i].published
  BY <1>6, <1>7, <1>8, SMTT(60)
<1>12. Occupied' = [i \in DOMAIN Occupied |->
                    IF Occupied[i].item = item[p]
                    THEN [Occupied[i] EXCEPT !.published = TRUE] ELSE Occupied[i]]
  <2>1. ASSUME NEW i \in 1..n
        PROVE  CellAt(i)' = IF CellAt(i).item = item[p]
                            THEN [CellAt(i) EXCEPT !.published = TRUE] ELSE CellAt(i)
    <3>1. CASE i = k
      BY <1>8, <1>9, <3>1, SMTT(60)
    <3>2. CASE i # k
      BY <1>10, <3>2
    <3> QED BY <3>1, <3>2
  <2> QED BY <1>6, <2>1
<1>13. delivered' = delivered
  BY DEF push_publish, consumerVars
<1> QED BY <1>11, <1>12, <1>13 DEF Abstract!Publish, Abstract!Published

\* Freeing the front cell is Take.
LEMMA FreeRefines ==
    ASSUME IInv, IInv', pop_free
    PROVE  Abstract!Take
<1>1. ~destroyed /\ ~destroyed'
  BY FreeStep, SMTT(60) DEF IInv, DestroyedInv
<1>2. OccupiedShape /\ OccupiedShape'
  BY <1>1, OccupiedIs, OccupiedIsNext
<1>3. PICK n \in Nat : n = m_enqueue_pos - freed
  BY <1>2 DEF OccupiedShape
<1>4. m_enqueue_pos \in Nat /\ freed \in Nat /\ m_cap \in Nat
  BY <1>2, CapFacts DEF OccupiedShape
<1>5. /\ n >= 1 /\ freed' = freed + 1 /\ m_enqueue_pos' - freed' = n - 1
      /\ m_enqueue_pos <= freed + m_cap
  BY <1>3, <1>4, FreeStep, SMTT(60)
<1>6. Occupied = [i \in 1..n |-> CellAt(i)] /\ Occupied' = [i \in 1..(n - 1) |-> CellAt(i)']
  BY <1>2, <1>3, <1>5 DEF OccupiedShape
<1>7. ASSUME NEW i \in 1..(n - 1) PROVE CellAt(i)' = CellAt(i + 1)
  <2>1. /\ freed + 1 + i = freed + (i + 1) /\ freed + 1 + i - 1 = freed + i
        /\ freed + (i + 1) - 1 = freed + i
        /\ freed + i \in (freed + 1)..(freed + m_cap) /\ freed + i # freed + m_cap
    BY <1>3, <1>4, <1>5, SMTT(60)
  <2>2. m_seq'[Cell(freed + i)] = m_seq[Cell(freed + i)]
    BY <2>1, FreeStep
  <2> QED BY <1>5, <2>1, <2>2, FreeStep DEF CellAt
<1>8. CellAt(1) = [item |-> out, published |-> TRUE]
  <2>1. freed + 1 - 1 = freed /\ (m_seq[Cell(freed)] = freed + 1) = TRUE
    BY <1>4, FreeStep, SMTT(60) DEF IInv, SeqInv
  <2>2. out = claimed[freed + 1]
    BY <1>1, FreeStep DEF IInv, StorageInv
  <2> QED BY <2>1, <2>2 DEF CellAt
<1>9. Occupied # <<>> /\ Head(Occupied) = CellAt(1)
  BY <1>5, <1>6, SMTT(60)
<1>10. Occupied' = Tail(Occupied)
  BY <1>5, <1>6, <1>7, SMTT(60)
<1>11. delivered' = Append(delivered, out)
  BY DEF pop_free
<1> QED BY <1>8, <1>9, <1>10, <1>11, SMTT(60) DEF Abstract!Take, Abstract!CanPop

\* Each step of the ring is a step of the queue or leaves the queue as it is.
LEMMA StepRefines == IInv /\ IInv' /\ [Next]_vars => [Abstract!Next]_<<Occupied, delivered>>
<1> SUFFICES ASSUME IInv, IInv', [Next]_vars
             PROVE  Abstract!Next \/ UNCHANGED <<Occupied, delivered>>
  OBVIOUS
<1> USE DEF consumerVars, producerVars
<1>1. ASSUME UNCHANGED <<m_enqueue_pos, claimed, m_seq, delivered, destroyed>>
      PROVE  UNCHANGED <<Occupied, delivered>>
  BY <1>1 DEF Occupied
<1>2. ASSUME NEW p \in Producers, try_push(p)
      PROVE  Abstract!Next \/ UNCHANGED <<Occupied, delivered>>
  <2>1. CASE push_load_pos(p) \/ push_load_seq(p) \/ push_reload(p) \/ push_construct(p)
    BY <1>1, <2>1 DEF push_load_pos, push_load_seq, push_reload, push_construct
  <2>2. CASE push_cas(p)
    <3>1. CASE Claims(p)
      <4>1. item[p] \in Items
        BY <3>1, ClaimStep, ItemFacts
      <4> QED BY <3>1, <4>1, ClaimRefines DEF Abstract!Next
    <3>2. CASE Retries(p)
      BY <1>1, <3>2 DEF Retries, push_cas
    <3> QED BY <2>2, <3>1, <3>2 DEF push_cas, Claims, Retries
  <2>3. CASE push_publish(p)
    <3>1. item[p] \in Items
      BY <2>3, ItemFacts DEF push_publish
    <3> QED BY <2>3, <3>1, PublishRefines DEF Abstract!Next
  <2> QED BY <1>2, <2>1, <2>2, <2>3 DEF try_push
<1>3. CASE try_pop
  <2>1. CASE pop_load \/ pop_cas \/ pop_move
    BY <1>1, <2>1 DEF pop_load, pop_cas, pop_move
  <2>2. CASE pop_free
    BY <2>2, FreeRefines DEF Abstract!Next
  <2> QED BY <1>3, <2>1, <2>2 DEF try_pop
<1>4. CASE destroy_all_
  <2>1. Occupied' = <<>> /\ delivered' = delivered
    BY <1>4 DEF destroy_all_, Occupied
  <2> QED BY <2>1 DEF Abstract!Next, Abstract!Discard
<1>5. CASE UNCHANGED vars
  BY <1>1, <1>5 DEF vars
<1> QED BY <1>2, <1>3, <1>4, <1>5 DEF Next

\* The ring is the two-step bounded queue that TaskExecutorMpsc is built on:
\* try_push() claims and then publishes, try_pop() takes the published front,
\* each element comes out once and in the order of the positions, and at most
\* m_cap are inside.
THEOREM Refinement == Spec => ImplementsMpscQueue
<1>1. Init => Abstract!Init
  <2> SUFFICES ASSUME Init PROVE Abstract!Init
    OBVIOUS
  <2>1. Occupied = <<>>
    BY SMTT(60) DEF Init, Occupied
  <2> QED BY <2>1 DEF Init, Abstract!Init
<1> QED BY <1>1, Invariance, StepRefines, PTL DEF Spec, ImplementsMpscQueue, Abstract!Spec
=============================================================================
