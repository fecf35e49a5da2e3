------------------------ MODULE TicketQueueTheorems -------------------------
(* What push_back() and pop_front() do to a queue of tickets. *)
EXTENDS TicketQueue, TLAPS

\* An empty queue holds nothing and is in order.
LEMMA EmptyQueue == Tickets(<<>>) = {} /\ Increasing(<<>>)
BY DEF Tickets, Increasing

\* push_back() adds one ticket; a ticket larger than all keeps the order.
LEMMA PushBackTickets ==
    ASSUME NEW q \in Seq(Nat), NEW t \in Nat
    PROVE  /\ Append(q, t) \in Seq(Nat)
           /\ Append(q, t) # <<>>
           /\ Tickets(Append(q, t)) = Tickets(q) \cup {t}
           /\ (Increasing(q) /\ \A u \in Tickets(q) : u < t) => Increasing(Append(q, t))
<1> DEFINE r == Append(q, t)
           n == Len(q)
<1>1. /\ r \in Seq(Nat)
      /\ r # <<>>
      /\ \A i \in 1..n : r[i] = q[i]
      /\ r[n + 1] = t
  OBVIOUS
<1>2. n \in Nat /\ Len(r) = n + 1
  OBVIOUS
<1>3. \A i \in 1..n : q[i] \in Nat
  OBVIOUS
<1> HIDE DEF r
<1>4. Tickets(r) = Tickets(q) \cup {t}
  <2>1. 1..(n + 1) = 1..n \cup {n + 1}
    BY <1>2
  <2>2. Tickets(r) = {r[i] : i \in 1..n} \cup {r[n + 1]}
    BY <1>2, <2>1 DEF Tickets
  <2> QED BY <1>1, <2>2, ZenonT(60) DEF Tickets
<1>5. ASSUME Increasing(q), \A u \in Tickets(q) : u < t
      PROVE  Increasing(r)
  <2> SUFFICES ASSUME NEW i \in 1..(n + 1), NEW j \in 1..(n + 1), i < j
               PROVE  r[i] < r[j]
    BY <1>2 DEF Increasing
  <2>1. i \in 1..n /\ (j = n + 1 \/ j \in 1..n)
    BY <1>2
  <2>2. q[i] \in Tickets(q)
    BY <2>1 DEF Tickets
  <2>3. CASE j = n + 1
    BY <1>1, <1>5, <2>1, <2>2, <2>3
  <2>4. CASE j \in 1..n
    BY <1>1, <1>5, <2>1, <2>4 DEF Increasing
  <2> QED BY <2>1, <2>3, <2>4
<1> QED BY <1>1, <1>4, <1>5 DEF r

\* pop_front() of a queue in order takes its smallest ticket, and only that one.
LEMMA PopFrontTickets ==
    ASSUME NEW q \in Seq(Nat), q # <<>>, Increasing(q)
    PROVE  /\ Head(q) \in Tickets(q)
           /\ \A u \in Tickets(q) : Head(q) <= u
           /\ Tail(q) \in Seq(Nat)
           /\ Tickets(Tail(q)) = Tickets(q) \ {Head(q)}
           /\ Increasing(Tail(q))
<1> DEFINE r == Tail(q)
           n == Len(q)
<1>1. /\ r \in Seq(Nat)
      /\ Len(r) = n - 1
      /\ Head(q) = q[1]
  OBVIOUS
<1>2. n \in Nat /\ n > 0 /\ 1 \in 1..n
  OBVIOUS
<1>3. \A i \in 1..(n - 1) : r[i] = q[i + 1]
  OBVIOUS
<1>4. \A i \in 1..n : q[i] \in Nat
  OBVIOUS
<1> HIDE DEF r
<1>5. ASSUME NEW i \in 1..n
      PROVE  i = 1 \/ q[1] < q[i]
  <2>1. i = 1 \/ 1 < i
    BY <1>2
  <2> QED BY <1>2, <2>1 DEF Increasing
<1>6. Tickets(r) \subseteq Tickets(q) \ {q[1]}
  <2> SUFFICES ASSUME NEW i \in 1..(n - 1)
               PROVE  r[i] \in Tickets(q) \ {q[1]}
    BY <1>1, ZenonT(60) DEF Tickets
  <2>1. i + 1 \in 1..n /\ i + 1 # 1
    BY <1>2
  <2>2. q[1] < q[i + 1] /\ q[1] \in Nat /\ q[i + 1] \in Nat
    BY <2>1, <1>2, <1>4, <1>5
  <2>3. q[i + 1] \in Tickets(q)
    BY <2>1 DEF Tickets
  <2> QED BY <2>2, <2>3, <1>3
<1>7. Tickets(q) \ {q[1]} \subseteq Tickets(r)
  <2> SUFFICES ASSUME NEW i \in 1..n, q[i] # q[1]
               PROVE  q[i] \in Tickets(r)
    BY DEF Tickets
  <2>1. i - 1 \in 1..(n - 1) /\ (i - 1) + 1 = i
    BY <1>2
  <2>2. r[i - 1] = q[i]
    BY <2>1, <1>3
  <2> QED BY <2>1, <2>2, <1>1, ZenonT(60) DEF Tickets
<1>8. Increasing(r)
  <2> SUFFICES ASSUME NEW i \in 1..(n - 1), NEW j \in 1..(n - 1), i < j
               PROVE  r[i] < r[j]
    BY <1>1 DEF Increasing
  <2>1. i + 1 \in 1..n /\ j + 1 \in 1..n /\ i + 1 < j + 1
    BY <1>2
  <2>2. q[i + 1] < q[j + 1]
    BY <2>1 DEF Increasing
  <2> QED BY <2>2, <1>3
<1>9. q[1] \in Tickets(q) /\ \A u \in Tickets(q) : q[1] <= u
  BY <1>2, <1>4, <1>5 DEF Tickets
<1> QED BY <1>1, <1>6, <1>7, <1>8, <1>9 DEF r
=============================================================================
