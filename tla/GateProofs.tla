----------------------------- MODULE GateProofs -----------------------------
(***************************************************************************)
(* The safety of a single gate, for any number of openers, any number of   *)
(* arrivals and any maxLen and maxAge.                                     *)
(***************************************************************************)
EXTENDS Gate, SequenceTheorems, WellFoundedInduction, FiniteSetTheorems, TLAPS

-----------------------------------------------------------------------------
(* What the operators of GateOps do to a queue.                             *)

\* A non-empty set of naturals has a least element, and Min is it.
LEMMA MinIsLeast ==
  ASSUME NEW S, S \subseteq Nat, S # {}
  PROVE  Min(S) \in S /\ \A y \in S : Min(S) <= y
<1> DEFINE Less == {p \in Nat \X Nat : p[1] < p[2]}
<1>1. OpToRel(<, Nat) = Less
  BY DEF OpToRel
<1>2. PICK x \in S : \A y \in S : ~(<<y, x>> \in Less)
  BY <1>1, NatLessThanWellFounded, WFMin
<1>3. ASSUME NEW y \in S PROVE x <= y
  <2>1. <<y, x>> \in Nat \X Nat /\ x \in Nat /\ y \in Nat
    OBVIOUS
  <2>2. ~(<<y, x>>[1] < <<y, x>>[2])
    BY <1>2, <2>1
  <2>3. QED
    BY <2>1, <2>2
<1>4. QED
  BY <1>3 DEF Min

\* evictExpiredLocked keeps a suffix of the queue and cuts it at the first
\* entry that is not expired: everything before the cut is expired, and the
\* first entry kept is not.
LEMMA EvictIsSuffix ==
  ASSUME NEW E, NEW q \in Seq(E), NEW u
  PROVE  \E k \in 0..Len(q) :
           /\ EvictExpired(q, u) \in Seq(E)
           /\ Len(EvictExpired(q, u)) = Len(q) - k
           /\ \A i \in 1..(Len(q) - k) : EvictExpired(q, u)[i] = q[i + k]
           /\ \A i \in 1..k : MaxAge # 0 /\ Expired(q[i], u)
           /\ MaxAge # 0 /\ k < Len(q) => ~Expired(q[k + 1], u)
<1> DEFINE live == {i \in 1..Len(q) : ~Expired(q[i], u)}
<1>0. Len(q) \in Nat /\ \A i \in 1..Len(q) : q[i] \in E
  BY ElementOfSeq
<1>1. CASE MaxAge = 0
  <2>1. EvictExpired(q, u) = q
    BY <1>1 DEF EvictExpired
  <2>2. WITNESS 0 \in 0..Len(q)
  <2>3. QED
    BY <1>0, <1>1, <2>1
<1>2. CASE MaxAge # 0 /\ live = {}
  <2>1. EvictExpired(q, u) = <<>>
    BY <1>2 DEF EvictExpired
  <2>2. <<>> \in Seq(E) /\ Len(<<>>) = 0
    BY EmptySeq
  <2>3. \A i \in 1..Len(q) : Expired(q[i], u)
    BY <1>2
  <2>4. WITNESS Len(q) \in 0..Len(q)
  <2>5. QED
    BY <1>0, <1>2, <2>1, <2>2, <2>3
<1>3. CASE MaxAge # 0 /\ live # {}
  <2> DEFINE first == Min(live)
  <2>1. EvictExpired(q, u) = SubSeq(q, first, Len(q))
    BY <1>3 DEF EvictExpired
  <2>2. first \in live /\ \A y \in live : first <= y
    <3>1. live \subseteq Nat
      BY <1>0
    <3>2. QED
      BY <1>3, <3>1, MinIsLeast
  <2>3. first \in 1..Len(q) /\ ~Expired(q[first], u)
    BY <2>2
  <2> HIDE DEF first
  <2>4. \A i \in first..Len(q) : q[i] \in E
    BY <1>0, <2>3
  <2>5. /\ SubSeq(q, first, Len(q)) \in Seq(E)
        /\ Len(SubSeq(q, first, Len(q))) = Len(q) - first + 1
        /\ \A i \in 1..(Len(q) - first + 1) :
             SubSeq(q, first, Len(q))[i] = q[first + i - 1]
    BY <1>0, <2>3, <2>4, SubSeqProperties
  <2>6. \A i \in 1..(first - 1) : Expired(q[i], u)
    BY <1>0, <2>2, <2>3
  <2>7. first - 1 \in 0..Len(q)
    BY <1>0, <2>3
  <2> USE <2>7
  <2>8. WITNESS first - 1 \in 0..Len(q)
  <2>9. QED
    BY <1>0, <1>3, <2>1, <2>3, <2>5, <2>6
<1>4. QED
  BY <1>1, <1>2, <1>3

\* A queue of messages 1..n stamped no later than t: bounded, in arrival
\* order and therefore in age order.
GoodQueue(q, n, t) ==
  /\ q \in Seq([msg : 1..n, at : 0..t])
  /\ Len(q) <= MaxLen
  /\ \A i, j \in 1..Len(q) : i <= j => q[i].at <= q[j].at
  /\ \A i, j \in 1..Len(q) : i < j => q[i].msg < q[j].msg

\* Cutting at the first live entry is enough in a queue ordered by age:
\* nothing that remains is older than maxAge.
LEMMA EvictLeavesFresh ==
  ASSUME NEW M, NEW q \in Seq([msg : M, at : Int]), NEW u \in Int,
         \A i, j \in 1..Len(q) : i <= j => q[i].at <= q[j].at,
         MaxAge # 0
  PROVE  \A i \in 1..Len(EvictExpired(q, u)) :
           EvictExpired(q, u)[i].at >= u - MaxAge
<1>1. ASSUME NEW i \in 1..Len(q) PROVE q[i].at \in Int
  <2>1. q[i] \in [msg : M, at : Int]
    BY ElementOfSeq
  <2>2. QED
    BY <2>1
<1>2. Len(q) \in Nat
  BY LenProperties
<1>3. PICK k \in 0..Len(q) :
        /\ Len(EvictExpired(q, u)) = Len(q) - k
        /\ \A i \in 1..(Len(q) - k) : EvictExpired(q, u)[i] = q[i + k]
        /\ k < Len(q) => ~Expired(q[k + 1], u)
  BY EvictIsSuffix
<1>4. ASSUME NEW i \in 1..(Len(q) - k)
      PROVE  q[i + k].at >= u - MaxAge
  <2>1. k < Len(q) /\ k + 1 \in 1..Len(q) /\ i + k \in 1..Len(q) /\ k + 1 <= i + k
    BY <1>2
  <2>2. ~(q[k + 1].at < u - MaxAge)
    BY <1>3, <2>1 DEF Expired
  <2>3. q[k + 1].at <= q[i + k].at
    BY <2>1
  <2>4. QED
    BY <1>1, <2>1, <2>2, <2>3, GateAssumption
<1>5. QED
  BY <1>3, <1>4

\* Eviction keeps a queue good.
LEMMA EvictKeepsGood ==
  ASSUME NEW q, NEW n \in Nat, NEW t \in Nat, NEW u, GoodQueue(q, n, t)
  PROVE  /\ GoodQueue(EvictExpired(q, u), n, t)
         /\ Len(EvictExpired(q, u)) <= Len(q)
         /\ \A i \in 1..Len(EvictExpired(q, u)) :
              \E j \in 1..Len(q) : EvictExpired(q, u)[i] = q[j]
<1> DEFINE E == [msg : 1..n, at : 0..t]
           r == EvictExpired(q, u)
<1>1. q \in Seq(E) /\ Len(q) \in Nat
  BY LenProperties DEF GoodQueue
<1>2. PICK k \in 0..Len(q) :
        /\ r \in Seq(E)
        /\ Len(r) = Len(q) - k
        /\ \A i \in 1..(Len(q) - k) : r[i] = q[i + k]
  <2>1. \A S : q \in Seq(S) => \E k \in 0..Len(q) :
          /\ EvictExpired(q, u) \in Seq(S)
          /\ Len(EvictExpired(q, u)) = Len(q) - k
          /\ \A i \in 1..(Len(q) - k) : EvictExpired(q, u)[i] = q[i + k]
    BY EvictIsSuffix
  <2> HIDE DEF E
  <2>2. QED
    BY <1>1, <2>1
<1> HIDE DEF r, E
<1>3. \A i \in 1..Len(r) : i + k \in 1..Len(q) /\ i \in Int /\ r[i] = q[i + k]
  BY <1>1, <1>2
<1>4. Len(r) <= MaxLen /\ Len(r) <= Len(q)
  BY <1>1, <1>2, GateAssumption DEF GoodQueue
<1>5. ASSUME NEW i \in 1..Len(r), NEW j \in 1..Len(r)
      PROVE  /\ i <= j => r[i].at <= r[j].at
             /\ i < j => r[i].msg < r[j].msg
  <2>1. /\ i + k \in 1..Len(q) /\ r[i] = q[i + k]
        /\ j + k \in 1..Len(q) /\ r[j] = q[j + k]
    BY <1>3
  <2>2. i <= j => i + k <= j + k
    OBVIOUS
  <2>3. i < j => i + k < j + k
    OBVIOUS
  <2>4. QED
    BY <2>1, <2>2, <2>3 DEF GoodQueue
<1>6. GoodQueue(r, n, t)
  BY <1>2, <1>4, <1>5 DEF GoodQueue, E
<1>7. QED
  BY <1>3, <1>4, <1>6 DEF r

\* So does appending arrival n + 1, stamped with the clock.
LEMMA EnqueueKeepsGood ==
  ASSUME NEW g, NEW n \in Nat, NEW u \in Nat, GoodQueue(g.queue, n, u),
         ~IsFull(g, u)
  PROVE  GoodQueue(Append(EvictExpired(g.queue, u), [msg |-> n + 1, at |-> u]),
                   n + 1, u)
<1> DEFINE E == [msg : 1..(n + 1), at : 0..u]
           r == EvictExpired(g.queue, u)
           e == [msg |-> n + 1, at |-> u]
<1>1. GoodQueue(r, n, u)
  BY EvictKeepsGood
<1>2. Len(r) \in Nat /\ Len(r) < MaxLen
  BY <1>1, LenProperties, GateAssumption DEF IsFull, GoodQueue
<1>3. r \in Seq(E) /\ e \in E
  <2>1. [msg : 1..n, at : 0..u] \subseteq E
    OBVIOUS
  <2>2. r \in Seq([msg : 1..n, at : 0..u])
    BY <1>1 DEF GoodQueue
  <2>3. r \in Seq(E)
    BY <2>1, <2>2, SeqMonotonic
  <2>4. QED
    BY <2>3
<1>0. e.at = u /\ e.msg = n + 1
  OBVIOUS
<1> HIDE DEF r, E, e
<1>4. ASSUME NEW i \in 1..Len(r)
      PROVE  r[i].at \in 0..u /\ r[i].msg \in 1..n
  <2>1. r[i] \in [msg : 1..n, at : 0..u]
    BY <1>1, ElementOfSeq DEF GoodQueue
  <2>2. QED
    BY <2>1
<1>5. /\ Append(r, e) \in Seq(E)
      /\ Len(Append(r, e)) = Len(r) + 1
      /\ \A i \in 1..(Len(r) + 1) : Append(r, e)[i] = IF i = Len(r) + 1 THEN e ELSE r[i]
  BY <1>3, AppendProperties
<1>6. ASSUME NEW i \in 1..(Len(r) + 1), NEW j \in 1..(Len(r) + 1), i <= j
      PROVE  /\ Append(r, e)[i].at <= Append(r, e)[j].at
             /\ i < j => Append(r, e)[i].msg < Append(r, e)[j].msg
  <2>1. CASE j = Len(r) + 1 /\ i = j
    BY <1>0, <1>2, <1>5, <2>1
  <2>2. CASE j = Len(r) + 1 /\ i # j
    <3>1. i \in 1..Len(r)
      BY <1>2, <2>2
    <3>2. Append(r, e)[i] = r[i] /\ Append(r, e)[j] = e
      BY <1>2, <1>5, <2>2, <3>1
    <3>3. r[i].at <= u /\ r[i].msg < n + 1
      BY <1>4, <3>1
    <3>4. QED
      BY <1>0, <3>2, <3>3
  <2>3. CASE j # Len(r) + 1
    <3>1. i \in 1..Len(r) /\ j \in 1..Len(r)
      BY <1>2, <1>6, <2>3
    <3>2. Append(r, e)[i] = r[i] /\ Append(r, e)[j] = r[j]
      BY <1>2, <1>5, <3>1
    <3>3. QED
      BY <1>1, <1>6, <3>1, <3>2 DEF GoodQueue
  <2>4. QED
    BY <2>1, <2>2, <2>3
<1> DEFINE a == Append(r, e)
<1>7. a \in Seq([msg : 1..(n + 1), at : 0..u]) /\ Len(a) = Len(r) + 1
  BY <1>5 DEF E
<1> HIDE DEF a
<1>8. \A i, j \in 1..Len(a) : i <= j => a[i].at <= a[j].at
  BY <1>6, <1>7 DEF a
<1>9. \A i, j \in 1..Len(a) : i < j => a[i].msg < a[j].msg
  <2>1. ASSUME NEW i \in 1..Len(a), NEW j \in 1..Len(a), i < j
        PROVE  a[i].msg < a[j].msg
    <3>1. i \in 1..(Len(r) + 1) /\ j \in 1..(Len(r) + 1) /\ i <= j
      BY <1>7, <2>1, <1>2
    <3>2. QED
      BY <1>6, <2>1, <3>1 DEF a
  <2>2. QED
    BY <2>1
<1>10. Len(a) <= MaxLen
  BY <1>2, <1>7, GateAssumption
<1>11. GoodQueue(a, n + 1, u)
  BY <1>7, <1>8, <1>9, <1>10 DEF GoodQueue
<1>12. QED
  BY <1>11 DEF a, r, e

-----------------------------------------------------------------------------
(* The gate.                                                               *)

\* The inductive invariant.  GoodQueue (the queue's age and arrival order)
\* is what makes cutting the queue at its first live entry sufficient.
GateInv ==
  /\ GateTypeOK
  /\ NothingStranded
  /\ GoodQueue(gate.queue, arrived, now)
  /\ BacklogsInOrder

LEMMA InitEstablishesGateInv == GateInit => GateInv
<1> SUFFICES ASSUME GateInit PROVE GateInv
  OBVIOUS
<1> USE GateAssumption DEF GateInit, NewGate
<1>1. GoodQueue(<<>>, 0, 0)
  BY EmptySeq DEF GoodQueue
<1>2. GateTypeOK
  <2>1. gate.queue \in Seq(Entry) /\ gate.state \in {Queueing, Open}
    BY EmptySeq
  <2>2. drains \in [Openers -> Seq(1..arrived)] /\ forwarded \in Seq(1..arrived)
    BY EmptySeq
  <2>3. QED
    BY <2>1, <2>2 DEF GateTypeOK
<1>3. NothingStranded
  BY DEF NothingStranded
<1>4. BacklogsInOrder
  BY DEF BacklogsInOrder, Increasing
<1>5. QED
  BY <1>1, <1>2, <1>3, <1>4 DEF GateInv

\* The gate's type follows from GoodQueue; the rest is restated per step.
LEMMA QueueType ==
  ASSUME NEW q, NEW n \in Nat, NEW t \in Nat, GoodQueue(q, n, t)
  PROVE  /\ q \in Seq([msg : 1..n, at : 0..t])
         /\ Len(q) \in Nat
         /\ \A i \in 1..Len(q) : q[i].msg \in 1..n /\ q[i].at \in 0..t
<1>1. q \in Seq([msg : 1..n, at : 0..t]) /\ Len(q) \in Nat
  BY LenProperties DEF GoodQueue
<1>2. ASSUME NEW i \in 1..Len(q) PROVE q[i].msg \in 1..n /\ q[i].at \in 0..t
  <2>1. q[i] \in [msg : 1..n, at : 0..t]
    BY <1>1, ElementOfSeq
  <2>2. QED
    BY <2>1
<1>3. QED
  BY <1>1, <1>2

\* A good queue stays good when messages arrive elsewhere and time passes.
LEMMA GoodQueueGrows ==
  ASSUME NEW q, NEW n \in Nat, NEW t \in Nat, NEW n2 \in Nat, NEW t2 \in Nat,
         n <= n2, t <= t2, GoodQueue(q, n, t)
  PROVE  GoodQueue(q, n2, t2)
<1>1. [msg : 1..n, at : 0..t] \subseteq [msg : 1..n2, at : 0..t2]
  <2>1. 1..n \subseteq 1..n2 /\ 0..t \subseteq 0..t2
    OBVIOUS
  <2>2. QED
    BY <2>1
<1>2. q \in Seq([msg : 1..n2, at : 0..t2])
  BY <1>1, SeqMonotonic DEF GoodQueue
<1>3. QED
  BY <1>2 DEF GoodQueue

\* The backlog Open takes is in arrival order and made of arrived messages.
LEMMA BacklogIsOrdered ==
  ASSUME NEW g, NEW n \in Nat, NEW t \in Nat, GoodQueue(g.queue, n, t)
  PROVE  /\ Backlog(g, t) \in Seq(1..n)
         /\ Increasing(Backlog(g, t))
<1> DEFINE q == EvictExpired(g.queue, t)
<1>1. GoodQueue(q, n, t)
  BY EvictKeepsGood
<1>2. Len(q) \in Nat /\ \A i \in 1..Len(q) : q[i].msg \in 1..n
  BY <1>1, QueueType
<1> DEFINE b == [i \in 1..Len(q) |-> q[i].msg]
<1>3. Backlog(g, t) = b
  BY DEF Backlog
<1> HIDE DEF q
<1>4. b \in Seq(1..n) /\ DOMAIN b = 1..Len(q)
  BY <1>2
<1>5. Increasing(b)
  BY <1>1, <1>2, <1>4 DEF Increasing, GoodQueue
<1>6. QED
  BY <1>3, <1>4, <1>5

\* Every step keeps the invariant.  `arrived` only grows, so sequences of
\* arrived messages keep their type; the order between a backlog and the
\* queue is disturbed only by an append (of the newest message) or an Open
\* (which empties the queue).
LEMMA StepPreservesGateInv == GateInv /\ [GateNext]_gateVars => GateInv'
<1> SUFFICES ASSUME GateInv, [GateNext]_gateVars PROVE GateInv'
  OBVIOUS
<1> USE GateAssumption
<1>0. /\ GateTypeOK /\ NothingStranded /\ BacklogsInOrder
      /\ GoodQueue(gate.queue, arrived, now)
      /\ arrived \in Nat /\ now \in Nat /\ arrived + 1 \in Nat
      /\ gate.state \in {Queueing, Open}
      /\ \A o \in Openers : drains[o] \in Seq(1..arrived)
  BY DEF GateInv, GateTypeOK
<1>1. /\ Len(gate.queue) \in Nat
      /\ \A i \in 1..Len(gate.queue) : gate.queue[i].msg \in 1..arrived
      /\ DOMAIN gate.queue = 1..Len(gate.queue)
  BY <1>0, QueueType, LenProperties
<1>2. /\ 1..arrived \subseteq 1..(arrived + 1)
      /\ Seq(1..arrived) \subseteq Seq(1..(arrived + 1))
  <2>1. 1..arrived \subseteq 1..(arrived + 1)
    BY <1>0
  <2>2. QED
    BY <2>1, SeqMonotonic
<1>3. Evicted \subseteq 1..arrived
  BY <1>1 DEF Evicted, Messages
<1> DEFINE Parts ==
      /\ gate' \in [state : {Queueing, Open}, queue : Seq(Entry')]
      /\ NothingStranded'
      /\ GoodQueue(gate'.queue, arrived', now')
      /\ BacklogsInOrder'
\* A queue trimmed by eviction is a good queue whose entries were there before.
<1>4. /\ GoodQueue(EvictExpired(gate.queue, now), arrived, now)
      /\ EvictExpired(gate.queue, now) \in Seq(Entry)
      /\ DOMAIN EvictExpired(gate.queue, now) = 1..Len(EvictExpired(gate.queue, now))
      /\ \A i \in 1..Len(EvictExpired(gate.queue, now)) :
           \E j \in 1..Len(gate.queue) :
             EvictExpired(gate.queue, now)[i] = gate.queue[j]
      /\ gate.queue = <<>> => EvictExpired(gate.queue, now) = <<>>
  <2>1. GoodQueue(EvictExpired(gate.queue, now), arrived, now)
    BY <1>0, EvictKeepsGood
  <2>2. Len(EvictExpired(gate.queue, now)) <= Len(gate.queue)
    BY <1>0, EvictKeepsGood
  <2>3. /\ EvictExpired(gate.queue, now) \in Seq(Entry)
        /\ Len(EvictExpired(gate.queue, now)) \in Nat
    BY <1>0, <2>1, QueueType DEF Entry
  <2>4. gate.queue = <<>> => EvictExpired(gate.queue, now) = <<>>
    BY <1>1, <2>2, <2>3, EmptySeq
  <2>5. \A i \in 1..Len(EvictExpired(gate.queue, now)) :
          \E j \in 1..Len(gate.queue) : EvictExpired(gate.queue, now)[i] = gate.queue[j]
    <3>1. \A q : GoodQueue(q, arrived, now)
            => \A i \in 1..Len(EvictExpired(q, now)) :
                 \E j \in 1..Len(q) : EvictExpired(q, now)[i] = q[j]
      BY <1>0, EvictKeepsGood
    <3>2. QED
      BY <1>0, <3>1
  <2>6. QED
    BY <2>1, <2>3, <2>4, <2>5, LenProperties
<1>5. ASSUME gate' = Trimmed(gate, now), drains' = drains, now' = now,
             arrived' \in {arrived, arrived + 1}
      PROVE  Parts
  <2> DEFINE q == EvictExpired(gate.queue, now)
  <2>1. gate'.queue = q /\ gate'.state = gate.state
    BY <1>0, <1>5 DEF Trimmed, GateTypeOK
  <2>2. GoodQueue(q, arrived', now')
    BY <1>0, <1>4, <1>5, GoodQueueGrows
  <2>3. gate' \in [state : {Queueing, Open}, queue : Seq(Entry')]
    <3>1. q \in Seq(Entry')
      BY <2>2 DEF GoodQueue, Entry
    <3>2. QED
      BY <1>0, <1>5, <3>1 DEF Trimmed, GateTypeOK
  <2>4. NothingStranded'
    BY <1>0, <1>4, <2>1 DEF NothingStranded
  <2>5. BacklogsInOrder'
    <3>1. \A o \in Openers : \A i \in DOMAIN drains[o], j \in DOMAIN q :
            drains[o][i] < q[j].msg
      BY <1>0, <1>1, <1>4 DEF BacklogsInOrder
    <3>2. \A i, j \in DOMAIN q : i < j => q[i].msg < q[j].msg
      BY <1>4 DEF GoodQueue
    <3> HIDE DEF q
    <3>3. QED
      BY <1>0, <1>5, <2>1, <3>1, <3>2 DEF BacklogsInOrder
  <2>6. QED
    BY <1>5, <2>1, <2>2, <2>3, <2>4, <2>5
<1>6. ASSUME UNCHANGED <<gate, drains>>, now' \in {now, now + 1},
             arrived' \in {arrived, arrived + 1}
      PROVE  Parts
  <2>1. arrived' \in Nat /\ now' \in Nat /\ arrived <= arrived' /\ now <= now'
    BY <1>0, <1>6
  <2>2. GoodQueue(gate'.queue, arrived', now')
    BY <1>0, <1>6, <2>1, GoodQueueGrows
  <2>3. gate' \in [state : {Queueing, Open}, queue : Seq(Entry')]
    <3>1. gate.queue \in Seq(Entry')
      BY <1>6, <2>2 DEF GoodQueue, Entry
    <3>2. QED
      BY <1>0, <1>6, <3>1 DEF GateTypeOK
  <2>4. QED
    BY <1>0, <1>6, <2>2, <2>3 DEF NothingStranded, BacklogsInOrder, Increasing
<1> DEFINE Rest ==
      /\ now' \in Nat /\ arrived' \in Nat
      /\ passing' \subseteq 1..arrived'
      /\ drains' \in [Openers -> Seq(1..arrived')]
      /\ forwarded' \in Seq(1..arrived')
      /\ discarded' \subseteq 1..arrived'
<1>7. ASSUME Parts, Rest PROVE GateInv'
  BY <1>7 DEF GateInv, GateTypeOK
<1>8. CASE HandleOpen
  <2>1. Rest
    BY <1>0, <1>2, <1>8 DEF HandleOpen, Arrive, GateTypeOK
  <2>2. QED
    BY <1>6, <1>7, <1>8, <2>1 DEF HandleOpen, Arrive
<1>9. CASE HandleQueueing
  <2> DEFINE q == Append(EvictExpired(gate.queue, now), [msg |-> arrived + 1, at |-> now])
  <2>1. Rest
    BY <1>0, <1>2, <1>3, <1>9 DEF HandleQueueing, Arrive, GateTypeOK
  <2>2. gate'.queue = q /\ gate'.state = Queueing /\ gate' = [gate EXCEPT !.queue = q]
    BY <1>0, <1>9 DEF HandleQueueing, Arrive, Enqueued, GateTypeOK
  <2>3. GoodQueue(q, arrived', now')
    BY <1>0, <1>9, EnqueueKeepsGood DEF HandleQueueing, Arrive
  <2>4. gate' \in [state : {Queueing, Open}, queue : Seq(Entry')]
    BY <1>0, <2>2, <2>3 DEF GoodQueue, Entry, GateTypeOK
  <2>5. NothingStranded'
    BY <2>2 DEF NothingStranded, Queueing, Open
  <2>6. BacklogsInOrder'
    <3>1. \A i, j \in DOMAIN q : i < j => q[i].msg < q[j].msg
      BY <1>0, <1>9, <2>3, QueueType, LenProperties DEF GoodQueue
    <3>2. ASSUME NEW o \in Openers, NEW i \in DOMAIN drains[o], NEW j \in DOMAIN q
          PROVE  drains[o][i] < q[j].msg
      <4> DEFINE r == EvictExpired(gate.queue, now)
      <4>1. drains[o][i] \in 1..arrived
        BY <1>0, ElementOfSeq, LenProperties
      <4>2. r \in Seq(Entry) /\ [msg |-> arrived + 1, at |-> now] \in [msg : Nat, at : Nat]
        BY <1>0, <1>4
      <4>3. /\ j \in 1..(Len(r) + 1)
            /\ j \in 1..Len(r) => q[j] = r[j]
            /\ j = Len(r) + 1 => q[j] = [msg |-> arrived + 1, at |-> now]
        BY <4>2
      <4>4. CASE j = Len(r) + 1
        BY <1>0, <4>1, <4>3, <4>4
      <4>5. CASE j \in 1..Len(r)
        <5>1. PICK k \in 1..Len(gate.queue) : r[j] = gate.queue[k]
          BY <1>4, <4>5
        <5>2. drains[o][i] < gate.queue[k].msg
          BY <1>0, <1>1 DEF BacklogsInOrder
        <5>3. QED
          BY <4>3, <4>5, <5>1, <5>2
      <4>6. Len(r) \in Nat
        BY <4>2, LenProperties
      <4>7. QED
        BY <4>3, <4>4, <4>5, <4>6
    <3> HIDE DEF q
    <3>3. drains' = drains
      BY <1>9 DEF HandleQueueing
    <3>4. QED
      BY <1>0, <2>2, <3>1, <3>2, <3>3 DEF BacklogsInOrder
  <2> HIDE DEF q
  <2>7. QED
    BY <1>7, <2>1, <2>2, <2>3, <2>4, <2>5, <2>6
<1>10. CASE HandleFull
  <2>1. Rest
    BY <1>0, <1>2, <1>3, <1>10 DEF HandleFull, Arrive, GateTypeOK
  <2>2. QED
    BY <1>5, <1>7, <1>10, <2>1 DEF HandleFull, Arrive
<1>11. ASSUME NEW m \in passing, ForwardPassing(m) PROVE GateInv'
  <2>1. Rest
    BY <1>0, <1>11 DEF ForwardPassing, GateTypeOK
  <2>2. QED
    BY <1>6, <1>7, <1>11, <2>1 DEF ForwardPassing
<1>12. ASSUME NEW o \in Openers, OpenGate(o) PROVE GateInv'
  <2>1. /\ Backlog(gate, now) \in Seq(1..arrived)
        /\ Increasing(Backlog(gate, now))
    BY <1>0, BacklogIsOrdered
  <2>2. Rest
    BY <1>0, <1>3, <1>12, <2>1 DEF OpenGate, GateTypeOK
  <2>3. gate' = [state |-> Open, queue |-> <<>>]
    BY <1>0, <1>12 DEF OpenGate, Opened, GateTypeOK
  <2>4. GoodQueue(gate'.queue, arrived', now')
    BY <1>0, <1>12, <2>3, EmptySeq DEF OpenGate, GoodQueue
  <2>5. gate' \in [state : {Queueing, Open}, queue : Seq(Entry')]
    BY <2>3, EmptySeq
  <2>6. NothingStranded'
    BY <2>3 DEF NothingStranded
  <2>7. BacklogsInOrder'
    <3>1. \A p \in Openers : Increasing(drains'[p])
      BY <1>0, <1>12, <2>1 DEF OpenGate, BacklogsInOrder, GateTypeOK
    <3>2. DOMAIN gate'.queue = {}
      BY <2>3
    <3>3. QED
      BY <3>1, <3>2 DEF BacklogsInOrder
  <2>8. QED
    BY <1>7, <2>2, <2>4, <2>5, <2>6, <2>7
<1>13. ASSUME NEW o \in Openers, ForwardDrained(o) PROVE GateInv'
  <2> DEFINE d == drains[o]
  <2>1. /\ Head(d) \in 1..arrived /\ Tail(d) \in Seq(1..arrived)
        /\ Len(Tail(d)) = Len(d) - 1 /\ Len(d) \in Nat
        /\ DOMAIN d = 1..Len(d) /\ DOMAIN Tail(d) = 1..Len(Tail(d))
        /\ \A i \in 1..Len(Tail(d)) : Tail(d)[i] = d[i + 1]
    BY <1>0, <1>13, HeadTailProperties, LenProperties DEF ForwardDrained
  <2>2. /\ drains' = [drains EXCEPT ![o] = Tail(d)] /\ UNCHANGED <<gate, now, arrived>>
        /\ drains \in [Openers -> Seq(1..arrived)]
    BY <1>0, <1>13 DEF ForwardDrained, GateTypeOK
  <2>3. Rest
    BY <1>0, <1>13, <2>1, <2>2 DEF ForwardDrained, GateTypeOK
  <2>4. BacklogsInOrder'
    <3>1. \A i \in DOMAIN Tail(d) : i + 1 \in DOMAIN d /\ Tail(d)[i] = d[i + 1]
      BY <2>1
    <3>2. Increasing(d) /\ \A i \in DOMAIN d, j \in DOMAIN gate.queue : d[i] < gate.queue[j].msg
      BY <1>0 DEF BacklogsInOrder
    <3>3. Increasing(Tail(d))
      BY <2>1, <3>1, <3>2 DEF Increasing
    <3>4. \A p \in Openers : drains'[p] = IF p = o THEN Tail(d) ELSE drains[p]
      BY <2>2
    <3> HIDE DEF d
    <3>5. \A p \in Openers : Increasing(drains'[p])
      BY <1>0, <3>3, <3>4 DEF BacklogsInOrder
    <3>6. \A p \in Openers : \A i \in DOMAIN drains'[p], j \in DOMAIN gate.queue :
            drains'[p][i] < gate.queue[j].msg
      <4>1. ASSUME NEW i \in DOMAIN Tail(d), NEW j \in DOMAIN gate.queue
            PROVE  Tail(d)[i] < gate.queue[j].msg
        BY <3>1, <3>2
      <4>2. ASSUME NEW p \in Openers, p # o,
                   NEW i \in DOMAIN drains[p], NEW j \in DOMAIN gate.queue
            PROVE  drains[p][i] < gate.queue[j].msg
        BY <1>0 DEF BacklogsInOrder
      <4>3. QED
        BY <3>4, <4>1, <4>2
    <3>7. QED
      BY <1>0, <2>2, <3>5, <3>6 DEF BacklogsInOrder
  <2>5. QED
    BY <1>0, <1>7, <2>2, <2>3, <2>4 DEF GateTypeOK, NothingStranded, Entry
<1>14. CASE QueueGate
  <2>1. Rest
    BY <1>0, <1>14 DEF QueueGate, GateTypeOK
  <2>2. gate' = [gate EXCEPT !.state = Queueing] /\ gate'.queue = gate.queue
        /\ gate'.state = Queueing /\ UNCHANGED <<now, arrived, drains>>
    BY <1>0, <1>14 DEF QueueGate, Queued, GateTypeOK
  <2>3. Parts
    BY <1>0, <2>2 DEF GateTypeOK, NothingStranded, BacklogsInOrder, Entry, Queueing, Open
  <2>4. QED
    BY <1>7, <2>1, <2>3
<1>15. CASE PollLen
  <2>1. Rest
    BY <1>0, <1>3, <1>15 DEF PollLen, GateTypeOK
  <2>2. QED
    BY <1>5, <1>7, <1>15, <2>1 DEF PollLen
<1>16. CASE GateTick
  <2>1. Rest
    BY <1>0, <1>16 DEF GateTick, GateTypeOK
  <2>2. QED
    BY <1>6, <1>7, <1>16, <2>1 DEF GateTick
<1>17. CASE UNCHANGED gateVars
  <2>1. Rest
    BY <1>0, <1>17 DEF gateVars, GateTypeOK
  <2>2. QED
    BY <1>6, <1>7, <1>17, <2>1 DEF gateVars
<1>18. QED
  BY <1>8, <1>9, <1>10, <1>11, <1>12, <1>13, <1>14, <1>15, <1>16, <1>17 DEF GateNext

\* Every reachable state of a gate satisfies the inductive invariant.
THEOREM GateInvariant == GateSpec => []GateInv
<1>1. QED
  BY InitEstablishesGateInv, StepPreservesGateInv, PTL DEF GateSpec

\* Type correctness of the gate.
THEOREM GateTypeCorrect == GateSpec => []GateTypeOK
<1>1. GateInv => GateTypeOK
  BY DEF GateInv
<1>2. QED
  BY <1>1, GateInvariant, PTL

\* An open gate never holds a message: no arrival is stranded behind an
\* Open that has already taken the backlog.
THEOREM OpenGateHoldsNothing == GateSpec => []NothingStranded
<1>1. GateInv => NothingStranded
  BY DEF GateInv
<1>2. QED
  BY <1>1, GateInvariant, PTL

\* The queue is bounded and ordered by age.
THEOREM GateQueueSorted == GateSpec => []QueueSorted
<1>1. GateInv => QueueSorted
  <2> SUFFICES ASSUME GateInv PROVE QueueSorted
    OBVIOUS
  <2>1. DOMAIN gate.queue = 1..Len(gate.queue) /\ GoodQueue(gate.queue, arrived, now)
    BY LenProperties DEF GateInv, GoodQueue
  <2>2. QED
    BY <2>1 DEF GoodQueue, QueueSorted
<1>2. QED
  BY <1>1, GateInvariant, PTL

\* However Open calls overlap, each takes a stretch of the arrivals in
\* order, and all of it precedes whatever is queued afterwards.
THEOREM BacklogsStayInOrder == GateSpec => []BacklogsInOrder
<1>1. GateInv => BacklogsInOrder
  BY DEF GateInv
<1>2. QED
  BY <1>1, GateInvariant, PTL

\* Open hands out nothing older than maxAge.  The queue's age order carries
\* the freshness of the first entry kept to all of them, and its arrival
\* order identifies the entry a drained message came from.
THEOREM OpenDrainsOnlyFresh == GateSpec => DrainsOnlyFresh
<1> DEFINE Fresh ==
      \A o \in Openers, i \in DOMAIN gate.queue :
        /\ MaxAge > 0
        /\ drains[o] = <<>>
        /\ gate.queue[i].msg \in {drains'[o][k] : k \in DOMAIN drains'[o]}
        => gate.queue[i].at >= now - MaxAge
<1>1. GateInv /\ [GateNext]_gateVars => [Fresh]_gateVars
  <2> SUFFICES ASSUME GateInv, GateNext,
                      NEW o \in Openers, NEW i \in DOMAIN gate.queue,
                      MaxAge > 0, drains[o] = <<>>,
                      NEW k \in DOMAIN drains'[o],
                      gate.queue[i].msg = drains'[o][k]
               PROVE  gate.queue[i].at >= now - MaxAge
    OBVIOUS
  <2> DEFINE q == EvictExpired(gate.queue, now)
  <2>1. /\ GoodQueue(gate.queue, arrived, now) /\ arrived \in Nat /\ now \in Nat
        /\ DOMAIN gate.queue = 1..Len(gate.queue)
        /\ drains \in [Openers -> Seq(1..arrived)]
    BY LenProperties DEF GateInv, GoodQueue, GateTypeOK
  <2>2. drains'[o] # drains[o]
    BY EmptySeq
  <2>3. OpenGate(o)
    BY <2>1, <2>2 DEF GateNext, HandleOpen, HandleQueueing, HandleFull, ForwardPassing,
       OpenGate, ForwardDrained, QueueGate, PollLen, GateTick
  <2>4. /\ GoodQueue(q, arrived, now)
        /\ \A x \in 1..Len(q) : \E y \in 1..Len(gate.queue) : q[x] = gate.queue[y]
    <3>1. GoodQueue(q, arrived, now)
      BY <2>1, EvictKeepsGood
    <3>2. \A x \in 1..Len(q) : \E y \in 1..Len(gate.queue) : q[x] = gate.queue[y]
      BY <2>1, EvictKeepsGood
    <3>3. QED
      BY <3>1, <3>2
  <2>5. k \in 1..Len(q) /\ drains'[o][k] = q[k].msg
    <3>1. drains'[o] = [x \in 1..Len(q) |-> q[x].msg]
      BY <2>1, <2>3 DEF OpenGate, Backlog
    <3> HIDE DEF q
    <3>2. QED
      BY <3>1
  <2>6. PICK j \in 1..Len(gate.queue) : q[k] = gate.queue[j]
    BY <2>4, <2>5
  <2> HIDE DEF q
  <2>7. gate.queue[i].msg = gate.queue[j].msg
    BY <2>5, <2>6
  <2>8. i = j
    <3>1. Len(gate.queue) \in Nat
          /\ \A x \in 1..Len(gate.queue) : gate.queue[x].msg \in 1..arrived
      BY <2>1, QueueType
    <3>2. i \in 1..Len(gate.queue) /\ j \in 1..Len(gate.queue)
      BY <2>1, <2>6
    <3>3. gate.queue[i].msg \in Int /\ gate.queue[j].msg \in Int
      BY <3>1, <3>2
    <3>4. i < j => gate.queue[i].msg < gate.queue[j].msg
      BY <2>1, <3>2 DEF GoodQueue
    <3>5. j < i => gate.queue[j].msg < gate.queue[i].msg
      BY <2>1, <3>2 DEF GoodQueue
    <3>6. QED
      BY <2>7, <3>1, <3>2, <3>3, <3>4, <3>5
  <2>9. q[k].at >= now - MaxAge
    <3>1. gate.queue \in Seq([msg : 1..arrived, at : Int])
      <4> DEFINE E1 == [msg : 1..arrived, at : 0..now]
                 E2 == [msg : 1..arrived, at : Int]
      <4>1. E1 \subseteq E2
        OBVIOUS
      <4>2. gate.queue \in Seq(E1)
        BY <2>1 DEF GoodQueue
      <4> HIDE DEF E1, E2
      <4>3. gate.queue \in Seq(E2)
        BY <4>1, <4>2, SeqMonotonic
      <4>4. QED
        BY <4>3 DEF E2
    <3>2. now \in Int /\ MaxAge # 0
      BY <2>1, GateAssumption
    <3>3. QED
      BY <2>1, <2>5, <3>1, <3>2, EvictLeavesFresh DEF GoodQueue, q
  <2>10. QED
    BY <2>6, <2>8, <2>9
<1>2. QED
  BY <1>1, GateInvariant, PTL DEF GateSpec, DrainsOnlyFresh

-----------------------------------------------------------------------------
\* What appending does to the elements of a sequence, and to its repetitions.
LEMMA ElementsOfAppend ==
  ASSUME NEW E, NEW s \in Seq(E), NEW e
  PROVE  /\ Elements(Append(s, e)) = Elements(s) \cup {e}
         /\ DOMAIN s = 1..Len(s) /\ Len(s) \in Nat
         /\ DOMAIN Append(s, e) = 1..(Len(s) + 1)
         /\ \A i \in 1..Len(s) : Append(s, e)[i] = s[i]
         /\ Append(s, e)[Len(s) + 1] = e
<1>1. /\ DOMAIN s = 1..Len(s) /\ Len(s) \in Nat
      /\ DOMAIN Append(s, e) = 1..(Len(s) + 1)
      /\ \A i \in 1..Len(s) : Append(s, e)[i] = s[i]
      /\ Append(s, e)[Len(s) + 1] = e
  BY LenProperties
<1>2. \A i \in 1..(Len(s) + 1) : i \in 1..Len(s) \/ i = Len(s) + 1
  BY <1>1
<1>3. 1..Len(s) \subseteq 1..(Len(s) + 1) /\ Len(s) + 1 \in 1..(Len(s) + 1)
  BY <1>1
<1>4. Elements(Append(s, e)) = Elements(s) \cup {e}
  BY <1>1, <1>2, <1>3 DEF Elements
<1>5. QED
  BY <1>1, <1>4

\* Appending something new repeats nothing.
LEMMA AppendOnce ==
  ASSUME NEW E, NEW s \in Seq(E), NEW e, e \notin Elements(s),
         \A i, j \in DOMAIN s : s[i] = s[j] => i = j
  PROVE  \A i, j \in DOMAIN Append(s, e) : Append(s, e)[i] = Append(s, e)[j] => i = j
<1>1. /\ DOMAIN s = 1..Len(s) /\ Len(s) \in Nat
      /\ DOMAIN Append(s, e) = 1..(Len(s) + 1)
      /\ \A i \in 1..Len(s) : Append(s, e)[i] = s[i]
      /\ Append(s, e)[Len(s) + 1] = e
  BY ElementsOfAppend
<1>2. \A i \in 1..(Len(s) + 1) : i \in 1..Len(s) \/ i = Len(s) + 1
  BY <1>1
<1>3. \A i \in 1..Len(s) : s[i] # e
  BY <1>1 DEF Elements
<1>4. QED
  BY <1>1, <1>2, <1>3

\* Eviction takes messages away from the queue and adds none; the queue has
\* one more message after an append, and what Open takes is what is left.
LEMMA MessagesKept ==
  ASSUME GateInv
  PROVE  /\ Messages(EvictExpired(gate.queue, now)) \subseteq Waiting
         /\ Elements(Backlog(gate, now)) = Messages(EvictExpired(gate.queue, now))
         /\ \A e : Messages(Append(EvictExpired(gate.queue, now), e))
                     = Messages(EvictExpired(gate.queue, now)) \cup {e.msg}
<1> DEFINE q == EvictExpired(gate.queue, now)
<1>1. /\ GoodQueue(gate.queue, arrived, now) /\ arrived \in Nat /\ now \in Nat
      /\ DOMAIN gate.queue = 1..Len(gate.queue)
  BY LenProperties DEF GateInv, GoodQueue, GateTypeOK
<1>2. GoodQueue(q, arrived, now)
  BY <1>1, EvictKeepsGood
<1>3. \A i \in 1..Len(q) : \E j \in 1..Len(gate.queue) : q[i] = gate.queue[j]
  BY <1>1, EvictKeepsGood
<1>4. q \in Seq([msg : 1..arrived, at : 0..now]) /\ DOMAIN q = 1..Len(q) /\ Len(q) \in Nat
  BY <1>2, LenProperties DEF GoodQueue
<1>5. Backlog(gate, now) = [i \in 1..Len(q) |-> q[i].msg]
  BY DEF Backlog
<1> HIDE DEF q
<1>6. Messages(q) \subseteq Waiting
  BY <1>1, <1>3, <1>4 DEF Messages, Waiting
<1>7. Elements(Backlog(gate, now)) = Messages(q)
  BY <1>4, <1>5 DEF Elements, Messages
<1>8. ASSUME NEW e PROVE Messages(Append(q, e)) = Messages(q) \cup {e.msg}
  <2>1. /\ DOMAIN Append(q, e) = 1..(Len(q) + 1)
        /\ \A i \in 1..Len(q) : Append(q, e)[i] = q[i]
        /\ Append(q, e)[Len(q) + 1] = e
    BY <1>4, ElementsOfAppend
  <2>2. \A i \in 1..(Len(q) + 1) : i \in 1..Len(q) \/ i = Len(q) + 1
    BY <1>4
  <2>3. 1..Len(q) \subseteq 1..(Len(q) + 1) /\ Len(q) + 1 \in 1..(Len(q) + 1)
    BY <1>4
  <2>4. QED
    BY <1>4, <2>1, <2>2, <2>3 DEF Messages
<1>9. QED
  BY <1>6, <1>7, <1>8 DEF q

\* Taking the head off a backlog takes one message away.
LEMMA ElementsOfTail ==
  ASSUME NEW E \in SUBSET Nat, NEW d \in Seq(E), d # <<>>, Increasing(d)
  PROVE  /\ Head(d) \in Elements(d)
         /\ Elements(Tail(d)) = Elements(d) \ {Head(d)}
<1>1. /\ Head(d) = d[1] /\ Len(d) \in Nat \ {0} /\ DOMAIN d = 1..Len(d)
      /\ Tail(d) \in Seq(E) /\ Len(Tail(d)) = Len(d) - 1
      /\ DOMAIN Tail(d) = 1..Len(Tail(d))
      /\ \A i \in 1..Len(Tail(d)) : Tail(d)[i] = d[i + 1]
  BY HeadTailProperties, LenProperties, EmptySeq
<1>2. Head(d) \in Elements(d)
  BY <1>1 DEF Elements
<1>3. ASSUME NEW x \in Elements(Tail(d))
      PROVE  x \in Elements(d) /\ x # Head(d)
  <2>1. PICK i \in 1..(Len(d) - 1) : x = d[i + 1]
    BY <1>1, <1>3 DEF Elements
  <2>2. i + 1 \in DOMAIN d /\ 1 \in DOMAIN d /\ 1 < i + 1
    BY <1>1
  <2>3. d[1] < d[i + 1]
    BY <2>2 DEF Increasing
  <2>4. d[1] \in Nat /\ d[i + 1] \in Nat
    BY <2>2, <1>1, ElementOfSeq
  <2>5. QED
    BY <1>1, <2>1, <2>2, <2>3, <2>4 DEF Elements
<1>4. ASSUME NEW x \in Elements(d), x # Head(d)
      PROVE  x \in Elements(Tail(d))
  <2>1. PICK i \in 1..Len(d) : x = d[i]
    BY <1>1 DEF Elements
  <2>2. i - 1 \in 1..(Len(d) - 1) /\ (i - 1) + 1 = i
    BY <1>1, <1>4, <2>1
  <2>3. QED
    BY <1>1, <2>1, <2>2 DEF Elements
<1>5. QED
  BY <1>2, <1>3, <1>4

\* The claim about sets of messages, apart from how a gate keeps them: n have
\* arrived, W wait, P are passing, D[o] are what Open call o has left to
\* forward, F have been forwarded and X discarded.
Apart(n, W, P, D, F, X) ==
  /\ \A m : m \in 1..n <=> m \in W \/ m \in P \/ m \in F \/ m \in X \/ \E o \in Openers : m \in D[o]
  /\ \A m \in W : m \notin P /\ m \notin F /\ m \notin X /\ \A o \in Openers : m \notin D[o]
  /\ \A m \in P : m \notin F /\ m \notin X /\ \A o \in Openers : m \notin D[o]
  /\ \A m \in F : m \notin X /\ \A o \in Openers : m \notin D[o]
  /\ \A m \in X : \A o \in Openers : m \notin D[o]
  /\ \A o, p \in Openers : \A m \in D[o] : m \in D[p] => o = p

Once(s) == \A i, j \in DOMAIN s : s[i] = s[j] => i = j

Drains == [o \in Openers |-> Draining(o)]

LEMMA ApartIsOnePlace ==
  EachMessageInOnePlace
    <=> Apart(arrived, Waiting, passing, Drains, Forwarded, discarded) /\ Once(forwarded)
<1> DEFINE draining == UNION {Draining(o) : o \in Openers}
<1>1. \A o \in Openers : Drains[o] = Draining(o)
  BY DEF Drains
<1>2. \A m : m \in draining <=> \E o \in Openers : m \in Drains[o]
  BY <1>1
<1>3. (\A o, p \in Openers : o # p => Draining(o) \cap Draining(p) = {})
        <=> \A o, p \in Openers : \A m \in Drains[o] : m \in Drains[p] => o = p
  BY <1>1
<1>4. EachMessageInOnePlace
        <=> /\ 1..arrived = Waiting \cup passing \cup draining \cup Forwarded \cup discarded
            /\ Waiting \cap (passing \cup draining \cup Forwarded \cup discarded) = {}
            /\ passing \cap (draining \cup Forwarded \cup discarded) = {}
            /\ draining \cap (Forwarded \cup discarded) = {}
            /\ Forwarded \cap discarded = {}
            /\ \A o, p \in Openers : \A m \in Drains[o] : m \in Drains[p] => o = p
            /\ Once(forwarded)
  BY <1>3 DEF EachMessageInOnePlace, Once
<1> HIDE DEF draining
<1>5. QED
  BY <1>2, <1>4 DEF Apart

\* The same of the next state.
LEMMA ApartIsOnePlaceNext ==
  Apart(arrived', Waiting', passing', Drains', Forwarded', discarded') /\ Once(forwarded')
    => EachMessageInOnePlace'
<1>1. (Apart(arrived, Waiting, passing, Drains, Forwarded, discarded) /\ Once(forwarded)
         => EachMessageInOnePlace)'
  BY ApartIsOnePlace, PTL
<1>2. QED
  BY <1>1

\* Every step takes messages from one place to another, or a new one in.
LEMMA StepKeepsOnePlace ==
  ASSUME GateInv, EachMessageInOnePlace, [GateNext]_gateVars
  PROVE  EachMessageInOnePlace'
<1> DEFINE rest == Messages(EvictExpired(gate.queue, now))
           held == Drains
<1>1. /\ Apart(arrived, Waiting, passing, held, Forwarded, discarded)
      /\ Once(forwarded)
  BY ApartIsOnePlace
<1>2. /\ arrived \in Nat /\ forwarded \in Seq(1..arrived)
      /\ drains \in [Openers -> Seq(1..arrived)]
      /\ gate.state \in {Queueing, Open}
      /\ gate = [state |-> gate.state, queue |-> gate.queue]
  BY DEF GateInv, GateTypeOK
<1>3. /\ rest \subseteq Waiting
      /\ Elements(Backlog(gate, now)) = rest
      /\ \A e : Messages(Append(EvictExpired(gate.queue, now), e)) = rest \cup {e.msg}
  BY MessagesKept
<1>4. Evicted = Waiting \ rest
  BY DEF Evicted, Waiting
<1>5. SUFFICES Apart(arrived', Waiting', passing', Drains', Forwarded', discarded')
               /\ Once(forwarded')
  BY ApartIsOnePlaceNext
<1>6. arrived + 1 \notin 1..arrived /\ 1..(arrived + 1) = 1..arrived \cup {arrived + 1}
  BY <1>2
<1>7. drains' = drains => Drains' = Drains
  BY DEF Drains, Draining
<1> HIDE DEF rest, held
<1>8. CASE HandleOpen
  <2>1. /\ arrived' = arrived + 1 /\ Waiting' = Waiting /\ passing' = passing \cup {arrived + 1}
        /\ Drains' = Drains /\ Forwarded' = Forwarded /\ discarded' = discarded
        /\ forwarded' = forwarded
    BY <1>7, <1>8 DEF HandleOpen, Arrive, Waiting, Forwarded
  <2>2. QED
    BY <1>1, <1>6, <2>1 DEF Apart, held
<1>9. CASE HandleQueueing
  <2>1. gate'.queue = Append(EvictExpired(gate.queue, now), [msg |-> arrived + 1, at |-> now])
    BY <1>2, <1>9 DEF HandleQueueing, Arrive, Enqueued
  <2>2. Waiting' = rest \cup {arrived + 1}
    BY <1>3, <2>1 DEF Waiting
  <2>3. /\ arrived' = arrived + 1 /\ passing' = passing
        /\ Drains' = Drains /\ Forwarded' = Forwarded /\ discarded' = discarded \cup (Waiting \ rest)
        /\ forwarded' = forwarded
    BY <1>4, <1>7, <1>9 DEF HandleQueueing, Arrive, Forwarded
  <2>4. QED
    BY <1>1, <1>3, <1>6, <2>2, <2>3 DEF Apart, held
<1>10. CASE HandleFull
  <2>1. gate'.queue = EvictExpired(gate.queue, now)
    BY <1>2, <1>10 DEF HandleFull, Trimmed
  <2>2. Waiting' = rest
    BY <2>1 DEF Waiting, rest
  <2>3. /\ arrived' = arrived + 1 /\ passing' = passing
        /\ Drains' = Drains /\ Forwarded' = Forwarded
        /\ discarded' = discarded \cup (Waiting \ rest) \cup {arrived + 1}
        /\ forwarded' = forwarded
    BY <1>4, <1>7, <1>10 DEF HandleFull, Arrive, Forwarded
  <2>4. QED
    BY <1>1, <1>3, <1>6, <2>2, <2>3 DEF Apart, held
<1>11. ASSUME NEW m \in passing, ForwardPassing(m)
       PROVE  Apart(arrived', Waiting', passing', Drains', Forwarded', discarded') /\ Once(forwarded')
  <2>1. /\ arrived' = arrived /\ Waiting' = Waiting /\ passing' = passing \ {m}
        /\ Drains' = Drains /\ discarded' = discarded /\ forwarded' = Append(forwarded, m)
    BY <1>7, <1>11 DEF ForwardPassing, Waiting
  <2>2. Forwarded' = Forwarded \cup {m} /\ m \notin Forwarded
    BY <1>1, <1>2, <2>1, ElementsOfAppend DEF Apart, Forwarded
  <2>3. Once(forwarded')
    BY <1>1, <1>2, <2>1, <2>2, AppendOnce DEF Forwarded, Once
  <2>4. QED
    BY <1>1, <2>1, <2>2, <2>3 DEF Apart, held
<1>12. ASSUME NEW o \in Openers, OpenGate(o)
       PROVE  Apart(arrived', Waiting', passing', Drains', Forwarded', discarded') /\ Once(forwarded')
  <2>1. gate'.queue = <<>> /\ drains' = [drains EXCEPT ![o] = Backlog(gate, now)] /\ drains[o] = <<>>
    BY <1>2, <1>12 DEF OpenGate, Opened
  <2>2. Waiting' = {} /\ Drains[o] = {}
    BY <2>1 DEF Waiting, Messages, Drains, Draining, Elements
  <2>3. \A p \in Openers : Drains'[p] = IF p = o THEN rest ELSE Drains[p]
    BY <1>2, <1>3, <2>1 DEF Drains, Draining
  <2>4. /\ arrived' = arrived /\ passing' = passing /\ Forwarded' = Forwarded
        /\ discarded' = discarded \cup (Waiting \ rest) /\ forwarded' = forwarded
    BY <1>4, <1>12 DEF OpenGate, Forwarded
  <2>5. QED
    BY <1>1, <1>3, <2>2, <2>3, <2>4 DEF Apart, held
<1>13. ASSUME NEW o \in Openers, ForwardDrained(o)
       PROVE  Apart(arrived', Waiting', passing', Drains', Forwarded', discarded') /\ Once(forwarded')
  <2> DEFINE m == Head(drains[o])
  <2>1. /\ arrived' = arrived /\ Waiting' = Waiting /\ passing' = passing
        /\ drains' = [drains EXCEPT ![o] = Tail(drains[o])]
        /\ discarded' = discarded /\ forwarded' = Append(forwarded, m)
    BY <1>13 DEF ForwardDrained, Waiting
  <2>2. m \in Draining(o) /\ Elements(Tail(drains[o])) = Draining(o) \ {m}
    <3>1. 1..arrived \in SUBSET Nat /\ drains[o] \in Seq(1..arrived) /\ drains[o] # <<>>
      BY <1>2, <1>13 DEF ForwardDrained
    <3>2. Increasing(drains[o])
      BY DEF GateInv, BacklogsInOrder
    <3>3. QED
      BY <3>1, <3>2, ElementsOfTail DEF Draining
  <2> HIDE DEF m
  <2>3. /\ m \in Drains[o]
        /\ \A p \in Openers : Drains'[p] = IF p = o THEN Drains[o] \ {m} ELSE Drains[p]
    BY <1>2, <2>1, <2>2 DEF Drains, Draining
  <2>4. Forwarded' = Forwarded \cup {m} /\ m \notin Forwarded
    BY <1>1, <1>2, <2>1, <2>3, ElementsOfAppend DEF Apart, Forwarded, held
  <2>5. Once(forwarded')
    BY <1>1, <1>2, <2>1, <2>4, AppendOnce DEF Forwarded, Once
  <2>6. QED
    BY <1>1, <2>1, <2>3, <2>4, <2>5 DEF Apart, held
<1>14. ASSUME gate'.queue = gate.queue, UNCHANGED <<arrived, passing, drains, forwarded, discarded>>
       PROVE  Apart(arrived', Waiting', passing', Drains', Forwarded', discarded') /\ Once(forwarded')
  <2>1. Waiting' = Waiting /\ Drains' = Drains /\ Forwarded' = Forwarded
    BY <1>7, <1>14 DEF Waiting, Forwarded
  <2>2. QED
    BY <1>1, <1>14, <2>1 DEF held
<1>15. CASE QueueGate
  BY <1>2, <1>14, <1>15 DEF QueueGate, Queued
<1>16. CASE PollLen
  <2>1. gate'.queue = EvictExpired(gate.queue, now)
    BY <1>2, <1>16 DEF PollLen, Trimmed
  <2>2. Waiting' = rest
    BY <2>1 DEF Waiting, rest
  <2>3. /\ arrived' = arrived /\ passing' = passing
        /\ Drains' = Drains /\ Forwarded' = Forwarded
        /\ discarded' = discarded \cup (Waiting \ rest) /\ forwarded' = forwarded
    BY <1>4, <1>7, <1>16 DEF PollLen, Forwarded
  <2>4. QED
    BY <1>1, <1>3, <2>2, <2>3 DEF Apart, held
<1>17. CASE GateTick
  BY <1>14, <1>17 DEF GateTick
<1>18. CASE UNCHANGED gateVars
  BY <1>14, <1>18 DEF gateVars
<1>19. QED
  BY <1>8, <1>9, <1>10, <1>11, <1>12, <1>13, <1>15, <1>16, <1>17, <1>18 DEF GateNext

\* No message is lost and none is forwarded twice, however Handle, Open,
\* Queue and Len interleave (gate.go:103-185).
THEOREM EachMessageStaysInOnePlace == GateSpec => []EachMessageInOnePlace
<1>1. GateInit => EachMessageInOnePlace
  BY DEF GateInit, EachMessageInOnePlace, NewGate, Waiting, Draining, Forwarded, Elements, Messages
<1>2. EachMessageInOnePlace /\ GateInv /\ [GateNext]_gateVars => EachMessageInOnePlace'
  BY StepKeepsOnePlace
<1>3. QED
  BY <1>1, <1>2, GateInvariant, PTL DEF GateSpec

-----------------------------------------------------------------------------
\* Where evictExpiredLocked cuts the queue: all before is expired, and nothing
\* after it is.
LEMMA EvictCutsAtAge ==
  ASSUME GateInv
  PROVE  \E k \in 0..Len(gate.queue) :
           /\ Len(EvictExpired(gate.queue, now)) = Len(gate.queue) - k
           /\ \A i \in (k + 1)..Len(gate.queue) :
                /\ MaxAge = 0 \/ ~Expired(gate.queue[i], now)
                /\ gate.queue[i].msg \in Messages(EvictExpired(gate.queue, now))
           /\ \A i \in 1..k : MaxAge # 0 /\ Expired(gate.queue[i], now)
<1> DEFINE q == gate.queue
           r == EvictExpired(gate.queue, now)
           E == [msg : 1..arrived, at : 0..now]
<1>1. /\ q \in Seq(E) /\ Len(q) \in Nat /\ now \in Nat /\ arrived \in Nat
      /\ \A i, j \in 1..Len(q) : i <= j => q[i].at <= q[j].at
      /\ \A i \in 1..Len(q) : q[i].at \in 0..now
  BY QueueType DEF GateInv, GoodQueue, GateTypeOK
<1> HIDE DEF q, E
<1>2. PICK k \in 0..Len(q) :
        /\ r \in Seq(E)
        /\ Len(r) = Len(q) - k
        /\ \A i \in 1..(Len(q) - k) : r[i] = q[i + k]
        /\ \A i \in 1..k : MaxAge # 0 /\ Expired(q[i], now)
        /\ MaxAge # 0 /\ k < Len(q) => ~Expired(q[k + 1], now)
  BY <1>1, EvictIsSuffix DEF q
<1> HIDE DEF r
<1>3. ASSUME NEW i \in (k + 1)..Len(q)
      PROVE  (MaxAge = 0 \/ ~Expired(q[i], now)) /\ q[i].msg \in Messages(r)
  <2>1. k \in Nat /\ k < Len(q) /\ k + 1 <= i /\ i \in 1..Len(q) /\ k + 1 \in 1..Len(q)
    BY <1>1, <1>3
  <2>2. i - k \in 1..(Len(q) - k) /\ (i - k) + k = i
    BY <1>1, <1>3, <2>1
  <2>3. r[i - k] = q[i] /\ i - k \in DOMAIN r
    BY <1>2, <2>2, LenProperties
  <2>4. q[i].msg \in Messages(r)
    BY <2>3 DEF Messages
  <2>5. MaxAge # 0 => ~(q[i].at < now - MaxAge)
    <3>1. q[k + 1].at <= q[i].at /\ q[i].at \in 0..now /\ q[k + 1].at \in 0..now
      BY <1>1, <2>1
    <3>2. MaxAge # 0 => ~(q[k + 1].at < now - MaxAge)
      BY <1>2, <2>1 DEF Expired
    <3>3. QED
      BY <1>1, <3>1, <3>2, GateAssumption
  <2>6. QED
    BY <2>4, <2>5 DEF Expired
<1>4. QED
  BY <1>2, <1>3 DEF q, r

\* A full gate refuses nothing for the sake of expired entries, and eviction
\* takes nothing that is still fresh (gate.go:49-53, 119-145).
THEOREM DiscardsAlwaysJustified == GateSpec => DiscardsJustified
<1> DEFINE Fresh == {i \in DOMAIN gate.queue : MaxAge = 0 \/ ~Expired(gate.queue[i], now)}
           Refused == arrived' \in discarded' /\ arrived' # arrived => Cardinality(Fresh) >= MaxLen
           Dropped == \A i \in DOMAIN gate.queue :
                        gate.queue[i].msg \in discarded' \ discarded
                          => MaxAge > 0 /\ gate.queue[i].at < now - MaxAge
<1>1. GateInv /\ [GateNext]_gateVars => [Refused /\ Dropped]_gateVars
  <2> SUFFICES ASSUME GateInv, GateNext PROVE Refused /\ Dropped
    OBVIOUS
  <2>1. /\ arrived \in Nat /\ discarded \subseteq 1..arrived /\ Len(gate.queue) \in Nat
        /\ DOMAIN gate.queue = 1..Len(gate.queue)
        /\ \A i \in 1..Len(gate.queue) : gate.queue[i].msg \in 1..arrived
    <3>1. GoodQueue(gate.queue, arrived, now) /\ arrived \in Nat /\ now \in Nat
      BY DEF GateInv, GateTypeOK
    <3>2. QED
      BY <3>1, QueueType, LenProperties DEF GateInv, GateTypeOK
  <2>2. PICK k \in 0..Len(gate.queue) :
          /\ Len(EvictExpired(gate.queue, now)) = Len(gate.queue) - k
          /\ \A i \in (k + 1)..Len(gate.queue) :
               /\ MaxAge = 0 \/ ~Expired(gate.queue[i], now)
               /\ gate.queue[i].msg \in Messages(EvictExpired(gate.queue, now))
          /\ \A i \in 1..k : MaxAge # 0 /\ Expired(gate.queue[i], now)
    BY EvictCutsAtAge
  <2>3. /\ discarded' \subseteq discarded \cup Evicted \cup {arrived + 1}
        /\ arrived' # arrived => arrived' = arrived + 1
        /\ arrived' # arrived /\ ~HandleFull => discarded' \subseteq discarded \cup Evicted
    BY DEF GateNext, HandleOpen, HandleQueueing, HandleFull, Arrive, ForwardPassing,
           OpenGate, ForwardDrained, QueueGate, PollLen, GateTick
  <2>4. Evicted \subseteq 1..arrived
    BY <2>1 DEF Evicted, Messages
  <2>5. ASSUME arrived' \in discarded', arrived' # arrived
        PROVE  Cardinality(Fresh) >= MaxLen
    <3>1. HandleFull
      BY <2>1, <2>3, <2>4, <2>5
    <3>2. Len(gate.queue) - k >= MaxLen
      BY <2>2, <3>1 DEF HandleFull, IsFull
    <3>3. (k + 1)..Len(gate.queue) \subseteq Fresh
      BY <2>1, <2>2
    <3>4. IsFiniteSet(Fresh)
      <4>1. IsFiniteSet(1..Len(gate.queue)) /\ Fresh \subseteq 1..Len(gate.queue)
        BY <2>1, FS_Interval
      <4> HIDE DEF Fresh
      <4>2. QED
        BY <4>1, FS_Subset
    <3> HIDE DEF Fresh
    <3>5. Cardinality((k + 1)..Len(gate.queue)) <= Cardinality(Fresh)
      BY <3>3, <3>4, FS_Subset
    <3>6. Cardinality((k + 1)..Len(gate.queue)) = Len(gate.queue) - k
      <4>1. k \in Int /\ k + 1 \in Int /\ Len(gate.queue) \in Int /\ k <= Len(gate.queue)
        BY <2>1
      <4> DEFINE a == k + 1
                 b == Len(gate.queue)
      <4>2. a \in Int /\ b \in Int
        BY <4>1
      <4> HIDE DEF a, b
      <4>3. Cardinality(a..b) = IF a > b THEN 0 ELSE b - a + 1
        BY <4>2, FS_Interval
      <4>4. QED
        BY <4>1, <4>3 DEF a, b
    <3>7. Cardinality(Fresh) \in Nat
      BY <3>4, FS_CardinalityType
    <3>8. QED
      BY <2>1, <3>2, <3>5, <3>6, <3>7, GateAssumption
  <2>6. ASSUME NEW i \in DOMAIN gate.queue, gate.queue[i].msg \in discarded' \ discarded
        PROVE  MaxAge > 0 /\ gate.queue[i].at < now - MaxAge
    <3>1. gate.queue[i].msg \in Evicted
      BY <2>1, <2>3, <2>6
    <3>2. i \notin (k + 1)..Len(gate.queue)
      BY <2>2, <3>1 DEF Evicted
    <3>3. i \in 1..k
      BY <2>1, <2>2, <3>2
    <3>4. QED
      BY <2>2, <3>3, GateAssumption DEF Expired
  <2>7. QED
    BY <2>5, <2>6
<1>2. QED
  BY <1>1, GateInvariant, PTL DEF GateSpec, DiscardsJustified
=============================================================================
