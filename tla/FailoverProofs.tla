--------------------------- MODULE FailoverProofs ---------------------------
(***************************************************************************)
(* The two safety promises of a fail-over, for any number of instances,    *)
(* copies and ids, any TTL, maxLen and maxAge, any faults, and any roles:  *)
(* ClaimsApart and BacklogRecognised.                                      *)
(*                                                                         *)
(* The argument.  A claim succeeds only when the id's key is dead, so      *)
(* every earlier claim is more than TTL old.  A copy reaches dedup at most *)
(* MaxProc after it was dispatched, and was dispatched at most maxAge      *)
(* after it was received: at once when the gate was open, and by an Open   *)
(* that had just evicted the queue otherwise.  The second half is where    *)
(* the queue's age order is needed.  Adding up, every earlier claim lies   *)
(* before receipt + maxAge + MaxProc - TTL.                                *)
(*                                                                         *)
(* And a third, KeysAnswered: an id is marked only by a copy that goes on  *)
(* to the publisher, and no gate ever touches that copy again.             *)
(***************************************************************************)
EXTENDS Failover, SequenceTheorems, WellFoundedInduction, TLAPS

(* What the operators of GateOps do to a queue ordered by age.             *)

Entries == [msg : Copies, at : Nat]

Sorted(q) == \A i, j \in 1..Len(q) : i <= j => q[i].at <= q[j].at

\* A non-empty set of naturals has a least element, and Min is it.
LEMMA MinIsLeast ==
  ASSUME NEW S, S \subseteq Nat, S # {}
  PROVE  Min(S) \in S /\ \A y \in S : Min(S) <= y
<1> DEFINE Less == {p \in Nat \X Nat : p[1] < p[2]}
<1>1. OpToRel(<, Nat) = Less
  BY DEF OpToRel
<1>2. PICK x \in S : \A y \in S : ~(<<y, x>> \in Less)
  BY <1>1, NatLessThanWellFounded, WFMin
<1>3. ASSUME NEW y \in S PROVE x <= y
  <2>1. <<y, x>> \in Nat \X Nat /\ x \in Nat /\ y \in Nat
    OBVIOUS
  <2>2. ~(<<y, x>>[1] < <<y, x>>[2])
    BY <1>2, <2>1
  <2>3. QED
    BY <2>1, <2>2
<1>4. QED
  BY <1>3 DEF Min

\* evictExpiredLocked cuts at the first entry that has not expired.  In a queue
\* ordered by age that is enough: what it leaves is a part of the queue, still
\* ordered, with nothing older than maxAge.
LEMMA EvictKeepsSorted ==
  ASSUME NEW q \in Seq(Entries), NEW t \in Nat, Sorted(q)
  PROVE  /\ EvictExpired(q, t) \in Seq(Entries)
         /\ Sorted(EvictExpired(q, t))
         /\ Len(EvictExpired(q, t)) <= Len(q)
         /\ \A i \in 1..Len(EvictExpired(q, t)) :
              /\ EvictExpired(q, t)[i].at >= t - MaxAge
              /\ \E j \in 1..Len(q) : EvictExpired(q, t)[i] = q[j]
<1> DEFINE live == {i \in 1..Len(q) : ~Expired(q[i], t)}
           first == Min(live)
<1>1. Len(q) \in Nat /\ MaxAge \in Nat \ {0} /\ \A i \in 1..Len(q) : q[i] \in Entries
  BY LenProperties, ElementOfSeq, FailoverAssumption, GateAssumption
<1>2. \A i \in 1..Len(q) : q[i].at \in Nat
  BY <1>1 DEF Entries
<1>3. CASE live = {}
  <2>1. EvictExpired(q, t) = <<>>
    BY <1>1, <1>3 DEF EvictExpired
  <2>2. <<>> \in Seq(Entries) /\ Len(<<>>) = 0
    BY EmptySeq
  <2>3. QED
    BY <1>1, <2>1, <2>2 DEF Sorted
<1>4. CASE live # {}
  <2>1. EvictExpired(q, t) = SubSeq(q, first, Len(q))
    BY <1>1, <1>4 DEF EvictExpired
  <2>2. first \in 1..Len(q) /\ ~Expired(q[first], t)
    <3>1. live \subseteq Nat
      BY <1>1
    <3>2. first \in live
      BY <1>4, <3>1, MinIsLeast
    <3>3. QED
      BY <3>2
  <2> HIDE DEF first
  <2> DEFINE r == SubSeq(q, first, Len(q))
  <2>3. /\ r \in Seq(Entries)
        /\ Len(r) = Len(q) - first + 1
        /\ \A i \in 1..(Len(q) - first + 1) : r[i] = q[first + i - 1]
    <3>1. \A i \in first..Len(q) : q[i] \in Entries
      BY <1>1, <2>2
    <3>2. QED
      BY <1>1, <2>2, <3>1, SubSeqProperties
  <2> HIDE DEF r
  <2>4. \A i \in 1..Len(r) : first + i - 1 \in first..Len(q) /\ r[i] = q[first + i - 1]
    BY <1>1, <2>2, <2>3
  <2>5. q[first].at >= t - MaxAge
    BY <1>1, <1>2, <2>2 DEF Expired
  <2>6. \A j \in first..Len(q) : j \in 1..Len(q) /\ q[j].at >= t - MaxAge
    <3> TAKE j \in first..Len(q)
    <3>1. j \in 1..Len(q) /\ first <= j
      BY <1>1, <2>2
    <3>2. q[first].at <= q[j].at
      BY <2>2, <3>1 DEF Sorted
    <3>3. q[j].at \in Nat /\ q[first].at \in Nat
      BY <1>2, <2>2, <3>1
    <3>4. QED
      BY <1>1, <2>5, <3>1, <3>2, <3>3
  <2>7. Sorted(r)
    <3> SUFFICES ASSUME NEW i \in 1..Len(r), NEW j \in 1..Len(r), i <= j
                 PROVE  r[i].at <= r[j].at
      BY DEF Sorted
    <3>1. first + i - 1 \in 1..Len(q) /\ first + j - 1 \in 1..Len(q)
      BY <2>4, <2>6
    <3>2. first + i - 1 <= first + j - 1
      BY <2>2
    <3>3. QED
      BY <2>4, <3>1, <3>2 DEF Sorted
  <2>8. Len(r) <= Len(q)
    BY <1>1, <2>2, <2>3
  <2>9. QED
    BY <2>1, <2>3, <2>4, <2>6, <2>7, <2>8 DEF r
<1>5. QED
  BY <1>3, <1>4

\* Appending an entry at least as young as every other.
LEMMA AppendKeepsSorted ==
  ASSUME NEW E, NEW r \in Seq(E), NEW e \in E, Sorted(r), e.at \in Nat,
         \A i \in 1..Len(r) : r[i].at <= e.at
  PROVE  /\ Append(r, e) \in Seq(E)
         /\ Sorted(Append(r, e))
         /\ Len(Append(r, e)) = Len(r) + 1
         /\ \A i \in 1..Len(Append(r, e)) :
              \/ Append(r, e)[i] = e
              \/ i \in 1..Len(r) /\ Append(r, e)[i] = r[i]
<1> DEFINE a == Append(r, e)
<1>0. Len(r) \in Nat
  BY LenProperties
<1>1. /\ a \in Seq(E) /\ Len(a) = Len(r) + 1
      /\ \A i \in 1..Len(r) : a[i] = r[i]
      /\ a[Len(r) + 1] = e
  BY AppendProperties
<1> HIDE DEF a
<1>2. \A i \in 1..Len(a) : i = Len(r) + 1 \/ i \in 1..Len(r)
  BY <1>0, <1>1
<1>3. ASSUME NEW i \in 1..Len(a), NEW j \in 1..Len(a), i <= j
      PROVE  a[i].at <= a[j].at
  <2>1. CASE i = Len(r) + 1
    <3>1. j = Len(r) + 1
      BY <1>0, <1>1, <1>3, <2>1
    <3>2. QED
      BY <1>1, <2>1, <3>1
  <2>2. CASE i \in 1..Len(r) /\ j = Len(r) + 1
    BY <1>1, <2>2
  <2>3. CASE i \in 1..Len(r) /\ j \in 1..Len(r)
    BY <1>1, <1>3, <2>3 DEF Sorted
  <2>4. QED
    BY <1>2, <2>1, <2>2, <2>3
<1>4. QED
  BY <1>1, <1>2, <1>3 DEF Sorted, a

-----------------------------------------------------------------------------

\* Instance i's queue: in age order, of its own copies, each still queued
\* and stamped with the time it was received.
QueueOK(i) ==
  /\ Sorted(gates[i].queue)
  /\ \A k \in 1..Len(gates[i].queue) :
       LET e == gates[i].queue[k]
       IN  /\ e.msg.inst = i
           /\ stage[e.msg] = "queued"
           /\ receivedAt[e.msg] = e.at
           /\ e.at <= now

\* A copy on its way to dedup is fresh.
InProcessFresh(c) ==
  stage[c] \in InProcess
    => /\ receivedAt[c] \in Nat /\ startedAt[c] \in Nat
       /\ startedAt[c] <= receivedAt[c] + MaxAge
       /\ startedAt[c] <= now
       /\ now <= startedAt[c] + MaxProc

\* A claim set its id's key, which has not been set to an earlier time since.
ClaimKnown(c) ==
  Claimed(c)
    => /\ stage[c] \in PastDedup \cup Final
       /\ receivedAt[c] \in Nat
       /\ keys[c.id] # Never
       /\ claimedAt[c] <= keys[c.id]

Core ==
  /\ \A i \in Inst : QueueOK(i)
  /\ \A c \in Copies : InProcessFresh(c) /\ ClaimKnown(c)
  /\ \A m \in Ids : keys[m] <= now

IInv == TypeOK /\ Core /\ ClaimsApart /\ BacklogRecognised

LEMMA InitEstablishesIInv == Init => IInv
<1> SUFFICES ASSUME Init PROVE IInv
  OBVIOUS
<1> USE FailoverAssumption, GateAssumption DEF Init
<1>1. TypeOK
  <2>1. NewGate \in [state : {Queueing, Open}, queue : Seq(Entries)]
    BY EmptySeq DEF NewGate
  <2>2. Len(NewGate.queue) = 0
    BY EmptySeq DEF NewGate
  <2>3. QED
    BY <2>1, <2>2 DEF TypeOK, Times, Stages, Entries
<1>2. Core
  <2>1. \A i \in Inst : QueueOK(i)
    <3>1. Len(NewGate.queue) = 0
      BY EmptySeq DEF NewGate
    <3>2. QED
      BY <3>1 DEF QueueOK, Sorted
  <2>2. \A c \in Copies : InProcessFresh(c) /\ ClaimKnown(c)
    BY DEF InProcessFresh, ClaimKnown, InProcess, Claimed
  <2>3. QED
    BY <2>1, <2>2 DEF Core, Never
<1>3. ClaimsApart /\ BacklogRecognised
  BY DEF ClaimsApart, BacklogRecognised, Claimed
<1>4. QED
  BY <1>1, <1>2, <1>3 DEF IInv

\* What eviction leaves of a good queue, and what it takes out.
LEMMA QueueFacts ==
  ASSUME TypeOK, NEW i \in Inst, QueueOK(i)
  PROVE  /\ gates[i].queue \in Seq(Entries) /\ now \in Nat
         /\ gates[i].state \in {Queueing, Open}
         /\ DOMAIN gates[i].queue = 1..Len(gates[i].queue)
         /\ Len(gates[i].queue) \in Nat
         /\ \A k \in 1..Len(gates[i].queue) : gates[i].queue[k] \in Entries
<1>1. gates[i].queue \in Seq(Entries) /\ gates[i].state \in {Queueing, Open} /\ now \in Nat
  BY DEF TypeOK, Entries
<1>2. QED
  BY <1>1, LenProperties, ElementOfSeq

LEMMA EvictedFacts ==
  ASSUME TypeOK, NEW i \in Inst, QueueOK(i)
  PROVE  LET r == EvictExpired(gates[i].queue, now)
         IN  /\ r \in Seq(Entries) /\ Sorted(r)
             /\ Len(r) \in Nat /\ Len(r) <= Len(gates[i].queue)
             /\ DOMAIN r = 1..Len(r)
             /\ \A k \in 1..Len(r) :
                  /\ r[k] \in Entries
                  /\ r[k].msg.inst = i
                  /\ stage[r[k].msg] = "queued"
                  /\ receivedAt[r[k].msg] = r[k].at
                  /\ r[k].at <= now
                  /\ r[k].at >= now - MaxAge
                  /\ r[k].msg \notin Evicted(i)
             /\ \A c \in Evicted(i) : c \in Copies /\ c.inst = i /\ stage[c] = "queued"
<1> DEFINE q == gates[i].queue
           r == EvictExpired(q, now)
<1>1. /\ q \in Seq(Entries) /\ now \in Nat /\ DOMAIN q = 1..Len(q)
      /\ \A k \in 1..Len(q) : q[k] \in Entries
  BY QueueFacts
<1>2. Sorted(q)
  BY DEF QueueOK
<1> HIDE DEF q
<1>3. /\ r \in Seq(Entries) /\ Sorted(r) /\ Len(r) <= Len(q)
      /\ \A k \in 1..Len(r) : \E j \in 1..Len(q) : r[k] = q[j]
  BY <1>1, <1>2, EvictKeepsSorted
<1>4. \A k \in 1..Len(r) : r[k].at >= now - MaxAge
  BY <1>1, <1>2, EvictKeepsSorted
<1> HIDE DEF r
<1>5. Len(r) \in Nat /\ DOMAIN r = 1..Len(r) /\ \A k \in 1..Len(r) : r[k] \in Entries
  BY <1>3, LenProperties, ElementOfSeq
<1>6. ASSUME NEW k \in 1..Len(q)
      PROVE  /\ q[k].msg.inst = i /\ stage[q[k].msg] = "queued"
             /\ receivedAt[q[k].msg] = q[k].at /\ q[k].at <= now
  BY DEF QueueOK, q
<1>7. \A c \in Evicted(i) : c \in Messages(q) /\ c \notin Messages(r)
  BY DEF Evicted, q, r
<1>8. \A k \in 1..Len(r) : r[k].msg \notin Evicted(i)
  BY <1>5, <1>7 DEF Messages
<1>9. \A c \in Evicted(i) : c \in Copies /\ c.inst = i /\ stage[c] = "queued"
  <2> SUFFICES ASSUME NEW c \in Evicted(i)
               PROVE  c \in Copies /\ c.inst = i /\ stage[c] = "queued"
    OBVIOUS
  <2>1. PICK k \in 1..Len(q) : c = q[k].msg
    BY <1>1, <1>7 DEF Messages
  <2>2. q[k].msg \in Copies
    BY <1>1 DEF Entries
  <2>3. QED
    BY <1>6, <2>1, <2>2
<1>10. ASSUME NEW k \in 1..Len(r)
       PROVE  /\ r[k].msg.inst = i /\ stage[r[k].msg] = "queued"
              /\ receivedAt[r[k].msg] = r[k].at /\ r[k].at <= now
  <2>1. PICK j \in 1..Len(q) : r[k] = q[j]
    BY <1>3
  <2>2. QED
    BY <1>6, <2>1
<1>11. QED
  BY <1>3, <1>4, <1>5, <1>8, <1>9, <1>10 DEF q, r

-----------------------------------------------------------------------------
(***************************************************************************)
(* What a step leaves alone.                                               *)
(***************************************************************************)

\* A queue is still good if neither it nor its copies changed.
LEMMA QueueFrame ==
  ASSUME TypeOK, NEW i \in Inst, QueueOK(i),
         gates'[i].queue = gates[i].queue, now' \in Nat, now <= now',
         \A c \in Copies : c.inst = i /\ stage[c] = "queued"
           => stage'[c] = "queued" /\ receivedAt'[c] = receivedAt[c]
  PROVE  QueueOK(i)'
<1> DEFINE q == gates[i].queue
<1>1. now \in Nat /\ \A k \in 1..Len(q) : q[k] \in Entries
  BY QueueFacts
<1>2. Sorted(q)
  BY DEF QueueOK
<1>3. ASSUME NEW k \in 1..Len(q)
      PROVE  /\ q[k].msg.inst = i
             /\ stage'[q[k].msg] = "queued"
             /\ receivedAt'[q[k].msg] = q[k].at
             /\ q[k].at <= now'
  <2>1. q[k].msg \in Copies /\ q[k].at \in Nat
    BY <1>1 DEF Entries
  <2>2. /\ q[k].msg.inst = i /\ stage[q[k].msg] = "queued"
        /\ receivedAt[q[k].msg] = q[k].at /\ q[k].at <= now
    BY DEF QueueOK
  <2>3. QED
    BY <1>1, <2>1, <2>2
<1> HIDE DEF q
<1>4. gates'[i].queue = q
  BY DEF q
<1>5. QED
  BY <1>2, <1>3, <1>4 DEF QueueOK

\* So are the freshness and the claim of a copy that did not change, while
\* the clock stands still and keys are only renewed.
LEMMA CopyFrame ==
  ASSUME NEW c \in Copies, InProcessFresh(c), ClaimKnown(c), TypeOK,
         now' = now, stage'[c] = stage[c],
         startedAt'[c] = startedAt[c], receivedAt'[c] = receivedAt[c],
         claimedAt'[c] = claimedAt[c],
         \A m \in Ids : keys[m] <= now /\ (keys'[m] = keys[m] \/ keys'[m] = now)
  PROVE  InProcessFresh(c)' /\ ClaimKnown(c)'
<1>1. InProcessFresh(c)'
  BY DEF InProcessFresh, InProcess
<1>2. ClaimKnown(c)'
  <2>1. c.id \in Ids /\ keys[c.id] \in Times /\ now \in Nat /\ claimedAt[c] \in Times
    BY DEF TypeOK, Ids
  <2>2. QED
    BY <2>1 DEF ClaimKnown, Claimed, PastDedup, Final, Times, Never
<1>3. QED
  BY <1>1, <1>2

\* The two promises speak of claimed copies only.
LEMMA PromiseFrame ==
  ASSUME ClaimsApart, BacklogRecognised, claimedAt' = claimedAt,
         \A c \in Copies : Claimed(c) => receivedAt'[c] = receivedAt[c]
  PROVE  ClaimsApart' /\ BacklogRecognised'
<1>1. ClaimsApart'
  BY DEF ClaimsApart, Claimed
<1>2. BacklogRecognised'
  BY DEF BacklogRecognised, Claimed, Slack
<1>3. QED
  BY <1>1, <1>2

\* A step of one goroutine: copy c moves on from process(), nothing else does.
LEMMA GoroutineStep ==
  ASSUME TypeOK, Core, NEW c \in Copies, stage[c] # "queued",
         gates' = gates, now' = now,
         \A d \in Copies : d # c => /\ stage'[d] = stage[d]
                                   /\ startedAt'[d] = startedAt[d]
                                   /\ receivedAt'[d] = receivedAt[d]
                                   /\ claimedAt'[d] = claimedAt[d],
         \A m \in Ids : keys'[m] = keys[m] \/ keys'[m] = now,
         InProcessFresh(c)', ClaimKnown(c)'
  PROVE  Core'
<1>1. \A i \in Inst : QueueOK(i)'
  <2> SUFFICES ASSUME NEW i \in Inst PROVE QueueOK(i)'
    OBVIOUS
  <2>1. QueueOK(i) /\ now \in Nat
    BY DEF Core, TypeOK
  <2>2. \A d \in Copies : d.inst = i /\ stage[d] = "queued"
          => stage'[d] = "queued" /\ receivedAt'[d] = receivedAt[d]
    OBVIOUS
  <2>3. QED
    BY <2>1, <2>2, QueueFrame
<1>2. \A m \in Ids : keys[m] <= now /\ keys'[m] <= now'
  BY DEF Core, TypeOK
<1>3. ASSUME NEW d \in Copies PROVE InProcessFresh(d)' /\ ClaimKnown(d)'
  <2>1. CASE d = c
    BY <2>1
  <2>2. CASE d # c
    <3>1. InProcessFresh(d) /\ ClaimKnown(d)
      BY DEF Core
    <3>2. QED
      BY <1>2, <2>2, <3>1, CopyFrame
  <2>3. QED
    BY <2>1, <2>2
<1>4. QED
  BY <1>1, <1>2, <1>3 DEF Core

-----------------------------------------------------------------------------
(***************************************************************************)
(* One lemma per action.                                                   *)
(***************************************************************************)

\* The only step that makes a claim.  The key is dead, so every earlier
\* claim of the id is more than TTL old; the copy is fresh, so that puts
\* every earlier claim before its receipt plus the slack.
LEMMA ClaimStep ==
  ASSUME IInv, NEW c \in Copies, Claim(c)
  PROVE  IInv'
<1> USE FailoverAssumption, GateAssumption
<1>0. /\ TypeOK /\ Core /\ ClaimsApart /\ BacklogRecognised /\ now \in Nat
      /\ InProcessFresh(c) /\ ClaimKnown(c) /\ c.id \in Ids
      /\ stage[c] \in InProcess
  BY DEF IInv, Core, Claim, TypeOK, Ids, AtDedup, InProcess
<1>1. /\ gates' = gates /\ now' = now /\ receivedAt' = receivedAt
      /\ stage' = [stage EXCEPT ![c] = "claimed"]
      /\ startedAt' = [startedAt EXCEPT ![c] = Never]
      /\ claimedAt' = [claimedAt EXCEPT ![c] = now]
      /\ keys' = [keys EXCEPT ![c.id] = now]
      /\ ~KeyLive(c.id)
  BY DEF Claim
<1>2. TypeOK'
  BY <1>0, <1>1 DEF Claim, TypeOK, Times, Stages, PastDedup
<1>3. /\ claimedAt'[c] = now /\ stage'[c] = "claimed" /\ keys'[c.id] = now
      /\ \A d \in Copies : d # c => /\ stage'[d] = stage[d]
                                   /\ startedAt'[d] = startedAt[d]
                                   /\ receivedAt'[d] = receivedAt[d]
                                   /\ claimedAt'[d] = claimedAt[d]
  BY <1>0, <1>1 DEF TypeOK
<1>4. /\ receivedAt[c] \in Nat
      /\ now <= receivedAt[c] + MaxAge + MaxProc
  BY <1>0 DEF InProcessFresh, InProcess
<1>5. Core'
  <2>1. InProcessFresh(c)' /\ ClaimKnown(c)'
    BY <1>0, <1>1, <1>3, <1>4 DEF InProcessFresh, InProcess, ClaimKnown, PastDedup, Never
  <2>2. \A m \in Ids : keys'[m] = keys[m] \/ keys'[m] = now
    BY <1>0, <1>1 DEF TypeOK
  <2>3. QED
    BY <1>0, <1>1, <1>3, <2>1, <2>2, GoroutineStep DEF InProcess
\* Every earlier claim of the id is more than TTL old.
<1>6. ASSUME NEW d \in Copies, d # c, d.id = c.id, Claimed(d)
      PROVE  claimedAt[d] \in Nat /\ claimedAt[d] + TTL < now
  <2>1. claimedAt[d] \in Nat /\ keys[c.id] \in Nat /\ claimedAt[d] <= keys[c.id]
    BY <1>0, <1>6 DEF Core, ClaimKnown, Claimed, TypeOK, Times
  <2>2. ~(now <= keys[c.id] + TTL)
    BY <1>1, <2>1 DEF KeyLive, Never
  <2>3. QED
    BY <1>0, <2>1, <2>2
<1>7. ClaimsApart'
  <2> SUFFICES ASSUME NEW x \in Copies, NEW y \in Copies,
                      x # y, x.id = y.id, Claimed(x)', Claimed(y)'
               PROVE  \/ claimedAt'[x] > claimedAt'[y] + TTL
                      \/ claimedAt'[y] > claimedAt'[x] + TTL
    BY DEF ClaimsApart
  <2>1. CASE x = c
    BY <1>0, <1>3, <1>6, <2>1 DEF Claimed
  <2>2. CASE y = c
    BY <1>0, <1>3, <1>6, <2>2 DEF Claimed
  <2>3. CASE x # c /\ y # c
    BY <1>0, <1>3, <2>3 DEF ClaimsApart, Claimed
  <2>4. QED
    BY <2>1, <2>2, <2>3
<1>8. BacklogRecognised'
  <2> SUFFICES ASSUME NEW x \in Copies, NEW y \in Copies,
                      x # y, x.id = y.id, Claimed(x)', Claimed(y)',
                      claimedAt'[y] <= claimedAt'[x]
               PROVE  claimedAt'[y] < receivedAt'[x] + Slack
    BY DEF BacklogRecognised, Slack
  <2>1. CASE x = c
    <3>1. claimedAt[y] \in Nat /\ claimedAt[y] + TTL < now /\ claimedAt'[y] = claimedAt[y]
      BY <1>3, <1>6, <2>1 DEF Claimed
    <3>2. QED
      BY <1>0, <1>1, <1>4, <2>1, <3>1 DEF Slack
  <2>2. CASE y = c
    <3>1. claimedAt[x] \in Nat /\ claimedAt[x] + TTL < now /\ claimedAt'[x] = claimedAt[x]
      BY <1>3, <1>6, <2>2 DEF Claimed
    <3>2. QED
      BY <1>0, <1>3, <2>2, <3>1
  <2>3. CASE x # c /\ y # c
    BY <1>0, <1>1, <1>3, <2>3 DEF BacklogRecognised, Claimed, Slack
  <2>4. QED
    BY <2>1, <2>2, <2>3
<1>9. QED
  BY <1>2, <1>5, <1>7, <1>8 DEF IInv

\* The other steps of process(): none touches a claim.
LEMMA ProcessStep ==
  ASSUME IInv, NEW c \in Copies,
         \/ Check(c) \/ DiscardSeen(c) \/ ReplyLost(c) \/ DedupError(c)
         \/ Publish(c) \/ PublishFails(c)
  PROVE  IInv'
<1> USE FailoverAssumption
<1>0. /\ TypeOK /\ Core /\ ClaimsApart /\ BacklogRecognised /\ now \in Nat
      /\ InProcessFresh(c) /\ ClaimKnown(c) /\ c.id \in Ids
  BY DEF IInv, Core, TypeOK, Ids
<1>1. /\ gates' = gates /\ now' = now /\ claimedAt' = claimedAt
      /\ stage[c] \in InProcess \cup PastDedup
      /\ keys' = keys \/ keys' = [keys EXCEPT ![c.id] = now]
  BY DEF Check, DiscardSeen, ReplyLost, DedupError, Publish, PublishFails, Ends, AtDedup,
         InProcess, PastDedup
<1>2. TypeOK'
  <2>1. /\ isPrimary' = isPrimary /\ deciding' = deciding /\ keys' \in [Ids -> Times]
    BY <1>0, <1>1 DEF Check, DiscardSeen, ReplyLost, DedupError, Publish, PublishFails,
                      TypeOK, Times
  <2>2. \/ stage' = [stage EXCEPT ![c] = "checked"]
        \/ stage' = [stage EXCEPT ![c] = "rejected"]
        \/ stage' = [stage EXCEPT ![c] = "seen"]
        \/ stage' = [stage EXCEPT ![c] = "seenResent"]
        \/ stage' = [stage EXCEPT ![c] = "resent"]
        \/ stage' = [stage EXCEPT ![c] = "unguarded"]
        \/ stage' = [stage EXCEPT ![c] = "published"]
        \/ stage' = [stage EXCEPT ![c] = "unpublished"]
    BY DEF Check, DiscardSeen, ReplyLost, DedupError, Publish, PublishFails, Ends
  <2>3. startedAt' = startedAt \/ startedAt' = [startedAt EXCEPT ![c] = Never]
    BY DEF Check, DiscardSeen, ReplyLost, DedupError, Publish, PublishFails, Ends
  <2>4. receivedAt' = receivedAt \/ Forget({c})
    BY DEF Check, DiscardSeen, ReplyLost, DedupError, Publish, PublishFails, Ends
  <2>5. stage' \in [Copies -> Stages]
    BY <1>0, <2>2 DEF TypeOK, Stages, InProcess, PastDedup, Final
  <2>6. startedAt' \in [Copies -> Times] /\ receivedAt' \in [Copies -> Times]
    BY <1>0, <2>3, <2>4 DEF TypeOK, Forget, Times
  <2>7. QED
    BY <1>0, <1>1, <2>1, <2>5, <2>6 DEF TypeOK
<1>3. \A d \in Copies : d # c => /\ stage'[d] = stage[d]
                               /\ startedAt'[d] = startedAt[d]
                               /\ receivedAt'[d] = receivedAt[d]
                               /\ claimedAt'[d] = claimedAt[d]
  BY <1>0 DEF Check, DiscardSeen, ReplyLost, DedupError, Publish, PublishFails, Ends, Forget,
              TypeOK
<1>4. \A m \in Ids : keys'[m] = keys[m] \/ keys'[m] = now
  BY <1>0, <1>1 DEF TypeOK
<1>5. stage[c] # "queued" /\ (stage[c] \in InProcess => ~Claimed(c))
  BY <1>0, <1>1 DEF InProcess, PastDedup, ClaimKnown, Final
<1>6. InProcessFresh(c)' /\ ClaimKnown(c)' /\ (Claimed(c) => receivedAt'[c] = receivedAt[c])
  <2>1. CASE Publish(c) \/ PublishFails(c)
    <3>1. /\ stage'[c] \in Final /\ receivedAt' = receivedAt /\ keys' = keys
          /\ stage'[c] \notin InProcess
      BY <1>0, <2>1 DEF Publish, PublishFails, TypeOK, Final, InProcess
    <3>2. QED
      BY <1>0, <1>1, <3>1 DEF InProcessFresh, ClaimKnown, Claimed
  <2>2. CASE DiscardSeen(c) \/ DedupError(c)
    <3>1. stage'[c] \notin InProcess /\ stage[c] \in InProcess
      BY <1>0, <2>2 DEF DiscardSeen, DedupError, Ends, TypeOK, AtDedup, InProcess
    <3>2. QED
      BY <1>1, <1>5, <3>1 DEF InProcessFresh, ClaimKnown, Claimed
  <2>3. CASE Check(c)
    <3>1. /\ stage[c] \in InProcess
          /\ \/ stage'[c] = "checked" /\ startedAt' = startedAt /\ receivedAt' = receivedAt
             \/ stage'[c] = "rejected"
      BY <1>0, <2>3 DEF Check, Ends, TypeOK, InProcess
    <3>2. QED
      BY <1>0, <1>1, <1>5, <3>1 DEF InProcessFresh, InProcess, ClaimKnown, Claimed
  <2>4. CASE ReplyLost(c)
    <3>1. /\ stage[c] \in InProcess /\ stage'[c] = "resent"
          /\ startedAt' = startedAt /\ receivedAt' = receivedAt
      BY <1>0, <2>4 DEF ReplyLost, TypeOK, AtDedup, InProcess
    <3>2. QED
      BY <1>0, <1>1, <1>5, <3>1 DEF InProcessFresh, InProcess, ClaimKnown, Claimed
  <2>5. QED
    BY <2>1, <2>2, <2>3, <2>4
<1>7. Core'
  BY <1>0, <1>1, <1>3, <1>4, <1>5, <1>6, GoroutineStep
<1>8. ClaimsApart' /\ BacklogRecognised'
  BY <1>0, <1>1, <1>3, <1>6, PromiseFrame
<1>9. QED
  BY <1>2, <1>7, <1>8 DEF IInv

\* A step that changes roles only, and one that lets time pass.
LEMMA RoleStep ==
  ASSUME IInv, NEW i \in Inst,
         (\E primary \in BOOLEAN : SetPrimary(i, primary)) \/ Demote(i)
  PROVE  IInv'
<1>0. TypeOK /\ Core /\ ClaimsApart /\ BacklogRecognised /\ now \in Nat
  BY DEF IInv, TypeOK
<1>1. /\ now' = now /\ stage' = stage /\ keys' = keys /\ startedAt' = startedAt
      /\ receivedAt' = receivedAt /\ claimedAt' = claimedAt
      /\ gates' = gates \/ gates' = [gates EXCEPT ![i] = Queued(@)]
  BY DEF SetPrimary, Demote
<1>2. isPrimary' \in [Inst -> BOOLEAN] /\ deciding' \in [Inst -> BOOLEAN]
  BY <1>0 DEF SetPrimary, Demote, TypeOK
<1>3. \A j \in Inst : /\ gates'[j].queue = gates[j].queue
                      /\ gates'[j] \in [state : {Queueing, Open}, queue : Seq(Entries)]
  <2> SUFFICES ASSUME NEW j \in Inst
               PROVE  /\ gates'[j].queue = gates[j].queue
                      /\ gates'[j] \in [state : {Queueing, Open}, queue : Seq(Entries)]
    OBVIOUS
  <2>1. gates[j] \in [state : {Queueing, Open}, queue : Seq(Entries)]
    BY <1>0 DEF TypeOK, Entries
  <2>2. gates'[j] = gates[j] \/ gates'[j] = Queued(gates[j])
    BY <1>0, <1>1 DEF TypeOK
  <2>3. QED
    BY <2>1, <2>2 DEF Queued
<1>4. gates' \in [Inst -> [state : {Queueing, Open}, queue : Seq(Entries)]]
  <2>1. gates' = [j \in Inst |-> gates'[j]]
    BY <1>0, <1>1 DEF TypeOK
  <2>2. QED
    BY <1>3, <2>1
<1>5. TypeOK'
  BY <1>0, <1>1, <1>2, <1>3, <1>4 DEF TypeOK, Entries
<1>6. \A j \in Inst : QueueOK(j)'
  BY <1>0, <1>1, <1>3, QueueFrame DEF Core
<1>7. \A c \in Copies : InProcessFresh(c)' /\ ClaimKnown(c)'
  BY <1>0, <1>1, CopyFrame DEF Core
<1>8. Core'
  BY <1>0, <1>1, <1>6, <1>7 DEF Core
<1>9. QED
  BY <1>0, <1>1, <1>5, <1>8, PromiseFrame DEF IInv

LEMMA TickStep ==
  ASSUME IInv, Tick
  PROVE  IInv'
<1> USE FailoverAssumption
<1>0. TypeOK /\ Core /\ ClaimsApart /\ BacklogRecognised /\ now \in Nat
  BY DEF IInv, TypeOK
<1>1. /\ now' = now + 1 /\ gates' = gates /\ stage' = stage /\ keys' = keys
      /\ startedAt' = startedAt /\ receivedAt' = receivedAt /\ claimedAt' = claimedAt
      /\ isPrimary' = isPrimary /\ deciding' = deciding
      /\ \A c \in Copies : stage[c] \in InProcess => now < startedAt[c] + MaxProc
  BY DEF Tick
<1>2. TypeOK'
  <2>1. now' \in Nat
    BY <1>0, <1>1
  <2>2. QED
    BY <1>0, <1>1, <2>1, Zenon DEF TypeOK
<1>3. \A j \in Inst : QueueOK(j)'
  BY <1>0, <1>1, QueueFrame DEF Core
<1>4. ASSUME NEW c \in Copies PROVE InProcessFresh(c)' /\ ClaimKnown(c)'
  <2>1. InProcessFresh(c) /\ ClaimKnown(c)
    BY <1>0 DEF Core
  <2>2. QED
    BY <1>0, <1>1, <2>1 DEF InProcessFresh, ClaimKnown, Claimed
<1>5. \A m \in Ids : keys'[m] <= now'
  BY <1>0, <1>1 DEF Core, TypeOK, Times, Never
<1>6. Core'
  BY <1>3, <1>4, <1>5 DEF Core
<1>7. QED
  BY <1>0, <1>1, <1>2, <1>6, PromiseFrame DEF IInv

\* What a step that changes gate i only does to the other queues and copies.
LEMMA GateStep ==
  ASSUME IInv, NEW i \in Inst, NEW S \in SUBSET {c \in Copies : c.inst = i},
         keys' = keys, now' = now, claimedAt' = claimedAt,
         \A j \in Inst : j # i => gates'[j] = gates[j],
         \A c \in Copies : c \notin S => /\ stage'[c] = stage[c]
                                        /\ startedAt'[c] = startedAt[c]
                                        /\ receivedAt'[c] = receivedAt[c],
         \A c \in S : InProcessFresh(c)' /\ ClaimKnown(c)',
         \A c \in S : Claimed(c) => receivedAt'[c] = receivedAt[c],
         QueueOK(i)', TypeOK'
  PROVE  IInv'
<1>0. TypeOK /\ Core /\ ClaimsApart /\ BacklogRecognised /\ now \in Nat
  BY DEF IInv, TypeOK
<1>1. ASSUME NEW j \in Inst, j # i PROVE QueueOK(j)'
  <2>1. QueueOK(j) /\ gates'[j].queue = gates[j].queue
    BY <1>0, <1>1 DEF Core
  <2>2. \A c \in Copies : c.inst = j /\ stage[c] = "queued"
          => stage'[c] = "queued" /\ receivedAt'[c] = receivedAt[c]
    BY <1>1
  <2>3. QED
    BY <1>0, <2>1, <2>2, QueueFrame
<1>2. ASSUME NEW c \in Copies PROVE InProcessFresh(c)' /\ ClaimKnown(c)'
  <2>1. CASE c \in S
    BY <2>1
  <2>2. CASE c \notin S
    BY <1>0, <2>2, CopyFrame DEF Core
  <2>3. QED
    BY <2>1, <2>2
<1>3. Core'
  BY <1>0, <1>1, <1>2 DEF Core
<1>4. \A c \in Copies : Claimed(c) => receivedAt'[c] = receivedAt[c]
  OBVIOUS
<1>5. QED
  BY <1>0, <1>3, <1>4, PromiseFrame DEF IInv

\* A copy that is neither received nor in process() has not been claimed.
LEMMA UnclaimedEarly ==
  ASSUME NEW c \in Copies, Core, stage[c] \in {"none", "queued"} \cup InProcess
  PROVE  ~Claimed(c)
BY DEF Core, ClaimKnown, PastDedup, Final, InProcess

LEMMA HandleLiveStep ==
  ASSUME IInv, NEW c \in Copies, HandleLive(c)
  PROVE  IInv'
<1> USE FailoverAssumption, GateAssumption
<1>0. TypeOK /\ Core /\ now \in Nat /\ c.inst \in Inst /\ ~Claimed(c)
  BY UnclaimedEarly DEF IInv, TypeOK, HandleLive
<1>1. TypeOK'
  BY <1>0 DEF HandleLive, TypeOK, Times, Stages, InProcess
<1>2. /\ gates' = gates /\ keys' = keys /\ now' = now /\ claimedAt' = claimedAt
      /\ stage'[c] = "dispatched" /\ receivedAt'[c] = now /\ startedAt'[c] = now
      /\ \A d \in Copies : d \notin {c} => /\ stage'[d] = stage[d]
                                          /\ startedAt'[d] = startedAt[d]
                                          /\ receivedAt'[d] = receivedAt[d]
  BY <1>0 DEF HandleLive, TypeOK
<1>3. InProcessFresh(c)' /\ ClaimKnown(c)'
  BY <1>0, <1>2 DEF InProcessFresh, ClaimKnown, Claimed
<1>4. QueueOK(c.inst)'
  <2>1. QueueOK(c.inst)
    BY <1>0 DEF Core
  <2>2. \A d \in Copies : d.inst = c.inst /\ stage[d] = "queued"
          => stage'[d] = "queued" /\ receivedAt'[d] = receivedAt[d]
    BY <1>2 DEF HandleLive
  <2>3. QED
    BY <1>0, <1>2, <2>1, <2>2, QueueFrame
<1>5. {c} \in SUBSET {d \in Copies : d.inst = c.inst}
  OBVIOUS
<1> DEFINE S == {c}
<1>6. \A d \in S : InProcessFresh(d)' /\ ClaimKnown(d)' /\ ~Claimed(d)
  BY <1>0, <1>3
<1>7. /\ S \in SUBSET {d \in Copies : d.inst = c.inst}
      /\ \A d \in Copies : d \notin S => /\ stage'[d] = stage[d]
                                        /\ startedAt'[d] = startedAt[d]
                                        /\ receivedAt'[d] = receivedAt[d]
  BY <1>2, <1>5
<1> HIDE DEF S
<1>8. QED
  BY <1>0, <1>1, <1>2, <1>4, <1>6, <1>7, GateStep

\* Replacing one gate.
LEMMA GateReplaced ==
  ASSUME TypeOK, NEW i \in Inst, NEW s \in {Queueing, Open}, NEW x \in Seq(Entries),
         Len(x) <= MaxLen,
         gates' = [gates EXCEPT ![i] = [state |-> s, queue |-> x]]
  PROVE  /\ gates' \in [Inst -> [state : {Queueing, Open},
                                 queue : Seq([msg : Copies, at : Nat])]]
         /\ \A j \in Inst : Len(gates'[j].queue) <= MaxLen
         /\ gates'[i].queue = x
         /\ \A j \in Inst : j # i => gates'[j] = gates[j]
<1> DEFINE R == [state : {Queueing, Open}, queue : Seq(Entries)]
           g == [state |-> s, queue |-> x]
<1>1. g \in R /\ g.queue = x
  OBVIOUS
<1>2. gates \in [Inst -> R] /\ \A j \in Inst : Len(gates[j].queue) <= MaxLen
  BY DEF TypeOK, Entries
<1>3. gates' = [gates EXCEPT ![i] = g]
  OBVIOUS
<1> HIDE DEF R, g
<1>4. /\ gates' \in [Inst -> R]
      /\ \A j \in Inst : gates'[j] = IF j = i THEN g ELSE gates[j]
  BY <1>1, <1>2, <1>3
<1>5. QED
  BY <1>1, <1>2, <1>4 DEF R, Entries

\* What an arrival at a queueing gate does to the copies: the new one is
\* queued or refused, the expired ones end, and none of these was claimed.
LEMMA ArrivalFacts ==
  ASSUME IInv, NEW c \in Copies, NEW as \in {"queued", "refused"},
         stage[c] = "none", Arrives(c, as), startedAt' = startedAt,
         claimedAt' = claimedAt, now' = now
  PROVE  LET S == {c} \cup Evicted(c.inst)
         IN  /\ S \in SUBSET {d \in Copies : d.inst = c.inst}
             /\ c \notin Evicted(c.inst)
             /\ stage' \in [Copies -> Stages] /\ receivedAt' \in [Copies -> Times]
             /\ stage'[c] = as /\ (as = "queued" => receivedAt'[c] = now)
             /\ \A d \in Copies : d \notin S => /\ stage'[d] = stage[d]
                                               /\ startedAt'[d] = startedAt[d]
                                               /\ receivedAt'[d] = receivedAt[d]
             /\ \A d \in S : InProcessFresh(d)' /\ ClaimKnown(d)' /\ ~Claimed(d)
<1> USE FailoverAssumption, GateAssumption
<1>0. TypeOK /\ Core /\ now \in Nat /\ c.inst \in Inst /\ QueueOK(c.inst)
  BY DEF IInv, TypeOK, Core
<1> DEFINE S == {c} \cup Evicted(c.inst)
<1>1. \A d \in Evicted(c.inst) : d \in Copies /\ d.inst = c.inst /\ stage[d] = "queued"
  BY <1>0, EvictedFacts
<1>2. S \in SUBSET {d \in Copies : d.inst = c.inst} /\ c \notin Evicted(c.inst)
  BY <1>1
<1>3. /\ stage'[c] = as /\ (as = "queued" => receivedAt'[c] = now)
      /\ \A d \in Evicted(c.inst) : stage'[d] = "evicted"
      /\ \A d \in Copies : d \notin S => /\ stage'[d] = stage[d]
                                        /\ startedAt'[d] = startedAt[d]
                                        /\ receivedAt'[d] = receivedAt[d]
  BY <1>1, <1>2 DEF Arrives
<1>4. stage' \in [Copies -> Stages] /\ receivedAt' \in [Copies -> Times]
  <2>1. stage \in [Copies -> Stages] /\ receivedAt \in [Copies -> Times]
    BY <1>0 DEF TypeOK
  <2>2. as \in Stages /\ "evicted" \in Stages /\ now \in Times /\ Never \in Times
    BY <1>0 DEF Stages, Final, Times
  <2>3. QED
    BY <2>1, <2>2 DEF Arrives
<1>5. ASSUME NEW d \in S PROVE InProcessFresh(d)' /\ ClaimKnown(d)' /\ ~Claimed(d)
  <2>1. d \in Copies /\ stage[d] \in {"none", "queued"}
    BY <1>1
  <2>2. ~Claimed(d)
    BY <1>0, <2>1, UnclaimedEarly
  <2>3. stage'[d] \in {"queued", "refused", "evicted"}
    BY <1>3
  <2>4. QED
    BY <2>2, <2>3 DEF InProcessFresh, InProcess, ClaimKnown, Claimed
<1> HIDE DEF S
<1>6. QED
  BY <1>2, <1>3, <1>4, <1>5 DEF S

LEMMA HandleQueueingStep ==
  ASSUME IInv, NEW c \in Copies, HandleQueueing(c)
  PROVE  IInv'
<1> USE FailoverAssumption, GateAssumption
<1> DEFINE i == c.inst
           q == gates[i].queue
           r == EvictExpired(q, now)
           e == [msg |-> c, at |-> now]
           a == Append(r, e)
           S == {c} \cup Evicted(i)
<1>0. TypeOK /\ Core /\ now \in Nat /\ i \in Inst /\ QueueOK(i)
  BY DEF IInv, TypeOK, Core
<1>1. /\ stage[c] = "none" /\ Arrives(c, "queued") /\ startedAt' = startedAt
      /\ claimedAt' = claimedAt /\ now' = now /\ keys' = keys
      /\ isPrimary' = isPrimary /\ deciding' = deciding
      /\ gates' = [gates EXCEPT ![i] = Enqueued(@, c, now)]
      /\ Len(r) < MaxLen
  <2>1. Len(r) \in Nat
    BY <1>0, EvictedFacts
  <2>2. QED
    BY <2>1 DEF HandleQueueing, IsFull
<1>2. /\ S \in SUBSET {d \in Copies : d.inst = i}
      /\ c \notin Evicted(i)
      /\ stage' \in [Copies -> Stages] /\ receivedAt' \in [Copies -> Times]
      /\ stage'[c] = "queued" /\ receivedAt'[c] = now
      /\ \A d \in Copies : d \notin S => /\ stage'[d] = stage[d]
                                        /\ startedAt'[d] = startedAt[d]
                                        /\ receivedAt'[d] = receivedAt[d]
      /\ \A d \in S : InProcessFresh(d)' /\ ClaimKnown(d)' /\ ~Claimed(d)
  <2>1. "queued" \in {"queued", "refused"}
    OBVIOUS
  <2>2. QED
    BY <1>1, <2>1, ArrivalFacts
<1>3. /\ r \in Seq(Entries) /\ Sorted(r) /\ Len(r) \in Nat
      /\ \A k \in 1..Len(r) : /\ r[k] \in Entries /\ r[k].msg.inst = i
                              /\ stage[r[k].msg] = "queued"
                              /\ receivedAt[r[k].msg] = r[k].at /\ r[k].at <= now
                              /\ r[k].msg \notin Evicted(i)
  BY <1>0, EvictedFacts
<1>4. gates[i].state \in {Queueing, Open}
      /\ gates' = [gates EXCEPT ![i] = [state |-> gates[i].state, queue |-> a]]
  <2>1. gates[i] \in [state : {Queueing, Open}, queue : Seq(Entries)]
    BY <1>0 DEF TypeOK, Entries
  <2>2. ASSUME NEW x PROVE [gates[i] EXCEPT !.queue = x] = [state |-> gates[i].state, queue |-> x]
    BY <2>1
  <2>3. Enqueued(gates[i], c, now) = [gates[i] EXCEPT !.queue = a]
    BY DEF Enqueued
  <2> HIDE DEF a
  <2>4. QED
    BY <1>1, <2>1, <2>2, <2>3
<1>6. e \in Entries /\ e.at = now /\ e.msg = c
  BY <1>0 DEF Entries
<1> HIDE DEF r, e, a, S, i
<1>7. /\ a \in Seq(Entries) /\ Sorted(a) /\ Len(a) = Len(r) + 1
      /\ \A k \in 1..Len(a) : a[k] = e \/ (k \in 1..Len(r) /\ a[k] = r[k])
  <2>1. e.at \in Nat /\ \A k \in 1..Len(r) : r[k].at <= e.at
    BY <1>0, <1>3, <1>6
  <2>2. r \in Seq(Entries) /\ e \in Entries /\ Sorted(r)
    BY <1>3, <1>6
  <2>3. QED
    BY <2>1, <2>2, AppendKeepsSorted DEF a
<1>8. Len(a) <= MaxLen
  BY <1>1, <1>3, <1>7, GateAssumption
<1>9. /\ gates' \in [Inst -> [state : {Queueing, Open},
                              queue : Seq([msg : Copies, at : Nat])]]
      /\ \A j \in Inst : Len(gates'[j].queue) <= MaxLen
      /\ gates'[i].queue = a
      /\ \A j \in Inst : j # i => gates'[j] = gates[j]
  BY <1>0, <1>4, <1>7, <1>8, GateReplaced
<1>10. QueueOK(i)'
  <2>1. gates'[i].queue = a
    BY <1>9
  <2>2. ASSUME NEW k \in 1..Len(a)
        PROVE  /\ a[k].msg.inst = i /\ stage'[a[k].msg] = "queued"
               /\ receivedAt'[a[k].msg] = a[k].at /\ a[k].at <= now'
    <3>1. CASE a[k] = e
      BY <1>0, <1>1, <1>2, <1>6, <3>1 DEF i
    <3>2. CASE k \in 1..Len(r) /\ a[k] = r[k]
      <4>1. r[k].msg \in Copies /\ r[k].msg \notin S
        BY <1>1, <1>3, <3>2 DEF Entries, S
      <4>2. QED
        BY <1>1, <1>2, <1>3, <3>2, <4>1
    <3>3. QED
      BY <1>7, <3>1, <3>2
  <2>3. QED
    BY <1>7, <2>1, <2>2 DEF QueueOK
<1>11. TypeOK'
  BY <1>0, <1>1, <1>2, <1>9 DEF TypeOK
<1>12. QED
  BY <1>0, <1>1, <1>2, <1>9, <1>10, <1>11, GateStep

LEMMA HandleFullStep ==
  ASSUME IInv, NEW c \in Copies, HandleFull(c)
  PROVE  IInv'
<1> USE FailoverAssumption, GateAssumption
<1> DEFINE i == c.inst
           q == gates[i].queue
           r == EvictExpired(q, now)
           S == {c} \cup Evicted(i)
<1>0. TypeOK /\ Core /\ now \in Nat /\ i \in Inst /\ QueueOK(i)
  BY DEF IInv, TypeOK, Core
<1>1. /\ stage[c] = "none" /\ Arrives(c, "refused") /\ startedAt' = startedAt
      /\ claimedAt' = claimedAt /\ now' = now /\ keys' = keys
      /\ isPrimary' = isPrimary /\ deciding' = deciding
      /\ gates' = [gates EXCEPT ![i] = Trimmed(@, now)]
  BY DEF HandleFull
<1>2. /\ S \in SUBSET {d \in Copies : d.inst = i}
      /\ stage' \in [Copies -> Stages] /\ receivedAt' \in [Copies -> Times]
      /\ \A d \in Copies : d \notin S => /\ stage'[d] = stage[d]
                                        /\ startedAt'[d] = startedAt[d]
                                        /\ receivedAt'[d] = receivedAt[d]
      /\ \A d \in S : InProcessFresh(d)' /\ ClaimKnown(d)' /\ ~Claimed(d)
  <2>1. "refused" \in {"queued", "refused"}
    OBVIOUS
  <2>2. QED
    BY <1>1, <2>1, ArrivalFacts
<1>3. /\ r \in Seq(Entries) /\ Sorted(r) /\ Len(r) \in Nat /\ Len(r) <= Len(q)
      /\ \A k \in 1..Len(r) : /\ r[k] \in Entries /\ r[k].msg.inst = i
                              /\ stage[r[k].msg] = "queued"
                              /\ receivedAt[r[k].msg] = r[k].at /\ r[k].at <= now
                              /\ r[k].msg \notin Evicted(i)
  BY <1>0, EvictedFacts
<1>4. gates[i].state \in {Queueing, Open}
      /\ gates' = [gates EXCEPT ![i] = [state |-> gates[i].state, queue |-> r]]
  <2>1. gates[i] \in [state : {Queueing, Open}, queue : Seq(Entries)]
    BY <1>0 DEF TypeOK, Entries
  <2>2. Trimmed(gates[i], now) = [state |-> gates[i].state, queue |-> r]
    BY <2>1 DEF Trimmed
  <2>3. QED
    BY <1>1, <2>1, <2>2
<1>5. Len(r) <= MaxLen
  <2>1. Len(q) \in Nat /\ Len(q) <= MaxLen
    BY <1>0, QueueFacts DEF TypeOK
  <2>2. QED
    BY <1>3, <2>1
<1> HIDE DEF r, S, i
<1>6. /\ gates' \in [Inst -> [state : {Queueing, Open},
                              queue : Seq([msg : Copies, at : Nat])]]
      /\ \A j \in Inst : Len(gates'[j].queue) <= MaxLen
      /\ gates'[i].queue = r
      /\ \A j \in Inst : j # i => gates'[j] = gates[j]
  BY <1>0, <1>3, <1>4, <1>5, GateReplaced
<1>7. QueueOK(i)'
  <2>1. gates'[i].queue = r
    BY <1>6
  <2>2. ASSUME NEW k \in 1..Len(r)
        PROVE  /\ r[k].msg.inst = i /\ stage'[r[k].msg] = "queued"
               /\ receivedAt'[r[k].msg] = r[k].at /\ r[k].at <= now'
    <3>1. r[k].msg \in Copies /\ r[k].msg \notin S
      BY <1>1, <1>3 DEF Entries, S
    <3>2. QED
      BY <1>1, <1>2, <1>3, <3>1
  <2>3. QED
    BY <1>3, <2>1, <2>2 DEF QueueOK
<1>8. TypeOK'
  BY <1>0, <1>1, <1>2, <1>6 DEF TypeOK
<1>9. QED
  BY <1>0, <1>1, <1>2, <1>6, <1>7, <1>8, GateStep

\* Open evicts first, so what it hands out is no older than maxAge: this is
\* where the age order of the queue matters.
LEMMA PromoteStep ==
  ASSUME IInv, NEW i \in Inst, Promote(i)
  PROVE  IInv'
<1> USE FailoverAssumption, GateAssumption
<1> DEFINE r == EvictExpired(gates[i].queue, now)
           backlog == {Backlog(gates[i], now)[k] : k \in DOMAIN Backlog(gates[i], now)}
           S == backlog \cup Evicted(i)
<1>0. TypeOK /\ Core /\ now \in Nat /\ QueueOK(i)
  BY DEF IInv, TypeOK, Core
<1>1. /\ claimedAt' = claimedAt /\ now' = now /\ keys' = keys /\ isPrimary' = isPrimary
      /\ deciding' = [deciding EXCEPT ![i] = FALSE]
      /\ gates' = [gates EXCEPT ![i] = Opened(@)]
      /\ stage' = [c \in Copies |->
                     IF c \in backlog THEN "dispatched"
                     ELSE IF c \in Evicted(i) THEN "evicted" ELSE stage[c]]
      /\ startedAt' = [c \in Copies |-> IF c \in backlog THEN now ELSE startedAt[c]]
      /\ receivedAt' = [c \in Copies |-> IF c \in Evicted(i) THEN Never ELSE receivedAt[c]]
  BY DEF Promote, Forget
<1>2. /\ \A k \in 1..Len(r) : /\ r[k] \in Entries /\ r[k].msg.inst = i
                              /\ stage[r[k].msg] = "queued"
                              /\ receivedAt[r[k].msg] = r[k].at /\ r[k].at <= now
                              /\ r[k].at >= now - MaxAge
                              /\ r[k].msg \notin Evicted(i)
      /\ \A c \in Evicted(i) : c \in Copies /\ c.inst = i /\ stage[c] = "queued"
  BY <1>0, EvictedFacts
<1>3. \A c \in backlog : \E k \in 1..Len(r) : c = r[k].msg
  BY DEF Backlog
<1> HIDE DEF r, backlog, S
<1>4. ASSUME NEW c \in backlog
      PROVE  /\ c \in Copies /\ c.inst = i /\ stage[c] = "queued" /\ c \notin Evicted(i)
             /\ receivedAt[c] \in Nat /\ now <= receivedAt[c] + MaxAge
  <2>1. PICK k \in 1..Len(r) : c = r[k].msg
    BY <1>3
  <2>2. r[k].msg \in Copies /\ r[k].at \in Nat
    BY <1>2 DEF Entries
  <2>3. QED
    BY <1>0, <1>2, <2>1, <2>2
<1>5. S \in SUBSET {c \in Copies : c.inst = i} /\ \A c \in S : stage[c] = "queued"
  BY <1>2, <1>4 DEF S
<1>6. \A c \in Copies : c \notin S => /\ stage'[c] = stage[c]
                                     /\ startedAt'[c] = startedAt[c]
                                     /\ receivedAt'[c] = receivedAt[c]
  BY <1>1 DEF S
<1>7. ASSUME NEW c \in S PROVE InProcessFresh(c)' /\ ClaimKnown(c)' /\ ~Claimed(c)
  <2>1. c \in Copies /\ ~Claimed(c)
    BY <1>0, <1>5, UnclaimedEarly
  <2>2. ClaimKnown(c)'
    BY <1>1, <2>1 DEF ClaimKnown, Claimed
  <2>3. CASE c \in backlog
    <3>1. /\ startedAt'[c] = now /\ receivedAt'[c] = receivedAt[c]
          /\ receivedAt[c] \in Nat /\ now <= receivedAt[c] + MaxAge
      BY <1>1, <1>4, <2>1, <2>3
    <3>2. QED
      BY <1>0, <1>1, <2>1, <2>2, <3>1 DEF InProcessFresh
  <2>4. CASE c \notin backlog
    <3>1. stage'[c] = "evicted"
      BY <1>1, <2>1, <2>4 DEF S
    <3>2. QED
      BY <2>1, <2>2, <3>1 DEF InProcessFresh, InProcess
  <2>5. QED
    BY <2>3, <2>4
<1>8. <<>> \in Seq(Entries) /\ Len(<<>>) = 0 /\ Len(<<>>) <= MaxLen
  BY EmptySeq
<1>9. gates' = [gates EXCEPT ![i] = [state |-> Open, queue |-> <<>>]]
  <2>1. gates[i] \in [state : {Queueing, Open}, queue : Seq(Entries)]
    BY <1>0 DEF TypeOK, Entries
  <2> DEFINE g == Opened(gates[i])
  <2>2. g \in [state : {Queueing, Open}, queue : Seq(Entries)]
        /\ g.state = Open /\ g.queue = <<>>
    BY <1>8, <2>1 DEF Opened
  <2> HIDE DEF g
  <2>3. g = [state |-> Open, queue |-> <<>>]
    BY <2>2
  <2>4. QED
    BY <1>1, <2>3 DEF g
<1>10. /\ gates' \in [Inst -> [state : {Queueing, Open},
                               queue : Seq([msg : Copies, at : Nat])]]
       /\ \A j \in Inst : Len(gates'[j].queue) <= MaxLen
       /\ gates'[i].queue = <<>>
       /\ \A j \in Inst : j # i => gates'[j] = gates[j]
  <2>1. Open \in {Queueing, Open}
    OBVIOUS
  <2>2. QED
    BY <1>0, <1>8, <1>9, <2>1, GateReplaced
<1>11. QueueOK(i)'
  BY <1>8, <1>10 DEF QueueOK, Sorted
<1>12. TypeOK'
  <2>1. stage' \in [Copies -> Stages]
    BY <1>0, <1>1 DEF TypeOK, Stages, InProcess, Final
  <2>2. /\ startedAt' \in [Copies -> Times] /\ receivedAt' \in [Copies -> Times]
        /\ deciding' \in [Inst -> BOOLEAN]
    BY <1>0, <1>1 DEF TypeOK, Times
  <2>3. QED
    BY <1>0, <1>1, <1>10, <2>1, <2>2 DEF TypeOK
<1>13. QED
  BY <1>0, <1>1, <1>5, <1>6, <1>7, <1>10, <1>11, <1>12, GateStep

LEMMA CrashStep ==
  ASSUME IInv, NEW i \in Inst, Crash(i)
  PROVE  IInv'
<1> USE FailoverAssumption, GateAssumption
<1> DEFINE S == {c \in Copies : c.inst = i
                            /\ stage[c] \in {"queued"} \cup InProcess \cup PastDedup}
<1>0. TypeOK /\ Core /\ now \in Nat /\ QueueOK(i)
  BY DEF IInv, TypeOK, Core
<1>1. /\ claimedAt' = claimedAt /\ now' = now /\ keys' = keys
      /\ isPrimary' = [isPrimary EXCEPT ![i] = FALSE]
      /\ deciding' = [deciding EXCEPT ![i] = FALSE]
      /\ gates' = [gates EXCEPT ![i] = NewGate]
      /\ stage' = [c \in Copies |-> IF c \in S THEN "lost" ELSE stage[c]]
      /\ startedAt' = [c \in Copies |-> IF c \in S THEN Never ELSE startedAt[c]]
      /\ receivedAt' = [c \in Copies |->
                          IF c \in {d \in S : claimedAt[d] = Never} THEN Never
                          ELSE receivedAt[c]]
  BY DEF Crash, Forget
<1>2. S \in SUBSET {c \in Copies : c.inst = i}
  OBVIOUS
<1> HIDE DEF S
<1>3. \A c \in Copies : c \notin S => /\ stage'[c] = stage[c]
                                     /\ startedAt'[c] = startedAt[c]
                                     /\ receivedAt'[c] = receivedAt[c]
  BY <1>1
<1>4. ASSUME NEW c \in S
      PROVE  /\ InProcessFresh(c)' /\ ClaimKnown(c)'
             /\ Claimed(c) => receivedAt'[c] = receivedAt[c]
  <2>1. c \in Copies /\ stage'[c] = "lost" /\ ClaimKnown(c)
    BY <1>0, <1>1, <1>2 DEF Core
  <2>2. Claimed(c) => receivedAt'[c] = receivedAt[c]
    BY <1>1, <2>1 DEF Claimed
  <2>3. QED
    BY <1>1, <2>1, <2>2 DEF InProcessFresh, InProcess, ClaimKnown, Claimed, Final
<1>5. <<>> \in Seq(Entries) /\ Len(<<>>) = 0 /\ Len(<<>>) <= MaxLen
  BY EmptySeq
<1>6. /\ gates' \in [Inst -> [state : {Queueing, Open},
                              queue : Seq([msg : Copies, at : Nat])]]
      /\ \A j \in Inst : Len(gates'[j].queue) <= MaxLen
      /\ gates'[i].queue = <<>>
      /\ \A j \in Inst : j # i => gates'[j] = gates[j]
  <2>1. Queueing \in {Queueing, Open} /\ NewGate = [state |-> Queueing, queue |-> <<>>]
    BY DEF NewGate
  <2>2. QED
    BY <1>0, <1>1, <1>5, <2>1, GateReplaced
<1>7. QueueOK(i)'
  BY <1>5, <1>6 DEF QueueOK, Sorted
<1>8. TypeOK'
  <2>1. stage' \in [Copies -> Stages]
    BY <1>0, <1>1 DEF TypeOK, Stages, Final
  <2>2. /\ startedAt' \in [Copies -> Times] /\ receivedAt' \in [Copies -> Times]
        /\ isPrimary' \in [Inst -> BOOLEAN] /\ deciding' \in [Inst -> BOOLEAN]
    BY <1>0, <1>1 DEF TypeOK, Times
  <2>3. QED
    BY <1>0, <1>1, <1>6, <2>1, <2>2 DEF TypeOK
<1>9. QED
  BY <1>0, <1>1, <1>2, <1>3, <1>4, <1>6, <1>7, <1>8, GateStep

-----------------------------------------------------------------------------
LEMMA StepPreservesIInv == IInv /\ [Next]_vars => IInv'
<1> SUFFICES ASSUME IInv, [Next]_vars PROVE IInv'
  OBVIOUS
<1>1. ASSUME NEW i \in Inst, NEW primary \in BOOLEAN, SetPrimary(i, primary) PROVE IInv'
  BY <1>1, RoleStep
<1>2. ASSUME NEW i \in Inst, Promote(i) PROVE IInv'
  BY <1>2, PromoteStep
<1>3. ASSUME NEW i \in Inst, Demote(i) PROVE IInv'
  BY <1>3, RoleStep
<1>4. ASSUME NEW i \in Inst, Crash(i) PROVE IInv'
  BY <1>4, CrashStep
<1>5. ASSUME NEW c \in Copies, HandleLive(c) PROVE IInv'
  BY <1>5, HandleLiveStep
<1>6. ASSUME NEW c \in Copies, HandleQueueing(c) PROVE IInv'
  BY <1>6, HandleQueueingStep
<1>7. ASSUME NEW c \in Copies, HandleFull(c) PROVE IInv'
  BY <1>7, HandleFullStep
<1>8. ASSUME NEW c \in Copies, Process(c) PROVE IInv'
  BY <1>8, ClaimStep, ProcessStep DEF Process
<1>9. CASE Tick
  BY <1>9, TickStep
<1>10. CASE UNCHANGED vars
  <2>1. TypeOK'
    BY <1>10, Zenon DEF IInv, TypeOK, vars
  <2>2. \A i \in Inst : QueueOK(i)'
    BY <1>10 DEF IInv, Core, QueueOK, vars
  <2>3. \A c \in Copies : InProcessFresh(c)' /\ ClaimKnown(c)'
    BY <1>10 DEF IInv, Core, InProcessFresh, ClaimKnown, Claimed, vars
  <2>4. \A m \in Ids : keys'[m] <= now'
    BY <1>10 DEF IInv, Core, vars
  <2>5. ClaimsApart' /\ BacklogRecognised'
    BY <1>10 DEF IInv, ClaimsApart, BacklogRecognised, Claimed, Slack, vars
  <2>6. QED
    BY <2>1, <2>2, <2>3, <2>4, <2>5 DEF IInv, Core
<1>11. QED
  BY <1>1, <1>2, <1>3, <1>4, <1>5, <1>6, <1>7, <1>8, <1>9, <1>10 DEF Next

\* The inductive invariant holds in every reachable state.
THEOREM FailoverInvariant == Spec => []IInv
<1>1. QED
  BY InitEstablishesIInv, StepPreservesIInv, PTL DEF Spec

\* Every variable keeps its type, and no instance's gate ever outgrows
\* maxLen (gate.go:107-108), whatever roles and crashes do.
THEOREM FailoverTypeCorrect == Spec => []TypeOK
<1>1. IInv => TypeOK
  BY DEF IInv
<1>2. QED
  BY <1>1, FailoverInvariant, PTL

\* Two claims of one id are always more than TTL apart (dedup.go's SETNX
\* with EX), with any number of primaries, crashes and drained backlogs.
THEOREM ClaimsStayApart == Spec => []ClaimsApart
<1>1. IInv => ClaimsApart
  BY DEF IInv
<1>2. QED
  BY <1>1, FailoverInvariant, PTL

\* A copy that passes dedup after another of its id was received less than
\* maxAge + MaxProc - TTL before that one's claim: with maxAge = TTL, what
\* waited in a gate when the id was published is recognised on draining,
\* up to the time a message spends in process() (gate.go:38-48).
THEOREM BacklogAlwaysRecognised == Spec => []BacklogRecognised
<1>1. IInv => BacklogRecognised
  BY DEF IInv
<1>2. QED
  BY <1>1, FailoverInvariant, PTL
-----------------------------------------------------------------------------
(* What may burn an id: the safety that NeverBurned needs.                 *)

\* Copies in these stages are at the publisher or on their way to it, were lost in
\* a crash of their instance, or lost the reply to the SETNX that marked the id,
\* which was then sent again.
Answering == PastDedup \cup {"published", "unpublished", "lost", "resent", "seenResent"}

\* An id that dedup knows is in the hands of a copy that goes on to the publisher,
\* or of one that a crash or a lost reply has kept from it.
KeysAnswered ==
  /\ \A m \in Ids : keys[m] # Never => \E c \in Copies : c.id = m /\ stage[c] \in Answering
  /\ "crash" \notin Faults => \A c \in Copies : stage[c] # "lost"
  /\ "redis" \notin Faults => \A c \in Copies : stage[c] \notin {"resent", "seenResent"}

\* A step in which no copy stops answering, and no key is set by a copy that does not.
LEMMA AnswersFrame ==
  ASSUME TypeOK, KeysAnswered,
         \A c \in Copies : /\ stage[c] \in Answering => stage'[c] \in Answering
                           /\ "crash" \notin Faults /\ stage[c] # "lost" => stage'[c] # "lost"
                           /\ "redis" \notin Faults
                              /\ stage[c] \notin {"resent", "seenResent"}
                                => stage'[c] \notin {"resent", "seenResent"},
         \A m \in Ids : keys'[m] # keys[m]
                          => \E c \in Copies : c.id = m /\ stage'[c] \in Answering
  PROVE  KeysAnswered'
<1>1. ASSUME NEW m \in Ids, keys'[m] # Never
      PROVE  \E c \in Copies : c.id = m /\ stage'[c] \in Answering
  <2>1. CASE keys'[m] # keys[m]
    BY <2>1
  <2>2. CASE keys'[m] = keys[m]
    BY <1>1, <2>2 DEF KeysAnswered
  <2>3. QED
    BY <2>1, <2>2
<1>2. QED
  BY <1>1 DEF KeysAnswered, Answering, PastDedup

\* What a copy's own goroutine does to it and to its key.
LEMMA ProcessAnswers ==
  ASSUME TypeOK, KeysAnswered, NEW c \in Copies, Process(c)
  PROVE  KeysAnswered'
<1>1. stage \in [Copies -> Stages] /\ keys \in [Ids -> Times] /\ c.id \in Ids
  BY DEF TypeOK, Ids
<1>2. PICK s \in Stages : stage' = [stage EXCEPT ![c] = s]
  BY DEF Process, Check, Claim, DiscardSeen, ReplyLost, DedupError, Publish, PublishFails,
         Ends, Stages, PastDedup, Final, InProcess
<1>3. /\ stage[c] \in Answering => s \in Answering
      /\ s # "lost"
      /\ s \in {"resent", "seenResent"} => "redis" \in Faults \/ stage[c] = "resent"
      /\ \/ keys' = keys
         \/ keys' = [keys EXCEPT ![c.id] = now] /\ s \in Answering
  BY <1>1, <1>2 DEF Process, Check, Claim, DiscardSeen, ReplyLost, DedupError, Publish,
                    PublishFails, Ends, AtDedup, Answering, PastDedup
<1>4. \A d \in Copies : stage'[d] = IF d = c THEN s ELSE stage[d]
  BY <1>1, <1>2
<1>5. \A m \in Ids : keys'[m] # keys[m] => m = c.id /\ s \in Answering
  BY <1>1, <1>3
<1>6. QED
  BY <1>3, <1>4, <1>5, AnswersFrame

\* An arrival changes the stage of a new copy and of those it evicts, which were queued.
LEMMA ArrivalAnswers ==
  ASSUME IInv, KeysAnswered, NEW c \in Copies, HandleQueueing(c) \/ HandleFull(c)
  PROVE  KeysAnswered'
<1>1. TypeOK /\ c.inst \in Inst /\ QueueOK(c.inst)
  BY FailoverAssumption DEF IInv, Core
<1>2. \A d \in Evicted(c.inst) : stage[d] = "queued"
  BY <1>1, EvictedFacts
<1>3. PICK as \in {"queued", "refused"} : stage[c] = "none" /\ Arrives(c, as) /\ keys' = keys
  BY DEF HandleQueueing, HandleFull
<1>4. ASSUME NEW d \in Copies
      PROVE  /\ stage[d] \in Answering => stage'[d] = stage[d]
             /\ stage'[d] = stage[d] \/ stage'[d] \in {"queued", "refused", "evicted"}
  BY <1>2, <1>3 DEF Arrives, Answering, PastDedup
<1>5. QED
  BY <1>1, <1>3, <1>4, AnswersFrame

\* A promotion dispatches or evicts copies that were queued.
LEMMA PromoteAnswers ==
  ASSUME IInv, KeysAnswered, NEW i \in Inst, Promote(i)
  PROVE  KeysAnswered'
<1> DEFINE r == EvictExpired(gates[i].queue, now)
           backlog == {Backlog(gates[i], now)[k] : k \in DOMAIN Backlog(gates[i], now)}
<1>1. TypeOK /\ QueueOK(i)
  BY DEF IInv, Core
<1>2. /\ \A d \in Evicted(i) : stage[d] = "queued"
      /\ \A k \in 1..Len(r) : stage[r[k].msg] = "queued"
  BY <1>1, EvictedFacts
<1>3. \A d \in backlog : \E k \in 1..Len(r) : d = r[k].msg
  BY DEF Backlog
<1>4. \A d \in backlog : stage[d] = "queued"
  BY <1>2, <1>3
<1>5. /\ keys' = keys
      /\ stage' = [d \in Copies |-> IF d \in backlog THEN "dispatched"
                                    ELSE IF d \in Evicted(i) THEN "evicted" ELSE stage[d]]
  BY DEF Promote
<1> HIDE DEF r, backlog
<1>6. ASSUME NEW d \in Copies
      PROVE  /\ stage[d] \in Answering => stage'[d] = stage[d]
             /\ stage'[d] = stage[d] \/ stage'[d] \in {"dispatched", "evicted"}
  BY <1>2, <1>4, <1>5 DEF Answering, PastDedup
<1>7. QED
  BY <1>1, <1>5, <1>6, AnswersFrame

LEMMA StepAnswers == IInv /\ KeysAnswered /\ [Next]_vars => KeysAnswered'
<1> SUFFICES ASSUME IInv, KeysAnswered, [Next]_vars
             PROVE  KeysAnswered'
  OBVIOUS
<1>0. TypeOK
  BY DEF IInv
<1>1. ASSUME NEW i \in Inst, Promote(i)
      PROVE  KeysAnswered'
  BY <1>1, PromoteAnswers
<1>2. ASSUME NEW c \in Copies, HandleQueueing(c) \/ HandleFull(c)
      PROVE  KeysAnswered'
  BY <1>2, ArrivalAnswers
<1>3. ASSUME NEW c \in Copies, Process(c)
      PROVE  KeysAnswered'
  BY <1>0, <1>3, ProcessAnswers
<1>4. ASSUME NEW c \in Copies, HandleLive(c)
      PROVE  KeysAnswered'
  <2>1. \A d \in Copies : stage'[d] = IF d = c THEN "dispatched" ELSE stage[d]
    BY <1>0, <1>4 DEF HandleLive, TypeOK
  <2>2. stage[c] = "none" /\ keys' = keys
    BY <1>4 DEF HandleLive
  <2>3. stage[c] \notin Answering
    BY <2>2 DEF Answering, PastDedup
  <2>4. QED
    BY <1>0, <2>1, <2>2, <2>3, AnswersFrame
<1>5. ASSUME NEW i \in Inst, Crash(i)
      PROVE  KeysAnswered'
  <2>1. /\ "crash" \in Faults /\ keys' = keys
        /\ \A c \in Copies : stage'[c] = stage[c] \/ stage'[c] = "lost"
    BY <1>5 DEF Crash
  <2>2. "lost" \in Answering
    BY DEF Answering
  <2>3. QED
    BY <1>0, <2>1, <2>2, AnswersFrame
<1>6. CASE UNCHANGED <<stage, keys>>
  BY <1>6 DEF KeysAnswered
<1>7. QED
  BY <1>1, <1>2, <1>3, <1>4, <1>5, <1>6 DEF Next, SetPrimary, Demote, Tick, vars

\* An id is marked as seen only by a copy that goes on to the publisher, and a crash,
\* or a lost reply to a SETNX that is then sent again, are the only things that can
\* keep that copy from it: never the gate, the roles, a duplicate or an error
\* (gate.go:18-22, pipeline.go:478-493).
THEOREM BurnedOnlyByFaults == Spec => []KeysAnswered
<1>1. Init => KeysAnswered
  <2> SUFFICES ASSUME Init
               PROVE  KeysAnswered
    OBVIOUS
  <2>1. /\ \A m \in Ids : keys[m] = Never
        /\ \A c \in Copies : stage[c] = "none"
    BY DEF Init
  <2>2. QED
    BY <2>1 DEF KeysAnswered
<1>2. QED
  BY <1>1, StepAnswers, FailoverInvariant, PTL DEF Spec
=============================================================================
