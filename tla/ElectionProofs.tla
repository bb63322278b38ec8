--------------------------- MODULE ElectionProofs ---------------------------
(***************************************************************************)
(* The election, for any number of processes, any clocks and any faults:   *)
(* its types, and, when the freshness window covers three intervals, the   *)
(* lateness of a tick and the largest difference between two clocks, that  *)
(* SoonLowest holds.                                                       *)
(*                                                                         *)
(* The argument follows an announcement of a process q through a calm      *)
(* period.  Counted from the start of q's last tick, it is at most Lag(q)  *)
(* old; so it is young whenever somebody reads it, fresh by the reader's   *)
(* clock when the reader decides, and never among what the reader prunes.  *)
(* The announcement of a process that is gone is at least as old as the    *)
(* calm, so stale by every clock once calm reaches Old.  A tick that       *)
(* begins after that judges by exactly the live processes, and the next    *)
(* tick begins within OldestLive.                                          *)
(***************************************************************************)
EXTENDS Election, FiniteSetTheorems, WellFoundedInduction, TLAPS

(* Least and greatest elements.                                            *)

\* A non-empty set of naturals has a least element, and Min is it.
LEMMA MinIsLeast ==
  ASSUME NEW S, S \subseteq Nat, S # {}
  PROVE  Min(S) \in S /\ \A y \in S : Min(S) <= y
<1> DEFINE Less == {p \in Nat \X Nat : p[1] < p[2]}
<1>1. OpToRel(<, Nat) = Less
  BY DEF OpToRel
<1>2. PICK x \in S : \A y \in S : ~(<<y, x>> \in Less)
  BY <1>1, NatLessThanWellFounded, WFMin
<1>3. ASSUME NEW y \in S PROVE x <= y
  <2>1. <<y, x>> \in Nat \X Nat /\ x \in Nat /\ y \in Nat
    OBVIOUS
  <2>2. ~(<<y, x>>[1] < <<y, x>>[2])
    BY <1>2, <2>1
  <2>3. QED
    BY <2>1, <2>2
<1>4. QED
  BY <1>3 DEF Min

LEMMA MinOfTwo ==
  ASSUME NEW a \in Int, NEW b \in Int
  PROVE  Min({a, b}) = IF a <= b THEN a ELSE b
<1> DEFINE m == IF a <= b THEN a ELSE b
<1>1. m \in {a, b} /\ \A y \in {a, b} : m <= y
  OBVIOUS
<1>2. ASSUME NEW x \in {a, b}, \A y \in {a, b} : x <= y PROVE x = m
  BY <1>2
<1>3. QED
  BY <1>1, <1>2 DEF Min

LEMMA MaxOfTwo ==
  ASSUME NEW a \in Int, NEW b \in Int
  PROVE  Max({a, b}) = IF a >= b THEN a ELSE b
<1> DEFINE m == IF a >= b THEN a ELSE b
<1>1. m \in {a, b} /\ \A y \in {a, b} : m >= y
  OBVIOUS
<1>2. ASSUME NEW x \in {a, b}, \A y \in {a, b} : x >= y PROVE x = m
  BY <1>2
<1>3. QED
  BY <1>1, <1>2 DEF Max

LEMMA MaxIsGreatest ==
  ASSUME NEW S, NEW m \in S, \A y \in S : m >= y
  PROVE  Max(S) \in S /\ \A y \in S : Max(S) >= y
BY DEF Max

\* Of finitely many integers one is the greatest: in a smallest set without one
\* there would be an element to leave out, and the greatest of the rest, or the
\* element itself, would be the greatest of all.
LEMMA GreatestExists ==
  ASSUME NEW S, IsFiniteSet(S), S # {}, NEW F, \A x \in S : F[x] \in Int
  PROVE  \E x \in S : \A y \in S : F[x] >= F[y]
<1> DEFINE Greatest(T) == \E x \in T : \A y \in T : F[x] >= F[y]
           Bad(n) == \E T \in SUBSET S : T # {} /\ Cardinality(T) = n /\ ~Greatest(T)
           Sizes == {n \in Nat : Bad(n)}
<1>1. SUFFICES ASSUME ~Greatest(S) PROVE FALSE
  OBVIOUS
<1>2. Sizes # {}
  BY <1>1, FS_CardinalityType
<1>3. PICK n \in Sizes : \A k \in Sizes : n <= k
  BY <1>2, MinIsLeast
<1>4. PICK T \in SUBSET S : T # {} /\ Cardinality(T) = n /\ ~Greatest(T)
  BY <1>3
<1>5. PICK x \in T : TRUE
  BY <1>4
<1>6. IsFiniteSet(T) /\ n \in Nat
  BY <1>3, <1>4, FS_Subset
<1>7. Cardinality(T \ {x}) = n - 1 /\ Cardinality(T \ {x}) \in Nat
  BY <1>4, <1>5, <1>6, FS_RemoveElement, FS_CardinalityType
<1>8. n - 1 \notin Sizes
  BY <1>3, <1>6
<1>9. T \ {x} = {} \/ Greatest(T \ {x})
  BY <1>4, <1>7, <1>8
<1>10. CASE T \ {x} = {}
  <2>1. \A y \in T : F[x] >= F[y]
    BY <1>5, <1>10
  <2>2. QED
    BY <1>4, <1>5, <2>1
<1>11. CASE Greatest(T \ {x})
  <2>1. PICK z \in T \ {x} : \A y \in T \ {x} : F[z] >= F[y]
    BY <1>11
  <2>2. F[x] \in Int /\ F[z] \in Int /\ \A y \in T : F[y] \in Int
    BY <1>5, <2>1
  <2>3. CASE F[x] >= F[z]
    <3>1. \A y \in T : F[x] >= F[y]
      BY <2>1, <2>2, <2>3
    <3>2. QED
      BY <1>4, <1>5, <3>1
  <2>4. CASE F[z] >= F[x]
    <3>1. \A y \in T : F[z] >= F[y]
      BY <2>1, <2>2, <2>4
    <3>2. QED
      BY <1>4, <2>1, <3>1
  <2>5. QED
    BY <2>2, <2>3, <2>4
<1>12. QED
  BY <1>9, <1>10, <1>11

(* The constants.                                                          *)

\* MaxSkew bounds every difference of two clocks, and is not negative.
LEMMA SkewBounded ==
  /\ MaxSkew \in Nat
  /\ \A p, q \in Proc : Skew[p] - Skew[q] <= MaxSkew
<1> DEFINE D == {Skew[p] - Skew[q] : p, q \in Proc}
           Neg == [p \in Proc |-> 0 - Skew[p]]
<1>1. /\ Proc # {} /\ IsFiniteSet(Proc)
      /\ \A p \in Proc : Skew[p] \in Int /\ Neg[p] \in Int
  BY ElectionAssumption
<1>2. PICK hi \in Proc : \A p \in Proc : Skew[hi] >= Skew[p]
  BY <1>1, GreatestExists
<1>3. PICK lo \in Proc : \A p \in Proc : Neg[lo] >= Neg[p]
  BY <1>1, GreatestExists
<1>4. \A p, q \in Proc : Skew[p] - Skew[q] <= Skew[hi] - Skew[lo]
  BY <1>1, <1>2, <1>3
<1>5. Skew[hi] - Skew[lo] \in D /\ \A d \in D : Skew[hi] - Skew[lo] >= d
  BY <1>4
<1>6. Max(D) \in D /\ \A d \in D : Max(D) >= d
  <2> HIDE DEF D
  <2>1. QED
    BY <1>5, MaxIsGreatest
<1>7. MaxSkew = Max(D)
  BY DEF MaxSkew
<1>8. \A p, q \in Proc : Skew[p] - Skew[q] \in D
  OBVIOUS
<1>9. D \subseteq Int
  BY <1>1
<1>10. 0 \in D
  <2>1. \E p, q \in Proc : 0 = Skew[p] - Skew[q]
    BY <1>1
  <2>2. QED
    BY <2>1
<1> HIDE DEF D
<1>11. MaxSkew \in Nat
  <2>1. MaxSkew \in D /\ \A d \in D : MaxSkew >= d
    BY <1>6, <1>7
  <2>2. MaxSkew \in Int /\ MaxSkew >= 0
    BY <1>9, <1>10, <2>1
  <2>3. QED
    BY <2>2
<1>12. \A p, q \in Proc : Skew[p] - Skew[q] <= MaxSkew
  BY <1>6, <1>7, <1>8
<1>13. QED
  BY <1>11, <1>12

LEMMA OldIsNat == Old \in Nat /\ Old > Fresh /\ Old = Fresh + 1 + MaxSkew
  BY SkewBounded, ElectionAssumption DEF Old

\* Aged adds one, stops at Old, and leaves what is absent absent.
LEMMA AgedFacts ==
  ASSUME NEW a \in Ages
  PROVE  /\ Aged(a) \in Ages
         /\ Aged(a) <= a + 1
         /\ Aged(a) = Absent <=> a = Absent
         /\ a # Absent => Aged(a) = a + 1 \/ Aged(a) = Old
<1>1. a \in Int /\ Old \in Nat
  BY OldIsNat DEF Ages, Absent
<1>2. Min({a + 1, Old}) = IF a + 1 <= Old THEN a + 1 ELSE Old
  BY <1>1, MinOfTwo
<1>3. QED
  BY <1>1, <1>2 DEF Aged, Ages, Absent

LEMMA ConstantFacts ==
  /\ Interval \in Nat /\ Interval > 0 /\ MaxLate \in Nat
  /\ Fresh \in Nat /\ KeyExpiry \in Nat /\ KeyExpiry > 0 /\ Patience \in Nat
  /\ Old \in Nat /\ MaxSkew \in Nat /\ Old = Fresh + 1 + MaxSkew
  /\ OldestLive \in Nat /\ OldestLive = 2 * Interval + MaxLate
  /\ Settled \in Nat /\ Settled >= Old /\ Settled > 2 * OldestLive + Interval
<1>1. /\ Interval \in Nat /\ Interval > 0 /\ MaxLate \in Nat
      /\ Fresh \in Nat /\ KeyExpiry \in Nat /\ KeyExpiry > 0 /\ Patience \in Nat
  BY ElectionAssumption
<1>2. Old \in Nat /\ MaxSkew \in Nat /\ Old = Fresh + 1 + MaxSkew
  BY SkewBounded, OldIsNat
<1>3. OldestLive \in Nat /\ OldestLive = 2 * Interval + MaxLate
  BY <1>1 DEF OldestLive
<1> DEFINE n == 2 * OldestLive + Interval + 1
<1>4. n \in Nat /\ n > 2 * OldestLive + Interval
  BY <1>1, <1>3
<1>5. Settled = Max({Old, n})
  BY DEF Settled
<1> HIDE DEF n
<1>6. Settled = IF Old >= n THEN Old ELSE n
  BY <1>2, <1>4, <1>5, MaxOfTwo
<1>7. Settled \in Nat /\ Settled >= Old /\ Settled > 2 * OldestLive + Interval
  BY <1>1, <1>2, <1>3, <1>4, <1>6
<1>8. QED
  BY <1>1, <1>2, <1>3, <1>7

(* Types.                                                                  *)

Verdicts == {"none", "primary", "secondary", "error"}

\* A tick takes at most an interval, and a process that does not run has no age.
TicksBounded ==
  /\ \A p \in Proc : phase[p] \in Ticking => since[p] <= Interval
  /\ \A p \in Proc \ Live : since[p] = 0

Bounded == TypeOK /\ TicksBounded

LEMMA NoSnapType == NoSnap \in [Proc -> Ages] /\ \A q \in Proc : NoSnap[q] = Absent
  BY OldIsNat DEF NoSnap, Ages

LEMMA BoundedInit == Init => Bounded
<1> SUFFICES ASSUME Init PROVE Bounded
  OBVIOUS
<1>1. 0 \in 0..(Interval + MaxLate) /\ 0 \in 0..KeyExpiry /\ 0 \in 0..Patience
  BY ConstantFacts
<1>2. TypeOK
  BY <1>1, NoSnapType DEF Init, TypeOK
<1>3. TicksBounded
  BY DEF Init, TicksBounded, Ticking
<1>4. QED
  BY <1>2, <1>3 DEF Bounded

\* Who is live changes with the phases only.
LEMMA LiveMembers ==
  /\ Live \subseteq Proc
  /\ \A p \in Proc : p \in Live <=> phase[p] \in Ticking \/ phase[p] = "idle"
BY DEF Live

LEMMA LiveMembersNext ==
  /\ Live' \subseteq Proc
  /\ \A p \in Proc : p \in Live' <=> phase'[p] \in Ticking \/ phase'[p] = "idle"
BY DEF Live

\* Conclude leaves calm as it is, or sets it to zero.
LEMMA ConcludeTypes ==
  ASSUME NEW p \in Proc, NEW v \in Verdicts, TypeOK, Conclude(p, v)
  PROVE  /\ phase' = [phase EXCEPT ![p] = "idle"]
         /\ phase' \in [Proc -> Ticking \cup {"unborn", "idle", "dead"}]
         /\ isPrimary' \in [Proc -> BOOLEAN]
         /\ calm' \in 0..Patience
         /\ since' = since /\ keyAge' = keyAge /\ reach' = reach
<1>1. isPrimary' \in [Proc -> BOOLEAN]
  BY DEF Conclude, TypeOK
<1>2. calm' \in 0..Patience
  BY ConstantFacts DEF Conclude, TypeOK
<1>3. QED
  BY <1>1, <1>2 DEF Conclude, TypeOK

LEMMA JudgeType == \A p \in Proc : Judge(p) \in Verdicts
  BY DEF Judge, Verdicts

\* One disjunct of Next at a time.
LEMMA StartBounded == ASSUME NEW p \in Proc, Bounded, Start(p) PROVE Bounded'
<1>1. TypeOK'
  BY ConstantFacts DEF Bounded, Start, TypeOK, Ticking
<1>2. TicksBounded'
  <2>1. p \notin Live
    BY LiveMembers DEF Start, Ticking
  <2>2. since[p] = 0
    BY <2>1 DEF Bounded, TicksBounded
  <2>3. \A q \in Proc : q # p => phase'[q] = phase[q]
    BY DEF Start, Bounded, TypeOK
  <2>4. phase'[p] = "announcing" /\ since' = since
    BY DEF Start, Bounded, TypeOK
  <2>5. p \in Live' /\ \A q \in Proc : q # p => (q \in Live <=> q \in Live')
    BY <2>3, <2>4, LiveMembers, LiveMembersNext DEF Ticking
  <2>6. QED
    BY <2>2, <2>3, <2>4, <2>5, ConstantFacts DEF Bounded, TicksBounded
<1>3. QED
  BY <1>1, <1>2 DEF Bounded

\* A step of p's tick, or the beginning of one: p stays live, and the others are
\* as they were.
LEMMA TickStepBounded ==
  ASSUME NEW p \in Proc, Bounded, TypeOK', p \in Live,
         phase'[p] \in Ticking \cup {"idle"},
         \A q \in Proc : q # p => phase'[q] = phase[q] /\ since'[q] = since[q],
         phase'[p] \in Ticking => since'[p] <= Interval
  PROVE  Bounded' /\ Live' = Live
<1>1. p \in Live' /\ \A q \in Proc : q # p => (q \in Live <=> q \in Live')
  BY LiveMembers, LiveMembersNext
<1>2. Live' = Live
  BY <1>1, LiveMembers, LiveMembersNext
<1>3. TicksBounded'
  BY <1>1, <1>2 DEF Bounded, TicksBounded
<1>4. QED
  BY <1>2, <1>3 DEF Bounded

LEMMA BeginTickBounded ==
  ASSUME NEW p \in Proc, Bounded, BeginTick(p) PROVE Bounded' /\ Live' = Live
<1>1. p \in Live
  BY LiveMembers DEF BeginTick
<1>2. TypeOK'
  BY ConstantFacts DEF Bounded, BeginTick, TypeOK, Ticking
<1>3. QED
  BY <1>1, <1>2, TickStepBounded, ConstantFacts
     DEF Bounded, BeginTick, TypeOK, Ticking

LEMMA AnnounceBounded ==
  ASSUME NEW p \in Proc, Bounded, Announce(p)
  PROVE  Bounded' /\ Live' = Live /\ entry'[p] # Absent /\ entry'[p] <= since[p]
<1>1. p \in Live
  BY LiveMembers DEF Announce, Ticking
<1>2. since[p] \in Nat
  BY DEF Bounded, TypeOK
<1>3. Min({since[p], Old}) = IF since[p] <= Old THEN since[p] ELSE Old
  BY <1>2, ConstantFacts, MinOfTwo
<1>4. /\ Min({since[p], Old}) \in Ages
      /\ Min({since[p], Old}) # Absent
      /\ Min({since[p], Old}) <= since[p]
  BY <1>2, <1>3, ConstantFacts DEF Ages, Absent
<1>5. TypeOK'
  BY <1>4, ConstantFacts DEF Bounded, Announce, TypeOK, Ticking
<1>6. Bounded' /\ Live' = Live
  BY <1>1, <1>5, TickStepBounded DEF Bounded, TicksBounded, Announce, TypeOK, Ticking
<1>7. entry'[p] = Min({since[p], Old})
  BY DEF Announce, Bounded, TypeOK
<1>8. QED
  BY <1>4, <1>6, <1>7

LEMMA ReadBounded ==
  ASSUME NEW p \in Proc, Bounded, Read(p) PROVE Bounded' /\ Live' = Live
<1>1. p \in Live
  BY LiveMembers DEF Read, Ticking
<1>2. TypeOK'
  BY DEF Bounded, Read, TypeOK, Ticking
<1>3. QED
  BY <1>1, <1>2, TickStepBounded DEF Bounded, TicksBounded, Read, TypeOK, Ticking

LEMMA DecideBounded ==
  ASSUME NEW p \in Proc, Bounded, Decide(p) PROVE Bounded' /\ Live' = Live
<1>1. p \in Live /\ phase[p] \in Ticking
  BY LiveMembers DEF Decide, Ticking
<1>2. snap' \in [Proc -> [Proc -> Ages]]
  BY NoSnapType DEF Bounded, Decide, TypeOK
<1>3. Judge(p) \in Verdicts /\ StaleFor(p) \in SUBSET Proc
  BY JudgeType DEF StaleFor
<1>4. CASE Conclude(p, Judge(p)) /\ UNCHANGED <<entry, stale, verdict>>
  <2>1. TypeOK'
    BY <1>2, <1>3, <1>4, ConcludeTypes DEF Bounded, TypeOK
  <2>2. QED
    BY <1>1, <1>3, <1>4, <2>1, ConcludeTypes, TickStepBounded
       DEF Bounded, TicksBounded, TypeOK, Ticking
<1>5. CASE /\ phase' = [phase EXCEPT ![p] = "pruning"]
           /\ stale' = [stale EXCEPT ![p] = StaleFor(p)]
           /\ verdict' = [verdict EXCEPT ![p] = Judge(p)]
           /\ UNCHANGED <<since, entry, keyAge, isPrimary, reach, calm>>
  <2>1. TypeOK'
    BY <1>2, <1>3, <1>5 DEF Bounded, TypeOK, Verdicts, Ticking
  <2>2. QED
    BY <1>1, <1>5, <2>1, TickStepBounded DEF Bounded, TicksBounded, TypeOK, Ticking
<1>6. QED
  BY <1>4, <1>5 DEF Decide

LEMMA PruneBounded ==
  ASSUME NEW p \in Proc, Bounded, Prune(p) PROVE Bounded' /\ Live' = Live
<1>1. p \in Live /\ phase[p] \in Ticking
  BY LiveMembers DEF Prune, Ticking
<1>2. verdict[p] \in Verdicts
  BY DEF Bounded, TypeOK, Verdicts
<1>3. Absent \in Ages
  BY DEF Ages
<1>4. entry' \in [Proc -> Ages]
  BY <1>3 DEF Prune, Bounded, TypeOK
<1>5. stale' \in [Proc -> SUBSET Proc] /\ verdict' \in [Proc -> Verdicts]
  BY DEF Prune, Bounded, TypeOK, Verdicts
<1>6. Conclude(p, verdict[p]) /\ snap' = snap /\ TypeOK
  BY DEF Prune, Bounded
<1>7. TypeOK'
  BY <1>2, <1>4, <1>5, <1>6, ConcludeTypes DEF TypeOK, Verdicts
<1>8. QED
  BY <1>1, <1>2, <1>7, ConcludeTypes, TickStepBounded
     DEF Bounded, TicksBounded, TypeOK, Ticking, Prune

LEMMA FailTickBounded ==
  ASSUME NEW p \in Proc, Bounded, FailTick(p) PROVE Bounded' /\ calm' = 0
<1>1. p \in Live /\ phase[p] \in Ticking
  BY LiveMembers DEF FailTick, Ticking
<1>2. "error" \in Verdicts
  BY DEF Verdicts
<1>3. TypeOK'
  BY <1>2, ConcludeTypes DEF FailTick, Bounded, TypeOK
<1>4. Bounded'
  BY <1>1, <1>2, <1>3, ConcludeTypes, TickStepBounded
     DEF Bounded, TicksBounded, TypeOK, Ticking, FailTick
<1>5. calm' = 0
  BY DEF FailTick, Conclude
<1>6. QED
  BY <1>4, <1>5

LEMMA CutOffBounded ==
  ASSUME NEW p \in Proc, Bounded, CutOff(p) PROVE Bounded' /\ Live' = Live
<1>1. reach' \in [Proc -> BOOLEAN]
  BY DEF CutOff, Bounded, TypeOK
<1>2. Live' = Live
  BY DEF CutOff, Live
<1>3. QED
  BY <1>1, <1>2 DEF CutOff, Bounded, TypeOK, TicksBounded

LEMMA CrashBounded ==
  ASSUME NEW p \in Proc, Bounded, Crash(p) PROVE Bounded' /\ calm' = 0
<1>1. calm' = 0 /\ 0 \in 0..Patience /\ 0 \in 0..(Interval + MaxLate)
  BY ConstantFacts DEF Crash
<1>2. /\ phase' \in [Proc -> Ticking \cup {"unborn", "idle", "dead"}]
      /\ since' \in [Proc -> 0..(Interval + MaxLate)]
      /\ isPrimary' \in [Proc -> BOOLEAN] /\ reach' \in [Proc -> BOOLEAN]
  BY <1>1 DEF Bounded, Crash, TypeOK
<1>3. /\ snap' \in [Proc -> [Proc -> Ages]]
      /\ stale' \in [Proc -> SUBSET Proc] /\ verdict' \in [Proc -> Verdicts]
  BY NoSnapType DEF Bounded, Crash, TypeOK, Verdicts
<1>4. TypeOK'
  BY <1>1, <1>2, <1>3 DEF Bounded, Crash, TypeOK, Verdicts
<1>5. \A q \in Proc : q # p => phase'[q] = phase[q] /\ since'[q] = since[q]
  BY DEF Crash, Bounded, TypeOK
<1>6. phase'[p] = "dead" /\ since'[p] = 0
  BY DEF Crash, Bounded, TypeOK
<1>7. p \notin Live' /\ \A q \in Proc : q # p => (q \in Live <=> q \in Live')
  BY <1>5, <1>6, LiveMembers, LiveMembersNext DEF Ticking
<1>8. TicksBounded'
  BY <1>5, <1>6, <1>7 DEF Bounded, TicksBounded, Ticking
<1>9. QED
  BY <1>1, <1>4, <1>8 DEF Bounded

\* What Age does to each variable.
LEMMA AgeFacts ==
  ASSUME Bounded, Age
  PROVE  /\ Live' = Live /\ phase' = phase
         /\ \A p \in Live : since'[p] = since[p] + 1
         /\ \A p \in Proc \ Live : since'[p] = 0
         /\ keyAge' \in 0..KeyExpiry /\ keyAge' <= keyAge + 1
         /\ calm' \in 0..Patience /\ calm' <= calm + 1
         /\ entry' \in [Proc -> Ages]
         /\ \A p \in Proc : entry'[p] = Absent \/ entry'[p] = Aged(entry[p])
         /\ keyAge + 1 < KeyExpiry => \A p \in Proc : entry'[p] = Aged(entry[p])
         /\ snap' \in [Proc -> [Proc -> Ages]]
         /\ \A p, q \in Proc : snap'[p][q] = Aged(snap[p][q])
<1>1. Live' = Live /\ phase' = phase
  BY DEF Age, Live
<1>2. /\ \A p \in Live : since'[p] = since[p] + 1
      /\ \A p \in Proc \ Live : since'[p] = 0
  BY LiveMembers DEF Age
<1>3. keyAge \in Nat /\ calm \in Nat /\ keyAge + 1 \in Int /\ calm + 1 \in Int
  BY ConstantFacts DEF Bounded, TypeOK
<1>4. keyAge' = IF keyAge + 1 <= KeyExpiry THEN keyAge + 1 ELSE KeyExpiry
  BY <1>3, MinOfTwo, ConstantFacts DEF Age
<1>5. calm' = IF calm + 1 <= Patience THEN calm + 1 ELSE Patience
  BY <1>3, MinOfTwo, ConstantFacts DEF Age
<1>6. /\ keyAge' \in 0..KeyExpiry /\ keyAge' <= keyAge + 1
      /\ calm' \in 0..Patience /\ calm' <= calm + 1
  BY <1>3, <1>4, <1>5, ConstantFacts
<1>7. \A p \in Proc : entry[p] \in Ages /\ Aged(entry[p]) \in Ages
  BY AgedFacts DEF Bounded, TypeOK
<1>8. Absent \in Ages
  BY DEF Ages
<1>9. entry' = [p \in Proc |-> IF keyAge + 1 >= KeyExpiry THEN Absent ELSE Aged(entry[p])]
  BY DEF Age
<1>10. entry' \in [Proc -> Ages]
  BY <1>7, <1>8, <1>9
<1>11. /\ \A p \in Proc : entry'[p] = Absent \/ entry'[p] = Aged(entry[p])
       /\ keyAge + 1 < KeyExpiry => \A p \in Proc : entry'[p] = Aged(entry[p])
  BY <1>3, <1>9, ConstantFacts
<1>12. \A p, q \in Proc : Aged(snap[p][q]) \in Ages
  BY AgedFacts DEF Bounded, TypeOK
<1>13. /\ snap' \in [Proc -> [Proc -> Ages]]
       /\ \A p, q \in Proc : snap'[p][q] = Aged(snap[p][q])
  BY <1>12 DEF Age
<1>14. QED
  BY <1>1, <1>2, <1>6, <1>10, <1>11, <1>13

LEMMA TickBounded ==
  ASSUME Bounded, Tick PROVE Bounded'
<1>1. Age
  BY DEF Tick
<1>2. \A p \in Live : since[p] < IF phase[p] = "idle" THEN Interval + MaxLate ELSE Interval
  BY DEF Tick
<1>3. \A p \in Proc : since[p] \in Nat
  BY ConstantFacts DEF Bounded, TypeOK
<1>4. ASSUME NEW p \in Proc PROVE since'[p] \in 0..(Interval + MaxLate)
  <2>1. CASE p \in Live
    <3>1. since'[p] = since[p] + 1
      BY <1>1, <2>1, AgeFacts
    <3>2. since[p] < Interval + MaxLate
      BY <1>2, <1>3, <2>1, ConstantFacts
    <3>3. QED
      BY <1>3, <3>1, <3>2, ConstantFacts
  <2>2. CASE p \notin Live
    BY <1>1, <2>2, AgeFacts, ConstantFacts
  <2>3. QED
    BY <2>1, <2>2
<1>5. since' \in [Proc -> 0..(Interval + MaxLate)]
  BY <1>4 DEF Tick, Age
<1>6. TypeOK'
  BY <1>1, <1>5, AgeFacts DEF Age, Bounded, TypeOK
<1>7. TicksBounded'
  <2>1. Live' = Live /\ phase' = phase
    BY <1>1, AgeFacts
  <2>2. ASSUME NEW p \in Proc, phase[p] \in Ticking PROVE since'[p] <= Interval
    <3>1. p \in Live /\ phase[p] # "idle"
      BY <2>2, LiveMembers DEF Ticking
    <3>2. since[p] < Interval /\ since'[p] = since[p] + 1
      BY <1>1, <1>2, <3>1, AgeFacts
    <3>3. QED
      BY <1>3, <3>2, ConstantFacts
  <2>3. \A p \in Proc \ Live : since'[p] = 0
    BY <1>1, AgeFacts
  <2>4. QED
    BY <2>1, <2>2, <2>3 DEF TicksBounded
<1>8. QED
  BY <1>6, <1>7 DEF Bounded

LEMMA BoundedNext == Bounded /\ [Next]_vars => Bounded'
<1> SUFFICES ASSUME Bounded, [Next]_vars PROVE Bounded'
  OBVIOUS
<1>1. CASE UNCHANGED vars
  BY <1>1 DEF vars, Bounded, TypeOK, TicksBounded, Live
<1>2. CASE Tick
  BY <1>2, TickBounded
<1>3. ASSUME NEW p \in Proc, Start(p) \/ Step(p) \/ CutOff(p) \/ Crash(p) PROVE Bounded'
  BY <1>3, StartBounded, BeginTickBounded, AnnounceBounded, ReadBounded, DecideBounded,
     PruneBounded, FailTickBounded, CutOffBounded, CrashBounded DEF Step
<1>4. QED
  BY <1>1, <1>2, <1>3 DEF Next

\* Every variable keeps its type: no tick lasts longer than an interval, and none
\* begins more than MaxLate late.
THEOREM ElectionTypeCorrect == Spec => []TypeOK
<1>1. Bounded => TypeOK
  BY DEF Bounded
<1>2. QED
  BY <1>1, BoundedInit, BoundedNext, PTL DEF Spec

(* The lowest uuid.                                                        *)

\* Time since p's announcement was stamped, if the tick p is in, or its last one,
\* has not announced: the stamp is of the tick before.
Lag(p) == IF phase[p] = "announcing" THEN since[p] + Interval + MaxLate ELSE since[p]

\* Likewise, time since the tick began that decided p's role.
RoleLag(p) == IF phase[p] = "idle" THEN since[p] ELSE since[p] + Interval + MaxLate

Right(p) == IF p = Min(Live) THEN "primary" ELSE "secondary"

\* p's announcement is young, and in the hash.
Posted(p) ==
  /\ calm > Lag(p) => entry[p] <= Lag(p) /\ keyAge <= Lag(p)
  /\ calm > Lag(p) + OldestLive + Interval => entry[p] # Absent

\* What p has read, is about to prune and has decided, and its role.
Informed(p) ==
  phase[p] = "deciding" => \A q \in Live :
    /\ calm > OldestLive + since[p] => snap[p][q] <= OldestLive + since[p]
    /\ calm > 2 * OldestLive + Interval + since[p] => snap[p][q] # Absent

Harmless(p) ==
  phase[p] = "pruning" /\ calm > OldestLive + since[p] => stale[p] \cap Live = {}

Decided(p) ==
  /\ phase[p] = "pruning" /\ calm >= Settled + since[p] => verdict[p] = Right(p)
  /\ calm >= Settled + RoleLag(p) => (isPrimary[p] <=> p = Min(Live))

\* An announcement of a process that is gone is as old as the calm.
Gone(a) == a = Absent \/ a >= calm \/ a >= Old

GoneAreOld ==
  \A q \in Proc \ Live : Gone(entry[q]) /\ \A p \in Proc : Gone(snap[p][q])

ElectionInv ==
  /\ Bounded
  /\ \A p \in Live : Posted(p)
  /\ \A p \in Live : Informed(p) /\ Harmless(p) /\ Decided(p)
  /\ GoneAreOld

LEMMA LagFacts ==
  ASSUME NEW p \in Live, Bounded
  PROVE  /\ since[p] \in Nat /\ calm \in Nat /\ keyAge \in Nat
         /\ phase[p] \in Ticking => since[p] <= Interval
         /\ Lag(p) \in Nat /\ since[p] <= Lag(p) /\ Lag(p) <= OldestLive
         /\ RoleLag(p) \in Nat /\ since[p] <= RoleLag(p) /\ RoleLag(p) <= OldestLive
<1>1. /\ p \in Proc /\ since[p] \in 0..(Interval + MaxLate)
      /\ phase[p] \in Ticking \/ phase[p] = "idle"
      /\ phase[p] \in Ticking => since[p] <= Interval
  BY LiveMembers DEF Bounded, TypeOK, TicksBounded
<1>2. calm \in Nat /\ keyAge \in Nat
  BY ConstantFacts DEF Bounded, TypeOK
<1>3. QED
  BY <1>1, <1>2, ConstantFacts DEF Lag, RoleLag, Ticking

\* When something has just happened, the invariant says no more than the types.
LEMMA AfterTrouble ==
  ASSUME Bounded', calm' = 0 PROVE ElectionInv'
<1>1. ASSUME NEW p \in Live'
      PROVE  Posted(p)' /\ Informed(p)' /\ Harmless(p)' /\ Decided(p)'
  <2>1. /\ p \in Proc /\ since'[p] \in Nat
        /\ phase'[p] \in Ticking \/ phase'[p] = "idle"
    BY LiveMembersNext, ConstantFacts DEF Bounded, TypeOK
  <2>2. Lag(p)' \in Nat /\ RoleLag(p)' \in Nat
    BY <2>1, ConstantFacts DEF Lag, RoleLag
  <2>3. QED
    BY <2>1, <2>2, ConstantFacts DEF Posted, Informed, Harmless, Decided
<1>2. ASSUME NEW a \in Ages PROVE Gone(a)'
  BY <1>2, OldIsNat DEF Gone, Ages
<1>3. GoneAreOld'
  BY <1>2 DEF GoneAreOld, Bounded, TypeOK
<1>4. QED
  BY <1>1, <1>3 DEF ElectionInv

(* What stays true of a process that does nothing.                         *)

LEMMA PostedKept ==
  ASSUME NEW p \in Live, Bounded, Posted(p), calm' = calm,
         phase'[p] = phase[p], since'[p] = since[p], entry'[p] = entry[p],
         keyAge' = keyAge \/ keyAge' = 0
  PROVE  Posted(p)'
<1>1. Lag(p)' = Lag(p)
  BY DEF Lag
<1>2. QED
  BY <1>1, LagFacts DEF Posted

LEMMA JudgingKept ==
  ASSUME NEW p \in Live, Informed(p), Harmless(p), Decided(p),
         calm' = calm, Live' = Live, phase'[p] = phase[p], since'[p] = since[p],
         snap'[p] = snap[p], stale'[p] = stale[p], verdict'[p] = verdict[p],
         isPrimary'[p] = isPrimary[p]
  PROVE  Informed(p)' /\ Harmless(p)' /\ Decided(p)'
<1>1. RoleLag(p)' = RoleLag(p) /\ Right(p)' = Right(p)
  BY DEF RoleLag, Right
<1>2. Informed(p)'
  BY DEF Informed
<1>3. Harmless(p)'
  BY DEF Harmless
<1>4. Decided(p)'
  BY <1>1 DEF Decided
<1>5. QED
  BY <1>2, <1>3, <1>4

(* One disjunct of Next at a time.                                         *)

LEMMA InvBeginTick ==
  ASSUME NEW p \in Proc, ElectionInv, BeginTick(p) PROVE ElectionInv'
<1>1. Bounded /\ Bounded' /\ Live' = Live /\ calm' = calm /\ p \in Live
  BY BeginTickBounded, LiveMembers DEF ElectionInv, BeginTick
<1>2. ASSUME NEW q \in Live, q # p
      PROVE  Posted(q)' /\ Informed(q)' /\ Harmless(q)' /\ Decided(q)'
  <2>1. phase'[q] = phase[q] /\ since'[q] = since[q]
    BY <1>1, <1>2, LiveMembers DEF BeginTick, Bounded, TypeOK
  <2>2. QED
    BY <1>1, <2>1, PostedKept, JudgingKept DEF ElectionInv, BeginTick
<1>3. phase[p] = "idle" /\ phase'[p] = "announcing" /\ since'[p] = 0
  BY DEF BeginTick, ElectionInv, Bounded, TypeOK
<1>4. Lag(p) <= Lag(p)' /\ RoleLag(p) <= RoleLag(p)' /\ Lag(p)' \in Nat /\ RoleLag(p)' \in Nat
  <2>1. since[p] \in 0..(Interval + MaxLate)
    BY <1>1 DEF Bounded, TypeOK
  <2>2. QED
    BY <1>3, <2>1, ConstantFacts DEF Lag, RoleLag
<1>5. Posted(p)'
  <2>1. Posted(p) /\ entry' = entry /\ keyAge' = keyAge
    BY <1>1 DEF ElectionInv, BeginTick
  <2>2. entry[p] \in Int
    BY <1>1, ConstantFacts DEF Bounded, TypeOK, Ages, Absent
  <2>3. QED
    BY <1>1, <1>4, <2>1, <2>2, LagFacts, ConstantFacts DEF Posted
<1>6. Informed(p)' /\ Harmless(p)'
  BY <1>3 DEF Informed, Harmless
<1>7. Decided(p)'
  <2>1. Decided(p) /\ isPrimary' = isPrimary
    BY <1>1 DEF ElectionInv, BeginTick
  <2>2. QED
    BY <1>1, <1>3, <1>4, <2>1, LagFacts, ConstantFacts DEF Decided
<1>8. GoneAreOld'
  BY <1>1 DEF ElectionInv, GoneAreOld, Gone, BeginTick
<1>9. QED
  BY <1>1, <1>2, <1>5, <1>6, <1>7, <1>8 DEF ElectionInv

LEMMA InvAnnounce ==
  ASSUME NEW p \in Proc, ElectionInv, Announce(p) PROVE ElectionInv'
<1>1. Bounded /\ Bounded' /\ Live' = Live /\ calm' = calm /\ p \in Live
  BY AnnounceBounded, LiveMembers DEF ElectionInv, Announce, Ticking
<1>2. ASSUME NEW q \in Live, q # p
      PROVE  Posted(q)' /\ Informed(q)' /\ Harmless(q)' /\ Decided(q)'
  <2>1. phase'[q] = phase[q] /\ since'[q] = since[q] /\ entry'[q] = entry[q]
    BY <1>1, <1>2, LiveMembers DEF Announce, Bounded, TypeOK
  <2>2. QED
    BY <1>1, <2>1, PostedKept, JudgingKept DEF ElectionInv, Announce
<1>3. phase[p] = "announcing" /\ phase'[p] = "reading" /\ since' = since
  BY DEF Announce, ElectionInv, Bounded, TypeOK
<1>4. Posted(p)'
  <2>1. Lag(p)' = since[p]
    BY <1>3 DEF Lag
  <2>2. entry'[p] # Absent /\ entry'[p] <= since[p] /\ keyAge' = 0
    BY <1>1, AnnounceBounded DEF Announce
  <2>3. QED
    BY <1>1, <2>1, <2>2, LagFacts DEF Posted
<1>5. Informed(p)' /\ Harmless(p)'
  BY <1>3 DEF Informed, Harmless
<1>6. Decided(p)'
  <2>1. Decided(p) /\ isPrimary' = isPrimary
    BY <1>1 DEF ElectionInv, Announce
  <2>2. RoleLag(p)' = RoleLag(p)
    BY <1>3 DEF RoleLag
  <2>3. QED
    BY <1>1, <1>3, <2>1, <2>2 DEF Decided
<1>7. GoneAreOld'
  <2>1. \A q \in Proc \ Live : entry'[q] = entry[q]
    BY <1>1 DEF Announce, Bounded, TypeOK
  <2>2. QED
    BY <1>1, <2>1 DEF ElectionInv, GoneAreOld, Gone, Announce
<1>8. QED
  BY <1>1, <1>2, <1>4, <1>5, <1>6, <1>7 DEF ElectionInv

LEMMA InvRead ==
  ASSUME NEW p \in Proc, ElectionInv, Read(p) PROVE ElectionInv'
<1>1. Bounded /\ Bounded' /\ Live' = Live /\ calm' = calm /\ p \in Live
  BY ReadBounded, LiveMembers DEF ElectionInv, Read, Ticking
<1>2. ASSUME NEW q \in Live, q # p
      PROVE  Informed(q)' /\ Harmless(q)' /\ Decided(q)'
  <2>1. phase'[q] = phase[q] /\ snap'[q] = snap[q]
    BY <1>1, <1>2, LiveMembers DEF Read, Bounded, TypeOK
  <2>2. QED
    BY <1>1, <2>1, JudgingKept DEF ElectionInv, Read
<1>3. /\ phase[p] = "reading" /\ phase'[p] = "deciding" /\ since' = since
      /\ snap'[p] = entry
  BY DEF Read, ElectionInv, Bounded, TypeOK
<1>4. ASSUME NEW q \in Live PROVE Posted(q)'
  <2>1. Lag(q)' = Lag(q)
    <3>1. q # p => phase'[q] = phase[q]
      BY <1>1, LiveMembers DEF Read, Bounded, TypeOK
    <3>2. QED
      BY <1>3, <3>1 DEF Lag
  <2>2. Posted(q) /\ entry' = entry /\ keyAge' = keyAge
    BY <1>1 DEF ElectionInv, Read
  <2>3. QED
    BY <1>1, <2>1, <2>2 DEF Posted
<1>5. Informed(p)'
  <2>1. ASSUME NEW q \in Live
        PROVE  /\ calm > OldestLive + since[p] => entry[q] <= OldestLive + since[p]
               /\ calm > 2 * OldestLive + Interval + since[p] => entry[q] # Absent
    <3>1. Posted(q) /\ entry[q] \in Int
      BY <1>1, ConstantFacts, LiveMembers DEF ElectionInv, Bounded, TypeOK, Ages, Absent
    <3>2. Lag(q) \in Nat /\ Lag(q) <= OldestLive /\ since[p] \in Nat /\ calm \in Nat
      BY <1>1, LagFacts
    <3>3. QED
      BY <3>1, <3>2, ConstantFacts DEF Posted
  <2>2. QED
    BY <1>1, <1>3, <2>1 DEF Informed
<1>6. Harmless(p)'
  BY <1>3 DEF Harmless
<1>7. Decided(p)'
  <2>1. Decided(p) /\ isPrimary' = isPrimary
    BY <1>1 DEF ElectionInv, Read
  <2>2. RoleLag(p)' = RoleLag(p)
    BY <1>3 DEF RoleLag
  <2>3. QED
    BY <1>1, <1>3, <2>1, <2>2 DEF Decided
<1>8. GoneAreOld'
  <2>1. \A q \in Proc : \A r \in Proc : snap'[r][q] = snap[r][q] \/ snap'[r][q] = entry[q]
    BY DEF Read, ElectionInv, Bounded, TypeOK
  <2>2. entry' = entry
    BY DEF Read
  <2>3. QED
    BY <1>1, <2>1, <2>2 DEF ElectionInv, GoneAreOld, Gone
<1>9. QED
  BY <1>1, <1>2, <1>4, <1>5, <1>6, <1>7, <1>8 DEF ElectionInv

(* What p makes of what it read, once the calm is long enough.             *)

\* What is young is fresh by every clock; what is old is stale by every clock.
LEMMA YoungIsFresh ==
  ASSUME NEW p \in Proc, NEW q \in Proc, Timing, Bounded, snap[p][q] # Absent,
         snap[p][q] <= OldestLive + Interval
  PROVE  IsFresh(p, q)
<1>1. snap[p][q] \in Int
  BY ConstantFacts DEF Bounded, TypeOK, Ages, Absent
<1>2. Skew[p] \in Int /\ Skew[q] \in Int /\ Skew[p] - Skew[q] <= MaxSkew
  BY SkewBounded, ElectionAssumption
<1>3. OldestLive + Interval + MaxSkew <= Fresh
  BY DEF Timing
<1>4. QED
  BY <1>1, <1>2, <1>3, ConstantFacts DEF IsFresh

LEMMA OldIsStale ==
  ASSUME NEW p \in Proc, NEW q \in Proc, Bounded, snap[p][q] >= Old
  PROVE  ~IsFresh(p, q)
<1>1. snap[p][q] \in Int
  BY ConstantFacts DEF Bounded, TypeOK, Ages, Absent
<1>2. Skew[p] \in Int /\ Skew[q] \in Int /\ Skew[q] - Skew[p] <= MaxSkew
  BY SkewBounded, ElectionAssumption
<1>3. QED
  BY <1>1, <1>2, ConstantFacts DEF IsFresh

\* No live process is among the stale.
LEMMA LiveNotStale ==
  ASSUME NEW p \in Live, Timing, ElectionInv, phase[p] = "deciding",
         calm > OldestLive + since[p]
  PROVE  StaleFor(p) \cap Live = {}
<1>1. ASSUME NEW q \in Live, snap[p][q] # Absent PROVE IsFresh(p, q)
  <2>1. since[p] \in Nat /\ since[p] <= Interval
    BY LagFacts DEF ElectionInv, Ticking
  <2>2. snap[p][q] <= OldestLive + since[p]
    BY DEF ElectionInv, Informed
  <2>3. snap[p][q] \in Int
    BY LiveMembers, ConstantFacts DEF ElectionInv, Bounded, TypeOK, Ages, Absent
  <2>4. snap[p][q] <= OldestLive + Interval
    BY <2>1, <2>2, <2>3, ConstantFacts
  <2>5. QED
    BY <1>1, <2>4, YoungIsFresh, LiveMembers DEF ElectionInv
<1>2. QED
  BY <1>1 DEF StaleFor

\* p takes exactly the live processes for fresh, and judges rightly.
LEMMA JudgesRight ==
  ASSUME NEW p \in Live, Timing, ElectionInv, phase[p] = "deciding",
         calm >= Settled + since[p]
  PROVE  Judge(p) = Right(p)
<1>1. p \in Proc /\ since[p] \in Nat /\ calm \in Nat /\ Bounded
  BY LagFacts, LiveMembers DEF ElectionInv
<1>2. /\ calm > OldestLive + since[p]
      /\ calm > 2 * OldestLive + Interval + since[p]
      /\ calm >= Old
  BY <1>1, ConstantFacts
<1>3. ASSUME NEW q \in Live PROVE q \in FreshFor(p)
  <2>1. snap[p][q] # Absent
    BY <1>2 DEF ElectionInv, Informed
  <2>2. q \in Proc /\ q \notin StaleFor(p)
    BY <1>2, LiveNotStale, LiveMembers
  <2>3. QED
    BY <2>1, <2>2 DEF StaleFor, FreshFor
<1>4. ASSUME NEW q \in Proc \ Live PROVE q \notin FreshFor(p)
  <2>1. Gone(snap[p][q])
    BY <1>1 DEF ElectionInv, GoneAreOld
  <2>2. snap[p][q] \in Int
    BY <1>1, ConstantFacts DEF Bounded, TypeOK, Ages, Absent
  <2>3. snap[p][q] = Absent \/ snap[p][q] >= Old
    BY <1>1, <1>2, <2>1, <2>2, ConstantFacts DEF Gone
  <2>4. ~IsFresh(p, q)
    BY <1>1, <2>3, OldIsStale DEF IsFresh
  <2>5. QED
    BY <2>4 DEF FreshFor
<1>5. FreshFor(p) = Live
  BY <1>3, <1>4, LiveMembers DEF FreshFor
<1>6. QED
  BY <1>5 DEF Judge, Right

LEMMA RightIsAJudgement == \A p \in Proc : Right(p) \in {"primary", "secondary"}
  BY DEF Right

\* Concluding with the right verdict, if the calm is long enough.
LEMMA ConcludesRight ==
  ASSUME NEW p \in Live, NEW v, Bounded, Live' = Live, Conclude(p, v), calm' = calm,
         phase[p] \in Ticking, calm >= Settled + since[p] => v = Right(p)
  PROVE  Informed(p)' /\ Harmless(p)' /\ Decided(p)'
<1>1. phase'[p] = "idle" /\ since'[p] = since[p]
  BY LiveMembers DEF Bounded, TypeOK, Conclude
<1>2. Informed(p)' /\ Harmless(p)'
  BY <1>1 DEF Informed, Harmless
<1>3. isPrimary'[p] = (IF v = "error" THEN isPrimary[p] ELSE v = "primary")
  BY LiveMembers DEF Bounded, TypeOK, Conclude
<1>4. calm >= Settled + since[p] => (isPrimary'[p] <=> p = Min(Live))
  <2> SUFFICES ASSUME calm >= Settled + since[p] PROVE isPrimary'[p] <=> p = Min(Live)
    OBVIOUS
  <2>1. CASE p = Min(Live)
    BY <1>3, <2>1 DEF Right
  <2>2. CASE p # Min(Live)
    BY <1>3, <2>2 DEF Right
  <2>3. QED
    BY <2>1, <2>2
<1>5. RoleLag(p)' = since[p]
  BY <1>1 DEF RoleLag
<1>6. Decided(p)'
  BY <1>1, <1>4, <1>5 DEF Decided
<1>7. QED
  BY <1>2, <1>6

LEMMA InvDecide ==
  ASSUME NEW p \in Proc, Timing, ElectionInv, Decide(p) PROVE ElectionInv'
<1>1. Bounded /\ Bounded' /\ Live' = Live /\ p \in Live
  BY DecideBounded, LiveMembers DEF ElectionInv, Decide, Ticking
<1>2. CASE calm' = 0
  BY <1>1, <1>2, AfterTrouble
<1>3. CASE calm' = calm
  <2>1. /\ phase[p] = "deciding" /\ since' = since
        /\ entry' = entry /\ keyAge' = keyAge
        /\ snap' = [snap EXCEPT ![p] = NoSnap]
    BY DEF Decide, Conclude
  <2>2. ASSUME NEW q \in Live, q # p
        PROVE  phase'[q] = phase[q] /\ Informed(q)' /\ Harmless(q)' /\ Decided(q)'
    <3>1. /\ phase'[q] = phase[q] /\ snap'[q] = snap[q] /\ stale'[q] = stale[q]
          /\ verdict'[q] = verdict[q] /\ isPrimary'[q] = isPrimary[q]
      BY <2>2, LiveMembers DEF Decide, Conclude, ElectionInv, Bounded, TypeOK
    <3>2. QED
      BY <1>1, <1>3, <2>1, <3>1, JudgingKept DEF ElectionInv
  <2>3. phase'[p] \in {"idle", "pruning"}
    BY <1>1 DEF Decide, Conclude, Bounded, TypeOK
  <2>4. ASSUME NEW q \in Live PROVE Posted(q)'
    <3>1. Lag(q)' = Lag(q)
      BY <2>1, <2>2, <2>3 DEF Lag
    <3>2. QED
      BY <1>1, <1>3, <2>1, <3>1 DEF ElectionInv, Posted
  <2>5. Informed(p)' /\ Harmless(p)' /\ Decided(p)'
    <3>1. calm >= Settled + since[p] => Judge(p) = Right(p)
      BY <1>1, <2>1, JudgesRight
    <3>2. CASE Conclude(p, Judge(p))
      BY <1>1, <1>3, <2>1, <3>1, <3>2, ConcludesRight DEF Ticking
    <3>3. CASE /\ phase' = [phase EXCEPT ![p] = "pruning"]
               /\ stale' = [stale EXCEPT ![p] = StaleFor(p)]
               /\ verdict' = [verdict EXCEPT ![p] = Judge(p)]
               /\ UNCHANGED <<since, entry, keyAge, isPrimary, reach, calm>>
      <4>1. /\ phase'[p] = "pruning" /\ stale'[p] = StaleFor(p)
            /\ verdict'[p] = Judge(p) /\ isPrimary' = isPrimary
        BY <3>3 DEF ElectionInv, Bounded, TypeOK
      <4>2. Informed(p)'
        BY <4>1 DEF Informed
      <4>3. Harmless(p)'
        BY <1>1, <1>3, <2>1, <4>1, LiveNotStale DEF Harmless
      <4>4. RoleLag(p)' = RoleLag(p) /\ Right(p)' = Right(p)
        BY <1>1, <2>1, <4>1 DEF RoleLag, Right
      <4>5. Decided(p)'
        BY <1>1, <1>3, <2>1, <3>1, <4>1, <4>4 DEF ElectionInv, Decided
      <4>6. QED
        BY <4>2, <4>3, <4>5
    <3>4. QED
      BY <3>2, <3>3 DEF Decide
  <2>6. GoneAreOld'
    <3>1. \A q \in Proc : \A r \in Proc : snap'[r][q] = snap[r][q] \/ snap'[r][q] = Absent
      BY <2>1, NoSnapType DEF ElectionInv, Bounded, TypeOK
    <3>2. QED
      BY <1>1, <1>3, <2>1, <3>1 DEF ElectionInv, GoneAreOld, Gone
  <2>7. QED
    BY <1>1, <2>2, <2>4, <2>5, <2>6 DEF ElectionInv
<1>4. QED
  BY <1>2, <1>3 DEF Decide, Conclude

LEMMA InvPrune ==
  ASSUME NEW p \in Proc, ElectionInv, Prune(p) PROVE ElectionInv'
<1>1. Bounded /\ Bounded' /\ Live' = Live /\ p \in Live
  BY PruneBounded, LiveMembers DEF ElectionInv, Prune, Ticking
<1>2. CASE calm' = 0
  BY <1>1, <1>2, AfterTrouble
<1>3. CASE calm' = calm
  <2>1. /\ phase[p] = "pruning" /\ since' = since /\ keyAge' = keyAge /\ snap' = snap
        /\ Conclude(p, verdict[p])
    BY DEF Prune, Conclude
  <2>2. ASSUME NEW q \in Live, q # p
        PROVE  phase'[q] = phase[q] /\ Informed(q)' /\ Harmless(q)' /\ Decided(q)'
    <3>1. /\ phase'[q] = phase[q] /\ stale'[q] = stale[q]
          /\ verdict'[q] = verdict[q] /\ isPrimary'[q] = isPrimary[q]
      BY <2>2, LiveMembers DEF Prune, Conclude, ElectionInv, Bounded, TypeOK
    <3>2. QED
      BY <1>1, <1>3, <2>1, <3>1, JudgingKept DEF ElectionInv
  <2>3. phase'[p] = "idle"
    BY <1>1, <2>1 DEF Conclude, Bounded, TypeOK
  <2>4. \A q \in Proc : entry'[q] = entry[q] \/ (entry'[q] = Absent /\ q \in stale[p])
    BY DEF Prune
  <2>5. ASSUME NEW q \in Live PROVE Posted(q)'
    <3>1. Lag(q)' = Lag(q)
      BY <2>1, <2>2, <2>3 DEF Lag
    <3>2. Posted(q) /\ Lag(q) \in Nat /\ calm \in Nat /\ q \in Proc
      BY <1>1, LagFacts, LiveMembers DEF ElectionInv
    <3>3. CASE entry'[q] = entry[q]
      BY <1>3, <2>1, <3>1, <3>2, <3>3 DEF Posted
    <3>4. CASE entry'[q] = Absent /\ q \in stale[p]
      <4>1. ~(calm > OldestLive + since[p])
        BY <1>1, <2>1, <3>4 DEF ElectionInv, Harmless
      <4>2. since[p] \in Nat /\ since[p] <= Interval
        BY <1>1, <2>1, LagFacts DEF Ticking
      <4>3. ~(calm > Lag(q) + OldestLive + Interval)
        BY <3>2, <4>1, <4>2, ConstantFacts
      <4>4. calm > Lag(q) => entry'[q] <= Lag(q) /\ keyAge <= Lag(q)
        BY <3>2, <3>4 DEF Posted, Absent
      <4>5. QED
        BY <1>3, <2>1, <3>1, <4>3, <4>4 DEF Posted
    <3>5. QED
      BY <2>4, <3>2, <3>3, <3>4
  <2>6. Informed(p)' /\ Harmless(p)' /\ Decided(p)'
    <3>1. calm >= Settled + since[p] => verdict[p] = Right(p)
      BY <1>1, <2>1 DEF ElectionInv, Decided
    <3>2. QED
      BY <1>1, <1>3, <2>1, <3>1, ConcludesRight DEF Ticking
  <2>7. GoneAreOld'
    BY <1>1, <1>3, <2>1, <2>4 DEF ElectionInv, GoneAreOld, Gone
  <2>8. QED
    BY <1>1, <2>2, <2>5, <2>6, <2>7 DEF ElectionInv
<1>4. QED
  BY <1>2, <1>3 DEF Prune, Conclude

LEMMA InvTick ==
  ASSUME Timing, ElectionInv, Tick PROVE ElectionInv'
<1>1. Bounded /\ Bounded' /\ Age
  BY TickBounded DEF ElectionInv, Tick
<1>2. /\ Live' = Live /\ phase' = phase
      /\ stale' = stale /\ verdict' = verdict /\ isPrimary' = isPrimary
      /\ calm \in Nat /\ calm' \in Nat /\ calm' <= calm + 1
      /\ keyAge \in Nat /\ keyAge' \in Nat /\ keyAge' <= keyAge + 1
  BY <1>1, AgeFacts, ConstantFacts DEF Age, Bounded, TypeOK
<1>3. ASSUME NEW p \in Live
      PROVE  /\ p \in Proc /\ since[p] \in Nat /\ since'[p] = since[p] + 1
             /\ Lag(p) \in Nat /\ Lag(p)' = Lag(p) + 1 /\ Lag(p) + 1 <= OldestLive
             /\ RoleLag(p) \in Nat /\ RoleLag(p)' = RoleLag(p) + 1
             /\ Right(p)' = Right(p)
  <2>1. since'[p] = since[p] + 1
    BY <1>1, AgeFacts
  <2>2. p \in Proc /\ since[p] \in Nat /\ Lag(p) \in Nat /\ RoleLag(p) \in Nat
    BY <1>1, LagFacts, LiveMembers
  <2>3. since[p] < IF phase[p] = "idle" THEN Interval + MaxLate ELSE Interval
    BY DEF Tick
  <2>4. Lag(p)' = Lag(p) + 1 /\ RoleLag(p)' = RoleLag(p) + 1 /\ Lag(p) + 1 <= OldestLive
    BY <1>2, <2>1, <2>2, <2>3, ConstantFacts DEF Lag, RoleLag
  <2>5. Right(p)' = Right(p)
    BY <1>2 DEF Right
  <2>6. QED
    BY <2>1, <2>2, <2>4, <2>5
<1>4. /\ \A q \in Proc : entry[q] \in Ages
      /\ \A q, r \in Proc : snap[q][r] \in Ages
  BY <1>1 DEF Bounded, TypeOK
<1>5. Ages \subseteq Int
  BY ConstantFacts DEF Ages, Absent
<1>6. ASSUME NEW p \in Live PROVE Posted(p)'
  <2>1. Posted(p) /\ entry[p] \in Ages /\ p \in Proc
    BY <1>3, <1>4 DEF ElectionInv
  <2>2. calm' > Lag(p)' => calm > Lag(p)
    BY <1>2, <1>3
  <2>3. entry'[p] = Absent \/ entry'[p] = Aged(entry[p])
    BY <1>1, <2>1, AgeFacts
  <2>4. entry'[p] = Absent \/ entry'[p] <= entry[p] + 1
    BY <2>1, <2>3, AgedFacts
  <2>5. ASSUME calm' > Lag(p)' PROVE entry'[p] <= Lag(p)' /\ keyAge' <= Lag(p)'
    <3>1. entry[p] <= Lag(p) /\ keyAge <= Lag(p) /\ entry[p] \in Int
      BY <1>5, <2>1, <2>2, <2>5 DEF Posted
    <3>2. entry'[p] \in Int
      BY <1>1, <1>5, <2>1 DEF Bounded, TypeOK
    <3>3. QED
      BY <1>2, <1>3, <2>4, <3>1, <3>2 DEF Absent
  <2>6. ASSUME calm' > Lag(p)' + OldestLive + Interval PROVE entry'[p] # Absent
    <3>1. calm > Lag(p) + OldestLive + Interval /\ calm > Lag(p)
      BY <1>2, <1>3, <2>6, ConstantFacts
    <3>2. entry[p] # Absent /\ keyAge <= Lag(p)
      BY <2>1, <3>1 DEF Posted
    <3>3. keyAge + 1 < KeyExpiry
      BY <1>2, <1>3, <3>2, ConstantFacts DEF Timing
    <3>4. entry'[p] = Aged(entry[p])
      BY <1>1, <2>1, <3>3, AgeFacts
    <3>5. QED
      BY <2>1, <3>2, <3>4, AgedFacts
  <2>7. QED
    BY <2>5, <2>6 DEF Posted
<1>7. ASSUME NEW p \in Live PROVE Informed(p)'
  <2>1. ASSUME phase[p] = "deciding", NEW q \in Live
        PROVE  /\ calm' > OldestLive + since'[p] => snap'[p][q] <= OldestLive + since'[p]
               /\ calm' > 2 * OldestLive + Interval + since'[p] => snap'[p][q] # Absent
    <3>1. /\ calm > OldestLive + since[p] => snap[p][q] <= OldestLive + since[p]
          /\ calm > 2 * OldestLive + Interval + since[p] => snap[p][q] # Absent
      BY <2>1 DEF ElectionInv, Informed
    <3>2. snap'[p][q] = Aged(snap[p][q]) /\ snap[p][q] \in Ages
      BY <1>1, <1>3, <1>4, AgeFacts
    <3>3. /\ snap[p][q] \in Int /\ snap'[p][q] \in Int /\ snap'[p][q] <= snap[p][q] + 1
          /\ snap'[p][q] = Absent <=> snap[p][q] = Absent
      BY <1>5, <3>2, AgedFacts
    <3>4. QED
      BY <1>2, <1>3, <3>1, <3>3, ConstantFacts
  <2>2. QED
    BY <1>2, <2>1 DEF Informed
<1>8. ASSUME NEW p \in Live PROVE Harmless(p)' /\ Decided(p)'
  <2>1. Harmless(p) /\ Decided(p)
    BY DEF ElectionInv
  <2>2. /\ calm' > OldestLive + since'[p] => calm > OldestLive + since[p]
        /\ calm' >= Settled + since'[p] => calm >= Settled + since[p]
        /\ calm' >= Settled + RoleLag(p)' => calm >= Settled + RoleLag(p)
    BY <1>2, <1>3, ConstantFacts
  <2>3. Harmless(p)'
    BY <1>2, <2>1, <2>2 DEF Harmless
  <2>4. Decided(p)'
    BY <1>2, <1>3, <2>1, <2>2 DEF Decided
  <2>5. QED
    BY <2>3, <2>4
<1>9. ASSUME NEW a \in Ages, Gone(a)
      PROVE  Aged(a) = Absent \/ Aged(a) >= calm' \/ Aged(a) >= Old
  <2>1. a \in Int /\ Old \in Nat
    BY <1>5, ConstantFacts
  <2>2. CASE a = Absent
    BY <2>2, AgedFacts
  <2>3. CASE a # Absent
    <3>1. Aged(a) = a + 1 \/ Aged(a) = Old
      BY <2>3, AgedFacts
    <3>2. a >= calm \/ a >= Old
      BY <1>9, <2>3 DEF Gone
    <3>3. QED
      BY <1>2, <2>1, <3>1, <3>2
  <2>4. QED
    BY <2>2, <2>3
<1>10. GoneAreOld'
  <2>1. ASSUME NEW q \in Proc \ Live, NEW r \in Proc
        PROVE  Gone(entry[q])' /\ Gone(snap[r][q])'
    <3>1. Gone(entry[q]) /\ Gone(snap[r][q]) /\ entry[q] \in Ages /\ snap[r][q] \in Ages
      BY <1>4 DEF ElectionInv, GoneAreOld
    <3>2. entry'[q] = Absent \/ entry'[q] = Aged(entry[q])
      BY <1>1, AgeFacts
    <3>3. entry'[q] = Absent \/ entry'[q] >= calm' \/ entry'[q] >= Old
      BY <1>9, <3>1, <3>2
    <3>4. snap'[r][q] = Aged(snap[r][q])
      BY <1>1, AgeFacts
    <3>5. snap'[r][q] = Absent \/ snap'[r][q] >= calm' \/ snap'[r][q] >= Old
      BY <1>9, <3>1, <3>4
    <3>6. QED
      BY <3>3, <3>5 DEF Gone
  <2>2. QED
    BY <1>2, <2>1 DEF GoneAreOld
<1>11. QED
  BY <1>1, <1>2, <1>6, <1>7, <1>8, <1>10 DEF ElectionInv

LEMMA ElectionInvInit == Init => ElectionInv
<1> SUFFICES ASSUME Init PROVE ElectionInv
  OBVIOUS
<1>1. Live = {}
  BY DEF Init, Live, Ticking
<1>2. GoneAreOld
  BY NoSnapType DEF Init, GoneAreOld, Gone, NoSnap
<1>3. QED
  BY <1>1, <1>2, BoundedInit DEF ElectionInv

LEMMA ElectionInvNext ==
  ASSUME Timing, ElectionInv, [Next]_vars PROVE ElectionInv'
<1>1. CASE UNCHANGED vars
  <2>1. Bounded'
    BY <1>1, BoundedNext DEF ElectionInv
  <2>2. Live' = Live
    BY <1>1 DEF vars, Live
  <2>3. ASSUME NEW p \in Live
        PROVE  Posted(p)' /\ Informed(p)' /\ Harmless(p)' /\ Decided(p)'
    BY <1>1, <2>2, PostedKept, JudgingKept DEF vars, ElectionInv
  <2>4. GoneAreOld'
    BY <1>1, <2>2 DEF vars, ElectionInv, GoneAreOld, Gone
  <2>5. QED
    BY <2>1, <2>2, <2>3, <2>4 DEF ElectionInv
<1>2. CASE Tick
  BY <1>2, InvTick
<1>3. ASSUME NEW p \in Proc, Start(p) \/ FailTick(p) \/ Crash(p) PROVE ElectionInv'
  <2>1. calm' = 0
    BY <1>3, FailTickBounded DEF ElectionInv, Start, Crash
  <2>2. Bounded'
    BY <1>3, StartBounded, FailTickBounded, CrashBounded DEF ElectionInv
  <2>3. QED
    BY <2>1, <2>2, AfterTrouble
<1>4. ASSUME NEW p \in Proc, CutOff(p) PROVE ElectionInv'
  <2>1. Bounded' /\ Live' = Live
    BY <1>4, CutOffBounded DEF ElectionInv
  <2>2. ASSUME NEW q \in Live
        PROVE  Posted(q)' /\ Informed(q)' /\ Harmless(q)' /\ Decided(q)'
    BY <1>4, <2>1, PostedKept, JudgingKept DEF CutOff, ElectionInv
  <2>3. GoneAreOld'
    BY <1>4, <2>1 DEF CutOff, ElectionInv, GoneAreOld, Gone
  <2>4. QED
    BY <2>1, <2>2, <2>3 DEF ElectionInv
<1>5. ASSUME NEW p \in Proc, BeginTick(p) \/ Announce(p) \/ Read(p) \/ Decide(p) \/ Prune(p)
      PROVE  ElectionInv'
  BY <1>5, InvBeginTick, InvAnnounce, InvRead, InvDecide, InvPrune
<1>6. QED
  BY <1>1, <1>2, <1>3, <1>4, <1>5 DEF Next, Step

\* After Patience of calm every live process decided its role in a tick that began
\* when calm had reached Settled.
LEMMA SoonLowestHolds == ASSUME Timing, ElectionInv PROVE SoonLowest
<1> SUFFICES ASSUME Live # {}, calm = Patience PROVE Primaries = {Min(Live)}
  BY DEF SoonLowest
<1>1. ASSUME NEW p \in Live PROVE isPrimary[p] <=> p = Min(Live)
  <2>1. RoleLag(p) \in Nat /\ RoleLag(p) <= OldestLive
    BY LagFacts DEF ElectionInv
  <2>2. calm >= Settled + RoleLag(p)
    BY <2>1, ConstantFacts DEF Timing
  <2>3. QED
    BY <2>2 DEF ElectionInv, Decided
<1>2. Min(Live) \in Live
  BY MinIsLeast, LiveMembers, ElectionAssumption
<1>3. QED
  BY <1>1, <1>2 DEF Primaries

\* In every calm period that has lasted long enough, the announcements of the live
\* processes are there and fresh, those of the dead are stale, and nobody prunes a
\* live process: the inductive invariant.
THEOREM ElectionInvariant == Timing => (Spec => []ElectionInv)
<1>1. CASE Timing
  <2>1. ElectionInv /\ [Next]_vars => ElectionInv'
    BY <1>1, ElectionInvNext
  <2>2. QED
    BY <2>1, ElectionInvInit, PTL DEF Spec
<1>2. QED
  BY <1>1

\* Split brain and vacancy end: if for Patience no process has started, died or
\* failed a tick, exactly the lowest live uuid is primary.
THEOREM SoonAlwaysLowest == Timing => (Spec => []SoonLowest)
<1>1. CASE Timing
  <2>1. ElectionInv => SoonLowest
    BY <1>1, SoonLowestHolds
  <2>2. QED
    BY <1>1, <2>1, ElectionInvariant, PTL
<1>2. QED
  BY <1>1
=============================================================================
