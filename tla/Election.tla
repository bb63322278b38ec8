------------------------------ MODULE Election ------------------------------
(***************************************************************************)
(* internal/election: the instances of one centre elect a primary through  *)
(* the Redis hash wis2gb:election:<centre_id>.  Every interval each one    *)
(* announces itself, reads everybody's announcements, prunes the stale     *)
(* ones, and takes itself for primary if its uuid is the lowest of the     *)
(* fresh ones.                                                             *)
(*                                                                         *)
(* A process is one run of the program: a restart has a new uuid, so it is *)
(* another process.  uuids are numbers, in their lexicographic order.      *)
(*                                                                         *)
(* Time is kept as ages that grow with Tick, capped where growing further  *)
(* changes nothing.  What p calls the age of q's announcement is its true  *)
(* age plus the difference of their clocks, Skew[p] - Skew[q].             *)
(***************************************************************************)
EXTENDS Integers, FiniteSets, FiniteSetsExt

CONSTANTS
  Proc,       \* uuids
  Skew,       \* Skew[p]: how far p's clock is ahead
  Interval,   \* interval
  Fresh,      \* fresh: the freshness window
  KeyExpiry,  \* keyExpiry
  MaxLate,    \* bound: how late the ticker's goroutine may be scheduled
  Faults,     \* which of "crash", "redis" may happen
  Patience    \* bound: how far calm counts

ASSUME ElectionAssumption ==
  /\ Proc \subseteq Nat /\ Proc # {} /\ IsFiniteSet(Proc)
  /\ Skew \in [Proc -> Int]
  /\ Interval \in Nat \ {0}
  /\ Fresh \in Nat
  /\ KeyExpiry \in Nat \ {0}
  /\ MaxLate \in 0..Interval
  /\ Patience \in Nat

VARIABLES
  phase,      \* phase[p]: "unborn", "idle", a step of evaluate(), or "dead"
  since,      \* since[p]: time since p's last tick began
  entry,      \* entry[p]: age of the timestamp in p's field, or Absent
  keyAge,     \* time since the key's last EXPIRE
  snap,       \* snap[p]: the hash as p's HGETALL found it, ageing
  stale,      \* stale[p]: the fields p is about to HDEL
  verdict,    \* verdict[p]: what evaluate() will return after that
  isPrimary,  \* isPrimary[p]
  reach,      \* reach[p]: p's Redis commands get through
  calm        \* history: time since a process last started, failed a tick or died

vars == <<phase, since, entry, keyAge, snap, stale, verdict, isPrimary, reach, calm>>

Absent == -1
NoSnap == [q \in Proc |-> Absent]

Ticking == {"announcing", "reading", "deciding", "pruning"}
Live    == {p \in Proc : phase[p] \in Ticking \cup {"idle"}}

\* The largest difference between two clocks.
MaxSkew == Max({Skew[p] - Skew[q] : p, q \in Proc})

\* At this age, an announcement is stale by every clock.
Old == Fresh + 1 + MaxSkew

Init ==
  /\ phase = [p \in Proc |-> "unborn"]
  /\ since = [p \in Proc |-> 0]
  /\ entry = NoSnap
  /\ keyAge = 0
  /\ snap = [p \in Proc |-> NoSnap]
  /\ stale = [p \in Proc |-> {}]
  /\ verdict = [p \in Proc |-> "none"]
  /\ isPrimary = [p \in Proc |-> FALSE]
  /\ reach = [p \in Proc |-> TRUE]
  /\ calm = 0

-----------------------------------------------------------------------------
\* Run: the first tick begins at once.
Start(p) ==
  /\ phase[p] = "unborn"
  /\ phase' = [phase EXCEPT ![p] = "announcing"]
  /\ calm' = 0
  /\ UNCHANGED <<since, entry, keyAge, snap, stale, verdict, isPrimary, reach>>

\* case <-ticker.C: its times are fixed, so a tick that began late is
\* followed by one that is early.
BeginTick(p) ==
  /\ phase[p] = "idle"
  /\ since[p] >= Interval - MaxLate
  /\ phase' = [phase EXCEPT ![p] = "announcing"]
  /\ since' = [since EXCEPT ![p] = 0]
  /\ UNCHANGED <<entry, keyAge, snap, stale, verdict, isPrimary, reach, calm>>

\* HSET with the time at which the tick began, and EXPIRE.
Announce(p) ==
  /\ phase[p] = "announcing" /\ reach[p]
  /\ entry' = [entry EXCEPT ![p] = Min({since[p], Old})]
  /\ keyAge' = 0
  /\ phase' = [phase EXCEPT ![p] = "reading"]
  /\ UNCHANGED <<since, snap, stale, verdict, isPrimary, reach, calm>>

\* HGETALL, as Redis runs it.
Read(p) ==
  /\ phase[p] = "reading" /\ reach[p]
  /\ snap' = [snap EXCEPT ![p] = entry]
  /\ phase' = [phase EXCEPT ![p] = "deciding"]
  /\ UNCHANGED <<since, entry, keyAge, stale, verdict, isPrimary, reach, calm>>

\* ts >= cutoff, by p's clock when the reply has arrived.
IsFresh(p, q) == snap[p][q] # Absent /\ snap[p][q] + Skew[p] - Skew[q] <= Fresh

FreshFor(p) == {q \in Proc : IsFresh(p, q)}
StaleFor(p) == {q \in Proc : snap[p][q] # Absent /\ ~IsFresh(p, q)}

\* Mutant: being fresh is enough.
JudgeWithoutComparing(p) ==
  IF FreshFor(p) = {} THEN "error"
  ELSE IF p \in FreshFor(p) THEN "primary" ELSE "secondary"

\* What evaluate() makes of the fresh members.
Judge(p) ==
  IF FreshFor(p) = {} THEN "error"
  ELSE IF Min(FreshFor(p)) = p THEN "primary" ELSE "secondary"

\* Mutant: a primary is never demoted.
ConcludeKeepingRole(p, v) ==
  /\ phase' = [phase EXCEPT ![p] = "idle"]
  /\ isPrimary' = [isPrimary EXCEPT ![p] = @ \/ v = "primary"]
  /\ calm' = IF v = "error" THEN 0 ELSE calm
  /\ UNCHANGED <<since, keyAge, reach>>

\* tick() once evaluate() has returned v: on an error the role stays as it is.
Conclude(p, v) ==
  /\ phase' = [phase EXCEPT ![p] = "idle"]
  /\ isPrimary' = [isPrimary EXCEPT ![p] = IF v = "error" THEN @ ELSE v = "primary"]
  /\ calm' = IF v = "error" THEN 0 ELSE calm
  /\ UNCHANGED <<since, keyAge, reach>>

\* The cutoff, the walk over the pairs and, if none is stale, the role.
Decide(p) ==
  /\ phase[p] = "deciding"
  /\ snap' = [snap EXCEPT ![p] = NoSnap]
  /\ \/ /\ StaleFor(p) = {}
        /\ Conclude(p, Judge(p))
        /\ UNCHANGED <<entry, stale, verdict>>
     \/ /\ StaleFor(p) # {}
        /\ phase' = [phase EXCEPT ![p] = "pruning"]
        /\ stale' = [stale EXCEPT ![p] = StaleFor(p)]
        /\ verdict' = [verdict EXCEPT ![p] = Judge(p)]
        /\ UNCHANGED <<since, entry, keyAge, isPrimary, reach, calm>>

\* HDEL of what was stale when p read it, successful or not, and the role.
Prune(p) ==
  /\ phase[p] = "pruning"
  /\ \/ /\ reach[p]
        /\ entry' = [q \in Proc |-> IF q \in stale[p] THEN Absent ELSE entry[q]]
     \/ ~reach[p] /\ UNCHANGED entry
  /\ stale' = [stale EXCEPT ![p] = {}]
  /\ verdict' = [verdict EXCEPT ![p] = "none"]
  /\ Conclude(p, verdict[p])
  /\ UNCHANGED snap

\* HSET or HGETALL fails, or the tick's context ends; the HSET may have been
\* executed all the same.
FailTick(p) ==
  /\ phase[p] \in {"announcing", "reading"}
  /\ ~reach[p]
  /\ Conclude(p, "error")
  /\ UNCHANGED <<entry, snap, stale, verdict>>

-----------------------------------------------------------------------------
\* p's way to Redis breaks, or is restored.
CutOff(p) ==
  /\ "redis" \in Faults
  /\ p \in Live
  /\ reach' = [reach EXCEPT ![p] = ~@]
  /\ UNCHANGED <<phase, since, entry, keyAge, snap, stale, verdict, isPrimary, calm>>

\* The process ends; its field stays.
Crash(p) ==
  /\ "crash" \in Faults
  /\ p \in Live
  /\ phase' = [phase EXCEPT ![p] = "dead"]
  /\ since' = [since EXCEPT ![p] = 0]
  /\ snap' = [snap EXCEPT ![p] = NoSnap]
  /\ stale' = [stale EXCEPT ![p] = {}]
  /\ verdict' = [verdict EXCEPT ![p] = "none"]
  /\ isPrimary' = [isPrimary EXCEPT ![p] = FALSE]
  /\ reach' = [reach EXCEPT ![p] = TRUE]
  /\ calm' = 0
  /\ UNCHANGED <<entry, keyAge>>

\* Everything gets one older; Redis drops a key that was not renewed.
Aged(a) == IF a = Absent THEN Absent ELSE Min({a + 1, Old})

Age ==
  /\ since' = [p \in Proc |-> IF p \in Live THEN since[p] + 1 ELSE 0]
  /\ keyAge' = Min({keyAge + 1, KeyExpiry})
  /\ entry' = [p \in Proc |-> IF keyAge + 1 >= KeyExpiry THEN Absent ELSE Aged(entry[p])]
  /\ snap' = [p \in Proc |-> [q \in Proc |-> Aged(snap[p][q])]]
  /\ calm' = Min({calm + 1, Patience})
  /\ UNCHANGED <<phase, stale, verdict, isPrimary, reach>>

\* Mutant: the tick has no context.WithTimeout.
TickWithoutTimeout ==
  /\ \A p \in Live : phase[p] = "idle" => since[p] < Interval + MaxLate
  /\ Age

\* Time passes, but no tick begins more than MaxLate late, and the tick's
\* context ends it after an interval.
Tick ==
  /\ \A p \in Live : since[p] < IF phase[p] = "idle" THEN Interval + MaxLate ELSE Interval
  /\ Age

Step(p) ==
  BeginTick(p) \/ Announce(p) \/ Read(p) \/ Decide(p) \/ Prune(p) \/ FailTick(p)

Next ==
  \/ \E p \in Proc : Start(p) \/ Step(p) \/ CutOff(p) \/ Crash(p)
  \/ Tick

Spec == Init /\ [][Next]_vars

\* The goroutines run and time passes; nothing starts or stops a process.
Fairness == WF_vars(Tick) /\ \A p \in Proc : WF_vars(Step(p))

FairSpec == Spec /\ Fairness

-----------------------------------------------------------------------------
Ages == {Absent} \cup 0..Old

TypeOK ==
  /\ phase \in [Proc -> Ticking \cup {"unborn", "idle", "dead"}]
  /\ since \in [Proc -> 0..(Interval + MaxLate)]
  /\ entry \in [Proc -> Ages]
  /\ keyAge \in 0..KeyExpiry
  /\ snap \in [Proc -> [Proc -> Ages]]
  /\ stale \in [Proc -> SUBSET Proc]
  /\ verdict \in [Proc -> {"none", "primary", "secondary", "error"}]
  /\ isPrimary \in [Proc -> BOOLEAN]
  /\ reach \in [Proc -> BOOLEAN]
  /\ calm \in 0..Patience

Primaries == {p \in Live : isPrimary[p]}

\* Split brain and vacancy end: when for Patience no process has started,
\* died or failed a tick, exactly the lowest live uuid is primary.
SoonLowest ==
  (Live # {} /\ calm = Patience) => Primaries = {Min(Live)}

\* While its ticks succeed, no announcement of a process gets older than this.
OldestLive == 2 * Interval + MaxLate

\* A tick that begins after this much calm finds all live processes fresh and
\* the others stale.
Settled == Max({Old, 2 * OldestLive + Interval + 1})

\* What SoonLowest rests on: an announcement of a live process, read within a
\* tick, is fresh by every clock; the key does not expire under it; and calm
\* counts far enough.
Timing ==
  /\ OldestLive + Interval + MaxSkew <= Fresh
  /\ OldestLive < KeyExpiry
  /\ Settled + OldestLive <= Patience

\* The lowest uuid ends up, and stays, the only primary once every live
\* process can reach Redis for good.
LowestElected ==
  <>[](\A p \in Live : reach[p])
    => <>[](Primaries = IF Live = {} THEN {} ELSE {Min(Live)})
=============================================================================
