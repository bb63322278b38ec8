------------------------------ MODULE Failover ------------------------------
(***************************************************************************)
(* Several instances of one centre's antiloop process, each with its own   *)
(* relay.Pipeline (role, gate, one goroutine per dispatched message), and  *)
(* the dedup registry they share in Redis.                                 *)
(*                                                                         *)
(* Every instance subscribes, so every notification reaches every          *)
(* instance, and the same id may reach one instance more than once (from   *)
(* another Global Broker).  One such delivery is a copy; only the gate of  *)
(* an instance decides whether its copies go on to be processed.           *)
(*                                                                         *)
(* Roles change at any time and independently, as far as this module       *)
(* knows: Election says which combinations really occur, and everything    *)
(* here holds for all of them, two primaries included.  The publisher is   *)
(* connected throughout; Publisher failures are the fault "publish".       *)
(***************************************************************************)
EXTENDS GateOps, Functions

CONSTANTS
  Inst,     \* antiloop instances
  Copies,   \* deliveries, records [inst, id, n]
  TTL,      \* dedup TTL, in the clock's unit
  MaxProc,  \* bound: a dispatched message reaches dedup within MaxProc
  Faults,   \* which of "crash", "redis", "publish" may happen
  MaxNow    \* bound: clock

Ids == {c.id : c \in Copies}

ASSUME FailoverAssumption ==
  /\ \A c \in Copies : c.inst \in Inst
  /\ TTL \in Nat \ {0}
  /\ MaxAge > 0
  /\ MaxProc \in Nat
  /\ MaxNow \in Nat

Never == -1

VARIABLES
  isPrimary,     \* isPrimary[i]: Pipeline.isPrimary
  deciding,      \* deciding[i]: SetPrimary has released gateMu, not yet applied
  gates,         \* gates[i]: the instance's gate
  stage,         \* stage[c]: how far copy c has come
  keys,          \* keys[m]: when m's dedup key was last set, or Never
  now,
  startedAt,     \* startedAt[c]: when process() got copy c, while it is InProcess
  receivedAt,    \* history: when copy c reached Handle; forgotten if c ends unclaimed
  claimedAt      \* history: when copy c's SETNX succeeded

vars == <<isPrimary, deciding, gates, stage, keys, now, startedAt, receivedAt, claimedAt>>

\* stage[c]: "none" before delivery; "queued" in the gate; in process(),
\* "dispatched", and at dedup "checked", or "resent" once its SETNX has run and
\* the client sends it again; "claimed" and "unguarded" after dedup, with and
\* without a successful SETNX.  The rest are final, "seen" as "seenResent" if
\* the SETNX had been sent again.
AtDedup   == {"checked", "resent"}
InProcess == {"dispatched", "checked", "resent"}
PastDedup == {"claimed", "unguarded"}
Final     == {"published", "refused", "evicted", "rejected", "seen", "seenResent",
              "unpublished", "lost"}
Stages    == {"none", "queued"} \cup InProcess \cup PastDedup \cup Final

Init ==
  /\ isPrimary = [i \in Inst |-> FALSE]
  /\ deciding = [i \in Inst |-> FALSE]
  /\ gates = [i \in Inst |-> NewGate]
  /\ stage = [c \in Copies |-> "none"]
  /\ keys = [m \in Ids |-> Never]
  /\ now = 0
  /\ startedAt = [c \in Copies |-> Never]
  /\ receivedAt = [c \in Copies |-> Never]
  /\ claimedAt = [c \in Copies |-> Never]

\* A key set with EX TTL is gone once more than TTL has passed.
KeyLive(m) == keys[m] # Never /\ now <= keys[m] + TTL

\* What eviction takes out of instance i's queue now.
Evicted(i) == Messages(gates[i].queue) \ Messages(EvictExpired(gates[i].queue, now))

\* The history of copies that end without a claim is of no further use.
Forget(ended) == receivedAt' = [c \in Copies |-> IF c \in ended THEN Never ELSE receivedAt[c]]

\* What Handle does to the queue's copies when copy c arrives at time now.
Arrives(c, as) ==
  /\ stage' = [d \in Copies |-> IF d = c THEN as
                                ELSE IF d \in Evicted(c.inst) THEN "evicted" ELSE stage[d]]
  /\ receivedAt' = [d \in Copies |->
                      IF d = c /\ as # "refused" THEN now
                      ELSE IF d \in Evicted(c.inst) THEN Never ELSE receivedAt[d]]

\* Copy c leaves process() before or in dedup, without a claim.
Ends(c, as) ==
  /\ stage' = [stage EXCEPT ![c] = as]
  /\ startedAt' = [startedAt EXCEPT ![c] = Never]
  /\ Forget({c})

-----------------------------------------------------------------------------
\* SetPrimary's critical section, called by i's one election goroutine when
\* its role changes.
SetPrimary(i, primary) ==
  /\ ~deciding[i]
  /\ primary # isPrimary[i]
  /\ isPrimary' = [isPrimary EXCEPT ![i] = primary]
  /\ deciding' = [deciding EXCEPT ![i] = TRUE]
  /\ UNCHANGED <<gates, stage, keys, now, startedAt, receivedAt, claimedAt>>

\* Mutant: promotion opens the gate and forgets the backlog it took.
PromoteDroppingBacklog(i) ==
  /\ deciding[i] /\ isPrimary[i]
  /\ deciding' = [deciding EXCEPT ![i] = FALSE]
  /\ gates' = [gates EXCEPT ![i] = Opened(@)]
  /\ stage' = [c \in Copies |->
                 IF c \in Evicted(i) THEN "evicted" ELSE stage[c]]
  /\ Forget(Evicted(i))
  /\ UNCHANGED <<isPrimary, keys, now, startedAt, claimedAt>>

\* applyGateState(true): gate.Open, whose forward loop only spawns goroutines.
Promote(i) ==
  /\ deciding[i] /\ isPrimary[i]
  /\ deciding' = [deciding EXCEPT ![i] = FALSE]
  /\ gates' = [gates EXCEPT ![i] = Opened(@)]
  /\ LET backlog == {Backlog(gates[i], now)[k] : k \in DOMAIN Backlog(gates[i], now)}
     IN  /\ stage' = [c \in Copies |->
                        IF c \in backlog THEN "dispatched"
                        ELSE IF c \in Evicted(i) THEN "evicted" ELSE stage[c]]
         /\ startedAt' = [c \in Copies |->
                            IF c \in backlog THEN now ELSE startedAt[c]]
  /\ Forget(Evicted(i))
  /\ UNCHANGED <<isPrimary, keys, now, claimedAt>>

\* applyGateState(false): gate.Queue.
Demote(i) ==
  /\ deciding[i] /\ ~isPrimary[i]
  /\ deciding' = [deciding EXCEPT ![i] = FALSE]
  /\ gates' = [gates EXCEPT ![i] = Queued(@)]
  /\ UNCHANGED <<isPrimary, stage, keys, now, startedAt, receivedAt, claimedAt>>

-----------------------------------------------------------------------------
\* HandleMessage, gate open: straight to a goroutine.
HandleLive(c) ==
  /\ stage[c] = "none"
  /\ gates[c.inst].state = Open
  /\ stage' = [stage EXCEPT ![c] = "dispatched"]
  /\ receivedAt' = [receivedAt EXCEPT ![c] = now]
  /\ startedAt' = [startedAt EXCEPT ![c] = now]
  /\ UNCHANGED <<isPrimary, deciding, gates, keys, now, claimedAt>>

\* Mutant: the id is marked as seen before the gate, the loss gate.go:9-16
\* describes: a secondary burns ids it never publishes.
HandleQueueingAfterDedup(c) ==
  /\ stage[c] = "none"
  /\ gates[c.inst].state = Queueing
  /\ ~IsFull(gates[c.inst], now)
  /\ gates' = [gates EXCEPT ![c.inst] = Enqueued(@, c, now)]
  /\ Arrives(c, "queued")
  /\ keys' = [keys EXCEPT ![c.id] = now]
  /\ UNCHANGED <<isPrimary, deciding, now, startedAt, claimedAt>>

\* HandleMessage, gate queueing and not full.
HandleQueueing(c) ==
  /\ stage[c] = "none"
  /\ gates[c.inst].state = Queueing
  /\ ~IsFull(gates[c.inst], now)
  /\ gates' = [gates EXCEPT ![c.inst] = Enqueued(@, c, now)]
  /\ Arrives(c, "queued")
  /\ UNCHANGED <<isPrimary, deciding, keys, now, startedAt, claimedAt>>

\* HandleMessage, queue full: the arrival is dropped.
HandleFull(c) ==
  /\ stage[c] = "none"
  /\ gates[c.inst].state = Queueing
  /\ IsFull(gates[c.inst], now)
  /\ gates' = [gates EXCEPT ![c.inst] = Trimmed(@, now)]
  /\ Arrives(c, "refused")
  /\ UNCHANGED <<isPrimary, deciding, keys, now, startedAt, claimedAt>>

-----------------------------------------------------------------------------
\* The steps of process(), one goroutine per copy.

\* Topic, schema and metadata checks: either outcome.
Check(c) ==
  /\ stage[c] = "dispatched"
  /\ \/ stage' = [stage EXCEPT ![c] = "checked"] /\ UNCHANGED <<startedAt, receivedAt>>
     \/ Ends(c, "rejected")
  /\ UNCHANGED <<isPrimary, deciding, gates, keys, now, claimedAt>>

\* Mutant: SET without NX: every caller believes it is the first.
ClaimWithoutNX(c) ==
  /\ stage[c] \in AtDedup
  /\ keys' = [keys EXCEPT ![c.id] = now]
  /\ claimedAt' = [claimedAt EXCEPT ![c] = now]
  /\ stage' = [stage EXCEPT ![c] = "claimed"]
  /\ startedAt' = [startedAt EXCEPT ![c] = Never]
  /\ UNCHANGED <<isPrimary, deciding, gates, now, receivedAt>>

\* Dedup.Seen: SETNX finds no key, so this copy is the first.
Claim(c) ==
  /\ stage[c] \in AtDedup
  /\ ~KeyLive(c.id)
  /\ keys' = [keys EXCEPT ![c.id] = now]
  /\ claimedAt' = [claimedAt EXCEPT ![c] = now]
  /\ stage' = [stage EXCEPT ![c] = "claimed"]
  /\ startedAt' = [startedAt EXCEPT ![c] = Never]
  /\ UNCHANGED <<isPrimary, deciding, gates, now, receivedAt>>

\* Dedup.Seen: SETNX finds the key, which may be this copy's own if the command
\* was sent again: the copy is discarded.
DiscardSeen(c) ==
  /\ stage[c] \in AtDedup
  /\ KeyLive(c.id)
  /\ Ends(c, IF stage[c] = "resent" THEN "seenResent" ELSE "seen")
  /\ UNCHANGED <<isPrimary, deciding, gates, keys, now, claimedAt>>

\* The SETNX marks the id and its reply is lost, so the client sends it again
\* (redisconn.New leaves its retries on); it will find its own mark.
ReplyLost(c) ==
  /\ "redis" \in Faults
  /\ stage[c] \in AtDedup
  /\ ~KeyLive(c.id)
  /\ keys' = [keys EXCEPT ![c.id] = now]
  /\ stage' = [stage EXCEPT ![c] = "resent"]
  /\ UNCHANGED <<isPrimary, deciding, gates, now, startedAt, receivedAt, claimedAt>>

\* Dedup.Seen returns an error: process() logs it and goes on, unguarded.
\* The command may or may not have run before the connection failed.
DedupError(c) ==
  /\ "redis" \in Faults
  /\ stage[c] \in AtDedup
  /\ \/ UNCHANGED keys
     \/ ~KeyLive(c.id) /\ keys' = [keys EXCEPT ![c.id] = now]
  /\ Ends(c, "unguarded")
  /\ UNCHANGED <<isPrimary, deciding, gates, now, claimedAt>>

\* Publisher.Publish delivered to at least one broker.
Publish(c) ==
  /\ stage[c] \in PastDedup
  /\ stage' = [stage EXCEPT ![c] = "published"]
  /\ UNCHANGED <<isPrimary, deciding, gates, keys, now, startedAt, receivedAt, claimedAt>>

\* Publisher.Publish delivered to none: logged, and nothing is undone.
PublishFails(c) ==
  /\ "publish" \in Faults
  /\ stage[c] \in PastDedup
  /\ stage' = [stage EXCEPT ![c] = "unpublished"]
  /\ UNCHANGED <<isPrimary, deciding, gates, keys, now, startedAt, receivedAt, claimedAt>>

-----------------------------------------------------------------------------
\* The process dies and is restarted as a secondary with an empty gate.
Crash(i) ==
  /\ "crash" \in Faults
  /\ isPrimary' = [isPrimary EXCEPT ![i] = FALSE]
  /\ deciding' = [deciding EXCEPT ![i] = FALSE]
  /\ gates' = [gates EXCEPT ![i] = NewGate]
  /\ LET lost == {c \in Copies : c.inst = i
                              /\ stage[c] \in {"queued"} \cup InProcess \cup PastDedup}
     IN  /\ stage' = [c \in Copies |-> IF c \in lost THEN "lost" ELSE stage[c]]
         /\ startedAt' = [c \in Copies |-> IF c \in lost THEN Never ELSE startedAt[c]]
         /\ Forget({c \in lost : claimedAt[c] = Never})
  /\ UNCHANGED <<keys, now, claimedAt>>

\* Time passes, but no goroutine takes longer than MaxProc to reach dedup.
Tick ==
  /\ now < MaxNow
  /\ \A c \in Copies : stage[c] \in InProcess => now < startedAt[c] + MaxProc
  /\ now' = now + 1
  /\ UNCHANGED <<isPrimary, deciding, gates, stage, keys, startedAt, receivedAt, claimedAt>>

Process(c) ==
  \/ Check(c)
  \/ Claim(c) \/ DiscardSeen(c) \/ ReplyLost(c) \/ DedupError(c)
  \/ Publish(c) \/ PublishFails(c)

Next ==
  \/ \E i \in Inst, primary \in BOOLEAN : SetPrimary(i, primary)
  \/ \E i \in Inst : Promote(i) \/ Demote(i) \/ Crash(i)
  \/ \E c \in Copies : HandleLive(c) \/ HandleQueueing(c) \/ HandleFull(c) \/ Process(c)
  \/ Tick

Spec == Init /\ [][Next]_vars

\* Goroutines run, and an election callback that has started finishes.
\* Nothing makes a message arrive, a role change or time pass.
Fairness ==
  /\ \A c \in Copies : WF_vars(Process(c))
  /\ \A i \in Inst : WF_vars(Promote(i) \/ Demote(i))

FairSpec == Spec /\ Fairness

-----------------------------------------------------------------------------
Times == {Never} \cup Nat

TypeOK ==
  /\ isPrimary \in [Inst -> BOOLEAN]
  /\ deciding \in [Inst -> BOOLEAN]
  /\ gates \in [Inst -> [state : {Queueing, Open},
                         queue : Seq([msg : Copies, at : Nat])]]
  /\ \A i \in Inst : Len(gates[i].queue) <= MaxLen
  /\ stage \in [Copies -> Stages]
  /\ keys \in [Ids -> Times]
  /\ now \in Nat
  /\ startedAt \in [Copies -> Times]
  /\ receivedAt \in [Copies -> Times]
  /\ claimedAt \in [Copies -> Times]

Claimed(c) == claimedAt[c] # Never

\* Exclusive claims: whatever the roles, the crashes and the drains, two
\* copies of one id that both passed dedup did so more than TTL apart.
ClaimsApart ==
  \A c, d \in Copies :
    c # d /\ c.id = d.id /\ Claimed(c) /\ Claimed(d)
      => \/ claimedAt[c] > claimedAt[d] + TTL
         \/ claimedAt[d] > claimedAt[c] + TTL

\* What maxAge really buys (gate.go:38-48).  A copy that is published after
\* its id has already been claimed was received less than `slack` before
\* that earlier claim, or after it; with maxAge = TTL the slack is the time
\* a message may spend in process().  So a backlog copy that was waiting
\* when the primary published its id is always recognised as a duplicate.
Slack == MaxAge + MaxProc - TTL

BacklogRecognised ==
  \A c, d \in Copies :
    c # d /\ c.id = d.id /\ Claimed(c) /\ Claimed(d) /\ claimedAt[d] <= claimedAt[c]
      => claimedAt[d] < receivedAt[c] + Slack

\* The doc's form of the same promise (gate.go:149-151): a drain "must never
\* publish a message dedup can no longer recognize as a duplicate".  With
\* MaxProc = 0 a copy claimed later than received has waited in the gate.
DrainNeverDuplicates ==
  \A c, d \in Copies :
    /\ c # d /\ c.id = d.id
    /\ stage[c] = "published" /\ Claimed(c) /\ Claimed(d)
    /\ receivedAt[c] < claimedAt[c]
    => claimedAt[c] < claimedAt[d]

\* What the copies of id m can come to.  "unpublished" is a failure the
\* Publisher reported.
HandedOver(m) ==
  \E c \in Copies : c.id = m /\ stage[c] \in {"published", "unpublished"}

\* No loss at a change of roles: a copy waiting in the gate of an instance
\* that ends up primary for good is not lost: its id is handed to the
\* publisher (by this copy or by another), unless the checks reject it or
\* it outlives maxAge.
PublishedOnceHeld ==
  \A c \in Copies :
    <>[]isPrimary[c.inst]
      => (stage[c] = "queued"
           ~> stage[c] \in {"rejected", "evicted"} \/ HandedOver(c.id))

\* Without crashes and lost replies no id is burned: dedup is consumed only by a
\* copy that goes on to the publisher (gate.go:18-22), never by one waiting in a
\* secondary.
NeverBurned == \A m \in Ids : keys[m] # Never ~> HandedOver(m)
=============================================================================
