-------------------------------- MODULE Gate --------------------------------
(***************************************************************************)
(* internal/gate: a queue gate and the goroutines that call it.            *)
(*                                                                         *)
(* The mutex is held only for a critical section; forwarding always        *)
(* happens after it is released.  Handle and Open are therefore two steps  *)
(* each, and anything may run in between: other Handle calls (two          *)
(* subscriber connections and /inject deliver concurrently), another Open  *)
(* (election callback and broker callbacks), Queue and Len.                *)
(*                                                                         *)
(* Message m is the m-th to take the lock, so 1..arrived is arrival order. *)
(***************************************************************************)
EXTENDS GateOps

CONSTANTS
  Openers,  \* goroutines that call Open
  MaxMsgs,  \* bound: messages that arrive
  MaxNow    \* bound: clock

GateBounds == MaxMsgs \in Nat /\ MaxNow \in Nat

VARIABLES
  gate,       \* [state, queue], guarded by g.mu
  now,        \* time.Now(), monotonic
  arrived,    \* number of messages that have reached Handle
  passing,    \* messages whose Handle saw Open and has yet to forward
  drains,     \* drains[o]: what is left of the backlog Open call o forwards
  forwarded,  \* history: messages handed to forward, in order
  discarded   \* history: messages evicted or refused

gateVars == <<gate, now, arrived, passing, drains, forwarded, discarded>>

GateInit ==
  /\ gate = NewGate
  /\ now = 0
  /\ arrived = 0
  /\ passing = {}
  /\ drains = [o \in Openers |-> <<>>]
  /\ forwarded = <<>>
  /\ discarded = {}

Evicted == Messages(gate.queue) \ Messages(EvictExpired(gate.queue, now))

-----------------------------------------------------------------------------
Arrive == arrived < MaxMsgs /\ arrived' = arrived + 1

\* Handle on an open gate: unlock, then forward in a later step.
HandleOpen ==
  /\ Arrive
  /\ gate.state = Open
  /\ passing' = passing \cup {arrived'}
  /\ UNCHANGED <<gate, now, drains, forwarded, discarded>>

\* Mutant: the state is read before the lock is taken, and is stale under it.
HandleQueueingStaleState ==
  /\ Arrive
  /\ ~IsFull(gate, now)
  /\ gate' = Enqueued(gate, arrived', now)
  /\ discarded' = discarded \cup Evicted
  /\ UNCHANGED <<now, passing, drains, forwarded>>

\* Handle on a queueing gate that still has room after eviction.
HandleQueueing ==
  /\ Arrive
  /\ gate.state = Queueing
  /\ ~IsFull(gate, now)
  /\ gate' = Enqueued(gate, arrived', now)
  /\ discarded' = discarded \cup Evicted
  /\ UNCHANGED <<now, passing, drains, forwarded>>

\* Handle on a full queue: the arrival is dropped, the backlog kept.
HandleFull ==
  /\ Arrive
  /\ gate.state = Queueing
  /\ IsFull(gate, now)
  /\ gate' = Trimmed(gate, now)
  /\ discarded' = discarded \cup Evicted \cup {arrived'}
  /\ UNCHANGED <<now, passing, drains, forwarded>>

\* Handle's g.forward(msg), outside the lock.
ForwardPassing(m) ==
  /\ m \in passing
  /\ passing' = passing \ {m}
  /\ forwarded' = Append(forwarded, m)
  /\ UNCHANGED <<gate, now, arrived, drains, discarded>>

\* Open's critical section.
OpenGate(o) ==
  /\ drains[o] = <<>>
  /\ drains' = [drains EXCEPT ![o] = Backlog(gate, now)]
  /\ gate' = Opened(gate)
  /\ discarded' = discarded \cup Evicted
  /\ UNCHANGED <<now, arrived, passing, forwarded>>

\* One iteration of Open's forward loop, outside the lock.
ForwardDrained(o) ==
  /\ drains[o] # <<>>
  /\ forwarded' = Append(forwarded, Head(drains[o]))
  /\ drains' = [drains EXCEPT ![o] = Tail(@)]
  /\ UNCHANGED <<gate, now, arrived, passing, discarded>>

QueueGate ==
  /\ gate' = Queued(gate)
  /\ UNCHANGED <<now, arrived, passing, drains, forwarded, discarded>>

\* Len, polled by the backlog gauge.
PollLen ==
  /\ gate' = Trimmed(gate, now)
  /\ discarded' = discarded \cup Evicted
  /\ UNCHANGED <<now, arrived, passing, drains, forwarded>>

GateTick ==
  /\ now < MaxNow
  /\ now' = now + 1
  /\ UNCHANGED <<gate, arrived, passing, drains, forwarded, discarded>>

GateNext ==
  \/ HandleOpen
  \/ HandleQueueing
  \/ HandleFull
  \/ \E m \in passing : ForwardPassing(m)
  \/ \E o \in Openers : OpenGate(o)
  \/ \E o \in Openers : ForwardDrained(o)
  \/ QueueGate
  \/ PollLen
  \/ GateTick

GateSpec == GateInit /\ [][GateNext]_gateVars

-----------------------------------------------------------------------------
Entry == [msg : 1..arrived, at : 0..now]

GateTypeOK ==
  /\ gate \in [state : {Queueing, Open}, queue : Seq(Entry)]
  /\ now \in Nat
  /\ arrived \in Nat
  /\ passing \subseteq 1..arrived
  /\ drains \in [Openers -> Seq(1..arrived)]
  /\ forwarded \in Seq(1..arrived)
  /\ discarded \subseteq 1..arrived

\* An open gate holds nothing: Handle never strands a message in the queue
\* of a gate that has already opened, however Open and Handle interleave
\* (gate.go:112-126, 152-161).
NothingStranded == gate.state = Open => gate.queue = <<>>

Increasing(s) == \A i, j \in DOMAIN s : i < j => s[i] < s[j]

\* Every backlog is in arrival order, and whatever is queued now arrived
\* after everything some Open has already taken: overlapping Open calls
\* take consecutive stretches of the arrivals, each of them once.
BacklogsInOrder ==
  /\ \A i, j \in DOMAIN gate.queue :
       i < j => gate.queue[i].msg < gate.queue[j].msg
  /\ \A o \in Openers : Increasing(drains[o])
  /\ \A o \in Openers : \A i \in DOMAIN drains[o], j \in DOMAIN gate.queue :
       drains[o][i] < gate.queue[j].msg

\* The queue is ordered by age, never holds more than maxLen entries and no
\* entry from the future: what makes it enough for evictExpiredLocked to
\* stop at the first entry that is not expired (gate.go:128-145).
QueueSorted ==
  /\ Len(gate.queue) <= MaxLen
  /\ \A i, j \in DOMAIN gate.queue : i <= j => gate.queue[i].at <= gate.queue[j].at

Elements(s) == {s[i] : i \in DOMAIN s}

Waiting     == Messages(gate.queue)
Draining(o) == Elements(drains[o])
Forwarded   == Elements(forwarded)

\* Nothing is lost and nothing is forwarded twice: every message that
\* reached Handle is queued, in the hands of exactly one goroutine,
\* forwarded once, or was discarded by age or by the length bound.  (That a
\* queue or a backlog has it only once is part of BacklogsInOrder.)
EachMessageInOnePlace ==
  LET draining == UNION {Draining(o) : o \in Openers}
  IN  /\ 1..arrived = Waiting \cup passing \cup draining \cup Forwarded \cup discarded
      /\ Waiting \cap (passing \cup draining \cup Forwarded \cup discarded) = {}
      /\ passing \cap (draining \cup Forwarded \cup discarded) = {}
      /\ draining \cap (Forwarded \cup discarded) = {}
      /\ Forwarded \cap discarded = {}
      /\ \A o, p \in Openers : o # p => Draining(o) \cap Draining(p) = {}
      /\ \A i, j \in DOMAIN forwarded : forwarded[i] = forwarded[j] => i = j

\* Open never hands out an entry older than maxAge (gate.go:147-151), even
\* when the queue saw no arrival that would have evicted it.
DrainsOnlyFresh ==
  [][\A o \in Openers, i \in DOMAIN gate.queue :
       /\ MaxAge > 0
       /\ drains[o] = <<>>
       /\ gate.queue[i].msg \in {drains'[o][k] : k \in DOMAIN drains'[o]}
       => gate.queue[i].at >= now - MaxAge]_gateVars

\* Nothing is discarded in vain: an arrival is refused only when maxLen entries
\* that are all still fresh are queued, since expired ones take no room from it
\* (gate.go:49-53), and of what is queued only what has outlived maxAge goes.
DiscardsJustified ==
  [][/\ arrived' \in discarded' /\ arrived' # arrived
          => Cardinality({i \in DOMAIN gate.queue :
                            MaxAge = 0 \/ ~Expired(gate.queue[i], now)}) >= MaxLen
     /\ \A i \in DOMAIN gate.queue :
          gate.queue[i].msg \in discarded' \ discarded
            => MaxAge > 0 /\ gate.queue[i].at < now - MaxAge]_gateVars
=============================================================================
