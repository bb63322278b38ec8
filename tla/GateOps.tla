------------------------------- MODULE GateOps -------------------------------
(***************************************************************************)
(* The pure part of internal/gate: what each critical section of a Gate    *)
(* does to the two fields its mutex guards, `state` and `queue`.  Gate     *)
(* adds the goroutines around one gate; Failover uses the same operators   *)
(* for the gate of every instance.                                         *)
(*                                                                         *)
(* A queue entry is [msg, at]; `at` is the clock when it was appended.     *)
(***************************************************************************)
EXTENDS Integers, Sequences, FiniteSetsExt

CONSTANTS
  MaxLen,  \* maxLen: the longest queue
  MaxAge   \* maxAge: the oldest entry that may still be drained; 0 disables

ASSUME GateAssumption == MaxLen \in Nat /\ MaxAge \in Nat

Queueing == "Queueing"
Open     == "Open"

\* New: the zero value of State is Queueing, so a gate starts buffering.
NewGate == [state |-> Queueing, queue |-> <<>>]

Messages(q) == {q[i].msg : i \in DOMAIN q}

\* at.Before(now - maxAge) is strict: an entry of exactly maxAge survives.
Expired(e, now) == e.at < now - MaxAge

\* Mutant: nothing is ever evicted.
EvictNothing(q, now) == q

\* evictExpiredLocked: drop the expired prefix, up to the first live entry.
EvictExpired(q, now) ==
  LET live == {i \in 1..Len(q) : ~Expired(q[i], now)}
  IN  IF MaxAge = 0 THEN q
      ELSE IF live = {} THEN <<>>
      ELSE SubSeq(q, Min(live), Len(q))

\* Mutant: the backlog is handed out newest first.
BacklogNewestFirst(g, now) ==
  LET q == EvictExpired(g.queue, now)
  IN  [i \in 1..Len(q) |-> q[Len(q) + 1 - i].msg]

\* What Open copies out of the queue under the lock.
Backlog(g, now) ==
  LET q == EvictExpired(g.queue, now)
  IN  [i \in 1..Len(q) |-> q[i].msg]

\* Mutant: Open leaves the copied entries in the queue.
OpenedKeepingQueue(g) == [g EXCEPT !.state = Open]

\* Open's critical section: the queue is copied out, emptied, the gate opens.
Opened(g) == [g EXCEPT !.state = Open, !.queue = <<>>]

\* Queue: only the state changes; a backlog being drained keeps draining.
Queued(g) == [g EXCEPT !.state = Queueing]

\* Len's side effect.
Trimmed(g, now) == [g EXCEPT !.queue = EvictExpired(@, now)]

\* Mutant: the queue is allowed to grow one entry past maxLen.
IsFullOffByOne(g, now) == Len(EvictExpired(g.queue, now)) > MaxLen

\* Mutant: the length check runs before the expired entries are evicted.
IsFullBeforeEviction(g, now) == Len(g.queue) >= MaxLen

\* Handle refuses the newest arrival (keepNewest:false), after evicting.
IsFull(g, now) == Len(EvictExpired(g.queue, now)) >= MaxLen

\* Mutant: the entry is stamped with the time it expires.
EnqueuedWithDeadline(g, m, now) ==
  [g EXCEPT !.queue = Append(EvictExpired(@, now), [msg |-> m, at |-> now + MaxAge])]

\* Handle's append on a gate that is Queueing and not full.
Enqueued(g, m, now) ==
  [g EXCEPT !.queue = Append(EvictExpired(@, now), [msg |-> m, at |-> now])]
=============================================================================
