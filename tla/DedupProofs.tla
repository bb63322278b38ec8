----------------------------- MODULE DedupProofs -----------------------------
(***************************************************************************)
(* The batched Seen, for any requests, any batch size, any number of       *)
(* concurrent flushes and any channel: its batches neither lose nor repeat *)
(* a request, and it implements SeenRegistry.                              *)
(***************************************************************************)
EXTENDS Dedup, FiniteSetTheorems, TLAPS

\* The collector's batch is finite and short of a full one.
BatchOpen == IsFiniteSet(Batch) /\ Cardinality(Batch) < BatchSize

\* What a BoolCmd holds is what Redis found last or an error; a command that
\* is still to run has been at Redis only if it is sent again; nobody has an
\* answer before the request was sent, nor a result before there is one.
Looked ==
  \A r \in Requests :
    /\ IF place[r] \in {"executed", "result"}
         THEN cmd[r] = "error" \/ (cmd[r] = outcome[r] /\ outcome[r] # "none")
         ELSE outcome[r] = "none" \/ (place[r] = "flush" /\ resends[r] > 0)
    /\ place[r] \in {"idle", "sending"} => answer[r] = "none"
    /\ place[r] # "result" => answer[r] \in {"none", "error"}

\* A mark was made by a request with that id that has been at Redis; whoever
\* found a mark found somebody else's, or had been there before.
Marked ==
  /\ \A m \in Ids : key[m] # NoOne => key[m].id = m /\ key[m] \in markers
  /\ \A r \in markers : outcome[r] # "none"
  /\ \A r \in Requests : answer[r] = "seen" => outcome[r] = "seen"
  /\ \A r \in Requests : outcome[r] = "seen"
       => \E s \in markers : s.id = r.id /\ (s # r \/ resends[r] > 0)

\* The inductive invariant.
DedupInv ==
  /\ TypeOK
  /\ IsFiniteSet(running)
  /\ BatchOpen
  /\ TimerRunsForBatch
  /\ FlushedOnce
  /\ Looked
  /\ Marked

LEMMA InitEstablishesDedupInv == Init => DedupInv
<1> SUFFICES ASSUME Init PROVE DedupInv
  OBVIOUS
<1> USE DedupAssumption DEF Init
<1>1. Batch = {}
  BY DEF Batch, At
<1>2. IsFiniteSet({}) /\ Cardinality({}) = 0
  BY FS_EmptySet
<1>3. TypeOK
  <2>1. Cardinality(running) <= BatchConcurrency
    BY <1>2
  <2>2. place \in [Requests -> Places]
    BY DEF Places
  <2>3. QED
    BY <2>1, <2>2 DEF TypeOK
<1>4. BatchOpen /\ TimerRunsForBatch
  BY <1>1, <1>2 DEF BatchOpen, TimerRunsForBatch
<1>5. FlushedOnce
  BY DEF FlushedOnce
<1>6. Looked
  BY DEF Looked
<1>7. Marked
  BY DEF Marked
<1>8. QED
  BY <1>2, <1>3, <1>4, <1>5, <1>6, <1>7 DEF DedupInv

\* The batch that leaves with the request just collected is a full one.
LEMMA CollectedBatch ==
  ASSUME BatchOpen, NEW r, r \notin Batch
  PROVE  /\ IsFiniteSet(Batch \cup {r})
         /\ Cardinality(Batch \cup {r}) \in Nat
         /\ Cardinality(Batch \cup {r}) <= BatchSize
<1>1. Cardinality(Batch) \in Nat
  BY FS_CardinalityType DEF BatchOpen
<1>2. IsFiniteSet(Batch \cup {r}) /\ Cardinality(Batch \cup {r}) = Cardinality(Batch) + 1
  BY FS_AddElement DEF BatchOpen
<1>3. QED
  BY <1>1, <1>2, DedupAssumption DEF BatchOpen

-----------------------------------------------------------------------------
\* Type correctness is inductive, given the number of flushes running.
LEMMA TypeStep ==
  ASSUME TypeOK, IsFiniteSet(running), Next
  PROVE  TypeOK' /\ IsFiniteSet(running)'
<1> USE DedupAssumption DEF TypeOK, Places, Ids, redis
<1>1. ASSUME NEW r \in Requests, Call(r) \/ Send(r) \/ Receive(r)
      PROVE  TypeOK' /\ IsFiniteSet(running)'
  BY <1>1 DEF Call, Send, Receive
<1>2. ASSUME NEW r \in Requests, GiveUpSending(r) \/ GiveUpWaiting(r)
      PROVE  TypeOK' /\ IsFiniteSet(running)'
  BY <1>2 DEF GiveUpSending, GiveUpWaiting
<1>3. ASSUME NEW r \in Requests, Collect(r)
      PROVE  TypeOK' /\ IsFiniteSet(running)'
  <2>1. Batch \cup {r} \in SUBSET Requests
    BY DEF Batch, At
  <2>2. QED
    BY <1>3, <2>1 DEF Collect, StartFlush
<1>4. CASE TimeUp
  <2>1. Batch \in SUBSET Requests
    BY DEF Batch, At
  <2>2. QED
    BY <1>4, <2>1 DEF TimeUp, StartFlush
<1>5. ASSUME NEW b \in waiting, Acquire(b)
      PROVE  TypeOK' /\ IsFiniteSet(running)'
  <2>1. /\ IsFiniteSet(running \cup {b})
        /\ Cardinality(running \cup {b})
             = IF b \in running THEN Cardinality(running) ELSE Cardinality(running) + 1
    BY FS_AddElement
  <2>2. Cardinality(running) \in Nat
    BY FS_CardinalityType
  <2>3. Cardinality(running \cup {b}) <= BatchConcurrency
    BY <1>5, <2>1, <2>2 DEF Acquire
  <2>4. QED
    BY <1>5, <2>1, <2>3 DEF Acquire
<1>6. ASSUME NEW r \in Requests, ExecSetNX(r)
      PROVE  TypeOK' /\ IsFiniteSet(running)'
  BY <1>6 DEF ExecSetNX
<1>7. ASSUME NEW r \in Requests, ExecFails(r) \/ SendAgain(r) \/ Deliver(r)
      PROVE  TypeOK' /\ IsFiniteSet(running)'
  BY <1>7 DEF ExecFails, SendAgain, Deliver
<1>8. ASSUME NEW b \in running, Release(b)
      PROVE  TypeOK' /\ IsFiniteSet(running)'
  <2>1. /\ IsFiniteSet(running \ {b})
        /\ Cardinality(running \ {b}) = Cardinality(running) - 1
    BY FS_RemoveElement
  <2>2. Cardinality(running) \in Nat
    BY FS_CardinalityType
  <2>3. Cardinality(running \ {b}) <= BatchConcurrency
    BY <2>1, <2>2
  <2>4. QED
    BY <1>8, <2>1, <2>3 DEF Release
<1>9. ASSUME NEW m \in Ids, Expire(m)
      PROVE  TypeOK' /\ IsFiniteSet(running)'
  BY <1>9 DEF Expire
<1>10. CASE Cancel
  BY <1>10 DEF Cancel
<1>11. QED
  BY <1>1, <1>2, <1>3, <1>4, <1>5, <1>6, <1>7, <1>8, <1>9, <1>10
     DEF Next, Seen, batchLoop, Exec

-----------------------------------------------------------------------------
\* The collector sends off the members of one batch.
LEMMA BatchSentOff ==
  ASSUME TypeOK, FlushedOnce,
         NEW batch \in SUBSET Requests, batch # {},
         Cardinality(batch) <= BatchSize,
         \A r \in batch : place[r] \in {"channel", "batch"},
         waiting' = waiting \cup {batch},
         running' = running,
         place' = [s \in Requests |-> IF s \in batch THEN "flush" ELSE place[s]]
  PROVE  FlushedOnce'
<1>1. batch \notin waiting \cup running
  <2>1. PICK r \in batch : TRUE
    OBVIOUS
  <2>2. QED
    BY <2>1 DEF FlushedOnce
<1>2. \A r \in batch : \A b \in waiting \cup running : r \notin b
  BY DEF FlushedOnce
<1>3. (waiting \cap running = {})'
  BY <1>1 DEF FlushedOnce
<1>4. (\A b \in waiting \cup running : b # {} /\ Cardinality(b) <= BatchSize)'
  BY DEF FlushedOnce
<1>5. ASSUME NEW r \in Requests, place'[r] \in {"flush", "executed"}
      PROVE  \E b \in waiting' \cup running' : r \in b
  BY <1>5 DEF FlushedOnce
<1>6. ASSUME NEW r \in Requests, NEW b \in waiting' \cup running',
             NEW c \in waiting' \cup running', r \in b, r \in c
      PROVE  b = c
  BY <1>2, <1>6 DEF FlushedOnce
<1>7. ASSUME NEW r \in Requests, NEW b \in waiting' \cup running', r \in b
      PROVE  place'[r] \in {"flush", "executed", "result"}
  BY <1>7 DEF FlushedOnce
<1>8. QED
  BY <1>3, <1>4, <1>5, <1>6, <1>7 DEF FlushedOnce

\* One request moves on, and the batches stay as they are.
LEMMA RequestMoves ==
  ASSUME TypeOK, FlushedOnce,
         NEW r \in Requests, NEW p,
         waiting' = waiting, running' = running,
         place' = [place EXCEPT ![r] = p],
         \/ /\ place[r] \in {"flush", "executed"}
            /\ p \in {"flush", "executed", "result"}
         \/ /\ place[r] \notin {"flush", "executed", "result"}
            /\ p \notin {"flush", "executed"}
  PROVE  FlushedOnce'
<1>1. \A s \in Requests : place'[s] = IF s = r THEN p ELSE place[s]
  BY DEF TypeOK
<1>2. ASSUME NEW s \in Requests, place'[s] \in {"flush", "executed"}
      PROVE  \E b \in waiting \cup running : s \in b
  BY <1>1, <1>2 DEF FlushedOnce
<1>3. ASSUME NEW s \in Requests, NEW b \in waiting \cup running, s \in b
      PROVE  place'[s] \in {"flush", "executed", "result"}
  BY <1>1, <1>3 DEF FlushedOnce
<1>4. QED
  BY <1>2, <1>3 DEF FlushedOnce

\* Every request handed over stays in exactly one flush until it has its result.
LEMMA FlushStep ==
  ASSUME TypeOK, BatchOpen, FlushedOnce, Next
  PROVE  FlushedOnce'
<1>1. ASSUME NEW r \in Requests, Call(r) \/ Send(r) \/ GiveUpSending(r)
      PROVE  FlushedOnce'
  BY <1>1, RequestMoves DEF Call, Send, GiveUpSending
<1>2. CASE UNCHANGED <<waiting, running, place>>
  BY <1>2 DEF FlushedOnce
<1>3. ASSUME NEW r \in Requests, Collect(r)
      PROVE  FlushedOnce'
  <2>1. r \notin Batch /\ place[r] = "channel"
    BY <1>3 DEF Collect, Batch, At
  <2>2. CASE Cardinality(Batch \cup {r}) >= BatchSize
    <3>1. Batch \cup {r} \in SUBSET Requests /\ Batch \cup {r} # {}
      BY DEF Batch, At
    <3>2. \A s \in Batch \cup {r} : place[s] \in {"channel", "batch"}
      BY <2>1 DEF Batch, At
    <3>3. /\ waiting' = waiting \cup {Batch \cup {r}}
          /\ running' = running
          /\ place' = [s \in Requests |-> IF s \in Batch \cup {r} THEN "flush" ELSE place[s]]
      BY <1>3, <2>2 DEF Collect, StartFlush
    <3>4. Cardinality(Batch \cup {r}) <= BatchSize
      BY <2>1, CollectedBatch
    <3>5. QED
      BY <3>1, <3>2, <3>3, <3>4, BatchSentOff
  <2>3. CASE ~(Cardinality(Batch \cup {r}) >= BatchSize)
    BY <1>3, <2>1, <2>3, RequestMoves DEF Collect
  <2>4. QED
    BY <2>2, <2>3
<1>4. CASE TimeUp
  <2>1. CASE Batch = {}
    BY <1>4, <2>1 DEF TimeUp, FlushedOnce
  <2>2. CASE Batch # {}
    <3>1. Batch \in SUBSET Requests /\ \A s \in Batch : place[s] \in {"channel", "batch"}
      BY DEF Batch, At
    <3>2. /\ waiting' = waiting \cup {Batch}
          /\ running' = running
          /\ place' = [s \in Requests |-> IF s \in Batch THEN "flush" ELSE place[s]]
      BY <1>4, <2>2 DEF TimeUp, StartFlush
    <3>3. Cardinality(Batch) <= BatchSize
      BY DedupAssumption, FS_CardinalityType DEF BatchOpen
    <3>4. QED
      BY <2>2, <3>1, <3>2, <3>3, BatchSentOff
  <2>3. QED
    BY <2>1, <2>2
<1>5. ASSUME NEW b \in waiting, Acquire(b)
      PROVE  FlushedOnce'
  <2>1. waiting' \cup running' = waiting \cup running /\ place' = place
    BY <1>5 DEF Acquire
  <2>2. waiting' \cap running' = {}
    BY <1>5 DEF Acquire, FlushedOnce
  <2>3. QED
    BY <2>1, <2>2 DEF FlushedOnce
<1>6. ASSUME NEW r \in Requests, Exec(r) \/ SendAgain(r) \/ Deliver(r)
      PROVE  FlushedOnce'
  BY <1>6, RequestMoves DEF Exec, ExecSetNX, ExecFails, SendAgain, Deliver
<1>7. ASSUME NEW b \in running, Release(b)
      PROVE  FlushedOnce'
  BY <1>7 DEF Release, FlushedOnce, TypeOK
<1>8. QED
  <2>1. CASE \E r \in Requests : Receive(r) \/ GiveUpWaiting(r)
    BY <1>2, <2>1 DEF Receive, GiveUpWaiting
  <2>2. CASE (\E m \in Ids : Expire(m)) \/ Cancel
    BY <1>2, <2>2 DEF Expire, Cancel
  <2>3. QED
    BY <1>1, <1>3, <1>4, <1>5, <1>6, <1>7, <2>1, <2>2 DEF Next, Seen, batchLoop

-----------------------------------------------------------------------------
\* The batch is short of full, and has a timer as long as it has a member.
LEMMA BatchStep ==
  ASSUME TypeOK, BatchOpen, TimerRunsForBatch, Next
  PROVE  BatchOpen' /\ TimerRunsForBatch'
<1>1. ASSUME Batch' = Batch, timer' = timer
      PROVE  BatchOpen' /\ TimerRunsForBatch'
  BY <1>1 DEF BatchOpen, TimerRunsForBatch
<1>2. ASSUME Batch' = {}, timer' = "nil"
      PROVE  BatchOpen' /\ TimerRunsForBatch'
  <2>1. IsFiniteSet(Batch') /\ Cardinality(Batch') = 0
    BY <1>2, FS_EmptySet
  <2>2. QED
    BY <1>2, <2>1, DedupAssumption DEF BatchOpen, TimerRunsForBatch
<1>3. ASSUME NEW r \in Requests, NEW p, place' = [place EXCEPT ![r] = p],
             place[r] # "batch", p # "batch", timer' = timer
      PROVE  BatchOpen' /\ TimerRunsForBatch'
  <2>1. Batch' = Batch
    BY <1>3 DEF Batch, At, TypeOK
  <2>2. QED
    BY <1>1, <1>3, <2>1
<1>4. ASSUME NEW r \in Requests,
             \/ Call(r) \/ Send(r) \/ GiveUpSending(r)
             \/ Exec(r) \/ SendAgain(r) \/ Deliver(r)
      PROVE  BatchOpen' /\ TimerRunsForBatch'
  BY <1>3, <1>4 DEF Call, Send, GiveUpSending, Exec, ExecSetNX, ExecFails, SendAgain,
                    Deliver
<1>5. ASSUME UNCHANGED <<place, timer>>
      PROVE  BatchOpen' /\ TimerRunsForBatch'
  BY <1>1, <1>5 DEF Batch, At
<1>6. ASSUME NEW r \in Requests, Collect(r)
      PROVE  BatchOpen' /\ TimerRunsForBatch'
  <2>1. r \notin Batch
    BY <1>6 DEF Collect, Batch, At
  <2>2. CASE Cardinality(Batch \cup {r}) >= BatchSize
    <3>1. Batch' = {}
      BY <1>6, <2>2 DEF Collect, Batch, At
    <3>2. timer' = "nil"
      BY <1>6, <2>2 DEF Collect
    <3>3. QED
      BY <1>2, <3>1, <3>2
  <2>3. CASE ~(Cardinality(Batch \cup {r}) >= BatchSize)
    <3>1. place' = [place EXCEPT ![r] = "batch"]
      BY <1>6, <2>3 DEF Collect
    <3>2. Batch' = Batch \cup {r}
      BY <3>1 DEF Batch, At, TypeOK
    <3>3. BatchOpen'
      BY <2>1, <2>3, <3>2, CollectedBatch, DedupAssumption DEF BatchOpen
    <3>4. timer' = IF timer = "nil" THEN "armed" ELSE timer
      BY <1>6, <2>3 DEF Collect
    <3>5. TimerRunsForBatch'
      BY <3>2, <3>4 DEF TimerRunsForBatch
    <3>6. QED
      BY <3>3, <3>5
  <2>4. QED
    BY <2>2, <2>3
<1>7. CASE TimeUp
  <2>1. Batch' = {}
    BY <1>7 DEF TimeUp, Batch, At
  <2>2. QED
    BY <1>2, <1>7, <2>1 DEF TimeUp
<1>8. QED
  <2>1. CASE \E r \in Requests : Receive(r) \/ GiveUpWaiting(r)
    BY <1>5, <2>1 DEF Receive, GiveUpWaiting
  <2>2. CASE (\E m \in Ids : Expire(m)) \/ Cancel
    BY <1>5, <2>2 DEF Expire, Cancel
  <2>3. CASE (\E b \in waiting : Acquire(b)) \/ (\E b \in running : Release(b))
    BY <1>5, <2>3 DEF Acquire, Release
  <2>4. QED
    BY <1>4, <1>6, <1>7, <2>1, <2>2, <2>3 DEF Next, Seen, batchLoop

\* A lookup is made again only by a command sent again, and its result is kept
\* until it is received.
LEMMA LookedStep ==
  ASSUME TypeOK, Looked, Next
  PROVE  Looked'
<1> USE DEF Looked, TypeOK, redis
<1>1. ASSUME NEW r \in Requests, Call(r) \/ Send(r) \/ Receive(r)
      PROVE  Looked'
  BY <1>1 DEF Call, Send, Receive
<1>2. ASSUME NEW r \in Requests, GiveUpSending(r) \/ GiveUpWaiting(r)
      PROVE  Looked'
  BY <1>2 DEF GiveUpSending, GiveUpWaiting
<1>3. ASSUME NEW r \in Requests, Collect(r)
      PROVE  Looked'
  BY <1>3 DEF Collect, Batch, At
<1>4. CASE TimeUp
  BY <1>4 DEF TimeUp, Batch, At
<1>5. ASSUME NEW r \in Requests, ExecSetNX(r)
      PROVE  Looked'
  BY <1>5 DEF ExecSetNX
<1>6. ASSUME NEW r \in Requests, ExecFails(r) \/ Deliver(r)
      PROVE  Looked'
  BY <1>6 DEF ExecFails, Deliver
<1>7. ASSUME NEW r \in Requests, SendAgain(r)
      PROVE  Looked'
  BY <1>7 DEF SendAgain
<1>8. CASE UNCHANGED <<outcome, answer, place, cmd, resends>>
  BY <1>8
<1>9. QED
  <2>1. CASE (\E m \in Ids : Expire(m)) \/ Cancel
    BY <1>8, <2>1 DEF Expire, Cancel
  <2>2. CASE (\E b \in waiting : Acquire(b)) \/ (\E b \in running : Release(b))
    BY <1>8, <2>2 DEF Acquire, Release
  <2>3. QED
    BY <1>1, <1>2, <1>3, <1>4, <1>5, <1>6, <1>7, <2>1, <2>2
       DEF Next, Seen, batchLoop, Exec

\* A mark belongs to a request that has been at Redis, until its TTL ends.
LEMMA MarkedStep ==
  ASSUME TypeOK, Looked, Marked, Next
  PROVE  Marked'
<1> USE DEF redis
<1>1. CASE UNCHANGED <<redis, answer, resends>>
  BY <1>1 DEF Marked
<1>2. ASSUME NEW r \in Requests, answer' = [answer EXCEPT ![r] = "error"],
             UNCHANGED <<redis, resends>>
      PROVE  Marked'
  BY <1>2 DEF Marked, TypeOK
<1>3. ASSUME NEW r \in Requests, Receive(r)
      PROVE  Marked'
  <2>1. cmd[r] = "seen" => outcome[r] = "seen"
    BY <1>3 DEF Receive, Looked
  <2>2. QED
    BY <1>3, <2>1 DEF Receive, Marked, TypeOK
<1>4. ASSUME NEW r \in Requests, ExecSetNX(r)
      PROVE  Marked'
  <2>1. answer[r] # "seen" /\ r.id \in Ids /\ (outcome[r] = "none" \/ resends[r] > 0)
    BY <1>4 DEF ExecSetNX, Looked, Ids
  <2>2. answer' = answer /\ resends' = resends
    BY <1>4 DEF ExecSetNX
  <2>3. CASE key[r.id] = NoOne
    <3>1. /\ key' = [key EXCEPT ![r.id] = r]
          /\ markers' = markers \cup {r}
          /\ outcome' = [outcome EXCEPT ![r] = "first"]
      BY <1>4, <2>3 DEF ExecSetNX
    <3>2. QED
      BY <2>1, <2>2, <3>1 DEF Marked, TypeOK
  <2>4. CASE key[r.id] # NoOne
    <3>1. /\ key' = [key EXCEPT ![r.id] = @]
          /\ markers' = markers
          /\ outcome' = [outcome EXCEPT ![r] = "seen"]
      BY <1>4, <2>4 DEF ExecSetNX
    <3>2. key' = key
      BY <3>1 DEF TypeOK
    <3>3. key[r.id] \in markers /\ key[r.id].id = r.id
      BY <2>1, <2>4 DEF Marked
    <3>4. key[r.id] # r \/ resends[r] > 0
      BY <2>1, <3>3 DEF Marked
    <3>5. \A q \in Requests : outcome'[q] = IF q = r THEN "seen" ELSE outcome[q]
      BY <3>1 DEF TypeOK
    <3>6. ASSUME NEW q \in Requests, outcome'[q] = "seen"
          PROVE  \E s \in markers : s.id = q.id /\ (s # q \/ resends[q] > 0)
      BY <3>3, <3>4, <3>5, <3>6 DEF Marked
    <3>7. QED
      BY <2>1, <2>2, <3>1, <3>2, <3>5, <3>6 DEF Marked, TypeOK
  <2>5. QED
    BY <2>3, <2>4
<1>5. ASSUME NEW r \in Requests, SendAgain(r)
      PROVE  Marked'
  <2>1. \A q \in Requests : resends[q] > 0 => resends'[q] > 0
    BY <1>5 DEF SendAgain, TypeOK
  <2>2. UNCHANGED <<redis, answer>>
    BY <1>5 DEF SendAgain
  <2>3. QED
    BY <2>1, <2>2 DEF Marked
<1>6. ASSUME NEW m \in Ids, Expire(m)
      PROVE  Marked'
  BY <1>6 DEF Expire, Marked, TypeOK
<1>7. QED
  <2>1. CASE \E r \in Requests : Call(r) \/ Send(r) \/ ExecFails(r) \/ Deliver(r)
    BY <1>1, <2>1 DEF Call, Send, ExecFails, Deliver
  <2>2. CASE \E r \in Requests : GiveUpSending(r) \/ GiveUpWaiting(r)
    BY <1>2, <2>2 DEF GiveUpSending, GiveUpWaiting
  <2>3. CASE batchLoop \/ Cancel
    BY <1>1, <2>3 DEF batchLoop, Collect, TimeUp, Cancel
  <2>4. CASE (\E b \in waiting : Acquire(b)) \/ (\E b \in running : Release(b))
    BY <1>1, <2>4 DEF Acquire, Release
  <2>5. QED
    BY <1>3, <1>4, <1>5, <1>6, <2>1, <2>2, <2>3, <2>4 DEF Next, Seen, Exec

-----------------------------------------------------------------------------
\* DedupInv holds in every behaviour of the batched Seen.
THEOREM DedupInvariant == Spec => []DedupInv
<1>1. DedupInv /\ [Next]_vars => DedupInv'
  <2> SUFFICES ASSUME DedupInv, [Next]_vars PROVE DedupInv'
    OBVIOUS
  <2>1. CASE Next
    BY <2>1, TypeStep, BatchStep, FlushStep, LookedStep, MarkedStep DEF DedupInv
  <2>2. CASE UNCHANGED vars
    BY <2>2 DEF vars, redis, DedupInv, TypeOK, BatchOpen, TimerRunsForBatch, FlushedOnce,
                Looked, Marked, Batch, At
  <2>3. QED
    BY <2>1, <2>2
<1>2. QED
  BY <1>1, InitEstablishesDedupInv, PTL DEF Spec

\* Type correctness; in particular no more than batchConcurrency pipelines
\* are at Redis at any time (flushSem, dedup.go:297-303).
THEOREM DedupTypeCorrect == Spec => []TypeOK
<1>1. DedupInv => TypeOK
  BY DEF DedupInv
<1>2. QED
  BY <1>1, DedupInvariant, PTL

\* A batch that has a member has a running timer, and every request handed
\* over is in one flush, once, until it has its result (dedup.go:261-303).
THEOREM RequestsAlwaysKept == Spec => []RequestsKept
<1>1. DedupInv => RequestsKept
  BY DEF DedupInv, RequestsKept
<1>2. QED
  BY <1>1, DedupInvariant, PTL

\* Seen reports a message as seen only if another call marked its id, or, when
\* the client has sent the call's command again, perhaps that command itself:
\* never on an error, and never for an id that nobody has marked.
THEOREM SeenOnlyBecauseMarked == Spec => []SeenBecauseMarked
<1>1. DedupInv => SeenBecauseMarked
  BY DEF DedupInv, Marked, SeenBecauseMarked
<1>2. QED
  BY <1>1, DedupInvariant, PTL

\* Every step of the batched Seen is a step of the atomic check-and-mark of
\* SeenRegistry or invisible to it: the channel, the batches, the timer and
\* the concurrent flushes cannot be told apart from an atomic SETNX that a call
\* makes, and makes again when its reply is lost.
THEOREM DedupImplementsRegistry == Spec => ImplementsRegistry
<1>1. Init => Registry!Init
  BY DEF Init, Registry!Init, Ids, Registry!Ids
<1>2. DedupInv /\ [Next]_vars => [Registry!Next]_(Registry!registry)
  <2> SUFFICES ASSUME DedupInv, [Next]_vars
               PROVE  Registry!Next \/ UNCHANGED <<key, markers, outcome, answer>>
    BY DEF Registry!registry
  <2> USE DEF Registry!Next, redis
  <2>1. ASSUME NEW r \in Requests, Receive(r)
        PROVE  Registry!Next
    <3>1. cmd[r] = "error" \/ (cmd[r] = outcome[r] /\ outcome[r] # "none")
      BY <2>1 DEF Receive, DedupInv, Looked
    <3>2. Registry!Fail(r) \/ Registry!Reply(r)
      BY <2>1, <3>1 DEF Receive, Registry!Fail, Registry!Reply
    <3>3. QED
      BY <3>2
  <2>2. ASSUME NEW r \in Requests, GiveUpSending(r) \/ GiveUpWaiting(r)
        PROVE  Registry!Next
    <3>1. answer[r] = "none"
      BY <2>2 DEF GiveUpSending, GiveUpWaiting, DedupInv, Looked
    <3>2. QED
      BY <2>2, <3>1 DEF GiveUpSending, GiveUpWaiting, Registry!Fail
  <2>3. ASSUME NEW r \in Requests, ExecSetNX(r)
        PROVE  Registry!Next
    <3>1. Registry!Asking(r)
      BY <2>3 DEF ExecSetNX, DedupInv, Looked, Registry!Asking
    <3>2. CASE key[r.id] = NoOne
      BY <2>3, <3>1, <3>2 DEF ExecSetNX, Registry!Mark
    <3>3. CASE key[r.id] # NoOne
      <4>1. key' = key
        BY <2>3, <3>3 DEF ExecSetNX, DedupInv, TypeOK
      <4>2. Registry!Find(r)
        BY <2>3, <3>1, <3>3, <4>1 DEF ExecSetNX, Registry!Find
      <4>3. QED
        BY <4>2
    <3>4. QED
      BY <3>2, <3>3
  <2>4. ASSUME NEW m \in Ids, Expire(m)
        PROVE  Registry!Next
    BY <2>4 DEF Expire, Registry!Expire, Ids, Registry!Ids
  <2>5. CASE \E r \in Requests :
               Call(r) \/ Send(r) \/ ExecFails(r) \/ SendAgain(r) \/ Deliver(r)
    BY <2>5 DEF Call, Send, ExecFails, SendAgain, Deliver
  <2>6. CASE batchLoop \/ Cancel
    BY <2>6 DEF batchLoop, Collect, TimeUp, Cancel
  <2>7. CASE (\E b \in waiting : Acquire(b)) \/ (\E b \in running : Release(b))
    BY <2>7 DEF Acquire, Release
  <2>8. CASE UNCHANGED vars
    BY <2>8 DEF vars
  <2>9. QED
    BY <2>1, <2>2, <2>3, <2>4, <2>5, <2>6, <2>7, <2>8 DEF Next, Seen, Exec
<1>3. QED
  BY <1>1, <1>2, DedupInvariant, PTL DEF Spec, ImplementsRegistry, Registry!Spec
=============================================================================
