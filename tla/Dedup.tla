-------------------------------- MODULE Dedup --------------------------------
(***************************************************************************)
(* internal/dedup built with NewBatched: Seen calls go through a buffered  *)
(* channel to the one batchLoop goroutine, which hands batches to flush    *)
(* goroutines; a semaphore bounds how many of those talk to Redis at once. *)
(*                                                                         *)
(* The pipeline's commands run one by one, in no particular order: on a    *)
(* Redis Cluster a pipeline is split over the nodes.  Time is left out:    *)
(* batchWait may end, and a key's TTL may end, at any moment.              *)
(*                                                                         *)
(* redisconn.New leaves the client's retries switched on: when a reply is  *)
(* lost the pipeline, or a node's share of it, is sent again, whatever of  *)
(* it Redis has executed already.  Which commands that are is left open,   *)
(* and so is whether the first one reached Redis.                          *)
(*                                                                         *)
(* Dedup implements SeenRegistry, with the same key, markers, outcome and  *)
(* answer.                                                                 *)
(***************************************************************************)
EXTENDS Naturals, FiniteSets, Functions

CONSTANTS
  Requests,          \* calls of Seen, records [id, n]
  NoOne,             \* not a request: an id nobody has marked
  BatchSize,         \* batchSize
  BatchConcurrency,  \* batchConcurrency: the capacity of flushSem
  Room,              \* the capacity of reqCh: 4 * batchSize in NewBatched
  MaxResends,        \* bound: how often the client sends a command again, in all
  Faults             \* which of "redis", "cancel", "expire" may happen

ASSUME DedupAssumption ==
  /\ BatchSize \in Nat \ {0}
  /\ BatchConcurrency \in Nat \ {0}
  /\ Room \in Nat \ {0}
  /\ MaxResends \in Nat
  /\ NoOne \notin Requests

Ids == {r.id : r \in Requests}

VARIABLES
  key, markers, outcome,  \* Redis: see SeenRegistry
  answer,        \* what Seen returned
  place,         \* place[r]: where r is, from Seen's first select to its result channel
  timer,         \* timerC: "nil", "armed", or "spent" once it has fired
  waiting,       \* batches handed to a flush goroutine that has no slot yet
  running,       \* batches whose goroutine holds a flushSem slot
  resends,       \* resends[r]: how often the client has sent r's command again
  cmd,           \* cmd[r]: what r's BoolCmd holds: "none", "first", "seen", "error"
  cancelled      \* p.ctx, the context of every call, is done

redis == <<key, markers, outcome>>
vars == <<redis, answer, place, timer, waiting, running, resends, cmd, cancelled>>

Places == {"idle", "sending", "channel", "batch", "flush", "executed", "result", "gone"}

At(p) == {r \in Requests : place[r] = p}

Batch == At("batch")

ChannelFull == Cardinality(At("channel")) >= Room

Init ==
  /\ key = [m \in Ids |-> NoOne]
  /\ markers = {}
  /\ outcome = [r \in Requests |-> "none"]
  /\ answer = [r \in Requests |-> "none"]
  /\ place = [r \in Requests |-> "idle"]
  /\ timer = "nil"
  /\ waiting = {}
  /\ running = {}
  /\ resends = [r \in Requests |-> 0]
  /\ cmd = [r \in Requests |-> "none"]
  /\ cancelled = FALSE

-----------------------------------------------------------------------------
(* Seen *)

\* process() calls Seen.
Call(r) ==
  /\ place[r] = "idle"
  /\ place' = [place EXCEPT ![r] = "sending"]
  /\ UNCHANGED <<redis, answer, timer, waiting, running, resends, cmd, cancelled>>

Send(r) ==
  /\ place[r] = "sending"
  /\ ~ChannelFull
  /\ place' = [place EXCEPT ![r] = "channel"]
  /\ UNCHANGED <<redis, answer, timer, waiting, running, resends, cmd, cancelled>>

Receive(r) ==
  /\ place[r] = "result"
  /\ answer[r] = "none"
  /\ answer' = [answer EXCEPT ![r] = cmd[r]]
  /\ UNCHANGED <<redis, place, timer, waiting, running, resends, cmd, cancelled>>

\* ctx.Done() in the first select: the request was never sent.
GiveUpSending(r) ==
  /\ cancelled
  /\ place[r] = "sending"
  /\ answer' = [answer EXCEPT ![r] = "error"]
  /\ place' = [place EXCEPT ![r] = "gone"]
  /\ UNCHANGED <<redis, timer, waiting, running, resends, cmd, cancelled>>

\* ctx.Done() in the second select: the request itself goes on.
GiveUpWaiting(r) ==
  /\ cancelled
  /\ place[r] \in {"channel", "batch", "flush", "executed", "result"}
  /\ answer[r] = "none"
  /\ answer' = [answer EXCEPT ![r] = "error"]
  /\ UNCHANGED <<redis, place, timer, waiting, running, resends, cmd, cancelled>>

Cancel ==
  /\ "cancel" \in Faults
  /\ ~cancelled
  /\ cancelled' = TRUE
  /\ UNCHANGED <<redis, answer, place, timer, waiting, running, resends, cmd>>

-----------------------------------------------------------------------------
(* batchLoop *)

\* startFlush: a goroutine of its own, which will wait for a slot.
StartFlush(batch) == waiting' = waiting \cup {batch}

\* case req := <-d.reqCh: the first member starts the clock, the last one
\* that fits sends the batch off.
Collect(r) ==
  LET batch == Batch \cup {r}
  IN  /\ place[r] = "channel"
      /\ IF Cardinality(batch) >= BatchSize
           THEN /\ StartFlush(batch)
                /\ place' = [s \in Requests |-> IF s \in batch THEN "flush" ELSE place[s]]
                /\ timer' = "nil"
           ELSE /\ place' = [place EXCEPT ![r] = "batch"]
                /\ timer' = IF timer = "nil" THEN "armed" ELSE timer
                /\ UNCHANGED waiting
      /\ UNCHANGED <<redis, answer, running, resends, cmd, cancelled>>

\* Mutant: timerC is not reset to nil after it fired.
TimeUpLeavingTimer ==
  /\ timer = "armed"
  /\ timer' = "spent"
  /\ IF Batch # {}
       THEN /\ StartFlush(Batch)
            /\ place' = [s \in Requests |-> IF s \in Batch THEN "flush" ELSE place[s]]
       ELSE UNCHANGED <<waiting, place>>
  /\ UNCHANGED <<redis, answer, running, resends, cmd, cancelled>>

\* case <-timerC: batchWait after the first member, whatever there is goes.
TimeUp ==
  /\ timer = "armed"
  /\ timer' = "nil"
  /\ IF Batch # {}
       THEN /\ StartFlush(Batch)
            /\ place' = [s \in Requests |-> IF s \in Batch THEN "flush" ELSE place[s]]
       ELSE UNCHANGED <<waiting, place>>
  /\ UNCHANGED <<redis, answer, running, resends, cmd, cancelled>>

-----------------------------------------------------------------------------
(* The flush goroutines *)

\* Mutant: a flush starts without a flushSem slot.
AcquireWithoutSlot(b) ==
  /\ b \in waiting
  /\ waiting' = waiting \ {b}
  /\ running' = running \cup {b}
  /\ UNCHANGED <<redis, answer, place, timer, resends, cmd, cancelled>>

Acquire(b) ==
  /\ b \in waiting
  /\ Cardinality(running) < BatchConcurrency
  /\ waiting' = waiting \ {b}
  /\ running' = running \cup {b}
  /\ UNCHANGED <<redis, answer, place, timer, resends, cmd, cancelled>>

\* Mutant: SET without NX.
ExecSetNXOverwriting(r) ==
  /\ \E b \in running : r \in b
  /\ place[r] = "flush"
  /\ key' = [key EXCEPT ![r.id] = r]
  /\ markers' = markers \cup {r}
  /\ outcome' = [outcome EXCEPT ![r] = "first"]
  /\ \/ cmd' = [cmd EXCEPT ![r] = outcome'[r]]
     \/ "redis" \in Faults /\ cmd' = [cmd EXCEPT ![r] = "error"]
  /\ place' = [place EXCEPT ![r] = "executed"]
  /\ UNCHANGED <<answer, timer, waiting, running, resends, cancelled>>

\* Redis runs r's SET NX EX; its reply may still be lost on the way back.
ExecSetNX(r) ==
  /\ \E b \in running : r \in b
  /\ place[r] = "flush"
  /\ key' = [key EXCEPT ![r.id] = IF @ = NoOne THEN r ELSE @]
  /\ markers' = IF key[r.id] = NoOne THEN markers \cup {r} ELSE markers
  /\ outcome' = [outcome EXCEPT ![r] = IF key[r.id] = NoOne THEN "first" ELSE "seen"]
  /\ \/ cmd' = [cmd EXCEPT ![r] = outcome'[r]]
     \/ "redis" \in Faults /\ cmd' = [cmd EXCEPT ![r] = "error"]
  /\ place' = [place EXCEPT ![r] = "executed"]
  /\ UNCHANGED <<answer, timer, waiting, running, resends, cancelled>>

\* Mutant: the command's error is not looked at; its value, false, says "seen".
ExecFailsUnnoticed(r) ==
  /\ "redis" \in Faults
  /\ \E b \in running : r \in b
  /\ place[r] = "flush"
  /\ cmd' = [cmd EXCEPT ![r] = "seen"]
  /\ place' = [place EXCEPT ![r] = "executed"]
  /\ UNCHANGED <<redis, answer, timer, waiting, running, resends, cancelled>>

\* The command does not reach Redis.
ExecFails(r) ==
  /\ "redis" \in Faults
  /\ \E b \in running : r \in b
  /\ place[r] = "flush"
  /\ cmd' = [cmd EXCEPT ![r] = "error"]
  /\ place' = [place EXCEPT ![r] = "executed"]
  /\ UNCHANGED <<redis, answer, timer, waiting, running, resends, cancelled>>

ResentInAll == FoldFunction(+, 0, resends)

\* Inside Exec the client sends r's command again: it has no reply to it, or
\* none to a later command of the same pipeline.
SendAgain(r) ==
  /\ "redis" \in Faults
  /\ \E b \in running : r \in b /\ \A s \in b : place[s] # "result"
  /\ place[r] = "executed"
  /\ ResentInAll < MaxResends
  /\ resends' = [resends EXCEPT ![r] = @ + 1]
  /\ place' = [place EXCEPT ![r] = "flush"]
  /\ cmd' = [cmd EXCEPT ![r] = "none"]
  /\ UNCHANGED <<redis, answer, timer, waiting, running, cancelled>>

Executed(b) == \A r \in b : place[r] \in {"executed", "result"}

\* Mutant: a command that failed gets no result.
DeliverDroppingErrors(r) ==
  /\ \E b \in running : r \in b /\ Executed(b)
  /\ place[r] = "executed"
  /\ place' = [place EXCEPT ![r] = IF cmd[r] = "error" THEN "gone" ELSE "result"]
  /\ UNCHANGED <<redis, answer, timer, waiting, running, resends, cmd, cancelled>>

\* After Exec: one result per request, on its own one-place channel.
Deliver(r) ==
  /\ \E b \in running : r \in b /\ Executed(b)
  /\ place[r] = "executed"
  /\ place' = [place EXCEPT ![r] = "result"]
  /\ UNCHANGED <<redis, answer, timer, waiting, running, resends, cmd, cancelled>>

\* flush returns and its slot is free again.
Release(b) ==
  /\ b \in running
  /\ \A r \in b : place[r] = "result"
  /\ running' = running \ {b}
  /\ UNCHANGED <<redis, answer, place, timer, waiting, resends, cmd, cancelled>>

\* Redis drops the key when its TTL ends.
Expire(m) ==
  /\ "expire" \in Faults
  /\ key[m] # NoOne
  /\ key' = [key EXCEPT ![m] = NoOne]
  /\ UNCHANGED <<markers, outcome, answer, place, timer, waiting, running, resends, cmd,
                 cancelled>>

-----------------------------------------------------------------------------
Seen(r)     == Send(r) \/ Receive(r) \/ GiveUpSending(r) \/ GiveUpWaiting(r)
batchLoop   == (\E r \in Requests : Collect(r)) \/ TimeUp
Exec(r)     == ExecSetNX(r) \/ ExecFails(r)

Next ==
  \/ \E r \in Requests : Call(r) \/ Seen(r) \/ Exec(r) \/ SendAgain(r) \/ Deliver(r)
  \/ batchLoop
  \/ \E b \in waiting : Acquire(b)
  \/ \E b \in running : Release(b)
  \/ \E m \in Ids : Expire(m)
  \/ Cancel

Spec == Init /\ [][Next]_vars

\* The goroutines run: the callers, the collector and its timer, the flushes.
\* There are finitely many calls, so it is enough that one of those that can
\* take a step does.  Nothing makes process() call Seen, a key expire, or the
\* context end.
Fairness ==
  /\ WF_vars(\E r \in Requests : Send(r))
  /\ WF_vars(\E r \in Requests : Receive(r))
  /\ WF_vars(\E r \in Requests : Exec(r))
  /\ WF_vars(\E r \in Requests : Deliver(r))
  /\ WF_vars(\E r \in Requests : Collect(r))
  /\ WF_vars(TimeUp)
  /\ WF_vars(\E b \in waiting : Acquire(b))
  /\ WF_vars(\E b \in running : Release(b))

FairSpec == Spec /\ Fairness

-----------------------------------------------------------------------------
TypeOK ==
  /\ key \in [Ids -> Requests \cup {NoOne}]
  /\ markers \subseteq Requests
  /\ outcome \in [Requests -> {"none", "first", "seen"}]
  /\ answer \in [Requests -> {"none", "first", "seen", "error"}]
  /\ place \in [Requests -> Places]
  /\ timer \in {"nil", "armed", "spent"}
  /\ waiting \subseteq SUBSET Requests
  /\ running \subseteq SUBSET Requests
  /\ Cardinality(running) <= BatchConcurrency
  /\ resends \in [Requests -> Nat]
  /\ cmd \in [Requests -> {"none", "first", "seen", "error"}]
  /\ cancelled \in BOOLEAN

\* batchLoop never sits on a batch with no timer to send it: the batch is
\* empty exactly when timerC is nil, across both ways a batch is sent off.
TimerRunsForBatch ==
  IF Batch = {} THEN timer = "nil" ELSE timer = "armed"

\* Each request handed to startFlush is in exactly one flush, so its result
\* channel is written once; every flush has members, at most batchSize of them.
FlushedOnce ==
  /\ waiting \cap running = {}
  /\ \A b \in waiting \cup running : b # {} /\ Cardinality(b) <= BatchSize
  /\ \A r \in Requests :
       /\ place[r] \in {"flush", "executed"}
            => \E b \in waiting \cup running : r \in b
       /\ \A b, c \in waiting \cup running : r \in b /\ r \in c => b = c
       /\ (\E b \in waiting \cup running : r \in b)
            => place[r] \in {"flush", "executed", "result"}

\* From the channel to its result a request is neither left behind in a batch
\* nor flushed twice, whichever way the batch is sent off (dedup.go:261-303).
RequestsKept == TimerRunsForBatch /\ FlushedOnce

\* Seen is an atomic check-and-mark (dedup.go:201-209), made again when its
\* reply is lost, whatever the channel, the batches and the concurrent
\* flushes do with it in between.
Registry == INSTANCE SeenRegistry
              WITH key <- key, markers <- markers, outcome <- outcome, answer <- answer

ImplementsRegistry == Registry!Spec

\* A call is answered "seen" only because its id has been marked: by another
\* call or, if its command was sent again, perhaps by that command itself.
\* Never by a command that did not run, and never by an error.
SeenBecauseMarked ==
  \A r \in Requests :
    answer[r] = "seen"
      => \E s \in markers : s.id = r.id /\ (s # r \/ resends[r] > 0)

\* What the doc comment of Seen (dedup.go:201-206) says of the answer true.
SeenBecauseOfAnother == Registry!SeenBecauseOfAnother

\* Every call is answered, that is, again and again none is waiting: no request
\* is stranded in the channel, in a batch that never fills up, or behind a
\* semaphore, and the client does not send its command again for ever.
EveryCallAnswered ==
  []<>(\A r \in Requests : place[r] # "idle" => answer[r] # "none")
=============================================================================
