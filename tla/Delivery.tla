------------------------------ MODULE Delivery ------------------------------
(***************************************************************************)
(* One instance from its gate to its brokers: the two conditions that open *)
(* the pipeline's gate (primary, and a publish broker connected), the      *)
(* Publisher behind it with a gate of its own, and the goroutines that     *)
(* move both gates.                                                        *)
(*                                                                         *)
(* The MQTT library keeps one connection per broker and starts a goroutine *)
(* for the callback of every connect and every loss, so callbacks may      *)
(* overlap, and run in another order than what they report; each one asks  *)
(* AnyConnected when it runs.  A publish to a broker that is down returns  *)
(* an error.                                                               *)
(*                                                                         *)
(* Time is left out (Gate has it): MaxAge is 0 here, in both gates.  The   *)
(* checks and dedup that process() runs before Publish are in Failover.    *)
(***************************************************************************)
EXTENDS GateOps

CONSTANTS
  Targets,      \* number of publish targets
  Msgs,         \* messages that reach HandleMessage
  MaxCallbacks  \* bound: callbacks that run at once

ASSUME DeliveryAssumption ==
  /\ MaxAge = 0
  /\ Targets \in Nat \ {0}
  /\ MaxCallbacks \in Nat

\* The publish targets, in the order of Publisher.clients.
Brokers == 1..Targets

\* Goroutines that move the gates: main, the election client, and the
\* callbacks of connects and losses.
Main      == 0
Callbacks == 1..MaxCallbacks
Elector   == MaxCallbacks + 1
Callers   == {Main, Elector} \cup Callbacks

VARIABLES
  wired,         \* main's `pipeline` is not nil any more
  up,            \* up[b]: IsConnectionOpen
  isPrimary, pubConnected,  \* Pipeline's, guarded by gateMu
  pipeGate,      \* Pipeline.gate
  pubGate,       \* Publisher.gate
  pc,            \* pc[k]: what goroutine k does next
  saw,           \* saw[k]: the connectivity it saw, then what it decided
  drain,         \* drain[k]: what its pubGate.Open has yet to forward
  stage,         \* stage[m]: how far message m has come
  next,          \* next[m]: the client publishNow tries next, or 1
  reached,       \* reached[m]: delivered > 0, while in publishNow
  overlapped     \* history: two goroutines were between look and effect at once

callers  == <<pc, saw, drain>>
messages == <<stage, next, reached>>
vars == <<wired, up, isPrimary, pubConnected, pipeGate, pubGate, callers, messages, overlapped>>

\* "refused" by a full gate; "queued" in pipeGate; "dispatched" to process(); "holding": Publish saw no
\* broker; "held" in pubGate; "fanning": in publishNow.
Final  == {"delivered", "failed", "refused"}
Stages == {"none", "queued", "dispatched", "holding", "held", "fanning"} \cup Final

AnyConnected == \E b \in Brokers : up[b]

Init ==
  /\ wired = FALSE
  /\ up = [b \in Brokers |-> FALSE]
  /\ isPrimary = FALSE /\ pubConnected = FALSE
  /\ pipeGate = NewGate /\ pubGate = NewGate
  /\ pc = [k \in Callers |-> "idle"]
  /\ saw = [k \in Callers |-> FALSE]
  /\ drain = [k \in Callers |-> <<>>]
  /\ stage = [m \in Msgs |-> "none"]
  /\ next = [m \in Msgs |-> 1]
  /\ reached = [m \in Msgs |-> FALSE]
  /\ overlapped = FALSE

-----------------------------------------------------------------------------
(* The goroutines that move the gates *)

\* Between the look at a connection or a role and the effect on a gate.
Acting == {"setting", "applying", "gating"}

\* Goroutine k goes on to step s, having seen or decided v.
GoesOn(k, s, v) ==
  /\ pc' = [pc EXCEPT ![k] = s]
  /\ saw' = [saw EXCEPT ![k] = v]
  /\ overlapped' = (overlapped \/ (s \in Acting /\ \E j \in Callers \ {k} : pc[j] \in Acting))

\* The library connects or loses broker b and starts a callback.
ChangeConnection(b) ==
  \E k \in Callbacks :
    /\ pc[k] = "idle" /\ \A j \in Callbacks : j < k => pc[j] # "idle"
    /\ up' = [up EXCEPT ![b] = ~@]
    /\ GoesOn(k, "noticing", FALSE)
    /\ UNCHANGED <<wired, isPrimary, pubConnected, pipeGate, pubGate, drain, messages>>

\* Mutant: main leaves it to the callbacks to report connectivity.
WireWithoutInitialState ==
  /\ pc[Main] = "idle"
  /\ wired' = TRUE
  /\ GoesOn(Main, "done", FALSE)
  /\ UNCHANGED <<up, isPrimary, pubConnected, pipeGate, pubGate, drain, messages>>

\* main assigns `pipeline` and goes on to report what it may have missed.
Wire ==
  /\ pc[Main] = "idle"
  /\ wired' = TRUE
  /\ GoesOn(Main, "noticing", FALSE)
  /\ UNCHANGED <<up, isPrimary, pubConnected, pipeGate, pubGate, drain, messages>>

\* main's onState closure: nothing to tell before there is a pipeline.
Notice(k) ==
  /\ pc[k] = "noticing"
  /\ GoesOn(k, IF wired THEN "setting" ELSE "checking", AnyConnected)
  /\ UNCHANGED <<wired, up, isPrimary, pubConnected, pipeGate, pubGate, drain, messages>>

\* SetPubConnected's critical section.
SetPubConnected(k) ==
  /\ pc[k] = "setting"
  /\ pubConnected' = saw[k]
  /\ GoesOn(k, "applying", isPrimary /\ saw[k])
  /\ UNCHANGED <<wired, up, isPrimary, pipeGate, pubGate, drain, messages>>

\* Mutant: SetPrimary looks at the role alone.
SetPrimaryAlone(primary) ==
  /\ pc[Elector] = "idle" /\ pc[Main] = "done"
  /\ primary # isPrimary
  /\ isPrimary' = primary
  /\ GoesOn(Elector, "applying", primary)
  /\ UNCHANGED <<wired, up, pubConnected, pipeGate, pubGate, drain, messages>>

\* SetPrimary's critical section: the election's onChange, once main has
\* started the election client.
SetPrimary(primary) ==
  /\ pc[Elector] = "idle" /\ pc[Main] = "done"
  /\ primary # isPrimary
  /\ isPrimary' = primary
  /\ GoesOn(Elector, "applying", primary /\ pubConnected)
  /\ UNCHANGED <<wired, up, pubConnected, pipeGate, pubGate, drain, messages>>

\* What goroutine k does after applyGateState.
AfterApply(k) ==
  IF k = Elector THEN "idle" ELSE IF k = Main THEN "done" ELSE "checking"

\* applyGateState, outside gateMu; the gate's forward only spawns process().
applyGateState(k) ==
  /\ pc[k] = "applying"
  /\ IF saw[k]
       THEN /\ pipeGate' = Opened(pipeGate)
            /\ stage' = [m \in Msgs |-> IF m \in Messages(pipeGate.queue)
                                          THEN "dispatched" ELSE stage[m]]
       ELSE /\ pipeGate' = Queued(pipeGate)
            /\ UNCHANGED stage
  /\ GoesOn(k, AfterApply(k), FALSE)
  /\ UNCHANGED <<wired, up, isPrimary, pubConnected, pubGate, drain, next, reached>>

\* NewPublisher's own callback asks again.
Check(k) ==
  /\ pc[k] = "checking"
  /\ GoesOn(k, "gating", AnyConnected)
  /\ UNCHANGED <<wired, up, isPrimary, pubConnected, pipeGate, pubGate, drain, messages>>

\* p.gate.Open or p.gate.Queue.
MovePubGate(k) ==
  /\ pc[k] = "gating"
  /\ pubGate' = IF saw[k] THEN Opened(pubGate) ELSE Queued(pubGate)
  /\ drain' = [drain EXCEPT ![k] = IF saw[k] THEN Backlog(pubGate, 0) ELSE <<>>]
  /\ GoesOn(k, IF drain'[k] = <<>> THEN "idle" ELSE "draining", FALSE)
  /\ UNCHANGED <<wired, up, isPrimary, pubConnected, pipeGate, messages>>

\* Open's loop: drainOne publishes one message and returns, then the next.
DrainOne(k) ==
  LET m == Head(drain[k])
  IN  /\ pc[k] = "draining"
      /\ \/ /\ stage[m] = "held"
            /\ stage' = [stage EXCEPT ![m] = "fanning"]
            /\ UNCHANGED <<drain, pc>>
         \/ /\ stage[m] \in Final
            /\ drain' = [drain EXCEPT ![k] = Tail(@)]
            /\ pc' = [pc EXCEPT ![k] = IF Len(drain[k]) = 1 THEN "idle" ELSE @]
            /\ UNCHANGED stage
      /\ UNCHANGED <<wired, up, isPrimary, pubConnected, pipeGate, pubGate, saw, next, reached,
                     overlapped>>

-----------------------------------------------------------------------------
(* The messages *)

controls == <<wired, up, isPrimary, pubConnected, callers, overlapped>>

\* HandleMessage.
HandleMessage(m) ==
  /\ stage[m] = "none"
  /\ \/ /\ pipeGate.state = Open
        /\ stage' = [stage EXCEPT ![m] = "dispatched"]
        /\ UNCHANGED pipeGate
     \/ /\ pipeGate.state = Queueing /\ ~IsFull(pipeGate, 0)
        /\ stage' = [stage EXCEPT ![m] = "queued"]
        /\ pipeGate' = Enqueued(pipeGate, m, 0)
     \/ /\ pipeGate.state = Queueing /\ IsFull(pipeGate, 0)
        /\ stage' = [stage EXCEPT ![m] = "refused"]
        /\ UNCHANGED pipeGate
  /\ UNCHANGED <<controls, pubGate, next, reached>>

\* Publish asks whether any broker is connected.
Publish(m) ==
  /\ stage[m] = "dispatched"
  /\ stage' = [stage EXCEPT ![m] = IF AnyConnected THEN "fanning" ELSE "holding"]
  /\ UNCHANGED <<controls, pipeGate, pubGate, next, reached>>

\* Publish hands the request to pubGate, open or not by now; whichever it
\* is, ErrQueued is what it returns.
Hold(m) ==
  /\ stage[m] = "holding"
  /\ \/ /\ pubGate.state = Open
        /\ stage' = [stage EXCEPT ![m] = "fanning"]
        /\ UNCHANGED pubGate
     \/ /\ pubGate.state = Queueing /\ ~IsFull(pubGate, 0)
        /\ stage' = [stage EXCEPT ![m] = "held"]
        /\ pubGate' = Enqueued(pubGate, m, 0)
     \/ /\ pubGate.state = Queueing /\ IsFull(pubGate, 0)
        /\ stage' = [stage EXCEPT ![m] = "refused"]
        /\ UNCHANGED pubGate
  /\ UNCHANGED <<controls, pipeGate, next, reached>>

\* publishNow: one client after the other; delivered if any of them took it.
publishNow(m) ==
  LET took == reached[m] \/ up[next[m]]
  IN  /\ stage[m] = "fanning"
      /\ IF next[m] < Targets
           THEN /\ next' = [next EXCEPT ![m] = @ + 1]
                /\ reached' = [reached EXCEPT ![m] = took]
                /\ UNCHANGED stage
           ELSE /\ next' = [next EXCEPT ![m] = 1]
                /\ reached' = [reached EXCEPT ![m] = FALSE]
                /\ stage' = [stage EXCEPT ![m] = IF took THEN "delivered" ELSE "failed"]
      /\ UNCHANGED <<controls, pipeGate, pubGate>>

-----------------------------------------------------------------------------
Run(k) ==
  Notice(k) \/ SetPubConnected(k) \/ applyGateState(k) \/ Check(k) \/ MovePubGate(k) \/ DrainOne(k)

process(m) == Publish(m) \/ Hold(m) \/ publishNow(m)

Next ==
  \/ \E b \in Brokers : ChangeConnection(b)
  \/ Wire
  \/ \E primary \in BOOLEAN : SetPrimary(primary)
  \/ \E k \in Callers : Run(k)
  \/ \E m \in Msgs : HandleMessage(m) \/ process(m)

Spec == Init /\ [][Next]_vars

\* Every goroutine runs; a message takes finitely many steps, so it is enough
\* that one that can does.  Nothing makes a message arrive, a role change, or
\* a connection come or go.
Fairness ==
  /\ WF_vars(Wire)
  /\ \A k \in Callers : WF_vars(Run(k))
  /\ WF_vars(\E m \in Msgs : process(m))

FairSpec == Spec /\ Fairness

-----------------------------------------------------------------------------
TypeOK ==
  /\ {wired, isPrimary, pubConnected, overlapped} \subseteq BOOLEAN
  /\ up \in [Brokers -> BOOLEAN]
  /\ {pipeGate.state, pubGate.state} \subseteq {Queueing, Open}
  /\ \A g \in {pipeGate, pubGate} : Len(g.queue) <= MaxLen /\ Messages(g.queue) \subseteq Msgs
  /\ pc \in [Callers -> {"idle", "noticing", "checking", "draining", "done"} \cup Acting]
  /\ saw \in [Callers -> BOOLEAN]
  /\ drain \in [Callers -> Seq(Msgs)]
  /\ stage \in [Msgs -> Stages]
  /\ next \in [Msgs -> Brokers]
  /\ reached \in [Msgs -> BOOLEAN]

InQueue(g, m) == Cardinality({i \in DOMAIN g.queue : g.queue[i].msg = m})

\* The places of m in what the goroutines have yet to forward.
InBacklogs(m) == UNION {{k} \X {i \in DOMAIN drain[k] : drain[k][i] = m} : k \in Callers}

\* However the goroutines overlap, a message is in the hands of one of them,
\* so no broker gets it twice from this instance: it waits in the pipeline's
\* gate exactly as long as it is queued there, and, while it is held, in the
\* publisher's gate or in the backlog of one Open, once.
InOnePlace ==
  /\ TypeOK
  /\ \A m \in Msgs :
       /\ InQueue(pipeGate, m) = IF stage[m] = "queued" THEN 1 ELSE 0
       /\ stage[m] = "held" => 1 = InQueue(pubGate, m) + Cardinality(InBacklogs(m))
       /\ stage[m] # "held" => InQueue(pubGate, m) = 0

Quiet == \A k \in Callers : pc[k] \in {"idle", "draining", "done"}

\* Once every callback has run, and unless two of them overlapped, both
\* gates are where the role and the connections say (pipeline.go:196-197,
\* mqttbroker.go:456-460), also for what happened before main had wired the
\* pipeline up.
GatesFollow ==
  Quiet /\ ~overlapped
    => /\ pipeGate.state = Open <=> isPrimary /\ AnyConnected
       /\ pubGate.state = Open <=> AnyConnected

\* An instance that ends up primary and connected strands nothing, in either
\* queue, again unless two goroutines overlapped: in the end every message
\* that arrived has been settled.
NothingLeftWaiting ==
  <>[](isPrimary /\ AnyConnected) /\ []~overlapped
    => <>[](\A m \in Msgs : stage[m] \in {"none"} \cup Final)

\* The struct comment (pipeline.go:196-197): "the gate is Open only when
\* BOTH are true, Queueing otherwise".  The decision is taken under gateMu
\* and applied outside it, so an older decision may be applied last.
OpenOnlyWhenBoth ==
  Quiet => (pipeGate.state = Open <=> isPrimary /\ pubConnected)
=============================================================================
