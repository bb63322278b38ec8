----------------------------- MODULE Lifecycle ------------------------------
(***************************************************************************)
(* main() of cmd/antiloop from the moment its HTTP server listens to its   *)
(* exit: the order in which the parts come up and go down, and what HTTP   *)
(* requests, connection callbacks, elections, messages and signals meet in *)
(* between.                                                                *)
(*                                                                         *)
(* One message, of which this process may get two copies, from the broker  *)
(* and from an operator's POST /inject, and its peer of the same centre    *)
(* one.  main, the election's goroutine and a callback move the pipeline's *)
(* gate, each in several steps, as in Delivery, which has callbacks that   *)
(* overlap each other and what Publish does with a copy.  A queue may be   *)
(* full and a backlog may expire at any time; the dedup key outlives all   *)
(* this.                                                                   *)
(***************************************************************************)
EXTENDS Naturals

Deliveries == {"relayed", "injected"}
Callers    == {"main", "election", "callback"}

\* Where main is.  "dialling": in NewPublisher; "made": relay.New has returned,
\* with the fields of the pipeline still to be set.
Building == {"listening", "registered", "dialling", "assigned", "made"}
Serving  == {"wired", "running"}
Leaving  == {"stopping", "closed", "unsubscribed"}
Over     == {"exited", "dead"}

\* "burnt": discarded because of its own mark.  "handed": to Publisher.Publish.
Stages == {"none", "unavailable", "gated", "dropped", "processing", "passed", "seen", "burnt",
           "handed"}

\* Between the look at a connection or a role and the effect on the gate.
Acting == {"saw up", "saw down", "opens", "shuts"}

VARIABLES
  pc,          \* where main is
  stop,        \* ctx is cancelled: a signal has arrived
  connected,   \* some publish broker is connected
  primary, pubConnected,  \* Pipeline's, guarded by gateMu
  open,        \* the pipeline's gate is open
  doing,       \* doing[k]: "idle", "asks" for AnyConnected next, or in Acting
  overlapped,  \* history: since a caller last asked alone, two have been Acting at once
  here,        \* here[c]: where copy c is in this process
  peer,        \* where the peer's copy is
  marked,      \* the id is in Redis
  unguarded    \* history: a copy was let through by a lookup that had been cancelled

gating == <<connected, primary, pubConnected, open, doing, overlapped>>
copies == <<here, peer, marked, unguarded>>
vars   == <<pc, stop, gating, copies>>

Init ==
  /\ pc = "listening" /\ stop = FALSE
  /\ connected = FALSE /\ primary = FALSE /\ pubConnected = FALSE /\ open = FALSE
  /\ doing = [k \in Callers |-> "idle"] /\ overlapped = FALSE
  /\ here = [c \in Deliveries |-> "none"]
  /\ peer = "gated" /\ marked = FALSE /\ unguarded = FALSE

Alive == pc \notin Over

-----------------------------------------------------------------------------
(* main, up.                                                               *)

Goes(from, to) ==
  /\ pc = from /\ doing["main"] = "idle" /\ pc' = to
  /\ UNCHANGED <<stop, copies>>

\* Writing the file may fail, which is logged.
Register        == Goes("listening", "registered") /\ UNCHANGED gating
NewPublisher    == Goes("registered", "dialling") /\ UNCHANGED gating
AssignPublisher == Goes("dialling", "assigned") /\ UNCHANGED gating
NewPipeline     == Goes("assigned", "made") /\ UNCHANGED gating

\* The fields; SetPubConnected is next, see Ask.
WirePipeline ==
  /\ Goes("made", "wired")
  /\ doing' = [doing EXCEPT !["main"] = "asks"]
  /\ UNCHANGED <<connected, primary, pubConnected, open, overlapped>>

\* Messages may come as soon as the election runs: NewSubscriber follows.
StartElection == Goes("wired", "running") /\ UNCHANGED gating

-----------------------------------------------------------------------------
(* What meets it.                                                          *)

Signal ==
  /\ Alive /\ ~stop /\ stop' = TRUE
  /\ UNCHANGED <<pc, gating, copies>>

\* The process ends, and with it what is in its memory.
Ends(how) ==
  /\ pc' = how
  /\ stop' = FALSE /\ connected' = FALSE /\ primary' = FALSE /\ pubConnected' = FALSE
  /\ open' = FALSE /\ doing' = [k \in Callers |-> "idle"] /\ overlapped' = FALSE
  /\ UNCHANGED copies

Kill == Alive /\ Ends("dead")

\* A broker is connected, lost or not to be reached, and a callback starts.
ChangeConnection ==
  /\ pc \in {"dialling", "assigned", "made"} \cup Serving \cup {"stopping"}
  /\ doing["callback"] = "idle"
  /\ connected' \in BOOLEAN
  /\ doing' = [doing EXCEPT !["callback"] = "asks"]
  /\ UNCHANGED <<pc, stop, primary, pubConnected, open, overlapped, copies>>

\* The callback asks main's `publisher', which is nil until NewPublisher has
\* returned: the process panics.
Panic ==
  /\ pc = "dialling" /\ doing["callback"] = "asks"
  /\ Ends("dead")

\* Caller k goes on to act.  Alone and with a look of its own at the connections
\* it makes up for what others may have mixed up.
Acts(k, what) ==
  /\ doing' = [doing EXCEPT ![k] = what]
  /\ overlapped' = \/ \E j \in Callers \ {k} : doing[j] \in Acting
                   \/ overlapped /\ k = "election"

\* AnyConnected, for SetPubConnected; a callback has nothing to tell before
\* there is a pipeline.
Ask(k) ==
  /\ Alive /\ pc # "dialling" /\ doing[k] = "asks"
  /\ IF pc = "assigned"
     THEN doing' = [doing EXCEPT ![k] = "idle"] /\ UNCHANGED overlapped
     ELSE Acts(k, IF connected THEN "saw up" ELSE "saw down")
  /\ UNCHANGED <<pc, stop, connected, primary, pubConnected, open, copies>>

Decision(isPrimary, isConnected) == IF isPrimary /\ isConnected THEN "opens" ELSE "shuts"

\* SetPubConnected's critical section.
SetPubConnected(k) ==
  /\ Alive /\ doing[k] \in {"saw up", "saw down"}
  /\ pubConnected' = (doing[k] = "saw up")
  /\ doing' = [doing EXCEPT ![k] = Decision(primary, pubConnected')]
  /\ UNCHANGED <<pc, stop, connected, primary, open, overlapped, copies>>

\* Mutant: the election runs before the pipeline has its fields.
ElectEarly ==
  /\ pc \in {"made", "wired", "running"} /\ ~stop /\ doing["election"] = "idle"
  /\ primary' = ~primary
  /\ Acts("election", Decision(primary', pubConnected))
  /\ UNCHANGED <<pc, stop, connected, pubConnected, open, copies>>

\* The election's onChange: SetPrimary's critical section.  The election stops
\* when it is told to.
Elect ==
  /\ pc = "running" /\ ~stop /\ doing["election"] = "idle"
  /\ primary' = ~primary
  /\ Acts("election", Decision(primary', pubConnected))
  /\ UNCHANGED <<pc, stop, connected, pubConnected, open, copies>>

\* Mutant: opening the gate leaves its backlog where it is.
applyGateStateWithoutDrain(k) ==
  /\ Alive /\ doing[k] \in {"opens", "shuts"}
  /\ open' = (doing[k] = "opens")
  /\ doing' = [doing EXCEPT ![k] = "idle"]
  /\ UNCHANGED <<pc, stop, connected, primary, pubConnected, overlapped, copies>>

\* applyGateState, outside gateMu: Open hands the backlog to process().
applyGateState(k) ==
  /\ Alive /\ doing[k] \in {"opens", "shuts"}
  /\ open' = (doing[k] = "opens")
  /\ here' = [c \in Deliveries |-> IF open' /\ here[c] = "gated" THEN "processing" ELSE here[c]]
  /\ doing' = [doing EXCEPT ![k] = "idle"]
  /\ UNCHANGED <<pc, stop, connected, primary, pubConnected, overlapped, peer, marked, unguarded>>

\* HandleMessage: on to process(), or queued, or refused by a full queue.
Handle(c) ==
  /\ here[c] = "none"
  /\ \E s \in IF open THEN {"processing"} ELSE {"gated", "dropped"} :
       here' = [here EXCEPT ![c] = s]

\* POST /inject: 503 while `pipeline` is nil, 202 afterwards.
Inject ==
  /\ pc \in Building \cup Serving
  /\ IF pc \in Building \ {"made"}
     THEN here["injected"] = "none" /\ here' = [here EXCEPT !["injected"] = "unavailable"]
     ELSE Handle("injected")
  /\ UNCHANGED <<pc, stop, gating, peer, marked, unguarded>>

\* The subscriber's callback, until it is closed.
Receive ==
  /\ pc \in {"running", "stopping", "closed"}
  /\ Handle("relayed")
  /\ UNCHANGED <<pc, stop, gating, peer, marked, unguarded>>

\* A queued copy reaches maxAge.
Expire(c) ==
  /\ Alive /\ here[c] = "gated"
  /\ here' = [here EXCEPT ![c] = "dropped"]
  /\ UNCHANGED <<pc, stop, gating, peer, marked, unguarded>>

-----------------------------------------------------------------------------
(* process().                                                              *)

\* Dedup.Seen, in whichever process: what becomes of the copy.  The client may
\* have to send the SETNX again, which then finds its own mark.
Verdicts == IF marked THEN {"seen"} ELSE {"passed", "burnt"}

\* Mutant: the id is looked up and left unmarked.
LookUpWithoutMark(c) ==
  /\ Alive /\ here[c] = "processing"
  /\ here' = [here EXCEPT ![c] = IF marked THEN "seen" ELSE "passed"]
  /\ UNCHANGED <<pc, stop, gating, peer, marked, unguarded>>

\* An answer or, once ctx is cancelled, perhaps an error, with the command
\* executed or not; an error lets the copy through.
LookUp(c) ==
  /\ Alive /\ here[c] = "processing"
  /\ \/ \E s \in Verdicts : here' = [here EXCEPT ![c] = s]
        /\ marked' = TRUE /\ UNCHANGED unguarded
     \/ /\ stop /\ unguarded' = TRUE
        /\ here' = [here EXCEPT ![c] = "passed"]
        /\ marked' \in {marked, TRUE}
  /\ UNCHANGED <<pc, stop, gating, peer>>

Publish(c) ==
  /\ Alive /\ here[c] = "passed"
  /\ here' = [here EXCEPT ![c] = "handed"]
  /\ UNCHANGED <<pc, stop, gating, peer, marked, unguarded>>

\* The peer is primary, for a while or for good: its copy is processed.
PeerLookUp ==
  /\ peer = "gated"
  /\ peer' \in Verdicts
  /\ marked' = TRUE
  /\ UNCHANGED <<pc, stop, gating, here, unguarded>>

PeerPublish ==
  /\ peer = "passed" /\ peer' = "handed"
  /\ UNCHANGED <<pc, stop, gating, here, marked, unguarded>>

-----------------------------------------------------------------------------
(* main, down.                                                             *)

\* ctx is done: the HTTP server closes its listener and waits for its handlers.
ShutdownServer == stop /\ Goes("running", "stopping") /\ UNCHANGED gating

\* The brokers are disconnected, without a callback: the gate stays as it is.
ClosePublisher ==
  /\ Goes("stopping", "closed")
  /\ connected' = FALSE
  /\ UNCHANGED <<primary, pubConnected, open, doing, overlapped>>

CloseSubscriber == Goes("closed", "unsubscribed") /\ UNCHANGED gating

\* Removing the file may fail.
Deregister == pc = "unsubscribed" /\ doing["main"] = "idle" /\ Ends("exited")

Main ==
  \/ Register \/ NewPublisher \/ AssignPublisher \/ NewPipeline \/ WirePipeline
  \/ StartElection
  \/ ShutdownServer \/ ClosePublisher \/ CloseSubscriber \/ Deregister

\* The way of caller k from its look to the gate.
Moves(k) == Ask(k) \/ SetPubConnected(k) \/ applyGateState(k)

Processing == \E c \in Deliveries : LookUp(c) \/ Publish(c)

Next ==
  \/ Main \/ Signal \/ Kill
  \/ ChangeConnection \/ Panic \/ Elect \/ \E k \in Callers : Moves(k)
  \/ Inject \/ Receive \/ \E c \in Deliveries : Expire(c)
  \/ Processing \/ PeerLookUp \/ PeerPublish

\* The goroutines run; nothing waits for long: Shutdown is bounded by 5 seconds.
Fairness ==
  /\ WF_vars(Main) /\ \A k \in Callers : WF_vars(Moves(k))
  /\ WF_vars(Processing) /\ WF_vars(PeerPublish)

Spec == Init /\ [][Next]_vars /\ Fairness

-----------------------------------------------------------------------------

TypeOK ==
  /\ pc \in Building \cup Serving \cup Leaving \cup Over
  /\ {stop, connected, primary, pubConnected, open, overlapped, marked, unguarded}
       \subseteq BOOLEAN
  /\ doing \in [Callers -> {"idle", "asks"} \cup Acting]
  /\ here \in [Deliveries -> Stages]
  /\ peer \in {"gated", "passed", "seen", "burnt", "handed"}

\* Who hands the message to a Publisher.
Handed == {c \in Deliveries : here[c] = "handed"} \cup {k \in {"peer"} : peer = "handed"}

\* No message gets as far as the checks, dedup or the publisher before all the
\* fields of the pipeline are set, although /inject can hand one over as soon
\* as the pipeline exists and connections call back before it does.
WiredBeforeUse ==
  pc \in Building =>
    \A c \in Deliveries : here[c] \in {"none", "unavailable", "gated", "dropped"}

\* Whatever copies this process and its peer get, and however the roles change
\* hands, the message is published once; a second time only if this process
\* let a copy through on a lookup that its own shutdown had cancelled.
TwiceOnlyUnguarded ==
  \A x, y \in Handed : x = y \/ unguarded

Burnt == peer = "burnt" \/ \E c \in Deliveries : here[c] = "burnt"

\* What /inject has answered 202 "queued" to, however early, is handed to the
\* publisher if the process goes on, as primary and with a broker, for good,
\* and the gate was not left shut by two callers that overlapped; unless it
\* reaches maxAge or its id is burnt by a lost reply.
AcceptedThenHandedOver ==
  <>[](pc = "running" /\ ~stop /\ primary /\ connected /\ ~overlapped)
    => \A c \in Deliveries : (here[c] = "gated" ~> here[c] = "dropped" \/ Burnt \/ Handed # {})
=============================================================================
