----------------------------- MODULE MCInstance -----------------------------
(***************************************************************************)
(* Five parts of an instance that share no state with each other: one of   *)
(* them, `part', is looked at in each behaviour while the others stay as   *)
(* they are.  Checks is extended, the others have a letter before names.   *)
(***************************************************************************)
EXTENDS Checks, Sequences, FiniteSets

CONSTANTS Processes, Hosts   \* sets of two

VARIABLES
  part,
  url, redis, cached, loaded, step, crashes,
  up, role, record, command, read, calm,
  pc, stop, connected, primary, pubConnected, open, doing, overlapped,
  here, peer, marked, unguarded,
  static, topicStatic, file, at, next, dynamic, topicDynamic, applied, logger, edits

\* Messages: every topic with payloads and options to match, and every payload
\* and choice of options with a few topics.
Good == [json |-> TRUE, id |-> TRUE, rel |-> TRUE, valid |-> TRUE, registered |-> TRUE]
Data == [origin |-> "origin", centre |-> "plain", kind |-> "data", class |-> "core",
         experimental |-> FALSE, listed |-> TRUE]
All(choice) ==
  [topic |-> choice, msg |-> choice, metadata |-> choice, strip |-> FALSE, broker |-> FALSE]

MCCases ==
  [topic : Topics, payload : {Good, [Good EXCEPT !.registered = FALSE]},
   options : {All("discard"), All("verify")}]
  \cup
  {c \in [topic : {Data, [Data EXCEPT !.listed = FALSE], [Data EXCEPT !.origin = "cache"]},
          payload : Payloads, options : Options] :
     /\ c.payload.json \/ ~(c.payload.id \/ c.payload.rel)
     /\ c.payload.id \/ ~c.payload.valid
     /\ c.options.strip => c.payload.valid /\ c.options.topic = "verify"
     /\ c.options.broker => ~c.payload.rel /\ c.options.topic = "no"}

\* What may be asked to be logged.
UpTo(n, levels) == UNION {[1..k -> levels] : k \in 1..n}
File(words, topics) == [words |-> words, topics |-> topics]

MCLines ==
  {File(w, {}) : w \in SUBSET {"all", "paho", "dedup"}}
  \cup {File({}, {f}) : f \in UpTo(3, {"a", "+", "#"})}

MCContents ==
  {File({}, {}), File({"all"}, {}), File({"paho", "checks"}, {}),
   File({"dedup"}, {<<"a", "#">>}), File({}, {<<"+", "b">>})}

S == INSTANCE SchemaCache WITH MaxCrashes <- 2
A == INSTANCE RoleAudit WITH FreshWindow <- 4, MaxAge <- 5, Patience <- 6
L == INSTANCE Lifecycle
D == INSTANCE DebugFlags WITH CommandLines <- MCLines, Contents <- MCContents,
                              LoggedTopics <- UpTo(3, {"a", "b"}), MaxEdits <- 2

ASSUME InstanceAssumption ==
  /\ ChecksAssumption /\ S!SchemaCacheAssumption
  /\ A!RoleAuditAssumption /\ D!DebugFlagsAssumption

Parts == {"checks", "schemas", "audit", "lifecycle", "debug"}

checks    == <<case, ready, stage, without, claimed, events>>
schemas   == <<url, redis, cached, loaded, step, crashes>>
audit     == <<up, role, record, command, read, calm>>
lifecycle == <<pc, stop, connected, primary, pubConnected, open, doing, overlapped,
               here, peer, marked, unguarded>>
debug     == <<static, topicStatic, file, at, next, dynamic, topicDynamic, applied, logger, edits>>
all       == <<part, checks, schemas, audit, lifecycle, debug>>

\* Where the parts that are not looked at stay.
Rest ==
  /\ part # "checks" =>
       /\ case = [topic |-> Data, payload |-> Good, options |-> All("verify")] /\ ready = TRUE
  /\ part # "schemas" => url = [s \in S!Schemas |-> "good"]
  /\ part # "debug" => static = {} /\ topicStatic = {} /\ file = D!Empty

MCInit ==
  /\ part \in Parts /\ Rest
  /\ Init /\ S!Init /\ A!Init /\ L!Init /\ D!Init

Looking(name) == part = name /\ UNCHANGED part

InSchemas(Step)   == Looking("schemas") /\ Step /\ UNCHANGED <<checks, audit, lifecycle, debug>>
InLifecycle(Step) == Looking("lifecycle") /\ Step /\ UNCHANGED <<checks, schemas, audit, debug>>
InDebug(Step)     == Looking("debug") /\ Step /\ UNCHANGED <<checks, schemas, audit, lifecycle>>

Checks    == Looking("checks") /\ Next /\ UNCHANGED <<schemas, audit, lifecycle, debug>>
Audit     == Looking("audit") /\ A!Next /\ UNCHANGED <<checks, schemas, lifecycle, debug>>
Schemas   == InSchemas(S!Next)
Lifecycle == InLifecycle(L!Next)
Debug     == InDebug(D!Next)

MCNext == Checks \/ Schemas \/ Audit \/ Lifecycle \/ Debug

\* The fairness of S, L and D.
Fairness ==
  /\ \A i \in Processes : WF_all(InSchemas(S!Refreshes(i)))
  /\ WF_all(InLifecycle(L!Main))
  /\ \A k \in L!Callers : WF_all(InLifecycle(L!Moves(k)))
  /\ WF_all(InLifecycle(L!Processing))
  /\ WF_all(InLifecycle(L!PeerPublish))
  /\ WF_all(InDebug(D!Reload))

MCSpec == MCInit /\ [][MCNext]_all /\ Fairness

\* Types.
TypesOK ==
  /\ part \in Parts
  /\ TypeOK /\ S!TypeOK /\ A!TypeOK /\ L!TypeOK /\ D!TypeOK

SchemasArriveAndStay ==
  S!KeptUntilRestart /\ (part = "schemas" => S!SchemasArrive)
AuditHealed        == A!AuditHealed
WiredBeforeUse     == L!WiredBeforeUse
TwiceOnlyUnguarded == L!TwiceOnlyUnguarded
AcceptedThenHandedOver == part = "lifecycle" => L!AcceptedThenHandedOver
LoggingFollowsFile == part = "debug" => D!LoggingFollowsFile
=============================================================================
