------------------------------- MODULE Checks -------------------------------
(***************************************************************************)
(* What Pipeline.process decides: internal/relay with internal/topics,     *)
(* internal/monitor and the lookups of internal/wnm and internal/allowlist.*)
(*                                                                         *)
(* Several copies of one message arrive, as the brokers of WIS2 relay it;  *)
(* each is processed in a goroutine of its own, check by check, down to    *)
(* dedup and the publisher.  The schemas may arrive in the middle of it.   *)
(*                                                                         *)
(* A topic is what the checks tell apart: its levels 0, 3, 4 and 5, whether*)
(* levels 6 and 7 are a discipline and "experimental", whether the hash of *)
(* its tail is in the topic registry.  A payload is whether it is JSON, has*)
(* an id, has exactly one canonical, update or deletion link, conforms to  *)
(* its schema, and is registered in the GDC.                               *)
(*                                                                         *)
(* Dedup has what Redis may do to a lookup; here it answers the first one. *)
(***************************************************************************)
EXTENDS Naturals

CONSTANTS
  Cases,   \* the [topic, payload, options] to look at
  Copies   \* the copies of the message

Choices == {"no", "verify", "discard"}

Topics ==
  [origin : {"origin", "cache", "monitor"},
   centre : {"plain", "gts", "monitor"},   \* -gts-to-wis2, or named for monitoring
   kind : {"data", "metadata", "other"},
   class : {"core", "recommended", "other", "empty"},
   experimental : BOOLEAN, listed : BOOLEAN]

Payloads ==
  [json : BOOLEAN, id : BOOLEAN, rel : BOOLEAN, valid : BOOLEAN, registered : BOOLEAN]

\* broker: the instance serves another Global Broker, CENTRE_ID *-global-broker.
Options ==
  [topic : Choices, msg : Choices, metadata : Choices, strip : BOOLEAN, broker : BOOLEAN]

ChecksAssumption ==
  /\ Cases \subseteq [topic : Topics, payload : Payloads, options : Options]
  /\ \A c \in Cases :
       /\ ~c.payload.json => ~c.payload.id /\ ~c.payload.rel
       /\ ~c.payload.id => ~c.payload.valid

VARIABLES
  case,      \* the message and the options; never changes
  ready,     \* the validator has its schemas
  stage,     \* stage[c]: where copy c is, or how it ended
  without,   \* history: the copies that met the validator before its schemas
  claimed,   \* the id is in Redis
  events     \* events[c]: the monitoring events copy c has given rise to

vars == <<case, ready, stage, without, claimed, events>>

t == case.topic
p == case.payload
o == case.options

Steps == {"topic", "rel", "schema", "metadata", "dedup", "publish"}
Ends  == {"discarded", "seen", "published", "published bare"}
Events == {"topic", "bad rel", "not JSON", "no id", "schema", "metadata"}

Init ==
  /\ case \in Cases /\ ready \in BOOLEAN
  /\ stage = [c \in Copies |-> "topic"]
  /\ without = {} /\ claimed = FALSE
  /\ events = [c \in Copies |-> {}]

-----------------------------------------------------------------------------
(* The decisions.                                                          *)

\* strings.Contains(topic, "monitor")
Mentions(topic) == topic.origin = "monitor" \/ topic.centre = "monitor"
Enabled(option) == option \in {"verify", "discard"}

\* topics.Check.  A topic of monitoring is allowed when it stops before level 5.
Allow(topic) ==
  IF topic.origin = "monitor" THEN topic.class = "empty"
  ELSE \/ topic.experimental
       \/ /\ ~(topic.origin = "cache" /\ topic.class = "recommended")
          /\ \/ topic.centre = "gts"
             \/ topic.kind = "metadata"
             \/ topic.kind = "data" /\ topic.class \in {"core", "recommended"} /\ topic.listed

IsData(topic) == topic.kind = "data"      \* DataTopicOf

NeedsRelCheck(topic) == ~Mentions(topic) /\ ~o.broker /\ topic.origin # "cache"

HasValidRel == p.json /\ p.rel

\* Validate, which also fails without a schema and on what is not JSON.
Conforms == ready /\ p.json /\ p.valid

ClassifySchemaError ==
  CASE ~p.json -> "not JSON"
    [] p.json /\ ~p.id -> "no id"
    [] p.id /\ NeedsRelCheck(t) /\ ~HasValidRel -> "bad rel"
    [] OTHER -> "schema"

\* Reporter.report says nothing about messages that concern monitoring.
Report(c, event) == events' = [events EXCEPT ![c] = IF Mentions(t) THEN @ ELSE @ \cup {event}]
Goto(c, s) == stage' = [stage EXCEPT ![c] = s]

-----------------------------------------------------------------------------
(* process(m), one action for each of its numbered steps.                  *)

CheckTopic(c) ==
  /\ stage[c] = "topic"
  /\ IF ~Enabled(o.topic) \/ Allow(t)
     THEN Goto(c, "rel") /\ UNCHANGED events
     ELSE /\ Report(c, "topic")
          /\ Goto(c, IF o.topic = "discard" THEN "discarded" ELSE "rel")
  /\ UNCHANGED <<case, ready, without, claimed>>

\* Mutant: bad links pass under "verify", like everything else.
CheckRelUnderVerify(c) ==
  /\ stage[c] = "rel"
  /\ IF Enabled(o.msg) /\ NeedsRelCheck(t) /\ ~HasValidRel
     THEN /\ Report(c, "bad rel")
          /\ Goto(c, IF o.msg = "discard" THEN "discarded" ELSE "schema")
     ELSE Goto(c, "schema") /\ UNCHANGED events
  /\ UNCHANGED <<case, ready, without, claimed>>

\* Fails for good, whatever MSG_CHECK_OPTION says, unless it is off.
CheckRel(c) ==
  /\ stage[c] = "rel"
  /\ IF Enabled(o.msg) /\ NeedsRelCheck(t) /\ ~HasValidRel
     THEN Report(c, "bad rel") /\ Goto(c, "discarded")
     ELSE Goto(c, "schema") /\ UNCHANGED events
  /\ UNCHANGED <<case, ready, without, claimed>>

\* Mutant: a copy refused for its schema is remembered, to validate no other.
CheckSchemaMarking(c) ==
  /\ stage[c] = "schema"
  /\ without' = IF ready THEN without ELSE without \cup {c}
  /\ IF ~Enabled(o.msg) \/ Conforms
     THEN Goto(c, "metadata") /\ UNCHANGED events
     ELSE /\ Report(c, ClassifySchemaError)
          /\ Goto(c, IF o.msg = "discard" THEN "discarded" ELSE "metadata")
  /\ claimed' = (claimed \/ (p.id /\ o.msg = "discard" /\ ~Conforms))
  /\ UNCHANGED <<case, ready>>

CheckSchema(c) ==
  /\ stage[c] = "schema"
  /\ without' = IF ready THEN without ELSE without \cup {c}
  /\ IF ~Enabled(o.msg) \/ Conforms
     THEN Goto(c, "metadata") /\ UNCHANGED events
     ELSE /\ Report(c, ClassifySchemaError)
          /\ Goto(c, IF o.msg = "discard" THEN "discarded" ELSE "metadata")
  /\ UNCHANGED <<case, ready, claimed>>

\* Mutant, the metadata check as it was: on the topic that Check computed, which it
\* does neither when TOPIC_CHECK_OPTION is off nor for an exempted topic.
CheckMetadataOnChecked(c) ==
  /\ stage[c] = "metadata"
  /\ IF \/ ~Enabled(o.metadata) \/ ~IsData(t) \/ p.registered
        \/ ~Enabled(o.topic) \/ t.experimental
     THEN Goto(c, "dedup") /\ UNCHANGED events
     ELSE /\ Report(c, "metadata")
          /\ Goto(c, IF o.metadata = "discard" THEN "discarded" ELSE "dedup")
  /\ UNCHANGED <<case, ready, without, claimed>>

CheckMetadata(c) ==
  /\ stage[c] = "metadata"
  /\ IF ~Enabled(o.metadata) \/ ~IsData(t) \/ p.registered
     THEN Goto(c, "dedup") /\ UNCHANGED events
     ELSE /\ Report(c, "metadata")
          /\ Goto(c, IF o.metadata = "discard" THEN "discarded" ELSE "dedup")
  /\ UNCHANGED <<case, ready, without, claimed>>

\* A message without id is never looked up.
Dedup(c) ==
  /\ stage[c] = "dedup"
  /\ Goto(c, IF p.id /\ claimed THEN "seen" ELSE "publish")
  /\ claimed' = (claimed \/ p.id)
  /\ UNCHANGED <<case, ready, without, events>>

\* Content is only stripped from what is JSON; anything else goes out as it came.
stripPropertiesContent == o.strip /\ p.json

Publish(c) ==
  /\ stage[c] = "publish"
  /\ Goto(c, IF stripPropertiesContent THEN "published bare" ELSE "published")
  /\ UNCHANGED <<case, ready, without, claimed, events>>

\* The validator's first successful Refresh.
Load ==
  /\ ~ready /\ ready' = TRUE
  /\ UNCHANGED <<case, stage, without, claimed, events>>

Next ==
  \/ Load
  \/ \E c \in Copies :
       \/ CheckTopic(c) \/ CheckRel(c) \/ CheckSchema(c) \/ CheckMetadata(c)
       \/ Dedup(c) \/ Publish(c)

Spec == Init /\ [][Next]_vars

-----------------------------------------------------------------------------
(* What a copy deserves, said of the message and not of the order of steps.*)

Rank == [topic |-> 1, rel |-> 2, schema |-> 3, metadata |-> 4]
Checked == DOMAIN Rank

Fails(c) ==
  {k \in Checked :
     CASE k = "topic"    -> Enabled(o.topic) /\ ~Allow(t)
       [] k = "rel"      -> Enabled(o.msg) /\ NeedsRelCheck(t) /\ ~p.rel
       [] k = "schema"   -> Enabled(o.msg) /\ (c \in without \/ ~p.valid)
       [] k = "metadata" -> Enabled(o.metadata) /\ IsData(t) /\ ~p.registered}

\* Bad links are fatal whatever the options say.
Fatal(c) ==
  {k \in Fails(c) :
     CASE k = "topic"    -> o.topic = "discard"
       [] k = "rel"      -> TRUE
       [] k = "schema"   -> o.msg = "discard"
       [] k = "metadata" -> o.metadata = "discard"}

Reached(c) == {k \in Checked : \A f \in Fatal(c) : Rank[k] <= Rank[f]}

EventOf(k) ==
  CASE k = "rel" -> "bad rel"
    [] k = "schema" -> IF ~p.json THEN "not JSON" ELSE IF ~p.id THEN "no id" ELSE "schema"
    [] OTHER -> k

Ended(c) == stage[c] \in Ends
Through(c) == stage[c] \in {"publish", "published", "published bare"}

TypeOK ==
  /\ case \in Cases /\ ready \in BOOLEAN /\ claimed \in BOOLEAN
  /\ stage \in [Copies -> Steps \cup Ends]
  /\ without \subseteq Copies
  /\ events \in [Copies -> SUBSET Events]

\* A copy is discarded if and only if some check that is set to discard, or the
\* link check, fails: whatever the other options are, and whichever came first.
VerdictRight ==
  \A c \in Copies : Ended(c) => (stage[c] = "discarded" <=> Fatal(c) # {})

\* Of the copies of a message with an id, only one gets past dedup, and a copy
\* is refused as seen only if another did: an id is never burnt by a copy that
\* the checks discard, so one that arrives when the schemas are there still can
\* (by a lost reply it may be: see Dedup).
NothingBurnt ==
  /\ p.id => \A c, d \in Copies : Through(c) /\ Through(d) => c = d
  /\ \A c \in Copies : stage[c] = "seen" => \E d \in Copies : Through(d)

\* The centre hears of every check the copy failed up to the one that stopped
\* it, of nothing else, and of nothing that is itself about monitoring.
FailuresReported ==
  \A c \in Copies : Ended(c) =>
    events[c] = IF Mentions(t) THEN {} ELSE {EventOf(k) : k \in Fails(c) \cap Reached(c)}
=============================================================================
