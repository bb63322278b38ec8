--------------------------- MODULE InstanceProofs ---------------------------
(***************************************************************************)
(* An inductive invariant for each of the five parts that MCInstance puts  *)
(* side by side, and what follows from them for every behaviour of MCSpec. *)
(***************************************************************************)
EXTENDS MCInstance, FiniteSetTheorems, TLAPS

-----------------------------------------------------------------------------
(* Checks: what a copy of a message has behind it.                         *)

\* The checks a copy has behind it.
Done(c) ==
  CASE stage[c] = "topic"     -> {}
    [] stage[c] = "rel"       -> {"topic"}
    [] stage[c] = "schema"    -> {"topic", "rel"}
    [] stage[c] = "metadata"  -> {"topic", "rel", "schema"}
    [] stage[c] = "discarded" -> Reached(c)
    [] OTHER                  -> Checked

\* A copy has passed what it has behind it, unless that stopped it, and all the
\* centre has heard of it is what failed there.
CopyInv(c) ==
  /\ stage[c] \in {"topic", "rel", "schema"} => c \notin without
  /\ stage[c] = "discarded" => Fatal(c) # {}
  /\ stage[c] # "discarded" => Fatal(c) \cap Done(c) = {}
  /\ events[c] = IF Mentions(t) THEN {} ELSE {EventOf(k) : k \in Fails(c) \cap Done(c)}

\* Dedup lets one copy of an id through and marks it for the others.
ClaimInv ==
  p.id =>
    /\ claimed => \E d \in Copies : Through(d)
    /\ \A c \in Copies : Through(c) => claimed
    /\ \A c, d \in Copies : Through(c) /\ Through(d) => c = d

SeenInv == \A c \in Copies : stage[c] = "seen" => p.id /\ claimed

ChecksInv == TypeOK /\ (\A c \in Copies : CopyInv(c)) /\ ClaimInv /\ SeenInv

-----------------------------------------------------------------------------
LEMMA Message ==
  ASSUME ChecksAssumption, TypeOK
  PROVE  /\ p.json \in BOOLEAN /\ p.id \in BOOLEAN /\ p.rel \in BOOLEAN /\ p.valid \in BOOLEAN
         /\ p.registered \in BOOLEAN
         /\ o.topic \in Choices /\ o.msg \in Choices /\ o.metadata \in Choices
         /\ p.rel => p.json
         /\ p.valid => p.id
         /\ p.id => p.json
<1>1. case \in [topic : Topics, payload : Payloads, options : Options]
  BY DEF TypeOK, ChecksAssumption
<1>2. p \in Payloads /\ o \in Options
  BY <1>1 DEF p, o
<1>3. (~p.json => ~p.id /\ ~p.rel) /\ (~p.id => ~p.valid)
  BY DEF TypeOK, ChecksAssumption, p
<1>4. QED
  BY <1>2, <1>3 DEF Payloads, Options

LEMMA Ranks ==
  /\ Checked = {"topic", "rel", "schema", "metadata"}
  /\ Rank["topic"] = 1 /\ Rank["rel"] = 2 /\ Rank["schema"] = 3 /\ Rank["metadata"] = 4
  BY DEF Checked, Rank

\* What a copy fails and what of it is fatal, check by check.
LEMMA FailsOf ==
  ASSUME NEW c
  PROVE  /\ Fails(c) \subseteq Checked /\ Fatal(c) \subseteq Fails(c)
         /\ "topic" \in Fails(c) <=> Enabled(o.topic) /\ ~Allow(t)
         /\ "rel" \in Fails(c) <=> Enabled(o.msg) /\ NeedsRelCheck(t) /\ ~p.rel
         /\ "schema" \in Fails(c) <=> Enabled(o.msg) /\ (c \in without \/ ~p.valid)
         /\ "metadata" \in Fails(c) <=> Enabled(o.metadata) /\ IsData(t) /\ ~p.registered
         /\ "topic" \in Fatal(c) <=> "topic" \in Fails(c) /\ o.topic = "discard"
         /\ "rel" \in Fatal(c) <=> "rel" \in Fails(c)
         /\ "schema" \in Fatal(c) <=> "schema" \in Fails(c) /\ o.msg = "discard"
         /\ "metadata" \in Fatal(c) <=> "metadata" \in Fails(c) /\ o.metadata = "discard"
<1>1. {"topic", "rel", "schema", "metadata"} = Checked
  BY Ranks
<1>2. /\ Fails(c) \subseteq Checked
      /\ "topic" \in Fails(c) <=> Enabled(o.topic) /\ ~Allow(t)
      /\ "rel" \in Fails(c) <=> Enabled(o.msg) /\ NeedsRelCheck(t) /\ ~p.rel
      /\ "schema" \in Fails(c) <=> Enabled(o.msg) /\ (c \in without \/ ~p.valid)
      /\ "metadata" \in Fails(c) <=> Enabled(o.metadata) /\ IsData(t) /\ ~p.registered
  BY <1>1 DEF Fails
<1>3. /\ Fatal(c) \subseteq Fails(c)
      /\ "topic" \in Fatal(c) <=> "topic" \in Fails(c) /\ o.topic = "discard"
      /\ "rel" \in Fatal(c) <=> "rel" \in Fails(c)
      /\ "schema" \in Fatal(c) <=> "schema" \in Fails(c) /\ o.msg = "discard"
      /\ "metadata" \in Fatal(c) <=> "metadata" \in Fails(c) /\ o.metadata = "discard"
  BY DEF Fatal
<1>4. QED
  BY <1>2, <1>3

LEMMA ChecksInit == Init => ChecksInv
<1> SUFFICES ASSUME Init PROVE ChecksInv
  OBVIOUS
<1>1. TypeOK
  BY DEF Init, TypeOK, Steps, Events
<1>2. ASSUME NEW c \in Copies PROVE CopyInv(c)
  <2>1. stage[c] = "topic" /\ events[c] = {} /\ c \notin without
    BY DEF Init
  <2>2. Done(c) = {}
    BY <2>1 DEF Done
  <2>3. QED
    BY <2>1, <2>2 DEF CopyInv
<1>3. ClaimInv /\ SeenInv
  BY DEF Init, ClaimInv, SeenInv, Through
<1>4. QED
  BY <1>1, <1>2, <1>3 DEF ChecksInv
\* The message and the options do not change, nor does what a copy deserves, but
\* for the schemas it did not find.
LEMMA SameMessage ==
  ASSUME case' = case
  PROVE  /\ t' = t /\ p' = p /\ o' = o
         /\ Mentions(t)' = Mentions(t)
         /\ \A k : EventOf(k)' = EventOf(k)
  BY DEF t, p, o, Mentions, EventOf

LEMMA SameDeserts ==
  ASSUME case' = case, NEW c, c \in without' <=> c \in without
  PROVE  Fails(c)' = Fails(c) /\ Fatal(c)' = Fatal(c) /\ Reached(c)' = Reached(c)
<1>1. Fails(c)' = Fails(c)
  <2>1. \A k \in Checked : k \in Fails(c)' <=> k \in Fails(c)
    BY SameMessage DEF Fails, Enabled, Allow, NeedsRelCheck, Mentions, IsData, t, p, o
  <2>2. QED
    BY <2>1 DEF Fails
<1>2. Fatal(c)' = Fatal(c)
  BY <1>1, SameMessage DEF Fatal, o
<1>3. QED
  BY <1>1, <1>2 DEF Reached

LEMMA CopyFrame ==
  ASSUME case' = case, NEW c, c \in without' <=> c \in without,
         stage'[c] = stage[c], events'[c] = events[c], CopyInv(c)
  PROVE  CopyInv(c)'
<1>1. Fails(c)' = Fails(c) /\ Fatal(c)' = Fatal(c) /\ Reached(c)' = Reached(c)
  BY SameDeserts
<1>2. Done(c)' = Done(c)
  BY <1>1 DEF Done
<1>3. QED
  BY <1>1, <1>2, SameMessage DEF CopyInv

\* What a copy looks like after one of the checks, `check', at which it was.
LEMMA AfterCheck ==
  ASSUME TypeOK, case' = case, NEW c \in Copies, CopyInv(c), NEW check \in Checked, NEW then,
         stage[c] = check, stage'[c] \in {then, "discarded"},
         \/ (check = "topic" /\ then = "rel") \/ (check = "rel" /\ then = "schema")
         \/ (check = "schema" /\ then = "metadata") \/ (check = "metadata" /\ then = "dedup"),
         check # "schema" => (c \in without' <=> c \in without),
         c \in without' => check \in {"schema", "metadata"},
         stage'[c] = "discarded" <=> check \in Fatal(c)',
         events'[c] = IF check \in Fails(c)' /\ ~Mentions(t)
                      THEN events[c] \cup {EventOf(check)} ELSE events[c]
  PROVE  CopyInv(c)'
<1> DEFINE behind == {k \in Checked : Rank[k] < Rank[check]}
<1>1. Done(c) = behind
  BY Ranks DEF Done
<1>2. \A k \in behind :
        (k \in Fails(c)' <=> k \in Fails(c)) /\ (k \in Fatal(c)' <=> k \in Fatal(c))
  <2>1. CASE c \in without' <=> c \in without
    BY <2>1, SameDeserts
  <2>2. CASE check = "schema"
    <3>1. behind = {"topic", "rel"}
      BY <2>2, Ranks
    <3>2. \A k \in {"topic", "rel"} : k \in Fails(c)' <=> k \in Fails(c)
      BY SameMessage, Ranks
         DEF Fails, Enabled, Allow, NeedsRelCheck, Mentions, IsData, t, p, o
    <3>3. \A k \in {"topic", "rel"} : k \in Fatal(c)' <=> k \in Fatal(c)
      BY <3>2, SameMessage DEF Fatal, o
    <3>4. QED
      BY <3>1, <3>2, <3>3
  <2>3. QED
    BY <2>1, <2>2
<1>3. \A k \in behind : k \notin Fatal(c)'
  BY <1>1, <1>2, Ranks DEF CopyInv
<1>4. Fatal(c)' \subseteq Checked /\ Fails(c)' \subseteq Checked
  BY DEF Fatal, Fails
<1>5. Done(c)' = behind \cup {check}
  <2>1. CASE stage'[c] = "discarded"
    <3>1. check \in Fatal(c)'
      BY <2>1
    <3>2. Reached(c)' = {k \in Checked : \A f \in Fatal(c)' : Rank[k] <= Rank[f]}
      BY DEF Reached
    <3>3. \A k \in Checked : k \in Reached(c)' <=> Rank[k] <= Rank[check]
      <4>1. \A f \in Fatal(c)' : Rank[check] <= Rank[f]
        BY <1>3, <1>4, Ranks
      <4>2. QED
        BY <1>4, <3>1, <3>2, <4>1, Ranks
    <3>4. \A k \in Checked : Rank[k] <= Rank[check] <=> k \in behind \cup {check}
      BY Ranks
    <3>5. Done(c)' = Reached(c)'
      BY <2>1 DEF Done
    <3>6. QED
      BY <3>2, <3>3, <3>4, <3>5
  <2>2. CASE stage'[c] = then
    BY <2>2, Ranks DEF Done
  <2>3. QED
    BY <2>1, <2>2
<1>6. events'[c] = IF Mentions(t) THEN {} ELSE {EventOf(k) : k \in Fails(c)' \cap Done(c)'}
  <2>1. events[c] = IF Mentions(t) THEN {} ELSE {EventOf(k) : k \in Fails(c) \cap behind}
    BY <1>1 DEF CopyInv
  <2>2. Fails(c)' \cap Done(c)' = (Fails(c) \cap behind) \cup (Fails(c)' \cap {check})
    BY <1>2, <1>4, <1>5
  <2>3. QED
    BY <2>1, <2>2
<1>7. stage'[c] # "discarded" => Fatal(c)' \cap Done(c)' = {}
  BY <1>3, <1>5
<1>8. QED
  BY <1>6, <1>7, SameMessage, Ranks DEF CopyInv

\* A step of copy c that is not dedup's: all of the invariant but c's own part.
LEMMA OneCopyMoves ==
  ASSUME ChecksInv, NEW c \in Copies, UNCHANGED <<case, ready, claimed>>,
         NEW s \in Steps \cup Ends, stage' = [stage EXCEPT ![c] = s], s # "seen",
         s \in {"publish", "published", "published bare"} <=> Through(c),
         without' \in {without, without \cup {c}},
         events' \in [Copies -> SUBSET Events],
         \A d \in Copies : d # c => events'[d] = events[d],
         CopyInv(c)'
  PROVE  ChecksInv'
<1>1. stage'[c] = s /\ \A d \in Copies : d # c => stage'[d] = stage[d]
  BY DEF ChecksInv, TypeOK
<1>2. TypeOK'
  BY DEF ChecksInv, TypeOK
<1>3. ASSUME NEW d \in Copies PROVE CopyInv(d)'
  BY <1>1, CopyFrame DEF ChecksInv
<1>4. \A d \in Copies : Through(d)' <=> Through(d)
  BY <1>1 DEF Through
<1>5. ClaimInv' /\ SeenInv'
  BY <1>1, <1>4, SameMessage DEF ChecksInv, ClaimInv, SeenInv
<1>6. QED
  BY <1>2, <1>3, <1>5 DEF ChecksInv

LEMMA EventTypes ==
  /\ {"topic", "bad rel", "not JSON", "no id", "schema", "metadata"} = Events
  /\ {"topic", "rel", "schema", "metadata", "dedup", "publish"} = Steps
  /\ {"discarded", "seen", "published", "published bare"} = Ends
  BY DEF Events, Steps, Ends

\* Reporting one event, or none.
LEMMA Reported ==
  ASSUME TypeOK, NEW c \in Copies, NEW e \in Events, NEW failed \in BOOLEAN,
         IF failed THEN Report(c, e) ELSE UNCHANGED events
  PROVE  /\ events' \in [Copies -> SUBSET Events]
         /\ \A d \in Copies : d # c => events'[d] = events[d]
         /\ events'[c] = IF failed /\ ~Mentions(t) THEN events[c] \cup {e} ELSE events[c]
  BY DEF TypeOK, Report

LEMMA TopicStep ==
  ASSUME ChecksAssumption, ChecksInv, NEW c \in Copies, CheckTopic(c)
  PROVE  ChecksInv'
<1> DEFINE failed == Enabled(o.topic) /\ ~Allow(t)
           s == IF failed /\ o.topic = "discard" THEN "discarded" ELSE "rel"
<1>1. TypeOK /\ CopyInv(c)
  BY DEF ChecksInv
<1>2. /\ stage[c] = "topic" /\ UNCHANGED <<case, ready, without, claimed>>
      /\ stage' = [stage EXCEPT ![c] = s]
      /\ IF failed THEN Report(c, "topic") ELSE UNCHANGED events
  BY DEF CheckTopic, Goto
<1>3. stage'[c] = s
  BY <1>1, <1>2 DEF TypeOK
<1>4. /\ events' \in [Copies -> SUBSET Events]
      /\ \A d \in Copies : d # c => events'[d] = events[d]
      /\ events'[c] = IF failed /\ ~Mentions(t) THEN events[c] \cup {"topic"} ELSE events[c]
  <2>1. failed \in BOOLEAN
    BY Zenon
  <2>2. QED
    <3> HIDE DEF failed, s
    <3> QED
      BY <1>1, <1>2, <2>1, EventTypes, Reported
<1>5. c \notin without /\ Fails(c)' = Fails(c) /\ Fatal(c)' = Fatal(c)
  BY <1>1, <1>2, SameDeserts DEF CopyInv
<1>6. EventOf("topic") = "topic" /\ "topic" \in Checked
  BY Ranks DEF EventOf
<1>7. /\ "topic" \in Fails(c) <=> failed
      /\ "topic" \in Fatal(c) <=> failed /\ o.topic = "discard"
  BY FailsOf
<1>8. CopyInv(c)'
  <2>1. stage'[c] = "discarded" <=> "topic" \in Fatal(c)'
    BY <1>3, <1>5, <1>7
  <2>2. events'[c] = IF "topic" \in Fails(c)' /\ ~Mentions(t)
                     THEN events[c] \cup {EventOf("topic")} ELSE events[c]
    BY <1>4, <1>5, <1>6, <1>7
  <2>3. stage'[c] \in {"rel", "discarded"}
    BY <1>3
  <2>4. QED
    <3> HIDE DEF failed, s
    <3> QED
      BY <1>1, <1>2, <1>5, <1>6, <2>1, <2>2, <2>3, AfterCheck
<1>9. s \in Steps \cup Ends /\ s # "seen" /\ ~Through(c)
      /\ s \notin {"publish", "published", "published bare"}
  BY <1>2, EventTypes DEF Through
<1>10. QED
  <2> HIDE DEF failed, s
  <2> QED
    BY <1>2, <1>4, <1>8, <1>9, OneCopyMoves

LEMMA RelStep ==
  ASSUME ChecksAssumption, ChecksInv, NEW c \in Copies, CheckRel(c)
  PROVE  ChecksInv'
<1> DEFINE failed == Enabled(o.msg) /\ NeedsRelCheck(t) /\ ~HasValidRel
           s == IF failed THEN "discarded" ELSE "schema"
<1>1. TypeOK /\ CopyInv(c)
  BY DEF ChecksInv
<1>2. /\ stage[c] = "rel" /\ UNCHANGED <<case, ready, without, claimed>>
      /\ stage' = [stage EXCEPT ![c] = s]
      /\ IF failed THEN Report(c, "bad rel") ELSE UNCHANGED events
  BY DEF CheckRel, Goto
<1>3. stage'[c] = s
  BY <1>1, <1>2 DEF TypeOK
<1>4. /\ events' \in [Copies -> SUBSET Events]
      /\ \A d \in Copies : d # c => events'[d] = events[d]
      /\ events'[c] = IF failed /\ ~Mentions(t) THEN events[c] \cup {"bad rel"} ELSE events[c]
  <2>1. failed \in BOOLEAN
    BY Zenon
  <2>2. QED
    <3> HIDE DEF failed, s
    <3> QED
      BY <1>1, <1>2, <2>1, EventTypes, Reported
<1>5. c \notin without /\ Fails(c)' = Fails(c) /\ Fatal(c)' = Fatal(c)
  BY <1>1, <1>2, SameDeserts DEF CopyInv
<1>6. EventOf("rel") = "bad rel" /\ "rel" \in Checked
  BY Ranks DEF EventOf
<1>7. ("rel" \in Fails(c) <=> failed) /\ ("rel" \in Fatal(c) <=> failed)
  <2>1. HasValidRel <=> p.rel
    BY <1>1, Message DEF HasValidRel
  <2>2. QED
    BY <2>1, FailsOf
<1>8. CopyInv(c)'
  <2>1. stage'[c] = "discarded" <=> "rel" \in Fatal(c)'
    BY <1>3, <1>5, <1>7
  <2>2. events'[c] = IF "rel" \in Fails(c)' /\ ~Mentions(t)
                     THEN events[c] \cup {EventOf("rel")} ELSE events[c]
    BY <1>4, <1>5, <1>6, <1>7
  <2>3. stage'[c] \in {"schema", "discarded"}
    BY <1>3
  <2>4. QED
    <3> HIDE DEF failed, s
    <3> QED
      BY <1>1, <1>2, <1>5, <1>6, <2>1, <2>2, <2>3, AfterCheck
<1>9. s \in Steps \cup Ends /\ s # "seen" /\ ~Through(c)
      /\ s \notin {"publish", "published", "published bare"}
  BY <1>2, EventTypes DEF Through
<1>10. QED
  <2> HIDE DEF failed, s
  <2> QED
    BY <1>2, <1>4, <1>8, <1>9, OneCopyMoves

\* A copy that has come to the schemas has no bad links, so what is reported of it
\* is never that (pipeline.go:400-437).
LEMMA SchemaStep ==
  ASSUME ChecksAssumption, ChecksInv, NEW c \in Copies, CheckSchema(c)
  PROVE  ChecksInv'
<1> DEFINE failed == Enabled(o.msg) /\ ~Conforms
           s == IF failed /\ o.msg = "discard" THEN "discarded" ELSE "metadata"
           e == IF failed THEN ClassifySchemaError ELSE "schema"
<1>1. TypeOK /\ CopyInv(c)
  BY DEF ChecksInv
<1>2. /\ stage[c] = "schema" /\ UNCHANGED <<case, ready, claimed>>
      /\ without' = IF ready THEN without ELSE without \cup {c}
      /\ stage' = [stage EXCEPT ![c] = s]
      /\ IF failed THEN Report(c, e) ELSE UNCHANGED events
  BY DEF CheckSchema, Goto
<1>3. stage'[c] = s
  BY <1>1, <1>2 DEF TypeOK
<1>4. c \notin without /\ (c \in without' <=> ~ready)
  BY <1>1, <1>2 DEF CopyInv
<1>5. e \in Events /\ (failed => e = EventOf("schema"))
  <2>1. Enabled(o.msg) => ~(NeedsRelCheck(t) /\ ~p.rel)
    <3>1. "rel" \in Done(c)
      BY <1>2 DEF Done
    <3>2. "rel" \notin Fatal(c)
      BY <1>1, <1>2, <3>1 DEF CopyInv
    <3>3. QED
      BY <3>2, FailsOf
  <2>2. EventOf("schema") = IF ~p.json THEN "not JSON" ELSE IF ~p.id THEN "no id" ELSE "schema"
    BY DEF EventOf
  <2>3. HasValidRel <=> p.rel
    BY <1>1, Message DEF HasValidRel
  <2>4. failed => ClassifySchemaError = EventOf("schema")
    BY <1>1, <2>1, <2>2, <2>3, Message DEF ClassifySchemaError
  <2>5. QED
    BY <2>2, <2>4, EventTypes
<1>6. /\ events' \in [Copies -> SUBSET Events]
      /\ \A d \in Copies : d # c => events'[d] = events[d]
      /\ events'[c] = IF failed /\ ~Mentions(t) THEN events[c] \cup {e} ELSE events[c]
  <2>1. failed \in BOOLEAN
    BY Zenon
  <2>2. QED
    <3> HIDE DEF failed, s, e
    <3> QED
      BY <1>1, <1>2, <1>5, <2>1, Reported
<1>7. /\ "schema" \in Fails(c)' <=> failed
      /\ "schema" \in Fatal(c)' <=> failed /\ o.msg = "discard"
  <2>1. "schema" \in Fails(c)' <=> Enabled(o.msg) /\ (c \in without' \/ ~p.valid)
    BY <1>2, SameMessage, Ranks DEF Fails, Enabled
  <2>2. "schema" \in Fatal(c)' <=> "schema" \in Fails(c)' /\ o.msg = "discard"
    BY <1>2, SameMessage DEF Fatal
  <2>3. Conforms <=> ready /\ p.valid
    BY <1>1, Message DEF Conforms
  <2>4. QED
    BY <1>4, <2>1, <2>2, <2>3
<1>8. CopyInv(c)'
  <2>1. stage'[c] = "discarded" <=> "schema" \in Fatal(c)'
    BY <1>3, <1>7
  <2>2. events'[c] = IF "schema" \in Fails(c)' /\ ~Mentions(t)
                     THEN events[c] \cup {EventOf("schema")} ELSE events[c]
    BY <1>5, <1>6, <1>7
  <2>3. stage'[c] \in {"metadata", "discarded"} /\ "schema" \in Checked
    BY <1>3, Ranks
  <2>4. QED
    <3> HIDE DEF failed, s, e
    <3> QED
      BY <1>1, <1>2, <1>4, <2>1, <2>2, <2>3, AfterCheck
<1>9. s \in Steps \cup Ends /\ s # "seen" /\ ~Through(c)
      /\ s \notin {"publish", "published", "published bare"}
  BY <1>2, EventTypes DEF Through
<1>10. without' \in {without, without \cup {c}}
  BY <1>2
<1>11. QED
  <2> HIDE DEF failed, s, e
  <2> QED
    BY <1>2, <1>6, <1>8, <1>9, <1>10, OneCopyMoves

LEMMA MetadataStep ==
  ASSUME ChecksAssumption, ChecksInv, NEW c \in Copies, CheckMetadata(c)
  PROVE  ChecksInv'
<1> DEFINE failed == Enabled(o.metadata) /\ IsData(t) /\ ~p.registered
           s == IF failed /\ o.metadata = "discard" THEN "discarded" ELSE "dedup"
<1>1. TypeOK /\ CopyInv(c)
  BY DEF ChecksInv
<1>2. /\ stage[c] = "metadata" /\ UNCHANGED <<case, ready, without, claimed>>
      /\ stage' = [stage EXCEPT ![c] = s]
      /\ IF failed THEN Report(c, "metadata") ELSE UNCHANGED events
  BY DEF CheckMetadata, Goto
<1>3. stage'[c] = s
  BY <1>1, <1>2 DEF TypeOK
<1>4. /\ events' \in [Copies -> SUBSET Events]
      /\ \A d \in Copies : d # c => events'[d] = events[d]
      /\ events'[c] = IF failed /\ ~Mentions(t) THEN events[c] \cup {"metadata"} ELSE events[c]
  <2>1. failed \in BOOLEAN
    BY Zenon
  <2>2. QED
    <3> HIDE DEF failed, s
    <3> QED
      BY <1>1, <1>2, <2>1, EventTypes, Reported
<1>5. Fails(c)' = Fails(c) /\ Fatal(c)' = Fatal(c)
  BY <1>2, SameDeserts
<1>6. EventOf("metadata") = "metadata" /\ "metadata" \in Checked
  BY Ranks DEF EventOf
<1>7. /\ "metadata" \in Fails(c) <=> failed
      /\ "metadata" \in Fatal(c) <=> failed /\ o.metadata = "discard"
  BY FailsOf
<1>8. CopyInv(c)'
  <2>1. stage'[c] = "discarded" <=> "metadata" \in Fatal(c)'
    BY <1>3, <1>5, <1>7
  <2>2. events'[c] = IF "metadata" \in Fails(c)' /\ ~Mentions(t)
                     THEN events[c] \cup {EventOf("metadata")} ELSE events[c]
    BY <1>4, <1>5, <1>6, <1>7
  <2>3. stage'[c] \in {"dedup", "discarded"}
    BY <1>3
  <2>4. QED
    <3> HIDE DEF failed, s
    <3> QED
      BY <1>1, <1>2, <1>6, <2>1, <2>2, <2>3, AfterCheck
<1>9. s \in Steps \cup Ends /\ s # "seen" /\ ~Through(c)
      /\ s \notin {"publish", "published", "published bare"}
  BY <1>2, EventTypes DEF Through
<1>10. QED
  <2> HIDE DEF failed, s
  <2> QED
    BY <1>2, <1>4, <1>8, <1>9, OneCopyMoves

\* Behind the checks a copy's part of the invariant is settled.
LEMMA SettledCopy ==
  ASSUME NEW c, UNCHANGED <<case, without, events>>, CopyInv(c),
         stage[c] \in {"dedup", "publish"},
         stage'[c] \in {"publish", "seen", "published", "published bare"}
  PROVE  CopyInv(c)'
<1>1. Fails(c)' = Fails(c) /\ Fatal(c)' = Fatal(c)
  BY SameDeserts
<1>2. Done(c) = Checked /\ Done(c)' = Checked
  BY DEF Done
<1>3. QED
  BY <1>1, <1>2, SameMessage DEF CopyInv

LEMMA DedupStep ==
  ASSUME ChecksAssumption, ChecksInv, NEW c \in Copies, Dedup(c)
  PROVE  ChecksInv'
<1> DEFINE s == IF p.id /\ claimed THEN "seen" ELSE "publish"
<1>1. TypeOK /\ ClaimInv /\ SeenInv
  BY DEF ChecksInv
<1>2. /\ stage[c] = "dedup" /\ UNCHANGED <<case, ready, without, events>>
      /\ stage' = [stage EXCEPT ![c] = s]
      /\ claimed' = (claimed \/ p.id)
  BY DEF Dedup, Goto
<1>3. stage'[c] = s /\ \A d \in Copies : d # c => stage'[d] = stage[d]
  BY <1>1, <1>2 DEF TypeOK
<1>4. claimed' \in BOOLEAN /\ (claimed => claimed') /\ (p.id => claimed')
  BY <1>2, Zenon
<1>5. TypeOK'
  BY <1>1, <1>2, <1>4, EventTypes DEF TypeOK
<1>6. ASSUME NEW d \in Copies PROVE CopyInv(d)'
  <2>1. CASE d = c
    BY <1>2, <1>3, <2>1, SettledCopy DEF ChecksInv
  <2>2. CASE d # c
    BY <1>2, <1>3, <2>2, CopyFrame DEF ChecksInv
  <2>3. QED
    BY <2>1, <2>2
<1>7. /\ ~Through(c) /\ (Through(c)' <=> ~(p.id /\ claimed))
      /\ \A d \in Copies : d # c => (Through(d)' <=> Through(d))
  <2>1. ~Through(c) /\ \A d \in Copies : d # c => (Through(d)' <=> Through(d))
    BY <1>2, <1>3 DEF Through
  <2>2. CASE p.id /\ claimed
    <3>1. stage'[c] = "seen"
      BY <1>3, <2>2
    <3>2. ~Through(c)'
      BY <3>1 DEF Through
    <3>3. QED
      BY <2>1, <2>2, <3>2, Zenon
  <2>3. CASE ~(p.id /\ claimed)
    <3>1. stage'[c] = "publish"
      BY <1>3, <2>3
    <3>2. Through(c)'
      BY <3>1 DEF Through
    <3>3. QED
      BY <2>1, <2>3, <3>2, Zenon
  <2>4. QED
    BY <2>2, <2>3, Zenon
<1>8. ClaimInv'
  <2> SUFFICES ASSUME p.id
               PROVE  /\ \E d \in Copies : Through(d)'
                      /\ claimed'
                      /\ \A a, b \in Copies : Through(a)' /\ Through(b)' => a = b
    BY <1>2, SameMessage DEF ClaimInv
  <2>1. /\ claimed => \E d \in Copies : Through(d)
        /\ \A d \in Copies : Through(d) => claimed
        /\ \A a, b \in Copies : Through(a) /\ Through(b) => a = b
    BY <1>1 DEF ClaimInv
  <2> HIDE DEF s
  <2>2. CASE claimed
    <3>1. \A d \in Copies : Through(d)' <=> Through(d)
      BY <1>7, <2>2, Zenon
    <3>2. QED
      BY <1>4, <2>1, <2>2, <3>1, Zenon
  <2>3. CASE ~claimed
    <3>1. Through(c)' /\ \A d \in Copies : Through(d)' => d = c
      BY <1>7, <2>1, <2>3, Zenon
    <3>2. QED
      BY <1>4, <3>1, Zenon
  <2>4. QED
    BY <2>2, <2>3, Zenon
<1>9. SeenInv'
  BY <1>1, <1>2, <1>3, <1>4, SameMessage DEF SeenInv
<1>10. QED
  BY <1>5, <1>6, <1>8, <1>9 DEF ChecksInv

LEMMA PublishStep ==
  ASSUME ChecksInv, NEW c \in Copies, Publish(c)
  PROVE  ChecksInv'
<1> DEFINE s == IF stripPropertiesContent THEN "published bare" ELSE "published"
<1>1. /\ stage[c] = "publish" /\ UNCHANGED <<case, ready, without, claimed, events>>
      /\ stage' = [stage EXCEPT ![c] = s]
  BY DEF Publish, Goto
<1>2. stage'[c] = s
  BY <1>1 DEF ChecksInv, TypeOK
<1>3. CopyInv(c)'
  BY <1>1, <1>2, SettledCopy DEF ChecksInv
<1>4. s \in Steps \cup Ends /\ s # "seen" /\ Through(c)
      /\ s \in {"publish", "published", "published bare"}
  BY <1>1, EventTypes DEF Through
<1>5. events' \in [Copies -> SUBSET Events] /\ \A d \in Copies : events'[d] = events[d]
  BY <1>1 DEF ChecksInv, TypeOK
<1>6. QED
  <2> HIDE DEF s
  <2> QED
    BY <1>1, <1>3, <1>4, <1>5, OneCopyMoves

LEMMA LoadStep ==
  ASSUME ChecksInv, Load \/ UNCHANGED vars
  PROVE  ChecksInv'
<1>1. UNCHANGED <<case, stage, without, claimed, events>> /\ ready' \in BOOLEAN
  BY DEF Load, vars, ChecksInv, TypeOK
<1>2. \A c \in Copies : CopyInv(c)'
  BY <1>1, CopyFrame DEF ChecksInv
<1>3. TypeOK' /\ ClaimInv' /\ SeenInv'
  BY <1>1, SameMessage DEF ChecksInv, TypeOK, ClaimInv, SeenInv, Through
<1>4. QED
  BY <1>2, <1>3 DEF ChecksInv

LEMMA ChecksStep ==
  ASSUME ChecksAssumption
  PROVE  ChecksInv /\ [Next]_vars => ChecksInv'
  BY TopicStep, RelStep, SchemaStep, MetadataStep, DedupStep, PublishStep, LoadStep DEF Next

-----------------------------------------------------------------------------
(* Lifecycle: who does what, and where the copies may be.                  *)

\* The sets of places main can be in, and of what a caller can be doing.
Places == L!Building \cup L!Serving \cup L!Leaving \cup L!Over
Doings == {"idle", "asks"} \cup L!Acting

LifeTypes ==
  /\ pc \in Places
  /\ stop \in BOOLEAN /\ connected \in BOOLEAN
  /\ primary \in BOOLEAN /\ pubConnected \in BOOLEAN
  /\ open \in BOOLEAN /\ overlapped \in BOOLEAN
  /\ marked \in BOOLEAN /\ unguarded \in BOOLEAN
  /\ doing \in [L!Callers -> Doings]
  /\ here \in [L!Deliveries -> L!Stages]
  /\ peer \in {"gated", "passed", "seen", "burnt", "handed"}

\* Nobody is primary before the election is started, no callback goes on before
\* there is a pipeline, and the gate lets nothing through before that.
Unelected ==
  pc \in L!Building =>
    /\ ~primary /\ ~open
    /\ doing["main"] = "idle" /\ doing["election"] = "idle" /\ doing["callback"] # "opens"
    /\ pc # "made" => doing["callback"] \in {"idle", "asks"}
    /\ pc \in {"listening", "registered"} => doing["callback"] = "idle"
    /\ \A c \in L!Deliveries : here[c] \in {"none", "unavailable", "gated", "dropped"}

LifeInv == LifeTypes /\ Unelected

LEMMA LifeFlags == L!TypeOK <=> LifeTypes
<1> DEFINE Flags ==
      {stop, connected, primary, pubConnected, open, overlapped, marked, unguarded}
<1>1. Flags \subseteq BOOLEAN
        <=> /\ stop \in BOOLEAN /\ connected \in BOOLEAN
            /\ primary \in BOOLEAN /\ pubConnected \in BOOLEAN
            /\ open \in BOOLEAN /\ overlapped \in BOOLEAN
            /\ marked \in BOOLEAN /\ unguarded \in BOOLEAN
  BY SMT
<1> HIDE DEF Flags
<1>2. L!TypeOK <=> /\ pc \in L!Building \cup L!Serving \cup L!Leaving \cup L!Over
                   /\ Flags \subseteq BOOLEAN
                   /\ doing \in [L!Callers -> {"idle", "asks"} \cup L!Acting]
                   /\ here \in [L!Deliveries -> L!Stages]
                   /\ peer \in {"gated", "passed", "seen", "burnt", "handed"}
  BY Zenon DEF L!TypeOK, Flags
<1>3. QED
  BY <1>1, <1>2, Zenon DEF LifeTypes, Places, Doings

LEMMA LifeInit == L!Init => LifeInv
<1> SUFFICES ASSUME L!Init
             PROVE  LifeInv
  OBVIOUS
<1>1. /\ pc = "listening" /\ stop = FALSE /\ connected = FALSE /\ primary = FALSE
      /\ pubConnected = FALSE /\ open = FALSE /\ overlapped = FALSE
      /\ peer = "gated" /\ marked = FALSE /\ unguarded = FALSE
      /\ doing = [k \in L!Callers |-> "idle"] /\ here = [c \in L!Deliveries |-> "none"]
  BY Zenon DEF L!Init
<1>2. LifeTypes
  BY <1>1 DEF LifeTypes, Places, Doings, L!Building, L!Stages
<1>3. Unelected
  BY <1>1 DEF Unelected, L!Callers
<1>4. QED
  BY <1>2, <1>3 DEF LifeInv

\* Caller k goes on to s, or copy c to s.
LEMMA CallerMoves ==
  ASSUME LifeTypes, NEW k \in L!Callers, NEW s \in Doings, doing' = [doing EXCEPT ![k] = s]
  PROVE  /\ doing' \in [L!Callers -> Doings]
         /\ \A j \in L!Callers : doing'[j] = IF j = k THEN s ELSE doing[j]
  BY DEF LifeTypes

LEMMA CopyMoves ==
  ASSUME LifeTypes, NEW c \in L!Deliveries, NEW s \in L!Stages, here' = [here EXCEPT ![c] = s]
  PROVE  /\ here' \in [L!Deliveries -> L!Stages]
         /\ \A d \in L!Deliveries : here'[d] = IF d = c THEN s ELSE here[d]
  BY DEF LifeTypes

\* Copy c goes further.
LEMMA CopyKeepsInv ==
  ASSUME LifeInv, NEW c \in L!Deliveries, NEW s \in L!Stages, here' = [here EXCEPT ![c] = s],
         pc \in L!Building => s \in {"unavailable", "gated", "dropped"},
         UNCHANGED <<pc, stop, connected, primary, pubConnected, open, doing>>,
         UNCHANGED <<overlapped, peer>>,
         marked' \in BOOLEAN, unguarded' \in BOOLEAN
  PROVE  LifeInv'
<1>1. /\ here' \in [L!Deliveries -> L!Stages]
      /\ \A d \in L!Deliveries : here'[d] = IF d = c THEN s ELSE here[d]
  BY CopyMoves DEF LifeInv
<1>2. LifeTypes'
  BY <1>1 DEF LifeInv, LifeTypes
<1>3. Unelected'
  BY <1>1 DEF LifeInv, Unelected
<1>4. QED
  BY <1>2, <1>3 DEF LifeInv

\* A process that ends leaves nothing of the gate behind.
LEMMA EndFacts ==
  ASSUME NEW how, L!Ends(how)
  PROVE  /\ pc' = how /\ stop' = FALSE /\ connected' = FALSE /\ primary' = FALSE
         /\ pubConnected' = FALSE /\ open' = FALSE /\ overlapped' = FALSE
         /\ doing' = [k \in L!Callers |-> "idle"]
         /\ UNCHANGED <<here, peer, marked, unguarded>>
  BY Zenon DEF L!Ends, L!copies

LEMMA EndKeepsInv ==
  ASSUME LifeInv, NEW how \in L!Over, L!Ends(how)
  PROVE  LifeInv'
<1>1. /\ pc' = how /\ stop' = FALSE /\ connected' = FALSE /\ primary' = FALSE
      /\ pubConnected' = FALSE /\ open' = FALSE /\ overlapped' = FALSE
      /\ doing' = [k \in L!Callers |-> "idle"]
      /\ UNCHANGED <<here, peer, marked, unguarded>>
  BY EndFacts, Zenon
<1>2. LifeTypes'
  BY <1>1 DEF LifeInv, LifeTypes, Places, Doings
<1>3. pc' \notin L!Building
  BY <1>1 DEF L!Over, L!Building
<1>4. QED
  BY <1>2, <1>3 DEF LifeInv, Unelected

\* A step of main that leaves the gate and the copies alone.
MainAlone ==
  /\ UNCHANGED <<stop, connected, primary, pubConnected, open, doing, overlapped>>
  /\ UNCHANGED <<here, peer, marked, unguarded>>
  /\ \/ (pc = "listening" /\ pc' = "registered") \/ (pc = "registered" /\ pc' = "dialling")
     \/ (pc = "dialling" /\ pc' = "assigned") \/ (pc = "assigned" /\ pc' = "made")
     \/ (pc = "wired" /\ pc' = "running") \/ (pc = "running" /\ pc' = "stopping")
     \/ (pc = "closed" /\ pc' = "unsubscribed")

\* What main does: such a step, or one of three that do something of their own.
LEMMA MainSteps ==
  ASSUME L!Main
  PROVE  \/ MainAlone
         \/ /\ pc = "made" /\ pc' = "wired" /\ doing["main"] = "idle"
            /\ doing' = [doing EXCEPT !["main"] = "asks"]
            /\ UNCHANGED <<stop, connected, primary, pubConnected, open, overlapped>>
            /\ UNCHANGED <<here, peer, marked, unguarded>>
         \/ /\ pc = "stopping" /\ pc' = "closed" /\ connected' = FALSE
            /\ UNCHANGED <<stop, primary, pubConnected, open, doing, overlapped>>
            /\ UNCHANGED <<here, peer, marked, unguarded>>
         \/ L!Ends("exited")
<1>1. CASE L!WirePipeline
  BY <1>1, Zenon DEF L!WirePipeline, L!Goes, L!copies
<1>2. CASE L!ClosePublisher
  BY <1>2, Zenon DEF L!ClosePublisher, L!Goes, L!copies
<1>3. CASE L!Deregister
  BY <1>3, Zenon DEF L!Deregister
<1>4. CASE \/ L!Register \/ L!NewPublisher \/ L!AssignPublisher \/ L!NewPipeline
           \/ L!StartElection \/ L!ShutdownServer \/ L!CloseSubscriber
  <2>1. /\ UNCHANGED <<stop, connected, primary, pubConnected, open, doing, overlapped>>
        /\ UNCHANGED <<here, peer, marked, unguarded>>
    BY <1>4, Zenon DEF L!Register, L!NewPublisher, L!AssignPublisher, L!NewPipeline,
       L!StartElection, L!ShutdownServer, L!CloseSubscriber, L!Goes, L!gating, L!copies
  <2>2. \A a, b : L!Goes(a, b) => pc = a /\ pc' = b
    BY Zenon DEF L!Goes
  <2>3. \/ (pc = "listening" /\ pc' = "registered") \/ (pc = "registered" /\ pc' = "dialling")
        \/ (pc = "dialling" /\ pc' = "assigned") \/ (pc = "assigned" /\ pc' = "made")
        \/ (pc = "wired" /\ pc' = "running") \/ (pc = "running" /\ pc' = "stopping")
        \/ (pc = "closed" /\ pc' = "unsubscribed")
    BY <1>4, <2>2 DEF L!Register, L!NewPublisher, L!AssignPublisher, L!NewPipeline,
       L!StartElection, L!ShutdownServer, L!CloseSubscriber
  <2>4. QED
    BY <2>1, <2>3, Zenon DEF MainAlone
<1>5. QED
  BY <1>1, <1>2, <1>3, <1>4, Zenon DEF L!Main

LEMMA MainKeepsInv ==
  ASSUME LifeInv, L!Main
  PROVE  LifeInv'
<1>1. CASE MainAlone
  <2>1. LifeTypes'
    BY <1>1 DEF MainAlone, LifeInv, LifeTypes, Places, L!Building, L!Serving, L!Leaving
  <2>2. Unelected'
    BY <1>1 DEF MainAlone, LifeInv, Unelected, L!Building
  <2>3. QED
    BY <2>1, <2>2 DEF LifeInv
<1>2. CASE /\ pc = "made" /\ pc' = "wired" /\ doing["main"] = "idle"
           /\ doing' = [doing EXCEPT !["main"] = "asks"]
           /\ UNCHANGED <<stop, connected, primary, pubConnected, open, overlapped>>
           /\ UNCHANGED <<here, peer, marked, unguarded>>
  <2>1. doing' \in [L!Callers -> Doings]
    BY <1>2 DEF LifeInv, LifeTypes, L!Callers, Doings
  <2>2. QED
    BY <1>2, <2>1 DEF LifeInv, LifeTypes, Unelected, Places, L!Building, L!Serving
<1>3. CASE /\ pc = "stopping" /\ pc' = "closed" /\ connected' = FALSE
           /\ UNCHANGED <<stop, primary, pubConnected, open, doing, overlapped>>
           /\ UNCHANGED <<here, peer, marked, unguarded>>
  BY <1>3 DEF LifeInv, LifeTypes, Unelected, Places, L!Building, L!Leaving
<1>4. CASE L!Ends("exited")
  BY <1>4, EndKeepsInv DEF L!Over
<1>5. QED
  BY <1>1, <1>2, <1>3, <1>4, MainSteps, Zenon

\* What the callers do, spelt out.
Asking(k) ==
  /\ doing[k] = "asks" /\ pc \notin {"dialling", "exited", "dead"}
  /\ UNCHANGED <<pc, stop, connected, primary, pubConnected, open>>
  /\ UNCHANGED <<here, peer, marked, unguarded>>
  /\ \/ pc = "assigned" /\ doing' = [doing EXCEPT ![k] = "idle"] /\ UNCHANGED overlapped
     \/ /\ pc # "assigned" /\ connected /\ doing' = [doing EXCEPT ![k] = "saw up"]
        /\ overlapped' = \/ \E j \in L!Callers \ {k} : doing[j] \in L!Acting
                         \/ overlapped /\ k = "election"
     \/ /\ pc # "assigned" /\ ~connected /\ doing' = [doing EXCEPT ![k] = "saw down"]
        /\ overlapped' = \/ \E j \in L!Callers \ {k} : doing[j] \in L!Acting
                         \/ overlapped /\ k = "election"

Setting(k) ==
  /\ doing[k] \in {"saw up", "saw down"} /\ pubConnected' = (doing[k] = "saw up")
  /\ UNCHANGED <<pc, stop, connected, primary, open, overlapped>>
  /\ UNCHANGED <<here, peer, marked, unguarded>>
  /\ \/ primary /\ pubConnected' /\ doing' = [doing EXCEPT ![k] = "opens"]
     \/ ~(primary /\ pubConnected') /\ doing' = [doing EXCEPT ![k] = "shuts"]

Electing ==
  /\ pc = "running" /\ doing["election"] = "idle" /\ primary' = ~primary
  /\ UNCHANGED <<pc, stop, connected, pubConnected, open>>
  /\ UNCHANGED <<here, peer, marked, unguarded>>
  /\ \/ primary' /\ pubConnected /\ doing' = [doing EXCEPT !["election"] = "opens"]
     \/ ~(primary' /\ pubConnected) /\ doing' = [doing EXCEPT !["election"] = "shuts"]
  /\ overlapped' = \/ \E j \in L!Callers \ {"election"} : doing[j] \in L!Acting
                   \/ overlapped

Applying(k) ==
  /\ doing[k] \in {"opens", "shuts"} /\ open' = (doing[k] = "opens")
  /\ doing' = [doing EXCEPT ![k] = "idle"]
  /\ here' = [c \in L!Deliveries |->
                IF open' /\ here[c] = "gated" THEN "processing" ELSE here[c]]
  /\ UNCHANGED <<pc, stop, connected, primary, pubConnected, overlapped>>
  /\ UNCHANGED <<peer, marked, unguarded>>

LEMMA CallerSteps ==
  ASSUME NEW k \in L!Callers
  PROVE  /\ L!Ask(k) => Asking(k)
         /\ L!SetPubConnected(k) => Setting(k)
         /\ L!applyGateState(k) => Applying(k)
         /\ L!Elect => Electing
<1>1. ASSUME L!Ask(k) PROVE Asking(k)
  <2>1. /\ doing[k] = "asks" /\ pc \notin {"dialling", "exited", "dead"}
        /\ UNCHANGED <<pc, stop, connected, primary, pubConnected, open>>
        /\ UNCHANGED <<here, peer, marked, unguarded>>
    BY <1>1 DEF L!Ask, L!Alive, L!Over, L!copies
  <2>2. CASE pc = "assigned"
    BY <1>1, <2>1, <2>2, Zenon DEF L!Ask, Asking
  <2>3. CASE pc # "assigned"
    <3>1. L!Acts(k, IF connected THEN "saw up" ELSE "saw down")
      BY <1>1, <2>3, Zenon DEF L!Ask
    <3>2. QED
      BY <2>1, <2>3, <3>1, Zenon DEF L!Acts, Asking
  <2>4. QED
    BY <2>2, <2>3
<1>2. ASSUME L!SetPubConnected(k) PROVE Setting(k)
  BY <1>2, Zenon DEF L!SetPubConnected, L!Decision, L!copies, Setting
<1>3. ASSUME L!applyGateState(k) PROVE Applying(k)
  BY <1>3, Zenon DEF L!applyGateState, Applying
<1>4. ASSUME L!Elect PROVE Electing
  BY <1>4, Zenon DEF L!Elect, L!Acts, L!Decision, L!copies, Electing
<1>5. QED
  BY <1>1, <1>2, <1>3, <1>4, Zenon

LEMMA CallerKeepsInv ==
  ASSUME LifeInv, NEW k \in L!Callers, L!Moves(k) \/ L!Elect
  PROVE  LifeInv'
<1>1. CASE Asking(k)
  <2>1. PICK s \in {"idle", "saw up", "saw down"} :
          /\ doing' = [doing EXCEPT ![k] = s]
          /\ s = "idle" \/ pc \notin {"listening", "registered", "dialling", "assigned"}
    <3>1. pc \notin {"listening", "registered", "dialling"}
      BY <1>1 DEF Asking, L!Building, LifeInv, Unelected, L!Callers
    <3>2. QED
      BY <1>1, <3>1 DEF Asking
  <2>2. /\ doing' \in [L!Callers -> Doings]
        /\ \A j \in L!Callers : doing'[j] = IF j = k THEN s ELSE doing[j]
    BY <2>1, CallerMoves DEF LifeInv, Doings, L!Acting
  <2>3. overlapped' \in BOOLEAN
    BY <1>1 DEF Asking, LifeInv, LifeTypes
  <2>4. LifeTypes'
    BY <1>1, <2>2, <2>3 DEF Asking, LifeInv, LifeTypes
  <2>5. QED
    BY <1>1, <2>1, <2>2, <2>4 DEF Asking, LifeInv, Unelected, L!Callers, L!Building
<1>2. CASE Setting(k)
  <2>1. PICK s \in {"opens", "shuts"} :
          doing' = [doing EXCEPT ![k] = s] /\ (s = "opens" => primary)
    BY <1>2 DEF Setting
  <2>2. /\ doing' \in [L!Callers -> Doings]
        /\ \A j \in L!Callers : doing'[j] = IF j = k THEN s ELSE doing[j]
    BY <2>1, CallerMoves DEF LifeInv, Doings, L!Acting
  <2>3. pubConnected' \in BOOLEAN
    BY <1>2 DEF Setting
  <2>4. LifeTypes'
    BY <1>2, <2>2, <2>3 DEF Setting, LifeInv, LifeTypes
  <2>5. QED
    BY <1>2, <2>1, <2>2, <2>4 DEF Setting, LifeInv, Unelected, L!Callers, L!Building
<1>3. CASE Applying(k)
  <2>1. /\ doing' \in [L!Callers -> Doings]
        /\ \A j \in L!Callers : doing'[j] = IF j = k THEN "idle" ELSE doing[j]
    BY <1>3, CallerMoves DEF Applying, LifeInv, Doings
  <2>2. pc \in L!Building => doing[k] # "opens" /\ open' = FALSE
    BY <1>3 DEF Applying, LifeInv, Unelected, L!Callers
  <2>3. open' \in BOOLEAN
    BY <1>3 DEF Applying
  <2>4. here' \in [L!Deliveries -> L!Stages] /\ (~open' => here' = here)
    BY <1>3, <2>3 DEF Applying, LifeInv, LifeTypes, L!Stages
  <2>5. LifeTypes'
    BY <1>3, <2>1, <2>3, <2>4 DEF Applying, LifeInv, LifeTypes
  <2>6. QED
    BY <1>3, <2>1, <2>2, <2>4, <2>5 DEF Applying, LifeInv, Unelected, L!Callers, L!Building
<1>4. CASE Electing
  <2>1. PICK s \in {"opens", "shuts"} : doing' = [doing EXCEPT !["election"] = s]
    BY <1>4 DEF Electing
  <2>2. doing' \in [L!Callers -> Doings]
    BY <2>1, CallerMoves DEF LifeInv, Doings, L!Acting, L!Callers
  <2>3. primary' \in BOOLEAN /\ overlapped' \in BOOLEAN
    BY <1>4 DEF Electing, LifeInv, LifeTypes
  <2>4. LifeTypes'
    BY <1>4, <2>2, <2>3 DEF Electing, LifeInv, LifeTypes
  <2>5. QED
    BY <1>4, <2>4 DEF Electing, LifeInv, Unelected, L!Building
<1>5. QED
  BY <1>1, <1>2, <1>3, <1>4, CallerSteps, Zenon DEF L!Moves

\* Where an arriving, a waiting or a processed copy may get to.
LEMMA CopySteps ==
  ASSUME LifeInv, \/ L!Inject \/ L!Receive
                  \/ \E c \in L!Deliveries : L!Expire(c) \/ L!LookUp(c) \/ L!Publish(c)
  PROVE  \E c \in L!Deliveries, s \in L!Stages :
           /\ here' = [here EXCEPT ![c] = s]
           /\ UNCHANGED <<pc, stop, connected, primary, pubConnected, open, doing, overlapped>>
           /\ UNCHANGED peer /\ marked' \in BOOLEAN /\ unguarded' \in BOOLEAN
           /\ pc \in L!Building => s \in {"unavailable", "gated", "dropped"}
           /\ s = "gated" => ~open
           /\ \/ /\ here[c] = "none" /\ s \in {"unavailable", "gated", "dropped", "processing"}
                 /\ UNCHANGED <<marked, unguarded>>
              \/ here[c] = "gated" /\ s = "dropped" /\ UNCHANGED <<marked, unguarded>>
              \/ /\ here[c] = "processing" /\ marked' = TRUE /\ UNCHANGED unguarded
                 /\ IF marked THEN s = "seen" ELSE s \in {"passed", "burnt"}
              \/ /\ here[c] = "processing" /\ s = "passed" /\ unguarded' = TRUE
                 /\ marked' \in {marked, TRUE}
              \/ here[c] = "passed" /\ s = "handed" /\ UNCHANGED <<marked, unguarded>>
<1>0. marked \in BOOLEAN /\ unguarded \in BOOLEAN
  BY DEF LifeInv, LifeTypes
<1>1. ASSUME NEW c \in L!Deliveries, L!Handle(c),
             UNCHANGED <<pc, stop, connected, primary, pubConnected, open, doing, overlapped>>,
             UNCHANGED <<peer, marked, unguarded>>
      PROVE  \E s \in {"gated", "dropped", "processing"} :
               /\ here' = [here EXCEPT ![c] = s] /\ here[c] = "none"
               /\ s = "gated" => ~open
               /\ pc \in L!Building => s \in {"gated", "dropped"}
  <2>1. CASE open
    <3>1. here' = [here EXCEPT ![c] = "processing"] /\ here[c] = "none"
      BY <1>1, <2>1 DEF L!Handle
    <3>2. pc \notin L!Building
      BY <2>1 DEF LifeInv, Unelected
    <3>3. QED
      BY <3>1, <3>2
  <2>2. CASE ~open
    <3>1. PICK s \in {"gated", "dropped"} : here' = [here EXCEPT ![c] = s]
      BY <1>1, <2>2 DEF L!Handle
    <3>2. here[c] = "none"
      BY <1>1 DEF L!Handle
    <3>3. QED
      BY <2>2, <3>1, <3>2
  <2>3. QED
    BY <2>1, <2>2
<1>2. CASE L!Inject
  <2>1. /\ "injected" \in L!Deliveries
        /\ UNCHANGED <<pc, stop, connected, primary, pubConnected, open, doing, overlapped>>
        /\ UNCHANGED <<peer, marked, unguarded>>
    BY <1>2, Zenon DEF L!Inject, L!gating, L!Deliveries
  <2>2. CASE L!Handle("injected")
    BY <1>0, <1>1, <2>1, <2>2 DEF L!Stages
  <2>3. CASE here["injected"] = "none" /\ here' = [here EXCEPT !["injected"] = "unavailable"]
    BY <1>0, <2>1, <2>3 DEF L!Stages
  <2>4. QED
    BY <1>2, <2>2, <2>3, Zenon DEF L!Inject
<1>3. CASE L!Receive
  <2>1. /\ "relayed" \in L!Deliveries /\ L!Handle("relayed")
        /\ UNCHANGED <<pc, stop, connected, primary, pubConnected, open, doing, overlapped>>
        /\ UNCHANGED <<peer, marked, unguarded>>
    BY <1>3, Zenon DEF L!Receive, L!gating, L!Deliveries
  <2>2. QED
    BY <1>0, <1>1, <2>1 DEF L!Stages
<1>4. ASSUME NEW c \in L!Deliveries, L!Expire(c)
      PROVE  /\ here[c] = "gated" /\ here' = [here EXCEPT ![c] = "dropped"]
             /\ UNCHANGED <<pc, stop, connected, primary, pubConnected, open, doing>>
             /\ UNCHANGED overlapped
             /\ UNCHANGED <<peer, marked, unguarded>>
  BY <1>4, Zenon DEF L!Expire, L!gating
<1>5. ASSUME NEW c \in L!Deliveries, L!Publish(c)
      PROVE  /\ here[c] = "passed" /\ here' = [here EXCEPT ![c] = "handed"]
             /\ UNCHANGED <<pc, stop, connected, primary, pubConnected, open, doing>>
             /\ UNCHANGED overlapped
             /\ UNCHANGED <<peer, marked, unguarded>>
  BY <1>5, Zenon DEF L!Publish, L!gating
<1>6. ASSUME NEW c \in L!Deliveries, L!LookUp(c)
      PROVE  /\ here[c] = "processing"
             /\ UNCHANGED <<pc, stop, connected, primary, pubConnected, open, doing>>
             /\ UNCHANGED overlapped
             /\ UNCHANGED peer
             /\ \/ marked' = TRUE /\ UNCHANGED unguarded
                   /\ \E s \in L!Verdicts : here' = [here EXCEPT ![c] = s]
                \/ /\ here' = [here EXCEPT ![c] = "passed"] /\ unguarded' = TRUE
                   /\ marked' \in {marked, TRUE}
  BY <1>6, Zenon DEF L!LookUp, L!gating
<1>7. ASSUME NEW c \in L!Deliveries,
             here[c] \notin {"none", "unavailable", "gated", "dropped"}
      PROVE  pc \notin L!Building
  BY <1>7 DEF LifeInv, Unelected
<1>8. ASSUME NEW c \in L!Deliveries, L!LookUp(c)
      PROVE  \E s \in L!Stages :
               /\ here' = [here EXCEPT ![c] = s] /\ s \in {"seen", "burnt", "passed"}
               /\ marked' \in BOOLEAN /\ unguarded' \in BOOLEAN
               /\ \/ /\ marked' = TRUE /\ UNCHANGED unguarded
                     /\ IF marked THEN s = "seen" ELSE s \in {"passed", "burnt"}
                  \/ s = "passed" /\ unguarded' = TRUE /\ marked' \in {marked, TRUE}
  <2>1. CASE /\ here' = [here EXCEPT ![c] = "passed"] /\ unguarded' = TRUE
             /\ marked' \in {marked, TRUE}
    BY <1>0, <2>1 DEF L!Stages
  <2>2. CASE marked' = TRUE /\ UNCHANGED unguarded
             /\ \E s \in L!Verdicts : here' = [here EXCEPT ![c] = s]
    BY <1>0, <2>2 DEF L!Stages, L!Verdicts
  <2>3. QED
    BY <1>6, <1>8, <2>1, <2>2, Zenon
<1>9. QED
  BY <1>0, <1>2, <1>3, <1>4, <1>5, <1>6, <1>7, <1>8 DEF L!Stages

LEMMA LifeStep == LifeInv /\ (L!Next \/ UNCHANGED L!vars) => LifeInv'
<1> SUFFICES ASSUME LifeInv, L!Next \/ UNCHANGED L!vars
             PROVE  LifeInv'
  OBVIOUS
<1>1. CASE L!Main
  BY <1>1, MainKeepsInv
<1>2. CASE \E k \in L!Callers : L!Moves(k) \/ L!Elect
  BY <1>2, CallerKeepsInv
<1>3. CASE \/ L!Inject \/ L!Receive
           \/ \E c \in L!Deliveries : L!Expire(c) \/ L!LookUp(c) \/ L!Publish(c)
  BY <1>3, CopySteps, CopyKeepsInv
<1>4. CASE L!Kill \/ L!Panic
  <2>1. L!Ends("dead")
    BY <1>4, Zenon DEF L!Kill, L!Panic
  <2>2. QED
    BY <2>1, EndKeepsInv DEF L!Over
<1>5. CASE L!Signal
  <2>1. /\ stop' = TRUE /\ UNCHANGED <<pc, connected, primary, pubConnected, open, doing>>
        /\ UNCHANGED <<overlapped, here, peer, marked, unguarded>>
    BY <1>5, Zenon DEF L!Signal, L!gating, L!copies
  <2>2. QED
    BY <2>1 DEF LifeInv, LifeTypes, Unelected
<1>6. CASE L!ChangeConnection
  <2>1. /\ connected' \in BOOLEAN /\ doing' = [doing EXCEPT !["callback"] = "asks"]
        /\ UNCHANGED <<pc, stop, primary, pubConnected, open, overlapped>>
        /\ UNCHANGED <<here, peer, marked, unguarded>>
        /\ pc \notin {"listening", "registered"}
    BY <1>6 DEF L!ChangeConnection, L!copies, L!Serving
  <2>2. /\ doing' \in [L!Callers -> Doings]
        /\ \A j \in L!Callers : doing'[j] = IF j = "callback" THEN "asks" ELSE doing[j]
    BY <2>1, CallerMoves DEF LifeInv, Doings, L!Callers
  <2>3. LifeTypes'
    BY <2>1, <2>2 DEF LifeInv, LifeTypes
  <2>4. QED
    BY <2>1, <2>2, <2>3 DEF LifeInv, Unelected, L!Callers
<1>7. CASE L!PeerLookUp \/ L!PeerPublish
  <2>1. /\ peer' \in {"seen", "passed", "burnt", "handed"} /\ marked' \in {marked, TRUE}
        /\ UNCHANGED <<pc, stop, connected, primary, pubConnected, open, doing, overlapped>>
        /\ UNCHANGED <<here, unguarded>>
    BY <1>7 DEF L!PeerLookUp, L!PeerPublish, L!gating, L!Verdicts
  <2>2. QED
    BY <2>1 DEF LifeInv, LifeTypes, Unelected
<1>8. CASE UNCHANGED L!vars
  BY <1>8 DEF L!vars, L!gating, L!copies, LifeInv, LifeTypes, Unelected
<1>9. QED
  BY <1>1, <1>2, <1>3, <1>4, <1>5, <1>6, <1>7, <1>8, Zenon DEF L!Next, L!Processing, L!Callers

-----------------------------------------------------------------------------
(* Lifecycle: past dedup.                                                  *)

\* Copies that have passed dedup; the peer's is "peer".
Past ==
  {c \in L!Deliveries : here[c] \in {"passed", "handed"}}
  \cup {k \in {"peer"} : peer \in {"passed", "handed"}}

\* Who passes finds no mark and leaves one; and an id is marked, or a copy
\* recognised as seen, only when some copy has gone on past dedup, or was burnt.
MarkInv ==
  /\ ~unguarded => /\ Past # {} => marked
                   /\ \A x, y \in Past : x = y
  /\ marked => Past # {} \/ L!Burnt
  /\ \A c \in L!Deliveries : here[c] = "seen" => marked
  /\ peer = "seen" => marked

LEMMA MarkInit == L!Init => MarkInv
<1> SUFFICES ASSUME L!Init
             PROVE  MarkInv
  OBVIOUS
<1>1. peer = "gated" /\ marked = FALSE /\ here = [c \in L!Deliveries |-> "none"]
  BY Zenon DEF L!Init
<1>2. Past = {}
  BY <1>1 DEF Past
<1>3. QED
  BY <1>1, <1>2 DEF MarkInv

\* A step that takes no copy past dedup.
LEMMA MarkFrame ==
  ASSUME MarkInv, Past' = Past, L!Burnt => L!Burnt', UNCHANGED <<marked, unguarded>>,
         \A c \in L!Deliveries : here'[c] = "seen" => here[c] = "seen",
         peer' = "seen" => peer = "seen"
  PROVE  MarkInv'
  BY DEF MarkInv

\* Copy x looks its id up, or its peer does.
LEMMA MarkLookUp ==
  ASSUME MarkInv, NEW x \in L!Deliveries \cup {"peer"}, x \notin Past,
         marked \in BOOLEAN, marked' = TRUE, UNCHANGED unguarded,
         L!Burnt => L!Burnt',
         \/ marked /\ Past' = Past
         \/ ~marked /\ Past' = Past \cup {x}
         \/ ~marked /\ Past' = Past /\ L!Burnt'
  PROVE  MarkInv'
<1>1. marked' => Past' # {} \/ L!Burnt'
  BY DEF MarkInv
<1>2. ~unguarded => \A y, z \in Past' : y = z
  BY DEF MarkInv
<1>3. QED
  BY <1>1, <1>2 DEF MarkInv

LEMMA MarkStep == LifeInv /\ MarkInv /\ (L!Next \/ UNCHANGED L!vars) => MarkInv'
<1> SUFFICES ASSUME LifeInv, MarkInv, L!Next \/ UNCHANGED L!vars
             PROVE  MarkInv'
  OBVIOUS
<1>1. CASE UNCHANGED <<here, peer, marked, unguarded>>
  <2>1. Past' = Past /\ (L!Burnt <=> L!Burnt')
    BY <1>1 DEF Past, L!Burnt
  <2>2. QED
    BY <1>1, <2>1, MarkFrame
<1>2. CASE \E k \in L!Callers : L!applyGateState(k)
  <2>1. PICK k \in L!Callers : Applying(k)
    BY <1>2, CallerSteps
  <2>2. /\ \A c \in L!Deliveries : /\ here[c] # "gated" => here'[c] = here[c]
                                   /\ here'[c] # here[c] => here'[c] = "processing"
        /\ UNCHANGED <<peer, marked, unguarded>>
    BY <2>1 DEF Applying
  <2>3. Past' = Past
    BY <2>2 DEF Past
  <2>4. L!Burnt => L!Burnt'
    BY <2>2 DEF L!Burnt
  <2>5. QED
    BY <2>2, <2>3, <2>4, MarkFrame
<1>3. CASE \/ L!Inject \/ L!Receive
           \/ \E c \in L!Deliveries : L!Expire(c) \/ L!LookUp(c) \/ L!Publish(c)
  <2>1. PICK c \in L!Deliveries, s \in L!Stages :
           /\ here' = [here EXCEPT ![c] = s] /\ UNCHANGED peer
           /\ \/ /\ here[c] = "none" /\ s \in {"unavailable", "gated", "dropped", "processing"}
                 /\ UNCHANGED <<marked, unguarded>>
              \/ here[c] = "gated" /\ s = "dropped" /\ UNCHANGED <<marked, unguarded>>
              \/ /\ here[c] = "processing" /\ marked' = TRUE /\ UNCHANGED unguarded
                 /\ IF marked THEN s = "seen" ELSE s \in {"passed", "burnt"}
              \/ /\ here[c] = "processing" /\ s = "passed" /\ unguarded' = TRUE
                 /\ marked' \in {marked, TRUE}
              \/ here[c] = "passed" /\ s = "handed" /\ UNCHANGED <<marked, unguarded>>
    BY <1>3, CopySteps
  <2>2. \A d \in L!Deliveries : here'[d] = IF d = c THEN s ELSE here[d]
    BY <2>1, CopyMoves DEF LifeInv
  <2>3. "peer" \notin L!Deliveries
    BY DEF L!Deliveries
  <2>4. Past' = IF s \in {"passed", "handed"} THEN Past \cup {c} ELSE Past \ {c}
    BY <2>1, <2>2, <2>3 DEF Past
  <2>5. L!Burnt' <=> IF here[c] = "burnt" THEN L!Burnt' ELSE L!Burnt \/ s = "burnt"
    BY <2>1, <2>2 DEF L!Burnt
  <2>6. c \in Past <=> here[c] \in {"passed", "handed"}
    BY <2>3 DEF Past
  <2>7. CASE /\ here[c] \in {"none", "gated"} /\ UNCHANGED <<marked, unguarded>>
             /\ s \in {"unavailable", "gated", "dropped", "processing"}
    BY <2>1, <2>2, <2>4, <2>5, <2>6, <2>7, MarkFrame
  <2>8. CASE here[c] = "passed" /\ s = "handed" /\ UNCHANGED <<marked, unguarded>>
    BY <2>1, <2>2, <2>4, <2>5, <2>6, <2>8, MarkFrame
  <2>9. CASE /\ here[c] = "processing" /\ marked' = TRUE /\ UNCHANGED unguarded
             /\ IF marked THEN s = "seen" ELSE s \in {"passed", "burnt"}
    <3>1. marked \in BOOLEAN
      BY DEF LifeInv, LifeTypes
    <3>2. CASE marked
      BY <2>4, <2>5, <2>6, <2>9, <3>1, <3>2, MarkLookUp
    <3>3. CASE ~marked
      BY <2>4, <2>5, <2>6, <2>9, <3>1, <3>3, MarkLookUp
    <3>4. QED
      BY <3>2, <3>3
  <2>10. CASE /\ here[c] = "processing" /\ s = "passed" /\ unguarded' = TRUE
              /\ marked' \in {marked, TRUE}
    <3>1. \A d \in L!Deliveries : here'[d] = "seen" => marked'
      BY <2>2, <2>10 DEF MarkInv
    <3>2. Past' # {}
      BY <2>4, <2>10
    <3>3. peer' = "seen" => marked'
      BY <2>1, <2>10 DEF MarkInv
    <3>4. QED
      BY <2>10, <3>1, <3>2, <3>3 DEF MarkInv
  <2>11. QED
    BY <2>1, <2>7, <2>8, <2>9, <2>10
<1>4. CASE L!PeerLookUp
  <2>1. /\ peer = "gated" /\ marked' = TRUE /\ UNCHANGED <<here, unguarded>>
        /\ (marked /\ peer' = "seen") \/ (~marked /\ peer' \in {"passed", "burnt"})
    BY <1>4 DEF L!PeerLookUp, L!Verdicts
  <2>2. "peer" \notin Past /\ marked \in BOOLEAN
    BY <2>1 DEF Past, L!Deliveries, LifeInv, LifeTypes
  <2>3. L!Burnt' <=> L!Burnt \/ peer' = "burnt"
    BY <2>1 DEF L!Burnt
  <2>4. Past' = IF peer' = "passed" THEN Past \cup {"peer"} ELSE Past
    BY <2>1 DEF Past
  <2>5. CASE marked
    BY <2>1, <2>2, <2>3, <2>4, <2>5, MarkLookUp
  <2>6. CASE ~marked
    BY <2>1, <2>2, <2>3, <2>4, <2>6, MarkLookUp
  <2>7. QED
    BY <2>5, <2>6
<1>5. CASE L!PeerPublish
  <2>1. peer = "passed" /\ peer' = "handed" /\ UNCHANGED <<here, marked, unguarded>>
    BY <1>5, Zenon DEF L!PeerPublish
  <2>2. Past' = Past /\ (L!Burnt => L!Burnt')
    BY <2>1 DEF Past, L!Burnt
  <2>3. QED
    BY <2>1, <2>2, MarkFrame
<1>6. L!Main => UNCHANGED <<here, peer, marked, unguarded>>
  BY MainSteps, EndFacts, Zenon DEF MainAlone
<1>7. L!Signal \/ L!Kill \/ L!ChangeConnection \/ L!Panic \/ L!Elect \/ UNCHANGED L!vars
        => UNCHANGED <<here, peer, marked, unguarded>>
  BY Zenon DEF L!Signal, L!Kill, L!ChangeConnection, L!Panic, L!Elect, L!Ends, L!copies, L!vars
<1>8. \A k \in L!Callers : L!Ask(k) \/ L!SetPubConnected(k)
                             => UNCHANGED <<here, peer, marked, unguarded>>
  BY Zenon DEF L!Ask, L!SetPubConnected, L!copies
<1>9. QED
  BY <1>1, <1>2, <1>3, <1>4, <1>5, <1>6, <1>7, <1>8, Zenon DEF L!Next, L!Processing, L!Moves

-----------------------------------------------------------------------------
(* Lifecycle: the gate, and what has been accepted.                        *)

\* Nothing waits behind an open gate.  As long as nobody has overlapped anybody,
\* one caller is Acting at most, and does what the role and the connections the
\* pipeline knows of ask for; when it is done the gate is as they ask.
Busy(k) == doing[k] \in L!Acting
Open    == primary /\ pubConnected

NoneWaits   == \A c \in L!Deliveries : here[c] = "gated" => ~open
OneActs     == ~overlapped => \A j, k \in L!Callers : Busy(j) /\ Busy(k) => j = k
DoesAsAsked == ~overlapped => \A k \in L!Callers : /\ doing[k] = "opens" => Open
                                                   /\ doing[k] = "shuts" => ~Open
GateAsAsked == ~overlapped /\ (\A k \in L!Callers : ~Busy(k)) => (open <=> Open)

GateInv == NoneWaits /\ OneActs /\ DoesAsAsked /\ GateAsAsked

Told(k) == doing[k] \in {"idle", "opens", "shuts"}

\* What was seen of the connections is still so, unless a callback is about to
\* tell; and what the pipeline knows of them, once everybody has told it.
LookInv ==
  /\ doing["election"] \notin {"asks", "saw up", "saw down"}
  /\ pc \in {"made"} \cup L!Serving =>
       /\ doing["callback"] = "saw up" => connected
       /\ doing["callback"] = "saw down" => ~connected
       /\ ~overlapped /\ doing["callback"] # "asks" =>
            /\ doing["main"] = "saw up" => connected
            /\ doing["main"] = "saw down" => ~connected
  /\ pc \in L!Serving /\ ~overlapped /\ Told("main") /\ Told("callback")
       => pubConnected = connected

\* What is accepted is held for a reason: when no caller is on its way to the
\* gate and none has overlapped another, a message waits only if this process is
\* secondary or has no broker; and one thrown away as seen has another copy
\* further on, in this process or its peer, or one burnt by a lost reply.
AcceptedHeld ==
  /\ pc \in L!Serving /\ ~overlapped /\ (\A k \in L!Callers : doing[k] = "idle")
       => \A c \in L!Deliveries : here[c] = "gated" => ~(primary /\ connected)
  /\ (peer = "seen" \/ \E c \in L!Deliveries : here[c] = "seen") => Past # {} \/ L!Burnt

HeldInv == MarkInv /\ GateInv /\ LookInv

LEMMA HeldInit == L!Init => HeldInv
<1> SUFFICES ASSUME L!Init
             PROVE  HeldInv
  OBVIOUS
<1>1. /\ pc = "listening" /\ open = FALSE /\ primary = FALSE /\ overlapped = FALSE
      /\ doing = [k \in L!Callers |-> "idle"] /\ here = [c \in L!Deliveries |-> "none"]
  BY Zenon DEF L!Init
<1>2. GateInv
  BY <1>1 DEF GateInv, NoneWaits, OneActs, DoesAsAsked, GateAsAsked, Busy, Open, L!Acting
<1>3. LookInv
  BY <1>1 DEF LookInv, L!Callers, L!Serving
<1>4. QED
  BY <1>2, <1>3, MarkInit DEF HeldInv

\* A caller goes from idle to asking, or back.
LEMMA GateAside ==
  ASSUME GateInv, NEW k \in L!Callers, ~Busy(k), NEW s \in {"idle", "asks"},
         \A j \in L!Callers : doing'[j] = IF j = k THEN s ELSE doing[j],
         UNCHANGED <<primary, pubConnected, open, overlapped, here>>
  PROVE  GateInv'
<1>1. \A j \in L!Callers : Busy(j)' <=> Busy(j)
  BY DEF Busy, L!Acting
<1>2. UNCHANGED Open
  BY DEF Open
<1>3. NoneWaits'
  BY DEF GateInv, NoneWaits
<1>4. OneActs'
  BY <1>1 DEF GateInv, OneActs
<1>5. DoesAsAsked'
  BY <1>2 DEF GateInv, DoesAsAsked
<1>6. GateAsAsked'
  BY <1>1, <1>2 DEF GateInv, GateAsAsked
<1>7. QED
  BY <1>3, <1>4, <1>5, <1>6 DEF GateInv

\* A caller is the only one to act, with a look or a decision of its own.
LEMMA GateAlone ==
  ASSUME GateInv, NEW k \in L!Callers, NEW s \in L!Acting,
         ~overlapped' => \A j \in L!Callers \ {k} : ~Busy(j),
         \A j \in L!Callers : doing'[j] = IF j = k THEN s ELSE doing[j],
         s = "opens" => Open', s = "shuts" => ~Open',
         UNCHANGED <<open, here>>
  PROVE  GateInv'
<1>1. \A j \in L!Callers : Busy(j)' <=> (j = k \/ Busy(j))
  BY DEF Busy
<1>2. NoneWaits'
  BY DEF GateInv, NoneWaits
<1>3. OneActs'
  BY <1>1 DEF OneActs
<1>4. DoesAsAsked'
  <2>1. ~overlapped' => \A j \in L!Callers \ {k} : doing'[j] \notin {"opens", "shuts"}
    BY DEF Busy, L!Acting
  <2>2. QED
    BY <2>1 DEF DoesAsAsked
<1>5. GateAsAsked'
  BY <1>1 DEF GateAsAsked
<1>6. QED
  BY <1>2, <1>3, <1>4, <1>5 DEF GateInv

\* A step that moves no caller, role or connection, and adds nothing to an open gate.
LEMMA GateFrame ==
  ASSUME GateInv, LookInv,
         UNCHANGED <<connected, primary, pubConnected, open, doing, overlapped>>,
         pc' \in {"made"} \cup L!Serving => pc \in {"made"} \cup L!Serving,
         pc' \in L!Serving => pc \in L!Serving,
         \A c \in L!Deliveries : here'[c] = "gated" => here[c] = "gated" \/ ~open
  PROVE  GateInv' /\ LookInv'
<1>1. GateInv'
  <2>1. UNCHANGED Open /\ \A k \in L!Callers : Busy(k)' <=> Busy(k)
    BY DEF Open, Busy
  <2>2. QED
    BY <2>1 DEF GateInv, NoneWaits, OneActs, DoesAsAsked, GateAsAsked
<1>2. LookInv'
  BY DEF LookInv, Told
<1>3. QED
  BY <1>1, <1>2

LEMMA EndKeepsGate ==
  ASSUME NEW how \in L!Over, L!Ends(how)
  PROVE  GateInv' /\ LookInv'
<1>1. /\ pc' = how /\ primary' = FALSE /\ open' = FALSE
      /\ doing' = [k \in L!Callers |-> "idle"]
  BY EndFacts, Zenon
<1>2. GateInv'
  BY <1>1 DEF GateInv, NoneWaits, OneActs, DoesAsAsked, GateAsAsked, Busy, Open, L!Acting
<1>3. pc' \notin {"made"} \cup L!Serving
  BY <1>1 DEF L!Over, L!Serving
<1>4. LookInv'
  BY <1>1, <1>3 DEF LookInv, L!Callers
<1>5. QED
  BY <1>2, <1>4

LEMMA MainKeepsGate ==
  ASSUME LifeInv, GateInv, LookInv, L!Main
  PROVE  GateInv' /\ LookInv'
<1>1. CASE MainAlone
  <2>1. CASE pc = "assigned" /\ pc' = "made"
    <3>1. /\ doing["callback"] \in {"idle", "asks"} /\ doing["main"] = "idle"
          /\ UNCHANGED <<connected, primary, pubConnected, open, doing, overlapped, here>>
      BY <1>1, <2>1 DEF LifeInv, Unelected, MainAlone, L!Building
    <3>2. GateInv'
      BY <3>1 DEF GateInv, NoneWaits, OneActs, DoesAsAsked, GateAsAsked, Busy, Open
    <3>3. LookInv'
      BY <2>1, <3>1 DEF LookInv, L!Serving
    <3>4. QED
      BY <3>2, <3>3
  <2>2. CASE ~(pc = "assigned" /\ pc' = "made")
    <3>1. /\ UNCHANGED <<connected, primary, pubConnected, open, doing, overlapped, here>>
          /\ pc' \in L!Serving => pc \in L!Serving
          /\ pc' \in {"made"} \cup L!Serving => pc \in {"made"} \cup L!Serving
      BY <1>1, <2>2 DEF MainAlone, L!Serving
    <3>2. QED
      BY <3>1, GateFrame
  <2>3. QED
    BY <2>1, <2>2
<1>2. CASE /\ pc = "made" /\ pc' = "wired" /\ doing["main"] = "idle"
           /\ doing' = [doing EXCEPT !["main"] = "asks"]
           /\ UNCHANGED <<stop, connected, primary, pubConnected, open, overlapped>>
           /\ UNCHANGED <<here, peer, marked, unguarded>>
  <2>1. \A k \in L!Callers : doing'[k] = IF k = "main" THEN "asks" ELSE doing[k]
    BY <1>2 DEF LifeInv, LifeTypes
  <2>2. GateInv'
    BY <1>2, <2>1, GateAside DEF Busy, L!Acting, L!Callers
  <2>3. /\ doing'["main"] = "asks" /\ doing'["callback"] = doing["callback"]
        /\ doing'["election"] = doing["election"]
    BY <2>1 DEF L!Callers
  <2>4. LookInv'
    BY <1>2, <2>3 DEF LookInv, L!Serving, Told
  <2>5. QED
    BY <2>2, <2>4
<1>3. CASE /\ pc = "stopping" /\ pc' = "closed" /\ connected' = FALSE
           /\ UNCHANGED <<stop, primary, pubConnected, open, doing, overlapped>>
           /\ UNCHANGED <<here, peer, marked, unguarded>>
  <2>1. GateInv'
    BY <1>3 DEF GateInv, NoneWaits, OneActs, DoesAsAsked, GateAsAsked, Busy, Open
  <2>2. LookInv'
    BY <1>3 DEF LookInv, L!Serving
  <2>3. QED
    BY <2>1, <2>2
<1>4. CASE L!Ends("exited")
  BY <1>4, EndKeepsGate DEF L!Over
<1>5. QED
  BY <1>1, <1>2, <1>3, <1>4, MainSteps, Zenon

LEMMA AskKeepsGate ==
  ASSUME LifeInv, GateInv, LookInv, NEW k \in L!Callers, Asking(k)
  PROVE  GateInv' /\ LookInv'
<1>1. k # "election"
  BY DEF LookInv, Asking
<1>2. CASE pc = "assigned"
  <2>1. \A j \in L!Callers : doing'[j] = IF j = k THEN "idle" ELSE doing[j]
    BY <1>2 DEF Asking, LifeInv, LifeTypes
  <2>2. GateInv'
    BY <1>2, <2>1, GateAside DEF Asking, Busy, L!Acting
  <2>3. LookInv'
    BY <1>1, <1>2, <2>1 DEF Asking, LookInv, L!Serving, L!Callers
  <2>4. QED
    BY <2>2, <2>3
<1>3. CASE pc # "assigned"
  <2>1. PICK s \in {"saw up", "saw down"} :
          doing' = [doing EXCEPT ![k] = s] /\ (s = "saw up" <=> connected)
    BY <1>3 DEF Asking
  <2>2. \A j \in L!Callers : doing'[j] = IF j = k THEN s ELSE doing[j]
    BY <2>1 DEF LifeInv, LifeTypes
  <2>3. ~overlapped' => \A j \in L!Callers \ {k} : ~Busy(j)
    BY <1>1, <1>3, Zenon DEF Asking, Busy
  <2>4. UNCHANGED <<pc, connected, primary, pubConnected, open, here>>
    BY DEF Asking
  <2>5. s \in L!Acting /\ s # "opens" /\ s # "shuts"
    BY <2>1 DEF L!Acting
  <2>6. GateInv'
    BY <2>2, <2>3, <2>4, <2>5, GateAlone
  <2>7. LookInv'
    BY <1>1, <2>1, <2>2, <2>3, <2>4 DEF LookInv, L!Callers, L!Acting, Told, Busy
  <2>8. QED
    BY <2>6, <2>7
<1>4. QED
  BY <1>2, <1>3

LEMMA SetKeepsGate ==
  ASSUME LifeInv, GateInv, LookInv, NEW k \in L!Callers, Setting(k)
  PROVE  GateInv' /\ LookInv'
<1>1. k # "election"
  BY DEF LookInv, Setting
<1>2. PICK s \in {"opens", "shuts"} :
        doing' = [doing EXCEPT ![k] = s] /\ (s = "opens" <=> (primary /\ pubConnected'))
  BY DEF Setting
<1>3. \A j \in L!Callers : doing'[j] = IF j = k THEN s ELSE doing[j]
  BY <1>2 DEF LifeInv, LifeTypes
<1>4. UNCHANGED <<pc, connected, primary, open, overlapped, here>>
  BY DEF Setting
<1>5. doing[k] \in L!Acting /\ s \in L!Acting /\ pubConnected' = (doing[k] = "saw up")
  BY <1>2 DEF Setting, L!Acting
<1>6. ~overlapped => \A j \in L!Callers \ {k} : ~Busy(j)
  BY <1>5 DEF GateInv, OneActs, Busy
<1>7. GateInv'
  <2>1. ~overlapped' => \A j \in L!Callers \ {k} : ~Busy(j)
    BY <1>4, <1>6
  <2>2. s = "opens" <=> Open'
    BY <1>2, <1>4 DEF Open
  <2>3. QED
    BY <1>2, <1>3, <1>4, <1>5, <2>1, <2>2, GateAlone
<1>8. ASSUME pc \in L!Serving, ~overlapped, Told("main")', Told("callback")'
      PROVE  pubConnected' = connected
  <2>1. k = "callback" \/ (k = "main" /\ doing["callback"] # "asks")
    BY <1>1, <1>3, <1>8 DEF L!Callers, Told
  <2>2. /\ doing[k] = "saw up" => connected
        /\ doing[k] = "saw down" => ~connected
    BY <1>8, <2>1 DEF LookInv
  <2>3. connected \in BOOLEAN /\ doing[k] \in {"saw up", "saw down"}
    BY DEF Setting, LifeInv, LifeTypes
  <2>4. QED
    BY <1>5, <2>2, <2>3
<1>9. /\ doing'["election"] \notin {"asks", "saw up", "saw down"}
      /\ pc \in {"made"} \cup L!Serving =>
           /\ doing'["callback"] = "saw up" => connected
           /\ doing'["callback"] = "saw down" => ~connected
           /\ ~overlapped /\ doing'["callback"] # "asks" =>
                /\ doing'["main"] = "saw up" => connected
                /\ doing'["main"] = "saw down" => ~connected
  <2>1. k = "callback" /\ ~overlapped => doing["main"] \notin {"saw up", "saw down"}
    BY <1>6 DEF Busy, L!Acting, L!Callers
  <2>2. QED
    BY <1>1, <1>2, <1>3, <2>1 DEF LookInv, L!Callers
<1>10. LookInv'
  BY <1>4, <1>8, <1>9 DEF LookInv
<1>11. QED
  BY <1>7, <1>10

LEMMA ElectKeepsGate ==
  ASSUME LifeInv, GateInv, LookInv, Electing
  PROVE  GateInv' /\ LookInv'
<1>1. PICK s \in {"opens", "shuts"} :
        /\ doing' = [doing EXCEPT !["election"] = s]
        /\ s = "opens" <=> (primary' /\ pubConnected)
  BY DEF Electing
<1>2. \A j \in L!Callers : doing'[j] = IF j = "election" THEN s ELSE doing[j]
  BY <1>1 DEF LifeInv, LifeTypes
<1>3. UNCHANGED <<pc, connected, pubConnected, open, here>>
  BY DEF Electing
<1>4. ~overlapped' => ~overlapped /\ \A j \in L!Callers \ {"election"} : ~Busy(j)
  BY Zenon DEF Electing, Busy
<1>5. GateInv'
  <2>1. "election" \in L!Callers /\ s \in L!Acting
    BY DEF L!Callers, L!Acting
  <2>2. s = "opens" <=> Open'
    BY <1>1, <1>3 DEF Open
  <2>3. QED
    BY <1>1, <1>2, <1>3, <1>4, <2>1, <2>2, GateAlone
<1>6. LookInv'
  BY <1>1, <1>2, <1>3, <1>4 DEF LookInv, L!Callers, Told
<1>7. QED
  BY <1>5, <1>6

LEMMA ApplyKeepsGate ==
  ASSUME LifeInv, GateInv, LookInv, NEW k \in L!Callers, Applying(k)
  PROVE  GateInv' /\ LookInv'
<1>1. \A j \in L!Callers : doing'[j] = IF j = k THEN "idle" ELSE doing[j]
  BY DEF Applying, LifeInv, LifeTypes
<1>2. UNCHANGED <<pc, connected, primary, pubConnected, overlapped>>
  BY DEF Applying
<1>3. \A c \in L!Deliveries : here'[c] = "gated" => ~open'
  BY DEF Applying
<1>4. doing[k] \in L!Acting /\ (open' <=> doing[k] = "opens") /\ doing[k] \in {"opens", "shuts"}
  BY DEF Applying, L!Acting
<1>5. "idle" \notin L!Acting
  BY DEF L!Acting
<1>6. GateInv'
  <2>1. ~overlapped => \A j \in L!Callers \ {k} : ~Busy(j)
    BY <1>4 DEF GateInv, OneActs, Busy
  <2>2. ~overlapped => (open' <=> Open)
    BY <1>4 DEF GateInv, DoesAsAsked
  <2>3. \A j \in L!Callers : Busy(j)' => j # k /\ Busy(j)
    BY <1>1, <1>5 DEF Busy
  <2>4. ~overlapped => \A j \in L!Callers : ~Busy(j)' /\ doing'[j] \notin {"opens", "shuts"}
    BY <1>1, <2>1, <2>3 DEF Busy, L!Acting
  <2>5. Open' <=> Open
    BY <1>2 DEF Open
  <2>6. QED
    BY <1>2, <1>3, <2>2, <2>4, <2>5 DEF GateInv, NoneWaits, OneActs, DoesAsAsked, GateAsAsked
<1>7. LookInv'
  BY <1>1, <1>2, <1>4 DEF LookInv, L!Callers, Told
<1>8. QED
  BY <1>6, <1>7

LEMMA GateStep ==
  LifeInv /\ GateInv /\ LookInv /\ (L!Next \/ UNCHANGED L!vars) => GateInv' /\ LookInv'
<1> SUFFICES ASSUME LifeInv, GateInv, LookInv, L!Next \/ UNCHANGED L!vars
             PROVE  GateInv' /\ LookInv'
  OBVIOUS
<1>1. CASE L!Main
  BY <1>1, MainKeepsGate
<1>2. CASE \E k \in L!Callers : L!Moves(k)
  <2>1. PICK k \in L!Callers : Asking(k) \/ Setting(k) \/ Applying(k)
    BY <1>2, CallerSteps DEF L!Moves
  <2>2. QED
    BY <2>1, AskKeepsGate, SetKeepsGate, ApplyKeepsGate
<1>3. CASE L!Elect
  <2>1. Electing
    BY <1>3, CallerSteps DEF L!Callers
  <2>2. QED
    BY <2>1, ElectKeepsGate
<1>4. CASE L!Kill \/ L!Panic
  <2>1. L!Ends("dead")
    BY <1>4, Zenon DEF L!Kill, L!Panic
  <2>2. QED
    BY <2>1, EndKeepsGate DEF L!Over
<1>5. CASE L!ChangeConnection
  <2>1. /\ doing["callback"] = "idle" /\ doing' = [doing EXCEPT !["callback"] = "asks"]
        /\ UNCHANGED <<pc, primary, pubConnected, open, overlapped, here>>
    BY <1>5, Zenon DEF L!ChangeConnection, L!copies
  <2>2. \A j \in L!Callers : doing'[j] = IF j = "callback" THEN "asks" ELSE doing[j]
    BY <2>1 DEF LifeInv, LifeTypes
  <2>3. GateInv'
    BY <2>1, <2>2, GateAside DEF Busy, L!Acting, L!Callers
  <2>4. /\ doing'["main"] = doing["main"] /\ doing'["callback"] = "asks"
        /\ doing'["election"] = doing["election"]
    BY <2>2 DEF L!Callers
  <2>5. LookInv'
    BY <2>1, <2>4 DEF LookInv, Told
  <2>6. QED
    BY <2>3, <2>5
<1>6. CASE \/ L!Inject \/ L!Receive
           \/ \E c \in L!Deliveries : L!Expire(c) \/ L!LookUp(c) \/ L!Publish(c)
  <2>1. PICK c \in L!Deliveries, s \in L!Stages :
          /\ here' = [here EXCEPT ![c] = s]
          /\ UNCHANGED <<pc, stop, connected, primary, pubConnected, open, doing, overlapped>>
          /\ s = "gated" => ~open
    BY <1>6, CopySteps
  <2>2. \A d \in L!Deliveries : here'[d] = IF d = c THEN s ELSE here[d]
    BY <2>1, CopyMoves DEF LifeInv
  <2>3. QED
    BY <2>1, <2>2, GateFrame
<1>7. CASE L!Signal \/ L!PeerLookUp \/ L!PeerPublish \/ UNCHANGED L!vars
  <2>1. UNCHANGED <<pc, connected, primary, pubConnected, open, doing, overlapped, here>>
    BY <1>7, Zenon DEF L!Signal, L!PeerLookUp, L!PeerPublish, L!gating, L!copies, L!vars
  <2>2. QED
    BY <2>1, GateFrame
<1>8. QED
  BY <1>1, <1>2, <1>3, <1>4, <1>5, <1>6, <1>7, Zenon DEF L!Next, L!Processing

LEMMA HeldStep == LifeInv /\ HeldInv /\ (L!Next \/ UNCHANGED L!vars) => HeldInv'
  BY MarkStep, GateStep, Zenon DEF HeldInv

LEMMA HeldShows == LifeInv /\ HeldInv => AcceptedHeld
<1> SUFFICES ASSUME LifeInv, HeldInv
             PROVE  AcceptedHeld
  OBVIOUS
<1>1. (peer = "seen" \/ \E c \in L!Deliveries : here[c] = "seen") => Past # {} \/ L!Burnt
  BY DEF HeldInv, MarkInv
<1>2. ASSUME pc \in L!Serving, ~overlapped, \A k \in L!Callers : doing[k] = "idle",
             NEW c \in L!Deliveries, here[c] = "gated"
      PROVE  ~(primary /\ connected)
  <2>1. ~open
    BY <1>2 DEF HeldInv, GateInv, NoneWaits
  <2>2. open <=> (primary /\ pubConnected)
    BY <1>2 DEF HeldInv, GateInv, GateAsAsked, Busy, Open, L!Acting
  <2>3. pubConnected = connected
    BY <1>2 DEF HeldInv, LookInv, Told, L!Callers
  <2>4. QED
    BY <2>1, <2>2, <2>3
<1>3. QED
  BY <1>1, <1>2 DEF AcceptedHeld

-----------------------------------------------------------------------------
(* RoleAudit: the fleet-wide record.                                       *)

Second == record["secondary"]

\* Only a live process writes.
LiveWriters == \A h \in Hosts : command[h] # "done" => h \in up

Recorded(r, hosts) ==
  A!Present(r) /\ record[r].host \in hosts /\ record[r].age <= 1

\* The primary has no one beside it: a secondary's entry grows old until the
\* primary has removed it.
Alone(h) ==
  /\ A!Present("secondary") => Second.age >= (IF calm < 5 THEN calm ELSE 5)
  /\ calm = 6 \/ (calm = 5 /\ command[h] = "done") => ~A!Present("secondary")

\* The secondaries renew the entry, but in the first unit the primary may still
\* remove it.
Accompanied(h) ==
  /\ \A k \in up \ {h} : command[k] = "done" /\ (A!Present("secondary") \/ calm >= 2)
       => Second.host \in up \ {h} /\ Second.age = 0
  /\ calm >= 2 => command[h] # "HDEL" /\ (A!Present("secondary") => Second.age <= 1)
  /\ calm >= 3 => Recorded("secondary", up \ {h})

\* What holds while h is the one primary and nothing goes wrong.
CalmWith(h) ==
  /\ A!Primaries = {h}
  /\ \A k \in Hosts : command[k] \in {"HSET", "HGET", "HDEL"} => read[k] = role[k]
  /\ \A k \in Hosts : command[k] \in {"HGET", "HDEL"} => k = h
  /\ command[h] \in {"HGET", "HDEL", "done"} => record["primary"] = [host |-> h, age |-> 0]
  /\ calm >= 2 => Recorded("primary", {h})
  /\ up = {h} => Alone(h)
  /\ up # {h} => Accompanied(h)

AuditInv == A!TypeOK /\ LiveWriters /\ (calm >= 1 => \E h \in Hosts : CalmWith(h))

LEMMA AuditBounds == IsFiniteSet(Hosts) /\ "none" \notin Hosts
  BY InstanceAssumption DEF A!RoleAuditAssumption, A!IsFiniteSet, IsFiniteSet

LEMMA SameCardinality == \A s : A!Cardinality(s) = Cardinality(s)
  BY DEF A!Cardinality, Cardinality

\* A record with a host in it.
LEMMA Entries ==
  ASSUME A!TypeOK, NEW r \in A!Roles
  PROVE  /\ record[r] \in [host : Hosts, age : 0..5] \cup {A!None}
         /\ A!Present(r) => record[r] \in [host : Hosts, age : 0..5]
         /\ record[r].host \in Hosts => A!Present(r)
         /\ record[r].age \in 0..5
  BY AuditBounds DEF A!TypeOK, A!Present, A!None

LEMMA AuditInit == A!Init => AuditInv
<1> SUFFICES ASSUME A!Init
             PROVE  AuditInv
  OBVIOUS
<1>1. /\ up = {} /\ calm = 0
      /\ role = [h \in Hosts |-> "secondary"] /\ read = [h \in Hosts |-> "secondary"]
      /\ record = [r \in A!Roles |-> A!None] /\ command = [h \in Hosts |-> "done"]
  BY DEF A!Init
<1>2. A!TypeOK
  BY <1>1 DEF A!TypeOK, A!Roles
<1>3. QED
  BY <1>1, <1>2 DEF AuditInv, LiveWriters

LEMMA GotoTypes ==
  ASSUME A!TypeOK, LiveWriters, NEW h \in Hosts,
         NEW s \in {"role", "HSET", "HGET", "HDEL", "done"}, A!Goto(h, s)
  PROVE  /\ command' \in [Hosts -> {"role", "HSET", "HGET", "HDEL", "done"}]
         /\ \A k \in Hosts : command'[k] = IF k = h THEN s ELSE command[k]
  BY DEF A!TypeOK, A!Goto

\* One host's write writes as `role' or `read' tell it, for a live process.
LEMMA AuditTypes ==
  ASSUME A!TypeOK, LiveWriters, A!Next \/ UNCHANGED A!vars
  PROVE  A!TypeOK' /\ LiveWriters'
<1>1. ASSUME NEW h \in Hosts, A!ReadRole(h)
      PROVE  A!TypeOK' /\ LiveWriters'
  <2>1. /\ read' = [read EXCEPT ![h] = role[h]] /\ UNCHANGED <<up, role, record, calm>>
        /\ h \in up /\ A!Goto(h, "HSET")
    BY <1>1 DEF A!ReadRole
  <2>2. QED
    BY <2>1, GotoTypes DEF A!TypeOK, LiveWriters
<1>2. ASSUME NEW h \in Hosts, A!Assert(h)
      PROVE  A!TypeOK' /\ LiveWriters'
  <2>1. /\ UNCHANGED <<up, role, read>> /\ calm' \in {calm, 0} /\ h \in up
        /\ record' = [record EXCEPT ![read[h]] = [host |-> h, age |-> 0]] \/ record' = record
        /\ \E s \in {"HGET", "done"} : A!Goto(h, s)
    BY <1>2 DEF A!Assert, LiveWriters
  <2>2. record' \in [A!Roles -> [host : Hosts, age : 0..5] \cup {A!None}]
    BY <2>1 DEF A!TypeOK
  <2>3. QED
    BY <2>1, <2>2, GotoTypes DEF A!TypeOK, LiveWriters
<1>3. ASSUME NEW h \in Hosts, A!CheckAge(h)
      PROVE  A!TypeOK' /\ LiveWriters'
  <2>1. /\ UNCHANGED <<up, role, record, read>> /\ calm' \in {calm, 0} /\ h \in up
        /\ \E s \in {"HDEL", "done"} : A!Goto(h, s)
    BY <1>3 DEF A!CheckAge, LiveWriters
  <2>2. QED
    BY <2>1, GotoTypes DEF A!TypeOK, LiveWriters
<1>4. ASSUME NEW h \in Hosts, A!Remove(h)
      PROVE  A!TypeOK' /\ LiveWriters'
  <2>1. /\ UNCHANGED <<up, role, read>> /\ calm' \in {calm, 0} /\ h \in up
        /\ record' = [record EXCEPT !["secondary"] = A!None] \/ record' = record
        /\ A!Goto(h, "done")
    BY <1>4 DEF A!Remove, LiveWriters
  <2>2. record' \in [A!Roles -> [host : Hosts, age : 0..5] \cup {A!None}]
    BY <2>1 DEF A!TypeOK
  <2>3. QED
    BY <2>1, <2>2, GotoTypes DEF A!TypeOK, LiveWriters
<1>5. ASSUME NEW h \in Hosts, A!Start(h)
      PROVE  A!TypeOK' /\ LiveWriters'
  <2>1. /\ up' = up \cup {h} /\ role' = [role EXCEPT ![h] = "secondary"]
        /\ A!Goto(h, "role") /\ calm' = 0 /\ UNCHANGED <<record, read>>
    BY <1>5 DEF A!Start
  <2>2. role' \in [Hosts -> A!Roles]
    BY <2>1 DEF A!TypeOK, A!Roles
  <2>3. QED
    BY <2>1, <2>2, GotoTypes DEF A!TypeOK, LiveWriters
<1>6. ASSUME NEW h \in Hosts, A!Stop(h)
      PROVE  A!TypeOK' /\ LiveWriters'
  <2>1. /\ up' = up \ {h} /\ A!Goto(h, "done") /\ calm' = 0 /\ UNCHANGED <<role, record, read>>
    BY <1>6 DEF A!Stop
  <2>2. QED
    BY <2>1, GotoTypes DEF A!TypeOK, LiveWriters
<1>7. ASSUME NEW h \in Hosts, A!Elect(h)
      PROVE  A!TypeOK' /\ LiveWriters'
  <2>1. /\ \E r \in A!Roles : role' = [role EXCEPT ![h] = r]
        /\ calm' = 0 /\ UNCHANGED <<up, record, command, read>>
    BY <1>7 DEF A!Elect, A!Roles
  <2>2. role' \in [Hosts -> A!Roles]
    BY <2>1 DEF A!TypeOK
  <2>3. QED
    BY <2>1, <2>2 DEF A!TypeOK, LiveWriters
<1>8. CASE A!Delete
  <2>1. /\ \E found : record' = [r \in A!Roles |-> IF r \in found THEN A!None ELSE record[r]]
        /\ calm' = 0 /\ UNCHANGED <<up, role, command, read>>
    BY <1>8 DEF A!Delete
  <2>2. record' \in [A!Roles -> [host : Hosts, age : 0..5] \cup {A!None}]
    BY <2>1 DEF A!TypeOK
  <2>3. QED
    BY <2>1, <2>2 DEF A!TypeOK, LiveWriters
<1>9. CASE A!Tick
  <2>1. /\ command' = [h \in Hosts |-> IF h \in up THEN "role" ELSE "done"]
        /\ calm' \in {0, calm, IF calm < 6 THEN calm + 1 ELSE calm}
        /\ UNCHANGED <<up, role, read>>
    BY <1>9 DEF A!Tick
  <2>2. record' = [r \in A!Roles |->
          IF A!Present(r)
          THEN [record[r] EXCEPT !.age = IF @ < 5 THEN @ + 1 ELSE @] ELSE A!None]
    BY <1>9 DEF A!Tick
  <2>3. \A r \in A!Roles : A!Present(r) =>
          [record[r] EXCEPT !.age = IF @ < 5 THEN @ + 1 ELSE @] \in [host : Hosts, age : 0..5]
    BY Entries
  <2>4. record' \in [A!Roles -> [host : Hosts, age : 0..5] \cup {A!None}]
    BY <2>2, <2>3
  <2>5. QED
    BY <2>1, <2>4 DEF A!TypeOK, LiveWriters
<1>10. CASE UNCHANGED A!vars
  BY <1>10 DEF A!vars, A!TypeOK, LiveWriters
<1>11. QED
  BY <1>1, <1>2, <1>3, <1>4, <1>5, <1>6, <1>7, <1>8, <1>9, <1>10 DEF A!Next

\* A command of one host's write keeps the state of the fleet in order.
LEMMA AuditWrites ==
  ASSUME AuditInv, NEW g \in Hosts, CalmWith(g), calm >= 1, calm' = calm,
         NEW h \in Hosts, A!ReadRole(h) \/ A!Assert(h) \/ A!CheckAge(h) \/ A!Remove(h)
  PROVE  CalmWith(g)'
<1>1. A!TypeOK /\ LiveWriters /\ calm \in 1..6
  BY DEF AuditInv, A!TypeOK
<1>2. /\ up \subseteq Hosts /\ UNCHANGED <<up, role>> /\ g \in up /\ role[g] = "primary"
      /\ \A k \in up : k # g => role[k] = "secondary"
      /\ A!Primaries' = {g}
  <2>1. A!Primaries = {g} /\ UNCHANGED <<up, role>>
    BY DEF CalmWith, A!ReadRole, A!Assert, A!CheckAge, A!Remove
  <2>2. A!Primaries' = A!Primaries
    BY <2>1 DEF A!Primaries
  <2>3. QED
    BY <1>1, <2>1, <2>2 DEF A!Primaries, A!TypeOK, A!Roles
<1>3. CASE A!ReadRole(h)
  <2>1. /\ UNCHANGED record /\ read' = [read EXCEPT ![h] = role[h]]
        /\ \A k \in Hosts : command'[k] = IF k = h THEN "HSET" ELSE command[k]
    BY <1>1, <1>3, GotoTypes DEF A!ReadRole
  <2>2. \A k \in Hosts : read'[k] = IF k = h THEN role[k] ELSE read[k]
    BY <1>1, <2>1 DEF A!TypeOK
  <2>3. \A r, s : Recorded(r, s)' = Recorded(r, s)
    BY <2>1 DEF Recorded, A!Present
  <2>4. Alone(g) => Alone(g)'
    BY <2>1 DEF Alone, Second, A!Present
  <2>5. Accompanied(g) => Accompanied(g)'
    BY <1>1, <1>2, <2>1 DEF Accompanied, Second, A!Present, Recorded
  <2>6. QED
    BY <1>2, <2>1, <2>2, <2>3, <2>4, <2>5 DEF CalmWith, Recorded, A!Present
<1>4. CASE A!Assert(h)
  <2>1. /\ command[h] = "HSET" /\ h \in up /\ UNCHANGED read /\ read[h] = role[h]
        /\ A!Goto(h, IF read[h] = "primary" THEN "HGET" ELSE "done")
    BY <1>1, <1>4 DEF A!Assert, LiveWriters, CalmWith
  <2>2. record' = [record EXCEPT ![role[h]] = [host |-> h, age |-> 0]]
    BY <1>4, <1>1, <2>1 DEF A!Assert
  <2>3. CASE h = g
    <3>1. \A k \in Hosts : command'[k] = IF k = g THEN "HGET" ELSE command[k]
      BY <1>1, <1>2, <2>1, <2>3, GotoTypes
    <3>2. record'["primary"] = [host |-> g, age |-> 0]
          /\ record'["secondary"] = record["secondary"]
      BY <1>1, <1>2, <2>2, <2>3 DEF A!TypeOK, A!Roles
    <3>3. A!Present("primary")' /\ (A!Present("secondary")' <=> A!Present("secondary"))
      BY <3>2, AuditBounds DEF A!Present, A!None
    <3>4. Recorded("primary", {g})'
      BY <3>2, <3>3 DEF Recorded
    <3>5. Alone(g) => Alone(g)'
      BY <3>1, <3>2, <3>3 DEF Alone, Second
    <3>6. Accompanied(g) => Accompanied(g)'
      BY <1>2, <3>1, <3>2, <3>3 DEF Accompanied, Second, Recorded
    <3>7. QED
      BY <1>2, <2>1, <2>3, <3>1, <3>2, <3>4, <3>5, <3>6 DEF CalmWith
  <2>4. CASE h # g
    <3>1. \A k \in Hosts : command'[k] = IF k = h THEN "done" ELSE command[k]
      BY <1>1, <1>2, <2>1, <2>4, GotoTypes
    <3>2. record'["secondary"] = [host |-> h, age |-> 0]
          /\ record'["primary"] = record["primary"]
      BY <1>1, <1>2, <2>1, <2>2, <2>4 DEF A!TypeOK, A!Roles
    <3>3. A!Present("secondary")' /\ (A!Present("primary")' <=> A!Present("primary"))
      BY <3>2, AuditBounds DEF A!Present, A!None
    <3>4. up # {g} /\ h \in up \ {g}
      BY <2>1, <2>4
    <3>5. Accompanied(g)'
      BY <1>2, <3>1, <3>2, <3>3, <3>4 DEF Accompanied, Second, Recorded, CalmWith
    <3>6. QED
      BY <1>2, <2>1, <3>1, <3>2, <3>3, <3>4, <3>5 DEF CalmWith, Recorded
  <2>5. QED
    BY <2>3, <2>4
<1>5. CASE A!CheckAge(h)
  <2>1. command[h] = "HGET" /\ h = g /\ UNCHANGED <<record, read>>
    BY <1>5 DEF A!CheckAge, CalmWith
  <2>2. A!Goto(g, IF A!Present("secondary") /\ record["secondary"].age > 4
                  THEN "HDEL" ELSE "done")
    BY <1>1, <1>5, <2>1 DEF A!CheckAge
  <2>3. \A k \in Hosts : command'[k] =
          IF k # g THEN command[k]
          ELSE IF A!Present("secondary") /\ record["secondary"].age > 4 THEN "HDEL" ELSE "done"
    BY <1>1, <2>2, GotoTypes
  <2>4. \A r, s : Recorded(r, s)' = Recorded(r, s)
    BY <2>1 DEF Recorded, A!Present
  <2>5. Alone(g) => Alone(g)'
    BY <1>1, <2>1, <2>3, Entries DEF Alone, Second, A!Present, A!Roles
  <2>6. Accompanied(g) => Accompanied(g)'
    BY <1>1, <1>2, <2>1, <2>3, Entries DEF Accompanied, Second, A!Present, Recorded, A!Roles
  <2>7. QED
    BY <1>2, <2>1, <2>3, <2>4, <2>5, <2>6 DEF CalmWith, Recorded, A!Present
<1>6. CASE A!Remove(h)
  <2>1. command[h] = "HDEL" /\ h = g /\ UNCHANGED read /\ A!Goto(g, "done")
    BY <1>6 DEF A!Remove, CalmWith
  <2>2. \A k \in Hosts : command'[k] = IF k = g THEN "done" ELSE command[k]
    BY <1>1, <2>1, GotoTypes
  <2>3. record' = [record EXCEPT !["secondary"] = A!None]
    BY <1>1, <1>6 DEF A!Remove
  <2>4. record'["secondary"] = A!None /\ record'["primary"] = record["primary"]
    BY <1>1, <2>3 DEF A!TypeOK, A!Roles
  <2>5. ~A!Present("secondary")' /\ (A!Present("primary")' <=> A!Present("primary"))
    BY <2>4 DEF A!Present, A!None
  <2>6. Alone(g)'
    BY <2>5 DEF Alone
  <2>7. Accompanied(g) => Accompanied(g)'
    BY <1>1, <1>2, <2>1, <2>5 DEF Accompanied
  <2>8. QED
    BY <1>2, <2>1, <2>2, <2>4, <2>5, <2>6, <2>7 DEF CalmWith, Recorded
<1>7. QED
  BY <1>3, <1>4, <1>5, <1>6

\* Everything grows a unit older.
LEMMA AuditTicks ==
  ASSUME AuditInv, A!Tick, calm' >= 1
  PROVE  \E g \in Hosts : CalmWith(g)'
<1>1. A!TypeOK /\ LiveWriters /\ calm \in 0..6 /\ up \subseteq Hosts
  BY DEF AuditInv, A!TypeOK
<1>2. /\ \A h \in Hosts : command[h] = "done"
      /\ \A h \in Hosts : command'[h] = IF h \in up THEN "role" ELSE "done"
      /\ UNCHANGED <<up, role, read>>
      /\ A!Cardinality(A!Primaries) = 1
      /\ calm' = IF calm < 6 THEN calm + 1 ELSE calm
  BY DEF A!Tick
<1>3. PICK g \in Hosts : A!Primaries = {g} /\ g \in up
  <2>1. A!Primaries \subseteq Hosts /\ Cardinality(A!Primaries) = 1
    BY <1>1, <1>2, SameCardinality DEF A!Primaries
  <2>2. IsFiniteSet(A!Primaries)
    BY <2>1, AuditBounds, FS_Subset
  <2>3. QED
    BY <2>1, <2>2, FS_Singleton DEF A!Primaries
<1>4. A!Primaries' = {g}
  BY <1>2, <1>3 DEF A!Primaries
<1>5. \A r \in A!Roles :
        /\ A!Present(r)' <=> A!Present(r)
        /\ A!Present(r) => /\ record'[r].host = record[r].host
                           /\ record'[r].age =
                                IF record[r].age < 5 THEN record[r].age + 1 ELSE record[r].age
        /\ record[r].age \in 0..5 /\ (record[r].host \in Hosts => A!Present(r))
  <2> SUFFICES ASSUME NEW r \in A!Roles
               PROVE  /\ A!Present(r)' <=> A!Present(r)
                      /\ A!Present(r) => /\ record'[r].host = record[r].host
                                         /\ record'[r].age = IF record[r].age < 5
                                              THEN record[r].age + 1 ELSE record[r].age
    BY <1>1, Entries
  <2>1. record'[r] = IF A!Present(r)
          THEN [record[r] EXCEPT !.age = IF @ < 5 THEN @ + 1 ELSE @] ELSE A!None
    BY DEF A!Tick
  <2>2. CASE A!Present(r)
    <3>1. record[r] \in [host : Hosts, age : 0..5]
      BY <1>1, <2>2, Entries
    <3>2. /\ record'[r].host = record[r].host
          /\ record'[r].age = IF record[r].age < 5 THEN record[r].age + 1 ELSE record[r].age
      BY <2>1, <2>2, <3>1
    <3>3. A!Present(r)'
      BY <3>1, <3>2, AuditBounds DEF A!Present, A!None
    <3>4. QED
      BY <2>2, <3>2, <3>3
  <2>3. CASE ~A!Present(r)
    BY <2>1, <2>3 DEF A!Present
  <2>4. QED
    BY <2>2, <2>3
<1>6. calm >= 1 => CalmWith(g)
  <2>1. ASSUME NEW k \in Hosts, CalmWith(k)
        PROVE  k = g
    BY <1>3, <2>1 DEF CalmWith
  <2>2. QED
    BY <2>1 DEF AuditInv
<1>7. {"primary", "secondary"} = A!Roles
  BY DEF A!Roles
<1>8. calm' >= 2 => Recorded("primary", {g})'
  <2>1. calm >= 1 => record["primary"] = [host |-> g, age |-> 0]
    BY <1>2, <1>6 DEF CalmWith
  <2>2. QED
    BY <1>1, <1>2, <1>5, <1>7, <2>1 DEF Recorded
<1>9. up = {g} => Alone(g)'
  <2>1. up = {g} /\ calm >= 1 => Alone(g)
    BY <1>6 DEF CalmWith
  <2>2. command[g] = "done" /\ command'[g] = "role"
    BY <1>2, <1>3
  <2>3. QED
    BY <1>1, <1>2, <1>5, <1>7, <2>1, <2>2 DEF Alone, Second
<1>10. up # {g} => Accompanied(g)'
  <2> SUFFICES ASSUME up # {g}
               PROVE  Accompanied(g)'
    OBVIOUS
  <2>1. \A k \in up : command'[k] = "role"
    BY <1>1, <1>2
  <2>2. PICK k \in up \ {g} : TRUE
    BY <1>3
  <2>3. calm >= 1 => Accompanied(g) /\ command[k] = "done"
    BY <1>1, <1>2, <1>6, <2>2 DEF CalmWith
  <2>4. calm >= 1 /\ A!Present("secondary") => Second.age = 0
    BY <2>2, <2>3 DEF Accompanied
  <2>5. calm >= 2 => Second.host \in up \ {g} /\ Second.age = 0 /\ A!Present("secondary")
    BY <1>1, <1>5, <1>7, <2>2, <2>3 DEF Accompanied, Second
  <2>6. QED
    BY <1>1, <1>2, <1>3, <1>5, <1>7, <2>1, <2>4, <2>5 DEF Accompanied, Second, Recorded
<1>11. QED
  BY <1>2, <1>3, <1>4, <1>8, <1>9, <1>10 DEF CalmWith

LEMMA AuditStep == AuditInv /\ (A!Next \/ UNCHANGED A!vars) => AuditInv'
<1> SUFFICES ASSUME AuditInv, A!Next \/ UNCHANGED A!vars
             PROVE  AuditInv'
  OBVIOUS
<1>1. A!TypeOK' /\ LiveWriters'
  BY AuditTypes DEF AuditInv
<1>2. ASSUME calm' >= 1
      PROVE  \E g \in Hosts : CalmWith(g)'
  <2>1. CASE A!Tick
    BY <1>2, <2>1, AuditTicks
  <2>2. CASE UNCHANGED A!vars
    <3>1. PICK g \in Hosts : CalmWith(g)
      BY <1>2, <2>2 DEF A!vars, AuditInv
    <3>2. CalmWith(g)'
      BY <2>2, <3>1 DEF A!vars, CalmWith, Alone, Accompanied, Recorded, Second, A!Present,
                        A!Primaries
    <3>3. QED
      BY <3>2
  <2>3. ASSUME NEW h \in Hosts,
               A!ReadRole(h) \/ A!Assert(h) \/ A!CheckAge(h) \/ A!Remove(h)
        PROVE  \E g \in Hosts : CalmWith(g)'
    <3>1. calm' = calm
      BY <1>2, <2>3 DEF A!ReadRole, A!Assert, A!CheckAge, A!Remove
    <3>2. PICK g \in Hosts : CalmWith(g)
      BY <1>2, <3>1 DEF AuditInv
    <3>3. CalmWith(g)'
      BY <1>1, <1>2, <2>3, <3>1, <3>2, AuditWrites
    <3>4. QED
      BY <3>3
  <2>4. ~A!Delete /\ \A h \in Hosts : ~A!Start(h) /\ ~A!Stop(h) /\ ~A!Elect(h)
    BY <1>2 DEF A!Delete, A!Start, A!Stop, A!Elect
  <2>5. QED
    BY <2>1, <2>2, <2>3, <2>4 DEF A!Next
<1>3. QED
  BY <1>1, <1>2 DEF AuditInv

\* What the table shows in the end.
LEMMA AuditShows == AuditInv => AuditHealed
<1> SUFFICES ASSUME AuditInv, calm = 6
             PROVE  /\ \E h \in A!Primaries :
                         A!RoleCell("primary") = [host |-> h, fresh |-> TRUE]
                    /\ IF A!Cardinality(up) = 1 THEN A!RoleCell("secondary").host = "-"
                       ELSE \E h \in up \ A!Primaries :
                              A!RoleCell("secondary") = [host |-> h, fresh |-> TRUE]
  BY DEF AuditHealed, A!AuditHealed
<1>1. PICK g \in Hosts : CalmWith(g)
  BY DEF AuditInv
<1>2. /\ A!Primaries = {g} /\ g \in up /\ Recorded("primary", {g})
      /\ up # {g} => Recorded("secondary", up \ {g})
  BY <1>1 DEF CalmWith, A!Primaries, Accompanied
<1>3. ASSUME NEW r \in A!Roles, NEW s, Recorded(r, s)
      PROVE  A!RoleCell(r) = [host |-> record[r].host, fresh |-> TRUE] /\ record[r].host \in s
  <2>1. A!Present(r) /\ record[r].host \in s /\ record[r].age <= 1
    BY <1>3 DEF Recorded
  <2>2. record[r].age <= 4
    BY <2>1, Entries DEF AuditInv
  <2>3. (A!Present(r) /\ record[r].age <= 4) = TRUE
    BY <2>1, <2>2
  <2>4. QED
    BY <2>1, <2>3 DEF A!RoleCell
<1>4. \E h \in A!Primaries : A!RoleCell("primary") = [host |-> h, fresh |-> TRUE]
  BY <1>2, <1>3 DEF A!Roles
<1>5. CASE up = {g}
  <2>1. ~A!Present("secondary")
    BY <1>1, <1>5 DEF CalmWith, Alone
  <2>2. A!Cardinality(up) = 1
    BY <1>5, SameCardinality, FS_Singleton
  <2>3. QED
    BY <1>4, <2>1, <2>2 DEF A!RoleCell
<1>6. CASE up # {g}
  <2>1. A!Cardinality(up) # 1
    <3>1. IsFiniteSet(up)
      BY AuditBounds, FS_Subset DEF AuditInv, A!TypeOK
    <3>2. QED
      BY <1>2, <1>6, <3>1, SameCardinality, FS_Singleton
  <2>2. \E h \in up \ A!Primaries : A!RoleCell("secondary") = [host |-> h, fresh |-> TRUE]
    BY <1>2, <1>3, <1>6 DEF A!Roles
  <2>3. QED
    BY <1>4, <2>1, <2>2
<1>7. QED
  BY <1>5, <1>6

-----------------------------------------------------------------------------
(* SchemaCache and DebugFlags: types.                                      *)

LEMMA SchemasInit == S!Init => S!TypeOK
<1> SUFFICES ASSUME S!Init
             PROVE  S!TypeOK
  OBVIOUS
<1>1. 0 \in 0..2
  OBVIOUS
<1>2. QED
  BY <1>1 DEF S!Init, S!TypeOK, S!Schemas, S!Bodies

LEMMA SchemasStep == S!TypeOK /\ (S!Next \/ UNCHANGED S!vars) => S!TypeOK'
<1> SUFFICES ASSUME S!TypeOK, S!Next \/ UNCHANGED S!vars
             PROVE  S!TypeOK'
  OBVIOUS
<1>1. ASSUME NEW s \in S!Schemas, S!Caches(s)
      PROVE  cached' \in [S!Schemas -> S!Bodies \cup {"none"}]
  BY <1>1 DEF S!Caches, S!TypeOK
<1>2. ASSUME NEW i \in Processes, S!FetchWNM(i)
      PROVE  S!TypeOK'
  <2>1. "wnm" \in S!Schemas /\ step' \in [Processes -> S!Schemas]
    BY <1>2 DEF S!FetchWNM, S!TypeOK, S!Schemas
  <2>2. QED
    BY <1>1, <1>2, <2>1 DEF S!FetchWNM, S!TypeOK
<1>3. ASSUME NEW i \in Processes, S!FetchWME(i)
      PROVE  S!TypeOK'
  <2>1. "wme" \in S!Schemas /\ step' \in [Processes -> S!Schemas]
    BY <1>3 DEF S!FetchWME, S!TypeOK, S!Schemas
  <2>2. \E b \in BOOLEAN : loaded' = [loaded EXCEPT ![i] = b]
    <3>1. (loaded[i] \/ S!Got("wme") = "good") \in BOOLEAN
      OBVIOUS
    <3>2. QED
      BY <1>3, <3>1, Zenon DEF S!FetchWME
  <2>3. loaded' \in [Processes -> BOOLEAN]
    BY <2>2 DEF S!TypeOK
  <2>4. QED
    BY <1>1, <1>3, <2>1, <2>3 DEF S!FetchWME, S!TypeOK
<1>4. ASSUME NEW i \in Processes, S!Restart(i)
      PROVE  S!TypeOK'
  <2>1. /\ UNCHANGED <<url, redis, cached>> /\ crashes' \in 0..2
        /\ loaded' \in [Processes -> BOOLEAN] /\ step' \in [Processes -> S!Schemas]
    BY <1>4 DEF S!Restart, S!TypeOK, S!Schemas
  <2>2. QED
    BY <2>1 DEF S!TypeOK
<1>5. ASSUME NEW s \in S!Schemas, S!Upstream(s)
      PROVE  S!TypeOK'
  BY <1>5 DEF S!Upstream, S!TypeOK
<1>6. CASE S!Redis
  <2>1. redis' \in BOOLEAN /\ UNCHANGED <<url, cached, loaded, step, crashes>>
    BY <1>6 DEF S!Redis
  <2>2. QED
    BY <2>1 DEF S!TypeOK
<1>7. CASE UNCHANGED S!vars
  BY <1>7 DEF S!vars, S!TypeOK
<1>8. QED
  BY <1>2, <1>3, <1>4, <1>5, <1>6, <1>7 DEF S!Next, S!Refreshes

LEMMA DebugWords == D!Empty \in MCContents /\ \A f \in MCContents : f.words \subseteq D!Words
  BY InstanceAssumption DEF D!DebugFlagsAssumption

LEMMA DebugInit == D!Init => D!TypeOK
<1> SUFFICES ASSUME D!Init
             PROVE  D!TypeOK
  OBVIOUS
<1>1. PICK c \in MCLines : static = c.words /\ topicStatic = c.topics
  BY DEF D!Init
<1>2. [words |-> static, topics |-> topicStatic] \in MCLines
  <2>1. c = [words |-> c.words, topics |-> c.topics]
    BY DEF MCLines, File
  <2>2. QED
    BY <1>1, <2>1
<1>3. /\ file \in MCContents /\ at = "read" /\ next = D!Empty
      /\ dynamic = {} /\ topicDynamic = {} /\ edits = 0
      /\ applied = [k \in D!Switched |-> D!In(static, k)] /\ logger = applied
  BY DEF D!Init
<1>4. D!Empty.topics = {}
  BY DEF D!Empty
<1>5. topicDynamic \in {f.topics : f \in MCContents}
  BY <1>3, <1>4, DebugWords
<1>6. applied \in [D!Switched -> BOOLEAN]
  BY <1>3 DEF D!In
<1>7. edits \in 0..2
  BY <1>3
<1>8. QED
  BY <1>2, <1>3, <1>5, <1>6, <1>7, DebugWords DEF D!TypeOK

LEMMA DebugStep == D!TypeOK /\ (D!Next \/ UNCHANGED D!vars) => D!TypeOK'
<1> SUFFICES ASSUME D!TypeOK, D!Next \/ UNCHANGED D!vars
             PROVE  D!TypeOK'
  OBVIOUS
<1>1. CASE D!Read
  BY <1>1 DEF D!Read, D!TypeOK, D!flags
<1>2. CASE D!Store
  <2>1. UNCHANGED <<D!flags, file, next, topicDynamic, applied, logger, edits>>
        /\ dynamic' = next.words /\ at' = "paho"
    BY <1>2 DEF D!Store
  <2>2. dynamic' \subseteq D!Words /\ at' \in D!Switched
    BY <2>1, DebugWords DEF D!TypeOK, D!Switched
  <2>3. QED
    BY <2>1, <2>2 DEF D!TypeOK, D!flags
<1>3. ASSUME NEW k \in D!Switched, D!Switch(k)
      PROVE  D!TypeOK'
  <2>1. UNCHANGED <<D!flags, file, next, dynamic, topicDynamic, edits>>
        /\ at' \in {"dedup", "topics"}
    BY <1>3 DEF D!Switch
  <2>2. \E b \in BOOLEAN : /\ applied' = [applied EXCEPT ![k] = b]
                           /\ logger' \in {logger, [logger EXCEPT ![k] = b]}
    <3> DEFINE on == D!In(static, k) \/ D!In(next.words, k)
    <3>1. on \in BOOLEAN
      OBVIOUS
    <3>2. /\ applied' = [applied EXCEPT ![k] = on]
          /\ logger' = IF applied[k] # on THEN [logger EXCEPT ![k] = on] ELSE logger
      BY <1>3, Zenon DEF D!Switch
    <3>3. logger' \in {logger, [logger EXCEPT ![k] = on]}
      BY <3>2, Zenon
    <3>4. QED
      BY <3>1, <3>2, <3>3, Zenon
  <2>3. applied' \in [D!Switched -> BOOLEAN] /\ logger' \in [D!Switched -> BOOLEAN]
    BY <2>2 DEF D!TypeOK
  <2>4. QED
    BY <2>1, <2>3 DEF D!TypeOK, D!Switched, D!flags
<1>4. CASE D!StoreTopics
  <2>1. /\ UNCHANGED <<D!flags, file, dynamic, applied, logger, edits>>
        /\ topicDynamic' = next.topics /\ at' = "read" /\ next' = D!Empty
    BY <1>4 DEF D!StoreTopics
  <2>2. QED
    BY <2>1, DebugWords DEF D!TypeOK, D!flags
<1>5. CASE D!Edit
  <2>1. /\ UNCHANGED <<D!flags, at, next, dynamic, topicDynamic, applied, logger>>
        /\ edits' \in 0..2 /\ file' \in MCContents
    BY <1>5 DEF D!Edit, D!TypeOK
  <2>2. QED
    BY <2>1 DEF D!TypeOK, D!flags
<1>6. CASE UNCHANGED D!vars
  BY <1>6 DEF D!vars, D!flags, D!TypeOK
<1>7. QED
  BY <1>1, <1>2, <1>3, <1>4, <1>5, <1>6 DEF D!Next, D!Reload

-----------------------------------------------------------------------------
(* The five side by side.                                                  *)

MCInv ==
  part \in Parts /\ ChecksInv /\ S!TypeOK /\ AuditInv /\ LifeInv /\ HeldInv /\ D!TypeOK

LEMMA MCInitInv == MCInit => MCInv
  BY ChecksInit, SchemasInit, AuditInit, LifeInit, HeldInit, DebugInit DEF MCInit, MCInv

LEMMA MCStepInv == MCInv /\ [MCNext]_all => MCInv'
<1> SUFFICES ASSUME MCInv, [MCNext]_all
             PROVE  MCInv'
  OBVIOUS
<1>1. part' = part
  BY DEF MCNext, Checks, Schemas, Audit, Lifecycle, Debug, InSchemas, InLifecycle, InDebug,
         Looking, all
<1>2. [Next]_vars
  BY DEF MCNext, Checks, Schemas, Audit, Lifecycle, Debug, InSchemas, InLifecycle, InDebug,
         all, checks, vars
<1>3. S!Next \/ UNCHANGED S!vars
  BY DEF MCNext, Checks, Schemas, Audit, Lifecycle, Debug, InSchemas, InLifecycle, InDebug,
         all, schemas, S!vars
<1>4. A!Next \/ UNCHANGED A!vars
  BY DEF MCNext, Checks, Schemas, Audit, Lifecycle, Debug, InSchemas, InLifecycle, InDebug,
         all, audit, A!vars
<1>5. L!Next \/ UNCHANGED L!vars
  BY DEF MCNext, Checks, Schemas, Audit, Lifecycle, Debug, InSchemas, InLifecycle, InDebug,
         all, lifecycle, L!vars, L!gating, L!copies
<1>6. D!Next \/ UNCHANGED D!vars
  BY DEF MCNext, Checks, Schemas, Audit, Lifecycle, Debug, InSchemas, InLifecycle, InDebug,
         all, debug, D!vars, D!flags
<1>7. ChecksInv' /\ S!TypeOK' /\ AuditInv' /\ LifeInv' /\ HeldInv' /\ D!TypeOK'
  BY <1>2, <1>3, <1>4, <1>5, <1>6, ChecksStep, SchemasStep, AuditStep, LifeStep, HeldStep,
     DebugStep, InstanceAssumption DEF MCInv
<1>8. QED
  BY <1>1, <1>7 DEF MCInv

\* The five parts stay within their invariants, whatever the order of their steps.
THEOREM InstanceInvariant == MCSpec => []MCInv
  BY MCInitInv, MCStepInv, PTL DEF MCSpec

\* Every variable of the five parts has its type.
THEOREM InstanceTypes == MCSpec => []TypesOK
<1>1. MCInv => TypesOK
  BY LifeFlags DEF MCInv, ChecksInv, AuditInv, LifeInv, TypesOK
<1>2. QED
  BY <1>1, InstanceInvariant, PTL

\* A copy is discarded exactly when some check set to discard, or the link check,
\* fails, for every message and all options (pipeline.go:371-467).
THEOREM VerdictsRight == MCSpec => []VerdictRight
<1>1. ChecksInv => VerdictRight
  <2> SUFFICES ASSUME ChecksInv, NEW c \in Copies, Ended(c)
               PROVE  stage[c] = "discarded" <=> Fatal(c) # {}
    BY DEF VerdictRight
  <2>1. CopyInv(c)
    BY DEF ChecksInv
  <2>2. stage[c] # "discarded" => Done(c) = Checked
    BY DEF Done, Ended, Ends
  <2>3. Fatal(c) \subseteq Checked
    BY FailsOf
  <2>4. QED
    BY <2>1, <2>2, <2>3 DEF CopyInv
<1>2. MCInv => VerdictRight
  BY <1>1 DEF MCInv
<1>3. QED
  BY <1>2, InstanceInvariant, PTL

\* One copy of an id at most gets past dedup, and none is refused unless one did,
\* for any number of copies (pipeline.go:469-488).
THEOREM NothingEverBurnt == MCSpec => []NothingBurnt
<1>1. MCInv => NothingBurnt
  BY DEF MCInv, ChecksInv, ClaimInv, SeenInv, NothingBurnt
<1>2. QED
  BY <1>1, InstanceInvariant, PTL

\* The centre hears of every check that failed up to the one that stopped the copy
\* and of nothing else (pipeline.go:371-466, monitor.go).
THEOREM FailuresAlwaysReported == MCSpec => []FailuresReported
<1>1. ChecksInv => FailuresReported
  <2> SUFFICES ASSUME ChecksInv, NEW c \in Copies, Ended(c)
               PROVE  events[c] = IF Mentions(t) THEN {}
                                  ELSE {EventOf(k) : k \in Fails(c) \cap Reached(c)}
    BY DEF FailuresReported
  <2>1. CopyInv(c)
    BY DEF ChecksInv
  <2>2. CASE stage[c] = "discarded"
    <3>1. Done(c) = Reached(c)
      BY <2>2 DEF Done
    <3>2. QED
      BY <2>1, <3>1 DEF CopyInv
  <2>3. CASE stage[c] # "discarded"
    <3>1. Done(c) = Checked
      BY <2>3 DEF Done, Ended, Ends
    <3>2. Fatal(c) = {}
      BY <2>1, <2>3, <3>1, FailsOf DEF CopyInv
    <3>3. Reached(c) = Checked
      BY <3>2 DEF Reached
    <3>4. QED
      BY <2>1, <3>1, <3>3 DEF CopyInv
  <2>4. QED
    BY <2>2, <2>3
<1>2. MCInv => FailuresReported
  BY <1>1 DEF MCInv
<1>3. QED
  BY <1>2, InstanceInvariant, PTL

\* Once there has been one primary for six write intervals the table shows it,
\* and a secondary that lives or none, for any number of hosts and whatever went
\* wrong before (cmd/antiloop/main.go, cmd/wis2nodes/main.go).
THEOREM AuditAlwaysHeals == MCSpec => []AuditHealed
<1>1. MCInv => AuditHealed
  BY AuditShows DEF MCInv
<1>2. QED
  BY <1>1, InstanceInvariant, PTL

\* Nothing reaches the checks, dedup or the publisher before the pipeline has
\* all its fields (main.go:254-330, 359-470).
THEOREM AlwaysWiredBeforeUse == MCSpec => []WiredBeforeUse
<1>1. MCInv => WiredBeforeUse
  BY DEF MCInv, LifeInv, Unelected, WiredBeforeUse, L!WiredBeforeUse
<1>2. QED
  BY <1>1, InstanceInvariant, PTL

\* This process and its peer publish a message once, unless a lookup that the
\* shutdown had cancelled let a copy through (pipeline.go:469-488).
THEOREM OnceUnlessUnguarded == MCSpec => []TwiceOnlyUnguarded
<1>1. HeldInv => L!TwiceOnlyUnguarded
  <2>1. L!Handed \subseteq Past
    BY DEF L!Handed, Past
  <2>2. QED
    BY <2>1 DEF HeldInv, MarkInv, L!TwiceOnlyUnguarded
<1>2. MCInv => TwiceOnlyUnguarded
  BY <1>1 DEF MCInv, TwiceOnlyUnguarded
<1>3. QED
  BY <1>2, InstanceInvariant, PTL

\* What /inject has answered "queued" to, or the broker has delivered, waits only while
\* some caller is on its way to the gate, after two of them have overlapped, or for a role
\* or a broker; and it is thrown away as seen only when another copy of it is further on
\* or was burnt (main.go:254-330, 359-470, pipeline.go:262-330, 469-488).
THEOREM AcceptedIsHeld == MCSpec => []AcceptedHeld
<1>1. MCInv => AcceptedHeld
  BY HeldShows DEF MCInv
<1>2. QED
  BY <1>1, InstanceInvariant, PTL

\* A process that has its schemas keeps them until it is restarted, whatever the
\* URLs and Redis do (wnm.go:56-88).
THEOREM SchemasKeptUntilRestart == MCSpec => S!KeptUntilRestart
<1> DEFINE Kept == \A i \in Processes : loaded[i] /\ ~loaded'[i] => crashes' = crashes + 1
<1>1. S!TypeOK /\ S!Next => Kept
  <2> SUFFICES ASSUME S!TypeOK, S!Next, NEW i \in Processes, loaded[i], ~loaded'[i]
               PROVE  crashes' = crashes + 1
    OBVIOUS
  <2>1. loaded' # loaded
    BY Zenon
  <2>2. PICK k \in Processes : S!FetchWME(k) \/ S!Restart(k)
    BY <2>1 DEF S!Next, S!Refreshes, S!FetchWNM, S!Upstream, S!Redis
  <2>3. ASSUME S!FetchWME(k)
        PROVE  FALSE
    <3>1. loaded' = [loaded EXCEPT ![k] = loaded[k] \/ S!Got("wme") = "good"]
          /\ DOMAIN loaded = Processes
      BY <2>3, Zenon DEF S!FetchWME, S!TypeOK
    <3>2. CASE i = k
      <4>1. loaded'[i] = (loaded[i] \/ S!Got("wme") = "good")
        BY <3>1, <3>2, Zenon
      <4>2. QED
        BY <4>1, Zenon
    <3>3. CASE i # k
      <4>1. loaded'[i] = loaded[i]
        BY <3>1, <3>3, Zenon
      <4>2. QED
        BY <4>1, Zenon
    <3>4. QED
      BY <3>2, <3>3
  <2>4. QED
    BY <2>2, <2>3 DEF S!Restart
<1>2. MCInv /\ [MCNext]_all => [Kept]_S!vars
  <2>1. [MCNext]_all => S!Next \/ UNCHANGED S!vars
    BY DEF MCNext, Checks, Schemas, Audit, Lifecycle, Debug, InSchemas, InLifecycle, InDebug,
           all, schemas, S!vars
  <2>2. QED
    BY <1>1, <2>1 DEF MCInv
<1>3. QED
  BY <1>2, InstanceInvariant, PTL DEF MCSpec, S!KeptUntilRestart
=============================================================================
