--------------------------- MODULE DeliveryProofs ---------------------------
(***************************************************************************)
(* Where a message is between an instance's two gates, and where the gates *)
(* are, for any number of brokers, messages and callbacks that overlap.    *)
(***************************************************************************)
EXTENDS Delivery, SequenceTheorems, FiniteSetTheorems, TLAPS

Entry == [msg : Msgs, at : {0}]
Gates == [state : {Queueing, Open}, queue : Seq(Entry)]

Types == TypeOK /\ pipeGate \in Gates /\ pubGate \in Gates

-----------------------------------------------------------------------------
(* What the operators of GateOps come to when nothing expires.             *)

LEMMA OpenedGate ==
  ASSUME NEW g \in Gates
  PROVE  /\ Opened(g) \in Gates /\ Opened(g).state = Open /\ Opened(g).queue = <<>>
         /\ Queued(g) \in Gates /\ Queued(g).state = Queueing /\ Queued(g).queue = g.queue
<1>1. <<>> \in Seq(Entry)
  OBVIOUS
<1>2. QED
  BY <1>1 DEF Opened, Queued, Gates

LEMMA EnqueuedGate ==
  ASSUME NEW g \in Gates, NEW m \in Msgs, ~IsFull(g, 0), Len(g.queue) <= MaxLen
  PROVE  /\ Enqueued(g, m, 0) \in Gates /\ Enqueued(g, m, 0).state = g.state
         /\ Enqueued(g, m, 0).queue = Append(g.queue, [msg |-> m, at |-> 0])
         /\ Len(Enqueued(g, m, 0).queue) <= MaxLen
<1>1. EvictExpired(g.queue, 0) = g.queue
  BY DeliveryAssumption DEF EvictExpired
<1>2. [msg |-> m, at |-> 0] \in Entry
  BY DEF Entry
<1>3. /\ g.queue \in Seq(Entry) /\ Len(g.queue) \in Nat
      /\ Append(g.queue, [msg |-> m, at |-> 0]) \in Seq(Entry)
      /\ Len(Append(g.queue, [msg |-> m, at |-> 0])) = Len(g.queue) + 1
  BY <1>2 DEF Gates
<1>4. Len(g.queue) < MaxLen
  BY <1>1, <1>3, GateAssumption DEF IsFull
<1>5. Enqueued(g, m, 0) = [g EXCEPT !.queue = Append(g.queue, [msg |-> m, at |-> 0])]
  BY <1>1 DEF Enqueued
<1>6. QED
  BY <1>3, <1>4, <1>5, GateAssumption DEF Gates

LEMMA QueueOf ==
  ASSUME NEW g \in Gates
  PROVE  /\ DOMAIN g.queue = 1..Len(g.queue) /\ Len(g.queue) \in Nat
         /\ Messages(g.queue) \subseteq Msgs
         /\ \A i \in DOMAIN g.queue : g.queue[i].msg \in Msgs
         /\ g.state \in {Queueing, Open}
<1>1. g.queue \in Seq(Entry) /\ g.state \in {Queueing, Open}
  BY DEF Gates
<1>2. /\ DOMAIN g.queue = 1..Len(g.queue) /\ Len(g.queue) \in Nat
      /\ \A i \in 1..Len(g.queue) : g.queue[i] \in Entry
  BY <1>1
<1>3. \A e \in Entry : e.msg \in Msgs
  BY DEF Entry
<1>4. QED
  BY <1>1, <1>2, <1>3 DEF Messages

LEMMA BacklogOf ==
  ASSUME NEW g \in Gates
  PROVE  /\ Backlog(g, 0) \in Seq(Msgs) /\ Len(Backlog(g, 0)) = Len(g.queue)
         /\ DOMAIN Backlog(g, 0) = DOMAIN g.queue
         /\ \A i \in DOMAIN g.queue : Backlog(g, 0)[i] = g.queue[i].msg
<1>1. EvictExpired(g.queue, 0) = g.queue
  BY DeliveryAssumption DEF EvictExpired
<1>2. /\ Len(g.queue) \in Nat /\ DOMAIN g.queue = 1..Len(g.queue)
      /\ \A i \in 1..Len(g.queue) : g.queue[i].msg \in Msgs
  BY QueueOf
<1>3. Backlog(g, 0) = [i \in 1..Len(g.queue) |-> g.queue[i].msg]
  BY <1>1 DEF Backlog
<1>4. QED
  BY <1>2, <1>3

LEMMA MessagesAppended ==
  ASSUME NEW q \in Seq(Entry), NEW m \in Msgs
  PROVE  LET then == Append(q, [msg |-> m, at |-> 0])
         IN  /\ Messages(then) = Messages(q) \cup {m}
             /\ DOMAIN then = DOMAIN q \cup {Len(q) + 1} /\ Len(q) + 1 \notin DOMAIN q
             /\ then[Len(q) + 1].msg = m
             /\ \A i \in DOMAIN q : then[i] = q[i]
<1> DEFINE e == [msg |-> m, at |-> 0]
           then == Append(q, e)
<1>1. e \in Entry /\ e.msg = m
  BY DEF Entry
<1>2. /\ DOMAIN q = 1..Len(q) /\ Len(q) \in Nat /\ Len(then) = Len(q) + 1
      /\ DOMAIN then = 1..(Len(q) + 1) /\ then[Len(q) + 1] = e
      /\ \A i \in 1..Len(q) : then[i] = q[i]
  BY <1>1
<1>3. DOMAIN then = DOMAIN q \cup {Len(q) + 1} /\ Len(q) + 1 \notin DOMAIN q
  BY <1>2
<1>4. Messages(then) = Messages(q) \cup {m}
  <2> HIDE DEF e, then
  <2> QED
    BY <1>1, <1>2, <1>3 DEF Messages
<1>5. QED
  BY <1>1, <1>2, <1>3, <1>4

-----------------------------------------------------------------------------
(* Types.                                                                  *)

LEMMA CallerSets ==
  /\ Main \in Callers /\ Elector \in Callers /\ Callbacks \subseteq Callers
  /\ Main # Elector /\ Main \notin Callbacks /\ Elector \notin Callbacks
  /\ Callers = {Main, Elector} \cup Callbacks
  /\ Brokers \subseteq Nat /\ 1 \in Brokers
  BY DeliveryAssumption DEF Main, Elector, Callbacks, Callers, Brokers

Pcs == {"idle", "noticing", "checking", "draining", "done"} \cup Acting

\* What it means that a goroutine goes on.
LEMMA GoingOn ==
  ASSUME Types, NEW k \in Callers, NEW s \in Pcs, NEW v \in BOOLEAN, GoesOn(k, s, v)
  PROVE  /\ pc' \in [Callers -> Pcs] /\ saw' \in [Callers -> BOOLEAN]
         /\ pc'[k] = s /\ saw'[k] = v
         /\ \A j \in Callers \ {k} : pc'[j] = pc[j] /\ saw'[j] = saw[j]
         /\ overlapped' \in BOOLEAN
         /\ ~overlapped' =>
              ~overlapped /\ (s \in Acting => \A j \in Callers \ {k} : pc[j] \notin Acting)
<1>1. pc \in [Callers -> Pcs] /\ saw \in [Callers -> BOOLEAN]
  BY DEF Types, TypeOK, Pcs
<1>2. pc' = [pc EXCEPT ![k] = s] /\ saw' = [saw EXCEPT ![k] = v]
  BY DEF GoesOn
<1>3. /\ pc' \in [Callers -> Pcs] /\ saw' \in [Callers -> BOOLEAN]
      /\ pc'[k] = s /\ saw'[k] = v
      /\ \A j \in Callers \ {k} : pc'[j] = pc[j] /\ saw'[j] = saw[j]
  BY <1>1, <1>2
<1>4. overlapped' = (overlapped \/ (s \in Acting /\ \E j \in Callers \ {k} : pc[j] \in Acting))
  BY DEF GoesOn
<1>5. overlapped' \in BOOLEAN
  <2>1. (overlapped \/ (s \in Acting /\ \E j \in Callers \ {k} : pc[j] \in Acting)) \in BOOLEAN
    OBVIOUS
  <2>2. QED
    BY <1>4, <2>1, Zenon
<1>6. ~overlapped' =>
        ~overlapped /\ (s \in Acting => \A j \in Callers \ {k} : pc[j] \notin Acting)
  BY <1>4, Zenon
<1>7. QED
  BY <1>3, <1>5, <1>6

LEMMA TypesInit == Init => Types
<1> SUFFICES ASSUME Init
             PROVE  Types
  OBVIOUS
<1>1. NewGate \in Gates /\ NewGate.state = Queueing /\ NewGate.queue = <<>>
  <2>1. <<>> \in Seq(Entry)
    OBVIOUS
  <2>2. QED
    BY <2>1 DEF NewGate, Gates
<1>2. Len(NewGate.queue) <= MaxLen /\ Messages(NewGate.queue) \subseteq Msgs
  BY <1>1, GateAssumption DEF Messages
<1>3. /\ pc \in [Callers -> Pcs] /\ saw \in [Callers -> BOOLEAN]
      /\ drain \in [Callers -> Seq(Msgs)]
      /\ stage \in [Msgs -> Stages] /\ reached \in [Msgs -> BOOLEAN]
      /\ up \in [Brokers -> BOOLEAN]
  <2>1. <<>> \in Seq(Msgs)
    OBVIOUS
  <2>2. QED
    BY <2>1 DEF Init, Pcs, Stages
<1>4. next \in [Msgs -> Brokers]
  BY CallerSets DEF Init
<1>5. wired \in BOOLEAN /\ isPrimary \in BOOLEAN /\ pubConnected \in BOOLEAN
      /\ overlapped \in BOOLEAN
  BY DEF Init
<1>6. pipeGate = NewGate /\ pubGate = NewGate
  BY DEF Init
<1>7. QED
  BY <1>1, <1>2, <1>3, <1>4, <1>5, <1>6 DEF Types, TypeOK, Pcs

\* The types of what a step of a goroutine changes.
LEMMA ControlTypes ==
  ASSUME Types,
         {wired', isPrimary', pubConnected', overlapped'} \subseteq BOOLEAN,
         up' \in [Brokers -> BOOLEAN], pc' \in [Callers -> Pcs], saw' \in [Callers -> BOOLEAN],
         drain' \in [Callers -> Seq(Msgs)], stage' \in [Msgs -> Stages],
         pipeGate' \in Gates, pubGate' \in Gates,
         Len(pipeGate'.queue) <= MaxLen, Len(pubGate'.queue) <= MaxLen,
         next' \in [Msgs -> Brokers], reached' \in [Msgs -> BOOLEAN]
  PROVE  Types'
<1>1. \A g \in {pipeGate', pubGate'} : g \in Gates /\ Len(g.queue) <= MaxLen
  OBVIOUS
<1>2. \A g \in {pipeGate', pubGate'} :
         /\ Len(g.queue) <= MaxLen /\ Messages(g.queue) \subseteq Msgs
         /\ g.state \in {Queueing, Open}
  BY <1>1, QueueOf
<1>3. {pipeGate'.state, pubGate'.state} \subseteq {Queueing, Open}
  BY <1>2
<1>4. QED
  BY <1>2, <1>3 DEF Types, TypeOK, Pcs

-----------------------------------------------------------------------------
(* The gates follow.                                                       *)

Both == isPrimary /\ pubConnected

\* Where main and the election's goroutine can be, and nobody is primary
\* before main has reported what it may have missed.
Seated ==
  /\ pc[Main] \in {"idle", "noticing", "setting", "applying", "done"}
  /\ pc[Elector] \in {"idle", "applying"}
  /\ \A k \in Callbacks : pc[k] # "done"
  /\ wired <=> pc[Main] # "idle"
  /\ pc[Main] # "done" => ~isPrimary

Some(s) == \E k \in Callers : pc[k] = s

\* A callback that is yet to ask for the publisher's gate.
AskAgain == \E k \in Callbacks : pc[k] \in {"noticing", "setting", "applying", "checking"}

OneActs == \A k, j \in Callers : pc[k] \in Acting /\ pc[j] \in Acting => k = j

\* Each of what follows something is where that is, or a goroutine is about to
\* put it there; and who is about to has seen what there is now.
ConnectedSeen ==
  wired /\ ~Some("noticing") =>
    /\ (pubConnected <=> AnyConnected) \/ Some("setting")
    /\ \A k \in Callers : pc[k] = "setting" => (saw[k] <=> AnyConnected)

PipeGateFollows ==
  /\ (pipeGate.state = Open <=> Both) \/ Some("applying")
  /\ \A k \in Callers : pc[k] = "applying" => (saw[k] <=> Both)

PubGateFollows ==
  ~AskAgain =>
    /\ (pubGate.state = Open <=> AnyConnected) \/ Some("gating")
    /\ \A k \in Callers : pc[k] = "gating" => (saw[k] <=> AnyConnected)

Followed == ~overlapped => OneActs /\ ConnectedSeen /\ PipeGateFollows /\ PubGateFollows

LEMMA FollowInit == Init => Seated /\ Followed
<1> SUFFICES ASSUME Init
             PROVE  Seated /\ Followed
  OBVIOUS
<1>1. \A k \in Callers : pc[k] = "idle"
  BY DEF Init
<1>2. ~wired /\ ~isPrimary /\ ~pubConnected /\ pipeGate.state = Queueing
      /\ pubGate.state = Queueing
  BY DEF Init, NewGate
<1>3. ~AnyConnected
  BY DEF Init, AnyConnected
<1>4. QED
  BY <1>1, <1>2, <1>3, CallerSets
     DEF Seated, Followed, OneActs, ConnectedSeen, PipeGateFollows, PubGateFollows, Both,
         Some, Acting, Open, Queueing

\* Steps that are not seen here: of messages, and within a drain.
LEMMA FollowFrame ==
  ASSUME Types, Seated, Followed,
         UNCHANGED <<wired, up, isPrimary, pubConnected, saw, overlapped>>,
         pipeGate'.state = pipeGate.state, pubGate'.state = pubGate.state,
         \A k \in Callers : pc'[k] = pc[k] \/ (pc[k] = "draining" /\ pc'[k] = "idle")
  PROVE  Seated' /\ Followed'
<1>1. \A k \in Callers :
        \A s \in {"noticing", "checking", "done"} \cup Acting : pc'[k] = s <=> pc[k] = s
  BY DEF Acting
<1>2. Seated'
  BY CallerSets DEF Seated
<1>3. (AnyConnected' <=> AnyConnected) /\ (Both' <=> Both)
  BY DEF AnyConnected, Both
<1>4. /\ Some("noticing")' <=> Some("noticing")
      /\ Some("setting")' <=> Some("setting")
      /\ Some("applying")' <=> Some("applying")
      /\ Some("gating")' <=> Some("gating")
      /\ AskAgain' <=> AskAgain
      /\ OneActs => OneActs'
  BY <1>1, CallerSets DEF Some, AskAgain, OneActs, Acting
<1>5. \A k \in Callers : \A s \in Acting : pc'[k] = s <=> pc[k] = s
  BY <1>1
<1>6. (ConnectedSeen => ConnectedSeen') /\ (PipeGateFollows => PipeGateFollows')
      /\ (PubGateFollows => PubGateFollows')
  BY <1>3, <1>4, <1>5 DEF ConnectedSeen, PipeGateFollows, PubGateFollows, Acting
<1>7. QED
  BY <1>2, <1>4, <1>6 DEF Followed

\* What is left to show of a step of goroutine k to s.
LEMMA FollowStep ==
  ASSUME Followed, NEW k \in Callers, NEW s,
         pc'[k] = s, \A j \in Callers \ {k} : pc'[j] = pc[j],
         ~overlapped' =>
           ~overlapped /\ (s \in Acting => \A j \in Callers \ {k} : pc[j] \notin Acting),
         Seated', ~overlapped' => ConnectedSeen', ~overlapped' => PipeGateFollows',
         ~overlapped' => PubGateFollows'
  PROVE  Seated' /\ Followed'
<1>1. ~overlapped' => OneActs'
  BY DEF Followed, OneActs
<1>2. QED
  BY <1>1 DEF Followed

LEMMA FollowChangeConnection ==
  ASSUME Types, Seated, Followed, NEW b \in Brokers, ChangeConnection(b)
  PROVE  Types' /\ Seated' /\ Followed'
<1>1. PICK k \in Callbacks :
        /\ pc[k] = "idle" /\ GoesOn(k, "noticing", FALSE)
        /\ up' = [up EXCEPT ![b] = ~@]
        /\ UNCHANGED <<wired, isPrimary, pubConnected, pipeGate, pubGate, drain, messages>>
  BY DEF ChangeConnection
<1>2. /\ pc' \in [Callers -> Pcs] /\ saw' \in [Callers -> BOOLEAN] /\ overlapped' \in BOOLEAN
      /\ pc'[k] = "noticing" /\ \A j \in Callers \ {k} : pc'[j] = pc[j] /\ saw'[j] = saw[j]
      /\ ~overlapped' => ~overlapped
  BY <1>1, GoingOn, CallerSets DEF Pcs, Acting
<1>3. Types'
  <2>1. up' \in [Brokers -> BOOLEAN]
    BY <1>1 DEF Types, TypeOK
  <2>2. QED
    BY <1>1, <1>2, <2>1, ControlTypes DEF Types, TypeOK, messages
<1>4. Seated'
  BY <1>1, <1>2, CallerSets DEF Seated
<1>5. Some("noticing")' /\ AskAgain'
  BY <1>2, CallerSets DEF Some, AskAgain
<1>6. ~overlapped' => PipeGateFollows'
  BY <1>1, <1>2, CallerSets DEF Followed, PipeGateFollows, Some, Both
<1>7. QED
  BY <1>2, <1>3, <1>4, <1>5, <1>6, CallerSets, FollowStep
     DEF ConnectedSeen, PubGateFollows, Acting

LEMMA FollowWire ==
  ASSUME Types, Seated, Followed, Wire
  PROVE  Types' /\ Seated' /\ Followed'
<1>1. /\ pc[Main] = "idle" /\ wired' = TRUE /\ GoesOn(Main, "noticing", FALSE)
      /\ UNCHANGED <<up, isPrimary, pubConnected, pipeGate, pubGate, drain, messages>>
  BY DEF Wire
<1>2. /\ pc' \in [Callers -> Pcs] /\ saw' \in [Callers -> BOOLEAN] /\ overlapped' \in BOOLEAN
      /\ pc'[Main] = "noticing"
      /\ \A j \in Callers \ {Main} : pc'[j] = pc[j] /\ saw'[j] = saw[j]
      /\ ~overlapped' => ~overlapped
  BY <1>1, GoingOn, CallerSets DEF Pcs, Acting
<1>3. Types'
  BY <1>1, <1>2, ControlTypes DEF Types, TypeOK, messages
<1>4. Seated'
  BY <1>1, <1>2, CallerSets DEF Seated
<1>5. Some("noticing")'
  BY <1>2, CallerSets DEF Some
<1>6. ~overlapped' => PipeGateFollows'
  BY <1>1, <1>2, CallerSets DEF Followed, PipeGateFollows, Some, Both
<1>7. ~overlapped' => PubGateFollows'
  <2>1. (AnyConnected' <=> AnyConnected) /\ (AskAgain' <=> AskAgain)
    BY <1>1, <1>2, CallerSets DEF AnyConnected, AskAgain
  <2>2. QED
    BY <1>1, <1>2, <2>1, CallerSets DEF Followed, PubGateFollows, Some
<1>8. QED
  BY <1>2, <1>3, <1>4, <1>5, <1>6, <1>7, CallerSets, FollowStep DEF ConnectedSeen, Acting

LEMMA FollowNotice ==
  ASSUME Types, Seated, Followed, NEW k \in Callers, Notice(k)
  PROVE  Types' /\ Seated' /\ Followed'
<1> DEFINE s == IF wired THEN "setting" ELSE "checking"
<1>1. /\ pc[k] = "noticing" /\ GoesOn(k, s, AnyConnected)
      /\ UNCHANGED <<wired, up, isPrimary, pubConnected, pipeGate, pubGate, drain, messages>>
  BY DEF Notice
<1>2. s \in Pcs /\ AnyConnected \in BOOLEAN
  BY DEF Pcs, Acting, AnyConnected
<1>3. /\ pc' \in [Callers -> Pcs] /\ saw' \in [Callers -> BOOLEAN] /\ overlapped' \in BOOLEAN
      /\ pc'[k] = s /\ \A j \in Callers \ {k} : pc'[j] = pc[j] /\ saw'[j] = saw[j]
      /\ saw'[k] = AnyConnected
      /\ ~overlapped' =>
           ~overlapped /\ (s \in Acting => \A j \in Callers \ {k} : pc[j] \notin Acting)
  BY <1>1, <1>2, GoingOn
<1>4. Types'
  BY <1>1, <1>3, ControlTypes DEF Types, TypeOK, messages
<1>5. (saw'[k] <=> AnyConnected) /\ (AnyConnected' <=> AnyConnected)
  BY <1>1, <1>3, Zenon DEF AnyConnected
<1>6. Seated'
  <2>1. k = Main => wired
    BY <1>1 DEF Seated
  <2>2. k # Elector /\ (k # Main => k \in Callbacks)
    BY <1>1, CallerSets DEF Seated
  <2>3. QED
    BY <1>1, <1>3, <2>1, <2>2, CallerSets DEF Seated
<1>7. ~overlapped' => ConnectedSeen'
  <2>1. CASE wired
    BY <1>1, <1>3, <1>5, <2>1 DEF Followed, ConnectedSeen, Some, Acting
  <2>2. CASE ~wired
    BY <1>1, <2>2 DEF ConnectedSeen
  <2>3. QED
    BY <2>1, <2>2
<1>8. ~overlapped' => PipeGateFollows'
  BY <1>1, <1>3 DEF Followed, PipeGateFollows, Some, Both
<1>9. ~overlapped' => PubGateFollows'
  <2>1. AskAgain' <=> AskAgain
    BY <1>1, <1>3, CallerSets DEF AskAgain
  <2>2. QED
    BY <1>1, <1>3, <1>5, <2>1 DEF Followed, PubGateFollows, Some
<1>10. QED
  BY <1>3, <1>4, <1>6, <1>7, <1>8, <1>9, FollowStep

LEMMA FollowSetPubConnected ==
  ASSUME Types, Seated, Followed, NEW k \in Callers, SetPubConnected(k)
  PROVE  Types' /\ Seated' /\ Followed'
<1>1. /\ pc[k] = "setting" /\ GoesOn(k, "applying", isPrimary /\ saw[k])
      /\ pubConnected' = saw[k]
      /\ UNCHANGED <<wired, up, isPrimary, pipeGate, pubGate, drain, messages>>
  BY DEF SetPubConnected
<1>2. "applying" \in Pcs /\ "applying" \in Acting /\ (isPrimary /\ saw[k]) \in BOOLEAN
      /\ pubConnected' \in BOOLEAN
  BY <1>1 DEF Pcs, Acting, Types, TypeOK
<1>3. /\ pc' \in [Callers -> Pcs] /\ saw' \in [Callers -> BOOLEAN] /\ overlapped' \in BOOLEAN
      /\ pc'[k] = "applying" /\ \A j \in Callers \ {k} : pc'[j] = pc[j] /\ saw'[j] = saw[j]
      /\ saw'[k] = (isPrimary /\ saw[k])
      /\ ~overlapped' => ~overlapped /\ \A j \in Callers \ {k} : pc[j] \notin Acting
  BY <1>1, <1>2, GoingOn
<1>4. Types'
  BY <1>1, <1>2, <1>3, ControlTypes DEF Types, TypeOK, messages
<1>5. /\ saw'[k] <=> isPrimary /\ saw[k]
      /\ pubConnected' <=> saw[k]
      /\ AnyConnected' <=> AnyConnected
  BY <1>1, <1>3, Zenon DEF AnyConnected
<1>6. saw'[k] <=> Both'
  BY <1>1, <1>5 DEF Both
<1>7. Seated'
  <2>1. k # Elector /\ (k # Main => k \in Callbacks)
    BY <1>1, CallerSets DEF Seated
  <2>2. QED
    BY <1>1, <1>3, <2>1, CallerSets DEF Seated
<1>8. ~overlapped' => ConnectedSeen'
  <2>1. Some("noticing")' <=> Some("noticing")
    BY <1>1, <1>3 DEF Some
  <2>2. ~overlapped' => \A j \in Callers : pc'[j] # "setting"
    BY <1>3 DEF Acting
  <2>3. QED
    BY <1>1, <1>3, <1>5, <2>1, <2>2 DEF Followed, ConnectedSeen
<1>9. ~overlapped' => PipeGateFollows'
  <2>1. Some("applying")'
    BY <1>3 DEF Some
  <2>2. ~overlapped' => \A j \in Callers : pc'[j] = "applying" => j = k
    BY <1>3 DEF Acting
  <2>3. QED
    BY <1>6, <2>1, <2>2 DEF PipeGateFollows
<1>10. ~overlapped' => PubGateFollows'
  <2>1. AskAgain' <=> AskAgain
    BY <1>1, <1>3, CallerSets DEF AskAgain
  <2>2. QED
    BY <1>1, <1>3, <1>5, <2>1 DEF Followed, PubGateFollows, Some
<1>11. QED
  BY <1>3, <1>7, <1>4, <1>8, <1>9, <1>10, FollowStep

LEMMA FollowSetPrimary ==
  ASSUME Types, Seated, Followed, NEW primary \in BOOLEAN, SetPrimary(primary)
  PROVE  Types' /\ Seated' /\ Followed'
<1>1. /\ pc[Elector] = "idle" /\ pc[Main] = "done"
      /\ GoesOn(Elector, "applying", primary /\ pubConnected)
      /\ isPrimary' = primary
      /\ UNCHANGED <<wired, up, pubConnected, pipeGate, pubGate, drain, messages>>
  BY DEF SetPrimary
<1>2. "applying" \in Pcs /\ "applying" \in Acting /\ (primary /\ pubConnected) \in BOOLEAN
      /\ isPrimary' \in BOOLEAN
  BY <1>1 DEF Pcs, Acting
<1>3. /\ pc' \in [Callers -> Pcs] /\ saw' \in [Callers -> BOOLEAN] /\ overlapped' \in BOOLEAN
      /\ pc'[Elector] = "applying"
      /\ \A j \in Callers \ {Elector} : pc'[j] = pc[j] /\ saw'[j] = saw[j]
      /\ saw'[Elector] = (primary /\ pubConnected)
      /\ ~overlapped' => ~overlapped /\ \A j \in Callers \ {Elector} : pc[j] \notin Acting
  BY <1>1, <1>2, GoingOn, CallerSets
<1>4. Types'
  BY <1>1, <1>2, <1>3, ControlTypes DEF Types, TypeOK, messages
<1>5. /\ saw'[Elector] <=> primary /\ pubConnected
      /\ isPrimary' <=> primary
      /\ AnyConnected' <=> AnyConnected
  BY <1>1, <1>3, Zenon DEF AnyConnected
<1>6. saw'[Elector] <=> Both'
  BY <1>1, <1>5 DEF Both
<1>7. Seated'
  BY <1>1, <1>3, CallerSets DEF Seated
<1>8. ~overlapped' => ConnectedSeen'
  BY <1>1, <1>3, <1>5, CallerSets DEF Followed, ConnectedSeen, Some
<1>9. ~overlapped' => PipeGateFollows'
  <2>1. Some("applying")'
    BY <1>3, CallerSets DEF Some
  <2>2. ~overlapped' => \A j \in Callers : pc'[j] = "applying" => j = Elector
    BY <1>3 DEF Acting
  <2>3. QED
    BY <1>6, <2>1, <2>2 DEF PipeGateFollows
<1>10. ~overlapped' => PubGateFollows'
  <2>1. AskAgain' <=> AskAgain
    BY <1>1, <1>3, CallerSets DEF AskAgain
  <2>2. QED
    BY <1>1, <1>3, <1>5, <2>1, CallerSets DEF Followed, PubGateFollows, Some
<1>11. QED
  BY <1>3, <1>4, <1>7, <1>8, <1>9, <1>10, FollowStep, CallerSets

LEMMA FollowApply ==
  ASSUME Types, Seated, Followed, NEW k \in Callers, applyGateState(k)
  PROVE  Types' /\ Seated' /\ Followed'
<1>1. /\ pc[k] = "applying" /\ GoesOn(k, AfterApply(k), FALSE)
      /\ pipeGate' = IF saw[k] THEN Opened(pipeGate) ELSE Queued(pipeGate)
      /\ stage' = IF saw[k] THEN [m \in Msgs |-> IF m \in Messages(pipeGate.queue)
                                                 THEN "dispatched" ELSE stage[m]]
                  ELSE stage
      /\ UNCHANGED <<wired, up, isPrimary, pubConnected, pubGate, drain, next, reached>>
  BY DEF applyGateState
<1>2. AfterApply(k) \in {"idle", "done", "checking"} /\ AfterApply(k) \in Pcs
      /\ AfterApply(k) \notin Acting
  BY DEF AfterApply, Pcs, Acting
<1>3. /\ pc' \in [Callers -> Pcs] /\ saw' \in [Callers -> BOOLEAN] /\ overlapped' \in BOOLEAN
      /\ pc'[k] = AfterApply(k)
      /\ \A j \in Callers \ {k} : pc'[j] = pc[j] /\ saw'[j] = saw[j]
      /\ ~overlapped' => ~overlapped
  BY <1>1, <1>2, GoingOn
<1>4. /\ pipeGate' \in Gates /\ (pipeGate'.state = Open <=> saw[k])
      /\ Len(pipeGate'.queue) <= MaxLen
  <2>1. pipeGate \in Gates /\ Len(pipeGate.queue) <= MaxLen
    BY DEF Types, TypeOK
  <2>2. CASE saw[k]
    <3>1. pipeGate' = Opened(pipeGate)
      BY <1>1, <2>2
    <3>2. QED
      BY <2>1, <2>2, <3>1, OpenedGate, GateAssumption
  <2>3. CASE ~saw[k]
    <3>1. pipeGate' = Queued(pipeGate)
      BY <1>1, <2>3
    <3>2. QED
      BY <2>1, <2>3, <3>1, OpenedGate DEF Open, Queueing
  <2>4. QED
    BY <2>2, <2>3
<1>5. Types'
  <2>1. stage' \in [Msgs -> Stages]
    BY <1>1 DEF Types, TypeOK, Stages
  <2>2. QED
    BY <1>1, <1>3, <1>4, <2>1, ControlTypes DEF Types, TypeOK
<1>6. (AnyConnected' <=> AnyConnected) /\ (Both' <=> Both)
  BY <1>1 DEF AnyConnected, Both
<1>7. Seated'
  <2>1. /\ k = Main => pc'[k] = "done"
        /\ k = Elector => pc'[k] = "idle"
        /\ k \in Callbacks => pc'[k] = "checking"
    BY <1>3, CallerSets DEF AfterApply
  <2>2. QED
    BY <1>1, <1>3, <2>1, CallerSets DEF Seated
<1>8. ~overlapped' => ConnectedSeen'
  BY <1>1, <1>2, <1>3, <1>6 DEF Followed, ConnectedSeen, Some
<1>9. ~overlapped' => PipeGateFollows'
  <2>1. ~overlapped => (saw[k] <=> Both)
    BY <1>1 DEF Followed, PipeGateFollows
  <2>2. ~overlapped => \A j \in Callers : pc'[j] # "applying"
    BY <1>1, <1>2, <1>3 DEF Followed, OneActs, Acting
  <2>3. QED
    BY <1>3, <1>4, <1>6, <2>1, <2>2 DEF PipeGateFollows
<1>10. ~overlapped' => PubGateFollows'
  <2>1. AskAgain' <=> AskAgain
    <3>1. k \in Callbacks => pc'[k] = "checking"
      BY <1>3, CallerSets DEF AfterApply
    <3>2. QED
      BY <1>1, <1>3, <3>1, CallerSets DEF AskAgain
  <2>2. QED
    BY <1>1, <1>2, <1>3, <1>6, <2>1 DEF Followed, PubGateFollows, Some
<1>11. QED
  BY <1>2, <1>3, <1>5, <1>7, <1>8, <1>9, <1>10, FollowStep

LEMMA FollowCheck ==
  ASSUME Types, Seated, Followed, NEW k \in Callers, Check(k)
  PROVE  Types' /\ Seated' /\ Followed'
<1>1. /\ pc[k] = "checking" /\ GoesOn(k, "gating", AnyConnected)
      /\ UNCHANGED <<wired, up, isPrimary, pubConnected, pipeGate, pubGate, drain, messages>>
  BY DEF Check
<1>2. "gating" \in Pcs /\ "gating" \in Acting /\ AnyConnected \in BOOLEAN
  BY DEF Pcs, Acting, AnyConnected
<1>3. /\ pc' \in [Callers -> Pcs] /\ saw' \in [Callers -> BOOLEAN] /\ overlapped' \in BOOLEAN
      /\ pc'[k] = "gating" /\ \A j \in Callers \ {k} : pc'[j] = pc[j] /\ saw'[j] = saw[j]
      /\ saw'[k] = AnyConnected
      /\ ~overlapped' => ~overlapped /\ \A j \in Callers \ {k} : pc[j] \notin Acting
  BY <1>1, <1>2, GoingOn
<1>4. Types'
  BY <1>1, <1>3, ControlTypes DEF Types, TypeOK, messages
<1>5. (saw'[k] <=> AnyConnected) /\ (AnyConnected' <=> AnyConnected)
  BY <1>1, <1>3, Zenon DEF AnyConnected
<1>6. Seated'
  <2>1. k # Elector /\ k # Main
    BY <1>1 DEF Seated
  <2>2. QED
    BY <1>1, <1>3, <2>1, CallerSets DEF Seated
<1>7. ~overlapped' => ConnectedSeen'
  BY <1>1, <1>3, <1>5 DEF Followed, ConnectedSeen, Some
<1>8. ~overlapped' => PipeGateFollows'
  BY <1>1, <1>3 DEF Followed, PipeGateFollows, Some, Both
<1>9. ~overlapped' => PubGateFollows'
  <2>1. Some("gating")'
    BY <1>3 DEF Some
  <2>2. ~overlapped' => \A j \in Callers : pc'[j] = "gating" => j = k
    BY <1>3 DEF Acting
  <2>3. QED
    BY <1>5, <2>1, <2>2 DEF PubGateFollows
<1>10. QED
  BY <1>3, <1>4, <1>6, <1>7, <1>8, <1>9, FollowStep

LEMMA FollowMovePubGate ==
  ASSUME Types, Seated, Followed, NEW k \in Callers, MovePubGate(k)
  PROVE  Types' /\ Seated' /\ Followed'
<1> DEFINE s == IF drain'[k] = <<>> THEN "idle" ELSE "draining"
<1>1. /\ pc[k] = "gating" /\ GoesOn(k, s, FALSE)
      /\ pubGate' = IF saw[k] THEN Opened(pubGate) ELSE Queued(pubGate)
      /\ drain' = [drain EXCEPT ![k] = IF saw[k] THEN Backlog(pubGate, 0) ELSE <<>>]
      /\ UNCHANGED <<wired, up, isPrimary, pubConnected, pipeGate, messages>>
  BY DEF MovePubGate
<1>2. s \in {"idle", "draining"} /\ s \in Pcs /\ s \notin Acting
  BY DEF Pcs, Acting
<1> HIDE DEF s
<1>3. /\ pc' \in [Callers -> Pcs] /\ saw' \in [Callers -> BOOLEAN] /\ overlapped' \in BOOLEAN
      /\ pc'[k] = s /\ \A j \in Callers \ {k} : pc'[j] = pc[j] /\ saw'[j] = saw[j]
      /\ ~overlapped' => ~overlapped
  BY <1>1, <1>2, GoingOn
<1>4. /\ pubGate' \in Gates /\ (pubGate'.state = Open <=> saw[k])
      /\ Len(pubGate'.queue) <= MaxLen /\ drain' \in [Callers -> Seq(Msgs)]
  <2>1. pubGate \in Gates /\ Len(pubGate.queue) <= MaxLen /\ drain \in [Callers -> Seq(Msgs)]
    BY DEF Types, TypeOK
  <2>2. Backlog(pubGate, 0) \in Seq(Msgs) /\ <<>> \in Seq(Msgs)
    BY <2>1, BacklogOf
  <2>3. CASE saw[k]
    <3>1. pubGate' = Opened(pubGate) /\ drain' = [drain EXCEPT ![k] = Backlog(pubGate, 0)]
      BY <1>1, <2>3
    <3>2. QED
      BY <2>1, <2>2, <2>3, <3>1, OpenedGate, GateAssumption
  <2>4. CASE ~saw[k]
    <3>1. pubGate' = Queued(pubGate) /\ drain' = [drain EXCEPT ![k] = <<>>]
      BY <1>1, <2>4
    <3>2. QED
      BY <2>1, <2>2, <2>4, <3>1, OpenedGate DEF Open, Queueing
  <2>5. QED
    BY <2>3, <2>4
<1>5. Types'
  BY <1>1, <1>3, <1>4, ControlTypes DEF Types, TypeOK, messages
<1>6. (AnyConnected' <=> AnyConnected) /\ (Both' <=> Both)
  BY <1>1 DEF AnyConnected, Both
<1>7. Seated'
  <2>1. k # Elector /\ k # Main
    BY <1>1 DEF Seated
  <2>2. QED
    BY <1>1, <1>2, <1>3, <2>1, CallerSets DEF Seated
<1>8. ~overlapped' => ConnectedSeen'
  BY <1>1, <1>2, <1>3, <1>6 DEF Followed, ConnectedSeen, Some
<1>9. ~overlapped' => PipeGateFollows'
  BY <1>1, <1>2, <1>3, <1>6 DEF Followed, PipeGateFollows, Some
<1>10. ~overlapped' => PubGateFollows'
  <2>1. AskAgain' <=> AskAgain
    BY <1>1, <1>2, <1>3, CallerSets DEF AskAgain
  <2>2. ~overlapped /\ ~AskAgain => (saw[k] <=> AnyConnected)
    BY <1>1 DEF Followed, PubGateFollows
  <2>3. ~overlapped => \A j \in Callers : pc'[j] # "gating"
    BY <1>1, <1>2, <1>3 DEF Followed, OneActs, Acting
  <2>4. QED
    BY <1>3, <1>4, <1>6, <2>1, <2>2, <2>3 DEF PubGateFollows
<1>11. QED
  BY <1>2, <1>3, <1>5, <1>7, <1>8, <1>9, <1>10, FollowStep

-----------------------------------------------------------------------------
(* Messages, and what steps of theirs leave alone.                         *)

LEMMA StageMoves ==
  ASSUME Types, NEW m \in Msgs, NEW s \in Stages, stage' = [stage EXCEPT ![m] = s]
  PROVE  /\ stage' \in [Msgs -> Stages]
         /\ \A n \in Msgs : stage'[n] = IF n = m THEN s ELSE stage[n]
  BY DEF Types, TypeOK

LEMMA MessageTypes ==
  ASSUME Types, Seated, Followed, UNCHANGED controls, stage' \in [Msgs -> Stages],
         pipeGate' \in Gates, pubGate' \in Gates,
         pipeGate'.state = pipeGate.state, pubGate'.state = pubGate.state,
         Len(pipeGate'.queue) <= MaxLen, Len(pubGate'.queue) <= MaxLen,
         next' \in [Msgs -> Brokers], reached' \in [Msgs -> BOOLEAN]
  PROVE  Types' /\ Seated' /\ Followed'
<1>1. UNCHANGED <<wired, up, isPrimary, pubConnected, pc, saw, drain, overlapped>>
  BY DEF controls, callers
<1>2. Types'
  BY <1>1, ControlTypes DEF Types, TypeOK, Pcs
<1>3. Seated' /\ Followed'
  BY <1>1, FollowFrame
<1>4. QED
  BY <1>2, <1>3

LEMMA FollowMessages ==
  ASSUME Types, Seated, Followed, NEW m \in Msgs, HandleMessage(m) \/ process(m)
  PROVE  Types' /\ Seated' /\ Followed'
<1>1. /\ pipeGate \in Gates /\ pubGate \in Gates
      /\ Len(pipeGate.queue) <= MaxLen /\ Len(pubGate.queue) <= MaxLen
      /\ stage \in [Msgs -> Stages] /\ next \in [Msgs -> Brokers]
      /\ reached \in [Msgs -> BOOLEAN]
  BY DEF Types, TypeOK
<1>2. /\ {"none", "queued", "dispatched", "holding", "held", "fanning"} \subseteq Stages
      /\ {"delivered", "failed", "refused"} \subseteq Stages
  BY DEF Stages, Final
<1>3. CASE HandleMessage(m)
  <2>1. UNCHANGED <<controls, pubGate, next, reached>>
    BY <1>3 DEF HandleMessage
  <2>2. stage' \in [Msgs -> Stages]
    BY <1>3, <1>2, StageMoves DEF HandleMessage
  <2>3. \/ UNCHANGED pipeGate
        \/ ~IsFull(pipeGate, 0) /\ pipeGate' = Enqueued(pipeGate, m, 0)
    BY <1>3 DEF HandleMessage
  <2>4. /\ pipeGate' \in Gates /\ pipeGate'.state = pipeGate.state
        /\ Len(pipeGate'.queue) <= MaxLen
    <3>1. CASE UNCHANGED pipeGate
      BY <1>1, <3>1
    <3>2. CASE ~IsFull(pipeGate, 0) /\ pipeGate' = Enqueued(pipeGate, m, 0)
      BY <1>1, <3>2, EnqueuedGate
    <3>3. QED
      BY <2>3, <3>1, <3>2
  <2>5. QED
    BY <1>1, <2>1, <2>2, <2>4, MessageTypes
<1>4. CASE Publish(m)
  <2>1. UNCHANGED <<controls, pipeGate, pubGate, next, reached>>
    BY <1>4 DEF Publish
  <2>2. stage' \in [Msgs -> Stages]
    BY <1>4, <1>2, StageMoves DEF Publish
  <2>3. QED
    BY <1>1, <2>1, <2>2, MessageTypes
<1>5. CASE Hold(m)
  <2>1. UNCHANGED <<controls, pipeGate, next, reached>>
    BY <1>5 DEF Hold
  <2>2. stage' \in [Msgs -> Stages]
    BY <1>5, <1>2, StageMoves DEF Hold
  <2>3. \/ UNCHANGED pubGate
        \/ ~IsFull(pubGate, 0) /\ pubGate' = Enqueued(pubGate, m, 0)
    BY <1>5 DEF Hold
  <2>4. /\ pubGate' \in Gates /\ pubGate'.state = pubGate.state
        /\ Len(pubGate'.queue) <= MaxLen
    <3>1. CASE UNCHANGED pubGate
      BY <1>1, <3>1
    <3>2. CASE ~IsFull(pubGate, 0) /\ pubGate' = Enqueued(pubGate, m, 0)
      BY <1>1, <3>2, EnqueuedGate
    <3>3. QED
      BY <2>3, <3>1, <3>2
  <2>5. QED
    BY <1>1, <2>1, <2>2, <2>4, MessageTypes
<1>6. CASE publishNow(m)
  <2> DEFINE took == reached[m] \/ up[next[m]]
  <2>1. UNCHANGED <<controls, pipeGate, pubGate>>
    BY <1>6 DEF publishNow
  <2>2. took \in BOOLEAN
    OBVIOUS
  <2>3. \/ /\ next[m] < Targets /\ next' = [next EXCEPT ![m] = @ + 1]
           /\ reached' = [reached EXCEPT ![m] = took] /\ UNCHANGED stage
        \/ /\ next' = [next EXCEPT ![m] = 1] /\ reached' = [reached EXCEPT ![m] = FALSE]
           /\ stage' = [stage EXCEPT ![m] = IF took THEN "delivered" ELSE "failed"]
    BY <1>6, Zenon DEF publishNow
  <2> HIDE DEF took
  <2>4. stage' \in [Msgs -> Stages]
    BY <1>1, <1>2, <2>3, StageMoves
  <2>5. next[m] \in 1..Targets /\ Targets \in Nat
    BY <1>1, DeliveryAssumption DEF Brokers
  <2>6. next' \in [Msgs -> Brokers] /\ reached' \in [Msgs -> BOOLEAN]
    <3>1. CASE next[m] < Targets /\ next' = [next EXCEPT ![m] = @ + 1]
               /\ reached' = [reached EXCEPT ![m] = took]
      <4>1. next[m] + 1 \in Brokers
        BY <2>5, <3>1 DEF Brokers
      <4>2. QED
        BY <1>1, <2>2, <3>1, <4>1
    <3>2. CASE next' = [next EXCEPT ![m] = 1] /\ reached' = [reached EXCEPT ![m] = FALSE]
      BY <1>1, <3>2, CallerSets
    <3>3. QED
      BY <2>3, <3>1, <3>2
  <2>7. QED
    BY <1>1, <2>1, <2>4, <2>6, MessageTypes
<1>7. QED
  BY <1>3, <1>4, <1>5, <1>6 DEF process

\* What it means that one message is done with, or starts.
LEMMA Drained ==
  ASSUME Types, NEW k \in Callers, DrainOne(k), pc[k] = "draining" => drain[k] # <<>>
  PROVE  /\ drain[k] \in Seq(Msgs) /\ Len(drain[k]) >= 1 /\ drain[k][1] \in Msgs
         /\ UNCHANGED <<wired, up, isPrimary, pubConnected, pipeGate, pubGate, saw, next>>
         /\ UNCHANGED <<reached, overlapped>>
         /\ \/ /\ stage[drain[k][1]] = "held" /\ UNCHANGED <<drain, pc>>
               /\ stage' = [stage EXCEPT ![drain[k][1]] = "fanning"]
            \/ /\ stage[drain[k][1]] \in Final /\ UNCHANGED stage
               /\ drain' = [drain EXCEPT ![k] = Tail(drain[k])]
               /\ pc' = [pc EXCEPT ![k] = IF Len(drain[k]) = 1 THEN "idle" ELSE "draining"]
<1>1. drain[k] \in Seq(Msgs) /\ pc[k] = "draining"
  BY DEF Types, TypeOK, DrainOne
<1>2. Len(drain[k]) >= 1 /\ Head(drain[k]) = drain[k][1] /\ drain[k][1] \in Msgs
  BY <1>1
<1>3. QED
  BY <1>1, <1>2 DEF DrainOne

LEMMA FollowDrainOne ==
  ASSUME Types, Seated, Followed, NEW k \in Callers, DrainOne(k),
         pc[k] = "draining" => drain[k] # <<>>
  PROVE  Types' /\ Seated' /\ Followed'
<1>1. pc[k] = "draining" /\ pc \in [Callers -> Pcs] /\ "idle" \in Pcs
  BY DEF DrainOne, Types, TypeOK, Pcs
<1>2. \A j \in Callers : pc'[j] = pc[j] \/ (pc[j] = "draining" /\ pc'[j] = "idle")
  BY <1>1, Drained
<1>3. pc' \in [Callers -> Pcs]
  BY <1>1, Drained
<1>4. drain' \in [Callers -> Seq(Msgs)]
  <2>1. Tail(drain[k]) \in Seq(Msgs)
    BY Drained
  <2>2. QED
    BY <2>1, Drained DEF Types, TypeOK
<1>5. stage' \in [Msgs -> Stages]
  BY Drained DEF Types, TypeOK, Stages
<1>6. UNCHANGED <<wired, up, isPrimary, pubConnected, pipeGate, pubGate, saw, next, reached,
                  overlapped>>
  BY DEF DrainOne
<1>7. Types'
  BY <1>3, <1>4, <1>5, <1>6, ControlTypes DEF Types, TypeOK
<1>8. Seated' /\ Followed'
  BY <1>2, <1>6, FollowFrame
<1>9. QED
  BY <1>7, <1>8

-----------------------------------------------------------------------------
(* One place.                                                              *)

Once(g) == \A i, j \in DOMAIN g.queue : g.queue[i].msg = g.queue[j].msg => i = j

InADrain(m) == \E k \in Callers : \E i \in DOMAIN drain[k] : drain[k][i] = m

\* Where a message that an Open has taken out of the publisher's gate may be,
\* once its turn has come.
Turned == {"held", "fanning"} \cup Final

Queues ==
  /\ Once(pipeGate) /\ Once(pubGate)
  /\ \A m \in Msgs : stage[m] = "queued" <=> m \in Messages(pipeGate.queue)
  /\ \A m \in Messages(pubGate.queue) : stage[m] = "held"
  /\ \A m \in Msgs : stage[m] = "held" => m \in Messages(pubGate.queue) \/ InADrain(m)

Draining ==
  \A k \in Callers :
    /\ pc[k] = "draining" <=> drain[k] # <<>>
    /\ \A i \in DOMAIN drain[k] :
         /\ drain[k][i] \notin Messages(pubGate.queue)
         /\ stage[drain[k][i]] \in (IF i = 1 THEN Turned ELSE {"held"})
         /\ \A j \in Callers : \A h \in DOMAIN drain[j] :
              drain[k][i] = drain[j][h] => k = j /\ i = h

Placed == Queues /\ Draining

LEMMA PlacedInit == Init => Placed
<1> SUFFICES ASSUME Init
             PROVE  Placed
  OBVIOUS
<1>1. /\ pipeGate.queue = <<>> /\ pubGate.queue = <<>>
      /\ \A k \in Callers : drain[k] = <<>> /\ pc[k] = "idle"
      /\ \A m \in Msgs : stage[m] = "none"
  BY DEF Init, NewGate
<1>2. Messages(<<>>) = {} /\ DOMAIN (<<>>) = {}
  BY DEF Messages
<1>3. QED
  BY <1>1, <1>2 DEF Placed, Queues, Draining, Once

LEMMA DrainDomains ==
  ASSUME Types
  PROVE  \A k \in Callers :
           /\ drain[k] \in Seq(Msgs) /\ DOMAIN drain[k] = 1..Len(drain[k])
           /\ \A i \in DOMAIN drain[k] : drain[k][i] \in Msgs
  BY DEF Types, TypeOK

\* A message that changes its stage outside the queues.
LEMMA PlacedMessage ==
  ASSUME Types, Placed, NEW m \in Msgs, NEW s \in Stages, stage' = [stage EXCEPT ![m] = s],
         {stage[m], s} \cap {"queued", "held"} = {}, stage[m] \in Turned => s \in Turned,
         UNCHANGED <<pipeGate, pubGate, drain, pc>>
  PROVE  Placed'
<1>1. \A n \in Msgs : stage'[n] = IF n = m THEN s ELSE stage[n]
  BY StageMoves
<1>2. \A n : InADrain(n)' <=> InADrain(n)
  BY DEF InADrain
<1>3. Messages(pipeGate.queue) \subseteq Msgs /\ Messages(pubGate.queue) \subseteq Msgs
  BY QueueOf DEF Types
<1>4. Queues'
  BY <1>1, <1>2, <1>3 DEF Placed, Queues, Once
<1>5. Draining'
  <2>1. \A k \in Callers : \A i \in DOMAIN drain[k] :
          stage'[drain[k][i]] \in (IF i = 1 THEN Turned ELSE {"held"})
    <3> SUFFICES ASSUME NEW k \in Callers, NEW i \in DOMAIN drain[k]
                 PROVE  stage'[drain[k][i]] \in (IF i = 1 THEN Turned ELSE {"held"})
      OBVIOUS
    <3>1. drain[k][i] \in Msgs /\ stage[drain[k][i]] \in (IF i = 1 THEN Turned ELSE {"held"})
      BY DrainDomains DEF Placed, Draining
    <3>2. stage[m] # "held"
      OBVIOUS
    <3>3. QED
      BY <1>1, <3>1, <3>2
  <2>2. QED
    BY <2>1 DEF Placed, Draining
<1>6. QED
  BY <1>4, <1>5 DEF Placed

\* A goroutine that moves without touching a queue.
LEMMA PlacedFrame ==
  ASSUME Types, Placed, UNCHANGED <<drain, stage>>,
         pipeGate'.queue = pipeGate.queue, pubGate'.queue = pubGate.queue,
         \A k \in Callers : pc'[k] = "draining" <=> pc[k] = "draining"
  PROVE  Placed'
  BY DEF Placed, Queues, Draining, Once, InADrain

\* The message is appended to a gate's queue.
LEMMA PlacedHandle ==
  ASSUME Types, Placed, NEW m \in Msgs, HandleMessage(m)
  PROVE  Placed'
<1>1. stage[m] = "none" /\ UNCHANGED <<pubGate, drain, pc>>
  BY DEF HandleMessage, controls, callers
<1>2. {"dispatched", "queued", "refused"} \subseteq Stages /\ "none" \notin Turned
  BY DEF Stages, Final, Turned
<1>3. CASE \E s \in {"dispatched", "refused"} :
             stage' = [stage EXCEPT ![m] = s] /\ UNCHANGED pipeGate
  BY <1>1, <1>2, <1>3, PlacedMessage
<1>4. CASE /\ ~IsFull(pipeGate, 0) /\ stage' = [stage EXCEPT ![m] = "queued"]
           /\ pipeGate' = Enqueued(pipeGate, m, 0)
  <2> DEFINE q == pipeGate.queue
             last == Len(q) + 1
  <2>1. pipeGate'.queue = Append(q, [msg |-> m, at |-> 0])
    BY <1>4, EnqueuedGate DEF Types, TypeOK
  <2>2. /\ Messages(pipeGate'.queue) = Messages(q) \cup {m}
        /\ DOMAIN pipeGate'.queue = DOMAIN q \cup {last} /\ last \notin DOMAIN q
        /\ pipeGate'.queue[last].msg = m
        /\ \A i \in DOMAIN q : pipeGate'.queue[i] = q[i]
    <3>1. q \in Seq(Entry)
      BY DEF Types, Gates
    <3>2. QED
      BY <2>1, <3>1, MessagesAppended
  <2>3. \A n \in Msgs : stage'[n] = IF n = m THEN "queued" ELSE stage[n]
    BY <1>2, <1>4, StageMoves
  <2>4. m \notin Messages(q) /\ m \notin Messages(pubGate.queue)
    BY <1>1 DEF Placed, Queues
  <2>5. \A i \in DOMAIN q : q[i].msg # m
    BY <2>4 DEF Messages
  <2> HIDE DEF last, q
  <2>6. \A i, j \in DOMAIN pipeGate'.queue :
          pipeGate'.queue[i].msg = pipeGate'.queue[j].msg => i = j
    <3>1. \A i, j \in DOMAIN q : q[i].msg = q[j].msg => i = j
      BY DEF Placed, Queues, Once, q
    <3>2. QED
      BY <2>2, <2>5, <3>1
  <2>7. \A n : InADrain(n)' <=> InADrain(n)
    BY <1>1 DEF InADrain
  <2>8. Messages(q) \subseteq Msgs /\ Messages(pubGate.queue) \subseteq Msgs
    BY QueueOf DEF Types, q
  <2>9. Once(pipeGate)' /\ Once(pubGate)'
    BY <1>1, <2>6 DEF Once, Placed, Queues
  <2>10. \A n \in Msgs : stage'[n] = "queued" <=> n \in Messages(pipeGate'.queue)
    BY <2>2, <2>3 DEF Placed, Queues, q
  <2>11. Queues'
    BY <1>1, <2>3, <2>4, <2>7, <2>8, <2>9, <2>10 DEF Placed, Queues
  <2>12. Draining'
    <3>1. \A k \in Callers : \A i \in DOMAIN drain[k] : drain[k][i] # m
      BY <1>1, <1>2, DrainDomains DEF Placed, Draining
    <3>2. QED
      BY <1>1, <2>3, <3>1, DrainDomains DEF Placed, Draining
  <2>13. QED
    BY <2>11, <2>12 DEF Placed
<1>5. QED
  BY <1>3, <1>4 DEF HandleMessage

LEMMA PlacedHold ==
  ASSUME Types, Placed, NEW m \in Msgs, Hold(m)
  PROVE  Placed'
<1>1. stage[m] = "holding" /\ UNCHANGED <<pipeGate, drain, pc>>
  BY DEF Hold, controls, callers
<1>2. {"fanning", "held", "refused"} \subseteq Stages /\ "holding" \notin Turned
  BY DEF Stages, Final, Turned
<1>3. CASE \E s \in {"fanning", "refused"} :
             stage' = [stage EXCEPT ![m] = s] /\ UNCHANGED pubGate
  BY <1>1, <1>2, <1>3, PlacedMessage
<1>4. CASE /\ ~IsFull(pubGate, 0) /\ stage' = [stage EXCEPT ![m] = "held"]
           /\ pubGate' = Enqueued(pubGate, m, 0)
  <2> DEFINE q == pubGate.queue
             last == Len(q) + 1
  <2>1. pubGate'.queue = Append(q, [msg |-> m, at |-> 0])
    BY <1>4, EnqueuedGate DEF Types, TypeOK
  <2>2. /\ Messages(pubGate'.queue) = Messages(q) \cup {m}
        /\ DOMAIN pubGate'.queue = DOMAIN q \cup {last} /\ last \notin DOMAIN q
        /\ pubGate'.queue[last].msg = m
        /\ \A i \in DOMAIN q : pubGate'.queue[i] = q[i]
    <3>1. q \in Seq(Entry)
      BY DEF Types, Gates
    <3>2. QED
      BY <2>1, <3>1, MessagesAppended
  <2>3. \A n \in Msgs : stage'[n] = IF n = m THEN "held" ELSE stage[n]
    BY <1>2, <1>4, StageMoves
  <2>4. m \notin Messages(q) /\ m \notin Messages(pipeGate.queue)
    BY <1>1 DEF Placed, Queues
  <2>5. \A i \in DOMAIN q : q[i].msg # m
    BY <2>4 DEF Messages
  <2> HIDE DEF last, q
  <2>6. \A i, j \in DOMAIN pubGate'.queue :
          pubGate'.queue[i].msg = pubGate'.queue[j].msg => i = j
    <3>1. \A i, j \in DOMAIN q : q[i].msg = q[j].msg => i = j
      BY DEF Placed, Queues, Once, q
    <3>2. QED
      BY <2>2, <2>5, <3>1
  <2>7. \A n : InADrain(n)' <=> InADrain(n)
    BY <1>1 DEF InADrain
  <2>8. Messages(q) \subseteq Msgs /\ Messages(pipeGate.queue) \subseteq Msgs
    BY QueueOf DEF Types, q
  <2>9. Once(pipeGate)' /\ Once(pubGate)'
    BY <1>1, <2>6 DEF Once, Placed, Queues
  <2>10. /\ \A n \in Messages(pubGate'.queue) : stage'[n] = "held"
         /\ \A n \in Msgs :
              stage'[n] = "held" => n \in Messages(pubGate'.queue) \/ InADrain(n)'
    BY <2>2, <2>3, <2>7, <2>8 DEF Placed, Queues, q
  <2>11. Queues'
    BY <1>1, <2>3, <2>4, <2>8, <2>9, <2>10 DEF Placed, Queues
  <2>12. Draining'
    <3>1. \A k \in Callers : \A i \in DOMAIN drain[k] : drain[k][i] # m
      BY <1>1, <1>2, DrainDomains DEF Placed, Draining
    <3>2. \A k \in Callers : \A i \in DOMAIN drain[k] :
            drain[k][i] \notin Messages(pubGate'.queue)
      BY <2>2, <3>1 DEF Placed, Draining, q
    <3>3. QED
      BY <1>1, <2>3, <3>1, <3>2, DrainDomains DEF Placed, Draining
  <2>13. QED
    BY <2>11, <2>12 DEF Placed
<1>5. QED
  BY <1>3, <1>4 DEF Hold

\* publishNow and Publish do not touch a queue.
LEMMA PlacedPublish ==
  ASSUME Types, Placed, NEW m \in Msgs, Publish(m) \/ publishNow(m)
  PROVE  Placed'
<1>1. UNCHANGED <<pipeGate, pubGate, drain, pc>>
  BY DEF Publish, publishNow, controls, callers
<1>2. {"fanning", "holding", "delivered", "failed"} \subseteq Stages
      /\ {"fanning", "delivered", "failed"} \subseteq Turned /\ "dispatched" \notin Turned
  BY DEF Stages, Turned, Final
<1>3. CASE UNCHANGED stage
  BY <1>1, <1>3, PlacedFrame
<1>4. CASE /\ stage[m] = "fanning"
           /\ \E s \in {"delivered", "failed"} : stage' = [stage EXCEPT ![m] = s]
  BY <1>1, <1>2, <1>4, PlacedMessage
<1>5. CASE /\ stage[m] = "dispatched"
           /\ \E s \in {"fanning", "holding"} : stage' = [stage EXCEPT ![m] = s]
  BY <1>1, <1>2, <1>5, PlacedMessage
<1>6. QED
  BY <1>3, <1>4, <1>5 DEF Publish, publishNow

\* The queue is handed to process(), message by message.
LEMMA PlacedApply ==
  ASSUME Types, Placed, NEW k \in Callers, applyGateState(k)
  PROVE  Placed'
<1>1. /\ pc[k] = "applying" /\ GoesOn(k, AfterApply(k), FALSE) /\ UNCHANGED <<pubGate, drain>>
  BY DEF applyGateState
<1>2. \A j \in Callers : pc'[j] = "draining" <=> pc[j] = "draining"
  <2>1. AfterApply(k) \in Pcs /\ AfterApply(k) # "draining"
    BY DEF AfterApply, Pcs
  <2>2. QED
    BY <1>1, <2>1, GoingOn
<1>3. CASE saw[k]
  <2>1. pipeGate'.queue = <<>>
    <3>1. pipeGate' = Opened(pipeGate) /\ pipeGate \in Gates
      BY <1>3 DEF applyGateState, Types
    <3>2. QED
      BY <3>1, OpenedGate
  <2>2. stage' = [m \in Msgs |-> IF m \in Messages(pipeGate.queue)
                                 THEN "dispatched" ELSE stage[m]]
    BY <1>3 DEF applyGateState
  <2>3. Messages(pipeGate'.queue) = {} /\ Once(pipeGate)'
    BY <2>1 DEF Messages, Once
  <2>4. \A m \in Msgs : /\ stage'[m] # "queued"
                        /\ stage[m] # "queued" => stage'[m] = stage[m]
                        /\ stage'[m] = "held" => stage[m] = "held"
    BY <2>2 DEF Placed, Queues
  <2>5. \A m : InADrain(m)' <=> InADrain(m)
    BY <1>1 DEF InADrain
  <2>6. Messages(pubGate.queue) \subseteq Msgs
    BY QueueOf DEF Types
  <2>7. Queues'
    BY <1>1, <2>3, <2>4, <2>5, <2>6 DEF Placed, Queues, Once
  <2>8. \A j \in Callers : \A i \in DOMAIN drain[j] : stage'[drain[j][i]] = stage[drain[j][i]]
    <3> SUFFICES ASSUME NEW j \in Callers, NEW i \in DOMAIN drain[j]
                 PROVE  stage'[drain[j][i]] = stage[drain[j][i]]
      OBVIOUS
    <3>1. drain[j][i] \in Msgs /\ stage[drain[j][i]] \in Turned
      BY DrainDomains DEF Placed, Draining, Turned
    <3>2. QED
      BY <2>4, <3>1 DEF Turned, Final
  <2>9. Draining'
    BY <1>1, <1>2, <2>8 DEF Placed, Draining
  <2>10. QED
    BY <2>7, <2>9 DEF Placed
<1>4. CASE ~saw[k]
  <2>1. UNCHANGED stage /\ pipeGate' = Queued(pipeGate)
    BY <1>4 DEF applyGateState
  <2>2. pipeGate'.queue = pipeGate.queue
    BY <2>1, OpenedGate DEF Types
  <2>3. QED
    BY <1>1, <1>2, <2>1, <2>2, PlacedFrame
<1>5. QED
  BY <1>3, <1>4

\* Open takes what the publisher's gate holds for goroutine k to forward.
LEMMA PlacedMovePubGate ==
  ASSUME Types, Placed, NEW k \in Callers, MovePubGate(k)
  PROVE  Placed'
<1> DEFINE s == IF drain'[k] = <<>> THEN "idle" ELSE "draining"
<1>1. pc[k] = "gating" /\ GoesOn(k, s, FALSE) /\ UNCHANGED <<pipeGate, stage>>
  BY DEF MovePubGate, messages
<1>2. /\ pc'[k] = "draining" <=> drain'[k] # <<>>
      /\ \A j \in Callers \ {k} : pc'[j] = pc[j]
  <2>1. s \in Pcs
    BY DEF Pcs
  <2>2. pc'[k] = s /\ \A j \in Callers \ {k} : pc'[j] = pc[j]
    <3> HIDE DEF s
    <3> QED
      BY <1>1, <2>1, GoingOn
  <2>3. QED
    BY <2>2
<1>3. drain[k] = <<>>
  BY <1>1 DEF Placed, Draining
<1>4. drain \in [Callers -> Seq(Msgs)] /\ pubGate \in Gates
  BY DEF Types, TypeOK
<1>5. CASE saw[k]
  <2>1. /\ pubGate' = Opened(pubGate) /\ drain' = [drain EXCEPT ![k] = Backlog(pubGate, 0)]
    BY <1>5 DEF MovePubGate
  <2>2. pubGate'.queue = <<>>
    BY <1>4, <2>1, OpenedGate
  <2>3. Messages(pubGate'.queue) = {} /\ Once(pubGate)'
    BY <2>2 DEF Messages, Once
  <2>4. /\ DOMAIN drain'[k] = DOMAIN pubGate.queue
        /\ \A i \in DOMAIN pubGate.queue : drain'[k][i] = pubGate.queue[i].msg
        /\ \A j \in Callers \ {k} : drain'[j] = drain[j]
    BY <1>4, <2>1, BacklogOf
  <2>5. \A i \in DOMAIN drain'[k] : drain'[k][i] \in Messages(pubGate.queue)
    BY <2>4 DEF Messages
  <2>6. \A m \in Messages(pubGate.queue) : InADrain(m)'
    BY <2>4 DEF Messages, InADrain
  <2>7. \A m \in Msgs : InADrain(m) => InADrain(m)'
    BY <1>3, <2>4 DEF InADrain
  <2>8. Queues'
    BY <1>1, <2>3, <2>6, <2>7 DEF Placed, Queues, Once
  <2>9. Draining'
    <3>1. ASSUME NEW j \in Callers, NEW i \in DOMAIN drain'[j]
          PROVE  stage[drain'[j][i]] \in (IF i = 1 THEN Turned ELSE {"held"})
      BY <2>4, <2>5, <3>1 DEF Placed, Draining, Queues, Turned
    <3>2. ASSUME NEW j \in Callers, NEW h \in Callers, NEW i \in DOMAIN drain'[j],
                 NEW n \in DOMAIN drain'[h], drain'[j][i] = drain'[h][n]
          PROVE  j = h /\ i = n
      <4>1. CASE j = k /\ h = k
        BY <2>4, <3>2, <4>1 DEF Placed, Queues, Once
      <4>2. CASE j # k /\ h # k
        BY <2>4, <3>2, <4>2 DEF Placed, Draining
      <4>3. CASE j = k /\ h # k
        BY <2>4, <2>5, <3>2, <4>3 DEF Placed, Draining
      <4>4. CASE j # k /\ h = k
        BY <2>4, <2>5, <3>2, <4>4 DEF Placed, Draining
      <4>5. QED
        BY <4>1, <4>2, <4>3, <4>4
    <3>3. \A j \in Callers : pc'[j] = "draining" <=> drain'[j] # <<>>
      BY <1>2, <2>4 DEF Placed, Draining
    <3>4. QED
      BY <1>1, <2>3, <3>1, <3>2, <3>3 DEF Draining
  <2>10. QED
    BY <2>8, <2>9 DEF Placed
<1>6. CASE ~saw[k]
  <2>1. pubGate' = Queued(pubGate) /\ drain' = [drain EXCEPT ![k] = <<>>]
    BY <1>6 DEF MovePubGate
  <2>2. pubGate'.queue = pubGate.queue /\ drain' = drain
    BY <1>3, <1>4, <2>1, OpenedGate
  <2>3. \A j \in Callers : pc'[j] = "draining" <=> pc[j] = "draining"
    BY <1>1, <1>2, <1>3, <2>2
  <2>4. QED
    BY <1>1, <2>2, <2>3, PlacedFrame
<1>7. QED
  BY <1>5, <1>6

LEMMA TailOf ==
  ASSUME NEW q \in Seq(Msgs), Len(q) >= 1
  PROVE  /\ DOMAIN q = 1..Len(q) /\ Len(q) \in Nat
         /\ DOMAIN Tail(q) = 1..(Len(q) - 1)
         /\ Tail(q) # <<>> <=> Len(q) # 1
         /\ \A i \in DOMAIN Tail(q) :
              i + 1 \in DOMAIN q /\ i + 1 # 1 /\ Tail(q)[i] = q[i + 1]
<1>1. /\ Len(q) \in Nat /\ DOMAIN q = 1..Len(q)
      /\ Tail(q) \in Seq(Msgs) /\ Len(Tail(q)) = Len(q) - 1
      /\ \A i \in 1..(Len(q) - 1) : Tail(q)[i] = q[i + 1]
  OBVIOUS
<1>2. Tail(q) # <<>> <=> Len(Tail(q)) # 0
  BY <1>1, EmptySeq
<1>3. DOMAIN Tail(q) = 1..(Len(q) - 1)
  BY <1>1
<1>4. QED
  BY <1>1, <1>2, <1>3

\* The head of a backlog is published; when that is over the next one is.
LEMMA PlacedDrainOne ==
  ASSUME Types, Placed, NEW k \in Callers, DrainOne(k)
  PROVE  Placed'
<1> DEFINE m == drain[k][1]
<1>1. pc[k] = "draining" => drain[k] # <<>>
  BY DEF Placed, Draining
<1>2. /\ drain[k] \in Seq(Msgs) /\ Len(drain[k]) >= 1 /\ m \in Msgs
      /\ UNCHANGED <<pipeGate, pubGate>>
      /\ \/ /\ stage[m] = "held" /\ UNCHANGED <<drain, pc>>
            /\ stage' = [stage EXCEPT ![m] = "fanning"]
         \/ /\ stage[m] \in Final /\ UNCHANGED stage
            /\ drain' = [drain EXCEPT ![k] = Tail(drain[k])]
            /\ pc' = [pc EXCEPT ![k] = IF Len(drain[k]) = 1 THEN "idle" ELSE "draining"]
  BY <1>1, Drained
<1>3. /\ 1 \in DOMAIN drain[k] /\ m \notin Messages(pubGate.queue)
      /\ pc \in [Callers -> Pcs] /\ drain \in [Callers -> Seq(Msgs)]
  BY <1>2 DEF Placed, Draining, Types, TypeOK, Pcs
<1>4. \A j \in Callers : \A i \in DOMAIN drain[j] : drain[j][i] = m => j = k /\ i = 1
  BY <1>3 DEF Placed, Draining
<1>5. /\ Messages(pubGate.queue) \subseteq Msgs /\ Messages(pipeGate.queue) \subseteq Msgs
      /\ "fanning" \in Stages /\ "fanning" \in Turned
  BY QueueOf DEF Types, Stages, Turned
<1> HIDE DEF m
<1>6. CASE /\ stage[m] = "held" /\ UNCHANGED <<drain, pc>>
           /\ stage' = [stage EXCEPT ![m] = "fanning"]
  <2>1. \A n \in Msgs : stage'[n] = IF n = m THEN "fanning" ELSE stage[n]
    BY <1>2, <1>5, <1>6, StageMoves
  <2>2. \A n : InADrain(n)' <=> InADrain(n)
    BY <1>6 DEF InADrain
  <2>3. Queues'
    BY <1>2, <1>3, <1>5, <1>6, <2>1, <2>2 DEF Placed, Queues, Once
  <2>4. Draining'
    <3>1. \A j \in Callers : \A i \in DOMAIN drain[j] :
            stage'[drain[j][i]] \in (IF i = 1 THEN Turned ELSE {"held"})
      BY <1>4, <1>5, <2>1, DrainDomains DEF Placed, Draining
    <3>2. QED
      BY <1>2, <1>6, <3>1 DEF Placed, Draining
  <2>5. QED
    BY <2>3, <2>4 DEF Placed
<1>7. CASE /\ stage[m] \in Final /\ UNCHANGED stage
           /\ drain' = [drain EXCEPT ![k] = Tail(drain[k])]
           /\ pc' = [pc EXCEPT ![k] = IF Len(drain[k]) = 1 THEN "idle" ELSE "draining"]
  <2>1. /\ drain'[k] = Tail(drain[k]) /\ \A j \in Callers \ {k} : drain'[j] = drain[j]
        /\ pc'[k] = (IF Len(drain[k]) = 1 THEN "idle" ELSE "draining")
        /\ \A j \in Callers \ {k} : pc'[j] = pc[j]
    BY <1>3, <1>7
  <2>2. /\ DOMAIN drain[k] = 1..Len(drain[k]) /\ Len(drain[k]) \in Nat
        /\ DOMAIN drain'[k] = 1..(Len(drain[k]) - 1)
        /\ drain'[k] # <<>> <=> Len(drain[k]) # 1
        /\ \A i \in DOMAIN drain'[k] :
             i + 1 \in DOMAIN drain[k] /\ i + 1 # 1 /\ drain'[k][i] = drain[k][i + 1]
    BY <1>2, <2>1, TailOf
  <2>3. \A n \in Msgs : stage[n] = "held" /\ InADrain(n) => InADrain(n)'
    <3> SUFFICES ASSUME NEW n \in Msgs, stage[n] = "held", NEW j \in Callers,
                        NEW i \in DOMAIN drain[j], drain[j][i] = n
                 PROVE  InADrain(n)'
      BY DEF InADrain
    <3>1. CASE j # k
      BY <2>1, <3>1 DEF InADrain
    <3>2. CASE j = k
      <4>1. i # 1
        BY <1>7, <3>2 DEF Final, m
      <4>2. i - 1 \in DOMAIN drain'[k] /\ drain'[k][i - 1] = n
        BY <2>2, <3>2, <4>1
      <4>3. QED
        BY <4>2 DEF InADrain
    <3>3. QED
      BY <3>1, <3>2
  <2>4. Queues'
    BY <1>2, <1>7, <2>3 DEF Placed, Queues, Once
  <2>5. Draining'
    <3>1. \A j \in Callers : pc'[j] = "draining" <=> drain'[j] # <<>>
      BY <2>1, <2>2 DEF Placed, Draining
    <3>2. ASSUME NEW j \in Callers, NEW i \in DOMAIN drain'[j]
          PROVE  \E n \in DOMAIN drain[j] : /\ drain'[j][i] = drain[j][n]
                                            /\ IF j = k THEN n = i + 1 ELSE n = i
      BY <2>1, <2>2, <3>2
    <3>3. ASSUME NEW j \in Callers, NEW i \in DOMAIN drain'[j]
          PROVE  /\ drain'[j][i] \notin Messages(pubGate.queue)
                 /\ stage[drain'[j][i]] \in (IF i = 1 THEN Turned ELSE {"held"})
      <4>1. CASE j = k
        <5>1. i + 1 \in DOMAIN drain[k] /\ i + 1 # 1 /\ drain'[k][i] = drain[k][i + 1]
          BY <2>2, <3>3, <4>1
        <5>2. drain[k][i + 1] \notin Messages(pubGate.queue) /\ stage[drain[k][i + 1]] = "held"
          BY <5>1 DEF Placed, Draining
        <5>3. QED
          BY <4>1, <5>1, <5>2 DEF Turned
      <4>2. CASE j # k
        BY <2>1, <3>3, <4>2 DEF Placed, Draining
      <4>3. QED
        BY <4>1, <4>2
    <3>4. ASSUME NEW j \in Callers, NEW h \in Callers, NEW i \in DOMAIN drain'[j],
                 NEW n \in DOMAIN drain'[h], drain'[j][i] = drain'[h][n]
          PROVE  j = h /\ i = n
      <4>1. PICK x \in DOMAIN drain[j] : /\ drain'[j][i] = drain[j][x]
                                         /\ IF j = k THEN x = i + 1 ELSE x = i
        BY <3>2
      <4>2. PICK y \in DOMAIN drain[h] : /\ drain'[h][n] = drain[h][y]
                                         /\ IF h = k THEN y = n + 1 ELSE y = n
        BY <3>2
      <4>3. \A a, c \in Callers : \A d \in DOMAIN drain[a], e \in DOMAIN drain[c] :
              drain[a][d] = drain[c][e] => a = c /\ d = e
        BY DEF Placed, Draining
      <4>4. drain[j][x] = drain[h][y]
        BY <3>4, <4>1, <4>2
      <4>5. j = h /\ x = y
        BY <4>3, <4>4
      <4>6. i \in Nat /\ n \in Nat
        <5>1. drain'[j] \in Seq(Msgs) /\ drain'[h] \in Seq(Msgs)
          <6>1. Tail(drain[k]) \in Seq(Msgs)
            BY <1>2
          <6>2. QED
            BY <1>3, <2>1, <6>1
        <5>2. QED
          BY <5>1
      <4>7. QED
        BY <4>1, <4>2, <4>5, <4>6
    <3>5. QED
      BY <1>2, <1>7, <3>1, <3>3, <3>4 DEF Draining
  <2>6. QED
    BY <2>4, <2>5 DEF Placed
<1>8. QED
  BY <1>2, <1>6, <1>7

-----------------------------------------------------------------------------
(* All of it.                                                              *)

DeliveryInv == Types /\ Seated /\ Followed /\ Placed

LEMMA DeliveryStep == DeliveryInv /\ [Next]_vars => DeliveryInv'
<1> SUFFICES ASSUME DeliveryInv, [Next]_vars
             PROVE  DeliveryInv'
  OBVIOUS
<1>0. Types /\ Seated /\ Followed /\ Placed
  BY DEF DeliveryInv
<1>1. ASSUME NEW k \in Callers, NEW s \in Pcs, NEW v, GoesOn(k, s, v), s # "draining",
             pc[k] # "draining", UNCHANGED <<pipeGate, pubGate, drain, messages>>
      PROVE  Placed'
  <2>1. \A j \in Callers : pc'[j] = "draining" <=> pc[j] = "draining"
    BY <1>0, <1>1 DEF GoesOn, Types, TypeOK
  <2>2. QED
    BY <1>0, <1>1, <2>1, PlacedFrame DEF messages
<1>2. ASSUME NEW b \in Brokers, ChangeConnection(b)
      PROVE  DeliveryInv'
  <2>1. Placed'
    BY <1>1, <1>2, CallerSets DEF ChangeConnection, Pcs
  <2>2. QED
    BY <1>0, <1>2, <2>1, FollowChangeConnection DEF DeliveryInv
<1>3. CASE Wire
  <2>1. Placed'
    BY <1>1, <1>3, CallerSets DEF Wire, Pcs
  <2>2. QED
    BY <1>0, <1>3, <2>1, FollowWire DEF DeliveryInv
<1>4. ASSUME NEW primary \in BOOLEAN, SetPrimary(primary)
      PROVE  DeliveryInv'
  <2>1. Placed'
    BY <1>1, <1>4, CallerSets DEF SetPrimary, Pcs, Acting
  <2>2. QED
    BY <1>0, <1>4, <2>1, FollowSetPrimary DEF DeliveryInv
<1>5. ASSUME NEW k \in Callers, Notice(k)
      PROVE  DeliveryInv'
  <2>1. Placed'
    BY <1>1, <1>5 DEF Notice, Pcs, Acting
  <2>2. QED
    BY <1>0, <1>5, <2>1, FollowNotice DEF DeliveryInv
<1>6. ASSUME NEW k \in Callers, SetPubConnected(k)
      PROVE  DeliveryInv'
  <2>1. Placed'
    BY <1>1, <1>6 DEF SetPubConnected, Pcs, Acting
  <2>2. QED
    BY <1>0, <1>6, <2>1, FollowSetPubConnected DEF DeliveryInv
<1>7. ASSUME NEW k \in Callers, applyGateState(k)
      PROVE  DeliveryInv'
  BY <1>0, <1>7, FollowApply, PlacedApply DEF DeliveryInv
<1>8. ASSUME NEW k \in Callers, Check(k)
      PROVE  DeliveryInv'
  <2>1. Placed'
    BY <1>1, <1>8 DEF Check, Pcs, Acting
  <2>2. QED
    BY <1>0, <1>8, <2>1, FollowCheck DEF DeliveryInv
<1>9. ASSUME NEW k \in Callers, MovePubGate(k)
      PROVE  DeliveryInv'
  BY <1>0, <1>9, FollowMovePubGate, PlacedMovePubGate DEF DeliveryInv
<1>10. ASSUME NEW k \in Callers, DrainOne(k)
       PROVE  DeliveryInv'
  <2>1. pc[k] = "draining" => drain[k] # <<>>
    BY <1>0 DEF Placed, Draining
  <2>2. QED
    BY <1>0, <1>10, <2>1, FollowDrainOne, PlacedDrainOne DEF DeliveryInv
<1>11. ASSUME NEW m \in Msgs, HandleMessage(m) \/ process(m)
       PROVE  DeliveryInv'
  <2>1. Types' /\ Seated' /\ Followed'
    BY <1>0, <1>11, FollowMessages
  <2>2. Placed'
    BY <1>0, <1>11, PlacedHandle, PlacedHold, PlacedPublish DEF process
  <2>3. QED
    BY <2>1, <2>2 DEF DeliveryInv
<1>12. CASE UNCHANGED vars
  <2>1. /\ UNCHANGED <<wired, up, isPrimary, pubConnected, pc, saw, drain, overlapped>>
        /\ UNCHANGED <<pipeGate, pubGate, stage, next, reached>>
    BY <1>12 DEF vars, callers, messages
  <2>2. Types'
    BY <1>0, <2>1 DEF Types, TypeOK
  <2>3. Seated' /\ Followed'
    BY <1>0, <2>1, FollowFrame
  <2>4. Placed'
    BY <1>0, <2>1, PlacedFrame
  <2>5. QED
    BY <2>2, <2>3, <2>4 DEF DeliveryInv
<1>13. QED
  BY <1>2, <1>3, <1>4, <1>5, <1>6, <1>7, <1>8, <1>9, <1>10, <1>11, <1>12 DEF Next, Run

\* The inductive invariant of one instance from its gate to its brokers: types,
\* who acts on what it has seen, and where each message is.
THEOREM DeliveryInvariant == Spec => []DeliveryInv
<1>1. Init => DeliveryInv
  BY TypesInit, FollowInit, PlacedInit DEF DeliveryInv
<1>2. QED
  BY <1>1, DeliveryStep, PTL DEF Spec

\* Every variable has its type, and no queue is longer than MaxLen.
THEOREM DeliveryTypes == Spec => []TypeOK
<1>1. DeliveryInv => TypeOK
  BY DEF DeliveryInv, Types
<1>2. QED
  BY <1>1, DeliveryInvariant, PTL

LEMMA InQueueOnce ==
  ASSUME NEW g \in Gates, Once(g), NEW m \in Msgs
  PROVE  InQueue(g, m) = IF m \in Messages(g.queue) THEN 1 ELSE 0
<1> DEFINE places == {i \in DOMAIN g.queue : g.queue[i].msg = m}
<1>1. CASE m \in Messages(g.queue)
  <2>1. PICK i \in DOMAIN g.queue : g.queue[i].msg = m
    BY <1>1 DEF Messages
  <2>2. places = {i}
    BY <2>1 DEF Once
  <2>3. Cardinality({i}) = 1
    BY FS_Singleton
  <2>4. QED
    BY <1>1, <2>2, <2>3 DEF InQueue
<1>2. CASE m \notin Messages(g.queue)
  <2>1. places = {}
    BY <1>2 DEF Messages
  <2>2. QED
    BY <1>2, <2>1, FS_EmptySet DEF InQueue
<1>3. QED
  BY <1>1, <1>2

\* A message is in one place: queued in the pipeline's gate, or held in the
\* publisher's or in the backlog of one Open, for any number of messages, brokers
\* and goroutines that overlap (pipeline.go:275-355, mqttbroker.go:540-581).
THEOREM EachMessageHeldOnce == Spec => []InOnePlace
<1>1. DeliveryInv => InOnePlace
  <2> SUFFICES ASSUME DeliveryInv, NEW m \in Msgs
               PROVE  /\ InQueue(pipeGate, m) = IF stage[m] = "queued" THEN 1 ELSE 0
                      /\ stage[m] = "held"
                           => 1 = InQueue(pubGate, m) + Cardinality(InBacklogs(m))
                      /\ stage[m] # "held" => InQueue(pubGate, m) = 0
    BY DEF InOnePlace, DeliveryInv, Types
  <2>1. /\ InQueue(pipeGate, m) = IF m \in Messages(pipeGate.queue) THEN 1 ELSE 0
        /\ InQueue(pubGate, m) = IF m \in Messages(pubGate.queue) THEN 1 ELSE 0
    BY InQueueOnce DEF DeliveryInv, Types, Placed, Queues
  <2>2. CASE stage[m] = "held" /\ m \in Messages(pubGate.queue)
    <3>1. InBacklogs(m) = {}
      BY <2>2 DEF DeliveryInv, Placed, Draining, InBacklogs
    <3>2. QED
      BY <2>1, <2>2, <3>1, FS_EmptySet DEF DeliveryInv, Placed, Queues
  <2>3. CASE stage[m] = "held" /\ m \notin Messages(pubGate.queue)
    <3>1. PICK k \in Callers : \E i \in DOMAIN drain[k] : drain[k][i] = m
      BY <2>3 DEF DeliveryInv, Placed, Queues, InADrain
    <3>2. PICK i \in DOMAIN drain[k] : drain[k][i] = m
      BY <3>1
    <3>3. \A a \in Callers : \A d \in DOMAIN drain[a] : drain[a][d] = m => a = k /\ d = i
      BY <3>2 DEF DeliveryInv, Placed, Draining
    <3>4. \A p : p \in InBacklogs(m) <=> p = <<k, i>>
      <4>1. \A p : p \in InBacklogs(m) <=>
              \E a \in Callers : p \in {a} \X {d \in DOMAIN drain[a] : drain[a][d] = m}
        BY DEF InBacklogs
      <4>2. QED
        BY <3>2, <3>3, <4>1
    <3>5. InBacklogs(m) = {<<k, i>>}
      BY <3>4
    <3>6. Cardinality({<<k, i>>}) = 1
      BY FS_Singleton
    <3>7. QED
      BY <2>1, <2>3, <3>5, <3>6 DEF DeliveryInv, Placed, Queues
  <2>4. CASE stage[m] # "held"
    BY <2>1, <2>4 DEF DeliveryInv, Placed, Queues
  <2>5. QED
    BY <2>2, <2>3, <2>4
<1>2. QED
  BY <1>1, DeliveryInvariant, PTL

\* When no goroutine is between a look and its effect, and no two ever were at
\* once, both gates are where the role and the connections say, for any number of
\* brokers and callbacks (pipeline.go:196-197, mqttbroker.go:456-460).
THEOREM GatesAlwaysFollow == Spec => []GatesFollow
<1>1. DeliveryInv => GatesFollow
  <2> SUFFICES ASSUME DeliveryInv, Quiet, ~overlapped
               PROVE  /\ pipeGate.state = Open <=> isPrimary /\ AnyConnected
                      /\ pubGate.state = Open <=> AnyConnected
    BY DEF GatesFollow
  <2>1. /\ \A k \in Callers : pc[k] \in {"idle", "draining", "done"}
        /\ Seated /\ ConnectedSeen /\ PipeGateFollows /\ PubGateFollows
    BY DEF DeliveryInv, Quiet, Followed
  <2>2. /\ ~Some("noticing") /\ ~Some("setting") /\ ~Some("applying") /\ ~Some("gating")
        /\ ~AskAgain
    BY <2>1, CallerSets DEF Some, AskAgain
  <2>3. wired => (pubConnected <=> AnyConnected)
    BY <2>1, <2>2 DEF ConnectedSeen
  <2>4. ~wired => ~isPrimary
    BY <2>1 DEF Seated
  <2>5. pipeGate.state = Open <=> isPrimary /\ pubConnected
    BY <2>1, <2>2 DEF PipeGateFollows, Both
  <2>6. QED
    BY <2>1, <2>2, <2>3, <2>4, <2>5 DEF PubGateFollows
<1>2. QED
  BY <1>1, DeliveryInvariant, PTL
-----------------------------------------------------------------------------
(* Why nothing is stranded: the safety that NothingLeftWaiting needs.      *)

\* A gate that is open holds nothing.
EmptyWhenOpen ==
  /\ pipeGate.state = Open => Messages(pipeGate.queue) = {}
  /\ pubGate.state = Open => Messages(pubGate.queue) = {}

InDrain(k, m) == \E i \in DOMAIN drain[k] : drain[k][i] = m

\* Once no goroutine is between a look and its effect, and no two ever were at once, a
\* primary with a broker holds nothing in either gate: a message that is still held is
\* in the backlog of an Open that goes on.
NothingStranded ==
  Quiet /\ ~overlapped /\ isPrimary /\ AnyConnected
    => \A m \in Msgs :
         /\ stage[m] # "queued"
         /\ stage[m] = "held" => \E k \in Callers : pc[k] = "draining" /\ InDrain(k, m)

LEMMA EmptyStep == DeliveryInv /\ EmptyWhenOpen /\ [Next]_vars => EmptyWhenOpen'
<1> SUFFICES ASSUME DeliveryInv, EmptyWhenOpen, [Next]_vars
             PROVE  EmptyWhenOpen'
  OBVIOUS
<1>1. pipeGate \in Gates /\ pubGate \in Gates
  BY DEF DeliveryInv, Types
<1>2. Messages(<<>>) = {} /\ Queueing # Open
  BY DEF Messages, Queueing, Open
<1>3. ASSUME NEW g \in Gates, g.state = Open => Messages(g.queue) = {}
      PROVE  /\ Messages(Opened(g).queue) = {}
             /\ Queued(g).state # Open
             /\ \A m \in Msgs : g.state = Queueing => Enqueued(g, m, 0).state # Open
  BY <1>2, <1>3, OpenedGate DEF Enqueued, Gates
<1>4. ASSUME NEW k \in Callers, applyGateState(k)
      PROVE  EmptyWhenOpen'
  <2>1. pubGate' = pubGate /\ (pipeGate' = Opened(pipeGate) \/ pipeGate' = Queued(pipeGate))
    BY <1>4 DEF applyGateState
  <2>2. QED
    BY <1>1, <1>3, <2>1 DEF EmptyWhenOpen
<1>5. ASSUME NEW k \in Callers, MovePubGate(k)
      PROVE  EmptyWhenOpen'
  <2>1. pipeGate' = pipeGate /\ (pubGate' = Opened(pubGate) \/ pubGate' = Queued(pubGate))
    BY <1>5 DEF MovePubGate
  <2>2. QED
    BY <1>1, <1>3, <2>1 DEF EmptyWhenOpen
<1>6. ASSUME NEW m \in Msgs, HandleMessage(m)
      PROVE  EmptyWhenOpen'
  <2>1. /\ pubGate' = pubGate
        /\ \/ pipeGate' = pipeGate
           \/ pipeGate.state = Queueing /\ pipeGate' = Enqueued(pipeGate, m, 0)
    BY <1>6 DEF HandleMessage
  <2>2. QED
    BY <1>1, <1>3, <2>1 DEF EmptyWhenOpen
<1>7. ASSUME NEW m \in Msgs, Hold(m)
      PROVE  EmptyWhenOpen'
  <2>1. /\ pipeGate' = pipeGate
        /\ \/ pubGate' = pubGate
           \/ pubGate.state = Queueing /\ pubGate' = Enqueued(pubGate, m, 0)
    BY <1>7 DEF Hold
  <2>2. QED
    BY <1>1, <1>3, <2>1 DEF EmptyWhenOpen
<1>8. CASE UNCHANGED <<pipeGate, pubGate>>
  BY <1>8 DEF EmptyWhenOpen
<1>9. QED
  BY <1>4, <1>5, <1>6, <1>7, <1>8
     DEF Next, Run, process, ChangeConnection, Wire, SetPrimary, Notice, SetPubConnected,
         Check, DrainOne, Publish, publishNow, vars

\* An instance that is primary and connected, with its callbacks done, strands nothing in
\* the pipeline's gate or in the publisher's, for any number of brokers and messages,
\* unless two of its goroutines overlapped (pipeline.go:299-355, mqttbroker.go:505-525).
THEOREM NothingIsStranded == Spec => []NothingStranded
<1>1. Init => EmptyWhenOpen
  BY DEF Init, NewGate, EmptyWhenOpen, Queueing, Open
<1>2. DeliveryInv /\ GatesFollow /\ EmptyWhenOpen => NothingStranded
  <2> SUFFICES ASSUME DeliveryInv, GatesFollow, EmptyWhenOpen,
                      Quiet, ~overlapped, isPrimary, AnyConnected, NEW m \in Msgs
               PROVE  /\ stage[m] # "queued"
                      /\ stage[m] = "held"
                           => \E k \in Callers : pc[k] = "draining" /\ InDrain(k, m)
    BY DEF NothingStranded
  <2>1. Messages(pipeGate.queue) = {} /\ Messages(pubGate.queue) = {}
    BY DEF GatesFollow, EmptyWhenOpen
  <2>2. stage[m] # "queued"
    BY <2>1 DEF DeliveryInv, Placed, Queues
  <2>3. ASSUME stage[m] = "held"
        PROVE  \E k \in Callers : pc[k] = "draining" /\ InDrain(k, m)
    <3>1. InADrain(m)
      BY <2>1, <2>3 DEF DeliveryInv, Placed, Queues
    <3>2. PICK k \in Callers : InDrain(k, m)
      BY <3>1 DEF InADrain, InDrain
    <3>3. drain[k] # <<>>
      BY <3>2 DEF InDrain
    <3>4. pc[k] = "draining"
      BY <3>3 DEF DeliveryInv, Placed, Draining
    <3>5. QED
      BY <3>2, <3>4
  <2>4. QED
    BY <2>2, <2>3
<1>3. QED
  BY <1>1, <1>2, EmptyStep, DeliveryInvariant, GatesAlwaysFollow, PTL DEF Spec
=============================================================================
