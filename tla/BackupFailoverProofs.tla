------------------------- MODULE BackupFailoverProofs -------------------------
(***************************************************************************)
(* For any length of the wait: at most one of the two timer pointers is    *)
(* set, and a pointer that is set points to a timer that is running or has *)
(* just fired, so Stop and the nil tests are about a real timer.  While    *)
(* reports come in order, the backup's two calls never overlap, it moves   *)
(* only after the wait, and somebody is always left to move it.            *)
(***************************************************************************)
EXTENDS BackupFailover, FiniteSetTheorems, TLAPS

Sound(t, f) == t \in Timers /\ PointersValid(t, f)

\* Stopping a timer clears its pointer and leaves the other one alone.
LEMMA StoppedIsSound ==
  ASSUME NEW t, NEW f, NEW k \in Kinds, Sound(t, f)
  PROVE  Sound(Stopped(t, k), f) /\ Stopped(t, k).held[k] = Nil
  <1> DEFINE s == Stopped(t, k)
  <1>1. s = [running |-> t.running \ {[kind |-> k, left |-> t.held[k]]},
             held |-> [t.held EXCEPT ![k] = Nil]]
    BY DEF Stopped
  <1>2. t.running \in SUBSET [kind : Kinds, left : 1..Wait]
        /\ t.held \in [Kinds -> {Nil} \cup 0..Wait]
    BY DEF Sound, Timers
  <1>3. s.held[k] = Nil /\ \A j \in Kinds \ {k} : s.held[j] = t.held[j]
    BY <1>1, <1>2
  <1>4. s \in Timers
    BY <1>1, <1>2 DEF Timers
  <1>5. ASSUME NEW j \in Kinds
        PROVE  /\ s.held[j] > 0 => [kind |-> j, left |-> s.held[j]] \in s.running
               /\ s.held[j] = 0 => j \in f
    <2>1. CASE j = k
      BY <1>3, <2>1 DEF Nil
    <2>2. CASE j # k
      BY <1>1, <1>3, <2>2 DEF Sound, PointersValid
    <2> QED BY <2>1, <2>2
  <1> QED BY <1>3, <1>4, <1>5 DEF Sound, PointersValid

\* Starting a timer, or not because there is one, changes no other pointer.
LEMMA StartedIsSound ==
  ASSUME NEW t, NEW f, NEW k \in Kinds, Sound(t, f)
  PROVE  /\ Sound(Started(t, k), f)
         /\ \A j \in Kinds \ {k} : Started(t, k).held[j] = t.held[j]
  <1>1. CASE t.held[k] # Nil
    BY <1>1 DEF Started
  <1>2. CASE t.held[k] = Nil
    <2> DEFINE s == Started(t, k)
    <2>1. s = [running |-> t.running \cup {[kind |-> k, left |-> Wait]},
               held |-> [t.held EXCEPT ![k] = Wait]]
      BY <1>2 DEF Started
    <2>2. t.running \in SUBSET [kind : Kinds, left : 1..Wait]
          /\ t.held \in [Kinds -> {Nil} \cup 0..Wait]
      BY DEF Sound, Timers
    <2>3. s.held[k] = Wait /\ \A j \in Kinds \ {k} : s.held[j] = t.held[j]
      BY <2>1, <2>2
    <2>4. s \in Timers
      BY <2>1, <2>2, BackupAssumption DEF Timers
    <2>5. ASSUME NEW j \in Kinds
          PROVE  /\ s.held[j] > 0 => [kind |-> j, left |-> s.held[j]] \in s.running
                 /\ s.held[j] = 0 => j \in f
      BY <2>1, <2>3, BackupAssumption DEF Sound, PointersValid
    <2> QED BY <2>3, <2>4, <2>5 DEF Sound, PointersValid
  <1> QED BY <1>1, <1>2

\* What a report does: stop one kind, perhaps start the other.
LEMMA ReportIsSound ==
  ASSUME NEW t, NEW f, NEW k \in Kinds, NEW j \in Kinds, j # k, Sound(t, f)
  PROVE  /\ Sound(Stopped(t, k), f) /\ Sound(Started(Stopped(t, k), j), f)
         /\ Stopped(t, k).held[k] = Nil
         /\ Started(Stopped(t, k), j).held[k] = Nil
  <1>1. Sound(Stopped(t, k), f) /\ Stopped(t, k).held[k] = Nil
    BY StoppedIsSound
  <1> DEFINE s == Stopped(t, k)
  <1> HIDE DEF s
  <1>2. /\ Sound(s, f) => Sound(Started(s, j), f)
        /\ Sound(s, f) => \A i \in Kinds \ {j} : Started(s, j).held[i] = s.held[i]
    BY StartedIsSound
  <1> QED BY <1>1, <1>2 DEF s

LEMMA InitTyped == Init => TypeOK
  <1> SUFFICES ASSUME Init
               PROVE  TypeOK
    OBVIOUS
  <1>1. timers = [running |-> {}, held |-> [k \in Kinds |-> Nil]]
    BY DEF Init
  <1>2. timers \in Timers
    BY <1>1 DEF Timers
  <1>3. PointersValid(timers, fired) /\ \E k \in Kinds : timers.held[k] = Nil
    BY <1>1 DEF PointersValid, Kinds, Nil
  <1>4. {up, seenGreen, backup, settled, reordered} \subseteq BOOLEAN
    BY DEF Init
  <1>5. /\ reports \subseteq {"up", "down"} /\ fired \subseteq Kinds /\ calling \subseteq Kinds
        /\ steady \in 0..Wait
    BY BackupAssumption DEF Init
  <1> QED BY <1>2, <1>3, <1>4, <1>5 DEF TypeOK

LEMMA StepTyped == TypeOK /\ [Next]_vars => TypeOK'
  <1> SUFFICES ASSUME TypeOK, [Next]_vars
               PROVE  TypeOK'
    OBVIOUS
  <1> USE BackupAssumption
  <1>1. Sound(timers, fired)
    BY DEF TypeOK, Sound
  <1>2. Connect \in Kinds /\ Disconnect \in Kinds /\ Connect # Disconnect
    BY DEF Kinds, Connect, Disconnect
  <1>3. CASE ChangeConnection
    <2>1. reports' \subseteq {"up", "down"} /\ steady' \in 0..Wait
      BY <1>3 DEF ChangeConnection, Watch, TypeOK
    <2>2. {up', settled'} \subseteq BOOLEAN
      BY <1>3 DEF ChangeConnection, TypeOK
    <2> QED BY <1>3, <2>1, <2>2 DEF ChangeConnection, TypeOK
  <1>4. CASE primaryUp
    <2>1. Sound(timers', fired') /\ timers'.held[Connect] = Nil
      BY <1>1, <1>2, <1>4, ReportIsSound DEF primaryUp
    <2> QED BY <1>2, <1>4, <2>1 DEF primaryUp, Watch, Serving, TypeOK, Sound
  <1>5. CASE primaryDown
    <2>1. Sound(timers', fired') /\ timers'.held[Disconnect] = Nil
      BY <1>1, <1>2, <1>5, ReportIsSound DEF primaryDown
    <2> QED BY <1>2, <1>5, <2>1 DEF primaryDown, TypeOK, Sound
  <1>6. ASSUME NEW k \in Kinds, ClearTimer(k)
        PROVE  TypeOK'
    <2>1. /\ timers' = [running |-> timers.running, held |-> [timers.held EXCEPT ![k] = Nil]]
          /\ timers.running \in SUBSET [kind : Kinds, left : 1..Wait]
          /\ timers.held \in [Kinds -> {Nil} \cup 0..Wait]
      BY <1>6 DEF ClearTimer, TypeOK, Timers
    <2>2. timers'.held[k] = Nil /\ \A j \in Kinds \ {k} : timers'.held[j] = timers.held[j]
      BY <2>1
    <2>3. timers' \in Timers
      BY <2>1 DEF Timers
    <2>4. PointersValid(timers', fired')
      BY <1>6, <2>1, <2>2 DEF ClearTimer, TypeOK, PointersValid, Nil
    <2> QED BY <1>6, <2>2, <2>3, <2>4 DEF ClearTimer, TypeOK
  <1>7. CASE activateBackup
    BY <1>7 DEF activateBackup, TypeOK
  <1>8. CASE deactivateBackup
    BY <1>8 DEF deactivateBackup, TypeOK
  <1>9. CASE Tick
    <2>1. timers \in Timers /\ fired = {} /\ timers.held \in [Kinds -> {Nil} \cup 0..Wait]
      BY <1>9 DEF Tick, TypeOK, Timers
    <2>2. \A k \in Kinds : timers.held[k] = Nil \/ timers.held[k] \in 1..Wait
      <3> TAKE k \in Kinds
      <3>1. timers.held[k] \in {Nil} \cup 0..Wait
        BY <2>1
      <3>2. timers.held[k] # 0
        BY <2>1 DEF TypeOK, PointersValid
      <3> QED BY <3>1, <3>2
    <2>3. \A k \in Kinds : timers'.held[k] = IF timers.held[k] = Nil THEN Nil ELSE timers.held[k] - 1
      BY <1>9, <2>2 DEF Tick, Nil
    <2>4. timers' \in Timers /\ fired' \subseteq Kinds
      <3>1. timers'.running \subseteq [kind : Kinds, left : 1..Wait]
        BY <1>9, <2>1 DEF Tick, Timers
      <3>2. timers'.held \in [Kinds -> {Nil} \cup 0..Wait]
        BY <1>9, <2>2 DEF Tick, Nil
      <3>3. fired' \subseteq Kinds
        BY <1>9, <2>1 DEF Tick, Timers
      <3> QED BY <1>9, <3>1, <3>2, <3>3 DEF Tick, Timers
    <2>5. PointersValid(timers', fired')
      <3> SUFFICES ASSUME NEW k \in Kinds
                   PROVE  /\ timers'.held[k] > 0
                               => [kind |-> k, left |-> timers'.held[k]] \in timers'.running
                          /\ timers'.held[k] = 0 => k \in fired'
        BY DEF PointersValid
      <3>1. CASE timers.held[k] = Nil
        BY <2>3, <3>1 DEF Nil
      <3>2. CASE timers.held[k] \in 1..Wait
        <4> DEFINE r == [kind |-> k, left |-> timers.held[k]]
        <4>1. r \in timers.running
          BY <3>2 DEF TypeOK, PointersValid
        <4>2. timers.held[k] > 1 => [r EXCEPT !.left = @ - 1] \in timers'.running
          BY <1>9, <4>1 DEF Tick
        <4>3. [r EXCEPT !.left = @ - 1] = [kind |-> k, left |-> timers.held[k] - 1]
          OBVIOUS
        <4>4. timers.held[k] = 1 => k \in fired'
          BY <1>9, <4>1 DEF Tick
        <4> QED BY <2>3, <3>2, <4>2, <4>3, <4>4 DEF Nil
      <3> QED BY <2>2, <3>1, <3>2
    <2>6. \E k \in Kinds : timers'.held[k] = Nil
      BY <2>3 DEF TypeOK
    <2> QED BY <1>9, <2>4, <2>5, <2>6 DEF Tick, TypeOK
  <1>10. CASE UNCHANGED vars
    BY <1>10 DEF vars, TypeOK
  <1> QED BY <1>3, <1>4, <1>5, <1>6, <1>7, <1>8, <1>9, <1>10 DEF Next

\* Type correctness, and what Stop and the nil tests rest on: "at most one
\* of these is ever non-nil at a time" (mqttbroker.go:368-371).
THEOREM BackupTypeCorrect == Spec => []TypeOK
  BY InitTyped, StepTyped, PTL DEF Spec
-----------------------------------------------------------------------------
(* Why two timers do not fire together.                                    *)

Timer(k, n) == [kind |-> k, left |-> n]
Runs(k, n)  == Timer(k, n) \in timers.running

\* A loss is reported in the tick in which it happens.
LossFresh == "down" \in reports => ~up /\ ~settled

\* The connect timer starts in a tick in which the connection has changed, and
\* if a connect is still to be reported then, its connection is gone.
ConnectYoung ==
  /\ settled => ~Runs(Connect, Wait)
  /\ "up" \in reports /\ Runs(Connect, Wait) => ~up /\ "down" \notin reports

\* A disconnect timer is never forgotten: its pointer points to it until it has
\* fired, and while it runs or has just fired no connect is to be reported.
DisconnectKept ==
  /\ \A n \in 1..Wait : Runs(Disconnect, n) =>
       /\ timers.held[Disconnect] = n
       /\ "up" \notin reports /\ (up \/ "down" \in reports)
  /\ Disconnect \in fired =>
       /\ "up" \notin reports /\ (up \/ ~settled)
       /\ \A n \in 1..Wait : ~Runs(Disconnect, n)

\* Timers of the two kinds never have as long to go, nor have both fired.
NeverTogether ==
  /\ \A n \in 1..Wait : ~(Runs(Connect, n) /\ Runs(Disconnect, n))
  /\ ~(Connect \in fired \cup calling /\ Disconnect \in fired \cup calling)

ApartInv ==
  /\ LossFresh /\ ConnectYoung
  /\ ~reordered => DisconnectKept /\ NeverTogether

LEMMA InitApart == Init => ApartInv
  BY DEF Init, ApartInv, LossFresh, ConnectYoung, DisconnectKept, NeverTogether, Runs

\* Which timers run after a report.
LEMMA RunsAfter ==
  ASSUME TypeOK, NEW k \in Kinds, NEW j \in Kinds, j # k, NEW started \in BOOLEAN,
         timers' = IF started THEN Started(Stopped(timers, k), j) ELSE Stopped(timers, k)
  PROVE  /\ \A n \in 1..Wait : Runs(k, n)' <=> Runs(k, n) /\ timers.held[k] # n
         /\ \A n \in 1..Wait :
              Runs(j, n)' <=> Runs(j, n) \/ (started /\ timers.held[j] = Nil /\ n = Wait)
         /\ timers'.held[j] = IF started /\ timers.held[j] = Nil THEN Wait ELSE timers.held[j]
  <1> DEFINE s == Stopped(timers, k)
  <1>1. timers.held \in [Kinds -> {Nil} \cup 0..Wait]
    BY DEF TypeOK, Timers
  <1>2. /\ s.running = timers.running \ {Timer(k, timers.held[k])}
        /\ s.held = [timers.held EXCEPT ![k] = Nil]
    BY DEF Stopped, Timer
  <1>3. s.held[j] = timers.held[j]
    BY <1>1, <1>2
  <1>4. \A n \in 1..Wait : Timer(k, n) \in s.running <=> Runs(k, n) /\ timers.held[k] # n
    BY <1>2 DEF Runs, Timer
  <1>5. \A n \in 1..Wait : Timer(j, n) \in s.running <=> Runs(j, n)
    BY <1>2 DEF Runs, Timer
  <1>6. CASE started /\ timers.held[j] = Nil
    <2>1. /\ timers'.running = s.running \cup {Timer(j, Wait)}
          /\ timers'.held = [s.held EXCEPT ![j] = Wait]
      BY <1>3, <1>6 DEF Started, Timer
    <2>2. timers'.held[j] = Wait
      BY <1>1, <1>2, <2>1
    <2>3. \A n \in 1..Wait : Timer(k, n) \in timers'.running <=> Timer(k, n) \in s.running
      BY <2>1 DEF Timer
    <2>4. \A n \in 1..Wait :
            Timer(j, n) \in timers'.running <=> Timer(j, n) \in s.running \/ n = Wait
      BY <2>1 DEF Timer
    <2>5. QED
      BY <1>4, <1>5, <1>6, <2>2, <2>3, <2>4 DEF Runs
  <1>7. CASE ~(started /\ timers.held[j] = Nil)
    <2>1. timers' = s
      BY <1>3, <1>7 DEF Started
    <2>2. QED
      BY <1>3, <1>4, <1>5, <1>7, <2>1 DEF Runs
  <1>8. QED
    BY <1>6, <1>7

LEMMA ChangeApart ==
  ASSUME TypeOK, ApartInv, ChangeConnection
  PROVE  ApartInv'
  <1>1. /\ settled /\ up' = ~up /\ ~settled'
        /\ reports' = reports \cup {IF up THEN "down" ELSE "up"}
        /\ UNCHANGED <<timers, fired, calling, reordered>>
    BY DEF ChangeConnection
  <1>2. "down" \notin reports /\ ~Runs(Connect, Wait)
    BY <1>1 DEF ApartInv, LossFresh, ConnectYoung
  <1>3. \A k, n : Runs(k, n)' <=> Runs(k, n)
    BY <1>1 DEF Runs, Timer
  <1>4. CASE up
    <2>1. ~up' /\ "down" \in reports' /\ ("up" \in reports' <=> "up" \in reports)
      BY <1>1, <1>4
    <2>2. LossFresh' /\ ConnectYoung'
      BY <1>1, <1>2, <1>3, <2>1 DEF LossFresh, ConnectYoung
    <2>3. ~reordered => DisconnectKept' /\ NeverTogether'
      BY <1>1, <1>3, <2>1 DEF ApartInv, DisconnectKept, NeverTogether
    <2>4. QED
      BY <1>1, <2>2, <2>3 DEF ApartInv
  <1>5. CASE ~up
    <2>1. up' /\ "up" \in reports' /\ "down" \notin reports'
      BY <1>1, <1>2, <1>5
    <2>2. LossFresh' /\ ConnectYoung'
      BY <1>1, <1>2, <1>3, <2>1 DEF LossFresh, ConnectYoung
    <2>3. ~reordered => Disconnect \notin fired /\ \A n \in 1..Wait : ~Runs(Disconnect, n)
      BY <1>1, <1>2, <1>5 DEF ApartInv, DisconnectKept
    <2>4. ~reordered => DisconnectKept' /\ NeverTogether'
      BY <1>1, <1>3, <2>3 DEF ApartInv, DisconnectKept, NeverTogether
    <2>5. QED
      BY <1>1, <2>2, <2>4 DEF ApartInv
  <1>6. QED
    BY <1>4, <1>5

\* A connect that is reported in order finds no connect timer that has just been
\* started, so the disconnect timer it starts has no twin.
LEMMA UpApart ==
  ASSUME TypeOK, ApartInv, primaryUp
  PROVE  ApartInv'
  <1>1. /\ "up" \in reports /\ reports' = reports \ {"up"}
        /\ reordered' = (reordered \/ (~up /\ "down" \notin reports))
        /\ UNCHANGED <<up, fired, calling, settled>>
    BY DEF primaryUp
  <1>2. /\ \A n \in 1..Wait : Runs(Connect, n)' <=> Runs(Connect, n) /\ timers.held[Connect] # n
        /\ \A n \in 1..Wait : Runs(Disconnect, n)' <=>
             Runs(Disconnect, n) \/ (seenGreen /\ timers.held[Disconnect] = Nil /\ n = Wait)
        /\ timers'.held[Disconnect] = IF seenGreen /\ timers.held[Disconnect] = Nil
                                      THEN Wait ELSE timers.held[Disconnect]
    <2>1. /\ seenGreen \in BOOLEAN
          /\ Connect \in Kinds /\ Disconnect \in Kinds /\ Connect # Disconnect
      BY DEF TypeOK, Kinds, Connect, Disconnect
    <2>2. timers' = IF seenGreen THEN Started(Stopped(timers, Connect), Disconnect)
                    ELSE Stopped(timers, Connect)
      BY DEF primaryUp
    <2>3. QED
      BY <2>1, <2>2, RunsAfter
  <1>3. LossFresh' /\ ConnectYoung'
    BY <1>1, <1>2, BackupAssumption DEF ApartInv, LossFresh, ConnectYoung
  <1>4. ASSUME ~reordered'
        PROVE  DisconnectKept' /\ NeverTogether'
    <2>1. ~reordered /\ (up \/ "down" \in reports)
      BY <1>1, <1>4
    <2>2. ~Runs(Connect, Wait)
      BY <1>1, <2>1 DEF ApartInv, ConnectYoung
    <2>3. Disconnect \notin fired /\ \A n \in 1..Wait : ~Runs(Disconnect, n)
      BY <1>1, <2>1 DEF ApartInv, DisconnectKept
    <2>4. \A n \in 1..Wait : Runs(Disconnect, n)' => n = Wait /\ timers'.held[Disconnect] = Wait
      BY <1>2, <2>3
    <2>5. DisconnectKept'
      BY <1>1, <2>1, <2>3, <2>4 DEF DisconnectKept
    <2>6. NeverTogether'
      BY <1>1, <1>2, <2>1, <2>2, <2>4 DEF ApartInv, NeverTogether
    <2>7. QED
      BY <2>5, <2>6
  <1>5. QED
    BY <1>3, <1>4 DEF ApartInv

\* A loss stops every disconnect timer, as none is forgotten.
LEMMA DownApart ==
  ASSUME TypeOK, ApartInv, primaryDown
  PROVE  ApartInv'
  <1>1. /\ "down" \in reports /\ reports' = reports \ {"down"}
        /\ UNCHANGED <<up, fired, calling, settled, reordered>>
    BY DEF primaryDown
  <1>2. \A n \in 1..Wait :
          Runs(Disconnect, n)' <=> Runs(Disconnect, n) /\ timers.held[Disconnect] # n
    <2>1. /\ seenGreen \in BOOLEAN
          /\ Connect \in Kinds /\ Disconnect \in Kinds /\ Connect # Disconnect
      BY DEF TypeOK, Kinds, Connect, Disconnect
    <2>2. timers' = IF seenGreen THEN Started(Stopped(timers, Disconnect), Connect)
                    ELSE Stopped(timers, Disconnect)
      BY DEF primaryDown
    <2>3. QED
      BY <2>1, <2>2, RunsAfter
  <1>3. ~up /\ ~settled
    BY <1>1 DEF ApartInv, LossFresh
  <1>4. LossFresh' /\ ConnectYoung'
    BY <1>1, <1>3 DEF LossFresh, ConnectYoung
  <1>5. ASSUME ~reordered
        PROVE  DisconnectKept' /\ NeverTogether'
    <2>1. \A n \in 1..Wait : ~Runs(Disconnect, n)'
      BY <1>2, <1>5 DEF ApartInv, DisconnectKept
    <2>2. DisconnectKept'
      BY <1>1, <1>3, <1>5, <2>1 DEF ApartInv, DisconnectKept
    <2>3. NeverTogether'
      BY <1>1, <1>5, <2>1 DEF ApartInv, NeverTogether
    <2>4. QED
      BY <2>2, <2>3
  <1>6. QED
    BY <1>1, <1>4, <1>5 DEF ApartInv

\* Whatever pointer a fired timer clears, it is not that of a disconnect timer
\* that runs.
LEMMA ClearApart ==
  ASSUME TypeOK, ApartInv, NEW k \in Kinds, ClearTimer(k)
  PROVE  ApartInv'
  <1>1. /\ k \in fired /\ fired' = fired \ {k} /\ calling' = calling \cup {k}
        /\ timers' = [timers EXCEPT !.held[k] = Nil]
        /\ UNCHANGED <<up, reports, settled, reordered>>
    BY DEF ClearTimer
  <1>2. /\ timers'.running = timers.running
        /\ k # Disconnect => timers'.held[Disconnect] = timers.held[Disconnect]
    BY <1>1 DEF TypeOK, Timers
  <1>3. \A i, n : Runs(i, n)' <=> Runs(i, n)
    BY <1>2 DEF Runs, Timer
  <1>4. LossFresh' /\ ConnectYoung'
    BY <1>1, <1>3 DEF ApartInv, LossFresh, ConnectYoung
  <1>5. ~reordered => DisconnectKept' /\ NeverTogether'
    BY <1>1, <1>2, <1>3 DEF ApartInv, DisconnectKept, NeverTogether
  <1>6. QED
    BY <1>1, <1>4, <1>5 DEF ApartInv

LEMMA CallApart ==
  ASSUME ApartInv, activateBackup \/ deactivateBackup \/ UNCHANGED vars
  PROVE  ApartInv'
  <1>1. /\ calling' \subseteq calling
        /\ UNCHANGED <<up, reports, timers, fired, settled, reordered>>
    BY DEF activateBackup, deactivateBackup, vars
  <1>2. \A i, n : Runs(i, n)' <=> Runs(i, n)
    BY <1>1 DEF Runs, Timer
  <1>3. QED
    BY <1>1, <1>2 DEF ApartInv, LossFresh, ConnectYoung, DisconnectKept, NeverTogether

\* The timers with one tick left fire, the others have one tick less.
LEMMA TickRuns ==
  ASSUME TypeOK, Tick
  PROVE  /\ \A k \in Kinds : k \in fired' <=> Runs(k, 1)
         /\ \A k \in Kinds, n \in 1..Wait : Runs(k, n)' => n < Wait /\ Runs(k, n + 1)
  <1>1. /\ timers.running \subseteq [kind : Kinds, left : 1..Wait]
        /\ timers'.running = {[r EXCEPT !.left = @ - 1] :
                               r \in {s \in timers.running : s.left > 1}}
        /\ fired' = {r.kind : r \in {s \in timers.running : s.left = 1}}
    BY DEF Tick, TypeOK, Timers
  <1>2. \A k \in Kinds : k \in fired' <=> Runs(k, 1)
    BY <1>1, BackupAssumption DEF Runs, Timer
  <1>3. ASSUME NEW k \in Kinds, NEW n \in 1..Wait, Runs(k, n)'
        PROVE  n < Wait /\ Runs(k, n + 1)
    <2>1. PICK r \in timers.running : Timer(k, n) = [r EXCEPT !.left = @ - 1]
      BY <1>1, <1>3 DEF Runs
    <2>2. r.kind \in Kinds /\ r.left \in 1..Wait /\ r = Timer(r.kind, r.left)
      BY <1>1 DEF Timer
    <2>3. [r EXCEPT !.left = @ - 1] = Timer(r.kind, r.left - 1)
      BY <2>2 DEF Timer
    <2>4. k = r.kind /\ n = r.left - 1
      BY <2>1, <2>3 DEF Timer
    <2>5. n < Wait /\ r.left = n + 1
      BY <2>2, <2>4, BackupAssumption
    <2>6. QED
      BY <2>2, <2>4, <2>5 DEF Runs
  <1>4. QED
    BY <1>2, <1>3

\* The timers that fire are of one kind only.
LEMMA TickApart ==
  ASSUME TypeOK, ApartInv, Tick
  PROVE  ApartInv'
  <1>1. /\ fired = {} /\ calling = {} /\ calling' = {}
        /\ reports \subseteq IF up THEN {"up"} ELSE {}
        /\ settled' /\ UNCHANGED <<up, reports, reordered>>
    BY DEF Tick
  <1>2. \A k \in Kinds : k \in fired' <=> Runs(k, 1)
    BY TickRuns
  <1>3. \A k \in Kinds, n \in 1..Wait : Runs(k, n)' => n < Wait /\ Runs(k, n + 1)
    BY TickRuns
  <1>4. Connect \in Kinds /\ Disconnect \in Kinds /\ Wait \in 1..Wait /\ 1 \in 1..Wait
    BY BackupAssumption DEF Kinds
  <1>5. "down" \notin reports /\ ~Runs(Connect, Wait)'
    BY <1>1, <1>3, <1>4, BackupAssumption
  <1>6. LossFresh' /\ ConnectYoung'
    BY <1>1, <1>5 DEF LossFresh, ConnectYoung
  <1>7. ASSUME ~reordered
        PROVE  DisconnectKept' /\ NeverTogether'
    <2>1. DisconnectKept /\ NeverTogether
      BY <1>7 DEF ApartInv
    <2>2. \A n \in 1..Wait : Runs(Disconnect, n)' =>
            n + 1 \in 1..Wait /\ Runs(Disconnect, n + 1)
      BY <1>3, <1>4, BackupAssumption
    <2>3. ASSUME NEW n \in 1..Wait, Runs(Disconnect, n)'
          PROVE  timers'.held[Disconnect] = n /\ "up" \notin reports /\ up
      <3>1. timers.held[Disconnect] = n + 1 /\ "up" \notin reports /\ up
        BY <1>5, <2>1, <2>2, <2>3 DEF DisconnectKept
      <3>2. QED
        BY <1>4, <3>1 DEF Tick
    <2>4. ASSUME Disconnect \in fired'
          PROVE  "up" \notin reports /\ up /\ \A n \in 1..Wait : ~Runs(Disconnect, n)'
      <3>1. timers.held[Disconnect] = 1 /\ "up" \notin reports /\ up
        BY <1>2, <1>4, <1>5, <2>1, <2>4 DEF DisconnectKept
      <3>2. ASSUME NEW n \in 1..Wait, Runs(Disconnect, n)' PROVE FALSE
        BY <2>1, <2>2, <3>1, <3>2 DEF DisconnectKept
      <3>3. QED
        BY <3>1, <3>2
    <2>5. DisconnectKept'
      BY <1>1, <2>3, <2>4 DEF DisconnectKept
    <2>6. ~(Connect \in fired' /\ Disconnect \in fired')
      BY <1>2, <1>4, <2>1 DEF NeverTogether
    <2>7. \A n \in 1..Wait : ~(Runs(Connect, n)' /\ Runs(Disconnect, n)')
      BY <1>3, <1>4, <2>1, <2>2 DEF NeverTogether
    <2>8. QED
      BY <1>1, <2>5, <2>6, <2>7 DEF NeverTogether
  <1>8. QED
    BY <1>1, <1>6, <1>7 DEF ApartInv

LEMMA StepApart == TypeOK /\ ApartInv /\ [Next]_vars => ApartInv'
  BY ChangeApart, UpApart, DownApart, ClearApart, CallApart, TickApart DEF Next

\* connectBackup and disconnectBackup never run concurrently, for any length of
\* the wait, as long as reports arrive in order (mqttbroker.go:359-362).
THEOREM BackupCallsApart == Spec => []CallsApart
  <1>1. TypeOK /\ ApartInv => CallsApart
    <2> SUFFICES ASSUME TypeOK, ApartInv, ~reordered
                 PROVE  Cardinality(fired \cup calling) <= 1
      BY DEF CallsApart
    <2>1. fired \cup calling \subseteq {Connect, Disconnect}
      BY DEF TypeOK, Kinds
    <2>2. ~(Connect \in fired \cup calling /\ Disconnect \in fired \cup calling)
      BY DEF ApartInv, NeverTogether
    <2>3. \/ fired \cup calling = {} \/ fired \cup calling = {Connect}
          \/ fired \cup calling = {Disconnect}
      BY <2>1, <2>2
    <2>4. Cardinality({}) = 0 /\ Cardinality({Connect}) = 1 /\ Cardinality({Disconnect}) = 1
      BY FS_EmptySet, FS_Singleton
    <2>5. QED
      BY <2>3, <2>4
  <1>2. QED
    BY <1>1, InitApart, StepApart, BackupTypeCorrect, PTL DEF Spec

-----------------------------------------------------------------------------
(* Why the backup moves only after the wait.                               *)

\* A connect timer that its pointer points to has run for as long as the primary
\* has been out of service or less.  A forgotten one is harmless: the backup is
\* connected, or about to be, and no disconnect timer ends before it.
ConnectTimely ==
  \A n \in 1..Wait : Runs(Connect, n) =>
    IF timers.held[Connect] = n THEN ~Serving /\ steady >= Wait - n
    ELSE /\ backup \/ Connect \in fired \cup calling
         /\ Disconnect \notin fired \cup calling
         /\ \A m \in 1..Wait : Runs(Disconnect, m) => m > n

DisconnectTimely ==
  \A n \in 1..Wait : Runs(Disconnect, n) /\ up => steady >= Wait - n

CallsTimely ==
  /\ Connect \in fired \cup calling => backup \/ (~Serving /\ steady = Wait) \/ steady = 0
  /\ Disconnect \in fired \cup calling => (Serving /\ steady = Wait) \/ steady = 0

TimelyInv == ~reordered => ConnectTimely /\ DisconnectTimely /\ CallsTimely

LEMMA InitTimely == Init => TimelyInv
  BY DEF Init, TimelyInv, ConnectTimely, DisconnectTimely, CallsTimely, Runs

\* No disconnect timer runs while the connect timer's pointer is set.
LEMMA OnePointer ==
  ASSUME TypeOK, DisconnectKept, NEW n \in 1..Wait, timers.held[Connect] = n
  PROVE  \A m \in 1..Wait : ~Runs(Disconnect, m)
  BY BackupAssumption DEF TypeOK, DisconnectKept, Kinds, Connect, Disconnect, Nil

\* What Watch does to steady.
LEMMA WatchSays ==
  ASSUME Watch
  PROVE  IF Serving <=> Serving' THEN steady' = steady ELSE steady' = 0
  <1>1. (Serving \in BOOLEAN) /\ (Serving' \in BOOLEAN)
    BY Zenon DEF Serving
  <1>2. (Serving <=> Serving') <=> Serving' = Serving
    BY <1>1, Zenon
  <1>3. QED
    BY <1>2, Zenon DEF Watch

LEMMA ChangeTimely ==
  ASSUME TypeOK, ApartInv, TimelyInv, ~reordered, ChangeConnection
  PROVE  TimelyInv'
  <1>1. /\ settled /\ up' = ~up
        /\ reports' = reports \cup {IF up THEN "down" ELSE "up"}
        /\ UNCHANGED <<timers, fired, calling, backup, reordered>>
    BY DEF ChangeConnection
  <1>2. ConnectTimely /\ DisconnectTimely /\ CallsTimely /\ DisconnectKept /\ LossFresh
    BY DEF TimelyInv, ApartInv
  <1>3. ~Serving'
    BY <1>1 DEF Serving
  <1>4. (Serving => steady' = 0) /\ (~Serving => steady' = steady)
    <2>1. Watch
      BY DEF ChangeConnection
    <2>2. QED
      BY <1>3, <2>1, WatchSays
  <1>5. \A k, n : Runs(k, n)' <=> Runs(k, n)
    BY <1>1 DEF Runs, Timer
  <1>6. ConnectTimely'
    BY <1>1, <1>2, <1>3, <1>4, <1>5 DEF ConnectTimely
  <1>7. DisconnectTimely'
    BY <1>1, <1>2, <1>5 DEF DisconnectTimely, DisconnectKept, LossFresh
  <1>8. CallsTimely'
    BY <1>1, <1>2, <1>3, <1>4 DEF CallsTimely
  <1>9. QED
    BY <1>6, <1>7, <1>8 DEF TimelyInv

LEMMA UpTimely ==
  ASSUME TypeOK, ApartInv, TimelyInv, ~reordered', primaryUp
  PROVE  TimelyInv'
  <1>1. /\ "up" \in reports /\ reports' = reports \ {"up"}
        /\ ~reordered /\ (up \/ "down" \in reports)
        /\ UNCHANGED <<up, fired, calling, backup, settled>>
    BY DEF primaryUp
  <1>2. /\ ConnectTimely /\ DisconnectTimely /\ CallsTimely
        /\ DisconnectKept /\ LossFresh /\ ConnectYoung
    BY <1>1 DEF TimelyInv, ApartInv
  <1>3. ~Serving /\ (Serving' <=> up)
    BY <1>1 DEF Serving
  <1>4. (up => steady' = 0) /\ (~up => steady' = steady)
    <2>1. Watch
      BY DEF primaryUp
    <2>2. QED
      BY <1>3, <2>1, WatchSays
  <1>5. /\ \A n \in 1..Wait : Runs(Connect, n)' <=> Runs(Connect, n) /\ timers.held[Connect] # n
        /\ \A n \in 1..Wait : Runs(Disconnect, n)' <=>
             Runs(Disconnect, n) \/ (seenGreen /\ timers.held[Disconnect] = Nil /\ n = Wait)
        /\ timers'.held[Connect] = Nil
    <2>1. /\ seenGreen \in BOOLEAN
          /\ Connect \in Kinds /\ Disconnect \in Kinds /\ Connect # Disconnect
      BY DEF TypeOK, Kinds, Connect, Disconnect
    <2>2. timers' = IF seenGreen THEN Started(Stopped(timers, Connect), Disconnect)
                    ELSE Stopped(timers, Connect)
      BY DEF primaryUp
    <2>3. Sound(timers, fired)
      BY DEF TypeOK, Sound
    <2>4. timers'.held[Connect] = Nil
      BY <2>1, <2>2, <2>3, ReportIsSound
    <2>5. QED
      BY <2>1, <2>2, <2>4, RunsAfter
  <1>6. ~Runs(Connect, Wait) /\ \A n \in 1..Wait : ~Runs(Disconnect, n)
    BY <1>1, <1>2 DEF ConnectYoung, DisconnectKept
  <1>7. ConnectTimely'
    <2> SUFFICES ASSUME NEW n \in 1..Wait, Runs(Connect, n)'
                 PROVE  /\ timers'.held[Connect] # n
                        /\ backup' \/ Connect \in fired' \cup calling'
                        /\ Disconnect \notin fired' \cup calling'
                        /\ \A m \in 1..Wait : Runs(Disconnect, m)' => m > n
      BY DEF ConnectTimely
    <2>1. Runs(Connect, n) /\ timers.held[Connect] # n /\ n < Wait
      BY <1>5, <1>6, BackupAssumption
    <2>2. /\ backup \/ Connect \in fired \cup calling
          /\ Disconnect \notin fired \cup calling
      BY <1>2, <2>1 DEF ConnectTimely
    <2>3. \A m \in 1..Wait : Runs(Disconnect, m)' => m = Wait
      BY <1>5, <1>6
    <2>4. timers'.held[Connect] # n
      BY <1>5 DEF Nil
    <2>5. QED
      BY <1>1, <2>1, <2>2, <2>3, <2>4
  <1>8. DisconnectTimely'
    <2> SUFFICES ASSUME NEW n \in 1..Wait, Runs(Disconnect, n)', up'
                 PROVE  steady' >= Wait - n
      BY DEF DisconnectTimely
    <2>1. n = Wait /\ steady' = 0
      BY <1>1, <1>4, <1>5, <1>6
    <2>2. QED
      BY <2>1, BackupAssumption
  <1>9. CallsTimely'
    <2>1. CASE up
      BY <1>4, <2>1 DEF CallsTimely
    <2>2. CASE ~up
      BY <1>1, <1>2, <1>3, <1>4, <2>2 DEF CallsTimely
    <2>3. QED
      BY <2>1, <2>2
  <1>10. QED
    BY <1>7, <1>8, <1>9 DEF TimelyInv

LEMMA DownTimely ==
  ASSUME TypeOK, ApartInv, TimelyInv, ~reordered, primaryDown
  PROVE  TimelyInv'
  <1>1. /\ "down" \in reports /\ reports' = reports \ {"down"}
        /\ UNCHANGED <<up, fired, calling, backup, steady, reordered>>
    BY DEF primaryDown
  <1>2. ConnectTimely /\ DisconnectTimely /\ CallsTimely /\ DisconnectKept /\ LossFresh
    BY DEF TimelyInv, ApartInv
  <1>3. ~up /\ ~up' /\ ~Serving /\ ~Serving'
    BY <1>1, <1>2 DEF LossFresh, Serving
  <1>4. /\ \A n \in 1..Wait :
             Runs(Disconnect, n)' <=> Runs(Disconnect, n) /\ timers.held[Disconnect] # n
        /\ \A n \in 1..Wait : Runs(Connect, n)' <=>
             Runs(Connect, n) \/ (seenGreen /\ timers.held[Connect] = Nil /\ n = Wait)
        /\ timers'.held[Connect] = IF seenGreen /\ timers.held[Connect] = Nil
                                   THEN Wait ELSE timers.held[Connect]
    <2>1. /\ seenGreen \in BOOLEAN
          /\ Connect \in Kinds /\ Disconnect \in Kinds /\ Connect # Disconnect
      BY DEF TypeOK, Kinds, Connect, Disconnect
    <2>2. timers' = IF seenGreen THEN Started(Stopped(timers, Disconnect), Connect)
                    ELSE Stopped(timers, Disconnect)
      BY DEF primaryDown
    <2>3. QED
      BY <2>1, <2>2, RunsAfter
  <1>5. \A n \in 1..Wait : ~Runs(Disconnect, n)'
    BY <1>2, <1>4 DEF DisconnectKept
  <1>6. ConnectTimely'
    <2> SUFFICES ASSUME NEW n \in 1..Wait, Runs(Connect, n)'
                 PROVE  IF timers'.held[Connect] = n THEN ~Serving' /\ steady' >= Wait - n
                        ELSE /\ backup' \/ Connect \in fired' \cup calling'
                             /\ Disconnect \notin fired' \cup calling'
                             /\ \A m \in 1..Wait : Runs(Disconnect, m)' => m > n
      BY DEF ConnectTimely
    <2>1. CASE seenGreen /\ timers.held[Connect] = Nil /\ n = Wait
      <3>1. timers'.held[Connect] = n /\ steady' >= Wait - n
        BY <1>1, <1>4, <2>1, BackupAssumption DEF TypeOK
      <3>2. QED
        BY <1>3, <3>1
    <2>2. CASE ~(seenGreen /\ timers.held[Connect] = Nil /\ n = Wait)
      <3>1. Runs(Connect, n)
        BY <1>4, <2>2
      <3>2. CASE timers.held[Connect] = n
        <4>1. timers'.held[Connect] = n /\ steady' >= Wait - n
          BY <1>1, <1>2, <1>4, <3>1, <3>2 DEF ConnectTimely, Nil
        <4>2. QED
          BY <1>3, <4>1
      <3>3. CASE timers.held[Connect] # n
        <4>1. timers'.held[Connect] # n
          BY <1>4, <2>2, <3>3
        <4>2. QED
          BY <1>1, <1>2, <1>5, <3>1, <3>3, <4>1 DEF ConnectTimely
      <3>4. QED
        BY <3>2, <3>3
    <2>3. QED
      BY <2>1, <2>2
  <1>7. DisconnectTimely'
    BY <1>5 DEF DisconnectTimely
  <1>8. CallsTimely'
    BY <1>1, <1>2, <1>3 DEF CallsTimely
  <1>9. QED
    BY <1>6, <1>7, <1>8 DEF TimelyInv

\* Clearing a pointer may forget a connect timer; the backup is about to be connected
\* then, and no disconnect timer runs.
LEMMA ClearTimely ==
  ASSUME TypeOK, ApartInv, TimelyInv, ~reordered, NEW k \in Kinds, ClearTimer(k)
  PROVE  TimelyInv'
  <1>1. /\ k \in fired /\ fired' = fired \ {k} /\ calling' = calling \cup {k}
        /\ timers' = [timers EXCEPT !.held[k] = Nil]
        /\ UNCHANGED <<up, reports, backup, steady, reordered>>
    BY DEF ClearTimer
  <1>2. /\ ConnectTimely /\ DisconnectTimely /\ CallsTimely
        /\ DisconnectKept /\ NeverTogether
    BY DEF TimelyInv, ApartInv
  <1>3. /\ timers'.running = timers.running
        /\ timers'.held[Connect] = IF k = Connect THEN Nil ELSE timers.held[Connect]
    BY <1>1 DEF TypeOK, Timers, Kinds
  <1>4. \A i, n : Runs(i, n)' <=> Runs(i, n)
    BY <1>3 DEF Runs, Timer
  <1>5. (Serving' <=> Serving) /\ fired' \cup calling' = fired \cup calling
    BY <1>1 DEF Serving
  <1>6. ConnectTimely'
    <2>1. CASE k = Connect
      <3> SUFFICES ASSUME NEW n \in 1..Wait, Runs(Connect, n)
                   PROVE  /\ timers'.held[Connect] # n
                          /\ backup' \/ Connect \in fired' \cup calling'
                          /\ Disconnect \notin fired' \cup calling'
                          /\ \A m \in 1..Wait : Runs(Disconnect, m)' => m > n
        BY <1>4 DEF ConnectTimely
      <3>1. timers'.held[Connect] # n
        BY <1>3, <2>1 DEF Nil
      <3>2. Connect \in fired \cup calling /\ Disconnect \notin fired \cup calling
        BY <1>1, <1>2, <2>1 DEF NeverTogether
      <3>3. \A m \in 1..Wait : Runs(Disconnect, m) => m > n
        BY <1>2, OnePointer DEF ConnectTimely
      <3>4. QED
        BY <1>4, <1>5, <3>1, <3>2, <3>3
    <2>2. CASE k # Connect
      BY <1>1, <1>2, <1>3, <1>4, <1>5, <2>2 DEF ConnectTimely
    <2>3. QED
      BY <2>1, <2>2
  <1>7. DisconnectTimely'
    BY <1>1, <1>2, <1>4 DEF DisconnectTimely
  <1>8. CallsTimely'
    BY <1>1, <1>2, <1>5 DEF CallsTimely
  <1>9. QED
    BY <1>6, <1>7, <1>8 DEF TimelyInv

\* The backup's calls are done one at a time, so each leaves the other's part alone.
LEMMA CallTimely ==
  ASSUME TypeOK, ApartInv, TimelyInv, ~reordered, activateBackup \/ deactivateBackup
  PROVE  TimelyInv'
  <1>1. UNCHANGED <<up, reports, timers, fired, steady, reordered>>
    BY DEF activateBackup, deactivateBackup
  <1>2. ConnectTimely /\ DisconnectTimely /\ CallsTimely /\ NeverTogether
    BY DEF TimelyInv, ApartInv
  <1>3. (\A i, n : Runs(i, n)' <=> Runs(i, n)) /\ (Serving' <=> Serving)
    BY <1>1 DEF Runs, Timer, Serving
  <1>4. DisconnectTimely'
    BY <1>1, <1>2, <1>3 DEF DisconnectTimely
  <1>5. CASE activateBackup
    <2>1. backup' /\ calling' \subseteq calling
      BY <1>5 DEF activateBackup
    <2>2. ConnectTimely'
      BY <1>1, <1>2, <1>3, <2>1 DEF ConnectTimely
    <2>3. CallsTimely'
      BY <1>1, <1>2, <1>3, <2>1 DEF CallsTimely
    <2>4. QED
      BY <1>4, <2>2, <2>3 DEF TimelyInv
  <1>6. CASE deactivateBackup
    <2>1. Disconnect \in calling /\ calling' \subseteq calling
      BY <1>6 DEF deactivateBackup
    <2>2. Connect \notin fired \cup calling
      BY <1>2, <2>1 DEF NeverTogether
    <2>3. \A n \in 1..Wait : Runs(Connect, n) => timers.held[Connect] = n
      BY <1>2, <2>1 DEF ConnectTimely
    <2>4. ConnectTimely'
      BY <1>1, <1>2, <1>3, <2>3 DEF ConnectTimely
    <2>5. CallsTimely'
      BY <1>1, <1>2, <1>3, <2>1, <2>2 DEF CallsTimely
    <2>6. QED
      BY <1>4, <2>4, <2>5 DEF TimelyInv
  <1>7. QED
    BY <1>5, <1>6

LEMMA TickTimely ==
  ASSUME TypeOK, ApartInv, TimelyInv, ~reordered, Tick
  PROVE  TimelyInv'
  <1>1. /\ fired = {} /\ calling = {} /\ calling' = {}
        /\ "down" \notin reports
        /\ UNCHANGED <<up, reports, backup, reordered>>
        /\ steady' = IF steady < Wait THEN steady + 1 ELSE steady
    BY DEF Tick
  <1>2. ConnectTimely /\ DisconnectTimely /\ DisconnectKept
    BY DEF TimelyInv, ApartInv
  <1>3. Serving' <=> Serving
    BY <1>1 DEF Serving
  <1>4. steady \in 0..Wait
    BY DEF TypeOK
  <1>5. /\ \A k \in Kinds : k \in fired' <=> Runs(k, 1)
        /\ \A k \in Kinds, n \in 1..Wait : Runs(k, n)' => n < Wait /\ Runs(k, n + 1)
    BY TickRuns
  <1>6. Connect \in Kinds /\ Disconnect \in Kinds /\ 1 \in 1..Wait
    BY BackupAssumption DEF Kinds
  <1>7. timers'.held[Connect] = IF timers.held[Connect] > 0 THEN timers.held[Connect] - 1
                                ELSE timers.held[Connect]
    BY <1>6 DEF Tick
  <1>8. timers.held[Connect] \in {Nil} \cup 0..Wait
    BY <1>6 DEF TypeOK, Timers
  <1>9. \A n \in 1..Wait : Runs(Disconnect, n) => Serving /\ steady >= Wait - n
    BY <1>1, <1>2 DEF DisconnectKept, DisconnectTimely, Serving
  <1>10. ConnectTimely'
    <2> SUFFICES ASSUME NEW n \in 1..Wait, Runs(Connect, n)'
                 PROVE  IF timers'.held[Connect] = n THEN ~Serving' /\ steady' >= Wait - n
                        ELSE /\ backup'
                             /\ Disconnect \notin fired' \cup calling'
                             /\ \A m \in 1..Wait : Runs(Disconnect, m)' => m > n
      BY DEF ConnectTimely
    <2>1. n + 1 \in 1..Wait /\ Runs(Connect, n + 1)
      BY <1>5, <1>6, BackupAssumption
    <2>2. CASE timers.held[Connect] = n + 1
      <3>1. timers'.held[Connect] = n
        BY <1>7, <2>2
      <3>2. ~Serving /\ steady >= Wait - (n + 1)
        BY <1>2, <2>1, <2>2 DEF ConnectTimely
      <3>3. steady' >= Wait - n
        BY <1>1, <1>4, <3>2, BackupAssumption
      <3>4. QED
        BY <1>3, <3>1, <3>2, <3>3
    <2>3. CASE timers.held[Connect] # n + 1
      <3>1. timers'.held[Connect] # n
        <4>1. CASE timers.held[Connect] = Nil
          BY <1>7, <4>1 DEF Nil
        <4>2. CASE timers.held[Connect] \in 1..Wait
          BY <1>7, <2>3, <4>2, BackupAssumption
        <4>3. CASE timers.held[Connect] = 0
          BY <1>7, <4>3
        <4>4. QED
          BY <1>8, <4>1, <4>2, <4>3, BackupAssumption
      <3>2. backup /\ \A m \in 1..Wait : Runs(Disconnect, m) => m > n + 1
        BY <1>1, <1>2, <2>1, <2>3 DEF ConnectTimely
      <3>3. Disconnect \notin fired'
        BY <1>5, <1>6, <3>2
      <3>4. \A m \in 1..Wait : Runs(Disconnect, m)' => m > n
        <4> SUFFICES ASSUME NEW m \in 1..Wait, Runs(Disconnect, m)' PROVE m > n
          OBVIOUS
        <4>1. m + 1 \in 1..Wait /\ Runs(Disconnect, m + 1)
          BY <1>5, <1>6, BackupAssumption
        <4>2. QED
          BY <3>2, <4>1
      <3>5. QED
        BY <1>1, <3>1, <3>2, <3>3, <3>4
    <2>4. QED
      BY <2>2, <2>3
  <1>11. DisconnectTimely'
    <2> SUFFICES ASSUME NEW n \in 1..Wait, Runs(Disconnect, n)'
                 PROVE  steady' >= Wait - n
      BY DEF DisconnectTimely
    <2>1. n + 1 \in 1..Wait /\ Runs(Disconnect, n + 1)
      BY <1>5, <1>6, BackupAssumption
    <2>2. steady >= Wait - (n + 1)
      BY <1>9, <2>1
    <2>3. QED
      BY <1>1, <1>4, <2>2, BackupAssumption
  <1>12. CallsTimely'
    <2>1. ASSUME Connect \in fired'
          PROVE  backup \/ (~Serving /\ steady' = Wait)
      <3>1. Runs(Connect, 1)
        BY <1>5, <1>6, <2>1
      <3>2. CASE timers.held[Connect] = 1
        <4>1. ~Serving /\ steady >= Wait - 1
          BY <1>2, <1>6, <3>1, <3>2 DEF ConnectTimely
        <4>2. steady' = Wait
          BY <1>1, <1>4, <4>1, BackupAssumption
        <4>3. QED
          BY <4>1, <4>2
      <3>3. CASE timers.held[Connect] # 1
        BY <1>1, <1>2, <1>6, <3>1, <3>3 DEF ConnectTimely
      <3>4. QED
        BY <3>2, <3>3
    <2>2. ASSUME Disconnect \in fired'
          PROVE  Serving /\ steady' = Wait
      <3>1. Serving /\ steady >= Wait - 1
        BY <1>5, <1>6, <1>9, <2>2
      <3>2. steady' = Wait
        BY <1>1, <1>4, <3>1, BackupAssumption
      <3>3. QED
        BY <3>1, <3>2
    <2>3. QED
      BY <1>1, <1>3, <2>1, <2>2 DEF CallsTimely
  <1>13. QED
    BY <1>10, <1>11, <1>12 DEF TimelyInv

LEMMA StepTimely == TypeOK /\ ApartInv /\ TimelyInv /\ [Next]_vars => TimelyInv'
  <1> SUFFICES ASSUME TypeOK, ApartInv, TimelyInv, [Next]_vars, ~reordered'
               PROVE  TimelyInv'
    BY DEF TimelyInv
  <1>1. ~reordered
    BY DEF Next, ChangeConnection, primaryUp, primaryDown, ClearTimer, activateBackup,
           deactivateBackup, Tick, vars
  <1>2. CASE UNCHANGED vars
    BY <1>2 DEF vars, TimelyInv, ConnectTimely, DisconnectTimely, CallsTimely, Runs, Serving
  <1>3. CASE Next
    BY <1>1, <1>3, ChangeTimely, UpTimely, DownTimely, ClearTimely, CallTimely, TickTimely
       DEF Next
  <1>4. QED
    BY <1>2, <1>3

\* The backup comes up only when the primary has been out of service for the wait,
\* and goes down only when it has been in service for the wait, for any length of
\* it, as long as reports arrive in order (mqttbroker.go:223-227).
THEOREM BackupOnlyAfterWait == Spec => OnlyAfterWait
  <1>1. TypeOK /\ TimelyInv /\ [Next]_vars =>
          [backup' # backup /\ ~reordered
             => (Serving = backup /\ steady = Wait) \/ steady = 0]_vars
    <2> SUFFICES ASSUME TypeOK, TimelyInv, Next, backup' # backup, ~reordered
                 PROVE  (Serving = backup /\ steady = Wait) \/ steady = 0
      OBVIOUS
    <2>1. CallsTimely /\ backup \in BOOLEAN
      BY DEF TimelyInv, TypeOK
    <2>2. activateBackup \/ deactivateBackup
      BY DEF Next, ChangeConnection, primaryUp, primaryDown, ClearTimer, Tick
    <2>3. Serving \in BOOLEAN
      BY Zenon DEF Serving
    <2>4. CASE activateBackup
      <3>1. Connect \in calling /\ backup' = TRUE
        BY <2>4 DEF activateBackup
      <3>2. ~backup
        BY <2>1, <3>1, Zenon
      <3>3. (~Serving /\ steady = Wait) \/ steady = 0
        BY <2>1, <3>1, <3>2 DEF CallsTimely
      <3>4. QED
        BY <2>1, <2>3, <3>2, <3>3, Zenon
    <2>5. CASE deactivateBackup
      <3>1. Disconnect \in calling /\ backup' = FALSE
        BY <2>5 DEF deactivateBackup
      <3>2. backup
        BY <2>1, <3>1, Zenon
      <3>3. (Serving /\ steady = Wait) \/ steady = 0
        BY <2>1, <3>1 DEF CallsTimely
      <3>4. QED
        BY <2>1, <2>3, <3>2, <3>3, Zenon
    <2>6. QED
      BY <2>2, <2>4, <2>5
  <1>2. QED
    BY <1>1, InitApart, StepApart, InitTimely, StepTimely, BackupTypeCorrect, PTL
       DEF Spec, OnlyAfterWait

-----------------------------------------------------------------------------
(* Why the backup is never forgotten: the safety that BackupFollows needs. *)

\* A timer of kind k, pointed to or forgotten, has still to move the backup.
Due(k) == k \in fired \cup calling \/ \E n \in 1..Wait : Runs(k, n)

\* While the primary is out of service, having been in service once, the backup is
\* connected to stay, or a timer will connect it; while it is in service, the backup is
\* disconnected to stay, or a timer will disconnect it by the end of the wait.
BackupDue ==
  ~reordered /\ seenGreen /\ "down" \notin reports =>
    /\ ~Serving => Due(Connect) \/ (backup /\ ~Due(Disconnect))
    /\ Serving  => Due(Disconnect) \/ (~backup /\ ~Due(Connect))
    /\ Serving  => \A n \in 1..Wait : Runs(Disconnect, n) => n <= Wait - steady

DueInv ==
  ~reordered =>
    /\ Serving => seenGreen
    /\ ~seenGreen => ~backup /\ ~Due(Connect) /\ ~Due(Disconnect)
    /\ BackupDue

AllInv == TypeOK /\ ApartInv /\ TimelyInv /\ DueInv

LEMMA InitDue == Init => DueInv
  BY DEF Init, DueInv, BackupDue, Due, Runs, Serving

LEMMA ChangeDue ==
  ASSUME AllInv, ChangeConnection, ~reordered
  PROVE  DueInv'
  <1>1. /\ settled /\ up' = ~up
        /\ reports' = reports \cup {IF up THEN "down" ELSE "up"}
        /\ UNCHANGED <<seenGreen, timers, fired, calling, backup, reordered>>
    BY DEF ChangeConnection
  <1>2. "down" \notin reports /\ ~Serving'
    BY <1>1 DEF AllInv, ApartInv, LossFresh, Serving
  <1>3. \A k : Due(k)' <=> Due(k)
    BY <1>1 DEF Due, Runs, Timer
  <1>4. Serving => up
    BY DEF Serving
  <1>5. BackupDue'
    BY <1>1, <1>2, <1>3, <1>4 DEF AllInv, DueInv, BackupDue
  <1>6. QED
    BY <1>1, <1>2, <1>3, <1>5 DEF AllInv, DueInv

LEMMA UpDue ==
  ASSUME AllInv, primaryUp, ~reordered'
  PROVE  DueInv'
  <1>1. /\ "up" \in reports /\ reports' = reports \ {"up"} /\ seenGreen' /\ ~reordered
        /\ up \/ "down" \in reports
        /\ UNCHANGED <<up, fired, calling, backup, settled>>
    BY DEF primaryUp
  <1>2. /\ TypeOK /\ DisconnectKept /\ NeverTogether /\ LossFresh
    BY <1>1 DEF AllInv, ApartInv
  <1>3. /\ seenGreen \in BOOLEAN /\ Connect \in Kinds /\ Disconnect \in Kinds
        /\ Connect # Disconnect
    BY <1>2 DEF TypeOK, Kinds, Connect, Disconnect
  <1>4. timers' = IF seenGreen THEN Started(Stopped(timers, Connect), Disconnect)
                  ELSE Stopped(timers, Connect)
    BY DEF primaryUp
  <1>5. /\ \A n \in 1..Wait : Runs(Connect, n)' <=> Runs(Connect, n) /\ timers.held[Connect] # n
        /\ \A n \in 1..Wait : Runs(Disconnect, n)' <=>
             Runs(Disconnect, n) \/ (seenGreen /\ timers.held[Disconnect] = Nil /\ n = Wait)
    BY <1>2, <1>3, <1>4, RunsAfter
  <1>6. Disconnect \notin fired /\ \A n \in 1..Wait : ~Runs(Disconnect, n)
    BY <1>1, <1>2 DEF DisconnectKept
  <1>7. timers.held[Disconnect] = Nil
    <2>1. timers.held[Disconnect] \in {Nil} \cup 0..Wait
      BY <1>2, <1>3 DEF TypeOK, Timers
    <2>2. timers.held[Disconnect] # 0
      BY <1>2, <1>3, <1>6 DEF TypeOK, PointersValid
    <2>3. timers.held[Disconnect] \notin 1..Wait
      <3>1. SUFFICES ASSUME timers.held[Disconnect] \in 1..Wait
                     PROVE  FALSE
        OBVIOUS
      <3>2. timers.held[Disconnect] > 0
        BY <3>1, BackupAssumption
      <3>3. Runs(Disconnect, timers.held[Disconnect])
        BY <1>2, <1>3, <3>2 DEF TypeOK, PointersValid, Runs, Timer
      <3>4. QED
        BY <1>6, <3>1, <3>3
    <2>4. \A n \in 0..Wait : n = 0 \/ n \in 1..Wait
      BY BackupAssumption
    <2>5. QED
      BY <2>1, <2>2, <2>3, <2>4, Zenon
  <1>8. CASE "down" \in reports
    <2>1. "down" \in reports' /\ ~Serving'
      BY <1>1, <1>2, <1>8 DEF LossFresh, Serving
    <2>2. QED
      BY <1>1, <2>1 DEF DueInv, BackupDue
  <1>9. CASE "down" \notin reports
    <2>1. up /\ ~Serving /\ Serving'
      BY <1>1, <1>9 DEF Serving
    <2>2. steady' = 0
      <3>1. Watch
        BY DEF primaryUp
      <3>2. ~(Serving <=> Serving')
        BY <2>1, Zenon
      <3>3. QED
        BY <3>1, <3>2, WatchSays
    <2>3. \A n \in 1..Wait : Runs(Disconnect, n)' => n <= Wait - steady'
      BY <2>2, BackupAssumption
    <2>4. CASE seenGreen
      <3>1. Runs(Disconnect, Wait)' /\ Wait \in 1..Wait
        BY <1>5, <1>7, <2>4, BackupAssumption
      <3>2. Due(Disconnect)'
        BY <3>1 DEF Due
      <3>3. QED
        BY <1>1, <2>1, <2>3, <3>2 DEF DueInv, BackupDue
    <2>5. CASE ~seenGreen
      <3>1. ~backup /\ ~Due(Connect)
        BY <1>1, <2>5 DEF AllInv, DueInv
      <3>2. ~Due(Connect)'
        BY <1>1, <1>5, <3>1 DEF Due
      <3>3. QED
        BY <1>1, <2>1, <2>3, <3>1, <3>2 DEF DueInv, BackupDue
    <2>6. QED
      BY <1>3, <2>4, <2>5
  <1>10. QED
    BY <1>8, <1>9

LEMMA DownDue ==
  ASSUME AllInv, primaryDown, ~reordered
  PROVE  DueInv'
  <1>1. /\ "down" \in reports /\ reports' = reports \ {"down"}
        /\ UNCHANGED <<up, seenGreen, fired, calling, backup, steady, reordered>>
    BY DEF primaryDown
  <1>2. TypeOK /\ LossFresh
    BY DEF AllInv, ApartInv
  <1>3. ~Serving' /\ ~up
    BY <1>1, <1>2 DEF LossFresh, Serving
  <1>4. /\ seenGreen \in BOOLEAN /\ Connect \in Kinds /\ Disconnect \in Kinds
        /\ Connect # Disconnect
    BY <1>2 DEF TypeOK, Kinds, Connect, Disconnect
  <1>5. timers' = IF seenGreen THEN Started(Stopped(timers, Disconnect), Connect)
                  ELSE Stopped(timers, Disconnect)
    BY DEF primaryDown
  <1>6. /\ \A n \in 1..Wait :
             Runs(Disconnect, n)' <=> Runs(Disconnect, n) /\ timers.held[Disconnect] # n
        /\ \A n \in 1..Wait : Runs(Connect, n)' <=>
             Runs(Connect, n) \/ (seenGreen /\ timers.held[Connect] = Nil /\ n = Wait)
    BY <1>2, <1>4, <1>5, RunsAfter
  <1>7. CASE seenGreen
    <2>1. timers.held[Connect] \in {Nil} \cup 0..Wait
      BY <1>2, <1>4 DEF TypeOK, Timers
    <2>2. Due(Connect)'
      <3>1. CASE timers.held[Connect] = Nil
        <4>1. Runs(Connect, Wait)' /\ Wait \in 1..Wait
          BY <1>6, <1>7, <3>1, BackupAssumption
        <4>2. QED
          BY <4>1 DEF Due
      <3>2. CASE timers.held[Connect] = 0
        BY <1>1, <1>2, <1>4, <3>2 DEF TypeOK, PointersValid, Due
      <3>3. CASE timers.held[Connect] \in 1..Wait
        <4>1. PICK n \in 1..Wait : n = timers.held[Connect]
          BY <3>3
        <4>2. Runs(Connect, n)
          BY <1>2, <1>4, <4>1, BackupAssumption DEF TypeOK, PointersValid, Runs, Timer
        <4>3. Runs(Connect, n)'
          BY <1>6, <4>1, <4>2
        <4>4. QED
          BY <4>3 DEF Due
      <3>4. QED
        BY <2>1, <3>1, <3>2, <3>3, BackupAssumption
    <2>3. QED
      BY <1>1, <1>3, <1>7, <2>2 DEF DueInv, BackupDue
  <1>8. CASE ~seenGreen
    <2>1. ~backup /\ ~Due(Connect) /\ ~Due(Disconnect)
      BY <1>8 DEF AllInv, DueInv
    <2>2. ~Due(Connect)' /\ ~Due(Disconnect)'
      BY <1>1, <1>6, <1>8, <2>1 DEF Due
    <2>3. QED
      BY <1>1, <1>3, <1>8, <2>1, <2>2 DEF DueInv, BackupDue
  <1>9. QED
    BY <1>4, <1>7, <1>8

LEMMA ClearDue ==
  ASSUME AllInv, NEW k \in Kinds, ClearTimer(k), ~reordered
  PROVE  DueInv'
  <1>1. /\ k \in fired /\ fired' = fired \ {k} /\ calling' = calling \cup {k}
        /\ timers' = [timers EXCEPT !.held[k] = Nil]
        /\ UNCHANGED <<up, reports, seenGreen, backup, steady, reordered>>
    BY DEF ClearTimer
  <1>2. timers'.running = timers.running
    BY <1>1 DEF AllInv, TypeOK, Timers
  <1>3. \A i, n : Runs(i, n)' <=> Runs(i, n)
    BY <1>2 DEF Runs, Timer
  <1>4. (Serving' <=> Serving) /\ fired' \cup calling' = fired \cup calling
    BY <1>1 DEF Serving
  <1>5. \A i : Due(i)' <=> Due(i)
    BY <1>3, <1>4 DEF Due
  <1>6. QED
    BY <1>1, <1>3, <1>4, <1>5 DEF AllInv, DueInv, BackupDue

LEMMA CallDue ==
  ASSUME AllInv, activateBackup \/ deactivateBackup, ~reordered
  PROVE  DueInv'
  <1>1. UNCHANGED <<up, reports, seenGreen, timers, fired, steady, reordered>>
    BY DEF activateBackup, deactivateBackup
  <1>2. ConnectTimely /\ DisconnectKept /\ NeverTogether /\ DueInv /\ TypeOK
    BY DEF AllInv, ApartInv, TimelyInv
  <1>3. (\A i, n : Runs(i, n)' <=> Runs(i, n)) /\ (Serving' <=> Serving)
    BY <1>1 DEF Runs, Timer, Serving
  <1>4. Connect # Disconnect
    BY DEF Connect, Disconnect
  <1>5. CASE activateBackup
    <2>1. Connect \in calling /\ calling' = calling \ {Connect} /\ backup'
      BY <1>5 DEF activateBackup
    <2>2. Due(Connect) /\ (Due(Disconnect)' <=> Due(Disconnect))
      BY <1>1, <1>3, <1>4, <2>1 DEF Due
    <2>3. seenGreen
      BY <1>2, <2>2 DEF DueInv, TypeOK
    <2>4. ASSUME "down" \notin reports, ~Serving PROVE ~Due(Disconnect)
      <3>1. Disconnect \notin fired \cup calling
        BY <1>2, <2>1 DEF NeverTogether
      <3>2. ASSUME NEW n \in 1..Wait PROVE ~Runs(Disconnect, n)
        BY <1>2, <2>4 DEF DisconnectKept, Serving
      <3>3. QED
        BY <3>1, <3>2 DEF Due
    <2>5. "down" \notin reports /\ Serving => Due(Disconnect)
      BY <1>2, <2>2, <2>3 DEF DueInv, BackupDue
    <2>6. BackupDue'
      BY <1>1, <1>2, <1>3, <2>1, <2>2, <2>3, <2>4, <2>5 DEF DueInv, BackupDue
    <2>7. QED
      BY <1>1, <2>3, <2>6 DEF DueInv
  <1>6. CASE deactivateBackup
    <2>1. Disconnect \in calling /\ calling' = calling \ {Disconnect} /\ ~backup'
      BY <1>6 DEF deactivateBackup
    <2>2. Due(Disconnect) /\ (Due(Connect)' <=> Due(Connect))
      BY <1>1, <1>3, <1>4, <2>1 DEF Due
    <2>3. seenGreen
      BY <1>2, <2>2 DEF DueInv, TypeOK
    <2>4. ASSUME Serving PROVE ~Due(Connect)
      <3>1. Connect \notin fired \cup calling
        BY <1>2, <2>1 DEF NeverTogether
      <3>2. ASSUME NEW n \in 1..Wait PROVE ~Runs(Connect, n)
        BY <1>2, <2>1, <2>4 DEF ConnectTimely
      <3>3. QED
        BY <3>1, <3>2 DEF Due
    <2>5. "down" \notin reports /\ ~Serving => Due(Connect)
      BY <1>2, <2>2, <2>3 DEF DueInv, BackupDue
    <2>6. BackupDue'
      BY <1>1, <1>2, <1>3, <2>1, <2>2, <2>3, <2>4, <2>5 DEF DueInv, BackupDue
    <2>7. QED
      BY <1>1, <2>3, <2>6 DEF DueInv
  <1>7. QED
    BY <1>5, <1>6

LEMMA TickDue ==
  ASSUME AllInv, Tick, ~reordered
  PROVE  DueInv'
  <1>1. /\ fired = {} /\ calling = {} /\ calling' = {}
        /\ UNCHANGED <<up, reports, seenGreen, backup, reordered>>
        /\ steady' = IF steady < Wait THEN steady + 1 ELSE steady
    BY DEF Tick
  <1>2. (Serving' <=> Serving) /\ steady \in 0..Wait /\ Connect \in Kinds /\ Disconnect \in Kinds
    BY <1>1 DEF Serving, AllInv, TypeOK, Kinds
  <1>3. /\ \A k \in Kinds : k \in fired' <=> Runs(k, 1)
        /\ \A k \in Kinds, n \in 1..Wait : Runs(k, n)' => n < Wait /\ Runs(k, n + 1)
    BY TickRuns DEF AllInv
  <1>4. ASSUME NEW k \in Kinds, NEW n \in 1..Wait, Runs(k, n), n # 1
        PROVE  Runs(k, n - 1)'
    <2>1. Timer(k, n) \in {s \in timers.running : s.left > 1}
      BY <1>4, BackupAssumption DEF Runs, Timer
    <2>2. [Timer(k, n) EXCEPT !.left = @ - 1] \in timers'.running
      BY <2>1 DEF Tick
    <2>3. [Timer(k, n) EXCEPT !.left = @ - 1] = Timer(k, n - 1)
      BY DEF Timer
    <2>4. QED
      BY <2>2, <2>3 DEF Runs, Timer
  <1>5. ASSUME NEW k \in Kinds PROVE Due(k)' <=> Due(k)
    <2>1. ASSUME Due(k) PROVE Due(k)'
      <3>1. PICK n \in 1..Wait : Runs(k, n)
        BY <1>1, <2>1 DEF Due
      <3>2. CASE n = 1
        BY <1>3, <3>1, <3>2 DEF Due
      <3>3. CASE n # 1
        <4>1. Runs(k, n - 1)' /\ n - 1 \in 1..Wait
          BY <1>4, <3>1, <3>3, BackupAssumption
        <4>2. QED
          BY <4>1 DEF Due
      <3>4. QED
        BY <3>2, <3>3
    <2>2. ASSUME Due(k)' PROVE Due(k)
      <3>1. CASE k \in fired'
        <4>1. Runs(k, 1) /\ 1 \in 1..Wait
          BY <1>3, <3>1, BackupAssumption
        <4>2. QED
          BY <4>1 DEF Due
      <3>2. CASE \E n \in 1..Wait : Runs(k, n)'
        <4>1. PICK n \in 1..Wait : Runs(k, n + 1) /\ n < Wait
          BY <1>3, <3>2
        <4>2. n + 1 \in 1..Wait
          BY <4>1, BackupAssumption
        <4>3. QED
          BY <4>1, <4>2 DEF Due
      <3>3. QED
        BY <1>1, <2>2, <3>1, <3>2 DEF Due
    <2>3. QED
      BY <2>1, <2>2
  <1>6. ASSUME NEW n \in 1..Wait, Runs(Disconnect, n)', BackupDue, ~reordered, seenGreen,
               "down" \notin reports, Serving
        PROVE  n <= Wait - steady'
    <2>1. n < Wait /\ Runs(Disconnect, n + 1)
      BY <1>2, <1>3, <1>6
    <2>2. n + 1 <= Wait - steady
      BY <1>6, <2>1, BackupAssumption DEF BackupDue
    <2>3. QED
      BY <1>1, <1>2, <2>2, BackupAssumption
  <1>7. (Due(Connect)' <=> Due(Connect)) /\ (Due(Disconnect)' <=> Due(Disconnect))
    BY <1>2, <1>5
  <1>8. BackupDue /\ (Serving => seenGreen)
        /\ (~seenGreen => ~backup /\ ~Due(Connect) /\ ~Due(Disconnect))
    BY DEF AllInv, DueInv
  <1>9. BackupDue'
    BY <1>1, <1>2, <1>6, <1>7, <1>8 DEF BackupDue
  <1>10. QED
    BY <1>1, <1>2, <1>7, <1>8, <1>9 DEF DueInv

LEMMA StepDue == AllInv /\ [Next]_vars => DueInv'
  <1> SUFFICES ASSUME AllInv, [Next]_vars, ~reordered'
               PROVE  DueInv'
    BY DEF DueInv
  <1>1. ~reordered
    BY DEF Next, ChangeConnection, primaryUp, primaryDown, ClearTimer, activateBackup,
           deactivateBackup, Tick, vars
  <1>2. CASE UNCHANGED vars
    BY <1>2 DEF vars, AllInv, DueInv, BackupDue, Due, Runs, Serving
  <1>3. CASE Next
    BY <1>1, <1>3, ChangeDue, UpDue, DownDue, ClearDue, CallDue, TickDue DEF Next
  <1>4. QED
    BY <1>2, <1>3

\* The backup is never forgotten: as long as reports arrive in order, an outage of the
\* primary finds the backup connected or a timer that will connect it, and a primary in
\* service a timer that will end the backup, in time (mqttbroker.go:388-460).
THEOREM BackupNeverForgotten == Spec => []BackupDue
  <1>1. DueInv => BackupDue
    BY DEF DueInv, BackupDue
  <1>2. QED
    BY <1>1, InitApart, StepApart, InitTimely, StepTimely, InitDue, StepDue,
       BackupTypeCorrect, PTL DEF Spec, AllInv
===============================================================================
