---------------------------- MODULE BackupFailover ----------------------------
(***************************************************************************)
(* The Subscriber of internal/mqttbroker: its primary connection, and the  *)
(* backup broker it connects to once the primary has been down for a       *)
(* minute and leaves once the primary has been back for a minute.          *)
(*                                                                         *)
(* The MQTT library runs each callback in a goroutine.  The one for a      *)
(* connect first subscribes and reports after that; if the connection is   *)
(* lost while it waits for the broker's answer, its report and the report  *)
(* of the loss race.  A timer that has fired runs in a goroutine too and   *)
(* can no longer be stopped, only be beaten to the mutex.                  *)
(*                                                                         *)
(* Goroutines are fast compared with a tick: reports and fired timers run  *)
(* before time goes on, and the connection changes once per tick at most.  *)
(***************************************************************************)
EXTENDS Integers, FiniteSets

CONSTANT Wait  \* 60 seconds, in ticks

ASSUME BackupAssumption == Wait \in Nat \ {0}

Connect    == "connect"
Disconnect == "disconnect"
Kinds      == {Connect, Disconnect}

Nil == -1

VARIABLES
  up,         \* the library's connection to the primary broker
  reports,    \* what callbacks are still to report: "up", "down"
  seenGreen,
  timers,     \* [running, held]: see below
  fired,      \* timers' goroutines that wait for f.mu
  calling,    \* those that have released it and will call connect/disconnectBackup
  backup,     \* s.backup # nil
  settled,    \* time has passed since the connection changed
  steady,     \* history: ticks since Serving changed, up to Wait
  reordered   \* history: a connect was reported after the loss that followed it

vars == <<up, reports, seenGreen, timers, fired, calling, backup, settled, steady, reordered>>

\* timers.running: the time.Timers that have yet to fire, and in how long.
\* timers.held[k]: connectTimer and disconnectTimer: how long the timer
\* pointed to has left, 0 once it has fired, or Nil.  No two timers of a
\* kind start in the same tick, so a timer is known by its kind and that.
Init ==
  /\ up = FALSE
  /\ reports = {}
  /\ seenGreen = FALSE
  /\ timers = [running |-> {}, held |-> [k \in Kinds |-> Nil]]
  /\ fired = {} /\ calling = {}
  /\ backup = FALSE
  /\ settled = TRUE
  /\ steady = 0
  /\ reordered = FALSE

\* The primary is connected and has been subscribed to.
Serving == up /\ "up" \notin reports

\* How long Serving has been what it is; for actions in which no time passes.
Watch == steady' = IF Serving' # Serving THEN 0 ELSE steady

-----------------------------------------------------------------------------
\* Mutant: the timer is stopped, but the pointer to it is kept.
StoppedKeepingPointer(t, k) ==
  [t EXCEPT !.running = @ \ {[kind |-> k, left |-> t.held[k]]}]

\* Stop, and the pointer to nil; without effect on a timer that has fired.
Stopped(t, k) ==
  [running |-> t.running \ {[kind |-> k, left |-> t.held[k]]},
   held    |-> [t.held EXCEPT ![k] = Nil]]

\* AfterFunc, unless there is a timer already.
Started(t, k) ==
  IF t.held[k] # Nil THEN t
  ELSE [running |-> t.running \cup {[kind |-> k, left |-> Wait]},
        held    |-> [t.held EXCEPT ![k] = Wait]]

\* The library connects, or loses the connection, and starts a callback.
ChangeConnection ==
  /\ settled
  /\ up' = ~up
  /\ reports' = reports \cup {IF up THEN "down" ELSE "up"}
  /\ settled' = FALSE
  /\ UNCHANGED <<seenGreen, timers, fired, calling, backup, reordered>>
  /\ Watch

\* Mutant: a pending connect timer is left running.
primaryUpKeepingTimer ==
  /\ "up" \in reports
  /\ reports' = reports \ {"up"}
  /\ reordered' = (reordered \/ (~up /\ "down" \notin reports))
  /\ seenGreen' = TRUE
  /\ timers' = IF seenGreen THEN Started(timers, Disconnect) ELSE timers
  /\ UNCHANGED <<up, fired, calling, backup, settled>>
  /\ Watch

\* The connect callback, once subscribeAll has returned.  The first connect
\* ever starts no timer.
primaryUp ==
  /\ "up" \in reports
  /\ reports' = reports \ {"up"}
  /\ reordered' = (reordered \/ (~up /\ "down" \notin reports))
  /\ seenGreen' = TRUE
  /\ LET stopped == Stopped(timers, Connect)
     IN  timers' = IF seenGreen THEN Started(stopped, Disconnect) ELSE stopped
  /\ UNCHANGED <<up, fired, calling, backup, settled>>
  /\ Watch

\* Mutant: a pending disconnect timer is left running.
primaryDownKeepingTimer ==
  /\ "down" \in reports
  /\ reports' = reports \ {"down"}
  /\ timers' = IF seenGreen THEN Started(timers, Connect) ELSE timers
  /\ UNCHANGED <<up, seenGreen, fired, calling, backup, settled, steady, reordered>>

\* The connection-lost callback.
primaryDown ==
  /\ "down" \in reports
  /\ reports' = reports \ {"down"}
  /\ LET stopped == Stopped(timers, Disconnect)
     IN  timers' = IF seenGreen THEN Started(stopped, Connect) ELSE stopped
  /\ UNCHANGED <<up, seenGreen, fired, calling, backup, settled, steady, reordered>>

\* A timer's goroutine has the mutex: it clears the pointer, whichever timer
\* that points to by now.
ClearTimer(k) ==
  /\ k \in fired
  /\ fired' = fired \ {k}
  /\ calling' = calling \cup {k}
  /\ timers' = [timers EXCEPT !.held[k] = Nil]
  /\ UNCHANGED <<up, reports, seenGreen, backup, settled, steady, reordered>>

activateBackup ==
  /\ Connect \in calling
  /\ calling' = calling \ {Connect}
  /\ backup' = TRUE
  /\ UNCHANGED <<up, reports, seenGreen, timers, fired, settled, steady, reordered>>

deactivateBackup ==
  /\ Disconnect \in calling
  /\ calling' = calling \ {Disconnect}
  /\ backup' = FALSE
  /\ UNCHANGED <<up, reports, seenGreen, timers, fired, settled, steady, reordered>>

\* Time passes; subscribeAll may take as long as the connection lasts.
Tick ==
  /\ fired = {} /\ calling = {}
  /\ reports \subseteq IF up THEN {"up"} ELSE {}
  /\ timers' = [running |-> {[r EXCEPT !.left = @ - 1] : r \in {s \in timers.running : s.left > 1}},
                held    |-> [k \in Kinds |-> IF timers.held[k] > 0 THEN timers.held[k] - 1
                                             ELSE timers.held[k]]]
  /\ fired' = {r.kind : r \in {s \in timers.running : s.left = 1}}
  /\ settled' = TRUE
  /\ steady' = IF steady < Wait THEN steady + 1 ELSE steady
  /\ UNCHANGED <<up, reports, seenGreen, calling, backup, reordered>>

Next ==
  \/ ChangeConnection
  \/ primaryUp
  \/ primaryDown
  \/ \E k \in Kinds : ClearTimer(k)
  \/ activateBackup
  \/ deactivateBackup
  \/ Tick

Spec == Init /\ [][Next]_vars

\* Time passes and goroutines run, but the broker need not answer a
\* subscription while the connection lasts.
Fairness ==
  /\ WF_vars(Tick)
  /\ WF_vars(~up /\ primaryUp)
  /\ WF_vars(primaryDown)
  /\ \A k \in Kinds : WF_vars(ClearTimer(k))
  /\ WF_vars(activateBackup)
  /\ WF_vars(deactivateBackup)

FairSpec == Spec /\ Fairness

-----------------------------------------------------------------------------
Timers == [running : SUBSET [kind : Kinds, left : 1..Wait], held : [Kinds -> {Nil} \cup 0..Wait]]

\* A pointer points to a timer that is running or has just fired.
PointersValid(t, f) ==
  \A k \in Kinds :
    /\ t.held[k] > 0 => [kind |-> k, left |-> t.held[k]] \in t.running
    /\ t.held[k] = 0 => k \in f

\* Types; and of the two pointers, which are valid, at most one is set
\* (mqttbroker.go:368-371).
TypeOK ==
  /\ {up, seenGreen, backup, settled, reordered} \subseteq BOOLEAN
  /\ reports \subseteq {"up", "down"}
  /\ timers \in Timers
  /\ PointersValid(timers, fired)
  /\ \E k \in Kinds : timers.held[k] = Nil
  /\ fired \subseteq Kinds /\ calling \subseteq Kinds
  /\ steady \in 0..Wait

\* connectBackup and disconnectBackup are never called concurrently
\* (mqttbroker.go:359-362), although a timer's goroutine may clear the
\* pointer to a newer timer, which then nobody can stop any more.
CallsApart == ~reordered => Cardinality(fired \cup calling) <= 1

\* The backup comes up only when the primary has been out of service for
\* Wait, and goes down only when it has been in service for Wait
\* (mqttbroker.go:223-227), or was until this very tick: the timer had
\* fired when the opposite report came.
OnlyAfterWait ==
  [][backup' # backup /\ ~reordered
       => (Serving = backup /\ steady = Wait) \/ steady = 0]_vars

\* The backup ends up connected when the primary is lost for good, and
\* disconnected when it is in service for good, whatever timers raced with
\* whatever reports before.
BackupFollows ==
  []~reordered
    => /\ <>seenGreen /\ <>[]~up => <>[]backup
       /\ <>[]Serving => <>[]~backup

\* The doc comment (mqttbroker.go:223-227): the backup "only goes back down
\* after primary has been healthy continuously for a full minute".
DownOnlyWhenHealthy ==
  [][backup /\ ~backup' /\ ~Serving => steady = 0]_vars
=============================================================================
