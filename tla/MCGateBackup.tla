---------------------------- MODULE MCGateBackup -----------------------------
(***************************************************************************)
(* One gate, and the failover to the backup broker, which share no state:  *)
(* `part' is the one looked at in a behaviour, the other stays as it is.   *)
(***************************************************************************)
EXTENDS Gate, BackupFailover

ASSUME GateBounds

VARIABLE part

all == <<part, vars, gateVars>>

MCInit == part \in {"gate", "backup"} /\ Init /\ GateInit

InBackup(Step) == part = "backup" /\ Step /\ UNCHANGED <<part, gateVars>>

OneGate == part = "gate" /\ GateNext /\ UNCHANGED <<part, vars>>
Backup  == InBackup(Next)

MCNext == OneGate \/ Backup

\* The fairness of BackupFailover.
MCFairness ==
  /\ WF_all(InBackup(Tick))
  /\ WF_all(InBackup(~up /\ primaryUp))
  /\ WF_all(InBackup(primaryDown))
  /\ \A k \in Kinds : WF_all(InBackup(ClearTimer(k)))
  /\ WF_all(InBackup(activateBackup))
  /\ WF_all(InBackup(deactivateBackup))

MCSpec == MCInit /\ [][MCNext]_all /\ MCFairness
=============================================================================
