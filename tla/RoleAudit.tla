----------------------------- MODULE RoleAudit ------------------------------
(***************************************************************************)
(* The fleet-wide record of roles, hash wis2gb:instances: the goroutine of *)
(* main() that writes and cleans it, for the processes of one centre on    *)
(* their hosts, and the tool cmd/wis2nodes that shows and deletes it.      *)
(*                                                                         *)
(* Roles are what the election says, which may be anything for a while     *)
(* (Election shows how long); a process reads its role once at the start of*)
(* a write.  Time passes in units of one write interval: a live process    *)
(* makes one write in each, command by command, while others do theirs.    *)
(***************************************************************************)
EXTENDS Naturals, FiniteSets

CONSTANTS
  Hosts,        \* one process on each, when it is up
  FreshWindow,  \* in units
  MaxAge,       \* bound: ages stop there
  Patience      \* bound: `calm` stops there

RoleAuditAssumption ==
  /\ {FreshWindow, MaxAge, Patience} \subseteq Nat
  /\ MaxAge > FreshWindow
  /\ IsFiniteSet(Hosts) /\ "none" \notin Hosts

Roles == {"primary", "secondary"}

VARIABLES
  up,        \* the hosts whose process lives
  role,      \* role[h]: elector.IsPrimary()
  record,    \* record[r]: the host and the age of the fields <centre>_<r> and _time
  command,      \* command[h]: the command h's write is at
  read,      \* read[h]: the role its write goes by
  calm       \* history: units in which nothing went wrong

vars == <<up, role, record, command, read, calm>>

None == [host |-> "none", age |-> 0]   \* no such fields
Present(r) == record[r] # None

Init ==
  /\ up = {}
  /\ role = [h \in Hosts |-> "secondary"]
  /\ record = [r \in Roles |-> None]
  /\ command = [h \in Hosts |-> "done"]
  /\ read = [h \in Hosts |-> "secondary"]
  /\ calm = 0

-----------------------------------------------------------------------------
(* write(), once per interval.                                             *)

Goto(h, s) == command' = [command EXCEPT ![h] = s]

ReadRole(h) ==
  /\ h \in up /\ command[h] = "role"
  /\ read' = [read EXCEPT ![h] = role[h]]
  /\ Goto(h, "HSET")
  /\ UNCHANGED <<up, role, record, calm>>

\* Goes on whether it fails or not; only a primary looks after the secondary.
Assert(h) ==
  /\ command[h] = "HSET"
  /\ \/ /\ record' = [record EXCEPT ![read[h]] = [host |-> h, age |-> 0]]
        /\ UNCHANGED calm
     \/ UNCHANGED record /\ calm' = 0
  /\ Goto(h, IF read[h] = "primary" THEN "HGET" ELSE "done")
  /\ UNCHANGED <<up, role, read>>

\* Mutant: an entry that is still asserted is removed.
CheckAgeless(h) ==
  /\ command[h] = "HGET"
  /\ \/ /\ Goto(h, IF Present("secondary") THEN "HDEL" ELSE "done")
        /\ UNCHANGED calm
     \/ Goto(h, "done") /\ calm' = 0
  /\ UNCHANGED <<up, role, record, read>>

\* Nothing recorded, fresh, or an error: nothing to remove.
CheckAge(h) ==
  /\ command[h] = "HGET"
  /\ \/ /\ Goto(h, IF Present("secondary") /\ record["secondary"].age > FreshWindow
                  THEN "HDEL" ELSE "done")
        /\ UNCHANGED calm
     \/ Goto(h, "done") /\ calm' = 0
  /\ UNCHANGED <<up, role, record, read>>

\* Whatever is there by now.
Remove(h) ==
  /\ command[h] = "HDEL"
  /\ \/ record' = [record EXCEPT !["secondary"] = None] /\ UNCHANGED calm
     \/ UNCHANGED record /\ calm' = 0
  /\ Goto(h, "done")
  /\ UNCHANGED <<up, role, read>>

-----------------------------------------------------------------------------
(* Everything else.                                                        *)

Start(h) ==
  /\ h \notin up /\ up' = up \cup {h}
  /\ role' = [role EXCEPT ![h] = "secondary"]
  /\ Goto(h, "role")
  /\ calm' = 0
  /\ UNCHANGED <<record, read>>

Stop(h) ==
  /\ h \in up /\ up' = up \ {h}
  /\ Goto(h, "done")
  /\ calm' = 0
  /\ UNCHANGED <<role, record, read>>

Elect(h) ==
  /\ h \in up
  /\ role' = [role EXCEPT ![h] = IF @ = "primary" THEN "secondary" ELSE "primary"]
  /\ calm' = 0
  /\ UNCHANGED <<up, record, command, read>>

\* wis2nodes -del -yes: the fields that its HGETALL had found.
Delete ==
  /\ \E found \in SUBSET Roles \ {{}} :
       record' = [r \in Roles |-> IF r \in found THEN None ELSE record[r]]
  /\ calm' = 0
  /\ UNCHANGED <<up, role, command, read>>

Primaries == {h \in up : role[h] = "primary"}

\* The unit ends when every write has come to its end.
Tick ==
  /\ \A h \in Hosts : command[h] = "done"
  /\ command' = [h \in Hosts |-> IF h \in up THEN "role" ELSE "done"]
  /\ record' = [r \in Roles |->
       IF Present(r) THEN [record[r] EXCEPT !.age = IF @ < MaxAge THEN @ + 1 ELSE @] ELSE None]
  /\ calm' = IF Cardinality(Primaries) # 1 THEN 0
             ELSE IF calm < Patience THEN calm + 1 ELSE calm
  /\ UNCHANGED <<up, role, read>>

Next ==
  \/ \E h \in Hosts :
       \/ ReadRole(h) \/ Assert(h) \/ CheckAge(h) \/ Remove(h)
       \/ Start(h) \/ Stop(h) \/ Elect(h)
  \/ Delete \/ Tick

Spec == Init /\ [][Next]_vars

-----------------------------------------------------------------------------
(* wis2nodes: what a row of the table shows for a role.                    *)

RoleCell(r) ==
  [host |-> IF Present(r) THEN record[r].host ELSE "-",
   fresh |-> Present(r) /\ record[r].age <= FreshWindow]

TypeOK ==
  /\ up \subseteq Hosts
  /\ role \in [Hosts -> Roles] /\ read \in [Hosts -> Roles]
  /\ record \in [Roles -> [host : Hosts, age : 0..MaxAge] \cup {None}]
  /\ command \in [Hosts -> {"role", "HSET", "HGET", "HDEL", "done"}]
  /\ calm \in 0..Patience

\* However it went before -- roles that two processes claimed, hosts that died,
\* writes that failed, a record deleted by hand or by a primary that had seen it
\* stale just before it was renewed -- once there has been one primary for
\* Patience units the table shows it, fresh, and as secondary a live one, fresh,
\* or none when there is none.
AuditHealed ==
  calm = Patience =>
    /\ \E h \in Primaries : RoleCell("primary") = [host |-> h, fresh |-> TRUE]
    /\ IF Cardinality(up) = 1 THEN RoleCell("secondary").host = "-"
       ELSE \E h \in up \ Primaries : RoleCell("secondary") = [host |-> h, fresh |-> TRUE]
=============================================================================
