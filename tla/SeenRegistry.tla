---------------------------- MODULE SeenRegistry ----------------------------
(***************************************************************************)
(* What Dedup.Seen can promise its callers (dedup.go:201-209): an atomic   *)
(* check-and-mark, and later an answer.  The lookup and the answer are     *)
(* separate steps, because an answer can be given up for an error after    *)
(* the id has been marked; and the lookup may be made again as long as no  *)
(* result has been answered, because a lost reply makes the Redis client   *)
(* send the command again.  The answer is what the last lookup found.      *)
(*                                                                         *)
(* A request is one call of Seen; its id is r.id.                          *)
(***************************************************************************)
CONSTANTS
  Requests,  \* calls of Seen, records [id, n]
  NoOne      \* not a request

Ids == {r.id : r \in Requests}

VARIABLES
  key,      \* key[m]: whose mark id m carries in Redis, or NoOne
  markers,  \* history: the calls that have set a mark
  outcome,  \* outcome[r]: what the last lookup found: "none" yet, "first", "seen"
  answer    \* answer[r]: what Seen returned: "none" yet, "first", "seen", "error"

registry == <<key, markers, outcome, answer>>

Init ==
  /\ key = [m \in Ids |-> NoOne]
  /\ markers = {}
  /\ outcome = [r \in Requests |-> "none"]
  /\ answer = [r \in Requests |-> "none"]

\* No result has been answered; the caller may have given up, though.
Asking(r) == answer[r] \in {"none", "error"}

\* The id is free: r marks it and is the first.
Mark(r) ==
  /\ Asking(r)
  /\ key[r.id] = NoOne
  /\ key' = [key EXCEPT ![r.id] = r]
  /\ markers' = markers \cup {r}
  /\ outcome' = [outcome EXCEPT ![r] = "first"]
  /\ UNCHANGED answer

\* The id is marked, by another call or by an earlier lookup of r's own: r
\* has been seen.
Find(r) ==
  /\ Asking(r)
  /\ key[r.id] # NoOne
  /\ outcome' = [outcome EXCEPT ![r] = "seen"]
  /\ UNCHANGED <<key, markers, answer>>

Reply(r) ==
  /\ answer[r] = "none"
  /\ outcome[r] # "none"
  /\ answer' = [answer EXCEPT ![r] = outcome[r]]
  /\ UNCHANGED <<key, markers, outcome>>

\* Fails whether or not the lookup was made, or is still to be made.
Fail(r) ==
  /\ answer[r] = "none"
  /\ answer' = [answer EXCEPT ![r] = "error"]
  /\ UNCHANGED <<key, markers, outcome>>

\* The TTL ends.
Expire(m) ==
  /\ key[m] # NoOne
  /\ key' = [key EXCEPT ![m] = NoOne]
  /\ UNCHANGED <<markers, outcome, answer>>

Next ==
  \/ \E r \in Requests : Mark(r) \/ Find(r) \/ Reply(r) \/ Fail(r)
  \/ \E m \in Ids : Expire(m)

Spec == Init /\ [][Next]_registry

-----------------------------------------------------------------------------
TypeOK ==
  /\ key \in [Ids -> Requests \cup {NoOne}]
  /\ markers \subseteq Requests
  /\ outcome \in [Requests -> {"none", "first", "seen"}]
  /\ answer \in [Requests -> {"none", "first", "seen", "error"}]

\* The doc comment (dedup.go:201-206): Seen "returns true if this message id
\* was already processed recently", that is, if some other call marked it.
SeenBecauseOfAnother ==
  \A r \in Requests :
    answer[r] = "seen" => \E s \in markers : s # r /\ s.id = r.id
=============================================================================
