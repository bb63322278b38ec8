---------------------------- MODULE SchemaCache -----------------------------
(***************************************************************************)
(* The validator's two schemas (internal/wnm) and the copy of each URL that*)
(* all processes share in Redis (internal/fetchcache).                     *)
(*                                                                         *)
(* A refresh fetches and compiles one schema after the other and takes both*)
(* or neither; a fetch writes what the URL answers to Redis, whether it    *)
(* compiles or not, and reads that back when the URL does not answer.      *)
(* Redis calls fail while Redis is away.                                   *)
(***************************************************************************)
EXTENDS Naturals

CONSTANTS
  Processes,
  MaxCrashes   \* bound

Schemas == {"wnm", "wme"}
Bodies  == {"good", "broken"}   \* broken: is not JSON or does not compile

VARIABLES
  url,       \* url[s]: the body it serves, or "down"
  redis,     \* Redis answers
  cached,    \* cached[s]: the body under wis2gb:cache:schema:<s>, or "none"
  loaded,    \* loaded[i]: process i has its schemas
  step,      \* step[i]: the schema its Refresh fetches next
  crashes

vars == <<url, redis, cached, loaded, step, crashes>>

SchemaCacheAssumption == MaxCrashes \in Nat

Init ==
  /\ url \in [Schemas -> Bodies \cup {"down"}]
  /\ redis = TRUE
  /\ cached = [s \in Schemas |-> "none"]
  /\ loaded = [i \in Processes |-> FALSE]
  /\ step = [i \in Processes |-> "wnm"]
  /\ crashes = 0

\* Mutant: no fallback.
GotOrFailed(s) == IF url[s] = "down" THEN "none" ELSE url[s]

\* fetchcache.Fetch: what it returns, and what it leaves in Redis.
Got(s) ==
  CASE url[s] # "down" -> url[s]
    [] url[s] = "down" /\ redis -> cached[s]
    [] OTHER -> "none"

\* Mutant: an error page is cached too.
CachesErrors(s) == cached' = IF redis THEN [cached EXCEPT ![s] = url[s]] ELSE cached

Caches(s) ==
  cached' = IF url[s] # "down" /\ redis THEN [cached EXCEPT ![s] = url[s]] ELSE cached

\* Refresh, at startup and on every tick.  An error ends it.
FetchWNM(i) ==
  /\ step[i] = "wnm" /\ Caches("wnm")
  /\ step' = [step EXCEPT ![i] = IF Got("wnm") = "good" THEN "wme" ELSE "wnm"]
  /\ UNCHANGED <<url, redis, loaded, crashes>>

FetchWME(i) ==
  /\ step[i] = "wme" /\ Caches("wme")
  /\ loaded' = [loaded EXCEPT ![i] = @ \/ Got("wme") = "good"]
  /\ step' = [step EXCEPT ![i] = "wnm"]
  /\ UNCHANGED <<url, redis, crashes>>

\* A crash, and the process that starts in its place.
Restart(i) ==
  /\ crashes < MaxCrashes /\ crashes' = crashes + 1
  /\ loaded' = [loaded EXCEPT ![i] = FALSE]
  /\ step' = [step EXCEPT ![i] = "wnm"]
  /\ UNCHANGED <<url, redis, cached>>

Upstream(s) ==
  /\ \E b \in Bodies \cup {"down"} : b # url[s] /\ url' = [url EXCEPT ![s] = b]
  /\ UNCHANGED <<redis, cached, loaded, step, crashes>>

Redis ==
  /\ redis' = ~redis
  /\ UNCHANGED <<url, cached, loaded, step, crashes>>

Refreshes(i) == FetchWNM(i) \/ FetchWME(i)

Next ==
  \/ \E i \in Processes : Refreshes(i) \/ Restart(i)
  \/ \E s \in Schemas : Upstream(s)
  \/ Redis

\* Every process has its ticker.
Fairness == \A i \in Processes : WF_vars(Refreshes(i))

Spec == Init /\ [][Next]_vars /\ Fairness

-----------------------------------------------------------------------------

TypeOK ==
  /\ url \in [Schemas -> Bodies \cup {"down"}]
  /\ redis \in BOOLEAN
  /\ cached \in [Schemas -> Bodies \cup {"none"}]
  /\ loaded \in [Processes -> BOOLEAN]
  /\ step \in [Processes -> Schemas]
  /\ crashes \in 0..MaxCrashes

\* Where the URL answers with a good body, or does not answer and Redis has one
\* from whichever process last got an answer.
Available(s) == url[s] = "good" \/ (url[s] = "down" /\ redis /\ cached[s] = "good")

\* A process that has its schemas goes on validating with them until it is
\* restarted, whatever the URLs and Redis serve in the meantime and whichever of
\* the two fetches fails (wnm.go:56-88).
KeptUntilRestart ==
  [][\A i \in Processes : loaded[i] /\ ~loaded'[i] => crashes' = crashes + 1]_vars

\* Once both are there for good every process comes to have them, one that
\* starts during an outage from what others have cached (fetchcache.go:37-60).
SchemasArrive ==
  <>[](\A s \in Schemas : Available(s)) => <>[](\A i \in Processes : loaded[i])
=============================================================================
