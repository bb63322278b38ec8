------------------------------ MODULE Registry ------------------------------
(***************************************************************************)
(* internal/allowlist and internal/fetchcache: a list that is published at *)
(* a URL, the registry of its entries that the fleet keeps in Redis, and   *)
(* the copy every process holds in memory.                                 *)
(*                                                                         *)
(* A refresh fetches the list, replaces the process's own copy, sets one   *)
(* key per entry, and publishes index sets from which all processes renew  *)
(* their copies.  There are two registries of this make, and a behaviour   *)
(* is about one of them:                                                   *)
(*   "topic"  Set: one index for all entries; every process decides by its *)
(*            own sentinel key when to fetch again;                        *)
(*   "gdc"    GDCRegistry: one index per centre, of which a process reads  *)
(*            its own centre's; one gate for the fleet.                    *)
(* Nobody locks anything: every Redis command is a step of its own, and a  *)
(* pipeline may be interleaved with others and break anywhere.             *)
(*                                                                         *)
(* The unit of time is the interval of the refresh ticker.                 *)
(***************************************************************************)
EXTENDS Integers, FiniteSets

CONSTANTS
  Proc,      \* processes
  Kinds,     \* which of "topic", "gdc" are looked at
  Entries,   \* lines of the list, without what the parser skips
  Lists,     \* Lists[v]: the entries of version v
  Centres,   \* centre ids
  centre,    \* centre[k]: the centre of line k
  home,      \* home[p]: the centre p relays for
  Batch,     \* redisWriteBatchSize
  TTL,       \* topicHashTTL, metadataIDTTL
  Sentinel   \* the longest life of a sentinel; the shortest is 1

Versions == DOMAIN Lists
All      == "all"     \* the name of the topic registry's one index
Indexes  == Centres \cup {All}
Gate     == "gate"    \* metadataRefreshGateKey

ASSUME RegistryAssumption ==
  /\ Kinds \subseteq {"topic", "gdc"}
  /\ Versions \subseteq Nat \ {0} /\ 1 \in Versions
  /\ \A v \in Versions : Lists[v] # {} /\ Lists[v] \subseteq Entries
  /\ All \notin Centres /\ Gate \notin Proc /\ Proc # {}
  /\ centre \in [Entries -> Centres]
  /\ home \in [Proc -> Centres]
  /\ Batch \in Nat \ {0} /\ TTL \in Nat \ {0} /\ Sentinel \in 1..TTL

VARIABLES
  kind,      \* which registry this is; never changes
  broken,    \* what goes wrong in this unit of time, if anything
  list,      \* the version at the URL
  body,      \* the cached body in Redis, a version or 0
  life,      \* life[k]: how long entry k's key has to live, or Never set
  index,     \* index[c]: members and remaining life
  tmp,       \* tmp[c]: the same of the temporary key beside it
  timer,     \* timer[p]: how long p's sentinel lives; timer[Gate]: the cooldown
  cache,     \* cache[p]: the entries p holds in memory
  job,       \* job[p]: where p's Refresh is
  fired,     \* fired[p]: p's refresh ticker has fired in this unit of time
  lapse,     \* history: how many units in a row something went wrong, up to Slack
  overlapped \* history: two processes were writing one index at a time

\* "http": the URL cannot be reached; "redis": Redis cannot; "crash": processes
\* die.  One kind at a time.
Troubles == {"http", "redis", "crash"}

redis == <<body, life, index, tmp, timer>>
world == <<kind, broken, list, lapse>>
vars == <<world, redis, cache, job, fired, overlapped>>

Never == -1
NoSet == [members |-> {}, life |-> 0]   \* Redis has no empty sets
Idle  == [step |-> "idle", got |-> 0, left |-> {}, todo |-> {}, cur |-> All]

Init ==
  /\ kind \in Kinds
  /\ broken = "nothing"
  /\ list = 1
  /\ body = 0
  /\ life = [k \in Entries |-> Never]
  /\ index = [c \in Indexes |-> NoSet]
  /\ tmp = [c \in Indexes |-> NoSet]
  /\ timer = [x \in Proc \cup {Gate} |-> 0]
  /\ cache = [p \in Proc |-> {}]
  /\ job = [p \in Proc |-> Idle]
  /\ fired = [p \in Proc |-> FALSE]
  /\ lapse = 0
  /\ overlapped = FALSE

Redis == broken # "redis"

IndexOf(k) == IF kind = "topic" THEN All ELSE centre[k]
Mine(p)    == IF kind = "topic" THEN All ELSE home[p]
TimerOf(p) == IF kind = "topic" THEN p ELSE Gate
Part(S, c) == {k \in S : IndexOf(k) = c}

\* One pipeline of at most Batch commands.
Chunks(S) == {T \in SUBSET S : Cardinality(T) = Batch \/ (T = S /\ Cardinality(S) < Batch)}

-----------------------------------------------------------------------------
\* Refresh up to the first write to the registry: the gate or the sentinel, the
\* fetch, the cached body, the process's own copy.  A look at Redis that fails
\* counts as due.
Due(p) == ~(Redis /\ timer[TimerOf(p)] > 0)

Skip(p) ==
  /\ ~Due(p)
  /\ UNCHANGED <<body, cache, job>>

Download(p) ==
  /\ Due(p) /\ broken # "http"
  /\ body' = IF Redis THEN list ELSE body
  /\ cache' = [cache EXCEPT ![p] = Part(Lists[list], Mine(p))]
  /\ job' = [job EXCEPT ![p] = [Idle EXCEPT !.step = "registering", !.got = list,
                                             !.left = Lists[list]]]

\* The URL cannot be reached: the cached body, if there is one, replaces the
\* process's own copy and nothing is written.
FallBack(p) ==
  /\ Due(p) /\ broken = "http"
  /\ cache' = IF body = 0 THEN cache ELSE [cache EXCEPT ![p] = Part(Lists[body], Mine(p))]
  /\ UNCHANGED <<body, job>>

BeginRefresh(p) ==
  /\ job[p] = Idle /\ ~fired[p]
  /\ fired' = [fired EXCEPT ![p] = TRUE]
  /\ Skip(p) \/ Download(p) \/ FallBack(p)
  /\ UNCHANGED <<world, life, index, tmp, timer, overlapped>>

\* writeRegistry, one pipeline: it goes through, or breaks after any of its
\* commands and ends the registration.  The index is written in either case.
Indexing(j) ==
  [j EXCEPT !.step = "indexing", !.left = {}, !.todo = {IndexOf(k) : k \in Lists[j.got]}]

Register(p) ==
  /\ job[p].step = "registering"
  /\ \E T \in Chunks(job[p].left) :
       \/ /\ Redis
          /\ life' = [k \in Entries |-> IF k \in T THEN TTL ELSE life[k]]
          /\ job' = [job EXCEPT ![p].left = @ \ T,
                                ![p].step = IF T = job[p].left THEN "arming" ELSE @]
       \/ /\ ~Redis
          /\ \E done \in SUBSET T : life' = [k \in Entries |-> IF k \in done THEN TTL ELSE life[k]]
          /\ job' = [job EXCEPT ![p] = Indexing(@)]
  /\ UNCHANGED <<world, body, index, tmp, timer, cache, fired, overlapped>>

\* Mutant: the sentinel may live as long as the keys and longer.
ArmForTooLong(p) ==
  /\ job[p].step = "arming"
  /\ IF Redis THEN timer' = [timer EXCEPT ![TimerOf(p)] = Sentinel + 1] ELSE UNCHANGED timer
  /\ job' = [job EXCEPT ![p] = Indexing(@)]
  /\ UNCHANGED <<world, body, life, index, tmp, cache, fired, overlapped>>

\* armTopicRefreshSentinel, armRefreshGate.  The sentinel's life is random; the
\* cooldown of the gate is over before the next tick.
Arm(p) ==
  /\ job[p].step = "arming"
  /\ IF Redis
     THEN \E w \in 1..(IF kind = "topic" THEN Sentinel ELSE 1) :
            timer' = [timer EXCEPT ![TimerOf(p)] = w]
     ELSE UNCHANGED timer
  /\ job' = [job EXCEPT ![p] = Indexing(@)]
  /\ UNCHANGED <<world, body, life, index, tmp, cache, fired, overlapped>>

\* writeIndex, command by command: DEL and SADD to the temporary key, its EXPIRE,
\* and the RENAME, which fails if the temporary key is gone.
InPipeline == {"adding", "expiring", "renaming"}

\* Mutant: without the DEL.
DelTmpKeepingRest(p) ==
  /\ job[p].step = "indexing" /\ Redis
  /\ \E c \in job[p].todo :
       /\ job' = [job EXCEPT ![p] = [job[p] EXCEPT !.step = "adding", !.todo = @ \ {c}, !.cur = c,
                                                     !.left = Part(Lists[job[p].got], c)]]
       /\ overlapped' = (overlapped \/ \E q \in Proc : job[q].step \in InPipeline /\ job[q].cur = c)
  /\ UNCHANGED <<world, body, life, index, tmp, timer, cache, fired>>

\* Mutant: every centre's index gets every centre's lines.
DelTmpOfAll(p) ==
  /\ job[p].step = "indexing" /\ Redis
  /\ \E c \in job[p].todo :
       /\ job' = [job EXCEPT ![p] = [job[p] EXCEPT !.step = "adding", !.todo = @ \ {c}, !.cur = c,
                                                     !.left = Lists[job[p].got]]]
       /\ tmp' = [tmp EXCEPT ![c] = NoSet]
       /\ overlapped' = (overlapped \/ \E q \in Proc : job[q].step \in InPipeline /\ job[q].cur = c)
  /\ UNCHANGED <<world, body, life, index, timer, cache, fired>>

DelTmp(p) ==
  /\ job[p].step = "indexing" /\ Redis
  /\ \E c \in job[p].todo :
       /\ job' = [job EXCEPT ![p] = [job[p] EXCEPT !.step = "adding", !.todo = @ \ {c}, !.cur = c,
                                                     !.left = Part(Lists[job[p].got], c)]]
       /\ tmp' = [tmp EXCEPT ![c] = NoSet]
       /\ overlapped' = (overlapped \/ \E q \in Proc : job[q].step \in InPipeline /\ job[q].cur = c)
  /\ UNCHANGED <<world, body, life, index, timer, cache, fired>>

Add(p) ==
  /\ job[p].step = "adding" /\ Redis
  /\ \E T \in Chunks(job[p].left) :
       /\ tmp' = [tmp EXCEPT ![job[p].cur].members = @ \cup T]
       /\ job' = [job EXCEPT ![p].left = @ \ T,
                             ![p].step = IF T = job[p].left THEN "expiring" ELSE @]
  /\ UNCHANGED <<world, body, life, index, timer, cache, fired, overlapped>>

Expire(p) ==
  /\ job[p].step = "expiring" /\ Redis
  /\ tmp' = IF tmp[job[p].cur] = NoSet THEN tmp ELSE [tmp EXCEPT ![job[p].cur].life = TTL]
  /\ job' = [job EXCEPT ![p].step = "renaming"]
  /\ UNCHANGED <<world, body, life, index, timer, cache, fired, overlapped>>

\* Mutant: the index is added to and not replaced.
RenameMerging(p) ==
  /\ job[p].step = "renaming" /\ Redis
  /\ IF tmp[job[p].cur] = NoSet THEN UNCHANGED <<tmp, index>>
     ELSE /\ index' = [index EXCEPT ![job[p].cur] =
                          [members |-> @.members \cup tmp[job[p].cur].members, life |-> TTL]]
          /\ tmp' = [tmp EXCEPT ![job[p].cur] = NoSet]
  /\ job' = [job EXCEPT ![p] =
               IF @.todo = {} THEN Idle ELSE [@ EXCEPT !.step = "indexing", !.cur = All]]
  /\ UNCHANGED <<world, body, life, timer, cache, fired, overlapped>>

Rename(p) ==
  /\ job[p].step = "renaming" /\ Redis
  /\ IF tmp[job[p].cur] = NoSet THEN UNCHANGED <<tmp, index>>
     ELSE /\ index' = [index EXCEPT ![job[p].cur] = tmp[job[p].cur]]
          /\ tmp' = [tmp EXCEPT ![job[p].cur] = NoSet]
  /\ job' = [job EXCEPT ![p] =
               IF @.todo = {} THEN Idle ELSE [@ EXCEPT !.step = "indexing", !.cur = All]]
  /\ UNCHANGED <<world, body, life, timer, cache, fired, overlapped>>

\* With Redis gone the remaining indexes fail in the same way.
BreakPipeline(p) ==
  /\ job[p].step \in InPipeline \cup {"indexing"} /\ ~Redis
  /\ job' = [job EXCEPT ![p] = Idle]
  /\ UNCHANGED <<world, redis, cache, fired, overlapped>>

\* syncFromIndex: an empty index leaves the copy alone.
Sync(p) ==
  /\ Redis /\ index[Mine(p)].members # {}
  /\ cache' = [cache EXCEPT ![p] = index[Mine(p)].members]
  /\ UNCHANGED <<world, redis, job, fired, overlapped>>

-----------------------------------------------------------------------------
\* The environment: a new list is published, something breaks, a process dies
\* and comes back, with a sentinel of another name, for the next unit of time.
Publish ==
  /\ list + 1 \in Versions
  /\ list' = list + 1
  /\ UNCHANGED <<kind, broken, lapse, redis, cache, job, fired, overlapped>>

Break(x) ==
  /\ broken = "nothing" /\ broken' = x
  /\ UNCHANGED <<kind, list, lapse, redis, cache, job, fired, overlapped>>

Crash(p) ==
  /\ job[p] # Idle
  /\ broken \in {"nothing", "crash"} /\ broken' = "crash"
  /\ cache' = [cache EXCEPT ![p] = {}]
  /\ job' = [job EXCEPT ![p] = Idle]
  /\ timer' = [timer EXCEPT ![p] = 0]
  /\ UNCHANGED <<kind, list, lapse, body, life, index, tmp, fired, overlapped>>

\* How long trouble may last before entries lapse: a key that is renewed only
\* when the sentinel has run out has that much less to live.
Slack == IF kind = "topic" THEN TTL - Sentinel ELSE TTL - 1

Less(n) == IF n > 0 THEN n - 1 ELSE n
\* A key without a time to live has life 0, and keeps it.
Aged(s) == IF s.life = 1 THEN NoSet ELSE [s EXCEPT !.life = Less(@)]

\* Once every process has had its tick and is done with it, time passes.
Tick ==
  /\ \A p \in Proc : job[p] = Idle /\ fired[p]
  /\ fired' = [p \in Proc |-> FALSE]
  /\ life' = [k \in Entries |-> Less(life[k])]
  /\ index' = [c \in Indexes |-> Aged(index[c])]
  /\ tmp' = [c \in Indexes |-> Aged(tmp[c])]
  /\ timer' = [x \in Proc \cup {Gate} |-> Less(timer[x])]
  /\ lapse' = IF broken = "nothing" THEN 0 ELSE IF lapse < Slack THEN lapse + 1 ELSE lapse
  /\ broken' \in {broken, "nothing"} \ {"crash"}
  /\ UNCHANGED <<kind, list, body, cache, job, overlapped>>

Refresh(p) ==
  \/ BeginRefresh(p) \/ Register(p) \/ Arm(p)
  \/ DelTmp(p) \/ Add(p) \/ Expire(p) \/ Rename(p) \/ BreakPipeline(p)

Next ==
  \/ \E p \in Proc : Refresh(p) \/ Sync(p) \/ Crash(p)
  \/ Publish \/ Tick
  \/ \E x \in {"http", "redis"} : Break(x)

Spec == Init /\ [][Next]_vars

\* Tickers fire, and every call in Refresh and syncFromIndex has a timeout.
\* Nothing forces a new list, trouble, or the end of it.
Fairness == WF_vars(Tick) /\ \A p \in Proc : WF_vars(Refresh(p)) /\ WF_vars(Sync(p))
FairSpec == Spec /\ Fairness

\* Set.Has, GDCRegistry.Has while Redis answers.
Has(p, k) == k \in cache[p] \/ life[k] > 0

-----------------------------------------------------------------------------
Sets == [members : SUBSET Entries, life : 0..TTL]

Jobs ==
  [step : {"idle", "registering", "arming", "indexing"} \cup InPipeline,
   got : Versions \cup {0}, left : SUBSET Entries, todo : SUBSET Indexes, cur : Indexes]

\* Types.  What a process has still to write is part of the list it fetched and
\* belongs to the index it is writing.
TypeOK ==
  /\ kind \in Kinds /\ broken \in Troubles \cup {"nothing"}
  /\ list \in Versions /\ body \in Versions \cup {0}
  /\ life \in [Entries -> Never..TTL]
  /\ index \in [Indexes -> Sets] /\ tmp \in [Indexes -> Sets]
  /\ \A c \in Indexes, k \in Entries : k \in index[c].members \cup tmp[c].members => IndexOf(k) = c
  /\ timer \in [Proc \cup {Gate} -> 0..Sentinel]
  /\ cache \in [Proc -> SUBSET Entries] /\ job \in [Proc -> Jobs]
  /\ \A p \in Proc :
       /\ job[p].step = "idle" <=> job[p].got = 0
       /\ job[p].got # 0 => job[p].left \subseteq Lists[job[p].got]
       /\ job[p].step \in InPipeline => job[p].left = Part(job[p].left, job[p].cur)
  /\ fired \in [Proc -> BOOLEAN] /\ lapse \in 0..Slack /\ overlapped \in BOOLEAN

\* Unless two processes have been writing one index at a time, an index and a
\* process's copy are the whole of a list's part and never a mixture or a
\* fragment of it, wherever pipelines break and processes die, and no index
\* lives for ever.  (What writeIndex's temporary key and RENAME are for.)
Wholes(c) == {Part(Lists[v], c) : v \in Versions} \cup {{}}

IndexWhole ==
  ~overlapped =>
    /\ \A c \in Indexes : /\ index[c].members \in Wholes(c)
                          /\ index[c].members # {} => index[c].life > 0
    /\ \A p \in Proc : cache[p] \in Wholes(Mine(p))

\* The registry renews its keys before they expire: an entry that is in every
\* list and has once been registered stays so, for processes without a copy,
\* until something has gone wrong for Slack units of time in a row.
\* (topicHashTTL, metadataIDTTL against the sentinel and the refresh interval.)
KeptAnswered ==
  \A k \in Entries :
    (\A v \in Versions : k \in Lists[v]) /\ lapse < Slack => life[k] # 0

\* If things stop going wrong, every process comes to accept exactly the list
\* that is published, whatever overlapping writers, fragments and stale copies
\* have left behind.  An entry of a centre that has left the list altogether is
\* excepted: its index expires, an empty index leaves copies alone, and a
\* process that finds the gate armed every time keeps its own.
AnswersSettle ==
  <>[](broken = "nothing") =>
    <>[](\A p \in Proc, k \in Entries :
           /\ k \in Lists[list] => Has(p, k)
           /\ k \notin Lists[list] /\ Part(Lists[list], Mine(p)) # {} => ~Has(p, k))
=============================================================================
