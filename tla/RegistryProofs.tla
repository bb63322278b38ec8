--------------------------- MODULE RegistryProofs ---------------------------
(***************************************************************************)
(* The registries are written without a lock.  For any number of processes,*)
(* entries, versions of the list and centres, and whatever breaks: what    *)
(* the types promise, and that indexes and copies are whole as long as no  *)
(* two processes write one index at a time.                                *)
(***************************************************************************)
EXTENDS Registry, TLAPS

Writing(p) == job[p].step \in InPipeline

\* Without an overlap every index has one writer at most, and the temporary key
\* is that writer's.
OneWriter ==
  \A p, q \in Proc : Writing(p) /\ Writing(q) /\ job[p].cur = job[q].cur => p = q

\* So the temporary key holds what the writer has added, is complete before it
\* is given a life, and has one when it is renamed.
TmpOfWriter ==
  \A p \in Proc : Writing(p) =>
    /\ tmp[job[p].cur].members = Part(Lists[job[p].got], job[p].cur) \ job[p].left
    /\ job[p].step # "adding" => job[p].left = {}
    /\ job[p].step = "renaming" => tmp[job[p].cur].life = TTL \/ tmp[job[p].cur] = NoSet

IndexInv == ~overlapped => OneWriter /\ TmpOfWriter

RegistryInv == TypeOK /\ IndexInv /\ IndexWhole

-----------------------------------------------------------------------------
(* The operators.                                                          *)

LEMMA IndexOfEntry ==
  ASSUME TypeOK
  PROVE  /\ \A k \in Entries : IndexOf(k) \in Indexes
         /\ \A p \in Proc : Mine(p) \in Indexes /\ TimerOf(p) \in Proc \cup {Gate}
         /\ \A v \in Versions : Lists[v] # {} /\ Lists[v] \subseteq Entries
  BY RegistryAssumption DEF IndexOf, Mine, TimerOf, Indexes

LEMMA ChunkIsPart ==
  ASSUME NEW S, NEW T \in Chunks(S)
  PROVE  T \subseteq S
  BY DEF Chunks

\* What kind of registry this is never changes, nor what depends on it.
LEMMA KindKept ==
  ASSUME kind' = kind
  PROVE  /\ \A k \in Entries : IndexOf(k)' = IndexOf(k)
         /\ \A p \in Proc : Mine(p)' = Mine(p)
         /\ \A S, c : Part(S, c)' = Part(S, c)
         /\ \A c : Wholes(c)' = Wholes(c)
  BY DEF IndexOf, Mine, Part, Wholes

LEMMA PartIsWhole ==
  ASSUME NEW v \in Versions, NEW c
  PROVE  Part(Lists[v], c) \in Wholes(c) /\ {} \in Wholes(c)
  BY DEF Wholes

-----------------------------------------------------------------------------
(* Types.                                                                  *)

\* What a job must look like for TypeOK.
JobOK(j) ==
  /\ j \in Jobs
  /\ j.step = "idle" <=> j.got = 0
  /\ j.got # 0 => j.left \subseteq Lists[j.got]
  /\ j.step \in InPipeline => j.left = Part(j.left, j.cur)

\* TypeOK, in three parts.
WorldOK ==
  /\ kind \in Kinds /\ broken \in Troubles \cup {"nothing"}
  /\ list \in Versions /\ body \in Versions \cup {0}
  /\ life \in [Entries -> Never..TTL]
  /\ timer \in [Proc \cup {Gate} -> 0..Sentinel]
  /\ cache \in [Proc -> SUBSET Entries]
  /\ fired \in [Proc -> BOOLEAN] /\ lapse \in 0..Slack /\ overlapped \in BOOLEAN

SetsOK ==
  /\ index \in [Indexes -> Sets] /\ tmp \in [Indexes -> Sets]
  /\ \A c \in Indexes, k \in Entries :
       k \in index[c].members \cup tmp[c].members => IndexOf(k) = c

AllJobsOK == job \in [Proc -> Jobs] /\ \A p \in Proc : JobOK(job[p])

LEMMA TypeParts == TypeOK <=> WorldOK /\ SetsOK /\ AllJobsOK
  BY DEF TypeOK, WorldOK, SetsOK, AllJobsOK, JobOK

LEMMA IdleJob == JobOK(Idle)
  BY RegistryAssumption DEF JobOK, Idle, Jobs, InPipeline, Indexes

LEMMA JobsOK == TypeOK => job \in [Proc -> Jobs] /\ \A p \in Proc : JobOK(job[p])
  BY DEF TypeOK, JobOK

\* A process that is not idle works on a version.
LEMMA GotVersion ==
  ASSUME TypeOK, NEW p \in Proc, job[p].step # "idle"
  PROVE  job[p].got \in Versions
  BY DEF TypeOK, Jobs

LEMMA IndexingJob ==
  ASSUME TypeOK, NEW p \in Proc, job[p].step # "idle"
  PROVE  JobOK(Indexing(job[p]))
<1>1. job[p].got \in Versions /\ job[p] \in Jobs
  BY GotVersion DEF TypeOK
<1>2. {IndexOf(k) : k \in Lists[job[p].got]} \subseteq Indexes
  BY <1>1, IndexOfEntry
<1>3. QED
  BY <1>1, <1>2, RegistryAssumption DEF Indexing, JobOK, Jobs, InPipeline

\* Steps after which one job has changed, and it is in order.
LEMMA OneJob ==
  ASSUME TypeOK, kind' = kind, NEW p \in Proc, NEW j,
         JobOK(j), job' = [job EXCEPT ![p] = j]
  PROVE  AllJobsOK'
<1>1. \A q \in Proc : JobOK(job'[q])
  BY JobsOK
<1>2. \A q \in Proc : JobOK(job[q])' <=> JobOK(job'[q])
  BY KindKept DEF JobOK, Jobs, Indexes, InPipeline
<1>3. job' \in [Proc -> Jobs]
  BY JobsOK DEF JobOK
<1>4. QED
  BY <1>1, <1>2, <1>3 DEF AllJobsOK, Jobs, Indexes

LEMMA TypePartsNext ==
  ASSUME WorldOK', SetsOK', AllJobsOK'
  PROVE  TypeOK'
  BY DEF TypeOK, WorldOK, SetsOK, AllJobsOK, JobOK

LEMMA InitTypes == Init => TypeOK
<1> SUFFICES ASSUME Init PROVE TypeOK
  OBVIOUS
<1>1. AllJobsOK
  BY IdleJob DEF Init, AllJobsOK, JobOK
<1>2. NoSet \in Sets /\ NoSet.members = {}
  BY RegistryAssumption DEF NoSet, Sets
<1>3. SetsOK
  BY <1>2 DEF Init, SetsOK
<1>4. 0 \in 0..Slack /\ Never \in Never..TTL /\ 0 \in 0..Sentinel
  BY RegistryAssumption DEF Slack, Never
<1>5. WorldOK
  BY <1>4, RegistryAssumption DEF Init, WorldOK
<1>6. QED
  BY <1>1, <1>3, <1>5, TypeParts

LEMMA SetsFrame ==
  ASSUME TypeOK, UNCHANGED <<kind, index, tmp>>
  PROVE  SetsOK'
  BY TypeParts, KindKept DEF SetsOK, Indexes, Sets

LEMMA JobsFrame ==
  ASSUME TypeOK, UNCHANGED <<kind, job>>
  PROVE  AllJobsOK'
<1>1. \A q \in Proc : JobOK(job[q])' <=> JobOK(job[q])
  BY KindKept DEF JobOK, Jobs, Indexes, InPipeline
<1>2. QED
  BY <1>1, JobsOK DEF AllJobsOK, Jobs, Indexes

\* Refresh.

LEMMA BeginRefreshTypes ==
  ASSUME TypeOK, NEW p \in Proc, BeginRefresh(p)
  PROVE  TypeOK'
<1>1. UNCHANGED <<kind, broken, list, lapse, life, index, tmp, timer, overlapped>>
  BY DEF BeginRefresh, world
<1>2. fired' \in [Proc -> BOOLEAN]
  BY DEF BeginRefresh, TypeOK
<1>3. ASSUME NEW v \in Versions
      PROVE  [cache EXCEPT ![p] = Part(Lists[v], Mine(p))] \in [Proc -> SUBSET Entries]
  BY IndexOfEntry DEF TypeOK, Part
<1>4. /\ body' \in Versions \cup {0} /\ cache' \in [Proc -> SUBSET Entries]
      /\ AllJobsOK'
  <2>1. CASE Skip(p)
    BY <1>1, <2>1, JobsFrame DEF Skip, TypeOK
  <2>2. CASE FallBack(p)
    BY <1>1, <1>3, <2>2, JobsFrame DEF FallBack, TypeOK
  <2>3. CASE Download(p)
    <3> DEFINE j == [Idle EXCEPT !.step = "registering", !.got = list, !.left = Lists[list]]
    <3>1. list \in Versions /\ list # 0 /\ Lists[list] \subseteq Entries
      BY RegistryAssumption DEF TypeOK
    <3>2. JobOK(j)
      <4>1. j \in Jobs /\ j.step = "registering" /\ j.got = list /\ j.left = Lists[list]
        BY <3>1, IdleJob DEF JobOK, Jobs
      <4>2. QED
        BY <3>1, <4>1 DEF JobOK, InPipeline
    <3>3. job' = [job EXCEPT ![p] = j]
      BY <2>3 DEF Download
    <3>4. AllJobsOK'
      <4> HIDE DEF j
      <4> QED
        BY <1>1, <3>2, <3>3, OneJob
    <3>5. QED
      BY <1>3, <2>3, <3>1, <3>4 DEF Download, TypeOK
  <2>4. QED
    BY <2>1, <2>2, <2>3 DEF BeginRefresh
<1>5. WorldOK'
  BY <1>1, <1>2, <1>4, TypeParts DEF WorldOK, Slack
<1>6. QED
  BY <1>1, <1>4, <1>5, SetsFrame, TypePartsNext

LEMMA RegisterTypes ==
  ASSUME TypeOK, NEW p \in Proc, Register(p)
  PROVE  TypeOK'
<1>1. UNCHANGED <<kind, broken, list, lapse, body, index, tmp, timer, cache, fired, overlapped>>
      /\ job[p].step = "registering"
  BY DEF Register, world
<1>2. PICK T \in Chunks(job[p].left) :
        \/ /\ life' = [k \in Entries |-> IF k \in T THEN TTL ELSE life[k]]
           /\ job' = [job EXCEPT ![p].left = @ \ T,
                                 ![p].step = IF T = job[p].left THEN "arming" ELSE @]
        \/ /\ \E done \in SUBSET T : life' = [k \in Entries |-> IF k \in done THEN TTL ELSE life[k]]
           /\ job' = [job EXCEPT ![p] = Indexing(@)]
  BY DEF Register
<1>3. \A S : [k \in Entries |-> IF k \in S THEN TTL ELSE life[k]] \in [Entries -> Never..TTL]
  BY RegistryAssumption DEF TypeOK, Never
<1>4. life' \in [Entries -> Never..TTL]
  BY <1>2, <1>3
<1>5. AllJobsOK'
  <2>1. CASE job' = [job EXCEPT ![p] = Indexing(job[p])]
    BY <1>1, <2>1, IndexingJob, OneJob
  <2>2. CASE job' = [job EXCEPT ![p].left = @ \ T,
                                ![p].step = IF T = job[p].left THEN "arming" ELSE @]
    <3> DEFINE j == [job[p] EXCEPT !.left = @ \ T,
                                   !.step = IF T = job[p].left THEN "arming" ELSE @]
    <3>1. JobOK(j)
      BY <1>1, JobsOK DEF JobOK, Jobs, InPipeline
    <3>2. job' = [job EXCEPT ![p] = j]
      BY <2>2, JobsOK DEF Jobs
    <3>3. QED
      <4> HIDE DEF j
      <4> QED
        BY <1>1, <3>1, <3>2, OneJob
  <2>3. QED
    BY <1>2, <2>1, <2>2
<1>6. WorldOK'
  BY <1>1, <1>4, TypeParts DEF WorldOK, Slack
<1>7. QED
  BY <1>1, <1>5, <1>6, SetsFrame, TypePartsNext

LEMMA ArmTypes ==
  ASSUME TypeOK, NEW p \in Proc, Arm(p)
  PROVE  TypeOK'
<1>1. /\ UNCHANGED <<kind, broken, list, lapse, body, life, index, tmp, cache, fired, overlapped>>
      /\ job[p].step = "arming" /\ job' = [job EXCEPT ![p] = Indexing(job[p])]
  BY DEF Arm, world
<1>2. timer' \in [Proc \cup {Gate} -> 0..Sentinel]
  <2>1. \A w \in 1..(IF kind = "topic" THEN Sentinel ELSE 1) : w \in 0..Sentinel
    BY RegistryAssumption
  <2>2. \/ timer' = timer
        \/ \E w \in 0..Sentinel : timer' = [timer EXCEPT ![TimerOf(p)] = w]
    BY <2>1 DEF Arm
  <2>3. QED
    BY <2>2 DEF TypeOK
<1>3. AllJobsOK'
  BY <1>1, IndexingJob, OneJob
<1>4. WorldOK'
  BY <1>1, <1>2, TypeParts DEF WorldOK, Slack
<1>5. QED
  BY <1>1, <1>3, <1>4, SetsFrame, TypePartsNext

\* writeIndex.

\* One temporary key or index has changed, and is in order.
LEMMA OneSet ==
  ASSUME TypeOK, kind' = kind, NEW c \in Indexes, NEW r \in Sets,
         \A k \in r.members : IndexOf(k) = c,
         \/ tmp' = [tmp EXCEPT ![c] = r] /\ index' = index
         \/ tmp' = [tmp EXCEPT ![c] = NoSet] /\ index' = [index EXCEPT ![c] = r]
  PROVE  SetsOK'
<1>1. NoSet \in Sets /\ NoSet.members = {}
  BY RegistryAssumption DEF NoSet, Sets
<1>2. SetsOK
  BY TypeParts
<1>3. index' \in [Indexes -> Sets] /\ tmp' \in [Indexes -> Sets]
  BY <1>1, <1>2 DEF SetsOK
<1>4. ASSUME NEW d \in Indexes, NEW k \in Entries, k \in index'[d].members \cup tmp'[d].members
      PROVE  IndexOf(k) = d
  BY <1>1, <1>2, <1>4 DEF SetsOK
<1>5. QED
  BY <1>3, <1>4, KindKept DEF SetsOK, Sets, Indexes

LEMMA DelTmpTypes ==
  ASSUME TypeOK, NEW p \in Proc, DelTmp(p)
  PROVE  TypeOK'
<1>1. /\ UNCHANGED <<kind, broken, list, lapse, body, life, index, timer, cache, fired>>
      /\ job[p].step = "indexing"
  BY DEF DelTmp, world
<1>2. PICK c \in job[p].todo :
        /\ job' = [job EXCEPT ![p] = [job[p] EXCEPT !.step = "adding", !.todo = @ \ {c},
                                      !.cur = c, !.left = Part(Lists[job[p].got], c)]]
        /\ tmp' = [tmp EXCEPT ![c] = NoSet]
        /\ overlapped' =
             (overlapped \/ \E q \in Proc : job[q].step \in InPipeline /\ job[q].cur = c)
  BY DEF DelTmp
<1>3. c \in Indexes
  BY JobsOK DEF JobOK, Jobs
<1>4. SetsOK'
  <2>1. NoSet \in Sets /\ NoSet.members = {}
    BY RegistryAssumption DEF NoSet, Sets
  <2>2. QED
    BY <1>1, <1>2, <1>3, <2>1, OneSet
<1>5. AllJobsOK'
  <2> DEFINE j == [job[p] EXCEPT !.step = "adding", !.todo = @ \ {c}, !.cur = c,
                                 !.left = Part(Lists[job[p].got], c)]
  <2>1. job[p].got \in Versions /\ job[p] \in Jobs
    BY <1>1, GotVersion DEF TypeOK
  <2>2. Part(Lists[job[p].got], c) \subseteq Lists[job[p].got]
        /\ Part(Lists[job[p].got], c) \in SUBSET Entries
    BY <2>1, IndexOfEntry DEF Part
  <2>3. j \in Jobs /\ j.step = "adding" /\ j.got = job[p].got /\ j.cur = c
        /\ j.left = Part(Lists[job[p].got], c)
    BY <1>3, <2>1, <2>2 DEF Jobs, InPipeline
  <2>4. Part(j.left, c) = j.left
    BY <2>3 DEF Part
  <2>5. job[p].got # 0
    BY <2>1, RegistryAssumption
  <2>6. JobOK(j)
    <3> HIDE DEF j
    <3>1. j \in Jobs /\ j.step # "idle" /\ j.got # 0
      BY <2>3, <2>5
    <3>2. j.left \subseteq Lists[j.got] /\ j.left = Part(j.left, j.cur)
      BY <2>2, <2>3, <2>4
    <3>3. QED
      BY <3>1, <3>2 DEF JobOK
  <2>7. job' = [job EXCEPT ![p] = j]
    BY <1>2
  <2>8. QED
    <3> HIDE DEF j
    <3> QED
      BY <1>1, <2>6, <2>7, OneJob
<1>6. overlapped' \in BOOLEAN
  BY <1>2, TypeParts, Zenon DEF WorldOK
<1>7. WorldOK'
  BY <1>1, <1>6, TypeParts DEF WorldOK, Slack
<1>8. QED
  BY <1>4, <1>5, <1>7, TypePartsNext

LEMMA AddTypes ==
  ASSUME TypeOK, NEW p \in Proc, Add(p)
  PROVE  TypeOK'
<1>1. /\ UNCHANGED <<kind, broken, list, lapse, body, life, index, timer, cache, fired, overlapped>>
      /\ job[p].step = "adding"
  BY DEF Add, world
<1>2. PICK T \in Chunks(job[p].left) :
        /\ tmp' = [tmp EXCEPT ![job[p].cur].members = @ \cup T]
        /\ job' = [job EXCEPT ![p].left = @ \ T,
                              ![p].step = IF T = job[p].left THEN "expiring" ELSE @]
  BY DEF Add
<1>3. /\ job[p] \in Jobs /\ job[p].cur \in Indexes /\ T \subseteq job[p].left
      /\ job[p].left = Part(job[p].left, job[p].cur)
  BY <1>1, ChunkIsPart, JobsOK DEF JobOK, Jobs, InPipeline
<1>4. SetsOK'
  <2> DEFINE c == job[p].cur
             r == [tmp[c] EXCEPT !.members = @ \cup T]
  <2>1. r \in Sets /\ r.members = tmp[c].members \cup T
    BY <1>3 DEF TypeOK, Sets, Jobs
  <2>2. \A k \in r.members : IndexOf(k) = c
    BY <1>3, <2>1 DEF TypeOK, Part, Sets
  <2>3. tmp' = [tmp EXCEPT ![c] = r]
    BY <1>2, <1>3 DEF TypeOK, Sets
  <2>4. QED
    <3> HIDE DEF r
    <3> QED
      BY <1>1, <1>3, <2>1, <2>2, <2>3, OneSet
<1>5. AllJobsOK'
  <2> DEFINE j == [job[p] EXCEPT !.left = @ \ T,
                                 !.step = IF T = job[p].left THEN "expiring" ELSE @]
  <2>1. /\ j \in Jobs /\ j.step \in {"adding", "expiring"} /\ j.got = job[p].got
        /\ j.left = job[p].left \ T /\ j.cur = job[p].cur
    BY <1>1, <1>3 DEF Jobs, InPipeline
  <2>2. JobOK(job[p])
    BY JobsOK
  <2>3. j.left = Part(j.left, j.cur)
    BY <1>3, <2>1 DEF Part
  <2>4. JobOK(j)
    <3> HIDE DEF j
    <3> QED
      BY <1>1, <2>1, <2>2, <2>3 DEF JobOK
  <2>5. job' = [job EXCEPT ![p] = j]
    BY <1>2, JobsOK DEF Jobs
  <2>6. QED
    <3> HIDE DEF j
    <3> QED
      BY <1>1, <2>4, <2>5, OneJob
<1>6. WorldOK'
  BY <1>1, TypeParts DEF WorldOK, Slack
<1>7. QED
  BY <1>4, <1>5, <1>6, TypePartsNext

LEMMA ExpireTypes ==
  ASSUME TypeOK, NEW p \in Proc, Expire(p)
  PROVE  TypeOK'
<1>1. /\ UNCHANGED <<kind, broken, list, lapse, body, life, index, timer, cache, fired, overlapped>>
      /\ job[p].step = "expiring" /\ job' = [job EXCEPT ![p].step = "renaming"]
  BY DEF Expire, world
<1>2. job[p] \in Jobs /\ job[p].cur \in Indexes /\ JobOK(job[p])
  BY JobsOK DEF JobOK, Jobs
<1>3. SetsOK'
  <2> DEFINE c == job[p].cur
             r == [tmp[c] EXCEPT !.life = TTL]
  <2>1. CASE tmp[c] = NoSet
    BY <1>1, <2>1, SetsFrame DEF Expire
  <2>2. CASE tmp[c] # NoSet
    <3>1. r \in Sets /\ r.members = tmp[c].members
      BY <1>2, RegistryAssumption DEF TypeOK, Sets
    <3>2. \A k \in r.members : IndexOf(k) = c
      BY <1>2, <3>1 DEF TypeOK, Sets
    <3>3. tmp' = [tmp EXCEPT ![c] = r]
      BY <1>2, <2>2 DEF Expire, TypeOK, Sets
    <3>4. QED
      <4> HIDE DEF r
      <4> QED
        BY <1>1, <1>2, <3>1, <3>2, <3>3, OneSet
  <2>3. QED
    BY <2>1, <2>2
<1>4. AllJobsOK'
  <2> DEFINE j == [job[p] EXCEPT !.step = "renaming"]
  <2>1. /\ j \in Jobs /\ j.step = "renaming" /\ j.got = job[p].got
        /\ j.left = job[p].left /\ j.cur = job[p].cur
    BY <1>2 DEF Jobs, InPipeline
  <2>2. JobOK(j)
    <3> HIDE DEF j
    <3> QED
      BY <1>1, <1>2, <2>1 DEF JobOK, InPipeline
  <2>3. job' = [job EXCEPT ![p] = j]
    BY <1>1, JobsOK DEF Jobs
  <2>4. QED
    <3> HIDE DEF j
    <3> QED
      BY <1>1, <2>2, <2>3, OneJob
<1>5. WorldOK'
  BY <1>1, TypeParts DEF WorldOK, Slack
<1>6. QED
  BY <1>3, <1>4, <1>5, TypePartsNext

\* A job after its last pipeline, or before the next.
LEMMA NextIndexJob ==
  ASSUME TypeOK, NEW p \in Proc, job[p].step = "renaming"
  PROVE  JobOK(IF job[p].todo = {} THEN Idle ELSE [job[p] EXCEPT !.step = "indexing", !.cur = All])
<1> DEFINE j == [job[p] EXCEPT !.step = "indexing", !.cur = All]
<1>1. job[p] \in Jobs /\ JobOK(job[p])
  BY JobsOK DEF JobOK
<1>2. j \in Jobs /\ j.step = "indexing" /\ j.got = job[p].got /\ j.left = job[p].left
  BY <1>1 DEF Jobs, Indexes
<1>3. JobOK(j)
  <2> HIDE DEF j
  <2> QED
    BY <1>1, <1>2 DEF JobOK, InPipeline
<1>4. QED
  BY <1>3, IdleJob

LEMMA RenameTypes ==
  ASSUME TypeOK, NEW p \in Proc, Rename(p)
  PROVE  TypeOK'
<1>1. /\ UNCHANGED <<kind, broken, list, lapse, body, life, timer, cache, fired, overlapped>>
      /\ job[p].step = "renaming"
      /\ job' = [job EXCEPT ![p] =
           IF job[p].todo = {} THEN Idle ELSE [job[p] EXCEPT !.step = "indexing", !.cur = All]]
  BY DEF Rename, world
<1>2. job[p].cur \in Indexes
  BY JobsOK DEF JobOK, Jobs
<1>3. SetsOK'
  <2> DEFINE r == tmp[job[p].cur]
  <2>1. r \in Sets /\ \A k \in r.members : IndexOf(k) = job[p].cur
    BY <1>2 DEF TypeOK, Sets
  <2>2. \/ UNCHANGED <<tmp, index>>
        \/ /\ tmp' = [tmp EXCEPT ![job[p].cur] = NoSet]
           /\ index' = [index EXCEPT ![job[p].cur] = r]
    BY DEF Rename
  <2>3. QED
    <3> HIDE DEF r
    <3> QED
      BY <1>1, <1>2, <2>1, <2>2, OneSet, SetsFrame
<1>4. AllJobsOK'
  BY <1>1, NextIndexJob, OneJob
<1>5. WorldOK'
  BY <1>1, TypeParts DEF WorldOK, Slack
<1>6. QED
  BY <1>3, <1>4, <1>5, TypePartsNext

LEMMA BreakPipelineTypes ==
  ASSUME TypeOK, NEW p \in Proc, BreakPipeline(p)
  PROVE  TypeOK'
<1>1. UNCHANGED <<world, redis, cache, fired, overlapped>> /\ job' = [job EXCEPT ![p] = Idle]
  BY DEF BreakPipeline
<1>2. AllJobsOK' /\ SetsOK'
  BY <1>1, IdleJob, OneJob, SetsFrame DEF world, redis
<1>3. WorldOK'
  BY <1>1, TypeParts DEF WorldOK, Slack, world, redis
<1>4. QED
  BY <1>2, <1>3, TypePartsNext

\* syncFromIndex, and the environment.

LEMMA SyncTypes ==
  ASSUME TypeOK, NEW p \in Proc, Sync(p)
  PROVE  TypeOK'
<1>1. UNCHANGED <<world, redis, job, fired, overlapped>>
      /\ cache' = [cache EXCEPT ![p] = index[Mine(p)].members]
  BY DEF Sync
<1>2. index[Mine(p)].members \in SUBSET Entries
  BY IndexOfEntry DEF TypeOK, Sets
<1>3. cache' \in [Proc -> SUBSET Entries]
  BY <1>1, <1>2 DEF TypeOK
<1>4. AllJobsOK' /\ SetsOK'
  BY <1>1, JobsFrame, SetsFrame DEF world, redis
<1>5. WorldOK'
  BY <1>1, <1>3, TypeParts DEF WorldOK, Slack, world, redis
<1>6. QED
  BY <1>4, <1>5, TypePartsNext

LEMMA CrashTypes ==
  ASSUME TypeOK, NEW p \in Proc, Crash(p)
  PROVE  TypeOK'
<1>1. /\ UNCHANGED <<kind, list, lapse, body, life, index, tmp, fired, overlapped>>
      /\ broken' = "crash" /\ cache' = [cache EXCEPT ![p] = {}]
      /\ job' = [job EXCEPT ![p] = Idle] /\ timer' = [timer EXCEPT ![p] = 0]
  BY DEF Crash
<1>2. AllJobsOK' /\ SetsOK'
  BY <1>1, IdleJob, OneJob, SetsFrame
<1>3. /\ cache' \in [Proc -> SUBSET Entries] /\ timer' \in [Proc \cup {Gate} -> 0..Sentinel]
      /\ broken' \in Troubles \cup {"nothing"}
  BY <1>1, RegistryAssumption DEF TypeOK, Troubles
<1>4. WorldOK'
  BY <1>1, <1>3, TypeParts DEF WorldOK, Slack
<1>5. QED
  BY <1>2, <1>4, TypePartsNext

LEMMA PublishTypes ==
  ASSUME TypeOK, Publish \/ \E x \in {"http", "redis"} : Break(x)
  PROVE  TypeOK'
<1>1. UNCHANGED <<kind, lapse, redis, cache, job, fired, overlapped>>
      /\ list' \in Versions /\ broken' \in Troubles \cup {"nothing"}
  BY DEF Publish, Break, TypeOK, Troubles
<1>2. AllJobsOK' /\ SetsOK'
  BY <1>1, JobsFrame, SetsFrame DEF redis
<1>3. WorldOK'
  BY <1>1, TypeParts DEF WorldOK, Slack, redis
<1>4. QED
  BY <1>2, <1>3, TypePartsNext

LEMMA AgedOK ==
  ASSUME NEW r \in Sets
  PROVE  /\ Aged(r) \in Sets
         /\ Aged(r).members \in {r.members, {}}
         /\ Aged(r).members # {} /\ r.life > 0 => Aged(r).life > 0
<1>1. NoSet \in Sets /\ NoSet.members = {}
  BY RegistryAssumption DEF NoSet, Sets
<1>2. r.life \in 0..TTL /\ Less(r.life) \in 0..TTL
      /\ (r.life > 0 /\ r.life # 1 => Less(r.life) > 0)
  BY RegistryAssumption DEF Less, Sets
<1>3. CASE r.life = 1
  BY <1>1, <1>3 DEF Aged
<1>4. CASE r.life # 1
  BY <1>2, <1>4 DEF Aged, Sets
<1>5. QED
  BY <1>3, <1>4

LEMMA TickTypes ==
  ASSUME TypeOK, Tick
  PROVE  TypeOK'
<1>1. UNCHANGED <<kind, list, body, cache, job, overlapped>>
  BY DEF Tick
<1>2. life' \in [Entries -> Never..TTL] /\ timer' \in [Proc \cup {Gate} -> 0..Sentinel]
  <2>1. \A n \in Never..TTL : Less(n) \in Never..TTL
    BY RegistryAssumption DEF Less, Never
  <2>2. \A n \in 0..Sentinel : Less(n) \in 0..Sentinel
    BY RegistryAssumption DEF Less
  <2>3. QED
    BY <2>1, <2>2 DEF Tick, TypeOK
<1>3. /\ fired' \in [Proc -> BOOLEAN] /\ lapse' \in 0..Slack
      /\ broken' \in Troubles \cup {"nothing"}
  <2>1. Slack \in Nat
    BY RegistryAssumption DEF Slack
  <2>2. QED
    BY <2>1 DEF Tick, TypeOK
<1>4. WorldOK'
  BY <1>1, <1>2, <1>3, TypeParts DEF WorldOK, Slack
<1>5. SetsOK'
  <2>1. index' = [c \in Indexes |-> Aged(index[c])] /\ tmp' = [c \in Indexes |-> Aged(tmp[c])]
    BY DEF Tick
  <2>2. \A c \in Indexes : /\ Aged(index[c]) \in Sets /\ Aged(tmp[c]) \in Sets
                           /\ Aged(index[c]).members \subseteq index[c].members
                           /\ Aged(tmp[c]).members \subseteq tmp[c].members
    BY AgedOK DEF TypeOK
  <2>3. \A c \in Indexes, k \in Entries :
          k \in index'[c].members \cup tmp'[c].members => IndexOf(k) = c
    BY <2>1, <2>2 DEF TypeOK
  <2>4. index' \in [Indexes -> Sets] /\ tmp' \in [Indexes -> Sets]
    BY <2>1, <2>2
  <2>5. QED
    BY <1>1, <2>3, <2>4, KindKept DEF SetsOK, Sets, Indexes
<1>6. QED
  BY <1>1, <1>4, <1>5, JobsFrame, TypePartsNext

LEMMA StepTypes == TypeOK /\ [Next]_vars => TypeOK'
<1> SUFFICES ASSUME TypeOK, [Next]_vars PROVE TypeOK'
  OBVIOUS
<1>1. ASSUME NEW p \in Proc, Refresh(p) PROVE TypeOK'
  BY <1>1, BeginRefreshTypes, RegisterTypes, ArmTypes, DelTmpTypes, AddTypes, ExpireTypes,
     RenameTypes, BreakPipelineTypes DEF Refresh
<1>2. CASE UNCHANGED vars
  <2>1. AllJobsOK' /\ SetsOK'
    BY <1>2, JobsFrame, SetsFrame DEF vars, world, redis
  <2>2. WorldOK'
    BY <1>2, TypeParts DEF WorldOK, Slack, vars, world, redis
  <2>3. QED
    BY <2>1, <2>2, TypePartsNext
<1>3. QED
  BY <1>1, <1>2, SyncTypes, CrashTypes, PublishTypes, TickTypes DEF Next

\* The registry's variables have their types, and a process never has more to
\* write than the list it fetched holds for the index it is at
\* (allowlist.go:189-235, gdc.go:186-277).
THEOREM RegistryTypeCorrect == Spec => []TypeOK
  BY InitTypes, StepTypes, PTL DEF Spec

-----------------------------------------------------------------------------
(* Whole indexes.                                                          *)

LEMMA InitWhole == Init => IndexInv /\ IndexWhole
  BY DEF Init, IndexInv, IndexWhole, OneWriter, TmpOfWriter, Writing, Idle, InPipeline, Wholes, NoSet

\* Steps that leave every writer, and what it writes to, alone.
LEMMA WritersFrame ==
  ASSUME TypeOK, IndexInv, UNCHANGED <<kind, tmp, overlapped>>,
         \A q \in Proc : job'[q] = job[q] \/ job'[q].step \notin InPipeline
  PROVE  IndexInv'
<1> SUFFICES ASSUME ~overlapped' PROVE OneWriter' /\ TmpOfWriter'
  BY DEF IndexInv
<1>1. OneWriter /\ TmpOfWriter
  BY DEF IndexInv
<1>2. \A q \in Proc : Writing(q)' => job'[q] = job[q] /\ Writing(q)
  BY DEF Writing, InPipeline
<1>3. OneWriter'
  BY <1>1, <1>2 DEF OneWriter
<1>4. TmpOfWriter'
  BY <1>1, <1>2, KindKept DEF TmpOfWriter
<1>5. QED
  BY <1>3, <1>4

LEMMA WholeFrame ==
  ASSUME IndexWhole, UNCHANGED <<kind, index>>, overlapped => overlapped',
         ~overlapped => \A p \in Proc : cache'[p] \in Wholes(Mine(p))
  PROVE  IndexWhole'
  BY KindKept DEF IndexWhole

\* What a step of one process does to the others' jobs: nothing.
LEMMA OthersKeepJobs ==
  ASSUME TypeOK, NEW p \in Proc, NEW j, job' = [job EXCEPT ![p] = j]
  PROVE  job'[p] = j /\ \A q \in Proc : q # p => job'[q] = job[q]
  BY DEF TypeOK

LEMMA BeginRefreshWhole ==
  ASSUME TypeOK, IndexInv, IndexWhole, NEW p \in Proc, BeginRefresh(p)
  PROVE  IndexInv' /\ IndexWhole'
<1>1. UNCHANGED <<kind, index, tmp, overlapped>>
  BY DEF BeginRefresh, world
<1>2. \A q \in Proc : job'[q] = job[q] \/ job'[q].step \notin InPipeline
  <2> DEFINE j == [Idle EXCEPT !.step = "registering", !.got = list, !.left = Lists[list]]
  <2>1. j.step = "registering"
    BY DEF Idle
  <2>2. job' = job \/ job' = [job EXCEPT ![p] = j]
    BY DEF BeginRefresh, Skip, FallBack, Download
  <2>3. QED
    <3> HIDE DEF j
    <3> QED
      BY <2>1, <2>2, OthersKeepJobs DEF InPipeline
<1>3. cache' = cache \/ \E v \in Versions : cache' = [cache EXCEPT ![p] = Part(Lists[v], Mine(p))]
  BY DEF BeginRefresh, Skip, FallBack, Download, TypeOK
<1>4. ~overlapped => \A q \in Proc : cache'[q] \in Wholes(Mine(q))
  BY <1>3, PartIsWhole DEF IndexWhole, TypeOK
<1>5. QED
  BY <1>1, <1>2, <1>4, WritersFrame, WholeFrame

LEMMA RegisterWhole ==
  ASSUME TypeOK, IndexInv, IndexWhole, NEW p \in Proc,
         Register(p) \/ Arm(p) \/ BreakPipeline(p)
  PROVE  IndexInv' /\ IndexWhole'
<1>1. UNCHANGED <<kind, index, tmp, cache, overlapped>>
  BY DEF Register, Arm, BreakPipeline, world, redis
<1>2. \A q \in Proc : job'[q] = job[q] \/ job'[q].step \notin InPipeline
  <2>1. CASE job' = [job EXCEPT ![p] = Idle] \/ job' = [job EXCEPT ![p] = Indexing(job[p])]
    <3>1. Idle.step = "idle"
      BY DEF Idle
    <3>2. Indexing(job[p]).step = "indexing"
      BY DEF TypeOK, Jobs, Indexing
    <3>3. QED
      BY <2>1, <3>1, <3>2, OthersKeepJobs DEF InPipeline
  <2>2. CASE job[p].step = "registering" /\ \E T :
               job' = [job EXCEPT ![p].left = @ \ T,
                                  ![p].step = IF T = job[p].left THEN "arming" ELSE @]
    BY <2>2 DEF TypeOK, Jobs, InPipeline
  <2>3. QED
    BY <2>1, <2>2 DEF Register, Arm, BreakPipeline
<1>3. QED
  BY <1>1, <1>2, WritersFrame, WholeFrame DEF IndexWhole

LEMMA DelTmpWhole ==
  ASSUME TypeOK, IndexInv, IndexWhole, NEW p \in Proc, DelTmp(p)
  PROVE  IndexInv' /\ IndexWhole'
<1>1. UNCHANGED <<kind, index, cache>> /\ job[p].step = "indexing"
  BY DEF DelTmp, world
<1>2. PICK c \in job[p].todo :
        /\ job' = [job EXCEPT ![p] = [job[p] EXCEPT !.step = "adding", !.todo = @ \ {c},
                                      !.cur = c, !.left = Part(Lists[job[p].got], c)]]
        /\ tmp' = [tmp EXCEPT ![c] = NoSet]
        /\ overlapped' =
             (overlapped \/ \E q \in Proc : job[q].step \in InPipeline /\ job[q].cur = c)
  BY DEF DelTmp
<1>3. c \in Indexes /\ job[p] \in Jobs
  BY JobsOK DEF JobOK, Jobs
<1>4. /\ job'[p].step = "adding" /\ job'[p].cur = c /\ job'[p].got = job[p].got
      /\ job'[p].left = Part(Lists[job[p].got], c)
      /\ \A q \in Proc : q # p => job'[q] = job[q]
  BY <1>2, <1>3 DEF TypeOK, Jobs
<1>5. overlapped => overlapped'
  BY <1>2, Zenon
<1>6. IndexWhole'
  BY <1>1, <1>5, WholeFrame DEF IndexWhole
<1>7. ASSUME ~overlapped' PROVE OneWriter' /\ TmpOfWriter'
  <2>1. ~overlapped /\ \A q \in Proc : ~(job[q].step \in InPipeline /\ job[q].cur = c)
    BY <1>2, <1>7, Zenon
  <2>2. OneWriter /\ TmpOfWriter
    BY <2>1 DEF IndexInv
  <2>3. \A q \in Proc : q # p /\ Writing(q)' => Writing(q) /\ job'[q] = job[q] /\ job[q].cur # c
    BY <1>4, <2>1 DEF Writing, InPipeline
  <2>4. OneWriter'
    BY <1>4, <2>2, <2>3 DEF OneWriter
  <2>5. tmp'[c] = NoSet /\ \A d \in Indexes : d # c => tmp'[d] = tmp[d]
    BY <1>2, <1>3 DEF TypeOK
  <2>6. ASSUME NEW q \in Proc, q # p, Writing(q)'
        PROVE  /\ tmp'[job'[q].cur].members = Part(Lists[job'[q].got], job'[q].cur) \ job'[q].left
               /\ job'[q].step # "adding" => job'[q].left = {}
               /\ job'[q].step = "renaming" =>
                    tmp'[job'[q].cur].life = TTL \/ tmp'[job'[q].cur] = NoSet
    <3>1. job[q].cur \in Indexes
      BY DEF TypeOK, Jobs
    <3>2. QED
      BY <2>2, <2>3, <2>5, <2>6, <3>1 DEF TmpOfWriter
  <2>7. tmp'[c].members = Part(Lists[job[p].got], c) \ job'[p].left
    BY <1>4, <2>5 DEF NoSet
  <2>8. TmpOfWriter'
    BY <1>1, <1>4, <2>6, <2>7, KindKept DEF TmpOfWriter
  <2>9. QED
    BY <2>4, <2>8
<1>8. QED
  BY <1>6, <1>7 DEF IndexInv

\* Steps of the one writer of an index.
LEMMA WriterStep ==
  ASSUME TypeOK, IndexInv, UNCHANGED <<kind, overlapped>>, NEW p \in Proc, Writing(p), NEW j,
         job' = [job EXCEPT ![p] = j], j.step \in InPipeline => j.cur = job[p].cur,
         \A d \in Indexes : d # job[p].cur => tmp'[d] = tmp[d],
         ~overlapped /\ j.step \in InPipeline =>
           /\ tmp'[j.cur].members = Part(Lists[j.got], j.cur) \ j.left
           /\ j.step # "adding" => j.left = {}
           /\ j.step = "renaming" => tmp'[j.cur].life = TTL \/ tmp'[j.cur] = NoSet
  PROVE  IndexInv'
<1> SUFFICES ASSUME ~overlapped' PROVE OneWriter' /\ TmpOfWriter'
  BY DEF IndexInv
<1>1. ~overlapped /\ OneWriter /\ TmpOfWriter
  BY DEF IndexInv
<1>2. job'[p] = j /\ \A q \in Proc : q # p => job'[q] = job[q]
  BY OthersKeepJobs
<1>3. \A q \in Proc : q # p /\ Writing(q)' => Writing(q) /\ job[q].cur # job[p].cur
  BY <1>1, <1>2 DEF OneWriter, Writing, InPipeline
<1>4. OneWriter'
  BY <1>1, <1>2, <1>3 DEF OneWriter, Writing, InPipeline
<1>5. ASSUME NEW q \in Proc, Writing(q)'
      PROVE  /\ tmp'[job'[q].cur].members = Part(Lists[job'[q].got], job'[q].cur) \ job'[q].left
             /\ job'[q].step # "adding" => job'[q].left = {}
             /\ job'[q].step = "renaming" =>
                  tmp'[job'[q].cur].life = TTL \/ tmp'[job'[q].cur] = NoSet
  <2>1. CASE q = p
    BY <1>1, <1>2, <1>5, <2>1 DEF Writing, InPipeline
  <2>2. CASE q # p
    <3>1. job[q].cur \in Indexes /\ job[q].cur # job[p].cur /\ Writing(q) /\ job'[q] = job[q]
      BY <1>2, <1>3, <1>5, <2>2 DEF TypeOK, Jobs
    <3>2. QED
      BY <1>1, <3>1 DEF TmpOfWriter
  <2>3. QED
    BY <2>1, <2>2
<1>6. TmpOfWriter'
  BY <1>5, KindKept DEF TmpOfWriter
<1>7. QED
  BY <1>4, <1>6

LEMMA AddWhole ==
  ASSUME TypeOK, IndexInv, IndexWhole, NEW p \in Proc, Add(p)
  PROVE  IndexInv' /\ IndexWhole'
<1>1. UNCHANGED <<kind, index, cache, overlapped>> /\ job[p].step = "adding" /\ Writing(p)
  BY DEF Add, world, Writing, InPipeline
<1>2. PICK T \in Chunks(job[p].left) :
        /\ tmp' = [tmp EXCEPT ![job[p].cur].members = @ \cup T]
        /\ job' = [job EXCEPT ![p].left = @ \ T,
                              ![p].step = IF T = job[p].left THEN "expiring" ELSE @]
  BY DEF Add
<1>3. job[p] \in Jobs /\ job[p].cur \in Indexes /\ JobOK(job[p]) /\ T \subseteq job[p].left
  BY ChunkIsPart, JobsOK DEF JobOK, Jobs
<1> DEFINE j == [job[p] EXCEPT !.left = @ \ T,
                               !.step = IF T = job[p].left THEN "expiring" ELSE @]
<1>4. /\ j.step = IF T = job[p].left THEN "expiring" ELSE "adding"
      /\ j.got = job[p].got /\ j.left = job[p].left \ T /\ j.cur = job[p].cur
  BY <1>1, <1>3 DEF Jobs
<1>5. job' = [job EXCEPT ![p] = j]
  BY <1>2, <1>3 DEF TypeOK, Jobs
<1>6. /\ tmp'[job[p].cur].members = tmp[job[p].cur].members \cup T
      /\ \A d \in Indexes : d # job[p].cur => tmp'[d] = tmp[d]
  BY <1>2, <1>3 DEF TypeOK, Sets
<1>7. job[p].left \subseteq Part(Lists[job[p].got], job[p].cur)
  <2>1. job[p].left = Part(job[p].left, job[p].cur) /\ job[p].left \subseteq Lists[job[p].got]
    BY <1>1, <1>3, GotVersion, RegistryAssumption DEF JobOK, InPipeline
  <2>2. QED
    BY <2>1 DEF Part
<1>8. ~overlapped => tmp'[j.cur].members = Part(Lists[j.got], j.cur) \ j.left
  <2>1. ~overlapped =>
          tmp[job[p].cur].members = Part(Lists[job[p].got], job[p].cur) \ job[p].left
    BY <1>1 DEF IndexInv, TmpOfWriter
  <2>2. QED
    <3> HIDE DEF j
    <3> QED
      BY <1>3, <1>4, <1>6, <1>7, <2>1
<1>9. j.step # "adding" => j.left = {}
  BY <1>4
<1>10. IndexInv'
  <2>1. j.step # "renaming"
    BY <1>4
  <2>2. QED
    <3> HIDE DEF j
    <3> QED
      BY <1>1, <1>4, <1>5, <1>6, <1>8, <1>9, <2>1, WriterStep
<1>11. QED
  BY <1>1, <1>10, WholeFrame DEF IndexWhole

LEMMA ExpireWhole ==
  ASSUME TypeOK, IndexInv, IndexWhole, NEW p \in Proc, Expire(p)
  PROVE  IndexInv' /\ IndexWhole'
<1>1. /\ UNCHANGED <<kind, index, cache, overlapped>> /\ job[p].step = "expiring" /\ Writing(p)
      /\ tmp' = IF tmp[job[p].cur] = NoSet THEN tmp ELSE [tmp EXCEPT ![job[p].cur].life = TTL]
      /\ job' = [job EXCEPT ![p].step = "renaming"]
  BY DEF Expire, world, Writing, InPipeline
<1> DEFINE c == job[p].cur
           j == [job[p] EXCEPT !.step = "renaming"]
<1>2. job[p] \in Jobs /\ c \in Indexes
  BY JobsOK DEF JobOK, Jobs
<1>3. /\ job' = [job EXCEPT ![p] = j]
      /\ j.step = "renaming" /\ j.got = job[p].got /\ j.left = job[p].left /\ j.cur = c
  BY <1>1, <1>2 DEF TypeOK, Jobs
<1>4. /\ tmp'[c].members = tmp[c].members
      /\ tmp'[c].life = TTL \/ tmp'[c] = NoSet
      /\ \A d \in Indexes : d # c => tmp'[d] = tmp[d]
  BY <1>1, <1>2 DEF TypeOK, Sets
<1>5. ~overlapped =>
        tmp[c].members = Part(Lists[job[p].got], c) \ job[p].left /\ job[p].left = {}
  BY <1>1 DEF IndexInv, TmpOfWriter
<1>6. IndexInv'
  <2> HIDE DEF j
  <2>1. ~overlapped =>
          /\ tmp'[j.cur].members = Part(Lists[j.got], j.cur) \ j.left
          /\ j.left = {}
          /\ tmp'[j.cur].life = TTL \/ tmp'[j.cur] = NoSet
    BY <1>3, <1>4, <1>5
  <2>2. \A d \in Indexes : d # job[p].cur => tmp'[d] = tmp[d]
    BY <1>4
  <2>3. UNCHANGED <<kind, overlapped>> /\ Writing(p) /\ job' = [job EXCEPT ![p] = j]
        /\ j.cur = job[p].cur
    BY <1>1, <1>3
  <2>4. QED
    BY <2>1, <2>2, <2>3, WriterStep
<1>7. QED
  BY <1>1, <1>6, WholeFrame DEF IndexWhole

LEMMA RenameWhole ==
  ASSUME TypeOK, IndexInv, IndexWhole, NEW p \in Proc, Rename(p)
  PROVE  IndexInv' /\ IndexWhole'
<1>1. /\ UNCHANGED <<kind, cache, overlapped>> /\ job[p].step = "renaming" /\ Writing(p)
      /\ \/ UNCHANGED <<tmp, index>>
         \/ /\ tmp[job[p].cur] # NoSet
            /\ index' = [index EXCEPT ![job[p].cur] = tmp[job[p].cur]]
            /\ tmp' = [tmp EXCEPT ![job[p].cur] = NoSet]
      /\ job' = [job EXCEPT ![p] =
           IF job[p].todo = {} THEN Idle ELSE [job[p] EXCEPT !.step = "indexing", !.cur = All]]
  BY DEF Rename, world, Writing, InPipeline
<1> DEFINE c == job[p].cur
           j == IF job[p].todo = {} THEN Idle ELSE [job[p] EXCEPT !.step = "indexing", !.cur = All]
<1>2. c \in Indexes /\ job[p] \in Jobs
  BY JobsOK DEF JobOK, Jobs
<1>3. job' = [job EXCEPT ![p] = j] /\ j.step \notin InPipeline
  <2>1. Idle.step = "idle"
    BY DEF Idle
  <2>2. [job[p] EXCEPT !.step = "indexing", !.cur = All].step = "indexing"
    BY <1>2 DEF Jobs
  <2>3. QED
    BY <1>1, <2>1, <2>2 DEF InPipeline
<1>4. \A d \in Indexes : d # c => tmp'[d] = tmp[d] /\ index'[d] = index[d]
  BY <1>1, <1>2 DEF TypeOK
<1>5. IndexInv'
  <2> HIDE DEF j
  <2>1. \A d \in Indexes : d # job[p].cur => tmp'[d] = tmp[d]
    BY <1>4
  <2>2. UNCHANGED <<kind, overlapped>> /\ Writing(p) /\ job' = [job EXCEPT ![p] = j]
        /\ j.step \notin InPipeline
    BY <1>1, <1>3
  <2>3. QED
    BY <2>1, <2>2, WriterStep
<1>6. ASSUME ~overlapped
      PROVE  index'[c].members \in Wholes(c) /\ (index'[c].members # {} => index'[c].life > 0)
  <2>1. CASE UNCHANGED <<tmp, index>>
    BY <1>2, <1>6, <2>1 DEF IndexWhole
  <2>2. CASE index' = [index EXCEPT ![c] = tmp[c]] /\ tmp[c] # NoSet
    <3>1. /\ tmp[c].members = Part(Lists[job[p].got], c)
          /\ tmp[c].life = TTL
      <4>1. TmpOfWriter /\ Writing(p) /\ job[p].step = "renaming"
        BY <1>1, <1>6 DEF IndexInv
      <4>2. /\ tmp[c].members = Part(Lists[job[p].got], c) \ job[p].left /\ job[p].left = {}
            /\ tmp[c].life = TTL \/ tmp[c] = NoSet
        BY <4>1 DEF TmpOfWriter
      <4>3. QED
        BY <2>2, <4>2
    <3>2. job[p].got \in Versions
      BY <1>1, GotVersion
    <3>3. index'[c] = tmp[c]
      BY <1>2, <2>2 DEF TypeOK
    <3>4. QED
      <4>1. Part(Lists[job[p].got], c) \in Wholes(c)
        BY <3>2, PartIsWhole
      <4>2. TTL > 0
        BY RegistryAssumption
      <4>3. QED
        BY <3>1, <3>3, <4>1, <4>2
  <2>3. QED
    BY <1>1, <2>1, <2>2
<1>7. IndexWhole'
  <2> SUFFICES ASSUME ~overlapped'
               PROVE  /\ \A d \in Indexes : /\ index'[d].members \in Wholes(d)
                                            /\ index'[d].members # {} => index'[d].life > 0
                      /\ \A q \in Proc : cache'[q] \in Wholes(Mine(q))
    BY <1>1, KindKept DEF IndexWhole, Indexes
  <2>1. \A q \in Proc : cache'[q] \in Wholes(Mine(q))
    BY <1>1 DEF IndexWhole
  <2>2. ASSUME NEW d \in Indexes
        PROVE  index'[d].members \in Wholes(d) /\ (index'[d].members # {} => index'[d].life > 0)
    <3>1. CASE d = c
      BY <1>1, <1>6, <3>1
    <3>2. CASE d # c
      BY <1>1, <1>4, <3>2 DEF IndexWhole
    <3>3. QED
      BY <3>1, <3>2
  <2>3. QED
    BY <2>1, <2>2
<1>8. QED
  BY <1>5, <1>7

LEMMA SyncWhole ==
  ASSUME TypeOK, IndexInv, IndexWhole, NEW p \in Proc, Sync(p)
  PROVE  IndexInv' /\ IndexWhole'
<1>1. /\ UNCHANGED <<kind, index, tmp, job, overlapped>>
      /\ cache' = [cache EXCEPT ![p] = index[Mine(p)].members]
  BY DEF Sync, world, redis
<1>2. ~overlapped => \A q \in Proc : cache'[q] \in Wholes(Mine(q))
  BY <1>1, IndexOfEntry DEF IndexWhole, TypeOK
<1>3. QED
  BY <1>1, <1>2, WritersFrame, WholeFrame

LEMMA CrashWhole ==
  ASSUME TypeOK, IndexInv, IndexWhole, NEW p \in Proc, Crash(p)
  PROVE  IndexInv' /\ IndexWhole'
<1>1. /\ UNCHANGED <<kind, index, tmp, overlapped>>
      /\ cache' = [cache EXCEPT ![p] = {}] /\ job' = [job EXCEPT ![p] = Idle]
  BY DEF Crash
<1>2. Idle.step = "idle"
  BY DEF Idle
<1>3. \A q \in Proc : job'[q] = job[q] \/ job'[q].step \notin InPipeline
  BY <1>1, <1>2, OthersKeepJobs DEF InPipeline
<1>4. ~overlapped => \A q \in Proc : cache'[q] \in Wholes(Mine(q))
  BY <1>1 DEF IndexWhole, TypeOK, Wholes
<1>5. QED
  BY <1>1, <1>3, <1>4, WritersFrame, WholeFrame

LEMMA TickWhole ==
  ASSUME TypeOK, IndexInv, IndexWhole, Tick
  PROVE  IndexInv' /\ IndexWhole'
<1>1. UNCHANGED <<kind, cache, job, overlapped>> /\ index' = [c \in Indexes |-> Aged(index[c])]
  BY DEF Tick
<1>2. \A q \in Proc : ~Writing(q)'
  <2>1. Idle.step = "idle"
    BY DEF Idle
  <2>2. QED
    BY <1>1, <2>1 DEF Tick, Writing, InPipeline
<1>3. IndexInv'
  BY <1>2 DEF IndexInv, OneWriter, TmpOfWriter
<1>4. ~overlapped =>
        \A c \in Indexes : /\ index'[c].members \in Wholes(c)
                           /\ index'[c].members # {} => index'[c].life > 0
  <2>1. \A c \in Indexes : /\ index'[c].members \in {index[c].members, {}}
                           /\ index'[c].members # {} /\ index[c].life > 0 => index'[c].life > 0
    BY <1>1, AgedOK DEF TypeOK
  <2>2. QED
    BY <2>1 DEF IndexWhole, Wholes
<1>5. IndexWhole'
  BY <1>1, <1>4, KindKept DEF IndexWhole, Indexes
<1>6. QED
  BY <1>3, <1>5

LEMMA StepWhole ==
  TypeOK /\ IndexInv /\ IndexWhole /\ [Next]_vars => IndexInv' /\ IndexWhole'
<1> SUFFICES ASSUME TypeOK, IndexInv, IndexWhole, [Next]_vars PROVE IndexInv' /\ IndexWhole'
  OBVIOUS
<1>1. ASSUME NEW p \in Proc, Refresh(p) PROVE IndexInv' /\ IndexWhole'
  BY <1>1, BeginRefreshWhole, RegisterWhole, DelTmpWhole, AddWhole, ExpireWhole, RenameWhole
     DEF Refresh
<1>2. CASE UNCHANGED vars \/ Publish \/ \E x \in {"http", "redis"} : Break(x)
  <2>1. UNCHANGED <<kind, index, tmp, cache, job, overlapped>>
    BY <1>2 DEF vars, world, redis, Publish, Break
  <2>2. QED
    BY <2>1, WritersFrame, WholeFrame DEF IndexWhole
<1>3. QED
  BY <1>1, <1>2, SyncWhole, CrashWhole, TickWhole DEF Next

\* The inductive invariant: an index that nobody else has been writing at the
\* same time has one writer, whose temporary key holds what it has added so far.
THEOREM RegistryInvariant == Spec => []RegistryInv
<1>1. Init => RegistryInv
  BY InitTypes, InitWhole DEF RegistryInv
<1>2. RegistryInv /\ [Next]_vars => RegistryInv'
  BY StepTypes, StepWhole DEF RegistryInv
<1>3. QED
  BY <1>1, <1>2, PTL DEF Spec

\* Whatever breaks, in the middle of whatever pipeline: the indexes and the copies
\* are whole, and every index expires, unless two processes have been writing one
\* index at a time (allowlist.go:210-235, 449-470; gdc.go:256-277).
THEOREM IndexesStayWhole == Spec => []IndexWhole
<1>1. RegistryInv => IndexWhole
  BY DEF RegistryInv
<1>2. QED
  BY <1>1, RegistryInvariant, PTL

-----------------------------------------------------------------------------
(* Keys that are renewed in time.                                          *)

Kept == {k \in Entries : \A v \in Versions : k \in Lists[v]}

\* A key has at least what trouble may last to live, and what its sentinel has
\* to run on top of it; once a process has had its tick in a unit of time in
\* which nothing went wrong, a unit more.
KeptLong(k) ==
  /\ life[k] # Never => life[k] >= Slack - lapse
  /\ \A x \in Proc \cup {Gate} : timer[x] > 0 => life[k] >= timer[x] + Slack
  /\ \A p \in Proc :
       /\ job[p].step = "registering" /\ k \notin job[p].left => life[k] = TTL
       /\ job[p].step = "arming" => life[k] = TTL
       /\ broken = "nothing" /\ fired[p] /\ job[p].step \notin {"registering", "arming"}
            => life[k] >= Slack + 1

KeepInv == \A k \in Kept : KeptLong(k)

LEMMA SlackNat ==
  ASSUME TypeOK
  PROVE  /\ Slack \in Nat /\ lapse \in 0..Slack /\ TTL \in Nat /\ Slack + 1 <= TTL
         /\ \A k \in Entries : life[k] \in Never..TTL
         /\ \A x \in Proc \cup {Gate} : timer[x] \in 0..Sentinel
  BY RegistryAssumption DEF TypeOK, Slack, Never

LEMMA InitKeep == Init => KeepInv
<1> SUFFICES ASSUME Init, NEW k \in Kept PROVE KeptLong(k)
  BY DEF KeepInv
<1>1. Idle.step = "idle" /\ k \in Entries
  BY DEF Idle, Kept
<1>2. QED
  BY <1>1 DEF Init, KeptLong

\* Steps that leave the keys and their sentinels alone.
LEMMA KeepFrame ==
  ASSUME TypeOK, KeepInv, UNCHANGED <<kind, life, lapse, timer>>,
         broken' \in {broken, "http", "redis", "crash"},
         broken' = "nothing" => fired' = fired,
         \A q \in Proc : \/ job'[q] = job[q]
                         \/ job'[q].step \notin {"registering", "arming"} /\ broken' # "nothing"
                         \/ /\ job[q].step \notin {"registering", "arming"}
                            /\ job'[q].step \notin {"registering", "arming"}
  PROVE  KeepInv'
<1> SUFFICES ASSUME NEW k \in Kept PROVE KeptLong(k)'
  BY DEF KeepInv, Kept
<1>1. KeptLong(k)
  BY DEF KeepInv
<1>2. Slack' = Slack
  BY DEF Slack
<1>3. ASSUME NEW q \in Proc
      PROVE  /\ job'[q].step = "registering" /\ k \notin job'[q].left => life[k] = TTL
             /\ job'[q].step = "arming" => life[k] = TTL
             /\ broken' = "nothing" /\ fired'[q] /\ job'[q].step \notin {"registering", "arming"}
                  => life[k] >= Slack + 1
  BY <1>1 DEF KeptLong
<1>4. QED
  BY <1>1, <1>2, <1>3 DEF KeptLong

LEMMA BeginRefreshKeep ==
  ASSUME TypeOK, KeepInv, NEW p \in Proc, BeginRefresh(p)
  PROVE  KeepInv'
<1>1. /\ UNCHANGED <<kind, broken, life, lapse, timer>> /\ job[p] = Idle
      /\ fired' = [fired EXCEPT ![p] = TRUE]
  BY DEF BeginRefresh, world
<1> DEFINE j == [Idle EXCEPT !.step = "registering", !.got = list, !.left = Lists[list]]
<1>2. j.step = "registering" /\ j.left = Lists[list] /\ Idle.step = "idle"
  BY DEF Idle
<1>3. /\ \A q \in Proc : q # p => job'[q] = job[q] /\ fired'[q] = fired[q]
      /\ \/ job'[p] = j
         \/ job'[p] = Idle /\ (broken = "http" \/ timer[TimerOf(p)] > 0)
  <2> HIDE DEF j
  <2>1. \A q \in Proc : q # p => fired'[q] = fired[q]
    BY <1>1 DEF TypeOK
  <2>2. CASE Skip(p)
    BY <1>1, <2>1, <2>2 DEF Skip, Due
  <2>3. CASE FallBack(p)
    BY <1>1, <2>1, <2>3 DEF FallBack
  <2>4. CASE Download(p)
    <3>1. job' = [job EXCEPT ![p] = j]
      BY <2>4 DEF Download, j
    <3>2. QED
      BY <2>1, <3>1, OthersKeepJobs
  <2>5. QED
    BY <2>2, <2>3, <2>4 DEF BeginRefresh
<1> SUFFICES ASSUME NEW k \in Kept PROVE KeptLong(k)'
  BY DEF KeepInv, Kept
<1>4. KeptLong(k) /\ k \in Lists[list] /\ k \in Entries
  BY DEF KeepInv, Kept, TypeOK
<1>5. Slack' = Slack
  BY <1>1 DEF Slack
<1>6. job'[p] = Idle /\ broken = "nothing" => life[k] >= Slack + 1
  <2>1. TimerOf(p) \in Proc \cup {Gate}
    BY IndexOfEntry
  <2>2. timer[TimerOf(p)] > 0 => life[k] >= timer[TimerOf(p)] + Slack
    BY <1>4, <2>1 DEF KeptLong
  <2>3. timer[TimerOf(p)] > 0 => life[k] >= Slack + 1
    BY <1>4, <2>1, <2>2, SlackNat DEF Never
  <2>4. job'[p] = Idle => broken = "http" \/ timer[TimerOf(p)] > 0
    <3>1. j # Idle
      BY <1>2
    <3>2. QED
      BY <1>3, <3>1
  <2>5. QED
    BY <2>3, <2>4
<1>7. ASSUME NEW q \in Proc
      PROVE  /\ job'[q].step = "registering" /\ k \notin job'[q].left => life[k] = TTL
             /\ job'[q].step = "arming" => life[k] = TTL
             /\ broken' = "nothing" /\ fired'[q] /\ job'[q].step \notin {"registering", "arming"}
                  => life[k] >= Slack + 1
  <2> HIDE DEF j
  <2>1. CASE q = p
    BY <1>1, <1>2, <1>3, <1>4, <1>6, <2>1
  <2>2. CASE q # p
    BY <1>1, <1>3, <1>4, <2>2 DEF KeptLong
  <2>3. QED
    BY <2>1, <2>2
<1>8. QED
  BY <1>1, <1>4, <1>5, <1>7 DEF KeptLong

LEMMA RegisterKeep ==
  ASSUME TypeOK, KeepInv, NEW p \in Proc, Register(p)
  PROVE  KeepInv'
<1>1. UNCHANGED <<kind, broken, lapse, timer, fired>> /\ job[p].step = "registering"
  BY DEF Register, world, redis
<1>2. PICK T \in Chunks(job[p].left) :
        \/ /\ life' = [k \in Entries |-> IF k \in T THEN TTL ELSE life[k]]
           /\ job' = [job EXCEPT ![p].left = @ \ T,
                                 ![p].step = IF T = job[p].left THEN "arming" ELSE @]
        \/ /\ broken = "redis"
           /\ \E done \in SUBSET T : life' = [k \in Entries |-> IF k \in done THEN TTL ELSE life[k]]
           /\ job' = [job EXCEPT ![p] = Indexing(job[p])]
  BY DEF Register, Redis
<1> SUFFICES ASSUME NEW k \in Kept PROVE KeptLong(k)'
  BY DEF KeepInv, Kept
<1>3. KeptLong(k) /\ k \in Entries
  BY DEF KeepInv, Kept
<1>4. life'[k] \in {life[k], TTL} /\ (k \in T /\ broken # "redis" => life'[k] = TTL)
  BY <1>2, <1>3
<1>5. Slack' = Slack
  BY <1>1 DEF Slack
<1>6. \A q \in Proc : q # p => job'[q] = job[q]
  BY <1>2 DEF TypeOK
<1>7. \/ /\ job'[p].left = job[p].left \ T
         /\ job'[p].step = IF T = job[p].left THEN "arming" ELSE "registering"
         /\ k \in T => life'[k] = TTL
      \/ broken = "redis" /\ job'[p].step = "indexing"
  <2>1. CASE life' = [e \in Entries |-> IF e \in T THEN TTL ELSE life[e]]
             /\ job' = [job EXCEPT ![p].left = @ \ T,
                                   ![p].step = IF T = job[p].left THEN "arming" ELSE @]
    <3>1. job'[p].left = job[p].left \ T
          /\ job'[p].step = IF T = job[p].left THEN "arming" ELSE "registering"
      BY <1>1, <2>1 DEF TypeOK, Jobs
    <3>2. k \in T => life'[k] = TTL
      BY <1>3, <2>1
    <3>3. QED
      BY <3>1, <3>2
  <2>2. CASE broken = "redis" /\ job' = [job EXCEPT ![p] = Indexing(job[p])]
    <3>1. Indexing(job[p]).step = "indexing"
      BY DEF TypeOK, Jobs, Indexing
    <3>2. QED
      BY <2>2, <3>1, OthersKeepJobs
  <2>3. QED
    BY <1>2, <2>1, <2>2
<1>8. ASSUME NEW q \in Proc
      PROVE  /\ job'[q].step = "registering" /\ k \notin job'[q].left => life'[k] = TTL
             /\ job'[q].step = "arming" => life'[k] = TTL
             /\ broken' = "nothing" /\ fired'[q] /\ job'[q].step \notin {"registering", "arming"}
                  => life'[k] >= Slack + 1
  <2>1. CASE q = p
    <3>1. job[p].step = "registering" /\ k \notin job[p].left => life[k] = TTL
      BY <1>3 DEF KeptLong
    <3>2. k \in T \/ k \in job[p].left \ T \/ life'[k] = TTL
      BY <1>1, <1>4, <3>1
    <3>3. QED
      BY <1>1, <1>7, <2>1, <3>2
  <2>2. CASE q # p
    <3>1. /\ job[q].step = "registering" /\ k \notin job[q].left => life[k] = TTL
          /\ job[q].step = "arming" => life[k] = TTL
          /\ broken = "nothing" /\ fired[q] /\ job[q].step \notin {"registering", "arming"}
               => life[k] >= Slack + 1
      BY <1>3 DEF KeptLong
    <3>2. QED
      BY <1>1, <1>4, <1>6, <2>2, <3>1, SlackNat
  <2>3. QED
    BY <2>1, <2>2
<1>9. life'[k] # Never => life'[k] >= Slack - lapse
  <2>1. life[k] # Never => life[k] >= Slack - lapse
    BY <1>3 DEF KeptLong
  <2>2. QED
    BY <1>3, <1>4, <2>1, SlackNat DEF Never
<1>10. ASSUME NEW x \in Proc \cup {Gate}, timer[x] > 0
       PROVE  life'[k] >= timer[x] + Slack
  <2>1. life[k] >= timer[x] + Slack
    BY <1>3, <1>10 DEF KeptLong
  <2>2. QED
    BY <1>3, <1>4, <2>1, SlackNat DEF Never
<1>11. QED
  BY <1>1, <1>5, <1>8, <1>9, <1>10 DEF KeptLong

LEMMA ArmKeep ==
  ASSUME TypeOK, KeepInv, NEW p \in Proc, Arm(p)
  PROVE  KeepInv'
<1>1. /\ UNCHANGED <<kind, broken, life, lapse, fired>> /\ job[p].step = "arming"
      /\ job' = [job EXCEPT ![p] = Indexing(job[p])]
      /\ \/ timer' = timer
         \/ \E w \in 1..(IF kind = "topic" THEN Sentinel ELSE 1) :
              timer' = [timer EXCEPT ![TimerOf(p)] = w]
  BY DEF Arm, world
<1> SUFFICES ASSUME NEW k \in Kept PROVE KeptLong(k)'
  BY DEF KeepInv, Kept
<1>2. KeptLong(k) /\ k \in Entries /\ life[k] = TTL
  BY <1>1 DEF KeepInv, Kept, KeptLong
<1>3. Slack' = Slack
  BY <1>1 DEF Slack
<1>4. job'[p].step = "indexing" /\ \A q \in Proc : q # p => job'[q] = job[q]
  <2>1. Indexing(job[p]).step = "indexing"
    BY DEF TypeOK, Jobs, Indexing
  <2>2. QED
    BY <1>1, <2>1, OthersKeepJobs
<1>5. ASSUME NEW x \in Proc \cup {Gate}, timer'[x] > 0
      PROVE  life[k] >= timer'[x] + Slack
  <2>1. CASE timer'[x] = timer[x]
    BY <1>2, <1>5, <2>1 DEF KeptLong
  <2>2. CASE timer'[x] # timer[x]
    <3>1. PICK w \in 1..(IF kind = "topic" THEN Sentinel ELSE 1) :
            timer' = [timer EXCEPT ![TimerOf(p)] = w]
      BY <1>1, <2>2
    <3>2. timer'[x] = w
      BY <2>2, <3>1 DEF TypeOK
    <3>3. w + Slack <= TTL
      BY RegistryAssumption DEF Slack
    <3>4. QED
      BY <1>2, <3>2, <3>3
  <2>3. QED
    BY <2>1, <2>2
<1>6. ASSUME NEW q \in Proc
      PROVE  /\ job'[q].step = "registering" /\ k \notin job'[q].left => life[k] = TTL
             /\ job'[q].step = "arming" => life[k] = TTL
             /\ broken' = "nothing" /\ fired'[q] /\ job'[q].step \notin {"registering", "arming"}
                  => life[k] >= Slack + 1
  BY <1>2, SlackNat
<1>7. QED
  BY <1>1, <1>2, <1>3, <1>5, <1>6 DEF KeptLong

\* From there on a refresh only touches indexes.
LEMMA WriteIndexKeep ==
  ASSUME TypeOK, KeepInv, NEW p \in Proc,
         DelTmp(p) \/ Add(p) \/ Expire(p) \/ Rename(p) \/ BreakPipeline(p)
  PROVE  KeepInv'
<1>1. UNCHANGED <<kind, broken, life, lapse, timer, fired>>
  BY DEF DelTmp, Add, Expire, Rename, BreakPipeline, world, redis
<1>2. job[p].step \in InPipeline \cup {"indexing"}
  BY DEF DelTmp, Add, Expire, Rename, BreakPipeline, InPipeline
<1>3. /\ job'[p].step \in InPipeline \cup {"indexing", "idle"}
      /\ \A q \in Proc : q # p => job'[q] = job[q]
  <2>1. job[p] \in Jobs /\ Idle.step = "idle"
    BY DEF TypeOK, Idle
  <2>2. CASE DelTmp(p)
    <3>1. PICK c \in job[p].todo :
            job' = [job EXCEPT ![p] = [job[p] EXCEPT !.step = "adding", !.todo = @ \ {c},
                                       !.cur = c, !.left = Part(Lists[job[p].got], c)]]
      BY <2>2 DEF DelTmp
    <3>2. QED
      BY <2>1, <3>1 DEF TypeOK, Jobs, InPipeline
  <2>3. CASE Add(p)
    <3>1. PICK T \in Chunks(job[p].left) :
            job' = [job EXCEPT ![p].left = @ \ T,
                               ![p].step = IF T = job[p].left THEN "expiring" ELSE @]
      BY <2>3 DEF Add
    <3>2. QED
      BY <1>2, <2>1, <3>1 DEF TypeOK, Jobs, InPipeline
  <2>4. CASE Expire(p)
    BY <2>1, <2>4 DEF Expire, TypeOK, Jobs, InPipeline
  <2>5. CASE Rename(p)
    <3>1. job' = [job EXCEPT ![p] =
            IF job[p].todo = {} THEN Idle ELSE [job[p] EXCEPT !.step = "indexing", !.cur = All]]
      BY <2>5 DEF Rename
    <3>2. [job[p] EXCEPT !.step = "indexing", !.cur = All].step = "indexing"
      BY <2>1 DEF Jobs
    <3>3. QED
      BY <2>1, <3>1, <3>2, OthersKeepJobs
  <2>6. CASE BreakPipeline(p)
    BY <2>1, <2>6, OthersKeepJobs DEF BreakPipeline
  <2>7. QED
    BY <2>2, <2>3, <2>4, <2>5, <2>6
<1>4. QED
  BY <1>1, <1>2, <1>3, KeepFrame DEF InPipeline

LEMMA CrashKeep ==
  ASSUME TypeOK, KeepInv, NEW p \in Proc, Crash(p)
  PROVE  KeepInv'
<1>1. /\ UNCHANGED <<kind, life, lapse, fired>> /\ broken' = "crash"
      /\ job' = [job EXCEPT ![p] = Idle] /\ timer' = [timer EXCEPT ![p] = 0]
  BY DEF Crash
<1> SUFFICES ASSUME NEW k \in Kept PROVE KeptLong(k)'
  BY DEF KeepInv, Kept
<1>2. KeptLong(k)
  BY DEF KeepInv
<1>3. Slack' = Slack /\ Idle.step = "idle"
  BY <1>1 DEF Slack, Idle
<1>4. \A q \in Proc : job'[q] = job[q] \/ job'[q].step = "idle"
  BY <1>1, <1>3, OthersKeepJobs
<1>5. \A x \in Proc \cup {Gate} : timer'[x] > 0 => timer'[x] = timer[x]
  BY <1>1 DEF TypeOK
<1>6. QED
  BY <1>1, <1>2, <1>3, <1>4, <1>5 DEF KeptLong

LEMMA TickKeep ==
  ASSUME TypeOK, KeepInv, Tick
  PROVE  KeepInv'
<1>1. /\ kind' = kind /\ job' = job /\ fired' = [p \in Proc |-> FALSE]
      /\ life' = [k \in Entries |-> Less(life[k])]
      /\ timer' = [x \in Proc \cup {Gate} |-> Less(timer[x])]
      /\ lapse' = IF broken = "nothing" THEN 0 ELSE IF lapse < Slack THEN lapse + 1 ELSE lapse
      /\ \A p \in Proc : job[p] = Idle /\ fired[p]
  BY DEF Tick
<1> SUFFICES ASSUME NEW k \in Kept PROVE KeptLong(k)'
  BY DEF KeepInv, Kept
<1>2. KeptLong(k) /\ k \in Entries
  BY DEF KeepInv, Kept
<1>3. Slack' = Slack /\ Idle.step = "idle"
  BY <1>1 DEF Slack, Idle
<1>4. broken = "nothing" => life[k] >= Slack + 1
  BY <1>1, <1>2, <1>3, RegistryAssumption DEF KeptLong
<1>5. life'[k] = Less(life[k]) /\ life[k] \in Never..TTL
  BY <1>1, <1>2, SlackNat
<1>6. life'[k] # Never => life'[k] >= Slack - lapse'
  <2>1. life[k] # Never => life[k] >= Slack - lapse
    BY <1>2 DEF KeptLong
  <2>2. Slack \in Nat /\ lapse \in 0..Slack
    BY SlackNat
  <2>3. CASE broken = "nothing"
    BY <1>1, <1>4, <1>5, <2>2, <2>3, RegistryAssumption DEF Less, Never
  <2>4. CASE broken # "nothing"
    BY <1>1, <1>5, <2>1, <2>2, <2>4, RegistryAssumption DEF Less, Never
  <2>5. QED
    BY <2>3, <2>4
<1>7. ASSUME NEW x \in Proc \cup {Gate}, timer'[x] > 0
      PROVE  life'[k] >= timer'[x] + Slack
  <2>1. timer'[x] = Less(timer[x]) /\ timer[x] \in 0..Sentinel
    BY <1>1, SlackNat
  <2>2. timer[x] > 1 /\ timer'[x] = timer[x] - 1
    BY <1>7, <2>1, RegistryAssumption DEF Less
  <2>3. life[k] >= timer[x] + Slack
    BY <1>2, <2>1, <2>2, RegistryAssumption DEF KeptLong
  <2>4. Slack \in Nat
    BY SlackNat
  <2>5. QED
    BY <1>5, <2>1, <2>2, <2>3, <2>4, RegistryAssumption DEF Less, Never
<1>8. \A p \in Proc : ~fired'[p] /\ job'[p].step = "idle"
  BY <1>1, <1>3
<1>9. QED
  BY <1>3, <1>6, <1>7, <1>8 DEF KeptLong

LEMMA StepKeep == TypeOK /\ KeepInv /\ [Next]_vars => KeepInv'
<1> SUFFICES ASSUME TypeOK, KeepInv, [Next]_vars PROVE KeepInv'
  OBVIOUS
<1>1. ASSUME NEW p \in Proc, Refresh(p) PROVE KeepInv'
  BY <1>1, BeginRefreshKeep, RegisterKeep, ArmKeep, WriteIndexKeep DEF Refresh
<1>2. CASE \/ UNCHANGED vars \/ Publish \/ \E x \in {"http", "redis"} : Break(x)
           \/ \E p \in Proc : Sync(p)
  <2>1. UNCHANGED <<kind, life, lapse, timer, job, fired>> /\ broken' \in {broken, "http", "redis"}
    BY <1>2 DEF vars, world, redis, Publish, Break, Sync
  <2>2. QED
    BY <2>1, KeepFrame
<1>3. QED
  BY <1>1, <1>2, CrashKeep, TickKeep DEF Next

\* An entry that is in every version of the list, and has been registered, stays
\* registered until something has gone wrong for Slack units in a row, for any
\* lives of keys and sentinels: the keys must outlive the longest sentinel by the
\* longest outage (allowlist.go:245-283, 335-352; gdc.go:97-115).
THEOREM KeysRenewedInTime == Spec => []KeptAnswered
<1>1. Init => TypeOK /\ KeepInv
  BY InitTypes, InitKeep
<1>2. TypeOK /\ KeepInv /\ [Next]_vars => (TypeOK /\ KeepInv)'
  BY StepTypes, StepKeep
<1>3. TypeOK /\ KeepInv => KeptAnswered
  <2> SUFFICES ASSUME TypeOK, KeepInv, NEW k \in Kept, lapse < Slack
               PROVE  life[k] # 0
    BY DEF KeptAnswered, Kept
  <2>1. k \in Entries /\ (life[k] # Never => life[k] >= Slack - lapse)
    BY DEF KeepInv, KeptLong, Kept
  <2>2. QED
    BY <2>1, SlackNat DEF Never
<1>4. QED
  BY <1>1, <1>2, <1>3, PTL DEF Spec

=============================================================================
