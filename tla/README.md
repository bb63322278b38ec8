# TLA+ for the WIS2 Global Broker antiloop

The antiloop program (`src/go/source`) subscribes to the MQTT brokers of one
WIS2 centre, checks every notification, discards what has been seen before and
republishes the rest to the brokers of this Global Broker. Two or more
instances run per centre. They share a Redis; at any time one of them is meant
to be primary and publish, while the others hold the same messages back so that
a fail-over loses nothing.

This directory models the part of the program whose correctness depends on the
order in which things happen: the queue gate, the election, the deduplication,
the fail-over they make together, the way messages and role or connection
changes meet inside one instance, the subscriber's fail-over to a backup broker,
the two registries and the schemas that all processes share through Redis, what
the checks decide about a message, and how an instance comes up, goes down,
records its role and follows its debug file. TLC checks small instances and
TLAPS proves every safety property that the runs check, for every value of the
constants. Paths
below are relative to `src/go/source`.

## 1. The system

| Component | State | Operations | Shared with / called by |
|---|---|---|---|
| Gate `internal/gate` | `state`, `queue` behind one mutex | `Handle`, `Open`, `Queue`, `Len` | pipeline and publisher each own one; called from MQTT, election and connection goroutines |
| Pipeline `internal/relay` | `isPrimary`, `pubConnected` behind `gateMu`; a gate; one goroutine per dispatched message | `HandleMessage`, `SetPrimary`, `SetPubConnected`, `process` | everything else |
| Election `internal/election` | `isPrimary`, `announced`; a Redis hash uuid → timestamp | `Run`, `tick`, `evaluate` | all instances of a centre through Redis; `onChange` calls `SetPrimary` |
| Dedup `internal/dedup` | `reqCh`, `flushSem`, the collector's batch and timer; one Redis key per id with a TTL | `Seen`, `batchLoop`, `flush` | `process` of all instances through Redis |
| Publisher `internal/mqttbroker` | one connection per target; a gate | `AnyConnected`, `Publish`, `publishNow`, `drainOne` | `process`; the MQTT library's callbacks |
| Subscriber, backup fail-over `internal/mqttbroker` | `backupFailover`'s two timers and flags; backup connections | `primaryUp`, `primaryDown`, `activateBackup`, `deactivateBackup` | the MQTT library's callbacks and `time.AfterFunc` |
| Topic and GDC registries `internal/allowlist` | in-memory sets; Redis registry, index, refresh sentinel or fleet-wide gate | `Refresh`, `writeRegistry`, `writeIndex`, `syncFromIndex`, `Has` | all processes through Redis; `process` |
| Fetch cache, WNM validator `internal/fetchcache`, `internal/wnm` | compiled schemas; cached body in Redis | `Fetch`, `Refresh`, `Validate` | registries and pipeline |
| Topic check, monitoring events `internal/topics`, `internal/monitor` | none | `Check`, `DataTopicOf`, `NeedsRelCheck`, `ClassifySchemaError`, `report` | pipeline |
| main `cmd/antiloop` | `publisher`, `pipeline`, the context; the record of roles in Redis; `debugFlag` | start-up and shutdown order, `/inject`, the role audit, `reloadFile`; heartbeat, read-only HTTP | everything |
| Traefik file `internal/traefik` | one file per centre | `Register`, `Deregister` | main |
| `wis2nodes` | none | shows the record of roles; `-del` | Redis |
| Configuration, environment file, metrics, Redis client | parsed once, or write-only | - | - |

How they meet. A message goes from an MQTT callback (or `/inject`) into
`HandleMessage`, through the pipeline's gate, and, when that gate is open, into
a goroutine of its own running `process`: checks, `Dedup.Seen`,
`Publisher.Publish`. The pipeline's gate is to be open when the instance is
primary *and* some publish broker is connected; two independent groups of
goroutines (the election client, and the connection callbacks) report these two
facts. The publisher has a second gate, for what reaches `Publish` while no
broker is connected. Instances never talk to each other directly. All they
share is in Redis: the election's hash and the dedup keys of a centre, and, with
the whole fleet, the registries with their indexes, the cached bodies and the
record of roles.

### What is hard here, and what makes it correct

*Gate.* The mutex covers a decision and not the forwarding that follows, so
`Handle`, `Open`, `Queue` and `Len` interleave. Correct means: an open gate
holds nothing; nothing is lost or forwarded twice; overlapping `Open` calls
take disjoint, consecutive stretches; only what is still fresh is drained, and
only what is expired is evicted.

*Fail-over.* Two gates, two roles that change independently and possibly
overlap, a shared set of keys with a TTL, crashes and Redis errors. Correct
means: no two copies of an id both pass dedup within the TTL, a backlog never
republishes what the primary published, no role change loses a message, and no
id is consumed by an instance that does not go on to publish.

*Election.* Every tick is a sequence of separate Redis commands; a prune is
based on what was read earlier; clocks differ; any command can fail. Correct
means: two primaries, or none, are transient, with a bound; once Redis is
reachable the lowest uuid is the only primary and stays so.

*Dedup.* A request passes a channel, a batch that two events can send off, a
semaphore and a pipeline whose commands may each fail. Correct means: to its
callers `Seen` is one atomic check-and-mark, and every call is answered. The Redis
client resends what got no reply, so the check may be made again and find the mark
that this very call has left.

*Gate control and delivery.* Callbacks run in goroutines of their own and are
not ordered. Correct means: both gates end up where the role and the
connections say, a message is in one goroutine's hands at a time, and nothing
is stranded.

*Backup fail-over.* A timer that has fired cannot be stopped, only be beaten to
the mutex, and may clear the pointer to a newer timer; a connect is reported
only once subscribed, perhaps after the loss that followed it. Correct means:
the backup moves only after a full minute, and ends up connected exactly when
the primary is out of service.

*Registries.* Every process fetches the same list when its sentinel has run
out, and all of them write it to the same keys in pipelines that are no
transactions, through one temporary key per index. Correct means: readers see
a whole index or an older whole one, never a fragment or one without a life;
keys are renewed before they lapse; and after any trouble everybody comes to
accept exactly the published list.

*Schemas.* A body is cached for the fleet before anyone has compiled it, and a
refresh of two schemas may fail half way. Correct means: what is loaded stays
loaded, and a process that starts in an outage gets its schemas from the cache
when a good body is there.

*Checks.* Five checks with three options each, any of which may be off, and
schemas that arrive in the middle. Correct means: the verdict is a function of
the message and the options, the centre hears of every failure and of nothing
else, and a copy that is refused does not cost the id.

*Roles recorded, start, stop.* Two primaries, a dead host or a manual deletion
may leave any record; `/inject`, callbacks and signals meet a half-built or
half-closed instance. Correct means: the record heals, nothing goes through a
pipeline that is not wired, what was accepted reaches the publisher, and a message
is published once.

## 2. Modules

    GateOps ──┬── Failover ─────── MCFailover        SeenRegistry
              ├── Delivery ─────── MCDelivery             ▲ implements
              └── Gate ─────────┐                       Dedup ── MCDedup
    BackupFailover ─────────────┴─ MCGateBackup, MCBackupFailover
    Election ───────────────────── MCElection
    Registry ───────────────────── MCRegistry
    Checks, SchemaCache, RoleAudit, Lifecycle, DebugFlags ── MCInstance

    GateProofs      ElectionProofs  DeliveryProofs        RegistryProofs
    FailoverProofs  DedupProofs     BackupFailoverProofs  InstanceProofs

| Module | Models |
|---|---|
| `GateOps` | what each critical section of a gate does to `state` and `queue`, as pure operators |
| `Gate` | one gate and the goroutines that call it |
| `Failover` | the instances of a centre: role, gate and `process` goroutines of each, and the dedup keys they share |
| `SeenRegistry` | what `Seen` can promise: an atomic check-and-mark, perhaps made again, then an answer |
| `Dedup` | `NewBatched`: channel, collector, timer, semaphore, flushes |
| `Election` | the election client of every instance and the Redis hash |
| `Delivery` | one instance from `HandleMessage` to its brokers, with the goroutines that move its two gates |
| `BackupFailover` | the subscriber's primary connection, `backupFailover` and its timers |
| `Registry` | the topic and the GDC registry: every process's `Refresh` and `syncFromIndex`, and the Redis keys they share |
| `SchemaCache` | `wnm.Validator.Refresh` and `fetchcache.Fetch` of every process |
| `Checks` | what `process` decides about the copies of a message, and what it reports |
| `RoleAudit` | the hash of roles that processes write and clean, and `wis2nodes` shows and deletes |
| `Lifecycle` | `main` from listening to exit, with requests, callbacks, elections and signals |
| `DebugFlags` | `-d`, `-t` and the debug file |
| `MC*` | constants for TLC; `MCInstance` and `MCGateBackup` run one of their modules in each behaviour |
| `*Proofs` | theorems about the module of that name and their proofs; `InstanceProofs` is about the five of `MCInstance` |

### How state and actions correspond to the code

**Gate.** `gate` is `g.state` and `g.queue`. `Handle` is one action under the
lock for each outcome (`HandleOpen`, `HandleQueueing`, `HandleFull`) and
`ForwardPassing` after it; `Open` is `OpenGate` and one `ForwardDrained` per
loop iteration. Eviction is inside every action whose code evicts.

**Failover.** A *copy* is one delivery of an id to one instance; `stage[c]` is
the line its goroutine has reached. `SetPrimary` is split where the code
releases `gateMu`: `SetPrimary`, then `Promote` or `Demote`. Dedup is the
check-and-mark that `Dedup` is shown to implement: `Claim`, `DiscardSeen`, or
`DedupError`, after which the code carries on unguarded. After `ReplyLost` the id is
marked and the copy asks again; it then finds its own mark, or another that came in
between, and ends as `seenResent`, unless the key has expired.
`Crash` restarts an instance as a secondary with nothing queued. Roles are
free: the properties hold for *every* combination, two primaries included.

**Dedup.** `place[r]` says where a request is: with its caller, in `reqCh`, in
the collector's batch, in a flush, executed, or in its result channel.
`Collect` and `TimeUp` are the two cases of `batchLoop`'s select. A flush's
commands are one step each (a cluster client splits a pipeline over the nodes),
and each may not reach Redis, or be executed and lose its reply. `SendAgain` is the
client inside `Exec` (`redisconn.New` leaves its retries on), which then runs the
command once more, whatever the first one did; a command that is given up stays an
error. The abstract
variables `key`, `outcome` and `answer` are variables of `Dedup` itself, so the
refinement mapping is the identity on them.

**Election.** A tick is `BeginTick`, `Announce` (`HSET` with the time the tick
began, and `EXPIRE`), `Read` (`HGETALL`), `Decide` (cutoff, freshness,
minimum) and, if something was stale, `Prune` (`HDEL`). `FailTick` is any
command failing or the tick's context ending. A restarted program has a new
uuid, so it is another process. Time is kept as ages, so that the state space
is finite without a bound on time; ages stop growing once an announcement is
stale by every clock.

**Delivery.** `pc[k]` is what goroutine `k` does next: the callback's look at
`AnyConnected` (`Notice`), the critical section (`SetPubConnected` or
`SetPrimary`), `applyGateState` after `gateMu` has been released, the second
look (`Check`), `MovePubGate`, and the loop of `Open` (`DrainOne`). `Wire` is
main assigning `pipeline` and reporting what callbacks before that could not.
`publishNow` visits one client per step, with the connections changing in
between.

**BackupFailover.** `reports` are the callbacks that have still to call
`primaryUp` or `primaryDown`; `primaryUp` may be held up by `subscribeAll` for
as long as the connection lasts. Timers are objects apart from the pointers to
them: `timers.running` has those that have yet to fire, `timers.held` is what
`connectTimer` and `disconnectTimer` point to, `fired` are the goroutines of
timers that wait for `f.mu` (`ClearTimer`), `calling` those that have released
it and will call `activateBackup` or `deactivateBackup`.

**Registry.** `kind` says which of the two registries a behaviour is about; they
differ in who reads which index (`Mine`), whose timer suppresses a fetch
(`TimerOf`) and how long it lives. `job[p]` is where `Refresh` of process `p`
is: `BeginRefresh` (the sentinel, the fetch or its fallback, the cached body and
the process's own copy), `Register` once per pipeline of `writeRegistry`, `Arm`,
and then for each index `DelTmp`, `Add`, `Expire` and `Rename`, each of which
may be the last before the pipeline breaks (`BreakPipeline`) or the process dies
(`Crash`). Redis removes empty sets (`NoSet`) and expires keys (`Tick`).

**SchemaCache.** `FetchWNM` and `FetchWME` are the two halves of `Refresh`: each
fetches, writes what it got to Redis, and compiles; an error ends the refresh
with both old schemas in place. A fetch and its cache write are one step, as
they only concern one key that the next fetch overwrites.

**Checks.** `stage[c]` is the numbered step of `process` that copy `c` is at.
A topic, a payload and the options are records of what the code tells apart:
`Allow`, `IsData`, `NeedsRelCheck`, `Conforms`, `ClassifySchemaError` are the
functions of that name on these classes. `Load` is the validator's first
successful refresh. The properties compare with `Fails`, `Fatal` and `Reached`,
which speak of the message and not of the order of the steps.

**RoleAudit.** A write of one host is `ReadRole`, `Assert` (`HSET`), and for a
primary `CheckAge` (`HGET`) and `Remove` (`HDEL`), each of which may fail. Roles
are free, like in `Failover`. `Delete` is `wis2nodes -del`, and `RoleCell` what a row of
its table shows.

**Lifecycle.** `pc` is where `main` is: a name for each stretch between two
steps that others can notice. `Panic` is a callback that asks for connections while
`publisher` is still nil. `doing[k]` is where caller k of the gate is, main, the
election or a callback: between the look (`Ask`), the critical section
(`SetPubConnected`, `Elect`), and `applyGateState` after `gateMu` has been released. So
the gate can be left wrong here as in `Delivery`, which adds callbacks that overlap
each other. `Handle` may find the queue full, and `Expire` may evict what waits, at
any time. `ClosePublisher` disconnects the brokers without a callback, and
messages go on being processed until `CloseSubscriber`. `peer` is the other
instance's copy, and the id's key outlives the behaviour.

**DebugFlags.** `reloadFile` is `Read`, `Store`, one `Switch` for each package
whose logger is switched rather than asked, and `StoreTopics`. `mqttTopicMatch`
is a recursive function on sequences of levels, checked against `Covers`, a
definition without recursion.

## 3. Runs

| Run | Question | Result |
|---|---|---|
| `failover` | Can an id pass dedup twice within the TTL, or a backlog copy escape recognition, with crashes and Redis errors? | no |
| `failover_late` | Is a drain never a duplicate, as the comment on `Open` says? | it can be |
| `failover_live` | Is what waits in a queue published once its instance is primary, and is no id burned, without crashes and Redis faults? | yes |
| `election` | How long can anything but the lowest live uuid be primary, and does it end up primary for good? | 8 intervals; yes |
| `dedup` | Is batched `Seen` the check-and-mark of `SeenRegistry`, does it say "seen" only of what was marked, and answer every call? | yes |
| `dedup_resent` | Does it say "seen" only of what another call has marked, as its doc comment says? | no |
| `delivery` | Is a message in one place, do both gates follow role and connections, is nothing left waiting? | yes, unless callbacks overlap |
| `delivery_race` | Is the gate open exactly when both conditions hold, as the struct comment says? | no |
| `gate_backup` | Gate: is anything stranded, lost, repeated, reordered within a backlog, or drained too late? Backup: does it move only after a minute, and end up where it should be? | no; yes, if reports arrive in order |
| `backup_race` | Does it go down only when the primary has been healthy, as the doc comment says? | no |
| `registry` | Are indexes and copies whole, keys renewed in time, and does everybody come to accept the published list? | yes, unless writers overlap; yes; yes |
| `instance` | Is the verdict on a message right, is every failure reported and no id burnt; do schemas arrive and stay; does the record of roles heal; is an instance whole before it is used, does what it accepted reach the publisher, and is it published once; is logged what is asked for? | yes, but for the exceptions the properties name: overlapping callers, expiry, lost replies, lookups that the shutdown cancels |

### Bounds, and why they are enough

* `gate_backup`, gate: two goroutines that open, five arrivals, a queue of three, a clock
  that passes `maxAge` more than once. Two opens can overlap, the queue
  overflows, entries expire before, during and between drains. The theorems
  of section 5 remove the bounds for all six properties.
  Backup: nothing is bounded but the wait, five ticks, so that the connection
  changes several times while a timer runs, and a timer nobody points to any
  more runs on beside a new one. Waits of one, two and three pass as well.
  The theorems have any wait.
* `failover`: two instances and one id that reaches both, twice at one of
  them: the fewest copies with which two instances, and a drain and a live
  delivery at one instance, can compete for an id. `MaxLen = 1` makes the
  length bound bite. The clock runs past `maxAge` plus TTL. Ids do not interact
  except through room in a queue, so `failover_live` has a second one. The
  theorems remove the bounds for the two promises.
* `dedup`: two calls for one id and one for another; batches of two, so that a
  batch may fill or be timed out; a channel of one, so that a sender waits;
  every fault. Three calls make two flushes run at once. The client sends one
  command again (`MaxResends = 1`), which is enough for a call to find its own
  mark. The safety theorems hold for any number of calls and of resends.
* `election`: two processes, the interval as the unit and a window of four
  intervals, as the defaults have it (2 s and 8 s). The lowest uuid's clock is
  one interval behind, the harmful direction. `KeyExpiry` is short (the code has
  an hour) so that expiry happens. `MaxLate = 0`: a tick starts on time and may
  take up to an interval. A dead process stays dead; its announcement does not.
  The theorems have any number of processes, any clocks, lateness and windows
  that satisfy `Timing`; `LowestElected` is checked within these bounds.
* `delivery`: two brokers that come and go without bound, two callbacks at a
  time, two messages and queues of one, so each gate overflows and a drain
  meets a live message. `delivery_race` needs one of each. The theorems remove
  the bounds for all but `NothingLeftWaiting`.
* `registry`: two processes that relay for different centres; a list of two
  entries, and a second version that drops one (the only one of its centre) and
  adds one; keys that live for two refresh intervals and sentinels for one, so
  that keys lapse, sentinels run out and outages can be as long as the slack;
  pipelines of two commands. Time, outages and crashes are not bounded. Pipelines
  of one command pass the safety properties as well. One kind of trouble happens
  per unit of time, and a process that died is back in the next. The theorems
  remove the bounds for all but `AnswersSettle`.
* `instance`, `Checks`: two copies; every topic with all options at once on
  "discard" or on "verify", and every payload and every choice of options with
  three topics. The theorems have any messages, options and number of copies.
  `SchemaCache`: two processes and two restarts, URLs and Redis that fail without
  bound. `RoleAudit`: two hosts; the unit is the write interval and a field is
  fresh for four, as in the defaults (`FreshWindow` and `ELECTION_INTERVAL`);
  `Patience` of 6 is the smallest for which `AuditHealed` holds, 2 to 5 fail. The
  theorems have these three numbers and any number of hosts and processes.
  `Lifecycle`: one id, a relayed and an injected copy and the peer's; role,
  connection and callbacks change without bound, one callback at a time. `DebugFlags`:
  two edits of the file, so that a category goes on and off again; filters of
  up to three levels.

`CHECK_DEADLOCK FALSE` stands only in `MCDedup.cfg` and `MCInstance.cfg`: once
every call has been answered, a message has been checked, a process has exited
or the debug file has been read for the last time, nothing is left to do. In
all other runs roles, connections or time can always change.

### What the runs show beyond pass or fail

*Election bounds* (unit: one interval). `calm` counts how long no process has
started, died or failed a tick. After 8 intervals of that exactly the lowest
live uuid is primary (`SoonLowest`); after 7 it may not be. That is an interval
for the tick that is under way, four for the window, one of clock difference,
and one or two because `HDEL` removes the fields that were stale when the hash
was *read*, and may so delete an announcement that was refreshed in between:
that process is then taken for gone until its next tick. The window must be at
least three intervals plus the clock difference: with `Fresh = 3` both
properties hold for equal clocks and fail with one interval of skew, with
`Fresh = 2` they fail, and so they do with `Fresh = 4` and a skew of two. That is
what `Timing` says in general, under which `SoonLowest` is proved: three intervals,
the lateness of a tick and the clocks' difference fit into the window. The
defaults (2 s, and a window of 8 s, `config.go:345-346`) leave 2 s for lateness and
clock difference together, and `Settled + OldestLive` is then the 8 intervals.

*Dedup*. `redisconn` leaves the client's `MaxRetries` (and, for a cluster,
`MaxRedirects`) at the defaults, which are on. A `SETNX` whose reply is lost is sent
again, finds its own mark, and the message is dropped as seen although nobody has
published it (`dedup_resent`). What is left to hold is `SeenBecauseMarked`: "seen" is
never the answer to an error or to a command that did not run, and of a command
that was sent once it means another call. So in `Failover` it takes a
crash or a lost reply to burn an id (`BurnedOnlyByFaults`), and `NeverBurned` is checked
without either.

*Delivery*. When the last broker is lost, messages that reach `Publish` before
the callback has closed the pipeline's gate are marked as seen and then fail at
every broker, or are held in the publisher's gate; when that is full they are
dropped silently. The model allows this (`failed`, `refused`), as the code does.

*Registry*. `KeptAnswered` has the margin in it: an entry whose key lives for
`TTL` and is renewed only when a sentinel of up to `Sentinel` has run out
survives outages shorter than `TTL - Sentinel`, and for the GDC, whose gate is
over before the next tick, `TTL - 1`. `IndexWhole` has the premise that no two
processes have ever been writing one index at a time. Two of them add to each
other's half-built temporary key, and one renames what the other is still
building; the index is then a mixture, a fragment, or without a life until the
next refresh. The comment on `writeIndex` (`allowlist.go:210-216`) says that a
reader "never observes a half-written" one. `AnswersSettle` shows that it is
mended, with one exception, which it names: when a centre leaves the list its
index expires, `syncFromIndex` leaves a copy alone when it finds nothing, and a
process that finds the gate armed at every tick keeps the centre's entries, for
good, although the copy is "never the sole source of truth" (`gdc.go:137-138`).

*Instance*. The window of `RoleAudit` is wide enough for any two commands of
different hosts to change places. In `Lifecycle` a lookup that a shutdown
cancels sets `unguarded`: it is the only way to publish twice.
`AcceptedThenHandedOver` has the exceptions in it: an accepted message may reach
`maxAge`, its id may be burnt by a lost reply, and after two callers have overlapped
the gate may be left shut until somebody looks at the connections again alone
(`overlapped`; in `Delivery` it stays true once it is).

## 4. Fairness

* `Failover`: weak fairness of each copy's `process` steps and of a decision
  already taken being applied. Goroutines are scheduled by the Go runtime, and
  none of them waits for another. Arrivals, role changes, time, crashes and
  errors are never forced.
* `Dedup`: weak fairness of "some caller sends", "some command executes", and
  so on. The client gives up resending after `MaxRetries`, so a bound on resends is no
  assumption. Calls are finite, so the existential form is enough and makes no
  claim about the order in which a channel or semaphore serves its waiters.
* `Election`: every process's steps and the passing of time. Nothing forces a
  start, a crash, or Redis to come back; `LowestElected` assumes in its premise
  that it does.
* `Delivery`: every goroutine that moves a gate, `Wire`, and some message's
  next step. Connections and roles are never forced.
* `Registry`: every process's refresh and synchronisation, and time: tickers
  fire, and every call has a timeout. `AnswersSettle` assumes in its premise
  that trouble ends; nothing forces that.
* `SchemaCache`, `DebugFlags`: the ticker of each process. `Lifecycle`: the
  steps of main (the shutdown of the HTTP server is bounded by five seconds),
  of each caller on its way to the gate, of `process`, and of the peer that has
  looked an id up; no election, connection or signal is forced. `Checks` and
  `RoleAudit` have only safety properties.
* `BackupFailover`: time, callbacks, timers' goroutines. A subscription is never
  forced to be answered while its connection lasts: a broker may hang.
  Goroutines are taken to be fast compared with a tick, and the connection to
  change once per tick at most; a reconnect takes the library about a second.

## 5. Proved

Every invariant and every action property that a passing run checks is a theorem,
with the same definition. The theorems hold for every value of the constants that
satisfies the named assumptions of the modules: lengths, ages and times are
naturals; the TTL, the wait, the interval and `maxAge` positive; batch size and
concurrency at least one; there is a publish broker, and in `Delivery` nothing
expires. Of the registry, that a list is never empty, an entry has one centre and a
sentinel does not outlive the keys; of a message, that what is not JSON has neither
id nor links, and what has no id does not conform to its schema; of the hosts, that
they are finitely many. `Lifecycle` has no constants; in `InstanceProofs` the ages
of `RoleAudit` are those of `MCInstance`, 4, 5 and 6.

`ElectionInvariant` and `SoonAlwaysLowest` have one hypothesis more, `Timing`,
which `MCElection` checks of the instance that runs. It is a condition on
configuration and clocks, which no code enforces (see *Election bounds* above), and
on `Patience`, where `calm` stops counting.

**`GateProofs`.** `GateInv` strengthens the type invariant and
`NothingStranded` with `GoodQueue`: entries are in order of arrival and of age,
and none is from the future. It is needed because `evictExpiredLocked` only
looks for the first live entry: without the age order, dropping a prefix would
not remove all that is expired. From it follow `NothingStranded`,
`QueueSorted`, `BacklogsInOrder` and the action property `DrainsOnlyFresh`. With
it, that an evicted prefix is all expired and a full queue all fresh, hence
`DiscardsJustified`; and a second invariant, that every message is in exactly
one of the queue, some goroutine's hands and what has left the gate, with no
duplicates within any of them, gives `EachMessageInOnePlace`.

**`FailoverProofs`.** `IInv` adds to `TypeOK` that each queue is in age order
and stamped with the copies' times of receipt, that a copy on its way to dedup
was dispatched at most `maxAge` after receipt and at most `MaxProc` ago, and
that the key of a claimed id was last set no earlier than that claim.
`ClaimsApart`: a claim needs a dead key, so every earlier claim is more than a
TTL old. `BacklogRecognised` adds the ages up: every earlier claim is before
receipt + `maxAge` + `MaxProc` − TTL. With `maxAge` = TTL, as `main.go:405`
sets it, a copy that was waiting when its id was claimed is always recognised,
up to the time it spends in `process` before dedup.

`BurnedOnlyByFaults` is the safety that `NeverBurned` rests on: an id that dedup knows
is in the hands of a copy that is past dedup, or was published, or failed at every
broker; only a crash of that copy's instance (`lost`) or a lost reply to its `SETNX`
(`resent`, `seenResent`) comes between. Its invariant needs that the copies in a queue
have stage `queued`, so that neither an eviction nor a drain touches a copy that has
claimed.

**`ElectionProofs`.** `TypeOK` has, and needs for its induction, that a tick lasts no
longer than an interval. For `SoonLowest`, `ElectionInv` follows the announcement
of each process q through a calm period. `Lag(q)` is the time since q's last
announcement began; the entry in Redis, and every copy of it that somebody has
read, is no older than that, hence fresh by every clock when it is judged
(`Timing`), and not among what anybody prunes (`Posted`, `Informed`, `Harmless`).
The announcement of a process that is gone is at least as old as the calm
(`GoneAreOld`), so stale by every clock from `Old` on. A tick that begins after
`Settled` judges by exactly the live processes, and every process has finished one
`OldestLive` later (`Decided`). Calm ends with a start, a death or a failed tick, and
then the invariant says nothing (`AfterTrouble`): this is why it is inductive with
faults. `Settled` is at least `Old`, and more than `2 * OldestLive` and an interval for the
announcement that a prune, decided before the calm, still deletes.

**`DeliveryProofs`.** Three invariants. `Seated` and `Followed`: which goroutine may be
where; and while no two have been between look and effect at once, at most one
is, what it saw or decided is still true, or another callback that will ask again
is on its way. `GatesFollow` is the case that nobody is. `Placed`: the messages
queued in the pipeline's gate are exactly those of that stage; a held message is in
the publisher's gate or in one place of one backlog, and only the head of a backlog may
have gone on; `InOnePlace` counts these. With the lemma that an open gate is empty,
`NothingIsStranded` is the safety that `NothingLeftWaiting` rests on: a primary with
a broker, whose callbacks are done, holds nothing but what an `Open` is forwarding.

**`DedupProofs`.** `DedupInv` adds to `TypeOK` and `RequestsKept` (a batch with
a member has a running timer; every request is in one flush at most until it has
its result) that the open batch is short of a full one, that a `BoolCmd`
holds what the last run of its command found, an error, or nothing until it has been
run again; that no result has been answered while the command may still be run; and
that whoever found a mark found another's, or has been sent again (`Marked`). From it
follows `SeenBecauseMarked`. `DedupImplementsRegistry` shows `Spec => Registry!Spec`:
each execution of the command is an atomic lookup, which `SeenRegistry` allows to be
made again until a result is answered; `Receive` and the two give-ups are the answer,
and all else stutters. How often the client sends again is not bounded (`MaxResends`
is any natural).

**`RegistryProofs`.** Three invariants. `TypeOK` says which entries a process
still has to write. For `IndexWhole`: an index on which no writers have
overlapped has at most one process in its pipeline, and the temporary key then
holds what that process has added so far. For `KeptAnswered`: an entry's key has
at least `Slack` less the units of trouble to live, at least as much more than
its sentinel as the slack, and `Slack + 1` after a unit without trouble; so a
fetch is due, and succeeds, in time.

**`InstanceProofs`** has an inductive invariant for each of the five modules, and
shows that a step of one leaves those of the others alone.

* `Checks`. `CopyInv`: the checks a copy has behind it are those before its stage,
  none of them was fatal unless the copy is discarded, and then the last one was, and
  what has been reported is the events of those that failed. `ClaimInv`: a marked id
  has a copy that is through, and only one. A lemma shows on the way that a copy at
  the schemas has good links, so `process` never reports the `ErrBadRel` that
  `ClassifySchemaError` can return (`pipeline.go:429`).
* `RoleAudit`. `CalmWith(h)`: while h is the only primary and nothing goes wrong, every
  write that is under way goes by the right role; from the second unit on the record's
  primary is h, and not older than a unit; and beside h, either the record of a
  secondary that is gone ages by a unit per unit until h removes it (`Alone`), or that
  of one that lives is renewed before h finds it too old (`Accompanied`). Six units
  are what the older of the two takes.
* `Lifecycle`. Nobody is primary, so nothing has passed the gate, before main has got
  to the election (`Unelected`, for `WiredBeforeUse`). Of all copies, here and at the
  peer, one at most has passed a lookup that was answered, and an id is marked only if
  some copy has passed or was burnt (`MarkInv`, for `TwiceOnlyUnguarded`). For the gate,
  `GateInv`: while nobody has overlapped, one caller at most is between look and effect,
  what it does is right, and when none is, the gate is open exactly for a primary that
  believes to be connected; and `LookInv`: what a caller saw, and what the pipeline
  believes, is so unless a callback is about to tell. `AcceptedIsHeld` is the safety
  that `AcceptedThenHandedOver` rests on: when no caller is on its way and none has
  overlapped another, what waits does so for a role or a broker that is missing; and a
  copy is thrown away as seen only when another has gone on or was burnt.
* `SchemaCache`. `SchemasKeptUntilRestart`, the safety half of `SchemasArriveAndStay`.
* `DebugFlags`. Its types.

**`BackupFailoverProofs`**. `TypeOK` says that a pointer that is set points to
a timer that is running or has just fired, and that at most one is set: the
comment's "at most one of these is ever non-nil". It is inductive as it stands,
by lemmas on stopping and starting a timer. For `CallsApart`, `ApartInv`: while
reports arrive in order a disconnect timer is never forgotten by its pointer,
and no connect timer is as young as a disconnect timer that starts, so no two of
them fire in one tick. For `OnlyAfterWait`, `TimelyInv`: a connect timer that is
pointed to has run no longer than the primary has been out of service; one that
has been forgotten runs only while the backup is connected or about to be, and
ends before any disconnect timer does, so it changes nothing. `BackupNeverForgotten`
is the safety that `BackupFollows` rests on: while the primary is out of service the
backup is connected to stay or something that will connect it runs, fires or calls,
and likewise for disconnecting it, in time. It shows that the early returns of
`primaryUp` and `primaryDown` (a timer is already pending) never leave nobody
responsible, although a pointer may be cleared by the wrong timer.

The steps are proved action by action; frame lemmas cover the actions that do
not touch what a conjunct speaks of.

### Only model-checked

The liveness properties, because fairness and `ENABLED` are beyond the prover:
`PublishedOnceHeld`, `NeverBurned`, `LowestElected`, `EveryCallAnswered`,
`NothingLeftWaiting`, `BackupFollows`, `AnswersSettle`, `SchemasArriveAndStay`,
`AcceptedThenHandedOver`, `LoggingFollowsFile`. For most of them the safety they need
is a theorem, as said above: for `LowestElected` it is `SoonLowest`, for
`EveryCallAnswered` `RequestsKept`, for `AnswersSettle` `IndexWhole` and
`KeptAnswered`. What `mqttTopicMatch` of `DebugFlags` computes is a recursion over
data; TLC compares it with `Covers` for filters of up to three levels.

## 6. Divergences found

The first four are runs that TLC finds violated, with the comment they
contradict quoted in `PROJECT.json`.

1. `failover_late`: `maxAge` equal to the TTL does not protect a copy that
   *arrives after* the primary's mark: it may be drained when the mark has
   expired.
2. `delivery_race`: `SetPrimary` and `SetPubConnected` decide under `gateMu`
   and apply after it; an older decision applied last leaves the gate wrong
   until the next change. In the trace the instance is primary, connected, and
   queues.
3. `dedup_resent`: the Redis client sends a command again when its reply is lost
   (`redisconn.go:71-83` leaves its retries on). A `SETNX` then finds its own mark:
   `Seen` returns true, without an error, for a message that nobody has processed, and
   its id is burnt for a TTL. The doc comment (`dedup.go:201-206`) has it return true
   for what "was already processed recently".
4. `backup_race`: a connection that is lost while its subscriptions are being
   made is reported in either order. If the connect is reported last, the
   disconnect timer runs while the primary is down: a minute later the backup
   is left, and the centre has no source until the primary connects again.

`delivery_race` is why `GatesFollow`, `NothingLeftWaiting` and `AcceptedThenHandedOver`
have the premise `~overlapped` (no two goroutines were between look and effect
together), `dedup_resent` why an id may be burnt by a lost reply, and `backup_race` why
the properties of `BackupFailover` the premise `~reordered`.

The others are visible in the modules' actions, and are outcomes of their runs:

* `Open` sets the state before it forwards the backlog, so live arrivals
  overtake it (`Gate` has `ForwardPassing` beside `ForwardDrained`), although the
  package comment (`gate.go:18-22`) has promotion drain the whole backlog
  "before resuming live pass-through".
* A failed tick leaves the role as it is, so a primary that loses Redis stays
  primary, and publishes without dedup; the comment in `tick`
  (`client.go:160-162`) says that then both instances "stay/become secondary".
* Two writers of one index mix their halves, and entries of a centre that has
  left the list may stay (see `Registry` above).
* A connection that is made before `NewPublisher` has returned calls the method
  of a nil `publisher`, and the process panics (`main.go:352-358`); the comment
  at `main.go:427-430` speaks of an event that is "silently missed". It is
  `Panic`.
* `Deregister`'s comment (`traefik.go:145-149`) wants the route gone before the
  server is; it is called after the listener has been closed.
* The schema that is kept as last known good has been cached before anyone
  compiled it (`fetchcache.go:38-45`): `SchemasArrive` must ask for a good body
  in the cache.
* Lookups use the context that the signal cancels, while messages still arrive
  (`main.go:655-679`): a copy is published unguarded though the peer publishes
  its own. An id that has passed and is not yet published at exit is burnt.

## 7. Assumptions, omissions, plan

Assumed about code outside `src/`:

* Redis runs each command atomically, and keys live for their TTL. The client sends a
  command again when it has no reply (`Dedup`, `Failover`), but one that it has given
  up is not executed later. In `Election` a command and its reply succeed or
  fail together, except that `HSET` may have run (`Announce`, then `CutOff` and
  `FailTick`); `HSET`, `HGETALL`, `HDEL` and `EXPIRE` sent twice do what they do once.
* The MQTT library runs connection callbacks in goroutines of their own, and a
  publish to a broker that is down returns an error.
* Monotonic clocks within a process; `Failover` uses one clock for all
  instances and Redis, which no step compares across hosts.

Left out of modelled parts: metrics, logs and debug output; what is in an event
beyond its kind; the strings that make up topics and payloads, and what JSON
Schema says of them (`Checks` has their classes); the backup connection's own
callbacks (a gauge); unparseable election entries; the callback for a failed
first connection; time in `Delivery` (`MaxAge = 0`: `Gate` has it). In
`Registry`, the check whether a refresh is due, the fetch, the write of the body and the
replacement of the process's own copy are one step, as is the read and
replacement of `syncFromIndex`: no other process can see between them. In
`Lifecycle` Redis answers, perhaps a command that was sent again, unless the shutdown
cancels the lookup; one callback is under way at a time (`Delivery` has several), the
election and the subscriber start in one step, the election makes no decision after the
signal, the contents of the traefik file are left out, and the peer does not crash. In
`Checks` Redis answers the first time. `wis2nodes -del`
also deletes the election's hash: to `RoleAudit` that is one more change of roles.

Limits of the design, not stated as properties: an instance that crashes, or
fails at every broker, after its `SETNX` burns the id (`NeverBurned` is checked
without crashes and Redis faults, and counts a reported failure); the lowest uuid that can write
and not read keeps the others secondary without becoming primary.

### Not modelled

Configuration and environment file (parsed once; what they enforce is assumed
by the modules), metrics (write-only), the Redis client's constructor but for its
retries, the liveness key and the heartbeat log of main, flag parsing and the
read-only HTTP routes, `wis2nodes`' live count, `-dump` and table, `flows.json` (the flow the
program was ported from) and the deployment templates.

### What is left to prove

`RoleAudit` for any window, age and patience that fit together, as `Timing` is for
the election; that a process whose copy is not current refreshes it in time, for
`AnswersSettle`; and that `LoggingFollowsFile` holds whenever no reload is under
way, with the matcher's recursion taken as it is.

## 8. Running it

    tlc -workers 2 -config MCGateBackup.cfg MCGateBackup
    tlapm GateProofs.tla

The longest runs take some minutes, most of them seconds; the proofs, some
minutes per module. `PROJECT.json` lists the runs, the map from definitions to source
lines, and one mutant per property: a plausible bug in a mapped definition with
which TLC must find that property violated.
