# StackIntercept: a TLA+ model

StackIntercept is a proxy for OpenAI-compatible chat completions. It answers
repeated requests from a cache, may send simple requests to a cheaper provider,
and retries on a fallback provider when the upstream fails. This directory holds
TLA+ modules that model it, TLC configurations that check them on small
instances, and TLAPS proofs of every safety property they check, for all instances.

Line numbers refer to `src/src/*.rs`. `PROJECT.json` maps every definition to the
lines it stands for, lists the hazards and names the runs.

## 1. The system

| Component | State | Operations | Module |
|---|---|---|---|
| Exact cache, `cache.rs` `ExactCache` | map from key to body, creation instant, ttl; capacity | get, insert (evicts), remove, clear, snapshot, restore | `ExactCache`, `TtlStore` |
| Snapshot persistence, `main.rs` 387-493, 242-306 | snapshot file, temporary file, time of the last save | debounced save after an insert, empty save on flush, flush on shutdown, restore | `Persistence` |
| Request handler, `main.rs` `handle_intercept` | one task per request | route, look up, dispatch, fail over, answer or stream, insert, count | `Intercept` |
| Model routing, `router.rs` | none | decide where a request goes and the namespace of its key | `Routing` |
| Cache eligibility and key, `cache.rs` 148-223 | none | decide whether to cache and under what | `Routing` |
| Shared state, `AppState` | an `RwLock`, a `Mutex`, two `DashMap`s | every operation locks some of them | `Locks` |
| Metrics | counters, whole and per tenant | increments, two admin reads | `Metrics`, `Intercept` (what is counted), `Locks` |
| Admin API | none of its own | summary, flush, deletes, metrics, configuration | `ExactCache`, `SemanticIndex`, `Persistence`, `Metrics`, `Locks` |
| Semantic index, `cache.rs` 26-122 | context key to vector of items | scan, push, three evictions, delete, snapshot, restore | `SemanticIndex`, `Intercept` (who gets which item), `Locks` |
| Configuration, `config.rs` | read once | defaults, then file, then environment | `Startup` |
| Start-up, `main.rs` 181-348, `embeddings.rs` 17-49, `download_model.sh` | model directory, predictor | check and download the weights, load, restore, bind | `Startup` |
| Admin authorization, `main.rs` 495-522 | none | admit or refuse | `Startup` |
| Context key, `main.rs` 39-93 | none | the bucket of a request | `Routing` |
| Inference, dot product, other scripts | | | not modelled |

**Interaction.** Requests are tasks of a multi-threaded runtime. They share the
caches through locks and communicate only through them. A handler waits at the
dispatch, at the body and at each chunk of a stream; what it computed before (the
route, the key, whether the request is eligible) is used after. An insert calls
`persist_after_insert`, which at most once a second collects both caches and
leaves the writing to a blocking thread; writers are not coordinated with each
other, nor with the admin flush or the shutdown. The file is read once, at start. An
eviction of the index is five passes over its shards, each shard under its own lock, and
requests, deletes and saves run in between; so do requests between the reads of a scrape.

**What is hard.** Two clocks (entries age by the monotonic one, snapshots carry the
wall clock in whole seconds); several writers on one temporary file; crashes and
failed saves; in-flight requests during shutdown; decisions made before a
failover and used after it; streams that break; locks of many shards taken in
different orders; indices that were collected under one lock and are used under another;
layers of configuration; a model directory that is half there.

**What makes each part correct.**

- exact cache: bounded, evicts the oldest, never answers with an outdated body, and
  restarts change none of this by more than a second each;
- persistence: a restart finds the last complete snapshot, not far behind;
- handler: one answer per request, from where it was allowed to go, labelled and
  counted as what it was; nothing partial or unsuccessful is cached; nobody gets
  another's answer;
- semantic index: no bucket, and not the whole, outgrows its cap by more than what is
  under way; the oldest go first; an item is only offered in the context it was given in;
- metrics: what a scrape shows adds up;
- start-up: every setting comes from the layer that should decide it, and a process that
  cannot serve as configured does not serve;
- locks: no set of operations blocks itself.

## 2. Modules

### TtlStore and ExactCache

`ExactCache` has the cache itself (`entries`), its part of the snapshot (`snap`),
the configuration of the running process, the monotonic clock `now` in ticks
and `skew`, the wall clock minus `now`. `Secs` is `as_secs()`. One action per
operation: `Insert`, `Remove`, `Clear`, `Save` (`snapshot_entries`), `Restart`
(`restore_from_snapshot` by a process with a possibly different configuration),
`Tick`, and `SetWallClock` (NTP or an administrator). `Get` is an operator, since a
lookup changes nothing. Each is one step because it runs under the `RwLock`. The
choice among expired or equally old victims and the order in which a snapshot is
read are nondeterministic: they depend on the order of a `HashMap`.

Two fields are history no operation reads: `born`, when the body was inserted, and
`held`, since when this process has it.

`TtlStore` is the promise: a store that may forget, that serves a record younger
than its time to live minus a second, never serves one older than that plus a second
per restart, and displaces only one record per insert, one that may have expired
or was among the oldest. `ExactCache!KeepsPromise` is the refinement, with `mem`,
`disk` and `served` read off `entries`, `snap` and `Get`.

### Persistence

The file system is two names, `main` and `tmp`, over inodes with contents: opening
to write truncates an inode in place, a rename moves a name. That is what lets one
writer publish another's half-written file. Handlers and writers are threads whose
locks, system calls and hand-overs are single steps. A snapshot is a number in the
order of collection and a set of entries, an entry the number and the time of its
insert. `Events` chooses which of the adverse events happen: `slow` (a save may
take longer than the debounce), `fail`, `delete`, `clear`, `stop`, `crash`. A save fails
(`FailSave`) at the open, the write or the rename, and leaves the files as they were by
then: after a failed open there may be no temporary file at all. `deleted` is history:
what was deleted, and how many snapshots had been collected by then.

A failed save is not made up for, and the debounce starts from it all the same. So
`LagBound` has three parts: what the file lacks is newer than all it has, always; it
was inserted less than a debounce after the last save began, when nothing is being saved;
and not before that save began, if that save is the one stored.

`MaxInserts`, `MaxNow` and `MaxOutages` are any naturals, and the pool of `Jobs` is finite,
as the runtime's pool of blocking threads is.

Assumed: `fs::write` is open, then one write; a completed system call survives
a crash of the process (there is no `fsync`, and no power failure is modelled);
dropping the runtime waits for blocking jobs that have started and drops the rest.

### Locks

Every operation is a sequence of lock instructions, written next to the function it
is taken from. Assumed of the libraries: no lock is reentrant; a reader of the std
`RwLock` waits behind a waiting writer; a `DashMap` iterator holds the lock of the
shard it has come to and takes the next before it gives that one up; `entry`, `get`
and `get_mut` return guards that hold the shard's lock until dropped.

### Routing and Intercept

`Routing` has the pure decisions over a payload reduced to the features they test:
`Unsafe`, `Route` (with the guard against a missing fallback key), `Eligible`, `Key`.
`Key` and `Context` are the tuples that the code hashes. SHA-256 and `canonical_json` are
taken as injective, and so is writing the parts one after the other without separators,
which it is only as long as no tenant or URL ends in what another part begins with.
Keyword lists are classes of texts. `negative` is a temperature of its own: it is not
cached, and does not block routing. `params` stands for what only the exact key looks at.

`Intercept` has the life of a request as a step from one await to the next:
`Arrive` (up to the key), `LookupHit`, `LookupMiss` or `Encode` (the prompt goes to a
blocking thread), then `SemanticHit`, `SemanticMiss` or `EncodeFails`, and after the first
send `Reply` (the provider or the transport), `Failover`, `AnswerError`, `AnswerWhole`, or
`StartStream`, `StreamChunk`, `StreamEnd`; `Disconnect` drops it where it waits.
`wire` is the history of dispatches. A cached body is what is known of its origin:
payload, tenant, provider, model, status, and whether it is all there. Which items of a
bucket are similar is left open, but for equal prompts, which always are. Eviction and
expiry are in `ExactCache` and `SemanticIndex`; here `Forget` and `ForgetItem` may remove
anything at any time. Requests without a `model` are not in the module, and the two
providers are distinct.

The insert into the index waits for itself (run `locks_semantic_insert`), so that in this
version items come only from a snapshot. `Intercept` and `SemanticIndex` let it go
on: what the code does is a behaviour of theirs in which that thread takes no further
step, and their safety properties hold of it as they would of a repaired insert.
`EveryRequestEnds` leaves semantic mode out.

### SemanticIndex

Contexts are numbers, each in a shard of its own, iterated in order. An item is the number
of its push, its creation and its ttl; since vectors are only appended to and filtered, the
number gives the index. What happens under the guard of one shard is one step, and so are the
two readings of the clock a little before it (`main.rs:1446`, `main.rs:393`). An insert
is `Push` (with `EvictBucket`), then `Count`, and if there are too many `Expire`,
`Recount`, `Collect` and `Remove`, each a step per context: `evict_global` takes
positions in `Collect` and removes by them in `Remove`, whatever happened since; an
eviction that finds nothing left to remove ends there.
`Delete`, `Clear`, `Save` and `Restart` are the admin deletes, the flush, the
snapshot and the restore. `expect` is history: what the index should come to if nobody
disturbs the eviction; `trimmed`, whether this process has finished an insert.

### Metrics

Each request goes through the increments of its path in the order of the handler, first
the counter of the process, then that of the tenant, as two steps. A scrape reads counter
by counter (`PrometheusGlobal`, `PrometheusTenant`, `JsonGlobal`), or a tenant's row under
the guard of the iterator (`JsonRow`), which excludes that tenant's `entry()`. Assumed:
`Relaxed` operations of one thread take effect in program order, as on x86; the
language does not promise it. `Sums` has the sum over numbered parts that the totals of
`Metrics` and of `SemanticIndex` are.

### Startup

`host` is what is around the process and does not change: configuration file, environment,
snapshot, clock, another model directory above the executable. `ReadFile` and `ReadEnv` are
the layers over the defaults, setting by setting; a string of the environment is
what the program reads in it (a number that does not parse is nothing). `Strings` are the
texts a setting may have, and `HostsAssumption` says which hosts there can be. `CheckWeights`,
`near` of a host is what is in a `model` directory above the executable that is another one
than the directory checked and downloaded into; where they are the same, it is `{}`. A text
may be empty. A request of `AdminRequests` that has no key has none in its header, or
one that is not text, and `Provided` reads both as the empty key, as the code does.
`Download`, `BreakOff` and `Load` are the weights of semantic mode, `Restore` whether
restoring lets the program go on, `Bind` and `BindFails` the port, `Admin` any admin
request, `Restart` a supervisor. `Meant` says declaratively which layer decides, and
`Hopeless` lists what no restart mends.

## 3. Runs

| Run | Properties | Question |
|---|---|---|
| `exact_steady` | `BoundedStaleness`, `DriftBound`, `KeepsPromise` | steady clock: is every operation one the promise allows, and how stale may an answer be? |
| `exact_setclock` | `TypeOK`, `CapacityBound`, `BoundedHold`, `OrderPreserved` | what still holds when the wall clock is set? |
| `persist_saves` | `TypeOK`, `SavesAdvance`, `LagBound`, `DeletionSticks` | crashes, saves that fail at any call, deletes: does the file only move forward, how far is it behind, and does what was deleted stay away? |
| `persist_shutdown` | `ShutdownEnds`, `SavesEnd` | does an interrupted process exit, and every save end, with slow and failing disks? |
| `locks_no_deadlock` | `TypeOK`, `NoDeadlock` | can three threads block each other? |
| `intercept_requests` | `TypeOK`, `DispatchedOnceEach`, `HeadersTrue`, `OptOutUntilFailure`, `BooksBalance`, `HitsAreOwn`, `SemanticHitsAreOwn`, `StreamsCachedWhole`, `EveryRequestEnds` | is every request served, labelled, cached and counted as what it is, and does it get only what it might have been answered itself? |
| `semantic_index` | `TypeOK`, `BucketCap`, `GlobalCap`, `StaleOnlyWhenIdle`, `EvictsOldest` | do the caps hold under concurrent inserts, deletes and stale indices, and what does a scan find? |
| `metrics_scrape` | `TypeOK`, `InFlightOnly`, `ScrapeOrder`, `RowIsCut` | which sums and ratios does a scrape under load get right? |
| `config_load` | `TypeOK`, `ServesConfigured`, `BadFileStops`, `SemanticServesLoaded`, `AdminKept`, `Serves` | does what serves serve as configured, and does a supervisor get it to serve? |

Each property of these runs has a mutant, a small change of one definition of the
kind a bug would make, under which TLC finds the property violated.

Runs that TLC must find violated, each a difference between code and documentation:

| Run | Property | What happens |
|---|---|---|
| `persist_torn_save` | `SaveIsAtomic` | with a slow disk a second writer truncates the shared temporary file and the first publishes it |
| `persist_clear_undone` | `ClearSticks` | a save that collected before `DELETE /admin/cache` brings the entries back |
| `locks_semantic_insert` | `SemanticInsertEnds` | the insert into the semantic index waits for itself |

Differences read off the code while modelling, which need no model checker and have no
run. The modules model all of this as the code has it.

Exact cache and persistence:

- a capacity of 0 leaves one entry (`cache.rs:245`);
- a key inserted again into a full cache evicts another entry, though no room is needed
  (`cache.rs:245`); `KeepsPromise` lets one entry go per insert, this one too;
- an expired entry of the snapshot is restored when its ttl is the configured one, against
  the comment "Skip expired entries" (`cache.rs:312`), and one from the future as new,
  against "epoch in the future, skip" (`cache.rs:308`);
- the shutdown flushes before the open requests have drained, and what they insert later
  is saved only if the debounce lets it (`main.rs:344`, CHANGELOG.md:92 "Graceful
  shutdown (Ctrl+C) flushes remaining data").

Requests:

- `is_eligible` looks neither at `response_format` nor for a missing temperature
  (README.md 167-168);
- a failover rewrites the model of a request with the no-route header (`main.rs:1265`,
  deployment.md:222); `OptOutUntilFailure` says how far that goes;
- a replayed answer of the fallback is labelled as the upstream's (`main.rs:1426`,
  README.md:244 "What actually served it"); `HeadersTrue` says what a hit is labelled as;
- mode `off` still stores responses (`main.rs:1419`, .env.example:17 "no caching");
- a body that breaks off outside a stream is cached as an empty one (`main.rs:1415`).

Semantic index:

- the context key leaves out `max_tokens`, `stop` and `stream`, against the comment
  "Hashes everything EXCEPT the final user message" (`main.rs:37`): a streamed body may be
  replayed to a request that is no stream, and streams are inserted, against
  design.md:60 "Streaming responses are not semantically deduplicated";
- a last message whose content is not a string has an empty prompt (`main.rs:933`), and all
  such messages of a context are similar to each other;
- a scan serves items that have expired (`main.rs:1133`); `StaleOnlyWhenIdle` says when;
- a restore fills a bucket in the order of the file and so keeps the oldest when its cap
  was lowered (`main.rs:296`, .env.example "older entries evicted first"), and does not
  look at the global cap; `GlobalCap` holds from the first insert on.

Start-up:

- an unknown `cache_mode` is `exact`, over an `off` of the file too (`config.rs:128`, 186),
  and flags of the environment are true only as `true` or `1`;
- an admin key that is set and empty admits every request without an `x-admin-key` header,
  from anywhere (`main.rs:508`), against the design of 2026-06-30, line 159, "if `admin_key` is
  empty and the socket is non-loopback, admin routes return 403"; a key that is unset does
  what that line says. `AdminKept` states what the code does in each case;
- a weights file that is there is never downloaded again, whole or not (`main.rs:200`,
  README.md:253 "Download missing BGE weights on startup"), and `curl` is not told
  to fail on an error page (`download_model.sh:9`);
- the directory that is checked is not always the one that is loaded from (`main.rs:196`,
  `embeddings.rs:17`);
- an old snapshot stops every start where instants begin at boot (`main.rs:283`).

### Bounds, and why they are enough

The theorems of section 4 hold for all values of these constants; for the safety properties,
the bounds matter only to what the runs show of the model.

- `exact_*`: three keys (`exact_steady`) or two; configurations (1 entry, 1 s) and
  (2 entries, 2 s), so that a restart may shrink the cache and change the ttl;
  2 ticks per second, so that times fall on and between seconds; wall clocks that start
  at tick 0 and at an odd one; `MaxNow` ticks long enough for an entry to expire
  after two restarts; `MaxSkew` and steps of three ticks set the clock by more than
  a second either way.
- `persist_*`: two handlers and two writers are what it takes for saves to overlap and
  for a debounce to be missed; three inserts give a saved, a saving and an unsaved
  one; one outage; three ticks see one debounce period end and the next begin. `MaxSaves` bounds saves where admin clears could go on for ever.
- `locks_*`: two shards suffice for opposite orders, three threads for a cycle through
  the exact cache, a shard and a queued writer. One thread exhibits
  `locks_semantic_insert`.
- `intercept_requests`: two requests for two tenants with the same question, with and
  without the opt-outs, streamed or not, a similar one with other parameters, and one that
  is not deterministic; statuses success, one that fails over and one that does not; ten
  configurations: every combination of rewriting and failover model, with and without
  failover, with no fallback key, with the cache off, and semantic mode with and without
  rewriting. One request stores what the other may replay. Every slot serves one request,
  and the run ends there, which is why deadlock is not checked; in `exact_*` and
  `semantic_index` it is the clock that ends.
- `semantic_index`: two contexts, so that an eviction is between them; two threads, of which
  one disturbs what the other collected; three items, over caps of 2 in all and 1 in
  a bucket or the other way round; a ttl of two ticks and two ticks; one restart, which may
  swap the caps and find the clock set back.
- `metrics_scrape`: one request each of two tenants on any path through the handler, and
  scrapes one after the other without end.
- `config_load`: every setting with a value from the file, from the environment, from both
  or from none, alone, with and without `DEEPSEEK_API_KEY`: settings do not meet except in
  that key. Texts may be empty, the admin key among them, and admin requests come with no key,
  that one or another, from the machine or elsewhere. Every state of the files, of the weights in either directory and of the
  snapshot.

### Fairness

- `Persistence!FairSpec`: handlers, writers, the shutdown flush and the exit are run
  when they can (threads of the runtime and of the operating system), and upstreams
  answer (`Answer`). Nothing is fair about crashes, failures, clears or time.
- `Locks!FairSpec`: a thread that can take its lock does.
- `Startup!FairSpec`: the starting thread runs and the supervisor restarts it (weakly
  fair); a download that is tried again and again ends well some time, and a port that is
  tried again and again is free some time (strongly fair, since failures come in between).
- `Intercept!FairSpec`: handlers are run, and providers answer and end their streams;
  the HTTP client has no timeout, so without the latter a request may wait for ever.
  Chunks and disconnects are not fair.

## 4. Proofs

Every safety invariant and action property of the passing runs is a theorem, for every value
of the constants that the `ASSUME`s of the module allow, and no others but those in the last
column. A module `XProofs` is about `X`.

| Module | Theorem | States | Assumes |
|---|---|---|---|
| `ExactCacheProofs` | `TypeCorrect` | `[]TypeOK` | |
| | `CapacityHolds` | `[]CapacityBound` | every capacity is at least 1 |
| | `HoldBounded` | `[]BoundedHold` | |
| | `OrderHolds` | `[]OrderPreserved` | |
| | `DriftHolds`, `DriftBounded` | `[]DriftInv`, `[]DriftBound` | `ClockSteps = {}` |
| | `StalenessBounded` | `[]BoundedStaleness` | `ClockSteps = {}` |
| | `PromiseKept` | `KeepsPromise` | `ClockSteps = {}` |
| `InterceptProofs` | `TypeCorrect` | `[](TypeOK /\ PlaceInv)` | |
| | `DispatchHolds` | `[]DispatchedOnceEach` | |
| | `HeadersHold` | `[]HeadersTrue` | |
| | `OptOutHolds` | `[]OptOutUntilFailure` | |
| | `HitsOwn`, `SemanticHitsOwn` | `[]HitsAreOwn`, `[]SemanticHitsAreOwn` | |
| | `StreamsWhole` | `[]StreamsCachedWhole` | |
| | `BooksAreBalanced` | `[]BooksBalance` | |
| `SemanticIndexProofs` | `TypeCorrect` | `[]TypeOK` | |
| | `BucketsBounded` | `[]BucketCap` | |
| | `StaleBounded` | `[]StaleOnlyWhenIdle` | |
| | `GlobalBounded` | `[]GlobalCap` | |
| | `OldestGo` | `EvictsOldest` | |
| `PersistenceProofs` | `TypeCorrect` | `[]TypeOK` | |
| | `FileAdvances` | `SavesAdvance` | `Steady` |
| | `DeletionHolds` | `DeletionSticks` | `Steady` |
| | `LagBounded` | `[]LagBound` | `Steady` |
| `LocksProofs` | `TypeCorrect` | `[]TypeOK` | |
| | `DeadlockFree` | `[]NoDeadlock` | `"semantic_insert" \notin Ops` |
| `MetricsProofs` | `TypeCorrect` | `[]TypeOK` | |
| | `SumsAgree` | `[]InFlightOnly` | |
| | `RowsAreCuts` | `RowIsCut` | |
| | `ScrapesInOrder` | `ScrapeOrder` | |
| `StartupProofs` | `TypeCorrect` | `[]TypeOK` | |
| | `ConfiguredAsMeant` | `[]ServesConfigured` | |
| | `BadFileNeverPassed` | `[]BadFileStops` | |
| | `SemanticLoaded` | `[]SemanticServesLoaded` | |
| | `AdminGuarded` | `[]AdminKept` | |

`SumsProofs` has the lemmas about `SumTo`: it is a number, is monotone, changes with one part
by what that part changes, and so on. A sum is a function defined by recursion over
numbers. Induction over them goes through sets: a set that has 0 and with each
number the next one, up to n, has n (from `Least`, which the well-foundedness of `<` gives).

### Why the assumptions

- `ClockSteps = {}`: a wall clock that is set ages or rejuvenates what is restored by as
  much, so that no bound on staleness holds; `exact_setclock` checks what does.
- A capacity of 0 leaves one entry (section 3).
- `Steady`: of the adverse events only crashes, failed saves (at any call) and deletes happen, which is
  what `persist_saves` checks too. With a slow disk `persist_torn_save` shows the file torn;
  a clear writes an empty snapshot past the debounce, and so does the flush of a shutdown, and
  `persist_clear_undone` shows what follows.
- `"semantic_insert" \notin Ops`: that operation waits for itself (`locks_semantic_insert`).

### The arguments

Exact cache:

- *Capacity*: `CapacityInv` adds that the maps are finite, which cardinalities need. An
  insert at capacity removes one entry before it adds one, a restart stops at it.
- *Hold*: `HoldInv`, an entry never looks younger than the process has held it
  (`created <= held`); what is not expired was thus taken in less than a ttl ago.
- *Order*: `OrderInv` carries the order over the snapshot: of two saved entries the
  one inserted earlier has no later epoch. It needs that `Saved` and `Restored` are
  monotone (`SavedMonotone`, `RestoredMonotone`), and that nothing is created or born in
  the future.
- *Drift and staleness*: an error of less than a second at each of two truncations could
  add up to two per restart. `DriftInv` works in whole seconds of the wall clock:
  a save may make an entry a second younger (`SavedDrift`), and a restart puts its
  creation back on a second's boundary exactly (`RestoredSecond`), so that a restart
  costs one and errors never make an entry older. `BoundedStaleness` follows, and is
  not inductive by itself since it says nothing of the snapshot.
- *Refinement*: every action is a step of `TtlStore` or a stutter. That a restart serves what
  it must needs `DriftInv`; that an insert displaces only what may go needs that the oldest
  by `created` is among the oldest by `born` up to a second a restart.

Requests (`InterceptProofs`):

- `PlaceInv` says of each `pc` what the request has by then: a decision, a key, a response.
- *On the wire*: `WireInv`. A request has one of three histories, nothing, one dispatch as
  decided, or that and a failover, and its label goes with it. `DispatchedOnceEach`,
  `HeadersTrue` and `OptOutUntilFailure` are read off it.
- *Origin*: `OriginInv` is over all entries and items, however they came there: each is the
  whole, successful answer to a request with that key or in that context, from where the
  namespace says or a failover might have gone. Lookups then preserve the three
  properties of hits, and a hit stays what it was when its entry goes.
- *Books*: `BooksInv`, a counter of a tenant is the number of its requests that are at a
  place where they have been counted under it.

Semantic index:

- `SoundInv` has the numbers of the items of a bucket distinct and at most `pushes`, buckets
  finite, sound and within the cap, and the same of the file and of the copies that a snapshot
  under way has taken. `ScalarInv` and `ExpectInv` are about the history variables.
- *Global cap*: the total is not bounded by what one insert does, since each sees the
  shards at different moments. `CapInv` has a number for the last push of each thread and
  one, L, for the latest push whose insert has finished. Once an insert has finished,
  the total is within the cap but for the inserts under way that pushed after L; and each
  insert with a push later than L has a `Claim` for wherever it is in its five passes: what
  it has counted, collected or marked misses at most what still later inserts have pushed.
  When it finishes, it becomes L and its claim the bound. Removing by stale positions
  removes no fewer than the marks unless somebody else has removed already.
- *Oldest*: `ExactInv`. As long as nobody disturbs an eviction, `expect` is what the index
  should come to: unchanged while it expires and counts, its candidates are all items with
  their positions, and in each bucket that is yet to be removed from, what `expect` has is the
  bucket without the marked positions. What is marked are the first `Total - max`, and an item
  is not among them exactly if fewer than `max` come after it. (TLC checked `ExactInv` on
  the instance of `semantic_index`, 1177608 states, before it was proved.)

Persistence: `ApartInv` is why there is no lock around the file. A save is under way for less
than the debounce on a disk that keeps up, so there is never more than one. `FileInv`: the file
of the one writer is the one named `tmp`, has what was collected, and that is later than
what is stored. `DeletedInv` and `LagInv` say, of the collected, the written and the
stored snapshot alike, what they may contain and what they may lack. Nothing in `LagInv`
rests on a temporary file telling of a failure, since a failed open leaves none: it is
`Stored.seq = saves`, the last snapshot collected is the one stored, that tells of a success.
The bound of a debounce needs no success: a handler looks at the time after its insert,
and then either less than a debounce has passed since `last`, or `last` becomes the present.

Locks: locks have ranks, exact cache, then the shards of the index in order, then those of the
tenants, then the debounce. Every script takes them in that order and releases what it takes
(`Ordered`, lemma by lemma for the statements a script is made of). `LockInv` ties what a
thread holds to its position. Of the locks waited for, the one of the highest rank is
held by a thread that waits for nothing higher, hence for nothing.

Metrics: `CountInv`, every counter is the number of requests that have counted it, and
`PathInv`, what each has counted is on a legal path. The sums and inequalities
are then about cardinalities. `ScrapeInv` follows a scrape from lookups to routings:
those it noted as looked up are among those counted as routed when it comes to them.

Startup: `ConfigInv` has `Meant` of the layers read so far at each stage, `PredictorInv` and
`AdminInv` the rest: who was admitted was so under a configuration that is as meant.

### Only model-checked

Liveness under fairness, and `ENABLED`, are out of the prover's reach: `ShutdownEnds`,
`SavesEnd`, `EveryRequestEnds`, `Serves` stay with TLC. So do the violation runs, which are
counterexamples. Nothing is proved of `SavesAdvance` on a slow disk, where it is false.

## 5. Plan

Done: all components of section 1 but what section 6 leaves out, and the safety properties of
all of them for every instance.

Left:

1. What holds of `Persistence` with clears and shutdowns on a steady disk: a weaker
   `SavesAdvance`, for the debounced saves alone.
2. Composition of `Persistence` with `ExactCache`, so that what is saved are entries
   with ages.
3. An abstract index that `SemanticIndex` refines where evictions are undisturbed.
4. The steps to liveness that need no fairness: that from every state of `Intercept` and
   `Persistence` where a thread is under way some step of it brings it forward.

## 6. Not modelled

Neural inference (`embeddings.rs` from line 50) and the SIMD kernel (`simd.rs`): floating
point over model weights. The command line, the router set-up. `save_snapshot`
(`cache.rs:378`) has no caller. The layout of admin responses and of Prometheus
metrics, SSE framing, body-size limits. Power failures. `canonical_json` and the hashes
themselves. A provider that never answers: the HTTP client has no timeout
(`main.rs:237`), and nothing would happen.
