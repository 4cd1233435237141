---------------------------- MODULE SemanticIndex ----------------------------
(***************************************************************************)
(* The semantic index: the DashMap of AppState from a context key to a     *)
(* vector of items, the eviction functions of src/cache.rs, and the places *)
(* of src/main.rs that push, scan, delete, save and restore items.         *)
(*                                                                         *)
(* The index is shared.  What holds the lock of one shard is one step; a   *)
(* pass over the index is a step per context, in the order in which the    *)
(* shards are iterated, and others run in between.                         *)
(*                                                                         *)
(* A bucket is a set of items.  Items are numbered in the order of their   *)
(* pushes, and every vector is in that order, since pushes append and      *)
(* removals and restores keep the order: the index of an item is the       *)
(* number of older ones in its bucket.                                     *)
(*                                                                         *)
(* The insert of main.rs keeps the guard of its bucket while it counts the *)
(* index, and so waits for itself (Locks!SemanticInsertEnds).  Here it     *)
(* lets go of the bucket after evict_bucket: what the code does is a       *)
(* behaviour of this module in which that thread takes no further step.    *)
(***************************************************************************)
EXTENDS Integers, FiniteSets, Sums

CONSTANTS
    Shards,         \* contexts are 1..Shards, each in a shard of its own
    Threads,
    Configs,        \* [max, bucket, ttl]: semantic_max_items, _max_bucket_items, _ttl_secs
    TicksPerSec,
    ClockSteps,     \* how the wall clock may be set while no process runs, in ticks
    MaxItems,       \* bound: pushes explored
    MaxNow,         \* bound: ticks explored
    MaxRestarts     \* bound: restarts explored

ASSUME ShardsAssumption == Shards \in Nat \ {0}
ASSUME ConfigsAssumption == Configs \subseteq [max : Nat, bucket : Nat, ttl : Nat]
ASSUME ClockAssumption == TicksPerSec \in Nat \ {0} /\ ClockSteps \subseteq Int

VARIABLES
    index,      \* context -> the items of its bucket
    file,       \* context -> the items of its bucket in the snapshot file
    cfg,        \* configuration of the running process
    pass,       \* thread -> the pass over the index it is in, and how far
    now,        \* monotonic clock
    skew,       \* wall clock minus monotonic clock
    pushes,     \* history: number of pushes
    restarts,   \* history: number of restarts
    trimmed,    \* history: whether this process has finished an insert
    expect      \* history: thread -> what its eviction must come to, {} once disturbed

vars == <<index, file, cfg, pass, now, skew, pushes, restarts, trimmed, expect>>

history == <<pushes, restarts, trimmed>>

-------------------------------------------------------------------------------
Contexts == 1..Shards

Item == [n : Nat \ {0}, created : Int, ttl : Nat]

SavedItem == [n : Nat \ {0}, epoch : Nat, ttl : Nat]

\* Where a thread is: what it is doing, the context that comes next, and what
\* it has gathered: a count, the candidates for removal, what it will remove
\* from each bucket, or a snapshot.
Doing(what) ==
    [at |-> what, next |-> 1, sum |-> 0, found |-> {}, doomed |-> {}, copy |-> {}]

Idle == Doing("idle")

Stages == {"idle", "counting", "expiring", "recounting", "collecting", "removing",
           "clearing", "saving"}

Busy == {t \in Threads : pass[t].at # "idle"}

\* Inserts that are not over.
Inserting ==
    {t \in Threads : pass[t].at \in {"counting", "expiring", "recounting",
                                     "collecting", "removing"}}

Passes ==
    [at : Stages, next : Contexts, sum : Nat, found : SUBSET (Contexts \X Item \X Nat),
     doomed : SUBSET (Contexts \X Nat), copy : SUBSET (Contexts \X SavedItem)]

TypeOK ==
    /\ index \in [Contexts -> SUBSET Item]
    /\ file \in [Contexts -> SUBSET SavedItem]
    /\ \A c \in Contexts :
          /\ \A x \in index[c] : x.created <= now /\ x.n <= pushes
          /\ \A x \in file[c] : x.n <= pushes
          /\ \A x, y \in index[c] : x.n = y.n => x = y
    /\ cfg \in Configs
    /\ pass \in [Threads -> Passes]
    /\ expect \in [Threads -> SUBSET [Contexts -> SUBSET Item]]
    /\ \A t \in Threads : expect[t] # {} => t \in Inserting
    /\ now \in Nat /\ pushes \in Nat /\ restarts \in Nat
    /\ skew \in Int
    /\ trimmed \in BOOLEAN

-------------------------------------------------------------------------------
(* Items and buckets.                                                      *)

Secs(t) == t \div TicksPerSec

WallSecs == Secs(now + skew)

\* created_at.elapsed() >= ttl
Expired(x) == now - x.created >= x.ttl * TicksPerSec

Live(b) == {x \in b : ~Expired(x)}

\* The index of an item in its vector.
Position(b, x) == Cardinality({y \in b : y.n < x.n})

\* Created earlier, or at the same time and pushed earlier.
Older(x, y) == x.created < y.created \/ (x.created = y.created /\ x.n < y.n)

\* Mutations of EvictBucket: no retain, or >= instead of >.
EvictBucketKeepsExpired(b) ==
    {x \in b : Cardinality({y \in b : Older(x, y)}) < cfg.bucket}

EvictBucketOffByOne(b) ==
    {x \in Live(b) : Cardinality({y \in Live(b) : Older(x, y)}) <= cfg.bucket}

\* evict_bucket: the expired items go, then the oldest while there are too many.
EvictBucket(b) ==
    {x \in Live(b) : Cardinality({y \in Live(b) : Older(x, y)}) < cfg.bucket}

\* What a semantic lookup may answer with: any item of the bucket may be the first
\* that is similar enough.  The age of an item plays no part.
Scan(c) == index[c]

Total == SumTo([c \in Contexts |-> Cardinality(index[c])], Shards)

All == UNION {{<<c, x>> : x \in index[c]} : c \in Contexts}

\* The order of to_remove.sort_by_key, which is stable: by age, then in the order
\* of collection.
Before(p, q) ==
    \/ p[2].created < q[2].created
    \/ /\ p[2].created = q[2].created
       /\ p[1] < q[1] \/ (p[1] = q[1] /\ p[2].n < q[2].n)

\* What evict_global is for: of the items that have not expired, the newest.
Newest ==
    LET live == {p \in All : ~Expired(p[2])}
        kept == {p \in live : Cardinality({q \in live : Before(p, q)}) < cfg.max}
    IN  [c \in Contexts |-> {p[2] : p \in {q \in kept : q[1] = c}}]

-------------------------------------------------------------------------------
(* Steps of a pass.                                                        *)

\* The bucket of c changes; every eviction that is under way is disturbed.
Change(t, c, b) ==
    /\ index' = [index EXCEPT ![c] = b]
    /\ expect' = [u \in Threads |-> IF u = t \/ b = index[c] THEN expect[u] ELSE {}]

\* The pass of t goes on to the next context with what it has now, or, after the
\* last, to `end`.
Goes(t, now_, end) ==
    pass' = [pass EXCEPT ![t] =
                IF pass[t].next = Shards THEN end
                ELSE [now_ EXCEPT !.next = pass[t].next + 1]]

\* The insert is over.
Ends(t) == pass'[t] = Idle

\* The expectation of t ends with its insert.
Settle(t) == expect' = IF Ends(t) THEN [expect EXCEPT ![t] = {}] ELSE expect

\* An insert: the push and evict_bucket, under the guard of the bucket.
Push(t, c) ==
    /\ pass[t] = Idle
    /\ pushes < MaxItems
    /\ LET item == [n |-> pushes + 1, created |-> now, ttl |-> cfg.ttl]
       IN  Change(t, c, EvictBucket(index[c] \cup {item}))
    /\ pushes' = pushes + 1
    /\ pass' = [pass EXCEPT ![t] = Doing("counting")]
    /\ UNCHANGED <<file, cfg, now, skew, restarts, trimmed>>

\* total_semantic_entries.  The index is evicted only if it is over its cap.
Count(t) ==
    LET sum == pass[t].sum + Cardinality(index[pass[t].next])
    IN  /\ pass[t].at = "counting"
        /\ Goes(t, [pass[t] EXCEPT !.sum = sum],
                IF sum > cfg.max THEN Doing("expiring") ELSE Idle)
        /\ trimmed' = (trimmed \/ Ends(t))
        /\ expect' = [expect EXCEPT ![t] =
                         IF pass'[t].at = "expiring" THEN {Newest} ELSE {}]
    /\ UNCHANGED <<index, file, cfg, now, skew, pushes, restarts>>

\* evict_global, first pass: what has expired goes.
Expire(t) ==
    /\ pass[t].at = "expiring"
    /\ Change(t, pass[t].next, Live(index[pass[t].next]))
    /\ Goes(t, pass[t], Doing("recounting"))
    /\ UNCHANGED <<file, cfg, now, skew, history>>

\* Second pass: how many are there now?
Recount(t) ==
    LET sum == pass[t].sum + Cardinality(index[pass[t].next])
    IN  /\ pass[t].at = "recounting"
        /\ Goes(t, [pass[t] EXCEPT !.sum = sum],
                IF sum > cfg.max
                THEN [Doing("collecting") EXCEPT !.sum = sum - cfg.max] ELSE Idle)
        /\ trimmed' = (trimmed \/ Ends(t))
        /\ Settle(t)
    /\ UNCHANGED <<index, file, cfg, now, skew, pushes, restarts>>

\* Mutation of Oldest: sorted the other way round.
OldestReversed(found, k) ==
    {p \in found : Cardinality({q \in found : Before(p, q)}) < k}

\* The first k in the order of removal.
Oldest(found, k) == {p \in found : Cardinality({q \in found : Before(q, p)}) < k}

\* Third pass: every item with its position.  After it, the oldest are marked by
\* their positions, bucket by bucket; there may be none left to mark.
Collect(t) ==
    LET c == pass[t].next
        found == pass[t].found \cup {<<c, x, Position(index[c], x)>> : x \in index[c]}
        doomed == {<<p[1], p[3]>> : p \in Oldest(found, pass[t].sum)}
    IN  /\ pass[t].at = "collecting"
        /\ Goes(t, [pass[t] EXCEPT !.found = found],
                IF doomed = {} THEN Idle ELSE [Doing("removing") EXCEPT !.doomed = doomed])
        /\ trimmed' = (trimmed \/ Ends(t))
        /\ Settle(t)
    /\ UNCHANGED <<index, file, cfg, now, skew, pushes, restarts>>

\* Mutation of Without: the indices are removed in ascending order, so that each
\* removal shifts what the next one means.
WithoutAscending(b, positions) ==
    {x \in b : \A k \in positions :
                   Position(b, x) # k + Cardinality({j \in positions : j < k})}

\* The removal of these indices, the largest first; one that is out of bounds by
\* now is skipped.
Without(b, positions) == {x \in b : Position(b, x) \notin positions}

\* The removals, bucket by bucket in no particular order.  The indices are those of
\* the third pass, whatever has happened to the bucket since.
Remove(t) ==
    /\ pass[t].at = "removing"
    /\ \E c \in {d[1] : d \in pass[t].doomed} :
          LET mine == {d \in pass[t].doomed : d[1] = c}
              rest == pass[t].doomed \ mine
          IN  /\ index' = [index EXCEPT ![c] = Without(index[c], {d[2] : d \in mine})]
              /\ pass' = [pass EXCEPT ![t] =
                             IF rest = {} THEN Idle ELSE [pass[t] EXCEPT !.doomed = rest]]
              /\ expect' = [u \in Threads |->
                               IF u = t THEN IF rest = {} THEN {} ELSE expect[u]
                               ELSE IF index'[c] = index[c] THEN expect[u] ELSE {}]
    /\ trimmed' = (trimmed \/ Ends(t))
    /\ UNCHANGED <<file, cfg, now, skew, pushes, restarts>>

-------------------------------------------------------------------------------
(* Deletes, snapshots, restarts.                                           *)

\* DELETE /admin/cache/semantic/:context_key, of one item (evict_item) or of all.
Delete(t, c) ==
    /\ pass[t] = Idle
    /\ index[c] # {}
    /\ \E gone \in {{x} : x \in index[c]} \cup {index[c]} :
          Change(t, c, index[c] \ gone)
    /\ UNCHANGED <<file, cfg, pass, now, skew, history>>

\* DELETE /admin/cache: clear, shard by shard, then an empty snapshot.
BeginClear(t) ==
    /\ pass[t] = Idle
    /\ pass' = [pass EXCEPT ![t] = Doing("clearing")]
    /\ UNCHANGED <<index, file, cfg, now, skew, history, expect>>

Clear(t) ==
    /\ pass[t].at = "clearing"
    /\ Change(t, pass[t].next, {})
    /\ Goes(t, pass[t], Idle)
    /\ file' = IF Ends(t) THEN [c \in Contexts |-> {}] ELSE file
    /\ UNCHANGED <<cfg, now, skew, history>>

\* An item in the snapshot (see ExactCache!Saved).
Saved(x) ==
    LET since == WallSecs - Secs(now - x.created)
    IN  [n |-> x.n, epoch |-> IF since < 0 THEN 0 ELSE since, ttl |-> x.ttl]

\* collect_snapshot_data, context by context; how the file is written is module
\* Persistence.
BeginSave(t) ==
    /\ pass[t] = Idle
    /\ pass' = [pass EXCEPT ![t] = Doing("saving")]
    /\ UNCHANGED <<index, file, cfg, now, skew, history, expect>>

Save(t) ==
    LET c == pass[t].next
        copy == pass[t].copy \cup {<<c, Saved(x)>> : x \in index[c]}
    IN  /\ pass[t].at = "saving"
        /\ Goes(t, [pass[t] EXCEPT !.copy = copy], Idle)
        /\ file' = IF Ends(t)
                   THEN [d \in Contexts |-> {p[2] : p \in {q \in copy : q[1] = d}}]
                   ELSE file
        /\ UNCHANGED <<index, cfg, now, skew, history, expect>>

\* Mutation of Restored: an item from the future is kept.
RestoredFuture(b, wall, c) ==
    LET item(s) == [n |-> s.n, ttl |-> s.ttl,
                    created |-> now - (wall - s.epoch) * TicksPerSec]
        good == {s \in b : ~Expired(item(s))}
    IN  {item(s) : s \in {g \in good : Cardinality({h \in good : h.n < g.n}) < c.bucket}}

\* The loop of main that restores a bucket, at wall clock time `wall`.  An item from
\* the future or already expired is skipped, and the bucket is filled up to its cap
\* in the order of the file.  There is no look at the cap of the whole.
Restored(b, wall, c) ==
    LET item(s) == [n |-> s.n, ttl |-> s.ttl,
                    created |-> now - (wall - s.epoch) * TicksPerSec]
        good == {s \in b : s.epoch <= wall /\ ~Expired(item(s))}
    IN  {item(s) : s \in {g \in good : Cardinality({h \in good : h.n < g.n}) < c.bucket}}

\* The process ends, at any moment, and another starts; the wall clock may have
\* been set by d.
Restart(c, d) ==
    /\ restarts < MaxRestarts
    /\ now + skew + d >= 0
    /\ skew' = skew + d
    /\ index' = [x \in Contexts |-> Restored(file[x], Secs(now + skew + d), c)]
    /\ cfg' = c
    /\ pass' = [t \in Threads |-> Idle]
    /\ restarts' = restarts + 1
    /\ trimmed' = FALSE
    /\ expect' = [t \in Threads |-> {}]
    /\ UNCHANGED <<file, now, pushes>>

\* Time passes; an eviction it overtakes is not expected to be exact.
Tick ==
    /\ now < MaxNow
    /\ now' = now + 1
    /\ expect' = [t \in Threads |-> {}]
    /\ UNCHANGED <<index, file, cfg, pass, skew, history>>

-------------------------------------------------------------------------------
Init ==
    /\ index = [c \in Contexts |-> {}]
    /\ file = [c \in Contexts |-> {}]
    /\ cfg \in Configs
    /\ pass = [t \in Threads |-> Idle]
    /\ now = 0
    /\ skew = 0
    /\ pushes = 0
    /\ restarts = 0
    /\ trimmed = FALSE
    /\ expect = [t \in Threads |-> {}]

Insert(t) == Count(t) \/ Expire(t) \/ Recount(t) \/ Collect(t) \/ Remove(t)

Next ==
    \/ \E t \in Threads :
          \/ \E c \in Contexts : Push(t, c) \/ Delete(t, c)
          \/ Insert(t)
          \/ BeginClear(t) \/ Clear(t)
          \/ BeginSave(t) \/ Save(t)
    \/ \E c \in Configs, d \in ClockSteps : Restart(c, d)
    \/ Tick

Spec == Init /\ [][Next]_vars

-------------------------------------------------------------------------------
(* Properties.                                                             *)

\* No bucket is over its cap (semantic_max_bucket_items), across pushes and
\* restarts with another cap.
BucketCap == \A c \in Contexts : Cardinality(index[c]) <= cfg.bucket

\* Once a process has finished an insert, the index is over its global cap
\* (semantic_max_items) by no more than the inserts that are under way, although
\* they count, collect and remove under different locks, and remove by indices
\* that may be stale.  Before that it may be over by what the restart brought.
GlobalCap == trimmed => Total <= cfg.max + Cardinality(Inserting)

\* An item that has expired is found by a scan only while nothing was pushed to its
\* bucket since it expired: a scan does not look at ages, and evict_bucket runs
\* with every push.
StaleOnlyWhenIdle ==
    \A c \in Contexts : \A x \in Scan(c) : Expired(x) =>
        \A y \in index[c] : y.created < x.created + x.ttl * TicksPerSec

\* evict_global does what it says when nobody changes the index meanwhile: what has
\* expired goes, then the oldest of all buckets, and exactly as many as needed.
EvictsOldest ==
    [][\A t \in Threads :
          (/\ pass[t].at \in {"recounting", "collecting", "removing"}
           /\ pass'[t] = Idle
           /\ restarts' = restarts) => expect[t] \subseteq {index'}]_vars

===============================================================================
