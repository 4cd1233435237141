-------------------------------- MODULE Locks --------------------------------
(***************************************************************************)
(* The locks that requests, admin calls and the shutdown flush take, and   *)
(* the order in which they take and release them.                          *)
(*                                                                         *)
(*   exact     the std RwLock around the exact cache                       *)
(*   persist   the std Mutex around last_persist                           *)
(*   tenants   the shard of the DashMap of tenant metrics                  *)
(*   index     the shards of the DashMap that is the semantic index        *)
(*                                                                         *)
(* DashMap is a vector of shards, each behind a read-write lock of its     *)
(* own.  A guard into the map (entry, get, get_mut) holds the lock of its  *)
(* shard until it is dropped; an iterator holds the lock of the shard it   *)
(* has come to, and takes the next before it gives that one up; len and    *)
(* clear lock one shard after the other.  No lock is reentrant.  A reader  *)
(* of the std lock queues behind a writer that waits.                      *)
(*                                                                         *)
(* What an operation does between its locks is in the other modules.       *)
(***************************************************************************)
EXTENDS Integers, Sequences

CONSTANTS
    Threads,
    Shards,         \* number of shards of the index
    Ops             \* the operations that run

ASSUME ShardsAssumption == Shards \in Nat \ {0}

VARIABLES
    op,     \* thread -> the operation it runs
    at,     \* thread -> the next of its lock instructions
    held    \* the locks held: thread, lock and mode

vars == <<op, at, held>>

-------------------------------------------------------------------------------
(* Instructions.                                                           *)

Exact == <<"exact", 0>>
Persist == <<"persist", 0>>
Tenants == <<"tenants", 0>>
Index(i) == <<"index", i>>

LockNames == {Exact, Persist, Tenants} \cup {Index(i) : i \in 1..Shards}

Do(act, l) == [act |-> act, lock |-> l]

Read(l) == Do("read", l)
Write(l) == Do("write", l)
Release(l) == Do("release", l)

\* A guard that lives for the statement it is taken in.
Reading(l) == <<Read(l), Release(l)>>
Writing(l) == <<Write(l), Release(l)>>

\* index.iter() or index.iter_mut(), run to its end.
Iterating(mode) ==
    [j \in 1..2 * Shards |->
        IF j = 1 THEN Do(mode, Index(1))
        ELSE IF j = 2 * Shards THEN Release(Index(Shards))
        ELSE IF j % 2 = 0 THEN Do(mode, Index((j \div 2) + 1))
        ELSE Release(Index(j \div 2))]

\* index.len() or index.clear(): one shard after the other.
Sweeping(mode) ==
    [j \in 1..2 * Shards |->
        IF j % 2 = 1 THEN Do(mode, Index((j \div 2) + 1)) ELSE Release(Index(j \div 2))]

-------------------------------------------------------------------------------
(* Operations.  `s` is the shard of the request's context key; `due` says  *)
(* whether the debounce lets a save through, and whether the index has to  *)
(* be brought under its global cap.                                        *)

\* metrics.tenants.entry(..).or_default()..fetch_add(..)
CountTenant == Writing(Tenants)

\* collect_snapshot_data
CollectSnapshot == Reading(Exact) \o Iterating("read")

\* persist_after_insert
PersistAfterInsert(due) == Writing(Persist) \o (IF due THEN CollectSnapshot ELSE <<>>)

\* The hit is counted, and the body cloned, under the lock of the cache.
ExactHit == CountTenant \o <<Read(Exact)>> \o CountTenant \o <<Release(Exact)>>

\* A miss up to the answer of the upstream.
Miss == CountTenant \o Reading(Exact) \o CountTenant

\* Mutation of ExactInsert: the write guard is bound to a variable and lives on.
ExactInsertBound(due) ==
    Miss \o <<Write(Exact)>> \o CountTenant \o PersistAfterInsert(due)
         \o <<Release(Exact)>>

ExactInsert(due) == Miss \o Writing(Exact) \o CountTenant \o PersistAfterInsert(due)

\* Mutation of SemanticHit: the guard of the bucket is forgotten.
SemanticHitLeaks(s) == CountTenant \o Reading(Exact) \o <<Read(Index(s))>> \o CountTenant

\* The scan returns from inside the bucket it found.
SemanticHit(s) ==
    CountTenant \o Reading(Exact)
        \o <<Read(Index(s))>> \o CountTenant \o <<Release(Index(s))>>

\* evict_global: three passes, then the buckets that lose entries.
EvictGlobal(s) ==
    Iterating("write") \o Iterating("read") \o Iterating("read") \o Writing(Index(s))

\* The bucket is held from entry(..) to the end of the block, over the count of
\* all entries, the global eviction and the save.
SemanticInsert(s, due) ==
    ExactInsert(due)
        \o <<Write(Index(s))>> \o CountTenant \o Iterating("read")
        \o (IF due THEN EvictGlobal(s) ELSE <<>>)
        \o PersistAfterInsert(due) \o <<Release(Index(s))>>

\* admin_cache_summary: the counts of the index under the lock of the cache.
Summary == <<Read(Exact)>> \o Sweeping("read") \o Iterating("read") \o <<Release(Exact)>>

\* admin_cache_flush
Flush == Writing(Exact) \o Sweeping("write") \o Reading(Exact)

\* admin_cache_exact_delete, admin_cache_semantic_delete
ExactDelete == Writing(Exact)
SemanticDelete(s) == Writing(Index(s))

\* admin_metrics
TenantMetrics == Reading(Tenants)

Kinds == {"exact_hit", "exact_insert", "semantic_hit", "semantic_insert", "summary",
          "flush", "exact_delete", "semantic_delete", "metrics", "shutdown", "idle"}

ASSUME OpsAssumption == Ops \subseteq Kinds \ {"idle"}

Idle == [kind |-> "idle", shard |-> 1, due |-> FALSE]

Script(o) ==
    CASE o.kind = "exact_hit" -> ExactHit
      [] o.kind = "exact_insert" -> ExactInsert(o.due)
      [] o.kind = "semantic_hit" -> SemanticHit(o.shard)
      [] o.kind = "semantic_insert" -> SemanticInsert(o.shard, o.due)
      [] o.kind = "summary" -> Summary
      [] o.kind = "flush" -> Flush
      [] o.kind = "exact_delete" -> ExactDelete
      [] o.kind = "semantic_delete" -> SemanticDelete(o.shard)
      [] o.kind = "metrics" -> TenantMetrics
      [] o.kind = "shutdown" -> CollectSnapshot
      [] o.kind = "idle" -> <<>>

-------------------------------------------------------------------------------
Modes == {"read", "write"}

Hold(t, l, m) == [thread |-> t, lock |-> l, mode |-> m]

Running(t) == op[t].kind # "idle"

Instr(t) == Script(op[t])[at[t]]

\* A thread that is about to write some lock, and may be queued for it.
WaitsToWrite(u, l) == Running(u) /\ Instr(u) = Write(l)

\* No lock is granted to a thread that holds it for writing itself.
Grantable(t) ==
    LET i == Instr(t)
    IN  CASE i.act = "release" -> TRUE
          [] i.act = "write" -> \A h \in held : h.lock # i.lock
          [] i.act = "read" ->
                /\ \A h \in held : h.lock = i.lock => h.mode = "read"
                /\ i.lock = Exact =>
                      \A u \in Threads \ {t} : ~WaitsToWrite(u, Exact)

\* The operations whose locks depend on a shard, and on what is due.
Sharded == {"semantic_hit", "semantic_insert", "semantic_delete"}
Inserts == {"exact_insert", "semantic_insert"}

Begin(t) ==
    /\ ~Running(t)
    /\ \E k \in Ops, s \in 1..Shards, due \in BOOLEAN :
          /\ k \notin Sharded => s = 1
          /\ k \notin Inserts => ~due
          /\ op' = [op EXCEPT ![t] = [kind |-> k, shard |-> s, due |-> due]]
    /\ at' = [at EXCEPT ![t] = 1]
    /\ UNCHANGED held

Step(t) ==
    LET i == Instr(t)
    IN  /\ Running(t)
        /\ Grantable(t)
        /\ held' = IF i.act = "release"
                   THEN {h \in held : h.thread # t \/ h.lock # i.lock}
                   ELSE held \cup {Hold(t, i.lock, i.act)}
        /\ IF at[t] = Len(Script(op[t]))
           THEN op' = [op EXCEPT ![t] = Idle] /\ at' = [at EXCEPT ![t] = 1]
           ELSE at' = [at EXCEPT ![t] = at[t] + 1] /\ UNCHANGED op

Init ==
    /\ op = [t \in Threads |-> Idle]
    /\ at = [t \in Threads |-> 1]
    /\ held = {}

Next == \E t \in Threads : Begin(t) \/ Step(t)

Spec == Init /\ [][Next]_vars

\* Every thread that can run does.
FairSpec == Spec /\ \A t \in Threads : WF_vars(Step(t))

-------------------------------------------------------------------------------
(* Properties.                                                             *)

TypeOK ==
    /\ op \in [Threads -> [kind : Kinds, shard : 1..Shards, due : BOOLEAN]]
    /\ at \in [Threads -> Nat \ {0}]
    /\ held \subseteq [thread : Threads, lock : LockNames, mode : Modes]
    /\ \A t \in Threads : ~Running(t) => \A h \in held : h.thread # t

\* Of the threads that run an operation one can always go on: no set of
\* operations ends up waiting for one another, whatever the interleaving.
NoDeadlock == (\E t \in Threads : Running(t)) => \E t \in Threads : Running(t) /\ Grantable(t)

\* README.md:24, the semantic cache: the request that stores an answer comes to
\* its end, so that a second one can be answered from what it stored.
SemanticInsertEnds ==
    \A t \in Threads : op[t].kind = "semantic_insert" ~> ~Running(t)

===============================================================================
