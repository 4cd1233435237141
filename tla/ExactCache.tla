------------------------------ MODULE ExactCache ------------------------------
(***************************************************************************)
(* The exact response cache: the struct ExactCache of src/cache.rs behind  *)
(* the RwLock of AppState, the part of a snapshot that is its own, and the *)
(* restart of the process that reads it back.                              *)
(*                                                                         *)
(* Two clocks run.  `now` is the monotonic clock (std::time::Instant), in  *)
(* ticks; the wall clock (SystemTime) is `now + skew` and is cut to whole  *)
(* seconds of TicksPerSec ticks wherever the code calls as_secs().  The    *)
(* monotonic clock never goes back; an administrator or NTP may set the    *)
(* wall clock, by one of ClockSteps ({} for a steady clock).               *)
(*                                                                         *)
(* Every operation is one atomic step: `insert`, `remove` and `clear` run  *)
(* under the write lock, `get` and `snapshot_entries` under the read lock. *)
(* How a snapshot reaches the disk is module Persistence.                  *)
(***************************************************************************)
EXTENDS Integers, FiniteSets, Functions

CONSTANTS
    Keys,           \* cache keys (SHA-256 digests of the request)
    Bodies,         \* response bodies
    Configs,        \* [max, ttl]: exact_max_entries and exact_ttl_secs
    TicksPerSec,
    StartSkews,     \* wall clock, in ticks, when the first process starts
    ClockSteps,     \* adjustments of the wall clock, in ticks
    MaxNow,         \* bound: ticks explored
    MaxSkew,        \* bound: how far the wall clock is set ahead
    MaxRestarts     \* bound: restarts explored

ASSUME ConfigsAssumption == Configs \subseteq [max : Nat, ttl : Nat]
ASSUME TicksAssumption == TicksPerSec \in Nat \ {0}
ASSUME ClocksAssumption == StartSkews \subseteq Nat /\ ClockSteps \subseteq Int

VARIABLES
    entries,    \* key -> CachedEntry, the HashMap of the running process
    snap,       \* key -> SnapshotEntry, the snapshot file
    cfg,        \* the configuration of the running process
    now,        \* monotonic clock
    skew,       \* wall clock minus monotonic clock
    restarts    \* history: how often the process was restarted

vars == <<entries, snap, cfg, now, skew, restarts>>

-------------------------------------------------------------------------------
(* State.  Two fields are history, which no operation of the code reads:   *)
(* `born`, the instant at which the body was inserted, and `held`, since   *)
(* when the running process has held it.                                   *)

CachedEntry == [body : Bodies, created : Int, ttl : Nat, born : Nat, held : Nat]

SnapshotEntry == [body : Bodies, epoch : Nat, ttl : Nat, born : Nat]

\* A HashMap from some of the keys to S.
IsMap(f, S) == DOMAIN f \subseteq Keys /\ f \in [DOMAIN f -> S]

TypeOK ==
    /\ IsMap(entries, CachedEntry)
    /\ IsMap(snap, SnapshotEntry)
    /\ cfg \in Configs
    /\ now \in Nat
    /\ skew \in Int
    /\ now + skew >= 0
    /\ restarts \in Nat

Secs(t) == t \div TicksPerSec

\* SystemTime::now() since the epoch, as_secs().
WallSecs == Secs(now + skew)

\* created_at.elapsed() >= ttl
Expired(e) == now - e.created >= e.ttl * TicksPerSec

-------------------------------------------------------------------------------
(* Operations.                                                             *)

\* Mutation of Get: the entry is answered without looking at its age.
GetUnchecked(k) == {entries[j] : j \in DOMAIN entries \cap {k}}

\* get: at most one entry, none once it has expired.  Nothing is removed.
Get(k) == {entries[j] : j \in {i \in DOMAIN entries \cap {k} : ~Expired(entries[i])}}

\* Mutation of Victims: max_by instead of min_by.
VictimsNewest ==
    LET dead == {k \in DOMAIN entries : Expired(entries[k])}
        newest == {k \in DOMAIN entries : \A j \in DOMAIN entries :
                       entries[k].created >= entries[j].created}
    IN  IF dead # {} THEN dead ELSE newest

\* The keys an insert at capacity may evict: some expired entry if there is
\* one (the first the HashMap yields), else one with the oldest created_at.
Victims ==
    LET dead == {k \in DOMAIN entries : Expired(entries[k])}
        oldest == {k \in DOMAIN entries : \A j \in DOMAIN entries :
                       entries[k].created <= entries[j].created}
    IN  IF dead # {} THEN dead ELSE oldest

\* Mutation of Survivors: the capacity is checked with > instead of >=.
SurvivorsOffByOne ==
    IF Cardinality(DOMAIN entries) <= cfg.max \/ DOMAIN entries = {}
    THEN {DOMAIN entries}
    ELSE {DOMAIN entries \ {v} : v \in Victims}

\* What an insert may leave of the present keys.  The capacity is checked
\* before the key is looked up, so that replacing a key evicts as well.
Survivors ==
    IF Cardinality(DOMAIN entries) < cfg.max \/ DOMAIN entries = {}
    THEN {DOMAIN entries}
    ELSE {DOMAIN entries \ {v} : v \in Victims}

NewEntry(b) ==
    [body |-> b, created |-> now, ttl |-> cfg.ttl, born |-> now, held |-> now]

Insert(k, b) ==
    /\ \E kept \in Survivors :
          entries' = [j \in kept \cup {k} |->
                         IF j = k THEN NewEntry(b) ELSE entries[j]]
    /\ UNCHANGED <<snap, cfg, now, skew, restarts>>

\* `remove` of one key (DELETE /admin/cache/exact/:key), and `clear`
\* (DELETE /admin/cache).
Remove(k) ==
    /\ entries' = Restrict(entries, DOMAIN entries \ {k})
    /\ UNCHANGED <<snap, cfg, now, skew, restarts>>

Clear ==
    /\ entries' = <<>>
    /\ UNCHANGED <<snap, cfg, now, skew, restarts>>

\* Mutations of Saved: the age of the entry is dropped, or the subtraction
\* does not saturate.
SavedAgeless(e) ==
    [body |-> e.body, epoch |-> WallSecs, ttl |-> e.ttl, born |-> e.born]

SavedUnsaturated(e) ==
    [body |-> e.body, epoch |-> WallSecs - Secs(now - e.created),
     ttl |-> e.ttl, born |-> e.born]

\* An entry in the snapshot: its age, cut to whole seconds, is taken from
\* the wall clock, and saturates at the epoch.
Saved(e) ==
    LET since == WallSecs - Secs(now - e.created)
    IN  [body |-> e.body, epoch |-> IF since < 0 THEN 0 ELSE since,
         ttl |-> e.ttl, born |-> e.born]

Save ==
    /\ snap' = [k \in DOMAIN entries |-> Saved(entries[k])]
    /\ UNCHANGED <<entries, cfg, now, skew, restarts>>

\* Mutations of Restored: a snapshot time ahead of the wall clock is kept ahead,
\* or the age is added to the clock instead of taken off.
RestoredForward(s) ==
    [body |-> s.body, ttl |-> s.ttl, born |-> s.born, held |-> now,
     created |-> IF WallSecs >= s.epoch
                 THEN now + (WallSecs - s.epoch) * TicksPerSec
                 ELSE now]

RestoredAhead(s) ==
    [body |-> s.body, ttl |-> s.ttl, born |-> s.born, held |-> now,
     created |-> now - (WallSecs - s.epoch) * TicksPerSec]

\* An entry as restored: created as long ago as the wall clock says, and now
\* when the wall clock is behind the snapshot.
Restored(s) ==
    [body |-> s.body, ttl |-> s.ttl, born |-> s.born, held |-> now,
     created |-> IF WallSecs >= s.epoch
                 THEN now - (WallSecs - s.epoch) * TicksPerSec
                 ELSE now]

\* The entries a process with configuration c restores: an expired one is
\* skipped unless its time to live is the configured one.
Restorable(c) ==
    {k \in DOMAIN snap : Expired(Restored(snap[k])) => snap[k].ttl = c.ttl}

\* A snapshot is read in no particular order, up to the capacity; none is
\* read when the file does not load.
Kept(c) ==
    LET all == Restorable(c)
        full == {ks \in SUBSET all : Cardinality(ks) = c.max}
    IN  {{}} \cup (IF Cardinality(all) <= c.max THEN {all} ELSE full)

Restart(c) ==
    /\ restarts < MaxRestarts
    /\ \E ks \in Kept(c) : entries' = [k \in ks |-> Restored(snap[k])]
    /\ cfg' = c
    /\ restarts' = restarts + 1
    /\ UNCHANGED <<snap, now, skew>>

-------------------------------------------------------------------------------
(* Time.                                                                   *)

Tick ==
    /\ now < MaxNow
    /\ now' = now + 1
    /\ UNCHANGED <<entries, snap, cfg, skew, restarts>>

SetWallClock(d) ==
    /\ now + skew + d >= 0
    /\ skew + d <= MaxSkew
    /\ skew' = skew + d
    /\ UNCHANGED <<entries, snap, cfg, now, restarts>>

-------------------------------------------------------------------------------
Init ==
    /\ entries = <<>>
    /\ snap = <<>>
    /\ cfg \in Configs
    /\ now = 0
    /\ skew \in StartSkews
    /\ restarts = 0

Next ==
    \/ \E k \in Keys, b \in Bodies : Insert(k, b)
    \/ \E k \in Keys : Remove(k)
    \/ Clear
    \/ Save
    \/ \E c \in Configs : Restart(c)
    \/ Tick
    \/ \E d \in ClockSteps : SetWallClock(d)

Spec == Init /\ [][Next]_vars

-------------------------------------------------------------------------------
(* Properties.                                                             *)

\* The cache never holds more than exact_max_entries entries, across inserts,
\* restarts and changes of the configured capacity.
CapacityBound == Cardinality(DOMAIN entries) <= cfg.max

\* A lookup answers with a body inserted less than its time to live ago, plus
\* a second for the seconds cut off and one more for every restart it may have
\* been carried over.  Holds while the wall clock is steady.
BoundedStaleness ==
    \A k \in Keys : \A e \in Get(k) :
        now - e.born < (e.ttl + restarts + 1) * TicksPerSec

\* However the wall clock is set while the process is down or up, no process
\* serves an entry for longer than its time to live after taking it in.
BoundedHold ==
    \A k \in Keys : \A e \in Get(k) : now - e.held < e.ttl * TicksPerSec

\* Whole seconds of the wall clock at which an entry was inserted and at which
\* the code believes it was: the code may be late by one per restart, and is
\* never early.  This is what makes BoundedStaleness inductive.
BornSecs(e) == Secs(e.born + skew)

DriftBound ==
    /\ \A k \in DOMAIN entries :
          LET created == Secs(entries[k].created + skew)
          IN  BornSecs(entries[k]) <= created
              /\ created <= BornSecs(entries[k]) + restarts
    /\ \A k \in DOMAIN snap :
          /\ BornSecs(snap[k]) <= snap[k].epoch
          /\ snap[k].epoch <= BornSecs(snap[k]) + restarts + 1

\* First in, first out survives restarts: of two entries the one inserted
\* earlier never looks newer, so it is never kept at the other's expense,
\* however the wall clock is set between the restarts.
OrderPreserved ==
    \A j, k \in DOMAIN entries :
        entries[j].born < entries[k].born =>
            entries[j].created <= entries[k].created

\* The promise of TtlStore: what is remembered and what is saved, with the
\* lookups that hit.
Promise == INSTANCE TtlStore WITH
    mem <- [k \in DOMAIN entries |->
               [body |-> entries[k].body, ttl |-> entries[k].ttl,
                born |-> entries[k].born]],
    disk <- [k \in DOMAIN snap |->
               [body |-> snap[k].body, ttl |-> snap[k].ttl,
                born |-> snap[k].born]],
    served <- {k \in Keys : Get(k) # {}},
    Ttls <- {c.ttl : c \in Configs}

\* Under a steady wall clock every operation of the cache is one the promise
\* allows.
KeepsPromise == Promise!Spec

===============================================================================
