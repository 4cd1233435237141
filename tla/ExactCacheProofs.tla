--------------------------- MODULE ExactCacheProofs ---------------------------
(* Theorems about the exact cache, for every set of keys and bodies, every  *)
(* set of configurations, every number of ticks to the second and every     *)
(* bound of the model.                                                      *)
EXTENDS ExactCache, FiniteSetTheorems, TLAPS

-------------------------------------------------------------------------------
(* Arithmetic of whole seconds.                                            *)

\* Cutting to whole seconds and going back loses less than a second.
LEMMA SecsBounds ==
    ASSUME NEW t \in Int
    PROVE  /\ Secs(t) \in Int
           /\ Secs(t) * TicksPerSec <= t
           /\ t < (Secs(t) + 1) * TicksPerSec
<1>1. TicksPerSec \in Int /\ TicksPerSec > 0
  BY TicksAssumption
<1>2. QED
  BY <1>1, Z3 DEF Secs

\* A time that has not reached second q is not cut to q or later.
LEMMA SecsBelow ==
    ASSUME NEW t \in Int, NEW q \in Int, t < q * TicksPerSec
    PROVE  Secs(t) < q
<1>1. TicksPerSec \in Int /\ TicksPerSec > 0
  BY TicksAssumption
<1>2. Secs(t) \in Int /\ Secs(t) * TicksPerSec <= t
  BY SecsBounds
<1>3. SUFFICES ASSUME Secs(t) >= q PROVE FALSE
  BY <1>2
<1>4. Secs(t) * TicksPerSec >= q * TicksPerSec
  BY <1>1, <1>2, <1>3, Z3
<1>5. QED
  BY <1>1, <1>2, <1>4

\* A time that has reached second q is cut to q or later.
LEMMA SecsAbove ==
    ASSUME NEW t \in Int, NEW q \in Int, q * TicksPerSec <= t
    PROVE  q <= Secs(t)
<1>1. TicksPerSec \in Int /\ TicksPerSec > 0
  BY TicksAssumption
<1>2. Secs(t) \in Int /\ t < (Secs(t) + 1) * TicksPerSec
  BY SecsBounds
<1>3. SUFFICES ASSUME Secs(t) + 1 <= q PROVE FALSE
  BY <1>2
<1>4. (Secs(t) + 1) * TicksPerSec <= q * TicksPerSec
  BY <1>1, <1>2, <1>3, Z3
<1>5. QED
  BY <1>1, <1>2, <1>4

-------------------------------------------------------------------------------
(* Type correctness.                                                        *)

LEMMA SecsOfNat ==
    ASSUME NEW t \in Nat
    PROVE  Secs(t) \in Nat
<1>1. 0 * TicksPerSec <= t
  BY TicksAssumption
<1>2. QED
  BY <1>1, SecsAbove, SecsBounds

\* What an insert leaves is one of the sets of present keys.
LEMMA SurvivorsPresent ==
    ASSUME NEW kept \in Survivors
    PROVE  kept \subseteq DOMAIN entries
BY DEF Survivors

\* What a restart keeps was in the snapshot.
LEMMA KeptSaved ==
    ASSUME NEW c, NEW ks \in Kept(c)
    PROVE  ks \subseteq DOMAIN snap
BY DEF Kept, Restorable

LEMMA RestoredType ==
    ASSUME TypeOK, NEW s \in SnapshotEntry
    PROVE  /\ Restored(s) \in CachedEntry
           /\ Restored(s).created <= now
           /\ Restored(s).born = s.born
<1>1. WallSecs \in Nat
  BY SecsOfNat DEF TypeOK, WallSecs
<1>2. TicksPerSec \in Nat
  BY TicksAssumption
<1>3. ASSUME WallSecs >= s.epoch
      PROVE  (WallSecs - s.epoch) * TicksPerSec \in Nat
  BY <1>1, <1>2, <1>3, Z3 DEF SnapshotEntry
<1>4. QED
  BY <1>1, <1>2, <1>3 DEF Restored, CachedEntry, SnapshotEntry, TypeOK

LEMMA SavedType ==
    ASSUME TypeOK, NEW e \in CachedEntry
    PROVE  /\ Saved(e) \in SnapshotEntry
           /\ Saved(e).born = e.born
<1>1. WallSecs \in Nat
  BY SecsOfNat DEF TypeOK, WallSecs
<1>2. Secs(now - e.created) \in Int
  BY SecsBounds DEF TypeOK, CachedEntry
<1>3. QED
  BY <1>1, <1>2 DEF Saved, CachedEntry, SnapshotEntry

\* The cache, its snapshot and the clocks keep their shape through every
\* operation; in particular the wall clock stays at or after the epoch and a
\* snapshot never holds a negative time.
THEOREM TypeCorrect == Spec => []TypeOK
<1>1. Init => TypeOK
  BY ClocksAssumption DEF Init, TypeOK, IsMap
<1>2. ASSUME TypeOK, [Next]_vars
      PROVE  TypeOK'
  <2> USE TypeOK DEF TypeOK
  <2>1. ASSUME NEW k \in Keys, NEW b \in Bodies, Insert(k, b)
        PROVE  TypeOK'
    <3>1. PICK kept \in Survivors :
             entries' = [j \in kept \cup {k} |->
                            IF j = k THEN NewEntry(b) ELSE entries[j]]
      BY <2>1 DEF Insert
    <3>2. kept \subseteq DOMAIN entries
      BY <3>1, SurvivorsPresent
    <3>3. NewEntry(b) \in CachedEntry
      BY ConfigsAssumption DEF NewEntry, CachedEntry
    <3>4. \A j \in kept : entries[j] \in CachedEntry
      BY <3>2 DEF IsMap
    <3>5. IsMap(entries', CachedEntry)
      BY <3>1, <3>2, <3>3, <3>4 DEF IsMap
    <3>6. QED
      BY <2>1, <3>5 DEF Insert, IsMap
  <2>2. ASSUME NEW k \in Keys, Remove(k)
        PROVE  TypeOK'
    BY <2>2 DEF Remove, IsMap, Restrict
  <2>3. CASE Clear
    BY <2>3 DEF Clear, IsMap
  <2>4. CASE Save
    <3>1. \A k \in DOMAIN entries : Saved(entries[k]) \in SnapshotEntry
      BY SavedType DEF IsMap
    <3>2. IsMap(snap', SnapshotEntry)
      BY <2>4, <3>1 DEF Save, IsMap
    <3>3. QED
      BY <2>4, <3>2 DEF Save, IsMap
  <2>5. ASSUME NEW c \in Configs, Restart(c)
        PROVE  TypeOK'
    <3>1. PICK ks \in Kept(c) : entries' = [k \in ks |-> Restored(snap[k])]
      BY <2>5 DEF Restart
    <3>2. ks \subseteq DOMAIN snap
      BY <3>1, KeptSaved
    <3>3. \A k \in ks : Restored(snap[k]) \in CachedEntry
      BY <3>2, RestoredType DEF IsMap
    <3>4. IsMap(entries', CachedEntry)
      BY <3>1, <3>2, <3>3 DEF IsMap
    <3>5. QED
      BY <2>5, <3>4 DEF Restart, IsMap
  <2>6. CASE Tick
    BY <2>6 DEF Tick, IsMap
  <2>7. ASSUME NEW d \in ClockSteps, SetWallClock(d)
        PROVE  TypeOK'
    BY <2>7, ClocksAssumption DEF SetWallClock, IsMap
  <2>8. CASE UNCHANGED vars
    BY <2>8 DEF vars, IsMap
  <2>9. QED
    BY <1>2, <2>1, <2>2, <2>3, <2>4, <2>5, <2>6, <2>7, <2>8 DEF Next
<1>3. QED
  BY <1>1, <1>2, PTL DEF Spec

-------------------------------------------------------------------------------
(* Capacity.                                                                *)

\* The capacity bound is inductive once the maps are known to be finite.
CapacityInv ==
    /\ IsFiniteSet(DOMAIN entries)
    /\ IsFiniteSet(DOMAIN snap)
    /\ CapacityBound

\* An insert makes room first: with a capacity of one or more it never leaves
\* more entries than that, whichever entry it evicts.
LEMMA InsertWithinCapacity ==
    ASSUME TypeOK, CapacityInv, cfg.max > 0,
           NEW k \in Keys, NEW b \in Bodies, Insert(k, b)
    PROVE  CapacityInv'
<1> DEFINE D == DOMAIN entries
<1>1. IsFiniteSet(D) /\ Cardinality(D) \in Nat /\ Cardinality(D) <= cfg.max
  BY FS_CardinalityType DEF CapacityInv, CapacityBound
<1>2. cfg.max \in Nat
  BY ConfigsAssumption DEF TypeOK
<1>3. PICK kept \in Survivors : DOMAIN entries' = kept \cup {k}
  BY DEF Insert
<1>4. IsFiniteSet(kept) /\ Cardinality(kept) \in Nat /\ Cardinality(kept) < cfg.max
  <2>1. CASE Cardinality(D) < cfg.max \/ D = {}
    <3>1. kept = D
      BY <1>3, <2>1 DEF Survivors
    <3>2. QED
      BY <1>1, <1>2, <2>1, <3>1, FS_EmptySet
  <2>2. CASE ~(Cardinality(D) < cfg.max \/ D = {})
    <3>1. PICK v \in Victims : kept = D \ {v}
      BY <1>3, <2>2 DEF Survivors
    <3>2. v \in D
      BY <3>1 DEF Victims
    <3>3. IsFiniteSet(D \ {v}) /\ Cardinality(D \ {v}) = Cardinality(D) - 1
      BY <1>1, <3>2, FS_RemoveElement
    <3>4. QED
      BY <1>1, <1>2, <3>1, <3>3, FS_CardinalityType
  <2>3. QED
    BY <2>1, <2>2
<1>5. /\ IsFiniteSet(kept \cup {k})
      /\ \/ Cardinality(kept \cup {k}) = Cardinality(kept)
         \/ Cardinality(kept \cup {k}) = Cardinality(kept) + 1
  BY <1>4, FS_AddElement, Zenon
<1>6. Cardinality(kept \cup {k}) \in Nat
  BY <1>5, FS_CardinalityType
<1>7. Cardinality(kept \cup {k}) <= cfg.max
  BY <1>2, <1>4, <1>5, <1>6
<1>8. snap' = snap /\ cfg' = cfg
  BY DEF Insert
<1>9. QED
  BY <1>3, <1>5, <1>7, <1>8 DEF CapacityInv, CapacityBound

\* A restart stops reading the snapshot at the capacity it starts with.
LEMMA RestartWithinCapacity ==
    ASSUME CapacityInv, NEW c \in Configs, Restart(c)
    PROVE  CapacityInv'
<1>1. PICK ks \in Kept(c) : DOMAIN entries' = ks
  BY DEF Restart
<1>2. c.max \in Nat
  BY ConfigsAssumption
<1>3. IsFiniteSet(ks)
  BY <1>1, KeptSaved, FS_Subset DEF CapacityInv
<1>4. ks = {} \/ Cardinality(ks) <= c.max
  BY <1>1, <1>2 DEF Kept
<1>5. Cardinality(ks) <= c.max
  BY <1>2, <1>4, FS_EmptySet
<1>6. QED
  BY <1>1, <1>3, <1>5 DEF Restart, CapacityInv, CapacityBound

\* The cache never exceeds exact_max_entries, through any sequence of inserts,
\* removals, saves and restarts with other capacities, when no capacity is 0.
THEOREM CapacityHolds ==
    ASSUME \A c \in Configs : c.max > 0
    PROVE  Spec => []CapacityBound
<1>1. Init => CapacityInv
  BY ConfigsAssumption, FS_EmptySet DEF Init, CapacityInv, CapacityBound
<1>2. ASSUME TypeOK, CapacityInv, [Next]_vars
      PROVE  CapacityInv'
  <2>1. ASSUME NEW k \in Keys, NEW b \in Bodies, Insert(k, b)
        PROVE  CapacityInv'
    BY <1>2, <2>1, InsertWithinCapacity DEF TypeOK
  <2>2. ASSUME NEW k \in Keys, Remove(k)
        PROVE  CapacityInv'
    <3>1. DOMAIN entries' = DOMAIN entries \ {k}
      BY <2>2 DEF Remove, Restrict
    <3>2. /\ IsFiniteSet(DOMAIN entries')
          /\ Cardinality(DOMAIN entries') <= Cardinality(DOMAIN entries)
      BY <1>2, <3>1, FS_Subset DEF CapacityInv
    <3>3. /\ Cardinality(DOMAIN entries') \in Nat
          /\ Cardinality(DOMAIN entries) \in Nat
          /\ cfg.max \in Nat
      BY <1>2, <3>2, FS_CardinalityType, ConfigsAssumption DEF CapacityInv, TypeOK
    <3>4. QED
      BY <1>2, <2>2, <3>2, <3>3 DEF Remove, CapacityInv, CapacityBound
  <2>3. CASE Clear
    <3>1. cfg.max \in Nat
      BY <1>2, ConfigsAssumption DEF TypeOK
    <3>2. QED
      BY <1>2, <2>3, <3>1, FS_EmptySet DEF Clear, CapacityInv, CapacityBound
  <2>4. CASE Save
    BY <1>2, <2>4 DEF Save, CapacityInv, CapacityBound
  <2>5. ASSUME NEW c \in Configs, Restart(c)
        PROVE  CapacityInv'
    BY <1>2, <2>5, RestartWithinCapacity
  <2>6. CASE Tick
    BY <1>2, <2>6 DEF Tick, CapacityInv, CapacityBound
  <2>7. ASSUME NEW d \in ClockSteps, SetWallClock(d)
        PROVE  CapacityInv'
    BY <1>2, <2>7 DEF SetWallClock, CapacityInv, CapacityBound
  <2>8. CASE UNCHANGED vars
    BY <1>2, <2>8 DEF vars, CapacityInv, CapacityBound
  <2>9. QED
    BY <1>2, <2>1, <2>2, <2>3, <2>4, <2>5, <2>6, <2>7, <2>8 DEF Next
<1>3. CapacityInv => CapacityBound
  BY DEF CapacityInv
<1>4. QED
  BY <1>1, <1>2, <1>3, TypeCorrect, PTL DEF Spec

-------------------------------------------------------------------------------
(* How long a process serves what it holds, whatever the wall clock does.   *)

\* An entry never looks newer than the moment the process took it in.
HoldInv == \A k \in DOMAIN entries : entries[k].created <= entries[k].held

\* A process serves an entry for less than its time to live after it inserted
\* or restored it, under every setting of the wall clock.
THEOREM HoldBounded == Spec => []BoundedHold
<1>1. Init => HoldInv
  BY DEF Init, HoldInv
<1>2. ASSUME TypeOK, HoldInv, [Next]_vars
      PROVE  HoldInv'
  <2>1. ASSUME NEW k \in Keys, NEW b \in Bodies, Insert(k, b)
        PROVE  HoldInv'
    <3>1. PICK kept \in Survivors :
             entries' = [j \in kept \cup {k} |->
                            IF j = k THEN NewEntry(b) ELSE entries[j]]
      BY <2>1 DEF Insert
    <3>2. NewEntry(b).created <= NewEntry(b).held
      BY <1>2 DEF NewEntry, TypeOK
    <3>3. \A j \in kept : entries[j].created <= entries[j].held
      BY <1>2, <3>1, SurvivorsPresent DEF HoldInv
    <3>4. QED
      BY <3>1, <3>2, <3>3 DEF HoldInv
  <2>2. ASSUME NEW k \in Keys, Remove(k)
        PROVE  HoldInv'
    BY <1>2, <2>2 DEF Remove, Restrict, HoldInv
  <2>3. CASE Clear
    BY <2>3 DEF Clear, HoldInv
  <2>4. CASE Save
    BY <1>2, <2>4 DEF Save, HoldInv
  <2>5. ASSUME NEW c \in Configs, Restart(c)
        PROVE  HoldInv'
    <3>1. PICK ks \in Kept(c) : entries' = [k \in ks |-> Restored(snap[k])]
      BY <2>5 DEF Restart
    <3>2. \A k \in ks : /\ Restored(snap[k]).created <= now
                        /\ Restored(snap[k]).held = now
      BY <1>2, <3>1, KeptSaved, RestoredType DEF TypeOK, IsMap, Restored
    <3>3. QED
      BY <3>1, <3>2 DEF HoldInv
  <2>6. CASE Tick
    BY <1>2, <2>6 DEF Tick, HoldInv
  <2>7. ASSUME NEW d \in ClockSteps, SetWallClock(d)
        PROVE  HoldInv'
    BY <1>2, <2>7 DEF SetWallClock, HoldInv
  <2>8. CASE UNCHANGED vars
    BY <1>2, <2>8 DEF vars, HoldInv
  <2>9. QED
    BY <1>2, <2>1, <2>2, <2>3, <2>4, <2>5, <2>6, <2>7, <2>8 DEF Next
<1>3. ASSUME TypeOK, HoldInv
      PROVE  BoundedHold
  <2>1. SUFFICES ASSUME NEW k \in Keys, NEW e \in Get(k)
                 PROVE  now - e.held < e.ttl * TicksPerSec
    BY DEF BoundedHold
  <2>2. PICK j \in DOMAIN entries : e = entries[j] /\ ~Expired(entries[j])
    BY <2>1 DEF Get
  <2>3. e \in CachedEntry /\ e.created <= e.held
    BY <1>3, <2>2 DEF TypeOK, IsMap, HoldInv
  <2>4. e.ttl * TicksPerSec \in Int
    BY <2>3, TicksAssumption DEF CachedEntry
  <2>5. QED
    BY <1>3, <2>2, <2>3, <2>4 DEF Expired, TypeOK, CachedEntry
<1>4. QED
  BY <1>1, <1>2, <1>3, TypeCorrect, PTL DEF Spec

-------------------------------------------------------------------------------
(* Insertion order, through restarts and settings of the wall clock.        *)

LEMMA SecsMonotone ==
    ASSUME NEW t \in Int, NEW u \in Int, t <= u
    PROVE  Secs(t) <= Secs(u)
<1>1. Secs(t) \in Int /\ Secs(t) * TicksPerSec <= t /\ Secs(t) * TicksPerSec \in Int
  BY SecsBounds, TicksAssumption
<1>2. QED
  BY <1>1, SecsAbove

\* Entries and snapshot list times in the order of insertion, none ahead.
OrderInv ==
    /\ \A k \in DOMAIN entries : /\ entries[k].created <= now
                                 /\ entries[k].born <= now
    /\ \A k \in DOMAIN snap : snap[k].born <= now
    /\ OrderPreserved
    /\ \A j, k \in DOMAIN snap :
          snap[j].born < snap[k].born => snap[j].epoch <= snap[k].epoch

\* A snapshot keeps the order of the times it cuts.
LEMMA SavedMonotone ==
    ASSUME TypeOK, NEW d \in CachedEntry, NEW e \in CachedEntry,
           d.created <= e.created
    PROVE  Saved(d).epoch <= Saved(e).epoch
<1>1. now - d.created \in Int /\ now - e.created \in Int
  BY DEF TypeOK, CachedEntry
<1>2. /\ Secs(now - e.created) \in Int
      /\ Secs(now - d.created) \in Int
      /\ WallSecs \in Int
  BY <1>1, SecsBounds DEF WallSecs, TypeOK
<1>3. now - e.created <= now - d.created
  BY <1>1 DEF TypeOK, CachedEntry
<1>4. Secs(now - e.created) <= Secs(now - d.created)
  BY <1>1, <1>3, SecsMonotone
<1>5. QED
  BY <1>2, <1>4 DEF Saved

\* A restart keeps the order of the times it reads, and none is ahead.
LEMMA RestoredMonotone ==
    ASSUME TypeOK, NEW s \in SnapshotEntry, NEW t \in SnapshotEntry,
           s.epoch <= t.epoch
    PROVE  Restored(s).created <= Restored(t).created
<1>1. WallSecs \in Nat /\ TicksPerSec \in Nat /\ now \in Int
  BY SecsOfNat, TicksAssumption DEF TypeOK, WallSecs
<1>2. s.epoch \in Nat /\ t.epoch \in Nat
  BY DEF SnapshotEntry
<1>3. CASE WallSecs >= t.epoch
  <2>1. (WallSecs - t.epoch) * TicksPerSec <= (WallSecs - s.epoch) * TicksPerSec
    BY <1>1, <1>2, <1>3, Z3
  <2>2. /\ (WallSecs - t.epoch) * TicksPerSec \in Int
        /\ (WallSecs - s.epoch) * TicksPerSec \in Int
    BY <1>1, <1>2
  <2>3. /\ Restored(s).created = now - (WallSecs - s.epoch) * TicksPerSec
        /\ Restored(t).created = now - (WallSecs - t.epoch) * TicksPerSec
    BY <1>1, <1>2, <1>3 DEF Restored
  <2>4. QED
    BY <1>1, <2>1, <2>2, <2>3
<1>4. CASE ~(WallSecs >= t.epoch)
  <2>1. Restored(t).created = now
    BY <1>4 DEF Restored
  <2>2. QED
    BY <2>1, RestoredType
<1>5. QED
  BY <1>3, <1>4

\* Of two entries the one inserted earlier is never taken for the newer one:
\* eviction stays first in, first out across any number of restarts.
THEOREM OrderHolds == Spec => []OrderPreserved
<1>1. Init => OrderInv
  BY DEF Init, OrderInv, OrderPreserved
<1>2. ASSUME TypeOK, OrderInv, [Next]_vars
      PROVE  OrderInv'
  <2>1. ASSUME NEW k \in Keys, NEW b \in Bodies, Insert(k, b)
        PROVE  OrderInv'
    <3>1. PICK kept \in Survivors :
             entries' = [j \in kept \cup {k} |->
                            IF j = k THEN NewEntry(b) ELSE entries[j]]
      BY <2>1 DEF Insert
    <3>2. kept \subseteq DOMAIN entries
      BY <3>1, SurvivorsPresent
    <3>3. NewEntry(b).created = now /\ NewEntry(b).born = now /\ now \in Nat
      BY <1>2 DEF NewEntry, TypeOK
    <3>4. \A j \in DOMAIN entries : entries[j].created \in Int /\ entries[j].born \in Nat
      BY <1>2 DEF TypeOK, IsMap, CachedEntry
    <3>5. UNCHANGED <<snap, now>>
      BY <2>1 DEF Insert
    <3>6. \A j \in DOMAIN entries' : entries'[j].created <= now /\ entries'[j].born <= now
      BY <1>2, <3>1, <3>2, <3>3 DEF OrderInv
    <3>7. OrderPreserved'
      BY <1>2, <3>1, <3>2, <3>3, <3>4 DEF OrderInv, OrderPreserved
    <3>8. QED
      BY <1>2, <3>5, <3>6, <3>7 DEF OrderInv
  <2>2. ASSUME NEW k \in Keys, Remove(k)
        PROVE  OrderInv'
    BY <1>2, <2>2 DEF Remove, Restrict, OrderInv, OrderPreserved
  <2>3. CASE Clear
    BY <1>2, <2>3 DEF Clear, OrderInv, OrderPreserved
  <2>4. CASE Save
    <3>1. \A k \in DOMAIN entries : entries[k] \in CachedEntry
      BY <1>2 DEF TypeOK, IsMap
    <3>2. snap' = [k \in DOMAIN entries |-> Saved(entries[k])]
      BY <2>4 DEF Save
    <3>3. \A k \in DOMAIN snap' : snap'[k].born = entries[k].born
      BY <1>2, <3>1, <3>2, SavedType
    <3>4. \A j, k \in DOMAIN snap' :
             snap'[j].born < snap'[k].born => snap'[j].epoch <= snap'[k].epoch
      BY <1>2, <3>1, <3>2, <3>3, SavedMonotone DEF OrderInv, OrderPreserved
    <3>5. UNCHANGED <<entries, now>>
      BY <2>4 DEF Save
    <3>6. QED
      BY <1>2, <3>2, <3>3, <3>4, <3>5 DEF OrderInv, OrderPreserved
  <2>5. ASSUME NEW c \in Configs, Restart(c)
        PROVE  OrderInv'
    <3>1. PICK ks \in Kept(c) : entries' = [k \in ks |-> Restored(snap[k])]
      BY <2>5 DEF Restart
    <3>2. ks \subseteq DOMAIN snap
      BY <3>1, KeptSaved
    <3>3. \A k \in DOMAIN snap : snap[k] \in SnapshotEntry
      BY <1>2 DEF TypeOK, IsMap
    <3>4. \A k \in ks : /\ Restored(snap[k]).created <= now
                        /\ Restored(snap[k]).born = snap[k].born
      BY <1>2, <3>2, <3>3, RestoredType
    <3>5. \A j, k \in ks :
             snap[j].born < snap[k].born =>
                Restored(snap[j]).created <= Restored(snap[k]).created
      BY <1>2, <3>2, <3>3, RestoredMonotone DEF OrderInv
    <3>6. UNCHANGED <<snap, now>>
      BY <2>5 DEF Restart
    <3>7. OrderPreserved'
      BY <3>1, <3>4, <3>5 DEF OrderPreserved
    <3>8. \A k \in ks : snap[k].born <= now
      BY <1>2, <3>2 DEF OrderInv
    <3>9. QED
      BY <1>2, <3>1, <3>4, <3>6, <3>7, <3>8 DEF OrderInv
  <2>6. CASE Tick
    <3>1. now' = now + 1 /\ now \in Nat /\ UNCHANGED <<entries, snap>>
      BY <1>2, <2>6 DEF Tick, TypeOK
    <3>2. \A k \in DOMAIN entries : entries[k].created \in Int /\ entries[k].born \in Nat
      BY <1>2 DEF TypeOK, IsMap, CachedEntry
    <3>3. \A k \in DOMAIN snap : snap[k].born \in Nat
      BY <1>2 DEF TypeOK, IsMap, SnapshotEntry
    <3>4. QED
      BY <1>2, <3>1, <3>2, <3>3 DEF OrderInv, OrderPreserved
  <2>7. ASSUME NEW d \in ClockSteps, SetWallClock(d)
        PROVE  OrderInv'
    BY <1>2, <2>7 DEF SetWallClock, OrderInv, OrderPreserved
  <2>8. CASE UNCHANGED vars
    BY <1>2, <2>8 DEF vars, OrderInv, OrderPreserved
  <2>9. QED
    BY <1>2, <2>1, <2>2, <2>3, <2>4, <2>5, <2>6, <2>7, <2>8 DEF Next
<1>3. OrderInv => OrderPreserved
  BY DEF OrderInv
<1>4. QED
  BY <1>1, <1>2, <1>3, TypeCorrect, PTL DEF Spec

-------------------------------------------------------------------------------
(* How stale an answer may be, under a steady wall clock.                   *)

\* Whole seconds of a sum and of its two parts differ by at most one.
LEMMA SecsSum ==
    ASSUME NEW a \in Int, NEW b \in Int
    PROVE  /\ Secs(a) + Secs(b) <= Secs(a + b)
           /\ Secs(a + b) <= Secs(a) + Secs(b) + 1
<1> DEFINE p == Secs(a) * TicksPerSec
           q == Secs(b) * TicksPerSec
<1>1. TicksPerSec \in Int /\ Secs(a) \in Int /\ Secs(b) \in Int /\ Secs(a + b) \in Int
  BY SecsBounds, TicksAssumption
<1>2. p \in Int /\ q \in Int /\ p <= a /\ q <= b
  BY <1>1, SecsBounds
<1>3. a < p + TicksPerSec /\ b < q + TicksPerSec
  <2>1. a < (Secs(a) + 1) * TicksPerSec /\ b < (Secs(b) + 1) * TicksPerSec
    BY SecsBounds
  <2>2. /\ (Secs(a) + 1) * TicksPerSec = p + TicksPerSec
        /\ (Secs(b) + 1) * TicksPerSec = q + TicksPerSec
    BY <1>1, Z3
  <2>3. QED
    BY <2>1, <2>2
<1>4. (Secs(a) + Secs(b)) * TicksPerSec = p + q
  BY <1>1, Z3
<1>5. (Secs(a) + Secs(b) + 2) * TicksPerSec = p + q + TicksPerSec + TicksPerSec
  BY <1>1, Z3
<1>6. (Secs(a) + Secs(b)) * TicksPerSec <= a + b
  BY <1>1, <1>2, <1>4
<1>7. a + b < (Secs(a) + Secs(b) + 2) * TicksPerSec
  BY <1>1, <1>2, <1>3, <1>5
<1>8. Secs(a) + Secs(b) <= Secs(a + b)
  BY <1>1, <1>6, SecsAbove
<1>9. Secs(a + b) < Secs(a) + Secs(b) + 2
  BY <1>1, <1>7, SecsBelow
<1>10. QED
  BY <1>1, <1>8, <1>9

\* The drift bound is inductive together with what it rests on: the wall clock
\* is at or after the epoch and has reached every time a snapshot holds.
DriftInv ==
    /\ skew \in Nat
    /\ \A k \in DOMAIN entries : entries[k].created <= now
    /\ \A k \in DOMAIN snap : snap[k].epoch <= WallSecs
    /\ DriftBound

\* A snapshot takes an entry for as old as it is, or for a second younger.
LEMMA SavedDrift ==
    ASSUME TypeOK, DriftInv, NEW k \in DOMAIN entries
    PROVE  /\ Secs(entries[k].created + skew) <= Saved(entries[k]).epoch
           /\ Saved(entries[k]).epoch <= Secs(entries[k].created + skew) + 1
           /\ Saved(entries[k]).epoch <= WallSecs
<1> DEFINE e == entries[k]
           age == now - e.created
           mark == e.created + skew
<1>1. e \in CachedEntry /\ e.created \in Int /\ e.born \in Nat
  BY DEF TypeOK, IsMap, CachedEntry
<1>2. now \in Nat /\ skew \in Nat /\ age \in Nat /\ mark \in Int
  BY <1>1 DEF TypeOK, DriftInv
<1>3. WallSecs = Secs(mark + age)
  <2>1. mark + age = now + skew
    BY <1>1, <1>2
  <2>2. QED
    BY <2>1 DEF WallSecs
<1>4. Secs(mark) + Secs(age) <= WallSecs /\ WallSecs <= Secs(mark) + Secs(age) + 1
  <2>1. age \in Int
    BY <1>2
  <2> HIDE DEF mark, age
  <2>2. QED
    BY <1>2, <1>3, <2>1, SecsSum
<1>5. BornSecs(e) <= Secs(mark)
  BY DEF DriftInv, DriftBound
<1>6. BornSecs(e) \in Nat
  BY <1>1, <1>2, SecsOfNat DEF BornSecs
<1>7. Secs(age) \in Nat /\ Secs(mark) \in Int /\ WallSecs \in Int
  BY <1>2, SecsOfNat, SecsBounds DEF WallSecs
<1>8. Saved(e).epoch = WallSecs - Secs(age)
  BY <1>4, <1>5, <1>6, <1>7 DEF Saved
<1>9. QED
  BY <1>4, <1>7, <1>8

\* A restored entry was created in the second its snapshot says.
LEMMA RestoredSecond ==
    ASSUME TypeOK, skew \in Nat, NEW s \in SnapshotEntry, s.epoch <= WallSecs
    PROVE  Secs(Restored(s).created + skew) = s.epoch
<1> DEFINE wall == now + skew
           back == (WallSecs - s.epoch) * TicksPerSec
           mark == Restored(s).created + skew
<1>1. /\ TicksPerSec \in Int /\ WallSecs \in Int /\ s.epoch \in Int
      /\ now \in Int /\ wall \in Int /\ back \in Int
  BY TicksAssumption, SecsBounds DEF TypeOK, WallSecs, SnapshotEntry
<1>2. mark = wall - back
  BY <1>1 DEF Restored
<1>3. WallSecs * TicksPerSec <= wall /\ wall < (WallSecs + 1) * TicksPerSec
  BY <1>1, SecsBounds DEF WallSecs
<1>4. /\ WallSecs * TicksPerSec - back = s.epoch * TicksPerSec
      /\ (WallSecs + 1) * TicksPerSec - back = (s.epoch + 1) * TicksPerSec
  BY <1>1, Z3
<1>5. s.epoch * TicksPerSec <= mark /\ mark < (s.epoch + 1) * TicksPerSec
  BY <1>1, <1>2, <1>3, <1>4
<1>6. mark \in Int
  BY <1>1, <1>2
<1>7. Secs(mark) = s.epoch
  <2> HIDE DEF mark
  <2>1. s.epoch <= Secs(mark)
    BY <1>1, <1>5, <1>6, SecsAbove
  <2>2. Secs(mark) < s.epoch + 1
    BY <1>1, <1>5, <1>6, SecsBelow
  <2>3. QED
    BY <1>1, <1>6, <2>1, <2>2, SecsBounds
<1>8. QED
  BY <1>7

\* Under a steady wall clock the code is never early about the second in which
\* an entry was inserted, and late by at most one per restart.
THEOREM DriftHolds ==
    ASSUME ClockSteps = {}
    PROVE  Spec => []DriftInv
<1>1. Init => DriftInv
  BY ClocksAssumption DEF Init, DriftInv, DriftBound
<1>2. ASSUME TypeOK, DriftInv, [Next]_vars
      PROVE  DriftInv'
  <2>0. /\ \A k \in DOMAIN entries :
              /\ entries[k] \in CachedEntry
              /\ BornSecs(entries[k]) \in Int
              /\ Secs(entries[k].created + skew) \in Int
        /\ \A k \in DOMAIN snap :
              /\ snap[k] \in SnapshotEntry
              /\ BornSecs(snap[k]) \in Int
              /\ snap[k].epoch \in Int
        /\ now \in Nat /\ restarts \in Nat /\ skew \in Nat
    BY <1>2, SecsBounds DEF TypeOK, IsMap, CachedEntry, SnapshotEntry, BornSecs, DriftInv
  <2>1. ASSUME NEW k \in Keys, NEW b \in Bodies, Insert(k, b)
        PROVE  DriftInv'
    <3>1. PICK kept \in Survivors :
             entries' = [j \in kept \cup {k} |->
                            IF j = k THEN NewEntry(b) ELSE entries[j]]
      BY <2>1 DEF Insert
    <3>2. kept \subseteq DOMAIN entries
      BY <3>1, SurvivorsPresent
    <3>3. NewEntry(b).created = now /\ NewEntry(b).born = now /\ Secs(now + skew) \in Int
      BY <2>0, SecsBounds DEF NewEntry
    <3>4. UNCHANGED <<snap, now, skew, restarts>>
      BY <2>1 DEF Insert
    <3>5. \A j \in DOMAIN entries' : entries'[j].created <= now
      BY <1>2, <2>0, <3>1, <3>2, <3>3 DEF DriftInv
    <3>6. \A j \in DOMAIN entries' :
             /\ Secs(entries'[j].born + skew) <= Secs(entries'[j].created + skew)
             /\ Secs(entries'[j].created + skew)
                   <= Secs(entries'[j].born + skew) + restarts
      BY <1>2, <2>0, <3>1, <3>2, <3>3 DEF DriftInv, DriftBound, BornSecs
    <3>7. QED
      BY <1>2, <3>4, <3>5, <3>6 DEF DriftInv, DriftBound, BornSecs, WallSecs, Secs
  <2>2. ASSUME NEW k \in Keys, Remove(k)
        PROVE  DriftInv'
    BY <1>2, <2>2 DEF Remove, Restrict, DriftInv, DriftBound, BornSecs, WallSecs, Secs
  <2>3. CASE Clear
    BY <1>2, <2>3 DEF Clear, DriftInv, DriftBound, BornSecs, WallSecs, Secs
  <2>4. CASE Save
    <3>1. UNCHANGED <<entries, now, skew, restarts>>
          /\ snap' = [k \in DOMAIN entries |-> Saved(entries[k])]
      BY <2>4 DEF Save
    <3>2. \A k \in DOMAIN entries :
             /\ Saved(entries[k]).born = entries[k].born
             /\ Saved(entries[k]).epoch \in Int
      BY <1>2, <2>0, SavedType DEF SnapshotEntry
    <3>3. \A k \in DOMAIN entries :
             /\ BornSecs(entries[k]) <= Saved(entries[k]).epoch
             /\ Saved(entries[k]).epoch <= BornSecs(entries[k]) + restarts + 1
             /\ Saved(entries[k]).epoch <= WallSecs
      BY <1>2, <2>0, <3>2, SavedDrift DEF DriftInv, DriftBound
    <3>4. \A k \in DOMAIN snap' :
             /\ Secs(snap'[k].born + skew) <= snap'[k].epoch
             /\ snap'[k].epoch <= Secs(snap'[k].born + skew) + restarts + 1
             /\ snap'[k].epoch <= WallSecs
      BY <3>1, <3>2, <3>3 DEF BornSecs
    <3>5. QED
      BY <1>2, <3>1, <3>4 DEF DriftInv, DriftBound, BornSecs, WallSecs, Secs
  <2>5. ASSUME NEW c \in Configs, Restart(c)
        PROVE  DriftInv'
    <3>1. PICK ks \in Kept(c) : entries' = [k \in ks |-> Restored(snap[k])]
      BY <2>5 DEF Restart
    <3>2. ks \subseteq DOMAIN snap
      BY <3>1, KeptSaved
    <3>3. \A k \in ks : /\ Restored(snap[k]).created <= now
                        /\ Restored(snap[k]).born = snap[k].born
                        /\ Secs(Restored(snap[k]).created + skew) = snap[k].epoch
      BY <1>2, <2>0, <3>2, RestoredType, RestoredSecond DEF DriftInv
    <3>4. UNCHANGED <<snap, now, skew>> /\ restarts' = restarts + 1
      BY <2>5 DEF Restart
    <3>5. \A k \in DOMAIN snap :
             /\ Secs(snap[k].born + skew) <= snap[k].epoch
             /\ snap[k].epoch <= Secs(snap[k].born + skew) + restarts + 1
             /\ Secs(snap[k].born + skew) \in Int
             /\ snap[k].epoch \in Int
      BY <1>2, <2>0 DEF DriftInv, DriftBound, BornSecs
    <3>6. \A k \in DOMAIN entries' :
             /\ entries'[k].created <= now
             /\ Secs(entries'[k].born + skew) <= Secs(entries'[k].created + skew)
             /\ Secs(entries'[k].created + skew)
                   <= Secs(entries'[k].born + skew) + (restarts + 1)
      BY <2>0, <3>1, <3>2, <3>3, <3>5
    <3>7. \A k \in DOMAIN snap :
             snap[k].epoch <= Secs(snap[k].born + skew) + (restarts + 1) + 1
      BY <2>0, <3>5
    <3>8. \A k \in DOMAIN snap : snap[k].epoch <= WallSecs
      BY <1>2 DEF DriftInv
    <3>9. QED
      BY <2>0, <3>4, <3>5, <3>6, <3>7, <3>8 DEF DriftInv, DriftBound, BornSecs, WallSecs, Secs
  <2>6. CASE Tick
    <3>1. now' = now + 1 /\ UNCHANGED <<entries, snap, skew, restarts>>
      BY <2>6 DEF Tick
    <3>2. WallSecs <= Secs(now + 1 + skew)
      BY <2>0, SecsMonotone DEF WallSecs
    <3>3. Secs(now + 1 + skew) \in Int /\ WallSecs \in Int
      BY <2>0, SecsBounds DEF WallSecs
    <3>4. \A k \in DOMAIN snap : snap[k].epoch <= Secs(now + 1 + skew)
      BY <1>2, <2>0, <3>2, <3>3 DEF DriftInv
    <3>5. \A k \in DOMAIN entries : entries[k].created <= now + 1
      BY <1>2, <2>0 DEF DriftInv, CachedEntry
    <3>6. QED
      BY <1>2, <2>0, <3>1, <3>4, <3>5 DEF DriftInv, DriftBound, BornSecs, WallSecs, Secs
  <2>7. CASE UNCHANGED vars
    BY <1>2, <2>7 DEF vars, DriftInv, DriftBound, BornSecs, WallSecs, Secs
  <2>8. QED
    BY <1>2, <2>1, <2>2, <2>3, <2>4, <2>5, <2>6, <2>7 DEF Next
<1>3. QED
  BY <1>1, <1>2, TypeCorrect, PTL DEF Spec

\* Under a steady wall clock a lookup never answers with a body older than its
\* time to live by more than one second and one per restart.
THEOREM StalenessBounded ==
    ASSUME ClockSteps = {}
    PROVE  Spec => []BoundedStaleness
<1>1. ASSUME TypeOK, DriftInv
      PROVE  BoundedStaleness
  <2>1. SUFFICES ASSUME NEW k \in Keys, NEW e \in Get(k)
                 PROVE  now - e.born < (e.ttl + restarts + 1) * TicksPerSec
    BY DEF BoundedStaleness
  <2>2. PICK j \in DOMAIN entries : e = entries[j] /\ ~Expired(entries[j])
    BY <2>1 DEF Get
  <2> DEFINE mark == Secs(e.created + skew)
             origin == Secs(e.born + skew)
  <2>3. /\ e.created \in Int /\ e.born \in Nat /\ e.ttl \in Nat
        /\ now \in Nat /\ skew \in Nat /\ restarts \in Nat
        /\ TicksPerSec \in Nat
    BY <1>1, <2>2, TicksAssumption DEF TypeOK, IsMap, CachedEntry, DriftInv
  <2>4. mark <= origin + restarts
    BY <1>1, <2>2 DEF DriftInv, DriftBound, BornSecs
  <2>5. /\ mark \in Int /\ origin \in Int
        /\ e.created + skew < (mark + 1) * TicksPerSec
        /\ origin * TicksPerSec <= e.born + skew
    BY <2>3, SecsBounds
  <2>6. (mark + 1) * TicksPerSec <= (origin + restarts + 1) * TicksPerSec
    BY <2>3, <2>4, <2>5, Z3
  <2>7. (origin + restarts + 1) * TicksPerSec
           = origin * TicksPerSec + (restarts + 1) * TicksPerSec
    BY <2>3, <2>5, Z3
  <2>8. (e.ttl + restarts + 1) * TicksPerSec
           = e.ttl * TicksPerSec + (restarts + 1) * TicksPerSec
    BY <2>3, Z3
  <2>9. now - e.created < e.ttl * TicksPerSec
    BY <2>2, <2>3 DEF Expired
  <2>10. /\ origin * TicksPerSec \in Int
         /\ (restarts + 1) * TicksPerSec \in Int
         /\ (mark + 1) * TicksPerSec \in Int
         /\ e.ttl * TicksPerSec \in Int
    BY <2>3, <2>5
  <2>11. QED
    BY <2>3, <2>5, <2>6, <2>7, <2>8, <2>9, <2>10
<1>2. QED
  BY <1>1, TypeCorrect, DriftHolds, PTL

\* The code is never early about the second of an insertion, and late by at most one
\* per restart, as the runs state it.
THEOREM DriftBounded ==
    ASSUME ClockSteps = {}
    PROVE  Spec => []DriftBound
<1>1. DriftInv => DriftBound
  BY DEF DriftInv
<1>2. QED
  BY <1>1, DriftHolds, PTL

-------------------------------------------------------------------------------
(* The promise of TtlStore, under a steady wall clock.                      *)

\* What is remembered of an entry, or saved of it.
Record(e) == [body |-> e.body, ttl |-> e.ttl, born |-> e.born]

Mem == [k \in DOMAIN entries |-> Record(entries[k])]

Disk == [k \in DOMAIN snap |-> Record(snap[k])]

Served == {k \in Keys : Get(k) # {}}

\* The seconds of an entry, with what is known of them.
LEMMA EntrySeconds ==
    ASSUME TypeOK, DriftInv, NEW k \in DOMAIN entries
    PROVE  LET e == entries[k] IN
           /\ e.created \in Int /\ e.born \in Nat /\ e.ttl \in Nat
           /\ now \in Nat /\ skew \in Nat /\ restarts \in Nat
           /\ Secs(e.created + skew) \in Int /\ Secs(e.born + skew) \in Int
           /\ Secs(e.born + skew) <= Secs(e.created + skew)
           /\ Secs(e.created + skew) <= Secs(e.born + skew) + restarts
BY SecsBounds DEF TypeOK, IsMap, CachedEntry, DriftInv, DriftBound, BornSecs

\* A record a second younger than its time to live has not expired.
LEMMA YoungServed ==
    ASSUME TypeOK, DriftInv, NEW k \in DOMAIN entries,
           now - entries[k].born <= (entries[k].ttl - 1) * TicksPerSec
    PROVE  ~Expired(entries[k])
<1> DEFINE e == entries[k]
           mark == Secs(e.created + skew)
           origin == Secs(e.born + skew)
<1>1. /\ e.created \in Int /\ e.born \in Nat /\ e.ttl \in Nat
      /\ now \in Nat /\ skew \in Nat
      /\ mark \in Int /\ origin \in Int /\ origin <= mark
      /\ TicksPerSec \in Nat
  BY EntrySeconds, TicksAssumption
<1>2. /\ mark * TicksPerSec <= e.created + skew
      /\ e.born + skew < (origin + 1) * TicksPerSec
  BY <1>1, SecsBounds
<1>3. (origin + 1) * TicksPerSec <= mark * TicksPerSec + TicksPerSec
  BY <1>1, Z3
<1>4. (e.ttl - 1) * TicksPerSec = e.ttl * TicksPerSec - TicksPerSec
  BY <1>1, Z3
<1>5. /\ mark * TicksPerSec \in Int /\ (origin + 1) * TicksPerSec \in Int
      /\ e.ttl * TicksPerSec \in Int
  BY <1>1
<1> HIDE DEF mark, origin
<1>6. now - e.created < e.ttl * TicksPerSec
  <2>1. now - e.born <= e.ttl * TicksPerSec - TicksPerSec
    BY <1>4
  <2>2. e.born < e.created + TicksPerSec
    BY <1>1, <1>2, <1>3, <1>5
  <2> HIDE DEF e
  <2>3. QED
    BY <1>1, <1>5, <2>1, <2>2
<1>7. QED
  BY <1>1, <1>5, <1>6 DEF Expired

\* An entry as old as any other was inserted before it, to a second per restart.
LEMMA OldestBorn ==
    ASSUME TypeOK, DriftInv, NEW v \in DOMAIN entries, NEW j \in DOMAIN entries,
           entries[v].created <= entries[j].created
    PROVE  entries[v].born < entries[j].born + (restarts + 1) * TicksPerSec
<1> DEFINE d == entries[v]
           e == entries[j]
           first == Secs(d.born + skew)
           origin == Secs(e.born + skew)
<1>1. /\ d.created \in Int /\ d.born \in Nat /\ e.created \in Int /\ e.born \in Nat
      /\ skew \in Nat /\ restarts \in Nat /\ TicksPerSec \in Nat
      /\ first \in Int /\ origin \in Int
  BY EntrySeconds, TicksAssumption
<1>2. first <= origin + restarts
  <2>1. Secs(d.created + skew) <= Secs(e.created + skew)
    BY <1>1, SecsMonotone
  <2>2. /\ first <= Secs(d.created + skew)
        /\ Secs(e.created + skew) <= origin + restarts
        /\ Secs(d.created + skew) \in Int /\ Secs(e.created + skew) \in Int
    BY EntrySeconds
  <2> HIDE DEF first, origin
  <2>3. QED
    BY <1>1, <2>1, <2>2
<1>3. d.born + skew < (first + 1) * TicksPerSec /\ origin * TicksPerSec <= e.born + skew
  BY <1>1, SecsBounds
<1> HIDE DEF first, origin
<1>4. (first + 1) * TicksPerSec <= (origin + restarts + 1) * TicksPerSec
  BY <1>1, <1>2, Z3
<1>5. (origin + restarts + 1) * TicksPerSec
         = origin * TicksPerSec + (restarts + 1) * TicksPerSec
  BY <1>1, Z3
<1>6. /\ (first + 1) * TicksPerSec \in Int /\ origin * TicksPerSec \in Int
      /\ (restarts + 1) * TicksPerSec \in Int
  BY <1>1
<1>7. QED
  BY <1>1, <1>3, <1>4, <1>5, <1>6

\* What a lookup answers is what the promise lets it answer, and has to.
ServesInv == Promise!Serves(Mem, now, restarts, Served)

LEMMA ServesPromise ==
    ASSUME TypeOK, DriftInv, BoundedStaleness
    PROVE  ServesInv
<1>1. DOMAIN Mem = DOMAIN entries /\ DOMAIN entries \subseteq Keys
  BY DEF Mem, TypeOK, IsMap
<1>2. \A k \in DOMAIN entries : k \in Served <=> ~Expired(entries[k])
  BY <1>1 DEF Served, Get
<1>3. Served \subseteq DOMAIN entries
  BY DEF Served, Get
<1>4. \A k \in DOMAIN entries : Mem[k].born = entries[k].born /\ Mem[k].ttl = entries[k].ttl
  BY DEF Mem, Record
<1>5. ASSUME NEW k \in Served
      PROVE  ~Promise!Outlived(Mem[k], now, restarts)
  <2>1. entries[k] \in Get(k) /\ k \in Keys
    BY <1>1, <1>2, <1>3 DEF Get
  <2>2. now - entries[k].born < (entries[k].ttl + restarts + 1) * TicksPerSec
    BY <2>1 DEF BoundedStaleness
  <2>3. /\ entries[k].ttl \in Nat /\ restarts \in Nat /\ TicksPerSec \in Nat
        /\ now - entries[k].born \in Int
    BY <1>3, EntrySeconds, TicksAssumption
  <2>4. (entries[k].ttl + restarts + 1) * TicksPerSec
           = entries[k].ttl * TicksPerSec + (restarts + 1) * TicksPerSec
    BY <2>3, Z3
  <2>5. entries[k].ttl * TicksPerSec \in Int /\ (restarts + 1) * TicksPerSec \in Int
    BY <2>3
  <2>6. QED
    BY <1>3, <1>4, <2>2, <2>3, <2>4, <2>5 DEF Promise!Outlived, Promise!Drift
<1>6. ASSUME NEW k \in DOMAIN entries, Promise!Young(Mem[k], now)
      PROVE  k \in Served
  BY <1>2, <1>4, <1>6, YoungServed DEF Promise!Young
<1>7. QED
  BY <1>1, <1>3, <1>5, <1>6 DEF ServesInv, Promise!Serves

\* An insert evicts at most one other entry, and one that the promise lets go.
LEMMA VictimDisplaceable ==
    ASSUME TypeOK, DriftInv, NEW v \in Victims
    PROVE  Promise!Displaceable(v)
<1>1. v \in DOMAIN entries
  BY DEF Victims
<1>2. CASE Expired(entries[v])
  BY <1>1, <1>2, YoungServed DEF Promise!Displaceable, Promise!Young
<1>3. CASE \A j \in DOMAIN entries : entries[v].created <= entries[j].created
  BY <1>1, <1>3, OldestBorn DEF Promise!Displaceable, Promise!Drift
<1>4. QED
  BY <1>2, <1>3 DEF Victims

LEMMA InsertPromise ==
    ASSUME TypeOK, DriftInv, NEW k \in Keys, NEW b \in Bodies, Insert(k, b)
    PROVE  Promise!Put(k, [body |-> b, ttl |-> cfg.ttl, born |-> now])
<1> DEFINE r == [body |-> b, ttl |-> cfg.ttl, born |-> now]
<1>1. PICK kept \in Survivors :
         entries' = [j \in kept \cup {k} |-> IF j = k THEN NewEntry(b) ELSE entries[j]]
  BY DEF Insert
<1>2. kept \subseteq DOMAIN entries
  BY <1>1, SurvivorsPresent
<1>3. PICK lost \in {{}} \cup {{j} : j \in {i \in DOMAIN entries : Promise!Displaceable(i)}} :
         kept = DOMAIN entries \ lost
  <2>1. CASE kept = DOMAIN entries
    BY <2>1
  <2>2. ASSUME NEW v \in Victims, kept = DOMAIN entries \ {v}
        PROVE  {v} \in {{j} : j \in {i \in DOMAIN entries : Promise!Displaceable(i)}}
    BY <2>2, VictimDisplaceable DEF Victims
  <2>3. QED
    BY <2>1, <2>2 DEF Survivors
<1>4. Mem' = [j \in (DOMAIN Mem \ lost) \cup {k} |-> IF j = k THEN r ELSE Mem[j]]
  <2>1. Record(NewEntry(b)) = r
    BY DEF Record, NewEntry
  <2>2. DOMAIN Mem = DOMAIN entries /\ \A j \in DOMAIN entries : Mem[j] = Record(entries[j])
    BY DEF Mem
  <2>3. Mem' = [j \in kept \cup {k} |-> IF j = k THEN r ELSE Record(entries[j])]
    BY <1>1, <2>1 DEF Mem, Record
  <2>4. QED
    BY <1>2, <1>3, <2>2, <2>3
<1>5. UNCHANGED <<Disk, now, restarts>>
  BY DEF Insert, Disk, Record
<1>6. QED
  BY <1>3, <1>4, <1>5 DEF Promise!Put, Mem, Disk, Record

LEMMA RestartPromise ==
    ASSUME TypeOK, NEW c \in Configs, Restart(c)
    PROVE  Promise!Restart
<1>1. PICK ks \in Kept(c) : entries' = [k \in ks |-> Restored(snap[k])]
  BY DEF Restart
<1>2. ks \in SUBSET DOMAIN snap
  BY <1>1, KeptSaved
<1>3. \A k \in ks : Record(Restored(snap[k])) = Record(snap[k])
  BY DEF Record, Restored
<1>4. Mem' = [k \in ks |-> Disk[k]]
  BY <1>1, <1>2, <1>3 DEF Mem, Disk, Record
<1>5. UNCHANGED <<Disk, now>> /\ restarts' = restarts + 1
  BY DEF Restart, Disk, Record
<1>6. DOMAIN Disk = DOMAIN snap
  BY DEF Disk
<1>7. Mem' = [k \in DOMAIN Disk \cap ks |-> Disk[k]]
  BY <1>2, <1>4, <1>6
<1>8. QED
  BY <1>2, <1>5, <1>6, <1>7 DEF Promise!Restart, Promise!Restrict, Restrict, Mem, Disk, Record

\* Restricting what is remembered is forgetting the rest.
LEMMA ForgetPromise ==
    ASSUME TypeOK, NEW lost \in SUBSET Keys,
           DOMAIN entries' = DOMAIN entries \ lost,
           \A k \in DOMAIN entries' : entries'[k] = entries[k],
           UNCHANGED <<snap, now, restarts>>
    PROVE  Promise!Forget(lost)
<1>1. DOMAIN Mem = DOMAIN entries
  BY DEF Mem
<1>2. Mem' = [k \in DOMAIN Mem \ lost |-> Mem[k]]
  BY <1>1 DEF Mem, Record
<1>3. Disk' = Disk
  BY DEF Disk, Record
<1>4. QED
  BY <1>2, <1>3 DEF Promise!Forget, Promise!Restrict, Restrict, Mem, Disk, Record

LEMMA StepPromise ==
    ASSUME TypeOK, DriftInv, ServesInv', ClockSteps = {}, [Next]_vars
    PROVE  [Promise!Next]_(Promise!vars)
<1>1. Promise!ServesNext
  BY DEF Promise!ServesNext, ServesInv, Mem, Record, Served
<1>2. ASSUME NEW k \in Keys, NEW b \in Bodies, Insert(k, b)
      PROVE  Promise!Next
  <2>1. Promise!Put(k, [body |-> b, ttl |-> cfg.ttl, born |-> now])
    BY <1>2, InsertPromise
  <2>2. cfg.ttl \in {c.ttl : c \in Configs}
    BY DEF TypeOK
  <2>3. \E t \in {c.ttl : c \in Configs} :
           Promise!Put(k, [body |-> b, ttl |-> t, born |-> now])
    BY <2>1, <2>2 DEF Promise!Put
  <2>4. QED
    BY <1>1, <2>3 DEF Promise!Next
<1>3. ASSUME NEW k \in Keys, Remove(k)
      PROVE  Promise!Next
  <2>1. /\ DOMAIN entries' = DOMAIN entries \ {k}
        /\ \A j \in DOMAIN entries' : entries'[j] = entries[j]
        /\ UNCHANGED <<snap, now, restarts>>
    BY <1>3 DEF Remove, Restrict
  <2>2. QED
    BY <1>1, <2>1, ForgetPromise DEF Promise!Next
<1>4. CASE Clear
  <2>1. DOMAIN entries' = DOMAIN entries \ Keys /\ UNCHANGED <<snap, now, restarts>>
    BY <1>4 DEF Clear, TypeOK, IsMap
  <2>2. QED
    BY <1>1, <1>4, <2>1, ForgetPromise DEF Clear, Promise!Next
<1>5. CASE Save
  <2>1. Disk' = Mem
    BY <1>5 DEF Save, Saved, Mem, Disk, Record
  <2>2. Promise!Save
    BY <1>5, <2>1 DEF Save, Promise!Save, Mem, Disk, Record
  <2>3. QED
    BY <1>1, <2>2 DEF Promise!Next
<1>6. ASSUME NEW c \in Configs, Restart(c)
      PROVE  Promise!Next
  BY <1>1, <1>6, RestartPromise DEF Promise!Next
<1>7. CASE Tick
  <2>1. Promise!Tick
    BY <1>7 DEF Tick, Promise!Tick
  <2>2. QED
    BY <1>1, <2>1 DEF Promise!Next
<1>8. CASE UNCHANGED vars
  BY <1>8 DEF vars, Promise!vars, Get, Expired
<1>9. QED
  BY <1>2, <1>3, <1>4, <1>5, <1>6, <1>7, <1>8 DEF Next

\* Under a steady wall clock the exact cache implements TtlStore: it remembers the last
\* body of a key or nothing, gives up at most one other record for a new one, brings back
\* only what was saved, and serves a record as long as it must and no longer than it may.
THEOREM PromiseKept ==
    ASSUME ClockSteps = {}
    PROVE  Spec => KeepsPromise
<1>1. Init => Promise!Init
  BY DEF Init, Promise!Init, Get
<1>2. TypeOK /\ DriftInv /\ BoundedStaleness => ServesInv
  BY ServesPromise
<1>3. TypeOK /\ DriftInv /\ ServesInv' /\ [Next]_vars => [Promise!Next]_(Promise!vars)
  BY StepPromise
<1>4. QED
  BY <1>1, <1>2, <1>3, TypeCorrect, DriftHolds, StalenessBounded, PTL
     DEF Spec, KeepsPromise, Promise!Spec

===============================================================================
