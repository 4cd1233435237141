-------------------------- MODULE SemanticIndexProofs --------------------------
(* Theorems about the semantic index, for every set of threads, number of    *)
(* shards and configuration, every number of ticks to the second, every      *)
(* setting of the wall clock and every bound of the model.                   *)
EXTENDS SemanticIndex, SumsProofs

-------------------------------------------------------------------------------
(* The ranks of the elements of an ordered set.                            *)

\* R is a strict order of all of L.
Orders(R, L) ==
    /\ \A x \in L : <<x, x>> \notin R
    /\ \A x, y \in L : x = y \/ <<x, y>> \in R \/ <<y, x>> \in R
    /\ \A x, y, z \in L : <<x, y>> \in R /\ <<y, z>> \in R => <<x, z>> \in R

Below(R, L, x) == {y \in L : <<y, x>> \in R}

\* The number of predecessors tells the elements of a finite ordered set apart, and is
\* every number that is less than the number of the elements.
LEMMA Ranks ==
    ASSUME NEW L, IsFiniteSet(L), NEW R, Orders(R, L)
    PROVE  [x \in L |-> Cardinality(Below(R, L, x))] \in Bijection(L, 0 .. Cardinality(L) - 1)
<1> DEFINE rank == [x \in L |-> Cardinality(Below(R, L, x))]
<1>1. Cardinality(L) \in Nat
  BY FS_CardinalityType
<1>2. \A x \in L : IsFiniteSet(Below(R, L, x)) /\ Cardinality(Below(R, L, x)) \in Nat
  <2> SUFFICES ASSUME NEW x \in L
               PROVE  IsFiniteSet(Below(R, L, x)) /\ Cardinality(Below(R, L, x)) \in Nat
    OBVIOUS
  <2>1. IsFiniteSet(Below(R, L, x))
    BY FS_Subset DEF Below
  <2>2. QED
    BY <2>1, FS_CardinalityType
<1>3. ASSUME NEW x \in L
      PROVE  Cardinality(Below(R, L, x)) < Cardinality(L)
  <2>1. Below(R, L, x) \subseteq L /\ Below(R, L, x) # L
    BY DEF Orders, Below
  <2>2. Cardinality(Below(R, L, x)) <= Cardinality(L)
        /\ Cardinality(Below(R, L, x)) # Cardinality(L)
    BY <2>1, FS_Subset
  <2>3. QED
    BY <1>1, <1>2, <2>2
<1>4. ASSUME NEW x \in L, NEW y \in L, <<x, y>> \in R
      PROVE  Cardinality(Below(R, L, x)) # Cardinality(Below(R, L, y))
  <2>1. Below(R, L, x) \subseteq Below(R, L, y) /\ Below(R, L, x) # Below(R, L, y)
    BY <1>4 DEF Orders, Below
  <2>2. QED
    BY <1>2, <2>1, FS_Subset
<1>5. rank \in Injection(L, 0 .. Cardinality(L) - 1)
  <2>1. \A x \in L : Cardinality(Below(R, L, x)) \in 0 .. Cardinality(L) - 1
    BY <1>1, <1>2, <1>3
  <2>2. ASSUME NEW x \in L, NEW y \in L, Cardinality(Below(R, L, x)) = Cardinality(Below(R, L, y))
        PROVE  x = y
    BY <1>4, <2>2 DEF Orders
  <2>3. QED
    BY <2>1, <2>2 DEF Injection, IsInjective
<1> HIDE DEF rank
<1>6. IsFiniteSet(0 .. Cardinality(L) - 1) /\ Cardinality(0 .. Cardinality(L) - 1) = Cardinality(L)
  BY <1>1, FS_Interval
<1>7. rank \in Surjection(L, 0 .. Cardinality(L) - 1)
  BY <1>5, <1>6, FS_Injection
<1>8. QED
  BY <1>5, <1>7 DEF Bijection, rank

\* A bijection keeps sizes.
LEMMA SameSize ==
    ASSUME NEW S, NEW T, IsFiniteSet(S), NEW f \in [S -> T],
           \A x, y \in S : f[x] = f[y] => x = y, \A z \in T : \E x \in S : f[x] = z
    PROVE  IsFiniteSet(T) /\ Cardinality(T) = Cardinality(S)
<1>1. f \in Surjection(S, T) /\ f \in Injection(S, T)
  BY DEF Surjection, Injection, IsInjective
<1>2. QED
  BY <1>1, FS_Surjection

\* The first k elements are k, if there are as many.
LEMMA FirstCount ==
    ASSUME NEW L, IsFiniteSet(L), NEW R, Orders(R, L), NEW k \in Nat
    PROVE  LET first == {x \in L : Cardinality(Below(R, L, x)) < k}
           IN  /\ IsFiniteSet(first)
               /\ k <= Cardinality(L) => Cardinality(first) = k
               /\ k > Cardinality(L) => first = L
<1> DEFINE first == {x \in L : Cardinality(Below(R, L, x)) < k}
           rank == [x \in L |-> Cardinality(Below(R, L, x))]
<1>1. IsFiniteSet(first) /\ Cardinality(L) \in Nat
  BY FS_Subset, FS_CardinalityType
<1>2. /\ rank \in [L -> 0 .. Cardinality(L) - 1]
      /\ \A x, y \in L : rank[x] = rank[y] => x = y
      /\ \A m \in 0 .. Cardinality(L) - 1 : \E x \in L : rank[x] = m
  <2>1. rank \in Bijection(L, 0 .. Cardinality(L) - 1)
    BY Ranks
  <2> HIDE DEF rank
  <2>2. QED
    BY <2>1 DEF Bijection, Injection, Surjection, IsInjective
<1>3. first = {x \in L : rank[x] < k}
  OBVIOUS
<1> HIDE DEF first, rank
<1>4. ASSUME k <= Cardinality(L)
      PROVE  Cardinality(first) = k
  <2> DEFINE f == [x \in first |-> rank[x]]
  <2>1. \A x \in first : x \in L /\ rank[x] \in 0 .. k - 1
    BY <1>2, <1>3
  <2>2. f \in [first -> 0 .. k - 1] /\ \A x \in first : f[x] = rank[x]
    BY <2>1
  <2> HIDE DEF f
  <2>3. \A x, y \in first : f[x] = f[y] => x = y
    BY <1>2, <2>1, <2>2
  <2>4. \A m \in 0 .. k - 1 : \E x \in first : f[x] = m
    <3> SUFFICES ASSUME NEW m \in 0 .. k - 1
                 PROVE  \E x \in first : f[x] = m
      OBVIOUS
    <3>1. m \in 0 .. Cardinality(L) - 1
      BY <1>1, <1>4
    <3>2. PICK x \in L : rank[x] = m
      BY <1>2, <3>1
    <3>3. x \in first
      BY <1>3, <3>2
    <3>4. QED
      BY <2>2, <3>2, <3>3
  <2> DEFINE T == 0 .. k - 1
  <2> HIDE DEF T
  <2>5. Cardinality(T) = Cardinality(first)
    <3>1. f \in [first -> T] /\ \A m \in T : \E x \in first : f[x] = m
      BY <2>2, <2>4 DEF T
    <3>2. QED
      BY <1>1, <2>3, <3>1, SameSize
  <2>6. Cardinality(T) = k
    BY FS_Interval DEF T
  <2>7. QED
    BY <2>5, <2>6
<1>5. ASSUME k > Cardinality(L)
      PROVE  first = L
  <2>1. \A x \in L : rank[x] \in 0 .. Cardinality(L) - 1
    BY <1>2
  <2>2. \A x \in L : rank[x] < k
    BY <1>1, <1>5, <2>1
  <2>3. QED
    BY <1>3, <2>2
<1>6. QED
  BY <1>1, <1>4, <1>5 DEF first

LEMMA FirstOnes ==
    ASSUME NEW L, IsFiniteSet(L), NEW R, Orders(R, L), NEW k \in Nat
    PROVE  Cardinality({x \in L : Cardinality(Below(R, L, x)) < k}) <= k
<1> DEFINE first == {x \in L : Cardinality(Below(R, L, x)) < k}
<1>1. /\ k <= Cardinality(L) => Cardinality(first) = k
      /\ k > Cardinality(L) => first = L
  BY FirstCount
<1>2. Cardinality(L) \in Nat
  BY FS_CardinalityType
<1> HIDE DEF first
<1>3. QED
  BY <1>1, <1>2 DEF first

\* The image of a finite set under a function.
LEMMA ImageFinite ==
    ASSUME NEW S, IsFiniteSet(S), NEW f, DOMAIN f = S
    PROVE  /\ IsFiniteSet({f[x] : x \in S})
           /\ Cardinality({f[x] : x \in S}) <= Cardinality(S)
<1> DEFINE T == {f[x] : x \in S}
           g == [x \in S |-> f[x]]
<1>1. g \in Surjection(S, T)
  BY DEF Surjection
<1> HIDE DEF g, T
<1>2. IsFiniteSet(T) /\ Cardinality(T) <= Cardinality(S)
  BY <1>1, FS_Surjection
<1>3. QED
  BY <1>2 DEF T

-------------------------------------------------------------------------------
(* Buckets.                                                                *)

\* A set of items with a number each.
Numbered(b) == \A x, y \in b : x.n = y.n => x = y

\* evict_bucket leaves items that live, and no more than the cap of a bucket.
LEMMA EvictBucketCap ==
    ASSUME cfg.bucket \in Nat, NEW b, b \subseteq Item, IsFiniteSet(b), Numbered(b)
    PROVE  /\ EvictBucket(b) \subseteq Live(b)
           /\ IsFiniteSet(EvictBucket(b))
           /\ Cardinality(EvictBucket(b)) <= cfg.bucket
<1> DEFINE L == Live(b)
           R == {p \in L \X L : Older(p[2], p[1])}
<1>1. L \subseteq Item /\ IsFiniteSet(L) /\ Numbered(L)
  BY FS_Subset DEF Live, Numbered
<1>2. \A x, y \in L : <<x, y>> \in R <=> Older(y, x)
  OBVIOUS
<1>3. \A x \in L : <<x, x>> \notin R
  BY <1>1, <1>2 DEF Older, Item
<1>4. \A x, y \in L : x = y \/ <<x, y>> \in R \/ <<y, x>> \in R
  <2>1. ASSUME NEW x \in L, NEW y \in L, x.n # y.n
        PROVE  Older(x, y) \/ Older(y, x)
    <3>1. x.created \in Int /\ y.created \in Int /\ x.n \in Nat /\ y.n \in Nat
      BY <1>1 DEF Item
    <3>2. QED
      BY <2>1, <3>1 DEF Older
  <2> HIDE DEF L, R
  <2>2. QED
    BY <1>1, <1>2, <2>1 DEF Numbered
<1>5. \A x, y, z \in L : <<x, y>> \in R /\ <<y, z>> \in R => <<x, z>> \in R
  BY <1>1, <1>2 DEF Older, Item
<1>6. EvictBucket(b) = {x \in L : Cardinality(Below(R, L, x)) < cfg.bucket}
  <2>1. ASSUME NEW x \in L
        PROVE  Below(R, L, x) = {y \in L : Older(x, y)}
    BY <1>2 DEF Below
  <2>2. QED
    BY <2>1 DEF EvictBucket
<1> HIDE DEF R
<1>7. Cardinality(EvictBucket(b)) <= cfg.bucket
  <2>1. Orders(R, L)
    BY <1>3, <1>4, <1>5 DEF Orders
  <2> HIDE DEF L
  <2>2. QED
    BY <1>1, <1>6, <2>1, FirstOnes
<1>8. EvictBucket(b) \subseteq L
  BY DEF EvictBucket
<1>9. QED
  BY <1>1, <1>7, <1>8, FS_Subset

\* What a restart makes of a saved bucket: live items with the numbers they had, and no
\* more than the cap of a bucket.
LEMMA RestoredBucket ==
    ASSUME TypeOK, NEW b, b \subseteq SavedItem, IsFiniteSet(b), Numbered(b),
           NEW wall \in Int, NEW c \in Configs
    PROVE  /\ Restored(b, wall, c) \subseteq Item
           /\ IsFiniteSet(Restored(b, wall, c))
           /\ Cardinality(Restored(b, wall, c)) <= c.bucket
           /\ Numbered(Restored(b, wall, c))
           /\ \A x \in Restored(b, wall, c) :
                 /\ x.created <= now /\ ~Expired(x)
                 /\ \E s \in b : x.n = s.n
<1> DEFINE item(s) == [n |-> s.n, ttl |-> s.ttl,
                       created |-> now - (wall - s.epoch) * TicksPerSec]
           good == {s \in b : s.epoch <= wall /\ ~Expired(item(s))}
           R == {p \in good \X good : p[1].n < p[2].n}
           kept == {g \in good : Cardinality({h \in good : h.n < g.n}) < c.bucket}
           f == [s \in kept |-> item(s)]
<1>1. Restored(b, wall, c) = {f[s] : s \in kept} /\ DOMAIN f = kept
  BY DEF Restored
<1>2. good \subseteq SavedItem /\ IsFiniteSet(good) /\ Numbered(good)
  BY FS_Subset DEF Numbered
<1>3. \A x, y \in good : <<x, y>> \in R <=> x.n < y.n
  OBVIOUS
<1>4. /\ \A x \in good : <<x, x>> \notin R
      /\ \A x, y \in good : x = y \/ <<x, y>> \in R \/ <<y, x>> \in R
      /\ \A x, y, z \in good : <<x, y>> \in R /\ <<y, z>> \in R => <<x, z>> \in R
  <2>1. \A x \in good : x.n \in Nat
    BY <1>2 DEF SavedItem
  <2> HIDE DEF good, R
  <2>2. QED
    BY <1>2, <1>3, <2>1 DEF Numbered
<1>5. kept = {x \in good : Cardinality(Below(R, good, x)) < c.bucket}
  <2>1. ASSUME NEW x \in good
        PROVE  Below(R, good, x) = {y \in good : y.n < x.n}
    BY <1>3 DEF Below
  <2>2. QED
    BY <2>1
<1>6. c.bucket \in Nat
  BY ConfigsAssumption
<1>7. Cardinality(kept) <= c.bucket /\ IsFiniteSet(kept)
  <2> HIDE DEF R, good
  <2>0. Orders(R, good)
    BY <1>4 DEF Orders
  <2>1. Cardinality(kept) <= c.bucket
    <3>1. Cardinality({x \in good : Cardinality(Below(R, good, x)) < c.bucket}) <= c.bucket
      BY <1>2, <1>6, <2>0, FirstOnes
    <3>2. QED
      BY <1>5, <3>1
  <2>2. QED
    BY <1>2, <2>1, FS_Subset
<1>8. /\ IsFiniteSet(Restored(b, wall, c))
      /\ Cardinality(Restored(b, wall, c)) <= c.bucket
  <2> HIDE DEF kept, f
  <2>1. /\ IsFiniteSet({f[s] : s \in kept})
        /\ Cardinality({f[s] : s \in kept}) <= Cardinality(kept)
    BY <1>1, <1>7, ImageFinite
  <2>2. /\ Cardinality(kept) \in Nat
        /\ Cardinality({f[s] : s \in kept}) \in Nat
    BY <1>7, <2>1, FS_CardinalityType
  <2>3. QED
    BY <1>1, <1>6, <1>7, <2>1, <2>2
<1>9. ASSUME NEW s \in kept
      PROVE  /\ item(s) \in Item /\ item(s).n = s.n
             /\ item(s).created <= now /\ ~Expired(item(s))
  <2>1. s \in SavedItem /\ s.epoch <= wall /\ ~Expired(item(s))
    BY <1>2
  <2>2. TicksPerSec \in Nat /\ now \in Nat /\ wall - s.epoch \in Nat
    BY <2>1, ClockAssumption DEF TypeOK, SavedItem
  <2>3. (wall - s.epoch) * TicksPerSec \in Nat
    BY <2>2
  <2>4. QED
    BY <2>1, <2>2, <2>3 DEF SavedItem, Item
<1>10. \A x \in Restored(b, wall, c) : \E s \in kept : x = item(s)
  BY <1>1
<1>11. \A s \in kept : s \in b
  OBVIOUS
<1> HIDE DEF kept, item
<1>12. Numbered(Restored(b, wall, c))
  BY <1>9, <1>10, <1>11 DEF Numbered
<1>13. QED
  BY <1>8, <1>9, <1>10, <1>11, <1>12

-------------------------------------------------------------------------------
(* Passes.                                                                 *)

\* A copy for a snapshot holds whole buckets of the contexts passed, each item once.
Copied(p) ==
    /\ IsFiniteSet(p.copy)
    /\ \A q \in p.copy : q[1] < p.next /\ q[2].n <= pushes
    /\ \A q, r \in p.copy : q[1] = r[1] /\ q[2].n = r[2].n => q = r

CopyInv == \A t \in Threads : Copied(pass[t])

LEMMA ContextsType ==
    /\ Shards \in Nat /\ Shards >= 1
    /\ 1 \in Contexts
    /\ \A c \in Contexts : c # Shards => c + 1 \in Contexts /\ c < c + 1
BY ShardsAssumption DEF Contexts

LEMMA DoingType ==
    ASSUME NEW what \in Stages
    PROVE  Doing(what) \in Passes /\ Copied(Doing(what))
<1>1. 1 \in Contexts
  BY ContextsType
<1>2. Doing(what) \in Passes
  BY <1>1 DEF Doing, Passes
<1>3. Doing(what).copy = {}
  BY DEF Doing
<1>4. QED
  BY <1>2, <1>3, FS_EmptySet DEF Copied

LEMMA IdleType == Idle \in Passes /\ Copied(Idle)
BY DoingType DEF Idle, Stages

\* A pass goes on, or comes to its end.
LEMMA GoesOn ==
    ASSUME TypeOK, CopyInv, NEW t \in Threads, UNCHANGED pushes,
           NEW going \in Passes, going.next = pass[t].next,
           NEW end \in Passes, Copied(end),
           \/ going.copy = pass[t].copy
           \/ going.next # Shards => Copied([going EXCEPT !.next = going.next + 1]),
           Goes(t, going, end)
    PROVE  pass' \in [Threads -> Passes] /\ CopyInv'
<1> DEFINE next == [going EXCEPT !.next = pass[t].next + 1]
<1>1. pass[t] \in Passes /\ pass[t].next \in Contexts /\ Copied(pass[t])
  BY DEF TypeOK, Passes, CopyInv
<1>2. CASE pass[t].next = Shards
  <2>1. pass' = [pass EXCEPT ![t] = end]
    BY <1>2 DEF Goes
  <2>2. QED
    BY <2>1 DEF TypeOK, CopyInv, Copied
<1>3. CASE pass[t].next # Shards
  <2>1. pass' = [pass EXCEPT ![t] = next]
    BY <1>3 DEF Goes
  <2>2. pass[t].next + 1 \in Contexts /\ pass[t].next \in Nat
    BY <1>1, <1>3, ContextsType DEF Contexts
  <2>3. next \in Passes
    BY <2>2 DEF Passes
  <2>4. Copied(next)
    <3>1. CASE going.copy = pass[t].copy
      <4>1. next.copy = pass[t].copy /\ next.next = pass[t].next + 1
        BY <3>1 DEF Passes
      <4>2. \A q \in pass[t].copy : q[1] \in Nat
        BY <1>1 DEF Passes, Contexts
      <4>3. \A q \in pass[t].copy : q[1] < pass[t].next + 1
        BY <1>1, <2>2, <4>2 DEF Copied
      <4> HIDE DEF next
      <4>4. QED
        BY <1>1, <4>1, <4>3 DEF Copied
    <3>2. CASE Copied([going EXCEPT !.next = going.next + 1])
      BY <3>2
    <3>3. QED
      BY <1>3, <3>1, <3>2
  <2> HIDE DEF next
  <2>5. QED
    BY <2>1, <2>3, <2>4 DEF TypeOK, CopyInv, Copied
<1>4. QED
  BY <1>2, <1>3

LEMMA SavedType ==
    ASSUME TypeOK, NEW c \in Contexts, NEW x \in index[c]
    PROVE  Saved(x) \in SavedItem /\ Saved(x).n = x.n
<1>1. x \in Item /\ now + skew \in Int /\ now - x.created \in Int
  BY DEF TypeOK, Item
<1>2. \A u \in Int : Secs(u) \in Int
  BY ClockAssumption DEF Secs
<1>3. WallSecs - Secs(now - x.created) \in Int
  BY <1>1, <1>2 DEF WallSecs
<1>4. QED
  BY <1>1, <1>3 DEF Saved, SavedItem, Item

\* The step of a snapshot: the bucket of the next context is copied.
LEMMA CopyStep ==
    ASSUME TypeOK, CopyInv, NEW t \in Threads,
           \A c \in Contexts : IsFiniteSet(index[c])
    PROVE  LET c == pass[t].next
               copy == pass[t].copy \cup {<<c, Saved(x)>> : x \in index[c]}
           IN  /\ copy \in SUBSET (Contexts \X SavedItem)
               /\ IsFiniteSet(copy)
               /\ \A q \in copy : q[1] < c + 1 /\ q[2].n <= pushes
               /\ \A q, r \in copy : q[1] = r[1] /\ q[2].n = r[2].n => q = r
<1> DEFINE c == pass[t].next
           old == pass[t].copy
           f == [x \in index[c] |-> <<c, Saved(x)>>]
           new == {f[x] : x \in index[c]}
           copy == old \cup new
<1>1. c \in Contexts /\ c \in Nat /\ old \in SUBSET (Contexts \X SavedItem)
  BY DEF TypeOK, Passes, Contexts
<1>2. Copied(pass[t])
  BY DEF CopyInv
<1>3. \A x \in index[c] :
         /\ Saved(x) \in SavedItem /\ Saved(x).n = x.n /\ x.n <= pushes
  BY <1>1, SavedType DEF TypeOK
<1>4. copy = pass[t].copy \cup {<<c, Saved(x)>> : x \in index[c]}
  OBVIOUS
<1>5. IsFiniteSet(copy)
  <2>1. IsFiniteSet(new)
    BY <1>1, ImageFinite
  <2> HIDE DEF new
  <2>2. QED
    BY <1>2, <2>1, FS_Union DEF Copied
<1>6. \A q \in new : \E x \in index[c] : q = <<c, Saved(x)>> /\ q[1] = c /\ q[2] = Saved(x)
  <2>1. \A x \in index[c] : f[x] = <<c, Saved(x)>>
    OBVIOUS
  <2> SUFFICES ASSUME NEW q \in new
               PROVE  \E x \in index[c] : q = <<c, Saved(x)>> /\ q[1] = c /\ q[2] = Saved(x)
    OBVIOUS
  <2>2. PICK x \in index[c] : q = f[x]
    OBVIOUS
  <2> HIDE DEF new, f, c
  <2>3. q = <<c, Saved(x)>>
    BY <2>1, <2>2
  <2>4. q[1] = c /\ q[2] = Saved(x)
    BY <2>3
  <2>5. QED
    BY <2>2, <2>3, <2>4
<1>7. \A q \in old : q[1] < c /\ q[1] \in Nat /\ q[2].n <= pushes
  BY <1>1, <1>2 DEF Copied, Contexts
<1>8. \A x, y \in index[c] : x.n = y.n => x = y
  BY <1>1 DEF TypeOK
<1>9. \A q, r \in old : q[1] = r[1] /\ q[2].n = r[2].n => q = r
  BY <1>2 DEF Copied
<1> HIDE DEF new, old, c, f
<1>10. copy \in SUBSET (Contexts \X SavedItem)
  BY <1>1, <1>3, <1>6
<1>11. \A q \in new : q[1] = c /\ q[2].n <= pushes
  BY <1>3, <1>6
<1>12. \A q \in copy : q[1] < c + 1 /\ q[2].n <= pushes
  BY <1>1, <1>7, <1>11
<1>13. \A q, r \in new : q[1] = r[1] /\ q[2].n = r[2].n => q = r
  BY <1>3, <1>6, <1>8
<1>14. \A q \in old, r \in new : q[1] # r[1]
  BY <1>1, <1>7, <1>11
<1>15. \A q, r \in copy : q[1] = r[1] /\ q[2].n = r[2].n => q = r
  BY <1>9, <1>13, <1>14
<1>16. QED
  BY <1>4, <1>5, <1>10, <1>12, <1>15 DEF c

FiniteInv ==
    \A c \in Contexts :
        IsFiniteSet(index[c]) /\ IsFiniteSet(file[c]) /\ Numbered(file[c])

\* A count of what a pass has seen.
LEMMA PassSum ==
    ASSUME TypeOK, FiniteInv, NEW t \in Threads
    PROVE  /\ pass[t] \in Passes /\ pass[t].next \in Contexts
           /\ pass[t].sum + Cardinality(index[pass[t].next]) \in Nat
<1>1. pass[t] \in Passes /\ pass[t].next \in Contexts /\ pass[t].sum \in Nat
  BY DEF TypeOK, Passes
<1>2. Cardinality(index[pass[t].next]) \in Nat
  BY <1>1, FS_CardinalityType DEF FiniteInv
<1>3. QED
  BY <1>1, <1>2

LEMMA CountPass ==
    ASSUME TypeOK, FiniteInv, CopyInv, NEW t \in Threads, Count(t)
    PROVE  pass' \in [Threads -> Passes] /\ CopyInv'
<1> DEFINE sum == pass[t].sum + Cardinality(index[pass[t].next])
           going == [pass[t] EXCEPT !.sum = sum]
           end == IF sum > cfg.max THEN Doing("expiring") ELSE Idle
<1>1. going \in Passes /\ going.next = pass[t].next /\ going.copy = pass[t].copy
  BY PassSum DEF Passes
<1>2. end \in Passes /\ Copied(end)
  BY DoingType, IdleType DEF Stages
<1>3. Goes(t, going, end) /\ UNCHANGED pushes
  BY DEF Count
<1> HIDE DEF going, end
<1>4. QED
  BY <1>1, <1>2, <1>3, GoesOn

LEMMA RecountPass ==
    ASSUME TypeOK, FiniteInv, CopyInv, NEW t \in Threads, Recount(t)
    PROVE  pass' \in [Threads -> Passes] /\ CopyInv'
<1> DEFINE sum == pass[t].sum + Cardinality(index[pass[t].next])
           going == [pass[t] EXCEPT !.sum = sum]
           end == IF sum > cfg.max
                  THEN [Doing("collecting") EXCEPT !.sum = sum - cfg.max] ELSE Idle
<1>1. going \in Passes /\ going.next = pass[t].next /\ going.copy = pass[t].copy
  BY PassSum DEF Passes
<1>2. end \in Passes /\ Copied(end)
  <2>1. sum \in Nat /\ cfg.max \in Nat
    BY PassSum, ConfigsAssumption DEF TypeOK
  <2>2. Doing("collecting") \in Passes /\ Copied(Doing("collecting"))
    BY DoingType DEF Stages
  <2>3. ASSUME sum > cfg.max
        PROVE  /\ [Doing("collecting") EXCEPT !.sum = sum - cfg.max] \in Passes
               /\ Copied([Doing("collecting") EXCEPT !.sum = sum - cfg.max])
    <3>1. sum - cfg.max \in Nat
      BY <2>1, <2>3
    <3> HIDE DEF sum
    <3>2. QED
      BY <2>2, <3>1 DEF Passes, Copied
  <2>4. QED
    BY <2>3, IdleType
<1>3. Goes(t, going, end) /\ UNCHANGED pushes
  BY DEF Recount
<1> HIDE DEF going, end
<1>4. QED
  BY <1>1, <1>2, <1>3, GoesOn

LEMMA CollectPass ==
    ASSUME TypeOK, FiniteInv, CopyInv, NEW t \in Threads, Collect(t)
    PROVE  pass' \in [Threads -> Passes] /\ CopyInv'
<1> DEFINE c == pass[t].next
           found == pass[t].found \cup {<<c, x, Position(index[c], x)>> : x \in index[c]}
           doomed == {<<p[1], p[3]>> : p \in Oldest(found, pass[t].sum)}
           going == [pass[t] EXCEPT !.found = found]
           end == IF doomed = {} THEN Idle ELSE [Doing("removing") EXCEPT !.doomed = doomed]
<1>1. c \in Contexts /\ index[c] \in SUBSET Item /\ IsFiniteSet(index[c])
  BY PassSum DEF TypeOK, FiniteInv
<1>2. \A x \in index[c] : Position(index[c], x) \in Nat
  <2> SUFFICES ASSUME NEW x \in index[c]
               PROVE  Position(index[c], x) \in Nat
    OBVIOUS
  <2>1. IsFiniteSet({y \in index[c] : y.n < x.n})
    BY <1>1, FS_Subset
  <2>2. QED
    BY <2>1, FS_CardinalityType DEF Position
<1>3. found \in SUBSET (Contexts \X Item \X Nat)
  BY <1>1, <1>2, PassSum DEF Passes
<1>4. doomed \in SUBSET (Contexts \X Nat)
  <2>1. Oldest(found, pass[t].sum) \subseteq found
    BY DEF Oldest
  <2> HIDE DEF found
  <2>2. \A p \in Oldest(found, pass[t].sum) : p[1] \in Contexts /\ p[3] \in Nat
    BY <1>3, <2>1
  <2>3. QED
    BY <2>2
<1>5. going \in Passes /\ going.next = pass[t].next /\ going.copy = pass[t].copy
  BY <1>3, PassSum DEF Passes
<1>6. end \in Passes /\ Copied(end)
  <2>1. /\ [Doing("removing") EXCEPT !.doomed = doomed] \in Passes
        /\ Copied([Doing("removing") EXCEPT !.doomed = doomed])
    BY <1>4, DoingType DEF Stages, Passes, Copied
  <2>2. QED
    BY <2>1, IdleType
<1>7. Goes(t, going, end) /\ UNCHANGED pushes
  BY DEF Collect
<1> HIDE DEF going, end
<1>8. QED
  BY <1>5, <1>6, <1>7, GoesOn

LEMMA SavePass ==
    ASSUME TypeOK, FiniteInv, CopyInv, NEW t \in Threads, Save(t)
    PROVE  pass' \in [Threads -> Passes] /\ CopyInv'
<1> DEFINE c == pass[t].next
           copy == pass[t].copy \cup {<<c, Saved(x)>> : x \in index[c]}
           going == [pass[t] EXCEPT !.copy = copy]
<1>1. /\ copy \in SUBSET (Contexts \X SavedItem)
      /\ IsFiniteSet(copy)
      /\ \A q \in copy : q[1] < c + 1 /\ q[2].n <= pushes
      /\ \A q, r \in copy : q[1] = r[1] /\ q[2].n = r[2].n => q = r
  BY CopyStep DEF FiniteInv
<1>2. Goes(t, going, Idle) /\ UNCHANGED pushes
  BY DEF Save, history
<1>3. pass[t] \in Passes
  BY PassSum
<1> HIDE DEF copy
<1>4. going \in Passes /\ going.next = pass[t].next
  BY <1>1, <1>3 DEF Passes
<1>5. Copied([going EXCEPT !.next = going.next + 1])
  <2>1. /\ [going EXCEPT !.next = going.next + 1].copy = copy
        /\ [going EXCEPT !.next = going.next + 1].next = c + 1
    BY <1>3 DEF Passes
  <2>2. QED
    BY <1>1, <2>1 DEF Copied
<1> HIDE DEF going
<1>6. QED
  BY <1>2, <1>4, <1>5, IdleType, GoesOn

LEMMA RemovePass ==
    ASSUME TypeOK, CopyInv, NEW t \in Threads, Remove(t)
    PROVE  pass' \in [Threads -> Passes] /\ CopyInv'
<1>1. PICK c \in {d[1] : d \in pass[t].doomed} :
         LET mine == {d \in pass[t].doomed : d[1] = c}
             rest == pass[t].doomed \ mine
         IN  pass' = [pass EXCEPT ![t] =
                         IF rest = {} THEN Idle ELSE [pass[t] EXCEPT !.doomed = rest]]
  BY Zenon DEF Remove
<1> DEFINE rest == pass[t].doomed \ {d \in pass[t].doomed : d[1] = c}
           going == [pass[t] EXCEPT !.doomed = rest]
<1>2. pass[t] \in Passes /\ Copied(pass[t]) /\ pushes' = pushes
  BY DEF TypeOK, CopyInv, Remove
<1>3. rest \in SUBSET (Contexts \X Nat)
  BY <1>2 DEF Passes
<1> HIDE DEF rest
<1>4. going \in Passes /\ Copied(going)
  BY <1>2, <1>3 DEF Passes, Copied
<1>5. pass' = [pass EXCEPT ![t] = IF rest = {} THEN Idle ELSE going]
  BY <1>1 DEF rest
<1> HIDE DEF going
<1>6. QED
  BY <1>2, <1>4, <1>5, IdleType DEF TypeOK, CopyInv, Copied

LEMMA PassStep ==
    ASSUME TypeOK, FiniteInv, CopyInv, [Next]_vars
    PROVE  pass' \in [Threads -> Passes] /\ CopyInv'
<1> DEFINE Goal == pass' \in [Threads -> Passes] /\ CopyInv'
<1>1. ASSUME NEW t \in Threads, NEW c \in Contexts, Push(t, c)
      PROVE  Goal
  <2>1. Doing("counting") \in Passes /\ Copied(Doing("counting"))'
    BY <1>1, DoingType, FS_EmptySet DEF Stages, Copied, Doing
  <2>2. pushes \in Nat /\ pushes' = pushes + 1
    BY <1>1 DEF Push, TypeOK
  <2>3. ASSUME NEW u \in Threads
        PROVE  \A q \in pass[u].copy : q[2].n <= pushes + 1
    <3>1. pass[u].copy \subseteq Contexts \X SavedItem
      BY DEF TypeOK, Passes
    <3>2. \A q \in pass[u].copy : q[2].n \in Nat /\ q[2].n <= pushes
      BY <3>1 DEF SavedItem, CopyInv, Copied
    <3>3. QED
      BY <2>2, <3>2
  <2>4. QED
    BY <1>1, <2>1, <2>2, <2>3 DEF Push, TypeOK, CopyInv, Copied, Doing
<1>2. ASSUME UNCHANGED <<pass, pushes>>
      PROVE  Goal
  BY <1>2 DEF TypeOK, CopyInv, Copied
<1>3. ASSUME NEW t \in Threads, NEW what \in Stages, UNCHANGED pushes,
             pass' = [pass EXCEPT ![t] = Doing(what)]
      PROVE  Goal
  BY <1>3, DoingType DEF TypeOK, CopyInv, Copied
<1>4. ASSUME NEW t \in Threads, Expire(t) \/ Clear(t)
      PROVE  Goal
  <2>1. pass[t] \in Passes /\ Doing("recounting") \in Passes /\ Copied(Doing("recounting"))
    BY PassSum, DoingType DEF Stages
  <2>2. CASE Expire(t)
    BY <2>1, <2>2, GoesOn DEF Expire, history
  <2>3. CASE Clear(t)
    BY <2>1, <2>3, GoesOn, IdleType DEF Clear, history
  <2>4. QED
    BY <1>4, <2>2, <2>3
<1>5. ASSUME NEW t \in Threads, BeginClear(t) \/ BeginSave(t)
      PROVE  Goal
  BY <1>3, <1>5 DEF BeginClear, BeginSave, history, Stages
<1>6. ASSUME NEW c \in Configs, NEW d \in ClockSteps, Restart(c, d)
      PROVE  Goal
  BY <1>6, IdleType DEF Restart, CopyInv, Copied
<1>7. ASSUME \/ \E t \in Threads, c \in Contexts : Delete(t, c)
             \/ Tick
             \/ UNCHANGED vars
      PROVE  Goal
  BY <1>2, <1>7 DEF Delete, Tick, vars, history
<1>8. QED
  BY <1>1, <1>4, <1>5, <1>6, <1>7, CountPass, RecountPass, CollectPass, SavePass, RemovePass
     DEF Next, Insert

-------------------------------------------------------------------------------
(* What a step does to the buckets.                                        *)

NewItem == [n |-> pushes + 1, created |-> now, ttl |-> cfg.ttl]

\* Items go, or one is pushed and its bucket evicted, or a snapshot is restored.
Shrinks ==
    /\ index' \in [Contexts -> SUBSET Item]
    /\ \A c \in Contexts : index'[c] \subseteq index[c]
    /\ UNCHANGED <<cfg, pushes>>
    /\ now' \in Nat /\ now <= now'

Pushes ==
    /\ \E c \in Contexts :
          index' = [index EXCEPT ![c] = EvictBucket(index[c] \cup {NewItem})]
    /\ pushes' = pushes + 1
    /\ UNCHANGED <<cfg, now>>

Restores ==
    /\ cfg' \in Configs
    /\ \E wall \in Int : index' = [c \in Contexts |-> Restored(file[c], wall, cfg')]
    /\ UNCHANGED <<now, pushes>>

LEMMA SecsType ==
    ASSUME NEW u \in Int
    PROVE  Secs(u) \in Int
BY ClockAssumption DEF Secs

LEMMA IndexKinds ==
    ASSUME TypeOK, [Next]_vars
    PROVE  Shrinks \/ Pushes \/ Restores
<1>1. ASSUME UNCHANGED <<index, cfg, pushes, now>>
      PROVE  Shrinks
  BY <1>1 DEF Shrinks, TypeOK
<1>2. ASSUME NEW t, NEW c \in Contexts, NEW b, b \subseteq index[c], Change(t, c, b),
             UNCHANGED <<cfg, pushes, now>>
      PROVE  Shrinks
  BY <1>2 DEF Shrinks, TypeOK, Change
<1>3. ASSUME NEW t \in Threads, NEW c \in Contexts, Push(t, c)
      PROVE  Pushes
  BY <1>3 DEF Push, Pushes, Change, NewItem
<1>4. ASSUME NEW t \in Threads, NEW c \in Contexts, Delete(t, c)
      PROVE  Shrinks
  BY <1>2, <1>4 DEF Delete, history
<1>5. ASSUME NEW t \in Threads, Expire(t) \/ Clear(t)
      PROVE  Shrinks
  <2>1. pass[t].next \in Contexts
    BY DEF TypeOK, Passes
  <2>2. CASE Expire(t)
    BY <1>2, <2>1, <2>2 DEF Expire, Live, history
  <2>3. CASE Clear(t)
    BY <1>2, <2>1, <2>3 DEF Clear, history
  <2>4. QED
    BY <1>5, <2>2, <2>3
<1>6. ASSUME NEW t \in Threads, Remove(t)
      PROVE  Shrinks
  <2>1. PICK c, positions :
           index' = [index EXCEPT ![c] = Without(index[c], positions)]
    BY <1>6, Zenon DEF Remove
  <2>2. \A d \in Contexts : index'[d] \subseteq index[d]
    BY <2>1 DEF TypeOK, Without
  <2>3. UNCHANGED <<cfg, pushes, now>>
    BY <1>6 DEF Remove
  <2>4. index' \in [Contexts -> SUBSET Item]
    BY <2>1, <2>2 DEF TypeOK
  <2>5. QED
    BY <2>2, <2>3, <2>4 DEF Shrinks, TypeOK
<1>7. ASSUME NEW t \in Threads,
             \/ Count(t) \/ Recount(t) \/ Collect(t) \/ BeginClear(t) \/ BeginSave(t) \/ Save(t)
      PROVE  Shrinks
  BY <1>1, <1>7 DEF Count, Recount, Collect, BeginClear, BeginSave, Save, history
<1>8. ASSUME NEW c \in Configs, NEW d \in ClockSteps, Restart(c, d)
      PROVE  Restores
  <2>1. Secs(now + skew + d) \in Int
    BY ClockAssumption, SecsType DEF TypeOK
  <2>2. QED
    BY <1>8, <2>1 DEF Restart, Restores
<1>9. CASE Tick
  BY <1>9 DEF Tick, Shrinks, TypeOK, history
<1>10. CASE UNCHANGED vars
  BY <1>1, <1>10 DEF vars
<1>11. QED
  BY <1>3, <1>4, <1>5, <1>6, <1>7, <1>8, <1>9, <1>10 DEF Next, Insert

\* A bucket as the invariants want it.
Sound(b) ==
    /\ b \subseteq Item
    /\ IsFiniteSet(b)
    /\ Numbered(b)
    /\ \A x \in b : x.created <= now /\ x.n <= pushes
    /\ Cardinality(b) <= cfg.bucket
    /\ \A x, y \in b : y.created < x.created + x.ttl * TicksPerSec

LEMMA LiveFresh ==
    ASSUME now \in Nat, NEW b, b \subseteq Item, \A x \in b : x.created <= now /\ ~Expired(x)
    PROVE  \A x, y \in b : y.created < x.created + x.ttl * TicksPerSec
<1> SUFFICES ASSUME NEW x \in b, NEW y \in b
             PROVE  y.created < x.created + x.ttl * TicksPerSec
  OBVIOUS
<1>1. /\ x.created \in Int /\ y.created \in Int /\ x.ttl * TicksPerSec \in Int
      /\ y.created <= now
  BY ClockAssumption DEF Item
<1>2. now - x.created < x.ttl * TicksPerSec
  BY <1>1 DEF Expired
<1>3. QED
  BY <1>1, <1>2

LEMMA SubsetSound ==
    ASSUME cfg.bucket \in Nat, NEW b, Sound(b), NEW a, a \subseteq b
    PROVE  Sound(a)
<1>1. IsFiniteSet(a) /\ Cardinality(a) <= Cardinality(b)
  BY FS_Subset DEF Sound
<1>2. Cardinality(a) \in Nat /\ Cardinality(b) \in Nat
  BY <1>1, FS_CardinalityType DEF Sound
<1>3. QED
  BY <1>1, <1>2 DEF Sound, Numbered

LEMMA PushSound ==
    ASSUME TypeOK, FiniteInv, NEW c \in Contexts
    PROVE  LET b == EvictBucket(index[c] \cup {NewItem})
           IN  /\ b \subseteq Item
               /\ IsFiniteSet(b)
               /\ Numbered(b)
               /\ \A x \in b : x.created <= now /\ x.n <= pushes + 1
               /\ Cardinality(b) <= cfg.bucket
               /\ \A x, y \in b : y.created < x.created + x.ttl * TicksPerSec
<1> DEFINE a == index[c] \cup {NewItem}
           b == EvictBucket(a)
<1>1. cfg.bucket \in Nat /\ cfg.ttl \in Nat /\ now \in Nat /\ pushes \in Nat
  BY ConfigsAssumption DEF TypeOK
<1>2. NewItem \in Item /\ NewItem.n = pushes + 1 /\ NewItem.created = now
  BY <1>1 DEF NewItem, Item
<1>3. index[c] \subseteq Item /\ IsFiniteSet(index[c])
  BY DEF TypeOK, FiniteInv
<1>4. \A x \in index[c] : x.created <= now /\ x.n <= pushes /\ x.n \in Nat
  BY <1>3 DEF TypeOK, Item
<1>5. a \subseteq Item /\ IsFiniteSet(a)
  BY <1>2, <1>3, FS_AddElement
<1>6. Numbered(a)
  BY <1>1, <1>2, <1>4 DEF Numbered, TypeOK
<1>7. \A x \in a : x.created <= now /\ x.n <= pushes + 1
  BY <1>1, <1>2, <1>4
<1> HIDE DEF a
<1>8. b \subseteq Live(a) /\ IsFiniteSet(b) /\ Cardinality(b) <= cfg.bucket
  BY <1>1, <1>5, <1>6, EvictBucketCap
<1>9. b \subseteq a /\ \A x \in b : ~Expired(x)
  BY <1>8 DEF Live
<1> HIDE DEF b
<1>10. \A x, y \in b : y.created < x.created + x.ttl * TicksPerSec
  BY <1>1, <1>5, <1>7, <1>9, LiveFresh
<1>11. QED
  BY <1>5, <1>6, <1>7, <1>8, <1>9, <1>10 DEF Numbered, a, b

BucketsInv == \A c \in Contexts : Sound(index[c])

LEMMA BucketsStep ==
    ASSUME TypeOK, FiniteInv, BucketsInv, \A c \in Contexts : \A s \in file[c] : s.n <= pushes,
           [Next]_vars
    PROVE  BucketsInv' /\ index' \in [Contexts -> SUBSET Item]
<1>1. CASE Shrinks
  <2>1. ASSUME NEW c \in Contexts
        PROVE  Sound(index[c])'
    <3>1. index'[c] \subseteq index[c] /\ cfg' = cfg /\ pushes' = pushes /\ now <= now'
      BY <1>1 DEF Shrinks
    <3>2. Sound(index'[c])
      BY <3>1, SubsetSound, ConfigsAssumption DEF BucketsInv, TypeOK
    <3>3. \A x \in index'[c] : x.created \in Int
      BY <3>2 DEF Sound, Item
    <3>4. now \in Nat /\ now' \in Nat
      BY <1>1 DEF TypeOK, Shrinks
    <3>5. QED
      BY <3>1, <3>2, <3>3, <3>4 DEF Sound
  <2>2. QED
    BY <1>1, <2>1 DEF BucketsInv, Shrinks
<1>2. CASE Pushes
  <2>1. PICK c \in Contexts :
           index' = [index EXCEPT ![c] = EvictBucket(index[c] \cup {NewItem})]
    BY <1>2 DEF Pushes
  <2>2. pushes' = pushes + 1 /\ pushes \in Nat /\ UNCHANGED <<cfg, now>>
    BY <1>2 DEF Pushes, TypeOK
  <2>3. Sound(index[c])'
    BY <2>1, <2>2, PushSound DEF Sound, TypeOK
  <2>4. ASSUME NEW d \in Contexts, d # c
        PROVE  Sound(index[d])'
    <3>1. index'[d] = index[d] /\ Sound(index[d])
      BY <2>1, <2>4 DEF TypeOK, BucketsInv
    <3>2. \A x \in index[d] : x.n \in Nat /\ x.n <= pushes
      BY <3>1 DEF Sound, Item
    <3>3. \A x \in index[d] : x.n <= pushes + 1
      BY <2>2, <3>2
    <3>4. QED
      BY <2>2, <3>1, <3>3 DEF Sound
  <2>5. \A d \in Contexts : index'[d] \subseteq Item
    BY <2>3, <2>4 DEF Sound
  <2>6. index' \in [Contexts -> SUBSET Item]
    BY <2>1, <2>5 DEF TypeOK
  <2>7. QED
    BY <2>3, <2>4, <2>6 DEF BucketsInv
<1>3. CASE Restores
  <2>1. PICK wall \in Int : index' = [c \in Contexts |-> Restored(file[c], wall, cfg')]
    BY <1>3 DEF Restores
  <2>2. cfg' \in Configs /\ UNCHANGED <<now, pushes>>
    BY <1>3 DEF Restores
  <2>3. ASSUME NEW c \in Contexts
        PROVE  Sound(index[c])'
    <3> DEFINE b == Restored(file[c], wall, cfg')
    <3>1. file[c] \subseteq SavedItem /\ IsFiniteSet(file[c]) /\ Numbered(file[c])
      BY DEF TypeOK, FiniteInv
    <3>2. /\ b \subseteq Item
          /\ IsFiniteSet(b)
          /\ Cardinality(b) <= cfg'.bucket
          /\ Numbered(b)
          /\ \A x \in b : x.created <= now /\ ~Expired(x) /\ \E s \in file[c] : x.n = s.n
      BY <2>2, <3>1, RestoredBucket
    <3>3. index'[c] = b
      BY <2>1
    <3> HIDE DEF b
    <3>4. \A x, y \in b : y.created < x.created + x.ttl * TicksPerSec
      BY <3>2, LiveFresh DEF TypeOK
    <3>5. \A x \in b : x.n <= pushes
      BY <3>2
    <3>6. QED
      BY <2>2, <3>2, <3>3, <3>4, <3>5 DEF Sound
  <2>4. index' \in [Contexts -> SUBSET Item]
    BY <2>1, <2>3 DEF Sound
  <2>5. QED
    BY <2>3, <2>4 DEF BucketsInv
<1>4. QED
  BY <1>1, <1>2, <1>3, IndexKinds

-------------------------------------------------------------------------------
(* The snapshot file.                                                      *)

FilesInv ==
    \A c \in Contexts :
        /\ IsFiniteSet(file[c])
        /\ Numbered(file[c])
        /\ \A s \in file[c] : s.n <= pushes

\* The file changes in two places.
LEMMA FileKinds ==
    ASSUME [Next]_vars
    PROVE  \/ file' = file
           \/ file' = [c \in Contexts |-> {}]
           \/ \E t \in Threads : Save(t)
<1>1. ASSUME NEW t \in Threads, NEW c \in Contexts, Push(t, c) \/ Delete(t, c)
      PROVE  file' = file
  BY <1>1 DEF Push, Delete
<1>2. ASSUME NEW t \in Threads, Insert(t) \/ BeginClear(t) \/ BeginSave(t)
      PROVE  file' = file
  BY <1>2 DEF Insert, Count, Expire, Recount, Collect, Remove, BeginClear, BeginSave
<1>3. ASSUME NEW t \in Threads, Clear(t)
      PROVE  file' = file \/ file' = [c \in Contexts |-> {}]
  BY <1>3 DEF Clear
<1>4. ASSUME \/ \E c \in Configs, d \in ClockSteps : Restart(c, d)
             \/ Tick
             \/ UNCHANGED vars
      PROVE  file' = file
  BY <1>4 DEF Restart, Tick, vars
<1>5. QED
  BY <1>1, <1>2, <1>3, <1>4 DEF Next

LEMMA PushesGrow ==
    ASSUME TypeOK, [Next]_vars
    PROVE  pushes' \in Nat /\ pushes <= pushes'
<1>1. ASSUME NEW t \in Threads, NEW c \in Contexts, Push(t, c) \/ Delete(t, c)
      PROVE  pushes' \in {pushes, pushes + 1}
  BY <1>1 DEF Push, Delete, history
<1>2. ASSUME NEW t \in Threads, Insert(t) \/ BeginClear(t) \/ Clear(t) \/ BeginSave(t) \/ Save(t)
      PROVE  pushes' = pushes
  BY <1>2 DEF Insert, Count, Expire, Recount, Collect, Remove, BeginClear, Clear, BeginSave, Save,
     history
<1>3. ASSUME \/ \E c \in Configs, d \in ClockSteps : Restart(c, d)
             \/ Tick
             \/ UNCHANGED vars
      PROVE  pushes' = pushes
  BY <1>3 DEF Restart, Tick, vars, history
<1>4. pushes' \in {pushes, pushes + 1}
  BY <1>1, <1>2, <1>3 DEF Next
<1>5. QED
  BY <1>4 DEF TypeOK

LEMMA SaveFile ==
    ASSUME TypeOK, FiniteInv, CopyInv, FilesInv, NEW t \in Threads, Save(t)
    PROVE  file' \in [Contexts -> SUBSET SavedItem] /\ FilesInv'
<1> DEFINE c == pass[t].next
           copy == pass[t].copy \cup {<<c, Saved(x)>> : x \in index[c]}
           of(d) == {q \in copy : q[1] = d}
           f(d) == [q \in of(d) |-> q[2]]
<1>1. /\ copy \in SUBSET (Contexts \X SavedItem)
      /\ IsFiniteSet(copy)
      /\ \A q \in copy : q[2].n <= pushes
      /\ \A q, r \in copy : q[1] = r[1] /\ q[2].n = r[2].n => q = r
  BY CopyStep DEF FiniteInv
<1>2. /\ UNCHANGED pushes
      /\ \/ file' = file
         \/ file' = [d \in Contexts |-> {p[2] : p \in of(d)}]
  BY DEF Save, history
<1> HIDE DEF copy
<1>3. ASSUME NEW d \in Contexts
      PROVE  LET b == {p[2] : p \in of(d)}
             IN  /\ b \subseteq SavedItem
                 /\ IsFiniteSet(b)
                 /\ Numbered(b)
                 /\ \A s \in b : s.n <= pushes
  <2>1. \A p \in of(d) : p[1] = d /\ p[2] \in SavedItem /\ p[2].n <= pushes
    BY <1>1
  <2>2. IsFiniteSet(of(d)) /\ DOMAIN f(d) = of(d)
    BY <1>1, FS_Subset
  <2>3. IsFiniteSet({f(d)[p] : p \in of(d)})
    <3> HIDE DEF f
    <3>1. QED
      BY <2>2, ImageFinite
  <2>4. {f(d)[p] : p \in of(d)} = {p[2] : p \in of(d)}
    OBVIOUS
  <2>5. \A p, q \in of(d) : p[2].n = q[2].n => p = q
    BY <1>1
  <2> HIDE DEF of, f
  <2>6. Numbered({p[2] : p \in of(d)})
    BY <2>5 DEF Numbered
  <2>7. QED
    BY <2>1, <2>3, <2>4, <2>6
<1> HIDE DEF of
<1>4. QED
  BY <1>2, <1>3 DEF FilesInv, TypeOK, Numbered

LEMMA FileStep ==
    ASSUME TypeOK, FiniteInv, CopyInv, FilesInv, [Next]_vars
    PROVE  file' \in [Contexts -> SUBSET SavedItem] /\ FilesInv'
<1>1. pushes \in Nat /\ pushes' \in Nat /\ pushes <= pushes'
  BY PushesGrow DEF TypeOK
<1>2. CASE file' = file
  <2>1. \A c \in Contexts : \A s \in file[c] : s.n \in Nat
    BY DEF TypeOK, SavedItem
  <2>2. QED
    BY <1>1, <1>2, <2>1 DEF FilesInv, TypeOK
<1>3. CASE file' = [c \in Contexts |-> {}]
  BY <1>3, FS_EmptySet DEF FilesInv, Numbered
<1>4. QED
  BY <1>2, <1>3, FileKinds, SaveFile

-------------------------------------------------------------------------------
(* What the evictions under way are expected to come to.                   *)

ExpectInv ==
    /\ expect \in [Threads -> SUBSET [Contexts -> SUBSET Item]]
    /\ \A t \in Threads : expect[t] # {} => t \in Inserting

Inserts == {"counting", "expiring", "recounting", "collecting", "removing"}

LEMMA NewestType ==
    ASSUME TypeOK
    PROVE  Newest \in [Contexts -> SUBSET Item]
<1>1. \A p \in All : p[2] \in Item
  BY DEF All, TypeOK
<1> DEFINE kept == {p \in {p \in All : ~Expired(p[2])} :
                       Cardinality({q \in {p1 \in All : ~Expired(p1[2])} : Before(p, q)}) < cfg.max}
<1>2. kept \subseteq All /\ Newest = [c \in Contexts |-> {p[2] : p \in {q \in kept : q[1] = c}}]
  BY DEF Newest
<1> HIDE DEF kept
<1>3. QED
  BY <1>1, <1>2

\* A step of t after which its own expectation is the one it had, or none, or, while
\* the insert goes on, a new one; and no other one is new.
LEMMA ExpectKept ==
    ASSUME TypeOK, NEW t \in Threads, pass' \in [Threads -> Passes],
           \A u \in Threads \ {t} : pass'[u] = pass[u],
           expect' = [u \in Threads |-> expect'[u]],
           \A u \in Threads \ {t} : expect'[u] \in {{}, expect[u]},
           expect'[t] \in {{}, expect[t], {Newest}},
           expect'[t] # {} => pass'[t].at \in Inserts
    PROVE  ExpectInv'
<1>1. \A u \in Threads : expect'[u] \in SUBSET [Contexts -> SUBSET Item]
  BY NewestType DEF TypeOK
<1>2. \A u \in Threads : expect'[u] # {} => pass'[u].at \in Inserts
  BY DEF TypeOK, Inserting, Inserts
<1>3. QED
  BY <1>1, <1>2 DEF ExpectInv, Inserting, Inserts

\* Where a pass is after a step.
LEMMA GoesAt ==
    ASSUME TypeOK, NEW t \in Threads, NEW going \in Passes, going.at = pass[t].at,
           NEW end, Goes(t, going, end)
    PROVE  /\ pass'[t].at = pass[t].at \/ pass'[t] = end
           /\ \A u \in Threads \ {t} : pass'[u] = pass[u]
<1>1. pass[t] \in Passes /\ pass[t].next \in Nat
  BY DEF TypeOK, Passes, Contexts
<1>2. QED
  BY <1>1 DEF Goes, TypeOK, Passes

LEMMA ExpectStep ==
    ASSUME TypeOK, FiniteInv, CopyInv, [Next]_vars
    PROVE  ExpectInv'
<1>0. pass' \in [Threads -> Passes]
  BY PassStep
<1>1. \A t \in Threads : pass[t] \in Passes /\ pass[t].next \in Contexts
  BY DEF TypeOK, Passes
<1>2. \A t \in Threads : pass[t].at \notin Inserts => expect[t] = {}
  BY DEF TypeOK, Inserting, Inserts
<1>3. Idle.at = "idle" /\ "idle" \notin Inserts
  BY DEF Idle, Doing, Inserts
<1>4. ASSUME NEW t \in Threads, NEW c \in Contexts, Push(t, c) \/ Delete(t, c)
      PROVE  ExpectInv'
  <2>1. PICK b : Change(t, c, b)
    BY <1>4 DEF Push, Delete
  <2>2. pass[t] = Idle /\ \A u \in Threads \ {t} : pass'[u] = pass[u]
    BY <1>4 DEF Push, Delete, TypeOK
  <2>3. QED
    BY <1>0, <1>2, <1>3, <2>1, <2>2, ExpectKept DEF Change
<1>5. ASSUME NEW t \in Threads, Count(t)
      PROVE  ExpectInv'
  <2> DEFINE sum == pass[t].sum + Cardinality(index[pass[t].next])
             going == [pass[t] EXCEPT !.sum = sum]
             end == IF sum > cfg.max THEN Doing("expiring") ELSE Idle
  <2>1. going \in Passes /\ going.at = pass[t].at /\ Goes(t, going, end)
    BY <1>5, PassSum DEF Count, Passes
  <2> HIDE DEF going, end
  <2>2. \A u \in Threads \ {t} : pass'[u] = pass[u]
    BY <2>1, GoesAt
  <2>3. expect' = [expect EXCEPT ![t] = IF pass'[t].at = "expiring" THEN {Newest} ELSE {}]
    BY <1>5 DEF Count
  <2>4. QED
    BY <1>0, <2>2, <2>3, ExpectKept DEF TypeOK, Inserts
<1>6. ASSUME NEW t \in Threads, Expire(t)
      PROVE  ExpectInv'
  <2>1. /\ pass'[t].at = "expiring" \/ pass'[t] = Doing("recounting")
        /\ \A u \in Threads \ {t} : pass'[u] = pass[u]
    BY <1>1, <1>6, GoesAt DEF Expire
  <2>2. pass'[t].at \in Inserts
    BY <2>1 DEF Doing, Inserts
  <2>3. QED
    BY <1>0, <1>6, <2>1, <2>2, ExpectKept DEF Expire, Change
<1>7. ASSUME NEW t \in Threads, Recount(t)
      PROVE  ExpectInv'
  <2> DEFINE sum == pass[t].sum + Cardinality(index[pass[t].next])
             going == [pass[t] EXCEPT !.sum = sum]
             end == IF sum > cfg.max
                    THEN [Doing("collecting") EXCEPT !.sum = sum - cfg.max] ELSE Idle
  <2>1. /\ going \in Passes /\ going.at = pass[t].at /\ Goes(t, going, end)
        /\ pass[t].at = "recounting"
    BY <1>7, PassSum DEF Recount, Passes
  <2>2. end = Idle \/ end.at = "collecting"
    BY DEF Doing
  <2> HIDE DEF going, end
  <2>3. /\ pass'[t].at = "recounting" \/ pass'[t] = end
        /\ \A u \in Threads \ {t} : pass'[u] = pass[u]
    BY <2>1, GoesAt
  <2>4. pass'[t] = Idle \/ pass'[t].at \in Inserts
    BY <2>2, <2>3 DEF Inserts
  <2>5. Settle(t)
    BY <1>7 DEF Recount
  <2>6. QED
    BY <1>0, <2>3, <2>4, <2>5, ExpectKept DEF Settle, Ends, TypeOK
<1>8. ASSUME NEW t \in Threads, Collect(t)
      PROVE  ExpectInv'
  <2>1. PICK found, doomed :
           Goes(t, [pass[t] EXCEPT !.found = found],
                IF doomed = {} THEN Idle ELSE [Doing("removing") EXCEPT !.doomed = doomed])
    BY <1>8 DEF Collect
  <2>2. /\ pass'[t].at = "collecting" \/ pass'[t].at = "removing" \/ pass'[t] = Idle
        /\ \A u \in Threads \ {t} : pass'[u] = pass[u]
    BY <1>1, <1>8, <2>1 DEF Goes, Collect, Doing, TypeOK, Passes
  <2>3. Settle(t)
    BY <1>8 DEF Collect
  <2>4. QED
    BY <1>0, <2>2, <2>3, ExpectKept DEF Settle, Ends, Inserts, TypeOK
<1>9. ASSUME NEW t \in Threads, Remove(t)
      PROVE  ExpectInv'
  <2>1. PICK c \in {d[1] : d \in pass[t].doomed} :
           LET mine == {d \in pass[t].doomed : d[1] = c}
               rest == pass[t].doomed \ mine
           IN  /\ pass' = [pass EXCEPT ![t] =
                              IF rest = {} THEN Idle ELSE [pass[t] EXCEPT !.doomed = rest]]
               /\ expect' = [u \in Threads |->
                                IF u = t THEN IF rest = {} THEN {} ELSE expect[u]
                                ELSE IF index'[c] = index[c] THEN expect[u] ELSE {}]
    BY <1>9, Zenon DEF Remove
  <2> DEFINE rest == pass[t].doomed \ {d \in pass[t].doomed : d[1] = c}
  <2>2. /\ pass' = [pass EXCEPT ![t] =
                       IF rest = {} THEN Idle ELSE [pass[t] EXCEPT !.doomed = rest]]
        /\ expect' = [u \in Threads |->
                         IF u = t THEN IF rest = {} THEN {} ELSE expect[u]
                         ELSE IF index'[c] = index[c] THEN expect[u] ELSE {}]
    BY <2>1
  <2> HIDE DEF rest
  <2>3. pass[t].at = "removing"
    BY <1>9 DEF Remove
  <2>4. rest = {} \/ pass'[t].at = "removing"
    BY <1>1, <2>2, <2>3 DEF TypeOK, Passes
  <2>5. QED
    BY <1>0, <2>2, <2>4, ExpectKept DEF Inserts, TypeOK
<1>10. ASSUME NEW t \in Threads, BeginClear(t) \/ BeginSave(t)
      PROVE  ExpectInv'
  BY <1>0, <1>2, <1>3, <1>10, ExpectKept DEF BeginClear, BeginSave, TypeOK
<1>11. ASSUME NEW t \in Threads, Clear(t)
      PROVE  ExpectInv'
  <2>1. /\ \A u \in Threads \ {t} : pass'[u] = pass[u]
        /\ expect[t] = {}
    BY <1>1, <1>2, <1>11, GoesAt DEF Clear, Inserts
  <2>2. QED
    BY <1>0, <1>11, <2>1, ExpectKept DEF Clear, Change
<1>12. ASSUME NEW t \in Threads, Save(t)
      PROVE  ExpectInv'
  <2>1. PICK copy : Goes(t, [pass[t] EXCEPT !.copy = copy], Idle)
    BY <1>12 DEF Save
  <2>2. \A u \in Threads \ {t} : pass'[u] = pass[u]
    BY <2>1 DEF Goes, TypeOK
  <2>3. expect[t] = {} /\ expect' = expect
    BY <1>2, <1>12 DEF Save, Inserts
  <2>4. QED
    BY <1>0, <2>2, <2>3, ExpectKept DEF TypeOK
<1>13. ASSUME \/ Tick
              \/ \E c \in Configs, d \in ClockSteps : Restart(c, d)
       PROVE  ExpectInv'
  BY <1>13 DEF Tick, Restart, ExpectInv
<1>14. CASE UNCHANGED vars
  BY <1>14 DEF vars, ExpectInv, TypeOK, Inserting
<1>15. QED
  BY <1>4, <1>5, <1>6, <1>7, <1>8, <1>9, <1>10, <1>11, <1>12, <1>13, <1>14 DEF Next, Insert

-------------------------------------------------------------------------------
(* The inductive invariant and what follows.                               *)

ScalarInv ==
    /\ cfg \in Configs
    /\ now \in Nat /\ pushes \in Nat /\ restarts \in Nat
    /\ skew \in Int
    /\ trimmed \in BOOLEAN

LEMMA ScalarStep ==
    ASSUME TypeOK, [Next]_vars
    PROVE  ScalarInv'
<1>1. ASSUME UNCHANGED <<cfg, now, skew, restarts>>, pushes' \in {pushes, pushes + 1},
             trimmed' \in BOOLEAN
      PROVE  ScalarInv'
  BY <1>1 DEF TypeOK, ScalarInv
<1>2. ASSUME NEW t \in Threads, NEW c \in Contexts, Push(t, c) \/ Delete(t, c)
      PROVE  ScalarInv'
  BY <1>1, <1>2 DEF Push, Delete, history, TypeOK
<1>3. ASSUME NEW t \in Threads, Count(t) \/ Recount(t) \/ Collect(t)
      PROVE  ScalarInv'
  BY <1>1, <1>3 DEF Count, Recount, Collect, TypeOK, Ends
<1>4. ASSUME NEW t \in Threads, Remove(t)
      PROVE  ScalarInv'
  BY <1>1, <1>4 DEF Remove, TypeOK, Ends
<1>5. ASSUME NEW t \in Threads,
             Expire(t) \/ BeginClear(t) \/ Clear(t) \/ BeginSave(t) \/ Save(t)
      PROVE  ScalarInv'
  BY <1>1, <1>5 DEF Expire, BeginClear, Clear, BeginSave, Save, history, TypeOK
<1>6. ASSUME NEW c \in Configs, NEW d \in ClockSteps, Restart(c, d)
      PROVE  ScalarInv'
  <2>1. d \in Int /\ skew \in Int /\ restarts \in Nat /\ now \in Nat /\ pushes \in Nat
    BY ClockAssumption DEF TypeOK
  <2>2. /\ cfg' = c /\ skew' = skew + d /\ restarts' = restarts + 1 /\ trimmed' = FALSE
        /\ now' = now /\ pushes' = pushes
    BY <1>6 DEF Restart
  <2>3. trimmed' \in BOOLEAN
    BY <2>2, Zenon
  <2>4. skew + d \in Int /\ restarts + 1 \in Nat
    BY <2>1
  <2>5. QED
    BY <2>1, <2>2, <2>3, <2>4 DEF ScalarInv
<1>7. ASSUME Tick
      PROVE  ScalarInv'
  BY <1>7 DEF Tick, history, ScalarInv, TypeOK
<1>8. ASSUME UNCHANGED vars
      PROVE  ScalarInv'
  BY <1>1, <1>8 DEF vars, TypeOK
<1>9. QED
  BY <1>2, <1>3, <1>4, <1>5, <1>6, <1>7, <1>8 DEF Next, Insert

\* Sound buckets, in the index and in the file, and whole copies of them.
SoundInv == TypeOK /\ BucketsInv /\ FilesInv /\ CopyInv

LEMMA SoundType ==
    /\ BucketsInv /\ FilesInv => FiniteInv
    /\ TypeOK <=> /\ index \in [Contexts -> SUBSET Item]
                  /\ file \in [Contexts -> SUBSET SavedItem]
                  /\ \A c \in Contexts :
                        /\ \A x \in index[c] : x.created <= now /\ x.n <= pushes
                        /\ \A x \in file[c] : x.n <= pushes
                        /\ Numbered(index[c])
                  /\ pass \in [Threads -> Passes]
                  /\ ExpectInv
                  /\ ScalarInv
BY DEF BucketsInv, Sound, FilesInv, FiniteInv, TypeOK, ExpectInv, ScalarInv, Numbered

LEMMA SoundInit == Init => SoundInv
<1> SUFFICES ASSUME Init
             PROVE  SoundInv
  OBVIOUS
<1>1. BucketsInv
  BY FS_EmptySet, ConfigsAssumption DEF Init, BucketsInv, Sound, Numbered
<1>2. FilesInv
  BY FS_EmptySet DEF Init, FilesInv, Numbered
<1>3. CopyInv /\ pass \in [Threads -> Passes]
  BY IdleType DEF Init, CopyInv
<1>4. ExpectInv /\ ScalarInv
  <2>1. expect \in [Threads -> SUBSET [Contexts -> SUBSET Item]]
    BY DEF Init
  <2>2. \A t \in Threads : expect[t] = {}
    BY DEF Init
  <2>3. trimmed \in BOOLEAN
    BY Zenon DEF Init
  <2>4. QED
    BY <2>1, <2>2, <2>3 DEF Init, ExpectInv, ScalarInv
<1>5. QED
  BY <1>1, <1>2, <1>3, <1>4, SoundType DEF Init, SoundInv, Numbered

LEMMA SoundStep == SoundInv /\ [Next]_vars => SoundInv'
<1> SUFFICES ASSUME SoundInv, [Next]_vars
             PROVE  SoundInv'
  OBVIOUS
<1>1. TypeOK /\ BucketsInv /\ FilesInv /\ CopyInv /\ FiniteInv
  BY SoundType DEF SoundInv
<1>2. BucketsInv' /\ index' \in [Contexts -> SUBSET Item]
  BY <1>1, BucketsStep DEF FilesInv
<1>3. FilesInv' /\ file' \in [Contexts -> SUBSET SavedItem]
  BY <1>1, FileStep
<1>4. CopyInv' /\ pass' \in [Threads -> Passes]
  BY <1>1, PassStep
<1>5. ExpectInv'
  BY <1>1, ExpectStep
<1>6. ScalarInv'
  BY <1>1, ScalarStep
<1>7. TypeOK'
  BY <1>2, <1>3, <1>4, <1>5, <1>6 DEF BucketsInv, Sound, FilesInv, TypeOK, ExpectInv, ScalarInv,
     Numbered
<1>8. QED
  BY <1>2, <1>3, <1>4, <1>7 DEF SoundInv

LEMMA SoundHolds == Spec => []SoundInv
BY SoundInit, SoundStep, PTL DEF Spec

\* The type invariant, and that no bucket holds two items of one push, whatever the
\* restarts bring back.
THEOREM TypeCorrect == Spec => []TypeOK
<1>1. SoundInv => TypeOK
  BY DEF SoundInv
<1>2. QED
  BY <1>1, SoundHolds, PTL

\* No bucket is ever over semantic_max_bucket_items: not after a push, which evicts
\* under the guard of its bucket, and not after a restart with a lower cap, which fills
\* each bucket up to the cap only, whatever the file holds.
THEOREM BucketsBounded == Spec => []BucketCap
<1>1. SoundInv => BucketCap
  BY DEF SoundInv, BucketsInv, Sound, BucketCap
<1>2. QED
  BY <1>1, SoundHolds, PTL

\* An expired item answers a semantic lookup only while nothing has been pushed to its
\* bucket since it expired.
THEOREM StaleBounded == Spec => []StaleOnlyWhenIdle
<1>1. SoundInv => StaleOnlyWhenIdle
  BY DEF SoundInv, BucketsInv, Sound, StaleOnlyWhenIdle, Scan
<1>2. QED
  BY <1>1, SoundHolds, PTL

-------------------------------------------------------------------------------
(* How much there is, counted with what a pass has seen.                   *)

Larger(a, b) == IF a < b THEN b ELSE a

Amounts == [Contexts -> Nat]

Zero == [c \in Contexts |-> 0]

Sizes == [c \in Contexts |-> Cardinality(index[c])]

\* How many of S, whose elements begin with a context, there are of each.
Per(S) == [c \in Contexts |-> Cardinality({q \in S : q[1] = c})]

\* The buckets of A, of sizes n, each taken for at least what it was when it was seen,
\* s, and for d less than that.
Weight(n, A, s, d) ==
    [c \in Contexts |-> IF c \in A THEN Larger(n[c], s[c]) - d[c] ELSE 0]

Load(n, A, s, d) == SumTo(Weight(n, A, s, d), Shards)

LEMMA ZeroType == Zero \in Amounts /\ \A c \in Contexts : Zero[c] = 0
BY DEF Zero, Amounts

LEMMA WeightType ==
    ASSUME NEW n \in Amounts, NEW A, NEW s \in Amounts, NEW d \in Amounts
    PROVE  /\ Weight(n, A, s, d) \in [1..Shards -> Int]
           /\ Load(n, A, s, d) \in Int
<1>1. \A c \in Contexts : Larger(n[c], s[c]) - d[c] \in Int
  BY DEF Amounts, Larger
<1>2. Weight(n, A, s, d) \in [1..Shards -> Int]
  BY <1>1 DEF Weight, Contexts
<1>3. QED
  BY <1>2, SumType, ShardsAssumption DEF Load

\* What goes lightens every load.
LEMMA LoadShrinks ==
    ASSUME NEW n \in Amounts, NEW m \in Amounts, \A c \in Contexts : m[c] <= n[c],
           NEW A, NEW s \in Amounts, NEW d \in Amounts
    PROVE  Load(m, A, s, d) <= Load(n, A, s, d)
<1>1. \A c \in Contexts : Weight(m, A, s, d)[c] <= Weight(n, A, s, d)[c]
  BY DEF Amounts, Larger, Weight
<1>2. QED
  BY <1>1, WeightType, SumMonotone, ShardsAssumption DEF Load, Contexts

\* What comes weighs one.
LEMMA LoadGrows ==
    ASSUME NEW n \in Amounts, NEW m \in Amounts, NEW e \in Contexts,
           \A c \in Contexts : c # e => m[c] <= n[c], m[e] <= n[e] + 1,
           NEW A, NEW s \in Amounts, NEW d \in Amounts
    PROVE  Load(m, A, s, d) <= Load(n, A, s, d) + 1
<1>1. \A c \in Contexts : c # e => Weight(m, A, s, d)[c] <= Weight(n, A, s, d)[c]
  BY DEF Amounts, Larger, Weight
<1>2. Weight(m, A, s, d)[e] <= Weight(n, A, s, d)[e] + 1
  BY DEF Amounts, Larger, Weight
<1>3. QED
  BY <1>1, <1>2, WeightType, SumOneMore, ShardsAssumption DEF Load, Contexts

\* The load of one more bucket.
LEMMA LoadOfOneMore ==
    ASSUME NEW n \in Amounts, NEW A, NEW e \in Contexts, e \notin A
    PROVE  Load(n, A \cup {e}, Zero, Zero) = Load(n, A, Zero, Zero) + n[e]
<1>1. \A c \in Contexts : c # e =>
         Weight(n, A \cup {e}, Zero, Zero)[c] = Weight(n, A, Zero, Zero)[c]
  BY DEF Weight
<1>2. Weight(n, A, Zero, Zero)[e] = 0 /\ Weight(n, A \cup {e}, Zero, Zero)[e] = n[e]
  BY ZeroType DEF Amounts, Larger, Weight
<1>3. Load(n, A \cup {e}, Zero, Zero)
         = Load(n, A, Zero, Zero) - Weight(n, A, Zero, Zero)[e]
           + Weight(n, A \cup {e}, Zero, Zero)[e]
  <2> DEFINE f == Weight(n, A, Zero, Zero)
             g == Weight(n, A \cup {e}, Zero, Zero)
  <2>1. f \in [1..Shards -> Int] /\ g \in [1..Shards -> Int]
    BY WeightType, ZeroType
  <2>2. e \in 1..Shards /\ \A i \in 1..Shards : i # e => g[i] = f[i]
    BY <1>1 DEF Contexts
  <2> HIDE DEF f, g
  <2>3. SumTo(g, Shards) = SumTo(f, Shards) - f[e] + g[e]
    BY <2>1, <2>2, SumChanged, ShardsAssumption
  <2>4. QED
    BY <2>3 DEF f, g, Load
<1>4. n[e] \in Int /\ Load(n, A, Zero, Zero) \in Int
  BY WeightType, ZeroType DEF Amounts
<1>5. QED
  BY <1>2, <1>3, <1>4

\* No load at all.
LEMMA LoadOfNone ==
    ASSUME NEW n \in Amounts, NEW s \in Amounts, NEW d \in Amounts
    PROVE  Load(n, {}, s, d) = 0
<1>1. \A c \in 1..Shards : Weight(n, {}, s, d)[c] = 0
  BY DEF Weight, Contexts
<1>2. QED
  BY <1>1, WeightType, SumOfZeros, ShardsAssumption DEF Load

LEMMA SizesType ==
    ASSUME FiniteInv
    PROVE  /\ Sizes \in Amounts
           /\ Total = Load(Sizes, Contexts, Zero, Zero)
           /\ \A c \in Contexts : Sizes[c] = Cardinality(index[c])
<1>1. \A c \in Contexts : Cardinality(index[c]) \in Nat
  BY FS_CardinalityType DEF FiniteInv
<1>2. Sizes \in Amounts
  BY <1>1 DEF Sizes, Amounts
<1>3. Weight(Sizes, Contexts, Zero, Zero) = Sizes
  <2>1. \A c \in Contexts : Larger(Sizes[c], 0) - 0 = Sizes[c]
    BY <1>2 DEF Larger, Amounts
  <2>2. QED
    BY <2>1 DEF Weight, Zero, Sizes
<1>4. QED
  BY <1>2, <1>3 DEF Total, Load, Sizes

LEMMA PerType ==
    ASSUME NEW S, IsFiniteSet(S)
    PROVE  /\ Per(S) \in Amounts
           /\ \A c \in Contexts : Per(S)[c] = Cardinality({q \in S : q[1] = c})
           /\ \A c \in Contexts : Per(S)[c] = 0 <=> {q \in S : q[1] = c} = {}
<1>1. \A c \in Contexts : /\ IsFiniteSet({q \in S : q[1] = c})
                          /\ Cardinality({q \in S : q[1] = c}) \in Nat
  BY FS_Subset, FS_CardinalityType
<1>2. QED
  BY <1>1, FS_EmptySet DEF Per, Amounts

LEMMA PerSum ==
    ASSUME NEW S, IsFiniteSet(S), \A q \in S : q[1] \in Contexts
    PROVE  SumTo(Per(S), Shards) = Cardinality(S)
<1> DEFINE of == [q \in S |-> q[1]]
           f == [i \in 1..Shards |-> Cardinality({q \in S : of[q] = i})]
<1>1. of \in [S -> 1..Shards]
  BY DEF Contexts
<1>2. SumTo(f, Shards) = Cardinality(S)
  <2> HIDE DEF of
  <2>1. QED
    BY <1>1, ShardsAssumption, SumOfParts
<1>3. f = Per(S)
  <2>1. \A i \in Contexts : {q \in S : of[q] = i} = {q \in S : q[1] = i}
    OBVIOUS
  <2> HIDE DEF of
  <2>2. QED
    BY <2>1 DEF Per, Contexts
<1>4. QED
  BY <1>2, <1>3

-------------------------------------------------------------------------------
(* Removal by positions.                                                   *)

\* The items of a bucket are at the positions from 0 on, one at each.
LEMMA Positions ==
    ASSUME NEW b, IsFiniteSet(b), b \subseteq Item, Numbered(b)
    PROVE  /\ Cardinality(b) \in Nat
           /\ \A x \in b : Position(b, x) \in 0 .. Cardinality(b) - 1
           /\ \A x, y \in b : Position(b, x) = Position(b, y) => x = y
           /\ \A k \in 0 .. Cardinality(b) - 1 : \E x \in b : Position(b, x) = k
<1> DEFINE R == {p \in b \X b : p[1].n < p[2].n}
           pos == [x \in b |-> Cardinality(Below(R, b, x))]
<1>1. \A x, y \in b : <<x, y>> \in R <=> x.n < y.n
  OBVIOUS
<1>2. Orders(R, b)
  <2>1. \A x \in b : x.n \in Nat
    BY DEF Item
  <2> HIDE DEF R
  <2>2. QED
    BY <1>1, <2>1 DEF Orders, Numbered
<1>3. \A x \in b : pos[x] = Position(b, x)
  <2> SUFFICES ASSUME NEW x \in b PROVE pos[x] = Position(b, x)
    OBVIOUS
  <2>1. Below(R, b, x) = {y \in b : y.n < x.n}
    BY <1>1 DEF Below
  <2>2. QED
    BY <2>1 DEF Position
<1>4. pos \in Bijection(b, 0 .. Cardinality(b) - 1)
  <2> HIDE DEF R
  <2>1. QED
    BY <1>2, Ranks
<1> HIDE DEF pos
<1>5. /\ pos \in [b -> 0 .. Cardinality(b) - 1]
      /\ \A x, y \in b : pos[x] = pos[y] => x = y
      /\ \A k \in 0 .. Cardinality(b) - 1 : \E x \in b : pos[x] = k
  BY <1>4 DEF Bijection, Injection, Surjection, IsInjective
<1>6. QED
  BY <1>3, <1>5, FS_CardinalityType

\* What removing the positions D of a bucket leaves that had s items when D was chosen:
\* of a bucket that has grown since, D has gone; of one that has shrunk, more than D.
LEMMA Removal ==
    ASSUME NEW b, IsFiniteSet(b), b \subseteq Item, Numbered(b), NEW s \in Nat,
           NEW D, \A k \in D : k \in Nat /\ k < s
    PROVE  /\ IsFiniteSet(D)
           /\ Cardinality(Without(b, D)) <= Larger(Cardinality(b), s) - Cardinality(D)
<1> DEFINE gone == {x \in b : Position(b, x) \in D}
           hit == {k \in D : k < Cardinality(b)}
           miss == D \ hit
           place == [x \in gone |-> Position(b, x)]
<1>1. /\ Cardinality(b) \in Nat
      /\ \A x \in b : Position(b, x) \in 0 .. Cardinality(b) - 1
      /\ \A x, y \in b : Position(b, x) = Position(b, y) => x = y
      /\ \A k \in 0 .. Cardinality(b) - 1 : \E x \in b : Position(b, x) = k
  BY Positions
<1>2. IsFiniteSet(D)
  <2>1. D \subseteq 0 .. s - 1 /\ IsFiniteSet(0 .. s - 1)
    BY FS_Interval
  <2>2. QED
    BY <2>1, FS_Subset
<1>3. IsFiniteSet(gone) /\ Cardinality(gone) \in Nat
  BY FS_Subset, FS_CardinalityType
<1>4. Cardinality(hit) = Cardinality(gone)
  <2>1. place \in [gone -> hit]
    BY <1>1
  <2>2. \A x, y \in gone : place[x] = place[y] => x = y
    BY <1>1
  <2>3. \A k \in hit : \E x \in gone : place[x] = k
    <3> SUFFICES ASSUME NEW k \in hit PROVE \E x \in gone : place[x] = k
      OBVIOUS
    <3>1. k \in 0 .. Cardinality(b) - 1 /\ k \in D
      BY <1>1
    <3>2. PICK x \in b : Position(b, x) = k
      BY <1>1, <3>1
    <3>3. x \in gone
      BY <3>1, <3>2
    <3>4. QED
      BY <3>2, <3>3
  <2> HIDE DEF gone, hit, place
  <2>4. QED
    BY <1>3, <2>1, <2>2, <2>3, SameSize
<1>5. Cardinality(D) = Cardinality(hit) + Cardinality(miss)
  <2>1. Cardinality(D \ hit) = Cardinality(D) - Cardinality(D \cap hit)
    BY <1>2, FS_Difference
  <2>2. D \cap hit = hit
    OBVIOUS
  <2>3. IsFiniteSet(hit) /\ Cardinality(hit) \in Nat /\ Cardinality(D) \in Nat
    BY <1>2, FS_Subset, FS_CardinalityType
  <2>4. Cardinality(D \cap hit) = Cardinality(hit)
    BY <2>2
  <2>5. Cardinality(miss) = Cardinality(D) - Cardinality(hit)
    BY <2>1, <2>4
  <2> HIDE DEF hit, miss
  <2>6. QED
    BY <2>3, <2>5
<1>6. Cardinality(miss) <= Larger(Cardinality(b), s) - Cardinality(b)
      /\ Cardinality(miss) \in Nat
  <2>1. miss \subseteq Cardinality(b) .. s - 1
    BY <1>1
  <2>2. /\ IsFiniteSet(Cardinality(b) .. s - 1)
        /\ Cardinality(Cardinality(b) .. s - 1)
              = IF Cardinality(b) > s - 1 THEN 0 ELSE s - 1 - Cardinality(b) + 1
    BY <1>1, FS_Interval
  <2> HIDE DEF miss
  <2>3. /\ Cardinality(miss) <= Cardinality(Cardinality(b) .. s - 1)
        /\ IsFiniteSet(miss) /\ Cardinality(miss) \in Nat
    BY <2>1, <2>2, FS_Subset, FS_CardinalityType
  <2>4. QED
    BY <1>1, <2>2, <2>3 DEF Larger
<1>7. Cardinality(Without(b, D)) = Cardinality(b) - Cardinality(gone)
  <2>1. Without(b, D) = b \ gone /\ b \cap gone = gone
    BY DEF Without
  <2> HIDE DEF gone
  <2>2. QED
    BY <2>1, FS_Difference
<1> HIDE DEF gone, hit, miss
<1>8. QED
  BY <1>1, <1>2, <1>3, <1>4, <1>5, <1>6, <1>7 DEF Larger

-------------------------------------------------------------------------------
(* What collecting comes to.                                               *)

\* Candidates as the third pass gathers them: of each context as many as there are
\* positions, each at its own.
Candidates(found) ==
    /\ found \subseteq Contexts \X Item \X Nat
    /\ IsFiniteSet(found)
    /\ \A q \in found : q[3] < Per(found)[q[1]]
    /\ \A q, r \in found : q[1] = r[1] /\ (q[3] = r[3] \/ q[2].n = r[2].n) => q = r

Marks(found, k) == {<<p[1], p[3]>> : p \in Oldest(found, k)}

\* The order of removal is an order.
LEMMA BeforeOrders ==
    ASSUME NEW found, Candidates(found)
    PROVE  Orders({p \in found \X found : Before(p[1], p[2])}, found)
<1> DEFINE R == {p \in found \X found : Before(p[1], p[2])}
<1>1. \A p, q \in found : <<p, q>> \in R <=> Before(p, q)
  OBVIOUS
<1>2. \A p \in found : p[1] \in Int /\ p[2].created \in Int /\ p[2].n \in Int
  BY DEF Candidates, Contexts, Item
<1>3. \A p, q \in found : p[1] = q[1] /\ p[2].n = q[2].n => p = q
  BY DEF Candidates
<1> HIDE DEF R
<1>4. \A p \in found : <<p, p>> \notin R
  BY <1>1, <1>2 DEF Before
<1>5. \A p, q \in found : p = q \/ <<p, q>> \in R \/ <<q, p>> \in R
  <2> SUFFICES ASSUME NEW p \in found, NEW q \in found, p # q
               PROVE  Before(p, q) \/ Before(q, p)
    BY <1>1
  <2>1. /\ p[1] \in Int /\ p[2].created \in Int /\ p[2].n \in Int
        /\ q[1] \in Int /\ q[2].created \in Int /\ q[2].n \in Int
    BY <1>2
  <2>2. p[1] # q[1] \/ p[2].n # q[2].n
    BY <1>3
  <2>3. QED
    BY <2>1, <2>2 DEF Before
<1>6. \A p, q, r \in found : <<p, q>> \in R /\ <<q, r>> \in R => <<p, r>> \in R
  BY <1>1, <1>2 DEF Before
<1>7. QED
  BY <1>4, <1>5, <1>6 DEF Orders, R

\* As many are marked as there are too many, or all that were found.
LEMMA OldestCount ==
    ASSUME NEW found, Candidates(found), NEW k \in Nat
    PROVE  /\ Oldest(found, k) \subseteq found /\ IsFiniteSet(Oldest(found, k))
           /\ k <= Cardinality(found) => Cardinality(Oldest(found, k)) = k
           /\ k > Cardinality(found) => Oldest(found, k) = found
<1> DEFINE R == {p \in found \X found : Before(p[1], p[2])}
<1>1. Orders(R, found) /\ IsFiniteSet(found)
  BY BeforeOrders DEF Candidates
<1>2. Oldest(found, k) = {p \in found : Cardinality(Below(R, found, p)) < k}
  <2>1. ASSUME NEW p \in found
        PROVE  Below(R, found, p) = {q \in found : Before(q, p)}
    BY DEF Below
  <2>2. QED
    BY <2>1 DEF Oldest
<1> HIDE DEF R
<1>3. /\ IsFiniteSet({p \in found : Cardinality(Below(R, found, p)) < k})
      /\ k <= Cardinality(found) =>
            Cardinality({p \in found : Cardinality(Below(R, found, p)) < k}) = k
      /\ k > Cardinality(found) => {p \in found : Cardinality(Below(R, found, p)) < k} = found
  BY <1>1, FirstCount
<1>4. QED
  BY <1>2, <1>3

LEMMA MarksCount ==
    ASSUME NEW found, Candidates(found), NEW k \in Nat
    PROVE  /\ IsFiniteSet(Marks(found, k))
           /\ \A d \in Marks(found, k) :
                 d[1] \in Contexts /\ d[2] \in Nat /\ d[2] < Per(found)[d[1]]
           /\ k <= Cardinality(found) => Cardinality(Marks(found, k)) = k
           /\ k > Cardinality(found) => Per(Marks(found, k)) = Per(found)
<1> DEFINE old == Oldest(found, k)
           f == [p \in old |-> <<p[1], p[3]>>]
           D == Marks(found, k)
<1>1. /\ old \subseteq found /\ IsFiniteSet(old)
      /\ k <= Cardinality(found) => Cardinality(old) = k
      /\ k > Cardinality(found) => old = found
  BY OldestCount
<1>2. D = {f[p] : p \in old}
  BY DEF Marks
<1>3. \A p \in old : f[p] = <<p[1], p[3]>> /\ f[p][1] = p[1] /\ f[p][2] = p[3]
  OBVIOUS
<1>4. \A p, q \in found : p[1] = q[1] /\ p[3] = q[3] => p = q
  BY DEF Candidates
<1>5. \A p \in found : p[1] \in Contexts /\ p[3] \in Nat /\ p[3] < Per(found)[p[1]]
  BY DEF Candidates
<1>6. f \in [old -> D]
  BY <1>2
<1> HIDE DEF f, old, D
<1>7. \A p, q \in old : f[p] = f[q] => p = q
  BY <1>1, <1>3, <1>4
<1>8. \A d \in D : \E p \in old : f[p] = d
  BY <1>2
<1>9. IsFiniteSet(D) /\ Cardinality(D) = Cardinality(old)
  BY <1>1, <1>6, <1>7, <1>8, SameSize
<1>10. \A d \in D : d[1] \in Contexts /\ d[2] \in Nat /\ d[2] < Per(found)[d[1]]
  BY <1>1, <1>3, <1>5, <1>8
<1>11. ASSUME k > Cardinality(found), NEW c \in Contexts
       PROVE  Cardinality({d \in D : d[1] = c}) = Cardinality({q \in found : q[1] = c})
  <2> DEFINE S == {q \in found : q[1] = c}
             T == {d \in D : d[1] = c}
             g == [q \in S |-> f[q]]
  <2>1. old = found
    BY <1>1, <1>11
  <2>2. g \in [S -> T]
    <3>1. \A q \in S : f[q] \in T
      BY <1>3, <1>6, <2>1
    <3>2. QED
      BY <3>1
  <2>3. \A p, q \in S : g[p] = g[q] => p = q
    BY <1>7, <2>1
  <2>4. \A d \in T : \E q \in S : g[q] = d
    <3> SUFFICES ASSUME NEW d \in T PROVE \E q \in S : g[q] = d
      OBVIOUS
    <3>1. PICK q \in old : f[q] = d
      BY <1>8
    <3>2. q \in S
      BY <1>3, <2>1, <3>1
    <3>3. QED
      BY <3>1, <3>2
  <2>5. IsFiniteSet(S)
    BY FS_Subset DEF Candidates
  <2> HIDE DEF S, T, g
  <2>6. Cardinality(T) = Cardinality(S)
    BY <2>2, <2>3, <2>4, <2>5, SameSize
  <2>7. QED
    BY <2>6 DEF S, T
<1>12. k > Cardinality(found) => Per(D) = Per(found)
  BY <1>11 DEF Per
<1>13. QED
  BY <1>1, <1>9, <1>10, <1>12 DEF D

\* The last claim: after the removals of D there are at most max and late ones.
Removing(n, D, max, late) ==
    \E s \in Amounts :
        /\ \A q \in D : q[1] \in Contexts /\ q[2] \in Nat /\ q[2] < s[q[1]]
        /\ \A c \in Contexts : Per(D)[c] = 0 => s[c] = 0
        /\ Load(n, Contexts, s, Per(D)) <= max + late

\* It holds when all has been collected, of k too many.
LEMMA CollectedAll ==
    ASSUME NEW n \in Amounts, NEW found, Candidates(found), NEW k \in Nat,
           NEW max \in Nat, NEW late \in Nat,
           Load(n, Contexts, Per(found), Zero) <= max + k + late,
           Load(n, Contexts, Per(found), Per(found)) <= late
    PROVE  Removing(n, Marks(found, k), max, late)
<1> DEFINE D == Marks(found, k)
           s == [c \in Contexts |-> IF Per(D)[c] = 0 THEN 0 ELSE Per(found)[c]]
<1>1. /\ IsFiniteSet(D)
      /\ \A d \in D : d[1] \in Contexts /\ d[2] \in Nat /\ d[2] < Per(found)[d[1]]
      /\ k <= Cardinality(found) => Cardinality(D) = k
      /\ k > Cardinality(found) => Per(D) = Per(found)
  BY MarksCount
<1>2. Per(found) \in Amounts
  BY PerType DEF Candidates
<1> HIDE DEF D
<1>3. /\ Per(D) \in Amounts
      /\ \A c \in Contexts : Per(D)[c] = 0 <=> {q \in D : q[1] = c} = {}
  BY <1>1, PerType
<1>4. s \in Amounts /\ \A c \in Contexts : s[c] <= Per(found)[c]
                                           /\ (Per(D)[c] = 0 => s[c] = 0)
                                           /\ (Per(D)[c] # 0 => s[c] = Per(found)[c])
  BY <1>2, <1>3 DEF Amounts
<1> HIDE DEF s
<1>5. \A q \in D : q[1] \in Contexts /\ q[2] \in Nat /\ q[2] < s[q[1]]
  <2> SUFFICES ASSUME NEW q \in D
               PROVE  q[1] \in Contexts /\ q[2] \in Nat /\ q[2] < s[q[1]]
    OBVIOUS
  <2>1. q[1] \in Contexts /\ q[2] \in Nat /\ q[2] < Per(found)[q[1]]
    BY <1>1
  <2>2. {r \in D : r[1] = q[1]} # {}
    OBVIOUS
  <2>3. QED
    BY <1>3, <1>4, <2>1, <2>2
<1>6. CASE k <= Cardinality(found)
  <2>1. SumTo(Per(D), Shards) = k
    BY <1>1, <1>6, PerSum
  <2> DEFINE f == Weight(n, Contexts, s, Per(D))
             g == Per(D)
             h == Weight(n, Contexts, s, Zero)
  <2>2. f \in [1..Shards -> Int] /\ h \in [1..Shards -> Int] /\ g \in [1..Shards -> Int]
    <3>1. f \in [1..Shards -> Int] /\ h \in [1..Shards -> Int]
      BY <1>3, <1>4, ZeroType, WeightType
    <3>2. g \in [1..Shards -> Int]
      BY <1>3 DEF Amounts, Contexts
    <3>3. QED
      BY <3>1, <3>2
  <2>3. \A c \in 1..Shards : h[c] = f[c] + g[c]
    BY <1>3, <1>4, ZeroType DEF Weight, Contexts, Amounts, Larger
  <2> HIDE DEF f, g, h
  <2>4. SumTo(h, Shards) = SumTo(f, Shards) + SumTo(g, Shards)
    BY <2>2, <2>3, SumAdds, ShardsAssumption
  <2>5. Load(n, Contexts, s, Zero) = Load(n, Contexts, s, Per(D)) + k
    BY <2>1, <2>4 DEF f, g, h, Load
  <2>6. Load(n, Contexts, s, Zero) <= Load(n, Contexts, Per(found), Zero)
    <3> DEFINE a == Weight(n, Contexts, s, Zero)
               b == Weight(n, Contexts, Per(found), Zero)
    <3>1. a \in [1..Shards -> Int] /\ b \in [1..Shards -> Int]
      BY <1>2, <1>4, ZeroType, WeightType
    <3>2. \A c \in 1..Shards : a[c] <= b[c]
      BY <1>2, <1>4, ZeroType DEF Weight, Contexts, Amounts, Larger
    <3> HIDE DEF a, b
    <3>3. SumTo(a, Shards) <= SumTo(b, Shards)
      BY <3>1, <3>2, SumMonotone, ShardsAssumption
    <3>4. QED
      BY <3>3 DEF a, b, Load
  <2>7. /\ Load(n, Contexts, s, Zero) \in Int /\ Load(n, Contexts, s, Per(D)) \in Int
        /\ Load(n, Contexts, Per(found), Zero) \in Int
    BY <1>2, <1>3, <1>4, ZeroType, WeightType
  <2>8. Load(n, Contexts, s, Per(D)) <= max + late
    BY <2>5, <2>6, <2>7
  <2>9. QED
    BY <1>4, <1>5, <2>8 DEF Removing, D
<1>7. CASE k > Cardinality(found)
  <2>1. Per(D) = Per(found)
    BY <1>1, <1>7
  <2>2. s = Per(found)
    <3>1. \A c \in Contexts : s[c] = Per(found)[c]
      BY <1>4, <2>1
    <3>2. QED
      BY <1>2, <1>4, <3>1 DEF Amounts
  <2>3. Load(n, Contexts, s, Per(D)) <= max + late
    <3>1. Load(n, Contexts, s, Per(D)) \in Int
      BY <1>3, <1>4, WeightType
    <3>2. QED
      BY <2>1, <2>2, <3>1
  <2>4. QED
    BY <1>4, <1>5, <2>3 DEF Removing, D
<1>8. Cardinality(found) \in Nat
  BY FS_CardinalityType DEF Candidates
<1>9. QED
  BY <1>6, <1>7, <1>8

-------------------------------------------------------------------------------
(* What a pass knows of the index.                                         *)

Passed(p) == {c \in Contexts : c < p.next}

LEMMA PassedOn ==
    ASSUME NEW p \in Passes
    PROVE  /\ p.next = 1 => Passed(p) = {}
           /\ p.next \notin Passed(p) /\ p.next \in Contexts
           /\ p.next = Shards => Passed(p) \cup {p.next} = Contexts
           /\ \A q \in Passes : q.next = p.next + 1 => Passed(q) = Passed(p) \cup {p.next}
<1>1. p.next \in Contexts /\ Shards \in Nat
  BY ShardsAssumption DEF Passes
<1>2. QED
  BY <1>1 DEF Passed, Contexts

\* Candidates are of contexts that have been passed.
Gathered(p) ==
    /\ Candidates(p.found)
    /\ \A q \in p.found : q[1] < p.next
    /\ IsFiniteSet(p.doomed)

\* What the pass p knows when the buckets are of sizes n and `late` inserts have pushed
\* since its own and are not over: a count misses what they have pushed at most, and
\* so do the candidates and the positions that are marked.
Claim(n, p, max, late) ==
    /\ p.at \in {"counting", "recounting"} => Load(n, Passed(p), Zero, Zero) <= p.sum + late
    /\ p.at = "collecting" =>
          /\ Load(n, Contexts, Per(p.found), Zero) <= max + p.sum + late
          /\ Load(n, Passed(p), Per(p.found), Per(p.found)) <= late
    /\ p.at = "removing" => Removing(n, p.doomed, max, late)

LEMMA ClaimShrinks ==
    ASSUME NEW p, Gathered(p), p.sum \in Nat, NEW n \in Amounts, NEW m \in Amounts,
           \A c \in Contexts : m[c] <= n[c],
           NEW max \in Nat, NEW late \in Nat, Claim(n, p, max, late)
    PROVE  Claim(m, p, max, late)
<1>1. Per(p.found) \in Amounts /\ Per(p.doomed) \in Amounts /\ Zero \in Amounts
  BY PerType, ZeroType DEF Gathered, Candidates
<1>2. \A A : \A s, d \in Amounts :
         /\ Load(m, A, s, d) <= Load(n, A, s, d)
         /\ Load(m, A, s, d) \in Int /\ Load(n, A, s, d) \in Int
  BY LoadShrinks, WeightType
<1>3. ASSUME Removing(n, p.doomed, max, late)
      PROVE  Removing(m, p.doomed, max, late)
  <2>1. PICK s \in Amounts :
           /\ \A q \in p.doomed : q[1] \in Contexts /\ q[2] \in Nat /\ q[2] < s[q[1]]
           /\ \A c \in Contexts : Per(p.doomed)[c] = 0 => s[c] = 0
           /\ Load(n, Contexts, s, Per(p.doomed)) <= max + late
    BY <1>3 DEF Removing
  <2>2. Load(m, Contexts, s, Per(p.doomed)) <= max + late
    BY <1>1, <1>2, <2>1
  <2>3. QED
    BY <2>1, <2>2 DEF Removing
<1>4. ASSUME p.at \in {"counting", "recounting"}
      PROVE  Load(m, Passed(p), Zero, Zero) <= p.sum + late
  <2>1. Load(n, Passed(p), Zero, Zero) <= p.sum + late
    BY <1>4 DEF Claim
  <2>2. QED
    BY <1>1, <1>2, <2>1
<1>5. ASSUME p.at = "collecting"
      PROVE  /\ Load(m, Contexts, Per(p.found), Zero) <= max + p.sum + late
             /\ Load(m, Passed(p), Per(p.found), Per(p.found)) <= late
  <2>1. /\ Load(n, Contexts, Per(p.found), Zero) <= max + p.sum + late
        /\ Load(n, Passed(p), Per(p.found), Per(p.found)) <= late
    BY <1>5 DEF Claim
  <2>2. QED
    BY <1>1, <1>2, <2>1
<1>6. QED
  BY <1>3, <1>4, <1>5 DEF Claim

LEMMA ClaimGrows ==
    ASSUME NEW p, Gathered(p), p.sum \in Nat, NEW n \in Amounts, NEW m \in Amounts,
           NEW e \in Contexts, \A c \in Contexts : c # e => m[c] <= n[c], m[e] <= n[e] + 1,
           NEW max \in Nat, NEW late \in Nat, Claim(n, p, max, late)
    PROVE  Claim(m, p, max, late + 1)
<1>1. Per(p.found) \in Amounts /\ Per(p.doomed) \in Amounts /\ Zero \in Amounts
  BY PerType, ZeroType DEF Gathered, Candidates
<1>2. \A A : \A s, d \in Amounts :
         /\ Load(m, A, s, d) <= Load(n, A, s, d) + 1
         /\ Load(m, A, s, d) \in Int /\ Load(n, A, s, d) \in Int
  BY LoadGrows, WeightType
<1>3. ASSUME Removing(n, p.doomed, max, late)
      PROVE  Removing(m, p.doomed, max, late + 1)
  <2>1. PICK s \in Amounts :
           /\ \A q \in p.doomed : q[1] \in Contexts /\ q[2] \in Nat /\ q[2] < s[q[1]]
           /\ \A c \in Contexts : Per(p.doomed)[c] = 0 => s[c] = 0
           /\ Load(n, Contexts, s, Per(p.doomed)) <= max + late
    BY <1>3 DEF Removing
  <2>2. Load(m, Contexts, s, Per(p.doomed)) <= max + (late + 1)
    BY <1>1, <1>2, <2>1
  <2>3. QED
    BY <2>1, <2>2 DEF Removing
<1>4. ASSUME p.at \in {"counting", "recounting"}
      PROVE  Load(m, Passed(p), Zero, Zero) <= p.sum + (late + 1)
  <2>1. Load(n, Passed(p), Zero, Zero) <= p.sum + late
    BY <1>4 DEF Claim
  <2>2. QED
    BY <1>1, <1>2, <2>1
<1>5. ASSUME p.at = "collecting"
      PROVE  /\ Load(m, Contexts, Per(p.found), Zero) <= max + p.sum + (late + 1)
             /\ Load(m, Passed(p), Per(p.found), Per(p.found)) <= late + 1
  <2>1. /\ Load(n, Contexts, Per(p.found), Zero) <= max + p.sum + late
        /\ Load(n, Passed(p), Per(p.found), Per(p.found)) <= late
    BY <1>5 DEF Claim
  <2>2. QED
    BY <1>1, <1>2, <2>1
<1>6. QED
  BY <1>3, <1>4, <1>5 DEF Claim

\* A count of one bucket more.
LEMMA ClaimCounts ==
    ASSUME NEW p \in Passes, p.at \in {"counting", "recounting"}, NEW n \in Amounts,
           NEW max \in Nat, NEW late \in Nat, Claim(n, p, max, late)
    PROVE  /\ Load(n, Passed(p) \cup {p.next}, Zero, Zero) <= p.sum + n[p.next] + late
           /\ p.next = Shards =>
                 Load(n, Contexts, Zero, Zero) <= p.sum + n[p.next] + late
<1>1. Load(n, Passed(p), Zero, Zero) <= p.sum + late
  BY DEF Claim
<1>2. Load(n, Passed(p) \cup {p.next}, Zero, Zero)
         = Load(n, Passed(p), Zero, Zero) + n[p.next]
  BY PassedOn, LoadOfOneMore
<1>3. Load(n, Passed(p), Zero, Zero) \in Int /\ p.sum \in Int /\ n[p.next] \in Int
  <2>1. Load(n, Passed(p), Zero, Zero) \in Int
    BY WeightType, ZeroType
  <2>2. p.next \in Contexts /\ p.sum \in Nat
    BY DEF Passes
  <2>3. n[p.next] \in Nat
    BY <2>2 DEF Amounts
  <2>4. QED
    BY <2>1, <2>2, <2>3
<1>4. Load(n, Passed(p) \cup {p.next}, Zero, Zero) <= p.sum + n[p.next] + late
  BY <1>1, <1>2, <1>3
<1>5. p.next = Shards => Passed(p) \cup {p.next} = Contexts
  BY PassedOn
<1>6. QED
  BY <1>4, <1>5

\* Nothing has been collected yet, of what is too many.
LEMMA ClaimBegins ==
    ASSUME NEW n \in Amounts, NEW max \in Nat, NEW late \in Nat, NEW k \in Nat,
           Load(n, Contexts, Zero, Zero) <= max + k + late
    PROVE  Claim(n, [Doing("collecting") EXCEPT !.sum = k], max, late)
<1> DEFINE p == [Doing("collecting") EXCEPT !.sum = k]
<1>1. /\ p.at = "collecting" /\ p.sum = k /\ p.found = {} /\ p.next = 1
  BY DEF Doing
<1>2. Per({}) = Zero
  BY FS_EmptySet DEF Per, Zero
<1>3. Passed(p) = {}
  BY <1>1 DEF Passed, Contexts
<1>4. Load(n, {}, Zero, Zero) = 0
  BY LoadOfNone, ZeroType
<1> HIDE DEF p
<1>5. QED
  BY <1>1, <1>2, <1>3, <1>4 DEF Claim, p

\* When nothing is left to remove, the claim is about all there is.
LEMMA RemovedAll ==
    ASSUME NEW n, NEW max, NEW late, Removing(n, {}, max, late)
    PROVE  Load(n, Contexts, Zero, Zero) <= max + late
<1>1. Per({}) = Zero
  BY FS_EmptySet DEF Per, Zero
<1>2. PICK s \in Amounts :
         /\ \A c \in Contexts : Zero[c] = 0 => s[c] = 0
         /\ Load(n, Contexts, s, Zero) <= max + late
  BY <1>1 DEF Removing
<1>3. s = Zero
  BY <1>2, ZeroType DEF Amounts, Zero
<1>4. QED
  BY <1>2, <1>3

\* The next bucket is collected.
LEMMA ClaimCollects ==
    ASSUME TypeOK, BucketsInv, FiniteInv, NEW t \in Threads, Gathered(pass[t]),
           pass[t].at = "collecting"
    PROVE  LET c == pass[t].next
               found == pass[t].found \cup {<<c, x, Position(index[c], x)>> : x \in index[c]}
           IN  /\ Candidates(found)
               /\ \A q \in found : q[1] < c + 1
               /\ \A late \in Nat : Claim(Sizes, pass[t], cfg.max, late) =>
                     /\ Load(Sizes, Contexts, Per(found), Zero) <= cfg.max + pass[t].sum + late
                     /\ Load(Sizes, Passed(pass[t]) \cup {c}, Per(found), Per(found)) <= late
<1> DEFINE c == pass[t].next
           b == index[c]
           old == pass[t].found
           f == [x \in b |-> <<c, x, Position(b, x)>>]
           new == {<<c, x, Position(b, x)>> : x \in b}
           found == old \cup new
<1>1. /\ c \in Contexts /\ c \in Nat /\ b \subseteq Item /\ IsFiniteSet(b) /\ Numbered(b)
      /\ Cardinality(b) \in Nat
  <2>1. c \in Contexts
    BY DEF TypeOK, Passes
  <2>2. Sound(b)
    BY <2>1 DEF BucketsInv
  <2>3. QED
    BY <2>1, <2>2, FS_CardinalityType DEF Sound, Contexts
<1>2. /\ Candidates(old) /\ \A q \in old : q[1] < c /\ q[1] \in Nat
      /\ IsFiniteSet(old) /\ old \subseteq Contexts \X Item \X Nat
  BY DEF Gathered, Candidates, Contexts
<1>3. /\ \A x \in b : Position(b, x) \in 0 .. Cardinality(b) - 1
      /\ \A x, y \in b : Position(b, x) = Position(b, y) => x = y
  BY <1>1, Positions
<1>4. \A q \in new : \E x \in b : q = <<c, x, Position(b, x)>>
  OBVIOUS
<1>5. \A x \in b : <<c, x, Position(b, x)>> \in new
  OBVIOUS
<1> HIDE DEF b, c, old, new
<1>6. \A q \in new : \E x \in b : /\ q[1] = c /\ q[2] = x /\ q[3] = Position(b, x)
                                  /\ q = <<c, x, Position(b, x)>>
  BY <1>4
<1>7. new \subseteq Contexts \X Item \X Nat
  <2>1. \A x \in b : x \in Item /\ Position(b, x) \in Nat
    BY <1>1, <1>3
  <2>2. QED
    BY <1>1, <1>4, <2>1
<1>8. IsFiniteSet(new) /\ Cardinality(new) = Cardinality(b)
  <2>1. f \in [b -> new] /\ \A x \in b : f[x] = <<c, x, Position(b, x)>>
    BY <1>5
  <2> HIDE DEF f
  <2>2. \A x, y \in b : f[x] = f[y] => x = y
    BY <2>1
  <2>3. \A q \in new : \E x \in b : f[x] = q
    BY <1>4, <2>1
  <2>4. QED
    BY <1>1, <2>1, <2>2, <2>3, SameSize
<1>9. \A q \in new : q[1] = c
  BY <1>6
<1>10. /\ {q \in found : q[1] = c} = new
       /\ {q \in old : q[1] = c} = {}
       /\ \A e \in Contexts : e # c => {q \in found : q[1] = e} = {q \in old : q[1] = e}
  <2>1. \A q \in old : q[1] # c
    BY <1>1, <1>2
  <2>2. QED
    BY <1>9, <2>1
<1>11. IsFiniteSet(found)
  BY <1>2, <1>8, FS_Union
<1>12. /\ Per(found) \in Amounts /\ Per(old) \in Amounts
       /\ Per(found)[c] = Cardinality(b) /\ Per(old)[c] = 0
       /\ \A e \in Contexts : e # c => Per(found)[e] = Per(old)[e]
  <2>1. Per(found) \in Amounts /\ Per(old) \in Amounts
    BY <1>2, <1>11, PerType
  <2>2. Per(found)[c] = Cardinality(b)
    BY <1>1, <1>8, <1>10 DEF Per
  <2>3. Per(old)[c] = 0
    BY <1>1, <1>10, FS_EmptySet DEF Per
  <2>4. \A e \in Contexts : e # c => Per(found)[e] = Per(old)[e]
    BY <1>10 DEF Per
  <2>5. QED
    BY <2>1, <2>2, <2>3, <2>4
<1>13. Candidates(found)
  <2>1. found \subseteq Contexts \X Item \X Nat
    BY <1>2, <1>7
  <2>2. ASSUME NEW q \in found
        PROVE  q[3] < Per(found)[q[1]]
    <3>1. CASE q \in old
      <4>1. q[3] < Per(old)[q[1]] /\ q[1] # c /\ q[1] \in Contexts
        BY <1>1, <1>2, <3>1 DEF Candidates
      <4>2. QED
        BY <1>12, <4>1
    <3>2. CASE q \in new
      BY <1>1, <1>3, <1>6, <1>12, <3>2
    <3>3. QED
      BY <3>1, <3>2
  <2>3. ASSUME NEW q \in found, NEW r \in found, q[1] = r[1], q[3] = r[3] \/ q[2].n = r[2].n
        PROVE  q = r
    <3>1. CASE q \in old /\ r \in old
      BY <1>2, <2>3, <3>1 DEF Candidates
    <3>2. CASE q \in new /\ r \in new
      <4>1. PICK x \in b : /\ q[1] = c /\ q[2] = x /\ q[3] = Position(b, x)
                           /\ q = <<c, x, Position(b, x)>>
        BY <1>6, <3>2
      <4>2. PICK y \in b : /\ r[1] = c /\ r[2] = y /\ r[3] = Position(b, y)
                           /\ r = <<c, y, Position(b, y)>>
        BY <1>6, <3>2
      <4>3. x = y
        BY <1>1, <1>3, <2>3, <4>1, <4>2 DEF Numbered
      <4>4. QED
        BY <4>1, <4>2, <4>3
    <3>3. CASE (q \in old /\ r \in new) \/ (q \in new /\ r \in old)
      BY <1>1, <1>2, <1>9, <2>3, <3>3
    <3>4. QED
      BY <3>1, <3>2, <3>3
  <2> HIDE DEF found
  <2>4. QED
    BY <1>11, <2>1, <2>2, <2>3 DEF Candidates
<1>14. \A q \in found : q[1] < c + 1
  BY <1>1, <1>2, <1>9
<1> HIDE DEF found
<1>15. Sizes \in Amounts /\ Sizes[c] = Cardinality(b)
  BY <1>1, SizesType DEF b
<1>16. Weight(Sizes, Contexts, Per(found), Zero) = Weight(Sizes, Contexts, Per(old), Zero)
  <2>1. ASSUME NEW e \in Contexts
        PROVE  Larger(Sizes[e], Per(found)[e]) = Larger(Sizes[e], Per(old)[e])
    <3>1. CASE e = c
      <4>1. Sizes[e] \in Nat /\ Sizes[e] = Per(found)[e] /\ Per(old)[e] = 0
        BY <1>1, <1>12, <1>15, <3>1
      <4>2. QED
        BY <4>1 DEF Larger
    <3>2. CASE e # c
      BY <1>12, <3>2
    <3>3. QED
      BY <3>1, <3>2
  <2>2. QED
    BY <2>1 DEF Weight
<1>17. Weight(Sizes, Passed(pass[t]) \cup {c}, Per(found), Per(found))
          = Weight(Sizes, Passed(pass[t]), Per(old), Per(old))
  <2>1. c \notin Passed(pass[t])
    BY <1>1 DEF Passed, c
  <2>2. Larger(Sizes[c], Per(found)[c]) - Per(found)[c] = 0
    BY <1>1, <1>12, <1>15 DEF Larger
  <2>3. \A e \in Contexts :
           (IF e \in Passed(pass[t]) \cup {c}
            THEN Larger(Sizes[e], Per(found)[e]) - Per(found)[e] ELSE 0)
           = (IF e \in Passed(pass[t])
              THEN Larger(Sizes[e], Per(old)[e]) - Per(old)[e] ELSE 0)
    BY <1>12, <2>1, <2>2
  <2>4. QED
    BY <2>3 DEF Weight
<1>18. ASSUME NEW late \in Nat, Claim(Sizes, pass[t], cfg.max, late)
       PROVE  /\ Load(Sizes, Contexts, Per(found), Zero) <= cfg.max + pass[t].sum + late
              /\ Load(Sizes, Passed(pass[t]) \cup {c}, Per(found), Per(found)) <= late
  <2>1. /\ Load(Sizes, Contexts, Per(old), Zero) <= cfg.max + pass[t].sum + late
        /\ Load(Sizes, Passed(pass[t]), Per(old), Per(old)) <= late
    BY <1>18 DEF Claim, old
  <2>2. QED
    BY <1>16, <1>17, <2>1 DEF Load
<1>19. QED
  BY <1>13, <1>14, <1>18 DEF found, new, old, b, c

\* The positions of one bucket are removed.
LEMMA ClaimRemoves ==
    ASSUME FiniteInv, BucketsInv, NEW c \in Contexts, NEW D, IsFiniteSet(D),
           D \subseteq Contexts \X Nat, NEW m \in Amounts,
           m[c] = Cardinality(Without(index[c], {d[2] : d \in {e \in D : e[1] = c}})),
           \A e \in Contexts : e # c => m[e] = Sizes[e],
           NEW max \in Nat, NEW late \in Nat, Removing(Sizes, D, max, late)
    PROVE  Removing(m, D \ {d \in D : d[1] = c}, max, late)
<1> DEFINE mine == {d \in D : d[1] = c}
           rest == D \ mine
           at == {d[2] : d \in mine}
           n == Sizes
<1>1. PICK s \in Amounts :
         /\ \A q \in D : q[1] \in Contexts /\ q[2] \in Nat /\ q[2] < s[q[1]]
         /\ \A e \in Contexts : Per(D)[e] = 0 => s[e] = 0
         /\ Load(n, Contexts, s, Per(D)) <= max + late
  BY DEF Removing
<1> DEFINE r == [s EXCEPT ![c] = 0]
<1>2. r \in Amounts /\ r[c] = 0 /\ \A e \in Contexts : e # c => r[e] = s[e]
  BY DEF Amounts
<1>3. IsFiniteSet(mine) /\ IsFiniteSet(rest)
  BY FS_Subset, FS_Difference
<1>4. \A k \in at : k \in Nat /\ k < s[c]
  BY <1>1
<1>5. Cardinality(at) = Per(D)[c]
  <2> DEFINE f == [d \in mine |-> d[2]]
  <2>1. f \in [mine -> at] /\ \A d \in mine : f[d] = d[2]
    OBVIOUS
  <2>2. \A k \in at : \E d \in mine : f[d] = k
    OBVIOUS
  <2>3. \A d, e \in mine : d[2] = e[2] => d = e
    OBVIOUS
  <2> HIDE DEF f, mine, at
  <2>4. Cardinality(at) = Cardinality(mine)
    <3>1. \A d, e \in mine : f[d] = f[e] => d = e
      BY <2>1, <2>3
    <3>2. QED
      BY <1>3, <2>1, <2>2, <3>1, SameSize
  <2>5. QED
    BY <2>4 DEF Per, mine
<1>6. /\ Per(D) \in Amounts /\ Per(rest) \in Amounts /\ Per(rest)[c] = 0
      /\ \A e \in Contexts : e # c => Per(rest)[e] = Per(D)[e]
  <2>1. Per(D) \in Amounts /\ Per(rest) \in Amounts
    BY <1>3, PerType
  <2>2. {q \in rest : q[1] = c} = {}
    OBVIOUS
  <2>3. \A e \in Contexts : e # c => {q \in rest : q[1] = e} = {q \in D : q[1] = e}
    OBVIOUS
  <2> HIDE DEF rest
  <2>4. Per(rest)[c] = 0
    BY <2>2, FS_EmptySet DEF Per
  <2>5. QED
    BY <2>1, <2>3, <2>4 DEF Per
<1>7. n \in Amounts /\ n[c] = Cardinality(index[c])
  BY SizesType
<1> HIDE DEF r, n, at, rest
<1>8. m[c] <= Larger(n[c], s[c]) - Per(D)[c]
  <2>1. IsFiniteSet(index[c]) /\ index[c] \subseteq Item /\ Numbered(index[c])
    BY DEF BucketsInv, Sound
  <2>2. s[c] \in Nat
    BY DEF Amounts
  <2>3. Cardinality(Without(index[c], at)) <= Larger(Cardinality(index[c]), s[c]) - Cardinality(at)
    BY <1>4, <2>1, <2>2, Removal
  <2>4. m[c] = Cardinality(Without(index[c], at))
    BY DEF at
  <2>5. QED
    BY <1>5, <1>7, <2>3, <2>4
<1>9. \A e \in Contexts : Weight(m, Contexts, r, Per(rest))[e]
                             <= Weight(n, Contexts, s, Per(D))[e]
  <2> SUFFICES ASSUME NEW e \in Contexts
               PROVE  Larger(m[e], r[e]) - Per(rest)[e] <= Larger(n[e], s[e]) - Per(D)[e]
    BY DEF Weight
  <2>1. CASE e = c
    <3>1. Larger(m[c], r[c]) - Per(rest)[c] = m[c]
      BY <1>2, <1>6 DEF Larger, Amounts
    <3>2. QED
      BY <1>8, <2>1, <3>1
  <2>2. CASE e # c
    <3>1. m[e] = n[e] /\ r[e] = s[e] /\ Per(rest)[e] = Per(D)[e]
      BY <1>2, <1>6, <2>2 DEF n
    <3>2. Larger(n[e], s[e]) - Per(D)[e] \in Int
      BY <1>6, <1>7 DEF Larger, Amounts
    <3>3. QED
      BY <3>1, <3>2
  <2>3. QED
    BY <2>1, <2>2
<1>10. Load(m, Contexts, r, Per(rest)) <= Load(n, Contexts, s, Per(D))
  <2> DEFINE a == Weight(m, Contexts, r, Per(rest))
             b == Weight(n, Contexts, s, Per(D))
  <2>1. a \in [1..Shards -> Int] /\ b \in [1..Shards -> Int]
    BY <1>2, <1>6, <1>7, WeightType
  <2>2. \A e \in 1..Shards : a[e] <= b[e]
    BY <1>9 DEF Contexts
  <2> HIDE DEF a, b
  <2>3. SumTo(a, Shards) <= SumTo(b, Shards)
    BY <2>1, <2>2, SumMonotone, ShardsAssumption
  <2>4. QED
    BY <2>3 DEF a, b, Load
<1>11. Load(m, Contexts, r, Per(rest)) <= max + late
  <2>1. Load(m, Contexts, r, Per(rest)) \in Int /\ Load(n, Contexts, s, Per(D)) \in Int
    BY <1>2, <1>6, <1>7, WeightType
  <2>2. QED
    BY <1>1, <1>10, <2>1
<1>12. \A q \in rest : q[1] \in Contexts /\ q[2] \in Nat /\ q[2] < r[q[1]]
  <2>1. \A q \in rest : q \in D /\ q[1] # c
    BY DEF rest
  <2>2. QED
    BY <1>1, <1>2, <2>1
<1>13. \A e \in Contexts : Per(rest)[e] = 0 => r[e] = 0
  BY <1>1, <1>2, <1>6
<1>14. Removing(m, rest, max, late)
  BY <1>2, <1>11, <1>12, <1>13 DEF Removing
<1>15. QED
  BY <1>14 DEF rest

-------------------------------------------------------------------------------
(* The steps of an insert.                                                 *)

\* What a step of the insert of t comes to: what t knows is true of the sizes after
\* the step, and when the insert is over there are no more than there may be.
Comes(t) ==
    /\ pass'[t] = Idle \/ pass'[t].at \in Inserts
    /\ Gathered(pass'[t])
    /\ \A late \in Nat : Claim(Sizes, pass[t], cfg.max, late) =>
          IF pass'[t] = Idle THEN Load(Sizes', Contexts, Zero, Zero) <= cfg.max + late
          ELSE Claim(Sizes', pass'[t], cfg.max, late)

LEMMA GatheredNone ==
    ASSUME NEW p, p.found = {}, p.doomed = {}
    PROVE  Gathered(p)
<1>1. Candidates({})
  BY FS_EmptySet DEF Candidates
<1>2. QED
  BY <1>1, FS_EmptySet DEF Gathered

LEMMA GoesTo ==
    ASSUME TypeOK, NEW t \in Threads, NEW going, NEW end, Goes(t, going, end)
    PROVE  /\ pass[t].next = Shards => pass'[t] = end
           /\ pass[t].next # Shards => pass'[t] = [going EXCEPT !.next = pass[t].next + 1]
           /\ \A u \in Threads : u # t => pass'[u] = pass[u]
BY DEF Goes, TypeOK

LEMMA CountComes ==
    ASSUME TypeOK, FiniteInv, NEW t \in Threads, Gathered(pass[t]), Count(t)
    PROVE  Comes(t)
<1> DEFINE p == pass[t]
           sum == p.sum + Sizes[p.next]
           going == [p EXCEPT !.sum = sum]
           end == IF sum > cfg.max THEN Doing("expiring") ELSE Idle
           step == [going EXCEPT !.next = p.next + 1]
<1>1. p \in Passes /\ p.next \in Contexts /\ sum \in Nat /\ p.sum \in Nat
  <2>1. Sizes[p.next] = Cardinality(index[p.next])
    BY PassSum, SizesType
  <2>2. QED
    BY <2>1, PassSum DEF Passes
<1>2. p.at = "counting" /\ Goes(t, going, end) /\ UNCHANGED <<index, cfg>>
  <2>1. Sizes[p.next] = Cardinality(index[p.next])
    BY <1>1, SizesType
  <2>2. QED
    BY <2>1 DEF Count
<1>3. Sizes' = Sizes /\ Sizes \in Amounts
  BY <1>2, SizesType DEF Sizes
<1>4. cfg.max \in Nat
  BY ConfigsAssumption DEF TypeOK
<1>5. ASSUME NEW late \in Nat, Claim(Sizes, p, cfg.max, late)
      PROVE  /\ Load(Sizes, Passed(p) \cup {p.next}, Zero, Zero) <= sum + late
             /\ p.next = Shards => Load(Sizes, Contexts, Zero, Zero) <= sum + late
  BY <1>1, <1>2, <1>3, <1>4, <1>5, ClaimCounts
<1>6. CASE p.next # Shards
  <2>1. pass'[t] = step
    BY <1>2, <1>6, GoesTo
  <2>2. /\ step.at = "counting" /\ step.sum = sum /\ step.next = p.next + 1
        /\ step.found = p.found /\ step.doomed = p.doomed
    BY <1>1, <1>2 DEF Passes
  <2>3. Passed(step) = Passed(p) \cup {p.next}
    BY <1>1, <2>2 DEF Passed, Contexts
  <2> HIDE DEF step, sum
  <2>4. step # Idle
    BY <2>2 DEF Idle, Doing
  <2>5. Gathered(step)
    <3>1. \A q \in p.found : q[1] < p.next + 1
      <4>1. \A q \in p.found : q[1] \in Nat /\ q[1] < p.next
        BY DEF Gathered, Candidates, Contexts
      <4>2. QED
        BY <1>1, <4>1 DEF Contexts
    <3>2. QED
      BY <2>2, <3>1 DEF Gathered
  <2>6. \A late \in Nat : Claim(Sizes, p, cfg.max, late) => Claim(Sizes, step, cfg.max, late)
    BY <1>5, <2>2, <2>3 DEF Claim
  <2>7. QED
    BY <1>3, <2>1, <2>2, <2>4, <2>5, <2>6 DEF Comes, Inserts
<1>7. CASE p.next = Shards /\ sum > cfg.max
  <2>1. pass'[t] = Doing("expiring")
    BY <1>2, <1>7, GoesTo
  <2>2. pass'[t].at = "expiring" /\ pass'[t] # Idle /\ Gathered(pass'[t])
    BY <2>1, GatheredNone DEF Doing, Idle
  <2>3. QED
    BY <2>2 DEF Comes, Claim, Inserts
<1>8. CASE p.next = Shards /\ ~(sum > cfg.max)
  <2>1. pass'[t] = Idle
    BY <1>2, <1>8, GoesTo
  <2>2. Gathered(pass'[t])
    BY <2>1, GatheredNone DEF Doing, Idle
  <2>3. ASSUME NEW late \in Nat, Claim(Sizes, p, cfg.max, late)
        PROVE  Load(Sizes, Contexts, Zero, Zero) <= cfg.max + late
    <3>1. Load(Sizes, Contexts, Zero, Zero) <= sum + late
      BY <1>5, <1>8, <2>3
    <3>2. Load(Sizes, Contexts, Zero, Zero) \in Int
      BY <1>3, WeightType, ZeroType
    <3> HIDE DEF sum
    <3>3. QED
      BY <1>1, <1>4, <1>8, <3>1, <3>2
  <2>4. QED
    BY <1>3, <2>1, <2>2, <2>3 DEF Comes
<1>9. QED
  BY <1>6, <1>7, <1>8

LEMMA RecountComes ==
    ASSUME TypeOK, FiniteInv, NEW t \in Threads, Gathered(pass[t]), Recount(t)
    PROVE  Comes(t)
<1> DEFINE p == pass[t]
           sum == p.sum + Sizes[p.next]
           going == [p EXCEPT !.sum = sum]
           begin == [Doing("collecting") EXCEPT !.sum = sum - cfg.max]
           end == IF sum > cfg.max THEN begin ELSE Idle
           step == [going EXCEPT !.next = p.next + 1]
<1>1. p \in Passes /\ p.next \in Contexts /\ sum \in Nat /\ p.sum \in Nat
  <2>1. Sizes[p.next] = Cardinality(index[p.next])
    BY PassSum, SizesType
  <2>2. QED
    BY <2>1, PassSum DEF Passes
<1>2. p.at = "recounting" /\ Goes(t, going, end) /\ UNCHANGED <<index, cfg>>
  <2>1. Sizes[p.next] = Cardinality(index[p.next])
    BY <1>1, SizesType
  <2>2. QED
    BY <2>1 DEF Recount
<1>3. Sizes' = Sizes /\ Sizes \in Amounts
  BY <1>2, SizesType DEF Sizes
<1>4. cfg.max \in Nat
  BY ConfigsAssumption DEF TypeOK
<1>5. ASSUME NEW late \in Nat, Claim(Sizes, p, cfg.max, late)
      PROVE  /\ Load(Sizes, Passed(p) \cup {p.next}, Zero, Zero) <= sum + late
             /\ p.next = Shards => Load(Sizes, Contexts, Zero, Zero) <= sum + late
  BY <1>1, <1>2, <1>3, <1>4, <1>5, ClaimCounts
<1>6. CASE p.next # Shards
  <2>1. pass'[t] = step
    BY <1>2, <1>6, GoesTo
  <2>2. /\ step.at = "recounting" /\ step.sum = sum /\ step.next = p.next + 1
        /\ step.found = p.found /\ step.doomed = p.doomed
    BY <1>1, <1>2 DEF Passes
  <2>3. Passed(step) = Passed(p) \cup {p.next}
    BY <1>1, <2>2 DEF Passed, Contexts
  <2> HIDE DEF step, sum
  <2>4. step # Idle
    BY <2>2 DEF Idle, Doing
  <2>5. Gathered(step)
    <3>1. \A q \in p.found : q[1] < p.next + 1
      <4>1. \A q \in p.found : q[1] \in Nat /\ q[1] < p.next
        BY DEF Gathered, Candidates, Contexts
      <4>2. QED
        BY <1>1, <4>1 DEF Contexts
    <3>2. QED
      BY <2>2, <3>1 DEF Gathered
  <2>6. \A late \in Nat : Claim(Sizes, p, cfg.max, late) => Claim(Sizes, step, cfg.max, late)
    BY <1>5, <2>2, <2>3 DEF Claim
  <2>7. QED
    BY <1>3, <2>1, <2>2, <2>4, <2>5, <2>6 DEF Comes, Inserts
<1>7. CASE p.next = Shards /\ sum > cfg.max
  <2>1. pass'[t] = begin
    BY <1>2, <1>7, GoesTo
  <2>2. pass'[t].at = "collecting" /\ pass'[t] # Idle /\ Gathered(pass'[t])
    BY <2>1, GatheredNone DEF Doing, Idle
  <2>3. ASSUME NEW late \in Nat, Claim(Sizes, p, cfg.max, late)
        PROVE  Claim(Sizes, begin, cfg.max, late)
    <3>1. Load(Sizes, Contexts, Zero, Zero) <= sum + late
      BY <1>5, <1>7, <2>3
    <3> HIDE DEF sum
    <3>2. sum - cfg.max \in Nat /\ cfg.max + (sum - cfg.max) + late = sum + late
      BY <1>1, <1>4, <1>7
    <3>3. QED
      BY <1>3, <1>4, <3>1, <3>2, ClaimBegins
  <2>4. QED
    BY <1>3, <2>1, <2>2, <2>3 DEF Comes, Inserts
<1>8. CASE p.next = Shards /\ ~(sum > cfg.max)
  <2>1. pass'[t] = Idle
    BY <1>2, <1>8, GoesTo
  <2>2. Gathered(pass'[t])
    BY <2>1, GatheredNone DEF Doing, Idle
  <2>3. ASSUME NEW late \in Nat, Claim(Sizes, p, cfg.max, late)
        PROVE  Load(Sizes, Contexts, Zero, Zero) <= cfg.max + late
    <3>1. Load(Sizes, Contexts, Zero, Zero) <= sum + late
      BY <1>5, <1>8, <2>3
    <3>2. Load(Sizes, Contexts, Zero, Zero) \in Int
      BY <1>3, WeightType, ZeroType
    <3> HIDE DEF sum
    <3>3. QED
      BY <1>1, <1>4, <1>8, <3>1, <3>2
  <2>4. QED
    BY <1>3, <2>1, <2>2, <2>3 DEF Comes
<1>9. QED
  BY <1>6, <1>7, <1>8

LEMMA ExpireComes ==
    ASSUME TypeOK, Sizes' \in Amounts, NEW t \in Threads, Gathered(pass[t]), Expire(t)
    PROVE  Comes(t)
<1> DEFINE p == pass[t]
           step == [p EXCEPT !.next = p.next + 1]
<1>1. p \in Passes /\ p.next \in Contexts /\ p.at = "expiring"
      /\ Goes(t, p, Doing("recounting"))
  BY DEF TypeOK, Passes, Expire
<1>2. CASE p.next # Shards
  <2>1. pass'[t] = step
    BY <1>1, <1>2, GoesTo
  <2>2. /\ step.at = "expiring" /\ step.next = p.next + 1
        /\ step.found = p.found /\ step.doomed = p.doomed
    BY <1>1 DEF Passes
  <2> HIDE DEF step
  <2>3. Gathered(step)
    <3>1. \A q \in p.found : q[1] \in Nat /\ q[1] < p.next
      BY DEF Gathered, Candidates, Contexts
    <3>2. \A q \in p.found : q[1] < p.next + 1
      BY <1>1, <3>1 DEF Contexts
    <3>3. QED
      BY <2>2, <3>2 DEF Gathered
  <2>4. step # Idle
    BY <2>2 DEF Idle, Doing
  <2>5. QED
    BY <2>1, <2>2, <2>3, <2>4 DEF Comes, Claim, Inserts
<1>3. CASE p.next = Shards
  <2>1. pass'[t] = Doing("recounting")
    BY <1>1, <1>3, GoesTo
  <2>2. /\ pass'[t].at = "recounting" /\ pass'[t] # Idle /\ Gathered(pass'[t])
        /\ pass'[t].sum = 0 /\ Passed(pass'[t]) = {}
    BY <2>1, GatheredNone DEF Doing, Idle, Passed, Contexts
  <2>3. Load(Sizes', {}, Zero, Zero) = 0
    BY LoadOfNone, ZeroType
  <2>4. QED
    BY <2>2, <2>3 DEF Comes, Claim, Inserts
<1>4. QED
  BY <1>2, <1>3

LEMMA CollectComes ==
    ASSUME TypeOK, BucketsInv, FiniteInv, NEW t \in Threads, Gathered(pass[t]), Collect(t)
    PROVE  Comes(t)
<1> DEFINE p == pass[t]
           c == p.next
           found == p.found \cup {<<c, x, Position(index[c], x)>> : x \in index[c]}
           doomed == Marks(found, p.sum)
           going == [p EXCEPT !.found = found]
           remove == [Doing("removing") EXCEPT !.doomed = doomed]
           end == IF doomed = {} THEN Idle ELSE remove
           step == [going EXCEPT !.next = c + 1]
<1>1. /\ p \in Passes /\ c \in Contexts /\ p.sum \in Nat /\ p.at = "collecting"
      /\ Goes(t, going, end) /\ UNCHANGED <<index, cfg>>
  BY DEF TypeOK, Passes, Collect, Marks
<1>2. Sizes' = Sizes /\ Sizes \in Amounts
  BY <1>1, SizesType DEF Sizes
<1>3. cfg.max \in Nat
  BY ConfigsAssumption DEF TypeOK
<1>4. /\ Candidates(found)
      /\ \A q \in found : q[1] < c + 1
      /\ \A late \in Nat : Claim(Sizes, p, cfg.max, late) =>
            /\ Load(Sizes, Contexts, Per(found), Zero) <= cfg.max + p.sum + late
            /\ Load(Sizes, Passed(p) \cup {c}, Per(found), Per(found)) <= late
  BY <1>1, ClaimCollects
<1>5. IsFiniteSet(doomed)
  BY <1>1, <1>4, MarksCount
<1> HIDE DEF found, doomed
<1>6. CASE c # Shards
  <2>1. pass'[t] = step
    BY <1>1, <1>6, GoesTo
  <2>2. /\ step.at = "collecting" /\ step.sum = p.sum /\ step.next = c + 1
        /\ step.found = found /\ step.doomed = p.doomed
    BY <1>1 DEF Passes
  <2>3. Passed(step) = Passed(p) \cup {c}
    BY <1>1, <2>2 DEF Passed, Contexts
  <2> HIDE DEF step
  <2>4. step # Idle
    BY <2>2 DEF Idle, Doing
  <2>5. Gathered(step)
    BY <1>4, <2>2 DEF Gathered
  <2>6. \A late \in Nat : Claim(Sizes, p, cfg.max, late) => Claim(Sizes, step, cfg.max, late)
    BY <1>4, <2>2, <2>3 DEF Claim
  <2>7. QED
    BY <1>1, <1>2, <2>1, <2>2, <2>4, <2>5, <2>6 DEF Comes, Inserts
<1>7. CASE c = Shards
  <2>1. pass'[t] = end
    BY <1>1, <1>7, GoesTo
  <2>2. Passed(p) \cup {c} = Contexts
    BY <1>1, <1>7, PassedOn
  <2>3. ASSUME NEW late \in Nat, Claim(Sizes, p, cfg.max, late)
        PROVE  Removing(Sizes, doomed, cfg.max, late)
    <3>1. /\ Load(Sizes, Contexts, Per(found), Zero) <= cfg.max + p.sum + late
          /\ Load(Sizes, Contexts, Per(found), Per(found)) <= late
      BY <1>4, <2>2, <2>3
    <3>2. QED
      BY <1>1, <1>2, <1>3, <1>4, <3>1, CollectedAll DEF doomed
  <2>4. CASE doomed = {}
    <3>1. pass'[t] = Idle /\ Gathered(pass'[t])
      BY <2>1, <2>4, GatheredNone DEF Idle, Doing
    <3>2. \A late \in Nat : Claim(Sizes, p, cfg.max, late) =>
             Load(Sizes, Contexts, Zero, Zero) <= cfg.max + late
      BY <2>3, <2>4, RemovedAll
    <3>3. QED
      BY <1>2, <3>1, <3>2 DEF Comes
  <2>5. CASE doomed # {}
    <3>1. /\ pass'[t].at = "removing" /\ pass'[t].found = {} /\ pass'[t].doomed = doomed
          /\ pass'[t] # Idle
      BY <2>1, <2>5 DEF Idle, Doing
    <3>2. Gathered(pass'[t])
      <4>1. Candidates({})
        BY FS_EmptySet DEF Candidates
      <4>2. QED
        BY <1>5, <3>1, <4>1 DEF Gathered
    <3>3. \A late \in Nat : Claim(Sizes, p, cfg.max, late) =>
             Claim(Sizes, pass'[t], cfg.max, late)
      BY <2>3, <3>1 DEF Claim
    <3>4. QED
      BY <1>2, <3>1, <3>2, <3>3 DEF Comes, Inserts
  <2>6. QED
    BY <2>4, <2>5
<1>8. QED
  BY <1>6, <1>7

LEMMA RemoveComes ==
    ASSUME TypeOK, BucketsInv, FiniteInv, Sizes' \in Amounts, NEW t \in Threads,
           Gathered(pass[t]), Remove(t)
    PROVE  Comes(t)
<1> DEFINE p == pass[t]
<1>1. p \in Passes /\ p.at = "removing" /\ cfg' = cfg /\ cfg.max \in Nat
  BY ConfigsAssumption DEF TypeOK, Remove
<1>2. PICK c \in {d[1] : d \in p.doomed} :
         LET mine == {d \in p.doomed : d[1] = c}
             rest == p.doomed \ mine
         IN  /\ index' = [index EXCEPT ![c] = Without(index[c], {d[2] : d \in mine})]
             /\ pass' = [pass EXCEPT ![t] =
                            IF rest = {} THEN Idle ELSE [p EXCEPT !.doomed = rest]]
  BY Zenon DEF Remove
<1> DEFINE mine == {d \in p.doomed : d[1] = c}
           rest == p.doomed \ mine
           going == [p EXCEPT !.doomed = rest]
<1>3. c \in Contexts
  BY <1>1 DEF Passes
<1>4. pass'[t] = IF rest = {} THEN Idle ELSE going
  BY <1>2 DEF TypeOK
<1>5. /\ Sizes'[c] = Cardinality(Without(index[c], {d[2] : d \in mine}))
      /\ \A e \in Contexts : e # c => Sizes'[e] = Sizes[e]
  <2>1. /\ index'[c] = Without(index[c], {d[2] : d \in mine})
        /\ \A e \in Contexts : e # c => index'[e] = index[e]
    BY <1>2, <1>3 DEF TypeOK
  <2> HIDE DEF mine
  <2>2. QED
    BY <1>3, <2>1 DEF Sizes
<1>6. IsFiniteSet(p.doomed) /\ IsFiniteSet(rest) /\ p.doomed \subseteq Contexts \X Nat
  BY <1>1, FS_Difference DEF Gathered, Passes
<1>7. ASSUME NEW late \in Nat, Claim(Sizes, p, cfg.max, late)
      PROVE  Removing(Sizes', rest, cfg.max, late)
  <2>1. Removing(Sizes, p.doomed, cfg.max, late)
    BY <1>1, <1>7 DEF Claim
  <2> DEFINE m == Sizes'
  <2>2. /\ m \in Amounts
        /\ m[c] = Cardinality(Without(index[c], {d[2] : d \in {e \in p.doomed : e[1] = c}}))
        /\ \A e \in Contexts : e # c => m[e] = Sizes[e]
    BY <1>5
  <2> HIDE DEF m
  <2>3. Removing(m, p.doomed \ {d \in p.doomed : d[1] = c}, cfg.max, late)
    BY <1>1, <1>3, <1>6, <2>1, <2>2, ClaimRemoves
  <2>4. QED
    BY <2>3 DEF m
<1> HIDE DEF rest
<1>8. CASE rest = {}
  <2>1. pass'[t] = Idle /\ Gathered(pass'[t])
    BY <1>4, <1>8, GatheredNone DEF Idle, Doing
  <2>2. ASSUME NEW late \in Nat, Claim(Sizes, p, cfg.max, late)
        PROVE  Load(Sizes', Contexts, Zero, Zero) <= cfg.max + late
    BY <1>7, <1>8, <2>2, RemovedAll
  <2>3. QED
    BY <2>1, <2>2 DEF Comes
<1>9. CASE rest # {}
  <2>1. pass'[t] = going
    BY <1>4, <1>9
  <2>2. /\ going.at = "removing" /\ going.found = p.found /\ going.doomed = rest
        /\ going.next = p.next
    BY <1>1 DEF Passes
  <2> HIDE DEF going
  <2>3. going # Idle
    BY <2>2 DEF Idle, Doing
  <2>4. Gathered(going)
    BY <1>6, <2>2 DEF Gathered
  <2>5. \A late \in Nat : Claim(Sizes, p, cfg.max, late) =>
           Claim(Sizes', going, cfg.max, late)
    BY <1>7, <2>2 DEF Claim
  <2>6. QED
    BY <1>1, <2>1, <2>2, <2>3, <2>4, <2>5 DEF Comes, Inserts
<1>10. QED
  BY <1>8, <1>9

-------------------------------------------------------------------------------
(* The cap of the whole.                                                   *)

\* The inserts of I that have pushed after x.
Late(P, I, x) == {u \in I : P[u] > x}

\* P numbers the threads by their last pushes, and the insert that pushed as number L
\* has finished: what it left is under the cap but for what came after it, and what
\* each insert with a later push knows is true.
Capped(P, L) ==
    /\ P \in [Threads -> Nat] /\ L \in Nat /\ L <= pushes
    /\ \A u \in Threads : P[u] <= pushes
    /\ \A u \in Inserting : P[u] >= 1
    /\ trimmed =>
          Load(Sizes, Contexts, Zero, Zero) <= cfg.max + Cardinality(Late(P, Inserting, L))
    /\ trimmed \/ L = 0
    /\ \A u \in Inserting : P[u] > L =>
          Claim(Sizes, pass[u], cfg.max, Cardinality(Late(P, Inserting, P[u])))

GatheredInv == \A u \in Threads : Gathered(pass[u])

CapInv ==
    /\ IsFiniteSet(Inserting)
    /\ GatheredInv
    /\ \E P, L : Capped(P, L)

LEMMA LateType ==
    ASSUME NEW P, NEW I, IsFiniteSet(I), NEW x
    PROVE  /\ IsFiniteSet(Late(P, I, x)) /\ Cardinality(Late(P, I, x)) \in Nat
           /\ Cardinality(Late(P, I, x)) <= Cardinality(I) /\ Cardinality(I) \in Nat
<1>1. IsFiniteSet(Late(P, I, x)) /\ Cardinality(Late(P, I, x)) <= Cardinality(I)
  BY FS_Subset DEF Late
<1>2. QED
  BY <1>1, FS_CardinalityType

\* Where nothing is pushed, and no insert begins or ends, the claims stay true, if the
\* one that takes a step makes no other.
LEMMA CapQuiet ==
    ASSUME TypeOK, FiniteInv, FiniteInv', IsFiniteSet(Inserting), GatheredInv,
           NEW P, NEW L, Capped(P, L),
           Inserting' = Inserting, UNCHANGED <<cfg, pushes>>, trimmed' <=> trimmed,
           \A c \in Contexts : Sizes'[c] <= Sizes[c],
           NEW t, \A u \in Threads : u # t => pass'[u] = pass[u],
           t \in Inserting => \A late \in Nat : Claim(Sizes, pass[t], cfg.max, late) =>
                                                   Claim(Sizes', pass'[t], cfg.max, late)
    PROVE  Capped(P, L)'
<1>1. Sizes \in Amounts /\ cfg.max \in Nat
  BY SizesType, ConfigsAssumption DEF TypeOK
<1> DEFINE m == Sizes'
<1>2. m \in Amounts
  <2>1. \A c \in Contexts : Cardinality(index'[c]) \in Nat
    BY FS_CardinalityType DEF FiniteInv
  <2>2. QED
    BY <2>1 DEF Sizes, Amounts
<1>3. \A c \in Contexts : m[c] <= Sizes[c]
  OBVIOUS
<1> HIDE DEF m
<1>4. ASSUME trimmed
      PROVE  Load(m, Contexts, Zero, Zero) <= cfg.max + Cardinality(Late(P, Inserting, L))
  <2>1. Load(Sizes, Contexts, Zero, Zero) <= cfg.max + Cardinality(Late(P, Inserting, L))
    BY <1>4 DEF Capped
  <2>2. Load(m, Contexts, Zero, Zero) <= Load(Sizes, Contexts, Zero, Zero)
    BY <1>1, <1>2, <1>3, ZeroType, LoadShrinks
  <2>3. Load(m, Contexts, Zero, Zero) \in Int /\ Load(Sizes, Contexts, Zero, Zero) \in Int
    BY <1>1, <1>2, ZeroType, WeightType
  <2>4. Cardinality(Late(P, Inserting, L)) \in Nat
    BY LateType
  <2>5. QED
    BY <1>1, <2>1, <2>2, <2>3, <2>4
<1>5. ASSUME NEW u \in Inserting, P[u] > L
      PROVE  Claim(m, pass'[u], cfg.max, Cardinality(Late(P, Inserting, P[u])))
  <2>1. Cardinality(Late(P, Inserting, P[u])) \in Nat
    BY LateType
  <2>2. Claim(Sizes, pass[u], cfg.max, Cardinality(Late(P, Inserting, P[u])))
    BY <1>5 DEF Capped
  <2>3. CASE u = t
    BY <2>1, <2>2, <2>3 DEF m
  <2>4. CASE u # t
    <3>1. u \in Threads /\ pass'[u] = pass[u] /\ Gathered(pass[u]) /\ pass[u].sum \in Nat
      BY <2>4 DEF Inserting, GatheredInv, TypeOK, Passes
    <3>2. Claim(m, pass[u], cfg.max, Cardinality(Late(P, Inserting, P[u])))
      BY <1>1, <1>2, <1>3, <2>1, <2>2, <3>1, ClaimShrinks
    <3>3. QED
      BY <3>1, <3>2
  <2>5. QED
    BY <2>3, <2>4
<1>6. QED
  BY <1>4, <1>5 DEF Capped, m

\* When an insert finishes it leaves what it may, unless one that has pushed after it
\* has finished before.
LEMMA CapFinish ==
    ASSUME TypeOK, FiniteInv, FiniteInv', IsFiniteSet(Inserting), GatheredInv,
           NEW P, NEW L, Capped(P, L), NEW t \in Inserting,
           Inserting' = Inserting \ {t}, trimmed', UNCHANGED <<cfg, pushes>>,
           \A c \in Contexts : Sizes'[c] <= Sizes[c],
           \A u \in Threads : u # t => pass'[u] = pass[u],
           \A late \in Nat : Claim(Sizes, pass[t], cfg.max, late) =>
                                Load(Sizes', Contexts, Zero, Zero) <= cfg.max + late
    PROVE  \E M : Capped(P, M)'
<1>1. Sizes \in Amounts /\ cfg.max \in Nat
  BY SizesType, ConfigsAssumption DEF TypeOK
<1> DEFINE m == Sizes'
           I == Inserting \ {t}
<1>2. m \in Amounts
  <2>1. \A c \in Contexts : Cardinality(index'[c]) \in Nat
    BY FS_CardinalityType DEF FiniteInv
  <2>2. QED
    BY <2>1 DEF Sizes, Amounts
<1>3. \A c \in Contexts : m[c] <= Sizes[c]
  OBVIOUS
<1>4. P \in [Threads -> Nat] /\ L \in Nat /\ t \in Threads /\ P[t] \in Nat /\ P[t] <= pushes
      /\ P[t] >= 1
  BY DEF Capped, Inserting
<1> HIDE DEF m
<1>5. ASSUME NEW x \in Nat, P[t] <= x
      PROVE  Late(P, I, x) = Late(P, Inserting, x)
  BY <1>4, <1>5 DEF Late
<1>6. ASSUME NEW u \in I, P[u] > L, P[u] >= P[t]
      PROVE  Claim(m, pass'[u], cfg.max, Cardinality(Late(P, I, P[u])))
  <2>1. u \in Threads /\ P[u] \in Nat /\ pass'[u] = pass[u] /\ Gathered(pass[u])
        /\ pass[u].sum \in Nat
    BY <1>4 DEF Inserting, GatheredInv, TypeOK, Passes
  <2>2. Cardinality(Late(P, Inserting, P[u])) \in Nat
    BY LateType
  <2>3. Claim(Sizes, pass[u], cfg.max, Cardinality(Late(P, Inserting, P[u])))
    BY <1>6 DEF Capped
  <2>4. Claim(m, pass[u], cfg.max, Cardinality(Late(P, Inserting, P[u])))
    BY <1>1, <1>2, <1>3, <2>1, <2>2, <2>3, ClaimShrinks
  <2>5. Late(P, I, P[u]) = Late(P, Inserting, P[u])
    BY <1>4, <1>5, <1>6, <2>1
  <2>6. QED
    BY <2>1, <2>4, <2>5
<1>7. CASE P[t] > L
  <2>1. Cardinality(Late(P, Inserting, P[t])) \in Nat
    BY LateType
  <2>2. Claim(Sizes, pass[t], cfg.max, Cardinality(Late(P, Inserting, P[t])))
    BY <1>7 DEF Capped
  <2>3. Load(m, Contexts, Zero, Zero) <= cfg.max + Cardinality(Late(P, Inserting, P[t]))
    BY <2>1, <2>2 DEF m
  <2>4. Load(m, Contexts, Zero, Zero) <= cfg.max + Cardinality(Late(P, I, P[t]))
    <3>1. Late(P, I, P[t]) = Late(P, Inserting, P[t])
      BY <1>4, <1>5
    <3>2. QED
      BY <2>3, <3>1
  <2>5. \A u \in I : P[u] > P[t] =>
           Claim(m, pass'[u], cfg.max, Cardinality(Late(P, I, P[u])))
    <3> SUFFICES ASSUME NEW u \in I, P[u] > P[t]
                 PROVE  Claim(m, pass'[u], cfg.max, Cardinality(Late(P, I, P[u])))
      OBVIOUS
    <3>1. P[u] \in Nat
      BY <1>4 DEF Inserting
    <3>2. P[u] > L /\ P[u] >= P[t]
      BY <1>4, <1>7, <3>1
    <3>3. QED
      BY <1>6, <3>2
  <2>6. Capped(P, P[t])'
    BY <1>4, <2>4, <2>5 DEF Capped, m
  <2>7. QED
    BY <2>6
<1>8. CASE ~(P[t] > L)
  <2>1. P[t] <= L /\ L # 0
    BY <1>4, <1>8
  <2>2. trimmed
    BY <2>1 DEF Capped
  <2>3. Load(Sizes, Contexts, Zero, Zero) <= cfg.max + Cardinality(Late(P, Inserting, L))
    BY <2>2 DEF Capped
  <2>4. Load(m, Contexts, Zero, Zero) <= Load(Sizes, Contexts, Zero, Zero)
    BY <1>1, <1>2, <1>3, ZeroType, LoadShrinks
  <2>5. /\ Load(m, Contexts, Zero, Zero) \in Int /\ Load(Sizes, Contexts, Zero, Zero) \in Int
        /\ Cardinality(Late(P, Inserting, L)) \in Nat
    <3>1. Load(m, Contexts, Zero, Zero) \in Int /\ Load(Sizes, Contexts, Zero, Zero) \in Int
      BY <1>1, <1>2, ZeroType, WeightType
    <3>2. Cardinality(Late(P, Inserting, L)) \in Nat
      BY LateType
    <3>3. QED
      BY <3>1, <3>2
  <2>6. Late(P, I, L) = Late(P, Inserting, L)
    BY <1>4, <1>5, <2>1
  <2>7. Load(m, Contexts, Zero, Zero) <= cfg.max + Cardinality(Late(P, I, L))
    BY <1>1, <2>3, <2>4, <2>5, <2>6
  <2>8. \A u \in I : P[u] > L =>
           Claim(m, pass'[u], cfg.max, Cardinality(Late(P, I, P[u])))
    <3> SUFFICES ASSUME NEW u \in I, P[u] > L
                 PROVE  Claim(m, pass'[u], cfg.max, Cardinality(Late(P, I, P[u])))
      OBVIOUS
    <3>1. P[u] \in Nat
      BY <1>4 DEF Inserting
    <3>2. P[u] >= P[t]
      BY <1>4, <2>1, <3>1
    <3>3. QED
      BY <1>6, <3>2
  <2>9. Capped(P, L)'
    BY <2>7, <2>8 DEF Capped, m
  <2>10. QED
    BY <2>9
<1>9. QED
  BY <1>7, <1>8

\* An insert begins with its push.
LEMMA CapBegin ==
    ASSUME TypeOK, FiniteInv, FiniteInv', IsFiniteSet(Inserting), GatheredInv,
           NEW P, NEW L, Capped(P, L), NEW t \in Threads, NEW e \in Contexts, Push(t, e)
    PROVE  CapInv'
<1> DEFINE m == Sizes'
           I == Inserting \cup {t}
<1>1. /\ P \in [Threads -> Nat] /\ L \in Nat /\ L <= pushes /\ pushes \in Nat
      /\ \A u \in Threads : P[u] <= pushes
      /\ \A u \in Inserting : P[u] >= 1 /\ u \in Threads
  BY DEF Capped, Inserting, TypeOK
<1>2. /\ pass[t] = Idle /\ pass' = [pass EXCEPT ![t] = Doing("counting")]
      /\ pushes' = pushes + 1 /\ UNCHANGED <<cfg, trimmed>>
      /\ index' = [index EXCEPT ![e] = EvictBucket(index[e] \cup {NewItem})]
  BY DEF Push, Change, NewItem
<1>3. t \notin Inserting /\ Inserting' = I
  <2>1. pass[t].at = "idle" /\ pass'[t].at = "counting"
    BY <1>2 DEF Idle, Doing, TypeOK
  <2>2. \A u \in Threads : u # t => pass'[u] = pass[u]
    BY <1>2 DEF TypeOK
  <2>3. QED
    BY <2>1, <2>2 DEF Inserting
<1>4. IsFiniteSet(I)
  BY FS_AddElement
<1>5. GatheredInv'
  <2>1. Gathered(Doing("counting"))
    BY GatheredNone DEF Doing
  <2>2. QED
    BY <1>2, <2>1 DEF GatheredInv, TypeOK
<1>6. Sizes \in Amounts /\ cfg.max \in Nat
  BY SizesType, ConfigsAssumption DEF TypeOK
<1>7. m \in Amounts
  <2>1. \A c \in Contexts : Cardinality(index'[c]) \in Nat
    BY FS_CardinalityType DEF FiniteInv
  <2>2. QED
    BY <2>1 DEF Sizes, Amounts
<1>8. m[e] <= Sizes[e] + 1 /\ \A c \in Contexts : c # e => m[c] <= Sizes[c]
  <2>1. \A c \in Contexts : c # e => m[c] = Sizes[c] /\ Sizes[c] \in Nat
    <3>1. \A c \in Contexts : c # e => index'[c] = index[c]
      BY <1>2 DEF TypeOK
    <3>2. QED
      BY <1>6, <3>1 DEF Sizes, Amounts
  <2> DEFINE b == index[e] \cup {NewItem}
  <2>2. index'[e] \subseteq b
    BY <1>2 DEF TypeOK, EvictBucket, Live
  <2>3. /\ IsFiniteSet(b) /\ Cardinality(index[e]) \in Nat
        /\ Cardinality(b) \in {Cardinality(index[e]), Cardinality(index[e]) + 1}
    BY FS_AddElement, FS_CardinalityType DEF FiniteInv
  <2> HIDE DEF b
  <2>4. Cardinality(index'[e]) <= Cardinality(b)
    BY <2>2, <2>3, FS_Subset
  <2>5. m[e] = Cardinality(index'[e]) /\ Sizes[e] = Cardinality(index[e]) /\ m[e] \in Nat
    BY <1>7 DEF Sizes, Amounts
  <2>6. m[e] <= Sizes[e] + 1
    BY <2>3, <2>4, <2>5
  <2> HIDE DEF m
  <2>7. QED
    BY <2>1, <2>6
<1> HIDE DEF m
<1>9. PICK Q \in [Threads -> Nat] :
         Q[t] = pushes + 1 /\ \A u \in Threads : u # t => Q[u] = P[u]
  <2>1. [P EXCEPT ![t] = pushes + 1] \in [Threads -> Nat]
    BY <1>1
  <2>2. QED
    BY <1>1, <2>1
<1>10. ASSUME NEW x \in Nat, x <= pushes
       PROVE  /\ Cardinality(Late(Q, I, x)) = Cardinality(Late(P, Inserting, x)) + 1
              /\ Cardinality(Late(P, Inserting, x)) \in Nat
  <2>1. /\ Late(Q, I, x) = Late(P, Inserting, x) \cup {t}
        /\ t \notin Late(P, Inserting, x)
    <3>1. pushes + 1 > x
      BY <1>1, <1>10
    <3>2. QED
      BY <1>1, <1>3, <1>9, <3>1 DEF Late
  <2>2. IsFiniteSet(Late(P, Inserting, x)) /\ Cardinality(Late(P, Inserting, x)) \in Nat
    BY LateType
  <2>3. QED
    BY <2>1, <2>2, FS_AddElement
<1>11. ASSUME trimmed
       PROVE  Load(m, Contexts, Zero, Zero) <= cfg.max + Cardinality(Late(Q, I, L))
  <2>1. Load(Sizes, Contexts, Zero, Zero) <= cfg.max + Cardinality(Late(P, Inserting, L))
    BY <1>11 DEF Capped
  <2>2. Load(m, Contexts, Zero, Zero) <= Load(Sizes, Contexts, Zero, Zero) + 1
    BY <1>6, <1>7, <1>8, ZeroType, LoadGrows
  <2>3. Load(m, Contexts, Zero, Zero) \in Int /\ Load(Sizes, Contexts, Zero, Zero) \in Int
    BY <1>6, <1>7, ZeroType, WeightType
  <2>4. /\ Cardinality(Late(Q, I, L)) = Cardinality(Late(P, Inserting, L)) + 1
        /\ Cardinality(Late(P, Inserting, L)) \in Nat
    BY <1>1, <1>10
  <2>5. QED
    BY <1>6, <2>1, <2>2, <2>3, <2>4
<1>12. ASSUME NEW u \in Inserting, P[u] > L
       PROVE  Claim(m, pass[u], cfg.max, Cardinality(Late(Q, I, P[u])))
  <2>1. P[u] \in Nat /\ P[u] <= pushes
    BY <1>1
  <2>2. /\ Cardinality(Late(Q, I, P[u])) = Cardinality(Late(P, Inserting, P[u])) + 1
        /\ Cardinality(Late(P, Inserting, P[u])) \in Nat
    BY <1>10, <2>1
  <2>3. Claim(Sizes, pass[u], cfg.max, Cardinality(Late(P, Inserting, P[u])))
    BY <1>12 DEF Capped
  <2>4. Gathered(pass[u]) /\ pass[u].sum \in Nat
    BY <1>1 DEF GatheredInv, TypeOK, Passes
  <2>5. Claim(m, pass[u], cfg.max, Cardinality(Late(P, Inserting, P[u])) + 1)
    BY <1>6, <1>7, <1>8, <2>2, <2>3, <2>4, ClaimGrows
  <2>6. QED
    BY <2>2, <2>5
<1>13. \A late \in Nat : Claim(m, Doing("counting"), cfg.max, late)
  <2>1. Load(m, {}, Zero, Zero) = 0
    BY <1>7, LoadOfNone, ZeroType
  <2>2. Passed(Doing("counting")) = {} /\ Doing("counting").sum = 0
        /\ Doing("counting").at = "counting"
    BY DEF Doing, Passed, Contexts
  <2>3. QED
    BY <2>1, <2>2 DEF Claim
<1>14. ASSUME NEW u \in I, Q[u] > L
       PROVE  Claim(m, pass'[u], cfg.max, Cardinality(Late(Q, I, Q[u])))
  <2>1. CASE u = t
    <3>1. pass'[u] = Doing("counting")
      BY <1>2, <2>1 DEF TypeOK
    <3>2. Cardinality(Late(Q, I, Q[u])) \in Nat
      BY <1>4, LateType
    <3>3. QED
      BY <1>13, <3>1, <3>2
  <2>2. CASE u # t
    <3>1. u \in Inserting /\ Q[u] = P[u] /\ pass'[u] = pass[u]
      BY <1>1, <1>2, <1>9, <2>2 DEF TypeOK
    <3>2. QED
      BY <1>12, <1>14, <3>1
  <2>3. QED
    BY <2>1, <2>2
<1>15. \A u \in Threads : Q[u] <= pushes + 1
  BY <1>1, <1>9
<1>16. \A u \in I : Q[u] >= 1
  BY <1>1, <1>3, <1>9
<1>17. L <= pushes + 1
  BY <1>1
<1>18. trimmed \/ L = 0
  BY DEF Capped
<1> HIDE DEF I
<1>19. Capped(Q, L)'
  <2>1. trimmed' => Load(m, Contexts, Zero, Zero) <= cfg'.max + Cardinality(Late(Q, Inserting', L))
    BY <1>2, <1>3, <1>11
  <2>2. \A u \in Inserting' : Q[u] > L =>
           Claim(m, pass'[u], cfg'.max, Cardinality(Late(Q, Inserting', Q[u])))
    BY <1>2, <1>3, <1>14
  <2>3. /\ Q \in [Threads -> Nat] /\ L \in Nat /\ L <= pushes'
        /\ \A u \in Threads : Q[u] <= pushes'
        /\ \A u \in Inserting' : Q[u] >= 1
    BY <1>1, <1>2, <1>3, <1>9, <1>15, <1>16, <1>17
  <2>4. trimmed' \/ L = 0
    BY <1>2, <1>18
  <2>5. QED
    BY <2>1, <2>2, <2>3, <2>4 DEF Capped, m
<1>20. QED
  BY <1>3, <1>4, <1>5, <1>19 DEF CapInv

\* What every step of an insert leaves alone.
LEMMA InsertFrame ==
    ASSUME TypeOK, NEW t \in Threads, Insert(t)
    PROVE  /\ t \in Inserting /\ pass[t] # Idle
           /\ \A u \in Threads : u # t => pass'[u] = pass[u]
           /\ UNCHANGED <<cfg, pushes>>
           /\ trimmed' <=> (trimmed \/ pass'[t] = Idle)
           /\ \A c \in Contexts : index'[c] \subseteq index[c]
<1>1. pass[t].at \in Inserts
  BY Zenon DEF Insert, Inserts, Count, Expire, Recount, Collect, Remove
<1>2. t \in Inserting /\ pass[t] # Idle
  BY <1>1 DEF Inserting, Inserts, Idle, Doing
<1>3. CASE Count(t) \/ Recount(t) \/ Collect(t)
  <2>1. UNCHANGED <<cfg, pushes, index>>
    BY <1>3 DEF Count, Recount, Collect
  <2>2. trimmed' = (trimmed \/ Ends(t))
    BY <1>3, Zenon DEF Count, Recount, Collect
  <2>3. \E going, end : Goes(t, going, end)
    BY <1>3, Zenon DEF Count, Recount, Collect
  <2>4. \A u \in Threads : u # t => pass'[u] = pass[u]
    BY <2>3, GoesTo
  <2>5. trimmed' <=> (trimmed \/ pass'[t] = Idle)
    BY <2>2, Zenon DEF Ends
  <2>6. QED
    BY <1>2, <2>1, <2>4, <2>5
<1>4. CASE Expire(t)
  <2>1. UNCHANGED <<cfg, pushes, trimmed>> /\ Goes(t, pass[t], Doing("recounting"))
    BY <1>4 DEF Expire, history
  <2>2. \A c \in Contexts : index'[c] \subseteq index[c]
    BY <1>4 DEF Expire, Change, Live, TypeOK
  <2>3. /\ pass'[t] # Idle
        /\ \A u \in Threads : u # t => pass'[u] = pass[u]
    <3>1. /\ pass[t].next = Shards => pass'[t] = Doing("recounting")
          /\ pass[t].next # Shards => pass'[t] = [pass[t] EXCEPT !.next = pass[t].next + 1]
          /\ \A u \in Threads : u # t => pass'[u] = pass[u]
      BY <2>1, GoesTo
    <3>2. [pass[t] EXCEPT !.next = pass[t].next + 1].at = "expiring"
      BY <1>4 DEF Expire, TypeOK, Passes
    <3>3. Doing("recounting") # Idle /\ Idle.at = "idle"
      BY DEF Doing, Idle
    <3>4. QED
      BY <3>1, <3>2, <3>3
  <2>4. trimmed' <=> (trimmed \/ pass'[t] = Idle)
    BY <2>1, <2>3, Zenon
  <2>5. QED
    BY <1>2, <2>1, <2>2, <2>3, <2>4
<1>5. CASE Remove(t)
  <2>1. UNCHANGED <<cfg, pushes>> /\ trimmed' = (trimmed \/ Ends(t))
    BY <1>5, Zenon DEF Remove
  <2>2. PICK c \in {d[1] : d \in pass[t].doomed} :
           LET mine == {d \in pass[t].doomed : d[1] = c}
               rest == pass[t].doomed \ mine
           IN  /\ index' = [index EXCEPT ![c] = Without(index[c], {d[2] : d \in mine})]
               /\ pass' = [pass EXCEPT ![t] =
                              IF rest = {} THEN Idle ELSE [pass[t] EXCEPT !.doomed = rest]]
    BY <1>5, Zenon DEF Remove
  <2>3. /\ \A u \in Threads : u # t => pass'[u] = pass[u]
        /\ \A d \in Contexts : index'[d] \subseteq index[d]
    BY <2>2 DEF TypeOK, Without
  <2>4. trimmed' <=> (trimmed \/ pass'[t] = Idle)
    BY <2>1, Zenon DEF Ends
  <2>5. QED
    BY <1>2, <2>1, <2>3, <2>4
<1>6. QED
  BY <1>3, <1>4, <1>5 DEF Insert

LEMMA SmallerSizes ==
    ASSUME FiniteInv, FiniteInv', \A c \in Contexts : index'[c] \subseteq index[c]
    PROVE  /\ Sizes' \in Amounts
           /\ \A c \in Contexts : Sizes'[c] <= Sizes[c]
<1>1. \A c \in Contexts : /\ Cardinality(index'[c]) \in Nat
                          /\ Cardinality(index'[c]) <= Cardinality(index[c])
  BY FS_CardinalityType, FS_Subset DEF FiniteInv
<1>2. QED
  BY <1>1 DEF Sizes, Amounts

LEMMA CapInsert ==
    ASSUME TypeOK, BucketsInv, FiniteInv, FiniteInv', CapInv, NEW t \in Threads, Insert(t)
    PROVE  CapInv'
<1>1. PICK P, L : Capped(P, L)
  BY DEF CapInv
<1>2. IsFiniteSet(Inserting) /\ GatheredInv /\ Gathered(pass[t])
  BY DEF CapInv, GatheredInv
<1>3. /\ t \in Inserting /\ pass[t] # Idle
      /\ \A u \in Threads : u # t => pass'[u] = pass[u]
      /\ UNCHANGED <<cfg, pushes>>
      /\ trimmed' <=> (trimmed \/ pass'[t] = Idle)
      /\ \A c \in Contexts : index'[c] \subseteq index[c]
  BY InsertFrame
<1>4. /\ Sizes' \in Amounts
      /\ \A c \in Contexts : Sizes'[c] <= Sizes[c]
  BY <1>3, SmallerSizes
<1>5. Comes(t)
  BY <1>2, <1>4, CountComes, ExpireComes, RecountComes, CollectComes, RemoveComes DEF Insert
<1>6. GatheredInv'
  BY <1>2, <1>3, <1>5 DEF GatheredInv, Comes
<1>7. CASE pass'[t] = Idle
  <2>1. Inserting' = Inserting \ {t}
    BY <1>3, <1>7 DEF Inserting, Idle, Doing
  <2>2. \A late \in Nat : Claim(Sizes, pass[t], cfg.max, late) =>
           Load(Sizes', Contexts, Zero, Zero) <= cfg.max + late
    BY <1>5, <1>7 DEF Comes
  <2>3. \E M : Capped(P, M)'
    BY <1>1, <1>2, <1>3, <1>4, <1>7, <2>1, <2>2, CapFinish
  <2>4. IsFiniteSet(Inserting')
    BY <1>2, <2>1, FS_Difference
  <2>5. QED
    BY <1>6, <2>3, <2>4 DEF CapInv
<1>8. CASE pass'[t] # Idle
  <2>1. Inserting' = Inserting
    BY <1>3, <1>5, <1>8 DEF Inserting, Comes, Inserts
  <2>2. \A late \in Nat : Claim(Sizes, pass[t], cfg.max, late) =>
           Claim(Sizes', pass'[t], cfg.max, late)
    BY <1>5, <1>8 DEF Comes
  <2>3. Capped(P, L)'
    BY <1>1, <1>2, <1>3, <1>4, <1>8, <2>1, <2>2, CapQuiet
  <2>4. QED
    BY <1>2, <1>6, <2>1, <2>3 DEF CapInv
<1>9. QED
  BY <1>7, <1>8

\* A step of a thread that is not in an insert, and does not begin one.
LEMMA CapAside ==
    ASSUME TypeOK, FiniteInv, FiniteInv', CapInv,
           NEW t, t \notin Inserting, t \notin Inserting', Gathered(pass'[t]),
           \A u \in Threads : u # t => pass'[u] = pass[u],
           UNCHANGED <<cfg, pushes, trimmed>>,
           \A c \in Contexts : index'[c] \subseteq index[c]
    PROVE  CapInv'
<1>1. PICK P, L : Capped(P, L)
  BY DEF CapInv
<1>2. IsFiniteSet(Inserting) /\ GatheredInv
  BY DEF CapInv
<1>3. \A c \in Contexts : Sizes'[c] <= Sizes[c]
  BY SmallerSizes
<1>4. Inserting' = Inserting
  BY DEF Inserting
<1>5. GatheredInv'
  BY <1>2 DEF GatheredInv
<1>6. Capped(P, L)'
  BY <1>1, <1>2, <1>3, <1>4, CapQuiet
<1>7. QED
  BY <1>2, <1>4, <1>5, <1>6 DEF CapInv

SaveCopy(t) ==
    pass[t].copy \cup {<<pass[t].next, Saved(x)>> : x \in index[pass[t].next]}

LEMMA CapRestart ==
    ASSUME TypeOK, NEW c \in Configs, NEW d \in ClockSteps, Restart(c, d)
    PROVE  CapInv'
<1>1. /\ pass' = [u \in Threads |-> Idle] /\ pushes' = pushes /\ pushes \in Nat
      /\ trimmed' = FALSE
  BY DEF Restart, TypeOK
<1>2. Inserting' = {}
  BY <1>1 DEF Inserting, Idle, Doing
<1>3. GatheredInv'
  BY <1>1, GatheredNone DEF GatheredInv, Idle, Doing
<1>4. PICK P : P = [u \in Threads |-> 0]
  OBVIOUS
<1>5. P \in [Threads -> Nat] /\ \A u \in Threads : P[u] <= pushes
  BY <1>1, <1>4
<1>6. ~trimmed'
  BY <1>1
<1>7. Capped(P, 0)'
  BY <1>1, <1>2, <1>5, <1>6 DEF Capped
<1>8. QED
  BY <1>2, <1>3, <1>7, FS_EmptySet DEF CapInv

LEMMA CapStep ==
    ASSUME SoundInv, SoundInv', CapInv, [Next]_vars
    PROVE  CapInv'
<1>1. TypeOK /\ BucketsInv /\ FiniteInv /\ FiniteInv'
  BY SoundType DEF SoundInv, BucketsInv, Sound, FilesInv, FiniteInv
<1>2. ASSUME NEW t \in Threads, NEW c \in Contexts, Push(t, c)
      PROVE  CapInv'
  <2>1. PICK P, L : Capped(P, L)
    BY DEF CapInv
  <2>2. QED
    BY <1>1, <1>2, <2>1, CapBegin DEF CapInv
<1>3. ASSUME UNCHANGED <<pass, cfg, pushes, trimmed>>,
             \A c \in Contexts : index'[c] \subseteq index[c]
      PROVE  CapInv'
  <2>1. PICK t : t \notin Threads
    BY NoSetContainsEverything
  <2>2. PICK P, L : Capped(P, L)
    BY DEF CapInv
  <2>3. \A c \in Contexts : Sizes'[c] <= Sizes[c]
    BY <1>1, <1>3, SmallerSizes
  <2>4. Inserting' = Inserting /\ t \notin Inserting
    BY <1>3, <2>1 DEF Inserting
  <2>5. Capped(P, L)'
    BY <1>1, <1>3, <2>2, <2>3, <2>4, CapQuiet DEF CapInv
  <2>6. GatheredInv'
    BY <1>3 DEF CapInv, GatheredInv
  <2>7. QED
    BY <2>4, <2>5, <2>6 DEF CapInv
<1>4. ASSUME NEW t \in Threads, NEW c \in Contexts, Delete(t, c)
      PROVE  CapInv'
  <2>1. UNCHANGED <<pass, cfg, pushes, trimmed>>
    BY <1>4 DEF Delete, history
  <2>2. \A x \in Contexts : index'[x] \subseteq index[x]
    BY <1>1, <1>4 DEF Delete, Change, TypeOK
  <2>3. QED
    BY <1>3, <2>1, <2>2
<1>5. ASSUME NEW t \in Threads, BeginClear(t) \/ BeginSave(t)
      PROVE  CapInv'
  <2>1. UNCHANGED <<index, cfg, pushes, trimmed>>
    BY <1>5 DEF BeginClear, BeginSave, history
  <2>2. /\ pass[t] = Idle /\ pass'[t] \in {Doing("clearing"), Doing("saving")}
        /\ \A u \in Threads : u # t => pass'[u] = pass[u]
    BY <1>1, <1>5 DEF BeginClear, BeginSave, TypeOK
  <2>3. t \notin Inserting /\ t \notin Inserting' /\ Gathered(pass'[t])
    BY <2>2, GatheredNone DEF Inserting, Idle, Doing
  <2>4. QED
    BY <1>1, <2>1, <2>2, <2>3, CapAside
<1>6. ASSUME NEW t \in Threads, Clear(t) \/ Save(t)
      PROVE  CapInv'
  <2>1. pass[t].at \in {"clearing", "saving"} /\ pass[t] \in Passes /\ Gathered(pass[t])
    BY <1>1, <1>6 DEF Clear, Save, TypeOK, CapInv, GatheredInv
  <2>2. UNCHANGED <<cfg, pushes, trimmed>>
    BY <1>6 DEF Clear, Save, history
  <2>3. \A x \in Contexts : index'[x] \subseteq index[x]
    BY <1>1, <1>6 DEF Clear, Save, Change, TypeOK
  <2>4. PICK going \in {pass[t]} \cup {[pass[t] EXCEPT !.copy = x] : x \in {SaveCopy(t)}} :
           Goes(t, going, Idle)
    BY <1>6, Zenon DEF Clear, Save, SaveCopy
  <2>5. \A u \in Threads : u # t => pass'[u] = pass[u]
    BY <1>1, <2>4, GoesTo
  <2>6. /\ pass'[t].at \in {"idle", "clearing", "saving"}
        /\ Gathered(pass'[t])
    <3>1. /\ going.at = pass[t].at /\ going.found = pass[t].found
          /\ going.doomed = pass[t].doomed
          /\ LET step == [going EXCEPT !.next = pass[t].next + 1]
             IN  /\ step.at = pass[t].at /\ step.found = pass[t].found
                 /\ step.doomed = pass[t].doomed /\ step.next = pass[t].next + 1
      BY <2>1, <2>4 DEF Passes
    <3>2. pass[t].next \in Nat /\ \A q \in pass[t].found : q[1] \in Nat /\ q[1] < pass[t].next
      BY <2>1 DEF Passes, Contexts, Gathered, Candidates
    <3>3. \A q \in pass[t].found : q[1] < pass[t].next + 1
      BY <3>2
    <3>4. Gathered([going EXCEPT !.next = pass[t].next + 1])
      BY <2>1, <3>1, <3>3 DEF Gathered
    <3>5. Gathered(Idle) /\ Idle.at = "idle"
      BY GatheredNone DEF Idle, Doing
    <3>6. pass'[t] = Idle \/ pass'[t] = [going EXCEPT !.next = pass[t].next + 1]
      BY <1>1, <2>4, GoesTo
    <3>7. QED
      BY <2>1, <3>1, <3>4, <3>5, <3>6
  <2>7. t \notin Inserting /\ t \notin Inserting'
    BY <2>1, <2>6 DEF Inserting
  <2>8. QED
    BY <1>1, <2>2, <2>3, <2>5, <2>6, <2>7, CapAside
<1>7. ASSUME NEW c \in Configs, NEW d \in ClockSteps, Restart(c, d)
      PROVE  CapInv'
  BY <1>1, <1>7, CapRestart
<1>8. ASSUME Tick \/ UNCHANGED vars
      PROVE  CapInv'
  <2>1. UNCHANGED <<index, pass, cfg, pushes, trimmed>>
    BY <1>8 DEF Tick, vars, history
  <2>2. QED
    BY <1>3, <2>1
<1>9. QED
  BY <1>1, <1>2, <1>4, <1>5, <1>6, <1>7, <1>8, CapInsert DEF Next

LEMMA CapInit == Init => CapInv
<1> SUFFICES ASSUME Init
             PROVE  CapInv
  OBVIOUS
<1>1. pass = [u \in Threads |-> Idle] /\ pushes = 0 /\ trimmed = FALSE
  BY DEF Init
<1>2. Inserting = {}
  BY <1>1 DEF Inserting, Idle, Doing
<1>3. GatheredInv
  BY <1>1, GatheredNone DEF GatheredInv, Idle, Doing
<1>4. PICK P : P = [u \in Threads |-> 0]
  OBVIOUS
<1>5. Capped(P, 0)
  BY <1>1, <1>2, <1>4 DEF Capped
<1>6. QED
  BY <1>2, <1>3, <1>5, FS_EmptySet DEF CapInv

\* Once a process has finished an insert the index is over semantic_max_items by no
\* more than the inserts under way, for any number of threads: although each counts,
\* collects and removes bucket by bucket while others push, delete, clear and evict,
\* and removes by positions that are stale by then.
THEOREM GlobalBounded == Spec => []GlobalCap
<1>1. SoundInv /\ CapInv /\ [Next]_vars => SoundInv' /\ CapInv'
  BY SoundStep, CapStep
<1>2. ASSUME SoundInv, CapInv
      PROVE  GlobalCap
  <2>1. PICK P, L : Capped(P, L)
    BY <1>2 DEF CapInv
  <2>2. Sizes \in Amounts /\ Total = Load(Sizes, Contexts, Zero, Zero)
    BY <1>2, SoundType, SizesType DEF SoundInv
  <2>3. cfg.max \in Nat
    BY <1>2, ConfigsAssumption DEF SoundInv, TypeOK
  <2>4. /\ Cardinality(Late(P, Inserting, L)) \in Nat /\ Cardinality(Inserting) \in Nat
        /\ Cardinality(Late(P, Inserting, L)) <= Cardinality(Inserting)
    BY <1>2, LateType DEF CapInv
  <2>5. Load(Sizes, Contexts, Zero, Zero) \in Int
    BY <2>2, WeightType, ZeroType
  <2>6. trimmed =>
           Load(Sizes, Contexts, Zero, Zero) <= cfg.max + Cardinality(Late(P, Inserting, L))
    BY <2>1 DEF Capped
  <2>7. trimmed => Load(Sizes, Contexts, Zero, Zero) <= cfg.max + Cardinality(Inserting)
    BY <2>3, <2>4, <2>5, <2>6
  <2>8. QED
    BY <2>2, <2>7 DEF GlobalCap
<1>3. QED
  BY <1>1, <1>2, SoundInit, CapInit, PTL DEF Spec

-------------------------------------------------------------------------------
(* What an eviction that is left alone comes to.                           *)

\* An element of a finite ordered set, with what is before it and what is after it, is
\* all there is.
LEMMA Sides ==
    ASSUME NEW L, IsFiniteSet(L), NEW R, Orders(R, L), NEW x \in L
    PROVE  LET before == {y \in L : <<y, x>> \in R}
               after == {y \in L : <<x, y>> \in R}
           IN  /\ Cardinality(before) \in Nat /\ Cardinality(after) \in Nat
               /\ Cardinality(L) = Cardinality(before) + Cardinality(after) + 1
<1> DEFINE before == {y \in L : <<y, x>> \in R}
           after == {y \in L : <<x, y>> \in R}
<1>1. IsFiniteSet(before) /\ IsFiniteSet(after)
  BY FS_Subset
<1>2. before \cap after = {} /\ x \notin before \cup after
  BY DEF Orders
<1>3. L = (before \cup after) \cup {x}
  BY DEF Orders
<1> HIDE DEF before, after
<1>4. /\ IsFiniteSet(before \cup after)
      /\ Cardinality(before \cup after) = Cardinality(before) + Cardinality(after)
  <2>1. /\ IsFiniteSet(before \cup after)
        /\ Cardinality(before \cup after)
              = Cardinality(before) + Cardinality(after) - Cardinality(before \cap after)
    BY <1>1, FS_Union
  <2>2. Cardinality(before \cap after) = 0
    BY <1>2, FS_EmptySet
  <2>3. Cardinality(before) \in Nat /\ Cardinality(after) \in Nat
    BY <1>1, FS_CardinalityType
  <2>4. QED
    BY <2>1, <2>2, <2>3
<1>5. Cardinality(L) = Cardinality(before \cup after) + 1
  BY <1>2, <1>3, <1>4, FS_AddElement
<1>6. Cardinality(before) \in Nat /\ Cardinality(after) \in Nat
  BY <1>1, FS_CardinalityType
<1>7. QED
  BY <1>4, <1>5, <1>6 DEF before, after

\* The items with their contexts, and how many there are.
LEMMA AllCount ==
    ASSUME TypeOK, FiniteInv
    PROVE  /\ \A p \in All : /\ p[1] \in Contexts /\ p[2] \in index[p[1]] /\ p[2] \in Item
                             /\ p = <<p[1], p[2]>>
           /\ \A c \in Contexts : \A x \in index[c] : <<c, x>> \in All
           /\ IsFiniteSet(All) /\ Cardinality(All) = Total
<1> DEFINE of(c) == {<<c, x>> : x \in index[c]}
           parts == [c \in Contexts |-> of(c)]
<1>1. /\ \A p \in All : /\ p[1] \in Contexts /\ p[2] \in index[p[1]] /\ p[2] \in Item
                        /\ p = <<p[1], p[2]>>
      /\ \A c \in Contexts : \A x \in index[c] : <<c, x>> \in All
  BY DEF All, TypeOK
<1>2. ASSUME NEW c \in Contexts
      PROVE  IsFiniteSet(of(c)) /\ Cardinality(of(c)) = Cardinality(index[c])
  <2> DEFINE f == [x \in index[c] |-> <<c, x>>]
             T == of(c)
  <2>1. f \in [index[c] -> T] /\ \A x \in index[c] : f[x] = <<c, x>>
    OBVIOUS
  <2>2. \A z \in T : \E x \in index[c] : z = <<c, x>>
    OBVIOUS
  <2> HIDE DEF f, T
  <2>3. \A x, y \in index[c] : f[x] = f[y] => x = y
    BY <2>1
  <2>4. \A z \in T : \E x \in index[c] : f[x] = z
    BY <2>1, <2>2
  <2>5. IsFiniteSet(index[c])
    BY DEF FiniteInv
  <2>6. IsFiniteSet(T) /\ Cardinality(T) = Cardinality(index[c])
    BY <2>1, <2>3, <2>4, <2>5, SameSize
  <2>7. QED
    BY <2>6 DEF T
<1>3. IsFiniteSet(All)
  <2> DEFINE S == {parts[c] : c \in Contexts}
  <2>1. DOMAIN parts = Contexts /\ \A c \in Contexts : parts[c] = of(c)
    OBVIOUS
  <2>2. All = UNION S
    BY DEF All
  <2> HIDE DEF parts, of
  <2>3. IsFiniteSet(Contexts)
    BY ShardsAssumption, FS_Interval DEF Contexts
  <2>4. IsFiniteSet(S)
    BY <2>1, <2>3, ImageFinite
  <2>5. \A T \in S : IsFiniteSet(T)
    BY <1>2, <2>1
  <2> HIDE DEF S
  <2>6. QED
    BY <2>2, <2>4, <2>5, FS_UNION
<1>4. \A c \in Contexts : {q \in All : q[1] = c} = of(c)
  <2> SUFFICES ASSUME NEW c \in Contexts
               PROVE  {q \in All : q[1] = c} = of(c)
    OBVIOUS
  <2>1. \A q \in of(c) : q \in All /\ q[1] = c
    BY <1>1
  <2>2. \A q \in All : q[1] = c => q \in of(c)
    BY <1>1
  <2> HIDE DEF of
  <2>3. QED
    BY <2>1, <2>2
<1>5. Per(All) = [c \in Contexts |-> Cardinality(index[c])]
  <2> HIDE DEF of
  <2>1. QED
    BY <1>2, <1>4 DEF Per
<1>6. SumTo(Per(All), Shards) = Cardinality(All)
  BY <1>1, <1>3, PerSum
<1>7. QED
  BY <1>1, <1>3, <1>5, <1>6 DEF Total

LiveAll == {p \in All : ~Expired(p[2])}

Kept(S, max) == {p \in S : Cardinality({q \in S : Before(p, q)}) < max}

Parts(S) == [c \in Contexts |-> {p[2] : p \in {q \in S : q[1] = c}}]

LEMMA NewestIs == Newest = Parts(Kept(LiveAll, cfg.max))
BY DEF Newest, Parts, Kept, LiveAll

\* Nothing of the contexts of A has expired.
LiveIn(A) == \A c \in A : \A x \in index[c] : ~Expired(x)

LEMMA NewestOfAll ==
    ASSUME TypeOK, FiniteInv, LiveIn(Contexts)
    PROVE  /\ Newest = Parts(Kept(All, cfg.max))
           /\ \A c \in Contexts : \A x : x \in Newest[c] <=>
                 /\ x \in index[c]
                 /\ Cardinality({q \in All : Before(<<c, x>>, q)}) < cfg.max
<1>1. \A p \in All : /\ p[1] \in Contexts /\ p[2] \in index[p[1]] /\ p = <<p[1], p[2]>>
  BY AllCount
<1>2. \A c \in Contexts : \A x \in index[c] : <<c, x>> \in All /\ ~Expired(x)
  BY AllCount DEF LiveIn
<1>3. LiveAll = All
  BY <1>1, <1>2 DEF LiveAll
<1>4. Newest = Parts(Kept(All, cfg.max))
  BY <1>3, NewestIs
<1>5. ASSUME NEW c \in Contexts, NEW x, x \in Newest[c]
      PROVE  /\ x \in index[c]
             /\ Cardinality({q \in All : Before(<<c, x>>, q)}) < cfg.max
  <2>1. x \in {p[2] : p \in {q \in Kept(All, cfg.max) : q[1] = c}}
    BY <1>4, <1>5 DEF Parts
  <2>2. PICK p \in Kept(All, cfg.max) : p[1] = c /\ p[2] = x
    BY <2>1
  <2>3. p \in All /\ Cardinality({q \in All : Before(p, q)}) < cfg.max
    BY <2>2 DEF Kept
  <2>4. p = <<c, x>> /\ x \in index[c]
    BY <1>1, <2>2, <2>3
  <2>5. QED
    BY <2>3, <2>4
<1>6. ASSUME NEW c \in Contexts, NEW x \in index[c],
             Cardinality({q \in All : Before(<<c, x>>, q)}) < cfg.max
      PROVE  x \in Newest[c]
  <2>1. <<c, x>> \in Kept(All, cfg.max)
    BY <1>2, <1>6 DEF Kept
  <2>2. x \in {p[2] : p \in {q \in Kept(All, cfg.max) : q[1] = c}}
    BY <2>1
  <2>3. QED
    BY <1>4, <2>2 DEF Parts
<1>7. QED
  BY <1>4, <1>5, <1>6

\* If all live and there are not too many, nothing goes.
LEMMA FewAreKept ==
    ASSUME TypeOK, FiniteInv, LiveIn(Contexts), Total <= cfg.max
    PROVE  Newest = index
<1>1. IsFiniteSet(All) /\ Cardinality(All) = Total /\ Total \in Nat /\ cfg.max \in Nat
  BY AllCount, FS_CardinalityType, ConfigsAssumption DEF TypeOK
<1>2. ASSUME NEW c \in Contexts, NEW x \in index[c]
      PROVE  Cardinality({q \in All : Before(<<c, x>>, q)}) < cfg.max
  <2> DEFINE after == {q \in All : Before(<<c, x>>, q)}
  <2>1. x.created \in Int /\ x.n \in Int /\ c \in Int
    BY DEF TypeOK, Item, Contexts
  <2>2. ~Before(<<c, x>>, <<c, x>>) /\ <<c, x>> \in All
    BY <2>1, AllCount DEF Before
  <2>3. after \subseteq All /\ after # All
    BY <2>2
  <2> HIDE DEF after
  <2>4. Cardinality(after) \in Nat /\ Cardinality(after) <= Cardinality(All)
        /\ Cardinality(after) # Cardinality(All)
    <3>1. /\ IsFiniteSet(after) /\ Cardinality(after) <= Cardinality(All)
          /\ Cardinality(after) # Cardinality(All)
      BY <1>1, <2>3, FS_Subset
    <3>2. QED
      BY <3>1, FS_CardinalityType
  <2>5. Cardinality(after) < cfg.max
    BY <1>1, <2>4
  <2>6. QED
    BY <2>5 DEF after
<1>3. \A c \in Contexts : Newest[c] = index[c]
  BY <1>2, NewestOfAll
<1>4. Newest = [c \in Contexts |-> Newest[c]] /\ index = [c \in Contexts |-> index[c]]
  BY NewestIs DEF Parts, TypeOK
<1>5. QED
  BY <1>3, <1>4

\* The positions of c that are marked.
MarkedIn(D, c) == {d[2] : d \in {e \in D : e[1] = c}}

\* If all live and k are too many, the k that are marked by their positions are those
\* that are not kept.
LEMMA MarkedGo ==
    ASSUME TypeOK, FiniteInv, LiveIn(Contexts), NEW found, Candidates(found),
           \A q \in found : /\ q[1] \in Contexts /\ q[2] \in index[q[1]]
                            /\ q[3] = Position(index[q[1]], q[2])
                            /\ q = <<q[1], q[2], q[3]>>,
           \A c \in Contexts : \A x \in index[c] : <<c, x, Position(index[c], x)>> \in found,
           NEW k \in Nat, k > 0, Total = cfg.max + k
    PROVE  /\ Marks(found, k) # {}
           /\ \A c \in Contexts : Newest[c] = Without(index[c], MarkedIn(Marks(found, k), c))
<1> DEFINE R == {p \in found \X found : Before(p[1], p[2])}
           g == [q \in found |-> <<q[1], q[2]>>]
<1>1. /\ IsFiniteSet(All) /\ Cardinality(All) = Total
      /\ \A p \in All : p[1] \in Contexts /\ p[2] \in index[p[1]] /\ p = <<p[1], p[2]>>
      /\ \A c \in Contexts : \A x \in index[c] : <<c, x>> \in All
  BY AllCount
<1>2. Orders(R, found) /\ IsFiniteSet(found)
  BY BeforeOrders DEF Candidates
<1>3. \A p, q \in found : <<p, q>> \in R <=> Before(p, q)
  OBVIOUS
<1>4. /\ g \in [found -> All]
      /\ \A q \in found : g[q] = <<q[1], q[2]>> /\ g[q][1] = q[1] /\ g[q][2] = q[2]
  BY <1>1
<1>5. \A p, q \in found : g[p] = g[q] => p = q
  <2>1. ASSUME NEW p \in found, NEW q \in found, g[p] = g[q]
        PROVE  p = q
    <3>1. p[1] = q[1] /\ p[2] = q[2]
      BY <1>4, <2>1
    <3>2. p[3] = q[3]
      BY <3>1
    <3>3. QED
      BY <3>1, <3>2
  <2> HIDE DEF g
  <2>2. QED
    BY <2>1
<1>6. \A z \in All : \E q \in found : g[q] = z
  <2> SUFFICES ASSUME NEW z \in All PROVE \E q \in found : g[q] = z
    OBVIOUS
  <2>1. /\ z[1] \in Contexts /\ z[2] \in index[z[1]] /\ z = <<z[1], z[2]>>
    BY <1>1
  <2>2. <<z[1], z[2], Position(index[z[1]], z[2])>> \in found
    BY <2>1
  <2> HIDE DEF g
  <2>3. g[<<z[1], z[2], Position(index[z[1]], z[2])>>] = <<z[1], z[2]>>
    BY <1>4, <2>2
  <2>4. QED
    BY <2>1, <2>2, <2>3
<1> HIDE DEF g, R
<1>7. Cardinality(found) = cfg.max + k /\ cfg.max \in Nat
  <2>1. Cardinality(All) = Cardinality(found)
    BY <1>2, <1>4, <1>5, <1>6, SameSize
  <2>2. QED
    BY <1>1, <2>1, ConfigsAssumption DEF TypeOK
<1>8. Marks(found, k) # {}
  <2>1. Cardinality(Marks(found, k)) = k
    <3>1. k <= Cardinality(found) => Cardinality(Marks(found, k)) = k
      BY MarksCount
    <3>2. QED
      BY <1>7, <3>1
  <2>2. Cardinality({}) = 0
    BY FS_EmptySet
  <2>3. QED
    BY <2>1, <2>2
<1>9. ASSUME NEW p \in found
      PROVE  p \in Oldest(found, k) <=> ~(Cardinality({q \in All : Before(g[p], q)}) < cfg.max)
  <2> DEFINE before == {q \in found : Before(q, p)}
             after == {q \in found : Before(p, q)}
             later == {q \in All : Before(g[p], q)}
             h == [q \in after |-> g[q]]
  <2>1. /\ Cardinality(before) \in Nat /\ Cardinality(after) \in Nat
        /\ Cardinality(found) = Cardinality(before) + Cardinality(after) + 1
    <3>1. /\ before = {y \in found : <<y, p>> \in R}
          /\ after = {y \in found : <<p, y>> \in R}
      BY <1>3
    <3> HIDE DEF before, after
    <3>2. QED
      BY <1>2, <3>1, Sides
  <2>2. \A q \in found : Before(g[p], g[q]) <=> Before(p, q)
    BY <1>4 DEF Before
  <2>3. h \in [after -> later] /\ \A q \in after : h[q] = g[q]
    BY <1>4, <2>2
  <2>4. \A q, r \in after : h[q] = h[r] => q = r
    BY <1>5, <2>3
  <2>5. \A z \in later : \E q \in after : h[q] = z
    <3> SUFFICES ASSUME NEW z \in later PROVE \E q \in after : h[q] = z
      OBVIOUS
    <3>1. PICK q \in found : g[q] = z
      BY <1>6
    <3>2. q \in after
      BY <2>2, <3>1
    <3>3. QED
      BY <2>3, <3>1, <3>2
  <2>6. IsFiniteSet(after)
    BY <1>2, FS_Subset
  <2> HIDE DEF h, after, later
  <2>7. Cardinality(later) = Cardinality(after)
    BY <2>3, <2>4, <2>5, <2>6, SameSize
  <2> HIDE DEF before
  <2>8. Cardinality(before) < k <=> ~(Cardinality(later) < cfg.max)
    BY <1>7, <2>1, <2>7
  <2>9. p \in Oldest(found, k) <=> Cardinality(before) < k
    BY DEF Oldest, before
  <2>10. QED
    BY <2>8, <2>9 DEF later
<1>10. ASSUME NEW c \in Contexts, NEW x \in index[c]
       PROVE  Position(index[c], x) \in MarkedIn(Marks(found, k), c)
                 <=> <<c, x, Position(index[c], x)>> \in Oldest(found, k)
  <2> DEFINE p == <<c, x, Position(index[c], x)>>
  <2>1. p \in found /\ p[1] = c /\ p[3] = Position(index[c], x)
    OBVIOUS
  <2> HIDE DEF p
  <2>2. p \in Oldest(found, k) => p[3] \in MarkedIn(Marks(found, k), c)
    <3> SUFFICES ASSUME p \in Oldest(found, k)
                 PROVE  p[3] \in MarkedIn(Marks(found, k), c)
      OBVIOUS
    <3>1. <<p[1], p[3]>> \in Marks(found, k)
      BY DEF Marks
    <3>2. QED
      BY <2>1, <3>1 DEF MarkedIn
  <2>3. p[3] \in MarkedIn(Marks(found, k), c) => p \in Oldest(found, k)
    <3> SUFFICES ASSUME p[3] \in MarkedIn(Marks(found, k), c)
                 PROVE  p \in Oldest(found, k)
      OBVIOUS
    <3>1. PICK d \in Marks(found, k) : d[1] = c /\ d[2] = p[3]
      BY DEF MarkedIn
    <3>2. PICK r \in Oldest(found, k) : d = <<r[1], r[3]>>
      BY <3>1 DEF Marks
    <3>3. r \in found /\ r[1] = p[1] /\ r[3] = p[3]
      BY <2>1, <3>1, <3>2 DEF Oldest
    <3>4. r = p
      BY <2>1, <3>3 DEF Candidates
    <3>5. QED
      BY <3>4
  <2>4. QED
    BY <2>1, <2>2, <2>3 DEF p
<1>11. ASSUME NEW c \in Contexts, NEW x \in index[c]
       PROVE  x \in Newest[c] <=> x \in Without(index[c], MarkedIn(Marks(found, k), c))
  <2> DEFINE p == <<c, x, Position(index[c], x)>>
  <2>1. p \in found /\ g[p] = <<c, x>>
    BY <1>4
  <2>2. p \in Oldest(found, k)
           <=> ~(Cardinality({q \in All : Before(<<c, x>>, q)}) < cfg.max)
    BY <1>9, <2>1
  <2>3. x \in Newest[c] <=> Cardinality({q \in All : Before(<<c, x>>, q)}) < cfg.max
    BY NewestOfAll
  <2> HIDE DEF p
  <2>4. x \in Newest[c] <=> p \notin Oldest(found, k)
    BY <2>2, <2>3
  <2>5. QED
    BY <1>10, <2>4 DEF Without, p
<1>12. ASSUME NEW c \in Contexts
       PROVE  Newest[c] = Without(index[c], MarkedIn(Marks(found, k), c))
  <2>1. \A x \in Newest[c] : x \in index[c]
    BY NewestOfAll
  <2>2. \A x \in Without(index[c], MarkedIn(Marks(found, k), c)) : x \in index[c]
    BY DEF Without
  <2>3. QED
    BY <1>11, <2>1, <2>2
<1>13. QED
  BY <1>8, <1>12

\* All candidates of the contexts that p has passed.
FoundAll(p) ==
    /\ \A q \in p.found : /\ q[1] \in Contexts /\ q[2] \in index[q[1]]
                          /\ q[3] = Position(index[q[1]], q[2])
                          /\ q = <<q[1], q[2], q[3]>>
    /\ \A c \in Passed(p) : \A x \in index[c] : <<c, x, Position(index[c], x)>> \in p.found

WithoutMarked(D) == [c \in Contexts |-> Without(index[c], MarkedIn(D, c))]

\* How an eviction that nobody has disturbed comes to what it must.
Exact(t) ==
    LET p == pass[t]
    IN  \A E \in expect[t] :
          /\ p.at \in {"expiring", "recounting", "collecting"} => E = Newest
          /\ p.at = "expiring" => LiveIn(Passed(p))
          /\ p.at \in {"recounting", "collecting"} => LiveIn(Contexts)
          /\ p.at = "recounting" => p.sum = Load(Sizes, Passed(p), Zero, Zero)
          /\ p.at = "collecting" => p.sum > 0 /\ Total = cfg.max + p.sum /\ FoundAll(p)
          /\ p.at = "removing" => E = WithoutMarked(p.doomed)

ExactInv == \A t \in Threads : Exact(t)

\* Nothing changes that these are about.
LEMMA SameIndex ==
    ASSUME UNCHANGED <<index, now, cfg>>
    PROVE  /\ Newest' = Newest /\ Sizes' = Sizes /\ Total' = Total
           /\ \A A : LiveIn(A)' <=> LiveIn(A)
           /\ \A q : FoundAll(q)' <=> FoundAll(q)
           /\ \A D : WithoutMarked(D)' = WithoutMarked(D)
<1>1. All' = All /\ Sizes' = Sizes /\ Total' = Total
  BY DEF All, Sizes, Total
<1>2. LiveAll' = LiveAll
  BY <1>1 DEF LiveAll, Expired
<1>3. Newest' = Newest
  <2>1. Newest' = Parts(Kept(LiveAll', cfg'.max))
    BY DEF Newest, Parts, Kept, LiveAll
  <2>2. QED
    BY <1>2, <2>1, NewestIs
<1>4. \A A : LiveIn(A)' <=> LiveIn(A)
  BY DEF LiveIn, Expired
<1>5. \A q : FoundAll(q)' <=> FoundAll(q)
  BY DEF FoundAll
<1>6. \A D : WithoutMarked(D)' = WithoutMarked(D)
  BY DEF WithoutMarked
<1>7. QED
  BY <1>1, <1>3, <1>4, <1>5, <1>6

LEMMA ExactKept ==
    ASSUME NEW u, Exact(u), pass'[u] = pass[u], expect'[u] \in {{}, expect[u]},
           expect'[u] # {} => UNCHANGED <<index, now, cfg>>
    PROVE  Exact(u)'
<1>1. CASE expect'[u] = {}
  BY <1>1 DEF Exact
<1>2. CASE expect'[u] # {}
  <2>1. UNCHANGED <<index, now, cfg>> /\ expect'[u] = expect[u]
    BY <1>2
  <2>2. /\ Newest' = Newest /\ Sizes' = Sizes /\ Total' = Total
        /\ \A A : LiveIn(A)' <=> LiveIn(A)
        /\ \A q : FoundAll(q)' <=> FoundAll(q)
        /\ \A D : WithoutMarked(D)' = WithoutMarked(D)
    BY <2>1, SameIndex
  <2>3. PICK p : p = pass[u] /\ p = pass'[u]
    OBVIOUS
  <2>4. ASSUME NEW E \in expect'[u]
        PROVE  /\ p.at \in {"expiring", "recounting", "collecting"} => E = Newest'
               /\ p.at = "expiring" => LiveIn(Passed(p))'
               /\ p.at \in {"recounting", "collecting"} => LiveIn(Contexts)'
               /\ p.at = "recounting" => p.sum = Load(Sizes', Passed(p), Zero, Zero)
               /\ p.at = "collecting" =>
                     p.sum > 0 /\ Total' = cfg'.max + p.sum /\ FoundAll(p)'
               /\ p.at = "removing" => E = WithoutMarked(p.doomed)'
    <3>1. /\ p.at \in {"expiring", "recounting", "collecting"} => E = Newest
          /\ p.at = "expiring" => LiveIn(Passed(p))
          /\ p.at \in {"recounting", "collecting"} => LiveIn(Contexts)
          /\ p.at = "recounting" => p.sum = Load(Sizes, Passed(p), Zero, Zero)
          /\ p.at = "collecting" => p.sum > 0 /\ Total = cfg.max + p.sum /\ FoundAll(p)
          /\ p.at = "removing" => E = WithoutMarked(p.doomed)
      BY <2>1, <2>3 DEF Exact
    <3>2. QED
      BY <2>1, <2>2, <3>1
  <2>5. QED
    BY <2>3, <2>4 DEF Exact
<1>3. QED
  BY <1>1, <1>2

LEMMA ExactAside ==
    ASSUME NEW u, pass'[u].at \notin {"expiring", "recounting", "collecting", "removing"}
    PROVE  Exact(u)'
BY DEF Exact

\* The count that finds too many.
LEMMA CountExact ==
    ASSUME TypeOK, NEW t \in Threads, Count(t)
    PROVE  Exact(t)'
<1> DEFINE sum == pass[t].sum + Cardinality(index[pass[t].next])
           going == [pass[t] EXCEPT !.sum = sum]
           end == IF sum > cfg.max THEN Doing("expiring") ELSE Idle
<1>1. /\ Goes(t, going, end) /\ pass[t].at = "counting" /\ UNCHANGED <<index, now, cfg>>
      /\ expect' = [expect EXCEPT ![t] = IF pass'[t].at = "expiring" THEN {Newest} ELSE {}]
  BY DEF Count
<1>2. pass[t] \in Passes
  BY DEF TypeOK
<1>3. CASE pass'[t].at # "expiring"
  <2>1. expect'[t] = {}
    BY <1>1, <1>3 DEF TypeOK
  <2>2. QED
    BY <2>1 DEF Exact
<1>4. CASE pass'[t].at = "expiring"
  <2>1. expect'[t] = {Newest}
    BY <1>1, <1>4 DEF TypeOK
  <2>2. [going EXCEPT !.next = pass[t].next + 1].at = "counting"
    BY <1>1, <1>2 DEF Passes
  <2>3. pass'[t] = end
    BY <1>1, <1>4, <2>2, GoesTo
  <2>4. pass'[t] = Doing("expiring")
    BY <1>4, <2>3 DEF Idle, Doing
  <2>5. Passed(pass'[t]) = {}
    BY <2>4 DEF Doing, Passed, Contexts
  <2>6. Newest' = Newest
    BY <1>1, SameIndex
  <2>7. QED
    BY <1>4, <2>1, <2>5, <2>6 DEF Exact, LiveIn
<1>5. QED
  BY <1>3, <1>4

\* What has expired goes, bucket by bucket: the newest of what lives stay the same.
LEMMA ExpireExact ==
    ASSUME TypeOK, Sizes' \in Amounts, NEW t \in Threads, Exact(t), Expire(t)
    PROVE  Exact(t)'
<1> DEFINE p == pass[t]
           c == p.next
           step == [p EXCEPT !.next = c + 1]
<1>1. /\ p \in Passes /\ c \in Contexts /\ p.at = "expiring"
      /\ Goes(t, p, Doing("recounting")) /\ UNCHANGED <<now, cfg>>
      /\ index' = [index EXCEPT ![c] = Live(index[c])]
      /\ expect'[t] = expect[t]
  BY DEF TypeOK, Passes, Expire, Change
<1>2. /\ index'[c] = Live(index[c])
      /\ \A d \in Contexts : d # c => index'[d] = index[d]
  BY <1>1 DEF TypeOK
<1>3. \A d \in Contexts : \A x :
         x \in index'[d] /\ ~Expired(x) <=> x \in index[d] /\ ~Expired(x)
  BY <1>2 DEF Live
<1>4. \A x : Expired(x)' <=> Expired(x)
  BY <1>1 DEF Expired
<1>5. LiveAll' = LiveAll
  <2>1. \A q : q \in LiveAll <=>
               \E d \in Contexts : \E x \in index[d] : q = <<d, x>> /\ ~Expired(x)
    BY DEF LiveAll, All
  <2>2. \A q : q \in LiveAll' <=>
               \E d \in Contexts : \E x \in index'[d] : q = <<d, x>> /\ ~Expired(x)
    BY <1>4 DEF LiveAll, All
  <2>3. \A q : q \in LiveAll' <=> q \in LiveAll
    BY <1>3, <2>1, <2>2
  <2>4. QED
    BY <2>3
<1>6. Newest' = Newest
  <2>1. Newest' = Parts(Kept(LiveAll', cfg'.max))
    BY DEF Newest, Parts, Kept, LiveAll
  <2>2. QED
    BY <1>1, <1>5, <2>1, NewestIs
<1>7. ASSUME NEW E \in expect[t], NEW d \in Passed(p) \cup {c}, NEW x \in index'[d]
      PROVE  ~Expired(x)'
  <2>1. CASE d = c
    BY <1>2, <1>4, <2>1 DEF Live
  <2>2. CASE d # c
    <3>1. d \in Passed(p) /\ d \in Contexts
      BY <2>2 DEF Passed
    <3>2. LiveIn(Passed(p)) /\ x \in index[d]
      BY <1>1, <1>2, <2>2, <3>1 DEF Exact
    <3>3. QED
      BY <1>4, <3>1, <3>2 DEF LiveIn
  <2>3. QED
    BY <2>1, <2>2
<1>8. \A E \in expect'[t] : E = Newest'
  BY <1>1, <1>6 DEF Exact
<1>9. CASE c # Shards
  <2>1. pass'[t] = step
    BY <1>1, <1>9, GoesTo
  <2>2. step.at = "expiring" /\ Passed(step) = Passed(p) \cup {c}
    <3>1. step.at = "expiring" /\ step.next = c + 1
      BY <1>1 DEF Passes
    <3>2. QED
      BY <1>1, <3>1 DEF Passed, Contexts
  <2>3. PICK q : q = step
    OBVIOUS
  <2> HIDE DEF step
  <2>4. \A E \in expect'[t] : LiveIn(Passed(q))'
    BY <1>1, <1>7, <2>2, <2>3 DEF LiveIn
  <2>5. QED
    BY <1>8, <2>1, <2>2, <2>3, <2>4 DEF Exact
<1>10. CASE c = Shards
  <2>1. pass'[t] = Doing("recounting")
    BY <1>1, <1>10, GoesTo
  <2>2. pass'[t].at = "recounting" /\ pass'[t].sum = 0 /\ Passed(pass'[t]) = {}
    BY <2>1 DEF Doing, Passed, Contexts
  <2>3. Passed(p) \cup {c} = Contexts
    BY <1>1, <1>10, PassedOn
  <2>4. \A E \in expect'[t] : LiveIn(Contexts)'
    BY <1>1, <1>7, <2>3 DEF LiveIn
  <2>5. Load(Sizes', {}, Zero, Zero) = 0
    BY LoadOfNone, ZeroType
  <2>6. QED
    BY <1>8, <2>2, <2>4, <2>5 DEF Exact
<1>11. QED
  BY <1>9, <1>10

\* The second count is exact.  If there are not too many it is all over.
LEMMA RecountExact ==
    ASSUME TypeOK, FiniteInv, NEW t \in Threads, Exact(t), Recount(t)
    PROVE  /\ Exact(t)'
           /\ pass'[t] = Idle => \A E \in expect[t] : E = index'
<1> DEFINE p == pass[t]
           c == p.next
           sum == p.sum + Sizes[c]
           going == [p EXCEPT !.sum = sum]
           begin == [Doing("collecting") EXCEPT !.sum = sum - cfg.max]
           end == IF sum > cfg.max THEN begin ELSE Idle
           step == [going EXCEPT !.next = c + 1]
<1>1. p \in Passes /\ c \in Contexts /\ p.sum \in Nat /\ sum \in Nat
  <2>1. Sizes[c] = Cardinality(index[c])
    BY PassSum, SizesType
  <2>2. QED
    BY <2>1, PassSum DEF Passes
<1>2. /\ p.at = "recounting" /\ Goes(t, going, end) /\ UNCHANGED <<index, now, cfg>>
      /\ expect' = IF pass'[t] = Idle THEN [expect EXCEPT ![t] = {}] ELSE expect
  <2>1. Sizes[c] = Cardinality(index[c])
    BY <1>1, SizesType
  <2>2. QED
    BY <2>1 DEF Recount, Settle, Ends
<1>3. Sizes \in Amounts /\ cfg.max \in Nat /\ Total = Load(Sizes, Contexts, Zero, Zero)
  BY SizesType, ConfigsAssumption DEF TypeOK
<1>4. ASSUME NEW E \in expect[t]
      PROVE  /\ E = Newest /\ LiveIn(Contexts)
             /\ Load(Sizes, Passed(p) \cup {c}, Zero, Zero) = sum
  <2>1. E = Newest /\ LiveIn(Contexts) /\ p.sum = Load(Sizes, Passed(p), Zero, Zero)
    BY <1>2 DEF Exact
  <2>2. c \notin Passed(p)
    BY <1>1, PassedOn
  <2>3. Load(Sizes, Passed(p) \cup {c}, Zero, Zero)
           = Load(Sizes, Passed(p), Zero, Zero) + Sizes[c]
    BY <1>1, <1>3, <2>2, LoadOfOneMore
  <2>4. QED
    BY <2>1, <2>3
<1>5. c = Shards => Passed(p) \cup {c} = Contexts
  BY <1>1, PassedOn
<1>6. /\ Newest' = Newest /\ Sizes' = Sizes /\ Total' = Total
      /\ LiveIn(Contexts)' <=> LiveIn(Contexts)
  BY <1>2, SameIndex
<1>7. CASE c # Shards
  <2>1. pass'[t] = step
    BY <1>2, <1>7, GoesTo
  <2>2. /\ step.at = "recounting" /\ step.sum = sum /\ step.next = c + 1
    BY <1>1, <1>2 DEF Passes
  <2>3. Passed(step) = Passed(p) \cup {c}
    BY <1>1, <2>2 DEF Passed, Contexts
  <2> HIDE DEF step, sum
  <2>4. pass'[t] # Idle /\ expect' = expect
    BY <1>2, <2>1, <2>2 DEF Idle, Doing
  <2>5. \A E \in expect[t] : E = Newest /\ LiveIn(Contexts)
                             /\ sum = Load(Sizes, Passed(step), Zero, Zero)
    BY <1>4, <2>3
  <2>6. Exact(t)'
    BY <1>6, <2>1, <2>2, <2>4, <2>5 DEF Exact
  <2>7. QED
    BY <2>4, <2>6
<1>8. CASE c = Shards /\ sum > cfg.max
  <2>1. pass'[t] = begin
    BY <1>2, <1>8, GoesTo
  <2>2. /\ begin.at = "collecting" /\ begin.sum = sum - cfg.max /\ begin.found = {}
        /\ begin.next = 1 /\ begin # Idle
    BY DEF Doing, Idle
  <2>3. FoundAll(begin)'
    BY <2>2 DEF FoundAll, Passed, Contexts
  <2>4. PICK q : q = begin
    OBVIOUS
  <2> HIDE DEF begin, sum
  <2>5. expect' = expect
    BY <1>2, <2>1, <2>2
  <2>6. sum - cfg.max > 0 /\ sum = cfg.max + (sum - cfg.max)
    BY <1>1, <1>3, <1>8
  <2>7. \A E \in expect[t] : E = Newest /\ LiveIn(Contexts) /\ Total = sum
    BY <1>3, <1>4, <1>5, <1>8
  <2>8. \A E \in expect'[t] : /\ E = Newest' /\ LiveIn(Contexts)'
                              /\ q.sum > 0 /\ Total' = cfg'.max + q.sum
    BY <1>2, <1>6, <2>2, <2>4, <2>5, <2>6, <2>7
  <2>9. FoundAll(q)'
    BY <1>2, <2>2, <2>4 DEF FoundAll, Passed, Contexts
  <2>10. Exact(t)'
    BY <2>1, <2>2, <2>4, <2>8, <2>9 DEF Exact
  <2>11. QED
    BY <2>1, <2>2, <2>10
<1>9. CASE c = Shards /\ ~(sum > cfg.max)
  <2>1. pass'[t] = Idle
    BY <1>2, <1>9, GoesTo
  <2>2. Exact(t)'
    BY <2>1, ExactAside DEF Idle, Doing
  <2>3. ASSUME NEW E \in expect[t]
        PROVE  E = index'
    <3>1. E = Newest /\ LiveIn(Contexts) /\ Total = sum
      BY <1>3, <1>4, <1>5, <1>9
    <3> HIDE DEF sum
    <3>2. Total <= cfg.max
      BY <1>1, <1>3, <1>9, <3>1
    <3>3. Newest = index
      BY <3>1, <3>2, FewAreKept
    <3>4. QED
      BY <1>2, <3>1, <3>3
  <2>4. QED
    BY <2>2, <2>3
<1>10. QED
  BY <1>7, <1>8, <1>9

\* All is collected, and what is marked is what is not to be kept.
LEMMA CollectExact ==
    ASSUME TypeOK, BucketsInv, FiniteInv, NEW t \in Threads, Gathered(pass[t]), Exact(t),
           Collect(t)
    PROVE  /\ Exact(t)'
           /\ pass'[t] = Idle => \A E \in expect[t] : E = index'
<1> DEFINE p == pass[t]
           c == p.next
           new == {<<c, x, Position(index[c], x)>> : x \in index[c]}
           found == p.found \cup new
           doomed == Marks(found, p.sum)
           going == [p EXCEPT !.found = found]
           remove == [Doing("removing") EXCEPT !.doomed = doomed]
           end == IF doomed = {} THEN Idle ELSE remove
           step == [going EXCEPT !.next = c + 1]
<1>1. /\ p \in Passes /\ c \in Contexts /\ p.sum \in Nat /\ p.at = "collecting"
      /\ Goes(t, going, end) /\ UNCHANGED <<index, now, cfg>>
      /\ expect' = IF pass'[t] = Idle THEN [expect EXCEPT ![t] = {}] ELSE expect
  BY DEF TypeOK, Passes, Collect, Marks, Settle, Ends
<1>2. Candidates(found)
  BY <1>1, ClaimCollects
<1>3. /\ Newest' = Newest /\ Total' = Total
      /\ LiveIn(Contexts)' <=> LiveIn(Contexts)
  BY <1>1, SameIndex
<1>4. \A E \in expect[t] : /\ E = Newest /\ LiveIn(Contexts) /\ p.sum > 0
                           /\ Total = cfg.max + p.sum /\ FoundAll(p)
  BY <1>1 DEF Exact
<1>5. /\ \A q \in new : /\ q[1] = c /\ q[2] \in index[c] /\ q[3] = Position(index[c], q[2])
                        /\ q = <<q[1], q[2], q[3]>>
      /\ \A x \in index[c] : <<c, x, Position(index[c], x)>> \in new
  OBVIOUS
<1> HIDE DEF new
<1>6. ASSUME FoundAll(p)
      PROVE  /\ \A q \in found : /\ q[1] \in Contexts /\ q[2] \in index[q[1]]
                                 /\ q[3] = Position(index[q[1]], q[2])
                                 /\ q = <<q[1], q[2], q[3]>>
             /\ \A d \in Passed(p) \cup {c} : \A x \in index[d] :
                   <<d, x, Position(index[d], x)>> \in found
  <2>1. ASSUME NEW q \in found
        PROVE  /\ q[1] \in Contexts /\ q[2] \in index[q[1]]
               /\ q[3] = Position(index[q[1]], q[2])
               /\ q = <<q[1], q[2], q[3]>>
    BY <1>1, <1>5, <1>6, <2>1 DEF FoundAll
  <2>2. ASSUME NEW d \in Passed(p) \cup {c}, NEW x \in index[d]
        PROVE  <<d, x, Position(index[d], x)>> \in found
    BY <1>5, <1>6 DEF FoundAll
  <2>3. QED
    BY <2>1, <2>2
<1> HIDE DEF found, doomed
<1>7. CASE c # Shards
  <2>1. pass'[t] = step
    BY <1>1, <1>7, GoesTo
  <2>2. step.at = "collecting" /\ step.sum = p.sum /\ step.found = found /\ step.next = c + 1
    BY <1>1 DEF Passes
  <2>3. Passed(step) = Passed(p) \cup {c}
    BY <1>1, <2>2 DEF Passed, Contexts
  <2>4. FoundAll(p) => FoundAll(step)
    BY <1>6, <2>2, <2>3 DEF FoundAll
  <2>5. PICK q : q = step
    OBVIOUS
  <2> HIDE DEF step
  <2>6. pass'[t] # Idle /\ expect' = expect
    BY <1>1, <2>1, <2>2 DEF Idle, Doing
  <2>7. FoundAll(q)' <=> FoundAll(q)
    BY <1>1, SameIndex
  <2>8. \A E \in expect'[t] : /\ E = Newest' /\ LiveIn(Contexts)' /\ q.sum > 0
                              /\ Total' = cfg'.max + q.sum /\ FoundAll(q)'
    BY <1>1, <1>3, <1>4, <2>2, <2>4, <2>5, <2>6, <2>7
  <2>9. Exact(t)'
    BY <2>1, <2>2, <2>5, <2>8 DEF Exact
  <2>10. QED
    BY <2>6, <2>9
<1>8. CASE c = Shards
  <2>1. pass'[t] = end
    BY <1>1, <1>8, GoesTo
  <2>2. Passed(p) \cup {c} = Contexts
    BY <1>1, <1>8, PassedOn
  <2>3. ASSUME NEW E \in expect[t]
        PROVE  doomed # {} /\ E = WithoutMarked(doomed)
    <3>1. /\ E = Newest /\ LiveIn(Contexts) /\ p.sum > 0
          /\ Total = cfg.max + p.sum /\ FoundAll(p)
      BY <1>4
    <3>2. /\ \A q \in found : /\ q[1] \in Contexts /\ q[2] \in index[q[1]]
                              /\ q[3] = Position(index[q[1]], q[2])
                              /\ q = <<q[1], q[2], q[3]>>
          /\ \A d \in Contexts : \A x \in index[d] : <<d, x, Position(index[d], x)>> \in found
      BY <1>6, <2>2, <3>1
    <3>3. /\ doomed # {}
          /\ \A d \in Contexts : Newest[d] = Without(index[d], MarkedIn(doomed, d))
      BY <1>1, <1>2, <3>1, <3>2, MarkedGo DEF doomed
    <3>4. Newest = [d \in Contexts |-> Newest[d]]
      BY NewestIs DEF Parts
    <3>5. QED
      BY <3>1, <3>3, <3>4 DEF WithoutMarked
  <2>4. CASE doomed = {}
    <3>1. expect[t] = {}
      BY <2>3, <2>4
    <3>2. pass'[t] = Idle
      BY <2>1, <2>4
    <3>3. Exact(t)'
      BY <3>2, ExactAside DEF Idle, Doing
    <3>4. QED
      BY <3>1, <3>3
  <2>5. CASE doomed # {}
    <3>1. pass'[t].at = "removing" /\ pass'[t].doomed = doomed /\ pass'[t] # Idle
      BY <2>1, <2>5 DEF Idle, Doing
    <3>2. expect' = expect
      BY <1>1, <3>1
    <3>3. PICK D : D = doomed
      OBVIOUS
    <3>4. WithoutMarked(D)' = WithoutMarked(D)
      BY <1>1, SameIndex
    <3>5. \A E \in expect'[t] : E = WithoutMarked(D)'
      BY <2>3, <3>2, <3>3, <3>4
    <3>6. Exact(t)'
      BY <3>1, <3>3, <3>5 DEF Exact
    <3>7. QED
      BY <3>1, <3>6
  <2>6. QED
    BY <2>4, <2>5
<1>9. QED
  BY <1>7, <1>8

\* What is marked in one bucket goes.
LEMMA RemoveExact ==
    ASSUME TypeOK, NEW t \in Threads, Exact(t), Remove(t)
    PROVE  /\ Exact(t)'
           /\ pass'[t] = Idle => \A E \in expect[t] : E = index'
<1> DEFINE p == pass[t]
<1>1. PICK c \in {d[1] : d \in p.doomed} :
         LET mine == {d \in p.doomed : d[1] = c}
             rest == p.doomed \ mine
         IN  /\ index' = [index EXCEPT ![c] = Without(index[c], {d[2] : d \in mine})]
             /\ pass' = [pass EXCEPT ![t] =
                            IF rest = {} THEN Idle ELSE [p EXCEPT !.doomed = rest]]
             /\ expect' = [u \in Threads |->
                              IF u = t THEN IF rest = {} THEN {} ELSE expect[u]
                              ELSE IF index'[c] = index[c] THEN expect[u] ELSE {}]
  BY Zenon DEF Remove
<1>2. PICK D : D = p.doomed
  OBVIOUS
<1>3. PICK rest : rest = D \ {d \in D : d[1] = c}
  OBVIOUS
<1> DEFINE going == [p EXCEPT !.doomed = rest]
<1>4. p \in Passes /\ p.at = "removing" /\ c \in Contexts /\ D \subseteq Contexts \X Nat
  BY <1>1, <1>2 DEF TypeOK, Passes, Remove
<1>5. /\ index'[c] = Without(index[c], MarkedIn(D, c))
      /\ \A e \in Contexts : e # c => index'[e] = index[e]
      /\ index' = [e \in Contexts |-> index'[e]]
  BY <1>1, <1>2, <1>4 DEF TypeOK, MarkedIn
<1>6. /\ MarkedIn(rest, c) = {}
      /\ \A e : e # c => MarkedIn(rest, e) = MarkedIn(D, e)
  BY <1>3 DEF MarkedIn
<1>7. ASSUME NEW E \in expect[t]
      PROVE  /\ E = [e \in Contexts |-> E[e]]
             /\ \A e \in Contexts : E[e] = Without(index'[e], MarkedIn(rest, e))
  <2>1. E = WithoutMarked(D)
    BY <1>2, <1>4 DEF Exact
  <2>2. E = [e \in Contexts |-> E[e]]
        /\ \A e \in Contexts : E[e] = Without(index[e], MarkedIn(D, e))
    BY <2>1 DEF WithoutMarked
  <2>3. ASSUME NEW e \in Contexts
        PROVE  E[e] = Without(index'[e], MarkedIn(rest, e))
    <3>1. CASE e = c
      <4>1. Without(index'[c], {}) = index'[c]
        BY DEF Without
      <4>2. QED
        BY <1>5, <1>6, <2>2, <3>1, <4>1
    <3>2. CASE e # c
      BY <1>5, <1>6, <2>2, <3>2
    <3>3. QED
      BY <3>1, <3>2
  <2>4. QED
    BY <2>2, <2>3
<1>8. pass'[t] = (IF rest = {} THEN Idle ELSE going)
  BY <1>1, <1>2, <1>3 DEF TypeOK
<1>9. CASE rest = {}
  <2>1. pass'[t] = Idle
    BY <1>8, <1>9
  <2>2. Exact(t)'
    BY <2>1, ExactAside DEF Idle, Doing
  <2>3. ASSUME NEW E \in expect[t]
        PROVE  E = index'
    <3>1. \A e \in Contexts : MarkedIn(rest, e) = {}
      BY <1>9 DEF MarkedIn
    <3>2. \A e \in Contexts : Without(index'[e], {}) = index'[e]
      BY DEF Without
    <3>3. \A e \in Contexts : E[e] = index'[e]
      BY <1>7, <3>1, <3>2
    <3>4. QED
      BY <1>5, <1>7, <3>3
  <2>4. QED
    BY <2>2, <2>3
<1>10. CASE rest # {}
  <2>1. /\ pass'[t] = going /\ going.at = "removing" /\ going.doomed = rest
        /\ expect'[t] = expect[t]
    BY <1>1, <1>2, <1>3, <1>4, <1>8, <1>10 DEF Passes
  <2>2. pass'[t] # Idle
    BY <2>1 DEF Idle, Doing
  <2>3. \A E \in expect'[t] : E = WithoutMarked(rest)'
    BY <1>7, <2>1 DEF WithoutMarked
  <2>4. Exact(t)'
    BY <2>1, <2>3 DEF Exact
  <2>5. QED
    BY <2>2, <2>4
<1>11. QED
  BY <1>9, <1>10

\* A step of t leaves the expectation of another one, or disturbs it.
Undisturbed(t) ==
    \A u \in Threads : u # t =>
        /\ pass'[u] = pass[u]
        /\ expect'[u] \in {{}, expect[u]}
        /\ expect'[u] # {} => UNCHANGED <<index, now, cfg>>

LEMMA ChangeUndisturbed ==
    ASSUME TypeOK, NEW t, NEW c \in Contexts, NEW b, Change(t, c, b), UNCHANGED <<now, cfg>>,
           \A u \in Threads : u # t => pass'[u] = pass[u]
    PROVE  Undisturbed(t)
<1> SUFFICES ASSUME NEW u \in Threads, u # t
             PROVE  /\ expect'[u] \in {{}, expect[u]}
                    /\ expect'[u] # {} => UNCHANGED <<index, now, cfg>>
  BY DEF Undisturbed
<1>1. /\ index' = [index EXCEPT ![c] = b]
      /\ expect'[u] = IF b = index[c] THEN expect[u] ELSE {}
  BY DEF Change
<1>2. b = index[c] => index' = index
  BY <1>1 DEF TypeOK
<1>3. QED
  BY <1>1, <1>2

LEMMA StepUndisturbed ==
    ASSUME TypeOK, NEW t \in Threads,
           \/ \E c \in Contexts : Push(t, c) \/ Delete(t, c)
           \/ Insert(t) \/ BeginClear(t) \/ Clear(t) \/ BeginSave(t) \/ Save(t)
    PROVE  Undisturbed(t)
<1>1. pass[t].next \in Contexts
  BY DEF TypeOK, Passes
<1>2. ASSUME NEW c \in Contexts, Push(t, c)
      PROVE  Undisturbed(t)
  <2>1. /\ \E b : Change(t, c, b)
        /\ UNCHANGED <<now, cfg>>
    BY <1>2 DEF Push
  <2>2. \A u \in Threads : u # t => pass'[u] = pass[u]
    BY <1>2 DEF Push, TypeOK
  <2>3. QED
    BY <2>1, <2>2, ChangeUndisturbed
<1>3. ASSUME NEW c \in Contexts, Delete(t, c)
      PROVE  Undisturbed(t)
  <2>1. /\ \E b : Change(t, c, b)
        /\ UNCHANGED <<now, cfg, pass>>
    BY <1>3 DEF Delete
  <2>2. QED
    BY <2>1, ChangeUndisturbed
<1>4. ASSUME Expire(t) \/ Clear(t)
      PROVE  Undisturbed(t)
  <2>1. /\ \E b : Change(t, pass[t].next, b)
        /\ \E end : Goes(t, pass[t], end)
        /\ UNCHANGED <<now, cfg>>
    BY <1>4 DEF Expire, Clear
  <2>2. \A u \in Threads : u # t => pass'[u] = pass[u]
    BY <2>1, GoesTo
  <2>3. QED
    BY <1>1, <2>1, <2>2, ChangeUndisturbed
<1>5. ASSUME Count(t) \/ Recount(t) \/ Collect(t)
      PROVE  Undisturbed(t)
  <2>1. \E going, end : Goes(t, going, end)
    BY <1>5, Zenon DEF Count, Recount, Collect
  <2>2. \A u \in Threads : u # t => pass'[u] = pass[u]
    BY <2>1, GoesTo
  <2>3. UNCHANGED <<index, now, cfg>>
    BY <1>5 DEF Count, Recount, Collect
  <2>4. expect' = expect \/ \E e : expect' = [expect EXCEPT ![t] = e]
    BY <1>5, Zenon DEF Count, Recount, Collect, Settle
  <2>5. \A u \in Threads : u # t => expect'[u] = expect[u]
    BY <2>4 DEF TypeOK
  <2>6. QED
    BY <2>2, <2>3, <2>5 DEF Undisturbed
<1>6. ASSUME Remove(t)
      PROVE  Undisturbed(t)
  <2>1. PICK c \in {d[1] : d \in pass[t].doomed} :
           LET mine == {d \in pass[t].doomed : d[1] = c}
               rest == pass[t].doomed \ mine
           IN  /\ index' = [index EXCEPT ![c] = Without(index[c], {d[2] : d \in mine})]
               /\ expect' = [u \in Threads |->
                                IF u = t THEN IF rest = {} THEN {} ELSE expect[u]
                                ELSE IF index'[c] = index[c] THEN expect[u] ELSE {}]
    BY <1>6, Zenon DEF Remove
  <2>2. PICK b : index' = [index EXCEPT ![c] = b]
    BY <2>1
  <2>3. index'[c] = index[c] => index' = index
    BY <2>2 DEF TypeOK
  <2>4. ASSUME NEW u \in Threads, u # t
        PROVE  expect'[u] = IF index'[c] = index[c] THEN expect[u] ELSE {}
    BY <2>1, <2>4
  <2>5. /\ UNCHANGED <<now, cfg>>
        /\ \A u \in Threads : u # t => pass'[u] = pass[u]
    BY <1>6, InsertFrame DEF Remove, Insert
  <2>6. QED
    BY <2>3, <2>4, <2>5 DEF Undisturbed
<1>7. ASSUME BeginClear(t) \/ BeginSave(t)
      PROVE  Undisturbed(t)
  BY <1>7 DEF BeginClear, BeginSave, Undisturbed, TypeOK
<1>8. ASSUME Save(t)
      PROVE  Undisturbed(t)
  <2>1. (\E going, end : Goes(t, going, end)) /\ UNCHANGED <<index, now, cfg, expect>>
    BY <1>8, Zenon DEF Save
  <2>2. \A u \in Threads : u # t => pass'[u] = pass[u]
    BY <2>1, GoesTo
  <2>3. QED
    BY <2>1, <2>2 DEF Undisturbed
<1>9. QED
  BY <1>2, <1>3, <1>4, <1>5, <1>6, <1>7, <1>8 DEF Insert

Evicting == {"expiring", "recounting", "collecting", "removing"}

\* What a step of t itself comes to, and where its insert may end.
LEMMA OwnExact ==
    ASSUME SoundInv, SoundInv', CapInv, ExactInv, NEW t \in Threads,
           \/ \E c \in Contexts : Push(t, c) \/ Delete(t, c)
           \/ Insert(t) \/ BeginClear(t) \/ Clear(t) \/ BeginSave(t) \/ Save(t)
    PROVE  /\ Exact(t)'
           /\ pass[t].at \in {"recounting", "collecting", "removing"} /\ pass'[t] = Idle =>
                 \A E \in expect[t] : E = index'
<1>1. /\ TypeOK /\ BucketsInv /\ FiniteInv /\ FiniteInv' /\ Gathered(pass[t]) /\ Exact(t)
      /\ pass[t] \in Passes
  BY SoundType DEF SoundInv, BucketsInv, Sound, FilesInv, FiniteInv, CapInv, GatheredInv,
     ExactInv, TypeOK
<1>2. ASSUME \/ \E c \in Contexts : Push(t, c) \/ Delete(t, c)
             \/ BeginClear(t) \/ BeginSave(t)
      PROVE  /\ pass[t].at \notin Evicting
             /\ pass'[t].at \notin Evicting
  <2>1. /\ pass[t] = Idle
        /\ pass'[t] \in {Idle, Doing("counting"), Doing("clearing"), Doing("saving")}
    BY <1>1, <1>2 DEF Push, Delete, BeginClear, BeginSave, TypeOK
  <2>2. QED
    BY <2>1 DEF Idle, Doing, Evicting
<1>3. ASSUME Clear(t) \/ Save(t)
      PROVE  /\ pass[t].at \notin Evicting
             /\ pass'[t].at \notin Evicting
  <2>1. pass[t].at \in {"clearing", "saving"}
    BY <1>3 DEF Clear, Save
  <2>2. PICK going \in {pass[t]} \cup {[pass[t] EXCEPT !.copy = x] : x \in {SaveCopy(t)}} :
           Goes(t, going, Idle)
    BY <1>3, Zenon DEF Clear, Save, SaveCopy
  <2>3. [going EXCEPT !.next = pass[t].next + 1].at = pass[t].at
    BY <1>1, <2>2 DEF Passes
  <2>4. pass'[t].at \in {"idle", "clearing", "saving"}
    <3>1. pass'[t] = Idle \/ pass'[t] = [going EXCEPT !.next = pass[t].next + 1]
      BY <1>1, <2>2, GoesTo
    <3>2. Idle.at = "idle"
      BY DEF Idle, Doing
    <3>3. QED
      BY <2>1, <2>3, <3>1, <3>2
  <2>5. QED
    BY <2>1, <2>4 DEF Evicting
<1>4. ASSUME pass[t].at \notin Evicting, pass'[t].at \notin Evicting
      PROVE  /\ Exact(t)'
             /\ pass[t].at \notin {"recounting", "collecting", "removing"}
  BY <1>4, ExactAside DEF Evicting
<1>5. CASE Count(t)
  <2>1. Exact(t)' /\ pass[t].at = "counting"
    BY <1>1, <1>5, CountExact DEF Count
  <2>2. QED
    BY <2>1
<1>6. CASE Expire(t)
  <2>1. Sizes' \in Amounts
    BY <1>1, <1>6, InsertFrame, SmallerSizes DEF Insert
  <2>2. Exact(t)' /\ pass[t].at = "expiring"
    BY <1>1, <1>6, <2>1, ExpireExact DEF Expire
  <2>3. QED
    BY <2>2
<1>7. CASE Recount(t)
  BY <1>1, <1>7, RecountExact
<1>8. CASE Collect(t)
  BY <1>1, <1>8, CollectExact
<1>9. CASE Remove(t)
  BY <1>1, <1>9, RemoveExact
<1>10. QED
  BY <1>2, <1>3, <1>4, <1>5, <1>6, <1>7, <1>8, <1>9 DEF Insert

EvictionsEnd ==
    \A t \in Threads :
        (/\ pass[t].at \in {"recounting", "collecting", "removing"}
         /\ pass'[t] = Idle
         /\ restarts' = restarts) => expect[t] \subseteq {index'}

LEMMA ExactStep ==
    ASSUME SoundInv, SoundInv', CapInv, ExactInv, [Next]_vars
    PROVE  ExactInv' /\ (EvictionsEnd \/ UNCHANGED vars)
<1>1. TypeOK
  BY DEF SoundInv
<1>2. ASSUME NEW t \in Threads,
             \/ \E c \in Contexts : Push(t, c) \/ Delete(t, c)
             \/ Insert(t) \/ BeginClear(t) \/ Clear(t) \/ BeginSave(t) \/ Save(t)
      PROVE  ExactInv' /\ EvictionsEnd
  <2>1. Undisturbed(t)
    BY <1>1, <1>2, StepUndisturbed
  <2>2. /\ Exact(t)'
        /\ pass[t].at \in {"recounting", "collecting", "removing"} /\ pass'[t] = Idle =>
              \A E \in expect[t] : E = index'
    BY <1>2, OwnExact
  <2>3. ASSUME NEW u \in Threads, u # t
        PROVE  Exact(u)' /\ pass'[u] = pass[u]
    <3>1. /\ pass'[u] = pass[u]
          /\ expect'[u] \in {{}, expect[u]}
          /\ expect'[u] # {} => UNCHANGED <<index, now, cfg>>
      BY <2>1, <2>3 DEF Undisturbed
    <3>2. Exact(u)
      BY DEF ExactInv
    <3>3. QED
      BY <3>1, <3>2, ExactKept
  <2>4. ExactInv'
    BY <2>2, <2>3 DEF ExactInv
  <2>5. \A u \in Threads : pass[u].at \in {"recounting", "collecting", "removing"}
                           /\ pass'[u] = Idle => u = t
    BY <2>3 DEF Idle, Doing
  <2>6. EvictionsEnd
    BY <2>2, <2>5 DEF EvictionsEnd
  <2>7. QED
    BY <2>4, <2>6
<1>3. ASSUME NEW c \in Configs, NEW d \in ClockSteps, Restart(c, d)
      PROVE  ExactInv' /\ EvictionsEnd
  <2>1. \A u \in Threads : expect'[u] = {}
    BY <1>3 DEF Restart
  <2>2. restarts' = restarts + 1 /\ restarts \in Nat
    BY <1>1, <1>3 DEF Restart, TypeOK
  <2>3. restarts' # restarts
    BY <2>2
  <2>4. QED
    BY <2>1, <2>3 DEF ExactInv, Exact, EvictionsEnd
<1>4. ASSUME Tick
      PROVE  ExactInv' /\ EvictionsEnd
  <2>1. (\A u \in Threads : expect'[u] = {}) /\ pass' = pass
    BY <1>4 DEF Tick
  <2>2. QED
    BY <2>1 DEF ExactInv, Exact, EvictionsEnd, Idle, Doing
<1>5. ASSUME UNCHANGED vars
      PROVE  ExactInv'
  <2>1. UNCHANGED <<index, now, cfg, pass, expect>>
    BY <1>5 DEF vars
  <2>2. QED
    BY <2>1, ExactKept DEF ExactInv
<1>6. QED
  BY <1>2, <1>3, <1>4, <1>5 DEF Next

\* When an eviction of the whole index has not been disturbed, by a change of another
\* thread or by the clock, it leaves exactly the newest of the items that had not
\* expired when it began: evict_global, which removes bucket by bucket at positions it
\* has sorted by age, takes the oldest of all buckets and as many as needed.
THEOREM OldestGo == Spec => EvictsOldest
<1>1. Init => ExactInv
  BY DEF Init, ExactInv, Exact
<1>2. SoundInv /\ CapInv /\ [Next]_vars => SoundInv' /\ CapInv'
  BY SoundStep, CapStep
<1>3. SoundInv /\ SoundInv' /\ CapInv /\ ExactInv /\ [Next]_vars =>
         ExactInv' /\ [EvictionsEnd]_vars
  BY ExactStep
<1>4. Spec => [][EvictionsEnd]_vars
  BY <1>1, <1>2, <1>3, SoundInit, CapInit, PTL DEF Spec
<1>5. QED
  BY <1>4 DEF EvictsOldest, EvictionsEnd

===============================================================================
