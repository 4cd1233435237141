----------------------------- MODULE LocksProofs -----------------------------
(* Theorems about the locks, for every set of threads and every number of   *)
(* shards of the index: no set of operations deadlocks, as long as none of  *)
(* them is the insert into the semantic index.                              *)
EXTENDS Locks, SequenceTheorems, WellFoundedInduction, TLAPS

-------------------------------------------------------------------------------
(* The order of the locks, and what it is for a script to keep to it.      *)

\* A lock is taken only by a thread that holds none of the same rank or above.
Rank(l) == IF l[1] = "exact" THEN 0 ELSE IF l[1] = "index" THEN l[2] ELSE Shards + 1

Instruction == [act : {"read", "write", "release"}, lock : LockNames]

Scripts == Seq(Instruction)

Takes(i) == i.act \in Modes

\* The lock that step k takes is held when step i comes, k < i.
HeldOver(s, k, i) == Takes(s[k]) /\ \A j \in k + 1 .. i - 1 : s[j] # Release(s[k].lock)

\* What s takes it releases later, but for the locks L.
Open(s, L) ==
    \A k \in 1 .. Len(s) : Takes(s[k]) =>
        s[k].lock \in L \/ \E j \in k + 1 .. Len(s) : s[j] = Release(s[k].lock)

Ordered(s) ==
    \A k, i \in 1 .. Len(s) : k < i /\ HeldOver(s, k, i) /\ Takes(s[i]) =>
        Rank(s[k].lock) < Rank(s[i].lock)

\* What s takes has a higher rank than the locks L.
Above(s, L) == \A i \in 1 .. Len(s) : Takes(s[i]) => \A l \in L : Rank(l) < Rank(s[i].lock)

LEMMA Ranks ==
    /\ Exact \in LockNames /\ Persist \in LockNames /\ Tenants \in LockNames
    /\ Rank(Exact) = 0 /\ Rank(Tenants) = Shards + 1 /\ Rank(Persist) = Shards + 1
    /\ \A i \in 1 .. Shards : Index(i) \in LockNames /\ Rank(Index(i)) = i
    /\ \A l \in LockNames : Rank(l) \in 0 .. Shards + 1
BY ShardsAssumption DEF LockNames, Rank, Exact, Persist, Tenants, Index

LEMMA Instructions ==
    ASSUME NEW l \in LockNames
    PROVE  /\ Read(l) \in Instruction /\ Takes(Read(l)) /\ Read(l).lock = l
           /\ Write(l) \in Instruction /\ Takes(Write(l)) /\ Write(l).lock = l
           /\ Release(l) \in Instruction /\ ~Takes(Release(l))
BY DEF Read, Write, Release, Do, Instruction, Takes, Modes

-------------------------------------------------------------------------------
(* Scripts one after the other.                                            *)

LEMMA Joined ==
    ASSUME NEW s \in Scripts, NEW r \in Scripts
    PROVE  /\ s \o r \in Scripts
           /\ Len(s \o r) = Len(s) + Len(r) /\ Len(s) \in Nat /\ Len(r) \in Nat
           /\ \A i \in 1 .. Len(s) : (s \o r)[i] = s[i]
           /\ \A i \in 1 .. Len(r) : (s \o r)[Len(s) + i] = r[i]
           /\ \A i \in 1 .. Len(s \o r) : i > Len(s) => i - Len(s) \in 1 .. Len(r)
                                          /\ (s \o r)[i] = r[i - Len(s)]
BY DEF Scripts

LEMMA JoinedOpen ==
    ASSUME NEW s \in Scripts, NEW r \in Scripts, NEW L, NEW M, Open(s, L), Open(r, M)
    PROVE  Open(s \o r, L \cup M)
<1> DEFINE q == s \o r
<1>0. /\ Len(q) = Len(s) + Len(r) /\ Len(s) \in Nat /\ Len(r) \in Nat
      /\ \A i \in 1 .. Len(s) : q[i] = s[i]
      /\ \A i \in 1 .. Len(r) : q[Len(s) + i] = r[i]
      /\ \A i \in 1 .. Len(q) : i > Len(s) => i - Len(s) \in 1 .. Len(r)
                                /\ q[i] = r[i - Len(s)]
  BY Joined
<1> SUFFICES ASSUME NEW k \in 1 .. Len(q), Takes(q[k]), q[k].lock \notin L \cup M
             PROVE  \E j \in k + 1 .. Len(q) : q[j] = Release(q[k].lock)
  BY DEF Open
<1> HIDE DEF q
<1>1. CASE k <= Len(s)
  <2>1. k \in 1 .. Len(s) /\ q[k] = s[k]
    BY <1>1, <1>0
  <2>2. PICK j \in k + 1 .. Len(s) : s[j] = Release(s[k].lock)
    BY <2>1 DEF Open
  <2>3. q[j] = s[j] /\ j \in k + 1 .. Len(q)
    BY <2>1, <2>2, <1>0
  <2>4. QED
    BY <2>1, <2>2, <2>3
<1>2. CASE k > Len(s)
  <2>1. k - Len(s) \in 1 .. Len(r) /\ q[k] = r[k - Len(s)]
    BY <1>2, <1>0
  <2>2. PICK j \in k - Len(s) + 1 .. Len(r) : r[j] = Release(q[k].lock)
    BY <2>1 DEF Open
  <2>3. q[Len(s) + j] = r[j] /\ Len(s) + j \in k + 1 .. Len(q)
    BY <2>1, <2>2, <1>0
  <2>4. QED
    BY <2>2, <2>3
<1>3. QED
  BY <1>1, <1>2, <1>0

\* What is left open is closed.
LEMMA Closed ==
    ASSUME NEW s \in Scripts, NEW l \in LockNames, Open(s, {l})
    PROVE  Open(s \o <<Release(l)>>, {})
<1> DEFINE r == <<Release(l)>>
           q == s \o r
<1>1. r \in Scripts /\ Len(r) = 1 /\ r[1] = Release(l)
  BY Instructions DEF Scripts
<1> HIDE DEF r
<1>2. /\ Len(q) = Len(s) + 1 /\ Len(s) \in Nat /\ q[Len(s) + 1] = Release(l)
      /\ \A i \in 1 .. Len(s) : q[i] = s[i]
  <2>1. /\ Len(q) = Len(s) + Len(r) /\ Len(s) \in Nat
        /\ \A i \in 1 .. Len(s) : q[i] = s[i]
        /\ \A i \in 1 .. Len(r) : q[Len(s) + i] = r[i]
    BY <1>1, Joined
  <2> HIDE DEF q
  <2>2. QED
    BY <1>1, <2>1
<1> HIDE DEF q
<1>3. ASSUME NEW k \in 1 .. Len(q), Takes(q[k])
      PROVE  \E j \in k + 1 .. Len(q) : q[j] = Release(q[k].lock)
  <2>1. k # Len(s) + 1
    BY <1>2, <1>3, Instructions
  <2>2. k \in 1 .. Len(s) /\ q[k] = s[k]
    BY <1>2, <2>1
  <2>3. CASE s[k].lock = l
    BY <1>2, <2>2, <2>3
  <2>4. CASE s[k].lock # l
    <3>1. PICK j \in k + 1 .. Len(s) : s[j] = Release(s[k].lock)
      BY <1>3, <2>2, <2>4 DEF Open
    <3>2. j \in k + 1 .. Len(q) /\ q[j] = s[j]
      BY <1>2, <2>2, <3>1
    <3>3. QED
      BY <2>2, <3>1, <3>2
  <2>5. QED
    BY <2>3, <2>4
<1>4. QED
  BY <1>3 DEF Open, q, r

LEMMA JoinedOrdered ==
    ASSUME NEW s \in Scripts, NEW r \in Scripts, NEW L,
           Ordered(s), Ordered(r), Open(s, L), Above(r, L)
    PROVE  Ordered(s \o r)
<1> DEFINE q == s \o r
<1>0. /\ Len(q) = Len(s) + Len(r) /\ Len(s) \in Nat /\ Len(r) \in Nat
      /\ \A i \in 1 .. Len(s) : q[i] = s[i]
      /\ \A i \in 1 .. Len(r) : q[Len(s) + i] = r[i]
      /\ \A i \in 1 .. Len(q) : i > Len(s) => i - Len(s) \in 1 .. Len(r)
                                /\ q[i] = r[i - Len(s)]
  BY Joined
<1> SUFFICES ASSUME NEW k \in 1 .. Len(q), NEW i \in 1 .. Len(q), k < i, HeldOver(q, k, i),
                    Takes(q[i])
             PROVE  Rank(q[k].lock) < Rank(q[i].lock)
  BY DEF Ordered
<1> HIDE DEF q
<1>1. CASE i <= Len(s)
  <2>1. /\ k \in 1 .. Len(s) /\ i \in 1 .. Len(s) /\ q[k] = s[k] /\ q[i] = s[i]
        /\ \A j \in k + 1 .. i - 1 : q[j] = s[j]
    <3>1. k \in 1 .. Len(s) /\ i \in 1 .. Len(s)
      BY <1>1, <1>0
    <3>2. q[k] = s[k] /\ q[i] = s[i]
      BY <1>0, <3>1
    <3>3. \A j \in k + 1 .. i - 1 : j \in 1 .. Len(s)
      BY <1>0, <3>1
    <3>4. QED
      BY <1>0, <3>1, <3>2, <3>3
  <2>2. HeldOver(s, k, i)
    BY <2>1 DEF HeldOver
  <2>3. QED
    BY <2>1, <2>2 DEF Ordered
<1>2. CASE k <= Len(s) /\ i > Len(s)
  <2>1. /\ k \in 1 .. Len(s) /\ q[k] = s[k]
        /\ i - Len(s) \in 1 .. Len(r) /\ q[i] = r[i - Len(s)]
        /\ \A j \in k + 1 .. Len(s) : q[j] = s[j] /\ j \in k + 1 .. i - 1
    BY <1>2, <1>0
  <2>2. s[k].lock \in L
    BY <2>1 DEF Open, HeldOver
  <2>3. QED
    BY <2>1, <2>2 DEF Above
<1>3. CASE k > Len(s)
  <2> DEFINE m == k - Len(s)
             n == i - Len(s)
  <2>1. /\ m \in 1 .. Len(r) /\ q[k] = r[m] /\ n \in 1 .. Len(r) /\ q[i] = r[n]
        /\ m < n /\ Len(s) \in Nat
    BY <1>3, <1>0
  <2>2. \A j \in m + 1 .. n - 1 : q[Len(s) + j] = r[j] /\ Len(s) + j \in k + 1 .. i - 1
    BY <2>1, <1>0
  <2>3. HeldOver(r, m, n)
    BY <2>1, <2>2 DEF HeldOver
  <2>4. QED
    BY <2>1, <2>3 DEF Ordered
<1>4. QED
  BY <1>1, <1>2, <1>3, <1>0

LEMMA JoinedAbove ==
    ASSUME NEW s \in Scripts, NEW r \in Scripts, NEW L, Above(s, L), Above(r, L)
    PROVE  Above(s \o r, L)
<1> DEFINE q == s \o r
<1>0. /\ Len(q) = Len(s) + Len(r) /\ Len(s) \in Nat /\ Len(r) \in Nat
      /\ \A i \in 1 .. Len(s) : q[i] = s[i]
      /\ \A i \in 1 .. Len(r) : q[Len(s) + i] = r[i]
      /\ \A i \in 1 .. Len(q) : i > Len(s) => i - Len(s) \in 1 .. Len(r)
                                /\ q[i] = r[i - Len(s)]
  BY Joined
<1> SUFFICES ASSUME NEW i \in 1 .. Len(q), Takes(q[i]), NEW l \in L
             PROVE  Rank(l) < Rank(q[i].lock)
  BY DEF Above
<1> HIDE DEF q
<1>1. CASE i <= Len(s)
  <2>1. i \in 1 .. Len(s) /\ q[i] = s[i]
    BY <1>1, <1>0
  <2>2. QED
    BY <2>1 DEF Above
<1>2. CASE i > Len(s)
  <2>1. i - Len(s) \in 1 .. Len(r) /\ q[i] = r[i - Len(s)]
    BY <1>2, <1>0
  <2>2. QED
    BY <2>1 DEF Above
<1>3. QED
  BY <1>1, <1>2, <1>0

-------------------------------------------------------------------------------
(* Orderly scripts.                                                        *)

\* A script that keeps to the order and leaves at most the locks L open.
Orderly(s, L) == s \in Scripts /\ Open(s, L) /\ Ordered(s)

Taken(s) == Len(s) > 0

\* After a script that leaves nothing open anything may come.
LEMMA Next1 ==
    ASSUME NEW s, Orderly(s, {}), NEW r, NEW L, Orderly(r, L)
    PROVE  Orderly(s \o r, L) /\ (Taken(s) \/ Taken(r) => Taken(s \o r))
<1>1. s \in Scripts /\ r \in Scripts /\ Open(s, {}) /\ Open(r, L) /\ Ordered(s) /\ Ordered(r)
  BY DEF Orderly
<1>2. Open(s \o r, {} \cup L) /\ {} \cup L = L
  BY <1>1, JoinedOpen
<1>3. Above(r, {})
  BY DEF Above
<1>4. Ordered(s \o r)
  BY <1>1, <1>3, JoinedOrdered
<1>5. s \o r \in Scripts /\ Len(s \o r) = Len(s) + Len(r) /\ Len(s) \in Nat /\ Len(r) \in Nat
  BY <1>1, Joined
<1>6. QED
  BY <1>2, <1>4, <1>5 DEF Orderly, Taken

\* Under a lock, what ranks above it.
LEMMA Under ==
    ASSUME NEW s, NEW l \in LockNames, Orderly(s, {l}), NEW r, Orderly(r, {}), Above(r, {l})
    PROVE  Orderly(s \o r, {l}) /\ (Taken(s) \/ Taken(r) => Taken(s \o r))
<1>1. s \in Scripts /\ r \in Scripts /\ Open(s, {l}) /\ Open(r, {}) /\ Ordered(s) /\ Ordered(r)
  BY DEF Orderly
<1>2. Open(s \o r, {l} \cup {}) /\ {l} \cup {} = {l}
  BY <1>1, JoinedOpen
<1>3. Ordered(s \o r)
  BY <1>1, JoinedOrdered
<1>4. s \o r \in Scripts /\ Len(s \o r) = Len(s) + Len(r) /\ Len(s) \in Nat /\ Len(r) \in Nat
  BY <1>1, Joined
<1>5. QED
  BY <1>2, <1>3, <1>4 DEF Orderly, Taken

LEMMA Close ==
    ASSUME NEW s, NEW l \in LockNames, Orderly(s, {l})
    PROVE  Orderly(s \o <<Release(l)>>, {}) /\ Taken(s \o <<Release(l)>>)
<1> DEFINE r == <<Release(l)>>
<1>1. s \in Scripts /\ Open(s, {l}) /\ Ordered(s)
  BY DEF Orderly
<1>2. r \in Scripts /\ Len(r) = 1 /\ ~Takes(r[1])
  BY Instructions DEF Scripts
<1>3. Open(s \o r, {})
  BY <1>1, Closed
<1> HIDE DEF r
<1>4. Ordered(r) /\ Above(r, {l})
  BY <1>2 DEF Ordered, Above
<1>5. Ordered(s \o r)
  BY <1>1, <1>2, <1>4, JoinedOrdered
<1>6. s \o r \in Scripts /\ Len(s \o r) = Len(s) + Len(r) /\ Len(s) \in Nat
  BY <1>1, <1>2, Joined
<1>7. QED
  BY <1>2, <1>3, <1>5, <1>6 DEF Orderly, Taken, r

LEMMA Nothing == Orderly(<<>>, {}) /\ \A L : Above(<<>>, L)
BY DEF Orderly, Scripts, Open, Ordered, Above

LEMMA Take ==
    ASSUME NEW l \in LockNames
    PROVE  Orderly(<<Read(l)>>, {l}) /\ Orderly(<<Write(l)>>, {l})
<1>1. ASSUME NEW i \in Instruction, i.lock = l
      PROVE  Orderly(<<i>>, {l})
  <2> DEFINE s == <<i>>
  <2>1. s \in Scripts /\ Len(s) = 1 /\ s[1] = i
    BY DEF Scripts
  <2> HIDE DEF s
  <2>2. Open(s, {l}) /\ Ordered(s)
    BY <1>1, <2>1 DEF Open, Ordered
  <2>3. QED
    BY <2>1, <2>2 DEF Orderly, s
<1>2. QED
  BY <1>1, Instructions

\* The guard of a statement.
LEMMA Statement ==
    ASSUME NEW l \in LockNames, NEW s, s = Reading(l) \/ s = Writing(l)
    PROVE  /\ Orderly(s, {}) /\ Taken(s)
           /\ \A L : (\A k \in L : Rank(k) < Rank(l)) => Above(s, L)
<1>1. PICK i \in Instruction : i.lock = l /\ s = <<i, Release(l)>>
  BY Instructions DEF Reading, Writing
<1>2. s \in Scripts /\ Len(s) = 2 /\ s[1] = i /\ s[2] = Release(l) /\ ~Takes(s[2])
  BY <1>1, Instructions DEF Scripts
<1>3. Open(s, {}) /\ Ordered(s)
  BY <1>1, <1>2 DEF Open, Ordered
<1>4. ASSUME NEW L, \A k \in L : Rank(k) < Rank(l)
      PROVE  Above(s, L)
  BY <1>1, <1>2, <1>4 DEF Above
<1>5. QED
  BY <1>2, <1>3, <1>4 DEF Orderly, Taken

-------------------------------------------------------------------------------
(* Passes over the index.                                                  *)

\* A pass takes the shards in order, and gives each one up later.
LEMMA Pass ==
    ASSUME NEW s \in Scripts,
           \A k \in 1 .. Len(s) : Takes(s[k]) =>
               \E i \in 1 .. Shards :
                  s[k].lock = Index(i) /\ \E j \in k + 1 .. Len(s) : s[j] = Release(Index(i)),
           \A k, m \in 1 .. Len(s) : k < m /\ Takes(s[k]) /\ Takes(s[m]) =>
               Rank(s[k].lock) < Rank(s[m].lock)
    PROVE  Orderly(s, {}) /\ Above(s, {Exact})
<1>1. Open(s, {})
  BY DEF Open
<1>2. Ordered(s)
  BY DEF Ordered, HeldOver
<1>3. Above(s, {Exact})
  BY Ranks DEF Above
<1>4. QED
  BY <1>1, <1>2, <1>3 DEF Orderly

LEMMA Halves ==
    \A j \in 1 .. 2 * Shards :
        /\ j % 2 = 0 => j = 2 * (j \div 2) /\ j \div 2 \in 1 .. Shards
        /\ j % 2 # 0 => j = 2 * (j \div 2) + 1 /\ j \div 2 \in 0 .. Shards - 1 /\ j % 2 = 1
BY ShardsAssumption

LEMMA IteratingPass ==
    ASSUME NEW mode \in Modes
    PROVE  /\ Orderly(Iterating(mode), {}) /\ Taken(Iterating(mode))
           /\ Above(Iterating(mode), {Exact})
<1> DEFINE s == Iterating(mode)
<1>1. Shards \in Nat /\ Shards >= 1 /\ 2 * Shards \in Nat
  BY ShardsAssumption
<1>2. \A i \in 1 .. Shards :
         /\ Do(mode, Index(i)) \in Instruction /\ Takes(Do(mode, Index(i)))
         /\ Do(mode, Index(i)).lock = Index(i)
         /\ Release(Index(i)) \in Instruction /\ ~Takes(Release(Index(i)))
  BY Ranks, Instructions DEF Do, Instruction, Takes, Modes
<1>3. /\ DOMAIN s = 1 .. 2 * Shards
      /\ s[1] = Do(mode, Index(1))
      /\ s[2 * Shards] = Release(Index(Shards))
      /\ \A i \in 1 .. Shards - 1 : s[2 * i] = Do(mode, Index(i + 1))
                                    /\ s[2 * i + 1] = Release(Index(i))
  BY <1>1 DEF Iterating
<1>4. \A j \in 1 .. 2 * Shards :
         \/ j = 1 \/ j = 2 * Shards
         \/ \E i \in 1 .. Shards - 1 : j = 2 * i \/ j = 2 * i + 1
  <2> SUFFICES ASSUME NEW j \in 1 .. 2 * Shards, j # 1, j # 2 * Shards
               PROVE  \E i \in 1 .. Shards - 1 : j = 2 * i \/ j = 2 * i + 1
    OBVIOUS
  <2> DEFINE i == j \div 2
  <2>1. (j = 2 * i \/ j = 2 * i + 1) /\ i \in 0 .. Shards
    BY <1>1, Halves
  <2> HIDE DEF i
  <2>2. i \in 1 .. Shards - 1
    BY <1>1, <2>1
  <2>3. QED
    BY <2>1, <2>2
<1> HIDE DEF s
<1>5. \A j \in 1 .. 2 * Shards : s[j] \in Instruction
  <2> SUFFICES ASSUME NEW j \in 1 .. 2 * Shards
               PROVE  s[j] \in Instruction
    OBVIOUS
  <2>1. 1 \in 1 .. Shards /\ Shards \in 1 .. Shards
    BY <1>1
  <2>2. \A i \in 1 .. Shards - 1 : i + 1 \in 1 .. Shards /\ i \in 1 .. Shards
    BY <1>1
  <2>3. CASE j = 1 \/ j = 2 * Shards
    BY <1>2, <1>3, <2>1, <2>3
  <2>4. CASE \E i \in 1 .. Shards - 1 : j = 2 * i \/ j = 2 * i + 1
    BY <1>2, <1>3, <2>2, <2>4
  <2>5. QED
    BY <1>4, <2>3, <2>4
<1>6. s \in Scripts /\ Len(s) = 2 * Shards
  <2>1. s = [j \in 1 .. 2 * Shards |-> s[j]]
    BY DEF s, Iterating
  <2>2. QED
    BY <1>1, <1>5, <2>1 DEF Scripts
\* Takes of shard i are at 1 or 2 (i - 1).
<1>7. \A k \in 1 .. Len(s) : Takes(s[k]) =>
         \E i \in 1 .. Shards : s[k].lock = Index(i) /\ (k = 2 * (i - 1) \/ (k = 1 /\ i = 1))
  <2> SUFFICES ASSUME NEW k \in 1 .. Len(s), Takes(s[k])
               PROVE  \E i \in 1 .. Shards :
                         s[k].lock = Index(i) /\ (k = 2 * (i - 1) \/ (k = 1 /\ i = 1))
    OBVIOUS
  <2>1. /\ 1 \in 1 .. Shards /\ Shards \in 1 .. Shards
        /\ s[1] = Do(mode, Index(1)) /\ s[2 * Shards] = Release(Index(Shards))
    BY <1>1, <1>3
  <2>2. CASE k = 1
    <3>1. s[k].lock = Index(1)
      BY <1>2, <2>1, <2>2
    <3>2. QED
      BY <2>1, <2>2, <3>1
  <2>3. CASE k # 1
    <3>1. ~Takes(s[2 * Shards])
      BY <1>2, <2>1
    <3>2. k # 2 * Shards
      BY <3>1
    <3>3. PICK i \in 1 .. Shards - 1 : k = 2 * i \/ k = 2 * i + 1
      BY <1>4, <1>6, <2>3, <3>2
    <3>4. i \in 1 .. Shards /\ i + 1 \in 1 .. Shards /\ i \in Nat
      BY <1>1
    <3>5. ~Takes(s[2 * i + 1]) /\ s[2 * i].lock = Index(i + 1)
      BY <1>2, <1>3, <3>4
    <3>6. k = 2 * i /\ s[k].lock = Index(i + 1)
      BY <3>3, <3>5
    <3>7. k = 2 * ((i + 1) - 1)
      BY <3>4, <3>6
    <3>8. QED
      BY <3>4, <3>6, <3>7
  <2>4. QED
    BY <2>2, <2>3
<1>8. \A i \in 1 .. Shards :
         \E j \in 1 .. Len(s) : s[j] = Release(Index(i)) /\ (j = 2 * i + 1 \/ (j = 2 * i /\ i = Shards))
  <2> SUFFICES ASSUME NEW i \in 1 .. Shards
               PROVE  \E j \in 1 .. Len(s) :
                         s[j] = Release(Index(i)) /\ (j = 2 * i + 1 \/ (j = 2 * i /\ i = Shards))
    OBVIOUS
  <2>1. CASE i = Shards
    BY <1>1, <1>3, <1>6, <2>1
  <2>2. CASE i # Shards
    <3>1. i \in 1 .. Shards - 1 /\ 2 * i + 1 \in 1 .. Len(s)
      BY <1>1, <1>6, <2>2
    <3>2. s[2 * i + 1] = Release(Index(i))
      BY <1>3, <3>1
    <3>3. QED
      BY <3>1, <3>2
  <2>3. QED
    BY <2>1, <2>2
<1>9. \A k \in 1 .. Len(s) : Takes(s[k]) =>
         \E i \in 1 .. Shards :
            s[k].lock = Index(i) /\ \E j \in k + 1 .. Len(s) : s[j] = Release(Index(i))
  <2> SUFFICES ASSUME NEW k \in 1 .. Len(s), Takes(s[k])
               PROVE  \E i \in 1 .. Shards :
                         s[k].lock = Index(i) /\ \E j \in k + 1 .. Len(s) : s[j] = Release(Index(i))
    OBVIOUS
  <2>1. PICK i \in 1 .. Shards : s[k].lock = Index(i) /\ (k = 2 * (i - 1) \/ (k = 1 /\ i = 1))
    BY <1>7
  <2>2. PICK j \in 1 .. Len(s) :
           s[j] = Release(Index(i)) /\ (j = 2 * i + 1 \/ (j = 2 * i /\ i = Shards))
    BY <1>8
  <2>3. j \in k + 1 .. Len(s)
    BY <1>1, <1>6, <2>1, <2>2
  <2>4. QED
    BY <2>1, <2>2, <2>3
<1>10. \A k, m \in 1 .. Len(s) : k < m /\ Takes(s[k]) /\ Takes(s[m]) =>
          Rank(s[k].lock) < Rank(s[m].lock)
  BY <1>1, <1>6, <1>7, Ranks
<1>11. Orderly(s, {}) /\ Above(s, {Exact})
  BY <1>6, <1>9, <1>10, Pass
<1>12. Taken(s)
  BY <1>1, <1>6 DEF Taken
<1>13. QED
  BY <1>11, <1>12 DEF s

LEMMA SweepingPass ==
    ASSUME NEW mode \in Modes
    PROVE  /\ Orderly(Sweeping(mode), {}) /\ Taken(Sweeping(mode))
           /\ Above(Sweeping(mode), {Exact})
<1> DEFINE s == Sweeping(mode)
<1>1. Shards \in Nat /\ Shards >= 1 /\ 2 * Shards \in Nat
  BY ShardsAssumption
<1>2. \A i \in 1 .. Shards :
         /\ Do(mode, Index(i)) \in Instruction /\ Takes(Do(mode, Index(i)))
         /\ Do(mode, Index(i)).lock = Index(i)
         /\ Release(Index(i)) \in Instruction /\ ~Takes(Release(Index(i)))
  BY Ranks, Instructions DEF Do, Instruction, Takes, Modes
<1>3. \A i \in 1 .. Shards : s[2 * i - 1] = Do(mode, Index(i)) /\ s[2 * i] = Release(Index(i))
  BY <1>1 DEF Sweeping
<1>4. \A j \in 1 .. 2 * Shards : \E i \in 1 .. Shards : j = 2 * i - 1 \/ j = 2 * i
  <2> SUFFICES ASSUME NEW j \in 1 .. 2 * Shards
               PROVE  \E i \in 1 .. Shards : j = 2 * i - 1 \/ j = 2 * i
    OBVIOUS
  <2>1. CASE j % 2 = 0
    BY <2>1, Halves
  <2>2. CASE j % 2 # 0
    <3>1. j = 2 * ((j \div 2) + 1) - 1 /\ (j \div 2) + 1 \in 1 .. Shards
      BY <1>1, <2>2, Halves
    <3>2. QED
      BY <3>1
  <2>3. QED
    BY <2>1, <2>2
<1>5. s = [j \in 1 .. 2 * Shards |-> s[j]]
  BY DEF Sweeping
<1> HIDE DEF s
<1>6. \A j \in 1 .. 2 * Shards : s[j] \in Instruction
  BY <1>1, <1>2, <1>3, <1>4
<1>7. s \in Scripts /\ Len(s) = 2 * Shards
  BY <1>1, <1>5, <1>6 DEF Scripts
<1>8. \A k \in 1 .. Len(s) : Takes(s[k]) =>
         \E i \in 1 .. Shards : s[k].lock = Index(i) /\ k = 2 * i - 1
  <2> SUFFICES ASSUME NEW k \in 1 .. Len(s), Takes(s[k])
               PROVE  \E i \in 1 .. Shards : s[k].lock = Index(i) /\ k = 2 * i - 1
    OBVIOUS
  <2>1. PICK i \in 1 .. Shards : k = 2 * i - 1 \/ k = 2 * i
    BY <1>4, <1>7
  <2>2. QED
    BY <1>2, <1>3, <2>1
<1>9. \A k \in 1 .. Len(s) : Takes(s[k]) =>
         \E i \in 1 .. Shards :
            s[k].lock = Index(i) /\ \E j \in k + 1 .. Len(s) : s[j] = Release(Index(i))
  <2> SUFFICES ASSUME NEW k \in 1 .. Len(s), Takes(s[k])
               PROVE  \E i \in 1 .. Shards :
                         s[k].lock = Index(i) /\ \E j \in k + 1 .. Len(s) : s[j] = Release(Index(i))
    OBVIOUS
  <2>1. PICK i \in 1 .. Shards : s[k].lock = Index(i) /\ k = 2 * i - 1
    BY <1>8
  <2>2. 2 * i \in k + 1 .. Len(s) /\ s[2 * i] = Release(Index(i))
    BY <1>1, <1>3, <1>7, <2>1
  <2>3. QED
    BY <2>1, <2>2
<1>10. \A k, m \in 1 .. Len(s) : k < m /\ Takes(s[k]) /\ Takes(s[m]) =>
          Rank(s[k].lock) < Rank(s[m].lock)
  BY <1>1, <1>7, <1>8, Ranks
<1>11. Orderly(s, {}) /\ Above(s, {Exact})
  BY <1>7, <1>9, <1>10, Pass
<1>12. Taken(s)
  BY <1>1, <1>7 DEF Taken
<1>13. QED
  BY <1>11, <1>12 DEF s

-------------------------------------------------------------------------------
(* The operations.                                                         *)

Operation == [kind : Kinds, shard : 1..Shards, due : BOOLEAN]

\* Statements under a lock that ranks below theirs.
LEMMA Statements ==
    /\ Orderly(CountTenant, {}) /\ Taken(CountTenant)
    /\ \A l \in LockNames : Rank(l) <= Shards => Above(CountTenant, {l})
    /\ Orderly(Reading(Exact), {}) /\ Taken(Reading(Exact))
    /\ Orderly(Writing(Exact), {}) /\ Taken(Writing(Exact))
    /\ Orderly(Writing(Persist), {}) /\ Taken(Writing(Persist))
    /\ Orderly(Reading(Tenants), {}) /\ Taken(Reading(Tenants))
    /\ \A i \in 1..Shards : Orderly(Writing(Index(i)), {}) /\ Taken(Writing(Index(i)))
<1>1. ASSUME NEW l \in LockNames, Rank(l) <= Shards
      PROVE  Above(CountTenant, {l})
  <2>1. \A k \in {l} : Rank(k) < Rank(Tenants)
    BY <1>1, Ranks, ShardsAssumption
  <2>2. QED
    BY <2>1, Ranks, Statement DEF CountTenant
<1>2. QED
  BY <1>1, Ranks, Statement DEF CountTenant

LEMMA SnapshotOrderly == Orderly(CollectSnapshot, {}) /\ Taken(CollectSnapshot)
BY Statements, IteratingPass, Next1 DEF CollectSnapshot, Modes

LEMMA PersistOrderly ==
    ASSUME NEW due \in BOOLEAN
    PROVE  Orderly(PersistAfterInsert(due), {}) /\ Taken(PersistAfterInsert(due))
<1>1. Orderly(IF due THEN CollectSnapshot ELSE <<>>, {})
  BY SnapshotOrderly, Nothing
<1>2. QED
  BY <1>1, Statements, Next1 DEF PersistAfterInsert

LEMMA ExactHitOrderly == Orderly(ExactHit, {}) /\ Taken(ExactHit)
<1>1. Orderly(CountTenant \o <<Read(Exact)>>, {Exact})
  BY Ranks, Statements, Take, Next1
<1>2. Above(CountTenant, {Exact})
  BY Ranks, Statements, ShardsAssumption
<1>3. Orderly(CountTenant \o <<Read(Exact)>> \o CountTenant, {Exact})
  BY <1>1, <1>2, Ranks, Statements, Under
<1>4. QED
  BY <1>3, Ranks, Close DEF ExactHit

LEMMA ExactInsertOrderly ==
    ASSUME NEW due \in BOOLEAN
    PROVE  Orderly(ExactInsert(due), {}) /\ Taken(ExactInsert(due))
<1>1. Orderly(CountTenant \o Reading(Exact), {})
  BY Statements, Next1
<1>2. Orderly(Miss, {})
  BY <1>1, Statements, Next1 DEF Miss
<1>3. Orderly(Miss \o Writing(Exact), {})
  BY <1>2, Statements, Next1
<1>4. Orderly(Miss \o Writing(Exact) \o CountTenant, {})
  BY <1>3, Statements, Next1
<1>5. QED
  BY <1>4, PersistOrderly, Next1 DEF ExactInsert

LEMMA SemanticHitOrderly ==
    ASSUME NEW i \in 1..Shards
    PROVE  Orderly(SemanticHit(i), {}) /\ Taken(SemanticHit(i))
<1>1. Index(i) \in LockNames /\ Rank(Index(i)) <= Shards
  BY Ranks, ShardsAssumption
<1>2. Orderly(CountTenant \o Reading(Exact), {})
  BY Statements, Next1
<1>3. Orderly(CountTenant \o Reading(Exact) \o <<Read(Index(i))>>, {Index(i)})
  BY <1>1, <1>2, Take, Next1
<1>4. Orderly(CountTenant \o Reading(Exact) \o <<Read(Index(i))>> \o CountTenant, {Index(i)})
  BY <1>1, <1>3, Statements, Under
<1>5. QED
  BY <1>1, <1>4, Close DEF SemanticHit

LEMMA SummaryOrderly == Orderly(Summary, {}) /\ Taken(Summary)
<1>1. Orderly(<<Read(Exact)>>, {Exact}) /\ "read" \in Modes
  BY Ranks, Take DEF Modes
<1>2. Orderly(<<Read(Exact)>> \o Sweeping("read"), {Exact})
  BY <1>1, Ranks, SweepingPass, Under
<1>3. Orderly(<<Read(Exact)>> \o Sweeping("read") \o Iterating("read"), {Exact})
  BY <1>1, <1>2, Ranks, IteratingPass, Under
<1>4. QED
  BY <1>3, Ranks, Close DEF Summary

LEMMA FlushOrderly == Orderly(Flush, {}) /\ Taken(Flush)
<1>1. Orderly(Writing(Exact) \o Sweeping("write"), {})
  BY Statements, SweepingPass, Next1 DEF Modes
<1>2. QED
  BY <1>1, Statements, Next1 DEF Flush

\* What is taken is released, in every operation.  In the insert into the semantic
\* index the bucket is open over the rest.
LEMMA SemanticInsertOpen ==
    ASSUME NEW i \in 1..Shards, NEW due \in BOOLEAN
    PROVE  /\ SemanticInsert(i, due) \in Scripts
           /\ Open(SemanticInsert(i, due), {}) /\ Taken(SemanticInsert(i, due))
<1> DEFINE Keeps(s, L) == s \in Scripts /\ Open(s, L)
<1>1. ASSUME NEW s, NEW r, NEW L, NEW M, NEW N, Keeps(s, L), Keeps(r, M), N = L \cup M
      PROVE  Keeps(s \o r, N)
  BY <1>1, Joined, JoinedOpen
<1>2. ASSUME NEW s, Orderly(s, {})
      PROVE  Keeps(s, {})
  BY <1>2 DEF Orderly
<1>3. Index(i) \in LockNames /\ Keeps(<<Write(Index(i))>>, {Index(i)})
  BY Ranks, Take DEF Orderly
<1>4. Keeps(<<>>, {})
  BY <1>2, Nothing
<1>5. /\ Keeps(ExactInsert(due), {}) /\ Keeps(CountTenant, {}) /\ Keeps(Writing(Index(i)), {})
      /\ Keeps(Iterating("read"), {}) /\ Keeps(Iterating("write"), {})
      /\ Keeps(PersistAfterInsert(due), {})
  BY <1>2, ExactInsertOrderly, Statements, IteratingPass, PersistOrderly DEF Modes
<1> HIDE DEF Keeps
<1>6. Keeps(EvictGlobal(i), {})
  <2>1. Keeps(Iterating("write") \o Iterating("read"), {})
    BY <1>1, <1>5
  <2>2. Keeps(Iterating("write") \o Iterating("read") \o Iterating("read"), {})
    BY <1>1, <1>5, <2>1
  <2>3. QED
    BY <1>1, <1>5, <2>2 DEF EvictGlobal
<1>7. Keeps(IF due THEN EvictGlobal(i) ELSE <<>>, {})
  BY <1>4, <1>6
<1> DEFINE s1 == ExactInsert(due) \o <<Write(Index(i))>>
           s2 == s1 \o CountTenant
           s3 == s2 \o Iterating("read")
           s4 == s3 \o (IF due THEN EvictGlobal(i) ELSE <<>>)
           s5 == s4 \o PersistAfterInsert(due)
<1>8. Keeps(s1, {Index(i)})
  BY <1>1, <1>3, <1>5
<1> HIDE DEF s1
<1>9. Keeps(s2, {Index(i)})
  BY <1>1, <1>5, <1>8
<1> HIDE DEF s2
<1>10. Keeps(s3, {Index(i)})
  BY <1>1, <1>5, <1>9
<1> HIDE DEF s3
<1>11. Keeps(s4, {Index(i)})
  BY <1>1, <1>7, <1>10
<1> HIDE DEF s4
<1>12. Keeps(s5, {Index(i)})
  BY <1>1, <1>5, <1>11
<1>13. SemanticInsert(i, due) = s5 \o <<Release(Index(i))>>
  BY DEF SemanticInsert, s1, s2, s3, s4
<1> HIDE DEF s5
<1>14. s5 \in Scripts /\ Open(s5, {Index(i)})
  BY <1>12 DEF Keeps
<1>15. Open(SemanticInsert(i, due), {})
  BY <1>3, <1>13, <1>14, Closed
<1>16. <<Release(Index(i))>> \in Scripts /\ Len(<<Release(Index(i))>>) = 1
  BY <1>3, Instructions DEF Scripts
<1>17. s5 \o <<Release(Index(i))>> \in Scripts /\ Taken(s5 \o <<Release(Index(i))>>)
  BY <1>14, <1>16, Joined DEF Taken
<1>18. QED
  BY <1>13, <1>15, <1>17

\* Every operation takes locks, releases what it takes, and, but for the insert into
\* the semantic index, takes them in the order of their ranks.
LEMMA ScriptOf ==
    ASSUME NEW o \in Operation, o.kind # "idle"
    PROVE  /\ Script(o) \in Scripts /\ Open(Script(o), {}) /\ Taken(Script(o))
           /\ o.kind # "semantic_insert" => Ordered(Script(o))
<1> DEFINE Goal == /\ Script(o) \in Scripts /\ Open(Script(o), {}) /\ Taken(Script(o))
                   /\ o.kind # "semantic_insert" => Ordered(Script(o))
<1>0. o.shard \in 1..Shards /\ o.due \in BOOLEAN /\ o.kind \in Kinds
  BY DEF Operation
<1>1. ASSUME Orderly(Script(o), {}) /\ Taken(Script(o))
      PROVE  Goal
  BY <1>1 DEF Orderly
<1>2. CASE o.kind = "exact_hit"
  BY <1>1, <1>2, ExactHitOrderly DEF Script
<1>3. CASE o.kind = "exact_insert"
  BY <1>0, <1>1, <1>3, ExactInsertOrderly DEF Script
<1>4. CASE o.kind = "semantic_hit"
  BY <1>0, <1>1, <1>4, SemanticHitOrderly DEF Script
<1>5. CASE o.kind = "semantic_insert"
  BY <1>0, <1>5, SemanticInsertOpen DEF Script
<1>6. CASE o.kind = "summary"
  BY <1>1, <1>6, SummaryOrderly DEF Script
<1>7. CASE o.kind = "flush"
  BY <1>1, <1>7, FlushOrderly DEF Script
<1>8. CASE o.kind = "exact_delete"
  BY <1>1, <1>8, Statements DEF Script, ExactDelete
<1>9. CASE o.kind = "semantic_delete"
  BY <1>0, <1>1, <1>9, Statements DEF Script, SemanticDelete
<1>10. CASE o.kind = "metrics"
  BY <1>1, <1>10, Statements DEF Script, TenantMetrics
<1>11. CASE o.kind = "shutdown"
  BY <1>1, <1>11, SnapshotOrderly DEF Script
<1>12. QED
  BY <1>0, <1>2, <1>3, <1>4, <1>5, <1>6, <1>7, <1>8, <1>9, <1>10, <1>11 DEF Kinds

-------------------------------------------------------------------------------
(* The inductive invariant: what is held is what the scripts have taken    *)
(* and not released.                                                       *)

\* A lock that is held was taken by its thread at step k, and not released since.
Kept(h) ==
    \E k \in 1 .. at[h.thread] - 1 :
        /\ Script(op[h.thread])[k] = Do(h.mode, h.lock)
        /\ HeldOver(Script(op[h.thread]), k, at[h.thread])

LockInv ==
    /\ op \in [Threads -> Operation]
    /\ at \in [Threads -> Nat \ {0}]
    /\ held \subseteq [thread : Threads, lock : LockNames, mode : Modes]
    /\ \A t \in Threads : Running(t) => at[t] \in 1 .. Len(Script(op[t]))
    /\ \A h \in held : Running(h.thread) /\ Kept(h)
    /\ \A t \in Threads : op[t].kind \in Ops \cup {"idle"}

LEMMA LockInit == Init => LockInv
BY ShardsAssumption DEF Init, LockInv, Running, Idle, Operation, Kinds

LEMMA BeginStep ==
    ASSUME LockInv, NEW t \in Threads, Begin(t)
    PROVE  LockInv'
<1>1. /\ ~Running(t) /\ held' = held /\ at' = [at EXCEPT ![t] = 1]
      /\ \A u \in Threads \ {t} : op'[u] = op[u] /\ at'[u] = at[u]
  BY DEF Begin, LockInv
<1>2. PICK o \in Operation : op' = [op EXCEPT ![t] = o] /\ o.kind \in Ops /\ o.kind # "idle"
  <2>1. PICK k \in Ops, s \in 1..Shards, due \in BOOLEAN :
           op' = [op EXCEPT ![t] = [kind |-> k, shard |-> s, due |-> due]]
    BY DEF Begin
  <2>2. k \in Kinds \ {"idle"}
    BY OpsAssumption
  <2>3. [kind |-> k, shard |-> s, due |-> due] \in Operation
    BY <2>2 DEF Operation
  <2>4. QED
    BY <2>1, <2>2, <2>3
<1>3. Script(o) \in Scripts /\ Taken(Script(o))
  BY <1>2, ScriptOf
<1>4. 1 \in 1 .. Len(Script(o))
  BY <1>3 DEF Taken, Scripts
<1>5. op'[t] = o /\ at'[t] = 1
  BY <1>1, <1>2 DEF LockInv
<1>6. \A u \in Threads : Running(u)' => at'[u] \in 1 .. Len(Script(op'[u]))
  BY <1>1, <1>4, <1>5 DEF LockInv, Running
<1>7. \A h \in held : h.thread \in Threads \ {t}
  BY <1>1 DEF LockInv
<1>8. \A h \in held : Running(h.thread)' /\ Kept(h)'
  BY <1>1, <1>7 DEF LockInv, Running, Kept
<1>9. QED
  BY <1>1, <1>2, <1>5, <1>6, <1>8 DEF LockInv, Running, Kept

LEMMA StepInstruction ==
    ASSUME LockInv, NEW t \in Threads, Running(t)
    PROVE  /\ op[t] \in Operation /\ op[t].kind # "idle"
           /\ Script(op[t]) \in Scripts /\ Open(Script(op[t]), {})
           /\ at[t] \in 1 .. Len(Script(op[t])) /\ Len(Script(op[t])) \in Nat
           /\ Instr(t) = Script(op[t])[at[t]] /\ Instr(t) \in Instruction
           /\ "semantic_insert" \notin Ops => Ordered(Script(op[t]))
<1>1. op[t] \in Operation /\ op[t].kind # "idle" /\ at[t] \in 1 .. Len(Script(op[t]))
  BY DEF LockInv, Running
<1>2. Script(op[t]) \in Scripts /\ Open(Script(op[t]), {})
  BY <1>1, ScriptOf
<1>3. "semantic_insert" \notin Ops => op[t].kind # "semantic_insert"
  BY <1>1 DEF LockInv
<1>4. QED
  BY <1>1, <1>2, <1>3, ScriptOf DEF Scripts, Instr

LEMMA StepStep ==
    ASSUME LockInv, NEW t \in Threads, Step(t)
    PROVE  LockInv'
<1> DEFINE s == Script(op[t])
           i == Instr(t)
           n == at[t]
<1>1. Running(t)
  BY DEF Step
<1>2. /\ s \in Scripts /\ Open(s, {}) /\ n \in 1 .. Len(s) /\ Len(s) \in Nat
      /\ i = s[n] /\ i \in Instruction
  BY <1>1, StepInstruction
<1>3. held' = IF i.act = "release" THEN {h \in held : h.thread # t \/ h.lock # i.lock}
              ELSE held \cup {Hold(t, i.lock, i.act)}
  BY DEF Step
<1>4. /\ n = Len(s) => op' = [op EXCEPT ![t] = Idle] /\ at' = [at EXCEPT ![t] = 1]
      /\ n # Len(s) => at' = [at EXCEPT ![t] = n + 1] /\ op' = op
  BY DEF Step
<1>5. \A u \in Threads \ {t} : op'[u] = op[u] /\ at'[u] = at[u]
  BY <1>4 DEF LockInv
<1>6. i.lock \in LockNames /\ (i.act # "release" => i.act \in Modes /\ i = Do(i.act, i.lock))
  BY <1>2 DEF Instruction, Modes, Do
<1>7. held' \subseteq [thread : Threads, lock : LockNames, mode : Modes]
  BY <1>3, <1>6 DEF LockInv, Hold
<1>8. Idle \in Operation /\ Idle.kind = "idle"
  BY ShardsAssumption DEF Idle, Operation, Kinds
<1>9. op' \in [Threads -> Operation] /\ at' \in [Threads -> Nat \ {0}]
  <2>1. n + 1 \in Nat \ {0}
    BY <1>2
  <2>2. CASE n = Len(s)
    <3>1. op' = [op EXCEPT ![t] = Idle] /\ at' = [at EXCEPT ![t] = 1]
      BY <1>4, <2>2
    <3>2. op \in [Threads -> Operation] /\ at \in [Threads -> Nat \ {0}]
      BY DEF LockInv
    <3>3. QED
      BY <1>8, <3>1, <3>2
  <2>3. CASE n # Len(s)
    <3>1. op' = op /\ at' = [at EXCEPT ![t] = n + 1]
      BY <1>4, <2>3
    <3>2. op \in [Threads -> Operation] /\ at \in [Threads -> Nat \ {0}]
      BY DEF LockInv
    <3>3. QED
      BY <2>1, <3>1, <3>2
  <2>4. QED
    BY <2>2, <2>3
<1>10. \A u \in Threads : op'[u].kind \in Ops \cup {"idle"}
  BY <1>4, <1>8 DEF LockInv
<1>11. \A u \in Threads : Running(u)' => at'[u] \in 1 .. Len(Script(op'[u]))
  <2>1. Running(t)' => at'[t] \in 1 .. Len(Script(op'[t]))
    BY <1>2, <1>4, <1>8 DEF LockInv, Running
  <2>2. QED
    BY <1>5, <2>1 DEF LockInv, Running
\* What t holds after the step it has taken and not released.
<1>12. ASSUME NEW h \in held', h.thread = t
       PROVE  \E k \in 1 .. n : s[k] = Do(h.mode, h.lock) /\ HeldOver(s, k, n + 1)
  <2>1. Takes(Do(h.mode, h.lock)) /\ Do(h.mode, h.lock).lock = h.lock
    BY <1>7, <1>12 DEF Takes, Do
  <2>2. CASE h \in held
    <3>1. PICK k \in 1 .. n - 1 : s[k] = Do(h.mode, h.lock) /\ HeldOver(s, k, n)
      BY <1>12, <2>2 DEF LockInv, Kept
    <3>2. CASE i = Release(h.lock)
      <4>1. i.act = "release" /\ i.lock = h.lock
        BY <3>2 DEF Release, Do
      <4>2. h \notin {g \in held : g.thread # t \/ g.lock # i.lock}
        BY <1>12, <4>1
      <4>3. QED
        BY <1>3, <4>1, <4>2
    <3>3. CASE i # Release(h.lock)
      <4>1. s[n] # Release(s[k].lock)
        BY <1>2, <2>1, <3>1, <3>3
      <4>2. n \in Nat /\ k \in 1 .. n
        BY <1>2
      <4>3. HeldOver(s, k, n + 1)
        BY <3>1, <4>1, <4>2 DEF HeldOver
      <4>4. QED
        BY <3>1, <4>2, <4>3
    <3>4. QED
      BY <3>2, <3>3
  <2>3. CASE h \notin held
    <3>1. i.act # "release" /\ h = Hold(t, i.lock, i.act)
      BY <1>3, <2>3
    <3>2. s[n] = Do(h.mode, h.lock)
      BY <1>2, <1>6, <3>1 DEF Hold
    <3>3. n \in Nat /\ n \in 1 .. n /\ HeldOver(s, n, n + 1)
      BY <1>2, <2>1, <3>2 DEF HeldOver
    <3>4. QED
      BY <3>2, <3>3
  <2>4. QED
    BY <2>2, <2>3
\* At its end it holds nothing.
<1>13. ASSUME NEW h \in held', h.thread = t
       PROVE  n # Len(s)
  <2>1. PICK k \in 1 .. n : s[k] = Do(h.mode, h.lock) /\ HeldOver(s, k, n + 1)
    BY <1>12, <1>13
  <2>2. SUFFICES ASSUME n = Len(s)
                 PROVE  FALSE
    OBVIOUS
  <2>3. k \in 1 .. Len(s) /\ Takes(s[k])
    BY <2>1, <2>2 DEF HeldOver
  <2>4. PICK j \in k + 1 .. Len(s) : s[j] = Release(s[k].lock)
    BY <1>2, <2>3 DEF Open
  <2>5. j \in k + 1 .. (n + 1) - 1
    BY <1>2, <2>2
  <2>6. QED
    BY <2>1, <2>4, <2>5 DEF HeldOver
<1>14. ASSUME NEW h \in held'
       PROVE  Running(h.thread)' /\ Kept(h)'
  <2>1. CASE h.thread = t
    <3>1. n # Len(s)
      BY <1>13, <2>1
    <3>2. op' = op /\ at'[t] = n + 1 /\ (n + 1) - 1 = n
      BY <1>2, <1>4, <3>1 DEF LockInv
    <3>3. PICK k \in 1 .. n : s[k] = Do(h.mode, h.lock) /\ HeldOver(s, k, n + 1)
      BY <1>12, <2>1
    <3>4. QED
      BY <1>1, <2>1, <3>2, <3>3 DEF Kept, Running
  <2>2. CASE h.thread # t
    <3>1. h \in held
      BY <1>3, <2>2 DEF Hold
    <3>2. h.thread \in Threads \ {t}
      BY <2>2, <3>1 DEF LockInv
    <3>3. QED
      BY <1>5, <3>1, <3>2 DEF LockInv, Kept, Running
  <2>3. QED
    BY <2>1, <2>2
<1>15. QED
  BY <1>7, <1>9, <1>10, <1>11, <1>14 DEF LockInv

LEMMA LockHolds == Spec => []LockInv
<1>1. LockInv /\ [Next]_vars => LockInv'
  <2> SUFFICES ASSUME LockInv, [Next]_vars
               PROVE  LockInv'
    OBVIOUS
  <2>1. CASE UNCHANGED vars
    BY <2>1 DEF vars, LockInv, Running, Kept
  <2>2. QED
    BY <2>1, BeginStep, StepStep DEF Next
<1>2. QED
  BY <1>1, LockInit, PTL DEF Spec

\* The type invariant, and that a thread that has ended its operation holds no lock:
\* every path through every operation releases what it takes, the insert into the
\* semantic index included.
THEOREM TypeCorrect == Spec => []TypeOK
<1>1. LockInv => TypeOK
  BY DEF LockInv, TypeOK, Operation
<1>2. QED
  BY <1>1, LockHolds, PTL

-------------------------------------------------------------------------------
(* No deadlock.                                                            *)

\* Who holds a lock goes on to one of a higher rank, or releases one.
LEMMA HoldersClimb ==
    ASSUME LockInv, "semantic_insert" \notin Ops, NEW h \in held, ~Grantable(h.thread)
    PROVE  /\ h.thread \in Threads /\ Running(h.thread)
           /\ Rank(h.lock) < Rank(Instr(h.thread).lock)
<1> DEFINE t == h.thread
           s == Script(op[t])
           n == at[t]
<1>1. t \in Threads /\ Running(t)
  BY DEF LockInv
<1>2. /\ s \in Scripts /\ n \in 1 .. Len(s) /\ Len(s) \in Nat /\ Ordered(s)
      /\ Instr(t) = s[n] /\ Instr(t) \in Instruction
  BY <1>1, StepInstruction
<1>3. PICK k \in 1 .. n - 1 : s[k] = Do(h.mode, h.lock) /\ HeldOver(s, k, n)
  BY DEF LockInv, Kept
<1>4. Instr(t).act # "release"
  BY DEF Grantable
<1>5. Takes(s[n])
  BY <1>2, <1>4 DEF Instruction, Takes, Modes
<1>6. k \in 1 .. Len(s) /\ k < n
  BY <1>2
<1>7. Rank(s[k].lock) < Rank(s[n].lock)
  BY <1>2, <1>3, <1>5, <1>6 DEF Ordered
<1>8. s[k].lock = h.lock
  BY <1>3 DEF Do
<1>9. QED
  BY <1>1, <1>2, <1>7, <1>8

\* A set of natural numbers up to a bound has a greatest element.
LEMMA Greatest ==
    ASSUME NEW b \in Nat, NEW S, S \subseteq 0 .. b, S # {}
    PROVE  \E m \in S : \A k \in S : k <= m
<1> DEFINE T == {k \in Nat : b - k \in S}
           less == {p \in Nat \X Nat : p[1] < p[2]}
<1>1. T \subseteq Nat /\ T # {}
  <2>1. PICK k \in S : TRUE
    OBVIOUS
  <2>2. b - k \in Nat /\ b - (b - k) = k
    BY <2>1
  <2>3. b - k \in T
    BY <2>1, <2>2
  <2>4. QED
    BY <2>3
<1>2. \A i, j \in Nat : <<i, j>> \in less <=> i < j
  OBVIOUS
<1>3. IsWellFoundedOn(less, Nat)
  BY NatLessThanWellFounded, Zenon DEF OpToRel
<1> HIDE DEF T, less
<1>4. PICK m \in T : \A k \in T : ~(<<k, m>> \in less)
  BY <1>1, <1>3, WFMin
<1>5. m \in Nat /\ b - m \in S /\ \A k \in Nat : b - k \in S => m <= k
  <2>1. m \in Nat /\ b - m \in S
    BY DEF T
  <2>2. ASSUME NEW k \in Nat, b - k \in S
        PROVE  m <= k
    <3>1. k \in T
      BY <2>2 DEF T
    <3>2. ~(k < m)
      BY <1>2, <1>4, <2>1, <3>1
    <3>3. QED
      BY <2>1, <3>2
  <2>3. QED
    BY <2>1, <2>2
<1>6. ASSUME NEW k \in S
      PROVE  k <= b - m
  <2>1. b - k \in Nat /\ b - (b - k) = k
    BY <1>6
  <2>2. m <= b - k
    BY <1>5, <2>1
  <2>3. QED
    BY <1>5, <1>6, <2>2
<1>7. QED
  BY <1>5, <1>6

\* Of the threads that run one can go on, whichever threads there are, however many
\* shards the index has, and wherever each of them is in whatever operation, as long as
\* the insert into the semantic index is not among the operations.  Of the locks that
\* threads wait for, the one of the highest rank is held by a thread that can go on.
THEOREM DeadlockFree ==
    ASSUME "semantic_insert" \notin Ops
    PROVE  Spec => []NoDeadlock
<1>1. LockInv => NoDeadlock
  <2> SUFFICES ASSUME LockInv,
                      \E t \in Threads : Running(t),
                      \A t \in Threads : Running(t) => ~Grantable(t)
               PROVE  FALSE
    BY DEF NoDeadlock
  <2> DEFINE waiting == {t \in Threads : Running(t)}
             wanted == {Rank(Instr(t).lock) : t \in waiting}
  <2>1. \A t \in waiting : Instr(t) \in Instruction /\ Instr(t).lock \in LockNames
    BY StepInstruction DEF Instruction
  <2>2. wanted \subseteq 0 .. Shards + 1 /\ wanted # {}
    BY <2>1, Ranks
  <2>3. Shards + 1 \in Nat
    BY ShardsAssumption
  <2> HIDE DEF wanted
  <2>4. PICK m \in wanted : \A k \in wanted : k <= m
    BY <2>2, <2>3, Greatest
  <2>5. PICK t \in waiting : Rank(Instr(t).lock) = m
    BY <2>4 DEF wanted
  <2>6. m \in Nat /\ \A u \in waiting : Rank(Instr(u).lock) \in Nat /\ Rank(Instr(u).lock) <= m
    BY <2>1, <2>2, <2>4, Ranks DEF wanted
  \* Nobody holds what t waits for, since he would wait for more.
  <2>7. \A h \in held : Rank(h.lock) # m
    <3> SUFFICES ASSUME NEW h \in held, Rank(h.lock) = m
                 PROVE  FALSE
      OBVIOUS
    <3>1. h.thread \in Threads /\ Running(h.thread)
      BY DEF LockInv
    <3>2. m < Rank(Instr(h.thread).lock)
      BY <3>1, HoldersClimb
    <3>3. QED
      BY <2>6, <3>1, <3>2
  <2>8. \A h \in held : h.lock # Instr(t).lock
    BY <2>5, <2>7
  <2>9. ~Grantable(t) /\ Instr(t).act \in {"read", "write", "release"}
    BY <2>1 DEF Instruction
  <2>10. Instr(t).act = "read" /\ Instr(t).lock = Exact
    BY <2>8, <2>9 DEF Grantable
  <2>11. PICK u \in Threads \ {t} : WaitsToWrite(u, Exact)
    BY <2>8, <2>9, <2>10 DEF Grantable
  <2>12. Running(u) /\ Instr(u) = Write(Exact)
    BY <2>11 DEF WaitsToWrite
  <2>13. Instr(u).act = "write" /\ Instr(u).lock = Exact
    BY <2>12 DEF Write, Do
  <2>14. ~Grantable(u)
    BY <2>11, <2>12
  <2>15. \E h \in held : h.lock = Exact
    BY <2>13, <2>14 DEF Grantable
  <2>16. QED
    BY <2>8, <2>10, <2>15
<1>2. QED
  BY <1>1, LockHolds, PTL

===============================================================================
