------------------------------ MODULE SumsProofs ------------------------------
(***************************************************************************)
(* Lemmas about SumTo.  Induction is over sets of numbers: a set that has  *)
(* 0 and with each number the next one has them all.                       *)
(***************************************************************************)
EXTENDS Sums, FiniteSetTheorems, WellFoundedInduction, TLAPS

\* Every set of naturals that has an element has a least one.
LEMMA Least ==
    ASSUME NEW S \in SUBSET Nat, S # {}
    PROVE  \E n \in S : \A m \in S : n <= m
<1> DEFINE R == {x \in Nat \X Nat : x[1] < x[2]}
<1>1. IsWellFoundedOn(R, Nat)
  BY NatLessThanWellFounded, Zenon DEF OpToRel
<1>2. PICK n \in S : \A m \in Nat : <<m, n>> \in R => m \notin S
  BY <1>1, WFMin
<1>3. \A m \in S : n <= m
  <2> SUFFICES ASSUME NEW m \in S, m < n PROVE FALSE
    OBVIOUS
  <2>1. <<m, n>> \in Nat \X Nat /\ <<m, n>>[1] < <<m, n>>[2]
    OBVIOUS
  <2>2. <<m, n>> \in R
    BY <2>1
  <2> HIDE DEF R
  <2>3. QED
    BY <1>2, <2>2
<1>4. QED
  BY <1>3

\* Induction up to n.
LEMMA Induction ==
    ASSUME NEW n \in Nat, NEW S \in SUBSET (0..n), 0 \in S,
           \A i \in 1..n : i - 1 \in S => i \in S
    PROVE  \A i \in 0..n : i \in S
<1> SUFFICES ASSUME NEW j \in 0..n, j \notin S PROVE FALSE
  OBVIOUS
<1> DEFINE B == (0..n) \ S
<1>1. PICK i \in B : \A m \in B : i <= m
  <2>1. B \in SUBSET Nat /\ B # {}
    OBVIOUS
  <2> HIDE DEF B
  <2>2. QED
    BY <2>1, Least
<1>2. i \in 1..n
  BY <1>1
<1>3. i - 1 \in 0..n /\ i - 1 \notin B
  BY <1>1, <1>2
<1>4. QED
  BY <1>1, <1>2, <1>3

\* s is the function of the partial sums of f.
Partial(s, f, n) ==
    /\ s \in [0..n -> Int]
    /\ s[0] = 0
    /\ \A i \in 1..n : s[i] = s[i - 1] + f[i]

LEMMA PartialExists ==
    ASSUME NEW n \in Nat, NEW f \in [1..n -> Int]
    PROVE  \E s : Partial(s, f, n)
<1> DEFINE S == {m \in 0..n : \E s : Partial(s, f, m)}
<1>1. 0 \in S
  <2>1. Partial([i \in 0..0 |-> 0], f, 0)
    BY DEF Partial
  <2>2. QED
    BY <2>1
<1>2. ASSUME NEW m \in 1..n, m - 1 \in S
      PROVE  m \in S
  <2>1. PICK s : Partial(s, f, m - 1)
    BY <1>2
  <2>2. /\ s \in [0..m - 1 -> Int] /\ s[0] = 0
        /\ \A i \in 1..m - 1 : s[i] = s[i - 1] + f[i]
    BY <2>1 DEF Partial
  <2>3. s[m - 1] + f[m] \in Int
    BY <2>2
  <2> DEFINE r == [i \in 0..m |-> IF i = m THEN s[m - 1] + f[m] ELSE s[i]]
  <2>4. \A i \in 0..m : i # m => i \in 0..m - 1 /\ r[i] = s[i]
    OBVIOUS
  <2>5. r[m] = s[m - 1] + f[m] /\ m # 0
    OBVIOUS
  <2>6. r \in [0..m -> Int]
    BY <2>2, <2>3
  <2> HIDE DEF r
  <2>7. r[0] = 0
    BY <2>2, <2>4, <2>5
  <2>8. \A i \in 1..m : r[i] = r[i - 1] + f[i]
    <3> SUFFICES ASSUME NEW i \in 1..m PROVE r[i] = r[i - 1] + f[i]
      OBVIOUS
    <3>1. i - 1 \in 0..m /\ i - 1 # m
      OBVIOUS
    <3>2. r[i - 1] = s[i - 1]
      BY <2>4, <3>1
    <3>3. CASE i = m
      BY <2>5, <3>2, <3>3
    <3>4. CASE i # m
      <4>1. i \in 1..m - 1 /\ i \in 0..m
        BY <3>4
      <4>2. QED
        BY <2>2, <2>4, <3>2, <3>4, <4>1
    <3>5. QED
      BY <3>3, <3>4
  <2>9. Partial(r, f, m)
    BY <2>6, <2>7, <2>8 DEF Partial
  <2>10. QED
    BY <2>9
<1>3. S \in SUBSET (0..n) /\ n \in 0..n
  OBVIOUS
<1>4. n \in S
  <2> HIDE DEF S
  <2>1. QED
    BY <1>1, <1>2, <1>3, Induction
<1>5. QED
  BY <1>4

\* The recursive definition defines what it says.
LEMMA SumIsPartial ==
    ASSUME NEW n \in Nat, NEW f \in [1..n -> Int]
    PROVE  \E s : Partial(s, f, n) /\ SumTo(f, n) = s[n]
<1> DEFINE F(u) == [i \in 0..n |-> IF i = 0 THEN 0 ELSE u[i - 1] + f[i]]
           up == CHOOSE u : u = F(u)
<1>1. PICK s : Partial(s, f, n)
  BY PartialExists
<1>2. s = F(s)
  BY <1>1 DEF Partial
<1>3. up = F(up)
  BY <1>2
<1>4. SumTo(f, n) = up[n]
  BY DEF SumTo
<1>5. DOMAIN up = 0..n /\ up = [i \in DOMAIN up |-> up[i]]
  BY <1>3
<1> HIDE DEF up
<1>6. up[0] = 0 /\ \A i \in 1..n : up[i] = up[i - 1] + f[i]
  <2>1. 0 \in 0..n /\ \A i \in 1..n : i \in 0..n /\ i # 0
    OBVIOUS
  <2>2. \A i \in 0..n : up[i] = IF i = 0 THEN 0 ELSE up[i - 1] + f[i]
    BY <1>3, Zenon
  <2>3. QED
    BY <2>1, <2>2
<1> DEFINE S == {i \in 0..n : up[i] \in Int}
<1>7. 0 \in S
  BY <1>6
<1>8. ASSUME NEW i \in 1..n, i - 1 \in S
      PROVE  i \in S
  BY <1>6, <1>8
<1>9. S \in SUBSET (0..n)
  OBVIOUS
<1>10. \A i \in 0..n : i \in S
  <2> HIDE DEF S
  <2>1. QED
    BY <1>7, <1>8, <1>9, Induction
<1>11. up \in [0..n -> Int]
  BY <1>5, <1>10
<1>12. QED
  BY <1>4, <1>6, <1>11 DEF Partial

\* A sum over terms that are no greater is no greater.
LEMMA SumMonotone ==
    ASSUME NEW n \in Nat, NEW f \in [1..n -> Int], NEW g \in [1..n -> Int],
           \A i \in 1..n : f[i] <= g[i]
    PROVE  SumTo(f, n) <= SumTo(g, n)
<1>1. PICK s : Partial(s, f, n) /\ SumTo(f, n) = s[n]
  BY SumIsPartial
<1>2. PICK r : Partial(r, g, n) /\ SumTo(g, n) = r[n]
  BY SumIsPartial
<1> DEFINE S == {i \in 0..n : s[i] <= r[i]}
<1>3. 0 \in S
  BY <1>1, <1>2 DEF Partial
<1>4. ASSUME NEW i \in 1..n, i - 1 \in S
      PROVE  i \in S
  <2>1. /\ s[i] = s[i - 1] + f[i] /\ r[i] = r[i - 1] + g[i]
        /\ i - 1 \in 0..n /\ i \in 0..n
    BY <1>1, <1>2 DEF Partial
  <2>2. s[i - 1] \in Int /\ r[i - 1] \in Int /\ f[i] \in Int /\ g[i] \in Int
    BY <1>1, <1>2, <2>1 DEF Partial
  <2>3. QED
    BY <1>4, <2>1, <2>2
<1>5. S \in SUBSET (0..n) /\ n \in 0..n
  OBVIOUS
<1>6. n \in S
  <2> HIDE DEF S
  <2>1. QED
    BY <1>3, <1>4, <1>5, Induction
<1>7. QED
  BY <1>1, <1>2, <1>6

\* A sum of integers is an integer.
LEMMA SumType ==
    ASSUME NEW n \in Nat, NEW f \in [1..n -> Int]
    PROVE  SumTo(f, n) \in Int
BY SumIsPartial DEF Partial

\* A sum in which one term has changed.
LEMMA SumChanged ==
    ASSUME NEW n \in Nat, NEW f \in [1..n -> Int], NEW g \in [1..n -> Int], NEW c \in 1..n,
           \A i \in 1..n : i # c => g[i] = f[i]
    PROVE  SumTo(g, n) = SumTo(f, n) - f[c] + g[c]
<1>1. PICK s : Partial(s, f, n) /\ SumTo(f, n) = s[n]
  BY SumIsPartial
<1>2. PICK r : Partial(r, g, n) /\ SumTo(g, n) = r[n]
  BY SumIsPartial
<1> DEFINE S == {i \in 0..n : r[i] = IF i < c THEN s[i] ELSE s[i] - f[c] + g[c]}
<1>3. 0 \in S
  BY <1>1, <1>2 DEF Partial
<1>4. ASSUME NEW i \in 1..n, i - 1 \in S
      PROVE  i \in S
  <2>1. /\ s[i] = s[i - 1] + f[i] /\ r[i] = r[i - 1] + g[i]
        /\ i - 1 \in 0..n /\ i \in 0..n
    BY <1>1, <1>2 DEF Partial
  <2>2. /\ s[i - 1] \in Int /\ r[i - 1] \in Int /\ f[i] \in Int /\ g[i] \in Int
        /\ f[c] \in Int /\ g[c] \in Int
    BY <1>1, <1>2, <2>1 DEF Partial
  <2>3. r[i - 1] = IF i - 1 < c THEN s[i - 1] ELSE s[i - 1] - f[c] + g[c]
    BY <1>4
  <2>4. r[i] = IF i < c THEN s[i] ELSE s[i] - f[c] + g[c]
    <3>1. CASE i = c
      BY <2>1, <2>2, <2>3, <3>1
    <3>2. CASE i < c
      <4>1. g[i] = f[i] /\ i - 1 < c
        BY <3>2
      <4>2. r[i] = s[i]
        BY <2>1, <2>3, <4>1
      <4>3. QED
        BY <3>2, <4>2
    <3>3. CASE i > c
      <4>1. g[i] = f[i] /\ ~(i - 1 < c) /\ ~(i < c)
        BY <3>3
      <4>2. r[i] = (s[i - 1] - f[c] + g[c]) + f[i]
        BY <2>1, <2>3, <4>1
      <4>3. r[i] = s[i] - f[c] + g[c]
        BY <2>1, <2>2, <4>2
      <4>4. QED
        BY <4>1, <4>3
    <3>4. QED
      BY <3>1, <3>2, <3>3
  <2>5. QED
    BY <2>1, <2>4
<1>5. S \in SUBSET (0..n) /\ n \in 0..n
  OBVIOUS
<1>6. n \in S
  <2> HIDE DEF S
  <2>1. QED
    BY <1>3, <1>4, <1>5, Induction
<1>7. QED
  BY <1>1, <1>2, <1>6 DEF Partial

\* Nothing adds up to nothing.
LEMMA SumOfZeros ==
    ASSUME NEW n \in Nat, NEW f \in [1..n -> Int], \A i \in 1..n : f[i] = 0
    PROVE  SumTo(f, n) = 0
<1>1. PICK s : Partial(s, f, n) /\ SumTo(f, n) = s[n]
  BY SumIsPartial
<1> DEFINE S == {i \in 0..n : s[i] = 0}
<1>2. 0 \in S
  BY <1>1 DEF Partial
<1>3. ASSUME NEW i \in 1..n, i - 1 \in S
      PROVE  i \in S
  BY <1>1, <1>3 DEF Partial
<1>4. S \in SUBSET (0..n) /\ n \in 0..n
  OBVIOUS
<1>5. n \in S
  <2> HIDE DEF S
  <2>1. QED
    BY <1>2, <1>3, <1>4, Induction
<1>6. QED
  BY <1>1, <1>5

\* A sum of sums.
LEMMA SumAdds ==
    ASSUME NEW n \in Nat, NEW f \in [1..n -> Int], NEW g \in [1..n -> Int],
           NEW h \in [1..n -> Int], \A i \in 1..n : h[i] = f[i] + g[i]
    PROVE  SumTo(h, n) = SumTo(f, n) + SumTo(g, n)
<1>1. PICK s : Partial(s, f, n) /\ SumTo(f, n) = s[n]
  BY SumIsPartial
<1>2. PICK r : Partial(r, g, n) /\ SumTo(g, n) = r[n]
  BY SumIsPartial
<1>3. PICK q : Partial(q, h, n) /\ SumTo(h, n) = q[n]
  BY SumIsPartial
<1> DEFINE S == {i \in 0..n : q[i] = s[i] + r[i]}
<1>4. 0 \in S
  BY <1>1, <1>2, <1>3 DEF Partial
<1>5. ASSUME NEW i \in 1..n, i - 1 \in S
      PROVE  i \in S
  <2>0. i - 1 \in 0..n /\ i \in 0..n
    OBVIOUS
  <2>1. /\ s[i] = s[i - 1] + f[i] /\ r[i] = r[i - 1] + g[i] /\ q[i] = q[i - 1] + h[i]
        /\ i - 1 \in 0..n /\ i \in 0..n
    <3>1. s[i] = s[i - 1] + f[i]
      BY <1>1 DEF Partial
    <3>2. r[i] = r[i - 1] + g[i]
      BY <1>2 DEF Partial
    <3>3. q[i] = q[i - 1] + h[i]
      BY <1>3 DEF Partial
    <3>4. QED
      BY <2>0, <3>1, <3>2, <3>3
  <2>2. /\ s[i - 1] \in Int /\ r[i - 1] \in Int /\ f[i] \in Int /\ g[i] \in Int
        /\ h[i] = f[i] + g[i] /\ q[i - 1] = s[i - 1] + r[i - 1]
    BY <1>1, <1>2, <1>5, <2>1 DEF Partial
  <2>3. QED
    BY <2>1, <2>2
<1>6. S \in SUBSET (0..n) /\ n \in 0..n
  OBVIOUS
<1>7. n \in S
  <2> HIDE DEF S
  <2>1. QED
    BY <1>4, <1>5, <1>6, Induction
<1>8. QED
  BY <1>1, <1>2, <1>3, <1>7

\* A sum in which one term is one more at most, and the others are no greater.
LEMMA SumOneMore ==
    ASSUME NEW n \in Nat, NEW f \in [1..n -> Int], NEW g \in [1..n -> Int], NEW c \in 1..n,
           \A i \in 1..n : i # c => g[i] <= f[i], g[c] <= f[c] + 1
    PROVE  SumTo(g, n) <= SumTo(f, n) + 1
<1> DEFINE h == [f EXCEPT ![c] = f[c] + 1]
<1>1. /\ h \in [1..n -> Int] /\ h[c] = f[c] + 1 /\ f[c] \in Int
      /\ \A i \in 1..n : i # c => h[i] = f[i]
  OBVIOUS
<1> HIDE DEF h
<1>2. SumTo(h, n) = SumTo(f, n) - f[c] + h[c]
  BY <1>1, SumChanged
<1>3. SumTo(g, n) <= SumTo(h, n)
  <2>1. \A i \in 1..n : g[i] <= h[i]
    BY <1>1
  <2>2. QED
    BY <1>1, <2>1, SumMonotone
<1>4. SumTo(f, n) \in Int /\ SumTo(g, n) \in Int /\ SumTo(h, n) \in Int
  BY <1>1, SumType
<1>5. QED
  BY <1>1, <1>2, <1>3, <1>4

\* The sizes of the parts of a set add up to its size.
LEMMA SumOfParts ==
    ASSUME NEW n \in Nat, NEW T, IsFiniteSet(T), NEW of \in [T -> 1..n], NEW f,
           f = [i \in 1..n |-> Cardinality({x \in T : of[x] = i})]
    PROVE  f \in [1..n -> Nat] /\ SumTo(f, n) = Cardinality(T)
<1> DEFINE Part(i) == {x \in T : of[x] = i}
           UpTo(i) == {x \in T : of[x] <= i}
<1>1. \A i : /\ IsFiniteSet(Part(i)) /\ Cardinality(Part(i)) \in Nat
             /\ IsFiniteSet(UpTo(i)) /\ Cardinality(UpTo(i)) \in Nat
  BY FS_Subset, FS_CardinalityType
<1>2. f \in [1..n -> Nat] /\ f \in [1..n -> Int] /\ \A i \in 1..n : f[i] = Cardinality(Part(i))
  <2>1. f = [i \in 1..n |-> Cardinality(Part(i))]
    OBVIOUS
  <2>2. \A i \in 1..n : Cardinality(Part(i)) \in Nat
    BY <1>1
  <2> HIDE DEF Part
  <2>3. f \in [1..n -> Nat] /\ \A i \in 1..n : f[i] = Cardinality(Part(i))
    BY <2>1, <2>2
  <2>4. f \in [1..n -> Int]
    BY <2>3
  <2>5. QED
    BY <2>3, <2>4
<1>3. PICK s : Partial(s, f, n) /\ SumTo(f, n) = s[n]
  BY <1>2, SumIsPartial
<1> DEFINE S == {i \in 0..n : s[i] = Cardinality(UpTo(i))}
<1>4. 0 \in S
  <2>1. UpTo(0) = {}
    OBVIOUS
  <2>2. s[0] = 0 /\ 0 \in 0..n
    BY <1>3 DEF Partial
  <2> HIDE DEF UpTo
  <2>3. Cardinality(UpTo(0)) = 0
    BY <2>1, FS_EmptySet
  <2>4. QED
    BY <2>2, <2>3
<1>5. ASSUME NEW i \in 1..n, i - 1 \in S
      PROVE  i \in S
  <2>1. UpTo(i) = UpTo(i - 1) \cup Part(i) /\ UpTo(i - 1) \cap Part(i) = {}
    OBVIOUS
  <2> HIDE DEF UpTo, Part
  <2>2. Cardinality(UpTo(i)) = Cardinality(UpTo(i - 1)) + Cardinality(Part(i))
    <3>1. Cardinality(UpTo(i - 1) \cup Part(i))
             = Cardinality(UpTo(i - 1)) + Cardinality(Part(i)) - Cardinality(UpTo(i - 1) \cap Part(i))
      BY <1>1, FS_Union
    <3>2. Cardinality(UpTo(i - 1) \cap Part(i)) = 0
      BY <2>1, FS_EmptySet
    <3>3. Cardinality(UpTo(i - 1)) \in Nat /\ Cardinality(Part(i)) \in Nat
      BY <1>1
    <3>4. QED
      BY <2>1, <3>1, <3>2, <3>3
  <2>3. s[i] = s[i - 1] + f[i] /\ i - 1 \in 0..n /\ i \in 0..n
    BY <1>3 DEF Partial
  <2>4. QED
    BY <1>2, <1>5, <2>2, <2>3
<1>6. S \in SUBSET (0..n) /\ n \in 0..n
  OBVIOUS
<1>7. n \in S
  <2> HIDE DEF S
  <2>1. QED
    BY <1>4, <1>5, <1>6, Induction
<1>8. UpTo(n) = T
  OBVIOUS
<1>9. QED
  BY <1>2, <1>3, <1>7, <1>8

===============================================================================
