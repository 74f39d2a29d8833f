------------------------------ MODULE Foundations ------------------------------
(***************************************************************************)
(* What the proofs share.  Induction over natural numbers, stated for sets *)
(* instead of predicates, and what it says about ranks in a finite order   *)
(* and about functions defined by recursion; everything rests on           *)
(* LeastNatural: a set of natural numbers has a least element.  Then the   *)
(* storage of a contract: byte strings are totally ordered, and a range    *)
(* has every key within its bounds once and in order.                      *)
(***************************************************************************)
EXTENDS KeyValue, FiniteSetTheorems, WellFoundedInduction, TLAPS

(* Sequences, for the steps that Zenon proves.                               *)
(* A sequence is a function of its places.                                   *)
LEMMA SequenceType ==
  ASSUME NEW S, NEW s \in Seq(S)
  PROVE  Len(s) \in Nat /\ DOMAIN s = 1 .. Len(s) /\ s \in [1 .. Len(s) -> S]
OBVIOUS

LEMMA SequencesAreFunctions == \A S : Seq(S) = UNION {[1 .. n -> S] : n \in Nat}
OBVIOUS

(* The elements of two sequences put together.                               *)
LEMMA Concatenation ==
  ASSUME NEW S, NEW s \in Seq(S), NEW t \in Seq(S)
  PROVE  /\ s \o t \in Seq(S) /\ Len(s \o t) = Len(s) + Len(t)
         /\ \A i \in 1 .. Len(s) + Len(t) :
              (s \o t)[i] = IF i <= Len(s) THEN s[i] ELSE t[i - Len(s)]
OBVIOUS

LEMMA EmptySequence ==
  ASSUME NEW S
  PROVE  /\ <<>> \in Seq(S) /\ Len(<<>>) = 0
         /\ \A s \in Seq(S) : s # <<>> => Len(s) \in Nat \ {0}
OBVIOUS

Regroups(p, q, r) == (p \o q) \o r = p \o (q \o r)

LEMMA Regrouping ==
  ASSUME NEW p \in Seq(Nat), NEW q \in Seq(Nat), NEW r \in Seq(Nat)
  PROVE  Regroups(p, q, r)
BY SMTT(30) DEF Regroups

--------------------------------------------------------------------------------
(* Of some natural numbers one is the least.                                 *)
LEMMA LeastNatural ==
  ASSUME NEW T, T \subseteq Nat, T # {}
  PROVE  \E x \in T : \A y \in T : x <= y
<1>1. PICK R : R = OpToRel(<, Nat)
  BY Zenon
<1>2. IsWellFoundedOn(R, Nat)
  BY Zenon, <1>1, NatLessThanWellFounded
<1>3. PICK x \in T : \A y \in T : <<y, x>> \notin R
  BY Zenon, <1>2, WFMin
<1>4. ASSUME NEW y \in T PROVE x <= y
  <2>1. x \in Nat /\ y \in Nat /\ <<y, x>> \notin R
    BY Zenon, <1>3
  <2>2. ~(y < x)
    BY Zenon, <2>1, <1>1 DEF OpToRel
  <2> QED
    BY <2>1, <2>2
<1> QED
  BY Zenon, <1>4

(* A set with 0 and the successor of each of its numbers has them all.       *)
LEMMA NaturalInduction ==
  ASSUME NEW T, 0 \in T, \A n \in Nat : n \in T => n + 1 \in T
  PROVE  Nat \subseteq T
<1> SUFFICES ASSUME Nat \ T # {} PROVE FALSE
  BY Zenon
<1>1. PICK x \in Nat \ T : \A y \in Nat \ T : x <= y
  BY Zenon, LeastNatural
<1>2. x # 0
  BY Zenon, <1>1
<1>3. x - 1 \in Nat /\ ~(x <= x - 1) /\ (x - 1) + 1 = x
  BY <1>1, <1>2
<1>4. x - 1 \in T
  BY Zenon, <1>1, <1>3
<1> QED
  BY Zenon, <1>1, <1>3, <1>4

--------------------------------------------------------------------------------
(* The pairs of R order the elements of K.                                   *)
OrdersAll(R, K) ==
  /\ \A x \in K : <<x, x>> \notin R
  /\ \A x, y \in K : x # y => <<x, y>> \in R \/ <<y, x>> \in R
  /\ \A x, y, z \in K : <<x, y>> \in R /\ <<y, z>> \in R => <<x, z>> \in R

Preceding(R, K, x) == {y \in K : <<y, x>> \in R}

(* In a strict total order of a finite set, every number of smaller elements *)
(* that is possible is that of some element.                                 *)
LEMMA RankExists ==
  ASSUME NEW K, IsFiniteSet(K), NEW R, OrdersAll(R, K), NEW i \in 1 .. Cardinality(K)
  PROVE  \E x \in K : Cardinality(Preceding(R, K, x)) = i - 1
<1> DEFINE below(x) == {y \in K : <<y, x>> \in R}
           rank == [x \in K |-> Cardinality(below(x))]
<1>1. PICK n \in Nat : n = Cardinality(K)
  BY Zenon, FS_CardinalityType
<1>2. ASSUME NEW x \in K
      PROVE  IsFiniteSet(below(x)) /\ Cardinality(below(x)) \in 0 .. n - 1
  <2>1. IsFiniteSet(K \ {x}) /\ Cardinality(K \ {x}) = n - 1
    BY Zenon, <1>1, FS_RemoveElement
  <2>2. below(x) \in SUBSET (K \ {x})
    BY Zenon DEF OrdersAll
  <2> HIDE DEF below
  <2>3. IsFiniteSet(below(x)) /\ Cardinality(below(x)) <= Cardinality(K \ {x})
    BY Zenon, <2>1, <2>2, FS_Subset
  <2>4. Cardinality(below(x)) \in Nat
    BY Zenon, <2>3, FS_CardinalityType
  <2> QED
    BY <2>1, <2>3, <2>4
<1>3. ASSUME NEW x \in K, NEW y \in K, <<x, y>> \in R PROVE rank[x] # rank[y]
  <2>1. below(x) \in SUBSET below(y) /\ x \in below(y) /\ x \notin below(x)
    BY Zenon, <1>3 DEF OrdersAll
  <2>2. below(x) # below(y)
    BY Zenon, <2>1
  <2> HIDE DEF below
  <2>3. Cardinality(below(y)) # Cardinality(below(x))
    BY Zenon, <1>2, <2>1, <2>2, FS_Subset
  <2> QED
    BY Zenon, <2>3
<1>4. rank \in Injection(K, 0 .. n - 1)
  <2>1. rank \in [K -> 0 .. n - 1]
    <3> HIDE DEF below
    <3> QED
      BY Zenon, <1>2
  <2>2. \A x, y \in K : rank[x] = rank[y] => x = y
    <3> HIDE DEF rank
    <3> QED
      BY Zenon, <1>3 DEF OrdersAll
  <2> HIDE DEF rank
  <2> QED
    BY Zenon, <2>1, <2>2 DEF Injection, IsInjective
<1>5. IsFiniteSet(0 .. n - 1) /\ Cardinality(0 .. n - 1) = n
  BY FS_Interval
<1>6. rank \in Surjection(K, 0 .. n - 1)
  <2> HIDE DEF rank
  <2> QED
    BY Zenon, <1>1, <1>4, <1>5, FS_Injection
<1>7. i - 1 \in 0 .. n - 1
  BY <1>1
<1>8. PICK x \in K : rank[x] = i - 1
  <2> HIDE DEF rank
  <2> QED
    BY Zenon, <1>6, <1>7 DEF Surjection
<1> QED
  BY Zenon, <1>8 DEF Preceding

--------------------------------------------------------------------------------
(* g is defined by recursion: f[k] takes its value at k - 1 to that at k.    *)
Recursion(g, S, x, f, n) ==
  /\ g \in [0 .. n -> S] /\ g[0] = x
  /\ \A k \in 1 .. n : g[k] = f[k][g[k - 1]]

(* Such a function exists.                                                   *)
LEMMA RecursionExists ==
  ASSUME NEW S, NEW x \in S, NEW n \in Nat, NEW f \in [1 .. n -> [S -> S]]
  PROVE  \E g : Recursion(g, S, x, f, n)
<1> DEFINE T == {m \in Nat : m <= n => \E g : Recursion(g, S, x, f, m)}
<1>1. 0 \in T
  <2> DEFINE g == [k \in 0 .. 0 |-> x]
  <2>1. Recursion(g, S, x, f, 0)
    BY DEF Recursion
  <2> QED
    BY Zenon, <2>1
<1>2. ASSUME NEW m \in Nat, m \in T PROVE m + 1 \in T
  <2> SUFFICES ASSUME m + 1 <= n PROVE \E g : Recursion(g, S, x, f, m + 1)
    OBVIOUS
  <2>1. PICK g : Recursion(g, S, x, f, m)
    BY <1>2
  <2> DEFINE h == [k \in 0 .. m + 1 |-> IF k <= m THEN g[k] ELSE f[m + 1][g[m]]]
  <2>2. g \in [0 .. m -> S] /\ m \in 0 .. m /\ m + 1 \in 1 .. n
    BY <2>1 DEF Recursion
  <2>3. f[m + 1][g[m]] \in S
    BY Zenon, <2>2
  <2>4. \A k \in 0 .. m : k \in 0 .. m + 1 /\ h[k] = g[k]
    OBVIOUS
  <2>5. h[m + 1] = f[m + 1][g[m]]
    OBVIOUS
  <2>6. h \in [0 .. m + 1 -> S]
    BY <2>2, <2>3
  <2>7. ASSUME NEW k \in 1 .. m + 1 PROVE h[k] = f[k][h[k - 1]]
    <3> HIDE DEF h
    <3>1. CASE k \in 1 .. m
      <4>1. k \in 0 .. m /\ k - 1 \in 0 .. m
        BY <3>1
      <4> QED
        BY Zenon, <2>1, <2>4, <3>1, <4>1 DEF Recursion
    <3>2. CASE k = m + 1
      <4>1. k - 1 = m
        BY <3>2
      <4> QED
        BY Zenon, <2>2, <2>4, <2>5, <3>2, <4>1
    <3> QED
      BY <3>1, <3>2
  <2>8. h[0] = x
    <3>1. 0 \in 0 .. m
      OBVIOUS
    <3> HIDE DEF h
    <3> QED
      BY Zenon, <2>1, <2>4, <3>1 DEF Recursion
  <2>9. Recursion(h, S, x, f, m + 1)
    <3> HIDE DEF h
    <3> QED
      BY Zenon, <2>6, <2>7, <2>8 DEF Recursion
  <2> QED
    BY Zenon, <2>9
<1>3. Nat \subseteq T
  <2> HIDE DEF T
  <2> QED
    BY <1>1, <1>2, NaturalInduction
<1> QED
  BY <1>3

(* Two functions that start alike and go on alike are alike.                 *)
GoOnAlike(g, h, n) ==
  g[0] = h[0] /\ \A k \in 1 .. n : g[k - 1] = h[k - 1] => g[k] = h[k]

AlikeTo(g, h, n) == \A k \in 0 .. n : g[k] = h[k]

LEMMA SameRecursion ==
  ASSUME NEW n \in Nat, NEW g, NEW h, GoOnAlike(g, h, n)
  PROVE  AlikeTo(g, h, n)
<1>0. g[0] = h[0] /\ \A k \in 1 .. n : g[k - 1] = h[k - 1] => g[k] = h[k]
  BY Zenon DEF GoOnAlike
<1> DEFINE T == {k \in Nat : k <= n => g[k] = h[k]}
<1>1. 0 \in T
  BY <1>0
<1>2. ASSUME NEW k \in Nat, k \in T PROVE k + 1 \in T
  <2> SUFFICES ASSUME k + 1 <= n PROVE g[k + 1] = h[k + 1]
    OBVIOUS
  <2>1. g[k] = h[k] /\ k + 1 \in 1 .. n /\ (k + 1) - 1 = k
    BY <1>2
  <2> QED
    BY Zenon, <1>0, <2>1
<1>3. Nat \subseteq T
  <2> HIDE DEF T
  <2> QED
    BY <1>1, <1>2, NaturalInduction
<1> QED
  BY <1>3 DEF AlikeTo

--------------------------------------------------------------------------------
(* The order of keys.                                                        *)

(* Less, with the place where the two differ.                                *)
DiffersFrom(s, t, i) ==
  /\ \A j \in 1 .. i - 1 : j <= Len(s) /\ s[j] = t[j]
  /\ i > Len(s) \/ (i <= Len(s) /\ s[i] < t[i])

LEMMA LessAt == \A s, t : Less(s, t) <=> \E i \in 1 .. Len(t) : DiffersFrom(s, t, i)
  BY Zenon DEF Less, DiffersFrom

(* No key is less than itself.                                               *)
LEMMA LessIrreflexive ==
  ASSUME NEW s \in Seq(Nat)
  PROVE  ~Less(s, s)
<1> SUFFICES ASSUME NEW i \in 1 .. Len(s), DiffersFrom(s, s, i) PROVE FALSE
  BY Zenon, LessAt
<1>1. Len(s) \in Nat /\ s[i] \in Nat
  BY Zenon, SequenceType
<1> QED
  BY <1>1 DEF DiffersFrom

(* Less is transitive: the first of the two places decides.                  *)
LEMMA LessTransitive ==
  ASSUME NEW s \in Seq(Nat), NEW t \in Seq(Nat), NEW u \in Seq(Nat), Less(s, t), Less(t, u)
  PROVE  Less(s, u)
<1>1. PICK i \in 1 .. Len(t) : DiffersFrom(s, t, i)
  BY Zenon, LessAt
<1>2. PICK j \in 1 .. Len(u) : DiffersFrom(t, u, j)
  BY Zenon, LessAt
<1>3. PICK ls \in Nat, lt \in Nat, lu \in Nat : ls = Len(s) /\ lt = Len(t) /\ lu = Len(u)
  <2>1. Len(s) \in Nat /\ Len(t) \in Nat /\ Len(u) \in Nat
    BY Zenon, SequenceType
  <2> QED
    BY Zenon, <2>1
<1>4. i \in 1 .. lt /\ j \in 1 .. lu
  BY Zenon, <1>3
<1>5. /\ \A k \in 1 .. ls : s[k] \in Nat
      /\ \A k \in 1 .. lt : t[k] \in Nat
      /\ \A k \in 1 .. lu : u[k] \in Nat
  BY Zenon, <1>3, SequenceType
<1>6. /\ \A k \in 1 .. i - 1 : k <= ls /\ s[k] = t[k]
      /\ i > ls \/ (i <= ls /\ s[i] < t[i])
      /\ \A k \in 1 .. j - 1 : k <= lt /\ t[k] = u[k]
      /\ j > lt \/ (j <= lt /\ t[j] < u[j])
  BY Zenon, <1>1, <1>2, <1>3 DEF DiffersFrom
<1>7. CASE i < j
  <2>1. i \in 1 .. lu /\ i \in 1 .. j - 1
    BY <1>4, <1>7
  <2>2. t[i] = u[i]
    BY Zenon, <1>6, <2>1
  <2>3. \A k \in 1 .. i - 1 : k \in 1 .. j - 1
    BY <1>4, <1>7
  <2>4. \A k \in 1 .. i - 1 : k <= ls /\ s[k] = u[k]
    BY Zenon, <1>6, <2>3
  <2>5. i > ls \/ (i <= ls /\ s[i] < u[i])
    BY Zenon, <1>6, <2>2
  <2>6. DiffersFrom(s, u, i)
    BY Zenon, <1>3, <2>4, <2>5 DEF DiffersFrom
  <2> QED
    BY Zenon, <1>3, <2>1, <2>6, LessAt
<1>8. CASE j <= i
  <2>1. j \in 1 .. lt /\ j <= lt /\ ~(j > lt)
    BY <1>4, <1>8
  <2>2. t[j] < u[j]
    BY Zenon, <1>6, <2>1
  <2>3. \A k \in 1 .. j - 1 : k \in 1 .. i - 1
    BY <1>4, <1>8
  <2>4. \A k \in 1 .. j - 1 : k <= ls /\ s[k] = u[k]
    BY Zenon, <1>6, <2>3
  <2>5. j > ls \/ (j <= ls /\ s[j] < u[j])
    <3>1. CASE j = i
      <4>1. s[i] < t[i] /\ i <= ls => s[i] < u[i]
        BY <1>4, <1>5, <2>1, <2>2, <3>1
      <4> QED
        BY Zenon, <1>6, <3>1, <4>1
    <3>2. CASE j < i
      <4>1. j \in 1 .. i - 1
        BY <1>4, <3>2
      <4>2. j <= ls /\ s[j] = t[j]
        BY Zenon, <1>6, <4>1
      <4> QED
        BY Zenon, <2>2, <4>2
    <3> QED
      BY <1>4, <1>8, <3>1, <3>2
  <2>6. DiffersFrom(s, u, j)
    BY Zenon, <1>3, <2>4, <2>5 DEF DiffersFrom
  <2> QED
    BY Zenon, <2>6, LessAt
<1> QED
  BY <1>4, <1>7, <1>8

(* Of two keys one is less: at the first place where they differ.            *)
LEMMA LessTotal ==
  ASSUME NEW s \in Seq(Nat), NEW t \in Seq(Nat), s # t
  PROVE  Less(s, t) \/ Less(t, s)
<1>1. PICK m \in Nat, n \in Nat : m = Len(s) /\ n = Len(t)
  <2>1. Len(s) \in Nat /\ Len(t) \in Nat
    BY Zenon, SequenceType
  <2> QED
    BY Zenon, <2>1
<1>2. (\A k \in 1 .. m : s[k] \in Nat) /\ (\A k \in 1 .. n : t[k] \in Nat)
  BY Zenon, <1>1, SequenceType
<1> DEFINE D == {i \in Nat : i > 0 /\ (i <= m \/ i <= n) /\ (i > m \/ i > n \/ s[i] # t[i])}
<1>3. D # {}
  <2> SUFFICES ASSUME D = {} PROVE s = t
    BY Zenon
  <2>1. m = n
    <3>1. m < n => m + 1 \in D
      OBVIOUS
    <3>2. n < m => n + 1 \in D
      OBVIOUS
    <3>3. ~(m < n) /\ ~(n < m)
      BY Zenon, <3>1, <3>2
    <3> QED
      BY <3>3
  <2>2. ASSUME NEW i \in 1 .. m PROVE s[i] = t[i]
    <3>1. s[i] # t[i] => i \in D
      OBVIOUS
    <3> QED
      BY Zenon, <3>1
  <2>3. s = [i \in 1 .. m |-> s[i]] /\ t = [i \in 1 .. n |-> t[i]]
    BY <1>1
  <2> QED
    BY Zenon, <2>1, <2>2, <2>3
<1>4. PICK i \in D : \A j \in D : i <= j
  <2>1. D \subseteq Nat
    BY Zenon
  <2> QED
    BY Zenon, <1>3, <2>1, LeastNatural
<1>5. i \in Nat /\ i > 0 /\ (i <= m \/ i <= n) /\ (i > m \/ i > n \/ s[i] # t[i])
  BY Zenon, <1>4
<1>6. ASSUME NEW k \in 1 .. i - 1 PROVE k <= m /\ k <= n /\ s[k] = t[k]
  <2>1. k \in Nat /\ k > 0 /\ (k <= m \/ k <= n) /\ ~(i <= k)
    BY <1>5
  <2>2. k \notin D
    BY Zenon, <1>4, <2>1
  <2>3. ~(k > m) /\ ~(k > n) /\ s[k] = t[k]
    BY Zenon, <2>1, <2>2
  <2> QED
    BY <2>1, <2>3
<1> HIDE DEF D
<1>7. CASE i > m \/ (i <= m /\ i <= n /\ s[i] < t[i])
  <2>1. i \in 1 .. n
    BY <1>5, <1>7
  <2>2. DiffersFrom(s, t, i)
    BY Zenon, <1>1, <1>6, <1>7 DEF DiffersFrom
  <2> QED
    BY Zenon, <1>1, <2>1, <2>2, LessAt
<1>8. CASE i > n \/ (i <= m /\ i <= n /\ t[i] < s[i])
  <2>1. i \in 1 .. m
    BY <1>5, <1>8
  <2>2. DiffersFrom(t, s, i)
    BY Zenon, <1>1, <1>6, <1>8 DEF DiffersFrom
  <2> QED
    BY Zenon, <1>1, <2>1, <2>2, LessAt
<1>9. CASE i <= m /\ i <= n
  <2>1. i \in 1 .. m /\ i \in 1 .. n
    BY <1>5, <1>9
  <2>2. s[i] \in Nat /\ t[i] \in Nat
    BY Zenon, <1>2, <2>1
  <2>3. s[i] < t[i] \/ t[i] < s[i]
    BY <1>5, <1>9, <2>2
  <2> QED
    BY Zenon, <1>7, <1>8, <1>9, <2>3
<1> QED
  BY <1>5, <1>7, <1>8, <1>9

Below(K, x) == {y \in K : Less(y, x)}

(* The greater of two keys has more keys below it.                           *)
LEMMA RankGrows ==
  ASSUME NEW K, IsFiniteSet(K), K \subseteq Seq(Nat), NEW x \in K, NEW y \in K, Less(x, y)
  PROVE  /\ Cardinality(Below(K, x)) \in Nat /\ Cardinality(Below(K, y)) \in Nat
         /\ Cardinality(Below(K, x)) < Cardinality(Below(K, y))
<1>1. PICK a, b : a = Below(K, x) /\ b = Below(K, y)
  BY Zenon
<1>2. a \in SUBSET b /\ x \in b /\ x \notin a
  BY Zenon, <1>1, LessTransitive, LessIrreflexive DEF Below
<1>3. IsFiniteSet(a) /\ IsFiniteSet(b)
  BY Zenon, <1>1, FS_Subset DEF Below
<1>4. Cardinality(a) \in Nat /\ Cardinality(b) \in Nat
  BY Zenon, <1>3, FS_CardinalityType
<1>5. Cardinality(a) <= Cardinality(b) /\ Cardinality(b) # Cardinality(a)
  BY Zenon, <1>2, <1>3, FS_Subset
<1>6. Cardinality(a) < Cardinality(b)
  BY <1>4, <1>5
<1> QED
  BY Zenon, <1>1, <1>4, <1>6

(* Ascending lists every key of a finite set once, the smaller ones first.   *)
LEMMA AscendingIsSorted ==
  ASSUME NEW K, IsFiniteSet(K), K \subseteq Seq(Nat)
  PROVE  /\ Ascending(K) \in Seq(K) /\ Len(Ascending(K)) = Cardinality(K)
         /\ \A k \in K : \E i \in DOMAIN Ascending(K) : Ascending(K)[i] = k
         /\ \A i, j \in DOMAIN Ascending(K) : i < j => Less(Ascending(K)[i], Ascending(K)[j])
<1>a. PICK a : a = Ascending(K)
  BY Zenon
<1>1. PICK n \in Nat : n = Cardinality(K) /\ a = Ascending(K)
  BY Zenon, <1>a, FS_CardinalityType
<1>2. a = [i \in 1 .. n |-> CHOOSE k \in K : Cardinality(Below(K, k)) = i - 1]
  BY Zenon, <1>1 DEF Ascending, Below
<1>3. ASSUME NEW i \in 1 .. n PROVE a[i] \in K /\ Cardinality(Below(K, a[i])) = i - 1
  <2>1. PICK R : R = {p \in K \X K : Less(p[1], p[2])}
    BY Zenon
  <2>2. \A x, y \in K : <<x, y>> \in R <=> Less(x, y)
    BY <2>1
  <2>3. OrdersAll(R, K)
    <3>1. \A x \in K : <<x, x>> \notin R
      BY Zenon, <2>2, LessIrreflexive
    <3>2. \A x, y \in K : x # y => <<x, y>> \in R \/ <<y, x>> \in R
      BY Zenon, <2>2, LessTotal
    <3>3. \A x, y, z \in K : <<x, y>> \in R /\ <<y, z>> \in R => <<x, z>> \in R
      BY Zenon, <2>2, LessTransitive
    <3> QED
      BY Zenon, <3>1, <3>2, <3>3 DEF OrdersAll
  <2>4. i \in 1 .. Cardinality(K)
    BY Zenon, <1>1
  <2>5. PICK x \in K : Cardinality(Preceding(R, K, x)) = i - 1
    BY Zenon, <2>3, <2>4, RankExists
  <2>6. Preceding(R, K, x) = Below(K, x)
    BY Zenon, <2>2 DEF Below, Preceding
  <2>7. \E k \in K : Cardinality(Below(K, k)) = i - 1
    BY Zenon, <2>5, <2>6
  <2> QED
    BY Zenon, <1>2, <2>7
<1>4. a \in Seq(K) /\ DOMAIN a = 1 .. n /\ Len(a) = n
  <2>1. a \in [1 .. n -> K]
    BY Zenon, <1>2, <1>3
  <2>2. DOMAIN a = 1 .. n
    BY Zenon, <1>2
  <2>3. a \in Seq(K)
    BY <2>1, <2>2, SequencesAreFunctions
  <2>4. Len(a) = n
    BY <2>2, <2>3, SequenceType
  <2> QED
    BY Zenon, <2>2, <2>3, <2>4
<1>5. ASSUME NEW i \in 1 .. n, NEW j \in 1 .. n, i < j PROVE Less(a[i], a[j])
  <2>1. a[i] \in K /\ a[j] \in K /\ a[i] # a[j]
    <3>1. i - 1 # j - 1
      BY <1>5
    <3> QED
      BY Zenon, <1>3, <3>1
  <2>2. ~Less(a[j], a[i])
    <3> SUFFICES ASSUME Less(a[j], a[i]) PROVE FALSE
      BY Zenon
    <3>1. Cardinality(Below(K, a[j])) < Cardinality(Below(K, a[i]))
      BY Zenon, <2>1, RankGrows
    <3>2. j - 1 < i - 1
      BY Zenon, <1>3, <3>1
    <3> QED
      BY <1>5, <3>2
  <2> QED
    BY Zenon, <2>1, <2>2, LessTotal
<1>6. ASSUME NEW k \in K PROVE \E i \in 1 .. n : a[i] = k
  <2>1. PICK r : r = Cardinality(Below(K, k))
    BY Zenon
  <2>2. r \in 0 .. n - 1
    <3>1. IsFiniteSet(K \ {k}) /\ Cardinality(K \ {k}) = n - 1
      BY Zenon, <1>1, FS_RemoveElement
    <3>2. Below(K, k) \in SUBSET (K \ {k})
      BY Zenon, LessIrreflexive DEF Below
    <3>3. IsFiniteSet(Below(K, k)) /\ Cardinality(Below(K, k)) <= Cardinality(K \ {k})
      BY Zenon, <3>1, <3>2, FS_Subset
    <3>4. Cardinality(Below(K, k)) \in Nat
      BY Zenon, <3>3, FS_CardinalityType
    <3> QED
      BY <2>1, <3>1, <3>3, <3>4
  <2>3. r + 1 \in 1 .. n /\ (r + 1) - 1 = r /\ ~(r < r)
    BY <2>2
  <2>4. a[r + 1] \in K /\ Cardinality(Below(K, a[r + 1])) = r
    BY Zenon, <1>3, <2>3
  <2>5. a[r + 1] = k
    <3> SUFFICES ASSUME a[r + 1] # k PROVE FALSE
      BY Zenon
    <3>1. Less(a[r + 1], k) \/ Less(k, a[r + 1])
      BY Zenon, <2>4, LessTotal
    <3>2. r < r
      BY Zenon, <2>1, <2>4, <3>1, RankGrows
    <3> QED
      BY Zenon, <2>3, <3>2
  <2> QED
    BY Zenon, <2>3, <2>5
<1> QED
  BY Zenon, <1>1, <1>4, <1>5, <1>6

(* The keys of a storage are finitely many byte strings.                     *)
Storage(data) == IsFiniteSet(DOMAIN data) /\ DOMAIN data \subseteq Seq(Nat)

Selected(data, start, end) == {k \in DOMAIN data : InBounds(k, start, end)}

(* The keys within the bounds, each once and in the order asked for, with    *)
(* their values.                                                             *)
Lists(records, keys, data, start, end, order) ==
  /\ keys \in Seq(Selected(data, start, end)) /\ Len(keys) = Cardinality(Selected(data, start, end))
  /\ records = [i \in DOMAIN keys |-> <<keys[i], data[keys[i]]>>]
  /\ \A k \in Selected(data, start, end) : \E i \in DOMAIN keys : keys[i] = k
  /\ \A i, j \in DOMAIN keys : i < j =>
       IF order = "Ascending" THEN Less(keys[i], keys[j]) ELSE Less(keys[j], keys[i])

(* The records of a range are those of the keys within the bounds, in order  *)
(* (MemoryStorage::range).                                                   *)
LEMMA RangeIsSorted ==
  ASSUME NEW data, Storage(data), NEW start, NEW end, NEW order
  PROVE  \E keys : Lists(range(data, start, end, order), keys, data, start, end, order)
<1>1. PICK K : K = Selected(data, start, end)
  BY Zenon
<1>2. IsFiniteSet(K) /\ K \subseteq Seq(Nat)
  BY Zenon, <1>1, FS_Subset DEF Selected, Storage
<1>3. PICK a : a = Ascending(K)
  BY Zenon
<1>4. /\ a \in Seq(K) /\ Len(a) = Cardinality(K)
      /\ \A k \in K : \E i \in DOMAIN a : a[i] = k
      /\ \A i, j \in DOMAIN a : i < j => Less(a[i], a[j])
  BY Zenon, <1>2, <1>3, AscendingIsSorted
<1>5. PICK n \in Nat : n = Len(a) /\ DOMAIN a = 1 .. n
  BY Zenon, <1>4, SequenceType
<1>6. PICK sorted : sorted = IF order = "Ascending" THEN a ELSE [i \in 1 .. n |-> a[n + 1 - i]]
  BY Zenon
<1>7. range(data, start, end, order) = [i \in DOMAIN sorted |-> <<sorted[i], data[sorted[i]]>>]
  BY Zenon, <1>1, <1>3, <1>5, <1>6 DEF range, Selected
<1>8. CASE order = "Ascending"
  BY Zenon, <1>1, <1>4, <1>6, <1>7, <1>8 DEF Lists
<1>9. CASE order # "Ascending"
  <2>1. sorted = [i \in 1 .. n |-> a[n + 1 - i]] /\ DOMAIN sorted = 1 .. n
    BY Zenon, <1>6, <1>9
  <2>2. ASSUME NEW i \in 1 .. n PROVE n + 1 - i \in 1 .. n /\ n + 1 - (n + 1 - i) = i
    OBVIOUS
  <2>3. \A i \in 1 .. n : sorted[i] = a[n + 1 - i] /\ sorted[i] \in K
    <3>1. \A i \in 1 .. n : a[i] \in K
      BY Zenon, <1>4, <1>5, SequenceType
    <3> QED
      BY Zenon, <2>1, <2>2, <3>1
  <2>4. sorted \in Seq(K) /\ Len(sorted) = Cardinality(K)
    <3>1. sorted \in [1 .. n -> K]
      BY Zenon, <2>1, <2>3
    <3>2. sorted \in Seq(K)
      BY <3>1, SequencesAreFunctions
    <3>3. Len(sorted) = n
      BY <2>1, <3>2, SequenceType
    <3> QED
      BY Zenon, <1>4, <1>5, <3>2, <3>3
  <2>5. ASSUME NEW k \in K PROVE \E i \in 1 .. n : sorted[i] = k
    <3>1. PICK i \in 1 .. n : a[i] = k
      BY Zenon, <1>4, <1>5
    <3> QED
      BY Zenon, <2>2, <2>3, <3>1
  <2>6. ASSUME NEW i \in 1 .. n, NEW j \in 1 .. n, i < j PROVE Less(sorted[j], sorted[i])
    <3>1. PICK p \in 1 .. n, q \in 1 .. n : p = n + 1 - j /\ q = n + 1 - i
      BY Zenon, <2>2
    <3>2. p < q
      BY <2>6, <3>1
    <3>3. Less(a[p], a[q])
      BY Zenon, <1>4, <1>5, <3>2
    <3>4. sorted[j] = a[p] /\ sorted[i] = a[q]
      BY Zenon, <2>3, <3>1
    <3> QED
      BY Zenon, <3>3, <3>4
  <2> QED
    BY Zenon, <1>1, <1>7, <1>9, <2>1, <2>4, <2>5, <2>6 DEF Lists
<1> QED
  BY Zenon, <1>8, <1>9

--------------------------------------------------------------------------------
(* The maps.                                                                 *)

IsSet(w, data, key, value) == w = set(data, key, value)
IsRemoved(w, data, key) == w = remove(data, key)

Elsewhere(w, data, key) == \A k \in DOMAIN data : k # key => w[k] = data[k]
SameElsewhere(w, data, key) == \A k : k # key => get(w, k) = get(data, k)

Holds(w, data, key, value) ==
  /\ DOMAIN w = DOMAIN data \cup {key} /\ w[key] = value /\ Elsewhere(w, data, key)
  /\ get(w, key) = <<value>> /\ SameElsewhere(w, data, key)

LEMMA SetOperation ==
  ASSUME NEW data, NEW key, NEW value, NEW w, IsSet(w, data, key, value)
  PROVE  Holds(w, data, key, value)
<1>1. /\ DOMAIN w = DOMAIN data \cup {key} /\ w[key] = value
      /\ \A k \in DOMAIN data : k # key => w[k] = data[k]
  BY Zenon DEF IsSet, set
<1> QED
  BY Zenon, <1>1 DEF get, Elsewhere, SameElsewhere, Holds

LEMMA RemoveOperation ==
  ASSUME NEW data, NEW key, NEW w, IsRemoved(w, data, key)
  PROVE  /\ DOMAIN w = DOMAIN data \ {key} /\ Elsewhere(w, data, key)
         /\ get(w, key) = <<>> /\ SameElsewhere(w, data, key)
<1>1. /\ DOMAIN w = DOMAIN data \ {key}
      /\ \A k \in DOMAIN data : k # key => w[k] = data[k]
  BY Zenon DEF IsRemoved, remove
<1> QED
  BY Zenon, <1>1 DEF get, Elsewhere, SameElsewhere
================================================================================
