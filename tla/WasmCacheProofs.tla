--------------------------- MODULE WasmCacheProofs ---------------------------
(***************************************************************************)
(* Proofs about the code cache, for any threads, codes, versions and cache *)
(* size, with and without faults.  First InMemoryCache by itself: what it  *)
(* evicts, that it stays within its size and that it holds a code once.    *)
(* Then the three levels of the cache with the calls in progress and, last *)
(* and without faults, what the lock and the threads that wait for it see. *)
(***************************************************************************)
EXTENDS WasmCache, Foundations

(* Sequences, for the steps that Zenon proves.                               *)
LEMMA LargerSequences ==
  ASSUME NEW S, NEW T, S \subseteq T, NEW s \in Seq(S)
  PROVE  s \in Seq(T)
OBVIOUS

LEMMA SameSequence ==
  ASSUME NEW S, NEW s \in Seq(S), NEW t \in Seq(S), Len(s) = Len(t),
         \A i \in 1 .. Len(s) : s[i] = t[i]
  PROVE  s = t
OBVIOUS

LEMMA PartOfSequence ==
  ASSUME NEW S, NEW s, NEW m \in Int, NEW n \in Int, \A i \in m .. n : s[i] \in S
  PROVE  /\ SubSeq(s, m, n) \in Seq(S)
         /\ Len(SubSeq(s, m, n)) = IF m <= n THEN n - m + 1 ELSE 0
         /\ \A i \in 1 .. n - m + 1 : SubSeq(s, m, n)[i] = s[m + i - 1]
OBVIOUS

(* Numbers from 1 on, up to some point, are as many as that point says.      *)
LEMMA InitialNumbers ==
  ASSUME NEW n \in Nat, NEW R, R \subseteq 1 .. n,
         \A i \in R, j \in 1 .. n : j <= i => j \in R
  PROVE  /\ IsFiniteSet(R) /\ Cardinality(R) \in 0 .. n
         /\ R = 1 .. Cardinality(R)
<1>1. ASSUME NEW k \in 0 .. n, R = 1 .. k
      PROVE  IsFiniteSet(R) /\ Cardinality(R) = k
  BY <1>1, FS_Interval
<1>2. CASE R = 1 .. n
  BY <1>1, <1>2
<1>3. CASE R # 1 .. n
  <2> DEFINE others == (1 .. n) \ R
  <2>1. others \subseteq Nat /\ others # {}
    <3>1. 1 .. n \subseteq Nat
      OBVIOUS
    <3>2. ~(1 .. n \subseteq R)
      BY Zenon, <1>3
    <3> QED
      BY Zenon, <3>1, <3>2
  <2>2. PICK j \in others : \A i \in others : j <= i
    BY Zenon, <2>1, LeastNatural
  <2>3. j \in 1 .. n /\ j \notin R
    BY <2>2
  <2>4. R = 1 .. j - 1
    <3>1. ASSUME NEW i \in R PROVE i \in 1 .. j - 1
      <4>1. i \in 1 .. n /\ ~(j <= i)
        BY Zenon, <2>3
      <4> QED
        BY <2>3, <4>1
    <3>2. ASSUME NEW i \in 1 .. j - 1 PROVE i \in R
      <4>1. i \in 1 .. n /\ ~(j <= i)
        BY <2>3
      <4> QED
        BY Zenon, <2>2, <4>1
    <3> QED
      BY Zenon, <3>1, <3>2
  <2> QED
    BY <1>1, <2>3, <2>4
<1> QED
  BY Zenon, <1>2, <1>3

--------------------------------------------------------------------------------
(* f[k] is the total of the first k of n weights.                            *)
RunningTotal(f, w, n) ==
  /\ f \in [0 .. n -> Nat] /\ f[0] = 0
  /\ \A k \in 1 .. n : f[k] = f[k - 1] + w[k]

(* There are running totals of any weights, ...                              *)
LEMMA TotalExists ==
  ASSUME NEW n \in Nat, NEW w \in [1 .. n -> Nat]
  PROVE  \E f : RunningTotal(f, w, n)
<1> DEFINE T == {m \in Nat : m <= n => \E f : RunningTotal(f, w, m)}
<1>1. 0 \in T
  <2> DEFINE g == [k \in 0 .. 0 |-> 0]
  <2>1. RunningTotal(g, w, 0)
    BY DEF RunningTotal
  <2> QED
    BY Zenon, <2>1
<1>2. ASSUME NEW m \in Nat, m \in T PROVE m + 1 \in T
  <2> SUFFICES ASSUME m + 1 <= n PROVE \E f : RunningTotal(f, w, m + 1)
    OBVIOUS
  <2>1. m <= n /\ m + 1 \in 1 .. n
    OBVIOUS
  <2>2. PICK f : RunningTotal(f, w, m)
    BY Zenon, <1>2, <2>1
  <2> DEFINE g == [k \in 0 .. m + 1 |-> IF k = m + 1 THEN f[m] + w[m + 1] ELSE f[k]]
  <2>3. f \in [0 .. m -> Nat] /\ f[0] = 0 /\ \A k \in 1 .. m : f[k] = f[k - 1] + w[k]
    BY Zenon, <2>2 DEF RunningTotal
  <2>4. w[m + 1] \in Nat
    BY Zenon, <2>1
  <2>5. \A k \in 0 .. m : g[k] = f[k]
    OBVIOUS
  <2>6. g[m + 1] = g[m] + w[m + 1]
    BY <2>5
  <2>7. g \in [0 .. m + 1 -> Nat] /\ g[0] = 0
    BY <2>3, <2>4
  <2>8. ASSUME NEW k \in 1 .. m + 1 PROVE g[k] = g[k - 1] + w[k]
    <3> HIDE DEF g
    <3>1. CASE k = m + 1
      BY <2>6, <3>1
    <3>2. CASE k # m + 1
      <4>1. k \in 1 .. m /\ k \in 0 .. m /\ k - 1 \in 0 .. m
        BY <3>2
      <4>2. g[k] = f[k] /\ g[k - 1] = f[k - 1]
        BY Zenon, <2>5, <4>1
      <4> QED
        BY Zenon, <2>3, <4>1, <4>2
    <3> QED
      BY Zenon, <3>1, <3>2
  <2>9. RunningTotal(g, w, m + 1)
    BY Zenon, <2>7, <2>8 DEF RunningTotal
  <2> QED
    BY Zenon, <2>9
<1>3. Nat \subseteq T
  <2> HIDE DEF T
  <2> QED
    BY Zenon, <1>1, <1>2, NaturalInduction
<1> QED
  BY <1>3

(* ... and they agree as far as the weights do.                              *)
LEMMA TotalUnique ==
  ASSUME NEW n \in Nat, NEW m \in Nat, n <= m, NEW v, NEW w,
         NEW f, RunningTotal(f, v, n), NEW g, RunningTotal(g, w, m),
         \A k \in 1 .. n : v[k] = w[k]
  PROVE  \A k \in 0 .. n : f[k] = g[k]
<1> DEFINE T == {k \in Nat : k <= n => f[k] = g[k]}
<1>1. 0 \in T
  BY DEF RunningTotal
<1>2. ASSUME NEW k \in Nat, k \in T PROVE k + 1 \in T
  <2> SUFFICES ASSUME k + 1 <= n PROVE f[k + 1] = g[k + 1]
    OBVIOUS
  <2>1. f[k] = g[k]
    BY <1>2
  <2>2. k + 1 \in 1 .. n /\ k + 1 \in 1 .. m /\ (k + 1) - 1 = k
    OBVIOUS
  <2>3. f[k + 1] = f[(k + 1) - 1] + v[k + 1] /\ g[k + 1] = g[(k + 1) - 1] + w[k + 1]
    BY Zenon, <2>2 DEF RunningTotal
  <2>4. v[k + 1] = w[k + 1]
    BY Zenon, <2>2
  <2> QED
    BY Zenon, <2>1, <2>2, <2>3, <2>4
<1>3. Nat \subseteq T
  <2> HIDE DEF T
  <2> QED
    BY Zenon, <1>1, <1>2, NaturalInduction
<1> QED
  BY <1>3

(* They never fall.                                                          *)
LEMMA TotalMonotone ==
  ASSUME NEW n \in Nat, NEW w \in [1 .. n -> Nat], NEW f, RunningTotal(f, w, n)
  PROVE  \A i, j \in 0 .. n : i <= j => f[i] <= f[j]
<1> SUFFICES ASSUME NEW i \in 0 .. n
             PROVE  \A j \in 0 .. n : i <= j => f[i] <= f[j]
  BY Zenon
<1>1. f \in [0 .. n -> Nat] /\ \A k \in 1 .. n : f[k] = f[k - 1] + w[k]
  BY Zenon DEF RunningTotal
<1> DEFINE T == {d \in Nat : i + d <= n => f[i] <= f[i + d]}
<1>2. 0 \in T
  BY <1>1
<1>3. ASSUME NEW d \in Nat, d \in T PROVE d + 1 \in T
  <2> SUFFICES ASSUME i + (d + 1) <= n PROVE f[i] <= f[i + (d + 1)]
    OBVIOUS
  <2>1. f[i] <= f[i + d]
    BY <1>3
  <2>2. i + (d + 1) \in 1 .. n /\ i + d \in 0 .. n /\ (i + (d + 1)) - 1 = i + d
    OBVIOUS
  <2>3. w[i + (d + 1)] \in Nat /\ f[i + (d + 1)] = f[i + d] + w[i + (d + 1)]
    BY Zenon, <1>1, <2>2
  <2>4. f[i] \in Nat /\ f[i + d] \in Nat
    BY Zenon, <1>1, <2>2
  <2> QED
    BY <2>1, <2>3, <2>4
<1>4. Nat \subseteq T
  <2> HIDE DEF T
  <2> QED
    BY Zenon, <1>2, <1>3, NaturalInduction
<1>5. ASSUME NEW j \in 0 .. n, i <= j PROVE f[i] <= f[j]
  <2>1. j - i \in Nat /\ i + (j - i) = j /\ j <= n
    BY <1>5
  <2>2. j - i \in T
    BY Zenon, <1>4, <2>1
  <2> QED
    BY <2>1, <2>2
<1> QED
  BY Zenon, <1>5

--------------------------------------------------------------------------------
(* The elements of two sequences joined, by their positions.                 *)
Joins(s, m, t, n) == s \in Seq(Module) /\ m = Len(s) /\ t \in Seq(Module) /\ n = Len(t)

HasParts(u, s, m, t, n) == \A i \in 1 .. m + n : u[i] = IF i <= m THEN s[i] ELSE t[i - m]

LEMMA Joined ==
  ASSUME NEW s, NEW m, NEW t, NEW n, Joins(s, m, t, n)
  PROVE  HasParts(s \o t, s, m, t, n)
BY Concatenation DEF Joins, HasParts

Weights(cache) == [k \in 1 .. Len(cache) |-> Size[cache[k].code]]

(* CumulativeSize is the last of the running totals of the sizes.            *)
LEMMA SizeIsTotal ==
  ASSUME NEW cache \in Seq(Module)
  PROVE  /\ Len(cache) \in Nat /\ Weights(cache) \in [1 .. Len(cache) -> Nat]
         /\ \E f : /\ RunningTotal(f, Weights(cache), Len(cache))
                   /\ CumulativeSize(cache) = f[Len(cache)]
<1> DEFINE n == Len(cache)
           w == Weights(cache)
           P(g) == g = [k \in 0 .. n |-> IF k = 0 THEN 0 ELSE g[k - 1] + Size[cache[k].code]]
           sum == CHOOSE g : P(g)
<1>1. n \in Nat /\ \A k \in 1 .. n : cache[k] \in Module
  BY Zenon, SequenceType
<1>2. \A k \in 1 .. n : Size[cache[k].code] \in Nat
  BY <1>1, SizeAssumption DEF Module
<1>3. w \in [1 .. n -> Nat] /\ \A k \in 1 .. n : w[k] = Size[cache[k].code]
  BY Zenon, <1>2 DEF Weights
<1>4. CumulativeSize(cache) = sum[n]
  BY Zenon DEF CumulativeSize
<1> HIDE DEF w, n
<1>5. \E g : P(g)
  <2>1. PICK f : RunningTotal(f, w, n)
    BY Zenon, <1>1, <1>3, TotalExists
  <2>2. f \in [0 .. n -> Nat] /\ f[0] = 0 /\ \A k \in 1 .. n : f[k] = f[k - 1] + Size[cache[k].code]
    BY Zenon, <1>3, <2>1 DEF RunningTotal
  <2>3. P(f)
    BY <1>1, <2>2
  <2> QED
    BY Zenon, <2>3
<1>6. P(sum)
  BY Zenon, <1>5
<1> HIDE DEF sum
<1>7. RunningTotal(sum, w, n)
  <2> DEFINE T == {k \in Nat : k <= n => sum[k] \in Nat}
  <2>1. DOMAIN sum = 0 .. n /\ sum[0] = 0 /\ \A k \in 1 .. n : sum[k] = sum[k - 1] + w[k]
    <3>1. DOMAIN sum = 0 .. n
      BY Zenon, <1>6
    <3>2. 0 \in 0 .. n /\ \A k \in 1 .. n : k \in 0 .. n /\ k # 0
      BY <1>1
    <3>3. sum[0] = 0
      BY Zenon, <1>6, <3>2
    <3>4. \A k \in 1 .. n : sum[k] = sum[k - 1] + Size[cache[k].code]
      BY Zenon, <1>6, <3>2
    <3> QED
      BY Zenon, <1>3, <3>1, <3>3, <3>4
  <2>2. 0 \in T
    BY <2>1
  <2>3. ASSUME NEW k \in Nat, k \in T PROVE k + 1 \in T
    <3> SUFFICES ASSUME k + 1 <= n PROVE sum[k + 1] \in Nat
      OBVIOUS
    <3>1. sum[k] \in Nat /\ k + 1 \in 1 .. n /\ (k + 1) - 1 = k
      BY <1>1, <2>3
    <3>2. sum[k + 1] = sum[k] + w[k + 1] /\ w[k + 1] \in Nat
      BY Zenon, <1>3, <2>1, <3>1
    <3> QED
      BY <3>1, <3>2
  <2>4. Nat \subseteq T
    <3> HIDE DEF T
    <3> QED
      BY Zenon, <2>2, <2>3, NaturalInduction
  <2>5. \A k \in 0 .. n : sum[k] \in Nat
    BY <1>1, <2>4
  <2>6. sum = [k \in 0 .. n |-> sum[k]]
    BY Zenon, <1>6
  <2>7. sum \in [0 .. n -> Nat]
    BY Zenon, <2>5, <2>6
  <2> QED
    BY Zenon, <2>1, <2>7 DEF RunningTotal
<1> QED
  BY Zenon, <1>1, <1>3, <1>4, <1>7 DEF n, w

(* The sizes of a front of the cache are the totals along the cache.         *)
LEMMA SizeOfFront ==
  ASSUME NEW cache \in Seq(Module), NEW f, RunningTotal(f, Weights(cache), Len(cache)),
         NEW i \in 0 .. Len(cache)
  PROVE  /\ SubSeq(cache, 1, i) \in Seq(Module) /\ Len(SubSeq(cache, 1, i)) = i
         /\ CumulativeSize(SubSeq(cache, 1, i)) = f[i]
<1> DEFINE front == SubSeq(cache, 1, i)
<1>1. /\ front \in Seq(Module) /\ Len(front) = i
      /\ \A k \in 1 .. i : front[k] = cache[k]
  <2>1. Len(cache) \in Nat /\ i \in Nat /\ i <= Len(cache) /\ \A k \in 1 .. i : cache[k] \in Module
    BY SequenceType
  <2> QED
    BY <2>1, PartOfSequence
<1> HIDE DEF front
<1>2. PICK g : RunningTotal(g, Weights(front), i) /\ CumulativeSize(front) = g[i]
  BY Zenon, <1>1, SizeIsTotal
<1>3. \A k \in 1 .. i : Weights(front)[k] = Weights(cache)[k]
  <2> SUFFICES ASSUME NEW k \in 1 .. i PROVE Weights(front)[k] = Weights(cache)[k]
    BY Zenon
  <2>1. k \in 1 .. Len(cache) /\ k \in 1 .. Len(front)
    BY <1>1, SequenceType
  <2> QED
    BY Zenon, <1>1, <2>1 DEF Weights
<1>4. i \in Nat /\ Len(cache) \in Nat /\ i <= Len(cache) /\ i \in 0 .. i
  BY SequenceType
<1>5. \A k \in 0 .. i : g[k] = f[k]
  BY <1>2, <1>3, <1>4, TotalUnique
<1> QED
  BY Zenon, <1>1, <1>2, <1>4, <1>5 DEF front

(* The size of two parts is the sum of their sizes.                          *)
LEMMA SizeOfConcat ==
  ASSUME NEW s \in Seq(Module), NEW t \in Seq(Module)
  PROVE  /\ CumulativeSize(s \o t) = CumulativeSize(s) + CumulativeSize(t)
         /\ CumulativeSize(s) \in Nat /\ CumulativeSize(t) \in Nat
<1> DEFINE m == Len(s)
           n == Len(t)
           u == s \o t
<1>1. m \in Nat /\ n \in Nat
  BY Zenon, SequenceType
<1>2. /\ u \in Seq(Module) /\ Len(u) = m + n
      /\ \A k \in 1 .. m : u[k] = s[k]
      /\ \A k \in 1 .. n : u[m + k] = t[k]
  <2>1. u \in Seq(Module) /\ Len(u) = m + n
    BY Concatenation
  <2>2. \A k \in 1 .. m + n : u[k] = IF k <= m THEN s[k] ELSE t[k - m]
    BY Concatenation
  <2> HIDE DEF u, m, n
  <2>3. ASSUME NEW k \in 1 .. n PROVE u[m + k] = t[k]
    <3>1. m + k \in 1 .. m + n /\ ~(m + k <= m) /\ (m + k) - m = k
      BY <1>1
    <3> QED
      BY Zenon, <2>2, <3>1
  <2> QED
    BY <1>1, <2>1, <2>2, <2>3
<1>3. PICK f : RunningTotal(f, Weights(s), m) /\ CumulativeSize(s) = f[m]
  BY Zenon, SizeIsTotal
<1>4. PICK g : RunningTotal(g, Weights(t), n) /\ CumulativeSize(t) = g[n]
  BY Zenon, SizeIsTotal
<1> HIDE DEF u, m, n
<1>5. PICK h : RunningTotal(h, Weights(u), m + n) /\ CumulativeSize(u) = h[m + n]
  BY Zenon, <1>2, SizeIsTotal
<1>6. h[m] = f[m]
  <2>1. \A k \in 1 .. m : Weights(s)[k] = Weights(u)[k]
    BY <1>1, <1>2 DEF Weights, m
  <2>2. m <= m + n /\ m \in 0 .. m /\ m + n \in Nat
    BY <1>1
  <2>3. \A k \in 0 .. m : f[k] = h[k]
    BY <1>1, <1>3, <1>5, <2>1, <2>2, TotalUnique
  <2> QED
    BY Zenon, <2>2, <2>3
<1>7. f[m] \in Nat /\ g[n] \in Nat
  BY <1>1, <1>3, <1>4 DEF RunningTotal
<1> DEFINE T == {k \in Nat : k <= n => h[m + k] = f[m] + g[k]}
<1>8. 0 \in T
  BY <1>1, <1>4, <1>6, <1>7 DEF RunningTotal
<1>9. ASSUME NEW k \in Nat, k \in T PROVE k + 1 \in T
  <2> SUFFICES ASSUME k + 1 <= n PROVE h[m + (k + 1)] = f[m] + g[k + 1]
    OBVIOUS
  <2>1. h[m + k] = f[m] + g[k]
    BY <1>1, <1>9
  <2>2. /\ m + (k + 1) \in 1 .. m + n /\ (m + (k + 1)) - 1 = m + k
        /\ k + 1 \in 1 .. n /\ (k + 1) - 1 = k /\ k \in 0 .. n
    BY <1>1
  <2>3. h[m + (k + 1)] = h[m + k] + Weights(u)[m + (k + 1)]
    BY Zenon, <1>5, <2>2 DEF RunningTotal
  <2>4. g[k + 1] = g[k] + Weights(t)[k + 1]
    BY Zenon, <1>4, <2>2 DEF RunningTotal
  <2>5. Weights(u)[m + (k + 1)] = Weights(t)[k + 1]
    BY Zenon, <1>2, <2>2 DEF Weights, n
  <2>6. g[k] \in Nat /\ Weights(t)[k + 1] \in Nat
    BY Zenon, <1>4, <2>2, SizeIsTotal DEF RunningTotal, n
  <2> QED
    BY <1>7, <2>1, <2>3, <2>4, <2>5, <2>6
<1>10. Nat \subseteq T
  <2> HIDE DEF T
  <2> QED
    BY Zenon, <1>8, <1>9, NaturalInduction
<1>11. h[m + n] = f[m] + g[n]
  BY <1>1, <1>10
<1> QED
  BY Zenon, <1>3, <1>4, <1>5, <1>7, <1>11 DEF u

(* A module that is not too big leaves some front of the cache, the longest  *)
(* that has room for it.                                                     *)
LEMMA EvictedProperties ==
  ASSUME NEW cache \in Seq(Module), NEW m \in Module, MemoryCacheSize # 0, ~TooBig(m)
  PROVE  \E k \in 0 .. Len(cache) :
           /\ Evicted(cache, m) = SubSeq(cache, 1, k)
           /\ RoomFor(SubSeq(cache, 1, k), m)
           /\ \A i \in 0 .. Len(cache) : RoomFor(SubSeq(cache, 1, i), m) => i <= k
<1> DEFINE n == Len(cache)
           size == Size[m.code]
           roomy == {i \in 1 .. n : RoomFor(SubSeq(cache, 1, i), m)}
<1>1. n \in Nat /\ MemoryCacheSize \in Nat
  BY Zenon, SequenceType, MemoryCacheSizeAssumption
<1>2. size \in Nat
  BY SizeAssumption DEF Module
<1>3. PICK f : RunningTotal(f, Weights(cache), n)
  BY Zenon, SizeIsTotal
<1>4. f \in [0 .. n -> Nat] /\ f[0] = 0 /\ \A i, j \in 0 .. n : i <= j => f[i] <= f[j]
  BY Zenon, <1>1, <1>3, SizeIsTotal, TotalMonotone DEF RunningTotal
<1>5. \A i \in 0 .. n : RoomFor(SubSeq(cache, 1, i), m) <=> i + f[i] + size < MemoryCacheSize
  BY Zenon, <1>3, SizeOfFront DEF RoomFor
<1>6. Evicted(cache, m) = SubSeq(cache, 1, Cardinality(roomy))
  BY Zenon DEF Evicted
<1> HIDE DEF n, size
<1>7. ASSUME NEW i \in roomy, NEW j \in 1 .. n, j <= i PROVE j \in roomy
  <2>1. i \in 0 .. n /\ j \in 0 .. n /\ i \in Nat /\ j \in Nat
    BY <1>1
  <2>2. i + f[i] + size < MemoryCacheSize /\ f[j] <= f[i] /\ f[i] \in Nat /\ f[j] \in Nat
    BY Zenon, <1>4, <1>5, <1>7, <2>1
  <2>3. j + f[j] + size < MemoryCacheSize
    BY SMTT(30), <1>1, <1>2, <1>7, <2>1, <2>2
  <2> QED
    BY Zenon, <1>5, <2>1, <2>3
<1> DEFINE k == Cardinality(roomy)
<1>8. k \in 0 .. n /\ roomy = 1 .. k
  <2>1. roomy \subseteq 1 .. n
    BY Zenon
  <2> HIDE DEF roomy
  <2> QED
    BY Zenon, <1>1, <1>7, <2>1, InitialNumbers
<1>9. RoomFor(SubSeq(cache, 1, k), m)
  <2>1. CASE k = 0
    <3>1. 0 \in 0 .. n /\ 0 + f[0] + size < MemoryCacheSize
      BY <1>1, <1>2, <1>4 DEF TooBig, size
    <3> QED
      BY Zenon, <1>5, <2>1, <3>1
  <2>2. CASE k # 0
    <3>1. k \in 1 .. k
      BY <1>8, <2>2
    <3>2. k \in roomy
      BY Zenon, <1>8, <3>1
    <3> QED
      BY Zenon, <3>2
  <2> QED
    BY Zenon, <2>1, <2>2
<1>10. ASSUME NEW i \in 0 .. n, RoomFor(SubSeq(cache, 1, i), m) PROVE i <= k
  <2>1. CASE i = 0
    BY <1>8, <2>1
  <2>2. CASE i # 0
    <3>1. i \in 1 .. n
      BY <2>2, <1>1
    <3>2. i \in 1 .. k
      BY Zenon, <1>8, <1>10, <3>1
    <3> QED
      BY <3>2
  <2> QED
    BY Zenon, <2>1, <2>2
<1> HIDE DEF k
<1> QED
  BY Zenon, <1>6, <1>8, <1>9, <1>10 DEF k, n

(* The cache holds a code once.                                              *)
CodesOnce(cache) == \A i, j \in DOMAIN cache : cache[i].code = cache[j].code => i = j

(* What put_with_weight leaves fits, and holds each code once.               *)
LEMMA StoredIsBounded ==
  ASSUME NEW cache \in Seq(Module), NEW m \in Module, ~TooBig(m), ~Has(cache, m.code),
         Fits(cache), CodesOnce(cache)
  PROVE  Fits(Stored(cache, m)) /\ CodesOnce(Stored(cache, m))
<1>1. CASE MemoryCacheSize = 0
  BY Zenon, <1>1 DEF Stored
<1>2. CASE MemoryCacheSize # 0
  <2>1. PICK k \in 0 .. Len(cache) : /\ Evicted(cache, m) = SubSeq(cache, 1, k)
                                      /\ RoomFor(SubSeq(cache, 1, k), m)
    BY Zenon, <1>2, EvictedProperties
  <2> DEFINE kept == SubSeq(cache, 1, k)
             new == <<m>> \o kept
  <2>2. Stored(cache, m) = new
    BY Zenon, <1>2, <2>1 DEF Stored
  <2>3. /\ Len(cache) \in Nat /\ DOMAIN cache = 1 .. Len(cache)
        /\ \A i \in 1 .. k : cache[i] \in Module
    BY SequenceType
  <2>4. /\ kept \in Seq(Module) /\ Len(kept) = k
        /\ \A i \in 1 .. k : kept[i] = cache[i]
    BY <2>3, PartOfSequence
  <2> HIDE DEF kept
  <2>5. /\ <<m>> \in Seq(Module) /\ Len(<<m>>) = 1 /\ <<m>>[1] = m
        /\ new \in Seq(Module) /\ Len(new) = 1 + k
        /\ \A i \in 1 .. 1 + k : new[i] = IF i <= 1 THEN <<m>>[i] ELSE kept[i - 1]
    <3>1. <<m>> \in Seq(Module) /\ Len(<<m>>) = 1 /\ <<m>>[1] = m
      OBVIOUS
    <3> QED
      BY <2>4, <3>1, Concatenation
  <2>6. CumulativeSize(<<m>>) = Size[m.code]
    <3>1. PICK f : /\ RunningTotal(f, Weights(<<m>>), 1)
                   /\ CumulativeSize(<<m>>) = f[1]
      BY Zenon, <2>5, SizeIsTotal
    <3>2. f[1] = f[0] + Weights(<<m>>)[1] /\ f[0] = 0 /\ Weights(<<m>>)[1] = Size[m.code]
      BY <2>5, <3>1 DEF RunningTotal, Weights
    <3>3. Size[m.code] \in Nat
      BY SizeAssumption DEF Module
    <3> QED
      BY <3>1, <3>2, <3>3
  <2>7. CumulativeSize(new) = Size[m.code] + CumulativeSize(kept) /\ CumulativeSize(kept) \in Nat
        /\ Size[m.code] \in Nat
    <3>1. <<m>> \in Seq(Module) /\ kept \in Seq(Module)
      BY Zenon, <2>4, <2>5
    <3>2. /\ CumulativeSize(<<m>> \o kept) = CumulativeSize(<<m>>) + CumulativeSize(kept)
          /\ CumulativeSize(<<m>>) \in Nat /\ CumulativeSize(kept) \in Nat
      BY ZenonT(60), <3>1, SizeOfConcat
    <3> QED
      BY Zenon, <2>6, <3>2
  <2>8. Len(new) + CumulativeSize(new) <= MemoryCacheSize
    <3>1. k + CumulativeSize(kept) + Size[m.code] < MemoryCacheSize
      BY Zenon, <2>1, <2>4 DEF RoomFor, kept
    <3> QED
      BY <2>3, <2>5, <2>7, <3>1, MemoryCacheSizeAssumption
  <2>9. CodesOnce(new)
    <3> SUFFICES ASSUME NEW i \in DOMAIN new, NEW j \in DOMAIN new, new[i].code = new[j].code
                 PROVE  i = j
      BY Zenon DEF CodesOnce
    <3>1. i \in 1 .. 1 + k /\ j \in 1 .. 1 + k
      BY <2>5, SequenceType
    <3>2. ASSUME NEW l \in 1 .. 1 + k, l # 1
          PROVE  l - 1 \in DOMAIN cache /\ new[l] = cache[l - 1]
      <4>1. l - 1 \in 1 .. k /\ l - 1 \in 1 .. Len(cache) /\ ~(l <= 1)
        BY <2>3, <3>2
      <4>2. new[l] = kept[l - 1]
        BY Zenon, <2>5, <3>2, <4>1
      <4>3. kept[l - 1] = cache[l - 1]
        BY Zenon, <2>4, <4>1
      <4> QED
        BY Zenon, <2>3, <4>1, <4>2, <4>3
    <3>3. new[1] = m
      BY <2>3, <2>5
    <3>4. ASSUME NEW l \in 1 .. 1 + k, l # 1 PROVE new[l].code # m.code
      BY Zenon, <3>2, <3>4 DEF Has
    <3>5. CASE i = 1 \/ j = 1
      BY Zenon, <3>1, <3>3, <3>4, <3>5
    <3>6. CASE i # 1 /\ j # 1
      <4>1. /\ i - 1 \in DOMAIN cache /\ new[i] = cache[i - 1]
            /\ j - 1 \in DOMAIN cache /\ new[j] = cache[j - 1]
        BY Zenon, <3>1, <3>2, <3>6
      <4>2. cache[i - 1].code = cache[j - 1].code
        BY Zenon, <4>1
      <4>3. i - 1 = j - 1
        BY Zenon, <4>1, <4>2 DEF CodesOnce
      <4> QED
        BY <3>1, <4>3
    <3> QED
      BY Zenon, <3>5, <3>6
  <2> QED
    BY Zenon, <2>2, <2>8, <2>9 DEF Fits
<1> QED
  BY Zenon, <1>1, <1>2

LEMMA EmptyFits == Fits(<<>>) /\ CodesOnce(<<>>)
<1>1. <<>> \in Seq(Module) /\ Len(<<>>) = 0
  OBVIOUS
<1>2. CumulativeSize(<<>>) = 0
  BY Zenon, <1>1, SizeIsTotal DEF RunningTotal
<1> QED
  BY <1>1, <1>2, MemoryCacheSizeAssumption DEF Fits, CodesOnce

(* Moving an entry to the front changes neither sizes nor codes.             *)
LEMMA TouchIsBounded ==
  ASSUME NEW cache \in Seq(Module), NEW c, Has(cache, c)
  PROVE  /\ Len(Touch(cache, c)) = Len(cache)
         /\ Fits(cache) => Fits(Touch(cache, c))
         /\ CodesOnce(cache) => CodesOnce(Touch(cache, c))
<1> DEFINE n == Len(cache)
           k == IndexOf(cache, c)
           e == <<cache[k]>>
           front == SubSeq(cache, 1, k - 1)
           back == SubSeq(cache, k + 1, n)
           new == (e \o front) \o back
<1>1. n \in Nat /\ DOMAIN cache = 1 .. n /\ \A i \in 1 .. n : cache[i] \in Module
  BY Zenon, SequenceType
<1>2. k \in 1 .. n
  BY Zenon, <1>1 DEF Has, IndexOf
<1>3. Touch(cache, c) = new
  BY Zenon DEF Touch
<1> HIDE DEF k, n
<1>4. /\ front \in Seq(Module) /\ Len(front) = k - 1
      /\ \A i \in 1 .. k - 1 : front[i] = cache[i]
  <2>1. 1 \in Int /\ k - 1 \in Int /\ \A i \in 1 .. k - 1 : cache[i] \in Module
    BY <1>1, <1>2
  <2>2. front \in Seq(Module)
    BY Zenon, <2>1, PartOfSequence
  <2> QED
    BY <1>1, <1>2, <2>1, <2>2, PartOfSequence
<1>5. /\ back \in Seq(Module) /\ Len(back) = n - k
      /\ \A i \in 1 .. n - k : back[i] = cache[k + i]
  <2>1. k + 1 \in Int /\ n \in Int /\ \A i \in k + 1 .. n : cache[i] \in Module
    BY <1>1, <1>2
  <2>2. back \in Seq(Module)
    BY Zenon, <2>1, PartOfSequence
  <2> QED
    BY <1>1, <1>2, <2>1, <2>2, PartOfSequence
<1>6. e \in Seq(Module) /\ Len(e) = 1 /\ e[1] = cache[k]
  BY <1>1, <1>2
<1> HIDE DEF e, front, back
<1>7. /\ e \o front \in Seq(Module) /\ Len(e \o front) = k
      /\ \A i \in 1 .. k : (e \o front)[i] = IF i = 1 THEN cache[k] ELSE cache[i - 1]
  <2>1. 1 + (k - 1) = k
    BY <1>1, <1>2
  <2>5. \A i \in 1 .. Len(e) + Len(front) :
          (e \o front)[i] = IF i <= Len(e) THEN e[i] ELSE front[i - Len(e)]
    BY Zenon, <1>4, <1>6, Concatenation
  <2>2. \A i \in 1 .. 1 + (k - 1) : (e \o front)[i] = IF i <= 1 THEN e[i] ELSE front[i - 1]
    BY Zenon, <1>4, <1>6, <2>5
  <2>4. e \o front \in Seq(Module) /\ Len(e \o front) = Len(e) + Len(front)
    BY Zenon, <1>4, <1>6, Concatenation
  <2>3. ASSUME NEW i \in 1 .. k PROVE (e \o front)[i] = IF i = 1 THEN cache[k] ELSE cache[i - 1]
    <3>1. i \in 1 .. 1 + (k - 1) /\ (i <= 1 <=> i = 1) /\ (i # 1 => i - 1 \in 1 .. k - 1)
      BY <1>2
    <3> QED
      BY Zenon, <1>4, <1>6, <2>2, <3>1
  <2> QED
    BY Zenon, <1>4, <1>6, <2>1, <2>3, <2>4
<1>8. new \in Seq(Module) /\ Len(new) = n
  <2>1. new \in Seq(Module) /\ Len(new) = Len(e \o front) + Len(back)
    BY Zenon, <1>5, <1>7, Concatenation
  <2>2. k + (n - k) = n
    BY <1>1, <1>2
  <2> QED
    BY Zenon, <1>5, <1>7, <2>1, <2>2
<1>9. ASSUME NEW i \in 1 .. n
      PROVE  new[i] = cache[IF i = 1 THEN k ELSE IF i <= k THEN i - 1 ELSE i]
  <2>1. new[i] = IF i <= k THEN (e \o front)[i] ELSE back[i - k]
    <3>1. \A j \in 1 .. k + (n - k) : new[j] = IF j <= k THEN (e \o front)[j] ELSE back[j - k]
      <4>1. Joins(e \o front, k, back, n - k)
        BY Zenon, <1>5, <1>7 DEF Joins
      <4>2. HasParts(new, e \o front, k, back, n - k)
        BY Zenon, <4>1, Joined
      <4> QED
        BY Zenon, <4>2 DEF HasParts
    <3>2. i \in 1 .. k + (n - k)
      BY <1>1, <1>2
    <3> QED
      BY Zenon, <3>1, <3>2
  <2> HIDE DEF new
  <2>2. CASE i <= k
    <3>1. i \in 1 .. k
      BY <1>2, <2>2
    <3> QED
      BY Zenon, <1>7, <2>1, <2>2, <3>1
  <2>3. CASE ~(i <= k)
    <3>1. i - k \in 1 .. n - k /\ k + (i - k) = i /\ i # 1
      BY <1>1, <1>2, <2>3
    <3> QED
      BY Zenon, <1>5, <2>1, <2>3, <3>1
  <2> QED
    BY Zenon, <2>2, <2>3
<1>10. cache = (front \o e) \o back
  <2> DEFINE old == (front \o e) \o back
  <2>0. (k - 1) + 1 = k /\ k + (n - k) = n
    BY <1>1, <1>2
  <2>7. front \o e \in Seq(Module) /\ Len(front \o e) = Len(front) + Len(e)
    BY Zenon, <1>4, <1>6, Concatenation
  <2>8. Len(front \o e) = k
    BY Zenon, <1>4, <1>6, <2>0, <2>7
  <2>11. \A i \in 1 .. Len(front) + Len(e) :
           (front \o e)[i] = IF i <= Len(front) THEN front[i] ELSE e[i - Len(front)]
    BY Zenon, <1>4, <1>6, Concatenation
  <2>1. \A i \in 1 .. (k - 1) + 1 : (front \o e)[i] = IF i <= k - 1 THEN front[i] ELSE e[i - (k - 1)]
    BY Zenon, <1>4, <1>6, <2>11
  <2>2. ASSUME NEW i \in 1 .. k PROVE (front \o e)[i] = cache[i]
    <3>1. CASE i = k
      <4>1. k \in 1 .. (k - 1) + 1 /\ ~(k <= k - 1) /\ k - (k - 1) = 1
        BY <1>2
      <4> QED
        BY Zenon, <1>6, <2>1, <3>1, <4>1
    <3>2. CASE i # k
      <4>1. i \in 1 .. (k - 1) + 1 /\ i <= k - 1 /\ i \in 1 .. k - 1
        BY <1>2, <3>2
      <4> QED
        BY Zenon, <1>4, <2>1, <4>1
    <3> QED
      BY Zenon, <3>1, <3>2
  <2>3. \A i \in 1 .. k + (n - k) : old[i] = IF i <= k THEN (front \o e)[i] ELSE back[i - k]
    <3>1. Joins(front \o e, k, back, n - k)
      BY Zenon, <1>5, <2>7, <2>8 DEF Joins
    <3>2. HasParts(old, front \o e, k, back, n - k)
      BY Zenon, <3>1, Joined
    <3> QED
      BY Zenon, <3>2 DEF HasParts
  <2>9. old \in Seq(Module) /\ Len(old) = Len(front \o e) + Len(back)
    BY Zenon, <1>5, <2>7, Concatenation
  <2>10. Len(old) = n
    BY Zenon, <1>5, <2>0, <2>8, <2>9
  <2> HIDE DEF old
  <2>4. ASSUME NEW i \in 1 .. n PROVE old[i] = cache[i]
    <3>0. i \in 1 .. k + (n - k)
      BY <1>1, <1>2
    <3>1. CASE i <= k
      <4>1. i \in 1 .. k
        BY <1>2, <3>1
      <4> QED
        BY Zenon, <2>2, <2>3, <3>0, <3>1, <4>1
    <3>2. CASE ~(i <= k)
      <4>1. i - k \in 1 .. n - k /\ k + (i - k) = i
        BY <1>1, <1>2, <3>2
      <4> QED
        BY Zenon, <1>5, <2>3, <3>0, <3>2, <4>1
    <3> QED
      BY Zenon, <3>1, <3>2
  <2>5. Len(cache) = n
    BY Zenon DEF n
  <2>6. old = cache
    BY Zenon, <2>4, <2>5, <2>9, <2>10, SameSequence
  <2> QED
    BY Zenon, <2>6 DEF old
<1>11. CumulativeSize(new) = CumulativeSize(cache)
  <2>1. CumulativeSize(new) = CumulativeSize(e \o front) + CumulativeSize(back)
    BY Zenon, <1>5, <1>7, SizeOfConcat
  <2>4. /\ CumulativeSize(e \o front) = CumulativeSize(e) + CumulativeSize(front)
        /\ CumulativeSize(front \o e) = CumulativeSize(front) + CumulativeSize(e)
        /\ CumulativeSize(e) \in Nat /\ CumulativeSize(front) \in Nat
    BY Zenon, <1>4, <1>6, SizeOfConcat
  <2>2. front \o e \in Seq(Module)
    BY Zenon, <1>4, <1>6, Concatenation
  <2>3. CumulativeSize(cache) = CumulativeSize(front \o e) + CumulativeSize(back)
    BY Zenon, <1>5, <1>10, <2>2, SizeOfConcat
  <2> QED
    BY <2>1, <2>3, <2>4
<1>12. Fits(cache) => Fits(new)
  BY Zenon, <1>8, <1>11 DEF Fits, n
<1>13. ASSUME CodesOnce(cache) PROVE CodesOnce(new)
  <2> SUFFICES ASSUME NEW i \in DOMAIN new, NEW j \in DOMAIN new, new[i].code = new[j].code
               PROVE  i = j
    BY Zenon DEF CodesOnce
  <2> DEFINE P(l) == IF l = 1 THEN k ELSE IF l <= k THEN l - 1 ELSE l
  <2>1. i \in 1 .. n /\ j \in 1 .. n
    BY Zenon, <1>8, SequenceType
  <2>2. new[i] = cache[P(i)] /\ new[j] = cache[P(j)]
    BY Zenon, <1>9, <2>1
  <2>3. P(i) \in 1 .. n /\ P(j) \in 1 .. n
    BY <1>1, <1>2, <2>1
  <2>4. P(i) = P(j)
    <3> HIDE DEF P, new
    <3> QED
      BY Zenon, <1>1, <1>13, <2>2, <2>3 DEF CodesOnce
  <2> QED
    BY <1>1, <1>2, <2>1, <2>4
<1> QED
  BY Zenon, <1>3, <1>8, <1>12, <1>13 DEF n

------------------------------------------------------------------------------
(* The cache as a whole.                                                     *)

(* A sequence of modules is a sequence of the modules that occur in it.      *)
LEMMA SeqOfOwnRange ==
  ASSUME NEW S, NEW seq \in Seq(S)
  PROVE  /\ seq \in Seq(Range(seq))
         /\ Range(seq) \subseteq S
         /\ \A x : x \in Range(seq) <=> \E i \in DOMAIN seq : seq[i] = x
         /\ \A T : seq \in Seq(T) => Range(seq) \subseteq T
<1>1. /\ Len(seq) \in Nat /\ seq \in [1 .. Len(seq) -> S]
      /\ DOMAIN seq = 1 .. Len(seq)
  BY Zenon, SequenceType
<1>2. seq \in [1 .. Len(seq) -> Range(seq)]
  BY Zenon, <1>1 DEF Range
<1>3. seq \in Seq(Range(seq))
  BY <1>1, <1>2, SequencesAreFunctions
<1>4. \A T : seq \in Seq(T) => Range(seq) \subseteq T
  BY SequenceType DEF Range
<1> QED
  BY Zenon, <1>1, <1>3, <1>4 DEF Range

(* Looking up a code moves its entry to the front: the cache gains nothing.  *)
LEMMA TouchProperties ==
  ASSUME NEW cache \in Seq(Module), NEW c, Has(cache, c)
  PROVE  /\ Entry(cache, c) \in Range(cache)
         /\ Entry(cache, c).code = c
         /\ Touch(cache, c) \in Seq(Range(cache))
<1> DEFINE S == Range(cache)
           k == IndexOf(cache, c)
           front == SubSeq(cache, 1, k - 1)
           back == SubSeq(cache, k + 1, Len(cache))
<1>1. /\ Len(cache) \in Nat /\ DOMAIN cache = 1 .. Len(cache)
      /\ \A i \in 1 .. Len(cache) : cache[i] \in S
  BY SeqOfOwnRange, SequenceType
<1>2. k \in 1 .. Len(cache) /\ cache[k].code = c
  BY Zenon, <1>1 DEF Has, IndexOf
<1>3. Entry(cache, c) = cache[k]
  BY Zenon DEF Entry
<1>4. Touch(cache, c) = (<<cache[k]>> \o front) \o back
  BY Zenon DEF Touch
<1> HIDE DEF k, S
<1>5. front \in Seq(S)
  <2>1. \A i \in 1 .. k - 1 : cache[i] \in S
    BY <1>1, <1>2
  <2> QED BY <2>1, <1>1, <1>2, PartOfSequence
<1>6. back \in Seq(S)
  <2>1. \A i \in k + 1 .. Len(cache) : cache[i] \in S
    BY <1>1, <1>2
  <2> QED BY <2>1, <1>1, <1>2, PartOfSequence
<1> HIDE DEF front, back
<1>7. <<cache[k]>> \in Seq(S)
  BY <1>1, <1>2
<1>8. Touch(cache, c) \in Seq(S)
  BY ZenonT(60), <1>4, <1>5, <1>6, <1>7, Concatenation
<1> QED
  BY Zenon, <1>1, <1>2, <1>3, <1>8 DEF S

(* Storing a module evicts entries from the end: what is kept was there      *)
(* before, or is the new module.                                             *)
LEMMA StoredProperties ==
  ASSUME NEW cache \in Seq(Module), NEW m \in Module
  PROVE  Stored(cache, m) \in Seq(Range(cache) \cup {m})
<1> DEFINE S == Range(cache) \cup {m}
           roomy == {i \in 1 .. Len(cache) : RoomFor(SubSeq(cache, 1, i), m)}
           n == Cardinality(roomy)
           kept == SubSeq(cache, 1, n)
<1>1. /\ Len(cache) \in Nat
      /\ \A i \in 1 .. Len(cache) : cache[i] \in S
      /\ cache \in Seq(S)
  BY SeqOfOwnRange, SequenceType, LargerSequences
<1>2. IsFiniteSet(1 .. Len(cache)) /\ Cardinality(1 .. Len(cache)) = Len(cache)
  BY SMTT(30), <1>1, FS_Interval
<1>3. n \in Nat /\ n <= Len(cache)
  <2>1. roomy \subseteq 1 .. Len(cache)
    BY Zenon
  <2> HIDE DEF roomy
  <2> QED BY Zenon, <1>2, <2>1, FS_Subset, FS_CardinalityType
<1>4. Evicted(cache, m) = kept
  BY Zenon DEF Evicted
<1> HIDE DEF n, S
<1>5. kept \in Seq(S)
  <2>1. \A i \in 1 .. n : cache[i] \in S
    BY <1>1, <1>3
  <2> QED BY <2>1, <1>3, PartOfSequence
<1> HIDE DEF kept
<1>6. <<m>> \o kept \in Seq(S)
  <2>1. <<m>> \in Seq(S)
    BY DEF S
  <2> QED BY Zenon, <2>1, <1>5, Concatenation
<1> QED
  BY Zenon, <1>1, <1>4, <1>6 DEF Stored, S

------------------------------------------------------------------------------
(* The inductive invariant.  A call in progress knows its request; what it   *)
(* is about to store or to instantiate is the module of its code, and that   *)
(* code is on disk.                                                          *)
CallInv(t) ==
  /\ pc[t] # "idle" => req[t] \in [op : AllOps, code : Checksums]
  /\ pc[t] # "idle" /\ Op(t) = "save" => Code(t) \in Accepted
  /\ pc[t] = "writeWasm" => Op(t) = "save"
  /\ pc[t] \in {"storeModule", "writeModule"} =>
       /\ Op(t) \in {"save", "get", "pin"}
       /\ Op(t) # "save" => module[t] = [code |-> Code(t), limited |-> TRUE]
       /\ wasmFile[Code(t)] = "full" /\ Code(t) \in Accepted
  /\ pc[t] \in {"waitInstantiation", "instantiate"} =>
       /\ Op(t) = "get"
       /\ module[t] = [code |-> Code(t), limited |-> TRUE]
       /\ wasmFile[Code(t)] = "full" /\ Code(t) \in Accepted

(* Modules, on disk and in memory, belong to accepted code that is on disk.  *)
CodeInv ==
  /\ \A c \in Checksums : wasmFile[c] # "absent" => c \in Accepted
  /\ \A v \in Versions, c \in Checksums :
       moduleFile[v][c] # "absent" => wasmFile[c] = "full"
  /\ \A m \in pinned \cup Range(memory) : m.limited /\ wasmFile[m.code] = "full"
  /\ \A c \in saved : wasmFile[c] = "full"

CacheInv == TypeOK /\ CodeInv /\ \A t \in Threads : CallInv(t)

LEMMA InitInv == Init => CacheInv
<1> SUFFICES ASSUME Init PROVE CacheInv
  BY Zenon
<1>1. TypeOK
  BY DEF Init, TypeOK, FileState, FreshStats, Labels, Results
<1>2. CodeInv
  <2>1. Range(memory) = {}
    BY DEF Init, Range
  <2> QED BY Zenon, <2>1 DEF Init, CodeInv
<1>3. \A t \in Threads : CallInv(t)
  BY Zenon DEF Init, CallInv
<1> QED
  BY Zenon, <1>1, <1>2, <1>3 DEF CacheInv

(* A code that is completely on disk stays so.                               *)
LEMMA WasmFileGrows ==
  ASSUME TypeOK, [Next]_vars
  PROVE  \A c \in Checksums : wasmFile[c] = "full" => wasmFile'[c] = "full"
<1>1. ASSUME NEW t \in Threads, OpenWasm(t)
      PROVE  \A c \in Checksums : wasmFile[c] = "full" => wasmFile'[c] = "full"
  BY Zenon, <1>1 DEF OpenWasm, OpenedForWriting, TypeOK
<1>2. ASSUME NEW t \in Threads, WriteWasm(t)
      PROVE  \A c \in Checksums : wasmFile[c] = "full" => wasmFile'[c] = "full"
  BY Zenon, <1>2 DEF WriteWasm, TypeOK
<1>3. ASSUME NEW t \in Threads, Step(t), ~OpenWasm(t), ~WriteWasm(t)
      PROVE  wasmFile' = wasmFile
  BY Zenon, <1>3 DEF Step, LockInner, OpenModule, WriteModule, IoError, GetModule, Pin,
              Unpin, LoadWasm, LockInstantiation, Instantiate, disk
<1>4. (~ \E t \in Threads : Step(t)) => wasmFile' = wasmFile
  BY Zenon DEF Next, vars, CallSave, Call, Restart, disk
<1> QED
  BY Zenon, <1>1, <1>2, <1>3, <1>4

(* What a lookup or a store can change in the memory caches: every module    *)
(* that is there afterwards was there before, or is a limited module of a    *)
(* code that is on disk.                                                     *)
LEMMA MemoryStep ==
  ASSUME CacheInv, [Next]_vars
  PROVE  /\ memory' \in Seq(Module) /\ pinned' \subseteq Module
         /\ \A m \in pinned' \cup Range(memory') :
              m.limited /\ wasmFile[m.code] = "full"
<1> DEFINE Good == {m \in Module : m.limited /\ wasmFile[m.code] = "full"}
<1>1. pinned \subseteq Good /\ Range(memory) \subseteq Good /\ memory \in Seq(Module)
  BY Zenon, SeqOfOwnRange DEF CacheInv, CodeInv, TypeOK
<1> SUFFICES memory' \in Seq(Good) /\ pinned' \subseteq Good
  <2>1. Good \subseteq Module
    BY Zenon
  <2> HIDE DEF Good
  <2> SUFFICES ASSUME memory' \in Seq(Good), pinned' \subseteq Good
               PROVE  memory' \in Seq(Module) /\ pinned' \cup Range(memory') \subseteq Good
    BY Zenon DEF Good
  <2> QED BY Zenon, <2>1, LargerSequences, SeqOfOwnRange
<1>2. memory \in Seq(Good)
  <2> HIDE DEF Good
  <2> QED BY Zenon, <1>1, SeqOfOwnRange, LargerSequences
<1>3. ASSUME NEW c, Has(memory, c)
      PROVE  Touch(memory, c) \in Seq(Good) /\ Entry(memory, c) \in Good
  <2> HIDE DEF Good
  <2> QED BY Zenon, <1>1, <1>3, TouchProperties, LargerSequences
<1>4. ASSUME NEW m \in Good
      PROVE  Stored(memory, m) \in Seq(Good)
  <2>1. m \in Module
    BY Zenon
  <2> HIDE DEF Good
  <2>2. Stored(memory, m) \in Seq(Range(memory) \cup {m})
    BY Zenon, <1>1, <2>1, StoredProperties
  <2>3. Range(memory) \cup {m} \subseteq Good
    BY Zenon, <1>1
  <2> QED BY Zenon, <2>2, <2>3, LargerSequences
<1>5. ASSUME NEW t \in Threads, WriteModule(t)
      PROVE  memory' \in Seq(Good) /\ pinned' \subseteq Good
  <2>1. Op(t) # "save" => module[t] \in Good
    <3> SUFFICES ASSUME Op(t) # "save" PROVE module[t] \in Good
      BY Zenon
    <3>1. Code(t) \in Checksums
      BY Zenon, <1>5 DEF WriteModule, CacheInv, CallInv, Code
    <3>2. module[t] = [code |-> Code(t), limited |-> TRUE] /\ wasmFile[Code(t)] = "full"
      BY Zenon, <1>5 DEF WriteModule, CacheInv, CallInv
    <3> QED BY <3>1, <3>2 DEF Module
  <2> HIDE DEF Good
  <2> QED BY Zenon, <2>1, <1>1, <1>2, <1>4, <1>5 DEF WriteModule, KeepInMemory
<1>6. ASSUME NEW t \in Threads, pc[t] = "locked", FsLoadResult(Code(t)) = "some"
      PROVE  LoadedFromFs(Code(t)) \in Good
  <2>1. Code(t) \in Checksums /\ version \in Versions
    BY Zenon, <1>6 DEF CacheInv, CallInv, Code, TypeOK
  <2>2. moduleFile[version][Code(t)] # "absent"
    BY Zenon, <1>6 DEF FsLoadResult
  <2>3. wasmFile[Code(t)] = "full"
    BY Zenon, <2>1, <2>2 DEF CacheInv, CodeInv
  <2> QED BY Zenon, <2>1, <2>3 DEF LoadedFromFs, Module
<1>7. ASSUME NEW t \in Threads, GetModule(t)
      PROVE  memory' \in Seq(Good) /\ pinned' \subseteq Good
  <2> HIDE DEF Good
  <2> QED BY Zenon, <1>1, <1>2, <1>3, <1>4, <1>6, <1>7
          DEF GetModule, GetFromPinned, GetFromMemory, GetFromFs, GetFromWasm,
              LookupError, KeepInMemory
<1>8. ASSUME NEW t \in Threads, Pin(t)
      PROVE  memory' \in Seq(Good) /\ pinned' \subseteq Good
  <2> HIDE DEF Good
  <2> QED BY Zenon, <1>1, <1>2, <1>3, <1>6, <1>8
          DEF Pin, PinPinned, PinFromMemory, PinFromFs, PinFromWasm, LookupError, caches
<1>9. ASSUME NEW t \in Threads, Unpin(t)
      PROVE  memory' \in Seq(Good) /\ pinned' \subseteq Good
  <2> HIDE DEF Good
  <2> QED BY Zenon, <1>1, <1>2, <1>9 DEF Unpin
<1>10. CASE Restart
  <2> HIDE DEF Good
  <2> QED BY Zenon, <1>10, EmptySequence DEF Restart
<1>11. CASE UNCHANGED caches
  <2> HIDE DEF Good
  <2> QED BY Zenon, <1>11, <1>1, <1>2 DEF caches
<1> HIDE DEF Good
<1>12. ASSUME NEW t \in Threads, Step(t)
       PROVE  \/ WriteModule(t) \/ GetModule(t) \/ Pin(t) \/ Unpin(t)
              \/ UNCHANGED caches
  BY Zenon, <1>12 DEF Step, LockInner, OpenWasm, WriteWasm, OpenModule, IoError, LoadWasm,
               LockInstantiation, Instantiate
<1>13. (~ \E t \in Threads : Step(t)) => Restart \/ UNCHANGED caches
  BY Zenon DEF Next, vars, CallSave, Call, caches
<1> QED
  BY Zenon, <1>5, <1>7, <1>8, <1>9, <1>10, <1>11, <1>12, <1>13

LEMMA LimitedModule == \A c \in Checksums : [code |-> c, limited |-> TRUE] \in Module
BY Zenon DEF Module

(* The types of the variables a call changes, and of the files and counters. *)
CallTypes ==
  /\ inner \in Threads \cup {NoThread}
  /\ instLock \in Threads \cup {NoThread}
  /\ pc \in [Threads -> Labels]
  /\ req \in [Threads -> [op : AllOps, code : Checksums] \cup {NoRequest}]
  /\ module \in [Threads -> Module \cup {NoModule}]
  /\ result \in [Threads -> Results]

DiskTypes ==
  /\ wasmFile \in [Checksums -> FileState]
  /\ moduleFile \in [Versions -> [Checksums -> FileState]]
  /\ version \in Versions
  /\ stats \in [pinned : Nat, memory : Nat, fs : Nat, misses : Nat]
  /\ saved \subseteq Checksums

LEMMA ReturnTypes ==
  ASSUME CallTypes, NEW t \in Threads
  PROVE  /\ \A r \in Results : Return(t, r) => CallTypes'
         /\ \A m \in Module : ReturnModule(t, m) => CallTypes'
BY ZenonT(60) DEF CallTypes, Return, ReturnModule, Labels

LEMMA LockedFacts ==
  ASSUME CacheInv, NEW t \in Threads, pc[t] = "locked"
  PROVE  /\ Code(t) \in Checksums
         /\ LoadWasmResult(Code(t)) \in {"ok", "notFound", "integrity"}
         /\ LoadedFromFs(Code(t)) \in Module /\ CompiledWithLimit(Code(t)) \in Module
         /\ PinnedHas(Code(t)) => PinnedEntry(Code(t)) \in pinned
         /\ Has(memory, Code(t)) => Entry(memory, Code(t)) \in Range(memory)
         /\ pinned \cup Range(memory) \subseteq Module
<1>1. Code(t) \in Checksums
  BY Zenon DEF CacheInv, CallInv, Code
<1>2. wasmFile[Code(t)] \in FileState /\ pinned \subseteq Module /\ memory \in Seq(Module)
  BY Zenon, <1>1 DEF CacheInv, TypeOK
<1>3. Has(memory, Code(t)) => Entry(memory, Code(t)) \in Range(memory)
  BY Zenon, <1>2, TouchProperties
<1>4. pinned \cup Range(memory) \subseteq Module
  BY Zenon, <1>2, SeqOfOwnRange
<1>5. LoadWasmResult(Code(t)) \in {"ok", "notFound", "integrity"}
  BY Zenon, <1>2 DEF LoadWasmResult, FileState
<1>6. PinnedHas(Code(t)) => PinnedEntry(Code(t)) \in pinned
  BY Zenon DEF PinnedHas, PinnedEntry
<1> QED
  BY Zenon, <1>1, <1>3, <1>4, <1>5, <1>6 DEF LoadedFromFs, CompiledWithLimit, Module

(* A lookup ends the call with a result, hands out a module, or goes on with *)
(* a module it has compiled.                                                 *)
LEMMA LookupOutcome ==
  ASSUME CacheInv, NEW t \in Threads, GetModule(t) \/ Pin(t)
  PROVE  \/ \E r \in Results : Return(t, r)
         \/ \E m \in Module : ReturnModule(t, m)
         \/ /\ pc' = [pc EXCEPT ![t] = "storeModule"]
            /\ module' = [module EXCEPT ![t] = CompiledWithLimit(Code(t))]
            /\ UNCHANGED <<locks, req, result>>
<1> USE LockedFacts DEF Results
<1>1. pc[t] = "locked"
  BY Zenon DEF GetModule, Pin
<1>2. LookupError(t) => \E r \in Results : Return(t, r)
  BY Zenon, <1>1 DEF LookupError
<1>3. GetFromFs(t) => (\E r \in Results : Return(t, r)) \/ \E m \in Module : ReturnModule(t, m)
  BY Zenon, <1>1 DEF GetFromFs, KeepInMemory
<1>4. CASE GetModule(t)
  <2>1. GetFromPinned(t) \/ GetFromMemory(t) => \E m \in Module : ReturnModule(t, m)
    BY Zenon, <1>1 DEF GetFromPinned, GetFromMemory
  <2> QED BY Zenon, <1>2, <1>3, <1>4, <2>1 DEF GetModule, GetFromWasm
<1>5. CASE Pin(t)
  <2>1. PinPinned(t) \/ PinFromMemory(t) \/ PinFromFs(t) => \E r \in Results : Return(t, r)
    BY Zenon DEF PinPinned, PinFromMemory, PinFromFs
  <2> QED BY Zenon, <1>2, <1>5, <2>1 DEF Pin, PinFromWasm
<1> QED
  BY Zenon, <1>4, <1>5

(* Every step keeps the types.                                               *)
LEMMA TypeStep ==
  ASSUME CacheInv, [Next]_vars
  PROVE  TypeOK'
<1>1. memory' \in Seq(Module) /\ pinned' \subseteq Module
  BY Zenon, MemoryStep
<1>2. CallTypes /\ DiskTypes
  BY Zenon DEF CacheInv, TypeOK, CallTypes, DiskTypes
<1> SUFFICES CallTypes' /\ DiskTypes'
  BY Zenon, <1>1 DEF TypeOK, CallTypes, DiskTypes
<1> USE DEF disk, caches, locks
<1>3. ASSUME NEW t \in Threads, NEW c \in Checksums, CallSave(t, c)
      PROVE  CallTypes' /\ DiskTypes'
  <2>1. [op |-> "save", code |-> c] \in [op : AllOps, code : Checksums]
    BY Zenon DEF AllOps
  <2>2. [code |-> c, limited |-> FALSE] \in Module
    BY Zenon DEF Module
  <2>3. DiskTypes'
    BY Zenon, <1>2, <1>3 DEF CallSave, DiskTypes
  <2>4. CallTypes'
    BY ZenonT(60), <1>2, <1>3, <2>1, <2>2 DEF CallSave, CallTypes, Labels, Results
  <2> QED BY Zenon, <2>3, <2>4
<1>4. ASSUME NEW t \in Threads, NEW c \in Checksums, NEW op \in AllOps, Call(t, op, c)
      PROVE  CallTypes' /\ DiskTypes'
  BY Zenon, <1>2, <1>4 DEF Call, CallTypes, DiskTypes, Labels, Results
<1>5. ASSUME NEW t \in Threads, LockInner(t) \/ LockInstantiation(t)
      PROVE  CallTypes' /\ DiskTypes'
  BY Zenon, <1>2, <1>5 DEF LockInner, LockInstantiation, CallTypes, DiskTypes, Labels
<1>6. ASSUME NEW t \in Threads, OpenWasm(t) \/ WriteWasm(t) \/ OpenModule(t)
      PROVE  CallTypes' /\ DiskTypes'
  <2>1. CASE OpenWasm(t)
    BY Zenon, <1>2, <2>1 DEF OpenWasm, OpenedForWriting, CallTypes, DiskTypes, Labels, FileState
  <2>2. CASE WriteWasm(t)
    BY Zenon, <1>2, <2>2 DEF WriteWasm, CallTypes, DiskTypes, Labels, FileState
  <2>3. CASE OpenModule(t)
    BY Zenon, <1>2, <2>3 DEF OpenModule, CallTypes, DiskTypes, Labels, FileState
  <2> QED BY Zenon, <1>6, <2>1, <2>2, <2>3
<1>7. ASSUME NEW t \in Threads, WriteModule(t)
      PROVE  CallTypes' /\ DiskTypes'
  <2>1. Code(t) \in Checksums
    BY Zenon, <1>7 DEF WriteModule, CacheInv, CallInv, Code
  <2>2. Op(t) = "get" => module[t] \in Module
    <3>1. Op(t) = "get" => module[t] = [code |-> Code(t), limited |-> TRUE]
      BY Zenon, <1>7 DEF WriteModule, CacheInv, CallInv
    <3> QED BY Zenon, <2>1, <3>1, LimitedModule
  <2>3. (\E r \in Results : Return(t, r)) \/ \E m \in Module : ReturnModule(t, m)
    BY Zenon, <1>7, <2>2 DEF WriteModule, KeepInMemory, Results
  <2>4. DiskTypes'
    BY Zenon, <1>2, <1>7, <2>1 DEF WriteModule, DiskTypes, FileState
  <2> QED BY Zenon, <1>2, <2>3, <2>4, ReturnTypes
<1>8. ASSUME NEW t \in Threads, IoError(t) \/ Unpin(t) \/ LoadWasm(t)
      PROVE  CallTypes' /\ DiskTypes'
  <2>1. \E r \in Results : Return(t, r)
    BY Zenon, <1>8, LockedFacts DEF IoError, Unpin, LoadWasm, Results
  <2>2. DiskTypes'
    BY Zenon, <1>2, <1>8 DEF IoError, Unpin, LoadWasm, DiskTypes
  <2> QED BY Zenon, <1>2, <2>1, <2>2, ReturnTypes
<1>9. ASSUME NEW t \in Threads, GetModule(t) \/ Pin(t)
      PROVE  CallTypes' /\ DiskTypes'
  <2>1. pc[t] = "locked"
    BY Zenon, <1>9 DEF GetModule, Pin
  <2>2. CallTypes'
    <3>1. CompiledWithLimit(Code(t)) \in Module
      BY Zenon, <2>1, LockedFacts
    <3>2. CASE /\ pc' = [pc EXCEPT ![t] = "storeModule"]
               /\ module' = [module EXCEPT ![t] = CompiledWithLimit(Code(t))]
               /\ UNCHANGED <<locks, req, result>>
      BY Zenon, <1>2, <3>1, <3>2 DEF CallTypes, Labels
    <3> QED BY Zenon, <1>2, <1>9, <3>2, LookupOutcome, ReturnTypes
  <2>3. UNCHANGED <<disk, saved>>
    BY Zenon, <1>9 DEF GetModule, Pin
  <2>4. stats' = stats \/ \E f \in {"pinned", "memory", "fs", "misses"} : Count(f)
    BY Zenon, <1>9 DEF GetModule, Pin, GetFromPinned, GetFromMemory, GetFromFs, GetFromWasm,
                LookupError, PinPinned, PinFromMemory, PinFromFs, PinFromWasm
  <2>5. stats' \in [pinned : Nat, memory : Nat, fs : Nat, misses : Nat]
    BY <1>2, <2>4 DEF DiskTypes, Count
  <2> QED BY Zenon, <1>2, <2>2, <2>3, <2>5 DEF DiskTypes
<1>10. ASSUME NEW t \in Threads, Instantiate(t)
      PROVE  CallTypes' /\ DiskTypes'
  BY Zenon, <1>2, <1>10 DEF Instantiate, CallTypes, DiskTypes, Labels, Results
<1>11. CASE Restart
  BY Zenon, <1>2, <1>11 DEF Restart, FreshStats, CallTypes, DiskTypes, Labels, Results
<1>12. CASE UNCHANGED vars
  BY Zenon, <1>2, <1>12 DEF vars, CallTypes, DiskTypes
<1> QED
  BY Zenon, <1>3, <1>4, <1>5, <1>6, <1>7, <1>8, <1>9, <1>10, <1>11, <1>12 DEF Next, Step

(* Every step keeps modules tied to accepted code on disk.                   *)
LEMMA CodeStep ==
  ASSUME CacheInv, [Next]_vars
  PROVE  CodeInv'
<1> USE DEF disk
<1>1. \A c \in Checksums : wasmFile'[c] # "absent" => c \in Accepted
  <2>1. ASSUME NEW t \in Threads, OpenWasm(t) \/ WriteWasm(t)
        PROVE  /\ Code(t) \in Checksums /\ Code(t) \in Accepted
               /\ \A c \in Checksums : c # Code(t) => wasmFile'[c] = wasmFile[c]
    BY Zenon, <2>1 DEF OpenWasm, WriteWasm, CacheInv, CallInv, Code, TypeOK
  <2>2. ASSUME NEW t \in Threads, Step(t), ~OpenWasm(t), ~WriteWasm(t)
        PROVE  wasmFile' = wasmFile
    BY Zenon, <2>2 DEF Step, LockInner, OpenModule, WriteModule, IoError, GetModule, Pin,
                Unpin, LoadWasm, LockInstantiation, Instantiate
  <2>3. (~ \E t \in Threads : Step(t)) => wasmFile' = wasmFile
    BY Zenon DEF Next, vars, CallSave, Call, Restart
  <2> QED BY Zenon, <2>1, <2>2, <2>3 DEF CacheInv, CodeInv
<1>2. ASSUME NEW v \in Versions, NEW c \in Checksums, moduleFile'[v][c] # "absent"
      PROVE  wasmFile[c] = "full"
  <2>1. ASSUME NEW t \in Threads, OpenModule(t) \/ WriteModule(t)
        PROVE  wasmFile[c] = "full"
    <3>1. wasmFile[Code(t)] = "full"
      BY ZenonT(60), <2>1 DEF OpenModule, WriteModule, CacheInv, CallInv
    <3>2. CASE c # Code(t)
      <4>1. moduleFile'[v][c] = moduleFile[v][c]
        BY <2>1, <3>2 DEF OpenModule, WriteModule, CacheInv, TypeOK
      <4> QED BY Zenon, <4>1, <1>2 DEF CacheInv, CodeInv
    <3> QED BY Zenon, <3>1, <3>2
  <2>2. ASSUME NEW t \in Threads, Step(t), ~OpenModule(t), ~WriteModule(t)
        PROVE  moduleFile' = moduleFile
    BY Zenon, <2>2 DEF Step, LockInner, OpenWasm, WriteWasm, IoError, GetModule, Pin,
                Unpin, LoadWasm, LockInstantiation, Instantiate
  <2>3. (~ \E t \in Threads : Step(t)) => moduleFile' = moduleFile
    BY Zenon DEF Next, vars, CallSave, Call, Restart
  <2> QED BY Zenon, <1>2, <2>1, <2>2, <2>3 DEF CacheInv, CodeInv
<1>3. \A m \in pinned' \cup Range(memory') :
        m.code \in Checksums /\ m.limited /\ wasmFile[m.code] = "full"
  <2>1. memory' \in Seq(Module) /\ pinned' \subseteq Module
    BY Zenon, MemoryStep
  <2>2. Range(memory') \subseteq Module
    BY Zenon, <2>1, SeqOfOwnRange
  <2>3. \A m \in Module : m.code \in Checksums
    BY Zenon DEF Module
  <2> QED BY Zenon, <2>1, <2>2, <2>3, MemoryStep
<1>4. \A c \in saved' : c \in Checksums /\ wasmFile[c] = "full"
  <2>1. ASSUME NEW t \in Threads, WriteModule(t)
        PROVE  \A c \in saved' : c \in Checksums /\ wasmFile[c] = "full"
    BY SMTT(60), <2>1 DEF WriteModule, CacheInv, CallInv, CodeInv, TypeOK, Code
  <2>2. ASSUME NEW t \in Threads, Step(t), ~WriteModule(t)
        PROVE  saved' = saved
    BY Zenon, <2>2 DEF Step, LockInner, OpenWasm, WriteWasm, OpenModule, IoError, GetModule, Pin,
                Unpin, LoadWasm, LockInstantiation, Instantiate
  <2>3. (~ \E t \in Threads : Step(t)) => saved' = saved
    BY Zenon DEF Next, vars, CallSave, Call, Restart
  <2> QED BY Zenon, <2>1, <2>2, <2>3 DEF CacheInv, CodeInv, TypeOK
<1>5. TypeOK
  BY Zenon DEF CacheInv
<1>6. CodeInv!1' /\ CodeInv!2' /\ CodeInv!4'
  BY Zenon, <1>1, <1>2, <1>4, <1>5, WasmFileGrows
<1>7. CodeInv!3'
  BY Zenon, <1>3, <1>5, WasmFileGrows
<1> QED
  BY Zenon, <1>6, <1>7 DEF CodeInv

(* Every step keeps what calls in progress rely on.  A call's facts about    *)
(* the disk stay true while other threads work, since code is never removed. *)
LEMMA CallStep ==
  ASSUME CacheInv, [Next]_vars
  PROVE  \A u \in Threads : CallInv(u)'
<1> USE DEF Op, Code
<1>1. TypeOK /\ \A c \in Checksums : wasmFile[c] = "full" => wasmFile'[c] = "full"
  BY Zenon, WasmFileGrows DEF CacheInv
<1>2. \A u \in Threads : CallInv(u)
  BY Zenon DEF CacheInv
<1>3. ASSUME NEW u \in Threads, pc'[u] = pc[u], req'[u] = req[u], module'[u] = module[u]
      PROVE  CallInv(u)'
  BY Zenon, <1>1, <1>2, <1>3 DEF CallInv
<1>4. ASSUME NEW u \in Threads, pc'[u] = "idle"
      PROVE  CallInv(u)'
  BY Zenon, <1>4 DEF CallInv
<1>5. ASSUME NEW t \in Threads, NEW c \in Checksums,
             CallSave(t, c) \/ \E op \in AllOps : Call(t, op, c)
      PROVE  \A u \in Threads : CallInv(u)'
  <2>1. \A u \in Threads \ {t} : pc'[u] = pc[u] /\ req'[u] = req[u] /\ module'[u] = module[u]
    BY Zenon, <1>1, <1>5 DEF CallSave, Call, TypeOK
  <2>2. /\ pc'[t] \in {"idle", "waitInner"}
        /\ req'[t] \in [op : AllOps, code : Checksums]
        /\ pc'[t] # "idle" /\ req'[t].op = "save" => req'[t].code \in Accepted
    BY <1>1, <1>5 DEF CallSave, Call, TypeOK, AllOps
  <2>3. CallInv(t)'
    BY Zenon, <2>2 DEF CallInv
  <2> QED BY Zenon, <1>3, <2>1, <2>3
<1>6. ASSUME NEW t \in Threads, Step(t)
      PROVE  \A u \in Threads \ {t} :
               pc'[u] = pc[u] /\ req'[u] = req[u] /\ module'[u] = module[u]
  <2>1. (\E r : Return(t, r)) \/ (\E m : ReturnModule(t, m)) =>
          \A u \in Threads \ {t} :
            pc'[u] = pc[u] /\ req'[u] = req[u] /\ module'[u] = module[u]
    BY Zenon, <1>1 DEF Return, ReturnModule, TypeOK
  <2>2. CASE GetModule(t) \/ Pin(t)
    BY SMTT(60), <1>1, <2>1, <2>2, LookupOutcome DEF TypeOK
  <2>3. CASE WriteModule(t) \/ IoError(t) \/ Unpin(t) \/ LoadWasm(t)
    BY Zenon, <2>1, <2>3 DEF WriteModule, KeepInMemory, IoError, Unpin, LoadWasm
  <2>4. CASE LockInner(t) \/ OpenWasm(t) \/ WriteWasm(t) \/ OpenModule(t)
             \/ LockInstantiation(t) \/ Instantiate(t)
    BY Zenon, <1>1, <2>4 DEF LockInner, OpenWasm, WriteWasm, OpenModule, LockInstantiation,
                      Instantiate, TypeOK
  <2> QED BY Zenon, <1>6, <2>2, <2>3, <2>4 DEF Step
<1>7. ASSUME NEW t \in Threads, Step(t)
      PROVE  CallInv(t)'
  <2>1. \A r : Return(t, r) => CallInv(t)'
    BY Zenon, <1>1, <1>4 DEF Return, TypeOK
  <2>2. CASE LockInner(t)
    BY Zenon, <1>1, <1>2, <2>2 DEF LockInner, CallInv, TypeOK
  <2>3. CASE OpenWasm(t)
    BY Zenon, <1>1, <1>2, <2>3 DEF OpenWasm, CallInv, TypeOK
  <2>4. CASE WriteWasm(t)
    BY Zenon, <1>1, <1>2, <2>4 DEF WriteWasm, CallInv, TypeOK
  <2>5. CASE OpenModule(t)
    BY Zenon, <1>1, <1>2, <2>5 DEF OpenModule, disk, CallInv, TypeOK
  <2>6. ASSUME NEW m, ReturnModule(t, m), m = [code |-> Code(t), limited |-> TRUE],
               req[t] \in [op : AllOps, code : Checksums], Op(t) = "get",
               wasmFile[Code(t)] = "full", Code(t) \in Accepted
        PROVE  CallInv(t)'
    BY Zenon, <1>1, <2>6 DEF ReturnModule, CallInv, TypeOK
  <2>7. CASE WriteModule(t)
    BY ZenonT(60), <1>2, <2>1, <2>6, <2>7 DEF WriteModule, KeepInMemory, CallInv
  <2>8. CASE IoError(t) \/ Unpin(t) \/ LoadWasm(t)
    BY Zenon, <2>1, <2>8 DEF IoError, Unpin, LoadWasm
  <2>9. ASSUME pc[t] = "locked", FsLoadResult(Code(t)) = "none",
               LoadWasmResult(Code(t)) = "ok", Op(t) \in {"get", "pin"},
               pc' = [pc EXCEPT ![t] = "storeModule"],
               module' = [module EXCEPT ![t] = CompiledWithLimit(Code(t))],
               UNCHANGED <<wasmFile, req>>
        PROVE  CallInv(t)'
    <3>1. Code(t) \in Checksums /\ req[t] \in [op : AllOps, code : Checksums]
      BY ZenonT(60), <1>2, <2>9 DEF CallInv
    <3>2. wasmFile[Code(t)] = "full"
      BY Zenon, <1>1, <2>9, <3>1 DEF LoadWasmResult, TypeOK, FileState
    <3>3. Code(t) \in Accepted
      BY Zenon, <3>1, <3>2 DEF CacheInv, CodeInv
    <3> QED BY Zenon, <1>1, <2>9, <3>1, <3>2, <3>3 DEF CallInv, CompiledWithLimit, TypeOK
  <2>10. ASSUME pc[t] = "locked", Op(t) = "get", NEW m, ReturnModule(t, m),
                m \in pinned \cup Range(memory) \/ FsLoadResult(Code(t)) = "some",
                m.code = Code(t), m \in Module,
                m \notin pinned \cup Range(memory) => m.limited
         PROVE  CallInv(t)'
    <3>1. Code(t) \in Checksums /\ req[t] \in [op : AllOps, code : Checksums]
      BY ZenonT(60), <1>2, <2>10 DEF CallInv
    <3>2. FsLoadResult(Code(t)) = "some" => wasmFile[Code(t)] = "full"
      BY Zenon, <1>1, <3>1 DEF FsLoadResult, CacheInv, CodeInv, TypeOK
    <3>3. m \in pinned \cup Range(memory) => m.limited /\ wasmFile[m.code] = "full"
      BY Zenon DEF CacheInv, CodeInv
    <3>4. m = [code |-> Code(t), limited |-> TRUE]
      BY Zenon, <2>10, <3>3 DEF Module
    <3>5. wasmFile[Code(t)] = "full" /\ Code(t) \in Accepted
      BY Zenon, <2>10, <3>1, <3>2, <3>3 DEF CacheInv, CodeInv
    <3> QED BY Zenon, <2>6, <2>10, <3>1, <3>4, <3>5
  <2>13. CASE GetModule(t)
    <3>1. pc[t] = "locked" /\ Op(t) = "get" /\ UNCHANGED wasmFile
      BY Zenon, <2>13 DEF GetModule, disk
    <3>2. CASE GetFromPinned(t)
      <4>1. PinnedEntry(Code(t)) \in pinned /\ PinnedEntry(Code(t)).code = Code(t)
        BY Zenon, <3>2 DEF GetFromPinned, PinnedHas, PinnedEntry
      <4> QED BY Zenon, <2>10, <3>1, <3>2, <4>1, LockedFacts DEF GetFromPinned
    <3>3. CASE GetFromMemory(t)
      <4>1. /\ Entry(memory, Code(t)) \in Range(memory)
            /\ Entry(memory, Code(t)).code = Code(t)
        BY ZenonT(60), <1>1, <3>3, TouchProperties DEF GetFromMemory, TypeOK
      <4> QED BY Zenon, <2>10, <3>1, <3>3, <4>1, LockedFacts DEF GetFromMemory
    <3>4. CASE GetFromFs(t)
      <4>1. LoadedFromFs(Code(t)).code = Code(t) /\ LoadedFromFs(Code(t)).limited
        BY Zenon DEF LoadedFromFs
      <4> QED BY Zenon, <2>1, <2>10, <3>1, <3>4, <4>1, LockedFacts DEF GetFromFs, KeepInMemory
    <3>5. CASE GetFromWasm(t)
      BY Zenon, <2>9, <3>1, <3>5 DEF GetFromWasm
    <3>6. CASE LookupError(t)
      BY Zenon, <2>1, <3>6 DEF LookupError
    <3> QED BY Zenon, <2>13, <3>2, <3>3, <3>4, <3>5, <3>6 DEF GetModule
  <2>14. CASE Pin(t)
    <3>1. pc[t] = "locked" /\ Op(t) = "pin" /\ UNCHANGED wasmFile
      BY Zenon, <2>14 DEF Pin, disk
    <3>2. CASE PinFromWasm(t)
      BY Zenon, <2>9, <3>1, <3>2 DEF PinFromWasm
    <3> QED
      BY Zenon, <2>1, <2>14, <3>2 DEF Pin, PinPinned, PinFromMemory, PinFromFs, LookupError
  <2>11. CASE LockInstantiation(t)
    BY Zenon, <1>1, <1>2, <2>11 DEF LockInstantiation, disk, CallInv, TypeOK
  <2>12. CASE Instantiate(t)
    BY Zenon, <1>1, <1>4, <2>12 DEF Instantiate, TypeOK
  <2> QED
    BY Zenon, <1>7, <2>2, <2>3, <2>4, <2>5, <2>7, <2>8, <2>11, <2>12, <2>13, <2>14 DEF Step
<1>8. CASE Restart
  BY Zenon, <1>4, <1>8 DEF Restart
<1>9. CASE UNCHANGED vars
  BY Zenon, <1>3, <1>9 DEF vars
<1> QED
  BY ZenonT(60), <1>3, <1>5, <1>6, <1>7, <1>8, <1>9 DEF Next

THEOREM CacheInvariant == Spec => []CacheInv
<1>1. CacheInv /\ [Next]_vars => CacheInv'
  BY Zenon, TypeStep, CodeStep, CallStep DEF CacheInv
<1> QED
  BY <1>1, InitInv, PTL DEF Spec

(* The cache is type correct.                                                *)
THEOREM TypeCorrect == Spec => []TypeOK
<1>1. CacheInv => TypeOK
  BY Zenon DEF CacheInv
<1> QED
  BY <1>1, CacheInvariant, PTL

(* What save_wasm has acknowledged is on disk for good, for any number of    *)
(* threads and codes and any stops, upgrades and failing file operations.    *)
THEOREM SavedWasmIsKept == Spec => []SavedWasmSurvives
<1>1. CacheInv => SavedWasmSurvives
  BY Zenon DEF CacheInv, CodeInv, SavedWasmSurvives
<1> QED
  BY <1>1, CacheInvariant, PTL

(* No compiled module, in any cache or version directory, is without its     *)
(* accepted code on disk.                                                    *)
THEOREM ModulesAreBacked == Spec => []ModulesHaveCode
<1>1. CacheInv => ModulesHaveCode
  <2> SUFFICES ASSUME CacheInv, NEW c \in Checksums,
                      \/ \E v \in Versions : moduleFile[v][c] # "absent"
                      \/ PinnedHas(c) \/ Has(memory, c)
                      \/ \E t \in Threads : /\ pc[t] \in {"waitInstantiation", "instantiate"}
                                             /\ Code(t) = c
               PROVE  wasmFile[c] = "full" /\ c \in Accepted
    BY Zenon DEF ModulesHaveCode
  <2>1. Has(memory, c) => \E m \in Range(memory) : m.code = c
    BY Zenon, SeqOfOwnRange DEF Has, CacheInv, TypeOK
  <2>2. wasmFile[c] = "full"
    <3>1. CASE \E v \in Versions : moduleFile[v][c] # "absent"
      BY Zenon, <3>1 DEF CacheInv, CodeInv
    <3>2. CASE PinnedHas(c) \/ Has(memory, c)
      BY ZenonT(60), <2>1, <3>2 DEF CacheInv, CodeInv, PinnedHas
    <3>3. CASE \E t \in Threads : /\ pc[t] \in {"waitInstantiation", "instantiate"}
                                  /\ Code(t) = c
      BY Zenon, <3>3 DEF CacheInv, CallInv
    <3> QED BY Zenon, <3>1, <3>2, <3>3
  <2> QED BY Zenon, <2>2 DEF CacheInv, CodeInv
<1> QED
  BY <1>1, CacheInvariant, PTL

(* get_instance instantiates the module of the requested code under the      *)
(* memory limit.                                                             *)
THEOREM InstancesAreAlwaysLimited == Spec => []InstancesAreLimited
<1>1. CacheInv => InstancesAreLimited
  BY Zenon DEF CacheInv, CodeInv, CallInv, InstancesAreLimited
<1> QED
  BY <1>1, CacheInvariant, PTL

------------------------------------------------------------------------------
(* Answers.                                                                  *)

(* What the abstract store shows of a call in progress.                      *)
LEMMA CurrentCallFacts ==
  ASSUME CacheInv, NEW t \in Threads
  PROVE  /\ pc[t] = "idle" => CurrentCall[t] = NoRequest
         /\ pc[t] # "idle" => /\ CurrentCall[t] = req[t] /\ req[t] # NoRequest
                             /\ Code(t) \in Checksums /\ req[t].op \in AllOps
<1>1. pc[t] # "idle" => Code(t) \in Checksums /\ Op(t) \in AllOps
  BY Zenon DEF CacheInv, CallInv, Code, Op
<1>2. pc[t] # "idle" => req[t] # NoRequest
  BY <1>1 DEF NoRequest, AllOps, Op
<1> QED
  BY Zenon, <1>1, <1>2 DEF CurrentCall, Op

(* A step that ends a call is an Answer of the abstract store.               *)
LEMMA AnswerStep ==
  ASSUME CacheInv, NEW t \in Threads, NEW r, pc[t] # "idle",
         r \in {"ok", "notFound", "integrity", "io", "deserialize", "compile", "tooBig", "instantiation"},
         pc' = [pc EXCEPT ![t] = "idle"], req' = req,
         result' = [result EXCEPT ![t] = r], wasmFile' = wasmFile,
         r = "ok" => Op(t) = "unpin" \/ wasmFile[Code(t)] = "full",
         r \in {"notFound", "integrity"} => wasmFile[Code(t)] # "full"
  PROVE  Store!StoreNext
<1>1. /\ CurrentCall[t] = req[t] /\ req[t] # NoRequest /\ Code(t) \in Checksums
  BY Zenon, CurrentCallFacts
<1>2. CurrentCall' = [CurrentCall EXCEPT ![t] = NoRequest]
  BY Zenon DEF CurrentCall, CacheInv, TypeOK
<1>3. StoredCodes' = StoredCodes
  BY Zenon DEF StoredCodes
<1>4. Store!Answer(t, r)
  BY Zenon, <1>1, <1>2, <1>3
  DEF Store!Answer, Store!NoCall, Store!Missing, NoRequest, StoredCodes, Op, Code
<1> QED
  BY Zenon, <1>4 DEF Store!StoreNext, Store!Missing, Store!Failures

(* A step within a call that leaves the set of complete files alone is       *)
(* invisible to the abstract store.                                          *)
LEMMA InvisibleStep ==
  ASSUME CacheInv, NEW t \in Threads, NEW l, pc[t] # "idle", l # "idle",
         pc' = [pc EXCEPT ![t] = l], UNCHANGED <<req, result>>,
         \A c \in Checksums : wasmFile'[c] = "full" <=> wasmFile[c] = "full"
  PROVE  UNCHANGED <<StoredCodes, CurrentCall, result>>
<1>1. CurrentCall' = CurrentCall
  BY Zenon DEF CurrentCall, CacheInv, TypeOK
<1> QED
  BY Zenon, <1>1 DEF StoredCodes

(* The results of lookups agree with the store.                              *)
LEMMA LookupStep ==
  ASSUME CacheInv, NEW t \in Threads, GetModule(t) \/ Pin(t)
  PROVE  Store!StoreNext \/ UNCHANGED <<StoredCodes, CurrentCall, result>>
<1>1. /\ pc[t] = "locked" /\ Op(t) # "unpin" /\ UNCHANGED wasmFile
      /\ Code(t) \in Checksums /\ wasmFile[Code(t)] \in FileState
  BY Zenon, LockedFacts DEF GetModule, Pin, disk, CacheInv, TypeOK
<1>2. ASSUME NEW r \in {"notFound", "integrity", "deserialize", "compile", "tooBig"}, Return(t, r),
             r \in {"notFound", "integrity"} => wasmFile[Code(t)] # "full"
      PROVE  Store!StoreNext
  BY Zenon, <1>1, <1>2, AnswerStep DEF Return
<1>3. LookupError(t) => Store!StoreNext
  <2>1. LoadWasmResult(Code(t)) # "ok" =>
          /\ LoadWasmResult(Code(t)) \in {"notFound", "integrity"}
          /\ wasmFile[Code(t)] # "full"
    BY Zenon, <1>1 DEF LoadWasmResult, FileState
  <2> QED BY Zenon, <1>2, <2>1 DEF LookupError
<1>4. ASSUME NEW m, ReturnModule(t, m)
      PROVE  UNCHANGED <<StoredCodes, CurrentCall, result>>
  BY Zenon, <1>1, <1>4, InvisibleStep DEF ReturnModule
<1>5. CASE GetModule(t)
  <2>1. GetFromWasm(t) => UNCHANGED <<StoredCodes, CurrentCall, result>>
    BY Zenon, <1>1, InvisibleStep DEF GetFromWasm
  <2>2. GetFromFs(t) => Store!StoreNext \/ UNCHANGED <<StoredCodes, CurrentCall, result>>
    BY Zenon, <1>2, <1>4 DEF GetFromFs, KeepInMemory
  <2> QED BY Zenon, <1>3, <1>4, <1>5, <2>1, <2>2 DEF GetModule, GetFromPinned, GetFromMemory
<1>6. CASE Pin(t)
  <2>1. PinFromWasm(t) => UNCHANGED <<StoredCodes, CurrentCall, result>>
    BY Zenon, <1>1, InvisibleStep DEF PinFromWasm
  <2>2. ASSUME PinPinned(t) \/ PinFromMemory(t) \/ PinFromFs(t)
        PROVE  wasmFile[Code(t)] = "full"
    <3>1. CASE PinnedHas(Code(t))
      BY Zenon, <3>1 DEF PinnedHas, CacheInv, CodeInv
    <3>2. CASE Has(memory, Code(t))
      BY <3>2, TouchProperties DEF CacheInv, TypeOK, CodeInv
    <3>3. CASE FsLoadResult(Code(t)) = "some"
      BY Zenon, <1>1, <3>3 DEF FsLoadResult, CacheInv, TypeOK, CodeInv
    <3> QED BY Zenon, <2>2, <3>1, <3>2, <3>3 DEF PinPinned, PinFromMemory, PinFromFs
  <2>3. PinPinned(t) \/ PinFromMemory(t) \/ PinFromFs(t) => Store!StoreNext
    <3>1. PinPinned(t) \/ PinFromMemory(t) \/ PinFromFs(t) => Return(t, "ok")
      BY Zenon DEF PinPinned, PinFromMemory, PinFromFs
    <3> QED BY Zenon, <1>1, <2>2, <3>1, AnswerStep DEF Return
  <2> QED BY Zenon, <1>3, <1>6, <2>1, <2>3 DEF Pin
<1> QED
  BY Zenon, <1>5, <1>6

(* Every step of the cache is a step of the abstract store, or invisible.    *)
LEMMA StoreStep ==
  ASSUME CacheInv, [Next]_vars
  PROVE  Store!StoreNext \/ UNCHANGED <<StoredCodes, CurrentCall, result>>
<1> USE DEF disk
<1>1. ASSUME NEW t \in Threads, NEW c \in Checksums, CallSave(t, c)
      PROVE  Store!StoreNext
  <2>1. CurrentCall[t] = NoRequest /\ StoredCodes' = StoredCodes
    BY Zenon, <1>1, CurrentCallFacts DEF CallSave, StoredCodes
  <2>2. CASE c \in Accepted
    <3>1. CurrentCall' = [CurrentCall EXCEPT ![t] = [op |-> "save", code |-> c]]
      BY Zenon, <1>1, <2>2 DEF CallSave, CurrentCall, CacheInv, TypeOK
    <3>2. Store!Begin(t, "save", c)
      BY Zenon, <1>1, <2>1, <2>2, <3>1 DEF CallSave, Store!Begin, Store!NoCall, NoRequest
    <3> QED BY Zenon, <3>2 DEF Store!StoreNext
  <2>3. CASE c \notin Accepted
    <3>1. CurrentCall' = CurrentCall
      BY Zenon, <1>1, <2>3 DEF CallSave, CurrentCall, CacheInv, TypeOK
    <3>2. Store!Reject(t)
      BY Zenon, <1>1, <2>1, <2>3, <3>1 DEF CallSave, Store!Reject, Store!NoCall, NoRequest
    <3> QED BY Zenon, <3>2 DEF Store!StoreNext
  <2> QED BY Zenon, <2>2, <2>3
<1>2. ASSUME NEW t \in Threads, NEW c \in Checksums, NEW op \in AllOps, Call(t, op, c)
      PROVE  Store!StoreNext
  <2>1. CurrentCall[t] = NoRequest /\ StoredCodes' = StoredCodes
    BY Zenon, <1>2, CurrentCallFacts DEF Call, StoredCodes
  <2>2. CurrentCall' = [CurrentCall EXCEPT ![t] = [op |-> op, code |-> c]]
    BY Zenon, <1>2 DEF Call, CurrentCall, CacheInv, TypeOK
  <2>3. Store!Begin(t, op, c)
    BY Zenon, <1>2, <2>1, <2>2 DEF Call, Store!Begin, Store!NoCall, NoRequest
  <2> QED BY Zenon, <2>3 DEF Store!StoreNext, AllOps
<1>3. ASSUME NEW t \in Threads, LockInner(t) \/ OpenModule(t) \/ LockInstantiation(t)
      PROVE  UNCHANGED <<StoredCodes, CurrentCall, result>>
  BY Zenon, <1>3, InvisibleStep DEF LockInner, OpenModule, LockInstantiation
<1>4. ASSUME NEW t \in Threads, OpenWasm(t)
      PROVE  UNCHANGED <<StoredCodes, CurrentCall, result>>
  <2>1. \A c \in Checksums : wasmFile'[c] = "full" <=> wasmFile[c] = "full"
    BY Zenon, <1>4 DEF OpenWasm, OpenedForWriting, CacheInv, TypeOK
  <2> QED BY Zenon, <1>4, <2>1, InvisibleStep DEF OpenWasm
<1>5. ASSUME NEW t \in Threads, WriteWasm(t)
      PROVE  Store!StoreNext
  <2>1. CurrentCall[t] = req[t] /\ req[t].op = "save" /\ Code(t) \in Checksums
    BY Zenon, <1>5, CurrentCallFacts DEF WriteWasm, CacheInv, CallInv, Op
  <2>2. CurrentCall' = CurrentCall
    BY Zenon, <1>5 DEF WriteWasm, CurrentCall, CacheInv, TypeOK
  <2>3. StoredCodes' = StoredCodes \cup {Code(t)}
    BY Zenon, <1>5, <2>1 DEF WriteWasm, StoredCodes, CacheInv, TypeOK
  <2>4. Store!Store(t)
    BY Zenon, <1>5, <2>1, <2>2, <2>3 DEF WriteWasm, Store!Store, Code
  <2> QED BY Zenon, <2>4 DEF Store!StoreNext
<1>6. ASSUME NEW t \in Threads, WriteModule(t)
      PROVE  Store!StoreNext \/ UNCHANGED <<StoredCodes, CurrentCall, result>>
  <2>1. /\ pc[t] = "writeModule" /\ UNCHANGED wasmFile /\ wasmFile[Code(t)] = "full"
    BY Zenon, <1>6 DEF WriteModule, CacheInv, CallInv
  <2>2. ASSUME NEW r \in {"ok", "tooBig"}, Return(t, r)
        PROVE  Store!StoreNext
    BY Zenon, <2>1, <2>2, AnswerStep DEF Return
  <2>3. ASSUME NEW m, ReturnModule(t, m)
        PROVE  UNCHANGED <<StoredCodes, CurrentCall, result>>
    BY Zenon, <2>1, <2>3, InvisibleStep DEF ReturnModule
  <2> QED BY Zenon, <1>6, <2>2, <2>3 DEF WriteModule, KeepInMemory
<1>7. ASSUME NEW t \in Threads, IoError(t)
      PROVE  Store!StoreNext
  BY Zenon, <1>7, AnswerStep DEF IoError, Return, TouchesDisk
<1>8. ASSUME NEW t \in Threads, Unpin(t)
      PROVE  Store!StoreNext
  BY Zenon, <1>8, AnswerStep DEF Unpin, Return
<1>9. ASSUME NEW t \in Threads, LoadWasm(t)
      PROVE  Store!StoreNext
  <2>1. wasmFile[Code(t)] \in FileState
    BY Zenon, <1>9, LockedFacts DEF LoadWasm, CacheInv, TypeOK
  <2>2. /\ LoadWasmResult(Code(t)) \in {"ok", "notFound", "integrity"}
        /\ LoadWasmResult(Code(t)) = "ok" <=> wasmFile[Code(t)] = "full"
    BY Zenon, <2>1 DEF LoadWasmResult, FileState
  <2> HIDE DEF LoadWasmResult
  <2> QED BY Zenon, <1>9, <2>2, AnswerStep DEF LoadWasm, Return
<1>10. ASSUME NEW t \in Threads, Instantiate(t)
       PROVE  Store!StoreNext
  <2>1. wasmFile[Code(t)] = "full"
    BY ZenonT(60), <1>10 DEF Instantiate, CacheInv, CallInv
  <2> QED BY Zenon, <1>10, <2>1, AnswerStep DEF Instantiate
<1>11. ASSUME Restart
       PROVE  Store!StoreNext
  <2>1. StoredCodes' = StoredCodes /\ CurrentCall' = [t \in Threads |-> NoRequest]
    BY Zenon, <1>11 DEF Restart, StoredCodes, CurrentCall
  <2>2. result' = [t \in Threads |-> IF CurrentCall[t] = NoRequest THEN result[t] ELSE "lost"]
    BY Zenon, <1>11, CurrentCallFacts DEF Restart
  <2>3. Store!Stop
    BY Zenon, <2>1, <2>2 DEF Store!Stop, Store!NoCall, NoRequest
  <2> QED BY Zenon, <2>3 DEF Store!StoreNext
<1>12. CASE UNCHANGED vars
  BY Zenon, <1>12 DEF vars, StoredCodes, CurrentCall
<1> QED
  BY Zenon, <1>1, <1>2, <1>3, <1>4, <1>5, <1>6, <1>7, <1>8, <1>9, <1>10, <1>11, <1>12, LookupStep
  DEF Next, Step

(* The cache implements the abstract contract store: the store only grows    *)
(* and every answer of the cache agrees with it, through stops, upgrades and *)
(* failing file operations.                                                  *)
THEOREM CacheImplementsStore == Spec => ImplementsStore
<1>1. Init => Store!StoreInit
  BY Zenon DEF Init, Store!StoreInit, Store!NoCall, NoRequest, StoredCodes, CurrentCall
<1>2. CacheInv /\ [Next]_vars => [Store!StoreNext]_<<StoredCodes, CurrentCall, result>>
  BY Zenon, StoreStep
<1> QED
  BY <1>1, <1>2, CacheInvariant, PTL DEF Spec, ImplementsStore, Store!StoreSpec

(* The thread that holds the lock is the one that is inside.                 *)
LockInv == \A t \in Threads : pc[t] \in HasInner <=> inner = t

(* A file that is incomplete is being written.                               *)
WasmFilesInv ==
  \A c \in Checksums : wasmFile[c] = "partial" =>
    \E t \in Threads : pc[t] = "writeWasm" /\ Code(t) = c

ModuleFilesInv ==
  \A c \in Checksums : moduleFile[version][c] = "partial" =>
    \E t \in Threads : pc[t] = "writeModule" /\ Code(t) = c

FilesInv == Faults = {} => WasmFilesInv /\ ModuleFilesInv

LocksInv == LockInv /\ FilesInv /\ NoTornReads

LEMMA LocksInit == Init => LocksInv
<1> SUFFICES ASSUME Init PROVE LocksInv
  BY Zenon
<1>1. LockInv
  BY Zenon, CacheAssumption DEF Init, LockInv, HasInner
<1>2. WasmFilesInv /\ ModuleFilesInv
  BY Zenon DEF Init, WasmFilesInv, ModuleFilesInv
<1>3. NoTornReads
  BY Zenon DEF Init, NoTornReads
<1> QED
  BY Zenon, <1>1, <1>2, <1>3 DEF LocksInv, FilesInv

--------------------------------------------------------------------------------
(* How one thread can change the lock: not at all, by taking it while it is  *)
(* free, or by giving it back.                                               *)
LockMove(t) ==
  /\ \E x \in Labels : pc' = [pc EXCEPT ![t] = x]
  /\ \/ pc[t] \notin HasInner /\ pc'[t] \notin HasInner /\ inner' = inner
     \/ pc[t] \notin HasInner /\ pc'[t] \in HasInner /\ inner = NoThread /\ inner' = t
     \/ pc[t] \in HasInner /\ pc'[t] \in HasInner /\ inner' = inner
     \/ pc[t] \in HasInner /\ pc'[t] \notin HasInner /\ inner' = NoThread

LEMMA ReturnMoves ==
  ASSUME TypeOK, NEW t \in Threads, pc[t] \in HasInner
  PROVE  /\ \A r : Return(t, r) => LockMove(t)
         /\ \A m : ReturnModule(t, m) => LockMove(t)
         /\ \A m : KeepInMemory(t, m) => LockMove(t)
<1>1. \A r : Return(t, r) => LockMove(t)
  BY Zenon DEF TypeOK, Return, LockMove, HasInner, Labels
<1>2. \A m : ReturnModule(t, m) => LockMove(t)
  BY Zenon DEF TypeOK, ReturnModule, LockMove, HasInner, Labels
<1> QED
  BY Zenon, <1>1, <1>2 DEF KeepInMemory

LEMMA ThreadMoves ==
  ASSUME TypeOK, NEW t \in Threads,
         \/ \E c \in Checksums : CallSave(t, c)
         \/ \E c \in Checksums, op \in AllOps : Call(t, op, c)
         \/ Step(t)
  PROVE  LockMove(t)
<1>1. CASE \E c \in Checksums : CallSave(t, c)
  <2>1. pc[t] = "idle" /\ inner' = inner
        /\ (pc' = pc \/ pc' = [pc EXCEPT ![t] = "waitInner"])
    BY Zenon, <1>1 DEF CallSave, locks
  <2>2. pc' = [pc EXCEPT ![t] = "idle"] \/ pc' = [pc EXCEPT ![t] = "waitInner"]
    BY Zenon, <2>1 DEF TypeOK
  <2> QED
    BY Zenon, <2>1, <2>2 DEF TypeOK, LockMove, HasInner, Labels
<1>2. CASE \E c \in Checksums, op \in AllOps : Call(t, op, c)
  BY Zenon, <1>2 DEF Call, TypeOK, LockMove, HasInner, Labels, locks
<1>3. CASE LockInner(t)
  BY Zenon, <1>3 DEF LockInner, TypeOK, LockMove, HasInner, Labels
<1>4. CASE OpenWasm(t) \/ WriteWasm(t) \/ OpenModule(t)
  BY Zenon, <1>4 DEF OpenWasm, WriteWasm, OpenModule, TypeOK, LockMove, HasInner, Labels, locks
<1>5. CASE WriteModule(t)
  <2>1. pc[t] \in HasInner
    BY Zenon, <1>5 DEF WriteModule, HasInner
  <2> QED
    BY Zenon, <2>1, <1>5, ReturnMoves DEF WriteModule
<1>6. CASE IoError(t)
  <2>1. pc[t] \in HasInner
    BY Zenon, <1>6 DEF IoError, TouchesDisk, HasInner
  <2> QED
    BY Zenon, <2>1, <1>6, ReturnMoves DEF IoError
<1>7. CASE GetModule(t) \/ Pin(t)
  <2>1. pc[t] \in HasInner
    BY Zenon, <1>7 DEF GetModule, Pin, HasInner
  <2>2. CASE GetFromWasm(t) \/ PinFromWasm(t)
    BY Zenon, <2>1, <2>2 DEF GetFromWasm, PinFromWasm, TypeOK, LockMove, HasInner, Labels, locks
  <2>3. CASE GetFromPinned(t) \/ GetFromMemory(t) \/ GetFromFs(t)
    BY Zenon, <2>1, <2>3, ReturnMoves DEF GetFromPinned, GetFromMemory, GetFromFs
  <2>4. CASE PinPinned(t) \/ PinFromMemory(t) \/ PinFromFs(t)
    BY Zenon, <2>1, <2>4, ReturnMoves DEF PinPinned, PinFromMemory, PinFromFs
  <2>5. CASE LookupError(t)
    BY Zenon, <2>1, <2>5, ReturnMoves DEF LookupError
  <2> QED
    BY Zenon, <1>7, <2>2, <2>3, <2>4, <2>5 DEF GetModule, Pin
<1>8. CASE Unpin(t) \/ LoadWasm(t)
  <2>1. pc[t] \in HasInner
    BY Zenon, <1>8 DEF Unpin, LoadWasm, HasInner
  <2> QED
    BY Zenon, <2>1, <1>8, ReturnMoves DEF Unpin, LoadWasm
<1>9. CASE LockInstantiation(t) \/ Instantiate(t)
  BY Zenon, <1>9 DEF LockInstantiation, Instantiate, TypeOK, LockMove, HasInner, Labels
<1> QED
  BY Zenon, <1>1, <1>2, <1>3, <1>4, <1>5, <1>6, <1>7, <1>8, <1>9 DEF Step

(* Any step leaves the lock with the thread that is inside.                  *)
LEMMA LockStep ==
  ASSUME TypeOK, LockInv, [Next]_vars
  PROVE  LockInv'
<1>1. ASSUME NEW t \in Threads, LockMove(t) PROVE LockInv'
  <2>1. PICK x \in Labels : pc' = [pc EXCEPT ![t] = x]
    BY Zenon, <1>1 DEF LockMove
  <2>2. pc'[t] = x /\ \A u \in Threads \ {t} : pc'[u] = pc[u]
    BY Zenon, <2>1 DEF TypeOK
  <2>3. pc[t] \in HasInner <=> inner = t
    BY Zenon DEF LockInv
  <2>4. \A u \in Threads : pc[u] \in HasInner <=> inner = u
    BY Zenon DEF LockInv
  <2>5. \A u \in Threads : pc'[u] \in HasInner <=> inner' = u
    BY Zenon, <1>1, <2>2, <2>3, <2>4, CacheAssumption DEF LockMove
  <2> QED
    BY Zenon, <2>5 DEF LockInv
<1>2. CASE Restart
  BY Zenon, <1>2, CacheAssumption DEF Restart, LockInv, HasInner
<1>3. CASE UNCHANGED vars
  BY Zenon, <1>3 DEF vars, locks, LockInv, HasInner
<1> QED
  BY Zenon, <1>1, <1>2, <1>3, ThreadMoves DEF Next

--------------------------------------------------------------------------------
(* How one thread can change files when no file operation fails: it opens    *)
(* one, which it then is writing, or it completes the one it was writing.    *)
FileMove(t) ==
  /\ version' = version
  /\ \A u \in Threads \ {t} : pc'[u] = pc[u] /\ req'[u] = req[u]
  /\ \/ wasmFile' = wasmFile /\ pc[t] # "writeWasm"
     \/ /\ \A c \in Checksums : c # Code(t) => wasmFile'[c] = wasmFile[c]
        /\ pc[t] # "writeWasm" /\ pc'[t] = "writeWasm" /\ req'[t] = req[t]
     \/ /\ \A c \in Checksums : c # Code(t) => wasmFile'[c] = wasmFile[c]
        /\ wasmFile'[Code(t)] = "full"
  /\ \/ moduleFile' = moduleFile /\ pc[t] # "writeModule"
     \/ /\ \A c \in Checksums : c # Code(t) => moduleFile'[version][c] = moduleFile[version][c]
        /\ pc[t] # "writeModule" /\ pc'[t] = "writeModule" /\ req'[t] = req[t]
     \/ /\ \A c \in Checksums : c # Code(t) => moduleFile'[version][c] = moduleFile[version][c]
        /\ moduleFile'[version][Code(t)] = "full"

(* Returning does not touch files, and no other thread.                      *)
LEMMA ReturnFrame ==
  ASSUME TypeOK, NEW t \in Threads
  PROVE  /\ \A r : Return(t, r) => \A u \in Threads \ {t} : pc'[u] = pc[u] /\ req'[u] = req[u]
         /\ \A m : ReturnModule(t, m) =>
              \A u \in Threads \ {t} : pc'[u] = pc[u] /\ req'[u] = req[u]
         /\ \A m : KeepInMemory(t, m) =>
              \A u \in Threads \ {t} : pc'[u] = pc[u] /\ req'[u] = req[u]
<1>1. \A r : Return(t, r) => \A u \in Threads \ {t} : pc'[u] = pc[u] /\ req'[u] = req[u]
  BY Zenon DEF TypeOK, Return
<1>2. \A m : ReturnModule(t, m) =>
        \A u \in Threads \ {t} : pc'[u] = pc[u] /\ req'[u] = req[u]
  BY Zenon DEF TypeOK, ReturnModule
<1> QED
  BY Zenon, <1>1, <1>2 DEF KeepInMemory

LEMMA ThreadFiles ==
  ASSUME CacheInv, Faults = {}, NEW t \in Threads,
         \/ \E c \in Checksums : CallSave(t, c)
         \/ \E c \in Checksums, op \in AllOps : Call(t, op, c)
         \/ Step(t)
  PROVE  FileMove(t)
<1> USE DEF CacheInv
<1>1. CASE \E c \in Checksums : CallSave(t, c)
  <2>1. PICK c \in Checksums : CallSave(t, c)
    BY Zenon, <1>1
  <2>2. UNCHANGED <<wasmFile, moduleFile, version>> /\ pc[t] = "idle"
    BY Zenon, <2>1 DEF CallSave, disk
  <2>3. \A u \in Threads \ {t} : pc'[u] = pc[u] /\ req'[u] = req[u]
    BY ZenonT(60), <2>1 DEF CallSave, TypeOK
  <2> QED
    BY Zenon, <2>2, <2>3 DEF FileMove
<1>2. CASE \E c \in Checksums, op \in AllOps : Call(t, op, c)
  BY Zenon, <1>2 DEF Call, disk, TypeOK, FileMove
<1>3. CASE LockInner(t)
  BY Zenon, <1>3 DEF LockInner, disk, TypeOK, FileMove
<1>4. CASE OpenWasm(t)
  <2>1. \A c \in Checksums : c # Code(t) => wasmFile'[c] = wasmFile[c]
    BY Zenon, <1>4 DEF OpenWasm, TypeOK
  <2> QED
    BY Zenon, <2>1, <1>4 DEF OpenWasm, TypeOK, FileMove
<1>5. CASE WriteWasm(t)
  <2>1. Code(t) \in Checksums
    BY Zenon, <1>5 DEF WriteWasm, CallInv, Code
  <2>2. /\ \A c \in Checksums : c # Code(t) => wasmFile'[c] = wasmFile[c]
        /\ wasmFile'[Code(t)] = "full"
    BY Zenon, <1>5, <2>1 DEF WriteWasm, TypeOK
  <2> QED
    BY Zenon, <2>2, <1>5 DEF WriteWasm, TypeOK, FileMove
<1>6. CASE OpenModule(t)
  <2>1. \A c \in Checksums : c # Code(t) => moduleFile'[version][c] = moduleFile[version][c]
    BY Zenon, <1>6 DEF OpenModule, TypeOK
  <2> QED
    BY Zenon, <2>1, <1>6 DEF OpenModule, TypeOK, FileMove
<1>7. CASE WriteModule(t)
  <2>1. Code(t) \in Checksums
    BY Zenon, <1>7 DEF WriteModule, CallInv, Code
  <2>2. /\ \A c \in Checksums : c # Code(t) => moduleFile'[version][c] = moduleFile[version][c]
        /\ moduleFile'[version][Code(t)] = "full"
    BY Zenon, <1>7, <2>1 DEF WriteModule, TypeOK
  <2>3. \A u \in Threads \ {t} : pc'[u] = pc[u] /\ req'[u] = req[u]
    BY Zenon, <1>7, ReturnFrame DEF WriteModule
  <2> QED
    BY Zenon, <2>2, <2>3, <1>7 DEF WriteModule, FileMove
<1>8. CASE IoError(t)
  BY Zenon, <1>8 DEF IoError
<1>9. CASE GetModule(t) \/ Pin(t)
  <2>1. pc[t] = "locked" /\ UNCHANGED disk
    BY Zenon, <1>9 DEF GetModule, Pin
  <2>2. \A u \in Threads \ {t} : pc'[u] = pc[u] /\ req'[u] = req[u]
    <3>1. CASE GetFromWasm(t) \/ PinFromWasm(t)
      BY Zenon, <3>1 DEF GetFromWasm, PinFromWasm, TypeOK
    <3>2. CASE GetFromPinned(t) \/ GetFromMemory(t) \/ GetFromFs(t)
      BY Zenon, <3>2, ReturnFrame DEF GetFromPinned, GetFromMemory, GetFromFs
    <3>3. CASE PinPinned(t) \/ PinFromMemory(t) \/ PinFromFs(t)
      BY Zenon, <3>3, ReturnFrame DEF PinPinned, PinFromMemory, PinFromFs
    <3>4. CASE LookupError(t)
      BY Zenon, <3>4, ReturnFrame DEF LookupError
    <3> QED
      BY Zenon, <1>9, <3>1, <3>2, <3>3, <3>4 DEF GetModule, Pin
  <2> QED
    BY Zenon, <2>1, <2>2 DEF disk, FileMove
<1>10. CASE Unpin(t) \/ LoadWasm(t)
  <2>1. \A u \in Threads \ {t} : pc'[u] = pc[u] /\ req'[u] = req[u]
    BY Zenon, <1>10, ReturnFrame DEF Unpin, LoadWasm
  <2> QED
    BY Zenon, <2>1, <1>10 DEF Unpin, LoadWasm, disk, FileMove
<1>11. CASE LockInstantiation(t) \/ Instantiate(t)
  BY Zenon, <1>11 DEF LockInstantiation, Instantiate, disk, TypeOK, FileMove
<1> QED
  BY Zenon, <1>1, <1>2, <1>3, <1>4, <1>5, <1>6, <1>7, <1>8, <1>9, <1>10, <1>11 DEF Step

(* Any step leaves incomplete only what is still being written.              *)
LEMMA FilesStep ==
  ASSUME CacheInv, FilesInv, [Next]_vars
  PROVE  FilesInv'
<1> SUFFICES ASSUME Faults = {} PROVE WasmFilesInv' /\ ModuleFilesInv'
  BY Zenon DEF FilesInv
<1>1. WasmFilesInv /\ ModuleFilesInv
  BY Zenon DEF FilesInv
<1>2. ASSUME NEW t \in Threads, FileMove(t) PROVE WasmFilesInv' /\ ModuleFilesInv'
  <2>1. ASSUME NEW c \in Checksums, wasmFile'[c] = "partial"
        PROVE  \E u \in Threads : pc'[u] = "writeWasm" /\ req'[u].code = c
    <3>1. CASE wasmFile[c] = "partial"
      <4>1. PICK u \in Threads : pc[u] = "writeWasm" /\ req[u].code = c
        BY Zenon, <1>1, <3>1 DEF WasmFilesInv, Code
      <4>2. CASE u # t
        BY Zenon, <4>1, <4>2, <1>2 DEF FileMove
      <4>3. CASE u = t
        BY Zenon, <4>1, <4>3, <1>2, <2>1 DEF FileMove, Code
      <4> QED
        BY Zenon, <4>2, <4>3
    <3>2. CASE wasmFile[c] # "partial"
      BY Zenon, <3>2, <1>2, <2>1 DEF FileMove, Code
    <3> QED
      BY Zenon, <3>1, <3>2
  <2>2. ASSUME NEW c \in Checksums, moduleFile'[version'][c] = "partial"
        PROVE  \E u \in Threads : pc'[u] = "writeModule" /\ req'[u].code = c
    <3>1. CASE moduleFile[version][c] = "partial"
      <4>1. PICK u \in Threads : pc[u] = "writeModule" /\ req[u].code = c
        BY Zenon, <1>1, <3>1 DEF ModuleFilesInv, Code
      <4>2. CASE u # t
        BY Zenon, <4>1, <4>2, <1>2 DEF FileMove
      <4>3. CASE u = t
        BY Zenon, <4>1, <4>3, <1>2, <2>2 DEF FileMove, Code
      <4> QED
        BY Zenon, <4>2, <4>3
    <3>2. CASE moduleFile[version][c] # "partial"
      BY Zenon, <3>2, <1>2, <2>2 DEF FileMove, Code
    <3> QED
      BY Zenon, <3>1, <3>2
  <2> QED
    BY Zenon, <2>1, <2>2 DEF WasmFilesInv, ModuleFilesInv, Code
<1>3. CASE Restart
  BY Zenon, <1>3 DEF Restart
<1>4. CASE UNCHANGED vars
  BY ZenonT(60), <1>1, <1>4 DEF vars, disk, WasmFilesInv, ModuleFilesInv, Code
<1> QED
  BY Zenon, <1>2, <1>3, <1>4, ThreadFiles DEF Next

--------------------------------------------------------------------------------
(* A thread that holds the lock and is not writing finds every file          *)
(* complete.                                                                 *)
LEMMA NothingHalfWritten ==
  ASSUME CacheInv, LockInv, WasmFilesInv, ModuleFilesInv,
         NEW t \in Threads, pc[t] = "locked"
  PROVE  LoadWasmResult(Code(t)) # "integrity" /\ FsLoadResult(Code(t)) # "deserialize"
<1>1. inner = t
  BY Zenon DEF LockInv, HasInner
<1>2. \A u \in Threads : pc[u] \notin {"writeWasm", "writeModule"}
  BY Zenon, <1>1 DEF LockInv, HasInner
<1>3. Code(t) \in Checksums
  BY Zenon DEF CacheInv, CallInv, Code
<1>4. wasmFile[Code(t)] \in {"absent", "full"}
  BY Zenon, <1>2, <1>3 DEF WasmFilesInv, CacheInv, TypeOK, FileState
<1>5. moduleFile[version][Code(t)] \in {"absent", "full"}
  BY <1>2, <1>3 DEF ModuleFilesInv, CacheInv, TypeOK, FileState
<1>6. LoadWasmResult(Code(t)) # "integrity"
  BY Zenon, <1>4 DEF LoadWasmResult
<1>7. FsLoadResult(Code(t)) # "deserialize"
  BY Zenon, <1>5 DEF FsLoadResult
<1> QED
  BY Zenon, <1>6, <1>7

Torn == {"integrity", "deserialize"}

(* Any step ends calls with other results than those of a torn file.         *)
LEMMA ResultStep ==
  ASSUME CacheInv, LocksInv, [Next]_vars
  PROVE  NoTornReads'
<1> SUFFICES ASSUME Faults = {} PROVE \A u \in Threads : result'[u] \notin Torn
  BY Zenon DEF NoTornReads, Torn
<1>1. /\ LockInv /\ WasmFilesInv /\ ModuleFilesInv
      /\ \A u \in Threads : result[u] \notin Torn
  BY Zenon DEF LocksInv, FilesInv, NoTornReads, Torn
<1>2. result \in [Threads -> Results]
  BY Zenon DEF CacheInv, TypeOK
<1>3. ASSUME NEW t \in Threads, NEW r, r \notin Torn, result' = [result EXCEPT ![t] = r]
      PROVE  \A u \in Threads : result'[u] \notin Torn
  BY Zenon, <1>1, <1>2, <1>3
<1>4. ASSUME UNCHANGED result PROVE \A u \in Threads : result'[u] \notin Torn
  BY Zenon, <1>1, <1>4
<1>5. ASSUME NEW t \in Threads, NEW r, r \notin Torn, Return(t, r)
      PROVE  \A u \in Threads : result'[u] \notin Torn
  BY Zenon, <1>3, <1>5 DEF Return
<1>6. ASSUME NEW t \in Threads, NEW m, KeepInMemory(t, m)
      PROVE  \A u \in Threads : result'[u] \notin Torn
  <2>1. CASE Return(t, "tooBig")
    BY Zenon, <2>1, <1>5 DEF Torn
  <2>2. CASE ReturnModule(t, m)
    BY Zenon, <2>2, <1>4 DEF ReturnModule
  <2> QED
    BY Zenon, <1>6, <2>1, <2>2 DEF KeepInMemory
<1>7. ASSUME NEW t \in Threads, Step(t) PROVE \A u \in Threads : result'[u] \notin Torn
  <2>1. CASE LockInner(t) \/ OpenWasm(t) \/ WriteWasm(t) \/ OpenModule(t) \/ LockInstantiation(t)
    BY Zenon, <2>1, <1>4 DEF LockInner, OpenWasm, WriteWasm, OpenModule, LockInstantiation
  <2>2. CASE WriteModule(t)
    <3>1. Return(t, "ok") \/ KeepInMemory(t, module[t])
      BY Zenon, <2>2 DEF WriteModule
    <3> QED
      BY Zenon, <3>1, <1>5, <1>6 DEF Torn
  <2>3. CASE IoError(t)
    BY Zenon, <2>3 DEF IoError
  <2>4. CASE GetModule(t) \/ Pin(t)
    <3>1. pc[t] = "locked"
      BY Zenon, <2>4 DEF GetModule, Pin
    <3>2. LoadWasmResult(Code(t)) # "integrity" /\ FsLoadResult(Code(t)) # "deserialize"
      BY Zenon, <3>1, <1>1, NothingHalfWritten
    <3>3. CASE GetFromWasm(t) \/ PinFromWasm(t)
      BY Zenon, <3>3, <1>4 DEF GetFromWasm, PinFromWasm
    <3>4. CASE GetFromPinned(t) \/ GetFromMemory(t)
      <4>1. UNCHANGED result
        BY Zenon, <3>4 DEF GetFromPinned, GetFromMemory, ReturnModule
      <4> QED
        BY Zenon, <4>1, <1>4
    <3>5. CASE GetFromFs(t)
      BY Zenon, <3>5, <1>6 DEF GetFromFs
    <3>6. CASE PinPinned(t) \/ PinFromMemory(t) \/ PinFromFs(t)
      <4>1. Return(t, "ok")
        BY Zenon, <3>6 DEF PinPinned, PinFromMemory, PinFromFs
      <4> QED
        BY Zenon, <4>1, <1>5 DEF Torn
    <3>7. CASE LookupError(t)
      <4>1. Return(t, LoadWasmResult(Code(t))) /\ LoadWasmResult(Code(t)) # "ok"
        BY Zenon, <3>2, <3>7 DEF LookupError
      <4>2. LoadWasmResult(Code(t)) \notin Torn
        <5>1. Code(t) \in Checksums
          BY Zenon, <3>1 DEF CacheInv, CallInv, Code
        <5>2. LoadWasmResult(Code(t)) \in {"notFound", "integrity", "ok"}
          BY Zenon, <5>1 DEF LoadWasmResult, CacheInv, TypeOK, FileState
        <5> QED
          BY Zenon, <5>2, <3>2 DEF Torn
      <4> QED
        BY Zenon, <4>1, <4>2, <1>5
    <3> QED
      BY Zenon, <2>4, <3>3, <3>4, <3>5, <3>6, <3>7 DEF GetModule, Pin
  <2>5. CASE Unpin(t)
    BY Zenon, <2>5, <1>5 DEF Unpin, Torn
  <2>6. CASE LoadWasm(t)
    <3>1. pc[t] = "locked" /\ Return(t, LoadWasmResult(Code(t)))
      BY Zenon, <2>6 DEF LoadWasm
    <3>2. LoadWasmResult(Code(t)) # "integrity"
      BY Zenon, <3>1, <1>1, NothingHalfWritten
    <3>3. Code(t) \in Checksums
      BY Zenon, <3>1 DEF CacheInv, CallInv, Code
    <3>4. LoadWasmResult(Code(t)) \in {"notFound", "integrity", "ok"}
      BY Zenon, <3>3 DEF LoadWasmResult, CacheInv, TypeOK, FileState
    <3>5. LoadWasmResult(Code(t)) \notin Torn
      BY Zenon, <3>2, <3>4 DEF Torn
    <3> QED
      BY Zenon, <3>1, <3>5, <1>5
  <2>7. CASE Instantiate(t)
    <3>1. PICK r \in {"ok", "instantiation"} : result' = [result EXCEPT ![t] = r]
      BY Zenon, <2>7 DEF Instantiate
    <3> QED
      BY Zenon, <3>1, <1>3 DEF Torn
  <2> QED
    BY Zenon, <1>7, <2>1, <2>2, <2>3, <2>4, <2>5, <2>6, <2>7 DEF Step
<1>8. ASSUME NEW t \in Threads, NEW c \in Checksums, CallSave(t, c)
      PROVE  \A u \in Threads : result'[u] \notin Torn
  <2>1. result' = [result EXCEPT ![t] = "pending"] \/ result' = [result EXCEPT ![t] = "rejected"]
    BY Zenon, <1>8 DEF CallSave
  <2> QED
    BY Zenon, <2>1, <1>3 DEF Torn
<1>9. ASSUME NEW t \in Threads, NEW c \in Checksums, NEW op \in AllOps, Call(t, op, c)
      PROVE  \A u \in Threads : result'[u] \notin Torn
  BY Zenon, <1>9, <1>3 DEF Call, Torn
<1>10. CASE Restart
  BY Zenon, <1>10 DEF Restart
<1>11. CASE UNCHANGED vars
  BY Zenon, <1>11, <1>4 DEF vars
<1> QED
  BY Zenon, <1>7, <1>8, <1>9, <1>10, <1>11 DEF Next

--------------------------------------------------------------------------------
(* The mutex inner: the thread that holds it, and no other, is inside.       *)
THEOREM LockHeld == Spec => []LockInv
<1>1. LockInv /\ CacheInv /\ [Next]_vars => LockInv'
  BY Zenon, LockStep DEF CacheInv
<1>2. Init => LockInv
  BY Zenon, LocksInit DEF LocksInv
<1> QED
  BY <1>1, <1>2, CacheInvariant, PTL DEF Spec

(* The lock is held from opening a file to the end of its write: when no     *)
(* file operation fails and the node does not stop, no call ever meets a     *)
(* file that another thread has half written (Cache, the mutex inner).       *)
THEOREM NoCallSeesTornFiles == Spec => []NoTornReads
<1>1. LocksInv /\ CacheInv /\ [Next]_vars => LocksInv'
  BY Zenon, LockStep, FilesStep, ResultStep DEF LocksInv, CacheInv
<1>2. LocksInv => NoTornReads
  BY Zenon DEF LocksInv
<1> QED
  BY <1>1, <1>2, LocksInit, CacheInvariant, PTL DEF Spec

--------------------------------------------------------------------------------
(* A get that has to compile has not found the code in the memory cache, and *)
(* still would not find it: it has the lock.                                 *)
Compiling(t) == pc[t] \in {"storeModule", "writeModule"} /\ Op(t) = "get"

MissInv == \A t \in Threads : Compiling(t) => ~Has(memory, Code(t))

MemoryInv == MemoryCacheBounded /\ MissInv

(* How the memory cache can change.                                          *)
TouchMove == \E c : Has(memory, c) /\ memory' = Touch(memory, c)

StoreMove ==
  \E m \in Module : ~TooBig(m) /\ ~Has(memory, m.code) /\ memory' = Stored(memory, m)

(* One thread changes the memory cache only while it has the lock, and is    *)
(* not about to compile a code that is in the cache afterwards.              *)
MemoryMove(t) ==
  /\ \A u \in Threads \ {t} : pc'[u] = pc[u] /\ req'[u] = req[u]
  /\ memory' = memory \/ (pc[t] \in HasInner /\ (TouchMove \/ StoreMove))
  /\ Compiling(t)' => ~Has(memory', Code(t)')

LEMMA KeepMoves ==
  ASSUME TypeOK, NEW t \in Threads, pc[t] \in HasInner, NEW m \in Module, ~Has(memory, m.code),
         KeepInMemory(t, m)
  PROVE  MemoryMove(t)
<1>1. \A u \in Threads \ {t} : pc'[u] = pc[u] /\ req'[u] = req[u]
  BY Zenon, ReturnFrame
<1>2. memory' = memory \/ StoreMove
  BY Zenon DEF KeepInMemory, StoreMove
<1>3. pc'[t] \in {"idle", "waitInstantiation"}
  BY Zenon DEF KeepInMemory, Return, ReturnModule, TypeOK
<1>4. ~Compiling(t)'
  BY Zenon, <1>3 DEF Compiling
<1> QED
  BY Zenon, <1>1, <1>2, <1>4 DEF MemoryMove

(* A call that returns is not compiling.                                     *)
LEMMA ReturnIsQuiet ==
  ASSUME TypeOK, NEW t \in Threads
  PROVE  /\ \A r : Return(t, r) => ~Compiling(t)'
         /\ \A m : ReturnModule(t, m) => ~Compiling(t)'
BY Zenon DEF TypeOK, Return, ReturnModule, Compiling

LEMMA ThreadMemory ==
  ASSUME CacheInv, MissInv, NEW t \in Threads,
         \/ \E c \in Checksums : CallSave(t, c)
         \/ \E c \in Checksums, op \in AllOps : Call(t, op, c)
         \/ Step(t)
  PROVE  MemoryMove(t)
<1>0. TypeOK
  BY Zenon DEF CacheInv
<1> USE DEF caches
<1>1. CASE \E c \in Checksums : CallSave(t, c)
  <2>1. memory' = memory /\ \A u \in Threads \ {t} : pc'[u] = pc[u] /\ req'[u] = req[u]
    BY ZenonT(40), <1>0, <1>1 DEF CallSave, TypeOK
  <2>2. pc'[t] \notin {"storeModule", "writeModule"}
    BY ZenonT(40), <1>0, <1>1 DEF CallSave, TypeOK
  <2> QED
    BY Zenon, <2>1, <2>2 DEF MemoryMove, Compiling
<1>2. CASE \E c \in Checksums, op \in AllOps : Call(t, op, c)
  <2>1. /\ memory' = memory /\ \A u \in Threads \ {t} : pc'[u] = pc[u] /\ req'[u] = req[u]
        /\ pc'[t] \notin {"storeModule", "writeModule"}
    BY Zenon, <1>0, <1>2 DEF Call, TypeOK
  <2> QED
    BY Zenon, <2>1 DEF MemoryMove, Compiling
<1>3. CASE LockInner(t) \/ OpenWasm(t) \/ LockInstantiation(t) \/ Instantiate(t)
  <2>1. /\ memory' = memory /\ \A u \in Threads \ {t} : pc'[u] = pc[u] /\ req'[u] = req[u]
        /\ pc'[t] \notin {"storeModule", "writeModule"}
    BY Zenon, <1>0, <1>3 DEF LockInner, OpenWasm, LockInstantiation, Instantiate, TypeOK
  <2> QED
    BY Zenon, <2>1 DEF MemoryMove, Compiling
<1>4. CASE WriteWasm(t)
  <2>1. memory' = memory /\ req' = req /\ \A u \in Threads \ {t} : pc'[u] = pc[u]
    BY Zenon, <1>0, <1>4 DEF WriteWasm, TypeOK
  <2>2. Op(t) = "save"
    BY Zenon, <1>4 DEF WriteWasm, CacheInv, CallInv
  <2> QED
    BY Zenon, <2>1, <2>2 DEF MemoryMove, Compiling, Op
<1>5. CASE OpenModule(t)
  <2>1. /\ memory' = memory /\ req' = req /\ \A u \in Threads \ {t} : pc'[u] = pc[u]
        /\ pc[t] = "storeModule"
    BY Zenon, <1>0, <1>5 DEF OpenModule, TypeOK
  <2>2. Compiling(t)' => ~Has(memory', Code(t)')
    BY Zenon, <2>1 DEF MissInv, Compiling, Op, Code
  <2> QED
    BY Zenon, <2>1, <2>2 DEF MemoryMove
<1>6. CASE WriteModule(t)
  <2>1. pc[t] \in HasInner
    BY Zenon, <1>6 DEF WriteModule, HasInner
  <2>2. CASE Return(t, "ok") /\ memory' = memory
    BY Zenon, <1>0, <2>2, ReturnFrame, ReturnIsQuiet DEF MemoryMove
  <2>3. CASE Op(t) = "get" /\ KeepInMemory(t, module[t])
    <3>1. module[t] = [code |-> Code(t), limited |-> TRUE] /\ Code(t) \in Checksums
      BY Zenon, <1>6, <2>3 DEF WriteModule, CacheInv, CallInv, Code
    <3>2. ~Has(memory, Code(t))
      BY Zenon, <1>6, <2>3 DEF WriteModule, MissInv, Compiling
    <3>3. module[t] \in Module /\ module[t].code = Code(t)
      BY <3>1 DEF Module
    <3> QED
      BY Zenon, <1>0, <2>1, <2>3, <3>2, <3>3, KeepMoves
  <2> QED
    BY Zenon, <1>6, <2>2, <2>3 DEF WriteModule
<1>7. CASE IoError(t)
  BY Zenon, <1>0, <1>7, ReturnFrame, ReturnIsQuiet DEF IoError, MemoryMove
<1>8. CASE GetModule(t) \/ Pin(t)
  <2>1. pc[t] = "locked" /\ pc[t] \in HasInner
    BY Zenon, <1>8 DEF GetModule, Pin, HasInner
  <2>2. CASE GetFromWasm(t) \/ PinFromWasm(t)
    <3>1. memory' = memory /\ req' = req /\ \A u \in Threads \ {t} : pc'[u] = pc[u]
      BY Zenon, <1>0, <2>2 DEF GetFromWasm, PinFromWasm, TypeOK
    <3>2. ~Has(memory, Code(t))
      BY Zenon, <2>2 DEF GetFromWasm, PinFromWasm
    <3> QED
      BY Zenon, <3>1, <3>2 DEF MemoryMove, Code
  <2>3. CASE GetFromFs(t)
    <3>1. ~Has(memory, Code(t)) /\ KeepInMemory(t, LoadedFromFs(Code(t)))
      BY Zenon, <2>3 DEF GetFromFs
    <3>2. LoadedFromFs(Code(t)) \in Module
      BY Zenon, <2>1, LockedFacts
    <3>3. LoadedFromFs(Code(t)).code = Code(t)
      BY DEF LoadedFromFs
    <3> QED
      BY Zenon, <1>0, <2>1, <3>1, <3>2, <3>3, KeepMoves
  <2>4. CASE GetFromMemory(t) \/ PinFromMemory(t)
    <3>1. TouchMove
      BY Zenon, <2>4 DEF GetFromMemory, PinFromMemory, TouchMove
    <3>2. ~Compiling(t)' /\ \A u \in Threads \ {t} : pc'[u] = pc[u] /\ req'[u] = req[u]
      BY Zenon, <1>0, <2>4, ReturnFrame, ReturnIsQuiet DEF GetFromMemory, PinFromMemory
    <3> QED
      BY Zenon, <2>1, <3>1, <3>2 DEF MemoryMove
  <2>5. CASE GetFromPinned(t) \/ PinPinned(t) \/ PinFromFs(t) \/ LookupError(t)
    <3>1. memory' = memory
      BY Zenon, <2>5 DEF GetFromPinned, PinPinned, PinFromFs, LookupError
    <3>2. ~Compiling(t)' /\ \A u \in Threads \ {t} : pc'[u] = pc[u] /\ req'[u] = req[u]
      BY Zenon, <1>0, <2>5, ReturnFrame, ReturnIsQuiet
      DEF GetFromPinned, PinPinned, PinFromFs, LookupError
    <3> QED
      BY Zenon, <3>1, <3>2 DEF MemoryMove
  <2> QED
    BY Zenon, <1>8, <2>2, <2>3, <2>4, <2>5 DEF GetModule, Pin
<1>9. CASE Unpin(t) \/ LoadWasm(t)
  BY Zenon, <1>0, <1>9, ReturnFrame, ReturnIsQuiet DEF Unpin, LoadWasm, MemoryMove
<1> QED
  BY Zenon, <1>1, <1>2, <1>3, <1>4, <1>5, <1>6, <1>7, <1>8, <1>9 DEF Step

(* Any step leaves the memory cache within its size.                         *)
LEMMA MemoryInvStep ==
  ASSUME CacheInv, LockInv, MemoryInv, [Next]_vars
  PROVE  MemoryInv'
<1>1. /\ memory \in Seq(Module) /\ Fits(memory) /\ CodesOnce(memory) /\ MissInv
  BY Zenon DEF CacheInv, TypeOK, MemoryInv, MemoryCacheBounded, CodesOnce
<1> SUFFICES Fits(memory') /\ CodesOnce(memory') /\ MissInv'
  BY Zenon DEF MemoryInv, MemoryCacheBounded, CodesOnce, Fits
<1>2. ASSUME NEW t \in Threads, MemoryMove(t)
      PROVE  Fits(memory') /\ CodesOnce(memory') /\ MissInv'
  <2>1. Fits(memory') /\ CodesOnce(memory')
    <3>1. CASE memory' = memory
      BY Zenon, <1>1, <3>1
    <3>2. CASE TouchMove
      BY Zenon, <1>1, <3>2, TouchIsBounded DEF TouchMove
    <3>3. CASE StoreMove
      BY Zenon, <1>1, <3>3, StoredIsBounded DEF StoreMove
    <3> QED
      BY Zenon, <1>2, <3>1, <3>2, <3>3 DEF MemoryMove
  <2>2. ASSUME NEW u \in Threads \ {t}, Compiling(u)' PROVE ~Has(memory', Code(u)')
    <3>1. pc'[u] = pc[u] /\ req'[u] = req[u]
      BY Zenon, <1>2 DEF MemoryMove
    <3>2. Compiling(u) /\ Code(u)' = Code(u)
      BY Zenon, <2>2, <3>1 DEF Compiling, Op, Code
    <3>3. inner = u
      BY Zenon, <3>2 DEF Compiling, LockInv, HasInner
    <3>4. pc[t] \notin HasInner
      BY Zenon, <3>3 DEF LockInv
    <3>5. memory' = memory
      BY Zenon, <1>2, <3>4 DEF MemoryMove
    <3> QED
      BY Zenon, <1>1, <3>2, <3>5 DEF MissInv
  <2>3. MissInv'
    BY Zenon, <1>2, <2>2 DEF MissInv, MemoryMove
  <2> QED
    BY Zenon, <2>1, <2>3
<1>3. CASE Restart
  <2>1. memory' = <<>> /\ \A u \in Threads : pc'[u] = "idle"
    BY Zenon, <1>3 DEF Restart
  <2>2. MissInv'
    BY Zenon, <2>1 DEF MissInv, Compiling
  <2>3. Fits(<<>>) /\ CodesOnce(<<>>)
    BY EmptyFits
  <2> QED
    BY Zenon, <2>1, <2>2, <2>3
<1>4. CASE UNCHANGED vars
  <2>1. memory' = memory /\ pc' = pc /\ req' = req
    BY Zenon, <1>4 DEF vars, caches
  <2> QED
    BY Zenon, <1>1, <2>1 DEF MissInv, Compiling, Op, Code
<1> QED
  BY Zenon, <1>1, <1>2, <1>3, <1>4, ThreadMemory DEF Next

(* The memory cache never exceeds its configured size and holds a code once, *)
(* for any size of the cache and of the modules, any threads and any stops:  *)
(* a get that compiles keeps the lock of CacheInner from its lookup to       *)
(* InMemoryCache::store, and put_with_weight evicts before it adds.          *)
THEOREM MemoryIsBounded == Spec => []MemoryCacheBounded
<1>1. Init => MemoryInv
  <2> SUFFICES ASSUME Init PROVE MemoryInv
    BY Zenon
  <2>1. memory = <<>> /\ MissInv
    BY Zenon DEF Init, MissInv, Compiling
  <2> QED
    BY Zenon, <2>1, EmptyFits DEF MemoryInv, MemoryCacheBounded, CodesOnce
<1>2. MemoryInv /\ LockInv /\ CacheInv /\ [Next]_vars => MemoryInv'
  BY Zenon, MemoryInvStep
<1>3. MemoryInv => MemoryCacheBounded
  BY Zenon DEF MemoryInv
<1> QED
  BY <1>1, <1>2, <1>3, LockHeld, CacheInvariant, PTL DEF Spec

--------------------------------------------------------------------------------
(* A call that is in progress has no result yet.                             *)
PendingInv == \A t \in Threads : pc[t] # "idle" => result[t] = "pending"

Missing == {"notFound", "integrity"}

(* A thread gives a result to its own call only, at its end, and reports     *)
(* code as missing only when it is not complete on disk.                     *)
ResultMove(t) ==
  /\ \A u \in Threads \ {t} : pc'[u] = pc[u] /\ result'[u] = result[u]
  /\ pc'[t] # "idle" => result'[t] = "pending"
  /\ pc[t] # "idle" /\ result'[t] \in Missing => wasmFile[Code(t)] # "full"

LEMMA ReturnResults ==
  ASSUME CacheInv, PendingInv, NEW t \in Threads, pc[t] # "idle"
  PROVE  /\ \A r : Return(t, r) /\ (r \in Missing => wasmFile[Code(t)] # "full") => ResultMove(t)
         /\ \A m : ReturnModule(t, m) => ResultMove(t)
         /\ \A m : KeepInMemory(t, m) => ResultMove(t)
<1>1. ASSUME NEW r, Return(t, r), r \in Missing => wasmFile[Code(t)] # "full"
      PROVE  ResultMove(t)
  BY Zenon, <1>1 DEF Return, ResultMove, CacheInv, TypeOK
<1>2. ASSUME NEW m, ReturnModule(t, m) PROVE ResultMove(t)
  <2>1. result' = result /\ result[t] = "pending" /\ \A u \in Threads \ {t} : pc'[u] = pc[u]
    BY Zenon, <1>2 DEF ReturnModule, PendingInv, CacheInv, TypeOK
  <2> QED
    BY Zenon, <2>1 DEF ResultMove, Missing
<1>3. ASSUME NEW m, KeepInMemory(t, m) PROVE ResultMove(t)
  <2>1. "tooBig" \notin Missing
    BY Zenon DEF Missing
  <2> QED
    BY Zenon, <1>1, <1>2, <1>3, <2>1 DEF KeepInMemory
<1> QED
  BY Zenon, <1>1, <1>2, <1>3

LEMMA ThreadResults ==
  ASSUME CacheInv, PendingInv, NEW t \in Threads,
         \/ \E c \in Checksums : CallSave(t, c)
         \/ \E c \in Checksums, op \in AllOps : Call(t, op, c)
         \/ Step(t)
  PROVE  ResultMove(t)
<1>1. ASSUME NEW l, pc[t] # "idle", pc' = [pc EXCEPT ![t] = l], result' = result
      PROVE  ResultMove(t)
  <2>1. result[t] = "pending" /\ \A u \in Threads \ {t} : pc'[u] = pc[u]
    BY Zenon, <1>1 DEF PendingInv, CacheInv, TypeOK
  <2> QED
    BY Zenon, <1>1, <2>1 DEF ResultMove, Missing
<1>2. ASSUME NEW r, r \notin Missing, pc[t] # "idle", Return(t, r)
      PROVE  ResultMove(t)
  BY Zenon, <1>2, ReturnResults
<1>3. \A r \in {"ok", "io", "deserialize", "compile"} : r \notin Missing
  BY Zenon DEF Missing
<1>4. LoadWasmResult(Code(t)) \in Missing => wasmFile[Code(t)] # "full"
  BY Zenon DEF LoadWasmResult, Missing
<1>5. CASE \E c \in Checksums : CallSave(t, c)
  <2>1. pc[t] = "idle"
    BY Zenon, <1>5 DEF CallSave
  <2>2. /\ pc' = pc \/ pc' = [pc EXCEPT ![t] = "waitInner"]
        /\ \/ result' = [result EXCEPT ![t] = "pending"]
           \/ result' = [result EXCEPT ![t] = "rejected"] /\ pc' = pc
    BY Zenon, <1>5 DEF CallSave
  <2>3. pc \in [Threads -> Labels] /\ result \in [Threads -> Results]
    BY Zenon DEF CacheInv, TypeOK
  <2>4. \A u \in Threads \ {t} : pc'[u] = pc[u] /\ result'[u] = result[u]
    BY Zenon, <2>2, <2>3
  <2>5. pc'[t] # "idle" => result'[t] = "pending"
    BY Zenon, <2>1, <2>2, <2>3
  <2> QED
    BY Zenon, <2>1, <2>4, <2>5 DEF ResultMove
<1>6. CASE \E c \in Checksums, op \in AllOps : Call(t, op, c)
  BY Zenon, <1>6 DEF Call, ResultMove, CacheInv, TypeOK
<1>7. CASE LockInner(t) \/ OpenWasm(t) \/ WriteWasm(t) \/ OpenModule(t) \/ LockInstantiation(t)
  BY Zenon, <1>1, <1>7 DEF LockInner, OpenWasm, WriteWasm, OpenModule, LockInstantiation
<1>8. CASE WriteModule(t)
  <2>1. pc[t] # "idle" /\ (Return(t, "ok") \/ KeepInMemory(t, module[t]))
    BY Zenon, <1>8 DEF WriteModule
  <2> QED
    BY Zenon, <1>2, <1>3, <2>1, ReturnResults
<1>9. CASE IoError(t)
  <2>1. pc[t] # "idle" /\ Return(t, "io")
    BY Zenon, <1>9 DEF IoError, TouchesDisk
  <2> QED
    BY Zenon, <1>2, <1>3, <2>1
<1>10. CASE GetModule(t) \/ Pin(t)
  <2>1. pc[t] # "idle"
    BY Zenon, <1>10 DEF GetModule, Pin
  <2>2. CASE GetFromWasm(t) \/ PinFromWasm(t)
    BY Zenon, <1>1, <2>1, <2>2 DEF GetFromWasm, PinFromWasm
  <2>3. CASE GetFromPinned(t) \/ GetFromMemory(t) \/ GetFromFs(t)
    BY Zenon, <2>1, <2>3, ReturnResults DEF GetFromPinned, GetFromMemory, GetFromFs
  <2>4. CASE PinPinned(t) \/ PinFromMemory(t) \/ PinFromFs(t)
    BY Zenon, <1>2, <1>3, <2>1, <2>4 DEF PinPinned, PinFromMemory, PinFromFs
  <2>5. CASE LookupError(t)
    <3>1. Return(t, "deserialize") \/ Return(t, "compile") \/ Return(t, LoadWasmResult(Code(t)))
      BY Zenon, <2>5 DEF LookupError
    <3> QED
      BY Zenon, <1>2, <1>3, <1>4, <2>1, <3>1, ReturnResults
  <2> QED
    BY Zenon, <1>10, <2>2, <2>3, <2>4, <2>5 DEF GetModule, Pin
<1>11. CASE Unpin(t)
  BY Zenon, <1>2, <1>3, <1>11 DEF Unpin
<1>12. CASE LoadWasm(t)
  <2>1. pc[t] # "idle" /\ Return(t, LoadWasmResult(Code(t)))
    BY Zenon, <1>12 DEF LoadWasm
  <2> QED
    BY Zenon, <1>4, <2>1, ReturnResults
<1>13. CASE Instantiate(t)
  BY Zenon, <1>13 DEF Instantiate, ResultMove, Missing, CacheInv, TypeOK
<1> QED
  BY Zenon, <1>5, <1>6, <1>7, <1>8, <1>9, <1>10, <1>11, <1>12, <1>13 DEF Step

(* The property of one step: a call that ends with "not found" or with       *)
(* damaged code was not about saved code.                                    *)
SavedIsFound ==
  \A t \in Threads : pc[t] # "idle" /\ result'[t] \in {"notFound", "integrity"}
                       => Code(t) \notin saved

LEMMA FoundStep ==
  ASSUME CacheInv, PendingInv, [Next]_vars
  PROVE  PendingInv' /\ SavedIsFound
<1>1. \A c \in saved : wasmFile[c] = "full"
  BY Zenon DEF CacheInv, CodeInv
<1>2. ASSUME NEW t \in Threads, ResultMove(t) PROVE PendingInv' /\ SavedIsFound
  <2>1. PendingInv'
    BY Zenon, <1>2 DEF ResultMove, PendingInv
  <2>2. \A u \in Threads \ {t} : pc[u] # "idle" => result'[u] \notin Missing
    BY Zenon, <1>2 DEF ResultMove, PendingInv, Missing
  <2>3. pc[t] # "idle" /\ result'[t] \in Missing => Code(t) \notin saved
    BY Zenon, <1>1, <1>2 DEF ResultMove
  <2> QED
    BY Zenon, <2>1, <2>2, <2>3 DEF SavedIsFound, Missing
<1>3. CASE Restart
  BY Zenon, <1>3 DEF Restart, PendingInv, SavedIsFound
<1>4. CASE UNCHANGED vars
  <2>1. pc' = pc /\ result' = result
    BY Zenon, <1>4 DEF vars
  <2> QED
    BY Zenon, <2>1 DEF PendingInv, SavedIsFound
<1> QED
  BY Zenon, <1>2, <1>3, <1>4, ThreadResults DEF Next

(* For any threads, codes and versions, and through any stops, upgrades and  *)
(* failing file operations: once save_wasm of a code has returned Ok, no     *)
(* load_wasm, get_instance or pin of it ends with NotFound or an integrity   *)
(* error.                                                                    *)
THEOREM SavedCodeIsAlwaysFound == Spec => SavedCodeIsFound
<1>1. Init => PendingInv
  BY Zenon DEF Init, PendingInv
<1>2. CacheInv /\ PendingInv /\ [Next]_vars => PendingInv' /\ SavedIsFound
  BY Zenon, FoundStep
<1>3. Spec => [][SavedIsFound]_vars
  BY <1>1, <1>2, CacheInvariant, PTL DEF Spec
<1>4. [SavedIsFound]_vars <=>
        [\A t \in Threads : pc[t] # "idle" /\ result'[t] \in {"notFound", "integrity"}
                              => Code(t) \notin saved]_vars
  BY Zenon DEF SavedIsFound
<1> QED
  BY <1>3, <1>4, PTL DEF SavedCodeIsFound

--------------------------------------------------------------------------------
(* The memory cache has room for every code at once.                         *)
RoomForAll ==
  \A cache \in Seq(Module), m \in Module :
    CodesOnce(cache) /\ ~Has(cache, m.code) => RoomFor(cache, m)

NoUnpin == \A t \in Threads : Op(t) # "unpin"

DiskInv == NoUnpin /\ IsFiniteSet(pinned) /\ ReadFromDiskOnce

Grows(old, new) == new = old \/ \E m : new = old \cup {m}

(* What a step of a thread counts as read from disk it keeps in one of the   *)
(* two caches in memory, where it was not before.                            *)
DiskMove(t) ==
  /\ \A u \in Threads \ {t} : req'[u] = req[u]
  /\ Op(t)' # "unpin"
  /\ \/ /\ stats'.fs = stats.fs
        /\ memory' = memory \/ TouchMove \/ StoreMove
        /\ Grows(pinned, pinned')
     \/ /\ stats'.fs = stats.fs + 1
        /\ StoreMove \/ \E m \in Module : TooBig(m)
        /\ pinned' = pinned
     \/ /\ stats'.fs = stats.fs + 1
        /\ memory' = memory
        /\ \E m : m \notin pinned /\ pinned' = pinned \cup {m}

(* With room for all, a module is stored without evicting another.           *)
LEMMA RoomyStore ==
  ASSUME RoomForAll, NEW cache \in Seq(Module), CodesOnce(cache),
         NEW m \in Module, ~Has(cache, m.code)
  PROVE  ~TooBig(m) /\ Len(Stored(cache, m)) = Len(cache) + 1
<1>1. Len(cache) \in Nat /\ <<>> \in Seq(Module) /\ Len(<<>>) = 0
  BY Zenon, SequenceType, EmptySequence
<1>2. CodesOnce(<<>>) /\ ~Has(<<>>, m.code)
  <2>1. DOMAIN <<>> = {}
    OBVIOUS
  <2> QED
    BY Zenon, <2>1, EmptyFits DEF Has
<1>3. RoomFor(<<>>, m) /\ RoomFor(cache, m)
  BY Zenon, <1>1, <1>2 DEF RoomForAll
<1>4. /\ CumulativeSize(<<>>) \in Nat
  BY Zenon, <1>1, SizeOfConcat
<1>5. Size[m.code] \in Nat /\ MemoryCacheSize \in Nat
  BY SizeAssumption, MemoryCacheSizeAssumption DEF Module
<1>6. Size[m.code] < MemoryCacheSize
  <2> DEFINE a == CumulativeSize(<<>>)
             b == Size[m.code]
  <2>1. 0 + a + b < MemoryCacheSize
    BY Zenon, <1>1, <1>3 DEF RoomFor
  <2> HIDE DEF a, b
  <2>2. a \in Nat /\ b \in Nat
    BY Zenon, <1>4, <1>5 DEF a, b
  <2>3. b < MemoryCacheSize
    BY <1>5, <2>1, <2>2
  <2> QED
    BY Zenon, <2>3 DEF b
<1>7. ~TooBig(m) /\ MemoryCacheSize # 0
  BY <1>5, <1>6 DEF TooBig
<1>8. PICK k \in 0 .. Len(cache) :
           /\ Evicted(cache, m) = SubSeq(cache, 1, k)
           /\ \A i \in 0 .. Len(cache) : RoomFor(SubSeq(cache, 1, i), m) => i <= k
  BY Zenon, <1>7, EvictedProperties
<1>9. SubSeq(cache, 1, Len(cache)) = cache /\ Len(cache) \in 0 .. Len(cache)
  BY <1>1
<1>10. Len(cache) <= k
  BY Zenon, <1>3, <1>8, <1>9
<1>11. k = Len(cache)
  BY <1>1, <1>8, <1>10
<1>12. Stored(cache, m) = <<m>> \o cache
  BY Zenon, <1>7, <1>8, <1>9, <1>11 DEF Stored
<1>13. <<m>> \in Seq(Module) /\ Len(<<m>>) = 1
  OBVIOUS
<1>14. Len(<<m>> \o cache) = 1 + Len(cache)
  BY Zenon, <1>13, Concatenation
<1> QED
  BY <1>1, <1>7, <1>12, <1>14

LEMMA ThreadReads ==
  ASSUME CacheInv, MissInv, NoUnpin, "unpin" \notin Ops, NEW t \in Threads,
         \/ \E c \in Checksums : CallSave(t, c)
         \/ \E c \in Checksums, op \in AllOps : Call(t, op, c)
         \/ Step(t)
  PROVE  DiskMove(t)
<1>0. TypeOK /\ req \in [Threads -> [op : AllOps, code : Checksums] \cup {NoRequest}]
  BY Zenon DEF CacheInv, TypeOK
<1>1. memory' = memory \/ TouchMove \/ StoreMove
  BY Zenon, ThreadMemory DEF MemoryMove
<1>2. \A u \in Threads \ {t} : req'[u] = req[u]
  BY Zenon, ThreadMemory DEF MemoryMove
<1> USE DEF caches
<1>3. Op(t)' # "unpin"
  <2>1. CASE \E c \in Checksums : CallSave(t, c)
    <3>1. PICK c : req' = [req EXCEPT ![t] = [op |-> "save", code |-> c]]
      BY Zenon, <2>1 DEF CallSave
    <3>2. req'[t] = [op |-> "save", code |-> c]
      BY Zenon, <1>0, <3>1
    <3> QED
      BY <3>2 DEF Op
  <2>2. CASE \E c \in Checksums, op \in AllOps : Call(t, op, c)
    <3>1. PICK c, op : op \in Ops /\ req' = [req EXCEPT ![t] = [op |-> op, code |-> c]]
      BY Zenon, <2>2 DEF Call
    <3>2. req'[t] = [op |-> op, code |-> c]
      BY Zenon, <1>0, <3>1
    <3>3. Op(t)' = op
      BY <3>2 DEF Op
    <3> QED
      BY Zenon, <3>1, <3>3
  <2>3. CASE Step(t)
    <3>1. req' = req
      BY Zenon, <2>3
      DEF Step, LockInner, OpenWasm, WriteWasm, OpenModule, WriteModule, IoError, GetModule, Pin,
          Unpin, LoadWasm, LockInstantiation, Instantiate, Return, ReturnModule, KeepInMemory,
          GetFromPinned, GetFromMemory, GetFromFs, GetFromWasm, LookupError, PinPinned,
          PinFromMemory, PinFromFs, PinFromWasm
    <3> QED
      BY Zenon, <3>1 DEF Op, NoUnpin
  <2> QED
    BY Zenon, <2>1, <2>2, <2>3
<1>4. CASE stats' = stats /\ Grows(pinned, pinned')
  BY Zenon, <1>1, <1>2, <1>3, <1>4 DEF DiskMove
<1>5. \A s \in {"pinned", "memory", "misses"} : Count(s) => stats'.fs = stats.fs
  BY <1>0 DEF Count, TypeOK
<1>6. Count("fs") => stats'.fs = stats.fs + 1
  BY <1>0 DEF Count, TypeOK
<1>7. CASE \/ \E c \in Checksums : CallSave(t, c)
           \/ \E c \in Checksums, op \in AllOps : Call(t, op, c)
  BY Zenon, <1>4, <1>7 DEF CallSave, Call, Grows
<1>8. CASE \/ LockInner(t) \/ OpenWasm(t) \/ WriteWasm(t) \/ OpenModule(t) \/ IoError(t)
           \/ LoadWasm(t) \/ LockInstantiation(t) \/ Instantiate(t)
  BY Zenon, <1>4, <1>8
  DEF LockInner, OpenWasm, WriteWasm, OpenModule, IoError, LoadWasm, LockInstantiation,
      Instantiate, Grows
<1>9. CASE WriteModule(t)
  <2>1. stats' = stats
    BY Zenon, <1>9 DEF WriteModule
  <2>2. Grows(pinned, pinned')
    BY Zenon, <1>9 DEF WriteModule, Grows
  <2> QED
    BY Zenon, <1>4, <2>1, <2>2
<1>10. CASE Unpin(t)
  BY Zenon, <1>10 DEF Unpin, NoUnpin
<1>9a. LookupError(t) => stats'.fs = stats.fs
  BY Zenon, <1>5 DEF LookupError
<1>11. CASE GetModule(t)
  <2>1. pinned' = pinned /\ pc[t] = "locked"
    BY Zenon, <1>11 DEF GetModule
  <2>2. CASE LookupError(t)
    BY Zenon, <1>1, <1>2, <1>3, <1>9a, <2>1, <2>2 DEF DiskMove, Grows
  <2>3. CASE GetFromPinned(t) \/ GetFromMemory(t) \/ GetFromWasm(t)
    <3>1. stats'.fs = stats.fs
      BY Zenon, <1>5, <2>3 DEF GetFromPinned, GetFromMemory, GetFromWasm
    <3> QED
      BY Zenon, <1>1, <1>2, <1>3, <2>1, <3>1 DEF DiskMove, Grows
  <2>4. CASE GetFromFs(t)
    <3>1. /\ stats'.fs = stats.fs + 1 /\ ~Has(memory, Code(t))
          /\ KeepInMemory(t, LoadedFromFs(Code(t)))
      BY Zenon, <1>6, <2>4 DEF GetFromFs
    <3>2. LoadedFromFs(Code(t)) \in Module
      BY Zenon, <2>1, LockedFacts
    <3>3. LoadedFromFs(Code(t)).code = Code(t)
      BY DEF LoadedFromFs
    <3>4. StoreMove \/ \E m \in Module : TooBig(m)
      BY Zenon, <3>1, <3>2, <3>3 DEF KeepInMemory, StoreMove
    <3> QED
      BY Zenon, <1>2, <1>3, <2>1, <3>1, <3>4 DEF DiskMove
  <2> QED
    BY Zenon, <1>11, <2>2, <2>3, <2>4 DEF GetModule
<1>12. CASE Pin(t)
  <2>0. CASE LookupError(t) /\ UNCHANGED pinned
    BY Zenon, <1>1, <1>2, <1>3, <1>9a, <2>0 DEF DiskMove, Grows
  <2>1. CASE PinPinned(t) \/ PinFromWasm(t)
    BY Zenon, <1>4, <2>1 DEF PinPinned, PinFromWasm, Grows
  <2>2. CASE PinFromMemory(t)
    <3>1. stats'.fs = stats.fs /\ Grows(pinned, pinned')
      BY Zenon, <1>5, <2>2 DEF PinFromMemory, Grows
    <3> QED
      BY Zenon, <1>1, <1>2, <1>3, <3>1 DEF DiskMove
  <2>3. CASE PinFromFs(t)
    <3>1. /\ stats'.fs = stats.fs + 1 /\ memory' = memory /\ ~PinnedHas(Code(t))
          /\ pinned' = pinned \cup {LoadedFromFs(Code(t))}
      BY Zenon, <1>6, <2>3 DEF PinFromFs
    <3>2. LoadedFromFs(Code(t)).code = Code(t)
      BY DEF LoadedFromFs
    <3>3. LoadedFromFs(Code(t)) \notin pinned
      BY Zenon, <3>1, <3>2 DEF PinnedHas
    <3> QED
      BY Zenon, <1>2, <1>3, <3>1, <3>3 DEF DiskMove
  <2> QED
    BY Zenon, <1>12, <2>0, <2>1, <2>2, <2>3 DEF Pin
<1> QED
  BY Zenon, <1>7, <1>8, <1>9, <1>10, <1>11, <1>12 DEF Step

LEMMA DiskInvStep ==
  ASSUME RoomForAll, "unpin" \notin Ops, CacheInv, MemoryInv, DiskInv, [Next]_vars
  PROVE  DiskInv'
<1>1. /\ memory \in Seq(Module) /\ CodesOnce(memory) /\ MissInv /\ stats.fs \in Nat
      /\ NoUnpin /\ IsFiniteSet(pinned)
  BY DEF CacheInv, TypeOK, MemoryInv, MemoryCacheBounded, CodesOnce, DiskInv
<1>2. Len(memory) \in Nat /\ Cardinality(pinned) \in Nat
  BY Zenon, <1>1, SequenceType, FS_CardinalityType
<1>3. stats.fs <= Len(memory) + Cardinality(pinned)
  BY Zenon DEF DiskInv, ReadFromDiskOnce
<1>4. ASSUME NEW t \in Threads, DiskMove(t) PROVE DiskInv'
  <2>1. NoUnpin'
    BY Zenon, <1>1, <1>4 DEF DiskMove, NoUnpin, Op
  <2>2. StoreMove => Len(memory') = Len(memory) + 1
    BY Zenon, <1>1, RoomyStore DEF StoreMove
  <2>3. TouchMove => Len(memory') = Len(memory)
    BY Zenon, <1>1, TouchIsBounded DEF TouchMove
  <2>4. \A m \in Module : ~TooBig(m)
    <3>1. <<>> \in Seq(Module) /\ DOMAIN <<>> = {}
      OBVIOUS
    <3>2. CodesOnce(<<>>) /\ \A m \in Module : ~Has(<<>>, m.code)
      BY Zenon, <3>1, EmptyFits DEF Has
    <3> QED
      BY Zenon, <3>1, <3>2, RoomyStore
  <2>5. \A m : /\ IsFiniteSet(pinned \cup {m})
               /\ Cardinality(pinned \cup {m}) \in Nat
               /\ Cardinality(pinned \cup {m}) >= Cardinality(pinned)
               /\ m \notin pinned => Cardinality(pinned \cup {m}) = Cardinality(pinned) + 1
    <3> TAKE m
    <3>1. /\ IsFiniteSet(pinned \cup {m})
          /\ \/ m \in pinned /\ Cardinality(pinned \cup {m}) = Cardinality(pinned)
             \/ m \notin pinned /\ Cardinality(pinned \cup {m}) = Cardinality(pinned) + 1
      BY Zenon, <1>1, FS_AddElement
    <3> QED
      BY <1>2, <3>1
  <2>6. CASE stats'.fs = stats.fs
    <3>1. Grows(pinned, pinned') /\ (memory' = memory \/ TouchMove \/ StoreMove)
      BY <1>1, <1>4, <2>6 DEF DiskMove
    <3>2. Len(memory') = Len(memory) \/ Len(memory') = Len(memory) + 1
      BY Zenon, <2>2, <2>3, <3>1
    <3>3. IsFiniteSet(pinned') /\ Cardinality(pinned') \in Nat /\ Cardinality(pinned') >= Cardinality(pinned)
      <4>1. CASE pinned' = pinned
        BY <1>1, <1>2, <4>1
      <4>2. CASE pinned' # pinned
        BY Zenon, <2>5, <3>1, <4>2 DEF Grows
      <4> QED
        BY Zenon, <4>1, <4>2
    <3>4. stats'.fs <= Len(memory') + Cardinality(pinned')
      BY <1>1, <1>2, <1>3, <2>6, <3>2, <3>3
    <3> QED
      BY Zenon, <2>1, <3>3, <3>4 DEF DiskInv, ReadFromDiskOnce
  <2>7. CASE stats'.fs # stats.fs
    <3>1. stats'.fs = stats.fs + 1
      BY Zenon, <1>4, <2>7 DEF DiskMove
    <3>2. \/ StoreMove /\ pinned' = pinned
          \/ memory' = memory /\ \E m : m \notin pinned /\ pinned' = pinned \cup {m}
      BY Zenon, <1>4, <2>4, <2>7 DEF DiskMove
    <3>3. CASE StoreMove /\ pinned' = pinned
      <4>1. stats'.fs <= Len(memory') + Cardinality(pinned')
        BY <1>1, <1>2, <1>3, <2>2, <3>1, <3>3
      <4> QED
        BY Zenon, <1>1, <2>1, <3>3, <4>1 DEF DiskInv, ReadFromDiskOnce
    <3>4. CASE memory' = memory /\ \E m : m \notin pinned /\ pinned' = pinned \cup {m}
      <4>1. IsFiniteSet(pinned') /\ Cardinality(pinned') = Cardinality(pinned) + 1
        BY Zenon, <2>5, <3>4
      <4>2. stats'.fs <= Len(memory') + Cardinality(pinned')
        BY <1>1, <1>2, <1>3, <3>1, <3>4, <4>1
      <4> QED
        BY Zenon, <2>1, <4>1, <4>2 DEF DiskInv, ReadFromDiskOnce
    <3> QED
      BY Zenon, <3>2, <3>3, <3>4
  <2> QED
    BY Zenon, <2>6, <2>7
<1>5. CASE Restart
  <2>1. req' = req /\ pinned' = {} /\ memory' = <<>> /\ stats' = FreshStats
    BY Zenon, <1>5 DEF Restart
  <2>2. NoUnpin'
    BY Zenon, <1>1, <2>1 DEF NoUnpin, Op
  <2>3. IsFiniteSet({}) /\ Cardinality({}) = 0
    BY FS_EmptySet
  <2>4. FreshStats.fs <= Len(<<>>) + Cardinality({})
    BY <2>3 DEF FreshStats
  <2> QED
    BY Zenon, <2>1, <2>2, <2>3, <2>4 DEF DiskInv, ReadFromDiskOnce
<1>6. CASE UNCHANGED vars
  <2>1. req' = req /\ pinned' = pinned /\ memory' = memory /\ stats' = stats
    BY Zenon, <1>6 DEF vars, caches
  <2> QED
    BY Zenon, <2>1 DEF DiskInv, NoUnpin, Op, ReadFromDiskOnce
<1> QED
  BY Zenon, <1>1, <1>4, <1>5, <1>6, ThreadReads DEF Next

(* When the memory cache has room for all codes and nothing is unpinned,     *)
(* every lookup counted as answered from disk has brought in a code that was *)
(* in neither cache in memory, and that is still in one of them: between two *)
(* starts of the node no code is read from disk twice.                       *)
THEOREM NothingIsReadTwice ==
  ASSUME RoomForAll, "unpin" \notin Ops
  PROVE  Spec => []ReadFromDiskOnce
<1>1. Init => MemoryInv /\ DiskInv
  <2> SUFFICES ASSUME Init PROVE MemoryInv /\ DiskInv
    BY Zenon
  <2>1. memory = <<>> /\ MissInv /\ pinned = {} /\ stats = FreshStats
    BY Zenon DEF Init, MissInv, Compiling
  <2>2. MemoryInv
    BY Zenon, <2>1, EmptyFits DEF MemoryInv, MemoryCacheBounded, CodesOnce
  <2>3. \A t \in Threads : req[t] = NoRequest
    BY Zenon DEF Init
  <2>4. NoRequest.op # "unpin"
    BY DEF NoRequest
  <2>5. NoUnpin
    BY Zenon, <2>3, <2>4 DEF NoUnpin, Op
  <2>6. IsFiniteSet({}) /\ Cardinality({}) = 0
    BY FS_EmptySet
  <2>7. FreshStats.fs <= Len(<<>>) + Cardinality({})
    BY <2>6 DEF FreshStats
  <2> QED
    BY Zenon, <2>1, <2>2, <2>5, <2>6, <2>7 DEF DiskInv, ReadFromDiskOnce
<1>2. MemoryInv /\ DiskInv /\ LockInv /\ CacheInv /\ [Next]_vars => MemoryInv' /\ DiskInv'
  BY Zenon, MemoryInvStep, DiskInvStep
<1>3. DiskInv => ReadFromDiskOnce
  BY Zenon DEF DiskInv
<1> QED
  BY <1>1, <1>2, <1>3, LockHeld, CacheInvariant, PTL DEF Spec
==============================================================================
