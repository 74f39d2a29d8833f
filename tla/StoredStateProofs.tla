---------------------------- MODULE StoredStateProofs ---------------------------
(***************************************************************************)
(* What contracts keep in their storage with cosmwasm-storage, whose       *)
(* areas, singletons and sequences share one storage by the prefixes of    *)
(* their keys: they stay apart, and every way to read an area finds what   *)
(* was written there last, for every choice of names and of keys.          *)
(***************************************************************************)
EXTENDS StorageHelpers, Foundations

LEMMA LargerSequences ==
  ASSUME NEW S, NEW T, S \subseteq T, NEW s \in Seq(S)
  PROVE  s \in Seq(T)
OBVIOUS

LEMMA SameSequence ==
  ASSUME NEW S, NEW s \in Seq(S), NEW t \in Seq(S), Len(s) = Len(t),
         \A i \in 1 .. Len(s) : s[i] = t[i]
  PROVE  s = t
OBVIOUS

LEMMA ConcatNothing ==
  ASSUME NEW S, NEW s \in Seq(S)
  PROVE  s \o <<>> = s /\ <<>> \o s = s
OBVIOUS

LEMMA ElementType ==
  ASSUME NEW S, NEW s \in Seq(S), NEW i \in 1 .. Len(s)
  PROVE  s[i] \in S
OBVIOUS

--------------------------------------------------------------------------------
(* cosmwasm-storage.  A name is found again behind its length.               *)
Bytes == Seq(Nat)

(* w is a name with its length in front, and then x.                         *)
StartsWith(w, s, x) ==
  /\ s \in Bytes /\ x \in Bytes
  /\ w = to_length_prefixed(s) \o x

LEMMA QuotientAndRest ==
  ASSUME NEW n \in Nat, NEW b \in Nat, b > 0
  PROVE  n \div b \in Nat /\ n % b \in Nat /\ n = b * (n \div b) + (n % b)
<1>1. n \in Int /\ b \in Int
  OBVIOUS
<1>2. n = b * (n \div b) + (n % b)
  BY <1>1
<1>3. n \div b \in Nat /\ n % b \in Nat
  OBVIOUS
<1> QED
  BY Zenon, <1>2, <1>3

LEMMA PrefixedIsBytes ==
  ASSUME NEW s \in Bytes
  PROVE  to_length_prefixed(s) \in Bytes
<1>1. PICK n \in Nat, b \in Nat : n = Len(s) /\ b = ByteMax + 1 /\ b > 0
  BY ByteMaxAssumption, SequenceType DEF Bytes
<1>2. n \div b \in Nat /\ n % b \in Nat
  BY <1>1
<1>3. encode_length(s) = <<n \div b, n % b>>
  BY Zenon, <1>1 DEF encode_length
<1>4. encode_length(s) \in Bytes
  BY <1>2, <1>3 DEF Bytes
<1> QED
  BY Zenon, <1>4, Concatenation DEF to_length_prefixed, Bytes

(* What is joined keeps its parts.                                           *)
Joins(w, u, m, v, n) ==
  /\ u \in Bytes /\ m = Len(u) /\ v \in Bytes /\ n = Len(v) /\ w = u \o v

HasParts(w, u, m, v, n) ==
  /\ w \in Bytes /\ Len(w) = m + n
  /\ \A i \in 1 .. m + n : w[i] = IF i <= m THEN u[i] ELSE v[i - m]

LEMMA Joined ==
  ASSUME NEW w, NEW u, NEW m, NEW v, NEW n, Joins(w, u, m, v, n)
  PROVE  HasParts(w, u, m, v, n)
BY Concatenation, SequenceType DEF Bytes, Joins, HasParts

(* The length and the name can be read off.                                  *)
LEMMA LengthIsRead ==
  ASSUME NEW w, NEW s, NEW x, StartsWith(w, s, x)
  PROVE  /\ Len(s) = (ByteMax + 1) * w[1] + w[2]
         /\ \A i \in 1 .. Len(s) : w[i + 2] = s[i]
<1>1. PICK n \in Nat, b \in Nat : n = Len(s) /\ b = ByteMax + 1 /\ b > 0
  BY ByteMaxAssumption, SequenceType DEF Bytes, StartsWith
<1>2. /\ n \div b \in Nat /\ n % b \in Nat
      /\ n = b * (n \div b) + (n % b)
  BY Zenon, <1>1, QuotientAndRest
<1>3. PICK q \in Nat, r \in Nat : q = n \div b /\ r = n % b /\ n = b * q + r
  BY Zenon, <1>2
<1>4. <<q, r>> \in Bytes /\ Len(<<q, r>>) = 2 /\ <<q, r>>[1] = q /\ <<q, r>>[2] = r
  BY DEF Bytes
<1>5. PICK e \in Bytes : e = <<q, r>> /\ Len(e) = 2 /\ e[1] = q /\ e[2] = r
  BY Zenon, <1>4
<1>6. encode_length(s) = e
  BY Zenon, <1>1, <1>3, <1>5 DEF encode_length
<1>7. PICK p \in Bytes : p = to_length_prefixed(s)
  BY Zenon, PrefixedIsBytes DEF StartsWith
<1>8. p = e \o s /\ s \in Bytes /\ x \in Bytes /\ w = p \o x
  BY Zenon, <1>6, <1>7 DEF to_length_prefixed, StartsWith
<1>9. Len(p) = 2 + n /\ \A i \in 1 .. 2 + n : p[i] = IF i <= 2 THEN e[i] ELSE s[i - 2]
  <2>1. Joins(p, e, 2, s, n)
    BY Zenon, <1>1, <1>5, <1>8 DEF Joins
  <2>2. HasParts(p, e, 2, s, n)
    BY Zenon, <2>1, Joined
  <2> QED
    BY Zenon, <2>2 DEF HasParts
<1>10. PICK m \in Nat : m = Len(x)
  BY Zenon, <1>8, SequenceType DEF Bytes
<1>11. \A i \in 1 .. (2 + n) + m : w[i] = IF i <= 2 + n THEN p[i] ELSE x[i - (2 + n)]
  <2>1. Joins(w, p, 2 + n, x, m)
    BY Zenon, <1>8, <1>9, <1>10 DEF Joins
  <2>2. HasParts(w, p, 2 + n, x, m)
    BY Zenon, <2>1, Joined
  <2> QED
    BY Zenon, <2>2 DEF HasParts
<1>12. w[1] = q /\ w[2] = r
  <2>1. /\ 1 \in 1 .. (2 + n) + m /\ 1 \in 1 .. 2 + n /\ 1 <= 2 + n /\ 1 <= 2
        /\ 2 \in 1 .. (2 + n) + m /\ 2 \in 1 .. 2 + n /\ 2 <= 2 + n /\ 2 <= 2
    OBVIOUS
  <2> QED
    BY Zenon, <1>5, <1>9, <1>11, <2>1
<1>13. ASSUME NEW i \in 1 .. n PROVE w[i + 2] = s[i]
  <2>1. /\ i + 2 \in 1 .. (2 + n) + m /\ i + 2 \in 1 .. 2 + n /\ i + 2 <= 2 + n
        /\ ~(i + 2 <= 2) /\ (i + 2) - 2 = i
    OBVIOUS
  <2> QED
    BY Zenon, <1>9, <1>11, <2>1
<1> QED
  BY Zenon, <1>1, <1>3, <1>12, <1>13

LEMMA CancelLeft ==
  ASSUME NEW p \in Bytes, NEW x \in Bytes, NEW y \in Bytes, p \o x = p \o y
  PROVE  x = y
<1>1. PICK w, l, m, n : w = p \o x /\ l = Len(p) /\ m = Len(x) /\ n = Len(y)
  BY Zenon
<1>2. l \in Nat /\ m \in Nat /\ n \in Nat
  BY Zenon, <1>1, SequenceType DEF Bytes
<1>3. Len(w) = l + m /\ \A i \in 1 .. l + m : w[i] = IF i <= l THEN p[i] ELSE x[i - l]
  <2>1. Joins(w, p, l, x, m)
    BY Zenon, <1>1 DEF Joins
  <2>2. HasParts(w, p, l, x, m)
    BY Zenon, <2>1, Joined
  <2> QED
    BY Zenon, <2>2 DEF HasParts
<1>4. Len(w) = l + n /\ \A i \in 1 .. l + n : w[i] = IF i <= l THEN p[i] ELSE y[i - l]
  <2>1. Joins(w, p, l, y, n)
    BY Zenon, <1>1 DEF Joins
  <2>2. HasParts(w, p, l, y, n)
    BY Zenon, <2>1, Joined
  <2> QED
    BY Zenon, <2>2 DEF HasParts
<1>5. m = n
  BY <1>2, <1>3, <1>4
<1>6. ASSUME NEW i \in 1 .. m PROVE x[i] = y[i]
  <2>1. i + l \in 1 .. l + m /\ ~(i + l <= l) /\ (i + l) - l = i
    BY <1>2
  <2> QED
    BY Zenon, <1>3, <1>4, <1>5, <2>1
<1> QED
  BY Zenon, <1>1, <1>5, <1>6, SameSequence DEF Bytes

(* So bytes start with one name only, and the rest is the same.              *)
LEMMA NameIsRead ==
  ASSUME NEW w, NEW s, NEW x, StartsWith(w, s, x), NEW t, NEW y, StartsWith(w, t, y)
  PROVE  s = t /\ x = y
<1>1. Len(s) = Len(t)
  BY Zenon, LengthIsRead
<1>2. ASSUME NEW i \in 1 .. Len(s) PROVE s[i] = t[i]
  <2>1. i \in 1 .. Len(t)
    BY Zenon, <1>1
  <2>2. w[i + 2] = s[i] /\ w[i + 2] = t[i]
    BY Zenon, <2>1, LengthIsRead
  <2> QED
    BY Zenon, <2>2
<1>3. s \in Bytes /\ t \in Bytes /\ x \in Bytes /\ y \in Bytes
  BY Zenon DEF StartsWith
<1>4. s = t
  BY <1>1, <1>2, <1>3, SameSequence DEF Bytes
<1>5. PICK p \in Bytes : p = to_length_prefixed(s)
  BY Zenon, <1>3, PrefixedIsBytes
<1>6. p \o x = p \o y
  BY Zenon, <1>4, <1>5 DEF StartsWith
<1>7. x = y
  BY Zenon, <1>3, <1>5, <1>6, CancelLeft
<1> QED
  BY Zenon, <1>4, <1>7

(* out[k] is the prefix that the first k levels of an area make.             *)
Levels(out, area) ==
  /\ out \in [0 .. Len(area) -> Bytes] /\ out[0] = <<>>
  /\ \A k \in 1 .. Len(area) : out[k] = out[k - 1] \o to_length_prefixed(area[k])

(* Its levels are names.                                                     *)
IsArea(area) == area \in Seq(Bytes) /\ area # <<>>

LEMMA PrefixHasLevels ==
  ASSUME NEW area, IsArea(area)
  PROVE  \E out : Levels(out, area) /\ Prefix(area) = out[Len(area)]
<1> DEFINE P(g) == g = [i \in 0 .. Len(area) |->
                          IF i = 0 THEN <<>> ELSE g[i - 1] \o to_length_prefixed(area[i])]
           out == CHOOSE g : P(g)
<1>1. PICK n \in Nat : n = Len(area)
  BY Zenon, SequenceType DEF IsArea
<1>2. \A k \in 1 .. n : area[k] \in Bytes /\ to_length_prefixed(area[k]) \in Bytes
  BY Zenon, <1>1, PrefixedIsBytes, ElementType DEF IsArea
<1>3. to_length_prefixed_nested(area) = out[n]
  BY Zenon, <1>1 DEF to_length_prefixed_nested
<1>4. PICK f : f = [k \in 1 .. n |-> [v \in Bytes |-> v \o to_length_prefixed(area[k])]]
  BY Zenon
<1>5. f \in [1 .. n -> [Bytes -> Bytes]]
  <2>1. \A k \in 1 .. n, v \in Bytes : v \o to_length_prefixed(area[k]) \in Bytes
    BY Zenon, <1>2, Concatenation DEF Bytes
  <2> QED
    BY Zenon, <1>4, <2>1
<1>6. <<>> \in Bytes
  BY DEF Bytes
<1>7. PICK s : Recursion(s, Bytes, <<>>, f, n)
  BY Zenon, <1>5, <1>6, RecursionExists
<1>8. s \in [0 .. n -> Bytes] /\ s[0] = <<>>
  BY Zenon, <1>7 DEF Recursion
<1>9. ASSUME NEW k \in 1 .. n PROVE s[k] = s[k - 1] \o to_length_prefixed(area[k])
  <2>1. k - 1 \in 0 .. n
    OBVIOUS
  <2> QED
    BY Zenon, <1>4, <1>7, <1>8, <2>1 DEF Recursion
<1>10. Levels(s, area)
  BY Zenon, <1>1, <1>8, <1>9 DEF Levels
<1>11. P(s)
  <2>1. \A i \in 0 .. n : i = 0 \/ i \in 1 .. n
    OBVIOUS
  <2>2. \A i \in 0 .. n : s[i] = IF i = 0 THEN <<>> ELSE s[i - 1] \o to_length_prefixed(area[i])
    BY Zenon, <1>8, <1>9, <2>1
  <2> QED
    BY Zenon, <1>1, <1>8, <2>2
<1>12. P(out)
  BY Zenon, <1>11
<1> HIDE DEF out
<1>13. out[0] = s[0]
  <2>1. 0 \in 0 .. n
    OBVIOUS
  <2> QED
    BY Zenon, <1>1, <1>8, <1>12, <2>1
<1>14. ASSUME NEW i \in 1 .. n, out[i - 1] = s[i - 1] PROVE out[i] = s[i]
  <2>1. i \in 0 .. n /\ i # 0
    OBVIOUS
  <2> QED
    BY Zenon, <1>1, <1>9, <1>12, <1>14, <2>1
<1>15. \A i \in 0 .. n : out[i] = s[i]
  <2>1. GoOnAlike(out, s, n)
    BY Zenon, <1>13, <1>14 DEF GoOnAlike
  <2>2. AlikeTo(out, s, n)
    BY Zenon, <2>1, SameRecursion
  <2> QED
    BY Zenon, <2>2 DEF AlikeTo
<1>16. n \in 0 .. n
  OBVIOUS
<1>17. to_length_prefixed_nested(area) = s[n]
  BY Zenon, <1>3, <1>15, <1>16
<1>18. CASE n = 1
  <2>1. 1 \in 1 .. n /\ 1 - 1 = 0
    BY <1>18
  <2>2. s[1] = <<>> \o to_length_prefixed(area[1])
    BY Zenon, <1>8, <1>9, <2>1
  <2>3. s[1] = to_length_prefixed(area[1])
    BY Zenon, <1>2, <2>1, <2>2, ConcatNothing DEF Bytes
  <2> QED
    BY Zenon, <1>1, <1>10, <1>18, <2>3 DEF Prefix
<1>19. CASE n # 1
  BY Zenon, <1>1, <1>10, <1>17, <1>19 DEF Prefix
<1> QED
  BY Zenon, <1>18, <1>19

(* A prefix starts with that of every level.                                 *)
LEMMA LevelsAreNested ==
  ASSUME NEW area, IsArea(area), NEW out, Levels(out, area), NEW k \in 0 .. Len(area)
  PROVE  \E r \in Bytes : out[Len(area)] = out[k] \o r
<1>1. PICK n \in Nat : n = Len(area)
  BY Zenon, SequenceType DEF IsArea
<1>2. /\ out \in [0 .. n -> Bytes]
      /\ \A i \in 1 .. n : out[i] = out[i - 1] \o to_length_prefixed(area[i])
  BY Zenon, <1>1 DEF Levels
<1>3. \A i \in 1 .. n : to_length_prefixed(area[i]) \in Bytes
  BY Zenon, <1>1, PrefixedIsBytes, ElementType DEF IsArea
<1>4. k \in 0 .. n /\ k \in Nat
  BY <1>1
<1> DEFINE T == {d \in Nat : k + d <= n => \E r \in Bytes : out[k + d] = out[k] \o r}
<1>5. 0 \in T
  <2>1. out[k] \in Bytes /\ <<>> \in Bytes
    BY <1>2, <1>4 DEF Bytes
  <2>2. out[k] = out[k] \o <<>>
    BY Zenon, <2>1, ConcatNothing DEF Bytes
  <2>3. k + 0 = k
    BY <1>4
  <2>4. 0 \in Nat /\ \E r \in Bytes : out[k + 0] = out[k] \o r
    BY Zenon, <2>1, <2>2, <2>3
  <2> QED
    BY Zenon, <2>4
<1>6. ASSUME NEW d \in Nat, d \in T PROVE d + 1 \in T
  <2> SUFFICES ASSUME k + (d + 1) <= n
               PROVE  \E r \in Bytes : out[k + (d + 1)] = out[k] \o r
    OBVIOUS
  <2>1. k + d <= n /\ k + (d + 1) \in 1 .. n /\ (k + (d + 1)) - 1 = k + d
    BY <1>4
  <2>2. PICK r \in Bytes : out[k + d] = out[k] \o r
    BY Zenon, <1>6, <2>1
  <2>3. PICK p \in Bytes : p = to_length_prefixed(area[k + (d + 1)])
    BY Zenon, <1>3, <2>1
  <2>4. out[k + (d + 1)] = (out[k] \o r) \o p
    BY Zenon, <1>2, <2>1, <2>2, <2>3
  <2>5. out[k] \in Bytes
    BY Zenon, <1>2, <1>4
  <2>6. (out[k] \o r) \o p = out[k] \o (r \o p)
    BY Zenon, <2>5, Regrouping DEF Regroups, Bytes
  <2>7. r \o p \in Bytes
    BY Zenon, Concatenation DEF Bytes
  <2> QED
    BY Zenon, <2>4, <2>6, <2>7
<1>7. Nat \subseteq T
  <2> HIDE DEF T
  <2> QED
    BY Zenon, <1>5, <1>6, NaturalInduction
<1>8. n - k \in Nat /\ k + (n - k) = n /\ n <= n
  BY <1>4
<1>9. n - k \in T
  BY Zenon, <1>7, <1>8
<1> QED
  BY Zenon, <1>1, <1>8, <1>9

(* w is a key x behind the prefix of an area.                                *)
KeyIn(w, out, area, x) ==
  /\ IsArea(area) /\ Levels(out, area) /\ x \in Bytes
  /\ w = out[Len(area)] \o x

(* w is the bytes p, then a name with its length, then y.                    *)
NameBehind(w, p, name, u, y) ==
  /\ p \in Bytes /\ u \in Bytes
  /\ w = p \o u /\ StartsWith(u, name, y)

LEMMA SameName ==
  ASSUME NEW w, NEW p, NEW s, NEW u, NEW x, NameBehind(w, p, s, u, x),
         NEW t, NEW v, NEW y, NameBehind(w, p, t, v, y)
  PROVE  s = t
<1>1. u = v
  BY Zenon, CancelLeft DEF NameBehind
<1> QED
  BY Zenon, <1>1, NameIsRead DEF NameBehind

(* Behind the prefix of the levels before it, a key has the name of a level. *)
LEMMA NextLevel ==
  ASSUME NEW w, NEW out, NEW area, NEW x, KeyIn(w, out, area, x),
         NEW k \in 1 .. Len(area)
  PROVE  \E u, y : NameBehind(w, out[k - 1], area[k], u, y)
<1>0. IsArea(area) /\ Levels(out, area) /\ x \in Bytes /\ w = out[Len(area)] \o x
  BY Zenon DEF KeyIn
<1>1. PICK n \in Nat : n = Len(area)
  BY Zenon, <1>0, SequenceType DEF IsArea
<1>2. k \in 0 .. n /\ k - 1 \in 0 .. n
  BY <1>1
<1>3. PICK r \in Bytes : out[n] = out[k] \o r
  BY Zenon, <1>0, <1>1, <1>2, LevelsAreNested
<1>4. PICK q \in Bytes : q = out[k - 1]
  BY Zenon, <1>0, <1>1, <1>2 DEF Levels
<1>5. area[k] \in Bytes
  BY Zenon, <1>0, ElementType DEF IsArea
<1>6. PICK p \in Bytes : p = to_length_prefixed(area[k])
  BY Zenon, <1>5, PrefixedIsBytes
<1>7. out[k] = q \o p
  BY Zenon, <1>0, <1>4, <1>6 DEF Levels
<1>8. w = ((q \o p) \o r) \o x
  BY Zenon, <1>0, <1>1, <1>3, <1>7
<1>9. PICK y \in Bytes : y = r \o x
  BY Zenon, <1>0, Concatenation DEF Bytes
<1>10. PICK u \in Bytes : u = p \o y
  BY Zenon, Concatenation DEF Bytes
<1>11. PICK qp \in Bytes : qp = q \o p
  BY Zenon, Concatenation DEF Bytes
<1>12. Regroups(qp, r, x) /\ Regroups(q, p, y)
  BY Zenon, <1>0, Regrouping DEF Bytes
<1>13. w = q \o u
  BY Zenon, <1>8, <1>9, <1>10, <1>11, <1>12 DEF Regroups
<1>14. StartsWith(u, area[k], y)
  BY Zenon, <1>5, <1>6, <1>10 DEF StartsWith
<1>15. NameBehind(w, out[k - 1], area[k], u, y)
  BY Zenon, <1>4, <1>13, <1>14 DEF NameBehind
<1> QED
  BY Zenon, <1>15

(* Two areas with a key in common agree level by level.                      *)
LEMMA LevelsAgree ==
  ASSUME NEW w, NEW a, NEW f, NEW x, KeyIn(w, f, a, x), NEW b, NEW g, NEW y, KeyIn(w, g, b, y),
         Len(a) <= Len(b)
  PROVE  Within(b, a) /\ f[Len(a)] = g[Len(a)]
<1>1. PICK m \in Nat, n \in Nat : m = Len(a) /\ n = Len(b) /\ m <= n
  BY Zenon, SequenceType DEF IsArea, KeyIn
<1>2. Levels(f, a) /\ Levels(g, b)
  BY Zenon DEF KeyIn
<1>3. ASSUME NEW k \in 1 .. m, f[k - 1] = g[k - 1] PROVE a[k] = b[k] /\ f[k] = g[k]
  <2>1. k \in 1 .. n
    BY <1>1
  <2>2. PICK u, v : NameBehind(w, f[k - 1], a[k], u, v)
    BY Zenon, <1>1, NextLevel
  <2>3. PICK u2, v2 : NameBehind(w, g[k - 1], b[k], u2, v2)
    BY Zenon, <1>1, <2>1, NextLevel
  <2>4. a[k] = b[k]
    BY Zenon, <1>3, <2>2, <2>3, SameName
  <2>5. f[k] = g[k]
    BY Zenon, <1>1, <1>2, <1>3, <2>1, <2>4 DEF Levels
  <2> QED
    BY Zenon, <2>4, <2>5
<1>4. \A k \in 0 .. m : f[k] = g[k]
  <2>1. f[0] = g[0]
    BY Zenon, <1>2 DEF Levels
  <2>2. \A k \in 1 .. m : f[k - 1] = g[k - 1] => f[k] = g[k]
    BY Zenon, <1>3
  <2>3. GoOnAlike(f, g, m)
    BY Zenon, <2>1, <2>2 DEF GoOnAlike
  <2>4. AlikeTo(f, g, m)
    BY Zenon, <2>3, SameRecursion
  <2> QED
    BY Zenon, <2>4 DEF AlikeTo
<1>5. ASSUME NEW k \in 1 .. m PROVE b[k] = a[k]
  <2>1. k - 1 \in 0 .. m
    OBVIOUS
  <2> QED
    BY Zenon, <1>3, <1>4, <2>1
<1>6. m \in 0 .. m
  OBVIOUS
<1> QED
  BY Zenon, <1>1, <1>4, <1>5, <1>6 DEF Within

(* What PlaceOf and SingletonKey say is the key in the contract's storage.   *)
PlaceOf(area, key) == concat(Prefix(area), key)

LEMMA NamesAreBytes ==
  /\ \A area \in Areas : IsArea(area)
  /\ \A key \in Keys : key \in Bytes
  /\ \A name \in Singletons \cup {SequenceName} : name \in Bytes
<1>1. 0 .. ByteMax \subseteq Nat
  BY ByteMaxAssumption
<1>2. Seq(0 .. ByteMax) \subseteq Bytes
  BY Zenon, <1>1, LargerSequences DEF Bytes
<1>3. Seq(Seq(0 .. ByteMax)) \subseteq Seq(Bytes)
  BY Zenon, <1>2, LargerSequences
<1> QED
  BY Zenon, <1>2, <1>3, NamesAssumption DEF IsArea

(* Different entries have different places.                                  *)
LEMMA AreasDoNotOverlap ==
  ASSUME NEW a \in Areas, NEW b \in Areas, NEW x \in Keys, NEW y \in Keys,
         PlaceOf(a, x) = PlaceOf(b, y)
  PROVE  a = b /\ x = y
<1>1. IsArea(a) /\ IsArea(b) /\ x \in Bytes /\ y \in Bytes
  BY Zenon, NamesAreBytes
<1>2. PICK f : Levels(f, a) /\ Prefix(a) = f[Len(a)]
  BY Zenon, <1>1, PrefixHasLevels
<1>3. PICK g : Levels(g, b) /\ Prefix(b) = g[Len(b)]
  BY Zenon, <1>1, PrefixHasLevels
<1>4. PICK w : KeyIn(w, f, a, x) /\ KeyIn(w, g, b, y)
  BY Zenon, <1>1, <1>2, <1>3 DEF PlaceOf, concat, KeyIn
<1>5. Len(a) \in Nat /\ Len(b) \in Nat
  BY Zenon, <1>1, SequenceType DEF IsArea
<1>6. Len(a) <= Len(b) \/ Len(b) <= Len(a)
  BY <1>5
<1>7. Within(b, a) \/ Within(a, b)
  BY Zenon, <1>4, <1>6, LevelsAgree
<1>8. a = b
  BY Zenon, <1>7, AreasApart
<1>9. f[Len(a)] = g[Len(b)]
  <2>1. Len(a) <= Len(a)
    BY <1>5
  <2> QED
    BY Zenon, <1>4, <1>8, <2>1, LevelsAgree
<1>10. f[Len(a)] \in Bytes
  <2>1. Len(a) \in 0 .. Len(a)
    BY <1>5
  <2> QED
    BY Zenon, <1>2, <2>1 DEF Levels
<1>11. x = y
  BY Zenon, <1>4, <1>9, <1>10, CancelLeft DEF KeyIn
<1> QED
  BY Zenon, <1>8, <1>11

LEMMA SingletonsDoNotOverlap ==
  ASSUME NEW s \in Singletons \cup {SequenceName}, NEW t \in Singletons \cup {SequenceName},
         SingletonKey(s) = SingletonKey(t)
  PROVE  s = t
<1>1. s \in Bytes /\ t \in Bytes
  BY Zenon, NamesAreBytes
<1>2. <<>> \in Bytes
  BY DEF Bytes
<1>3. StartsWith(to_length_prefixed(s) \o <<>>, s, <<>>)
  BY Zenon, <1>1, <1>2 DEF StartsWith
<1>4. StartsWith(to_length_prefixed(s) \o <<>>, t, <<>>)
  BY Zenon, <1>1, <1>2 DEF StartsWith, SingletonKey
<1> QED
  BY ZenonT(60), <1>3, <1>4, NameIsRead

LEMMA SingletonsAreOutside ==
  ASSUME NEW s \in Singletons \cup {SequenceName}, NEW a \in Areas, NEW x \in Keys
  PROVE  SingletonKey(s) # PlaceOf(a, x)
<1> SUFFICES ASSUME SingletonKey(s) = PlaceOf(a, x) PROVE FALSE
  BY Zenon
<1>1. IsArea(a) /\ x \in Bytes /\ s \in Bytes
  BY Zenon, NamesAreBytes
<1>2. PICK f : Levels(f, a) /\ Prefix(a) = f[Len(a)]
  BY Zenon, <1>1, PrefixHasLevels
<1>3. Len(a) \in Nat /\ Len(a) # 0
  BY Zenon, <1>1, SequenceType, EmptySequence DEF IsArea
<1>4. 1 \in 1 .. Len(a) /\ 1 - 1 = 0
  BY <1>3
<1>5. PICK w : KeyIn(w, f, a, x)
  BY Zenon, <1>1, <1>2 DEF KeyIn
<1>6. PICK u, y : NameBehind(w, <<>>, a[1], u, y)
  <2>1. f[1 - 1] = <<>>
    BY Zenon, <1>2, <1>4 DEF Levels
  <2>2. PICK u, y : NameBehind(w, f[1 - 1], a[1], u, y)
    BY Zenon, <1>4, <1>5, NextLevel
  <2> QED
    BY Zenon, <2>1, <2>2
<1>7. w = u /\ StartsWith(u, a[1], y)
  BY Zenon, <1>6, ConcatNothing DEF Bytes, NameBehind
<1>8. to_length_prefixed(s) = u
  BY Zenon, <1>2, <1>5, <1>7 DEF PlaceOf, concat, SingletonKey, KeyIn
<1>9. to_length_prefixed(s) = to_length_prefixed(s) \o <<>> /\ <<>> \in Bytes
  <2>1. to_length_prefixed(s) \in Bytes
    BY Zenon, <1>1, PrefixedIsBytes
  <2> QED
    BY Zenon, <2>1, ConcatNothing, EmptySequence DEF Bytes
<1>10. StartsWith(u, s, <<>>)
  BY Zenon, <1>1, <1>8, <1>9 DEF StartsWith
<1>11. s = a[1]
  BY Zenon, <1>7, <1>10, NameIsRead
<1> QED
  BY Zenon, <1>11, AreasApart

--------------------------------------------------------------------------------
(* One place of the storage gets a value, loses it, or keeps what it has.    *)
ChangesAt(place) ==
  SameElsewhere(data', data, place) /\ get(data', place) \in Separate!Options

LEMMA StoredValue ==
  ASSUME NEW place, NEW value \in Values \cup {Garbage} \cup 1 .. MaxSequence,
         data' = set(data, place, value)
  PROVE  ChangesAt(place)
<1>1. Holds(data', data, place, value)
  BY Zenon, SetOperation DEF IsSet
<1>2. get(data', place) = <<value>> /\ SameElsewhere(data', data, place)
  BY Zenon, <1>1 DEF Holds
<1> QED
  BY Zenon, <1>2 DEF ChangesAt, Separate!Options

LEMMA RemovedValue ==
  ASSUME NEW place, data' = remove(data, place)
  PROVE  ChangesAt(place)
<1>1. get(data', place) = <<>> /\ SameElsewhere(data', data, place)
  BY Zenon, RemoveOperation DEF IsRemoved
<1> QED
  BY Zenon, <1>1 DEF ChangesAt, Separate!Options

(* An entry of an area is written, and no other entry or singleton.          *)
LEMMA AreaStep ==
  ASSUME NEW area \in Areas, NEW key \in Keys, ChangesAt(PlaceOf(area, key))
  PROVE  Separate!Next
<1> DEFINE store == [a \in Areas |-> [k \in Keys |-> get_with_prefix(Prefix(a), k)]]
           cells == [n \in Singletons \cup {SequenceName} |-> get(data, SingletonKey(n))]
<1>1. SameElsewhere(data', data, PlaceOf(area, key)) /\ get(data', PlaceOf(area, key)) \in Separate!Options
  BY Zenon DEF ChangesAt
<1>2. ASSUME NEW a \in Areas, NEW k \in Keys, <<a, k>> # <<area, key>>
      PROVE  get(data', PlaceOf(a, k)) = get(data, PlaceOf(a, k))
  <2>1. PlaceOf(a, k) # PlaceOf(area, key)
    BY Zenon, <1>2, AreasDoNotOverlap
  <2> QED
    BY Zenon, <1>1, <2>1 DEF SameElsewhere
<1>3. \A n \in Singletons \cup {SequenceName} :
        get(data', SingletonKey(n)) = get(data, SingletonKey(n))
  BY Zenon, <1>1, SingletonsAreOutside DEF SameElsewhere
<1>4. /\ store'[area][key] = get(data', PlaceOf(area, key))
      /\ \A a \in Areas, k \in Keys : /\ store'[a][k] = get(data', PlaceOf(a, k))
                                      /\ store[a][k] = get(data, PlaceOf(a, k))
  BY Zenon DEF get_with_prefix, PlaceOf
<1>5. Separate!Write(<<area, key>>)
  BY <1>1, <1>2, <1>3, <1>4 DEF Separate!Write, Separate!Entries
<1> QED
  BY <1>5 DEF Separate!Next, Separate!Entries

(* A singleton is written, and no other one and no entry of an area.         *)
LEMMA CellStep ==
  ASSUME NEW name \in Singletons \cup {SequenceName}, ChangesAt(SingletonKey(name))
  PROVE  Separate!Next
<1> DEFINE AllNames == Singletons \cup {SequenceName}
           store == [a \in Areas |-> [k \in Keys |-> get_with_prefix(Prefix(a), k)]]
           cells == [n \in AllNames |-> get(data, SingletonKey(n))]
<1>1. SameElsewhere(data', data, SingletonKey(name)) /\ get(data', SingletonKey(name)) \in Separate!Options
  BY Zenon DEF ChangesAt
<1>2. ASSUME NEW n \in AllNames, n # name
      PROVE  get(data', SingletonKey(n)) = get(data, SingletonKey(n))
  <2>1. SingletonKey(n) # SingletonKey(name)
    BY Zenon, <1>2, SingletonsDoNotOverlap
  <2> QED
    BY Zenon, <1>1, <2>1 DEF SameElsewhere
<1>3. \A a \in Areas, k \in Keys : get(data', PlaceOf(a, k)) = get(data, PlaceOf(a, k))
  BY Zenon, <1>1, SingletonsAreOutside DEF SameElsewhere
<1>4. \A n \in AllNames : cells'[n] = get(data', SingletonKey(n)) /\ cells[n] = get(data, SingletonKey(n))
  BY Zenon
<1>5. store' = store
  BY Zenon, <1>3 DEF get_with_prefix, PlaceOf
<1>6. Separate!WriteCell(name)
  BY <1>1, <1>2, <1>4, <1>5 DEF Separate!WriteCell
<1> QED
  BY Zenon, <1>6 DEF Separate!Next

(* Every operation on an area changes one place of it.                       *)
LEMMA AreaOperation ==
  ASSUME NEW area \in Areas, NEW key \in Keys,
         \/ \E value \in Values \cup {Garbage} : PrefixedSet(area, key, value)
         \/ PrefixedRemove(area, key)
         \/ \E value \in Values : BucketSave(area, key, value)
         \/ BucketRemove(area, key)
         \/ BucketUpdate(area, key)
  PROVE  ChangesAt(PlaceOf(area, key)) /\ issued' = issued
<1>1. ASSUME NEW value \in Values \cup {Garbage}, PrefixedSet(area, key, value)
      PROVE  ChangesAt(PlaceOf(area, key)) /\ issued' = issued
  BY Zenon, <1>1, StoredValue DEF PrefixedSet, set_with_prefix, PlaceOf
<1>2. ASSUME PrefixedRemove(area, key)
      PROVE  ChangesAt(PlaceOf(area, key)) /\ issued' = issued
  BY Zenon, <1>2, RemovedValue DEF PrefixedRemove, remove_with_prefix, PlaceOf
<1>3. CASE \E value \in Values : BucketSave(area, key, value)
  BY Zenon, <1>1, <1>3 DEF BucketSave
<1>4. CASE BucketUpdate(area, key)
  <2>1. PICK option : /\ IncrementOr(option) # Error
                      /\ BucketSave(area, key, IncrementOr(option))
    BY Zenon, <1>4 DEF BucketUpdate
  <2>2. IncrementOr(option) \in Values
    BY Zenon, <2>1 DEF IncrementOr, Increment
  <2> QED
    BY Zenon, <1>1, <2>1, <2>2 DEF BucketSave
<1> QED
  BY Zenon, <1>1, <1>2, <1>3, <1>4 DEF BucketRemove

LEMMA SingletonOperation ==
  ASSUME NEW name \in Singletons,
         \/ \E value \in Values : SingletonSave(name, value)
         \/ SingletonRemove(name)
         \/ SingletonUpdate(name)
  PROVE  ChangesAt(SingletonKey(name)) /\ issued' = issued
<1>1. ASSUME NEW value \in Values, SingletonSave(name, value)
      PROVE  ChangesAt(SingletonKey(name)) /\ issued' = issued
  BY Zenon, <1>1, StoredValue DEF SingletonSave
<1>2. CASE SingletonRemove(name)
  BY Zenon, <1>2, RemovedValue DEF SingletonRemove
<1>3. CASE SingletonUpdate(name)
  <2>1. PICK value : /\ Increment(value) # Error
                     /\ SingletonSave(name, Increment(value))
    BY Zenon, <1>3 DEF SingletonUpdate
  <2>2. Increment(value) \in Values
    BY Zenon, <2>1 DEF Increment
  <2> QED
    BY Zenon, <1>1, <2>1, <2>2
<1> QED
  BY Zenon, <1>1, <1>2, <1>3

(* The counter is the number of values that nextval has returned.            *)
CounterInv ==
  /\ issued \in Seq(Nat) /\ currval = Len(issued)
  /\ SequenceCounts

LEMMA CounterStart ==
  ASSUME StorageInit
  PROVE  CounterInv
<1>1. data = <<>> /\ issued = <<>>
  BY Zenon DEF StorageInit, EmptyMap
<1>2. DOMAIN <<>> = {} /\ <<>> \in Seq(Nat) /\ Len(<<>>) = 0
  OBVIOUS
<1>3. get(data, SingletonKey(SequenceName)) = <<>>
  BY Zenon, <1>1, <1>2 DEF get
<1> QED
  BY Zenon, <1>1, <1>2, <1>3 DEF CounterInv, currval, SequenceCounts

(* Operations on other places leave it alone.                                *)
LEMMA CounterKept ==
  ASSUME CounterInv, NEW place, place # SingletonKey(SequenceName),
         ChangesAt(place), issued' = issued
  PROVE  CounterInv'
<1>1. get(data', SingletonKey(SequenceName)) = get(data, SingletonKey(SequenceName))
  BY Zenon DEF ChangesAt, SameElsewhere
<1> QED
  BY Zenon, <1>1 DEF CounterInv, currval, SequenceCounts

LEMMA CounterStep ==
  ASSUME CounterInv, nextval
  PROVE  CounterInv' /\ ChangesAt(SingletonKey(SequenceName))
<1>1. PICK n \in Nat : n = currval /\ n = Len(issued)
  BY Zenon, SequenceType DEF CounterInv
<1>2. /\ n < MaxSequence /\ data' = set(data, SingletonKey(SequenceName), n + 1)
      /\ issued' = Append(issued, n + 1)
  BY Zenon, <1>1 DEF nextval
<1>3. n + 1 \in 1 .. MaxSequence /\ n + 1 \in Nat
  BY <1>2, NamesAssumption
<1>4. ChangesAt(SingletonKey(SequenceName))
  BY Zenon, <1>2, <1>3, StoredValue
<1>5. get(data', SingletonKey(SequenceName)) = <<n + 1>>
  <2>1. IsSet(data', data, SingletonKey(SequenceName), n + 1)
    BY Zenon, <1>2 DEF IsSet
  <2>2. Holds(data', data, SingletonKey(SequenceName), n + 1)
    BY Zenon, <2>1, SetOperation
  <2> QED
    BY Zenon, <2>2 DEF Holds
<1>6. currval' = n + 1
  BY <1>5 DEF currval
<1>7. issued \in Seq(Nat) /\ \A i \in 1 .. n : issued[i] = i
  BY Zenon, <1>1, SequenceType DEF CounterInv, SequenceCounts
<1>8. /\ issued' \in Seq(Nat) /\ Len(issued') = n + 1
      /\ \A i \in 1 .. n + 1 : issued'[i] = i
  BY <1>1, <1>2, <1>3, <1>7
<1>9. SequenceCounts'
  <2>1. DOMAIN issued' = 1 .. n + 1
    BY <1>8
  <2> QED
    BY Zenon, <1>8, <2>1 DEF SequenceCounts
<1> QED
  BY Zenon, <1>4, <1>6, <1>8, <1>9 DEF CounterInv

LEMMA HelperStep ==
  ASSUME CounterInv, StorageNext
  PROVE  CounterInv' /\ Separate!Next
<1>1. ASSUME NEW area \in Areas, NEW key \in Keys,
             ChangesAt(PlaceOf(area, key)), issued' = issued
      PROVE  CounterInv' /\ Separate!Next
  <2>1. PlaceOf(area, key) # SingletonKey(SequenceName)
    BY Zenon, SingletonsAreOutside
  <2> QED
    BY Zenon, <1>1, <2>1, CounterKept, AreaStep
<1>2. ASSUME NEW name \in Singletons, ChangesAt(SingletonKey(name)), issued' = issued
      PROVE  CounterInv' /\ Separate!Next
  <2>1. SingletonKey(name) # SingletonKey(SequenceName)
    BY Zenon, SingletonsDoNotOverlap, AreasApart
  <2> QED
    BY Zenon, <1>2, <2>1, CounterKept, CellStep
<1>3. CASE nextval
  BY Zenon, <1>3, CounterStep, CellStep
<1> QED
  BY Zenon, <1>1, <1>2, <1>3, AreaOperation, SingletonOperation DEF StorageNext

LEMMA CounterAlways == StorageSpec => []CounterInv
<1>1. StorageInit => CounterInv
  BY Zenon, CounterStart
<1>2. CounterInv /\ [StorageNext]_storageVars => CounterInv'
  <2>1. CounterInv /\ UNCHANGED storageVars => CounterInv'
    BY Zenon DEF CounterInv, storageVars, currval, SequenceCounts
  <2> QED
    BY Zenon, <2>1, HelperStep
<1> QED
  BY <1>1, <1>2, PTL DEF StorageSpec

(* nextval returns every number once, counting up from one, whatever is      *)
(* stored in other areas and singletons between two calls (sequence.rs).     *)
THEOREM SequenceAlwaysCounts == StorageSpec => []SequenceCounts
<1>1. CounterInv => SequenceCounts
  BY Zenon DEF CounterInv
<1> QED
  BY <1>1, CounterAlways, PTL

(* The helpers implement separate stores: an operation on a bucket, a        *)
(* prefixed storage, a singleton or the sequence changes one entry of it and *)
(* nothing of any other, for all areas of which none lies within another and *)
(* all names, whatever bytes they consist of (length_prefixed.rs).           *)
THEOREM HelpersKeepStoresApart == StorageSpec => StoresAreSeparate
<1>1. StorageInit => Separate!Init
  <2> SUFFICES ASSUME StorageInit PROVE Separate!Init
    OBVIOUS
  <2>1. DOMAIN data = {}
    BY DEF StorageInit, EmptyMap
  <2>2. \A k : get(data, k) = <<>>
    BY Zenon, <2>1 DEF get
  <2> QED
    BY <2>2 DEF Separate!Init, Separate!Entries, get_with_prefix
<1>2. CounterInv /\ [StorageNext]_storageVars =>
        [Separate!Next]_<<[area \in Areas |-> [key \in Keys |-> get_with_prefix(Prefix(area), key)]],
                         [name \in Singletons \cup {SequenceName} |-> get(data, SingletonKey(name))]>>
  <2>1. UNCHANGED storageVars =>
          UNCHANGED <<[area \in Areas |-> [key \in Keys |-> get_with_prefix(Prefix(area), key)]],
                      [name \in Singletons \cup {SequenceName} |-> get(data, SingletonKey(name))]>>
    BY Zenon DEF storageVars, get_with_prefix
  <2> QED
    BY Zenon, <2>1, HelperStep
<1> QED
  BY <1>1, <1>2, CounterAlways, PTL DEF StorageSpec, StoresAreSeparate, Separate!Spec

--------------------------------------------------------------------------------
(* Keys behind a common prefix are ordered as they are without it.           *)
LEMMA SameBehind ==
  ASSUME NEW p \in Bytes, NEW x \in Bytes, NEW y \in Bytes
  PROVE  Less(p \o x, p \o y) <=> Less(x, y)
<1>1. PICK u, v, l, m, n : /\ u = p \o x /\ v = p \o y /\ l = Len(p) /\ m = Len(x) /\ n = Len(y)
  BY Zenon
<1>2. l \in Nat /\ m \in Nat /\ n \in Nat
  BY Zenon, <1>1, SequenceType DEF Bytes
<1>3. HasParts(u, p, l, x, m) /\ HasParts(v, p, l, y, n)
  BY Zenon, <1>1, Joined DEF Joins
<1>4. /\ Len(u) = l + m /\ \A i \in 1 .. l + m : u[i] = IF i <= l THEN p[i] ELSE x[i - l]
      /\ Len(v) = l + n /\ \A i \in 1 .. l + n : v[i] = IF i <= l THEN p[i] ELSE y[i - l]
  BY Zenon, <1>3 DEF HasParts
<1>5. /\ \A i \in 1 .. l : u[i] = p[i] /\ v[i] = p[i] /\ p[i] \in Nat
      /\ \A i \in 1 .. m : u[i + l] = x[i] /\ x[i] \in Nat
      /\ \A i \in 1 .. n : v[i + l] = y[i] /\ y[i] \in Nat
  <2>1. /\ \A i \in 1 .. l : p[i] \in Nat
        /\ \A i \in 1 .. m : x[i] \in Nat
        /\ \A i \in 1 .. n : y[i] \in Nat
    BY Zenon, <1>1, SequenceType DEF Bytes
  <2>2. /\ \A i \in 1 .. l : i \in 1 .. l + m /\ i \in 1 .. l + n /\ i <= l
        /\ \A i \in 1 .. m : i + l \in 1 .. l + m /\ ~(i + l <= l) /\ (i + l) - l = i
        /\ \A i \in 1 .. n : i + l \in 1 .. l + n /\ ~(i + l <= l) /\ (i + l) - l = i
    BY <1>2
  <2> QED
    BY Zenon, <1>4, <2>1, <2>2
<1>6. ASSUME NEW i \in 1 .. l + n, DiffersFrom(u, v, i)
      PROVE  i - l \in 1 .. n /\ DiffersFrom(x, y, i - l)
  <2>1. /\ \A j \in 1 .. i - 1 : j <= l + m /\ u[j] = v[j]
        /\ i > l + m \/ (i <= l + m /\ u[i] < v[i])
    BY <1>4, <1>6 DEF DiffersFrom
  <2>2. i > l
    BY <1>2, <1>5, <2>1
  <2>3. PICK k \in 1 .. n : i = k + l /\ i - l = k
    BY <1>2, <2>2
  <2>4. ASSUME NEW j \in 1 .. k - 1 PROVE j <= m /\ x[j] = y[j]
    <3>1. j + l \in 1 .. i - 1
      BY <1>2, <2>3
    <3>2. j + l <= l + m /\ u[j + l] = v[j + l]
      BY Zenon, <2>1, <3>1
    <3>3. j \in 1 .. m /\ j \in 1 .. n
      BY <1>2, <3>2
    <3> QED
      BY <1>5, <3>2, <3>3
  <2>5. k > m \/ (k <= m /\ x[k] < y[k])
    <3>1. k + l > l + m \/ (k + l <= l + m /\ u[k + l] < v[k + l])
      BY Zenon, <2>1, <2>3
    <3>2. CASE k > m
      BY <3>2
    <3>3. CASE k <= m
      <4>1. k \in 1 .. m /\ ~(k + l > l + m)
        BY <1>2, <3>3
      <4> QED
        BY Zenon, <1>5, <3>1, <3>3, <4>1
    <3> QED
      BY <1>2, <3>2, <3>3
  <2> QED
    BY Zenon, <1>1, <2>3, <2>4, <2>5 DEF DiffersFrom
<1>7. ASSUME NEW k \in 1 .. n, DiffersFrom(x, y, k)
      PROVE  k + l \in 1 .. l + n /\ DiffersFrom(u, v, k + l)
  <2>1. /\ \A j \in 1 .. k - 1 : j <= m /\ x[j] = y[j]
        /\ k > m \/ (k <= m /\ x[k] < y[k])
    BY <1>1, <1>7 DEF DiffersFrom
  <2>2. ASSUME NEW j \in 1 .. (k + l) - 1 PROVE j <= l + m /\ u[j] = v[j]
    <3>1. CASE j <= l
      BY <1>2, <1>5, <3>1
    <3>2. CASE j > l
      <4>1. PICK i \in 1 .. k - 1 : j = i + l
        BY <1>2, <3>2
      <4>2. i <= m /\ x[i] = y[i]
        BY Zenon, <2>1
      <4>3. i \in 1 .. m /\ i \in 1 .. n /\ j <= l + m
        BY <1>2, <4>1, <4>2
      <4> QED
        BY Zenon, <1>5, <4>1, <4>2, <4>3
    <3> QED
      BY <1>2, <3>1, <3>2
  <2>3. k + l > l + m \/ (k + l <= l + m /\ u[k + l] < v[k + l])
    <3>1. CASE k > m
      BY <1>2, <3>1
    <3>2. CASE k <= m
      <4>1. k \in 1 .. m /\ ~(k > m) /\ k + l <= l + m
        BY <1>2, <3>2
      <4> QED
        BY Zenon, <1>5, <2>1, <4>1
    <3> QED
      BY <1>2, <3>1, <3>2
  <2>4. k + l \in 1 .. l + n
    BY <1>2
  <2> QED
    BY Zenon, <1>4, <2>2, <2>3, <2>4 DEF DiffersFrom
<1>8. Less(u, v) <=> Less(x, y)
  BY Zenon, <1>1, <1>4, <1>6, <1>7, LessAt
<1> QED
  BY Zenon, <1>1, <1>8
(* Nothing is less than a key that it starts with.                           *)
LEMMA NotBeforePrefix ==
  ASSUME NEW p \in Bytes, NEW x \in Bytes
  PROVE  ~Less(p \o x, p)
<1>1. p \o <<>> = p /\ <<>> \in Bytes /\ Len(<<>>) = 0
  BY Zenon, ConcatNothing, EmptySequence DEF Bytes
<1>2. ~Less(x, <<>>)
  <2>1. ~(\E i \in 1 .. 0 : DiffersFrom(x, <<>>, i))
    OBVIOUS
  <2> QED
    BY Zenon, <1>1, <2>1, LessAt
<1> QED
  BY Zenon, <1>1, <1>2, SameBehind

(* u is p up to a place where it is one more, and behind it p has only the   *)
(* greatest byte and u only zeros.                                           *)
UpperBound(u, p, n, last) ==
  /\ p \in Bytes /\ n = Len(p) /\ n \in Nat /\ last \in 1 .. n
  /\ u \in Bytes /\ Len(u) = n
  /\ \A i \in 1 .. last - 1 : u[i] = p[i]
  /\ u[last] = p[last] + 1 /\ p[last] \in Nat
  /\ \A i \in last + 1 .. n : p[i] = ByteMax /\ u[i] = 0

(* That is what namespace_upper_bound returns.                               *)
LEMMA BoundOfNamespace ==
  ASSUME NEW p \in Bytes, NEW k \in 1 .. Len(p), p[k] # ByteMax
  PROVE  \E last : last >= k /\ UpperBound(namespace_upper_bound(p), p, Len(p), last)
<1>1. PICK n \in Nat : n = Len(p) /\ DOMAIN p = 1 .. n /\ \A i \in 1 .. n : p[i] \in Nat
  BY Zenon, SequenceType DEF Bytes
<1> DEFINE Q(i) == (i > 0 => p[i] # ByteMax) /\ \A j \in i + 1 .. Len(p) : p[j] = ByteMax
           last == CHOOSE i \in 0 .. Len(p) : Q(i)
           T == {d \in Nat : d < n /\ p[n - d] # ByteMax}
<1>2. \E i \in 0 .. Len(p) : Q(i)
  <2>1. n - k \in T
    BY <1>1
  <2>2. PICK d \in T : \A e \in T : d <= e
    <3>1. T \subseteq Nat /\ T # {}
      BY Zenon, <2>1
    <3> HIDE DEF T
    <3> QED
      BY Zenon, <3>1, LeastNatural
  <2>3. ASSUME NEW j \in (n - d) + 1 .. n PROVE p[j] = ByteMax
    <3>1. n - j \in Nat /\ n - j < n /\ n - (n - j) = j /\ ~(d <= n - j)
      BY <2>2
    <3> QED
      BY Zenon, <2>2, <3>1
  <2>4. n - d \in 0 .. n
    BY <2>2
  <2> QED
    BY Zenon, <1>1, <2>2, <2>3, <2>4
<1>3. last \in 0 .. Len(p) /\ Q(last)
  BY Zenon, <1>2
<1>4. namespace_upper_bound(p) =
        [i \in DOMAIN p |-> IF i > last THEN 0 ELSE IF i = last THEN p[i] + 1 ELSE p[i]]
  BY Zenon DEF namespace_upper_bound
<1>5. PICK l : l = last
  BY Zenon
<1>6. /\ l \in 0 .. n /\ (l > 0 => p[l] # ByteMax) /\ \A j \in l + 1 .. n : p[j] = ByteMax
      /\ namespace_upper_bound(p) =
           [i \in 1 .. n |-> IF i > l THEN 0 ELSE IF i = l THEN p[i] + 1 ELSE p[i]]
  BY Zenon, <1>1, <1>3, <1>4, <1>5
<1> HIDE DEF last, T
<1>7. l >= k /\ l \in 1 .. n
  BY <1>1, <1>6
<1>8. PICK u : u = namespace_upper_bound(p)
  BY Zenon
<1>9. u = [i \in 1 .. n |-> IF i > l THEN 0 ELSE IF i = l THEN p[i] + 1 ELSE p[i]]
  BY Zenon, <1>6, <1>8
<1>10. u \in [1 .. n -> Nat]
  <2>1. \A i \in 1 .. n : (IF i > l THEN 0 ELSE IF i = l THEN p[i] + 1 ELSE p[i]) \in Nat
    BY <1>1
  <2> QED
    BY Zenon, <1>9, <2>1
<1>11. u \in Bytes /\ Len(u) = n
  <2>1. u \in Bytes
    BY Zenon, <1>10, SequencesAreFunctions DEF Bytes
  <2>2. DOMAIN u = 1 .. n
    BY Zenon, <1>10
  <2> QED
    BY <2>1, <2>2 DEF Bytes
<1>12. /\ \A i \in 1 .. l - 1 : u[i] = p[i]
       /\ u[l] = p[l] + 1
       /\ \A i \in l + 1 .. n : u[i] = 0
  <2>1. /\ \A i \in 1 .. l - 1 : i \in 1 .. n /\ ~(i > l) /\ i # l
        /\ l \in 1 .. n /\ ~(l > l)
        /\ \A i \in l + 1 .. n : i \in 1 .. n /\ i > l
    BY <1>7
  <2> QED
    BY Zenon, <1>9, <2>1
<1>13. UpperBound(u, p, n, l)
  BY Zenon, <1>1, <1>6, <1>7, <1>11, <1>12 DEF UpperBound
<1> QED
  BY Zenon, <1>1, <1>7, <1>8, <1>13

(* Every key with the prefix comes before the bound.                         *)
LEMMA BeforeBound ==
  ASSUME NEW u, NEW p, NEW n, NEW last, UpperBound(u, p, n, last), NEW x \in Bytes
  PROVE  Less(p \o x, u)
<1>1. /\ p \in Bytes /\ n = Len(p) /\ n \in Nat /\ last \in 1 .. n /\ Len(u) = n
      /\ \A i \in 1 .. last - 1 : u[i] = p[i]
      /\ u[last] = p[last] + 1 /\ p[last] \in Nat
  BY Zenon DEF UpperBound
<1>2. PICK w, m : w = p \o x /\ m = Len(x)
  BY Zenon
<1>3. m \in Nat
  BY Zenon, <1>2, SequenceType DEF Bytes
<1>4. HasParts(w, p, n, x, m)
  BY Zenon, <1>1, <1>2, Joined DEF Joins
<1>5. Len(w) = n + m /\ \A i \in 1 .. n + m : w[i] = IF i <= n THEN p[i] ELSE x[i - n]
  BY Zenon, <1>4 DEF HasParts
<1>6. \A i \in 1 .. last : i <= n + m /\ w[i] = p[i]
  BY <1>1, <1>3, <1>5
<1>7. \A i \in 1 .. last - 1 : i <= Len(w) /\ w[i] = u[i]
  BY <1>1, <1>5, <1>6
<1>8. last <= Len(w) /\ w[last] < u[last]
  BY <1>1, <1>5, <1>6
<1>9. DiffersFrom(w, u, last)
  BY Zenon, <1>7, <1>8 DEF DiffersFrom
<1> QED
  BY Zenon, <1>1, <1>2, <1>9, LessAt

(* w has p at its start.                                                     *)
Agrees(w, p, n) == Len(w) >= n /\ \A i \in 1 .. n : w[i] = p[i]

(* w is shorter than p, and greater at the place where the bound is.         *)
Overtakes(w, p, n, last) ==
  /\ Len(w) \in last .. n - 1
  /\ \A i \in 1 .. last - 1 : w[i] = p[i]
  /\ w[last] = p[last] + 1

(* Between p and its bound are keys with the prefix, and perhaps short ones. *)
LEMMA BetweenBounds ==
  ASSUME NEW u, NEW p, NEW n, NEW last, UpperBound(u, p, n, last),
         NEW w \in Seq(0 .. ByteMax), ~Less(w, p), Less(w, u)
  PROVE  Agrees(w, p, n) \/ Overtakes(w, p, n, last)
<1>1. /\ p \in Bytes /\ n = Len(p) /\ n \in Nat /\ last \in 1 .. n /\ Len(u) = n
      /\ \A i \in 1 .. last - 1 : u[i] = p[i]
      /\ u[last] = p[last] + 1 /\ p[last] \in Nat
      /\ \A i \in last + 1 .. n : p[i] = ByteMax /\ u[i] = 0
  BY Zenon DEF UpperBound
<1>2. PICK m \in Nat : m = Len(w) /\ \A i \in 1 .. m : w[i] \in 0 .. ByteMax
  BY Zenon, SequenceType
<1>3. PICK i \in 1 .. n : DiffersFrom(w, u, i)
  BY Zenon, <1>1, LessAt
<1>4. \A j \in 1 .. n : ~DiffersFrom(w, p, j)
  BY Zenon, <1>1, LessAt
<1>5. /\ \A j \in 1 .. i - 1 : j <= m /\ w[j] = u[j]
      /\ i > m \/ (i <= m /\ w[i] < u[i])
  BY Zenon, <1>2, <1>3 DEF DiffersFrom
<1>6. ASSUME NEW k \in 1 .. n, \A j \in 1 .. k - 1 : j <= m /\ w[j] = p[j]
      PROVE  k <= m /\ ~(w[k] < p[k])
  <2>1. ~(k > m \/ (k <= m /\ w[k] < p[k]))
    BY Zenon, <1>2, <1>4, <1>6 DEF DiffersFrom
  <2> QED
    BY <2>1
<1>7. CASE i < last
  <2>1. \A j \in 1 .. i - 1 : j <= m /\ w[j] = p[j]
    BY <1>1, <1>5, <1>7
  <2>2. i <= m /\ ~(w[i] < p[i])
    BY Zenon, <1>6, <2>1
  <2>3. u[i] = p[i]
    BY <1>1, <1>7
  <2> QED
    BY <1>5, <2>2, <2>3
<1>8. CASE i = last
  <2>1. \A j \in 1 .. last - 1 : j <= m /\ w[j] = p[j]
    BY <1>1, <1>5, <1>8
  <2>2. last <= m /\ ~(w[last] < p[last])
    BY Zenon, <1>1, <1>6, <2>1
  <2>3. w[last] = p[last]
    BY <1>1, <1>2, <1>5, <1>8, <2>2
  <2> DEFINE T == {k \in Nat : k <= n => \A j \in 1 .. k : j <= m /\ w[j] = p[j]}
  <2>4. 0 \in T
    OBVIOUS
  <2>5. ASSUME NEW k \in Nat, k \in T PROVE k + 1 \in T
    <3> SUFFICES ASSUME k + 1 <= n PROVE \A j \in 1 .. k + 1 : j <= m /\ w[j] = p[j]
      OBVIOUS
    <3>1. \A j \in 1 .. k : j <= m /\ w[j] = p[j]
      BY <1>1, <2>5
    <3>2. k + 1 \in 1 .. n /\ (k + 1) - 1 = k
      BY <1>1
    <3>3. k + 1 <= m /\ ~(w[k + 1] < p[k + 1])
      BY Zenon, <1>6, <3>1, <3>2
    <3>4. w[k + 1] = p[k + 1]
      <4>1. CASE k + 1 < last
        BY <1>1, <2>1, <3>2, <4>1
      <4>2. CASE k + 1 = last
        BY <2>3, <4>2
      <4>3. CASE k + 1 > last
        <5>1. p[k + 1] = ByteMax /\ k + 1 \in 1 .. m
          BY <1>1, <3>2, <3>3, <4>3
        <5>2. w[k + 1] \in 0 .. ByteMax /\ ~(w[k + 1] < ByteMax)
          BY Zenon, <1>2, <3>3, <5>1
        <5> QED
          BY <5>1, <5>2, ByteMaxAssumption
      <4> QED
        BY <1>1, <4>1, <4>2, <4>3
    <3> QED
      BY <3>1, <3>3, <3>4
  <2>6. Nat \subseteq T
    <3> HIDE DEF T
    <3> QED
      BY Zenon, <2>4, <2>5, NaturalInduction
  <2>7. \A j \in 1 .. n : j <= m /\ w[j] = p[j]
    BY <1>1, <2>6
  <2>8. n <= m
    BY <1>1, <2>7
  <2> QED
    BY <1>2, <2>7, <2>8 DEF Agrees
<1>9. CASE i > last
  <2>1. u[i] = 0 /\ i \in 1 .. n
    BY <1>1, <1>9
  <2>2. i > m
    BY <1>2, <1>5, <2>1, ByteMaxAssumption
  <2>3. m \in last .. n - 1
    BY <1>1, <1>5, <1>9, <2>2
  <2>4. w[last] = p[last] + 1 /\ \A j \in 1 .. last - 1 : w[j] = p[j]
    BY <1>1, <1>5, <1>9
  <2> QED
    BY Zenon, <1>2, <2>3, <2>4 DEF Overtakes
<1> QED
  BY <1>1, <1>7, <1>8, <1>9
(* The length of a name with its length in front, and its second byte.       *)
LEMMA PrefixedLength ==
  ASSUME NEW s \in Bytes
  PROVE  /\ Len(to_length_prefixed(s)) = Len(s) + 2
         /\ to_length_prefixed(s)[2] \in 0 .. ByteMax
<1>1. PICK n \in Nat, b \in Nat : n = Len(s) /\ b = ByteMax + 1 /\ b > 0
  BY ByteMaxAssumption, SequenceType DEF Bytes
<1>2. PICK q \in Nat, r \in Nat : q = n \div b /\ r = n % b /\ r < b
  <2>1. n \div b \in Nat /\ n % b \in Nat /\ n % b < b
    BY <1>1
  <2> QED
    BY Zenon, <2>1
<1>3. <<q, r>> \in Bytes /\ Len(<<q, r>>) = 2 /\ <<q, r>>[2] = r
  BY <1>1, <1>2 DEF Bytes
<1>4. PICK e \in Bytes : e = <<q, r>> /\ Len(e) = 2 /\ e[2] = r
  BY Zenon, <1>3
<1>5. to_length_prefixed(s) = e \o s
  BY Zenon, <1>1, <1>2, <1>4 DEF to_length_prefixed, encode_length
<1>6. PICK p : p = e \o s /\ HasParts(p, e, 2, s, n)
  BY Zenon, <1>1, <1>4, Joined DEF Joins
<1>7. Len(p) = 2 + n /\ \A i \in 1 .. 2 + n : p[i] = IF i <= 2 THEN e[i] ELSE s[i - 2]
  BY Zenon, <1>6 DEF HasParts
<1>8. p[2] = r /\ Len(p) = n + 2 /\ r \in 0 .. ByteMax
  BY <1>1, <1>2, <1>4, <1>7, ByteMaxAssumption
<1> QED
  BY Zenon, <1>1, <1>5, <1>6, <1>8

(* A name whose length bytes, or whose bytes behind the same length, are     *)
(* greater is not shorter.                                                   *)
LEMMA GreaterIsLonger ==
  ASSUME NEW w, NEW q, NEW m, NEW u, NEW y, NameBehind(w, q, m, u, y),
         NEW name \in Bytes, NEW p, p = q \o to_length_prefixed(name),
         NEW last \in 1 .. Len(p), last > Len(q), last <= Len(w),
         \A i \in 1 .. last - 1 : w[i] = p[i], w[last] = p[last] + 1
  PROVE  Len(w) >= Len(p)
<1>1. q \in Bytes /\ u \in Bytes /\ w = q \o u /\ StartsWith(u, m, y)
  BY Zenon DEF NameBehind
<1>2. m \in Bytes /\ y \in Bytes /\ u = to_length_prefixed(m) \o y
  BY Zenon, <1>1 DEF StartsWith
<1>3. PICK z \in Bytes : z = to_length_prefixed(name)
  BY Zenon, PrefixedIsBytes
<1>4. PICK e \in Bytes : e = to_length_prefixed(m)
  BY Zenon, <1>2, PrefixedIsBytes
<1>5. PICK l, lm, ln, ly, lu, lz : /\ l = Len(q) /\ lm = Len(m) /\ ln = Len(name) /\ ly = Len(y)
                                   /\ lu = Len(u) /\ lz = Len(z)
  BY Zenon
<1>6. l \in Nat /\ lm \in Nat /\ ln \in Nat /\ ly \in Nat /\ lu \in Nat /\ lz \in Nat
  BY Zenon, <1>1, <1>2, <1>5, SequenceType DEF Bytes
<1>7. lz = ln + 2 /\ z[2] \in 0 .. ByteMax /\ Len(e) = lm + 2
  BY Zenon, <1>2, <1>3, <1>4, <1>5, PrefixedLength
<1>8. lu = (lm + 2) + ly
  <2>1. Len(e \o y) = Len(e) + Len(y)
    BY Zenon, <1>2, Concatenation DEF Bytes
  <2> QED
    BY Zenon, <1>2, <1>4, <1>5, <1>7, <2>1
<1>9. lm = (ByteMax + 1) * u[1] + u[2]
  BY Zenon, <1>1, <1>5, LengthIsRead
<1>10. ln = (ByteMax + 1) * z[1] + z[2]
  <2>1. <<>> \in Bytes /\ z = z \o <<>>
    BY Zenon, ConcatNothing, EmptySequence DEF Bytes
  <2>2. StartsWith(z, name, <<>>)
    BY Zenon, <1>3, <2>1 DEF StartsWith
  <2> QED
    BY Zenon, <1>5, <2>2, LengthIsRead
<1>11. HasParts(w, q, l, u, lu) /\ HasParts(p, q, l, z, lz)
  BY Zenon, <1>1, <1>3, <1>5, Joined DEF Joins
<1>12. /\ Len(w) = l + lu /\ \A i \in 1 .. l + lu : w[i] = IF i <= l THEN q[i] ELSE u[i - l]
       /\ Len(p) = l + lz /\ \A i \in 1 .. l + lz : p[i] = IF i <= l THEN q[i] ELSE z[i - l]
  BY Zenon, <1>11 DEF HasParts
<1>13. /\ \A i \in 1 .. lu : w[i + l] = u[i]
       /\ \A i \in 1 .. lz : p[i + l] = z[i]
  <2>1. /\ \A i \in 1 .. lu : i + l \in 1 .. l + lu /\ ~(i + l <= l) /\ (i + l) - l = i
        /\ \A i \in 1 .. lz : i + l \in 1 .. l + lz /\ ~(i + l <= l) /\ (i + l) - l = i
    BY <1>6
  <2> QED
    BY ZenonT(60), <1>12, <2>1
<1>14. w[1 + l] = u[1] /\ w[2 + l] = u[2] /\ p[1 + l] = z[1] /\ p[2 + l] = z[2]
  <2>1. 1 \in 1 .. lu /\ 2 \in 1 .. lu /\ 1 \in 1 .. lz /\ 2 \in 1 .. lz
    BY <1>6, <1>7, <1>8
  <2> QED
    BY Zenon, <1>13, <2>1
<1>15. PICK b \in Nat, u1 \in Nat, u2 \in Nat, z1 \in Nat, z2 \in Nat :
         /\ z2 < b
         /\ b = ByteMax + 1 /\ u1 = u[1] /\ u2 = u[2] /\ z1 = z[1] /\ z2 = z[2]
  <2>1. 1 \in 1 .. lu /\ 2 \in 1 .. lu /\ 1 \in 1 .. lz /\ 2 \in 1 .. lz
    BY <1>6, <1>7, <1>8
  <2>2. u[1] \in Nat /\ u[2] \in Nat /\ z[1] \in Nat /\ z[2] \in Nat
    BY ZenonT(60), <1>1, <1>5, <2>1, SequenceType DEF Bytes
  <2>3. ByteMax + 1 \in Nat /\ z[2] < ByteMax + 1
    BY SMTT(30), <1>7, <2>2, ByteMaxAssumption
  <2> QED
    BY Zenon, <2>2, <2>3
<1>16. lm = b * u1 + u2 /\ ln = b * z1 + z2
  BY Zenon, <1>9, <1>10, <1>15
<1>17. lm >= ln
  <2>1. CASE last = 1 + l
    <3>1. u1 = z1 + 1
      BY Zenon, <1>14, <1>15, <2>1
    <3>2. b * (z1 + 1) = b * z1 + b
      OBVIOUS
    <3>3. b * z1 \in Nat
      OBVIOUS
    <3>4. lm = (b * z1 + b) + u2
      BY Zenon, <1>16, <3>1, <3>2
    <3>5. PICK prod \in Nat : prod = b * z1
      BY Zenon, <3>3
    <3>6. lm = (prod + b) + u2 /\ ln = prod + z2
      BY Zenon, <1>16, <3>4, <3>5
    <3>7. z2 < b
      BY Zenon, <1>15
    <3> QED
      BY <3>6, <3>7
  <2>2. CASE last = 2 + l
    <3>1. 1 + l \in 1 .. last - 1
      BY <1>6, <2>2
    <3>2. u1 = z1 /\ u2 = z2 + 1
      BY Zenon, <1>14, <1>15, <2>2, <3>1
    <3>3. b * z1 \in Nat /\ lm = b * z1 + u2
      BY <1>16, <3>2
    <3> QED
      BY <1>16, <3>2, <3>3
  <2>3. CASE last > 2 + l
    <3>1. 1 + l \in 1 .. last - 1 /\ 2 + l \in 1 .. last - 1
      BY <1>6, <2>3
    <3>2. u1 = z1 /\ u2 = z2
      BY Zenon, <1>14, <1>15, <3>1
    <3>3. lm = ln
      BY Zenon, <1>16, <3>2
    <3> QED
      BY <1>6, <3>3
  <2> QED
    BY <1>5, <1>6, <1>12, <2>1, <2>2, <2>3
<1> QED
  BY <1>6, <1>7, <1>8, <1>12, <1>17

(* What is behind the prefix of a key.                                       *)
LEMMA TakeOff ==
  ASSUME NEW w \in Bytes, NEW p \in Bytes, NEW n, n = Len(p), Agrees(w, p, n)
  PROVE  \E x \in Bytes : w = p \o x
<1>1. PICK m \in Nat : m = Len(w) /\ n \in Nat /\ n <= m /\ \A i \in 1 .. m : w[i] \in Nat
  <2>1. Len(w) \in Nat /\ n \in Nat /\ \A i \in 1 .. Len(w) : w[i] \in Nat
    BY Zenon, SequenceType DEF Bytes
  <2>2. n <= Len(w)
    BY <2>1 DEF Agrees
  <2> QED
    BY Zenon, <2>1, <2>2
<1>2. PICK x : x = [i \in 1 .. m - n |-> w[i + n]]
  BY Zenon
<1>3. x \in Bytes /\ Len(x) = m - n
  <2>1. m - n \in Nat /\ \A i \in 1 .. m - n : i + n \in 1 .. m
    BY <1>1
  <2>2. x \in [1 .. m - n -> Nat] /\ DOMAIN x = 1 .. m - n
    BY Zenon, <1>1, <1>2, <2>1
  <2>3. x \in Bytes
    BY Zenon, <2>1, <2>2, SequencesAreFunctions DEF Bytes
  <2>4. DOMAIN x = 1 .. Len(x) /\ Len(x) \in Nat
    BY Zenon, <2>3, SequenceType DEF Bytes
  <2>5. Len(x) = m - n
    BY <2>1, <2>2, <2>4
  <2> QED
    BY Zenon, <2>3, <2>5
<1>4. PICK v : v = p \o x /\ HasParts(v, p, n, x, m - n)
  BY Zenon, <1>1, <1>3, Joined DEF Joins
<1>5. /\ v \in Bytes /\ Len(v) = n + (m - n)
      /\ \A i \in 1 .. n + (m - n) : v[i] = IF i <= n THEN p[i] ELSE x[i - n]
  BY Zenon, <1>4 DEF HasParts
<1>6. n + (m - n) = m
  BY <1>1
<1>7. ASSUME NEW i \in 1 .. m PROVE w[i] = v[i]
  <2>1. CASE i <= n
    <3>1. i \in 1 .. n
      BY <1>1, <2>1
    <3> QED
      BY Zenon, <1>5, <1>6, <2>1, <3>1 DEF Agrees
  <2>2. CASE ~(i <= n)
    <3>1. i - n \in 1 .. m - n /\ (i - n) + n = i
      BY <1>1, <2>2
    <3> QED
      BY Zenon, <1>2, <1>5, <1>6, <2>2, <3>1
  <2> QED
    BY Zenon, <2>1, <2>2
<1>8. w = v
  BY Zenon, <1>1, <1>5, <1>6, <1>7, SameSequence DEF Bytes
<1> QED
  BY Zenon, <1>3, <1>4, <1>8
(* The first levels of an area are an area.                                  *)
OuterArea(c, h, a, f, k) ==
  /\ IsArea(c) /\ Levels(h, c) /\ Len(c) = k /\ h[k] = f[k]
  /\ \A i \in 1 .. k : c[i] = a[i]

LEMMA OuterLevels ==
  ASSUME NEW a, IsArea(a), NEW f, Levels(f, a), NEW k, k \in 1 .. Len(a) - 1
  PROVE  \E c, h : OuterArea(c, h, a, f, k)
<1>1. PICK n \in Nat : n = Len(a) /\ k \in Nat /\ k < n /\ k > 0
  <2>1. Len(a) \in Nat
    BY Zenon, SequenceType DEF IsArea
  <2>2. k \in Nat /\ k < Len(a) /\ k > 0
    BY <2>1
  <2> QED
    BY Zenon, <2>1, <2>2
<1>2. PICK c, h : c = [i \in 1 .. k |-> a[i]] /\ h = [i \in 0 .. k |-> f[i]]
  BY Zenon
<1>3. /\ \A i \in 1 .. k : i \in 1 .. n /\ i \in 0 .. k /\ i - 1 \in 0 .. k
      /\ \A i \in 0 .. k : i \in 0 .. n
      /\ 0 \in 0 .. k /\ k \in 0 .. k
  BY <1>1
<1>4. \A i \in 1 .. k : a[i] \in Bytes
  BY Zenon, <1>1, <1>3, ElementType DEF IsArea
<1>5. c \in [1 .. k -> Bytes] /\ DOMAIN c = 1 .. k
  BY Zenon, <1>2, <1>4
<1>6. c \in Seq(Bytes)
  BY Zenon, <1>1, <1>5, SequencesAreFunctions
<1>7. Len(c) = k
  <2>1. Len(c) \in Nat /\ DOMAIN c = 1 .. Len(c)
    BY Zenon, <1>6, SequenceType
  <2> QED
    BY <1>1, <1>5, <2>1
<1>8. IsArea(c)
  <2>1. c # <<>>
    BY <1>1, <1>7
  <2> QED
    BY Zenon, <1>6, <2>1 DEF IsArea
<1>9. /\ f \in [0 .. n -> Bytes] /\ f[0] = <<>>
      /\ \A i \in 1 .. n : f[i] = f[i - 1] \o to_length_prefixed(a[i])
  BY Zenon, <1>1 DEF Levels
<1>10. h \in [0 .. k -> Bytes] /\ h[0] = <<>>
  BY Zenon, <1>2, <1>3, <1>9
<1>11. \A i \in 1 .. k : h[i] = h[i - 1] \o to_length_prefixed(c[i])
  BY Zenon, <1>2, <1>3, <1>9
<1>12. Levels(h, c)
  BY Zenon, <1>7, <1>10, <1>11 DEF Levels
<1>13. h[k] = f[k] /\ \A i \in 1 .. k : c[i] = a[i]
  BY Zenon, <1>2, <1>3
<1> QED
  BY Zenon, <1>7, <1>8, <1>12, <1>13 DEF OuterArea

(* A singleton is the one key of an area of its own.                         *)
AllNames == Singletons \cup {SequenceName}
Spaces == Areas \cup {<<name>> : name \in AllNames}

LEMMA SpacesAreAreas ==
  ASSUME NEW b \in Spaces
  PROVE  IsArea(b) /\ Len(b) \in Nat /\ Len(b) >= 1
<1>1. ASSUME b \in Areas PROVE IsArea(b)
  BY Zenon, <1>1, NamesAreBytes
<1>2. ASSUME NEW name \in AllNames, b = <<name>> PROVE IsArea(b)
  <2>1. name \in Bytes
    BY Zenon, NamesAreBytes DEF AllNames
  <2> QED
    BY <1>2, <2>1 DEF IsArea
<1>3. IsArea(b)
  BY Zenon, <1>1, <1>2 DEF Spaces
<1>4. Len(b) \in Nat \ {0}
  BY Zenon, <1>3, EmptySequence DEF IsArea
<1> QED
  BY <1>3, <1>4

LEMMA SpacesApart ==
  ASSUME NEW a \in Areas, NEW b \in Spaces, Within(a, b) \/ Within(b, a)
  PROVE  a = b
<1>1. CASE b \in Areas
  BY Zenon, <1>1, AreasApart
<1>2. ASSUME NEW name \in AllNames, b = <<name>> PROVE FALSE
  <2>1. Len(a) \in Nat /\ Len(a) >= 1 /\ Len(b) \in Nat /\ Len(b) >= 1
    BY Zenon, SpacesAreAreas DEF Spaces
  <2>2. 1 \in 1 .. Len(a) /\ 1 \in 1 .. Len(b)
    BY <2>1
  <2>3. a[1] = b[1]
    BY Zenon, <2>2 DEF Within
  <2>4. b[1] = name
    BY <1>2
  <2> QED
    BY Zenon, <2>3, <2>4, AreasApart DEF AllNames
<1> QED
  BY Zenon, <1>1, <1>2 DEF Spaces

(* No key of any area or singleton is shorter than the prefix of an area and *)
(* greater at a place of its last level.                                     *)
LEMMA NoneOvertakes ==
  ASSUME NEW a \in Areas, NEW f, Levels(f, a), NEW k, k = Len(a), NEW p, p = f[k],
         NEW b \in Spaces, NEW w, NEW g, NEW y, KeyIn(w, g, b, y),
         NEW last \in 1 .. Len(p), last > Len(f[k - 1]), Overtakes(w, p, Len(p), last)
  PROVE  FALSE
<1>1. IsArea(a) /\ k \in Nat /\ k >= 1 /\ IsArea(b) /\ Len(b) \in Nat /\ Len(b) >= 1
  BY Zenon, SpacesAreAreas DEF Spaces
<1>2. k \in 1 .. k /\ k - 1 \in 0 .. k /\ k \in 0 .. k
  BY <1>1
<1>3. PICK q \in Bytes : q = f[k - 1]
  BY Zenon, <1>2 DEF Levels
<1>4. PICK l \in Nat : l = Len(q)
  BY Zenon, SequenceType DEF Bytes
<1>5. p = q \o to_length_prefixed(a[k]) /\ p \in Bytes /\ a[k] \in Bytes
  <2>1. a[k] \in Bytes
    BY Zenon, <1>1, <1>2, ElementType DEF IsArea
  <2> QED
    BY Zenon, <1>2, <1>3, <2>1 DEF Levels
<1>6. PICK n \in Nat : n = Len(p) /\ last \in 1 .. n /\ last > l
  BY Zenon, <1>3, <1>4, <1>5, SequenceType DEF Bytes
<1>7. /\ Len(w) \in last .. n - 1
      /\ \A i \in 1 .. last - 1 : w[i] = p[i]
      /\ w[last] = p[last] + 1
  BY Zenon, <1>6 DEF Overtakes
<1>8. w \in Bytes
  <2>1. Len(b) \in 0 .. Len(b)
    BY <1>1
  <2>2. g[Len(b)] \in Bytes /\ y \in Bytes /\ w = g[Len(b)] \o y
    BY Zenon, <2>1 DEF KeyIn, Levels
  <2> QED
    BY Zenon, <2>2, Concatenation DEF Bytes
<1>9. PICK v \in Bytes : w = q \o v
  <2>1. PICK e \in Bytes : e = to_length_prefixed(a[k])
    BY Zenon, <1>5, PrefixedIsBytes
  <2>2. PICK m \in Nat : m = Len(e)
    BY Zenon, SequenceType DEF Bytes
  <2>3. HasParts(p, q, l, e, m)
    BY Zenon, <1>4, <1>5, <2>1, <2>2, Joined DEF Joins
  <2>4. n = l + m /\ \A i \in 1 .. l + m : p[i] = IF i <= l THEN q[i] ELSE e[i - l]
    BY Zenon, <1>6, <2>3 DEF HasParts
  <2>5. ASSUME NEW i \in 1 .. l PROVE w[i] = q[i]
    <3>1. i \in 1 .. last - 1 /\ i \in 1 .. l + m /\ i <= l
      BY <1>6
    <3> QED
      BY Zenon, <1>7, <2>4, <3>1
  <2>6. Len(w) >= l
    BY <1>6, <1>7
  <2>7. Agrees(w, q, l)
    BY Zenon, <2>5, <2>6 DEF Agrees
  <2> QED
    BY Zenon, <1>4, <1>8, <2>7, TakeOff
<1>10. CASE Len(b) >= k /\ g[k - 1] = q
  <2>1. k \in 1 .. Len(b)
    BY <1>1, <1>10
  <2>2. PICK u, z : NameBehind(w, q, b[k], u, z)
    BY Zenon, <1>10, <2>1, NextLevel
  <2>3. last \in 1 .. Len(p) /\ last > Len(q) /\ last <= Len(w)
    BY <1>4, <1>6, <1>7
  <2>4. Len(w) >= Len(p)
    BY Zenon, <1>5, <1>7, <2>2, <2>3, GreaterIsLonger
  <2> QED
    BY <1>6, <1>7, <2>4
<1>11. CASE k = 1
  <2>1. k - 1 = 0
    BY <1>11
  <2>2. g[k - 1] = q
    BY Zenon, <1>3, <2>1 DEF Levels, KeyIn
  <2> QED
    BY Zenon, <1>1, <1>10, <1>11, <2>2
<1>12. CASE k > 1
  <2>1. k - 1 \in 1 .. Len(a) - 1 /\ k - 1 \in Nat
    BY <1>1, <1>12
  <2>2. PICK c, h : OuterArea(c, h, a, f, k - 1)
    BY Zenon, <1>1, <2>1, OuterLevels
  <2>3. /\ IsArea(c) /\ Levels(h, c) /\ Len(c) = k - 1 /\ h[k - 1] = f[k - 1]
        /\ \A i \in 1 .. k - 1 : c[i] = a[i]
    BY Zenon, <2>2 DEF OuterArea
  <2>4. KeyIn(w, h, c, v)
    BY Zenon, <1>3, <1>9, <2>3 DEF KeyIn
  <2>5. CASE Len(b) >= k
    <3>1. Len(c) <= Len(b)
      BY <1>1, <2>3, <2>5
    <3>2. h[Len(c)] = g[Len(c)]
      BY Zenon, <2>4, <3>1, LevelsAgree
    <3>3. g[k - 1] = q
      BY Zenon, <1>3, <2>3, <3>2
    <3> QED
      BY Zenon, <1>10, <2>5, <3>3
  <2>6. CASE Len(b) < k
    <3>1. Len(b) <= Len(c) /\ Len(b) <= Len(a)
      BY <1>1, <2>3, <2>6
    <3>2. Within(c, b)
      BY Zenon, <2>4, <3>1, LevelsAgree
    <3>3. ASSUME NEW i \in 1 .. Len(b) PROVE a[i] = b[i]
      <4>1. i \in 1 .. k - 1
        BY <1>1, <2>6
      <4> QED
        BY Zenon, <2>3, <3>2, <4>1 DEF Within
    <3>4. Within(a, b)
      BY Zenon, <3>1, <3>3 DEF Within
    <3>5. a = b
      BY Zenon, <3>4, SpacesApart
    <3> QED
      BY <1>1, <2>6, <3>5
  <2> QED
    BY <1>1, <2>5, <2>6
<1> QED
  BY <1>1, <1>11, <1>12
(* Prefixes consist of bytes: lengths fit the two bytes they are put in.     *)
ByteStrings == Seq(0 .. ByteMax)

LEMMA PrefixedIsByteString ==
  ASSUME NEW s \in ByteStrings, Len(s) < (ByteMax + 1) * (ByteMax + 1)
  PROVE  to_length_prefixed(s) \in ByteStrings
<1>1. PICK n \in Nat, b \in Nat : n = Len(s) /\ b = ByteMax + 1 /\ b > 0
  BY ByteMaxAssumption, SequenceType DEF ByteStrings
<1>2. /\ n \div b \in Nat /\ n % b \in Nat
      /\ n = b * (n \div b) + (n % b)
  BY ZenonT(60), <1>1, QuotientAndRest
<1>3. PICK q \in Nat, r \in Nat : q = n \div b /\ r = n % b /\ n = b * q + r
  BY Zenon, <1>2
<1>4. r < b
  <2>1. n % b < b
    BY <1>1
  <2> QED
    BY Zenon, <1>3, <2>1
<1>5. n < b * b
  BY Zenon, <1>1
<1>6. q < b
  <2> SUFFICES ASSUME q >= b PROVE FALSE
    OBVIOUS
  <2>1. PICK d \in Nat : q = b + d
    <3>1. q - b \in Nat /\ q = b + (q - b)
      OBVIOUS
    <3> QED
      BY Zenon, <3>1
  <2>2. b * (b + d) = b * b + b * d
    OBVIOUS
  <2>3. PICK bb \in Nat, bd \in Nat : bb = b * b /\ bd = b * d
    <3>1. b * b \in Nat /\ b * d \in Nat
      OBVIOUS
    <3> QED
      BY Zenon, <3>1
  <2>4. n = (bb + bd) + r /\ n < bb
    BY Zenon, <1>3, <1>5, <2>1, <2>2, <2>3
  <2> QED
    BY <2>4
<1>7. q \in 0 .. ByteMax /\ r \in 0 .. ByteMax
  BY <1>1, <1>4, <1>6, ByteMaxAssumption
<1>8. <<q, r>> \in ByteStrings
  BY <1>7 DEF ByteStrings
<1>9. to_length_prefixed(s) = <<q, r>> \o s
  BY Zenon, <1>1, <1>3 DEF to_length_prefixed, encode_length
<1> QED
  BY Zenon, <1>8, <1>9, Concatenation DEF ByteStrings

LEMMA SpacesHaveBytes ==
  ASSUME NEW b \in Spaces, NEW k \in 1 .. Len(b)
  PROVE  to_length_prefixed(b[k]) \in ByteStrings
<1>1. CASE b \in Areas
  <2>1. b \in Seq(ByteStrings)
    BY Zenon, <1>1, NamesAssumption DEF ByteStrings
  <2>2. b[k] \in ByteStrings /\ k \in DOMAIN b
    BY Zenon, <2>1, SequenceType
  <2> QED
    BY Zenon, <1>1, <2>2, LengthsAssumption, PrefixedIsByteString
<1>2. ASSUME NEW name \in AllNames, b = <<name>> PROVE to_length_prefixed(b[k]) \in ByteStrings
  <2>1. b[k] = name
    BY <1>2
  <2>2. name \in ByteStrings /\ Len(name) < (ByteMax + 1) * (ByteMax + 1)
    BY Zenon, NamesAssumption, LengthsAssumption DEF ByteStrings, AllNames
  <2> QED
    BY Zenon, <2>1, <2>2, PrefixedIsByteString
<1> QED
  BY Zenon, <1>1, <1>2 DEF Spaces

LEMMA LevelsHaveBytes ==
  ASSUME NEW b \in Spaces, NEW g, Levels(g, b)
  PROVE  g[Len(b)] \in ByteStrings
<1>1. PICK n \in Nat : n = Len(b)
  BY Zenon, SpacesAreAreas
<1>2. /\ g[0] = <<>>
      /\ \A k \in 1 .. n : g[k] = g[k - 1] \o to_length_prefixed(b[k])
  BY Zenon, <1>1 DEF Levels
<1> DEFINE T == {k \in Nat : k <= n => g[k] \in ByteStrings}
<1>3. 0 \in T
  <2>1. 0 \in Nat /\ g[0] \in ByteStrings
    BY <1>2 DEF ByteStrings
  <2> QED
    BY Zenon, <2>1
<1>4. ASSUME NEW k \in Nat, k \in T PROVE k + 1 \in T
  <2>1. k + 1 \in Nat
    OBVIOUS
  <2>2. ASSUME k + 1 <= n PROVE g[k + 1] \in ByteStrings
    <3>1. k <= n /\ k + 1 \in 1 .. n /\ (k + 1) - 1 = k
      BY <2>2
    <3>2. g[k] \in ByteStrings
      BY Zenon, <1>4, <3>1
    <3>3. g[k + 1] = g[k] \o to_length_prefixed(b[k + 1])
      BY Zenon, <1>2, <3>1
    <3>4. to_length_prefixed(b[k + 1]) \in ByteStrings
      BY Zenon, <1>1, <3>1, SpacesHaveBytes
    <3> QED
      BY Zenon, <3>2, <3>3, <3>4, Concatenation DEF ByteStrings
  <2> QED
    BY Zenon, <2>1, <2>2
<1>5. Nat \subseteq T
  <2> HIDE DEF T
  <2> QED
    BY Zenon, <1>3, <1>4, NaturalInduction
<1>6. n <= n
  OBVIOUS
<1>7. n \in T
  BY Zenon, <1>5
<1> QED
  BY Zenon, <1>1, <1>6, <1>7

--------------------------------------------------------------------------------
(* w is the key of an entry of an area, or of a singleton.                   *)
InSpace(w, b, g, y) ==
  /\ b \in Spaces /\ KeyIn(w, g, b, y) /\ w \in ByteStrings
  /\ b \in Areas => y \in Keys

IsPlace(w) == \E b, g, y : InSpace(w, b, g, y)

LEMMA PlacesAreBytes ==
  ASSUME NEW w, IsPlace(w)
  PROVE  w \in ByteStrings /\ w \in Bytes
<1>1. w \in ByteStrings
  BY Zenon DEF IsPlace, InSpace
<1>2. 0 .. ByteMax \subseteq Nat
  BY ByteMaxAssumption
<1> QED
  BY Zenon, <1>1, <1>2, LargerSequences DEF ByteStrings, Bytes

LEMMA EntriesArePlaces ==
  ASSUME NEW area \in Areas, NEW key \in Keys
  PROVE  IsPlace(PlaceOf(area, key))
<1>1. IsArea(area) /\ key \in Bytes /\ area \in Spaces
  BY Zenon, NamesAreBytes DEF Spaces
<1>2. PICK g : Levels(g, area) /\ Prefix(area) = g[Len(area)]
  BY Zenon, <1>1, PrefixHasLevels
<1>3. KeyIn(PlaceOf(area, key), g, area, key)
  BY Zenon, <1>1, <1>2 DEF KeyIn, PlaceOf, concat
<1>4. g[Len(area)] \in ByteStrings /\ key \in ByteStrings
  BY Zenon, <1>1, <1>2, LevelsHaveBytes, NamesAssumption DEF ByteStrings
<1>5. PlaceOf(area, key) \in ByteStrings
  BY Zenon, <1>2, <1>4, Concatenation DEF PlaceOf, concat, ByteStrings
<1>6. InSpace(PlaceOf(area, key), area, g, key)
  BY Zenon, <1>1, <1>3, <1>5 DEF InSpace
<1> QED
  BY Zenon, <1>6 DEF IsPlace

LEMMA SingletonsArePlaces ==
  ASSUME NEW name \in AllNames
  PROVE  IsPlace(SingletonKey(name))
<1>1. PICK b : b = <<name>> /\ Len(b) = 1 /\ b[1] = name
  <2>1. Len(<<name>>) = 1 /\ <<name>>[1] = name
    OBVIOUS
  <2> QED
    BY Zenon, <2>1
<1>2. b \in Spaces /\ b \notin Areas
  BY Zenon, <1>1, AreasApart DEF Spaces, AllNames
<1>3. PICK g : Levels(g, b) /\ Prefix(b) = g[Len(b)]
  BY Zenon, <1>2, SpacesAreAreas, PrefixHasLevels
<1>4. g[Len(b)] = SingletonKey(name)
  BY Zenon, <1>1, <1>3 DEF Prefix, SingletonKey
<1>5. SingletonKey(name) \in ByteStrings
  BY Zenon, <1>2, <1>3, <1>4, LevelsHaveBytes
<1>6. PICK w : w = SingletonKey(name) /\ w \in ByteStrings
  BY Zenon, <1>5
<1>7. <<>> \in Bytes /\ w = w \o <<>>
  BY Zenon, <1>6, ConcatNothing, EmptySequence DEF Bytes, ByteStrings
<1>8. KeyIn(w, g, b, <<>>)
  BY Zenon, <1>2, <1>3, <1>4, <1>6, <1>7, SpacesAreAreas DEF KeyIn
<1>9. InSpace(w, b, g, <<>>)
  BY Zenon, <1>2, <1>6, <1>8 DEF InSpace
<1> QED
  BY Zenon, <1>6, <1>9 DEF IsPlace
(* The keys of an area are those of the places between its prefix and the    *)
(* upper bound of the prefix.                                                *)
Delimits(from, to, a) ==
  /\ from \in Bytes /\ to \in Bytes
  /\ \A x \in Bytes : ~Less(from \o x, from) /\ Less(from \o x, to)
  /\ \A w : IsPlace(w) /\ ~Less(w, from) /\ Less(w, to) => \E key \in Keys : w = from \o key

LEMMA LastLevelBounds ==
  ASSUME NEW a \in Areas, NEW f, Levels(f, a), NEW k, k = Len(a), NEW p, p = f[k]
  PROVE  \E last : /\ last > Len(f[k - 1])
                   /\ UpperBound(namespace_upper_bound(p), p, Len(p), last)
<1>1. IsArea(a) /\ k \in Nat /\ k >= 1
  BY Zenon, SpacesAreAreas DEF Spaces
<1>2. k \in 1 .. k /\ k - 1 \in 0 .. k /\ k \in 0 .. k
  BY <1>1
<1>3. PICK q \in Bytes : q = f[k - 1]
  BY Zenon, <1>2 DEF Levels
<1>4. a[k] \in Bytes /\ k \in DOMAIN a
  BY Zenon, <1>1, <1>2, SequenceType DEF IsArea
<1>5. PICK e \in Bytes : e = to_length_prefixed(a[k])
  BY Zenon, <1>4, PrefixedIsBytes
<1>6. PICK l \in Nat, m \in Nat : l = Len(q) /\ m = Len(e) /\ DOMAIN e = 1 .. m
  BY Zenon, SequenceType DEF Bytes
<1>7. PICK i \in 1 .. m : e[i] # ByteMax
  BY Zenon, <1>4, <1>5, <1>6, LengthsAssumption
<1>8. p = q \o e
  BY Zenon, <1>2, <1>3, <1>5 DEF Levels
<1>9. HasParts(p, q, l, e, m)
  BY Zenon, <1>6, <1>8, Joined DEF Joins
<1>10. /\ p \in Bytes /\ Len(p) = l + m
       /\ \A j \in 1 .. l + m : p[j] = IF j <= l THEN q[j] ELSE e[j - l]
  BY Zenon, <1>9 DEF HasParts
<1>11. PICK j : j = i + l /\ j \in 1 .. l + m /\ ~(j <= l) /\ j - l = i
  <2>1. i + l \in 1 .. l + m /\ ~(i + l <= l) /\ (i + l) - l = i
    OBVIOUS
  <2> QED
    BY Zenon, <2>1
<1>12. p[j] # ByteMax /\ j \in 1 .. Len(p)
  BY Zenon, <1>7, <1>10, <1>11
<1>13. PICK last : last >= j /\ UpperBound(namespace_upper_bound(p), p, Len(p), last)
  BY Zenon, <1>10, <1>12, BoundOfNamespace
<1>14. last \in 1 .. Len(p)
  BY Zenon, <1>13 DEF UpperBound
<1>15. last > l
  BY <1>10, <1>11, <1>13, <1>14
<1> QED
  BY Zenon, <1>3, <1>6, <1>13, <1>15

LEMMA AreaIsDelimited ==
  ASSUME NEW a \in Areas
  PROVE  Delimits(Prefix(a), namespace_upper_bound(Prefix(a)), a)
<1>1. IsArea(a) /\ Len(a) \in Nat /\ Len(a) >= 1
  BY Zenon, SpacesAreAreas DEF Spaces
<1>2. PICK f : Levels(f, a) /\ Prefix(a) = f[Len(a)]
  BY Zenon, <1>1, PrefixHasLevels
<1>3. PICK k, p, to : k = Len(a) /\ p = Prefix(a) /\ p = f[k] /\ to = namespace_upper_bound(p)
  BY Zenon, <1>2
<1>4. PICK last : last > Len(f[k - 1]) /\ UpperBound(to, p, Len(p), last)
  BY Zenon, <1>2, <1>3, LastLevelBounds
<1>5. p \in Bytes /\ to \in Bytes /\ last \in 1 .. Len(p)
  BY Zenon, <1>4 DEF UpperBound
<1>6. ASSUME NEW x \in Bytes PROVE ~Less(p \o x, p) /\ Less(p \o x, to)
  BY Zenon, <1>4, <1>5, NotBeforePrefix, BeforeBound
<1>7. ASSUME NEW w, IsPlace(w), ~Less(w, p), Less(w, to)
      PROVE  \E key \in Keys : w = p \o key
  <2>1. PICK b, g, y : InSpace(w, b, g, y)
    BY Zenon, <1>7 DEF IsPlace
  <2>2. b \in Spaces /\ KeyIn(w, g, b, y) /\ (b \in Areas => y \in Keys)
    BY Zenon, <2>1 DEF InSpace
  <2>3. w \in Seq(0 .. ByteMax) /\ w \in Bytes
    BY Zenon, <1>7, PlacesAreBytes DEF ByteStrings
  <2>4. Agrees(w, p, Len(p)) \/ Overtakes(w, p, Len(p), last)
    BY Zenon, <1>4, <1>7, <2>3, BetweenBounds
  <2>5. ~Overtakes(w, p, Len(p), last)
    BY Zenon, <1>2, <1>3, <1>4, <1>5, <2>2, NoneOvertakes
  <2>6. PICK x \in Bytes : w = p \o x
    BY Zenon, <1>5, <2>3, <2>4, <2>5, TakeOff
  <2>7. KeyIn(w, f, a, x)
    BY Zenon, <1>1, <1>2, <1>3, <2>6 DEF KeyIn
  <2>8. Len(b) \in Nat
    BY Zenon, <2>2, SpacesAreAreas
  <2>9. Len(a) <= Len(b) \/ Len(b) <= Len(a)
    BY <1>1, <2>8
  <2>10. Within(b, a) \/ Within(a, b)
    BY Zenon, <2>2, <2>7, <2>9, LevelsAgree
  <2>11. a = b
    BY Zenon, <2>2, <2>10, SpacesApart
  <2>12. f[Len(a)] = g[Len(a)]
    <3>1. Len(a) <= Len(a)
      BY <1>1
    <3> QED
      BY Zenon, <2>2, <2>7, <2>11, <3>1, LevelsAgree
  <2>13. w = p \o y /\ y \in Bytes /\ y \in Keys
    BY Zenon, <1>3, <2>2, <2>11, <2>12 DEF KeyIn
  <2> QED
    BY Zenon, <2>13
<1> QED
  BY Zenon, <1>3, <1>5, <1>6, <1>7 DEF Delimits
--------------------------------------------------------------------------------
(* Two listings of the same keys in the same order are the same.             *)
Before(order, x, y) == IF order = "Ascending" THEN Less(x, y) ELSE Less(y, x)

Listing(s, K, n, order) ==
  /\ \A i \in 1 .. n : s[i] \in K
  /\ \A k \in K : \E i \in 1 .. n : s[i] = k
  /\ \A i, j \in 1 .. n : i < j => Before(order, s[i], s[j])

LEMMA BeforeIsStrict ==
  ASSUME NEW order, NEW x \in Bytes, NEW y \in Bytes, Before(order, x, y)
  PROVE  x # y /\ ~Before(order, y, x)
<1>1. CASE order = "Ascending"
  <2>1. Less(x, y)
    BY Zenon, <1>1 DEF Before
  <2>2. ~Less(y, x)
    BY Zenon, <2>1, LessTransitive, LessIrreflexive DEF Bytes
  <2> QED
    BY Zenon, <1>1, <2>1, <2>2 DEF Before
<1>2. CASE order # "Ascending"
  <2>1. Less(y, x)
    BY Zenon, <1>2 DEF Before
  <2>2. ~Less(x, y)
    BY Zenon, <2>1, LessTransitive, LessIrreflexive DEF Bytes
  <2> QED
    BY Zenon, <1>2, <2>1, <2>2 DEF Before
<1> QED
  BY Zenon, <1>1, <1>2

(* Where a listing has an element that the other one has not had before, the *)
(* other one has it later.                                                   *)
LEMMA ListedLater ==
  ASSUME NEW K, K \subseteq Bytes, NEW n \in Nat, NEW order, NEW s, NEW t,
         Listing(s, K, n, order), Listing(t, K, n, order),
         NEW i \in 1 .. n, s[i] # t[i], \A j \in 1 .. i - 1 : s[j] = t[j]
  PROVE  Before(order, t[i], s[i])
<1>1. s[i] \in K /\ t[i] \in K
  BY Zenon DEF Listing
<1>2. PICK j \in 1 .. n : t[j] = s[i]
  BY Zenon, <1>1 DEF Listing
<1>3. j # i
  BY Zenon, <1>2
<1>4. ~(j < i)
  <2> SUFFICES ASSUME j < i PROVE FALSE
    BY Zenon
  <2>1. j \in 1 .. i - 1
    OBVIOUS
  <2>2. s[j] = s[i]
    BY Zenon, <1>2, <2>1
  <2>3. Before(order, s[j], s[i]) /\ s[j] \in K
    BY Zenon DEF Listing
  <2> QED
    BY Zenon, <1>1, <2>2, <2>3, BeforeIsStrict
<1>5. i < j
  BY <1>3, <1>4
<1> QED
  BY Zenon, <1>2, <1>5 DEF Listing

Alike(s, t, n) == \A i \in 1 .. n : s[i] = t[i]

LEMMA OneListing ==
  ASSUME NEW K, K \subseteq Bytes, NEW n \in Nat, NEW order, NEW s, NEW t,
         Listing(s, K, n, order), Listing(t, K, n, order)
  PROVE  Alike(s, t, n)
<1> DEFINE T == {i \in 1 .. n : s[i] # t[i]}
<1>1. T = {} => Alike(s, t, n)
  BY Zenon DEF Alike
<1>2. ASSUME T # {} PROVE FALSE
  <2>1. T \subseteq Nat
    OBVIOUS
  <2>2. PICK i \in T : \A j \in T : i <= j
    <3> HIDE DEF T
    <3> QED
      BY Zenon, <1>2, <2>1, LeastNatural
  <2>3. i \in 1 .. n /\ s[i] # t[i] /\ t[i] # s[i]
    BY Zenon
  <2>4. ASSUME NEW j \in 1 .. i - 1 PROVE s[j] = t[j] /\ t[j] = s[j]
    <3>1. j \in 1 .. n /\ ~(i <= j)
      BY <2>3
    <3> QED
      BY Zenon, <2>2, <3>1
  <2>5. Before(order, t[i], s[i]) /\ Before(order, s[i], t[i])
    BY Zenon, <2>3, <2>4, ListedLater
  <2>6. s[i] \in Bytes /\ t[i] \in Bytes
    BY Zenon, <2>3 DEF Listing
  <2> QED
    BY Zenon, <2>5, <2>6, BeforeIsStrict
<1> QED
  BY Zenon, <1>1, <1>2

--------------------------------------------------------------------------------
(* Every key of the storage is that of an entry or of a singleton.           *)
StoredInv == IsFiniteSet(DOMAIN data) /\ \A w \in DOMAIN data : IsPlace(w)

(* own is what an area with prefix p has of the storage.                     *)
OwnRecords(own, p) ==
  /\ DOMAIN own = {k \in Keys : p \o k \in DOMAIN data}
  /\ \A k \in DOMAIN own : own[k] = data[p \o k]

LEMMA StoredIsStorage ==
  ASSUME StoredInv
  PROVE  Storage(data)
BY Zenon, PlacesAreBytes DEF StoredInv, Storage, Bytes

LEMMA OwnIsStorage ==
  ASSUME StoredInv, NEW p \in Bytes, NEW own, OwnRecords(own, p)
  PROVE  Storage(own)
<1>1. \A k \in DOMAIN own : k \in Bytes /\ p \o k \in DOMAIN data
  BY Zenon, NamesAreBytes DEF OwnRecords
<1>2. PICK f : f = [k \in DOMAIN own |-> p \o k]
  BY Zenon
<1>3. f \in [DOMAIN own -> DOMAIN data]
  BY Zenon, <1>1, <1>2
<1>4. \A x, y \in DOMAIN own : f[x] = f[y] => x = y
  BY Zenon, <1>1, <1>2, CancelLeft
<1>5. f \in Injection(DOMAIN own, DOMAIN data)
  BY Zenon, <1>3, <1>4 DEF Injection, IsInjective
<1>6. IsFiniteSet(DOMAIN own)
  BY Zenon, <1>5, FS_Injection DEF StoredInv
<1> QED
  BY Zenon, <1>1, <1>6 DEF Storage, Bytes
(* What range_with_prefix asks the storage for.                              *)
Bounds == {<<>>} \cup {<<k>> : k \in Keys}

From(p, start) == IF start # <<>> THEN concat(p, start[1]) ELSE p
To(p, end) == IF end # <<>> THEN concat(p, end[1]) ELSE namespace_upper_bound(p)

LEMMA BoundIsKey ==
  ASSUME NEW bound \in Bounds, bound # <<>>
  PROVE  bound[1] \in Bytes
<1>1. PICK k \in Keys : bound = <<k>>
  BY Zenon DEF Bounds
<1>2. bound[1] = k
  BY <1>1
<1> QED
  BY Zenon, <1>2, NamesAreBytes

LEMMA LowerBound ==
  ASSUME NEW p \in Bytes, NEW start \in Bounds
  PROVE  /\ \A x \in Bytes : ~Less(p \o x, From(p, start)) <=> (start # <<>> => ~Less(x, start[1]))
         /\ \A w \in Bytes : ~Less(w, From(p, start)) => ~Less(w, p)
<1>1. CASE start = <<>>
  <2>1. From(p, start) = p
    BY Zenon, <1>1 DEF From
  <2> QED
    BY Zenon, <1>1, <2>1, NotBeforePrefix
<1>2. CASE start # <<>>
  <2>1. PICK s \in Bytes : s = start[1]
    BY Zenon, <1>2, BoundIsKey
  <2>2. PICK f : f = p \o s /\ f = From(p, start) /\ f \in Bytes
    BY Zenon, <1>2, <2>1, Concatenation DEF From, concat, Bytes
  <2>3. \A x \in Bytes : ~Less(p \o x, f) <=> ~Less(x, s)
    BY ZenonT(60), <2>2, SameBehind
  <2>4. f = p \/ Less(p, f)
    BY ZenonT(60), <2>2, NotBeforePrefix, LessTotal DEF Bytes
  <2>5. ASSUME NEW w \in Bytes, Less(w, p) PROVE Less(w, f)
    BY Zenon, <2>2, <2>4, <2>5, LessTransitive DEF Bytes
  <2> QED
    BY Zenon, <1>2, <2>1, <2>2, <2>3, <2>5
<1> QED
  BY Zenon, <1>1, <1>2

LEMMA HigherBound ==
  ASSUME NEW a, NEW p, Delimits(p, namespace_upper_bound(p), a), NEW end \in Bounds
  PROVE  /\ \A x \in Bytes : Less(p \o x, To(p, end)) <=> (end # <<>> => Less(x, end[1]))
         /\ \A w \in Bytes : Less(w, To(p, end)) => Less(w, namespace_upper_bound(p))
<1>1. PICK u : u = namespace_upper_bound(p)
  BY Zenon
<1>2. p \in Bytes /\ u \in Bytes /\ \A x \in Bytes : Less(p \o x, u)
  BY Zenon, <1>1 DEF Delimits
<1>3. CASE end = <<>>
  <2>1. To(p, end) = u
    BY Zenon, <1>1, <1>3 DEF To
  <2> QED
    BY Zenon, <1>1, <1>2, <1>3, <2>1
<1>4. CASE end # <<>>
  <2>1. PICK s \in Bytes : s = end[1]
    BY Zenon, <1>4, BoundIsKey
  <2>2. PICK f : f = p \o s /\ f = To(p, end) /\ f \in Bytes
    BY Zenon, <1>2, <1>4, <2>1, Concatenation DEF To, concat, Bytes
  <2>3. \A x \in Bytes : Less(p \o x, f) <=> Less(x, s)
    <3>1. \A x \in Bytes : Less(p \o x, p \o s) <=> Less(x, s)
      BY ZenonT(60), <1>2, <2>1, SameBehind
    <3> QED
      BY Zenon, <2>2, <3>1
  <2>4. Less(f, u)
    <3>1. Less(p \o s, u)
      BY Zenon, <1>2, <2>1
    <3> QED
      BY Zenon, <2>2, <3>1
  <2>5. ASSUME NEW w \in Bytes, Less(w, f) PROVE Less(w, u)
    BY Zenon, <1>2, <2>2, <2>4, <2>5, LessTransitive DEF Bytes
  <2> QED
    BY Zenon, <1>1, <1>4, <2>1, <2>2, <2>3, <2>5
<1> QED
  BY Zenon, <1>3, <1>4

(* The keys of the storage within the bounds are those of the area within    *)
(* the caller's bounds, behind the prefix.                                   *)
AreBehind(K, L, p) == \A w : w \in K <=> \E k \in L : w = p \o k

LEMMA OneBound == \A x : <<x>> # <<>> /\ <<x>>[1] = x
  OBVIOUS

LEMMA WithinBounds ==
  ASSUME NEW w, NEW from, NEW to
  PROVE  InBounds(w, <<from>>, <<to>>) <=> ~Less(w, from) /\ Less(w, to)
BY Zenon, OneBound DEF InBounds

LEMMA SelectedOfArea ==
  ASSUME StoredInv, NEW a \in Areas, NEW p, p = Prefix(a), NEW own, OwnRecords(own, p),
         NEW start \in Bounds, NEW end \in Bounds
  PROVE  AreBehind(Selected(data, <<From(p, start)>>, <<To(p, end)>>), Selected(own, start, end), p)
<1>1. PICK u : u = namespace_upper_bound(p) /\ Delimits(p, u, a)
  BY Zenon, AreaIsDelimited
<1>2. p \in Bytes
  BY Zenon, <1>1 DEF Delimits
<1>3. PICK from, to : from = From(p, start) /\ to = To(p, end)
  BY Zenon
<1>4. /\ \A x \in Bytes : ~Less(p \o x, from) <=> (start # <<>> => ~Less(x, start[1]))
      /\ \A w \in Bytes : ~Less(w, from) => ~Less(w, p)
  BY Zenon, <1>2, <1>3, LowerBound
<1>5. /\ \A x \in Bytes : Less(p \o x, to) <=> (end # <<>> => Less(x, end[1]))
      /\ \A w \in Bytes : Less(w, to) => Less(w, u)
  BY Zenon, <1>1, <1>3, HigherBound
<1>6. \A x \in Bytes : InBounds(p \o x, <<from>>, <<to>>) <=> InBounds(x, start, end)
  BY Zenon, <1>4, <1>5, WithinBounds DEF InBounds
<1>7. ASSUME NEW k \in Selected(own, start, end)
      PROVE  p \o k \in Selected(data, <<from>>, <<to>>)
  <2>1. k \in Keys /\ p \o k \in DOMAIN data /\ InBounds(k, start, end)
    BY Zenon DEF Selected, OwnRecords
  <2> QED
    BY Zenon, <1>6, <2>1, NamesAreBytes DEF Selected
<1>8. ASSUME NEW w \in Selected(data, <<from>>, <<to>>)
      PROVE  \E k \in Selected(own, start, end) : w = p \o k
  <2>1. w \in DOMAIN data /\ InBounds(w, <<from>>, <<to>>)
    BY Zenon DEF Selected
  <2>2. IsPlace(w) /\ w \in Bytes
    BY Zenon, <2>1, PlacesAreBytes DEF StoredInv
  <2>3. ~Less(w, from) /\ Less(w, to)
    BY Zenon, <2>1, WithinBounds
  <2>4. ~Less(w, p) /\ Less(w, u)
    BY Zenon, <1>4, <1>5, <2>2, <2>3
  <2>5. PICK k \in Keys : w = p \o k
    BY Zenon, <1>1, <2>2, <2>4 DEF Delimits
  <2>6. k \in Bytes /\ k \in DOMAIN own
    BY Zenon, <2>1, <2>5, NamesAreBytes DEF OwnRecords
  <2>7. InBounds(k, start, end)
    BY Zenon, <1>6, <2>1, <2>5, <2>6
  <2> QED
    BY Zenon, <2>5, <2>6, <2>7 DEF Selected
<1>9. AreBehind(Selected(data, <<from>>, <<to>>), Selected(own, start, end), p)
  BY Zenon, <1>7, <1>8 DEF AreBehind
<1> QED
  BY Zenon, <1>3, <1>9
--------------------------------------------------------------------------------
(* trim takes off what concat has put in front.                              *)
LEMMA TrimmedKey ==
  ASSUME NEW p \in Bytes, NEW k \in Bytes
  PROVE  trim(p, p \o k) = k
<1>1. PICK u, m, n : u = p \o k /\ m = Len(p) /\ n = Len(k)
  BY Zenon
<1>2. m \in Nat /\ n \in Nat
  BY Zenon, <1>1, SequenceType DEF Bytes
<1>3. u \in Bytes /\ Len(u) = m + n /\ \A i \in 1 .. m + n : u[i] = IF i <= m THEN p[i] ELSE k[i - m]
  <2>1. HasParts(u, p, m, k, n)
    BY Zenon, <1>1, Joined DEF Joins
  <2> QED
    BY Zenon, <2>1 DEF HasParts
<1>4. SubSeq(u, m + 1, m + n) = [i \in 1 .. n |-> u[i + m]]
  BY <1>2, <1>3 DEF Bytes
<1>5. ASSUME NEW i \in 1 .. n PROVE u[i + m] = k[i]
  <2>1. i + m \in 1 .. m + n /\ ~(i + m <= m) /\ (i + m) - m = i
    BY <1>2
  <2> QED
    BY Zenon, <1>3, <2>1
<1>6. k = [i \in 1 .. n |-> k[i]]
  BY <1>1, <1>2 DEF Bytes
<1>7. SubSeq(u, m + 1, m + n) = k
  BY Zenon, <1>4, <1>5, <1>6
<1> QED
  BY Zenon, <1>1, <1>3, <1>7 DEF trim

(* A range lists the keys within its bounds.                                 *)
LEMMA RangeIsListing ==
  ASSUME NEW records, NEW keys, NEW m, NEW start, NEW end, NEW order,
         Lists(records, keys, m, start, end, order)
  PROVE  \E n \in Nat : /\ n = Cardinality(Selected(m, start, end)) /\ DOMAIN keys = 1 .. n
                        /\ Listing(keys, Selected(m, start, end), n, order)
<1>1. PICK K : K = Selected(m, start, end)
  BY Zenon
<1>2. /\ keys \in Seq(K) /\ Len(keys) = Cardinality(K)
      /\ \A k \in K : \E i \in DOMAIN keys : keys[i] = k
      /\ \A i, j \in DOMAIN keys : i < j => Before(order, keys[i], keys[j])
  BY Zenon, <1>1 DEF Lists, Before
<1>3. PICK n \in Nat : n = Len(keys) /\ DOMAIN keys = 1 .. n /\ \A i \in 1 .. n : keys[i] \in K
  BY Zenon, <1>2, SequenceType
<1>4. Listing(keys, K, n, order)
  BY Zenon, <1>2, <1>3 DEF Listing
<1> QED
  BY Zenon, <1>1, <1>2, <1>3, <1>4

(* As many keys with the prefix as without it.                               *)
LEMMA AsManyBehind ==
  ASSUME NEW p \in Bytes, NEW K, NEW L, L \subseteq Bytes, IsFiniteSet(L), AreBehind(K, L, p)
  PROVE  Cardinality(K) = Cardinality(L)
<1>1. PICK f : f = [k \in L |-> p \o k]
  BY Zenon
<1>2. f \in [L -> K] /\ \A w \in K : \E k \in L : f[k] = w
  BY Zenon, <1>1 DEF AreBehind
<1>3. \A x, y \in L : f[x] = f[y] => x = y
  BY Zenon, <1>1, CancelLeft
<1>4. f \in Bijection(L, K)
  BY Zenon, <1>2, <1>3 DEF Bijection, Injection, Surjection, IsInjective
<1>5. ExistsBijection(L, K)
  BY Zenon, <1>4 DEF ExistsBijection
<1> QED
  BY Zenon, <1>5, FS_Bijection

(* A listing with the prefix in front of every key is a listing.             *)
LEMMA ListingBehind ==
  ASSUME NEW p \in Bytes, NEW K, NEW L, L \subseteq Bytes, AreBehind(K, L, p),
         NEW n \in Nat, NEW order, NEW s, Listing(s, L, n, order),
         NEW t, \A i \in 1 .. n : t[i] = p \o s[i]
  PROVE  Listing(t, K, n, order)
<1>1. \A i \in 1 .. n : s[i] \in L /\ s[i] \in Bytes
  BY Zenon DEF Listing
<1>2. \A i \in 1 .. n : t[i] \in K
  BY Zenon, <1>1 DEF AreBehind
<1>3. ASSUME NEW w \in K PROVE \E i \in 1 .. n : t[i] = w
  <2>1. PICK k \in L : w = p \o k
    BY Zenon DEF AreBehind
  <2>2. PICK i \in 1 .. n : s[i] = k
    BY Zenon DEF Listing
  <2> QED
    BY Zenon, <2>1, <2>2
<1>4. ASSUME NEW i \in 1 .. n, NEW j \in 1 .. n, i < j PROVE Before(order, t[i], t[j])
  <2>1. PICK x \in Bytes, y \in Bytes : x = s[i] /\ y = s[j]
    BY Zenon, <1>1
  <2>2. Before(order, x, y)
    BY Zenon, <1>4, <2>1 DEF Listing
  <2>3. t[i] = p \o x /\ t[j] = p \o y
    BY Zenon, <2>1
  <2>4. /\ Less(p \o x, p \o y) <=> Less(x, y)
        /\ Less(p \o y, p \o x) <=> Less(y, x)
    BY Zenon, SameBehind
  <2> QED
    BY Zenon, <2>2, <2>3, <2>4 DEF Before
<1> QED
  BY Zenon, <1>2, <1>3, <1>4 DEF Listing

RangesAgree(p, own, start, end, order) ==
  range_with_prefix(p, start, end, order) = range(own, start, end, order)

LEMMA RangeOfArea ==
  ASSUME StoredInv, NEW a \in Areas, NEW p, p = Prefix(a), NEW own, OwnRecords(own, p),
         NEW start \in Bounds, NEW end \in Bounds, NEW order
  PROVE  RangesAgree(p, own, start, end, order)
<1>1. p \in Bytes
  BY Zenon, AreaIsDelimited DEF Delimits
<1>2. Storage(data) /\ Storage(own)
  BY Zenon, <1>1, StoredIsStorage, OwnIsStorage
<1>3. PICK from, to : from = <<From(p, start)>> /\ to = <<To(p, end)>>
  BY Zenon
<1>4. PICK K, L : K = Selected(data, from, to) /\ L = Selected(own, start, end)
  BY Zenon
<1>5. AreBehind(K, L, p)
  BY Zenon, <1>3, <1>4, SelectedOfArea
<1>6. L \subseteq DOMAIN own /\ L \subseteq Bytes /\ IsFiniteSet(L)
  BY Zenon, <1>2, <1>4, FS_Subset DEF Selected, Storage, Bytes
<1>7. PICK records, keys : /\ records = range(data, from, to, order)
                           /\ Lists(records, keys, data, from, to, order)
  BY Zenon, <1>2, RangeIsSorted
<1>8. PICK owned, names : /\ owned = range(own, start, end, order)
                          /\ Lists(owned, names, own, start, end, order)
  BY Zenon, <1>2, RangeIsSorted
<1>9. PICK m \in Nat : m = Cardinality(K) /\ DOMAIN keys = 1 .. m /\ Listing(keys, K, m, order)
  BY Zenon, <1>4, <1>7, RangeIsListing
<1>10. PICK n \in Nat : n = Cardinality(L) /\ DOMAIN names = 1 .. n /\ Listing(names, L, n, order)
  BY Zenon, <1>4, <1>8, RangeIsListing
<1>11. m = n
  BY Zenon, <1>1, <1>5, <1>6, <1>9, <1>10, AsManyBehind
<1>12. PICK t : t = [i \in 1 .. n |-> p \o names[i]]
  BY Zenon
<1>13. Listing(t, K, n, order)
  BY Zenon, <1>1, <1>5, <1>6, <1>10, <1>12, ListingBehind
<1>14. K \subseteq Bytes
  BY Zenon, <1>2, <1>4 DEF Selected, Storage, Bytes
<1>15. \A i \in 1 .. n : keys[i] = t[i]
  <2>1. Listing(keys, K, n, order)
    BY Zenon, <1>9, <1>11
  <2>2. Alike(keys, t, n)
    BY Zenon, <1>13, <1>14, <2>1, OneListing
  <2> QED
    BY Zenon, <2>2 DEF Alike
<1>16. \A i \in 1 .. n : names[i] \in DOMAIN own /\ names[i] \in Bytes /\ keys[i] = p \o names[i]
  BY Zenon, <1>6, <1>10, <1>12, <1>15 DEF Listing
<1>17. ASSUME NEW i \in 1 .. n
       PROVE  trim(p, keys[i]) = names[i] /\ data[keys[i]] = own[names[i]]
  BY Zenon, <1>1, <1>16, TrimmedKey DEF OwnRecords
<1>18. records = [i \in 1 .. n |-> <<keys[i], data[keys[i]]>>]
  BY Zenon, <1>7, <1>9, <1>11 DEF Lists
<1>19. owned = [i \in 1 .. n |-> <<names[i], own[names[i]]>>]
  BY Zenon, <1>8, <1>10 DEF Lists
<1>20. range_with_prefix(p, start, end, order) =
         [i \in DOMAIN records |-> <<trim(p, records[i][1]), records[i][2]>>]
  BY Zenon, <1>3, <1>7 DEF range_with_prefix, From, To
<1>21. DOMAIN records = 1 .. n
  BY Zenon, <1>18
<1>22. ASSUME NEW i \in 1 .. n
       PROVE  <<trim(p, records[i][1]), records[i][2]>> = <<names[i], own[names[i]]>>
  <2>1. records[i] = <<keys[i], data[keys[i]]>>
    BY Zenon, <1>18
  <2>2. records[i][1] = keys[i] /\ records[i][2] = data[keys[i]]
    BY <2>1
  <2> QED
    BY Zenon, <1>17, <2>2
<1> QED
  BY Zenon, <1>8, <1>19, <1>20, <1>21, <1>22 DEF RangesAgree
--------------------------------------------------------------------------------
(* What an operation changes is a place.                                     *)
LEMMA StoredStart ==
  ASSUME StorageInit
  PROVE  StoredInv
<1>1. DOMAIN data = {}
  BY DEF StorageInit, EmptyMap
<1> QED
  BY Zenon, <1>1, FS_EmptySet DEF StoredInv

LEMMA StoredKept ==
  ASSUME StoredInv, NEW place, IsPlace(place), ChangesAt(place)
  PROVE  StoredInv'
<1>1. \A k : k # place => get(data', k) = get(data, k)
  BY Zenon DEF ChangesAt, SameElsewhere
<1>2. ASSUME NEW k \in DOMAIN data', k # place PROVE k \in DOMAIN data
  <2>1. get(data', k) = <<data'[k]>>
    BY Zenon DEF get
  <2>2. get(data, k) # <<>>
    BY Zenon, <1>1, <1>2, <2>1, OneBound
  <2> QED
    BY Zenon, <2>2 DEF get
<1>3. DOMAIN data' \in SUBSET (DOMAIN data \cup {place})
  BY Zenon, <1>2
<1>4. IsFiniteSet(DOMAIN data \cup {place})
  BY Zenon, FS_AddElement DEF StoredInv
<1>5. IsFiniteSet(DOMAIN data')
  BY Zenon, <1>3, <1>4, FS_Subset
<1>6. \A w \in DOMAIN data' : IsPlace(w)
  BY Zenon, <1>2 DEF StoredInv
<1> QED
  BY Zenon, <1>5, <1>6 DEF StoredInv

LEMMA StoredStep ==
  ASSUME StoredInv, CounterInv, StorageNext
  PROVE  StoredInv'
<1>1. ASSUME NEW area \in Areas, NEW key \in Keys, ChangesAt(PlaceOf(area, key))
      PROVE  StoredInv'
  BY Zenon, <1>1, EntriesArePlaces, StoredKept
<1>2. ASSUME NEW name \in AllNames, ChangesAt(SingletonKey(name))
      PROVE  StoredInv'
  BY Zenon, <1>2, SingletonsArePlaces, StoredKept
<1>3. CASE nextval
  BY Zenon, <1>2, <1>3, CounterStep DEF AllNames
<1>4. ASSUME NEW name \in Singletons, ChangesAt(SingletonKey(name)) PROVE StoredInv'
  BY Zenon, <1>2, <1>4 DEF AllNames
<1> QED
  BY Zenon, <1>1, <1>3, <1>4, AreaOperation, SingletonOperation DEF StorageNext

LEMMA StoredAlways == StorageSpec => []StoredInv
<1>1. StorageInit => StoredInv
  BY Zenon, StoredStart
<1>2. StoredInv /\ CounterInv /\ [StorageNext]_storageVars => StoredInv'
  <2>1. StoredInv /\ UNCHANGED storageVars => StoredInv'
    BY Zenon DEF StoredInv, storageVars
  <2> QED
    BY Zenon, <2>1, StoredStep
<1> QED
  BY <1>1, <1>2, CounterAlways, PTL DEF StorageSpec

--------------------------------------------------------------------------------
(* The records of an area.                                                   *)
Own(p) ==
  [k \in {k \in Keys : get_with_prefix(p, k) # <<>>} |-> get_with_prefix(p, k)[1]]

LEMMA OwnAreRecords ==
  ASSUME NEW p
  PROVE  OwnRecords(Own(p), p)
<1>1. ASSUME NEW k PROVE get_with_prefix(p, k) # <<>> <=> p \o k \in DOMAIN data
  BY Zenon, OneBound DEF get_with_prefix, concat, get
<1>2. ASSUME NEW k, p \o k \in DOMAIN data PROVE get_with_prefix(p, k)[1] = data[p \o k]
  BY Zenon, <1>2, OneBound DEF get_with_prefix, concat, get
<1>3. DOMAIN Own(p) = {k \in Keys : get_with_prefix(p, k) # <<>>}
  BY Zenon DEF Own
<1>4. \A k : k \in DOMAIN Own(p) <=> k \in Keys /\ p \o k \in DOMAIN data
  BY Zenon, <1>1, <1>3
<1>5. DOMAIN Own(p) = {k \in Keys : p \o k \in DOMAIN data}
  <2>1. DOMAIN Own(p) \subseteq {k \in Keys : p \o k \in DOMAIN data}
    BY Zenon, <1>4
  <2>2. {k \in Keys : p \o k \in DOMAIN data} \subseteq DOMAIN Own(p)
    BY Zenon, <1>4
  <2> QED
    BY Zenon, <2>1, <2>2
<1>6. \A k \in DOMAIN Own(p) : Own(p)[k] = get_with_prefix(p, k)[1]
  BY Zenon, <1>3 DEF Own
<1> QED
  BY Zenon, <1>2, <1>4, <1>5, <1>6 DEF OwnRecords

LEMMA RangesOfAreas ==
  ASSUME StoredInv
  PROVE  RangeIsTheArea
<1>1. ASSUME NEW area \in Areas, NEW order, NEW start \in Bounds, NEW end \in Bounds
      PROVE  RangesAgree(Prefix(area), Own(Prefix(area)), start, end, order)
  BY Zenon, OwnAreRecords, RangeOfArea
<1> QED
  BY Zenon, <1>1 DEF RangesAgree, RangeIsTheArea, Bounds, Own
--------------------------------------------------------------------------------
(* load and may_load of one place.                                           *)
LEMMA LoadsAgree ==
  ASSUME NEW option, NEW load, load = must_deserialize(option),
         NEW may_load, may_load = may_deserialize(option), option # <<>> => option = <<option[1]>>
  PROVE  /\ load.ok <=> (may_load.ok /\ may_load.value # <<>>)
         /\ load.ok => may_load.value = <<load.value>>
<1>1. /\ StdErr.ok = FALSE
      /\ \A v : [ok |-> TRUE, value |-> v].ok = TRUE /\ [ok |-> TRUE, value |-> v].value = v
  BY DEF StdErr
<1>2. CASE option = <<>>
  <2>1. load = StdErr /\ may_load = [ok |-> TRUE, value |-> <<>>]
    BY Zenon, <1>2 DEF must_deserialize, may_deserialize, MustDeserialize, MayDeserialize
  <2> QED
    BY Zenon, <1>1, <2>1
<1>3. CASE option # <<>> /\ Parses(option[1])
  <2>1. load = [ok |-> TRUE, value |-> option[1]] /\ may_load = [ok |-> TRUE, value |-> option]
    BY Zenon, <1>3 DEF must_deserialize, may_deserialize, MustDeserialize, MayDeserialize
  <2> QED
    BY Zenon, <1>1, <1>3, <2>1
<1>4. CASE option # <<>> /\ ~Parses(option[1])
  <2>1. load = StdErr /\ may_load = StdErr
    BY Zenon, <1>4 DEF must_deserialize, may_deserialize, MustDeserialize, MayDeserialize
  <2> QED
    BY Zenon, <1>1, <2>1
<1> QED
  BY Zenon, <1>2, <1>3, <1>4

LEMMA GetIsOption ==
  ASSUME NEW m, NEW k
  PROVE  get(m, k) # <<>> => get(m, k) = <<get(m, k)[1]>>
<1>1. CASE k \in DOMAIN m
  <2>1. get(m, k) = <<m[k]>> /\ <<m[k]>>[1] = m[k]
    BY Zenon, <1>1, OneBound DEF get
  <2> QED
    BY Zenon, <2>1
<1>2. CASE k \notin DOMAIN m
  BY Zenon, <1>2 DEF get
<1> QED
  BY Zenon, <1>1, <1>2

LEMMA ListLength ==
  ASSUME NEW n \in Nat, NEW f, f = [i \in 1 .. n |-> f[i]]
  PROVE  Len(f) = n /\ DOMAIN f = 1 .. n
OBVIOUS

(* What ReadersAgree says of the ranges of an area.                          *)
ListsLoads(records, area) ==
  /\ \A i \in DOMAIN records :
       records[i].ok =>
         bucket_load(area, records[i].value[1]) = [ok |-> TRUE, value |-> records[i].value[2]]
  /\ Len(records) = Cardinality({key \in Keys : readonly_prefixed_get(area, key) # <<>>})

LEMMA RangeListsLoads ==
  ASSUME StoredInv, NEW area \in Areas
  PROVE  ListsLoads(bucket_range(area, <<>>, <<>>, "Ascending"), area)
<1>1. PICK p, own, raw : /\ p = Prefix(area) /\ own = Own(p)
                         /\ raw = range(own, <<>>, <<>>, "Ascending")
  BY Zenon
<1>2. OwnRecords(own, p) /\ p \in Bytes
  BY Zenon, <1>1, OwnAreRecords, AreaIsDelimited DEF Delimits
<1>3. raw = range_with_prefix(p, <<>>, <<>>, "Ascending")
  <2>1. <<>> \in Bounds
    BY Zenon DEF Bounds
  <2>2. RangesAgree(p, own, <<>>, <<>>, "Ascending")
    BY Zenon, <1>1, <1>2, <2>1, RangeOfArea
  <2> QED
    BY Zenon, <1>1, <2>2 DEF RangesAgree
<1>4. PICK names : Lists(raw, names, own, <<>>, <<>>, "Ascending")
  BY Zenon, <1>1, <1>2, OwnIsStorage, RangeIsSorted
<1>5. PICK n \in Nat : /\ n = Cardinality(Selected(own, <<>>, <<>>)) /\ DOMAIN names = 1 .. n
                       /\ Listing(names, Selected(own, <<>>, <<>>), n, "Ascending")
  BY Zenon, <1>4, RangeIsListing
<1>6. Selected(own, <<>>, <<>>) = DOMAIN own
  <2>1. Selected(own, <<>>, <<>>) \subseteq DOMAIN own
    BY Zenon DEF Selected
  <2>2. DOMAIN own \subseteq Selected(own, <<>>, <<>>)
    BY Zenon DEF Selected, InBounds
  <2> QED
    BY Zenon, <2>1, <2>2
<1>7. raw = [i \in 1 .. n |-> <<names[i], own[names[i]]>>]
  BY Zenon, <1>4, <1>5 DEF Lists
<1>8. ASSUME NEW i \in 1 .. n
      PROVE  /\ names[i] \in DOMAIN own /\ raw[i][1] = names[i] /\ raw[i][2] = own[names[i]]
  <2>1. names[i] \in DOMAIN own
    BY Zenon, <1>5, <1>6 DEF Listing
  <2>2. raw[i] = <<names[i], own[names[i]]>>
    BY Zenon, <1>7
  <2>3. raw[i][1] = names[i] /\ raw[i][2] = own[names[i]]
    BY <2>2
  <2> QED
    BY Zenon, <2>1, <2>3
<1>9. PICK records : /\ records = bucket_range(area, <<>>, <<>>, "Ascending")
                     /\ records = [i \in 1 .. n |-> IF Parses(raw[i][2]) THEN [ok |-> TRUE, value |-> raw[i]]
                                                    ELSE StdErr]
  <2>1. DOMAIN raw = 1 .. n
    BY Zenon, <1>7
  <2>2. bucket_range(area, <<>>, <<>>, "Ascending") =
          [i \in DOMAIN raw |-> IF Parses(raw[i][2]) THEN [ok |-> TRUE, value |-> raw[i]] ELSE StdErr]
    BY Zenon, <1>1, <1>3 DEF bucket_range
  <2> QED
    BY Zenon, <2>1, <2>2
<1>10. Len(records) = n /\ DOMAIN records = 1 .. n
  <2>1. records = [i \in 1 .. n |-> records[i]]
    BY Zenon, <1>9
  <2> QED
    BY Zenon, <2>1, ListLength
<1>11. ASSUME NEW i \in 1 .. n, records[i].ok
       PROVE  bucket_load(area, records[i].value[1]) = [ok |-> TRUE, value |-> records[i].value[2]]
  <2>1. records[i] = IF Parses(raw[i][2]) THEN [ok |-> TRUE, value |-> raw[i]] ELSE StdErr
    BY Zenon, <1>9
  <2>2. StdErr.ok = FALSE /\ [ok |-> TRUE, value |-> raw[i]].value = raw[i]
    BY DEF StdErr
  <2>3. Parses(raw[i][2])
    BY Zenon, <1>11, <2>1, <2>2
  <2>4. records[i].value = raw[i]
    BY Zenon, <2>1, <2>2, <2>3
  <2>5. PICK v : v = own[names[i]] /\ v = data[p \o names[i]] /\ p \o names[i] \in DOMAIN data
    BY Zenon, <1>2, <1>8 DEF OwnRecords
  <2>6. Parses(v) /\ records[i].value[1] = names[i] /\ records[i].value[2] = v
    BY Zenon, <1>8, <2>3, <2>4, <2>5
  <2>7. get_with_prefix(p, names[i]) = <<v>>
    BY Zenon, <2>5 DEF get_with_prefix, concat, get
  <2>8. must_deserialize(<<v>>) = [ok |-> TRUE, value |-> v]
    BY Zenon, <2>6, OneBound DEF must_deserialize, MustDeserialize
  <2>9. bucket_load(area, names[i]) = [ok |-> TRUE, value |-> v]
    BY Zenon, <1>1, <2>7, <2>8 DEF bucket_load
  <2> QED
    BY Zenon, <2>6, <2>9
<1>12. {key \in Keys : readonly_prefixed_get(area, key) # <<>>} = DOMAIN own
  BY Zenon, <1>1 DEF Own, readonly_prefixed_get, readonly_prefix
<1>13. Len(records) = Cardinality({key \in Keys : readonly_prefixed_get(area, key) # <<>>})
  BY Zenon, <1>5, <1>6, <1>10, <1>12
<1>14. ListsLoads(records, area)
  BY Zenon, <1>10, <1>11, <1>13 DEF ListsLoads
<1> QED
  BY Zenon, <1>9, <1>14

LEMMA ReadersOfAreas ==
  ASSUME StoredInv
  PROVE  ReadersAgree
<1>1. ASSUME NEW area \in Areas, NEW key \in Keys
      PROVE  LET load == bucket_load(area, key)
                 may_load == bucket_may_load(area, key)
             IN  /\ readonly_bucket_load(area, key) = load
                 /\ load.ok <=> (may_load.ok /\ may_load.value # <<>>)
                 /\ load.ok => may_load.value = <<load.value>>
  <2>1. PICK option : option = get_with_prefix(Prefix(area), key)
    BY Zenon
  <2>2. option # <<>> => option = <<option[1]>>
    BY Zenon, <2>1, GetIsOption DEF get_with_prefix
  <2>3. PICK load, may_load : load = must_deserialize(option) /\ may_load = may_deserialize(option)
    BY Zenon
  <2>4. /\ load.ok <=> (may_load.ok /\ may_load.value # <<>>)
        /\ load.ok => may_load.value = <<load.value>>
    BY Zenon, <2>2, <2>3, LoadsAgree
  <2>5. /\ bucket_load(area, key) = load /\ bucket_may_load(area, key) = may_load
        /\ readonly_bucket_load(area, key) = load
    BY Zenon, <2>1, <2>3
       DEF bucket_load, bucket_may_load, readonly_bucket_load, readonly_prefixed_get, readonly_prefix
  <2> QED
    BY Zenon, <2>4, <2>5
<1>2. ASSUME NEW name \in Singletons
      PROVE  /\ readonly_singleton_load(name) = singleton_load(name)
             /\ singleton_load(name).ok <=> singleton_may_load(name).ok /\ singleton_may_load(name).value # <<>>
  <2>1. PICK option : option = get(data, SingletonKey(name))
    BY Zenon
  <2>2. option # <<>> => option = <<option[1]>>
    BY Zenon, <2>1, GetIsOption
  <2>3. PICK load, may_load : load = must_deserialize(option) /\ may_load = may_deserialize(option)
    BY Zenon
  <2>4. load.ok <=> (may_load.ok /\ may_load.value # <<>>)
    BY Zenon, <2>2, <2>3, LoadsAgree
  <2>5. /\ singleton_load(name) = load /\ singleton_may_load(name) = may_load
        /\ readonly_singleton_load(name) = load
    BY Zenon, <2>1, <2>3 DEF singleton_load, singleton_may_load, readonly_singleton_load, SingletonKey
  <2> QED
    BY Zenon, <2>4, <2>5
<1>3. ASSUME NEW area \in Areas
      PROVE  ListsLoads(bucket_range(area, <<>>, <<>>, "Ascending"), area)
  BY Zenon, RangeListsLoads
<1> QED
  BY Zenon, <1>1, <1>2, <1>3 DEF ReadersAgree, ListsLoads
(* What a range of an area lists is what was stored in the area and nothing  *)
(* else, whatever the other areas hold: the bounds range_with_prefix computes *)
(* with namespace_upper_bound cut out exactly the keys behind the prefix.    *)
THEOREM RangesAreTheirArea == StorageSpec => []RangeIsTheArea
<1>1. StoredInv => RangeIsTheArea
  BY RangesOfAreas
<1> QED
  BY <1>1, StoredAlways, PTL

(* load, may_load and range, of the writing and of the read-only helpers,    *)
(* answer alike for every area, key and singleton.                           *)
THEOREM HelpersReadersAgree == StorageSpec => []ReadersAgree
<1>1. StoredInv => ReadersAgree
  BY ReadersOfAreas
<1> QED
  BY <1>1, StoredAlways, PTL

(* Whatever was written last is found by every way to read it, for every     *)
(* choice of names, keys and values (packages/storage).                      *)
THEOREM WritesAreFound == StorageSpec => []LastWriteIsFound
<1>1. RangeIsTheArea /\ ReadersAgree /\ SequenceCounts => LastWriteIsFound
  BY Zenon DEF LastWriteIsFound
<1> QED
  BY <1>1, RangesAreTheirArea, HelpersReadersAgree, SequenceAlwaysCounts, PTL
==============================================================================
