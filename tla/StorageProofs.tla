----------------------------- MODULE StorageProofs -----------------------------
(***************************************************************************)
(* The storage a contract sees through the imports, for any keys, values   *)
(* and number of calls: ranges are sorted and complete, sections come out  *)
(* as they went in, reads and iterations are those of one storage.  The    *)
(* queue contract, whose items come out in order because its keys do.      *)
(***************************************************************************)
EXTENDS Guest, Queue, Foundations

(* Sequences, for the steps that Zenon proves.                               *)
LEMMA ConcatNothing ==
  ASSUME NEW S, NEW s \in Seq(S)
  PROVE  s \o <<>> = s /\ <<>> \o s = s
OBVIOUS

LEMMA HeadAndTail ==
  ASSUME NEW S, NEW s \in Seq(S), s # <<>>
  PROVE  /\ Head(s) \in S /\ Tail(s) \in Seq(S) /\ Len(Tail(s)) = Len(s) - 1
         /\ \A i \in 1 .. Len(Tail(s)) : Tail(s)[i] = s[i + 1]
OBVIOUS

LEMMA AppendOne ==
  ASSUME NEW S, NEW s \in Seq(S), NEW e \in S
  PROVE  /\ Append(s, e) \in Seq(S) /\ Append(s, e) # <<>>
         /\ Len(Append(s, e)) = Len(s) + 1 /\ Append(s, e)[Len(s) + 1] = e
         /\ \A i \in 1 .. Len(s) : Append(s, e)[i] = s[i]
OBVIOUS

LEMMA ChangedElement ==
  ASSUME NEW S, NEW s \in Seq(S), NEW i \in 1 .. Len(s), NEW e \in S
  PROVE  /\ [s EXCEPT ![i] = e] \in Seq(S) /\ Len([s EXCEPT ![i] = e]) = Len(s)
         /\ \A j \in 1 .. Len(s) : [s EXCEPT ![i] = e][j] = IF j = i THEN e ELSE s[j]
OBVIOUS

LEMMA ElementType ==
  ASSUME NEW S, NEW s \in Seq(S), NEW i \in 1 .. Len(s)
  PROVE  s[i] \in S
OBVIOUS

--------------------------------------------------------------------------------
(* Parts of sequences that were joined.                                      *)
LEMMA FirstPart ==
  ASSUME NEW S, NEW s \in Seq(S), NEW t \in Seq(S), NEW m, m = Len(s)
  PROVE  SubSeq(s \o t, 1, m) = s
<1>0. Len(s) \in Nat /\ Len(t) \in Nat
  BY Zenon, SequenceType
<1>1. PICK u, n : u = s \o t /\ n = Len(t) /\ n \in Nat /\ m \in Nat
  BY Zenon, <1>0
<1>2. u \in Seq(S) /\ Len(u) = m + n /\ \A i \in 1 .. m + n : u[i] = IF i <= m THEN s[i] ELSE t[i - m]
  BY ZenonT(60), <1>1, Concatenation
<1>3. SubSeq(u, 1, m) = [i \in 1 .. m |-> u[i]]
  BY <1>1, <1>2
<1>4. \A i \in 1 .. m : i \in 1 .. m + n /\ u[i] = s[i]
  BY <1>1, <1>2
<1>5. s = [i \in 1 .. m |-> s[i]]
  BY <1>1
<1> QED
  BY Zenon, <1>1, <1>3, <1>4, <1>5

LEMMA LastPart ==
  ASSUME NEW S, NEW s \in Seq(S), NEW t \in Seq(S)
  PROVE  SubSeq(s \o t, Len(s) + 1, Len(s) + Len(t)) = t
<1>1. PICK u, m, n : u = s \o t /\ m = Len(s) /\ n = Len(t)
  BY Zenon
<1>2. m \in Nat /\ n \in Nat
  BY Zenon, <1>1, SequenceType
<1>3. u \in Seq(S) /\ Len(u) = m + n /\ \A i \in 1 .. m + n : u[i] = IF i <= m THEN s[i] ELSE t[i - m]
  BY Zenon, <1>1, Concatenation
<1>4. SubSeq(u, m + 1, m + n) = [i \in 1 .. n |-> u[i + m]]
  BY <1>1, <1>2, <1>3
<1>5. ASSUME NEW i \in 1 .. n PROVE u[i + m] = t[i]
  <2>1. i + m \in 1 .. m + n /\ ~(i + m <= m) /\ (i + m) - m = i
    BY <1>2
  <2> QED
    BY Zenon, <1>3, <2>1
<1>6. t = [i \in 1 .. n |-> t[i]]
  BY <1>1, <1>2
<1> QED
  BY Zenon, <1>1, <1>4, <1>5, <1>6

--------------------------------------------------------------------------------
(* Sections.                                                                 *)

(* Division by the number of bytes.                                          *)
LEMMA DivMod ==
  ASSUME NEW a \in Nat
  PROVE  /\ a \div SectionRadix \in Nat /\ a % SectionRadix \in Nat
         /\ a = SectionRadix * (a \div SectionRadix) + (a % SectionRadix)
<1>1. SectionRadix \in Int /\ SectionRadix > 0 /\ a \in Int
  BY SectionsAssumption
<1>2. a = SectionRadix * (a \div SectionRadix) + (a % SectionRadix)
  BY <1>1
<1>3. a \div SectionRadix \in Nat /\ a % SectionRadix \in Nat
  BY <1>1
<1> QED
  BY <1>2, <1>3

(* The bytes of a length are the digits of its quotients.                    *)
Quotients(s, n) ==
  /\ s \in [0 .. LengthBytes -> Nat] /\ s[0] = n
  /\ \A i \in 1 .. LengthBytes : s[i] = s[i - 1] \div SectionRadix

LEMMA BigEndianDigits ==
  ASSUME NEW n \in Nat
  PROVE  \E s : /\ Quotients(s, n)
                /\ BigEndian(n) = [i \in 1 .. LengthBytes |-> s[LengthBytes - i] % SectionRadix]
<1> DEFINE P(g) == g = [i \in 0 .. LengthBytes |-> IF i = 0 THEN n ELSE g[i - 1] \div SectionRadix]
           shifted == CHOOSE g : P(g)
<1>1. LengthBytes \in Nat
  BY SectionsAssumption
<1>2. BigEndian(n) = [i \in 1 .. LengthBytes |-> shifted[LengthBytes - i] % SectionRadix]
  BY Zenon DEF BigEndian
<1>3. PICK f : f = [k \in 1 .. LengthBytes |-> [v \in Nat |-> v \div SectionRadix]]
  BY Zenon
<1>4. f \in [1 .. LengthBytes -> [Nat -> Nat]]
  BY Zenon, <1>3, DivMod
<1>5. PICK s : Recursion(s, Nat, n, f, LengthBytes)
  BY Zenon, <1>1, <1>4, RecursionExists
<1>6. s \in [0 .. LengthBytes -> Nat] /\ s[0] = n
  BY Zenon, <1>5 DEF Recursion
<1>7. ASSUME NEW i \in 1 .. LengthBytes PROVE s[i] = s[i - 1] \div SectionRadix
  <2>1. i - 1 \in 0 .. LengthBytes
    BY <1>1
  <2> QED
    BY Zenon, <1>3, <1>5, <1>6, <2>1 DEF Recursion
<1>8. P(s)
  <2>1. \A i \in 0 .. LengthBytes : i = 0 \/ i \in 1 .. LengthBytes
    BY <1>1
  <2>2. \A i \in 0 .. LengthBytes : s[i] = IF i = 0 THEN n ELSE s[i - 1] \div SectionRadix
    BY Zenon, <1>6, <1>7, <2>1
  <2> QED
    BY Zenon, <1>6, <2>2
<1>9. P(shifted)
  BY Zenon, <1>8
<1> HIDE DEF shifted
<1>10. shifted[0] = s[0]
  <2>1. 0 \in 0 .. LengthBytes
    BY <1>1
  <2> QED
    BY Zenon, <1>6, <1>9, <2>1
<1>11. ASSUME NEW i \in 1 .. LengthBytes, shifted[i - 1] = s[i - 1] PROVE shifted[i] = s[i]
  <2>1. i \in 0 .. LengthBytes /\ i # 0
    BY <1>1
  <2> QED
    BY Zenon, <1>7, <1>9, <1>11, <2>1
<1>12. \A i \in 0 .. LengthBytes : shifted[i] = s[i]
  <2>1. GoOnAlike(shifted, s, LengthBytes)
    BY Zenon, <1>10, <1>11 DEF GoOnAlike
  <2>2. AlikeTo(shifted, s, LengthBytes)
    BY Zenon, <1>1, <2>1, SameRecursion
  <2> QED
    BY Zenon, <2>2 DEF AlikeTo
<1>13. shifted = s
  <2>1. shifted = [i \in 0 .. LengthBytes |-> shifted[i]]
    BY Zenon, <1>9
  <2>2. s = [i \in 0 .. LengthBytes |-> s[i]]
    BY Zenon, <1>6
  <2> QED
    BY Zenon, <1>12, <2>1, <2>2
<1> QED
  BY Zenon, <1>2, <1>6, <1>7, <1>13 DEF Quotients

(* SectionLimit is the last of the powers.                                   *)
Powers(p) ==
  /\ p \in [0 .. LengthBytes -> Nat] /\ p[0] = 1
  /\ \A i \in 1 .. LengthBytes : p[i] = p[i - 1] * SectionRadix

LEMMA LimitIsPower == \E p : Powers(p) /\ SectionLimit = p[LengthBytes]
<1> DEFINE P(g) == g = [i \in 0 .. LengthBytes |-> IF i = 0 THEN 1 ELSE g[i - 1] * SectionRadix]
           power == CHOOSE g : P(g)
<1>1. LengthBytes \in Nat /\ SectionRadix \in Nat
  BY SectionsAssumption
<1>2. SectionLimit = power[LengthBytes]
  BY Zenon DEF SectionLimit
<1>3. PICK f : f = [k \in 1 .. LengthBytes |-> [v \in Nat |-> v * SectionRadix]]
  BY Zenon
<1>4. f \in [1 .. LengthBytes -> [Nat -> Nat]]
  <2>1. \A v \in Nat : v * SectionRadix \in Nat
    BY <1>1
  <2> QED
    BY Zenon, <1>3, <2>1
<1>5. PICK p : Recursion(p, Nat, 1, f, LengthBytes)
  <2>1. 1 \in Nat
    OBVIOUS
  <2> QED
    BY Zenon, <1>1, <1>4, <2>1, RecursionExists
<1>6. p \in [0 .. LengthBytes -> Nat] /\ p[0] = 1
  BY Zenon, <1>5 DEF Recursion
<1>7. ASSUME NEW i \in 1 .. LengthBytes PROVE p[i] = p[i - 1] * SectionRadix
  <2>1. i - 1 \in 0 .. LengthBytes
    BY <1>1
  <2> QED
    BY Zenon, <1>3, <1>5, <1>6, <2>1 DEF Recursion
<1>8. P(p)
  <2>1. \A i \in 0 .. LengthBytes : i = 0 \/ i \in 1 .. LengthBytes
    BY <1>1
  <2>2. \A i \in 0 .. LengthBytes : p[i] = IF i = 0 THEN 1 ELSE p[i - 1] * SectionRadix
    BY Zenon, <1>6, <1>7, <2>1
  <2> QED
    BY Zenon, <1>6, <2>2
<1>9. P(power)
  BY Zenon, <1>8
<1> HIDE DEF power
<1>10. power[0] = p[0]
  <2>1. 0 \in 0 .. LengthBytes
    BY <1>1
  <2> QED
    BY Zenon, <1>6, <1>9, <2>1
<1>11. ASSUME NEW i \in 1 .. LengthBytes, power[i - 1] = p[i - 1] PROVE power[i] = p[i]
  <2>1. i \in 0 .. LengthBytes /\ i # 0
    BY <1>1
  <2> QED
    BY Zenon, <1>7, <1>9, <1>11, <2>1
<1>12. \A i \in 0 .. LengthBytes : power[i] = p[i]
  <2>1. GoOnAlike(power, p, LengthBytes)
    BY Zenon, <1>10, <1>11 DEF GoOnAlike
  <2>2. AlikeTo(power, p, LengthBytes)
    BY Zenon, <1>1, <2>1, SameRecursion
  <2> QED
    BY Zenon, <2>2 DEF AlikeTo
<1>13. LengthBytes \in 0 .. LengthBytes
  BY <1>1
<1> QED
  BY Zenon, <1>2, <1>6, <1>7, <1>12, <1>13 DEF Powers

(* Below the limit nothing is left after the last byte.                      *)
LEMMA QuotientsRunOut ==
  ASSUME NEW n \in Nat, n < SectionLimit, NEW s, Quotients(s, n)
  PROVE  s[LengthBytes] = 0
<1>1. PICK p : Powers(p) /\ SectionLimit = p[LengthBytes]
  BY Zenon, LimitIsPower
<1>2. LengthBytes \in Nat /\ SectionRadix \in Nat /\ SectionRadix > 0
  BY SectionsAssumption
<1> DEFINE T == {k \in Nat : k <= LengthBytes => s[k] * p[k] <= n}
<1>3. 0 \in T
  <2>1. s[0] = n /\ p[0] = 1
    BY Zenon, <1>1 DEF Quotients, Powers
  <2> QED
    BY <2>1
<1>4. ASSUME NEW k \in Nat, k \in T PROVE k + 1 \in T
  <2> SUFFICES ASSUME k + 1 <= LengthBytes PROVE s[k + 1] * p[k + 1] <= n
    OBVIOUS
  <2>1. k \in 0 .. LengthBytes /\ k + 1 \in 1 .. LengthBytes /\ (k + 1) - 1 = k
    BY <1>2
  <2>2. s[k + 1] = s[k] \div SectionRadix /\ p[k + 1] = p[k] * SectionRadix
    BY Zenon, <1>1, <2>1 DEF Quotients, Powers
  <2>3. PICK a \in Nat, b \in Nat : a = s[k] /\ b = p[k]
    BY Zenon, <1>1, <2>1 DEF Quotients, Powers
  <2>4. PICK q \in Nat, r \in Nat : q = a \div SectionRadix /\ r = a % SectionRadix
                                   /\ a = SectionRadix * q + r
    BY DivMod
  <2>5. q * (b * SectionRadix) <= a * b
    <3>1. a * b = q * (b * SectionRadix) + r * b
      BY <1>2, <2>4
    <3>2. r * b \in Nat /\ q * (b * SectionRadix) \in Nat
      BY <1>2
    <3> QED
      BY <3>1, <3>2
  <2>6. a * b <= n
    BY <1>2, <1>4, <2>1, <2>3
  <2>7. s[k + 1] * p[k + 1] = q * (b * SectionRadix)
    BY Zenon, <2>2, <2>3, <2>4
  <2>8. q * (b * SectionRadix) \in Nat /\ a * b \in Nat
    BY <1>2
  <2> QED
    BY <2>5, <2>6, <2>7, <2>8
<1>5. Nat \subseteq T
  <2> HIDE DEF T
  <2> QED
    BY <1>3, <1>4, NaturalInduction
<1>6. s[LengthBytes] * p[LengthBytes] <= n
  BY <1>2, <1>5
<1>7. LengthBytes \in 0 .. LengthBytes
  BY <1>2
<1>8. PICK a \in Nat, b \in Nat : a = s[LengthBytes] /\ b = p[LengthBytes]
  BY Zenon, <1>1, <1>7 DEF Quotients, Powers
<1>9. a * b <= n /\ n < b
  BY Zenon, <1>1, <1>6, <1>8
<1>10. a = 0
  <2> SUFFICES ASSUME a # 0 PROVE FALSE
    OBVIOUS
  <2>1. PICK c \in Nat : a = c + 1
    <3>1. a - 1 \in Nat /\ a = (a - 1) + 1
      OBVIOUS
    <3> QED
      BY Zenon, <3>1
  <2>2. a * b = c * b + b /\ c * b \in Nat
    BY <2>1
  <2> QED
    BY <1>9, <2>2
<1> QED
  BY Zenon, <1>8, <1>10

(* A length is read back as it was written.                                  *)
LEMMA LengthIsRead ==
  ASSUME NEW n \in Nat, n < SectionLimit
  PROVE  /\ BigEndian(n) \in Seq(Nat) /\ Len(BigEndian(n)) = LengthBytes
         /\ FromBytes(BigEndian(n)) = n
<1>1. PICK L \in Nat : L = LengthBytes
  BY Zenon, SectionsAssumption
<1>2. PICK s, bytes : /\ Quotients(s, n) /\ bytes = BigEndian(n)
                      /\ bytes = [i \in 1 .. L |-> s[L - i] % SectionRadix]
  BY Zenon, <1>1, BigEndianDigits
<1>3. s \in [0 .. L -> Nat] /\ s[0] = n /\ s[L] = 0
  BY Zenon, <1>1, <1>2, QuotientsRunOut DEF Quotients
<1>4. ASSUME NEW k \in 1 .. L
      PROVE  /\ bytes[k] = s[L - k] % SectionRadix /\ bytes[k] \in Nat
             /\ s[L - k] = s[L - (k - 1)] * SectionRadix + bytes[k]
  <2>1. L - k \in 0 .. L /\ L - (k - 1) \in 1 .. L /\ (L - (k - 1)) - 1 = L - k
    OBVIOUS
  <2>2. PICK a \in Nat : a = s[L - k]
    BY Zenon, <1>3, <2>1
  <2>3. s[L - (k - 1)] = a \div SectionRadix /\ bytes[k] = a % SectionRadix
    BY Zenon, <1>1, <1>2, <2>1, <2>2 DEF Quotients
  <2>4. /\ a \div SectionRadix \in Nat /\ a % SectionRadix \in Nat
        /\ a = SectionRadix * (a \div SectionRadix) + (a % SectionRadix)
    BY Zenon, DivMod
  <2>5. a = (a \div SectionRadix) * SectionRadix + (a % SectionRadix)
    <3>1. PICK q \in Nat, r \in Nat : q = a \div SectionRadix /\ r = a % SectionRadix
      BY Zenon, <2>4
    <3>2. a = SectionRadix * q + r
      BY Zenon, <2>4, <3>1
    <3>3. a = q * SectionRadix + r
      BY <3>2, SectionsAssumption
    <3> QED
      BY Zenon, <3>1, <3>3
  <2> QED
    BY Zenon, <2>2, <2>3, <2>4, <2>5
<1>5. bytes \in Seq(Nat) /\ Len(bytes) = L
  <2>1. bytes \in [1 .. L -> Nat]
    BY Zenon, <1>2, <1>4
  <2>2. bytes \in Seq(Nat)
    BY Zenon, <2>1, SequencesAreFunctions
  <2> QED
    BY <1>2, <2>2, SequenceType
<1> DEFINE P(g) == g = [k \in 0 .. L |-> IF k = 0 THEN 0 ELSE g[k - 1] * SectionRadix + bytes[k]]
           upto == CHOOSE g : P(g)
           back == [k \in 0 .. L |-> s[L - k]]
<1>6. FromBytes(bytes) = upto[L]
  BY Zenon, <1>5 DEF FromBytes
<1>7. /\ \A k \in 0 .. L : back[k] = s[L - k]
      /\ 0 \in 0 .. L /\ L \in 0 .. L /\ L - 0 = L /\ L - L = 0
      /\ \A k \in 0 .. L : k = 0 \/ k \in 1 .. L
      /\ \A k \in 1 .. L : k \in 0 .. L /\ k - 1 \in 0 .. L /\ k # 0
  OBVIOUS
<1>8. P(back)
  <2>1. \A k \in 0 .. L : back[k] = IF k = 0 THEN 0 ELSE back[k - 1] * SectionRadix + bytes[k]
    <3> HIDE DEF back
    <3>1. back[0] = 0
      BY Zenon, <1>3, <1>7
    <3>2. \A k \in 1 .. L : back[k] = back[k - 1] * SectionRadix + bytes[k]
      BY Zenon, <1>4, <1>7
    <3> QED
      BY Zenon, <1>7, <3>1, <3>2
  <2> QED
    BY Zenon, <2>1
<1>9. P(upto)
  BY Zenon, <1>8
<1> HIDE DEF upto, back
<1>10. upto[0] = back[0]
  BY Zenon, <1>7, <1>8, <1>9
<1>11. ASSUME NEW k \in 1 .. L, upto[k - 1] = back[k - 1] PROVE upto[k] = back[k]
  <2>1. k \in 0 .. L /\ k # 0
    BY Zenon, <1>7
  <2>2. upto[k] = upto[k - 1] * SectionRadix + bytes[k]
    BY Zenon, <1>9, <2>1
  <2>3. back[k] = back[k - 1] * SectionRadix + bytes[k]
    BY Zenon, <1>8, <2>1
  <2> QED
    BY Zenon, <1>11, <2>2, <2>3
<1>12. \A k \in 0 .. L : upto[k] = back[k]
  <2>1. GoOnAlike(upto, back, L)
    BY Zenon, <1>10, <1>11 DEF GoOnAlike
  <2>2. AlikeTo(upto, back, L)
    BY Zenon, <2>1, SameRecursion
  <2> QED
    BY Zenon, <2>2 DEF AlikeTo
<1>13. upto[L] = n
  BY Zenon, <1>3, <1>7, <1>12
<1> QED
  BY Zenon, <1>1, <1>2, <1>5, <1>6, <1>13
(* A byte string that fits into a section.                                   *)
Section == {s \in Seq(Nat) : Len(s) < SectionLimit}

(* split_tail takes off what encode_sections has put last.                   *)
LEMMA TailIsSplit ==
  ASSUME NEW d \in Seq(Nat), NEW s \in Section, NEW e, e = d \o s \o BigEndian(Len(s))
  PROVE  e \in Seq(Nat) /\ split_tail(e) = [rest |-> d, tail |-> s]
<1>b. PICK b : b = BigEndian(Len(s))
  BY Zenon
<1>1. PICK L \in Nat, m \in Nat, n \in Nat : /\ L = LengthBytes /\ m = Len(d) /\ n = Len(s)
                                            /\ b = BigEndian(n)
  <2>1. Len(d) \in Nat /\ Len(s) \in Nat
    BY Zenon, SequenceType DEF Section
  <2> QED
    BY Zenon, <1>b, <2>1, SectionsAssumption
<1>2. s \in Seq(Nat) /\ n < SectionLimit
  BY Zenon, <1>1 DEF Section
<1>3. b \in Seq(Nat) /\ Len(b) = L /\ FromBytes(b) = n
  BY Zenon, <1>1, <1>2, LengthIsRead
<1>4. PICK ds, sb : /\ ds = d \o s /\ ds \in Seq(Nat) /\ Len(ds) = m + n
                    /\ sb = s \o b /\ sb \in Seq(Nat) /\ Len(sb) = n + L
  <2>1. d \o s \in Seq(Nat) /\ Len(d \o s) = Len(d) + Len(s)
    BY Zenon, <1>2, Concatenation
  <2>2. s \o b \in Seq(Nat) /\ Len(s \o b) = Len(s) + Len(b)
    BY Zenon, <1>2, <1>3, Concatenation
  <2> QED
    BY Zenon, <1>1, <1>3, <2>1, <2>2
<1>5. /\ e = ds \o b /\ e = d \o sb /\ e \in Seq(Nat) /\ Len(e) = m + n + L
  <2>1. e = ds \o b
    BY Zenon, <1>1, <1>4
  <2>2. e \in Seq(Nat) /\ Len(e) = (m + n) + L
    <3>1. ds \o b \in Seq(Nat) /\ Len(ds \o b) = Len(ds) + Len(b)
      BY Zenon, <1>3, <1>4, Concatenation
    <3> QED
      BY Zenon, <1>3, <1>4, <2>1, <3>1
  <2>3. Regroups(d, s, b)
    BY Zenon, <1>2, <1>3, Regrouping
  <2> QED
    BY Zenon, <1>4, <2>1, <2>2, <2>3 DEF Regroups
<1>6. TailLength(e) = n
  <2>1. SubSeq(ds \o b, (m + n) + 1, (m + n) + L) = b
    BY Zenon, <1>3, <1>4, LastPart
  <2>2. Len(e) - L + 1 = (m + n) + 1 /\ Len(e) = (m + n) + L
    BY <1>5
  <2> QED
    BY Zenon, <1>1, <1>3, <1>5, <2>1, <2>2 DEF TailLength
<1>7. Len(e) - L - n = m
  BY <1>5
<1>8. SubSeq(e, 1, m) = d
  BY <1>1, <1>4, <1>5, FirstPart
<1>9. SubSeq(e, m + 1, Len(e)) = sb
  <2>1. SubSeq(d \o sb, m + 1, m + (n + L)) = sb
    BY ZenonT(60), <1>1, <1>4, LastPart
  <2>2. Len(e) = m + (n + L)
    BY <1>5
  <2> QED
    BY Zenon, <1>5, <2>1, <2>2
<1>10. SubSeq(sb, 1, n) = s
  BY <1>1, <1>2, <1>3, <1>4, FirstPart
<1>11. SplitOff(e, m) = [rest |-> d, tail |-> sb]
  BY Zenon, <1>8, <1>9 DEF SplitOff
<1>12. split_tail(e) = [rest |-> SplitOff(e, m).rest, tail |-> SubSeq(SplitOff(e, m).tail, 1, n)]
  BY Zenon, <1>1, <1>6, <1>7 DEF split_tail
<1>13. SplitOff(e, m).rest = d /\ SplitOff(e, m).tail = sb
  BY <1>11
<1> QED
  BY Zenon, <1>5, <1>10, <1>12, <1>13

(* What encode_sections makes of two sections.                               *)
LEMMA TwoSections ==
  ASSUME NEW a \in Section, NEW b \in Section
  PROVE  encode_sections(<<a, b>>) = (a \o BigEndian(Len(a))) \o b \o BigEndian(Len(b))
<1> DEFINE sections == <<a, b>>
           P(g) == g = [n \in 0 .. 2 |-> IF n = 0 THEN <<>>
                          ELSE g[n - 1] \o sections[n] \o BigEndian(Len(sections[n]))]
           upto == CHOOSE g : P(g)
<1>1. sections[1] = a /\ sections[2] = b /\ Len(sections) = 2
  OBVIOUS
<1>2. PICK x, y : x = (<<>> \o a) \o BigEndian(Len(a)) /\ y = (x \o b) \o BigEndian(Len(b))
  BY Zenon
<1>3. encode_sections(sections) = upto[2]
  BY Zenon, <1>1 DEF encode_sections
<1> HIDE DEF sections
<1>4. \E g : P(g)
  <2> DEFINE h == [n \in 0 .. 2 |-> IF n = 0 THEN <<>> ELSE IF n = 1 THEN x ELSE y]
  <2>1. h[0] = <<>> /\ h[1] = x /\ h[2] = y
    OBVIOUS
  <2>2. \A n \in 0 .. 2 : n = 0 \/ (n = 1 /\ n - 1 = 0) \/ (n = 2 /\ n - 1 = 1)
    OBVIOUS
  <2>3. \A n \in 0 .. 2 : h[n] = IF n = 0 THEN <<>>
                                ELSE h[n - 1] \o sections[n] \o BigEndian(Len(sections[n]))
    <3> HIDE DEF h
    <3> TAKE n \in 0 .. 2
    <3>1. CASE n = 0
      BY Zenon, <2>1, <3>1
    <3>2. CASE n = 1 /\ n - 1 = 0
      BY <1>1, <1>2, <2>1, <3>2
    <3>3. CASE n = 2 /\ n - 1 = 1
      BY <1>1, <1>2, <2>1, <3>3
    <3> QED
      BY Zenon, <2>2, <3>1, <3>2, <3>3
  <2>4. P(h)
    BY Zenon, <2>3
  <2> QED
    BY Zenon, <2>4
<1>5. P(upto)
  BY Zenon, <1>4
<1> HIDE DEF upto
<1>6. 0 \in 0 .. 2 /\ 1 \in 0 .. 2 /\ 2 \in 0 .. 2 /\ 1 # 0 /\ 2 # 0 /\ 1 - 1 = 0 /\ 2 - 1 = 1
  OBVIOUS
<1>7. upto[0] = <<>>
  BY Zenon, <1>5, <1>6
<1>8. upto[1] = upto[0] \o sections[1] \o BigEndian(Len(sections[1]))
  BY Zenon, <1>5, <1>6
<1>9. upto[2] = upto[1] \o sections[2] \o BigEndian(Len(sections[2]))
  BY Zenon, <1>5, <1>6
<1>10. <<>> \o a = a
  BY ConcatNothing DEF Section
<1> QED
  BY Zenon, <1>1, <1>3, <1>7, <1>8, <1>9, <1>10 DEF sections

(* The record an import answers with is the one the contract takes.          *)
LEMMA SectionsAreTaken ==
  ASSUME NEW a \in Section, NEW b \in Section
  PROVE  decode_sections2(encode_sections(<<a, b>>)) = <<a, b>>
<1>1. PICK x, y, e : x = a \o BigEndian(Len(a)) /\ y = <<>> \o a \o BigEndian(Len(a))
                     /\ e = x \o b \o BigEndian(Len(b))
  BY Zenon
<1>2. <<>> \in Seq(Nat) /\ <<>> \o a = a /\ x = y
  <2>1. <<>> \o a = a
    BY ConcatNothing DEF Section
  <2> QED
    BY Zenon, <1>1, <2>1, EmptySequence
<1>3. x \in Seq(Nat) /\ split_tail(x) = [rest |-> <<>>, tail |-> a]
  BY <1>1, <1>2, TailIsSplit
<1>4. split_tail(e) = [rest |-> x, tail |-> b]
  BY <1>1, <1>3, TailIsSplit
<1>5. split_tail(e).rest = x /\ split_tail(e).tail = b /\ split_tail(x).tail = a
  BY <1>3, <1>4
<1>6. encode_sections(<<a, b>>) = e
  BY Zenon, <1>1, TwoSections
<1> QED
  BY Zenon, <1>5, <1>6 DEF decode_sections2

(* Keys and values fit into sections, as does the empty string.              *)
LEMMA BytesFit ==
  /\ GuestKeys \subseteq Section /\ GuestValues \subseteq Section /\ <<>> \in Section
  /\ GuestKeys \subseteq Seq(Nat)
<1>1. ASSUME NEW s \in GuestKeys \cup GuestValues PROVE s \in Seq(Nat) /\ Len(s) < SectionLimit
  <2>1. s \in Seq(0 .. SectionRadix - 1) /\ Len(s) < SectionLimit
    BY Zenon, BytesAssumption
  <2>2. s \in [1 .. Len(s) -> 0 .. SectionRadix - 1] /\ Len(s) \in Nat
    BY Zenon, <2>1, SequenceType
  <2>3. 0 .. SectionRadix - 1 \subseteq Nat
    BY SectionsAssumption
  <2>4. s \in [1 .. Len(s) -> Nat]
    BY Zenon, <2>2, <2>3
  <2>5. s \in Seq(Nat)
    BY <2>2, <2>4, SequencesAreFunctions
  <2> QED
    BY Zenon, <2>1, <2>5
<1>2. <<>> \in Seq(Nat) /\ Len(<<>>) = 0
  OBVIOUS
<1>3. 0 < SectionLimit
  <2>1. PICK p : Powers(p) /\ SectionLimit = p[LengthBytes]
    BY Zenon, LimitIsPower
  <2>2. LengthBytes \in Nat /\ SectionRadix \in Nat /\ SectionRadix > 0
    BY SectionsAssumption
  <2> DEFINE T == {k \in Nat : k <= LengthBytes => p[k] \in Nat /\ p[k] > 0}
  <2>3. 0 \in T
    BY <2>1 DEF Powers
  <2>4. ASSUME NEW k \in Nat, k \in T PROVE k + 1 \in T
    <3> SUFFICES ASSUME k + 1 <= LengthBytes PROVE p[k + 1] \in Nat /\ p[k + 1] > 0
      OBVIOUS
    <3>1. k + 1 \in 1 .. LengthBytes /\ (k + 1) - 1 = k /\ p[k] \in Nat /\ p[k] > 0
      BY <2>2, <2>4
    <3>2. p[k + 1] = p[k] * SectionRadix
      BY Zenon, <2>1, <3>1 DEF Powers
    <3>3. PICK a \in Nat, b \in Nat : a = p[k] /\ b = SectionRadix /\ a > 0 /\ b > 0
      BY <2>2, <3>1
    <3>4. a * b \in Nat /\ a * b > 0
      BY <3>3
    <3> QED
      BY Zenon, <3>2, <3>3, <3>4
  <2>5. Nat \subseteq T
    <3> HIDE DEF T
    <3> QED
      BY <2>3, <2>4, NaturalInduction
  <2> QED
    BY <2>1, <2>2, <2>5
<1> QED
  BY Zenon, <1>1, <1>2, <1>3 DEF Section

(* A region for an answer has the answer in it.                              *)
LEMMA AnswerIsThere ==
  ASSUME HasRoom(heap, 1), NEW data, NEW p, p = Lowest(heap, 1),
         NEW h, h = Put(heap, p, <<release_buffer(data)>>)
  PROVE  p # <<>> /\ h[p[1]].data = data
<1>1. PICK F : F = FreePointers(heap)
  BY Zenon
<1>2. F \subseteq Pointers /\ F \subseteq Nat
  BY <1>1, RegionsAssumption DEF FreePointers, Pointers
<1>3. IsFiniteSet(F) /\ Cardinality(F) >= 1
  <2>1. IsFiniteSet(Pointers)
    BY RegionsAssumption, FS_Interval DEF Pointers
  <2> QED
    BY Zenon, <1>1, <1>2, <2>1, FS_Subset DEF HasRoom
<1>4. F # {}
  BY <1>3, FS_EmptySet
<1>5. PICK a \in F : \A q \in F : a <= q
  BY Zenon, <1>2, <1>4, LeastNatural
<1>6. {q \in F : q < a} = {}
  <2>1. \A q \in F : ~(q < a)
    BY <1>2, <1>5
  <2> QED
    BY Zenon, <2>1
<1>7. Cardinality({q \in F : q < a}) = 0
  BY Zenon, <1>6, FS_EmptySet
<1>8. p = [i \in 1 .. 1 |-> CHOOSE x \in F : Cardinality({q \in F : q < x}) = i - 1]
  BY <1>1 DEF Lowest
<1>9. 1 \in 1 .. 1 /\ 1 - 1 = 0 /\ \A i \in 1 .. 1 : i = 1
  OBVIOUS
<1>10. p[1] \in F /\ DOMAIN p = 1 .. 1
  <2>1. p[1] = CHOOSE x \in F : Cardinality({q \in F : q < x}) = 1 - 1
    BY Zenon, <1>8, <1>9
  <2>2. Cardinality({q \in F : q < a}) = 1 - 1
    BY <1>7
  <2>3. p[1] \in F
    BY Zenon, <1>5, <2>1, <2>2
  <2> QED
    BY Zenon, <1>8, <2>3
<1>11. (CHOOSE i \in DOMAIN p : p[i] = p[1]) = 1
  BY Zenon, <1>9, <1>10
<1>12. h[p[1]] = <<release_buffer(data)>>[1]
  BY Zenon, <1>2, <1>9, <1>10, <1>11 DEF Put
<1>13. h[p[1]].data = data
  BY <1>12 DEF release_buffer
<1>14. p # <<>>
  BY <1>9, <1>10
<1> QED
  BY Zenon, <1>13, <1>14

--------------------------------------------------------------------------------
(* The invariant.                                                            *)

Record == GuestKeys \X GuestValues

(* The storage holds keys and values of the contract, and so does whatever   *)
(* an iterator has still to give.                                            *)
StoreInv ==
  /\ IsFiniteSet(DOMAIN store) /\ DOMAIN store \subseteq GuestKeys
  /\ \A k \in DOMAIN store : store[k] \in GuestValues
  /\ iterators \in Seq(Seq(Record))

IsImport(o) ==
  o = [fn |-> o.fn, inputs |-> o.inputs, details |-> o.details, answer |-> o.answer,
       borrowed |-> o.borrowed, buffer |-> o.buffer]

(* What an import is about.                                                  *)
About(o, open) ==
  /\ IsImport(o)
  /\ o.fn \in {"db_read", "db_remove", "db_write"} => o.inputs[1] \in GuestKeys
  /\ o.fn = "db_write" => o.inputs[2] \in GuestValues
  /\ o.fn = "db_next" => o.details \in open

ImportInv ==
  /\ pc \in {"import", "answer"} => About(op, DOMAIN expected)
  /\ pc = "import" => op.answer = <<>>

Answered(fn) == pc = "answer" /\ op.fn = fn

(* A write that is done and that the contract has not yet heard of.          *)
Writing(k) == (Answered("db_write") \/ Answered("db_remove")) /\ op.inputs[1] = k

(* The contract's view is the storage, except for what is being written and  *)
(* what was written without being paid for.                                  *)
ViewInv ==
  /\ \A k \in GuestKeys : k \notin unpaid /\ ~Writing(k) => get(view, k) = get(store, k)
  /\ Answered("db_write") => get(store, op.inputs[1]) = <<op.inputs[2]>>
  /\ Answered("db_remove") => get(store, op.inputs[1]) = <<>>
  /\ Answered("db_read") =>
       get(store, op.inputs[1]) = IF op.answer = <<>> THEN <<>> ELSE <<heap[op.answer[1]].data>>

Rest(s) == IF s = <<>> THEN <<>> ELSE Tail(s)
FirstOf(s) == IF s = <<>> THEN <<<<>>, <<>>>> ELSE Head(s)

(* What an iterator has to give is what the contract expects, one record     *)
(* less while a record is on its way.                                        *)
ScanInv ==
  /\ pc # "idle" =>
       \A id \in DOMAIN expected :
         /\ id \in 1 .. Len(iterators) /\ expected[id] \in Seq(Record)
         /\ iterators[id] = IF Answered("db_next") /\ op.details = id
                            THEN Rest(expected[id]) ELSE expected[id]
  /\ Answered("db_scan") =>
       /\ Len(iterators) \in 1 .. Len(iterators)
       /\ iterators[Len(iterators)] = range(store, op.details[1], op.details[2], op.details[3])
  /\ Answered("db_next") =>
       /\ op.answer # <<>>
       /\ heap[op.answer[1]].data = encode_sections(FirstOf(expected[op.details]))

GuestStorageInv == StoreInv /\ ImportInv /\ ViewInv /\ ScanInv

(* A range of the storage is made of its records.                            *)
LEMMA RangeIsRecords ==
  ASSUME StoreInv, NEW start, NEW end, NEW order
  PROVE  range(store, start, end, order) \in Seq(Record)
<1>1. Storage(store)
  BY Zenon, BytesFit DEF StoreInv, Storage
<1>2. PICK keys : Lists(range(store, start, end, order), keys, store, start, end, order)
  BY Zenon, <1>1, RangeIsSorted
<1>a. /\ keys \in Seq(Selected(store, start, end))
      /\ range(store, start, end, order) = [i \in DOMAIN keys |-> <<keys[i], store[keys[i]]>>]
  BY Zenon, <1>2 DEF Lists
<1>3. PICK n \in Nat : n = Len(keys) /\ DOMAIN keys = 1 .. n
  BY Zenon, <1>a, SequenceType
<1>4. \A i \in 1 .. n : keys[i] \in Selected(store, start, end)
  BY Zenon, <1>a, <1>3, ElementType
<1>5. Selected(store, start, end) \subseteq DOMAIN store
  BY Zenon DEF Selected
<1>6. \A i \in 1 .. n : <<keys[i], store[keys[i]]>> \in Record
  <2>1. \A i \in 1 .. n : keys[i] \in GuestKeys /\ store[keys[i]] \in GuestValues
    BY Zenon, <1>4, <1>5 DEF StoreInv
  <2> QED
    BY <2>1 DEF Record
<1>7. [i \in 1 .. n |-> <<keys[i], store[keys[i]]>>] \in [1 .. n -> Record]
  BY Zenon, <1>6
<1> QED
  BY <1>a, <1>3, <1>7, SequencesAreFunctions

(* A call that ends or goes on without an import having been answered.       *)
LEMMA NothingWritten ==
  ASSUME GuestStorageInv, UNCHANGED storeVars, ~Answered("db_write"), ~Answered("db_remove"),
         ~Answered("db_next"),
         pc' \in {"idle", "arguments", "entry", "contract", "result"}, pc' # "idle" => pc # "idle"
  PROVE  GuestStorageInv'
<1>1. /\ store' = store /\ iterators' = iterators /\ view' = view /\ unpaid' = unpaid
      /\ expected' = expected
  BY Zenon DEF storeVars
<1>2. pc' # "answer" /\ pc' # "import"
  OBVIOUS
<1>3. StoreInv' /\ ImportInv'
  BY Zenon, <1>1, <1>2 DEF GuestStorageInv, StoreInv, ImportInv
<1>4. ViewInv'
  BY Zenon, <1>1, <1>2 DEF GuestStorageInv, ViewInv, Answered, Writing
<1>5. ScanInv'
  BY Zenon, <1>1, <1>2 DEF GuestStorageInv, ScanInv, Answered
<1> QED
  BY Zenon, <1>3, <1>4, <1>5 DEF GuestStorageInv

(* An import that was answered, without having touched the storage.          *)
LEMMA NothingTouched ==
  ASSUME GuestStorageInv, UNCHANGED storeVars, pc = "import", pc' = "answer",
         op'.fn = op.fn, op'.inputs = op.inputs, op'.details = op.details, IsImport(op'),
         op.fn \notin {"db_read", "db_write", "db_remove", "db_scan", "db_next"}
  PROVE  GuestStorageInv'
<1>1. /\ store' = store /\ iterators' = iterators /\ view' = view /\ unpaid' = unpaid
      /\ expected' = expected
  BY Zenon DEF storeVars
<1>2. /\ op.fn # "db_read" /\ op.fn # "db_write" /\ op.fn # "db_remove" /\ op.fn # "db_scan"
      /\ op.fn # "db_next"
  OBVIOUS
<1>3. StoreInv'
  BY Zenon, <1>1 DEF GuestStorageInv, StoreInv
<1>4. ImportInv'
  BY Zenon, <1>2 DEF ImportInv, About
<1>5. pc # "answer" /\ pc # "idle"
  OBVIOUS
<1>6. ViewInv'
  BY Zenon, <1>1, <1>2, <1>5 DEF GuestStorageInv, ViewInv, Answered, Writing
<1>7. ScanInv'
  BY Zenon, <1>1, <1>2, <1>5 DEF GuestStorageInv, ScanInv, Answered
<1> QED
  BY Zenon, <1>3, <1>4, <1>6, <1>7 DEF GuestStorageInv

LEMMA FailsIsQuiet ==
  ASSUME GuestStorageInv, pc = "import", Abort, UNCHANGED storeVars
  PROVE  GuestStorageInv'
<1>1. pc' = "idle" /\ pc # "answer"
  BY DEF Abort
<1> QED
  BY Zenon, <1>1, NothingWritten DEF Answered

(* write_to_contract.                                                        *)
LEMMA AnswerIsGiven ==
  ASSUME IsImport(op), NEW data, AnswerWith(data), ~Abort
  PROVE  /\ pc' = "answer" /\ IsImport(op')
         /\ op'.fn = op.fn /\ op'.inputs = op.inputs /\ op'.details = op.details
         /\ op'.answer # <<>> /\ heap'[op'.answer[1]].data = data
<1>1. PICK p : p = Lowest(heap, 1)
  BY Zenon
<1>2. /\ HasRoom(heap, 1) /\ heap' = Put(heap, p, <<release_buffer(data)>>)
      /\ op' = [op EXCEPT !.answer = p] /\ pc' = "answer"
  BY Zenon, <1>1 DEF AnswerWith
<1>3. p # <<>> /\ heap'[p[1]].data = data
  BY Zenon, <1>1, <1>2, AnswerIsThere
<1>4. op' = [fn |-> op.fn, inputs |-> op.inputs, details |-> op.details, answer |-> p,
             borrowed |-> op.borrowed, buffer |-> op.buffer]
  BY <1>2 DEF IsImport
<1>5. IsImport(op') /\ op'.fn = op.fn /\ op'.inputs = op.inputs /\ op'.details = op.details /\ op'.answer = p
  BY <1>4 DEF IsImport
<1> QED
  BY Zenon, <1>2, <1>3, <1>5

(* do_db_read.                                                               *)
LEMMA ReadStep ==
  ASSUME GuestStorageInv, do_db_read
  PROVE  GuestStorageInv'
<1>1. pc = "import" /\ op.fn = "db_read" /\ pc # "answer" /\ pc # "idle"
  BY DEF do_db_read, Importing
<1>2. CASE Abort /\ UNCHANGED storeVars
  BY Zenon, <1>1, <1>2, FailsIsQuiet
<1>3. CASE ~(Abort /\ UNCHANGED storeVars)
  <2>1. About(op, DOMAIN expected) /\ IsImport(op) /\ op.inputs[1] \in GuestKeys
    BY Zenon, <1>1 DEF GuestStorageInv, ImportInv, About
  <2>2. PICK value : value = get(store, op.inputs[1])
    BY Zenon
  <2>3. UNCHANGED storeVars /\ IF value = <<>> THEN NoAnswer ELSE AnswerWith(value[1])
    BY Zenon, <1>3, <2>2 DEF do_db_read, Fails
  <2>4. /\ store' = store /\ iterators' = iterators /\ view' = view /\ unpaid' = unpaid
        /\ expected' = expected
    BY Zenon, <2>3 DEF storeVars
  <2>5. /\ pc' = "answer" /\ IsImport(op')
        /\ op'.fn = op.fn /\ op'.inputs = op.inputs /\ op'.details = op.details
        /\ get(store, op.inputs[1]) = IF op'.answer = <<>> THEN <<>> ELSE <<heap'[op'.answer[1]].data>>
    <3>1. CASE value = <<>>
      <4>1. op' = op /\ pc' = "answer" /\ heap' = heap
        BY Zenon, <2>3, <3>1 DEF NoAnswer
      <4>2. op.answer = <<>>
        BY Zenon, <1>1 DEF GuestStorageInv, ImportInv
      <4> QED
        BY Zenon, <2>1, <2>2, <3>1, <4>1, <4>2
    <3>2. CASE value # <<>>
      <4>1. AnswerWith(value[1]) /\ ~Abort
        BY Zenon, <1>3, <2>3, <3>2
      <4>2. op'.answer # <<>> /\ heap'[op'.answer[1]].data = value[1]
        BY Zenon, <2>1, <4>1, AnswerIsGiven
      <4>3. value = <<store[op.inputs[1]]>>
        BY Zenon, <2>2, <3>2 DEF get
      <4>4. value = <<value[1]>>
        BY <4>3
      <4> QED
        BY Zenon, <2>1, <2>2, <4>1, <4>2, <4>4, AnswerIsGiven
    <3> QED
      BY Zenon, <3>1, <3>2
  <2>6. StoreInv' /\ ImportInv'
    BY Zenon, <1>1, <2>1, <2>4, <2>5 DEF GuestStorageInv, StoreInv, ImportInv, About
  <2>7. ViewInv'
    BY Zenon, <1>1, <2>4, <2>5 DEF GuestStorageInv, ViewInv, Answered, Writing
  <2>8. ScanInv'
    BY Zenon, <1>1, <2>4, <2>5 DEF GuestStorageInv, ScanInv, Answered
  <2> QED
    BY Zenon, <2>6, <2>7, <2>8 DEF GuestStorageInv
<1> QED
  BY Zenon, <1>2, <1>3

Writes(after) ==
  /\ pc = "import"
  /\ \/ op.fn = "db_write" /\ IsSet(after, store, op.inputs[1], op.inputs[2])
     \/ op.fn = "db_remove" /\ IsRemoved(after, store, op.inputs[1])

(* do_db_write and do_db_remove: a write that is applied and paid for.       *)
LEMMA WriteStep ==
  ASSUME GuestStorageInv, NEW after, Writes(after), WriteThrough(after)
  PROVE  GuestStorageInv'
<1>1. /\ pc = "import" /\ pc # "answer" /\ pc # "idle"
      /\ op.fn # "db_read" /\ op.fn # "db_scan" /\ op.fn # "db_next"
      /\ op.fn = "db_write" \/ op.fn = "db_remove"
      /\ op.fn \in {"db_read", "db_remove", "db_write"}
  BY DEF Writes
<1>2. CASE Fails
  BY Zenon, <1>1, <1>2, FailsIsQuiet DEF Fails
<1>3. CASE ~Fails
  <2>1. PICK key : key = op.inputs[1] /\ key \in GuestKeys
    BY Zenon, <1>1 DEF GuestStorageInv, ImportInv, About
  <2>2. /\ store' = after /\ iterators' = iterators /\ view' = view /\ expected' = expected
        /\ \/ NoAnswer /\ unpaid' = unpaid
           \/ Abort /\ unpaid' = unpaid \cup {key}
    BY Zenon, <1>3, <2>1 DEF WriteThrough
  <2>3. /\ SameElsewhere(after, store, key)
        /\ op.fn = "db_write" => get(after, key) = <<op.inputs[2]>>
        /\ op.fn = "db_remove" => get(after, key) = <<>>
    <3>1. CASE op.fn = "db_write"
      <4>1. IsSet(after, store, key, op.inputs[2]) /\ op.fn # "db_remove"
        BY <2>1, <3>1 DEF Writes
      <4>2. Holds(after, store, key, op.inputs[2])
        BY Zenon, <4>1, SetOperation
      <4> QED
        BY Zenon, <4>1, <4>2 DEF Holds
    <3>2. CASE op.fn = "db_remove"
      <4>1. IsRemoved(after, store, key) /\ op.fn # "db_write"
        BY <2>1, <3>2 DEF Writes
      <4> QED
        BY Zenon, <4>1, RemoveOperation
    <3> QED
      BY Zenon, <1>1, <3>1, <3>2
  <2>4. StoreInv'
    <3>1. /\ IsFiniteSet(DOMAIN store) /\ DOMAIN store \subseteq GuestKeys
          /\ \A k \in DOMAIN store : store[k] \in GuestValues
      BY Zenon DEF GuestStorageInv, StoreInv
    <3>2. CASE op.fn = "db_write"
      <4>1. PICK v : v = op.inputs[2] /\ v \in GuestValues
        BY Zenon, <1>1, <3>2 DEF GuestStorageInv, ImportInv, About
      <4>2. IsSet(after, store, key, v)
        BY <2>1, <3>2, <4>1 DEF Writes
      <4>3. Holds(after, store, key, v)
        BY Zenon, <4>2, SetOperation
      <4>4. IsFiniteSet(DOMAIN after)
        BY Zenon, <3>1, <4>3, FS_AddElement DEF Holds
      <4> QED
        BY Zenon, <2>1, <2>2, <3>1, <4>1, <4>3, <4>4 DEF GuestStorageInv, StoreInv, Holds, Elsewhere
    <3>3. CASE op.fn = "db_remove"
      <4>1. op.fn # "db_write"
        BY <3>3
      <4>2. IsRemoved(after, store, key)
        BY <2>1, <4>1 DEF Writes
      <4>3. /\ DOMAIN after = DOMAIN store \ {key}
            /\ Elsewhere(after, store, key)
        BY Zenon, <4>2, RemoveOperation
      <4>4. IsFiniteSet(DOMAIN after)
        BY Zenon, <3>1, <4>3, FS_RemoveElement
      <4> QED
        BY Zenon, <2>1, <2>2, <3>1, <4>3, <4>4 DEF GuestStorageInv, StoreInv, Elsewhere
    <3> QED
      BY Zenon, <1>1, <3>2, <3>3
  <2>5. CASE NoAnswer /\ unpaid' = unpaid
    <3>1. pc' = "answer" /\ op' = op /\ heap' = heap /\ unpaid' = unpaid
      BY Zenon, <2>5 DEF NoAnswer
    <3>2. ImportInv'
      BY Zenon, <1>1, <2>2, <3>1 DEF GuestStorageInv, ImportInv
    <3>3. \A k \in GuestKeys : k \notin unpaid' /\ ~Writing(k)' => get(view, k)' = get(store, k)'
      BY Zenon, <1>1, <2>1, <2>2, <2>3, <3>1 DEF GuestStorageInv, ViewInv, Answered, Writing, SameElsewhere
    <3>4. ViewInv'
      BY Zenon, <1>1, <2>1, <2>2, <2>3, <3>1, <3>3 DEF ViewInv, Answered
    <3>5. ScanInv'
      BY Zenon, <1>1, <2>2, <3>1 DEF GuestStorageInv, ScanInv, Answered
    <3> QED
      BY Zenon, <2>4, <3>2, <3>4, <3>5 DEF GuestStorageInv
  <2>6. CASE Abort /\ unpaid' = unpaid \cup {key}
    <3>1. pc' = "idle" /\ pc' # "answer" /\ pc' # "import" /\ unpaid' = unpaid \cup {key}
      BY <2>6 DEF Abort
    <3>2. ImportInv' /\ ScanInv'
      BY Zenon, <3>1 DEF ImportInv, ScanInv, Answered
    <3>3. ViewInv'
      BY Zenon, <1>1, <2>2, <2>3, <3>1 DEF GuestStorageInv, ViewInv, Answered, Writing, SameElsewhere
    <3> QED
      BY Zenon, <2>4, <3>2, <3>3 DEF GuestStorageInv
  <2> QED
    BY Zenon, <2>2, <2>5, <2>6
<1> QED
  BY Zenon, <1>2, <1>3

(* do_db_scan.                                                               *)
LEMMA ScanStep ==
  ASSUME GuestStorageInv, do_db_scan
  PROVE  GuestStorageInv'
<1>1. pc = "import" /\ op.fn = "db_scan" /\ pc # "answer" /\ pc # "idle"
  BY DEF do_db_scan, Importing
<1>2. CASE Fails
  BY Zenon, <1>1, <1>2, FailsIsQuiet DEF Fails
<1>3. CASE ~Fails
  <2>1. PICK records : records = range(store, op.details[1], op.details[2], op.details[3])
    BY Zenon
  <2>2. /\ iterators' = Append(iterators, records)
        /\ store' = store /\ view' = view /\ unpaid' = unpaid /\ expected' = expected
        /\ NoAnswer \/ Abort
    BY Zenon, <1>3, <2>1 DEF do_db_scan, scan
  <2>3. records \in Seq(Record) /\ iterators \in Seq(Seq(Record))
    BY Zenon, <2>1, RangeIsRecords DEF GuestStorageInv, StoreInv
  <2>4. PICK n \in Nat : n = Len(iterators)
    BY Zenon, <2>3, SequenceType
  <2>5. /\ iterators' \in Seq(Seq(Record)) /\ Len(iterators') = n + 1
        /\ iterators'[n + 1] = records /\ \A i \in 1 .. n : iterators'[i] = iterators[i]
    BY <2>2, <2>3, <2>4, AppendOne
  <2>6. 1 .. n \subseteq 1 .. n + 1 /\ n + 1 \in 1 .. n + 1
    OBVIOUS
  <2>7. StoreInv'
    BY Zenon, <2>2, <2>5 DEF GuestStorageInv, StoreInv
  <2>8. CASE NoAnswer
    <3>1. pc' = "answer" /\ op' = op /\ heap' = heap
      BY Zenon, <2>8 DEF NoAnswer
    <3>2. op.fn # "db_read" /\ op.fn # "db_next" /\ op.fn # "db_write" /\ op.fn # "db_remove" /\ pc' # "import"
      BY <1>1, <3>1
    <3>3. ImportInv'
      BY Zenon, <1>1, <2>2, <3>1, <3>2 DEF GuestStorageInv, ImportInv
    <3>4. ViewInv'
      BY Zenon, <1>1, <2>2, <3>1, <3>2 DEF GuestStorageInv, ViewInv, Answered, Writing
    <3>5. ASSUME NEW id \in DOMAIN expected
          PROVE  id \in 1 .. n + 1 /\ expected[id] \in Seq(Record) /\ iterators'[id] = expected[id]
      BY Zenon, <1>1, <2>4, <2>5, <2>6 DEF GuestStorageInv, ScanInv, Answered
    <3>6. ScanInv'
      BY Zenon, <2>1, <2>2, <2>5, <2>6, <3>1, <3>2, <3>5 DEF ScanInv, Answered
    <3> QED
      BY Zenon, <2>7, <3>3, <3>4, <3>6 DEF GuestStorageInv
  <2>9. CASE Abort
    <3>1. pc' = "idle" /\ pc' # "answer" /\ pc' # "import"
      BY <2>9 DEF Abort
    <3>2. ImportInv' /\ ScanInv'
      BY Zenon, <3>1 DEF ImportInv, ScanInv, Answered
    <3>3. ViewInv'
      BY Zenon, <1>1, <2>2, <3>1 DEF GuestStorageInv, ViewInv, Answered, Writing
    <3> QED
      BY Zenon, <2>7, <3>2, <3>3 DEF GuestStorageInv
  <2> QED
    BY Zenon, <2>2, <2>8, <2>9
<1> QED
  BY Zenon, <1>2, <1>3

LEMMA RestIsSequence ==
  ASSUME NEW S, NEW s \in Seq(S)
  PROVE  Rest(s) \in Seq(S) /\ (s = <<>> => Rest(s) = <<>>)
BY HeadAndTail, EmptySequence DEF Rest

(* do_db_next.                                                               *)
LEMMA NextStep ==
  ASSUME GuestStorageInv, do_db_next
  PROVE  GuestStorageInv'
<1>1. pc = "import" /\ op.fn = "db_next" /\ pc # "answer" /\ pc # "idle"
  BY DEF do_db_next, Importing
<1>2. CASE Fails
  BY Zenon, <1>1, <1>2, FailsIsQuiet DEF Fails
<1>3. CASE ~Fails
  <2>1. PICK it : it = op.details /\ it \in DOMAIN expected
    BY Zenon, <1>1 DEF GuestStorageInv, ImportInv, About
  <2>2. /\ it \in 1 .. Len(iterators) /\ expected[it] \in Seq(Record)
        /\ iterators[it] = expected[it]
    BY Zenon, <1>1, <2>1 DEF GuestStorageInv, ScanInv, Answered
  <2>3. PICK record : record = FirstOf(expected[it])
    BY Zenon
  <2>4. /\ iterators' = MovedOn(it)
        /\ store' = store /\ view' = view /\ unpaid' = unpaid /\ expected' = expected
        /\ AnswerWith(encode_sections(record)) \/ Abort
    <3>1. record = IF NextRecord(it) = <<>> THEN <<<<>>, <<>>>> ELSE NextRecord(it)[1]
      <4>1. CASE expected[it] = <<>>
        BY Zenon, <2>2, <2>3, <4>1 DEF NextRecord, FirstOf
      <4>2. CASE expected[it] # <<>>
        <5>1. NextRecord(it) = <<record>>
          BY Zenon, <2>2, <2>3, <4>2 DEF NextRecord, FirstOf
        <5>2. <<record>> # <<>> /\ <<record>>[1] = record
          OBVIOUS
        <5> QED
          BY Zenon, <5>1, <5>2
      <4> QED
        BY Zenon, <4>1, <4>2
    <3> QED
      BY Zenon, <1>3, <2>1, <3>1 DEF do_db_next
  <2>5. iterators \in Seq(Seq(Record)) /\ DOMAIN iterators = 1 .. Len(iterators)
    BY Zenon, SequenceType DEF GuestStorageInv, StoreInv
  <2>6. /\ iterators' = [iterators EXCEPT ![it] = Rest(expected[it])]
        /\ Rest(expected[it]) \in Seq(Record)
    BY Zenon, <2>2, <2>4, RestIsSequence DEF MovedOn, Rest
  <2>7. /\ iterators' \in Seq(Seq(Record)) /\ Len(iterators') = Len(iterators)
        /\ iterators'[it] = Rest(expected[it])
        /\ \A i \in 1 .. Len(iterators) : i # it => iterators'[i] = iterators[i]
    BY <2>2, <2>5, <2>6, ChangedElement
  <2>8. StoreInv'
    BY Zenon, <2>4, <2>7 DEF GuestStorageInv, StoreInv
  <2>9. CASE Abort
    <3>1. pc' = "idle" /\ pc' # "answer" /\ pc' # "import"
      BY <2>9 DEF Abort
    <3>2. ImportInv' /\ ScanInv'
      BY Zenon, <3>1 DEF ImportInv, ScanInv, Answered
    <3>3. ViewInv'
      BY Zenon, <1>1, <2>4, <3>1 DEF GuestStorageInv, ViewInv, Answered, Writing
    <3> QED
      BY Zenon, <2>8, <3>2, <3>3 DEF GuestStorageInv
  <2>10. CASE AnswerWith(encode_sections(record)) /\ ~Abort
    <3>1. IsImport(op)
      BY Zenon, <1>1 DEF GuestStorageInv, ImportInv, About
    <3>2. /\ pc' = "answer" /\ IsImport(op')
          /\ op'.fn = op.fn /\ op'.inputs = op.inputs /\ op'.details = op.details
          /\ op'.answer # <<>> /\ heap'[op'.answer[1]].data = encode_sections(record)
      BY Zenon, <2>10, <3>1, AnswerIsGiven
    <3>3. /\ op.fn # "db_read" /\ op.fn # "db_scan" /\ op.fn # "db_write" /\ op.fn # "db_remove"
          /\ pc' # "import"
      BY <1>1, <3>2
    <3>4. ImportInv'
      BY Zenon, <2>1, <2>4, <3>2, <3>3 DEF ImportInv, About
    <3>5. ViewInv'
      BY Zenon, <1>1, <2>4, <3>2, <3>3 DEF GuestStorageInv, ViewInv, Answered, Writing
    <3>6. ASSUME NEW id \in DOMAIN expected
          PROVE  /\ id \in 1 .. Len(iterators') /\ expected[id] \in Seq(Record)
                 /\ iterators'[id] = IF it = id THEN Rest(expected[id]) ELSE expected[id]
      BY Zenon, <1>1, <2>7 DEF GuestStorageInv, ScanInv, Answered
    <3>7. ScanInv'
      BY Zenon, <1>1, <2>1, <2>3, <2>4, <3>2, <3>3, <3>6 DEF ScanInv, Answered
    <3> QED
      BY Zenon, <2>8, <3>4, <3>5, <3>7 DEF GuestStorageInv
  <2> QED
    BY Zenon, <2>4, <2>9, <2>10
<1> QED
  BY Zenon, <1>2, <1>3

(* do_addr_*, the cryptography and do_query_chain.                           *)
LEMMA OtherImports ==
  ASSUME GuestStorageInv, do_addr \/ do_crypto \/ do_query_chain
  PROVE  GuestStorageInv'
<1>1. pc = "import" /\ op.fn \notin {"db_read", "db_write", "db_remove", "db_scan", "db_next"}
  BY DEF do_addr, do_crypto, do_query_chain, Importing
<1>2. UNCHANGED storeVars
  BY Zenon DEF do_addr, do_crypto, do_query_chain, Fails
<1>3. \/ Abort \/ (pc' = "answer" /\ op' = op) \/ \E data : AnswerWith(data)
  BY Zenon DEF do_addr, do_crypto, do_query_chain, Fails, NoAnswer
<1>4. CASE Abort
  BY Zenon, <1>1, <1>2, <1>4, FailsIsQuiet
<1>5. IsImport(op)
  BY <1>1 DEF GuestStorageInv, ImportInv, About
<1>6. CASE pc' = "answer" /\ op' = op
  BY Zenon, <1>1, <1>2, <1>5, <1>6, NothingTouched
<1>7. CASE ~Abort /\ \E data : AnswerWith(data)
  <2>1. PICK data : AnswerWith(data)
    BY Zenon, <1>7
  <2>2. /\ pc' = "answer" /\ IsImport(op')
        /\ op'.fn = op.fn /\ op'.inputs = op.inputs /\ op'.details = op.details
    BY Zenon, <1>5, <1>7, <2>1, AnswerIsGiven
  <2> QED
    BY Zenon, <1>1, <1>2, <2>2, NothingTouched
<1> QED
  BY Zenon, <1>3, <1>4, <1>6, <1>7

(* The contract makes an import.                                             *)
LEMMA AskStep ==
  ASSUME GuestStorageInv, NEW fn, NEW inputs, NEW buffers, NEW details,
         Prepare(fn, inputs, buffers, details),
         fn \in {"db_read", "db_remove", "db_write"} => inputs[1] \in GuestKeys,
         fn = "db_write" => inputs[2] \in GuestValues,
         fn = "db_next" => details \in DOMAIN expected
  PROVE  GuestStorageInv'
<1>1. pc = "contract" /\ pc' = "import" /\ pc # "answer" /\ pc' # "answer" /\ pc # "idle"
  BY DEF Prepare
<1>2. /\ store' = store /\ iterators' = iterators /\ view' = view /\ unpaid' = unpaid
      /\ expected' = expected
  BY Zenon DEF Prepare, storeVars
<1>3. \E b, c : op' = [fn |-> fn, inputs |-> inputs, details |-> details, answer |-> <<>>,
                       borrowed |-> b, buffer |-> c]
  BY Zenon DEF Prepare
<1>4. IsImport(op') /\ op'.fn = fn /\ op'.inputs = inputs /\ op'.details = details /\ op'.answer = <<>>
  BY <1>3 DEF IsImport
<1>5. ImportInv'
  BY Zenon, <1>2, <1>4 DEF ImportInv, About
<1>6. StoreInv'
  BY Zenon, <1>2 DEF GuestStorageInv, StoreInv
<1>7. ViewInv'
  BY Zenon, <1>1, <1>2 DEF GuestStorageInv, ViewInv, Answered, Writing
<1>8. ScanInv'
  BY Zenon, <1>1, <1>2 DEF GuestStorageInv, ScanInv, Answered
<1> QED
  BY Zenon, <1>5, <1>6, <1>7, <1>8 DEF GuestStorageInv

(* The contract takes an answer.                                             *)
LEMMA TakeStep ==
  ASSUME GuestStorageInv, pc = "answer", Witness, pc' = "contract"
  PROVE  GuestStorageInv'
<1>1. pc' # "answer" /\ pc' # "import" /\ pc' # "idle" /\ pc # "idle" /\ pc \in {"import", "answer"}
  OBVIOUS
<1>2. store' = store /\ iterators' = iterators
  BY Zenon DEF Witness
<1>3. StoreInv' /\ ImportInv'
  BY Zenon, <1>1, <1>2 DEF GuestStorageInv, StoreInv, ImportInv
<1>4. About(op, DOMAIN expected)
  BY Zenon, <1>1 DEF GuestStorageInv, ImportInv
<1>5. ViewInv'
  <2> SUFFICES ASSUME NEW k \in GuestKeys, k \notin unpaid' PROVE get(view', k) = get(store, k)
    BY Zenon, <1>1, <1>2 DEF ViewInv, Answered
  <2>1. CASE op.fn = "db_write"
    <3>1. IsSet(view', view, op.inputs[1], op.inputs[2]) /\ unpaid' = unpaid \ {op.inputs[1]}
      BY <2>1 DEF Witness, IsSet
    <3>2. Holds(view', view, op.inputs[1], op.inputs[2])
      BY Zenon, <3>1, SetOperation
    <3>3. CASE k = op.inputs[1]
      BY Zenon, <2>1, <3>2, <3>3 DEF Holds, GuestStorageInv, ViewInv, Answered
    <3>4. CASE k # op.inputs[1]
      BY Zenon, <3>1, <3>2, <3>4 DEF Holds, SameElsewhere, GuestStorageInv, ViewInv, Writing
    <3> QED
      BY Zenon, <3>3, <3>4
  <2>2. CASE op.fn = "db_remove"
    <3>1. IsRemoved(view', view, op.inputs[1]) /\ unpaid' = unpaid \ {op.inputs[1]}
      BY <2>2 DEF Witness, IsRemoved
    <3>2. get(view', op.inputs[1]) = <<>> /\ SameElsewhere(view', view, op.inputs[1])
      BY Zenon, <3>1, RemoveOperation
    <3>3. CASE k = op.inputs[1]
      BY Zenon, <2>2, <3>2, <3>3 DEF GuestStorageInv, ViewInv, Answered
    <3>4. CASE k # op.inputs[1]
      BY Zenon, <3>1, <3>2, <3>4 DEF SameElsewhere, GuestStorageInv, ViewInv, Writing
    <3> QED
      BY Zenon, <3>3, <3>4
  <2>3. CASE op.fn # "db_write" /\ op.fn # "db_remove"
    <3>1. view' = view /\ unpaid' = unpaid
      BY <2>3 DEF Witness
    <3> QED
      BY Zenon, <2>3, <3>1 DEF GuestStorageInv, ViewInv, Writing, Answered
  <2> QED
    BY Zenon, <2>1, <2>2, <2>3
<1>6. ScanInv'
  <2> SUFFICES ASSUME NEW id \in DOMAIN expected'
               PROVE  /\ id \in 1 .. Len(iterators) /\ expected'[id] \in Seq(Record)
                      /\ iterators[id] = expected'[id]
    BY Zenon, <1>1, <1>2 DEF ScanInv, Answered
  <2>1. CASE op.fn = "db_scan"
    <3>1. PICK records : records = range(store, op.details[1], op.details[2], op.details[3])
      BY Zenon
    <3>2. IsSet(expected', expected, Len(iterators), records)
      BY <2>1, <3>1 DEF Witness, IsSet
    <3>3. Holds(expected', expected, Len(iterators), records)
      BY Zenon, <3>2, SetOperation
    <3>4. records \in Seq(Record)
      BY Zenon, <3>1, RangeIsRecords DEF GuestStorageInv
    <3>5. Len(iterators) \in 1 .. Len(iterators) /\ iterators[Len(iterators)] = records
      BY Zenon, <2>1, <3>1 DEF GuestStorageInv, ScanInv, Answered
    <3>6. op.fn # "db_next"
      BY <2>1
    <3>7. CASE id = Len(iterators)
      BY Zenon, <3>3, <3>4, <3>5, <3>7 DEF Holds
    <3>8. CASE id # Len(iterators)
      <4>1. id \in DOMAIN expected /\ expected'[id] = expected[id]
        BY Zenon, <3>3, <3>8 DEF Holds, Elsewhere
      <4> QED
        BY Zenon, <1>1, <3>6, <4>1 DEF GuestStorageInv, ScanInv, Answered
    <3> QED
      BY Zenon, <3>7, <3>8
  <2>2. CASE op.fn = "db_next"
    <3>1. op.details \in DOMAIN expected /\ op.fn # "db_scan"
      BY <1>4, <2>2 DEF About
    <3>2. /\ DOMAIN expected' = DOMAIN expected
          /\ expected'[op.details] = Rest(expected[op.details])
          /\ \A i \in DOMAIN expected : i # op.details => expected'[i] = expected[i]
      <4>1. CASE expected[op.details] = <<>>
        <5>1. expected' = expected
          BY <2>2, <3>1, <4>1 DEF Witness
        <5> QED
          BY Zenon, <4>1, <5>1 DEF Rest
      <4>2. CASE expected[op.details] # <<>>
        <5>1. expected' = [expected EXCEPT ![op.details] = Tail(expected[op.details])]
          BY <2>2, <3>1, <4>2 DEF Witness
        <5> QED
          BY Zenon, <3>1, <4>2, <5>1 DEF Rest
      <4> QED
        BY Zenon, <4>1, <4>2
    <3>3. /\ id \in 1 .. Len(iterators) /\ expected[id] \in Seq(Record)
          /\ iterators[id] = IF op.details = id THEN Rest(expected[id]) ELSE expected[id]
      BY Zenon, <1>1, <2>2, <3>2 DEF GuestStorageInv, ScanInv, Answered
    <3>4. Rest(expected[id]) \in Seq(Record)
      BY Zenon, <3>3, RestIsSequence
    <3> QED
      BY Zenon, <3>2, <3>3, <3>4
  <2>3. CASE op.fn # "db_scan" /\ op.fn # "db_next"
    <3>1. expected' = expected
      BY <2>3 DEF Witness
    <3> QED
      BY Zenon, <1>1, <2>3, <3>1 DEF GuestStorageInv, ScanInv, Answered
  <2> QED
    BY Zenon, <2>1, <2>2, <2>3
<1> QED
  BY Zenon, <1>3, <1>5, <1>6 DEF GuestStorageInv

LEMMA StorageHost ==
  ASSUME GuestStorageInv, HostStep
  PROVE  GuestStorageInv'
<1>1. CASE \E e \in Entries : BeginCall(e)
  <2>1. /\ pc = "idle" /\ pc' = "arguments" /\ expected' = EmptyMap
        /\ store' = store /\ iterators' = iterators /\ view' = view /\ unpaid' = unpaid
    BY Zenon, <1>1 DEF BeginCall
  <2>2. pc # "answer" /\ pc' # "answer" /\ pc' # "import" /\ DOMAIN EmptyMap = {}
    BY <2>1 DEF EmptyMap
  <2>3. StoreInv' /\ ImportInv' /\ ScanInv'
    BY Zenon, <2>1, <2>2 DEF GuestStorageInv, StoreInv, ImportInv, ScanInv, Answered
  <2>4. ViewInv'
    BY Zenon, <2>1, <2>2 DEF GuestStorageInv, ViewInv, Answered, Writing
  <2> QED
    BY Zenon, <2>3, <2>4 DEF GuestStorageInv
<1>2. CASE \/ WriteArgument \/ CallFunction
           \/ \E length \in {1, ResultLimit + 1} : ReturnResult([i \in 1 .. length |-> 1])
  <2>1. UNCHANGED storeVars
    BY Zenon, <1>2 DEF WriteArgument, CallFunction, ReturnResult
  <2>2. pc \in {"arguments", "result"} /\ pc' \in {"idle", "arguments", "entry"}
    BY <1>2 DEF WriteArgument, CallFunction, ReturnResult, Abort
  <2>3. pc # "answer" /\ pc # "idle" /\ pc' \in {"idle", "arguments", "entry", "contract", "result"}
    BY <2>2
  <2> QED
    BY Zenon, <2>1, <2>3, NothingWritten DEF Answered
<1>3. CASE do_db_write
  <2>1. Writes(storage_set(op.inputs[1], op.inputs[2]))
    BY Zenon, <1>3 DEF do_db_write, Importing, Writes, IsSet, storage_set
  <2> QED
    BY Zenon, <1>3, <2>1, WriteStep DEF do_db_write
<1>4. CASE do_db_remove
  <2>1. Writes(storage_remove(op.inputs[1]))
    BY Zenon, <1>4 DEF do_db_remove, Importing, Writes, IsRemoved, storage_remove
  <2> QED
    BY Zenon, <1>4, <2>1, WriteStep DEF do_db_remove
<1> QED
  BY Zenon, <1>1, <1>2, <1>3, <1>4, ReadStep, ScanStep, NextStep, OtherImports DEF HostStep

LEMMA StorageContract ==
  ASSUME GuestStorageInv, ContractStep
  PROVE  GuestStorageInv'
<1>1. CASE Enter \/ Finish
  <2>1. UNCHANGED storeVars
    BY Zenon, <1>1 DEF Enter, Finish
  <2>2. pc # "answer" /\ pc # "idle" /\ pc' \in {"idle", "arguments", "entry", "contract", "result"}
    BY <1>1 DEF Enter, Finish
  <2> QED
    BY Zenon, <2>1, <2>2, NothingWritten DEF Answered
<1>2. ASSUME NEW key \in GuestKeys, StorageGet(key) \/ StorageRemove(key)
      PROVE  GuestStorageInv'
  <2>a. PICK inputs : inputs = <<key>>
    BY Zenon
  <2>1. inputs = <<key>> /\ inputs[1] \in GuestKeys
    BY <2>a
  <2>2. PICK fn \in {"db_read", "db_remove"} : Prepare(fn, inputs, 0, <<>>)
    BY <1>2, <2>1 DEF StorageGet, StorageRemove
  <2>3. fn # "db_write" /\ fn # "db_next"
    OBVIOUS
  <2> QED
    BY Zenon, <2>1, <2>2, <2>3, AskStep
<1>3. ASSUME NEW key \in GuestKeys, NEW value \in GuestValues, StorageSet(key, value)
      PROVE  GuestStorageInv'
  <2>a. PICK inputs : inputs = <<key, value>>
    BY Zenon
  <2>1. inputs = <<key, value>> /\ inputs[1] \in GuestKeys /\ inputs[2] \in GuestValues
    BY <2>a
  <2>2. PICK fn : fn = "db_write" /\ fn # "db_next" /\ Prepare(fn, inputs, 0, <<>>)
    BY <1>3, <2>1 DEF StorageSet
  <2> QED
    BY Zenon, <2>1, <2>2, AskStep
<1>4. ASSUME NEW start, NEW end, NEW order, StorageRange(start, end, order)
      PROVE  GuestStorageInv'
  <2>1. Prepare("db_scan", start \o end, 0, <<start, end, order>>)
    BY Zenon, <1>4 DEF StorageRange
  <2>2. /\ "db_scan" \notin {"db_read", "db_remove", "db_write"}
        /\ "db_scan" # "db_write" /\ "db_scan" # "db_next"
    OBVIOUS
  <2> QED
    BY Zenon, <2>1, <2>2, AskStep
<1>5. ASSUME NEW id \in DOMAIN expected, IteratorNext(id)
      PROVE  GuestStorageInv'
  <2>1. Prepare("db_next", <<>>, 0, id)
    BY Zenon, <1>5 DEF IteratorNext
  <2>2. /\ "db_next" \notin {"db_read", "db_remove", "db_write"} /\ "db_next" # "db_write"
    OBVIOUS
  <2> QED
    BY Zenon, <2>1, <2>2, AskStep
<1>6. ASSUME NEW input,
             \/ AddrValidate(input) \/ AddrCanonicalize(input) \/ AddrHumanize(input)
             \/ Verify(input, input, input) \/ RecoverPubkey(input, input)
             \/ RawQuery(input) \/ Debug(input)
      PROVE  GuestStorageInv'
  <2>a. PICK S : S = {"addr_validate", "addr_canonicalize", "addr_humanize", "verify", "recover_pubkey",
                      "query_chain", "debug"}
    BY Zenon
  <2>b. /\ "addr_validate" \in S /\ "addr_canonicalize" \in S /\ "addr_humanize" \in S /\ "verify" \in S
        /\ "recover_pubkey" \in S /\ "query_chain" \in S /\ "debug" \in S
    BY <2>a
  <2>1. PICK fn, inputs, buffers : fn \in S /\ Prepare(fn, inputs, buffers, <<>>)
    BY Zenon, <1>6, <2>b
       DEF AddrValidate, AddrCanonicalize, AddrHumanize, Verify, RecoverPubkey, RawQuery, Debug
  <2>2. fn \notin {"db_read", "db_remove", "db_write"} /\ fn # "db_write" /\ fn # "db_next"
    BY <2>a, <2>1
  <2> QED
    BY Zenon, <2>1, <2>2, AskStep
<1>7. CASE Receive
  <2>1. pc = "answer"
    BY Zenon, <1>7 DEF Receive
  <2>2. CASE Witness /\ pc' = "contract"
    BY Zenon, <2>1, <2>2, TakeStep
  <2>3. CASE MustAnswer /\ op.answer = <<>> /\ Abort /\ UNCHANGED storeVars
    <3>1. op.fn # "db_write" /\ op.fn # "db_remove" /\ pc' = "idle"
      BY <2>3 DEF MustAnswer, Abort
    <3>2. op.fn # "db_next"
      BY Zenon, <2>1, <2>3 DEF GuestStorageInv, ScanInv, Answered
    <3> QED
      BY Zenon, <2>3, <3>1, <3>2, NothingWritten DEF Answered
  <2> QED
    BY Zenon, <1>7, <2>2, <2>3 DEF Receive
<1> QED
  BY Zenon, <1>1, <1>2, <1>3, <1>4, <1>5, <1>6, <1>7 DEF ContractStep

LEMMA StorageStart ==
  GuestInit => GuestStorageInv
<1> SUFFICES ASSUME GuestInit PROVE GuestStorageInv
  OBVIOUS
<1>1. pc = "idle" /\ store = EmptyMap /\ iterators = <<>> /\ view = EmptyMap /\ expected = EmptyMap
  BY Zenon DEF GuestInit
<1>2. DOMAIN EmptyMap = {} /\ IsFiniteSet({}) /\ pc # "answer" /\ pc # "import"
  BY <1>1, FS_EmptySet DEF EmptyMap
<1>3. <<>> \in Seq(Seq(Record))
  OBVIOUS
<1> QED
  BY Zenon, <1>1, <1>2, <1>3 DEF GuestStorageInv, StoreInv, ImportInv, ViewInv, ScanInv, Answered, Writing

(* What the invariant says of an answer is what the contract relies on.      *)
LEMMA StorageIsSeen ==
  GuestStorageInv => StorageIsFaithful
<1> SUFFICES ASSUME GuestStorageInv PROVE StorageIsFaithful
  OBVIOUS
<1>1. ReadsWhatWasWritten
  <2> SUFFICES ASSUME pc = "answer", op.fn = "db_read", op.inputs[1] \notin unpaid
               PROVE  get(view, op.inputs[1]) = IF op.answer = <<>> THEN <<>> ELSE <<heap[op.answer[1]].data>>
    BY Zenon DEF ReadsWhatWasWritten
  <2>1. op.inputs[1] \in GuestKeys /\ op.fn # "db_write" /\ op.fn # "db_remove"
    BY DEF GuestStorageInv, ImportInv, About
  <2> QED
    BY Zenon, <2>1 DEF GuestStorageInv, ViewInv, Answered, Writing
<1>2. IterationIsExact
  <2> SUFFICES ASSUME pc = "answer", op.fn = "db_next"
               PROVE  /\ op.answer # <<>>
                      /\ decode_sections2(heap[op.answer[1]].data) = FirstOf(expected[op.details])
    BY Zenon DEF IterationIsExact, FirstOf
  <2>1. /\ op.answer # <<>>
        /\ heap[op.answer[1]].data = encode_sections(FirstOf(expected[op.details]))
    BY Zenon DEF GuestStorageInv, ScanInv, Answered
  <2>2. op.details \in DOMAIN expected /\ pc # "idle"
    BY DEF GuestStorageInv, ImportInv, About
  <2>3. expected[op.details] \in Seq(Record)
    BY Zenon, <2>2 DEF GuestStorageInv, ScanInv
  <2>4. PICK k \in Section, v \in Section : FirstOf(expected[op.details]) = <<k, v>>
    <3>1. CASE expected[op.details] = <<>>
      BY Zenon, <3>1, BytesFit DEF FirstOf
    <3>2. CASE expected[op.details] # <<>>
      <4>1. Head(expected[op.details]) \in Record
        BY <2>3, <3>2, HeadAndTail
      <4>2. PICK k \in GuestKeys, v \in GuestValues : Head(expected[op.details]) = <<k, v>>
        BY <4>1 DEF Record
      <4> QED
        BY Zenon, <3>2, <4>2, BytesFit DEF FirstOf
    <3> QED
      BY Zenon, <3>1, <3>2
  <2>5. decode_sections2(encode_sections(<<k, v>>)) = <<k, v>>
    BY Zenon, SectionsAreTaken
  <2> QED
    BY Zenon, <2>1, <2>4, <2>5
<1> QED
  BY Zenon, <1>1, <1>2 DEF StorageIsFaithful

(* Whatever calls are made on an instance, and wherever they fail, a read    *)
(* answers with what the contract wrote last, and an iterator gives the      *)
(* records of its range in order as they were when it was opened, through    *)
(* the sections the VM encodes them in and back (do_db_read, do_db_next,     *)
(* ExternalStorage, ExternalIterator).  Only a write that was applied and    *)
(* could not be paid for is seen by later calls without the contract having *)
(* been told.                                                                *)
THEOREM StorageIsSeenFaithfully == GuestSpec => []StorageIsFaithful
<1>1. GuestStorageInv /\ [GuestNext]_guestVars => GuestStorageInv'
  <2> SUFFICES ASSUME GuestStorageInv, [GuestNext]_guestVars PROVE GuestStorageInv'
    OBVIOUS
  <2>1. CASE UNCHANGED guestVars
    BY Zenon, <2>1 DEF guestVars, memoryVars, storeVars, GuestStorageInv, StoreInv, ImportInv, ViewInv,
                       ScanInv, Answered, Writing
  <2> QED
    BY Zenon, <2>1, StorageHost, StorageContract DEF GuestNext
<1> QED
  BY <1>1, StorageStart, StorageIsSeen, PTL DEF GuestSpec

--------------------------------------------------------------------------------
(* The queue contract.  One-byte keys are ordered as their bytes.            *)
LEMMA OneByteOrder ==
  ASSUME NEW a \in Nat, NEW b \in Nat
  PROVE  Less(<<a>>, <<b>>) <=> a < b
BY DEF Less

(* The one-byte keys from lo, n of them.                                     *)
KeysFrom(lo, n) == {<<k>> : k \in lo .. lo + n - 1}

LEMMA KeysFromCount ==
  ASSUME NEW lo \in Nat, NEW n \in Nat
  PROVE  /\ IsFiniteSet(KeysFrom(lo, n)) /\ Cardinality(KeysFrom(lo, n)) = n
         /\ KeysFrom(lo, n) \subseteq Seq(Nat)
<1>1. PICK S : S = lo .. lo + n - 1
  BY Zenon
<1>2. IsFiniteSet(S) /\ Cardinality(S) = n
  BY <1>1, FS_Interval
<1>3. PICK f : f = [k \in S |-> <<k>>]
  BY Zenon
<1>4. f \in [S -> KeysFrom(lo, n)]
  BY Zenon, <1>1, <1>3 DEF KeysFrom
<1>5. \A a, b \in S : f[a] = f[b] => a = b
  BY <1>3
<1>6. \A t \in KeysFrom(lo, n) : \E k \in S : f[k] = t
  BY Zenon, <1>1, <1>3 DEF KeysFrom
<1>7. f \in Bijection(S, KeysFrom(lo, n))
  BY Zenon, <1>4, <1>5, <1>6 DEF Bijection, Injection, Surjection, IsInjective
<1>8. ExistsBijection(S, KeysFrom(lo, n))
  BY Zenon, <1>7 DEF ExistsBijection
<1>9. IsFiniteSet(KeysFrom(lo, n)) /\ Cardinality(KeysFrom(lo, n)) = n
  BY Zenon, <1>2, <1>8, FS_Bijection
<1>10. KeysFrom(lo, n) \subseteq Seq(Nat)
  <2>1. \A k \in lo .. lo + n - 1 : k \in Nat /\ <<k>> \in Seq(Nat)
    OBVIOUS
  <2> QED
    BY Zenon, <2>1 DEF KeysFrom
<1> QED
  BY Zenon, <1>9, <1>10

(* In order they are as they were counted.                                   *)
LEMMA KeysInOrder ==
  ASSUME NEW lo \in Nat, NEW n \in Nat
  PROVE  Ascending(KeysFrom(lo, n)) = [i \in 1 .. n |-> <<lo + i - 1>>]
<1> DEFINE K == KeysFrom(lo, n)
           rank(k) == Cardinality({l \in K : Less(l, k)})
<1>1. Cardinality(K) = n
  BY Zenon, KeysFromCount
<1>2. ASSUME NEW k \in lo .. lo + n - 1 PROVE rank(<<k>>) = k - lo
  <2>1. k - lo \in Nat /\ k \in Nat
    OBVIOUS
  <2>2. ASSUME NEW l PROVE (l \in K /\ Less(l, <<k>>)) <=> l \in KeysFrom(lo, k - lo)
    <3>1. ASSUME NEW a \in Nat PROVE (a \in lo .. lo + n - 1 /\ a < k) <=> a \in lo .. lo + (k - lo) - 1
      OBVIOUS
    <3>2. \A a \in lo .. lo + n - 1 : a \in Nat
      OBVIOUS
    <3>3. \A a \in lo .. lo + (k - lo) - 1 : a \in Nat
      OBVIOUS
    <3> QED
      BY Zenon, <2>1, <3>1, <3>2, <3>3, OneByteOrder DEF KeysFrom
  <2>3. {l \in K : Less(l, <<k>>)} = KeysFrom(lo, k - lo)
    <3> HIDE DEF K
    <3> QED
      BY Zenon, <2>2 DEF KeysFrom
  <2> QED
    BY Zenon, <2>1, <2>3, KeysFromCount
<1>3. ASSUME NEW i \in 1 .. n PROVE (CHOOSE k \in K : rank(k) = i - 1) = <<lo + i - 1>>
  <2>1. lo + i - 1 \in lo .. lo + n - 1 /\ (lo + i - 1) - lo = i - 1
    OBVIOUS
  <2>2. <<lo + i - 1>> \in K /\ rank(<<lo + i - 1>>) = i - 1
    BY Zenon, <1>2, <2>1 DEF KeysFrom
  <2>3. PICK x \in K : x = (CHOOSE k \in K : rank(k) = i - 1) /\ rank(x) = i - 1
    <3> HIDE DEF K, rank
    <3> QED
      BY Zenon, <2>2
  <2>4. PICK k \in lo .. lo + n - 1 : x = <<k>>
    BY Zenon DEF KeysFrom
  <2>5. k - lo = i - 1
    BY Zenon, <1>2, <2>3, <2>4
  <2>6. k = lo + i - 1
    BY <2>5
  <2> QED
    BY Zenon, <2>3, <2>4, <2>6
<1>4. Ascending(K) = [i \in 1 .. n |-> CHOOSE k \in K : rank(k) = i - 1]
  BY Zenon, <1>1 DEF Ascending
<1> HIDE DEF K, rank
<1>5. Ascending(K) = [i \in 1 .. n |-> <<lo + i - 1>>]
  BY Zenon, <1>3, <1>4
<1> QED
  BY Zenon, <1>5 DEF K

(* The storage is a queue of n values whose first has the key lo.            *)
IsQueue(q, lo, n) == lo \in Nat /\ n \in Nat /\ DOMAIN q = KeysFrom(lo, n)

(* What ranging over it returns, in both directions.                         *)
IsListed(q, lo, n) ==
  /\ range(q, <<>>, <<>>, "Ascending") =
       [i \in 1 .. n |-> <<(<<lo + i - 1>>), q[<<lo + i - 1>>]>>]
  /\ range(q, <<>>, <<>>, "Descending") =
       [i \in 1 .. n |-> <<(<<lo + n - i>>), q[<<lo + n - i>>]>>]

LEMMA QueueIsListed ==
  ASSUME NEW q, NEW lo, NEW n, IsQueue(q, lo, n)
  PROVE  IsListed(q, lo, n)
<1>1. lo \in Nat /\ n \in Nat /\ DOMAIN q = KeysFrom(lo, n)
  BY Zenon DEF IsQueue
<1>2. {k \in DOMAIN q : InBounds(k, <<>>, <<>>)} = KeysFrom(lo, n)
  BY Zenon, <1>1 DEF InBounds
<1>3. PICK a : a = [i \in 1 .. n |-> <<lo + i - 1>>]
  BY Zenon
<1>4. Ascending({k \in DOMAIN q : InBounds(k, <<>>, <<>>)}) = a
  BY Zenon, <1>1, <1>2, <1>3, KeysInOrder
<1>5. Len(a) = n /\ DOMAIN a = 1 .. n
  BY <1>1, <1>3
<1>6. range(q, <<>>, <<>>, "Ascending") = [i \in 1 .. n |-> <<a[i], q[a[i]]>>]
  BY Zenon, <1>4, <1>5 DEF range
<1>7. "Descending" # "Ascending"
  OBVIOUS
<1>8. PICK b : b = [i \in 1 .. n |-> a[n + 1 - i]]
  BY Zenon
<1>9. range(q, <<>>, <<>>, "Descending") = [i \in 1 .. n |-> <<b[i], q[b[i]]>>]
  BY Zenon, <1>4, <1>5, <1>7, <1>8 DEF range
<1>10. \A i \in 1 .. n : b[i] = <<lo + n - i>>
  <2>1. ASSUME NEW i \in 1 .. n PROVE n + 1 - i \in 1 .. n /\ lo + (n + 1 - i) - 1 = lo + n - i
    BY <1>1
  <2> QED
    BY Zenon, <1>3, <1>8, <2>1
<1>11. \A i \in 1 .. n : a[i] = <<lo + i - 1>>
  BY Zenon, <1>3
<1> QED
  BY Zenon, <1>6, <1>9, <1>10, <1>11 DEF IsListed

(* Its values in order.                                                      *)
Items(q, lo, n) == [i \in 1 .. n |-> q[<<lo + i - 1>>]]

LEMMA QueueItems ==
  ASSUME NEW q, NEW lo, NEW n, IsQueue(q, lo, n)
  PROVE  ValuesOf(range(q, <<>>, <<>>, "Ascending")) = Items(q, lo, n)
<1>1. PICK records : records = [i \in 1 .. n |-> <<(<<lo + i - 1>>), q[<<lo + i - 1>>]>>]
  BY Zenon
<1>l. IsListed(q, lo, n)
  BY Zenon, QueueIsListed
<1>2. range(q, <<>>, <<>>, "Ascending") = records
  BY Zenon, <1>1, <1>l DEF IsListed
<1>3. DOMAIN records = 1 .. n /\ \A i \in 1 .. n : records[i][2] = q[<<lo + i - 1>>]
  BY <1>1
<1> QED
  BY Zenon, <1>2, <1>3 DEF ValuesOf, Items

(* w is the queue q with one more value, of which the first has the key lo.  *)
Enqueued(w, q, n, value, lo) ==
  /\ IsQueue(w, lo, n + 1) /\ w[<<lo + n>>] = value
  /\ \A i \in 1 .. n : w[<<lo + i - 1>>] = q[<<lo + i - 1>>]

(* enqueue takes the key behind the last one, or the first one again when    *)
(* the queue is empty.                                                       *)
LEMMA EnqueueBehind ==
  ASSUME NEW q, NEW lo, NEW n, IsQueue(q, lo, n), NEW value
  PROVE  Enqueued(enqueue(q, value), q, n, value, IF n = 0 THEN 0 ELSE lo)
<1>1. lo \in Nat /\ n \in Nat /\ DOMAIN q = KeysFrom(lo, n)
  BY Zenon DEF IsQueue
<1>2. PICK d : /\ d = range(q, <<>>, <<>>, "Descending")
               /\ d = [i \in 1 .. n |-> <<(<<lo + n - i>>), q[<<lo + n - i>>]>>]
  <2>1. IsListed(q, lo, n)
    BY Zenon, QueueIsListed
  <2> QED
    BY Zenon, <2>1 DEF IsListed
<1>3. PICK new_key : new_key = IF d = <<>> THEN FIRST_KEY ELSE d[1][1][1] + 1
  BY Zenon
<1>4. PICK w : w = enqueue(q, value) /\ IsSet(w, q, <<new_key>>, value)
  BY Zenon, <1>2, <1>3 DEF enqueue, IsSet
<1>h. Holds(w, q, <<new_key>>, value)
  BY Zenon, <1>4, SetOperation
<1>5. DOMAIN w = KeysFrom(lo, n) \cup {<<new_key>>} /\ w[<<new_key>>] = value
  BY Zenon, <1>1, <1>h DEF Holds
<1>6. \A k \in KeysFrom(lo, n) : k # <<new_key>> => w[k] = q[k]
  BY Zenon, <1>1, <1>h DEF Holds, Elsewhere
<1>7. CASE n = 0
  <2>1. d = <<>>
    BY <1>2, <1>7
  <2>2. new_key = 0
    BY Zenon, <1>3, <2>1 DEF FIRST_KEY
  <2>3. KeysFrom(lo, 0) = {} /\ KeysFrom(0, 1) = {<<0>>}
    <3>1. lo .. lo + 0 - 1 = {}
      BY <1>1
    <3>2. \A k : k \in 0 .. 0 + 1 - 1 <=> k = 0
      OBVIOUS
    <3>3. KeysFrom(lo, 0) = {}
      BY Zenon, <3>1 DEF KeysFrom
    <3>4. \A t : t \in KeysFrom(0, 1) <=> t = <<0>>
      BY Zenon, <3>2 DEF KeysFrom
    <3> QED
      BY Zenon, <3>3, <3>4
  <2>4. DOMAIN w = KeysFrom(0, 1)
    BY Zenon, <1>5, <1>7, <2>2, <2>3
  <2>5. n + 1 = 1 /\ 0 + n = 0 /\ 0 \in Nat /\ 1 \in Nat /\ \A i : i \notin 1 .. n
    BY <1>7
  <2>6. Enqueued(w, q, n, value, 0)
    BY Zenon, <1>5, <2>2, <2>4, <2>5 DEF Enqueued, IsQueue
  <2> QED
    BY Zenon, <1>4, <1>7, <2>6
<1>8. CASE n # 0
  <2>1. 1 \in 1 .. n /\ lo + n - 1 \in Nat /\ (lo + n - 1) + 1 = lo + n
    BY <1>1, <1>8
  <2>2. d[1] = <<(<<lo + n - 1>>), q[<<lo + n - 1>>]>> /\ DOMAIN d = 1 .. n
    BY Zenon, <1>2, <2>1
  <2>3. d # <<>> /\ d[1][1][1] = lo + n - 1
    <3>0. DOMAIN <<>> = {}
      OBVIOUS
    <3>1. d # <<>>
      BY Zenon, <2>1, <2>2, <3>0
    <3>2. d[1][1] = <<lo + n - 1>>
      BY <2>2
    <3> QED
      BY <3>1, <3>2
  <2>4. new_key = lo + n
    BY Zenon, <1>3, <2>1, <2>3
  <2>5. KeysFrom(lo, n) \cup {<<lo + n>>} = KeysFrom(lo, n + 1)
    <3>1. \A k : k \in lo .. lo + (n + 1) - 1 <=> (k \in lo .. lo + n - 1 \/ k = lo + n)
      BY <1>1
    <3> QED
      BY Zenon, <3>1 DEF KeysFrom
  <2>6. \A i \in 1 .. n : w[<<lo + i - 1>>] = q[<<lo + i - 1>>]
    <3>1. ASSUME NEW i \in 1 .. n
          PROVE  lo + i - 1 \in lo .. lo + n - 1 /\ <<lo + i - 1>> # <<lo + n>>
      BY <1>1
    <3> QED
      BY Zenon, <1>6, <2>4, <3>1 DEF KeysFrom
  <2>7. n + 1 \in Nat
    BY <1>1
  <2>8. Enqueued(w, q, n, value, lo)
    BY Zenon, <1>1, <1>5, <2>4, <2>5, <2>6, <2>7 DEF Enqueued, IsQueue
  <2> QED
    BY Zenon, <1>4, <1>8, <2>8
<1> QED
  BY Zenon, <1>7, <1>8

StartsAt(m, lo, n) == m = IF n = 0 THEN 0 ELSE lo

Lengthens(w, m, q, lo, n, value) == Items(w, m, n + 1) = Append(Items(q, lo, n), value)

(* So the value is behind the others.                                        *)
LEMMA EnqueuedItems ==
  ASSUME NEW q, NEW w, NEW value, NEW lo, NEW m, NEW n, IsQueue(q, lo, n),
         Enqueued(w, q, n, value, m), StartsAt(m, lo, n)
  PROVE  Lengthens(w, m, q, lo, n, value)
<1>1. lo \in Nat /\ n \in Nat /\ m \in Nat /\ w[<<m + n>>] = value
  BY Zenon DEF IsQueue, Enqueued
<1>2. PICK s : s = Items(q, lo, n)
  BY Zenon
<1>3. Len(s) = n /\ DOMAIN s = 1 .. n /\ \A i \in 1 .. n : s[i] = q[<<lo + i - 1>>]
  BY <1>1, <1>2 DEF Items
<1>4. Append(s, value) = [i \in 1 .. n + 1 |-> IF i = n + 1 THEN value ELSE s[i]]
  BY <1>1, <1>2, <1>3 DEF Items
<1>5. ASSUME NEW i \in 1 .. n + 1
      PROVE  w[<<m + i - 1>>] = IF i = n + 1 THEN value ELSE s[i]
  <2>1. CASE i = n + 1
    <3>1. m + i - 1 = m + n
      BY <1>1, <2>1
    <3> QED
      BY Zenon, <1>1, <2>1, <3>1
  <2>2. CASE i # n + 1
    <3>1. i \in 1 .. n /\ n # 0
      BY <1>1, <2>2
    <3>2. w[<<m + i - 1>>] = q[<<m + i - 1>>] /\ m = lo
      BY Zenon, <3>1 DEF Enqueued, StartsAt
    <3> QED
      BY Zenon, <1>3, <2>2, <3>1, <3>2
  <2> QED
    BY Zenon, <2>1, <2>2
<1>6. Items(w, m, n + 1) = [i \in 1 .. n + 1 |-> IF i = n + 1 THEN value ELSE s[i]]
  BY Zenon, <1>5 DEF Items
<1> QED
  BY Zenon, <1>2, <1>4, <1>6 DEF Lengthens

(* The contract's storage is a queue under one-byte keys.                    *)
QueueInv == \E lo, n : IsQueue(queue, lo, n) /\ lo + n <= LastKey + 1

LEMMA EmptyQueue == IsQueue(EmptyMap, 0, 0)
<1>1. DOMAIN <<>> = {} /\ 0 .. 0 + 0 - 1 = {}
  OBVIOUS
<1> QED
  BY Zenon, <1>1 DEF IsQueue, KeysFrom, EmptyMap

LEMMA EnqueueStep ==
  ASSUME QueueInv, NEW value \in QueueValues, handle_enqueue(value)
  PROVE  QueueInv' /\ Fifo!Enqueue
<1>1. PICK lo, n : IsQueue(queue, lo, n) /\ lo + n <= LastKey + 1
  BY Zenon DEF QueueInv
<1>2. lo \in Nat /\ n \in Nat /\ LastKey \in Nat /\ DOMAIN queue = KeysFrom(lo, n)
  BY Zenon, <1>1, QueueAssumption DEF IsQueue
<1>3. PICK m : StartsAt(m, lo, n)
  BY Zenon DEF StartsAt
<1>4. Enqueued(queue', queue, n, value, m)
  BY Zenon, <1>1, <1>3, EnqueueBehind DEF handle_enqueue, StartsAt
<1>5. IsQueue(queue', m, n + 1)
  BY Zenon, <1>4 DEF Enqueued
<1>6. m + (n + 1) <= LastKey + 1
  <2>1. <<LastKey>> \notin KeysFrom(lo, n)
    BY Zenon, <1>2 DEF handle_enqueue, CanEnqueue
  <2>2. LastKey \notin lo .. lo + n - 1
    BY Zenon, <2>1 DEF KeysFrom
  <2> QED
    BY <1>1, <1>2, <1>3, <2>2 DEF StartsAt
<1>7. QueueInv'
  BY Zenon, <1>5, <1>6 DEF QueueInv
<1>8. Items(queue', m, n + 1) = Append(Items(queue, lo, n), value)
  <2>1. Lengthens(queue', m, queue, lo, n, value)
    BY Zenon, <1>1, <1>3, <1>4, EnqueuedItems
  <2> QED
    BY Zenon, <2>1 DEF Lengthens
<1>9. ValuesOf(Stored(<<>>, <<>>)) = Items(queue, lo, n)
  BY Zenon, <1>1, QueueItems DEF Stored
<1>10. ValuesOf(Stored(<<>>, <<>>))' = Items(queue', m, n + 1)
  BY Zenon, <1>5, QueueItems DEF Stored, ValuesOf
<1>11. dequeued' = dequeued
  BY Zenon DEF handle_enqueue
<1> QED
  BY Zenon, <1>7, <1>8, <1>9, <1>10, <1>11 DEF Fifo!Enqueue

LEMMA DequeueStep ==
  ASSUME QueueInv, handle_dequeue
  PROVE  QueueInv' /\ Fifo!Dequeue
<1>1. PICK lo, n : IsQueue(queue, lo, n) /\ lo + n <= LastKey + 1
  BY Zenon DEF QueueInv
<1>2. lo \in Nat /\ n \in Nat /\ LastKey \in Nat /\ DOMAIN queue = KeysFrom(lo, n)
  BY Zenon, <1>1, QueueAssumption DEF IsQueue
<1>3. PICK a : /\ a = range(queue, <<>>, <<>>, "Ascending")
               /\ a = [i \in 1 .. n |-> <<(<<lo + i - 1>>), queue[<<lo + i - 1>>]>>]
  <2>1. IsListed(queue, lo, n)
    BY Zenon, <1>1, QueueIsListed
  <2> QED
    BY Zenon, <2>1 DEF IsListed
<1>4. ValuesOf(Stored(<<>>, <<>>)) = Items(queue, lo, n)
  BY Zenon, <1>1, QueueItems DEF Stored
<1>5. DOMAIN <<>> = {} /\ DOMAIN a = 1 .. n /\ DOMAIN Items(queue, lo, n) = 1 .. n
  BY <1>3 DEF Items
<1>6. CASE n = 0
  <2>1. a = <<>> /\ Items(queue, lo, n) = <<>>
    BY <1>3, <1>6 DEF Items
  <2>2. dequeued' = <<>> /\ queue' = queue
    BY Zenon, <1>3, <2>1 DEF handle_dequeue
  <2>3. QueueInv'
    BY Zenon, <2>2 DEF QueueInv
  <2>4. ValuesOf(Stored(<<>>, <<>>))' = ValuesOf(Stored(<<>>, <<>>))
    BY Zenon, <2>2 DEF Stored, ValuesOf
  <2> QED
    BY Zenon, <1>4, <2>1, <2>2, <2>3, <2>4 DEF Fifo!Dequeue
<1>7. CASE n # 0
  <2>1. 1 \in 1 .. n /\ lo + 1 - 1 = lo /\ n - 1 \in Nat /\ lo + 1 \in Nat
    BY <1>2, <1>7
  <2>2. a # <<>> /\ Items(queue, lo, n) # <<>>
    BY Zenon, <1>5, <2>1
  <2>3. a[1] = <<(<<lo>>), queue[<<lo>>]>>
    BY Zenon, <1>3, <2>1
  <2>4. a[1][1] = <<lo>> /\ a[1][2] = queue[<<lo>>]
    BY <2>3
  <2>5. IsRemoved(queue', queue, <<lo>>) /\ dequeued' = <<queue[<<lo>>]>>
    BY Zenon, <1>3, <2>2, <2>4 DEF handle_dequeue, IsRemoved
  <2>6. DOMAIN queue' = KeysFrom(lo, n) \ {<<lo>>} /\ Elsewhere(queue', queue, <<lo>>)
    BY Zenon, <1>2, <2>5, RemoveOperation
  <2>7. KeysFrom(lo, n) \ {<<lo>>} = KeysFrom(lo + 1, n - 1)
    <3>1. \A k : k \in lo + 1 .. (lo + 1) + (n - 1) - 1 <=> (k \in lo .. lo + n - 1 /\ k # lo)
      BY <1>2
    <3>2. \A k : <<k>> = <<lo>> <=> k = lo
      OBVIOUS
    <3> QED
      BY Zenon, <3>1, <3>2 DEF KeysFrom
  <2>8. IsQueue(queue', lo + 1, n - 1)
    BY Zenon, <2>1, <2>6, <2>7 DEF IsQueue
  <2>9. (lo + 1) + (n - 1) <= LastKey + 1
    BY <1>1, <1>2
  <2>10. QueueInv'
    BY Zenon, <2>8, <2>9 DEF QueueInv
  <2>11. ValuesOf(Stored(<<>>, <<>>))' = Items(queue', lo + 1, n - 1)
    BY Zenon, <2>8, QueueItems DEF Stored, ValuesOf
  <2>12. \A i \in 1 .. n - 1 : queue'[<<(lo + 1) + i - 1>>] = queue[<<lo + (i + 1) - 1>>]
    <3>1. ASSUME NEW i \in 1 .. n - 1
          PROVE  /\ (lo + 1) + i - 1 = lo + (i + 1) - 1 /\ (lo + 1) + i - 1 \in lo .. lo + n - 1
                 /\ <<(lo + 1) + i - 1>> # <<lo>>
      BY <1>2
    <3>2. ASSUME NEW i \in 1 .. n - 1
          PROVE  <<(lo + 1) + i - 1>> \in DOMAIN queue
      BY Zenon, <1>2, <3>1 DEF KeysFrom
    <3> QED
      BY Zenon, <2>6, <3>1, <3>2 DEF Elsewhere
  <2>13. Head(Items(queue, lo, n)) = queue[<<lo>>]
    BY <1>2, <2>1 DEF Items
  <2>14. Tail(Items(queue, lo, n)) = [i \in 1 .. n - 1 |-> queue[<<lo + (i + 1) - 1>>]]
    BY <1>2, <2>1 DEF Items
  <2>15. Items(queue', lo + 1, n - 1) = Tail(Items(queue, lo, n))
    BY Zenon, <2>12, <2>14 DEF Items
  <2> QED
    BY Zenon, <1>4, <2>2, <2>5, <2>10, <2>11, <2>13, <2>15 DEF Fifo!Dequeue
<1> QED
  BY Zenon, <1>6, <1>7

LEMMA AppendToOne ==
  ASSUME NEW a, NEW b
  PROVE  Append(<<a>>, b) = <<a, b>>
<1>1. PICK s : s = <<a>>
  BY Zenon
<1>2. PICK t : t = <<a, b>>
  BY Zenon
<1>3. Len(s) = 1 /\ s[1] = a /\ s = [i \in 1 .. 1 |-> s[i]]
  BY <1>1
<1>4. DOMAIN t = 1 .. 2 /\ t[1] = a /\ t[2] = b /\ t = [i \in 1 .. 2 |-> t[i]]
  BY <1>2
<1>5. Append(s, b) = [i \in 1 .. 2 |-> IF i = 2 THEN b ELSE s[i]]
  BY <1>3
<1>6. \A i \in 1 .. 2 : t[i] = IF i = 2 THEN b ELSE s[i]
  BY <1>3, <1>4
<1> QED
  BY Zenon, <1>1, <1>2, <1>4, <1>5, <1>6

LEMMA AppendToTwo ==
  ASSUME NEW a, NEW b, NEW c
  PROVE  Append(<<a, b>>, c) = <<a, b, c>>
<1>1. PICK s : s = <<a, b>>
  BY Zenon
<1>2. PICK t : t = <<a, b, c>>
  BY Zenon
<1>3. Len(s) = 2 /\ s[1] = a /\ s[2] = b /\ s = [i \in 1 .. 2 |-> s[i]]
  BY <1>1
<1>4. DOMAIN t = 1 .. 3 /\ t[1] = a /\ t[2] = b /\ t[3] = c /\ t = [i \in 1 .. 3 |-> t[i]]
  BY <1>2
<1>5. Append(s, c) = [i \in 1 .. 3 |-> IF i = 3 THEN c ELSE s[i]]
  BY <1>3
<1>6. \A i \in 1 .. 3 : t[i] = IF i = 3 THEN c ELSE s[i]
  BY <1>3, <1>4
<1> QED
  BY Zenon, <1>1, <1>2, <1>4, <1>5, <1>6

LEMMA MigrateStep ==
  ASSUME QueueInv, migrate
  PROVE  QueueInv' /\ Fifo!Migrate
<1>1. PICK v1, v2, v3 : v1 = MigratedValues[1] /\ v2 = MigratedValues[2] /\ v3 = MigratedValues[3]
  BY Zenon
<1>2. PICK q1 : q1 = enqueue(EmptyMap, v1)
  BY Zenon
<1>3. PICK q2 : q2 = enqueue(q1, v2)
  BY Zenon
<1>4. queue' = enqueue(q2, v3) /\ dequeued' = dequeued
  BY Zenon, <1>1, <1>2, <1>3 DEF migrate
<1>5. StartsAt(0, 0, 0) /\ StartsAt(0, 0, 1) /\ StartsAt(0, 0, 2) /\ 0 + 1 = 1 /\ 1 + 1 = 2 /\ 2 + 1 = 3
  BY DEF StartsAt
<1>6. Enqueued(q1, EmptyMap, 0, v1, 0)
  BY Zenon, <1>2, EmptyQueue, EnqueueBehind
<1>7. IsQueue(q1, 0, 1)
  BY Zenon, <1>5, <1>6 DEF Enqueued
<1>8. Enqueued(q2, q1, 1, v2, 0)
  BY Zenon, <1>3, <1>7, EnqueueBehind
<1>9. IsQueue(q2, 0, 2)
  BY Zenon, <1>5, <1>8 DEF Enqueued
<1>10. Enqueued(queue', q2, 2, v3, 0)
  BY Zenon, <1>4, <1>9, EnqueueBehind
<1>11. IsQueue(queue', 0, 3)
  BY Zenon, <1>5, <1>10 DEF Enqueued
<1>12. QueueInv'
  <2>1. 0 + 3 <= LastKey + 1
    BY QueueAssumption
  <2> QED
    BY Zenon, <1>11, <2>1 DEF QueueInv
<1>13. Lengthens(q1, 0, EmptyMap, 0, 0, v1)
  BY Zenon, <1>5, <1>6, EmptyQueue, EnqueuedItems
<1>14. Lengthens(q2, 0, q1, 0, 1, v2)
  BY Zenon, <1>5, <1>7, <1>8, EnqueuedItems
<1>15. Lengthens(queue', 0, q2, 0, 2, v3)
  BY Zenon, <1>5, <1>9, <1>10, EnqueuedItems
<1>16. Items(EmptyMap, 0, 0) = <<>>
  BY DEF Items
<1>17. Items(q1, 0, 1) = <<v1>>
  <2>1. Append(<<>>, v1) = <<v1>>
    OBVIOUS
  <2> QED
    BY Zenon, <1>5, <1>13, <1>16, <2>1 DEF Lengthens
<1>18. Items(q2, 0, 2) = <<v1, v2>>
  <2>1. Append(<<v1>>, v2) = <<v1, v2>>
    BY Zenon, AppendToOne
  <2> QED
    BY Zenon, <1>5, <1>14, <1>17, <2>1 DEF Lengthens
<1>19. Items(queue', 0, 3) = MigratedValues
  <2>1. Append(<<v1, v2>>, v3) = <<v1, v2, v3>>
    BY Zenon, AppendToTwo
  <2>2. MigratedValues = <<v1, v2, v3>>
    BY Zenon, <1>1, QueueAssumption
  <2> QED
    BY Zenon, <1>5, <1>15, <1>18, <2>1, <2>2 DEF Lengthens
<1>20. ValuesOf(Stored(<<>>, <<>>))' = Items(queue', 0, 3)
  BY Zenon, <1>11, QueueItems DEF Stored, ValuesOf
<1> QED
  BY Zenon, <1>4, <1>12, <1>19, <1>20 DEF Fifo!Migrate
--------------------------------------------------------------------------------
(* Its queries.  The bounds of the lists, for one-byte keys.                 *)
Halves(k, l) ==
  /\ InBounds(<<k>>, <<>>, <<(<<l>>)>>) <=> k < l
  /\ InBounds(<<k>>, <<(<<l>>)>>, <<>>) <=> ~(k < l)

LEMMA BoundsOfLists ==
  ASSUME NEW k \in Nat, NEW l \in Nat
  PROVE  Halves(k, l) /\ ~InBounds(<<k>>, <<(<<l, 0>>)>>, <<(<<l, 0, 0>>)>>)
<1>1. <<(<<l>>)>> # <<>> /\ <<(<<l, 0>>)>> # <<>> /\ <<(<<l, 0, 0>>)>> # <<>>
  OBVIOUS
<1>2. /\ <<(<<l>>)>>[1] = <<l>> /\ <<(<<l, 0>>)>>[1] = <<l, 0>>
      /\ <<(<<l, 0, 0>>)>>[1] = <<l, 0, 0>>
  OBVIOUS
<1>3. Less(<<k>>, <<l>>) <=> k < l
  BY Zenon, OneByteOrder
<1>4. Halves(k, l)
  BY Zenon, <1>1, <1>2, <1>3 DEF InBounds, Halves
<1>5. Less(<<k>>, <<l, 0, 0>>) => Less(<<k>>, <<l, 0>>)
  BY DEF Less
<1> QED
  BY Zenon, <1>1, <1>2, <1>4, <1>5 DEF InBounds

(* The records have the keys from lo, n of them, in order.                   *)
HasKeys(records, lo, n) ==
  DOMAIN records = 1 .. n /\ \A i \in 1 .. n : records[i][1][1] = lo + i - 1

LEMMA KeysAreListed ==
  ASSUME NEW q, NEW start, NEW end, NEW lo \in Nat, NEW n \in Nat,
         {k \in DOMAIN q : InBounds(k, start, end)} = KeysFrom(lo, n)
  PROVE  HasKeys(range(q, start, end, "Ascending"), lo, n)
<1>1. PICK a : a = [i \in 1 .. n |-> <<lo + i - 1>>]
  BY Zenon
<1>2. Ascending({k \in DOMAIN q : InBounds(k, start, end)}) = a
  BY Zenon, <1>1, KeysInOrder
<1>3. DOMAIN a = 1 .. n
  BY Zenon, <1>1
<1>4. range(q, start, end, "Ascending") = [i \in 1 .. n |-> <<a[i], q[a[i]]>>]
  BY Zenon, <1>2, <1>3 DEF range
<1>5. ASSUME NEW i \in 1 .. n, NEW x PROVE <<a[i], x>>[1][1] = lo + i - 1
  <2>1. a[i] = <<lo + i - 1>>
    BY Zenon, <1>1
  <2> QED
    BY <2>1
<1>6. \A i \in 1 .. n : <<a[i], q[a[i]]>>[1][1] = lo + i - 1
  BY Zenon, <1>5
<1> QED
  BY Zenon, <1>4, <1>6 DEF HasKeys

(* How many of the n keys from lo come before l.                             *)
IsSplit(e, lo, n, l) ==
  /\ e \in Nat /\ n - e \in Nat
  /\ \A k \in Nat : k \in lo .. lo + e - 1 <=> (k \in lo .. lo + n - 1 /\ k < l)
  /\ \A k \in Nat : k \in lo + e .. (lo + e) + (n - e) - 1 <=> (k \in lo .. lo + n - 1 /\ ~(k < l))

LEMMA SplitExists ==
  ASSUME NEW lo \in Nat, NEW n \in Nat, NEW l \in Nat
  PROVE  \E e : IsSplit(e, lo, n, l)
<1>1. CASE l <= lo
  <2>1. IsSplit(0, lo, n, l)
    BY <1>1 DEF IsSplit
  <2> QED
    BY Zenon, <2>1
<1>2. CASE lo < l /\ l < lo + n
  <2>1. IsSplit(l - lo, lo, n, l)
    BY <1>2 DEF IsSplit
  <2> QED
    BY Zenon, <2>1
<1>3. CASE lo + n <= l
  <2>1. IsSplit(n, lo, n, l)
    BY <1>3 DEF IsSplit
  <2> QED
    BY Zenon, <2>1
<1> QED
  BY <1>1, <1>2, <1>3

(* The keys of the records.                                                  *)
FirstBytes(records) == [i \in DOMAIN records |-> records[i][1][1]]

ListsAgree(l, n) ==
  /\ query_list(l).early \o query_list(l).late = FirstBytes(Stored(<<>>, <<>>))
  /\ query_list(l).empty = <<>> /\ DOMAIN Stored(<<>>, <<>>) = 1 .. n

LEMMA ListsAreKeys ==
  ASSUME NEW lo, NEW n, IsQueue(queue, lo, n), NEW l \in Nat
  PROVE  ListsAgree(l, n)
<1>1. lo \in Nat /\ n \in Nat /\ DOMAIN queue = KeysFrom(lo, n) /\ LateKey \in Nat
  BY Zenon, QueueAssumption DEF IsQueue
<1>2. PICK e : IsSplit(e, lo, n, LateKey)
  BY Zenon, <1>1, SplitExists
<1>3. PICK m : e \in Nat /\ m = n - e /\ m \in Nat /\ lo + e \in Nat
  BY <1>1, <1>2 DEF IsSplit
<1>4. ASSUME NEW x PROVE x \in lo .. lo + n - 1 \/ x \in lo .. lo + e - 1 \/ x \in lo + e .. (lo + e) + m - 1 => x \in Nat
  BY <1>1, <1>3
<1>5. {k \in DOMAIN queue : InBounds(k, <<>>, <<(<<LateKey>>)>>)} = KeysFrom(lo, e)
  <2>1. ASSUME NEW k \in Nat
        PROVE  k \in lo .. lo + e - 1 <=> (k \in lo .. lo + n - 1 /\ InBounds(<<k>>, <<>>, <<(<<LateKey>>)>>))
    BY Zenon, <1>1, <1>2, BoundsOfLists DEF Halves, IsSplit
  <2>2. \A x : (x \in KeysFrom(lo, n) /\ InBounds(x, <<>>, <<(<<LateKey>>)>>)) <=> x \in KeysFrom(lo, e)
    BY Zenon, <1>4, <2>1 DEF KeysFrom
  <2> QED
    BY Zenon, <1>1, <2>2
<1>6. {k \in DOMAIN queue : InBounds(k, <<(<<LateKey>>)>>, <<>>)} = KeysFrom(lo + e, m)
  <2>1. ASSUME NEW k \in Nat
        PROVE  k \in lo + e .. (lo + e) + m - 1 <=> (k \in lo .. lo + n - 1 /\ InBounds(<<k>>, <<(<<LateKey>>)>>, <<>>))
    BY Zenon, <1>1, <1>2, <1>3, BoundsOfLists DEF Halves, IsSplit
  <2>2. \A x : (x \in KeysFrom(lo, n) /\ InBounds(x, <<(<<LateKey>>)>>, <<>>)) <=> x \in KeysFrom(lo + e, m)
    BY Zenon, <1>4, <2>1 DEF KeysFrom
  <2> QED
    BY Zenon, <1>1, <2>2
<1>7. {k \in DOMAIN queue : InBounds(k, <<(<<l, 0>>)>>, <<(<<l, 0, 0>>)>>)} = KeysFrom(lo, 0)
  <2>1. \A x \in KeysFrom(lo, n) : ~InBounds(x, <<(<<l, 0>>)>>, <<(<<l, 0, 0>>)>>)
    BY Zenon, <1>4, BoundsOfLists DEF KeysFrom
  <2>2. lo .. lo + 0 - 1 = {}
    BY <1>1
  <2>3. KeysFrom(lo, 0) = {}
    BY Zenon, <2>2 DEF KeysFrom
  <2> QED
    BY Zenon, <1>1, <2>1, <2>3
<1>8. {k \in DOMAIN queue : InBounds(k, <<>>, <<>>)} = KeysFrom(lo, n)
  BY Zenon, <1>1 DEF InBounds
<1>9. PICK early, late, empty, all :
        /\ early = Stored(<<>>, <<(<<LateKey>>)>>) /\ late = Stored(<<(<<LateKey>>)>>, <<>>)
        /\ empty = Stored(<<(<<l, 0>>)>>, <<(<<l, 0, 0>>)>>) /\ all = Stored(<<>>, <<>>)
  BY Zenon
<1>10. 0 \in Nat
  OBVIOUS
<1>11. HasKeys(early, lo, e)
  BY Zenon, <1>1, <1>3, <1>5, <1>9, KeysAreListed DEF Stored
<1>12. HasKeys(late, lo + e, m)
  BY Zenon, <1>3, <1>6, <1>9, KeysAreListed DEF Stored
<1>13. HasKeys(empty, lo, 0)
  BY Zenon, <1>1, <1>7, <1>9, <1>10, KeysAreListed DEF Stored
<1>14. HasKeys(all, lo, n)
  BY Zenon, <1>1, <1>8, <1>9, KeysAreListed DEF Stored
<1>15. /\ FirstBytes(early) = [i \in 1 .. e |-> lo + i - 1]
       /\ FirstBytes(late) = [i \in 1 .. m |-> (lo + e) + i - 1]
       /\ FirstBytes(empty) = [i \in 1 .. 0 |-> lo + i - 1]
       /\ FirstBytes(all) = [i \in 1 .. n |-> lo + i - 1] /\ DOMAIN all = 1 .. n
  BY Zenon, <1>11, <1>12, <1>13, <1>14 DEF HasKeys, FirstBytes
<1>16. FirstBytes(early) \o FirstBytes(late) = FirstBytes(all)
  <2>1. PICK a, b, c : a = FirstBytes(early) /\ b = FirstBytes(late) /\ c = FirstBytes(all)
    BY Zenon
  <2>2. a = [i \in 1 .. e |-> lo + i - 1] /\ b = [i \in 1 .. m |-> (lo + e) + i - 1] /\ c = [i \in 1 .. n |-> lo + i - 1]
    BY Zenon, <1>15, <2>1
  <2>3. a \o b = c
    BY <1>1, <1>3, <2>2
  <2> QED
    BY Zenon, <2>1, <2>3
<1>17. FirstBytes(empty) = <<>>
  BY <1>15
<1>18. query_list(l) = [empty |-> FirstBytes(empty), early |-> FirstBytes(early), late |-> FirstBytes(late)]
  BY Zenon, <1>9 DEF query_list, FirstBytes
<1>19. query_list(l).empty = FirstBytes(empty) /\ query_list(l).early = FirstBytes(early) /\ query_list(l).late = FirstBytes(late)
  BY <1>18
<1> QED
  BY Zenon, <1>9, <1>15, <1>16, <1>17, <1>19 DEF ListsAgree

--------------------------------------------------------------------------------
(* The sums.  s counts up the values at the given positions.                 *)
IsSum(s, values, at, n) ==
  /\ s \in [0 .. n -> Int] /\ s[0] = 0
  /\ \A k \in 1 .. n : s[k] = IF k \in at THEN Add32(s[k - 1], values[k]) ELSE s[k - 1]

IsSumOf(total, values, at, n) == \E s : IsSum(s, values, at, n) /\ total = s[n]

(* A sum that fits is exact, and so were the ones before it.                 *)
LEMMA AddIsExact ==
  ASSUME NEW s \in Int, NEW v \in Int
  PROVE  Add32(s, v) \in Int /\ (Add32(s, v) # NoSum => s # NoSum /\ Add32(s, v) = s + v)
BY QueueAssumption DEF Add32, NoSum

LEMMA SumIsCounted ==
  ASSUME NEW values, NEW n \in Nat, Len(values) = n, \A k \in 1 .. n : values[k] \in Int, NEW at
  PROVE  IsSumOf(Sum32(values, at), values, at, n)
<1> DEFINE P(g) == g = [i \in 0 .. Len(values) |->
                          IF i = 0 THEN 0
                          ELSE IF i \in at THEN Add32(g[i - 1], values[i])
                          ELSE g[i - 1]]
           sum == CHOOSE g : P(g)
<1>1. Sum32(values, at) = sum[n]
  BY Zenon DEF Sum32
<1>2. PICK f : f = [k \in 1 .. n |-> [v \in Int |-> IF k \in at THEN Add32(v, values[k]) ELSE v]]
  BY Zenon
<1>3. f \in [1 .. n -> [Int -> Int]]
  <2>1. \A k \in 1 .. n, v \in Int : (IF k \in at THEN Add32(v, values[k]) ELSE v) \in Int
    BY Zenon, AddIsExact
  <2> QED
    BY Zenon, <1>2, <2>1
<1>4. 0 \in Int
  OBVIOUS
<1>5. PICK s : Recursion(s, Int, 0, f, n)
  BY Zenon, <1>3, <1>4, RecursionExists
<1>6. s \in [0 .. n -> Int] /\ s[0] = 0
  BY Zenon, <1>5 DEF Recursion
<1>7. ASSUME NEW k \in 1 .. n
      PROVE  s[k] = IF k \in at THEN Add32(s[k - 1], values[k]) ELSE s[k - 1]
  <2>1. k - 1 \in 0 .. n
    OBVIOUS
  <2>2. s[k - 1] \in Int /\ s[k] = f[k][s[k - 1]]
    BY Zenon, <1>5, <1>6, <2>1 DEF Recursion
  <2> QED
    BY Zenon, <1>2, <2>2
<1>8. P(s)
  <2>1. \A i \in 0 .. n : i = 0 \/ (i \in 1 .. n /\ i # 0)
    OBVIOUS
  <2>2. \A i \in 0 .. n : s[i] = IF i = 0 THEN 0
                                 ELSE IF i \in at THEN Add32(s[i - 1], values[i])
                                 ELSE s[i - 1]
    BY Zenon, <1>6, <1>7, <2>1
  <2> QED
    BY Zenon, <1>6, <2>2
<1>9. P(sum)
  BY Zenon, <1>8
<1> HIDE DEF sum
<1>10. sum[0] = s[0]
  <2>1. 0 \in 0 .. n
    OBVIOUS
  <2> QED
    BY Zenon, <1>6, <1>9, <2>1
<1>11. ASSUME NEW i \in 1 .. n, sum[i - 1] = s[i - 1] PROVE sum[i] = s[i]
  <2>1. i \in 0 .. n /\ i # 0
    OBVIOUS
  <2> QED
    BY Zenon, <1>7, <1>9, <1>11, <2>1
<1>12. \A i \in 0 .. n : sum[i] = s[i]
  <2>1. \A i \in 1 .. n : sum[i - 1] = s[i - 1] => sum[i] = s[i]
    BY Zenon, <1>11
  <2>2. GoOnAlike(sum, s, n)
    BY Zenon, <1>10, <2>1 DEF GoOnAlike
  <2>3. AlikeTo(sum, s, n)
    BY Zenon, <2>2, SameRecursion
  <2> QED
    BY Zenon, <2>3 DEF AlikeTo
<1>13. n \in 0 .. n
  OBVIOUS
<1>14. Sum32(values, at) = s[n]
  BY Zenon, <1>1, <1>12, <1>13
<1>15. IsSum(s, values, at, n)
  BY Zenon, <1>6, <1>7 DEF IsSum
<1> QED
  BY Zenon, <1>14, <1>15 DEF IsSumOf

(* The first k positions of the value m.                                     *)
Equals(values, m, k) == {j \in 1 .. k : values[j] = m}

CountsNext(values, m, k) ==
  Cardinality(Equals(values, m, k + 1)) =
    IF values[k + 1] = m THEN Cardinality(Equals(values, m, k)) + 1
    ELSE Cardinality(Equals(values, m, k))

LEMMA EqualsCount ==
  ASSUME NEW values, NEW m, NEW k \in Nat
  PROVE  /\ IsFiniteSet(Equals(values, m, k)) /\ Cardinality(Equals(values, m, k)) \in Nat
         /\ CountsNext(values, m, k)
<1>1. PICK A, B : A = Equals(values, m, k) /\ B = Equals(values, m, k + 1)
  BY Zenon
<1>2. IsFiniteSet(1 .. k)
  BY FS_Interval
<1>3. A \subseteq 1 .. k
  BY Zenon, <1>1 DEF Equals
<1>4. IsFiniteSet(A)
  BY Zenon, <1>2, <1>3, FS_Subset
<1>5. Cardinality(A) \in Nat
  BY Zenon, <1>4, FS_CardinalityType
<1>6. k + 1 \notin 1 .. k /\ \A j : j \in 1 .. k + 1 <=> (j \in 1 .. k \/ j = k + 1)
  OBVIOUS
<1>7. CASE values[k + 1] = m
  <2>1. B = A \cup {k + 1}
    BY Zenon, <1>1, <1>6, <1>7 DEF Equals
  <2>2. k + 1 \notin A
    BY Zenon, <1>3, <1>6
  <2>3. Cardinality(B) = Cardinality(A) + 1
    BY Zenon, <1>4, <2>1, <2>2, FS_AddElement
  <2> QED
    BY Zenon, <1>1, <1>4, <1>5, <1>7, <2>3 DEF CountsNext
<1>8. CASE values[k + 1] # m
  <2>1. B = A
    BY Zenon, <1>1, <1>6, <1>8 DEF Equals
  <2> QED
    BY Zenon, <1>1, <1>4, <1>5, <1>8, <2>1 DEF CountsNext
<1> QED
  BY Zenon, <1>7, <1>8

(* All values are the least ones and those above.                            *)
Splits(total, above, c, m) == total # NoSum /\ above # NoSum => total = above + c * m

(* One more value v is added.                                                *)
Added(t1, g1, c1, t, g, c, v, m) ==
  /\ t \in Int /\ g \in Int /\ c \in Nat /\ v \in Int /\ m \in Int /\ v >= m
  /\ t1 = Add32(t, v)
  /\ g1 = IF v > m THEN Add32(g, v) ELSE g
  /\ c1 = IF v = m THEN c + 1 ELSE c

LEMMA SplitGrows ==
  ASSUME NEW t, NEW g, NEW c, NEW v, NEW m, NEW t1, NEW g1, NEW c1,
         Added(t1, g1, c1, t, g, c, v, m), Splits(t, g, c, m)
  PROVE  Splits(t1, g1, c1, m)
<1> SUFFICES ASSUME t1 # NoSum, g1 # NoSum PROVE t1 = g1 + c1 * m
  BY Zenon DEF Splits
<1>0. t \in Int /\ g \in Int /\ c \in Nat /\ v \in Int /\ m \in Int /\ v >= m
  BY Zenon DEF Added
<1>1. t # NoSum /\ t1 = t + v
  BY Zenon, <1>0, AddIsExact DEF Added
<1>2. CASE v = m
  <2>1. ~(v > m)
    BY <1>0, <1>2
  <2>2. g1 = g /\ c1 = c + 1
    BY Zenon, <1>2, <2>1 DEF Added
  <2>3. t = g + c * m
    BY Zenon, <1>1, <2>2 DEF Splits
  <2>4. c * m \in Int /\ (c + 1) * m = c * m + m
    BY <1>0
  <2>5. PICK p \in Int : p = c * m
    BY Zenon, <2>4
  <2>6. t = g + p /\ c1 * m = p + m
    BY Zenon, <2>2, <2>3, <2>4, <2>5
  <2> QED
    BY <1>0, <1>1, <1>2, <2>2, <2>5, <2>6
<1>3. CASE v # m
  <2>1. v > m
    BY <1>0, <1>3
  <2>2. c1 = c /\ g # NoSum /\ g1 = g + v
    BY Zenon, <1>0, <1>3, <2>1, AddIsExact DEF Added
  <2>3. t = g + c * m
    BY Zenon, <1>1, <2>2 DEF Splits
  <2>4. PICK p \in Int : p = c * m
    BY <1>0
  <2>5. t = g + p /\ c1 * m = p
    BY Zenon, <2>2, <2>3, <2>4
  <2> QED
    BY <1>0, <1>1, <2>2, <2>4, <2>5
<1> QED
  BY Zenon, <1>2, <1>3

LEMMA SumsAgree ==
  ASSUME NEW n \in Nat, NEW values, NEW m \in Int, \A k \in 1 .. n : values[k] \in Int /\ values[k] >= m,
         NEW total, IsSumOf(total, values, 1 .. n, n),
         NEW above, IsSumOf(above, values, {j \in 1 .. n : values[j] > m}, n)
  PROVE  Splits(total, above, Cardinality(Equals(values, m, n)), m)
<1>1. PICK t : IsSum(t, values, 1 .. n, n) /\ total = t[n]
  BY Zenon DEF IsSumOf
<1>2. PICK g : IsSum(g, values, {j \in 1 .. n : values[j] > m}, n) /\ above = g[n]
  BY Zenon DEF IsSumOf
<1> DEFINE T == {k \in Nat : k <= n => Splits(t[k], g[k], Cardinality(Equals(values, m, k)), m)}
<1>3. 0 \in T
  <2>1. t[0] = 0 /\ g[0] = 0
    BY Zenon, <1>1, <1>2 DEF IsSum
  <2>2. 1 .. 0 = {}
    OBVIOUS
  <2>3. Equals(values, m, 0) = {}
    BY Zenon, <2>2 DEF Equals
  <2>4. Cardinality(Equals(values, m, 0)) = 0
    BY Zenon, <2>3, FS_EmptySet
  <2>5. 0 = 0 + 0 * m /\ 0 \in Nat
    OBVIOUS
  <2> QED
    BY Zenon, <2>1, <2>4, <2>5 DEF Splits
<1>4. ASSUME NEW k \in Nat, k \in T PROVE k + 1 \in T
  <2> SUFFICES ASSUME k + 1 <= n PROVE Splits(t[k + 1], g[k + 1], Cardinality(Equals(values, m, k + 1)), m)
    OBVIOUS
  <2>1. k <= n /\ k \in 0 .. n /\ k + 1 \in 1 .. n /\ (k + 1) - 1 = k
    OBVIOUS
  <2>2. Splits(t[k], g[k], Cardinality(Equals(values, m, k)), m)
    BY Zenon, <1>4, <2>1
  <2>3. PICK v : v = values[k + 1] /\ v \in Int /\ v >= m
    BY Zenon, <2>1
  <2>4. PICK x, x1 : x = t[k] /\ x1 = t[k + 1] /\ x \in Int /\ x1 = Add32(x, v)
    BY Zenon, <1>1, <2>1, <2>3 DEF IsSum
  <2>5. PICK y, y1 : y = g[k] /\ y1 = g[k + 1] /\ y \in Int /\ y1 = IF v > m THEN Add32(y, v) ELSE y
    BY Zenon, <1>2, <2>1, <2>3 DEF IsSum
  <2>6. PICK c, c1 : c = Cardinality(Equals(values, m, k)) /\ c1 = Cardinality(Equals(values, m, k + 1))
    BY Zenon
  <2>7. c \in Nat /\ CountsNext(values, m, k)
    BY Zenon, <2>6, EqualsCount
  <2>8. Added(x1, y1, c1, x, y, c, v, m)
    BY Zenon, <2>3, <2>4, <2>5, <2>6, <2>7 DEF Added, CountsNext
  <2>9. Splits(x, y, c, m)
    BY Zenon, <2>2, <2>4, <2>5, <2>6
  <2>10. Splits(x1, y1, c1, m)
    BY Zenon, <2>8, <2>9, SplitGrows
  <2> QED
    BY Zenon, <2>4, <2>5, <2>6, <2>10
<1>5. Nat \subseteq T
  <2> HIDE DEF T
  <2> QED
    BY <1>3, <1>4, NaturalInduction
<1>6. n <= n
  OBVIOUS
<1> QED
  BY Zenon, <1>1, <1>2, <1>5, <1>6

(* The values are integers.                                                  *)
QueueTyped == \A k \in DOMAIN queue : queue[k] \in Int

(* What the reducer and the sum say of a queue.                              *)
SumsAreRight ==
  LET least == {i \in DOMAIN query_reducer :
                  \A j \in DOMAIN query_reducer : query_reducer[j][1] >= query_reducer[i][1]}
  IN  \A i \in least :
        query_reducer[i][2] # NoSum /\ query_sum # NoSum =>
          query_sum = query_reducer[i][2] + Cardinality(least) * query_reducer[i][1]

LEMMA ReducerAddsUp ==
  ASSUME NEW lo, NEW n, IsQueue(queue, lo, n), QueueTyped
  PROVE  SumsAreRight
<1>1. lo \in Nat /\ n \in Nat /\ DOMAIN queue = KeysFrom(lo, n)
  BY Zenon DEF IsQueue
<1>2. PICK values : /\ values = ValuesOf(Stored(<<>>, <<>>))
                    /\ values = [i \in 1 .. n |-> queue[<<lo + i - 1>>]]
  <2>1. ValuesOf(Stored(<<>>, <<>>)) = Items(queue, lo, n)
    BY Zenon, QueueItems DEF Stored
  <2> QED
    BY Zenon, <2>1 DEF Items
<1>3. DOMAIN values = 1 .. n /\ Len(values) = n
  BY <1>1, <1>2
<1>4. ASSUME NEW i \in 1 .. n PROVE values[i] \in Int
  <2>1. lo + i - 1 \in lo .. lo + n - 1
    BY <1>1
  <2>2. <<lo + i - 1>> \in DOMAIN queue
    BY Zenon, <1>1, <2>1 DEF KeysFrom
  <2> QED
    BY Zenon, <1>2, <2>2 DEF QueueTyped
<1>5. PICK above : above = [i \in 1 .. n |-> Sum32(values, {j \in 1 .. n : values[j] > values[i]})]
  BY Zenon
<1>6. PICK reducer : reducer = query_reducer /\ reducer = [i \in 1 .. n |-> <<values[i], above[i]>>]
  BY Zenon, <1>2, <1>3, <1>5 DEF query_reducer
<1>7. ASSUME NEW i \in 1 .. n PROVE reducer[i][1] = values[i] /\ reducer[i][2] = above[i]
  <2>1. reducer[i] = <<values[i], above[i]>>
    BY Zenon, <1>6
  <2> QED
    BY <2>1
<1>8. PICK least : least = {i \in 1 .. n : \A j \in 1 .. n : values[j] >= values[i]}
  BY Zenon
<1>9. {i \in DOMAIN query_reducer :
         \A j \in DOMAIN query_reducer : query_reducer[j][1] >= query_reducer[i][1]} = least
  <2>1. DOMAIN reducer = 1 .. n
    BY Zenon, <1>6
  <2>2. \A i : (i \in 1 .. n /\ \A j \in 1 .. n : reducer[j][1] >= reducer[i][1]) <=> i \in least
    BY Zenon, <1>7, <1>8
  <2> QED
    BY Zenon, <1>6, <2>1, <2>2
<1>10. IsSumOf(query_sum, values, 1 .. n, n)
  BY Zenon, <1>1, <1>2, <1>3, <1>4, SumIsCounted DEF query_sum
<1>11. ASSUME NEW i \in least, query_reducer[i][2] # NoSum, query_sum # NoSum
       PROVE  query_sum = query_reducer[i][2] + Cardinality(least) * query_reducer[i][1]
  <2>1. PICK m : i \in 1 .. n /\ m = values[i] /\ m \in Int /\ \A j \in 1 .. n : values[j] >= m
    BY Zenon, <1>4, <1>8
  <2>2. least = Equals(values, m, n)
    <3>1. ASSUME NEW k \in 1 .. n, values[k] = m PROVE k \in least
      BY Zenon, <1>8, <2>1, <3>1
    <3>2. ASSUME NEW k \in least PROVE k \in 1 .. n /\ values[k] = m
      <4>1. k \in 1 .. n /\ values[i] >= values[k] /\ values[k] >= m
        BY Zenon, <1>8, <2>1
      <4>2. values[k] \in Int
        BY Zenon, <1>4, <4>1
      <4> QED
        BY <2>1, <4>1, <4>2
    <3> QED
      BY Zenon, <3>1, <3>2 DEF Equals
  <2>3. above[i] = Sum32(values, {j \in 1 .. n : values[j] > m})
    BY Zenon, <1>5, <2>1
  <2>4. IsSumOf(above[i], values, {j \in 1 .. n : values[j] > m}, n)
    BY Zenon, <1>1, <1>3, <1>4, <2>3, SumIsCounted
  <2>5. Splits(query_sum, above[i], Cardinality(Equals(values, m, n)), m)
    BY Zenon, <1>1, <1>4, <1>10, <2>1, <2>4, SumsAgree
  <2>6. query_reducer[i][1] = m /\ query_reducer[i][2] = above[i]
    BY Zenon, <1>6, <1>7, <2>1
  <2> QED
    BY Zenon, <1>11, <2>2, <2>5, <2>6 DEF Splits
<1> QED
  BY Zenon, <1>9, <1>11 DEF SumsAreRight

LEMMA QueriesDescribeQueue ==
  ASSUME QueueInv, QueueTyped
  PROVE  QueueQueriesAgree
<1>1. PICK lo, n : IsQueue(queue, lo, n)
  BY Zenon DEF QueueInv
<1>2. n \in Nat /\ LateKey + 1 \in Nat
  BY <1>1, QueueAssumption DEF IsQueue
<1>3. PICK l \in Nat : l = LateKey + 1
  BY Zenon, <1>2
<1>a. ListsAgree(l, n)
  BY Zenon, <1>1, ListsAreKeys
<1>4. /\ query_list(l).early \o query_list(l).late = FirstBytes(Stored(<<>>, <<>>))
      /\ query_list(l).empty = <<>> /\ DOMAIN Stored(<<>>, <<>>) = 1 .. n
  BY Zenon, <1>a DEF ListsAgree
<1>5. Len(Stored(<<>>, <<>>)) = n /\ Len(FirstBytes(Stored(<<>>, <<>>))) = n
  <2>1. PICK records : records = Stored(<<>>, <<>>) /\ records = [i \in 1 .. n |-> records[i]]
    <3>1. IsListed(queue, lo, n)
      BY Zenon, <1>1, QueueIsListed
    <3> QED
      BY Zenon, <3>1 DEF IsListed, Stored
  <2>2. PICK keys : keys = FirstBytes(records) /\ keys = [i \in 1 .. n |-> records[i][1][1]]
    BY Zenon, <1>4, <2>1 DEF FirstBytes
  <2>3. Len(records) = n /\ Len(keys) = n
    BY <1>2, <2>1, <2>2
  <2> QED
    BY Zenon, <2>1, <2>2, <2>3
<1>6. SumsAreRight
  BY Zenon, <1>1, ReducerAddsUp
<1> QED
  BY Zenon, <1>3, <1>4, <1>5, <1>6 DEF QueueQueriesAgree, SumsAreRight, FirstBytes, query_count

LEMMA EnqueueTyped ==
  ASSUME NEW q, \A k \in DOMAIN q : q[k] \in Int, NEW value \in Int
  PROVE  \A k \in DOMAIN enqueue(q, value) : enqueue(q, value)[k] \in Int
<1>1. PICK key : enqueue(q, value) = set(q, key, value)
  BY Zenon DEF enqueue
<1> QED
  BY Zenon, <1>1 DEF set

LEMMA QueueStaysTyped ==
  ASSUME QueueTyped, [QueueNext]_queueVars
  PROVE  QueueTyped'
<1>1. /\ QueueValues \subseteq Int
      /\ MigratedValues[1] \in Int /\ MigratedValues[2] \in Int /\ MigratedValues[3] \in Int
  <2>1. PICK range32 : range32 = -IntLimit .. IntLimit - 1 /\ range32 \subseteq Int
    BY QueueAssumption
  <2>2. 1 \in 1 .. 3 /\ 2 \in 1 .. 3 /\ 3 \in 1 .. 3
    OBVIOUS
  <2> QED
    BY Zenon, <2>1, <2>2, QueueAssumption
<1>2. ASSUME NEW value \in QueueValues, handle_enqueue(value) PROVE QueueTyped'
  BY Zenon, <1>1, <1>2, EnqueueTyped DEF handle_enqueue, QueueTyped
<1>3. CASE handle_dequeue
  <2>1. queue' = queue \/ \E key : queue' = remove(queue, key)
    BY Zenon, <1>3 DEF handle_dequeue
  <2> QED
    BY Zenon, <2>1 DEF QueueTyped, remove
<1>4. CASE migrate
  <2>1. PICK q1, q2 : /\ q1 = enqueue(EmptyMap, MigratedValues[1]) /\ q2 = enqueue(q1, MigratedValues[2])
                      /\ queue' = enqueue(q2, MigratedValues[3])
    BY Zenon, <1>4 DEF migrate
  <2>2. DOMAIN EmptyMap = {}
    BY DEF EmptyMap
  <2>3. \A k \in DOMAIN EmptyMap : EmptyMap[k] \in Int
    BY Zenon, <2>2
  <2>4. \A k \in DOMAIN q1 : q1[k] \in Int
    BY Zenon, <1>1, <2>1, <2>3, EnqueueTyped
  <2>5. \A k \in DOMAIN q2 : q2[k] \in Int
    BY Zenon, <1>1, <2>1, <2>4, EnqueueTyped
  <2> QED
    BY Zenon, <1>1, <2>1, <2>5, EnqueueTyped DEF QueueTyped
<1>5. CASE UNCHANGED queueVars
  BY Zenon, <1>5 DEF queueVars, QueueTyped
<1> QED
  BY Zenon, <1>2, <1>3, <1>4, <1>5 DEF QueueNext

(* The keys of the queue never break its order: ranged over in key order the *)
(* storage is a first-in first-out queue through any sequence of calls,      *)
(* whatever keys were used before, and what count, sum, reducer and list say *)
(* of it agrees (enqueue, handle_dequeue, migrate, query).                   *)
THEOREM QueueKeepsOrder == QueueSpec => QueueIsFifo
<1>1. QueueInit => QueueInv /\ Fifo!Init
  <2> SUFFICES ASSUME QueueInit PROVE QueueInv /\ Fifo!Init
    OBVIOUS
  <2>1. queue = EmptyMap /\ dequeued = <<>>
    BY Zenon DEF QueueInit
  <2>2. 0 + 0 <= LastKey + 1
    BY QueueAssumption
  <2>3. QueueInv
    BY Zenon, <2>1, <2>2, EmptyQueue DEF QueueInv
  <2>4. ValuesOf(Stored(<<>>, <<>>)) = Items(EmptyMap, 0, 0)
    BY Zenon, <2>1, EmptyQueue, QueueItems DEF Stored
  <2>5. Items(EmptyMap, 0, 0) = <<>>
    BY DEF Items
  <2> QED
    BY Zenon, <2>1, <2>3, <2>4, <2>5 DEF Fifo!Init
<1>2. QueueInv /\ [QueueNext]_queueVars =>
        QueueInv' /\ [Fifo!Next]_<<ValuesOf(Stored(<<>>, <<>>)), dequeued>>
  <2>1. QueueInv /\ QueueNext => QueueInv' /\ Fifo!Next
    BY Zenon, EnqueueStep, DequeueStep, MigrateStep DEF QueueNext, Fifo!Next
  <2>2. QueueInv /\ UNCHANGED queueVars =>
          QueueInv' /\ UNCHANGED <<ValuesOf(Stored(<<>>, <<>>)), dequeued>>
    BY Zenon DEF QueueInv, queueVars, ValuesOf, Stored
  <2> QED
    BY Zenon, <2>1, <2>2
<1>3. QueueInit => QueueTyped
  <2>1. DOMAIN EmptyMap = {}
    BY DEF EmptyMap
  <2> QED
    BY Zenon, <2>1 DEF QueueInit, QueueTyped
<1>4. QueueTyped /\ [QueueNext]_queueVars => QueueTyped'
  BY Zenon, QueueStaysTyped
<1>5. QueueInv /\ QueueTyped => QueueQueriesAgree
  BY Zenon, QueriesDescribeQueue
<1> QED
  BY <1>1, <1>2, <1>3, <1>4, <1>5, PTL DEF QueueSpec, QueueIsFifo, Fifo!Spec
================================================================================
