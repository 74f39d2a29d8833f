------------------------------- MODULE CallProofs ------------------------------
(***************************************************************************)
(* Properties of functions of cosmwasm-std and of the VM for every unit of *)
(* time, every width of the numbers and every size of the memory, not only *)
(* for the small ones TLC is given: regions, times and timeouts, the limit *)
(* of the memory, recovery parameters.                                     *)
(***************************************************************************)
EXTENDS Calls, StdTypes, WasmCheck, Crypto, TLAPS

(* The functions of the four modules, call by call.                          *)
FunctionNext == RegionNext \/ TypeNext \/ WasmNext \/ EthereumNext
FunctionSpec == NoInput /\ [][FunctionNext]_input

FunctionCalls == RegionCalls \cup TypeCalls \cup WasmCalls \cup EthereumCalls

CallInv == input = [type |-> "none"] \/ input \in FunctionCalls

(* The arguments are those of one call.                                      *)
LEMMA Arguments == FunctionSpec => []CallInv
<1>1. NoInput => CallInv
  BY Zenon DEF NoInput, CallInv
<1>2. CallInv /\ [FunctionNext]_input => CallInv'
  BY Zenon DEF CallInv, FunctionCalls, FunctionNext, RegionNext, TypeNext, WasmNext, EthereumNext, Provide
<1> QED
  BY <1>1, <1>2, PTL DEF FunctionSpec

--------------------------------------------------------------------------------
(* Quotient and remainder are what they are defined by, and only that.       *)
LEMMA DivMod ==
  ASSUME NEW n \in Nat, NEW d \in Nat \ {0}
  PROVE  /\ n \div d \in Nat /\ n % d \in 0 .. d - 1
         /\ n = (n \div d) * d + (n % d)
  OBVIOUS

LEMMA DivModUnique ==
  ASSUME NEW q \in Nat, NEW d \in Nat \ {0}, NEW r \in 0 .. d - 1
  PROVE  (q * d + r) \div d = q /\ (q * d + r) % d = r
<1>1. PICK n \in Nat : n = q * d + r
  OBVIOUS
<1>2. PICK p \in Nat, m \in 0 .. d - 1 : p = n \div d /\ m = n % d /\ n = p * d + m
  BY Zenon, <1>1, DivMod
<1>3. ASSUME p < q PROVE FALSE
  <2>1. PICK k \in Nat : q = p + 1 + k
    BY <1>3
  <2>2. q * d = p * d + d + k * d /\ k * d >= 0
    BY <2>1
  <2> QED
    BY <2>2, <1>1, <1>2
<1>4. ASSUME q < p PROVE FALSE
  <2>1. PICK k \in Nat : p = q + 1 + k
    BY <1>4
  <2>2. p * d = q * d + d + k * d /\ k * d >= 0
    BY <2>1
  <2> QED
    BY <2>2, <1>1, <1>2
<1>5. p = q /\ m = r
  BY <1>1, <1>2, <1>3, <1>4
<1> QED
  BY Zenon, <1>1, <1>2, <1>5

--------------------------------------------------------------------------------
(* What a call of each type has for arguments.                               *)
LEMMA CallTypes ==
  ASSUME NEW c
  PROVE  /\ c \in RegionCalls => c.type \in {"region", "sections", "bytes"}
         /\ c \in TypeCalls => c.type \in {"time", "timeouts"}
         /\ c \in WasmCalls => c.type \in {"module", "memory", "function"}
         /\ c \in EthereumCalls => c.type \in {"chain", "transaction", "pad"}
<1>1. c \in RegionCalls => c.type \in {"region", "sections", "bytes"}
  BY Zenon DEF RegionCalls
<1>2. c \in TypeCalls => c.type \in {"time", "timeouts"}
  BY Zenon DEF TypeCalls
<1>3. c \in WasmCalls => c.type \in {"module", "memory", "function"}
  BY Zenon DEF WasmCalls
<1>4. c \in EthereumCalls => c.type \in {"chain", "transaction", "pad"}
  BY DEF EthereumCalls
<1> QED
  BY Zenon, <1>1, <1>2, <1>3, <1>4

LEMMA RegionArguments ==
  ASSUME NEW c \in FunctionCalls, c.type = "region"
  PROVE  /\ c.size \in Nat /\ c.limit \in Nat /\ c.ptr \in Nat
         /\ c.region \in [offset : 0 .. MaxU32, capacity : 0 .. MaxU32, length : 0 .. MaxU32]
<1>1. c \in RegionCalls
  BY Zenon, CallTypes DEF FunctionCalls
<1>2. c.size \in MemorySizes /\ c.limit \in ReadLimits /\ c.ptr \in RegionPointers
      /\ c.region \in [offset : 0 .. MaxU32, capacity : 0 .. MaxU32, length : 0 .. MaxU32]
  BY Zenon, <1>1 DEF RegionCalls
<1> QED
  BY Zenon, <1>2, RegionAssumption

LEMMA TimeArguments ==
  ASSUME NEW c \in FunctionCalls, c.type = "time"
  PROVE  c.t \in 0 .. MaxNanos /\ c.seconds \in 0 .. MaxNanos /\ c.nanos \in 0 .. MaxNanos
<1>1. c \in TypeCalls
  BY Zenon, CallTypes DEF FunctionCalls
<1> QED
  BY Zenon, <1>1 DEF TypeCalls

LEMMA TimeoutArguments ==
  ASSUME NEW c \in FunctionCalls, c.type = "timeouts"
  PROVE  c.a \in Blocks /\ c.b \in Blocks
<1>1. c \in TypeCalls
  BY Zenon, CallTypes DEF FunctionCalls
<1> QED
  BY Zenon, <1>1 DEF TypeCalls

LEMMA MemoryArguments ==
  ASSUME NEW c \in FunctionCalls, c.type = "memory"
  PROVE  c.memory \in MemoryTypes /\ c.size \in 0 .. MaxMemorySize /\ c.delta \in 0 .. 3
<1>1. c \in WasmCalls
  BY Zenon, CallTypes DEF FunctionCalls
<1> QED
  BY Zenon, <1>1 DEF WasmCalls

LEMMA ChainArguments ==
  ASSUME NEW c \in FunctionCalls, c.type = "chain"
  PROVE  c.v \in 0 .. VLimit - 1 /\ c.chain_id \in 0 .. VLimit - 1
<1>1. c \in EthereumCalls
  BY Zenon, CallTypes DEF FunctionCalls
<1> QED
  BY <1>1 DEF EthereumCalls

--------------------------------------------------------------------------------
(* Regions.  The bytes of a number give the number back.                     *)
Regions == [offset : 0 .. MaxU32, capacity : 0 .. MaxU32, length : 0 .. MaxU32]

(* The lowest byte of n and the rest, when n is below m times a byte.        *)
Below(n, m) == n \in Nat /\ m \in Nat /\ n < SectionRadix * m

Splits(n, m, q, b) ==
  /\ q \in Nat /\ q < m /\ q = n \div SectionRadix
  /\ b \in ByteValues /\ b = n % SectionRadix
  /\ n = b + SectionRadix * q

LEMMA LowestByte ==
  ASSUME NEW n, NEW m, Below(n, m)
  PROVE  \E q, b : Splits(n, m, q, b)
<1>0. n \in Nat /\ m \in Nat /\ n < SectionRadix * m
  BY Zenon DEF Below
<1>1. PICK q \in Nat, r \in 0 .. SectionRadix - 1 :
        q = n \div SectionRadix /\ r = n % SectionRadix /\ n = q * SectionRadix + r
  BY Zenon, <1>0, DivMod, SectionsAssumption
<1>2. n = r + SectionRadix * q
  BY <1>1, SectionsAssumption
<1>3. ASSUME q >= m PROVE FALSE
  <2>1. PICK k \in Nat : q = m + k
    BY <1>0, <1>3
  <2>2. SectionRadix * q = SectionRadix * m + SectionRadix * k /\ SectionRadix * k >= 0
    BY <1>0, <2>1, SectionsAssumption
  <2> QED
    BY <1>0, <1>2, <2>2, SectionsAssumption
<1>4. q < m
  BY <1>0, <1>3
<1> QED
  BY Zenon, <1>1, <1>2, <1>4 DEF ByteValues, Splits

LEMMA BytesOfNumber ==
  ASSUME NEW n \in 0 .. MaxU32
  PROVE  \E b1, b2, b3, b4 \in ByteValues :
           /\ LittleEndian(n) = <<b1, b2, b3, b4>>
           /\ n = b1 + SectionRadix * (b2 + SectionRadix * (b3 + SectionRadix * b4))
<1> DEFINE R == SectionRadix
<1>1. R \in Nat /\ n \in Nat /\ n < R * (R * (R * R)) /\ R * R \in Nat /\ R * (R * R) \in Nat
  BY SectionsAssumption, RegionAssumption
<1>2. PICK q1, b1 : Splits(n, R * (R * R), q1, b1)
  <2>1. Below(n, R * (R * R))
    BY Zenon, <1>1 DEF Below
  <2> QED
    BY Zenon, <2>1, LowestByte
<1>3. PICK q2, b2 : Splits(q1, R * R, q2, b2)
  <2>1. Below(q1, R * R)
    BY Zenon, <1>1, <1>2 DEF Below, Splits
  <2> QED
    BY Zenon, <2>1, LowestByte
<1>4. PICK q3, b3 : Splits(q2, R, q3, b3)
  <2>1. Below(q2, R)
    BY Zenon, <1>1, <1>3 DEF Below, Splits
  <2> QED
    BY Zenon, <2>1, LowestByte
<1>5. PICK q4, b4 : Splits(q3, 1, q4, b4)
  <2>1. q3 \in Nat /\ q3 < R
    BY Zenon, <1>4 DEF Splits
  <2>2. Below(q3, 1)
    BY <1>1, <2>1 DEF Below
  <2> QED
    BY Zenon, <2>2, LowestByte
<1>6. b4 \in ByteValues /\ q3 = b4
  <2>1. q4 \in Nat /\ q4 < 1 /\ b4 \in ByteValues /\ q3 = b4 + R * q4
    BY Zenon, <1>5 DEF Splits
  <2>2. q4 = 0
    BY <2>1
  <2> QED
    BY <1>1, <2>1, <2>2 DEF ByteValues
<1>7. /\ q1 = n \div R /\ b1 = n % R /\ n = b1 + R * q1 /\ b1 \in ByteValues
      /\ q2 = q1 \div R /\ b2 = q1 % R /\ q1 = b2 + R * q2 /\ b2 \in ByteValues
      /\ q3 = q2 \div R /\ b3 = q2 % R /\ q2 = b3 + R * q3 /\ b3 \in ByteValues
      /\ b4 = q3 % R
  BY Zenon, <1>2, <1>3, <1>4, <1>5 DEF Splits
<1>8. LittleEndian(n) = <<b1, b2, b3, b4>>
  BY Zenon, <1>7 DEF LittleEndian
<1>9. n = b1 + R * (b2 + R * (b3 + R * b4))
  BY Zenon, <1>6, <1>7
<1>10. b1 \in ByteValues /\ b2 \in ByteValues /\ b3 \in ByteValues /\ b4 \in ByteValues
  BY Zenon, <1>6, <1>7
<1> QED
  BY Zenon, <1>8, <1>9, <1>10

LEMMA NumberOfBytes ==
  ASSUME NEW b1 \in ByteValues, NEW b2 \in ByteValues, NEW b3 \in ByteValues, NEW b4 \in ByteValues
  PROVE  b1 + SectionRadix * (b2 + SectionRadix * (b3 + SectionRadix * b4)) \in 0 .. MaxU32
<1> DEFINE R == SectionRadix
<1>1. ASSUME NEW b \in ByteValues, NEW n \in Nat, NEW m \in Nat, n < m
      PROVE  b + R * n \in Nat /\ b + R * n < R * m
  <2>1. PICK k \in Nat : m = n + 1 + k
    BY <1>1
  <2>2. R * m = R * n + R + R * k /\ R * k >= 0 /\ R * n >= 0
    BY <2>1, SectionsAssumption
  <2> QED
    BY <2>2, SectionsAssumption DEF ByteValues
<1>2. R \in Nat /\ R * R \in Nat /\ R * (R * R) \in Nat /\ b4 \in Nat /\ b4 < R
  BY SectionsAssumption DEF ByteValues
<1>3. b3 + R * b4 \in Nat /\ b3 + R * b4 < R * R
  BY Zenon, <1>1, <1>2
<1>4. b2 + R * (b3 + R * b4) \in Nat /\ b2 + R * (b3 + R * b4) < R * (R * R)
  BY Zenon, <1>1, <1>2, <1>3
<1>5. /\ b1 + R * (b2 + R * (b3 + R * b4)) \in Nat
      /\ b1 + R * (b2 + R * (b3 + R * b4)) < R * (R * (R * R))
  BY Zenon, <1>1, <1>2, <1>4
<1> QED
  BY <1>5, RegionAssumption

(* What the contract has put in its memory is three numbers of 32 bits.      *)
LEMMA RegionInMemory ==
  ASSUME NEW size \in Nat, NEW memory \in [0 .. size - 1 -> ByteValues],
         NEW ptr \in Nat, Deref(size, ptr, RegionSize)
  PROVE  RegionAt(memory, ptr) \in Regions
<1>1. ASSUME NEW a \in Nat, a + 4 <= size PROVE U32At(memory, a) \in 0 .. MaxU32
  <2>1. /\ memory[a] \in ByteValues /\ memory[a + 1] \in ByteValues
        /\ memory[a + 2] \in ByteValues /\ memory[a + 3] \in ByteValues
    BY <1>1
  <2> QED
    BY Zenon, <2>1, NumberOfBytes DEF U32At
<1>2. /\ ptr + 4 <= size /\ ptr + U32Size \in Nat /\ ptr + U32Size + 4 <= size
      /\ ptr + 2 * U32Size \in Nat /\ ptr + 2 * U32Size + 4 <= size
  BY DEF Deref, RegionSize, U32Size
<1> QED
  BY Zenon, <1>1, <1>2 DEF RegionAt, Regions

FourMore(s, b1, b2, b3, b4, t) ==
  s \in Seq(ByteValues) /\ {b1, b2, b3, b4} \subseteq ByteValues /\ t = s \o <<b1, b2, b3, b4>>

FourFollow(s, b1, b2, b3, b4, t) ==
  /\ t \in Seq(ByteValues) /\ Len(t) = Len(s) + 4
  /\ \A i \in 1 .. Len(s) : t[i] = s[i]
  /\ t[Len(s) + 1] = b1 /\ t[Len(s) + 2] = b2 /\ t[Len(s) + 3] = b3 /\ t[Len(s) + 4] = b4

LEMMA FourMoreBytes ==
  ASSUME NEW s, NEW b1, NEW b2, NEW b3, NEW b4, NEW t, FourMore(s, b1, b2, b3, b4, t)
  PROVE  FourFollow(s, b1, b2, b3, b4, t)
<1>1. /\ s \in Seq(ByteValues) /\ b1 \in ByteValues /\ b2 \in ByteValues
      /\ b3 \in ByteValues /\ b4 \in ByteValues /\ t = s \o <<b1, b2, b3, b4>>
  BY Zenon DEF FourMore
<1> QED
  BY <1>1 DEF FourFollow

(* set_region: the numbers are there, and nothing else has changed.          *)
RegionSet(size, memory, ptr, region, after) ==
  /\ DOMAIN memory = 0 .. size - 1 /\ Deref(size, ptr, RegionSize) /\ region \in Regions
  /\ after = set_region(memory, ptr, region)

RegionIsThere(size, memory, ptr, region, after) ==
  /\ DOMAIN after = 0 .. size - 1
  /\ RegionAt(after, ptr) = region
  /\ \A a \in 0 .. size - 1 : a \notin ptr .. ptr + RegionSize - 1 => after[a] = memory[a]

LEMMA RegionIsSet ==
  ASSUME NEW size \in Nat, NEW memory, NEW ptr \in Nat, NEW region, NEW after,
         RegionSet(size, memory, ptr, region, after)
  PROVE  RegionIsThere(size, memory, ptr, region, after)
<1>0. /\ DOMAIN memory = 0 .. size - 1 /\ Deref(size, ptr, RegionSize) /\ region \in Regions
      /\ after = set_region(memory, ptr, region)
  BY Zenon DEF RegionSet
<1>1. PICK o1, o2, o3, o4 \in ByteValues :
        /\ LittleEndian(region.offset) = <<o1, o2, o3, o4>>
        /\ region.offset = o1 + SectionRadix * (o2 + SectionRadix * (o3 + SectionRadix * o4))
  BY Zenon, <1>0, BytesOfNumber DEF Regions
<1>2. PICK c1, c2, c3, c4 \in ByteValues :
        /\ LittleEndian(region.capacity) = <<c1, c2, c3, c4>>
        /\ region.capacity = c1 + SectionRadix * (c2 + SectionRadix * (c3 + SectionRadix * c4))
  BY Zenon, <1>0, BytesOfNumber DEF Regions
<1>3. PICK l1, l2, l3, l4 \in ByteValues :
        /\ LittleEndian(region.length) = <<l1, l2, l3, l4>>
        /\ region.length = l1 + SectionRadix * (l2 + SectionRadix * (l3 + SectionRadix * l4))
  BY Zenon, <1>0, BytesOfNumber DEF Regions
<1>4. PICK first, bytes : /\ first = <<o1, o2, o3, o4>> \o <<c1, c2, c3, c4>>
                          /\ bytes = first \o <<l1, l2, l3, l4>>
  BY Zenon
<1>5. /\ first \in Seq(ByteValues) /\ Len(first) = 8
      /\ first[1] = o1 /\ first[2] = o2 /\ first[3] = o3 /\ first[4] = o4
      /\ first[5] = c1 /\ first[6] = c2 /\ first[7] = c3 /\ first[8] = c4
  <2>1. PICK s \in Seq(ByteValues) : s = <<o1, o2, o3, o4>>
    <3>1. <<o1, o2, o3, o4>> \in Seq(ByteValues)
      OBVIOUS
    <3> QED
      BY Zenon, <3>1
  <2>2. Len(s) = 4 /\ s[1] = o1 /\ s[2] = o2 /\ s[3] = o3 /\ s[4] = o4
    BY <2>1
  <2>3. FourMore(s, c1, c2, c3, c4, first)
    BY Zenon, <1>4, <2>1 DEF FourMore
  <2>4. FourFollow(s, c1, c2, c3, c4, first)
    BY Zenon, <2>3, FourMoreBytes
  <2>5. /\ Len(s) + 1 = 5 /\ Len(s) + 2 = 6 /\ Len(s) + 3 = 7 /\ Len(s) + 4 = 8
        /\ 1 \in 1 .. Len(s) /\ 2 \in 1 .. Len(s) /\ 3 \in 1 .. Len(s) /\ 4 \in 1 .. Len(s)
    BY <2>2
  <2> QED
    BY Zenon, <2>2, <2>4, <2>5 DEF FourFollow
<1>6. /\ Len(bytes) = 12
      /\ bytes[1] = o1 /\ bytes[2] = o2 /\ bytes[3] = o3 /\ bytes[4] = o4
      /\ bytes[5] = c1 /\ bytes[6] = c2 /\ bytes[7] = c3 /\ bytes[8] = c4
      /\ bytes[9] = l1 /\ bytes[10] = l2 /\ bytes[11] = l3 /\ bytes[12] = l4
  <2>0. FourMore(first, l1, l2, l3, l4, bytes)
    BY Zenon, <1>4, <1>5 DEF FourMore
  <2>1. FourFollow(first, l1, l2, l3, l4, bytes)
    BY Zenon, <2>0, FourMoreBytes
  <2>2. /\ Len(first) + 1 = 9 /\ Len(first) + 2 = 10 /\ Len(first) + 3 = 11 /\ Len(first) + 4 = 12
        /\ \A i \in 1 .. 8 : i \in 1 .. Len(first)
        /\ 1 \in 1 .. 8 /\ 2 \in 1 .. 8 /\ 3 \in 1 .. 8 /\ 4 \in 1 .. 8
        /\ 5 \in 1 .. 8 /\ 6 \in 1 .. 8 /\ 7 \in 1 .. 8 /\ 8 \in 1 .. 8
    BY <1>5
  <2>3. /\ bytes[1] = o1 /\ bytes[2] = o2 /\ bytes[3] = o3 /\ bytes[4] = o4
        /\ bytes[5] = c1 /\ bytes[6] = c2 /\ bytes[7] = c3 /\ bytes[8] = c4
    BY Zenon, <1>5, <2>1, <2>2 DEF FourFollow
  <2> QED
    BY Zenon, <2>1, <2>2, <2>3 DEF FourFollow
<1>7. after = [a \in 0 .. size - 1 |->
                 IF a \in ptr .. ptr + 12 - 1 THEN bytes[a - ptr + 1] ELSE memory[a]]
  BY Zenon, <1>0, <1>1, <1>2, <1>3, <1>4, <1>6 DEF set_region, StoreBytes
<1>8. ptr + 12 <= size /\ RegionSize = 12 /\ U32Size = 4
  BY <1>0 DEF Deref, RegionSize, U32Size
<1>9. ASSUME NEW i \in 1 .. 12, NEW a, a = ptr + i - 1 PROVE after[a] = bytes[i]
  <2>1. a \in 0 .. size - 1 /\ a \in ptr .. ptr + 12 - 1 /\ a - ptr + 1 = i
    BY <1>8, <1>9
  <2> QED
    BY Zenon, <1>7, <2>1
<1>10. /\ ptr = ptr + 1 - 1 /\ ptr + 1 = ptr + 2 - 1 /\ ptr + 2 = ptr + 3 - 1 /\ ptr + 3 = ptr + 4 - 1
       /\ ptr + 4 = ptr + 5 - 1 /\ ptr + 4 + 1 = ptr + 6 - 1 /\ ptr + 4 + 2 = ptr + 7 - 1
       /\ ptr + 4 + 3 = ptr + 8 - 1
       /\ ptr + 2 * 4 = ptr + 9 - 1 /\ ptr + 2 * 4 + 1 = ptr + 10 - 1 /\ ptr + 2 * 4 + 2 = ptr + 11 - 1
       /\ ptr + 2 * 4 + 3 = ptr + 12 - 1
  OBVIOUS
<1>11. /\ 1 \in 1 .. 12 /\ 2 \in 1 .. 12 /\ 3 \in 1 .. 12 /\ 4 \in 1 .. 12
       /\ 5 \in 1 .. 12 /\ 6 \in 1 .. 12 /\ 7 \in 1 .. 12 /\ 8 \in 1 .. 12
       /\ 9 \in 1 .. 12 /\ 10 \in 1 .. 12 /\ 11 \in 1 .. 12 /\ 12 \in 1 .. 12
  OBVIOUS
<1>12. after[ptr] = o1 /\ after[ptr + 1] = o2 /\ after[ptr + 2] = o3 /\ after[ptr + 3] = o4
  BY Zenon, <1>6, <1>9, <1>10, <1>11
<1>13. /\ after[ptr + 4] = c1 /\ after[ptr + 4 + 1] = c2
       /\ after[ptr + 4 + 2] = c3 /\ after[ptr + 4 + 3] = c4
  BY Zenon, <1>6, <1>9, <1>10, <1>11
<1>14. /\ after[ptr + 2 * 4] = l1 /\ after[ptr + 2 * 4 + 1] = l2
       /\ after[ptr + 2 * 4 + 2] = l3 /\ after[ptr + 2 * 4 + 3] = l4
  BY Zenon, <1>6, <1>9, <1>10, <1>11
<1>15. /\ U32At(after, ptr) = region.offset /\ U32At(after, ptr + 4) = region.capacity
       /\ U32At(after, ptr + 2 * 4) = region.length
  BY Zenon, <1>1, <1>2, <1>3, <1>12, <1>13, <1>14 DEF U32At
<1>16. RegionAt(after, ptr) = region
  BY Zenon, <1>0, <1>8, <1>15 DEF RegionAt, Regions
<1> QED
  BY Zenon, <1>7, <1>8, <1>16 DEF RegionIsThere

(* The memory of a contract stays a memory of bytes.                         *)
LEMMA SetKeepsBytes ==
  ASSUME NEW size \in Nat, NEW memory \in [0 .. size - 1 -> ByteValues],
         NEW ptr \in Nat, NEW region \in Regions
  PROVE  set_region(memory, ptr, region) \in [0 .. size - 1 -> ByteValues]
<1>1. ASSUME NEW n \in 0 .. MaxU32 PROVE LittleEndian(n) \in Seq(ByteValues)
  <2>1. PICK b1, b2, b3, b4 \in ByteValues : LittleEndian(n) = <<b1, b2, b3, b4>>
    BY Zenon, BytesOfNumber
  <2> QED
    BY <2>1
<1>2. PICK o, c, l \in Seq(ByteValues) :
        o = LittleEndian(region.offset) /\ c = LittleEndian(region.capacity) /\ l = LittleEndian(region.length)
  BY Zenon, <1>1 DEF Regions
<1>3. PICK bytes \in Seq(ByteValues) : bytes = o \o c \o l
  <2>1. o \o c \in Seq(ByteValues)
    OBVIOUS
  <2>2. (o \o c) \o l \in Seq(ByteValues)
    BY <2>1
  <2> QED
    BY Zenon, <2>2
<1>4. ASSUME NEW a \in 0 .. size - 1, a \in ptr .. ptr + Len(bytes) - 1
      PROVE  bytes[a - ptr + 1] \in ByteValues
  <2>1. a - ptr + 1 \in 1 .. Len(bytes)
    BY <1>4
  <2> QED
    BY <2>1
<1>5. set_region(memory, ptr, region) =
        [a \in 0 .. size - 1 |-> IF a \in ptr .. ptr + Len(bytes) - 1 THEN bytes[a - ptr + 1] ELSE memory[a]]
  BY Zenon, <1>2, <1>3 DEF set_region, StoreBytes
<1> QED
  BY Zenon, <1>4, <1>5

--------------------------------------------------------------------------------
(* Of any memory, with any numbers in it, the VM reads nothing outside, and  *)
(* no more than the limit; the end of the region is below 2^32               *)
(* (validate_region, read_region).                                           *)
THEOREM ReadsAreContained ==
  ASSUME NEW size \in Nat, NEW memory \in [0 .. size - 1 -> ByteValues],
         NEW ptr \in Nat, NEW limit \in Nat
  PROVE  ReadIsContained(size, memory, ptr, limit)
<1>1. PICK region : region = RegionAt(memory, ptr)
  BY Zenon
<1>2. ASSUME get_region(size, memory, ptr)
      PROVE  region \in Regions /\ validate_region(region) /\ region.offset + region.capacity <= MaxU32
  <2>1. region \in Regions /\ validate_region(region)
    BY Zenon, <1>1, <1>2, RegionInMemory DEF get_region
  <2> QED
    BY <2>1, RegionAssumption DEF validate_region, Regions
<1>3. ASSUME CanRead(size, memory, ptr, limit)
      PROVE  /\ Len(read_region(memory, ptr)) <= limit
             /\ \A i \in DOMAIN Cells(region) : Cells(region)[i] \in DOMAIN memory \ {0}
  <2>1. /\ region \in Regions /\ validate_region(region) /\ region.length <= limit
        /\ Deref(size, region.offset, region.length)
    BY Zenon, <1>1, <1>2, <1>3 DEF CanRead
  <2>2. /\ region.offset \in Nat \ {0} /\ region.length \in Nat
        /\ region.offset + region.length <= size
    BY <2>1, RegionAssumption DEF validate_region, Deref, Regions
  <2>3. DOMAIN Cells(region) = 1 .. region.length
    BY Zenon DEF Cells
  <2>4. read_region(memory, ptr) = [i \in 1 .. region.length |-> memory[Cells(region)[i]]]
    BY Zenon, <1>1, <2>3 DEF read_region
  <2>5. Len(read_region(memory, ptr)) = region.length
    BY <2>2, <2>4
  <2>6. ASSUME NEW i \in 1 .. region.length PROVE Cells(region)[i] \in DOMAIN memory \ {0}
    <3>1. Cells(region)[i] = region.offset + i - 1
      BY Zenon DEF Cells
    <3> QED
      BY <2>2, <3>1
  <2> QED
    BY Zenon, <2>1, <2>3, <2>5, <2>6
<1> QED
  BY Zenon, <1>1, <1>2, <1>3 DEF ReadIsContained

(* Whatever the contract has in its memory, writing data to a region leaves  *)
(* the region the same but for its length, the data under it except where    *)
(* its numbers are, and the rest of the memory alone (write_region,          *)
(* set_region).                                                              *)
THEOREM WritesAreExact ==
  ASSUME NEW size \in Nat, NEW memory \in [0 .. size - 1 -> ByteValues],
         NEW ptr \in Nat, NEW data \in Seq(ByteValues)
  PROVE  WriteIsExact(size, memory, ptr, data)
<1> SUFFICES ASSUME CanWrite(size, memory, ptr, data) PROVE WriteIsExact(size, memory, ptr, data)
  BY Zenon DEF WriteIsExact
<1>1. PICK region : region = RegionAt(memory, ptr)
  BY Zenon
<1>2. /\ region \in Regions /\ validate_region(region) /\ Deref(size, ptr, RegionSize)
      /\ Len(data) <= region.capacity /\ Deref(size, region.offset, region.capacity)
  BY Zenon, <1>1, RegionInMemory DEF CanWrite, get_region
<1>3. /\ region.offset \in Nat \ {0} /\ region.capacity \in Nat
      /\ Len(data) \in 0 .. MaxU32 /\ Len(data) <= region.capacity
      /\ region.offset + region.capacity <= size /\ region.capacity <= MaxU32 - region.offset
  BY <1>2, RegionAssumption DEF validate_region, Deref, Regions
<1>4. PICK final \in Regions : final = [region EXCEPT !.length = Len(data)]
  BY Zenon, <1>2, <1>3 DEF Regions
<1>5. final.offset = region.offset /\ final.capacity = region.capacity /\ final.length = Len(data)
  BY Zenon, <1>2, <1>4 DEF Regions
<1>6. PICK stored : stored = [a \in 0 .. size - 1 |->
                                IF a \in region.offset .. region.offset + Len(data) - 1
                                THEN data[a - region.offset + 1] ELSE memory[a]]
  BY Zenon
<1>7. PICK after : after = write_region(memory, ptr, data) /\ after = set_region(stored, ptr, final)
  BY Zenon, <1>1, <1>4, <1>6 DEF write_region, StoreBytes
<1>8. /\ RegionAt(after, ptr) = final /\ DOMAIN after = 0 .. size - 1
      /\ \A a \in 0 .. size - 1 : a \notin ptr .. ptr + RegionSize - 1 => after[a] = stored[a]
  <2>1. RegionSet(size, stored, ptr, final, after)
    BY Zenon, <1>2, <1>6, <1>7 DEF RegionSet
  <2>2. RegionIsThere(size, stored, ptr, final, after)
    BY Zenon, <2>1, RegionIsSet
  <2> QED
    BY Zenon, <2>2 DEF RegionIsThere
<1>9. CanRead(size, after, ptr, Len(data))
  <2>1. validate_region(final) /\ Deref(size, final.offset, final.length) /\ final.length <= Len(data)
    BY <1>3, <1>5, RegionAssumption DEF validate_region, Deref
  <2> QED
    BY Zenon, <1>2, <1>8, <2>1 DEF CanRead, get_region
<1>10. ASSUME NEW i \in 1 .. Len(data), region.offset + i - 1 \notin ptr .. ptr + RegionSize - 1
       PROVE  read_region(after, ptr)[i] = data[i]
  <2>1. PICK a \in 0 .. size - 1 : a = region.offset + i - 1
    <3>1. region.offset + i - 1 \in 0 .. size - 1
      BY <1>3, RegionAssumption
    <3> QED
      BY Zenon, <3>1
  <2>2. a \in region.offset .. region.offset + Len(data) - 1 /\ a - region.offset + 1 = i
    BY <1>3, <2>1
  <2>3. after[a] = data[i]
    BY Zenon, <1>6, <1>8, <1>10, <2>1, <2>2
  <2>4. DOMAIN Cells(final) = 1 .. Len(data) /\ Cells(final)[i] = a
    BY Zenon, <1>5, <2>1 DEF Cells
  <2> QED
    BY Zenon, <1>8, <2>3, <2>4 DEF read_region
<1>11. ASSUME NEW a \in DOMAIN memory, a \notin region.offset .. region.offset + Len(data) - 1,
              a \notin ptr .. ptr + RegionSize - 1
       PROVE  after[a] = memory[a]
  BY Zenon, <1>6, <1>8, <1>11
<1> QED
  BY Zenon, <1>1, <1>4, <1>7, <1>8, <1>9, <1>10, <1>11 DEF WriteIsExact

(* The memory the calls are made with.                                       *)
LEMMA MemoryOfCall ==
  ASSUME CallInv, Is("region")
  PROVE  /\ input.size \in Nat /\ input.ptr \in Nat /\ input.limit \in Nat
         /\ RegionMemory \in [0 .. input.size - 1 -> ByteValues]
<1>1. input \in FunctionCalls /\ input.type = "region"
  BY DEF CallInv, Is
<1>2. input.size \in Nat /\ input.ptr \in Nat /\ input.limit \in Nat /\ input.region \in Regions
  BY Zenon, <1>1, RegionArguments DEF Regions
<1>3. [a \in 0 .. input.size - 1 |-> 0] \in [0 .. input.size - 1 -> ByteValues]
  BY SectionsAssumption DEF ByteValues
<1> QED
  BY Zenon, <1>2, <1>3, SetKeepsBytes DEF RegionMemory

(* An accepted region is in the memory and within the limit of the read, and *)
(* its end is below 2^32, whatever u32 is and whatever size the memory has   *)
(* (validate_region, read_region).                                           *)
THEOREM RegionsAreChecked == FunctionSpec => []AcceptedRegionsAreInMemory
<1>1. CallInv => AcceptedRegionsAreInMemory
  BY Zenon, MemoryOfCall, ReadsAreContained DEF AcceptedRegionsAreInMemory
<1> QED
  BY <1>1, Arguments, PTL

(* What is written to a region is read back, and nothing but the region and  *)
(* its numbers changes, for every size of region, data and memory            *)
(* (write_region).                                                           *)
THEOREM RegionsKeepData == FunctionSpec => []WrittenRegionsReadBack
<1>1. CallInv => WrittenRegionsReadBack
  <2> SUFFICES ASSUME CallInv, Is("region"), NEW length \in 0 .. MaxU32, NEW byte \in ByteValues
               PROVE  WriteIsExact(input.size, RegionMemory, input.ptr, [i \in 1 .. length |-> byte])
    BY Zenon DEF WrittenRegionsReadBack
  <2>1. [i \in 1 .. length |-> byte] \in Seq(ByteValues)
    BY RegionAssumption
  <2> QED
    BY Zenon, <2>1, MemoryOfCall, WritesAreExact
<1> QED
  BY <1>1, Arguments, PTL

(* The VM keeps to the region it was given, reading and writing.             *)
THEOREM RegionsAreAlwaysSound == FunctionSpec => []RegionsAreSound
<1>1. AcceptedRegionsAreInMemory /\ WrittenRegionsReadBack => RegionsAreSound
  BY Zenon DEF RegionsAreSound
<1> QED
  BY <1>1, RegionsAreChecked, RegionsKeepData, PTL

--------------------------------------------------------------------------------
(* Time is counted exactly or not at all, for every range and every unit of  *)
(* time (Timestamp).                                                         *)
THEOREM TimeIsCountedExactly == FunctionSpec => []TimeIsExact
<1>1. ASSUME NEW t \in 0 .. MaxNanos, NEW s \in 0 .. MaxNanos, NEW n \in 0 .. MaxNanos
      PROVE  LET later == plus_seconds(t, s)
             IN  /\ later # Panicked <=> t + s * NanosPerSecond <= MaxNanos
                 /\ later # Panicked => /\ seconds(later) = seconds(t) + s
                                        /\ subsec_nanos(later) = subsec_nanos(t)
                                        /\ minus_seconds(later, s) = t
                 /\ plus_nanos(from_seconds(seconds(t)), subsec_nanos(t)) = t
                 /\ minus_nanos(t, n) # Panicked => plus_nanos(minus_nanos(t, n), n) = t
  <2>1. PICK x \in Nat : x = s * NanosPerSecond
    BY TimeAssumption
  <2>2. from_seconds(s) = IF x <= MaxNanos THEN x ELSE -1
    BY <2>1, TimeAssumption DEF from_seconds, Checked, Panicked
  <2>3. plus_seconds(t, s) = IF t + x <= MaxNanos THEN t + x ELSE -1
    BY <2>2, TimeAssumption DEF plus_seconds, plus_nanos, Checked, Panicked
  <2>4. PICK q \in Nat, r \in 0 .. NanosPerSecond - 1 :
          q = t \div NanosPerSecond /\ r = t % NanosPerSecond /\ t = q * NanosPerSecond + r
    BY DivMod, TimeAssumption
  <2>5. (q + s) * NanosPerSecond + r = t + x
    BY <2>1, <2>4, TimeAssumption
  <2>6. (t + x) \div NanosPerSecond = q + s /\ (t + x) % NanosPerSecond = r
    <3>1. PICK p \in Nat : p = q + s
      BY TimeAssumption
    <3>2. (p * NanosPerSecond + r) \div NanosPerSecond = p /\ (p * NanosPerSecond + r) % NanosPerSecond = r
      BY Zenon, DivModUnique, TimeAssumption
    <3> QED
      BY Zenon, <3>1, <3>2, <2>5
  <2>7. ASSUME t + x <= MaxNanos
        PROVE  /\ seconds(t + x) = seconds(t) + s /\ subsec_nanos(t + x) = subsec_nanos(t)
               /\ minus_seconds(t + x, s) = t
    <3>1. minus_seconds(t + x, s) = t
      BY <2>2, <2>7, TimeAssumption DEF minus_seconds, minus_nanos, Checked, Panicked
    <3> QED
      BY Zenon, <3>1, <2>4, <2>6 DEF seconds, subsec_nanos
  <2>8. plus_nanos(from_seconds(seconds(t)), subsec_nanos(t)) = t
    <3>1. PICK y \in Nat : y = q * NanosPerSecond
      BY TimeAssumption
    <3>2. t = y + r /\ seconds(t) = q /\ subsec_nanos(t) = r
      BY Zenon, <3>1, <2>4 DEF seconds, subsec_nanos
    <3>3. from_seconds(q) = y
      <4>1. y \in 0 .. MaxNanos
        BY <3>2, TimeAssumption
      <4> QED
        BY Zenon, <4>1, <3>1 DEF from_seconds, Checked
    <3> QED
      BY Zenon, <3>2, <3>3, TimeAssumption DEF plus_nanos, Checked
  <2>9. minus_nanos(t, n) # Panicked => plus_nanos(minus_nanos(t, n), n) = t
    BY TimeAssumption DEF minus_nanos, plus_nanos, Checked, Panicked
  <2>10. plus_seconds(t, s) # Panicked <=> t + x <= MaxNanos
    BY <2>3, TimeAssumption DEF Panicked
  <2> QED
    BY Zenon, <2>1, <2>3, <2>7, <2>8, <2>9, <2>10
<1>2. CallInv => TimeIsExact
  <2> SUFFICES ASSUME CallInv, Is("time") PROVE TimeIsExact
    BY Zenon DEF TimeIsExact
  <2>1. input \in FunctionCalls /\ input.type = "time"
    BY DEF CallInv, Is
  <2>2. input.t \in 0 .. MaxNanos /\ input.seconds \in 0 .. MaxNanos /\ input.nanos \in 0 .. MaxNanos
    BY Zenon, <2>1, TimeArguments
  <2> QED
    BY Zenon, <1>1, <2>2 DEF TimeIsExact
<1> QED
  BY <1>2, Arguments, PTL

(* Blocks are ordered as the number of blocks before them, when each         *)
(* revision has as many as heights can be told apart (IbcTimeoutBlock).      *)
LEMMA EarlierRevisionIsOlder ==
  ASSUME NEW r \in Nat, NEW s \in Nat, NEW h \in 0 .. MaxBlock, NEW i \in 0 .. MaxBlock, r < s
  PROVE  r * (MaxBlock + 1) + h < s * (MaxBlock + 1) + i
<1>1. PICK k \in Nat : s = r + 1 + k
  <2>1. s - r - 1 \in Nat /\ s = r + 1 + (s - r - 1)
    OBVIOUS
  <2> QED
    BY Zenon, <2>1
<1>2. PICK m \in Nat : m = MaxBlock + 1
  BY TimeAssumption
<1>3. s * m = r * m + m + k * m /\ k * m >= 0 /\ r * m \in Nat
  BY <1>1
<1> QED
  BY <1>2, <1>3, TimeAssumption

(* Timeouts are ordered as the blocks of the chain, over any number of       *)
(* revisions and heights (Ord for IbcTimeoutBlock).                          *)
THEOREM TimeoutsAreOrdered == FunctionSpec => []TimeoutsFollowTheChain
<1>1. ASSUME NEW a \in Blocks, NEW b \in Blocks
      PROVE  /\ cmp(a, b) = Cmp(a.revision * (MaxBlock + 1) + a.height, b.revision * (MaxBlock + 1) + b.height)
             /\ cmp(a, b) = 0 <=> a = b
  <2>1. PICK r \in 0 .. MaxBlock, s \in 0 .. MaxBlock, h \in 0 .. MaxBlock, i \in 0 .. MaxBlock :
          /\ a = [revision |-> r, height |-> h] /\ b = [revision |-> s, height |-> i]
          /\ r = a.revision /\ h = a.height /\ s = b.revision /\ i = b.height
    BY Zenon DEF Blocks
  <2>2. r \in Nat /\ s \in Nat /\ h \in Nat /\ i \in Nat
    BY TimeAssumption
  <2>3. PICK x \in Nat, y \in Nat : x = r * (MaxBlock + 1) /\ y = s * (MaxBlock + 1)
    BY <2>2, TimeAssumption
  <2>4. CASE r < s
    BY <2>1, <2>2, <2>3, <2>4, EarlierRevisionIsOlder DEF cmp, Cmp
  <2>5. CASE s < r
    BY <2>1, <2>2, <2>3, <2>5, EarlierRevisionIsOlder DEF cmp, Cmp
  <2>6. CASE r = s
    BY <2>1, <2>2, <2>3, <2>6 DEF cmp, Cmp
  <2> QED
    BY <2>2, <2>4, <2>5, <2>6
<1>2. ASSUME NEW a \in Blocks
      PROVE  is_zero(a) <=> \A b \in Blocks : cmp(a, b) <= 0
  <2>1. ASSUME is_zero(a), NEW b \in Blocks PROVE cmp(a, b) <= 0
    BY <2>1, TimeAssumption DEF is_zero, cmp, Cmp, Blocks
  <2>2. ASSUME \A b \in Blocks : cmp(a, b) <= 0 PROVE is_zero(a)
    <3>1. PICK zero \in Blocks : zero.revision = 0 /\ zero.height = 0
      <4>1. [revision |-> 0, height |-> 0] \in Blocks
        BY TimeAssumption DEF Blocks
      <4> QED
        BY Zenon, <4>1
    <3>2. cmp(a, zero) <= 0
      BY Zenon, <2>2
    <3>3. a.revision \in Nat /\ a.height \in Nat
      BY TimeAssumption DEF Blocks
    <3> QED
      BY <3>1, <3>2, <3>3 DEF is_zero, cmp, Cmp
  <2> QED
    BY Zenon, <2>1, <2>2
<1>3. CallInv => TimeoutsFollowTheChain
  <2> SUFFICES ASSUME CallInv, Is("timeouts") PROVE TimeoutsFollowTheChain
    BY Zenon DEF TimeoutsFollowTheChain
  <2>1. input \in FunctionCalls /\ input.type = "timeouts"
    BY DEF CallInv, Is
  <2>2. input.a \in Blocks /\ input.b \in Blocks
    BY Zenon, <2>1, TimeoutArguments
  <2> QED
    BY Zenon, <1>1, <1>2, <2>2 DEF TimeoutsFollowTheChain
<1> QED
  BY <1>3, Arguments, PTL

(* Times and timeouts are exact, for any widths.                             *)
THEOREM TimesAreAlwaysExact == FunctionSpec => []TimesAreExact
<1>1. TimeIsExact /\ TimeoutsFollowTheChain => TimesAreExact
  BY Zenon DEF TimesAreExact
<1> QED
  BY <1>1, TimeIsCountedExactly, TimeoutsAreOrdered, PTL

(* The memory of an instance stays within the configured limit, for every    *)
(* limit, every size of a page and every bound on what modules may ask for   *)
(* (limit_to_pages, LimitingTunables).                                       *)
THEOREM MemoryIsLimited == FunctionSpec => []MemoryStaysWithinLimit
<1>1. ASSUME NEW size \in 0 .. MaxMemorySize, NEW memory \in MemoryTypes, NEW delta \in 0 .. 3
      PROVE  LET limit == limit_to_pages(size)
                 created == create_vm_memory(memory, limit)
                 once == Grow(created[1], created[1].min, delta)
             IN  /\ limit * PageSize <= size
                 /\ limit = MAX_WASM_MEMORY \div PageSize \/ (limit + 1) * PageSize > size
                 /\ created # <<>> => Grow(created[1], once, delta) * PageSize <= size
  <2>1. PICK least \in Nat : least = Least(size, MAX_WASM_MEMORY) /\ least <= size
                             /\ (least = size \/ least = MAX_WASM_MEMORY)
    BY MemoryAssumption DEF Least
  <2>2. PICK limit \in Nat, r \in 0 .. PageSize - 1 :
          limit = least \div PageSize /\ least = limit * PageSize + r
    BY Zenon, DivMod, MemoryAssumption
  <2>3. limit_to_pages(size) = limit
    BY Zenon, <2>1, <2>2 DEF limit_to_pages
  <2>4. PICK bytes \in Nat : bytes = limit * PageSize /\ bytes <= size
    BY <2>1, <2>2, MemoryAssumption
  <2>5. limit = MAX_WASM_MEMORY \div PageSize \/ (limit + 1) * PageSize > size
    <3>1. CASE least = MAX_WASM_MEMORY
      BY Zenon, <3>1, <2>2
    <3>2. CASE least = size
      <4>1. (limit + 1) * PageSize = bytes + PageSize
        BY <2>4, MemoryAssumption
      <4> QED
        BY <4>1, <3>2, <2>2, <2>4, MemoryAssumption
    <3> QED
      BY Zenon, <2>1, <3>1, <3>2
  <2>6. ASSUME create_vm_memory(memory, limit) # <<>>
        PROVE  LET created == create_vm_memory(memory, limit)
                   once == Grow(created[1], created[1].min, delta)
               IN  Grow(created[1], once, delta) * PageSize <= size
    <3>1. PICK adjusted : adjusted = adjust_memory(memory, limit)
      BY Zenon
    <3>2. create_vm_memory(memory, limit) = <<adjusted>> /\ validate_memory(adjusted, limit)
      BY Zenon, <2>6, <3>1 DEF create_vm_memory
    <3>3. adjusted.min \in Nat /\ adjusted.max[1] \in Nat
      <4>1. memory.min \in Nat /\ (memory.max = <<>> \/ \E m \in Nat : memory.max = <<m>>)
        BY MemoryAssumption DEF MemoryTypes
      <4>2. CASE memory.max = <<>>
        <5>1. adjusted = [memory EXCEPT !.max = <<limit>>]
          BY Zenon, <3>1, <4>2 DEF adjust_memory
        <5>2. adjusted.min = memory.min /\ adjusted.max = <<limit>>
          BY Zenon, <5>1 DEF MemoryTypes
        <5> QED
          BY <5>2, <4>1
      <4>3. CASE memory.max # <<>>
        BY <3>1, <4>1, <4>3 DEF adjust_memory
      <4> QED
        BY Zenon, <4>2, <4>3
    <3>4. PICK min \in Nat, max \in Nat :
            min = adjusted.min /\ max = adjusted.max[1] /\ min <= limit /\ max <= limit
      BY Zenon, <3>2, <3>3 DEF validate_memory
    <3>5. PICK once \in Nat : once = Grow(adjusted, adjusted.min, delta) /\ once <= limit
      BY <3>4 DEF Grow
    <3>6. PICK twice \in Nat : twice = Grow(adjusted, once, delta) /\ twice <= limit
      BY <3>4, <3>5 DEF Grow
    <3>7. PICK k \in Nat : limit = twice + k
      <4>1. limit - twice \in Nat /\ limit = twice + (limit - twice)
        BY <3>6
      <4> QED
        BY Zenon, <4>1
    <3>8. PICK page \in Nat : page = PageSize
      BY Zenon, MemoryAssumption
    <3>9. bytes = (twice + k) * page
      BY Zenon, <3>7, <3>8, <2>4
    <3>10. bytes = twice * page + k * page
      BY <3>9
    <3>11. k * page >= 0 /\ twice * page \in Nat
      OBVIOUS
    <3>12. twice * PageSize <= size
      BY <3>8, <3>10, <3>11, <2>4, MemoryAssumption
    <3>13. create_vm_memory(memory, limit)[1] = adjusted
      BY <3>2
    <3> QED
      BY Zenon, <3>5, <3>6, <3>12, <3>13
  <2> QED
    BY Zenon, <2>3, <2>4, <2>5, <2>6
<1>2. CallInv => MemoryStaysWithinLimit
  <2> SUFFICES ASSUME CallInv, Is("memory") PROVE MemoryStaysWithinLimit
    BY Zenon DEF MemoryStaysWithinLimit
  <2>1. input \in FunctionCalls /\ input.type = "memory"
    BY DEF CallInv, Is
  <2>2. input.memory \in MemoryTypes /\ input.size \in 0 .. MaxMemorySize /\ input.delta \in 0 .. 3
    BY Zenon, <2>1, MemoryArguments
  <2> QED
    BY Zenon, <1>1, <2>2 DEF MemoryStaysWithinLimit
<1> QED
  BY <1>2, Arguments, PTL

(* The recovery parameter is exact for every width of v and of the chain id  *)
(* (get_recovery_param_with_chain_id).                                       *)
THEOREM RecoveryIsExact == FunctionSpec => []RecoveryParamIsExact
<1>1. CallInv => RecoveryParamIsExact
  <2> SUFFICES ASSUME CallInv, Is("chain") PROVE RecoveryParamIsExact
    BY Zenon DEF RecoveryParamIsExact
  <2>1. input \in FunctionCalls /\ input.type = "chain"
    BY DEF CallInv, Is
  <2>2. PICK v \in 0 .. VLimit - 1, chain_id \in 0 .. VLimit - 1 :
          v = input.v /\ chain_id = input.chain_id
    BY Zenon, <2>1, ChainArguments
  <2>3. \A p \in 0 .. 1 : get_recovery_param_with_chain_id(v, chain_id) = p
                            <=> v = 2 * chain_id + 35 + p
    BY VAssumption DEF get_recovery_param_with_chain_id, Panics, NoParam
  <2> QED
    BY Zenon, <2>2, <2>3 DEF RecoveryParamIsExact
<1> QED
  BY <1>1, Arguments, PTL
==============================================================================
