-------------------------------- MODULE StdMath --------------------------------
(***************************************************************************)
(* The math types of cosmwasm-std together, on every input of bounded      *)
(* sets: Uint64, Uint128, Uint256, Uint512, roots, Decimal, Decimal256.    *)
(* One width's result is compared with the next width's, and with the      *)
(* exact value.                                                            *)
(***************************************************************************)
EXTENDS FixedWidth, CallInput

CONSTANTS Values64, Values128, Values256, Values512,  \* operands of each type
          Divisors,                                   \* third operands
          Texts                                       \* texts to parse

U64 == INSTANCE Uint64
U128 == INSTANCE Uint128
U256 == INSTANCE Uint256
U512 == INSTANCE Uint512
Dec == INSTANCE Decimal
Dec256 == INSTANCE Decimal256

ASSUME OperandAssumption ==
  /\ Values64 \subseteq U64!Uint64 /\ Values128 \subseteq U128!Uint128
  /\ Values256 \subseteq U256!Uint256 /\ Values512 \subseteq U512!Uint512

MathCalls ==
  [type : {"u64"}, a : Values64, b : Values64, c : Values64]
    \cup [type : {"u128"}, a : Values128, b : Values128, c : Values128 \cap Divisors]
    \cup [type : {"u256"}, a : Values256, b : Values256, c : Values256 \cap Divisors]
    \cup [type : {"u512"}, a : Values512, b : Values512]
    \cup [type : {"text"}, text : Texts]

MathNext == Provide(MathCalls)
MathSpec == NoInput /\ [][MathNext]_input

------------------------------------------------------------------------------
(* The exact value where it fits in 0 .. L-1.                                *)
InLimit(L, n) == IF n < L THEN n ELSE Panic

ExactRatio(L, a, n, d) == IF d = 0 THEN Panic ELSE InLimit(L, (a * n) \div d)

(* multiply_ratio of every type is the exact quotient, rounded down: it      *)
(* panics when the quotient does not fit or the denominator is zero, never   *)
(* because the product does not fit (full_mul, the next wider type).         *)
RatioIsExact ==
  LET a == input.a b == input.b c == input.c
  IN  /\ Is("u64") => U64!multiply_ratio(a, b, c) = ExactRatio(Limit64, a, b, c)
      /\ Is("u128") => U128!multiply_ratio(a, b, c) = ExactRatio(Limit128, a, b, c)

(* The same of Uint256, whose product is a Uint512 made from its bytes.      *)
WideRatioIsExact ==
  Is("u256") => U256!multiply_ratio(input.a, input.b, input.c)
                  = ExactRatio(Limit256, input.a, input.b, input.c)

(* What a narrow type computes is what the next wider type computes, where   *)
(* the latter's result can be converted; it overflows where it cannot.  The  *)
(* saturating and wrapping forms and sums agree with the checked ones.       *)
WidthsAgree ==
  LET a == input.a b == input.b c == input.c
      Agree(L, narrow, wide) == narrow = (IF 0 <= wide /\ wide >= L THEN Overflow ELSE wide)
      Total(L) == InLimit(L, a + b + c)
  IN  /\ Is("u64") =>
           /\ \A op \in {"add", "sub", "mul", "div", "rem"} :
                Agree(Limit64, U64!checked(a, b)[op], U128!checked(a, b)[op])
           /\ \A op \in {"add", "mul", "sub"} :
                U64!checked(a, b)[op] # Overflow =>
                  /\ U64!wrapping(a, b)[op] = U64!checked(a, b)[op]
                  /\ U64!saturating(a, b)[op] = U64!checked(a, b)[op]
           /\ \A op \in {"add", "div"} : U64!assign(a, b)[op] = U64!ops(a, b)[op]
           /\ U64!wrapping(U64!wrapping(a, b).add, b).sub = a
           /\ U64!wrapping(U64!wrapping(a, b).sub, b).add = a
           /\ U64!wrapping_pow(a, c) <= U64!saturating_pow(a, c)
           /\ U128!wrapping_pow(a, c) <= U128!saturating_pow(a, c)
           /\ U64!Sum(<<a, b, c>>) = Total(Limit64)
      /\ Is("u128") =>
           /\ \A op \in {"add", "sub", "mul", "div", "rem"} :
                Agree(Limit128, U128!checked(a, b)[op], U256!checked(a, b)[op])
           /\ U128!wrapping(U128!wrapping(a, b).sub, b).add = a
           /\ U128!saturating(a, b).mul = Saturated(Limit128, U128!checked(a, b).mul)
           /\ U128!Sum(<<a, b, c>>) = Total(Limit128)
      /\ Is("u256") =>
           /\ \A op \in {"add", "sub", "mul", "div", "rem"} :
                Agree(Limit256, U256!checked(a, b)[op], U512!checked(a, b)[op])
           /\ \A n \in 0 .. 4 * Bits64 - 1 :
                /\ U256!shl(a, n) = (a * 2 ^ n) % Limit256
                /\ U256!shr(U256!shl(U256!shr(a, n), n), n) = U256!shr(a, n)
           /\ U256!shl(a, 4 * Bits64) = Panic
           /\ U256!Sum(<<a, b, c>>) = Total(Limit256)
      /\ Is("u512") =>
           /\ \A op \in {"add", "sub", "mul", "div"} : U512!assign(a, b)[op] = U512!ops(a, b)[op]
           /\ U512!checked(a, b).add # Overflow => U512!ops(U512!ops(a, b).add, b).sub = a
           /\ U512!checked(a, b).mul > 0 => U512!ops(U512!ops(a, b).mul, b).div = a

(* Lexicographic order, as the storage orders its keys.                      *)
Before(s, t) ==
  \E i \in DOMAIN s : s[i] < t[i] /\ \A j \in 1 .. i - 1 : s[j] = t[j]

(* The big and little endian forms of the wide types are each other's        *)
(* reverse, give back the number, survive widening and narrowing, and the    *)
(* big endian form orders as the numbers do.                                 *)
BytesAreFaithful ==
  LET a == input.a b == input.b
  IN  /\ Is("u256") =>
           /\ U256!from_be_bytes(U256!to_be_bytes(a)) = a
           /\ U256!from_le_bytes(U256!to_le_bytes(a)) = a
           /\ U256!to_le_bytes(a) = Reverse(U256!to_be_bytes(a))
           /\ Before(U256!to_be_bytes(a), U256!to_be_bytes(b)) <=> a < b
           /\ U256!Widen(a) = a /\ U256!Narrow(U256!Widen(a)) = a
           /\ U512!from_uint256(U256!to_le_bytes(a)) = a
      /\ Is("u512") =>
           /\ U512!from_be_bytes(U512!to_be_bytes(a)) = a
           /\ U512!from_le_bytes(U512!to_le_bytes(a)) = a
           /\ U512!to_le_bytes(a) = Reverse(U512!to_be_bytes(a))
           /\ Before(U512!to_be_bytes(a), U512!to_be_bytes(b)) <=> a < b
           /\ U256!Narrow(a) = IF a < Limit256 THEN a ELSE Overflow
      /\ Is("u128") =>
           /\ U256!from_uint128(U128!to_le_bytes(a)) = a
           /\ U128!to_le_bytes(a) = Reverse(U128!to_be_bytes(a))

------------------------------------------------------------------------------
IsFloorRoot(r, n) == r >= 0 /\ r * r <= n /\ n < (r + 1) * (r + 1)

(* isqrt of every type ends with the greatest number whose square is at most *)
(* its argument, and its additions never overflow.                           *)
RootIsFloor ==
  /\ Is("u64") => IsFloorRoot(isqrt(Limit64, input.a), input.a)
  /\ Is("u128") => IsFloorRoot(isqrt(Limit128, input.a), input.a)
  /\ Is("u256") => IsFloorRoot(isqrt(Limit256, input.a), input.a)
  /\ Is("u512") => IsFloorRoot(isqrt(Limit512, input.a), input.a)

(* The root of a decimal never overflows or panics, never exceeds the true   *)
(* root, and misses it by less than one unit of the precision that was       *)
(* possible: "We start with the highest precision possible and lower it      *)
(* until there's no overflow" (decimal.rs and decimal256.rs, sqrt).          *)
DecimalRootIsClose ==
  LET d == input.a
      unit(precision) == Radix ^ (DECIMAL_PLACES \div 2 - precision)
      Highest(L) == CHOOSE p \in 0 .. DECIMAL_PLACES \div 2 :
        /\ d * (Radix * Radix) ^ p < L
        /\ p < DECIMAL_PLACES \div 2 => d * (Radix * Radix) ^ (p + 1) >= L
      Close(L, r) == /\ r >= 0 /\ r * r <= d * DECIMAL_FRACTIONAL
                     /\ d * DECIMAL_FRACTIONAL < (r + unit(Highest(L))) * (r + unit(Highest(L)))
  IN  /\ Is("u128") => Close(Limit128, Dec!sqrt(d))
      /\ Is("u256") => Close(Limit256, Dec256!sqrt(d))

(* A decimal written to JSON and read again is the same decimal.             *)
PrintedDecimalIsParsed ==
  /\ Is("u128") => Dec!deserialize(Dec!serialize(input.a)) = input.a
  /\ Is("u256") => Dec256!deserialize(Dec256!serialize(input.a)) = input.a

(* An integer written to JSON by one width is read by every width that can   *)
(* hold it as the same number, and refused by the others: a contract that    *)
(* widens a stored or received Uint128 to a Uint256 reads what was written.  *)
NumbersSurviveJson ==
  LET a == input.a
      ReadBack(text) ==
        /\ U64!deserialize(Radix, text) = IF a < Limit64 THEN a ELSE Refused
        /\ U128!deserialize(Radix, text) = IF a < Limit128 THEN a ELSE Refused
        /\ U256!deserialize(Radix, text) = IF a < Limit256 THEN a ELSE Refused
        /\ U512!deserialize(Radix, text) = a
  IN  /\ Is("u64") => ReadBack(U64!serialize(Radix, a))
      /\ Is("u128") => ReadBack(U128!serialize(Radix, a))
      /\ Is("u256") => ReadBack(U256!serialize(Radix, a))
      /\ Is("u512") => ReadBack(U512!serialize(Radix, a))

(* The atomics a text of the form whole[.fraction] shows, a sign read as 0.  *)
Denoted(text) ==
  LET digits == [i \in DOMAIN text |-> IF text[i] = Plus(Radix) THEN 0 ELSE text[i]]
      parts == Parts(digits)
      whole == FromBigEndian(Radix, parts[1]) * DECIMAL_FRACTIONAL
  IN  IF Len(parts) = 1 THEN whole
      ELSE whole + FromBigEndian(Radix, parts[2]) * Radix ^ (DECIMAL_PLACES - Len(parts[2]))

Plain(text) == \A i \in DOMAIN text : text[i] # Plus(Radix)

(* A text that is accepted denotes exactly the decimal it is parsed to; of   *)
(* the texts without a sign, the ones refused are those with an empty part,  *)
(* two dots, too many fractional digits or a value that does not fit: "This  *)
(* never performs any kind of rounding" (from_str).                          *)
ParsedTextIsExact ==
  Is("text") =>
    LET text == input.text
        parts == Parts(text)
        WellFormed == /\ Len(parts) <= 2 /\ \A k \in DOMAIN parts : parts[k] # <<>>
                      /\ Len(parts) = 2 => Len(parts[2]) <= DECIMAL_PLACES
    IN  /\ Dec!from_str(text) >= 0 => WellFormed /\ Dec!from_str(text) = Denoted(text)
        /\ Dec256!from_str(text) >= 0 => Plain(text) /\ WellFormed /\ Dec256!from_str(text) = Denoted(text)
        /\ Plain(text) /\ WellFormed =>
             /\ (Dec!from_str(text) >= 0) <=> (Denoted(text) < Limit128)
             /\ (Dec256!from_str(text) >= 0) <=> (Denoted(text) < Limit256)
        /\ Dec!from_str(text) # Panic /\ Dec256!from_str(text) # Panic

(* Multiplying an integer by a decimal gives the whole part of multiplying   *)
(* the two as decimals; decimal products commute and are rounded down.       *)
DecimalProductsAgree ==
  LET a == input.a b == input.b F == DECIMAL_FRACTIONAL
  IN  /\ Is("u128") =>
           /\ Dec!mul(a, b) = InLimit(Limit128, (a * b) \div F) /\ Dec!mul(a, b) = Dec!mul(b, a)
           /\ LET u == Dec!from_ratio(a, 1)
              IN  u >= 0 /\ Dec!mul(u, b) >= 0 => Dec!mul_uint(a, b) = Dec!div_uint(Dec!mul(u, b), F)
      /\ Is("u256") =>
           /\ Dec256!mul(a, b) = InLimit(Limit256, (a * b) \div F) /\ Dec256!mul(a, b) = Dec256!mul(b, a)
           /\ LET u == Dec256!from_ratio(a, 1)
              IN  u >= 0 /\ Dec256!mul(u, b) >= 0 => Dec256!mul_uint(a, b) = Dec256!div_uint(Dec256!mul(u, b), F)

(* The inverse of a decimal d is the greatest e with d * e <= 1; the inverse *)
(* of the inverse is never smaller than d, where there is one.               *)
InverseIsGreatest ==
  LET d == input.a
      Greatest(e) == e >= 0 /\ d * e <= DECIMAL_FRACTIONAL_SQUARED
                       /\ DECIMAL_FRACTIONAL_SQUARED < d * (e + 1)
  IN  /\ Is("u128") /\ d > 0 =>
           Greatest(Dec!inv(d)) /\ (Dec!inv(d) > 0 => Dec!inv(Dec!inv(d)) >= d)
      /\ Is("u256") /\ d > 0 =>
           Greatest(Dec256!inv(d)) /\ (Dec256!inv(d) > 0 => Dec256!inv(Dec256!inv(d)) >= d)

(* from_atomics moves the dot: the result is the exact value rounded down,   *)
(* zero when the divisor exceeds the type, an error only when it does not    *)
(* fit; adding two decimals and taking one away again is the identity.       *)
AtomicsMoveTheDot ==
  LET a == input.a b == input.b
      Moved(L, places) ==
        IF places <= DECIMAL_PLACES
        THEN IF a * Radix ^ (DECIMAL_PLACES - places) < L
             THEN a * Radix ^ (DECIMAL_PLACES - places) ELSE RangeExceeded
        ELSE a \div Radix ^ (places - DECIMAL_PLACES)
  IN  /\ Is("u128") => /\ \A p \in 0 .. 20 : Dec!from_atomics(a, p) = Moved(Limit128, p)
                       /\ Dec!add(a, b) >= 0 => Dec!sub(Dec!add(a, b), b) = a
      /\ Is("u256") => /\ \A p \in 0 .. 20 : Dec256!from_atomics(a, p) = Moved(Limit256, p)
                       /\ Dec256!add(a, b) >= 0 => Dec256!sub(Dec256!add(a, b), b) = a

(* Every operation of the number types gives the exact result, rounded in    *)
(* the stated direction, or reports that there is none that fits: ratios are *)
(* computed in the wider type, the widths agree wherever the result fits     *)
(* both, bytes, texts and JSON give back the number, roots and inverses are  *)
(* the greatest ones (packages/std/src/math).                                *)
NumbersAreExact ==
  /\ RatioIsExact /\ WideRatioIsExact /\ WidthsAgree
  /\ BytesAreFaithful /\ NumbersSurviveJson /\ PrintedDecimalIsParsed /\ ParsedTextIsExact
  /\ RootIsFloor /\ DecimalRootIsClose /\ InverseIsGreatest
  /\ DecimalProductsAgree /\ AtomicsMoveTheDot
==============================================================================
