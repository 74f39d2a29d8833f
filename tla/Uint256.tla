-------------------------------- MODULE Uint256 --------------------------------
(***************************************************************************)
(* cosmwasm_std::Uint256.  The number is kept as four words, the least     *)
(* significant one first.  A product of two is a Uint512.                  *)
(***************************************************************************)
EXTENDS FixedWidth, SequencesExt

U512 == INSTANCE Uint512

Uint256 == 0 .. Limit256 - 1

Words256(n) == ToLittleEndian(Limit64, 4, n)

from_be_bytes(data) ==
  FromLittleEndian(Limit64,
    [w \in 1 .. 4 |-> FromLittleEndian(ByteLimit,
       [k \in 1 .. WordBytes |-> data[WordBytes * (5 - w) + 1 - k]])])

from_le_bytes(data) ==
  FromLittleEndian(Limit64,
    [w \in 1 .. 4 |-> FromLittleEndian(ByteLimit,
       [k \in 1 .. WordBytes |-> data[WordBytes * (w - 1) + k]])])

(* from_uint128, given the little endian bytes of the Uint128.               *)
from_uint128(bytes) == from_le_bytes(bytes \o [i \in 1 .. 2 * WordBytes |-> 0])

to_be_bytes(n) ==
  FlattenSeq([i \in 1 .. 4 |-> ToBigEndian(ByteLimit, WordBytes, Words256(n)[5 - i])])

to_le_bytes(n) ==
  FlattenSeq([i \in 1 .. 4 |-> ToLittleEndian(ByteLimit, WordBytes, Words256(n)[i])])

(* Uint512::from and Uint256::try_from *)
Widen(n) == U512!From(to_be_bytes(n))

Narrow(n) ==
  LET bytes == U512!TryIntoUint256(n)
  IN  IF bytes = <<>> THEN Overflow ELSE from_be_bytes(bytes)

(* TryFrom<Uint256> for Uint128 *)
TryIntoUint128(n) == IF n < Limit128 THEN n ELSE Overflow

------------------------------------------------------------------------------
checked(a, b) ==
  [add |-> CheckedAdd(Limit256, a, b), sub |-> CheckedSub(a, b),
   mul |-> CheckedMul(Limit256, a, b), div |-> CheckedDiv(a, b),
   rem |-> CheckedRem(a, b)]

checked_pow(a, exp) == CheckedPow(Limit256, a, exp)

pow(a, exp) == Unwrap(checked_pow(a, exp))

checked_shr(a, n) == CheckedShr(4 * Bits64, a, n)

(* Bits shifted out are lost; only the number of bits is checked.            *)
checked_shl(a, n) == IF n >= 4 * Bits64 THEN Overflow ELSE (a % 2 ^ (4 * Bits64 - n)) * 2 ^ n

saturating(a, b) ==
  [add |-> SaturatingAdd(Limit256, a, b), sub |-> SaturatingSub(a, b),
   mul |-> SaturatingMul(Limit256, a, b)]

(* The operators +, -, /, % and *: they panic where the checked form fails.  *)
ops(a, b) == [op \in {"add", "sub", "div", "rem", "mul"} |-> Unwrap(checked(a, b)[op])]

shr(a, n) == Unwrap(checked_shr(a, n))

shl(a, n) == Unwrap(checked_shl(a, n))

(* The assigning operators.                                                  *)
assign(a, b) == [op \in {"add", "sub", "mul", "div"} |-> ops(a, b)[op]]

full_mul(a, b) == Unwrap(U512!checked(Widen(a), Widen(b)).mul)

multiply_ratio(a, numerator, denominator) ==
  IF denominator = 0 THEN Panic
  ELSE Unwrap(Narrow(U512!ops(full_mul(a, numerator), Widen(denominator)).div))

(* from_str: decimal digits only, and at least one.                          *)
from_str(radix, text) ==
  IF text = <<>> THEN Refused ELSE Digits(Limit256, radix, text)

(* Display, which is also how the number is written in JSON, as a string.    *)
fmt(radix, n) == ToText(radix, n)

serialize(radix, n) == fmt(radix, n)

deserialize(radix, text) == from_str(radix, text)

Sum(summands) == FoldLeft(LAMBDA acc, x : IF acc < 0 THEN Panic ELSE ops(acc, x).add, 0, summands)
==============================================================================
