-------------------------------- MODULE Uint128 --------------------------------
(***************************************************************************)
(* cosmwasm_std::Uint128, a u128.  A product of two is a Uint256.          *)
(***************************************************************************)
EXTENDS FixedWidth, SequencesExt

U256 == INSTANCE Uint256

Uint128 == 0 .. Limit128 - 1

to_be_bytes(n) == ToBigEndian(ByteLimit, 2 * WordBytes, n)

to_le_bytes(n) == ToLittleEndian(ByteLimit, 2 * WordBytes, n)

checked(a, b) ==
  [add |-> CheckedAdd(Limit128, a, b), sub |-> CheckedSub(a, b),
   mul |-> CheckedMul(Limit128, a, b), div |-> CheckedDiv(a, b),
   div_euclid |-> CheckedDiv(a, b), rem |-> CheckedRem(a, b)]

checked_pow(a, exp) == CheckedPow(Limit128, a, exp)

wrapping(a, b) ==
  [add |-> WrappingAdd(Limit128, a, b), sub |-> WrappingSub(Limit128, a, b),
   mul |-> WrappingMul(Limit128, a, b)]

wrapping_pow(a, exp) == WrappingPow(Limit128, a, exp)

saturating(a, b) ==
  [add |-> SaturatingAdd(Limit128, a, b), sub |-> SaturatingSub(a, b),
   mul |-> SaturatingMul(Limit128, a, b)]

saturating_pow(a, exp) == SaturatingPow(Limit128, a, exp)

(* TryFrom<Uint128> for Uint64 *)
TryIntoUint64(n) == IF n < Limit64 THEN n ELSE Overflow

(* The operators +, -, * and /: they panic where the checked form fails.     *)
ops(a, b) == [op \in {"add", "sub", "mul", "div"} |-> Unwrap(checked(a, b)[op])]

shr(a, n) == Unwrap(CheckedShr(2 * Bits64, a, n))

(* The assigning operators.                                                  *)
assign(a, b) == [op \in {"add", "sub", "mul", "div"} |-> ops(a, b)[op]]

rem(a, b) == Unwrap(checked(a, b).rem)

full_mul(a, b) == Unwrap(U256!checked(a, b).mul)

multiply_ratio(a, numerator, denominator) ==
  IF denominator = 0 THEN Panic
  ELSE Unwrap(U256!TryIntoUint128(U256!ops(full_mul(a, numerator), denominator).div))

(* from_str, str::parse::<u128>: one leading plus sign is allowed.           *)
from_str(radix, text) == ParsePrimitive(Limit128, radix, text)

(* Display, which is also how the number is written in JSON, as a string.    *)
fmt(radix, n) == ToText(radix, n)

serialize(radix, n) == fmt(radix, n)

deserialize(radix, text) == ParsePrimitive(Limit128, radix, text)

Sum(summands) == FoldLeft(LAMBDA acc, x : IF acc < 0 THEN Panic ELSE ops(acc, x).add, 0, summands)
==============================================================================
