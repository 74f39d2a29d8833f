-------------------------------- MODULE Uint64 ---------------------------------
(***************************************************************************)
(* cosmwasm_std::Uint64, a u64.  A product of two is a Uint128.            *)
(***************************************************************************)
EXTENDS FixedWidth, SequencesExt

U128 == INSTANCE Uint128

Uint64 == 0 .. Limit64 - 1

to_be_bytes(n) == ToBigEndian(ByteLimit, WordBytes, n)

to_le_bytes(n) == ToLittleEndian(ByteLimit, WordBytes, n)

checked(a, b) ==
  [add |-> CheckedAdd(Limit64, a, b), sub |-> CheckedSub(a, b),
   mul |-> CheckedMul(Limit64, a, b), div |-> CheckedDiv(a, b),
   div_euclid |-> CheckedDiv(a, b), rem |-> CheckedRem(a, b)]

wrapping(a, b) ==
  [add |-> WrappingAdd(Limit64, a, b), sub |-> WrappingSub(Limit64, a, b),
   mul |-> WrappingMul(Limit64, a, b)]

wrapping_pow(a, exp) == WrappingPow(Limit64, a, exp)

saturating(a, b) ==
  [add |-> SaturatingAdd(Limit64, a, b), sub |-> SaturatingSub(a, b),
   mul |-> SaturatingMul(Limit64, a, b)]

saturating_pow(a, exp) == SaturatingPow(Limit64, a, exp)

(* The operators +, % and /: they panic where the checked form fails.        *)
ops(a, b) == [op \in {"add", "div", "rem"} |-> Unwrap(checked(a, b)[op])]

shr(a, n) == Unwrap(CheckedShr(Bits64, a, n))

(* The assigning operators.                                                  *)
assign(a, b) ==
  [add |-> Unwrap(checked(a, b).add), div |-> Unwrap(checked(a, b).div), shr |-> shr(a, b)]

full_mul(a, b) == Unwrap(U128!checked(a, b).mul)

multiply_ratio(a, numerator, denominator) ==
  IF denominator = 0 THEN Panic
  ELSE Unwrap(U128!TryIntoUint64(U128!ops(full_mul(a, numerator), denominator).div))

(* try_from(&str): str::parse::<u64>, which allows one leading plus sign.    *)
from_str(radix, text) == ParsePrimitive(Limit64, radix, text)

(* Display, which is also how the number is written in JSON, as a string.    *)
fmt(radix, n) == ToText(radix, n)

serialize(radix, n) == fmt(radix, n)

deserialize(radix, text) == ParsePrimitive(Limit64, radix, text)

Sum(summands) == FoldLeft(LAMBDA acc, x : IF acc < 0 THEN Panic ELSE ops(acc, x).add, 0, summands)
==============================================================================
