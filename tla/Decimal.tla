-------------------------------- MODULE Decimal --------------------------------
(***************************************************************************)
(* cosmwasm_std::Decimal: a Uint128 number of atomics, DECIMAL_FRACTIONAL  *)
(* of which make one.  The radix is ten in the code.                       *)
(***************************************************************************)
EXTENDS FixedWidth

U128 == INSTANCE Uint128
U256 == INSTANCE Uint256

Decimal == 0 .. Limit128 - 1

(* The multiplication is unchecked: no u64 overflows it.                     *)
percent(x) == x * Radix ^ (DECIMAL_PLACES - 2)

from_atomics(atomics, decimal_places) ==
  IF decimal_places < DECIMAL_PLACES
  THEN LET product == U128!checked(atomics, Unwrap(U128!checked_pow(Radix, DECIMAL_PLACES - decimal_places))).mul
       IN  IF product < 0 THEN RangeExceeded ELSE product
  ELSE LET factor == U128!checked_pow(Radix, decimal_places - DECIMAL_PLACES)
       IN  IF factor < 0 THEN 0 ELSE Unwrap(U128!checked(atomics, factor).div)

from_ratio(numerator, denominator) ==
  U128!multiply_ratio(numerator, DECIMAL_FRACTIONAL, denominator)

sqrt_with_precision(atomics, precision) ==
  LET inner == U128!checked(atomics, (Radix * Radix) ^ precision).mul
      outer == Radix ^ (DECIMAL_PLACES \div 2 - precision)
  IN  IF inner < 0 THEN None ELSE Unwrap(U128!checked(isqrt(Limit128, inner), outer).mul)

(* The highest precision whose multiplication does not overflow.             *)
Precisions(atomics) ==
  {p \in 0 .. DECIMAL_PLACES \div 2 : sqrt_with_precision(atomics, p) # None}

(* A seeded defect: the lowest precision is taken.                           *)
sqrt_lowest(atomics) == sqrt_with_precision(atomics, 0)

sqrt(atomics) ==
  sqrt_with_precision(atomics, CHOOSE p \in Precisions(atomics) : \A q \in Precisions(atomics) : q <= p)

(* Fraction::inv *)
inv(atomics) ==
  IF atomics = 0 THEN None ELSE U128!ops(DECIMAL_FRACTIONAL_SQUARED, atomics).div

------------------------------------------------------------------------------
from_str(text) ==
  LET parts == Parts(text)
      whole == U128!from_str(Radix, parts[1])
      atomics == U128!checked(whole, DECIMAL_FRACTIONAL).mul
  IN  IF whole < 0 \/ atomics < 0 THEN Refused
      ELSE IF Len(parts) = 1 THEN atomics
      ELSE LET fractional == U128!from_str(Radix, parts[2])
               exp == DECIMAL_PLACES - Len(parts[2])
               scaled == Unwrap(U128!checked(fractional, Radix ^ exp).mul)
               sum == U128!checked(atomics, scaled).add
           IN  IF fractional < 0 \/ exp < 0 THEN Refused
               ELSE IF scaled < 0 THEN Panic
               ELSE IF sum < 0 \/ Len(parts) > 2 THEN Refused ELSE sum

(* Display: the fraction is padded to DECIMAL_PLACES, then trimmed.          *)
fmt(atomics) ==
  LET whole == ToText(Radix, U128!ops(atomics, DECIMAL_FRACTIONAL).div)
      fractional == Unwrap(U128!checked(atomics, DECIMAL_FRACTIONAL).rem)
  IN  IF fractional = 0 THEN whole
      ELSE whole \o <<Dot(Radix)>> \o TrimZeros(ToBigEndian(Radix, DECIMAL_PLACES, fractional))

(* A decimal is written in JSON as a string.                                 *)
serialize(atomics) == fmt(atomics)

deserialize(text) == from_str(text)

------------------------------------------------------------------------------
(* The operators on two decimals; + and - panic as those of Uint128.         *)
add(a, b) == U128!ops(a, b).add

sub(a, b) == U128!ops(a, b).sub

mul(a, b) ==
  Unwrap(U256!TryIntoUint128(
    U256!ops(U128!full_mul(a, b), U256!from_uint128(U128!to_le_bytes(DECIMAL_FRACTIONAL))).div))

(* Uint128 * Decimal and Decimal * Uint128 are a Uint128.                    *)
mul_uint(u, d) ==
  IF u = 0 \/ d = 0 THEN 0 ELSE U128!multiply_ratio(u, d, DECIMAL_FRACTIONAL)

(* Decimal / Uint128, and /= *)
div_uint(d, u) == U128!ops(d, u).div

Sum(summands) == FoldLeft(LAMBDA acc, x : IF acc < 0 THEN Panic ELSE add(acc, x), 0, summands)
==============================================================================
