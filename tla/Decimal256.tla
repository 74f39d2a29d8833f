------------------------------ MODULE Decimal256 ------------------------------
(***************************************************************************)
(* cosmwasm_std::Decimal256: a Uint256 number of atomics,                  *)
(* DECIMAL_FRACTIONAL of which make one.                                   *)
(***************************************************************************)
EXTENDS FixedWidth

U256 == INSTANCE Uint256
U512 == INSTANCE Uint512

Decimal256 == 0 .. Limit256 - 1

percent(x) == U256!ops(x, Radix ^ (DECIMAL_PLACES - 2)).mul

from_atomics(atomics, decimal_places) ==
  IF decimal_places < DECIMAL_PLACES
  THEN LET product == U256!checked(atomics, Unwrap(U256!checked_pow(Radix, DECIMAL_PLACES - decimal_places))).mul
       IN  IF product < 0 THEN RangeExceeded ELSE product
  ELSE LET factor == U256!checked_pow(Radix, decimal_places - DECIMAL_PLACES)
       IN  IF factor < 0 THEN 0 ELSE Unwrap(U256!checked(atomics, factor).div)

from_ratio(numerator, denominator) ==
  U256!multiply_ratio(numerator, DECIMAL_FRACTIONAL, denominator)

sqrt_with_precision(atomics, precision) ==
  LET inner == U256!checked(atomics, U256!pow(Radix * Radix, precision)).mul
      outer == U256!pow(Radix, DECIMAL_PLACES \div 2 - precision)
  IN  IF inner < 0 THEN None ELSE Unwrap(U256!checked(isqrt(Limit256, inner), outer).mul)

(* The highest precision whose multiplication does not overflow.             *)
Precisions(atomics) ==
  {p \in 0 .. DECIMAL_PLACES \div 2 : sqrt_with_precision(atomics, p) # None}

sqrt(atomics) ==
  sqrt_with_precision(atomics, CHOOSE p \in Precisions(atomics) : \A q \in Precisions(atomics) : q <= p)

(* Fraction::inv *)
inv(atomics) ==
  IF atomics = 0 THEN None ELSE U256!ops(DECIMAL_FRACTIONAL_SQUARED, atomics).div

------------------------------------------------------------------------------
from_str(text) ==
  LET parts == Parts(text)
      whole == U256!from_str(Radix, parts[1])
      atomics == U256!checked(whole, DECIMAL_FRACTIONAL).mul
  IN  IF whole < 0 \/ atomics < 0 THEN Refused
      ELSE IF Len(parts) = 1 THEN atomics
      ELSE LET fractional == U256!from_str(Radix, parts[2])
               exp == DECIMAL_PLACES - Len(parts[2])
               scaled == Unwrap(U256!checked(fractional, Radix ^ exp).mul)
               sum == U256!checked(atomics, scaled).add
           IN  IF fractional < 0 \/ exp < 0 THEN Refused
               ELSE IF scaled < 0 THEN Panic
               ELSE IF sum < 0 \/ Len(parts) > 2 THEN Refused ELSE sum

(* Display: the fraction is padded to DECIMAL_PLACES, then trimmed.          *)
fmt(atomics) ==
  LET whole == ToText(Radix, U256!ops(atomics, DECIMAL_FRACTIONAL).div)
      fractional == Unwrap(U256!checked(atomics, DECIMAL_FRACTIONAL).rem)
  IN  IF fractional = 0 THEN whole
      ELSE whole \o <<Dot(Radix)>> \o TrimZeros(ToBigEndian(Radix, DECIMAL_PLACES, fractional))

(* A decimal is written in JSON as a string.                                 *)
serialize(atomics) == fmt(atomics)

deserialize(text) == from_str(text)

------------------------------------------------------------------------------
(* The operators on two decimals; + and - panic as those of Uint256.         *)
add(a, b) == U256!ops(a, b).add

sub(a, b) == U256!ops(a, b).sub

mul(a, b) ==
  Unwrap(U256!Narrow(
    U512!ops(U256!full_mul(a, b), U512!from_uint256(U256!to_le_bytes(DECIMAL_FRACTIONAL))).div))

(* Uint256 * Decimal256 and Decimal256 * Uint256 are a Uint256.              *)
mul_uint(u, d) ==
  IF u = 0 \/ d = 0 THEN 0 ELSE U256!multiply_ratio(u, d, DECIMAL_FRACTIONAL)

(* Decimal256 / Uint256, and /= *)
div_uint(d, u) == U256!ops(d, u).div

Sum(summands) == FoldLeft(LAMBDA acc, x : IF acc < 0 THEN Panic ELSE add(acc, x), 0, summands)
==============================================================================
