----------------------------- MODULE FixedWidth ------------------------------
(***************************************************************************)
(* Unsigned integers of a fixed width, as core and the crate uint give     *)
(* them to the math types of cosmwasm-std.  A width is given by its limit  *)
(* L: the values are 0 .. L-1.  A result is such a value or one of the     *)
(* negative codes below.  Roots and the text of numbers and decimals, over *)
(* any width, are the second part.                                         *)
(***************************************************************************)
EXTENDS Integers, SequencesExt

CONSTANTS Bits64,   \* the number of bits of a u64 word
          Limit64,  \* 2^64: the number of u64 values
          ByteBits  \* the number of bits of a byte

Limit128 == Limit64 * Limit64
Limit256 == Limit128 * Limit128
Limit512 == Limit256 * Limit256

ASSUME WidthAssumption ==
  /\ Bits64 \in Nat \ {0} /\ Limit64 \in Nat \ {0, 1} /\ Limit64 = 2 ^ Bits64
  /\ ByteBits \in 1 .. Bits64 /\ Bits64 % ByteBits = 0

Overflow == -1      \* OverflowError, ConversionOverflowError
DivideByZero == -2  \* DivideByZeroError
Panic == -3
Refused == -4       \* a text that is not a number, StdError

(* unwrap and expect *)
Unwrap(result) == IF result < 0 THEN Panic ELSE result

CheckedAdd(L, a, b) == IF a + b < L THEN a + b ELSE Overflow
CheckedSub(a, b) == IF b <= a THEN a - b ELSE Overflow
(* Without forming a product that does not fit.                              *)
CheckedMul(L, a, b) == IF a = 0 \/ b <= (L - 1) \div a THEN a * b ELSE Overflow
CheckedDiv(a, b) == IF b = 0 THEN DivideByZero ELSE a \div b
CheckedRem(a, b) == IF b = 0 THEN DivideByZero ELSE a % b
CheckedShr(bits, a, n) == IF n >= bits THEN Overflow ELSE a \div 2 ^ n

CheckedPow(L, a, exp) ==
  LET power[n \in 0 .. exp] ==
        IF n = 0 THEN 1
        ELSE LET p == power[n - 1] IN IF p < 0 THEN Overflow ELSE CheckedMul(L, p, a)
  IN  power[exp]

WrappingAdd(L, a, b) == (a + b) % L
WrappingSub(L, a, b) == (a + L - b) % L
WrappingMul(L, a, b) == (a * b) % L
WrappingPow(L, a, exp) ==
  LET power[n \in 0 .. exp] == IF n = 0 THEN 1 ELSE WrappingMul(L, power[n - 1], a)
  IN  power[exp]

Saturated(L, result) == IF result < 0 THEN L - 1 ELSE result
SaturatingAdd(L, a, b) == Saturated(L, CheckedAdd(L, a, b))
SaturatingSub(a, b) == IF b <= a THEN a - b ELSE 0
SaturatingMul(L, a, b) == Saturated(L, CheckedMul(L, a, b))
SaturatingPow(L, a, exp) == Saturated(L, CheckedPow(L, a, exp))

------------------------------------------------------------------------------
(* Digits: the bytes of a word, the words of a wide integer, decimal digits. *)

(* The value of digits, least significant first.                             *)
FromLittleEndian(radix, digits) ==
  LET value[n \in 0 .. Len(digits)] ==
        IF n = Len(digits) THEN 0 ELSE digits[n + 1] + radix * value[n + 1]
  IN  value[0]

FromBigEndian(radix, digits) ==
  FromLittleEndian(radix, [i \in 1 .. Len(digits) |-> digits[Len(digits) + 1 - i]])

ToLittleEndian(radix, n, value) ==
  [i \in 1 .. n |-> (value \div radix ^ (i - 1)) % radix]

ToBigEndian(radix, n, value) ==
  [i \in 1 .. n |-> (value \div radix ^ (n - i)) % radix]

ByteLimit == 2 ^ ByteBits
WordBytes == Bits64 \div ByteBits

(* A text is a sequence of characters: the digits 0 .. radix-1, the plus     *)
(* sign and the dot.                                                         *)
Plus(radix) == radix
Dot(radix) == radix + 1

Digits(L, radix, text) ==
  IF \E i \in DOMAIN text : text[i] >= radix THEN Refused
  ELSE LET n == FromBigEndian(radix, text) IN IF n < L THEN n ELSE Refused

(* str::parse of a primitive: at least one digit, after at most one plus.    *)
ParsePrimitive(L, radix, text) ==
  LET digits == IF text # <<>> /\ text[1] = Plus(radix) THEN Tail(text) ELSE text
  IN  IF digits = <<>> THEN Refused ELSE Digits(L, radix, digits)

(* The decimal digits of n, without leading zeros.                           *)
ToText(radix, n) ==
  LET len == CHOOSE k \in 1 .. 32 : n < radix ^ k /\ (k = 1 \/ n >= radix ^ (k - 1))
  IN  ToBigEndian(radix, len, n)

------------------------------------------------------------------------------
(***************************************************************************)
(* The integer square root that every unsigned type of cosmwasm-std        *)
(* implements, on a type with the limit L.                                 *)
(***************************************************************************)

(* Newton's iteration from n >> 1, as long as it falls.  The addition panics *)
(* on overflow.                                                              *)
isqrt(L, n) ==
  LET root[x0 \in 1 .. n] ==
        LET sum == CheckedAdd(L, x0, n \div x0)
            x1 == sum \div 2
        IN  IF sum < 0 THEN Panic ELSE IF x1 < x0 THEN root[x1] ELSE x0
  IN  IF n \div 2 > 0 THEN root[n \div 2] ELSE n

------------------------------------------------------------------------------
(***************************************************************************)
(* What Decimal and Decimal256 have in common: the position of the dot and *)
(* the str functions their parsing and printing use.                       *)
(***************************************************************************)

CONSTANTS Radix,          \* ten in the code
          DECIMAL_PLACES  \* eighteen in the code

DECIMAL_FRACTIONAL == Radix ^ DECIMAL_PLACES
DECIMAL_FRACTIONAL_SQUARED == DECIMAL_FRACTIONAL * DECIMAL_FRACTIONAL

ASSUME DecimalAssumption ==
  /\ Radix \in Nat \ {0, 1} /\ DECIMAL_PLACES \in Nat \ {0} /\ DECIMAL_PLACES % 2 = 0
  /\ DECIMAL_FRACTIONAL_SQUARED < Limit128

RangeExceeded == -5   \* DecimalRangeExceeded, Decimal256RangeExceeded
None == -6            \* Option::None

(* split('.') *)
Parts(text) ==
  FoldLeft(LAMBDA parts, c : IF c = Dot(Radix) THEN Append(parts, <<>>)
                             ELSE [parts EXCEPT ![Len(parts)] = Append(@, c)],
           <<(<<>>)>>, text)

(* trim_end_matches('0') *)
TrimZeros(digits) ==
  SubSeq(digits, 1, CHOOSE n \in 0 .. Len(digits) :
    /\ n > 0 => digits[n] # 0
    /\ \A i \in n + 1 .. Len(digits) : digits[i] = 0)
==============================================================================
