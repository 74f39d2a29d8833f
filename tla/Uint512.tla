-------------------------------- MODULE Uint512 --------------------------------
(***************************************************************************)
(* cosmwasm_std::Uint512.  The number is kept as eight words, the least    *)
(* significant one first.                                                  *)
(***************************************************************************)
EXTENDS FixedWidth, SequencesExt

Uint512 == 0 .. Limit512 - 1

Words512(n) == ToLittleEndian(Limit64, 8, n)

from_be_bytes(data) ==
  FromLittleEndian(Limit64,
    [w \in 1 .. 8 |-> FromLittleEndian(ByteLimit,
       [k \in 1 .. WordBytes |-> data[WordBytes * (9 - w) + 1 - k]])])

from_le_bytes(data) ==
  FromLittleEndian(Limit64,
    [w \in 1 .. 8 |-> FromLittleEndian(ByteLimit,
       [k \in 1 .. WordBytes |-> data[WordBytes * (w - 1) + k]])])

to_be_bytes(n) ==
  FlattenSeq([i \in 1 .. 8 |-> ToBigEndian(ByteLimit, WordBytes, Words512(n)[9 - i])])

to_le_bytes(n) ==
  FlattenSeq([i \in 1 .. 8 |-> ToLittleEndian(ByteLimit, WordBytes, Words512(n)[i])])

Zeros(n) == [i \in 1 .. n |-> 0]

(* from_uint256, given the little endian bytes of the Uint256.               *)
from_uint256(bytes) == from_le_bytes(bytes \o Zeros(4 * WordBytes))

(* From<Uint256>, given its big endian bytes.                                *)
From(bytes) == from_be_bytes(Zeros(4 * WordBytes) \o bytes)

(* TryFrom<Uint512> for Uint256: the big endian bytes of the Uint256.        *)
TryIntoUint256(n) ==
  LET bytes == to_be_bytes(n)
  IN  IF SubSeq(bytes, 1, 4 * WordBytes) # Zeros(4 * WordBytes) THEN <<>>
      ELSE SubSeq(bytes, 4 * WordBytes + 1, 8 * WordBytes)

TryIntoUint128(n) == IF n < Limit128 THEN n ELSE Overflow

------------------------------------------------------------------------------
checked(a, b) ==
  [add |-> CheckedAdd(Limit512, a, b), sub |-> CheckedSub(a, b),
   mul |-> CheckedMul(Limit512, a, b), div |-> CheckedDiv(a, b),
   rem |-> CheckedRem(a, b)]

checked_shr(a, n) == CheckedShr(8 * Bits64, a, n)

saturating(a, b) ==
  [add |-> SaturatingAdd(Limit512, a, b), sub |-> SaturatingSub(a, b),
   mul |-> SaturatingMul(Limit512, a, b)]

(* The operators +, -, / and %, *: they panic where the checked form fails.  *)
ops(a, b) == [op \in {"add", "sub", "mul", "div", "rem"} |-> Unwrap(checked(a, b)[op])]

shr(a, n) == Unwrap(checked_shr(a, n))

(* The assigning operators.                                                  *)
assign(a, b) ==
  [add |-> Unwrap(checked(a, b).add), sub |-> Unwrap(checked(a, b).sub),
   mul |-> Unwrap(checked(a, b).mul), div |-> Unwrap(checked(a, b).div), shr |-> shr(a, b)]

(* from_str: decimal digits only; U512::from_dec_str reads "" as zero.       *)
from_str(radix, text) == Digits(Limit512, radix, text)

(* Display, which is also how the number is written in JSON, as a string.    *)
fmt(radix, n) == ToText(radix, n)

serialize(radix, n) == fmt(radix, n)

deserialize(radix, text) == from_str(radix, text)

Sum(summands) == FoldLeft(LAMBDA acc, x : IF acc < 0 THEN Panic ELSE ops(acc, x).add, 0, summands)
==============================================================================
