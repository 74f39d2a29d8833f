-------------------------------- MODULE Sections -------------------------------
(***************************************************************************)
(* Several byte strings in one region: every section is followed by its    *)
(* length in LengthBytes big-endian bytes (4 in the code).  The contract   *)
(* and the VM have an encoder and a decoder each.                          *)
(***************************************************************************)
EXTENDS Integers, Sequences

CONSTANTS SectionRadix,  \* number of byte values
          LengthBytes    \* bytes of a section length

ASSUME SectionsAssumption == SectionRadix \in Nat \ {0} /\ LengthBytes \in Nat

(* What a length of LengthBytes bytes can not say any more, 2^32 in the code *)
(* (to_u32 and force_to_u32 refuse a longer section).                        *)
SectionLimit ==
  LET power[i \in 0 .. LengthBytes] == IF i = 0 THEN 1 ELSE power[i - 1] * SectionRadix
  IN  power[LengthBytes]

NoSections == <<(<<-1>>)>>   \* a panic

(* to_be_bytes of a u32: its lowest byte last.                               *)
BigEndian(n) ==
  LET shifted[i \in 0 .. LengthBytes] == IF i = 0 THEN n ELSE shifted[i - 1] \div SectionRadix
  IN  [i \in 1 .. LengthBytes |-> shifted[LengthBytes - i] % SectionRadix]

FromBytes(bytes) ==
  LET upto[n \in 0 .. Len(bytes)] == IF n = 0 THEN 0 ELSE upto[n - 1] * SectionRadix + bytes[n]
  IN  upto[Len(bytes)]

(* std and vm encode_sections; a section is shorter than SectionLimit.       *)
encode_sections(sections) ==
  LET upto[n \in 0 .. Len(sections)] ==
        IF n = 0 THEN <<>> ELSE upto[n - 1] \o sections[n] \o BigEndian(Len(sections[n]))
  IN  upto[Len(sections)]

(* The length the last LengthBytes bytes of data give.                       *)
TailLength(data) == FromBytes(SubSeq(data, Len(data) - LengthBytes + 1, Len(data)))

SplitOff(data, n) == [rest |-> SubSeq(data, 1, n), tail |-> SubSeq(data, n + 1, Len(data))]

split_tail(data) ==
  LET split == SplitOff(data, Len(data) - LengthBytes - TailLength(data))
  IN  [rest |-> split.rest, tail |-> SubSeq(split.tail, 1, TailLength(data))]

decode_sections2(data) ==
  LET last == split_tail(data)
  IN  <<split_tail(last.rest).tail, last.tail>>

(* The VM's decoder: sections from the last to the first; a remainder that  *)
(* is too short for a length is ignored, a length beyond the data panics.   *)
decode_sections(data) ==
  LET cut[n \in 0 .. Len(data)] ==
        IF n < LengthBytes THEN <<>>
        ELSE LET tail_len == TailLength(SubSeq(data, 1, n))
                 end == n - LengthBytes
             IN  IF tail_len > end THEN NoSections
                 ELSE LET before == cut[end - tail_len]
                      IN  IF before = NoSections THEN NoSections
                          ELSE Append(before, SubSeq(data, end - tail_len + 1, end))
  IN  cut[Len(data)]
==============================================================================
