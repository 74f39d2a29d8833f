-------------------------------- MODULE Calls --------------------------------
(***************************************************************************)
(* The VM's side of a call of a contract: the regions in which data is     *)
(* passed, the typed calls around them, and the errors in which they end.  *)
(*                                                                         *)
(* Regions as the VM sees them: three numbers in the linear memory of a    *)
(* contract, which the contract can have put there at will.  The VM checks *)
(* them before it copies data out of or into the memory, and writes them   *)
(* back when it has changed the data, over whatever is there.  The data    *)
(* may be several sections, which one side encodes and the other decodes.  *)
(***************************************************************************)
EXTENDS Sections, FiniteSets, SequencesExt, CallInput

CONSTANTS MaxU32,          \* u32::MAX
          MemorySizes,     \* sizes of the linear memory in bytes
          RegionPointers,  \* where the numbers of a region are
          ReadLimits,      \* the max_length of reads
          MaxSections,     \* the most sections in one region
          MaxDataLength    \* the longest bytes given to the section decoder

ASSUME RegionAssumption ==
  /\ MaxU32 \in Nat /\ MemorySizes \subseteq Nat /\ RegionPointers \subseteq Nat
  /\ ReadLimits \subseteq Nat
  /\ MaxU32 + 1 = SectionRadix * (SectionRadix * (SectionRadix * SectionRadix))

ByteValues == 0 .. SectionRadix - 1

(* A u32 in the memory of a contract is four bytes, the lowest first         *)
(* (external: ValueType and the Cells of Wasmer).                            *)
U32Size == 4

LittleEndian(n) ==
  LET q1 == n \div SectionRadix
      q2 == q1 \div SectionRadix
      q3 == q2 \div SectionRadix
  IN  <<n % SectionRadix, q1 % SectionRadix, q2 % SectionRadix, q3 % SectionRadix>>

U32At(memory, a) ==
  memory[a] + SectionRadix *
    (memory[a + 1] + SectionRadix * (memory[a + 2] + SectionRadix * memory[a + 3]))

StoreBytes(memory, at, bytes) ==
  [a \in DOMAIN memory |->
     IF a \in at .. at + Len(bytes) - 1 THEN bytes[a - at + 1] ELSE memory[a]]

(* WasmPtr::deref, in usize arithmetic (external); a pointer is the address  *)
(* it goes to.                                                               *)
Deref(size, offset, length) == offset + length <= size

(* struct Region, repr(C).                                                   *)
RegionSize == 3 * U32Size

RegionAt(memory, ptr) ==
  [offset |-> U32At(memory, ptr),
   capacity |-> U32At(memory, ptr + U32Size),
   length |-> U32At(memory, ptr + 2 * U32Size)]

(* A seeded defect: the end is computed in 32 bits, where it wraps.          *)
validate_region_wrapping(region) ==
  /\ region.offset # 0
  /\ region.length <= region.capacity
  /\ (region.offset + region.capacity) % (MaxU32 + 1) <= MaxU32

validate_region(region) ==
  /\ region.offset # 0
  /\ region.length <= region.capacity
  /\ region.capacity <= MaxU32 - region.offset

get_region(size, memory, ptr) ==
  Deref(size, ptr, RegionSize) /\ validate_region(RegionAt(memory, ptr))

set_region(memory, ptr, region) ==
  StoreBytes(memory, ptr,
    LittleEndian(region.offset) \o LittleEndian(region.capacity) \o LittleEndian(region.length))

(* get_region, the limit, then the cells.                                    *)
CanRead(size, memory, ptr, max_length) ==
  LET region == RegionAt(memory, ptr)
  IN  /\ get_region(size, memory, ptr)
      /\ region.length <= max_length
      /\ Deref(size, region.offset, region.length)

(* The addresses of the bytes of a region, and the bytes.                    *)
Cells(region) == [i \in 1 .. region.length |-> region.offset + i - 1]

read_region(memory, ptr) ==
  LET cells == Cells(RegionAt(memory, ptr))
  IN  [i \in DOMAIN cells |-> memory[cells[i]]]

(* The whole capacity must be in the memory.                                 *)
CanWrite(size, memory, ptr, data) ==
  LET region == RegionAt(memory, ptr)
  IN  /\ get_region(size, memory, ptr)
      /\ Len(data) <= region.capacity
      /\ Deref(size, region.offset, region.capacity)

(* A seeded defect: the length is written before the data.                   *)
write_region_length_first(memory, ptr, data) ==
  LET region == RegionAt(memory, ptr)
  IN  StoreBytes(set_region(memory, ptr, [region EXCEPT !.length = Len(data)]), region.offset, data)

(* Data into the cells, then the region with its new length.                 *)
write_region(memory, ptr, data) ==
  LET region == RegionAt(memory, ptr)
  IN  set_region(StoreBytes(memory, region.offset, data), ptr, [region EXCEPT !.length = Len(data)])

------------------------------------------------------------------------------
RegionCalls ==
  [type : {"region"}, size : MemorySizes, ptr : RegionPointers, limit : ReadLimits,
   region : [offset : 0 .. MaxU32, capacity : 0 .. MaxU32, length : 0 .. MaxU32]]
    \cup [type : {"sections"},
          sections : BoundedSeq(BoundedSeq(ByteValues, LengthBytes), MaxSections)]
    \cup [type : {"bytes"}, data : BoundedSeq(ByteValues, MaxDataLength)]

RegionNext == Provide(RegionCalls)

(* A fresh memory in which the contract has put the numbers of a region.     *)
RegionMemory == set_region([a \in 0 .. input.size - 1 |-> 0], input.ptr, input.region)

(* What is read is in the memory, within the limit and below 2^32.           *)
ReadIsContained(size, memory, ptr, limit) ==
  LET region == RegionAt(memory, ptr)
  IN  /\ get_region(size, memory, ptr) => region.offset + region.capacity <= MaxU32
      /\ CanRead(size, memory, ptr, limit) =>
           /\ Len(read_region(memory, ptr)) <= limit
           /\ \A i \in DOMAIN Cells(region) : Cells(region)[i] \in DOMAIN memory \ {0}

(* After a write, the region is the same but for its length and can be read; *)
(* the bytes under it are the data, except where the numbers of the region   *)
(* themselves are; and every other byte is as it was.                        *)
WriteIsExact(size, memory, ptr, data) ==
  LET region == RegionAt(memory, ptr)
      after == write_region(memory, ptr, data)
      written == region.offset .. region.offset + Len(data) - 1
      numbers == ptr .. ptr + RegionSize - 1
  IN  CanWrite(size, memory, ptr, data) =>
        /\ RegionAt(after, ptr) = [region EXCEPT !.length = Len(data)]
        /\ CanRead(size, after, ptr, Len(data))
        /\ \A i \in 1 .. Len(data) : region.offset + i - 1 \notin numbers => read_region(after, ptr)[i] = data[i]
        /\ \A a \in DOMAIN memory \ (written \cup numbers) : after[a] = memory[a]

(* A region the VM accepts is in the memory and within the limit, and its    *)
(* capacity ends below 2^32, for all values of the three numbers, those      *)
(* whose sum exceeds 32 bits included (validate_region, read_region).        *)
AcceptedRegionsAreInMemory ==
  Is("region") => ReadIsContained(input.size, RegionMemory, input.ptr, input.limit)

(* What the VM writes to a region it reads back from it, nothing else in the *)
(* memory changes, and the region still is one the VM accepts, also when the *)
(* contract has made the data overlap the numbers of the region: they are    *)
(* written last (write_region, set_region).                                  *)
WrittenRegionsReadBack ==
  Is("region") =>
    \A length \in 0 .. MaxU32, byte \in ByteValues :
      WriteIsExact(input.size, RegionMemory, input.ptr, [i \in 1 .. length |-> byte])

(* The VM reads and writes nothing outside of the region it was given and    *)
(* the numbers that describe it, and a region it wrote holds the data        *)
(* (validate_region, get_region, set_region, read_region, write_region).     *)
RegionsAreSound == AcceptedRegionsAreInMemory /\ WrittenRegionsReadBack

(* What one side encodes the other decodes, empty sections included, from    *)
(* the last to the first; and of any bytes that the VM's decoder takes, the  *)
(* sections are all there is but for a remainder too short for a length      *)
(* (encode_sections, decode_sections, decode_sections2).                     *)
SectionsAreRecovered ==
  /\ Is("sections") =>
       LET data == encode_sections(input.sections)
       IN  /\ decode_sections(data) = input.sections
           /\ Len(input.sections) = 2 => decode_sections2(data) = input.sections
  /\ Is("bytes") /\ decode_sections(input.data) # NoSections =>
       LET taken == encode_sections(decode_sections(input.data))
       IN  /\ IsSuffix(taken, input.data)
           /\ Len(input.data) - Len(taken) < LengthBytes

------------------------------------------------------------------------------
(***************************************************************************)
(* What happens to the arguments and to the result of one call of a        *)
(* contract on its way through the VM (packages/vm/src/calls.rs), the      *)
(* entry points of the contract (packages/std/src/exports.rs) and back.    *)
(*                                                                         *)
(* A JSON document is what the two sides can tell of it: whether the other *)
(* side's type reads it, and how long it is.  A contract function returns  *)
(* [ok, value, length, known, json]: known says that the caller's type     *)
(* reads the value (the custom messages of contract and chain may differ), *)
(* json that a query's answer is itself JSON.                              *)
(***************************************************************************)

CONSTANTS ReadLength,   \* what is copied out of the contract's memory
          ParseLength   \* what is given to the JSON parser

ASSUME CallLimits == ReadLength \in Nat /\ ParseLength \in Nat /\ ParseLength <= ReadLength

InfoEntries == {"instantiate", "execute"}
MsgEntries == {"migrate", "sudo", "reply"}
IbcEntries == {"ibc_channel_open", "ibc_channel_connect", "ibc_channel_close",
               "ibc_packet_receive", "ibc_packet_ack", "ibc_packet_timeout"}
Entries == InfoEntries \cup MsgEntries \cup {"query"} \cup IbcEntries

read_limits == [e \in Entries |-> ReadLength]
deserialization_limits == [e \in Entries |-> ParseLength]

VmErr(kind) == [vmError |-> kind]
VmOk(value) == [result |-> value]
Fails(answer) == "vmError" \in DOMAIN answer

(***************************************************************************)
(* In the contract: the arguments are parsed in their order, and the first *)
(* that does not parse ends the call as if the contract had returned an    *)
(* error.  The message of an error is always a string, readable by all.    *)
(***************************************************************************)
ErrorResult(value, length) ==
  [ok |-> FALSE, value |-> value, length |-> length, known |-> TRUE, json |-> TRUE]

FirstBad(parses) ==
  CHOOSE i \in DOMAIN parses : ~parses[i] /\ \A j \in 1 .. i - 1 : parses[j]

try_into_contract_result(parses, returned) ==
  IF \E i \in DOMAIN parses : ~parses[i]
  THEN ErrorResult(FirstBad(parses), 1)
  ELSE returned

do_with_info(env, info, msg, returned) == try_into_contract_result(<<env, info, msg>>, returned)
do_with_msg(env, msg, returned) == try_into_contract_result(<<env, msg>>, returned)
do_query(env, msg, returned) == try_into_contract_result(<<env, msg>>, returned)
do_ibc(env, msg, returned) == try_into_contract_result(<<env, msg>>, returned)

(***************************************************************************)
(* In the VM: the result is copied out, parsed, and of a query also the    *)
(* bytes it carries are parsed.                                            *)
(***************************************************************************)
call_raw(e, result) ==
  IF result.length > read_limits[e] THEN VmErr("RegionLengthTooBig") ELSE VmOk(result)

from_slice(data, limit) ==
  CASE Fails(data) -> data
    [] data.result.length > limit -> VmErr("DeserializationLimitExceeded")
    [] ~data.result.known -> VmErr("ParseErr")
    [] OTHER -> data

call_with_info(e, env, info, msg, returned) ==
  from_slice(call_raw(e, do_with_info(env, info, msg, returned)), deserialization_limits[e])

call_with_msg(e, env, msg, returned) ==
  from_slice(call_raw(e, do_with_msg(env, msg, returned)), deserialization_limits[e])

call_query_unchecked(env, msg, returned) ==
  from_slice(call_raw("query", do_query(env, msg, returned)), ReadLength)

call_query(env, msg, returned) ==
  LET answer == from_slice(call_raw("query", do_query(env, msg, returned)),
                           deserialization_limits["query"])
  IN IF ~Fails(answer) /\ answer.result.ok /\ ~answer.result.json
     THEN VmErr("GenericErr")
     ELSE answer

call_ibc(e, env, msg, returned) ==
  from_slice(call_raw(e, do_ibc(env, msg, returned)), deserialization_limits[e])

call(e, env, info, msg, returned) ==
  CASE e \in InfoEntries -> call_with_info(e, env, info, msg, returned)
    [] e \in MsgEntries -> call_with_msg(e, env, msg, returned)
    [] e = "query" -> call_query(env, msg, returned)
    [] e \in IbcEntries -> call_ibc(e, env, msg, returned)

(***************************************************************************)
(* The integration tests call a contract with the signature the contract's *)
(* own functions have; an error of the VM stops the test.                  *)
(***************************************************************************)
TestPanics == VmErr("panic")

Expected(answer) == IF Fails(answer) THEN TestPanics ELSE answer.result

test_with_info(e, returned) == Expected(call_with_info(e, TRUE, TRUE, TRUE, returned))
test_with_msg(e, returned) == Expected(call_with_msg(e, TRUE, TRUE, returned))
test_query(returned) == Expected(call_query(TRUE, TRUE, returned))
test_ibc(e, returned) == Expected(call_ibc(e, TRUE, TRUE, returned))

test_call(e, returned) ==
  CASE e \in InfoEntries -> test_with_info(e, returned)
    [] e \in MsgEntries -> test_with_msg(e, returned)
    [] e = "query" -> test_query(returned)
    [] e \in IbcEntries -> test_ibc(e, returned)

Returned ==
  [ok : {TRUE}, value : {"value"}, length : 0 .. ReadLength + 1, known : BOOLEAN, json : BOOLEAN]
  \cup {ErrorResult("error", n) : n \in 0 .. ReadLength + 1}

CallNext ==
  Provide([type : {"call"}, entry : Entries, env : BOOLEAN, info : BOOLEAN, msg : BOOLEAN,
        returned : Returned])

CallAnswer == call(input.entry, input.env, input.info, input.msg, input.returned)

ArgumentsParse ==
  input.env /\ input.msg /\ (input.entry \in InfoEntries => input.info)

(***************************************************************************)
(* What a contract returns is what its caller gets, unless it is too long, *)
(* of a type the caller does not know or, from a query, not JSON: only     *)
(* then the VM fails, and an integration test disagrees with a unit test.  *)
(* In particular neither an error of the contract nor an argument the      *)
(* contract cannot parse is an error of the VM; the argument named is the  *)
(* first bad one.  The limit that counts is the parser's, as the comment   *)
(* at calls.rs:21-23 says.                                                 *)
(***************************************************************************)
ResultsReachTheCaller ==
  Is("call") =>
    LET r == input.returned
        readable == r.length <= ParseLength /\ r.known /\ (input.entry = "query" => r.json)
    IN /\ test_call(input.entry, r) = IF readable THEN r ELSE TestPanics
       /\ ArgumentsParse => IF readable THEN CallAnswer = VmOk(r) ELSE Fails(CallAnswer)
       /\ (~ArgumentsParse /\ ParseLength > 0) =>
            /\ ~Fails(CallAnswer) /\ ~CallAnswer.result.ok
            /\ (CallAnswer.result.value = 1 <=> ~input.env)

------------------------------------------------------------------------------
(***************************************************************************)
(* The errors of the standard library and of the VM: how they compare, how *)
(* they become one another and what of them reaches the embedder.  The     *)
(* text of an error is a sequence of words: its kind and its details.      *)
(***************************************************************************)

CONSTANTS Details,   \* what the fields of an error can hold
          Traces     \* backtraces

(***************************************************************************)
(* StdError and the errors of signatures, which keep a backtrace when the  *)
(* feature is on and compare by hand.                                      *)
(***************************************************************************)
StdFields ==
  [VerificationErr |-> {"source"}, RecoverPubkeyErr |-> {"source"}, GenericErr |-> {"msg"},
   InvalidBase64 |-> {"msg"}, InvalidDataSize |-> {"expected", "actual"}, InvalidUtf8 |-> {"msg"},
   NotFound |-> {"kind"}, ParseErr |-> {"target_type", "msg"}, SerializeErr |-> {"source_type", "msg"},
   Overflow |-> {"source"}, DivideByZero |-> {"source"}, ConversionOverflow |-> {"source"}]

(* The constructors capture the backtrace of the moment.                     *)
StdErrorOf(variant, fields, backtrace) ==
  [variant |-> variant, fields |-> fields, backtrace |-> backtrace]

StdErrors ==
  UNION {{StdErrorOf(v, f, t) : f \in [StdFields[v] -> Details], t \in Traces} : v \in DOMAIN StdFields}

std_error_eq(a, b) ==
  a.variant = b.variant /\ \A f \in StdFields[a.variant] : a.fields[f] = b.fields[f]

(* The text of StdError::ConversionOverflow leaves out its source.           *)
std_error_to_string(e) ==
  IF e.variant = "ConversionOverflow" THEN [variant |-> e.variant]
  ELSE [variant |-> e.variant, fields |-> e.fields]

(* VerificationError and RecoverPubkeyError: only UnknownErr has a field.    *)
VerificationErrors ==
  [variant : {"BatchErr", "GenericErr", "InvalidHashFormat", "InvalidSignatureFormat",
              "InvalidPubkeyFormat", "InvalidRecoveryParam"}]
  \cup [variant : {"UnknownErr"}, error_code : Details, backtrace : Traces]

RecoverPubkeyErrors ==
  [variant : {"InvalidHashFormat", "InvalidSignatureFormat", "InvalidRecoveryParam"}]
  \cup [variant : {"UnknownErr"}, error_code : Details, backtrace : Traces]

verification_error_eq(a, b) ==
  a.variant = b.variant /\ (a.variant = "UnknownErr" => a.error_code = b.error_code)

recover_pubkey_error_eq(a, b) ==
  a.variant = b.variant /\ (a.variant = "UnknownErr" => a.error_code = b.error_code)

(***************************************************************************)
(* The errors of the VM.                                                   *)
(***************************************************************************)
VmErrorOf(variant, details) == [variant |-> variant, text |-> <<variant>> \o details]

GasDepletion == VmErrorOf("GasDepletion", <<>>)

(* Each of these kinds carries its own details.                              *)
BackendErrors ==
  {"ForeignPanic", "BadArgument", "InvalidUtf8", "IteratorDoesNotExist", "OutOfGas", "Unknown", "UserErr"}
RegionValidationErrors == {"LengthExceedsCapacity", "OutOfRange", "ZeroOffset"}
CommunicationErrors ==
  {"DerefErr", "InvalidOrder", "InvalidUtf8", "RegionLengthTooBig", "RegionTooSmall", "ZeroAddress"}

(* RegionValidationError -> CommunicationError -> VmError                    *)
FromRegionValidationError(kind) == <<"InvalidRegion", kind>>
FromCommunicationError(words) == VmErrorOf("CommunicationErr", words)

FromBackendError(kind) ==
  IF kind = "OutOfGas" THEN GasDepletion ELSE VmErrorOf("BackendErr", <<kind>>)

(* An import that fails makes the contract trap with the text of its error,  *)
(* and a trap becomes an error of the VM with the text of the trap.          *)
RuntimeErrorFrom(error) == error.text
FromRuntimeError(text) == VmErrorOf("RuntimeErr", text)

(* WasmerInstance::call_function, when the function trapped.                 *)
CallFails(exhausted, trap) == IF exhausted THEN GasDepletion ELSE FromRuntimeError(trap)

ImportErrors ==
  {FromBackendError(kind) : kind \in BackendErrors}
  \cup {FromCommunicationError(<<kind>>) : kind \in CommunicationErrors}
  \cup {FromCommunicationError(FromRegionValidationError(kind)) : kind \in RegionValidationErrors}
  \cup {GasDepletion, VmErrorOf("WriteAccessDenied", <<>>),
        VmErrorOf("UninitializedContextData", <<"storage">>), VmErrorOf("CryptoErr", <<"source">>)}

(***************************************************************************)
(* A call of the contract fails: the contract traps by itself, or an       *)
(* import fails; or an import calls the contract's allocate, which traps   *)
(* or whose import fails.  exhausted: the metering has stopped the code.   *)
(***************************************************************************)
Traps == {<<"unreachable">>} \cup {RuntimeErrorFrom(e) : e \in ImportErrors}

EmbedderGets(trap, nested, exhausted) ==
  IF nested
  THEN CallFails(exhausted, RuntimeErrorFrom(CallFails(exhausted, trap)))
  ELSE CallFails(exhausted, trap)

ErrorNext ==
  \/ Provide([type : {"stdErrors"}, a : StdErrors, b : StdErrors])
  \/ Provide([type : {"verificationErrors"}, a : VerificationErrors, b : VerificationErrors])
  \/ Provide([type : {"failure"}, trap : Traps, nested : BOOLEAN, exhausted : BOOLEAN])
  \/ Provide([type : {"backendFailure"}, kind : BackendErrors, nested : BOOLEAN])

Untraced(e) == [f \in DOMAIN e \ {"backtrace"} |-> e[f]]

(***************************************************************************)
(* Two errors are equal when everything but their backtraces is, so the    *)
(* assertions of a test do not depend on the feature; and errors that are  *)
(* equal print alike.  Nothing else prints alike, except that the source   *)
(* of a ConversionOverflow is not printed.                                 *)
(***************************************************************************)
EqualErrorsPrintAlike ==
  /\ Is("stdErrors") =>
       /\ std_error_eq(input.a, input.b) <=> Untraced(input.a) = Untraced(input.b)
       /\ std_error_eq(input.a, input.b) =>
            std_error_to_string(input.a) = std_error_to_string(input.b)
       /\ std_error_to_string(input.a) = std_error_to_string(input.b) =>
            std_error_eq(input.a, input.b) \/ input.a.variant = "ConversionOverflow"
  /\ Is("verificationErrors") =>
       /\ verification_error_eq(input.a, input.b) <=> Untraced(input.a) = Untraced(input.b)
       /\ {input.a, input.b} \subseteq RecoverPubkeyErrors =>
            recover_pubkey_error_eq(input.a, input.b) = verification_error_eq(input.a, input.b)

(***************************************************************************)
(* What goes wrong in an import, or in a call of the contract made by an   *)
(* import, reaches the embedder with its text, through any number of       *)
(* traps; except that a contract stopped by the metering always gives      *)
(* GasDepletion (wasm.rs:60-71).                                           *)
(***************************************************************************)
ErrorsKeepTheirText ==
  Is("failure") =>
    LET e == EmbedderGets(input.trap, input.nested, input.exhausted)
    IN IF input.exhausted
       THEN e = GasDepletion
       ELSE e.variant = "RuntimeErr" /\ IsSuffix(input.trap, e.text)

(***************************************************************************)
(* A backend that runs out of gas while an import uses it is told to the   *)
(* embedder as the VM's own depletion is: the text says GasDepletion.      *)
(* (The kind does not: process_gas_info leaves no exhausted meter, and the *)
(* error has been a trap, wasm.rs:66.)                                     *)
(***************************************************************************)
DepletionIsTold ==
  Is("backendFailure") =>
    LET e == EmbedderGets(RuntimeErrorFrom(FromBackendError(input.kind)), input.nested, FALSE)
    IN (input.kind = "OutOfGas") <=> Contains(e.text, "GasDepletion")
==============================================================================
