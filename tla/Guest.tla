--------------------------------- MODULE Guest ---------------------------------
(***************************************************************************)
(* The memory protocol between the VM and a contract.  All data crosses    *)
(* the boundary as Regions in the contract's linear memory: the VM has the *)
(* contract allocate the arguments of an entry point, the contract         *)
(* consumes them; an import borrows regions of the contract and answers in *)
(* a region it has the contract allocate; the VM reads the result and      *)
(* frees it.  VM errors and traps end a call at any point and free         *)
(* nothing.  The VM side is calls.rs, imports.rs and instance.rs, the      *)
(* contract side is the exports, imports and memory of cosmwasm-std.       *)
(* Locks and gas amounts are those of VmInstance: gas can run out here     *)
(* wherever it is charged.                                                 *)
(***************************************************************************)
EXTENDS Integers, FiniteSets, KeyValue, Sections

CONSTANTS GuestKeys,     \* storage keys a contract uses
          GuestValues,   \* storage values, the empty one included
          Entries,       \* the entry points called
          MaxRegions,    \* regions the memory has room for
          MaxImports,    \* bounds the imports of a call
          MaxCalls,      \* bounds the calls on the instance
          MaxScans,      \* bounds the iterators of the storage
          MAX_LENGTH_DB_KEY,
          BufferLength,  \* CANONICAL_ADDRESS_BUFFER_LENGTH, HUMAN_ADDRESS_BUFFER_LENGTH
          ResultLimit    \* read_limits

VARIABLES
  heap,      \* regions: pointer -> [kind, capacity, data]
  pc,        \* where the call is
  entry,     \* the entry point called
  args,      \* pointers to its arguments
  op,        \* the import being made
  imports,   \* number of imports of this call
  calls,     \* number of calls on the instance
  store,     \* MockStorage::data
  iterators, \* MockStorage::iterators: the records still to come, by id
  view,      \* history: the storage as the contract wrote it
  unpaid,    \* history: keys of writes that were applied but not paid for
  expected,  \* history: what is to come of each iterator the call has opened
  failed,    \* history: a call on the instance has failed
  lost,      \* history: destination buffers that were not consumed
  dangling   \* history: a region was used that is not there

memoryVars == <<heap, lost, dangling>>
storeVars == <<store, iterators, view, unpaid, expected>>
guestVars == <<memoryVars, storeVars, pc, entry, args, op, imports, calls, failed>>

Pointers == 1 .. MaxRegions

Free == [kind |-> "free", capacity |-> 0, data |-> <<>>]

(* alloc: an empty vector with the given capacity, owned by who consumes it. *)
Alloc(size) == [kind |-> "owned", capacity |-> size, data |-> <<>>]

(* build_region: data of the contract, which stays its owner.                *)
build_region(data) == [kind |-> "borrowed", capacity |-> Len(data), data |-> data]

(* release_buffer: capacity = length.                                        *)
release_buffer(data) == [kind |-> "owned", capacity |-> Len(data), data |-> data]

FreePointers(h) == {p \in Pointers : h[p] = Free}

(* The n lowest free pointers; the allocator traps without memory.           *)
Lowest(h, n) ==
  [i \in 1 .. n |-> CHOOSE p \in FreePointers(h) :
                      Cardinality({q \in FreePointers(h) : q < p}) = i - 1]

HasRoom(h, n) == Cardinality(FreePointers(h)) >= n

Put(h, pointers, regions) ==
  [p \in Pointers |-> IF \E i \in DOMAIN pointers : pointers[i] = p
                      THEN regions[CHOOSE i \in DOMAIN pointers : pointers[i] = p]
                      ELSE h[p]]

(* consume_region of each pointer frees the region and its data.             *)
consume_regions(h, pointers) ==
  [p \in Pointers |-> IF p \in Range(pointers) THEN Free ELSE h[p]]

CanConsume(h, pointers) ==
  /\ \A i \in DOMAIN pointers : h[pointers[i]].kind = "owned"
  /\ Cardinality(Range(pointers)) = Len(pointers)

NoOp == [fn |-> "none"]

(* A VM error or a trap: the call ends, nothing is freed.                    *)
Abort ==
  /\ pc' = "idle" /\ failed' = TRUE
  /\ op' = NoOp

------------------------------------------------------------------------------
(* The VM calls an entry point.                                              *)

WithInfo == {"instantiate", "execute"}
WithMsg == {"migrate", "sudo", "reply"}
Queries == {"query"}
Ibc == {"ibc_channel_open", "ibc_channel_connect", "ibc_channel_close",
        "ibc_packet_receive", "ibc_packet_ack", "ibc_packet_timeout"}

ASSUME EntriesAssumption == Entries \subseteq WithInfo \cup WithMsg \cup Queries \cup Ibc
ASSUME RegionsAssumption == MaxRegions \in Nat

(* Keys and values are bytes, and far shorter than what a section can hold   *)
(* (MAX_LENGTH_DB_KEY, MAX_LENGTH_DB_VALUE).                                 *)
ASSUME BytesAssumption ==
  \A s \in GuestKeys \cup GuestValues : s \in Seq(0 .. SectionRadix - 1) /\ Len(s) < SectionLimit

(* call_*_raw: env, info and msg, or env and msg; only a query is read-only. *)
ArgCount(e) == IF e \in WithInfo THEN 3 ELSE 2
ReadOnly(e) == e \in Queries

BeginCall(e) ==
  /\ pc = "idle" /\ calls < MaxCalls
  /\ pc' = "arguments" /\ entry' = e /\ args' = <<>>
  /\ imports' = 0 /\ calls' = calls + 1
  /\ expected' = EmptyMap
  /\ UNCHANGED <<memoryVars, store, iterators, view, unpaid, op, failed>>

(* call_raw: allocate, then write_memory, for each argument; the allocation *)
(* can trap or run out of gas.                                               *)
WriteArgument ==
  /\ pc = "arguments" /\ Len(args) < ArgCount(entry)
  /\ \/ /\ HasRoom(heap, 1)
        /\ LET p == Lowest(heap, 1)
           IN  heap' = Put(heap, p, <<release_buffer(<<1>>)>>) /\ args' = args \o p
        /\ UNCHANGED <<pc, failed, op>>
     \/ Abort /\ UNCHANGED <<heap, args>>
  /\ UNCHANGED <<lost, dangling, storeVars, entry, imports, calls>>

CallFunction ==
  /\ pc = "arguments" /\ Len(args) = ArgCount(entry)
  /\ \/ pc' = "entry" /\ UNCHANGED <<failed, op>>
     \/ Abort                           \* not exported, or out of gas at once
  /\ UNCHANGED <<memoryVars, storeVars, entry, args, imports, calls>>

(* A seeded defect: the arguments are consumed when they have been parsed.   *)
EnterParsesFirst ==
  /\ pc = "entry"
  /\ \/ /\ heap' = consume_regions(heap, args)
        /\ dangling' = (dangling \/ ~CanConsume(heap, args))
        /\ pc' = "contract"
     \/ pc' = "result" /\ UNCHANGED <<heap, dangling>>
  /\ args' = <<>>
  /\ UNCHANGED <<lost, storeVars, entry, op, imports, calls, failed>>

(* do_*: consumes every argument, then parses; a parse error is a result of *)
(* the contract like any other, as is the contract's own error.             *)
Enter ==
  /\ pc = "entry"
  /\ heap' = consume_regions(heap, args)
  /\ dangling' = (dangling \/ ~CanConsume(heap, args))
  /\ pc' \in {"contract", "result"}     \* parsed, or a ContractResult::Err
  /\ args' = <<>>
  /\ UNCHANGED <<lost, storeVars, entry, op, imports, calls, failed>>

(* The contract's function returns, or panics.                               *)
Finish ==
  /\ pc = "contract"
  /\ pc' = "result" \/ (pc' = "idle")
  /\ failed' = (failed \/ pc' = "idle")
  /\ UNCHANGED <<memoryVars, storeVars, entry, args, op, imports, calls>>

(* A seeded defect: the VM frees the arguments after the call as well.       *)
ReturnResultFreesAll(result) ==
  /\ pc = "result" /\ pc' = "idle"
  /\ dangling' = (dangling \/ ~CanConsume(heap, [i \in 1 .. ArgCount(entry) |-> i]))
  /\ UNCHANGED <<heap, lost, storeVars, entry, args, op, imports, calls, failed>>

(* to_vec and release_buffer, then read_memory with the limit of the entry  *)
(* point, then deallocate.  A result that is too long is not freed.         *)
ReturnResult(result) ==
  /\ pc = "result"
  /\ \/ /\ HasRoom(heap, 1)
        /\ LET p == Lowest(heap, 1)
               after == Put(heap, p, <<release_buffer(result)>>)
           IN  \/ /\ Len(result) <= ResultLimit
                  /\ heap' = consume_regions(after, p)
                  /\ pc' = "idle" /\ UNCHANGED <<op, failed>>
               \/ heap' = after /\ Abort     \* too long, or out of gas before it is freed
     \/ Abort /\ UNCHANGED heap
  /\ UNCHANGED <<lost, dangling, storeVars, entry, args, imports, calls>>

------------------------------------------------------------------------------
(* The contract's side of an import: regions for its inputs, a buffer for    *)
(* an address to be written to, the call.                                    *)

Prepare(fn, inputs, buffers, details) ==
  /\ pc = "contract" /\ imports < MaxImports
  /\ HasRoom(heap, Len(inputs) + buffers)
  /\ LET p == Lowest(heap, Len(inputs) + buffers)
     IN  /\ heap' = Put(heap, p, [i \in DOMAIN p |-> IF i <= Len(inputs) THEN build_region(inputs[i])
                                                    ELSE Alloc(BufferLength)])
         /\ op' = [fn |-> fn, inputs |-> inputs, details |-> details, answer |-> <<>>,
                   borrowed |-> SubSeq(p, 1, Len(inputs)),
                   buffer |-> SubSeq(p, Len(inputs) + 1, Len(p))]
  /\ pc' = "import" /\ imports' = imports + 1
  /\ UNCHANGED <<lost, dangling, storeVars, entry, args, calls, failed>>

StorageGet(key) == Prepare("db_read", <<key>>, 0, <<>>)

(* An empty value is a panic.                                                *)
StorageSet(key, value) == value # <<>> /\ Prepare("db_write", <<key, value>>, 0, <<>>)

StorageRemove(key) == Prepare("db_remove", <<key>>, 0, <<>>)

(* Bounds are options: an absent one is the null pointer.                    *)
StorageRange(start, end, order) ==
  /\ Len(iterators) < MaxScans
  /\ Prepare("db_scan", start \o end, 0, <<start, end, order>>)

IteratorNext(id) == Prepare("db_next", <<>>, 0, id)

AddrValidate(input) == Prepare("addr_validate", <<input>>, 0, <<>>)
AddrCanonicalize(input) == Prepare("addr_canonicalize", <<input>>, 1, <<>>)
AddrHumanize(input) == Prepare("addr_humanize", <<input>>, 1, <<>>)

(* secp256k1_verify, ed25519_verify and ed25519_batch_verify.                *)
Verify(hash, signature, pubkey) == Prepare("verify", <<hash, signature, pubkey>>, 0, <<>>)
RecoverPubkey(hash, signature) == Prepare("recover_pubkey", <<hash, signature>>, 0, <<>>)

RawQuery(request) == Prepare("query_chain", <<request>>, 0, <<>>)
Debug(message) == Prepare("debug", <<message>>, 0, <<>>)

------------------------------------------------------------------------------
(* The VM's side of an import.                                               *)

Importing(fn) == pc = "import" /\ op.fn = fn

(* read_region of every borrowed region.                                     *)
Reads ==
  /\ dangling' = (dangling \/ \E p \in Range(op.borrowed) : heap[p].kind = "free")
  /\ UNCHANGED <<lost, entry, args, imports, calls>>

Fails == Abort /\ UNCHANGED <<heap, storeVars>>

NoAnswer == pc' = "answer" /\ UNCHANGED <<heap, op, failed>>

(* write_to_contract: has the contract allocate, then writes.                *)
AnswerWith(data) ==
  \/ /\ HasRoom(heap, 1)
     /\ LET p == Lowest(heap, 1)
        IN  heap' = Put(heap, p, <<release_buffer(data)>>) /\ op' = [op EXCEPT !.answer = p]
     /\ pc' = "answer" /\ UNCHANGED failed
  \/ Abort /\ UNCHANGED heap

KeysFit == \A i \in DOMAIN op.inputs : i = 1 => Len(op.inputs[i]) <= MAX_LENGTH_DB_KEY
BoundsFit == \A i \in DOMAIN op.inputs : Len(op.inputs[i]) <= MAX_LENGTH_DB_KEY

do_db_read ==
  /\ Importing("db_read") /\ Reads
  /\ \/ Fails                             \* a key too long, the backend, or gas
     \/ /\ KeysFit /\ UNCHANGED storeVars
        /\ LET value == get(store, op.inputs[1])
           IN  IF value = <<>> THEN NoAnswer ELSE AnswerWith(value[1])

(* The backend's storage: MockStorage, with an iterator for every scan that  *)
(* keeps the records it found.                                               *)
storage_set(key, value) == set(store, key, value)
storage_remove(key) == remove(store, key)
scan(start, end, order) == Append(iterators, range(store, start, end, order))

(* MockStorage::next: the record at the position, if any, and the iterators  *)
(* with the position moved on.                                               *)
NextRecord(id) == IF iterators[id] = <<>> THEN <<>> ELSE <<Head(iterators[id])>>
MovedOn(id) == [iterators EXCEPT ![id] = IF @ = <<>> THEN <<>> ELSE Tail(@)]

(* The backend writes, then the gas is charged.                              *)
WriteThrough(after) ==
  /\ \/ Fails                             \* read-only, a key too long, or the backend
     \/ /\ ~ReadOnly(entry) /\ KeysFit
        /\ store' = after
        /\ \/ NoAnswer /\ UNCHANGED unpaid
           \/ Abort /\ unpaid' = unpaid \cup {op.inputs[1]} /\ UNCHANGED heap
        /\ UNCHANGED <<iterators, view, expected>>

do_db_write ==
  Importing("db_write") /\ Reads /\ WriteThrough(storage_set(op.inputs[1], op.inputs[2]))

(* A seeded defect: a removal of a key removes nothing.                      *)
do_db_remove_nothing == Importing("db_remove") /\ Reads /\ WriteThrough(store)

do_db_remove == Importing("db_remove") /\ Reads /\ WriteThrough(storage_remove(op.inputs[1]))

do_db_scan ==
  /\ Importing("db_scan") /\ Reads
  /\ \/ Fails                             \* a bound too long, the backend, or gas
     \/ /\ BoundsFit
        /\ iterators' = scan(op.details[1], op.details[2], op.details[3])
        /\ UNCHANGED <<store, view, unpaid, expected>>
        /\ NoAnswer \/ (Abort /\ UNCHANGED heap)    \* out of gas

(* After the last record, one with an empty key.                             *)
do_db_next ==
  /\ Importing("db_next") /\ Reads
  /\ \/ Fails
     \/ LET next == NextRecord(op.details)
            record == IF next = <<>> THEN <<<<>>, <<>>>> ELSE next[1]
        IN  /\ iterators' = MovedOn(op.details)
            /\ UNCHANGED <<store, view, unpaid, expected>>
            /\ AnswerWith(encode_sections(record)) \/ (Abort /\ UNCHANGED heap)

ErrorMessage == <<2>>

(* do_addr_*: zero, or a region with the message of a user error.           *)
do_addr ==
  /\ pc = "import" /\ op.fn \in {"addr_validate", "addr_canonicalize", "addr_humanize"} /\ Reads
  /\ \/ Fails
     \/ UNCHANGED storeVars /\ AnswerWith(ErrorMessage)
     \/ /\ UNCHANGED <<storeVars, op, failed>> /\ pc' = "answer"
        /\ IF op.buffer = <<>> THEN UNCHANGED heap
           ELSE \E address \in {<<1>>} :
                  /\ Len(address) <= BufferLength      \* else write_region fails
                  /\ heap' = [heap EXCEPT ![op.buffer[1]].data = address]

(* A code, without a region; recover_pubkey answers with the key.            *)
do_crypto ==
  /\ pc = "import" /\ op.fn \in {"verify", "recover_pubkey", "debug"} /\ Reads
  /\ \/ Fails
     \/ UNCHANGED storeVars /\ NoAnswer
     \/ op.fn = "recover_pubkey" /\ UNCHANGED storeVars /\ AnswerWith(<<1>>)

do_query_chain ==
  /\ Importing("query_chain") /\ Reads
  /\ Fails \/ (UNCHANGED storeVars /\ AnswerWith(<<1>>))

------------------------------------------------------------------------------
(* The contract takes the answer: it consumes the answer's region, and the   *)
(* address buffer unless the answer is an error, and drops the regions it    *)
(* lent.  A null pointer where a region must be is a panic.                  *)

MustAnswer == op.fn \in {"db_next", "query_chain"}

Received == op.answer \o IF op.answer = <<>> THEN op.buffer ELSE <<>>

(* What the contract has seen of the storage.                                *)
Witness ==
  /\ view' = CASE op.fn = "db_write" -> set(view, op.inputs[1], op.inputs[2])
               [] op.fn = "db_remove" -> remove(view, op.inputs[1])
               [] OTHER -> view
  /\ unpaid' = IF op.fn \in {"db_write", "db_remove"} THEN unpaid \ {op.inputs[1]} ELSE unpaid
  /\ expected' =
       CASE op.fn = "db_scan" ->
              set(expected, Len(iterators), range(store, op.details[1], op.details[2], op.details[3]))
         [] op.fn = "db_next" /\ expected[op.details] # <<>> ->
              [expected EXCEPT ![op.details] = Tail(@)]
         [] OTHER -> expected
  /\ UNCHANGED <<store, iterators>>

Receive ==
  /\ pc = "answer"
  /\ \/ /\ MustAnswer => op.answer # <<>>
        /\ heap' = consume_regions(heap, Received \o op.borrowed)
        /\ dangling' = (dangling \/ ~CanConsume(heap, Received))
        /\ lost' = lost + Len(op.buffer) * Len(op.answer)
        /\ Witness
        /\ pc' = "contract" /\ op' = NoOp /\ UNCHANGED failed
     \/ /\ MustAnswer /\ op.answer = <<>> /\ Abort
        /\ UNCHANGED <<memoryVars, storeVars>>
  /\ UNCHANGED <<entry, args, imports, calls>>

------------------------------------------------------------------------------
GuestInit ==
  /\ heap = [p \in Pointers |-> Free] /\ lost = 0 /\ dangling = FALSE
  /\ pc = "idle" /\ entry = "none" /\ args = <<>> /\ op = NoOp /\ imports = 0 /\ calls = 0
  /\ store = EmptyMap /\ iterators = <<>> /\ view = EmptyMap /\ unpaid = {} /\ expected = EmptyMap
  /\ failed = FALSE

Bounds == {<<>>} \cup {<<k>> : k \in GuestKeys}

HostStep ==
  \/ \E e \in Entries : BeginCall(e)
  \/ WriteArgument
  \/ CallFunction
  \/ \E length \in {1, ResultLimit + 1} : ReturnResult([i \in 1 .. length |-> 1])
  \/ do_db_read \/ do_db_write \/ do_db_remove \/ do_db_scan \/ do_db_next
  \/ do_addr \/ do_crypto \/ do_query_chain

ContractStep ==
  \/ Enter
  \/ Finish
  \/ \E key \in GuestKeys :
       \/ StorageGet(key)
       \/ \E value \in GuestValues : StorageSet(key, value)
       \/ StorageRemove(key)
  \/ \E start, end \in Bounds, order \in {"Ascending", "Descending"} : StorageRange(start, end, order)
  \/ \E id \in DOMAIN expected : IteratorNext(id)
  \/ \E input \in {<<1>>} :
       \/ AddrValidate(input) \/ AddrCanonicalize(input) \/ AddrHumanize(input)
       \/ Verify(input, input, input) \/ RecoverPubkey(input, input)
       \/ RawQuery(input) \/ Debug(input)
  \/ Receive

GuestNext == HostStep \/ ContractStep

GuestSpec == GuestInit /\ [][GuestNext]_guestVars

------------------------------------------------------------------------------
(* Properties.                                                               *)

(* Every region is consumed at most once and only by its owner, and neither *)
(* side reads or writes a region that has been freed, whichever of the two  *)
(* frees it: arguments are freed in the contract, the result by the VM,     *)
(* answers in the contract (consume_region, call_raw, write_to_contract).   *)
NoDanglingRegion == ~dangling

(* As long as no call has failed, nothing is left in the memory of the      *)
(* instance between calls, except the buffers for addresses the backend     *)
(* refused to convert (addr_canonicalize and addr_humanize return without   *)
(* consuming them).  Memory never shrinks, so what is left is lost.         *)
SuccessfulCallsFreeMemory ==
  pc = "idle" /\ ~failed => Cardinality({p \in Pointers : heap[p] # Free}) = lost

(* What db_read answers is what the contract wrote last under the key, over *)
(* all calls on the instance, unless the last write was applied and could   *)
(* not be paid for (do_db_write charges the gas after writing).             *)
ReadsWhatWasWritten ==
  pc = "answer" /\ op.fn = "db_read" /\ op.inputs[1] \notin unpaid =>
    get(view, op.inputs[1]) =
      IF op.answer = <<>> THEN <<>> ELSE <<heap[op.answer[1]].data>>

(* An iterator gives the records of its range in order, as they were when   *)
(* it was opened, whatever is written meanwhile, and then an empty key; so  *)
(* a contract that stored an empty key takes that record for the end of the *)
(* iteration, and any other record for what it is (do_db_next, Iterator::   *)
(* next of ExternalIterator).                                                *)
IterationIsExact ==
  pc = "answer" /\ op.fn = "db_next" =>
    /\ op.answer # <<>>
    /\ decode_sections2(heap[op.answer[1]].data) =
         IF expected[op.details] = <<>> THEN <<<<>>, <<>>>> ELSE Head(expected[op.details])

(* Through the imports the contract sees one storage, the one it wrote to:   *)
(* single reads and iterations alike (do_db_read, do_db_next).               *)
StorageIsFaithful == ReadsWhatWasWritten /\ IterationIsExact
==============================================================================
