# A verification project for CosmWasm

TLA+ models of this repository: the VM with its code cache, the memory and the
calls between VM and contract, the standard library, the storage helpers, the
profiler and the example contracts. TLC checks them on small instances, and
TLAPS proves the results that matter most for all values of the constants.
`PROJECT.json` lists the components, runs, mutants, source lines of every
definition, findings, hazards and theorems.

Running it, in this directory:

    tlc -config MCStaking.cfg Staking        # one run
    tlapm ContractProofs.tla                 # the proofs of one module

## 1. Inventory

| part | state | operations | what is hard about it |
|---|---|---|---|
| code cache (`packages/vm/src/cache.rs`, `modules/`) | Wasm files, module files per format version, pinned and memory caches, counters, two mutexes | `save_wasm`, `load_wasm`, `analyze`, `get_instance`, `pin`, `unpin` | threads; stops and failing writes between two file operations; upgrades; a full cache |
| instance and environment (`environment.rs`, `instance.rs`, `calls.rs`, `imports.rs`) | gas counters, read-only flag, storage and querier, the lock around them | entry point calls, 14 imports, `recycle` | 64 bit gas arithmetic; errors in the middle of an import; the lock held while the contract runs |
| guest memory (`memory.rs`, `sections.rs`, `conversion.rs`; `memory.rs`, `exports.rs`, `imports.rs` of `packages/std`) | regions, and which side owns them; open iterators | allocate, read, write, release; every export and import | raw pointers that change hands, error paths that free nothing, 32 bit bounds, the end of an iteration |
| contracts `ibc-reflect`, `ibc-reflect-send` | accounts per channel, the pending channel, remote addresses | channel open, connect, close; packet receive, ack, timeout; replies; execute messages | interleaved handshakes and packets of several channels; submessages that fail after the acknowledgement is written; timeouts |
| contract `staking` | balances, claims, supply; on the chain: delegation, bank account, rewards | `transfer`, `bond`, `unbond`, `claim`, `reinvest`, `_bond_all_tokens` | rounding; a reserve that shares an account with rewards; slashing |
| contracts `hackatom`, `floaty`, `burner` | an escrow, its verifier and beneficiary | instantiate, release, migrate, sudo | migrations between codes that share one storage, to and from `queue` and `ibc-reflect` too |
| contract `reflect` | owner, replies by id | reflect messages and submessages, reply, change of owner | calls that call back; failures that undo what was done |
| contract `queue` | values under one-byte keys | enqueue, dequeue, migrate, queries | keys at their limit, iterators within iterators |
| storage helpers (`packages/storage`) | areas of one storage, told apart by prefixes | prefixed access, buckets, singletons, sequences | keys that meet, upper bounds with carry |
| math (`packages/std/src/math`) | none | integers and decimals of 64 to 512 bits, their texts and bytes | width, rounding |
| crypto (`packages/crypto`, contract `crypto-verify`) | none | verification, recovery, batches, Ethereum formats | error codes that cross the boundary, replicated messages and keys, unsigned subtraction |
| static checks (`compatibility.rs`, `static_analysis.rs`, `features.rs`, `wasm_backend/`) | none | verdict on a Wasm file, memory limits, order of middlewares | separate lists that must agree, off by one at a limit |
| types, responses, errors, mocks | none | times, timeouts, builders, conversions, mock addresses and queriers | many variants of the same thing written out separately |
| profiler (`packages/profiler`) | measurements by block | instrumentation, start, take | branches that leave a block without closing it |
| derive, schema | none | | code generation |

How they interact: the chain gives the VM code to save and calls to run. The
cache turns code into a module, and a module into an instance. An instance runs
one call of a contract at a time; arguments and results cross the boundary in
regions of the contract's memory. The contract calls back through the imports
into the storage, the querier and the api of the chain, and everything is paid
for with gas. Contracts return messages, which the chain executes after the
call, and which may call the contract again (replies).

What correctness means here: saved code is never lost and never mixed up;
instances carry their memory limit; the gas report adds up; queries do not
write; no region is used by a side that does not own it; a contract sees in the
VM what it would see natively; each IBC channel has its own account, and both
ends agree on it; acknowledgements tell the truth; derivative tokens stay
covered by coins; an escrow is paid to its beneficiary; stores with different
names do not meet; arithmetic is exact or fails.

## 2. Modules

Components with state:

| module | models | correspondence |
|---|---|---|
| `WasmCache` | `cache.rs`, the module caches and the weighted LRU cache they wrap | one action per step of a thread between two points where another thread, a stop or an I/O error can come in between; `inner` and `instLock` are the mutexes; `Restart` is a stop at any step, perhaps with an upgrade; the memory cache is a sequence, least recently used first |
| `ContractStore` | the promise of the cache to the node | a set of stored codes that only grows, and the answers that agree with it |
| `VmInstance` | `environment.rs`, `instance.rs`, `calls.rs`, `imports.rs` | `Call`, `Execute`, `Return` are a call; `Import(fn)` has one disjunct per way an import can end: the gas, the flag and the lock |
| `Guest` | both sides of the memory protocol: `calls.rs`, `imports.rs`, `instance.rs` of the VM, `exports.rs`, `imports.rs`, `memory.rs`, `storage.rs` of the standard library, and the mock storage with its iterators | `heap` is the contract's memory, region by region; the VM's steps and the contract's steps alternate by `pc`; a step can fail or run out of gas wherever the code can |
| `IbcReflect`, `IbcReflectSend` | the two IBC contracts and what they share | one action per entry point; a call with a submessage has two steps, and `call` keeps other calls on that chain out in between |
| `ReflectChannels` | both contracts composed with the IBC channels between them | handshake, packets, acknowledgements, timeouts, closing and ICS20 transfers; the channels are external and modelled from the entry points |
| `Staking` | `contracts/staking` and what it uses of the chain | one action per message; a message with its submessages is one transaction |
| `Hackatom` | `hackatom`, `floaty` and `burner`, and what `queue` and `ibc-reflect` do to the storage of an account that is migrated | the five are codes of one account, `code` says which; an action per message, migrations move between all that have one |
| `Messages`, `Reflect` | submessages; `contracts/reflect` on a chain that dispatches them | `calls` is the stack of calls in progress; the chain dispatches depth first, undoes what failed and calls `reply` |
| `KeyValue` | `MemoryStorage` and the storage traits | get, set, remove and ordered ranges over keys that are byte sequences |
| `StorageHelpers`, `SeparateStores` | `packages/storage`, and what it promises | length prefixes and upper bounds as byte operations; the promise is one map per area |
| `Queue`, `FifoQueue` | `contracts/queue`, and what it promises | byte keys and ranges; the promise is a sequence of values |
| `Profiler` | `packages/profiler` | the code that `feed` emits for a function body is executed operator by operator, with jumps (`br_table` included), calls (`call_indirect` included) and recursion; an operator carries the set of places or functions it may go to, and a jump behind the last `end` leaves the function |

Code without state of its own is written as operators and checked call by call:
`CallInput` holds the arguments of one call, and each module lists the calls
(`RegionCalls`, `TypeCalls`, ...).

| module | models |
|---|---|
| `FixedWidth`, `Uint64`, `Uint128`, `Uint256`, `Uint512`, `Decimal`, `Decimal256`, `StdMath` | the number types: checked, wrapping and panicking operations, ratios, roots, bytes, texts; `StdMath` puts them together and states what they have to agree on |
| `Sections`, `Calls` | section encodings of both sides; regions; typed calls with their limits; errors and their conversions |
| `Backend` | addresses and queries on all their levels: the mocks, the imports around them, the contract's wrappers, and the queries of `reflect` and `hackatom` |
| `Crypto` | signature functions, their imports and wrappers, the contract `crypto-verify` |
| `WasmCheck` | static checks, features, gatekeeper, memory limits, the exported memory, middlewares |
| `StdTypes` | times, timeouts, response builders, events and attributes |

The theorems are in `WasmCacheProofs` (the cache), `InstanceProofs` (instance and
guest memory), `StorageProofs` (what a contract sees of its storage, and the
queue), `StoredStateProofs` (storage helpers), `ReflectChannelsProofs` (IBC,
and the profiler), `ContractProofs` (staking, escrow, reflect) and `CallProofs`
(functions); `Foundations` holds the lemmas they share. The `MC` modules are
instances for TLC; `MCInstance`, `MCSystems` and `MCOperators` put several modules
into one run, of which one at a time takes steps.

Definitions whose comment calls them a seeded defect or a fault variant, or that
stand before the definition they are a variant of (`RoundedUp`,
`CloseKeepsAccount`, ...), are not part of a specification. They are the mutants:
each shows that a property notices the mistake.

### Abstractions

- A code is a checksum; its file is absent, partial or full. A module is its
  code and whether its store has the memory limit.
- In `VmInstance` the storage is the set of calls that wrote to it, instructions
  cost any amount of gas up to what is left, and gas counters wrap at `U64`. In
  `Guest` the storage has keys and values, and gas runs out anywhere.
- In `Guest` data in a region is a sequence of bytes, a pointer the number of its
  region. In `Calls` the memory is an array of bytes which also holds the three
  numbers of a region, four bytes each; it has `SectionRadix` values of a byte.
  JSON is whether the other side's type reads it and how long it is.
- The content of a dispatched IBC message is one payment, which fails when the
  account is empty or for any other reason. A packet may time out whenever it
  has not been received; times are left out.
- Amounts of the staking contract are natural numbers. Its tax is a fraction
  rounded down, as `Decimal` multiplication does. The chain refuses staking and
  bank messages about zero coins. Rewards, transfers to the contract and
  slashing (of the delegation, or of coins being unbonded) come at any time.
- Numbers keep their widths as constants: a word of `Bits64` bits and bytes of
  `ByteBits`, decimals of `DECIMAL_PLACES` digits in base `Radix`.
- Signatures, hashes and compilation are ideal: a secp256k1 signature belongs to
  two keys, one for each recovery parameter; a hash has no collisions.
- Attributes are their keys, messages their receivers, errors their kind and the
  words of their text. A list of features is the sequence of its trimmed items.
- In `Hackatom` the values of the queue and of `ibc-reflect` are not told apart,
  and the entries of `ibc-reflect` are two keys.

## 3. Runs

| run | instance | shows |
|---|---|---|
| `cache_faults` | 2 threads, 1 code, 2 format versions, all faults, everything but `unpin`; 205,216 states | a saved code stays complete on disk (`SavedWasmSurvives`), no module without its code (`ModulesHaveCode`), only limited modules are instantiated (`InstancesAreLimited`), lookups do not report saved code as missing (`SavedCodeIsFound`), a module is read from disk once per start and cache (`ReadFromDiskOnce`); the cache implements `ContractStore` (`ImplementsStore`) |
| `cache_threads` | 2 threads, all operations, 2 codes that do not fit the memory cache together and a refused one, no faults, fair; 166,356 states | the memory cache keeps to its size (`MemoryCacheBounded`), nobody reads a half-written file (`NoTornReads`), locks are given back (`LocksAreReleased`) |
| `get_after_stop` | stops | **violation** of `SavedCodeIsUsable` |
| `instance` | `VmInstance` with gas limit 4, counters of 4 bits, 9 kinds of gas information; or `Guest` with 2 calls of `execute` or `query`, 4 imports each of any kind, 5 regions, failures anywhere; 671,753 states | the report adds up until gas runs out (`GasReportIsExact`), running out is final (`NoWorkAfterDepletion`), queries and fresh instances do not write (`QueriesNeverWrite`); a region is only used and freed by its owner (`NoDanglingRegion`), successful calls leave nothing behind but what the address imports lose (`SuccessfulCallsFreeMemory`), reads and iterations give what was written (`StorageIsFaithful`) |
| `instance_lock` | `VmInstance` | **violation** of `NoSelfDeadlock` |
| `ibc_two_channels` | 2 channels, 3 packets each, 2 coins, 2 users, closings from both sides; 868,102 states | accounts belong to exactly the open channels (`AccountPerOpenChannel`), the sender's address is that account (`RemoteIsOwnAccount`), acknowledgements are true (`AckTellsOutcome`) and never refused (`AcksAreAccepted`), messages are executed in order (`ExecutedInOrder`) |
| `staking_accounting` | 2 users, minimum 1, tax 1/2, 8 coins, 2 slashed; 251,500 states | totals are sums (`SupplyIsSum`), the stored bond is the delegation but for slashing (`BondedTracksDelegation`), the reserve for claims is never spent (`ClaimsAreCovered`), `PriceNeverFalls` |
| `staking_unpaid` | minimum 2, tax 1/2, fair | **violation** of `ClaimsArePaid` |
| `systems` | seven systems, one at a time, the initial state chooses which; 47,711 states | see below |
| `operators` | every call with arguments from small sets; 442,692 calls | see below |
| `recovered_key_form` | `Crypto` | **violation** of `RecoveredKeyIsCompressed` |
| `exported_memory` | `WasmCheck` | **violation** of `AcceptedCodeExportsMemory` |

`systems` has the systems whose state spaces are small:

- storage helpers: two areas whose joined names are equal, a singleton and a
  sequence. They implement `SeparateStores` (`StoresAreSeparate`), and every
  range has what its area holds, all readers answer alike and a sequence has no
  gaps (`LastWriteIsFound`);
- the queue, with four keys: it implements `FifoQueue` and its queries agree with
  one another (`QueueIsFifo`);
- the escrow contracts: `EscrowIsKept` (an account that runs an escrow's code has a
  valid verifier, and only the beneficiary named at instantiation is paid by
  `release`), and over migrations to `hackatom`, `burner`, `queue` and `ibc-reflect`
  `BurntIsEmpty`: a burnt account has no data and its keys were counted, a queue has
  keys of one byte only, whatever was stored before, and an escrow's state that is
  gone never comes back;
- `reflect`, two transactions with nested calls: a query for an id finds the last
  reply that was not undone (`QueryFindsLastReply`);
- the profiler, on three function bodies with loops, calls and branches:
  `MeasurementsAreTaken`;
- staking with minimum 1, fair: `ClaimsArePaid`;
- IBC with two channels, fair: `RemoteAddressIsLearned`.

`operators` checks six properties. Each is a conjunction of named ones that
stand, with their comments, in the modules of the functions.

| property | is about |
|---|---|
| `NumbersAreExact` | ratios over a wider product, widths that agree, bytes, JSON, texts, roots, inverses, `from_atomics` |
| `RegionsAreSound` | whatever numbers are in the memory for a region, reads are in the memory and within the limit; a write changes nothing but the data and the numbers of its region, and is read back, also where the two overlap |
| `BoundaryIsFaithful` | sections, addresses, queries and signatures answer a contract in the VM as they would natively, addresses round-trip, the probe of `hackatom` finds errors of the user exactly where the chain answers and can be paid (`AnswersAgree`); results, messages, attributes and errors reach the caller as they were made (`OutcomesAreKept`) |
| `SignaturesAreSound` | recovered keys verify, batches are the conjunction of their entries, an Ethereum transaction verifies only with every field as it was signed |
| `AcceptedCodeIsContained` | code that passes the checks has its imports and the exports the VM calls, gets a memory exactly if its initial one is within the limit, stays within it and is metered |
| `TimesAreExact` | times and timeouts, with overflow |

### What the violations show

- `get_after_stop`: an incomplete module file is an error for every lookup; the
  intact Wasm code is not compiled again (`file_system_cache.rs:108`).
- `instance_lock`: `Environment::call_function` runs the contract under the read
  guard of the context. An import that the contract calls needs the write lock
  of the same context on the same thread (`environment.rs:119`). The standard
  library leaves open whether this blocks or panics; either way the import does
  not complete. The other runs of `VmInstance` therefore allow imports to
  complete only outside of a contract call, as the tests in `imports.rs` do.
  `Guest` leaves the lock out, to show what the imports do to the memory.
- `staking_unpaid`: `claim` needs `min_withdrawal` coins at hand, but a claim
  can be smaller than that after tax.
- `recovered_key_form`: `secp256k1_recover_pubkey` returns the key uncompressed
  (`secp256k1.rs:100`), not in the compressed form its documentation names. That
  the key can be used in `secp256k1_verify` directly, the other half of the
  sentence, is true (`RecoveredKeyVerifies`).
- `exported_memory`: the checks count the memories a code has, not those it
  exports (`compatibility.rs:61`). Code without an exported memory is accepted, and
  `WasmerInstance::memory` panics on its first use.

More that the models show without a run of their own:

- With a memory cache no larger than a module, `get_module` fails with the error
  of the memory cache although it has loaded the module (`cache.rs:301`): set
  `MemoryCacheSize = 2` and `Faults = {}` in `MCWasmCacheStop.cfg` and add a
  second code to see it.
- After slashing, `assert_bonds` refuses every `bond` and `unbond`, by
  `BondedTracksDelegation`; a TODO in the code says so.
- `addr_canonicalize` and `addr_humanize` of the contract return early on an error
  of the chain and never free the buffer for the answer; `SuccessfulCallsFreeMemory`
  counts these.
- An `If` whose branch is not taken leaves a started measurement behind, and the
  profiler's next measurement of that block takes it for its own;
  `MeasurementsAreTaken` is exact only for code without such an `If`.
- A stored entry with an empty key ends every iteration over it in the contract,
  as the end is told by an empty key; `StorageIsFaithful` says so.

### Bounds

- Two threads are enough for every pair of steps to interleave, and all
  exclusion in the cache is pairwise (two mutexes). `MaxStats` bounds the
  counted lookups between two restarts; two of them reach a hit after a miss,
  and an eviction. `unpin` is left out of the run with faults, where it would let
  the cache read a module twice; together with faults it is covered by the proofs,
  which hold for any set of operations.
- Gas limit 4 leaves room for several costs before depletion. Gas information
  of 5 exceeds it, and no sum reaches the width of the counters, the assumption
  of the module.
- Two calls in `Guest` show what the first leaves to the second; four imports are
  a write, a scan and two steps of the iterator; five regions hold the three
  arguments of an entry point and those of an import at the same time, and
  running out of them is one of the failures.
- Two channels are needed for accounts to get mixed up, three packets for a
  success after a failure besides the `WhoAmI` packet.
- Eight coins and a tax of 1/2 reach prices that are not whole, so that `bond`,
  `unbond` and the tax all round. `MaxNative` bounds the coins at the contract
  and `MaxSlash` what is slashed; neither matters in the proofs.
- A memory of 16 bytes holds the 12 bytes of a region's numbers and data that
  lies before, behind or in the middle of them; `u32` is four bytes of one bit.
- The queue's keys end at 4 and its sums at 6, so that both overflow. Three byte
  values (`ByteMax = 2`) reach a carry in an upper bound.
- Words of 3 bits make every operation overflow in some call; operands are taken
  from both ends of each type, and around squares and powers of the radix.
- The other constants of `operators` are chosen so that each limit has inputs
  below, at and above it.

Symmetry (of threads, or of channels, addresses and users) is used only in runs of safety
properties. The deadlock check is off where the behaviour really ends: a blocked
instance, a guest after its last call, a system at its bounds, a single function
call.

### Fairness

- Cache: weak fairness of each thread's next step. The operating system keeps
  running a thread that can run. Nothing is assumed about who gets a mutex, so
  that a waiting thread gets it is not claimed.
- IBC: a call that has begun ends, and a relayer delivers what it can. `Receive`
  has strong fairness because another call on that chain, such as a failing
  handshake, can disable it again and again. No fairness for timeouts or users.
- Staking: an unbonding period ends, and a user who can claim does.
  `ClaimsArePaid` speaks of behaviours in which unbonding ceases, since new
  unbonds can enlarge a claim for ever.

## 4. Proofs

All proofs hold for any constants that satisfy the named assumptions of the
module they are about. TLC evaluates each of them on the instance of its run.
The ones that say more than a type:

- `CacheAssumption`, `InstanceAssumption`, `ChannelsAssumption`,
  `StakingAssumption`, `RegionsAssumption`: ranges of the constants; no gas
  counter can reach its width.
- `RegionAssumption`: a `u32` is four bytes.
- `SectionsAssumption`, `BytesAssumption`: bytes are below the radix, and keys and
  values are shorter than a section can be, which `to_u32` enforces.
- `NamesAssumption`, `LengthsAssumption`: a name is a byte string short enough for
  its length prefix (`encode_length` panics otherwise), and no level of an area has
  the longest possible name with nothing but the largest byte in it: such a prefix
  would have no upper bound.
- `AreasApart`: none of the areas in use lies within another, and no singleton or
  sequence has the name of an area's first level, as the documentation of the
  helpers asks of their users.
- `QueueAssumption`: there are at least three keys, as `migrate` enqueues three
  values, and the values are integers of the code's width.
- `BodiesAssumption`: what Wasm validation guarantees of a function body: it ends
  with an `end`, a jump goes on behind a loop header, an `else` or an `end` of the
  same body, and calls are of functions of the module.

**Foundations.** Induction. The induction theorems of the library take a
predicate as a parameter, which the provers cannot instantiate; stated over sets
they need none. `LeastNatural` (a set of naturals that is not empty has a least
element) gives `NaturalInduction` (a set with 0 and successors is all of them),
`FiniteInduction` (over finite sets) and `RecursionExists` and `SameRecursion`
(a recursive function over `0 .. n` exists, and is the only one with its
equations). From these: sums over sequences and sets (`TotalExists`,
`TotalMonotone`, `SetTotalChanges`: changing one summand changes the sum by the
difference), and the ordered ranges of `MemoryStorage`: byte strings are totally
ordered (`LessTransitive`, `LessTotal`), and `range` lists exactly the selected
keys, each once and in order (`RangeIsSorted`).

**WasmCacheProofs.** `CacheInv` is `TypeOK`, what is known of codes (`CodeInv`)
and what is known of a thread at each of its steps (`CallInv`). The safety
invariants are not inductive alone: that a finished save is on disk depends on
what a thread has already written when it is about to finish, and that a file
is only changed by the thread that holds the lock. Theorems: `TypeCorrect`,
`SavedWasmIsKept`, `ModulesAreBacked`, `InstancesAreAlwaysLimited`, and
`CacheImplementsStore`, the refinement, which maps every step to a step of
`ContractStore` or to a stutter.

What depends on the mutex is in the second half of the module:

- `LockHeld`: a thread is between taking and giving back the mutex exactly when
  it holds it (`LockInv`).
- `NoCallSeesTornFiles`: an incomplete file is one that some thread is just
  writing (`FilesInv`). A thread that reads holds the mutex, so nobody is writing,
  and the file is complete. With faults nothing is claimed, as in `get_after_stop`.
- `MemoryIsBounded`: `MemoryCacheBounded` is not inductive, as `store` would add a
  code twice if it were already there. `MissInv` says that a thread about to
  compile holds the lock since its lookup, so that the code is still in no cache.
  That evicting stops below the limit is a statement about sums of weights.
- `SavedCodeIsAlwaysFound`: `SavedCodeIsFound` for every step, from `CacheInv` and
  `PendingInv` (a call in progress has no result yet).
- `NothingIsReadTwice`: `ReadFromDiskOnce` under the two conditions of the run
  `cache_faults`: room for all codes (`RoomForAll`) and no `unpin`. Without either the
  cache may drop a code and read it again. `DiskInv` relates the counter to
  the sizes of both caches.

**InstanceProofs.** The instance: `InstanceInv` is `TypeOK`, the gas equation
(`GasInv`: until depletion, limit = left + external + internal, and no counter has
wrapped; after depletion nothing is left) and the flag (`FlagInv`: the storage is
writable only in a call that may write). The subtractions of `process_gas_info`
saturate, so `LeftProperties` first shows what is left in each case. Theorems:
`InstanceTypeCorrect`, `GasReportsAreExact`, `QueriesAreReadOnly`,
`DepletionIsFinal`.

The guest memory, for any memory, storage, entry points and number of calls:

- `RegionsAreOwned`: `NoDanglingRegion`. `OwnerInv` says of every point of a call
  which regions are there and who owns them: the arguments, all different, until
  the contract takes them (`ArgsInv`); the inputs, the buffer and the answer of an
  import (`OpInv`). Allocation takes the lowest free pointers, a `CHOOSE`;
  `LowestThree` and `LowestFree` show that it finds free and distinct ones.
- `MemoryIsFreed`: `SuccessfulCallsFreeMemory`. `OrphanInv` counts the regions that
  no point of the call refers to any more: as long as nothing has failed these
  are the lost address buffers, after every step and not only between calls.

**StorageProofs.** `StorageIsSeenFaithfully`: `StorageIsFaithful`.
`GuestStorageInv` has four parts: the storage is a finite map of valid keys and
values (`StoreInv`); an import is about keys, values and iterators that exist
(`ImportInv`); the contract's view is the storage but for the write in progress
and those not paid for (`ViewInv`); what is left of an iterator in the VM is what
the contract still expects of it (`ScanInv`). A record reaches the contract as two
sections in one region, so the proof needs that decoding inverts encoding for
every length of the length field: `BigEndian` and `FromBytes` are recursive, and
their inverses are shown by `NaturalInduction`.

The module also has the queue. `QueueKeepsOrder`: the refinement of `FifoQueue`,
and the queries. `QueueInv` says that the keys are `lo .. lo + n - 1` for some `lo`
and `n`: enqueuing adds the next one behind, dequeuing takes the first, and an
empty queue starts again at 0. `KeysInOrder` and `QueueIsListed` turn this into
what `range` returns in either direction. With `QueueTyped` (the values are
integers) the sum, which is a recursive function over the records, is that of the
reducer's entry for a least value and the least values themselves
(`ReducerAddsUp`); where the 32 bit sum overflows the query fails and nothing is
claimed.

**StoredStateProofs.** The storage helpers.

- `HelpersKeepStoresApart`: the refinement of `SeparateStores`. Its core is that a
  length-prefixed name can be read back from the front of a key (`NameIsRead`), so
  that keys of two areas that are equal agree name by name (`LevelsAgree`), and one
  area is within the other; `SingletonsAreOutside` is the same for a singleton and
  an area. Each operation then changes one entry of one store.
- `SequenceAlwaysCounts`: with `CounterInv`, what the sequence stores is the last
  number it gave, which no other operation changes.
- `RangesAreTheirArea`: `RangeIsTheArea`. `StoredInv` says that the storage is finite
  and every key in it is that of an entry of some area or of a singleton. Between a
  prefix and the upper bound `namespace_upper_bound` computes from it, with a
  carry over trailing largest bytes, are exactly the keys that start with the
  prefix; a sorted list is determined by its elements, so the range, cut behind
  the prefix, is the range of the area by itself.
- `HelpersReadersAgree`: `ReadersAgree`, from the same invariant.
- `WritesAreFound`: `LastWriteIsFound`, the conjunction of the last three.

**ReflectChannelsProofs.** `ChannelsInv` has five parts: types; accounts
(`AccountsInv`: the pending slot belongs to the connect in progress, and accounts
in use are created and distinct); numbers (`NumbersInv`: packets on their way
have rising numbers, above those of all that was executed or acknowledged);
addresses (`AddressesInv`: what the sender knows and what waiting
acknowledgements of `WhoAmI` tell it is the account of the channel, also after
the other end has closed); and the two properties
`AckTellsOutcome` and `ExecutedInOrder`, which become inductive with these.
Theorems: `FactoryKeepsAccountsApart`, `SenderKnowsItsAccount`,
`AcknowledgementIsTheOutcome`, `DispatchedInOrder`, `NoAckIsRefused`,
`ChannelsTypeCorrect`, and `KnownAddressIsKept`, an action property that no run
checks: a known remote address is not changed by any step but the closing of its
channel.

The module also has the profiler. `MeasurementsAreRight`: `MeasurementsAreTaken`, for any function bodies.
The property speaks of measurements already taken; `ProfilerInv` says where
execution can be. Each activation is at a place of its emitted code, and all
but the running one at a place where no block is open (`StackRight`); while a
block is open its function has a start (`StartsRight`); until an `If` has jumped
over its branch that is the only start, and the one this activation made
(`StartsExact`); what is taken is registered. That the code emitted for a body
opens and closes blocks in turn, and has none open where a jump arrives, is shown
of the recursive function `FunctionProfiling` by induction over the body
(`WalkIsRight`, `BehindTarget`).

**ContractProofs.** Three systems.

- Staking. `StakingInv` is `TypeOK`, `ClaimsAreCovered` and
  `BondedTracksDelegation`. The lemmas `RatioDown` and `RatioBelowOne` say what
  `multiply_ratio` guarantees; `PriceNeverFalls` reduces to
  `minted * delegated <= payment * issued` for `bond` and to
  `unbonded * issued <= burnt * delegated` for `unbond`, where the check in
  `assert_bonds` makes the stored bond and the delegation the same. Theorems:
  `StakingTypeCorrect`, `ClaimsAreAlwaysCovered`, `BondedAlwaysTracks`,
  `PriceIsMonotone`, and `TokensAreConserved` (`SupplyIsSum`, for a finite set of
  users; each message changes one or two summands, also when sender and
  recipient, or user and owner, are the same).
- Escrow. `EscrowInv` says that whatever code an account has, an escrow state in
  its storage names the beneficiary that was promised, and that an endless call,
  which will be undone, started from such a storage. Theorems:
  `OnlyTheBeneficiaryIsPaid`, `EscrowAlwaysHasVerifier`, `EscrowTypeCorrect`, their
  conjunction `EscrowIsAlwaysKept`, and `BurntStaysEmpty`, for which `BurnerInv`
  keeps the storage finite, also the one an endless call goes back to: the burner
  and the queue remove the keys a range has listed, and `RangeIsSorted` says that
  these are all of them, each once; what the queue then adds has one-byte keys, and
  nothing but `instantiate`, which comes first, writes an escrow's state anew.
- Reflect. `LastReplyIsFound`: `QueryFindsLastReply`. A failing call restores what
  was stored when it began, so the property is not inductive: `ReflectInv` says
  it of the results now and of those saved by every call in progress, and `InCall`
  that a message has a verdict only within a call. Submessages that reflect again
  are one level deep, as in `SubMsgLists`.

**CallProofs.** Functions for every width. `ReadsAreContained` and `WritesAreExact`
are about any contents of a memory and any pointer into it: the numbers of a region
are found there, so that a write may change them while it writes the data, and
puts them back last. They give `RegionsAreChecked` and `RegionsKeepData` (together
`RegionsAreAlwaysSound`) for the calls of the run; that a `u32` is what its four
bytes say is shown by dividing step by step. Further `TimeIsCountedExactly` and
`TimeoutsAreOrdered` (together `TimesAreAlwaysExact`), `MemoryIsLimited`,
`RecoveryIsExact`. `FunctionSpec` makes one call after the other; its only
invariant is that the input is such a call, and each theorem is then a fact of
arithmetic. `DivMod` and `DivModUnique` say what division gives.

Only model-checked:

- the liveness properties `LocksAreReleased`, `ClaimsArePaid`,
  `RemoteAddressIsLearned`: liveness and `ENABLED` are out of the prover's reach;
- `NumbersAreExact`: the number types are instances of instances, which the prover
  does not get through, and their texts and roots are recursive operators;
- the properties of `operators` that are about finite tables of cases
  (`BoundaryIsFaithful`, and `SignaturesAreSound` and `AcceptedCodeIsContained` but
  for `RecoveryIsExact` and `MemoryIsLimited`). Their functions fold over lists of
  entries or names with `SequencesExt`, whose definitions make every proof step too
  slow; TLC goes through all cases of the tables.

Modules with proofs, and those they are about, do not extend `SequencesExt`
unless they need it, since every definition in scope makes each proof step slower;
folds over sequences are written as recursive functions there.

## 5. Not modelled

- `packages/derive`, `packages/schema` and the schema examples: code generation
  and file export, no behaviour at run time.
- Curve arithmetic, hashing and the compiler are external libraries, ideal here.
- Messages, queries and events are types with a JSON form; the wording of the
  JSON, of errors and of `Debug` output is left out, with `limited.rs`, which shortens
  lists in it. So are the sample values of
  the mocks, the printing of the profiler's table, and the messages of `hackatom`
  that only use up resources without an effect (argon2, allocating memory).
- Tests, benchmarks and examples, which are a large part of the source files, are
  no part of the system. They were read for what they say about it.
- What a file system loses on a power failure: `Restart` stops the process, not
  the machine.
- Overflow of 128 bit amounts in the staking contract: the transaction fails, and
  supplies of this size do not occur. The overflow of the number types is checked
  by itself in `StdMath`.
- Two contracts on one chain that share a block, and governance (`sudo` other than
  that of `hackatom`), belong to the chain.

## 6. Plan

1. An abstract specification of the IBC account service (an account per channel,
   messages executed in order, answers that arrive) that `ReflectChannels` is
   shown to implement.
2. A composition of `Guest` with `VmInstance`, so that gas and regions are in one
   state machine.
3. Theorems for the number types, over a presentation of widths and texts without
   recursive operators.
