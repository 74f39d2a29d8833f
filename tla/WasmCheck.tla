------------------------------- MODULE WasmCheck -------------------------------
(***************************************************************************)
(* What stands between a Wasm code and its execution: the static check on  *)
(* upload, the middlewares of the compiler, and the memory the runtime     *)
(* gives an instance.  A name is a pair of a prefix and a rest; operators  *)
(* are represented by a few of each arm of the gatekeeper's match.         *)
(***************************************************************************)
EXTENDS Integers, FiniteSets, SequencesExt, CallInput

CONSTANTS MEMORY_LIMIT,     \* pages a contract may start with (512)
          MAX_WASM_MEMORY,  \* 4 GiB, in bytes
          PageSize,         \* bytes of a page
          MaxMemorySize     \* greatest memory limit of a cache considered, in bytes

ASSUME MemoryAssumption ==
  /\ MEMORY_LIMIT \in Nat /\ MAX_WASM_MEMORY \in Nat /\ PageSize \in Nat \ {0}
  /\ MaxMemorySize \in Nat

SUPPORTED_IMPORTS ==
  {"db_read", "db_write", "db_remove", "addr_validate", "addr_canonicalize", "addr_humanize",
   "secp256k1_verify", "secp256k1_recover_pubkey", "ed25519_verify", "ed25519_batch_verify",
   "debug", "query_chain", "db_scan", "db_next"}

REQUIRED_EXPORTS == {<<"allocate", "">>, <<"deallocate", "">>, <<"instantiate", "">>}

(* One memory section with one memory that starts small and has no maximum.  *)
check_wasm_memories(module) ==
  /\ module.memories # <<>> /\ Len(module.memories) = 1
  /\ module.memories[1].min <= MEMORY_LIMIT
  /\ module.memories[1].max = <<>>

exported_function_names(module, prefix) ==
  {e.name : e \in {x \in module.exports : x.kind = "function" /\ x.name[1] = prefix}}

check_interface_version(module) ==
  exported_function_names(module, "interface_version_") = {<<"interface_version_", "8">>}

check_wasm_exports(module) ==
  \A required \in REQUIRED_EXPORTS : required \in exported_function_names(module, required[1])

check_wasm_imports(module) ==
  \A i \in module.imports : i.name \in SUPPORTED_IMPORTS /\ i.kind = "function"

required_features_from_module(module) ==
  {name[2] : name \in {n \in exported_function_names(module, "requires_") : n[2] # ""}}

check_wasm_features(module, supported_features) ==
  required_features_from_module(module) \subseteq supported_features

check_wasm(module, supported_features) ==
  /\ check_wasm_memories(module)
  /\ check_interface_version(module)
  /\ check_wasm_exports(module)
  /\ check_wasm_imports(module)
  /\ check_wasm_features(module, supported_features)

(* The list, split at its commas into trimmed parts; empty parts are dropped. *)
features_from_csv(csv) == Range(csv) \ {""}

------------------------------------------------------------------------------
(* The gatekeeper.                                                           *)
BasicOperators == {"I32Add", "Call", "Loop", "MemoryGrow"}
ReferenceTypes == {"RefNull", "TableSize"}
Atomics == {"AtomicFence", "I32AtomicLoad"}
SimdOperators == {"V128Load", "F64x2PromoteLowF32x4"}
FloatOperators == {"F32Add", "F64x2Add", "F32x4ConvertI32x4U"}
BulkMemory == {"MemoryCopy", "TableInit"}
ExceptionHandling == {"Try", "Throw"}

(* Gatekeeper::default: nothing is allowed.                                  *)
GatekeeperConfig ==
  [floats |-> FALSE, bulk_memory |-> FALSE, reference_types |-> FALSE,
   simd |-> FALSE, exceptions |-> FALSE, threads |-> FALSE]

Allows(config, operator) ==
  \/ operator \in BasicOperators
  \/ operator \in ReferenceTypes /\ config.reference_types
  \/ operator \in Atomics /\ config.threads
  \/ operator \in SimdOperators /\ config.simd
  \/ operator \in FloatOperators /\ config.floats
  \/ operator \in BulkMemory /\ config.bulk_memory
  \/ operator \in ExceptionHandling /\ config.exceptions

(* A middleware takes the operators one by one: it fails the compilation or  *)
(* passes on operators.  The one of the caller puts a call before each.      *)
Feed(middleware, operators) ==
  CASE middleware = "gatekeeper" -> operators
    [] middleware = "metering"   -> [i \in DOMAIN operators |-> <<"metered", operators[i]>>]
    [] middleware = "custom"     ->
         FlattenSeq([i \in DOMAIN operators |-> <<"Call", operators[i]>>])

Refuses(middleware, operators) ==
  middleware = "gatekeeper" /\ \E i \in DOMAIN operators : ~Allows(GatekeeperConfig, operators[i])

(* A seeded defect: the custom middlewares come last.                        *)
make_compile_time_store_last(middlewares) == <<"gatekeeper", "metering">> \o middlewares

make_compile_time_store(middlewares) == middlewares \o <<"gatekeeper", "metering">>

(* The compiled function, an option.                                         *)
compile(operators, middlewares) ==
  FoldLeft(LAMBDA code, m : IF code = <<>> \/ Refuses(m, code[1]) THEN <<>>
                            ELSE <<Feed(m, code[1])>>,
           <<operators>>, make_compile_time_store(middlewares))

------------------------------------------------------------------------------
(* The memory of an instance.                                                *)
Least(a, b) == IF a <= b THEN a ELSE b

limit_to_pages(limit) == Least(limit, MAX_WASM_MEMORY) \div PageSize

adjust_memory(requested, limit) ==
  IF requested.max = <<>> THEN [requested EXCEPT !.max = <<limit>>] ELSE requested

validate_memory(ty, limit) == ty.min <= limit /\ ty.max # <<>> /\ ty.max[1] <= limit

(* create_vm_memory: the type of the memory an instance gets, an option.     *)
create_vm_memory(requested, limit) ==
  LET adjusted == adjust_memory(requested, limit)
  IN  IF validate_memory(adjusted, limit) THEN <<adjusted>> ELSE <<>>

(* WasmerInstance::memory: the first exported memory, which is the only one  *)
(* of the module; a panic (no value) if the module does not export it.       *)
ExportedMemories(module) == {e \in module.exports : e.kind = "memory"}

exported_memory(module, created) == IF ExportedMemories(module) # {} THEN created ELSE <<>>

(* memory.grow as the runtime executes it (external): the new size, or the   *)
(* old one when it fails.                                                    *)
Grow(memory, pages, delta) == IF pages + delta <= memory.max[1] THEN pages + delta ELSE pages

(* The functions Instance::from_module puts into the import object.          *)
ProvidedImports ==
  {"db_read", "db_write", "db_remove", "addr_validate", "addr_canonicalize", "addr_humanize",
   "secp256k1_verify", "secp256k1_recover_pubkey", "ed25519_verify", "ed25519_batch_verify",
   "debug", "query_chain"} \cup {"db_scan", "db_next"}
------------------------------------------------------------------------------
(* Calls.                                                                    *)
MemoryTypes == [min : 0 .. MEMORY_LIMIT + 1, max : {<<>>} \cup {<<n>> : n \in 0 .. MEMORY_LIMIT + 1}]

Modules ==
  [memories : {<<>>} \cup {<<m>> : m \in MemoryTypes} \cup {<<m, m>> : m \in MemoryTypes},
   exports : {REQUIRED \cup versions \cup features \cup memories :
                REQUIRED \in {[name : REQUIRED_EXPORTS, kind : {"function"}],
                              [name : REQUIRED_EXPORTS \ {<<"deallocate", "">>}, kind : {"function"}],
                              [name : REQUIRED_EXPORTS, kind : {"global"}]},
                versions \in {[name : {<<"interface_version_", v>> : v \in vs}, kind : {"function"}] :
                                vs \in SUBSET {"5", "8"}},
                features \in {[name : {<<"requires_", f>> : f \in fs}, kind : {"function"}] :
                                fs \in {{}, {""}, {"iterator"}, {"iterator", "staking"}}},
                memories \in {[name : names, kind : {"memory"}] :
                                names \in SUBSET {<<"memory", "">>, <<"heap", "">>}}},
   imports : SUBSET ([name : {"db_read", "db_scan"}, kind : {"function"}]
                       \cup {[name |-> "db_write", kind |-> "memory"], [name |-> "foo", kind |-> "function"]})]

WasmCalls ==
       [type : {"module"}, module : Modules, csv : {<<"">>, <<"", "iterator">>}]
  \cup [type : {"memory"}, memory : MemoryTypes, size : 0 .. MaxMemorySize, delta : 0 .. 3]
  \cup [type : {"function"}, operators : BoundedSeq(BasicOperators \cup ReferenceTypes \cup Atomics
          \cup SimdOperators \cup FloatOperators \cup BulkMemory \cup ExceptionHandling, 2),
        middlewares : BoundedSeq({"custom"}, 2)]

WasmNext == Provide(WasmCalls)

(* A code the static check accepts, whatever is in it, fails no more for     *)
(* what was checked: the import object has all its imports, the functions    *)
(* the VM itself calls are there, and an instance gets a memory exactly if   *)
(* the limit of the cache holds the initial one, with that limit as its      *)
(* maximum.  The VM finds that memory if the code exports it, under any      *)
(* name; that it does is not checked (check_wasm, Instance::from_module,     *)
(* LimitingTunables, WasmerInstance::memory).                                *)
AcceptedCodeCanRun ==
  Is("module") /\ check_wasm(input.module, features_from_csv(input.csv)) =>
    /\ \A i \in input.module.imports : i.name \in ProvidedImports /\ i.kind = "function"
    /\ \A name \in {"allocate", "deallocate", "instantiate"} :
         \E e \in input.module.exports : e.name = <<name, "">> /\ e.kind = "function"
    /\ ~\E e \in input.module.exports : e.name = <<"interface_version_", "5">>
    /\ (\E e \in input.module.exports : e.name = <<"requires_", "staking">>) => "staking" \in Range(input.csv)
    /\ \A limit \in 0 .. MEMORY_LIMIT + 1 :
         LET created == create_vm_memory(input.module.memories[1], limit)
         IN  /\ created # <<>> <=> input.module.memories[1].min <= limit
             /\ created # <<>> => created[1].max = <<limit>>
             /\ ExportedMemories(input.module) # {} => exported_memory(input.module, created) = created

(* "Every contract in CosmWasm must have exactly one exported memory.  This  *)
(* is ensured by `check_wasm`/`check_wasm_memories`" (wasm.rs:40-41): a code *)
(* that passes check_wasm exports the memory that it has.                    *)
AcceptedCodeExportsMemory ==
  Is("module") /\ check_wasm(input.module, features_from_csv(input.csv)) =>
    ExportedMemories(input.module) # {}

WasmSpec == NoInput /\ [][WasmNext]_input

(* However a contract describes its memory and grows it, the memory never    *)
(* takes more bytes than the limit the cache was configured with, which is   *)
(* rounded down to pages (limit_to_pages, adjust_memory, validate_memory).   *)
MemoryStaysWithinLimit ==
  Is("memory") =>
    LET limit == limit_to_pages(input.size)
        created == create_vm_memory(input.memory, limit)
        once == Grow(created[1], created[1].min, input.delta)
    IN  /\ limit * PageSize <= input.size
        /\ limit = MAX_WASM_MEMORY \div PageSize \/ (limit + 1) * PageSize > input.size
        /\ created # <<>> =>
             Grow(created[1], once, input.delta) * PageSize <= input.size

(* What is compiled has neither floats nor operators of features that are    *)
(* not enabled, those a middleware added included, and every operator in it  *)
(* is metered (Gatekeeper, make_compile_time_store).                         *)
CompiledCodeIsMetered ==
  Is("function") =>
    LET code == compile(input.operators, input.middlewares)
    IN  code # <<>> =>
          \A i \in DOMAIN code[1] : code[1][i] \in {<<"metered", op>> : op \in BasicOperators}

(* Code that passes the checks on upload can be instantiated, and only runs  *)
(* within limits: its imports are there, its memory stays below the limit,   *)
(* and all it executes is paid for (check_wasm, LimitingTunables,            *)
(* make_compile_time_store).                                                 *)
AcceptedCodeIsContained ==
  AcceptedCodeCanRun /\ MemoryStaysWithinLimit /\ CompiledCodeIsMetered
==============================================================================
