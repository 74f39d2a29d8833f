------------------------------ MODULE VmInstance ------------------------------
(***************************************************************************)
(* One contract instance: Environment and its ContextData, the functions   *)
(* the VM exports to the contract (imports.rs), the entry point calls      *)
(* (calls.rs) and the gas the instance may use.  An instance is used by    *)
(* one thread.  ContextData is behind a read-write lock; the environment   *)
(* keeps its read guard for as long as the contract runs.                  *)
(***************************************************************************)
EXTENDS Naturals

CONSTANTS GasLimit,       \* InstanceOptions::gas_limit
          U64,            \* gas counters wrap around at U64
          GasInfos,       \* the gas information a backend call can return
          GuestImports,   \* imports the contract calls
          HostImports     \* imports the embedder calls outside of a contract call

Writes == {"db_write", "db_remove"}
StorageImports == Writes \cup {"db_read", "db_scan", "db_next"}
AddrImports == {"addr_validate", "addr_canonicalize", "addr_humanize"}
CryptoImports == {"secp256k1_verify", "secp256k1_recover_pubkey",
                  "ed25519_verify", "ed25519_batch_verify"}
Imports == StorageImports \cup AddrImports \cup CryptoImports
             \cup {"query_chain", "debug"}

ASSUME InstanceAssumption ==
  /\ U64 \in Nat /\ GasLimit \in Nat /\ GasLimit < U64
  /\ GasInfos \subseteq [externally_used : Nat, cost : Nat]
  /\ \A info \in GasInfos : info.externally_used + info.cost < U64
  /\ GuestImports \subseteq Imports /\ HostImports \subseteq Imports

VARIABLES
  running,    \* the contract is executing: its caller holds the read guard
  blocked,    \* the thread waits for the write lock
  lastCall,   \* the entry point called last on this instance
  readonly,   \* ContextData::storage_readonly
  storage,    \* ContextData::storage: the calls that have written to it
  gasLeft,    \* the gas wasmer still allows
  externally, \* GasState::externally_used_gas
  internally, \* history: gas used by the contract and charged by the VM
  depleted    \* history: a VmError::GasDepletion has been returned

lock == <<running, blocked>>
gas == <<gasLeft, externally, internally, depleted>>
vars == <<lock, lastCall, readonly, storage, gas>>

EntryPoints == {"execute", "query"}   \* "execute": any entry point but query

SaturatingSub(a, b) == IF a >= b THEN a - b ELSE 0

(* Instance::from_module: new context, back reference, gas, backend.         *)
Init ==
  /\ running = FALSE /\ blocked = FALSE
  /\ lastCall = "none" /\ readonly = TRUE /\ storage = {}
  /\ gasLeft = GasLimit /\ externally = 0 /\ internally = 0 /\ depleted = FALSE

(* recycle moves storage and querier out; from_module puts them in a new     *)
(* instance.                                                                 *)
Recycle ==
  /\ ~running /\ ~blocked
  /\ lastCall' = "none" /\ readonly' = TRUE
  /\ gasLeft' = GasLimit /\ externally' = 0 /\ internally' = 0 /\ depleted' = FALSE
  /\ UNCHANGED <<lock, storage>>

------------------------------------------------------------------------------
(* Gas.                                                                      *)

(* The contract executes instructions worth g.  Wasmer stops it when the gas *)
(* does not suffice; get_gas_left is 0 from then on.                         *)
Burn(g) ==
  /\ g <= gasLeft
  /\ gasLeft' = gasLeft - g
  /\ internally' = internally + g
  /\ UNCHANGED <<externally, depleted>>

RunOutKeepsGas ==
  /\ depleted' = TRUE
  /\ UNCHANGED <<gasLeft, externally, internally>>

RunOut ==
  /\ gasLeft' = 0 /\ depleted' = TRUE
  /\ UNCHANGED <<externally, internally>>

LeftIgnoringExternal(info) == SaturatingSub(gasLeft, info.cost)

(* What process_gas_info leaves of the gas, and when it reports depletion.   *)
Left(info) ==
  SaturatingSub(SaturatingSub(gasLeft, info.externally_used), info.cost)

Depletes(info) == (info.externally_used + info.cost) % U64 > gasLeft

(* Instance::create_gas_report                                               *)
GasReport ==
  [limit |-> GasLimit, remaining |-> gasLeft, used_externally |-> externally,
   used_internally |-> SaturatingSub(SaturatingSub(GasLimit, externally), gasLeft)]

------------------------------------------------------------------------------
(* Entry point calls.                                                        *)

CallKeepsFlag(entry) ==
  /\ ~running /\ ~blocked
  /\ lastCall' = entry
  /\ readonly' = (readonly /\ entry = "query")
  /\ running' = TRUE /\ \E g \in 0 .. gasLeft : Burn(g)
  /\ UNCHANGED <<blocked, storage>>

(* call_*_raw set the storage flag; call_raw allocates and writes the        *)
(* arguments, which the contract does at a cost, and calls the entry point.  *)
Call(entry) ==
  /\ ~running /\ ~blocked
  /\ lastCall' = entry
  /\ readonly' = (entry = "query")
  /\ \/ running' = TRUE /\ \E g \in 0 .. gasLeft : Burn(g)
     \/ running' = FALSE /\ RunOut
     \/ running' = FALSE /\ \E g \in 0 .. gasLeft : Burn(g)   \* any other error
  /\ UNCHANGED <<blocked, storage>>

(* The entry point executes instructions.                                    *)
Execute ==
  /\ running /\ ~blocked
  /\ \/ \E g \in 1 .. gasLeft : Burn(g) /\ UNCHANGED running
     \/ RunOut /\ running' = FALSE
  /\ UNCHANGED <<blocked, lastCall, readonly, storage>>

(* The entry point returns, or fails on its own; call_raw reads the result   *)
(* and has the contract free it.                                             *)
Return ==
  /\ running /\ ~blocked
  /\ running' = FALSE
  /\ \/ \E g \in 0 .. gasLeft : Burn(g)
     \/ RunOut
  /\ UNCHANGED <<blocked, lastCall, readonly, storage>>

------------------------------------------------------------------------------
(* The imports.  A failed import ends the contract call it was made from.    *)

CanImport(fn) ==
  /\ ~blocked
  /\ fn \in IF running THEN GuestImports ELSE HostImports

(* write_to_contract: the contract allocates a region at a cost of g; it can *)
(* run out of gas, and the address or the write can be refused.              *)
Answer(left, spent) ==
  \/ /\ \E g \in 0 .. left : gasLeft' = left - g /\ internally' = internally + spent + g
     /\ running' \in {running, FALSE}
     /\ UNCHANGED depleted
  \/ /\ gasLeft' = 0 /\ depleted' = TRUE /\ running' = FALSE
     /\ UNCHANGED internally

(* db_write and db_remove of a read-only storage.                            *)
WriteDenied(fn) ==
  /\ CanImport(fn) /\ fn \in Writes /\ readonly
  /\ running' = FALSE
  /\ UNCHANGED <<blocked, lastCall, readonly, storage, gas>>

Permitted(fn) == CanImport(fn) /\ (fn \in Writes => ~readonly)

(* An argument that cannot be read from the contract's memory, or an invalid *)
(* order.  db_next takes none.                                               *)
ArgumentError(fn) ==
  /\ Permitted(fn) /\ fn # "db_next"
  /\ running' = FALSE
  /\ UNCHANGED <<blocked, lastCall, readonly, storage, gas>>

(* Imports that end before any gas is charged: debug, an empty or non UTF-8  *)
(* address, a recovery parameter that is no u8.                              *)
FreeImport(fn) ==
  /\ Permitted(fn)
  /\ \/ /\ fn \in {"debug", "secp256k1_recover_pubkey"}
        /\ UNCHANGED <<running, gasLeft, internally, depleted>>
     \/ /\ fn \in {"addr_validate", "addr_canonicalize"}
        /\ Answer(gasLeft, 0)
  /\ UNCHANGED <<blocked, lastCall, readonly, storage, externally>>

(* Storage, querier and process_gas_info need the write lock of the context, *)
(* whose read guard the thread already holds while the contract runs.        *)
WaitForWriteLock(fn) ==
  /\ Permitted(fn) /\ fn # "debug" /\ running
  /\ blocked' = TRUE
  /\ UNCHANGED <<running, lastCall, readonly, storage, gas>>

(* The results of the backend, api or crypto call behind an import.          *)
Results(fn) ==
  CASE fn \in AddrImports -> {"ok", "user_error", "backend_error"}
    [] fn \in CryptoImports -> {"ok", "error_code"}
    [] OTHER -> {"ok", "backend_error"}

Answered(fn, result) ==
  \/ result = "ok" /\ fn \in {"db_read", "db_next", "query_chain", "secp256k1_recover_pubkey"}
  \/ result = "user_error"

(* Crypto calls are charged by the VM; nothing is used externally.           *)
InfosOf(fn) ==
  {info \in GasInfos : fn \in CryptoImports => info.externally_used = 0}

(* The rest of an import: the call, its effect on the storage, then          *)
(* process_gas_info, then its result.                                        *)
CompleteImport(fn, info, result) ==
  /\ Permitted(fn) /\ fn # "debug" /\ ~running
  /\ storage' = IF fn \in Writes /\ result = "ok" THEN storage \cup {lastCall} ELSE storage
  /\ externally' = (externally + info.externally_used) % U64
  /\ \/ /\ Depletes(info)
        /\ gasLeft' = Left(info) /\ depleted' = TRUE /\ running' = FALSE
        /\ UNCHANGED internally
     \/ /\ ~Depletes(info) /\ ~Answered(fn, result)
        /\ gasLeft' = Left(info) /\ internally' = internally + info.cost
        /\ running' = FALSE
        /\ UNCHANGED depleted
     \/ ~Depletes(info) /\ Answered(fn, result) /\ Answer(Left(info), info.cost)
  /\ UNCHANGED <<blocked, lastCall, readonly>>

Import(fn) ==
  \/ WriteDenied(fn)
  \/ ArgumentError(fn)
  \/ FreeImport(fn)
  \/ WaitForWriteLock(fn)
  \/ \E info \in InfosOf(fn), result \in Results(fn) : CompleteImport(fn, info, result)

Next ==
  \/ Recycle
  \/ \E entry \in EntryPoints : Call(entry)
  \/ Execute
  \/ Return
  \/ \E fn \in Imports : Import(fn)

Spec == Init /\ [][Next]_vars

------------------------------------------------------------------------------
(* Properties.                                                               *)

TypeOK ==
  /\ running \in BOOLEAN /\ blocked \in BOOLEAN
  /\ lastCall \in EntryPoints \cup {"none"} /\ readonly \in BOOLEAN
  /\ storage \subseteq EntryPoints \cup {"none"}
  /\ gasLeft \in 0 .. GasLimit /\ externally \in 0 .. U64 - 1
  /\ internally \in 0 .. GasLimit /\ depleted \in BOOLEAN

(* As long as no call has run out of gas, create_gas_report says exactly     *)
(* what the contract and the VM used internally, and its three parts add up  *)
(* to the limit, over any number of calls and imports on the instance.       *)
GasReportIsExact ==
  ~depleted => /\ GasReport.used_internally = internally
               /\ GasReport.remaining + GasReport.used_externally
                    + GasReport.used_internally = GasLimit

(* Once a call on the instance has run out of gas, nothing that costs gas    *)
(* happens on it any more: neither instructions of the contract nor imports  *)
(* that report success (process_gas_info, wasmer's metering).                *)
NoWorkAfterDepletion ==
  [][depleted /\ depleted' => gasLeft' = 0 /\ internally' = internally]_vars

(* A query never writes to the storage, whichever entry points the instance  *)
(* was used for before, and neither does an instance on which no entry point *)
(* was called (set_storage_readonly, is_storage_readonly).                   *)
QueriesNeverWrite == storage \cap {"query", "none"} = {}

(* The thread that runs a contract never waits for a lock it holds itself:   *)
(* what WasmerInstance::call_function is written to avoid.                   *)
NoSelfDeadlock == ~blocked
==============================================================================
