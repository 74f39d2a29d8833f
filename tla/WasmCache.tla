------------------------------ MODULE WasmCache ------------------------------
(***************************************************************************)
(* The contract code cache of the VM (packages/vm/src/cache.rs and         *)
(* modules/), shared by the threads of a node.  Wasm code lives on disk    *)
(* under its checksum; compiled modules live on disk in one directory per  *)
(* module format version, in a size-limited memory cache and in a pinned   *)
(* memory cache.  CacheInner is behind one mutex, instantiation is behind  *)
(* another.  A node may stop between any two steps: memory is then lost,   *)
(* a file being written is left incomplete, and the node may come back as  *)
(* a software version that uses another module format.                     *)
(***************************************************************************)
EXTENDS Naturals, FiniteSets, Sequences, Functions

(***************************************************************************)
(* The size-limited memory cache of compiled modules.  A cache is the      *)
(* sequence of its entries, the most recently used first.  Its element is  *)
(* the module itself; a module's weight is the size its code compiles to.  *)
(***************************************************************************)
CONSTANTS Checksums,        \* the contract codes, named by their hash
          Size,             \* [Checksums -> Nat]: size of the compiled module
          MemoryCacheSize   \* CacheOptions::memory_cache_size; 0 disables the cache

ASSUME SizeAssumption == Size \in [Checksums -> Nat \ {0}]
ASSUME MemoryCacheSizeAssumption == MemoryCacheSize \in Nat

(* A compiled module: the code it came from, and whether the store it is     *)
(* attached to limits the linear memory of its instances.                    *)
Module == [code : Checksums, limited : BOOLEAN]

Has(cache, c) == \E i \in DOMAIN cache : cache[i].code = c

IndexOf(cache, c) == CHOOSE i \in DOMAIN cache : cache[i].code = c

Entry(cache, c) == cache[IndexOf(cache, c)]

(* CLruCache::get moves the entry it finds to the front.                     *)
Touch(cache, c) ==
  LET i == IndexOf(cache, c)
  IN  <<cache[i]>> \o SubSeq(cache, 1, i - 1) \o SubSeq(cache, i + 1, Len(cache))

CumulativeSize(cache) ==
  LET sum[n \in 0 .. Len(cache)] == IF n = 0 THEN 0 ELSE sum[n - 1] + Size[cache[n].code]
  IN  sum[Len(cache)]

(* clru counts the entries themselves as well as their weights.              *)
Fits(cache) == Len(cache) + CumulativeSize(cache) <= MemoryCacheSize

(* CLruCache::put_with_weight refuses what could never fit ...               *)
TooBig(m) == MemoryCacheSize # 0 /\ Size[m.code] >= MemoryCacheSize

(* ... and otherwise drops the least recently used entries, one by one,      *)
(* until there is room for the new one.                                      *)
RoomFor(others, m) ==
  Len(others) + CumulativeSize(others) + Size[m.code] < MemoryCacheSize

(* Fault variant: nothing is evicted.                                        *)
EvictedNothing(cache, m) == cache

Evicted(cache, m) ==
  LET roomy == {i \in 1 .. Len(cache) : RoomFor(SubSeq(cache, 1, i), m)}
  IN  SubSeq(cache, 1, Cardinality(roomy))

(* Fault variant: the module is not kept.                                    *)
StoredNothing(cache, m) == cache

(* InMemoryCache::store, for a module that is not TooBig.                    *)
Stored(cache, m) ==
  IF MemoryCacheSize = 0 THEN cache ELSE <<m>> \o Evicted(cache, m)

------------------------------------------------------------------------------

CONSTANTS Threads,
          Accepted,   \* the codes check_wasm and compile accept
          Versions,   \* module formats: MODULE_SERIALIZATION_VERSION + wasmer version
          Ops,        \* the operations the node uses
          Faults,     \* what may go wrong
          MaxStats,   \* bound on the lookups counted between two restarts
          NoThread

AllOps == {"save", "load", "get", "pin", "unpin"}

ASSUME CacheAssumption ==
  /\ Accepted \subseteq Checksums
  /\ Ops \subseteq AllOps
  /\ Faults \subseteq {"stop", "upgrade", "io"}
  /\ MaxStats \in Nat
  /\ NoThread \notin Threads

VARIABLES
  wasmFile,     \* state/wasm/<checksum>
  moduleFile,   \* cache/modules/<version>/<checksum>
  version,      \* the module format of the running node software
  pinned,       \* PinnedMemoryCache::modules
  memory,       \* InMemoryCache::modules
  stats,        \* Stats: where lookups were answered from
  inner,        \* the thread that holds the lock of CacheInner
  instLock,     \* the thread that holds the instantiation lock
  pc, req,      \* where each thread is, and in which call
  module,       \* the local variable `module` of the thread
  result,       \* how the thread's last call ended
  saved         \* history: codes for which a save_wasm has returned Ok

disk == <<wasmFile, moduleFile, version>>
caches == <<pinned, memory, stats>>
locks == <<inner, instLock>>
vars == <<disk, caches, locks, pc, req, module, result, saved>>

NoRequest == [op |-> "none", code |-> "none"]

NoModule == [code |-> "none", limited |-> FALSE]

Labels == {"idle", "waitInner", "locked", "writeWasm", "storeModule",
           "writeModule", "waitInstantiation", "instantiate"}

Results == {"pending", "ok", "rejected", "io", "notFound", "integrity",
            "deserialize", "compile", "tooBig", "instantiation", "lost"}

FreshStats == [pinned |-> 0, memory |-> 0, fs |-> 0, misses |-> 0]

Counted == stats.pinned + stats.memory + stats.fs + stats.misses

Op(t) == req[t].op

Code(t) == req[t].code

PinnedHas(c) == \E m \in pinned : m.code = c

PinnedEntry(c) == CHOOSE m \in pinned : m.code = c

(* Cache::new on a fresh base directory.                                     *)
Init ==
  /\ wasmFile = [c \in Checksums |-> "absent"]
  /\ moduleFile = [v \in Versions |-> [c \in Checksums |-> "absent"]]
  /\ version \in Versions
  /\ pinned = {} /\ memory = <<>> /\ stats = FreshStats
  /\ inner = NoThread /\ instLock = NoThread
  /\ pc = [t \in Threads |-> "idle"]
  /\ req = [t \in Threads |-> NoRequest]
  /\ module = [t \in Threads |-> NoModule]
  /\ result = [t \in Threads |-> "ok"]
  /\ saved = {}

------------------------------------------------------------------------------
(* Calls, locks and returns.                                                 *)

(* save_wasm checks and compiles before it takes the lock.  The module it    *)
(* compiles is attached to a store without a memory limit.                   *)
CallSave(t, c) ==
  /\ "save" \in Ops /\ pc[t] = "idle"
  /\ req' = [req EXCEPT ![t] = [op |-> "save", code |-> c]]
  /\ IF c \in Accepted
     THEN /\ pc' = [pc EXCEPT ![t] = "waitInner"]
          /\ module' = [module EXCEPT ![t] = [code |-> c, limited |-> FALSE]]
          /\ result' = [result EXCEPT ![t] = "pending"]
     ELSE /\ result' = [result EXCEPT ![t] = "rejected"]
          /\ UNCHANGED <<pc, module>>
  /\ UNCHANGED <<disk, caches, locks, saved>>

(* The other calls start by taking the lock.  Only get and pin count hits.   *)
Call(t, op, c) ==
  /\ op \in Ops \ {"save"} /\ pc[t] = "idle"
  /\ op \in {"get", "pin"} => Counted < MaxStats
  /\ req' = [req EXCEPT ![t] = [op |-> op, code |-> c]]
  /\ pc' = [pc EXCEPT ![t] = "waitInner"]
  /\ result' = [result EXCEPT ![t] = "pending"]
  /\ UNCHANGED <<disk, caches, locks, module, saved>>

(* Fault variant: the lock is not taken.                                     *)
LockInnerUnguarded(t) ==
  /\ pc[t] = "waitInner"
  /\ inner' = t
  /\ pc' = [pc EXCEPT ![t] = "locked"]
  /\ UNCHANGED <<disk, caches, instLock, req, module, result, saved>>

(* self.inner.lock().unwrap()                                                *)
LockInner(t) ==
  /\ pc[t] = "waitInner" /\ inner = NoThread
  /\ inner' = t
  /\ pc' = [pc EXCEPT ![t] = "locked"]
  /\ UNCHANGED <<disk, caches, instLock, req, module, result, saved>>

(* The call returns; the guard of CacheInner is dropped.                     *)
Return(t, r) ==
  /\ inner' = NoThread
  /\ pc' = [pc EXCEPT ![t] = "idle"]
  /\ module' = [module EXCEPT ![t] = NoModule]
  /\ result' = [result EXCEPT ![t] = r]
  /\ UNCHANGED <<instLock, req>>

(* get_module returns m: get_instance goes on without the lock.              *)
ReturnModule(t, m) ==
  /\ inner' = NoThread
  /\ pc' = [pc EXCEPT ![t] = "waitInstantiation"]
  /\ module' = [module EXCEPT ![t] = m]
  /\ UNCHANGED <<instLock, req, result>>

------------------------------------------------------------------------------
(* Disk.                                                                     *)

(* Fault variant: no integrity check.                                        *)
LoadWasmResultUnchecked(c) == IF wasmFile[c] = "absent" THEN "notFound" ELSE "ok"

(* load_wasm_with_path: the content is compared with the checksum.           *)
LoadWasmResult(c) ==
  CASE wasmFile[c] = "absent" -> "notFound"
    [] wasmFile[c] = "partial" -> "integrity"
    [] wasmFile[c] = "full" -> "ok"

(* FileSystemCache::load, in the directory of the running version.           *)
FsLoadResult(c) ==
  CASE moduleFile[version][c] = "absent" -> "none"
    [] moduleFile[version][c] = "partial" -> "deserialize"
    [] moduleFile[version][c] = "full" -> "some"

CompiledWithNoLimit(c) == [code |-> c, limited |-> FALSE]

(* The store of make_runtime_store(Some(instance_memory_limit)).             *)
LoadedFromFs(c) == [code |-> c, limited |-> TRUE]

(* compile(&wasm, Some(instance_memory_limit), &[])                          *)
CompiledWithLimit(c) == [code |-> c, limited |-> TRUE]

(* Fault variant: the file is truncated.                                     *)
OpenedAndTruncated(file) == "partial"

(* What opening the Wasm file for writing leaves: it is created if needed    *)
(* but not truncated, and what is written over it are the same bytes.        *)
OpenedForWriting(file) == IF file = "absent" THEN "partial" ELSE file

(* save_wasm_to_disk: open the file ...                                      *)
OpenWasm(t) ==
  /\ pc[t] = "locked" /\ Op(t) = "save"
  /\ wasmFile' = [wasmFile EXCEPT ![Code(t)] = OpenedForWriting(@)]
  /\ pc' = [pc EXCEPT ![t] = "writeWasm"]
  /\ UNCHANGED <<moduleFile, version, caches, locks, req, module, result, saved>>

(* ... and write_all.                                                        *)
WriteWasm(t) ==
  /\ pc[t] = "writeWasm"
  /\ wasmFile' = [wasmFile EXCEPT ![Code(t)] = "full"]
  /\ pc' = [pc EXCEPT ![t] = "storeModule"]
  /\ UNCHANGED <<moduleFile, version, caches, locks, req, module, result, saved>>

(* FileSystemCache::store: serialize_to_file truncates the file ...          *)
OpenModule(t) ==
  /\ pc[t] = "storeModule"
  /\ moduleFile' = [moduleFile EXCEPT ![version][Code(t)] = "partial"]
  /\ pc' = [pc EXCEPT ![t] = "writeModule"]
  /\ UNCHANGED <<wasmFile, version, caches, locks, req, module, result, saved>>

(* memory_cache.store(..)? and the return of get_module.                     *)
KeepInMemory(t, m) ==
  \/ /\ TooBig(m)
     /\ Return(t, "tooBig")
     /\ UNCHANGED memory
  \/ /\ ~TooBig(m)
     /\ memory' = Stored(memory, m)
     /\ ReturnModule(t, m)

(* ... and writes it.  The callers of store then finish their call.          *)
WriteModule(t) ==
  /\ pc[t] = "writeModule"
  /\ moduleFile' = [moduleFile EXCEPT ![version][Code(t)] = "full"]
  /\ \/ /\ Op(t) = "save"
        /\ saved' = saved \cup {Code(t)}
        /\ Return(t, "ok")
        /\ UNCHANGED <<pinned, memory>>
     \/ /\ Op(t) = "pin"
        /\ pinned' = pinned \cup {module[t]}
        /\ Return(t, "ok")
        /\ UNCHANGED <<memory, saved>>
     \/ /\ Op(t) = "get"
        /\ KeepInMemory(t, module[t])
        /\ UNCHANGED <<pinned, saved>>
  /\ UNCHANGED <<wasmFile, version, stats>>

(* A file operation fails: its error ends the call.  A file that was being   *)
(* written stays as it is.                                                   *)
TouchesDisk(t) ==
  \/ pc[t] \in {"writeWasm", "storeModule", "writeModule"}
  \/ pc[t] = "locked" /\ Op(t) \in {"save", "load"}
  \/ pc[t] = "locked" /\ Op(t) \in {"get", "pin"}
        /\ ~PinnedHas(Code(t)) /\ ~Has(memory, Code(t))

(* Fault variant: a failing save removes the file it was writing.            *)
IoErrorCleansUp(t) ==
  /\ "io" \in Faults
  /\ TouchesDisk(t)
  /\ wasmFile' = IF pc[t] = "writeWasm" THEN [wasmFile EXCEPT ![Code(t)] = "absent"]
                 ELSE wasmFile
  /\ Return(t, "io")
  /\ UNCHANGED <<moduleFile, version, caches, saved>>

IoError(t) ==
  /\ "io" \in Faults
  /\ TouchesDisk(t)
  /\ Return(t, "io")
  /\ UNCHANGED <<disk, caches, saved>>

------------------------------------------------------------------------------
(* Lookups.                                                                  *)

Count(field) == stats' = [stats EXCEPT ![field] = @ + 1]

(* get_module: pinned cache, memory cache, file system cache, Wasm code.     *)
GetFromPinned(t) ==
  /\ PinnedHas(Code(t))
  /\ Count("pinned")
  /\ ReturnModule(t, PinnedEntry(Code(t)))
  /\ UNCHANGED memory

GetFromMemory(t) ==
  /\ ~PinnedHas(Code(t)) /\ Has(memory, Code(t))
  /\ Count("memory")
  /\ memory' = Touch(memory, Code(t))
  /\ ReturnModule(t, Entry(memory, Code(t)))

GetFromFs(t) ==
  /\ ~PinnedHas(Code(t)) /\ ~Has(memory, Code(t))
  /\ FsLoadResult(Code(t)) = "some"
  /\ Count("fs")
  /\ KeepInMemory(t, LoadedFromFs(Code(t)))

GetFromWasm(t) ==
  /\ ~PinnedHas(Code(t)) /\ ~Has(memory, Code(t))
  /\ FsLoadResult(Code(t)) = "none"
  /\ LoadWasmResult(Code(t)) = "ok"
  /\ Count("misses")
  /\ module' = [module EXCEPT ![t] = CompiledWithLimit(Code(t))]
  /\ pc' = [pc EXCEPT ![t] = "storeModule"]
  /\ UNCHANGED <<memory, locks, req, result>>

(* Fault variant: "not in the file system cache" is the answer.              *)
LookupErrorFromFs(t) ==
  /\ ~PinnedHas(Code(t)) /\ ~Has(memory, Code(t))
  /\ FsLoadResult(Code(t)) # "some"
  /\ Return(t, FsLoadResult(Code(t)))
  /\ UNCHANGED <<memory, stats>>

(* get_module and pin give up on a module file they cannot deserialize, on a *)
(* missing or damaged Wasm file, and on code that the compiler of another    *)
(* software version than the one that saved it refuses.  By then get_module  *)
(* has counted a miss.                                                       *)
LookupError(t) ==
  /\ ~PinnedHas(Code(t)) /\ ~Has(memory, Code(t))
  /\ \/ /\ FsLoadResult(Code(t)) = "deserialize"
        /\ Return(t, "deserialize")
        /\ UNCHANGED stats
     \/ /\ FsLoadResult(Code(t)) = "none"
        /\ LoadWasmResult(Code(t)) # "ok"
        /\ Return(t, LoadWasmResult(Code(t)))
        /\ UNCHANGED stats
     \/ /\ FsLoadResult(Code(t)) = "none"
        /\ LoadWasmResult(Code(t)) = "ok"
        /\ "upgrade" \in Faults
        /\ Return(t, "compile")
        /\ IF Op(t) = "get" THEN Count("misses") ELSE UNCHANGED stats
  /\ UNCHANGED memory

GetModule(t) ==
  /\ pc[t] = "locked" /\ Op(t) = "get"
  /\ \/ GetFromPinned(t)
     \/ GetFromMemory(t)
     \/ GetFromFs(t)
     \/ GetFromWasm(t)
     \/ LookupError(t)
  /\ UNCHANGED <<disk, pinned, saved>>

(* pin: the module is copied from where it is found.  A recompilation is not *)
(* counted as a miss and does not go to the memory cache.                    *)
PinPinned(t) ==
  /\ PinnedHas(Code(t))
  /\ Return(t, "ok")
  /\ UNCHANGED <<pinned, memory, stats>>

PinFromMemory(t) ==
  /\ ~PinnedHas(Code(t)) /\ Has(memory, Code(t))
  /\ Count("memory")
  /\ memory' = Touch(memory, Code(t))
  /\ pinned' = pinned \cup {Entry(memory, Code(t))}
  /\ Return(t, "ok")

PinFromFs(t) ==
  /\ ~PinnedHas(Code(t)) /\ ~Has(memory, Code(t))
  /\ FsLoadResult(Code(t)) = "some"
  /\ Count("fs")
  /\ pinned' = pinned \cup {LoadedFromFs(Code(t))}
  /\ Return(t, "ok")
  /\ UNCHANGED memory

PinFromWasm(t) ==
  /\ ~PinnedHas(Code(t)) /\ ~Has(memory, Code(t))
  /\ FsLoadResult(Code(t)) = "none"
  /\ LoadWasmResult(Code(t)) = "ok"
  /\ module' = [module EXCEPT ![t] = CompiledWithLimit(Code(t))]
  /\ pc' = [pc EXCEPT ![t] = "storeModule"]
  /\ UNCHANGED <<caches, locks, req, result>>

Pin(t) ==
  /\ pc[t] = "locked" /\ Op(t) = "pin"
  /\ \/ PinPinned(t)
     \/ PinFromMemory(t)
     \/ PinFromFs(t)
     \/ PinFromWasm(t)
     \/ LookupError(t) /\ UNCHANGED pinned
  /\ UNCHANGED <<disk, saved>>

Unpin(t) ==
  /\ pc[t] = "locked" /\ Op(t) = "unpin"
  /\ pinned' = {m \in pinned : m.code # Code(t)}
  /\ Return(t, "ok")
  /\ UNCHANGED <<disk, memory, stats, saved>>

(* load_wasm, and analyze, which works on what load_wasm returns.            *)
LoadWasm(t) ==
  /\ pc[t] = "locked" /\ Op(t) = "load"
  /\ Return(t, LoadWasmResult(Code(t)))
  /\ UNCHANGED <<disk, caches, saved>>

------------------------------------------------------------------------------
(* get_instance: Instance::from_module under the instantiation lock.         *)
LockInstantiation(t) ==
  /\ pc[t] = "waitInstantiation" /\ instLock = NoThread
  /\ instLock' = t
  /\ pc' = [pc EXCEPT ![t] = "instantiate"]
  /\ UNCHANGED <<disk, caches, inner, req, module, result, saved>>

(* Fault variant: the lock is kept when the instantiation fails.             *)
InstantiateKeepsLock(t) ==
  /\ pc[t] = "instantiate"
  /\ pc' = [pc EXCEPT ![t] = "idle"]
  /\ module' = [module EXCEPT ![t] = NoModule]
  /\ \E r \in {"ok", "instantiation"} :
       /\ result' = [result EXCEPT ![t] = r]
       /\ instLock' = IF r = "ok" THEN NoThread ELSE instLock
  /\ UNCHANGED <<disk, caches, inner, req, saved>>

(* WasmerInstance::new may fail, for instance on the memory limit.           *)
Instantiate(t) ==
  /\ pc[t] = "instantiate"
  /\ instLock' = NoThread
  /\ pc' = [pc EXCEPT ![t] = "idle"]
  /\ module' = [module EXCEPT ![t] = NoModule]
  /\ \E r \in {"ok", "instantiation"} : result' = [result EXCEPT ![t] = r]
  /\ UNCHANGED <<disk, caches, inner, req, saved>>

------------------------------------------------------------------------------
(* The node stops at any point and starts again on the same base directory,  *)
(* possibly as another software version.                                     *)
Restart ==
  /\ "stop" \in Faults
  /\ version' \in IF "upgrade" \in Faults THEN Versions ELSE {version}
  /\ pinned' = {} /\ memory' = <<>> /\ stats' = FreshStats
  /\ inner' = NoThread /\ instLock' = NoThread
  /\ pc' = [t \in Threads |-> "idle"]
  /\ module' = [t \in Threads |-> NoModule]
  /\ result' = [t \in Threads |-> IF pc[t] = "idle" THEN result[t] ELSE "lost"]
  /\ UNCHANGED <<wasmFile, moduleFile, req, saved>>

(* The steps of a call that has started.                                     *)
Step(t) ==
  \/ LockInner(t)
  \/ OpenWasm(t) \/ WriteWasm(t) \/ OpenModule(t) \/ WriteModule(t)
  \/ IoError(t)
  \/ GetModule(t) \/ Pin(t) \/ Unpin(t) \/ LoadWasm(t)
  \/ LockInstantiation(t) \/ Instantiate(t)

Next ==
  \/ \E t \in Threads, c \in Checksums : CallSave(t, c)
  \/ \E t \in Threads, c \in Checksums, op \in AllOps : Call(t, op, c)
  \/ \E t \in Threads : Step(t)
  \/ Restart

Spec == Init /\ [][Next]_vars

(* The operating system keeps running a thread that can take a step.         *)
FairSpec == Spec /\ \A t \in Threads : WF_vars(Step(t))

------------------------------------------------------------------------------
(* Properties.                                                               *)

FileState == {"absent", "partial", "full"}

HasInner == {"locked", "writeWasm", "storeModule", "writeModule"}

(* The values every variable of the cache can have.                          *)
TypeOK ==
  /\ wasmFile \in [Checksums -> FileState]
  /\ moduleFile \in [Versions -> [Checksums -> FileState]]
  /\ version \in Versions
  /\ pinned \subseteq Module
  /\ memory \in Seq(Module)
  /\ stats \in [pinned : Nat, memory : Nat, fs : Nat, misses : Nat]
  /\ inner \in Threads \cup {NoThread}
  /\ instLock \in Threads \cup {NoThread}
  /\ pc \in [Threads -> Labels]
  /\ req \in [Threads -> [op : AllOps, code : Checksums] \cup {NoRequest}]
  /\ module \in [Threads -> Module \cup {NoModule}]
  /\ result \in [Threads -> Results]
  /\ saved \subseteq Checksums

(* A code for which save_wasm has returned Ok is on disk, complete, for good:*)
(* no stop, no failed write and no later save of the same code (which writes *)
(* over the file) loses it.                                                  *)
SavedWasmSurvives == \A c \in saved : wasmFile[c] = "full"

(* Every compiled module, in any version's directory, in a memory cache or   *)
(* in the hands of get_instance, belongs to accepted code that is on disk:   *)
(* save_wasm writes the code before the module, so that a stop in between    *)
(* never leaves a module that could not be rebuilt after an upgrade.         *)
ModulesHaveCode ==
  \A c \in Checksums :
    (\/ \E v \in Versions : moduleFile[v][c] # "absent"
     \/ PinnedHas(c) \/ Has(memory, c)
     \/ \E t \in Threads : pc[t] \in {"waitInstantiation", "instantiate"} /\ Code(t) = c)
    => wasmFile[c] = "full" /\ c \in Accepted

(* What is instantiated is the module of the requested code, attached to a   *)
(* store with the memory limit, although save_wasm compiles without one and  *)
(* the module may be evicted or unpinned while get_instance waits.           *)
InstancesAreLimited ==
  /\ \A t \in Threads : pc[t] \in {"waitInstantiation", "instantiate"}
        => module[t] = [code |-> Code(t), limited |-> TRUE]
  /\ \A m \in pinned \cup Range(memory) : m.limited

(* load_wasm, analyze, get_instance and pin never report code as missing or  *)
(* damaged once a save_wasm of it has returned Ok, whatever stops, upgrades  *)
(* and failed saves have happened since.                                     *)
SavedCodeIsFound ==
  [][\A t \in Threads :
       pc[t] # "idle" /\ result'[t] \in {"notFound", "integrity"}
         => Code(t) \notin saved]_vars

(* The memory cache never exceeds its configured size and holds a code once; *)
(* with size 0 it holds nothing.                                             *)
MemoryCacheBounded ==
  /\ Fits(memory)
  /\ \A i, j \in DOMAIN memory : memory[i].code = memory[j].code => i = j

(* As long as no file operation fails and the node does not stop, no call    *)
(* meets a file another thread has only half written: the lock is held from  *)
(* opening a file to the end of its write.                                   *)
NoTornReads ==
  Faults = {} => \A t \in Threads : result[t] \notin {"integrity", "deserialize"}

(* The assertion at the end of examples/multi_threaded_cache.rs, for any     *)
(* calls: when nothing is unpinned or evicted, each module is read from the  *)
(* file system at most once per cache it can be kept in, however many        *)
(* threads ask for it.                                                       *)
ReadFromDiskOnce == stats.fs <= Len(memory) + Cardinality(pinned)

(* Every thread that takes one of the locks gives it back: no call waits for *)
(* the other lock, or for another thread, while it holds one.                *)
LocksAreReleased ==
  \A t \in Threads :
    /\ (inner = t) ~> (inner # t)
    /\ (instLock = t) ~> (instLock # t)

(* The comments on get_module and pin: a lookup of code that was saved is    *)
(* answered from the memory cache, the file system cache or the Wasm code;   *)
(* only a file operation that fails makes it fail.                           *)
SavedCodeIsUsable ==
  [][\A t \in Threads :
       pc[t] \in HasInner /\ Op(t) \in {"get", "pin"} /\ Code(t) \in saved
         => result'[t] \in {"pending", "ok", "io", "lost"}]_vars

------------------------------------------------------------------------------
(* The cache implements the abstract store.                                  *)

StoredCodes == {c \in Checksums : wasmFile[c] = "full"}

CurrentCall == [t \in Threads |-> IF pc[t] = "idle" THEN NoRequest ELSE req[t]]

Store == INSTANCE ContractStore
           WITH stored <- StoredCodes, call <- CurrentCall, answer <- result

(* Every behaviour of the cache, stops, upgrades and failing file operations *)
(* included, is one of ContractStore: what save_wasm has stored stays, and   *)
(* no answer of load_wasm, pin or get_instance contradicts the store.        *)
ImplementsStore == Store!StoreSpec
==============================================================================
