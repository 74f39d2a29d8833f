----------------------------- MODULE InstanceProofs ----------------------------
(***************************************************************************)
(* The two sides of an instance.  On the side of the VM the gas accounting *)
(* and the storage flag, for every gas limit, every gas information a      *)
(* backend returns and every set of imports.  On the side of the contract  *)
(* the ownership of regions between the VM and the contract, for any size  *)
(* of the memory, any entry points, any storage and any number of calls.   *)
(***************************************************************************)
EXTENDS VmInstance, Guest, Foundations

(* Sequences, for the steps that Zenon proves.                               *)
LEMMA PartOfSequence ==
  ASSUME NEW S, NEW s, NEW m \in Int, NEW n \in Int, \A i \in m .. n : s[i] \in S
  PROVE  /\ SubSeq(s, m, n) \in Seq(S)
         /\ Len(SubSeq(s, m, n)) = IF m <= n THEN n - m + 1 ELSE 0
         /\ \A i \in 1 .. n - m + 1 : SubSeq(s, m, n)[i] = s[m + i - 1]
OBVIOUS

(* The gas accounted for is the limit until a call runs out of gas; then     *)
(* there is no gas left.                                                     *)
GasInv ==
  /\ internally + gasLeft <= GasLimit
  /\ ~depleted => gasLeft + externally + internally = GasLimit
  /\ depleted => gasLeft = 0

(* Only an entry point that may write has the flag cleared.                  *)
FlagInv ==
  /\ ~readonly => lastCall = "execute"
  /\ QueriesNeverWrite

InstanceInv == TypeOK /\ GasInv /\ FlagInv

Info == [externally_used : Nat, cost : Nat]

(* A sum below the modulus is not wrapped.                                   *)
LEMMA SmallMod == \A n \in Nat : \A a \in Nat : a < n => a % n = a
  OBVIOUS

(* Wrapping addition stays in range.                                         *)
LEMMA ModRange == \A n \in Nat : \A a \in Nat : n > 0 => a % n \in 0 .. n - 1
  OBVIOUS

(* What process_gas_info leaves: everything is subtracted when it reports no *)
(* depletion, and nothing is left when it does.                              *)
LEMMA LeftProperties ==
  ASSUME TypeOK, NEW info \in GasInfos
  PROVE  /\ info \in Info
         /\ Left(info) \in 0 .. gasLeft
         /\ Depletes(info) => Left(info) = 0
         /\ ~Depletes(info) =>
              /\ info.externally_used + info.cost <= gasLeft
              /\ Left(info) = gasLeft - info.externally_used - info.cost
<1>1. info \in Info /\ info.externally_used \in Nat /\ info.cost \in Nat
  BY Zenon, InstanceAssumption DEF Info
<1>2. (info.externally_used + info.cost) % U64 = info.externally_used + info.cost
  BY <1>1, InstanceAssumption, SmallMod
<1>3. gasLeft \in Nat
  BY InstanceAssumption DEF TypeOK
<1> QED
  BY <1>1, <1>2, <1>3 DEF Left, Depletes, SaturatingSub

(* A new instance.                                                           *)
LEMMA InitInv == Init => InstanceInv
<1> SUFFICES ASSUME Init PROVE InstanceInv
  BY Zenon
<1>1. GasInv
  BY InstanceAssumption DEF Init, GasInv
<1>2. /\ gasLeft \in 0 .. GasLimit /\ externally \in 0 .. U64 - 1
      /\ internally \in 0 .. GasLimit
  BY InstanceAssumption DEF Init
<1>3. TypeOK
  BY Zenon, <1>2 DEF Init, TypeOK, EntryPoints
<1>4. FlagInv
  BY Zenon DEF Init, FlagInv, QueriesNeverWrite
<1> QED
  BY Zenon, <1>1, <1>3, <1>4 DEF InstanceInv

(* Instructions of the contract, and running out of gas, keep the account.   *)
LEMMA BurnStep ==
  ASSUME TypeOK, GasInv, (\E g \in 0 .. gasLeft : Burn(g)) \/ RunOut
  PROVE  /\ GasInv'
         /\ gasLeft' \in 0 .. GasLimit /\ internally' \in 0 .. GasLimit
         /\ externally' = externally /\ depleted' \in BOOLEAN
         /\ depleted /\ depleted' => gasLeft' = 0 /\ internally' = internally
<1>1. gasLeft \in Nat /\ internally \in Nat /\ externally \in Nat
  BY InstanceAssumption DEF TypeOK
<1>2. CASE RunOut
  BY <1>1, <1>2, InstanceAssumption DEF RunOut, GasInv, TypeOK
<1>3. CASE \E g \in 0 .. gasLeft : Burn(g)
  <2>1. PICK g \in 0 .. gasLeft : Burn(g)
    BY Zenon, <1>3
  <2> QED
    BY <1>1, <2>1, InstanceAssumption DEF Burn, GasInv, TypeOK
<1> QED
  BY Zenon, <1>2, <1>3

(* The answer of an import costs gas that is left after it was charged.      *)
LEMMA AnswerStep ==
  ASSUME TypeOK, GasInv, NEW left \in Nat, NEW spent \in Nat, NEW ext \in Nat,
         left + spent + ext = gasLeft, Answer(left, spent),
         externally' = (externally + ext) % U64
  PROVE  /\ GasInv'
         /\ gasLeft' \in 0 .. GasLimit /\ internally' \in 0 .. GasLimit
         /\ externally' \in 0 .. U64 - 1
         /\ depleted' \in BOOLEAN /\ running' \in BOOLEAN
         /\ depleted /\ depleted' => gasLeft' = 0 /\ internally' = internally
<1>1. gasLeft \in Nat /\ internally \in Nat /\ externally \in Nat
  BY InstanceAssumption DEF TypeOK
<1>2. externally' \in 0 .. U64 - 1
  BY <1>1, ModRange, InstanceAssumption
<1>3. ~depleted => externally' = externally + ext
  <2>1. SUFFICES ASSUME ~depleted PROVE externally' = externally + ext
    BY Zenon
  <2>2. externally + ext \in Nat /\ externally + ext < U64
    BY <1>1, <2>1, InstanceAssumption DEF GasInv
  <2> QED
    BY Zenon, <2>2, SmallMod, InstanceAssumption
<1>4. CASE /\ gasLeft' = 0 /\ depleted' = TRUE /\ running' = FALSE
           /\ UNCHANGED internally
  <2>1. GasInv'
    BY <1>1, <1>4 DEF GasInv, TypeOK
  <2>2. gasLeft' \in 0 .. GasLimit /\ internally' \in 0 .. GasLimit
    BY <1>4, InstanceAssumption DEF TypeOK
  <2>3. depleted' \in BOOLEAN /\ running' \in BOOLEAN
    BY Zenon, <1>4
  <2> QED
    BY Zenon, <1>2, <1>4, <2>1, <2>2, <2>3
<1>5. CASE /\ \E g \in 0 .. left : gasLeft' = left - g /\ internally' = internally + spent + g
           /\ running' \in {running, FALSE}
           /\ UNCHANGED depleted
  <2>1. PICK g \in 0 .. left : gasLeft' = left - g /\ internally' = internally + spent + g
    BY Zenon, <1>5
  <2>2. depleted' \in BOOLEAN /\ running' \in BOOLEAN
    BY Zenon, <1>5 DEF TypeOK
  <2>3. depleted' = depleted
    BY Zenon, <1>5
  <2>4. GasInv' /\ gasLeft' \in 0 .. GasLimit /\ internally' \in 0 .. GasLimit
    BY <1>1, <1>3, <2>1, <2>3, InstanceAssumption DEF GasInv
  <2>5. depleted => gasLeft' = 0 /\ internally' = internally
    BY <1>1, <2>1 DEF GasInv
  <2> QED
    BY Zenon, <1>2, <2>2, <2>4, <2>5
<1> QED
  BY Zenon, <1>4, <1>5 DEF Answer

(* A step that leaves the gas alone.                                         *)
LEMMA FreeStep ==
  ASSUME TypeOK, GasInv, UNCHANGED gas
  PROVE  /\ GasInv'
         /\ gasLeft' \in 0 .. GasLimit /\ internally' \in 0 .. GasLimit
         /\ externally' \in 0 .. U64 - 1 /\ depleted' \in BOOLEAN
         /\ depleted /\ depleted' => gasLeft' = 0 /\ internally' = internally
  BY Zenon DEF gas, TypeOK, GasInv

(* An import that is carried out: the gas part of its step.                  *)
LEMMA CompleteStep ==
  ASSUME TypeOK, GasInv, NEW fn, NEW info \in GasInfos, NEW result,
         CompleteImport(fn, info, result)
  PROVE  /\ GasInv'
         /\ gasLeft' \in 0 .. GasLimit /\ internally' \in 0 .. GasLimit
         /\ externally' \in 0 .. U64 - 1
         /\ depleted' \in BOOLEAN /\ running' \in BOOLEAN
         /\ depleted /\ depleted' => gasLeft' = 0 /\ internally' = internally
<1>1. gasLeft \in Nat /\ internally \in Nat /\ externally \in Nat
  BY InstanceAssumption DEF TypeOK
<1>2. info.externally_used \in Nat /\ info.cost \in Nat
  BY Zenon, InstanceAssumption
<1>3. externally' = (externally + info.externally_used) % U64
  BY Zenon DEF CompleteImport
<1>4. externally' \in 0 .. U64 - 1
  BY <1>1, <1>2, <1>3, ModRange, InstanceAssumption
<1>5. PICK left \in Nat : left = Left(info)
  BY <1>1, LeftProperties
<1>6. CASE /\ Depletes(info)
           /\ gasLeft' = Left(info) /\ depleted' = TRUE /\ running' = FALSE
           /\ UNCHANGED internally
  <2>1. gasLeft' = 0
    BY Zenon, <1>6, LeftProperties
  <2>2. GasInv'
    BY <1>1, <1>6, <2>1 DEF GasInv, TypeOK
  <2>3. gasLeft' \in 0 .. GasLimit /\ internally' \in 0 .. GasLimit
    BY <1>6, <2>1, InstanceAssumption DEF TypeOK
  <2>4. depleted' \in BOOLEAN /\ running' \in BOOLEAN
    BY Zenon, <1>6
  <2> QED
    BY Zenon, <1>4, <1>6, <2>1, <2>2, <2>3, <2>4
<1>7. CASE ~Depletes(info) /\ Answer(Left(info), info.cost)
  <2>1. left + info.cost + info.externally_used = gasLeft
    BY <1>1, <1>2, <1>5, <1>7, LeftProperties
  <2>2. Answer(left, info.cost)
    BY Zenon, <1>5, <1>7
  <2> QED
    BY Zenon, <1>2, <1>3, <2>1, <2>2, AnswerStep
<1>8. CASE /\ ~Depletes(info)
           /\ gasLeft' = Left(info) /\ internally' = internally + info.cost
           /\ running' = FALSE
           /\ UNCHANGED depleted
  <2>1. left + info.cost + info.externally_used = gasLeft
    BY <1>1, <1>2, <1>5, <1>8, LeftProperties
  <2>2. \E g \in 0 .. left : gasLeft' = left - g /\ internally' = internally + info.cost + g
    <3>1. gasLeft' = left - 0 /\ internally' = internally + info.cost + 0
      BY <1>1, <1>2, <1>5, <1>8
    <3>2. 0 \in 0 .. left
      BY <1>5
    <3> QED
      BY Zenon, <3>1, <3>2
  <2>3. Answer(left, info.cost)
    BY Zenon, <1>8, <2>2 DEF Answer
  <2> QED
    BY Zenon, <1>2, <1>3, <2>1, <2>3, AnswerStep
<1> QED
  BY Zenon, <1>6, <1>7, <1>8 DEF CompleteImport

(* Every step keeps the account, the types of the gas counters and, once gas *)
(* has run out, does no more work.                                           *)
LEMMA GasStep ==
  ASSUME TypeOK, GasInv, Next
  PROVE  /\ GasInv'
         /\ gasLeft' \in 0 .. GasLimit /\ internally' \in 0 .. GasLimit
         /\ externally' \in 0 .. U64 - 1 /\ depleted' \in BOOLEAN
         /\ depleted /\ depleted' => gasLeft' = 0 /\ internally' = internally
<1>1. CASE Recycle
  <2>1. GasInv' /\ gasLeft' \in 0 .. GasLimit /\ internally' \in 0 .. GasLimit
        /\ externally' \in 0 .. U64 - 1
    BY <1>1, InstanceAssumption DEF Recycle, GasInv
  <2>2. ~depleted' /\ depleted' \in BOOLEAN
    BY Zenon, <1>1 DEF Recycle
  <2> QED
    BY Zenon, <2>1, <2>2
<1>2. CASE (\E g \in 0 .. gasLeft : Burn(g)) \/ RunOut
  <2>1. externally \in 0 .. U64 - 1
    BY Zenon DEF TypeOK
  <2> QED
    BY Zenon, <1>2, <2>1, BurnStep
<1>3. ASSUME NEW export \in EntryPoints, Call(export)
      PROVE  (\E g \in 0 .. gasLeft : Burn(g)) \/ RunOut
  BY Zenon, <1>3 DEF Call
<1>4. Execute \/ Return => (\E g \in 0 .. gasLeft : Burn(g)) \/ RunOut
  <2>1. ASSUME NEW g \in 1 .. gasLeft, Burn(g)
        PROVE  \E h \in 0 .. gasLeft : Burn(h)
    <3>1. g \in 0 .. gasLeft
      BY InstanceAssumption DEF TypeOK
    <3> QED
      BY Zenon, <2>1, <3>1
  <2> QED
    BY Zenon, <2>1 DEF Execute, Return
<1>5. ASSUME NEW fn \in Imports, Import(fn)
      PROVE  /\ GasInv'
             /\ gasLeft' \in 0 .. GasLimit /\ internally' \in 0 .. GasLimit
             /\ externally' \in 0 .. U64 - 1 /\ depleted' \in BOOLEAN
             /\ depleted /\ depleted' => gasLeft' = 0 /\ internally' = internally
  <2>1. CASE WriteDenied(fn) \/ ArgumentError(fn) \/ WaitForWriteLock(fn)
    BY Zenon, <2>1, FreeStep DEF WriteDenied, ArgumentError, WaitForWriteLock
  <2>2. CASE FreeImport(fn)
    <3>1. CASE UNCHANGED <<running, gasLeft, internally, depleted>>
      BY Zenon, <2>2, <3>1, FreeStep DEF FreeImport, gas
    <3>2. CASE Answer(gasLeft, 0)
      <4>1. gasLeft \in Nat /\ externally \in Nat /\ externally < U64
        BY InstanceAssumption DEF TypeOK
      <4>2. PICK left \in Nat : left = gasLeft
        BY Zenon, <4>1
      <4>3. externally' = (externally + 0) % U64
        <5>1. externally + 0 = externally /\ externally' = externally
          BY <2>2, <4>1 DEF FreeImport
        <5> QED
          BY Zenon, <4>1, <5>1, SmallMod, InstanceAssumption
      <4>4. left + 0 + 0 = gasLeft /\ Answer(left, 0)
        BY <3>2, <4>1, <4>2
      <4> QED
        BY Zenon, <4>3, <4>4, AnswerStep
    <3> QED
      BY Zenon, <2>2, <3>1, <3>2 DEF FreeImport
  <2>3. ASSUME NEW info \in InfosOf(fn), NEW result \in Results(fn),
               CompleteImport(fn, info, result)
        PROVE  /\ GasInv'
               /\ gasLeft' \in 0 .. GasLimit /\ internally' \in 0 .. GasLimit
               /\ externally' \in 0 .. U64 - 1 /\ depleted' \in BOOLEAN
               /\ depleted /\ depleted' => gasLeft' = 0 /\ internally' = internally
    <3>1. info \in GasInfos
      BY Zenon DEF InfosOf
    <3> QED
      BY Zenon, <2>3, <3>1, CompleteStep
  <2> QED
    BY Zenon, <1>5, <2>1, <2>2, <2>3 DEF Import
<1> QED
  BY Zenon, <1>1, <1>2, <1>3, <1>4, <1>5 DEF Next

(* Every step keeps the rest of the types, and the flag guards the storage.  *)
LEMMA FlagStep ==
  ASSUME TypeOK, FlagInv, Next
  PROVE  /\ FlagInv'
         /\ running' \in BOOLEAN /\ blocked' \in BOOLEAN /\ readonly' \in BOOLEAN
         /\ lastCall' \in EntryPoints \cup {"none"}
         /\ storage' \subseteq EntryPoints \cup {"none"}
<1> USE DEF TypeOK, FlagInv, QueriesNeverWrite
<1>1. CASE Recycle
  BY Zenon, <1>1 DEF Recycle, lock
<1>2. ASSUME NEW export \in EntryPoints, Call(export)
      PROVE  /\ storage' = storage /\ blocked' = blocked
             /\ lastCall' = export /\ readonly' = (export = "query")
             /\ running' \in BOOLEAN
  BY Zenon, <1>2 DEF Call
<1>3. CASE \E export \in EntryPoints : Call(export)
  BY Zenon, <1>2, <1>3 DEF EntryPoints
<1>4. CASE Execute \/ Return
  BY Zenon, <1>4 DEF Execute, Return
<1>5. ASSUME NEW fn \in Imports, Import(fn)
      PROVE  /\ lastCall' = lastCall /\ readonly' = readonly
             /\ running' \in BOOLEAN /\ blocked' \in BOOLEAN
             /\ storage' = storage \/ (~readonly /\ storage' = storage \cup {lastCall})
  <2>1. CASE WriteDenied(fn) \/ ArgumentError(fn) \/ WaitForWriteLock(fn)
    BY Zenon, <2>1 DEF WriteDenied, ArgumentError, WaitForWriteLock
  <2>2. CASE FreeImport(fn)
    BY Zenon, <2>2 DEF FreeImport, Answer
  <2>3. ASSUME NEW info \in InfosOf(fn), NEW result \in Results(fn),
               CompleteImport(fn, info, result)
        PROVE  /\ lastCall' = lastCall /\ readonly' = readonly
               /\ running' \in BOOLEAN /\ blocked' \in BOOLEAN
               /\ storage' = storage \/ (~readonly /\ storage' = storage \cup {lastCall})
    <3>1. running' \in BOOLEAN
      BY Zenon, <2>3 DEF CompleteImport, Answer
    <3>2. lastCall' = lastCall /\ readonly' = readonly /\ blocked' = blocked
      BY Zenon, <2>3 DEF CompleteImport
    <3>3. storage' = storage \/ (~readonly /\ storage' = storage \cup {lastCall})
      BY Zenon, <2>3 DEF CompleteImport, Permitted
    <3> QED
      BY Zenon, <3>1, <3>2, <3>3
  <2> QED
    BY Zenon, <1>5, <2>1, <2>2, <2>3 DEF Import
<1>6. CASE \E fn \in Imports : Import(fn)
  BY Zenon, <1>5, <1>6
<1> QED
  BY Zenon, <1>1, <1>3, <1>4, <1>6 DEF Next

(* The inductive invariant of an instance.                                   *)
THEOREM InstanceInvariant == Spec => []InstanceInv
<1>1. InstanceInv /\ [Next]_vars => InstanceInv'
  <2> SUFFICES ASSUME InstanceInv, [Next]_vars PROVE InstanceInv'
    BY Zenon
  <2>1. CASE Next
    <3>1. GasInv'
      BY Zenon, <2>1, GasStep DEF InstanceInv
    <3>2. TypeOK'
      BY Zenon, <2>1, GasStep, FlagStep DEF InstanceInv, TypeOK
    <3>3. FlagInv'
      BY Zenon, <2>1, FlagStep DEF InstanceInv
    <3> QED
      BY Zenon, <3>1, <3>2, <3>3 DEF InstanceInv
  <2>2. CASE UNCHANGED vars
    BY Zenon, <2>2 DEF vars, lock, gas, InstanceInv, TypeOK, GasInv, FlagInv, QueriesNeverWrite
  <2> QED
    BY Zenon, <2>1, <2>2
<1> QED
  BY <1>1, InitInv, PTL DEF Spec

(* The state of an instance is well typed.                                   *)
THEOREM InstanceTypeCorrect == Spec => []TypeOK
  BY InstanceInvariant, PTL DEF InstanceInv

(* create_gas_report is exact until a call runs out of gas, for every limit  *)
(* and every gas information the backend returns.                            *)
THEOREM GasReportsAreExact == Spec => []GasReportIsExact
<1>1. InstanceInv => GasReportIsExact
  <2> SUFFICES ASSUME InstanceInv, ~depleted
               PROVE  /\ GasReport.used_internally = internally
                      /\ GasReport.remaining + GasReport.used_externally
                           + GasReport.used_internally = GasLimit
    BY Zenon DEF GasReportIsExact
  <2>1. gasLeft \in Nat /\ internally \in Nat /\ externally \in Nat
    BY InstanceAssumption DEF InstanceInv, TypeOK
  <2>2. gasLeft + externally + internally = GasLimit
    BY Zenon DEF InstanceInv, GasInv
  <2>3. SaturatingSub(SaturatingSub(GasLimit, externally), gasLeft) = internally
    BY <2>1, <2>2, InstanceAssumption DEF SaturatingSub
  <2>4. GasReport.remaining = gasLeft /\ GasReport.used_externally = externally
    BY Zenon DEF GasReport
  <2>5. GasReport.used_internally = internally
    BY Zenon, <2>3 DEF GasReport
  <2> QED
    BY Zenon, <2>1, <2>2, <2>4, <2>5
<1> QED
  BY <1>1, InstanceInvariant, PTL

(* No entry point after which the storage is read-only writes to it.         *)
THEOREM QueriesAreReadOnly == Spec => []QueriesNeverWrite
  BY InstanceInvariant, PTL DEF InstanceInv, FlagInv

(* An instance that has run out of gas does no more work.                    *)
THEOREM DepletionIsFinal == Spec => NoWorkAfterDepletion
<1>1. InstanceInv /\ [Next]_vars
        => [depleted /\ depleted' => gasLeft' = 0 /\ internally' = internally]_vars
  BY Zenon, GasStep DEF InstanceInv
<1> QED
  BY <1>1, InstanceInvariant, PTL DEF Spec, NoWorkAfterDepletion

--------------------------------------------------------------------------------
(* The pointers of a sequence all have regions of one kind.                  *)
AllOf(h, pointers, kind) ==
  \A i \in DOMAIN pointers : pointers[i] \in Pointers /\ h[pointers[i]].kind = kind

Distinct(pointers) ==
  \A i, j \in DOMAIN pointers : pointers[i] = pointers[j] => i = j

(* The regions of the memory; the arguments of the entry point until it      *)
(* consumes them; what an import has borrowed, the buffer it fills in and    *)
(* its answer, until the contract takes it.                                  *)
HeapOK(h) ==
  /\ DOMAIN h = Pointers
  /\ \A p \in Pointers : h[p].kind \in {"free", "owned", "borrowed"}
  /\ \A p \in Pointers : h[p] = Free <=> h[p].kind = "free"

HeapInv == HeapOK(heap)

ArgsInv ==
  pc \in {"arguments", "entry"} =>
    args \in Seq(Pointers) /\ AllOf(heap, args, "owned") /\ Distinct(args)

OpInv ==
  pc \in {"import", "answer"} =>
    /\ op = [fn |-> op.fn, inputs |-> op.inputs, details |-> op.details, answer |-> op.answer,
             borrowed |-> op.borrowed, buffer |-> op.buffer]
    /\ AllOf(heap, op.borrowed, "borrowed")
    /\ op.buffer = <<>> \/ \E p \in Pointers : op.buffer = <<p>> /\ heap[p].kind = "owned"
    /\ op.answer = <<>> \/ \E p \in Pointers : op.answer = <<p>> /\ heap[p].kind = "owned"

OwnerInv == HeapInv /\ ArgsInv /\ OpInv /\ ~dangling

--------------------------------------------------------------------------------
(* The pointers below the lowest ones of a set are the ones before them.     *)
LEMMA LowestThree ==
  ASSUME NEW F, F \subseteq Nat, IsFiniteSet(F), NEW n \in 1 .. 3, Cardinality(F) >= n
  PROVE  \E p \in F : Cardinality({q \in F : q < p}) = n - 1
<1>1. Cardinality(F) \in Nat
  BY Zenon, FS_CardinalityType
<1>2. F # {}
  BY <1>1, FS_EmptySet
<1>3. PICK a \in F : \A q \in F : a <= q
  BY Zenon, <1>2, LeastNatural
<1>4. CASE n = 1
  <2>1. \A q \in F : ~(q < a)
    BY <1>3
  <2>2. {q \in F : q < a} = {}
    BY Zenon, <2>1
  <2> QED
    BY <1>4, <2>2, FS_EmptySet
<1>5. CASE n # 1
  <2>1. /\ IsFiniteSet(F \ {a}) /\ Cardinality(F \ {a}) = Cardinality(F) - 1
    BY Zenon, <1>3, FS_RemoveElement
  <2>2. F \ {a} # {}
    <3>1. Cardinality(F \ {a}) # 0
      BY <1>1, <1>5, <2>1
    <3> QED
      BY Zenon, <3>1, FS_EmptySet
  <2>3. PICK b \in F \ {a} : \A q \in F \ {a} : b <= q
    BY Zenon, <2>2, LeastNatural
  <2>4. CASE n = 2
    <3>1. \A q \in F : q < b <=> q = a
      BY <1>3, <2>3
    <3>2. {q \in F : q < b} = {a}
      BY Zenon, <3>1
    <3>3. Cardinality({a}) = 1
      BY Zenon, FS_Singleton
    <3>4. b \in F /\ Cardinality({q \in F : q < b}) = 1
      BY Zenon, <2>3, <3>2, <3>3
    <3> QED
      BY <2>4, <3>4
  <2>5. CASE n = 3
    <3>1. /\ IsFiniteSet((F \ {a}) \ {b}) /\ Cardinality((F \ {a}) \ {b}) = Cardinality(F) - 2
      <4>1. /\ IsFiniteSet((F \ {a}) \ {b})
            /\ Cardinality((F \ {a}) \ {b}) = Cardinality(F \ {a}) - 1
        BY Zenon, <2>1, <2>3, FS_RemoveElement
      <4> QED
        BY <1>1, <2>1, <4>1
    <3>2. (F \ {a}) \ {b} # {}
      <4>1. Cardinality((F \ {a}) \ {b}) # 0
        BY <1>1, <2>5, <3>1
      <4> QED
        BY Zenon, <4>1, FS_EmptySet
    <3>3. PICK c \in (F \ {a}) \ {b} : \A q \in (F \ {a}) \ {b} : c <= q
      BY Zenon, <3>2, LeastNatural
    <3>4. {q \in F : q < c} = {a} \cup {b}
      <4>1. \A q \in F : q < c <=> q = a \/ q = b
        BY <1>3, <2>3, <3>3
      <4> QED
        BY Zenon, <4>1, <2>3
    <3>5. Cardinality({a} \cup {b}) = 2
      <4>1. IsFiniteSet({a}) /\ Cardinality({a}) = 1 /\ b \notin {a}
        BY Zenon, <2>3, FS_Singleton
      <4>2. Cardinality({a} \cup {b}) = Cardinality({a}) + 1
        BY Zenon, <4>1, FS_AddElement
      <4> QED
        BY <4>1, <4>2
    <3> QED
      BY <2>5, <3>4, <3>5
  <2> QED
    BY <1>5, <2>4, <2>5
<1> QED
  BY Zenon, <1>4, <1>5

(* Lowest gives distinct free pointers.                                      *)
LEMMA LowestFree ==
  ASSUME HeapInv, NEW n \in 0 .. 3, HasRoom(heap, n), NEW p, p = Lowest(heap, n)
  PROVE  /\ p \in [1 .. n -> Pointers]
         /\ AllOf(heap, p, "free") /\ Distinct(p)
<1>1. PICK F : F = FreePointers(heap)
  BY Zenon
<1>2. F \subseteq Pointers /\ F \subseteq Nat /\ \A q \in F : heap[q].kind = "free"
  BY <1>1, RegionsAssumption DEF FreePointers, Pointers, HeapInv, HeapOK
<1>3. IsFiniteSet(F) /\ Cardinality(F) \in Nat
  <2>1. IsFiniteSet(Pointers)
    BY RegionsAssumption, FS_Interval DEF Pointers
  <2> QED
    BY Zenon, <1>2, <2>1, FS_Subset, FS_CardinalityType
<1>4. Cardinality(F) >= n
  BY Zenon, <1>1 DEF HasRoom
<1>5. p = [i \in 1 .. n |-> CHOOSE q \in F : Cardinality({r \in F : r < q}) = i - 1]
  BY <1>1 DEF Lowest
<1>6. ASSUME NEW i \in 1 .. n
      PROVE  p[i] \in F /\ Cardinality({r \in F : r < p[i]}) = i - 1
  <2>1. i \in 1 .. 3 /\ Cardinality(F) >= i
    BY <1>3, <1>4
  <2>2. \E q \in F : Cardinality({r \in F : r < q}) = i - 1
    BY Zenon, <1>2, <1>3, <2>1, LowestThree
  <2> QED
    BY Zenon, <1>5, <2>2
<1>7. ASSUME NEW i \in 1 .. n, NEW j \in 1 .. n, p[i] = p[j] PROVE i = j
  <2>1. i - 1 = j - 1
    BY Zenon, <1>6, <1>7
  <2> QED
    BY <2>1
<1>8. p \in [1 .. n -> Pointers] /\ DOMAIN p = 1 .. n
  BY Zenon, <1>2, <1>5, <1>6
<1> QED
  BY Zenon, <1>2, <1>6, <1>7, <1>8 DEF AllOf, Distinct

(* As many pointers as there are: none of them is the same as another.       *)
LEMMA DistinctCardinality ==
  ASSUME NEW s \in Seq(Pointers), Distinct(s)
  PROVE  Cardinality(Range(s)) = Len(s)
<1>1. Len(s) \in Nat /\ DOMAIN s = 1 .. Len(s)
  BY Zenon, SequenceType
<1>2. s \in [1 .. Len(s) -> Range(s)]
  BY Zenon, <1>1, SequenceType DEF Range
<1>3. s \in Bijection(1 .. Len(s), Range(s))
  <2>1. \A i, j \in 1 .. Len(s) : s[i] = s[j] => i = j
    BY Zenon, <1>1 DEF Distinct
  <2>2. \A x \in Range(s) : \E i \in 1 .. Len(s) : s[i] = x
    BY Zenon, <1>1 DEF Range
  <2>3. s \in Injection(1 .. Len(s), Range(s))
    BY Zenon, <1>2, <2>1 DEF Injection, IsInjective
  <2>4. s \in Surjection(1 .. Len(s), Range(s))
    BY Zenon, <1>2, <2>2 DEF Surjection
  <2> QED
    BY Zenon, <2>3, <2>4 DEF Bijection
<1>4. ExistsBijection(1 .. Len(s), Range(s))
  BY Zenon, <1>3 DEF ExistsBijection
<1>5. IsFiniteSet(1 .. Len(s)) /\ Cardinality(1 .. Len(s)) = Len(s)
  BY <1>1, FS_Interval
<1> QED
  BY Zenon, <1>4, <1>5, FS_Bijection

(* New regions at free pointers leave all others as they are.                *)
LEMMA PutRegions ==
  ASSUME HeapInv, NEW n \in Nat, NEW p \in [1 .. n -> Pointers],
         AllOf(heap, p, "free"), Distinct(p), NEW regions,
         \A i \in 1 .. n : regions[i].kind \in {"owned", "borrowed"} /\ regions[i] # Free,
         NEW h, h = Put(heap, p, regions)
  PROVE  /\ HeapOK(h)
         /\ \A i \in 1 .. n : h[p[i]] = regions[i]
         /\ \A q \in Pointers : heap[q].kind # "free" => h[q] = heap[q]
<1>1. /\ DOMAIN p = 1 .. n
      /\ \A i, j \in 1 .. n : p[i] = p[j] => i = j
      /\ \A i \in 1 .. n : p[i] \in Pointers /\ heap[p[i]].kind = "free"
  BY Zenon DEF Distinct, AllOf
<1>2. DOMAIN h = Pointers
  BY Zenon DEF Put
<1>3. ASSUME NEW i \in 1 .. n PROVE h[p[i]] = regions[i]
  <2>1. \E j \in 1 .. n : p[j] = p[i]
    BY Zenon
  <2>2. (CHOOSE j \in 1 .. n : p[j] = p[i]) = i
    BY Zenon, <1>1, <2>1
  <2> QED
    BY Zenon, <1>1, <2>1, <2>2 DEF Put
<1>4. ASSUME NEW q \in Pointers, ~\E i \in 1 .. n : p[i] = q PROVE h[q] = heap[q]
  BY Zenon, <1>1, <1>4 DEF Put
<1>5. ASSUME NEW q \in Pointers, heap[q].kind # "free" PROVE h[q] = heap[q]
  BY ZenonT(60), <1>1, <1>4, <1>5
<1>6. ASSUME NEW q \in Pointers
      PROVE  h[q].kind \in {"free", "owned", "borrowed"} /\ (h[q] = Free <=> h[q].kind = "free")
  <2>1. CASE \E i \in 1 .. n : p[i] = q
    <3>1. PICK i \in 1 .. n : p[i] = q
      BY Zenon, <2>1
    <3> QED
      BY Zenon, <3>1, <1>3
  <2>2. CASE ~\E i \in 1 .. n : p[i] = q
    BY Zenon, <2>2, <1>4 DEF HeapInv, HeapOK
  <2> QED
    BY Zenon, <2>1, <2>2
<1> QED
  BY Zenon, <1>2, <1>3, <1>5, <1>6 DEF HeapOK

(* Consuming regions leaves all others as they are.                          *)
LEMMA ConsumeRegions ==
  ASSUME NEW h, HeapOK(h), NEW pointers
  PROVE  HeapOK(consume_regions(h, pointers))
<1>1. Free.kind = "free"
  BY Zenon DEF Free
<1>2. PICK after : after = consume_regions(h, pointers)
  BY Zenon
<1>3. DOMAIN after = Pointers /\ \A q \in Pointers : after[q] = Free \/ after[q] = h[q]
  BY Zenon, <1>2 DEF consume_regions
<1> QED
  BY Zenon, <1>1, <1>2, <1>3 DEF HeapOK

(* The regions that are put into the memory are not free.                    *)
LEMMA NewRegions ==
  ASSUME NEW data
  PROVE  /\ release_buffer(data).kind = "owned" /\ release_buffer(data) # Free
         /\ build_region(data).kind = "borrowed" /\ build_region(data) # Free
         /\ Alloc(data).kind = "owned" /\ Alloc(data) # Free
<1>1. Free.kind = "free"
  BY Zenon DEF Free
<1>2. release_buffer(data).kind = "owned" /\ build_region(data).kind = "borrowed"
      /\ Alloc(data).kind = "owned"
  BY Zenon DEF release_buffer, build_region, Alloc
<1> QED
  BY Zenon, <1>1, <1>2

(* One region for data, as the VM has it allocated.                          *)
LEMMA PutOne ==
  ASSUME HeapInv, HasRoom(heap, 1), NEW data,
         NEW p, p = Lowest(heap, 1), NEW h, h = Put(heap, p, <<release_buffer(data)>>)
  PROVE  /\ HeapOK(h)
         /\ p \in Seq(Pointers) /\ Len(p) = 1 /\ p = <<p[1]>> /\ p[1] \in Pointers
         /\ heap[p[1]].kind = "free" /\ h[p[1]].kind = "owned"
         /\ \A q \in Pointers : heap[q].kind # "free" => h[q] = heap[q]
<1>1. p \in [1 .. 1 -> Pointers] /\ AllOf(heap, p, "free") /\ Distinct(p)
  BY LowestFree
<1>2. PICK regions : regions = <<release_buffer(data)>>
  BY Zenon
<1>3. \A i \in 1 .. 1 : regions[i].kind \in {"owned", "borrowed"} /\ regions[i] # Free
  BY <1>2, NewRegions
<1>4. /\ HeapOK(h)
      /\ \A i \in 1 .. 1 : h[p[i]] = regions[i]
      /\ \A q \in Pointers : heap[q].kind # "free" => h[q] = heap[q]
  <2>1. PICK n \in Nat : n = 1
    BY Zenon
  <2>2. /\ p \in [1 .. n -> Pointers] /\ h = Put(heap, p, regions)
        /\ \A i \in 1 .. n : regions[i].kind \in {"owned", "borrowed"} /\ regions[i] # Free
    BY Zenon, <1>1, <1>2, <1>3, <2>1
  <2>3. /\ HeapOK(h)
        /\ \A i \in 1 .. n : h[p[i]] = regions[i]
        /\ \A q \in Pointers : heap[q].kind # "free" => h[q] = heap[q]
    BY <1>1, <2>2, PutRegions
  <2> QED
    BY Zenon, <2>1, <2>3
<1>5. h[p[1]].kind = "owned"
  BY <1>2, <1>4, NewRegions
<1>6. p \in Seq(Pointers) /\ Len(p) = 1 /\ p = <<p[1]>> /\ p[1] \in Pointers
  <2>1. p \in Seq(Pointers)
    BY Zenon, <1>1, SequencesAreFunctions
  <2>2. Len(p) = 1 /\ p[1] \in Pointers
    BY <1>1, <2>1, SequenceType
  <2> QED
    BY <2>1, <2>2
<1> QED
  BY <1>1, <1>4, <1>5, <1>6 DEF AllOf

--------------------------------------------------------------------------------
(* Steps.                                                                    *)

(* A new instance owns nothing.                                              *)
LEMMA GuestInitially == GuestInit => OwnerInv
<1> SUFFICES ASSUME GuestInit PROVE OwnerInv
  BY Zenon
<1>1. Free.kind = "free"
  BY Zenon DEF Free
<1>2. HeapInv
  BY Zenon, <1>1 DEF GuestInit, HeapInv, HeapOK
<1> QED
  BY Zenon, <1>2 DEF GuestInit, OwnerInv, ArgsInv, OpInv

(* Where no arguments and no import are under way, only the memory counts.   *)
LEMMA AtRest ==
  ASSUME pc' \in {"idle", "contract", "result"}, HeapOK(heap'), ~dangling'
  PROVE  OwnerInv'
  BY Zenon DEF OwnerInv, HeapInv, ArgsInv, OpInv

(* A call that ends leaves the memory as it is.                              *)
LEMMA Aborted ==
  ASSUME OwnerInv, Abort, UNCHANGED heap, ~dangling'
  PROVE  OwnerInv'
  BY Zenon, AtRest DEF Abort, OwnerInv, HeapInv

(* Pointers to regions in use stay what they are.                            *)
LEMMA Kept ==
  ASSUME NEW h, \A q \in Pointers : heap[q].kind # "free" => h[q] = heap[q],
         NEW pointers, NEW kind, kind # "free", AllOf(heap, pointers, kind)
  PROVE  AllOf(h, pointers, kind)
  BY DEF AllOf

(* The VM has an argument allocated and writes it.                           *)
LEMMA ArgumentStep ==
  ASSUME OwnerInv, WriteArgument
  PROVE  OwnerInv'
<1>1. ~dangling' /\ pc = "arguments"
  BY Zenon DEF WriteArgument, OwnerInv
<1>2. CASE Abort /\ UNCHANGED <<heap, args>>
  BY Zenon, <1>1, <1>2, Aborted
<1>3. CASE HasRoom(heap, 1) /\ pc' = pc /\ heap' = Put(heap, Lowest(heap, 1), <<release_buffer(<<1>>)>>)
           /\ args' = args \o Lowest(heap, 1)
  <2>1. PICK p, h : p = Lowest(heap, 1) /\ h = Put(heap, p, <<release_buffer(<<1>>)>>)
    BY Zenon
  <2>2. heap' = h /\ args' = args \o p
    BY Zenon, <1>3, <2>1
  <2>3. /\ HeapOK(h)
        /\ p \in Seq(Pointers) /\ Len(p) = 1 /\ p[1] \in Pointers
        /\ heap[p[1]].kind = "free" /\ h[p[1]].kind = "owned"
        /\ \A q \in Pointers : heap[q].kind # "free" => h[q] = heap[q]
    BY <1>3, <2>1, PutOne DEF OwnerInv
  <2>4. args \in Seq(Pointers) /\ AllOf(heap, args, "owned") /\ Distinct(args)
    BY Zenon, <1>1 DEF OwnerInv, ArgsInv
  <2>5. AllOf(h, args, "owned")
    BY Zenon, <2>3, <2>4, Kept
  <2>6. PICK n \in Nat : n = Len(args) /\ DOMAIN args = 1 .. n
    BY Zenon, <2>4, SequenceType
  <2>7. PICK new : new = args \o p
    BY Zenon
  <2>8. /\ new \in Seq(Pointers) /\ Len(new) = n + 1
        /\ \A i \in 1 .. n : new[i] = args[i]
        /\ new[n + 1] = p[1]
    <3>1. p \in Seq(Pointers) /\ Len(p) = 1
      BY <2>3
    <3>2. /\ new \in Seq(Pointers) /\ Len(new) = n + Len(p)
          /\ \A i \in 1 .. n + Len(p) : new[i] = IF i <= n THEN args[i] ELSE p[i - n]
      BY Zenon, <2>4, <2>6, <2>7, <3>1, Concatenation
    <3> QED
      BY <2>6, <3>1, <3>2
  <2>9. DOMAIN new = 1 .. n + 1
    BY Zenon, <2>8, SequenceType
  <2>10. AllOf(h, new, "owned")
    BY <2>3, <2>5, <2>6, <2>8, <2>9 DEF AllOf
  <2>11. \A i \in 1 .. n : new[i] # new[n + 1]
    <3>1. \A i \in 1 .. n : heap[args[i]].kind = "owned"
      BY Zenon, <2>4, <2>6 DEF AllOf
    <3> QED
      BY Zenon, <3>1, <2>3, <2>8
  <2>12. \A i, j \in 1 .. n : new[i] = new[j] => i = j
    BY Zenon, <2>4, <2>6, <2>8 DEF Distinct
  <2>13. Distinct(new)
    BY <2>9, <2>11, <2>12 DEF Distinct
  <2>14. pc' = "arguments"
    BY Zenon, <1>1, <1>3
  <2> QED
    BY Zenon, <1>1, <2>2, <2>3, <2>7, <2>8, <2>10, <2>13, <2>14 DEF OwnerInv, HeapInv, ArgsInv, OpInv
<1> QED
  BY Zenon, <1>2, <1>3 DEF WriteArgument

(* The contract consumes its arguments, each once.                           *)
LEMMA EnterStep ==
  ASSUME OwnerInv, Enter
  PROVE  OwnerInv'
<1>1. args \in Seq(Pointers) /\ AllOf(heap, args, "owned") /\ Distinct(args)
  BY Zenon DEF Enter, OwnerInv, ArgsInv
<1>2. CanConsume(heap, args)
  BY Zenon, <1>1, DistinctCardinality DEF CanConsume, AllOf
<1>3. ~dangling'
  BY Zenon, <1>2 DEF Enter, OwnerInv
<1>4. HeapOK(heap')
  BY Zenon, ConsumeRegions DEF Enter, OwnerInv, HeapInv
<1> QED
  BY Zenon, <1>3, <1>4, AtRest DEF Enter

(* The VM has the result put into the memory, reads it and frees it.         *)
LEMMA ResultOwner ==
  ASSUME OwnerInv, NEW result, ReturnResult(result)
  PROVE  OwnerInv'
<1>1. ~dangling'
  BY Zenon DEF ReturnResult, OwnerInv
<1>2. pc' = "idle"
  BY Zenon DEF ReturnResult, Abort
<1>3. CASE UNCHANGED heap
  BY Zenon, <1>1, <1>2, <1>3, AtRest DEF OwnerInv, HeapInv
<1>4. CASE HasRoom(heap, 1) /\ ~UNCHANGED heap
  <2>1. PICK p, after : p = Lowest(heap, 1) /\ after = Put(heap, p, <<release_buffer(result)>>)
    BY Zenon
  <2>2. HeapOK(after)
    BY Zenon, <1>4, <2>1, PutOne DEF OwnerInv
  <2>3. heap' = consume_regions(after, p) \/ heap' = after
    BY Zenon, <1>4, <2>1 DEF ReturnResult
  <2>4. HeapOK(heap')
    BY Zenon, <2>2, <2>3, ConsumeRegions
  <2> QED
    BY Zenon, <1>1, <1>2, <2>4, AtRest
<1> QED
  BY Zenon, <1>3, <1>4 DEF ReturnResult

(* The contract makes an import: at most three regions, counting the buffer. *)
Prepares(fn, inputs, buffers, details) ==
  /\ buffers \in 0 .. 1 /\ Len(inputs) \in 0 .. 3 /\ Len(inputs) + buffers \in 0 .. 3
  /\ Prepare(fn, inputs, buffers, details)

(* The contract lends the inputs of an import, and owns the buffer.          *)
LEMMA PrepareStep ==
  ASSUME OwnerInv, NEW fn, NEW inputs, NEW buffers, NEW details,
         Prepares(fn, inputs, buffers, details)
  PROVE  OwnerInv'
<1>. PICK k \in 0 .. 3 : k = Len(inputs)
  BY Zenon DEF Prepares
<1>0. buffers \in 0 .. 1 /\ k + buffers \in 0 .. 3 /\ Prepare(fn, inputs, buffers, details)
  BY Zenon DEF Prepares
<1>1. PICK n \in 0 .. 3 : n = k + buffers
  BY Zenon, <1>0
<1>2. PICK p : p = Lowest(heap, n)
  BY Zenon
<1>3. PICK regions : regions = [i \in DOMAIN p |-> IF i <= k THEN build_region(inputs[i])
                                                  ELSE Alloc(BufferLength)]
  BY Zenon
<1>4. /\ HasRoom(heap, n) /\ heap' = Put(heap, p, regions)
      /\ op' = [fn |-> fn, inputs |-> inputs, details |-> details, answer |-> <<>>,
                borrowed |-> SubSeq(p, 1, k), buffer |-> SubSeq(p, k + 1, Len(p))]
      /\ pc' = "import" /\ ~dangling'
  BY Zenon, <1>0, <1>1, <1>2, <1>3 DEF Prepare, OwnerInv
<1>5. p \in [1 .. n -> Pointers] /\ AllOf(heap, p, "free") /\ Distinct(p)
  BY Zenon, <1>2, <1>4, LowestFree DEF OwnerInv
<1>6. DOMAIN p = 1 .. n /\ p \in Seq(Pointers) /\ Len(p) = n
  <2>1. DOMAIN p = 1 .. n /\ n \in Nat
    BY <1>5
  <2>2. p \in Seq(Pointers)
    BY Zenon, <1>5, <2>1, SequencesAreFunctions
  <2> QED
    BY <2>1, <2>2, SequenceType
<1>7. ASSUME NEW i \in 1 .. n
      PROVE  /\ regions[i].kind = IF i <= k THEN "borrowed" ELSE "owned"
             /\ regions[i] # Free
  <2>1. regions[i] = IF i <= k THEN build_region(inputs[i]) ELSE Alloc(BufferLength)
    BY Zenon, <1>3, <1>6
  <2> QED
    BY Zenon, <2>1, NewRegions
<1>8. /\ HeapOK(heap')
      /\ \A i \in 1 .. n : heap'[p[i]] = regions[i]
  <2>1. PICK h : h = Put(heap, p, regions)
    BY Zenon
  <2>2. n \in Nat /\ \A i \in 1 .. n : regions[i].kind \in {"owned", "borrowed"} /\ regions[i] # Free
    BY <1>7
  <2>3. HeapOK(h) /\ \A i \in 1 .. n : h[p[i]] = regions[i]
    BY <1>5, <2>1, <2>2, PutRegions DEF OwnerInv
  <2> QED
    BY Zenon, <1>4, <2>1, <2>3
<1>9. PICK borrowed, buffer : borrowed = SubSeq(p, 1, k) /\ buffer = SubSeq(p, k + 1, Len(p))
  BY Zenon
<1>10. \A i \in DOMAIN borrowed : borrowed[i] \in Pointers /\ heap'[borrowed[i]].kind = "borrowed"
  <2>1. borrowed = [i \in 1 .. k |-> p[i]]
    BY <1>0, <1>1, <1>6, <1>9
  <2>2. ASSUME NEW i \in 1 .. k
        PROVE  borrowed[i] \in Pointers /\ heap'[borrowed[i]].kind = "borrowed"
    <3>1. i \in 1 .. n /\ i <= k
      BY <1>0, <1>1
    <3> QED
      BY Zenon, <2>1, <3>1, <1>5, <1>7, <1>8
  <2> QED
    BY Zenon, <2>1, <2>2
<1>11. buffer = <<>> \/ \E q \in Pointers : buffer = <<q>> /\ heap'[q].kind = "owned"
  <2>1. CASE buffers = 0
    <3>1. n = k
      BY <1>1, <2>1
    <3>2. buffer = <<>>
      BY <1>6, <1>9, <3>1
    <3> QED
      BY Zenon, <3>2
  <2>2. CASE buffers = 1
    <3>1. n = k + 1 /\ n \in 1 .. n /\ ~(n <= k)
      BY <1>1, <2>2
    <3>2. buffer = SubSeq(p, n, n)
      BY Zenon, <1>6, <1>9, <3>1
    <3>3. buffer = <<p[n]>>
      <4>1. buffer \in Seq(Pointers) /\ Len(buffer) = 1 /\ buffer[1] = p[n]
        BY <1>6, <3>1, <3>2, PartOfSequence
      <4> QED
        BY <4>1
    <3>4. p[n] \in Pointers /\ heap'[p[n]].kind = "owned"
      BY Zenon, <1>5, <1>7, <1>8, <3>1
    <3> QED
      BY Zenon, <3>3, <3>4
  <2> QED
    BY <1>0, <2>1, <2>2
<1>12. /\ op' = [fn |-> op'.fn, inputs |-> op'.inputs, details |-> op'.details, answer |-> op'.answer,
                 borrowed |-> op'.borrowed, buffer |-> op'.buffer]
       /\ op'.borrowed = borrowed /\ op'.buffer = buffer /\ op'.answer = <<>>
  BY Zenon, <1>4, <1>9
<1>13. OpInv'
  BY Zenon, <1>10, <1>11, <1>12 DEF OpInv, AllOf
<1> QED
  BY Zenon, <1>4, <1>8, <1>13 DEF OwnerInv, HeapInv, ArgsInv

(* The VM reads borrowed regions and answers, or the call ends.              *)
LEMMA ImportStep ==
  ASSUME OwnerInv, pc = "import", Reads
  PROVE  /\ ~dangling'
         /\ NoAnswer => OwnerInv'
         /\ Abort /\ UNCHANGED heap => OwnerInv'
         /\ \A data : AnswerWith(data) => OwnerInv'
<1>1. ~dangling'
  BY Zenon DEF Reads, OwnerInv, OpInv, AllOf, Range
<1>2. Abort /\ UNCHANGED heap => OwnerInv'
  BY Zenon, <1>1, Aborted
<1>3. ASSUME NoAnswer PROVE OwnerInv'
  BY Zenon, <1>1, <1>3 DEF NoAnswer, OwnerInv, HeapInv, ArgsInv, OpInv
<1>4. ASSUME NEW data, AnswerWith(data) PROVE OwnerInv'
  <2>1. CASE Abort /\ UNCHANGED heap
    BY Zenon, <1>2, <2>1
  <2>2. CASE /\ HasRoom(heap, 1) /\ heap' = Put(heap, Lowest(heap, 1), <<release_buffer(data)>>)
             /\ op' = [op EXCEPT !.answer = Lowest(heap, 1)] /\ pc' = "answer"
    <3>1. PICK p, h : p = Lowest(heap, 1) /\ h = Put(heap, p, <<release_buffer(data)>>)
      BY Zenon
    <3>2. /\ HeapOK(h)
          /\ p = <<p[1]>> /\ p[1] \in Pointers /\ h[p[1]].kind = "owned"
          /\ \A q \in Pointers : heap[q].kind # "free" => h[q] = heap[q]
      BY <2>2, <3>1, PutOne DEF OwnerInv
    <3>3. /\ op = [fn |-> op.fn, inputs |-> op.inputs, details |-> op.details, answer |-> op.answer,
                   borrowed |-> op.borrowed, buffer |-> op.buffer]
          /\ AllOf(heap, op.borrowed, "borrowed")
          /\ op.buffer = <<>> \/ \E q \in Pointers : op.buffer = <<q>> /\ heap[q].kind = "owned"
      BY Zenon DEF OwnerInv, OpInv
    <3>4. heap' = h /\ op' = [op EXCEPT !.answer = p]
      BY Zenon, <2>2, <3>1
    <3>5. op' = [fn |-> op.fn, inputs |-> op.inputs, details |-> op.details, answer |-> p,
                 borrowed |-> op.borrowed, buffer |-> op.buffer]
      BY Zenon, <3>3, <3>4
    <3>6. /\ op'.fn = op.fn /\ op'.inputs = op.inputs /\ op'.details = op.details /\ op'.answer = p
          /\ op'.borrowed = op.borrowed /\ op'.buffer = op.buffer
      BY Zenon, <3>5
    <3>7. AllOf(h, op.borrowed, "borrowed")
      BY Zenon, <3>2, <3>3, Kept
    <3>8. op.buffer = <<>> \/ \E q \in Pointers : op.buffer = <<q>> /\ h[q].kind = "owned"
      BY Zenon, <3>2, <3>3
    <3>9. OpInv'
      BY Zenon, <3>2, <3>4, <3>5, <3>6, <3>7, <3>8 DEF OpInv
    <3> QED
      BY Zenon, <1>1, <2>2, <3>2, <3>4, <3>9 DEF OwnerInv, HeapInv, ArgsInv
  <2> QED
    BY Zenon, <1>4, <2>1, <2>2 DEF AnswerWith
<1> QED
  BY Zenon, <1>1, <1>2, <1>3, <1>4

(* The imports.                                                              *)
LEMMA HostImportSteps ==
  ASSUME OwnerInv,
         do_db_read \/ do_db_write \/ do_db_remove \/ do_db_scan \/ do_db_next
           \/ do_crypto \/ do_query_chain
  PROVE  OwnerInv'
<1>1. pc = "import" /\ Reads
  BY Zenon DEF do_db_read, do_db_write, do_db_remove, do_db_scan, do_db_next, do_crypto, do_query_chain,
         Importing
<1>2. Fails \/ NoAnswer \/ (Abort /\ UNCHANGED heap) \/ \E data : AnswerWith(data)
  <2>1. CASE do_db_read
    BY Zenon, <2>1 DEF do_db_read
  <2>2. CASE do_db_write \/ do_db_remove
    BY Zenon, <2>2 DEF do_db_write, do_db_remove, WriteThrough
  <2>3. CASE do_db_scan
    BY Zenon, <2>3 DEF do_db_scan
  <2>4. CASE do_db_next
    BY Zenon, <2>4 DEF do_db_next
  <2>5. CASE do_crypto \/ do_query_chain
    BY Zenon, <2>5 DEF do_crypto, do_query_chain
  <2> QED
    BY Zenon, <2>1, <2>2, <2>3, <2>4, <2>5
<1> QED
  BY Zenon, <1>1, <1>2, ImportStep DEF Fails

(* An address goes into the buffer, an error into a region of its own.       *)
LEMMA AddressStep ==
  ASSUME OwnerInv, do_addr
  PROVE  OwnerInv'
<1>1. pc = "import" /\ Reads /\ ~dangling'
  BY Zenon, ImportStep DEF do_addr
<1>2. CASE Fails \/ AnswerWith(ErrorMessage)
  BY Zenon, <1>1, <1>2, ImportStep DEF Fails
<1>3. CASE /\ UNCHANGED op /\ pc' = "answer"
           /\ IF op.buffer = <<>> THEN UNCHANGED heap
              ELSE heap' = [heap EXCEPT ![op.buffer[1]].data = <<1>>]
  <2>1. /\ op = [fn |-> op.fn, inputs |-> op.inputs, details |-> op.details, answer |-> op.answer,
                 borrowed |-> op.borrowed, buffer |-> op.buffer]
        /\ AllOf(heap, op.borrowed, "borrowed")
        /\ op.buffer = <<>> \/ \E p \in Pointers : op.buffer = <<p>> /\ heap[p].kind = "owned"
        /\ op.answer = <<>> \/ \E p \in Pointers : op.answer = <<p>> /\ heap[p].kind = "owned"
    BY Zenon, <1>1 DEF OwnerInv, OpInv
  <2>2. DOMAIN heap' = Pointers /\ \A q \in Pointers : heap'[q].kind = heap[q].kind
    <3>1. CASE op.buffer = <<>>
      BY Zenon, <1>3, <3>1 DEF OwnerInv, HeapInv, HeapOK
    <3>2. CASE op.buffer # <<>>
      <4>1. PICK p \in Pointers : op.buffer = <<p>> /\ heap[p].kind = "owned"
        BY Zenon, <2>1, <3>2
      <4>2. op.buffer[1] = p
        BY <4>1
      <4>3. heap' = [heap EXCEPT ![p] = [heap[p] EXCEPT !.data = <<1>>]]
        BY Zenon, <1>3, <3>2, <4>2
      <4>4. [heap[p] EXCEPT !.data = <<1>>].kind = heap[p].kind
        OBVIOUS
      <4> QED
        BY Zenon, <4>3, <4>4 DEF OwnerInv, HeapInv, HeapOK
    <3> QED
      BY Zenon, <3>1, <3>2
  <2>3. HeapOK(heap')
    <3>1. \A q \in Pointers : heap'[q] = Free => heap'[q].kind = "free"
      BY DEF Free
    <3>2. ASSUME NEW q \in Pointers, heap'[q].kind = "free" PROVE heap'[q] = Free
      <4>1. heap[q].kind = "free" /\ heap[q] = Free
        BY Zenon, <2>2, <3>2 DEF OwnerInv, HeapInv, HeapOK
      <4>2. CASE op.buffer = <<>>
        BY Zenon, <1>3, <4>1, <4>2
      <4>3. CASE op.buffer # <<>>
        <5>1. PICK p \in Pointers : op.buffer = <<p>> /\ heap[p].kind = "owned"
          BY Zenon, <2>1, <4>3
        <5>2. op.buffer[1] = p /\ p # q
          BY <4>1, <5>1
        <5> QED
          BY Zenon, <1>3, <4>1, <4>3, <5>2 DEF OwnerInv, HeapInv, HeapOK
      <4> QED
        BY Zenon, <4>2, <4>3
    <3> QED
      BY Zenon, <2>2, <3>1, <3>2 DEF OwnerInv, HeapInv, HeapOK
  <2>4. OpInv'
    <3>1. AllOf(heap', op.borrowed, "borrowed")
      BY Zenon, <2>1, <2>2 DEF AllOf
    <3>2. op' = op
      BY Zenon, <1>3
    <3> QED
      BY Zenon, <2>1, <2>2, <3>1, <3>2 DEF OpInv
  <2> QED
    BY Zenon, <1>1, <1>3, <2>3, <2>4 DEF OwnerInv, HeapInv, ArgsInv
<1> QED
  BY Zenon, <1>2, <1>3 DEF do_addr

(* The contract takes what it owns, and drops what it has lent.              *)
LEMMA ReceiveStep ==
  ASSUME OwnerInv, Receive
  PROVE  OwnerInv'
<1>1. pc = "answer"
  BY Zenon DEF Receive
<1>2. CASE Abort /\ UNCHANGED <<memoryVars, storeVars>>
  BY Zenon, <1>2, Aborted DEF memoryVars, OwnerInv
<1>3. CASE /\ heap' = consume_regions(heap, Received \o op.borrowed) /\ pc' = "contract"
           /\ dangling' = (dangling \/ ~CanConsume(heap, Received))
  <2>1. Received = <<>> \/ \E p \in Pointers : Received = <<p>> /\ heap[p].kind = "owned"
    <3>1. CASE op.answer = <<>>
      BY <1>1, <3>1 DEF OwnerInv, OpInv, Received
    <3>2. CASE op.answer # <<>>
      <4>1. PICK p \in Pointers : op.answer = <<p>> /\ heap[p].kind = "owned"
        BY Zenon, <1>1, <3>2 DEF OwnerInv, OpInv
      <4>2. Received = <<p>> \o <<>>
        BY Zenon, <3>2, <4>1 DEF Received
      <4> QED
        BY <4>1, <4>2
    <3> QED
      BY Zenon, <3>1, <3>2
  <2>2. CanConsume(heap, Received)
    <3>1. CASE Received = <<>>
      <4>1. Range(Received) = {} /\ Len(Received) = 0 /\ DOMAIN Received = {}
        BY <3>1 DEF Range
      <4> QED
        BY Zenon, <4>1, FS_EmptySet DEF CanConsume
    <3>2. CASE Received # <<>>
      <4>1. PICK p \in Pointers : Received = <<p>> /\ heap[p].kind = "owned"
        BY Zenon, <2>1, <3>2
      <4>2. Range(Received) = {p} /\ Len(Received) = 1 /\ DOMAIN Received = {1} /\ Received[1] = p
        BY <4>1 DEF Range
      <4>3. Cardinality({p}) = 1
        BY Zenon, FS_Singleton
      <4> QED
        BY Zenon, <4>1, <4>2, <4>3 DEF CanConsume
    <3> QED
      BY Zenon, <3>1, <3>2
  <2>3. ~dangling'
    BY Zenon, <1>3, <2>2 DEF OwnerInv
  <2>4. HeapOK(heap')
    BY Zenon, <1>3, ConsumeRegions DEF OwnerInv, HeapInv
  <2> QED
    BY Zenon, <1>3, <2>3, <2>4, AtRest
<1> QED
  BY Zenon, <1>2, <1>3 DEF Receive

--------------------------------------------------------------------------------
(* What the contract does is to enter, to import, to take an answer or to    *)
(* return.                                                                   *)
LEMMA ContractImports ==
  ASSUME ContractStep
  PROVE  Enter \/ Finish \/ Receive
           \/ \E fn, inputs, buffers, details : Prepares(fn, inputs, buffers, details)
<1> DEFINE Asks == \E fn, inputs, buffers, details : Prepares(fn, inputs, buffers, details)
<1>1. ASSUME NEW fn, NEW inputs, NEW details, Len(inputs) \in 0 .. 3, Prepare(fn, inputs, 0, details)
      PROVE  Asks
  <2>1. Prepares(fn, inputs, 0, details)
    BY <1>1 DEF Prepares
  <2> QED
    BY Zenon, <2>1
<1>2. ASSUME NEW fn, NEW input, NEW details, Prepare(fn, <<input>>, 1, details)
      PROVE  Asks
  <2>1. Len(<<input>>) = 1
    OBVIOUS
  <2>2. Prepares(fn, <<input>>, 1, details)
    BY <1>2, <2>1 DEF Prepares
  <2> QED
    BY Zenon, <2>2
<1>3. CASE \E key \in GuestKeys :
              \/ StorageGet(key)
              \/ \E value \in GuestValues : StorageSet(key, value)
              \/ StorageRemove(key)
  <2>1. PICK key \in GuestKeys :
          \/ StorageGet(key)
          \/ \E value \in GuestValues : StorageSet(key, value)
          \/ StorageRemove(key)
    BY Zenon, <1>3
  <2>2. Len(<<key>>) = 1 /\ \A value : Len(<<key, value>>) = 2
    BY Zenon
  <2>3. CASE StorageGet(key) \/ StorageRemove(key)
    BY <2>2, <2>3, <1>1 DEF StorageGet, StorageRemove
  <2>4. CASE \E value \in GuestValues : StorageSet(key, value)
    <3>1. PICK value \in GuestValues : StorageSet(key, value)
      BY Zenon, <2>4
    <3>2. PICK inputs : inputs = <<key, value>>
      BY Zenon
    <3>3. Len(inputs) \in 0 .. 3 /\ Prepare("db_write", inputs, 0, <<>>)
      BY <3>1, <3>2 DEF StorageSet
    <3> QED
      BY Zenon, <3>3, <1>1
  <2> QED
    BY Zenon, <2>1, <2>3, <2>4
<1>4. CASE \E start, end \in Bounds, order \in {"Ascending", "Descending"} :
              StorageRange(start, end, order)
  <2>1. PICK start \in Bounds, end \in Bounds, order \in {"Ascending", "Descending"} :
          StorageRange(start, end, order)
    BY Zenon, <1>4
  <2>2. /\ start = <<>> \/ \E a \in GuestKeys : start = <<a>>
        /\ end = <<>> \/ \E b \in GuestKeys : end = <<b>>
    BY Zenon DEF Bounds
  <2>3. Len(start \o end) \in 0 .. 3
    <3>1. start \in Seq(GuestKeys) /\ (Len(start) = 0 \/ Len(start) = 1)
      <4>1. CASE start = <<>>
        BY <4>1
      <4>2. CASE start # <<>>
        <5>1. PICK a \in GuestKeys : start = <<a>>
          BY Zenon, <2>2, <4>2
        <5> QED
          BY <5>1
      <4> QED
        BY Zenon, <4>1, <4>2
    <3>2. end \in Seq(GuestKeys) /\ (Len(end) = 0 \/ Len(end) = 1)
      <4>1. CASE end = <<>>
        BY <4>1
      <4>2. CASE end # <<>>
        <5>1. PICK b \in GuestKeys : end = <<b>>
          BY Zenon, <2>2, <4>2
        <5> QED
          BY <5>1
      <4> QED
        BY Zenon, <4>1, <4>2
    <3>3. Len(start \o end) = Len(start) + Len(end)
      BY Zenon, <3>1, <3>2, Concatenation
    <3>4. PICK i \in 0 .. 1, j \in 0 .. 1 : i = Len(start) /\ j = Len(end)
      BY <3>1, <3>2
    <3>5. i + j \in 0 .. 3
      OBVIOUS
    <3> QED
      BY Zenon, <3>3, <3>4, <3>5, Zenon
  <2> QED
    BY Zenon, <2>1, <2>3, <1>1 DEF StorageRange
<1>5. CASE \E id \in DOMAIN expected : IteratorNext(id)
  <2>1. Len(<<>>) = 0
    BY Zenon
  <2> QED
    BY <1>5, <2>1, <1>1 DEF IteratorNext
<1>6. CASE \E input \in {<<1>>} :
              \/ AddrValidate(input) \/ AddrCanonicalize(input) \/ AddrHumanize(input)
              \/ Verify(input, input, input) \/ RecoverPubkey(input, input)
              \/ RawQuery(input) \/ Debug(input)
  <2>1. PICK input \in {<<1>>} :
          \/ AddrValidate(input) \/ AddrCanonicalize(input) \/ AddrHumanize(input)
          \/ Verify(input, input, input) \/ RecoverPubkey(input, input)
          \/ RawQuery(input) \/ Debug(input)
    BY Zenon, <1>6
  <2>2. CASE AddrCanonicalize(input) \/ AddrHumanize(input)
    BY Zenon, <2>2, <1>2 DEF AddrCanonicalize, AddrHumanize
  <2>3. CASE AddrValidate(input) \/ RawQuery(input) \/ Debug(input)
    <3>1. Len(<<input>>) = 1
      BY Zenon
    <3> QED
      BY <2>3, <3>1, <1>1 DEF AddrValidate, RawQuery, Debug
  <2>4. CASE Verify(input, input, input) \/ RecoverPubkey(input, input)
    <3>1. Len(<<input, input, input>>) = 3 /\ Len(<<input, input>>) = 2
      BY Zenon
    <3> QED
      BY <2>4, <3>1, <1>1 DEF Verify, RecoverPubkey
  <2> QED
    BY Zenon, <2>1, <2>2, <2>3, <2>4
<1> QED
  BY Zenon, <1>3, <1>4, <1>5, <1>6 DEF ContractStep

(* Every step keeps the ownership of the regions.                            *)
LEMMA OwnerStep ==
  ASSUME OwnerInv, [GuestNext]_guestVars
  PROVE  OwnerInv'
<1>1. CASE \E e \in Entries : BeginCall(e)
  <2>1. args' = <<>> /\ pc' = "arguments" /\ UNCHANGED memoryVars
    BY Zenon, <1>1 DEF BeginCall
  <2> QED
    BY <2>1 DEF memoryVars, OwnerInv, HeapInv, ArgsInv, OpInv, AllOf, Distinct
<1>2. CASE WriteArgument
  BY Zenon, <1>2, ArgumentStep
<1>3. CASE CallFunction
  <2>1. UNCHANGED <<heap, args, dangling>> /\ pc = "arguments"
    BY Zenon, <1>3 DEF CallFunction, memoryVars
  <2>2. pc' = "entry" \/ Abort
    BY Zenon, <1>3 DEF CallFunction
  <2>3. CASE pc' = "entry"
    BY Zenon, <2>1, <2>3 DEF OwnerInv, HeapInv, ArgsInv, OpInv
  <2>4. CASE Abort
    BY Zenon, <2>1, <2>4, Aborted DEF OwnerInv
  <2> QED
    BY Zenon, <2>2, <2>3, <2>4
<1>4. CASE \E length \in {1, ResultLimit + 1} : ReturnResult([i \in 1 .. length |-> 1])
  BY Zenon, <1>4, ResultOwner
<1>5. CASE do_db_read \/ do_db_write \/ do_db_remove \/ do_db_scan \/ do_db_next
             \/ do_crypto \/ do_query_chain
  BY Zenon, <1>5, HostImportSteps
<1>6. CASE do_addr
  BY Zenon, <1>6, AddressStep
<1>7. CASE Enter
  BY Zenon, <1>7, EnterStep
<1>8. CASE Finish
  BY Zenon, <1>8, AtRest DEF Finish, memoryVars, OwnerInv, HeapInv
<1>9. CASE Receive
  BY Zenon, <1>9, ReceiveStep
<1>10. CASE \E fn, inputs, buffers, details : Prepares(fn, inputs, buffers, details)
  BY Zenon, <1>10, PrepareStep
<1>11. CASE UNCHANGED guestVars
  BY Zenon, <1>11 DEF guestVars, memoryVars, OwnerInv, HeapInv, ArgsInv, OpInv
<1> QED
  BY Zenon, <1>1, <1>2, <1>3, <1>4, <1>5, <1>6, <1>7, <1>8, <1>9, <1>10, <1>11, ContractImports
     DEF GuestNext, HostStep

(* No region is consumed twice or by who does not own it, and none is read   *)
(* after it was freed, for any size of the memory, any storage, any number   *)
(* of calls and imports, and wherever a call is cut off (consume_region,     *)
(* call_raw, write_to_contract).                                             *)
THEOREM RegionsAreOwned == GuestSpec => []NoDanglingRegion
<1>1. OwnerInv => NoDanglingRegion
  BY Zenon DEF OwnerInv, NoDanglingRegion
<1> QED
  BY <1>1, GuestInitially, OwnerStep, PTL DEF GuestSpec

--------------------------------------------------------------------------------
(* The regions an import or an entry point is about to consume, and the      *)
(* ones that nobody will.                                                    *)
InUse ==
  CASE pc \in {"arguments", "entry"} -> Range(args)
    [] pc \in {"import", "answer"} -> Range(op.borrowed) \cup Range(op.buffer) \cup Range(op.answer)
    [] OTHER -> {}

Orphans == {p \in Pointers : heap[p] # Free /\ p \notin InUse}

UseInv ==
  pc \in {"import", "answer"} =>
    /\ op.borrowed \in Seq(Pointers)
    /\ pc = "import" => op.answer = <<>>
    /\ Range(op.buffer) \cap Range(op.answer) = {}

OrphanInv == UseInv /\ (~failed => Cardinality(Orphans) = lost)

(* A step that leaves nothing behind, unless the call fails.                 *)
Tidy == UseInv' /\ (~failed' => ~failed /\ lost' = lost /\ \A q \in Pointers : q \in Orphans' <=> q \in Orphans)

(* InUse, by where the call is.                                              *)
LEMMA InUseValues ==
  /\ pc \in {"arguments", "entry"} => InUse = Range(args)
  /\ pc \in {"import", "answer"} => InUse = Range(op.borrowed) \cup Range(op.buffer) \cup Range(op.answer)
  /\ pc \in {"idle", "contract", "result"} => InUse = {}
  /\ pc' \in {"arguments", "entry"} => InUse' = Range(args')
  /\ pc' \in {"import", "answer"} => InUse' = Range(op'.borrowed) \cup Range(op'.buffer) \cup Range(op'.answer)
  /\ pc' \in {"idle", "contract", "result"} => InUse' = {}
  BY DEF InUse

(* Where no import is under way, only the orphans count.                     *)
LEMMA TidyRest ==
  ASSUME pc' \in {"idle", "contract", "result", "arguments", "entry"},
         ~failed' => ~failed /\ lost' = lost /\ \A q \in Pointers : q \in Orphans' <=> q \in Orphans
  PROVE  Tidy
  BY Zenon DEF Tidy, UseInv

(* A call that fails is not tidy, and need not be.                           *)
LEMMA TidyFailure == ASSUME Abort PROVE Tidy
  BY Zenon, TidyRest DEF Abort

(* The elements of short sequences.                                          *)
LEMMA RangeOfEmpty == Range(<<>>) = {}
  BY DEF Range

LEMMA RangeOfOne == \A x : Range(<<x>>) = {x}
  BY DEF Range

(* The elements of two sequences joined.                                     *)
LEMMA RangeOfConcat ==
  ASSUME NEW S, NEW s \in Seq(S), NEW t \in Seq(S)
  PROVE  Range(s \o t) = Range(s) \cup Range(t)
<1>1. PICK m \in Nat, n \in Nat : m = Len(s) /\ n = Len(t) /\ DOMAIN s = 1 .. m /\ DOMAIN t = 1 .. n
  BY Zenon, SequenceType
<1>2. /\ s \o t \in Seq(S) /\ Len(s \o t) = m + n
      /\ \A i \in 1 .. m + n : (s \o t)[i] = IF i <= m THEN s[i] ELSE t[i - m]
  BY Zenon, <1>1, Concatenation
<1>3. PICK u : u = s \o t /\ DOMAIN u = 1 .. m + n
  BY Zenon, <1>2, SequenceType
<1>4. \A i \in 1 .. m + n : \/ i \in 1 .. m /\ u[i] = s[i]
                            \/ i - m \in 1 .. n /\ u[i] = t[i - m]
  BY <1>2, <1>3
<1>5. \A i \in 1 .. m : i \in 1 .. m + n /\ u[i] = s[i]
  BY <1>2, <1>3
<1>6. ASSUME NEW i \in 1 .. n PROVE m + i \in 1 .. m + n /\ u[m + i] = t[i]
  <2>1. m + i \in 1 .. m + n /\ ~(m + i <= m) /\ (m + i) - m = i
    OBVIOUS
  <2> QED
    BY Zenon, <1>2, <1>3, <2>1
<1>7. ASSUME NEW x \in Range(u) PROVE x \in Range(s) \cup Range(t)
  <2>1. PICK i \in 1 .. m + n : u[i] = x
    BY Zenon, <1>3, <1>7 DEF Range
  <2> QED
    BY Zenon, <1>1, <1>4, <2>1 DEF Range
<1>8. ASSUME NEW x \in Range(s) PROVE x \in Range(u)
  BY Zenon, <1>1, <1>3, <1>5, <1>8 DEF Range
<1>9. ASSUME NEW x \in Range(t) PROVE x \in Range(u)
  <2>1. PICK i \in 1 .. n : t[i] = x
    BY Zenon, <1>1, <1>9 DEF Range
  <2> QED
    BY Zenon, <1>3, <1>6, <2>1 DEF Range
<1> QED
  BY Zenon, <1>3, <1>7, <1>8, <1>9

(* Pointers that are put somewhere else.                                     *)
LEMMA PutElsewhere ==
  ASSUME NEW h, NEW p, NEW regions, NEW q \in Pointers, q \notin Range(p)
  PROVE  Put(h, p, regions)[q] = h[q]
<1>1. ~\E i \in DOMAIN p : p[i] = q
  BY Zenon DEF Range
<1> QED
  BY Zenon, <1>1 DEF Put

(* Regions that are not consumed.                                            *)
LEMMA ConsumeElsewhere ==
  ASSUME NEW h, NEW p, NEW q \in Pointers
  PROVE  consume_regions(h, p)[q] = IF q \in Range(p) THEN Free ELSE h[q]
  BY Zenon DEF consume_regions

(* The region for an answer, an argument or a result.                        *)
LEMMA OnePointer ==
  ASSUME HeapInv, HasRoom(heap, 1), NEW p, p = Lowest(heap, 1)
  PROVE  /\ p \in Seq(Pointers) /\ p # <<>>
         /\ \E q \in Pointers : p = <<q>> /\ Range(p) = {q} /\ heap[q] = Free
<1>1. p \in [1 .. 1 -> Pointers] /\ AllOf(heap, p, "free")
  BY LowestFree
<1>2. p \in Seq(Pointers)
  BY <1>1, SequencesAreFunctions
<1>3. Len(p) = 1 /\ p[1] \in Pointers /\ heap[p[1]].kind = "free"
  BY <1>1, <1>2, SequenceType DEF AllOf
<1>4. p = <<p[1]>> /\ p # <<>>
  BY <1>2, <1>3
<1>5. heap[p[1]] = Free
  BY Zenon, <1>3 DEF HeapInv, HeapOK
<1> QED
  BY Zenon, <1>2, <1>3, <1>4, <1>5, RangeOfOne

(* An argument is in use until the contract has entered.                     *)
LEMMA TidyArgument ==
  ASSUME OwnerInv, WriteArgument
  PROVE  Tidy
<1>1. CASE Abort
  BY Zenon, <1>1, TidyFailure
<1>2. CASE /\ HasRoom(heap, 1) /\ UNCHANGED <<pc, failed>>
           /\ heap' = Put(heap, Lowest(heap, 1), <<release_buffer(<<1>>)>>)
           /\ args' = args \o Lowest(heap, 1)
  <2>1. PICK p : p = Lowest(heap, 1)
    BY Zenon
  <2>2. PICK a \in Pointers : p \in Seq(Pointers) /\ Range(p) = {a} /\ heap[a] = Free
    BY Zenon, <1>2, <2>1, OnePointer DEF OwnerInv
  <2>3. args \in Seq(Pointers) /\ pc = "arguments" /\ pc' = "arguments" /\ lost' = lost
    BY Zenon, <1>2 DEF WriteArgument, OwnerInv, ArgsInv
  <2>4. Range(args') = Range(args) \cup {a}
    BY <1>2, <2>1, <2>2, <2>3, RangeOfConcat
  <2>5. InUse' = InUse \cup {a}
    BY Zenon, <2>3, <2>4, InUseValues
  <2>6. \A q \in Pointers : q # a => heap'[q] = heap[q]
    BY <1>2, <2>1, <2>2, PutElsewhere
  <2>7. \A q \in Pointers : q \in Orphans' <=> q \in Orphans
    BY Zenon, <2>2, <2>5, <2>6 DEF Orphans
  <2> QED
    BY Zenon, <1>2, <2>3, <2>7, TidyRest
<1> QED
  BY Zenon, <1>1, <1>2 DEF WriteArgument

(* The contract consumes all that was in use for it.                         *)
LEMMA TidyEnter ==
  ASSUME OwnerInv, Enter
  PROVE  Tidy
<1>1. pc = "entry" /\ pc' \in {"contract", "result"} /\ UNCHANGED <<lost, failed>>
      /\ heap' = consume_regions(heap, args)
  BY Zenon DEF Enter
<1>2. InUse = Range(args) /\ InUse' = {}
  BY Zenon, <1>1, InUseValues
<1>3. \A q \in Pointers : heap'[q] = IF q \in InUse THEN Free ELSE heap[q]
  BY Zenon, <1>1, <1>2, ConsumeElsewhere
<1>4. \A q \in Pointers : q \in Orphans' <=> q \in Orphans
  BY Zenon, <1>2, <1>3 DEF Orphans
<1> QED
  BY Zenon, <1>1, <1>4, TidyRest

(* The result is freed when it has been read.                                *)
LEMMA TidyResult ==
  ASSUME OwnerInv, NEW result, ReturnResult(result)
  PROVE  Tidy
<1>1. CASE Abort
  BY Zenon, <1>1, TidyFailure
<1>2. CASE /\ HasRoom(heap, 1) /\ UNCHANGED failed /\ pc' = "idle"
           /\ heap' = consume_regions(Put(heap, Lowest(heap, 1), <<release_buffer(result)>>),
                                      Lowest(heap, 1))
  <2>1. PICK p, h : p = Lowest(heap, 1) /\ h = Put(heap, p, <<release_buffer(result)>>)
    BY Zenon
  <2>2. PICK a \in Pointers : Range(p) = {a} /\ heap[a] = Free
    BY Zenon, <1>2, <2>1, OnePointer DEF OwnerInv
  <2>3. \A q \in Pointers : q # a => h[q] = heap[q]
    <3>1. ASSUME NEW q \in Pointers, q # a PROVE h[q] = heap[q]
      <4>1. q \notin Range(p)
        BY Zenon, <2>2, <3>1
      <4>2. Put(heap, p, <<release_buffer(result)>>)[q] = heap[q]
        BY ZenonT(60), <4>1, PutElsewhere
      <4> QED
        BY Zenon, <2>1, <4>2
    <3> QED
      BY Zenon, <3>1
  <2>4. \A q \in Pointers : heap'[q] = IF q \in {a} THEN Free ELSE h[q]
    BY Zenon, <1>2, <2>1, <2>2, ConsumeElsewhere
  <2>5. InUse = {} /\ InUse' = {} /\ lost' = lost
    BY Zenon, <1>2, InUseValues DEF ReturnResult
  <2>6. \A q \in Pointers : q \in Orphans' <=> q \in Orphans
    BY Zenon, <2>2, <2>3, <2>4, <2>5 DEF Orphans
  <2> QED
    BY Zenon, <1>2, <2>5, <2>6, TidyRest
<1> QED
  BY Zenon, <1>1, <1>2 DEF ReturnResult

(* What an import needs is in use.                                           *)
LEMMA TidyPrepare ==
  ASSUME OwnerInv, NEW fn, NEW inputs, NEW buffers, NEW details,
         Prepares(fn, inputs, buffers, details)
  PROVE  Tidy
<1>. PICK k \in 0 .. 3 : k = Len(inputs)
  BY Zenon DEF Prepares
<1>0. buffers \in 0 .. 1 /\ k + buffers \in 0 .. 3 /\ Prepare(fn, inputs, buffers, details)
  BY Zenon DEF Prepares
<1>1. PICK n \in 0 .. 3 : n = k + buffers
  BY Zenon, <1>0
<1>2. PICK p, borrowed, buffer : /\ p = Lowest(heap, n) /\ borrowed = SubSeq(p, 1, k)
                                 /\ buffer = SubSeq(p, k + 1, Len(p))
  BY Zenon
<1>3. /\ HasRoom(heap, n) /\ \E regions : heap' = Put(heap, p, regions)
      /\ op' = [fn |-> fn, inputs |-> inputs, details |-> details, answer |-> <<>>,
                borrowed |-> borrowed, buffer |-> buffer]
      /\ pc = "contract" /\ pc' = "import" /\ UNCHANGED <<lost, failed>>
  BY Zenon, <1>0, <1>1, <1>2 DEF Prepare
<1>4. p \in [1 .. n -> Pointers] /\ AllOf(heap, p, "free")
  BY Zenon, <1>2, <1>3, LowestFree DEF OwnerInv
<1>5. p \in Seq(Pointers) /\ DOMAIN p = 1 .. n /\ Len(p) = n
  <2>1. p \in Seq(Pointers) /\ DOMAIN p = 1 .. n /\ n \in Nat
    BY <1>4, SequencesAreFunctions
  <2> QED
    BY <2>1, SequenceType
<1>6. /\ borrowed \in Seq(Pointers) /\ buffer \in Seq(Pointers)
      /\ DOMAIN borrowed = 1 .. k /\ \A i \in 1 .. k : borrowed[i] = p[i]
      /\ DOMAIN buffer = 1 .. n - k /\ \A i \in 1 .. n - k : buffer[i] = p[i + k]
  BY <1>0, <1>1, <1>2, <1>5
<1>7. Range(p) = Range(borrowed) \cup Range(buffer)
  <2>1. \A i \in 1 .. n : i \in 1 .. k \/ (i - k \in 1 .. n - k /\ (i - k) + k = i)
    BY <1>0, <1>1
  <2>2. \A i \in 1 .. k : i \in 1 .. n
    BY <1>0, <1>1
  <2>3. \A i \in 1 .. n - k : i + k \in 1 .. n
    BY <1>0, <1>1
  <2>4. \A i \in 1 .. n : p[i] \in Range(borrowed) \cup Range(buffer)
    <3> TAKE i \in 1 .. n
    <3>1. CASE i \in 1 .. k
      BY Zenon, <1>6, <3>1 DEF Range
    <3>2. CASE i - k \in 1 .. n - k /\ (i - k) + k = i
      BY Zenon, <1>6, <3>2 DEF Range
    <3> QED
      BY Zenon, <2>1, <3>1, <3>2
  <2>5. Range(p) \subseteq Range(borrowed) \cup Range(buffer)
    BY Zenon, <1>5, <2>4 DEF Range
  <2>6. Range(borrowed) \subseteq Range(p)
    <3>1. \A i \in 1 .. k : borrowed[i] \in Range(p)
      BY Zenon, <1>5, <1>6, <2>2 DEF Range
    <3> QED
      BY Zenon, <1>6, <3>1 DEF Range
  <2>7. Range(buffer) \subseteq Range(p)
    <3>1. \A i \in 1 .. n - k : buffer[i] \in Range(p)
      BY Zenon, <1>5, <1>6, <2>3 DEF Range
    <3> QED
      BY Zenon, <1>6, <3>1 DEF Range
  <2> QED
    BY Zenon, <2>5, <2>6, <2>7
<1>8. op'.borrowed = borrowed /\ op'.buffer = buffer /\ op'.answer = <<>>
  BY Zenon, <1>3
<1>9. InUse = {} /\ InUse' = Range(p)
  BY Zenon, <1>3, <1>7, <1>8, InUseValues, RangeOfEmpty
<1>10. \A q \in Range(p) : heap[q] = Free
  <2>1. \A i \in 1 .. n : heap[p[i]] = Free
    BY Zenon, <1>4, <1>5 DEF AllOf, OwnerInv, HeapInv, HeapOK
  <2> QED
    BY Zenon, <1>5, <2>1 DEF Range
<1>11. \A q \in Pointers : q \notin Range(p) => heap'[q] = heap[q]
  <2>1. PICK regions : heap' = Put(heap, p, regions)
    BY Zenon, <1>3
  <2>2. ASSUME NEW q \in Pointers, q \notin Range(p) PROVE heap'[q] = heap[q]
    <3>1. Put(heap, p, regions)[q] = heap[q]
      BY ZenonT(60), <2>2, PutElsewhere
    <3> QED
      BY Zenon, <2>1, <3>1
  <2> QED
    BY Zenon, <2>2
<1>12. \A q \in Pointers : q \in Orphans' <=> q \in Orphans
  BY Zenon, <1>9, <1>10, <1>11 DEF Orphans
<1> QED
  BY Zenon, <1>3, <1>6, <1>8, <1>12, RangeOfEmpty DEF Tidy, UseInv

(* The VM answers an import, or the call ends.                               *)
LEMMA TidyImport ==
  ASSUME OwnerInv, UseInv, pc = "import", Reads
  PROVE  /\ NoAnswer => Tidy
         /\ \A data : AnswerWith(data) => Tidy
<1>1. lost' = lost
  BY Zenon DEF Reads
<1>2. /\ op = [fn |-> op.fn, inputs |-> op.inputs, details |-> op.details, answer |-> op.answer,
               borrowed |-> op.borrowed, buffer |-> op.buffer]
      /\ op.borrowed \in Seq(Pointers) /\ op.answer = <<>>
      /\ InUse = Range(op.borrowed) \cup Range(op.buffer) \cup Range(op.answer)
  BY Zenon, InUseValues DEF OwnerInv, OpInv, UseInv
<1>3. ASSUME NoAnswer PROVE Tidy
  <2>1. InUse' = InUse /\ UNCHANGED <<heap, op, failed>> /\ pc' = "answer"
    BY Zenon, <1>2, <1>3, InUseValues DEF NoAnswer
  <2> QED
    BY Zenon, <1>1, <1>2, <2>1 DEF Tidy, UseInv, Orphans
<1>4. ASSUME NEW data, AnswerWith(data) PROVE Tidy
  <2>1. CASE Abort
    BY Zenon, <2>1, TidyFailure
  <2>2. CASE /\ HasRoom(heap, 1) /\ heap' = Put(heap, Lowest(heap, 1), <<release_buffer(data)>>)
             /\ op' = [op EXCEPT !.answer = Lowest(heap, 1)] /\ pc' = "answer" /\ UNCHANGED failed
    <3>1. PICK p : p = Lowest(heap, 1)
      BY Zenon
    <3>2. PICK a \in Pointers : Range(p) = {a} /\ heap[a] = Free
      BY Zenon, <2>2, <3>1, OnePointer DEF OwnerInv
    <3>3. op' = [fn |-> op.fn, inputs |-> op.inputs, details |-> op.details, answer |-> p,
                 borrowed |-> op.borrowed, buffer |-> op.buffer]
      BY Zenon, <1>2, <2>2, <3>1
    <3>4. op'.answer = p /\ op'.borrowed = op.borrowed /\ op'.buffer = op.buffer
      BY Zenon, <3>3
    <3>5. InUse' = InUse \cup {a}
      BY Zenon, <1>2, <2>2, <3>2, <3>4, InUseValues, RangeOfEmpty
    <3>6. a \notin Range(op.buffer)
      <4>1. op.buffer = <<>> \/ \E q \in Pointers : op.buffer = <<q>> /\ heap[q].kind = "owned"
        BY Zenon DEF OwnerInv, OpInv
      <4>2. heap[a].kind = "free"
        <5>1. Free.kind = "free"
          BY DEF Free
        <5> QED
          BY Zenon, <3>2, <5>1
      <4>3. CASE op.buffer = <<>>
        BY Zenon, <4>3, RangeOfEmpty
      <4>4. ASSUME NEW q \in Pointers, op.buffer = <<q>>, heap[q].kind = "owned"
            PROVE  a \notin Range(op.buffer)
        <5>1. a # q
          BY Zenon, <4>2, <4>4
        <5> QED
          BY Zenon, <4>4, <5>1, RangeOfOne
      <4> QED
        BY Zenon, <4>1, <4>3, <4>4
    <3>7. \A q \in Pointers : q # a => heap'[q] = heap[q]
      BY <2>2, <3>1, <3>2, PutElsewhere
    <3>8. \A q \in Pointers : q \in Orphans' <=> q \in Orphans
      BY Zenon, <3>2, <3>5, <3>7 DEF Orphans
    <3>9. UseInv'
      BY Zenon, <1>2, <2>2, <3>2, <3>4, <3>6 DEF UseInv
    <3> QED
      BY Zenon, <1>1, <2>2, <3>8, <3>9 DEF Tidy
  <2> QED
    BY Zenon, <1>4, <2>1, <2>2 DEF AnswerWith
<1> QED
  BY Zenon, <1>3, <1>4

(* The imports that only answer.                                             *)
LEMMA TidyHostImport ==
  ASSUME OwnerInv, UseInv,
         do_db_read \/ do_db_write \/ do_db_remove \/ do_db_scan \/ do_db_next
           \/ do_crypto \/ do_query_chain
  PROVE  Tidy
<1>1. pc = "import" /\ Reads
  BY Zenon DEF do_db_read, do_db_write, do_db_remove, do_db_scan, do_db_next, do_crypto, do_query_chain,
         Importing
<1>2. Abort \/ NoAnswer \/ \E data : AnswerWith(data)
  <2>1. CASE do_db_read
    BY Zenon, <2>1 DEF do_db_read, Fails
  <2>2. CASE do_db_write \/ do_db_remove
    BY Zenon, <2>2 DEF do_db_write, do_db_remove, WriteThrough, Fails
  <2>3. CASE do_db_scan
    BY Zenon, <2>3 DEF do_db_scan, Fails
  <2>4. CASE do_db_next
    BY Zenon, <2>4 DEF do_db_next, Fails
  <2>5. CASE do_crypto \/ do_query_chain
    BY Zenon, <2>5 DEF do_crypto, do_query_chain, Fails
  <2> QED
    BY Zenon, <2>1, <2>2, <2>3, <2>4, <2>5
<1> QED
  BY Zenon, <1>1, <1>2, TidyImport, TidyFailure

(* An address is written into a region that is in use.                       *)
LEMMA TidyAddress ==
  ASSUME OwnerInv, UseInv, do_addr
  PROVE  Tidy
<1>1. pc = "import" /\ Reads /\ lost' = lost
  BY Zenon DEF do_addr, Reads
<1>2. CASE Abort \/ AnswerWith(ErrorMessage)
  BY Zenon, <1>1, <1>2, TidyImport, TidyFailure
<1>3. CASE /\ UNCHANGED <<op, failed>> /\ pc' = "answer"
           /\ IF op.buffer = <<>> THEN UNCHANGED heap
              ELSE heap' = [heap EXCEPT ![op.buffer[1]].data = <<1>>]
  <2>1. InUse' = InUse /\ Range(op.buffer) \subseteq InUse
    BY Zenon, <1>1, <1>3, InUseValues
  <2>2. \A q \in Pointers : q \notin InUse => heap'[q] = heap[q]
    <3>1. CASE op.buffer = <<>>
      BY Zenon, <1>3, <3>1
    <3>2. CASE op.buffer # <<>>
      <4>1. PICK p \in Pointers : op.buffer = <<p>>
        BY Zenon, <1>1, <3>2 DEF OwnerInv, OpInv
      <4>2. op.buffer[1] = p /\ p \in InUse
        BY <2>1, <4>1, RangeOfOne
      <4>3. DOMAIN heap = Pointers /\ heap' = [heap EXCEPT ![p] = [heap[p] EXCEPT !.data = <<1>>]]
        BY Zenon, <1>3, <3>2, <4>2 DEF OwnerInv, HeapInv, HeapOK
      <4> QED
        BY Zenon, <4>2, <4>3
    <3> QED
      BY Zenon, <3>1, <3>2
  <2>3. \A q \in Pointers : q \in Orphans' <=> q \in Orphans
    BY Zenon, <2>1, <2>2 DEF Orphans
  <2>4. UseInv'
    BY Zenon, <1>1, <1>3 DEF UseInv
  <2> QED
    BY Zenon, <1>1, <1>3, <2>3, <2>4 DEF Tidy
<1> QED
  BY Zenon, <1>2, <1>3 DEF do_addr, Fails

(* Taking the answer leaves the buffer of an address behind when the answer  *)
(* is an error, and nothing else.                                            *)
LEMMA OrphanReceive ==
  ASSUME OwnerInv, OrphanInv, Receive
  PROVE  OrphanInv'
<1>1. pc = "answer"
  BY Zenon DEF Receive
<1>2. CASE Abort
  BY Zenon, <1>2 DEF Abort, OrphanInv, UseInv
<1>3. CASE /\ heap' = consume_regions(heap, Received \o op.borrowed) /\ pc' = "contract"
           /\ lost' = lost + Len(op.buffer) * Len(op.answer) /\ UNCHANGED failed
  <2>1. /\ op.borrowed \in Seq(Pointers) /\ InUse' = {}
        /\ InUse = Range(op.borrowed) \cup Range(op.buffer) \cup Range(op.answer)
    BY Zenon, <1>1, <1>3, InUseValues DEF OrphanInv, UseInv
  <2>2. /\ op.buffer = <<>> \/ \E p \in Pointers : op.buffer = <<p>> /\ heap[p].kind = "owned"
        /\ op.answer = <<>> \/ \E p \in Pointers : op.answer = <<p>>
        /\ AllOf(heap, op.borrowed, "borrowed")
    BY Zenon, <1>1 DEF OwnerInv, OpInv
  <2>3. op.buffer \in Seq(Pointers) /\ op.answer \in Seq(Pointers)
    <3>1. <<>> \in Seq(Pointers) /\ \A p \in Pointers : <<p>> \in Seq(Pointers)
      OBVIOUS
    <3> QED
      BY Zenon, <2>2, <3>1
  <2>4. PICK took : took = Range(op.answer) \cup (IF op.answer = <<>> THEN Range(op.buffer) ELSE {})
    BY Zenon
  <2>5. Range(Received \o op.borrowed) = took \cup Range(op.borrowed)
    <3>1. PICK rest : rest = IF op.answer = <<>> THEN op.buffer ELSE <<>>
      BY Zenon
    <3>2. rest \in Seq(Pointers) /\ Received = op.answer \o rest
      BY <2>3, <3>1 DEF Received
    <3>3. Range(rest) = IF op.answer = <<>> THEN Range(op.buffer) ELSE {}
      BY Zenon, <3>1, RangeOfEmpty
    <3>4. Received \in Seq(Pointers) /\ Range(Received) = Range(op.answer) \cup Range(rest)
      BY <2>3, <3>2, RangeOfConcat
    <3> QED
      BY <2>1, <2>4, <3>3, <3>4, RangeOfConcat
  <2>6. \A q \in Pointers : heap'[q] = IF q \in took \cup Range(op.borrowed) THEN Free ELSE heap[q]
    BY Zenon, <1>3, <2>5, ConsumeElsewhere
  <2>7. UseInv'
    BY Zenon, <1>3 DEF UseInv
  <2>8. CASE op.answer = <<>> \/ op.buffer = <<>>
    <3>1. took = Range(op.answer) \cup Range(op.buffer)
      BY Zenon, <2>4, <2>8, RangeOfEmpty
    <3>2. Orphans' = Orphans
      BY Zenon, <2>1, <2>6, <3>1 DEF Orphans
    <3>3. Len(op.buffer) * Len(op.answer) = 0
      <4>1. Len(op.buffer) \in Nat /\ Len(op.answer) \in Nat
        BY Zenon, <2>3, SequenceType
      <4>2. PICK m \in Nat, n \in Nat : m = Len(op.buffer) /\ n = Len(op.answer)
        BY Zenon, <4>1
      <4>3. m = 0 \/ n = 0
        BY <2>8, <4>2
      <4>4. m * n = 0
        BY <4>3
      <4> QED
        BY Zenon, <4>2, <4>4
    <3>4. ~failed => lost \in Nat
      <4>1. IsFiniteSet(Orphans)
        <5>1. IsFiniteSet(Pointers)
          BY RegionsAssumption, FS_Interval DEF Pointers
        <5> QED
          BY Zenon, <5>1, FS_Subset DEF Orphans
      <4> QED
        BY Zenon, <4>1, FS_CardinalityType DEF OrphanInv
    <3>5. ~failed => lost' = lost
      <4>1. lost' = lost + 0
        BY Zenon, <1>3, <3>3
      <4> QED
        BY <3>4, <4>1
    <3> QED
      BY Zenon, <1>3, <2>7, <3>2, <3>5 DEF OrphanInv
  <2>9. CASE op.answer # <<>> /\ op.buffer # <<>>
    <3>1. PICK b \in Pointers : op.buffer = <<b>> /\ heap[b].kind = "owned"
      BY Zenon, <2>2, <2>9
    <3>2. PICK a \in Pointers : op.answer = <<a>>
      BY Zenon, <2>2, <2>9
    <3>3. /\ took = {a} /\ Range(op.buffer) = {b} /\ Range(op.answer) = {a}
          /\ InUse = Range(op.borrowed) \cup {b} \cup {a}
      BY Zenon, <2>1, <2>4, <2>9, <3>1, <3>2, RangeOfOne
    <3>4. b # a /\ b \notin Range(op.borrowed) /\ heap[b] # Free
      <4>1. b # a
        BY Zenon, <1>1, <3>3 DEF OrphanInv, UseInv
      <4>2. b \notin Range(op.borrowed)
        <5>1. \A i \in DOMAIN op.borrowed : heap[op.borrowed[i]].kind = "borrowed"
          BY Zenon, <2>2 DEF AllOf
        <5>2. \A i \in DOMAIN op.borrowed : op.borrowed[i] # b
          BY Zenon, <3>1, <5>1
        <5> QED
          BY Zenon, <5>2 DEF Range
      <4>3. heap[b] # Free
        BY <3>1 DEF Free
      <4> QED
        BY Zenon, <4>1, <4>2, <4>3
    <3>5. Orphans' = Orphans \cup {b} /\ b \notin Orphans
      <4>1. \A q \in Pointers : heap'[q] # Free <=> heap[q] # Free /\ q # a /\ q \notin Range(op.borrowed)
        BY Zenon, <2>6, <3>3
      <4>2. \A q \in Pointers : q \in Orphans' <=> q \in Orphans \/ q = b
        BY Zenon, <2>1, <3>3, <3>4, <4>1 DEF Orphans
      <4>3. Orphans \subseteq Pointers /\ Orphans' \subseteq Pointers /\ b \notin Orphans
        BY Zenon, <3>3 DEF Orphans
      <4> QED
        BY Zenon, <4>2, <4>3
    <3>6. IsFiniteSet(Orphans)
      <4>1. IsFiniteSet(Pointers)
        BY RegionsAssumption, FS_Interval DEF Pointers
      <4> QED
        BY Zenon, <4>1, FS_Subset DEF Orphans
    <3>7. Cardinality(Orphans') = Cardinality(Orphans) + 1
      BY Zenon, <3>5, <3>6, FS_AddElement
    <3>8. Len(op.buffer) * Len(op.answer) = 1
      BY <3>1, <3>2
    <3>9. ~failed' => Cardinality(Orphans') = lost'
      BY Zenon, <1>3, <3>7, <3>8 DEF OrphanInv
    <3> QED
      BY Zenon, <2>7, <3>9 DEF OrphanInv
  <2> QED
    BY Zenon, <2>8, <2>9
<1> QED
  BY Zenon, <1>2, <1>3 DEF Receive

(* Every step keeps the count of the orphans.                                *)
LEMMA OrphanStep ==
  ASSUME OwnerInv, OrphanInv, [GuestNext]_guestVars
  PROVE  OrphanInv'
<1>1. ASSUME Tidy PROVE OrphanInv'
  <2>1. ~failed' => Orphans' = Orphans
    BY Zenon, <1>1 DEF Tidy, Orphans
  <2> QED
    BY Zenon, <1>1, <2>1 DEF Tidy, OrphanInv
<1>2. CASE \E e \in Entries : BeginCall(e)
  <2>1. /\ args' = <<>> /\ pc = "idle" /\ pc' = "arguments" /\ UNCHANGED <<heap, lost, failed>>
        /\ InUse = {} /\ InUse' = {}
    BY Zenon, <1>2, InUseValues, RangeOfEmpty DEF BeginCall, memoryVars
  <2> QED
    BY Zenon, <1>1, <2>1, TidyRest DEF Orphans
<1>3. CASE WriteArgument
  BY Zenon, <1>1, <1>3, TidyArgument
<1>4. CASE CallFunction
  <2>1. CASE Abort
    BY Zenon, <1>1, <2>1, TidyFailure
  <2>2. CASE pc' = "entry" /\ UNCHANGED failed
    <3>1. UNCHANGED <<heap, lost>> /\ InUse = Range(args) /\ InUse' = Range(args)
      BY Zenon, <1>4, <2>2, InUseValues DEF CallFunction, memoryVars
    <3> QED
      BY Zenon, <1>1, <2>2, <3>1, TidyRest DEF Orphans
  <2> QED
    BY Zenon, <1>4, <2>1, <2>2 DEF CallFunction
<1>5. CASE \E length \in {1, ResultLimit + 1} : ReturnResult([i \in 1 .. length |-> 1])
  BY Zenon, <1>1, <1>5, TidyResult
<1>6. CASE do_db_read \/ do_db_write \/ do_db_remove \/ do_db_scan \/ do_db_next
             \/ do_crypto \/ do_query_chain
  BY Zenon, <1>1, <1>6, TidyHostImport DEF OrphanInv
<1>7. CASE do_addr
  BY Zenon, <1>1, <1>7, TidyAddress DEF OrphanInv
<1>8. CASE Enter
  BY Zenon, <1>1, <1>8, TidyEnter
<1>9. CASE Finish
  <2>1. /\ UNCHANGED <<heap, lost>> /\ InUse = {} /\ InUse' = {} /\ pc' \in {"result", "idle"}
        /\ failed' = (failed \/ pc' = "idle")
    BY Zenon, <1>9, InUseValues DEF Finish, memoryVars
  <2> QED
    BY Zenon, <1>1, <2>1, TidyRest DEF Orphans
<1>10. CASE Receive
  BY Zenon, <1>10, OrphanReceive
<1>11. CASE \E fn, inputs, buffers, details : Prepares(fn, inputs, buffers, details)
  BY Zenon, <1>1, <1>11, TidyPrepare
<1>12. CASE UNCHANGED guestVars
  BY Zenon, <1>12 DEF guestVars, memoryVars, OrphanInv, UseInv, Orphans, InUse
<1> QED
  BY Zenon, <1>2, <1>3, <1>4, <1>5, <1>6, <1>7, <1>8, <1>9, <1>10, <1>11, <1>12, ContractImports
     DEF GuestNext, HostStep

(* A new instance has no orphans.                                            *)
LEMMA OrphanInitially == GuestInit => OrphanInv
<1> SUFFICES ASSUME GuestInit PROVE OrphanInv
  BY Zenon
<1>1. Orphans = {}
  BY Zenon DEF GuestInit, Orphans
<1>2. Cardinality(Orphans) = 0
  BY Zenon, <1>1, FS_EmptySet
<1> QED
  BY Zenon, <1>2 DEF GuestInit, OrphanInv, UseInv

(* As long as no call has failed, every call gives back all the memory it    *)
(* took, but for the buffers of addresses that the backend refused, for any  *)
(* size of the memory, any entry points and any number of calls and imports  *)
(* (call_raw, consume_region, addr_canonicalize, addr_humanize).             *)
THEOREM MemoryIsFreed == GuestSpec => []SuccessfulCallsFreeMemory
<1>1. OrphanInv => SuccessfulCallsFreeMemory
  <2> SUFFICES ASSUME OrphanInv, pc = "idle", ~failed
               PROVE  Cardinality({p \in Pointers : heap[p] # Free}) = lost
    BY Zenon DEF SuccessfulCallsFreeMemory
  <2>1. Orphans = {p \in Pointers : heap[p] # Free}
    BY Zenon, InUseValues DEF Orphans
  <2> QED
    BY Zenon, <2>1 DEF OrphanInv
<1>2. OwnerInv /\ OrphanInv /\ [GuestNext]_guestVars => OwnerInv' /\ OrphanInv'
  BY Zenon, OwnerStep, OrphanStep
<1> QED
  BY <1>1, <1>2, GuestInitially, OrphanInitially, PTL DEF GuestSpec
================================================================================
