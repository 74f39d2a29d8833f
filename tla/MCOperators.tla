------------------------------ MODULE MCOperators -----------------------------
(***************************************************************************)
(* The parts of the system without state of their own, call by call, on    *)
(* bounded inputs: numbers, regions and sections, signatures, the static   *)
(* checks of code, addresses, queries, times, calls of a contract, the     *)
(* responses it builds, errors.                                            *)
(***************************************************************************)
EXTENDS StdMath, Calls, Crypto, WasmCheck, Backend, StdTypes

SmallValues64 == 0 .. 7
SmallValues128 == {0, 1, 2, 3, 4, 5, 7, 8, 15, 16, 17, 31, 32, 33, 62, 63}
SmallValues256 == {0, 1, 3, 4, 5, 63, 64, 65, 1023, 1024, 1025, 4094, 4095}
SmallValues512 == {0, 1, 2, 4095, 4096, 4097, 8388607, 8388608, 16777214, 16777215}
SmallDivisors == {0, 1, 3, 5, 63}
SmallTexts == SeqOf({0, 1, 2, 3}, 6)   \* 2 is the plus sign, 3 the dot

Next ==
  \/ MathNext
  \/ RegionNext
  \/ CryptoNext
  \/ EthereumNext
  \/ WasmNext
  \/ AddressNext
  \/ QueryNext
  \/ TypeNext
  \/ CallNext
  \/ ResponseNext
  \/ ErrorNext

Spec == NoInput /\ [][Next]_input

(* A contract gets the same answers in the VM as from native code, through   *)
(* regions, sections, numeric codes and gas; and its answers agree with one  *)
(* another and with the calls that undo them (imports.rs of vm and std, both *)
(* mocks).                                                                   *)
AnswersAgree ==
  /\ SectionsAreRecovered /\ VmAnswersAsNative
  /\ VmAddressesAreNative /\ AddressesRoundTrip /\ UserErrorsReachTheContract
  /\ VmQueriesAreNative /\ PassedOnUnparsed /\ BalancesAgree /\ DelegationsAgree

(* How a call ended reaches the caller as the contract meant it: messages    *)
(* and attributes in the order they were added, results within the limits    *)
(* unchanged, errors with their text, a depletion as one (response.rs,       *)
(* calls.rs, vm_error.rs, std_error.rs).                                     *)
OutcomesAreKept ==
  /\ BuildersAgree /\ ReservedKeysAreReadyMade
  /\ ResultsReachTheCaller
  /\ EqualErrorsPrintAlike /\ ErrorsKeepTheirText /\ DepletionIsTold

(* What crosses the boundary between the VM and a contract arrives as it was *)
(* meant, on the way in and on the way out.                                  *)
BoundaryIsFaithful == AnswersAgree /\ OutcomesAreKept
==============================================================================
