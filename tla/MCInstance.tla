------------------------------ MODULE MCInstance ------------------------------
(***************************************************************************)
(* An instance of a contract for TLC, seen from its two sides, one at a    *)
(* time: the VM with its locks, flags and gas (VmInstance), and what a     *)
(* call does with the memory and the storage of the contract (Guest).  The *)
(* initial state chooses the side that takes steps.  The keys of Guest are *)
(* such that one is a prefix of another and one is too long for the VM;    *)
(* one of the values is empty.                                             *)
(***************************************************************************)
EXTENDS MCVmInstance, Guest

VARIABLE side

SmallGuestKeys == {<<>>, <<1>>, <<1, 1>>}
SmallGuestValues == {<<1>>, <<>>}

InstanceInit == side \in {"vm", "guest"} /\ Init /\ GuestInit

InstanceNext ==
  \/ side = "vm" /\ Next /\ UNCHANGED <<side, guestVars>>
  \/ side = "guest" /\ GuestNext /\ UNCHANGED <<side, vars>>

InstanceSpec == InstanceInit /\ [][InstanceNext]_<<side, vars, guestVars>>
==============================================================================
