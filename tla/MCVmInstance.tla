---------------------------- MODULE MCVmInstance ----------------------------
(* Instances of VmInstance for TLC.                                         *)
EXTENDS VmInstance

(* Free, external only, cost only, both, and more than the whole limit.     *)
MCGasInfos ==
  {[externally_used |-> e, cost |-> c] : e \in {0, 1, 5}, c \in {0, 1, 2}}
=============================================================================
