------------------------------- MODULE CallInput -------------------------------
(***************************************************************************)
(* Functions without state of their own are checked call by call: the      *)
(* state is the arguments of one call, a record whose field "type" says    *)
(* which functions it is for.                                              *)
(***************************************************************************)
VARIABLE input

NoInput == input = [type |-> "none"]

Is(type) == input.type = type

Provide(calls) == Is("none") /\ input' \in calls
==============================================================================
