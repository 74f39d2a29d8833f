------------------------------- MODULE FifoQueue -------------------------------
(***************************************************************************)
(* What the queue contract promises: values leave in the order in which    *)
(* they came, unless the contract is migrated, which replaces them all.    *)
(***************************************************************************)
EXTENDS Integers, Sequences

CONSTANTS QueueValues, MigratedValues

VARIABLES items,   \* the queue
          taken    \* the value of the last dequeue, if there was one

Init == items = <<>> /\ taken = <<>>

Enqueue == (\E value \in QueueValues : items' = Append(items, value)) /\ UNCHANGED taken

Dequeue ==
  IF items = <<>> THEN taken' = <<>> /\ UNCHANGED items
  ELSE taken' = <<Head(items)>> /\ items' = Tail(items)

Migrate == items' = MigratedValues /\ UNCHANGED taken

Next == Enqueue \/ Dequeue \/ Migrate

Spec == Init /\ [][Next]_<<items, taken>>
==============================================================================
