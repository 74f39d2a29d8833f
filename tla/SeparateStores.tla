----------------------------- MODULE SeparateStores ----------------------------
(***************************************************************************)
(* What cosmwasm-storage promises: every area is a store of its own and    *)
(* every singleton a cell of its own; a step writes or clears one entry of *)
(* one of them.                                                            *)
(***************************************************************************)
EXTENDS Integers, Sequences

CONSTANTS Areas, Keys, Names,
          StoredValues   \* what a caller may store

VARIABLES store,   \* area -> key -> option
          cells    \* name -> option

Options == {<<>>} \cup {<<v>> : v \in StoredValues}

Entries == Areas \X Keys

Init ==
  /\ \A entry \in Entries : store[entry[1]][entry[2]] = <<>>
  /\ \A name \in Names : cells[name] = <<>>

Write(entry) ==
  /\ store'[entry[1]][entry[2]] \in Options
  /\ \A e \in Entries \ {entry} : store'[e[1]][e[2]] = store[e[1]][e[2]]
  /\ UNCHANGED cells

WriteCell(name) ==
  /\ cells'[name] \in Options
  /\ \A n \in Names \ {name} : cells'[n] = cells[n]
  /\ UNCHANGED store

Next == (\E entry \in Entries : Write(entry)) \/ (\E name \in Names : WriteCell(name))

Spec == Init /\ [][Next]_<<store, cells>>
==============================================================================
