-------------------------------- MODULE KeyValue -------------------------------
(***************************************************************************)
(* The storage a contract works on, as MemoryStorage implements it: a map  *)
(* from keys to values that is read, written and ranged over in the order  *)
(* of its keys.  A key is a sequence of bytes.  An Option is a sequence of *)
(* at most one element, a map the function of its keys.                    *)
(***************************************************************************)
EXTENDS Integers, FiniteSets, Sequences, Functions

EmptyMap == <<>>

(* The order of byte strings; a prefix comes first.                          *)
Less(s, t) ==
  \E i \in 1 .. Len(t) :
    /\ \A j \in 1 .. i - 1 : j <= Len(s) /\ s[j] = t[j]
    /\ i > Len(s) \/ (i <= Len(s) /\ s[i] < t[i])

get(data, key) == IF key \in DOMAIN data THEN <<data[key]>> ELSE <<>>

(* The value is not empty: set panics on an empty one.                       *)
set(data, key, value) ==
  [k \in DOMAIN data \cup {key} |-> IF k = key THEN value ELSE data[k]]

remove(data, key) == [k \in DOMAIN data \ {key} |-> data[k]]

(* range_bounds: the start is included, the end excluded.                    *)
InBounds(key, start, end) ==
  /\ start # <<>> => ~Less(key, start[1])
  /\ end # <<>> => Less(key, end[1])

(* The keys of a range in ascending order; empty when start > end.           *)
Ascending(keys) ==
  [i \in 1 .. Cardinality(keys) |->
    CHOOSE k \in keys : Cardinality({l \in keys : Less(l, k)}) = i - 1]

range(data, start, end, order) ==
  LET keys == Ascending({k \in DOMAIN data : InBounds(k, start, end)})
      n == Len(keys)
      sorted == IF order = "Ascending" THEN keys ELSE [i \in 1 .. n |-> keys[n + 1 - i]]
  IN  [i \in DOMAIN sorted |-> <<sorted[i], data[sorted[i]]>>]
==============================================================================
