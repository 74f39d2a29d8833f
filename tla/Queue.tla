--------------------------------- MODULE Queue ---------------------------------
(***************************************************************************)
(* The queue contract: a first-in first-out queue of integers kept in the  *)
(* contract storage under one-byte keys, the next key being one more than  *)
(* the greatest.  The contract is compiled with overflow checks: a key or  *)
(* a sum that overflows is a panic, the call fails and changes nothing.    *)
(***************************************************************************)
EXTENDS KeyValue

CONSTANTS QueueValues,     \* values callers enqueue
          LastKey,         \* 255
          LateKey,         \* 0x20, where the two halves of query_list meet
          MigratedValues,  \* the three values migrate enqueues
          IntLimit         \* 2^31

ASSUME QueueAssumption ==
  /\ LastKey \in Nat /\ LastKey >= 2
  /\ LateKey \in Nat /\ IntLimit \in Nat
  /\ MigratedValues = <<MigratedValues[1], MigratedValues[2], MigratedValues[3]>>
  /\ QueueValues \cup {MigratedValues[i] : i \in 1 .. 3} \subseteq -IntLimit .. IntLimit - 1

VARIABLES queue,     \* the contract's storage: one-byte key -> value
          dequeued   \* the data of the last response to a dequeue, an option

queueVars == <<queue, dequeued>>

FIRST_KEY == 0

NoSum == IntLimit   \* the sum panicked: this is no i32

(* A seeded defect: the key is the number of entries.                        *)
enqueue_at_count(storage, value) == set(storage, <<Cardinality(DOMAIN storage)>>, value)

CanEnqueue(storage) == <<LastKey>> \notin DOMAIN storage

enqueue(storage, value) ==
  LET descending == range(storage, <<>>, <<>>, "Descending")
      new_key == IF descending = <<>> THEN FIRST_KEY ELSE descending[1][1][1] + 1
  IN  set(storage, <<new_key>>, value)

handle_enqueue(value) ==
  /\ CanEnqueue(queue)
  /\ queue' = enqueue(queue, value)
  /\ UNCHANGED dequeued

handle_dequeue ==
  LET ascending == range(queue, <<>>, <<>>, "Ascending")
  IN  IF ascending = <<>>
      THEN dequeued' = <<>> /\ UNCHANGED queue
      ELSE /\ queue' = remove(queue, ascending[1][1])
           /\ dequeued' = <<ascending[1][2]>>

(* Clears the storage and enqueues three values.                             *)
migrate ==
  LET first == enqueue(EmptyMap, MigratedValues[1])
      second == enqueue(first, MigratedValues[2])
  IN  /\ queue' = enqueue(second, MigratedValues[3])
      /\ UNCHANGED dequeued

------------------------------------------------------------------------------
(* Queries.                                                                  *)
Stored(start, end) == range(queue, start, end, "Ascending")

query_count == Len(Stored(<<>>, <<>>))

Add32(s, v) == IF s = NoSum \/ s + v \notin -IntLimit .. IntLimit - 1 THEN NoSum ELSE s + v

(* The sum of the values at some of the positions, in their order.           *)
Sum32(values, at) ==
  LET sum[i \in 0 .. Len(values)] ==
        IF i = 0 THEN 0
        ELSE IF i \in at THEN Add32(sum[i - 1], values[i])
        ELSE sum[i - 1]
  IN  sum[Len(values)]

ValuesOf(records) == [i \in DOMAIN records |-> records[i][2]]

query_sum ==
  LET values == ValuesOf(Stored(<<>>, <<>>)) IN Sum32(values, DOMAIN values)

(* Per element, the sum of the greater elements.                             *)
query_reducer ==
  LET values == ValuesOf(Stored(<<>>, <<>>))
  IN  [i \in DOMAIN values |->
        <<values[i], Sum32(values, {j \in DOMAIN values : values[j] > values[i]})>>]

(* "large" and "larger" lie above every one-byte key below them only if     *)
(* they start with that byte: both start with "l".                          *)
query_list(l) ==
  LET keys(records) == [i \in DOMAIN records |-> records[i][1][1]]
  IN  [empty |-> keys(Stored(<<<<l, 0>>>>, <<<<l, 0, 0>>>>)),
       early |-> keys(Stored(<<>>, <<<<LateKey>>>>)),
       late  |-> keys(Stored(<<<<LateKey>>>>, <<>>))]

------------------------------------------------------------------------------
QueueInit == queue = EmptyMap /\ dequeued = <<>>

QueueNext ==
  \/ \E value \in QueueValues : handle_enqueue(value)
  \/ handle_dequeue
  \/ migrate

QueueSpec == QueueInit /\ [][QueueNext]_queueVars

------------------------------------------------------------------------------
(* Properties.                                                               *)

(* The queries describe one and the same queue: the two halves of the list  *)
(* are the keys in order and nothing lies between "large" and "larger"; the *)
(* count is their number; the sum, when it fits, is what the reducer shows  *)
(* for an element smaller than all plus the equals of that element.         *)
QueueQueriesAgree ==
  LET list == query_list(LateKey + 1)
      keys == [i \in DOMAIN Stored(<<>>, <<>>) |-> Stored(<<>>, <<>>)[i][1][1]]
      least == {i \in DOMAIN query_reducer :
                  \A j \in DOMAIN query_reducer : query_reducer[j][1] >= query_reducer[i][1]}
  IN  /\ list.early \o list.late = keys /\ list.empty = <<>>
      /\ query_count = Len(keys)
      /\ \A i \in least :
           query_reducer[i][2] # NoSum /\ query_sum # NoSum =>
             query_sum = query_reducer[i][2] + Cardinality(least) * query_reducer[i][1]

(* The one-byte keys never break the order of the queue: ranged over in key *)
(* order it is a first-in first-out queue, whatever calls were made, up to  *)
(* and including the last key, and its queries agree about it (enqueue,     *)
(* handle_dequeue, migrate, query).                                          *)
Fifo == INSTANCE FifoQueue WITH items <- ValuesOf(Stored(<<>>, <<>>)), taken <- dequeued
QueueIsFifo == Fifo!Spec /\ []QueueQueriesAgree
==============================================================================
