--------------------------- MODULE StorageHelpers ----------------------------
(***************************************************************************)
(* cosmwasm-storage: areas of one contract storage, told apart by length-  *)
(* prefixed keys.  A namespace is put in front of a key with its length in *)
(* two bytes, so that no key of one namespace is a key of another, and the *)
(* keys of a namespace are a range of the whole storage.  PrefixedStorage  *)
(* holds raw values, Bucket and Singleton typed ones, and a sequence is a  *)
(* singleton counter.                                                      *)
(***************************************************************************)
EXTENDS KeyValue

CONSTANTS ByteMax   \* the greatest byte, 255

ASSUME ByteMaxAssumption == ByteMax \in Nat \ {0}

(* The length in two bytes; LengthsAssumption has the names for which this   *)
(* does not panic.                                                           *)
encode_length(namespace) ==
  <<Len(namespace) \div (ByteMax + 1), Len(namespace) % (ByteMax + 1)>>

to_length_prefixed(namespace) == encode_length(namespace) \o namespace

(* A seeded defect: one length for all of the path.                          *)
to_length_prefixed_joined(namespaces) ==
  LET out[i \in 0 .. Len(namespaces)] == IF i = 0 THEN <<>> ELSE out[i - 1] \o namespaces[i]
  IN  to_length_prefixed(out[Len(namespaces)])

to_length_prefixed_nested(namespaces) ==
  LET out[i \in 0 .. Len(namespaces)] ==
        IF i = 0 THEN <<>> ELSE out[i - 1] \o to_length_prefixed(namespaces[i])
  IN  out[Len(namespaces)]

(* An area is a list of nested namespaces; new takes one, multilevel a list. *)
Prefix(area) ==
  IF Len(area) = 1 THEN to_length_prefixed(area[1]) ELSE to_length_prefixed_nested(area)

concat(namespace, key) == namespace \o key

trim(namespace, key) == SubSeq(key, Len(namespace) + 1, Len(key))

(* Increments the last byte without a carry.                                 *)
namespace_upper_bound_last(input) ==
  [i \in DOMAIN input |-> IF i = Len(input) THEN (input[i] + 1) % (ByteMax + 1) ELSE input[i]]

(* Trailing greatest bytes become zero, the byte before them is incremented. *)
namespace_upper_bound(input) ==
  LET last == CHOOSE n \in 0 .. Len(input) :
        /\ n > 0 => input[n] # ByteMax
        /\ \A i \in n + 1 .. Len(input) : input[i] = ByteMax
  IN  [i \in DOMAIN input |->
        IF i > last THEN 0 ELSE IF i = last THEN input[i] + 1 ELSE input[i]]

------------------------------------------------------------------------------

CONSTANTS Areas,        \* the namespaces of buckets and prefixed storages
          Singletons,   \* the names of singletons
          SequenceName, \* the name of the sequence
          Keys,         \* keys within an area
          Values,       \* values of the stored type, positive numbers
          MaxSequence   \* bounds the counter

Garbage == 0   \* bytes that are no value of the stored type

VARIABLES data,    \* the contract's storage
          issued   \* the numbers nextval has returned

storageVars == <<data, issued>>

------------------------------------------------------------------------------
(* Raw access.                                                               *)
get_with_prefix(namespace, key) == get(data, concat(namespace, key))

set_with_prefix(namespace, key, value) == data' = set(data, concat(namespace, key), value)

remove_with_prefix(namespace, key) == data' = remove(data, concat(namespace, key))

range_with_prefix(namespace, start, end, order) ==
  LET from == IF start # <<>> THEN concat(namespace, start[1]) ELSE namespace
      to == IF end # <<>> THEN concat(namespace, end[1]) ELSE namespace_upper_bound(namespace)
      records == range(data, <<from>>, <<to>>, order)
  IN  [i \in DOMAIN records |-> <<trim(namespace, records[i][1]), records[i][2]>>]

------------------------------------------------------------------------------
(* Typed access.  Error is a StdError; Option values as in KeyValue.         *)
Error == -1

Parses(value) == value # Garbage

(* must_deserialize and may_deserialize succeed on:                          *)
MustDeserialize(option) == option # <<>> /\ Parses(option[1])
MayDeserialize(option) == option # <<>> => Parses(option[1])

PrefixedSet(area, key, value) == set_with_prefix(Prefix(area), key, value) /\ UNCHANGED issued

PrefixedRemove(area, key) == remove_with_prefix(Prefix(area), key) /\ UNCHANGED issued

(* Bucket::save: a typed value.                                              *)
BucketSave(area, key, value) == Parses(value) /\ PrefixedSet(area, key, value)

BucketRemove(area, key) == PrefixedRemove(area, key)

(* The caller's action of an update: it counts up, and fails at the end of   *)
(* Values.                                                                   *)
Increment(value) == IF value + 1 \in Values THEN value + 1 ELSE Error
IncrementOr(option) == Increment(IF option = <<>> THEN 0 ELSE option[1])

(* Bucket::update: the caller's action sees the value or none, and may fail. *)
BucketUpdate(area, key) ==
  LET option == get_with_prefix(Prefix(area), key)
  IN  /\ MayDeserialize(option)
      /\ IncrementOr(option) # Error
      /\ BucketSave(area, key, IncrementOr(option))

SingletonKey(name) == to_length_prefixed(name)

SingletonSave(name, value) ==
  data' = set(data, SingletonKey(name), value) /\ UNCHANGED issued

SingletonRemove(name) == data' = remove(data, SingletonKey(name)) /\ UNCHANGED issued

(* Singleton::update fails where there is no value.                          *)
SingletonUpdate(name) ==
  LET option == get(data, SingletonKey(name))
  IN  /\ MustDeserialize(option)
      /\ Increment(option[1]) # Error
      /\ SingletonSave(name, Increment(option[1]))

(* currval: zero if the sequence was never used.                             *)
currval ==
  LET option == get(data, SingletonKey(SequenceName))
  IN  IF option = <<>> THEN 0 ELSE option[1]

nextval ==
  LET val == currval + 1
  IN  /\ currval < MaxSequence
      /\ data' = set(data, SingletonKey(SequenceName), val)
      /\ issued' = Append(issued, val)

(* Reading: a StdResult is [ok, value].                                     *)
StdErr == [ok |-> FALSE]
must_deserialize(option) ==
  IF MustDeserialize(option) THEN [ok |-> TRUE, value |-> option[1]] ELSE StdErr
may_deserialize(option) ==
  IF MayDeserialize(option) THEN [ok |-> TRUE, value |-> option] ELSE StdErr

bucket_load(area, key) == must_deserialize(get_with_prefix(Prefix(area), key))
bucket_may_load(area, key) == may_deserialize(get_with_prefix(Prefix(area), key))

(* Bucket::range: a value that does not parse is an error in its place.      *)
bucket_range(area, start, end, order) ==
  LET records == range_with_prefix(Prefix(area), start, end, order)
  IN  [i \in DOMAIN records |->
         IF Parses(records[i][2]) THEN [ok |-> TRUE, value |-> records[i]] ELSE StdErr]

(* The read-only variants compute the prefix for themselves.                 *)
readonly_prefix(area) == Prefix(area)

readonly_prefixed_get(area, key) == get_with_prefix(readonly_prefix(area), key)
readonly_bucket_load(area, key) == must_deserialize(readonly_prefixed_get(area, key))

singleton_load(name) == must_deserialize(get(data, SingletonKey(name)))
singleton_may_load(name) == may_deserialize(get(data, SingletonKey(name)))
readonly_singleton_load(name) == must_deserialize(get(data, to_length_prefixed(name)))

------------------------------------------------------------------------------
StorageInit == data = EmptyMap /\ issued = <<>>

StorageNext ==
  \/ \E area \in Areas, key \in Keys :
       \/ \E value \in Values \cup {Garbage} : PrefixedSet(area, key, value)
       \/ PrefixedRemove(area, key)
       \/ \E value \in Values : BucketSave(area, key, value)
       \/ BucketRemove(area, key)
       \/ BucketUpdate(area, key)
  \/ \E name \in Singletons :
       \/ \E value \in Values : SingletonSave(name, value)
       \/ SingletonRemove(name)
       \/ SingletonUpdate(name)
  \/ nextval

StorageSpec == StorageInit /\ [][StorageNext]_storageVars

(* Names and keys are bytes.                                                 *)
ASSUME NamesAssumption ==
  LET Bytes == Seq(0 .. ByteMax)
  IN  /\ Areas \subseteq Seq(Bytes) \ {<<>>} /\ Singletons \cup {SequenceName} \subseteq Bytes
      /\ Keys \subseteq Bytes /\ Values \subseteq Nat \ {0} /\ MaxSequence \in Nat

(* Names are constants of a contract: no longer than the 0xFFFF bytes above  *)
(* which encode_length panics, and none makes a prefix of 0xFF bytes only,   *)
(* for which namespace_upper_bound returns wrong data.                       *)
ASSUME LengthsAssumption ==
  /\ \A name \in Singletons \cup {SequenceName} : Len(name) < (ByteMax + 1) * (ByteMax + 1)
  /\ \A area \in Areas : \A level \in DOMAIN area :
       /\ Len(area[level]) < (ByteMax + 1) * (ByteMax + 1)
       /\ \E i \in DOMAIN to_length_prefixed(area[level]) : to_length_prefixed(area[level])[i] # ByteMax

(* An area that is another one or lies within it.                            *)
Within(a, b) == Len(b) <= Len(a) /\ \A i \in 1 .. Len(b) : a[i] = b[i]

(* Areas used side by side: none lies within another, and no singleton is   *)
(* named like the first level of an area.                                   *)
ASSUME AreasApart ==
  /\ \A a, b \in Areas : a # b => ~Within(a, b)
  /\ SequenceName \notin Singletons
  /\ \A a \in Areas : a[1] \notin Singletons \cup {SequenceName}

------------------------------------------------------------------------------
(* Properties.                                                               *)

(* The helpers implement separate stores, one per area and one per          *)
(* singleton: an operation on one changes no other (prefixed_storage.rs,    *)
(* bucket.rs and singleton.rs over length_prefixed.rs).                      *)
Separate == INSTANCE SeparateStores WITH
  StoredValues <- Values \cup {Garbage} \cup 1 .. MaxSequence,
  store <- [area \in Areas |-> [key \in Keys |-> get_with_prefix(Prefix(area), key)]],
  Names <- Singletons \cup {SequenceName},
  cells <- [name \in Singletons \cup {SequenceName} |-> get(data, SingletonKey(name))]
StoresAreSeparate == Separate!Spec

(* A range over an area, with or without bounds and in both directions,     *)
(* returns the records of the area between the bounds in order, with the    *)
(* keys the caller stored, and nothing of another area, though they share   *)
(* one key space and the upper bound of the area is computed with a carry   *)
(* (range_with_prefix and namespace_upper_bound).                            *)
RangeIsTheArea ==
  \A area \in Areas, order \in {"Ascending", "Descending"},
     start \in {<<>>} \cup {<<k>> : k \in Keys}, end \in {<<>>} \cup {<<k>> : k \in Keys} :
    LET stored == {k \in Keys : get_with_prefix(Prefix(area), k) # <<>>}
        own == [k \in stored |-> get_with_prefix(Prefix(area), k)[1]]
    IN  range_with_prefix(Prefix(area), start, end, order) = range(own, start, end, order)

(* What one helper has stored every other one over the same area reads the  *)
(* same way: a read-only bucket or storage sees what the writing one sees,  *)
(* load differs from may_load only where there is nothing, and a range has, *)
(* key by key, what load returns, errors included (bucket.rs, singleton.rs, *)
(* prefixed_storage.rs).                                                     *)
ReadersAgree ==
  /\ \A area \in Areas :
       LET records == bucket_range(area, <<>>, <<>>, "Ascending")
       IN  /\ \A key \in Keys :
                LET load == bucket_load(area, key)
                    may_load == bucket_may_load(area, key)
                IN  /\ readonly_bucket_load(area, key) = load
                    /\ load.ok <=> (may_load.ok /\ may_load.value # <<>>)
                    /\ load.ok => may_load.value = <<load.value>>
           /\ \A i \in DOMAIN records :
                records[i].ok =>
                  bucket_load(area, records[i].value[1]) = [ok |-> TRUE, value |-> records[i].value[2]]
           /\ Len(records) = Cardinality({key \in Keys : readonly_prefixed_get(area, key) # <<>>})
  /\ \A name \in Singletons :
       /\ readonly_singleton_load(name) = singleton_load(name)
       /\ singleton_load(name).ok <=> singleton_may_load(name).ok /\ singleton_may_load(name).value # <<>>

(* nextval returns every number once, counting up from one, whatever else   *)
(* is stored meanwhile (sequence.rs).                                        *)
SequenceCounts == \A i \in DOMAIN issued : issued[i] = i

(* What was written last is found by every way to read it: range, load and  *)
(* read-only access to an area, and the next number of a sequence           *)
(* (packages/storage).                                                       *)
LastWriteIsFound == RangeIsTheArea /\ ReadersAgree /\ SequenceCounts
==============================================================================
