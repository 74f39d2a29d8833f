------------------------------ MODULE StdTypes -------------------------------
(***************************************************************************)
(* Types a contract builds its answers from: times and timeouts, and the   *)
(* responses.                                                              *)
(*                                                                         *)
(* Timestamp is nanoseconds in a u64 with the overflow checks contracts    *)
(* are built with.  A panic is -1.                                         *)
(***************************************************************************)
EXTENDS Messages, SequencesExt, CallInput

CONSTANTS MaxNanos,            \* u64::MAX
          NanosPerSecond,      \* 1_000_000_000
          MaxBlock             \* bound on revisions and heights

ASSUME TimeAssumption == MaxNanos \in Nat /\ NanosPerSecond \in Nat \ {0} /\ MaxBlock \in Nat

Panicked == -1

Checked(n) == IF n \in 0 .. MaxNanos THEN n ELSE Panicked

from_seconds(seconds) == Checked(seconds * NanosPerSecond)

plus_nanos(t, addition) == Checked(t + addition)
minus_nanos(t, subtrahend) == Checked(t - subtrahend)

(* A seeded defect: an overflowing product wraps around.                     *)
plus_seconds_wrapping(t, addition) ==
  plus_nanos(t, (addition * NanosPerSecond) % (MaxNanos + 1))

plus_seconds(t, addition) ==
  IF from_seconds(addition) = Panicked THEN Panicked ELSE plus_nanos(t, from_seconds(addition))

minus_seconds(t, subtrahend) ==
  IF from_seconds(subtrahend) = Panicked THEN Panicked
  ELSE minus_nanos(t, from_seconds(subtrahend))

seconds(t) == t \div NanosPerSecond
subsec_nanos(t) == t % NanosPerSecond

(* Ord::cmp of numbers, and of timeouts                                      *)
Cmp(a, b) == IF a < b THEN -1 ELSE IF a = b THEN 0 ELSE 1

cmp(a, b) ==
  IF Cmp(a.revision, b.revision) = 0 THEN Cmp(a.height, b.height)
  ELSE Cmp(a.revision, b.revision)

is_zero(block) == block.revision = 0 /\ block.height = 0

--------------------------------------------------------------------------------
Blocks == [revision : 0 .. MaxBlock, height : 0 .. MaxBlock]

TypeCalls ==
  [type : {"time"}, t : 0 .. MaxNanos, seconds : 0 .. MaxNanos, nanos : 0 .. MaxNanos]
    \cup [type : {"timeouts"}, a : Blocks, b : Blocks]

TypeNext == Provide(TypeCalls)

(* Time is counted exactly or not at all: plus_seconds adds whole seconds    *)
(* and leaves the fraction alone, minus_seconds takes back what was added,   *)
(* and what does not fit panics, the intermediate product included.          *)
TimeIsExact ==
  Is("time") =>
    LET later == plus_seconds(input.t, input.seconds)
    IN  /\ later # Panicked <=> input.t + input.seconds * NanosPerSecond <= MaxNanos
        /\ later # Panicked => /\ seconds(later) = seconds(input.t) + input.seconds
                               /\ subsec_nanos(later) = subsec_nanos(input.t)
                               /\ minus_seconds(later, input.seconds) = input.t
        /\ plus_nanos(from_seconds(seconds(input.t)), subsec_nanos(input.t)) = input.t
        /\ minus_nanos(input.t, input.nanos) # Panicked
             => plus_nanos(minus_nanos(input.t, input.nanos), input.nanos) = input.t

(* A chain that starts again at height 0 with a new revision is later than   *)
(* any height of an old one: timeouts are ordered as the blocks come, and    *)
(* equal only when they are the same.                                        *)
TimeoutsFollowTheChain ==
  Is("timeouts") =>
    LET Age(block) == block.revision * (MaxBlock + 1) + block.height
    IN  /\ cmp(input.a, input.b) = Cmp(Age(input.a), Age(input.b))
        /\ cmp(input.a, input.b) = 0 <=> input.a = input.b
        /\ is_zero(input.a) <=> \A b \in Blocks : cmp(input.a, b) <= 0

(* Times and timeouts count and compare as the clock and the blocks of a     *)
(* chain do, or the contract panics (Timestamp, IbcTimeoutBlock).            *)
TimesAreExact == TimeIsExact /\ TimeoutsFollowTheChain

------------------------------------------------------------------------------
(***************************************************************************)
(* The builders of what an entry point returns: Response,                  *)
(* IbcBasicResponse and IbcReceiveResponse, with their events and          *)
(* attributes.  An attribute is its key; the keys of Reserved start with   *)
(* an underscore.  An empty sequence stands for a builder that panicked.   *)
(***************************************************************************)

CONSTANTS Keys, Reserved,   \* Reserved \subseteq Keys
          DebugAssertions   \* whether the contract is a debug build

(* From<BankMsg> for CosmosMsg and its siblings: a message of a module of    *)
(* the chain becomes the variant of that module.                             *)
CosmosMsgFrom(msg) == [variant |-> msg.module, body |-> msg]

BankMsg == [module |-> "bank"]
StakingMsg == [module |-> "staking"]

(* wasm_instantiate sets no admin; wasm_execute has none to set.             *)
wasm_instantiate(code_id) == [module |-> "wasm", code_id |-> code_id, admin |-> <<>>]

(* Attribute::new, through which every attribute goes that is given as a     *)
(* pair of strings; a ready-made Attribute is taken as it is.                *)
AttributesAllowed(keys) ==
  DebugAssertions => \A i \in DOMAIN keys : keys[i] \notin Reserved

(* Event::new, add_attribute and add_attributes: only the last makes its     *)
(* attributes with Attribute::new, from pairs.                               *)
NewEvent == [attributes |-> <<>>]
event_add_attribute(event, key) == [event EXCEPT !.attributes = Append(@, key)]
event_add_attributes(event, keys, pairs) ==
  IF pairs => AttributesAllowed(keys) THEN <<[event EXCEPT !.attributes = @ \o keys]>> ELSE <<>>

NewFullResponse == [messages |-> <<>>, attributes |-> <<>>, events |-> <<>>, data |-> <<>>]
NewIbcBasicResponse == [messages |-> <<>>, attributes |-> <<>>, events |-> <<>>]
NewIbcReceiveResponse ==
  [messages |-> <<>>, attributes |-> <<>>, events |-> <<>>, acknowledgement |-> <<>>]

(***************************************************************************)
(* A step of a builder is [to, raw, items]: the field and what is added to *)
(* it, one item or several; raw says that messages are given without a     *)
(* SubMsg around them, and attributes as pairs of strings.                 *)
(***************************************************************************)
Items(step) ==
  IF step.to = "messages" /\ step.raw
  THEN [i \in DOMAIN step.items |-> NewSubMsg(CosmosMsgFrom(step.items[i]))]
  ELSE step.items

KeyRefused(step) == step.to = "attributes" /\ step.raw /\ ~AttributesAllowed(step.items)

ResponseStep(response, step) ==
  IF step.to = "data"
  THEN [response EXCEPT !.data = step.items]
  ELSE [response EXCEPT ![step.to] = @ \o Items(step)]

IbcBasicStep(response, step) == [response EXCEPT ![step.to] = @ \o Items(step)]

IbcReceiveStep(response, step) ==
  IF step.to = "acknowledgement"
  THEN [response EXCEPT !.acknowledgement = step.items]
  ELSE [response EXCEPT ![step.to] = @ \o Items(step)]

Built(Op(_, _), start, steps) ==
  IF \E i \in DOMAIN steps : KeyRefused(steps[i])
  THEN <<>>
  ELSE <<FoldLeft(Op, start, steps)>>

BuiltResponse(steps) == Built(ResponseStep, NewFullResponse, steps)
BuiltIbcBasic(steps) == Built(IbcBasicStep, NewIbcBasicResponse, steps)
BuiltIbcReceive(steps) == Built(IbcReceiveStep, NewIbcReceiveResponse, steps)

StepTo(field, raw, items) == [to |-> field, raw |-> raw, items |-> items]

CommonFields == {"messages", "attributes", "events"}

StepsOf(field) ==
  CASE field = "messages" ->
         {StepTo(field, TRUE, <<BankMsg>>), StepTo(field, TRUE, <<wasm_instantiate(1), StakingMsg>>),
          StepTo(field, FALSE, <<SubMsgOf(CosmosMsgFrom(BankMsg), 7, "always")>>)}
    [] field = "attributes" ->
         {StepTo(field, raw, keys) : raw \in BOOLEAN, keys \in BoundedSeq(Keys, 2) \ {<<>>}}
    [] field = "events" ->
         {StepTo(field, FALSE, <<event_add_attribute(NewEvent, k)>>) : k \in Keys}
         \cup {StepTo(field, FALSE, event_add_attributes(event_add_attribute(NewEvent, k), <<k>>, pairs)) :
                 k \in Keys \ Reserved, pairs \in BOOLEAN}
    [] OTHER -> {StepTo(field, FALSE, <<v>>) : v \in Keys}

ResponseNext ==
  Provide([type : {"build"},
        steps : BoundedSeq(UNION {StepsOf(f) : f \in CommonFields \cup {"data", "acknowledgement"}}, 3)])

Common(steps) == SelectSeq(steps, LAMBDA s : s.to \in CommonFields)

OneByOne(steps) ==
  FlattenSeq([i \in DOMAIN steps |->
                [j \in DOMAIN steps[i].items |-> [steps[i] EXCEPT !.items = <<@[j]>>]]])

LastSet(steps, field) ==
  LET those == SelectSeq(steps, LAMBDA s : s.to = field)
  IN IF those = <<>> THEN <<>> ELSE those[Len(those)].items

(***************************************************************************)
(* The three builders are written separately (response.rs, and twice in    *)
(* ibc.rs) and agree: messages, attributes and events come out in the      *)
(* order they were added, whether one by one or in bulk and whatever was   *)
(* added to the other lists in between, the data and the acknowledgement   *)
(* are the last ones set, and the contract is never called back for a      *)
(* message given without a SubMsg.                                         *)
(***************************************************************************)
BuildersAgree ==
  Is("build") =>
    LET steps == input.steps
        common == Common(steps)
        basic == BuiltIbcBasic(common)
        full == BuiltResponse(SelectSeq(steps, LAMBDA s : s.to # "acknowledgement"))
        receive == BuiltIbcReceive(SelectSeq(steps, LAMBDA s : s.to # "data"))
    IN /\ basic = BuiltIbcBasic(OneByOne(common))
       /\ (basic = <<>>) = (full = <<>>) /\ (basic = <<>>) = (receive = <<>>)
       /\ basic # <<>> =>
            /\ \A f \in CommonFields : basic[1][f] = full[1][f] /\ basic[1][f] = receive[1][f]
            /\ full[1].data = LastSet(steps, "data")
            /\ receive[1].acknowledgement = LastSet(steps, "acknowledgement")
            /\ \A i \in DOMAIN full[1].messages :
                 LET m == full[1].messages[i] IN m.id = UNUSED_MSG_ID => ~CallsBack(m.reply_on, TRUE)

(***************************************************************************)
(* A debug build never gets as far as returning a response whose own       *)
(* attributes have a reserved key that was given as a string: the reserved *)
(* keys it returns are exactly those of ready-made attributes, which       *)
(* add_attributes does not look at.  (Nor are the attributes of an event   *)
(* checked when they are added with Event::add_attribute, events.rs:36.)   *)
(***************************************************************************)
ReservedKeysAreReadyMade ==
  Is("build") =>
    LET basic == BuiltIbcBasic(Common(input.steps))
        ready == SelectSeq(input.steps, LAMBDA s : s.to = "attributes" /\ ~s.raw)
        reserved(keys) == SelectSeq(keys, LAMBDA k : k \in Reserved)
    IN DebugAssertions /\ basic # <<>> =>
         reserved(basic[1].attributes)
           = reserved(FlattenSeq([i \in DOMAIN ready |-> ready[i].items]))
==============================================================================
