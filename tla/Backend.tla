------------------------------- MODULE Backend -------------------------------
(***************************************************************************)
(* What a contract asks of the chain through the imports of the VM: to     *)
(* convert addresses, and to answer queries; with the two mocks that stand *)
(* for the chain in tests.                                                 *)
(*                                                                         *)
(* Address conversion on all its levels: the mock API of the standard      *)
(* library, the mock API of the VM, the VM's imports around it, the        *)
(* contract's wrapper around the imports, and the calls with which         *)
(* hackatom probes the errors of an API.  A name is a sequence of bytes; a *)
(* result is [ok, value, err], err the kind of the error; err "Trap" stops *)
(* the contract.                                                           *)
(***************************************************************************)
EXTENDS Integers, SequencesExt, CallInput

CONSTANTS
  CANONICAL_LENGTH, SHUFFLES_ENCODE, SHUFFLES_DECODE,      \* 54, 18, 2
  MAX_LENGTH_HUMAN_ADDRESS, MAX_LENGTH_CANONICAL_ADDRESS,  \* 256, 64
  HUMAN_ADDRESS_BUFFER_LENGTH, CANONICAL_ADDRESS_BUFFER_LENGTH,  \* 90, 64
  GAS_COST_HUMANIZE, GAS_COST_CANONICALIZE,
  LetterBytes, BrokenBytes        \* bytes of a text; bytes no UTF-8 text has

Nul == 0

Ok(value) == [ok |-> TRUE, value |-> value, err |-> "none"]
Err(kind) == [ok |-> FALSE, value |-> <<>>, err |-> kind]

IsUtf8(bytes) == \A i \in DOMAIN bytes : bytes[i] \notin BrokenBytes

Run(byte, n) == [i \in 1 .. n |-> byte]

digit_sum(bytes) == FoldLeft(LAMBDA s, b : s + b, 0, bytes)

(* The in-shuffle: right half first.                                         *)
riffle_shuffle(bytes) ==
  LET mid == Len(bytes) \div 2
  IN  [i \in DOMAIN bytes |-> IF i % 2 = 1 THEN bytes[mid + (i + 1) \div 2] ELSE bytes[i \div 2]]

Shuffled(bytes, n) == FoldLeft(LAMBDA b, i : riffle_shuffle(b), bytes, Run(0, n))

rotate_left(bytes, n) == SubSeq(bytes, n + 1, Len(bytes)) \o SubSeq(bytes, 1, n)
rotate_right(bytes, n) == rotate_left(bytes, Len(bytes) - n)

(* Pad, rotate by what the bytes add up to, shuffle.                         *)
CanonicalOf(human) ==
  LET padded == human \o Run(Nul, CANONICAL_LENGTH - Len(human))
  IN  Shuffled(rotate_left(padded, digit_sum(padded) % CANONICAL_LENGTH), SHUFFLES_ENCODE)

HumanOf(canonical) ==
  LET tmp == Shuffled(canonical, SHUFFLES_DECODE)
  IN  SelectSeq(rotate_right(tmp, digit_sum(tmp) % CANONICAL_LENGTH), LAMBDA b : b # Nul)

--------------------------------------------------------------------------------
(* std: MockApi *)

addr_canonicalize(human) ==
  IF Len(human) < 3 \/ Len(human) > CANONICAL_LENGTH THEN Err("GenericErr") ELSE Ok(CanonicalOf(human))

addr_validate(human) == IF addr_canonicalize(human).ok THEN Ok(human) ELSE addr_canonicalize(human)

addr_humanize(canonical) ==
  CASE Len(canonical) # CANONICAL_LENGTH -> Err("GenericErr")
    [] ~IsUtf8(HumanOf(canonical))       -> Err("InvalidUtf8")
    [] OTHER                             -> Ok(HumanOf(canonical))

--------------------------------------------------------------------------------
(* vm: MockApi, failing or not, and the imports *)

canonical_address(failing, human) ==
  CASE failing                        -> Err("Unknown")
    [] Len(human) < 3                 -> Err("UserErr")
    [] Len(human) > CANONICAL_LENGTH  -> Err("UserErr")
    [] OTHER                          -> Ok(CanonicalOf(human))

human_address(failing, canonical) ==
  CASE failing                           -> Err("Unknown")
    [] Len(canonical) # CANONICAL_LENGTH -> Err("UserErr")
    [] ~IsUtf8(HumanOf(canonical))       -> Err("InvalidUtf8")
    [] OTHER                             -> Ok(HumanOf(canonical))

(* What an import makes of the answer of the backend: a user error becomes a *)
(* message for the contract, any other error a trap, and so does an answer   *)
(* that does not fit the contract's buffer.                                  *)
ImportAnswer(result, cost, gas, buffer) ==
  CASE cost > gas                                -> Err("Trap")
    [] result.ok /\ Len(result.value) > buffer   -> Err("Trap")
    [] result.ok                                 -> result
    [] result.err = "UserErr"                    -> Err("Message")
    [] OTHER                                     -> Err("Trap")

(* The checks before the backend is asked.                                   *)
HumanInput(source) ==
  CASE Len(source) > MAX_LENGTH_HUMAN_ADDRESS -> "Trap"
    [] source = <<>> \/ ~IsUtf8(source)       -> "Message"
    [] OTHER                                  -> "none"

(* A seeded defect: the backend is not asked.                                *)
do_addr_validate_by_shape(failing, gas, source) ==
  IF HumanInput(source) # "none" THEN Err(HumanInput(source))
  ELSE ImportAnswer(Ok(<<>>), GAS_COST_CANONICALIZE, gas, 0)

do_addr_validate(failing, gas, source) ==
  IF HumanInput(source) # "none" THEN Err(HumanInput(source))
  ELSE LET result == canonical_address(failing, source)
       IN  ImportAnswer(IF result.ok THEN Ok(<<>>) ELSE result, GAS_COST_CANONICALIZE, gas, 0)

do_addr_canonicalize(failing, gas, source) ==
  IF HumanInput(source) # "none" THEN Err(HumanInput(source))
  ELSE ImportAnswer(canonical_address(failing, source), GAS_COST_CANONICALIZE, gas,
              CANONICAL_ADDRESS_BUFFER_LENGTH)

do_addr_humanize(failing, gas, source) ==
  IF Len(source) > MAX_LENGTH_CANONICAL_ADDRESS THEN Err("Trap")
  ELSE ImportAnswer(human_address(failing, source), GAS_COST_HUMANIZE, gas, HUMAN_ADDRESS_BUFFER_LENGTH)

--------------------------------------------------------------------------------
(* std: ExternalApi, in the contract *)

(* A message of the VM becomes a generic error.                              *)
FromImport(result) == IF result.err = "Message" THEN Err("GenericErr") ELSE result

ExternalValidate(failing, gas, name) ==
  IF Len(name) > MAX_LENGTH_HUMAN_ADDRESS THEN Err("GenericErr")
  ELSE LET result == FromImport(do_addr_validate(failing, gas, name))
       IN  IF result.ok THEN Ok(name) ELSE result

ExternalCanonicalize(failing, gas, name) ==
  IF Len(name) > MAX_LENGTH_HUMAN_ADDRESS THEN Err("GenericErr")
  ELSE FromImport(do_addr_canonicalize(failing, gas, name))

ExternalHumanize(failing, gas, canonical) == FromImport(do_addr_humanize(failing, gas, canonical))

--------------------------------------------------------------------------------
(* hackatom: do_user_errors_in_api_calls.  It goes on as long as a call      *)
(* fails with a generic error; another error ends it with an error, and so   *)
(* does (unwrap_err) a call that succeeds.                                   *)
UserErrorCalls ==
  <<[fn |-> "canonicalize", arg |-> <<>>],
    [fn |-> "canonicalize", arg |-> Run(1, CANONICAL_LENGTH + 1)],
    [fn |-> "humanize", arg |-> <<>>],
    [fn |-> "humanize", arg |-> Run(1, 3)],
    [fn |-> "humanize", arg |-> Run(1, CANONICAL_LENGTH - 1)]>>

(* The API is the mock of a unit test, or the VM on a chain that answers or  *)
(* is failing; in the VM, a call that reaches the chain is paid for.         *)
ApiAnswer(api, gas, call) ==
  CASE api = "mock" -> IF call.fn = "canonicalize" THEN addr_canonicalize(call.arg)
                       ELSE addr_humanize(call.arg)
    [] call.fn = "canonicalize" -> ExternalCanonicalize(api = "failing", gas, call.arg)
    [] OTHER                    -> ExternalHumanize(api = "failing", gas, call.arg)

ApiCost(api, call) ==
  CASE api = "mock" -> 0
    [] call.fn = "canonicalize" -> IF HumanInput(call.arg) = "none" THEN GAS_COST_CANONICALIZE ELSE 0
    [] OTHER -> IF Len(call.arg) <= MAX_LENGTH_CANONICAL_ADDRESS THEN GAS_COST_HUMANIZE ELSE 0

(* Whether the probe passes, and the gas that is left.                       *)
do_user_errors_in_api_calls(api, gas) ==
  FoldLeft(LAMBDA probe, call :
             IF probe.ok /\ ApiAnswer(api, probe.gas, call).err = "GenericErr"
             THEN [ok |-> TRUE, gas |-> probe.gas - ApiCost(api, call)]
             ELSE [probe EXCEPT !.ok = FALSE],
           [ok |-> TRUE, gas |-> gas], UserErrorCalls)

--------------------------------------------------------------------------------
(* The calls.  A name may hold NUL characters; a canonical address may be    *)
(* any bytes.                                                                *)
Longer(n) == {Run(1, k) : k \in CANONICAL_LENGTH + 1 .. n}
AddressCalls ==
  [type : {"human"}, failing : BOOLEAN, gas : {0, GAS_COST_CANONICALIZE},
   bytes : BoundedSeq(LetterBytes \cup {Nul}, CANONICAL_LENGTH)
             \cup Longer(MAX_LENGTH_HUMAN_ADDRESS + 1)]
    \cup [type : {"canonical"}, failing : BOOLEAN, gas : {0, GAS_COST_HUMANIZE},
          bytes : BoundedSeq(BrokenBytes \cup {Nul, 1}, CANONICAL_LENGTH)
                    \cup Longer(MAX_LENGTH_CANONICAL_ADDRESS + 1)]
    \cup [type : {"probe"}, api : {"mock", "vm", "failing"},
          gas : 0 .. GAS_COST_CANONICALIZE + 3 * GAS_COST_HUMANIZE + 1]

AddressNext == Provide(AddressCalls)

(* A name the mock API accepts comes back from its canonical address         *)
(* unchanged, whatever rotation its bytes lead to, and canonical addresses   *)
(* have one length.                                                          *)
AddressesRoundTrip ==
  Is("human") =>
    LET canonical == addr_canonicalize(input.bytes)
    IN  canonical.ok /\ (\A i \in DOMAIN input.bytes : input.bytes[i] # Nul) =>
          /\ Len(canonical.value) = CANONICAL_LENGTH
          /\ addr_humanize(canonical.value) = Ok(input.bytes)

(* A contract gets the same answers from the VM, over imports, buffers and   *)
(* length limits, as it gets in a unit test from the mock API, given the gas *)
(* and a backend that answers.  Two failures of addr_humanize differ: what   *)
(* is too long for the VM to read, and what decodes to no text, stop the     *)
(* contract instead of being reported to it.                                 *)
VmAddressesAreNative ==
  (Is("human") \/ Is("canonical")) /\ ~input.failing /\ input.gas > 0 =>
    /\ Is("human") => /\ ExternalValidate(FALSE, input.gas, input.bytes) = addr_validate(input.bytes)
                      /\ ExternalCanonicalize(FALSE, input.gas, input.bytes)
                           = addr_canonicalize(input.bytes)
    /\ Is("canonical") =>
         LET native == addr_humanize(input.bytes)
             wasm   == ExternalHumanize(FALSE, input.gas, input.bytes)
         IN  wasm = IF native.err = "InvalidUtf8" \/ Len(input.bytes) > MAX_LENGTH_CANONICAL_ADDRESS
                    THEN Err("Trap") ELSE native

(* hackatom's probe passes in a unit test; in the VM it passes exactly if    *)
(* the chain answers and the gas lasts for the four calls that reach the     *)
(* chain, the first being refused before, and takes just that gas.           *)
UserErrorsReachTheContract ==
  Is("probe") =>
    LET price == GAS_COST_CANONICALIZE + 3 * GAS_COST_HUMANIZE
        probe == do_user_errors_in_api_calls(input.api, input.gas)
    IN  /\ probe.ok <=> input.api = "mock" \/ (input.api = "vm" /\ input.gas >= price)
        /\ probe.ok => probe.gas = input.gas - (IF input.api = "mock" THEN 0 ELSE price)

------------------------------------------------------------------------------
(***************************************************************************)
(* Queries on all their levels: the mock querier of the standard library,  *)
(* the VM's mock querier, which charges gas for the answer, the import     *)
(* query_chain, the contract's querier, QuerierWrapper on top of it, and   *)
(* the ways an error takes to the contract and to the embedder.  A request *)
(* is a record of what the queries tell apart; an answer is                *)
(* [level, value], with level "system" or "contract" for an error there    *)
(* and "ok" for a value, a sequence (an option is a sequence of length at  *)
(* most 1).                                                                *)
(***************************************************************************)

CONSTANTS
  QueryAddresses, Denoms, NoDenom,       \* accounts (also validators); the empty text
  MaxAmount,
  GAS_COST_QUERY_FLAT, GAS_COST_QUERY_RESPONSE_MULTIPLIER,
  MAX_LENGTH_QUERY_CHAIN_REQUEST,
  Garbled                                \* a value that parses as no response

Coins == [denom : Denoms, amount : 0 .. MaxAmount]
Delegations == [delegator : QueryAddresses, validator : QueryAddresses, amount : 0 .. MaxAmount]

Answered(value) == [level |-> "ok", value |-> value]
Failed(level) == [level |-> level, value |-> <<>>]

(* iter().find: the first of the elements that pass its test, if any.        *)
Find(passing) == SubSeq(passing, 1, IF passing = <<>> THEN 0 ELSE 1)

has_coins(coins, required) ==
  LET found == Find(SelectSeq(coins, LAMBDA c : c.denom = required.denom))
  IN  found # <<>> /\ found[1].amount >= required.amount

--------------------------------------------------------------------------------
(* std: MockQuerier.  bank is a sequence of the updates [address, coins].    *)

NewStaking == [denom |-> NoDenom, validators |-> <<>>, delegations |-> <<>>]

(* HashMap::insert: the last balance set for an address counts.              *)
BalancesOf(bank, address) ==
  LET mine == SelectSeq(bank, LAMBDA u : u.address = address)
  IN  IF mine = <<>> THEN <<>> ELSE mine[Len(mine)].coins

BankQuery(bank, request) ==
  LET coins == BalancesOf(bank, request.address)
      found == Find(SelectSeq(coins, LAMBDA c : c.denom = request.denom))
  IN  IF request.kind = "all_balances" THEN Answered(coins)
      ELSE Answered(<<[denom  |-> request.denom,
                       amount |-> IF found = <<>> THEN 0 ELSE found[1].amount]>>)

StakingQuery(staking, request) ==
  CASE request.kind = "bonded_denom"   -> Answered(<<staking.denom>>)
    [] request.kind = "all_validators" -> Answered(staking.validators)
    [] request.kind = "validator"      ->
         Answered(Find(SelectSeq(staking.validators, LAMBDA v : v = request.validator)))
    [] request.kind = "all_delegations" ->
         Answered(SelectSeq(staking.delegations, LAMBDA d : d.delegator = request.address))
    [] request.kind = "delegation" ->
         Answered(Find(SelectSeq(staking.delegations,
                       LAMBDA d : d.delegator = request.address /\ d.validator = request.validator)))

BankKinds == {"balance", "all_balances"}
StakingKinds == {"bonded_denom", "all_validators", "validator", "all_delegations", "delegation"}
WasmKinds == {"smart", "raw", "contract_info"}
OtherKinds == {"custom", "stargate", "ibc", "malformed"}

(* There are no contracts: NoSuchContract.                                   *)
NoWasmQuerier == Failed("system")

(* The handler is the one given to with_custom_handler; the default is       *)
(* UnsupportedRequest.                                                       *)
handle_query(q, request) ==
  CASE request.kind \in BankKinds      -> BankQuery(q.bank, request)
    [] request.kind \in StakingKinds   -> StakingQuery(q.staking, request)
    [] request.kind \in WasmKinds      -> NoWasmQuerier
    [] request.kind = "custom"         -> q.custom
    [] request.kind \in {"stargate", "ibc"} -> Failed("system")

(* Bytes that are no request: InvalidRequest.                                *)
raw_query(q, request) ==
  IF request.kind = "malformed" THEN Failed("system") ELSE handle_query(q, request)

--------------------------------------------------------------------------------
(* vm: the mock querier and the import.  [answer |-> an option, gas |-> the  *)
(* gas left, error |-> the VmError that ends the contract].                  *)

Cost(response) ==
  GAS_COST_QUERY_FLAT + GAS_COST_QUERY_RESPONSE_MULTIPLIER * (1 + Len(response.value))

(* The limit ends the query without an answer: BackendError::OutOfGas.       *)
query_raw(q, request, gas_limit) ==
  LET response == raw_query(q, request)
  IN  [ok |-> Cost(response) <= gas_limit, response |-> response, externally_used |-> Cost(response)]

(* The request is read, answered with the gas left as the limit, and paid    *)
(* for before its error, if any, is looked at.                               *)
do_query_chain(q, request, gas) ==
  LET result == query_raw(q, request, gas)
  IN  IF request.length > MAX_LENGTH_QUERY_CHAIN_REQUEST
      THEN [answer |-> <<>>, gas |-> gas, error |-> "RegionLengthTooBig"]
      ELSE IF result.externally_used > gas
      THEN [answer |-> <<>>, gas |-> 0, error |-> "GasDepletion"]
      ELSE IF ~result.ok
      THEN [answer |-> <<>>, gas |-> gas - result.externally_used, error |-> "GasDepletion"]
      ELSE [answer |-> <<result.response>>, gas |-> gas - result.externally_used, error |-> "none"]

(* call_function: the error of an import comes back from Wasmer as its text, *)
(* a runtime error.  Wasmer counts gas set to 0 as remaining, so that only   *)
(* gas used up by instructions is reported as depletion.                     *)
CallError(error, exhausted) == IF exhausted THEN "GasDepletion"
                               ELSE IF error = "none" THEN "none" ELSE "RuntimeErr"

--------------------------------------------------------------------------------
(* std: QuerierWrapper, over a querier's answer                              *)

Parses(value) == \A i \in DOMAIN value : value[i] # Garbled

(* Errors of all levels become one.                                          *)
query(response) ==
  IF response.level # "ok" \/ ~Parses(response.value) THEN Failed("std") ELSE response

(* Bytes as they are; no bytes, no value.                                    *)
query_wasm_raw(response) ==
  IF response.level # "ok" THEN Failed("std")
  ELSE Answered(IF response.value = <<>> THEN <<>> ELSE <<response.value>>)

RequestOf(kind, address, denom, validator) ==
  [kind |-> kind, address |-> address, denom |-> denom, validator |-> validator, length |-> 1]

query_balance(q, address, denom) ==
  query(raw_query(q, RequestOf("balance", address, denom, NoDenom))).value[1]
query_all_balances(q, address) ==
  query(raw_query(q, RequestOf("all_balances", address, NoDenom, NoDenom))).value
query_all_validators(q) ==
  query(raw_query(q, RequestOf("all_validators", NoDenom, NoDenom, NoDenom))).value
query_validator(q, validator) ==
  query(raw_query(q, RequestOf("validator", NoDenom, NoDenom, validator))).value
query_all_delegations(q, delegator) ==
  query(raw_query(q, RequestOf("all_delegations", delegator, NoDenom, NoDenom))).value
query_delegation(q, delegator, validator) ==
  query(raw_query(q, RequestOf("delegation", delegator, NoDenom, validator))).value

(* reflect: query_chain, the answer unparsed; query_raw, nothing for None.   *)
reflect_query_chain(response) ==
  IF response.level # "ok" THEN Failed("std") ELSE response

reflect_query_raw(response) ==
  LET found == query_wasm_raw(response)
  IN  IF found.level # "ok" THEN found
      ELSE Answered(IF found.value = <<>> THEN <<>> ELSE found.value[1])

--------------------------------------------------------------------------------
(* The calls: up to two updates of balances, staking data, one request, gas. *)
Requests ==
  [kind : {"balance"}, address : QueryAddresses, denom : Denoms,
   validator : {NoDenom}, length : {1}]
    \cup [kind : {"all_balances", "all_delegations"}, address : QueryAddresses,
          denom : {NoDenom}, validator : {NoDenom}, length : {1}]
    \cup [kind : {"validator"}, address : {NoDenom}, denom : {NoDenom},
          validator : QueryAddresses, length : {1}]
    \cup [kind : {"delegation"}, address : QueryAddresses, denom : {NoDenom},
          validator : QueryAddresses, length : {1}]
    \cup [kind : {"bonded_denom", "all_validators"} \cup WasmKinds \cup OtherKinds,
          address : {NoDenom}, denom : {NoDenom}, validator : {NoDenom},
          length : {1, MAX_LENGTH_QUERY_CHAIN_REQUEST, MAX_LENGTH_QUERY_CHAIN_REQUEST + 1}]

CustomAnswers ==
  {Failed("system"), Failed("contract"), Answered(<<>>), Answered(<<1>>), Answered(<<Garbled>>)}

Purses == [address : QueryAddresses, coins : BoundedSeq(Coins, 2)]
MaxCost == GAS_COST_QUERY_FLAT + 3 * GAS_COST_QUERY_RESPONSE_MULTIPLIER

IsKind(request, kinds) == request.kind \in kinds

QueryCalls ==
  {[type |-> "query", q |-> [bank |-> bank, staking |-> NewStaking, custom |-> Failed("system")],
    request |-> r, gas |-> g] :
     bank \in {<<>>} \cup {<<p>> : p \in Purses},
     r \in {r \in Requests : IsKind(r, BankKinds)},
     g \in {0, GAS_COST_QUERY_FLAT, MaxCost}}
    \cup
  {[type |-> "query",
    q |-> [bank |-> <<p, [address |-> p.address, coins |-> <<c>>]>>, staking |-> NewStaking,
           custom |-> Failed("system")],
    request |-> r, gas |-> MaxCost] :
     p \in Purses, c \in Coins, r \in {r \in Requests : IsKind(r, BankKinds)}}
    \cup
  {[type |-> "query",
    q |-> [bank |-> <<>>, custom |-> Failed("system"),
           staking |-> [denom |-> NoDenom, validators |-> v, delegations |-> d]],
    request |-> r, gas |-> g] :
     v \in BoundedSeq(QueryAddresses, 1), d \in BoundedSeq(Delegations, 2),
     r \in {r \in Requests : IsKind(r, StakingKinds)}, g \in {GAS_COST_QUERY_FLAT, MaxCost}}
    \cup
  {[type |-> "query", q |-> [bank |-> <<>>, staking |-> NewStaking, custom |-> a],
    request |-> r, gas |-> g] :
     a \in CustomAnswers, r \in {r \in Requests : IsKind(r, WasmKinds \cup OtherKinds)},
     g \in 0 .. MaxCost}

QueryNext == Provide(QueryCalls)

(* query_balance and query_all_balances tell of the same coins: the amount   *)
(* of a denomination is the one listed first, and has_coins asks for no more *)
(* than it.                                                                  *)
BalancesAgree ==
  Is("query") /\ input.request.kind = "balance" =>
    LET r      == input.request
        all    == query_all_balances(input.q, r.address)
        amount == query_balance(input.q, r.address, r.denom).amount
    IN  /\ \A n \in 1 .. MaxAmount :
             has_coins(all, [denom |-> r.denom, amount |-> n]) <=> amount >= n
        /\ amount > 0 => \E i \in DOMAIN all : all[i] = [denom |-> r.denom, amount |-> amount]

(* query_delegation finds the delegations that query_all_delegations lists,  *)
(* and query_validator the validators that query_all_validators lists, and   *)
(* no others.                                                                *)
DelegationsAgree ==
  Is("query") /\ input.request.kind = "all_delegations" =>
    LET listed == query_all_delegations(input.q, input.request.address)
        one(v) == query_delegation(input.q, input.request.address, v)
    IN  \A v \in QueryAddresses :
          /\ query_validator(input.q, v) # <<>> <=> v \in ToSet(query_all_validators(input.q))
          /\ one(v) = <<>> <=> \A i \in DOMAIN listed : listed[i].validator # v
          /\ one(v) # <<>> => one(v)[1] \in ToSet(listed)

(* A contract that asks through the VM gets what a unit test would get from  *)
(* the mock querier, or is stopped: for a request too long to read, or for   *)
(* an answer it cannot pay.  In no case does it get an answer for free, and  *)
(* when it cannot pay, no gas is left, although the embedder is told of a    *)
(* runtime error and not of a depletion.                                     *)
VmQueriesAreNative ==
  Is("query") =>
    LET native == raw_query(input.q, input.request)
        vm     == do_query_chain(input.q, input.request, input.gas)
    IN  /\ vm.answer \in {<<>>, <<native>>}
        /\ vm.answer # <<>> <=> /\ input.request.length <= MAX_LENGTH_QUERY_CHAIN_REQUEST
                                /\ Cost(native) <= input.gas
        /\ vm.answer # <<>> => vm.gas = input.gas - Cost(native)
        /\ vm.error = "GasDepletion" => vm.gas = 0 /\ CallError(vm.error, FALSE) = "RuntimeErr"

(* Whatever a querier answers, reflect's two ways to pass an answer on tell  *)
(* of the same bytes, and they fail for an error of the system or of the     *)
(* contract asked, never for the data; a parsed query may fail for that too. *)
PassedOnUnparsed ==
  Is("query") =>
    LET native == raw_query(input.q, input.request)
    IN  /\ reflect_query_raw(native) = reflect_query_chain(native)
        /\ reflect_query_chain(native).level = "ok" <=> native.level = "ok"
        /\ query(native).level = "ok" => reflect_query_chain(native) = query(native)
==============================================================================
