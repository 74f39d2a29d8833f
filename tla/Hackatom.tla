-------------------------------- MODULE Hackatom -------------------------------
(***************************************************************************)
(* The contracts hackatom, floaty, burner, queue and ibc-reflect as the    *)
(* codes of one contract account.  hackatom and floaty keep coins in       *)
(* escrow: the verifier has them released to the beneficiary.  An account  *)
(* of any code can be migrated to the four contracts that have a migrate:  *)
(* hackatom takes a new verifier, burner deletes the whole storage and     *)
(* pays the coins out, queue deletes it and starts with three items, and   *)
(* ibc-reflect leaves it alone.  What queue and ibc-reflect do with their  *)
(* data is the subject of Queue and IbcReflect; here it matters under      *)
(* which keys they keep it.                                                *)
(***************************************************************************)
EXTENDS KeyValue

CONSTANTS Accounts,   \* addresses addr_validate accepts
          BadName,    \* a string addr_validate refuses
          MaxCoins,   \* bound on the coins sent to the contract
          MaxItemKey  \* the last key of queue, where the next one overflows: 255

ASSUME HackatomAssumption == MaxCoins \in Nat /\ MaxItemKey \in Nat

VARIABLES code,        \* the code of the account
          storage,     \* its storage
          coins,       \* its balance
          deposited,   \* the coins it ever received
          released,    \* what release paid out: account -> coins
          promised,    \* the beneficiary named at instantiation, an option
          burnt,        \* the number of keys the last burn reported
          endless      \* the storage before an endless call that runs, an option

hackatomVars == <<code, storage, coins, deposited, released, promised, burnt, endless>>

(* The keys of hackatom and floaty; those of ibc-reflect, whose singletons   *)
(* and bucket put a length in front; the keys of queue are one byte.         *)
CONFIG_KEY == <<2, 1>>
TEST_KEY == <<2, 2>>
KEY_CONFIG == <<0, 1>>
KEY_PENDING_CHANNEL == <<0, 2>>

Codes == {"none", "hackatom", "floaty", "burner", "queue", "ibc_reflect"}

addr_validate(name) == name \in Accounts

Escrow == {"hackatom", "floaty"}

Idle == endless = <<>>

------------------------------------------------------------------------------
(* hackatom and floaty.                                                      *)
instantiate(kind, sender, verifier, beneficiary) ==
  /\ code = "none" /\ kind \in Escrow
  /\ addr_validate(verifier) /\ addr_validate(beneficiary)
  /\ code' = kind
  /\ storage' = set(storage, CONFIG_KEY,
                    [verifier |-> verifier, beneficiary |-> beneficiary, funder |-> sender])
  /\ promised' = <<beneficiary>>
  /\ UNCHANGED <<coins, deposited, released, burnt, endless>>

(* A seeded defect: the migration makes the verifier the beneficiary.        *)
hackatom_migrate_replaces(verifier) ==
  /\ code # "none" /\ Idle
  /\ get(storage, CONFIG_KEY) # <<>>
  /\ addr_validate(verifier)
  /\ code' = "hackatom"
  /\ storage' = [storage EXCEPT ![CONFIG_KEY].verifier = verifier,
                                ![CONFIG_KEY].beneficiary = verifier]
  /\ UNCHANGED <<coins, deposited, released, promised, burnt, endless>>

(* A migration of an account of any code to hackatom.                        *)
hackatom_migrate(verifier) ==
  /\ code # "none" /\ Idle
  /\ get(storage, CONFIG_KEY) # <<>>
  /\ addr_validate(verifier)
  /\ code' = "hackatom"
  /\ storage' = [storage EXCEPT ![CONFIG_KEY].verifier = verifier]
  /\ UNCHANGED <<coins, deposited, released, promised, burnt, endless>>

(* BankMsg::Send, which the chain refuses for a name that is no address.     *)
Send(recipient, amount) ==
  /\ addr_validate(recipient) /\ amount <= coins
  /\ coins' = coins - amount

sudo(recipient, amount) ==
  /\ code = "hackatom" /\ Idle
  /\ Send(recipient, amount)
  /\ UNCHANGED <<code, storage, deposited, released, promised, burnt, endless>>

(* do_release of hackatom and execute of floaty.                             *)
Release(sender) ==
  /\ get(storage, CONFIG_KEY) # <<>>
  /\ LET state == storage[CONFIG_KEY]
     IN  /\ sender = state.verifier
         /\ Send(state.beneficiary, coins)
         /\ released' = [released EXCEPT ![state.beneficiary] = @ + coins]
  /\ UNCHANGED <<code, storage, deposited, promised, burnt, endless>>

do_release(sender) == code = "hackatom" /\ Idle /\ Release(sender)

(* balance[0] panics when there are no coins.                                *)
floaty_execute(sender) == code = "floaty" /\ Idle /\ coins # 0 /\ Release(sender)

(* Runs until the VM stops it: do_storage_loop, and do_cpu_loop,             *)
(* do_memory_loop, do_message_loop and do_panic, which write nothing.        *)
endless_call ==
  /\ code = "hackatom" /\ Idle
  /\ endless' = <<storage>>
  /\ UNCHANGED <<code, storage, coins, deposited, released, promised, burnt>>

do_storage_loop ==
  /\ ~Idle
  /\ storage' = set(storage, TEST_KEY,
                    IF TEST_KEY \in DOMAIN storage THEN (storage[TEST_KEY] + 1) % 2 ELSE 0)
  /\ UNCHANGED <<code, coins, deposited, released, promised, burnt, endless>>

(* Out of gas or memory, or a panic: the chain drops the writes (external).  *)
OutOfGas ==
  /\ ~Idle
  /\ storage' = endless[1] /\ endless' = <<>>
  /\ UNCHANGED <<code, coins, deposited, released, promised, burnt>>

------------------------------------------------------------------------------
(* burner, whose instantiate always fails.                                   *)
KeysOf(records) == [i \in DOMAIN records |-> records[i][1]]

(* A seeded defect: keys are removed while the iterator is at work.          *)
burner_migrate_while_ranging(payout) ==
  LET keys == KeysOf(range(storage, <<>>, <<>>, "Ascending"))
  IN  /\ code # "none" /\ Idle
      /\ storage' = [k \in {keys[i] : i \in {j \in DOMAIN keys : j % 2 = 0}} |-> storage[k]]
      /\ Send(payout, coins)
      /\ burnt' = Len(keys)
      /\ code' = "burner"
      /\ UNCHANGED <<deposited, released, promised, endless>>

burner_migrate(payout) ==
  LET keys == KeysOf(range(storage, <<>>, <<>>, "Ascending"))
  IN  /\ code # "none" /\ Idle
      /\ storage' = [k \in DOMAIN storage \ Range(keys) |-> storage[k]]
      /\ Send(payout, coins)
      /\ burnt' = Len(keys)
      /\ code' = "burner"
      /\ UNCHANGED <<deposited, released, promised, endless>>

------------------------------------------------------------------------------
(* queue.  Its values are not told apart.                                    *)
queue_instantiate ==
  /\ code = "none" /\ code' = "queue"
  /\ UNCHANGED <<storage, coins, deposited, released, promised, burnt, endless>>

(* The last key plus one.                                                    *)
ItemKey(data) ==
  LET keys == KeysOf(range(data, <<>>, <<>>, "Descending"))
  IN  IF keys = <<>> THEN 0 ELSE keys[1][1] + 1

Enqueued(data) == set(data, <<ItemKey(data)>>, 0)

queue_enqueue ==
  /\ code = "queue" /\ Idle
  /\ ItemKey(storage) <= MaxItemKey
  /\ storage' = Enqueued(storage)
  /\ UNCHANGED <<code, coins, deposited, released, promised, burnt, endless>>

queue_dequeue ==
  LET keys == KeysOf(range(storage, <<>>, <<>>, "Ascending"))
  IN  /\ code = "queue" /\ Idle /\ keys # <<>>
      /\ storage' = remove(storage, keys[1])
      /\ UNCHANGED <<code, coins, deposited, released, promised, burnt, endless>>

(* A seeded defect: the items are added to what is there.                    *)
queue_migrate_keeps ==
  /\ code # "none" /\ Idle
  /\ storage' = Enqueued(Enqueued(Enqueued(storage)))
  /\ code' = "queue"
  /\ UNCHANGED <<coins, deposited, released, promised, burnt, endless>>

queue_migrate ==
  LET keys == KeysOf(range(storage, <<>>, <<>>, "Ascending"))
      cleared == [k \in DOMAIN storage \ Range(keys) |-> storage[k]]
  IN  /\ code # "none" /\ Idle
      /\ storage' = Enqueued(Enqueued(Enqueued(cleared)))
      /\ code' = "queue"
      /\ UNCHANGED <<coins, deposited, released, promised, burnt, endless>>

------------------------------------------------------------------------------
(* ibc-reflect.                                                              *)
ibc_reflect_instantiate ==
  /\ code = "none" /\ code' = "ibc_reflect"
  /\ storage' = set(storage, KEY_CONFIG, 0)
  /\ UNCHANGED <<coins, deposited, released, promised, burnt, endless>>

(* Its IBC callbacks write and remove entries of its own.  An account that   *)
(* was migrated to it has no config, and no call gets as far as to write.    *)
ibc_reflect_call ==
  /\ code = "ibc_reflect" /\ Idle
  /\ get(storage, KEY_CONFIG) # <<>>
  /\ \/ storage' = set(storage, KEY_PENDING_CHANNEL, 0)
     \/ storage' = remove(storage, KEY_PENDING_CHANNEL)
  /\ UNCHANGED <<code, coins, deposited, released, promised, burnt, endless>>

ibc_reflect_migrate ==
  /\ code # "none" /\ Idle
  /\ code' = "ibc_reflect"
  /\ UNCHANGED <<storage, coins, deposited, released, promised, burnt, endless>>

(* Coins come in (external).                                                 *)
Deposit(amount) ==
  /\ code # "none" /\ Idle /\ deposited + amount <= MaxCoins
  /\ coins' = coins + amount /\ deposited' = deposited + amount
  /\ UNCHANGED <<code, storage, released, promised, burnt, endless>>

------------------------------------------------------------------------------
HackatomInit ==
  /\ code = "none" /\ storage = EmptyMap
  /\ coins = 0 /\ deposited = 0 /\ released = [a \in Accounts |-> 0]
  /\ promised = <<>> /\ burnt = 0 /\ endless = <<>>

Names == Accounts \cup {BadName}

HackatomNext ==
  \/ \E kind \in Escrow, sender \in Accounts, verifier, beneficiary \in Names :
       instantiate(kind, sender, verifier, beneficiary)
  \/ \E verifier \in Names : hackatom_migrate(verifier)
  \/ \E recipient \in Names, amount \in 1 .. MaxCoins : sudo(recipient, amount)
  \/ \E sender \in Accounts : do_release(sender) \/ floaty_execute(sender)
  \/ endless_call \/ do_storage_loop \/ OutOfGas
  \/ \E payout \in Names : burner_migrate(payout)
  \/ queue_instantiate \/ queue_enqueue \/ queue_dequeue \/ queue_migrate
  \/ ibc_reflect_instantiate \/ ibc_reflect_call \/ ibc_reflect_migrate
  \/ \E amount \in 1 .. MaxCoins : Deposit(amount)

HackatomSpec == HackatomInit /\ [][HackatomNext]_hackatomVars

------------------------------------------------------------------------------
(* Properties.                                                               *)

(* The balance, the code and the state of the escrow contracts, whose names  *)
(* are validated whenever they are stored (instantiate, migrate).            *)
HackatomTypeOK ==
  /\ coins \in 0 .. deposited
  /\ code \in Codes
  /\ CONFIG_KEY \in DOMAIN storage =>
       storage[CONFIG_KEY] \in [verifier : Accounts, beneficiary : Accounts, funder : Accounts]

(* Whatever migrations a contract went through, and whoever was the verifier *)
(* at the time, release paid nobody but the beneficiary named when it was    *)
(* instantiated (migrate, do_release, execute of floaty).                    *)
ReleasedToTheBeneficiary == \A a \in Accounts : released[a] > 0 => promised = <<a>>

(* An account never runs the escrow code without its state: a burnt contract *)
(* cannot be migrated back, so there always is a verifier who can release    *)
(* what comes in (instantiate, migrate).                                     *)
EscrowHasVerifier ==
  code \in Escrow => CONFIG_KEY \in DOMAIN storage /\ storage[CONFIG_KEY].verifier \in Accounts

(* An escrow can be released, and only to its beneficiary, over all          *)
(* migrations (instantiate, migrate, release of hackatom and floaty).        *)
EscrowIsKept == HackatomTypeOK /\ ReleasedToTheBeneficiary /\ EscrowHasVerifier

(* What a migration deletes is gone, whatever code wrote it.  A burnt        *)
(* account has no data, and the keys it had were counted; one that became a  *)
(* queue has keys of one byte only, as enqueue takes for granted; and the    *)
(* state of an escrow never comes back, so that an account that was burnt or *)
(* was a queue is no escrow again (migrate of burner, queue, ibc-reflect and *)
(* hackatom, do_storage_loop).                                               *)
BurntIsEmpty ==
  /\ [](code = "burner" => storage = EmptyMap)
  /\ [](code = "queue" => \A k \in DOMAIN storage : Len(k) = 1)
  /\ [][code # "burner" /\ code' = "burner" => burnt' = Cardinality(DOMAIN storage)]_hackatomVars
  /\ [][code # "none" /\ CONFIG_KEY \notin DOMAIN storage => CONFIG_KEY \notin DOMAIN storage']_hackatomVars
==============================================================================
