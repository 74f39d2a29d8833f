----------------------------- MODULE IbcReflect ------------------------------
(***************************************************************************)
(* The ibc-reflect contract: a factory that has a reflect contract, its    *)
(* account, for every channel.  A call of the chain that needs a           *)
(* submessage takes two steps: the entry point, and the submessage with    *)
(* the reply to it.  The chain runs nothing else in between.               *)
(* What it has in common with ibc-reflect-send comes first: the channels   *)
(* they accept and the messages they exchange.                             *)
(***************************************************************************)
EXTENDS Naturals

CONSTANTS Channels, Addrs, None

ASSUME ProtocolAssumption == None \notin Channels /\ None \notin Addrs

Orders == {"ordered", "unordered"}
Versions == {"ibc-reflect-v1", "other"}

(* ibc_channel_open: the order and the versions have to match; the version   *)
(* of the other side is known only to the second chain of the handshake.     *)
AcceptsAnyOrder(offer) ==
  /\ offer.version = "ibc-reflect-v1"
  /\ offer.counterparty \in {"unknown", "ibc-reflect-v1"}

Accepts(offer) ==
  /\ offer.order = "ordered"
  /\ offer.version = "ibc-reflect-v1"
  /\ offer.counterparty \in {"unknown", "ibc-reflect-v1"}

(* PacketMsg *)
Kinds == {"dispatch", "who_am_i", "balances"}

(* Acknowledgements: AcknowledgementMsg::Err, and Ok with what it carries.   *)
AckErr == [ok |-> FALSE, account |-> None, balance |-> 0]
AckOk(account, balance) == [ok |-> TRUE, account |-> account, balance |-> balance]

------------------------------------------------------------------------------

VARIABLES
  accounts,   \* bucket "accounts": channel -> reflect contract
  pending,    \* singleton "pending": the channel whose account is being created
  holdings,   \* the funds of every address that can be a reflect contract
  treasury,   \* the funds of the factory
  created,    \* reflect contracts instantiated so far
  call        \* the call that waits for its submessage

reflectVars == <<accounts, pending, holdings, treasury, created, call>>

NoCall == [entry |-> "none", channel |-> None, before |-> None]

ReflectInit ==
  /\ accounts = [c \in Channels |-> None] /\ pending = None
  /\ holdings = [a \in Addrs |-> 0] /\ treasury = 0
  /\ created = {} /\ call = NoCall

(* ibc_channel_connect: the channel is saved for the reply, and the reflect  *)
(* contract is to be instantiated.                                           *)
ChannelConnect(c) ==
  /\ call = NoCall
  /\ pending' = c
  /\ call' = [entry |-> "connect", channel |-> c, before |-> pending]
  /\ UNCHANGED <<accounts, holdings, treasury, created>>

Registered(c) == accounts[c] # None

(* reply, handle_init_callback: the account is registered for the pending    *)
(* channel.                                                                  *)
HandleInitCallback ==
  /\ call.entry = "connect"
  /\ \E addr \in Addrs \ created :
       /\ pending # None /\ ~Registered(pending)
       /\ accounts' = [accounts EXCEPT ![pending] = addr]
       /\ created' = created \cup {addr}
  /\ pending' = None /\ call' = NoCall
  /\ UNCHANGED <<holdings, treasury>>

(* The instantiation or the reply fails; ReplyOn::Success leaves the error   *)
(* to the chain, which undoes the call.                                      *)
ConnectFails ==
  /\ call.entry = "connect"
  /\ pending' = call.before /\ call' = NoCall
  /\ UNCHANGED <<accounts, holdings, treasury, created>>

CloseKeepsAccount(c) ==
  /\ call = NoCall /\ Registered(c)
  /\ treasury' = treasury + holdings[accounts[c]]
  /\ holdings' = [holdings EXCEPT ![accounts[c]] = 0]
  /\ UNCHANGED <<accounts, pending, created, call>>

(* ibc_channel_close: the entry is removed and the funds of its account are  *)
(* taken.  Without an entry the call is an error.                            *)
ChannelClose(c) ==
  /\ call = NoCall /\ Registered(c)
  /\ accounts' = [accounts EXCEPT ![c] = None]
  /\ treasury' = treasury + holdings[accounts[c]]
  /\ holdings' = [holdings EXCEPT ![accounts[c]] = 0]
  /\ UNCHANGED <<pending, created, call>>

(* receive_who_am_i, receive_balances, and any packet on a channel without   *)
(* an account: ibc_packet_receive turns the error into an acknowledgement.   *)
AckAtOnce(c, kind) ==
  IF Registered(c)
  THEN AckOk(accounts[c], IF kind = "balances" THEN holdings[accounts[c]] ELSE 0)
  ELSE AckErr

ReceiveAtOnce == call = NoCall /\ UNCHANGED reflectVars

(* receive_dispatch: a success acknowledgement is set, and the messages are  *)
(* to be executed by the reflect contract.                                   *)
ReceiveDispatch(c) ==
  /\ call = NoCall /\ Registered(c)
  /\ call' = [entry |-> "dispatch", channel |-> c, before |-> None]
  /\ UNCHANGED <<accounts, pending, holdings, treasury, created>>

DispatchAckKept(succeeds) == AckOk(None, 0)

(* reply: an error replaces the acknowledgement of receive_dispatch.         *)
DispatchAck(succeeds) == IF succeeds THEN AckOk(None, 0) ELSE AckErr

(* The messages, here a payment of one coin by the reflect contract.  When   *)
(* they fail nothing of them remains.                                        *)
ExecuteDispatch(succeeds) ==
  /\ call.entry = "dispatch"
  /\ IF succeeds
     THEN /\ holdings[accounts[call.channel]] > 0
          /\ holdings' = [holdings EXCEPT ![accounts[call.channel]] = @ - 1]
     ELSE UNCHANGED holdings
  /\ call' = NoCall
  /\ UNCHANGED <<accounts, pending, treasury, created>>
==============================================================================
