---------------------------- MODULE IbcReflectSend ----------------------------
(***************************************************************************)
(* The ibc-reflect-send contract: it asks the factory on the other chain   *)
(* for the account of each of its channels, has messages executed by it    *)
(* and sends it funds.                                                     *)
(***************************************************************************)
EXTENDS IbcReflect

CONSTANTS Users

VARIABLES
  admin,      \* Config::admin
  remote      \* bucket "accounts": channel -> AccountData

sendVars == <<admin, remote>>

Unregistered == [exists |-> FALSE, addr |-> None, balance |-> 0]
DefaultData == [exists |-> TRUE, addr |-> None, balance |-> 0]

(* instantiate: the sender is the admin.                                     *)
SendInit == admin \in Users /\ remote = [c \in Channels |-> Unregistered]

SenderConnectUnsaved(c) == UNCHANGED sendVars

(* ibc_channel_connect: an empty entry; a WhoAmI packet is sent with it.     *)
SenderConnect(c) ==
  /\ remote' = [remote EXCEPT ![c] = DefaultData]
  /\ UNCHANGED admin

(* ibc_channel_close                                                         *)
SenderClose(c) ==
  /\ remote' = [remote EXCEPT ![c] = Unregistered]
  /\ UNCHANGED admin

(* handle_update_admin                                                       *)
UpdateAdmin(user, new) ==
  /\ user = admin /\ admin' = new
  /\ UNCHANGED remote

(* handle_send_msgs and handle_check_remote_balance: the admin sends a       *)
(* packet over a registered channel.                                         *)
MaySend(user, c) == user = admin /\ remote[c].exists

(* handle_send_funds: anyone sends coins to the remote account, once it is   *)
(* known.                                                                    *)
MaySendFunds(c) == remote[c].exists /\ remote[c].addr # None

(* ibc_packet_ack.  An error is an error of the call: the chain undoes it    *)
(* and the acknowledgement is not taken.                                     *)
AckDispatch(c) == UNCHANGED sendVars

AckWhoAmIAnyChannel(c, ack) ==
  /\ remote' = [d \in Channels |->
                 IF ack.ok /\ remote[d].exists /\ remote[d].addr = None
                 THEN [remote[d] EXCEPT !.addr = ack.account] ELSE remote[d]]
  /\ UNCHANGED admin

AckWhoAmIIgnored(c, ack) == UNCHANGED sendVars

AckWhoAmI(c, ack) ==
  /\ ack.ok => remote[c].exists
  /\ remote' = IF ack.ok /\ remote[c].addr = None
               THEN [remote EXCEPT ![c].addr = ack.account] ELSE remote
  /\ UNCHANGED admin

AckBalances(c, ack) ==
  /\ ack.ok => remote[c].exists /\ remote[c].addr \in {None, ack.account}
  /\ remote' = IF ack.ok
               THEN [remote EXCEPT ![c].addr = ack.account, ![c].balance = ack.balance]
               ELSE remote
  /\ UNCHANGED admin

(* ibc_packet_timeout                                                        *)
PacketTimeout(c) == UNCHANGED sendVars
==============================================================================
