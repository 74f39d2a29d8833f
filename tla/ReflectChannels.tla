---------------------------- MODULE ReflectChannels ----------------------------
(***************************************************************************)
(* ibc-reflect-send on one chain, ibc-reflect on the other, and the IBC    *)
(* channels between them.  The relayer carries the handshake, packets,     *)
(* acknowledgements, timeouts and the closing of a channel, each whenever  *)
(* the channel allows it.  The channels themselves are not part of the     *)
(* repository: they are modelled from the entry points it has for them.    *)
(***************************************************************************)
EXTENDS IbcReflect, IbcReflectSend, Sequences, Functions

CONSTANTS MaxPackets,   \* packets sent over one channel
          MaxFunds      \* coins sent to reflect contracts

ASSUME ChannelsAssumption == MaxPackets \in Nat /\ MaxFunds \in Nat

Sides == {"send", "reflect"}
Other(side) == IF side = "send" THEN "reflect" ELSE "send"

VARIABLES
  chan,        \* the state of each end of each channel
  order,       \* the order of each channel
  nextSeq,     \* the number of the next packet of each channel
  packets,     \* packets that have not been received
  handling,    \* the packet whose messages are being dispatched
  acks,        \* acknowledgements that have not been delivered
  transfers,   \* coins on their way to an address, by ICS20
  executed     \* history: the numbers of the dispatched packets, in order

channelVars == <<chan, order, nextSeq, packets, handling, acks>>
vars == <<reflectVars, sendVars, channelVars, transfers, executed>>

SumOf(f) == FoldFunction(+, 0, f)

Without(queue, i) == SubSeq(queue, 1, i - 1) \o SubSeq(queue, i + 1, Len(queue))

NoPacket == [seq |-> 0, kind |-> "none"]

Init ==
  /\ ReflectInit /\ SendInit
  /\ chan = [side \in Sides |-> [c \in Channels |-> "none"]]
  /\ order = [c \in Channels |-> "ordered"]
  /\ nextSeq = [c \in Channels |-> 1]
  /\ packets = [c \in Channels |-> <<>>] /\ handling = NoPacket
  /\ acks = [c \in Channels |-> <<>>]
  /\ transfers = [a \in Addrs |-> 0]
  /\ executed = [c \in Channels |-> <<>>]

------------------------------------------------------------------------------
(* The handshake.                                                            *)

OpenInit(side, c, o, version) ==
  /\ chan["send"][c] = "none" /\ chan["reflect"][c] = "none"
  /\ Accepts([order |-> o, version |-> version, counterparty |-> "unknown"])
  /\ chan' = [chan EXCEPT ![side][c] = "init"]
  /\ order' = [order EXCEPT ![c] = o]
  /\ UNCHANGED <<reflectVars, sendVars, nextSeq, packets, handling, acks, transfers, executed>>

OpenTry(side, c, version) ==
  /\ chan[side][c] = "none" /\ chan[Other(side)][c] = "init"
  /\ Accepts([order |-> order[c], version |-> version, counterparty |-> "ibc-reflect-v1"])
  /\ chan' = [chan EXCEPT ![side][c] = "try"]
  /\ UNCHANGED <<reflectVars, sendVars, order, nextSeq, packets, handling, acks, transfers, executed>>

(* The channel end can be opened: by ChanOpenAck, or by ChanOpenConfirm.     *)
CanConnect(side, c) ==
  \/ chan[side][c] = "init" /\ chan[Other(side)][c] = "try"
  \/ chan[side][c] = "try" /\ chan[Other(side)][c] = "open"

SendPacket(c, kind) ==
  /\ nextSeq[c] <= MaxPackets
  /\ packets' = [packets EXCEPT ![c] = Append(@, [seq |-> nextSeq[c], kind |-> kind])]
  /\ nextSeq' = [nextSeq EXCEPT ![c] = @ + 1]

ConnectSend(c) ==
  /\ CanConnect("send", c)
  /\ SenderConnect(c) /\ SendPacket(c, "who_am_i")
  /\ chan' = [chan EXCEPT !["send"][c] = "open"]
  /\ UNCHANGED <<reflectVars, order, handling, acks, transfers, executed>>

ConnectReflect(c) ==
  /\ CanConnect("reflect", c)
  /\ ChannelConnect(c)
  /\ UNCHANGED <<sendVars, channelVars, transfers, executed>>

ConnectReply ==
  /\ \/ HandleInitCallback /\ chan' = [chan EXCEPT !["reflect"][call.channel] = "open"]
     \/ ConnectFails /\ UNCHANGED chan
  /\ UNCHANGED <<sendVars, order, nextSeq, packets, handling, acks, transfers, executed>>

------------------------------------------------------------------------------
(* Packets.                                                                  *)

(* An ordered channel delivers the oldest, another one any.                  *)
Deliverable(c, queue) == IF order[c] = "ordered" /\ queue # <<>> THEN {1} ELSE DOMAIN queue

Receive(c) ==
  /\ chan["reflect"][c] = "open"
  /\ \E i \in Deliverable(c, packets[c]) :
       LET p == packets[c][i] IN
       /\ packets' = [packets EXCEPT ![c] = Without(@, i)]
       /\ \/ /\ p.kind # "dispatch" \/ ~Registered(c)
             /\ ReceiveAtOnce
             /\ acks' = [acks EXCEPT ![c] = Append(@, [packet |-> p, ack |-> AckAtOnce(c, p.kind)])]
             /\ UNCHANGED handling
          \/ /\ p.kind = "dispatch" /\ ReceiveDispatch(c)
             /\ handling' = p
             /\ UNCHANGED acks
  /\ UNCHANGED <<sendVars, chan, order, nextSeq, transfers, executed>>

Dispatch(succeeds) ==
  /\ ExecuteDispatch(succeeds)
  /\ acks' = [acks EXCEPT ![call.channel] =
                Append(@, [packet |-> handling, ack |-> DispatchAck(succeeds)])]
  /\ executed' = IF succeeds
                 THEN [executed EXCEPT ![call.channel] = Append(@, handling.seq)]
                 ELSE executed
  /\ handling' = NoPacket
  /\ UNCHANGED <<sendVars, chan, order, nextSeq, packets, transfers>>

(* ibc_packet_ack of the sender accepts the acknowledgement.                 *)
Handles(c, a) ==
  CASE a.packet.kind = "dispatch" -> AckDispatch(c)
    [] a.packet.kind = "who_am_i" -> AckWhoAmI(c, a.ack)
    [] a.packet.kind = "balances" -> AckBalances(c, a.ack)

Acknowledge(c) ==
  /\ chan["send"][c] = "open"
  /\ \E i \in Deliverable(c, acks[c]) :
       /\ Handles(c, acks[c][i])
       /\ acks' = [acks EXCEPT ![c] = Without(@, i)]
  /\ UNCHANGED <<reflectVars, chan, order, nextSeq, packets, handling, transfers, executed>>

(* A packet that was not received in time.  It closes an ordered channel.    *)
Timeout(c) ==
  /\ chan["send"][c] = "open" /\ packets[c] # <<>>
  /\ PacketTimeout(c)
  /\ IF order[c] = "ordered"
     THEN /\ chan' = [chan EXCEPT !["send"][c] = "closed"]
          /\ packets' = [packets EXCEPT ![c] = <<>>]
     ELSE /\ packets' = [packets EXCEPT ![c] = Tail(@)]
          /\ UNCHANGED chan
  /\ UNCHANGED <<reflectVars, order, nextSeq, handling, acks, transfers, executed>>

(* The callback for the closed channel on either chain: after a timeout, for *)
(* the end that closes the channel (ChanCloseInit) and for the end that      *)
(* follows (ChanCloseConfirm).                                               *)
CloseSend(c) ==
  /\ chan["send"][c] \in {"open", "closed"} /\ remote[c].exists
  /\ SenderClose(c)
  /\ chan' = [chan EXCEPT !["send"][c] = "closed"]
  /\ UNCHANGED <<reflectVars, order, nextSeq, packets, handling, acks, transfers, executed>>

CloseReflect(c) ==
  /\ chan["reflect"][c] # "closed"
  /\ ChannelClose(c)
  /\ chan' = [chan EXCEPT !["reflect"][c] = "closed"]
  /\ UNCHANGED <<sendVars, order, nextSeq, packets, handling, acks, transfers, executed>>

------------------------------------------------------------------------------
(* Messages to the sender.                                                   *)

ChangeAdmin(user, new) ==
  /\ UpdateAdmin(user, new)
  /\ UNCHANGED <<reflectVars, channelVars, transfers, executed>>

(* handle_send_msgs, handle_check_remote_balance.  The chain refuses a       *)
(* packet for a channel that is not open.                                    *)
Send(user, c, kind) ==
  /\ MaySend(user, c) /\ chan["send"][c] = "open"
  /\ SendPacket(c, kind)
  /\ UNCHANGED <<reflectVars, sendVars, chan, order, handling, acks, transfers, executed>>

(* handle_send_funds, over another channel.                                  *)
SendFunds(c) ==
  /\ MaySendFunds(c)
  /\ treasury + SumOf(holdings) + SumOf(transfers) < MaxFunds
  /\ transfers' = [transfers EXCEPT ![remote[c].addr] = @ + 1]
  /\ UNCHANGED <<reflectVars, sendVars, channelVars, executed>>

DeliverFunds(a) ==
  /\ transfers[a] > 0 /\ call = NoCall
  /\ transfers' = [transfers EXCEPT ![a] = @ - 1]
  /\ holdings' = [holdings EXCEPT ![a] = @ + 1]
  /\ UNCHANGED <<accounts, pending, treasury, created, call, sendVars, channelVars, executed>>

Next ==
  \/ \E side \in Sides, c \in Channels, o \in Orders, v \in Versions : OpenInit(side, c, o, v)
  \/ \E side \in Sides, c \in Channels, v \in Versions : OpenTry(side, c, v)
  \/ \E c \in Channels : ConnectSend(c)
  \/ \E c \in Channels : ConnectReflect(c)
  \/ ConnectReply
  \/ \E c \in Channels : Receive(c)
  \/ \E succeeds \in BOOLEAN : Dispatch(succeeds)
  \/ \E c \in Channels : Acknowledge(c)
  \/ \E c \in Channels : Timeout(c)
  \/ \E c \in Channels : CloseSend(c)
  \/ \E c \in Channels : CloseReflect(c)
  \/ \E user, new \in Users : ChangeAdmin(user, new)
  \/ \E user \in Users, c \in Channels, kind \in Kinds \ {"who_am_i"} : Send(user, c, kind)
  \/ \E c \in Channels : SendFunds(c)
  \/ \E a \in Addrs : DeliverFunds(a)

Spec == Init /\ [][Next]_vars

(* A relayer works: what it can deliver it eventually delivers, and a call   *)
(* that has begun ends.                                                      *)
FairSpec ==
  /\ Spec
  /\ WF_vars(ConnectReply)
  /\ WF_vars(\E succeeds \in BOOLEAN : Dispatch(succeeds))
  /\ \A c \in Channels : SF_vars(Receive(c)) /\ WF_vars(Acknowledge(c))

------------------------------------------------------------------------------
(* Properties.                                                               *)

States == {"none", "init", "try", "open", "closed"}

TypeOK ==
  /\ accounts \in [Channels -> Addrs \cup {None}] /\ pending \in Channels \cup {None}
  /\ holdings \in [Addrs -> Nat] /\ treasury \in Nat /\ created \subseteq Addrs
  /\ call \in [entry : {"none", "connect", "dispatch"}, channel : Channels \cup {None},
               before : Channels \cup {None}]
  /\ admin \in Users
  /\ remote \in [Channels -> [exists : BOOLEAN, addr : Addrs \cup {None}, balance : Nat]]
  /\ chan \in [Sides -> [Channels -> States]] /\ order \in [Channels -> Orders]
  /\ nextSeq \in [Channels -> 1 .. MaxPackets + 1]
  /\ transfers \in [Addrs -> Nat]

(* Between two calls, the factory has an account for exactly the channels    *)
(* that are open on its side, and never one account for two channels: the    *)
(* pending channel that ibc_channel_connect leaves for the reply is the one  *)
(* the account is registered for, and ibc_channel_close removes it.          *)
AccountPerOpenChannel ==
  /\ \A c \in Channels : Registered(c) <=> chan["reflect"][c] = "open"
  /\ \A c, d \in Channels : Registered(c) /\ accounts[c] = accounts[d] => c = d

(* The address the sender has for a channel, which it sends funds to, is the *)
(* account the factory made for this channel, and for no other.              *)
RemoteIsOwnAccount ==
  \A c \in Channels : remote[c].addr # None =>
    /\ remote[c].addr \in created
    /\ \A d \in Channels : accounts[d] = remote[c].addr => d = c
    /\ chan["reflect"][c] = "open" => accounts[c] = remote[c].addr

(* The acknowledgement of a dispatched packet reports success exactly when   *)
(* its messages were executed, although it is written before they are.       *)
AckTellsOutcome ==
  \A c \in Channels : \A a \in Range(acks[c]) :
    a.packet.kind = "dispatch" => (a.ack.ok <=> a.packet.seq \in Range(executed[c]))

(* The messages sent over a channel are executed in the order they were      *)
(* sent: ibc_channel_open accepts ordered channels only.                     *)
ExecutedInOrder ==
  \A c \in Channels : \A i, j \in DOMAIN executed[c] :
    i < j => executed[c][i] < executed[c][j]

(* ibc_packet_ack of the sender never fails.  On an ordered channel an       *)
(* acknowledgement that is refused would stop all that follow.               *)
AcksAreAccepted ==
  \A c \in Channels : chan["send"][c] = "open" /\ acks[c] # <<>> =>
    LET a == Head(acks[c]) IN
    a.packet.kind # "dispatch" /\ a.ack.ok =>
      remote[c].exists /\ remote[c].addr \in {None, a.ack.account}

(* Once the sender knows the remote address of a channel it keeps it until   *)
(* the channel is closed.                                                    *)
RemoteAddressIsStable ==
  [][\A c \in Channels : remote[c].addr # None =>
       remote'[c].addr = remote[c].addr \/ chan'["send"][c] = "closed"]_vars

(* With a working relayer, the sender learns the remote address of every     *)
(* channel that is open on both sides, unless one of them closes it, as a    *)
(* packet that times out does.                                               *)
RemoteAddressIsLearned ==
  \A c \in Channels :
    chan["send"][c] = "open" /\ chan["reflect"][c] = "open"
      ~> remote[c].addr # None \/ \E side \in Sides : chan[side][c] = "closed"
================================================================================
