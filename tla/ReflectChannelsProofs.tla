-------------------------- MODULE ReflectChannelsProofs --------------------------
(***************************************************************************)
(* Proofs about ibc-reflect-send, ibc-reflect and the channels between     *)
(* them, for any sets of channels, addresses and users and any number of   *)
(* packets and coins.  And about the profiler, whose calls a compiler      *)
(* middleware puts around the blocks of a contract's code, for any         *)
(* functions and any calls of them.                                        *)
(***************************************************************************)
EXTENDS ReflectChannels, Profiler, Foundations

(* Sequences, for the steps that Zenon proves.                               *)
LEMMA HeadAndTail ==
  ASSUME NEW S, NEW s \in Seq(S), s # <<>>
  PROVE  /\ Head(s) \in S /\ Tail(s) \in Seq(S) /\ Len(Tail(s)) = Len(s) - 1
         /\ \A i \in 1 .. Len(Tail(s)) : Tail(s)[i] = s[i + 1]
OBVIOUS

LEMMA TailIsPart ==
  ASSUME NEW S, NEW s \in Seq(S), s # <<>>
  PROVE  Tail(s) = SubSeq(s, 2, Len(s))
OBVIOUS

------------------------------------------------------------------------------
(* The inductive invariant, in parts.                                        *)

Packet == [seq : Nat, kind : Kinds]
Ack == [ok : BOOLEAN, account : Addrs \cup {None}, balance : Nat]
Acked == [packet : Packet, ack : Ack]

(* The types, and that no channel is unordered.                              *)
ReflectTypes ==
  /\ accounts \in [Channels -> Addrs \cup {None}] /\ pending \in Channels \cup {None}
  /\ holdings \in [Addrs -> Nat] /\ treasury \in Nat /\ created \subseteq Addrs
  /\ call \in [entry : {"none", "connect", "dispatch"}, channel : Channels \cup {None},
               before : Channels \cup {None}]

SendTypes ==
  /\ admin \in Users
  /\ remote \in [Channels -> [exists : BOOLEAN, addr : Addrs \cup {None}, balance : Nat]]

ChannelTypes ==
  /\ chan \in [Sides -> [Channels -> States]] /\ order \in [Channels -> Orders]
  /\ nextSeq \in [Channels -> 1 .. MaxPackets + 1]
  /\ packets \in [Channels -> Seq(Packet)] /\ acks \in [Channels -> Seq(Acked)]
  /\ handling \in [seq : Nat, kind : Kinds \cup {"none"}]
  /\ \A c \in Channels : order[c] = "ordered"

RestTypes == transfers \in [Addrs -> Nat] /\ executed \in [Channels -> Seq(Nat)]

TypeInv == ReflectTypes /\ SendTypes /\ ChannelTypes /\ RestTypes

(* The factory.  A channel is pending during a connect call only, and its    *)
(* end is not open yet; accounts are contracts that were created.            *)
AccountsInv ==
  /\ AccountPerOpenChannel
  /\ \A c \in Channels : Registered(c) => accounts[c] \in created
  /\ call.entry = "none" => call = NoCall /\ pending = None
  /\ call.entry = "connect" =>
       /\ call.channel \in Channels /\ pending = call.channel /\ call.before = None
       /\ chan["reflect"][call.channel] \in {"init", "try"}
  /\ call.entry = "dispatch" => call.channel \in Channels /\ Registered(call.channel) /\ pending = None

(* n is the number of a packet that was received and answered before every   *)
(* packet of c that is still to be.                                          *)
Passed(c, n) ==
  /\ n < nextSeq[c]
  /\ \A i \in DOMAIN packets[c] : n < packets[c][i].seq

Dispatching(c) == call.entry = "dispatch" /\ call.channel = c

(* The numbers of the packets: an ordered channel keeps their order from     *)
(* sending to the acknowledgement, and a packet leaves no trace until it is  *)
(* executed.                                                                 *)
Numbered(c) ==
  /\ \A i \in DOMAIN packets[c] : packets[c][i].seq < nextSeq[c]
  /\ \A i, j \in DOMAIN packets[c] : i < j => packets[c][i].seq < packets[c][j].seq
  /\ \A i \in DOMAIN executed[c] : Passed(c, executed[c][i])
  /\ \A i \in DOMAIN acks[c] : Passed(c, acks[c][i].packet.seq)
  /\ Dispatching(c) =>
       /\ Passed(c, handling.seq)
       /\ \A i \in DOMAIN executed[c] : executed[c][i] < handling.seq
       /\ \A i \in DOMAIN acks[c] : acks[c][i].packet.seq < handling.seq

NumbersInv ==
  /\ call.entry = "dispatch" => handling.kind = "dispatch"
  /\ \A c \in Channels : Numbered(c)

(* a is, or was when the end of the factory closed, the account of c.        *)
AccountOf(c, a) ==
  /\ a \in created
  /\ chan["reflect"][c] \in {"open", "closed"}
  /\ \A d \in Channels : accounts[d] = a => d = c
  /\ chan["reflect"][c] = "open" => accounts[c] = a

(* An acknowledgement that tells the sender the account.                     *)
Tells(a) == a.packet.kind # "dispatch" /\ a.ack.ok

(* All that the sender knows, or is on its way to it, about the account of a *)
(* channel is the same.                                                      *)
Addressed(c) ==
  /\ chan["send"][c] \in {"none", "init", "try"} => remote[c].addr = None
  /\ chan["send"][c] = "open" => remote[c].exists
  /\ remote[c].addr # None => AccountOf(c, remote[c].addr)
  /\ \A i \in DOMAIN acks[c] : Tells(acks[c][i]) =>
       /\ AccountOf(c, acks[c][i].ack.account)
       /\ remote[c].addr \in {None, acks[c][i].ack.account}
       /\ \A j \in DOMAIN acks[c] : Tells(acks[c][j]) => acks[c][j].ack.account = acks[c][i].ack.account

AddressesInv == \A c \in Channels : Addressed(c)

ChannelsInv ==
  TypeInv /\ AccountsInv /\ NumbersInv /\ AddressesInv /\ AckTellsOutcome /\ ExecutedInOrder

------------------------------------------------------------------------------
(* Sequences.                                                                *)

(* Taking the first element of a queue moves the others up.                  *)
LEMMA TakeFirst ==
  ASSUME NEW S, NEW s \in Seq(S), s # <<>>
  PROVE  /\ Without(s, 1) \in Seq(S)
         /\ DOMAIN Without(s, 1) = 1 .. Len(s) - 1
         /\ \A i \in 1 .. Len(s) - 1 : Without(s, 1)[i] = s[i + 1]
<1> DEFINE t == Tail(s)
<1>1. t \in Seq(S) /\ Len(t) = Len(s) - 1 /\ \A i \in 1 .. Len(s) - 1 : t[i] = s[i + 1]
  BY Zenon, HeadAndTail
<1>2. t = SubSeq(s, 2, Len(s)) /\ SubSeq(s, 1, 0) = <<>>
  BY TailIsPart
<1>3. Without(s, 1) = SubSeq(s, 1, 0) \o SubSeq(s, 2, Len(s))
  BY DEF Without
<1>4. Without(s, 1) = <<>> \o t
  BY Zenon, <1>2, <1>3
<1> HIDE DEF t
<1>5. Without(s, 1) = t
  BY <1>1, <1>4
<1>6. DOMAIN t = 1 .. Len(s) - 1
  BY <1>1
<1> QED
  BY Zenon, <1>1, <1>5, <1>6

(* Adding an element to a queue leaves the others where they are.            *)
LEMMA AppendLast ==
  ASSUME NEW S, NEW s \in Seq(S), NEW e \in S
  PROVE  /\ Append(s, e) \in Seq(S)
         /\ Len(s) \in Nat /\ DOMAIN s = 1 .. Len(s)
         /\ DOMAIN Append(s, e) = 1 .. Len(s) + 1
         /\ \A i \in 1 .. Len(s) : Append(s, e)[i] = s[i]
         /\ Append(s, e)[Len(s) + 1] = e
OBVIOUS

(* A position of the longer queue is one of the shorter queue, or the last.  *)
LEMMA LastOrBefore ==
  ASSUME NEW n \in Nat, NEW j \in 1 .. n + 1
  PROVE  j \in 1 .. n \/ j = n + 1
OBVIOUS

(* An ordered channel delivers its first element.                            *)
LEMMA DeliversFirst ==
  ASSUME TypeInv, NEW c \in Channels, NEW S, NEW queue \in Seq(S), NEW i \in Deliverable(c, queue)
  PROVE  i = 1 /\ queue # <<>> /\ 1 \in DOMAIN queue
<1>1. order[c] = "ordered"
  BY Zenon DEF TypeInv, ChannelTypes
<1>2. queue # <<>>
  BY DEF Deliverable
<1> QED
  BY <1>1, <1>2 DEF Deliverable

------------------------------------------------------------------------------
(* The initial state.                                                        *)

(* Nothing is connected, sent or created yet.                                *)
LEMMA InitChannelsInv == Init => ChannelsInv
<1> SUFFICES ASSUME Init PROVE ChannelsInv
  BY Zenon
<1> USE ProtocolAssumption, ChannelsAssumption
<1>0. /\ \A c \in Channels : packets[c] = <<>> /\ acks[c] = <<>> /\ executed[c] = <<>>
      /\ \A c \in Channels : accounts[c] = None /\ remote[c] = Unregistered /\ order[c] = "ordered"
      /\ \A c \in Channels, side \in Sides : chan[side][c] = "none"
  BY Zenon DEF Init, ReflectInit, SendInit
<1>1. TypeInv
  <2>1. ReflectTypes
    BY Zenon DEF Init, ReflectInit, NoCall, ReflectTypes
  <2>2. SendTypes
    BY Zenon DEF Init, SendInit, Unregistered, SendTypes
  <2>3. chan \in [Sides -> [Channels -> States]] /\ order \in [Channels -> Orders]
    BY Zenon DEF Init, States, Orders
  <2>4. nextSeq \in [Channels -> 1 .. MaxPackets + 1]
    BY DEF Init
  <2>5. packets \in [Channels -> Seq(Packet)] /\ acks \in [Channels -> Seq(Acked)]
    BY DEF Init
  <2>6. handling \in [seq : Nat, kind : Kinds \cup {"none"}]
    BY Zenon DEF Init, NoPacket
  <2>7. RestTypes
    BY DEF Init, RestTypes
  <2> QED
    BY Zenon, <1>0, <2>1, <2>2, <2>3, <2>4, <2>5, <2>6, <2>7 DEF TypeInv, ChannelTypes
<1>2. AccountsInv
  BY Zenon, <1>0 DEF Init, ReflectInit, AccountsInv, AccountPerOpenChannel, Registered, NoCall, Sides
<1>3. NumbersInv
  BY <1>0 DEF Init, ReflectInit, NumbersInv, Numbered, NoCall, Dispatching
<1>4. AddressesInv
  <2> SUFFICES ASSUME NEW c \in Channels
               PROVE  /\ remote[c].addr = None /\ chan["send"][c] = "none"
                      /\ DOMAIN acks[c] = {}
    BY Zenon DEF AddressesInv, Addressed
  <2> QED
    BY <1>0 DEF Unregistered, Sides
<1>5. AckTellsOutcome /\ ExecutedInOrder
  BY <1>0 DEF AckTellsOutcome, ExecutedInOrder, Range
<1> QED
  BY Zenon, <1>1, <1>2, <1>3, <1>4, <1>5 DEF ChannelsInv

------------------------------------------------------------------------------
(* The types are kept by every step.                                         *)

(* The steps of the handshake.                                               *)
LEMMA ConnectKeepsTypes ==
  ASSUME ChannelsInv,
         \/ \E side \in Sides, c \in Channels, o \in Orders, v \in Versions : OpenInit(side, c, o, v)
         \/ \E side \in Sides, c \in Channels, v \in Versions : OpenTry(side, c, v)
         \/ \E c \in Channels : ConnectSend(c)
         \/ \E c \in Channels : ConnectReflect(c)
         \/ ConnectReply
  PROVE  TypeInv'
<1> USE ProtocolAssumption, ChannelsAssumption
<1>0. ReflectTypes /\ SendTypes /\ ChannelTypes /\ RestTypes
  BY Zenon DEF ChannelsInv, TypeInv
<1>1. CASE \E side \in Sides, c \in Channels, o \in Orders, v \in Versions : OpenInit(side, c, o, v)
  <2> PICK side \in Sides, c \in Channels, o \in Orders, v \in Versions : OpenInit(side, c, o, v)
    BY Zenon, <1>1
  <2>1. chan' \in [Sides -> [Channels -> States]]
    BY Zenon, <1>0 DEF OpenInit, ChannelTypes, States
  <2>2. o = "ordered" /\ order' = [order EXCEPT ![c] = o]
    BY Zenon DEF OpenInit, Accepts
  <2>3. order' \in [Channels -> Orders] /\ \A d \in Channels : order'[d] = "ordered"
    BY Zenon, <1>0, <2>2 DEF ChannelTypes
  <2> QED
    BY Zenon, <1>0, <2>1, <2>3 DEF OpenInit, TypeInv, ReflectTypes, SendTypes, ChannelTypes, RestTypes, reflectVars, sendVars
<1>2. CASE \E side \in Sides, c \in Channels, v \in Versions : OpenTry(side, c, v)
  <2> PICK side \in Sides, c \in Channels, v \in Versions : OpenTry(side, c, v)
    BY Zenon, <1>2
  <2>1. chan' \in [Sides -> [Channels -> States]]
    BY Zenon, <1>0 DEF OpenTry, ChannelTypes, States
  <2> QED
    BY Zenon, <1>0, <2>1 DEF OpenTry, TypeInv, ReflectTypes, SendTypes, ChannelTypes, RestTypes, reflectVars, sendVars
<1>3. CASE \E c \in Channels : ConnectSend(c)
  <2> PICK c \in Channels : ConnectSend(c)
    BY Zenon, <1>3
  <2>1. chan' \in [Sides -> [Channels -> States]]
    BY Zenon, <1>0 DEF ConnectSend, ChannelTypes, States, Sides
  <2>2. SendTypes'
    BY Zenon, <1>0 DEF ConnectSend, SenderConnect, SendTypes, DefaultData
  <2>3. /\ packets' \in [Channels -> Seq(Packet)] /\ nextSeq' \in [Channels -> 1 .. MaxPackets + 1]
    <3>1. nextSeq[c] \in 1 .. MaxPackets
      BY <1>0 DEF ConnectSend, SendPacket, ChannelTypes
    <3>2. nextSeq' \in [Channels -> 1 .. MaxPackets + 1]
      BY <1>0, <3>1 DEF ConnectSend, SendPacket, ChannelTypes
    <3>3. [seq |-> nextSeq[c], kind |-> "who_am_i"] \in Packet
      BY <3>1 DEF Packet, Kinds
    <3>4. Append(packets[c], [seq |-> nextSeq[c], kind |-> "who_am_i"]) \in Seq(Packet)
      BY Zenon, <1>0, <3>3, AppendLast DEF ChannelTypes
    <3> QED
      BY Zenon, <1>0, <3>2, <3>4 DEF ConnectSend, SendPacket, ChannelTypes
  <2> QED
    BY Zenon, <1>0, <2>1, <2>2, <2>3 DEF ConnectSend, TypeInv, ReflectTypes, ChannelTypes, RestTypes, reflectVars
<1>4. CASE \E c \in Channels : ConnectReflect(c)
  <2> PICK c \in Channels : ConnectReflect(c)
    BY Zenon, <1>4
  <2>1. ReflectTypes'
    BY Zenon, <1>0 DEF ConnectReflect, ChannelConnect, ReflectTypes
  <2> QED
    BY Zenon, <1>0, <2>1 DEF ConnectReflect, TypeInv, SendTypes, ChannelTypes, RestTypes, channelVars, sendVars
<1>5. CASE ConnectReply
  <2>1. CASE HandleInitCallback /\ chan' = [chan EXCEPT !["reflect"][call.channel] = "open"]
    <3>1. ReflectTypes'
      BY Zenon, <1>0, <2>1 DEF HandleInitCallback, NoCall, ReflectTypes
    <3>2. chan' \in [Sides -> [Channels -> States]]
      BY Zenon, <1>0, <2>1 DEF ChannelTypes, States, Sides
    <3> QED
      BY Zenon, <1>0, <1>5, <3>1, <3>2 DEF ConnectReply, TypeInv, SendTypes, ChannelTypes, RestTypes, sendVars
  <2>2. CASE ConnectFails /\ UNCHANGED chan
    <3>1. ReflectTypes'
      BY Zenon, <1>0, <2>2 DEF ConnectFails, NoCall, ReflectTypes
    <3> QED
      BY Zenon, <1>0, <1>5, <2>2, <3>1 DEF ConnectReply, TypeInv, SendTypes, ChannelTypes, RestTypes, sendVars
  <2> QED
    BY Zenon, <1>5, <2>1, <2>2 DEF ConnectReply
<1> QED
  BY Zenon, <1>1, <1>2, <1>3, <1>4, <1>5

(* The acknowledgements the factory writes.                                  *)
LEMMA AckTypes ==
  ASSUME TypeInv, NEW c \in Channels
  PROVE  /\ \A kind \in Kinds : AckAtOnce(c, kind) \in Ack
         /\ \A succeeds \in BOOLEAN : DispatchAck(succeeds) \in Ack
<1>1. accounts[c] \in Addrs \cup {None} /\ (Registered(c) => accounts[c] \in Addrs)
  BY Zenon DEF TypeInv, ReflectTypes, Registered
<1>2. Registered(c) => holdings[accounts[c]] \in Nat
  BY Zenon, <1>1 DEF TypeInv, ReflectTypes
<1>3. \A a \in Addrs \cup {None}, n \in Nat : AckOk(a, n) \in Ack
  BY Zenon DEF AckOk, Ack
<1>4. AckErr \in Ack
  BY Zenon DEF AckErr, Ack
<1> QED
  BY Zenon, <1>1, <1>2, <1>3, <1>4 DEF AckAtOnce, DispatchAck

(* The steps of packets and acknowledgements.                                *)
LEMMA PacketsKeepTypes ==
  ASSUME ChannelsInv,
         \/ \E c \in Channels : Receive(c)
         \/ \E succeeds \in BOOLEAN : Dispatch(succeeds)
         \/ \E c \in Channels : Acknowledge(c)
         \/ \E c \in Channels : Timeout(c)
         \/ \E user \in Users, c \in Channels, kind \in Kinds \ {"who_am_i"} : Send(user, c, kind)
  PROVE  TypeInv'
<1> USE ProtocolAssumption, ChannelsAssumption
<1>0. TypeInv /\ ReflectTypes /\ SendTypes /\ ChannelTypes /\ RestTypes
  BY Zenon DEF ChannelsInv, TypeInv
<1>1. CASE \E c \in Channels : Receive(c)
  <2> PICK c \in Channels : Receive(c)
    BY Zenon, <1>1
  <2>1. PICK i \in Deliverable(c, packets[c]) :
          /\ packets' = [packets EXCEPT ![c] = Without(@, i)]
          /\ \/ /\ ReceiveAtOnce /\ UNCHANGED handling
                /\ acks' = [acks EXCEPT ![c] = Append(@, [packet |-> packets[c][i],
                                                          ack |-> AckAtOnce(c, packets[c][i].kind)])]
             \/ /\ ReceiveDispatch(c) /\ handling' = packets[c][i]
                /\ UNCHANGED acks
    BY Zenon DEF Receive
  <2>2. packets[c] \in Seq(Packet) /\ acks[c] \in Seq(Acked)
    BY Zenon, <1>0 DEF ChannelTypes
  <2>3. i = 1 /\ packets[c] # <<>> /\ 1 \in DOMAIN packets[c]
    BY Zenon, <1>0, <2>2, DeliversFirst
  <2>4. packets[c][i] \in Packet
    BY <2>2, <2>3
  <2>5. packets' \in [Channels -> Seq(Packet)]
    BY Zenon, <1>0, <2>1, <2>2, <2>3, TakeFirst DEF ChannelTypes
  <2>6. ReflectTypes'
    BY <1>0, <2>1 DEF ReceiveAtOnce, ReceiveDispatch, reflectVars, ReflectTypes
  <2>7. acks' \in [Channels -> Seq(Acked)]
    <3>1. packets[c][i].kind \in Kinds
      BY Zenon, <2>4 DEF Packet
    <3>2. AckAtOnce(c, packets[c][i].kind) \in Ack
      BY Zenon, <1>0, <3>1, AckTypes
    <3>3. [packet |-> packets[c][i], ack |-> AckAtOnce(c, packets[c][i].kind)] \in Acked
      BY Zenon, <2>4, <3>2 DEF Acked
    <3>4. Append(acks[c], [packet |-> packets[c][i], ack |-> AckAtOnce(c, packets[c][i].kind)]) \in Seq(Acked)
      BY Zenon, <2>2, <3>3, AppendLast
    <3> QED
      BY ZenonT(60), <1>0, <2>1, <3>4 DEF ChannelTypes
  <2>8. handling' \in [seq : Nat, kind : Kinds \cup {"none"}]
    BY Zenon, <1>0, <2>1, <2>4 DEF ChannelTypes, Packet
  <2> QED
    BY Zenon, <1>0, <2>5, <2>6, <2>7, <2>8 DEF Receive, TypeInv, SendTypes, ChannelTypes, RestTypes, sendVars
<1>2. CASE \E succeeds \in BOOLEAN : Dispatch(succeeds)
  <2> PICK succeeds \in BOOLEAN : Dispatch(succeeds)
    BY Zenon, <1>2
  <2> DEFINE c == call.channel
  <2>1. call.entry = "dispatch" /\ c \in Channels /\ handling.kind = "dispatch" /\ accounts[c] \in Addrs
    BY ZenonT(60), <1>0 DEF Dispatch, ExecuteDispatch, ChannelsInv, AccountsInv, NumbersInv, Registered,
       ReflectTypes
  <2>2. ReflectTypes'
    <3>1. call' = NoCall /\ UNCHANGED <<accounts, pending, treasury, created>>
      BY Zenon DEF Dispatch, ExecuteDispatch
    <3>2. holdings' \in [Addrs -> Nat]
      BY SMTT(60), <1>0, <2>1 DEF Dispatch, ExecuteDispatch, ReflectTypes
    <3> QED
      BY Zenon, <1>0, <3>1, <3>2 DEF ReflectTypes, NoCall
  <2>3. handling \in Packet /\ handling.seq \in Nat
    BY Zenon, <1>0, <2>1 DEF ChannelTypes, Packet, Kinds
  <2>4. [packet |-> handling, ack |-> DispatchAck(succeeds)] \in Acked
    BY Zenon, <1>0, <2>1, <2>3, AckTypes DEF Acked
  <2>5. Append(acks[c], [packet |-> handling, ack |-> DispatchAck(succeeds)]) \in Seq(Acked)
    BY Zenon, <1>0, <2>1, <2>4, AppendLast DEF ChannelTypes
  <2>6. acks' \in [Channels -> Seq(Acked)]
    BY Zenon, <1>0, <2>5 DEF Dispatch, ChannelTypes
  <2>7. RestTypes'
    <3>1. Append(executed[c], handling.seq) \in Seq(Nat)
      BY Zenon, <1>0, <2>1, <2>3, AppendLast DEF RestTypes
    <3> QED
      BY Zenon, <1>0, <3>1 DEF Dispatch, RestTypes
  <2>8. handling' \in [seq : Nat, kind : Kinds \cup {"none"}]
    BY Zenon DEF Dispatch, NoPacket
  <2> QED
    BY Zenon, <1>0, <2>2, <2>6, <2>7, <2>8 DEF Dispatch, TypeInv, SendTypes, ChannelTypes, sendVars
<1>3. CASE \E c \in Channels : Acknowledge(c)
  <2> PICK c \in Channels : Acknowledge(c)
    BY Zenon, <1>3
  <2>1. PICK i \in Deliverable(c, acks[c]) :
          Handles(c, acks[c][i]) /\ acks' = [acks EXCEPT ![c] = Without(@, i)]
    BY Zenon DEF Acknowledge
  <2>2. acks[c] \in Seq(Acked)
    BY Zenon, <1>0 DEF ChannelTypes
  <2>3. i = 1 /\ acks[c] # <<>> /\ 1 \in DOMAIN acks[c]
    BY Zenon, <1>0, <2>2, DeliversFirst
  <2>4. acks' \in [Channels -> Seq(Acked)]
    BY Zenon, <1>0, <2>1, <2>2, <2>3, TakeFirst DEF ChannelTypes
  <2>5. acks[c][i] \in Acked
    BY <2>2, <2>3
  <2>6. acks[c][i].packet.kind \in Kinds /\ acks[c][i].ack \in Ack
    BY Zenon, <2>5 DEF Acked, Packet
  <2>7. SendTypes'
    <3>1. acks[c][i].ack.account \in Addrs \cup {None} /\ acks[c][i].ack.balance \in Nat
      BY Zenon, <2>6 DEF Ack
    <3>2. AckDispatch(c) \/ AckWhoAmI(c, acks[c][i].ack) \/ AckBalances(c, acks[c][i].ack)
      BY Zenon, <2>1, <2>6 DEF Handles, Kinds
    <3>3. CASE AckDispatch(c)
      BY Zenon, <1>0, <3>3 DEF AckDispatch, SendTypes, sendVars
    <3>4. CASE AckWhoAmI(c, acks[c][i].ack)
      BY SMTT(30), <1>0, <3>1, <3>4 DEF AckWhoAmI, SendTypes
    <3>5. CASE AckBalances(c, acks[c][i].ack)
      <4>1. PICK account \in Addrs \cup {None}, balance \in Nat :
              account = acks[c][i].ack.account /\ balance = acks[c][i].ack.balance
        BY Zenon, <3>1
      <4>2. /\ remote' = remote \/ remote' = [remote EXCEPT ![c].addr = account, ![c].balance = balance]
            /\ admin' = admin
        BY Zenon, <3>5, <4>1 DEF AckBalances
      <4>3. CASE remote' = [remote EXCEPT ![c].addr = account, ![c].balance = balance]
        BY ZenonT(60), <1>0, <4>2, <4>3 DEF SendTypes
      <4> QED
        BY Zenon, <1>0, <4>2, <4>3 DEF SendTypes
    <3> QED
      BY Zenon, <3>2, <3>3, <3>4, <3>5
  <2> QED
    BY Zenon, <1>0, <2>4, <2>7 DEF Acknowledge, TypeInv, ReflectTypes, ChannelTypes, RestTypes, reflectVars
<1>4. CASE \E c \in Channels : Timeout(c)
  <2> PICK c \in Channels : Timeout(c)
    BY Zenon, <1>4
  <2>1. order[c] = "ordered"
    BY Zenon, <1>0 DEF ChannelTypes
  <2>2. chan' = [chan EXCEPT !["send"][c] = "closed"] /\ packets' = [packets EXCEPT ![c] = <<>>]
    BY Zenon, <2>1 DEF Timeout
  <2>3. chan' \in [Sides -> [Channels -> States]]
    BY Zenon, <1>0, <2>2 DEF ChannelTypes, States, Sides
  <2>4. packets' \in [Channels -> Seq(Packet)]
    <3>1. <<>> \in Seq(Packet)
      OBVIOUS
    <3> QED
      BY Zenon, <1>0, <2>2, <3>1 DEF ChannelTypes
  <2> QED
    BY Zenon, <1>0, <2>3, <2>4 DEF Timeout, PacketTimeout, TypeInv, ReflectTypes, SendTypes, ChannelTypes,
       RestTypes, reflectVars, sendVars
<1>5. CASE \E user \in Users, c \in Channels, kind \in Kinds \ {"who_am_i"} : Send(user, c, kind)
  <2> PICK user \in Users, c \in Channels, kind \in Kinds \ {"who_am_i"} : Send(user, c, kind)
    BY Zenon, <1>5
  <2>1. nextSeq[c] \in 1 .. MaxPackets
    BY <1>0 DEF Send, SendPacket, ChannelTypes
  <2>2. nextSeq' \in [Channels -> 1 .. MaxPackets + 1]
    BY SMTT(60), <1>0, <2>1 DEF Send, SendPacket, ChannelTypes
  <2>3. [seq |-> nextSeq[c], kind |-> kind] \in Packet
    BY <2>1 DEF Packet
  <2>4. Append(packets[c], [seq |-> nextSeq[c], kind |-> kind]) \in Seq(Packet)
    BY Zenon, <1>0, <2>3, AppendLast DEF ChannelTypes
  <2>5. packets' \in [Channels -> Seq(Packet)]
    BY Zenon, <1>0, <2>4 DEF Send, SendPacket, ChannelTypes
  <2> QED
    BY Zenon, <1>0, <2>2, <2>5 DEF Send, TypeInv, ReflectTypes, SendTypes, ChannelTypes, RestTypes, reflectVars, sendVars
<1> QED
  BY Zenon, <1>1, <1>2, <1>3, <1>4, <1>5

(* Closing a channel, the admin, and funds.                                  *)
LEMMA CallsKeepTypes ==
  ASSUME ChannelsInv,
         \/ \E c \in Channels : CloseSend(c)
         \/ \E c \in Channels : CloseReflect(c)
         \/ \E user, new \in Users : ChangeAdmin(user, new)
         \/ \E c \in Channels : SendFunds(c)
         \/ \E a \in Addrs : DeliverFunds(a)
  PROVE  TypeInv'
<1> USE ProtocolAssumption, ChannelsAssumption
<1>0. TypeInv /\ ReflectTypes /\ SendTypes /\ ChannelTypes /\ RestTypes
  BY Zenon DEF ChannelsInv, TypeInv
<1>1. CASE \E c \in Channels : CloseSend(c)
  <2> PICK c \in Channels : CloseSend(c)
    BY Zenon, <1>1
  <2>1. SendTypes'
    BY <1>0 DEF CloseSend, SenderClose, Unregistered, SendTypes
  <2>2. chan' \in [Sides -> [Channels -> States]]
    BY Zenon, <1>0 DEF CloseSend, ChannelTypes, States, Sides
  <2> QED
    BY Zenon, <1>0, <2>1, <2>2 DEF CloseSend, TypeInv, ReflectTypes, ChannelTypes, RestTypes, reflectVars
<1>2. CASE \E c \in Channels : CloseReflect(c)
  <2> PICK c \in Channels : CloseReflect(c)
    BY Zenon, <1>2
  <2>1. accounts[c] \in Addrs
    BY Zenon, <1>0 DEF CloseReflect, ChannelClose, Registered, ReflectTypes
  <2>2. ReflectTypes'
    BY <1>0, <2>1 DEF CloseReflect, ChannelClose, ReflectTypes
  <2>3. chan' \in [Sides -> [Channels -> States]]
    BY Zenon, <1>0 DEF CloseReflect, ChannelTypes, States, Sides
  <2> QED
    BY Zenon, <1>0, <2>2, <2>3 DEF CloseReflect, TypeInv, SendTypes, ChannelTypes, RestTypes, sendVars
<1>3. CASE \E user, new \in Users : ChangeAdmin(user, new)
  BY ZenonT(60), <1>0, <1>3 DEF ChangeAdmin, UpdateAdmin, TypeInv, ReflectTypes, SendTypes, ChannelTypes, RestTypes,
     reflectVars, channelVars
<1>4. CASE \E c \in Channels : SendFunds(c)
  <2> PICK c \in Channels : SendFunds(c)
    BY Zenon, <1>4
  <2>1. remote[c].addr \in Addrs
    BY Zenon, <1>0 DEF SendFunds, MaySendFunds, SendTypes
  <2>2. RestTypes'
    BY SMTT(60), <1>0, <2>1 DEF SendFunds, RestTypes
  <2> QED
    BY Zenon, <1>0, <2>2 DEF SendFunds, TypeInv, ReflectTypes, SendTypes, ChannelTypes, reflectVars, sendVars, channelVars
<1>5. CASE \E a \in Addrs : DeliverFunds(a)
  <2> PICK a \in Addrs : DeliverFunds(a)
    BY Zenon, <1>5
  <2>1. ReflectTypes' /\ RestTypes'
    BY <1>0 DEF DeliverFunds, ReflectTypes, RestTypes
  <2> QED
    BY Zenon, <1>0, <2>1 DEF DeliverFunds, TypeInv, SendTypes, ChannelTypes, sendVars, channelVars
<1> QED
  BY Zenon, <1>1, <1>2, <1>3, <1>4, <1>5

------------------------------------------------------------------------------
(* The accounts of the factory.                                              *)

(* The ends of the channels at the factory, and what it has stored, change   *)
(* in five actions only.                                                     *)
LEMMA AccountsFrame ==
  ASSUME AccountsInv, UNCHANGED <<accounts, pending, created, call>>,
         \A c \in Channels : \/ chan'["reflect"][c] = chan["reflect"][c]
                             \/ chan["reflect"][c] = "none" /\ chan'["reflect"][c] \in {"init", "try"}
  PROVE  AccountsInv'
BY Zenon DEF AccountsInv, AccountPerOpenChannel, Registered

(* Registering, closing and failing keep the accounts apart.                 *)
LEMMA AccountsStep ==
  ASSUME ChannelsInv, Next
  PROVE  AccountsInv'
<1> USE ProtocolAssumption
<1>0. AccountsInv /\ ReflectTypes /\ chan \in [Sides -> [Channels -> States]]
  BY Zenon DEF ChannelsInv, TypeInv, ChannelTypes
<1>1. ASSUME NEW side \in Sides, NEW c \in Channels, NEW o \in Orders, NEW v \in Versions, OpenInit(side, c, o, v)
      PROVE  AccountsInv'
  <2>1. \A d \in Channels : \/ chan'["reflect"][d] = chan["reflect"][d]
                            \/ chan["reflect"][d] = "none" /\ chan'["reflect"][d] \in {"init", "try"}
    BY Zenon, <1>0, <1>1 DEF OpenInit, Sides
  <2> QED
    BY Zenon, <1>0, <1>1, <2>1, AccountsFrame DEF OpenInit, reflectVars
<1>2. ASSUME NEW side \in Sides, NEW c \in Channels, NEW v \in Versions, OpenTry(side, c, v)
      PROVE  AccountsInv'
  <2>1. \A d \in Channels : \/ chan'["reflect"][d] = chan["reflect"][d]
                            \/ chan["reflect"][d] = "none" /\ chan'["reflect"][d] \in {"init", "try"}
    BY Zenon, <1>0, <1>2 DEF OpenTry, Sides
  <2> QED
    BY Zenon, <1>0, <1>2, <2>1, AccountsFrame DEF OpenTry, reflectVars
<1>3. ASSUME NEW c \in Channels, ConnectReflect(c)
      PROVE  AccountsInv'
  <2>1. chan["reflect"][c] \in {"init", "try"} /\ pending = None
    BY Zenon, <1>0, <1>3 DEF ConnectReflect, CanConnect, ChannelConnect, AccountsInv, NoCall
  <2>2. /\ pending' = c /\ call' = [entry |-> "connect", channel |-> c, before |-> None]
        /\ UNCHANGED <<accounts, created, chan>>
    BY Zenon, <1>3, <2>1 DEF ConnectReflect, ChannelConnect, channelVars
  <2> QED
    BY Zenon, <1>0, <2>1, <2>2 DEF AccountsInv, AccountPerOpenChannel, Registered
<1>4. ASSUME ConnectReply
      PROVE  AccountsInv'
  <2> DEFINE c == call.channel
  <2>1. c \in Channels /\ pending = c /\ call.before = None /\ chan["reflect"][c] \in {"init", "try"}
    BY Zenon, <1>0, <1>4 DEF ConnectReply, HandleInitCallback, ConnectFails, AccountsInv
  <2>2. CASE HandleInitCallback /\ chan' = [chan EXCEPT !["reflect"][call.channel] = "open"]
    <3>1. PICK addr \in Addrs \ created :
            accounts' = [accounts EXCEPT ![c] = addr] /\ created' = created \cup {addr}
      BY Zenon, <2>1, <2>2 DEF HandleInitCallback
    <3>2. pending' = None /\ call' = NoCall
      BY Zenon, <2>2 DEF HandleInitCallback
    <3>3. \A d \in Channels : chan'["reflect"][d] = IF d = c THEN "open" ELSE chan["reflect"][d]
      BY Zenon, <1>0, <2>1, <2>2 DEF Sides
    <3>4. \A d \in Channels : accounts'[d] = IF d = c THEN addr ELSE accounts[d]
      BY Zenon, <1>0, <2>1, <3>1 DEF ReflectTypes
    <3>5. addr # None
      BY Zenon
    <3>6. AccountPerOpenChannel'
      BY <1>0, <2>1, <3>1, <3>3, <3>4, <3>5 DEF AccountsInv, AccountPerOpenChannel, Registered
    <3> QED
      BY <1>0, <3>1, <3>2, <3>4, <3>6 DEF AccountsInv, Registered, NoCall
  <2>3. CASE ConnectFails /\ UNCHANGED chan
    BY Zenon, <1>0, <2>1, <2>3 DEF ConnectFails, AccountsInv, AccountPerOpenChannel, Registered, NoCall
  <2> QED
    BY Zenon, <1>4, <2>2, <2>3 DEF ConnectReply
<1>5. ASSUME NEW c \in Channels, Receive(c)
      PROVE  AccountsInv'
  <2>1. UNCHANGED <<accounts, pending, created, chan>>
    BY Zenon, <1>5 DEF Receive, ReceiveAtOnce, ReceiveDispatch, reflectVars
  <2>2. CASE UNCHANGED call
    BY Zenon, <1>0, <2>1, <2>2, AccountsFrame
  <2>3. CASE ReceiveDispatch(c)
    BY Zenon, <1>0, <2>1, <2>3 DEF ReceiveDispatch, AccountsInv, AccountPerOpenChannel, Registered, NoCall
  <2> QED
    BY Zenon, <1>5, <2>2, <2>3 DEF Receive, ReceiveAtOnce, reflectVars
<1>6. ASSUME NEW succeeds \in BOOLEAN, Dispatch(succeeds)
      PROVE  AccountsInv'
  BY Zenon, <1>0, <1>6 DEF Dispatch, ExecuteDispatch, AccountsInv, AccountPerOpenChannel, Registered, NoCall
<1>7. ASSUME NEW c \in Channels, CloseReflect(c)
      PROVE  AccountsInv'
  <2>1. \A d \in Channels : chan'["reflect"][d] = IF d = c THEN "closed" ELSE chan["reflect"][d]
    BY Zenon, <1>0, <1>7 DEF CloseReflect, Sides
  <2>2. \A d \in Channels : accounts'[d] = IF d = c THEN None ELSE accounts[d]
    BY Zenon, <1>0, <1>7 DEF CloseReflect, ChannelClose, ReflectTypes
  <2>3. call = NoCall /\ UNCHANGED <<pending, created, call>>
    BY Zenon, <1>7 DEF CloseReflect, ChannelClose
  <2> QED
    BY ZenonT(60), <1>0, <2>1, <2>2, <2>3 DEF AccountsInv, AccountPerOpenChannel, Registered, NoCall
<1>8. ASSUME \/ \E c \in Channels : ConnectSend(c) \/ Acknowledge(c) \/ Timeout(c) \/ CloseSend(c) \/ SendFunds(c)
             \/ \E user, new \in Users : ChangeAdmin(user, new)
             \/ \E user \in Users, c \in Channels, kind \in Kinds \ {"who_am_i"} : Send(user, c, kind)
             \/ \E a \in Addrs : DeliverFunds(a)
      PROVE  AccountsInv'
  <2>1. UNCHANGED <<accounts, pending, created, call>>
    BY Zenon, <1>8 DEF ConnectSend, Acknowledge, Timeout, CloseSend, SendFunds, ChangeAdmin, Send, DeliverFunds, reflectVars
  <2>2. \A d \in Channels : chan'["reflect"][d] = chan["reflect"][d]
    <3>1. UNCHANGED chan \/ \E c \in Channels, s \in States : chan' = [chan EXCEPT !["send"][c] = s]
      BY Zenon, <1>8 DEF ConnectSend, Acknowledge, Timeout, CloseSend, SendFunds, ChangeAdmin, Send, DeliverFunds,
         channelVars, States
    <3> QED
      BY Zenon, <1>0, <3>1 DEF Sides
  <2> QED
    BY Zenon, <1>0, <2>1, <2>2, AccountsFrame
<1> QED
  BY Zenon, <1>1, <1>2, <1>3, <1>4, <1>5, <1>6, <1>7, <1>8 DEF Next

------------------------------------------------------------------------------
(* The numbers of the packets.                                               *)

(* What is numbered has a number.                                            *)
LEMMA NumberTypes ==
  ASSUME TypeInv, NEW c \in Channels
  PROVE  /\ packets[c] \in Seq(Packet) /\ acks[c] \in Seq(Acked) /\ executed[c] \in Seq(Nat)
         /\ nextSeq[c] \in Nat /\ handling.seq \in Nat
         /\ \A i \in DOMAIN packets[c] : packets[c][i].seq \in Nat
         /\ \A i \in DOMAIN acks[c] : acks[c][i].packet.seq \in Nat
         /\ \A i \in DOMAIN executed[c] : executed[c][i] \in Nat
<1>1. /\ packets[c] \in Seq(Packet) /\ acks[c] \in Seq(Acked) /\ executed[c] \in Seq(Nat)
      /\ handling.seq \in Nat
  BY Zenon DEF TypeInv, ChannelTypes, RestTypes
<1>2. nextSeq[c] \in Nat
  BY ChannelsAssumption DEF TypeInv, ChannelTypes
<1>3. \A i \in DOMAIN packets[c] : packets[c][i] \in Packet
  BY <1>1
<1>4. \A i \in DOMAIN acks[c] : acks[c][i] \in Acked
  BY <1>1
<1>5. \A i \in DOMAIN executed[c] : executed[c][i] \in Nat
  BY <1>1
<1> QED
  BY Zenon, <1>1, <1>2, <1>3, <1>4, <1>5 DEF Packet, Acked

(* A channel that a step does not touch.                                     *)
LEMMA NumbersFrame ==
  ASSUME NEW c \in Channels, Numbered(c),
         packets'[c] = packets[c], acks'[c] = acks[c], executed'[c] = executed[c], nextSeq'[c] = nextSeq[c],
         Dispatching(c)' => Dispatching(c) /\ handling' = handling
  PROVE  Numbered(c)'
BY Zenon DEF Numbered, Passed

(* A packet that is sent has a number greater than all before.               *)
LEMMA SendNumbers ==
  ASSUME ChannelsInv, NEW c \in Channels, NEW kind \in Kinds, SendPacket(c, kind),
         UNCHANGED <<acks, executed, handling, call>>
  PROVE  NumbersInv'
<1>0. TypeInv /\ NumbersInv
  BY Zenon DEF ChannelsInv
<1> SUFFICES ASSUME NEW d \in Channels PROVE Numbered(d)'
  BY Zenon, <1>0 DEF NumbersInv
<1> DEFINE p == [seq |-> nextSeq[c], kind |-> kind]
<1>1. /\ packets' = [packets EXCEPT ![c] = Append(packets[c], p)]
      /\ nextSeq' = [nextSeq EXCEPT ![c] = nextSeq[c] + 1]
  BY Zenon DEF SendPacket
<1>2. Numbered(d) /\ (Dispatching(d)' <=> Dispatching(d))
  BY Zenon, <1>0 DEF NumbersInv, Dispatching
<1>3. CASE d # c
  BY Zenon, <1>0, <1>1, <1>2, <1>3, NumbersFrame DEF TypeInv, ChannelTypes
<1>4. CASE d = c
  <2>1. PICK n \in Nat : n = nextSeq[c]
    BY Zenon, <1>0, NumberTypes
  <2>2. p \in Packet
    BY Zenon, <2>1 DEF Packet
  <2>3. /\ DOMAIN packets[c] = 1 .. Len(packets[c]) /\ Len(packets[c]) \in Nat
        /\ packets'[c] = Append(packets[c], p) /\ nextSeq'[c] = n + 1
        /\ DOMAIN packets'[c] = 1 .. Len(packets[c]) + 1
        /\ \A i \in DOMAIN packets[c] : packets'[c][i] = packets[c][i]
        /\ packets'[c][Len(packets[c]) + 1].seq = n
    BY SMTT(60), <1>0, <1>1, <2>1, <2>2, AppendLast, NumberTypes DEF TypeInv, ChannelTypes
  <2>4. \A i \in DOMAIN packets[c] : packets[c][i].seq \in Nat /\ packets[c][i].seq < n
    BY Zenon, <1>0, <1>2, <1>4, <2>1, NumberTypes DEF Numbered
  <2>5. \A i \in DOMAIN packets'[c] : i \in DOMAIN packets[c] \/ i = Len(packets[c]) + 1
    BY SMTT(60), <2>3
  <2>6. /\ \A i \in DOMAIN packets'[c] : packets'[c][i].seq < nextSeq'[c]
        /\ \A i, j \in DOMAIN packets'[c] : i < j => packets'[c][i].seq < packets'[c][j].seq
    <3>1. ASSUME NEW i \in DOMAIN packets'[c]
          PROVE  /\ i \in DOMAIN packets[c] => /\ packets'[c][i].seq = packets[c][i].seq
                                             /\ packets'[c][i].seq \in Nat /\ packets'[c][i].seq < n
                 /\ i \notin DOMAIN packets[c] => i = Len(packets[c]) + 1 /\ packets'[c][i].seq = n
      BY Zenon, <2>3, <2>4, <2>5, <3>1
    <3>2. ASSUME NEW i \in DOMAIN packets'[c] PROVE packets'[c][i].seq < nextSeq'[c]
      <4>1. PICK s : s = packets'[c][i].seq
        BY Zenon
      <4>2. s = n \/ (s \in Nat /\ s < n)
        BY Zenon, <3>1, <4>1
      <4>3. s < n + 1
        BY <2>1, <4>2
      <4> QED
        BY Zenon, <2>3, <4>1, <4>3
    <3>3. ASSUME NEW i \in DOMAIN packets'[c], NEW j \in DOMAIN packets'[c], i < j
          PROVE  packets'[c][i].seq < packets'[c][j].seq
      <4>1. PICK k \in Nat : /\ k = Len(packets[c]) /\ DOMAIN packets[c] = 1 .. k
                             /\ DOMAIN packets'[c] = 1 .. k + 1
        BY Zenon, <2>3
      <4>2. i \in 1 .. k + 1 /\ j \in 1 .. k + 1
        BY Zenon, <4>1
      <4>3. i \in 1 .. k
        BY <3>3, <4>1, <4>2
      <4>4. CASE j \in DOMAIN packets[c]
        <5>1. packets[c][i].seq < packets[c][j].seq
          BY Zenon, <1>2, <1>4, <3>3, <4>1, <4>3, <4>4 DEF Numbered
        <5> QED
          BY Zenon, <3>1, <4>1, <4>3, <4>4, <5>1
      <4>5. CASE j \notin DOMAIN packets[c]
        BY Zenon, <3>1, <4>1, <4>3, <4>5
      <4> QED
        BY Zenon, <4>4, <4>5
    <3> QED
      BY Zenon, <3>2, <3>3
  <2>7. \A m \in Nat : Passed(c, m) => Passed(c, m)'
    BY <2>1, <2>3, <2>5 DEF Passed
  <2> QED
    BY Zenon, <1>0, <1>2, <1>4, <2>6, <2>7, NumberTypes DEF Numbered
<1> QED
  BY Zenon, <1>3, <1>4

(* The first packet is received: all numbers left are greater.               *)
LEMMA ReceiveNumbers ==
  ASSUME ChannelsInv, NEW c \in Channels, Receive(c)
  PROVE  NumbersInv'
<1>0. TypeInv /\ NumbersInv /\ AccountsInv
  BY Zenon DEF ChannelsInv
<1>1. PICK i \in Deliverable(c, packets[c]) :
        /\ packets' = [packets EXCEPT ![c] = Without(@, i)]
        /\ \/ /\ ReceiveAtOnce /\ UNCHANGED handling
              /\ acks' = [acks EXCEPT ![c] = Append(@, [packet |-> packets[c][i],
                                                        ack |-> AckAtOnce(c, packets[c][i].kind)])]
           \/ /\ packets[c][i].kind = "dispatch" /\ ReceiveDispatch(c) /\ handling' = packets[c][i]
              /\ UNCHANGED acks
  BY Zenon DEF Receive
<1>2. i = 1 /\ packets[c] # <<>> /\ 1 \in DOMAIN packets[c]
  BY Zenon, <1>0, NumberTypes, DeliversFirst
<1>3. PICK p \in Packet : p = packets[c][1]
  BY <1>0, <1>2, NumberTypes
<1>4. PICK ack \in Ack : ack = AckAtOnce(c, p.kind)
  BY Zenon, <1>0, AckTypes DEF Packet
<1>5. /\ packets' = [packets EXCEPT ![c] = Without(packets[c], 1)]
      /\ call = NoCall /\ UNCHANGED <<nextSeq, executed>>
      /\ \/ /\ UNCHANGED <<call, handling>>
            /\ acks' = [acks EXCEPT ![c] = Append(acks[c], [packet |-> p, ack |-> ack])]
         \/ /\ p.kind = "dispatch" /\ handling' = p /\ UNCHANGED acks
            /\ call' = [entry |-> "dispatch", channel |-> c, before |-> None]
  BY Zenon, <1>1, <1>2, <1>3, <1>4 DEF Receive, ReceiveAtOnce, ReceiveDispatch, reflectVars
<1>6. \A d \in Channels : Numbered(d) /\ ~Dispatching(d)
  BY Zenon, <1>0, <1>5 DEF NumbersInv, Dispatching, NoCall
<1>7. ASSUME NEW d \in Channels, d # c PROVE Numbered(d)'
  <2>1. packets'[d] = packets[d] /\ acks'[d] = acks[d] /\ ~Dispatching(d)'
    BY <1>0, <1>5, <1>6, <1>7 DEF TypeInv, ChannelTypes, Dispatching, NoCall
  <2> QED
    BY Zenon, <1>5, <1>6, <2>1, NumbersFrame
<1>8. /\ DOMAIN packets[c] = 1 .. Len(packets[c]) /\ Len(packets[c]) \in Nat
      /\ DOMAIN packets'[c] = 1 .. Len(packets[c]) - 1
      /\ \A j \in DOMAIN packets'[c] : packets'[c][j] = packets[c][j + 1] /\ j + 1 \in DOMAIN packets[c]
  <2>1. packets[c] \in Seq(Packet) /\ packets'[c] = Without(packets[c], 1)
    BY Zenon, <1>0, <1>5, NumberTypes DEF TypeInv, ChannelTypes
  <2>2. /\ DOMAIN packets'[c] = 1 .. Len(packets[c]) - 1
        /\ \A j \in 1 .. Len(packets[c]) - 1 : packets'[c][j] = packets[c][j + 1]
    BY Zenon, <1>2, <2>1, TakeFirst
  <2>3. DOMAIN packets[c] = 1 .. Len(packets[c]) /\ Len(packets[c]) \in Nat
    BY <2>1
  <2> QED
    BY <2>2, <2>3
<1>9. \A m \in Nat : Passed(c, m) => Passed(c, m)' /\ m < p.seq
  BY Zenon, <1>2, <1>3, <1>5, <1>8 DEF Passed
<1>10. p.seq \in Nat /\ Passed(c, p.seq)'
  <2>1. p.seq < nextSeq[c] /\ \A j \in DOMAIN packets'[c] : p.seq < packets[c][j + 1].seq
    BY SMTT(60), <1>2, <1>3, <1>6, <1>8 DEF Numbered
  <2> QED
    BY ZenonT(60), <1>5, <1>8, <2>1 DEF Passed, Packet
<1>11. /\ \A j \in DOMAIN packets'[c] : packets'[c][j].seq < nextSeq'[c]
       /\ \A j, k \in DOMAIN packets'[c] : j < k => packets'[c][j].seq < packets'[c][k].seq
  <2>1. /\ \A j \in DOMAIN packets[c] : packets[c][j].seq < nextSeq[c]
        /\ \A j, k \in DOMAIN packets[c] : j < k => packets[c][j].seq < packets[c][k].seq
    BY Zenon, <1>6 DEF Numbered
  <2>2. \A j \in DOMAIN packets'[c] : packets'[c][j].seq < nextSeq'[c]
    BY Zenon, <1>5, <1>8, <2>1
  <2>3. ASSUME NEW j \in DOMAIN packets'[c], NEW k \in DOMAIN packets'[c], j < k
        PROVE  packets'[c][j].seq < packets'[c][k].seq
    <3>1. j \in Nat /\ k \in Nat /\ j + 1 < k + 1
      BY SMTT(60), <1>8, <2>3
    <3> QED
      BY Zenon, <1>8, <2>1, <3>1
  <2> QED
    BY Zenon, <2>2, <2>3
<1>12. ASSUME NEW j \in DOMAIN executed'[c] PROVE Passed(c, executed[c][j])' /\ executed'[c][j] < p.seq
  <2>1. PICK m \in Nat : m = executed[c][j]
    BY Zenon, <1>0, <1>5, NumberTypes
  <2>2. Passed(c, m)
    BY Zenon, <1>5, <1>6, <2>1 DEF Numbered
  <2> QED
    BY Zenon, <1>5, <1>9, <2>1, <2>2 DEF Passed
<1>13. ASSUME NEW j \in DOMAIN acks[c], NEW m, m = acks[c][j].packet.seq PROVE Passed(c, m)' /\ m < p.seq
  <2>1. m \in Nat /\ Passed(c, m)
    BY Zenon, <1>0, <1>6, <1>13, NumberTypes DEF Numbered
  <2> QED
    BY Zenon, <1>9, <2>1
<1>14. CASE UNCHANGED <<call, handling>> /\ acks' = [acks EXCEPT ![c] = Append(acks[c], [packet |-> p, ack |-> ack])]
  <2>1. [packet |-> p, ack |-> ack] \in Acked
    BY Zenon DEF Acked
  <2>2. /\ DOMAIN acks[c] = 1 .. Len(acks[c]) /\ Len(acks[c]) \in Nat
        /\ DOMAIN acks'[c] = 1 .. Len(acks[c]) + 1
        /\ \A j \in DOMAIN acks[c] : acks'[c][j] = acks[c][j]
        /\ acks'[c][Len(acks[c]) + 1] = [packet |-> p, ack |-> ack]
    BY SMTT(60), <1>0, <1>14, <2>1, AppendLast, NumberTypes DEF TypeInv, ChannelTypes
  <2>3. ASSUME NEW j \in DOMAIN acks'[c] PROVE Passed(c, acks[c][j].packet.seq)'
    <3>1. CASE j \in DOMAIN acks[c]
      <4>1. PICK m : m = acks[c][j].packet.seq
        BY Zenon
      <4>2. Passed(c, m)' /\ acks'[c][j].packet.seq = m
        BY Zenon, <1>13, <2>2, <3>1, <4>1
      <4> QED
        BY Zenon, <4>2 DEF Passed
    <3>2. CASE j = Len(acks[c]) + 1
      <4>1. PICK a : a = acks'[c][j] /\ a = [packet |-> p, ack |-> ack]
        BY Zenon, <2>2, <3>2
      <4>2. [packet |-> p, ack |-> ack].packet = p /\ a.packet = p
        BY SMTT(30), <4>1
      <4>3. acks'[c][j].packet.seq = p.seq
        BY Zenon, <4>1, <4>2
      <4> QED
        BY Zenon, <1>10, <4>3 DEF Passed
    <3>3. j \in DOMAIN acks[c] \/ j = Len(acks[c]) + 1
      BY Zenon, <2>2, <2>3, LastOrBefore
    <3> QED
      BY Zenon, <3>1, <3>2, <3>3
  <2>4. ~Dispatching(c)' /\ call'.entry # "dispatch"
    BY Zenon, <1>5, <1>14 DEF Dispatching, NoCall
  <2>5. Numbered(c)'
    BY Zenon, <1>11, <1>12, <2>3, <2>4 DEF Numbered
  <2> QED
    BY Zenon, <1>7, <2>4, <2>5 DEF NumbersInv
<1>15. CASE /\ p.kind = "dispatch" /\ handling' = p /\ UNCHANGED acks
            /\ call' = [entry |-> "dispatch", channel |-> c, before |-> None]
  <2>1. Passed(c, handling.seq)'
    BY Zenon, <1>10, <1>15 DEF Passed
  <2>2. ASSUME NEW j \in DOMAIN acks'[c] PROVE Passed(c, acks[c][j].packet.seq)' /\ acks'[c][j].packet.seq < p.seq
    <3>1. PICK m : m = acks[c][j].packet.seq
      BY Zenon
    <3>2. Passed(c, m)' /\ m < p.seq /\ acks'[c][j].packet.seq = m
      BY Zenon, <1>13, <1>15, <3>1
    <3> QED
      BY Zenon, <3>2 DEF Passed
  <2>3. Numbered(c)'
    BY Zenon, <1>11, <1>12, <1>15, <2>1, <2>2 DEF Numbered
  <2> QED
    BY Zenon, <1>7, <1>15, <2>3 DEF NumbersInv
<1> QED
  BY Zenon, <1>5, <1>14, <1>15

(* A dispatched packet is acknowledged, and its messages are executed or     *)
(* not.  Besides the numbers this keeps what acknowledgements tell.          *)
LEMMA DispatchNumbers ==
  ASSUME ChannelsInv, NEW succeeds \in BOOLEAN, Dispatch(succeeds)
  PROVE  NumbersInv' /\ AckTellsOutcome' /\ ExecutedInOrder'
<1>0. TypeInv /\ NumbersInv /\ AccountsInv /\ AckTellsOutcome /\ ExecutedInOrder
  BY Zenon DEF ChannelsInv
<1>1. PICK c \in Channels : c = call.channel
  BY ZenonT(60), <1>0 DEF Dispatch, ExecuteDispatch, AccountsInv
<1>2. /\ Dispatching(c) /\ call'.entry = "none" /\ UNCHANGED <<packets, nextSeq>>
      /\ acks' = [acks EXCEPT ![c] = Append(acks[c], [packet |-> handling, ack |-> DispatchAck(succeeds)])]
      /\ executed' = IF succeeds THEN [executed EXCEPT ![c] = Append(executed[c], handling.seq)] ELSE executed
  BY Zenon, <1>1 DEF Dispatch, ExecuteDispatch, Dispatching, NoCall
<1>3. \A d \in Channels : Numbered(d) /\ ~Dispatching(d)'
  BY Zenon, <1>0, <1>2 DEF NumbersInv, Dispatching
<1>4. ASSUME NEW d \in Channels, d # c
      PROVE  acks'[d] = acks[d] /\ executed'[d] = executed[d] /\ Numbered(d)'
  <2>1. acks'[d] = acks[d] /\ executed'[d] = executed[d]
    BY Zenon, <1>0, <1>2, <1>4 DEF TypeInv, ChannelTypes, RestTypes
  <2> QED
    BY Zenon, <1>2, <1>3, <2>1, NumbersFrame
<1>5. PICK p \in Packet : p = handling /\ p.kind = "dispatch" /\ p.seq \in Nat
  BY Zenon, <1>0, <1>2 DEF NumbersInv, Dispatching, TypeInv, ChannelTypes, Packet, Kinds
<1>6. PICK ack \in Ack : ack = DispatchAck(succeeds)
  BY Zenon, <1>0, AckTypes
<1>7. /\ DOMAIN acks[c] = 1 .. Len(acks[c]) /\ Len(acks[c]) \in Nat
      /\ DOMAIN acks'[c] = 1 .. Len(acks[c]) + 1
      /\ \A j \in DOMAIN acks[c] : acks'[c][j] = acks[c][j]
      /\ acks'[c][Len(acks[c]) + 1] = [packet |-> p, ack |-> ack]
  <2>1. [packet |-> p, ack |-> ack] \in Acked
    BY Zenon DEF Acked
  <2>2. acks'[c] = Append(acks[c], [packet |-> p, ack |-> ack]) /\ acks[c] \in Seq(Acked)
    BY Zenon, <1>0, <1>2, <1>5, <1>6, NumberTypes DEF TypeInv, ChannelTypes
  <2> QED
    BY <2>1, <2>2, AppendLast
<1>8. /\ DOMAIN executed[c] = 1 .. Len(executed[c]) /\ Len(executed[c]) \in Nat
      /\ \A j \in DOMAIN executed[c] : j \in DOMAIN executed'[c] /\ executed'[c][j] = executed[c][j]
      /\ IF succeeds
         THEN /\ DOMAIN executed'[c] = 1 .. Len(executed[c]) + 1
              /\ executed'[c][Len(executed[c]) + 1] = p.seq
         ELSE executed'[c] = executed[c]
  <2>1. executed[c] \in Seq(Nat)
    BY Zenon, <1>0, NumberTypes
  <2>2. CASE succeeds
    <3>1. executed'[c] = Append(executed[c], p.seq)
      BY Zenon, <1>0, <1>2, <1>5, <2>2 DEF TypeInv, RestTypes
    <3> QED
      BY <1>5, <2>1, <2>2, <3>1, AppendLast
  <2>3. CASE ~succeeds
    BY <1>2, <2>1, <2>3
  <2> QED
    BY Zenon, <2>2, <2>3
<1>9. /\ \A m \in Nat : Passed(c, m) => Passed(c, m)'
      /\ Passed(c, p.seq)
      /\ \A j \in DOMAIN executed[c] : executed[c][j] \in Nat /\ executed[c][j] < p.seq /\ Passed(c, executed[c][j])
      /\ \A j \in DOMAIN acks[c] : /\ acks[c][j].packet.seq \in Nat /\ acks[c][j].packet.seq < p.seq
                                   /\ Passed(c, acks[c][j].packet.seq)
  <2>1. \A m \in Nat : Passed(c, m) => Passed(c, m)'
    BY Zenon, <1>2 DEF Passed
  <2> QED
    BY Zenon, <1>0, <1>2, <1>3, <1>5, <2>1, NumberTypes DEF Numbered
<1>10. ASSUME NEW j \in DOMAIN executed'[c] PROVE Passed(c, executed[c][j])'
  <2>1. PICK m \in Nat : m = executed'[c][j] /\ Passed(c, m)
    <3>1. j \in DOMAIN executed[c] \/ (succeeds /\ j = Len(executed[c]) + 1)
      BY SMTT(60), <1>8
    <3> QED
      BY Zenon, <1>5, <1>8, <1>9, <3>1
  <2> QED
    BY ZenonT(60), <1>9, <2>1 DEF Passed
<1>11. ASSUME NEW j \in DOMAIN acks'[c] PROVE Passed(c, acks[c][j].packet.seq)'
  <2>1. PICK m \in Nat : m = acks'[c][j].packet.seq /\ Passed(c, m)
    <3>1. j \in DOMAIN acks[c] \/ j = Len(acks[c]) + 1
      BY Zenon, <1>7, LastOrBefore
    <3> QED
      BY <1>5, <1>7, <1>9, <3>1
  <2> QED
    BY ZenonT(60), <1>9, <2>1 DEF Passed
<1>12. NumbersInv'
  <2>1. Numbered(c)'
    BY Zenon, <1>2, <1>3, <1>10, <1>11 DEF Numbered
  <2> QED
    BY Zenon, <1>2, <1>4, <2>1 DEF NumbersInv
<1>13. AckTellsOutcome'
  <2> SUFFICES ASSUME NEW d \in Channels, NEW j \in DOMAIN acks'[d], acks'[d][j].packet.kind = "dispatch"
               PROVE  acks'[d][j].ack.ok <=> acks'[d][j].packet.seq \in Range(executed'[d])
    BY Zenon DEF AckTellsOutcome, Range
  <2>1. CASE d # c
    <3>1. acks'[d] = acks[d] /\ executed'[d] = executed[d]
      BY Zenon, <1>4, <2>1
    <3>2. acks[d][j] \in Range(acks[d])
      BY Zenon, <3>1 DEF Range
    <3> QED
      BY Zenon, <1>0, <3>1, <3>2 DEF AckTellsOutcome
  <2>2. CASE d = c /\ j \in DOMAIN acks[c]
    <3>1. acks[c][j].ack.ok <=> \E k \in DOMAIN executed[c] : executed[c][k] = acks[c][j].packet.seq
      BY <1>0, <1>7, <2>2 DEF AckTellsOutcome, Range
    <3>2. \A k \in DOMAIN executed'[c] : k \in DOMAIN executed[c] \/ executed'[c][k] = p.seq
      BY <1>8
    <3>3. acks[c][j].packet.seq # p.seq
      BY <1>5, <1>9, <2>2
    <3>4. (\E k \in DOMAIN executed[c] : executed[c][k] = acks[c][j].packet.seq)
            <=> (\E k \in DOMAIN executed'[c] : executed'[c][k] = acks[c][j].packet.seq)
      BY Zenon, <1>8, <3>2, <3>3
    <3> QED
      BY ZenonT(60), <1>7, <2>2, <3>1, <3>4 DEF Range
  <2>3. CASE d = c /\ j = Len(acks[c]) + 1
    <3>1. acks'[c][j].packet.seq = p.seq /\ acks'[c][j].ack = ack
      BY <1>7, <2>3
    <3>2. ack.ok <=> succeeds
      BY Zenon, <1>6 DEF DispatchAck, AckOk, AckErr
    <3>3. CASE succeeds
      <4>1. Len(executed[c]) + 1 \in DOMAIN executed'[c] /\ executed'[c][Len(executed[c]) + 1] = p.seq
        BY <1>8, <3>3
      <4>2. p.seq \in Range(executed'[c])
        BY Zenon, <4>1 DEF Range
      <4> QED
        BY Zenon, <2>3, <3>1, <3>2, <3>3, <4>2
    <3>4. CASE ~succeeds
      <4>1. \A k \in DOMAIN executed'[c] : executed'[c][k] # p.seq
        BY <1>5, <1>8, <1>9, <3>4
      <4> QED
        BY Zenon, <2>3, <3>1, <3>2, <3>4, <4>1 DEF Range
    <3> QED
      BY Zenon, <3>3, <3>4
  <2>4. d = c => j \in DOMAIN acks[c] \/ j = Len(acks[c]) + 1
    BY Zenon, <1>7, LastOrBefore
  <2> QED
    BY Zenon, <2>1, <2>2, <2>3, <2>4
<1>14. ExecutedInOrder'
  <2> SUFFICES ASSUME NEW d \in Channels, NEW j \in DOMAIN executed'[d], NEW k \in DOMAIN executed'[d], j < k
               PROVE  executed'[d][j] < executed'[d][k]
    BY Zenon DEF ExecutedInOrder
  <2>1. CASE d # c
    BY Zenon, <1>0, <1>4, <2>1 DEF ExecutedInOrder
  <2>2. CASE d = c
    <3>1. j \in DOMAIN executed[c] /\ (k \in DOMAIN executed[c] \/ executed'[c][k] = p.seq)
      BY <1>8, <2>2
    <3>2. CASE k \in DOMAIN executed[c]
      BY Zenon, <1>0, <1>8, <2>2, <3>1, <3>2 DEF ExecutedInOrder
    <3>3. CASE executed'[c][k] = p.seq
      BY Zenon, <1>8, <1>9, <2>2, <3>1, <3>3
    <3> QED
      BY Zenon, <3>1, <3>2, <3>3
  <2> QED
    BY Zenon, <2>1, <2>2
<1> QED
  BY Zenon, <1>12, <1>13, <1>14

(* An acknowledgement is delivered, or the waiting packets are given up.     *)
LEMMA AcknowledgeNumbers ==
  ASSUME ChannelsInv, NEW c \in Channels, Acknowledge(c)
  PROVE  /\ NumbersInv' /\ AckTellsOutcome' /\ ExecutedInOrder'
         /\ acks[c] # <<>> /\ 1 \in DOMAIN acks[c] /\ Handles(c, acks[c][1])
         /\ \A d \in Channels \ {c} : acks'[d] = acks[d]
         /\ \A j \in DOMAIN acks'[c] : \E k \in DOMAIN acks[c] : acks'[c][j] = acks[c][k]
<1>0. TypeInv /\ NumbersInv /\ AckTellsOutcome /\ ExecutedInOrder
  BY Zenon DEF ChannelsInv
<1>1. PICK i \in Deliverable(c, acks[c]) :
        Handles(c, acks[c][i]) /\ acks' = [acks EXCEPT ![c] = Without(@, i)]
  BY Zenon DEF Acknowledge
<1>2. i = 1 /\ acks[c] # <<>> /\ 1 \in DOMAIN acks[c] /\ acks[c] \in Seq(Acked)
  BY Zenon, <1>0, NumberTypes, DeliversFirst
<1>3. UNCHANGED <<packets, nextSeq, executed, handling, call>>
  BY Zenon DEF Acknowledge, reflectVars
<1>4. \A d \in Channels \ {c} : acks'[d] = acks[d]
  BY Zenon, <1>0, <1>1 DEF TypeInv, ChannelTypes
<1>5. \A j \in DOMAIN acks'[c] : j \in Nat /\ j + 1 \in DOMAIN acks[c] /\ acks'[c][j] = acks[c][j + 1]
  <2>1. acks'[c] = Without(acks[c], 1)
    BY Zenon, <1>0, <1>1, <1>2 DEF TypeInv, ChannelTypes
  <2>2. DOMAIN acks'[c] = 1 .. Len(acks[c]) - 1 /\ \A j \in 1 .. Len(acks[c]) - 1 : acks'[c][j] = acks[c][j + 1]
    BY Zenon, <1>2, <2>1, TakeFirst
  <2>3. DOMAIN acks[c] = 1 .. Len(acks[c]) /\ Len(acks[c]) \in Nat
    BY <1>2
  <2> QED
    BY <2>2, <2>3
<1>6. \A j \in DOMAIN acks'[c] : \E k \in DOMAIN acks[c] : acks'[c][j] = acks[c][k]
  BY Zenon, <1>5
<1>7. NumbersInv'
  <2> SUFFICES ASSUME NEW d \in Channels PROVE Numbered(d)'
    BY Zenon, <1>0, <1>3 DEF NumbersInv
  <2>1. Numbered(d) /\ (Dispatching(d)' <=> Dispatching(d)) /\ \A m \in Nat : Passed(d, m) => Passed(d, m)'
    BY Zenon, <1>0, <1>3 DEF NumbersInv, Dispatching, Passed
  <2>2. CASE d # c
    BY Zenon, <1>3, <1>4, <2>1, <2>2, NumbersFrame
  <2>3. CASE d = c
    <3>1. ASSUME NEW j \in DOMAIN acks'[c]
          PROVE  /\ Passed(c, acks[c][j].packet.seq)'
                 /\ Dispatching(c) => acks'[c][j].packet.seq < handling.seq
      <4>1. PICK k \in DOMAIN acks[c] : acks'[c][j] = acks[c][k]
        BY Zenon, <1>6
      <4>2. PICK m \in Nat : m = acks[c][k].packet.seq
        BY Zenon, <1>0, NumberTypes
      <4>3. Passed(c, m)' /\ acks'[c][j].packet.seq = m /\ (Dispatching(c) => m < handling.seq)
        BY Zenon, <2>1, <2>3, <4>1, <4>2 DEF Numbered
      <4> QED
        BY Zenon, <4>3 DEF Passed
    <3>2. \A j \in DOMAIN executed'[c] : Passed(c, executed[c][j])'
      BY Zenon, <1>3, <2>1, <2>3 DEF Numbered, Passed
    <3>3. Dispatching(c) => Passed(c, handling.seq)'
      BY Zenon, <1>3, <2>1, <2>3 DEF Numbered, Passed
    <3> QED
      BY Zenon, <1>3, <2>1, <2>3, <3>1, <3>2, <3>3 DEF Numbered
  <2> QED
    BY Zenon, <2>2, <2>3
<1>8. AckTellsOutcome'
  <2> SUFFICES ASSUME NEW d \in Channels, NEW j \in DOMAIN acks'[d], acks'[d][j].packet.kind = "dispatch"
               PROVE  acks'[d][j].ack.ok <=> acks'[d][j].packet.seq \in Range(executed'[d])
    BY Zenon DEF AckTellsOutcome, Range
  <2>1. PICK k \in DOMAIN acks[d] : acks'[d][j] = acks[d][k]
    BY Zenon, <1>4, <1>6
  <2> QED
    BY Zenon, <1>0, <1>3, <2>1 DEF AckTellsOutcome, Range
<1>9. ExecutedInOrder'
  BY Zenon, <1>0, <1>3 DEF ExecutedInOrder
<1> QED
  BY Zenon, <1>1, <1>2, <1>4, <1>6, <1>7, <1>8, <1>9

(* Giving packets up leaves fewer numbers to compare.                        *)
LEMMA TimeoutNumbers ==
  ASSUME ChannelsInv, NEW c \in Channels, Timeout(c)
  PROVE  NumbersInv'
<1>0. TypeInv /\ NumbersInv
  BY Zenon DEF ChannelsInv
<1>1. packets' = [packets EXCEPT ![c] = <<>>] /\ UNCHANGED <<nextSeq, executed, acks, handling, call>>
  BY Zenon, <1>0 DEF Timeout, TypeInv, ChannelTypes, reflectVars
<1> SUFFICES ASSUME NEW d \in Channels PROVE Numbered(d)'
  BY Zenon, <1>0, <1>1 DEF NumbersInv
<1>2. Numbered(d) /\ (Dispatching(d)' <=> Dispatching(d))
  BY Zenon, <1>0, <1>1 DEF NumbersInv, Dispatching
<1>3. CASE d # c
  <2>1. packets'[d] = packets[d]
    BY Zenon, <1>0, <1>1, <1>3 DEF TypeInv, ChannelTypes
  <2> QED
    BY Zenon, <1>1, <1>2, <2>1, NumbersFrame
<1>4. CASE d = c
  <2>1. packets'[c] = <<>> /\ DOMAIN packets'[c] = {}
    BY <1>0, <1>1 DEF TypeInv, ChannelTypes
  <2> QED
    BY Zenon, <1>1, <1>2, <1>4, <2>1 DEF Numbered, Passed
<1> QED
  BY Zenon, <1>3, <1>4

(* What is acknowledged at once is not a dispatch: an open channel has an    *)
(* account.                                                                  *)
LEMMA ReceiveOutcome ==
  ASSUME ChannelsInv, NEW c \in Channels, Receive(c)
  PROVE  /\ AckTellsOutcome' /\ ExecutedInOrder'
         /\ \A d \in Channels \ {c} : acks'[d] = acks[d]
         /\ \/ UNCHANGED acks
            \/ /\ Registered(c)
               /\ \A j \in DOMAIN acks'[c] :
                    \/ j \in DOMAIN acks[c] /\ acks'[c][j] = acks[c][j]
                    \/ /\ acks'[c][j].packet.kind # "dispatch"
                       /\ acks'[c][j].ack.account = accounts[c]
<1>0. TypeInv /\ AccountsInv /\ AckTellsOutcome /\ ExecutedInOrder
  BY Zenon DEF ChannelsInv
<1>1. UNCHANGED executed /\ ExecutedInOrder'
  BY ZenonT(60), <1>0 DEF Receive, ExecutedInOrder
<1>2. Registered(c)
  BY Zenon, <1>0 DEF Receive, AccountsInv, AccountPerOpenChannel
<1>3. CASE UNCHANGED acks
  BY <1>0, <1>1, <1>3 DEF AckTellsOutcome, Range
<1>4. CASE ~UNCHANGED acks
  <2>1. PICK i \in Deliverable(c, packets[c]) :
          /\ packets[c][i].kind # "dispatch"
          /\ acks' = [acks EXCEPT ![c] = Append(@, [packet |-> packets[c][i],
                                                    ack |-> AckAtOnce(c, packets[c][i].kind)])]
    BY Zenon, <1>2, <1>4 DEF Receive
  <2>2. PICK p \in Packet : p = packets[c][i]
    <3>1. i = 1 /\ 1 \in DOMAIN packets[c] /\ packets[c] \in Seq(Packet)
      BY Zenon, <1>0, NumberTypes, DeliversFirst
    <3> QED
      BY <3>1
  <2>3. PICK ack \in Ack : ack = AckAtOnce(c, p.kind)
    BY Zenon, <1>0, AckTypes DEF Packet
  <2>4. ack.account = accounts[c]
    BY Zenon, <1>2, <2>3 DEF AckAtOnce, AckOk
  <2>5. [packet |-> p, ack |-> ack] \in Acked
    BY Zenon DEF Acked
  <2>6. acks'[c] = Append(acks[c], [packet |-> p, ack |-> ack]) /\ acks[c] \in Seq(Acked)
    BY Zenon, <1>0, <2>1, <2>2, <2>3, NumberTypes DEF TypeInv, ChannelTypes
  <2>7. \A j \in DOMAIN acks'[c] : \/ j \in DOMAIN acks[c] /\ acks'[c][j] = acks[c][j]
                                   \/ acks'[c][j] = [packet |-> p, ack |-> ack]
    BY <2>5, <2>6, AppendLast
  <2>8. \A d \in Channels \ {c} : acks'[d] = acks[d]
    BY Zenon, <1>0, <2>1 DEF TypeInv, ChannelTypes
  <2>9. \A j \in DOMAIN acks'[c] :
          \/ j \in DOMAIN acks[c] /\ acks'[c][j] = acks[c][j]
          \/ acks'[c][j].packet.kind # "dispatch" /\ acks'[c][j].ack.account = accounts[c]
    <3>1. p.kind # "dispatch"
      BY Zenon, <2>1, <2>2
    <3>2. ASSUME NEW a, a = [packet |-> p, ack |-> ack]
          PROVE  a.packet.kind # "dispatch" /\ a.ack.account = accounts[c]
      <4>1. a.packet = p /\ a.ack = ack
        BY Zenon, <3>2
      <4> QED
        BY Zenon, <2>4, <3>1, <4>1
    <3> QED
      BY Zenon, <2>7, <3>2
  <2>10. AckTellsOutcome'
    <3> SUFFICES ASSUME NEW d \in Channels, NEW j \in DOMAIN acks'[d], acks'[d][j].packet.kind = "dispatch"
                 PROVE  acks'[d][j].ack.ok <=> acks'[d][j].packet.seq \in Range(executed'[d])
      BY ZenonT(60) DEF AckTellsOutcome, Range
    <3>1. j \in DOMAIN acks[d] /\ acks'[d][j] = acks[d][j]
      BY Zenon, <2>8, <2>9
    <3> QED
      BY Zenon, <1>0, <1>1, <3>1 DEF AckTellsOutcome, Range
  <2> QED
    BY ZenonT(60), <1>1, <1>2, <2>8, <2>9, <2>10
<1> QED
  BY Zenon, <1>1, <1>3, <1>4

(* A step that neither acknowledges nor executes.                            *)
LEMMA OutcomeFrame ==
  ASSUME AckTellsOutcome, ExecutedInOrder, acks' = acks, executed' = executed
  PROVE  AckTellsOutcome' /\ ExecutedInOrder'
<1>1. AckTellsOutcome'
  BY Zenon DEF AckTellsOutcome
<1>2. ExecutedInOrder'
  BY Zenon DEF ExecutedInOrder
<1> QED
  BY Zenon, <1>1, <1>2

(* Every step keeps the numbers and what acknowledgements tell.              *)
LEMMA NumbersStep ==
  ASSUME ChannelsInv, Next
  PROVE  NumbersInv' /\ AckTellsOutcome' /\ ExecutedInOrder'
<1>0. TypeInv /\ NumbersInv /\ AckTellsOutcome /\ ExecutedInOrder
  BY Zenon DEF ChannelsInv
<1>1. CASE \E c \in Channels : ConnectSend(c)
  <2> PICK c \in Channels : ConnectSend(c)
    BY Zenon, <1>1
  <2>1. SendPacket(c, "who_am_i") /\ "who_am_i" \in Kinds /\ UNCHANGED <<acks, executed, handling, call>>
    BY Zenon DEF ConnectSend, Kinds, reflectVars
  <2> QED
    BY Zenon, <1>0, <2>1, SendNumbers, OutcomeFrame
<1>2. CASE \E user \in Users, c \in Channels, kind \in Kinds \ {"who_am_i"} : Send(user, c, kind)
  <2> PICK user \in Users, c \in Channels, kind \in Kinds : Send(user, c, kind)
    BY Zenon, <1>2
  <2>1. SendPacket(c, kind) /\ UNCHANGED <<acks, executed, handling, call>>
    BY ZenonT(60) DEF Send, reflectVars
  <2> QED
    BY Zenon, <1>0, <2>1, SendNumbers, OutcomeFrame
<1>3. CASE \E c \in Channels : Receive(c)
  BY Zenon, <1>3, ReceiveNumbers, ReceiveOutcome
<1>4. CASE \E succeeds \in BOOLEAN : Dispatch(succeeds)
  BY Zenon, <1>4, DispatchNumbers
<1>5. CASE \E c \in Channels : Acknowledge(c)
  BY Zenon, <1>5, AcknowledgeNumbers
<1>6. CASE \E c \in Channels : Timeout(c)
  <2>1. UNCHANGED <<acks, executed>>
    BY Zenon, <1>6 DEF Timeout
  <2> QED
    BY Zenon, <1>0, <1>6, <2>1, TimeoutNumbers, OutcomeFrame
<1>7. CASE \/ \E side \in Sides, c \in Channels, o \in Orders, v \in Versions : OpenInit(side, c, o, v)
           \/ \E side \in Sides, c \in Channels, v \in Versions : OpenTry(side, c, v)
           \/ \E c \in Channels : ConnectReflect(c) \/ CloseSend(c) \/ CloseReflect(c) \/ SendFunds(c)
           \/ ConnectReply
           \/ \E user, new \in Users : ChangeAdmin(user, new)
           \/ \E a \in Addrs : DeliverFunds(a)
  <2>1. UNCHANGED <<packets, acks, executed, handling, nextSeq>>
    BY Zenon, <1>7 DEF OpenInit, OpenTry, ConnectReflect, CloseSend, CloseReflect, SendFunds, ConnectReply, ChangeAdmin,
       DeliverFunds, channelVars
  <2>2. call'.entry = "dispatch" => call' = call
    <3>1. CASE \E c \in Channels : ConnectReflect(c)
      BY <3>1 DEF ConnectReflect, ChannelConnect
    <3>2. CASE ConnectReply
      BY <3>2 DEF ConnectReply, HandleInitCallback, ConnectFails, NoCall
    <3>3. CASE \/ \E side \in Sides, c \in Channels, o \in Orders, v \in Versions : OpenInit(side, c, o, v)
               \/ \E side \in Sides, c \in Channels, v \in Versions : OpenTry(side, c, v)
               \/ \E c \in Channels : CloseSend(c) \/ CloseReflect(c) \/ SendFunds(c)
               \/ \E user, new \in Users : ChangeAdmin(user, new)
               \/ \E a \in Addrs : DeliverFunds(a)
      BY Zenon, <3>3 DEF OpenInit, OpenTry, CloseSend, CloseReflect, ChannelClose, SendFunds, ChangeAdmin, DeliverFunds,
         reflectVars
    <3> QED
      BY Zenon, <1>7, <3>1, <3>2, <3>3
  <2>3. \A c \in Channels : Numbered(c)'
    <3> SUFFICES ASSUME NEW c \in Channels PROVE Numbered(c)'
      BY Zenon
    <3>1. Numbered(c) /\ (Dispatching(c)' => Dispatching(c))
      BY Zenon, <1>0, <2>2 DEF NumbersInv, Dispatching
    <3> QED
      BY Zenon, <2>1, <3>1, NumbersFrame
  <2>4. NumbersInv'
    BY Zenon, <1>0, <2>1, <2>2, <2>3 DEF NumbersInv
  <2> QED
    BY Zenon, <1>0, <2>1, <2>4, OutcomeFrame
<1> QED
  BY Zenon, <1>1, <1>2, <1>3, <1>4, <1>5, <1>6, <1>7 DEF Next

------------------------------------------------------------------------------
(* The addresses the sender knows.                                           *)

(* The account of a channel stays what it is or was, whatever is created for *)
(* other channels, and when the channel is closed.                           *)
LEMMA AccountOfStep ==
  ASSUME ChannelsInv, Next, NEW c \in Channels, NEW a \in Addrs, AccountOf(c, a)
  PROVE  AccountOf(c, a)'
<1> USE ProtocolAssumption
<1>0. AccountsInv /\ ReflectTypes /\ chan \in [Sides -> [Channels -> States]]
  BY Zenon DEF ChannelsInv, TypeInv, ChannelTypes
<1>1. CASE ConnectReply /\ HandleInitCallback /\ chan' = [chan EXCEPT !["reflect"][call.channel] = "open"]
  <2> DEFINE d == call.channel
  <2>1. d \in Channels /\ pending = d /\ chan["reflect"][d] \in {"init", "try"}
    BY Zenon, <1>0, <1>1 DEF HandleInitCallback, AccountsInv
  <2>2. PICK addr \in Addrs \ created :
          accounts' = [accounts EXCEPT ![d] = addr] /\ created' = created \cup {addr}
    BY Zenon, <1>1, <2>1 DEF HandleInitCallback
  <2>3. c # d /\ chan'["reflect"][c] = chan["reflect"][c]
    BY Zenon, <1>0, <1>1, <2>1 DEF AccountOf, Sides
  <2> QED
    BY Zenon, <1>0, <2>1, <2>2, <2>3 DEF AccountOf, ReflectTypes
<1>2. CASE \E d \in Channels : CloseReflect(d)
  <2> PICK d \in Channels : CloseReflect(d)
    BY Zenon, <1>2
  <2>1. \A e \in Channels : accounts'[e] = IF e = d THEN None ELSE accounts[e]
    BY Zenon, <1>0 DEF CloseReflect, ChannelClose, ReflectTypes
  <2>2. chan'["reflect"][c] = IF c = d THEN "closed" ELSE chan["reflect"][c]
    BY Zenon, <1>0 DEF CloseReflect, Sides
  <2>3. created' = created
    BY Zenon DEF CloseReflect, ChannelClose
  <2> QED
    BY Zenon, <2>1, <2>2, <2>3 DEF AccountOf
<1>3. CASE /\ UNCHANGED <<accounts, created>>
           /\ UNCHANGED chan \/ \E side \in Sides, d \in Channels, s \in States :
                (chan' = [chan EXCEPT ![side][d] = s]) /\ (side = "send" \/ chan["reflect"][d] = "none")
  <2>1. chan'["reflect"][c] = chan["reflect"][c]
    BY <1>0, <1>3 DEF AccountOf, Sides
  <2> QED
    BY Zenon, <1>3, <2>1 DEF AccountOf
<1>4. CASE ConnectReply /\ ConnectFails /\ UNCHANGED chan
  BY Zenon, <1>3, <1>4 DEF ConnectFails
<1>5. CASE \/ \E side \in Sides, d \in Channels, o \in Orders, v \in Versions : OpenInit(side, d, o, v)
           \/ \E side \in Sides, d \in Channels, v \in Versions : OpenTry(side, d, v)
  <2>1. UNCHANGED <<accounts, created>>
    BY Zenon, <1>5 DEF OpenInit, OpenTry, reflectVars
  <2>2. \E side \in Sides, d \in Channels, s \in States :
          (chan' = [chan EXCEPT ![side][d] = s]) /\ (side = "send" \/ chan["reflect"][d] = "none")
    BY Zenon, <1>5 DEF OpenInit, OpenTry, Sides, States
  <2> QED
    BY Zenon, <1>3, <2>1, <2>2
<1>6. CASE \E d \in Channels : ConnectSend(d) \/ Timeout(d) \/ CloseSend(d)
  <2>1. UNCHANGED <<accounts, created>>
    BY Zenon, <1>6 DEF ConnectSend, Timeout, CloseSend, reflectVars
  <2>2. UNCHANGED chan \/ \E d \in Channels, s \in States : chan' = [chan EXCEPT !["send"][d] = s]
    BY Zenon, <1>6 DEF ConnectSend, Timeout, CloseSend, States
  <2> QED
    BY Zenon, <1>3, <2>1, <2>2 DEF Sides
<1>7. CASE \/ \E d \in Channels : ConnectReflect(d) \/ Receive(d) \/ Acknowledge(d) \/ SendFunds(d)
           \/ \E succeeds \in BOOLEAN : Dispatch(succeeds)
           \/ \E user, new \in Users : ChangeAdmin(user, new)
           \/ \E user \in Users, d \in Channels, kind \in Kinds \ {"who_am_i"} : Send(user, d, kind)
           \/ \E b \in Addrs : DeliverFunds(b)
  <2>1. UNCHANGED <<accounts, created, chan>>
    BY Zenon, <1>7 DEF ConnectReflect, ChannelConnect, Receive, ReceiveAtOnce, ReceiveDispatch, Acknowledge,
       SendFunds, Dispatch, ExecuteDispatch, ChangeAdmin, Send, DeliverFunds, reflectVars, channelVars
  <2> QED
    BY Zenon, <1>3, <2>1
<1> QED
  BY Zenon, <1>1, <1>2, <1>4, <1>5, <1>6, <1>7 DEF Next, ConnectReply

(* What the sender knows and is told are addresses or nothing.               *)
LEMMA AddressTypes ==
  ASSUME TypeInv, NEW c \in Channels
  PROVE  /\ remote[c].addr \in Addrs \cup {None} /\ remote[c].exists \in BOOLEAN
         /\ \A i \in DOMAIN acks[c] : acks[c][i] \in Acked /\ acks[c][i].ack.account \in Addrs \cup {None}
<1>1. remote[c] \in [exists : BOOLEAN, addr : Addrs \cup {None}, balance : Nat]
  BY Zenon DEF TypeInv, SendTypes
<1>2. acks[c] \in Seq(Acked)
  BY Zenon, NumberTypes
<1>3. \A i \in DOMAIN acks[c] : acks[c][i] \in Acked
  BY <1>2
<1> QED
  BY Zenon, <1>1, <1>3 DEF Acked, Ack

(* The account that is told is an address.                                   *)
LEMMA ToldAccounts ==
  ASSUME ChannelsInv, NEW c \in Channels, NEW i \in DOMAIN acks[c], Tells(acks[c][i])
  PROVE  acks[c][i].ack.account \in Addrs
BY Zenon DEF ChannelsInv, TypeInv, ReflectTypes, AddressesInv, Addressed, AccountOf

(* Nothing new is told, and the sender learns nothing.                       *)
LEMMA AddressesFrame ==
  ASSUME ChannelsInv, Next, NEW c \in Channels,
         remote'[c] = remote[c],
         \A j \in DOMAIN acks'[c] : \/ ~Tells(acks'[c][j])
                                    \/ \E k \in DOMAIN acks[c] : acks'[c][j] = acks[c][k],
         \/ chan'["send"][c] = chan["send"][c]
         \/ chan["send"][c] = "none" /\ chan'["send"][c] \in {"init", "try"}
         \/ chan'["send"][c] = "closed"
  PROVE  Addressed(c)'
<1>0. TypeInv /\ Addressed(c)
  BY Zenon DEF ChannelsInv, AddressesInv
<1>1. remote'[c].addr # None => AccountOf(c, remote[c].addr)'
  <2> SUFFICES ASSUME remote[c].addr # None PROVE AccountOf(c, remote[c].addr)'
    BY Zenon
  <2>1. PICK a \in Addrs : a = remote[c].addr
    BY Zenon, <1>0, AddressTypes
  <2>2. AccountOf(c, a)'
    BY Zenon, <1>0, <2>1, AccountOfStep DEF Addressed
  <2> QED
    BY Zenon, <2>1, <2>2 DEF AccountOf
<1>2. ASSUME NEW i \in DOMAIN acks'[c], Tells(acks'[c][i])
      PROVE  /\ AccountOf(c, acks[c][i].ack.account)'
             /\ remote'[c].addr \in {None, acks'[c][i].ack.account}
             /\ \A j \in DOMAIN acks'[c] : Tells(acks'[c][j]) => acks'[c][j].ack.account = acks'[c][i].ack.account
  <2>1. PICK k \in DOMAIN acks[c] : acks'[c][i] = acks[c][k]
    BY Zenon, <1>2
  <2>2. PICK a \in Addrs : a = acks[c][k].ack.account
    BY Zenon, <1>2, <2>1, ToldAccounts
  <2>3. /\ AccountOf(c, a) /\ remote[c].addr \in {None, a}
        /\ \A j \in DOMAIN acks[c] : Tells(acks[c][j]) => acks[c][j].ack.account = a
    BY Zenon, <1>0, <1>2, <2>1, <2>2 DEF Addressed
  <2>4. AccountOf(c, a)'
    BY Zenon, <2>3, AccountOfStep
  <2>5. AccountOf(c, acks[c][i].ack.account)'
    BY Zenon, <2>1, <2>2, <2>4 DEF AccountOf
  <2> QED
    BY ZenonT(60), <2>1, <2>2, <2>3, <2>5
<1>3. /\ chan'["send"][c] \in {"none", "init", "try"} => remote'[c].addr = None
      /\ chan'["send"][c] = "open" => remote'[c].exists
  BY Zenon, <1>0 DEF Addressed
<1> QED
  BY Zenon, <1>1, <1>2, <1>3 DEF Addressed, Tells

(* The factory tells the account that the channel has.                       *)
LEMMA ReceiveAddresses ==
  ASSUME ChannelsInv, Next, NEW c \in Channels, Receive(c)
  PROVE  AddressesInv'
<1>0. TypeInv /\ AccountsInv /\ AddressesInv
  BY Zenon DEF ChannelsInv
<1>1. UNCHANGED <<remote, chan, accounts, created>>
  BY Zenon DEF Receive, ReceiveAtOnce, ReceiveDispatch, reflectVars, sendVars
<1>2. ASSUME NEW d \in Channels, acks'[d] = acks[d] PROVE Addressed(d)'
  BY Zenon, <1>1, <1>2, AddressesFrame
<1>3. CASE UNCHANGED acks
  BY Zenon, <1>2, <1>3 DEF AddressesInv
<1>4. CASE ~UNCHANGED acks
  <2>1. /\ Registered(c) /\ \A d \in Channels \ {c} : acks'[d] = acks[d]
        /\ \A j \in DOMAIN acks'[c] : \/ j \in DOMAIN acks[c] /\ acks'[c][j] = acks[c][j]
                                      \/ acks'[c][j].ack.account = accounts[c]
    BY Zenon, <1>4, ReceiveOutcome
  <2>2. PICK a \in Addrs : a = accounts[c]
    BY Zenon, <1>0, <2>1 DEF Registered, TypeInv, ReflectTypes
  <2>3. AccountOf(c, a) /\ chan["reflect"][c] = "open"
    BY Zenon, <1>0, <2>1, <2>2 DEF AccountOf, AccountsInv, AccountPerOpenChannel, Registered
  <2>4. AccountOf(c, a)'
    BY Zenon, <2>3, AccountOfStep
  <2>5. ASSUME NEW j \in DOMAIN acks'[c], Tells(acks'[c][j]) PROVE acks'[c][j].ack.account = a
    <3>1. CASE j \in DOMAIN acks[c] /\ acks'[c][j] = acks[c][j]
      <4>1. Tells(acks[c][j])
        BY Zenon, <2>5, <3>1
      <4>2. AccountOf(c, acks[c][j].ack.account)
        BY ZenonT(60), <1>0, <3>1, <4>1 DEF AddressesInv, Addressed
      <4> QED
        BY Zenon, <2>2, <2>3, <3>1, <4>2 DEF AccountOf
    <3> QED
      BY Zenon, <2>1, <2>2, <3>1
  <2>6. remote[c].addr \in {None, a}
    BY Zenon, <1>0, <2>2, <2>3 DEF AddressesInv, Addressed, AccountOf
  <2>7. /\ chan["send"][c] \in {"none", "init", "try"} => remote[c].addr = None
        /\ chan["send"][c] = "open" => remote[c].exists
    BY ZenonT(60), <1>0 DEF AddressesInv, Addressed
  <2>8. ASSUME NEW j \in DOMAIN acks'[c], Tells(acks'[c][j]) PROVE AccountOf(c, acks[c][j].ack.account)'
    BY Zenon, <2>4, <2>5, <2>8 DEF AccountOf
  <2>9. remote'[c].addr # None => AccountOf(c, remote[c].addr)'
    BY Zenon, <1>1, <2>4, <2>6 DEF AccountOf
  <2>10. Addressed(c)'
    BY Zenon, <1>1, <2>5, <2>6, <2>7, <2>8, <2>9 DEF Addressed, Tells
  <2> QED
    BY Zenon, <1>2, <2>1, <2>10 DEF AddressesInv
<1> QED
  BY Zenon, <1>3, <1>4

(* The sender takes over what it is told.                                    *)
LEMMA AcknowledgeAddresses ==
  ASSUME ChannelsInv, Next, NEW c \in Channels, Acknowledge(c)
  PROVE  AddressesInv'
<1>0. TypeInv /\ AddressesInv /\ Addressed(c)
  BY Zenon DEF ChannelsInv, AddressesInv
<1>1. UNCHANGED chan /\ chan["send"][c] = "open"
  BY Zenon DEF Acknowledge
<1>2. /\ 1 \in DOMAIN acks[c] /\ Handles(c, acks[c][1])
      /\ \A d \in Channels \ {c} : acks'[d] = acks[d]
      /\ \A j \in DOMAIN acks'[c] : \E k \in DOMAIN acks[c] : acks'[c][j] = acks[c][k]
  BY Zenon, AcknowledgeNumbers
<1>3. PICK t \in Acked : t = acks[c][1]
  BY Zenon, <1>0, <1>2, AddressTypes
<1>4. t.packet.kind \in Kinds
  BY Zenon DEF Acked, Packet
<1>5. \/ UNCHANGED remote
      \/ /\ Tells(t) /\ \E n : remote' = [remote EXCEPT ![c].addr = t.ack.account, ![c].balance = n]
  <2>1. CASE t.packet.kind = "dispatch"
    BY Zenon, <1>2, <1>3, <2>1 DEF Handles, AckDispatch, sendVars
  <2>2. CASE t.packet.kind = "who_am_i"
    <3>1. AckWhoAmI(c, t.ack)
      BY Zenon, <1>2, <1>3, <2>2 DEF Handles
    <3>2. CASE t.ack.ok /\ remote[c].addr = None
      <4>1. remote' = [remote EXCEPT ![c].addr = t.ack.account]
        BY Zenon, <3>1, <3>2 DEF AckWhoAmI
      <4>2. remote' = [remote EXCEPT ![c].addr = t.ack.account, ![c].balance = remote[c].balance]
        BY Zenon, <1>0, <4>1 DEF TypeInv, SendTypes
      <4> QED
        BY Zenon, <2>2, <3>2, <4>2 DEF Tells
    <3> QED
      BY Zenon, <3>1, <3>2 DEF AckWhoAmI
  <2>3. CASE t.packet.kind = "balances"
    <3>1. AckBalances(c, t.ack)
      BY Zenon, <1>2, <1>3, <2>3 DEF Handles
    <3> QED
      BY Zenon, <2>3, <3>1 DEF AckBalances, Tells
  <2> QED
    BY Zenon, <1>4, <2>1, <2>2, <2>3 DEF Kinds
<1>6. CASE UNCHANGED remote
  <2> SUFFICES ASSUME NEW d \in Channels PROVE Addressed(d)'
    BY Zenon DEF AddressesInv
  <2>1. \A j \in DOMAIN acks'[d] : \E k \in DOMAIN acks[d] : acks'[d][j] = acks[d][k]
    BY Zenon, <1>2
  <2> QED
    BY Zenon, <1>1, <1>6, <2>1, AddressesFrame
<1>7. CASE Tells(t) /\ \E n : remote' = [remote EXCEPT ![c].addr = t.ack.account, ![c].balance = n]
  <2>1. PICK n : remote' = [remote EXCEPT ![c].addr = t.ack.account, ![c].balance = n]
    BY Zenon, <1>7
  <2>2. ASSUME NEW d \in Channels, d # c PROVE Addressed(d)'
    <3>1. remote'[d] = remote[d]
      BY Zenon, <1>0, <2>1, <2>2 DEF TypeInv, SendTypes
    <3> QED
      BY Zenon, <1>1, <1>2, <2>2, <3>1, AddressesFrame
  <2>3. PICK a \in Addrs : a = t.ack.account
    BY Zenon, <1>2, <1>3, <1>7, ToldAccounts
  <2>4. /\ AccountOf(c, a)
        /\ \A j \in DOMAIN acks[c] : Tells(acks[c][j]) => acks[c][j].ack.account = a
    BY Zenon, <1>0, <1>2, <1>3, <1>7, <2>3 DEF Addressed
  <2>5. AccountOf(c, a)'
    BY Zenon, <2>4, AccountOfStep
  <2>6. remote'[c].addr = a /\ remote'[c].exists = remote[c].exists
    BY Zenon, <1>0, <2>1, <2>3 DEF TypeInv, SendTypes
  <2>7. AccountOf(c, remote[c].addr)'
    BY Zenon, <2>5, <2>6 DEF AccountOf
  <2>8. ASSUME NEW j \in DOMAIN acks'[c], Tells(acks'[c][j])
        PROVE  acks'[c][j].ack.account = a /\ AccountOf(c, acks[c][j].ack.account)'
    <3>1. acks'[c][j].ack.account = a
      BY Zenon, <1>2, <2>4, <2>8
    <3> QED
      BY Zenon, <2>5, <3>1 DEF AccountOf
  <2>9. chan'["send"][c] = "open" /\ remote'[c].exists
    BY Zenon, <1>0, <1>1, <2>6 DEF Addressed
  <2>10. Addressed(c)'
    BY Zenon, <2>6, <2>7, <2>8, <2>9 DEF Addressed, Tells
  <2> QED
    BY Zenon, <2>2, <2>10 DEF AddressesInv
<1> QED
  BY Zenon, <1>5, <1>6, <1>7

(* Every step keeps what the sender knows true.                              *)
LEMMA AddressesStep ==
  ASSUME ChannelsInv, Next
  PROVE  AddressesInv'
<1>0. TypeInv /\ AccountsInv /\ AddressesInv /\ chan \in [Sides -> [Channels -> States]]
  BY Zenon DEF ChannelsInv, TypeInv, ChannelTypes
<1>1. ASSUME UNCHANGED <<remote, acks>>,
             \A c \in Channels : \/ chan'["send"][c] = chan["send"][c]
                                 \/ chan["send"][c] = "none" /\ chan'["send"][c] \in {"init", "try"}
                                 \/ chan'["send"][c] = "closed"
      PROVE  AddressesInv'
  BY Zenon, <1>1, AddressesFrame DEF AddressesInv
<1>2. CASE \/ \E side \in Sides, c \in Channels, o \in Orders, v \in Versions : OpenInit(side, c, o, v)
           \/ \E side \in Sides, c \in Channels, v \in Versions : OpenTry(side, c, v)
  <2>1. UNCHANGED <<remote, acks>>
    BY Zenon, <1>2 DEF OpenInit, OpenTry, sendVars
  <2>2. \E side \in Sides, c \in Channels, s \in {"init", "try"} :
          chan' = [chan EXCEPT ![side][c] = s] /\ chan[side][c] = "none"
    BY Zenon, <1>2 DEF OpenInit, OpenTry, Sides
  <2> QED
    BY <1>0, <1>1, <2>1, <2>2 DEF Sides
<1>3. CASE \E c \in Channels : ConnectSend(c)
  <2> PICK c \in Channels : ConnectSend(c)
    BY Zenon, <1>3
  <2>1. /\ UNCHANGED acks /\ remote' = [remote EXCEPT ![c] = DefaultData]
        /\ chan' = [chan EXCEPT !["send"][c] = "open"]
    BY Zenon DEF ConnectSend, SenderConnect
  <2>2. ASSUME NEW d \in Channels, d # c PROVE Addressed(d)'
    <3>1. remote'[d] = remote[d] /\ chan'["send"][d] = chan["send"][d]
      BY Zenon, <1>0, <2>1, <2>2 DEF TypeInv, SendTypes, Sides
    <3> QED
      BY Zenon, <2>1, <3>1, AddressesFrame
  <2>3. remote'[c].exists /\ remote'[c].addr = None /\ chan'["send"][c] = "open"
    BY Zenon, <1>0, <2>1 DEF TypeInv, SendTypes, DefaultData, Sides
  <2>4. ASSUME NEW i \in DOMAIN acks[c], Tells(acks[c][i])
        PROVE  /\ AccountOf(c, acks[c][i].ack.account)'
               /\ \A j \in DOMAIN acks[c] : Tells(acks[c][j]) => acks[c][j].ack.account = acks[c][i].ack.account
    <3>1. PICK a \in Addrs : a = acks[c][i].ack.account
      BY Zenon, <2>4, ToldAccounts
    <3>2. AccountOf(c, a) /\ \A j \in DOMAIN acks[c] : Tells(acks[c][j]) => acks[c][j].ack.account = a
      BY Zenon, <1>0, <2>4, <3>1 DEF AddressesInv, Addressed
    <3>3. AccountOf(c, a)'
      BY Zenon, <3>2, AccountOfStep
    <3> QED
      BY Zenon, <2>1, <3>1, <3>2, <3>3 DEF AccountOf
  <2>5. Addressed(c)'
    BY Zenon, <2>1, <2>3, <2>4 DEF Addressed, Tells
  <2> QED
    BY Zenon, <2>2, <2>5 DEF AddressesInv
<1>4. CASE \E c \in Channels : Receive(c)
  BY Zenon, <1>4, ReceiveAddresses
<1>5. CASE \E c \in Channels : Acknowledge(c)
  BY Zenon, <1>5, AcknowledgeAddresses
<1>6. CASE \E c \in Channels : CloseSend(c)
  <2> PICK c \in Channels : CloseSend(c)
    BY Zenon, <1>6
  <2>1. /\ UNCHANGED acks /\ remote' = [remote EXCEPT ![c] = Unregistered]
        /\ chan' = [chan EXCEPT !["send"][c] = "closed"]
    BY Zenon DEF CloseSend, SenderClose
  <2>6. chan'["send"][c] = "closed" /\ \A d \in Channels \ {c} : chan'["send"][d] = chan["send"][d]
    BY Zenon, <1>0, <2>1 DEF TypeInv, ChannelTypes, Sides
  <2>2. ASSUME NEW d \in Channels, d # c PROVE Addressed(d)'
    <3>1. remote'[d] = remote[d] /\ chan'["send"][d] = chan["send"][d]
      BY Zenon, <1>0, <2>1, <2>6, <2>2 DEF TypeInv, SendTypes
    <3> QED
      BY Zenon, <2>1, <3>1, AddressesFrame
  <2>3. remote'[c].addr = None
    BY Zenon, <1>0, <2>1 DEF TypeInv, SendTypes, Unregistered
  <2>4. ASSUME NEW i \in DOMAIN acks[c], Tells(acks[c][i])
        PROVE  /\ AccountOf(c, acks[c][i].ack.account)'
               /\ \A j \in DOMAIN acks[c] : Tells(acks[c][j]) => acks[c][j].ack.account = acks[c][i].ack.account
    <3>1. PICK a \in Addrs : a = acks[c][i].ack.account
      BY Zenon, <2>4, ToldAccounts
    <3>2. AccountOf(c, a) /\ \A j \in DOMAIN acks[c] : Tells(acks[c][j]) => acks[c][j].ack.account = a
      BY Zenon, <1>0, <2>4, <3>1 DEF AddressesInv, Addressed
    <3>3. AccountOf(c, a)'
      BY Zenon, <3>2, AccountOfStep
    <3> QED
      BY Zenon, <2>1, <3>1, <3>2, <3>3 DEF AccountOf
  <2>5. Addressed(c)'
    <3>1. chan'["send"][c] \notin {"none", "init", "try", "open"}
      BY <2>6
    <3> QED
      BY Zenon, <2>1, <2>3, <2>4, <3>1 DEF Addressed, Tells
  <2> QED
    BY Zenon, <2>2, <2>5 DEF AddressesInv
<1>7. CASE \E c \in Channels : Timeout(c)
  <2>1. UNCHANGED <<remote, acks>>
    BY Zenon, <1>7 DEF Timeout, PacketTimeout, sendVars
  <2>2. UNCHANGED chan \/ \E c \in Channels : chan' = [chan EXCEPT !["send"][c] = "closed"]
    BY Zenon, <1>7 DEF Timeout
  <2> QED
    BY Zenon, <1>0, <1>1, <2>1, <2>2 DEF Sides
<1>8. CASE ConnectReply \/ \E c \in Channels : CloseReflect(c)
  <2>1. UNCHANGED <<remote, acks>>
    BY Zenon, <1>8 DEF ConnectReply, CloseReflect, sendVars
  <2>2. UNCHANGED chan \/ \E c, s : chan' = [chan EXCEPT !["reflect"][c] = s]
    BY Zenon, <1>8 DEF ConnectReply, CloseReflect
  <2>3. chan'["send"] = chan["send"]
    BY Zenon, <1>0, <2>2 DEF Sides
  <2> QED
    BY Zenon, <1>1, <2>1, <2>3
<1>9. CASE \E succeeds \in BOOLEAN : Dispatch(succeeds)
  <2> PICK succeeds \in BOOLEAN : Dispatch(succeeds)
    BY Zenon, <1>9
  <2>1. PICK c \in Channels : c = call.channel /\ handling \in Packet /\ handling.kind = "dispatch"
    BY Zenon, <1>0 DEF Dispatch, ExecuteDispatch, AccountsInv, ChannelsInv, NumbersInv, TypeInv, ChannelTypes, Packet, Kinds
  <2>2. /\ acks' = [acks EXCEPT ![c] = Append(@, [packet |-> handling, ack |-> DispatchAck(succeeds)])]
        /\ UNCHANGED <<remote, chan>>
    BY Zenon, <2>1 DEF Dispatch, sendVars
  <2>3. [packet |-> handling, ack |-> DispatchAck(succeeds)] \in Acked /\ acks[c] \in Seq(Acked)
    BY Zenon, <1>0, <2>1, AckTypes, NumberTypes DEF Acked
  <2>4. \A j \in DOMAIN acks'[c] : \/ j \in DOMAIN acks[c] /\ acks'[c][j] = acks[c][j]
                                   \/ acks'[c][j].packet = handling
    <3>1. acks'[c] = Append(acks[c], [packet |-> handling, ack |-> DispatchAck(succeeds)])
      BY Zenon, <1>0, <2>2 DEF TypeInv, ChannelTypes
    <3>2. \A j \in DOMAIN acks'[c] : \/ j \in DOMAIN acks[c] /\ acks'[c][j] = acks[c][j]
                                     \/ acks'[c][j] = [packet |-> handling, ack |-> DispatchAck(succeeds)]
      BY <2>3, <3>1, AppendLast
    <3> QED
      BY <3>2
  <2>5. \A d \in Channels \ {c} : acks'[d] = acks[d]
    BY Zenon, <1>0, <2>2 DEF TypeInv, ChannelTypes
  <2>6. \A d \in Channels : \A j \in DOMAIN acks'[d] :
          ~Tells(acks'[d][j]) \/ \E k \in DOMAIN acks[d] : acks'[d][j] = acks[d][k]
    BY Zenon, <2>1, <2>4, <2>5 DEF Tells
  <2> QED
    BY Zenon, <2>2, <2>6, AddressesFrame DEF AddressesInv
<1>10. CASE \/ \E c \in Channels : ConnectReflect(c) \/ SendFunds(c)
            \/ \E user, new \in Users : ChangeAdmin(user, new)
            \/ \E user \in Users, c \in Channels, kind \in Kinds \ {"who_am_i"} : Send(user, c, kind)
            \/ \E a \in Addrs : DeliverFunds(a)
  <2>1. UNCHANGED <<remote, acks, chan>>
    BY Zenon, <1>10 DEF ConnectReflect, SendFunds, ChangeAdmin, UpdateAdmin, Send, DeliverFunds, sendVars, channelVars
  <2> QED
    BY Zenon, <1>1, <2>1
<1> QED
  BY Zenon, <1>2, <1>3, <1>4, <1>5, <1>6, <1>7, <1>8, <1>9, <1>10 DEF Next

------------------------------------------------------------------------------
(* The theorems.                                                             *)

(* The invariant is inductive.                                               *)
LEMMA NextChannelsInv == ChannelsInv /\ [Next]_vars => ChannelsInv'
<1> SUFFICES ASSUME ChannelsInv, [Next]_vars PROVE ChannelsInv'
  BY Zenon
<1>1. CASE Next
  <2>1. TypeInv'
    BY Zenon, <1>1, ConnectKeepsTypes, PacketsKeepTypes, CallsKeepTypes DEF Next
  <2> QED
    BY Zenon, <1>1, <2>1, AccountsStep, NumbersStep, AddressesStep DEF ChannelsInv
<1>2. CASE UNCHANGED vars
  <2>1. UNCHANGED <<accounts, pending, holdings, treasury, created, call, admin, remote, chan, order, nextSeq,
                    packets, handling, acks, transfers, executed>>
    BY Zenon, <1>2 DEF vars, reflectVars, sendVars, channelVars
  <2>2. TypeInv'
    BY Zenon, <2>1 DEF ChannelsInv, TypeInv, ReflectTypes, SendTypes, ChannelTypes, RestTypes
  <2>3. AccountsInv'
    BY Zenon, <2>1 DEF ChannelsInv, AccountsInv, AccountPerOpenChannel, Registered
  <2>4. NumbersInv'
    BY Zenon, <2>1 DEF ChannelsInv, NumbersInv, Numbered, Passed, Dispatching
  <2>5. ASSUME NEW c \in Channels PROVE Addressed(c)'
    <3>1. \A a : AccountOf(c, a) => AccountOf(c, a)'
      BY Zenon, <2>1 DEF AccountOf
    <3>2. Addressed(c)
      BY Zenon DEF ChannelsInv, AddressesInv
    <3> QED
      BY ZenonT(60), <2>1, <3>1, <3>2 DEF Addressed, Tells
  <2>6. AckTellsOutcome'
    BY Zenon, <2>1 DEF ChannelsInv, AckTellsOutcome
  <2>7. ExecutedInOrder'
    BY Zenon, <2>1 DEF ChannelsInv, ExecutedInOrder
  <2> QED
    BY Zenon, <2>2, <2>3, <2>4, <2>5, <2>6, <2>7 DEF ChannelsInv, AddressesInv
<1> QED
  BY Zenon, <1>1, <1>2

(* The invariant holds in every state of the two contracts and the channels. *)
THEOREM ChannelsInvariant == Spec => []ChannelsInv
BY InitChannelsInv, NextChannelsInv, PTL DEF Spec

(* All values stay in their types: no call of either contract, and no step   *)
(* of the relayer, leaves a record half written.                             *)
THEOREM ChannelsTypeCorrect == Spec => []TypeOK
<1>1. ChannelsInv => TypeOK
  BY Zenon DEF ChannelsInv, TypeInv, ReflectTypes, SendTypes, ChannelTypes, RestTypes, TypeOK
<1> QED
  BY <1>1, ChannelsInvariant, PTL

(* However many handshakes overlap and fail, the account made in a reply is  *)
(* registered for the channel that asked for it (handle_init_callback), and  *)
(* goes when the channel is closed.                                          *)
THEOREM FactoryKeepsAccountsApart == Spec => []AccountPerOpenChannel
<1>1. ChannelsInv => AccountPerOpenChannel
  BY Zenon DEF ChannelsInv, AccountsInv
<1> QED
  BY <1>1, ChannelsInvariant, PTL

(* The address ibc-reflect-send has for a channel, whichever acknowledgement *)
(* it was taken from, is the account of that channel.                        *)
THEOREM SenderKnowsItsAccount == Spec => []RemoteIsOwnAccount
<1>1. ChannelsInv => RemoteIsOwnAccount
  BY Zenon DEF ChannelsInv, AddressesInv, Addressed, AccountOf, RemoteIsOwnAccount
<1> QED
  BY <1>1, ChannelsInvariant, PTL

(* The acknowledgement that receive_dispatch sets and reply may replace tells*)
(* whether the messages were executed.                                       *)
THEOREM AcknowledgementIsTheOutcome == Spec => []AckTellsOutcome
<1>1. ChannelsInv => AckTellsOutcome
  BY Zenon DEF ChannelsInv
<1> QED
  BY <1>1, ChannelsInvariant, PTL

(* Dispatched messages are executed in the order they were sent.             *)
THEOREM DispatchedInOrder == Spec => []ExecutedInOrder
<1>1. ChannelsInv => ExecutedInOrder
  BY Zenon DEF ChannelsInv
<1> QED
  BY <1>1, ChannelsInvariant, PTL

(* ibc_packet_ack of ibc-reflect-send accepts every acknowledgement that can *)
(* come next: its error paths are not reached.                               *)
THEOREM NoAckIsRefused == Spec => []AcksAreAccepted
<1>1. ChannelsInv => AcksAreAccepted
  <2> SUFFICES ASSUME ChannelsInv, NEW c \in Channels, chan["send"][c] = "open", acks[c] # <<>>,
                      Tells(Head(acks[c]))
               PROVE  remote[c].exists /\ remote[c].addr \in {None, Head(acks[c]).ack.account}
    BY Zenon DEF AcksAreAccepted, Tells
  <2>1. TypeInv /\ Addressed(c)
    BY Zenon DEF ChannelsInv, AddressesInv
  <2>2. 1 \in DOMAIN acks[c] /\ Head(acks[c]) = acks[c][1]
    <3>1. acks[c] \in Seq(Acked)
      BY Zenon, <2>1, NumberTypes
    <3> QED
      BY <3>1
  <2> QED
    BY Zenon, <2>1, <2>2 DEF Addressed
<1> QED
  BY <1>1, ChannelsInvariant, PTL

(* A remote address that is known is kept until the channel is closed: no    *)
(* acknowledgement, timeout or handshake replaces it.                        *)
THEOREM KnownAddressIsKept == Spec => RemoteAddressIsStable
<1> DEFINE Kept == \A c \in Channels : remote[c].addr # None =>
                     remote'[c].addr = remote[c].addr \/ chan'["send"][c] = "closed"
<1>1. ASSUME ChannelsInv, [Next]_vars PROVE [Kept]_vars
  <2> SUFFICES ASSUME Next, NEW c \in Channels, remote[c].addr # None
               PROVE  remote'[c].addr = remote[c].addr \/ chan'["send"][c] = "closed"
    BY Zenon, <1>1
  <2>0. TypeInv /\ Addressed(c) /\ remote \in [Channels -> [exists : BOOLEAN, addr : Addrs \cup {None}, balance : Nat]]
    BY Zenon, <1>1 DEF ChannelsInv, AddressesInv, TypeInv, SendTypes
  <2>1. CASE \E d \in Channels : ConnectSend(d)
    <3> PICK d \in Channels : ConnectSend(d)
      BY Zenon, <2>1
    <3>1. remote' = [remote EXCEPT ![d] = DefaultData] /\ chan["send"][d] \in {"init", "try"}
      BY Zenon DEF ConnectSend, SenderConnect, CanConnect
    <3> QED
      BY Zenon, <2>0, <3>1 DEF Addressed
  <2>2. CASE \E d \in Channels : Acknowledge(d)
    <3> PICK d \in Channels : Acknowledge(d)
      BY Zenon, <2>2
    <3>1. 1 \in DOMAIN acks[d] /\ Handles(d, acks[d][1])
      BY Zenon, <1>1, AcknowledgeNumbers
    <3>2. acks[d][1] \in Acked
      BY Zenon, <2>0, <3>1, AddressTypes
    <3>3. acks[d][1].packet.kind \in Kinds
      BY Zenon, <3>2 DEF Acked, Packet
    <3>4. AckDispatch(d) \/ AckWhoAmI(d, acks[d][1].ack) \/ AckBalances(d, acks[d][1].ack)
      BY Zenon, <3>1, <3>3 DEF Handles, Kinds
    <3>5. CASE AckDispatch(d)
      BY Zenon, <3>5 DEF AckDispatch, sendVars
    <3>6. CASE AckWhoAmI(d, acks[d][1].ack)
      BY Zenon, <2>0, <3>6 DEF AckWhoAmI
    <3>7. CASE AckBalances(d, acks[d][1].ack)
      BY Zenon, <2>0, <3>7 DEF AckBalances
    <3> QED
      BY Zenon, <3>4, <3>5, <3>6, <3>7
  <2>3. CASE \E d \in Channels : CloseSend(d)
    <3> PICK d \in Channels : CloseSend(d)
      BY Zenon, <2>3
    <3>1. remote' = [remote EXCEPT ![d] = Unregistered] /\ chan' = [chan EXCEPT !["send"][d] = "closed"]
      BY Zenon DEF CloseSend, SenderClose
    <3>2. chan \in [Sides -> [Channels -> States]]
      BY Zenon, <2>0 DEF TypeInv, ChannelTypes
    <3>3. d = c => chan'["send"][c] = "closed"
      BY Zenon, <3>1, <3>2 DEF Sides
    <3>4. d # c => remote'[c] = remote[c]
      BY Zenon, <2>0, <3>1
    <3> QED
      BY Zenon, <3>3, <3>4
  <2>4. CASE UNCHANGED remote
    BY Zenon, <2>4
  <2>5. CASE \/ \E side \in Sides, d \in Channels, o \in Orders, v \in Versions : OpenInit(side, d, o, v)
             \/ \E side \in Sides, d \in Channels, v \in Versions : OpenTry(side, d, v)
             \/ \E d \in Channels : ConnectReflect(d) \/ Receive(d) \/ Timeout(d) \/ CloseReflect(d) \/ SendFunds(d)
             \/ ConnectReply
             \/ \E succeeds \in BOOLEAN : Dispatch(succeeds)
             \/ \E user, new \in Users : ChangeAdmin(user, new)
             \/ \E user \in Users, d \in Channels, kind \in Kinds \ {"who_am_i"} : Send(user, d, kind)
             \/ \E a \in Addrs : DeliverFunds(a)
    <3>1. UNCHANGED remote
      BY Zenon, <2>5 DEF OpenInit, OpenTry, ConnectReflect, Receive, Timeout, PacketTimeout, CloseReflect, SendFunds,
         ConnectReply, Dispatch, ChangeAdmin, UpdateAdmin, Send, DeliverFunds, sendVars
    <3> QED
      BY Zenon, <2>4, <3>1
  <2> QED
    BY Zenon, <2>1, <2>2, <2>3, <2>5 DEF Next
<1>2. RemoteAddressIsStable <=> [][Kept]_vars
  BY PTL DEF RemoteAddressIsStable
<1> QED
  BY <1>1, <1>2, ChannelsInvariant, PTL DEF Spec

--------------------------------------------------------------------------------
(* The profiler.  The code the middleware emits for a function.              *)
Instrs == [at : Nat, block : Seq(STRING)]
FedStates == [ops : Seq(STRING), code : Seq(Instrs), blocks : SUBSET Seq(STRING)]
Operators == [symbol : STRING, to : SUBSET Nat]

(* Whether a block is open, that is started and not taken, behind the        *)
(* instruction x.                                                            *)
OpenBehind(x, body) ==
  IF x.at = 0 THEN x.block = <<>> ELSE body[x.at].symbol \notin BlockEnds

(* The instruction x may come where a block is open or not.                  *)
Fits(x, body, blocks, open) ==
  IF x.at # 0 THEN open <=> body[x.at].symbol \notin BlockEnds
  ELSE IF x.block = <<>> THEN ~open
  ELSE open /\ x.block \in blocks

IsOpen(emitted, body, p) == p > 1 /\ OpenBehind(emitted[p - 1], body)

(* Code for the first i operators, at the end of which a block is open or    *)
(* not.                                                                      *)
Emitted(emitted, body, i, blocks, open) ==
  /\ emitted \in Seq(Instrs)
  /\ \A p \in 1 .. Len(emitted) : /\ emitted[p].at \in 0 .. i
                               /\ Fits(emitted[p], body, blocks, IsOpen(emitted, body, p))
  /\ IsOpen(emitted, body, Len(emitted) + 1) <=> open

(* It has all of them and ends with the last one.                            *)
HasTo(emitted, i) == \A k \in 1 .. i : \E p \in 1 .. Len(emitted) : emitted[p].at = k
HasOperators(emitted, i) ==
  /\ HasTo(emitted, i)
  /\ i # 0 => Len(emitted) # 0 /\ emitted[Len(emitted)].at = i

(* One more element at the end.                                              *)
Lengthens(new, s, x, S) ==
  /\ new \in Seq(S) /\ Len(s) \in Nat /\ Len(new) = Len(s) + 1
  /\ new[Len(s) + 1] = x /\ \A i \in 1 .. Len(s) : new[i] = s[i]

LEMMA AppendParts ==
  ASSUME NEW S, NEW s \in Seq(S), NEW x \in S
  PROVE  Lengthens(Append(s, x), s, x, S)
BY DEF Lengthens

(* One more instruction.                                                     *)
LEMMA EmitOne ==
  ASSUME NEW emitted, NEW body, NEW i \in Nat, NEW blocks, NEW open \in BOOLEAN,
         Emitted(emitted, body, i, blocks, open), NEW x \in Instrs, x.at \in 0 .. i,
         Fits(x, body, blocks, open)
  PROVE  Emitted(Append(emitted, x), body, i, blocks, OpenBehind(x, body))
<1>1. PICK n, new : n = Len(emitted) /\ new = Append(emitted, x)
  BY Zenon
<1>2. emitted \in Seq(Instrs)
  BY Zenon DEF Emitted
<1>3. /\ n \in Nat /\ new \in Seq(Instrs) /\ Len(new) = n + 1 /\ new[n + 1] = x
      /\ \A p \in 1 .. n : new[p] = emitted[p]
  <2>1. Lengthens(new, emitted, x, Instrs)
    BY Zenon, <1>1, <1>2, AppendParts
  <2> QED
    BY Zenon, <1>1, <2>1 DEF Lengthens
<1>4. ASSUME NEW p \in 1 .. n + 1 PROVE IsOpen(new, body, p) <=> IsOpen(emitted, body, p)
  <2>1. CASE p > 1
    <3>1. p - 1 \in 1 .. n
      BY <1>3, <2>1
    <3>2. new[p - 1] = emitted[p - 1]
      BY Zenon, <1>3, <3>1
    <3> QED
      BY Zenon, <3>2 DEF IsOpen
  <2>2. CASE ~(p > 1)
    BY Zenon, <2>2 DEF IsOpen
  <2> QED
    BY Zenon, <2>1, <2>2
<1>5. ASSUME NEW p \in 1 .. n + 1
      PROVE  new[p].at \in 0 .. i /\ Fits(new[p], body, blocks, IsOpen(new, body, p))
  <2>1. CASE p = n + 1
    <3>1. IsOpen(new, body, p) <=> open
      BY Zenon, <1>1, <1>4, <2>1 DEF Emitted
    <3> QED
      BY Zenon, <1>3, <2>1, <3>1 DEF Fits
  <2>2. CASE p # n + 1
    <3>1. p \in 1 .. n
      BY <1>3, <2>2
    <3>2. emitted[p].at \in 0 .. i /\ Fits(emitted[p], body, blocks, IsOpen(emitted, body, p)) /\ new[p] = emitted[p]
      BY Zenon, <1>1, <1>3, <3>1 DEF Emitted
    <3> QED
      BY Zenon, <1>4, <3>2 DEF Fits
  <2> QED
    BY Zenon, <2>1, <2>2
<1>6. IsOpen(new, body, Len(new) + 1) <=> OpenBehind(x, body)
  <2>1. (n + 1) + 1 > 1 /\ ((n + 1) + 1) - 1 = n + 1
    BY <1>3
  <2> QED
    BY Zenon, <1>3, <2>1 DEF IsOpen
<1> QED
  BY Zenon, <1>1, <1>3, <1>5, <1>6 DEF Emitted

LEMMA EmitMore ==
  ASSUME NEW emitted, NEW body, NEW i \in Nat, NEW j \in Nat, i <= j, NEW blocks, NEW more,
         blocks \subseteq more, NEW open \in BOOLEAN, Emitted(emitted, body, i, blocks, open)
  PROVE  Emitted(emitted, body, j, more, open)
<1>1. \A k \in 0 .. i : k \in 0 .. j
  OBVIOUS
<1>2. \A x, o : Fits(x, body, blocks, o) => Fits(x, body, more, o)
  BY Zenon DEF Fits
<1> QED
  BY Zenon, <1>1, <1>2 DEF Emitted

(* After i operators of the body.                                            *)
FedRight(fed, body, i) ==
  /\ fed \in FedStates
  /\ Emitted(fed.code, body, i, fed.blocks, fed.ops # <<>>) /\ HasOperators(fed.code, i)

(* The operator itself, then, is the last instruction.                       *)
LEMMA EmitOperator ==
  ASSUME NEW emitted, NEW body, NEW i \in Nat \ {0}, NEW blocks, NEW open \in BOOLEAN,
         Emitted(emitted, body, i, blocks, open),
         HasTo(emitted, i - 1),
         open <=> body[i].symbol \notin BlockEnds, NEW x \in Instrs, x.at = i
  PROVE  /\ Emitted(Append(emitted, x), body, i, blocks, body[i].symbol \notin BlockEnds)
         /\ HasOperators(Append(emitted, x), i)
<1>1. x.at \in 0 .. i /\ x.at # 0
  OBVIOUS
<1>2. Fits(x, body, blocks, open) /\ (OpenBehind(x, body) <=> body[i].symbol \notin BlockEnds)
  BY Zenon, <1>1 DEF Fits, OpenBehind
<1>3. Emitted(Append(emitted, x), body, i, blocks, OpenBehind(x, body))
  BY Zenon, <1>1, <1>2, EmitOne
<1>4. Emitted(Append(emitted, x), body, i, blocks, body[i].symbol \notin BlockEnds)
  BY Zenon, <1>2, <1>3 DEF Emitted
<1>5. PICK n, new : n = Len(emitted) /\ new = Append(emitted, x)
  BY Zenon
<1>6. /\ n \in Nat /\ Len(new) = n + 1 /\ new[n + 1] = x
      /\ \A p \in 1 .. n : new[p] = emitted[p]
  <2>1. Lengthens(new, emitted, x, Instrs)
    BY Zenon, <1>5, AppendParts DEF Emitted
  <2> QED
    BY Zenon, <1>5, <2>1 DEF Lengthens
<1>7. n + 1 # 0 /\ n + 1 \in 1 .. n + 1 /\ \A p \in 1 .. n : p \in 1 .. n + 1
  BY <1>6
<1>8. ASSUME NEW k \in 1 .. i PROVE \E p \in 1 .. n + 1 : new[p].at = k
  <2>1. CASE k = i
    BY Zenon, <1>6, <1>7, <2>1
  <2>2. CASE k # i
    <3>1. k \in 1 .. i - 1
      BY <2>2
    <3>2. PICK p \in 1 .. n : emitted[p].at = k
      BY Zenon, <1>5, <3>1 DEF HasTo
    <3> QED
      BY Zenon, <1>6, <1>7, <3>2
  <2> QED
    BY Zenon, <2>1, <2>2
<1>9. HasOperators(new, i)
  BY Zenon, <1>6, <1>7, <1>8 DEF HasOperators, HasTo
<1> QED
  BY Zenon, <1>4, <1>5, <1>9

(* A call emitted ahead of it loses none of the operators before.            *)
LEMMA EmitCall ==
  ASSUME NEW emitted \in Seq(Instrs), NEW i \in Nat, NEW x \in Instrs,
         HasTo(emitted, i)
  PROVE  HasTo(Append(emitted, x), i)
<1>1. Lengthens(Append(emitted, x), emitted, x, Instrs)
  BY Zenon, AppendParts
<1>2. \A p \in 1 .. Len(emitted) : p \in 1 .. Len(Append(emitted, x)) /\ Append(emitted, x)[p] = emitted[p]
  BY <1>1 DEF Lengthens
<1> QED
  BY Zenon, <1>2 DEF HasTo

LEMMA RightRecord ==
  ASSUME NEW ops \in Seq(STRING), NEW emitted \in Seq(Instrs), NEW blocks \in SUBSET Seq(STRING),
         NEW body, NEW i, Emitted(emitted, body, i, blocks, ops # <<>>), HasOperators(emitted, i)
  PROVE  FedRight([ops |-> ops, code |-> emitted, blocks |-> blocks], body, i)
BY Zenon DEF FedRight, FedStates

(* feed keeps it so.                                                         *)
LEMMA FeedOne ==
  ASSUME NEW body, NEW i \in Nat \ {0}, body[i] \in Operators, NEW fed,
         FedRight(fed, body, i - 1)
  PROVE  FedRight(feed(fed, body[i], i), body, i)
<1>1. PICK ops, emitted, blocks : ops = fed.ops /\ emitted = fed.code /\ blocks = fed.blocks
  BY Zenon
<1>2. ops \in Seq(STRING) /\ emitted \in Seq(Instrs) /\ blocks \in SUBSET Seq(STRING)
  BY <1>1 DEF FedRight, FedStates
<1>3. PICK s \in STRING : s = body[i].symbol
  BY DEF Operators
<1>4. PICK x, take, start : /\ x = [at |-> i, block |-> <<>>] /\ take = [at |-> 0, block |-> ops]
                            /\ start = [at |-> 0, block |-> <<>>]
  BY Zenon
<1>5. /\ x \in Instrs /\ take \in Instrs /\ start \in Instrs
      /\ x.at = i /\ take.at = 0 /\ take.block = ops /\ start.at = 0 /\ start.block = <<>>
  BY <1>2, <1>4 DEF Instrs
<1>6. i - 1 \in Nat /\ i - 1 <= i /\ 0 \in 0 .. i
  OBVIOUS
<1>7. /\ Emitted(emitted, body, i - 1, blocks, ops # <<>>)
      /\ HasTo(emitted, i - 1)
  BY Zenon, <1>1 DEF FedRight, HasOperators
<1>8. ASSUME NEW more \in SUBSET Seq(STRING), blocks \subseteq more
      PROVE  Emitted(emitted, body, i, more, ops # <<>>)
  BY Zenon, <1>6, <1>7, <1>8, EmitMore
<1>9. CASE s \in BlockEnds
  <2>1. PICK new, more :
          /\ new = (IF ops = <<>> THEN emitted ELSE Append(emitted, take))
          /\ more = (IF ops = <<>> THEN blocks ELSE blocks \cup {ops})
    BY Zenon
  <2>2. feed(fed, body[i], i) = [ops |-> <<>>, code |-> Append(new, x), blocks |-> more]
    <3>1. CASE ops = <<>>
      <4>1. emitted \o <<>> \o <<x>> = Append(emitted, x)
        BY <1>2, <1>5
      <4> QED
        BY Zenon, <1>1, <1>3, <1>4, <1>9, <2>1, <3>1, <4>1 DEF feed
    <3>2. CASE ops # <<>>
      <4>1. emitted \o <<take>> \o <<x>> = Append(Append(emitted, take), x)
        BY <1>2, <1>5
      <4> QED
        BY Zenon, <1>1, <1>3, <1>4, <1>9, <2>1, <3>2, <4>1 DEF feed
    <3> QED
      BY Zenon, <3>1, <3>2
  <2>3. more \in SUBSET Seq(STRING) /\ blocks \subseteq more /\ (ops # <<>> => ops \in more)
    BY Zenon, <1>2, <2>1
  <2>4. /\ Emitted(new, body, i, more, FALSE)
        /\ HasTo(new, i - 1)
    <3>1. CASE ops = <<>>
      <4>1. Emitted(emitted, body, i, more, FALSE)
        BY Zenon, <1>8, <2>3, <3>1 DEF Emitted
      <4> QED
        BY Zenon, <1>7, <2>1, <3>1, <4>1
    <3>2. CASE ops # <<>>
      <4>1. Fits(take, body, more, TRUE) /\ ~OpenBehind(take, body)
        BY Zenon, <1>5, <2>3, <3>2 DEF Fits, OpenBehind
      <4>2. Emitted(emitted, body, i, more, TRUE)
        BY Zenon, <1>8, <2>3, <3>2 DEF Emitted
      <4>3. Emitted(Append(emitted, take), body, i, more, OpenBehind(take, body))
        BY Zenon, <1>5, <1>6, <4>1, <4>2, EmitOne
      <4>4. Emitted(new, body, i, more, FALSE)
        BY Zenon, <2>1, <3>2, <4>1, <4>3 DEF Emitted
      <4>5. HasTo(Append(emitted, take), i - 1)
        BY Zenon, <1>2, <1>5, <1>6, <1>7, EmitCall
      <4> QED
        BY Zenon, <2>1, <3>2, <4>4, <4>5
    <3> QED
      BY Zenon, <3>1, <3>2
  <2>5. /\ Emitted(Append(new, x), body, i, more, body[i].symbol \notin BlockEnds)
        /\ HasOperators(Append(new, x), i)
    BY Zenon, <1>3, <1>5, <1>9, <2>4, EmitOperator
  <2>6. Append(new, x) \in Seq(Instrs) /\ <<>> \in Seq(STRING)
    BY Zenon, <2>5, EmptySequence DEF Emitted
  <2>7. Emitted(Append(new, x), body, i, more, <<>> # <<>>)
    BY Zenon, <1>3, <1>9, <2>5 DEF Emitted
  <2> QED
    BY Zenon, <2>2, <2>3, <2>5, <2>6, <2>7, RightRecord
<1>10. CASE s \notin BlockEnds
  <2>1. PICK new : new = (IF ops = <<>> THEN Append(emitted, start) ELSE emitted)
    BY Zenon
  <2>2. feed(fed, body[i], i) = [ops |-> Append(ops, s), code |-> Append(new, x), blocks |-> blocks]
    <3>1. CASE ops = <<>>
      <4>1. emitted \o <<start>> \o <<x>> = Append(Append(emitted, start), x)
        BY <1>2, <1>5
      <4> QED
        BY Zenon, <1>1, <1>3, <1>4, <1>10, <2>1, <3>1, <4>1 DEF feed, OperatorSymbol
    <3>2. CASE ops # <<>>
      <4>1. emitted \o <<>> \o <<x>> = Append(emitted, x)
        BY <1>2, <1>5
      <4> QED
        BY Zenon, <1>1, <1>3, <1>4, <1>10, <2>1, <3>2, <4>1 DEF feed, OperatorSymbol
    <3> QED
      BY Zenon, <3>1, <3>2
  <2>3. /\ Emitted(new, body, i, blocks, TRUE)
        /\ HasTo(new, i - 1)
    <3>1. CASE ops # <<>>
      <4>1. Emitted(emitted, body, i, blocks, TRUE)
        BY Zenon, <1>2, <1>8, <3>1 DEF Emitted
      <4> QED
        BY Zenon, <1>7, <2>1, <3>1, <4>1
    <3>2. CASE ops = <<>>
      <4>1. Fits(start, body, blocks, FALSE) /\ OpenBehind(start, body)
        BY Zenon, <1>5 DEF Fits, OpenBehind
      <4>2. Emitted(emitted, body, i, blocks, FALSE)
        BY Zenon, <1>2, <1>8, <3>2 DEF Emitted
      <4>3. Emitted(Append(emitted, start), body, i, blocks, OpenBehind(start, body))
        BY Zenon, <1>5, <1>6, <4>1, <4>2, EmitOne
      <4>4. Emitted(new, body, i, blocks, TRUE)
        BY Zenon, <2>1, <3>2, <4>1, <4>3 DEF Emitted
      <4>5. HasTo(Append(emitted, start), i - 1)
        BY Zenon, <1>2, <1>5, <1>6, <1>7, EmitCall
      <4> QED
        BY Zenon, <2>1, <3>2, <4>4, <4>5
    <3> QED
      BY Zenon, <3>1, <3>2
  <2>4. /\ Emitted(Append(new, x), body, i, blocks, body[i].symbol \notin BlockEnds)
        /\ HasOperators(Append(new, x), i)
    BY Zenon, <1>3, <1>5, <1>10, <2>3, EmitOperator
  <2>5. Append(ops, s) \in Seq(STRING) /\ Append(ops, s) # <<>>
    BY <1>2, <1>3
  <2>6. Append(new, x) \in Seq(Instrs)
    BY Zenon, <2>4 DEF Emitted
  <2>7. Emitted(Append(new, x), body, i, blocks, Append(ops, s) # <<>>)
    BY Zenon, <1>3, <1>10, <2>4, <2>5 DEF Emitted
  <2> QED
    BY Zenon, <1>2, <2>2, <2>4, <2>5, <2>6, <2>7, RightRecord
<1> QED
  BY Zenon, <1>9, <1>10

LEMMA FeedType ==
  ASSUME NEW v \in FedStates, NEW o \in Operators, NEW i \in Nat
  PROVE  feed(v, o, i) \in FedStates
<1>1. v.ops \in Seq(STRING) /\ v.code \in Seq(Instrs) /\ v.blocks \in SUBSET Seq(STRING)
  BY DEF FedStates
<1>2. o.symbol \in STRING
  BY DEF Operators
<1>3. ASSUME NEW added \in {<<>>, <<[at |-> 0, block |-> <<>>]>>, <<[at |-> 0, block |-> v.ops]>>}
      PROVE  v.code \o added \o <<[at |-> i, block |-> <<>>]>> \in Seq(Instrs)
  <2>1. /\ [at |-> i, block |-> <<>>] \in Instrs /\ [at |-> 0, block |-> <<>>] \in Instrs
        /\ [at |-> 0, block |-> v.ops] \in Instrs
    BY <1>1 DEF Instrs
  <2>2. (\A x \in Instrs : <<x>> \in Seq(Instrs)) /\ <<>> \in Seq(Instrs)
    OBVIOUS
  <2>3. added \in Seq(Instrs) /\ <<[at |-> i, block |-> <<>>]>> \in Seq(Instrs)
    BY Zenon, <2>1, <2>2
  <2> QED
    BY Zenon, <1>1, <2>3, Concatenation
<1>4. <<>> \in Seq(STRING) /\ Append(v.ops, o.symbol) \in Seq(STRING)
  BY <1>1, <1>2
<1>5. (IF v.ops = <<>> THEN v.blocks ELSE v.blocks \cup {v.ops}) \in SUBSET Seq(STRING)
  BY Zenon, <1>1
<1>6. /\ (IF v.ops = <<>> THEN <<>> ELSE <<[at |-> 0, block |-> v.ops]>>)
           \in {<<>>, <<[at |-> 0, block |-> <<>>]>>, <<[at |-> 0, block |-> v.ops]>>}
      /\ (IF v.ops = <<>> THEN <<[at |-> 0, block |-> <<>>]>> ELSE <<>>)
           \in {<<>>, <<[at |-> 0, block |-> <<>>]>>, <<[at |-> 0, block |-> v.ops]>>}
  BY Zenon
<1> QED
  BY Zenon, <1>1, <1>3, <1>4, <1>5, <1>6 DEF feed, FedStates, OperatorSymbol

(* The walk over a function of the module feeds it all its operators.        *)
LEMMA WalkIsRight ==
  ASSUME NEW f \in DOMAIN Bodies
  PROVE  FedRight(FunctionProfiling(f), Bodies[f], Len(Bodies[f]))
<1>1. PICK body, n : body = Bodies[f] /\ n = Len(body)
  BY Zenon
<1>2. body \in Seq(Operators)
  BY Zenon, <1>1, BodiesAssumption DEF Operators
<1>3. n \in Nat /\ \A i \in 1 .. n : body[i] \in Operators
  BY Zenon, <1>1, <1>2, SequenceType
<1>4. PICK start : start = [ops |-> <<>>, code |-> <<>>, blocks |-> {}]
  BY Zenon
<1>5. FedRight(start, body, 0)
  <2>1. /\ Emitted(<<>>, body, 0, {}, <<>> # <<>>) /\ HasOperators(<<>>, 0)
        /\ <<>> \in Seq(STRING) /\ <<>> \in Seq(Instrs)
    <3>1. Len(<<>>) = 0 /\ (\A p \in 1 .. 0 : FALSE) /\ ~(0 + 1 > 1)
      OBVIOUS
    <3>2. <<>> \in Seq(STRING) /\ <<>> \in Seq(Instrs)
      BY Zenon, EmptySequence
    <3> QED
      BY Zenon, <3>1, <3>2 DEF Emitted, IsOpen, HasOperators, HasTo
  <2>2. {} \in SUBSET Seq(STRING)
    BY Zenon
  <2> QED
    BY Zenon, <1>4, <2>1, <2>2, RightRecord
<1> DEFINE P(g) == g = [i \in 0 .. Len(Bodies[f]) |->
                          IF i = 0 THEN [ops |-> <<>>, code |-> <<>>, blocks |-> {}]
                          ELSE feed(g[i - 1], Bodies[f][i], i)]
           fed == CHOOSE g : P(g)
<1>6. FunctionProfiling(f) = fed[n]
  BY Zenon, <1>1 DEF FunctionProfiling
<1>7. PICK step : step = [k \in 1 .. n |-> [v \in FedStates |-> feed(v, body[k], k)]]
  BY Zenon
<1>8. step \in [1 .. n -> [FedStates -> FedStates]] /\ start \in FedStates
  <2>1. ASSUME NEW k \in 1 .. n, NEW v \in FedStates PROVE feed(v, body[k], k) \in FedStates
    <3>1. k \in Nat
      BY <1>3
    <3> QED
      BY Zenon, <1>3, <3>1, FeedType
  <2>2. start \in FedStates
    BY Zenon, <1>5 DEF FedRight
  <2> QED
    BY Zenon, <1>7, <2>1, <2>2
<1>9. PICK s : Recursion(s, FedStates, start, step, n)
  BY Zenon, <1>3, <1>8, RecursionExists
<1>10. s \in [0 .. n -> FedStates] /\ s[0] = start
  BY Zenon, <1>9 DEF Recursion
<1>11. ASSUME NEW k \in 1 .. n PROVE s[k] = feed(s[k - 1], body[k], k)
  <2>1. k - 1 \in 0 .. n
    BY <1>3
  <2>2. s[k - 1] \in FedStates /\ s[k] = step[k][s[k - 1]]
    BY Zenon, <1>9, <1>10, <2>1 DEF Recursion
  <2> QED
    BY Zenon, <1>7, <2>2
<1>12. P(s)
  <2>1. \A i \in 0 .. n : i = 0 \/ (i \in 1 .. n /\ i # 0)
    OBVIOUS
  <2>2. \A i \in 0 .. n : s[i] = IF i = 0 THEN start ELSE feed(s[i - 1], body[i], i)
    BY Zenon, <1>10, <1>11, <2>1
  <2> QED
    BY Zenon, <1>1, <1>4, <1>10, <2>2
<1>13. P(fed)
  BY Zenon, <1>12
<1> HIDE DEF fed
<1>14. fed = [i \in 0 .. n |-> IF i = 0 THEN start ELSE feed(fed[i - 1], body[i], i)]
  BY Zenon, <1>1, <1>4, <1>13
<1> DEFINE R == {k \in Nat : k <= n => FedRight(fed[k], body, k)}
<1>15. 0 \in R
  <2>1. 0 \in 0 .. n
    BY <1>3
  <2>2. fed[0] = start
    BY Zenon, <1>14, <2>1
  <2> QED
    BY Zenon, <1>5, <2>2
<1>16. ASSUME NEW k \in Nat, k \in R PROVE k + 1 \in R
  <2> SUFFICES ASSUME k + 1 <= n PROVE FedRight(fed[k + 1], body, k + 1)
    OBVIOUS
  <2>1. /\ k <= n /\ k + 1 \in 0 .. n /\ k + 1 # 0 /\ (k + 1) - 1 = k
        /\ k + 1 \in Nat \ {0} /\ k + 1 \in 1 .. n
    BY <1>3
  <2>2. fed[k + 1] = feed(fed[k], body[k + 1], k + 1)
    BY Zenon, <1>14, <2>1
  <2>3. FedRight(fed[k], body, (k + 1) - 1) /\ body[k + 1] \in Operators
    BY Zenon, <1>3, <1>16, <2>1
  <2> QED
    BY Zenon, <2>1, <2>2, <2>3, FeedOne
<1>17. Nat \subseteq R
  <2> HIDE DEF R
  <2> QED
    BY <1>15, <1>16, NaturalInduction
<1>18. FedRight(fed[n], body, n)
  <2>1. n <= n
    BY <1>3
  <2> QED
    BY Zenon, <1>3, <1>17, <2>1
<1> QED
  BY Zenon, <1>1, <1>6, <1>18

--------------------------------------------------------------------------------
(* Places in the emitted code.                                               *)
Place(f, pc) == pc \in 1 .. Len(Code(f))
OpenIn(f, pc) == IsOpen(Code(f), Bodies[f], pc)
SymbolAt(f, i) == Bodies[f][i].symbol

LEMMA CodeIsEmitted ==
  ASSUME NEW f \in DOMAIN Bodies
  PROVE  \E n \in Nat \ {0}, m \in Nat \ {0} :
           /\ n = Len(Bodies[f]) /\ m = Len(Code(f)) /\ SymbolAt(f, n) = "End"
           /\ Emitted(Code(f), Bodies[f], n, FunctionProfiling(f).blocks,
                      FunctionProfiling(f).ops # <<>>)
           /\ HasTo(Code(f), n) /\ Code(f)[m].at = n
<1>1. Bodies[f] \in Seq(Operators) /\ Bodies[f] # <<>> /\ SymbolAt(f, Len(Bodies[f])) = "End"
  BY Zenon, BodiesAssumption DEF Operators, SymbolAt
<1>2. PICK n \in Nat \ {0} : n = Len(Bodies[f])
  BY Zenon, <1>1, EmptySequence
<1>3. n # 0
  OBVIOUS
<1>4. /\ Emitted(Code(f), Bodies[f], n, FunctionProfiling(f).blocks, FunctionProfiling(f).ops # <<>>)
      /\ HasOperators(Code(f), n)
  BY Zenon, <1>2, WalkIsRight DEF FedRight, Code
<1>5. HasTo(Code(f), n) /\ Len(Code(f)) # 0 /\ Code(f)[Len(Code(f))].at = n
  BY Zenon, <1>3, <1>4 DEF HasOperators
<1>6. Len(Code(f)) \in Nat
  BY Zenon, <1>4, SequenceType DEF Emitted
<1>7. Len(Code(f)) \in Nat \ {0}
  BY Zenon, <1>5, <1>6
<1> QED
  BY Zenon, <1>1, <1>2, <1>4, <1>5, <1>7

LEMMA FirstPlace ==
  ASSUME NEW f \in DOMAIN Bodies
  PROVE  Place(f, 1) /\ ~OpenIn(f, 1)
<1>1. PICK m \in Nat \ {0} : m = Len(Code(f))
  BY Zenon, CodeIsEmitted
<1>2. 1 \in 1 .. m /\ ~(1 > 1)
  BY <1>1
<1> QED
  BY Zenon, <1>1, <1>2 DEF Place, OpenIn, IsOpen

(* Execution falls off the code only behind its last operator.               *)
LEMMA NextPlace ==
  ASSUME NEW f \in DOMAIN Bodies, NEW pc, Place(f, pc), Code(f)[pc].at # Len(Bodies[f])
  PROVE  Place(f, pc + 1)
<1>1. PICK n \in Nat \ {0}, m \in Nat \ {0} :
        n = Len(Bodies[f]) /\ m = Len(Code(f)) /\ Code(f)[m].at = n
  BY Zenon, CodeIsEmitted
<1>2. pc \in 1 .. m /\ pc # m
  BY Zenon, <1>1 DEF Place
<1>3. pc + 1 \in 1 .. m
  BY <1>2
<1> QED
  BY Zenon, <1>1, <1>3 DEF Place

(* The instruction at a place.                                               *)
LEMMA AtPlace ==
  ASSUME NEW f \in DOMAIN Bodies, NEW pc, Place(f, pc), NEW x, x = Code(f)[pc]
  PROVE  /\ pc \in Nat /\ pc + 1 \in Nat
         /\ x.at \in 0 .. Len(Bodies[f]) /\ (x.at = 0 => x.at # Len(Bodies[f]))
         /\ Fits(x, Bodies[f], FunctionProfiling(f).blocks, OpenIn(f, pc))
         /\ OpenIn(f, pc + 1) <=> OpenBehind(x, Bodies[f])
<1>1. PICK n \in Nat \ {0}, m \in Nat \ {0} :
        /\ n = Len(Bodies[f]) /\ m = Len(Code(f))
        /\ Emitted(Code(f), Bodies[f], n, FunctionProfiling(f).blocks,
                   FunctionProfiling(f).ops # <<>>)
  BY Zenon, CodeIsEmitted
<1>2. pc \in 1 .. m
  BY Zenon, <1>1 DEF Place
<1>3. x.at \in 0 .. n /\ Fits(x, Bodies[f], FunctionProfiling(f).blocks, OpenIn(f, pc))
  BY Zenon, <1>1, <1>2 DEF Emitted, OpenIn
<1>4. pc \in Nat /\ pc + 1 \in Nat /\ pc + 1 > 1 /\ (pc + 1) - 1 = pc /\ (x.at = 0 => x.at # n)
  BY <1>1, <1>2
<1>5. OpenIn(f, pc + 1) <=> OpenBehind(x, Bodies[f])
  BY Zenon, <1>4 DEF OpenIn, IsOpen
<1> QED
  BY Zenon, <1>1, <1>3, <1>4, <1>5

AtStart(f, pc) == Code(f)[pc].at = 0 /\ Code(f)[pc].block = <<>>
AtTake(f, pc) == Code(f)[pc].at = 0 /\ Code(f)[pc].block # <<>>

(* No block is open where one is started.                                    *)
LEMMA StartPlace ==
  ASSUME NEW f \in DOMAIN Bodies, NEW pc, Place(f, pc), AtStart(f, pc)
  PROVE  ~OpenIn(f, pc) /\ Place(f, pc + 1) /\ OpenIn(f, pc + 1)
<1>1. PICK x : x = Code(f)[pc]
  BY Zenon
<1>2. x.at = 0 /\ x.block = <<>>
  BY Zenon, <1>1 DEF AtStart
<1>3. Place(f, pc + 1)
  BY Zenon, <1>1, <1>2, AtPlace, NextPlace
<1> QED
  BY Zenon, <1>1, <1>2, <1>3, AtPlace DEF Fits, OpenBehind

(* Where a block is taken one is open, and it is in the store.               *)
LEMMA TakePlace ==
  ASSUME NEW f \in DOMAIN Bodies, NEW pc, Place(f, pc), AtTake(f, pc)
  PROVE  /\ OpenIn(f, pc) /\ Place(f, pc + 1) /\ ~OpenIn(f, pc + 1)
         /\ Code(f)[pc].block \in FunctionProfiling(f).blocks
<1>1. PICK x : x = Code(f)[pc]
  BY Zenon
<1>2. x.at = 0 /\ x.block # <<>>
  BY Zenon, <1>1 DEF AtTake
<1>3. Place(f, pc + 1)
  BY Zenon, <1>1, <1>2, AtPlace, NextPlace
<1> QED
  BY Zenon, <1>1, <1>2, <1>3, AtPlace DEF Fits, OpenBehind

(* An operator leaves open what is open; those of BlockEnds have nothing     *)
(* open.                                                                     *)
LEMMA OperatorPlace ==
  ASSUME NEW f \in DOMAIN Bodies, NEW pc, Place(f, pc), Code(f)[pc].at # 0
  PROVE  /\ Code(f)[pc].at \in DOMAIN Bodies[f]
         /\ OpenIn(f, pc) <=> SymbolAt(f, Code(f)[pc].at) \notin BlockEnds
         /\ OpenIn(f, pc + 1) <=> OpenIn(f, pc)
<1>1. PICK x : x = Code(f)[pc]
  BY Zenon
<1>2. /\ x.at \in 0 .. Len(Bodies[f]) /\ x.at # 0
      /\ Fits(x, Bodies[f], FunctionProfiling(f).blocks, OpenIn(f, pc))
      /\ OpenIn(f, pc + 1) <=> OpenBehind(x, Bodies[f])
  BY Zenon, <1>1, AtPlace
<1>3. PICK n \in Nat : n = Len(Bodies[f]) /\ DOMAIN Bodies[f] = 1 .. n
  BY Zenon, BodiesAssumption, SequenceType
<1>4. x.at \in 1 .. n
  BY <1>2, <1>3
<1> QED
  BY Zenon, <1>1, <1>2, <1>3, <1>4 DEF Fits, OpenBehind, SymbolAt

(* No block is open behind a loop header, an else or an end.                 *)
LEMMA BehindTarget ==
  ASSUME NEW f \in DOMAIN Bodies, NEW i \in DOMAIN Bodies[f], SymbolAt(f, i) \in Targets,
         i # Len(Bodies[f])
  PROVE  Place(f, Behind(f, i)) /\ ~OpenIn(f, Behind(f, i))
<1>1. PICK n \in Nat \ {0}, m \in Nat \ {0} :
        /\ n = Len(Bodies[f]) /\ m = Len(Code(f)) /\ HasTo(Code(f), n)
        /\ Emitted(Code(f), Bodies[f], n, FunctionProfiling(f).blocks,
                   FunctionProfiling(f).ops # <<>>)
  BY Zenon, CodeIsEmitted
<1>2. DOMAIN Code(f) = 1 .. m /\ DOMAIN Bodies[f] = 1 .. n
  BY Zenon, <1>1, BodiesAssumption, SequenceType DEF Emitted
<1>3. \E p \in DOMAIN Code(f) : Code(f)[p].at = i
  BY Zenon, <1>1, <1>2 DEF HasTo
<1>4. PICK p \in DOMAIN Code(f) : Code(f)[p].at = i /\ Behind(f, i) = 1 + p
  BY Zenon, <1>3 DEF Behind
<1>5. i # 0 /\ 1 + p = p + 1 /\ Place(f, p)
  <2>1. m \in Nat /\ n \in Nat /\ p \in 1 .. m /\ i \in 1 .. n
    BY Zenon, <1>1, <1>2, <1>4
  <2>2. i # 0 /\ 1 + p = p + 1
    BY <2>1
  <2>3. Place(f, p)
    BY Zenon, <1>1, <2>1 DEF Place
  <2> QED
    BY Zenon, <2>2, <2>3
<1>6. Place(f, p + 1)
  BY Zenon, <1>4, <1>5, NextPlace
<1>7. ~OpenIn(f, p + 1)
  BY Zenon, <1>4, <1>5, OperatorPlace DEF Targets, BlockEnds
<1> QED
  BY Zenon, <1>4, <1>5, <1>6, <1>7

--------------------------------------------------------------------------------
(* The activations.  All of them are at a place of their code, and all but   *)
(* the running one at a place where no block is open.                        *)
Frames == [fn : DOMAIN Bodies, pc : Nat, start : Nat]
AtRest(x) == ~OpenIn(x.fn, x.pc)

StackRight(s) ==
  /\ s \in Seq(Frames)
  /\ \A j \in 1 .. Len(s) : Place(s[j].fn, s[j].pc) /\ (j # Len(s) => AtRest(s[j]))

TopOf(s) == s[Len(s)]
BlockIsOpen(s) == s # <<>> /\ ~AtRest(TopOf(s))

(* Started and not taken: something of the block that is open and, before an *)
(* If has jumped over its branch, nothing else.                              *)
StartsRight(starts, s) == BlockIsOpen(s) => starts[TopOf(s).fn] # <<>>
StartsExact(starts, s) ==
  \A f \in DOMAIN Bodies :
    starts[f] = IF BlockIsOpen(s) /\ f = TopOf(s).fn THEN <<TopOf(s).start>> ELSE <<>>

LEMMA TopFrame ==
  ASSUME NEW s, StackRight(s), s # <<>>
  PROVE  /\ TopOf(s) \in Frames /\ Place(TopOf(s).fn, TopOf(s).pc)
         /\ TopOf(s).fn \in DOMAIN Bodies /\ TopOf(s).pc \in Nat /\ TopOf(s).start \in Nat
<1>1. s \in Seq(Frames)
  BY Zenon DEF StackRight
<1>2. Len(s) \in 1 .. Len(s)
  BY <1>1
<1>3. TopOf(s) \in Frames
  BY Zenon, <1>1, <1>2, SequenceType DEF TopOf
<1>4. Place(TopOf(s).fn, TopOf(s).pc)
  BY Zenon, <1>2 DEF StackRight, TopOf
<1>5. TopOf(s).fn \in DOMAIN Bodies /\ TopOf(s).pc \in Nat /\ TopOf(s).start \in Nat
  BY <1>3 DEF Frames
<1> QED
  BY Zenon, <1>3, <1>4, <1>5

(* The running activation is at another place.                               *)
RunsAt(s, f, pc, start) ==
  /\ StackRight(s) /\ s # <<>>
  /\ TopOf(s).fn = f /\ TopOf(s).pc = pc /\ TopOf(s).start = start

Moved(new, s, x) ==
  /\ new \in Seq(Frames) /\ Len(new) = Len(s) /\ Len(s) \in Nat \ {0}
  /\ new[Len(s)] = x /\ \A j \in 1 .. Len(s) : j # Len(s) => new[j] = s[j]

LEMMA MoveTop ==
  ASSUME NEW s, StackRight(s), NEW new, NEW f \in DOMAIN Bodies, NEW pc \in Nat,
         NEW start \in Nat, Place(f, pc), Moved(new, s, [fn |-> f, pc |-> pc, start |-> start])
  PROVE  RunsAt(new, f, pc, start)
<1>1. PICK n \in Nat \ {0} : n = Len(s)
  BY Zenon DEF Moved
<1>2. PICK x : x = [fn |-> f, pc |-> pc, start |-> start]
  BY Zenon
<1>3. x.fn = f /\ x.pc = pc /\ x.start = start
  BY <1>2
<1>4. new \in Seq(Frames) /\ Len(new) = n /\ new[n] = x
  BY Zenon, <1>1, <1>2 DEF Moved
<1>5. ASSUME NEW j \in 1 .. n PROVE Place(new[j].fn, new[j].pc) /\ (j # n => AtRest(new[j]))
  <2>1. CASE j = n
    BY Zenon, <1>3, <1>4, <2>1
  <2>2. CASE j # n
    BY Zenon, <1>1, <2>2 DEF StackRight, Moved
  <2> QED
    BY Zenon, <2>1, <2>2
<1>6. new # <<>>
  BY <1>4
<1> QED
  BY Zenon, <1>3, <1>4, <1>5, <1>6 DEF StackRight, TopOf, RunsAt

(* Where GoTo and start_measurement move it to.                              *)
LEMMA GoToMoves ==
  ASSUME NEW s, StackRight(s), s # <<>>, NEW pc \in Nat, NEW now \in Nat
  PROVE  /\ Moved([s EXCEPT ![Len(s)].pc = pc], s,
                  [fn |-> TopOf(s).fn, pc |-> pc, start |-> TopOf(s).start])
         /\ Moved([s EXCEPT ![Len(s)].pc = @ + 1, ![Len(s)].start = now], s,
                  [fn |-> TopOf(s).fn, pc |-> TopOf(s).pc + 1, start |-> now])
<1>1. s \in Seq(Frames) /\ TopOf(s) \in Frames
  BY Zenon, TopFrame DEF StackRight
<1>2. PICK n \in Nat \ {0} : n = Len(s)
  BY Zenon, <1>1, EmptySequence
<1>3. n \in 1 .. n /\ Len(s) = n
  BY <1>2
<1>4. PICK x : x = TopOf(s) /\ x = s[n] /\ x \in Frames
  BY Zenon, <1>1, <1>2 DEF TopOf
<1>5. PICK a, b : /\ a = [x EXCEPT !.pc = pc] /\ b = [x EXCEPT !.pc = @ + 1, !.start = now]
  BY Zenon
<1>6. /\ a \in Frames /\ b \in Frames
      /\ a = [fn |-> x.fn, pc |-> pc, start |-> x.start]
      /\ b = [fn |-> x.fn, pc |-> x.pc + 1, start |-> now]
  <2>1. x.fn \in DOMAIN Bodies /\ x.pc \in Nat /\ x.pc + 1 \in Nat /\ x.start \in Nat
    BY <1>4 DEF Frames
  <2>2. x = [fn |-> x.fn, pc |-> x.pc, start |-> x.start]
    BY <1>4 DEF Frames
  <2>3. a = [fn |-> x.fn, pc |-> pc, start |-> x.start]
    BY <1>5, <2>2
  <2>4. b = [fn |-> x.fn, pc |-> x.pc + 1, start |-> now]
    BY <1>5, <2>2
  <2> QED
    BY Zenon, <2>1, <2>3, <2>4 DEF Frames
<1>7. /\ [s EXCEPT ![Len(s)].pc = pc] = [s EXCEPT ![n] = a]
      /\ [s EXCEPT ![Len(s)].pc = @ + 1, ![Len(s)].start = now] = [s EXCEPT ![n] = b]
  BY <1>1, <1>3, <1>4, <1>5
<1>8. ASSUME NEW y \in Frames PROVE Moved([s EXCEPT ![n] = y], s, y)
  BY <1>1, <1>2, <1>3 DEF Moved
<1> QED
  BY Zenon, <1>4, <1>5, <1>6, <1>7, <1>8

(* What each operation makes of the activations.                             *)
LEMMA GoesTo ==
  ASSUME NEW s, StackRight(s), s # <<>>, NEW pc \in Nat, Place(TopOf(s).fn, pc)
  PROVE  RunsAt([s EXCEPT ![Len(s)].pc = pc], TopOf(s).fn, pc, TopOf(s).start)
<1>1. TopOf(s).fn \in DOMAIN Bodies /\ TopOf(s).start \in Nat
  BY Zenon, TopFrame
<1>2. Moved([s EXCEPT ![Len(s)].pc = pc], s, [fn |-> TopOf(s).fn, pc |-> pc, start |-> TopOf(s).start])
  BY Zenon, <1>1, GoToMoves
<1> QED
  BY Zenon, <1>1, <1>2, MoveTop

LEMMA GoesOn ==
  ASSUME NEW s, StackRight(s), s # <<>>, NEW now \in Nat, Place(TopOf(s).fn, TopOf(s).pc + 1)
  PROVE  RunsAt([s EXCEPT ![Len(s)].pc = @ + 1, ![Len(s)].start = now],
                TopOf(s).fn, TopOf(s).pc + 1, now)
<1>1. TopOf(s).fn \in DOMAIN Bodies /\ TopOf(s).pc \in Nat
  BY Zenon, TopFrame
<1>2. TopOf(s).pc + 1 \in Nat
  BY <1>1
<1>3. Moved([s EXCEPT ![Len(s)].pc = @ + 1, ![Len(s)].start = now], s,
            [fn |-> TopOf(s).fn, pc |-> TopOf(s).pc + 1, start |-> now])
  BY Zenon, <1>1, GoToMoves
<1> QED
  BY Zenon, <1>1, <1>2, <1>3, MoveTop

(* A call, from a place where no block is open.                              *)
LEMMA CallsFunction ==
  ASSUME NEW s, s = <<>> \/ AtRest(TopOf(s)), StackRight(s), NEW f \in DOMAIN Bodies
  PROVE  RunsAt(Append(s, [fn |-> f, pc |-> 1, start |-> 0]), f, 1, 0)
<1>1. PICK x, new, n : /\ x = [fn |-> f, pc |-> 1, start |-> 0] /\ new = Append(s, x)
                       /\ n = Len(s)
  BY Zenon
<1>2. x \in Frames /\ x.fn = f /\ x.pc = 1 /\ x.start = 0
  BY <1>1 DEF Frames
<1>3. s \in Seq(Frames)
  BY Zenon DEF StackRight
<1>4. /\ new \in Seq(Frames) /\ n \in Nat /\ Len(new) = n + 1 /\ new[n + 1] = x
      /\ \A j \in 1 .. n : new[j] = s[j]
  <2>1. Lengthens(new, s, x, Frames)
    BY Zenon, <1>1, <1>2, <1>3, AppendParts
  <2> QED
    BY Zenon, <1>1, <2>1 DEF Lengthens
<1>5. ASSUME NEW j \in 1 .. n + 1
      PROVE  Place(new[j].fn, new[j].pc) /\ (j # n + 1 => AtRest(new[j]))
  <2>1. CASE j = n + 1
    BY Zenon, <1>2, <1>4, <2>1, FirstPlace
  <2>2. CASE j # n + 1
    <3>1. j \in 1 .. n /\ s # <<>>
      BY <1>1, <1>4, <2>2
    <3>2. Place(s[j].fn, s[j].pc) /\ AtRest(s[j])
      BY Zenon, <1>1, <3>1 DEF StackRight, TopOf
    <3> QED
      BY Zenon, <1>4, <3>1, <3>2
  <2> QED
    BY Zenon, <2>1, <2>2
<1>6. StackRight(new)
  BY Zenon, <1>4, <1>5 DEF StackRight
<1>7. new # <<>>
  BY <1>4
<1> QED
  BY Zenon, <1>1, <1>2, <1>4, <1>6, <1>7 DEF RunsAt, TopOf

(* The activation is over; the caller is at rest.                            *)
LEMMA Leaves ==
  ASSUME NEW s, StackRight(s), s # <<>>
  PROVE  /\ StackRight(SubSeq(s, 1, Len(s) - 1))
         /\ ~BlockIsOpen(SubSeq(s, 1, Len(s) - 1))
<1>1. s \in Seq(Frames)
  BY Zenon DEF StackRight
<1>2. PICK n \in Nat \ {0} : n = Len(s)
  BY Zenon, <1>1, EmptySequence
<1>3. PICK new : new = SubSeq(s, 1, Len(s) - 1)
  BY Zenon
<1>4. /\ new \in Seq(Frames) /\ Len(new) = n - 1 /\ n - 1 \in Nat
      /\ \A j \in 1 .. n - 1 : new[j] = s[j]
  BY <1>1, <1>2, <1>3
<1>5. \A j \in 1 .. n - 1 : j \in 1 .. n /\ j # n
  BY <1>2
<1>6. \A j \in 1 .. n - 1 : Place(new[j].fn, new[j].pc) /\ AtRest(new[j])
  BY Zenon, <1>2, <1>4, <1>5 DEF StackRight
<1>7. new # <<>> => n - 1 \in 1 .. n - 1
  BY <1>4
<1> QED
  BY Zenon, <1>3, <1>4, <1>6, <1>7 DEF StackRight, BlockIsOpen, TopOf

(* The queues of starts are left alone.  Either what is open stays open ...  *)
LEMMA StaysOpen ==
  ASSUME NEW s, s # <<>>, NEW new, NEW pc, RunsAt(new, TopOf(s).fn, pc, TopOf(s).start),
         OpenIn(TopOf(s).fn, pc) <=> OpenIn(TopOf(s).fn, TopOf(s).pc),
         NEW starts, StartsRight(starts, s)
  PROVE  /\ StartsRight(starts, new)
         /\ StartsExact(starts, s) => StartsExact(starts, new)
<1>1. /\ new # <<>> /\ TopOf(new).fn = TopOf(s).fn /\ TopOf(new).pc = pc /\ TopOf(new).start = TopOf(s).start
  BY Zenon DEF RunsAt
<1>2. BlockIsOpen(new) <=> BlockIsOpen(s)
  BY Zenon, <1>1 DEF BlockIsOpen, AtRest
<1>3. StartsRight(starts, new)
  BY Zenon, <1>1, <1>2 DEF StartsRight
<1>4. ASSUME StartsExact(starts, s), NEW f \in DOMAIN Bodies
      PROVE  starts[f] = IF BlockIsOpen(new) /\ f = TopOf(new).fn THEN <<TopOf(new).start>> ELSE <<>>
  BY Zenon, <1>1, <1>2, <1>4 DEF StartsExact
<1> QED
  BY Zenon, <1>3, <1>4 DEF StartsExact

(* ... or nothing was open and nothing is, or an If has jumped.              *)
LEMMA StaysClosed ==
  ASSUME NEW s, NEW new, ~BlockIsOpen(new), NEW starts
  PROVE  /\ StartsRight(starts, new)
         /\ ~BlockIsOpen(s) /\ StartsExact(starts, s) => StartsExact(starts, new)
BY Zenon DEF StartsRight, StartsExact

--------------------------------------------------------------------------------
(* The blocks that instrument registers.                                     *)
FoundBlocks == UNION {FunctionProfiling(f).blocks : f \in DOMAIN Bodies}

(* The inductive invariant.                                                  *)
ProfilerInv ==
  /\ started \in [DOMAIN Bodies -> Seq(Nat)] /\ clock \in Nat
  /\ panicked = FALSE
  /\ StackRight(stack) /\ StartsRight(started, stack)
  /\ ~skipped => StartsExact(started, stack) /\ \A m \in taken : m.exact
  /\ \A m \in taken : m.block \in block_store
  /\ phase = "instrument" => stack = <<>> /\ taken = {}
  /\ phase # "instrument" => block_store = FoundBlocks

(* The running activation.                                                   *)
LEMMA RunningFrame ==
  ASSUME ProfilerInv, Running
  PROVE  /\ stack # <<>> /\ StackRight(stack) /\ Frame = TopOf(stack)
         /\ Frame.fn \in DOMAIN Bodies /\ Frame.pc \in Nat /\ Frame.pc + 1 \in Nat
         /\ Frame.start \in Nat /\ Place(Frame.fn, Frame.pc) /\ phase # "instrument"
         /\ BlockIsOpen(stack) <=> OpenIn(Frame.fn, Frame.pc)
<1>1. stack # <<>> /\ StackRight(stack) /\ Frame = TopOf(stack) /\ phase # "instrument"
  BY Zenon DEF ProfilerInv, Running, Frame, TopOf
<1>2. /\ Frame.fn \in DOMAIN Bodies /\ Frame.pc \in Nat /\ Frame.start \in Nat
      /\ Place(Frame.fn, Frame.pc)
  BY Zenon, <1>1, TopFrame
<1>3. Frame.pc + 1 \in Nat
  BY <1>2
<1>4. BlockIsOpen(stack) <=> OpenIn(Frame.fn, Frame.pc)
  BY Zenon, <1>1 DEF BlockIsOpen, AtRest
<1> QED
  BY Zenon, <1>1, <1>2, <1>3, <1>4

(* A start opens a block in the running function.                            *)
LEMMA StartKeeps ==
  ASSUME ProfilerInv, start_measurement
  PROVE  ProfilerInv'
<1>1. Running /\ Instr.at = 0 /\ Instr.block = <<>> /\ clock' = clock + 1
  BY Zenon DEF start_measurement
<1>2. PICK f, pc : f = Frame.fn /\ pc = Frame.pc
  BY Zenon
<1>3. AtStart(f, pc)
  BY Zenon, <1>1, <1>2 DEF AtStart, Instr
<1>4. f \in DOMAIN Bodies /\ Place(f, pc) /\ pc \in Nat /\ pc + 1 \in Nat
  BY Zenon, <1>1, <1>2, RunningFrame
<1>5. ~OpenIn(f, pc) /\ Place(f, pc + 1) /\ OpenIn(f, pc + 1)
  BY Zenon, <1>3, <1>4, StartPlace
<1>6. clock \in Nat /\ clock' \in Nat
  BY <1>1 DEF ProfilerInv
<1>7. RunsAt(stack', f, pc + 1, clock')
  <2>1. stack' = [stack EXCEPT ![Len(stack)].pc = @ + 1, ![Len(stack)].start = clock']
    BY Zenon DEF start_measurement
  <2>2. /\ StackRight(stack) /\ stack # <<>> /\ f = TopOf(stack).fn /\ pc = TopOf(stack).pc
    BY Zenon, <1>1, <1>2, RunningFrame
  <2>3. PICK now \in Nat : now = clock'
    BY Zenon, <1>6
  <2>4. RunsAt([stack EXCEPT ![Len(stack)].pc = @ + 1, ![Len(stack)].start = now], f, pc + 1, now)
    BY Zenon, <1>5, <2>2, GoesOn
  <2> QED
    BY Zenon, <2>1, <2>3, <2>4
<1>8. /\ StackRight(stack') /\ stack' # <<>> /\ TopOf(stack').fn = f /\ TopOf(stack').pc = pc + 1
      /\ TopOf(stack').start = clock'
  BY Zenon, <1>7 DEF RunsAt
<1>9. BlockIsOpen(stack') /\ ~BlockIsOpen(stack)
  BY Zenon, <1>1, <1>2, <1>5, <1>8, RunningFrame DEF BlockIsOpen, AtRest
<1>10. started \in [DOMAIN Bodies -> Seq(Nat)]
  BY Zenon DEF ProfilerInv
<1>11. PICK q \in Seq(Nat) : q = started[f]
  BY Zenon, <1>4, <1>10
<1>12. /\ Append(q, clock') \in Seq(Nat) /\ Append(q, clock') # <<>>
       /\ (q = <<>> => Append(q, clock') = <<clock'>>)
  <2>1. PICK now \in Nat : now = clock'
    BY Zenon, <1>6
  <2>2. Append(q, now) \in Seq(Nat) /\ Append(q, now) # <<>>
    BY <1>11, <2>1
  <2>3. Append(<<>>, now) = <<now>>
    OBVIOUS
  <2> QED
    BY Zenon, <2>1, <2>2, <2>3
<1>13. started' = [started EXCEPT ![f] = Append(q, clock')]
  BY Zenon, <1>2, <1>4, <1>10, <1>11 DEF start_measurement
<1>14. started' \in [DOMAIN Bodies -> Seq(Nat)] /\ started'[f] = Append(q, clock')
  BY Zenon, <1>4, <1>10, <1>12, <1>13
<1>15. StartsRight(started', stack')
  BY Zenon, <1>8, <1>12, <1>14 DEF StartsRight
<1>16. ASSUME StartsExact(started, stack) PROVE StartsExact(started', stack')
  <2>1. \A g \in DOMAIN Bodies : started[g] = <<>>
    BY Zenon, <1>9, <1>16 DEF StartsExact
  <2>2. started'[f] = <<clock'>>
    BY Zenon, <1>4, <1>11, <1>12, <1>14, <2>1
  <2>3. \A g \in DOMAIN Bodies : g # f => started'[g] = <<>>
    BY Zenon, <1>10, <1>13, <2>1
  <2> QED
    BY Zenon, <1>8, <1>9, <2>2, <2>3 DEF StartsExact
<1>17. UNCHANGED <<taken, block_store, phase, panicked, skipped>>
  BY Zenon DEF start_measurement
<1>18. phase' # "instrument"
  BY Zenon, <1>1, <1>17, RunningFrame
<1> QED
  BY Zenon, <1>6, <1>8, <1>14, <1>15, <1>16, <1>17, <1>18 DEF ProfilerInv

(* What is taken was started and, as long as no If has jumped, by the block  *)
(* that takes it.                                                            *)
LEMMA TakeKeeps ==
  ASSUME ProfilerInv, take_measurement
  PROVE  ProfilerInv'
<1>1. Running /\ Instr.at = 0 /\ Instr.block # <<>>
  BY Zenon DEF take_measurement
<1>2. PICK f, pc, block : f = Frame.fn /\ pc = Frame.pc /\ block = Instr.block
  BY Zenon
<1>3. AtTake(f, pc) /\ block = Code(f)[pc].block
  BY Zenon, <1>1, <1>2 DEF AtTake, Instr
<1>4. /\ f \in DOMAIN Bodies /\ Place(f, pc) /\ pc \in Nat /\ pc + 1 \in Nat
      /\ StackRight(stack) /\ stack # <<>> /\ Frame = TopOf(stack)
  BY Zenon, <1>1, <1>2, RunningFrame
<1>5. /\ OpenIn(f, pc) /\ Place(f, pc + 1) /\ ~OpenIn(f, pc + 1)
      /\ block \in FunctionProfiling(f).blocks
  BY Zenon, <1>3, <1>4, TakePlace
<1>6. BlockIsOpen(stack)
  BY Zenon, <1>1, <1>2, <1>5, RunningFrame
<1>7. started \in [DOMAIN Bodies -> Seq(Nat)]
  BY Zenon DEF ProfilerInv
<1>8. PICK q \in Seq(Nat) : q = started[f]
  BY Zenon, <1>4, <1>7
<1>9. q # <<>>
  BY Zenon, <1>2, <1>4, <1>6, <1>8 DEF ProfilerInv, StartsRight
<1>10. /\ started' = [started EXCEPT ![f] = Tail(q)]
       /\ taken' = taken \cup {[block |-> block, exact |-> Head(q) = Frame.start]}
       /\ stack' = [stack EXCEPT ![Len(stack)].pc = pc + 1]
       /\ UNCHANGED panicked
  BY Zenon, <1>2, <1>8, <1>9 DEF take_measurement, GoTo
<1>11. RunsAt(stack', f, pc + 1, Frame.start)
  BY Zenon, <1>2, <1>4, <1>5, <1>10, GoesTo
<1>12. StackRight(stack') /\ ~BlockIsOpen(stack')
  BY Zenon, <1>5, <1>11 DEF RunsAt, BlockIsOpen, AtRest
<1>13. Tail(q) \in Seq(Nat) /\ \A x : Head(<<x>>) = x /\ Tail(<<x>>) = <<>>
  <2>1. Tail(q) \in Seq(Nat)
    BY <1>8, <1>9
  <2>2. \A x : Head(<<x>>) = x /\ Tail(<<x>>) = <<>>
    OBVIOUS
  <2> QED
    BY Zenon, <2>1, <2>2
<1>14. started' \in [DOMAIN Bodies -> Seq(Nat)]
  BY Zenon, <1>4, <1>7, <1>10, <1>13
<1>15. StartsRight(started', stack')
  BY Zenon, <1>12 DEF StartsRight
<1>16. ASSUME StartsExact(started, stack)
       PROVE  StartsExact(started', stack') /\ Head(q) = Frame.start
  <2>1. /\ q = <<Frame.start>>
        /\ \A g \in DOMAIN Bodies : g # f => started[g] = <<>>
    BY Zenon, <1>2, <1>4, <1>6, <1>8, <1>16 DEF StartsExact
  <2>2. Tail(q) = <<>> /\ Head(q) = Frame.start
    BY Zenon, <1>13, <2>1
  <2>3. \A g \in DOMAIN Bodies : started'[g] = <<>>
    BY Zenon, <1>4, <1>7, <1>10, <2>1, <2>2
  <2> QED
    BY Zenon, <1>12, <2>2, <2>3 DEF StartsExact
<1>17. UNCHANGED <<block_store, clock, phase, skipped>> /\ phase # "instrument"
  BY Zenon, <1>1, RunningFrame DEF take_measurement
<1>18. block_store = FoundBlocks /\ block \in FoundBlocks
  BY Zenon, <1>4, <1>5, <1>17 DEF ProfilerInv, FoundBlocks
<1>19. \A m \in taken' : m \in taken \/ (m.block = block /\ (m.exact <=> Head(q) = Frame.start))
  <2>1. PICK r : r = [block |-> block, exact |-> Head(q) = Frame.start]
    BY Zenon
  <2>2. r.block = block /\ (r.exact <=> Head(q) = Frame.start)
    BY Zenon, <2>1
  <2> QED
    BY Zenon, <1>10, <2>1, <2>2
<1>20. \A m \in taken' : m.block \in block_store'
  BY Zenon, <1>17, <1>18, <1>19 DEF ProfilerInv
<1>21. ~skipped' => StartsExact(started', stack') /\ \A m \in taken' : m.exact
  BY Zenon, <1>16, <1>17, <1>19 DEF ProfilerInv
<1> QED
  BY Zenon, <1>10, <1>12, <1>14, <1>15, <1>17, <1>20, <1>21 DEF ProfilerInv

(* The other operations leave the queues of starts alone.                    *)
StackMoves ==
  /\ StackRight(stack') /\ StartsRight(started, stack')
  /\ ~skipped' => ~skipped /\ (StartsExact(started, stack) => StartsExact(started, stack'))

(* On to the next place.                                                     *)
LEMMA NextMoves ==
  ASSUME ProfilerInv, Running, Instr.at # 0, Instr.at # Len(Bodies[Frame.fn]),
         GoTo(Frame.pc + 1), UNCHANGED skipped
  PROVE  StackMoves
<1>1. PICK f, pc : f = Frame.fn /\ pc = Frame.pc
  BY Zenon
<1>2. /\ f \in DOMAIN Bodies /\ Place(f, pc) /\ pc + 1 \in Nat /\ StackRight(stack)
      /\ stack # <<>> /\ Frame = TopOf(stack)
  BY Zenon, <1>1, RunningFrame
<1>3. Code(f)[pc].at # 0 /\ Code(f)[pc].at # Len(Bodies[f])
  BY Zenon, <1>1 DEF Instr
<1>4. Place(f, pc + 1) /\ (OpenIn(f, pc + 1) <=> OpenIn(f, pc))
  BY Zenon, <1>2, <1>3, NextPlace, OperatorPlace
<1>5. stack' = [stack EXCEPT ![Len(stack)].pc = pc + 1]
  BY Zenon, <1>1 DEF GoTo
<1>6. RunsAt(stack', TopOf(stack).fn, pc + 1, TopOf(stack).start)
  BY Zenon, <1>1, <1>2, <1>4, <1>5, GoesTo
<1>7. StartsRight(started, stack)
  BY Zenon DEF ProfilerInv
<1>8. /\ StartsRight(started, stack')
      /\ StartsExact(started, stack) => StartsExact(started, stack')
  BY Zenon, <1>1, <1>2, <1>4, <1>6, <1>7, StaysOpen
<1> QED
  BY Zenon, <1>6, <1>8 DEF StackMoves, RunsAt

(* To where no block is open, from where none is or by an If.                *)
LEMMA ClosedMoves ==
  ASSUME ProfilerInv, StackRight(stack'), ~BlockIsOpen(stack'),
         ~skipped' => ~skipped /\ ~BlockIsOpen(stack)
  PROVE  StackMoves
<1>1. /\ StartsRight(started, stack')
      /\ ~BlockIsOpen(stack) /\ StartsExact(started, stack) => StartsExact(started, stack')
  BY Zenon, StaysClosed
<1> QED
  BY Zenon, <1>1 DEF StackMoves

LEMMA JumpCloses ==
  ASSUME ProfilerInv, Running, NEW to \in DOMAIN Bodies[Frame.fn],
         SymbolAt(Frame.fn, to) \in Targets, GoBehind(to)
  PROVE  StackRight(stack') /\ ~BlockIsOpen(stack')
<1>1. PICK f : f = Frame.fn
  BY Zenon
<1>2. f \in DOMAIN Bodies /\ StackRight(stack) /\ stack # <<>> /\ Frame = TopOf(stack)
  BY Zenon, <1>1, RunningFrame
<1>3. CASE to = Len(Bodies[f])
  BY Zenon, <1>1, <1>2, <1>3, Leaves DEF GoBehind, Leave
<1>4. CASE to # Len(Bodies[f])
  <2>1. PICK pc : pc = Behind(f, to)
    BY Zenon
  <2>2. Place(f, pc) /\ ~OpenIn(f, pc)
    BY Zenon, <1>1, <1>2, <1>4, <2>1, BehindTarget
  <2>3. pc \in Nat
    BY Zenon, <1>2, <2>2, AtPlace
  <2>4. stack' = [stack EXCEPT ![Len(stack)].pc = pc]
    BY Zenon, <1>1, <1>4, <2>1 DEF GoBehind, GoTo
  <2>5. RunsAt(stack', f, pc, TopOf(stack).start)
    BY Zenon, <1>1, <1>2, <2>2, <2>3, <2>4, GoesTo
  <2> QED
    BY Zenon, <2>2, <2>5 DEF RunsAt, BlockIsOpen, AtRest
<1> QED
  BY Zenon, <1>3, <1>4

LEMMA CallCloses ==
  ASSUME ProfilerInv, Running, ~OpenIn(Frame.fn, Frame.pc + 1), Place(Frame.fn, Frame.pc + 1),
         NEW to \in DOMAIN Bodies,
         stack' = Append([stack EXCEPT ![Len(stack)].pc = Frame.pc + 1],
                         [fn |-> to, pc |-> 1, start |-> 0])
  PROVE  StackRight(stack') /\ ~BlockIsOpen(stack')
<1>1. PICK f, pc, s : /\ f = Frame.fn /\ pc = Frame.pc
                      /\ s = [stack EXCEPT ![Len(stack)].pc = pc + 1]
  BY Zenon
<1>2. /\ f \in DOMAIN Bodies /\ pc + 1 \in Nat /\ StackRight(stack) /\ stack # <<>>
      /\ Frame = TopOf(stack)
  BY Zenon, <1>1, RunningFrame
<1>3. RunsAt(s, f, pc + 1, TopOf(stack).start)
  BY Zenon, <1>1, <1>2, GoesTo
<1>4. StackRight(s) /\ AtRest(TopOf(s))
  BY Zenon, <1>1, <1>3 DEF RunsAt, AtRest
<1>5. RunsAt(Append(s, [fn |-> to, pc |-> 1, start |-> 0]), to, 1, 0)
  BY Zenon, <1>4, CallsFunction
<1>6. RunsAt(stack', to, 1, 0)
  BY Zenon, <1>1, <1>5
<1> QED
  BY Zenon, <1>6, FirstPlace DEF RunsAt, BlockIsOpen, AtRest

(* Execution of an operator.                                                 *)
LEMMA OperateMoves ==
  ASSUME ProfilerInv, Operate
  PROVE  StackMoves
<1>1. PICK f, pc, i, o : f = Frame.fn /\ pc = Frame.pc /\ i = Instr.at /\ o = Bodies[f][i]
  BY Zenon
<1>2. Running /\ i # 0
  BY Zenon, <1>1 DEF Operate
<1>3. /\ f \in DOMAIN Bodies /\ Place(f, pc) /\ StackRight(stack) /\ stack # <<>>
      /\ (BlockIsOpen(stack) <=> OpenIn(f, pc))
  BY Zenon, <1>1, <1>2, RunningFrame
<1>4. i = Code(f)[pc].at
  BY Zenon, <1>1 DEF Instr
<1>5. /\ i \in DOMAIN Bodies[f] /\ (OpenIn(f, pc) <=> o.symbol \notin BlockEnds)
      /\ (OpenIn(f, pc + 1) <=> OpenIn(f, pc))
  BY Zenon, <1>1, <1>2, <1>3, <1>4, OperatorPlace DEF SymbolAt
<1>6. /\ o.symbol \in {"Br", "BrTable", "BrIf", "If", "Else"} =>
           \A to \in o.to : to \in DOMAIN Bodies[f] /\ SymbolAt(f, to) \in Targets
      /\ o.symbol \in {"Call", "CallIndirect"} => o.to \subseteq DOMAIN Bodies
      /\ (i = Len(Bodies[f]) => o.symbol = "End")
  BY Zenon, <1>1, <1>3, <1>5, BodiesAssumption DEF SymbolAt
<1>7. /\ "If" # "End" /\ "BrIf" # "End" /\ "Call" # "End" /\ "CallIndirect" # "End"
      /\ "BrIf" \in BlockEnds /\ "Br" \in BlockEnds /\ "BrTable" \in BlockEnds
      /\ "Else" \in BlockEnds /\ "Call" \in BlockEnds /\ "CallIndirect" \in BlockEnds
      /\ "Return" \in BlockEnds /\ "End" \in BlockEnds
  BY DEF BlockEnds
<1>8. CASE /\ o.symbol \in {"BrIf", "If"} /\ GoTo(pc + 1) /\ UNCHANGED skipped
  <2>1. i # Len(Bodies[f])
    BY Zenon, <1>6, <1>7, <1>8
  <2> QED
    BY Zenon, <1>1, <1>2, <1>8, <2>1, NextMoves
<1>9. CASE /\ o.symbol \in {"BrIf", "If"} /\ \E to \in o.to : GoBehind(to)
           /\ skipped' = (skipped \/ o.symbol = "If")
  <2>1. PICK to \in DOMAIN Bodies[f] : SymbolAt(f, to) \in Targets /\ GoBehind(to)
    BY Zenon, <1>6, <1>9
  <2>2. StackRight(stack') /\ ~BlockIsOpen(stack')
    BY Zenon, <1>1, <1>2, <2>1, JumpCloses
  <2>3. ~skipped' => ~skipped /\ ~BlockIsOpen(stack)
    BY Zenon, <1>3, <1>5, <1>7, <1>9
  <2> QED
    BY Zenon, <2>2, <2>3, ClosedMoves
<1>10. CASE /\ o.symbol \in {"Br", "BrTable", "Else"} /\ \E to \in o.to : GoBehind(to)
            /\ UNCHANGED skipped
  <2>1. PICK to \in DOMAIN Bodies[f] : SymbolAt(f, to) \in Targets /\ GoBehind(to)
    BY Zenon, <1>6, <1>10
  <2>2. StackRight(stack') /\ ~BlockIsOpen(stack')
    BY Zenon, <1>1, <1>2, <2>1, JumpCloses
  <2>3. ~skipped' => ~skipped /\ ~BlockIsOpen(stack)
    BY Zenon, <1>3, <1>5, <1>7, <1>10
  <2> QED
    BY Zenon, <2>2, <2>3, ClosedMoves
<1>11. CASE /\ o.symbol \in {"Call", "CallIndirect"} /\ UNCHANGED skipped
            /\ \E to \in o.to : stack' = Append([stack EXCEPT ![Len(stack)].pc = pc + 1],
                                                [fn |-> to, pc |-> 1, start |-> 0])
  <2>1. PICK to \in DOMAIN Bodies : stack' = Append([stack EXCEPT ![Len(stack)].pc = pc + 1],
                                                    [fn |-> to, pc |-> 1, start |-> 0])
    BY Zenon, <1>6, <1>11
  <2>2. i # Len(Bodies[f]) /\ ~OpenIn(f, pc + 1) /\ ~BlockIsOpen(stack)
    BY Zenon, <1>3, <1>5, <1>6, <1>7, <1>11
  <2>3. Place(f, pc + 1)
    BY Zenon, <1>3, <1>4, <2>2, NextPlace
  <2>4. StackRight(stack') /\ ~BlockIsOpen(stack')
    BY Zenon, <1>1, <1>2, <2>1, <2>2, <2>3, CallCloses
  <2> QED
    BY Zenon, <1>11, <2>2, <2>4, ClosedMoves
<1>12. CASE /\ o.symbol = "Return" \/ i = Len(Bodies[f])
            /\ Leave /\ UNCHANGED skipped
  <2>1. ~BlockIsOpen(stack)
    BY Zenon, <1>3, <1>5, <1>6, <1>7, <1>12
  <2>2. StackRight(stack') /\ ~BlockIsOpen(stack')
    BY Zenon, <1>3, <1>12, Leaves DEF Leave
  <2> QED
    BY Zenon, <1>12, <2>1, <2>2, ClosedMoves
<1>13. CASE i < Len(Bodies[f]) /\ GoTo(pc + 1) /\ UNCHANGED skipped
  <2>1. Len(Bodies[f]) \in Nat
    BY Zenon, <1>3, CodeIsEmitted
  <2>2. i # Len(Bodies[f])
    BY <1>13, <2>1
  <2> QED
    BY Zenon, <1>1, <1>2, <1>13, <2>2, NextMoves
<1> QED
  BY Zenon, <1>1, <1>8, <1>9, <1>10, <1>11, <1>12, <1>13 DEF Operate

(* Every step keeps the invariant.                                           *)
LEMMA ProfilerStep ==
  ASSUME ProfilerInv, [ProfilerNext]_profilerVars
  PROVE  ProfilerInv'
<1>1. CASE instrument
  <2>1. /\ phase = "instrument" /\ phase' = "warmup" /\ block_store' = FoundBlocks
        /\ UNCHANGED <<started, taken, stack, clock, panicked, skipped>>
    BY Zenon, <1>1 DEF instrument, FoundBlocks
  <2>2. taken = {} /\ "warmup" # "instrument"
    BY <2>1 DEF ProfilerInv
  <2> QED
    BY Zenon, <2>1, <2>2 DEF ProfilerInv
<1>2. ASSUME NEW f \in DOMAIN Bodies, call_things(f) PROVE ProfilerInv'
  <2>1. /\ stack = <<>> /\ phase \in {"warmup", "profiling"}
        /\ stack' = <<[fn |-> f, pc |-> 1, start |-> 0]>>
        /\ UNCHANGED <<started, taken, block_store, clock, phase, panicked, skipped>>
    BY Zenon, <1>2 DEF call_things
  <2>2. /\ Append(<<>>, [fn |-> f, pc |-> 1, start |-> 0]) = <<[fn |-> f, pc |-> 1, start |-> 0]>>
        /\ "warmup" # "instrument" /\ "profiling" # "instrument"
    OBVIOUS
  <2>3. RunsAt(Append(stack, [fn |-> f, pc |-> 1, start |-> 0]), f, 1, 0)
    BY Zenon, <2>1, CallsFunction DEF ProfilerInv
  <2>4. RunsAt(stack', f, 1, 0)
    BY Zenon, <2>1, <2>2, <2>3
  <2>5. StackRight(stack') /\ ~BlockIsOpen(stack') /\ ~BlockIsOpen(stack)
    BY Zenon, <2>1, <2>4, FirstPlace DEF RunsAt, BlockIsOpen, AtRest
  <2>6. /\ StartsRight(started, stack')
        /\ StartsExact(started, stack) => StartsExact(started, stack')
    BY Zenon, <2>5, StaysClosed
  <2> QED
    BY Zenon, <2>1, <2>2, <2>5, <2>6 DEF ProfilerInv
<1>3. CASE start_measurement
  BY Zenon, <1>3, StartKeeps
<1>4. CASE take_measurement
  BY Zenon, <1>4, TakeKeeps
<1>5. CASE Operate
  <2>1. StackMoves /\ UNCHANGED <<started, taken, block_store, clock, phase, panicked>>
    BY Zenon, <1>5, OperateMoves DEF Operate
  <2>2. phase # "instrument"
    BY Zenon, <1>5, RunningFrame DEF Operate
  <2> QED
    BY Zenon, <2>1, <2>2 DEF ProfilerInv, StackMoves
<1>6. CASE clear
  <2>1. /\ stack = <<>> /\ phase = "warmup" /\ started' = [f \in DOMAIN Bodies |-> <<>>]
        /\ taken' = {} /\ phase' = "profiling"
        /\ UNCHANGED <<block_store, stack, clock, panicked>>
    BY Zenon, <1>6 DEF clear
  <2>2. ~BlockIsOpen(stack')
    BY Zenon, <2>1 DEF BlockIsOpen
  <2>3. started' \in [DOMAIN Bodies -> Seq(Nat)] /\ StartsExact(started', stack')
    BY Zenon, <2>1, <2>2, EmptySequence DEF StartsExact
  <2>4. "warmup" # "instrument" /\ "profiling" # "instrument"
    OBVIOUS
  <2>5. StartsRight(started', stack')
    BY Zenon, <2>2 DEF StartsRight
  <2> QED
    BY Zenon, <2>1, <2>3, <2>4, <2>5 DEF ProfilerInv
<1>7. CASE compile_csv
  <2>1. /\ phase = "profiling" /\ phase' = "reported"
        /\ panicked' = \E m \in taken : m.block \notin block_store
        /\ UNCHANGED <<started, taken, block_store, stack, clock, skipped>>
    BY Zenon, <1>7 DEF compile_csv
  <2>2. "reported" # "instrument" /\ "profiling" # "instrument"
    OBVIOUS
  <2>3. panicked' = FALSE
    BY Zenon, <2>1 DEF ProfilerInv
  <2> QED
    BY Zenon, <2>1, <2>2, <2>3 DEF ProfilerInv
<1>8. CASE UNCHANGED profilerVars
  BY Zenon, <1>8 DEF ProfilerInv, profilerVars
<1> QED
  BY Zenon, <1>1, <1>2, <1>3, <1>4, <1>5, <1>6, <1>7, <1>8 DEF ProfilerNext

LEMMA InvImpliesTaken ==
  ASSUME ProfilerInv
  PROVE  MeasurementsAreTaken
<1>1. ASSUME ~skipped, NEW f \in DOMAIN Bodies PROVE Len(started[f]) <= 1
  <2>1. PICK x : started[f] = <<x>> \/ started[f] = <<>>
    BY Zenon, <1>1 DEF ProfilerInv, StartsExact
  <2>2. Len(<<x>>) <= 1 /\ Len(<<>>) <= 1
    OBVIOUS
  <2> QED
    BY Zenon, <2>1, <2>2
<1>2. ASSUME ~skipped, stack = <<>>, NEW f \in DOMAIN Bodies PROVE started[f] = <<>>
  BY Zenon, <1>2 DEF ProfilerInv, StartsExact, BlockIsOpen
<1>3. ~panicked /\ (~skipped => \A m \in taken : m.exact)
  BY Zenon DEF ProfilerInv
<1> QED
  BY Zenon, <1>1, <1>2, <1>3
     DEF MeasurementsAreTaken, MeasurementsWereStarted, StraightMeasurementsAreExact

(* take_measurement and compile_csv never unwrap nothing, whatever the       *)
(* functions of the profiled module and however they call each other: what a *)
(* block takes was started, what is reported is registered and, as long as   *)
(* no If has jumped over its branch, a block takes its own start.            *)
THEOREM MeasurementsAreRight == ProfilerSpec => []MeasurementsAreTaken
<1>1. ProfilerInit => ProfilerInv
  <2> SUFFICES ASSUME ProfilerInit PROVE ProfilerInv
    OBVIOUS
  <2>1. stack = <<>> /\ started = [f \in DOMAIN Bodies |-> <<>>] /\ clock = 0 /\ taken = {}
    BY Zenon DEF ProfilerInit
  <2>2. StackRight(stack) /\ ~BlockIsOpen(stack)
    <3>1. Len(<<>>) = 0 /\ \A j \in 1 .. 0 : FALSE
      OBVIOUS
    <3> QED
      BY Zenon, <2>1, <3>1, EmptySequence DEF StackRight, BlockIsOpen
  <2>3. /\ started \in [DOMAIN Bodies -> Seq(Nat)] /\ StartsExact(started, stack)
        /\ StartsRight(started, stack)
    BY Zenon, <2>1, <2>2, EmptySequence DEF StartsExact, StartsRight
  <2>4. clock \in Nat
    BY <2>1
  <2> QED
    BY Zenon, <2>1, <2>2, <2>3, <2>4 DEF ProfilerInit, ProfilerInv
<1>2. ProfilerInv /\ [ProfilerNext]_profilerVars => ProfilerInv'
  BY Zenon, ProfilerStep
<1>3. ProfilerInv => MeasurementsAreTaken
  BY Zenon, InvImpliesTaken
<1> QED
  BY <1>1, <1>2, <1>3, PTL DEF ProfilerSpec
==============================================================================
