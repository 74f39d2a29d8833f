------------------------------- MODULE MCSystems ------------------------------
(***************************************************************************)
(* The contracts, the storage helpers they use and the profiler, one at a  *)
(* time: the initial state chooses the system that takes steps, the others *)
(* stay in an initial state of theirs.                                     *)
(***************************************************************************)
EXTENDS Staking, StorageHelpers, Queue, Hackatom, Reflect, Profiler

CONSTANTS Channels, Addrs, Admins, None, MaxPackets, MaxFunds

VARIABLES
  system,
  accounts, pending, holdings, treasury, created, call, admin, remote,
  chan, order, nextSeq, packets, handling, acks, transfers, executed

Ibc == INSTANCE ReflectChannels WITH Users <- Admins

ibcVars == <<accounts, pending, holdings, treasury, created, call, admin, remote,
             chan, order, nextSeq, packets, handling, acks, transfers, executed>>

allVars == <<system, vars, storageVars, queueVars, hackatomVars, reflectVars, profilerVars, ibcVars>>

SmallAreas == {<<(<<2, 2>>)>>, <<(<<2>>), (<<2>>)>>}
SmallSingletons == {<<>>}
SmallSequenceName == <<0, 0, 0>>
SmallKeys == {<<>>, <<2, 0>>}
ThreeValues == <<1, 2, 1>>

(* An operator, and one that may go on at position to.                       *)
Op(symbol) == [symbol |-> symbol, to |-> {}]
Jump(symbol, to) == [symbol |-> symbol, to |-> to]

SmallBodies ==
  << <<Op("Const"), Op("Loop"), Op("Const"), Jump("BrIf", {2}), Jump("Call", {2}), Op("Const"),
       Op("End"), Op("End")>>,
     <<Op("Const"), Jump("BrIf", {5}), Op("Block"), Jump("CallIndirect", {2}), Op("End"), Op("Const"),
       Op("Return"), Op("Nop"), Op("End")>>,
     <<Op("Const"), Jump("If", {4}), Op("Const"), Jump("Else", {6}), Op("Const"), Op("End"),
       Op("Nop"), Jump("BrTable", {10, 12}), Op("Nop"), Op("End"), Op("Const"), Op("End")>> >>

SystemsInit ==
  /\ system \in {"staking", "storage", "queue", "hackatom", "reflect", "profiler", "ibc"}
  /\ Init /\ StorageInit /\ QueueInit /\ HackatomInit /\ ReflectInit /\ ProfilerInit /\ Ibc!Init
  /\ system # "reflect" => owner = CHOOSE a \in Addresses : TRUE

InStaking(A) ==
  /\ system = "staking" /\ A
  /\ UNCHANGED <<system, storageVars, queueVars, hackatomVars, reflectVars, profilerVars, ibcVars>>

InIbc(A) ==
  /\ system = "ibc" /\ A
  /\ UNCHANGED <<system, vars, storageVars, queueVars, hackatomVars, reflectVars, profilerVars>>

SystemsNext ==
  \/ InStaking(Next)
  \/ InIbc(Ibc!Next)
  \/ /\ system = "storage" /\ StorageNext
     /\ UNCHANGED <<system, vars, queueVars, hackatomVars, reflectVars, profilerVars, ibcVars>>
  \/ /\ system = "queue" /\ QueueNext
     /\ UNCHANGED <<system, vars, storageVars, hackatomVars, reflectVars, profilerVars, ibcVars>>
  \/ /\ system = "hackatom" /\ HackatomNext
     /\ UNCHANGED <<system, vars, storageVars, queueVars, reflectVars, profilerVars, ibcVars>>
  \/ /\ system = "reflect" /\ ReflectNext
     /\ UNCHANGED <<system, vars, storageVars, queueVars, hackatomVars, profilerVars, ibcVars>>
  \/ /\ system = "profiler" /\ ProfilerNext
     /\ UNCHANGED <<system, vars, storageVars, queueVars, hackatomVars, reflectVars, ibcVars>>

(* The fairness of Staking!FairSpec and ReflectChannels!FairSpec.            *)
SystemsSpec ==
  /\ SystemsInit /\ [][SystemsNext]_allVars
  /\ WF_allVars(InStaking(\E n \in 1 .. MaxNative : Mature(n)))
  /\ \A u \in Users : WF_allVars(InStaking(Claim(u)))
  /\ WF_allVars(InIbc(Ibc!ConnectReply))
  /\ WF_allVars(InIbc(\E succeeds \in BOOLEAN : Ibc!Dispatch(succeeds)))
  /\ \A c \in Channels : /\ SF_allVars(InIbc(Ibc!Receive(c)))
                         /\ WF_allVars(InIbc(Ibc!Acknowledge(c)))

(* With a working relayer, the sender learns the remote address of every     *)
(* channel that is open on both sides, unless one side of it is closed       *)
(* (ReflectChannels: ibc_packet_ack of ibc-reflect-send).                    *)
RemoteAddressIsLearned == Ibc!RemoteAddressIsLearned
==============================================================================
