\* Enough packets to dispatch twice besides WhoAmI, on two channels whose handshakes interleave.
CONSTANTS
  Channels = {c1, c2}
  Addrs = {a1, a2}
  Users = {u1, u2}
  None = None
  MaxPackets = 3
  MaxFunds = 2
SPECIFICATION Spec
SYMMETRY Symmetric
INVARIANTS
  AccountPerOpenChannel
  RemoteIsOwnAccount
  AckTellsOutcome
  ExecutedInOrder
  AcksAreAccepted
