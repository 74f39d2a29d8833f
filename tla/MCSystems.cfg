\* Staking with the least minimum: any coin at hand can be claimed.
CONSTANTS
  Users = {owner1, alice}
  Owner = owner1
  MinWithdrawal = 1
  TaxNum = 1
  TaxDen = 2
  MaxNative = 5
  MaxSlash = 0
\* Two channels, so that a handshake that keeps failing competes with a packet.
  Channels = {c1, c2}
  Addrs = {a1, a2}
  Admins = {u1}
  None = None
  MaxPackets = 2
  MaxFunds = 0
\* Namespaces whose keys meet if they are joined before their length is added.
  ByteMax = 2
  Areas <- SmallAreas
  Singletons <- SmallSingletons
  SequenceName <- SmallSequenceName
  Keys <- SmallKeys
  Values = {1, 2}
  MaxSequence = 2
\* The last key is within reach, and so is a sum that overflows.
  QueueValues = {1, 2}
  LastKey = 4
  LateKey = 2
  MigratedValues <- ThreeValues
  IntLimit = 6
  Accounts = {alice, bob}
  BadName = bad
  MaxCoins = 2
  MaxItemKey = 3
  Addresses = {alice, bob}
  Contract = contract
  BadAddress = bad
  Ids = {1, 2}
  MaxTransactions = 2
  Bodies <- SmallBodies
  MaxClock = 6
SPECIFICATION SystemsSpec
INVARIANTS
  LastWriteIsFound
  QueryFindsLastReply
  EscrowIsKept
  MeasurementsAreTaken
PROPERTIES
  ClaimsArePaid
  RemoteAddressIsLearned
  StoresAreSeparate
  QueueIsFifo
  BurntIsEmpty
\* The bounds end the behaviours of some of the systems.
CHECK_DEADLOCK FALSE
