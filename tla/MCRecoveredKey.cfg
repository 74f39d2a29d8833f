CONSTANTS
  HashLength = 2
  SignatureLength = 2
  CompressedLength = 2
  UncompressedLength = 3
  EddsaKeyLength = 2
  MAX_LENGTH_ED25519_MESSAGE = 2
  MAX_COUNT_ED25519_BATCH = 2
  SectionOverhead = 1
  VLimit = 64
  WordLength = 2
SPECIFICATION CryptoSpec
CHECK_DEADLOCK FALSE
INVARIANT RecoveredKeyIsCompressed
