CONSTANTS
  Bits64 = 3
  Limit64 = 8
  ByteBits = 1
  Radix = 2
  DECIMAL_PLACES = 2
  Values64 <- SmallValues64
  Values128 <- SmallValues128
  Values256 <- SmallValues256
  Values512 <- SmallValues512
  Divisors <- SmallDivisors
  Texts <- SmallTexts
  MaxU32 = 15
  MemorySizes = {13, 16}
  RegionPointers = {1, 4}
  MaxDataLength = 7
  ReadLimits = {1, 3}
  SectionRadix = 2
  LengthBytes = 2
  MaxSections = 3
  HashLength = 2
  SignatureLength = 2
  CompressedLength = 2
  UncompressedLength = 3
  EddsaKeyLength = 2
  MAX_LENGTH_ED25519_MESSAGE = 2
  MAX_COUNT_ED25519_BATCH = 2
  SectionOverhead = 1
  VLimit = 64
  WordLength = 2
  MEMORY_LIMIT = 2
  MAX_WASM_MEMORY = 12
  PageSize = 4
  MaxMemorySize = 17
  CANONICAL_LENGTH = 6
  SHUFFLES_ENCODE = 2
  SHUFFLES_DECODE = 1
  MAX_LENGTH_HUMAN_ADDRESS = 8
  MAX_LENGTH_CANONICAL_ADDRESS = 7
  HUMAN_ADDRESS_BUFFER_LENGTH = 6
  CANONICAL_ADDRESS_BUFFER_LENGTH = 7
  GAS_COST_HUMANIZE = 2
  GAS_COST_CANONICALIZE = 3
  LetterBytes = {1, 2}
  BrokenBytes = {3}
  QueryAddresses = {a, b}
  Denoms = {x, y}
  NoDenom = none
  Garbled = garbled
  MaxAmount = 1
  GAS_COST_QUERY_FLAT = 2
  GAS_COST_QUERY_RESPONSE_MULTIPLIER = 1
  MAX_LENGTH_QUERY_CHAIN_REQUEST = 2
  MaxNanos = 7
  NanosPerSecond = 3
  MaxBlock = 2
  ReadLength = 3
  ParseLength = 2
  Keys = {k, r}
  Reserved = {r}
  DebugAssertions = TRUE
  Details = {d1, d2}
  Traces = {t1, t2}
SPECIFICATION Spec
CHECK_DEADLOCK FALSE
INVARIANTS
  NumbersAreExact
  RegionsAreSound
  TimesAreExact
  SignaturesAreSound
  AcceptedCodeIsContained
  BoundaryIsFaithful
