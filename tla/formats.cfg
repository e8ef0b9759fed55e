SPECIFICATION Spec
CONSTANTS
  LogChunkSize = 1
  NumClusters = 2
  SUPERBLOCK_START_CLUSTER = 1
  PAGES_PER_CLUSTER = 3
  DATA_BYTES_PER_PAGE = 4
  HashSize = 3
  HMAC2_SIZE_IN_PAGE1 = 2
  EccOffset = 7
  BlockCipher <- MCBlockCipher
  HmacKey = HmacKey
  Salts = {salt}
  Contents <- MCContents
  Zero = Zero
  Ff = Ff
  Damaged = Damaged
  Nothing = Nothing
  Radix = 3
  NameSize = 2
  NewNames <- MCNames
  Accesses <- MCAccesses
  Values <- MCValues
  Callers <- MCCallers
  Alphabet = {0, 47, 97, 127, 200}
  MaxPathLength = 5
  MaxLength = 6
INVARIANTS
  ClustersReadBack
  OneCopySuffices
  EccLocatesFlips
  StoredBigEndian
  BitsGrant
  ParentThenName
  PathsAreComponents
  AcceptedNamesResolve
PROPERTIES
  ImplementsRecord
