SPECIFICATION Spec
CONSTANTS
  a = a
  b = b
  long = long
  FstSize = 3
  FatSize = 5
  FIRST_DATA_CLUSTER = 1
  SUPERBLOCK_START_CLUSTER = 4
  CLUSTER_DATA_SIZE = 2
  WordSize = 16
  Names = {a, b}
  LongNames = {}
  Truncated <- MCTruncated
  Uids = {0}
  Gids = {0}
  NumHandles = 1
  Bytes = {0}
  NoHandle = NoHandle
  NoSalt = NoSalt
  Closed = Closed
  Users <- RootUser
  Owners <- RootUser
  FsUsers = {}
  Paths <- OneLevel
  PathFds = {1}
  Permissions <- AllAccess
  OpenModes <- ReadWrite
  ReadCounts = {}
  WriteCounts = {1, 3}
  SeekOffsets = {0}
  MaxFileSize = 5
  MaxComponents = 2
  Uses = {"crash"}
INVARIANTS
  FatOK
  ChainsMatchSizes
  StatsAgree
  FreeClustersAllocatable
PROPERTIES
  ReservedClustersStay
  ImplementsNamespace
SYMMETRY NameSymmetry
VIEW View
