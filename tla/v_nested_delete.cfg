SPECIFICATION Spec
CONSTANTS
  a = a
  b = b
  long = long
  FstSize = 4
  FatSize = 1
  FIRST_DATA_CLUSTER = 0
  SUPERBLOCK_START_CLUSTER = 1
  CLUSTER_DATA_SIZE = 2
  WordSize = 16
  Names = {a, b}
  LongNames = {}
  Truncated <- MCTruncated
  Uids = {0}
  Gids = {0}
  NumHandles = 1
  Bytes = {0}
  NoHandle = NoHandle
  NoSalt = NoSalt
  Closed = Closed
  Users <- RootUser
  Owners <- RootUser
  FsUsers <- RootUser
  Paths <- TwoLevels
  PathFds = {0, 1}
  Permissions <- AllAccess
  OpenModes <- ReadWrite
  ReadCounts = {}
  WriteCounts = {}
  SeekOffsets = {}
  MaxFileSize = 3
  MaxComponents = 2
  Uses = {}
INVARIANTS
  NoLostEntries
