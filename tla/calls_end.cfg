SPECIFICATION Spec
CONSTANTS
  a = a
  b = b
  long = long
  FstSize = 2
  FatSize = 4
  FIRST_DATA_CLUSTER = 1
  SUPERBLOCK_START_CLUSTER = 3
  CLUSTER_DATA_SIZE = 2
  WordSize = 16
  Names = {a}
  LongNames = {}
  Truncated <- MCTruncated
  Uids = {0, 1}
  Gids = {0, 1}
  NumHandles = 2
  Bytes = {0}
  NoHandle = NoHandle
  NoSalt = NoSalt
  Closed = Closed
  Users <- RootUser
  Owners <- TwoUsers
  FsUsers = {}
  Paths <- OneLevel
  PathFds = {2}
  Permissions <- AllAccess
  OpenModes <- ReadOrWrite
  ReadCounts = {3}
  WriteCounts = {3}
  SeekOffsets = {0}
  MaxFileSize = 6
  MaxComponents = 2
  Uses = {}
INVARIANTS
  FilesVerify
PROPERTIES
  CallsEnd
