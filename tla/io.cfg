SPECIFICATION Spec
CONSTANTS
  a = a
  b = b
  long = long
  FstSize = 2
  FatSize = 4
  FIRST_DATA_CLUSTER = 1
  SUPERBLOCK_START_CLUSTER = 3
  CLUSTER_DATA_SIZE = 4
  WordSize = 16
  Names = {a}
  LongNames = {}
  Truncated <- MCTruncated
  Uids = {0}
  Gids = {0}
  NumHandles = 2
  Bytes = {0, 1}
  NoHandle = NoHandle
  NoSalt = NoSalt
  Closed = Closed
  Users <- RootUser
  Owners <- RootUser
  FsUsers = {}
  Paths <- OneLevel
  PathFds = {2}
  Permissions <- AllAccess
  OpenModes <- ReadOrWrite
  ReadCounts = {1, 3}
  WriteCounts = {3}
  SeekOffsets = {0}
  MaxFileSize = 9
  MaxComponents = 2
  Uses = {}
INVARIANTS
  TypeOK
  HandleSizesBounded
  UnflushedHasOwner
  FilesVerify
  CacheCoherent
  FlushAccepted
  RoundsCopy
PROPERTIES
  ContentChangesOnlyByWrite
  ReadReturnsContent
VIEW View
