SPECIFICATION Spec
CONSTANTS
  a = a
  b = b
  long = long
  FstSize = 2
  FatSize = 4
  FIRST_DATA_CLUSTER = 1
  SUPERBLOCK_START_CLUSTER = 3
  CLUSTER_DATA_SIZE = 2
  WordSize = 16
  Names = {a, b}
  LongNames = {}
  Truncated <- MCTruncated
  Uids = {0}
  Gids = {0}
  NumHandles = 1
  Bytes = {0}
  NoHandle = NoHandle
  NoSalt = NoSalt
  Closed = Closed
  Users <- RootUser
  Owners <- RootUser
  FsUsers = {}
  Paths <- OneLevel
  PathFds = {1}
  Permissions <- AllAccess
  OpenModes <- ReadWrite
  ReadCounts = {1}
  WriteCounts = {1}
  SeekOffsets = {0}
  MaxFileSize = 3
  MaxComponents = 2
  Uses = {"rename_written_file"}
PROPERTIES
  CallsEnd
