SPECIFICATION Spec
CONSTANTS
  a = a
  b = b
  long = long
  FstSize = 3
  FatSize = 1
  FIRST_DATA_CLUSTER = 0
  SUPERBLOCK_START_CLUSTER = 1
  CLUSTER_DATA_SIZE = 2
  WordSize = 16
  Names = {a, b}
  LongNames = {}
  Truncated <- MCTruncated
  Uids = {0, 1}
  Gids = {0, 1}
  NumHandles = 1
  Bytes = {0}
  NoHandle = NoHandle
  NoSalt = NoSalt
  Closed = Closed
  Users <- TwoUsers
  Owners <- TwoUsers
  FsUsers <- TwoUsers
  Paths <- UnderA
  PathFds = {0}
  Permissions <- OwnerOnly
  OpenModes = {}
  ReadCounts = {}
  WriteCounts = {}
  SeekOffsets = {}
  MaxFileSize = 3
  MaxComponents = 1
  Uses = {}
INVARIANTS
  AnswersAgree
PROPERTIES
  ImplementsNamespace
  OnlyWritersChangeDirectories
VIEW View
