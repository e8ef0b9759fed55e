SPECIFICATION Spec
CONSTANTS
  NumSlots = 3
  NumClusters = 2
  VersionSize = 6
  Payload = {1, 2}
  None = None
INVARIANTS OnlyVerifiedUsed
