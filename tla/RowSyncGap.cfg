\* Chunks of one row: a target row between two chunks is in no range.
SPECIFICATION Spec
CONSTANTS
  a = a
  b = b
  PK = {1, 2, 3}
  Values = {a, b}
  NoRow = NoRow
  NoKey = NoKey
  Modes = {"mirror"}
  ActionSets = {{"insert", "update", "delete"}}
  ChunkSize = 1
  RowLimit = 3
  MaxRows = 3
  MaxWrites = 0
SYMMETRY Contents
INVARIANT VerifiedMirrorIsIdentical
CHECK_DEADLOCK FALSE
