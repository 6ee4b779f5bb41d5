\* A chunk size above the row limit of a query.
SPECIFICATION Spec
CONSTANTS
  a = a
  b = b
  PK = {1, 2, 3}
  Values = {a, b}
  NoRow = NoRow
  NoKey = NoKey
  Modes = {"mirror"}
  ActionSets = {{"insert", "update", "delete"}}
  ChunkSize = 2
  RowLimit = 1
  MaxRows = 3
  MaxWrites = 0
SYMMETRY Contents
INVARIANT NoStableSourceRowDeleted
CHECK_DEADLOCK FALSE
