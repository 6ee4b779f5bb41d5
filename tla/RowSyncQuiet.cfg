\* Nobody else writes: every pair of tables over four keys, ranges that hit
\* the row limit, previews that are cut.
SPECIFICATION Spec
CONSTANTS
  a = a
  b = b
  PK = {1, 2, 3, 4}
  Values = {a, b}
  NoRow = NoRow
  NoKey = NoKey
  Modes = {"mirror", "upsert_only"}
  ActionSets = {{"insert", "update", "delete"}, {"insert", "update"}}
  ChunkSize = 2
  RowLimit = 2
  MaxRows = 3
  MaxWrites = 0
SYMMETRY Contents
INVARIANTS
  NoStableSourceRowDeleted
CHECK_DEADLOCK FALSE
