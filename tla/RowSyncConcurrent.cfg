\* One write by another session, between any two queries.
SPECIFICATION FairSpec
CONSTANTS
  a = a
  b = b
  PK = {1, 2, 3}
  Values = {a, b}
  NoRow = NoRow
  NoKey = NoKey
  Modes = {"mirror", "upsert_only"}
  ActionSets = {{"insert", "update", "delete"}}
  ChunkSize = 1
  RowLimit = 3
  MaxRows = 2
  MaxWrites = 1
INVARIANTS
  StableSourceRowsCovered
  EqualVerdictIsSound
  DeployConverges
  VerifyFindsNoDifference
PROPERTY CompareEnds
CHECK_DEADLOCK FALSE
