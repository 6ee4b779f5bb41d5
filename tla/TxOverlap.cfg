SPECIFICATION FairSpec
CONSTANTS
  Reqs = {r1, r2, r3}
  Ids = {a, b}
  Conns = {c1, c2}
  Kinds = {"begin", "commit", "COMMIT", "execute", "crud"}
  Overlap = TRUE
  None = None
PROPERTY SweepSparesStatements
PROPERTY AllAnswered
PROPERTY IdleEnds
CHECK_DEADLOCK FALSE
