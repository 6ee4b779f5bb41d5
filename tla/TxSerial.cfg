SPECIFICATION Spec
CONSTANTS
  Reqs = {r1, r2, r3, r4, r5}
  Ids = {a}
  Conns = {c1, c2}
  Kinds = {"begin", "commit", "rollback", "COMMIT", "ROLLBACK", "execute", "ddl", "crud", "plain"}
  Overlap = FALSE
  None = None
SYMMETRY Symmetry
INVARIANT Reachable
INVARIANT ActiveIsInside
INVARIANT RollbackMeansUndone
CHECK_DEADLOCK FALSE
