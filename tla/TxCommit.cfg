SPECIFICATION Spec
CONSTANTS
  Reqs = {r1, r2, r3}
  Ids = {a}
  Conns = {c1}
  Kinds = {"begin", "commit", "crud"}
  Overlap = FALSE
  None = None
SYMMETRY Symmetry
INVARIANT CommitMeansCommitted
CHECK_DEADLOCK FALSE
