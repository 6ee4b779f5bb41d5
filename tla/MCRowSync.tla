----------------------------- MODULE MCRowSync -----------------------------
(* Model values for RowSync: the row contents are interchangeable. *)
EXTENDS RowSync

CONSTANTS a, b  \* two row contents

Contents == Permutations(Values)
============================================================================
