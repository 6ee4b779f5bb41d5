---------------------------- MODULE MCTxSessions ----------------------------
(* Model values for TLC: requests, ids and connections are interchangeable. *)
EXTENDS TxSessions, TLC

Symmetry == Permutations(Reqs) \cup Permutations(Ids) \cup Permutations(Conns)

=============================================================================
