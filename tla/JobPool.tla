------------------------------ MODULE JobPool ------------------------------
(***************************************************************************)
(* What the server promises about background jobs: at most MaxJobs of the  *)
(* requests work at a time, and a request is turned away only while that   *)
(* many do.  Every start handler of the server (row sync, performance      *)
(* sync, export, import, go-live) draws on this one pool.                  *)
(***************************************************************************)
EXTENDS Naturals, FiniteSets

CONSTANTS Request, MaxJobs

VARIABLES working, over  \* requests being worked on, and done with

pool == <<working, over>>

Init == working = {} /\ over = {}

Admit(r) ==
  /\ r \notin working \cup over
  /\ Cardinality(working) < MaxJobs
  /\ working' = working \cup {r}
  /\ over' = over

TurnAway(r) ==
  /\ r \notin working \cup over
  /\ Cardinality(working) = MaxJobs
  /\ over' = over \cup {r}
  /\ working' = working

Leave(r) ==
  /\ r \in working
  /\ working' = working \ {r}
  /\ over' = over \cup {r}

Next == \E r \in Request : Admit(r) \/ TurnAway(r) \/ Leave(r)

Spec == Init /\ [][Next]_pool
============================================================================
