----------------------------- MODULE MCSyncJobs -----------------------------
(* Model values for SyncJobs. *)
EXTENDS SyncJobs

CONSTANTS j1, j2  \* two job ids
=============================================================================
