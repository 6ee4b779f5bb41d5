---------------------------- MODULE MCSyncWizard ----------------------------
(* Model values for SyncWizard. *)
EXTENDS SyncWizard

CONSTANT j1  \* a job id
=============================================================================
