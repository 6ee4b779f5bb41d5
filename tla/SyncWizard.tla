----------------------------- MODULE SyncWizard -----------------------------
(***************************************************************************)
(* The data sync wizard of the web UI on top of the server's sync jobs.    *)
(* The wizard posts one stage at a time and then polls the job until its   *)
(* status is final.  The status belongs to the job, not to the stage, and  *)
(* the first poll is sent at once: it may still read the final status that *)
(* the stage before has left.                                              *)
(***************************************************************************)
EXTENDS SyncJobs

VARIABLES
  step,     \* what the wizard waits for: ready, answer or poll
  call,     \* the request it sent last
  current,  \* the job it holds the id of
  shown,    \* the preview whose SQL it shows
  announced \* the deploys it announced as done ("data is synchronised")

wizard == <<step, call, current, shown, announced>>

WizardInit ==
  /\ Init
  /\ step = "ready" /\ call = None /\ current = None /\ shown = None
  /\ announced = {}

\* handleCompare forgets the job before; handleGenerateDml and handleExecute
\* need what the stages before returned.
Post(r, k, j) ==
  /\ step = "ready"
  /\ k = "preview" => current = j
  /\ k = "deploy" => current = j /\ shown # None
  /\ Acquire(r, k, j)
  /\ step' = "answer" /\ call' = r
  /\ current' = IF k = "compare" THEN None ELSE current
  /\ shown' = IF k = "deploy" THEN shown ELSE None
  /\ UNCHANGED announced

Answered ==
  /\ step = "answer"
  /\ pc[call] # "handler"
  /\ step' = IF pc[call] = "over" /\ outcome[call] = "none" THEN "ready"
                                                            ELSE "poll"
  /\ UNCHANGED <<vars, call, current, shown, announced>>

\* pollJobUntilDone and what its caller does with the job it returns.
Poll ==
  /\ step = "poll"
  /\ LET job == jobs[on[call]] IN
     /\ job.status \in {"completed", "error"}
     /\ step' = "ready"
     /\ \/ /\ job.status = "error"
           /\ UNCHANGED <<current, shown, announced>>
        \/ /\ job.status = "completed" /\ kind[call] = "compare"
           /\ current' = on[call]
           /\ UNCHANGED <<shown, announced>>
        \/ /\ job.status = "completed" /\ kind[call] = "preview"
           /\ shown' = job.preview
           /\ UNCHANGED <<current, announced>>
        \/ /\ job.status = "completed" /\ kind[call] = "deploy"
           /\ announced' = announced \cup {call}
           /\ UNCHANGED <<current, shown>>
  /\ UNCHANGED <<vars, call>>

WizardNext ==
  \/ \E r \in Request, k \in Kinds, j \in Job : Post(r, k, j)
  \/ Answered
  \/ Poll
  \/ /\ \/ \E r \in Request : Handler(r) \/ Task(r)
        \/ \E t \in ticks : WriteProgress(t)
     /\ UNCHANGED wizard

WizardSpec == WizardInit /\ [][WizardNext]_<<vars, wizard>>

\* When the wizard announces that the deploy is done and the data is
\* synchronised, the transaction of that deploy has been committed.
AnnouncedIsCommitted == announced \subseteq committed
=============================================================================
