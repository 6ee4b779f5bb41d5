------------------------------ MODULE SyncJobs ------------------------------
(***************************************************************************)
(* The row-sync jobs of the server (web-server, handlers/sync).  A job is  *)
(* a record in the map sync_jobs; three handlers work on it: compare       *)
(* creates it, preview and deploy start from the result of the stage       *)
(* before.  Each handler takes a permit of job_semaphore, copies what it   *)
(* needs out of the record and spawns a task; the task writes the record   *)
(* when it begins and when it ends, and holds the permit until then.       *)
(* Nothing keeps two tasks off one job.                                    *)
(*                                                                         *)
(* A result is named by the request that produced it: jobs[j].preview = r  *)
(* says that the preview in the record is the one request r computed.      *)
(***************************************************************************)
EXTENDS Naturals, FiniteSets

CONSTANTS
  Job,      \* job ids
  Request,  \* calls of the three handlers, numbered as they arrive
  MaxJobs,  \* limits.max_job_concurrency, the size of the semaphore
  Steps,    \* statements of a preview, and what a finished stage counts
  None, NoJob

ASSUME SizeAssumption == MaxJobs \in Nat \ {0} /\ Steps \in Nat
ASSUME RequestAssumption == Request \subseteq Nat /\ None \notin Request

VARIABLES
  jobs,     \* sync_jobs
  permits,  \* permits left in job_semaphore
  pc,       \* how far each request got
  kind, on, \* its handler and its job
  plan,     \* the result it copied out of the job
  executed, \* statements a deploy has executed
  outcome,  \* how its task ended
  ticks,    \* progress writes spawned and not yet run
  committed \* deploys whose transaction took effect

asked == <<kind, on>>
vars == <<jobs, permits, pc, asked, plan, executed, outcome, ticks, committed>>

Kinds == {"compare", "preview", "deploy"}
Result == Request \cup {None}
JobRecord ==
  [stage : Kinds, status : {"pending", "running", "completed", "error"},
   compare : Result, preview : Result, deploy : Result,
   failed : BOOLEAN, current : 0 .. Steps, total : 0 .. Steps]
Tick == [job : Job, current : 0 .. Steps]

ASSUME JobAssumption == NoJob \notin JobRecord /\ None \notin Job

TypeOK ==
  /\ jobs \in [Job -> JobRecord \cup {NoJob}]
  /\ permits \in 0 .. MaxJobs
  /\ pc \in [Request -> {"idle", "handler", "spawned", "running", "committed",
                         "ending", "over"}]
  /\ kind \in [Request -> Kinds \cup {None}]
  /\ on \in [Request -> Job \cup {None}]
  /\ plan \in [Request -> Result]
  /\ executed \in [Request -> 0 .. Steps]
  /\ outcome \in [Request -> {"none", "ok", "error"}]
  /\ ticks \in SUBSET Tick
  /\ committed \in SUBSET Request

\* The requests that hold a permit.
Holders == {r \in Request : pc[r] \notin {"idle", "over"}}

Init ==
  /\ jobs = [j \in Job |-> NoJob]
  /\ permits = MaxJobs
  /\ pc = [r \in Request |-> "idle"]
  /\ kind = [r \in Request |-> None] /\ on = [r \in Request |-> None]
  /\ plan = [r \in Request |-> None]
  /\ executed = [r \in Request |-> 0]
  /\ outcome = [r \in Request |-> "none"]
  /\ ticks = {} /\ committed = {}

Goto(r, label) == pc' = [pc EXCEPT ![r] = label]

-----------------------------------------------------------------------------
(***************************************************************************)
(* The handlers.                                                           *)
(***************************************************************************)
Arrives(r) ==
  /\ pc[r] = "idle"
  /\ \A q \in Request : q < r => pc[q] # "idle"

\* try_acquire_owned; compare works on a job id of its own.
Acquire(r, k, j) ==
  /\ Arrives(r)
  /\ permits > 0
  /\ k = "compare" => jobs[j] = NoJob /\ \A q \in Holders : on[q] # j
  /\ permits' = permits - 1
  /\ Goto(r, "handler")
  /\ kind' = [kind EXCEPT ![r] = k] /\ on' = [on EXCEPT ![r] = j]
  /\ UNCHANGED <<jobs, plan, executed, outcome, ticks, committed>>

\* Mutant: one permit is kept in reserve.
TooManyReserved(r) ==
  /\ Arrives(r)
  /\ permits <= 1
  /\ Goto(r, "over")
  /\ UNCHANGED <<jobs, permits, asked, plan, executed, outcome, ticks, committed>>

TooManyRequests(r) ==
  /\ Arrives(r)
  /\ permits = 0
  /\ Goto(r, "over")
  /\ UNCHANGED <<jobs, permits, asked, plan, executed, outcome, ticks, committed>>

\* What the stage before has to have left in the job: nothing for compare.
Needed(r) ==
  IF kind[r] = "preview" THEN jobs[on[r]].compare ELSE jobs[on[r]].preview

CanStart(r) ==
  kind[r] # "compare" => jobs[on[r]] # NoJob /\ Needed(r) # None

\* An early return: the job or the result it needs is missing, or a check on
\* the configuration fails (unknown or read-only connection, engine without
\* data sync).  The permit is dropped with the handler's locals.
Reject(r) ==
  /\ pc[r] = "handler"
  /\ Goto(r, "over")
  /\ permits' = permits + 1
  /\ UNCHANGED <<jobs, asked, plan, executed, outcome, ticks, committed>>

NewJob ==
  [stage |-> "compare", status |-> "pending", compare |-> None,
   preview |-> None, deploy |-> None, failed |-> FALSE,
   current |-> 0, total |-> 0]

Spawn(r) ==
  /\ pc[r] = "handler"
  /\ CanStart(r)
  /\ Goto(r, "spawned")
  /\ \/ /\ kind[r] = "compare"
        /\ jobs' = [jobs EXCEPT ![on[r]] = NewJob]
        /\ plan' = plan
     \/ /\ kind[r] # "compare"
        /\ plan' = [plan EXCEPT ![r] = Needed(r)]
        /\ jobs' = jobs
  /\ UNCHANGED <<permits, asked, executed, outcome, ticks, committed>>

-----------------------------------------------------------------------------
(***************************************************************************)
(* The tasks.                                                              *)
(***************************************************************************)
\* Mutant: every stage clears all results.
ClearedAll(job, k) ==
  [job EXCEPT !.stage = k, !.status = "running", !.failed = FALSE,
              !.compare = None, !.preview = None, !.deploy = None,
              !.current = 0, !.total = IF k = "deploy" THEN Steps ELSE 0]

\* The first write of a task clears its own result and those after it.
Cleared(job, k) ==
  [job EXCEPT !.stage = k, !.status = "running", !.failed = FALSE,
              !.compare = IF k = "compare" THEN None ELSE @,
              !.preview = IF k = "deploy" THEN @ ELSE None,
              !.deploy = None,
              !.current = 0, !.total = IF k = "deploy" THEN Steps ELSE 0]

Begin(r) ==
  /\ pc[r] = "spawned"
  /\ jobs' = [jobs EXCEPT ![on[r]] = Cleared(@, kind[r])]
  /\ Goto(r, "running")
  /\ UNCHANGED <<permits, asked, plan, executed, outcome, ticks, committed>>

\* deploy reports each statement through a task of its own.
ExecuteStatement(r) ==
  /\ pc[r] = "running" /\ kind[r] = "deploy"
  /\ executed[r] < Steps
  /\ executed' = [executed EXCEPT ![r] = @ + 1]
  /\ ticks' = ticks \cup {[job |-> on[r], current |-> executed[r] + 1]}
  /\ UNCHANGED <<jobs, permits, pc, asked, plan, outcome, committed>>

\* ... which may run at any later time, and in any order.
WriteProgress(t) ==
  /\ t \in ticks
  /\ ticks' = ticks \ {t}
  /\ jobs' = [jobs EXCEPT ![t.job].current = t.current, ![t.job].total = Steps]
  /\ UNCHANGED <<permits, pc, asked, plan, executed, outcome, committed>>

Commit(r) ==
  /\ pc[r] = "running" /\ kind[r] = "deploy"
  /\ executed[r] = Steps
  /\ committed' = committed \cup {r}
  /\ Goto(r, "committed")
  /\ UNCHANGED <<jobs, permits, asked, plan, executed, outcome, ticks>>

\* Mutant: the status is not among what is published.
PublishedQuietly(job, k, r) ==
  [job EXCEPT !.compare = IF k = "compare" THEN r ELSE @,
              !.preview = IF k = "preview" THEN r ELSE @,
              !.deploy = IF k = "deploy" THEN r ELSE @,
              !.current = Steps, !.total = Steps]

\* The last write of a task that succeeded publishes its result.
Published(job, k, r) ==
  [job EXCEPT !.status = "completed",
              !.compare = IF k = "compare" THEN r ELSE @,
              !.preview = IF k = "preview" THEN r ELSE @,
              !.deploy = IF k = "deploy" THEN r ELSE @,
              !.current = Steps, !.total = Steps]

\* Mutant: a deploy reports its statements without the commit.
SucceedEarly(r) ==
  /\ pc[r] = "running"
  /\ jobs' = [jobs EXCEPT ![on[r]] = Published(@, kind[r], r)]
  /\ outcome' = [outcome EXCEPT ![r] = "ok"]
  /\ Goto(r, "ending")
  /\ UNCHANGED <<permits, asked, plan, executed, ticks, committed>>

Succeed(r) ==
  /\ pc[r] = IF kind[r] = "deploy" THEN "committed" ELSE "running"
  /\ jobs' = [jobs EXCEPT ![on[r]] = Published(@, kind[r], r)]
  /\ outcome' = [outcome EXCEPT ![r] = "ok"]
  /\ Goto(r, "ending")
  /\ UNCHANGED <<permits, asked, plan, executed, ticks, committed>>

\* Mutant: the error ends the task before it is written.
FailUnwritten(r) ==
  /\ pc[r] \in {"running", "committed"}
  /\ outcome' = [outcome EXCEPT ![r] = "error"]
  /\ Goto(r, "ending")
  /\ UNCHANGED <<jobs, permits, asked, plan, executed, ticks, committed>>

\* Mutant: a task that failed publishes what it has.
FailPublishes(r) ==
  /\ pc[r] \in {"running", "committed"}
  /\ jobs' = [jobs EXCEPT ![on[r]] =
                [Published(@, kind[r], r) EXCEPT !.status = "error"]]
  /\ outcome' = [outcome EXCEPT ![r] = "error"]
  /\ Goto(r, "ending")
  /\ UNCHANGED <<permits, asked, plan, executed, ticks, committed>>

\* A query failed or timed out, the tables differ too much, or a commit that
\* took effect was reported as timed out.
FailTask(r) ==
  /\ pc[r] \in {"running", "committed"}
  /\ jobs' = [jobs EXCEPT ![on[r]].status = "error", ![on[r]].failed = TRUE]
  /\ outcome' = [outcome EXCEPT ![r] = "error"]
  /\ Goto(r, "ending")
  /\ UNCHANGED <<permits, asked, plan, executed, ticks, committed>>

\* The permit is dropped at the end of the task, after that last write.
Release(r) ==
  /\ pc[r] = "ending"
  /\ permits' = permits + 1
  /\ Goto(r, "over")
  /\ UNCHANGED <<jobs, asked, plan, executed, outcome, ticks, committed>>

Handler(r) == Reject(r) \/ Spawn(r)
Task(r) == Begin(r) \/ ExecuteStatement(r) \/ Commit(r) \/ Succeed(r)
           \/ FailTask(r) \/ Release(r)

Next ==
  \/ \E r \in Request :
       \/ \E k \in Kinds, j \in Job : Acquire(r, k, j)
       \/ TooManyRequests(r)
       \/ Handler(r)
       \/ Task(r)
  \/ \E t \in ticks : WriteProgress(t)

Spec == Init /\ [][Next]_vars

\* The runtime polls every handler and task that can go on; each await of
\* theirs ends, the database calls by their timeouts.
FairSpec == Spec /\ \A r \in Request : WF_vars(Handler(r)) /\ WF_vars(Task(r))

-----------------------------------------------------------------------------
\* The parts of the inductive invariant besides the properties below.

\* A request at work has a handler and a job, its task a job in the map; a plan
\* is taken when the task is spawned, an outcome known when it ends, and a
\* deploy past its commit took effect.
TasksHaveJobs ==
  /\ \A r \in Holders : kind[r] \in Kinds /\ on[r] \in Job
  /\ \A r \in Holders : pc[r] # "handler" => jobs[on[r]] # NoJob
  /\ \A t \in ticks : jobs[t.job] # NoJob
  /\ \A r \in Request : pc[r] \in {"idle", "handler"} => plan[r] = None
  /\ \A r \in Request : outcome[r] # "none" => pc[r] \in {"ending", "over"}
  /\ \A r \in Request : pc[r] = "committed" => r \in committed

\* q is a request of handler k on job j that succeeded.
Produced(q, k, j) == on[q] = j /\ kind[q] = k /\ outcome[q] = "ok"

\* What a job publishes was produced for it, by the right handler.
ResultsProduced ==
  \A j \in Job : jobs[j] # NoJob =>
    /\ jobs[j].compare # None => Produced(jobs[j].compare, "compare", j)
    /\ jobs[j].preview # None => Produced(jobs[j].preview, "preview", j)
    /\ jobs[j].deploy # None => Produced(jobs[j].deploy, "deploy", j)

\* A job has one compare, which finds no job when its handler inserts it and
\* no published compare before it ends.
CompareAlone ==
  \A r \in Holders : kind[r] = "compare" =>
    /\ \A q \in Holders : kind[q] = "compare" /\ on[q] = on[r] => q = r
    /\ pc[r] = "handler" => jobs[on[r]] = NoJob
    /\ pc[r] \in {"spawned", "running", "committed"}
         => jobs[on[r]].compare = None

-----------------------------------------------------------------------------
\* No permit is lost or minted: what is left of the semaphore and the requests
\* between try_acquire and the end of their task add up, on every early
\* return, success and failure (the permit moved into the spawned task).
PermitsConserved == permits + Cardinality(Holders) = MaxJobs

\* The semaphore keeps the promise of the pool (429 only while MaxJobs work).
Pool == INSTANCE JobPool WITH working <- Holders,
                              over <- {r \in Request : pc[r] = "over"}
PoolPromise == Pool!Spec

\* A job that says it is pending or running has a task that will say
\* otherwise: a client that polls it does not wait for nobody (first and last
\* writes of overlapping tasks on one job).
BusyJobHasWorker ==
  \A j \in Job : jobs[j] # NoJob =>
    /\ jobs[j].status = "pending" =>
         \E r \in Request : on[r] = j /\ pc[r] = "spawned" /\ kind[r] = "compare"
    /\ jobs[j].status = "running" =>
         \E r \in Request : on[r] = j /\ pc[r] \in {"running", "committed"}

\* What a preview compares and a deploy executes is the published result of a
\* task of the right kind on the same job that succeeded, also when other
\* tasks reset the record after it was copied.
PlansArePublished ==
  \A r \in Request : plan[r] # None =>
    Produced(plan[r], IF kind[r] = "deploy" THEN "preview" ELSE "compare", on[r])

\* A deploy the record reports has taken effect, whatever ran beside it.
ReportedDeployCommitted ==
  \A j \in Job : jobs[j] # NoJob /\ jobs[j].deploy # None
    => jobs[j].deploy \in committed

\* Once published, the compare of a job never changes: all previews of the job
\* work on the same ranges, at whatever time they start.
CompareStaysPublished ==
  [][\A j \in Job : jobs[j] # NoJob /\ jobs[j].compare # None
       => jobs[j]'.compare = jobs[j].compare]_vars

\* Every call gets an answer and its task ends.
RequestsEnd == \A r \in Request : pc[r] = "handler" ~> pc[r] = "over"

\* A job that is polled leaves the pending and running states.
Busy(j) == jobs[j] # NoJob /\ jobs[j].status \in {"pending", "running"}
PollingEnds == \A j \in Job : Busy(j) ~> ~Busy(j)

\* Nobody waits for ever for the server: neither a call for its task nor a poll
\* for a job that says it is busy, whichever tasks of it overlap.
JobWaitingEnds == RequestsEnd /\ PollingEnds
=============================================================================
