------------------------------ MODULE ToolJobs ------------------------------
(***************************************************************************)
(* The background jobs that can be canceled (web-server, handlers/go_live):*)
(* export, import, SQL import and go-live.  A start handler takes a permit,*)
(* inserts the job, spawns its task and stores the task's abort handle; the*)
(* task writes the job when it begins and when it ends and drops the permit*)
(* when it is dropped itself.  A cancel aborts the task and then marks the *)
(* job.                                                                    *)
(*                                                                         *)
(* An abort takes effect only where the task is suspended: a task that some*)
(* thread is polling runs on to its next await.  Between "waiting" and the *)
(* labels beside it lie the awaits of the job proper (queries and files).  *)
(* A request names its job: every start makes a job of its own.            *)
(***************************************************************************)
EXTENDS Naturals, FiniteSets

CONSTANTS
  Request,  \* calls of the start handlers, numbered as they arrive
  MaxJobs,  \* limits.max_job_concurrency
  MaxFile,  \* limits.max_file_bytes, in chunks an export writes
  Quota,    \* limits.temp_quota_bytes, in the same unit
  MaxCancels  \* bound: jobs canceled in one behaviour

ASSUME RequestAssumption == Request \subseteq Nat
ASSUME LimitAssumption ==
  MaxJobs \in Nat \ {0} /\ MaxFile \in Nat \ {0}
  /\ Quota \in Nat /\ MaxCancels \in Nat

VARIABLES
  status,   \* the status in tool_jobs, "none" where there is no such job
  permits,  \* permits left in job_semaphore
  kind,     \* "export" writes a file, "import" stands for the other kinds
  pc,       \* how far the start handler got
  task,     \* how far its task got
  aborted,  \* abort was called on the handle
  cancel,   \* how far the cancel of this job got
  told,     \* the status the cancel answered with
  file      \* the size of the export's file in temp_dir

vars == <<status, permits, kind, pc, task, aborted, cancel, told, file>>

Statuses == {"none", "pending", "running", "completed", "error", "canceled"}

TypeOK ==
  /\ status \in [Request -> Statuses]
  /\ permits \in 0 .. MaxJobs
  /\ kind \in [Request -> {"export", "import"}]
  /\ pc \in [Request -> {"idle", "admitted", "checked", "spawned", "answered",
                         "refused"}]
  /\ task \in [Request -> {"none", "queued", "beginning", "waiting", "ending",
                           "gone"}]
  /\ aborted \in [Request -> BOOLEAN]
  /\ cancel \in [Request -> {"none", "aborted", "marked", "answered"}]
  /\ told \in [Request -> Statuses]
  /\ file \in [Request -> 0 .. MaxFile]

Alive(r) == task[r] \notin {"none", "gone"}
Holders == {r \in Request : pc[r] \in {"admitted", "checked"} \/ Alive(r)}

\* dir_size_bytes(temp_dir), counted in the chunks of its files
Used == Cardinality({c \in Request \X (1 .. MaxFile) : c[2] <= file[c[1]]})

Init ==
  /\ status = [r \in Request |-> "none"]
  /\ permits = MaxJobs
  /\ kind = [r \in Request |-> "import"]
  /\ pc = [r \in Request |-> "idle"]
  /\ task = [r \in Request |-> "none"]
  /\ aborted = [r \in Request |-> FALSE]
  /\ cancel = [r \in Request |-> "none"]
  /\ told = [r \in Request |-> "none"]
  /\ file = [r \in Request |-> 0]

-----------------------------------------------------------------------------
(***************************************************************************)
(* The start handlers.                                                     *)
(***************************************************************************)
Arrives(r) ==
  /\ pc[r] = "idle"
  /\ \A q \in Request : q < r => pc[q] # "idle"

Admit(r) ==
  /\ Arrives(r)
  /\ permits > 0
  /\ permits' = permits - 1
  /\ pc' = [pc EXCEPT ![r] = "admitted"]
  /\ \E k \in {"export", "import"} : kind' = [kind EXCEPT ![r] = k]
  /\ UNCHANGED <<status, task, aborted, cancel, told, file>>

TooManyRequests(r) ==
  /\ Arrives(r)
  /\ permits = 0
  /\ pc' = [pc EXCEPT ![r] = "refused"]
  /\ UNCHANGED <<status, permits, kind, task, aborted, cancel, told, file>>

\* Mutant: the file to come is not added to what is there.
FitsNow(r) == kind[r] = "export" => Used <= Quota

\* ensure_temp_quota: an export may start if a file of full size would fit.
FitsQuota(r) == kind[r] = "export" => Used + MaxFile <= Quota

CheckQuota(r) ==
  /\ pc[r] = "admitted"
  /\ FitsQuota(r)
  /\ pc' = [pc EXCEPT ![r] = "checked"]
  /\ UNCHANGED <<status, permits, kind, task, aborted, cancel, told, file>>

\* The quota is exceeded, or no database is connected.
Reject(r) ==
  /\ \/ pc[r] = "admitted" /\ ~FitsQuota(r)
     \/ pc[r] = "checked"
  /\ pc' = [pc EXCEPT ![r] = "refused"]
  /\ permits' = permits + 1
  /\ UNCHANGED <<status, kind, task, aborted, cancel, told, file>>

\* Mutant: the task does not take the permit along.
SpawnDropsPermit(r) ==
  /\ pc[r] = "checked"
  /\ status' = [status EXCEPT ![r] = "pending"]
  /\ task' = [task EXCEPT ![r] = "queued"]
  /\ pc' = [pc EXCEPT ![r] = "spawned"]
  /\ permits' = permits + 1
  /\ UNCHANGED <<kind, aborted, cancel, told, file>>

Spawn(r) ==
  /\ pc[r] = "checked"
  /\ status' = [status EXCEPT ![r] = "pending"]
  /\ task' = [task EXCEPT ![r] = "queued"]
  /\ pc' = [pc EXCEPT ![r] = "spawned"]
  /\ UNCHANGED <<permits, kind, aborted, cancel, told, file>>

\* The handle is stored, then the client learns the job id.
Answer(r) ==
  /\ pc[r] = "spawned"
  /\ pc' = [pc EXCEPT ![r] = "answered"]
  /\ UNCHANGED <<status, permits, kind, task, aborted, cancel, told, file>>

-----------------------------------------------------------------------------
(***************************************************************************)
(* The tasks.                                                              *)
(***************************************************************************)
\* A thread takes up the task: it was just spawned, or its last answer came.
Poll(r) ==
  /\ ~aborted[r]
  /\ \/ task[r] = "queued" /\ task' = [task EXCEPT ![r] = "beginning"]
     \/ task[r] = "waiting" /\ task' = [task EXCEPT ![r] = "ending"]
  /\ UNCHANGED <<status, permits, kind, pc, aborted, cancel, told, file>>

Begin(r) ==
  /\ task[r] = "beginning"
  /\ status' = [status EXCEPT ![r] = "running"]
  /\ task' = [task EXCEPT ![r] = "waiting"]
  /\ UNCHANGED <<permits, kind, pc, aborted, cancel, told, file>>

\* write_stats_chunk: a chunk beyond MaxFile fails the job instead.
WriteChunk(r) ==
  /\ task[r] = "waiting" /\ kind[r] = "export"
  /\ file[r] < MaxFile
  /\ file' = [file EXCEPT ![r] = @ + 1]
  /\ UNCHANGED <<status, permits, kind, pc, task, aborted, cancel, told>>

\* The last write of the task, and the drop of its permit.
Finish(r) ==
  /\ task[r] = "ending"
  /\ \E s \in {"completed", "error"} : status' = [status EXCEPT ![r] = s]
  /\ task' = [task EXCEPT ![r] = "gone"]
  /\ permits' = permits + 1
  /\ UNCHANGED <<kind, pc, aborted, cancel, told, file>>

\* At an await (the lock on tool_jobs is one) the runtime drops an aborted
\* task with all it owns, the permit included; the file stays.
Drop(r) ==
  /\ aborted[r] /\ Alive(r)
  /\ task' = [task EXCEPT ![r] = "gone"]
  /\ permits' = permits + 1
  /\ UNCHANGED <<status, kind, pc, aborted, cancel, told, file>>

-----------------------------------------------------------------------------
(***************************************************************************)
(* tool_job_cancel, once per job.                                          *)
(***************************************************************************)
CancelAbort(r) ==
  /\ pc[r] = "answered" /\ cancel[r] = "none"
  /\ Cardinality({q \in Request : aborted[q]}) < MaxCancels
  /\ cancel' = [cancel EXCEPT ![r] = "aborted"]
  /\ aborted' = [aborted EXCEPT ![r] = TRUE]
  /\ UNCHANGED <<status, permits, kind, pc, task, told, file>>

CancelMark(r) ==
  /\ cancel[r] = "aborted"
  /\ cancel' = [cancel EXCEPT ![r] = "marked"]
  /\ status' = [status EXCEPT ![r] =
                  IF @ \in {"pending", "running"} THEN "canceled" ELSE @]
  /\ UNCHANGED <<permits, kind, pc, task, aborted, told, file>>

CancelAnswer(r) ==
  /\ cancel[r] = "marked"
  /\ cancel' = [cancel EXCEPT ![r] = "answered"]
  /\ told' = [told EXCEPT ![r] = status[r]]
  /\ UNCHANGED <<status, permits, kind, pc, task, aborted, file>>

-----------------------------------------------------------------------------
Handler(r) == CheckQuota(r) \/ Reject(r) \/ Spawn(r) \/ Answer(r)
Running(r) == Begin(r) \/ Finish(r) \/ Drop(r)
Cancel(r) == CancelMark(r) \/ CancelAnswer(r)

Next == \E r \in Request :
  \/ Admit(r) \/ TooManyRequests(r) \/ Handler(r)
  \/ Poll(r) \/ WriteChunk(r) \/ Running(r)
  \/ CancelAbort(r) \/ Cancel(r)

Spec == Init /\ [][Next]_vars

\* The runtime runs every handler on, and every task that a thread has taken
\* up or that is to be dropped.  Nothing is assumed of the database: no query
\* of these jobs has a timeout, so a waiting task may wait forever.  All of it
\* ends by itself, so it is enough that something of it goes on.
Progress == \E r \in Request : Handler(r) \/ Running(r) \/ Cancel(r)

-----------------------------------------------------------------------------
\* No permit is lost or minted, also by a task that is dropped half way.
PermitsConserved == permits + Cardinality(Holders) = MaxJobs

\* Jobs that can be canceled keep the promise of the pool too.
Pool == INSTANCE JobPool WITH
  working <- Holders,
  over <- {r \in Request : pc[r] = "refused" \/ task[r] = "gone"}
PoolPromise == Pool!Spec

\* ensure_temp_quota looks at the directory before the files grow, so exports
\* that start together overrun the quota; the pool bounds by how much.
OverrunIsBounded == Used <= Quota + (MaxJobs - 1) * MaxFile

\* What the answer of a cancel is taken to say: a job it reports as canceled
\* is canceled from then on.
CanceledStays ==
  \A r \in Request : told[r] = "canceled" => status[r] = "canceled"
=============================================================================
