--------------------------- MODULE SyncJobsProofs ---------------------------
(***************************************************************************)
(* Proofs about SyncJobs, for any sets of jobs and requests and any size   *)
(* of the semaphore.                                                       *)
(***************************************************************************)
EXTENDS SyncJobs, FiniteSetTheorems, TLAPS

PermitInv == IsFiniteSet(Holders) /\ PermitsConserved

\* The inductive invariant.  The types need the permits (a permit given back
\* is one that was taken) and the jobs of the tasks; what plans and reports
\* say rests on what the jobs publish.
IInv ==
  /\ TypeOK
  /\ PermitInv
  /\ TasksHaveJobs
  /\ ResultsProduced
  /\ PlansArePublished
  /\ ReportedDeployCommitted

-----------------------------------------------------------------------------
\* In the initial state no permit is taken and no job exists.
LEMMA InitInv == Init => IInv
<1> SUFFICES ASSUME Init PROVE IInv
  OBVIOUS
<1> USE SizeAssumption, JobAssumption DEF Init
<1>1. Holders = {}
  BY DEF Holders
<1>2. TypeOK
  BY DEF TypeOK, Result
<1>3. PermitInv
  BY <1>1, FS_EmptySet DEF PermitInv, PermitsConserved
<1>4. TasksHaveJobs
  BY <1>1 DEF TasksHaveJobs
<1>5. ResultsProduced /\ PlansArePublished /\ ReportedDeployCommitted
  BY DEF ResultsProduced, PlansArePublished, ReportedDeployCommitted
<1>6. QED
  BY <1>2, <1>3, <1>4, <1>5 DEF IInv

-----------------------------------------------------------------------------
\* A request that begins to hold a permit and one that ceases to: the set of
\* holders and its size.
LEMMA HoldersGrow ==
  ASSUME TypeOK, PermitInv, NEW r \in Request, NEW label,
         pc[r] \in {"idle", "over"}, label \notin {"idle", "over"},
         Goto(r, label), permits' = permits - 1
  PROVE  PermitInv' /\ Holders' = Holders \cup {r}
<1>1. Holders' = Holders \cup {r} /\ r \notin Holders
  BY DEF Holders, Goto, TypeOK
<1>2. /\ IsFiniteSet(Holders \cup {r})
      /\ Cardinality(Holders \cup {r}) = Cardinality(Holders) + 1
  BY <1>1, FS_AddElement DEF PermitInv
<1>3. Cardinality(Holders) \in Nat
  BY FS_CardinalityType DEF PermitInv
<1>4. QED
  BY <1>1, <1>2, <1>3, SizeAssumption DEF PermitInv, PermitsConserved, TypeOK

\* A request that ends and gives its permit back keeps the count of permits.
LEMMA HoldersShrink ==
  ASSUME TypeOK, PermitInv, NEW r \in Request,
         pc[r] \notin {"idle", "over"},
         Goto(r, "over"), permits' = permits + 1
  PROVE  PermitInv' /\ Holders' = Holders \ {r} /\ permits' \in 0 .. MaxJobs
<1>1. Holders' = Holders \ {r} /\ r \in Holders
  BY DEF Holders, Goto, TypeOK
<1>2. /\ IsFiniteSet(Holders \ {r})
      /\ Cardinality(Holders \ {r}) = Cardinality(Holders) - 1
  BY <1>1, FS_RemoveElement DEF PermitInv
<1>3. Cardinality(Holders) \in Nat /\ Cardinality(Holders) > 0
  BY <1>1, FS_CardinalityType, FS_EmptySet DEF PermitInv
<1>4. QED
  BY <1>1, <1>2, <1>3, SizeAssumption DEF PermitInv, PermitsConserved, TypeOK

\* A step of a request at work that keeps it at work.
LEMMA HoldersStay ==
  ASSUME TypeOK, PermitInv, NEW r \in Request, NEW label,
         pc[r] \notin {"idle", "over"}, label \notin {"idle", "over"},
         Goto(r, label), permits' = permits
  PROVE  PermitInv' /\ Holders' = Holders
<1>1. Holders' = Holders
  BY DEF Holders, Goto, TypeOK
<1>2. QED
  BY <1>1 DEF PermitInv, PermitsConserved

-----------------------------------------------------------------------------
\* The types of a job's record through the writes of a task.
LEMMA RecordTypes ==
  ASSUME NEW job \in JobRecord, NEW k \in Kinds, NEW r \in Request
  PROVE  Cleared(job, k) \in JobRecord /\ Published(job, k, r) \in JobRecord
<1> 0 \in 0 .. Steps /\ Steps \in 0 .. Steps
  BY SizeAssumption
<1> None \in Result /\ r \in Result
  BY DEF Result
<1>1. Cleared(job, k) \in JobRecord
  BY DEF Cleared, JobRecord
<1>2. Published(job, k, r) \in JobRecord
  BY DEF Published, JobRecord
<1>3. QED
  BY <1>1, <1>2

\* The record a new job starts with has the type of the map's records.
LEMMA NewJobType == NewJob \in JobRecord
BY SizeAssumption DEF NewJob, JobRecord, Kinds, Result

\* A request at work has a handler and a job of the map's type; once past its
\* handler, that job is in the map.
LEMMA AtWork ==
  ASSUME TypeOK, TasksHaveJobs, NEW r \in Request, pc[r] \notin {"idle", "over"}
  PROVE  /\ r \in Holders /\ kind[r] \in Kinds /\ on[r] \in Job
         /\ pc[r] # "handler" => jobs[on[r]] \in JobRecord
BY DEF TypeOK, TasksHaveJobs, Holders

\* Every step keeps the types.
LEMMA TypeStep == IInv /\ [Next]_vars => TypeOK'
<1> SUFFICES ASSUME IInv, [Next]_vars PROVE TypeOK'
  OBVIOUS
<1> TypeOK /\ PermitInv /\ TasksHaveJobs
  BY DEF IInv
<1> USE SizeAssumption DEF Goto
<1>1. ASSUME NEW r \in Request, NEW k \in Kinds, NEW j \in Job, Acquire(r, k, j)
      PROVE  TypeOK'
  BY <1>1 DEF Acquire, TypeOK, asked
<1>2. ASSUME NEW r \in Request, TooManyRequests(r) PROVE TypeOK'
  BY <1>2 DEF TooManyRequests, TypeOK, asked
<1>3. ASSUME NEW r \in Request, Reject(r) PROVE TypeOK'
  <2>1. permits' \in 0 .. MaxJobs
    BY <1>3, HoldersShrink DEF Reject
  <2>2. QED
    BY <1>3, <2>1 DEF Reject, TypeOK, asked
<1>4. ASSUME NEW r \in Request, Spawn(r) PROVE TypeOK'
  <2>1. on[r] \in Job /\ kind[r] \in Kinds
    BY <1>4, AtWork DEF Spawn
  <2>2. CanStart(r) /\ kind[r] # "compare" => Needed(r) \in Result
    BY <2>1 DEF CanStart, Needed, TypeOK, JobRecord
  <2>3. jobs' \in [Job -> JobRecord \cup {NoJob}]
    BY <1>4, <2>1, NewJobType DEF Spawn, TypeOK
  <2>4. plan' \in [Request -> Result]
    BY <1>4, <2>2 DEF Spawn, TypeOK
  <2>5. QED
    BY <1>4, <2>3, <2>4 DEF Spawn, TypeOK, asked
<1>5. ASSUME NEW r \in Request, Begin(r) PROVE TypeOK'
  <2>1. Cleared(jobs[on[r]], kind[r]) \in JobRecord /\ on[r] \in Job
    BY <1>5, AtWork, RecordTypes DEF Begin
  <2>2. jobs' \in [Job -> JobRecord \cup {NoJob}]
    BY <1>5, <2>1 DEF Begin, TypeOK
  <2>3. QED
    BY <1>5, <2>2 DEF Begin, TypeOK, asked
<1>6. ASSUME NEW r \in Request, ExecuteStatement(r) PROVE TypeOK'
  <2>1. on[r] \in Job /\ executed[r] + 1 \in 0 .. Steps
    BY <1>6, AtWork DEF ExecuteStatement, TypeOK
  <2>2. ticks' \in SUBSET Tick
    BY <1>6, <2>1 DEF ExecuteStatement, TypeOK, Tick
  <2>3. QED
    BY <1>6, <2>1, <2>2 DEF ExecuteStatement, TypeOK, asked
<1>7. ASSUME NEW r \in Request, Commit(r) PROVE TypeOK'
  BY <1>7 DEF Commit, TypeOK, asked
<1>8. ASSUME NEW r \in Request, Succeed(r) PROVE TypeOK'
  <2>1. Published(jobs[on[r]], kind[r], r) \in JobRecord /\ on[r] \in Job
    BY <1>8, AtWork, RecordTypes DEF Succeed
  <2>2. jobs' \in [Job -> JobRecord \cup {NoJob}]
    BY <1>8, <2>1 DEF Succeed, TypeOK
  <2>3. QED
    BY <1>8, <2>2 DEF Succeed, TypeOK, asked
<1>9. ASSUME NEW r \in Request, FailTask(r) PROVE TypeOK'
  <2>1. jobs[on[r]] \in JobRecord /\ on[r] \in Job
    BY <1>9, AtWork DEF FailTask
  <2>2. [jobs[on[r]] EXCEPT !.status = "error", !.failed = TRUE] \in JobRecord
    BY <2>1 DEF JobRecord
  <2>3. jobs' \in [Job -> JobRecord \cup {NoJob}]
    BY <1>9, <2>1, <2>2 DEF FailTask, TypeOK
  <2>4. QED
    BY <1>9, <2>3 DEF FailTask, TypeOK, asked
<1>10. ASSUME NEW r \in Request, Release(r) PROVE TypeOK'
  <2>1. permits' \in 0 .. MaxJobs
    BY <1>10, HoldersShrink DEF Release
  <2>2. QED
    BY <1>10, <2>1 DEF Release, TypeOK, asked
<1>11. ASSUME NEW t \in ticks, WriteProgress(t) PROVE TypeOK'
  <2>1. t \in Tick /\ jobs[t.job] \in JobRecord
    BY DEF TasksHaveJobs, TypeOK, Tick
  <2>2. t.current \in 0 .. Steps /\ Steps \in 0 .. Steps
    BY <2>1 DEF Tick
  <2>3. [jobs[t.job] EXCEPT !.current = t.current, !.total = Steps] \in JobRecord
    BY <2>1, <2>2 DEF JobRecord
  <2>4. jobs' \in [Job -> JobRecord \cup {NoJob}]
    BY <1>11, <2>1, <2>3 DEF WriteProgress, TypeOK, Tick
  <2>5. QED
    BY <1>11, <2>4 DEF WriteProgress, TypeOK, asked
<1>12. CASE UNCHANGED vars
  BY <1>12 DEF vars, asked, TypeOK
<1>13. QED
  BY <1>1, <1>2, <1>3, <1>4, <1>5, <1>6, <1>7, <1>8, <1>9, <1>10, <1>11, <1>12
  DEF Next, Handler, Task

-----------------------------------------------------------------------------
\* Every step keeps the permits and the requests at work in balance.
LEMMA PermitStep == IInv /\ [Next]_vars => PermitInv'
<1> SUFFICES ASSUME IInv, [Next]_vars PROVE PermitInv'
  OBVIOUS
<1> TypeOK /\ PermitInv
  BY DEF IInv
<1>1. ASSUME NEW r \in Request, NEW k \in Kinds, NEW j \in Job, Acquire(r, k, j)
      PROVE  PermitInv'
  BY <1>1, HoldersGrow DEF Acquire, Arrives
<1>2. ASSUME NEW r \in Request, TooManyRequests(r) PROVE PermitInv'
  <2>1. Holders' = Holders
    BY <1>2 DEF TooManyRequests, Arrives, Holders, Goto, TypeOK
  <2>2. QED
    BY <1>2, <2>1 DEF TooManyRequests, PermitInv, PermitsConserved
<1>3. ASSUME NEW r \in Request, Reject(r) \/ Release(r) PROVE PermitInv'
  BY <1>3, HoldersShrink DEF Reject, Release
<1>4. ASSUME NEW r \in Request,
             Spawn(r) \/ Begin(r) \/ Commit(r) \/ Succeed(r) \/ FailTask(r)
      PROVE  PermitInv'
  <2>1. PICK label \in {"spawned", "running", "committed", "ending"} :
          Goto(r, label)
    BY <1>4 DEF Spawn, Begin, Commit, Succeed, FailTask
  <2>2. pc[r] \notin {"idle", "over"} /\ permits' = permits
    BY <1>4 DEF Spawn, Begin, Commit, Succeed, FailTask
  <2>3. QED
    BY <2>1, <2>2, HoldersStay
<1>5. ASSUME UNCHANGED <<pc, permits>> PROVE PermitInv'
  BY <1>5 DEF PermitInv, PermitsConserved, Holders
<1>6. QED
  BY <1>1, <1>2, <1>3, <1>4, <1>5
  DEF Next, Handler, Task, ExecuteStatement, WriteProgress, vars

-----------------------------------------------------------------------------
\* What a write of a task leaves of a job: it stays in the map, and a result
\* other than the task's own is the one that was there or none.
LEMMA Writes ==
  ASSUME TypeOK, TasksHaveJobs, NEW r \in Request, pc[r] \notin {"idle", "over"},
         Begin(r) \/ Succeed(r) \/ FailTask(r), NEW j \in Job
  PROVE  /\ (jobs'[j] = NoJob) = (jobs[j] = NoJob)
         /\ jobs[j] # NoJob =>
              /\ jobs'[j].compare \in {None, jobs[j].compare}
                   \/ (Succeed(r) /\ kind[r] = "compare" /\ j = on[r]
                         /\ jobs'[j].compare = r)
              /\ jobs'[j].preview \in {None, jobs[j].preview}
                   \/ (Succeed(r) /\ kind[r] = "preview" /\ j = on[r]
                         /\ jobs'[j].preview = r)
              /\ jobs'[j].deploy \in {None, jobs[j].deploy}
                   \/ (Succeed(r) /\ kind[r] = "deploy" /\ j = on[r]
                         /\ jobs'[j].deploy = r)
<1>1. /\ on[r] \in Job /\ kind[r] \in Kinds
      /\ jobs[on[r]] \in JobRecord
  BY AtWork DEF Begin, Succeed, FailTask
<1>2. jobs \in [Job -> JobRecord \cup {NoJob}]
  BY DEF TypeOK
<1>3. CASE Begin(r)
  <2>1. jobs' = [jobs EXCEPT ![on[r]] = Cleared(jobs[on[r]], kind[r])]
    BY <1>3 DEF Begin
  <2>2. Cleared(jobs[on[r]], kind[r]) # NoJob
    BY <1>1, RecordTypes, JobAssumption
  <2>3. QED
    BY <1>1, <1>2, <2>1, <2>2, JobAssumption DEF Cleared, JobRecord
<1>4. CASE Succeed(r)
  <2>1. jobs' = [jobs EXCEPT ![on[r]] = Published(jobs[on[r]], kind[r], r)]
    BY <1>4 DEF Succeed
  <2>2. Published(jobs[on[r]], kind[r], r) # NoJob
    BY <1>1, RecordTypes, JobAssumption
  <2>3. QED
    BY <1>1, <1>2, <1>4, <2>1, <2>2, JobAssumption DEF Published, JobRecord
<1>5. CASE FailTask(r)
  <2> DEFINE failed == [jobs[on[r]] EXCEPT !.status = "error", !.failed = TRUE]
  <2>1. jobs' = [jobs EXCEPT ![on[r]] = failed]
    BY <1>1, <1>2, <1>5 DEF FailTask
  <2>2. failed \in JobRecord
    BY <1>1 DEF JobRecord
  <2>3. failed # NoJob
    BY <2>2, JobAssumption
  <2>4. QED
    BY <1>1, <1>2, <2>1, <2>3, JobAssumption DEF JobRecord
<1>6. QED
  BY <1>3, <1>4, <1>5

\* WriteProgress touches the counters only.
LEMMA ProgressWrites ==
  ASSUME TypeOK, TasksHaveJobs, NEW t \in ticks, WriteProgress(t), NEW j \in Job
  PROVE  /\ (jobs'[j] = NoJob) = (jobs[j] = NoJob)
         /\ jobs[j] # NoJob => /\ jobs'[j].compare = jobs[j].compare
                               /\ jobs'[j].preview = jobs[j].preview
                               /\ jobs'[j].deploy = jobs[j].deploy
<1> DEFINE told == [jobs[t.job] EXCEPT !.current = t.current, !.total = Steps]
<1>1. t \in Tick /\ t.job \in Job /\ jobs[t.job] \in JobRecord
  BY DEF TasksHaveJobs, TypeOK, Tick
<1>2. t.current \in 0 .. Steps /\ Steps \in 0 .. Steps
  BY <1>1, SizeAssumption DEF Tick
<1>3. told \in JobRecord
  BY <1>1, <1>2 DEF JobRecord
<1>4. told # NoJob
  BY <1>3, JobAssumption
<1>5. jobs' = [jobs EXCEPT ![t.job] = told]
  BY <1>1 DEF WriteProgress, TypeOK
<1>6. QED
  BY <1>1, <1>4, <1>5, JobAssumption DEF TypeOK, JobRecord

\* The jobs a new compare does not create stay as they are.
LEMMA SpawnWrites ==
  ASSUME TypeOK, TasksHaveJobs, NEW r \in Request, Spawn(r)
  PROVE  /\ on[r] \in Job
         /\ jobs'[on[r]] # NoJob
         /\ \A j \in Job : jobs'[j] = jobs[j] \/ jobs'[j] = NewJob
<1>1. on[r] \in Job /\ kind[r] \in Kinds
  BY AtWork DEF Spawn
<1>2. NewJob # NoJob
  BY NewJobType, JobAssumption
<1>3. QED
  BY <1>1, <1>2 DEF Spawn, CanStart, TypeOK

-----------------------------------------------------------------------------
\* Every step keeps the jobs of the requests at work.
LEMMA TasksStep == IInv /\ [Next]_vars => TasksHaveJobs'
<1> SUFFICES ASSUME IInv, [Next]_vars PROVE TasksHaveJobs'
  OBVIOUS
<1> TypeOK /\ PermitInv /\ TasksHaveJobs
  BY DEF IInv
<1> USE DEF Goto
<1>1. ASSUME NEW r \in Request, NEW k \in Kinds, NEW j \in Job, Acquire(r, k, j)
      PROVE  TasksHaveJobs'
  BY <1>1 DEF Acquire, Arrives, Holders, TasksHaveJobs, TypeOK
<1>2. ASSUME NEW r \in Request, TooManyRequests(r) \/ Reject(r) \/ Release(r)
      PROVE  TasksHaveJobs'
  BY <1>2 DEF TooManyRequests, Arrives, Reject, Release, Holders, TasksHaveJobs,
              TypeOK, asked
<1>3. ASSUME NEW r \in Request, Spawn(r) PROVE TasksHaveJobs'
  <2>1. on[r] \in Job /\ jobs'[on[r]] # NoJob
    BY <1>3, SpawnWrites
  <2>2. \A j \in Job : jobs[j] # NoJob => jobs'[j] # NoJob
    BY <1>3, <2>1 DEF Spawn, TypeOK
  <2>3. \A t \in ticks : t.job \in Job
    BY DEF TypeOK, Tick
  <2>4. QED
    BY <1>3, <2>1, <2>2, <2>3 DEF Spawn, Holders, TasksHaveJobs, TypeOK, asked
<1>4. ASSUME NEW r \in Request, Begin(r) \/ Succeed(r) \/ FailTask(r)
      PROVE  TasksHaveJobs'
  <2>1. pc[r] \in {"spawned", "running", "committed"}
    BY <1>4 DEF Begin, Succeed, FailTask
  <2>2. \A j \in Job : jobs[j] # NoJob => jobs'[j] # NoJob
    BY <1>4, <2>1, Writes
  <2>3. \A t \in ticks : t.job \in Job
    BY DEF TypeOK, Tick
  <2>4. PICK label \in {"running", "ending"} : Goto(r, label)
    BY <1>4 DEF Begin, Succeed, FailTask
  <2>5. Holders' = Holders
    BY <2>1, <2>4 DEF Holders, TypeOK
  <2>6. UNCHANGED <<kind, on, ticks, committed>>
    BY <1>4 DEF Begin, Succeed, FailTask, asked
  <2>7. \A q \in Request : outcome'[q] # "none" => pc'[q] \in {"ending", "over"}
    BY <1>4, <2>4 DEF Begin, Succeed, FailTask, TasksHaveJobs, TypeOK
  <2>8. \A q \in Request : pc'[q] = "committed" => q \in committed'
    BY <2>4, <2>6 DEF TasksHaveJobs, TypeOK
  <2>9. \A q \in Holders' : /\ kind'[q] \in Kinds /\ on'[q] \in Job
                            /\ pc'[q] # "handler" => jobs'[on'[q]] # NoJob
    BY <2>1, <2>2, <2>4, <2>5, <2>6 DEF TasksHaveJobs, TypeOK, Holders
  <2>10. \A t \in ticks' : jobs'[t.job] # NoJob
    BY <2>2, <2>3, <2>6 DEF TasksHaveJobs
  <2>11. \A q \in Request : pc'[q] \in {"idle", "handler"} => plan'[q] = None
    BY <1>4, <2>4 DEF Begin, Succeed, FailTask, TasksHaveJobs, TypeOK
  <2>12. QED
    BY <2>7, <2>8, <2>9, <2>10, <2>11 DEF TasksHaveJobs
<1>5. ASSUME NEW r \in Request, ExecuteStatement(r) PROVE TasksHaveJobs'
  <2>1. r \in Holders /\ jobs[on[r]] # NoJob
    BY <1>5 DEF ExecuteStatement, TasksHaveJobs, Holders
  <2>2. QED
    BY <1>5, <2>1 DEF ExecuteStatement, TasksHaveJobs, Holders, asked
<1>6. ASSUME NEW r \in Request, Commit(r) PROVE TasksHaveJobs'
  BY <1>6 DEF Commit, TasksHaveJobs, Holders, TypeOK, asked
<1>7. ASSUME NEW t \in ticks, WriteProgress(t) PROVE TasksHaveJobs'
  <2>1. \A j \in Job : jobs[j] # NoJob => jobs'[j] # NoJob
    BY <1>7, ProgressWrites
  <2>2. \A u \in ticks' : u \in ticks /\ u.job \in Job
    BY <1>7 DEF WriteProgress, TypeOK, Tick
  <2>3. QED
    BY <1>7, <2>1, <2>2 DEF WriteProgress, TasksHaveJobs, Holders, TypeOK, asked
<1>8. CASE UNCHANGED vars
  BY <1>8 DEF vars, asked, TasksHaveJobs, Holders
<1>9. QED
  BY <1>1, <1>2, <1>3, <1>4, <1>5, <1>6, <1>7, <1>8 DEF Next, Handler, Task

-----------------------------------------------------------------------------
\* Produced, in the state after a step.
Kept(q, k, j) == on'[q] = j /\ kind'[q] = k /\ outcome'[q] = "ok"

\* A request that succeeded is never asked again nor its outcome rewritten.
LEMMA ProducedStays ==
  ASSUME IInv, [Next]_vars, NEW q \in Request, NEW k, NEW j, Produced(q, k, j)
  PROVE  Kept(q, k, j)
<1>1. TypeOK /\ pc[q] \in {"ending", "over"}
  BY DEF IInv, TasksHaveJobs, Produced
<1>2. kind'[q] = kind[q] /\ on'[q] = on[q]
  BY <1>1 DEF Next, Acquire, Arrives, TooManyRequests, Handler, Reject, Spawn,
              Task, Begin, ExecuteStatement, Commit, Succeed, FailTask, Release,
              WriteProgress, TypeOK, asked, vars
<1>3. outcome'[q] = outcome[q]
  BY <1>1 DEF Next, Acquire, TooManyRequests, Handler, Reject, Spawn, Task, Begin,
              ExecuteStatement, Commit, Succeed, FailTask, Release,
              WriteProgress, TypeOK, vars
<1>4. QED
  BY <1>2, <1>3 DEF Produced, Kept

\* A task that succeeds has produced what it publishes.
LEMMA SuccessProduces ==
  ASSUME TypeOK, NEW r \in Request, Succeed(r)
  PROVE  /\ Kept(r, kind[r], on[r])
         /\ kind'[r] = kind[r] /\ on'[r] = on[r]
BY DEF Succeed, Kept, TypeOK, asked

\* Every step keeps the results of the jobs produced for them.
LEMMA ResultsStep == IInv /\ [Next]_vars => ResultsProduced'
<1> SUFFICES ASSUME IInv, [Next]_vars, NEW j \in Job, jobs'[j] # NoJob
             PROVE  /\ jobs'[j].compare # None
                         => Kept(jobs'[j].compare, "compare", j)
                    /\ jobs'[j].preview # None
                         => Kept(jobs'[j].preview, "preview", j)
                    /\ jobs'[j].deploy # None
                         => Kept(jobs'[j].deploy, "deploy", j)
  BY DEF ResultsProduced, Produced, Kept
<1> TypeOK /\ TasksHaveJobs /\ ResultsProduced
  BY DEF IInv
<1>1. \A q, k : q \in Request /\ Produced(q, k, j) => Kept(q, k, j)
  BY ProducedStays
<1>2. jobs[j] # NoJob => /\ jobs[j].compare \in Result
                         /\ jobs[j].preview \in Result
                         /\ jobs[j].deploy \in Result
  BY DEF TypeOK, JobRecord
<1>3. jobs[j] # NoJob =>
        /\ jobs[j].compare # None => Kept(jobs[j].compare, "compare", j)
        /\ jobs[j].preview # None => Kept(jobs[j].preview, "preview", j)
        /\ jobs[j].deploy # None => Kept(jobs[j].deploy, "deploy", j)
  BY <1>1, <1>2 DEF ResultsProduced, Result
<1>4. ASSUME NEW r \in Request, Spawn(r)
      PROVE  jobs'[j] = jobs[j] \/ jobs'[j] = NewJob
  BY <1>4, SpawnWrites
<1>5. ASSUME NEW r \in Request, Begin(r) \/ Succeed(r) \/ FailTask(r)
      PROVE  /\ jobs'[j].compare # None
                  => Kept(jobs'[j].compare, "compare", j)
             /\ jobs'[j].preview # None
                  => Kept(jobs'[j].preview, "preview", j)
             /\ jobs'[j].deploy # None
                  => Kept(jobs'[j].deploy, "deploy", j)
  <2>1. pc[r] \notin {"idle", "over"}
    BY <1>5 DEF Begin, Succeed, FailTask
  <2>2. Succeed(r) => Kept(r, kind[r], on[r])
    BY SuccessProduces
  <2>3. QED
    BY <1>3, <1>5, <2>1, <2>2, Writes
<1>6. ASSUME NEW t \in ticks, WriteProgress(t)
      PROVE  /\ jobs[j] # NoJob
             /\ jobs'[j].compare = jobs[j].compare
             /\ jobs'[j].preview = jobs[j].preview
             /\ jobs'[j].deploy = jobs[j].deploy
  BY <1>6, ProgressWrites
<1>7. CASE jobs'[j] = jobs[j]
  BY <1>3, <1>7
<1>8. CASE jobs'[j] = NewJob
  BY <1>8 DEF NewJob
<1>9. QED
  BY <1>3, <1>4, <1>5, <1>6, <1>7, <1>8
  DEF Next, Acquire, TooManyRequests, Handler, Reject, Task, ExecuteStatement,
      Commit, Release, vars

\* Every step keeps the plans published results.
LEMMA PlansStep == IInv /\ [Next]_vars => PlansArePublished'
<1> DEFINE Stage(k) == IF k = "deploy" THEN "preview" ELSE "compare"
<1> SUFFICES ASSUME IInv, [Next]_vars, NEW r \in Request, plan'[r] # None
             PROVE  Kept(plan'[r], Stage(kind'[r]), on'[r])
  BY DEF PlansArePublished, Produced, Kept
<1> TypeOK /\ TasksHaveJobs /\ ResultsProduced /\ PlansArePublished
  BY DEF IInv
<1>1. ASSUME plan'[r] = plan[r], kind'[r] = kind[r], on'[r] = on[r]
      PROVE  Kept(plan'[r], Stage(kind'[r]), on'[r])
  <2>1. plan[r] \in Request /\ Produced(plan[r], Stage(kind[r]), on[r])
    BY <1>1 DEF PlansArePublished, TypeOK, Result
  <2>2. Kept(plan[r], Stage(kind[r]), on[r])
    BY <2>1, ProducedStays
  <2>3. QED
    BY <1>1, <2>2
<1>2. ASSUME NEW k \in Kinds, NEW j \in Job, Acquire(r, k, j) PROVE FALSE
  BY <1>2 DEF Acquire, Arrives, TasksHaveJobs, TypeOK
<1>3. CASE Spawn(r)
  <2>1. on[r] \in Job /\ kind[r] \in Kinds
    BY <1>3, AtWork DEF Spawn
  <2>2. kind[r] # "compare" /\ plan'[r] = Needed(r) /\ jobs[on[r]] # NoJob
    BY <1>3 DEF Spawn, CanStart, TasksHaveJobs, TypeOK
  <2>3. Needed(r) \in Request /\ Produced(Needed(r), Stage(kind[r]), on[r])
    BY <2>1, <2>2 DEF Needed, ResultsProduced, TypeOK, JobRecord, Result, Kinds
  <2>4. Kept(Needed(r), Stage(kind[r]), on[r])
    BY <2>3, ProducedStays
  <2>5. QED
    BY <1>3, <2>2, <2>4 DEF Spawn, asked
<1>4. QED
  BY <1>1, <1>2, <1>3
  DEF Next, Acquire, TooManyRequests, Handler, Reject, Spawn, Task, Begin,
      ExecuteStatement, Commit, Succeed, FailTask, Release, WriteProgress,
      TypeOK, asked, vars

\* Every step keeps the reported deploys committed.
LEMMA ReportStep == IInv /\ [Next]_vars => ReportedDeployCommitted'
<1> SUFFICES ASSUME IInv, [Next]_vars, NEW j \in Job,
                    jobs'[j] # NoJob, jobs'[j].deploy # None
             PROVE  jobs'[j].deploy \in committed'
  BY DEF ReportedDeployCommitted
<1> TypeOK /\ TasksHaveJobs /\ ReportedDeployCommitted
  BY DEF IInv
<1>1. committed \subseteq committed'
  BY DEF Next, Acquire, TooManyRequests, Handler, Reject, Spawn, Task, Begin,
         ExecuteStatement, Commit, Succeed, FailTask, Release, WriteProgress, vars
<1>2. jobs[j] # NoJob /\ jobs[j].deploy # None => jobs[j].deploy \in committed'
  BY <1>1 DEF ReportedDeployCommitted
<1>3. ASSUME NEW r \in Request, Spawn(r)
      PROVE  jobs'[j] = jobs[j]
  BY <1>3, SpawnWrites DEF NewJob
<1>4. ASSUME NEW r \in Request, Begin(r) \/ Succeed(r) \/ FailTask(r)
      PROVE  jobs'[j].deploy \in committed'
  <2>1. pc[r] \notin {"idle", "over"}
    BY <1>4 DEF Begin, Succeed, FailTask
  <2>2. Succeed(r) /\ kind[r] = "deploy" => r \in committed'
    BY <1>1 DEF Succeed, TasksHaveJobs
  <2>3. QED
    BY <1>2, <1>4, <2>1, <2>2, Writes
<1>5. ASSUME NEW t \in ticks, WriteProgress(t)
      PROVE  jobs[j] # NoJob /\ jobs'[j].deploy = jobs[j].deploy
  BY <1>5, ProgressWrites
<1>6. CASE jobs'[j] = jobs[j]
  BY <1>2, <1>6
<1>7. QED
  BY <1>2, <1>3, <1>4, <1>5, <1>6
  DEF Next, Acquire, TooManyRequests, Handler, Reject, Task, ExecuteStatement,
      Commit, Release, vars

-----------------------------------------------------------------------------
\* The inductive invariant holds in every reachable state.
THEOREM Invariance == Spec => []IInv
<1>1. IInv /\ [Next]_vars => IInv'
  BY TypeStep, PermitStep, TasksStep, ResultsStep, PlansStep, ReportStep DEF IInv
<1>2. QED
  BY InitInv, <1>1, PTL DEF Spec

\* Every variable keeps its type; a permit is never given back twice.
THEOREM TypeCorrect == Spec => []TypeOK
BY Invariance, PTL DEF IInv

\* No early return, success or failure loses or mints a permit.
THEOREM PermitsAreConserved == Spec => []PermitsConserved
BY Invariance, PTL DEF IInv, PermitInv

\* What a preview compares or a deploy executes was published for its job by
\* a task of the right kind, however the tasks of the job overlap.
THEOREM PlansPublished == Spec => []PlansArePublished
BY Invariance, PTL DEF IInv

\* A deploy that a job reports has taken effect.
THEOREM ReportsCommitted == Spec => []ReportedDeployCommitted
BY Invariance, PTL DEF IInv

-----------------------------------------------------------------------------
\* The semaphore implements the pool: a request is admitted only while fewer
\* than MaxJobs work, and turned away only while MaxJobs do.
THEOREM PoolRefinement == Spec => PoolPromise
<1> DEFINE Over == {r \in Request : pc[r] = "over"}
<1>1. Init => Pool!Init
  BY DEF Init, Pool!Init, Holders
<1>2. IInv /\ [Next]_vars => [Pool!Next]_Pool!pool
  <2> SUFFICES ASSUME IInv, [Next]_vars PROVE [Pool!Next]_Pool!pool
    OBVIOUS
  <2> TypeOK /\ PermitInv
    BY DEF IInv
  <2> permits + Cardinality(Holders) = MaxJobs /\ Cardinality(Holders) \in Nat
    BY FS_CardinalityType DEF PermitInv, PermitsConserved
  <2> permits \in Nat /\ MaxJobs \in Nat
    BY SizeAssumption DEF TypeOK
  <2> Pool!Cardinality(Holders) = Cardinality(Holders)
    BY DEF Pool!Cardinality, Cardinality, Pool!IsFiniteSet, IsFiniteSet
  <2>1. ASSUME NEW r \in Request, NEW k \in Kinds, NEW j \in Job,
               Acquire(r, k, j)
        PROVE  Pool!Admit(r)
    <3>1. Holders' = Holders \cup {r}
      BY <2>1, HoldersGrow DEF Acquire, Arrives
    <3>2. r \notin Holders \cup Over /\ Over' = Over
      BY <2>1 DEF Acquire, Arrives, Holders, Goto, TypeOK
    <3>3. Cardinality(Holders) < MaxJobs
      BY <2>1 DEF Acquire
    <3>4. QED
      BY <3>1, <3>2, <3>3 DEF Pool!Admit
  <2>2. ASSUME NEW r \in Request, TooManyRequests(r) PROVE Pool!TurnAway(r)
    <3>1. Holders' = Holders /\ r \notin Holders \cup Over /\ Over' = Over \cup {r}
      BY <2>2 DEF TooManyRequests, Arrives, Holders, Goto, TypeOK
    <3>2. Cardinality(Holders) = MaxJobs
      BY <2>2 DEF TooManyRequests
    <3>3. QED
      BY <3>1, <3>2 DEF Pool!TurnAway
  <2>3. ASSUME NEW r \in Request, Reject(r) \/ Release(r) PROVE Pool!Leave(r)
    <3>1. pc[r] \notin {"idle", "over"} /\ Goto(r, "over")
      BY <2>3 DEF Reject, Release
    <3>2. r \in Holders /\ Holders' = Holders \ {r} /\ Over' = Over \cup {r}
      BY <3>1 DEF Holders, Goto, TypeOK
    <3>3. QED
      BY <3>2 DEF Pool!Leave
  <2>4. ASSUME NEW r \in Request,
               Spawn(r) \/ Begin(r) \/ Commit(r) \/ Succeed(r) \/ FailTask(r)
        PROVE  UNCHANGED Pool!pool
    <3>1. PICK label \in {"spawned", "running", "committed", "ending"} :
            Goto(r, label)
      BY <2>4 DEF Spawn, Begin, Commit, Succeed, FailTask
    <3>2. pc[r] \notin {"idle", "over"}
      BY <2>4 DEF Spawn, Begin, Commit, Succeed, FailTask
    <3>3. Holders' = Holders /\ Over' = Over
      BY <3>1, <3>2 DEF Holders, Goto, TypeOK
    <3>4. QED
      BY <3>3 DEF Pool!pool
  <2>5. ASSUME UNCHANGED pc PROVE UNCHANGED Pool!pool
    BY <2>5 DEF Pool!pool, Holders
  <2>6. QED
    BY <2>1, <2>2, <2>3, <2>4, <2>5
    DEF Next, Handler, Task, ExecuteStatement, WriteProgress, vars, Pool!Next
<1>3. QED
  BY <1>1, <1>2, Invariance, PTL DEF Spec, PoolPromise, Pool!Spec

-----------------------------------------------------------------------------
\* Every step keeps a job's compare alone on it.
LEMMA AloneStep == IInv /\ CompareAlone /\ [Next]_vars => CompareAlone'
<1> SUFFICES ASSUME IInv, CompareAlone, [Next]_vars PROVE CompareAlone'
  OBVIOUS
<1> TypeOK /\ PermitInv /\ TasksHaveJobs
  BY DEF IInv
<1> USE DEF Goto
<1>1. ASSUME NEW r \in Request, NEW k \in Kinds, NEW j \in Job, Acquire(r, k, j)
      PROVE  CompareAlone'
  <2>1. Holders' = Holders \cup {r} /\ r \notin Holders
    BY <1>1 DEF Acquire, Arrives, Holders, TypeOK
  <2>2. /\ kind'[r] = k /\ on'[r] = j /\ pc'[r] = "handler" /\ jobs' = jobs
        /\ \A q \in Holders :
             kind'[q] = kind[q] /\ on'[q] = on[q] /\ pc'[q] = pc[q]
    BY <1>1, <2>1 DEF Acquire, Holders, TypeOK
  <2>3. k = "compare" => jobs[j] = NoJob /\ \A q \in Holders : on[q] # j
    BY <1>1 DEF Acquire
  <2>4. QED
    BY <2>1, <2>2, <2>3 DEF CompareAlone
<1>2. ASSUME NEW r \in Request, TooManyRequests(r) \/ Reject(r) \/ Release(r)
      PROVE  CompareAlone'
  <2>1. \A q \in Holders' : q \in Holders /\ pc'[q] = pc[q]
    BY <1>2 DEF TooManyRequests, Reject, Release, Arrives, Holders, TypeOK
  <2>2. UNCHANGED <<jobs, kind, on>>
    BY <1>2 DEF TooManyRequests, Reject, Release, asked
  <2>3. QED
    BY <2>1, <2>2 DEF CompareAlone
<1>3. ASSUME NEW r \in Request, Spawn(r) PROVE CompareAlone'
  <2>1. r \in Holders /\ on[r] \in Job /\ Holders' = Holders
    BY <1>3, AtWork DEF Spawn, Holders, TypeOK
  <2>2. UNCHANGED <<kind, on>> /\ pc' = [pc EXCEPT ![r] = "spawned"]
    BY <1>3 DEF Spawn, asked
  <2>3. kind[r] # "compare" => jobs' = jobs
    BY <1>3 DEF Spawn
  <2>4. kind[r] = "compare" =>
          jobs' = [jobs EXCEPT ![on[r]] = NewJob] /\ NewJob.compare = None
    BY <1>3 DEF Spawn, NewJob
  <2>5. CASE kind[r] # "compare"
    BY <2>1, <2>2, <2>3, <2>5 DEF CompareAlone, TypeOK, Holders
  <2>6. CASE kind[r] = "compare"
    <3>1. \A q \in Holders : q # r /\ kind[q] = "compare"
                               => jobs'[on[q]] = jobs[on[q]]
      BY <2>1, <2>4, <2>6 DEF CompareAlone, TasksHaveJobs, TypeOK
    <3>2. jobs'[on[r]].compare = None
      BY <2>1, <2>4, <2>6 DEF TypeOK
    <3>3. QED
      BY <2>1, <2>2, <2>6, <3>1, <3>2 DEF CompareAlone, TypeOK, Holders
  <2>7. QED
    BY <2>5, <2>6
<1>4. ASSUME NEW r \in Request, Begin(r) \/ Succeed(r) \/ FailTask(r)
      PROVE  CompareAlone'
  <2>1. r \in Holders /\ pc[r] \in {"spawned", "running", "committed"}
    BY <1>4 DEF Begin, Succeed, FailTask, Holders
  <2>2. PICK label \in {"running", "ending"} :
          pc' = [pc EXCEPT ![r] = label] /\ (Succeed(r) => label = "ending")
    BY <1>4 DEF Begin, Succeed, FailTask
  <2>3. UNCHANGED <<kind, on>> /\ Holders' = Holders
    BY <1>4, <2>1, <2>2 DEF Begin, Succeed, FailTask, asked, Holders, TypeOK
  <2>4. ASSUME NEW q \in Holders, kind[q] = "compare"
        PROVE  /\ pc'[q] = "handler" => jobs'[on[q]] = NoJob
               /\ pc'[q] \in {"spawned", "running", "committed"}
                    => jobs'[on[q]].compare = None
    <3>1. on[q] \in Job /\ q \in Request
      BY <2>4 DEF TasksHaveJobs, Holders
    <3>2. pc'[q] = "handler" => pc[q] = "handler"
      BY <2>2, <3>1 DEF TypeOK
    <3>3. pc'[q] \in {"spawned", "running", "committed"}
            => pc[q] \in {"spawned", "running", "committed"} /\ pc[q] # "handler"
      BY <2>1, <2>2, <3>1 DEF TypeOK
    <3>4. Succeed(r) /\ kind[r] = "compare" /\ on[q] = on[r]
            => pc'[q] = "ending"
      BY <2>1, <2>2, <2>4, <3>1 DEF CompareAlone, TypeOK
    <3>5. (jobs'[on[q]] = NoJob) = (jobs[on[q]] = NoJob)
      BY <1>4, <2>1, <3>1, Writes
    <3>6. pc[q] # "handler" => jobs[on[q]] # NoJob
      BY <2>4 DEF TasksHaveJobs
    <3>7. jobs[on[q]] # NoJob /\ jobs[on[q]].compare = None =>
            jobs'[on[q]].compare = None
              \/ (Succeed(r) /\ kind[r] = "compare" /\ on[q] = on[r])
      BY <1>4, <2>1, <3>1, Writes
    <3>8. QED
      BY <2>4, <3>2, <3>3, <3>4, <3>5, <3>6, <3>7 DEF CompareAlone
  <2>5. QED
    BY <2>3, <2>4 DEF CompareAlone
<1>5. ASSUME NEW r \in Request, ExecuteStatement(r) \/ Commit(r)
      PROVE  CompareAlone'
  <2>1. UNCHANGED <<jobs, kind, on>> /\ Holders' = Holders
    BY <1>5 DEF ExecuteStatement, Commit, Holders, TypeOK, asked
  <2>2. \A q \in Holders : pc'[q] = pc[q]
                            \/ (pc[q] = "running" /\ pc'[q] = "committed")
    BY <1>5 DEF ExecuteStatement, Commit, Holders, TypeOK
  <2>3. QED
    BY <2>1, <2>2 DEF CompareAlone
<1>6. ASSUME NEW t \in ticks, WriteProgress(t) PROVE CompareAlone'
  <2>1. UNCHANGED <<pc, kind, on>> /\ Holders' = Holders
    BY <1>6 DEF WriteProgress, asked, Holders
  <2>2. \A j \in Job : /\ (jobs'[j] = NoJob) = (jobs[j] = NoJob)
                       /\ jobs[j] # NoJob => jobs'[j].compare = jobs[j].compare
    BY <1>6, ProgressWrites
  <2>3. \A q \in Holders : /\ on[q] \in Job
                           /\ pc[q] # "handler" => jobs[on[q]] # NoJob
    BY DEF TasksHaveJobs
  <2>4. QED
    BY <2>1, <2>2, <2>3 DEF CompareAlone
<1>7. CASE UNCHANGED vars
  BY <1>7 DEF vars, asked, CompareAlone, Holders
<1>8. QED
  BY <1>1, <1>2, <1>3, <1>4, <1>5, <1>6, <1>7 DEF Next, Handler, Task

\* A published compare is never written again: no preview or deploy clears it
\* and no second compare works on its job.
THEOREM CompareStays == Spec => CompareStaysPublished
<1>1. Init => CompareAlone
  BY DEF Init, CompareAlone, Holders
<1>2. Spec => []CompareAlone
  BY <1>1, Invariance, AloneStep, PTL DEF Spec
<1>3. ASSUME IInv, CompareAlone, [Next]_vars, NEW j \in Job,
             jobs[j] # NoJob, jobs[j].compare # None
      PROVE  jobs'[j].compare = jobs[j].compare
  <2> TypeOK /\ TasksHaveJobs
    BY <1>3 DEF IInv
  <2>1. ASSUME NEW r \in Request, Spawn(r)
        PROVE  jobs'[j] = jobs[j]
    <3>1. r \in Holders /\ (kind[r] = "compare" => jobs[on[r]] = NoJob)
      BY <1>3, <2>1 DEF Spawn, CompareAlone, Holders
    <3>2. QED
      BY <1>3, <2>1, <3>1 DEF Spawn, TypeOK
  <2>2. ASSUME NEW r \in Request, Begin(r)
        PROVE  jobs'[j].compare = jobs[j].compare
    <3>1. r \in Holders /\ on[r] \in Job
      BY <2>2, AtWork DEF Begin
    <3>2. kind[r] = "compare" => on[r] # j
      BY <1>3, <2>2, <3>1 DEF Begin, CompareAlone
    <3>3. jobs[j] \in JobRecord
      BY <1>3 DEF TypeOK
    <3>4. QED
      BY <2>2, <3>1, <3>2, <3>3 DEF Begin, Cleared, TypeOK, JobRecord
  <2>3. ASSUME NEW r \in Request, Succeed(r)
        PROVE  jobs'[j].compare = jobs[j].compare
    <3>1. r \in Holders /\ on[r] \in Job
      BY <2>3, AtWork DEF Succeed
    <3>2. kind[r] = "compare" => on[r] # j
      BY <1>3, <2>3, <3>1 DEF Succeed, CompareAlone
    <3>3. jobs[j] \in JobRecord
      BY <1>3 DEF TypeOK
    <3>4. QED
      BY <2>3, <3>1, <3>2, <3>3 DEF Succeed, Published, TypeOK, JobRecord
  <2>4. ASSUME NEW r \in Request, FailTask(r)
        PROVE  jobs'[j].compare = jobs[j].compare
    <3>1. on[r] \in Job /\ jobs[j] \in JobRecord /\ jobs[on[r]] \in JobRecord
      BY <1>3, <2>4, AtWork DEF FailTask, TypeOK
    <3>2. jobs' = [jobs EXCEPT ![on[r]] =
                     [jobs[on[r]] EXCEPT !.status = "error", !.failed = TRUE]]
      BY <2>4, <3>1 DEF FailTask, TypeOK
    <3>3. QED
      BY <3>1, <3>2 DEF TypeOK, JobRecord
  <2>5. ASSUME NEW t \in ticks, WriteProgress(t)
        PROVE  jobs'[j].compare = jobs[j].compare
    BY <1>3, <2>5, ProgressWrites
  <2>6. QED
    BY <1>3, <2>1, <2>2, <2>3, <2>4, <2>5
    DEF Next, Acquire, TooManyRequests, Handler, Reject, Task, ExecuteStatement,
        Commit, Release, vars
<1>4. IInv /\ CompareAlone /\ [Next]_vars
        => [\A j \in Job : jobs[j] # NoJob /\ jobs[j].compare # None
              => jobs[j]'.compare = jobs[j].compare]_vars
  BY <1>3
<1>5. QED
  BY <1>2, <1>4, Invariance, PTL DEF Spec, CompareStaysPublished

-----------------------------------------------------------------------------
\* A job that says it is at work has a task that will say otherwise.
THEOREM BusyJobsHaveWorkers == Spec => []BusyJobHasWorker
<1>1. Init => BusyJobHasWorker
  BY DEF Init, BusyJobHasWorker
<1>2. IInv /\ BusyJobHasWorker /\ [Next]_vars => BusyJobHasWorker'
  <2> SUFFICES ASSUME IInv, BusyJobHasWorker, [Next]_vars,
                      NEW j \in Job, jobs'[j] # NoJob
               PROVE  /\ jobs'[j].status = "pending" =>
                           \E r \in Request : /\ on'[r] = j /\ pc'[r] = "spawned"
                                              /\ kind'[r] = "compare"
                      /\ jobs'[j].status = "running" =>
                           \E r \in Request :
                             on'[r] = j /\ pc'[r] \in {"running", "committed"}
    BY DEF BusyJobHasWorker
  <2> DEFINE Pending == \E r \in Request : /\ on'[r] = j /\ pc'[r] = "spawned"
                                           /\ kind'[r] = "compare"
             Active == \E r \in Request :
                         on'[r] = j /\ pc'[r] \in {"running", "committed"}
             Goal == /\ jobs'[j].status = "pending" => Pending
                     /\ jobs'[j].status = "running" => Active
  <2> TypeOK /\ TasksHaveJobs
    BY DEF IInv
  <2> USE DEF Goto
  <2> DEFINE Keeps(r) ==
        /\ on'[r] = on[r] /\ kind'[r] = kind[r]
        /\ pc'[r] = pc[r] \/ (pc[r] = "running" /\ pc'[r] = "committed")
  <2>1. ASSUME jobs[j] # NoJob, jobs'[j].status = jobs[j].status,
               \A r \in Request :
                 on[r] = j /\ pc[r] \in {"spawned", "running", "committed"}
                   => Keeps(r)
        PROVE  Goal
    BY <2>1 DEF BusyJobHasWorker
  <2>2. ASSUME NEW q \in Request, NEW k \in Kinds, NEW i \in Job, Acquire(q, k, i)
        PROVE  Goal
    <3>1. jobs' = jobs /\ \A r \in Request : pc[r] # "idle" => Keeps(r)
      BY <2>2 DEF Acquire, Arrives, TypeOK
    <3>2. QED
      BY <2>1, <3>1
  <2>3. ASSUME NEW q \in Request,
               TooManyRequests(q) \/ Reject(q) \/ ExecuteStatement(q)
                 \/ Commit(q) \/ Release(q)
        PROVE  Goal
    <3>1. /\ jobs' = jobs
          /\ \A r \in Request :
               pc[r] \in {"spawned", "running", "committed"} => Keeps(r)
      BY <2>3 DEF TooManyRequests, Arrives, Reject, ExecuteStatement, Commit,
                  Release, TypeOK, asked
    <3>2. QED
      BY <2>1, <3>1
  <2>4. ASSUME NEW q \in Request, Spawn(q) PROVE Goal
    <3>1. /\ \A r \in Request : r # q => Keeps(r)
          /\ pc[q] = "handler" /\ pc'[q] = "spawned"
          /\ on'[q] = on[q] /\ kind'[q] = kind[q]
      BY <2>4 DEF Spawn, TypeOK, asked
    <3>2. CASE jobs'[j] = jobs[j]
      BY <2>1, <3>1, <3>2
    <3>3. CASE jobs'[j] # jobs[j]
      <4>1. on[q] = j /\ kind[q] = "compare" /\ jobs'[j] = NewJob
        BY <2>4, <3>3 DEF Spawn, TypeOK
      <4>2. QED
        BY <3>1, <4>1 DEF NewJob
    <3>4. QED
      BY <3>2, <3>3
  <2>5. ASSUME NEW q \in Request, Begin(q) \/ Succeed(q) \/ FailTask(q)
        PROVE  Goal
    <3>1. /\ \A r \in Request : r # q => Keeps(r)
          /\ on'[q] = on[q] /\ kind'[q] = kind[q]
          /\ Begin(q) => pc'[q] = "running"
      BY <2>5 DEF Begin, Succeed, FailTask, TypeOK, asked
    <3>2. CASE on[q] # j
      <4>1. jobs'[j] = jobs[j]
        BY <2>5, <3>2 DEF Begin, Succeed, FailTask, TypeOK
      <4>2. QED
        BY <2>1, <3>1, <3>2, <4>1
    <3>3. CASE on[q] = j
      <4>1. jobs[j] \in JobRecord
        BY <2>5, <3>3, AtWork DEF Begin, Succeed, FailTask
      <4>2. Begin(q) => jobs'[j].status = "running"
        BY <3>3, <4>1 DEF Begin, Cleared, TypeOK, JobRecord
      <4>3. Succeed(q) => jobs'[j].status = "completed"
        BY <3>3, <4>1 DEF Succeed, Published, TypeOK, JobRecord
      <4>4. FailTask(q) => jobs'[j].status = "error"
        <5>1. FailTask(q) => jobs' = [jobs EXCEPT ![j] =
                     [jobs[j] EXCEPT !.status = "error", !.failed = TRUE]]
          BY <3>3, <4>1 DEF FailTask, TypeOK
        <5>2. QED
          BY <4>1, <5>1 DEF TypeOK, JobRecord
      <4>5. QED
        BY <2>5, <3>1, <3>3, <4>2, <4>3, <4>4
    <3>4. QED
      BY <3>2, <3>3
  <2>6. ASSUME NEW t \in ticks, WriteProgress(t) PROVE Goal
    <3>1. \A r \in Request : Keeps(r)
      BY <2>6 DEF WriteProgress, asked
    <3>2. jobs[j] # NoJob
      BY <2>6, ProgressWrites
    <3>3. t.job \in Job /\ jobs[t.job] \in JobRecord /\ jobs[j] \in JobRecord
      BY <3>2 DEF TasksHaveJobs, TypeOK, Tick
    <3>4. jobs' = [jobs EXCEPT ![t.job] =
              [jobs[t.job] EXCEPT !.current = t.current, !.total = Steps]]
      BY <2>6, <3>3 DEF WriteProgress, TypeOK
    <3>5. jobs'[j].status = jobs[j].status
      BY <3>3, <3>4 DEF TypeOK, JobRecord
    <3>6. QED
      BY <2>1, <3>1, <3>2, <3>5
  <2>7. CASE UNCHANGED vars
    BY <2>1, <2>7 DEF vars, asked
  <2>8. QED
    BY <2>2, <2>3, <2>4, <2>5, <2>6, <2>7 DEF Next, Handler, Task
<1>3. QED
  BY <1>1, <1>2, Invariance, PTL DEF Spec
=============================================================================
