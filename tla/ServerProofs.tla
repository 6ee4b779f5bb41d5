---------------------------- MODULE ServerProofs -----------------------------
(***************************************************************************)
(* Two parts of the specification the Server run checks.  First the jobs that *)
(* can be canceled: they keep every permit, and with them the promise of the  *)
(* pool and the bound of the quota, for any number of requests and permits.   *)
(* A permit belongs to the handler until it has spawned the task and to the   *)
(* task from then on; no step of either, and no cancel, leaves one behind or  *)
(* gives one back twice.  Then the stores: a store survives a restart at any  *)
(* step, for any number of tasks and operations.                              *)
(***************************************************************************)
EXTENDS MCServer, FiniteSetTheorems, TLAPS

\* The task exists from the spawn on.
TasksFollowHandlers ==
  \A r \in Request :
    task[r] = "none" <=> pc[r] \in {"idle", "admitted", "checked", "refused"}

JobsInv ==
  /\ TypeOK
  /\ TasksFollowHandlers
  /\ IsFiniteSet(Holders)
  /\ PermitsConserved

LEMMA JobsStart == Init => JobsInv
<1> SUFFICES ASSUME Init PROVE JobsInv
  OBVIOUS
<1> USE DEF Init
<1>1. TypeOK /\ TasksFollowHandlers
  BY LimitAssumption DEF TypeOK, TasksFollowHandlers, Statuses
<1>2. Holders = {}
  BY DEF Holders, Alive
<1>3. IsFiniteSet(Holders) /\ PermitsConserved
  BY <1>2, FS_EmptySet, LimitAssumption DEF PermitsConserved
<1> QED  BY <1>1, <1>3 DEF JobsInv

-----------------------------------------------------------------------------
(* What the steps do to the holders of permits. *)

LEMMA Admitted ==
  ASSUME JobsInv, NEW r \in Request, Admit(r)
  PROVE  Holders' = Holders \cup {r} /\ r \notin Holders
BY DEF JobsInv, Admit, Arrives, Holders, Alive, TypeOK, TasksFollowHandlers

\* The ways a permit goes back: refused, finished, dropped.
GivesBack(r) == Reject(r) \/ Finish(r) \/ Drop(r)

LEMMA GivenBack ==
  ASSUME JobsInv, NEW r \in Request, GivesBack(r)
  PROVE  Holders' = Holders \ {r} /\ r \in Holders
<1>1. CASE Reject(r)
  BY <1>1 DEF JobsInv, Reject, Holders, Alive, TypeOK, TasksFollowHandlers
<1>2. CASE Finish(r) \/ Drop(r)
  <2>1. /\ task[r] \notin {"none", "gone"} /\ task' = [task EXCEPT ![r] = "gone"]
        /\ pc' = pc
    BY <1>2 DEF Finish, Drop, Alive
  <2>2. pc[r] \notin {"admitted", "checked"}
    BY <2>1 DEF JobsInv, TasksFollowHandlers
  <2> QED  BY <2>1, <2>2 DEF JobsInv, Holders, Alive, TypeOK
<1> QED  BY <1>1, <1>2 DEF GivesBack

\* All other steps leave the holders alone, and the permits.
GoesOn(r) ==
  \/ TooManyRequests(r) \/ CheckQuota(r) \/ Spawn(r) \/ Answer(r)
  \/ Poll(r) \/ Begin(r) \/ WriteChunk(r)
  \/ CancelAbort(r) \/ Cancel(r)

LEMMA NextSplits ==
  ASSUME Next
  PROVE  \E r \in Request : Admit(r) \/ GivesBack(r) \/ GoesOn(r)
BY DEF Next, Handler, Running, GivesBack, GoesOn

LEMMA HoldersStay ==
  ASSUME JobsInv, NEW r \in Request, GoesOn(r)
  PROVE  Holders' = Holders /\ permits' = permits
<1> USE DEF Holders, Alive, JobsInv, TypeOK, TasksFollowHandlers
<1>1. CASE TooManyRequests(r) \/ CheckQuota(r) \/ Answer(r)
  BY <1>1 DEF TooManyRequests, Arrives, CheckQuota, Answer
<1>2. CASE Spawn(r)
  BY <1>2 DEF Spawn
<1>3. CASE Poll(r) \/ Begin(r)
  BY <1>3 DEF Poll, Begin
<1>4. CASE WriteChunk(r) \/ CancelAbort(r) \/ Cancel(r)
  BY <1>4 DEF WriteChunk, CancelAbort, Cancel, CancelMark, CancelAnswer
<1> QED  BY <1>1, <1>2, <1>3, <1>4 DEF GoesOn

LEMMA TypeStep ==
  ASSUME JobsInv, NEW r \in Request, Admit(r) \/ GivesBack(r) \/ GoesOn(r),
         permits' \in 0 .. MaxJobs
  PROVE  TypeOK' /\ TasksFollowHandlers'
<1> USE DEF JobsInv, TypeOK, Statuses, TasksFollowHandlers
<1>1. CASE Admit(r)
  BY <1>1 DEF Admit, Arrives
<1>2. CASE GivesBack(r)
  BY <1>2 DEF GivesBack, Reject, Finish, Drop, Alive
<1>3. CASE TooManyRequests(r) \/ CheckQuota(r) \/ Spawn(r) \/ Answer(r)
  BY <1>3 DEF TooManyRequests, Arrives, CheckQuota, Spawn, Answer
<1>4. CASE Poll(r) \/ Begin(r)
  BY <1>4 DEF Poll, Begin
<1>5. CASE WriteChunk(r)
  BY <1>5, LimitAssumption DEF WriteChunk
<1>6. CASE CancelAbort(r) \/ Cancel(r)
  BY <1>6 DEF CancelAbort, Cancel, CancelMark, CancelAnswer
<1> QED  BY <1>1, <1>2, <1>3, <1>4, <1>5, <1>6 DEF GoesOn

LEMMA StepKeeps ==
  ASSUME JobsInv, Next
  PROVE  JobsInv'
<1>1. PICK r \in Request : Admit(r) \/ GivesBack(r) \/ GoesOn(r)
  BY NextSplits
<1>2. /\ permits \in Nat /\ MaxJobs \in Nat /\ Cardinality(Holders) \in Nat
      /\ permits + Cardinality(Holders) = MaxJobs /\ IsFiniteSet(Holders)
  BY FS_CardinalityType, LimitAssumption DEF JobsInv, TypeOK, PermitsConserved
<1>3. IsFiniteSet(Holders)' /\ PermitsConserved' /\ permits' \in 0 .. MaxJobs
  <2>1. CASE Admit(r)
    <3>1. IsFiniteSet(Holders') /\ Cardinality(Holders') = Cardinality(Holders) + 1
      BY <1>2, <2>1, Admitted, FS_AddElement
    <3>2. permits' = permits - 1 /\ permits > 0
      BY <2>1 DEF Admit
    <3> QED  BY <1>2, <3>1, <3>2 DEF PermitsConserved
  <2>2. CASE GivesBack(r)
    <3>1. /\ IsFiniteSet(Holders') /\ Cardinality(Holders') = Cardinality(Holders) - 1
      BY <1>2, <2>2, GivenBack, FS_RemoveElement
    <3>2. Cardinality(Holders') \in Nat
      BY <3>1, FS_CardinalityType
    <3>3. permits' = permits + 1
      BY <2>2 DEF GivesBack, Reject, Finish, Drop
    <3> QED  BY <1>2, <3>1, <3>2, <3>3 DEF PermitsConserved
  <2>3. CASE GoesOn(r)
    BY <1>2, <2>3, HoldersStay DEF PermitsConserved
  <2> QED  BY <1>1, <2>1, <2>2, <2>3
<1>4. TypeOK' /\ TasksFollowHandlers'
  BY <1>1, <1>3, TypeStep
<1> QED  BY <1>3, <1>4 DEF JobsInv

LEMMA JobsElsewhere ==
  ASSUME JobsInv, UNCHANGED vars
  PROVE  JobsInv'
BY DEF JobsInv, vars, TypeOK, TasksFollowHandlers, Holders, Alive, PermitsConserved

(* Permits left and holders add up to MaxJobs, and each task belongs to the handler that spawned it,   *)
(* at every step of starts, cancels and drops (go_live.rs export_job_start, tool_job_cancel).          *)
THEOREM JobsAreInvariant == ServerSpec => []JobsInv
<1>1. ServerInit => JobsInv
  BY JobsStart DEF ServerInit
<1>2. JobsInv /\ [ServerNext]_serverVars => JobsInv'
  BY StepKeeps, JobsElsewhere DEF ServerNext, Tools, Queries, Stores, serverVars
<1> QED  BY <1>1, <1>2, PTL DEF ServerSpec

(* No permit is lost or minted, also by a task that is dropped half way (go_live.rs start handlers,   *)
(* tool_job_cancel).                                                                                *)
THEOREM PermitsAreConserved == ServerSpec => []PermitsConserved
<1>1. JobsInv => PermitsConserved
  BY DEF JobsInv
<1> QED  BY <1>1, JobsAreInvariant, PTL

(* The jobs implement the abstract pool: at most MaxJobs work at a time, and a request is turned *)
(* away only while that many do (the semaphore of state.rs, taken in the start handlers).        *)
THEOREM PoolRefinement == ServerSpec => PoolPromise
<1> DEFINE Over == {r \in Request : pc[r] = "refused" \/ task[r] = "gone"}
<1>1. ServerInit => Pool!Init
  BY DEF ServerInit, Init, Pool!Init, Holders, Alive
<1>2. JobsInv /\ [ServerNext]_serverVars => [Pool!Next]_Pool!pool
  <2> SUFFICES ASSUME JobsInv, [ServerNext]_serverVars
               PROVE  [Pool!Next]_Pool!pool
    OBVIOUS
  <2>1. /\ permits \in Nat /\ Cardinality(Holders) \in Nat /\ MaxJobs \in Nat
        /\ permits + Cardinality(Holders) = MaxJobs
    BY FS_CardinalityType, LimitAssumption DEF JobsInv, TypeOK, PermitsConserved
  <2>2. Pool!Cardinality(Holders) = Cardinality(Holders)
    BY DEF Pool!Cardinality, Cardinality, Pool!IsFiniteSet, IsFiniteSet
  <2>3. ASSUME NEW r \in Request, Admit(r) PROVE Pool!Admit(r)
    <3>1. Holders' = Holders \cup {r} /\ r \notin Holders
      BY <2>3, Admitted
    <3>2. r \notin Over /\ Over' = Over
      BY <2>3 DEF Admit, Arrives, JobsInv, TypeOK, TasksFollowHandlers
    <3>3. Cardinality(Holders) < MaxJobs
      BY <2>1, <2>3 DEF Admit
    <3> QED  BY <2>2, <3>1, <3>2, <3>3 DEF Pool!Admit
  <2>4. ASSUME NEW r \in Request, TooManyRequests(r) PROVE Pool!TurnAway(r)
    <3>1. Holders' = Holders
      BY <2>4, HoldersStay DEF GoesOn
    <3>2. r \notin Holders \cup Over /\ Over' = Over \cup {r}
      BY <2>4 DEF TooManyRequests, Arrives, JobsInv, TypeOK, TasksFollowHandlers, Holders, Alive
    <3>3. Cardinality(Holders) = MaxJobs
      BY <2>1, <2>4 DEF TooManyRequests
    <3> QED  BY <2>2, <3>1, <3>2, <3>3 DEF Pool!TurnAway
  <2>5. ASSUME NEW r \in Request, GivesBack(r) PROVE Pool!Leave(r)
    <3>1. Holders' = Holders \ {r} /\ r \in Holders
      BY <2>5, GivenBack
    <3>2. Over' = Over \cup {r}
      BY <2>5 DEF GivesBack, Reject, Finish, Drop, JobsInv, TypeOK
    <3> QED  BY <3>1, <3>2 DEF Pool!Leave
  <2>6. ASSUME NEW r \in Request, GoesOn(r), ~TooManyRequests(r) PROVE UNCHANGED Pool!pool
    <3>1. Holders' = Holders
      BY <2>6, HoldersStay
    <3>2. CASE CheckQuota(r) \/ Spawn(r) \/ Answer(r)
      BY <3>1, <3>2 DEF CheckQuota, Spawn, Answer, JobsInv, TypeOK, TasksFollowHandlers, Pool!pool
    <3>3. CASE Poll(r) \/ Begin(r)
      BY <3>1, <3>3 DEF Poll, Begin, JobsInv, TypeOK, Pool!pool
    <3>4. CASE WriteChunk(r) \/ CancelAbort(r) \/ Cancel(r)
      BY <3>1, <3>4 DEF WriteChunk, CancelAbort, Cancel, CancelMark, CancelAnswer, Pool!pool
    <3> QED  BY <2>6, <3>2, <3>3, <3>4 DEF GoesOn
  <2>7. ASSUME UNCHANGED vars PROVE UNCHANGED Pool!pool
    BY <2>7 DEF vars, Pool!pool, Holders, Alive
  <2>8. CASE Tools
    <3>1. PICK r \in Request : Admit(r) \/ GivesBack(r) \/ GoesOn(r)
      BY <2>8, NextSplits DEF Tools
    <3> QED  BY <2>3, <2>4, <2>5, <2>6, <3>1 DEF Pool!Next
  <2>9. CASE Queries \/ Stores \/ UNCHANGED serverVars
    BY <2>7, <2>9 DEF Queries, Stores, serverVars
  <2> QED  BY <2>8, <2>9 DEF ServerNext
<1> QED  BY <1>1, <1>2, JobsAreInvariant, PTL DEF ServerSpec, PoolPromise, Pool!Spec
-----------------------------------------------------------------------------
(* The overrun of the quota. *)

\* Exports that passed the check of the quota and may still write.
Growing == {r \in Request : kind[r] = "export" /\ (pc[r] = "checked" \/ Alive(r))}

\* What is in temp_dir, and what they may still put there.
Reserved == {c \in Request \X (1 .. MaxFile) : c[2] <= file[c[1]] \/ c[1] \in Growing}

OverrunInv == IsFiniteSet(Reserved) /\ Cardinality(Reserved) <= Quota + (MaxJobs - 1) * MaxFile

LEMMA UnionBound ==
  ASSUME NEW S, IsFiniteSet(S), NEW T, IsFiniteSet(T)
  PROVE  IsFiniteSet(S \cup T) /\ Cardinality(S \cup T) <= Cardinality(S) + Cardinality(T)
<1>1. /\ IsFiniteSet(S \cup T)
      /\ Cardinality(S \cup T) = Cardinality(S) + Cardinality(T) - Cardinality(S \cap T)
  BY FS_Union
<1>2. Cardinality(S) \in Nat /\ Cardinality(T) \in Nat /\ Cardinality(S \cap T) \in Nat
  BY FS_Intersection, FS_CardinalityType
<1> QED  BY <1>1, <1>2

\* An export that passes the check finds at most MaxJobs - 1 others that may write.
LEMMA ReservedWhenChecked ==
  ASSUME JobsInv, OverrunInv, NEW r \in Request, CheckQuota(r)
  PROVE  OverrunInv'
<1> DEFINE Written == {c \in Request \X (1 .. MaxFile) : c[2] <= file[c[1]]}
           ToCome  == Growing' \X (1 .. MaxFile)
<1>1. Reserved' \subseteq Written \cup ToCome /\ Written \subseteq Reserved
  BY DEF Reserved, CheckQuota
<1>2. Growing' \subseteq Holders
  BY DEF Growing, Holders, Alive, CheckQuota, JobsInv, TypeOK
<1>3. /\ permits \in Nat /\ MaxJobs \in Nat \ {0} /\ MaxFile \in Nat \ {0} /\ Quota \in Nat
      /\ IsFiniteSet(Holders) /\ permits + Cardinality(Holders) = MaxJobs
  BY LimitAssumption DEF JobsInv, TypeOK, PermitsConserved
<1>4. IsFiniteSet(Growing') /\ Cardinality(Growing') \in Nat /\ Cardinality(Growing') <= MaxJobs
  BY <1>2, <1>3, FS_Subset, FS_CardinalityType
<1>5. IsFiniteSet(1 .. MaxFile) /\ Cardinality(1 .. MaxFile) = MaxFile
  BY <1>3, FS_Interval
<1>6. IsFiniteSet(ToCome) /\ Cardinality(ToCome) = Cardinality(Growing') * MaxFile
  BY <1>4, <1>5, FS_Product
<1>7. Cardinality(ToCome) <= MaxJobs * MaxFile
  <2>1. \A n, m, f \in Nat : n <= m => n * f <= m * f
    OBVIOUS
  <2> QED  BY <1>3, <1>4, <1>6, <2>1
<1>8. IsFiniteSet(Written) /\ Cardinality(Written) \in Nat
  BY <1>1, FS_Subset, FS_CardinalityType DEF OverrunInv
<1>9. CASE kind[r] = "export"
  <2>1. Cardinality(Written) + MaxFile <= Quota
    BY <1>9 DEF CheckQuota, FitsQuota, Used
  <2>2. /\ IsFiniteSet(Written \cup ToCome)
        /\ Cardinality(Written \cup ToCome) <= Cardinality(Written) + Cardinality(ToCome)
    BY <1>6, <1>8, UnionBound
  <2>3. IsFiniteSet(Reserved') /\ Cardinality(Reserved') <= Cardinality(Written \cup ToCome)
    BY <1>1, <2>2, FS_Subset
  <2>4. (MaxJobs - 1) * MaxFile = MaxJobs * MaxFile - MaxFile
    BY <1>3
  <2>5. /\ MaxJobs * MaxFile \in Nat /\ Cardinality(ToCome) \in Nat
        /\ Cardinality(Reserved') \in Nat /\ Cardinality(Written \cup ToCome) \in Nat
    BY <1>3, <1>6, <2>2, <2>3, FS_CardinalityType
  <2>6. ASSUME NEW w \in Nat, NEW t \in Nat, NEW u \in Nat, NEW v \in Nat, NEW b \in Nat,
               w + MaxFile <= Quota, t <= b, u <= w + t, v <= u
        PROVE  v <= Quota + (b - MaxFile)
    BY <1>3, <2>6
  <2>7. Cardinality(Reserved') <= Quota + (MaxJobs * MaxFile - MaxFile)
    BY <1>7, <1>8, <2>1, <2>2, <2>3, <2>5, <2>6
  <2> QED  BY <2>3, <2>4, <2>7 DEF OverrunInv
<1>10. CASE kind[r] # "export"
  <2>1. Reserved' = Reserved
    BY <1>10 DEF Reserved, Growing, Alive, CheckQuota, JobsInv, TypeOK
  <2> QED  BY <2>1 DEF OverrunInv
<1> QED  BY <1>9, <1>10

\* Nobody else takes up more room: what is written was counted, and who is over only leaves.
LEMMA ReservedShrinks ==
  ASSUME JobsInv, NEW r \in Request, Admit(r) \/ GivesBack(r) \/ GoesOn(r), ~CheckQuota(r)
  PROVE  Reserved' \subseteq Reserved
<1> USE DEF Reserved, Growing, Alive, JobsInv, TypeOK, TasksFollowHandlers
<1>1. CASE Admit(r)
  BY <1>1 DEF Admit, Arrives
<1>2. CASE GivesBack(r)
  BY <1>2 DEF GivesBack, Reject, Finish, Drop
<1>3. CASE TooManyRequests(r) \/ Spawn(r) \/ Answer(r)
  BY <1>3 DEF TooManyRequests, Arrives, Spawn, Answer
<1>4. CASE Poll(r) \/ Begin(r)
  BY <1>4 DEF Poll, Begin
<1>5. CASE WriteChunk(r)
  BY <1>5, LimitAssumption DEF WriteChunk
<1>6. CASE CancelAbort(r) \/ Cancel(r)
  BY <1>6 DEF CancelAbort, Cancel, CancelMark, CancelAnswer
<1> QED  BY <1>1, <1>2, <1>3, <1>4, <1>5, <1>6 DEF GoesOn

\* ensure_temp_quota looks at the directory before the files grow: exports that start together
\* overrun the quota, but by no more than a file for each permit but one (go_live.rs start
\* handlers, the semaphore of state.rs).
THEOREM OverrunStaysBounded == ServerSpec => []OverrunIsBounded
<1>1. ServerInit => OverrunInv
  <2> SUFFICES ASSUME ServerInit PROVE OverrunInv
    OBVIOUS
  <2>1. Reserved = {}
    BY LimitAssumption DEF ServerInit, Init, Reserved, Growing, Alive
  <2>2. Quota \in Nat /\ MaxJobs - 1 \in Nat /\ MaxFile \in Nat /\ (MaxJobs - 1) * MaxFile \in Nat
    BY LimitAssumption
  <2> QED  BY <2>1, <2>2, FS_EmptySet DEF OverrunInv
<1>2. JobsInv /\ OverrunInv /\ [ServerNext]_serverVars => OverrunInv'
  <2> SUFFICES ASSUME JobsInv, OverrunInv, [ServerNext]_serverVars PROVE OverrunInv'
    OBVIOUS
  <2>1. CASE Tools
    <3>1. PICK r \in Request : Admit(r) \/ GivesBack(r) \/ GoesOn(r)
      BY <2>1, NextSplits DEF Tools
    <3>2. CASE CheckQuota(r)
      BY <3>2, ReservedWhenChecked
    <3>3. CASE ~CheckQuota(r)
      <4>1. Reserved' \subseteq Reserved
        BY <3>1, <3>3, ReservedShrinks
      <4>2. /\ IsFiniteSet(Reserved') /\ Cardinality(Reserved') <= Cardinality(Reserved)
            /\ Cardinality(Reserved') \in Nat /\ Cardinality(Reserved) \in Nat
        BY <4>1, FS_Subset, FS_CardinalityType DEF OverrunInv
      <4>3. Quota + (MaxJobs - 1) * MaxFile \in Nat
        BY LimitAssumption
      <4> QED  BY <4>2, <4>3 DEF OverrunInv
    <3> QED  BY <3>2, <3>3
  <2>2. CASE Queries \/ Stores \/ UNCHANGED serverVars
    BY <2>2 DEF Queries, Stores, serverVars, vars, OverrunInv, Reserved, Growing, Alive
  <2> QED  BY <2>1, <2>2 DEF ServerNext
<1>3. OverrunInv => OverrunIsBounded
  <2> SUFFICES ASSUME OverrunInv PROVE OverrunIsBounded
    OBVIOUS
  <2> DEFINE Written == {c \in Request \X (1 .. MaxFile) : c[2] <= file[c[1]]}
  <2>1. Written \subseteq Reserved
    BY DEF Reserved
  <2>2. /\ Cardinality(Written) <= Cardinality(Reserved)
        /\ Cardinality(Written) \in Nat /\ Cardinality(Reserved) \in Nat
    BY <2>1, FS_Subset, FS_CardinalityType DEF OverrunInv
  <2>3. Quota + (MaxJobs - 1) * MaxFile \in Nat
    BY LimitAssumption
  <2> QED  BY <2>2, <2>3 DEF OverrunInv, OverrunIsBounded, Used
<1> QED  BY <1>1, <1>2, <1>3, JobsAreInvariant, PTL DEF ServerSpec

-----------------------------------------------------------------------------
(***************************************************************************)
(* The stores.  Only the steps of JsonStores matter; the other views leave    *)
(* its variables alone.                                                       *)
(***************************************************************************)

Ops == {"none", "change", "get", "evolve", "snapshot", "reset", "rollback"}
Pcs == {"idle", "load", "remove", "open", "write", "rename", "set"}

Tasks == [op : Ops, pc : Pcs, content : JS!Content, inode : JS!Inode \cup {NoFile}, left : BOOLEAN]

(* Types, and what an operation that saves, loads or sets can be. *)
StoresTypeOK ==
    /\ jsMemory \in JS!Content /\ jsBefore \in JS!Content
    /\ jsPath \in JS!Inode \cup {NoFile} /\ jsTmp \in JS!Inode \cup {NoFile}
    /\ jsDisk \in [JS!Inode -> JS!Content \cup {Empty, Torn}]
    /\ jsTask \in [StoreTasks -> Tasks]
    /\ jsOps \in 0..MaxOps
    /\ jsLone \in BOOLEAN /\ jsMixed \in BOOLEAN
    /\ jsSingle \in BOOLEAN /\ jsOverlapped \in BOOLEAN
    /\ \A t \in StoreTasks :
          /\ jsTask[t].pc \in {"open", "write", "rename"} => jsTask[t].op \in {"change", "evolve", "rollback"}
          /\ jsTask[t].pc \in {"load", "set"} => jsTask[t].op \notin {"none", "change"}
          /\ jsTask[t].pc = "remove" => jsTask[t].op = "reset" /\ jsTask[t].content = 0
          /\ jsTask[t].pc \in {"write", "rename"} => jsTask[t].inode \in JS!Inode

(* The file and the temporary file are never the same; a save that is alone writes the temporary *)
(* file, which is empty before and holds its content when it renames.                            *)
SaverIsAlone ==
    /\ jsPath # NoFile => jsTmp # jsPath
    /\ ~jsOverlapped \/ jsSingle =>
          \A t \in StoreTasks : JS!Saving(t) =>
             /\ \A u \in StoreTasks : JS!Saving(u) => u = t
             /\ jsTmp = jsTask[t].inode
             /\ JS!At(t, "write") => jsDisk[jsTmp] = Empty
             /\ JS!At(t, "rename") => jsDisk[jsTmp] = jsTask[t].content

(* An operation that is alone saves what it made of the memory, and sets what the file holds. *)
LoneIsRight ==
    jsLone => \A t \in StoreTasks : ~JS!At(t, "idle") =>
       /\ \A u \in StoreTasks : ~JS!At(u, "idle") => u = t
       /\ JS!Saving(t) => jsSingle
       /\ jsTask[t].op = "change" => jsMemory = jsTask[t].content
       /\ JS!At(t, "set") => JS!Loaded = jsTask[t].content

(* Without overlap and failure memory and file are the same when the store is quiet, and at each *)
(* place of an operation differ only as it has changed one of them.                              *)
MemoryAgrees ==
    ~jsMixed =>
       /\ JS!Quiet => JS!Loaded = jsMemory
       /\ \A t \in StoreTasks : ~JS!At(t, "idle") =>
             /\ jsLone
             /\ jsTask[t].pc \in {"open", "write", "rename"} =>
                   JS!Loaded = jsBefore /\ (jsTask[t].op = "change" \/ jsMemory = jsBefore)
             /\ JS!At(t, "remove") => JS!Loaded = jsMemory
             /\ JS!At(t, "load") =>
                   IF jsTask[t].op \in {"reset", "rollback"} THEN JS!Loaded = jsTask[t].content
                   ELSE JS!Loaded = jsMemory /\ jsMemory = jsBefore
             /\ JS!At(t, "set") /\ jsTask[t].op \in {"get", "snapshot"} => JS!Loaded = jsMemory

StoresInv == StoresTypeOK /\ SaverIsAlone /\ LoneIsRight /\ MemoryAgrees /\ JS!FileIsWhole

-----------------------------------------------------------------------------
LEMMA Constants ==
    /\ Cardinality(StoreTasks) \in Nat
    /\ NoFile \notin JS!Inode
    /\ 0 \in JS!Content
    /\ Empty \notin JS!Content /\ Torn \notin JS!Content
    /\ \A n \in Nat : n <= MaxOps => n \in JS!Content
BY StoreAssumption, FS_CardinalityType DEF JS!Inode, JS!Content

LEMMA IntervalSize ==
    ASSUME NEW n \in Nat
    PROVE  Cardinality(1..(n + 2)) = n + 2
<1>1. 1 \in Int /\ n + 2 \in Int /\ ~(1 > n + 2) /\ (n + 2) - 1 + 1 = n + 2
  OBVIOUS
<1>2. Cardinality(1..(n + 2)) = IF 1 > n + 2 THEN 0 ELSE (n + 2) - 1 + 1
  BY <1>1, FS_Interval
<1> QED  BY <1>1, <1>2

(* There are more inodes than the names and the writers can hold. *)
LEMMA TmpInodeIsOwn ==
    ASSUME StoresTypeOK, SaverIsAlone
    PROVE  /\ JS!TmpInode \in JS!Inode
           /\ jsPath # NoFile => JS!TmpInode # jsPath
<1>1. CASE jsTmp # NoFile
  BY <1>1 DEF JS!TmpInode, StoresTypeOK, SaverIsAlone
<1>2. CASE jsTmp = NoFile
  <2> DEFINE f == [t \in StoreTasks |-> jsTask[t].inode]
             held == {f[t] : t \in StoreTasks}
  <2>1. IsFiniteSet(held) /\ Cardinality(held) <= Cardinality(StoreTasks)
    <3>1. f \in Surjection(StoreTasks, held)
      BY DEF Surjection
    <3> HIDE DEF f, held
    <3> QED  BY <3>1, FS_Surjection, StoreAssumption
  <2>2. /\ IsFiniteSet(held \cup {jsPath})
        /\ Cardinality(held \cup {jsPath}) <= Cardinality(StoreTasks) + 1
    <3> HIDE DEF held
    <3>1. /\ IsFiniteSet(held \cup {jsPath})
          /\ Cardinality(held \cup {jsPath}) = IF jsPath \in held THEN Cardinality(held) ELSE Cardinality(held) + 1
      BY <2>1, FS_AddElement
    <3>2. Cardinality(held) \in Nat
      BY <2>1, FS_CardinalityType
    <3> QED  BY <2>1, <3>1, <3>2, Constants
  <2>3. Cardinality(JS!Inode) = Cardinality(StoreTasks) + 2
    <3>1. Cardinality(StoreTasks) \in Nat
      BY Constants
    <3>2. Cardinality(1..(Cardinality(StoreTasks) + 2)) = Cardinality(StoreTasks) + 2
      BY ONLY <3>1, IntervalSize
    <3> QED  BY ONLY <3>2 DEF JS!Inode, JS!Cardinality, Cardinality
  <2>4. \E i \in JS!Inode : i \notin held \cup {jsPath}
    <3> HIDE DEF held
    <3>1. SUFFICES ASSUME JS!Inode \subseteq held \cup {jsPath}
                   PROVE  FALSE
      OBVIOUS
    <3>2. Cardinality(JS!Inode) <= Cardinality(held \cup {jsPath})
      BY <2>2, <3>1, FS_Subset
    <3> QED  BY <2>2, <2>3, <3>2, FS_CardinalityType, Constants
  <2>5. \E i \in JS!Inode : i # jsPath /\ \A t \in StoreTasks : jsTask[t].inode # i
    BY <2>4
  <2> QED  BY <1>2, <2>5 DEF JS!TmpInode
<1> QED  BY <1>1, <1>2

-----------------------------------------------------------------------------
(* What is loaded depends on the file alone. *)
LEMMA LoadedStays ==
    ASSUME UNCHANGED jsPath, jsPath # NoFile => jsDisk'[jsPath] = jsDisk[jsPath]
    PROVE  JS!Loaded' = JS!Loaded /\ JS!Readable' = JS!Readable
BY DEF JS!Loaded, JS!Readable

LEMMA LoadedIsContent == JS!Loaded \in JS!Content
BY Constants DEF JS!Loaded, JS!Readable

LEMMA StoresStart ==
    ASSUME JS!Init
    PROVE  StoresInv
<1> USE Constants DEF JS!Init, JS!Idle
<1>1. StoresTypeOK
  <2>1. JS!Idle \in Tasks
    BY DEF Tasks, Ops, Pcs
  <2>2. jsTask \in [StoreTasks -> Tasks] /\ \A t \in StoreTasks : jsTask[t] = JS!Idle
    BY <2>1
  <2>3. jsDisk \in [JS!Inode -> JS!Content \cup {Empty, Torn}]
    OBVIOUS
  <2>4. jsOps \in 0..MaxOps
    BY StoreAssumption
  <2>5. \A t \in StoreTasks : jsTask[t].pc = "idle"
    BY <2>2
  <2> QED  BY <2>2, <2>3, <2>4, <2>5 DEF StoresTypeOK
<1>2. SaverIsAlone /\ LoneIsRight /\ JS!FileIsWhole
  BY DEF SaverIsAlone, LoneIsRight, JS!FileIsWhole, JS!Saving, JS!At
<1>3. MemoryAgrees
  BY DEF MemoryAgrees, JS!Quiet, JS!At, JS!Loaded, JS!Readable
<1> QED  BY <1>1, <1>2, <1>3 DEF StoresInv

-----------------------------------------------------------------------------
(* An operation that begins finds the store quiet, or leaves it mixed. *)
LEMMA StartKeeps ==
    ASSUME StoresInv, NEW t \in StoreTasks,
           NEW op \in Ops, NEW pc0 \in {"load", "remove", "open"}, NEW c \in JS!Content,
           JS!Start(t, op, pc0, c),
           pc0 = "open" => op \in {"change", "rollback"},
           pc0 = "load" => op \in {"get", "evolve", "snapshot"},
           pc0 = "remove" => op = "reset" /\ c = 0,
           jsMemory' = IF op = "change" THEN c ELSE jsMemory
    PROVE  StoresInv'
<1> DEFINE new == [op |-> op, pc |-> pc0, content |-> c, inode |-> NoFile, left |-> FALSE]
<1>1. /\ jsTask' = [jsTask EXCEPT ![t] = new]
      /\ jsLone' = JS!Quiet /\ jsMixed' = (jsMixed \/ ~JS!Quiet)
      /\ jsBefore' = IF JS!Quiet THEN jsMemory ELSE jsBefore
      /\ UNCHANGED <<jsPath, jsTmp, jsDisk, jsSingle, jsOverlapped>>
      /\ jsOps' = jsOps + 1 /\ jsOps < MaxOps
      /\ JS!At(t, "idle")
  BY DEF JS!Start
<1>2. StoresTypeOK'
  BY <1>1, StoreAssumption, Constants DEF StoresInv, StoresTypeOK, Tasks, Ops, Pcs, JS!Quiet
<1>3. /\ jsTask'[t] = new
      /\ \A u \in StoreTasks : u # t => jsTask'[u] = jsTask[u]
  BY <1>1 DEF StoresInv, StoresTypeOK
<1>4. SaverIsAlone' /\ JS!FileIsWhole'
  BY <1>1, <1>3, LoadedStays DEF StoresInv, SaverIsAlone, JS!FileIsWhole, JS!Saving, JS!At
<1>5. JS!Loaded' = JS!Loaded
  BY <1>1, LoadedStays
<1>6. JS!Quiet => \A u \in StoreTasks : ~JS!At(u, "idle")' => u = t
  BY <1>3 DEF JS!Quiet, JS!At
<1>7. LoneIsRight'
  BY <1>1, <1>3, <1>6 DEF LoneIsRight, JS!At, JS!Saving
<1>8. MemoryAgrees'
  <2> SUFFICES ASSUME ~jsMixed, JS!Quiet
               PROVE  MemoryAgrees'
    BY <1>1 DEF MemoryAgrees
  <2>1. JS!Loaded = jsMemory
    BY DEF StoresInv, MemoryAgrees
  <2>2. ~JS!Quiet'
    BY <1>3 DEF JS!Quiet, JS!At
  <2> QED  BY <1>1, <1>3, <1>5, <1>6, <2>1, <2>2 DEF MemoryAgrees, JS!At
<1> QED  BY <1>2, <1>4, <1>7, <1>8 DEF StoresInv

(* A task that ends leaves the others as they are. *)
LEMMA Ended ==
    ASSUME StoresInv, NEW t \in StoreTasks, jsTask' = [jsTask EXCEPT ![t] = JS!Idle]
    PROVE  /\ jsTask' \in [StoreTasks -> Tasks]
           /\ JS!At(t, "idle")'
           /\ \A u \in StoreTasks : u # t => jsTask'[u] = jsTask[u]
           /\ \A u \in StoreTasks : ~JS!At(u, "idle")' => u # t /\ ~JS!At(u, "idle")
           /\ \A u \in StoreTasks : JS!Saving(u)' => u # t /\ JS!Saving(u)
           /\ jsLone /\ ~JS!At(t, "idle") => JS!Quiet'
BY Constants DEF StoresInv, StoresTypeOK, LoneIsRight, Tasks, Ops, Pcs, JS!Idle, JS!At, JS!Saving, JS!Quiet

(* What a dropped request leaves behind: the file is whole, and nothing is said of the memory. *)
LEMMA AbandonedKeeps ==
    ASSUME StoresInv, NEW t \in StoreTasks, ~JS!At(t, "idle"),
           jsTask' = [jsTask EXCEPT ![t] = JS!Idle], jsMixed',
           jsMixed' \in BOOLEAN, jsOverlapped' \in BOOLEAN,
           jsPath' \in {jsPath, jsTmp, NoFile}, jsTmp' \in {jsTmp, NoFile},
           jsPath' = jsPath \/ jsPath' = NoFile \/ jsTmp' = NoFile,
           jsTmp' = jsTmp \/ JS!Saving(t),
           jsDisk' \in [JS!Inode -> JS!Content \cup {Empty, Torn}],
           ~jsOverlapped' \/ jsSingle => ~jsOverlapped \/ jsSingle,
           (~jsOverlapped \/ jsSingle) /\ ~JS!Saving(t) => jsDisk' = jsDisk,
           JS!FileIsWhole',
           UNCHANGED <<jsMemory, jsOps, jsBefore, jsLone, jsSingle>>
    PROVE  StoresInv'
<1>1. /\ jsTask' \in [StoreTasks -> Tasks]
      /\ JS!At(t, "idle")'
      /\ \A u \in StoreTasks : u # t => jsTask'[u] = jsTask[u]
      /\ \A u \in StoreTasks : ~JS!At(u, "idle")' => u # t /\ ~JS!At(u, "idle")
      /\ \A u \in StoreTasks : JS!Saving(u)' => u # t /\ JS!Saving(u)
      /\ jsLone => JS!Quiet'
  BY Ended
<1>2. StoresTypeOK'
  BY <1>1 DEF StoresInv, StoresTypeOK, JS!At
<1>3. SaverIsAlone'
  <2>1. ~jsOverlapped' \/ jsSingle =>
           \A u \in StoreTasks : JS!Saving(u)' => ~JS!Saving(t) /\ JS!Saving(u)
    BY <1>1 DEF StoresInv, SaverIsAlone
  <2> QED  BY <1>1, <2>1 DEF StoresInv, SaverIsAlone, JS!At
<1>4. LoneIsRight' /\ MemoryAgrees'
  BY <1>1 DEF LoneIsRight, MemoryAgrees, JS!Quiet
<1> QED  BY <1>2, <1>3, <1>4 DEF StoresInv

-----------------------------------------------------------------------------
LEMMA BeginsKeep ==
    ASSUME StoresInv, NEW t \in StoreTasks,
           JS!Change(t) \/ JS!GetHistory(t) \/ JS!Evolve(t) \/ JS!Snapshot(t) \/ JS!Reset(t) \/ JS!Rollback(t)
    PROVE  StoresInv'
<1>0. jsOps \in 0..MaxOps
  BY DEF StoresInv, StoresTypeOK
<1>1. CASE JS!Change(t)
  <2>1. PICK c \in {jsOps + 1, 0} : jsMemory' = c /\ JS!Start(t, "change", "open", c)
    BY <1>1 DEF JS!Change
  <2>2. c \in JS!Content
    BY <1>0, <2>1, StoreAssumption, Constants DEF JS!Start
  <2> QED  BY <2>1, <2>2, StartKeeps DEF Ops
<1>2. CASE JS!GetHistory(t) \/ JS!Evolve(t) \/ JS!Snapshot(t)
  <2>1. PICK op \in {"get", "evolve", "snapshot"} : JS!Start(t, op, "load", 0) /\ jsMemory' = jsMemory
    BY <1>2 DEF JS!GetHistory, JS!Evolve, JS!Snapshot
  <2> QED  BY <2>1, StartKeeps, Constants DEF Ops
<1>3. CASE JS!Reset(t)
  BY <1>3, StartKeeps, Constants DEF JS!Reset, Ops
<1>4. CASE JS!Rollback(t)
  <2>1. PICK c \in 0..Floor : JS!Start(t, "rollback", "open", c) /\ jsMemory' = jsMemory
    BY <1>4 DEF JS!Rollback
  <2>2. c \in JS!Content
    BY <2>1, StoreAssumption DEF JS!Content
  <2> QED  BY <2>1, <2>2, StartKeeps DEF Ops
<1> QED  BY <1>1, <1>2, <1>3, <1>4

-----------------------------------------------------------------------------
LEMMA LoadKeeps ==
    ASSUME StoresInv, NEW t \in StoreTasks, JS!Load(t)
    PROVE  StoresInv'
<1>0. /\ JS!At(t, "load")
      /\ UNCHANGED <<jsMemory, jsPath, jsTmp, jsDisk, jsOps, jsBefore, jsLone, jsMixed, jsSingle, jsOverlapped>>
      /\ JS!Loaded' = JS!Loaded
  BY LoadedStays DEF JS!Load
<1>1. CASE jsTask[t].op = "get" /\ jsPath # NoFile /\ ~JS!Readable
  <2>1. jsTask' = [jsTask EXCEPT ![t] = JS!Idle]
    BY <1>1 DEF JS!Load
  <2>2. /\ jsTask' \in [StoreTasks -> Tasks]
        /\ JS!At(t, "idle")'
        /\ \A u \in StoreTasks : u # t => jsTask'[u] = jsTask[u]
        /\ \A u \in StoreTasks : ~JS!At(u, "idle")' => u # t /\ ~JS!At(u, "idle")
        /\ \A u \in StoreTasks : JS!Saving(u)' => u # t /\ JS!Saving(u)
    BY <2>1, Ended
  <2>3. StoresTypeOK'
    BY <1>0, <2>2 DEF StoresInv, StoresTypeOK, JS!At
  <2>4. SaverIsAlone' /\ JS!FileIsWhole'
    BY <1>0, <2>2, LoadedStays DEF StoresInv, SaverIsAlone, JS!FileIsWhole, JS!At
  <2>5. LoneIsRight'
    BY <1>0, <2>2 DEF StoresInv, LoneIsRight, JS!At
  <2>6. ~jsMixed => JS!Loaded = jsMemory
    BY <1>0, <1>1 DEF StoresInv, MemoryAgrees, JS!At
  <2>7. MemoryAgrees'
    BY <1>0, <2>2, <2>6 DEF StoresInv, MemoryAgrees, JS!At
  <2> QED  BY <2>3, <2>4, <2>5, <2>7 DEF StoresInv
<1>2. CASE ~(jsTask[t].op = "get" /\ jsPath # NoFile /\ ~JS!Readable)
  <2> DEFINE saves == jsTask[t].op = "evolve" /\ JS!Loaded < Floor
             new == [jsTask[t] EXCEPT !.pc = IF saves THEN "open" ELSE "set",
                                      !.content = IF saves THEN JS!Loaded + 1 ELSE JS!Loaded]
  <2>1. jsTask' = [jsTask EXCEPT ![t] = new]
    BY <1>2 DEF JS!Load
  <2>2. new.content \in JS!Content
    <3>1. JS!Loaded \in JS!Content
      BY LoadedIsContent
    <3>2. saves => JS!Loaded + 1 \in JS!Content
      BY <3>1, StoreAssumption DEF JS!Content
    <3> QED  BY <3>1, <3>2 DEF StoresInv, StoresTypeOK, Tasks
  <2>3. /\ new \in Tasks /\ new.op = jsTask[t].op /\ new.inode = jsTask[t].inode
        /\ new.pc = IF saves THEN "open" ELSE "set"
        /\ new.content = IF saves THEN JS!Loaded + 1 ELSE JS!Loaded
    BY <2>2 DEF StoresInv, StoresTypeOK, Tasks, Pcs
  <2>4. /\ jsTask' \in [StoreTasks -> Tasks]
        /\ jsTask'[t] = new
        /\ \A u \in StoreTasks : u # t => jsTask'[u] = jsTask[u]
    BY <2>1, <2>3 DEF StoresInv, StoresTypeOK
  <2> HIDE DEF new
  <2>5. StoresTypeOK'
    BY <1>0, <2>3, <2>4 DEF StoresInv, StoresTypeOK, JS!At
  <2>6. SaverIsAlone' /\ JS!FileIsWhole'
    BY <1>0, <2>3, <2>4, LoadedStays DEF StoresInv, SaverIsAlone, JS!FileIsWhole, JS!At, JS!Saving
  <2>7. LoneIsRight'
    BY <1>0, <2>3, <2>4 DEF StoresInv, StoresTypeOK, LoneIsRight, JS!At, JS!Saving
  <2>8. MemoryAgrees'
    BY <1>0, <2>3, <2>4 DEF StoresInv, MemoryAgrees, JS!At, JS!Quiet
  <2> QED  BY <2>5, <2>6, <2>7, <2>8 DEF StoresInv
<1> QED  BY <1>1, <1>2

(* A lone operation has left in the file what it sets. *)
LEMMA SetKeeps ==
    ASSUME StoresInv, NEW t \in StoreTasks, JS!Set(t)
    PROVE  StoresInv'
<1>1. /\ JS!At(t, "set")
      /\ jsMemory' = jsTask[t].content
      /\ jsTask' = [jsTask EXCEPT ![t] = JS!Idle]
      /\ jsMixed' = (jsMixed /\ ~jsLone)
      /\ UNCHANGED <<jsPath, jsTmp, jsDisk, jsOps, jsBefore, jsLone, jsSingle, jsOverlapped>>
      /\ JS!Loaded' = JS!Loaded
  BY LoadedStays DEF JS!Set, JS!Done
<1>2. /\ jsTask' \in [StoreTasks -> Tasks]
      /\ JS!At(t, "idle")'
      /\ \A u \in StoreTasks : u # t => jsTask'[u] = jsTask[u]
      /\ \A u \in StoreTasks : ~JS!At(u, "idle")' => u # t /\ ~JS!At(u, "idle")
      /\ \A u \in StoreTasks : JS!Saving(u)' => u # t /\ JS!Saving(u)
      /\ jsLone => JS!Quiet'
  BY <1>1, Ended DEF JS!At
<1>3. StoresTypeOK'
  BY <1>1, <1>2 DEF StoresInv, StoresTypeOK, JS!At, Tasks
<1>4. SaverIsAlone' /\ JS!FileIsWhole'
  BY <1>1, <1>2, LoadedStays DEF StoresInv, SaverIsAlone, JS!FileIsWhole, JS!At
<1>5. LoneIsRight'
  BY <1>1, <1>2 DEF LoneIsRight, JS!Quiet
<1>6. MemoryAgrees'
  <2>1. ~jsMixed' => jsLone
    BY <1>1 DEF StoresInv, MemoryAgrees, JS!At
  <2>2. jsLone => JS!Loaded = jsTask[t].content
    BY <1>1 DEF StoresInv, LoneIsRight, JS!At
  <2> QED  BY <1>1, <1>2, <2>1, <2>2 DEF MemoryAgrees, JS!Quiet
<1> QED  BY <1>3, <1>4, <1>5, <1>6 DEF StoresInv

LEMMA RemoveKeeps ==
    ASSUME StoresInv, NEW t \in StoreTasks, JS!Remove(t)
    PROVE  StoresInv'
<1>1. /\ JS!At(t, "remove")
      /\ jsPath' = NoFile
      /\ UNCHANGED <<jsMemory, jsTmp, jsDisk, jsOps, jsBefore, jsLone, jsSingle, jsOverlapped>>
  BY DEF JS!Remove
<1>2. CASE jsTask[t].left
  <2>1. jsTask' = [jsTask EXCEPT ![t] = JS!Idle] /\ jsMixed' = TRUE
    BY <1>2 DEF JS!Remove, JS!Abandoned
  <2>2. JS!FileIsWhole' /\ ~JS!At(t, "idle") /\ jsPath' \in {jsPath, jsTmp, NoFile}
        /\ jsDisk' \in [JS!Inode -> JS!Content \cup {Empty, Torn}] /\ jsOverlapped' \in BOOLEAN
    BY <1>1 DEF StoresInv, StoresTypeOK, JS!At, JS!FileIsWhole
  <2> QED  BY <1>1, <2>1, <2>2, AbandonedKeeps
<1>3. CASE ~jsTask[t].left
  <2>1. jsTask' = [jsTask EXCEPT ![t].pc = "load"] /\ jsMixed' = jsMixed
    BY <1>3 DEF JS!Remove, JS!Goto
  <2>2. /\ jsTask' \in [StoreTasks -> Tasks]
        /\ jsTask'[t] = [jsTask[t] EXCEPT !.pc = "load"]
        /\ jsTask[t].op = "reset" /\ jsTask[t].content = 0
        /\ \A u \in StoreTasks : u # t => jsTask'[u] = jsTask[u]
    BY <1>1, <2>1 DEF StoresInv, StoresTypeOK, Tasks, Pcs, JS!At
  <2>3. /\ jsTask'[t].op = "reset" /\ jsTask'[t].pc = "load" /\ jsTask'[t].content = 0
        /\ jsTask'[t].inode = jsTask[t].inode
    BY <2>2 DEF StoresInv, StoresTypeOK, Tasks
  <2>4. JS!Loaded' = 0
    BY <1>1 DEF JS!Loaded, JS!Readable
  <2>5. StoresTypeOK'
    BY <1>1, <2>1, <2>2, <2>3 DEF StoresInv, StoresTypeOK
  <2>6. SaverIsAlone' /\ JS!FileIsWhole'
    BY <1>1, <2>2, <2>3 DEF StoresInv, SaverIsAlone, JS!FileIsWhole, JS!At, JS!Saving
  <2>7. LoneIsRight'
    BY <1>1, <2>2, <2>3 DEF StoresInv, LoneIsRight, JS!At, JS!Saving
  <2>8. MemoryAgrees'
    <3>1. ~jsMixed => \A u \in StoreTasks : ~JS!At(u, "idle") => u = t
      BY <1>1 DEF StoresInv, MemoryAgrees, LoneIsRight, JS!At
    <3> QED  BY <1>1, <2>1, <2>2, <2>3, <2>4, <3>1 DEF StoresInv, MemoryAgrees, JS!At, JS!Quiet
  <2> QED  BY <2>5, <2>6, <2>7, <2>8 DEF StoresInv
<1> QED  BY <1>2, <1>3

-----------------------------------------------------------------------------
(* A save that finds no other one has the temporary file to itself. *)
LEMMA OpenKeeps ==
    ASSUME StoresInv, NEW t \in StoreTasks, JS!Open(t)
    PROVE  StoresInv'
<1> DEFINE others == \E u \in StoreTasks \ {t} : JS!Saving(u)
           i == JS!TmpInode
           new == [jsTask[t] EXCEPT !.pc = "write", !.inode = i]
<1>1. /\ JS!At(t, "open")
      /\ jsSingle' = ~others /\ jsOverlapped' = (jsOverlapped \/ others)
      /\ jsTmp' = i /\ jsDisk' = [jsDisk EXCEPT ![i] = Empty]
      /\ jsTask' = [jsTask EXCEPT ![t] = new]
      /\ UNCHANGED <<jsMemory, jsPath, jsOps, jsBefore, jsLone, jsMixed>>
  BY DEF JS!Open
<1>2. i \in JS!Inode /\ (jsPath # NoFile => i # jsPath)
  BY TmpInodeIsOwn DEF StoresInv
<1> HIDE DEF i
<1>3. /\ new \in Tasks
      /\ new.op = jsTask[t].op /\ new.pc = "write" /\ new.content = jsTask[t].content /\ new.inode = i
  BY <1>2 DEF StoresInv, StoresTypeOK, Tasks, Pcs
<1> HIDE DEF new
<1>4. /\ jsTask' \in [StoreTasks -> Tasks] /\ jsTask'[t] = new
      /\ \A u \in StoreTasks : u # t => jsTask'[u] = jsTask[u]
  BY <1>1, <1>3 DEF StoresInv, StoresTypeOK
<1>5. jsPath # NoFile => jsDisk'[jsPath] = jsDisk[jsPath]
  BY <1>1, <1>2 DEF StoresInv, StoresTypeOK
<1>6. JS!Loaded' = JS!Loaded /\ JS!Readable' = JS!Readable
  BY <1>1, <1>5, LoadedStays
<1>7. StoresTypeOK'
  <2>1. jsTmp' \in JS!Inode /\ jsDisk' \in [JS!Inode -> JS!Content \cup {Empty, Torn}]
    BY <1>1, <1>2 DEF StoresInv, StoresTypeOK
  <2> QED  BY <1>1, <1>2, <1>3, <1>4, <2>1 DEF StoresInv, StoresTypeOK, JS!At
<1>8. SaverIsAlone'
  <2>1. \A u \in StoreTasks : JS!Saving(u)' => u = t \/ JS!Saving(u)
    BY <1>4 DEF JS!Saving
  <2>2. ~jsOverlapped' \/ jsSingle' => ~others
    BY <1>1 DEF StoresInv, StoresTypeOK
  <2>3. jsPath' # NoFile => jsTmp' # jsPath'
    BY <1>1, <1>2
  <2>4. jsDisk'[jsTmp'] = Empty
    BY <1>1, <1>2 DEF StoresInv, StoresTypeOK
  <2> QED  BY <1>1, <1>3, <1>4, <2>1, <2>2, <2>3, <2>4 DEF SaverIsAlone, JS!At
<1>9. JS!FileIsWhole'
  BY <1>1, <1>6 DEF StoresInv, JS!FileIsWhole
<1>10. LoneIsRight'
  <2>1. jsLone => ~others
    BY <1>1 DEF StoresInv, LoneIsRight, JS!At, JS!Saving
  <2> QED  BY <1>1, <1>3, <1>4, <1>6, <2>1 DEF StoresInv, StoresTypeOK, LoneIsRight, JS!At, JS!Saving
<1>11. MemoryAgrees'
  BY <1>1, <1>3, <1>4, <1>6 DEF StoresInv, MemoryAgrees, JS!At, JS!Quiet
<1> QED  BY <1>7, <1>8, <1>9, <1>10, <1>11 DEF StoresInv

(* What a lone save writes is not the file; what others write may be. *)
LEMMA WriteKeeps ==
    ASSUME StoresInv, NEW t \in StoreTasks, JS!Write(t)
    PROVE  StoresInv'
<1> DEFINE i == jsTask[t].inode
           new == IF jsTask[t].left THEN JS!Idle ELSE [jsTask[t] EXCEPT !.pc = "rename"]
           end == jsTask[t].left /\ jsTask[t].op = "change"
<1>1. /\ JS!At(t, "write")
      /\ jsTask' = [jsTask EXCEPT ![t] = new] /\ jsMixed' = (jsMixed \/ end)
      /\ UNCHANGED <<jsMemory, jsPath, jsTmp, jsOps, jsBefore, jsLone, jsSingle, jsOverlapped>>
      /\ JS!Saving(t)
  BY DEF JS!Write, JS!Goto, JS!Abandoned, JS!At, JS!Saving, StoresInv, StoresTypeOK
<1>2. /\ new \in Tasks
      /\ \/ new.pc = "idle" /\ jsTask[t].left
         \/ /\ new.pc = "rename" /\ ~jsTask[t].left
            /\ new.op = jsTask[t].op /\ new.content = jsTask[t].content /\ new.inode = i
      /\ i \in JS!Inode /\ jsTask[t].content \in JS!Content
  BY <1>1, Constants DEF StoresInv, StoresTypeOK, Tasks, Pcs, Ops, JS!At, JS!Idle
<1> HIDE DEF new
<1>3. /\ jsTask' \in [StoreTasks -> Tasks] /\ jsTask'[t] = new
      /\ \A u \in StoreTasks : u # t => jsTask'[u] = jsTask[u]
  BY <1>1, <1>2 DEF StoresInv, StoresTypeOK
<1>4. PICK c \in {jsTask[t].content, Torn} :
         jsDisk' = [jsDisk EXCEPT ![i] = c] /\ (jsDisk[i] = Empty => c = jsTask[t].content)
  BY DEF JS!Write
<1> HIDE DEF i
<1>5. StoresTypeOK'
  <2>1. jsDisk' \in [JS!Inode -> JS!Content \cup {Empty, Torn}]
    BY <1>2, <1>4 DEF StoresInv, StoresTypeOK
  <2> QED  BY <1>1, <1>2, <1>3, <2>1 DEF StoresInv, StoresTypeOK, JS!At
<1>6. ~jsOverlapped \/ jsSingle =>
        /\ \A u \in StoreTasks : JS!Saving(u) => u = t
        /\ jsTmp = i /\ c = jsTask[t].content
        /\ jsPath # NoFile => jsPath # i
  BY <1>1, <1>4 DEF StoresInv, SaverIsAlone, i
<1>7. SaverIsAlone'
  <2>1. ~jsOverlapped \/ jsSingle => jsDisk'[i] = jsTask[t].content
    BY <1>2, <1>4, <1>6 DEF StoresInv, StoresTypeOK
  <2>2. \A u \in StoreTasks : JS!Saving(u)' => JS!Saving(u)
    BY <1>1, <1>3 DEF JS!Saving
  <2>3. jsPath' # NoFile => jsTmp' # jsPath'
    BY <1>1 DEF StoresInv, SaverIsAlone
  <2>4. JS!Saving(t)' => new.pc = "rename" /\ new.inode = i /\ new.content = jsTask[t].content
    BY <1>2, <1>3 DEF JS!Saving
  <2> QED  BY <1>1, <1>3, <1>6, <2>4, <2>1, <2>2, <2>3 DEF SaverIsAlone, JS!At
<1>8. ~jsOverlapped \/ jsSingle => JS!Loaded' = JS!Loaded /\ JS!Readable' = JS!Readable
  <2>1. ~jsOverlapped \/ jsSingle => (jsPath # NoFile => jsDisk'[jsPath] = jsDisk[jsPath])
    BY <1>4, <1>6 DEF StoresInv, StoresTypeOK
  <2> QED  BY <1>1, <2>1, LoadedStays
<1>9. JS!FileIsWhole'
  BY <1>1, <1>8 DEF StoresInv, JS!FileIsWhole
<1>10. jsLone => jsSingle /\ \A u \in StoreTasks : ~JS!At(u, "idle") => u = t
  BY <1>1 DEF StoresInv, LoneIsRight, JS!At
<1>11. LoneIsRight'
  BY <1>1, <1>2, <1>3, <1>8, <1>10 DEF StoresInv, LoneIsRight, JS!At, JS!Saving
<1>12. MemoryAgrees'
  <2>1. ~jsMixed => jsLone /\ JS!Loaded' = JS!Loaded
    BY <1>1, <1>8, <1>10 DEF StoresInv, MemoryAgrees, JS!At
  <2>2. CASE jsTask[t].left
    <3>1. ~jsMixed /\ ~end => JS!Loaded = jsMemory
      BY <1>1, <2>2 DEF StoresInv, MemoryAgrees, JS!At
    <3>2. jsTask'[t].pc = "idle"
      BY <1>2, <1>3, <2>2
    <3> QED  BY <1>1, <1>3, <1>10, <2>1, <3>1, <3>2 DEF MemoryAgrees, JS!At, JS!Quiet
  <2>3. CASE ~jsTask[t].left
    BY <1>1, <1>2, <1>3, <2>1, <2>3 DEF StoresInv, MemoryAgrees, JS!At, JS!Quiet
  <2> QED  BY <2>2, <2>3
<1> QED  BY <1>5, <1>7, <1>9, <1>11, <1>12 DEF StoresInv

(* A lone save renames what it has written. *)
LEMMA RenameKeeps ==
    ASSUME StoresInv, NEW t \in StoreTasks, JS!Rename(t)
    PROVE  StoresInv'
<1>1. /\ JS!At(t, "rename") /\ JS!Saving(t)
      /\ jsTmp # NoFile /\ jsPath' = jsTmp /\ jsTmp' = NoFile
      /\ jsOverlapped' = (jsOverlapped /\ ~jsSingle)
      /\ UNCHANGED <<jsMemory, jsDisk, jsOps, jsBefore, jsLone, jsSingle>>
  BY DEF JS!Rename, JS!At, JS!Saving
<1>2. /\ jsTask[t].op \in {"change", "evolve", "rollback"}
      /\ jsTask[t] \in Tasks
      /\ jsTmp \in JS!Inode
  BY <1>1 DEF StoresInv, StoresTypeOK, JS!At
<1>3. ~jsOverlapped' \/ jsSingle' =>
        /\ \A u \in StoreTasks : JS!Saving(u) => u = t
        /\ jsDisk[jsTmp] = jsTask[t].content
  BY <1>1 DEF StoresInv, StoresTypeOK, SaverIsAlone
<1>4. ~jsOverlapped' \/ jsSingle' => JS!Loaded' = jsTask[t].content /\ JS!Readable'
  <2>1. jsTask[t].content \in JS!Content /\ jsTmp # NoFile
    BY <1>1, <1>2 DEF Tasks
  <2> QED  BY <1>1, <1>3, <2>1 DEF JS!Loaded, JS!Readable
<1>5. JS!FileIsWhole'
  BY <1>4 DEF JS!FileIsWhole
<1>6. jsLone => jsSingle /\ \A u \in StoreTasks : ~JS!At(u, "idle") => u = t
  BY <1>1 DEF StoresInv, LoneIsRight, JS!At
<1>7. CASE jsTask[t].op = "change"
  <2>1. jsTask' = [jsTask EXCEPT ![t] = JS!Idle] /\ jsMixed' = (jsMixed /\ ~jsLone)
    BY <1>7 DEF JS!Rename, JS!Done
  <2>2. /\ jsTask' \in [StoreTasks -> Tasks]
        /\ JS!At(t, "idle")'
        /\ \A u \in StoreTasks : u # t => jsTask'[u] = jsTask[u]
        /\ \A u \in StoreTasks : ~JS!At(u, "idle")' => u # t /\ ~JS!At(u, "idle")
        /\ \A u \in StoreTasks : JS!Saving(u)' => u # t /\ JS!Saving(u)
        /\ jsLone => JS!Quiet'
    BY <1>1, <2>1, Ended DEF JS!At
  <2>3. StoresTypeOK'
    BY <1>1, <1>2, <2>1, <2>2 DEF StoresInv, StoresTypeOK, JS!At
  <2>4. SaverIsAlone'
    BY <1>1, <1>3, <2>2 DEF SaverIsAlone
  <2>5. LoneIsRight'
    BY <1>1, <2>2 DEF LoneIsRight, JS!Quiet
  <2>6. MemoryAgrees'
    <3>1. ~jsMixed' => jsLone
      BY <1>1, <2>1 DEF StoresInv, MemoryAgrees, JS!At
    <3>2. jsLone => JS!Loaded' = jsMemory' /\ JS!Quiet'
      BY <1>1, <1>4, <1>6, <1>7, <2>2 DEF StoresInv, LoneIsRight, JS!At
    <3> QED  BY <3>1, <3>2 DEF MemoryAgrees, JS!Quiet
  <2> QED  BY <1>5, <2>3, <2>4, <2>5, <2>6 DEF StoresInv
<1>8. CASE jsTask[t].op = "rollback" /\ jsTask[t].left
  <2>1. jsTask' = [jsTask EXCEPT ![t] = JS!Idle] /\ jsMixed' = TRUE
    BY <1>8 DEF JS!Rename, JS!Abandoned
  <2>2. ~jsOverlapped' \/ jsSingle => ~jsOverlapped \/ jsSingle
    BY <1>1 DEF StoresInv, StoresTypeOK
  <2>3. /\ jsDisk' \in [JS!Inode -> JS!Content \cup {Empty, Torn}] /\ jsDisk' = jsDisk
        /\ jsOverlapped' \in BOOLEAN /\ ~JS!At(t, "idle")
    BY <1>1 DEF StoresInv, StoresTypeOK, JS!At
  <2> QED  BY <1>1, <1>5, <2>1, <2>2, <2>3, AbandonedKeeps
<1>9. CASE jsTask[t].op \in {"evolve", "rollback"} /\ ~(jsTask[t].op = "rollback" /\ jsTask[t].left)
  <2> DEFINE next == IF jsTask[t].op = "evolve" THEN "set" ELSE "load"
             new == [jsTask[t] EXCEPT !.pc = next]
  <2>1. jsTask' = [jsTask EXCEPT ![t] = new] /\ jsMixed' = jsMixed
    BY <1>9 DEF JS!Rename, JS!Goto
  <2>2. /\ new \in Tasks /\ new.pc = next
        /\ new.op = jsTask[t].op /\ new.content = jsTask[t].content /\ new.inode = jsTask[t].inode
    BY <1>2 DEF Tasks, Pcs
  <2> HIDE DEF new
  <2>3. /\ jsTask' \in [StoreTasks -> Tasks] /\ jsTask'[t] = new
        /\ \A u \in StoreTasks : u # t => jsTask'[u] = jsTask[u]
    BY <2>1, <2>2 DEF StoresInv, StoresTypeOK
  <2>4. StoresTypeOK'
    BY <1>1, <1>2, <1>9, <2>1, <2>2, <2>3 DEF StoresInv, StoresTypeOK
  <2>5. SaverIsAlone'
    <3>1. \A u \in StoreTasks : JS!Saving(u)' => u # t /\ JS!Saving(u)
      BY <2>2, <2>3 DEF JS!Saving
    <3> QED  BY <1>1, <1>3, <3>1 DEF SaverIsAlone
  <2>6. LoneIsRight'
    BY <1>1, <1>4, <1>6, <1>9, <2>2, <2>3 DEF StoresInv, StoresTypeOK, LoneIsRight, JS!At, JS!Saving
  <2>7. MemoryAgrees'
    <3>1. ~jsMixed => jsLone /\ JS!Loaded' = jsTask[t].content
      BY <1>1, <1>4, <1>6 DEF StoresInv, MemoryAgrees, JS!At
    <3> QED  BY <1>1, <1>6, <1>9, <2>1, <2>2, <2>3, <3>1 DEF StoresInv, MemoryAgrees, JS!At, JS!Quiet
  <2> QED  BY <1>5, <2>4, <2>5, <2>6, <2>7 DEF StoresInv
<1> QED  BY <1>2, <1>7, <1>8, <1>9

(* A request that is dropped in an operation on the file is still seen to do it. *)
LEMMA DropKeeps ==
    ASSUME StoresInv, NEW t \in StoreTasks, JS!Drop(t)
    PROVE  StoresInv'
<1>1. /\ jsTask' = [jsTask EXCEPT ![t].left = TRUE]
      /\ UNCHANGED <<jsMemory, jsPath, jsTmp, jsDisk, jsOps, jsBefore, jsLone, jsMixed, jsSingle, jsOverlapped>>
  BY DEF JS!Drop
<1>2. /\ jsTask' \in [StoreTasks -> Tasks]
      /\ \A u \in StoreTasks : /\ jsTask'[u].op = jsTask[u].op /\ jsTask'[u].pc = jsTask[u].pc
                               /\ jsTask'[u].content = jsTask[u].content
                               /\ jsTask'[u].inode = jsTask[u].inode
  BY <1>1 DEF StoresInv, StoresTypeOK, Tasks
<1>3. JS!Loaded' = JS!Loaded /\ JS!Readable' = JS!Readable
  BY <1>1, LoadedStays
<1>4. StoresTypeOK'
  BY <1>1, <1>2 DEF StoresInv, StoresTypeOK
<1>5. SaverIsAlone' /\ LoneIsRight' /\ JS!FileIsWhole'
  BY <1>1, <1>2, <1>3 DEF StoresInv, SaverIsAlone, LoneIsRight, JS!FileIsWhole, JS!Saving, JS!At
<1>6. MemoryAgrees'
  BY <1>1, <1>2, <1>3 DEF StoresInv, MemoryAgrees, JS!Quiet, JS!At
<1> QED  BY <1>4, <1>5, <1>6 DEF StoresInv

(* A failure leaves the file, and the memory too unless it says so. *)
LEMMA FailKeeps ==
    ASSUME StoresInv, NEW t \in StoreTasks, JS!Fail(t)
    PROVE  StoresInv'
<1> DEFINE halfway == \/ jsTask[t].op = "change"
                      \/ jsTask[t].op \in {"reset", "rollback"} /\ jsTask[t].pc \in {"load", "set"}
           i == jsTask[t].inode
<1>1. /\ ~JS!At(t, "idle")
      /\ jsTask[t].op = "evolve" => jsTask[t].pc \notin {"load", "set"}
      /\ jsTask' = [jsTask EXCEPT ![t] = JS!Idle]
      /\ jsMixed' = (jsMixed \/ halfway)
      /\ UNCHANGED <<jsMemory, jsPath, jsTmp, jsOps, jsBefore, jsLone, jsSingle, jsOverlapped>>
  BY DEF JS!Fail
<1>2. \/ jsDisk' = jsDisk
      \/ JS!At(t, "write") /\ jsDisk' = [jsDisk EXCEPT ![i] = Torn]
  BY DEF JS!Fail
<1>3. /\ jsTask' \in [StoreTasks -> Tasks]
      /\ JS!At(t, "idle")'
      /\ \A u \in StoreTasks : u # t => jsTask'[u] = jsTask[u]
      /\ \A u \in StoreTasks : ~JS!At(u, "idle")' => u # t /\ ~JS!At(u, "idle")
      /\ \A u \in StoreTasks : JS!Saving(u)' => u # t /\ JS!Saving(u)
      /\ jsLone => JS!Quiet'
  BY <1>1, Ended
<1>4. StoresTypeOK'
  BY <1>1, <1>2, <1>3 DEF StoresInv, StoresTypeOK, JS!At
<1>5. ~jsOverlapped \/ jsSingle => (jsPath # NoFile => jsDisk'[jsPath] = jsDisk[jsPath])
  <2>1. CASE jsDisk' = jsDisk
    BY <2>1
  <2>2. CASE JS!At(t, "write") /\ jsDisk' = [jsDisk EXCEPT ![i] = Torn]
    <3>1. ~jsOverlapped \/ jsSingle => i = jsTmp
      BY <2>2 DEF StoresInv, SaverIsAlone, JS!Saving, JS!At
    <3> QED  BY <2>2, <3>1 DEF StoresInv, StoresTypeOK, SaverIsAlone
  <2> QED  BY <1>2, <2>1, <2>2
<1>6. ~jsOverlapped \/ jsSingle => JS!Loaded' = JS!Loaded /\ JS!Readable' = JS!Readable
  BY <1>1, <1>5, LoadedStays
<1>7. SaverIsAlone'
  <2>1. ~jsOverlapped \/ jsSingle => \A u \in StoreTasks : JS!Saving(u)' => jsDisk' = jsDisk
    BY <1>2, <1>3 DEF StoresInv, SaverIsAlone, JS!Saving, JS!At
  <2> QED  BY <1>1, <1>3, <2>1 DEF StoresInv, SaverIsAlone, JS!At
<1>8. JS!FileIsWhole'
  BY <1>1, <1>6 DEF StoresInv, JS!FileIsWhole
<1>9. LoneIsRight'
  BY <1>1, <1>3 DEF LoneIsRight, JS!Quiet
<1>10. MemoryAgrees'
  <2> SUFFICES ASSUME ~jsMixed, ~halfway
               PROVE  JS!Quiet' /\ JS!Loaded' = jsMemory
    BY <1>1 DEF MemoryAgrees, JS!Quiet
  <2>1. jsLone
    BY <1>1 DEF StoresInv, MemoryAgrees
  <2>2. jsTask[t].pc \in Pcs \ {"idle"} /\ jsTask[t].op \in Ops
    BY <1>1 DEF StoresInv, StoresTypeOK, Tasks, JS!At
  <2>3. JS!Loaded = jsMemory
    <3>1. CASE jsTask[t].pc \in {"open", "write", "rename", "remove"}
      BY <1>1, <3>1 DEF StoresInv, MemoryAgrees, JS!At
    <3>2. CASE jsTask[t].pc = "load"
      BY <1>1, <3>2 DEF StoresInv, MemoryAgrees, JS!At
    <3>3. CASE jsTask[t].pc = "set"
      <4>1. jsTask[t].op \in {"get", "snapshot"}
        BY <1>1, <2>2, <3>3 DEF StoresInv, StoresTypeOK, Ops
      <4> QED  BY <1>1, <3>3, <4>1 DEF StoresInv, MemoryAgrees, JS!At
    <3> QED  BY <2>2, <3>1, <3>2, <3>3 DEF Pcs
  <2>4. JS!Loaded' = JS!Loaded
    <3>1. CASE jsDisk' = jsDisk
      BY <1>1, <3>1, LoadedStays
    <3>2. CASE JS!At(t, "write")
      <4>1. jsSingle
        BY <1>1, <2>1, <3>2 DEF StoresInv, LoneIsRight, JS!Saving, JS!At
      <4> QED  BY <1>6, <4>1
    <3> QED  BY <1>2, <3>1, <3>2
  <2> QED  BY <1>3, <2>1, <2>3, <2>4
<1> QED  BY <1>4, <1>7, <1>8, <1>9, <1>10 DEF StoresInv

(* The memory is loaded from the file, whatever it is. *)
LEMMA RestartKeeps ==
    ASSUME StoresInv, JS!Restart
    PROVE  StoresInv'
<1>1. /\ jsTask' = [t \in StoreTasks |-> JS!Idle]
      /\ jsMemory' = JS!Loaded /\ jsMixed' = FALSE
      /\ UNCHANGED <<jsPath, jsTmp, jsDisk, jsOps, jsBefore, jsLone, jsSingle, jsOverlapped>>
  BY DEF JS!Restart
<1>2. JS!Loaded' = JS!Loaded /\ JS!Readable' = JS!Readable
  BY <1>1, LoadedStays
<1>3. JS!Idle \in Tasks /\ JS!Idle.pc = "idle"
  BY Constants DEF Tasks, Ops, Pcs, JS!Idle
<1>4. jsTask' \in [StoreTasks -> Tasks] /\ \A t \in StoreTasks : jsTask'[t].pc = "idle"
  BY <1>1, <1>3
<1>5. StoresTypeOK'
  BY <1>1, <1>4, LoadedIsContent DEF StoresInv, StoresTypeOK
<1>6. SaverIsAlone' /\ LoneIsRight' /\ MemoryAgrees'
  BY <1>1, <1>2, <1>4 DEF StoresInv, SaverIsAlone, LoneIsRight, MemoryAgrees, JS!Saving, JS!At
<1>7. JS!FileIsWhole'
  BY <1>1, <1>2 DEF StoresInv, JS!FileIsWhole
<1> QED  BY <1>5, <1>6, <1>7 DEF StoresInv

-----------------------------------------------------------------------------
LEMMA NextKeeps ==
    ASSUME StoresInv, JS!Next
    PROVE  StoresInv'
BY BeginsKeep, LoadKeeps, SetKeeps, RemoveKeeps, OpenKeeps, WriteKeeps, RenameKeeps, DropKeeps, FailKeeps,
   RestartKeeps
   DEF JS!Next

(* The other views leave the variables alone. *)
LEMMA StoresElsewhere ==
    ASSUME StoresInv, UNCHANGED stores
    PROVE  StoresInv'
<1> USE DEF StoresInv, stores
<1>1. StoresTypeOK' /\ JS!FileIsWhole'
  BY DEF StoresTypeOK, JS!FileIsWhole, JS!Readable
<1>2. SaverIsAlone' /\ LoneIsRight' /\ MemoryAgrees'
  BY LoadedStays DEF SaverIsAlone, LoneIsRight, MemoryAgrees, JS!Saving, JS!At, JS!Quiet
<1> QED  BY <1>1, <1>2

(* What a save that is alone leaves in file and memory, and how far the two differ on its way, with  *)
(* failing saves, restarts and requests dropped at any step, whose write, rename or removal goes on  *)
(* (rule_engine.rs save, history.rs save, policy_store.rs save_override, reset_override).            *)
THEOREM StoresAreInvariant == ServerSpec => []StoresInv
<1>1. ServerInit => StoresInv
  BY StoresStart DEF ServerInit
<1>2. StoresInv /\ [ServerNext]_serverVars => StoresInv'
  BY NextKeeps, StoresElsewhere DEF ServerNext, Tools, Queries, Stores, serverVars
<1> QED  BY <1>1, <1>2, PTL DEF ServerSpec

(* A restart at any step finds a whole file, unless two saves were under way at once, and in it *)
(* what the memory holds or what an operation is changing it from or to, unless operations      *)
(* overlapped, or one failed or was dropped half way, since the last one that was alone         *)
(* (rule_engine.rs save, history.rs save, policy_store.rs save_override, main.rs get_history).  *)
THEOREM StoresAlwaysSurvive == ServerSpec => []StoresSurvive
<1>1. StoresInv => StoresSurvive
  <2> SUFFICES ASSUME StoresInv, ~jsMixed
               PROVE  JS!RestartFindsMemory
    BY DEF StoresInv, StoresSurvive, JS!RestartFindsMemory
  <2>1. CASE JS!Quiet
    BY <2>1 DEF StoresInv, MemoryAgrees, JS!RestartFindsMemory
  <2>2. ASSUME NEW t \in StoreTasks, ~JS!At(t, "idle")
        PROVE  JS!Loaded = jsMemory \/ JS!Loaded \in {jsBefore, jsTask[t].content}
    <3>1. jsTask[t].pc \in Pcs
      BY DEF StoresInv, StoresTypeOK, Tasks
    <3> QED  BY <2>2, <3>1 DEF StoresInv, MemoryAgrees, LoneIsRight, Pcs, JS!At
  <2> QED  BY <2>1, <2>2 DEF JS!Quiet, JS!RestartFindsMemory
<1> QED  BY <1>1, StoresAreInvariant, PTL
=============================================================================
