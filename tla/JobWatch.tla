------------------------------ MODULE JobWatch -------------------------------
(***************************************************************************)
(* The screens that start a job of the server and ask for its status every   *)
(* few seconds (web-ui PerfSync, goLive/GoLive, ImportWizard, the export of  *)
(* WizardModal, DataTransfer).  An interval does not wait for the answer     *)
(* before: two questions of one job can be under way.  The first two screens *)
(* apply every answer; the others watch in an effect with a flag, and what   *)
(* the effect before asked is not applied.  The jobs are SyncJobs and        *)
(* ToolJobs; here a job is its status.                                      *)
(***************************************************************************)
EXTENDS Integers, FiniteSets

CONSTANTS WatchJobs,    \* ids of the jobs
          MaxQuestions, \* bound on the questions under way; one more waits for the interval
          MaxStarts     \* bound on the jobs a screen starts, and on the toasts

Screens == {"perf", "golive", "import", "export", "transfer"}
Ended   == {"completed", "error", "canceled"}

VARIABLES jwScreen,
          jwServer,   \* status of each job on the server; "none" for an id the server does not know
          jwId,       \* jobId, 0 for none
          jwJob,      \* job: the answer that is shown
          jwReport,   \* finalPayload or result: the job it came from, 0 for none
          jwLoading, jwError,
          jwBroken,   \* pollInterrupted: the job, 0 for none
          jwTimer,    \* the job the interval asks for, 0 when it is cleared or its flag is down
          jwAsked,    \* questions under way
          jwStarts,   \* starts under way
          jwFill,     \* confirmFill
          jwStop,     \* the job a cancel under way is about, 0 for none
          jwRuns,
          jwMixed     \* a mark of the model: the screen had to do with two jobs, or with an answer after the last one

jwVars == <<jwScreen, jwServer, jwId, jwJob, jwReport, jwLoading, jwError, jwBroken, jwTimer,
            jwAsked, jwStarts, jwFill, jwStop, jwRuns, jwMixed>>
shown == <<jwId, jwJob, jwReport, jwLoading, jwError, jwBroken, jwFill>>
watch == <<jwTimer, jwAsked, jwMixed>>

NoJob == [of |-> 0, status |-> "none"]
Is(screens) == jwScreen \in screens
Guarded == Is({"import", "export", "transfer"})
Running == jwJob.status = "running"

Init ==
    /\ jwScreen \in Screens
    /\ jwServer = [j \in WatchJobs |-> IF j = 1 THEN "running" ELSE "none"]  \* 1 comes from an earlier visit
    /\ jwId = 0 /\ jwJob = NoJob /\ jwReport = 0 /\ jwLoading = FALSE /\ jwError = FALSE
    /\ jwBroken = 0 /\ jwTimer = 0 /\ jwAsked = {} /\ jwStarts = {} /\ jwFill = FALSE
    /\ jwStop = 0 /\ jwRuns = 0 /\ jwMixed = FALSE

-----------------------------------------------------------------------------
(* The watch. *)

Slots == 1..MaxQuestions
Question(asked, j) == [n |-> CHOOSE n \in Slots : \A q \in asked : q.n # n, of |-> j, answer |-> "none"]

(* startPolling, or the effect for a new job id or poll key: one question goes out at once. *)
Watch(j) ==
    LET kept == IF Guarded THEN {} ELSE jwAsked
    IN  /\ jwTimer' = j
        /\ jwAsked' = IF Cardinality(kept) < MaxQuestions THEN kept \cup {Question(kept, j)} ELSE kept
        /\ jwMixed' = (jwMixed \/ (\E q \in kept : q.of # j) \/ jwReport \notin {0, j})

(* The interval. *)
Tick ==
    /\ jwTimer # 0 /\ Cardinality(jwAsked) < MaxQuestions
    /\ jwAsked' = jwAsked \cup {Question(jwAsked, jwTimer)}
    /\ UNCHANGED <<jwScreen, jwServer, shown, jwTimer, jwStarts, jwStop, jwRuns, jwMixed>>

(* An id that was typed wrong, or that the server forgot when it restarted. *)
Unknown(j) == jwServer[j] = "none"

(* 404 is an error like another, but for PerfSync. *)
Lost == IF Is({"perf"}) THEN {"gone"} ELSE {}

ServerAnswers(q) ==
    /\ q.answer = "none"
    /\ \E answer \in {"failed"} \cup (IF Unknown(q.of) THEN Lost ELSE {jwServer[q.of]}) :
         jwAsked' = (jwAsked \ {q}) \cup {[q EXCEPT !.answer = answer]}
    /\ UNCHANGED <<jwScreen, jwServer, shown, jwTimer, jwStarts, jwStop, jwRuns, jwMixed>>

(* Mutant: a canceled job is not over. *)
NotOver(answer) == answer \notin {"completed", "error"}

Over(answer) == answer \in Ended
Broken(answer) == answer \in {"failed", "gone"}

(* The answer stops the watch: every one that has begun, or the one of this effect. *)
Unwatched(q) ==
    IF Over(q.answer) \/ Broken(q.answer)
    THEN jwTimer' = 0 /\ jwAsked' = IF Guarded THEN {} ELSE jwAsked \ {q}
    ELSE jwTimer' = jwTimer /\ jwAsked' = jwAsked \ {q}

(* Mutant: the watch ends without a word. *)
NothingBroken(q) == jwBroken

(* setPollInterrupted *)
Interrupted(q) ==
    IF \/ Is({"golive", "import", "export"}) /\ Broken(q.answer)
       \/ Is({"perf"}) /\ q.answer = "failed"
    THEN q.of
    ELSE IF Is({"import", "export"}) /\ Over(q.answer) THEN 0 ELSE jwBroken

(* The wizard closes, and its next opening is a new one. *)
Closed ==
    /\ jwId' = 0 /\ jwJob' = NoJob /\ jwReport' = 0 /\ jwLoading' = FALSE /\ jwError' = FALSE
    /\ jwBroken' = 0 /\ jwFill' = FALSE /\ jwTimer' = 0 /\ jwAsked' = {} /\ jwStarts' = {}
    /\ UNCHANGED jwMixed

(* normalizeJobStatus and its like: the answer as it is shown. *)
Shown(q) == IF Is({"transfer"}) \/ Broken(q.answer) THEN jwJob ELSE [of |-> q.of, status |-> q.answer]

Answered(q) ==
    /\ q.answer # "none"
    /\ IF Is({"import", "transfer"}) /\ q.answer = "completed" THEN Closed
       ELSE /\ Unwatched(q)
            /\ jwJob' = Shown(q)
            /\ jwId' = IF Is({"transfer"}) /\ jwTimer' = 0 THEN 0 ELSE jwId
            /\ jwLoading' = (jwLoading /\ (Is({"golive"}) \/ ~(Over(q.answer) \/ Broken(q.answer))))
            /\ jwReport' = IF Is({"perf", "export"}) /\ q.answer = "completed" THEN q.of ELSE jwReport
            /\ jwBroken' = Interrupted(q)
            /\ jwError' = (jwError \/ (Is({"perf", "import"}) /\ q.answer \in {"error", "canceled"})
                                   \/ (Is({"perf"}) /\ q.answer = "gone"))
            /\ jwMixed' = (jwMixed \/ (jwTimer' = 0 /\ jwAsked' # {}))
            /\ UNCHANGED <<jwFill, jwStarts>>
    /\ UNCHANGED <<jwScreen, jwServer, jwStop, jwRuns>>

(* A toast renders WizardModal again, and with it the callback the effect of the import depends on. *)
Rerender ==
    /\ Is({"import"}) /\ jwId # 0 /\ Watch(jwId)
    /\ jwRuns < MaxStarts /\ jwRuns' = jwRuns + 1
    /\ UNCHANGED <<jwScreen, jwServer, shown, jwStarts, jwStop>>

-----------------------------------------------------------------------------
(* Starts. *)

Start(phase, fill) ==
    /\ jwRuns < MaxStarts /\ jwRuns' = jwRuns + 1
    /\ jwStarts' = jwStarts \cup {[n |-> jwRuns, phase |-> phase, job |-> 0, fill |-> fill]}
    /\ jwLoading' = TRUE

(* What PerfSync shows of the last run is gone; a job it resumed is still polled. *)
ClearedForRun ==
    /\ jwId' = 0 /\ jwJob' = NoJob /\ jwReport' = 0 /\ jwBroken' = 0 /\ jwError' = FALSE
    /\ jwMixed' = (jwMixed \/ jwTimer # 0 \/ jwAsked # {})

PerfRun ==
    /\ Is({"perf"}) /\ ~jwLoading
    /\ Start("check", FALSE) /\ ClearedForRun /\ jwFill' = FALSE
    /\ UNCHANGED <<jwScreen, jwServer, jwTimer, jwAsked, jwStop>>
GoLiveRun ==
    /\ Is({"golive"}) /\ ~jwLoading /\ ~Running
    /\ Start("start", FALSE)
    /\ UNCHANGED <<jwScreen, jwServer, jwId, jwJob, jwReport, jwError, jwBroken, jwFill, watch, jwStop>>
ImportRun ==
    /\ Is({"import"}) /\ ~jwLoading /\ jwId = 0
    /\ Start("start", FALSE) /\ jwError' = FALSE /\ jwBroken' = 0
    /\ UNCHANGED <<jwScreen, jwServer, jwId, jwJob, jwReport, jwFill, watch, jwStop>>
ExportRun ==
    /\ Is({"export"}) /\ ~jwLoading /\ ~Running
    /\ Start("start", FALSE)
    /\ UNCHANGED <<jwScreen, jwServer, jwId, jwJob, jwReport, jwError, jwBroken, jwFill, watch, jwStop>>
(* Execute is enabled again as soon as its job has started. *)
TransferRun ==
    /\ Is({"transfer"}) /\ ~jwLoading
    /\ Start("start", FALSE)
    /\ UNCHANGED <<jwScreen, jwServer, jwId, jwJob, jwReport, jwError, jwBroken, jwFill, watch, jwStop>>

(* handleCheck of a run: too few rows ask for a confirmation; an error is shown and the run goes on. *)
Checked(a) ==
    /\ a.phase = "check"
    /\ \/ /\ jwStarts' = jwStarts \ {a} /\ jwLoading' = FALSE /\ jwFill' = TRUE /\ UNCHANGED jwError
       \/ /\ jwStarts' = (jwStarts \ {a}) \cup {[a EXCEPT !.phase = "start"]}
          /\ jwError' \in {jwError, TRUE} /\ UNCHANGED <<jwLoading, jwFill>>
    /\ UNCHANGED <<jwScreen, jwServer, jwId, jwJob, jwReport, jwBroken, watch, jwStop, jwRuns>>

ConfirmFill ==
    /\ jwFill /\ ~jwLoading
    /\ Start("start", TRUE) /\ ClearedForRun /\ UNCHANGED jwFill
    /\ UNCHANGED <<jwScreen, jwServer, jwTimer, jwAsked, jwStop>>
CloseFill ==
    /\ jwFill /\ ~jwLoading /\ jwFill' = FALSE
    /\ UNCHANGED <<jwScreen, jwServer, jwId, jwJob, jwReport, jwLoading, jwError, jwBroken, watch,
                   jwStarts, jwStop, jwRuns>>

(* The server starts a job or refuses; the answer may be lost. *)
ServerStarts(a) ==
    /\ a.phase = "start"
    /\ \/ \E j \in {i \in WatchJobs : jwServer[i] = "none"}, phase \in {"started", "failed"} :
            /\ jwServer' = [jwServer EXCEPT ![j] = "pending"]
            /\ jwStarts' = (jwStarts \ {a}) \cup {[a EXCEPT !.phase = phase, !.job = j]}
       \/ /\ jwStarts' = (jwStarts \ {a}) \cup {[a EXCEPT !.phase = "failed"]} /\ UNCHANGED jwServer
    /\ UNCHANGED <<jwScreen, shown, watch, jwStop, jwRuns>>

Started(a) ==
    /\ a.phase = "started" /\ jwStarts' = jwStarts \ {a}
    /\ Watch(a.job) /\ jwId' = a.job
    /\ jwJob' = IF Is({"perf"}) THEN [of |-> a.job, status |-> "queued"] ELSE jwJob
    /\ jwReport' = IF Is({"export"}) THEN 0 ELSE jwReport
    /\ jwBroken' = IF Is({"perf", "golive", "export"}) THEN 0 ELSE jwBroken
    /\ jwLoading' = (jwLoading /\ ~Is({"golive", "transfer"}))
    /\ jwFill' = (jwFill /\ ~a.fill)
    /\ UNCHANGED <<jwScreen, jwServer, jwError, jwStop, jwRuns>>

StartFails(a) ==
    /\ a.phase = "failed" /\ jwStarts' = jwStarts \ {a}
    /\ jwLoading' = FALSE /\ jwError' = (jwError \/ Is({"perf", "import"}))
    /\ UNCHANGED <<jwScreen, jwServer, jwId, jwJob, jwReport, jwBroken, jwFill, watch, jwStop, jwRuns>>

-----------------------------------------------------------------------------
(* Resume, continue, cancel. *)

(* startPolling of the id that was typed or kept in localStorage. *)
Resume(j) ==
    /\ Is({"perf", "golive"}) /\ ~jwLoading
    /\ Watch(j) /\ jwId' = j /\ jwBroken' = 0
    /\ UNCHANGED <<jwScreen, jwServer, jwJob, jwReport, jwLoading, jwError, jwFill, jwStarts, jwStop, jwRuns>>

(* resumePolling, resumeExportJob *)
ResumeInEffect(j) ==
    /\ Is({"import", "export"}) /\ ~jwLoading /\ (Is({"export"}) => ~Running)
    /\ Watch(j) /\ jwId' = j /\ jwBroken' = 0 /\ jwJob' = NoJob /\ jwReport' = 0 /\ jwError' = FALSE
    /\ jwLoading' = TRUE
    /\ UNCHANGED <<jwScreen, jwServer, jwFill, jwStarts, jwStop, jwRuns>>

Continue ==
    /\ jwBroken # 0 /\ jwBroken' = 0
    /\ IF Guarded THEN Watch(jwId) /\ jwLoading' = TRUE /\ UNCHANGED jwId
       ELSE Watch(jwBroken) /\ jwId' = jwBroken /\ UNCHANGED jwLoading
    /\ UNCHANGED <<jwScreen, jwServer, jwJob, jwReport, jwError, jwFill, jwStarts, jwStop, jwRuns>>

(* handleCancelJob, cancelExportJob; the import's button is disabled as long as the import loads. *)
Cancel ==
    /\ jwId # 0 /\ jwStop = 0
    /\ \/ Is({"golive"}) /\ Running /\ ~jwLoading
       \/ Is({"import"}) /\ ~jwLoading
       \/ Is({"export"}) /\ Running
    /\ jwStop' = jwId /\ jwLoading' = TRUE
    /\ UNCHANGED <<jwScreen, jwServer, jwId, jwJob, jwReport, jwError, jwBroken, jwFill, watch, jwStarts, jwRuns>>

Stopped(j) == IF jwServer[j] \in {"pending", "running"} THEN [jwServer EXCEPT ![j] = "canceled"] ELSE jwServer

CancelAnswered ==
    /\ jwStop # 0 /\ jwStop' = 0 /\ jwLoading' = FALSE
    /\ \/ /\ jwServer' = Stopped(jwStop)
          /\ IF Is({"golive"}) THEN Watch(jwStop) /\ jwId' = jwStop /\ jwBroken' = 0
             ELSE UNCHANGED <<watch, jwId, jwBroken>>
       \/ UNCHANGED <<jwServer, watch, jwId, jwBroken>>
    /\ UNCHANGED <<jwScreen, jwJob, jwReport, jwError, jwFill, jwStarts, jwRuns>>

(* handleCancel of DataTransfer: the job is canceled, or not, and the wizard closes. *)
CancelTransfer ==
    /\ Is({"transfer"}) /\ ~jwLoading
    /\ jwServer' \in {jwServer} \cup (IF jwId = 0 THEN {} ELSE {Stopped(jwId)})
    /\ Closed
    /\ UNCHANGED <<jwScreen, jwStop, jwRuns>>

ServerRuns(j) ==
    /\ \/ jwServer[j] = "pending" /\ jwServer' = [jwServer EXCEPT ![j] = "running"]
       \/ jwServer[j] = "running" /\ \E s \in {"completed", "error"} : jwServer' = [jwServer EXCEPT ![j] = s]
    /\ UNCHANGED <<jwScreen, shown, watch, jwStarts, jwStop, jwRuns>>

Runs == PerfRun \/ GoLiveRun \/ ImportRun \/ ExportRun \/ TransferRun \/ ConfirmFill \/ CloseFill
StartSteps(a) == Checked(a) \/ ServerStarts(a) \/ Started(a) \/ StartFails(a)
(* These three and the interval go on by themselves. *)
Answers == \E q \in jwAsked : ServerAnswers(q) \/ Answered(q)
Requests == CancelAnswered \/ \E a \in jwStarts : StartSteps(a)
Jobs == \E j \in WatchJobs : ServerRuns(j)

Next ==
    \/ Runs \/ Continue \/ Cancel \/ CancelTransfer \/ Rerender
    \/ \E j \in WatchJobs : Resume(j) \/ ResumeInEffect(j)
    \/ Tick \/ Answers \/ Requests \/ Jobs

-----------------------------------------------------------------------------

(* The job a screen names is watched, shown as ended, or reported as interrupted or failed: a  *)
(* watch never stops without a word, unless two jobs were polled at once, the report of another *)
(* was still shown, or an older answer came last (startPolling, setPollInterrupted).            *)
NoSilentStop ==
    ~jwMixed /\ jwId # 0 =>
        \/ jwTimer = jwId \/ jwBroken = jwId \/ jwError
        \/ jwJob.of = jwId /\ jwJob.status \in Ended
=============================================================================
