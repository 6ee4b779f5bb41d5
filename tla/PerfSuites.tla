------------------------------ MODULE PerfSuites ------------------------------
(***************************************************************************)
(* The full suites of the diagnostics tab (web-ui PerfDiagnosticsPanel): the *)
(* list of suites, kept in localStorage and in the archive of the server,    *)
(* the suite that is shown, the one it is compared with, the locked baseline *)
(* and the archived reports of pairs.  Effects ask for what belongs to the   *)
(* shown suite and drop the answers to older questions; the handlers apply   *)
(* whatever arrives, and some write back a list they read before they waited.*)
(***************************************************************************)
EXTENDS Integers, Sequences, SequencesExt, FiniteSets

CONSTANTS Suites,       \* ids, in the order the suites are run
          SuiteLimit,   \* PERF_SUITE_LIMIT
          MaxSteps      \* bound on the clicks


VARIABLES psArchive, psServerPin,
          psServerDiffs, \* archived pairs <<current, baseline>>, oldest first
          psClass,       \* the connection each suite ran on, 0 before it ran
          psStored, psStoredPin,                          \* localStorage
          psHistory, psPin, psMode, psReport, psCompare,  \* suiteHistory, pinnedSuiteBaseline, ..., compareSuiteId
          psFilter,      \* sameConnectionOnly; sameBuildVersionOnly is a test of the same kind
          psDiffs, psLoading, psArchived,                 \* suiteDiffHistory, archivedSuiteDiff
          psAsked,       \* requests under way
          psClicks,
          psLate         \* a mark of the model: a pair was archived when another one was already shown

psVars == <<psArchive, psServerPin, psServerDiffs, psClass, psStored, psStoredPin, psHistory, psPin,
            psMode, psReport, psCompare, psFilter, psDiffs, psLoading, psArchived, psAsked, psClicks,
            psLate>>
server == <<psArchive, psServerPin, psServerDiffs, psClass>>

Seen(history) == {history[i] : i \in DOMAIN history}
FirstOf(history) == IF history = <<>> THEN 0 ELSE history[1]
Cut(history) == [i \in DOMAIN history \cap (1..SuiteLimit) |-> history[i]]

(* mergePerfSuiteHistory *)
Merge(primary, secondary) ==
    LET all == primary \o secondary
        first == {i \in DOMAIN all : \A k \in 1..(i - 1) : all[k] # all[i]}
    IN  Cut([n \in 1..Cardinality(first) |->
               all[CHOOSE i \in first : Cardinality({k \in first : k < i}) = n - 1]])

(* diagnostics_perf_suite_list: newest first. *)
Recent(archive) == Cut(Reverse(SetToSortSeq(archive, <)))

Ask(kind, of, base, was) == [kind |-> kind, of |-> of, base |-> base, was |-> was, gone |-> FALSE]
Under(kind) == \E r \in psAsked : r.kind = kind /\ ~r.gone

-----------------------------------------------------------------------------
(* What the effects make of a change. *)

(* suiteCompareCandidates *)
Candidates(history, report, filter, class) ==
    IF report = 0 THEN <<>>
    ELSE SelectSeq(history, LAMBDA s : s # report /\ (filter => class[s] = class[report]))

(* The suite that is shown is one of the list. *)
ShownOf(history, report) == IF report \in Seen(history) THEN report ELSE FirstOf(history)

(* The compared suite is one of the candidates; when it is not, the locked baseline comes first. *)
ComparedOf(candidates, compare, pin) ==
    CASE compare \in Seen(candidates) -> compare
      [] compare \notin Seen(candidates) /\ pin \in Seen(candidates) -> pin
      [] Seen(candidates) \cap {compare, pin} = {} -> FirstOf(candidates)

(* Mutant: the answer to an older question is applied. *)
NothingSuperseded(asked) == asked

(* The cancelled flag of the effects. *)
Superseded(asked) == {r \in asked : r.kind \notin {"diffs", "pair"}}

(* A change of the list, the shown suite, the compared one, the baseline, the filter or the mode. *)
Render(asked, history, report, compare, pin, filter, mode, archived, fresh) ==
    LET shown    == ShownOf(history, report)
        compared == ComparedOf(Candidates(history, shown, filter, psClass'), compare, pin)
        backend  == mode = "backend" /\ shown # 0
        again    == fresh \/ shown # psReport \/ mode # psMode
        pair     == again \/ compared # psCompare
        diffs    == IF again /\ backend THEN {Ask("diffs", shown, 0, <<>>)}
                    ELSE {r \in asked : r.kind = "diffs" /\ backend /\ ~again}
        pairs    == IF ~backend \/ compared = 0 THEN {}
                    ELSE IF pair THEN {Ask("pair", shown, compared, <<>>)}
                    ELSE {r \in asked : r.kind = "pair"}
    IN  /\ psHistory' = history /\ psReport' = shown /\ psCompare' = compared
        /\ psPin' = pin /\ psFilter' = filter /\ psMode' = mode
        /\ psAsked' = Superseded(asked) \cup diffs \cup pairs
        /\ psLoading' = IF ~backend THEN FALSE ELSE (again \/ psLoading)
        /\ psDiffs' = IF backend THEN psDiffs ELSE {}
        /\ psArchived' = IF backend /\ compared # 0 THEN archived ELSE <<0, 0>>

-----------------------------------------------------------------------------
(* Opening and closing the tab. *)

(* What a new panel takes from localStorage before anything is answered. *)
Opened(asked, stored, pin) ==
    LET locked  == IF pin = 0 THEN <<>> ELSE <<pin>>
        history == Merge(locked, stored)
        report  == IF stored = <<>> THEN pin ELSE stored[1]
        recent  == Ask("list", pin, 0, stored)
    IN  /\ psHistory' = history /\ psPin' = pin /\ psMode' = "local" /\ psReport' = report
        /\ psFilter' = TRUE /\ psDiffs' = {} /\ psLoading' = FALSE /\ psArchived' = <<0, 0>>
        /\ psCompare' = ComparedOf(Candidates(history, report, TRUE, psClass), 0, pin)
        /\ psAsked' = asked \cup {recent, Ask("baseline", psServerPin, 0, <<>>)}

(* All suites but the last one were run before; the server or the browser may have lost them, and the *)
(* first one may be the baseline. *)
Earlier == {s \in Suites : \E t \in Suites : s < t}
First   == CHOOSE s \in Suites : \A t \in Suites : s <= t
Init ==
    /\ psArchive \in {{}, Earlier} /\ psServerPin \in {0} \cup (psArchive \cap {First})
    /\ psServerDiffs \in {<<>>} \cup {<<<<s, First>>>> : s \in psArchive \ {First}}
    /\ psClass = [s \in Suites |-> IF s \in Earlier THEN 1 ELSE 0]
    /\ psStored \in {<<>>, Recent(Earlier)}
    /\ psStoredPin \in {0, First}
    /\ psHistory = <<>> /\ psPin = 0 /\ psMode = "closed" /\ psReport = 0 /\ psCompare = 0
    /\ psFilter = TRUE /\ psDiffs = {} /\ psLoading = FALSE /\ psArchived = <<0, 0>>
    /\ psAsked = {} /\ psClicks = 0 /\ psLate = FALSE

Click == psClicks < MaxSteps /\ psClicks' = psClicks + 1
IsOpen == psMode # "closed"

Open ==
    /\ ~IsOpen /\ Opened(psAsked, psStored, psStoredPin)
    /\ UNCHANGED <<server, psStored, psStoredPin, psClicks, psLate>>

(* The flags of the effects drop their answers; a handler runs on and sets nothing but localStorage. *)
Close ==
    /\ IsOpen /\ Click /\ psMode' = "closed"
    /\ psHistory' = <<>> /\ psPin' = 0 /\ psReport' = 0 /\ psCompare' = 0 /\ psFilter' = TRUE
    /\ psDiffs' = {} /\ psLoading' = FALSE /\ psArchived' = <<0, 0>>
    /\ psAsked' = {[r EXCEPT !.gone = TRUE] :
                     r \in {q \in Superseded(psAsked) : q.kind \notin {"list", "baseline"}}}
    /\ UNCHANGED <<server, psStored, psStoredPin, psLate>>

-----------------------------------------------------------------------------
(* Clicks. *)

Begin(r) == psAsked' = psAsked \cup {r}
Shown == <<psHistory, psPin, psMode, psReport, psCompare, psFilter, psDiffs, psLoading, psArchived>>

(* handleRunFullSuite: the list it will write back is the one of the click. *)
Run ==
    /\ IsOpen /\ ~Under("run") /\ Click /\ psClass' = psClass
    /\ Render(psAsked \cup {Ask("run", 0, 0, psHistory)}, psHistory, 0, psCompare, psPin,
              psFilter, psMode, psArchived, TRUE)
    /\ UNCHANGED <<psArchive, psServerPin, psServerDiffs, psStored, psStoredPin, psLate>>

(* handlePinSuiteBaseline *)
Pin ==
    /\ IsOpen /\ psReport \notin {0, psPin} /\ ~Under("pin") /\ Click
    /\ Begin(Ask("pin", psReport, 0, <<>>))
    /\ UNCHANGED <<server, psStored, psStoredPin, Shown, psLate>>

(* applySuiteReportSelection *)
Apply(asked, s) == Render(asked, psHistory, s, 0, psPin, psFilter, psMode, psArchived, TRUE)

(* handleSelectSuiteReport *)
Select(s) ==
    /\ IsOpen /\ s \in Seen(psHistory) /\ Click /\ psClass' = psClass
    /\ IF psMode = "backend" THEN Begin(Ask("select", s, 0, <<>>)) /\ UNCHANGED Shown
       ELSE Apply(psAsked, s)
    /\ UNCHANGED <<psArchive, psServerPin, psServerDiffs, psStored, psStoredPin, psLate>>

(* The select of the compared suite, the check box of the filter. *)
Choose(s) ==
    /\ IsOpen /\ s \in Seen(Candidates(psHistory, psReport, psFilter, psClass)) \ {psCompare} /\ Click
    /\ psClass' = psClass
    /\ Render(psAsked, psHistory, psReport, s, psPin, psFilter, psMode, psArchived, FALSE)
    /\ UNCHANGED <<psArchive, psServerPin, psServerDiffs, psStored, psStoredPin, psLate>>
Filter ==
    /\ IsOpen /\ psReport # 0 /\ Click /\ psClass' = psClass
    /\ Render(psAsked, psHistory, psReport, psCompare, psPin, ~psFilter, psMode, psArchived, FALSE)
    /\ UNCHANGED <<psArchive, psServerPin, psServerDiffs, psStored, psStoredPin, psLate>>

(* handleArchiveSuiteDiffReport *)
Archive ==
    /\ IsOpen /\ psCompare # 0 /\ ~Under("archive") /\ Click
    /\ Begin(Ask("archive", psReport, psCompare, <<>>))
    /\ UNCHANGED <<server, psStored, psStoredPin, Shown, psLate>>

(* The pair of a record is in the list, the one read at the click, or it is not. *)
Restored(asked, r) ==
    LET merged == Merge(<<r.of, r.base>>, r.was)
    IN  /\ psStored' = merged
        /\ IF r.gone THEN psAsked' = asked /\ UNCHANGED Shown
           ELSE Render(asked, merged, r.of, r.base, psPin, psFilter, "backend", <<r.of, r.base>>, TRUE)

(* handleLoadArchivedSuiteDiff: both filters go off at once. *)
Load(d) ==
    LET r == Ask("load", d[1], d[2], psHistory)
    IN  /\ IsOpen /\ d \in psDiffs /\ Click /\ psClass' = psClass
        /\ IF {d[1], d[2]} \subseteq Seen(psHistory)
           THEN /\ psStored' = Merge(<<d[1], d[2]>>, psHistory)
                /\ Render(psAsked, psStored', d[1], d[2], psPin, FALSE, "backend", d, TRUE)
           ELSE /\ Render(psAsked \cup {r}, psHistory, psReport, psCompare, psPin, FALSE, psMode,
                          psArchived, FALSE)
                /\ UNCHANGED psStored
    /\ UNCHANGED <<psArchive, psServerPin, psServerDiffs, psStoredPin, psLate>>

-----------------------------------------------------------------------------
(* Answers. *)

(* listPerfSuites of the mount: the archive as it is now, or as it was when the tab opened. *)
ListAnswered(r) ==
    LET remote == Recent(psArchive)
        merged == Merge((IF r.of = 0 THEN <<>> ELSE <<r.of>>) \o remote, r.was)
        rest   == psAsked \ {r}
    IN  /\ r.kind = "list" /\ psClass' = psClass
        /\ IF remote = <<>> /\ r.of = 0 THEN psAsked' = rest /\ UNCHANGED <<psStored, Shown>>
           ELSE /\ psStored' = merged
                /\ Render(rest, merged, psReport, psCompare, psPin, psFilter, "backend", psArchived, TRUE)
    /\ UNCHANGED <<psArchive, psServerPin, psServerDiffs, psStoredPin, psClicks, psLate>>
ListFails(r) ==
    /\ r.kind = "list" /\ psClass' = psClass
    /\ Render(psAsked \ {r}, psHistory, psReport, psCompare, psPin, psFilter, "local", psArchived, FALSE)
    /\ UNCHANGED <<psArchive, psServerPin, psServerDiffs, psStored, psStoredPin, psClicks, psLate>>

(* getPerfSuiteBaseline of the mount: the baseline as it was when the tab opened, or as it is now. *)
BaselineAnswered(r) ==
    /\ r.kind = "baseline" /\ psClass' = psClass
    /\ \E p \in {r.of, psServerPin, 0} :
         IF p = 0 THEN psAsked' = psAsked \ {r} /\ UNCHANGED <<psStored, psStoredPin, Shown>>
         ELSE /\ psStored' = Merge(<<p>>, psHistory) /\ psStoredPin' = p
              /\ Render(psAsked \ {r}, psStored', psReport, psCompare, p, psFilter, psMode, psArchived, FALSE)
    /\ UNCHANGED <<psArchive, psServerPin, psServerDiffs, psClicks, psLate>>

(* syncPerfSuiteHistoryToArchive: the save and the list may fail, before or after they took effect. *)
RunEnds(r) ==
    LET new   == CHOOSE s \in Suites : psClass[s] = 0 /\ \A t \in Suites : psClass[t] = 0 => s <= t
        local == Cut(<<new>> \o r.was)
    IN  /\ r.kind = "run" /\ \E s \in Suites : psClass[s] = 0
        /\ \E class \in {1, 2} : psClass' = [psClass EXCEPT ![new] = class]
        /\ \E mode \in {"backend", "local"} :
             /\ psArchive' \in {psArchive \cup {new}} \cup (IF mode = "local" THEN {psArchive} ELSE {})
             /\ psStored' = IF mode = "local" THEN local ELSE Merge(<<new>> \o Recent(psArchive'), local)
             /\ IF r.gone THEN psAsked' = psAsked \ {r} /\ UNCHANGED Shown
                ELSE Render(psAsked \ {r}, psStored', new, psCompare, psPin, psFilter, mode, psArchived, TRUE)
    /\ UNCHANGED <<psServerPin, psServerDiffs, psStoredPin, psClicks, psLate>>

(* The server pins what is in its archive; without its answer the baseline is locked in the browser only. *)
PinAnswered(r) ==
    /\ r.kind = "pin" /\ psClass' = psClass
    /\ \E answered \in BOOLEAN :
         /\ answered => r.of \in psArchive
         /\ psServerPin' \in {IF r.of \in psArchive THEN r.of ELSE psServerPin}
                             \cup (IF answered THEN {} ELSE {psServerPin})
         /\ psStoredPin' = r.of
         /\ IF r.gone THEN psAsked' = psAsked \ {r} /\ UNCHANGED <<psStored, Shown>>
            ELSE /\ psStored' = Merge(<<r.of>>, psHistory)
                 /\ Render(psAsked \ {r}, psStored', psReport, psCompare, r.of, psFilter,
                           IF answered THEN "backend" ELSE psMode, psArchived, FALSE)
    /\ UNCHANGED <<psArchive, psServerDiffs, psClicks, psLate>>

(* getPerfSuite gives the archived copy, or the one of the list is taken. *)
SelectAnswered(r) ==
    /\ r.kind = "select" /\ psClass' = psClass
    /\ IF r.gone THEN psAsked' = psAsked \ {r} /\ UNCHANGED Shown ELSE Apply(psAsked \ {r}, r.of)
    /\ UNCHANGED <<psArchive, psServerPin, psServerDiffs, psStored, psStoredPin, psClicks, psLate>>

(* savePerfSuiteDiff: the report of the pair is shown as archived, whatever is compared by now. *)
ArchiveAnswered(r) ==
    LET pair == <<r.of, r.base>>
    IN  /\ r.kind = "archive" /\ psClass' = psClass
        /\ \E answered \in BOOLEAN :
             /\ psServerDiffs' \in {Append(psServerDiffs, pair)} \cup (IF answered THEN {} ELSE {psServerDiffs})
             /\ IF r.gone \/ ~answered THEN psAsked' = psAsked \ {r} /\ UNCHANGED <<Shown, psLate>>
                ELSE /\ Render(psAsked \ {r}, psHistory, psReport, psCompare, psPin, psFilter, "backend",
                               pair, FALSE)
                     /\ psLate' = (psLate \/ pair # <<psReport, psCompare>>)
    /\ UNCHANGED <<psArchive, psServerPin, psStored, psStoredPin, psClicks>>

(* getPerfSuite of what the list does not have: found in the archive, or an error is shown. *)
LoadAnswered(r) ==
    /\ r.kind = "load" /\ psClass' = psClass
    /\ \/ psAsked' = psAsked \ {r} /\ UNCHANGED <<psStored, Shown>>
       \/ {r.of, r.base} \ Seen(r.was) \subseteq psArchive /\ Restored(psAsked \ {r}, r)
    /\ UNCHANGED <<psArchive, psServerPin, psServerDiffs, psStoredPin, psClicks, psLate>>

(* diagnostics_perf_suite_diff_list: the newest records, and of these the ones asked for. *)
NewestDiffs(limit) ==
    {psServerDiffs[i] : i \in {k \in DOMAIN psServerDiffs : k > Len(psServerDiffs) - limit}}

DiffsAnswered(r) ==
    /\ r.kind = "diffs"
    /\ psDiffs' \in {{d \in NewestDiffs(SuiteLimit) : d[1] = r.of}, {}}
    /\ psLoading' = FALSE /\ psAsked' = psAsked \ {r}
    /\ UNCHANGED <<server, psStored, psStoredPin, psHistory, psPin, psMode, psReport, psCompare, psFilter,
                   psArchived, psClicks, psLate>>
PairAnswered(r) ==
    /\ r.kind = "pair"
    /\ psArchived' \in {<<0, 0>>} \cup (NewestDiffs(1) \cap {<<r.of, r.base>>})
    /\ psAsked' = psAsked \ {r}
    /\ UNCHANGED <<server, psStored, psStoredPin, psHistory, psPin, psMode, psReport, psCompare, psFilter,
                   psDiffs, psLoading, psClicks, psLate>>

Clicks ==
    \/ Open \/ Close \/ Run \/ Pin \/ Filter \/ Archive
    \/ \E s \in Suites : Select(s) \/ Choose(s)
    \/ \E d \in psDiffs : Load(d)
Answered(r) ==
    \/ ListAnswered(r) \/ ListFails(r) \/ BaselineAnswered(r) \/ RunEnds(r) \/ PinAnswered(r)
    \/ SelectAnswered(r) \/ ArchiveAnswered(r) \/ LoadAnswered(r) \/ DiffsAnswered(r) \/ PairAnswered(r)

Next == Clicks \/ \E r \in psAsked : Answered(r)

-----------------------------------------------------------------------------

(* Once nothing is loading, the archived reports that are listed are those of the suite on the   *)
(* screen, and the report shown as archived is that of the compared pair, however answers, runs  *)
(* and clicks overlapped; but for a pair that was archived when another one was already shown    *)
(* (PerfDiagnosticsPanel: the effects on suiteReport and compareSuiteReport).                    *)
ListedIsOfTheSuite ==
    /\ ~psLoading => \A d \in psDiffs : d[1] = psReport
    /\ psArchived = <<0, 0>> \/ psLate \/ Under("pair") \/ psArchived = <<psReport, psCompare>>
=============================================================================
