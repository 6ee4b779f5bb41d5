---------------------------- MODULE MCWebClient -----------------------------
(***************************************************************************)
(* The modules of the web client, each in its own view: what a run looks at  *)
(* is chosen first, and the variables of the others stay as they are.  The   *)
(* views share no state; one run keeps their bounds side by side.            *)
(***************************************************************************)
EXTENDS Integers, FiniteSets

CONSTANTS
    TableKeys, PageSize, MaxLoads, MaxTurns, MaxPage, MaxWrites,  \* TablePages
    GridKeys, DraftKeys, MaxEdits, MaxReloads, MaxOthers,         \* GridEdits
    UpdateRows, DeleteRows, MaxPages,                             \* ConflictReview
    GridColumns,                                                  \* GridLayout
    QueryTabIds, MaxRuns, MaxTxIds, MaxClicks,                    \* QueryTabs
    Items, MaxPosts,                                              \* ConfigEdits
    WatchJobs, MaxQuestions, MaxStarts,                           \* JobWatch
    PlanInputs, MaxRequests,                                      \* PlanWizards
    Suites, SuiteLimit, MaxSteps,                                 \* PerfSuites
    Connections, MaxShows,                                        \* SchemaViews
    RowCounts, ChunkRows, PageRows, MaxLooks                      \* ResultGrid

ASSUME PageAssumption ==
    /\ TableKeys \subseteq Int /\ IsFiniteSet(TableKeys)
    /\ PageSize \in Nat \ {0} /\ MaxPage \in Nat \ {0}
ASSUME GridAssumption ==
    /\ GridKeys \subseteq Int /\ IsFiniteSet(GridKeys)
    /\ DraftKeys \subseteq GridKeys /\ 0 \notin DraftKeys
ASSUME ConflictAssumption ==
    /\ UpdateRows \subseteq Nat \ {0} /\ DeleteRows \subseteq Nat \ {0}
    /\ IsFiniteSet(UpdateRows) /\ IsFiniteSet(DeleteRows)
ASSUME ColumnsAssumption ==
    GridColumns \subseteq Int /\ IsFiniteSet(GridColumns) /\ GridColumns # {}
ASSUME TabAssumption  == 1 \in QueryTabIds /\ MaxRuns \in Nat /\ MaxTxIds \in Nat
ASSUME SuitesAssumption == Suites \subseteq Nat \ {0} /\ SuiteLimit \in Nat \ {0, 1}
ASSUME ConnectionsAssumption == Connections \subseteq Int /\ 0 \notin Connections /\ -1 \notin Connections
ASSUME ResultsAssumption == RowCounts \subseteq Nat /\ ChunkRows \in Nat \ {0} /\ PageRows \in Nat \ {0}

VARIABLES
    view,
    pgRows, pgKeyset, pgPage, pgNav, pgBounds, pgMore, pgShown, pgDesc, pgFilter,
    pgTyped, pgDue, pgLoads, pgTurns, pgWrites, pgTouched, pgSeen, pgWalk,
    gdServer, gdPk, gdData, gdRev, gdLoading, gdMod, gdDel, gdNew, gdModal, gdSave,
    gdReport, gdRecovery, gdEdits, gdOthers, gdSpliced, gdMoved,
    cvReport, cvState, cvActive, cvScope, cvChoice, cvOverview, cvFilter, cvOpen,
    cvRecovery, cvPages, cvBegun,
    gvColumn, gvText, gvDraft, gvSource,
    glColumns, glOrder, glHidden, glWidth, glStored,
    qtOpen, qtTab, qtRuns, qtEnds, qtLoads, qtServer, qtExcused, qtNextRun, qtNextTx,
    qtClicks,
    cfServer, cfCopy, cfPosts, cfGets, cfOnboarding, cfCount, cfMeant, cfCopied,
    cfDoubt,
    jwScreen, jwServer, jwId, jwJob, jwReport, jwLoading, jwError, jwBroken, jwTimer,
    jwAsked, jwStarts, jwFill, jwStop, jwRuns, jwMixed,
    pwScreen, pwStep, pwMode, pwInput, pwDiff, pwPicked, pwScript, pwLoading,
    pwFinishing, pwAsked, pwTo, pwLate,
    psArchive, psServerPin, psServerDiffs, psClass, psStored, psStoredPin, psHistory,
    psPin, psMode, psReport, psCompare, psFilter, psDiffs, psLoading, psArchived,
    psAsked, psClicks, psLate,
    svStored, svActive, svSchema, svTree, svTreeAsked, svExpanded, svVisible, svPick,
    svTables, svTablesLoading, svTablesAsked, svAsked, svClicks, svMixed,
    rgResults, rgActive, rgChart, rgExecuting, rgLoading, rgSort, rgPage, rgMenu, rgAsked,
    rgSorting, rgLooks, rgPageOf, rgResorted

TP == INSTANCE TablePages
GE == INSTANCE GridEdits
CV == INSTANCE ConflictReview
GV == INSTANCE GridValues
GL == INSTANCE GridLayout
QT == INSTANCE QueryTabs
CF == INSTANCE ConfigEdits
JW == INSTANCE JobWatch
PW == INSTANCE PlanWizards
PS == INSTANCE PerfSuites
SV == INSTANCE SchemaViews
RG == INSTANCE ResultGrid

pages     == <<pgRows, pgKeyset, pgPage, pgNav, pgBounds, pgMore, pgShown, pgDesc, pgFilter,
               pgTyped, pgDue, pgLoads, pgTurns, pgWrites, pgTouched, pgSeen, pgWalk>>
grid      == <<gdServer, gdPk, gdData, gdRev, gdLoading, gdMod, gdDel, gdNew, gdModal,
               gdSave, gdReport, gdRecovery, gdEdits, gdOthers, gdSpliced, gdMoved>>
conflicts == <<cvReport, cvState, cvActive, cvScope, cvChoice, cvOverview, cvFilter, cvOpen,
               cvRecovery, cvPages, cvBegun>>
values    == <<gvColumn, gvText, gvDraft, gvSource>>
layout    == <<glColumns, glOrder, glHidden, glWidth, glStored>>
tabs      == <<qtOpen, qtTab, qtRuns, qtEnds, qtLoads, qtServer, qtExcused, qtNextRun,
               qtNextTx, qtClicks>>
config    == <<cfServer, cfCopy, cfPosts, cfGets, cfOnboarding, cfCount, cfMeant, cfCopied,
               cfDoubt>>
jobs      == <<jwScreen, jwServer, jwId, jwJob, jwReport, jwLoading, jwError, jwBroken,
               jwTimer, jwAsked, jwStarts, jwFill, jwStop, jwRuns, jwMixed>>
plans     == <<pwScreen, pwStep, pwMode, pwInput, pwDiff, pwPicked, pwScript, pwLoading,
               pwFinishing, pwAsked, pwTo, pwLate>>
suites    == <<psArchive, psServerPin, psServerDiffs, psClass, psStored, psStoredPin,
               psHistory, psPin, psMode, psReport, psCompare, psFilter, psDiffs,
               psLoading, psArchived, psAsked, psClicks, psLate>>
schemas   == <<svStored, svActive, svSchema, svTree, svTreeAsked, svExpanded, svVisible,
               svPick, svTables, svTablesLoading, svTablesAsked, svAsked, svClicks,
               svMixed>>
results   == <<rgResults, rgActive, rgChart, rgExecuting, rgLoading, rgSort, rgPage, rgMenu,
               rgAsked, rgSorting, rgLooks, rgPageOf, rgResorted>>

Off == 0
PagesOff ==
    /\ pgRows = Off /\ pgKeyset = Off /\ pgPage = Off /\ pgNav = Off /\ pgBounds = Off
    /\ pgMore = Off /\ pgShown = Off /\ pgDesc = Off /\ pgFilter = Off /\ pgTyped = Off
    /\ pgDue = Off /\ pgLoads = Off /\ pgTurns = Off /\ pgWrites = Off /\ pgTouched = Off
    /\ pgSeen = Off /\ pgWalk = Off
GridOff ==
    /\ gdServer = Off /\ gdPk = Off /\ gdData = Off /\ gdRev = Off /\ gdLoading = Off
    /\ gdMod = Off /\ gdDel = Off /\ gdNew = Off /\ gdModal = Off /\ gdSave = Off
    /\ gdReport = Off /\ gdRecovery = Off /\ gdEdits = Off /\ gdOthers = Off
    /\ gdSpliced = Off /\ gdMoved = Off
ConflictsOff ==
    /\ cvReport = Off /\ cvState = Off /\ cvActive = Off /\ cvScope = Off /\ cvChoice = Off
    /\ cvOverview = Off /\ cvFilter = Off /\ cvOpen = Off /\ cvRecovery = Off
    /\ cvPages = Off /\ cvBegun = Off
ValuesOff ==
    /\ gvColumn = Off /\ gvText = Off /\ gvDraft = Off /\ gvSource = Off
LayoutOff ==
    /\ glColumns = Off /\ glOrder = Off /\ glHidden = Off /\ glWidth = Off /\ glStored = Off
TabsOff ==
    /\ qtOpen = Off /\ qtTab = Off /\ qtRuns = Off /\ qtEnds = Off /\ qtLoads = Off
    /\ qtServer = Off /\ qtExcused = Off /\ qtNextRun = Off /\ qtNextTx = Off
    /\ qtClicks = Off
ConfigOff ==
    /\ cfServer = Off /\ cfCopy = Off /\ cfPosts = Off /\ cfGets = Off /\ cfOnboarding = Off
    /\ cfCount = Off /\ cfMeant = Off /\ cfCopied = Off /\ cfDoubt = Off
JobsOff ==
    /\ jwScreen = Off /\ jwServer = Off /\ jwId = Off /\ jwJob = Off /\ jwReport = Off
    /\ jwLoading = Off /\ jwError = Off /\ jwBroken = Off /\ jwTimer = Off
    /\ jwAsked = Off /\ jwStarts = Off /\ jwFill = Off /\ jwStop = Off /\ jwRuns = Off
    /\ jwMixed = Off
PlansOff ==
    /\ pwScreen = Off /\ pwStep = Off /\ pwMode = Off /\ pwInput = Off /\ pwDiff = Off
    /\ pwPicked = Off /\ pwScript = Off /\ pwLoading = Off /\ pwFinishing = Off
    /\ pwAsked = Off /\ pwTo = Off /\ pwLate = Off
SuitesOff ==
    /\ psArchive = Off /\ psServerPin = Off /\ psServerDiffs = Off /\ psClass = Off
    /\ psStored = Off /\ psStoredPin = Off /\ psHistory = Off /\ psPin = Off
    /\ psMode = Off /\ psReport = Off /\ psCompare = Off /\ psFilter = Off
    /\ psDiffs = Off /\ psLoading = Off /\ psArchived = Off /\ psAsked = Off
    /\ psClicks = Off /\ psLate = Off
SchemasOff ==
    /\ svStored = Off /\ svActive = Off /\ svSchema = Off /\ svTree = Off
    /\ svTreeAsked = Off /\ svExpanded = Off /\ svVisible = Off /\ svPick = Off
    /\ svTables = Off /\ svTablesLoading = Off /\ svTablesAsked = Off
    /\ svAsked = Off /\ svClicks = Off /\ svMixed = Off
ResultsOff ==
    /\ rgResults = Off /\ rgActive = Off /\ rgChart = Off /\ rgExecuting = Off
    /\ rgLoading = Off /\ rgSort = Off /\ rgPage = Off /\ rgMenu = Off /\ rgAsked = Off
    /\ rgSorting = Off /\ rgLooks = Off /\ rgPageOf = Off /\ rgResorted = Off

Init ==
    /\ view \in {"pages", "grid", "conflicts", "values", "layout", "tabs", "config", "jobs", "plans",
                "suites", "schemas", "results"}
    /\ IF view = "pages" THEN TP!Init ELSE PagesOff
    /\ IF view = "grid" THEN GE!Init ELSE GridOff
    /\ IF view = "conflicts" THEN CV!Init ELSE ConflictsOff
    /\ IF view = "values" THEN GV!Init ELSE ValuesOff
    /\ IF view = "layout" THEN GL!Init ELSE LayoutOff
    /\ IF view = "tabs" THEN QT!Init ELSE TabsOff
    /\ IF view = "config" THEN CF!Init ELSE ConfigOff
    /\ IF view = "jobs" THEN JW!Init ELSE JobsOff
    /\ IF view = "plans" THEN PW!Init ELSE PlansOff
    /\ IF view = "suites" THEN PS!Init ELSE SuitesOff
    /\ IF view = "schemas" THEN SV!Init ELSE SchemasOff
    /\ IF view = "results" THEN RG!Init ELSE ResultsOff

Pages ==
    /\ view = "pages" /\ TP!Next
    /\ UNCHANGED <<view, grid, conflicts, values, layout, tabs, config, jobs, plans,
                   suites, schemas, results>>
Grid ==
    /\ view = "grid" /\ GE!Next
    /\ UNCHANGED <<view, pages, conflicts, values, layout, tabs, config, jobs, plans,
                   suites, schemas, results>>
Conflicts ==
    /\ view = "conflicts" /\ CV!Next
    /\ UNCHANGED <<view, pages, grid, values, layout, tabs, config, jobs, plans, suites,
                   schemas, results>>
Values ==
    /\ view = "values" /\ GV!Next
    /\ UNCHANGED <<view, pages, grid, conflicts, layout, tabs, config, jobs, plans,
                   suites, schemas, results>>
Layout ==
    /\ view = "layout" /\ GL!Next
    /\ UNCHANGED <<view, pages, grid, conflicts, values, tabs, config, jobs, plans,
                   suites, schemas, results>>
Tabs ==
    /\ view = "tabs" /\ QT!Next
    /\ UNCHANGED <<view, pages, grid, conflicts, values, layout, config, jobs, plans,
                   suites, schemas, results>>
Config ==
    /\ view = "config" /\ CF!Next
    /\ UNCHANGED <<view, pages, grid, conflicts, values, layout, tabs, jobs, plans,
                   suites, schemas, results>>
Jobs ==
    /\ view = "jobs" /\ JW!Next
    /\ UNCHANGED <<view, pages, grid, conflicts, values, layout, tabs, config, plans,
                   suites, schemas, results>>
Plans ==
    /\ view = "plans" /\ PW!Next
    /\ UNCHANGED <<view, pages, grid, conflicts, values, layout, tabs, config, jobs,
                   suites, schemas, results>>
SuitesTab ==
    /\ view = "suites" /\ PS!Next
    /\ UNCHANGED <<view, pages, grid, conflicts, values, layout, tabs, config, jobs,
                   plans, schemas, results>>
Schemas ==
    /\ view = "schemas" /\ SV!Next
    /\ UNCHANGED <<view, pages, grid, conflicts, values, layout, tabs, config, jobs,
                   plans, suites, results>>
ResultsView ==
    /\ view = "results" /\ RG!Next
    /\ UNCHANGED <<view, pages, grid, conflicts, values, layout, tabs, config, jobs,
                   plans, suites, schemas>>

Next ==
    \/ Pages \/ Grid \/ Conflicts \/ Values \/ Layout \/ Tabs \/ Config \/ Jobs \/ Plans
    \/ SuitesTab \/ Schemas \/ ResultsView

(* The page of the grid arrives or fails; the interval of a job screen fires, its requests are  *)
(* answered, its jobs end.                                                                     *)
Fairness ==
    /\ WF_grid(view = "grid" /\ ~GE!Crashed /\ (GE!PageArrives \/ GE!PageFails))
    /\ WF_jobs(view = "jobs" /\ JW!Tick) /\ WF_jobs(view = "jobs" /\ JW!Answers)
    /\ WF_jobs(view = "jobs" /\ JW!Requests) /\ WF_jobs(view = "jobs" /\ JW!Jobs)

vars == <<view, pages, grid, conflicts, values, layout, tabs, config, jobs, plans, suites,
          schemas, results>>

Spec == Init /\ [][Next]_vars /\ Fairness

-----------------------------------------------------------------------------

(* Paging by key from page 1, with answers in order, passes over no row that nobody touched    *)
(* (TableDataView loadData).                                                                   *)
WalkSkipsNothing == view = "pages" => TP!WalkSkipsNothing

(* A reported insert names the draft that failed, through partial saves and discards           *)
(* (DataTable confirmSave, clearResolvedFailuresFromReport, discardSaveFailures).               *)
FailuresNameTheirDrafts == view = "grid" => GE!FailuresNameTheirDrafts

(* A pending edit lies on the row it was made on, as long as no reload moved rows under a       *)
(* pending change; without a primary key a recovery may move it to the only row whose           *)
(* unchanged columns are the same (DataTable findRecoveryRowIndex).                             *)
EditsStayOnTheirRows == view = "grid" => GE!EditsStayOnTheirRows

(* A change that a save takes out of the pending sets was written by the server; every other   *)
(* one is still pending (DataTable confirmSave).                                               *)
SaveLosesNothing == [][view = "grid" => GE!NothingLost]_grid

(* Worked through with the "& Next" buttons, the dialog leaves no conflict of its scope behind  *)
(* (DataTable resolveActiveStaleConflict).                                                     *)
AndNextFinishesTheScope == [][view = "conflicts" => CV!ScopeFinished]_conflicts

(* An insert never sends what its column cannot hold, whichever way the cell was filled; what   *)
(* nobody checks is left out, numbers beyond the range of their column and objects of pasted    *)
(* JSON (DataTable validateCellValue, coerceImportedCellValue).                                 *)
AcceptedIsStorable == view = "values" => GV!AcceptedIsStorable

(* Every column of the table has one place in the grid, and one of them is visible (DataTable   *)
(* columnLayout).                                                                              *)
SomeColumnStaysVisible == view = "layout" => GL!SomeColumnStaysVisible

(* A transaction open on the server is one that an open tab shows, or that a request under way  *)
(* uses; but for the losses that QueryTabs lists, a closed tab whose rollback fails among them  *)
(* (App handleExecute, handleTransactionAction, handleTabClose).                                *)
EveryTransactionHasItsTab == view = "tabs" => QT!EveryTransactionHasItsTab

(* An edit made on the newest configuration changes what it is about and keeps the rest, the    *)
(* secrets the client never saw included (merge_secrets_from, App, SettingsPanel).              *)
EditsKeepTheRest == view = "config" => CF!EditsKeepTheRest

(* When no request is under way a client shows the configuration of the server, but for the     *)
(* cases ConfigEdits names (App refreshConfigOnly, SettingsPanel patchAndSaveConfig).           *)
CopiesAgreeWhenQuiet == view = "config" => CF!CopiesAgreeWhenQuiet

(* The job a screen names is watched, shown as ended, or reported as interrupted or failed;     *)
(* unless two jobs were polled at once or an older answer came last (PerfSync, GoLive,          *)
(* ImportWizard, WizardModal: startPolling and its like).                                       *)
NoSilentStop == view = "jobs" => JW!NoSilentStop

(* What waits stops waiting: a recovery of stale changes ends with its page or without, so the  *)
(* grid's buttons come back; a job screen that loads takes in the end of its job or of the      *)
(* watch (DataTable queueStaleRecovery, the completing effect; startPolling and its like).      *)
WaitingEnds ==
    LET waits == (view = "grid" /\ gdRecovery # {}) \/ (view = "jobs" /\ jwLoading)
    IN  waits ~> ~waits

(* What a sync wizard or the table designer executes was made for what it shows at the click;   *)
(* unless the input changed under a comparison or a preview, or a load or the AI's indexes      *)
(* replaced it under an open preview (VisualSyncWizard, StructureSync, TableDesigner).          *)
ExecutesWhatIsShown == view = "plans" => PW!ExecutesWhatIsShown

(* The archived reports that are listed are those of the suite on the screen, however answers,  *)
(* runs and clicks overlapped, and the one shown is that of the compared pair, unless the pair  *)
(* was archived when another was shown (PerfDiagnosticsPanel, its effects).                     *)
ListedIsOfTheSuite == view = "suites" => PS!ListedIsOfTheSuite

(* At rest every connection of the tree shows a schema of its own, unless requests overlapped,  *)
(* failed or were for another connection, and the tables offered are those of the chosen one    *)
(* (DbExplorerSidebar, PerfDiagnosticsPanel).                                                   *)
ListsAreOfTheirConnection == view = "schemas" => SV!ListsAreOfTheirConnection

(* The menu of a cell copies the row it was opened on, and a chosen page of a result has rows;  *)
(* but for rows a load sorts in under the open menu, for a result that the sort panel replaced  *)
(* under menu or page, and for the way back from a page beyond the end (SimpleDataTable         *)
(* contextMenu, currentPage; SortPanel onApply).                                                *)
LookedAtStays == view = "results" => RG!LookedAtStays
=============================================================================
