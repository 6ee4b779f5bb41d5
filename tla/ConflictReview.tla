--------------------------- MODULE ConflictReview ---------------------------
(***************************************************************************)
(* The review of the changes whose row was no longer found (web-ui          *)
(* DataTable/index.tsx): the overview with its groups, the conflict dialog,  *)
(* the scope it was opened for, and the order in which its "& Next" buttons  *)
(* walk through that scope.  What a resolution does to the pending changes   *)
(* is GridEdits; here a conflict only leaves the report.  The search text    *)
(* and the sort of the overview are chosen when its queue is used.           *)
(***************************************************************************)
EXTENDS Integers, SequencesExt, Ranks

CONSTANTS UpdateRows, DeleteRows,  \* row indexes of the stale updates and deletes
          MaxPages                 \* bound on the reloads of the page

Conflicts == UpdateRows \cup DeleteRows
Groups == {"high_risk", "needs_refresh", "delete", "safe_edits"}
Filters == Groups \cup {"all"}
NoConflict == 0

VARIABLES cvReport,    \* the stale failures of saveAttemptReport
          cvState,     \* getStaleFailureDetails of each: "refresh", "conflict" or "merged"
          cvActive, cvScope, cvChoice,  \* activeStaleConflictKey, staleConflictReviewScope, the selections
          cvOverview, cvFilter, cvOpen, \* showStaleConflictOverview, its filter, its groups not collapsed
          cvRecovery,  \* pendingStaleRecovery
          cvPages,
          cvBegun      \* the conflicts the review in the dialog was opened for

cvVars == <<cvReport, cvState, cvActive, cvScope, cvChoice, cvOverview, cvFilter, cvOpen,
            cvRecovery, cvPages, cvBegun>>

dialog   == <<cvActive, cvScope, cvChoice, cvBegun>>
overview == <<cvOverview, cvFilter, cvOpen>>

NoChoice == [of |-> NoConflict, keep |-> TRUE]

(* confirmSave sends the deletes first, each kind by row. *)
InReportOrder(S) == InOrder(S \cap DeleteRows) \o InOrder(S \ DeleteRows)

(* staleFailureSummaries *)
NeedsRefresh(c) == cvState[c] = "refresh"
HighRisk(c)     == c \in UpdateRows /\ cvState[c] = "conflict"
SafeEdit(c)     == c \in UpdateRows /\ cvState[c] = "merged"

Group(c) ==
    IF HighRisk(c) THEN "high_risk" ELSE IF NeedsRefresh(c) THEN "needs_refresh"
    ELSE IF c \in DeleteRows THEN "delete" ELSE "safe_edits"
Matches(c, filter) ==
    CASE filter = "high_risk" -> HighRisk(c) [] filter = "needs_refresh" -> NeedsRefresh(c)
      [] filter = "safe_edits" -> SafeEdit(c) [] filter = "delete" -> c \in DeleteRows [] OTHER -> TRUE

(* The group that a filter opens: the first of the order that has a conflict. *)
Preferred(filter) ==
    LET has == {g \in Groups : \E c \in cvReport : Matches(c, filter) /\ Group(c) = g}
        rank(g) == CASE g = "high_risk" -> 1 [] g = "needs_refresh" -> 2 [] g = "delete" -> 3 [] OTHER -> 4
    IN  {g \in has : \A h \in has : rank(g) <= rank(h)}

(* visibleStaleFailureSummaries: the conflicts of the filter that the search leaves, in the order
   of a sort by row, action, risk or number of conflicting columns. *)
Queues ==
    LET matching == {c \in cvReport : Matches(c, cvFilter)}
    IN  {queue \in UNION {[1..n -> matching] : n \in 1..Cardinality(matching)} : IsInjective(queue)}

Visible == {Group(c) : c \in {d \in cvReport : Matches(d, cvFilter)}}
InGroup(queue, g) == Kept(queue, {n \in DOMAIN queue : Group(queue[n]) = g})

Init ==
    /\ cvReport = {} /\ cvState = [c \in Conflicts |-> "refresh"]
    /\ cvActive = NoConflict /\ cvScope = <<>> /\ cvChoice = NoChoice /\ cvBegun = {}
    /\ cvOverview = FALSE /\ cvFilter = "all" /\ cvOpen = {"high_risk"}
    /\ cvRecovery = {} /\ cvPages = 0

-----------------------------------------------------------------------------
(* The dialog. *)

(* activeStaleConflictReviewFailures: what is left of the scope, or every stale conflict. *)
Review ==
    LET left == Kept(cvScope, {n \in DOMAIN cvScope : cvScope[n] \in cvReport})
    IN  IF left # <<>> THEN left ELSE InReportOrder(cvReport)

At == LET review == Review
      IN  IF cvActive \in ToSet(review) THEN CHOOSE n \in DOMAIN review : review[n] = cvActive ELSE 0

(* handleOpenStaleConflict: the first choice of every column is the pending value. *)
Open(c, scope) ==
    /\ cvActive' = c /\ cvScope' = scope /\ cvChoice' = [of |-> c, keep |-> TRUE]
    /\ cvOverview' = FALSE /\ UNCHANGED <<cvFilter, cvOpen>>

Begin(c, scope) == Open(c, scope) /\ cvBegun' = ToSet(scope)

Closed == cvActive' = NoConflict /\ cvScope' = <<>> /\ cvChoice' = NoChoice /\ cvBegun' = {}

Idle == cvActive = NoConflict /\ ~cvOverview

(* "Review" of the banner, of the save report or of one of its lines. *)
ReviewReport(c) ==
    /\ Idle /\ cvRecovery = {} /\ c \in cvReport
    /\ Begin(c, InReportOrder(cvReport))
    /\ UNCHANGED <<cvReport, cvState, cvRecovery, cvPages>>

CloseConflict ==
    /\ cvActive # NoConflict /\ Closed
    /\ UNCHANGED <<cvReport, cvState, overview, cvRecovery, cvPages>>
ReturnToOverview ==
    /\ cvActive # NoConflict /\ Closed
    /\ cvOverview' = TRUE
    /\ UNCHANGED <<cvReport, cvState, cvFilter, cvOpen, cvRecovery, cvPages>>

(* A column's choice, or a preset; "recommended" keeps an edit only where the server did not write. *)
Choose(keep) ==
    /\ cvActive \in UpdateRows /\ cvChoice' = [cvChoice EXCEPT !.keep = keep]
    /\ UNCHANGED <<cvReport, cvState, cvActive, cvScope, cvBegun, overview, cvRecovery, cvPages>>

(* handleOpenAdjacentStaleConflict *)
Adjacent(delta) ==
    /\ At # 0 /\ At + delta \in DOMAIN Review
    /\ Open(Review[At + delta], Review)
    /\ UNCHANGED <<cvReport, cvState, cvRecovery, cvPages, cvBegun>>

(* Mutant: the last conflict of the scope has no next one. *)
ForwardOnly == IF At = 0 \/ At = Len(Review) THEN NoConflict ELSE Review[At + 1]

(* The conflict an "& Next" button opens: the one after, else the one before. *)
NextConflict ==
    LET review == Review
        at == At
    IN  IF at = 0 THEN NoConflict
        ELSE IF at < Len(review) THEN review[at + 1]
        ELSE IF at > 1 THEN review[at - 1] ELSE NoConflict

Leave(andNext) ==
    IF andNext /\ NextConflict # NoConflict
    THEN Open(NextConflict, Review) /\ UNCHANGED cvBegun
    ELSE Closed /\ UNCHANGED overview

(* resolveActiveStaleConflict with the current or the recommended choices, and
   handleUseLatestServerCopyForConflict, which needs no fresh row. *)
Resolve(latest, andNext) ==
    /\ cvActive # NoConflict /\ cvRecovery = {}
    /\ latest \/ ~NeedsRefresh(cvActive)
    /\ andNext => Len(Review) > 1
    /\ cvReport' = cvReport \ {cvActive}
    /\ Leave(andNext)
    /\ UNCHANGED <<cvState, cvRecovery, cvPages>>

-----------------------------------------------------------------------------
(* The overview. *)

OpenOverview ==
    /\ Idle /\ cvRecovery = {} /\ cvReport # {}
    /\ cvFilter' = "all" /\ cvOpen' = Preferred("all") /\ cvOverview' = TRUE
    /\ UNCHANGED <<cvReport, cvState, dialog, cvRecovery, cvPages>>
CloseOverview ==
    /\ cvOverview /\ cvOverview' = FALSE
    /\ UNCHANGED <<cvReport, cvState, dialog, cvFilter, cvOpen, cvRecovery, cvPages>>
SetFilter(filter) ==
    /\ cvOverview /\ cvFilter' = filter /\ cvOpen' = Preferred(filter)
    /\ UNCHANGED <<cvReport, cvState, dialog, cvOverview, cvRecovery, cvPages>>

(* A group is collapsed or expanded; so are all that are visible. *)
ToggleGroups(S) ==
    /\ cvOverview
    /\ cvOpen' \in {cvOpen \cup S, cvOpen \ S} \ {cvOpen}
    /\ UNCHANGED <<cvReport, cvState, dialog, cvOverview, cvFilter, cvRecovery, cvPages>>

ReviewQueue ==
    /\ cvOverview
    /\ \E queue \in Queues : Begin(Head(queue), queue)
    /\ UNCHANGED <<cvReport, cvState, cvRecovery, cvPages>>
ReviewGroup(g) ==
    /\ cvOverview /\ g \in cvOpen
    /\ \E queue \in Queues : \E n \in DOMAIN InGroup(queue, g) :
            Begin(InGroup(queue, g)[n], InGroup(queue, g))
    /\ UNCHANGED <<cvReport, cvState, cvRecovery, cvPages>>

(* The overview closes itself when the report has no stale failure left. *)
Leaves(S) ==
    /\ cvReport' = cvReport \ S
    /\ cvOverview' = (cvOverview /\ cvReport' # {})
    /\ IF cvOverview /\ cvReport' = {} THEN cvFilter' = "all" /\ cvOpen' = {"high_risk"}
       ELSE UNCHANGED <<cvFilter, cvOpen>>

(* "Keep mine" or "recommended" for the safe edits, of the queue, of a group or one. *)
MergeSafe(S) ==
    /\ cvOverview /\ S # {} /\ \A c \in S : SafeEdit(c)
    /\ Leaves(S)
    /\ UNCHANGED <<cvState, dialog, cvRecovery, cvPages>>
UseLatest(S) ==
    /\ cvOverview /\ S # {} /\ cvRecovery = {}
    /\ Leaves(S)
    /\ UNCHANGED <<cvState, dialog, cvRecovery, cvPages>>

-----------------------------------------------------------------------------
(* The grid around them. *)

(* A save ends with stale failures; the report before it is gone. *)
SaveFails(S) ==
    /\ Idle /\ cvRecovery = {}
    /\ cvReport' = S /\ cvState' = [c \in Conflicts |-> "refresh"]
    /\ UNCHANGED <<dialog, overview, cvRecovery, cvPages>>

(* queueStaleRecovery, for all, for those of the overview that need it, or for one. *)
Recover(S) ==
    /\ cvActive = NoConflict /\ cvRecovery = {} /\ S # {} /\ cvPages < MaxPages
    /\ cvOverview => \A c \in S : NeedsRefresh(c)
    /\ cvRecovery' = S
    /\ UNCHANGED <<cvReport, cvState, dialog, overview, cvPages>>

(* The page is loaded again, by a recovery, "refresh" of the dialog or any other reason: every
   conflict has a new state; a recovery takes the changes it found out of the report, and the
   dialog of a conflict that left closes. *)
PageArrives(found, state) ==
    /\ cvPages < MaxPages /\ cvPages' = cvPages + 1
    /\ found \subseteq cvRecovery /\ cvRecovery' = {}
    /\ cvState' = state
    /\ Leaves(found)
    /\ IF cvActive \in found THEN Closed ELSE UNCHANGED dialog

(* What the grid and its report, the dialog, its columns, the head of the overview, its groups
   and its lines offer. *)
ReportActions   == OpenOverview \/ (\E c \in Conflicts : ReviewReport(c))
DialogActions   == CloseConflict \/ ReturnToOverview \/ (\E delta \in {-1, 1} : Adjacent(delta))
                   \/ (\E latest, andNext \in BOOLEAN : Resolve(latest, andNext))
ColumnChoices   == \E keep \in BOOLEAN : Choose(keep)
OverviewActions == CloseOverview \/ ReviewQueue \/ (\E filter \in Filters : SetFilter(filter))
                   \/ (Visible # {} /\ ToggleGroups(Visible))
GroupActions    == \E g \in Groups : ReviewGroup(g) \/ (g \in Visible /\ ToggleGroups({g}))
QueueActions    == \E S \in SUBSET cvReport : MergeSafe(S) \/ UseLatest(S) \/ Recover(S)
Arrivals ==
    \E found \in SUBSET cvRecovery, state \in [Conflicts -> {"refresh", "conflict", "merged"}] :
        PageArrives(found, state)

Next ==
    \/ ReportActions \/ DialogActions \/ ColumnChoices \/ OverviewActions \/ GroupActions
    \/ QueueActions \/ Arrivals
    \/ \E S \in SUBSET Conflicts : SaveFails(S)

-----------------------------------------------------------------------------

(* "& Next" is offered while the scope has another conflict, and opens one of the scope that is  *)
(* still in the report.                                                                          *)
ScopeFinished ==
    /\ cvActive # NoConflict /\ Len(Review) = 1 => cvBegun \cap cvReport = {cvActive}
    /\ \A latest \in BOOLEAN : Resolve(latest, TRUE) => cvActive' \in cvBegun \cap cvReport'

(* A conflict dialog worked through with the "& Next" buttons leaves no conflict of its scope  *)
(* behind: it goes from one to the next until one is left (resolveActiveStaleConflict).        *)
AndNextFinishesTheScope == [][ScopeFinished]_cvVars
=============================================================================
