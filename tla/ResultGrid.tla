----------------------------- MODULE ResultGrid -----------------------------
(***************************************************************************)
(* The results of a run (web-ui QueryResultsPanel) and the grid that shows   *)
(* the rows of one of them (SimpleDataTable): its sort, its page and the menu *)
(* of a cell.  The grid lives on when another result is selected or more rows *)
(* arrive, and the menu names its row by the place on the page.              *)
(***************************************************************************)
EXTENDS Integers, Sequences, FiniteSets, FiniteSetsExt

CONSTANTS RowCounts,  \* how many rows a statement may give
          ChunkRows,  \* rows that a chunk adds at most
          PageRows,   \* pageSize
          MaxLooks    \* bound on the clicks


VARIABLES rgResults,  \* executeResults: the column a result has, its rows, has_more
          rgActive, rgChart,           \* activeResultIndex; resultsView = 'chart'
          rgExecuting, rgLoading,      \* isExecuting, isLoadingMoreResults
          rgSort, rgPage, rgMenu,      \* sortConfig, currentPage, contextMenu
          rgAsked,    \* chunks under way
          rgSorting,  \* queries of the sort panel under way
          rgLooks,
          rgPageOf,   \* a mark of the model: the result whose page was chosen, 0 after the sort panel replaced it
          rgResorted  \* a mark of the model: rows were sorted in, or all replaced, under the open menu

rgVars == <<rgResults, rgActive, rgChart, rgExecuting, rgLoading, rgSort, rgPage, rgMenu, rgAsked,
            rgSorting, rgLooks, rgPageOf, rgResorted>>

NoSort == [key |-> 0, up |-> TRUE]
NoMenu == [at |-> 0, row |-> 0]

-----------------------------------------------------------------------------
(* The rows in the order of the grid. *)

(* What the p-th row of a result has in its column: some rows tie. *)
Value(p) == (2 * p) % 3

(* sortedData: a result without the column keeps its order, and so do rows that tie. *)
Less(result, sort, p, q) ==
    /\ sort.key = result.column
    /\ IF sort.up THEN Value(p) < Value(q) ELSE Value(p) > Value(q)
Before(result, sort, p, q) ==
    Less(result, sort, p, q) \/ (~Less(result, sort, q, p) /\ p < q)

(* paginatedData: the row at a place of a page, 0 when there is none. *)
RowAt(result, sort, page, at) ==
    LET behind(p) == Cardinality({q \in 1..result.rows : Before(result, sort, q, p)})
        there     == {p \in 1..result.rows : behind(p) = (page - 1) * PageRows + at - 1}
    IN  IF there = {} THEN 0 ELSE CHOOSE p \in there : TRUE

Pages(result) == (result.rows + PageRows - 1) \div PageRows

-----------------------------------------------------------------------------

(* The panel has a grid for a result with rows; without one its sort, page and menu are gone. *)
Mounted(results, active, chart) == results # <<>> /\ ~chart /\ results[active].rows > 0

Grid == Mounted(rgResults, rgActive, rgChart)
Active == rgResults[rgActive]

Shown(results, active, chart, sort, page, menu, of) ==
    LET mounted == Mounted(results, active, chart)
    IN  /\ rgResults' = results /\ rgActive' = active /\ rgChart' = chart
        /\ rgSort' = IF mounted THEN sort ELSE NoSort
        /\ rgPage' = IF mounted THEN page ELSE 1
        /\ rgMenu' = IF mounted THEN menu ELSE NoMenu
        /\ rgPageOf' = IF mounted /\ Grid THEN of ELSE active

Show(results, active, chart, sort, page, menu, of) ==
    /\ Shown(results, active, chart, sort, page, menu, of)
    /\ rgResorted' = (rgResorted /\ rgMenu' # NoMenu)

(* Mutant: a click elsewhere leaves the menu open. *)
StaysOpen(menu) == menu

(* The listener of the window: a click closes the menu. *)
Closed(menu) == NoMenu

Init ==
    /\ rgResults = <<>> /\ rgActive = 1 /\ rgChart = FALSE /\ rgExecuting = FALSE /\ rgLoading = FALSE
    /\ rgSort = NoSort /\ rgPage = 1 /\ rgMenu = NoMenu /\ rgAsked = {} /\ rgSorting = 0 /\ rgLooks = 0
    /\ rgPageOf = 1 /\ rgResorted = FALSE

Look == rgLooks < MaxLooks /\ rgLooks' = rgLooks + 1

-----------------------------------------------------------------------------
(* The panel. *)

(* handleExecute empties the results before it asks. *)
Execute ==
    /\ ~rgExecuting /\ Look /\ rgExecuting' = TRUE /\ rgLoading' = FALSE
    /\ Show(<<>>, 1, rgChart, NoSort, 1, NoMenu, 1)
    /\ UNCHANGED <<rgAsked, rgSorting>>

Results == [column : {1, 2}, rows : RowCounts, more : BOOLEAN]
(* A single statement that is refused as dangerous leaves what a sort has put there meanwhile. *)
Executed ==
    /\ rgExecuting /\ rgExecuting' = FALSE
    /\ \/ \E n \in 1..2 : \E results \in [1..n -> Results] :
            Show(results, 1, rgChart, rgSort, rgPage, rgMenu, 1) /\ rgLoading' = FALSE
       \/ Show(<<>>, 1, rgChart, NoSort, 1, NoMenu, 1) /\ UNCHANGED rgLoading
       \/ Show(rgResults, rgActive, rgChart, rgSort, rgPage, rgMenu, rgPageOf) /\ UNCHANGED rgLoading
    /\ UNCHANGED <<rgAsked, rgSorting, rgLooks>>

(* onSelectResult *)
SelectResult(i) ==
    /\ Len(rgResults) > 1 /\ Look
    /\ Show(rgResults, i, rgChart, rgSort, rgPage, Closed(rgMenu), rgPageOf)
    /\ UNCHANGED <<rgExecuting, rgLoading, rgAsked, rgSorting>>

(* onSetResultsView *)
SetResultsView ==
    /\ rgResults # <<>> /\ Active.rows > 0 /\ Look
    /\ Show(rgResults, rgActive, ~rgChart, rgSort, rgPage, Closed(rgMenu), rgPageOf)
    /\ UNCHANGED <<rgExecuting, rgLoading, rgAsked, rgSorting>>

ClearResults ==
    /\ rgResults # <<>> /\ Look /\ rgLoading' = FALSE
    /\ Show(<<>>, 1, rgChart, NoSort, 1, NoMenu, 1)
    /\ UNCHANGED <<rgExecuting, rgAsked, rgSorting>>

(* onLoadMoreResults *)
LoadMore ==
    /\ rgResults # <<>> /\ Active.more /\ ~rgLoading /\ Look
    /\ rgLoading' = TRUE /\ rgAsked' = rgAsked \cup {rgActive}
    /\ Show(rgResults, rgActive, rgChart, rgSort, rgPage, Closed(rgMenu), rgPageOf)
    /\ UNCHANGED <<rgExecuting, rgSorting>>

(* The rows are added to the result that is at the index by now; without results nothing is set. *)
MoreRows(i) ==
    /\ i \in rgAsked /\ rgAsked' = rgAsked \ {i}
    /\ rgLoading' = (rgResults = <<>> /\ rgLoading)
    /\ \E n \in 0..ChunkRows, more \in BOOLEAN :
         LET added  == IF i \in DOMAIN rgResults
                       THEN [rgResults EXCEPT ![i].rows = @ + n, ![i].more = more] ELSE rgResults
             sorted == i = rgActive /\ i \in DOMAIN rgResults /\ rgSort.key = Active.column
         IN  /\ rgResults' = added
             /\ rgPageOf' = IF Grid \/ ~Mounted(added, rgActive, rgChart) THEN rgPageOf ELSE rgActive
             /\ rgResorted' = (rgResorted \/ (sorted /\ rgMenu # NoMenu))
    /\ UNCHANGED <<rgActive, rgChart, rgExecuting, rgSort, rgPage, rgMenu, rgSorting, rgLooks>>
LoadFails(i) ==
    /\ i \in rgAsked /\ rgAsked' = rgAsked \ {i} /\ rgLoading' = FALSE
    /\ UNCHANGED <<rgResults, rgActive, rgChart, rgExecuting, rgSort, rgPage, rgMenu, rgSorting, rgLooks,
                   rgPageOf, rgResorted>>

(* onApply of the sort panel, which a button of the panel opens. *)
ApplySort ==
    /\ rgResults # <<>> /\ Look /\ rgSorting' = rgSorting + 1
    /\ Show(rgResults, rgActive, rgChart, rgSort, rgPage, Closed(rgMenu), rgPageOf)
    /\ UNCHANGED <<rgExecuting, rgLoading, rgAsked>>

(* Its result replaces all others under the grid, which keeps its page, its sort and its menu; a failed
   query is only logged. *)
Sorted ==
    /\ rgSorting > 0 /\ rgSorting' = rgSorting - 1
    /\ \/ \E result \in Results :
            /\ Shown(<<result>>, 1, rgChart, rgSort, rgPage, rgMenu, 0)
            /\ rgResorted' = (rgMenu' # NoMenu)
       \/ UNCHANGED <<rgResults, rgActive, rgChart, rgSort, rgPage, rgMenu, rgPageOf, rgResorted>>
    /\ UNCHANGED <<rgExecuting, rgLoading, rgAsked, rgLooks>>

-----------------------------------------------------------------------------
(* The grid. *)

(* The skeleton of a run covers the grid. *)
InGrid(page, menu, of) ==
    /\ Grid /\ ~rgExecuting /\ Look
    /\ Show(rgResults, rgActive, rgChart, rgSort, page, menu, of)
    /\ UNCHANGED <<rgExecuting, rgLoading, rgAsked, rgSorting>>

(* The first page is one of every result. *)
RequestSort ==
    /\ Grid /\ ~rgExecuting /\ Look
    /\ LET same == rgSort.key = Active.column
       IN  Show(rgResults, rgActive, rgChart, [key |-> Active.column, up |-> ~(same /\ rgSort.up)], 1,
                Closed(rgMenu), rgActive)
    /\ UNCHANGED <<rgExecuting, rgLoading, rgAsked, rgSorting>>

(* The page of a longer result may be beyond the end of this one: Previous goes back one by one,
   which is no choice of a page of this result, and Next to the last page. *)
PrevPage ==
    /\ Grid /\ Pages(Active) > 1 /\ rgPage # 1
    /\ InGrid(Max({1, rgPage - 1}), Closed(rgMenu), IF rgPage > Pages(Active) THEN rgPageOf ELSE rgActive)
NextPage ==
    /\ Grid /\ Pages(Active) > 1 /\ rgPage # Pages(Active)
    /\ InGrid(Min({Pages(Active), rgPage + 1}), Closed(rgMenu), rgActive)

(* The menu opens on a cell without a click; its items and clicks elsewhere close it. *)
OpenMenu(at) ==
    /\ Grid /\ LET row == RowAt(Active, rgSort, rgPage, at)
               IN  row # 0 /\ InGrid(rgPage, [at |-> at, row |-> row], rgPageOf)
CloseMenu == rgMenu # NoMenu /\ InGrid(rgPage, Closed(rgMenu), rgPageOf)

Next ==
    \/ Execute \/ Executed \/ SetResultsView \/ ClearResults \/ LoadMore
    \/ \E i \in DOMAIN rgResults : SelectResult(i)
    \/ \E i \in rgAsked : MoreRows(i) \/ LoadFails(i)
    \/ ApplySort \/ Sorted
    \/ RequestSort \/ PrevPage \/ NextPage \/ CloseMenu
    \/ \E at \in 1..PageRows : OpenMenu(at)

-----------------------------------------------------------------------------

(* The menu of a cell copies the row it was opened on, and a page that was chosen for the result    *)
(* on the screen has rows, whatever was sorted by a header, turned, selected, run or loaded since.   *)
(* Not so, and not stated, for a menu under which a load sorts rows in or the answer of the sort     *)
(* panel replaces them all, and for a page that was chosen for another result: one that is selected  *)
(* again, or one that the sort panel replaced, until a page is chosen anew (SimpleDataTable          *)
(* contextMenu.rowIdx, currentPage; SortPanel onApply).                                              *)
LookedAtStays ==
    /\ rgMenu # NoMenu /\ ~rgResorted => RowAt(Active, rgSort, rgPage, rgMenu.at) = rgMenu.row
    /\ Grid /\ rgPageOf = rgActive => rgPage \in 1..Pages(Active)
=============================================================================
