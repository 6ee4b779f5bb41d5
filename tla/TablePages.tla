----------------------------- MODULE TablePages -----------------------------
(***************************************************************************)
(* The paging of the table view (web-ui TableDataView.tsx): which page it   *)
(* asks for, by key bound or by OFFSET, the loads that are under way at     *)
(* once, and the 300 ms after which a new sort or filter resets the page.   *)
(* The server answers a load from the rows it has when the answer is made   *)
(* (core_lib service/schema.rs), and other sessions change those rows.      *)
(* Left out: the page size, the sorts by other columns, the chart.          *)
(***************************************************************************)
EXTENDS Integers, SequencesExt, Ranks

CONSTANTS TableKeys,  \* values of the unique column, integers
          PageSize,
          MaxLoads,   \* bound on the loads under way
          MaxTurns,   \* bound on the changes of sort and filter
          MaxPage,    \* bound on the pages turned to
          MaxWrites   \* bound on the writes of other sessions

VARIABLES pgRows,     \* the rows of the table, on the server
          pgKeyset,   \* the schema is loaded and names a unique column
          pgPage, pgNav, pgBounds, pgMore, pgShown,
          pgDesc,     \* sorts
          pgFilter,   \* debouncedFilters: the keys that pass
          pgTyped,    \* filters, ahead of the debounced copy
          pgDue,      \* debounce timers that run: "sort", "filter"
          pgLoads,    \* loads under way, in the order they were issued
          pgTurns, pgWrites, pgTouched,
          pgSeen, pgWalk  \* the rows shown since page 1; every page since then came by key, and no answer was overtaken

pgVars == <<pgRows, pgKeyset, pgPage, pgNav, pgBounds, pgMore, pgShown, pgDesc, pgFilter,
            pgTyped, pgDue, pgLoads, pgTurns, pgWrites, pgTouched, pgSeen, pgWalk>>

None == [first |-> 0, last |-> 0]
NoBounds == [p \in 1..MaxPage |-> None]

Before(a, b, desc) == IF desc THEN a > b ELSE a < b

-----------------------------------------------------------------------------

(* Mutant: a load by key bound keeps the number of its page. *)
SkipPages(page, bound) == (page - 1) * PageSize

(* requestPage: a load by key bound asks for its first page. *)
Skip(page, bound) == IF bound THEN 0 ELSE (page - 1) * PageSize

(* loadData: what a load asks for, with the values its closure and its refs hold. *)
Request(page, nav, bounds, desc, filter, keyset) ==
    LET prev == IF page > 1 THEN bounds[page - 1] ELSE None
        next == IF page < MaxPage THEN bounds[page + 1] ELSE None
        plain == [page |-> page, where |-> filter, desc |-> desc, skip |-> Skip(page, FALSE),
                  reverse |-> FALSE, keyset |-> keyset, bound |-> FALSE, late |-> FALSE]
    IN  IF keyset /\ page > 1 /\ nav = "next" /\ prev # None
        THEN [plain EXCEPT !.skip = Skip(page, TRUE), !.bound = TRUE,
                           !.where = {k \in filter : Before(prev.last, k, desc)}]
        ELSE IF keyset /\ page > 1 /\ nav = "prev" /\ next # None
        THEN [plain EXCEPT !.skip = Skip(page, TRUE), !.bound = TRUE, !.desc = ~desc, !.reverse = TRUE,
                           !.where = {k \in filter : Before(k, next.first, desc)}]
        ELSE plain

(* get_table_data: WHERE, ORDER BY, LIMIT page_size + 1 OFFSET skip. *)
Answer(r) ==
    LET found == pgRows \cap r.where
        count == Cardinality(found)
        rest  == IF count > r.skip THEN count - r.skip ELSE 0
        taken == IF rest < PageSize THEN rest ELSE PageSize
        row(n) == InOrder(found)[IF r.desc THEN count + 1 - n ELSE n]
    IN  [rows |-> [n \in 1..taken |-> row(r.skip + (IF r.reverse THEN taken + 1 - n ELSE n))],
         more |-> rest > PageSize]

Load(r) == pgLoads' = Append(pgLoads, r)

(* A load starts by the effect on loadData: a change of page, sort, debounced filter or key. *)
LoadWith(page, nav, bounds, desc, filter, keyset) == Load(Request(page, nav, bounds, desc, filter, keyset))

Init ==
    /\ pgRows = TableKeys /\ pgKeyset = FALSE
    /\ pgPage = 1 /\ pgNav = "reset" /\ pgBounds = NoBounds
    /\ pgMore = FALSE /\ pgShown = <<>>
    /\ pgDesc = FALSE /\ pgFilter = TableKeys /\ pgTyped = TableKeys /\ pgDue = {}
    /\ pgLoads = <<Request(1, "reset", NoBounds, FALSE, TableKeys, FALSE)>>
    /\ pgTurns = 0 /\ pgWrites = 0 /\ pgTouched = {}
    /\ pgSeen = {} /\ pgWalk = FALSE

(* loadSchema answers: keysetColumn appears, effectiveSorts and so loadData change. *)
SchemaArrives ==
    /\ ~pgKeyset /\ Len(pgLoads) < MaxLoads
    /\ pgKeyset' = TRUE
    /\ LoadWith(pgPage, pgNav, pgBounds, pgDesc, pgFilter, TRUE)
    /\ UNCHANGED <<pgRows, pgPage, pgNav, pgBounds, pgMore, pgShown, pgDesc, pgFilter, pgTyped,
                   pgDue, pgTurns, pgWrites, pgTouched, pgSeen, pgWalk>>

Turn(page, nav) ==
    /\ Len(pgLoads) < MaxLoads
    /\ pgPage' = page /\ pgNav' = nav
    /\ Load([Request(page, nav, pgBounds, pgDesc, pgFilter, pgKeyset) EXCEPT !.late = pgLoads # <<>>])
    /\ UNCHANGED <<pgRows, pgKeyset, pgBounds, pgMore, pgShown, pgDesc, pgFilter, pgTyped, pgDue,
                   pgTurns, pgWrites, pgTouched, pgSeen, pgWalk>>

NextPage == pgMore /\ pgPage < MaxPage /\ Turn(pgPage + 1, "next")
PrevPage == pgPage > 1 /\ Turn(pgPage - 1, "prev")
(* handleRefresh: the grid asks for it after a save. *)
Refresh == Turn(pgPage, pgNav)


(* setSorts: the new order is loaded at once, on the page that is shown. *)
ChangeSort ==
    /\ pgTurns < MaxTurns /\ pgTurns' = pgTurns + 1 /\ Len(pgLoads) < MaxLoads
    /\ pgDesc' = ~pgDesc /\ pgDue' = pgDue \cup {"sort"}
    /\ LoadWith(pgPage, pgNav, pgBounds, ~pgDesc, pgFilter, pgKeyset)
    /\ UNCHANGED <<pgRows, pgKeyset, pgPage, pgNav, pgBounds, pgMore, pgShown, pgFilter, pgTyped,
                   pgWrites, pgTouched, pgSeen, pgWalk>>

ChangeFilter(f) ==
    /\ pgTurns < MaxTurns /\ pgTurns' = pgTurns + 1
    /\ f # pgTyped /\ pgTyped' = f /\ pgDue' = pgDue \cup {"filter"}
    /\ UNCHANGED <<pgRows, pgKeyset, pgPage, pgNav, pgBounds, pgMore, pgShown, pgDesc, pgFilter,
                   pgLoads, pgWrites, pgTouched, pgSeen, pgWalk>>

(* handleResetGridState; handleRemoveFilterAt is the case of one filter and no sort. *)
ResetGrid ==
    /\ pgTyped # TableKeys \/ pgDesc
    /\ pgTyped' = TableKeys /\ pgDesc' = FALSE
    /\ pgDue' = pgDue \cup (IF pgDesc THEN {"sort"} ELSE {})
                     \cup (IF pgTyped # TableKeys THEN {"filter"} ELSE {})
    /\ pgPage' = 1 /\ pgNav' = "reset" /\ pgBounds' = NoBounds
    /\ IF pgPage # 1 \/ pgDesc
       THEN /\ Len(pgLoads) < MaxLoads
            /\ LoadWith(1, "reset", NoBounds, FALSE, pgFilter, pgKeyset)
       ELSE UNCHANGED pgLoads
    /\ UNCHANGED <<pgRows, pgKeyset, pgMore, pgShown, pgFilter, pgTurns, pgWrites, pgTouched,
                   pgSeen, pgWalk>>

(* The debounced value changes: a new filter is loaded on the old page, the
   reset effect runs, and a page other than 1 is left by a second load. *)
Debounced(what) ==
    LET filter == IF what = "filter" THEN pgTyped ELSE pgFilter
        old == IF what = "filter"
               THEN <<Request(pgPage, pgNav, pgBounds, pgDesc, filter, pgKeyset)>> ELSE <<>>
        new == IF pgPage # 1
               THEN <<Request(1, "reset", NoBounds, pgDesc, filter, pgKeyset)>> ELSE <<>>
    IN  /\ what \in pgDue /\ pgDue' = pgDue \ {what}
        /\ Len(pgLoads \o old \o new) <= MaxLoads
        /\ pgLoads' = pgLoads \o old \o new
        /\ pgFilter' = filter
        /\ pgPage' = 1 /\ pgMore' = FALSE /\ pgNav' = "reset" /\ pgBounds' = NoBounds
        /\ UNCHANGED <<pgRows, pgKeyset, pgShown, pgDesc, pgTyped, pgTurns, pgWrites, pgTouched,
                       pgSeen, pgWalk>>

(* Load i is over; the ones issued before it are late (a mark of the model, which a page
   turned while another load is under way has from the start). *)
Without(i) == RemoveAt([j \in DOMAIN pgLoads |-> [pgLoads[j] EXCEPT !.late = @ \/ j < i]], i)

(* An answer is applied as it comes, whatever was asked for since. *)
Answered(i) ==
    LET r == pgLoads[i]
        a == Answer(r)
    IN  /\ pgShown' = a.rows /\ pgMore' = a.more
        /\ pgBounds' = IF r.keyset /\ a.rows # <<>>
                       THEN [pgBounds EXCEPT ![r.page] = [first |-> Head(a.rows), last |-> Last(a.rows)]]
                       ELSE pgBounds
        /\ pgNav' = "steady"
        /\ pgLoads' = Without(i)
        /\ pgWalk' = (~r.late /\ (r.page = 1 \/ (r.bound /\ pgWalk)))
        /\ pgSeen' = IF r.page = 1 THEN ToSet(a.rows) ELSE pgSeen \cup ToSet(a.rows)
        /\ UNCHANGED <<pgRows, pgKeyset, pgPage, pgDesc, pgFilter, pgTyped, pgDue, pgTurns,
                       pgWrites, pgTouched>>

LoadFails(i) ==
    /\ pgNav' = "steady" /\ pgLoads' = Without(i) /\ pgWalk' = FALSE
    /\ UNCHANGED <<pgRows, pgKeyset, pgPage, pgBounds, pgMore, pgShown, pgDesc, pgFilter, pgTyped,
                   pgDue, pgTurns, pgWrites, pgTouched, pgSeen>>

(* Another session deletes a row, or puts one back. *)
OtherWrites(k) ==
    /\ pgWrites < MaxWrites /\ pgWrites' = pgWrites + 1
    /\ pgRows' = IF k \in pgRows THEN pgRows \ {k} ELSE pgRows \cup {k}
    /\ pgTouched' = pgTouched \cup {k}
    /\ UNCHANGED <<pgKeyset, pgPage, pgNav, pgBounds, pgMore, pgShown, pgDesc, pgFilter, pgTyped,
                   pgDue, pgLoads, pgTurns, pgSeen, pgWalk>>

Next ==
    \/ SchemaArrives \/ NextPage \/ PrevPage \/ Refresh \/ ChangeSort \/ ResetGrid
    \/ \E f \in {TableKeys, TableKeys \ {1}} : ChangeFilter(f)
    \/ \E what \in {"sort", "filter"} : Debounced(what)
    \/ \E i \in 1..Len(pgLoads) : Answered(i) \/ LoadFails(i)
    \/ \E k \in TableKeys : OtherWrites(k)

-----------------------------------------------------------------------------

(* Paging forward and back by key from page 1, with answers in the order they were asked for, *)
(* passes over no row that nobody touched, whatever other sessions insert and delete: every   *)
(* such row before the end of the shown page was shown since page 1 (TableDataView loadData).  *)
WalkSkipsNothing ==
    pgWalk /\ pgShown # <<>> /\ pgLoads = <<>> /\ pgDue = {} =>
        \A k \in pgFilter \ pgTouched : Before(k, Last(pgShown), pgDesc) => k \in pgSeen
=============================================================================
