----------------------------- MODULE QueryTabs ------------------------------
(***************************************************************************)
(* The query tabs of the workbench (web-ui App/index.tsx): what a tab shows  *)
(* of its run and of its transaction, the requests of the runs, of commit    *)
(* and rollback and of "load more", and the patches that their answers make  *)
(* to whatever the tab is by then.  The server keeps the open transactions   *)
(* (TxSessions); here it is the set of their ids.  Tab 1 is query-1, which   *)
(* takes the place of the last tab that is closed.  Left out: the text of    *)
(* the SQL, the AI actions, the choice of a database while one is in use.    *)
(***************************************************************************)
EXTENDS Integers, FiniteSets

CONSTANTS QueryTabIds,  \* tabs: 1 is query-1
          MaxRuns,      \* bound on the runs
          MaxTxIds,     \* bound on the transaction ids a client makes
          MaxClicks     \* bound on the clicks, those on Run and on the mode aside

VARIABLES qtOpen,     \* tabs
          qtTab,      \* tabStates; Absent when there is no entry
          qtRuns,     \* runs under way, by number; the number is also the cancel token
          qtEnds,     \* requests under way that end a transaction
          qtLoads,    \* handleLoadMoreResults under way
          qtServer,   \* the transactions open on the server
          qtExcused,  \* transactions that the marks below excuse (a mark of the model)
          qtNextRun, qtNextTx, qtClicks

qtVars == <<qtOpen, qtTab, qtRuns, qtEnds, qtLoads, qtServer, qtExcused, qtNextRun, qtNextTx, qtClicks>>
counters == <<qtNextRun, qtNextTx, qtClicks>>

Click == qtClicks < MaxClicks /\ qtClicks' = qtClicks + 1 /\ UNCHANGED <<qtNextRun, qtNextTx>>

(* createDefaultQueryTabState; tx is transactionId, 0 for null, and token currentCancelToken. *)
Default == [mode |-> "auto", tx |-> 0, state |-> "idle", exec |-> FALSE, canceling |-> FALSE, token |-> 0,
            shown |-> "none", loading |-> FALSE]
Absent == [mode |-> "absent"]

State(t) == IF qtTab[t] = Absent THEN Default ELSE qtTab[t]
Busy(t)  == State(t).state \in {"committing", "rolling_back"}
RunsOf(t) == {n \in DOMAIN qtRuns : qtRuns[n].tab = t}
UsedBy(t) == {qtRuns[n].tx : n \in RunsOf(t)} \cup {State(t).tx}

(* A request of the tab that has not been answered yet will tell of the transaction before. *)
AnswerDue(t) == \E q \in qtEnds \cup qtLoads : q.tab = t

Init ==
    /\ qtOpen = {1} /\ qtTab = [t \in QueryTabIds |-> IF t = 1 THEN Default ELSE Absent]
    /\ qtRuns = <<>> /\ qtEnds = {} /\ qtLoads = {} /\ qtServer = {} /\ qtExcused = {}
    /\ qtNextRun = 1 /\ qtNextTx = 1 /\ qtClicks = 0

-----------------------------------------------------------------------------
(* Tabs. *)

(* onTabAdd: the id of a new tab is the time, so no answer is on its way to it. *)
OpenTab(t) ==
    /\ t \notin qtOpen \cup {1} /\ RunsOf(t) = {} /\ ~AnswerDue(t)
    /\ qtOpen' = qtOpen \cup {t} /\ qtTab' = [qtTab EXCEPT ![t] = Default]
    /\ Click /\ UNCHANGED <<qtRuns, qtEnds, qtLoads, qtServer, qtExcused>>

(* openSqlInQueryTab: the results of the tab go, its run and its transaction stay. *)
OpenSql(t) ==
    /\ t \in qtOpen
    /\ qtTab' = [qtTab EXCEPT ![t] = [State(t) EXCEPT !.shown = "none"]]
    /\ Click /\ UNCHANGED <<qtOpen, qtRuns, qtEnds, qtLoads, qtServer, qtExcused>>

EndRequest(t, action) == [tab |-> t, tx |-> State(t).tx, action |-> action, phase |-> "sent", was |-> State(t)]

(* rollbackTransactionSession *)
RollsBack(t) == State(t).mode = "manual" /\ State(t).state = "active" /\ State(t).tx # 0

(* The tabs S close, their requests go on; the entries of Gone are deleted, and tab 1 opens if none is left. *)
CloseTabs(S, Gone) ==
    /\ qtOpen' = IF S = qtOpen THEN {1} ELSE qtOpen \ S
    /\ qtTab' = [t \in QueryTabIds |-> IF t \in Gone THEN Absent ELSE qtTab[t]]
    /\ qtEnds' = qtEnds \cup {EndRequest(t, "close") : t \in {u \in S : RollsBack(u)}}
    /\ qtExcused' = qtExcused \cup UNION {UsedBy(t) : t \in {u \in Gone : RunsOf(u) # {} \/ Busy(u)}}
    /\ Click /\ UNCHANGED <<qtRuns, qtLoads, qtServer>>

(* handleTabClose, handleTabCloseOthers, handleTabCloseAll: the last keeps the entry of query-1. *)
TabClose(t)    == t \in qtOpen /\ CloseTabs({t}, {t})
CloseOthers(t) == t \in qtOpen /\ CloseTabs(qtOpen \ {t}, QueryTabIds \ {t})
CloseAll       == CloseTabs(qtOpen, QueryTabIds \ {1})

(* Mutant: a tab leaves manual mode with its transaction active. *)
ChangeModeAlways(t, mode) ==
    /\ t \in qtOpen /\ ~State(t).exec /\ ~Busy(t) /\ mode = "manual" => qtNextTx <= MaxTxIds
    /\ qtTab' = [qtTab EXCEPT ![t] = [State(t) EXCEPT
                     !.mode = mode, !.tx = IF mode = "manual" THEN qtNextTx ELSE 0, !.state = "idle"]]
    /\ qtNextTx' = IF mode = "manual" THEN qtNextTx + 1 ELSE qtNextTx
    /\ UNCHANGED <<qtOpen, qtRuns, qtEnds, qtLoads, qtServer, qtExcused, qtNextRun, qtClicks>>

(* handleTransactionModeChange; its buttons are disabled while the tab executes or is busy. *)
ChangeMode(t, mode) ==
    LET s == State(t)
    IN  /\ t \in qtOpen /\ ~s.exec /\ ~Busy(t) /\ mode # s.mode
        /\ mode = "auto" => s.state # "active"
        /\ mode = "manual" /\ s.tx = 0 => qtNextTx <= MaxTxIds
        /\ qtTab' = [qtTab EXCEPT ![t] = [s EXCEPT
                         !.mode = mode,
                         !.tx = IF mode = "auto" THEN 0 ELSE IF s.tx = 0 THEN qtNextTx ELSE s.tx,
                         !.state = IF mode = "manual" /\ s.state = "active" THEN "active" ELSE "idle"]]
        /\ qtNextTx' = IF mode = "manual" /\ s.tx = 0 THEN qtNextTx + 1 ELSE qtNextTx
        /\ UNCHANGED <<qtOpen, qtRuns, qtEnds, qtLoads, qtServer, qtExcused, qtNextRun, qtClicks>>

-----------------------------------------------------------------------------
(* Runs. *)

(* patchExecutingTabState: the entry as it is, or what the run found when it began. *)
Entry(t, was) == IF qtTab[t] = Absent THEN was ELSE qtTab[t]

(* Marked are the id a patch writes over, and those of runs of one tab that overlap. *)
Patched(t, was, s) ==
    /\ qtTab' = [qtTab EXCEPT ![t] = s]
    /\ qtExcused' = qtExcused \cup ({Entry(t, was).tx} \ {s.tx})

(* handleExecute.  Run sees the tab as it is rendered; its button waits for the run before, the
   history, the bookmarks and the confirmation do not.  Ctrl+Enter was bound when the editor was
   mounted, and sees the tab of that time: auto, idle, without a transaction.  A text of several
   statements runs until one fails. *)
Execute(t, s, statements) ==
    LET tx == IF s.mode = "auto" THEN 0 ELSE IF s.tx = 0 THEN qtNextTx ELSE s.tx
    IN  /\ t \in qtOpen /\ qtNextRun <= MaxRuns
        /\ s.mode = "manual" /\ s.tx = 0 => qtNextTx <= MaxTxIds
        /\ qtTab' = [qtTab EXCEPT ![t] = [Entry(t, s) EXCEPT
                !.exec = TRUE, !.canceling = FALSE, !.token = qtNextRun, !.tx = tx,
                !.state = IF s.mode = "manual" THEN s.state ELSE "idle", !.shown = "none", !.loading = FALSE]]
        /\ qtExcused' = IF RunsOf(t) # {} THEN qtExcused \cup UsedBy(t) \cup {tx}
                        ELSE qtExcused \cup ({State(t).tx} \ {tx})
                                       \cup (IF AnswerDue(t) /\ s.state = "idle" THEN {tx} ELSE {})
        /\ qtRuns' = [n \in DOMAIN qtRuns \cup {qtNextRun} |->
                IF n \in DOMAIN qtRuns THEN qtRuns[n]
                ELSE [tab |-> t, tx |-> tx, was |-> s, loop |-> s.state, several |-> statements > 1, left |-> statements,
                      begin |-> s.mode = "manual" /\ s.state = "idle"]]
        /\ qtNextRun' = qtNextRun + 1
        /\ qtNextTx' = IF tx = qtNextTx THEN qtNextTx + 1 ELSE qtNextTx
        /\ UNCHANGED <<qtOpen, qtEnds, qtLoads, qtServer, qtClicks>>

Run(t, statements)    == Execute(t, State(t), statements)
RunKey(t, statements) == Execute(t, Default, statements)

(* The result and the finally patch of handleExecute. *)
Over(s, tx, state) == [s EXCEPT !.exec = FALSE, !.canceling = FALSE, !.token = 0, !.tx = tx, !.state = state]

Ends(n, state, shown) ==
    LET r == qtRuns[n]
    IN  /\ Patched(r.tab, r.was, [Over(Entry(r.tab, r.was), r.tx, state) EXCEPT !.shown = shown])
        /\ qtRuns' = [m \in DOMAIN qtRuns \ {n} |-> qtRuns[m]]

(* An error: one statement alone puts a manual tab in "active"; among several, the loop's state counts. *)
Fails(n, loop) ==
    Ends(n, IF qtRuns[n].several THEN loop ELSE IF qtRuns[n].was.mode = "manual" THEN "active" ELSE "idle",
         IF qtRuns[n].several THEN "all" ELSE "none")

(* A begin finds the transaction of its id or opens one. *)
Begin(n) ==
    LET r == qtRuns[n]
    IN  /\ r.begin /\ qtServer' = qtServer \cup {r.tx}
        /\ qtRuns' = [qtRuns EXCEPT ![n].begin = FALSE, ![n].loop = "active"]
        /\ UNCHANGED <<qtOpen, qtTab, qtEnds, qtLoads, qtExcused, counters>>

(* The begin is refused, or its answer is lost. *)
BeginFails(n) ==
    LET r == qtRuns[n]
    IN  /\ r.begin
        /\ \/ Fails(n, "idle") /\ UNCHANGED qtServer
           \/ /\ ~r.several /\ Fails(n, "idle") /\ qtServer' = qtServer \cup {r.tx}
           \/ /\ r.several /\ qtServer' = qtServer \cup {r.tx}
              /\ qtTab' = [qtTab EXCEPT ![r.tab] = Over(Entry(r.tab, r.was), r.tx, "idle")]
              /\ qtRuns' = [m \in DOMAIN qtRuns \ {n} |-> qtRuns[m]]
              /\ qtExcused' = qtExcused \cup {r.tx, Entry(r.tab, r.was).tx}
        /\ UNCHANGED <<qtOpen, qtEnds, qtLoads, counters>>

(* A statement succeeds; a COMMIT or ROLLBACK in the text ends the transaction. *)
StatementDone(n) ==
    LET r == qtRuns[n]
    IN  /\ ~r.begin /\ (r.tx = 0 \/ r.tx \in qtServer)
        /\ \E ends \in (IF r.tx = 0 THEN {FALSE} ELSE BOOLEAN), shown \in {"all", "more"} :
             LET loop == IF r.tx = 0 THEN r.loop ELSE IF ends THEN "idle" ELSE "active"
             IN  /\ qtServer' = IF ends THEN qtServer \ {r.tx} ELSE qtServer
                 /\ IF r.left > 1
                    THEN /\ qtRuns' = [qtRuns EXCEPT ![n].left = @ - 1, ![n].loop = loop]
                         /\ UNCHANGED <<qtTab, qtExcused>>
                    ELSE Ends(n, loop, shown)
        /\ UNCHANGED <<qtOpen, qtEnds, qtLoads, counters>>

(* An error of the server, a canceled statement, or a transaction it does not know. *)
StatementFails(n) ==
    LET r == qtRuns[n]
    IN  /\ ~r.begin
        /\ Fails(n, IF r.tx # 0 /\ r.tx \notin qtServer THEN "idle" ELSE r.loop)
        /\ UNCHANGED <<qtOpen, qtEnds, qtLoads, qtServer, counters>>

(* "Dangerous SQL" of the server: the dialog opens and only the finally patch is made. *)
AskedToConfirm(n) ==
    LET r == qtRuns[n]
        s == Entry(r.tab, r.was)
    IN  /\ ~r.begin /\ ~r.several
        /\ qtTab' = [qtTab EXCEPT ![r.tab] = Over(s, s.tx, s.state)]
        /\ qtExcused' = IF s.state = "idle" THEN qtExcused \cup {r.tx} ELSE qtExcused
        /\ qtRuns' = [m \in DOMAIN qtRuns \ {n} |-> qtRuns[m]]
        /\ UNCHANGED <<qtOpen, qtEnds, qtLoads, qtServer, counters>>

(* handleCancelExecution and its answer, which comes before the tab is closed: the run itself
   ends by its own answer. *)
Cancel(t) ==
    /\ t \in qtOpen /\ State(t).exec /\ State(t).token # 0 /\ ~State(t).canceling
    /\ qtTab' = [qtTab EXCEPT ![t].canceling = TRUE]
    /\ Click /\ UNCHANGED <<qtOpen, qtRuns, qtEnds, qtLoads, qtServer, qtExcused>>
CancelRefused(t) ==
    /\ State(t).canceling
    /\ qtTab' = [qtTab EXCEPT ![t].canceling = FALSE]
    /\ UNCHANGED <<qtOpen, qtRuns, qtEnds, qtLoads, qtServer, qtExcused, counters>>

-----------------------------------------------------------------------------
(* Ends of a transaction. *)

(* handleTransactionAction; its buttons need an active tab that does not execute. *)
EndTransaction(t, action) ==
    /\ t \in qtOpen /\ RollsBack(t) /\ ~State(t).exec
    /\ qtEnds' = qtEnds \cup {EndRequest(t, action)}
    /\ qtTab' = [qtTab EXCEPT ![t].state = IF action = "commit" THEN "committing" ELSE "rolling_back"]
    /\ Click /\ UNCHANGED <<qtOpen, qtRuns, qtLoads, qtServer, qtExcused>>

(* The server ends it, does not know it, or fails and keeps it: after the silent rollback of a
   closed tab nobody is told, and the transaction is marked. *)
ServerEnds(e) ==
    /\ e.phase = "sent"
    /\ \E phase \in IF e.tx \in qtServer THEN {"done", "failed"} ELSE {"gone"} :
         /\ qtEnds' = (qtEnds \ {e}) \cup {[e EXCEPT !.phase = phase]}
         /\ qtServer' = IF phase = "done" THEN qtServer \ {e.tx} ELSE qtServer
         /\ qtExcused' = IF phase = "failed" /\ e.action = "close" THEN qtExcused \cup {e.tx} ELSE qtExcused
    /\ UNCHANGED <<qtOpen, qtTab, qtRuns, qtLoads, counters>>

EndAnswered(e) ==
    /\ e.phase # "sent" /\ qtEnds' = qtEnds \ {e}
    /\ qtTab' = IF e.action = "close" THEN qtTab
                ELSE [qtTab EXCEPT ![e.tab] = [Entry(e.tab, e.was) EXCEPT
                        !.state = IF e.phase = "failed" THEN "active" ELSE "idle",
                        !.token = IF e.phase = "done" THEN 0 ELSE @]]
    /\ UNCHANGED <<qtOpen, qtRuns, qtLoads, qtServer, qtExcused, counters>>

(* The sweep of the server, or its restart. *)
ServerForgets(x) ==
    /\ x \in qtServer /\ qtServer' = qtServer \ {x}
    /\ UNCHANGED <<qtOpen, qtTab, qtRuns, qtEnds, qtLoads, qtExcused, counters>>

-----------------------------------------------------------------------------
(* More rows of a result. *)

(* onClearResults *)
ClearResults(t) ==
    /\ t \in qtOpen /\ State(t).shown # "none"
    /\ qtTab' = [qtTab EXCEPT ![t].shown = "none", ![t].loading = FALSE]
    /\ Click /\ UNCHANGED <<qtOpen, qtRuns, qtEnds, qtLoads, qtServer, qtExcused>>

LoadMore(t) ==
    LET s == State(t)
    IN  /\ t \in qtOpen /\ s.shown = "more" /\ ~s.loading /\ (s.mode = "auto" \/ s.state = "active")
        /\ qtLoads' = qtLoads \cup {[tab |-> t, tx |-> IF RollsBack(t) THEN s.tx ELSE 0, answer |-> "none", was |-> s]}
        /\ qtTab' = [qtTab EXCEPT ![t].loading = TRUE]
        /\ Click /\ UNCHANGED <<qtOpen, qtRuns, qtEnds, qtServer, qtExcused>>

(* A chunk in a transaction tells whether the transaction is still there. *)
ServerLoads(l) ==
    /\ l.answer = "none"
    /\ \E answer \in {"failed"} \cup (IF l.tx = 0 THEN {"rows"} ELSE IF l.tx \in qtServer THEN {"active"} ELSE {"idle"}) :
         qtLoads' = (qtLoads \ {l}) \cup {[l EXCEPT !.answer = answer]}
    /\ UNCHANGED <<qtOpen, qtTab, qtRuns, qtEnds, qtServer, qtExcused, counters>>

(* The rows go to whatever result the tab shows by then. *)
MoreRows(l) ==
    /\ l.answer \in {"rows", "active", "idle"} /\ qtLoads' = qtLoads \ {l}
    /\ IF qtTab[l.tab] = Absent \/ State(l.tab).shown = "none" THEN UNCHANGED qtTab
       ELSE \E shown \in {"all", "more"} :
               qtTab' = [qtTab EXCEPT ![l.tab] = [State(l.tab) EXCEPT !.loading = FALSE, !.shown = shown,
                            !.state = IF l.answer = "rows" THEN @ ELSE l.answer]]
    /\ UNCHANGED <<qtOpen, qtRuns, qtEnds, qtServer, qtExcused, counters>>
LoadMoreFails(l) ==
    /\ l.answer = "failed" /\ qtLoads' = qtLoads \ {l}
    /\ qtTab' = [qtTab EXCEPT ![l.tab] = [Entry(l.tab, l.was) EXCEPT !.loading = FALSE]]
    /\ UNCHANGED <<qtOpen, qtRuns, qtEnds, qtServer, qtExcused, counters>>

(* What the tab bar, the two ends of the editor's bar and the results offer. *)
TabBar(t)    == OpenTab(t) \/ TabClose(t) \/ CloseOthers(t)
TransactionButtons(t) ==
    \/ \E mode \in {"auto", "manual"} : ChangeMode(t, mode)
    \/ \E action \in {"commit", "rollback"} : EndTransaction(t, action)
RunButtons(t) == Cancel(t) \/ \E statements \in 1..2 : Run(t, statements) \/ RunKey(t, statements)
ResultBar(t)  == LoadMore(t) \/ ClearResults(t)

Next ==
    \/ \E t \in QueryTabIds :
         TabBar(t) \/ OpenSql(t) \/ TransactionButtons(t) \/ RunButtons(t) \/ ResultBar(t) \/ CancelRefused(t)
    \/ CloseAll
    \/ \E n \in DOMAIN qtRuns :
         Begin(n) \/ BeginFails(n) \/ StatementDone(n) \/ StatementFails(n) \/ AskedToConfirm(n)
    \/ \E e \in qtEnds : ServerEnds(e) \/ EndAnswered(e)
    \/ \E l \in qtLoads : ServerLoads(l) \/ MoreRows(l) \/ LoadMoreFails(l)
    \/ \E x \in qtServer : ServerForgets(x)

-----------------------------------------------------------------------------

(* A transaction that is open on the server is one an open tab shows as not idle, or one that  *)
(* a request under way uses (handleExecute, handleTransactionAction, handleTabClose).  The     *)
(* code does lose some, and these (qtExcused) are left out: that of a tab closed while it runs *)
(* or ends (CloseTabs); that of a closed tab whose silent rollback fails (ServerEnds); those   *)
(* of runs of one tab that overlap, and of a run by key that writes another id over the tab's  *)
(* (Execute, Patched); one begun while an older answer for the tab is still due, which then    *)
(* shows the tab as idle (Execute); one whose begin among several statements loses its answer  *)
(* (BeginFails); and the one behind the dialog for dangerous SQL (AskedToConfirm).             *)
EveryTransactionHasItsTab ==
    \A x \in qtServer \ qtExcused :
        \/ \E t \in qtOpen : State(t).mode = "manual" /\ State(t).tx = x /\ State(t).state # "idle"
        \/ \E n \in DOMAIN qtRuns : qtRuns[n].tx = x
        \/ \E e \in qtEnds : e.tx = x
=============================================================================
