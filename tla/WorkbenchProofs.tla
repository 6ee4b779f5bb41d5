-------------------------- MODULE WorkbenchProofs ---------------------------
(***************************************************************************)
(* The SQL workbench of the web client: every transaction that is open on  *)
(* the server is shown by a tab or used by a request (QueryTabs), for any  *)
(* tabs and any number of runs and transactions; and the grid of a result  *)
(* stays on the rows that were looked at (ResultGrid).  A step of          *)
(* QueryTabs is one of a single tab (Apart), and what a transaction has to *)
(* do with is in the one tab that knows its id (OneTab), so each lemma is  *)
(* about that tab alone (TracedAt).                                        *)
(***************************************************************************)
EXTENDS MCWebClient, FiniteSetTheorems, SequenceTheorems, TLAPS

(* A step is one of the view, or leaves its variables alone. *)
LEMMA OthersKeep ==
    ASSUME [Next]_vars
    PROVE  /\ view' = view
           /\ view = "tabs" => QT!Next \/ UNCHANGED tabs
           /\ view = "results" => RG!Next \/ UNCHANGED results
BY DEF Next, Pages, Grid, Conflicts, Values, Layout, Tabs, Config, Jobs, Plans, SuitesTab, Schemas,
       ResultsView, vars

-----------------------------------------------------------------------------
(* The transactions of the tabs. *)

TxStates == {"idle", "active", "committing", "rolling_back"}
Entries == [mode : {"auto", "manual"}, tx : Nat, state : TxStates, exec : BOOLEAN, canceling : BOOLEAN,
            token : Nat, shown : {"none", "all", "more"}, loading : BOOLEAN]
TabRuns == [tab : QueryTabIds, tx : Nat, was : Entries, loop : TxStates, several : BOOLEAN, left : Nat,
            begin : BOOLEAN]
TabEnds == [tab : QueryTabIds, tx : Nat \ {0}, action : {"commit", "rollback", "close"},
            phase : {"sent", "done", "gone", "failed"}, was : Entries]
TabLoads == [tab : QueryTabIds, tx : Nat, answer : {"none", "failed", "rows", "active", "idle"},
             was : Entries]

TabTypes ==
    /\ qtOpen \subseteq QueryTabIds
    /\ qtTab \in [QueryTabIds -> Entries \cup {QT!Absent}]
    /\ qtRuns \in [DOMAIN qtRuns -> TabRuns] /\ DOMAIN qtRuns \subseteq 1..(qtNextRun - 1)
    /\ \A n \in DOMAIN qtRuns : qtRuns[n].begin => qtRuns[n].tx # 0
    /\ qtEnds \subseteq TabEnds
    /\ qtLoads \subseteq TabLoads
    /\ \A l \in qtLoads : l.answer \in {"active", "idle"} => l.tx # 0
    /\ qtServer \subseteq Nat \ {0}
    /\ qtNextRun \in Nat \ {0} /\ qtNextTx \in Nat \ {0}

(* The tab, its runs and its requests know of a transaction. *)
Of(t, x) ==
    \/ QT!State(t).tx = x
    \/ \E n \in DOMAIN qtRuns : qtRuns[n].tab = t /\ (qtRuns[n].tx = x \/ qtRuns[n].was.tx = x)
    \/ \E e \in qtEnds : e.tab = t /\ (e.tx = x \/ e.was.tx = x)
    \/ \E l \in qtLoads : l.tab = t /\ (l.tx = x \/ l.was.tx = x)

(* An id is known in one tab only, and is one that was made. *)
OneTab ==
    /\ \A t, u \in QueryTabIds, x \in Nat \ {0} : Of(t, x) /\ Of(u, x) => t = u
    /\ \A t \in QueryTabIds, x \in Nat : Of(t, x) => x < qtNextTx
    /\ \A x \in qtServer : x < qtNextTx

(* A transaction that is open or about to be, that a closed tab is ending, that a tab shows. *)
Live(x) == x \in qtServer \/ \E n \in DOMAIN qtRuns : qtRuns[n].begin /\ qtRuns[n].tx = x
Closing(x) == \E e \in qtEnds : e.action = "close" /\ e.tx = x /\ e.phase = "sent"
Home(t, x) == t \in qtOpen /\ QT!State(t).mode = "manual" /\ QT!State(t).tx = x

Runs(x) == \E n \in DOMAIN qtRuns : qtRuns[n].tx = x

(* An open one that nobody is ending has a run or is shown. *)
OpenIsHome(x) ==
    x \in qtServer => Closing(x) \/ Runs(x) \/ \E t \in QueryTabIds : Home(t, x) /\ QT!State(t).state # "idle"

(* A run is alone in the home of its transaction; when it is to begin, no answer is due there; and   *)
(* its loop knows whether the transaction is open.                                                  *)
RunIsHome(x) ==
    \A n \in DOMAIN qtRuns : qtRuns[n].tx = x =>
        LET t == qtRuns[n].tab
        IN  /\ Home(t, x) /\ QT!State(t).exec /\ qtRuns[n].was.mode = "manual"
            /\ \A m \in DOMAIN qtRuns : qtRuns[m].tab = t => m = n
            /\ qtRuns[n].begin => /\ x \notin qtServer /\ ~QT!AnswerDue(t)
                                  /\ QT!State(t).state = "idle" /\ QT!State(t).shown = "none"
            /\ qtRuns[n].begin \/ qtRuns[n].loop # "idle" \/ x \notin qtServer

(* An answer that says it is gone is right. *)
GoneIsGone(x) ==
    /\ \A e \in qtEnds : e.phase \in {"done", "gone"} /\ e.tx = x => ~Live(x)
    /\ \A l \in qtLoads : l.answer = "idle" /\ l.tx = x => ~Live(x)

(* The answers that its home waits for are about it. *)
AnswersAreOfIt(x) ==
    \A t \in QueryTabIds : Live(x) /\ ~Closing(x) /\ Home(t, x) =>
        /\ \A e \in qtEnds : e.tab = t /\ e.action # "close" => e.tx = x
        /\ \A l \in qtLoads : l.tab = t => l.tx \in {0, x}

IsTraced(x) == OpenIsHome(x) /\ RunIsHome(x) /\ GoneIsGone(x) /\ AnswersAreOfIt(x)

TabsInv == TabTypes /\ OneTab /\ \A x \in Nat \ {0} : x \notin qtExcused => IsTraced(x)

-----------------------------------------------------------------------------
(* Entries. *)

LEMMA EntryTypes ==
    /\ QT!Default \in Entries
    /\ \A s \in Entries : s # QT!Absent
    /\ \A s \in Entries, shown \in {"none", "all", "more"} : [s EXCEPT !.shown = shown] \in Entries
<1>1. QT!Default \in Entries
  BY DEF QT!Default, Entries, TxStates
<1>2. ASSUME NEW s \in Entries PROVE s # QT!Absent
  <2>1. s.mode # QT!Absent.mode
    BY DEF Entries, QT!Absent
  <2> QED  BY <2>1
<1>3. ASSUME NEW s \in Entries, NEW shown \in {"none", "all", "more"}
      PROVE  [s EXCEPT !.shown = shown] \in Entries
  BY DEF Entries
<1> QED  BY <1>1, <1>2, <1>3

LEMMA StateTypes ==
    ASSUME TabTypes, NEW t \in QueryTabIds
    PROVE  /\ QT!State(t) \in Entries
           /\ \A was \in Entries : QT!Entry(t, was) \in Entries
           /\ qtTab[t] # QT!Absent => QT!State(t) = qtTab[t] /\ \A was \in Entries : QT!Entry(t, was) = QT!State(t)
           /\ qtTab[t] = QT!Absent => QT!State(t) = QT!Default /\ \A was \in Entries : QT!Entry(t, was) = was
BY EntryTypes DEF TabTypes, QT!State, QT!Entry

LEMMA OverFields ==
    ASSUME NEW s \in Entries, NEW tx \in Nat, NEW state \in TxStates
    PROVE  /\ QT!Over(s, tx, state) \in Entries
           /\ QT!Over(s, tx, state).mode = s.mode /\ QT!Over(s, tx, state).tx = tx
           /\ QT!Over(s, tx, state).state = state
BY DEF QT!Over, Entries

(* An entry that is written is what the tab shows; the others stay. *)
LEMMA PatchedTab ==
    ASSUME TabTypes, NEW t \in QueryTabIds, NEW s \in Entries, qtTab' = [qtTab EXCEPT ![t] = s]
    PROVE  /\ qtTab' \in [QueryTabIds -> Entries \cup {QT!Absent}]
           /\ QT!State(t)' = s
           /\ \A u \in QueryTabIds : u # t => QT!State(u)' = QT!State(u)
<1>1. s # QT!Absent
  BY EntryTypes
<1> QED  BY <1>1 DEF TabTypes, QT!State

-----------------------------------------------------------------------------
(* Steps of one tab. *)

(* The step of a tab leaves the others alone, and what they know of. *)
Apart(t) ==
    /\ \A u \in QueryTabIds : u # t => QT!State(u)' = QT!State(u) /\ (u \in qtOpen' <=> u \in qtOpen)
    /\ \A n \in DOMAIN qtRuns' : qtRuns'[n].tab # t => n \in DOMAIN qtRuns /\ qtRuns'[n] = qtRuns[n]
    /\ \A n \in DOMAIN qtRuns : qtRuns[n].tab # t => n \in DOMAIN qtRuns' /\ qtRuns'[n] = qtRuns[n]
    /\ \A e \in qtEnds : e.tab # t => e \in qtEnds'
    /\ \A e \in qtEnds' : e.tab # t => e \in qtEnds
    /\ \A l \in qtLoads : l.tab # t => l \in qtLoads'
    /\ \A l \in qtLoads' : l.tab # t => l \in qtLoads
    /\ \A y \in Nat : ~Of(t, y) => (y \in qtServer' <=> y \in qtServer)
    /\ qtExcused \subseteq qtExcused'

(* It learns of no other id than a new one. *)
Learns(t) ==
    /\ \A x \in Nat \ {0} : Of(t, x)' => Of(t, x) \/ (x = qtNextTx /\ qtNextTx' = qtNextTx + 1)
    /\ qtNextTx' \in {qtNextTx, qtNextTx + 1}

LEMMA OtherTabsKnowTheSame ==
    ASSUME TabTypes, NEW t \in QueryTabIds, Apart(t), NEW u \in QueryTabIds, u # t, NEW x
    PROVE  Of(u, x)' <=> Of(u, x)
<1>1. QT!State(u)' = QT!State(u)
  BY DEF Apart
<1>2. \A n : n \in DOMAIN qtRuns /\ qtRuns[n].tab = u <=> n \in DOMAIN qtRuns' /\ qtRuns'[n].tab = u
  BY DEF Apart
<1>3. \A n : n \in DOMAIN qtRuns /\ qtRuns[n].tab = u => qtRuns'[n] = qtRuns[n]
  BY DEF Apart
<1>4. \A e : e.tab = u => (e \in qtEnds <=> e \in qtEnds')
  BY DEF Apart
<1>5. \A l : l.tab = u => (l \in qtLoads <=> l \in qtLoads')
  BY DEF Apart
<1> QED  BY <1>1, <1>2, <1>3, <1>4, <1>5 DEF Of

LEMMA OneTabKeeps ==
    ASSUME TabTypes, TabTypes', OneTab, NEW t \in QueryTabIds, Apart(t), Learns(t)
    PROVE  OneTab'
<1>1. ASSUME NEW u \in QueryTabIds, NEW x \in Nat \ {0}, Of(u, x)'
      PROVE  Of(u, x) \/ (u = t /\ x = qtNextTx /\ qtNextTx' = qtNextTx + 1)
  BY <1>1, OtherTabsKnowTheSame DEF Learns
<1>2. ASSUME NEW u \in QueryTabIds, NEW v \in QueryTabIds, NEW x \in Nat \ {0}, Of(u, x)', Of(v, x)'
      PROVE  u = v
  <2>1. ~(Of(u, qtNextTx) \/ Of(v, qtNextTx))
    BY DEF OneTab, TabTypes
  <2> QED  BY <1>1, <1>2, <2>1 DEF OneTab
<1>3. qtNextTx' \in Nat \ {0} /\ qtNextTx <= qtNextTx'
  BY DEF Learns, TabTypes
<1>4. ASSUME NEW u \in QueryTabIds, NEW x \in Nat, Of(u, x)' PROVE x < qtNextTx'
  <2>1. CASE x = 0
    BY <1>3, <2>1
  <2>2. CASE x # 0 /\ Of(u, x)
    BY <1>3, <2>2 DEF OneTab, TabTypes
  <2>3. CASE x # 0 /\ x = qtNextTx /\ qtNextTx' = qtNextTx + 1
    BY <2>3 DEF TabTypes
  <2> QED  BY <1>1, <1>4, <2>1, <2>2, <2>3
<1>5. ASSUME NEW x \in qtServer', x \in Nat PROVE x < qtNextTx'
  <2>1. x \in qtServer \/ Of(t, x)
    BY <1>5 DEF Apart
  <2>2. x < qtNextTx
    BY <1>5, <2>1 DEF OneTab
  <2> QED  BY <1>3, <1>5, <2>2 DEF TabTypes
<1>6. \A x \in qtServer' : x \in Nat
  BY DEF TabTypes
<1> QED  BY <1>2, <1>4, <1>5, <1>6 DEF OneTab
(* What a transaction of a tab has to do with is in the tab. *)
TracedAt(t, x) ==
    /\ x \in qtServer => Closing(x) \/ Runs(x) \/ (Home(t, x) /\ QT!State(t).state # "idle")
    /\ \A n \in DOMAIN qtRuns : qtRuns[n].tx = x =>
         /\ Home(t, x) /\ QT!State(t).exec /\ qtRuns[n].was.mode = "manual"
         /\ \A m \in DOMAIN qtRuns : qtRuns[m].tab = t => m = n
         /\ qtRuns[n].begin => /\ x \notin qtServer /\ ~QT!AnswerDue(t)
                               /\ QT!State(t).state = "idle" /\ QT!State(t).shown = "none"
         /\ qtRuns[n].begin \/ qtRuns[n].loop # "idle" \/ x \notin qtServer
    /\ \A e \in qtEnds : e.phase \in {"done", "gone"} /\ e.tx = x => ~Live(x)
    /\ \A l \in qtLoads : l.answer = "idle" /\ l.tx = x => ~Live(x)
    /\ Live(x) /\ ~Closing(x) /\ Home(t, x) =>
         /\ \A e \in qtEnds : e.tab = t /\ e.action # "close" => e.tx = x
         /\ \A l \in qtLoads : l.tab = t => l.tx \in {0, x}

(* In the only tab that knows of it. *)
Only(t, x) ==
    /\ \A u \in QueryTabIds : Home(u, x) => u = t
    /\ \A n \in DOMAIN qtRuns : qtRuns[n].tx = x => qtRuns[n].tab = t
    /\ \A e \in qtEnds : e.tx = x => e.tab = t
    /\ \A l \in qtLoads : l.tx = x => l.tab = t

LEMMA KnownOnlyThere ==
    ASSUME TabTypes, NEW t \in QueryTabIds, NEW x \in Nat \ {0}, \A u \in QueryTabIds : Of(u, x) => u = t
    PROVE  Only(t, x)
<1>1. \A u \in QueryTabIds : Home(u, x) => Of(u, x)
  BY DEF Home, Of
<1>2. \A n \in DOMAIN qtRuns : qtRuns[n].tx = x => qtRuns[n].tab \in QueryTabIds /\ Of(qtRuns[n].tab, x)
  BY DEF TabTypes, TabRuns, Of
<1>3. \A e \in qtEnds : e.tx = x => e.tab \in QueryTabIds /\ Of(e.tab, x)
  BY DEF TabTypes, TabEnds, Of
<1>4. \A l \in qtLoads : l.tx = x => l.tab \in QueryTabIds /\ Of(l.tab, x)
  BY DEF TabTypes, TabLoads, Of
<1> QED  BY <1>1, <1>2, <1>3, <1>4 DEF Only

LEMMA TracedThere ==
    ASSUME NEW t \in QueryTabIds, NEW x \in Nat \ {0}, Only(t, x)
    PROVE  IsTraced(x) <=> TracedAt(t, x)
<1>1. OpenIsHome(x) <=>
        (x \in qtServer => Closing(x) \/ Runs(x) \/ (Home(t, x) /\ QT!State(t).state # "idle"))
  BY DEF Only, OpenIsHome
<1>2. RunIsHome(x) <=>
        \A n \in DOMAIN qtRuns : qtRuns[n].tx = x =>
         /\ Home(t, x) /\ QT!State(t).exec /\ qtRuns[n].was.mode = "manual"
         /\ \A m \in DOMAIN qtRuns : qtRuns[m].tab = t => m = n
         /\ qtRuns[n].begin => /\ x \notin qtServer /\ ~QT!AnswerDue(t)
                               /\ QT!State(t).state = "idle" /\ QT!State(t).shown = "none"
         /\ qtRuns[n].begin \/ qtRuns[n].loop # "idle" \/ x \notin qtServer
  <2>1. \A n \in DOMAIN qtRuns : qtRuns[n].tx = x => qtRuns[n].tab = t
    BY DEF Only
  <2> QED  BY <2>1 DEF RunIsHome
<1>3. AnswersAreOfIt(x) <=>
        (Live(x) /\ ~Closing(x) /\ Home(t, x) =>
         /\ \A e \in qtEnds : e.tab = t /\ e.action # "close" => e.tx = x
         /\ \A l \in qtLoads : l.tab = t => l.tx \in {0, x})
  BY DEF Only, AnswersAreOfIt
<1> QED  BY <1>1, <1>2, <1>3 DEF IsTraced, TracedAt, GoneIsGone

(* The same after a step. *)
LEMMA TracedThereNext ==
    ASSUME NEW t \in QueryTabIds, NEW x \in Nat \ {0}
    PROVE  /\ (TabTypes /\ (\A u \in QueryTabIds : Of(u, x) => u = t) => Only(t, x))'
           /\ (Only(t, x) => (IsTraced(x) <=> TracedAt(t, x)))'
<1>1. TabTypes /\ (\A u \in QueryTabIds : Of(u, x) => u = t) => Only(t, x)
  BY KnownOnlyThere
<1>2. Only(t, x) => (IsTraced(x) <=> TracedAt(t, x))
  BY TracedThere
<1> QED  BY <1>1, <1>2, PTL

(* A transaction that the tab does not know of stays traced. *)
LEMMA OthersStayTraced ==
    ASSUME TabTypes, TabTypes', NEW t \in QueryTabIds, Apart(t),
           NEW x \in Nat \ {0}, ~Of(t, x), ~Of(t, x)', IsTraced(x)
    PROVE  IsTraced(x)'
<1>1. \A u \in QueryTabIds : Home(u, x)' <=> Home(u, x)
  <2>1. ~Home(t, x) /\ ~Home(t, x)'
    BY DEF Home, Of
  <2>2. \A u \in QueryTabIds : u # t => (Home(u, x)' <=> Home(u, x))
    BY DEF Apart, Home
  <2> QED  BY <2>1, <2>2
<1>2. /\ \A n \in DOMAIN qtRuns : qtRuns[n].tx = x => qtRuns[n].tab # t
      /\ \A n \in DOMAIN qtRuns' : qtRuns'[n].tx = x => qtRuns'[n].tab # t
  BY DEF Of
<1>3. /\ \A e \in qtEnds : e.tx = x => e.tab # t
      /\ \A e \in qtEnds' : e.tx = x => e.tab # t
      /\ \A l \in qtLoads : l.tx = x => l.tab # t
      /\ \A l \in qtLoads' : l.tx = x => l.tab # t
  BY DEF Of
<1>4. x \in qtServer' <=> x \in qtServer
  BY DEF Apart
<1>5. Live(x)' <=> Live(x)
  BY <1>2, <1>4 DEF Apart, Live
<1>6. Closing(x)' <=> Closing(x)
  BY <1>3 DEF Apart, Closing
<1>7. ~Home(t, x)
  BY DEF Home, Of
<1>8. ASSUME NEW u \in QueryTabIds, u # t
      PROVE  QT!State(u)' = QT!State(u) /\ (QT!AnswerDue(u)' <=> QT!AnswerDue(u))
  <2>2. QT!AnswerDue(u)' <=> QT!AnswerDue(u)
    BY <1>8 DEF Apart, QT!AnswerDue
  <2> QED  BY <1>8, <2>2 DEF Apart
<1>9. OpenIsHome(x)'
  <2> SUFFICES ASSUME x \in qtServer', ~Closing(x)', ~Runs(x)'
               PROVE  \E u \in QueryTabIds : Home(u, x)' /\ QT!State(u)'.state # "idle"
    BY DEF OpenIsHome
  <2>0. ~Runs(x)
    BY <1>2 DEF Apart, Runs
  <2>1. PICK u \in QueryTabIds : Home(u, x) /\ QT!State(u).state # "idle"
    BY <1>4, <1>6, <2>0 DEF IsTraced, OpenIsHome
  <2>2. u # t /\ Home(u, x)'
    BY <1>1, <1>7, <2>1
  <2>3. QT!State(u)' = QT!State(u)
    BY <1>8, <2>2
  <2> QED  BY <2>1, <2>2, <2>3
<1>10. RunIsHome(x)'
  <2> SUFFICES ASSUME NEW n \in DOMAIN qtRuns', qtRuns'[n].tx = x, NEW u, u = qtRuns'[n].tab
               PROVE  /\ Home(u, x)' /\ QT!State(u)'.exec /\ qtRuns'[n].was.mode = "manual"
                      /\ \A m \in DOMAIN qtRuns' : qtRuns'[m].tab = u => m = n
                      /\ qtRuns'[n].begin => /\ x \notin qtServer' /\ ~QT!AnswerDue(u)'
                                             /\ QT!State(u)'.state = "idle" /\ QT!State(u)'.shown = "none"
                      /\ qtRuns'[n].begin \/ qtRuns'[n].loop # "idle" \/ x \notin qtServer'
    BY DEF RunIsHome
  <2>1. n \in DOMAIN qtRuns /\ qtRuns[n] = qtRuns'[n] /\ u # t /\ u \in QueryTabIds
    BY <1>2 DEF Apart, TabTypes, TabRuns
  <2>2. /\ Home(u, x) /\ QT!State(u).exec /\ qtRuns[n].was.mode = "manual"
        /\ \A m \in DOMAIN qtRuns : qtRuns[m].tab = u => m = n
        /\ qtRuns[n].begin => /\ x \notin qtServer /\ ~QT!AnswerDue(u)
                              /\ QT!State(u).state = "idle" /\ QT!State(u).shown = "none"
        /\ qtRuns[n].begin \/ qtRuns[n].loop # "idle" \/ x \notin qtServer
    BY <2>1 DEF IsTraced, RunIsHome
  <2>3. \A m \in DOMAIN qtRuns' : qtRuns'[m].tab = u => m = n
    BY <2>1, <2>2 DEF Apart
  <2>4. QT!State(u)' = QT!State(u) /\ (QT!AnswerDue(u)' <=> QT!AnswerDue(u))
    BY <1>8, <2>1
  <2>5. Home(u, x)'
    BY <1>1, <2>1, <2>2
  <2> QED  BY <1>4, <2>1, <2>2, <2>3, <2>4, <2>5
<1>11. GoneIsGone(x)'
  BY <1>3, <1>5 DEF Apart, IsTraced, GoneIsGone
<1>12. AnswersAreOfIt(x)'
  BY <1>1, <1>5, <1>6, <1>7 DEF Apart, IsTraced, AnswersAreOfIt
<1> QED  BY <1>9, <1>10, <1>11, <1>12 DEF IsTraced
(* What is left to show of the step of a tab: that the transactions known there stay traced. *)
LEMMA TabStepKeeps ==
    ASSUME TabsInv, TabTypes', NEW t \in QueryTabIds, Apart(t), Learns(t),
           \A x \in Nat \ {0} :
               x \notin qtExcused' /\ Only(t, x) /\ Only(t, x)' /\ TracedAt(t, x) => TracedAt(t, x)'
    PROVE  TabsInv'
<1>1. OneTab'
  BY OneTabKeeps DEF TabsInv
<1>2. ASSUME NEW x \in Nat \ {0}, x \notin qtExcused'
      PROVE  IsTraced(x)'
  <2>1. IsTraced(x)
    BY <1>2 DEF TabsInv, Apart
  <2>2. CASE ~Of(t, x) /\ ~Of(t, x)'
    BY <2>1, <2>2, OthersStayTraced DEF TabsInv
  <2>3. CASE Of(t, x) \/ Of(t, x)'
    <3>1. \A u \in QueryTabIds : Of(u, x)' => u = t
      <4>1. ASSUME NEW u \in QueryTabIds, Of(u, x)', u # t PROVE FALSE
        <5>1. Of(u, x)
          BY <4>1, OtherTabsKnowTheSame DEF TabsInv
        <5>2. ~Of(t, x)' /\ ~Of(t, x)
          BY <1>1, <4>1, <5>1 DEF OneTab, TabsInv
        <5> QED  BY <2>3, <5>2
      <4> QED  BY <4>1
    <3>2. \A u \in QueryTabIds : Of(u, x) => u = t
      <4>1. ASSUME NEW u \in QueryTabIds, Of(u, x), u # t PROVE FALSE
        <5>1. Of(u, x)'
          BY <4>1, OtherTabsKnowTheSame DEF TabsInv
        <5> QED  BY <3>1, <4>1, <5>1
      <4> QED  BY <4>1
    <3>3. Only(t, x)
      BY <3>2, KnownOnlyThere DEF TabsInv
    <3>4. Only(t, x)'
      BY <3>1, TracedThereNext
    <3>5. TracedAt(t, x)
      BY <2>1, <3>3, TracedThere
    <3>6. TracedAt(t, x)'
      BY <1>2, <3>3, <3>4, <3>5
    <3>7. IsTraced(x)' <=> TracedAt(t, x)'
      BY <3>4, TracedThereNext
    <3> QED  BY <3>6, <3>7
  <2> QED  BY <2>2, <2>3
<1> QED  BY <1>1, <1>2 DEF TabsInv
-----------------------------------------------------------------------------
(* Steps that write an entry. *)

(* A step that writes ids which the tab knows, if any, learns nothing. *)
LEMMA LearnsNothing ==
    ASSUME NEW t \in QueryTabIds, qtNextTx' = qtNextTx,
           QT!State(t)'.tx = 0 \/ Of(t, QT!State(t)'.tx),
           \A n \in DOMAIN qtRuns' : qtRuns'[n].tab = t =>
               (qtRuns'[n].tx = 0 \/ Of(t, qtRuns'[n].tx)) /\ (qtRuns'[n].was.tx = 0 \/ Of(t, qtRuns'[n].was.tx)),
           \A q \in qtEnds' \cup qtLoads' : q.tab = t =>
               (q.tx = 0 \/ Of(t, q.tx)) /\ (q.was.tx = 0 \/ Of(t, q.was.tx))
    PROVE  Learns(t)
<1>1. ASSUME NEW x \in Nat \ {0}, Of(t, x)' PROVE Of(t, x)
  <2>1. \/ QT!State(t)'.tx = x
        \/ \E n \in DOMAIN qtRuns' : qtRuns'[n].tab = t /\ (qtRuns'[n].tx = x \/ qtRuns'[n].was.tx = x)
        \/ \E q \in qtEnds' \cup qtLoads' : q.tab = t /\ (q.tx = x \/ q.was.tx = x)
    BY <1>1 DEF Of
  <2> QED  BY <2>1
<1> QED  BY <1>1 DEF Learns

LEMMA KnownIds ==
    ASSUME NEW t \in QueryTabIds
    PROVE  /\ Of(t, QT!State(t).tx)
           /\ \A n \in DOMAIN qtRuns : qtRuns[n].tab = t => Of(t, qtRuns[n].tx) /\ Of(t, qtRuns[n].was.tx)
           /\ \A q \in qtEnds \cup qtLoads : q.tab = t => Of(t, q.tx) /\ Of(t, q.was.tx)
BY DEF Of

(* A button that leaves mode, transaction, state and run of its tab as they are. *)
LEMMA QuietEntryKeeps ==
    ASSUME TabsInv, NEW t \in QueryTabIds, NEW s \in Entries, qtTab' = [qtTab EXCEPT ![t] = s],
           s.mode = QT!State(t).mode, s.tx = QT!State(t).tx, s.state = QT!State(t).state,
           s.exec = QT!State(t).exec, s.shown \in {QT!State(t).shown, "none"},
           UNCHANGED <<qtOpen, qtRuns, qtEnds, qtLoads, qtServer, qtExcused, qtNextRun, qtNextTx>>
    PROVE  TabsInv'
<1>1. /\ TabTypes'
      /\ QT!State(t)' = s
      /\ \A u \in QueryTabIds : u # t => QT!State(u)' = QT!State(u)
  BY PatchedTab DEF TabsInv, TabTypes
<1>2. Apart(t)
  BY <1>1 DEF Apart
<1>3. Learns(t)
  BY <1>1, KnownIds, LearnsNothing
<1>4. ASSUME NEW x \in Nat \ {0}, TracedAt(t, x) PROVE TracedAt(t, x)'
  <2>1. Home(t, x)' <=> Home(t, x)
    BY <1>1 DEF Home
  <2>2. (Live(x)' <=> Live(x)) /\ (Closing(x)' <=> Closing(x)) /\ (Runs(x)' <=> Runs(x))
    BY DEF Live, Closing, Runs
  <2>3. QT!AnswerDue(t)' <=> QT!AnswerDue(t)
    BY DEF QT!AnswerDue
  <2> QED  BY <1>1, <1>4, <2>1, <2>2, <2>3 DEF TracedAt
<1> QED  BY <1>1, <1>2, <1>3, <1>4, TabStepKeeps

LEMMA ShownAndCancelKeep ==
    ASSUME TabsInv, NEW t \in QueryTabIds,
           QT!OpenSql(t) \/ QT!ClearResults(t) \/ QT!Cancel(t) \/ QT!CancelRefused(t)
    PROVE  TabsInv'
<1> DEFINE s == QT!State(t)
<1>1. s \in Entries
  BY StateTypes DEF TabsInv
<1>2. /\ QT!Default.shown = "none" /\ ~QT!Default.exec /\ ~QT!Default.canceling
  BY DEF QT!Default
<1>3. qtTab[t] \in Entries => s = qtTab[t]
  BY EntryTypes DEF QT!State
<1>4. qtTab[t] \notin Entries => s = QT!Default
  BY DEF QT!State, TabsInv, TabTypes
<1> HIDE DEF s
<1>5. CASE QT!OpenSql(t)
  <2> DEFINE r == [s EXCEPT !.shown = "none"]
  <2>1. /\ r \in Entries /\ r.mode = s.mode /\ r.tx = s.tx /\ r.state = s.state /\ r.exec = s.exec /\ r.shown = "none"
    BY <1>1 DEF Entries
  <2>2. qtTab' = [qtTab EXCEPT ![t] = r]
    BY <1>5 DEF QT!OpenSql, s
  <2> HIDE DEF r
  <2> QED  BY <1>5, <2>1, <2>2, QuietEntryKeeps DEF QT!OpenSql, QT!Click, s
<1>6. CASE QT!ClearResults(t)
  <2> DEFINE r == [s EXCEPT !.shown = "none", !.loading = FALSE]
  <2>1. /\ r \in Entries /\ r.mode = s.mode /\ r.tx = s.tx /\ r.state = s.state /\ r.exec = s.exec /\ r.shown = "none"
    BY <1>1 DEF Entries
  <2>2. s = qtTab[t]
    BY <1>2, <1>3, <1>4, <1>6 DEF QT!ClearResults, s
  <2>3. qtTab' = [qtTab EXCEPT ![t] = r]
    BY <1>6, <2>2 DEF QT!ClearResults, TabsInv, TabTypes
  <2> HIDE DEF r
  <2> QED  BY <1>6, <2>1, <2>3, QuietEntryKeeps DEF QT!ClearResults, QT!Click, s
<1>7. CASE QT!Cancel(t)
  <2> DEFINE r == [s EXCEPT !.canceling = TRUE]
  <2>1. /\ r \in Entries /\ r.mode = s.mode /\ r.tx = s.tx /\ r.state = s.state /\ r.exec = s.exec /\ r.shown = s.shown
    BY <1>1 DEF Entries
  <2>2. s = qtTab[t]
    BY <1>2, <1>3, <1>4, <1>7 DEF QT!Cancel, s
  <2>3. qtTab' = [qtTab EXCEPT ![t] = r]
    BY <1>7, <2>2 DEF QT!Cancel, TabsInv, TabTypes
  <2> HIDE DEF r
  <2> QED  BY <1>7, <2>1, <2>3, QuietEntryKeeps DEF QT!Cancel, QT!Click, s
<1>8. CASE QT!CancelRefused(t)
  <2> DEFINE r == [s EXCEPT !.canceling = FALSE]
  <2>1. /\ r \in Entries /\ r.mode = s.mode /\ r.tx = s.tx /\ r.state = s.state /\ r.exec = s.exec /\ r.shown = s.shown
    BY <1>1 DEF Entries
  <2>2. s = qtTab[t]
    BY <1>2, <1>3, <1>4, <1>8 DEF QT!CancelRefused, s
  <2>3. qtTab' = [qtTab EXCEPT ![t] = r]
    BY <1>8, <2>2 DEF QT!CancelRefused, TabsInv, TabTypes
  <2> HIDE DEF r
  <2> QED  BY <1>8, <2>1, <2>3, QuietEntryKeeps DEF QT!CancelRefused, QT!counters, s
<1> QED  BY <1>5, <1>6, <1>7, <1>8
LEMMA OpenTabKeeps ==
    ASSUME TabsInv, NEW t \in QueryTabIds, QT!OpenTab(t)
    PROVE  TabsInv'
<1>1. /\ t \notin qtOpen /\ QT!RunsOf(t) = {} /\ ~QT!AnswerDue(t)
      /\ qtOpen' = qtOpen \cup {t} /\ qtTab' = [qtTab EXCEPT ![t] = QT!Default]
      /\ UNCHANGED <<qtRuns, qtEnds, qtLoads, qtServer, qtExcused, qtNextRun, qtNextTx>>
  BY DEF QT!OpenTab, QT!Click
<1>2. /\ TabTypes'
      /\ QT!State(t)' = QT!Default
      /\ \A u \in QueryTabIds : u # t => QT!State(u)' = QT!State(u)
  BY <1>1, PatchedTab, EntryTypes DEF TabsInv, TabTypes
<1>3. QT!Default.tx = 0 /\ QT!Default.mode = "auto"
  BY DEF QT!Default
<1>4. Apart(t)
  BY <1>1, <1>2 DEF Apart
<1>5. Learns(t)
  BY <1>1, <1>2, <1>3, KnownIds, LearnsNothing
<1>6. ASSUME NEW x \in Nat \ {0}, Only(t, x), TracedAt(t, x) PROVE TracedAt(t, x)'
  <2>1. ~Home(t, x)' /\ ~Home(t, x)
    BY <1>1, <1>2, <1>3 DEF Home
  <2>2. ~Closing(x) /\ ~Runs(x)
    BY <1>1, <1>6 DEF Only, Closing, Runs, QT!AnswerDue, QT!RunsOf
  <2>3. x \notin qtServer /\ ~Live(x)'
    BY <1>1, <1>6, <2>1, <2>2 DEF TracedAt, Live, Runs
  <2>4. ~Runs(x)' /\ x \notin qtServer'
    BY <1>1, <2>2, <2>3 DEF Runs
  <2> QED  BY <2>1, <2>3, <2>4 DEF TracedAt, Runs
<1> QED  BY <1>2, <1>4, <1>5, <1>6, TabStepKeeps

LEMMA ChangeModeKeeps ==
    ASSUME TabsInv, NEW t \in QueryTabIds, NEW mode \in {"auto", "manual"}, QT!ChangeMode(t, mode)
    PROVE  TabsInv'
<1> DEFINE s == QT!State(t)
           fresh == mode = "manual" /\ s.tx = 0
           tx == IF mode = "auto" THEN 0 ELSE IF s.tx = 0 THEN qtNextTx ELSE s.tx
           state == IF mode = "manual" /\ s.state = "active" THEN "active" ELSE "idle"
           r == [s EXCEPT !.mode = mode, !.tx = tx, !.state = state]
<1>1. s \in Entries
  BY StateTypes DEF TabsInv
<1>2. /\ ~s.exec /\ s.state \in {"idle", "active"} /\ mode # s.mode /\ (mode = "auto" => s.state = "idle")
      /\ qtTab' = [qtTab EXCEPT ![t] = r]
      /\ qtNextTx' = IF fresh THEN qtNextTx + 1 ELSE qtNextTx
      /\ UNCHANGED <<qtOpen, qtRuns, qtEnds, qtLoads, qtServer, qtExcused, qtNextRun>>
  BY <1>1 DEF QT!ChangeMode, QT!Busy, Entries, TxStates
<1>3. tx \in Nat /\ state \in TxStates
  BY <1>1 DEF Entries, TxStates, TabsInv, TabTypes
<1> HIDE DEF tx, state
<1>4. r \in Entries /\ r.mode = mode /\ r.tx = tx
  BY <1>1, <1>3 DEF Entries
<1> HIDE DEF r
<1> HIDE DEF s, fresh
<1>5. /\ TabTypes'
      /\ QT!State(t)' = r
      /\ \A u \in QueryTabIds : u # t => QT!State(u)' = QT!State(u)
  <2>1. /\ qtTab' \in [QueryTabIds -> Entries \cup {QT!Absent}]
        /\ QT!State(t)' = r
        /\ \A u \in QueryTabIds : u # t => QT!State(u)' = QT!State(u)
    BY <1>2, <1>4, PatchedTab DEF TabsInv
  <2>2. qtNextTx' \in Nat \ {0}
    BY <1>2 DEF TabsInv, TabTypes
  <2> QED  BY <1>2, <2>1, <2>2 DEF TabsInv, TabTypes
<1>6. Apart(t)
  BY <1>2, <1>5 DEF Apart
<1>7. Learns(t)
  <2>1. ASSUME NEW x \in Nat \ {0}, Of(t, x)', ~Of(t, x) PROVE x = qtNextTx /\ qtNextTx' = qtNextTx + 1
    <3>1. r.tx = x
      BY <1>2, <1>5, <2>1 DEF Of
    <3>2. s.tx # x
      BY <2>1 DEF Of, s
    <3> QED  BY <1>2, <1>4, <2>1, <3>1, <3>2 DEF tx, fresh
  <2> QED  BY <1>2, <2>1 DEF Learns
<1>8. ASSUME NEW x \in Nat \ {0}, TracedAt(t, x) PROVE TracedAt(t, x)'
  <2>1. ~Runs(x) /\ ~Runs(x)'
    BY <1>2, <1>8 DEF TracedAt, Runs, s
  <2>2. (Live(x)' <=> x \in qtServer) /\ (Closing(x)' <=> Closing(x)) /\ (Live(x) <=> x \in qtServer)
    BY <1>2, <2>1 DEF Live, Closing, Runs
  <2>3. x \in qtServer => Closing(x)
    <3>1. Home(t, x) => s.mode = "manual"
      BY DEF Home, s
    <3> QED  BY <1>2, <1>8, <2>1, <3>1 DEF TracedAt, s
  <2> QED  BY <1>2, <1>8, <2>1, <2>2, <2>3 DEF TracedAt, Runs
<1> QED  BY <1>5, <1>6, <1>7, <1>8, TabStepKeeps
-----------------------------------------------------------------------------
(* Ends of a transaction and more rows. *)

(* The answers of a tab are taken off: its entry is as it was, or comes back, or keeps mode,         *)
(* transaction and run; it becomes idle only when its transaction is not open.                      *)
LEMMA AnswerKeeps ==
    ASSUME TabsInv, TabTypes', NEW t \in QueryTabIds, QT!AnswerDue(t),
           \A u \in QueryTabIds : u # t => QT!State(u)' = QT!State(u),
           \/ QT!State(t)' = QT!State(t)
           \/ QT!State(t).mode = "auto" /\ Of(t, QT!State(t)'.tx)
           \/ /\ QT!State(t)'.mode = QT!State(t).mode /\ QT!State(t)'.tx = QT!State(t).tx
              /\ QT!State(t)'.exec = QT!State(t).exec
              /\ QT!State(t)'.state = "idle" =>
                   \/ QT!State(t).state = "idle"
                   \/ \A x \in Nat \ {0} : x \notin qtExcused /\ Home(t, x) /\ Live(x) => Closing(x),
           qtEnds' \subseteq qtEnds, qtLoads' \subseteq qtLoads,
           \A e \in qtEnds : e \in qtEnds' \/ (e.tab = t /\ e.phase # "sent"),
           \A l \in qtLoads : l \in qtLoads' \/ l.tab = t,
           UNCHANGED <<qtOpen, qtRuns, qtServer, qtExcused, qtNextRun, qtNextTx>>
    PROVE  TabsInv'
<1>1. Apart(t)
  BY DEF Apart
<1>2. Learns(t)
  <2>1. Of(t, QT!State(t)'.tx)
    BY KnownIds
  <2> QED  BY <2>1, KnownIds, LearnsNothing
<1>3. ASSUME NEW x \in Nat \ {0}, x \notin qtExcused, Only(t, x), TracedAt(t, x) PROVE TracedAt(t, x)'
  <2>1. (Live(x)' <=> Live(x)) /\ (Closing(x)' <=> Closing(x)) /\ (Runs(x)' <=> Runs(x))
    BY DEF Live, Closing, Runs
  <2>2. \A n \in DOMAIN qtRuns : qtRuns[n].tx = x => ~qtRuns[n].begin
    BY <1>3 DEF TracedAt
  <2>3. /\ \A e \in qtEnds' : e.phase \in {"done", "gone"} /\ e.tx = x => ~Live(x)
        /\ \A l \in qtLoads' : l.answer = "idle" /\ l.tx = x => ~Live(x)
    BY <1>3 DEF TracedAt
  <2>4. Live(x) <=> x \in qtServer
    BY <2>2 DEF Live
  <2>5. CASE QT!State(t)' = QT!State(t) \/ QT!State(t).mode # "auto"
    <3>1. Home(t, x)' <=> Home(t, x)
      BY <2>5 DEF Home
    <3>2. Runs(x) => QT!State(t)'.exec
      BY <1>3, <2>5 DEF TracedAt, Runs, Home
    <3>3. x \in qtServer => Closing(x) \/ Runs(x) \/ (Home(t, x)' /\ QT!State(t)'.state # "idle")
      BY <1>3, <2>4, <2>5, <3>1 DEF TracedAt
    <3>4. \A n \in DOMAIN qtRuns' : qtRuns'[n].tx = x =>
            /\ Home(t, x)' /\ QT!State(t)'.exec /\ qtRuns'[n].was.mode = "manual"
            /\ \A m \in DOMAIN qtRuns' : qtRuns'[m].tab = t => m = n
            /\ ~qtRuns'[n].begin
            /\ qtRuns'[n].loop # "idle" \/ x \notin qtServer'
      BY <1>3, <2>2, <3>1, <3>2 DEF TracedAt, Runs
    <3>5. Live(x)' /\ ~Closing(x)' /\ Home(t, x)' =>
            /\ \A e \in qtEnds' : e.tab = t /\ e.action # "close" => e.tx = x
            /\ \A l \in qtLoads' : l.tab = t => l.tx \in {0, x}
      BY <1>3, <2>1, <3>1 DEF TracedAt
    <3> QED  BY <2>1, <2>3, <3>3, <3>4, <3>5 DEF TracedAt
  <2>6. CASE QT!State(t).mode = "auto"
    <3>1. ~Home(t, x)
      BY <2>6 DEF Home
    <3>2. ~Runs(x)
      BY <1>3, <3>1 DEF TracedAt, Runs
    <3>3. x \in qtServer => Closing(x)
      BY <1>3, <3>1, <3>2 DEF TracedAt
    <3> QED  BY <2>1, <2>3, <2>4, <3>2, <3>3 DEF TracedAt, Runs
  <2> QED  BY <2>5, <2>6
<1> QED  BY <1>1, <1>2, <1>3, TabStepKeeps

LEMMA EndAnsweredKeeps ==
    ASSUME TabsInv, NEW e \in qtEnds, QT!EndAnswered(e)
    PROVE  TabsInv'
<1> DEFINE t == e.tab
           b == QT!Entry(t, e.was)
           state == IF e.phase = "failed" THEN "active" ELSE "idle"
           r == [b EXCEPT !.state = state, !.token = IF e.phase = "done" THEN 0 ELSE @]
<1>1. /\ t \in QueryTabIds /\ e.was \in Entries /\ QT!AnswerDue(t) /\ Of(t, e.was.tx)
  BY DEF TabsInv, TabTypes, TabEnds, QT!AnswerDue, Of
<1>2. /\ e.phase # "sent" /\ qtEnds' = qtEnds \ {e}
      /\ UNCHANGED <<qtOpen, qtRuns, qtLoads, qtServer, qtExcused, qtNextRun, qtNextTx>>
      /\ qtTab' = IF e.action = "close" THEN qtTab ELSE [qtTab EXCEPT ![t] = r]
  BY DEF QT!EndAnswered, QT!counters
<1>3. CASE e.action = "close"
  <2>1. TabTypes' /\ qtTab' = qtTab
    BY <1>2, <1>3 DEF TabsInv, TabTypes
  <2>2. \A u \in QueryTabIds : QT!State(u)' = QT!State(u)
    BY <2>1 DEF QT!State
  <2> QED  BY <1>1, <1>2, <2>1, <2>2, AnswerKeeps
<1>4. CASE e.action # "close"
  <2>1. b \in Entries
    BY <1>1, StateTypes DEF TabsInv
  <2>2. /\ r \in Entries /\ r.mode = b.mode /\ r.tx = b.tx /\ r.exec = b.exec /\ r.state = state
    BY <2>1 DEF Entries, TxStates
  <2> HIDE DEF r
  <2>3. /\ TabTypes'
        /\ QT!State(t)' = r
        /\ \A u \in QueryTabIds : u # t => QT!State(u)' = QT!State(u)
    BY <1>1, <1>2, <1>4, <2>2, PatchedTab DEF TabsInv, TabTypes
  <2>4. CASE qtTab[t] = QT!Absent
    <3>1. QT!State(t).mode = "auto" /\ b = e.was
      BY <1>1, <2>4, StateTypes DEF TabsInv, QT!Default
    <3> QED  BY <1>1, <1>2, <2>2, <2>3, <3>1, AnswerKeeps
  <2>5. CASE qtTab[t] # QT!Absent
    <3>1. b = QT!State(t)
      BY <1>1, <2>5, StateTypes DEF TabsInv
    <3>2. ASSUME NEW x \in Nat \ {0}, x \notin qtExcused, Home(t, x), Live(x), ~Closing(x), state = "idle"
          PROVE  FALSE
      <4>1. e.tx = x
        BY <1>1, <1>4, <3>2 DEF TabsInv, IsTraced, AnswersAreOfIt
      <4>2. e.phase \in {"done", "gone"}
        BY <1>2, <3>2 DEF TabsInv, TabTypes, TabEnds
      <4> QED  BY <3>2, <4>1, <4>2 DEF TabsInv, IsTraced, GoneIsGone
    <3>3. QT!State(t)'.state = "idle" =>
            \A x \in Nat \ {0} : x \notin qtExcused /\ Home(t, x) /\ Live(x) => Closing(x)
      BY <2>2, <2>3, <3>2
    <3>4. e.tab = t
      OBVIOUS
    <3> HIDE DEF t, b, state
    <3> QED  BY <1>1, <1>2, <2>2, <2>3, <3>1, <3>3, <3>4, AnswerKeeps
  <2> QED  BY <2>4, <2>5
<1> QED  BY <1>3, <1>4
LEMMA MoreRowsKeeps ==
    ASSUME TabsInv, NEW l \in qtLoads, QT!MoreRows(l) \/ QT!LoadMoreFails(l)
    PROVE  TabsInv'
<1> DEFINE t == l.tab
<1>1. /\ t \in QueryTabIds /\ l.was \in Entries /\ QT!AnswerDue(t) /\ Of(t, l.was.tx)
  BY DEF TabsInv, TabTypes, TabLoads, QT!AnswerDue, Of
<1>2. /\ qtLoads' = qtLoads \ {l}
      /\ UNCHANGED <<qtOpen, qtRuns, qtEnds, qtServer, qtExcused, qtNextRun, qtNextTx>>
  BY DEF QT!MoreRows, QT!LoadMoreFails, QT!counters
<1>3. l.tab = t
  OBVIOUS
<1>4. CASE qtTab' = qtTab
  <2>1. TabTypes'
    BY <1>2, <1>4 DEF TabsInv, TabTypes
  <2>2. \A u \in QueryTabIds : QT!State(u)' = QT!State(u)
    BY <1>4 DEF QT!State
  <2> HIDE DEF t
  <2> QED  BY <1>1, <1>2, <1>3, <2>1, <2>2, AnswerKeeps
<1>5. CASE QT!MoreRows(l) /\ qtTab' # qtTab
  <2> DEFINE s == QT!State(t)
  <2>1. /\ qtTab[t] # QT!Absent /\ l.answer \in {"rows", "active", "idle"}
        /\ \E shown \in {"all", "more"} :
             qtTab' = [qtTab EXCEPT ![t] = [s EXCEPT !.loading = FALSE, !.shown = shown,
                            !.state = IF l.answer = "rows" THEN @ ELSE l.answer]]
    BY <1>5 DEF QT!MoreRows
  <2>2. s = qtTab[t] /\ s \in Entries
    BY <1>1, <2>1, StateTypes DEF TabsInv
  <2>3. PICK shown \in {"all", "more"} :
             qtTab' = [qtTab EXCEPT ![t] = [s EXCEPT !.loading = FALSE, !.shown = shown,
                            !.state = IF l.answer = "rows" THEN @ ELSE l.answer]]
    BY <2>1
  <2> DEFINE r == [s EXCEPT !.loading = FALSE, !.shown = shown,
                            !.state = IF l.answer = "rows" THEN @ ELSE l.answer]
  <2>4. qtTab' = [qtTab EXCEPT ![t] = r]
    BY <2>3
  <2> DEFINE state == IF l.answer = "rows" THEN s.state ELSE l.answer
  <2>5. /\ r \in Entries /\ r.mode = s.mode /\ r.tx = s.tx /\ r.exec = s.exec /\ r.state = state
    <3> HIDE DEF s
    <3> QED  BY <2>1, <2>2 DEF Entries, TxStates
  <2> HIDE DEF r
  <2>6. qtTab' = [qtTab EXCEPT ![t] = r]
    BY <2>4
  <2> HIDE DEF s, state
  <2>7. /\ TabTypes'
        /\ QT!State(t)' = r
        /\ \A u \in QueryTabIds : u # t => QT!State(u)' = QT!State(u)
    BY <1>1, <1>2, <2>5, <2>6, PatchedTab DEF TabsInv, TabTypes
  <2>8. QT!State(t)'.state = "idle" =>
            \/ QT!State(t).state = "idle"
            \/ \A x \in Nat \ {0} : x \notin qtExcused /\ Home(t, x) /\ Live(x) => Closing(x)
    <3>1. CASE l.answer = "rows"
      BY <2>5, <2>7, <3>1 DEF state, s
    <3>2. CASE l.answer = "active"
      BY <2>5, <2>7, <3>2 DEF state
    <3>3. CASE l.answer = "idle"
      <4>1. ASSUME NEW x \in Nat \ {0}, x \notin qtExcused, Home(t, x), Live(x), ~Closing(x) PROVE FALSE
        <5>1. l.tx \in {0, x}
          BY <1>1, <1>3, <4>1 DEF TabsInv, IsTraced, AnswersAreOfIt
        <5>2. l.tx = x
          BY <3>3, <5>1 DEF TabsInv, TabTypes
        <5> QED  BY <3>3, <4>1, <5>2 DEF TabsInv, IsTraced, GoneIsGone
      <4> QED  BY <4>1
    <3> QED  BY <2>1, <3>1, <3>2, <3>3
  <2> HIDE DEF t
  <2> QED  BY <1>1, <1>2, <1>3, <2>5, <2>7, <2>8, AnswerKeeps DEF s
<1>6. CASE QT!LoadMoreFails(l)
  <2> DEFINE b == QT!Entry(t, l.was)
             r == [b EXCEPT !.loading = FALSE]
  <2>1. b \in Entries
    BY <1>1, StateTypes DEF TabsInv
  <2>2. /\ r \in Entries /\ r.mode = b.mode /\ r.tx = b.tx /\ r.exec = b.exec /\ r.state = b.state
    BY <2>1 DEF Entries, TxStates
  <2>3. qtTab' = [qtTab EXCEPT ![t] = r]
    BY <1>6 DEF QT!LoadMoreFails
  <2> HIDE DEF r
  <2>4. /\ TabTypes'
        /\ QT!State(t)' = r
        /\ \A u \in QueryTabIds : u # t => QT!State(u)' = QT!State(u)
    BY <1>1, <1>2, <2>2, <2>3, PatchedTab DEF TabsInv, TabTypes
  <2>5. CASE qtTab[t] = QT!Absent
    <3>1. QT!State(t).mode = "auto" /\ b = l.was
      BY <1>1, <2>5, StateTypes DEF TabsInv, QT!Default
    <3> HIDE DEF t, b
    <3> QED  BY <1>1, <1>2, <1>3, <2>2, <2>4, <3>1, AnswerKeeps
  <2>6. CASE qtTab[t] # QT!Absent
    <3>1. b = QT!State(t)
      BY <1>1, <2>6, StateTypes DEF TabsInv
    <3> HIDE DEF t, b
    <3> QED  BY <1>1, <1>2, <1>3, <2>2, <2>4, <3>1, AnswerKeeps
  <2> QED  BY <2>5, <2>6
<1> QED  BY <1>4, <1>5, <1>6
LEMMA EndTransactionKeeps ==
    ASSUME TabsInv, NEW t \in QueryTabIds, NEW action \in {"commit", "rollback"}, QT!EndTransaction(t, action)
    PROVE  TabsInv'
<1> DEFINE s == QT!State(t)
           e == QT!EndRequest(t, action)
           state == IF action = "commit" THEN "committing" ELSE "rolling_back"
           r == [s EXCEPT !.state = state]
<1>1. s \in Entries
  BY StateTypes DEF TabsInv
<1>2. /\ t \in qtOpen /\ s.mode = "manual" /\ s.state = "active" /\ s.tx # 0 /\ ~s.exec
      /\ qtEnds' = qtEnds \cup {e}
      /\ qtTab' = [qtTab EXCEPT ![t].state = state]
      /\ UNCHANGED <<qtOpen, qtRuns, qtLoads, qtServer, qtExcused, qtNextRun, qtNextTx>>
  BY DEF QT!EndTransaction, QT!RollsBack, QT!Click
<1>3. /\ e.tab = t /\ e.tx = s.tx /\ e.action = action /\ e.phase = "sent" /\ e.was = s /\ e \in TabEnds
  BY <1>1, <1>2 DEF QT!EndRequest, TabEnds, Entries
<1>4. qtTab' = [qtTab EXCEPT ![t] = r]
  <2>1. s = qtTab[t]
    BY <1>2 DEF QT!State, QT!Default
  <2> QED  BY <1>2, <2>1 DEF TabsInv, TabTypes
<1>5. r \in Entries /\ r.mode = s.mode /\ r.tx = s.tx /\ r.exec = s.exec /\ r.shown = s.shown /\ r.state # "idle"
  BY <1>1 DEF Entries, TxStates
<1> HIDE DEF r, e, state
<1>6. /\ TabTypes'
      /\ QT!State(t)' = r
      /\ \A u \in QueryTabIds : u # t => QT!State(u)' = QT!State(u)
  BY <1>2, <1>3, <1>4, <1>5, PatchedTab DEF TabsInv, TabTypes
<1>7. Apart(t)
  BY <1>2, <1>3, <1>6 DEF Apart
<1>8. Learns(t)
  BY <1>2, <1>3, <1>5, <1>6, KnownIds, LearnsNothing
<1>9. ASSUME NEW x \in Nat \ {0}, TracedAt(t, x) PROVE TracedAt(t, x)'
  <2>1. Home(t, x)' <=> Home(t, x)
    BY <1>2, <1>5, <1>6 DEF Home
  <2>2. ~Runs(x) /\ ~Runs(x)'
    BY <1>2, <1>9 DEF TracedAt, Runs
  <2>3. (Live(x)' <=> Live(x)) /\ (Closing(x)' <=> Closing(x))
    BY <1>2, <1>3 DEF Live, Closing
  <2>4. Home(t, x) => e.tx = x
    BY <1>3 DEF Home
  <2> HIDE DEF s
  <2> QED  BY <1>2, <1>3, <1>5, <1>6, <1>9, <2>1, <2>2, <2>3, <2>4 DEF TracedAt, Runs
<1> QED  BY <1>6, <1>7, <1>8, <1>9, TabStepKeeps

LEMMA ServerEndsKeeps ==
    ASSUME TabsInv, NEW e \in qtEnds, QT!ServerEnds(e)
    PROVE  TabsInv'
<1> DEFINE t == e.tab
<1>1. /\ t \in QueryTabIds /\ e \in TabEnds /\ QT!AnswerDue(t) /\ Of(t, e.tx) /\ Of(t, e.was.tx)
  BY DEF TabsInv, TabTypes, TabEnds, QT!AnswerDue, Of
<1>2. PICK phase \in IF e.tx \in qtServer THEN {"done", "failed"} ELSE {"gone"} :
         /\ qtEnds' = (qtEnds \ {e}) \cup {[e EXCEPT !.phase = phase]}
         /\ qtServer' = IF phase = "done" THEN qtServer \ {e.tx} ELSE qtServer
         /\ qtExcused' = IF phase = "failed" /\ e.action = "close" THEN qtExcused \cup {e.tx} ELSE qtExcused
  BY DEF QT!ServerEnds
<1> DEFINE f == [e EXCEPT !.phase = phase]
<1>3. /\ e.phase = "sent" /\ UNCHANGED <<qtOpen, qtTab, qtRuns, qtLoads, qtNextRun, qtNextTx>>
  BY DEF QT!ServerEnds, QT!counters
<1>4. /\ f \in TabEnds /\ f.tab = t /\ f.tx = e.tx /\ f.action = e.action /\ f.was = e.was /\ f.phase = phase
  BY <1>1, <1>2 DEF TabEnds
<1>5. qtEnds' = (qtEnds \ {e}) \cup {f}
  BY <1>2
<1> HIDE DEF f
<1>6. TabTypes'
  BY <1>2, <1>3, <1>4, <1>5 DEF TabsInv, TabTypes
<1>7. \A u \in QueryTabIds : QT!State(u)' = QT!State(u)
  BY <1>3 DEF QT!State
<1>8. Apart(t)
  BY <1>1, <1>2, <1>3, <1>4, <1>5, <1>7 DEF Apart
<1>9. Learns(t)
  BY <1>1, <1>3, <1>4, <1>5, <1>7, KnownIds, LearnsNothing
<1>10. ASSUME NEW x \in Nat \ {0}, x \notin qtExcused', Only(t, x), TracedAt(t, x) PROVE TracedAt(t, x)'
  <2>1. (Home(t, x)' <=> Home(t, x)) /\ (Runs(x)' <=> Runs(x)) /\ QT!State(t)' = QT!State(t)
    BY <1>1, <1>3, <1>7 DEF Home, Runs
  <2>2. \A n \in DOMAIN qtRuns : qtRuns[n].tx = x => ~qtRuns[n].begin
    BY <1>1, <1>10 DEF TracedAt
  <2>3. (Live(x) <=> x \in qtServer) /\ (Live(x)' <=> x \in qtServer')
    BY <1>3, <2>2 DEF Live
  <2>4. x \in qtServer' => x \in qtServer
    BY <1>2
  <2>5. x \in qtServer' /\ Closing(x) => Closing(x)'
    <3>1. x \in qtServer' /\ x = e.tx => phase = "failed"
      BY <1>2
    <3>2. x \in qtServer' /\ x = e.tx => e.action # "close"
      BY <1>2, <1>10, <3>1
    <3> QED  BY <1>5, <3>2 DEF Closing
  <2>6. x = e.tx /\ phase \in {"done", "gone"} => x \notin qtServer'
    BY <1>2
  <2>7. /\ \A d \in qtEnds' : d.phase \in {"done", "gone"} /\ d.tx = x => ~Live(x)'
        /\ \A l \in qtLoads' : l.answer = "idle" /\ l.tx = x => ~Live(x)'
    BY <1>3, <1>4, <1>5, <1>10, <2>3, <2>4, <2>6 DEF TracedAt
  <2>8. Live(x)' /\ ~Closing(x)' /\ Home(t, x)' =>
            /\ \A d \in qtEnds' : d.tab = t /\ d.action # "close" => d.tx = x
            /\ \A l \in qtLoads' : l.tab = t => l.tx \in {0, x}
    BY <1>3, <1>4, <1>5, <1>10, <2>1, <2>3, <2>4, <2>5 DEF TracedAt
  <2>9. \A n \in DOMAIN qtRuns' : qtRuns'[n].tx = x =>
            /\ Home(t, x)' /\ QT!State(t)'.exec /\ qtRuns'[n].was.mode = "manual"
            /\ \A m \in DOMAIN qtRuns' : qtRuns'[m].tab = t => m = n
            /\ ~qtRuns'[n].begin
            /\ qtRuns'[n].loop # "idle" \/ x \notin qtServer'
    BY <1>3, <1>10, <2>1, <2>2, <2>4 DEF TracedAt
  <2>10. x \in qtServer' => Closing(x)' \/ Runs(x)' \/ (Home(t, x)' /\ QT!State(t)'.state # "idle")
    BY <1>10, <2>1, <2>4, <2>5 DEF TracedAt
  <2> QED  BY <2>7, <2>8, <2>9, <2>10 DEF TracedAt
<1>11. \A x : x \notin qtExcused' => x \notin qtExcused
  BY <1>2
<1> HIDE DEF t
<1> QED  BY <1>1, <1>6, <1>8, <1>9, <1>10, <1>11, TabStepKeeps
LEMMA LoadMoreKeeps ==
    ASSUME TabsInv, NEW t \in QueryTabIds, QT!LoadMore(t)
    PROVE  TabsInv'
<1> DEFINE s == QT!State(t)
           l == [tab |-> t, tx |-> IF QT!RollsBack(t) THEN s.tx ELSE 0, answer |-> "none", was |-> s]
           r == [s EXCEPT !.loading = TRUE]
<1>1. s \in Entries
  BY StateTypes DEF TabsInv
<1>2. /\ s.shown = "more" /\ (s.mode = "auto" \/ s.state = "active")
      /\ qtLoads' = qtLoads \cup {l}
      /\ qtTab' = [qtTab EXCEPT ![t].loading = TRUE]
      /\ UNCHANGED <<qtOpen, qtRuns, qtEnds, qtServer, qtExcused, qtNextRun, qtNextTx>>
  BY DEF QT!LoadMore, QT!Click
<1>3. /\ l.tab = t /\ l.tx \in {0, s.tx} /\ l.answer = "none" /\ l.was = s
      /\ s.mode = "manual" /\ s.tx # 0 => l.tx = s.tx
  BY <1>2 DEF QT!RollsBack
<1>4. l \in TabLoads
  BY <1>1 DEF TabLoads, Entries
<1>5. qtTab' = [qtTab EXCEPT ![t] = r]
  <2>1. s = qtTab[t]
    BY <1>2 DEF QT!State, QT!Default
  <2> QED  BY <1>2, <2>1 DEF TabsInv, TabTypes
<1>6. /\ r \in Entries /\ r.mode = s.mode /\ r.tx = s.tx /\ r.exec = s.exec /\ r.shown = s.shown /\ r.state = s.state
  BY <1>1 DEF Entries, TxStates
<1> HIDE DEF r, l
<1>7. /\ TabTypes'
      /\ QT!State(t)' = r
      /\ \A u \in QueryTabIds : u # t => QT!State(u)' = QT!State(u)
  BY <1>2, <1>3, <1>4, <1>5, <1>6, PatchedTab DEF TabsInv, TabTypes
<1>8. Apart(t)
  BY <1>2, <1>3, <1>7 DEF Apart
<1>9. Learns(t)
  BY <1>2, <1>3, <1>6, <1>7, KnownIds, LearnsNothing
<1>10. ASSUME NEW x \in Nat \ {0}, TracedAt(t, x) PROVE TracedAt(t, x)'
  <2>1. Home(t, x)' <=> Home(t, x)
    BY <1>2, <1>6, <1>7 DEF Home
  <2>2. (Live(x)' <=> Live(x)) /\ (Closing(x)' <=> Closing(x)) /\ (Runs(x)' <=> Runs(x))
    BY <1>2 DEF Live, Closing, Runs
  <2>3. \A n \in DOMAIN qtRuns : qtRuns[n].tx = x => ~qtRuns[n].begin
    BY <1>2, <1>10 DEF TracedAt
  <2>4. Home(t, x) => l.tx = x
    BY <1>3 DEF Home
  <2> HIDE DEF s
  <2> QED  BY <1>2, <1>3, <1>6, <1>7, <1>10, <2>1, <2>2, <2>3, <2>4 DEF TracedAt, s
<1> QED  BY <1>7, <1>8, <1>9, <1>10, TabStepKeeps

LEMMA ServerLoadsKeeps ==
    ASSUME TabsInv, NEW l \in qtLoads, QT!ServerLoads(l)
    PROVE  TabsInv'
<1> DEFINE t == l.tab
<1>1. /\ t \in QueryTabIds /\ l \in TabLoads /\ QT!AnswerDue(t) /\ Of(t, l.tx) /\ Of(t, l.was.tx)
  BY DEF TabsInv, TabTypes, TabLoads, QT!AnswerDue, Of
<1>2. PICK answer \in {"failed"} \cup
             (IF l.tx = 0 THEN {"rows"} ELSE IF l.tx \in qtServer THEN {"active"} ELSE {"idle"}) :
         qtLoads' = (qtLoads \ {l}) \cup {[l EXCEPT !.answer = answer]}
  BY DEF QT!ServerLoads
<1> DEFINE f == [l EXCEPT !.answer = answer]
<1>3. UNCHANGED <<qtOpen, qtTab, qtRuns, qtEnds, qtServer, qtExcused, qtNextRun, qtNextTx>>
  BY DEF QT!ServerLoads, QT!counters
<1>4. /\ f \in TabLoads /\ f.tab = t /\ f.tx = l.tx /\ f.was = l.was /\ f.answer = answer
  BY <1>1, <1>2 DEF TabLoads
<1>5. /\ qtLoads' = (qtLoads \ {l}) \cup {f}
      /\ answer \in {"active", "idle"} => f.tx # 0
      /\ answer = "idle" => f.tx \notin qtServer
  BY <1>2, <1>4
<1> HIDE DEF f
<1>6. TabTypes'
  BY <1>3, <1>4, <1>5 DEF TabsInv, TabTypes
<1>7. \A u \in QueryTabIds : QT!State(u)' = QT!State(u)
  BY <1>3 DEF QT!State
<1>8. Apart(t)
  BY <1>1, <1>3, <1>4, <1>5, <1>7 DEF Apart
<1>9. Learns(t)
  BY <1>1, <1>3, <1>4, <1>5, <1>7, KnownIds, LearnsNothing
<1>10. ASSUME NEW x \in Nat \ {0}, TracedAt(t, x) PROVE TracedAt(t, x)'
  <2>1. (Home(t, x)' <=> Home(t, x)) /\ (Runs(x)' <=> Runs(x)) /\ QT!State(t)' = QT!State(t)
    BY <1>1, <1>3, <1>7 DEF Home, Runs
  <2>2. \A n \in DOMAIN qtRuns : qtRuns[n].tx = x => ~qtRuns[n].begin
    BY <1>1, <1>10 DEF TracedAt
  <2>3. (Live(x) <=> x \in qtServer) /\ (Live(x)' <=> x \in qtServer) /\ (Closing(x)' <=> Closing(x))
    BY <1>3, <2>2 DEF Live, Closing
  <2>4. \A k \in qtLoads' : k.answer = "idle" /\ k.tx = x => ~Live(x)'
    BY <1>4, <1>5, <1>10, <2>3 DEF TracedAt
  <2>5. Live(x)' /\ ~Closing(x)' /\ Home(t, x)' => \A k \in qtLoads' : k.tab = t => k.tx \in {0, x}
    BY <1>4, <1>5, <1>10, <2>1, <2>3 DEF TracedAt
  <2> QED  BY <1>3, <1>10, <2>1, <2>2, <2>3, <2>4, <2>5 DEF TracedAt
<1> HIDE DEF t
<1> QED  BY <1>1, <1>3, <1>6, <1>8, <1>9, <1>10, TabStepKeeps

(* A transaction that the server forgets is not open. *)
LEMMA ServerForgetsKeeps ==
    ASSUME TabsInv, NEW y \in qtServer, QT!ServerForgets(y)
    PROVE  TabsInv'
<1>1. /\ qtServer' \subseteq qtServer
      /\ UNCHANGED <<qtOpen, qtTab, qtRuns, qtEnds, qtLoads, qtExcused, qtNextRun, qtNextTx>>
  BY DEF QT!ServerForgets, QT!counters
<1>2. TabTypes'
  BY <1>1 DEF TabsInv, TabTypes
<1>3. /\ \A u \in QueryTabIds : QT!State(u)' = QT!State(u)
      /\ \A u \in QueryTabIds : QT!AnswerDue(u)' <=> QT!AnswerDue(u)
  BY <1>1 DEF QT!State, QT!AnswerDue
<1>4. \A u \in QueryTabIds : \A x : Of(u, x)' <=> Of(u, x)
  BY <1>1, <1>3 DEF Of
<1>5. OneTab'
  BY <1>1, <1>4 DEF TabsInv, OneTab
<1>6. ASSUME NEW x \in Nat \ {0}, x \notin qtExcused PROVE IsTraced(x)'
  <2>1. IsTraced(x)
    BY <1>6 DEF TabsInv
  <2>2. (\A u \in QueryTabIds : Home(u, x)' <=> Home(u, x)) /\ (Runs(x)' <=> Runs(x)) /\ (Closing(x)' <=> Closing(x))
    BY <1>1, <1>3 DEF Home, Runs, Closing
  <2>3. Live(x)' => Live(x)
    BY <1>1 DEF Live
  <2>4. OpenIsHome(x)'
    BY <1>1, <1>3, <2>1, <2>2 DEF IsTraced, OpenIsHome
  <2>5. RunIsHome(x)'
    <3>1. \A n \in DOMAIN qtRuns : qtRuns[n].tab \in QueryTabIds
      BY DEF TabsInv, TabTypes, TabRuns
    <3> QED  BY <1>1, <1>3, <2>1, <2>2, <3>1 DEF IsTraced, RunIsHome
  <2>6. GoneIsGone(x)'
    BY <1>1, <2>1, <2>3 DEF IsTraced, GoneIsGone
  <2>7. AnswersAreOfIt(x)'
    BY <1>1, <2>1, <2>2, <2>3 DEF IsTraced, AnswersAreOfIt
  <2> QED  BY <2>4, <2>5, <2>6, <2>7 DEF IsTraced
<1> QED  BY <1>1, <1>2, <1>5, <1>6 DEF TabsInv
-----------------------------------------------------------------------------
(* Tabs that close. *)

LEMMA CloseTabsKeeps ==
    ASSUME TabsInv, NEW S \in SUBSET qtOpen, NEW Gone \in SUBSET QueryTabIds, QT!CloseTabs(S, Gone),
           1 \in QueryTabIds, Gone \cap qtOpen \subseteq S,
           \A u \in qtOpen : u \in Gone \/ u \in qtOpen'
    PROVE  TabsInv'
<1> DEFINE new == {QT!EndRequest(t, "close") : t \in {u \in S : QT!RollsBack(u)}}
<1>1. /\ qtOpen' \subseteq QueryTabIds
      /\ qtTab' = [t \in QueryTabIds |-> IF t \in Gone THEN QT!Absent ELSE qtTab[t]]
      /\ qtEnds' = qtEnds \cup new
      /\ qtExcused' = qtExcused \cup UNION {QT!UsedBy(t) : t \in {u \in Gone : QT!RunsOf(u) # {} \/ QT!Busy(u)}}
      /\ UNCHANGED <<qtRuns, qtLoads, qtServer, qtNextRun, qtNextTx>>
  BY DEF QT!CloseTabs, QT!Click, TabsInv, TabTypes
<1>2. \A t \in QueryTabIds : QT!State(t)' = IF t \in Gone THEN QT!Default ELSE QT!State(t)
  BY <1>1 DEF QT!State
<1>3. \A e \in new : /\ e.tab \in S /\ e.tab \in QueryTabIds /\ e.tx = QT!State(e.tab).tx /\ e.was = QT!State(e.tab)
                     /\ QT!RollsBack(e.tab) /\ e.action = "close" /\ e.phase = "sent"
  BY DEF QT!EndRequest, TabsInv, TabTypes
<1>4. new \subseteq TabEnds
  <2> SUFFICES ASSUME NEW t \in S, QT!RollsBack(t) PROVE QT!EndRequest(t, "close") \in TabEnds
    OBVIOUS
  <2>1. t \in QueryTabIds /\ QT!State(t) \in Entries
    BY StateTypes DEF TabsInv, TabTypes
  <2>2. QT!State(t).tx \in Nat \ {0}
    BY <2>1 DEF QT!RollsBack, Entries
  <2> QED  BY <2>1, <2>2 DEF QT!EndRequest, TabEnds
<1>5. \A t \in S : QT!RollsBack(t) => \E e \in new : e.tx = QT!State(t).tx
  <2> TAKE t \in S
  <2> HAVE QT!RollsBack(t)
  <2>1. QT!EndRequest(t, "close") \in new
    OBVIOUS
  <2> QED  BY <2>1 DEF QT!EndRequest
<1> HIDE DEF new
<1>6. TabTypes'
  <2>1. qtTab' \in [QueryTabIds -> Entries \cup {QT!Absent}]
    BY <1>1 DEF TabsInv, TabTypes
  <2> QED  BY <1>1, <1>4, <2>1 DEF TabsInv, TabTypes
<1>7. ASSUME NEW t \in QueryTabIds, NEW x \in Nat \ {0}, Of(t, x)' PROVE Of(t, x)
  <2>1. QT!State(t)'.tx = x => QT!State(t).tx = x
    BY <1>2 DEF QT!Default
  <2>2. \A e \in qtEnds' : e.tab = t /\ (e.tx = x \/ e.was.tx = x) => e \in qtEnds \/ QT!State(t).tx = x
    BY <1>1, <1>3
  <2> QED  BY <1>1, <1>7, <2>1, <2>2 DEF Of
<1>8. OneTab'
  <2>1. ASSUME NEW t \in QueryTabIds, NEW u \in QueryTabIds, NEW x \in Nat \ {0}, Of(t, x)', Of(u, x)' PROVE t = u
    BY <1>7, <2>1 DEF TabsInv, OneTab
  <2>2. ASSUME NEW t \in QueryTabIds, NEW x \in Nat, Of(t, x)' PROVE x < qtNextTx'
    <3>1. CASE x = 0
      BY <1>1, <3>1 DEF TabsInv, TabTypes
    <3>2. CASE x # 0
      BY <1>1, <1>7, <2>2, <3>2 DEF TabsInv, OneTab
    <3> QED  BY <3>1, <3>2
  <2>3. \A x \in qtServer' : x < qtNextTx'
    BY <1>1 DEF TabsInv, OneTab
  <2> QED  BY <2>1, <2>2, <2>3 DEF OneTab
<1>9. ASSUME NEW x \in Nat \ {0}, x \notin qtExcused' PROVE IsTraced(x)'
  <2>1. IsTraced(x)
    BY <1>1, <1>9 DEF TabsInv
  <2>2. ASSUME NEW t \in QueryTabIds, Home(t, x), t \notin Gone
        PROVE  Home(t, x)' /\ QT!State(t)' = QT!State(t)
    BY <1>2, <2>2 DEF Home
  <2>3. ASSUME NEW t \in QueryTabIds, Home(t, x)' PROVE t \notin Gone /\ QT!State(t)' = QT!State(t) /\ Of(t, x)
    BY <1>2, <2>3 DEF Home, QT!Default, Of
  <2>4. ASSUME NEW t \in Gone, QT!RunsOf(t) # {} \/ QT!Busy(t) PROVE x \notin QT!UsedBy(t)
    BY <1>1, <1>9, <2>4
  <2>5. ASSUME NEW n \in DOMAIN qtRuns, qtRuns[n].tx = x
        PROVE  qtRuns[n].tab \in QueryTabIds /\ qtRuns[n].tab \notin Gone
    <3>1. n \in QT!RunsOf(qtRuns[n].tab) /\ x \in QT!UsedBy(qtRuns[n].tab)
      BY <2>5 DEF QT!RunsOf, QT!UsedBy
    <3> QED  BY <2>4, <3>1 DEF TabsInv, TabTypes, TabRuns
  <2>6. (Live(x)' <=> Live(x)) /\ (Runs(x)' <=> Runs(x)) /\ (Closing(x) => Closing(x)')
    BY <1>1 DEF Live, Runs, Closing
  <2>7. OpenIsHome(x)'
    <3> SUFFICES ASSUME x \in qtServer, ~Closing(x), ~Runs(x), NEW t \in QueryTabIds, Home(t, x),
                        QT!State(t).state # "idle"
                 PROVE  Closing(x)' \/ (Home(t, x)' /\ QT!State(t)'.state # "idle")
      BY <1>1, <2>1, <2>6 DEF IsTraced, OpenIsHome
    <3>1. CASE t \notin Gone
      BY <2>2, <3>1
    <3>2. CASE t \in Gone
      <4>1. t \in S /\ x \in QT!UsedBy(t)
        BY <3>2 DEF Home, QT!UsedBy
      <4>2. QT!RollsBack(t)
        <5>1. QT!State(t) \in Entries
          BY StateTypes DEF TabsInv
        <5>2. QT!State(t).state = "active"
          BY <2>4, <3>2, <4>1, <5>1 DEF QT!Busy, Entries, TxStates
        <5> QED  BY <5>2 DEF QT!RollsBack, Home
      <4>3. PICK e \in new : e.tx = QT!State(t).tx
        BY <1>5, <4>1, <4>2
      <4> QED  BY <1>1, <1>3, <4>3 DEF Closing, Home
    <3> QED  BY <3>1, <3>2
  <2>8. RunIsHome(x)'
    <3> SUFFICES ASSUME NEW n \in DOMAIN qtRuns, qtRuns[n].tx = x, NEW t, t = qtRuns[n].tab
                 PROVE  /\ Home(t, x)' /\ QT!State(t)'.exec /\ qtRuns[n].was.mode = "manual"
                        /\ \A m \in DOMAIN qtRuns : qtRuns[m].tab = t => m = n
                        /\ qtRuns[n].begin => /\ x \notin qtServer /\ ~QT!AnswerDue(t)'
                                              /\ QT!State(t)'.state = "idle" /\ QT!State(t)'.shown = "none"
                        /\ qtRuns[n].begin \/ qtRuns[n].loop # "idle" \/ x \notin qtServer
      BY <1>1 DEF RunIsHome
    <3>1. t \in QueryTabIds /\ t \notin Gone
      BY <2>5
    <3>2. /\ Home(t, x) /\ QT!State(t).exec /\ qtRuns[n].was.mode = "manual"
          /\ \A m \in DOMAIN qtRuns : qtRuns[m].tab = t => m = n
          /\ qtRuns[n].begin => /\ x \notin qtServer /\ ~QT!AnswerDue(t)
                                /\ QT!State(t).state = "idle" /\ QT!State(t).shown = "none"
          /\ qtRuns[n].begin \/ qtRuns[n].loop # "idle" \/ x \notin qtServer
      BY <2>1 DEF IsTraced, RunIsHome
    <3>3. Home(t, x)' /\ QT!State(t)' = QT!State(t)
      BY <2>2, <3>1, <3>2
    <3>4. qtRuns[n].begin => ~QT!AnswerDue(t)'
      BY <1>1, <1>3, <3>2 DEF QT!AnswerDue, QT!RollsBack
    <3> QED  BY <3>2, <3>3, <3>4
  <2>9. GoneIsGone(x)'
    BY <1>1, <1>3, <2>1, <2>6 DEF IsTraced, GoneIsGone
  <2>10. AnswersAreOfIt(x)'
    <3> SUFFICES ASSUME NEW t \in QueryTabIds, Live(x), ~Closing(x), Home(t, x)'
                 PROVE  /\ \A e \in qtEnds' : e.tab = t /\ e.action # "close" => e.tx = x
                        /\ \A l \in qtLoads : l.tab = t => l.tx \in {0, x}
      BY <1>1, <2>6 DEF AnswersAreOfIt
    <3>1. Of(t, x)
      BY <2>3
    <3>2. \E u \in QueryTabIds : Home(u, x)
      BY <2>1, <2>5 DEF IsTraced, OpenIsHome, RunIsHome, Live, Runs
    <3>3. Home(t, x)
      BY <3>1, <3>2 DEF TabsInv, OneTab, Home, Of
    <3> QED  BY <1>1, <1>3, <2>1, <3>3 DEF IsTraced, AnswersAreOfIt
  <2> QED  BY <2>7, <2>8, <2>9, <2>10 DEF IsTraced
<1> QED  BY <1>6, <1>8, <1>9 DEF TabsInv

LEMMA ClosesKeep ==
    ASSUME TabsInv, (\E t \in QueryTabIds : QT!TabClose(t) \/ QT!CloseOthers(t)) \/ QT!CloseAll
    PROVE  TabsInv'
<1>1. qtOpen \subseteq QueryTabIds /\ 1 \in QueryTabIds
  BY TabAssumption DEF TabsInv, TabTypes
<1>2. ASSUME NEW t \in QueryTabIds, QT!TabClose(t) PROVE TabsInv'
  <2>1. t \in qtOpen /\ QT!CloseTabs({t}, {t})
    BY <1>2 DEF QT!TabClose
  <2>2. qtOpen \ {t} \subseteq qtOpen'
    BY <2>1 DEF QT!CloseTabs
  <2> QED  BY <1>1, <2>1, <2>2, CloseTabsKeeps
<1>3. ASSUME NEW t \in QueryTabIds, QT!CloseOthers(t) PROVE TabsInv'
  <2>1. t \in qtOpen /\ QT!CloseTabs(qtOpen \ {t}, QueryTabIds \ {t})
    BY <1>3 DEF QT!CloseOthers
  <2>2. t \in qtOpen'
    BY <2>1 DEF QT!CloseTabs
  <2> QED  BY <1>1, <2>1, <2>2, CloseTabsKeeps
<1>4. CASE QT!CloseAll
  <2>1. QT!CloseTabs(qtOpen, QueryTabIds \ {1})
    BY <1>4 DEF QT!CloseAll
  <2>2. 1 \in qtOpen'
    BY <2>1 DEF QT!CloseTabs
  <2>3. \A u \in qtOpen : u \in QueryTabIds \ {1} \/ u \in qtOpen'
    BY <1>1, <2>2
  <2> QED  BY <1>1, <2>1, <2>3, CloseTabsKeeps
<1> QED  BY <1>2, <1>3, <1>4
-----------------------------------------------------------------------------
(* Runs that go on and runs that end. *)

(* A run that stays: the transaction that it leaves open is one its loop knows of. *)
LEMMA RunGoesOnKeeps ==
    ASSUME TabsInv, NEW n \in DOMAIN qtRuns, NEW r \in TabRuns, qtRuns' = [qtRuns EXCEPT ![n] = r],
           r.tab = qtRuns[n].tab, r.tx = qtRuns[n].tx, r.was = qtRuns[n].was, ~r.begin,
           \A y \in Nat : y # r.tx => (y \in qtServer' <=> y \in qtServer),
           r.tx \in qtServer' => r.tx \in qtServer \/ qtRuns[n].begin,
           r.tx \in qtServer' => r.loop # "idle",
           qtServer' \subseteq qtServer \cup {r.tx},
           UNCHANGED <<qtOpen, qtTab, qtEnds, qtLoads, qtExcused, qtNextRun, qtNextTx>>
    PROVE  TabsInv'
<1> DEFINE t == r.tab
<1>1. t \in QueryTabIds /\ qtRuns[n].tab = t
  BY DEF TabRuns
<1>2. /\ qtRuns' \in [DOMAIN qtRuns -> TabRuns] /\ DOMAIN qtRuns' = DOMAIN qtRuns /\ qtRuns'[n] = r
      /\ \A m \in DOMAIN qtRuns : m # n => qtRuns'[m] = qtRuns[m]
  BY DEF TabsInv, TabTypes
<1>3. \A m \in DOMAIN qtRuns : qtRuns'[m].tab = qtRuns[m].tab /\ qtRuns'[m].tx = qtRuns[m].tx /\ qtRuns'[m].was = qtRuns[m].was
  BY <1>2
<1>4. TabTypes'
  <2>0. qtRuns[n].tx \in Nat /\ (qtRuns[n].begin => qtRuns[n].tx # 0)
    BY DEF TabsInv, TabTypes, TabRuns
  <2>1. qtServer' \subseteq Nat \ {0}
    BY <2>0 DEF TabsInv, TabTypes
  <2>2. \A m \in DOMAIN qtRuns' : qtRuns'[m].begin => qtRuns'[m].tx # 0
    BY <1>2 DEF TabsInv, TabTypes
  <2> QED  BY <1>2, <2>1, <2>2 DEF TabsInv, TabTypes
<1>5. \A u \in QueryTabIds : QT!State(u)' = QT!State(u) /\ (QT!AnswerDue(u)' <=> QT!AnswerDue(u))
  BY DEF QT!State, QT!AnswerDue
<1>6. Of(t, r.tx)
  BY <1>1 DEF Of
<1>7. Apart(t)
  BY <1>1, <1>2, <1>5, <1>6 DEF Apart
<1>8. Learns(t)
  BY <1>1, <1>2, <1>3, <1>5, KnownIds, LearnsNothing
<1>9. ASSUME NEW x \in Nat \ {0}, TracedAt(t, x) PROVE TracedAt(t, x)'
  <2>1. (Home(t, x)' <=> Home(t, x)) /\ (Closing(x)' <=> Closing(x)) /\ (Runs(x)' <=> Runs(x))
    BY <1>1, <1>2, <1>3, <1>5 DEF Home, Closing, Runs
  <2>2. x \in qtServer' => x \in qtServer \/ (r.tx = x /\ qtRuns[n].begin)
    OBVIOUS
  <2>3. Live(x)' => Live(x)
    BY <1>2, <1>3, <2>2 DEF Live
  <2>4. x \in qtServer' => Closing(x)' \/ Runs(x)' \/ (Home(t, x)' /\ QT!State(t)'.state # "idle")
    <3>1. CASE r.tx = x
      BY <1>2, <3>1 DEF Runs
    <3>2. CASE r.tx # x
      BY <1>1, <1>5, <1>9, <2>1, <2>2, <3>2 DEF TracedAt
    <3> QED  BY <3>1, <3>2
  <2>5. ASSUME NEW m \in DOMAIN qtRuns', qtRuns'[m].tx = x
        PROVE  /\ Home(t, x)' /\ QT!State(t)'.exec /\ qtRuns'[m].was.mode = "manual"
               /\ \A k \in DOMAIN qtRuns' : qtRuns'[k].tab = t => k = m
               /\ qtRuns'[m].begin => /\ x \notin qtServer' /\ ~QT!AnswerDue(t)'
                                      /\ QT!State(t)'.state = "idle" /\ QT!State(t)'.shown = "none"
               /\ qtRuns'[m].begin \/ qtRuns'[m].loop # "idle" \/ x \notin qtServer'
    <3>1. m \in DOMAIN qtRuns /\ qtRuns[m].tx = x
      BY <1>2, <1>3, <2>5
    <3>2. /\ Home(t, x) /\ QT!State(t).exec /\ qtRuns[m].was.mode = "manual"
          /\ \A k \in DOMAIN qtRuns : qtRuns[k].tab = t => k = m
          /\ qtRuns[m].begin => /\ x \notin qtServer /\ ~QT!AnswerDue(t)
                                /\ QT!State(t).state = "idle" /\ QT!State(t).shown = "none"
          /\ qtRuns[m].begin \/ qtRuns[m].loop # "idle" \/ x \notin qtServer
      BY <1>9, <3>1 DEF TracedAt
    <3>3. m = n
      BY <1>1, <3>2
    <3> QED  BY <1>1, <1>2, <1>3, <1>5, <2>1, <2>5, <3>1, <3>2, <3>3
  <2>6. /\ \A e \in qtEnds' : e.phase \in {"done", "gone"} /\ e.tx = x => ~Live(x)'
        /\ \A l \in qtLoads' : l.answer = "idle" /\ l.tx = x => ~Live(x)'
    BY <1>9, <2>3 DEF TracedAt
  <2>7. Live(x)' /\ ~Closing(x)' /\ Home(t, x)' =>
         /\ \A e \in qtEnds' : e.tab = t /\ e.action # "close" => e.tx = x
         /\ \A l \in qtLoads' : l.tab = t => l.tx \in {0, x}
    BY <1>9, <2>1, <2>3 DEF TracedAt
  <2> HIDE DEF t
  <2> QED  BY <2>4, <2>5, <2>6, <2>7 DEF TracedAt
<1> QED  BY <1>1, <1>4, <1>7, <1>8, <1>9, TabStepKeeps

(* A run that ends: it writes its transaction into the entry, or leaves it; the transaction that stays *)
(* open is shown as such, or excused.                                                                *)
LEMMA RunEndsKeeps ==
    ASSUME TabsInv, NEW n \in DOMAIN qtRuns, NEW r, r = qtRuns[n], NEW o, o = QT!Entry(r.tab, r.was),
           NEW s \in Entries, qtTab' = [qtTab EXCEPT ![r.tab] = s], s.mode = o.mode,
           s.tx = r.tx \/ (s.tx = o.tx /\ s.state = o.state),
           qtRuns' = [m \in DOMAIN qtRuns \ {n} |-> qtRuns[m]],
           qtExcused \subseteq qtExcused', o.tx = s.tx \/ o.tx \in qtExcused',
           \A y \in Nat : y # r.tx => (y \in qtServer' <=> y \in qtServer),
           r.tx \in qtServer' => r.tx \in qtServer \/ r.begin,
           r.tx \in qtServer' => r.tx \in qtExcused' \/ s.state # "idle",
           qtServer' \subseteq qtServer \cup {r.tx},
           UNCHANGED <<qtOpen, qtEnds, qtLoads, qtNextRun, qtNextTx>>
    PROVE  TabsInv'
<1> DEFINE t == r.tab
<1>1. r \in TabRuns /\ t \in QueryTabIds /\ r.was \in Entries
  BY DEF TabsInv, TabTypes, TabRuns
<1>2. /\ DOMAIN qtRuns' = DOMAIN qtRuns \ {n}
      /\ \A m \in DOMAIN qtRuns' : qtRuns'[m] = qtRuns[m]
  OBVIOUS
<1>3. /\ qtTab' \in [QueryTabIds -> Entries \cup {QT!Absent}]
      /\ QT!State(t)' = s
      /\ \A u \in QueryTabIds : u # t => QT!State(u)' = QT!State(u)
  BY <1>1, PatchedTab DEF TabsInv
<1>4. TabTypes'
  <2>0. qtRuns[n].tx \in Nat /\ (qtRuns[n].begin => qtRuns[n].tx # 0)
    BY DEF TabsInv, TabTypes, TabRuns
  <2>1. qtServer' \subseteq Nat \ {0}
    BY <2>0 DEF TabsInv, TabTypes
  <2> QED  BY <1>2, <1>3, <2>1 DEF TabsInv, TabTypes
<1>5. /\ QT!State(t) \in Entries
      /\ qtTab[t] # QT!Absent => QT!State(t) = qtTab[t] /\ o = QT!State(t)
      /\ qtTab[t] = QT!Absent => QT!State(t) = QT!Default /\ o = r.was
  BY <1>1, StateTypes DEF TabsInv
<1>6. QT!State(t).mode = "manual" => o = QT!State(t)
  BY <1>5 DEF QT!Default
<1>7. Of(t, r.tx) /\ Of(t, o.tx)
  BY <1>1, <1>5 DEF Of
<1>8. Apart(t)
  BY <1>1, <1>2, <1>3, <1>7 DEF Apart
<1>9. Learns(t)
  BY <1>1, <1>2, <1>3, <1>7, KnownIds, LearnsNothing
<1>10. ASSUME NEW x \in Nat \ {0}, x \notin qtExcused', Only(t, x), TracedAt(t, x) PROVE TracedAt(t, x)'
  <2>1. ~Runs(x)'
    <3>1. ASSUME NEW m \in DOMAIN qtRuns, qtRuns[m].tx = x PROVE m = n
      BY <1>1, <1>10, <3>1 DEF TracedAt
    <3> QED  BY <1>2, <3>1 DEF Runs
  <2>2. Closing(x)' <=> Closing(x)
    BY DEF Closing
  <2>3. Live(x)' <=> x \in qtServer'
    BY <2>1 DEF Live, Runs
  <2>4. Live(x)' => Live(x)
    BY <2>3 DEF Live
  <2>5. CASE r.tx = x
    <3>1. Home(t, x)
      BY <1>1, <1>10, <2>5 DEF TracedAt
    <3>2. o = QT!State(t) /\ o.tx = x /\ o.mode = "manual" /\ s.tx = x
      BY <1>6, <2>5, <3>1 DEF Home
    <3>3. Home(t, x)'
      BY <1>3, <3>1, <3>2 DEF Home
    <3>4. x \in qtServer' => QT!State(t)'.state # "idle"
      BY <1>3, <1>10, <2>5
    <3> QED  BY <1>10, <2>1, <2>2, <2>3, <2>4, <3>1, <3>3, <3>4 DEF TracedAt, Runs
  <2>6. CASE r.tx # x
    <3>1. x \in qtServer' <=> x \in qtServer
      BY <2>6
    <3>2. ~Runs(x)
      BY <1>2, <2>1, <2>6 DEF Runs
    <3>3. Live(x)' /\ ~Closing(x) => Home(t, x) /\ QT!State(t).state # "idle"
      BY <1>10, <2>3, <3>1, <3>2 DEF TracedAt
    <3>4. Live(x)' /\ ~Closing(x) => Home(t, x)' /\ QT!State(t)'.state # "idle"
      <4>1. SUFFICES ASSUME Home(t, x), QT!State(t).state # "idle"
                     PROVE  Home(t, x)' /\ QT!State(t)'.state # "idle"
        BY <3>3
      <4>2. o = QT!State(t) /\ o.tx = x /\ o.mode = "manual"
        BY <1>6, <4>1 DEF Home
      <4>3. s.tx = x /\ s.state = o.state
        BY <1>10, <2>6, <4>2
      <4> QED  BY <1>3, <4>1, <4>2, <4>3 DEF Home
    <3> QED  BY <1>10, <2>1, <2>2, <2>3, <2>4, <3>3, <3>4 DEF TracedAt, Runs
  <2> QED  BY <2>5, <2>6
<1> QED  BY <1>1, <1>4, <1>8, <1>9, <1>10, TabStepKeeps

LEMMA BeginKeeps ==
    ASSUME TabsInv, NEW n \in DOMAIN qtRuns, QT!Begin(n)
    PROVE  TabsInv'
<1> DEFINE r == [qtRuns[n] EXCEPT !.begin = FALSE, !.loop = "active"]
<1>1. qtRuns[n] \in TabRuns /\ qtRuns[n].begin
  BY DEF TabsInv, TabTypes, QT!Begin
<1>2. /\ r \in TabRuns /\ r.tab = qtRuns[n].tab /\ r.tx = qtRuns[n].tx /\ r.was = qtRuns[n].was
      /\ ~r.begin /\ r.loop = "active"
  BY <1>1 DEF TabRuns, TxStates
<1>3. /\ qtRuns' = [qtRuns EXCEPT ![n] = r] /\ qtServer' = qtServer \cup {qtRuns[n].tx}
      /\ UNCHANGED <<qtOpen, qtTab, qtEnds, qtLoads, qtExcused, qtNextRun, qtNextTx>>
  BY DEF QT!Begin, QT!counters, TabsInv, TabTypes
<1> HIDE DEF r
<1> QED  BY <1>1, <1>2, <1>3, RunGoesOnKeeps

(* What a run that ends with a result or with an error does to its tab. *)
LEMMA EndsKeeps ==
    ASSUME TabsInv, NEW n \in DOMAIN qtRuns, NEW state \in TxStates, NEW shown \in {"none", "all", "more"},
           QT!Ends(n, state, shown), NEW r, r = qtRuns[n],
           \A y \in Nat : y # r.tx => (y \in qtServer' <=> y \in qtServer),
           r.tx \in qtServer' => r.tx \in qtServer \/ r.begin,
           r.tx \in qtServer' => r.tx \in qtExcused \/ state # "idle",
           qtServer' \subseteq qtServer \cup {r.tx},
           UNCHANGED <<qtOpen, qtEnds, qtLoads, qtNextRun, qtNextTx>>
    PROVE  TabsInv'
<1> DEFINE o == QT!Entry(r.tab, r.was)
           v == QT!Over(o, r.tx, state)
           s == [v EXCEPT !.shown = shown]
<1>1. r \in TabRuns /\ r.tx \in Nat /\ o \in Entries
  <2>1. r \in TabRuns
    BY DEF TabsInv, TabTypes
  <2> QED  BY <2>1, StateTypes DEF TabsInv, TabRuns
<1>2. qtTab' = [qtTab EXCEPT ![r.tab] = s] /\ qtExcused' = qtExcused \cup ({o.tx} \ {s.tx})
  BY DEF QT!Ends, QT!Patched
<1>3. qtRuns' = [m \in DOMAIN qtRuns \ {n} |-> qtRuns[m]]
  BY DEF QT!Ends
<1> HIDE DEF o
<1>4. v \in Entries /\ v.mode = o.mode /\ v.tx = r.tx /\ v.state = state
  BY <1>1, OverFields DEF v
<1> HIDE DEF v
<1>5. s \in Entries /\ s.mode = o.mode /\ s.tx = r.tx /\ s.state = state
  BY <1>4 DEF Entries
<1> HIDE DEF s
<1>6. o = QT!Entry(r.tab, r.was)
  BY DEF o
<1>7. o.tx = s.tx \/ o.tx \in qtExcused'
  BY <1>2
<1>8. qtExcused \subseteq qtExcused' /\ qtTab' = [qtTab EXCEPT ![r.tab] = s]
  BY <1>2
<1>9. r.tx \in qtServer' => r.tx \in qtExcused' \/ s.state # "idle"
  BY <1>5, <1>8
<1> QED  BY <1>3, <1>5, <1>6, <1>7, <1>8, <1>9, RunEndsKeeps

(* A run whose transaction is not excused, in its home. *)
LEMMA RunFacts ==
    ASSUME TabsInv, NEW n \in DOMAIN qtRuns, NEW r, r = qtRuns[n]
    PROVE  /\ r \in TabRuns /\ r.tx \in Nat /\ r.tab \in QueryTabIds /\ r.was \in Entries
           /\ 0 \notin qtServer /\ (r.begin => r.tx # 0)
           /\ r.tx \in Nat \ {0} /\ r.tx \notin qtExcused =>
                /\ r.was.mode = "manual" /\ (r.begin => r.tx \notin qtServer)
                /\ r.begin \/ r.loop # "idle" \/ r.tx \notin qtServer
<1>1. /\ r \in TabRuns /\ r.tx \in Nat /\ r.tab \in QueryTabIds /\ r.was \in Entries
      /\ 0 \notin qtServer /\ (r.begin => r.tx # 0)
  BY DEF TabsInv, TabTypes, TabRuns
<1>2. ASSUME r.tx \in Nat \ {0}, r.tx \notin qtExcused
      PROVE  /\ r.was.mode = "manual" /\ (r.begin => r.tx \notin qtServer)
             /\ r.begin \/ r.loop # "idle" \/ r.tx \notin qtServer
  <2>1. RunIsHome(r.tx)
    BY <1>2 DEF TabsInv, IsTraced
  <2> QED  BY <2>1 DEF RunIsHome
<1> QED  BY <1>1, <1>2

LEMMA FailsKeeps ==
    ASSUME TabsInv, NEW n \in DOMAIN qtRuns, NEW loop \in TxStates, QT!Fails(n, loop), NEW r, r = qtRuns[n],
           \/ qtServer' = qtServer /\ (r.begin \/ loop = r.loop \/ r.tx \notin qtServer)
           \/ qtServer' = qtServer \cup {r.tx} /\ r.begin /\ ~r.several,
           UNCHANGED <<qtOpen, qtEnds, qtLoads, qtNextRun, qtNextTx>>
    PROVE  TabsInv'
<1> DEFINE state == IF r.several THEN loop ELSE IF r.was.mode = "manual" THEN "active" ELSE "idle"
           shown == IF r.several THEN "all" ELSE "none"
<1>1. state \in TxStates /\ shown \in {"none", "all", "more"} /\ QT!Ends(n, state, shown)
  BY DEF QT!Fails, TxStates
<1>2. r.tx \in qtServer' => r.tx \in qtExcused \/ state # "idle"
  <2> SUFFICES ASSUME r.tx \in qtServer', r.tx \notin qtExcused PROVE state # "idle"
    OBVIOUS
  <2>1. r.tx \in Nat \ {0}
    BY RunFacts
  <2> QED  BY <2>1, RunFacts
<1> HIDE DEF state, shown
<1> QED  BY <1>1, <1>2, EndsKeeps

LEMMA BeginFailsKeeps ==
    ASSUME TabsInv, NEW n \in DOMAIN qtRuns, QT!BeginFails(n)
    PROVE  TabsInv'
<1> DEFINE r == qtRuns[n]
<1>1. "idle" \in TxStates /\ r.begin /\ UNCHANGED <<qtOpen, qtEnds, qtLoads, qtNextRun, qtNextTx>>
  BY DEF TxStates, QT!BeginFails, QT!counters
<1>2. CASE QT!Fails(n, "idle") /\ UNCHANGED qtServer
  BY <1>1, <1>2, FailsKeeps
<1>3. CASE ~r.several /\ QT!Fails(n, "idle") /\ qtServer' = qtServer \cup {r.tx}
  BY <1>1, <1>3, FailsKeeps
<1>4. CASE /\ r.several /\ qtServer' = qtServer \cup {r.tx}
           /\ qtTab' = [qtTab EXCEPT ![r.tab] = QT!Over(QT!Entry(r.tab, r.was), r.tx, "idle")]
           /\ qtRuns' = [m \in DOMAIN qtRuns \ {n} |-> qtRuns[m]]
           /\ qtExcused' = qtExcused \cup {r.tx, QT!Entry(r.tab, r.was).tx}
  <2> DEFINE o == QT!Entry(r.tab, r.was)
             s == QT!Over(o, r.tx, "idle")
  <2>1. o \in Entries
    BY RunFacts, StateTypes DEF TabsInv
  <2>2. s \in Entries /\ s.mode = o.mode /\ s.tx = r.tx
    BY <1>1, <2>1, RunFacts, OverFields
  <2> QED  BY <1>1, <1>4, <2>2, RunEndsKeeps
<1> QED  BY <1>2, <1>3, <1>4 DEF QT!BeginFails

LEMMA StatementFailsKeeps ==
    ASSUME TabsInv, NEW n \in DOMAIN qtRuns, QT!StatementFails(n)
    PROVE  TabsInv'
<1> DEFINE r == qtRuns[n]
           loop == IF r.tx # 0 /\ r.tx \notin qtServer THEN "idle" ELSE r.loop
<1>1. QT!Fails(n, loop) /\ UNCHANGED <<qtOpen, qtEnds, qtLoads, qtServer, qtNextRun, qtNextTx>>
  BY DEF QT!StatementFails, QT!counters
<1>2. loop \in TxStates /\ (loop = r.loop \/ r.tx \notin qtServer)
  BY RunFacts DEF TabRuns, TxStates
<1> HIDE DEF loop
<1> QED  BY <1>1, <1>2, FailsKeeps

LEMMA StatementDoneKeeps ==
    ASSUME TabsInv, NEW n \in DOMAIN qtRuns, QT!StatementDone(n)
    PROVE  TabsInv'
<1> DEFINE r == qtRuns[n]
<1>1. PICK ends \in BOOLEAN, shown \in {"all", "more"}, loop \in TxStates \cup {r.loop} :
        /\ loop = IF r.tx = 0 THEN r.loop ELSE IF ends THEN "idle" ELSE "active"
        /\ r.tx = 0 => ~ends
        /\ qtServer' = IF ends THEN qtServer \ {r.tx} ELSE qtServer
        /\ IF r.left > 1
           THEN /\ qtRuns' = [qtRuns EXCEPT ![n].left = @ - 1, ![n].loop = loop]
                /\ UNCHANGED <<qtTab, qtExcused>>
           ELSE QT!Ends(n, loop, shown)
  BY DEF QT!StatementDone, TxStates
<1>2. ~r.begin /\ UNCHANGED <<qtOpen, qtEnds, qtLoads, qtNextRun, qtNextTx>>
  BY DEF QT!StatementDone, QT!counters
<1>3. r \in TabRuns /\ 0 \notin qtServer
  BY RunFacts
<1>4. loop \in TxStates /\ (r.tx \in qtServer' => loop # "idle")
  BY <1>1, <1>3 DEF TabRuns, TxStates
<1>5. CASE r.left > 1
  <2> DEFINE s == [r EXCEPT !.left = r.left - 1, !.loop = loop]
  <2>1. r.left - 1 \in Nat
    BY <1>3, <1>5 DEF TabRuns
  <2>2. s \in TabRuns /\ s.tab = r.tab /\ s.tx = r.tx /\ s.was = r.was /\ s.begin = r.begin /\ s.loop = loop
    BY <1>3, <1>4, <2>1 DEF TabRuns
  <2>3. qtRuns' = [qtRuns EXCEPT ![n] = s]
    BY <1>1, <1>5 DEF TabsInv, TabTypes
  <2> HIDE DEF s
  <2> QED  BY <1>1, <1>2, <1>4, <1>5, <2>2, <2>3, RunGoesOnKeeps
<1>6. CASE ~(r.left > 1)
  BY <1>1, <1>2, <1>4, <1>6, EndsKeeps
<1> QED  BY <1>5, <1>6

LEMMA AskedToConfirmKeeps ==
    ASSUME TabsInv, NEW n \in DOMAIN qtRuns, QT!AskedToConfirm(n)
    PROVE  TabsInv'
<1> DEFINE r == qtRuns[n]
           o == QT!Entry(r.tab, r.was)
           s == QT!Over(o, o.tx, o.state)
<1>1. o \in Entries /\ o.tx \in Nat /\ o.state \in TxStates
  <2>1. o \in Entries
    BY RunFacts, StateTypes DEF TabsInv
  <2> QED  BY <2>1 DEF Entries
<1>2. s \in Entries /\ s.mode = o.mode /\ s.tx = o.tx /\ s.state = o.state
  BY <1>1, OverFields
<1>3. /\ qtTab' = [qtTab EXCEPT ![r.tab] = s]
      /\ qtExcused' = IF o.state = "idle" THEN qtExcused \cup {r.tx} ELSE qtExcused
      /\ qtRuns' = [m \in DOMAIN qtRuns \ {n} |-> qtRuns[m]]
      /\ UNCHANGED <<qtOpen, qtEnds, qtLoads, qtServer, qtNextRun, qtNextTx>>
  BY DEF QT!AskedToConfirm, QT!counters
<1> HIDE DEF s
<1> QED  BY <1>2, <1>3, RunEndsKeeps
-----------------------------------------------------------------------------
(* A run that begins. *)

LEMMA ExecuteKeeps ==
    ASSUME TabsInv, NEW t \in QueryTabIds, NEW s, s = QT!State(t) \/ s = QT!Default,
           NEW statements \in 1..2, QT!Execute(t, s, statements)
    PROVE  TabsInv'
<1> DEFINE tx == IF s.mode = "auto" THEN 0 ELSE IF s.tx = 0 THEN qtNextTx ELSE s.tx
           o == QT!Entry(t, s)
           new == [tab |-> t, tx |-> tx, was |-> s, loop |-> s.state, several |-> statements > 1,
                   left |-> statements, begin |-> s.mode = "manual" /\ s.state = "idle"]
           w == [o EXCEPT !.exec = TRUE, !.canceling = FALSE, !.token = qtNextRun, !.tx = tx,
                          !.state = IF s.mode = "manual" THEN s.state ELSE "idle", !.shown = "none",
                          !.loading = FALSE]
<1>1. s \in Entries /\ QT!State(t) \in Entries /\ o \in Entries
  BY StateTypes, EntryTypes DEF TabsInv
<1>2. /\ tx \in Nat /\ (s.mode = "manual" => tx # 0) /\ (tx # 0 => s.mode = "manual")
      /\ qtNextRun \in Nat \ {0} /\ qtNextTx \in Nat \ {0}
  BY <1>1 DEF Entries, TabsInv, TabTypes
<1>3. /\ t \in qtOpen
      /\ qtTab' = [qtTab EXCEPT ![t] = w]
      /\ qtExcused' = IF QT!RunsOf(t) # {} THEN qtExcused \cup QT!UsedBy(t) \cup {tx}
                      ELSE qtExcused \cup ({QT!State(t).tx} \ {tx})
                                     \cup (IF QT!AnswerDue(t) /\ s.state = "idle" THEN {tx} ELSE {})
      /\ qtRuns' = [n \in DOMAIN qtRuns \cup {qtNextRun} |-> IF n \in DOMAIN qtRuns THEN qtRuns[n] ELSE new]
      /\ qtNextRun' = qtNextRun + 1
      /\ qtNextTx' = IF tx = qtNextTx THEN qtNextTx + 1 ELSE qtNextTx
      /\ UNCHANGED <<qtOpen, qtEnds, qtLoads, qtServer>>
  BY DEF QT!Execute
<1>4. /\ tx = 0 \/ tx = s.tx \/ (tx = qtNextTx /\ s.tx = 0)
      /\ tx # 0 => s = QT!State(t)
      /\ s.tx = 0 \/ s = QT!State(t)
  BY DEF QT!Default
<1> HIDE DEF tx, o
<1>5. /\ w \in Entries /\ w.tx = tx /\ w.exec /\ w.shown = "none" /\ w.mode = o.mode
      /\ w.state = IF s.mode = "manual" THEN s.state ELSE "idle"
  BY <1>1, <1>2 DEF Entries, TxStates
<1>6. /\ new \in TabRuns /\ new.tab = t /\ new.tx = tx /\ new.was = s /\ new.loop = s.state
      /\ new.begin <=> s.mode = "manual" /\ s.state = "idle"
  <2> DEFINE several == statements > 1
             begin == s.mode = "manual" /\ s.state = "idle"
  <2>1. several \in BOOLEAN /\ begin \in BOOLEAN /\ statements \in Nat /\ s.state \in TxStates
    BY <1>1 DEF Entries
  <2>2. new = [tab |-> t, tx |-> tx, was |-> s, loop |-> s.state, several |-> several, left |-> statements, begin |-> begin]
    OBVIOUS
  <2>3. begin <=> s.mode = "manual" /\ s.state = "idle"
    OBVIOUS
  <2> HIDE DEF several, begin, new
  <2> QED  BY <1>1, <1>2, <2>1, <2>2, <2>3 DEF TabRuns
<1>7. s = QT!State(t) => o = s
  BY <1>1, StateTypes DEF o, TabsInv
<1> HIDE DEF w, new
<1>8. /\ qtTab' \in [QueryTabIds -> Entries \cup {QT!Absent}]
      /\ QT!State(t)' = w
      /\ \A u \in QueryTabIds : u # t => QT!State(u)' = QT!State(u)
  BY <1>3, <1>5, PatchedTab DEF TabsInv
<1>9. /\ DOMAIN qtRuns' = DOMAIN qtRuns \cup {qtNextRun} /\ qtNextRun \notin DOMAIN qtRuns
      /\ \A n \in DOMAIN qtRuns : qtRuns'[n] = qtRuns[n]
      /\ qtRuns'[qtNextRun] = new
  BY <1>2, <1>3 DEF TabsInv, TabTypes
<1>10. TabTypes'
  <2>1. qtRuns' \in [DOMAIN qtRuns' -> TabRuns]
    BY <1>3, <1>6 DEF TabsInv, TabTypes
  <2>2. DOMAIN qtRuns' \subseteq 1..(qtNextRun' - 1)
    BY <1>2, <1>3, <1>9 DEF TabsInv, TabTypes
  <2>3. \A n \in DOMAIN qtRuns' : qtRuns'[n].begin => qtRuns'[n].tx # 0
    BY <1>2, <1>6, <1>9 DEF TabsInv, TabTypes
  <2>4. qtNextRun' \in Nat \ {0} /\ qtNextTx' \in Nat \ {0}
    BY <1>2, <1>3
  <2> QED  BY <1>3, <1>8, <2>1, <2>2, <2>3, <2>4 DEF TabsInv, TabTypes
<1>11. QT!AnswerDue(t)' <=> QT!AnswerDue(t)
  BY <1>3 DEF QT!AnswerDue
<1>12. Apart(t)
  <2>1. qtExcused \subseteq qtExcused'
    BY <1>3
  <2> QED  BY <1>3, <1>6, <1>8, <1>9, <2>1 DEF Apart
<1>13. Learns(t)
  <2>1. ASSUME NEW x \in Nat \ {0}, Of(t, x)', ~Of(t, x) PROVE x = tx \/ x = s.tx
    BY <1>3, <1>5, <1>6, <1>8, <1>9, <2>1 DEF Of
  <2>2. ASSUME NEW x \in Nat \ {0}, ~Of(t, x) PROVE x # s.tx
    BY <1>4, <2>2 DEF Of
  <2> QED  BY <1>3, <1>4, <2>1, <2>2 DEF Learns
<1>14. \A x \in Nat \ {0} : (Closing(x)' <=> Closing(x)) /\ (Home(t, x)' <=> tx = x /\ o.mode = "manual")
  BY <1>3, <1>5, <1>8 DEF Closing, Home
<1>15. ASSUME NEW x \in Nat \ {0}, x \notin qtExcused', Only(t, x), TracedAt(t, x) PROVE TracedAt(t, x)'
  <2>1. ~Runs(x)
    <3>1. ASSUME NEW n \in DOMAIN qtRuns, qtRuns[n].tx = x PROVE FALSE
      <4>1. n \in QT!RunsOf(t) /\ x \in QT!UsedBy(t)
        BY <1>15, <3>1 DEF Only, QT!RunsOf, QT!UsedBy
      <4> QED  BY <1>3, <1>15, <4>1
    <3> QED  BY <3>1 DEF Runs
  <2>2. Live(x) <=> x \in qtServer
    BY <2>1 DEF Live, Runs
  <2>3. CASE x # tx
    <3>1. ~Home(t, x) /\ ~Home(t, x)'
      <4>1. QT!State(t).tx # x
        BY <1>3, <1>15, <2>3 DEF QT!UsedBy
      <4> QED  BY <1>14, <2>3, <4>1 DEF Home
    <3>2. ~Runs(x)'
      BY <1>6, <1>9, <2>1, <2>3 DEF Runs
    <3>3. Live(x)' <=> Live(x)
      BY <1>3, <2>2, <3>2 DEF Live, Runs
    <3> QED  BY <1>3, <1>14, <1>15, <2>1, <3>1, <3>2, <3>3 DEF TracedAt, Runs
  <2>4. CASE x = tx
    <3>1. s = QT!State(t) /\ s.mode = "manual" /\ o = s
      BY <1>2, <1>4, <1>7, <2>4
    <3>2. Home(t, x)' /\ QT!State(t)'.exec /\ QT!State(t)'.shown = "none" /\ QT!State(t)'.state = s.state
      BY <1>5, <1>8, <1>14, <2>4, <3>1
    <3>3. QT!RunsOf(t) = {}
      BY <1>3, <1>15, <2>4
    <3>4. s.state = "idle" => ~QT!AnswerDue(t)
      BY <1>3, <1>15, <2>4, <3>3
    <3>5. x \in qtServer => x = QT!State(t).tx
      BY <1>2, <1>4, <2>4, <3>1 DEF TabsInv, OneTab
    <3>6. s.state = "idle" => x \notin qtServer
      BY <1>15, <2>1, <3>1, <3>4 DEF TracedAt, Closing, Only, QT!AnswerDue
    <3>7. \A n \in DOMAIN qtRuns' : qtRuns'[n].tab = t \/ qtRuns'[n].tx = x => n = qtNextRun
      BY <1>9, <2>1, <3>3 DEF QT!RunsOf, Runs
    <3>8. Runs(x)'
      BY <1>6, <1>9, <2>4 DEF Runs
    <3>9. Live(x)' => Live(x) \/ s.state = "idle"
      BY <1>3, <1>6, <1>9, <3>7 DEF Live
    <3>10. \A n \in DOMAIN qtRuns' : qtRuns'[n].tx = x =>
             /\ Home(t, x)' /\ QT!State(t)'.exec /\ qtRuns'[n].was.mode = "manual"
             /\ \A m \in DOMAIN qtRuns' : qtRuns'[m].tab = t => m = n
             /\ qtRuns'[n].begin => /\ x \notin qtServer' /\ ~QT!AnswerDue(t)'
                                    /\ QT!State(t)'.state = "idle" /\ QT!State(t)'.shown = "none"
             /\ qtRuns'[n].begin \/ qtRuns'[n].loop # "idle" \/ x \notin qtServer'
      BY <1>3, <1>6, <1>9, <1>11, <3>1, <3>2, <3>4, <3>6, <3>7
    <3>11. /\ \A e \in qtEnds' : e.phase \in {"done", "gone"} /\ e.tx = x => ~Live(x)'
           /\ \A l \in qtLoads' : l.answer = "idle" /\ l.tx = x => ~Live(x)'
      BY <1>3, <1>15, <3>4, <3>9 DEF TracedAt, Only, QT!AnswerDue
    <3>12. Live(x)' /\ ~Closing(x)' /\ Home(t, x)' =>
             /\ \A e \in qtEnds' : e.tab = t /\ e.action # "close" => e.tx = x
             /\ \A l \in qtLoads' : l.tab = t => l.tx \in {0, x}
      <4> SUFFICES ASSUME Live(x)', ~Closing(x)
                   PROVE  /\ \A e \in qtEnds : e.tab = t /\ e.action # "close" => e.tx = x
                          /\ \A l \in qtLoads : l.tab = t => l.tx \in {0, x}
        BY <1>3, <1>14
      <4>1. CASE s.state = "idle"
        BY <3>4, <4>1 DEF QT!AnswerDue
      <4>2. CASE s.state # "idle"
        <5>1. x \in qtServer
          BY <2>2, <3>9, <4>2
        <5>2. Home(t, x)
          BY <1>3, <3>1, <3>5, <5>1 DEF Home
        <5> QED  BY <1>15, <2>2, <5>1, <5>2 DEF TracedAt
      <4> QED  BY <4>1, <4>2
    <3> QED  BY <3>8, <3>10, <3>11, <3>12 DEF TracedAt
  <2> QED  BY <2>3, <2>4
<1> QED  BY <1>10, <1>12, <1>13, <1>15, TabStepKeeps

LEMMA TabsInit ==
    ASSUME QT!Init
    PROVE  TabsInv
<1>1. /\ qtOpen = {1} /\ qtTab = [t \in QueryTabIds |-> IF t = 1 THEN QT!Default ELSE QT!Absent]
      /\ qtRuns = <<>> /\ qtEnds = {} /\ qtLoads = {} /\ qtServer = {} /\ qtNextRun = 1 /\ qtNextTx = 1
  BY DEF QT!Init
<1>2. DOMAIN qtRuns = {}
  BY <1>1
<1>3. TabTypes
  BY <1>1, <1>2, TabAssumption, EntryTypes DEF TabTypes
<1>4. \A t \in QueryTabIds : QT!State(t).tx = 0
  BY <1>1 DEF QT!State, QT!Default
<1>5. \A t \in QueryTabIds : \A x : Of(t, x) => x = 0
  BY <1>1, <1>2, <1>4 DEF Of
<1>6. OneTab
  BY <1>1, <1>5 DEF OneTab
<1>7. \A x \in Nat \ {0} : IsTraced(x)
  BY <1>1, <1>2 DEF IsTraced, OpenIsHome, RunIsHome, GoneIsGone, AnswersAreOfIt, Live
<1> QED  BY <1>3, <1>6, <1>7 DEF TabsInv

LEMMA TabsNext ==
    ASSUME TabsInv, QT!Next
    PROVE  TabsInv'
<1>1. ASSUME NEW t \in QueryTabIds,
             QT!TabBar(t) \/ QT!OpenSql(t) \/ QT!TransactionButtons(t) \/ QT!RunButtons(t)
               \/ QT!ResultBar(t) \/ QT!CancelRefused(t)
      PROVE  TabsInv'
  <2>1. CASE QT!TabBar(t)
    BY <2>1, OpenTabKeeps, ClosesKeep DEF QT!TabBar
  <2>2. CASE QT!TransactionButtons(t)
    BY <2>2, ChangeModeKeeps, EndTransactionKeeps DEF QT!TransactionButtons
  <2>3. CASE QT!RunButtons(t)
    <3>1. CASE QT!Cancel(t)
      BY <3>1, ShownAndCancelKeep
    <3>2. ASSUME NEW statements \in 1..2, QT!Run(t, statements) \/ QT!RunKey(t, statements) PROVE TabsInv'
      BY <3>2, ExecuteKeeps DEF QT!Run, QT!RunKey
    <3> QED  BY <2>3, <3>1, <3>2 DEF QT!RunButtons
  <2>4. CASE QT!ResultBar(t)
    BY <2>4, LoadMoreKeeps, ShownAndCancelKeep DEF QT!ResultBar
  <2>5. CASE QT!OpenSql(t) \/ QT!CancelRefused(t)
    BY <2>5, ShownAndCancelKeep
  <2> QED  BY <1>1, <2>1, <2>2, <2>3, <2>4, <2>5
<1>2. CASE QT!CloseAll
  BY <1>2, ClosesKeep
<1>3. ASSUME NEW n \in DOMAIN qtRuns,
             QT!Begin(n) \/ QT!BeginFails(n) \/ QT!StatementDone(n) \/ QT!StatementFails(n) \/ QT!AskedToConfirm(n)
      PROVE  TabsInv'
  BY <1>3, BeginKeeps, BeginFailsKeeps, StatementDoneKeeps, StatementFailsKeeps, AskedToConfirmKeeps
<1>4. ASSUME NEW e \in qtEnds, QT!ServerEnds(e) \/ QT!EndAnswered(e) PROVE TabsInv'
  BY <1>4, ServerEndsKeeps, EndAnsweredKeeps
<1>5. ASSUME NEW l \in qtLoads, QT!ServerLoads(l) \/ QT!MoreRows(l) \/ QT!LoadMoreFails(l) PROVE TabsInv'
  BY <1>5, ServerLoadsKeeps, MoreRowsKeeps
<1>6. ASSUME NEW x \in qtServer, QT!ServerForgets(x) PROVE TabsInv'
  BY <1>6, ServerForgetsKeeps
<1> QED  BY <1>1, <1>2, <1>3, <1>4, <1>5, <1>6 DEF QT!Next

(* What nothing touches stays: in every tab the same is known and shown. *)
LEMMA TabsQuiet ==
    ASSUME TabsInv, UNCHANGED tabs
    PROVE  TabsInv'
<1>1. UNCHANGED <<qtOpen, qtTab, qtRuns, qtEnds, qtLoads, qtServer, qtExcused, qtNextRun, qtNextTx>>
  BY DEF tabs
<1>2. TabTypes'
  BY <1>1 DEF TabsInv, TabTypes
<1>3. PICK t \in QueryTabIds : TRUE
  BY TabAssumption
<1>4. \A u \in QueryTabIds : QT!State(u)' = QT!State(u) /\ (QT!AnswerDue(u)' <=> QT!AnswerDue(u))
  BY <1>1 DEF QT!State, QT!AnswerDue
<1>5. Apart(t) /\ Learns(t)
  BY <1>1, <1>3, <1>4, KnownIds, LearnsNothing DEF Apart
<1>6. ASSUME NEW x \in Nat \ {0}, TracedAt(t, x) PROVE TracedAt(t, x)'
  <2>1. (Home(t, x)' <=> Home(t, x)) /\ (Live(x)' <=> Live(x)) /\ (Closing(x)' <=> Closing(x)) /\ (Runs(x)' <=> Runs(x))
    BY <1>1, <1>4 DEF Home, Live, Closing, Runs
  <2> QED  BY <1>1, <1>4, <1>6, <2>1 DEF TracedAt
<1> QED  BY <1>2, <1>5, <1>6, TabStepKeeps

(* A transaction that is open on the server is shown by an open tab as one to commit or roll back, *)
(* or a request under way uses it (handleExecute, handleTransactionAction, handleTabClose,         *)
(* handleLoadMoreResults of App/index.tsx); for any tabs, any number of runs, transactions and     *)
(* clicks.  Excused are the losses QueryTabs lists: tabs closed while they run or end, closed tabs *)
(* whose rollback fails, overlapping runs of a tab, begins that lose their answer or meet an older *)
(* one still due, and the dialog for dangerous SQL.                                                *)
THEOREM TransactionsHaveTabs ==
    Spec => []EveryTransactionHasItsTab
<1> DEFINE Inv == view = "tabs" => TabsInv
<1>1. Init => Inv
  BY TabsInit DEF Init
<1>2. Inv /\ [Next]_vars => Inv'
  BY TabsNext, TabsQuiet, OthersKeep
<1>3. Inv => EveryTransactionHasItsTab
  <2> SUFFICES ASSUME TabsInv, NEW x \in qtServer, x \notin qtExcused
               PROVE  \/ \E t \in qtOpen : QT!State(t).mode = "manual" /\ QT!State(t).tx = x /\ QT!State(t).state # "idle"
                      \/ \E n \in DOMAIN qtRuns : qtRuns[n].tx = x
                      \/ \E e \in qtEnds : e.tx = x
    BY DEF EveryTransactionHasItsTab, QT!EveryTransactionHasItsTab
  <2>1. OpenIsHome(x)
    BY DEF TabsInv, TabTypes, IsTraced
  <2> QED  BY <2>1 DEF OpenIsHome, Closing, Runs, Home
<1> QED  BY <1>1, <1>2, <1>3, PTL DEF Spec

-----------------------------------------------------------------------------
(* The grid of a result. *)

AnyResult == [column : {1, 2}, rows : Nat, more : BOOLEAN]

(* The results have a column, a number of rows, and perhaps more; the one selected is there.  While *)
(* a run is under way its skeleton lets nobody turn a page or open a menu.                         *)
ResultsTyped ==
    /\ rgResults \in Seq(AnyResult)
    /\ rgActive \in Nat \ {0} /\ (rgResults # <<>> => rgActive \in DOMAIN rgResults)
    /\ rgChart \in BOOLEAN /\ rgResorted \in BOOLEAN
    /\ rgExecuting \in BOOLEAN /\ (rgExecuting => rgPage = 1 /\ rgMenu = RG!NoMenu)
    /\ rgPage \in Nat \ {0} /\ rgMenu.at \in Nat

(* Without a grid there is no page, sort or menu to come back to. *)
NothingKept == ~RG!Grid => rgPage = 1 /\ rgSort = RG!NoSort /\ rgMenu = RG!NoMenu

(* The page is one of the result it was chosen for, if that is still there. *)
PageOfItsResult ==
    RG!Grid /\ rgPageOf # 0 => rgPageOf \in DOMAIN rgResults /\ rgPage <= RG!Pages(rgResults[rgPageOf])

(* An open menu names the row at its place. *)
MenuOnItsRow ==
    rgMenu # RG!NoMenu /\ ~rgResorted =>
        /\ rgMenu.row # 0
        /\ RG!RowAt(RG!Active, rgSort, rgPage, rgMenu.at) = rgMenu.row

ResultsInv == ResultsTyped /\ NothingKept /\ PageOfItsResult /\ MenuOnItsRow

-----------------------------------------------------------------------------
(* The rows and pages of a result. *)

LEMMA PagesGrow ==
    ASSUME NEW a \in Nat, NEW b \in Nat, a <= b
    PROVE  /\ (a + PageRows - 1) \div PageRows \in Nat /\ (b + PageRows - 1) \div PageRows \in Nat
           /\ (a + PageRows - 1) \div PageRows <= (b + PageRows - 1) \div PageRows
           /\ a > 0 => (a + PageRows - 1) \div PageRows >= 1
<1> DEFINE p == (a + PageRows - 1) \div PageRows
           q == (b + PageRows - 1) \div PageRows
<1>1. PageRows \in Nat /\ PageRows > 0
  BY ResultsAssumption
<1>2. p \in Int /\ PageRows * p <= a + PageRows - 1 /\ a + PageRows - 1 < PageRows * p + PageRows
  BY <1>1, SMTT(30)
<1>3. q \in Int /\ PageRows * q <= b + PageRows - 1 /\ b + PageRows - 1 < PageRows * q + PageRows
  BY <1>1, SMTT(30)
<1> HIDE DEF p, q
<1>4. p >= 0 /\ q >= 0
  BY <1>1, <1>2, <1>3, SMTT(30)
<1>5. p <= q
  BY <1>1, <1>2, <1>3, SMTT(30)
<1>6. a > 0 => p >= 1
  BY <1>1, <1>2, SMTT(30)
<1> QED  BY <1>2, <1>3, <1>4, <1>5, <1>6 DEF p, q

(* A grid that does not sort its result shows the row that has the number of the place. *)
LEMMA UnsortedRow ==
    ASSUME NEW result, result.rows \in Nat, NEW sort, sort.key # result.column,
           NEW page \in Nat, NEW at \in Nat
    PROVE  LET place == (page - 1) * PageRows + at
           IN  RG!RowAt(result, sort, page, at) = IF place \in 1..result.rows THEN place ELSE 0
<1> DEFINE place == (page - 1) * PageRows + at
           there == {p \in 1..result.rows :
                       Cardinality({q \in 1..result.rows : RG!Before(result, sort, q, p)})
                         = (page - 1) * PageRows + at - 1}
<1>1. ASSUME NEW p \in 1..result.rows
      PROVE  Cardinality({q \in 1..result.rows : RG!Before(result, sort, q, p)}) = p - 1
  <2>1. {q \in 1..result.rows : RG!Before(result, sort, q, p)} = 1..(p - 1)
    BY DEF RG!Before, RG!Less
  <2>2. 1 \in Int /\ p - 1 \in Int /\ p - 1 >= 0
    OBVIOUS
  <2>3. Cardinality(1..(p - 1)) = IF 1 > p - 1 THEN 0 ELSE (p - 1) - 1 + 1
    BY <2>2, FS_Interval
  <2>4. Cardinality(1..(p - 1)) = p - 1
    BY <2>2, <2>3
  <2> QED  BY <2>1, <2>4
<1>2. place \in Int /\ place - 1 = (page - 1) * PageRows + at - 1
  BY ResultsAssumption
<1>3. there = {p \in 1..result.rows : p - 1 = (page - 1) * PageRows + at - 1}
  BY <1>1
<1>4. RG!RowAt(result, sort, page, at) = IF there = {} THEN 0 ELSE CHOOSE p \in there : TRUE
  BY DEF RG!RowAt, RG!Cardinality, Cardinality, RG!IsFiniteSet, IsFiniteSet
<1> HIDE DEF there
<1>5. there = {p \in 1..result.rows : p = place}
  BY <1>2, <1>3
<1> HIDE DEF place
<1>6. RG!RowAt(result, sort, page, at) = IF place \in 1..result.rows THEN place ELSE 0
  BY <1>4, <1>5
<1> QED  BY <1>6 DEF place

LEMMA NewestPage ==
    ASSUME NEW a \in Int, NEW b \in Int
    PROVE  /\ RG!Max({a, b}) \in {a, b} /\ RG!Max({a, b}) >= a /\ RG!Max({a, b}) >= b
           /\ RG!Min({a, b}) \in {a, b} /\ RG!Min({a, b}) <= a /\ RG!Min({a, b}) <= b
<1>1. \E x \in {a, b} : \A y \in {a, b} : x >= y
  <2>1. CASE a >= b
    BY <2>1
  <2>2. CASE b >= a
    BY <2>2
  <2> QED  BY <2>1, <2>2
<1>2. \E x \in {a, b} : \A y \in {a, b} : x =< y
  <2>1. CASE a >= b
    BY <2>1
  <2>2. CASE b >= a
    BY <2>2
  <2> QED  BY <2>1, <2>2
<1> QED  BY <1>1, <1>2 DEF RG!Max, RG!Min

-----------------------------------------------------------------------------
(* The actions. *)

(* Every screen of the results goes through Shown: it is right when its page and menu are ones of  *)
(* the result on it, or marked.                                                                  *)
LEMMA ShownKeeps ==
    ASSUME ResultsInv, NEW list \in Seq(AnyResult),
           NEW active \in Nat \ {0}, list # <<>> => active \in DOMAIN list,
           NEW chart \in BOOLEAN, NEW sort, NEW page \in Nat \ {0}, NEW menu, menu.at \in Nat, NEW of,
           RG!Shown(list, active, chart, sort, page, menu, of), rgResorted' \in BOOLEAN,
           rgExecuting' \in BOOLEAN, rgExecuting' => page = 1 /\ menu = RG!NoMenu,
           RG!Mounted(list, active, chart) /\ RG!Grid /\ of # 0 =>
               of \in DOMAIN list /\ page <= RG!Pages(list[of]),
           RG!Mounted(list, active, chart) /\ ~RG!Grid => page = 1,
           RG!Mounted(list, active, chart) /\ menu # RG!NoMenu /\ ~rgResorted' =>
               menu.row # 0 /\ RG!RowAt(list[active], sort, page, menu.at) = menu.row
    PROVE  ResultsInv'
<1> DEFINE mounted == RG!Mounted(list, active, chart)
<1>1. /\ rgResults' = list /\ rgActive' = active /\ rgChart' = chart
      /\ rgSort' = IF mounted THEN sort ELSE RG!NoSort
      /\ rgPage' = IF mounted THEN page ELSE 1
      /\ rgMenu' = IF mounted THEN menu ELSE RG!NoMenu
      /\ rgPageOf' = IF mounted /\ RG!Grid THEN of ELSE active
  BY DEF RG!Shown
<1>2. RG!Grid' = mounted
  BY <1>1 DEF RG!Grid, RG!Mounted
<1> HIDE DEF mounted
<1>3. ResultsTyped'
  BY <1>1 DEF ResultsInv, ResultsTyped, RG!NoMenu
<1>4. NothingKept'
  BY <1>1, <1>2 DEF NothingKept, RG!NoSort, RG!NoMenu
<1>5. PageOfItsResult'
  <2>1. CASE mounted /\ RG!Grid
    BY <1>1, <1>2, <2>1 DEF PageOfItsResult, RG!Pages, mounted
  <2>2. CASE mounted /\ ~RG!Grid
    <3>1. list # <<>> /\ active \in DOMAIN list /\ list[active].rows > 0
      BY <2>2 DEF mounted, RG!Mounted
    <3>2. list[active].rows \in Nat
      <4>1. list[active] \in AnyResult
        BY <3>1, ElementOfSeq
      <4> QED  BY <4>1 DEF AnyResult
    <3>3. 1 <= RG!Pages(list[active])
      BY <3>1, <3>2, PagesGrow DEF RG!Pages
    <3>4. rgPage' = 1 /\ rgPageOf' = active
      BY <1>1, <2>2 DEF mounted
    <3> QED  BY <1>1, <3>1, <3>3, <3>4 DEF PageOfItsResult, RG!Pages
  <2>3. CASE ~mounted
    BY <1>2, <2>3 DEF PageOfItsResult
  <2> QED  BY <2>1, <2>2, <2>3
<1>6. MenuOnItsRow'
  <2> SUFFICES ASSUME rgMenu' # RG!NoMenu, ~rgResorted'
               PROVE  rgMenu'.row # 0 /\ RG!RowAt(RG!Active, rgSort, rgPage, rgMenu.at)' = rgMenu'.row
    BY DEF MenuOnItsRow, RG!NoMenu
  <2>1. mounted /\ rgMenu' = menu /\ rgSort' = sort /\ rgPage' = page
    BY <1>1
  <2>2. RG!Active' = list[active]
    BY <1>1 DEF RG!Active
  <2> QED  BY <2>1, <2>2 DEF mounted, RG!RowAt, RG!Before, RG!Less, RG!Value
<1> QED  BY <1>3, <1>4, <1>5, <1>6 DEF ResultsInv

LEMMA ShowKeeps ==
    ASSUME ResultsInv, NEW list \in Seq(AnyResult),
           NEW active \in Nat \ {0}, list # <<>> => active \in DOMAIN list,
           NEW chart \in BOOLEAN, NEW sort, NEW page \in Nat \ {0}, NEW menu, menu.at \in Nat, NEW of,
           RG!Show(list, active, chart, sort, page, menu, of),
           rgExecuting' \in BOOLEAN, rgExecuting' => page = 1 /\ menu = RG!NoMenu,
           RG!Mounted(list, active, chart) /\ RG!Grid /\ of # 0 =>
               of \in DOMAIN list /\ page <= RG!Pages(list[of]),
           RG!Mounted(list, active, chart) /\ ~RG!Grid => page = 1,
           RG!Mounted(list, active, chart) /\ menu # RG!NoMenu =>
               menu.row # 0 /\ RG!RowAt(list[active], sort, page, menu.at) = menu.row
    PROVE  ResultsInv'
<1>1. RG!Shown(list, active, chart, sort, page, menu, of) /\ rgResorted' = (rgResorted /\ rgMenu' # RG!NoMenu)
  BY DEF RG!Show
<1>2. rgResorted' \in BOOLEAN
  BY <1>1
<1> QED  BY <1>1, <1>2, ShownKeeps

LEMMA ResultsInit ==
    ASSUME RG!Init
    PROVE  ResultsInv
<1>1. ~RG!Grid /\ rgMenu = RG!NoMenu /\ rgSort = RG!NoSort /\ rgPage = 1
  BY DEF RG!Init, RG!Grid, RG!Mounted
<1>2. ResultsTyped
  <2>1. rgResults = <<>> /\ rgActive = 1 /\ rgPage = 1 /\ rgMenu.at = 0 /\ rgChart = FALSE
        /\ rgExecuting = FALSE /\ rgResorted = FALSE
    BY DEF RG!Init, RG!NoMenu
  <2>2. rgResults \in Seq(AnyResult)
    BY <2>1, EmptySeq
  <2>3. rgChart \in BOOLEAN /\ rgResorted \in BOOLEAN /\ rgExecuting \in BOOLEAN /\ ~rgExecuting
    BY <2>1
  <2> QED  BY <2>1, <2>2, <2>3 DEF ResultsTyped
<1> QED  BY <1>1, <1>2 DEF ResultsInv, NothingKept, PageOfItsResult, MenuOnItsRow

(* Without list, or with the first of a run, nothing of the grid is left. *)
LEMMA EmptiedKeeps ==
    ASSUME ResultsInv, rgExecuting' \in BOOLEAN, RG!Show(<<>>, 1, rgChart, RG!NoSort, 1, RG!NoMenu, 1)
    PROVE  ResultsInv'
<1>1. PICK none : none = <<>>
  OBVIOUS
<1>2. ~RG!Mounted(none, 1, rgChart) /\ rgChart \in BOOLEAN
  BY <1>1 DEF RG!Mounted, ResultsInv, ResultsTyped
<1>3. none \in Seq(AnyResult) /\ RG!NoMenu.at \in Nat /\ RG!Show(none, 1, rgChart, RG!NoSort, 1, RG!NoMenu, 1)
  <2>1. none \in Seq(AnyResult)
    BY <1>1
  <2>2. RG!NoMenu.at \in Nat
    BY DEF RG!NoMenu
  <2> QED  BY <1>1, <2>1, <2>2
<1>4. PICK sort, menu : sort = RG!NoSort /\ menu = RG!NoMenu
  OBVIOUS
<1>5. RG!Show(none, 1, rgChart, sort, 1, menu, 1) /\ menu.at \in Nat /\ (none # <<>> => 1 \in DOMAIN none)
  BY <1>1, <1>3, <1>4
<1> QED  BY <1>2, <1>3, <1>4, <1>5, ShowKeeps

LEMMA RunKeeps ==
    ASSUME ResultsInv, RG!Executed
    PROVE  ResultsInv'
<1>1. rgExecuting /\ rgExecuting' = FALSE /\ rgExecuting' \in BOOLEAN /\ ~rgExecuting'
  BY DEF RG!Executed
<1>2. /\ rgChart \in BOOLEAN /\ rgPage = 1 /\ rgMenu = RG!NoMenu /\ rgMenu.at \in Nat
      /\ rgResults \in Seq(AnyResult) /\ rgActive \in Nat \ {0} /\ (rgResults # <<>> => rgActive \in DOMAIN rgResults)
  BY <1>1 DEF ResultsInv, ResultsTyped
<1>3. ASSUME NEW n \in 1..2, NEW list \in [1..n -> RG!Results],
             RG!Show(list, 1, rgChart, rgSort, rgPage, rgMenu, 1)
      PROVE  ResultsInv'
  <2>1. RG!Results \subseteq AnyResult
    <3> SUFFICES ASSUME NEW r \in RG!Results
                 PROVE  r \in AnyResult
      OBVIOUS
    <3> QED  BY ResultsAssumption DEF RG!Results, AnyResult
  <2>2. list \in [1..n -> AnyResult] /\ n \in Nat /\ n > 0
    BY <2>1
  <2>3. list \in Seq(AnyResult) /\ 1 \in DOMAIN list
    BY <2>2, IsASeq
  <2>4. list[1].rows > 0 => 1 <= RG!Pages(list[1])
    <3>1. list[1] \in AnyResult
      BY <2>3, ElementOfSeq
    <3>2. list[1].rows \in Nat
      BY <3>1 DEF AnyResult
    <3> QED  BY <3>2, PagesGrow DEF RG!Pages
  <2>5. RG!Mounted(list, 1, rgChart) => list[1].rows > 0
    BY DEF RG!Mounted
  <2> QED  BY <1>1, <1>2, <1>3, <2>3, <2>4, <2>5, ShowKeeps
<1>4. CASE RG!Show(<<>>, 1, rgChart, RG!NoSort, 1, RG!NoMenu, 1)
  BY <1>1, <1>4, EmptiedKeeps
<1>5. CASE RG!Show(rgResults, rgActive, rgChart, rgSort, rgPage, rgMenu, rgPageOf)
  <2>1. RG!Grid /\ rgPageOf # 0 => rgPageOf \in DOMAIN rgResults /\ rgPage <= RG!Pages(rgResults[rgPageOf])
    BY DEF ResultsInv, PageOfItsResult
  <2> QED  BY <1>1, <1>2, <1>5, <2>1, ShowKeeps
<1> QED  BY <1>3, <1>4, <1>5 DEF RG!Executed

LEMMA UnchangedKeeps ==
    ASSUME ResultsInv, UNCHANGED <<rgResults, rgActive, rgChart, rgExecuting, rgSort, rgPage, rgMenu, rgPageOf, rgResorted>>
    PROVE  ResultsInv'
<1>1. RG!Grid' = RG!Grid /\ RG!Active' = RG!Active
  BY DEF RG!Grid, RG!Mounted, RG!Active
<1>2. RG!RowAt(RG!Active, rgSort, rgPage, rgMenu.at)' = RG!RowAt(RG!Active, rgSort, rgPage, rgMenu.at)
  BY <1>1 DEF RG!RowAt, RG!Before, RG!Less, RG!Value
<1>3. ResultsTyped'
  BY DEF ResultsInv, ResultsTyped
<1>4. NothingKept' /\ PageOfItsResult' /\ MenuOnItsRow'
  BY <1>1, <1>2 DEF ResultsInv, NothingKept, PageOfItsResult, MenuOnItsRow, RG!NoSort, RG!NoMenu, RG!Pages
<1> QED  BY <1>3, <1>4 DEF ResultsInv

(* The sort panel replaces the rows of any grid, and marks it. *)
LEMMA SortPanelKeeps ==
    ASSUME ResultsInv, RG!Sorted
    PROVE  ResultsInv'
<1>1. ASSUME NEW result \in RG!Results, RG!Shown(<<result>>, 1, rgChart, rgSort, rgPage, rgMenu, 0),
             rgResorted' = (rgMenu' # RG!NoMenu), rgExecuting' = rgExecuting
      PROVE  ResultsInv'
  <2>1. result \in AnyResult
    BY ResultsAssumption DEF RG!Results, AnyResult
  <2>2. PICK list : list = <<result>>
    OBVIOUS
  <2>3. list \in Seq(AnyResult) /\ 1 \in DOMAIN list
    BY <2>1, <2>2
  <2>4. /\ rgChart \in BOOLEAN /\ rgPage \in Nat \ {0} /\ rgMenu.at \in Nat /\ rgExecuting \in BOOLEAN
        /\ (rgExecuting => rgPage = 1 /\ rgMenu = RG!NoMenu) /\ (~RG!Grid => rgPage = 1)
    BY DEF ResultsInv, ResultsTyped, NothingKept
  <2>5. rgResorted' \in BOOLEAN /\ RG!Shown(list, 1, rgChart, rgSort, rgPage, rgMenu, 0)
    BY <1>1, <2>2
  <2>6. RG!Mounted(list, 1, rgChart) => rgMenu' = rgMenu
    BY <2>5 DEF RG!Shown
  <2>7. rgExecuting' \in BOOLEAN /\ (rgExecuting' => rgPage = 1 /\ rgMenu = RG!NoMenu)
    BY <1>1, <2>4
  <2>8. RG!Mounted(list, 1, rgChart) /\ rgMenu # RG!NoMenu => rgResorted'
    BY <1>1, <2>6
  <2> QED  BY <2>3, <2>4, <2>5, <2>7, <2>8, ShownKeeps
<1>2. CASE UNCHANGED <<rgResults, rgActive, rgChart, rgExecuting, rgSort, rgPage, rgMenu, rgPageOf, rgResorted>>
  BY <1>2, UnchangedKeeps
<1> QED  BY <1>1, <1>2 DEF RG!Sorted

(* What is chosen outside the grid closes the menu and leaves the page. *)
LEMMA ChosenKeeps ==
    ASSUME ResultsInv, NEW active \in DOMAIN rgResults, NEW chart \in BOOLEAN, rgExecuting' = rgExecuting,
           RG!Show(rgResults, active, chart, rgSort, rgPage, RG!Closed(rgMenu), rgPageOf)
    PROVE  ResultsInv'
<1>1. RG!Closed(rgMenu) = RG!NoMenu /\ active \in Nat \ {0} /\ RG!NoMenu.at \in Nat
  BY DEF RG!Closed, RG!NoMenu, ResultsInv, ResultsTyped
<1>2. rgResults # <<>>
  BY DEF ResultsInv, ResultsTyped
<1> QED  BY <1>1, <1>2, ShowKeeps DEF ResultsInv, ResultsTyped, NothingKept, PageOfItsResult

LEMMA GrownResult ==
    ASSUME NEW result \in AnyResult, NEW n \in Nat, NEW more \in BOOLEAN
    PROVE  LET new == [result EXCEPT !.rows = @ + n, !.more = more]
           IN  new \in AnyResult /\ new.rows = result.rows + n /\ new.column = result.column
<1> DEFINE new == [result EXCEPT !.rows = @ + n, !.more = more]
           longer == [result EXCEPT !.rows = @ + n]
<1>1. PICK c \in {1, 2}, r \in Nat, m \in BOOLEAN : result = [column |-> c, rows |-> r, more |-> m]
  BY DEF AnyResult
<1>2. longer = [column |-> c, rows |-> r + n, more |-> m]
  BY <1>1
<1>3. new = [longer EXCEPT !.more = more]
  OBVIOUS
<1> HIDE DEF new, longer
<1>4. new = [column |-> c, rows |-> r + n, more |-> more]
  BY <1>2, <1>3
<1>5. r + n \in Nat /\ result.rows = r /\ result.column = c
  BY <1>1
<1>6. new \in AnyResult /\ new.rows = r + n /\ new.column = c
  BY <1>4, <1>5 DEF AnyResult
<1> QED  BY <1>5, <1>6 DEF new

LEMMA MoreRowsKeep ==
    ASSUME ResultsInv, NEW i, RG!MoreRows(i)
    PROVE  ResultsInv'
<1> DEFINE grown(n, more) == IF i \in DOMAIN rgResults
                              THEN [rgResults EXCEPT ![i].rows = @ + n, ![i].more = more] ELSE rgResults
           sorted == i = rgActive /\ i \in DOMAIN rgResults /\ rgSort.key = RG!Active.column
<1>1. PICK n \in 0..ChunkRows, more \in BOOLEAN :
        /\ rgResults' = grown(n, more)
        /\ rgPageOf' = IF RG!Grid \/ ~RG!Mounted(grown(n, more), rgActive, rgChart) THEN rgPageOf ELSE rgActive
        /\ rgResorted' = (rgResorted \/ (sorted /\ rgMenu # RG!NoMenu))
  BY DEF RG!MoreRows
<1>2. UNCHANGED <<rgActive, rgChart, rgExecuting, rgSort, rgPage, rgMenu>>
  BY DEF RG!MoreRows
<1>3. /\ Len(rgResults') = Len(rgResults) /\ DOMAIN rgResults' = DOMAIN rgResults
      /\ (rgResults' = <<>>) = (rgResults = <<>>)
      /\ rgResults' \in Seq(AnyResult)
  <2>1. CASE i \notin DOMAIN rgResults
    BY <1>1, <2>1 DEF ResultsInv, ResultsTyped
  <2>2. CASE i \in DOMAIN rgResults
    <3>1. rgResults[i] \in AnyResult /\ n \in Nat
      BY <2>2, ElementOfSeq, ResultsAssumption DEF ResultsInv, ResultsTyped
    <3>2. [rgResults[i] EXCEPT !.rows = @ + n, !.more = more] \in AnyResult
      BY <3>1, GrownResult
    <3>3. rgResults' = [rgResults EXCEPT ![i] = [rgResults[i] EXCEPT !.rows = @ + n, !.more = more]]
      BY <1>1, <2>2, <3>1 DEF AnyResult
    <3> QED  BY <2>2, <3>2, <3>3, ExceptSeq DEF ResultsInv, ResultsTyped
  <2> QED  BY <2>1, <2>2
<1>4. ASSUME NEW k \in DOMAIN rgResults
      PROVE  /\ rgResults[k].rows \in Nat /\ rgResults'[k].rows \in Nat
             /\ rgResults[k].rows <= rgResults'[k].rows /\ rgResults'[k].column = rgResults[k].column
             /\ k # i => rgResults'[k] = rgResults[k]
  <2>1. rgResults[k] \in AnyResult /\ n \in Nat
    BY ElementOfSeq, ResultsAssumption DEF ResultsInv, ResultsTyped
  <2>2. rgResults[k].rows \in Nat /\ rgResults[k].rows + n \in Nat /\ rgResults[k].rows <= rgResults[k].rows + n
    BY <2>1 DEF AnyResult
  <2>3. CASE k = i
    <3>1. rgResults'[k] = [rgResults[k] EXCEPT !.rows = @ + n, !.more = more]
      BY <1>1, <2>3
    <3> DEFINE new == [rgResults[k] EXCEPT !.rows = @ + n, !.more = more]
    <3>3. new.rows = rgResults[k].rows + n /\ new.column = rgResults[k].column
      BY <2>1, GrownResult
    <3> HIDE DEF new
    <3>2. rgResults'[k].rows = rgResults[k].rows + n /\ rgResults'[k].column = rgResults[k].column
      BY <3>1, <3>3 DEF new
    <3> QED  BY <2>2, <2>3, <3>2
  <2>4. CASE k # i
    <3>1. rgResults'[k] = rgResults[k]
      BY <1>1, <2>4
    <3> QED  BY <2>2, <3>1
  <2> QED  BY <2>3, <2>4
<1> HIDE DEF grown
<1>5. ResultsTyped'
  BY <1>1, <1>2, <1>3 DEF ResultsInv, ResultsTyped
<1>6. RG!Grid => RG!Grid'
  BY <1>2, <1>3, <1>4 DEF RG!Grid, RG!Mounted, ResultsInv, ResultsTyped
<1>7. NothingKept'
  BY <1>2, <1>6 DEF ResultsInv, NothingKept, RG!NoSort, RG!NoMenu
<1>8. PageOfItsResult'
  <2>1. CASE RG!Grid
    <3> SUFFICES ASSUME rgPageOf' # 0
                 PROVE  PageOfItsResult'
      BY DEF PageOfItsResult
    <3>1. rgPageOf \in DOMAIN rgResults /\ rgPage <= RG!Pages(rgResults[rgPageOf]) /\ rgPageOf' = rgPageOf
      BY <1>1, <2>1 DEF ResultsInv, PageOfItsResult
    <3>2. RG!Pages(rgResults[rgPageOf]) <= RG!Pages(rgResults'[rgPageOf])
          /\ RG!Pages(rgResults[rgPageOf]) \in Nat /\ RG!Pages(rgResults'[rgPageOf]) \in Nat
      BY <1>4, <3>1, PagesGrow DEF RG!Pages
    <3>3. rgPage <= RG!Pages(rgResults'[rgPageOf])
      BY <3>1, <3>2 DEF ResultsInv, ResultsTyped
    <3> QED  BY <1>2, <1>3, <3>1, <3>3 DEF PageOfItsResult, RG!Pages
  <2>2. CASE ~RG!Grid /\ RG!Grid'
    <3>1. rgPage = 1 /\ rgResults' # <<>> /\ rgResults'[rgActive].rows > 0 /\ rgActive \in DOMAIN rgResults'
      BY <1>2, <1>3, <2>2 DEF ResultsInv, ResultsTyped, NothingKept, RG!Grid, RG!Mounted
    <3>2. rgPageOf' = rgActive
      BY <1>1, <1>2, <2>2 DEF RG!Grid, RG!Mounted
    <3>3. 1 <= RG!Pages(rgResults'[rgActive])
      BY <1>3, <1>4, <3>1, PagesGrow DEF RG!Pages
    <3> QED  BY <1>2, <3>1, <3>2, <3>3 DEF PageOfItsResult, RG!Pages
  <2>3. CASE ~RG!Grid'
    BY <2>3 DEF PageOfItsResult
  <2> QED  BY <2>1, <2>2, <2>3
<1>9. MenuOnItsRow'
  <2> SUFFICES ASSUME rgMenu # RG!NoMenu, ~rgResorted'
               PROVE  rgMenu.row # 0 /\ RG!RowAt(RG!Active, rgSort, rgPage, rgMenu.at)' = rgMenu.row
    BY <1>2 DEF MenuOnItsRow, RG!NoMenu
  <2>1. ~rgResorted /\ ~sorted
    BY <1>1
  <2>2. RG!Grid /\ rgActive \in DOMAIN rgResults
    BY DEF ResultsInv, ResultsTyped, NothingKept, RG!Grid, RG!Mounted
  <2>3. rgMenu.row # 0 /\ RG!RowAt(RG!Active, rgSort, rgPage, rgMenu.at) = rgMenu.row
    BY <2>1 DEF ResultsInv, MenuOnItsRow
  <2>4. RG!RowAt(RG!Active, rgSort, rgPage, rgMenu.at)' = RG!RowAt(RG!Active', rgSort, rgPage, rgMenu.at)
    BY <1>2 DEF RG!RowAt, RG!Before, RG!Less, RG!Value
  <2>5. CASE i # rgActive
    <3>1. RG!Active' = RG!Active
      BY <1>2, <1>4, <2>2, <2>5 DEF RG!Active
    <3> QED  BY <2>3, <2>4, <3>1
  <2>6. CASE rgSort.key # RG!Active.column
    <3> DEFINE place == (rgPage - 1) * PageRows + rgMenu.at
    <3>1. RG!RowAt(RG!Active, rgSort, rgPage, rgMenu.at) = IF place \in 1..RG!Active.rows THEN place ELSE 0
      BY <1>4, <2>2, <2>6, UnsortedRow DEF RG!Active, ResultsInv, ResultsTyped
    <3>2. RG!RowAt(RG!Active', rgSort, rgPage, rgMenu.at) = IF place \in 1..RG!Active'.rows THEN place ELSE 0
      BY <1>2, <1>4, <2>2, <2>6, UnsortedRow DEF RG!Active, ResultsInv, ResultsTyped
    <3>3. RG!Active.rows <= RG!Active'.rows /\ RG!Active.rows \in Nat /\ RG!Active'.rows \in Nat
      BY <1>2, <1>4, <2>2 DEF RG!Active
    <3> QED  BY <2>3, <2>4, <3>1, <3>2, <3>3
  <2> QED  BY <2>1, <2>2, <2>5, <2>6
<1> QED  BY <1>5, <1>7, <1>8, <1>9 DEF ResultsInv


LEMMA RequestSortKeeps ==
    ASSUME ResultsInv, RG!RequestSort
    PROVE  ResultsInv'
<1>1. rgActive \in DOMAIN rgResults /\ rgResults[rgActive].rows > 0 /\ rgActive \in Nat \ {0} /\ rgResults # <<>>
  BY DEF RG!RequestSort, RG!Grid, RG!Mounted, ResultsInv, ResultsTyped
<1>2. rgResults[rgActive].rows \in Nat
  <2>1. rgResults[rgActive] \in AnyResult
    BY <1>1, ElementOfSeq DEF ResultsInv, ResultsTyped
  <2> QED  BY <2>1 DEF AnyResult
<1>3. 1 <= RG!Pages(rgResults[rgActive])
  BY <1>1, <1>2, PagesGrow DEF RG!Pages
<1>4. rgExecuting' = rgExecuting /\ RG!Closed(rgMenu) = RG!NoMenu /\ RG!NoMenu.at \in Nat
  BY DEF RG!RequestSort, RG!Closed, RG!NoMenu
<1>5. PICK sort : RG!Show(rgResults, rgActive, rgChart, sort, 1, RG!Closed(rgMenu), rgActive)
  BY DEF RG!RequestSort
<1>6. rgChart \in BOOLEAN /\ rgExecuting' \in BOOLEAN /\ ~rgExecuting'
  BY <1>1, <1>4 DEF RG!RequestSort, ResultsInv, ResultsTyped
<1>7. rgResults \in Seq(AnyResult)
  BY DEF ResultsInv, ResultsTyped
<1> QED  BY <1>1, <1>3, <1>4, <1>5, <1>6, <1>7, ShowKeeps

(* What happens in the grid is right when the page is one of the result it is chosen for, and the  *)
(* menu is closed or on its row.                                                                 *)
LEMMA InGridKeeps ==
    ASSUME ResultsInv, NEW page \in Nat \ {0}, NEW menu, menu.at \in Nat, NEW of,
           RG!InGrid(page, menu, of),
           of # 0 => of \in DOMAIN rgResults /\ page <= RG!Pages(rgResults[of]),
           menu # RG!NoMenu => menu.row # 0 /\ RG!RowAt(RG!Active, rgSort, page, menu.at) = menu.row
    PROVE  ResultsInv'
<1>1. rgActive \in DOMAIN rgResults /\ rgActive \in Nat \ {0} /\ rgResults # <<>> /\ RG!Grid
      /\ rgResults \in Seq(AnyResult) /\ rgChart \in BOOLEAN
  BY DEF RG!InGrid, RG!Grid, RG!Mounted, ResultsInv, ResultsTyped
<1>2. RG!Show(rgResults, rgActive, rgChart, rgSort, page, menu, of) /\ rgExecuting' = rgExecuting
  BY DEF RG!InGrid
<1>3. rgExecuting' \in BOOLEAN /\ ~rgExecuting'
  BY <1>1, <1>2 DEF RG!InGrid, ResultsInv, ResultsTyped
<1> QED  BY <1>1, <1>2, <1>3, ShowKeeps DEF RG!Active

(* Of a result on the screen the pages are a number. *)
LEMMA ActivePages ==
    ASSUME ResultsInv, RG!Grid
    PROVE  /\ rgActive \in DOMAIN rgResults /\ RG!Pages(RG!Active) \in Nat /\ RG!Active = rgResults[rgActive]
           /\ rgPage \in Nat \ {0} /\ rgActive \in Nat \ {0}
           /\ rgPageOf # 0 => /\ rgPageOf \in DOMAIN rgResults /\ rgPage <= RG!Pages(rgResults[rgPageOf])
                              /\ RG!Pages(rgResults[rgPageOf]) \in Nat
           /\ RG!Closed(rgMenu) = RG!NoMenu /\ RG!NoMenu.at \in Nat
<1>1. /\ rgActive \in DOMAIN rgResults /\ RG!Active = rgResults[rgActive] /\ rgActive \in Nat \ {0}
      /\ rgPageOf # 0 => rgPageOf \in DOMAIN rgResults
  BY DEF RG!Grid, RG!Mounted, RG!Active, ResultsInv, ResultsTyped, PageOfItsResult
<1>2. ASSUME NEW k \in DOMAIN rgResults
      PROVE  RG!Pages(rgResults[k]) \in Nat
  <2>1. rgResults[k] \in AnyResult
    BY ElementOfSeq DEF ResultsInv, ResultsTyped
  <2>2. rgResults[k].rows \in Nat
    BY <2>1 DEF AnyResult
  <2> QED  BY <2>2, PagesGrow DEF RG!Pages
<1>3. rgPage \in Nat \ {0} /\ (rgPageOf # 0 => rgPage <= RG!Pages(rgResults[rgPageOf]))
  BY DEF ResultsInv, ResultsTyped, PageOfItsResult
<1>4. RG!Closed(rgMenu) = RG!NoMenu /\ RG!NoMenu.at \in Nat
  BY DEF RG!Closed, RG!NoMenu
<1> QED  BY <1>1, <1>2, <1>3, <1>4

LEMMA TurnsKeep ==
    ASSUME ResultsInv, RG!PrevPage \/ RG!NextPage
    PROVE  ResultsInv'
<1>1. RG!Grid
  BY DEF RG!PrevPage, RG!NextPage
<1>2. CASE RG!PrevPage
  <2> DEFINE page == RG!Max({1, rgPage - 1})
             of == IF rgPage > RG!Pages(RG!Active) THEN rgPageOf ELSE rgActive
  <2>1. RG!InGrid(page, RG!NoMenu, of) /\ rgPage # 1
    BY <1>1, <1>2, ActivePages DEF RG!PrevPage
  <2>2. page \in Nat \ {0} /\ page <= rgPage
    <3>1. rgPage \in Nat \ {0} /\ rgPage # 1
      BY <1>1, <2>1, ActivePages
    <3>2. page \in {1, rgPage - 1} /\ page >= 1 /\ page >= rgPage - 1
      BY <3>1, NewestPage
    <3> HIDE DEF page
    <3> QED  BY <3>1, <3>2
  <2> HIDE DEF page
  <2>3. of # 0 => of \in DOMAIN rgResults /\ page <= RG!Pages(rgResults[of])
    BY <1>1, <2>2, ActivePages
  <2> HIDE DEF of
  <2> QED  BY <1>1, <2>1, <2>2, <2>3, ActivePages, InGridKeeps
<1>3. CASE RG!NextPage
  <2> DEFINE page == RG!Min({RG!Pages(RG!Active), rgPage + 1})
  <2>1. RG!InGrid(page, RG!NoMenu, rgActive) /\ RG!Pages(RG!Active) > 1
    BY <1>1, <1>3, ActivePages DEF RG!NextPage
  <2>2. page \in Nat \ {0} /\ page <= RG!Pages(RG!Active)
    <3>1. rgPage \in Nat \ {0} /\ RG!Pages(RG!Active) \in Nat
      BY <1>1, ActivePages
    <3>2. page \in {RG!Pages(RG!Active), rgPage + 1} /\ page <= RG!Pages(RG!Active)
      <4>1. RG!Pages(RG!Active) \in Int /\ rgPage + 1 \in Int
        BY <3>1
      <4> QED  BY <4>1, NewestPage
    <3> HIDE DEF page
    <3> QED  BY <2>1, <3>1, <3>2
  <2> HIDE DEF page
  <2> QED  BY <1>1, <2>1, <2>2, ActivePages, InGridKeeps
<1> QED  BY <1>2, <1>3

LEMMA MenuKeeps ==
    ASSUME ResultsInv, RG!CloseMenu \/ \E at \in 1..PageRows : RG!OpenMenu(at)
    PROVE  ResultsInv'
<1>1. CASE RG!CloseMenu
  <2>1. RG!InGrid(rgPage, RG!Closed(rgMenu), rgPageOf) /\ RG!Grid
    BY <1>1 DEF RG!CloseMenu, RG!InGrid
  <2> QED  BY <2>1, ActivePages, InGridKeeps
<1>2. ASSUME NEW at \in 1..PageRows, RG!OpenMenu(at)
      PROVE  ResultsInv'
  <2> DEFINE row  == RG!RowAt(RG!Active, rgSort, rgPage, at)
             menu == [at |-> at, row |-> row]
  <2>1. row # 0 /\ RG!InGrid(rgPage, menu, rgPageOf) /\ RG!Grid
    BY <1>2 DEF RG!OpenMenu
  <2>2. at \in Nat /\ menu.at = at /\ menu.row = row
    BY ResultsAssumption
  <2> HIDE DEF menu
  <2> QED  BY <2>1, <2>2, ActivePages, InGridKeeps
<1> QED  BY <1>1, <1>2

LEMMA ResultsNext ==
    ASSUME ResultsInv, RG!Next \/ UNCHANGED results
    PROVE  ResultsInv'
<1>1. CASE RG!Execute
  <2>1. rgExecuting' \in BOOLEAN
    BY <1>1 DEF RG!Execute
  <2> QED  BY <1>1, <2>1, EmptiedKeeps DEF RG!Execute
<1>2. CASE RG!Executed
  BY <1>2, RunKeeps
<1>3. CASE RG!SetResultsView
  <2>1. rgActive \in DOMAIN rgResults /\ (~rgChart) \in BOOLEAN
    BY <1>3 DEF RG!SetResultsView, ResultsInv, ResultsTyped
  <2> QED  BY <1>3, <2>1, ChosenKeeps DEF RG!SetResultsView
<1>4. CASE RG!ClearResults
  <2>1. rgExecuting' \in BOOLEAN
    BY <1>4 DEF RG!ClearResults, ResultsInv, ResultsTyped
  <2> QED  BY <1>4, <2>1, EmptiedKeeps DEF RG!ClearResults
<1>5. CASE RG!LoadMore
  <2>1. rgActive \in DOMAIN rgResults /\ rgChart \in BOOLEAN
    BY <1>5 DEF RG!LoadMore, ResultsInv, ResultsTyped
  <2> QED  BY <1>5, <2>1, ChosenKeeps DEF RG!LoadMore
<1>6. ASSUME NEW i \in DOMAIN rgResults, RG!SelectResult(i)
      PROVE  ResultsInv'
  <2>1. rgChart \in BOOLEAN
    BY DEF ResultsInv, ResultsTyped
  <2> QED  BY <1>6, <2>1, ChosenKeeps DEF RG!SelectResult
<1>7. ASSUME NEW i \in rgAsked, RG!MoreRows(i) \/ RG!LoadFails(i)
      PROVE  ResultsInv'
  <2>1. CASE RG!LoadFails(i)
    BY <2>1, UnchangedKeeps DEF RG!LoadFails
  <2> QED  BY <1>7, <2>1, MoreRowsKeep
<1>8. CASE UNCHANGED results
  BY <1>8, UnchangedKeeps DEF results
<1>9. CASE RG!ApplySort
  <2>1. rgActive \in DOMAIN rgResults /\ rgChart \in BOOLEAN
    BY <1>9 DEF RG!ApplySort, ResultsInv, ResultsTyped
  <2> QED  BY <1>9, <2>1, ChosenKeeps DEF RG!ApplySort
<1> QED  BY <1>1, <1>2, <1>3, <1>4, <1>5, <1>6, <1>7, <1>8, <1>9, SortPanelKeeps, RequestSortKeeps, TurnsKeep, MenuKeeps DEF RG!Next

-----------------------------------------------------------------------------

(* The menu of a cell copies the row it was opened on, and a page chosen for the result on the     *)
(* screen has rows, for results of any number and length, chunks and pages of any size and any     *)
(* number of clicks.  Excused are a menu under which a load sorted rows in or the sort panel        *)
(* replaced them, and a page of another result or of one the sort panel replaced, until a page is   *)
(* chosen again (SimpleDataTable contextMenu.rowIdx, currentPage; SortPanel onApply).              *)
THEOREM LooksStay == Spec => []LookedAtStays
<1> DEFINE Inv == view = "results" => ResultsInv
<1>1. Init => Inv
  BY ResultsInit DEF Init
<1>2. Inv /\ [Next]_vars => Inv'
  <2>1. CASE view = "results"
    BY <2>1, ResultsNext, OthersKeep
  <2>2. CASE view # "results"
    BY <2>2, OthersKeep
  <2> QED  BY <2>1, <2>2
<1>3. Inv => LookedAtStays
  <2> SUFFICES ASSUME ResultsInv
               PROVE  RG!LookedAtStays
    BY DEF LookedAtStays
  <2>1. rgMenu # RG!NoMenu /\ ~rgResorted => RG!RowAt(RG!Active, rgSort, rgPage, rgMenu.at) = rgMenu.row
    BY DEF ResultsInv, MenuOnItsRow
  <2>2. RG!Grid /\ rgPageOf = rgActive => rgPage \in 1..RG!Pages(RG!Active)
    BY ActivePages
  <2> QED  BY <2>1, <2>2 DEF RG!LookedAtStays
<1> QED  BY <1>1, <1>2, <1>3, PTL DEF Spec

=============================================================================
