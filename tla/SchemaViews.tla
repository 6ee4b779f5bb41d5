----------------------------- MODULE SchemaViews ------------------------------
(***************************************************************************)
(* The schemas the web client shows: the one of the active connection (App:  *)
(* schemaData), the tree of the connections with a schema each               *)
(* (DbExplorerSidebar: schemaByDb) and the tables the diagnostics tab offers  *)
(* (PerfDiagnosticsPanel).  A schema stands for the connection it came from.  *)
(* Switching changes the active connection first and the schema later, and   *)
(* in between the tree keeps the old schema under the new connection.        *)
(***************************************************************************)
EXTENDS Integers, FiniteSets

CONSTANTS Connections,  \* the ids of the connections, positive
          MaxShows      \* bound on the clicks


None == 0
File == -1   \* the schema of an uploaded file

VARIABLES svStored,      \* the active connection in the configuration of the server
          svActive, svSchema,              \* active_db_id, schemaData
          svTree, svTreeAsked, svExpanded, \* schemaByDb, loadingSchemaByDb, expanded
          svVisible,                       \* isActive: the diagnostics tab is in front
          svPick, svTables, svTablesLoading, svTablesAsked,  \* selectedDbId, tables, ...
          svAsked,       \* requests of App under way
          svClicks,
          svMixed        \* a mark of the model: the answers to App overlapped, failed, or were for another connection

svVars == <<svStored, svActive, svSchema, svTree, svTreeAsked, svExpanded, svVisible, svPick, svTables,
            svTablesLoading, svTablesAsked, svAsked, svClicks, svMixed>>
tree == <<svTreeAsked, svExpanded>>
perf == <<svVisible, svPick, svTables, svTablesLoading, svTablesAsked>>

Init ==
    /\ svStored \in Connections /\ svActive = svStored /\ svSchema \in {None, svStored}
    /\ svTree = [d \in Connections |-> IF d = svActive THEN svSchema ELSE None]
    /\ svTreeAsked = {} /\ svExpanded = {}
    /\ svVisible = FALSE /\ svPick = svActive /\ svTables = None /\ svTablesLoading = FALSE
    /\ svTablesAsked = {} /\ svAsked = {} /\ svClicks = 0
    /\ svMixed = FALSE

Click == svClicks < MaxShows /\ svClicks' = svClicks + 1

-----------------------------------------------------------------------------
(* Effects. *)

(* Mutant: the answer for another connection still comes. *)
KeptTables(asked) == asked

(* The cancelled flag of the effect. *)
Dropped(asked) == {}

(* The effect that fills the tables: the schema of App for the active connection, a request else.   *)
(* It leaves the loading flag alone when it needs no request.                                      *)
OfferTables(pick, visible, active, schema) ==
    /\ svPick' = pick /\ svVisible' = visible
    /\ \/ /\ ~visible
          /\ svTablesAsked' = Dropped(svTablesAsked) /\ UNCHANGED <<svTables, svTablesLoading>>
       \/ /\ visible /\ pick = active /\ schema # None
          /\ svTables' = schema /\ svTablesAsked' = Dropped(svTablesAsked) /\ UNCHANGED svTablesLoading
       \/ /\ visible /\ (pick # active \/ schema = None)
          /\ svTablesLoading' = TRUE /\ svTablesAsked' = Dropped(svTablesAsked) \cup {pick}
          /\ UNCHANGED svTables

(* The active connection or the schema of App changes: the tree keeps the one under the other. *)
Show(active, schema) ==
    /\ svActive' = active /\ svSchema' = schema
    /\ svTree' = IF schema = None THEN svTree ELSE [svTree EXCEPT ![active] = schema]
    /\ OfferTables(svPick, svVisible, active, schema)

-----------------------------------------------------------------------------
(* App. *)

Request(kind, phase, d) == [kind |-> kind, phase |-> phase, db |-> d]
Ask(r) == svAsked' = svAsked \cup {r} /\ svMixed' = svMixed

(* switchActiveDbFromSidebar: the configuration is stored, then initData reads it and the schema. *)
Switch(d) == Ask(Request("switch", "store", d))

(* initData *)
Stores(r) ==
    /\ r.phase = "store"
    /\ \/ svStored' = r.db /\ svAsked' = (svAsked \ {r}) \cup {[r EXCEPT !.phase = "config"]}
       \/ svStored' \in {svStored, r.db} /\ svAsked' = svAsked \ {r}
    /\ UNCHANGED <<svActive, svSchema, svTree, tree, perf, svClicks, svMixed>>

ThenSchema(r) == (svAsked \ {r}) \cup {[r EXCEPT !.phase = "schema", !.db = svStored]}

ConfigRead(r) ==
    /\ r.phase = "config"
    /\ svAsked' \in {ThenSchema(r), svAsked \ {r}}
    /\ IF svAsked' = ThenSchema(r) /\ svStored # svActive THEN Show(svStored, svSchema)
       ELSE UNCHANGED <<svActive, svSchema, svTree, perf>>
    /\ UNCHANGED <<svStored, tree, svClicks, svMixed>>

(* setSchemaData *)
SchemaRead(r) ==
    /\ r.phase = "schema" /\ svAsked' = svAsked \ {r}
    /\ \/ /\ Show(svActive, r.db)
          /\ svMixed' = (svMixed \/ r.db # svActive \/ (\E q \in svAsked' : q.phase # "run"))
       \/ svMixed' = TRUE /\ UNCHANGED <<svActive, svSchema, svTree, perf>>
    /\ UNCHANGED <<svStored, tree, svClicks>>

(* onRefreshSchema: its button is disabled as long as it refreshes. *)
Refresh ==
    /\ Click /\ (\A r \in svAsked : r.kind # "refresh")
    /\ Ask(Request("refresh", "schema", svActive))
    /\ UNCHANGED <<svStored, svActive, svSchema, svTree, tree, perf>>

(* A run that changes the schema, or a transaction that is committed: the schema of the connection it *)
(* began on is read when it ends.                                                                     *)
Run ==
    /\ Click /\ (\A r \in svAsked : r.kind # "run")
    /\ Ask(Request("run", "run", svActive))
    /\ UNCHANGED <<svStored, svActive, svSchema, svTree, tree, perf>>
RunEnds(r) ==
    /\ r.phase = "run"
    /\ svAsked' \in {svAsked \ {r}, (svAsked \ {r}) \cup {[r EXCEPT !.phase = "schema"]}}
    /\ UNCHANGED <<svStored, svActive, svSchema, svTree, tree, perf, svClicks, svMixed>>

(* handleSqlUpload *)
Upload ==
    /\ Click /\ Ask(Request("upload", "schema", File))
    /\ UNCHANGED <<svStored, svActive, svSchema, svTree, tree, perf>>

-----------------------------------------------------------------------------
(* The tree. *)

(* setExpandedState, loadSchemaByDbId *)
Expand(d, nextExpanded) ==
    /\ svExpanded' = IF nextExpanded THEN svExpanded \cup {d} ELSE svExpanded \ {d}
    /\ svTreeAsked' = IF nextExpanded /\ svTree[d] = None THEN svTreeAsked \cup {d} ELSE svTreeAsked

Chevron(d) ==
    /\ Click /\ Expand(d, d \notin svExpanded)
    /\ UNCHANGED <<svStored, svActive, svSchema, svTree, perf, svAsked, svMixed>>

(* handleConnectionClick *)
ClickConnection(d) ==
    /\ Click
    /\ IF d = svActive THEN Expand(d, d \notin svExpanded) /\ UNCHANGED <<svAsked, svMixed>>
       ELSE Expand(d, TRUE) /\ Switch(d)
    /\ UNCHANGED <<svStored, svActive, svSchema, svTree, perf>>

TreeAnswered(d) ==
    /\ d \in svTreeAsked /\ svTreeAsked' = svTreeAsked \ {d}
    /\ svTree' \in {svTree, [svTree EXCEPT ![d] = d]}
    /\ UNCHANGED <<svStored, svActive, svSchema, svExpanded, perf, svAsked, svClicks, svMixed>>

-----------------------------------------------------------------------------
(* The diagnostics tab. *)

Front ==
    /\ Click /\ OfferTables(svPick, ~svVisible, svActive, svSchema)
    /\ UNCHANGED <<svStored, svActive, svSchema, svTree, tree, svAsked, svMixed>>
PickDb(d) ==
    /\ svVisible /\ d # svPick /\ Click
    /\ OfferTables(d, svVisible, svActive, svSchema)
    /\ UNCHANGED <<svStored, svActive, svSchema, svTree, tree, svAsked, svMixed>>
TablesAnswered(d) ==
    /\ d \in svTablesAsked /\ svTablesAsked' = svTablesAsked \ {d}
    /\ svTables' \in {d, None} /\ svTablesLoading' = FALSE
    /\ UNCHANGED <<svStored, svActive, svSchema, svTree, tree, svVisible, svPick, svAsked, svClicks, svMixed>>

Answered(r) == Stores(r) \/ ConfigRead(r) \/ SchemaRead(r) \/ RunEnds(r)

Next ==
    \/ Refresh \/ Run \/ Upload \/ Front
    \/ \E d \in Connections : Chevron(d) \/ ClickConnection(d) \/ TreeAnswered(d) \/ PickDb(d) \/ TablesAnswered(d)
    \/ \E r \in svAsked : Answered(r)

-----------------------------------------------------------------------------

(* When no request is under way every connection of the tree shows a schema of its own, although *)
(* the old schema is kept under the new connection in the middle of a switch; but for requests of *)
(* App that overlapped, failed, or were for another connection (DbExplorerSidebar, the effect on   *)
(* schemaData).  And the tables that are offered, once they are not loading, are those of the      *)
(* chosen connection or of the schema App shows for it (PerfDiagnosticsPanel, the effect on        *)
(* selectedDbId).                                                                                 *)
ListsAreOfTheirConnection ==
    /\ svAsked = {} /\ ~svMixed => \A d \in Connections : svTree[d] \in {None, d}
    /\ svVisible /\ ~svTablesLoading =>
         svTables \in {None, svPick} \cup (IF svPick = svActive THEN {svSchema} ELSE {})
=============================================================================
