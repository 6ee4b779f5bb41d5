--------------------------- MODULE ScreensProofs ----------------------------
(***************************************************************************)
(* That the screens of the web client that wait for the server show what   *)
(* they name: the lists of SchemaViews are of their connection, a plan     *)
(* screen of PlanWizards executes what it shows, a job screen of JobWatch  *)
(* never stops watching without a word, PerfSuites lists the reports of    *)
(* its suite; that the configuration keeps what an edit is not about, and  *)
(* its copies agree once it is quiet (ConfigEdits); and that an insert     *)
(* sends only what its column can hold (GridValues).  For any connections, *)
(* inputs, suites and items, and any number of clicks and requests.        *)
(***************************************************************************)
EXTENDS MCWebClient, TLAPS

(* A step is one of the view, or leaves its variables alone. *)
LEMMA OthersKeep ==
    ASSUME [Next]_vars
    PROVE  /\ view' = view
           /\ view = "schemas" => SV!Next \/ UNCHANGED schemas
           /\ view = "plans" => PW!Next \/ UNCHANGED plans
           /\ view = "jobs" => JW!Next \/ UNCHANGED jobs
           /\ view = "suites" => PS!Next \/ UNCHANGED suites
           /\ view = "config" => CF!Next \/ UNCHANGED config
           /\ view = "values" => GV!Next \/ UNCHANGED values
BY DEF Next, Pages, Grid, Conflicts, Values, Layout, Tabs, Config, Jobs, Plans, SuitesTab, Schemas,
       ResultsView, vars

-----------------------------------------------------------------------------
(* The lists of a connection. *)

SchemaKinds  == {"switch", "refresh", "run", "upload"}
SchemaPhases == {"store", "config", "schema", "run"}

(* The variables are of their kinds; what a request stores or read at its start is a connection. *)
SchemasTypeOK ==
    /\ svStored \in Connections /\ svActive \in Connections /\ svPick \in Connections
    /\ svTree \in [Connections -> Connections \cup {SV!None, SV!File}]
    /\ svAsked \subseteq [kind : SchemaKinds, phase : SchemaPhases, db : Connections \cup {SV!File}]
    /\ \A r \in svAsked : r.phase \in {"store", "config", "run"} => r.db \in Connections
    /\ svSchema \in Connections \cup {SV!None, SV!File}
    /\ svVisible \in BOOLEAN /\ svTablesLoading \in BOOLEAN /\ svMixed \in BOOLEAN

(* Unless answers mixed, a foreign schema in the tree has its own one under way. *)
OwnSchemaComes ==
    ~svMixed => \A d \in Connections :
        svTree[d] \in {SV!None, d} \/ \E r \in svAsked : r.phase = "schema" /\ r.db = d

(* Tables are asked for the chosen connection only, and only while they load. *)
AskedForThePick ==
    /\ svTablesAsked \subseteq {svPick}
    /\ svTablesAsked # {} => svTablesLoading

OfferedAreThePicks ==
    svVisible /\ ~svTablesLoading =>
        svTables \in {SV!None, svPick} \cup (IF svPick = svActive THEN {svSchema} ELSE {})

SchemasInv == SchemasTypeOK /\ OwnSchemaComes /\ AskedForThePick /\ OfferedAreThePicks

-----------------------------------------------------------------------------
(* The effects. *)

(* Whatever is chosen, in front, active or loaded, the effect that fills the tables leaves the   *)
(* right ones or starts loading them.                                                           *)
LEMMA OfferTablesIsRight ==
    ASSUME NEW pick \in Connections, NEW visible \in BOOLEAN, NEW active, NEW schema,
           SchemasInv, SV!OfferTables(pick, visible, active, schema),
           active = svActive', schema = svSchema'
    PROVE  AskedForThePick' /\ OfferedAreThePicks' /\ svPick' \in Connections
           /\ svVisible' \in BOOLEAN /\ svTablesLoading' \in BOOLEAN
<1> USE DEF SV!OfferTables, SV!Dropped, AskedForThePick, OfferedAreThePicks, SchemasInv, SchemasTypeOK
<1>1. CASE ~visible
  BY <1>1
<1>2. CASE visible /\ pick = active /\ schema # SV!None
  BY <1>2
<1>3. CASE visible /\ (pick # active \/ schema = SV!None)
  BY <1>3
<1> QED  BY <1>1, <1>2, <1>3

(* The schema of App stays one of a connection, of a file or none, and enters the tree under the *)
(* active connection only.                                                                      *)
LEMMA ShowIsTyped ==
    ASSUME NEW active \in Connections, NEW schema \in Connections \cup {SV!None, SV!File},
           SchemasInv, SV!Show(active, schema)
    PROVE  /\ svActive' \in Connections /\ svSchema' \in Connections \cup {SV!None, SV!File}
           /\ svTree' \in [Connections -> Connections \cup {SV!None, SV!File}]
           /\ \A d \in Connections \ {active} : svTree'[d] = svTree[d]
           /\ svTree'[active] \in {svTree[active], schema}
           /\ AskedForThePick' /\ OfferedAreThePicks' /\ svPick' \in Connections
           /\ svVisible' \in BOOLEAN /\ svTablesLoading' \in BOOLEAN
<1>1. /\ svActive' = active /\ svSchema' = schema
      /\ svTree' = IF schema = SV!None THEN svTree ELSE [svTree EXCEPT ![active] = schema]
      /\ SV!OfferTables(svPick, svVisible, active, schema)
  BY DEF SV!Show
<1>2. AskedForThePick' /\ OfferedAreThePicks' /\ svPick' \in Connections
      /\ svVisible' \in BOOLEAN /\ svTablesLoading' \in BOOLEAN
  BY <1>1, OfferTablesIsRight DEF SchemasInv, SchemasTypeOK
<1> QED  BY <1>1, <1>2 DEF SchemasInv, SchemasTypeOK

-----------------------------------------------------------------------------
(* The actions. *)

(* What leaves the views alone, and only adds requests that are typed, keeps the invariant. *)
LEMMA NewRequestsKeep ==
    ASSUME SchemasInv, UNCHANGED <<svActive, svSchema, svTree, SV!perf, svStored>>, svMixed' = svMixed,
           svAsked \subseteq svAsked',
           \A r \in svAsked' \ svAsked :
              /\ r \in [kind : SchemaKinds, phase : SchemaPhases, db : Connections \cup {SV!File}]
              /\ r.phase \in {"store", "config", "run"} => r.db \in Connections
    PROVE  SchemasInv'
<1>1. SchemasTypeOK'
  BY DEF SchemasInv, SchemasTypeOK, SV!perf
<1>2. OwnSchemaComes'
  BY DEF SchemasInv, OwnSchemaComes
<1>3. AskedForThePick' /\ OfferedAreThePicks'
  BY DEF SchemasInv, AskedForThePick, OfferedAreThePicks, SV!perf
<1> QED  BY <1>1, <1>2, <1>3 DEF SchemasInv

LEMMA RequestIsTyped ==
    ASSUME NEW kind \in SchemaKinds, NEW phase \in SchemaPhases, NEW d \in Connections \cup {SV!File}
    PROVE  /\ SV!Request(kind, phase, d) \in [kind : SchemaKinds, phase : SchemaPhases, db : Connections \cup {SV!File}]
           /\ SV!Request(kind, phase, d).phase = phase /\ SV!Request(kind, phase, d).db = d
BY DEF SV!Request

LEMMA SchemasAskKeeps ==
    ASSUME SchemasInv, UNCHANGED <<svActive, svSchema, svTree, SV!perf, svStored>>,
           NEW kind \in SchemaKinds, NEW phase \in SchemaPhases, NEW d \in Connections \cup {SV!File},
           phase \in {"store", "config", "run"} => d \in Connections,
           SV!Ask(SV!Request(kind, phase, d))
    PROVE  SchemasInv'
<1>1. svAsked' = svAsked \cup {SV!Request(kind, phase, d)} /\ svMixed' = svMixed
  BY DEF SV!Ask
<1>2. /\ SV!Request(kind, phase, d) \in [kind : SchemaKinds, phase : SchemaPhases, db : Connections \cup {SV!File}]
      /\ SV!Request(kind, phase, d).phase = phase /\ SV!Request(kind, phase, d).db = d
  BY RequestIsTyped
<1> QED  BY <1>1, <1>2, NewRequestsKeep

LEMMA SchemasInit ==
    ASSUME SV!Init
    PROVE  SchemasInv
BY ConnectionsAssumption
   DEF SV!Init, SchemasInv, SchemasTypeOK, OwnSchemaComes, AskedForThePick, OfferedAreThePicks, SV!None, SV!File

LEMMA StoresKeeps ==
    ASSUME SchemasInv, NEW r \in svAsked, SV!Stores(r)
    PROVE  SchemasInv'
<1> USE DEF SV!Stores
<1>1. r.phase = "store" /\ r.db \in Connections /\ UNCHANGED <<svActive, svSchema, svTree, SV!perf, svMixed>>
  BY DEF SchemasInv, SchemasTypeOK
<1>2. /\ svStored' \in Connections
      /\ svAsked' = svAsked \ {r} \/ svAsked' = (svAsked \ {r}) \cup {[r EXCEPT !.phase = "config"]}
  BY <1>1 DEF SchemasInv, SchemasTypeOK
<1>3. /\ [r EXCEPT !.phase = "config"] \in [kind : SchemaKinds, phase : SchemaPhases, db : Connections \cup {SV!File}]
      /\ [r EXCEPT !.phase = "config"].db \in Connections
  BY <1>1 DEF SchemasInv, SchemasTypeOK, SchemaPhases
<1>4. SchemasTypeOK'
  BY <1>1, <1>2, <1>3 DEF SchemasInv, SchemasTypeOK, SV!perf
<1>5. OwnSchemaComes'
  BY <1>1, <1>2 DEF SchemasInv, OwnSchemaComes
<1>6. AskedForThePick' /\ OfferedAreThePicks'
  BY <1>1 DEF SchemasInv, AskedForThePick, OfferedAreThePicks, SV!perf
<1> QED  BY <1>4, <1>5, <1>6 DEF SchemasInv

(* The schema that is kept under the new connection has its request in ThenSchema. *)
LEMMA ConfigReadKeeps ==
    ASSUME SchemasInv, NEW r \in svAsked, SV!ConfigRead(r)
    PROVE  SchemasInv'
<1> DEFINE next == [r EXCEPT !.phase = "schema", !.db = svStored]
<1>1. /\ r.phase = "config" /\ UNCHANGED <<svStored, svMixed>>
      /\ svAsked' = svAsked \ {r} \/ svAsked' = (svAsked \ {r}) \cup {next}
  BY DEF SV!ConfigRead, SV!ThenSchema
<1>2. /\ next \in [kind : SchemaKinds, phase : SchemaPhases, db : Connections \cup {SV!File}]
      /\ next.phase = "schema" /\ next.db = svStored
  BY <1>1 DEF SchemasInv, SchemasTypeOK, SchemaPhases
<1>3. \A q \in svAsked : q.phase = "schema" => q \in svAsked'
  BY <1>1
<1>4. CASE svAsked' = SV!ThenSchema(r) /\ svStored # svActive
  <2>1. SV!Show(svStored, svSchema) /\ next \in svAsked'
    BY <1>4 DEF SV!ConfigRead, SV!ThenSchema
  <2>2. /\ svActive' \in Connections /\ svSchema' \in Connections \cup {SV!None, SV!File}
        /\ svTree' \in [Connections -> Connections \cup {SV!None, SV!File}]
        /\ \A d \in Connections \ {svStored} : svTree'[d] = svTree[d]
        /\ AskedForThePick' /\ OfferedAreThePicks' /\ svPick' \in Connections
        /\ svVisible' \in BOOLEAN /\ svTablesLoading' \in BOOLEAN
    BY <2>1, ShowIsTyped DEF SchemasInv, SchemasTypeOK
  <2>3. SchemasTypeOK'
    BY <1>1, <1>2, <2>2 DEF SchemasInv, SchemasTypeOK
  <2>4. OwnSchemaComes'
    BY <1>1, <1>2, <1>3, <2>1, <2>2 DEF SchemasInv, OwnSchemaComes
  <2> QED  BY <2>2, <2>3, <2>4 DEF SchemasInv
<1>5. CASE ~(svAsked' = SV!ThenSchema(r) /\ svStored # svActive)
  <2>1. UNCHANGED <<svActive, svSchema, svTree, SV!perf>>
    BY <1>5 DEF SV!ConfigRead
  <2>2. SchemasTypeOK'
    BY <1>1, <1>2, <2>1 DEF SchemasInv, SchemasTypeOK, SV!perf
  <2>3. OwnSchemaComes'
    BY <1>1, <1>3, <2>1 DEF SchemasInv, OwnSchemaComes
  <2>4. AskedForThePick' /\ OfferedAreThePicks'
    BY <2>1 DEF SchemasInv, AskedForThePick, OfferedAreThePicks, SV!perf
  <2> QED  BY <2>2, <2>3, <2>4 DEF SchemasInv
<1> QED  BY <1>4, <1>5

(* An answer that does not mix is the only one under way but for runs, so that only the active   *)
(* connection could have had a foreign schema, and it is the one that is answered.               *)
LEMMA SchemaReadKeeps ==
    ASSUME SchemasInv, NEW r \in svAsked, SV!SchemaRead(r)
    PROVE  SchemasInv'
<1>1. r.phase = "schema" /\ svAsked' = svAsked \ {r} /\ UNCHANGED svStored
  BY DEF SV!SchemaRead
<1>2. r.db \in Connections \cup {SV!File}
  BY DEF SchemasInv, SchemasTypeOK
<1>3. CASE SV!Show(svActive, r.db)
           /\ svMixed' = (svMixed \/ r.db # svActive \/ (\E q \in svAsked' : q.phase # "run"))
  <2>1. /\ svActive' \in Connections /\ svSchema' \in Connections \cup {SV!None, SV!File}
        /\ svTree' \in [Connections -> Connections \cup {SV!None, SV!File}]
        /\ \A d \in Connections \ {svActive} : svTree'[d] = svTree[d]
        /\ svTree'[svActive] \in {svTree[svActive], r.db}
        /\ AskedForThePick' /\ OfferedAreThePicks' /\ svPick' \in Connections
        /\ svVisible' \in BOOLEAN /\ svTablesLoading' \in BOOLEAN
    BY <1>2, <1>3, ShowIsTyped DEF SchemasInv, SchemasTypeOK
  <2>2. SchemasTypeOK'
    BY <1>1, <1>3, <2>1 DEF SchemasInv, SchemasTypeOK
  <2>3. OwnSchemaComes'
    <3> SUFFICES ASSUME ~svMixed', NEW d \in Connections PROVE svTree'[d] \in {SV!None, d}
      BY DEF OwnSchemaComes
    <3>1. ~svMixed /\ r.db = svActive /\ \A q \in svAsked' : q.phase = "run"
      BY <1>3
    <3>2. svTree[d] \in {SV!None, d} \/ r.db = d
      BY <1>1, <3>1 DEF SchemasInv, OwnSchemaComes
    <3>3. CASE d = svActive
      <4>1. r.db # SV!None /\ svTree'[d] = r.db
        BY <1>3, <3>1, <3>3, ConnectionsAssumption DEF SV!Show, SchemasInv, SchemasTypeOK, SV!None
      <4> QED  BY <3>1, <3>3, <4>1
    <3>4. CASE d # svActive
      BY <2>1, <3>1, <3>2, <3>4
    <3> QED  BY <3>3, <3>4
  <2> QED  BY <2>1, <2>2, <2>3 DEF SchemasInv
<1>4. CASE svMixed' = TRUE /\ UNCHANGED <<svActive, svSchema, svTree, SV!perf>>
  <2>1. SchemasTypeOK' /\ OwnSchemaComes'
    BY <1>1, <1>4 DEF SchemasInv, SchemasTypeOK, OwnSchemaComes, SV!perf
  <2>2. AskedForThePick' /\ OfferedAreThePicks'
    BY <1>4 DEF SchemasInv, AskedForThePick, OfferedAreThePicks, SV!perf
  <2> QED  BY <2>1, <2>2 DEF SchemasInv
<1> QED  BY <1>3, <1>4 DEF SV!SchemaRead

LEMMA RunEndsKeeps ==
    ASSUME SchemasInv, NEW r \in svAsked, SV!RunEnds(r)
    PROVE  SchemasInv'
<1> DEFINE next == [r EXCEPT !.phase = "schema"]
<1>1. /\ r.phase = "run" /\ UNCHANGED <<svStored, svActive, svSchema, svTree, SV!perf, svMixed>>
      /\ svAsked' = svAsked \ {r} \/ svAsked' = (svAsked \ {r}) \cup {next}
  BY DEF SV!RunEnds
<1>2. next \in [kind : SchemaKinds, phase : SchemaPhases, db : Connections \cup {SV!File}] /\ next.phase = "schema"
  BY <1>1 DEF SchemasInv, SchemasTypeOK, SchemaPhases
<1>3. SchemasTypeOK'
  BY <1>1, <1>2 DEF SchemasInv, SchemasTypeOK, SV!perf
<1>4. OwnSchemaComes'
  BY <1>1 DEF SchemasInv, OwnSchemaComes
<1>5. AskedForThePick' /\ OfferedAreThePicks'
  BY <1>1 DEF SchemasInv, AskedForThePick, OfferedAreThePicks, SV!perf
<1> QED  BY <1>3, <1>4, <1>5 DEF SchemasInv

LEMMA TreeAnsweredKeeps ==
    ASSUME SchemasInv, NEW d \in Connections, SV!TreeAnswered(d)
    PROVE  SchemasInv'
<1>1. /\ UNCHANGED <<svStored, svActive, svSchema, SV!perf, svAsked, svMixed>>
      /\ svTree' = svTree \/ svTree' = [svTree EXCEPT ![d] = d]
  BY DEF SV!TreeAnswered
<1>2. SchemasTypeOK'
  BY <1>1 DEF SchemasInv, SchemasTypeOK, SV!perf
<1>3. OwnSchemaComes'
  BY <1>1 DEF SchemasInv, OwnSchemaComes, SchemasTypeOK
<1>4. AskedForThePick' /\ OfferedAreThePicks'
  BY <1>1 DEF SchemasInv, AskedForThePick, OfferedAreThePicks, SV!perf
<1> QED  BY <1>2, <1>3, <1>4 DEF SchemasInv

(* The diagnostics tab comes to the front or goes, or another connection is chosen there. *)
LEMMA OfferTablesKeeps ==
    ASSUME SchemasInv, NEW pick \in Connections, NEW visible \in BOOLEAN,
           SV!OfferTables(pick, visible, svActive, svSchema),
           UNCHANGED <<svStored, svActive, svSchema, svTree, svAsked, svMixed>>
    PROVE  SchemasInv'
<1>1. AskedForThePick' /\ OfferedAreThePicks' /\ svPick' \in Connections
      /\ svVisible' \in BOOLEAN /\ svTablesLoading' \in BOOLEAN
  BY OfferTablesIsRight
<1>2. SchemasTypeOK' /\ OwnSchemaComes'
  BY <1>1 DEF SchemasInv, SchemasTypeOK, OwnSchemaComes
<1> QED  BY <1>1, <1>2 DEF SchemasInv

LEMMA TablesAnsweredKeeps ==
    ASSUME SchemasInv, NEW d \in Connections, SV!TablesAnswered(d)
    PROVE  SchemasInv'
<1>1. SchemasTypeOK' /\ OwnSchemaComes'
  BY DEF SV!TablesAnswered, SchemasInv, SchemasTypeOK, OwnSchemaComes
<1>2. AskedForThePick' /\ OfferedAreThePicks'
  BY DEF SV!TablesAnswered, SchemasInv, AskedForThePick, OfferedAreThePicks
<1> QED  BY <1>1, <1>2 DEF SchemasInv

LEMMA ClickConnectionKeeps ==
    ASSUME SchemasInv, NEW d \in Connections, SV!ClickConnection(d)
    PROVE  SchemasInv'
<1>1. UNCHANGED <<svActive, svSchema, svTree, SV!perf, svStored>>
  BY DEF SV!ClickConnection
<1>2. CASE UNCHANGED <<svAsked, svMixed>>
  BY <1>1, <1>2, NewRequestsKeep
<1>3. CASE SV!Switch(d)
  BY <1>1, <1>3, SchemasAskKeeps DEF SV!Switch, SchemaKinds, SchemaPhases
<1> QED  BY <1>2, <1>3 DEF SV!ClickConnection

LEMMA SchemasNext ==
    ASSUME SchemasInv, SV!Next \/ UNCHANGED schemas
    PROVE  SchemasInv'
<1>1. CASE SV!Refresh
  BY <1>1, SchemasAskKeeps DEF SV!Refresh, SchemasInv, SchemasTypeOK, SchemaKinds, SchemaPhases
<1>2. CASE SV!Run
  BY <1>2, SchemasAskKeeps DEF SV!Run, SchemasInv, SchemasTypeOK, SchemaKinds, SchemaPhases
<1>3. CASE SV!Upload
  BY <1>3, SchemasAskKeeps DEF SV!Upload, SchemaKinds, SchemaPhases
<1>4. CASE SV!Front
  BY <1>4, OfferTablesKeeps DEF SV!Front, SchemasInv, SchemasTypeOK
<1>5. ASSUME NEW d \in Connections,
             SV!Chevron(d) \/ SV!ClickConnection(d) \/ SV!TreeAnswered(d) \/ SV!PickDb(d) \/ SV!TablesAnswered(d)
      PROVE  SchemasInv'
  <2>1. CASE SV!Chevron(d)
    BY <2>1, NewRequestsKeep DEF SV!Chevron
  <2>2. CASE SV!PickDb(d)
    BY <2>2, OfferTablesKeeps DEF SV!PickDb, SchemasInv, SchemasTypeOK
  <2> QED  BY <1>5, <2>1, <2>2, ClickConnectionKeeps, TreeAnsweredKeeps, TablesAnsweredKeeps
<1>6. ASSUME NEW r \in svAsked, SV!Answered(r)
      PROVE  SchemasInv'
  BY <1>6, StoresKeeps, ConfigReadKeeps, SchemaReadKeeps, RunEndsKeeps DEF SV!Answered
<1>7. CASE UNCHANGED schemas
  BY <1>7, NewRequestsKeep DEF schemas, SV!perf
<1> QED  BY <1>1, <1>2, <1>3, <1>4, <1>5, <1>6, <1>7 DEF SV!Next

(* No view changes which one is looked at, and the others leave this one alone. *)
-----------------------------------------------------------------------------

(* At rest every connection of the tree shows a schema of its own, unless requests overlapped,   *)
(* failed or were for another connection, and the tables that are offered are those of the       *)
(* chosen connection, for any connections, switches, refreshes, runs and uploads                 *)
(* (DbExplorerSidebar and PerfDiagnosticsPanel, the effects on schemaData).                      *)
THEOREM ListsAreRight == Spec => []ListsAreOfTheirConnection
<1> DEFINE Inv == view = "schemas" => SchemasInv
<1>1. Init => Inv
  BY SchemasInit DEF Init
<1>2. Inv /\ [Next]_vars => Inv'
  <2>1. CASE view = "schemas"
    BY <2>1, SchemasNext, OthersKeep
  <2>2. CASE view # "schemas"
    BY <2>2, OthersKeep
  <2> QED  BY <2>1, <2>2
<1>3. Inv => ListsAreOfTheirConnection
  BY DEF SchemasInv, OwnSchemaComes, OfferedAreThePicks, ListsAreOfTheirConnection, SV!ListsAreOfTheirConnection
<1> QED  BY <1>1, <1>2, <1>3, PTL DEF Spec

-----------------------------------------------------------------------------
(* The scripts of a plan screen. *)

Choices == {0} \cup PlanInputs

(* The inputs, and what was made of them, are choices or none. *)
PlansTypeOK ==
    /\ pwScreen \in PW!Wizards \cup {"designer"}
    /\ pwInput \in Choices /\ pwScript \in Choices
    /\ pwDiff \in [{"schema", "data", "csv"} -> Choices]
    /\ \A a \in pwAsked : a.input \in Choices

(* The screens the promise is for. *)
Current == ~PW!Is({"transfer"}) /\ ~pwLate

MadeOfTheInput ==
    Current => /\ pwScript \in {0, pwInput}
               /\ \A a \in pwAsked : a.kind \in {"compare", "preview"} => a.input = pwInput

(* VisualSyncWizard makes its data script of the difference, and nothing before it has loaded. *)
DiffIsOfTheInput ==
    Current /\ PW!Is({"visual"}) =>
        pwDiff["schema"] \in {0, pwInput} /\ pwDiff["data"] \in {0, pwInput}

(* It loads only when it opens, and only the designer asks the AI. *)
RequestsInv ==
    \A a \in pwAsked :
        /\ PW!Is({"visual"}) /\ a.kind = "load" => pwAsked = {a} /\ pwLoading /\ pwDiff = PW!NoDiff
        /\ a.kind = "suggest" => PW!Is({"designer"})

ScriptInv == MadeOfTheInput /\ DiffIsOfTheInput /\ RequestsInv
PlansInv == PlansTypeOK /\ ScriptInv /\ PW!ExecutesWhatIsShown

-----------------------------------------------------------------------------

LEMMA PlansInit ==
    ASSUME PW!Init
    PROVE  PlansInv
<1> DEFINE load == [n |-> 1, kind |-> "load", mode |-> pwMode, input |-> 0]
<1>1. load.kind = "load" /\ load.input = 0
  OBVIOUS
<1> HIDE DEF load
<1>2. /\ pwScreen \in PW!Wizards \cup {"designer"} /\ pwInput = 0 /\ pwDiff = PW!NoDiff /\ pwScript = 0
      /\ pwLoading = (pwScreen \in {"visual", "designer"}) /\ pwAsked = {load} /\ pwTo = <<>>
  BY DEF PW!Init, PW!Fresh, load
<1> QED  BY <1>1, <1>2 DEF PlansInv, PlansTypeOK, Choices, ScriptInv, MadeOfTheInput, DiffIsOfTheInput, RequestsInv, PW!ExecutesWhatIsShown,
                          PW!NoDiff, Current, PW!Is, PW!Wizards

(* Nothing that is made of an input changes, and no new request comes. *)
LEMMA PlansQuiet ==
    ASSUME PlansInv, UNCHANGED <<pwScreen, pwInput, pwDiff, pwScript, pwTo, pwLate>>,
           pwAsked' \subseteq pwAsked, pwLoading' = pwLoading \/ pwAsked' = {} \/ ~PW!Is({"visual"})
    PROVE  PlansInv'
BY DEF PlansInv, PlansTypeOK, ScriptInv, MadeOfTheInput, DiffIsOfTheInput, RequestsInv, PW!ExecutesWhatIsShown, Current, PW!Is, PW!NoDiff

(* The input changes: what was made of the one before is gone, or it is late. *)
LEMMA ChooseKeeps ==
    ASSUME PlansInv, NEW input \in Choices, NEW mode, PW!Choose(input, mode),
           pwDiff' \in [{"schema", "data", "csv"} -> Choices],
           PW!Is({"visual"}) => pwDiff' = PW!NoDiff,
           pwScript' = 0 \/ (pwScript' = pwScript /\ PW!Is({"transfer"}))
    PROVE  PlansInv'
<1> USE DEF PW!Choose, PW!Carriers
<1>1. PlansTypeOK'
  BY DEF PlansInv, PlansTypeOK, Choices
<1>2. ScriptInv'
  BY DEF PlansInv, ScriptInv, MadeOfTheInput, DiffIsOfTheInput, RequestsInv, Current, PW!Is, PW!NoDiff
<1>3. PW!ExecutesWhatIsShown'
  BY DEF PlansInv, PW!ExecutesWhatIsShown, PW!Is
<1> QED  BY <1>1, <1>2, <1>3 DEF PlansInv, ScriptInv

LEMMA InputsKeep ==
    ASSUME PlansInv, PW!Inputs
    PROVE  PlansInv'
<1>1. PW!NoDiff \in [{"schema", "data", "csv"} -> Choices] /\ pwDiff \in [{"schema", "data", "csv"} -> Choices]
  BY DEF PW!NoDiff, Choices, PlansInv, PlansTypeOK
<1>2. CASE PW!VisualInput
  BY <1>1, <1>2, ChooseKeeps DEF PW!VisualInput, PW!ResetResult, Choices
<1>3. CASE PW!StructureInput
  BY <1>1, <1>3, ChooseKeeps DEF PW!StructureInput, Choices
<1>4. CASE PW!TransferInput
  BY <1>1, <1>4, ChooseKeeps DEF PW!TransferInput, Choices, PW!Is
<1>5. CASE PW!DesignerEdit
  BY <1>1, <1>5, ChooseKeeps DEF PW!DesignerEdit, Choices, PW!Is
<1>6. CASE PW!Pick
  BY <1>6, PlansQuiet DEF PW!Pick
<1> QED  BY <1>2, <1>3, <1>4, <1>5, <1>6 DEF PW!Inputs

(* A request for the input on the screen, or to execute. *)
LEMMA PlansAskKeeps ==
    ASSUME PlansInv, NEW kind \in {"compare", "preview", "execute", "suggest"}, kind = "suggest" => PW!Is({"designer"}), NEW input \in Choices,
           PW!Ask(kind, input), UNCHANGED <<pwScreen, pwInput, pwLate>>,
           pwDiff' = pwDiff \/ (pwDiff' = PW!NoDiff /\ ~PW!Is({"visual"})),
           pwScript' \in {0, pwScript},
           Current /\ kind # "execute" => input = pwInput,
           pwTo' = pwTo \/ (pwScript # 0 /\ pwTo' = <<pwScript, pwInput, pwLate>>),
           PW!Is({"visual"}) => ~pwLoading
    PROVE  PlansInv'
<1>1. PICK r : r = PW!Request(kind, input)
  OBVIOUS
<1>2. r.kind = kind /\ r.input = input /\ pwAsked' = pwAsked \cup {r}
  BY <1>1 DEF PW!Ask, PW!Request
<1>3. PlansTypeOK'
  BY <1>2 DEF PlansInv, PlansTypeOK, Choices, PW!NoDiff
<1>4. MadeOfTheInput'
  BY <1>2 DEF PlansInv, ScriptInv, MadeOfTheInput, Current, PW!Is
<1>5. DiffIsOfTheInput' /\ RequestsInv'
  BY <1>2 DEF PlansInv, ScriptInv, DiffIsOfTheInput, RequestsInv, Current, PW!Is
<1>6. PW!ExecutesWhatIsShown'
  BY DEF PlansInv, ScriptInv, MadeOfTheInput, PW!ExecutesWhatIsShown, Current, PW!Is
<1> QED  BY <1>3, <1>4, <1>5, <1>6 DEF PlansInv, ScriptInv

LEMMA RequestsKeep ==
    ASSUME PlansInv, PW!Requests
    PROVE  PlansInv'
<1>1. pwInput \in Choices /\ pwScript \in Choices /\ pwDiff["data"] \in Choices
  BY DEF PlansInv, PlansTypeOK
<1>2. CASE PW!VisualCompare
  BY <1>1, <1>2, PlansAskKeeps DEF PW!VisualCompare
<1>3. CASE PW!StructureCompare
  BY <1>1, <1>3, PlansAskKeeps DEF PW!StructureCompare, PW!Is
<1>4. CASE PW!TransferParse
  BY <1>1, <1>4, PlansAskKeeps DEF PW!TransferParse, PW!Is
<1>5. CASE PW!VisualPreview
  <2> DEFINE input == IF pwMode = "data" THEN pwDiff.data ELSE pwInput
  <2>1. input \in Choices /\ (Current => input = pwInput)
    BY <1>1, <1>5 DEF PW!VisualPreview, PlansInv, ScriptInv, DiffIsOfTheInput
  <2> HIDE DEF input
  <2>2. PW!Ask("preview", input)
    BY <1>5 DEF PW!VisualPreview, input
  <2> QED  BY <1>5, <2>1, <2>2, PlansAskKeeps DEF PW!VisualPreview
<1>6. CASE PW!WizardPreview
  BY <1>1, <1>6, PlansAskKeeps DEF PW!WizardPreview, PW!Is
<1>7. CASE PW!DesignerPreview
  BY <1>1, <1>7, PlansAskKeeps DEF PW!DesignerPreview, PW!Is
<1>8. CASE PW!ClosePreview
  BY <1>8 DEF PW!ClosePreview, PlansInv, PlansTypeOK, Choices, ScriptInv, MadeOfTheInput, DiffIsOfTheInput, RequestsInv, PW!ExecutesWhatIsShown,
              Current, PW!Is
<1>9. CASE PW!Execute
  BY <1>1, <1>9, PlansAskKeeps DEF PW!Execute
<1>10. CASE PW!ConfirmSave
  BY <1>1, <1>10, PlansAskKeeps DEF PW!ConfirmSave, PW!Is
<1>11. CASE PW!SuggestIndexes
  BY <1>1, <1>11, PlansAskKeeps DEF PW!SuggestIndexes, PW!Is
<1> QED  BY <1>2, <1>3, <1>4, <1>5, <1>6, <1>7, <1>8, <1>9, <1>10, <1>11 DEF PW!Requests

-----------------------------------------------------------------------------

LEMMA LoadedKeeps ==
    ASSUME PlansInv, NEW a \in pwAsked, PW!Loaded(a)
    PROVE  PlansInv'
<1> USE DEF PW!Loaded, PW!Answered, PW!Replace, PW!Carriers
<1>1. PlansTypeOK'
  BY DEF PlansInv, PlansTypeOK, Choices
<1>2. MadeOfTheInput'
  BY DEF PlansInv, ScriptInv, MadeOfTheInput, Current, PW!Is
<1>3. DiffIsOfTheInput' /\ RequestsInv'
  BY DEF PlansInv, ScriptInv, DiffIsOfTheInput, RequestsInv, Current, PW!Is, PW!NoDiff
<1>4. PW!ExecutesWhatIsShown'
  BY DEF PlansInv, PW!ExecutesWhatIsShown, PW!Is
<1> QED  BY <1>1, <1>2, <1>3, <1>4 DEF PlansInv, ScriptInv

LEMMA SuggestedKeeps ==
    ASSUME PlansInv, NEW a \in pwAsked, PW!Suggested(a)
    PROVE  PlansInv'
<1> USE DEF PW!Suggested, PW!Answered, PW!Replace, PW!Carriers
<1>1. PlansTypeOK'
  BY DEF PlansInv, PlansTypeOK, Choices
<1>2. MadeOfTheInput'
  BY DEF PlansInv, ScriptInv, MadeOfTheInput, Current, PW!Is
<1>3. DiffIsOfTheInput' /\ RequestsInv'
  BY DEF PlansInv, ScriptInv, DiffIsOfTheInput, RequestsInv, Current, PW!Is
<1>4. PW!ExecutesWhatIsShown'
  BY DEF PlansInv, PW!ExecutesWhatIsShown, PW!Is
<1> QED  BY <1>1, <1>2, <1>3, <1>4 DEF PlansInv, ScriptInv

LEMMA ComparedKeeps ==
    ASSUME PlansInv, NEW a \in pwAsked, PW!Compared(a)
    PROVE  PlansInv'
<1> USE DEF PW!Compared, PW!Answered
<1>1. PlansTypeOK'
  BY DEF PlansInv, PlansTypeOK, Choices
<1>2. MadeOfTheInput' /\ PW!ExecutesWhatIsShown'
  BY DEF PlansInv, ScriptInv, MadeOfTheInput, PW!ExecutesWhatIsShown, Current, PW!Is
<1>3. DiffIsOfTheInput' /\ RequestsInv'
  BY DEF PlansInv, PlansTypeOK, ScriptInv, MadeOfTheInput, DiffIsOfTheInput, RequestsInv, Current, PW!Is
<1> QED  BY <1>1, <1>2, <1>3 DEF PlansInv, ScriptInv

LEMMA PreviewedKeeps ==
    ASSUME PlansInv, NEW a \in pwAsked, PW!Previewed(a)
    PROVE  PlansInv'
<1> USE DEF PW!Previewed, PW!Answered
<1>1. PlansTypeOK'
  BY DEF PlansInv, PlansTypeOK
<1>2. MadeOfTheInput' /\ PW!ExecutesWhatIsShown'
  BY DEF PlansInv, ScriptInv, MadeOfTheInput, PW!ExecutesWhatIsShown, Current, PW!Is
<1>3. DiffIsOfTheInput' /\ RequestsInv'
  BY DEF PlansInv, ScriptInv, DiffIsOfTheInput, RequestsInv, Current, PW!Is
<1> QED  BY <1>1, <1>2, <1>3 DEF PlansInv, ScriptInv

LEMMA ExecutedKeeps ==
    ASSUME PlansInv, NEW a \in pwAsked, PW!Executed(a)
    PROVE  PlansInv'
<1>1. /\ a.kind = "execute" /\ UNCHANGED <<pwScreen, pwTo>>
      /\ \/ PW!Is({"visual", "structure"}) /\ PW!Closed
         \/ /\ PW!Is({"transfer"}) /\ pwAsked' = pwAsked \ {a}
            /\ UNCHANGED <<pwInput, pwDiff, pwScript, pwLate>>
         \/ /\ PW!Is({"designer"}) /\ pwAsked' = (pwAsked \ {a}) \cup {[a EXCEPT !.kind = "load"]}
            /\ pwScript' = 0 /\ UNCHANGED <<pwInput, pwDiff, pwLate>>
  BY DEF PW!Executed
<1>2. CASE PW!Is({"visual", "structure"}) /\ PW!Closed
  BY <1>1, <1>2 DEF PW!Closed, PlansInv, PlansTypeOK, Choices, PW!NoDiff, ScriptInv, MadeOfTheInput, DiffIsOfTheInput, RequestsInv,
                    PW!ExecutesWhatIsShown, Current, PW!Is
<1>3. CASE PW!Is({"transfer"}) /\ pwAsked' = pwAsked \ {a} /\ UNCHANGED <<pwInput, pwDiff, pwScript, pwLate>>
  BY <1>1, <1>3 DEF PlansInv, PlansTypeOK, ScriptInv, MadeOfTheInput, DiffIsOfTheInput, RequestsInv, PW!ExecutesWhatIsShown, Current, PW!Is
<1>4. CASE /\ PW!Is({"designer"}) /\ pwAsked' = (pwAsked \ {a}) \cup {[a EXCEPT !.kind = "load"]}
           /\ pwScript' = 0 /\ UNCHANGED <<pwInput, pwDiff, pwLate>>
  <2> DEFINE load == [a EXCEPT !.kind = "load"]
  <2>1. load.input = a.input /\ (load = a \/ load.kind = "load" \/ load.kind = a.kind)
    OBVIOUS
  <2> HIDE DEF load
  <2>2. PlansTypeOK'
    BY <1>1, <1>4, <2>1 DEF PlansInv, PlansTypeOK, Choices, load
  <2>3. ScriptInv' /\ PW!ExecutesWhatIsShown'
    BY <1>1, <1>4, <2>1 DEF PlansInv, ScriptInv, MadeOfTheInput, DiffIsOfTheInput, RequestsInv, PW!ExecutesWhatIsShown, Current, PW!Is, load
  <2> QED  BY <2>2, <2>3 DEF PlansInv
<1> QED  BY <1>1, <1>2, <1>3, <1>4

LEMMA FailedKeeps ==
    ASSUME PlansInv, NEW a \in pwAsked, PW!Failed(a)
    PROVE  PlansInv'
<1> USE DEF PW!Failed, PW!Answered
<1>1. PlansTypeOK'
  BY DEF PlansInv, PlansTypeOK
<1>2. MadeOfTheInput' /\ PW!ExecutesWhatIsShown'
  BY DEF PlansInv, ScriptInv, MadeOfTheInput, PW!ExecutesWhatIsShown, Current, PW!Is
<1>3. DiffIsOfTheInput' /\ RequestsInv'
  BY DEF PlansInv, ScriptInv, DiffIsOfTheInput, RequestsInv, Current, PW!Is
<1> QED  BY <1>1, <1>2, <1>3 DEF PlansInv, ScriptInv

LEMMA PlansNext ==
    ASSUME PlansInv, PW!Next \/ UNCHANGED plans
    PROVE  PlansInv'
<1>1. CASE PW!Inputs
  BY <1>1, InputsKeep
<1>2. CASE PW!HandleNext \/ PW!HandlePrev
  BY <1>2, PlansQuiet DEF PW!HandleNext, PW!HandlePrev
<1>3. CASE PW!Requests
  BY <1>3, RequestsKeep
<1>4. ASSUME NEW a \in pwAsked, PW!Loaded(a) \/ PW!Suggested(a) \/ PW!Compared(a) \/ PW!Previewed(a) \/ PW!Executed(a) \/ PW!Failed(a)
      PROVE  PlansInv'
  BY <1>4, LoadedKeeps, SuggestedKeeps, ComparedKeeps, PreviewedKeeps, ExecutedKeeps, FailedKeeps
<1>5. CASE UNCHANGED plans
  BY <1>5, PlansQuiet DEF plans
<1> QED  BY <1>1, <1>2, <1>3, <1>4, <1>5 DEF PW!Next

(* No view changes which one is looked at, and the others leave this one alone. *)
-----------------------------------------------------------------------------

(* What the sync wizards and the designer execute was made for what they show at the click, for   *)
(* any connections, tables and edits, answers in any order and failures.  Excused, from the step  *)
(* on to the next choice by hand with no such request under way: an input that changed under a    *)
(* comparison or a preview, edits that a load or the AI's indexes replaced under an open preview  *)
(* (resetResult, handleExecute, handleAISuggestIndexes, confirmSave).  The transfer promises      *)
(* nothing of the kind.                                                                           *)
THEOREM PlansAreTheOnesShown == Spec => []ExecutesWhatIsShown
<1> DEFINE Inv == view = "plans" => PlansInv
<1>1. Init => Inv
  BY PlansInit DEF Init
<1>2. Inv /\ [Next]_vars => Inv'
  <2>1. CASE view = "plans"
    BY <2>1, PlansNext, OthersKeep
  <2>2. CASE view # "plans"
    BY <2>2, OthersKeep
  <2> QED  BY <2>1, <2>2
<1>3. Inv => ExecutesWhatIsShown
  BY DEF PlansInv, ExecutesWhatIsShown, PW!ExecutesWhatIsShown
<1> QED  BY <1>1, <1>2, <1>3, PTL DEF Spec

-----------------------------------------------------------------------------
(* The watch of a job. *)

(* As long as nothing was mixed, a question is about the job the interval asks for, which is the one the *)
(* screen names; so an answer that ends the watch is an answer about that job.                           *)
OneJob == /\ jwTimer \in {0, jwId}
          /\ jwAsked # {} => jwTimer = jwId
          /\ \A q \in jwAsked : q.of = jwId

JobsInv ==
    /\ jwScreen \in JW!Screens /\ jwMixed \in BOOLEAN /\ jwError \in BOOLEAN
    /\ \A q \in jwAsked : q = [n |-> q.n, of |-> q.of, answer |-> q.answer]
    /\ ~jwMixed => OneJob
    /\ JW!NoSilentStop

LEMMA JobsInit ==
    ASSUME JW!Init
    PROVE  JobsInv
BY DEF JW!Init, JobsInv, OneJob, JW!NoSilentStop

(* The watch and what is shown stay. *)
LEMMA ShownStays ==
    ASSUME JobsInv, UNCHANGED <<jwScreen, jwId, jwJob, jwBroken, jwTimer, jwAsked, jwMixed>>,
           jwError' \in {jwError, TRUE}
    PROVE  JobsInv'
BY DEF JobsInv, OneJob, JW!NoSilentStop

(* No job is named any more. *)
LEMMA NoneNamed ==
    ASSUME JobsInv, jwScreen' = jwScreen, jwId' = 0, jwMixed' \in BOOLEAN, jwError' \in BOOLEAN,
           jwMixed' \/ (jwTimer' = 0 /\ jwAsked' = {}), jwAsked' \in {jwAsked, {}}
    PROVE  JobsInv'
BY DEF JobsInv, OneJob, JW!NoSilentStop

LEMMA ClosedKeeps ==
    ASSUME JobsInv, jwScreen' = jwScreen, JW!Closed
    PROVE  JobsInv'
<1>1. jwId' = 0 /\ jwTimer' = 0 /\ jwAsked' = {} /\ jwMixed' = jwMixed /\ jwError' = FALSE
  BY DEF JW!Closed
<1>2. jwMixed \in BOOLEAN
  BY DEF JobsInv
<1> QED  BY <1>1, <1>2, NoneNamed

(* The job that is watched from now on is the one that is named. *)
LEMMA WatchKeeps ==
    ASSUME JobsInv, jwScreen' = jwScreen, NEW j, JW!Watch(j), jwId' = j, jwError' \in BOOLEAN
    PROVE  JobsInv'
<1> DEFINE kept == IF JW!Guarded THEN {} ELSE jwAsked
           q == JW!Question(kept, j)
<1>1. q = [n |-> q.n, of |-> q.of, answer |-> q.answer] /\ q.of = j
  BY DEF JW!Question
<1>2. /\ jwTimer' = j /\ (jwAsked' = kept \cup {q} \/ jwAsked' = kept) /\ kept \subseteq jwAsked
      /\ jwMixed' = (jwMixed \/ (\E r \in kept : r.of # j) \/ jwReport \notin {0, j})
  BY DEF JW!Watch
<1> HIDE DEF q, kept
<1>3. jwMixed' \in BOOLEAN
  BY <1>2
<1>4. ~jwMixed' => OneJob'
  <2>1. ~jwMixed' => \A r \in kept : r.of = j
    BY <1>2
  <2> QED  BY <1>1, <1>2, <2>1 DEF OneJob
<1>5. \A r \in jwAsked' : r = [n |-> r.n, of |-> r.of, answer |-> r.answer]
  BY <1>1, <1>2 DEF JobsInv
<1>6. JW!NoSilentStop'
  BY <1>2 DEF JW!NoSilentStop
<1> QED  BY <1>3, <1>4, <1>5, <1>6 DEF JobsInv

LEMMA AsksKeep ==
    ASSUME JobsInv, JW!Tick \/ \E q \in jwAsked : JW!ServerAnswers(q)
    PROVE  JobsInv'
<1>1. CASE JW!Tick
  <2> DEFINE q == JW!Question(jwAsked, jwTimer)
  <2>1. q = [n |-> q.n, of |-> q.of, answer |-> q.answer] /\ q.of = jwTimer
    BY DEF JW!Question
  <2>2. jwTimer # 0 /\ jwAsked' = jwAsked \cup {q}
        /\ UNCHANGED <<jwScreen, jwId, jwJob, jwBroken, jwTimer, jwMixed, jwError>>
    BY <1>1 DEF JW!Tick, JW!shown
  <2> HIDE DEF q
  <2> QED  BY <2>1, <2>2 DEF JobsInv, OneJob, JW!NoSilentStop
<1>2. CASE \E q \in jwAsked : JW!ServerAnswers(q)
  <2>0. PICK q \in jwAsked : JW!ServerAnswers(q)
    BY <1>2
  <2>1. PICK b : jwAsked' = (jwAsked \ {q}) \cup {[q EXCEPT !.answer = b]}
                 /\ UNCHANGED <<jwScreen, jwId, jwJob, jwBroken, jwTimer, jwMixed, jwError>>
    BY <2>0 DEF JW!ServerAnswers, JW!shown
  <2> DEFINE r == [n |-> q.n, of |-> q.of, answer |-> b]
  <2>2. [q EXCEPT !.answer = b] = r
    BY DEF JobsInv
  <2>3. r = [n |-> r.n, of |-> r.of, answer |-> r.answer] /\ r.of = q.of
    OBVIOUS
  <2> HIDE DEF r
  <2>4. jwAsked' = (jwAsked \ {q}) \cup {r}
    BY <2>1, <2>2
  <2> QED  BY <2>1, <2>3, <2>4 DEF JobsInv, OneJob, JW!NoSilentStop
<1> QED  BY <1>1, <1>2

LEMMA AnsweredKeeps ==
    ASSUME JobsInv, NEW q \in jwAsked, JW!Answered(q)
    PROVE  JobsInv'
<1>0. jwScreen' = jwScreen
  BY DEF JW!Answered
<1>1. CASE JW!Closed
  BY <1>0, <1>1, ClosedKeeps
<1>2. CASE ~JW!Closed
  <2> DEFINE ends == JW!Over(q.answer) \/ JW!Broken(q.answer)
  <2>1. /\ JW!Unwatched(q) /\ jwJob' = JW!Shown(q) /\ jwBroken' = JW!Interrupted(q)
        /\ jwId' = IF JW!Is({"transfer"}) /\ jwTimer' = 0 THEN 0 ELSE jwId
        /\ jwMixed' = (jwMixed \/ (jwTimer' = 0 /\ jwAsked' # {}))
        /\ jwError' = (jwError \/ (JW!Is({"perf", "import"}) /\ q.answer \in {"error", "canceled"})
                               \/ (JW!Is({"perf"}) /\ q.answer = "gone"))
    BY <1>2 DEF JW!Answered
  <2>2. jwMixed' \in BOOLEAN /\ jwError' \in BOOLEAN /\ (jwError => jwError')
    BY <2>1
  <2>3. jwAsked' \subseteq jwAsked /\ jwTimer' = IF ends THEN 0 ELSE jwTimer
    BY <2>1 DEF JW!Unwatched
  <2>4. CASE ~jwMixed'
    <3>1. ~jwMixed /\ jwTimer = jwId /\ q.of = jwId /\ (jwTimer' = 0 => jwAsked' = {})
      BY <2>1, <2>4 DEF JobsInv, OneJob
    <3>2. OneJob'
      BY <2>1, <2>3, <3>1 DEF JobsInv, OneJob
    <3>3. JW!NoSilentStop'
      <4>1. CASE jwId' = 0
        BY <4>1 DEF JW!NoSilentStop
      <4>2. CASE jwTimer' # 0
        BY <2>1, <2>3, <3>1, <4>2 DEF JW!NoSilentStop
      <4>3. CASE jwId' # 0 /\ jwTimer' = 0
        <5>1. ends /\ jwId' = jwId /\ ~JW!Is({"transfer"})
          BY <2>1, <2>3, <3>1, <4>3
        <5>2. JW!Is({"perf", "golive", "import", "export"})
          BY <5>1 DEF JobsInv, JW!Is, JW!Screens
        <5>3. CASE JW!Over(q.answer)
          <6>1. ~JW!Broken(q.answer)
            BY <5>3 DEF JW!Over, JW!Broken, JW!Ended
          <6>2. jwJob' = [of |-> q.of, status |-> q.answer]
            BY <2>1, <5>1, <6>1 DEF JW!Shown
          <6> QED  BY <3>1, <5>1, <5>3, <6>2 DEF JW!NoSilentStop, JW!Over
        <5>4. CASE JW!Broken(q.answer)
          <6>1. CASE JW!Is({"golive", "import", "export"})
            <7>1. JW!Interrupted(q) = q.of
              BY <5>4, <6>1 DEF JW!Interrupted, JW!Is, JW!Over, JW!Broken, JW!Ended
            <7> QED  BY <2>1, <3>1, <5>1, <7>1 DEF JW!NoSilentStop
          <6>2. CASE JW!Is({"perf"}) /\ q.answer = "failed"
            <7>1. JW!Interrupted(q) = q.of
              BY <6>2 DEF JW!Interrupted, JW!Is, JW!Over, JW!Ended
            <7> QED  BY <2>1, <3>1, <5>1, <7>1 DEF JW!NoSilentStop
          <6>3. CASE JW!Is({"perf"}) /\ q.answer = "gone"
            BY <2>1, <6>3 DEF JW!NoSilentStop
          <6> QED  BY <5>2, <5>4, <6>1, <6>2, <6>3 DEF JW!Is, JW!Broken
        <5> QED  BY <5>1, <5>3, <5>4
      <4> QED  BY <4>1, <4>2, <4>3
    <3> QED  BY <1>0, <2>2, <2>3, <3>2, <3>3 DEF JobsInv
  <2>5. CASE jwMixed'
    BY <1>0, <2>2, <2>3, <2>5 DEF JobsInv, JW!NoSilentStop
  <2> QED  BY <2>4, <2>5
<1> QED  BY <1>1, <1>2

LEMMA StartsKeep ==
    ASSUME JobsInv, JW!Runs \/ \E a \in jwStarts : JW!StartSteps(a)
    PROVE  JobsInv'
<1>0. jwMixed \in BOOLEAN /\ jwError \in BOOLEAN
  BY DEF JobsInv
<1>1. CASE JW!GoLiveRun \/ JW!ImportRun \/ JW!ExportRun \/ JW!TransferRun \/ JW!CloseFill
  <2>1. CASE JW!ImportRun
    BY <1>0, <2>1 DEF JW!ImportRun, JW!watch, JobsInv, OneJob, JW!NoSilentStop
  <2>2. CASE JW!GoLiveRun \/ JW!ExportRun \/ JW!TransferRun \/ JW!CloseFill
    BY <2>2, ShownStays DEF JW!GoLiveRun, JW!ExportRun, JW!TransferRun, JW!CloseFill, JW!watch
  <2> QED  BY <1>1, <2>1, <2>2
<1>2. CASE JW!PerfRun \/ JW!ConfirmFill
  <2>1. /\ jwScreen' = jwScreen /\ jwId' = 0 /\ jwError' = FALSE /\ jwTimer' = jwTimer /\ jwAsked' = jwAsked
        /\ jwMixed' = (jwMixed \/ jwTimer # 0 \/ jwAsked # {})
    BY <1>2 DEF JW!PerfRun, JW!ConfirmFill, JW!ClearedForRun
  <2> QED  BY <2>1, NoneNamed
<1>3. ASSUME NEW a \in jwStarts, JW!StartSteps(a)
      PROVE  JobsInv'
  <2>1. CASE JW!Checked(a)
    BY <2>1, <1>0, ShownStays DEF JW!Checked, JW!watch
  <2>2. CASE JW!ServerStarts(a)
    BY <2>2, <1>0, ShownStays DEF JW!ServerStarts, JW!watch, JW!shown
  <2>3. CASE JW!Started(a)
    BY <2>3, <1>0, WatchKeeps DEF JW!Started
  <2>4. CASE JW!StartFails(a)
    BY <2>4, <1>0, ShownStays DEF JW!StartFails, JW!watch
  <2> QED  BY <1>3, <2>1, <2>2, <2>3, <2>4 DEF JW!StartSteps
<1> QED  BY <1>1, <1>2, <1>3 DEF JW!Runs

LEMMA ResumesKeep ==
    ASSUME JobsInv, JW!Continue \/ JW!Rerender \/ \E j \in WatchJobs : JW!Resume(j) \/ JW!ResumeInEffect(j)
    PROVE  JobsInv'
<1>0. jwError \in BOOLEAN
  BY DEF JobsInv
<1>1. CASE JW!Continue
  <2>1. PICK j : JW!Watch(j) /\ jwId' = j
    BY <1>1 DEF JW!Continue
  <2> QED  BY <1>0, <1>1, <2>1, WatchKeeps DEF JW!Continue
<1>2. CASE JW!Rerender
  BY <1>0, <1>2, WatchKeeps DEF JW!Rerender, JW!shown
<1>3. ASSUME NEW j \in WatchJobs, JW!Resume(j) \/ JW!ResumeInEffect(j)
      PROVE  JobsInv'
  BY <1>0, <1>3, WatchKeeps DEF JW!Resume, JW!ResumeInEffect
<1> QED  BY <1>1, <1>2, <1>3

LEMMA CancelsKeep ==
    ASSUME JobsInv, JW!Cancel \/ JW!CancelAnswered \/ JW!CancelTransfer \/ JW!Jobs
    PROVE  JobsInv'
<1>0. jwError \in BOOLEAN
  BY DEF JobsInv
<1>1. CASE JW!Cancel
  BY <1>1, <1>0, ShownStays DEF JW!Cancel, JW!watch
<1>2. CASE JW!CancelAnswered
  <2>1. jwScreen' = jwScreen /\ jwJob' = jwJob /\ jwError' = jwError
    BY <1>2 DEF JW!CancelAnswered
  <2>2. \/ JW!Watch(jwStop) /\ jwId' = jwStop
        \/ UNCHANGED <<jwTimer, jwAsked, jwMixed, jwId, jwBroken>>
    BY <1>2 DEF JW!CancelAnswered, JW!watch
  <2> QED  BY <1>0, <2>1, <2>2, WatchKeeps, ShownStays
<1>3. CASE JW!CancelTransfer
  BY <1>3, ClosedKeeps DEF JW!CancelTransfer
<1>4. CASE JW!Jobs
  BY <1>4, <1>0, ShownStays DEF JW!Jobs, JW!ServerRuns, JW!watch, JW!shown
<1> QED  BY <1>1, <1>2, <1>3, <1>4

LEMMA JobsNext ==
    ASSUME JobsInv, JW!Next
    PROVE  JobsInv'
<1>1. CASE JW!Answers
  BY <1>1, AsksKeep, AnsweredKeeps DEF JW!Answers
<1>2. CASE JW!Requests
  BY <1>2, StartsKeep, CancelsKeep DEF JW!Requests
<1> QED  BY <1>1, <1>2, AsksKeep, StartsKeep, ResumesKeep, CancelsKeep DEF JW!Next

LEMMA JobsQuiet ==
    ASSUME JobsInv, UNCHANGED jobs
    PROVE  JobsInv'
BY DEF JobsInv, OneJob, JW!NoSilentStop, jobs

(* The job a screen names is watched, shown as ended, or reported as interrupted or failed, unless   *)
(* two jobs were polled at once, the report of another was still shown or an older answer came last  *)
(* (startPolling and setPollInterrupted of PerfSync, GoLive, ImportWizard and WizardModal).          *)
THEOREM NoWatchStopsSilently ==
    Spec => []NoSilentStop
<1> DEFINE Inv == view = "jobs" => JobsInv
<1>1. Init => Inv
  BY JobsInit DEF Init
<1>2. Inv /\ [Next]_vars => Inv'
  BY JobsNext, JobsQuiet, OthersKeep
<1>3. Inv => NoSilentStop
  BY DEF JobsInv, NoSilentStop
<1> QED  BY <1>1, <1>2, <1>3, PTL DEF Spec

-----------------------------------------------------------------------------
(* The reports of the suite on the screen. *)

Effects == {"diffs", "pair"}

IsRequest(r) ==
    r = [kind |-> r.kind, of |-> r.of, base |-> r.base, was |-> r.was, gone |-> r.gone] /\ r.gone \in BOOLEAN

(* What the effects ask for is about what is shown; behind a closed tab only handlers run on. *)
AskedForTheShown ==
    \A r \in psAsked :
        /\ IsRequest(r)
        /\ r.kind \in Effects => ~r.gone /\ r.of = psReport
        /\ r.kind = "pair" => r.base = psCompare
        /\ psMode = "closed" => r.gone /\ r.kind \notin Effects \cup {"list", "baseline"}
        /\ r.gone => r.kind \notin Effects \cup {"list", "baseline"}

SuitesInv ==
    /\ psLoading \in BOOLEAN /\ psLate \in BOOLEAN
    /\ AskedForTheShown
    /\ PS!ListedIsOfTheSuite

LEMMA SuitesInit ==
    ASSUME PS!Init
    PROVE  SuitesInv
<1>1. psAsked = {} /\ psDiffs = {} /\ psLoading = FALSE /\ psArchived = <<0, 0>> /\ psLate = FALSE
  BY DEF PS!Init
<1> QED  BY <1>1 DEF SuitesInv, AskedForTheShown, PS!ListedIsOfTheSuite

LEMMA RequestFields ==
    ASSUME NEW kind, NEW of, NEW base, NEW was
    PROVE  LET r == PS!Ask(kind, of, base, was)
           IN  IsRequest(r) /\ r.kind = kind /\ r.of = of /\ r.base = base /\ ~r.gone
BY DEF PS!Ask, IsRequest

(* What is rendered is the newest state of the list; the effects ask again for what changed. *)
LEMMA RenderKeeps ==
    ASSUME SuitesInv, NEW asked, NEW history, NEW report, NEW compare, NEW pin, NEW filter, NEW mode, NEW archived,
           NEW fresh \in BOOLEAN, PS!Render(asked, history, report, compare, pin, filter, mode, archived, fresh),
           \A r \in psAsked : r.kind = "pair" => r \in asked,
           \A r \in asked : r \in psAsked \/ (IsRequest(r) /\ ~r.gone /\ r.kind \notin Effects),
           mode # "closed", psMode # "closed", psLate' \in BOOLEAN, psLate => psLate',
           \/ archived = psArchived
           \/ fresh
           \/ psLate'
           \/ archived = <<psReport, psCompare>>
    PROVE  SuitesInv'
<1> DEFINE shown == PS!ShownOf(history, report)
           compared == PS!ComparedOf(PS!Candidates(history, shown, filter, psClass'), compare, pin)
           backend == mode = "backend" /\ shown # 0
           again == fresh \/ shown # psReport \/ mode # psMode
           pair == again \/ compared # psCompare
           newDiffs == PS!Ask("diffs", shown, 0, <<>>)
           newPair == PS!Ask("pair", shown, compared, <<>>)
           diffs == IF again /\ backend THEN {newDiffs} ELSE {r \in asked : r.kind = "diffs" /\ backend /\ ~again}
           pairs == IF ~backend \/ compared = 0 THEN {}
                    ELSE IF pair THEN {newPair} ELSE {r \in asked : r.kind = "pair"}
<1>1. IsRequest(newDiffs) /\ newDiffs.kind = "diffs" /\ newDiffs.of = shown /\ ~newDiffs.gone
  BY RequestFields
<1>2. IsRequest(newPair) /\ newPair.kind = "pair" /\ newPair.of = shown /\ newPair.base = compared /\ ~newPair.gone
  BY RequestFields
<1>3. /\ psReport' = shown /\ psCompare' = compared /\ psMode' = mode
      /\ psAsked' = PS!Superseded(asked) \cup diffs \cup pairs
      /\ psLoading' = IF ~backend THEN FALSE ELSE (again \/ psLoading)
      /\ psDiffs' = IF backend THEN psDiffs ELSE {}
      /\ psArchived' = IF backend /\ compared # 0 THEN archived ELSE <<0, 0>>
  BY DEF PS!Render
<1>4. \A r \in PS!Superseded(asked) : r \in asked /\ r.kind \notin Effects
  BY DEF PS!Superseded, Effects
<1> HIDE DEF shown, compared, newDiffs, newPair
<1>5. psLoading' \in BOOLEAN
  BY <1>3 DEF SuitesInv
<1>6. AskedForTheShown'
  <2>1. ASSUME NEW r \in PS!Superseded(asked)
        PROVE  IsRequest(r) /\ r.kind \notin Effects /\ (r.gone => r.kind \notin {"list", "baseline"})
    BY <1>4, <2>1 DEF SuitesInv, AskedForTheShown
  <2>2. ASSUME NEW r \in diffs
        PROVE  IsRequest(r) /\ ~r.gone /\ r.kind = "diffs" /\ r.of = shown
    BY <1>1, <2>2 DEF SuitesInv, AskedForTheShown, Effects
  <2>3. ASSUME NEW r \in pairs
        PROVE  IsRequest(r) /\ ~r.gone /\ r.kind = "pair" /\ r.of = shown /\ r.base = compared
    BY <1>2, <2>3 DEF SuitesInv, AskedForTheShown, Effects
  <2> HIDE DEF diffs, pairs
  <2> QED  BY <1>3, <2>1, <2>2, <2>3 DEF AskedForTheShown, Effects
<1>7. ~psLoading' => \A d \in psDiffs' : d[1] = psReport'
  BY <1>3 DEF SuitesInv, PS!ListedIsOfTheSuite
<1>8. psArchived' = <<0, 0>> \/ psLate' \/ PS!Under("pair")' \/ psArchived' = <<psReport', psCompare'>>
  <2>1. CASE ~backend \/ compared = 0
    BY <1>3, <2>1
  <2>2. CASE backend /\ compared # 0 /\ pair
    <3>1. newPair \in psAsked'
      BY <1>3, <2>2
    <3> QED  BY <1>2, <3>1 DEF PS!Under
  <2>3. CASE backend /\ compared # 0 /\ ~pair
    <3>1. psArchived' = archived /\ psReport' = psReport /\ psCompare' = psCompare
      BY <1>3, <2>3
    <3>2. CASE PS!Under("pair")
      <4>1. PICK r \in psAsked : r.kind = "pair" /\ ~r.gone
        BY <3>2 DEF PS!Under
      <4>2. r \in psAsked'
        BY <1>3, <2>3, <4>1
      <4> QED  BY <4>1, <4>2 DEF PS!Under
    <3> QED  BY <2>3, <3>1, <3>2 DEF SuitesInv, PS!ListedIsOfTheSuite
  <2> QED  BY <2>1, <2>2, <2>3
<1> QED  BY <1>5, <1>6, <1>7, <1>8 DEF SuitesInv, PS!ListedIsOfTheSuite

(* What is shown stays, and what is asked about it. *)
LEMMA ShownKeeps ==
    ASSUME SuitesInv, UNCHANGED <<psMode, psReport, psCompare, psDiffs, psLoading, psArchived, psLate>>,
           \A r \in psAsked' : r \in psAsked \/ (psMode # "closed" /\ IsRequest(r) /\ ~r.gone /\ r.kind \notin Effects),
           \A r \in psAsked : r.kind = "pair" => r \in psAsked'
    PROVE  SuitesInv'
<1>1. AskedForTheShown'
  BY DEF SuitesInv, AskedForTheShown, Effects
<1>2. PS!Under("pair") => PS!Under("pair")'
  BY DEF PS!Under
<1> QED  BY <1>1, <1>2 DEF SuitesInv, PS!ListedIsOfTheSuite

LEMMA OpenCloseKeep ==
    ASSUME SuitesInv, PS!Open \/ PS!Close
    PROVE  SuitesInv'
<1>0. psLate' = psLate
  BY DEF PS!Open, PS!Close
<1>1. CASE PS!Open
  <2> DEFINE list == PS!Ask("list", psStoredPin, 0, psStored)
             baseline == PS!Ask("baseline", psServerPin, 0, <<>>)
  <2>1. /\ psMode = "closed" /\ psMode' = "local" /\ psDiffs' = {} /\ psLoading' = FALSE /\ psArchived' = <<0, 0>>
        /\ psAsked' = psAsked \cup {list, baseline}
    BY <1>1 DEF PS!Open, PS!Opened, PS!IsOpen
  <2>2. /\ IsRequest(list) /\ list.kind = "list" /\ ~list.gone
        /\ IsRequest(baseline) /\ baseline.kind = "baseline" /\ ~baseline.gone
    BY RequestFields
  <2> HIDE DEF list, baseline
  <2>3. AskedForTheShown'
    BY <2>1, <2>2 DEF SuitesInv, AskedForTheShown, Effects
  <2> QED  BY <1>0, <2>1, <2>3 DEF SuitesInv, PS!ListedIsOfTheSuite
<1>2. CASE PS!Close
  <2> DEFINE left == {q \in PS!Superseded(psAsked) : q.kind \notin {"list", "baseline"}}
             late(r) == [kind |-> r.kind, of |-> r.of, base |-> r.base, was |-> r.was, gone |-> TRUE]
  <2>1. /\ psMode' = "closed" /\ psDiffs' = {} /\ psLoading' = FALSE /\ psArchived' = <<0, 0>>
        /\ psAsked' = {[r EXCEPT !.gone = TRUE] : r \in left}
    BY <1>2 DEF PS!Close
  <2>2. \A r \in left : r \in psAsked /\ IsRequest(r) /\ r.kind \notin Effects \cup {"list", "baseline"}
    BY DEF PS!Superseded, Effects, SuitesInv, AskedForTheShown
  <2> HIDE DEF left
  <2>3. \A r \in left : [r EXCEPT !.gone = TRUE] = late(r)
    <3> TAKE r \in left
    <3>1. PICK k, o, b, w, g : r = [kind |-> k, of |-> o, base |-> b, was |-> w, gone |-> g]
      BY <2>2 DEF IsRequest
    <3>2. \A t : [r EXCEPT !.gone = t] = [kind |-> k, of |-> o, base |-> b, was |-> w, gone |-> t]
      BY <3>1
    <3>3. late(r) = [kind |-> k, of |-> o, base |-> b, was |-> w, gone |-> TRUE]
      BY <3>1
    <3> QED  BY <3>2, <3>3
  <2>4. \A r \in left : IsRequest(late(r)) /\ late(r).kind = r.kind /\ late(r).gone
    BY DEF IsRequest
  <2> HIDE DEF late
  <2>5. \A r \in psAsked' : IsRequest(r) /\ r.gone /\ r.kind \notin Effects \cup {"list", "baseline"}
    <3> TAKE r \in psAsked'
    <3>1. PICK q \in left : r = late(q)
      BY <2>1, <2>3
    <3> QED  BY <2>2, <2>4, <3>1
  <2>6. AskedForTheShown'
    BY <2>1, <2>5 DEF AskedForTheShown, Effects
  <2> QED  BY <1>0, <2>1, <2>6 DEF SuitesInv, PS!ListedIsOfTheSuite
<1> QED  BY <1>1, <1>2

LEMMA ClicksKeep ==
    ASSUME SuitesInv, PS!Clicks
    PROVE  SuitesInv'
<1>0. psLate \in BOOLEAN /\ psLate' \in BOOLEAN /\ psLate' = psLate
  BY DEF SuitesInv, PS!Clicks, PS!Open, PS!Close, PS!Run, PS!Pin, PS!Filter, PS!Archive, PS!Select, PS!Choose, PS!Load
<1>1. \A kind, of, base, was :
         LET r == PS!Ask(kind, of, base, was)
         IN  IsRequest(r) /\ r.kind = kind /\ ~r.gone
  BY RequestFields
<1>2. CASE PS!Run
  <2> DEFINE r == PS!Ask("run", 0, 0, psHistory)
  <2>1. PS!IsOpen /\ PS!Render(psAsked \cup {r}, psHistory, 0, psCompare, psPin, psFilter, psMode, psArchived, TRUE)
    BY <1>2 DEF PS!Run
  <2>2. IsRequest(r) /\ r.kind = "run" /\ ~r.gone
    BY <1>1
  <2> HIDE DEF r
  <2> QED  BY <1>0, <2>1, <2>2, RenderKeeps DEF PS!IsOpen, Effects
<1>3. CASE PS!Pin \/ PS!Archive
  <2>0. PICK kind \in {"pin", "archive"} :
          \E of, base, was : psAsked' = psAsked \cup {PS!Ask(kind, of, base, was)}
    BY <1>3 DEF PS!Pin, PS!Archive, PS!Begin
  <2>1. PICK of, base, was : psAsked' = psAsked \cup {PS!Ask(kind, of, base, was)}
    BY <2>0
  <2>2. PS!IsOpen /\ UNCHANGED <<psMode, psReport, psCompare, psDiffs, psLoading, psArchived>>
    BY <1>3 DEF PS!Pin, PS!Archive, PS!Shown
  <2> DEFINE r == PS!Ask(kind, of, base, was)
  <2>3. IsRequest(r) /\ r.kind = kind /\ ~r.gone
    BY <1>1
  <2> HIDE DEF r
  <2> QED  BY <1>0, <2>1, <2>2, <2>3, ShownKeeps DEF PS!IsOpen, Effects, r
<1>4. ASSUME NEW s \in Suites, PS!Select(s)
      PROVE  SuitesInv'
  <2>1. CASE psMode = "backend"
    <3> DEFINE r == PS!Ask("select", s, 0, <<>>)
    <3>1. psAsked' = psAsked \cup {r} /\ UNCHANGED <<psMode, psReport, psCompare, psDiffs, psLoading, psArchived>>
      BY <1>4, <2>1 DEF PS!Select, PS!Begin, PS!Shown
    <3>2. IsRequest(r) /\ r.kind = "select" /\ ~r.gone
      BY <1>1
    <3> HIDE DEF r
    <3> QED  BY <1>0, <2>1, <3>1, <3>2, ShownKeeps DEF Effects
  <2>2. CASE psMode # "backend"
    <3>1. psMode # "closed" /\ PS!Render(psAsked, psHistory, s, 0, psPin, psFilter, psMode, psArchived, TRUE)
      BY <1>4, <2>2 DEF PS!Select, PS!Apply, PS!IsOpen
    <3> QED  BY <1>0, <3>1, RenderKeeps
  <2> QED  BY <2>1, <2>2
<1>5. ASSUME NEW s \in Suites, PS!Choose(s)
      PROVE  SuitesInv'
  <2>1. psMode # "closed" /\ PS!Render(psAsked, psHistory, psReport, s, psPin, psFilter, psMode, psArchived, FALSE)
    BY <1>5 DEF PS!Choose, PS!IsOpen
  <2> QED  BY <1>0, <2>1, RenderKeeps
<1>6. CASE PS!Filter
  <2>1. psMode # "closed"
        /\ PS!Render(psAsked, psHistory, psReport, psCompare, psPin, ~psFilter, psMode, psArchived, FALSE)
    BY <1>6 DEF PS!Filter, PS!IsOpen
  <2> QED  BY <1>0, <2>1, RenderKeeps
<1>7. ASSUME NEW d \in psDiffs, PS!Load(d)
      PROVE  SuitesInv'
  <2> DEFINE r == PS!Ask("load", d[1], d[2], psHistory)
  <2>0. psMode # "closed"
    BY <1>7 DEF PS!Load, PS!IsOpen
  <2>1. CASE {d[1], d[2]} \subseteq PS!Seen(psHistory)
    <3>1. PS!Render(psAsked, psStored', d[1], d[2], psPin, FALSE, "backend", d, TRUE)
      BY <1>7, <2>1 DEF PS!Load
    <3> QED  BY <1>0, <2>0, <3>1, RenderKeeps
  <2>2. CASE ~({d[1], d[2]} \subseteq PS!Seen(psHistory))
    <3>1. PS!Render(psAsked \cup {r}, psHistory, psReport, psCompare, psPin, FALSE, psMode, psArchived, FALSE)
      BY <1>7, <2>2 DEF PS!Load
    <3>2. IsRequest(r) /\ r.kind = "load" /\ ~r.gone
      BY <1>1
    <3> HIDE DEF r
    <3> QED  BY <1>0, <2>0, <3>1, <3>2, RenderKeeps DEF Effects
  <2> QED  BY <2>1, <2>2
<1> QED  BY <1>2, <1>3, <1>4, <1>5, <1>6, <1>7, OpenCloseKeep DEF PS!Clicks

(* An answer that is rendered. *)
LEMMA AnswerRendered ==
    ASSUME SuitesInv, NEW r \in psAsked, r.kind # "pair", ~r.gone, psMode # "closed",
           NEW history, NEW report, NEW compare, NEW pin, NEW filter, NEW mode, NEW archived, NEW fresh \in BOOLEAN,
           PS!Render(psAsked \ {r}, history, report, compare, pin, filter, mode, archived, fresh), mode # "closed",
           psLate' \in BOOLEAN, psLate => psLate',
           archived = psArchived \/ fresh \/ psLate' \/ archived = <<psReport, psCompare>>
    PROVE  SuitesInv'
BY RenderKeeps

(* An answer that is not. *)
LEMMA AnswerDropped ==
    ASSUME SuitesInv, NEW r \in psAsked, r.kind # "pair", psAsked' = psAsked \ {r},
           UNCHANGED <<psMode, psReport, psCompare, psDiffs, psLoading, psArchived, psLate>>
    PROVE  SuitesInv'
BY ShownKeeps

LEMMA AnswersKeep ==
    ASSUME SuitesInv, NEW r \in psAsked, PS!Answered(r)
    PROVE  SuitesInv'
<1> USE DEF PS!Shown
<1>0. /\ psLate \in BOOLEAN /\ psLoading \in BOOLEAN
      /\ ~r.gone => psMode # "closed"
      /\ r.kind \in Effects \cup {"list", "baseline"} => ~r.gone
      /\ r.kind \in Effects => r.of = psReport
      /\ r.kind = "pair" => r.base = psCompare
  BY DEF SuitesInv, AskedForTheShown
<1>1. CASE PS!ListAnswered(r) \/ PS!ListFails(r)
  <2>1. r.kind = "list" /\ ~r.gone /\ psMode # "closed" /\ psLate' = psLate
    BY <1>0, <1>1 DEF PS!ListAnswered, PS!ListFails, Effects
  <2>2. CASE PS!ListFails(r)
    <3>1. PS!Render(psAsked \ {r}, psHistory, psReport, psCompare, psPin, psFilter, "local", psArchived, FALSE)
      BY <2>2 DEF PS!ListFails
    <3> QED  BY <1>0, <2>1, <3>1, AnswerRendered
  <2>3. CASE PS!ListAnswered(r)
    <3>1. CASE PS!Recent(psArchive) = <<>> /\ r.of = 0
      BY <2>1, <2>3, <3>1, AnswerDropped DEF PS!ListAnswered
    <3>2. CASE ~(PS!Recent(psArchive) = <<>> /\ r.of = 0)
      <4>1. PICK merged : PS!Render(psAsked \ {r}, merged, psReport, psCompare, psPin, psFilter, "backend",
                                    psArchived, TRUE)
        BY <2>3, <3>2 DEF PS!ListAnswered
      <4> QED  BY <1>0, <2>1, <4>1, AnswerRendered
    <3> QED  BY <3>1, <3>2
  <2> QED  BY <1>1, <2>2, <2>3
<1>2. CASE PS!BaselineAnswered(r)
  <2>1. r.kind = "baseline" /\ ~r.gone /\ psMode # "closed" /\ psLate' = psLate
    BY <1>0, <1>2 DEF PS!BaselineAnswered, Effects
  <2>2. \/ psAsked' = psAsked \ {r} /\ UNCHANGED PS!Shown
        \/ \E p : PS!Render(psAsked \ {r}, psStored', psReport, psCompare, p, psFilter, psMode, psArchived, FALSE)
    BY <1>2 DEF PS!BaselineAnswered
  <2> QED  BY <1>0, <2>1, <2>2, AnswerRendered, AnswerDropped
<1>3. CASE PS!RunEnds(r)
  <2>1. r.kind = "run" /\ psLate' = psLate
    BY <1>3 DEF PS!RunEnds
  <2>2. PICK new, mode :
           mode # "closed" /\
           IF r.gone THEN psAsked' = psAsked \ {r} /\ UNCHANGED PS!Shown
           ELSE PS!Render(psAsked \ {r}, psStored', new, psCompare, psPin, psFilter, mode, psArchived, TRUE)
    <3>1. PICK mode \in {"backend", "local"} :
             IF r.gone THEN psAsked' = psAsked \ {r} /\ UNCHANGED PS!Shown
             ELSE PS!Render(psAsked \ {r}, psStored',
                            CHOOSE s \in Suites : psClass[s] = 0 /\ \A t \in Suites : psClass[t] = 0 => s <= t,
                            psCompare, psPin, psFilter, mode, psArchived, TRUE)
      BY <1>3 DEF PS!RunEnds
    <3> DEFINE new == CHOOSE s \in Suites : psClass[s] = 0 /\ \A t \in Suites : psClass[t] = 0 => s <= t
    <3>2. mode # "closed" /\ IF r.gone THEN psAsked' = psAsked \ {r} /\ UNCHANGED PS!Shown
          ELSE PS!Render(psAsked \ {r}, psStored', new, psCompare, psPin, psFilter, mode, psArchived, TRUE)
      BY <3>1
    <3> HIDE DEF new
    <3> QED  BY <3>2
  <2> QED  BY <1>0, <2>1, <2>2, AnswerRendered, AnswerDropped
<1>4. CASE PS!PinAnswered(r)
  <2>1. r.kind = "pin" /\ psLate' = psLate
    BY <1>4 DEF PS!PinAnswered
  <2>2. PICK answered \in BOOLEAN :
           IF r.gone THEN psAsked' = psAsked \ {r} /\ UNCHANGED PS!Shown
           ELSE PS!Render(psAsked \ {r}, psStored', psReport, psCompare, r.of, psFilter,
                          IF answered THEN "backend" ELSE psMode, psArchived, FALSE)
    BY <1>4 DEF PS!PinAnswered
  <2> QED  BY <1>0, <2>1, <2>2, AnswerRendered, AnswerDropped
<1>5. CASE PS!SelectAnswered(r)
  BY <1>0, <1>5, AnswerRendered, AnswerDropped DEF PS!SelectAnswered, PS!Apply
<1>6. CASE PS!ArchiveAnswered(r)
  <2>1. PICK answered \in BOOLEAN :
           IF r.gone \/ ~answered
           THEN psAsked' = psAsked \ {r} /\ UNCHANGED <<PS!Shown, psLate>>
           ELSE /\ PS!Render(psAsked \ {r}, psHistory, psReport, psCompare, psPin, psFilter, "backend",
                             <<r.of, r.base>>, FALSE)
                /\ psLate' = (psLate \/ <<r.of, r.base>> # <<psReport, psCompare>>)
    BY <1>6 DEF PS!ArchiveAnswered
  <2>2. r.kind = "archive"
    BY <1>6 DEF PS!ArchiveAnswered
  <2>3. CASE r.gone \/ ~answered
    BY <2>1, <2>2, <2>3, AnswerDropped
  <2>4. CASE ~(r.gone \/ ~answered)
    <3>1. psLate' \in BOOLEAN /\ (psLate => psLate') /\ (psLate' \/ <<r.of, r.base>> = <<psReport, psCompare>>)
      BY <2>1, <2>4
    <3> QED  BY <1>0, <2>1, <2>2, <2>4, <3>1, AnswerRendered
  <2> QED  BY <2>3, <2>4
<1>7. CASE PS!LoadAnswered(r)
  <2>1. r.kind = "load" /\ psLate' = psLate
    BY <1>7 DEF PS!LoadAnswered
  <2>2. \/ psAsked' = psAsked \ {r} /\ UNCHANGED PS!Shown
        \/ ~r.gone /\ PS!Render(psAsked \ {r}, PS!Merge(<<r.of, r.base>>, r.was), r.of, r.base, psPin, psFilter,
                                "backend", <<r.of, r.base>>, TRUE)
    BY <1>7 DEF PS!LoadAnswered, PS!Restored
  <2> QED  BY <1>0, <2>1, <2>2, AnswerRendered, AnswerDropped
<1>8. CASE PS!DiffsAnswered(r)
  <2>1. /\ r.kind = "diffs" /\ psLoading' = FALSE /\ psAsked' = psAsked \ {r}
        /\ UNCHANGED <<psMode, psReport, psCompare, psArchived, psLate>>
        /\ \A d \in psDiffs' : d[1] = r.of
    BY <1>8 DEF PS!DiffsAnswered
  <2>2. AskedForTheShown'
    BY <2>1 DEF SuitesInv, AskedForTheShown
  <2>3. PS!Under("pair") => PS!Under("pair")'
    BY <2>1 DEF PS!Under
  <2> QED  BY <1>0, <2>1, <2>2, <2>3 DEF SuitesInv, PS!ListedIsOfTheSuite, Effects
<1>9. CASE PS!PairAnswered(r)
  <2>1. /\ r.kind = "pair" /\ psAsked' = psAsked \ {r}
        /\ UNCHANGED <<psMode, psReport, psCompare, psDiffs, psLoading, psLate>>
        /\ psArchived' \in {<<0, 0>>, <<r.of, r.base>>}
    BY <1>9 DEF PS!PairAnswered
  <2>2. AskedForTheShown'
    BY <2>1 DEF SuitesInv, AskedForTheShown
  <2> QED  BY <1>0, <2>1, <2>2 DEF SuitesInv, PS!ListedIsOfTheSuite, Effects
<1> QED  BY <1>1, <1>2, <1>3, <1>4, <1>5, <1>6, <1>7, <1>8, <1>9 DEF PS!Answered

LEMMA SuitesNext ==
    ASSUME SuitesInv, PS!Next
    PROVE  SuitesInv'
BY ClicksKeep, AnswersKeep DEF PS!Next

LEMMA SuitesQuiet ==
    ASSUME SuitesInv, UNCHANGED suites
    PROVE  SuitesInv'
BY DEF SuitesInv, AskedForTheShown, PS!ListedIsOfTheSuite, PS!Under, suites

(* Once nothing loads, the archived reports listed are of the suite on the screen and the one shown  *)
(* is of the compared pair, unless a pair was archived when another one was shown (the effects of    *)
(* PerfDiagnosticsPanel).                                                                            *)
THEOREM ReportsAreOfTheSuite ==
    Spec => []ListedIsOfTheSuite
<1> DEFINE Inv == view = "suites" => SuitesInv
<1>1. Init => Inv
  BY SuitesInit DEF Init
<1>2. Inv /\ [Next]_vars => Inv'
  BY SuitesNext, SuitesQuiet, OthersKeep
<1>3. Inv => ListedIsOfTheSuite
  BY DEF SuitesInv, ListedIsOfTheSuite
<1> QED  BY <1>1, <1>2, <1>3, PTL DEF Spec

-----------------------------------------------------------------------------
(* The configuration and its copies. *)

IsItem(x) == x = [user |-> x.user, secret |-> x.secret, rest |-> x.rest]
IsConfig(c) ==
    /\ c = [items |-> c.items, active |-> c.active]
    /\ c.items = [i \in DOMAIN c.items |-> c.items[i]]
    /\ \A i \in DOMAIN c.items : IsItem(c.items[i])

(* The edits a screen offers on a copy. *)
Offered(c) == CF!SidebarEdits(c) \cup CF!ProfileEdits(c) \cup CF!CheckBoxes(c) \cup CF!ListEdits(c) \cup CF!NewItems(c)

IsPost(p) ==
    /\ p = [of |-> p.of, base |-> p.base, edit |-> p.edit, body |-> p.body, answer |-> p.answer, late |-> p.late]
    /\ p.of \in CF!Clients /\ p.late \in BOOLEAN /\ IsConfig(p.body)
    /\ p.answer = "none" /\ p.base # CF!NotLoaded =>
          IsConfig(p.base) /\ p.edit \in Offered(p.base) /\ p.body = CF!Edited(p.base, p.edit)
IsGet(g) ==
    /\ g = [of |-> g.of, answer |-> g.answer, late |-> g.late]
    /\ g.of \in CF!Clients /\ g.late \in BOOLEAN /\ (g.answer = CF!NotLoaded \/ IsConfig(g.answer))

ConfigTypes ==
    /\ IsConfig(cfServer) /\ IsConfig(cfMeant)
    /\ cfCopy = [c \in CF!Clients |-> cfCopy[c]]
    /\ \A c \in CF!Clients : cfCopy[c] = CF!NotLoaded \/ IsConfig(cfCopy[c])
    /\ \A p \in cfPosts : IsPost(p)
    /\ \A g \in cfGets : IsGet(g)

Newest(c) == c = CF!Redacted(cfServer)

(* What is on its way and not late is the newest, and a client without it waits for it. *)
NewestComes ==
    /\ \A g \in cfGets : g.answer # CF!NotLoaded /\ ~g.late => Newest(g.answer)
    /\ \A p \in cfPosts : p.answer = "saved" /\ ~p.late => Newest(p.body)
    /\ \A c \in CF!Clients :
         \/ c \in cfDoubt \/ cfCopy[c] = CF!NotLoaded \/ Newest(cfCopy[c])
         \/ \E p \in cfPosts : p.answer # "none"
         \/ \E g \in cfGets : g.of = c

ConfigInv == ConfigTypes /\ NewestComes /\ CF!EditsKeepTheRest

-----------------------------------------------------------------------------

(* A configuration is never the mark of a copy that was not read. *)
LEMMA ConfigIsLoaded ==
    ASSUME NEW c, IsConfig(c)
    PROVE  c # CF!NotLoaded
<1>1. DOMAIN c = {"items", "active"}
  BY DEF IsConfig
<1>2. DOMAIN CF!NotLoaded = {"active"}
  BY DEF CF!NotLoaded
<1>3. "items" \notin {"active"}
  OBVIOUS
<1> QED  BY <1>1, <1>2, <1>3

LEMMA RedactedFields ==
    ASSUME NEW c, IsConfig(c)
    PROVE  /\ IsConfig(CF!Redacted(c)) /\ CF!Redacted(c).active = c.active
           /\ DOMAIN CF!Redacted(c).items = DOMAIN c.items
           /\ \A i \in DOMAIN c.items :
                /\ CF!Redacted(c).items[i].user = c.items[i].user /\ CF!Redacted(c).items[i].secret = 0
                /\ CF!Redacted(c).items[i].rest = c.items[i].rest
<1> DEFINE item(i) == [user |-> c.items[i].user, secret |-> 0, rest |-> c.items[i].rest]
           items == [i \in DOMAIN c.items |-> item(i)]
<1>1. \A i \in DOMAIN c.items : [c.items[i] EXCEPT !.secret = CF!Mask] = item(i)
  BY DEF IsConfig, IsItem, CF!Mask
<1>2. CF!Redacted(c) = [c EXCEPT !.items = items]
  BY <1>1 DEF CF!Redacted
<1>3. CF!Redacted(c) = [items |-> items, active |-> c.active]
  BY <1>2 DEF IsConfig
<1>4. IsConfig([items |-> items, active |-> c.active])
  BY DEF IsConfig, IsItem
<1> QED  BY <1>3, <1>4

LEMMA MergedFields ==
    ASSUME NEW c, NEW prev, IsConfig(c), IsConfig(prev)
    PROVE  LET m == CF!MergeSecrets(c, prev)
               kept(i) == i \in DOMAIN prev.items /\ prev.items[i].user = c.items[i].user
           IN  /\ IsConfig(m) /\ m.active = c.active /\ DOMAIN m.items = DOMAIN c.items
               /\ \A i \in DOMAIN c.items :
                    /\ m.items[i].user = c.items[i].user /\ m.items[i].rest = c.items[i].rest
                    /\ c.items[i].secret = 0 /\ kept(i) => m.items[i].secret = prev.items[i].secret
                    /\ ~(c.items[i].secret = 0 /\ kept(i)) => m.items[i].secret = c.items[i].secret
<1> DEFINE kept(i) == i \in DOMAIN prev.items /\ prev.items[i].user = c.items[i].user
           item(i) == [user |-> c.items[i].user,
                       secret |-> IF c.items[i].secret = 0 /\ kept(i) THEN prev.items[i].secret
                                  ELSE c.items[i].secret,
                       rest |-> c.items[i].rest]
           items == [i \in DOMAIN c.items |-> item(i)]
<1>1. \A i \in DOMAIN c.items :
         (IF c.items[i].secret = CF!Mask /\ i \in DOMAIN prev.items /\ prev.items[i].user = c.items[i].user
          THEN [c.items[i] EXCEPT !.secret = prev.items[i].secret] ELSE c.items[i]) = item(i)
  BY DEF IsConfig, IsItem, CF!Mask
<1>2. CF!MergeSecrets(c, prev) = [c EXCEPT !.items = items]
  BY <1>1 DEF CF!MergeSecrets
<1>3. CF!MergeSecrets(c, prev) = [items |-> items, active |-> c.active]
  BY <1>2 DEF IsConfig
<1>4. IsConfig([items |-> items, active |-> c.active])
  BY DEF IsConfig, IsItem
<1> QED  BY <1>3, <1>4

(* What is offered is possible. *)
LEMMA OfferedCases ==
    ASSUME NEW c, NEW e \in Offered(c)
    PROVE  \/ e.do \in {"rest", "user", "url", "delete"} /\ e.id \in DOMAIN c.items
           \/ e.do = "duplicate" /\ e.id \notin DOMAIN c.items /\ e.of \in DOMAIN c.items
           \/ e.do \in {"add", "connect"} /\ e.id \notin DOMAIN c.items
           \/ e.do \in {"active", "group"}
<1> USE DEF CF!Edit
<1>1. CASE e \in CF!SidebarEdits(c)
  BY <1>1 DEF CF!SidebarEdits, CF!MenuEdits, CF!AddDialog, CF!EditDialog, CF!GroupDialogs
<1>2. CASE e \in CF!ProfileEdits(c) \/ e \in CF!CheckBoxes(c)
  BY <1>2 DEF CF!ProfileEdits, CF!CheckBoxes
<1>3. CASE e \in CF!ListEdits(c) \/ e \in CF!NewItems(c)
  BY <1>3 DEF CF!ListEdits, CF!NewItems
<1> QED  BY <1>1, <1>2, <1>3 DEF Offered

LEMMA PutFields ==
    ASSUME NEW c, IsConfig(c), NEW i, NEW x, IsItem(x)
    PROVE  LET p == CF!Put(c, i, x)
           IN  /\ IsConfig(p) /\ p.active = c.active /\ DOMAIN p.items = DOMAIN c.items \cup {i}
               /\ p.items[i] = x /\ \A j \in DOMAIN c.items \ {i} : p.items[j] = c.items[j]
<1> DEFINE items == [j \in DOMAIN c.items \cup {i} |-> IF j = i THEN x ELSE c.items[j]]
<1>1. CF!Put(c, i, x) = [items |-> items, active |-> c.active]
  BY DEF CF!Put, IsConfig
<1>2. IsConfig([items |-> items, active |-> c.active])
  BY DEF IsConfig, IsItem
<1> QED  BY <1>1, <1>2

LEMMA RegroupedFields ==
    ASSUME NEW c, IsConfig(c)
    PROVE  LET p == CF!Regrouped(c)
           IN  /\ IsConfig(p) /\ p.active = c.active /\ DOMAIN p.items = DOMAIN c.items
               /\ \A j \in DOMAIN c.items :
                    p.items[j].user = c.items[j].user /\ p.items[j].secret = c.items[j].secret /\ p.items[j].rest = 0
<1> DEFINE items == [j \in DOMAIN c.items |-> [user |-> c.items[j].user, secret |-> c.items[j].secret, rest |-> 0]]
<1>1. \A j \in DOMAIN c.items :
         [c.items[j] EXCEPT !.rest = 0] = [user |-> c.items[j].user, secret |-> c.items[j].secret, rest |-> 0]
  BY DEF IsConfig, IsItem
<1>2. CF!Regrouped(c) = [c EXCEPT !.items = items]
  BY <1>1 DEF CF!Regrouped
<1>3. CF!Regrouped(c) = [items |-> items, active |-> c.active]
  BY <1>2 DEF IsConfig
<1>4. IsConfig([items |-> items, active |-> c.active])
  BY DEF IsConfig, IsItem
<1> QED  BY <1>3, <1>4

LEMMA DeletedFields ==
    ASSUME NEW c, IsConfig(c), NEW i
    PROVE  LET p == CF!Deleted(c, i)
               left == DOMAIN c.items \ {i}
           IN  /\ IsConfig(p) /\ DOMAIN p.items = left /\ \A j \in left : p.items[j] = c.items[j]
               /\ c.active = i => p.active = CF!First(left)
               /\ c.active # i => p.active = c.active
<1> DEFINE left == DOMAIN c.items \ {i}
           active == IF c.active = i THEN CF!First(left) ELSE c.active
           items == [j \in left |-> c.items[j]]
<1>1. CF!Deleted(c, i) = [items |-> items, active |-> active]
  BY DEF CF!Deleted, CF!Restrict
<1> HIDE DEF active
<1>2. IsConfig([items |-> items, active |-> active])
  BY DEF IsConfig, IsItem
<1> QED  BY <1>1, <1>2 DEF active

LEMMA ItemFields ==
    ASSUME NEW x, IsItem(x), NEW v
    PROVE  /\ LET user == [x EXCEPT !.user = v]
              IN  IsItem(user) /\ user.user = v /\ user.secret = x.secret /\ user.rest = x.rest
           /\ LET rest == [x EXCEPT !.rest = v]
              IN  IsItem(rest) /\ rest.user = x.user /\ rest.secret = x.secret /\ rest.rest = v
           /\ IsItem([user |-> v, secret |-> 2, rest |-> x.rest])
<1>0. PICK u, w, r : x = [user |-> u, secret |-> w, rest |-> r]
  BY DEF IsItem
<1>1. [x EXCEPT !.user = v] = [user |-> v, secret |-> w, rest |-> r]
  BY <1>0
<1>3. [x EXCEPT !.rest = v] = [user |-> u, secret |-> w, rest |-> v]
  BY <1>0
<1>2. \A a, b, d : IsItem([user |-> a, secret |-> b, rest |-> d])
  BY DEF IsItem
<1> QED  BY <1>0, <1>1, <1>2, <1>3

(* An edit makes a configuration of one. *)
LEMMA EditedIsConfig ==
    ASSUME NEW c, IsConfig(c), NEW e \in Offered(c)
    PROVE  IsConfig(CF!Edited(c, e))
<1>1. CASE e.do = "add" \/ e.do = "connect"
  <2> DEFINE x == [user |-> 1, secret |-> 1, rest |-> 0]
  <2>1. IsItem(x)
    BY DEF IsItem
  <2>2. IsConfig(CF!Added(c, e.id))
    BY <2>1, PutFields DEF CF!Added
  <2>3. IsConfig(CF!AddedActive(c, e.id))
    BY <2>2 DEF CF!AddedActive, IsConfig
  <2> QED  BY <1>1, <2>2, <2>3 DEF CF!Edited
<1>2. CASE e.do \in {"rest", "user", "url", "duplicate"}
  <2>1. \A i \in DOMAIN c.items : IsItem(c.items[i])
    BY DEF IsConfig
  <2>2. \A i \in DOMAIN c.items : \A v :
           /\ IsItem([c.items[i] EXCEPT !.rest = v]) /\ IsItem([c.items[i] EXCEPT !.user = v])
           /\ IsItem([user |-> v, secret |-> 2, rest |-> c.items[i].rest])
    BY <2>1, ItemFields
  <2>3. e.do # "duplicate" => e.id \in DOMAIN c.items
    BY <1>2, OfferedCases
  <2>4. e.do = "duplicate" => e.of \in DOMAIN c.items
    BY <1>2, OfferedCases
  <2>5. CASE e.do = "rest"
    BY <2>2, <2>3, <2>5, PutFields DEF CF!Edited, CF!RestSet
  <2>6. CASE e.do = "user"
    BY <2>2, <2>3, <2>6, PutFields DEF CF!Edited, CF!UserSet
  <2>7. CASE e.do = "url"
    BY <2>2, <2>3, <2>7, PutFields DEF CF!Edited, CF!UrlSet
  <2>8. CASE e.do = "duplicate"
    BY <2>1, <2>4, <2>8, PutFields DEF CF!Edited, CF!Duplicated
  <2> QED  BY <1>2, <2>5, <2>6, <2>7, <2>8
<1>3. CASE e.do = "group"
  BY <1>3, RegroupedFields DEF CF!Edited
<1>4. CASE e.do = "delete"
  BY <1>4, DeletedFields DEF CF!Edited
<1>5. CASE e.do = "active"
  BY <1>5 DEF CF!Edited, CF!Activated, IsConfig
<1> QED  BY <1>1, <1>2, <1>3, <1>4, <1>5, OfferedCases

(* The configuration is the one the edits ask for, but for the secrets of copied items. *)
Alike(s, m, copied) ==
    /\ s.active = m.active /\ DOMAIN s.items = DOMAIN m.items
    /\ \A i \in DOMAIN s.items :
         /\ s.items[i].user = m.items[i].user /\ s.items[i].rest = m.items[i].rest
         /\ i \in copied \/ s.items[i].secret = m.items[i].secret

CopiedBy(e) ==
    IF e.do \in {"duplicate", "user"} THEN cfCopied \cup {e.id}
    ELSE IF e.do \in {"url", "add", "connect"} THEN cfCopied \ {e.id} ELSE cfCopied

(* What the server makes of an edit that puts one item into the newest copy. *)
LEMMA PutIsMerged ==
    ASSUME NEW s, NEW m, IsConfig(s), IsConfig(m), Alike(s, m, cfCopied),
           NEW i, NEW x, NEW y, IsItem(x), IsItem(y), x.user = y.user, x.rest = y.rest, NEW copied,
           copied \ {i} = cfCopied \ {i},
           \/ i \in copied
           \/ x.secret # 0 /\ x.secret = y.secret
           \/ /\ x.secret = 0 /\ i \in DOMAIN s.items /\ x.user = s.items[i].user
              /\ y.secret = s.items[i].secret
    PROVE  Alike(CF!MergeSecrets(CF!Put(CF!Redacted(s), i, x), s), CF!Put(m, i, y), copied)
<1> DEFINE r == CF!Redacted(s)
           c == CF!Put(r, i, x)
           d == CF!Put(m, i, y)
           t == CF!MergeSecrets(c, s)
<1>1. /\ IsConfig(r) /\ r.active = s.active /\ DOMAIN r.items = DOMAIN s.items
      /\ \A j \in DOMAIN s.items :
            r.items[j].user = s.items[j].user /\ r.items[j].secret = 0 /\ r.items[j].rest = s.items[j].rest
  BY RedactedFields
<1>2. /\ IsConfig(c) /\ c.active = r.active /\ DOMAIN c.items = DOMAIN r.items \cup {i}
      /\ c.items[i] = x /\ \A j \in DOMAIN r.items \ {i} : c.items[j] = r.items[j]
  <2> HIDE DEF r
  <2> QED  BY <1>1, PutFields
<1>3. /\ d.active = m.active /\ DOMAIN d.items = DOMAIN m.items \cup {i}
      /\ d.items[i] = y /\ \A j \in DOMAIN m.items \ {i} : d.items[j] = m.items[j]
  BY PutFields
<1> HIDE DEF r, c, d
<1>4. /\ t.active = c.active /\ DOMAIN t.items = DOMAIN c.items
      /\ \A j \in DOMAIN c.items :
           /\ t.items[j].user = c.items[j].user /\ t.items[j].rest = c.items[j].rest
           /\ c.items[j].secret = 0 /\ j \in DOMAIN s.items /\ s.items[j].user = c.items[j].user
              => t.items[j].secret = s.items[j].secret
           /\ ~(c.items[j].secret = 0 /\ j \in DOMAIN s.items /\ s.items[j].user = c.items[j].user)
              => t.items[j].secret = c.items[j].secret
  BY <1>2, MergedFields
<1> HIDE DEF t
<1>5. t.active = d.active /\ DOMAIN t.items = DOMAIN d.items
  BY <1>1, <1>2, <1>3, <1>4 DEF Alike
<1>6. ASSUME NEW j \in DOMAIN s.items \ {i}
      PROVE  t.items[j].user = d.items[j].user /\ t.items[j].rest = d.items[j].rest
             /\ (j \in copied \/ t.items[j].secret = d.items[j].secret)
  <2>1. /\ t.items[j].user = s.items[j].user /\ t.items[j].secret = s.items[j].secret
        /\ t.items[j].rest = s.items[j].rest
    <3>1. j \in DOMAIN c.items /\ c.items[j] = r.items[j]
      BY <1>1, <1>2
    <3>2. c.items[j].user = s.items[j].user /\ c.items[j].secret = 0 /\ c.items[j].rest = s.items[j].rest
      BY <1>1, <3>1
    <3> QED  BY <1>4, <3>1, <3>2
  <2>2. d.items[j] = m.items[j] /\ (j \in cfCopied => j \in copied)
    BY <1>3 DEF Alike
  <2> QED  BY <2>1, <2>2 DEF Alike
<1>7. t.items[i].user = d.items[i].user /\ t.items[i].rest = d.items[i].rest
      /\ (i \in copied \/ t.items[i].secret = d.items[i].secret)
  <2>1. i \in DOMAIN c.items /\ c.items[i] = x /\ d.items[i] = y
    BY <1>2, <1>3
  <2>2. t.items[i].user = x.user /\ t.items[i].rest = x.rest
    BY <1>4, <2>1
  <2>3. i \in copied \/ t.items[i].secret = y.secret
    BY <1>4, <2>1
  <2> QED  BY <2>1, <2>2, <2>3
<1> QED  BY <1>1, <1>2, <1>4, <1>5, <1>6, <1>7 DEF Alike, t, c, d, r

LEMMA ActiveIsMerged ==
    ASSUME NEW s, NEW c, NEW d, IsConfig(s), IsConfig(c), IsConfig(d), NEW a, NEW copied,
           Alike(CF!MergeSecrets(c, s), d, copied)
    PROVE  /\ Alike(CF!MergeSecrets(CF!Activated(c, a), s), CF!Activated(d, a), copied)
           /\ IsConfig(CF!Activated(c, a))
<1>1. \A e : IsConfig(e) => IsConfig(CF!Activated(e, a)) /\ CF!Activated(e, a).active = a
                            /\ CF!Activated(e, a).items = e.items
  <2> TAKE e
  <2> HAVE IsConfig(e)
  <2>1. PICK items, active : e = [items |-> items, active |-> active]
    BY DEF IsConfig
  <2>2. CF!Activated(e, a) = [items |-> items, active |-> a]
    BY <2>1 DEF CF!Activated
  <2>3. CF!Activated(e, a).items = e.items /\ CF!Activated(e, a).active = a
    BY <2>1, <2>2
  <2>4. CF!Activated(e, a) = [items |-> CF!Activated(e, a).items, active |-> CF!Activated(e, a).active]
    BY <2>2
  <2> QED  BY <2>3, <2>4 DEF IsConfig
<1> DEFINE b == CF!Activated(c, a)
           t == CF!MergeSecrets(c, s)
           u == CF!MergeSecrets(b, s)
<1>2. IsConfig(b) /\ b.active = a /\ b.items = c.items /\ CF!Activated(d, a).active = a
      /\ CF!Activated(d, a).items = d.items
  BY <1>1
<1> HIDE DEF b
<1>3. /\ DOMAIN t.items = DOMAIN c.items
      /\ \A i \in DOMAIN c.items :
           /\ t.items[i].user = c.items[i].user /\ t.items[i].rest = c.items[i].rest
           /\ c.items[i].secret = 0 /\ i \in DOMAIN s.items /\ s.items[i].user = c.items[i].user
              => t.items[i].secret = s.items[i].secret
           /\ ~(c.items[i].secret = 0 /\ i \in DOMAIN s.items /\ s.items[i].user = c.items[i].user)
              => t.items[i].secret = c.items[i].secret
  BY MergedFields
<1>4. /\ u.active = b.active /\ DOMAIN u.items = DOMAIN b.items
      /\ \A i \in DOMAIN b.items :
           /\ u.items[i].user = b.items[i].user /\ u.items[i].rest = b.items[i].rest
           /\ b.items[i].secret = 0 /\ i \in DOMAIN s.items /\ s.items[i].user = b.items[i].user
              => u.items[i].secret = s.items[i].secret
           /\ ~(b.items[i].secret = 0 /\ i \in DOMAIN s.items /\ s.items[i].user = b.items[i].user)
              => u.items[i].secret = b.items[i].secret
  BY <1>2, MergedFields
<1> HIDE DEF t, u
<1>5. /\ DOMAIN u.items = DOMAIN t.items
      /\ \A i \in DOMAIN t.items : /\ u.items[i].user = t.items[i].user /\ u.items[i].rest = t.items[i].rest
                                   /\ u.items[i].secret = t.items[i].secret
  BY <1>2, <1>3, <1>4
<1>6. Alike(t, d, copied)
  BY DEF t
<1>7. Alike(u, CF!Activated(d, a), copied)
  BY <1>2, <1>4, <1>5, <1>6 DEF Alike
<1> QED  BY <1>2, <1>7 DEF u, b

(* A copy that is posted as it was read brings the secrets back. *)
LEMMA RedactedIsMerged ==
    ASSUME NEW s, NEW m, IsConfig(s), Alike(s, m, cfCopied)
    PROVE  Alike(CF!MergeSecrets(CF!Redacted(s), s), m, cfCopied)
<1> DEFINE r == CF!Redacted(s)
           t == CF!MergeSecrets(r, s)
<1>1. /\ IsConfig(r) /\ r.active = s.active /\ DOMAIN r.items = DOMAIN s.items
      /\ \A j \in DOMAIN s.items :
            r.items[j].user = s.items[j].user /\ r.items[j].secret = 0 /\ r.items[j].rest = s.items[j].rest
  BY RedactedFields
<1> HIDE DEF r
<1>2. /\ t.active = r.active /\ DOMAIN t.items = DOMAIN r.items
      /\ \A i \in DOMAIN r.items :
           /\ t.items[i].user = r.items[i].user /\ t.items[i].rest = r.items[i].rest
           /\ r.items[i].secret = 0 /\ i \in DOMAIN s.items /\ s.items[i].user = r.items[i].user
              => t.items[i].secret = s.items[i].secret
           /\ ~(r.items[i].secret = 0 /\ i \in DOMAIN s.items /\ s.items[i].user = r.items[i].user)
              => t.items[i].secret = r.items[i].secret
  BY <1>1, MergedFields
<1> HIDE DEF t
<1>3. \A i \in DOMAIN s.items :
         /\ t.items[i].user = s.items[i].user /\ t.items[i].secret = s.items[i].secret
         /\ t.items[i].rest = s.items[i].rest
  BY <1>1, <1>2
<1>4. Alike(t, m, cfCopied)
  BY <1>1, <1>2, <1>3 DEF Alike
<1> QED  BY <1>4 DEF t, r

LEMMA EditIsMerged ==
    ASSUME NEW s, NEW m, IsConfig(s), IsConfig(m), Alike(s, m, cfCopied), NEW e \in Offered(CF!Redacted(s))
    PROVE  Alike(CF!MergeSecrets(CF!Edited(CF!Redacted(s), e), s), CF!Edited(m, e), CopiedBy(e))
<1> DEFINE r == CF!Redacted(s)
<1>1. /\ IsConfig(r) /\ r.active = s.active /\ DOMAIN r.items = DOMAIN s.items
      /\ \A j \in DOMAIN s.items :
            r.items[j].user = s.items[j].user /\ r.items[j].secret = 0 /\ r.items[j].rest = s.items[j].rest
  BY RedactedFields
<1>2. /\ \A i \in DOMAIN s.items : i \in DOMAIN r.items /\ i \in DOMAIN m.items
      /\ \A i \in DOMAIN s.items : IsItem(r.items[i]) /\ IsItem(m.items[i])
  BY <1>1 DEF IsConfig, Alike
<1>3. \A i \in DOMAIN s.items :
         /\ r.items[i].user = m.items[i].user /\ r.items[i].rest = m.items[i].rest
         /\ r.items[i].user = s.items[i].user /\ r.items[i].secret = 0
         /\ i \in cfCopied \/ m.items[i].secret = s.items[i].secret
  BY <1>1 DEF Alike
<1>4. e \in Offered(r)
  OBVIOUS
<1>5. \/ e.do \in {"rest", "user", "url", "delete"} /\ e.id \in DOMAIN s.items
      \/ e.do = "duplicate" /\ e.id \notin DOMAIN s.items /\ e.of \in DOMAIN s.items
      \/ e.do \in {"add", "connect"} /\ e.id \notin DOMAIN s.items
      \/ e.do \in {"active", "group"}
  <2> HIDE DEF r
  <2> QED  BY <1>1, <1>4, OfferedCases
<1>6. CASE e.do \in {"add", "connect"}
  <2> DEFINE x == [user |-> 1, secret |-> 1, rest |-> 0]
  <2>1. IsItem(x) /\ x.secret = 1
    BY DEF IsItem
  <2>2. CopiedBy(e) = cfCopied \ {e.id}
    BY <1>6 DEF CopiedBy
  <2>3. CopiedBy(e) \ {e.id} = cfCopied \ {e.id}
    BY <2>2
  <2>4. IsConfig(CF!Added(r, e.id)) /\ IsConfig(CF!Added(m, e.id))
    <3> HIDE DEF r
    <3> QED  BY <1>1, <2>1, PutFields DEF CF!Added
  <2> HIDE DEF x
  <2>5. Alike(CF!MergeSecrets(CF!Put(r, e.id, x), s), CF!Put(m, e.id, x), CopiedBy(e))
    BY <2>1, <2>3, PutIsMerged
  <2>6. Alike(CF!MergeSecrets(CF!Added(r, e.id), s), CF!Added(m, e.id), CopiedBy(e))
    BY <2>5 DEF CF!Added, x
  <2>7. /\ CF!AddedActive(r, e.id) = CF!Activated(CF!Added(r, e.id), e.id)
        /\ CF!AddedActive(m, e.id) = CF!Activated(CF!Added(m, e.id), e.id)
    BY DEF CF!AddedActive, CF!Activated
  <2>8. Alike(CF!MergeSecrets(CF!AddedActive(r, e.id), s), CF!AddedActive(m, e.id), CopiedBy(e))
    <3> DEFINE c == CF!Added(r, e.id)
               d == CF!Added(m, e.id)
    <3>1. IsConfig(c) /\ IsConfig(d) /\ Alike(CF!MergeSecrets(c, s), d, CopiedBy(e))
      BY <2>4, <2>6
    <3>2. CF!AddedActive(r, e.id) = CF!Activated(c, e.id) /\ CF!AddedActive(m, e.id) = CF!Activated(d, e.id)
      BY <2>7
    <3> HIDE DEF c, d, r
    <3> QED  BY <3>1, <3>2, ActiveIsMerged
  <2> QED  BY <1>6, <2>6, <2>8 DEF CF!Edited
<1>7. CASE e.do = "active"
  <2>1. CopiedBy(e) = cfCopied
    BY <1>7 DEF CopiedBy
  <2>2. Alike(CF!MergeSecrets(r, s), m, cfCopied)
    BY RedactedIsMerged
  <2>3. CF!Edited(r, e) = CF!Activated(r, e.id) /\ CF!Edited(m, e) = CF!Activated(m, e.id)
    BY <1>7 DEF CF!Edited
  <2>4. Alike(CF!MergeSecrets(CF!Edited(r, e), s), CF!Edited(m, e), CopiedBy(e))
    <3> HIDE DEF r
    <3> QED  BY <1>1, <2>1, <2>2, <2>3, ActiveIsMerged
  <2> QED  BY <2>4
<1>8. CASE e.do = "rest"
  <2> DEFINE x == [r.items[e.id] EXCEPT !.rest = 1 - @]
             y == [m.items[e.id] EXCEPT !.rest = 1 - @]
  <2>1. CopiedBy(e) = cfCopied /\ e.id \in DOMAIN s.items
    BY <1>5, <1>8 DEF CopiedBy
  <2>2. IsItem(x) /\ x.user = r.items[e.id].user /\ x.secret = 0 /\ x.rest = 1 - r.items[e.id].rest
    <3> DEFINE o == r.items[e.id]
               w == 1 - o.rest
    <3>1. IsItem(o)
      BY <1>2, <2>1
    <3>2. x = [o EXCEPT !.rest = w]
      OBVIOUS
    <3>3. o.secret = r.items[e.id].secret /\ o.user = r.items[e.id].user /\ o.rest = r.items[e.id].rest
          /\ w = 1 - o.rest
      OBVIOUS
    <3> HIDE DEF o, w, x
    <3>4. IsItem(x) /\ x.secret = o.secret /\ x.rest = w /\ x.user = o.user
      BY <3>1, <3>2, ItemFields
    <3> QED  BY <1>3, <2>1, <3>3, <3>4
  <2>3. IsItem(y) /\ y.user = m.items[e.id].user /\ y.secret = m.items[e.id].secret /\ y.rest = 1 - m.items[e.id].rest
    <3> DEFINE o == m.items[e.id]
               w == 1 - o.rest
    <3>1. IsItem(o)
      BY <1>2, <2>1
    <3>2. y = [o EXCEPT !.rest = w]
      OBVIOUS
    <3>3. o.secret = m.items[e.id].secret /\ o.user = m.items[e.id].user /\ o.rest = m.items[e.id].rest
          /\ w = 1 - o.rest
      OBVIOUS
    <3> HIDE DEF o, w, y
    <3>4. IsItem(y) /\ y.secret = o.secret /\ y.rest = w /\ y.user = o.user
      BY <3>1, <3>2, ItemFields
    <3> QED  BY <1>3, <2>1, <3>3, <3>4
  <2> HIDE DEF x, y, r
  <2>4. x.user = y.user /\ x.rest = y.rest /\ x.user = s.items[e.id].user
        /\ (e.id \in cfCopied \/ y.secret = s.items[e.id].secret)
    BY <1>3, <2>1, <2>2, <2>3
  <2>5. Alike(CF!MergeSecrets(CF!Put(CF!Redacted(s), e.id, x), s), CF!Put(m, e.id, y), CopiedBy(e))
    BY <2>1, <2>2, <2>3, <2>4, PutIsMerged
  <2> QED  BY <1>8, <2>5 DEF CF!Edited, CF!RestSet, x, y, r
<1>9. CASE e.do = "user"
  <2> DEFINE x == [r.items[e.id] EXCEPT !.user = 3 - @]
             y == [m.items[e.id] EXCEPT !.user = 3 - @]
  <2>1. CopiedBy(e) = cfCopied \cup {e.id} /\ e.id \in DOMAIN s.items
    BY <1>5, <1>9 DEF CopiedBy
  <2>2. IsItem(x) /\ x.user = 3 - r.items[e.id].user /\ x.rest = r.items[e.id].rest
    <3> DEFINE o == r.items[e.id]
               w == 3 - o.user
    <3>1. IsItem(o)
      BY <1>2, <2>1
    <3>2. x = [o EXCEPT !.user = w]
      OBVIOUS
    <3>3. o.secret = r.items[e.id].secret /\ o.user = r.items[e.id].user /\ o.rest = r.items[e.id].rest
          /\ w = 3 - o.user
      OBVIOUS
    <3> HIDE DEF o, w, x
    <3>4. IsItem(x) /\ x.secret = o.secret /\ x.user = w /\ x.rest = o.rest
      BY <3>1, <3>2, ItemFields
    <3> QED  BY <1>3, <2>1, <3>3, <3>4
  <2>3. IsItem(y) /\ y.user = 3 - m.items[e.id].user /\ y.rest = m.items[e.id].rest
    <3> DEFINE o == m.items[e.id]
               w == 3 - o.user
    <3>1. IsItem(o)
      BY <1>2, <2>1
    <3>2. y = [o EXCEPT !.user = w]
      OBVIOUS
    <3>3. o.secret = m.items[e.id].secret /\ o.user = m.items[e.id].user /\ o.rest = m.items[e.id].rest
          /\ w = 3 - o.user
      OBVIOUS
    <3> HIDE DEF o, w, y
    <3>4. IsItem(y) /\ y.secret = o.secret /\ y.user = w /\ y.rest = o.rest
      BY <3>1, <3>2, ItemFields
    <3> QED  BY <1>3, <2>1, <3>3, <3>4
  <2> HIDE DEF x, y, r
  <2>4. x.user = y.user /\ x.rest = y.rest
    BY <1>3, <2>1, <2>2, <2>3
  <2>5. Alike(CF!MergeSecrets(CF!Put(CF!Redacted(s), e.id, x), s), CF!Put(m, e.id, y), CopiedBy(e))
    BY <2>1, <2>2, <2>3, <2>4, PutIsMerged
  <2> QED  BY <1>9, <2>5 DEF CF!Edited, CF!UserSet, x, y, r
<1>10. CASE e.do = "url"
  <2> DEFINE x == [user |-> e.user, secret |-> 2, rest |-> r.items[e.id].rest]
             y == [user |-> e.user, secret |-> 2, rest |-> m.items[e.id].rest]
  <2>1. CopiedBy(e) = cfCopied \ {e.id} /\ e.id \in DOMAIN s.items
    BY <1>5, <1>10 DEF CopiedBy
  <2>2. IsItem(x) /\ IsItem(y) /\ x.user = y.user /\ x.secret = 2 /\ y.secret = 2
    BY DEF IsItem
  <2>3. x.rest = y.rest
    BY <1>3, <2>1
  <2>4. CopiedBy(e) \ {e.id} = cfCopied \ {e.id}
    BY <2>1
  <2> HIDE DEF x, y, r
  <2>5. Alike(CF!MergeSecrets(CF!Put(CF!Redacted(s), e.id, x), s), CF!Put(m, e.id, y), CopiedBy(e))
    BY <2>2, <2>3, <2>4, PutIsMerged
  <2> QED  BY <1>10, <2>5 DEF CF!Edited, CF!UrlSet, x, y, r
<1>11. CASE e.do = "duplicate"
  <2> DEFINE x == r.items[e.of]
             y == m.items[e.of]
  <2>1. CopiedBy(e) = cfCopied \cup {e.id} /\ e.of \in DOMAIN s.items
    BY <1>5, <1>11 DEF CopiedBy
  <2>2. IsItem(x) /\ IsItem(y) /\ x.user = y.user /\ x.rest = y.rest
    BY <1>2, <1>3, <2>1
  <2> HIDE DEF x, y, r
  <2>5. Alike(CF!MergeSecrets(CF!Put(CF!Redacted(s), e.id, x), s), CF!Put(m, e.id, y), CopiedBy(e))
    BY <2>1, <2>2, PutIsMerged
  <2> QED  BY <1>11, <2>5 DEF CF!Edited, CF!Duplicated, x, y, r
<1>12. CASE e.do = "group"
  <2>1. CopiedBy(e) = cfCopied /\ CF!Edited(r, e) = CF!Regrouped(r) /\ CF!Edited(m, e) = CF!Regrouped(m)
    BY <1>12 DEF CopiedBy, CF!Edited
  <2> DEFINE c == CF!Regrouped(r)
             d == CF!Regrouped(m)
             t == CF!MergeSecrets(c, s)
  <2>2. /\ IsConfig(c) /\ c.active = s.active /\ DOMAIN c.items = DOMAIN s.items
        /\ \A j \in DOMAIN s.items : c.items[j].user = s.items[j].user /\ c.items[j].secret = 0 /\ c.items[j].rest = 0
    <3> HIDE DEF r
    <3> QED  BY <1>1, <1>3, RegroupedFields
  <2>3. /\ d.active = m.active /\ DOMAIN d.items = DOMAIN m.items
        /\ \A j \in DOMAIN m.items :
              d.items[j].user = m.items[j].user /\ d.items[j].secret = m.items[j].secret /\ d.items[j].rest = 0
    BY RegroupedFields
  <2> HIDE DEF c, d
  <2>4. /\ t.active = c.active /\ DOMAIN t.items = DOMAIN c.items
        /\ \A i \in DOMAIN c.items :
             /\ t.items[i].user = c.items[i].user /\ t.items[i].rest = c.items[i].rest
             /\ c.items[i].secret = 0 /\ i \in DOMAIN s.items /\ s.items[i].user = c.items[i].user
                => t.items[i].secret = s.items[i].secret
             /\ ~(c.items[i].secret = 0 /\ i \in DOMAIN s.items /\ s.items[i].user = c.items[i].user)
                => t.items[i].secret = c.items[i].secret
    BY <2>2, MergedFields
  <2> HIDE DEF t
  <2>5. \A i \in DOMAIN s.items :
           t.items[i].user = s.items[i].user /\ t.items[i].secret = s.items[i].secret /\ t.items[i].rest = 0
    BY <2>2, <2>4
  <2>6. Alike(t, d, cfCopied)
    BY <2>2, <2>3, <2>4, <2>5 DEF Alike
  <2> QED  BY <2>1, <2>6 DEF t, c, d
<1>13. CASE e.do = "delete"
  <2>1. CopiedBy(e) = cfCopied /\ CF!Edited(r, e) = CF!Deleted(r, e.id) /\ CF!Edited(m, e) = CF!Deleted(m, e.id)
    BY <1>13 DEF CopiedBy, CF!Edited
  <2> DEFINE c == CF!Deleted(r, e.id)
             d == CF!Deleted(m, e.id)
             t == CF!MergeSecrets(c, s)
             left == DOMAIN s.items \ {e.id}
  <2>2. /\ IsConfig(c) /\ DOMAIN c.items = left
        /\ s.active = e.id => c.active = CF!First(left)
        /\ s.active # e.id => c.active = s.active
        /\ \A j \in left : c.items[j] = r.items[j]
    <3>1. DOMAIN r.items \ {e.id} = left
      BY <1>1
    <3> DEFINE l == DOMAIN r.items \ {e.id}
    <3> HIDE DEF r
    <3>2. /\ IsConfig(c) /\ DOMAIN c.items = l /\ \A j \in l : c.items[j] = r.items[j]
          /\ r.active = e.id => c.active = CF!First(l)
          /\ r.active # e.id => c.active = r.active
      BY <1>1, DeletedFields
    <3> HIDE DEF c, l, left
    <3>3. l = left
      BY <3>1 DEF l
    <3> QED  BY <1>1, <3>2, <3>3
  <2>3. /\ DOMAIN d.items = left /\ \A j \in left : d.items[j] = m.items[j]
        /\ s.active = e.id => d.active = CF!First(left)
        /\ s.active # e.id => d.active = s.active
    <3>1. DOMAIN m.items \ {e.id} = left /\ m.active = s.active
      BY DEF Alike
    <3> DEFINE l == DOMAIN m.items \ {e.id}
    <3>2. /\ DOMAIN d.items = l /\ \A j \in l : d.items[j] = m.items[j]
          /\ m.active = e.id => d.active = CF!First(l)
          /\ m.active # e.id => d.active = m.active
      BY DeletedFields
    <3> HIDE DEF d, l, left
    <3>3. l = left
      BY <3>1 DEF l
    <3> QED  BY <3>1, <3>2, <3>3
  <2> HIDE DEF c, d
  <2>4. /\ t.active = c.active /\ DOMAIN t.items = DOMAIN c.items
        /\ \A i \in DOMAIN c.items :
             /\ t.items[i].user = c.items[i].user /\ t.items[i].rest = c.items[i].rest
             /\ c.items[i].secret = 0 /\ i \in DOMAIN s.items /\ s.items[i].user = c.items[i].user
                => t.items[i].secret = s.items[i].secret
             /\ ~(c.items[i].secret = 0 /\ i \in DOMAIN s.items /\ s.items[i].user = c.items[i].user)
                => t.items[i].secret = c.items[i].secret
    BY <2>2, MergedFields
  <2> HIDE DEF t
  <2>5. \A i \in left : c.items[i].user = s.items[i].user /\ c.items[i].secret = 0 /\ c.items[i].rest = s.items[i].rest
    BY <1>1, <2>2
  <2>6. \A i \in left : /\ t.items[i].user = s.items[i].user /\ t.items[i].secret = s.items[i].secret
                        /\ t.items[i].rest = s.items[i].rest
    BY <2>2, <2>4, <2>5
  <2>7. Alike(t, d, cfCopied)
    BY <2>2, <2>3, <2>4, <2>6 DEF Alike
  <2> QED  BY <2>1, <2>7 DEF t, c, d
<1> QED  BY <1>5, <1>6, <1>7, <1>8, <1>9, <1>10, <1>11, <1>12, <1>13

LEMMA MeantIsAlike ==
    CF!EditsKeepTheRest <=> Alike(cfServer, cfMeant, cfCopied)
BY DEF CF!EditsKeepTheRest, Alike

LEMMA ConfigInit ==
    ASSUME CF!Init
    PROVE  ConfigInv
<1> DEFINE one == [user |-> 1, secret |-> 1, rest |-> 0]
           items == [i \in {1} |-> one]
           get == [of |-> "app", answer |-> CF!NotLoaded, late |-> FALSE]
<1>1. cfServer = [items |-> items, active |-> 1]
  BY DEF CF!Init
<1>2. IsItem(one)
  BY DEF IsItem
<1>3. IsGet(get) /\ get.answer = CF!NotLoaded
  BY DEF IsGet, CF!Clients
<1> HIDE DEF one
<1>4. IsConfig(cfServer)
  BY <1>1, <1>2 DEF IsConfig
<1> HIDE DEF get
<1>5. cfGets = {get} /\ cfPosts = {} /\ cfCopy = [c \in CF!Clients |-> CF!NotLoaded] /\ cfMeant = cfServer
      /\ cfCopied = {}
  BY DEF CF!Init, get
<1>6. ConfigTypes
  BY <1>3, <1>4, <1>5 DEF ConfigTypes
<1>7. NewestComes
  BY <1>3, <1>5 DEF NewestComes
<1>8. CF!EditsKeepTheRest
  BY <1>5 DEF CF!EditsKeepTheRest
<1> QED  BY <1>6, <1>7, <1>8 DEF ConfigInv

-----------------------------------------------------------------------------
(* Loads. *)

LEMMA ReadKeeps ==
    ASSUME ConfigInv, NEW g \in cfGets, CF!ServerReads(g)
    PROVE  ConfigInv'
<1> DEFINE read == [of |-> g.of, answer |-> CF!Redacted(cfServer), late |-> g.late]
<1>1. IsGet(g) /\ IsConfig(cfServer)
  BY DEF ConfigInv, ConfigTypes
<1>2. IsConfig(CF!Redacted(cfServer))
  BY <1>1, RedactedFields
<1>3. [g EXCEPT !.answer = CF!Redacted(cfServer)] = read
  BY <1>1 DEF IsGet
<1>4. IsGet(read) /\ read.of = g.of /\ Newest(read.answer)
  BY <1>1, <1>2 DEF IsGet, Newest
<1>5. cfGets' = (cfGets \ {g}) \cup {read}
      /\ UNCHANGED <<cfServer, cfCopy, cfPosts, cfMeant, cfCopied, cfDoubt>>
  BY <1>3 DEF CF!ServerReads, CF!marks
<1> HIDE DEF read
<1>6. ConfigTypes'
  BY <1>4, <1>5 DEF ConfigInv, ConfigTypes
<1>7. NewestComes'
  BY <1>4, <1>5 DEF ConfigInv, NewestComes, Newest
<1> QED  BY <1>5, <1>6, <1>7 DEF ConfigInv, CF!EditsKeepTheRest

LEMMA CopyLoadedKeeps ==
    ASSUME ConfigInv, NEW g \in cfGets, CF!Loaded(g)
    PROVE  ConfigInv'
<1>1. IsGet(g) /\ IsConfig(g.answer) /\ g.of \in CF!Clients /\ cfCopy = [c \in CF!Clients |-> cfCopy[c]]
  BY DEF ConfigInv, ConfigTypes, CF!Loaded, IsGet
<1>2. cfGets' = cfGets \ {g} /\ UNCHANGED <<cfServer, cfPosts, cfMeant, cfCopied>>
      /\ cfCopy' = [c \in CF!Clients |-> IF c = g.of THEN g.answer ELSE cfCopy[c]]
      /\ cfDoubt' = IF g.late THEN cfDoubt \cup {g.of} ELSE cfDoubt \ {g.of}
  BY <1>1 DEF CF!Loaded, CF!marks
<1>3. g.late \/ Newest(g.answer)
  BY DEF ConfigInv, NewestComes, CF!Loaded
<1>4. ConfigTypes'
  BY <1>1, <1>2 DEF ConfigInv, ConfigTypes
<1>5. NewestComes'
  BY <1>1, <1>2, <1>3 DEF ConfigInv, NewestComes, Newest
<1> QED  BY <1>2, <1>4, <1>5 DEF ConfigInv, CF!EditsKeepTheRest

LEMMA LoadFailsKeeps ==
    ASSUME ConfigInv, NEW g \in cfGets, CF!LoadFails(g)
    PROVE  ConfigInv'
<1>1. cfGets' = cfGets \ {g} /\ cfDoubt' = cfDoubt \cup {g.of}
      /\ UNCHANGED <<cfServer, cfCopy, cfPosts, cfMeant, cfCopied>>
  BY DEF CF!LoadFails, CF!marks
<1>2. ConfigTypes'
  BY <1>1 DEF ConfigInv, ConfigTypes
<1>3. NewestComes'
  BY <1>1 DEF ConfigInv, NewestComes, Newest
<1> QED  BY <1>1, <1>2, <1>3 DEF ConfigInv, CF!EditsKeepTheRest

LEMMA GetIsGet ==
    ASSUME NEW c \in CF!Clients
    PROVE  IsGet(CF!Get(c)) /\ CF!Get(c).of = c /\ CF!Get(c).answer = CF!NotLoaded
BY DEF IsGet, CF!Get

LEMMA PanelKeeps ==
    ASSUME ConfigInv, CF!OpenSettings \/ CF!CloseSettings
    PROVE  ConfigInv'
<1>1. CASE CF!OpenSettings
  <2>1. cfGets' = cfGets \cup {CF!Get("settings")}
        /\ UNCHANGED <<cfServer, cfCopy, cfPosts, cfMeant, cfCopied, cfDoubt>>
    BY <1>1 DEF CF!OpenSettings, CF!Loads, CF!marks
  <2>2. IsGet(CF!Get("settings")) /\ CF!Get("settings").answer = CF!NotLoaded
    BY GetIsGet DEF CF!Clients
  <2>3. ConfigTypes'
    BY <2>1, <2>2 DEF ConfigInv, ConfigTypes
  <2>4. NewestComes'
    BY <2>1, <2>2 DEF ConfigInv, NewestComes, Newest
  <2> QED  BY <2>1, <2>3, <2>4 DEF ConfigInv, CF!EditsKeepTheRest
<1>2. CASE CF!CloseSettings
  <2>0. cfCopy = [c \in CF!Clients |-> cfCopy[c]]
    BY DEF ConfigInv, ConfigTypes
  <2>1. cfCopy' = [c \in CF!Clients |-> IF c = "settings" THEN CF!NotLoaded ELSE cfCopy[c]]
        /\ cfDoubt' = cfDoubt \ {"settings"} /\ UNCHANGED <<cfServer, cfPosts, cfGets, cfMeant, cfCopied>>
    BY <1>2, <2>0 DEF CF!CloseSettings, CF!marks
  <2>2. ConfigTypes'
    BY <2>1 DEF ConfigInv, ConfigTypes
  <2>3. NewestComes'
    BY <2>1 DEF ConfigInv, NewestComes, Newest
  <2> QED  BY <2>1, <2>2, <2>3 DEF ConfigInv, CF!EditsKeepTheRest
<1> QED  BY <1>1, <1>2

-----------------------------------------------------------------------------
(* Edits. *)

(* A new post changes nothing yet. *)
LEMMA NewPostKeeps ==
    ASSUME ConfigInv, NEW p, IsPost(p), p.answer = "none", cfPosts' = cfPosts \cup {p},
           UNCHANGED <<cfServer, cfCopy, cfGets, cfMeant, cfCopied, cfDoubt>>
    PROVE  ConfigInv'
<1>1. ConfigTypes'
  BY DEF ConfigInv, ConfigTypes
<1>2. NewestComes'
  BY DEF ConfigInv, NewestComes, Newest
<1> QED  BY <1>1, <1>2 DEF ConfigInv, CF!EditsKeepTheRest

LEMMA PostKeeps ==
    ASSUME ConfigInv, NEW c \in CF!Clients, NEW e \in CF!EditsOf(c), CF!Post(c, e)
    PROVE  ConfigInv'
<1> DEFINE p == [of |-> c, base |-> cfCopy[c], edit |-> e, body |-> CF!Edited(cfCopy[c], e),
                 answer |-> "none", late |-> FALSE]
<1>1. IsConfig(cfCopy[c])
  BY DEF ConfigInv, ConfigTypes, CF!Post
<1>2. e \in Offered(cfCopy[c])
  BY DEF CF!EditsOf, CF!PanelEdits, Offered
<1>3. IsConfig(CF!Edited(cfCopy[c], e))
  BY <1>1, <1>2, EditedIsConfig
<1>4. IsPost(p) /\ p.answer = "none"
  BY <1>1, <1>2, <1>3 DEF IsPost
<1>5. cfPosts' = cfPosts \cup {p} /\ UNCHANGED <<cfServer, cfCopy, cfGets, cfMeant, cfCopied, cfDoubt>>
  BY DEF CF!Post, CF!marks
<1> HIDE DEF p
<1> QED  BY <1>4, <1>5, NewPostKeeps

LEMMA OnboardingKeeps ==
    ASSUME ConfigInv, CF!FinishOnboarding
    PROVE  ConfigInv'
<1> DEFINE body == [items |-> CF!Nobody, active |-> 0]
           p == [of |-> "app", base |-> CF!NotLoaded, edit |-> CF!Edit("add", 0, 0, 1), body |-> body,
                 answer |-> "none", late |-> FALSE]
<1>1. IsConfig(body)
  BY DEF IsConfig, CF!Nobody
<1> HIDE DEF body
<1>2. IsPost(p) /\ p.answer = "none"
  BY <1>1 DEF IsPost, CF!Clients
<1>3. cfPosts' = cfPosts \cup {p} /\ UNCHANGED <<cfServer, cfCopy, cfGets, cfMeant, cfCopied, cfDoubt>>
  BY DEF CF!FinishOnboarding, CF!marks, body
<1> HIDE DEF p
<1> QED  BY <1>2, <1>3, NewPostKeeps

(* What is offered depends on the items there are and on the active one. *)
LEMMA SameOffers ==
    ASSUME NEW c, NEW d, DOMAIN c.items = DOMAIN d.items, c.active = d.active
    PROVE  Offered(c) = Offered(d)
<1>1. CF!SidebarEdits(c) = CF!SidebarEdits(d)
  BY DEF CF!SidebarEdits, CF!MenuEdits, CF!AddDialog, CF!EditDialog, CF!GroupDialogs
<1>2. CF!ProfileEdits(c) = CF!ProfileEdits(d) /\ CF!CheckBoxes(c) = CF!CheckBoxes(d)
  BY DEF CF!ProfileEdits, CF!CheckBoxes
<1>3. CF!ListEdits(c) = CF!ListEdits(d) /\ CF!NewItems(c) = CF!NewItems(d)
  BY DEF CF!ListEdits, CF!NewItems
<1> QED  BY <1>1, <1>2, <1>3 DEF Offered

(* The server stores an edit: answers that were on their way are late now. *)
LEMMA StoreKeeps ==
    ASSUME ConfigInv, NEW p \in cfPosts, CF!ServerStores(p)
    PROVE  ConfigInv'
<1> DEFINE stored == CF!MergeSecrets(p.body, cfServer)
           latePost(a) == [of |-> a.of, base |-> a.base, edit |-> a.edit, body |-> a.body, answer |-> a.answer,
                           late |-> a.late \/ a.answer # "none"]
           lateGet(a) == [of |-> a.of, answer |-> a.answer, late |-> a.late \/ a.answer # CF!NotLoaded]
           post(b) == [of |-> p.of, base |-> p.base, edit |-> p.edit, body |-> CF!Redacted(stored), answer |-> b,
                       late |-> p.late]
<1>1. /\ IsPost(p) /\ p.answer = "none" /\ IsConfig(cfServer) /\ IsConfig(cfMeant)
      /\ \A a \in cfPosts : IsPost(a)
      /\ \A a \in cfGets : IsGet(a)
  BY DEF ConfigInv, ConfigTypes, CF!ServerStores
<1>2. IsConfig(stored) /\ IsConfig(CF!Redacted(stored))
  <2>1. IsConfig(stored)
    BY <1>1, MergedFields DEF IsPost
  <2> HIDE DEF stored
  <2> QED  BY <2>1, RedactedFields
<1>3. PICK b \in {"saved", "failed"} :
         cfPosts' = CF!Old(cfPosts \ {p}, "none")
                      \cup {[p EXCEPT !.answer = b, !.body = CF!Redacted(stored)]}
  BY DEF CF!ServerStores
<1>4. [p EXCEPT !.answer = b, !.body = CF!Redacted(stored)] = post(b)
  <2> HIDE DEF stored
  <2>1. PICK o, s, e, y, w, l : p = [of |-> o, base |-> s, edit |-> e, body |-> y, answer |-> w, late |-> l]
    BY <1>1 DEF IsPost
  <2>2. [p EXCEPT !.answer = b] = [of |-> o, base |-> s, edit |-> e, body |-> y, answer |-> b, late |-> l]
    BY <2>1
  <2>3. [[of |-> o, base |-> s, edit |-> e, body |-> y, answer |-> b, late |-> l] EXCEPT !.body = CF!Redacted(stored)]
        = [of |-> o, base |-> s, edit |-> e, body |-> CF!Redacted(stored), answer |-> b, late |-> l]
    OBVIOUS
  <2> QED  BY <2>1, <2>2, <2>3
<1>5. \A a \in cfPosts : [a EXCEPT !.late = @ \/ a.answer # "none"] = latePost(a)
  BY <1>1 DEF IsPost
<1>6. \A a \in cfGets : [a EXCEPT !.late = @ \/ a.answer # CF!NotLoaded] = lateGet(a)
  BY <1>1 DEF IsGet
<1>7. cfPosts' = {latePost(a) : a \in cfPosts \ {p}} \cup {post(b)}
  <2> DEFINE mark(a) == [a EXCEPT !.late = @ \/ a.answer # "none"]
  <2>1. /\ CF!Old(cfPosts \ {p}, "none") = {mark(a) : a \in cfPosts \ {p}}
        /\ \A a \in cfPosts : mark(a) = latePost(a)
    BY <1>5 DEF CF!Old
  <2> HIDE DEF mark, latePost, post
  <2> QED  BY <1>3, <1>4, <2>1
<1>8. cfGets' = {lateGet(a) : a \in cfGets}
  <2> DEFINE mark(a) == [a EXCEPT !.late = @ \/ a.answer # CF!NotLoaded]
  <2>1. cfGets' = {mark(a) : a \in cfGets} /\ \A a \in cfGets : mark(a) = lateGet(a)
    BY <1>6 DEF CF!ServerStores, CF!Old
  <2> HIDE DEF mark, lateGet
  <2> QED  BY <2>1
<1>9. cfServer' = stored /\ UNCHANGED <<cfCopy, cfDoubt>>
  BY DEF CF!ServerStores
<1>10. /\ IsPost(post(b)) /\ post(b).answer = b /\ post(b).body = CF!Redacted(stored)
       /\ \A a \in cfPosts : /\ IsPost(latePost(a)) /\ latePost(a).answer = a.answer
                             /\ latePost(a).late = (a.late \/ a.answer # "none")
  <2>1. IsPost(post(b)) /\ post(b).answer = b /\ post(b).body = CF!Redacted(stored)
    <3> HIDE DEF stored
    <3> QED  BY <1>1, <1>2 DEF IsPost
  <2>2. \A a \in cfPosts : IsPost(latePost(a))
    BY <1>1 DEF IsPost
  <2> QED  BY <2>1, <2>2
<1>11. \A a \in cfGets : /\ IsGet(lateGet(a)) /\ lateGet(a).of = a.of /\ lateGet(a).answer = a.answer
                         /\ lateGet(a).late = (a.late \/ a.answer # CF!NotLoaded)
  BY <1>1 DEF IsGet
<1>12. Alike(cfServer', cfMeant', cfCopied') /\ IsConfig(cfMeant')
  <2>1. CASE p.base = CF!Redacted(cfServer)
    <3>1. p.base # CF!NotLoaded
      BY <1>1, <2>1, RedactedFields, ConfigIsLoaded
    <3>2. p.edit \in Offered(CF!Redacted(cfServer)) /\ p.body = CF!Edited(CF!Redacted(cfServer), p.edit)
      BY <1>1, <2>1, <3>1 DEF IsPost
    <3>3. cfMeant' = CF!Edited(cfMeant, p.edit) /\ cfCopied' = CopiedBy(p.edit)
      BY <2>1 DEF CF!ServerStores, CopiedBy
    <3>4. Alike(cfServer, cfMeant, cfCopied)
      BY MeantIsAlike DEF ConfigInv
    <3>5. Alike(stored, CF!Edited(cfMeant, p.edit), CopiedBy(p.edit))
      BY <1>1, <3>2, <3>4, EditIsMerged
    <3>6. p.edit \in Offered(cfMeant)
      <4>1. DOMAIN CF!Redacted(cfServer).items = DOMAIN cfMeant.items
            /\ CF!Redacted(cfServer).active = cfMeant.active
        BY <1>1, <3>4, RedactedFields DEF Alike
      <4> QED  BY <3>2, <4>1, SameOffers
    <3>7. IsConfig(CF!Edited(cfMeant, p.edit))
      BY <1>1, <3>6, EditedIsConfig
    <3> HIDE DEF stored
    <3> QED  BY <1>9, <3>3, <3>5, <3>7
  <2>2. CASE p.base # CF!Redacted(cfServer)
    <3>1. cfMeant' = stored /\ cfCopied' = cfCopied
      BY <2>2 DEF CF!ServerStores
    <3> HIDE DEF stored
    <3> QED  BY <1>2, <1>9, <3>1 DEF Alike
  <2> QED  BY <2>1, <2>2
<1> HIDE DEF stored, latePost, lateGet, post
<1>13. ConfigTypes'
  <2>1. IsConfig(cfServer') /\ IsConfig(cfMeant')
    BY <1>2, <1>9, <1>12
  <2>2. \A a \in cfPosts' : IsPost(a)
    <3> TAKE a \in cfPosts'
    <3>1. a = post(b) \/ \E q \in cfPosts : a = latePost(q)
      BY <1>7
    <3> QED  BY <1>10, <3>1
  <2>3. \A a \in cfGets' : IsGet(a)
    <3> TAKE a \in cfGets'
    <3>1. \E q \in cfGets : a = lateGet(q)
      BY <1>8
    <3> QED  BY <1>11, <3>1
  <2> QED  BY <1>9, <2>1, <2>2, <2>3 DEF ConfigInv, ConfigTypes
<1>14. NewestComes'
  <2>1. \A a \in cfGets' : a.answer # CF!NotLoaded /\ ~a.late => a.answer = CF!Redacted(cfServer')
    <3> TAKE a \in cfGets'
    <3>1. PICK g \in cfGets : a = lateGet(g)
      BY <1>8
    <3>2. a.answer = g.answer /\ a.late = (g.late \/ g.answer # CF!NotLoaded)
      BY <1>11, <3>1
    <3> QED  BY <3>2
  <2>2. \A a \in cfPosts' : a.answer = "saved" /\ ~a.late => a.body = CF!Redacted(cfServer')
    <3> TAKE a \in cfPosts'
    <3>1. CASE a = post(b)
      BY <1>9, <1>10, <3>1
    <3>2. CASE a # post(b)
      <4>1. PICK q \in cfPosts : a = latePost(q)
        BY <1>7, <3>2
      <4>2. a.answer = q.answer /\ a.late = (q.late \/ q.answer # "none")
        BY <1>10, <4>1
      <4> QED  BY <4>2
    <3> QED  BY <3>1, <3>2
  <2>3. \E a \in cfPosts' : a.answer # "none"
    BY <1>7, <1>10
  <2> QED  BY <2>1, <2>2, <2>3 DEF NewestComes, Newest
<1>15. CF!EditsKeepTheRest'
  BY <1>12 DEF CF!EditsKeepTheRest, Alike
<1> QED  BY <1>13, <1>14, <1>15 DEF ConfigInv

LEMMA RefusedKeeps ==
    ASSUME ConfigInv, NEW p \in cfPosts, CF!StoreRefused(p)
    PROVE  ConfigInv'
<1> DEFINE q == [of |-> p.of, base |-> p.base, edit |-> p.edit, body |-> p.body, answer |-> "failed", late |-> p.late]
<1>1. IsPost(p)
  BY DEF ConfigInv, ConfigTypes
<1>2. [p EXCEPT !.answer = "failed"] = q
  BY <1>1 DEF IsPost
<1>3. IsPost(q) /\ q.answer = "failed"
  BY <1>1 DEF IsPost
<1>4. cfPosts' = (cfPosts \ {p}) \cup {q} /\ UNCHANGED <<cfServer, cfCopy, cfGets, cfMeant, cfCopied, cfDoubt>>
  BY <1>2 DEF CF!StoreRefused, CF!marks
<1> HIDE DEF q
<1>5. ConfigTypes'
  BY <1>3, <1>4 DEF ConfigInv, ConfigTypes
<1>6. NewestComes'
  BY <1>3, <1>4 DEF ConfigInv, NewestComes, Newest
<1> QED  BY <1>4, <1>5, <1>6 DEF ConfigInv, CF!EditsKeepTheRest

LEMMA SavedKeeps ==
    ASSUME ConfigInv, NEW p \in cfPosts, CF!AppSaved(p) \/ CF!SettingsSaved(p) \/ CF!NotSaved(p)
    PROVE  ConfigInv'
<1> DEFINE get == CF!Get("app")
<1>1. IsPost(p) /\ IsConfig(p.body) /\ cfCopy = [c \in CF!Clients |-> cfCopy[c]]
  BY DEF ConfigInv, ConfigTypes, IsPost
<1>2. IsGet(get) /\ get.of = "app" /\ get.answer = CF!NotLoaded
  BY GetIsGet DEF CF!Clients
<1>3. CF!Clients = {"app", "settings"}
  BY DEF CF!Clients
<1>4. cfPosts' = cfPosts \ {p} /\ UNCHANGED <<cfServer, cfMeant, cfCopied>>
  BY DEF CF!AppSaved, CF!SettingsSaved, CF!NotSaved, CF!marks
<1>5. CASE CF!AppSaved(p)
  <2>1. cfGets' = cfGets \cup {get} /\ cfCopy' = cfCopy
        /\ cfDoubt' = IF cfCopy["settings"] = CF!NotLoaded THEN cfDoubt ELSE cfDoubt \cup {"settings"}
    BY <1>5 DEF CF!AppSaved, CF!Loads
  <2> HIDE DEF get
  <2>2. ConfigTypes'
    BY <1>2, <1>4, <2>1 DEF ConfigInv, ConfigTypes
  <2>3. NewestComes'
    BY <1>2, <1>3, <1>4, <2>1 DEF ConfigInv, NewestComes, Newest
  <2> QED  BY <1>4, <2>2, <2>3 DEF ConfigInv, CF!EditsKeepTheRest
<1>6. CASE CF!SettingsSaved(p)
  <2>1. cfGets' = cfGets \cup {get}
        /\ cfDoubt' = IF p.late THEN cfDoubt \cup {"settings"} ELSE cfDoubt
    BY <1>6 DEF CF!SettingsSaved, CF!Loads
  <2>2. \/ cfCopy["settings"] = CF!NotLoaded /\ cfCopy' = cfCopy
        \/ cfCopy' = [c \in CF!Clients |-> IF c = "settings" THEN p.body ELSE cfCopy[c]]
    BY <1>1, <1>6 DEF CF!SettingsSaved
  <2>3. p.late \/ Newest(p.body)
    BY <1>6 DEF CF!SettingsSaved, ConfigInv, NewestComes
  <2> HIDE DEF get
  <2>4. ConfigTypes'
    BY <1>1, <1>2, <1>3, <1>4, <2>1, <2>2 DEF ConfigInv, ConfigTypes
  <2>5. NewestComes'
    <3>1. \A g \in cfGets' : g.answer # CF!NotLoaded /\ ~g.late => Newest(g.answer)'
      BY <1>2, <1>4, <2>1 DEF ConfigInv, NewestComes, Newest
    <3>2. \A q \in cfPosts' : q.answer = "saved" /\ ~q.late => Newest(q.body)'
      BY <1>4 DEF ConfigInv, NewestComes, Newest
    <3>3. "settings" \in cfDoubt' \/ cfCopy'["settings"] = CF!NotLoaded \/ cfCopy'["settings"] = CF!Redacted(cfServer')
      BY <1>3, <1>4, <2>1, <2>2, <2>3 DEF Newest
    <3>4. \E g \in cfGets' : g.of = "app"
      BY <1>2, <2>1
    <3> QED  BY <1>3, <3>1, <3>2, <3>3, <3>4 DEF NewestComes, Newest
  <2> QED  BY <1>4, <2>4, <2>5 DEF ConfigInv, CF!EditsKeepTheRest
<1>7. CASE CF!NotSaved(p)
  <2>1. cfDoubt' = cfDoubt \cup CF!Clients /\ UNCHANGED <<cfCopy, cfGets>>
    BY <1>7 DEF CF!NotSaved
  <2>2. ConfigTypes'
    BY <1>4, <2>1 DEF ConfigInv, ConfigTypes
  <2>3. NewestComes'
    BY <1>4, <2>1 DEF ConfigInv, NewestComes, Newest
  <2> QED  BY <1>4, <2>2, <2>3 DEF ConfigInv, CF!EditsKeepTheRest
<1> QED  BY <1>5, <1>6, <1>7

-----------------------------------------------------------------------------

LEMMA ConfigNext ==
    ASSUME ConfigInv, CF!Next
    PROVE  ConfigInv'
BY PanelKeeps, OnboardingKeeps, ReadKeeps, CopyLoadedKeeps, LoadFailsKeeps, PostKeeps, StoreKeeps, RefusedKeeps, SavedKeeps
   DEF CF!Next

LEMMA ConfigQuiet ==
    ASSUME ConfigInv, UNCHANGED config
    PROVE  ConfigInv'
BY DEF ConfigInv, ConfigTypes, NewestComes, Newest, CF!EditsKeepTheRest, config

LEMMA ConfigAlways ==
    Spec => [](view = "config" => ConfigInv)
<1> DEFINE Inv == view = "config" => ConfigInv
<1>1. Init => Inv
  BY ConfigInit DEF Init
<1>2. Inv /\ [Next]_vars => Inv'
  BY ConfigNext, ConfigQuiet, OthersKeep
<1> QED  BY <1>1, <1>2, PTL DEF Spec

(* An edit made on the newest configuration changes what it is about and keeps the rest, the secrets *)
(* that the client never saw included (merge_secrets_from; the edits of App and SettingsPanel).      *)
THEOREM EditsKeep ==
    Spec => []EditsKeepTheRest
<1>1. (view = "config" => ConfigInv) => EditsKeepTheRest
  BY DEF EditsKeepTheRest, ConfigInv
<1> QED  BY <1>1, ConfigAlways, PTL

(* When no request is under way a client shows the configuration of the server, unless an error, a   *)
(* failed load, answers in another order or a panel opened during a save left an old copy (App       *)
(* initData and refreshConfigOnly, SettingsPanel patchAndSaveConfig).                                *)
THEOREM CopiesAgree ==
    Spec => []CopiesAgreeWhenQuiet
<1>1. (view = "config" => ConfigInv) => CopiesAgreeWhenQuiet
  BY DEF CopiesAgreeWhenQuiet, CF!CopiesAgreeWhenQuiet, ConfigInv, NewestComes, Newest
<1> QED  BY <1>1, ConfigAlways, PTL

-----------------------------------------------------------------------------
(* The values of the cells. *)

(* What a cell of a column can be filled with: a string, a null, or what a conversion makes of a text. *)
Made(c, v) ==
    \/ v = GV!Null
    \/ \E text \in GV!Texts : v = GV!Str(text)
    \/ \E text \in GV!Texts : GV!IsNumeral(text) /\ v = GV!NumberOf(text)
    \/ v = GV!Value("boolean", "1") \/ v = GV!Value("boolean", "true")
    \/ v = GV!Value("object", "{}")

ValuesInv ==
    /\ gvColumn \in GV!Columns /\ (gvColumn.limited => gvColumn.type = "varchar")
    /\ gvText \in GV!Texts
    /\ Made(gvColumn, gvDraft)
    /\ GV!AcceptedIsStorable

(* Whatever it was made of, a value that Save accepts and an insert sends is one the column can hold, *)
(* unless it is of a kind that only the database looks at.                                            *)
LEMMA MadeIsStorable ==
    ASSUME NEW c \in GV!Columns, NEW v, c.limited => c.type = "varchar", Made(c, v),
           GV!ValidateCellValue(c, v, TRUE), ~GV!LeftOut(c, v), ~GV!Unchecked(c, v)
    PROVE  GV!Storable(c, v)
<1> DEFINE num == GV!IsNumericColumn(c)
           bool == GV!IsBooleanColumn(c)
           json == GV!IsJsonColumn(c)
<1>1. /\ json => ~num /\ ~bool
      /\ c.limited => ~num /\ ~bool /\ ~json
  BY DEF GV!IsNumericColumn, GV!IsBooleanColumn, GV!IsJsonColumn
<1>2. /\ GV!Null.is = "null" /\ GV!Str("").is = "string" /\ GV!Str("").text = ""
      /\ GV!Null # GV!Str("")
  BY DEF GV!Null, GV!Str
<1>3. CASE v = GV!Null
  <2>1. c.nullable
    BY <1>2, <1>3 DEF GV!ValidateCellValue, GV!LeftOut
  <2> QED  BY <1>3, <2>1 DEF GV!Storable
<1>4. ASSUME v # GV!Null,
             c.limited => v.text # "long",
             json => GV!IsJson(v.text) \/ v.text = "rounded",
             num \/ bool => (GV!IsNumeral(v.text) /\ (bool => v.text = "1")) \/ v.text = "true"
      PROVE  GV!Storable(c, v)
  <2>1. bool /\ v.text = "1" => GV!InRange(c, v.text)
    BY DEF GV!InRange
  <2>2. num /\ ~bool /\ GV!IsNumeral(v.text) => GV!InRange(c, v.text)
    BY DEF GV!Unchecked
  <2> QED  BY <1>4, <2>1, <2>2 DEF GV!Storable
<1>5. CASE \E text \in GV!Texts : v = GV!Str(text)
  <2>1. v.is = "string"
    BY <1>5 DEF GV!Str
  <2>2. CASE v = GV!Str("")
    <3>1. ~(num \/ bool \/ json) /\ v.text = "" /\ v # GV!Null
      BY <2>2, <1>2 DEF GV!ValidateCellValue, GV!LeftOut
    <3> QED  BY <3>1, <1>4
  <2>3. CASE v # GV!Str("")
    <3>1. v # GV!Null
      BY <2>1, <1>2
    <3>2. /\ c.limited => v.text # "long"
          /\ num => GV!IsNumeral(v.text)
          /\ bool => GV!IsTruth(v.text)
          /\ json => GV!IsJson(v.text)
      BY <2>1, <2>3, <3>1 DEF GV!ValidateCellValue
    <3>3. GV!IsTruth(v.text) => (GV!IsNumeral(v.text) /\ v.text = "1") \/ v.text = "true"
      BY DEF GV!IsTruth, GV!IsNumeral
    <3> QED  BY <3>1, <3>2, <3>3, <1>4
  <2> QED  BY <2>2, <2>3
<1>6. CASE \E text \in GV!Texts : GV!IsNumeral(text) /\ v = GV!NumberOf(text)
  <2>1. PICK text : GV!IsNumeral(text) /\ v = GV!Value("number", IF text = "big" THEN "rounded" ELSE text)
    BY <1>6 DEF GV!NumberOf
  <2>2. v.is = "number" /\ v.text = IF text = "big" THEN "rounded" ELSE text
    BY <2>1 DEF GV!Value
  <2>3. GV!IsNumeral(v.text) /\ v.text # "long" /\ (v.text = "rounded" \/ GV!IsJson(v.text))
    BY <2>1, <2>2 DEF GV!IsNumeral, GV!IsJson
  <2>4. v # GV!Null /\ v # GV!Str("")
    BY <1>2, <2>2
  <2>5. bool => v.text = "1"
    BY <2>2, <2>4 DEF GV!ValidateCellValue
  <2> QED  BY <1>4, <2>3, <2>4, <2>5
<1>7. CASE v = GV!Value("boolean", "1") \/ v = GV!Value("boolean", "true")
  <2>1. v.is = "boolean" /\ (v.text = "1" \/ v.text = "true")
    BY <1>7 DEF GV!Value
  <2>2. GV!IsJson(v.text) /\ (v.text = "1" => GV!IsNumeral(v.text)) /\ v.text # "long"
    BY <2>1 DEF GV!IsNumeral, GV!IsJson
  <2> QED  BY <1>2, <1>4, <2>1, <2>2
<1>8. v # GV!Value("object", "{}")
  <2>1. GV!Value("object", "{}").is = "object"
    BY DEF GV!Value
  <2> QED  BY <2>1 DEF GV!Unchecked
<1> QED  BY <1>3, <1>5, <1>6, <1>7, <1>8 DEF Made

LEMMA ConvertedIsMade ==
    ASSUME NEW c, NEW text \in GV!Texts
    PROVE  /\ GV!IsJson(text) => Made(c, GV!Parsed(text))
           /\ Made(c, GV!Converted(c, text))
<1>1. ASSUME GV!IsJson(text) PROVE Made(c, GV!Parsed(text))
  BY <1>1 DEF Made, GV!Parsed, GV!IsJson, GV!IsNumeral
<1>2. GV!IsBooleanColumn(c) /\ GV!IsTruth(text) => Made(c, GV!Value("boolean", text))
  BY DEF Made, GV!IsTruth
<1>3. GV!IsNumeral(text) => Made(c, GV!NumberOf(text))
  BY DEF Made
<1>4. Made(c, GV!Str(text))
  BY DEF Made
<1> QED  BY <1>1, <1>2, <1>3, <1>4 DEF GV!Converted

LEMMA ImportedIsMade ==
    ASSUME NEW c, NEW text \in GV!Texts
    PROVE  /\ Made(c, GV!CoerceImportedCellValue(c, GV!Str(text)))
           /\ GV!IsJson(text) => Made(c, GV!CoerceImportedCellValue(c, GV!Parsed(text)))
<1>1. Made(c, GV!Str(text)) /\ Made(c, GV!Null)
  BY DEF Made
<1>2. GV!Str(text).is = "string" /\ GV!Str(text).text = text
  BY DEF GV!Str
<1>3. Made(c, GV!CoerceImportedCellValue(c, GV!Str(text)))
  BY <1>1, <1>2, ConvertedIsMade DEF GV!CoerceImportedCellValue
<1>4. ASSUME GV!IsJson(text) PROVE GV!Parsed(text).is # "string"
  BY <1>4 DEF GV!Parsed, GV!IsJson, GV!Null, GV!Value, GV!NumberOf
<1> QED  BY <1>3, <1>4, ConvertedIsMade DEF GV!CoerceImportedCellValue

LEMMA ValuesInit ==
    ASSUME GV!Init
    PROVE  ValuesInv
<1>1. Made(gvColumn, gvDraft)
  BY DEF GV!Init, GV!Drafts, Made, GV!Texts
<1> QED  BY <1>1, MadeIsStorable DEF GV!Init, ValuesInv, GV!AcceptedIsStorable

(* A cell filled with what can be made keeps the invariant. *)
LEMMA FillKeeps ==
    ASSUME ValuesInv, NEW v, NEW source, GV!Fill(v, source), Made(gvColumn, v)
    PROVE  ValuesInv'
<1>1. gvColumn' = gvColumn /\ gvText' = gvText /\ gvDraft' = v
  BY DEF GV!Fill
<1>2. Made(gvColumn, gvDraft)'
  BY <1>1 DEF Made
<1>3. GV!AcceptedIsStorable'
  BY <1>1, MadeIsStorable DEF ValuesInv, GV!AcceptedIsStorable
<1> QED  BY <1>1, <1>2, <1>3 DEF ValuesInv

LEMMA ValuesNext ==
    ASSUME ValuesInv, GV!Next
    PROVE  ValuesInv'
<1> USE DEF ValuesInv
<1>1. Made(gvColumn, GV!Null) /\ Made(gvColumn, GV!Str(gvText)) /\ Made(gvColumn, GV!Str(""))
  BY DEF Made, GV!Texts
<1>2. Made(gvColumn, GV!ResolveLiteralColumnDefault(gvColumn))
  BY <1>1, ConvertedIsMade DEF GV!ResolveLiteralColumnDefault
<1>3. Made(gvColumn, GV!Drafts(gvColumn).duplicate)
  BY <1>1 DEF GV!Drafts
<1>4. CASE GV!Fill(GV!Str(gvText), "typed") \/ GV!SetCellNull \/ GV!ApplyColumnDefault \/ GV!Duplicate
  BY <1>1, <1>2, <1>3, <1>4, FillKeeps DEF GV!SetCellNull, GV!ApplyColumnDefault, GV!Duplicate
<1>5. CASE GV!ImportTsv \/ GV!ImportJson
  BY <1>5, ImportedIsMade, FillKeeps DEF GV!ImportTsv, GV!ImportJson
<1> QED  BY <1>4, <1>5 DEF GV!Next

LEMMA ValuesQuiet ==
    ASSUME ValuesInv, UNCHANGED values
    PROVE  ValuesInv'
BY DEF ValuesInv, values, Made, GV!AcceptedIsStorable

(* An insert never sends what its column cannot hold once Save accepted the cell, whether it was typed, *)
(* set to null, given its default, imported or duplicated (validateCellValue, coerceImportedCellValue,  *)
(* prepareInsertRowPayload of DataTable/index.tsx); objects, and numerals beyond the range of a numeric  *)
(* column, are what Save leaves to the database, and the theorem says nothing of them.                  *)
THEOREM AcceptedCanBeStored ==
    Spec => []AcceptedIsStorable
<1> DEFINE Inv == view = "values" => ValuesInv
<1>1. Init => Inv
  BY ValuesInit DEF Init
<1>2. Inv /\ [Next]_vars => Inv'
  BY ValuesNext, ValuesQuiet, OthersKeep
<1>3. Inv => AcceptedIsStorable
  BY DEF ValuesInv, AcceptedIsStorable
<1> QED  BY <1>1, <1>2, <1>3, PTL DEF Spec

=============================================================================
