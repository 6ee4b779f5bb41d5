---------------------------- MODULE PlanWizards -----------------------------
(***************************************************************************)
(* The screens that make a script, show it and execute it (web-ui            *)
(* VisualSyncWizard, StructureSync and DataTransfer in a StepWizard, and      *)
(* TableDesigner).  What was chosen, the connections, the table and the mode  *)
(* or the edited definition, is one value here, 0 as long as it is incomplete. *)
(***************************************************************************)
EXTENDS Integers, FiniteSets

CONSTANTS PlanInputs,  \* complete choices, positive
          MaxRequests  \* bound on the requests under way

Wizards == {"visual", "structure", "transfer"}
Modes   == [visual |-> {"schema", "data"}, structure |-> {"schema"}, transfer |-> {"csv", "sql", "db"}, designer |-> {"schema"}]

VARIABLES pwScreen,
          pwStep,      \* currentStepIndex, by the id of the step
          pwMode, pwInput,
          pwDiff,      \* schemaDiff and dataDiff: what was compared; in the transfer, sourceColumns are there
          pwPicked,    \* a table or an operation is selected
          pwScript,    \* previewSql, ddl or dml: the input it was made of, 0 for none
          pwLoading, pwFinishing,
          pwAsked,     \* requests under way, each with the input its handler closed over
          pwTo,        \* the last execution: the script and the input shown at the click, and pwLate then
          pwLate       \* a mark of the model: the input changed under a request that carries it, or under its script

pwVars == <<pwScreen, pwStep, pwMode, pwInput, pwDiff, pwPicked, pwScript, pwLoading, pwFinishing, pwAsked, pwTo, pwLate>>

Is(screens) == pwScreen \in screens
NoDiff == [m \in {"schema", "data", "csv"} |-> 0]
Request(kind, input) ==
    LET n == CHOOSE i \in 1..MaxRequests : \A a \in pwAsked : a.n # i
    IN  [n |-> n, kind |-> kind, mode |-> pwMode, input |-> input]
Ask(kind, input) == Cardinality(pwAsked) < MaxRequests /\ pwAsked' = pwAsked \cup {Request(kind, input)}

(* A fresh screen, which loads the connections, or the schema of the table. *)
Fresh(screen, mode) ==
    [step |-> "config", input |-> 0, diff |-> NoDiff, picked |-> FALSE, script |-> 0,
     loading |-> screen \in {"visual", "designer"},
     asked |-> {[n |-> 1, kind |-> "load", mode |-> mode, input |-> 0]}]

Init ==
    /\ pwScreen \in Wizards \cup {"designer"}
    /\ pwMode \in Modes[pwScreen]
    /\ LET f == Fresh(pwScreen, pwMode)
       IN  /\ pwStep = f.step /\ pwInput = f.input /\ pwDiff = f.diff /\ pwPicked = f.picked
           /\ pwScript = f.script /\ pwLoading = f.loading /\ pwAsked = f.asked
    /\ pwFinishing = FALSE /\ pwTo = <<>> /\ pwLate = FALSE

(* The requests whose answers will stand for an input. *)
Carriers == {a \in pwAsked : a.kind \in {"compare", "preview"}}

(* An answer replaces the input on the screen, whatever is open or under way. *)
Replace(inputs) ==
    /\ pwInput' \in inputs
    /\ pwLate' = (pwLate \/ (pwInput' # pwInput /\ (pwScript # 0 \/ Carriers # {})))

(* onCancel after an execution: the wizard is gone, and with it the answers under way. *)
Closed ==
    /\ pwStep' = "config" /\ pwInput' = 0 /\ pwDiff' = NoDiff /\ pwPicked' = FALSE /\ pwScript' = 0
    /\ pwLoading' = FALSE /\ pwFinishing' = FALSE /\ pwAsked' = {} /\ pwLate' = FALSE

-----------------------------------------------------------------------------
(* What is chosen. *)

(* Mutant: the difference of the connections before stays. *)
KeepsDiff == pwDiff' = pwDiff /\ pwPicked' = FALSE /\ pwScript' = 0

(* resetResult *)
ResetResult == pwDiff' = NoDiff /\ pwPicked' = FALSE /\ pwScript' = 0

(* What was made of the choice before is forgotten, so only an answer can be late now. *)
Choose(input, mode) ==
    /\ pwInput' = input /\ pwMode' = mode /\ <<input, mode>> # <<pwInput, pwMode>>
    /\ pwLate' = (Carriers # {})
    /\ UNCHANGED <<pwScreen, pwStep, pwLoading, pwFinishing, pwAsked, pwTo>>

(* The mode buttons, the two selects, the table and its key: not disabled while a request is under way. *)
VisualInput ==
    /\ Is({"visual"}) /\ pwStep = "config"
    /\ \E input \in {0} \cup PlanInputs, mode \in Modes.visual : Choose(input, mode)
    /\ ResetResult
(* The selected tables stay. *)
StructureInput ==
    /\ Is({"structure"}) /\ pwStep = "config"
    /\ \E input \in {0} \cup PlanInputs : Choose(input, pwMode)
    /\ pwDiff' = NoDiff /\ pwScript' = 0 /\ UNCHANGED pwPicked
(* The transfer resets nothing: its script and its columns stay. *)
TransferInput ==
    /\ Is({"transfer"}) /\ pwStep = "config"
    /\ \E input \in {0} \cup PlanInputs, mode \in Modes.transfer : Choose(input, mode)
    /\ UNCHANGED <<pwDiff, pwPicked, pwScript>>
(* Columns, indexes, foreign keys by hand; an open preview covers their fields (not so Suggested). *)
DesignerEdit ==
    /\ Is({"designer"}) /\ ~pwLoading /\ pwScript = 0 /\ pwInput # 0
    /\ \E input \in PlanInputs : Choose(input, pwMode)
    /\ UNCHANGED <<pwDiff, pwPicked, pwScript>>

(* The check boxes and the mapping: the script stays what it was. *)
Pick ==
    /\ Is(Wizards) /\ pwStep = "select" /\ pwPicked' = ~pwPicked
    /\ Is({"visual", "structure"}) => pwDiff[pwMode] # 0
    /\ UNCHANGED <<pwScreen, pwStep, pwMode, pwInput, pwDiff, pwScript, pwLoading, pwFinishing, pwAsked, pwTo, pwLate>>

-----------------------------------------------------------------------------
(* The steps of the wizard. *)

StepValid ==
    CASE Is({"visual"}) /\ pwStep = "config" -> pwDiff[pwMode] # 0
      [] Is({"visual"}) /\ pwStep # "config" -> pwScript # 0
      [] Is({"structure"}) /\ pwStep = "config" -> pwInput # 0
      [] Is({"structure"}) /\ pwStep = "select" -> pwDiff.schema # 0 /\ pwPicked
      [] Is({"structure"}) /\ pwStep \notin {"config", "select"} -> pwScript # 0
      [] Is({"transfer"}) /\ pwStep = "config" ->
            pwInput # 0 /\ (pwMode = "db" \/ pwDiff.csv # 0 \/ (pwMode = "sql" /\ pwScript # 0))
      [] Is({"transfer"}) /\ pwStep = "select" -> pwScript # 0
      [] OTHER -> TRUE

Move(from, to) == pwStep = from /\ pwStep' = to

(* A .sql file has no mapping step. *)
HandleNext ==
    /\ Is(Wizards) /\ ~pwLoading /\ StepValid
    /\ IF pwMode = "sql" THEN Move("config", "preview") ELSE Move("config", "select") \/ Move("select", "preview")
    /\ UNCHANGED <<pwScreen, pwMode, pwInput, pwDiff, pwPicked, pwScript, pwLoading, pwFinishing, pwAsked, pwTo, pwLate>>
HandlePrev ==
    /\ Is(Wizards) /\ ~pwLoading /\ ~pwFinishing
    /\ IF pwMode = "sql" THEN Move("preview", "config") ELSE Move("preview", "select") \/ Move("select", "config")
    /\ UNCHANGED <<pwScreen, pwMode, pwInput, pwDiff, pwPicked, pwScript, pwLoading, pwFinishing, pwAsked, pwTo, pwLate>>

-----------------------------------------------------------------------------
(* Requests. *)

VisualCompare ==
    /\ Is({"visual"}) /\ pwStep = "config" /\ pwInput # 0 /\ ~pwLoading
    /\ Ask("compare", pwInput) /\ pwLoading' = TRUE /\ pwScript' = 0
    /\ UNCHANGED <<pwScreen, pwStep, pwMode, pwInput, pwDiff, pwPicked, pwFinishing, pwTo, pwLate>>
(* Its button is not disabled by a comparison under way. *)
StructureCompare ==
    /\ Is({"structure"}) /\ pwStep = "config" /\ pwInput # 0
    /\ Ask("compare", pwInput) /\ pwLoading' = TRUE
    /\ UNCHANGED <<pwScreen, pwStep, pwMode, pwInput, pwDiff, pwPicked, pwScript, pwFinishing, pwTo, pwLate>>
(* handleSourceNext: a .sql file is its own script; a database has no columns to show. *)
TransferParse ==
    /\ Is({"transfer"}) /\ pwStep = "config" /\ pwInput # 0
    /\ Ask("compare", pwInput) /\ pwLoading' = TRUE
    /\ pwDiff' = IF pwMode = "db" THEN NoDiff ELSE pwDiff
    /\ UNCHANGED <<pwScreen, pwStep, pwMode, pwInput, pwPicked, pwScript, pwFinishing, pwTo, pwLate>>

(* The data script is made of the difference that is shown, the schema script of the connections. *)
VisualPreview ==
    /\ Is({"visual"}) /\ pwStep = "select" /\ ~pwLoading /\ pwDiff[pwMode] # 0
    /\ pwMode = "schema" => pwPicked
    /\ Ask("preview", IF pwMode = "data" THEN pwDiff.data ELSE pwInput) /\ pwLoading' = TRUE
    /\ UNCHANGED <<pwScreen, pwStep, pwMode, pwInput, pwDiff, pwPicked, pwScript, pwFinishing, pwTo, pwLate>>
(* handleGenerateDdl, handleMappingNext *)
WizardPreview ==
    /\ Is({"structure", "transfer"}) /\ pwStep = "select" /\ pwPicked
    /\ Ask("preview", pwInput) /\ pwLoading' = TRUE
    /\ UNCHANGED <<pwScreen, pwStep, pwMode, pwInput, pwDiff, pwPicked, pwScript, pwFinishing, pwTo, pwLate>>
(* handleSave: by its button, or by the shortcut, which works while the table is loaded again. *)
DesignerPreview ==
    /\ Is({"designer"}) /\ pwInput # 0
    /\ Ask("preview", pwInput)
    /\ UNCHANGED <<pwScreen, pwStep, pwMode, pwInput, pwDiff, pwPicked, pwScript, pwLoading, pwFinishing, pwTo, pwLate>>
(* handleAISuggestIndexes *)
SuggestIndexes ==
    /\ Is({"designer"}) /\ ~pwLoading /\ pwScript = 0 /\ pwInput # 0
    /\ \A a \in pwAsked : a.kind # "suggest"
    /\ Ask("suggest", pwInput)
    /\ UNCHANGED <<pwScreen, pwStep, pwMode, pwInput, pwDiff, pwPicked, pwScript, pwLoading, pwFinishing, pwTo, pwLate>>
ClosePreview ==
    /\ Is({"designer"}) /\ pwScript # 0 /\ pwScript' = 0
    /\ UNCHANGED <<pwScreen, pwStep, pwMode, pwInput, pwDiff, pwPicked, pwLoading, pwFinishing, pwAsked, pwTo, pwLate>>

(* handleExecute: the script goes to the connection chosen now. *)
Execute ==
    /\ Is(Wizards) /\ pwStep = "preview" /\ ~pwLoading /\ ~pwFinishing /\ pwScript # 0
    /\ Ask("execute", pwScript) /\ pwTo' = <<pwScript, pwInput, pwLate>>
    /\ pwFinishing' = TRUE /\ pwLoading' = ~Is({"structure"})
    /\ UNCHANGED <<pwScreen, pwStep, pwMode, pwInput, pwDiff, pwPicked, pwScript, pwLate>>
ConfirmSave ==
    /\ Is({"designer"}) /\ pwScript # 0 /\ ~pwFinishing
    /\ Ask("execute", pwScript) /\ pwTo' = <<pwScript, pwInput, pwLate>> /\ pwFinishing' = TRUE
    /\ UNCHANGED <<pwScreen, pwStep, pwMode, pwInput, pwDiff, pwPicked, pwScript, pwLoading, pwLate>>

-----------------------------------------------------------------------------
(* Answers, in any order. *)

Answered(a) == a \in pwAsked /\ pwAsked' = pwAsked \ {a}

Loaded(a) ==
    /\ a.kind = "load" /\ Answered(a) /\ pwLoading' = FALSE
    /\ Replace({pwInput} \cup PlanInputs \cup (IF Is({"structure"}) THEN {0} ELSE {}))
    /\ UNCHANGED <<pwScreen, pwStep, pwMode, pwDiff, pwPicked, pwScript, pwFinishing, pwTo>>

(* The indexes of the click with the suggested ones: over later edits, and under an open preview. *)
Suggested(a) ==
    /\ a.kind = "suggest" /\ Answered(a)
    /\ Replace({pwInput} \cup PlanInputs)
    /\ UNCHANGED <<pwScreen, pwStep, pwMode, pwDiff, pwPicked, pwScript, pwLoading, pwFinishing, pwTo>>

Compared(a) ==
    /\ a.kind = "compare" /\ Answered(a) /\ pwLoading' = FALSE
    /\ \/ /\ Is({"visual", "structure"}) /\ pwDiff' = [pwDiff EXCEPT ![a.mode] = a.input]
          /\ pwPicked' \in BOOLEAN /\ UNCHANGED pwScript
       \/ /\ Is({"transfer"}) /\ a.mode = "csv" /\ pwDiff' = [pwDiff EXCEPT !.csv = a.input]
          /\ pwPicked' = TRUE /\ UNCHANGED pwScript
       \/ /\ Is({"transfer"}) /\ a.mode = "sql" /\ pwScript' = a.input
          /\ UNCHANGED <<pwDiff, pwPicked>>
       \/ Is({"transfer"}) /\ a.mode = "db" /\ UNCHANGED <<pwDiff, pwPicked, pwScript>>
    /\ UNCHANGED <<pwScreen, pwStep, pwMode, pwInput, pwFinishing, pwTo, pwLate>>

Previewed(a) ==
    /\ a.kind = "preview" /\ Answered(a) /\ pwScript' = a.input
    /\ pwLoading' = (pwLoading /\ Is({"designer"}))
    /\ UNCHANGED <<pwScreen, pwStep, pwMode, pwInput, pwDiff, pwPicked, pwFinishing, pwTo, pwLate>>

(* The wizard closes; a transfer has its job and waits; the designer loads the table again. *)
Executed(a) ==
    /\ a.kind = "execute" /\ a \in pwAsked
    /\ \/ Is({"visual", "structure"}) /\ Closed
       \/ /\ Is({"transfer"}) /\ pwAsked' = pwAsked \ {a} /\ pwLoading' = FALSE /\ pwFinishing' = FALSE
          /\ UNCHANGED <<pwStep, pwInput, pwDiff, pwPicked, pwScript, pwLate>>
       \/ /\ Is({"designer"}) /\ pwAsked' = (pwAsked \ {a}) \cup {[a EXCEPT !.kind = "load"]}
          /\ pwScript' = 0 /\ pwLoading' = TRUE /\ pwFinishing' = FALSE
          /\ UNCHANGED <<pwStep, pwInput, pwDiff, pwPicked, pwLate>>
    /\ UNCHANGED <<pwScreen, pwMode, pwTo>>

(* An error is shown; what was there stays. *)
Failed(a) ==
    /\ Answered(a)
    /\ pwLoading' = (pwLoading /\ Is({"designer"}) /\ a.kind # "load")
    /\ pwFinishing' = (pwFinishing /\ a.kind # "execute")
    /\ UNCHANGED <<pwScreen, pwStep, pwMode, pwInput, pwDiff, pwPicked, pwScript, pwTo, pwLate>>

Inputs   == VisualInput \/ StructureInput \/ TransferInput \/ DesignerEdit \/ Pick
Requests == VisualCompare \/ StructureCompare \/ TransferParse \/ VisualPreview \/ WizardPreview
            \/ DesignerPreview \/ SuggestIndexes \/ ClosePreview \/ Execute \/ ConfirmSave

Next ==
    \/ Inputs \/ HandleNext \/ HandlePrev \/ Requests
    \/ \E a \in pwAsked : Loaded(a) \/ Suggested(a) \/ Compared(a) \/ Previewed(a) \/ Executed(a) \/ Failed(a)

-----------------------------------------------------------------------------

(* What was executed was made for the connections, the table or the edits shown at the click:   *)
(* the wizards forget the script when one of them changes by hand.  The promise does not hold,   *)
(* and is not stated, for the transfer, which forgets nothing; for an input that changed under a *)
(* comparison or a preview, whose answer then comes for the one before; and for edits that a     *)
(* load or the AI's indexes replaced under an open preview.  It holds again from the next choice *)
(* by hand with no such request under way (resetResult, the selects of StructureSync,            *)
(* handleAISuggestIndexes, confirmSave).                                                         *)
ExecutesWhatIsShown ==
    ~Is({"transfer"}) /\ pwTo # <<>> /\ ~pwTo[3] => pwTo[1] = pwTo[2]
=============================================================================
