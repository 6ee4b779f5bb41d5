----------------------------- MODULE GridValues -----------------------------
(***************************************************************************)
(* The cell values of the table grid (web-ui DataTable/index.tsx): what an   *)
(* imported text or a schema default becomes, what a draft starts with, what *)
(* Save accepts and what an insert sends.  A value is [is, text]: a string   *)
(* of one of Texts, null, or the number, boolean or object that text denotes.*)
(***************************************************************************)
EXTENDS Naturals

Types == {"int", "tinyint", "tinyint(1)", "boolean", "json", "varchar", "date"}
Texts == {"", "null", "1", "12.5", "300", "big", "true", "word", "long", "{}", "{broken", "now()"}

Columns == [type : Types, nullable : BOOLEAN, auto : BOOLEAN, limited : BOOLEAN, pk : BOOLEAN]

Null == [is |-> "null", text |-> ""]
Str(text) == [is |-> "string", text |-> text]
Value(is, text) == [is |-> is, text |-> text]

VARIABLES gvColumn, gvText, gvDraft, gvSource

gvVars == <<gvColumn, gvText, gvDraft, gvSource>>

-----------------------------------------------------------------------------
(* Kinds of columns. *)

IsNumericColumn(c) == c.type \in {"int", "tinyint", "tinyint(1)"}
IsBooleanColumn(c) == c.type \in {"boolean", "tinyint(1)"}
IsJsonColumn(c)    == c.type = "json"

IsNumeral(text) == text \in {"1", "12.5", "300", "big", "rounded"}
IsTruth(text)   == text \in {"1", "true"}
IsJson(text)    == text \in {"null", "1", "12.5", "300", "big", "true", "{}"}

(* Number(): a numeral above 2^53 becomes the nearest double. *)
NumberOf(text) == Value("number", IF text = "big" THEN "rounded" ELSE text)

(* JSON.parse *)
Parsed(text) ==
    CASE text = "null" -> Null [] text = "true" -> Value("boolean", text)
      [] text = "{}" -> Value("object", text) [] OTHER -> NumberOf(text)

(* What both conversions do with a text that is neither empty nor a null. *)
Converted(c, text) ==
    IF (IsJsonColumn(c) \/ text \in {"{}", "{broken"}) /\ IsJson(text) THEN Parsed(text)
    ELSE IF IsBooleanColumn(c) /\ IsTruth(text) THEN Value("boolean", text)
    ELSE IF IsNumericColumn(c) /\ IsNumeral(text) THEN NumberOf(text)
    ELSE Str(text)

CoerceImportedCellValue(c, v) ==
    IF v.is # "string" \/ v.text = "" THEN v
    ELSE IF v.text = "null" /\ c.nullable THEN Null
    ELSE Converted(c, v.text)

(* The default of the schema: now() and its like are left to the server. *)
SupportsDefault(c) == gvText # "now()"
ResolveLiteralColumnDefault(c) ==
    IF gvText = "" THEN Str("") ELSE IF gvText = "null" THEN Null ELSE Converted(c, gvText)

Drafts(c) ==
    [empty |-> Str(""),
     duplicate |-> IF c.pk \/ c.auto THEN (IF c.nullable THEN Null ELSE Str("")) ELSE Str(gvText)]

-----------------------------------------------------------------------------

(* Mutant: a string in a numeric column is not looked at. *)
ValidAnyString(c, v, isNew) ==
    CASE v = Null      -> c.nullable \/ (isNew /\ c.auto)
      [] v = Str("")   -> (isNew /\ c.auto) \/ ~(IsNumericColumn(c) \/ IsBooleanColumn(c) \/ IsJsonColumn(c))
      [] v.is = "string" /\ v # Str("") -> c.limited => v.text # "long"
      [] OTHER -> TRUE

(* validateCellValue: TRUE when there is no message. *)
ValidateCellValue(c, v, isNew) ==
    CASE v = Null    -> c.nullable \/ (isNew /\ c.auto)
      [] v = Str("") -> (isNew /\ c.auto) \/ ~(IsNumericColumn(c) \/ IsBooleanColumn(c) \/ IsJsonColumn(c))
      [] v.is = "string" /\ v # Str("") ->
            /\ c.limited => v.text # "long"
            /\ IsNumericColumn(c) => IsNumeral(v.text)
            /\ IsBooleanColumn(c) => IsTruth(v.text)
            /\ IsJsonColumn(c) => IsJson(v.text)
      [] v.is = "number" -> IsBooleanColumn(c) => v.text = "1"
      [] OTHER -> TRUE

(* prepareInsertRowPayload: a generated column without a value is left out. *)
LeftOut(c, v) == c.auto /\ v \in {Null, Str("")}

Init ==
    /\ gvColumn \in {c \in Columns : c.limited => c.type = "varchar"}
    /\ gvText \in Texts
    /\ gvDraft = Drafts(gvColumn).empty /\ gvSource = "empty"

(* A cell is typed, set to null, given its default, imported from TSV or JSON, or duplicated. *)
Fill(v, source) ==
    /\ gvSource = "empty" /\ gvDraft' = v /\ gvSource' = source
    /\ UNCHANGED <<gvColumn, gvText>>

SetCellNull == gvColumn.nullable /\ Fill(Null, "null")
ApplyColumnDefault == SupportsDefault(gvColumn) /\ Fill(ResolveLiteralColumnDefault(gvColumn), "default")
ImportTsv  == Fill(CoerceImportedCellValue(gvColumn, Str(gvText)), "tsv")
ImportJson == IsJson(gvText) /\ Fill(CoerceImportedCellValue(gvColumn, Parsed(gvText)), "json")
Duplicate  == Fill(Drafts(gvColumn).duplicate, "duplicate")

Next ==
    \/ Fill(Str(gvText), "typed") \/ SetCellNull \/ ApplyColumnDefault
    \/ ImportTsv \/ ImportJson \/ Duplicate

-----------------------------------------------------------------------------

(* The numerals that a column has room for: 300 is beyond a tinyint, and "big" beyond each. *)
InRange(c, text) ==
    CASE IsBooleanColumn(c)   -> text = "1"
      [] c.type = "tinyint"   -> text \in {"1", "12.5"}
      [] OTHER                -> text \in {"1", "12.5", "300"}

(* What the column can hold: a null only if it is nullable, a value of its kind, length and range. *)
Storable(c, v) ==
    IF v = Null THEN c.nullable
    ELSE /\ c.limited => v.text # "long"
         /\ IsJsonColumn(c) => IsJson(v.text) \/ v.text = "rounded"
         /\ IsNumericColumn(c) \/ IsBooleanColumn(c) =>
               (IsNumeral(v.text) /\ InRange(c, v.text)) \/ v.text = "true"

(* What Save leaves to the database: an object that came from JSON, and a numeral in a numeric *)
(* column that holds no booleans, whose range the pattern of validateCellValue does not know.  *)
Unchecked(c, v) ==
    \/ v.is = "object"
    \/ IsNumericColumn(c) /\ ~IsBooleanColumn(c) /\ IsNumeral(v.text) /\ ~InRange(c, v.text)

(* An insert never sends what its column cannot hold, whichever way the cell was filled, once  *)
(* Save accepted it.  What goes to the server unchecked is left out: the cells of Unchecked,   *)
(* and dates, of which the model knows no bad one (validateCellValue, coerceImportedCellValue, *)
(* prepareInsertRowPayload).                                                                   *)
AcceptedIsStorable ==
    ValidateCellValue(gvColumn, gvDraft, TRUE) /\ ~LeftOut(gvColumn, gvDraft)
        /\ ~Unchecked(gvColumn, gvDraft) => Storable(gvColumn, gvDraft)
=============================================================================
