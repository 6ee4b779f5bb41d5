----------------------------- MODULE GridLayout -----------------------------
(***************************************************************************)
(* The columns of the table grid (web-ui DataTable): their order, the hidden *)
(* ones and the ones with a width of their own, kept in localStorage.        *)
(***************************************************************************)
EXTENDS Integers, SequencesExt, Ranks

CONSTANT GridColumns  \* the columns the table may have, integers

VARIABLES glColumns,  \* the columns of the schema, in its order
          glOrder, glHidden, glWidth,  \* columnLayout: order, hidden, widths
          glStored    \* the layout in localStorage

glVars == <<glColumns, glOrder, glHidden, glWidth, glStored>>

Default(columns) == [order |-> columns, hidden |-> {}, width |-> {}]
Empty == Default(<<>>)
Layout == [order |-> glOrder, hidden |-> glHidden, width |-> glWidth]

(* normalizeColumnLayout: known columns keep their place, new ones go last, one stays visible. *)
Normalized(layout, columns) ==
    LET known == {i \in DOMAIN layout.order : layout.order[i] \in ToSet(columns)}
        new   == {i \in DOMAIN columns : columns[i] \notin ToSet(layout.order)}
        order == Kept(layout.order, known) \o Kept(columns, new)
        hidden == layout.hidden \cap ToSet(columns)
    IN  [order |-> order,
         hidden |-> IF columns # <<>> /\ hidden = ToSet(columns) THEN hidden \ {Head(order)} ELSE hidden,
         width |-> layout.width \cap ToSet(columns)]

Becomes(layout) ==
    /\ glOrder' = layout.order /\ glHidden' = layout.hidden /\ glWidth' = layout.width
    /\ glStored' = layout

(* The first effects store the empty layout of the first render before the saved one is read. *)
Mount(columns) == LET layout == Normalized(Empty, columns) IN Becomes(layout)

Tables == {s \in UNION {[1..n -> GridColumns] : n \in 1..Cardinality(GridColumns)} : IsInjective(s)}

Init ==
    /\ glColumns = InOrder(GridColumns)
    /\ glOrder = glColumns /\ glHidden = {} /\ glWidth = {} /\ glStored = Default(glColumns)

Remount == Mount(glColumns) /\ UNCHANGED glColumns

(* The schema arrives with other columns; the layout is read back from localStorage. *)
SchemaChanges(columns) ==
    /\ columns # glColumns /\ glColumns' = columns
    /\ Becomes(Normalized(glStored, columns))

MoveColumn(i, delta) ==
    /\ i + delta \in DOMAIN glOrder
    /\ Becomes([Layout EXCEPT !.order = [@ EXCEPT ![i] = glOrder[i + delta], ![i + delta] = glOrder[i]]])
    /\ UNCHANGED glColumns

(* Mutant: the last visible column can be hidden. *)
ToggleAny(c) ==
    /\ Becomes([Layout EXCEPT !.hidden = IF c \in @ THEN @ \ {c} ELSE @ \cup {c}])
    /\ UNCHANGED glColumns

ToggleColumnVisibility(c) ==
    /\ c \in glHidden \/ Cardinality(ToSet(glOrder) \ glHidden) > 1
    /\ Becomes([Layout EXCEPT !.hidden = IF c \in @ THEN @ \ {c} ELSE @ \cup {c}])
    /\ UNCHANGED glColumns

(* The drag of a header's edge; the width is held between 120 and 640 pixels. *)
Resize(c) ==
    /\ Becomes([Layout EXCEPT !.width = @ \cup {c}])
    /\ UNCHANGED glColumns

ResetColumnLayout ==
    /\ Becomes(Default(glColumns))
    /\ UNCHANGED glColumns

Next ==
    \/ Remount \/ ResetColumnLayout
    \/ \E columns \in Tables : SchemaChanges(columns)
    \/ \E i \in DOMAIN glOrder, delta \in {-1, 1} : MoveColumn(i, delta)
    \/ \E c \in ToSet(glOrder) : ToggleColumnVisibility(c) \/ Resize(c)

Spec == Init /\ [][Next]_glVars

-----------------------------------------------------------------------------

(* Through moves, toggles, resizes and a schema that gains and loses columns, every column of  *)
(* the table has one place in the grid and one of them is visible (columnLayout).              *)
SomeColumnStaysVisible ==
    /\ IsInjective(glOrder) /\ ToSet(glOrder) = ToSet(glColumns)
    /\ ToSet(glOrder) \ glHidden # {}
    /\ glHidden \cup glWidth \subseteq ToSet(glColumns)
=============================================================================
