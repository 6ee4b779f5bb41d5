------------------------------ MODULE RowSync ------------------------------
(***************************************************************************)
(* The row-level data synchronisation engine (core_lib, sync/mysql_engine) *)
(* on one table with a single-column primary key.  Compare splits the      *)
(* primary keys into ranges and compares each range of the source with the *)
(* same range of the target; Preview reads the unequal ranges again and    *)
(* collects the rows to insert, update and delete; Deploy applies them in  *)
(* one transaction.  A second Compare may then verify the result.          *)
(*                                                                         *)
(* The engine issues one query at a time and holds no snapshot between two *)
(* of them, so every query is a step of its own and other sessions may     *)
(* write either table in between.                                          *)
(*                                                                         *)
(* A table is a function from primary keys to row contents, NoRow where no *)
(* row has that key.  Two row sets have the same checksum iff they are     *)
(* equal (collisions of the CRC are left out).                             *)
(***************************************************************************)
EXTENDS Integers, Sequences, FiniteSets, FiniteSetsExt, TLC

CONSTANTS
  PK,          \* the primary keys that occur
  Values,      \* the row contents that occur
  NoRow,       \* no row has this key
  NoKey,       \* the None of an Option<String> key
  Modes,       \* the sync modes the requests use
  ActionSets,  \* the action filters the preview requests use
  ChunkSize,   \* rows per chunk asked of compare
  RowLimit,    \* max_rows_per_chunk
  MaxRows,     \* max_rows of a preview
  MaxWrites    \* bound: writes by other sessions in one behaviour

ASSUME KeyAssumption == PK \subseteq Int /\ IsFiniteSet(PK) /\ NoKey \notin PK
ASSUME ValueAssumption == NoRow \notin Values
ASSUME RequestAssumption ==
  /\ Modes \subseteq {"mirror", "upsert_only"}
  /\ ActionSets \subseteq SUBSET {"insert", "update", "delete"}
ASSUME BoundAssumption ==
  /\ ChunkSize \in Nat \ {0} /\ RowLimit \in Nat \ {0}
  /\ MaxRows \in Nat \ {0} /\ MaxWrites \in Nat

VARIABLES
  source, target,  \* the two tables
  mode,            \* the mode of the job
  phase,           \* the query the engine issues next
  srcBounds, tgtBounds, \* the min and max key compare read
  cursor,          \* the last key listed
  ranges,          \* the ranges of compare, in order
  equal,           \* equal[i]: range i compared equal
  idx,             \* the range the engine works on
  rows,            \* the source rows read for that range
  actions,         \* the filter of the preview request
  ins, upd, del,   \* the rows the preview collected
  found,           \* how many rows the preview collected
  truncated,       \* the preview stopped at MaxRows
  verifying,       \* this is the compare after a deploy
  dirty, writes    \* the keys other sessions wrote, and how often they wrote

tables == <<source, target>>
request == <<mode, actions>>
listing == <<srcBounds, tgtBounds, cursor, ranges>>
preview == <<ins, upd, del, found, truncated>>
others == <<dirty, writes>>
vars == <<tables, request, phase, listing, equal, idx, rows, preview,
          verifying, others>>

EmptyMap == [k \in {} |-> NoRow]

\* The rows collected so far, with the new ones.
Over(new, old) ==
  [k \in DOMAIN new \cup DOMAIN old |->
     IF k \in DOMAIN new THEN new[k] ELSE old[k]]

Maps == UNION {[S -> Values] : S \in SUBSET PK}
KeyOrNone == PK \cup {NoKey}
PkRange == [start : KeyOrNone, startIncl : BOOLEAN,
            end : KeyOrNone, endIncl : BOOLEAN]
BoundsType == [min : KeyOrNone, max : KeyOrNone]
Tables == [PK -> Values \cup {NoRow}]
AllActions == {"insert", "update", "delete"}
Phases == {"bounds", "targetBounds", "list", "checkSource", "checkTarget",
           "compared", "previewSource", "previewTarget", "previewed",
           "deployed", "verified", "failed"}

-----------------------------------------------------------------------------
(***************************************************************************)
(* The queries.                                                            *)
(***************************************************************************)
Rows(t) == {k \in PK : t[k] # NoRow}

\* ORDER BY pk LIMIT n
FirstN(S, n) == {k \in S : Cardinality({q \in S : q < k}) < n}

\* SELECT MIN(pk), MAX(pk)
Bounds(t) ==
  IF Rows(t) = {} THEN [min |-> NoKey, max |-> NoKey]
                  ELSE [min |-> Min(Rows(t)), max |-> Max(Rows(t))]

PkListAfter(t, last) ==
  FirstN({k \in Rows(t) : last = NoKey \/ k > last}, ChunkSize)

InRange(r, k) ==
  /\ r.start = NoKey \/ k > r.start \/ (r.startIncl /\ k = r.start)
  /\ r.end = NoKey \/ k < r.end \/ (r.endIncl /\ k = r.end)

\* Mutant: the limit of the query is one short.
RowsShort(t, r) ==
  LET keys == FirstN({k \in Rows(t) : InRange(r, k)}, RowLimit - 1)
  IN  [k \in keys |-> t[k]]

RowsInRange(t, r) ==
  LET keys == FirstN({k \in Rows(t) : InRange(r, k)}, RowLimit)
  IN  [k \in keys |-> t[k]]

\* Mutant: only the row counts are compared.
SameCount(s, t) == Cardinality(DOMAIN s) = Cardinality(DOMAIN t)

\* checksum_rows and the row count of two row sets agree
SameRows(s, t) == s = t

-----------------------------------------------------------------------------
(***************************************************************************)
(* The ranges of compare.                                                  *)
(***************************************************************************)
Whole == [start |-> NoKey, startIncl |-> TRUE, end |-> NoKey, endIncl |-> TRUE]

\* Mutant: the end of a chunk is left out of it.
ChunkOpenEnd(keys) ==
  [start |-> Min(keys), startIncl |-> TRUE, end |-> Max(keys), endIncl |-> FALSE]

ChunkRange(keys) ==
  [start |-> Min(keys), startIncl |-> TRUE, end |-> Max(keys), endIncl |-> TRUE]

HeadRange(sb, tb) ==
  IF tb.min # NoKey /\ sb.min # NoKey /\ tb.min < sb.min
  THEN <<[Whole EXCEPT !.end = sb.min, !.endIncl = FALSE]>>
  ELSE <<>>

TailRange(sb, tb) ==
  IF tb.max # NoKey /\ sb.max # NoKey /\ tb.max > sb.max
  THEN <<[Whole EXCEPT !.start = sb.max, !.startIncl = FALSE]>>
  ELSE <<>>

\* The first range from i on that compared unequal.
NextDifferent(eq, i) ==
  LET later == {j \in i .. Len(eq) : ~eq[j]}
  IN  IF later = {} THEN Len(eq) + 1 ELSE Min(later)

-----------------------------------------------------------------------------
Init ==
  /\ source \in Tables /\ target \in Tables
  /\ mode \in Modes /\ actions = AllActions
  /\ phase = "bounds" /\ verifying = FALSE
  /\ srcBounds = [min |-> NoKey, max |-> NoKey]
  /\ tgtBounds = [min |-> NoKey, max |-> NoKey]
  /\ cursor = NoKey /\ ranges = <<>> /\ equal = <<>> /\ idx = 1
  /\ rows = EmptyMap
  /\ ins = EmptyMap /\ upd = EmptyMap /\ del = {}
  /\ found = 0 /\ truncated = FALSE
  /\ dirty = {} /\ writes = 0

-----------------------------------------------------------------------------
(***************************************************************************)
(* Compare.                                                                *)
(***************************************************************************)
FetchSourceBounds ==
  /\ phase = "bounds"
  /\ srcBounds' = Bounds(source)
  /\ phase' = "targetBounds"
  /\ UNCHANGED <<tables, request, tgtBounds, cursor, ranges, equal, idx, rows,
                 preview, verifying, others>>

CompareDone == IF verifying THEN "verified" ELSE "compared"

\* With both tables empty there is nothing to compare; with only the source
\* empty one unbounded range stands for everything.
FetchTargetBounds ==
  /\ phase = "targetBounds"
  /\ LET tb == Bounds(target) IN
     /\ tgtBounds' = tb
     /\ \/ /\ srcBounds.min # NoKey
           /\ ranges' = HeadRange(srcBounds, tb)
           /\ phase' = "list"
        \/ /\ srcBounds.min = NoKey /\ tb.min # NoKey
           /\ ranges' = <<Whole>>
           /\ phase' = "checkSource"
        \/ /\ srcBounds.min = NoKey /\ tb.min = NoKey
           /\ ranges' = <<>>
           /\ phase' = CompareDone
  /\ UNCHANGED <<tables, request, srcBounds, cursor, equal, idx, rows, preview,
                 verifying, others>>

ListChunk ==
  /\ phase = "list"
  /\ LET keys == PkListAfter(source, cursor) IN
     /\ keys # {}
     /\ ranges' = Append(ranges, ChunkRange(keys))
     /\ cursor' = Max(keys)
  /\ UNCHANGED <<tables, request, phase, srcBounds, tgtBounds, equal, idx, rows,
                 preview, verifying, others>>

\* Mutant: only a short page ends the list.
EndListOnShortPage ==
  /\ phase = "list"
  /\ Cardinality(PkListAfter(source, cursor)) \in 1 .. (ChunkSize - 1)
  /\ phase' = "checkSource"
  /\ UNCHANGED <<tables, request, listing, equal, idx, rows, preview, verifying,
                 others>>

EndList ==
  /\ phase = "list"
  /\ PkListAfter(source, cursor) = {}
  /\ ranges' = ranges \o TailRange(srcBounds, tgtBounds)
  /\ phase' = IF ranges' = <<>> THEN CompareDone ELSE "checkSource"
  /\ UNCHANGED <<tables, request, srcBounds, tgtBounds, cursor, equal, idx, rows,
                 preview, verifying, others>>

CheckSource ==
  /\ phase = "checkSource"
  /\ rows' = RowsInRange(source, ranges[idx])
  /\ phase' = "checkTarget"
  /\ UNCHANGED <<tables, request, listing, equal, idx, preview, verifying, others>>

CheckTarget ==
  /\ phase = "checkTarget"
  /\ equal' = Append(equal, SameRows(rows, RowsInRange(target, ranges[idx])))
  /\ idx' = idx + 1
  /\ rows' = EmptyMap
  /\ phase' = IF idx < Len(ranges) THEN "checkSource" ELSE CompareDone
  /\ UNCHANGED <<tables, request, listing, preview, verifying, others>>

-----------------------------------------------------------------------------
(***************************************************************************)
(* Preview.  The rows of a range sit in a hash map, so the loop visits them*)
(* in any order; before each row it stops if MaxRows were found.  Take is  *)
(* the set of outcomes of that loop: cand, the rows among all that differ, *)
(* room, how many more fit.                                                *)
(***************************************************************************)
Take(all, cand, room) ==
  {o \in [picked : SUBSET cand, cut : BOOLEAN] :
     LET n == Cardinality(cand) IN
     /\ Cardinality(o.picked) = IF n < room THEN n ELSE room
     /\ n < room => ~o.cut
     /\ n > room => o.cut
     /\ n = room => /\ o.cut => all # cand
                    /\ room = 0 /\ all # {} => o.cut}

StartPreview(a) ==
  /\ phase = "compared"
  /\ actions' = a
  /\ ins' = EmptyMap /\ upd' = EmptyMap /\ del' = {}
  /\ found' = 0 /\ truncated' = FALSE
  /\ idx' = NextDifferent(equal, 1)
  /\ phase' = "previewSource"
  /\ UNCHANGED <<tables, mode, listing, equal, rows, verifying, others>>

PreviewSource ==
  /\ phase = "previewSource"
  /\ idx <= Len(ranges) /\ ~truncated
  /\ rows' = RowsInRange(source, ranges[idx])
  /\ phase' = "previewTarget"
  /\ UNCHANGED <<tables, request, listing, equal, idx, preview, verifying, others>>

\* The delete loop runs in mirror mode only, and not after a cut.
PreviewTarget ==
  /\ phase = "previewTarget"
  /\ LET old  == RowsInRange(target, ranges[idx])
         S    == DOMAIN rows
         T    == DOMAIN old
         diff == {k \in S : k \in T => rows[k] # old[k]}
         room == MaxRows - found
     IN \E p \in Take(S, diff, room) :
        \E d \in (IF p.cut \/ mode # "mirror"
                  THEN {[picked |-> {}, cut |-> p.cut]}
                  ELSE Take(T, T \ S, room - Cardinality(p.picked))) :
          /\ ins' = Over([k \in p.picked \ T |-> rows[k]], ins)
          /\ upd' = Over([k \in p.picked \cap T |-> rows[k]], upd)
          /\ del' = del \cup d.picked
          /\ found' = found + Cardinality(p.picked) + Cardinality(d.picked)
          /\ truncated' = d.cut
  /\ rows' = EmptyMap
  /\ idx' = NextDifferent(equal, idx + 1)
  /\ phase' = "previewSource"
  /\ UNCHANGED <<tables, request, listing, equal, verifying, others>>

\* The action filter drops whole categories, after they counted.
Allowed(action, collected, none) ==
  IF action \in actions THEN collected ELSE none

EndPreview ==
  /\ phase = "previewSource"
  /\ idx > Len(ranges) \/ truncated
  /\ ins' = Allowed("insert", ins, EmptyMap)
  /\ upd' = Allowed("update", upd, EmptyMap)
  /\ del' = Allowed("delete", del, {})
  /\ phase' = "previewed"
  /\ UNCHANGED <<tables, request, listing, equal, idx, rows, found, truncated,
                 verifying, others>>

-----------------------------------------------------------------------------
(***************************************************************************)
(* Deploy: the deletes, the inserts and the updates, in that order, in one *)
(* transaction.                                                            *)
(***************************************************************************)
\* Mutant: the updates are left out.
StatementsNoUpdate(t) ==
  [k \in PK |-> IF k \in DOMAIN ins THEN ins[k]
                ELSE IF mode = "mirror" /\ k \in del THEN NoRow
                ELSE t[k]]

\* Mutant: the deletes are emitted for the other mode.
StatementsOtherMode(t) ==
  LET upserts == Over(upd, ins) IN
  [k \in PK |-> IF k \in DOMAIN upserts THEN upserts[k]
                ELSE IF mode = "upsert_only" /\ k \in del THEN NoRow
                ELSE t[k]]

Statements(t) ==
  LET upserts == Over(upd, ins) IN
  [k \in PK |-> IF k \in DOMAIN upserts THEN upserts[k]
                ELSE IF mode = "mirror" /\ k \in del THEN NoRow
                ELSE t[k]]

\* The commit may be reported as timed out although it took effect.
DeployCommit ==
  /\ phase = "previewed"
  /\ target' = Statements(target)
  /\ phase' \in {"deployed", "failed"}
  /\ UNCHANGED <<source, request, listing, equal, idx, rows, preview, verifying,
                 others>>

StartVerify ==
  /\ phase = "deployed"
  /\ phase' = "bounds" /\ verifying' = TRUE
  /\ srcBounds' = [min |-> NoKey, max |-> NoKey]
  /\ tgtBounds' = [min |-> NoKey, max |-> NoKey]
  /\ cursor' = NoKey /\ ranges' = <<>> /\ equal' = <<>> /\ idx' = 1
  /\ UNCHANGED <<tables, request, rows, preview, others>>

\* A query fails or times out: the call returns the error, its locals are
\* dropped and an open transaction is rolled back.
Fail ==
  /\ phase \notin {"compared", "deployed", "verified", "failed"}
  /\ phase' = "failed"
  /\ rows' = EmptyMap
  /\ UNCHANGED <<tables, request, listing, equal, idx, preview, verifying, others>>

-----------------------------------------------------------------------------
\* Other sessions write the tables whenever they like.
OtherWrite ==
  /\ writes < MaxWrites
  /\ phase \notin {"verified", "failed"}
  /\ \E k \in PK, v \in Values \cup {NoRow} :
       /\ \/ source' = [source EXCEPT ![k] = v] /\ target' = target
          \/ target' = [target EXCEPT ![k] = v] /\ source' = source
       /\ tables' # tables
       /\ dirty' = dirty \cup {k}
  /\ writes' = writes + 1
  /\ UNCHANGED <<request, phase, listing, equal, idx, rows, preview, verifying>>

Compare == FetchSourceBounds \/ FetchTargetBounds \/ ListChunk \/ EndList
           \/ CheckSource \/ CheckTarget
Preview == PreviewSource \/ PreviewTarget \/ EndPreview

Next == \/ Compare
        \/ \E a \in ActionSets : StartPreview(a)
        \/ Preview
        \/ DeployCommit \/ StartVerify
        \/ Fail
        \/ OtherWrite

Spec == Init /\ [][Next]_vars

\* A call the server started runs on: each await ends, by its answer or by
\* the timeout every query of the engine is wrapped in.
FairSpec == Spec /\ WF_vars(Compare) /\ WF_vars(Preview)

-----------------------------------------------------------------------------
TypeOK ==
  /\ source \in Tables /\ target \in Tables
  /\ mode \in Modes /\ actions \in SUBSET AllActions
  /\ phase \in Phases /\ verifying \in BOOLEAN
  /\ srcBounds \in BoundsType /\ tgtBounds \in BoundsType
  /\ cursor \in KeyOrNone
  /\ ranges \in Seq(PkRange) /\ equal \in Seq(BOOLEAN)
  /\ idx \in Nat \ {0}
  /\ rows \in Maps /\ ins \in Maps /\ upd \in Maps /\ del \in SUBSET PK
  /\ found \in 0 .. MaxRows /\ truncated \in BOOLEAN
  /\ dirty \in SUBSET PK /\ writes \in 0 .. MaxWrites

Covered(k) == \E i \in 1 .. Len(ranges) : InRange(ranges[i], k)
Listed == phase \notin {"bounds", "targetBounds", "list", "failed"}
Stable == PK \ dirty

\* Every source row that no session touched since compare began lies in a
\* range, whatever is inserted or deleted around it while the chunks are
\* listed one query at a time (the loop over fetch_pk_list_after).
StableSourceRowsCovered ==
  Listed => \A k \in Rows(source) \cap Stable : Covered(k)

\* The listed chunks follow one another: no key is in two of them, so no row
\* is compared, counted or repaired twice through the chunks.
ChunksAscend ==
  \A i, j \in 1 .. Len(ranges) :
    i < j /\ ranges[i].end # NoKey /\ ranges[j].start # NoKey
          /\ ranges[i].start # NoKey /\ ranges[j].end # NoKey
    => ranges[i].end < ranges[j].start

\* A range reported equal is equal: on every key of it that no other session
\* wrote the two tables agree, although its two halves were read at different
\* times and each through a LIMIT (compare and fetch_rows_in_range).
EqualVerdictIsSound ==
  \A i \in 1 .. Len(equal) : equal[i] =>
    \A k \in Stable : InRange(ranges[i], k) => source[k] = target[k]

\* A preview never asks for the deletion of a row the source has, unless some
\* session wrote that key meanwhile (the delete loop of preview).
NoStableSourceRowDeleted ==
  \A k \in del \cap Stable : source[k] = NoRow

\* Deploying an uncut, unfiltered preview brings every covered key that no
\* other session wrote to the state of the source: its row is there with the
\* source's contents, and in mirror mode a row the source lacks is gone, as
\* long as no range can hit the row limit (preview, generate_statements and
\* deploy together).
DeployConverges ==
  phase = "deployed" /\ ~truncated /\ actions = AllActions =>
    \A k \in Stable : Covered(k) =>
      /\ source[k] # NoRow => target[k] = source[k]
      /\ source[k] = NoRow /\ mode = "mirror" /\ Cardinality(PK) <= RowLimit
         => target[k] = NoRow

\* The compare after such a deploy finds no different chunk (what e2e-runner
\* asserts and perf-sync reports as passed).
VerifyFindsNoDifference ==
  phase = "verified" /\ ~truncated /\ actions = AllActions /\ mode = "mirror"
    /\ dirty = {} /\ Cardinality(PK) <= RowLimit
    => \A i \in 1 .. Len(equal) : equal[i]

\* Listing the chunks ends: the cursor passes every key (the loop has no
\* other exit, and no cancellation).
CompareEnds == phase = "list" ~> phase # "list"

\* What the verification is taken to mean: a mirror deploy that verifies
\* without a different chunk has made the target identical to the source.
VerifiedMirrorIsIdentical ==
  phase = "verified" /\ ~truncated /\ actions = AllActions /\ mode = "mirror"
    /\ dirty = {} /\ (\A i \in 1 .. Len(equal) : equal[i])
    => target = source

=============================================================================
