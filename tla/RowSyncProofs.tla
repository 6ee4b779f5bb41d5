--------------------------- MODULE RowSyncProofs ---------------------------
(***************************************************************************)
(* Proofs about RowSync, for any tables and any writes by other sessions:  *)
(*   - the listing of the chunks, for any chunk size and any limits;       *)
(*   - what compare, preview, deploy and the verification make of the      *)
(*     listed ranges, where the row limit leaves room for a chunk and for  *)
(*     what other sessions insert into it (Roomy).                         *)
(***************************************************************************)
EXTENDS RowSync, FiniteSetTheorems, WellFoundedInduction, TLAPS

-----------------------------------------------------------------------------
(***************************************************************************)
(* The smallest and the largest of a set of keys, and the first n.         *)
(***************************************************************************)
\* A finite set of integers that is not empty has a smallest element.  (The
\* smallest of the sets of those below an element belongs to it.)
LEMMA MinExists ==
  ASSUME NEW S, S \subseteq Int, IsFiniteSet(S), S # {}
  PROVE  Min(S) \in S /\ \A k \in S : Min(S) <= k
<1> DEFINE Below(m) == {q \in S : q <= m}
           R == StrictSubsetOrdering(S)
           T == {Below(m) : m \in S}
<1>1. IsWellFoundedOn(R, SUBSET S)
  BY FS_StrictSubsetOrderingWellFounded, FS_FiniteSubsetsOfFinite
<1>2. T \subseteq SUBSET S /\ T # {}
  OBVIOUS
<1>3. \E X \in T : \A Y \in T : <<Y, X>> \notin R
  <2> HIDE DEF R, T
  <2>1. QED
    BY <1>1, <1>2, WFMin
<1>4. PICK m \in S : \A k \in S : <<Below(k), Below(m)>> \notin R
  BY <1>3
<1>5. ASSUME NEW k \in S, k < m PROVE FALSE
  <2>1. m \in Int /\ k \in Int /\ \A q \in S : q \in Int
    OBVIOUS
  <2>2. \A q \in S : q <= k => q <= m
    BY <1>5, <2>1
  <2>3. m <= m /\ ~(m <= k)
    BY <1>5, <2>1
  <2>4. Below(k) \subseteq Below(m) /\ m \in Below(m) /\ m \notin Below(k)
    BY <2>2, <2>3
  <2>5. <<Below(k), Below(m)>> \in (SUBSET S) \X (SUBSET S)
    OBVIOUS
  <2>6. <<Below(k), Below(m)>> \in R
    BY <2>4, <2>5 DEF StrictSubsetOrdering
  <2>7. QED
    BY <1>4, <2>6
<1>6. \A k \in S : m <= k
  BY <1>5
<1>7. QED
  BY <1>6 DEF Min

\* ... and a largest one.
LEMMA MaxExists ==
  ASSUME NEW S, S \subseteq Int, IsFiniteSet(S), S # {}
  PROVE  Max(S) \in S /\ \A k \in S : k <= Max(S)
<1> DEFINE Above(m) == {q \in S : q >= m}
           R == StrictSubsetOrdering(S)
           T == {Above(m) : m \in S}
<1>1. IsWellFoundedOn(R, SUBSET S)
  BY FS_StrictSubsetOrderingWellFounded, FS_FiniteSubsetsOfFinite
<1>2. T \subseteq SUBSET S /\ T # {}
  OBVIOUS
<1>3. \E X \in T : \A Y \in T : <<Y, X>> \notin R
  <2> HIDE DEF R, T
  <2>1. QED
    BY <1>1, <1>2, WFMin
<1>4. PICK m \in S : \A k \in S : <<Above(k), Above(m)>> \notin R
  BY <1>3
<1>5. ASSUME NEW k \in S, k > m PROVE FALSE
  <2>1. m \in Int /\ k \in Int /\ \A q \in S : q \in Int
    OBVIOUS
  <2>2. \A q \in S : q >= k => q >= m
    BY <1>5, <2>1
  <2>3. m >= m /\ ~(m >= k)
    BY <1>5, <2>1
  <2>4. Above(k) \subseteq Above(m) /\ m \in Above(m) /\ m \notin Above(k)
    BY <2>2, <2>3
  <2>5. <<Above(k), Above(m)>> \in (SUBSET S) \X (SUBSET S)
    OBVIOUS
  <2>6. <<Above(k), Above(m)>> \in R
    BY <2>4, <2>5 DEF StrictSubsetOrdering
  <2>7. QED
    BY <1>4, <2>6
<1>6. \A k \in S : m >= k
  BY <1>5
<1>7. \E x \in S : \A y \in S : x >= y
  BY <1>6
<1>8. Max(S) \in S /\ \A y \in S : Max(S) >= y
  BY <1>7 DEF Max
<1>9. QED
  BY <1>8

\* A page of at least one row is empty only if there is no row left, and it
\* skips no row before its last.
LEMMA PageOfKeys ==
  ASSUME NEW S, S \subseteq Int, IsFiniteSet(S), NEW n \in Nat \ {0}
  PROVE  /\ FirstN(S, n) = {} => S = {}
         /\ \A m \in FirstN(S, n), k \in S : k <= m => k \in FirstN(S, n)
<1>1. ASSUME S # {} PROVE Min(S) \in FirstN(S, n)
  <2>1. Min(S) \in S /\ \A q \in S : Min(S) <= q
    BY <1>1, MinExists
  <2>2. ASSUME NEW q \in S PROVE ~(q < Min(S))
    <3>1. q \in Int /\ Min(S) \in Int /\ Min(S) <= q
      BY <2>1
    <3>2. QED
      BY <3>1
  <2>3. {q \in S : q < Min(S)} = {}
    BY <2>2
  <2>4. Cardinality({q \in S : q < Min(S)}) < n
    BY <2>3, FS_EmptySet
  <2>5. QED
    BY <2>1, <2>4 DEF FirstN
<1>2. ASSUME NEW m \in FirstN(S, n), NEW k \in S, k <= m
      PROVE  k \in FirstN(S, n)
  <2>1. {q \in S : q < k} \subseteq {q \in S : q < m}
    <3>1. m \in Int /\ k \in Int /\ \A q \in S : q \in Int
      BY DEF FirstN
    <3>2. \A q \in S : q < k => q < m
      BY <1>2, <3>1
    <3>3. QED
      BY <3>2
  <2>2. IsFiniteSet({q \in S : q < m})
    BY FS_Subset
  <2>3. /\ IsFiniteSet({q \in S : q < k})
        /\ Cardinality({q \in S : q < k}) <= Cardinality({q \in S : q < m})
    BY <2>1, <2>2, FS_Subset
  <2>4. /\ Cardinality({q \in S : q < k}) \in Nat
        /\ Cardinality({q \in S : q < m}) \in Nat
    BY <2>2, <2>3, FS_CardinalityType
  <2>5. Cardinality({q \in S : q < m}) < n
    BY <1>2 DEF FirstN
  <2>6. QED
    BY <2>3, <2>4, <2>5 DEF FirstN
<1>3. QED
  BY <1>1, <1>2

-----------------------------------------------------------------------------
(***************************************************************************)
(* The listing.                                                            *)
(***************************************************************************)
ListType ==
  /\ source \in Tables
  /\ phase \in Phases
  /\ srcBounds \in BoundsType /\ tgtBounds \in BoundsType
  /\ cursor \in KeyOrNone
  /\ ranges \in Seq(PkRange)
  /\ dirty \subseteq PK

\* The source rows no session touched.
Untouched == Rows(source) \cap Stable

\* While the chunks are listed, the untouched rows up to the cursor are
\* covered; without a smallest key there are none to cover.
CoverInv ==
  /\ phase \in {"bounds", "targetBounds"} => cursor = NoKey
  /\ phase \notin {"bounds", "failed"} /\ srcBounds.min = NoKey
       => Untouched = {}
  /\ phase = "list" /\ cursor # NoKey
       => \A k \in Untouched : k <= cursor => Covered(k)
  /\ StableSourceRowsCovered

IsChunk(r) == r.start # NoKey /\ r.end # NoKey

\* The chunks listed so far end at or before the cursor.
ChunkInv ==
  /\ \A i \in 1 .. Len(ranges) :
       IsChunk(ranges[i]) => cursor # NoKey /\ ranges[i].end <= cursor
  /\ ChunksAscend

\* Keys are integers, sets of rows are finite.
LEMMA KeySets ==
  ASSUME NEW S \in SUBSET PK
  PROVE  S \subseteq Int /\ IsFiniteSet(S) /\ NoKey \notin S
BY KeyAssumption, FS_Subset

\* The range of a page holds every row of the table between the cursor before
\* it and its last key.
LEMMA PageCovers ==
  ASSUME NEW t, NEW last,
         PkListAfter(t, last) # {},
         NEW k \in Rows(t), last = NoKey \/ k > last, k <= Max(PkListAfter(t, last))
  PROVE  InRange(ChunkRange(PkListAfter(t, last)), k)
<1> DEFINE S == {q \in Rows(t) : last = NoKey \/ q > last}
           keys == PkListAfter(t, last)
<1>1. S \in SUBSET PK /\ keys = FirstN(S, ChunkSize) /\ keys \in SUBSET PK
  BY DEF PkListAfter, FirstN, Rows
<1>2. Max(keys) \in keys
  BY <1>1, KeySets, MaxExists
<1>3. k \in keys
  BY <1>1, <1>2, KeySets, PageOfKeys, BoundAssumption
<1>4. /\ Min(keys) \in keys /\ Min(keys) <= k
      /\ Max(keys) \in keys /\ k <= Max(keys)
  BY <1>1, <1>3, KeySets, MinExists, MaxExists
<1>5. /\ Min(keys) \in Int /\ Max(keys) \in Int /\ k \in Int
      /\ Min(keys) # NoKey /\ Max(keys) # NoKey
  BY <1>1, <1>3, <1>4, KeySets
<1>6. QED
  BY <1>4, <1>5 DEF InRange, ChunkRange

\* The smallest and largest key of a table.
LEMMA BoundsOfTable ==
  ASSUME NEW t
  PROVE  Bounds(t) \in BoundsType /\ (Bounds(t).min = NoKey => Rows(t) = {})
<1>1. CASE Rows(t) = {}
  BY <1>1 DEF Bounds, BoundsType, KeyOrNone
<1>2. CASE Rows(t) # {}
  <2>1. Rows(t) \in SUBSET PK
    BY DEF Rows
  <2>2. Min(Rows(t)) \in PK /\ Max(Rows(t)) \in PK
    BY <1>2, <2>1, KeySets, MinExists, MaxExists
  <2>3. QED
    BY <1>2, <2>2, KeyAssumption DEF Bounds, BoundsType, KeyOrNone
<1>3. QED
  BY <1>1, <1>2

\* What the ranges covered they still cover when ranges are added.
LEMMA CoveredGrows ==
  ASSUME NEW r \in Seq(PkRange), ranges \in Seq(PkRange), ranges' = ranges \o r,
         NEW k, Covered(k)
  PROVE  Covered(k)'
<1>1. PICK i \in 1 .. Len(ranges) : InRange(ranges[i], k)
  BY DEF Covered
<1>2. i \in 1 .. Len(ranges') /\ ranges'[i] = ranges[i]
  BY <1>1
<1>3. QED
  BY <1>1, <1>2 DEF Covered, InRange

\* The ranges compare adds.
LEMMA RangeTypes ==
  /\ Whole \in PkRange
  /\ \A keys \in SUBSET PK : keys # {} => ChunkRange(keys) \in PkRange
  /\ \A sb \in BoundsType, tb \in BoundsType :
       /\ HeadRange(sb, tb) \in Seq(PkRange)
       /\ TailRange(sb, tb) \in Seq(PkRange)
       /\ \A i \in 1 .. Len(HeadRange(sb, tb)) : ~IsChunk(HeadRange(sb, tb)[i])
       /\ \A i \in 1 .. Len(TailRange(sb, tb)) : ~IsChunk(TailRange(sb, tb)[i])
<1>1. Whole \in PkRange
  BY DEF Whole, PkRange, KeyOrNone
<1>2. ASSUME NEW keys \in SUBSET PK, keys # {} PROVE ChunkRange(keys) \in PkRange
  <2>1. Min(keys) \in PK /\ Max(keys) \in PK
    BY <1>2, KeySets, MinExists, MaxExists
  <2>2. QED
    BY <2>1 DEF ChunkRange, PkRange, KeyOrNone
<1>3. ASSUME NEW sb \in BoundsType, NEW tb \in BoundsType
      PROVE  /\ HeadRange(sb, tb) \in Seq(PkRange)
             /\ \A i \in 1 .. Len(HeadRange(sb, tb)) :
                  ~IsChunk(HeadRange(sb, tb)[i])
  <2> DEFINE r == [Whole EXCEPT !.end = sb.min, !.endIncl = FALSE]
  <2>1. r \in PkRange /\ ~IsChunk(r)
    BY DEF Whole, PkRange, BoundsType, KeyOrNone, IsChunk
  <2>2. HeadRange(sb, tb) \in {<<r>>, <<>>}
    BY DEF HeadRange
  <2> HIDE DEF r
  <2>3. Len(<<r>>) = 1 /\ <<r>>[1] = r /\ <<r>> \in Seq(PkRange)
    BY <2>1
  <2>4. \A i \in 1 .. Len(<<r>>) : ~IsChunk(<<r>>[i])
    BY <2>1, <2>3
  <2>5. <<>> \in Seq(PkRange) /\ 1 .. Len(<<>>) = {}
    OBVIOUS
  <2>6. QED
    BY <2>2, <2>3, <2>4, <2>5
<1>4. ASSUME NEW sb \in BoundsType, NEW tb \in BoundsType
      PROVE  /\ TailRange(sb, tb) \in Seq(PkRange)
             /\ \A i \in 1 .. Len(TailRange(sb, tb)) :
                  ~IsChunk(TailRange(sb, tb)[i])
  <2> DEFINE r == [Whole EXCEPT !.start = sb.max, !.startIncl = FALSE]
  <2>1. r \in PkRange /\ ~IsChunk(r)
    BY DEF Whole, PkRange, BoundsType, KeyOrNone, IsChunk
  <2>2. TailRange(sb, tb) \in {<<r>>, <<>>}
    BY DEF TailRange
  <2> HIDE DEF r
  <2>3. Len(<<r>>) = 1 /\ <<r>>[1] = r /\ <<r>> \in Seq(PkRange)
    BY <2>1
  <2>4. \A i \in 1 .. Len(<<r>>) : ~IsChunk(<<r>>[i])
    BY <2>1, <2>3
  <2>5. <<>> \in Seq(PkRange) /\ 1 .. Len(<<>>) = {}
    OBVIOUS
  <2>6. QED
    BY <2>2, <2>3, <2>4, <2>5
<1>5. QED
  BY <1>1, <1>2, <1>3, <1>4

-----------------------------------------------------------------------------
\* The steps that have nothing to do with the listing: they leave it alone and
\* do not lead back to it.
LEMMA OtherSteps ==
  ASSUME ListType,
         CheckSource \/ CheckTarget \/ (\E a \in ActionSets : StartPreview(a))
           \/ Preview \/ DeployCommit \/ Fail \/ UNCHANGED vars
  PROVE  /\ UNCHANGED <<source, srcBounds, tgtBounds, cursor, ranges, dirty>>
         /\ phase' \in Phases
         /\ \/ phase' \in {phase, "failed"}
            \/ Listed /\ phase' \notin {"bounds", "targetBounds", "list"}
BY DEF CheckSource, CheckTarget, StartPreview, Preview, PreviewSource,
       PreviewTarget, EndPreview, DeployCommit, Fail, vars, tables, others,
       listing, ListType, Phases, CompareDone, Listed

\* Every step keeps the types.
LEMMA ListTypeStep == ListType /\ [Next]_vars => ListType'
<1> SUFFICES ASSUME ListType, [Next]_vars PROVE ListType'
  OBVIOUS
<1> USE DEF ListType
<1>1. CASE FetchSourceBounds
  BY <1>1, BoundsOfTable DEF FetchSourceBounds, tables, others, Phases
<1>2. CASE FetchTargetBounds
  <2>1. ranges' \in Seq(PkRange)
    <3>1. HeadRange(srcBounds, Bounds(target)) \in Seq(PkRange)
      BY BoundsOfTable, RangeTypes
    <3>2. <<Whole>> \in Seq(PkRange) /\ <<>> \in Seq(PkRange)
      BY RangeTypes
    <3>3. QED
      BY <1>2, <3>1, <3>2 DEF FetchTargetBounds
  <2>2. tgtBounds' \in BoundsType
    BY <1>2, BoundsOfTable DEF FetchTargetBounds
  <2>3. phase' \in Phases
    BY <1>2 DEF FetchTargetBounds, Phases, CompareDone
  <2>4. QED
    BY <1>2, <2>1, <2>2, <2>3 DEF FetchTargetBounds, tables, others
<1>3. CASE ListChunk
  <2> DEFINE keys == PkListAfter(source, cursor)
  <2>1. keys \in SUBSET PK /\ keys # {}
    BY <1>3 DEF ListChunk, PkListAfter, FirstN, Rows
  <2>2. Max(keys) \in PK
    BY <2>1, KeySets, MaxExists
  <2>3. ChunkRange(keys) \in PkRange
    BY <2>1, RangeTypes
  <2>4. cursor' \in KeyOrNone /\ ranges' \in Seq(PkRange)
    BY <1>3, <2>2, <2>3 DEF ListChunk, KeyOrNone
  <2>5. QED
    BY <1>3, <2>4 DEF ListChunk, tables, others
<1>4. CASE EndList
  <2>1. TailRange(srcBounds, tgtBounds) \in Seq(PkRange)
    BY RangeTypes
  <2>2. ranges' \in Seq(PkRange)
    BY <1>4, <2>1 DEF EndList
  <2>3. phase' \in Phases
    BY <1>4 DEF EndList, Phases, CompareDone
  <2>4. QED
    BY <1>4, <2>2, <2>3 DEF EndList, tables, others
<1>5. CASE StartVerify
  <2>1. [min |-> NoKey, max |-> NoKey] \in BoundsType /\ <<>> \in Seq(PkRange)
    BY DEF BoundsType, KeyOrNone
  <2>2. QED
    BY <1>5, <2>1 DEF StartVerify, KeyOrNone, Phases, tables, others
<1>6. CASE OtherWrite
  BY <1>6 DEF OtherWrite, Tables, listing
<1>7. CASE CheckSource \/ CheckTarget \/ (\E a \in ActionSets : StartPreview(a))
           \/ Preview \/ DeployCommit \/ Fail \/ UNCHANGED vars
  BY <1>7, OtherSteps
<1>8. QED
  BY <1>1, <1>2, <1>3, <1>4, <1>5, <1>6, <1>7 DEF Next, Compare

-----------------------------------------------------------------------------
\* Every step keeps the untouched rows up to the cursor covered.
LEMMA CoverStep == ListType /\ CoverInv /\ [Next]_vars => CoverInv'
<1> SUFFICES ASSUME ListType, CoverInv, [Next]_vars PROVE CoverInv'
  OBVIOUS
<1> USE DEF ListType
<1>1. CASE FetchSourceBounds
  <2>1. srcBounds'.min = NoKey => Rows(source) = {}
    BY <1>1, BoundsOfTable DEF FetchSourceBounds
  <2>2. UNCHANGED <<source, cursor, ranges, dirty>> /\ phase = "bounds"
          /\ phase' = "targetBounds"
    BY <1>1 DEF FetchSourceBounds, tables, others
  <2>3. Untouched' = Untouched
    BY <2>2 DEF Untouched, Rows, Stable
  <2>4. QED
    BY <2>1, <2>2, <2>3
    DEF CoverInv, Untouched, StableSourceRowsCovered, Listed
<1>2. CASE FetchTargetBounds
  <2>1. /\ UNCHANGED <<source, srcBounds, cursor, dirty>> /\ phase = "targetBounds"
        /\ phase' \in {"list", "checkSource", CompareDone} /\ cursor = NoKey
    BY <1>2 DEF FetchTargetBounds, tables, others, CoverInv
  <2>2. Untouched' = Untouched /\ (srcBounds.min = NoKey => Untouched = {})
    BY <2>1 DEF Untouched, Rows, Stable, CoverInv
  <2>3. phase' # "list" => srcBounds.min = NoKey
    BY <1>2 DEF FetchTargetBounds
  <2>4. StableSourceRowsCovered'
    BY <2>1, <2>2, <2>3 DEF StableSourceRowsCovered, Listed, Untouched
  <2>5. QED
    BY <2>1, <2>2, <2>4 DEF CoverInv, CompareDone
<1>3. CASE ListChunk
  <2> DEFINE keys == PkListAfter(source, cursor)
             S == {q \in Rows(source) : cursor = NoKey \/ q > cursor}
  <2>1. /\ UNCHANGED <<source, srcBounds, phase, dirty>> /\ phase = "list"
        /\ keys # {} /\ cursor' = Max(keys)
        /\ ranges' = Append(ranges, ChunkRange(keys))
    BY <1>3 DEF ListChunk, tables, others
  <2>2. Untouched' = Untouched
    BY <2>1 DEF Untouched, Rows, Stable
  <2>3. keys \in SUBSET PK
    BY DEF PkListAfter, FirstN, Rows
  <2>4. Max(keys) \in PK
    BY <2>1, <2>3, KeySets, MaxExists
  <2>5. ChunkRange(keys) \in PkRange
    BY <2>1, <2>3, RangeTypes
  <2>6. ASSUME NEW k \in Untouched, k <= Max(keys) PROVE Covered(k)'
    <3>1. k \in PK /\ k \in Rows(source)
      BY DEF Untouched, Rows
    <3>2. CASE cursor # NoKey /\ k <= cursor
      <4>1. Covered(k)
        BY <2>1, <3>2 DEF CoverInv
      <4>2. <<ChunkRange(keys)>> \in Seq(PkRange)
              /\ ranges' = ranges \o <<ChunkRange(keys)>>
        BY <2>1, <2>5
      <4>3. QED
        BY <4>1, <4>2, CoveredGrows
    <3>3. CASE ~(cursor # NoKey /\ k <= cursor)
      <4>1. cursor = NoKey \/ k > cursor
        BY <3>1, <3>3, KeyAssumption DEF KeyOrNone
      <4>2. InRange(ChunkRange(keys), k)
        BY <2>1, <2>6, <3>1, <4>1, PageCovers
      <4>3. /\ Len(ranges') = Len(ranges) + 1 /\ Len(ranges) \in Nat
            /\ ranges'[Len(ranges) + 1] = ChunkRange(keys)
        BY <2>1, <2>5
      <4>4. QED
        BY <4>2, <4>3 DEF Covered, InRange
    <3>4. QED
      BY <3>2, <3>3
  <2>7. QED
    BY <2>1, <2>2, <2>6 DEF CoverInv, StableSourceRowsCovered, Listed
<1>4. CASE EndList
  <2> DEFINE S == {q \in Rows(source) : cursor = NoKey \/ q > cursor}
  <2>1. /\ UNCHANGED <<source, srcBounds, cursor, dirty>> /\ phase = "list"
        /\ PkListAfter(source, cursor) = {}
        /\ ranges' = ranges \o TailRange(srcBounds, tgtBounds)
        /\ phase' \in {"checkSource", CompareDone}
    BY <1>4 DEF EndList, tables, others
  <2>2. Untouched' = Untouched
    BY <2>1 DEF Untouched, Rows, Stable
  <2>3. S \in SUBSET PK
    BY DEF Rows
  <2>4. S = {}
    BY <2>1, <2>3, KeySets, PageOfKeys, BoundAssumption DEF PkListAfter
  <2>5. ASSUME NEW k \in Untouched PROVE Covered(k)'
    <3>1. k \in PK /\ k \in Rows(source)
      BY DEF Untouched, Rows
    <3>2. cursor # NoKey /\ k <= cursor
      BY <2>4, <3>1, KeyAssumption DEF KeyOrNone
    <3>3. Covered(k)
      BY <2>1, <3>2 DEF CoverInv
    <3>4. TailRange(srcBounds, tgtBounds) \in Seq(PkRange)
      BY RangeTypes
    <3>5. QED
      BY <2>1, <3>3, <3>4, CoveredGrows
  <2>6. StableSourceRowsCovered'
    BY <2>2, <2>5 DEF StableSourceRowsCovered, Untouched
  <2>7. QED
    BY <2>1, <2>2, <2>6 DEF CoverInv, CompareDone
<1>5. CASE StartVerify
  BY <1>5 DEF StartVerify, CoverInv, StableSourceRowsCovered, Listed
<1>6. CASE OtherWrite
  <2>1. UNCHANGED <<phase, srcBounds, cursor, ranges>>
    BY <1>6 DEF OtherWrite, listing
  <2>2. Untouched' \subseteq Untouched
    BY <1>6 DEF OtherWrite, Untouched, Rows, Stable, Tables
  <2>3. \A k : Covered(k)' = Covered(k)
    BY <2>1 DEF Covered, InRange
  <2>4. StableSourceRowsCovered'
    BY <2>1, <2>2, <2>3 DEF CoverInv, StableSourceRowsCovered, Listed, Untouched
  <2>5. QED
    BY <2>1, <2>2, <2>3, <2>4 DEF CoverInv
<1>7. CASE CheckSource \/ CheckTarget \/ (\E a \in ActionSets : StartPreview(a))
           \/ Preview \/ DeployCommit \/ Fail \/ UNCHANGED vars
  <2>1. /\ UNCHANGED <<source, srcBounds, cursor, ranges, dirty>>
        /\ \/ phase' \in {phase, "failed"}
           \/ Listed /\ phase' \notin {"bounds", "targetBounds", "list"}
    BY <1>7, OtherSteps
  <2>2. Untouched' = Untouched
    BY <2>1 DEF Untouched, Rows, Stable
  <2>3. \A k : Covered(k)' = Covered(k)
    BY <2>1 DEF Covered, InRange
  <2>4. StableSourceRowsCovered'
    BY <2>1, <2>2, <2>3 DEF CoverInv, StableSourceRowsCovered, Listed, Untouched
  <2>5. QED
    BY <2>1, <2>2, <2>3, <2>4 DEF CoverInv, Listed
<1>8. QED
  BY <1>1, <1>2, <1>3, <1>4, <1>5, <1>6, <1>7 DEF Next, Compare

\* Every step keeps the chunks in order.
LEMMA ChunkStep == ListType /\ CoverInv /\ ChunkInv /\ [Next]_vars => ChunkInv'
<1> SUFFICES ASSUME ListType, CoverInv, ChunkInv, [Next]_vars PROVE ChunkInv'
  OBVIOUS
<1> USE DEF ListType
<1> DEFINE Ordered == \A i, j \in 1 .. Len(ranges) :
             i < j /\ IsChunk(ranges[i]) /\ IsChunk(ranges[j])
               => ranges[i].end < ranges[j].start
<1>0. ChunksAscend <=> Ordered
  BY DEF ChunksAscend, IsChunk
<1>1. CASE FetchTargetBounds
  <2> DEFINE head == HeadRange(srcBounds, Bounds(target))
  <2>1. cursor = NoKey /\ ranges' \in {head, <<Whole>>, <<>>}
    BY <1>1 DEF FetchTargetBounds, CoverInv
  <2>2. ~IsChunk(Whole) /\ \A i \in 1 .. Len(head) : ~IsChunk(head[i])
    BY BoundsOfTable, RangeTypes DEF Whole, IsChunk
  <2>3. Len(<<Whole>>) = 1 /\ <<Whole>>[1] = Whole /\ Len(<<>>) = 0
    OBVIOUS
  <2> HIDE DEF head
  <2>4. \A i \in 1 .. Len(ranges') : ~IsChunk(ranges'[i])
    BY <2>1, <2>2, <2>3
  <2>5. QED
    BY <2>4 DEF ChunkInv, ChunksAscend, IsChunk
<1>2. CASE ListChunk
  <2> DEFINE keys == PkListAfter(source, cursor)
             new == ChunkRange(keys)
             n == Len(ranges) + 1
  <2>1. keys # {} /\ cursor' = Max(keys) /\ ranges' = Append(ranges, new)
    BY <1>2 DEF ListChunk
  <2>2. keys \in SUBSET PK /\ \A k \in keys : cursor = NoKey \/ k > cursor
    BY DEF PkListAfter, FirstN, Rows
  <2>3. /\ Min(keys) \in keys /\ Max(keys) \in keys
        /\ Min(keys) \in Int /\ Max(keys) \in Int
        /\ Min(keys) <= Max(keys) /\ Max(keys) # NoKey
    BY <2>1, <2>2, KeySets, MinExists, MaxExists
  <2>4. new.start = Min(keys) /\ new.end = Max(keys) /\ new \in PkRange
    BY <2>1, <2>2, RangeTypes DEF ChunkRange
  <2> HIDE DEF new, keys
  <2>5. /\ Len(ranges') = n /\ n \in Nat /\ ranges'[n] = new
        /\ \A i \in 1 .. Len(ranges) : ranges'[i] = ranges[i]
    BY <2>1, <2>4
  <2>6. \A i \in 1 .. Len(ranges) : IsChunk(ranges[i]) =>
          /\ cursor # NoKey /\ ranges[i].end <= cursor
          /\ ranges[i].end \in Int /\ cursor \in Int
    <3>1. \A i \in 1 .. Len(ranges) : ranges[i] \in PkRange
      OBVIOUS
    <3>2. QED
      BY <3>1, KeyAssumption DEF ChunkInv, IsChunk, PkRange, KeyOrNone
  <2>7. cursor # NoKey /\ cursor \in Int => cursor < Min(keys)
    BY <2>2, <2>3
  <2>8. \A i \in 1 .. Len(ranges) : IsChunk(ranges[i]) =>
          ranges[i].end < Min(keys) /\ ranges[i].end <= Max(keys)
    <3>1. ASSUME NEW i \in 1 .. Len(ranges), IsChunk(ranges[i])
          PROVE  ranges[i].end < Min(keys) /\ ranges[i].end <= Max(keys)
      <4>1. /\ ranges[i].end \in Int /\ cursor \in Int
            /\ ranges[i].end <= cursor /\ cursor < Min(keys)
        BY <2>6, <2>7, <3>1
      <4>2. QED
        BY <2>3, <4>1
    <3>2. QED
      BY <3>1
  <2>9. \A i \in 1 .. Len(ranges') : IsChunk(ranges'[i]) =>
          cursor' # NoKey /\ ranges'[i].end <= cursor'
    BY <2>1, <2>3, <2>4, <2>5, <2>8
  <2>10. \A i, j \in 1 .. Len(ranges') :
           i < j /\ IsChunk(ranges'[i]) /\ IsChunk(ranges'[j])
             => ranges'[i].end < ranges'[j].start
    <3>1. ASSUME NEW i \in 1 .. Len(ranges'), NEW j \in 1 .. Len(ranges'), i < j,
                 IsChunk(ranges'[i]), IsChunk(ranges'[j])
          PROVE  ranges'[i].end < ranges'[j].start
      <4>1. i \in 1 .. Len(ranges)
        BY <2>5, <3>1
      <4>2. CASE j = n
        BY <2>4, <2>5, <2>8, <3>1, <4>1, <4>2
      <4>3. CASE j # n
        <5>1. j \in 1 .. Len(ranges)
          BY <2>5, <4>3
        <5>2. QED
          BY <1>0, <2>5, <3>1, <4>1, <5>1 DEF ChunkInv
      <4>4. QED
        BY <4>2, <4>3
    <3>2. QED
      BY <3>1
  <2>11. QED
    BY <2>9, <2>10 DEF ChunkInv, ChunksAscend, IsChunk
<1>3. CASE EndList
  <2> DEFINE tail == TailRange(srcBounds, tgtBounds)
  <2>1. ranges' = ranges \o tail /\ cursor' = cursor
    BY <1>3 DEF EndList
  <2>2. tail \in Seq(PkRange) /\ \A i \in 1 .. Len(tail) : ~IsChunk(tail[i])
    BY RangeTypes
  <2> HIDE DEF tail
  <2>3. \A i \in 1 .. Len(ranges') :
          IsChunk(ranges'[i]) => i \in 1 .. Len(ranges) /\ ranges'[i] = ranges[i]
    BY <2>1, <2>2
  <2>4. QED
    BY <1>0, <2>1, <2>3 DEF ChunkInv, ChunksAscend, IsChunk
<1>4. CASE StartVerify
  BY <1>4 DEF StartVerify, ChunkInv, ChunksAscend
<1>5. CASE UNCHANGED <<cursor, ranges>>
  BY <1>5 DEF ChunkInv, ChunksAscend, IsChunk
<1>6. QED
  BY <1>1, <1>2, <1>3, <1>4, <1>5, OtherSteps
  DEF Next, Compare, FetchSourceBounds, OtherWrite, listing

-----------------------------------------------------------------------------
\* What the listing keeps at every step.
THEOREM ListingInvariant == Spec => [](ListType /\ CoverInv /\ ChunkInv)
<1>1. Init => ListType /\ CoverInv /\ ChunkInv
  BY DEF Init, ListType, CoverInv, ChunkInv, ChunksAscend, Phases, BoundsType,
         KeyOrNone, StableSourceRowsCovered, Listed
<1>2. ListType /\ CoverInv /\ ChunkInv /\ [Next]_vars
        => (ListType /\ CoverInv /\ ChunkInv)'
  BY ListTypeStep, CoverStep, ChunkStep
<1>3. QED
  BY <1>1, <1>2, PTL DEF Spec

\* However many rows other sessions insert and delete while the chunks are
\* listed, no source row they did not write is left out of the comparison.
THEOREM NoSourceRowSkipped == Spec => []StableSourceRowsCovered
BY ListingInvariant, PTL DEF CoverInv

\* Nor is a key in two of the listed chunks.
THEOREM ChunksInOrder == Spec => []ChunksAscend
BY ListingInvariant, PTL DEF ChunkInv

-----------------------------------------------------------------------------
(***************************************************************************)
(* The limit of a query.                                                   *)
(***************************************************************************)
\* A range never holds more rows than one query returns: either no table has
\* that many, or a chunk and all the rows other sessions may add to it fit.
Roomy == \/ Cardinality(PK) <= RowLimit
         \/ ChunkSize + MaxWrites <= RowLimit

\* The rows of a table in a range.
Within(t, r) == {k \in Rows(t) : InRange(r, k)}

\* A page for a range that leaves no row of the range out.
Full(keys, r) ==
  \/ Cardinality(PK) <= RowLimit
  \/ Cardinality(keys) < RowLimit
  \/ IsChunk(r) /\ r.endIncl /\ r.end \in keys

\* A set of which every element is below some bound of the number n has less
\* than n elements below any of its own.
LEMMA FewBelow ==
  ASSUME NEW S \in SUBSET PK, NEW n \in Nat, Cardinality(S) <= n
  PROVE  FirstN(S, n) = S
<1>1. ASSUME NEW k \in S PROVE Cardinality({q \in S : q < k}) < n
  <2>1. IsFiniteSet(S) /\ k \in Int
    BY KeySets
  <2>2. {q \in S : q < k} \subseteq S \ {k}
    BY <2>1
  <2>3. /\ IsFiniteSet(S \ {k})
        /\ Cardinality(S \ {k}) = Cardinality(S) - 1
    BY <2>1, FS_RemoveElement
  <2>4. Cardinality({q \in S : q < k}) <= Cardinality(S \ {k})
    BY <2>2, <2>3, FS_Subset
  <2>5. Cardinality(S) \in Nat /\ Cardinality({q \in S : q < k}) \in Nat
    BY <2>1, FS_Subset, FS_CardinalityType
  <2>6. QED
    BY <2>3, <2>4, <2>5
<1>2. QED
  BY <1>1 DEF FirstN

\* A page has at most n rows, and one with less has them all.
LEMMA PageSize ==
  ASSUME NEW S \in SUBSET PK, NEW n \in Nat \ {0}
  PROVE  /\ Cardinality(FirstN(S, n)) \in Nat
         /\ Cardinality(FirstN(S, n)) <= n
         /\ Cardinality(FirstN(S, n)) < n => FirstN(S, n) = S
<1> DEFINE F == FirstN(S, n)
           Below(k) == {q \in S : q < k}
<1>1. F \in SUBSET S /\ IsFiniteSet(S) /\ S \subseteq Int
  BY KeySets DEF FirstN
<1>2. IsFiniteSet(F) /\ Cardinality(F) \in Nat
  BY <1>1, FS_Subset, FS_CardinalityType
<1>3. Cardinality(F) <= n
  <2>1. CASE F = {}
    BY <2>1, FS_EmptySet
  <2>2. CASE F # {}
    <3> DEFINE m == Max(F)
    <3>1. F \in SUBSET PK
      BY <1>1
    <3>2. m \in F /\ \A k \in F : k <= m
      BY <2>2, <3>1, KeySets, MaxExists
    <3> HIDE DEF m
    <3>3. F \subseteq Below(m) \cup {m}
      <4>1. ASSUME NEW k \in F, k # m PROVE k \in S /\ k < m
        <5>1. k \in Int /\ m \in Int /\ k <= m /\ k \in S
          BY <1>1, <3>2
        <5>2. QED
          BY <4>1, <5>1
      <4>2. QED
        BY <4>1
    <3>4. IsFiniteSet(Below(m)) /\ m \notin Below(m)
      <4>1. m \in Int
        BY <1>1, <3>2
      <4>2. m \notin Below(m)
        BY <4>1
      <4>3. QED
        BY <1>1, <4>2, FS_Subset
    <3>5. /\ IsFiniteSet(Below(m) \cup {m})
          /\ Cardinality(Below(m) \cup {m}) = Cardinality(Below(m)) + 1
      BY <3>4, FS_AddElement
    <3>6. Cardinality(F) <= Cardinality(Below(m)) + 1
      BY <3>3, <3>5, FS_Subset
    <3>7. Cardinality(Below(m)) < n
      BY <3>2 DEF FirstN
    <3>8. Cardinality(Below(m)) \in Nat
      BY <3>4, FS_CardinalityType
    <3>9. QED
      BY <1>2, <3>6, <3>7, <3>8
  <2>3. QED
    BY <2>1, <2>2
<1>4. ASSUME Cardinality(F) < n, F # S PROVE FALSE
  <2> DEFINE m == Min(S \ F)
  <2>1. S \ F \in SUBSET PK /\ S \ F # {}
    BY <1>1, <1>4
  <2>2. m \in S \ F /\ \A k \in S \ F : m <= k
    BY <2>1, KeySets, MinExists
  <2> HIDE DEF m
  <2>3. Below(m) \subseteq F
    <3>1. ASSUME NEW k \in S, k < m PROVE k \in F
      <4>1. k \in Int /\ m \in Int
        BY <1>1, <2>2
      <4>2. ~(m <= k)
        BY <3>1, <4>1
      <4>3. QED
        BY <2>2, <4>2
    <3>2. QED
      BY <3>1
  <2>4. Cardinality(Below(m)) <= Cardinality(F) /\ Cardinality(Below(m)) \in Nat
    BY <1>2, <2>3, FS_Subset, FS_CardinalityType
  <2>5. Cardinality(Below(m)) < n
    BY <1>2, <1>4, <2>4
  <2>6. m \in F
    BY <2>2, <2>5 DEF FirstN
  <2>7. QED
    BY <2>2, <2>6
<1>5. QED
  BY <1>2, <1>3, <1>4

\* The page a query returns for a range.
LEMMA PageOfRange ==
  ASSUME NEW t \in Tables, NEW r \in PkRange
  PROVE  /\ DOMAIN RowsInRange(t, r) = FirstN(Within(t, r), RowLimit)
         /\ DOMAIN RowsInRange(t, r) \subseteq Within(t, r)
         /\ \A k \in DOMAIN RowsInRange(t, r) : RowsInRange(t, r)[k] = t[k]
         /\ RowsInRange(t, r) \in Maps
         /\ Within(t, r) \in SUBSET PK
<1>1. DOMAIN RowsInRange(t, r) = FirstN(Within(t, r), RowLimit)
  BY DEF RowsInRange, Within
<1>2. Within(t, r) \in SUBSET PK
  BY DEF Within, Rows
<1>3. FirstN(Within(t, r), RowLimit) \subseteq Within(t, r)
  BY DEF FirstN
<1>4. \A k \in DOMAIN RowsInRange(t, r) : RowsInRange(t, r)[k] = t[k]
  BY DEF RowsInRange
<1>5. RowsInRange(t, r) \in Maps
  <2>1. \A k \in Within(t, r) : t[k] \in Values
    BY DEF Tables, Within, Rows
  <2>2. RowsInRange(t, r) = [k \in FirstN(Within(t, r), RowLimit) |-> t[k]]
    BY DEF RowsInRange, Within
  <2>3. RowsInRange(t, r) \in [FirstN(Within(t, r), RowLimit) -> Values]
    BY <1>3, <2>1, <2>2
  <2>4. FirstN(Within(t, r), RowLimit) \in SUBSET PK
    BY <1>2, <1>3
  <2>5. QED
    BY <2>3, <2>4 DEF Maps
<1>6. QED
  BY <1>1, <1>2, <1>3, <1>4, <1>5

\* A full page of a table has every row of the range.
LEMMA FullPage ==
  ASSUME NEW t \in Tables, NEW r \in PkRange,
         Full(DOMAIN RowsInRange(t, r), r)
  PROVE  DOMAIN RowsInRange(t, r) = Within(t, r)
<1> DEFINE S == Within(t, r)
<1>1. DOMAIN RowsInRange(t, r) = FirstN(S, RowLimit) /\ S \in SUBSET PK
  BY PageOfRange
<1>2. RowLimit \in Nat \ {0}
  BY BoundAssumption
<1>3. CASE Cardinality(PK) <= RowLimit
  <2>1. IsFiniteSet(PK) /\ Cardinality(PK) \in Nat
    BY KeyAssumption, FS_CardinalityType
  <2>2. Cardinality(S) <= Cardinality(PK) /\ Cardinality(S) \in Nat
    BY <1>1, <2>1, FS_Subset, FS_CardinalityType
  <2>3. Cardinality(S) <= RowLimit
    BY <1>2, <1>3, <2>1, <2>2
  <2>4. QED
    BY <1>1, <1>2, <2>3, FewBelow
<1>4. CASE Cardinality(FirstN(S, RowLimit)) < RowLimit
  BY <1>1, <1>2, <1>4, PageSize
<1>5. CASE IsChunk(r) /\ r.endIncl /\ r.end \in FirstN(S, RowLimit)
  <2>1. ASSUME NEW k \in S PROVE k \in FirstN(S, RowLimit)
    <3>1. InRange(r, k) /\ k \in Int /\ r.end \in Int
      BY <1>1, <1>5, KeySets DEF Within, FirstN
    <3>2. k <= r.end
      BY <1>5, <3>1 DEF InRange, IsChunk
    <3>3. QED
      BY <1>1, <1>2, <1>5, <3>2, KeySets, PageOfKeys
  <2>2. QED
    BY <1>1, <2>1 DEF FirstN
<1>6. QED
  BY <1>1, <1>3, <1>4, <1>5 DEF Full

-----------------------------------------------------------------------------
(***************************************************************************)
(* Types, and what the loops over the ranges do.                           *)
(***************************************************************************)
\* One verdict for each range, in order.
Paired ==
  /\ Len(equal) <= Len(ranges)
  /\ phase \in {"bounds", "targetBounds", "list"} => equal = <<>> /\ idx = 1
  /\ phase \in {"checkSource", "checkTarget"}
       => idx = Len(equal) + 1 /\ idx <= Len(ranges)
  /\ phase \in {"compared", "previewSource", "previewTarget", "previewed",
                "deployed"} => Len(equal) = Len(ranges)
  /\ phase = "previewTarget" => idx <= Len(ranges)

\* The next range to visit: everything skipped on the way compared equal.
LEMMA SkipsEqual ==
  ASSUME NEW eq \in Seq(BOOLEAN), NEW i \in Nat \ {0}
  PROVE  /\ NextDifferent(eq, i) \in Nat \ {0}
         /\ \A j \in i .. Len(eq) : j < NextDifferent(eq, i) => eq[j]
<1> DEFINE later == {j \in i .. Len(eq) : ~eq[j]}
<1>1. CASE later = {}
  <2>1. NextDifferent(eq, i) = Len(eq) + 1
    BY <1>1 DEF NextDifferent
  <2>2. QED
    BY <1>1, <2>1
<1>2. CASE later # {}
  <2>1. NextDifferent(eq, i) = Min(later)
    BY <1>2 DEF NextDifferent
  <2>2. later \subseteq i .. Len(eq) /\ IsFiniteSet(i .. Len(eq)) /\ Len(eq) \in Nat
    BY FS_Interval
  <2>3. later \subseteq Int /\ IsFiniteSet(later)
    BY <2>2, FS_Subset
  <2>4. Min(later) \in later /\ \A k \in later : Min(later) <= k
    BY <1>2, <2>3, MinExists
  <2>5. ASSUME NEW j \in i .. Len(eq), j < Min(later) PROVE eq[j]
    <3>1. j \in Int /\ Min(later) \in Int
      BY <2>3, <2>4
    <3>2. j \notin later
      BY <2>4, <2>5, <3>1
    <3>3. QED
      BY <3>2
  <2>6. Min(later) \in Nat \ {0}
    BY <2>2, <2>4
  <2>7. QED
    BY <2>1, <2>5, <2>6
<1>3. QED
  BY <1>1, <1>2

\* Rows on top of rows.
LEMMA OverMaps ==
  ASSUME NEW new \in Maps, NEW old \in Maps
  PROVE  /\ Over(new, old) \in Maps
         /\ DOMAIN Over(new, old) = DOMAIN new \cup DOMAIN old
         /\ \A k \in DOMAIN new : Over(new, old)[k] = new[k]
         /\ \A k \in DOMAIN old \ DOMAIN new : Over(new, old)[k] = old[k]
<1>1. /\ DOMAIN new \in SUBSET PK /\ \A k \in DOMAIN new : new[k] \in Values
      /\ DOMAIN old \in SUBSET PK /\ \A k \in DOMAIN old : old[k] \in Values
  BY DEF Maps
<1>2. Over(new, old) \in [DOMAIN new \cup DOMAIN old -> Values]
  BY <1>1 DEF Over
<1>3. DOMAIN new \cup DOMAIN old \in SUBSET PK
  BY <1>1
<1>4. Over(new, old) \in Maps
  BY <1>2, <1>3 DEF Maps
<1>5. QED
  BY <1>4 DEF Over

\* What one loop of preview picks: some of its candidates, no more than there
\* is room for, and all of them unless it stopped early.
LEMMA TakeSome ==
  ASSUME NEW all, NEW cand \in SUBSET PK, NEW room \in Nat,
         NEW o \in Take(all, cand, room)
  PROVE  /\ o.picked \subseteq cand /\ o.cut \in BOOLEAN
         /\ Cardinality(o.picked) \in 0 .. room
         /\ ~o.cut => o.picked = cand
<1>1. /\ o.picked \subseteq cand /\ o.cut \in BOOLEAN
      /\ Cardinality(o.picked)
           = IF Cardinality(cand) < room THEN Cardinality(cand) ELSE room
      /\ Cardinality(cand) > room => o.cut
  BY DEF Take
<1>2. IsFiniteSet(cand) /\ Cardinality(cand) \in Nat
  BY KeySets, FS_CardinalityType
<1>3. Cardinality(o.picked) \in 0 .. room
  BY <1>1, <1>2
<1>4. ASSUME ~o.cut PROVE o.picked = cand
  <2>1. Cardinality(o.picked) = Cardinality(cand)
    BY <1>1, <1>2, <1>4
  <2>2. QED
    BY <1>1, <1>2, <2>1, FS_Subset
<1>5. QED
  BY <1>1, <1>3, <1>4

\* One range of the preview.
LEMMA PreviewOfRange ==
  ASSUME TypeOK, Paired, PreviewTarget
  PROVE  LET T == DOMAIN RowsInRange(target, ranges[idx]) IN
         /\ ranges[idx] \in PkRange
         /\ ins' \in Maps /\ upd' \in Maps /\ del' \in SUBSET PK
         /\ found' \in 0 .. MaxRows /\ truncated' \in BOOLEAN
         /\ \A k \in DOMAIN ins' :
              \/ k \in DOMAIN ins /\ ins'[k] = ins[k]
              \/ k \in DOMAIN rows /\ ins'[k] = rows[k]
         /\ \A k \in DOMAIN upd' :
              \/ k \in DOMAIN upd /\ upd'[k] = upd[k]
              \/ k \in DOMAIN rows /\ upd'[k] = rows[k]
         /\ DOMAIN ins \subseteq DOMAIN ins' /\ DOMAIN upd \subseteq DOMAIN upd'
         /\ del \subseteq del' /\ del' \subseteq del \cup (T \ DOMAIN rows)
         /\ ~truncated' =>
              /\ \A k \in DOMAIN rows :
                   \/ k \in T /\ rows[k] = target[k]
                   \/ k \in DOMAIN ins' \/ k \in DOMAIN upd'
              /\ mode = "mirror" => T \ DOMAIN rows \subseteq del'
<1> DEFINE old == RowsInRange(target, ranges[idx])
           S == DOMAIN rows
           T == DOMAIN old
           diff == {k \in S : k \in T => rows[k] # old[k]}
           room == MaxRows - found
<1>1. ranges[idx] \in PkRange
  BY DEF TypeOK, Paired, PreviewTarget
<1>2. PICK p \in Take(S, diff, room) :
        \E d \in (IF p.cut \/ mode # "mirror"
                  THEN {[picked |-> {}, cut |-> p.cut]}
                  ELSE Take(T, T \ S, room - Cardinality(p.picked))) :
          /\ ins' = Over([k \in p.picked \ T |-> rows[k]], ins)
          /\ upd' = Over([k \in p.picked \cap T |-> rows[k]], upd)
          /\ del' = del \cup d.picked
          /\ found' = found + Cardinality(p.picked) + Cardinality(d.picked)
          /\ truncated' = d.cut
  BY DEF PreviewTarget
<1>3. PICK d \in (IF p.cut \/ mode # "mirror"
                  THEN {[picked |-> {}, cut |-> p.cut]}
                  ELSE Take(T, T \ S, room - Cardinality(p.picked))) :
          /\ ins' = Over([k \in p.picked \ T |-> rows[k]], ins)
          /\ upd' = Over([k \in p.picked \cap T |-> rows[k]], upd)
          /\ del' = del \cup d.picked
          /\ found' = found + Cardinality(p.picked) + Cardinality(d.picked)
          /\ truncated' = d.cut
  BY <1>2
<1>4. /\ S \in SUBSET PK /\ \A k \in S : rows[k] \in Values
      /\ ins \in Maps /\ upd \in Maps /\ del \in SUBSET PK
      /\ found \in 0 .. MaxRows /\ MaxRows \in Nat /\ room \in Nat
  BY BoundAssumption DEF TypeOK, Maps
<1>5. T \in SUBSET PK /\ \A k \in T : old[k] = target[k]
  <2>1. /\ T \subseteq Within(target, ranges[idx])
        /\ \A k \in T : old[k] = target[k]
        /\ Within(target, ranges[idx]) \in SUBSET PK
    BY <1>1, PageOfRange DEF TypeOK
  <2>2. QED
    BY <2>1
<1> HIDE DEF old, T
<1>6. diff \in SUBSET PK /\ T \ S \in SUBSET PK
  BY <1>4, <1>5
<1> HIDE DEF S, diff, room
<1>7. /\ p.picked \subseteq diff /\ p.cut \in BOOLEAN
      /\ Cardinality(p.picked) \in 0 .. room
      /\ ~p.cut => p.picked = diff
  BY <1>4, <1>6, TakeSome
<1>8. /\ d.picked \subseteq T \ S /\ d.cut \in BOOLEAN
      /\ Cardinality(d.picked) \in 0 .. (room - Cardinality(p.picked))
      /\ ~d.cut => ~p.cut /\ (mode = "mirror" => d.picked = T \ S)
  <2>1. CASE p.cut \/ mode # "mirror"
    <3>1. d = [picked |-> {}, cut |-> p.cut]
      BY <2>1, <1>3
    <3>2. d.picked = {} /\ d.cut = p.cut /\ Cardinality(d.picked) = 0
      BY <3>1, FS_EmptySet
    <3>3. QED
      BY <1>4, <1>7, <2>1, <3>2
  <2>2. CASE ~(p.cut \/ mode # "mirror")
    <3>1. d \in Take(T, T \ S, room - Cardinality(p.picked))
      BY <2>2, <1>3
    <3>2. room - Cardinality(p.picked) \in Nat
      BY <1>4, <1>7
    <3>3. QED
      BY <1>6, <2>2, <3>1, <3>2, TakeSome
  <2>3. QED
    BY <2>1, <2>2
<1>9. found' \in 0 .. MaxRows
  BY <1>3, <1>4, <1>7, <1>8 DEF room
<1>10. diff \subseteq S
  BY DEF diff
<1> DEFINE new == [k \in p.picked \ T |-> rows[k]]
           changed == [k \in p.picked \cap T |-> rows[k]]
<1>11. new \in Maps /\ changed \in Maps
  <2>1. /\ new \in [p.picked \ T -> Values]
        /\ changed \in [p.picked \cap T -> Values]
    BY <1>4, <1>7, <1>10
  <2>2. p.picked \ T \in SUBSET PK /\ p.picked \cap T \in SUBSET PK
    BY <1>6, <1>7
  <2>3. QED
    BY <2>1, <2>2 DEF Maps
<1>12. /\ DOMAIN new = p.picked \ T /\ \A k \in DOMAIN new : new[k] = rows[k]
       /\ DOMAIN changed = p.picked \cap T
       /\ \A k \in DOMAIN changed : changed[k] = rows[k]
  OBVIOUS
<1>13. ins' = Over(new, ins) /\ upd' = Over(changed, upd)
  BY <1>3
<1> HIDE DEF new, changed
<1>14. /\ ins' \in Maps /\ DOMAIN ins' = DOMAIN new \cup DOMAIN ins
       /\ \A k \in DOMAIN new : ins'[k] = new[k]
       /\ \A k \in DOMAIN ins \ DOMAIN new : ins'[k] = ins[k]
  BY <1>4, <1>11, <1>13, OverMaps
<1>15. /\ upd' \in Maps /\ DOMAIN upd' = DOMAIN changed \cup DOMAIN upd
       /\ \A k \in DOMAIN changed : upd'[k] = changed[k]
       /\ \A k \in DOMAIN upd \ DOMAIN changed : upd'[k] = upd[k]
  BY <1>4, <1>11, <1>13, OverMaps
<1>16. \A k \in DOMAIN ins' :
         \/ k \in DOMAIN ins /\ ins'[k] = ins[k]
         \/ k \in S /\ ins'[k] = rows[k]
  BY <1>7, <1>10, <1>12, <1>14
<1>17. \A k \in DOMAIN upd' :
         \/ k \in DOMAIN upd /\ upd'[k] = upd[k]
         \/ k \in S /\ upd'[k] = rows[k]
  BY <1>7, <1>10, <1>12, <1>15
<1>18. del' \in SUBSET PK /\ del \subseteq del' /\ del' \subseteq del \cup (T \ S)
  BY <1>3, <1>4, <1>6, <1>8
<1>19. ASSUME ~truncated'
       PROVE  /\ \A k \in S : \/ k \in T /\ rows[k] = target[k]
                              \/ k \in DOMAIN ins' \/ k \in DOMAIN upd'
              /\ mode = "mirror" => T \ S \subseteq del'
  <2>1. p.picked = diff /\ (mode = "mirror" => d.picked = T \ S)
    BY <1>3, <1>7, <1>8, <1>19
  <2>2. \A k \in S : k \in diff \/ (k \in T /\ rows[k] = target[k])
    BY <1>5 DEF diff
  <2>3. \A k \in diff : k \in DOMAIN ins' \/ k \in DOMAIN upd'
    BY <1>12, <1>14, <1>15, <2>1
  <2>4. QED
    BY <1>3, <2>1, <2>2, <2>3
<1>20. truncated' \in BOOLEAN
  BY <1>3, <1>8
<1>21. QED
  BY <1>1, <1>9, <1>14, <1>15, <1>16, <1>17, <1>18, <1>19, <1>20 DEF S, T, old

\* No rows.
LEMMA NoRows == EmptyMap \in Maps /\ DOMAIN EmptyMap = {}
<1>1. EmptyMap \in [{} -> Values]
  BY DEF EmptyMap
<1>2. {} \in SUBSET PK
  OBVIOUS
<1>3. QED
  BY <1>1, <1>2 DEF Maps

\* Every step keeps the types.
LEMMA TypeStep == TypeOK /\ Paired /\ [Next]_vars => TypeOK'
<1> SUFFICES ASSUME TypeOK, Paired, [Next]_vars PROVE TypeOK'
  OBVIOUS
<1> USE DEF TypeOK, tables, request, others, preview, listing
<1>1. ListType'
  <2>1. ListType
    BY DEF ListType, Tables
  <2>2. QED
    BY <2>1, ListTypeStep
<1>2. EmptyMap \in Maps
  BY NoRows
<1>3. CASE FetchSourceBounds
  BY <1>1, <1>3 DEF FetchSourceBounds, ListType
<1>4. CASE FetchTargetBounds
  BY <1>1, <1>4 DEF FetchTargetBounds, ListType
<1>5. CASE ListChunk
  BY <1>1, <1>5 DEF ListChunk, ListType
<1>6. CASE EndList
  BY <1>1, <1>6 DEF EndList, ListType
<1>7. CASE CheckSource
  <2>1. ranges[idx] \in PkRange
    BY <1>7 DEF CheckSource, Paired
  <2>2. rows' \in Maps
    BY <1>7, <2>1, PageOfRange DEF CheckSource
  <2>3. QED
    BY <1>1, <1>7, <2>2 DEF CheckSource, ListType
<1>8. CASE CheckTarget
  <2>1. SameRows(rows, RowsInRange(target, ranges[idx])) \in BOOLEAN
    BY DEF SameRows
  <2>2. equal' \in Seq(BOOLEAN)
    BY <1>8, <2>1 DEF CheckTarget
  <2>3. QED
    BY <1>1, <1>2, <1>8, <2>2 DEF CheckTarget, ListType
<1>9. CASE \E a \in ActionSets : StartPreview(a)
  <2>1. PICK a \in ActionSets : StartPreview(a)
    BY <1>9
  <2>2. actions' \in SUBSET AllActions
    BY <2>1, RequestAssumption DEF StartPreview, AllActions
  <2>3. idx' \in Nat \ {0}
    BY <2>1, SkipsEqual DEF StartPreview
  <2>4. 0 \in 0 .. MaxRows
    BY BoundAssumption
  <2>5. QED
    BY <1>1, <1>2, <2>1, <2>2, <2>3, <2>4 DEF StartPreview, ListType
<1>10. CASE PreviewSource
  <2>1. ranges[idx] \in PkRange
    BY <1>10 DEF PreviewSource
  <2>2. rows' \in Maps
    BY <1>10, <2>1, PageOfRange DEF PreviewSource
  <2>3. QED
    BY <1>1, <1>10, <2>2 DEF PreviewSource, ListType
<1>11. CASE PreviewTarget
  <2>1. /\ ins' \in Maps /\ upd' \in Maps /\ del' \in SUBSET PK
        /\ found' \in 0 .. MaxRows /\ truncated' \in BOOLEAN
    BY <1>11, PreviewOfRange
  <2>2. idx' \in Nat \ {0}
    BY <1>11, SkipsEqual DEF PreviewTarget
  <2>3. /\ UNCHANGED <<source, target, mode, actions, srcBounds, tgtBounds,
                       cursor, ranges, equal, verifying, dirty, writes>>
        /\ rows' = EmptyMap
    BY <1>11 DEF PreviewTarget
  <2>4. QED
    BY <1>1, <1>2, <2>1, <2>2, <2>3 DEF ListType
<1>12. CASE EndPreview
  BY <1>1, <1>2, <1>12 DEF EndPreview, ListType, Allowed
<1>13. CASE DeployCommit
  <2>1. Over(upd, ins) \in Maps
    BY OverMaps
  <2>2. \A k \in DOMAIN Over(upd, ins) : Over(upd, ins)[k] \in Values
    BY <2>1 DEF Maps
  <2>3. Statements(target) \in Tables
    BY <2>2 DEF Statements, Tables
  <2>4. QED
    BY <1>1, <1>13, <2>3 DEF DeployCommit, ListType
<1>14. CASE StartVerify
  BY <1>1, <1>14 DEF StartVerify, ListType
<1>15. CASE Fail
  BY <1>1, <1>2, <1>15 DEF Fail, ListType
<1>16. CASE OtherWrite
  <2>1. source' \in Tables /\ target' \in Tables
    BY <1>16 DEF OtherWrite, Tables
  <2>2. writes' \in 0 .. MaxWrites
    BY <1>16, BoundAssumption DEF OtherWrite
  <2>3. QED
    BY <1>1, <1>16, <2>1, <2>2 DEF OtherWrite, ListType
<1>17. CASE UNCHANGED vars
  BY <1>17 DEF vars
<1>18. QED
  BY <1>3, <1>4, <1>5, <1>6, <1>7, <1>8, <1>9, <1>10, <1>11, <1>12, <1>13,
     <1>14, <1>15, <1>16, <1>17
  DEF Next, Compare, Preview

\* Every step keeps one verdict for each range.
LEMMA PairedStep == TypeOK /\ Paired /\ [Next]_vars => Paired'
<1> SUFFICES ASSUME TypeOK, Paired, [Next]_vars PROVE Paired'
  OBVIOUS
<1>0. /\ ranges \in Seq(PkRange) /\ equal \in Seq(BOOLEAN) /\ idx \in Nat \ {0}
      /\ Len(ranges) \in Nat /\ Len(equal) \in Nat /\ Len(<<>>) = 0
  BY DEF TypeOK
<1>1. CASE FetchSourceBounds \/ FetchTargetBounds \/ ListChunk \/ EndList
  <2>1. /\ UNCHANGED <<equal, idx>> /\ equal = <<>> /\ idx = 1
        /\ phase' \in {"targetBounds", "list", "checkSource", CompareDone}
    BY <1>1 DEF FetchSourceBounds, FetchTargetBounds, ListChunk, EndList, Paired
  <2>2. ranges' \in Seq(PkRange) /\ Len(ranges') \in Nat
    <3>1. ranges' \in Seq(PkRange)
      BY TypeStep DEF TypeOK
    <3>2. QED
      BY <3>1
  <2>3. phase' = "checkSource" => Len(ranges') # 0
    <3>1. CASE FetchTargetBounds
      <4>1. Len(<<Whole>>) = 1
        OBVIOUS
      <4>2. QED
        BY <3>1, <4>1 DEF FetchTargetBounds, CompareDone
    <3>2. CASE EndList
      BY <2>2, <3>2 DEF EndList, CompareDone
    <3>3. CASE FetchSourceBounds \/ ListChunk
      BY <3>3 DEF FetchSourceBounds, ListChunk
    <3>4. QED
      BY <1>1, <3>1, <3>2, <3>3
  <2>4. phase' = "compared" => ranges' = <<>>
    <3>1. CASE FetchTargetBounds
      BY <3>1 DEF FetchTargetBounds, CompareDone
    <3>2. CASE EndList
      BY <3>2 DEF EndList, CompareDone
    <3>3. CASE FetchSourceBounds \/ ListChunk
      BY <3>3 DEF FetchSourceBounds, ListChunk
    <3>4. QED
      BY <1>1, <3>1, <3>2, <3>3
  <2>5. QED
    BY <1>0, <2>1, <2>2, <2>3, <2>4 DEF Paired, CompareDone
<1>2. CASE CheckSource
  BY <1>2 DEF CheckSource, Paired, listing
<1>3. CASE CheckTarget
  <2>1. /\ Len(equal') = Len(equal) + 1 /\ idx' = idx + 1 /\ ranges' = ranges
        /\ idx = Len(equal) + 1 /\ idx <= Len(ranges)
        /\ phase' = IF idx < Len(ranges) THEN "checkSource" ELSE CompareDone
    BY <1>0, <1>3 DEF CheckTarget, Paired, listing
  <2>2. QED
    BY <1>0, <2>1 DEF Paired, CompareDone
<1>4. CASE \E a \in ActionSets : StartPreview(a)
  BY <1>4 DEF StartPreview, Paired, listing
<1>5. CASE PreviewSource
  BY <1>5 DEF PreviewSource, Paired, listing
<1>6. CASE PreviewTarget
  <2>1. UNCHANGED <<ranges, equal>> /\ phase = "previewTarget"
          /\ phase' = "previewSource"
    BY <1>6 DEF PreviewTarget, listing
  <2>2. QED
    BY <2>1 DEF Paired
<1>7. CASE EndPreview
  BY <1>7 DEF EndPreview, Paired, listing
<1>8. CASE DeployCommit
  BY <1>8 DEF DeployCommit, Paired, listing
<1>9. CASE StartVerify
  BY <1>0, <1>9 DEF StartVerify, Paired
<1>10. CASE Fail
  BY <1>10 DEF Fail, Paired, listing
<1>11. CASE OtherWrite
  BY <1>11 DEF OtherWrite, Paired, listing
<1>12. CASE UNCHANGED vars
  BY <1>12 DEF vars, Paired, listing
<1>13. QED
  BY <1>1, <1>2, <1>3, <1>4, <1>5, <1>6, <1>7, <1>8, <1>9, <1>10, <1>11, <1>12
  DEF Next, Compare, Preview

\* Every reachable state is well typed, and the preview never collects more
\* than the rows it was asked for (found, in preview).
THEOREM TypesHold == Spec => [](TypeOK /\ Paired)
<1>1. Init => TypeOK /\ Paired
  <2>1. ASSUME Init PROVE TypeOK
    <3>1. EmptyMap \in Maps /\ AllActions \in SUBSET AllActions
      BY NoRows
    <3>2. /\ [min |-> NoKey, max |-> NoKey] \in BoundsType
          /\ NoKey \in KeyOrNone /\ <<>> \in Seq(PkRange) /\ <<>> \in Seq(BOOLEAN)
      BY DEF BoundsType, KeyOrNone
    <3>3. 0 \in 0 .. MaxRows /\ 0 \in 0 .. MaxWrites
      BY BoundAssumption
    <3>4. "bounds" \in Phases
      BY DEF Phases
    <3>5. /\ source \in Tables /\ target \in Tables /\ mode \in Modes
          /\ actions = AllActions /\ phase = "bounds" /\ verifying = FALSE
          /\ srcBounds = [min |-> NoKey, max |-> NoKey] /\ tgtBounds = srcBounds
          /\ cursor = NoKey /\ ranges = <<>> /\ equal = <<>> /\ idx = 1
          /\ rows = EmptyMap /\ ins = EmptyMap /\ upd = EmptyMap /\ del = {}
          /\ found = 0 /\ truncated = FALSE /\ dirty = {} /\ writes = 0
      BY <2>1 DEF Init
    <3>6. /\ truncated \in BOOLEAN /\ verifying \in BOOLEAN
          /\ del \in SUBSET PK /\ dirty \in SUBSET PK
      BY <3>5
    <3>7. /\ ranges \in Seq(PkRange) /\ equal \in Seq(BOOLEAN) /\ idx \in Nat \ {0}
          /\ rows \in Maps /\ ins \in Maps /\ upd \in Maps
      BY <3>1, <3>2, <3>5
    <3>8. /\ srcBounds \in BoundsType /\ tgtBounds \in BoundsType
          /\ cursor \in KeyOrNone /\ actions \in SUBSET AllActions
          /\ phase \in Phases
          /\ found \in 0 .. MaxRows /\ writes \in 0 .. MaxWrites
      BY <3>1, <3>2, <3>3, <3>4, <3>5
    <3>9. QED
      BY <3>5, <3>6, <3>7, <3>8 DEF TypeOK
  <2>2. ASSUME Init PROVE Paired
    BY <2>2 DEF Init, Paired
  <2>3. QED
    BY <2>1, <2>2
<1>2. TypeOK /\ Paired /\ [Next]_vars => TypeOK' /\ Paired'
  BY TypeStep, PairedStep
<1>3. QED
  BY <1>1, <1>2, PTL DEF Spec

-----------------------------------------------------------------------------
(***************************************************************************)
(* The source fits.                                                        *)
(***************************************************************************)
\* The rows of a chunk, its last key among them whether or not it is there:
\* a chunk is listed with at most ChunkSize, a range at an end of the table
\* with none, and every write of another session adds at most one.
Seats(r) == Within(source, r) \cup (IF IsChunk(r) THEN {r.end} ELSE {})

BelowMin == {k \in Rows(source) : k < srcBounds.min}
AboveMax == {k \in Rows(source) : k > srcBounds.max}

EndsFit ==
  /\ phase \notin {"bounds", "failed"} /\ srcBounds.min = NoKey
       => Cardinality(Rows(source)) <= writes
  /\ srcBounds.min # NoKey =>
       /\ srcBounds.max # NoKey
       /\ Cardinality(BelowMin) <= writes /\ Cardinality(AboveMax) <= writes

RangeFits(r) ==
  /\ IsChunk(r) => r.endIncl
  /\ Cardinality(Seats(r)) <= writes + (IF IsChunk(r) THEN ChunkSize ELSE 0)

RangesFit == \A i \in 1 .. Len(ranges) : RangeFits(ranges[i])

\* The bounds of a table that is not empty.
LEMMA BoundsHold ==
  ASSUME NEW t, Bounds(t).min # NoKey
  PROVE  /\ Bounds(t).min \in Rows(t) /\ Bounds(t).max \in Rows(t)
         /\ Bounds(t).max # NoKey
         /\ \A k \in Rows(t) : Bounds(t).min <= k /\ k <= Bounds(t).max
<1>1. Rows(t) # {} /\ Rows(t) \in SUBSET PK
  BY DEF Bounds, Rows
<1>2. Bounds(t).min = Min(Rows(t)) /\ Bounds(t).max = Max(Rows(t))
  BY <1>1 DEF Bounds
<1>3. QED
  BY <1>1, <1>2, KeySets, MinExists, MaxExists

\* The ranges at the two ends of the table.
LEMMA EndRanges ==
  ASSUME NEW sb \in BoundsType, NEW tb \in BoundsType
  PROVE  /\ \A i \in 1 .. Len(HeadRange(sb, tb)) :
              /\ sb.min # NoKey
              /\ ~IsChunk(HeadRange(sb, tb)[i])
              /\ \A k \in PK : InRange(HeadRange(sb, tb)[i], k) => k < sb.min
         /\ \A i \in 1 .. Len(TailRange(sb, tb)) :
              /\ sb.max # NoKey
              /\ ~IsChunk(TailRange(sb, tb)[i])
              /\ \A k \in PK : InRange(TailRange(sb, tb)[i], k) => k > sb.max
<1> DEFINE h == [Whole EXCEPT !.end = sb.min, !.endIncl = FALSE]
           t == [Whole EXCEPT !.start = sb.max, !.startIncl = FALSE]
<1>1. HeadRange(sb, tb) = <<>> \/ (HeadRange(sb, tb) = <<h>> /\ sb.min # NoKey)
  BY DEF HeadRange
<1>2. TailRange(sb, tb) = <<>> \/ (TailRange(sb, tb) = <<t>> /\ sb.max # NoKey)
  BY DEF TailRange
<1>3. /\ h.start = NoKey /\ h.end = sb.min /\ h.endIncl = FALSE
      /\ t.end = NoKey /\ t.start = sb.max /\ t.startIncl = FALSE
  BY DEF Whole
<1> HIDE DEF h, t
<1>4. /\ Len(<<h>>) = 1 /\ <<h>>[1] = h /\ Len(<<t>>) = 1 /\ <<t>>[1] = t
      /\ 1 .. Len(<<>>) = {}
  OBVIOUS
<1>5. sb.min # NoKey => \A k \in PK : InRange(h, k) => k < sb.min
  BY <1>3 DEF InRange
<1>6. sb.max # NoKey => \A k \in PK : InRange(t, k) => k > sb.max
  BY <1>3 DEF InRange
<1>7. ~IsChunk(h) /\ ~IsChunk(t)
  BY <1>3 DEF IsChunk
<1>8. \A i \in 1 .. Len(HeadRange(sb, tb)) :
        HeadRange(sb, tb)[i] = h /\ sb.min # NoKey
  BY <1>1, <1>4
<1>9. \A i \in 1 .. Len(TailRange(sb, tb)) :
        TailRange(sb, tb)[i] = t /\ sb.max # NoKey
  BY <1>2, <1>4
<1>10. QED
  BY <1>5, <1>6, <1>7, <1>8, <1>9

\* The rows of a table in the range of a page are the page.
LEMMA PageIsItsRange ==
  ASSUME NEW t, NEW last \in KeyOrNone, PkListAfter(t, last) # {}
  PROVE  /\ Within(t, ChunkRange(PkListAfter(t, last))) = PkListAfter(t, last)
         /\ Cardinality(PkListAfter(t, last)) <= ChunkSize
<1> DEFINE S == {q \in Rows(t) : last = NoKey \/ q > last}
           keys == PkListAfter(t, last)
<1>1. S \in SUBSET PK /\ keys = FirstN(S, ChunkSize) /\ keys \subseteq S
  BY DEF PkListAfter, FirstN, Rows
<1>2. keys \in SUBSET PK /\ keys # {}
  BY <1>1
<1>3. /\ Min(keys) \in keys /\ Max(keys) \in keys
      /\ \A k \in keys : Min(keys) <= k /\ k <= Max(keys)
      /\ keys \subseteq Int /\ Min(keys) # NoKey /\ Max(keys) # NoKey
  BY <1>2, KeySets, MinExists, MaxExists
<1>4. Cardinality(keys) <= ChunkSize
  BY <1>1, PageSize, BoundAssumption
<1>5. ASSUME NEW k \in keys PROVE k \in Within(t, ChunkRange(keys))
  <2>1. k \in Rows(t)
    BY <1>1
  <2>2. k \in Int /\ Min(keys) \in Int /\ Max(keys) \in Int
          /\ Min(keys) <= k /\ k <= Max(keys)
    BY <1>3
  <2>3. QED
    BY <2>1, <2>2 DEF Within, InRange, ChunkRange
<1>6. ASSUME NEW k \in Within(t, ChunkRange(keys)) PROVE k \in keys
  <2>1. k \in Rows(t) /\ k \in PK /\ k \in Int /\ InRange(ChunkRange(keys), k)
    BY KeyAssumption DEF Within, Rows
  <2>2. Min(keys) \in Int /\ Max(keys) \in Int
    BY <1>3
  <2>3. Min(keys) <= k /\ k <= Max(keys)
    BY <1>3, <2>1, <2>2 DEF InRange, ChunkRange
  <2>4. last = NoKey \/ (last \in Int /\ Min(keys) > last)
    BY <1>1, <1>3, KeyAssumption DEF KeyOrNone
  <2>5. last = NoKey \/ k > last
    BY <2>1, <2>2, <2>3, <2>4
  <2>6. k \in S
    BY <2>1, <2>5
  <2>7. ChunkSize \in Nat \ {0} /\ S \subseteq Int /\ IsFiniteSet(S)
    BY <1>1, KeySets, BoundAssumption
  <2>8. Max(keys) \in FirstN(S, ChunkSize)
    BY <1>1, <1>3
  <2> HIDE DEF S
  <2>9. QED
    BY <1>1, <2>3, <2>6, <2>7, <2>8, PageOfKeys
<1>7. QED
  BY <1>4, <1>5, <1>6

\* One write adds at most one row.
LEMMA OneMore ==
  ASSUME NEW S \in SUBSET PK, NEW S2 \in SUBSET PK, NEW k \in PK,
         S2 \subseteq S \cup {k}, NEW n \in Nat, Cardinality(S) <= n
  PROVE  Cardinality(S2) <= n + 1
<1>1. IsFiniteSet(S) /\ Cardinality(S) \in Nat
  BY KeySets, FS_CardinalityType
<1>2. /\ IsFiniteSet(S \cup {k})
      /\ Cardinality(S \cup {k}) <= Cardinality(S) + 1
  <2>1. /\ IsFiniteSet(S \cup {k})
        /\ Cardinality(S \cup {k}) = IF k \in S THEN Cardinality(S)
                                      ELSE Cardinality(S) + 1
    BY <1>1, FS_AddElement
  <2>2. QED
    BY <1>1, <2>1
<1>3. /\ Cardinality(S2) <= Cardinality(S \cup {k})
      /\ Cardinality(S2) \in Nat /\ Cardinality(S \cup {k}) \in Nat
  BY <1>2, FS_Subset, FS_CardinalityType
<1>4. QED
  BY <1>1, <1>2, <1>3

\* With the source, the ranges and their bounds a step leaves alone what fits.
LEMMA FitStays ==
  ASSUME UNCHANGED <<source, writes>>
  PROVE  /\ \A r : RangeFits(r)' <=> RangeFits(r)
         /\ Rows(source)' = Rows(source)
         /\ srcBounds' = srcBounds =>
              BelowMin' = BelowMin /\ AboveMax' = AboveMax
<1>1. Rows(source)' = Rows(source)
  BY DEF Rows
<1>2. ASSUME NEW r PROVE RangeFits(r)' <=> RangeFits(r)
  <2>1. Seats(r)' = Seats(r)
    BY DEF Seats, Within, Rows, InRange, IsChunk
  <2>2. QED
    BY <2>1 DEF RangeFits, IsChunk
<1>3. QED
  BY <1>1, <1>2 DEF BelowMin, AboveMax

\* Ranges that hold few source rows fit.
LEMMA FewRowsFit ==
  ASSUME NEW r \in PkRange, ~IsChunk(r), NEW S \in SUBSET PK,
         Within(source, r) \subseteq S, Cardinality(S) <= writes, writes \in Nat
  PROVE  RangeFits(r)
<1>1. Seats(r) = Within(source, r)
  BY DEF Seats
<1>2. IsFiniteSet(S) /\ Cardinality(S) \in Nat
  BY KeySets, FS_CardinalityType
<1>3. Cardinality(Seats(r)) \in Nat /\ Cardinality(Seats(r)) <= Cardinality(S)
  BY <1>1, <1>2, FS_Subset, FS_CardinalityType
<1>4. QED
  BY <1>2, <1>3 DEF RangeFits

\* A write of another session takes at most one seat in every range.
LEMMA WriteTakesOneSeat ==
  ASSUME TypeOK, OtherWrite
  PROVE  /\ \A r \in PkRange : RangeFits(r) => RangeFits(r)'
         /\ \A S, S2 \in SUBSET PK :
              /\ Cardinality(S) <= writes
              /\ S2 \ S \subseteq Rows(source)' \ Rows(source)
              => Cardinality(S2) <= writes'
<1>1. PICK w \in PK : \E v \in Values \cup {NoRow} :
        \/ source' = [source EXCEPT ![w] = v]
        \/ source' = source
  BY DEF OtherWrite
<1>2. Rows(source)' \ Rows(source) \subseteq {w}
  BY <1>1 DEF Rows, TypeOK, Tables
<1>3. writes' = writes + 1 /\ writes \in Nat /\ ChunkSize \in Nat
  BY BoundAssumption DEF OtherWrite, TypeOK
<1>4. ASSUME NEW S \in SUBSET PK, NEW S2 \in SUBSET PK, Cardinality(S) <= writes,
             S2 \ S \subseteq Rows(source)' \ Rows(source)
      PROVE  Cardinality(S2) <= writes'
  BY <1>2, <1>3, <1>4, OneMore
<1>5. ASSUME NEW r \in PkRange, RangeFits(r) PROVE RangeFits(r)'
  <2> DEFINE n == writes + (IF IsChunk(r) THEN ChunkSize ELSE 0)
             m == writes' + (IF IsChunk(r) THEN ChunkSize ELSE 0)
  <2>1. Seats(r) \in SUBSET PK /\ Seats(r)' \in SUBSET PK
    BY DEF Seats, Within, Rows, PkRange, KeyOrNone, IsChunk
  <2>2. Seats(r)' \subseteq Seats(r) \cup {w}
    BY <1>2 DEF Seats, Within, Rows, InRange, IsChunk
  <2>3. Cardinality(Seats(r)) <= n /\ n \in Nat /\ m = n + 1
    BY <1>3, <1>5 DEF RangeFits
  <2> HIDE DEF n
  <2>4. Cardinality(Seats(r)') <= n + 1
    BY <2>1, <2>2, <2>3, OneMore
  <2>5. Cardinality(Seats(r)') <= m
    BY <2>3, <2>4
  <2>6. QED
    BY <1>5, <2>5 DEF RangeFits, IsChunk
<1>6. QED
  BY <1>4, <1>5

\* Every step keeps the source's side of the ranges within the limit.
LEMMA FitStep ==
  TypeOK /\ CoverInv /\ EndsFit /\ RangesFit /\ [Next]_vars
    => EndsFit' /\ RangesFit'
<1> SUFFICES ASSUME TypeOK, CoverInv, EndsFit, RangesFit, [Next]_vars
             PROVE  EndsFit' /\ RangesFit'
  OBVIOUS
<1>0. /\ writes \in Nat /\ ChunkSize \in Nat /\ ranges \in Seq(PkRange)
      /\ srcBounds \in BoundsType /\ tgtBounds \in BoundsType
      /\ cursor \in KeyOrNone /\ Cardinality({}) = 0 /\ Len(<<>>) = 0
  BY BoundAssumption, FS_EmptySet DEF TypeOK
<1>1. CASE FetchSourceBounds
  <2>1. /\ UNCHANGED <<source, ranges, writes>> /\ srcBounds' = Bounds(source)
    BY <1>1 DEF FetchSourceBounds, tables, others
  <2>2. RangesFit'
    BY <2>1, FitStays DEF RangesFit
  <2>3. CASE Bounds(source).min = NoKey
    <3>1. Rows(source) = {}
      BY <2>3, BoundsOfTable
    <3>2. Cardinality(Rows(source)) <= writes
      BY <1>0, <3>1
    <3>3. EndsFit'
      BY <2>1, <2>3, <3>2, FitStays DEF EndsFit
    <3>4. QED
      BY <2>2, <3>3
  <2>4. CASE Bounds(source).min # NoKey
    <3>1. /\ Bounds(source).min \in Int /\ Bounds(source).max \in Int
          /\ Bounds(source).max # NoKey
          /\ \A k \in Rows(source) : /\ k \in Int /\ Bounds(source).min <= k
                                     /\ k <= Bounds(source).max
      BY <2>4, BoundsHold, KeyAssumption DEF Rows
    <3>2. /\ \A k \in Rows(source) : ~(k < Bounds(source).min)
          /\ \A k \in Rows(source) : ~(k > Bounds(source).max)
      BY <3>1
    <3>3. BelowMin' = {} /\ AboveMax' = {}
      BY <2>1, <3>2, FitStays DEF BelowMin, AboveMax
    <3>4. EndsFit'
      BY <1>0, <2>1, <2>4, <3>1, <3>3 DEF EndsFit
    <3>5. QED
      BY <2>2, <3>4
  <2>5. QED
    BY <2>3, <2>4
<1>2. CASE FetchTargetBounds
  <2> DEFINE head == HeadRange(srcBounds, Bounds(target))
  <2>1. /\ UNCHANGED <<source, srcBounds, writes>> /\ phase = "targetBounds"
        /\ \/ ranges' = head
           \/ srcBounds.min = NoKey /\ ranges' = <<Whole>>
           \/ ranges' = <<>>
        /\ phase' \in {"list", "checkSource", CompareDone}
    BY <1>2 DEF FetchTargetBounds, tables, others
  <2>2. EndsFit'
    BY <2>1, FitStays DEF EndsFit, CompareDone
  <2>3. CASE ranges' = head
    <3>1. ASSUME NEW i \in 1 .. Len(head) PROVE RangeFits(head[i])
      <4>1. head[i] \in PkRange
        BY BoundsOfTable, RangeTypes, <1>0
      <4>2. /\ srcBounds.min # NoKey /\ ~IsChunk(head[i])
            /\ \A k \in PK : InRange(head[i], k) => k < srcBounds.min
        BY BoundsOfTable, EndRanges, <1>0
      <4> HIDE DEF head
      <4>3. /\ Within(source, head[i]) \subseteq BelowMin
            /\ BelowMin \in SUBSET PK
        BY <4>2 DEF Within, BelowMin, Rows
      <4>4. Cardinality(BelowMin) <= writes
        BY <4>2 DEF EndsFit
      <4>5. QED
        BY <1>0, <4>1, <4>2, <4>3, <4>4, FewRowsFit
    <3>2. QED
      BY <2>1, <2>2, <2>3, <3>1, FitStays DEF RangesFit
  <2>4. CASE srcBounds.min = NoKey /\ ranges' = <<Whole>>
    <3>1. Whole \in PkRange /\ ~IsChunk(Whole)
      BY RangeTypes DEF Whole, IsChunk
    <3>2. Within(source, Whole) \subseteq Rows(source) /\ Rows(source) \in SUBSET PK
      BY DEF Within, Rows
    <3>3. Cardinality(Rows(source)) <= writes
      BY <2>1, <2>4 DEF EndsFit
    <3>4. RangeFits(Whole)
      BY <1>0, <3>1, <3>2, <3>3, FewRowsFit
    <3>5. Len(<<Whole>>) = 1 /\ <<Whole>>[1] = Whole
      OBVIOUS
    <3>6. \A i \in 1 .. Len(ranges') : ranges'[i] = Whole
      BY <2>4, <3>5
    <3>7. QED
      BY <2>1, <2>2, <3>4, <3>6, FitStays DEF RangesFit
  <2>5. CASE ranges' = <<>>
    BY <1>0, <2>2, <2>5 DEF RangesFit
  <2>6. QED
    BY <2>1, <2>3, <2>4, <2>5
<1>3. CASE ListChunk
  <2> DEFINE keys == PkListAfter(source, cursor)
             new == ChunkRange(keys)
  <2>1. /\ UNCHANGED <<source, srcBounds, writes, phase>> /\ keys # {}
        /\ ranges' = Append(ranges, new)
    BY <1>3 DEF ListChunk, tables, others
  <2>2. EndsFit'
    BY <2>1, FitStays DEF EndsFit
  <2>3. keys \in SUBSET PK
    BY DEF PkListAfter, FirstN, Rows
  <2>4. new \in PkRange /\ new.end = Max(keys) /\ new.endIncl /\ Max(keys) \in keys
    BY <2>1, <2>3, RangeTypes, KeySets, MaxExists DEF ChunkRange
  <2>5. Within(source, new) = keys /\ Cardinality(keys) <= ChunkSize
    BY <1>0, <2>1, PageIsItsRange
  <2>6. new.start # NoKey /\ new.end # NoKey
    BY <2>1, <2>3, KeySets, MinExists, MaxExists DEF ChunkRange
  <2> HIDE DEF new, keys
  <2>7. Seats(new) = keys
    BY <2>4, <2>5 DEF Seats
  <2>8. IsFiniteSet(keys) /\ Cardinality(keys) \in Nat
    BY <2>3, KeySets, FS_CardinalityType
  <2>9. RangeFits(new)
    BY <1>0, <2>4, <2>5, <2>6, <2>7, <2>8 DEF RangeFits, IsChunk
  <2>10. /\ Len(ranges') = Len(ranges) + 1 /\ ranges'[Len(ranges) + 1] = new
         /\ \A i \in 1 .. Len(ranges) : ranges'[i] = ranges[i]
    BY <1>0, <2>1, <2>4
  <2>11. ASSUME NEW i \in 1 .. Len(ranges') PROVE RangeFits(ranges'[i])
    <3>1. i = Len(ranges) + 1 \/ i \in 1 .. Len(ranges)
      BY <1>0, <2>10
    <3>2. QED
      BY <2>9, <2>10, <3>1 DEF RangesFit
  <2>12. QED
    BY <2>1, <2>2, <2>11, FitStays DEF RangesFit
<1>4. CASE EndList
  <2> DEFINE tail == TailRange(srcBounds, tgtBounds)
  <2>1. /\ UNCHANGED <<source, srcBounds, writes>> /\ ranges' = ranges \o tail
        /\ phase = "list" /\ phase' \in {"checkSource", CompareDone}
    BY <1>4 DEF EndList, tables, others
  <2>2. EndsFit'
    BY <2>1, FitStays DEF EndsFit, CompareDone
  <2>3. tail \in Seq(PkRange)
    BY <1>0, RangeTypes
  <2>4. ASSUME NEW i \in 1 .. Len(tail) PROVE RangeFits(tail[i])
    <3>1. tail[i] \in PkRange
      BY <2>3
    <3>2. /\ srcBounds.max # NoKey /\ ~IsChunk(tail[i])
          /\ \A k \in PK : InRange(tail[i], k) => k > srcBounds.max
      BY EndRanges, <1>0
    <3> HIDE DEF tail
    <3>3. /\ Within(source, tail[i]) \subseteq AboveMax
          /\ AboveMax \in SUBSET PK
          /\ Within(source, tail[i]) \subseteq Rows(source)
          /\ Rows(source) \in SUBSET PK
      BY <3>2 DEF Within, AboveMax, Rows
    <3>4. CASE srcBounds.min # NoKey
      <4>1. Cardinality(AboveMax) <= writes
        BY <3>4 DEF EndsFit
      <4>2. QED
        BY <1>0, <3>1, <3>2, <3>3, <4>1, FewRowsFit
    <3>5. CASE srcBounds.min = NoKey
      <4>1. Cardinality(Rows(source)) <= writes
        BY <2>1, <3>5 DEF EndsFit
      <4>2. QED
        BY <1>0, <3>1, <3>2, <3>3, <4>1, FewRowsFit
    <3>6. QED
      BY <3>4, <3>5
  <2> HIDE DEF tail
  <2>5. ASSUME NEW i \in 1 .. Len(ranges') PROVE RangeFits(ranges'[i])
    <3>1. \/ i \in 1 .. Len(ranges) /\ ranges'[i] = ranges[i]
          \/ i - Len(ranges) \in 1 .. Len(tail) /\ ranges'[i] = tail[i - Len(ranges)]
      BY <1>0, <2>1, <2>3
    <3>2. QED
      BY <2>4, <3>1 DEF RangesFit
  <2>6. QED
    BY <2>1, <2>2, <2>5, FitStays DEF RangesFit
<1>5. CASE StartVerify
  <2>1. srcBounds'.min = NoKey /\ phase' = "bounds" /\ ranges' = <<>>
    BY <1>5 DEF StartVerify
  <2>2. QED
    BY <1>0, <2>1 DEF EndsFit, RangesFit
<1>6. CASE OtherWrite
  <2>1. UNCHANGED <<srcBounds, ranges, phase>>
    BY <1>6 DEF OtherWrite, listing
  <2>2. RangesFit'
    <3>1. \A i \in 1 .. Len(ranges) : ranges[i] \in PkRange
      BY <1>0
    <3>2. QED
      BY <1>6, <2>1, <3>1, WriteTakesOneSeat DEF RangesFit
  <2>3. /\ BelowMin' \ BelowMin \subseteq Rows(source)' \ Rows(source)
        /\ AboveMax' \ AboveMax \subseteq Rows(source)' \ Rows(source)
        /\ BelowMin \in SUBSET PK /\ AboveMax \in SUBSET PK /\ Rows(source) \in SUBSET PK
        /\ BelowMin' \in SUBSET PK /\ AboveMax' \in SUBSET PK /\ Rows(source)' \in SUBSET PK
    BY <2>1 DEF BelowMin, AboveMax, Rows
  <2>4. /\ Cardinality(BelowMin) <= writes => Cardinality(BelowMin') <= writes'
        /\ Cardinality(AboveMax) <= writes => Cardinality(AboveMax') <= writes'
        /\ Cardinality(Rows(source)) <= writes
             => Cardinality(Rows(source)') <= writes'
    BY <1>6, <2>3, WriteTakesOneSeat
  <2>5. EndsFit'
    BY <2>1, <2>4 DEF EndsFit
  <2>6. QED
    BY <2>2, <2>5
<1>7. CASE CheckSource \/ CheckTarget \/ (\E a \in ActionSets : StartPreview(a))
           \/ Preview \/ DeployCommit \/ Fail \/ UNCHANGED vars
  <2>1. UNCHANGED <<source, srcBounds, ranges, writes>>
    BY <1>7 DEF CheckSource, CheckTarget, StartPreview, Preview, PreviewSource,
       PreviewTarget, EndPreview, DeployCommit, Fail, vars, tables, others, listing
  <2>2. \/ phase' \in {phase, "failed"}
        \/ Listed
    <3>1. ListType
      BY DEF TypeOK, ListType, Tables
    <3>2. QED
      BY <1>7, <3>1, OtherSteps
  <2>3. RangesFit'
    BY <2>1, FitStays DEF RangesFit
  <2>4. EndsFit'
    BY <2>1, <2>2, FitStays DEF EndsFit, Listed
  <2>5. QED
    BY <2>3, <2>4
<1>8. QED
  BY <1>1, <1>2, <1>3, <1>4, <1>5, <1>6, <1>7 DEF Next, Compare

\* So, with room in the limit, the page read of a listed range of the source
\* leaves no row of it out.
LEMMA SourceIsRead ==
  ASSUME Roomy, TypeOK, RangesFit, NEW i \in 1 .. Len(ranges)
  PROVE  Full(DOMAIN RowsInRange(source, ranges[i]), ranges[i])
<1> DEFINE r == ranges[i]
           S == Within(source, r)
<1>1. r \in PkRange /\ source \in Tables
  BY DEF TypeOK
<1>2. DOMAIN RowsInRange(source, r) = FirstN(S, RowLimit) /\ S \in SUBSET PK
  BY <1>1, PageOfRange
<1>3. CASE Cardinality(PK) <= RowLimit
  BY <1>3 DEF Full
<1>4. CASE ChunkSize + MaxWrites <= RowLimit
  <2>1. /\ writes \in Nat /\ writes <= MaxWrites /\ MaxWrites \in Nat
        /\ ChunkSize \in Nat \ {0} /\ RowLimit \in Nat
    BY BoundAssumption DEF TypeOK
  <2>2. Seats(r) \in SUBSET PK /\ S \subseteq Seats(r)
    BY <1>1, <1>2 DEF Seats, PkRange, KeyOrNone, IsChunk
  <2>3. /\ IsFiniteSet(Seats(r)) /\ Cardinality(Seats(r)) \in Nat
        /\ Cardinality(S) \in Nat /\ Cardinality(S) <= Cardinality(Seats(r))
    BY <2>2, KeySets, FS_Subset, FS_CardinalityType
  <2>4. RangeFits(r)
    BY DEF RangesFit
  <2> HIDE DEF r, S
  <2>5. Cardinality(Seats(r)) <= writes + (IF IsChunk(r) THEN ChunkSize ELSE 0)
    BY <2>4 DEF RangeFits
  <2>6. Cardinality(S) <= RowLimit
    BY <1>4, <2>1, <2>3, <2>5
  <2>7. FirstN(S, RowLimit) = S
    BY <1>2, <2>1, <2>6, FewBelow
  <2>8. CASE Cardinality(S) < RowLimit
    BY <1>2, <2>7, <2>8 DEF Full, r
  <2>9. CASE Cardinality(S) = RowLimit
    <3>1. IsChunk(r)
      BY <1>4, <2>1, <2>3, <2>5, <2>9
    <3>2. Cardinality(Seats(r)) = Cardinality(S)
      BY <1>4, <2>1, <2>3, <2>5, <2>9, <3>1
    <3>3. Seats(r) = S
      BY <2>2, <2>3, <3>2, FS_Subset
    <3>4. r.end \in S /\ r.endIncl
      BY <2>4, <3>1, <3>3 DEF Seats, RangeFits
    <3>5. QED
      BY <1>2, <2>7, <3>1, <3>4 DEF Full, r
  <2>10. QED
    BY <2>1, <2>3, <2>6, <2>8, <2>9
<1>5. QED
  BY <1>3, <1>4 DEF Roomy
-----------------------------------------------------------------------------
(***************************************************************************)
(* What the engine knows of the keys nobody else wrote.                    *)
(***************************************************************************)
\* Between its two reads of a range the engine holds the source's side of it:
\* every row, with its contents.
ReadInv ==
  phase \in {"checkTarget", "previewTarget"} =>
    /\ Full(DOMAIN rows, ranges[idx])
    /\ \A k \in Stable : InRange(ranges[idx], k) =>
         /\ k \in DOMAIN rows <=> source[k] # NoRow
         /\ k \in DOMAIN rows => rows[k] = source[k]
    /\ \A k \in DOMAIN rows : InRange(ranges[idx], k)

\* What a preview collected leads from the target to the source.
CollectInv ==
  /\ \A k \in Stable \cap DOMAIN ins : ins[k] = source[k]
  /\ \A k \in Stable \cap DOMAIN upd : upd[k] = source[k]
  /\ NoStableSourceRowDeleted

\* The deploy brings the key to the state of the source, if it is not in it.
Settled(k) ==
  /\ source[k] # NoRow =>
       k \in DOMAIN ins \/ k \in DOMAIN upd \/ target[k] = source[k]
  /\ source[k] = NoRow /\ mode = "mirror" /\ Cardinality(PK) <= RowLimit =>
       k \in del \/ target[k] = NoRow

\* An uncut preview has settled the ranges it visited, at its end all.
SettledInv ==
  /\ phase \in {"previewSource", "previewTarget"} /\ ~truncated =>
       \A i \in 1 .. Len(ranges) : i < idx =>
         \A k \in Stable : InRange(ranges[i], k) => Settled(k)
  /\ phase = "previewTarget" => ~truncated
  /\ phase = "previewed" /\ ~truncated /\ actions = AllActions =>
       \A k \in Stable : Covered(k) => Settled(k)
  /\ DeployConverges

\* Writes of other sessions only take keys away from those nobody wrote, and
\* leave the two tables alone on what remains.
LEMMA WritesAreDirty ==
  ASSUME TypeOK, OtherWrite
  PROVE  /\ Stable' \subseteq Stable
         /\ \A k \in Stable' : source'[k] = source[k] /\ target'[k] = target[k]
         /\ UNCHANGED <<phase, ranges, equal, idx, rows, ins, upd, del, truncated,
                        actions, mode>>
<1>1. PICK w \in PK, v \in Values \cup {NoRow} :
        /\ \/ source' = [source EXCEPT ![w] = v] /\ target' = target
           \/ target' = [target EXCEPT ![w] = v] /\ source' = source
        /\ dirty' = dirty \cup {w}
  BY DEF OtherWrite
<1>2. source \in Tables /\ target \in Tables
  BY DEF TypeOK
<1>3. Stable' \subseteq Stable /\ \A k \in Stable' : k \in PK /\ k # w
  BY <1>1 DEF Stable
<1>4. \A k \in PK : k # w => source'[k] = source[k] /\ target'[k] = target[k]
  BY <1>1, <1>2 DEF Tables
<1>5. QED
  BY <1>3, <1>4 DEF OtherWrite, listing, preview, request

\* The source's side of a range, just read.
LEMMA ReadsRange ==
  ASSUME Roomy, TypeOK, RangesFit, NEW i \in 1 .. Len(ranges),
         rows' = RowsInRange(source, ranges[i])
  PROVE  /\ Full(DOMAIN rows', ranges[i])
         /\ \A k \in PK : InRange(ranges[i], k) =>
              /\ k \in DOMAIN rows' <=> source[k] # NoRow
              /\ k \in DOMAIN rows' => rows'[k] = source[k]
         /\ \A k \in DOMAIN rows' : InRange(ranges[i], k)
<1>1. ranges[i] \in PkRange /\ source \in Tables
  BY DEF TypeOK
<1>2. Full(DOMAIN rows', ranges[i])
  BY SourceIsRead
<1>3. DOMAIN rows' = Within(source, ranges[i])
  BY <1>1, <1>2, FullPage
<1>4. \A k \in DOMAIN rows' : rows'[k] = source[k]
  BY <1>1, PageOfRange
<1>5. QED
  BY <1>2, <1>3, <1>4 DEF Within, Rows

\* Every step keeps what the engine holds of the source right.
LEMMA ReadStep ==
  Roomy /\ TypeOK /\ Paired /\ RangesFit /\ ReadInv /\ [Next]_vars => ReadInv'
<1> SUFFICES ASSUME Roomy, TypeOK, Paired, RangesFit, ReadInv, [Next]_vars
             PROVE  ReadInv'
  OBVIOUS
<1>1. CASE CheckSource \/ PreviewSource
  <2>1. /\ idx \in 1 .. Len(ranges) /\ rows' = RowsInRange(source, ranges[idx])
        /\ UNCHANGED <<source, ranges, idx, dirty>>
    BY <1>1 DEF CheckSource, PreviewSource, Paired, TypeOK, tables, listing, others
  <2>2. Stable' \subseteq PK
    BY DEF Stable
  <2>3. /\ Full(DOMAIN rows', ranges[idx])
        /\ \A k \in PK : InRange(ranges[idx], k) =>
             /\ k \in DOMAIN rows' <=> source[k] # NoRow
             /\ k \in DOMAIN rows' => rows'[k] = source[k]
        /\ \A k \in DOMAIN rows' : InRange(ranges[idx], k)
    BY <2>1, ReadsRange
  <2>4. Full(DOMAIN rows, ranges[idx])'
    BY <2>1, <2>3 DEF Full, IsChunk
  <2>5. QED
    BY <2>1, <2>2, <2>3, <2>4 DEF ReadInv, InRange
<1>2. CASE OtherWrite
  <2>1. /\ Stable' \subseteq Stable
        /\ \A k \in Stable' : source'[k] = source[k]
        /\ UNCHANGED <<phase, ranges, idx, rows>>
    BY <1>2, WritesAreDirty
  <2>2. QED
    BY <2>1 DEF ReadInv, Full, IsChunk, InRange
<1>3. CASE UNCHANGED vars
  BY <1>3 DEF vars, ReadInv, Full, IsChunk, InRange, tables, listing, others, Stable
<1>4. CASE \/ FetchSourceBounds \/ FetchTargetBounds \/ ListChunk \/ EndList
           \/ CheckTarget \/ PreviewTarget \/ EndPreview \/ DeployCommit
           \/ StartVerify \/ Fail \/ \E a \in ActionSets : StartPreview(a)
  <2>1. phase' \notin {"checkTarget", "previewTarget"}
    BY <1>4 DEF FetchSourceBounds, FetchTargetBounds, ListChunk, EndList, CheckTarget,
       PreviewTarget, EndPreview, DeployCommit, StartVerify, Fail, StartPreview,
       CompareDone
  <2>2. QED
    BY <2>1 DEF ReadInv
<1>5. QED
  BY <1>1, <1>2, <1>3, <1>4 DEF Next, Compare, Preview

\* Every step keeps the collected rows those of the source.
LEMMA CollectStep ==
  TypeOK /\ Paired /\ ReadInv /\ CollectInv /\ [Next]_vars => CollectInv'
<1> SUFFICES ASSUME TypeOK, Paired, ReadInv, CollectInv, [Next]_vars
             PROVE  CollectInv'
  OBVIOUS
<1> USE DEF NoStableSourceRowDeleted
<1>1. CASE PreviewTarget
  <2> DEFINE T == DOMAIN RowsInRange(target, ranges[idx])
  <2>1. /\ ranges[idx] \in PkRange
        /\ \A k \in DOMAIN ins' :
             \/ k \in DOMAIN ins /\ ins'[k] = ins[k]
             \/ k \in DOMAIN rows /\ ins'[k] = rows[k]
        /\ \A k \in DOMAIN upd' :
             \/ k \in DOMAIN upd /\ upd'[k] = upd[k]
             \/ k \in DOMAIN rows /\ upd'[k] = rows[k]
        /\ del' \subseteq del \cup (T \ DOMAIN rows)
    BY <1>1, PreviewOfRange
  <2>2. UNCHANGED <<source, dirty>> /\ Stable' = Stable /\ phase = "previewTarget"
    BY <1>1 DEF PreviewTarget, tables, others, Stable
  <2>3. \A k \in T : InRange(ranges[idx], k)
    BY <2>1, PageOfRange DEF TypeOK, Within
  <2> HIDE DEF T
  <2>4. \A k \in Stable \cap DOMAIN rows : rows[k] = source[k]
    BY <2>2 DEF ReadInv
  <2>5. \A k \in Stable \cap T : k \notin DOMAIN rows => source[k] = NoRow
    BY <2>2, <2>3 DEF ReadInv
  <2>6. QED
    BY <2>1, <2>2, <2>4, <2>5 DEF CollectInv
<1>2. CASE OtherWrite
  BY <1>2, WritesAreDirty DEF CollectInv
<1>3. CASE EndPreview
  <2>1. /\ UNCHANGED <<source, dirty>> /\ Stable' = Stable
        /\ ins' \in {ins, EmptyMap} /\ upd' \in {upd, EmptyMap} /\ del' \in {del, {}}
    BY <1>3 DEF EndPreview, tables, others, Stable, Allowed
  <2>2. QED
    BY <2>1, NoRows DEF CollectInv
<1>4. CASE \E a \in ActionSets : StartPreview(a)
  <2>1. ins' = EmptyMap /\ upd' = EmptyMap /\ del' = {}
    BY <1>4 DEF StartPreview
  <2>2. QED
    BY <2>1, NoRows DEF CollectInv
<1>5. CASE \/ FetchSourceBounds \/ FetchTargetBounds \/ ListChunk \/ EndList
           \/ CheckSource \/ CheckTarget \/ PreviewSource \/ DeployCommit
           \/ StartVerify \/ Fail \/ UNCHANGED vars
  <2>1. UNCHANGED <<source, dirty, ins, upd, del>> /\ Stable' = Stable
    BY <1>5 DEF FetchSourceBounds, FetchTargetBounds, ListChunk, EndList, CheckSource,
       CheckTarget, PreviewSource, DeployCommit, StartVerify, Fail, vars, tables,
       preview, others, Stable
  <2>2. QED
    BY <2>1 DEF CollectInv
<1>6. QED
  BY <1>1, <1>2, <1>3, <1>4, <1>5 DEF Next, Compare, Preview

\* A deploy leaves a key nobody else wrote as it was or makes it the source's.
LEMMA DeployTowardsSource ==
  ASSUME TypeOK, CollectInv, DeployCommit, NEW k \in Stable
  PROVE  /\ target'[k] = target[k] \/ target'[k] = source[k]
         /\ Settled(k) => /\ source[k] # NoRow => target'[k] = source[k]
                          /\ source[k] = NoRow /\ mode = "mirror"
                               /\ Cardinality(PK) <= RowLimit => target'[k] = NoRow
<1> DEFINE all == Over(upd, ins)
<1>1. /\ DOMAIN all = DOMAIN upd \cup DOMAIN ins
      /\ \A q \in DOMAIN upd : all[q] = upd[q]
      /\ \A q \in DOMAIN ins \ DOMAIN upd : all[q] = ins[q]
      /\ all \in Maps
  BY OverMaps DEF TypeOK
<1>2. k \in PK /\ target' = Statements(target)
  BY DEF DeployCommit, Stable
<1>3. target'[k] = IF k \in DOMAIN all THEN all[k]
                   ELSE IF mode = "mirror" /\ k \in del THEN NoRow ELSE target[k]
  BY <1>2 DEF Statements
<1> HIDE DEF all
<1>4. k \in DOMAIN all => all[k] = source[k] /\ all[k] # NoRow
  <2>1. k \in DOMAIN all => all[k] \in Values
    BY <1>1 DEF Maps
  <2>2. QED
    BY <1>1, <2>1, ValueAssumption DEF CollectInv
<1>5. k \in del => source[k] = NoRow
  BY DEF CollectInv, NoStableSourceRowDeleted
<1>6. QED
  BY <1>1, <1>3, <1>4, <1>5 DEF Settled

\* Every step keeps the verdicts of compare sound.
LEMMA VerdictStep ==
  TypeOK /\ Paired /\ ReadInv /\ CollectInv /\ EqualVerdictIsSound /\ [Next]_vars
    => EqualVerdictIsSound'
<1> SUFFICES ASSUME TypeOK, Paired, ReadInv, CollectInv, EqualVerdictIsSound,
                    [Next]_vars
             PROVE  EqualVerdictIsSound'
  OBVIOUS
<1>0. /\ ranges \in Seq(PkRange) /\ equal \in Seq(BOOLEAN) /\ Len(equal) \in Nat
      /\ source \in Tables /\ target \in Tables /\ Len(<<>>) = 0
  BY DEF TypeOK
<1>1. CASE CheckTarget
  <2> DEFINE page == RowsInRange(target, ranges[idx])
             same == SameRows(rows, page)
  <2>1. /\ UNCHANGED <<source, target, ranges, dirty>> /\ phase = "checkTarget"
        /\ equal' = Append(equal, same) /\ idx = Len(equal) + 1
        /\ idx \in 1 .. Len(ranges) /\ Stable' = Stable
    BY <1>0, <1>1 DEF CheckTarget, Paired, tables, listing, others, Stable
  <2>2. ASSUME same, NEW k \in Stable, InRange(ranges[idx], k)
        PROVE  source[k] = target[k]
    <3>1. rows = page /\ ranges[idx] \in PkRange /\ k \in PK
      BY <1>0, <2>1, <2>2 DEF SameRows, Stable
    <3>2. DOMAIN page = Within(target, ranges[idx])
      BY <1>0, <2>1, <3>1, FullPage DEF ReadInv
    <3>3. \A q \in DOMAIN page : page[q] = target[q]
      BY <1>0, <3>1, PageOfRange
    <3> HIDE DEF page
    <3>4. /\ k \in DOMAIN page <=> source[k] # NoRow
          /\ k \in DOMAIN page => page[k] = source[k]
      BY <2>1, <2>2, <3>1 DEF ReadInv
    <3>5. k \in DOMAIN page <=> target[k] # NoRow
      BY <2>2, <3>1, <3>2 DEF Within, Rows
    <3>6. QED
      BY <3>3, <3>4, <3>5
  <2> HIDE DEF same, page
  <2>3. same \in BOOLEAN
    BY DEF same, SameRows
  <2>4. /\ Len(equal') = Len(equal) + 1 /\ equal'[Len(equal) + 1] = same
        /\ \A i \in 1 .. Len(equal) : equal'[i] = equal[i]
    BY <1>0, <2>1, <2>3
  <2>5. ASSUME NEW i \in 1 .. Len(equal'), equal'[i], NEW k \in Stable,
               InRange(ranges[i], k)
        PROVE  source[k] = target[k]
    <3>1. CASE i = idx
      BY <2>1, <2>2, <2>4, <2>5, <3>1
    <3>2. CASE i # idx
      <4>1. i \in 1 .. Len(equal) /\ equal[i]
        BY <1>0, <2>1, <2>4, <2>5, <3>2
      <4>2. QED
        BY <2>5, <4>1 DEF EqualVerdictIsSound
    <3>3. QED
      BY <3>1, <3>2
  <2>6. QED
    BY <2>1, <2>5 DEF EqualVerdictIsSound, InRange
<1>2. CASE DeployCommit
  <2>1. UNCHANGED <<source, ranges, equal, dirty>> /\ Stable' = Stable
    BY <1>2 DEF DeployCommit, listing, others, Stable
  <2>2. \A k \in Stable : source[k] = target[k] => source[k] = target'[k]
    BY <1>2, DeployTowardsSource
  <2>3. QED
    BY <2>1, <2>2 DEF EqualVerdictIsSound, InRange
<1>3. CASE OtherWrite
  BY <1>3, WritesAreDirty DEF EqualVerdictIsSound, InRange
<1>4. CASE FetchSourceBounds \/ FetchTargetBounds \/ ListChunk \/ EndList \/ StartVerify
  <2>1. equal' = <<>>
    BY <1>4 DEF FetchSourceBounds, FetchTargetBounds, ListChunk, EndList, StartVerify,
       Paired
  <2>2. QED
    BY <1>0, <2>1 DEF EqualVerdictIsSound
<1>5. CASE \/ CheckSource \/ Preview \/ Fail \/ UNCHANGED vars
           \/ \E a \in ActionSets : StartPreview(a)
  <2>1. UNCHANGED <<source, target, ranges, equal, dirty>> /\ Stable' = Stable
    BY <1>5 DEF CheckSource, Preview, PreviewSource, PreviewTarget, EndPreview, Fail,
       StartPreview, vars, tables, listing, others, Stable
  <2>2. QED
    BY <2>1 DEF EqualVerdictIsSound, InRange
<1>6. QED
  BY <1>1, <1>2, <1>3, <1>4, <1>5 DEF Next, Compare

\* Every step keeps the visited ranges settled.
LEMMA SettledStep ==
  TypeOK /\ Paired /\ ReadInv /\ CollectInv /\ EqualVerdictIsSound /\ SettledInv
    /\ [Next]_vars => SettledInv'
<1> SUFFICES ASSUME TypeOK, Paired, ReadInv, CollectInv, EqualVerdictIsSound,
                    SettledInv, [Next]_vars
             PROVE  SettledInv'
  OBVIOUS
<1>0. /\ ranges \in Seq(PkRange) /\ equal \in Seq(BOOLEAN) /\ idx \in Nat \ {0}
      /\ Len(equal) \in Nat /\ Len(ranges) \in Nat
  BY DEF TypeOK
<1>1. \A i \in 1 .. Len(equal), k \in Stable :
        equal[i] /\ InRange(ranges[i], k) => source[k] = target[k]
  BY DEF EqualVerdictIsSound
<1>2. CASE \E a \in ActionSets : StartPreview(a)
  <2>1. /\ UNCHANGED <<source, target, ranges, dirty, mode>> /\ Stable' = Stable
        /\ phase = "compared" /\ phase' = "previewSource"
        /\ idx' = NextDifferent(equal, 1)
    BY <1>2 DEF StartPreview, tables, listing, others, Stable
  <2>2. \A i \in 1 .. Len(ranges) : i < idx' => equal[i]
    BY <1>0, <2>1, SkipsEqual DEF Paired
  <2>3. \A k \in Stable : source[k] = target[k] => Settled(k)'
    BY <2>1 DEF Settled
  <2>4. \A i \in 1 .. Len(ranges') : i < idx' =>
          \A k \in Stable' : InRange(ranges'[i], k) => Settled(k)'
    BY <1>1, <2>1, <2>2, <2>3 DEF Paired
  <2>5. QED
    BY <2>1, <2>4 DEF SettledInv, DeployConverges, InRange
<1>3. CASE PreviewTarget
  <2> DEFINE T == DOMAIN RowsInRange(target, ranges[idx])
  <2>1. /\ UNCHANGED <<source, target, ranges, dirty, mode>> /\ Stable' = Stable
        /\ phase = "previewTarget" /\ phase' = "previewSource" /\ ~truncated
        /\ idx \in 1 .. Len(ranges) /\ Len(equal) = Len(ranges)
        /\ idx' = NextDifferent(equal, idx + 1)
    BY <1>0, <1>3 DEF PreviewTarget, tables, listing, others, request, Stable, Paired,
       SettledInv
  <2>2. /\ ranges[idx] \in PkRange
        /\ DOMAIN ins \subseteq DOMAIN ins' /\ DOMAIN upd \subseteq DOMAIN upd'
        /\ del \subseteq del'
        /\ ~truncated' =>
             /\ \A k \in DOMAIN rows :
                  \/ k \in T /\ rows[k] = target[k]
                  \/ k \in DOMAIN ins' \/ k \in DOMAIN upd'
             /\ mode = "mirror" => T \ DOMAIN rows \subseteq del'
    BY <1>3, PreviewOfRange
  <2>3. Cardinality(PK) <= RowLimit => T = Within(target, ranges[idx])
    BY <2>2, FullPage DEF TypeOK, Full
  <2> HIDE DEF T
  <2>4. \A i \in 1 .. Len(ranges) : i > idx /\ i < idx' => equal[i]
    <3>1. \A j \in (idx + 1) .. Len(equal) : j < NextDifferent(equal, idx + 1) => equal[j]
      BY <1>0, SkipsEqual
    <3>2. QED
      BY <1>0, <2>1, <3>1
  <2>5. ASSUME ~truncated', NEW k \in Stable, InRange(ranges[idx], k)
        PROVE  Settled(k)'
    <3>1. /\ k \in DOMAIN rows <=> source[k] # NoRow
          /\ k \in DOMAIN rows => rows[k] = source[k]
      BY <2>1, <2>5 DEF ReadInv
    <3>2. ASSUME source[k] # NoRow
          PROVE  k \in DOMAIN ins' \/ k \in DOMAIN upd' \/ target[k] = source[k]
      BY <2>2, <2>5, <3>1, <3>2
    <3>3. ASSUME source[k] = NoRow, mode = "mirror", Cardinality(PK) <= RowLimit,
                 target[k] # NoRow
          PROVE  k \in del'
      <4>1. k \in T
        BY <2>3, <2>5, <3>3 DEF Within, Rows, Stable
      <4>2. QED
        BY <2>2, <2>5, <3>1, <3>3, <4>1
    <3>4. QED
      BY <2>1, <3>2, <3>3 DEF Settled
  <2>6. ASSUME NEW k \in Stable, Settled(k) PROVE Settled(k)'
    BY <2>1, <2>2, <2>6 DEF Settled
  <2>7. ASSUME NEW k \in Stable, source[k] = target[k] PROVE Settled(k)'
    BY <2>1, <2>7 DEF Settled
  <2>8. ASSUME ~truncated', NEW i \in 1 .. Len(ranges), i < idx', NEW k \in Stable,
               InRange(ranges[i], k)
        PROVE  Settled(k)'
    <3>1. CASE i < idx
      BY <2>1, <2>6, <2>8, <3>1 DEF SettledInv
    <3>2. CASE i = idx
      BY <2>5, <2>8, <3>2
    <3>3. CASE i > idx
      BY <1>1, <2>1, <2>4, <2>7, <2>8, <3>3
    <3>4. QED
      BY <1>0, <3>1, <3>2, <3>3
  <2>9. QED
    BY <2>1, <2>8 DEF SettledInv, DeployConverges, InRange
<1>4. CASE EndPreview
  <2>1. /\ UNCHANGED <<source, target, ranges, dirty, mode, actions, truncated>>
        /\ Stable' = Stable /\ phase = "previewSource" /\ phase' = "previewed"
        /\ idx > Len(ranges) \/ truncated
        /\ ins' = Allowed("insert", ins, EmptyMap)
        /\ upd' = Allowed("update", upd, EmptyMap)
        /\ del' = Allowed("delete", del, {})
    BY <1>4 DEF EndPreview, tables, listing, others, request, Stable
  <2>2. ASSUME ~truncated, actions = AllActions, NEW k \in Stable, Covered(k)
        PROVE  Settled(k)'
    <3>1. PICK i \in 1 .. Len(ranges) : InRange(ranges[i], k)
      BY <2>2 DEF Covered
    <3>2. i < idx
      BY <1>0, <2>1, <2>2
    <3>3. Settled(k)
      BY <2>1, <2>2, <3>1, <3>2 DEF SettledInv
    <3>4. ins' = ins /\ upd' = upd /\ del' = del
      BY <2>1, <2>2 DEF Allowed, AllActions
    <3>5. QED
      BY <2>1, <3>3, <3>4 DEF Settled
  <2>3. QED
    BY <2>1, <2>2 DEF SettledInv, DeployConverges, Covered, InRange
<1>5. CASE DeployCommit
  <2>1. /\ UNCHANGED <<source, ranges, dirty, mode, actions, truncated>>
        /\ Stable' = Stable /\ phase = "previewed" /\ phase' \in {"deployed", "failed"}
    BY <1>5 DEF DeployCommit, listing, others, request, preview, Stable
  <2>2. ASSUME ~truncated, actions = AllActions, NEW k \in Stable, Covered(k)
        PROVE  /\ source[k] # NoRow => target'[k] = source[k]
               /\ source[k] = NoRow /\ mode = "mirror" /\ Cardinality(PK) <= RowLimit
                    => target'[k] = NoRow
    <3>1. Settled(k)
      BY <2>1, <2>2 DEF SettledInv
    <3>2. QED
      BY <1>5, <3>1, DeployTowardsSource
  <2>3. QED
    BY <2>1, <2>2 DEF SettledInv, DeployConverges, Covered, InRange
<1>6. CASE OtherWrite \/ PreviewSource \/ UNCHANGED vars
  <2>1. /\ Stable' \subseteq Stable
        /\ \A k \in Stable' : source'[k] = source[k] /\ target'[k] = target[k]
        /\ UNCHANGED <<ranges, idx, ins, upd, del, truncated, actions, mode>>
        /\ \/ phase' = phase
           \/ phase = "previewSource" /\ phase' = "previewTarget" /\ ~truncated
    BY <1>6, WritesAreDirty DEF PreviewSource, vars, tables, request, listing,
       preview, others, Stable
  <2>2. \A k \in Stable' : Settled(k) => Settled(k)'
    BY <2>1 DEF Settled
  <2>3. QED
    BY <2>1, <2>2 DEF SettledInv, DeployConverges, Covered, InRange
<1>7. CASE \/ FetchSourceBounds \/ FetchTargetBounds \/ ListChunk \/ EndList
           \/ CheckSource \/ CheckTarget \/ StartVerify \/ Fail
  <2>1. phase' \notin {"previewSource", "previewTarget", "previewed", "deployed"}
    BY <1>7 DEF FetchSourceBounds, FetchTargetBounds, ListChunk, EndList, CheckSource,
       CheckTarget, StartVerify, Fail, CompareDone
  <2>2. QED
    BY <2>1 DEF SettledInv, DeployConverges
<1>8. QED
  BY <1>2, <1>3, <1>4, <1>5, <1>6, <1>7 DEF Next, Compare, Preview

\* What the engine keeps at every step, with room in the limit.
EngineInv ==
  /\ TypeOK /\ Paired
  /\ ListType /\ CoverInv /\ ChunkInv
  /\ EndsFit /\ RangesFit
  /\ ReadInv /\ CollectInv /\ EqualVerdictIsSound /\ SettledInv

\* The engine starts with nothing read, collected or judged.
LEMMA EngineStart == Init => EndsFit /\ RangesFit /\ ReadInv /\ CollectInv
                             /\ EqualVerdictIsSound /\ SettledInv
<1> SUFFICES ASSUME Init
             PROVE  EndsFit /\ RangesFit /\ ReadInv /\ CollectInv
                    /\ EqualVerdictIsSound /\ SettledInv
  OBVIOUS
<1>1. /\ phase = "bounds" /\ srcBounds.min = NoKey /\ ranges = <<>> /\ equal = <<>>
      /\ ins = EmptyMap /\ upd = EmptyMap /\ del = {} /\ Len(<<>>) = 0
  BY DEF Init
<1>2. EndsFit /\ RangesFit /\ ReadInv
  BY <1>1 DEF EndsFit, RangesFit, ReadInv
<1>3. CollectInv /\ EqualVerdictIsSound /\ SettledInv
  BY <1>1, NoRows DEF CollectInv, NoStableSourceRowDeleted, EqualVerdictIsSound,
                      SettledInv, DeployConverges
<1>4. QED
  BY <1>2, <1>3

\* The engine's invariant, from the lemmas on its parts.
LEMMA EngineInvariant == ASSUME Roomy PROVE Spec => []EngineInv
<1>1. Init => EndsFit /\ RangesFit /\ ReadInv /\ CollectInv /\ EqualVerdictIsSound
              /\ SettledInv
  BY EngineStart
<1>2. TypeOK /\ Paired /\ CoverInv /\ EndsFit /\ RangesFit /\ ReadInv /\ CollectInv
        /\ EqualVerdictIsSound /\ SettledInv /\ [Next]_vars
      => EndsFit' /\ RangesFit' /\ ReadInv' /\ CollectInv' /\ EqualVerdictIsSound'
         /\ SettledInv'
  BY Roomy, FitStep, ReadStep, CollectStep, VerdictStep, SettledStep
<1>3. QED
  BY <1>1, <1>2, TypesHold, ListingInvariant, PTL DEF Spec, EngineInv

\* A range reported equal is equal on every key that no other session wrote,
\* whatever was written around it between the two queries (compare).
THEOREM EqualIsEqual == ASSUME Roomy PROVE Spec => []EqualVerdictIsSound
<1>1. EngineInv => EqualVerdictIsSound
  BY DEF EngineInv
<1>2. QED
  BY <1>1, EngineInvariant, PTL

\* No preview asks for the deletion of a row the source has, unless another
\* session wrote its key (the delete loop of preview).
THEOREM DeletesAreGone == ASSUME Roomy PROVE Spec => []NoStableSourceRowDeleted
<1>1. EngineInv => NoStableSourceRowDeleted
  BY DEF EngineInv, CollectInv
<1>2. QED
  BY <1>1, EngineInvariant, PTL

\* An uncut deploy brings every covered key nobody else wrote to the state of
\* the source (preview, generate_statements and deploy together).
THEOREM DeployReachesSource == ASSUME Roomy PROVE Spec => []DeployConverges
<1>1. EngineInv => DeployConverges
  BY DEF EngineInv, SettledInv
<1>2. QED
  BY <1>1, EngineInvariant, PTL

-----------------------------------------------------------------------------
(***************************************************************************)
(* The verification, when nobody else writes.                              *)
(***************************************************************************)
Page(c) == PkListAfter(source, c)

\* The keys after which the listing asks for a page: the smallest set that has
\* NoKey and, with a key, the last key of the page after it.
Closed(C) ==
  /\ NoKey \in C
  /\ \A c \in C : Page(c) # {} => Max(Page(c)) \in C

Cuts == {c \in KeyOrNone : \A C \in SUBSET KeyOrNone : Closed(C) => c \in C}

Chunked(c) == \E i \in 1 .. Len(ranges) : ranges[i] = ChunkRange(Page(c))

Ends == {e \in KeyOrNone : \E i \in 1 .. Len(ranges) :
           IsChunk(ranges[i]) /\ ranges[i].end = e}

\* Compare lists a chunk for every page of the table, and no other.
PagesInv ==
  dirty = {} =>
    /\ cursor \in Cuts
    /\ \A i \in 1 .. Len(ranges) : IsChunk(ranges[i]) =>
         \E c \in Cuts : Page(c) # {} /\ ranges[i] = ChunkRange(Page(c))
    /\ phase = "list" => \A c \in {NoKey} \cup Ends : c = cursor \/ Chunked(c)
    /\ Listed => \A c \in Cuts : Page(c) # {} => Chunked(c)

\* The keys compare looks at: those outside the bounds of the source and those
\* of the pages.  A key between two pages is not among them.
Examined(k) ==
  \/ Rows(source) = {}
  \/ k < Bounds(source).min
  \/ k > Bounds(source).max
  \/ \E c \in Cuts : Page(c) # {} /\ InRange(ChunkRange(Page(c)), k)

BoundsKnown ==
  /\ phase = "list" => srcBounds.min # NoKey
  /\ dirty = {} =>
       /\ phase \notin {"bounds", "failed"} => srcBounds = Bounds(source)
       /\ phase = "list" => tgtBounds = Bounds(target)

\* Of the keys compare looks at, those in no range are in neither table.
ExaminedInv ==
  dirty = {} =>
    /\ \A i \in 1 .. Len(ranges) : \A k \in PK :
         InRange(ranges[i], k) => Examined(k)
    /\ phase = "list" =>
         \A k \in PK : k < srcBounds.min => Covered(k) \/ source[k] = target[k]
    /\ Listed => \A k \in PK : Examined(k) => Covered(k) \/ source[k] = target[k]

\* What the verification supposes of the preview and of the other sessions.
Complete ==
  /\ ~truncated /\ actions = AllActions /\ mode = "mirror" /\ dirty = {}
  /\ Cardinality(PK) <= RowLimit

VerifyInv ==
  /\ verifying => phase \notin {"compared", "previewSource", "previewTarget",
                                "previewed", "deployed"}
  /\ phase = "verified" => verifying
  /\ (phase = "deployed" \/ verifying) /\ Complete =>
       \A k \in PK : Examined(k) => source[k] = target[k]
  /\ verifying /\ Complete =>
       /\ \A i \in 1 .. Len(equal) : equal[i]
       /\ phase = "checkTarget" => rows = RowsInRange(source, ranges[idx])

\* The cuts have NoKey, go from page to page, and are the smallest such set.
LEMMA CutsClose ==
  /\ Closed(Cuts) /\ Cuts \subseteq KeyOrNone
  /\ \A C \in SUBSET KeyOrNone : Closed(C) => Cuts \subseteq C
  /\ \A c \in KeyOrNone : Page(c) # {} => Max(Page(c)) \in PK
<1>1. ASSUME NEW c \in KeyOrNone, Page(c) # {} PROVE Max(Page(c)) \in PK
  <2>1. Page(c) \in SUBSET PK
    BY DEF Page, PkListAfter, FirstN, Rows
  <2>2. QED
    BY <1>1, <2>1, KeySets, MaxExists
<1>2. NoKey \in Cuts
  BY DEF Cuts, Closed, KeyOrNone
<1>3. ASSUME NEW c \in Cuts, Page(c) # {} PROVE Max(Page(c)) \in Cuts
  <2>1. Max(Page(c)) \in KeyOrNone
    BY <1>1, <1>3 DEF Cuts, KeyOrNone
  <2>2. ASSUME NEW C \in SUBSET KeyOrNone, Closed(C) PROVE Max(Page(c)) \in C
    BY <1>3, <2>2 DEF Cuts, Closed
  <2>3. QED
    BY <2>1, <2>2 DEF Cuts
<1>4. QED
  BY <1>1, <1>2, <1>3 DEF Cuts, Closed

\* While nobody else has written, nothing but the deploy changes a table.
LEMMA NoWriteYet ==
  ASSUME [Next]_vars, dirty' = {}
  PROVE  /\ dirty = {} /\ source' = source
         /\ target' = target \/ DeployCommit
         /\ ~OtherWrite
         /\ Stable = PK
<1>1. ~OtherWrite
  BY DEF OtherWrite
<1>2. dirty = {} /\ source' = source /\ (target' = target \/ DeployCommit)
  BY <1>1 DEF Next, Compare, Preview, FetchSourceBounds, FetchTargetBounds,
     ListChunk, EndList, CheckSource, CheckTarget, StartPreview, PreviewSource,
     PreviewTarget, EndPreview, DeployCommit, StartVerify, Fail, vars, tables, others
<1>3. QED
  BY <1>1, <1>2 DEF Stable

\* The pages depend on the source alone.
LEMMA PagesStay ==
  ASSUME source' = source
  PROVE  /\ Cuts' = Cuts /\ Rows(source)' = Rows(source)
         /\ Bounds(source)' = Bounds(source)
         /\ \A c : Page(c)' = Page(c)
         /\ \A k : Examined(k)' <=> Examined(k)
<1>1. Rows(source)' = Rows(source) /\ \A c : Page(c)' = Page(c)
  BY DEF Rows, Page, PkListAfter, FirstN
<1>2. Bounds(source)' = Bounds(source)
  BY DEF Bounds, Rows
<1>3. Cuts' = Cuts
  BY <1>1 DEF Cuts, Closed
<1>4. \A k : Examined(k)' <=> Examined(k)
  BY <1>1, <1>2, <1>3 DEF Examined, InRange, ChunkRange
<1>5. QED
  BY <1>1, <1>2, <1>3, <1>4

\* The steps that leave the listing alone.
LEMMA ListingStays ==
  ASSUME UNCHANGED <<source, ranges, cursor>>
  PROVE  /\ Ends' = Ends
         /\ \A c : Chunked(c)' <=> Chunked(c)
         /\ \A k : Covered(k)' <=> Covered(k)
<1>1. \A c : Page(c)' = Page(c)
  BY PagesStay
<1>2. Ends' = Ends
  BY DEF Ends, IsChunk
<1>3. \A c : Chunked(c)' <=> Chunked(c)
  BY <1>1 DEF Chunked, ChunkRange
<1>4. \A k : Covered(k)' <=> Covered(k)
  BY DEF Covered, InRange
<1>5. QED
  BY <1>2, <1>3, <1>4

\* Every step keeps the listed chunks those of the pages.
LEMMA PagesStep ==
  TypeOK /\ CoverInv /\ PagesInv /\ [Next]_vars => PagesInv'
<1> SUFFICES ASSUME TypeOK, CoverInv, PagesInv, [Next]_vars, dirty' = {}
             PROVE  PagesInv'
  BY DEF PagesInv
<1>0. /\ ranges \in Seq(PkRange) /\ Len(ranges) \in Nat /\ Len(<<>>) = 0
      /\ srcBounds \in BoundsType /\ tgtBounds \in BoundsType /\ cursor \in KeyOrNone
  BY DEF TypeOK
<1>1. dirty = {} /\ source' = source /\ ~OtherWrite
  BY NoWriteYet
<1>2. Cuts' = Cuts /\ \A c : Page(c)' = Page(c)
  BY <1>1, PagesStay
<1>3. NoKey \in Cuts
  BY CutsClose DEF Closed
<1>4. CASE FetchTargetBounds
  <2>1. /\ cursor' = cursor /\ cursor = NoKey
        /\ ranges' \in {HeadRange(srcBounds, Bounds(target)), <<Whole>>, <<>>}
        /\ phase' # "list" => srcBounds.min = NoKey /\ phase = "targetBounds"
    BY <1>4 DEF FetchTargetBounds, CoverInv
  <2>2. \A i \in 1 .. Len(ranges') : ~IsChunk(ranges'[i])
    <3>1. \A i \in 1 .. Len(HeadRange(srcBounds, Bounds(target))) :
            ~IsChunk(HeadRange(srcBounds, Bounds(target))[i])
      BY <1>0, BoundsOfTable, RangeTypes
    <3>2. ~IsChunk(Whole)
      BY DEF Whole, IsChunk
    <3>3. Len(<<Whole>>) = 1 /\ <<Whole>>[1] = Whole
      OBVIOUS
    <3>4. QED
      BY <1>0, <2>1, <3>1, <3>2, <3>3
  <2>3. Ends' = {}
    BY <2>2 DEF Ends, IsChunk
  <2>4. phase' # "list" => \A c : Page(c) = {}
    <3>1. phase' # "list" => Untouched = {}
      BY <2>1 DEF CoverInv
    <3>2. Untouched = Rows(source)
      BY <1>1 DEF Untouched, Stable, Rows
    <3>3. QED
      BY <3>1, <3>2 DEF Page, PkListAfter, FirstN
  <2>5. Listed' => phase' # "list"
    BY DEF Listed
  <2>6. QED
    BY <1>2, <1>3, <2>1, <2>2, <2>3, <2>4, <2>5 DEF PagesInv, IsChunk
<1>5. CASE ListChunk
  <2> DEFINE new == ChunkRange(Page(cursor))
  <2>1. /\ phase = "list" /\ phase' = phase /\ Page(cursor) # {}
        /\ ranges' = Append(ranges, new) /\ cursor' = Max(Page(cursor))
    BY <1>5 DEF ListChunk, Page
  <2>2. cursor \in Cuts /\ cursor' \in Cuts
    BY <1>1, <2>1, CutsClose DEF PagesInv, Closed
  <2>3. new \in PkRange /\ new.end = cursor'
    <3>1. Page(cursor) \in SUBSET PK
      BY DEF Page, PkListAfter, FirstN, Rows
    <3>2. QED
      BY <2>1, <3>1, RangeTypes DEF ChunkRange
  <2> HIDE DEF new
  <2>4. /\ Len(ranges') = Len(ranges) + 1 /\ ranges'[Len(ranges) + 1] = new
        /\ \A i \in 1 .. Len(ranges) : ranges'[i] = ranges[i]
    BY <1>0, <2>1, <2>3
  <2>5. \A i \in 1 .. Len(ranges') : i \in 1 .. Len(ranges) \/ ranges'[i] = new
    BY <1>0, <2>4
  <2>6. \A c : Chunked(c) \/ c = cursor => Chunked(c)'
    <3>1. Len(ranges) + 1 \in 1 .. Len(ranges') /\ 1 .. Len(ranges) \subseteq 1 .. Len(ranges')
      BY <1>0, <2>4
    <3>2. ASSUME NEW c, Chunked(c) PROVE Chunked(c)'
      <4>1. PICK i \in 1 .. Len(ranges) : ranges[i] = ChunkRange(Page(c))
        BY <3>2 DEF Chunked
      <4>2. i \in 1 .. Len(ranges') /\ ranges'[i] = ChunkRange(Page(c)')
        BY <1>2, <2>4, <3>1, <4>1
      <4>3. QED
        BY <4>2 DEF Chunked, ChunkRange
    <3>3. ASSUME NEW c, c = cursor PROVE Chunked(c)'
      <4>1. ranges'[Len(ranges) + 1] = ChunkRange(Page(c)')
        BY <1>2, <2>4, <3>3 DEF new
      <4>2. QED
        BY <3>1, <4>1 DEF Chunked, ChunkRange
    <3>4. QED
      BY <3>2, <3>3
  <2>7. \A c \in {NoKey} \cup Ends' : c = cursor' \/ Chunked(c)'
    <3>1. ASSUME NEW c \in Ends' PROVE c \in Ends \/ c = cursor'
      <4>1. PICK i \in 1 .. Len(ranges') : IsChunk(ranges'[i]) /\ ranges'[i].end = c
        BY <3>1 DEF Ends, IsChunk
      <4>2. i \in 1 .. Len(ranges) => ranges'[i] = ranges[i]
        BY <2>4
      <4>3. QED
        BY <2>3, <2>5, <3>1, <4>1, <4>2 DEF Ends
    <3>2. \A c \in {NoKey} \cup Ends : c = cursor \/ Chunked(c)
      BY <1>1, <2>1 DEF PagesInv
    <3>3. QED
      BY <2>6, <3>1, <3>2
  <2>8. ASSUME NEW i \in 1 .. Len(ranges'), IsChunk(ranges'[i])
        PROVE  \E c \in Cuts : Page(c) # {} /\ ranges'[i] = ChunkRange(Page(c))
    <3>1. CASE i \in 1 .. Len(ranges)
      BY <1>1, <2>4, <2>8, <3>1 DEF PagesInv
    <3>2. CASE i \notin 1 .. Len(ranges)
      BY <2>1, <2>2, <2>5, <3>2 DEF new
    <3>3. QED
      BY <3>1, <3>2
  <2>9. ~Listed'
    BY <2>1 DEF Listed
  <2>10. QED
    BY <1>2, <2>2, <2>7, <2>8, <2>9 DEF PagesInv, IsChunk, ChunkRange
<1>6. CASE EndList
  <2> DEFINE tail == TailRange(srcBounds, tgtBounds)
  <2>1. /\ phase = "list" /\ phase' # "list" /\ cursor' = cursor
        /\ Page(cursor) = {} /\ ranges' = ranges \o tail
    BY <1>6 DEF EndList, Page, CompareDone
  <2>2. tail \in Seq(PkRange) /\ \A i \in 1 .. Len(tail) : ~IsChunk(tail[i])
    BY <1>0, RangeTypes
  <2> HIDE DEF tail
  <2>3. \A i \in 1 .. Len(ranges) : i \in 1 .. Len(ranges') /\ ranges'[i] = ranges[i]
    BY <1>0, <2>1, <2>2
  <2>4. \A i \in 1 .. Len(ranges') :
          IsChunk(ranges'[i]) => i \in 1 .. Len(ranges) /\ ranges'[i] = ranges[i]
    BY <1>0, <2>1, <2>2
  <2>5. \A c \in {NoKey} \cup Ends : c = cursor \/ Chunked(c)
    BY <1>1, <2>1 DEF PagesInv
  <2>6. ASSUME NEW c \in {NoKey} \cup Ends, Page(c) # {} PROVE Chunked(c)
    BY <2>1, <2>5, <2>6
  <2>7. Closed({NoKey} \cup Ends)
    <3>1. ASSUME NEW c \in {NoKey} \cup Ends, Page(c) # {}
          PROVE  Max(Page(c)) \in Ends
      <4>1. PICK i \in 1 .. Len(ranges) : ranges[i] = ChunkRange(Page(c))
        BY <2>6, <3>1 DEF Chunked
      <4>2. c \in KeyOrNone
        BY DEF Ends, KeyOrNone
      <4>3. Page(c) \in SUBSET PK /\ Max(Page(c)) \in KeyOrNone
        BY <3>1, <4>2, CutsClose DEF Page, PkListAfter, FirstN, Rows, KeyOrNone
      <4>4. /\ ranges[i].end = Max(Page(c)) /\ ranges[i].start = Min(Page(c))
            /\ Min(Page(c)) # NoKey /\ Max(Page(c)) # NoKey
        BY <3>1, <4>1, <4>3, KeySets, MinExists, MaxExists DEF ChunkRange
      <4>5. QED
        BY <4>3, <4>4 DEF Ends, IsChunk
    <3>2. QED
      BY <3>1 DEF Closed
  <2>8. Cuts \subseteq {NoKey} \cup Ends
    <3>1. {NoKey} \cup Ends \in SUBSET KeyOrNone
      BY DEF Ends, KeyOrNone
    <3>2. QED
      BY <2>7, <3>1, CutsClose
  <2>9. ASSUME NEW c, Chunked(c) PROVE Chunked(c)'
    <3>1. PICK i \in 1 .. Len(ranges) : ranges[i] = ChunkRange(Page(c))
      BY <2>9 DEF Chunked
    <3>2. i \in 1 .. Len(ranges') /\ ranges'[i] = ChunkRange(Page(c)')
      BY <1>2, <2>3, <3>1
    <3>3. QED
      BY <3>2 DEF Chunked, ChunkRange
  <2>10. \A c \in Cuts : Page(c) # {} => Chunked(c)'
    BY <2>6, <2>8, <2>9
  <2>11. \A i \in 1 .. Len(ranges') : IsChunk(ranges'[i]) =>
           \E c \in Cuts : Page(c) # {} /\ ranges'[i] = ChunkRange(Page(c))
    BY <1>1, <2>4 DEF PagesInv
  <2>12. cursor' \in Cuts
    BY <1>1, <2>1 DEF PagesInv
  <2>13. QED
    BY <1>2, <2>1, <2>10, <2>11, <2>12 DEF PagesInv, IsChunk, ChunkRange
<1>7. CASE StartVerify
  <2>1. cursor' = NoKey /\ ranges' = <<>> /\ phase' = "bounds"
    BY <1>7 DEF StartVerify
  <2>2. QED
    BY <1>0, <1>2, <1>3, <2>1 DEF PagesInv, Listed
<1>8. CASE \/ FetchSourceBounds \/ CheckSource \/ CheckTarget \/ Preview
           \/ DeployCommit \/ Fail \/ UNCHANGED vars
           \/ \E a \in ActionSets : StartPreview(a)
  <2>1. /\ UNCHANGED <<cursor, ranges>>
        /\ \/ phase' = phase \/ phase' \in {"targetBounds", "failed"}
           \/ Listed /\ phase' # "list"
    <3>1. ListType
      BY DEF TypeOK, ListType, Tables
    <3>2. CASE FetchSourceBounds
      BY <3>2 DEF FetchSourceBounds
    <3>3. CASE ~FetchSourceBounds
      BY <1>8, <3>1, <3>3, OtherSteps
    <3>4. QED
      BY <3>2, <3>3
  <2>2. /\ Ends' = Ends /\ \A c : Chunked(c)' <=> Chunked(c)
        /\ \A k : Covered(k)' <=> Covered(k)
    BY <1>1, <2>1, ListingStays
  <2>3. QED
    BY <1>1, <1>2, <2>1, <2>2 DEF PagesInv, Listed, IsChunk, ChunkRange
<1>9. QED
  BY <1>1, <1>4, <1>5, <1>6, <1>7, <1>8 DEF Next, Compare

\* Every step keeps the bounds those of the tables.
LEMMA BoundsStep == BoundsKnown /\ [Next]_vars => BoundsKnown'
<1> SUFFICES ASSUME BoundsKnown, [Next]_vars PROVE BoundsKnown'
  OBVIOUS
<1>1. dirty' = {} => dirty = {} /\ source' = source
                     /\ (target' = target \/ DeployCommit)
  BY NoWriteYet
<1>2. source' = source => Bounds(source)' = Bounds(source)
  BY PagesStay
<1>3. target' = target => Bounds(target)' = Bounds(target)
  BY DEF Bounds, Rows
<1>4. CASE FetchSourceBounds
  <2>1. srcBounds' = Bounds(source) /\ phase' = "targetBounds"
    BY <1>4 DEF FetchSourceBounds
  <2>2. QED
    BY <1>1, <1>2, <2>1 DEF BoundsKnown
<1>5. CASE FetchTargetBounds
  <2>1. /\ UNCHANGED <<srcBounds, target>> /\ phase = "targetBounds"
        /\ tgtBounds' = Bounds(target)
        /\ phase' = "list" => srcBounds.min # NoKey
    BY <1>5 DEF FetchTargetBounds, tables, CompareDone
  <2>2. QED
    BY <1>1, <1>2, <1>3, <2>1 DEF BoundsKnown
<1>6. CASE StartVerify
  BY <1>6 DEF StartVerify, BoundsKnown
<1>7. CASE ListChunk \/ OtherWrite
  <2>1. UNCHANGED <<srcBounds, tgtBounds, phase>> /\ (ListChunk => target' = target)
    BY <1>7 DEF ListChunk, OtherWrite, listing, tables
  <2>2. dirty' = {} => ListChunk
    BY <1>7, NoWriteYet
  <2>3. QED
    BY <1>1, <1>2, <1>3, <2>1, <2>2 DEF BoundsKnown
<1>8. CASE \/ EndList \/ CheckSource \/ CheckTarget \/ Preview \/ DeployCommit
           \/ Fail \/ \E a \in ActionSets : StartPreview(a)
  <2>1. /\ srcBounds' = srcBounds /\ phase' # "list"
        /\ phase' = "failed" \/ phase \notin {"bounds", "failed"}
    BY <1>8 DEF EndList, CheckSource, CheckTarget, Preview, PreviewSource,
       PreviewTarget, EndPreview, DeployCommit, Fail, StartPreview, listing,
       CompareDone
  <2>2. QED
    BY <1>1, <1>2, <2>1 DEF BoundsKnown
<1>9. CASE UNCHANGED vars
  <2>1. UNCHANGED <<source, target, srcBounds, tgtBounds, phase, dirty>>
    BY <1>9 DEF vars, tables, listing, others
  <2>2. QED
    BY <1>2, <1>3, <2>1 DEF BoundsKnown
<1>10. QED
  BY <1>4, <1>5, <1>6, <1>7, <1>8, <1>9 DEF Next, Compare

\* A table that has no key below a bound has no row there.
LEMMA OutOfBounds ==
  ASSUME NEW t \in Tables, NEW k \in PK,
         \/ Bounds(t).min = NoKey
         \/ Bounds(t).min # NoKey /\ k < Bounds(t).min
         \/ Bounds(t).min # NoKey /\ k > Bounds(t).max
  PROVE  t[k] = NoRow
<1>1. CASE Bounds(t).min = NoKey
  BY <1>1, BoundsOfTable DEF Rows
<1>2. CASE Bounds(t).min # NoKey
  <2>1. /\ Bounds(t).min \in Int /\ Bounds(t).max \in Int
        /\ \A q \in Rows(t) : Bounds(t).min <= q /\ q <= Bounds(t).max
    BY <1>2, BoundsHold, KeyAssumption DEF Rows
  <2>2. k \in Int
    BY KeyAssumption
  <2>3. k \notin Rows(t)
    BY <1>2, <2>1, <2>2
  <2>4. QED
    BY <2>3 DEF Rows
<1>3. QED
  BY <1>1, <1>2

\* Every step keeps the examined keys in a range or out of both tables.
LEMMA ExaminedStep ==
  TypeOK /\ CoverInv /\ PagesInv /\ PagesInv' /\ BoundsKnown /\ CollectInv
    /\ ExaminedInv /\ [Next]_vars => ExaminedInv'
<1> SUFFICES ASSUME TypeOK, CoverInv, PagesInv, PagesInv', BoundsKnown, CollectInv,
                    ExaminedInv, [Next]_vars, dirty' = {}
             PROVE  ExaminedInv'
  BY DEF ExaminedInv
<1>0. /\ ranges \in Seq(PkRange) /\ Len(ranges) \in Nat /\ Len(<<>>) = 0
      /\ srcBounds \in BoundsType /\ tgtBounds \in BoundsType
      /\ source \in Tables /\ target \in Tables
  BY DEF TypeOK
<1>1. dirty = {} /\ source' = source /\ ~OtherWrite /\ Stable = PK
        /\ (target' = target \/ DeployCommit)
  BY NoWriteYet
<1>2. \A k : Examined(k)' <=> Examined(k)
  BY <1>1, PagesStay
<1>3. CASE FetchTargetBounds
  <2> DEFINE tb == Bounds(target)
             head == HeadRange(srcBounds, tb)
  <2>1. /\ phase = "targetBounds" /\ srcBounds = Bounds(source) /\ target' = target
        /\ srcBounds' = srcBounds
        /\ \/ srcBounds.min # NoKey /\ ranges' = head /\ phase' = "list"
           \/ /\ srcBounds.min = NoKey /\ tb.min # NoKey
              /\ ranges' = <<Whole>> /\ phase' = "checkSource"
           \/ /\ srcBounds.min = NoKey /\ tb.min = NoKey
              /\ ranges' = <<>> /\ phase' = CompareDone
    BY <1>1, <1>3 DEF FetchTargetBounds, BoundsKnown, tables
  <2>2. tb \in BoundsType
    BY BoundsOfTable
  <2>3. CASE srcBounds.min # NoKey
    <3>1. ranges' = head /\ phase' = "list" /\ ~Listed'
      BY <2>1, <2>3 DEF Listed
    <3>2. \A i \in 1 .. Len(ranges') : \A k \in PK :
            InRange(ranges'[i], k) => Examined(k)
      BY <1>0, <2>1, <2>2, <3>1, EndRanges DEF Examined
    <3>3. ASSUME NEW k \in PK, k < srcBounds.min
          PROVE  Covered(k)' \/ source[k] = target[k]
      <4>1. source[k] = NoRow
        BY <1>0, <2>1, <2>3, <3>3, OutOfBounds
      <4>2. CASE tb.min # NoKey /\ tb.min < srcBounds.min
        <5> DEFINE h == [Whole EXCEPT !.end = srcBounds.min, !.endIncl = FALSE]
        <5>1. head = <<h>>
          BY <2>3, <4>2 DEF HeadRange
        <5>2. h.start = NoKey /\ h.end = srcBounds.min
          BY DEF Whole
        <5> HIDE DEF h
        <5>3. Len(<<h>>) = 1 /\ <<h>>[1] = h
          OBVIOUS
        <5>4. InRange(h, k)
          BY <3>3, <5>2 DEF InRange
        <5>5. 1 \in 1 .. Len(ranges') /\ InRange(ranges'[1], k)
          BY <3>1, <5>1, <5>3, <5>4
        <5>6. QED
          BY <5>5 DEF Covered, InRange
      <4>3. CASE ~(tb.min # NoKey /\ tb.min < srcBounds.min)
        <5>1. tb.min = NoKey \/ (tb.min # NoKey /\ k < tb.min)
          <6>1. /\ srcBounds.min \in Int /\ k \in Int
                /\ tb.min # NoKey => tb.min \in Int
            BY <1>0, <2>2, <2>3, KeyAssumption DEF BoundsType, KeyOrNone
          <6>2. QED
            BY <3>3, <4>3, <6>1
        <5>2. target[k] = NoRow
          BY <1>0, <5>1, OutOfBounds
        <5>3. QED
          BY <4>1, <5>2
      <4>4. QED
        BY <4>2, <4>3
    <3>4. QED
      BY <1>1, <1>2, <2>1, <3>1, <3>2, <3>3 DEF ExaminedInv, InRange
  <2>4. CASE srcBounds.min = NoKey
    <3>1. Rows(source) = {} /\ \A k : Examined(k)
      BY <2>1, <2>4, BoundsOfTable DEF Examined
    <3>2. \A k \in PK : source[k] = NoRow
      BY <1>0, <2>1, <2>4, OutOfBounds
    <3>3. phase' # "list"
      BY <2>1, <2>4 DEF CompareDone
    <3>4. ASSUME NEW k \in PK PROVE Covered(k)' \/ source[k] = target[k]
      <4>1. CASE tb.min = NoKey
        BY <1>0, <3>2, <4>1, OutOfBounds
      <4>2. CASE tb.min # NoKey
        <5>1. ranges' = <<Whole>> /\ Len(<<Whole>>) = 1 /\ <<Whole>>[1] = Whole
          BY <2>1, <2>4, <4>2
        <5>2. InRange(Whole, k)
          BY DEF InRange, Whole
        <5>3. 1 \in 1 .. Len(ranges') /\ InRange(ranges'[1], k)
          BY <5>1, <5>2
        <5>4. QED
          BY <5>3 DEF Covered, InRange
      <4>3. QED
        BY <4>1, <4>2
    <3>5. QED
      BY <1>1, <1>2, <2>1, <3>1, <3>3, <3>4 DEF ExaminedInv, InRange
  <2>5. QED
    BY <2>3, <2>4
<1>4. CASE ListChunk
  <2> DEFINE new == ChunkRange(Page(cursor))
  <2>1. /\ phase = "list" /\ phase' = phase /\ Page(cursor) # {}
        /\ ranges' = Append(ranges, new) /\ UNCHANGED <<target, srcBounds>>
    BY <1>4 DEF ListChunk, Page, tables
  <2>2. new \in PkRange
    <3>1. Page(cursor) \in SUBSET PK
      BY DEF Page, PkListAfter, FirstN, Rows
    <3>2. QED
      BY <2>1, <3>1, RangeTypes
  <2>3. \A k \in PK : InRange(new, k) => Examined(k)
    BY <1>1, <2>1 DEF Examined, PagesInv
  <2> HIDE DEF new
  <2>4. \A i \in 1 .. Len(ranges') :
          ranges'[i] = new \/ (i \in 1 .. Len(ranges) /\ ranges'[i] = ranges[i])
    BY <1>0, <2>1, <2>2
  <2>5. \A i \in 1 .. Len(ranges') : \A k \in PK :
          InRange(ranges'[i], k) => Examined(k)
    BY <1>1, <2>3, <2>4 DEF ExaminedInv
  <2>6. \A k : Covered(k) => Covered(k)'
    <3>1. <<new>> \in Seq(PkRange) /\ ranges' = ranges \o <<new>>
      BY <1>0, <2>1, <2>2
    <3>2. QED
      BY <1>0, <3>1, CoveredGrows
  <2>7. \A k \in PK : k < srcBounds.min => Covered(k)' \/ source[k] = target[k]
    BY <1>1, <2>1, <2>6 DEF ExaminedInv
  <2>8. ~Listed'
    BY <2>1 DEF Listed
  <2>9. QED
    BY <1>1, <1>2, <2>1, <2>5, <2>7, <2>8 DEF ExaminedInv, InRange
<1>5. CASE EndList
  <2> DEFINE tail == TailRange(srcBounds, tgtBounds)
  <2>1. /\ phase = "list" /\ phase' # "list" /\ Listed' /\ target' = target
        /\ ranges' = ranges \o tail
        /\ srcBounds.min # NoKey /\ srcBounds = Bounds(source)
        /\ tgtBounds = Bounds(target)
    BY <1>1, <1>5 DEF EndList, CompareDone, BoundsKnown, tables, Listed
  <2>2. tail \in Seq(PkRange)
    BY <1>0, RangeTypes
  <2>3. \A i \in 1 .. Len(tail) : \A k \in PK : InRange(tail[i], k) => Examined(k)
    BY <1>0, <2>1, EndRanges DEF Examined
  <2>4. ASSUME NEW k \in PK, k > srcBounds.max
        PROVE  \/ \E i \in 1 .. Len(tail) : InRange(tail[i], k)
               \/ source[k] = target[k]
    <3>1. source[k] = NoRow
      BY <1>0, <2>1, <2>4, OutOfBounds
    <3>2. srcBounds.max # NoKey
      BY <2>1, BoundsHold
    <3>3. CASE tgtBounds.max # NoKey /\ tgtBounds.max > srcBounds.max
      <4> DEFINE h == [Whole EXCEPT !.start = srcBounds.max, !.startIncl = FALSE]
      <4>1. tail = <<h>>
        BY <3>2, <3>3 DEF TailRange
      <4>2. h.end = NoKey /\ h.start = srcBounds.max
        BY DEF Whole
      <4> HIDE DEF h
      <4>3. Len(<<h>>) = 1 /\ <<h>>[1] = h
        OBVIOUS
      <4>4. InRange(h, k)
        BY <2>4, <4>2 DEF InRange
      <4>5. 1 \in 1 .. Len(tail) /\ InRange(tail[1], k)
        BY <4>1, <4>3, <4>4
      <4>6. QED
        BY <4>5
    <3>4. CASE ~(tgtBounds.max # NoKey /\ tgtBounds.max > srcBounds.max)
      <4>1. tgtBounds.min # NoKey => tgtBounds.max # NoKey /\ tgtBounds.max \in Int
        BY <1>0, <2>1, BoundsHold, KeyAssumption DEF BoundsType, KeyOrNone
      <4>2. srcBounds.max \in Int /\ k \in Int
        BY <1>0, <3>2, KeyAssumption DEF BoundsType, KeyOrNone
      <4>3. tgtBounds.min = NoKey \/ (tgtBounds.min # NoKey /\ k > tgtBounds.max)
        BY <2>4, <3>4, <4>1, <4>2
      <4>4. target[k] = NoRow
        BY <1>0, <2>1, <4>3, OutOfBounds
      <4>5. QED
        BY <3>1, <4>4
    <3>5. QED
      BY <3>3, <3>4
  <2> HIDE DEF tail
  <2>5. \A i \in 1 .. Len(ranges') :
          \/ i \in 1 .. Len(ranges) /\ ranges'[i] = ranges[i]
          \/ i - Len(ranges) \in 1 .. Len(tail) /\ ranges'[i] = tail[i - Len(ranges)]
    BY <1>0, <2>1, <2>2
  <2>6. \A i \in 1 .. Len(ranges') : \A k \in PK :
          InRange(ranges'[i], k) => Examined(k)
    BY <1>1, <2>3, <2>5 DEF ExaminedInv
  <2>7. \A k : Covered(k) => Covered(k)'
    BY <1>0, <2>1, <2>2, CoveredGrows
  <2>8. ASSUME NEW k \in PK, NEW i \in 1 .. Len(tail), InRange(tail[i], k)
        PROVE  Covered(k)'
    <3>1. /\ i + Len(ranges) \in 1 .. Len(ranges')
          /\ ranges'[i + Len(ranges)] = tail[i]
      BY <1>0, <2>1, <2>2
    <3>2. QED
      BY <2>8, <3>1 DEF Covered, InRange
  <2>9. ASSUME NEW k \in PK, Examined(k)
        PROVE  Covered(k)' \/ source[k] = target[k]
    <3>1. CASE k < srcBounds.min
      BY <1>1, <2>1, <2>7, <3>1 DEF ExaminedInv
    <3>2. CASE k > srcBounds.max
      BY <2>4, <2>8, <3>2
    <3>3. CASE \E c \in Cuts : Page(c) # {} /\ InRange(ChunkRange(Page(c)), k)
      <4>1. PICK c \in Cuts : Page(c) # {} /\ InRange(ChunkRange(Page(c)), k)
        BY <3>3
      <4>2. Cuts' = Cuts /\ Page(c)' = Page(c)
        BY <1>1, PagesStay
      <4>3. Chunked(c)'
        BY <1>1, <2>1, <4>1, <4>2 DEF PagesInv
      <4>4. PICK i \in 1 .. Len(ranges') : ranges'[i] = ChunkRange(Page(c)')
        BY <4>3 DEF Chunked, ChunkRange
      <4>5. InRange(ranges'[i], k)
        BY <4>1, <4>2, <4>4
      <4>6. QED
        BY <4>5 DEF Covered, InRange
    <3>4. CASE Rows(source) = {}
      BY <2>1, <3>4, BoundsHold
    <3>5. QED
      BY <2>1, <2>9, <3>1, <3>2, <3>3, <3>4 DEF Examined
  <2>10. QED
    BY <1>1, <1>2, <2>1, <2>6, <2>9 DEF ExaminedInv, InRange
<1>6. CASE StartVerify
  <2>1. ranges' = <<>> /\ phase' = "bounds"
    BY <1>6 DEF StartVerify
  <2>2. QED
    BY <1>0, <2>1 DEF ExaminedInv, Listed
<1>7. CASE DeployCommit
  <2>1. UNCHANGED <<ranges, cursor>> /\ Listed /\ phase' # "list" /\ phase # "list"
    BY <1>7 DEF DeployCommit, listing, Listed
  <2>2. \A k \in PK : source[k] = target[k] => source[k] = target'[k]
    BY <1>1, <1>7, DeployTowardsSource
  <2>3. \A k : Covered(k)' <=> Covered(k)
    BY <1>1, <2>1, ListingStays
  <2>4. QED
    BY <1>1, <1>2, <2>1, <2>2, <2>3 DEF ExaminedInv, InRange
<1>8. CASE \/ FetchSourceBounds \/ CheckSource \/ CheckTarget \/ Preview
           \/ Fail \/ UNCHANGED vars \/ \E a \in ActionSets : StartPreview(a)
  <2>1. /\ UNCHANGED <<cursor, ranges, target>>
        /\ \/ phase' = phase /\ srcBounds' = srcBounds
           \/ phase' \in {"targetBounds", "failed"}
           \/ Listed /\ phase' # "list"
    <3>1. ListType
      BY DEF TypeOK, ListType, Tables
    <3>2. CASE FetchSourceBounds
      BY <3>2 DEF FetchSourceBounds, tables
    <3>3. CASE ~FetchSourceBounds
      <4>1. target' = target
        BY <1>8, <3>3 DEF CheckSource, CheckTarget, Preview, PreviewSource,
           PreviewTarget, EndPreview, Fail, vars, StartPreview, tables
      <4>2. QED
        BY <1>8, <3>1, <3>3, <4>1, OtherSteps
    <3>4. QED
      BY <3>2, <3>3
  <2>2. \A k : Covered(k)' <=> Covered(k)
    BY <1>1, <2>1, ListingStays
  <2>3. QED
    BY <1>1, <1>2, <2>1, <2>2 DEF ExaminedInv, Listed, InRange
<1>9. QED
  BY <1>1, <1>3, <1>4, <1>5, <1>6, <1>7, <1>8 DEF Next, Compare

\* Two tables that agree on a range return the same page of it.
LEMMA SamePage ==
  ASSUME NEW s, NEW t, NEW r,
         \A k \in PK : InRange(r, k) => s[k] = t[k]
  PROVE  RowsInRange(s, r) = RowsInRange(t, r)
<1>1. {k \in Rows(s) : InRange(r, k)} = {k \in Rows(t) : InRange(r, k)}
  BY DEF Rows
<1> DEFINE keys == FirstN({k \in Rows(t) : InRange(r, k)}, RowLimit)
<1>2. \A k \in keys : s[k] = t[k]
  BY DEF FirstN, Rows
<1>3. /\ RowsInRange(s, r) = [k \in keys |-> s[k]]
      /\ RowsInRange(t, r) = [k \in keys |-> t[k]]
  BY <1>1 DEF RowsInRange
<1> HIDE DEF keys
<1>4. QED
  BY <1>2, <1>3

\* Every step keeps the verification right.
LEMMA VerifyStep ==
  TypeOK /\ Paired /\ CollectInv /\ DeployConverges' /\ ExaminedInv /\ VerifyInv
    /\ [Next]_vars => VerifyInv'
<1> SUFFICES ASSUME TypeOK, Paired, CollectInv, DeployConverges', ExaminedInv,
                    VerifyInv, [Next]_vars
             PROVE  VerifyInv'
  OBVIOUS
<1>0. /\ equal \in Seq(BOOLEAN) /\ Len(equal) \in Nat /\ Len(<<>>) = 0
      /\ source \in Tables /\ target \in Tables
  BY DEF TypeOK
<1>1. dirty' = {} => /\ dirty = {} /\ source' = source /\ Stable = PK
                     /\ target' = target \/ DeployCommit
  BY NoWriteYet
<1>2. source' = source => \A k : Examined(k)' <=> Examined(k)
  BY PagesStay
<1>3. CASE DeployCommit
  <2>1. /\ phase = "previewed" /\ phase' \in {"deployed", "failed"}
        /\ UNCHANGED <<truncated, actions, mode, dirty, ranges, cursor, verifying>>
    BY <1>3 DEF DeployCommit, preview, request, others, listing
  <2>2. ~verifying /\ ~verifying'
    BY <2>1 DEF VerifyInv
  <2>3. ASSUME phase' = "deployed", Complete', NEW k \in PK, Examined(k)'
        PROVE  source'[k] = target'[k]
    <3>1. Complete /\ dirty = {} /\ source' = source /\ Stable = PK /\ Stable' = PK
      BY <1>1, <2>1, <2>3 DEF Complete, Stable
    <3>2. Examined(k)
      BY <1>2, <2>3, <3>1
    <3>3. Covered(k) \/ source[k] = target[k]
      BY <2>1, <3>1, <3>2 DEF ExaminedInv, Listed
    <3>4. CASE Covered(k)
      <4>1. Covered(k)'
        BY <2>1, <3>1, <3>4, ListingStays
      <4>2. /\ source'[k] # NoRow => target'[k] = source'[k]
            /\ source'[k] = NoRow => target'[k] = NoRow
        BY <2>3, <3>1, <4>1 DEF DeployConverges, Complete
      <4>3. QED
        BY <4>2
    <3>5. CASE source[k] = target[k]
      BY <1>3, <3>1, <3>5, DeployTowardsSource
    <3>6. QED
      BY <3>3, <3>4, <3>5
  <2>4. QED
    BY <2>1, <2>2, <2>3 DEF VerifyInv
<1>4. CASE StartVerify
  <2>1. /\ phase = "deployed" /\ phase' = "bounds" /\ verifying' = TRUE
        /\ equal' = <<>>
        /\ UNCHANGED <<source, target, truncated, actions, mode, dirty>>
    BY <1>4 DEF StartVerify, tables, preview, request, others
  <2>2. Complete' => Complete
    BY <2>1 DEF Complete
  <2>3. QED
    BY <1>0, <1>2, <2>1, <2>2 DEF VerifyInv
<1>5. CASE ~verifying /\ ~DeployCommit /\ ~StartVerify
  <2>1. ~verifying' /\ (phase' = "deployed" => phase = "deployed")
    BY <1>5 DEF Next, Compare, Preview, FetchSourceBounds, FetchTargetBounds,
       ListChunk, EndList, CheckSource, CheckTarget, StartPreview, PreviewSource,
       PreviewTarget, EndPreview, Fail, OtherWrite, vars, CompareDone
  <2>2. phase = "deployed" /\ dirty' = {} =>
          UNCHANGED <<truncated, actions, mode, target>>
    <3>1. ASSUME phase = "deployed", dirty' = {}
          PROVE  UNCHANGED vars
      BY <1>5, <3>1, NoWriteYet DEF Next, Compare, Preview, FetchSourceBounds,
         FetchTargetBounds, ListChunk, EndList, CheckSource, CheckTarget,
         StartPreview, PreviewSource, PreviewTarget, EndPreview, Fail
    <3>2. QED
      BY <3>1 DEF vars, preview, request, tables
  <2>3. phase' # "verified"
    BY <1>5 DEF Next, Compare, Preview, FetchSourceBounds, FetchTargetBounds,
       ListChunk, EndList, CheckSource, CheckTarget, StartPreview, PreviewSource,
       PreviewTarget, EndPreview, Fail, OtherWrite, vars, CompareDone, VerifyInv
  <2>4. phase' = "deployed" /\ Complete' =>
          Complete /\ source' = source /\ target' = target
    BY <1>1, <2>1, <2>2 DEF Complete
  <2>5. QED
    BY <1>2, <2>1, <2>3, <2>4 DEF VerifyInv
<1>6. CASE verifying /\ ~DeployCommit /\ ~StartVerify
  <2>1. /\ verifying' /\ UNCHANGED <<truncated, actions, mode>>
        /\ phase' \notin {"compared", "previewSource", "previewTarget", "previewed",
                          "deployed"}
    BY <1>6 DEF VerifyInv, Next, Compare, Preview, FetchSourceBounds,
       FetchTargetBounds, ListChunk, EndList, CheckSource, CheckTarget, StartPreview,
       PreviewSource, PreviewTarget, EndPreview, Fail, OtherWrite, vars, preview,
       request, CompareDone
  <2>2. Complete' => /\ Complete /\ dirty' = {} /\ dirty = {} /\ ~OtherWrite
                     /\ source' = source /\ target' = target
    BY <1>1, <1>6, <2>1, NoWriteYet DEF Complete
  <2>3. Complete' => \A k \in PK : Examined(k)' => source'[k] = target'[k]
    BY <1>2, <1>6, <2>2 DEF VerifyInv
  <2>4. ASSUME Complete'
        PROVE  /\ \A i \in 1 .. Len(equal') : equal'[i]
               /\ phase' = "checkTarget" => rows' = RowsInRange(source, ranges[idx])'
    <3>1. CASE CheckSource
      <4>1. /\ UNCHANGED <<equal, ranges, idx>>
            /\ rows' = RowsInRange(source, ranges[idx])
        BY <3>1 DEF CheckSource, listing
      <4>2. RowsInRange(source, ranges[idx])' = RowsInRange(source, ranges[idx])
        BY <2>2, <2>4, <4>1 DEF RowsInRange, FirstN, Rows, InRange
      <4>3. QED
        BY <1>6, <2>2, <2>4, <4>1, <4>2 DEF VerifyInv
    <3>2. CASE CheckTarget
      <4> DEFINE same == SameRows(rows, RowsInRange(target, ranges[idx]))
      <4>1. /\ phase = "checkTarget" /\ phase' # "checkTarget"
            /\ equal' = Append(equal, same) /\ idx \in 1 .. Len(ranges)
        BY <3>2 DEF CheckTarget, CompareDone, Paired, TypeOK
      <4>2. rows = RowsInRange(source, ranges[idx])
        BY <1>6, <2>2, <2>4, <4>1 DEF VerifyInv
      <4>3. \A k \in PK : InRange(ranges[idx], k) => source[k] = target[k]
        BY <1>6, <2>2, <2>4, <4>1 DEF VerifyInv, ExaminedInv
      <4>4. same
        BY <4>2, <4>3, SamePage DEF SameRows
      <4> HIDE DEF same
      <4>5. equal' = Append(equal, TRUE)
        <5>1. same \in BOOLEAN
          BY DEF same, SameRows
        <5>2. QED
          BY <4>1, <4>4, <5>1
      <4>6. \A i \in 1 .. Len(equal) : equal[i]
        BY <1>6, <2>2, <2>4 DEF VerifyInv
      <4>7. QED
        BY <1>0, <4>1, <4>5, <4>6
    <3>3. CASE Fail \/ UNCHANGED vars
      <4>1. UNCHANGED <<equal, ranges, idx>> /\ ((UNCHANGED rows /\ phase' = phase) \/ phase' = "failed")
        BY <3>3 DEF Fail, vars, listing
      <4>2. phase' = phase => RowsInRange(source, ranges[idx])' = RowsInRange(source, ranges[idx])
        BY <2>2, <2>4, <4>1 DEF RowsInRange, FirstN, Rows, InRange
      <4>3. QED
        BY <1>6, <2>2, <2>4, <4>1, <4>2 DEF VerifyInv
    <3>4. CASE FetchSourceBounds \/ FetchTargetBounds \/ ListChunk \/ EndList
      <4>1. equal' = equal /\ phase' # "checkTarget"
        BY <3>4 DEF FetchSourceBounds, FetchTargetBounds, ListChunk, EndList, CompareDone
      <4>2. QED
        BY <1>6, <2>2, <2>4, <4>1 DEF VerifyInv
    <3>5. QED
      BY <1>6, <2>2, <2>4, <3>1, <3>2, <3>3, <3>4
      DEF VerifyInv, Next, Compare, Preview, StartPreview, PreviewSource,
          PreviewTarget, EndPreview
  <2>5. QED
    BY <2>1, <2>3, <2>4 DEF VerifyInv
<1>7. QED
  BY <1>3, <1>4, <1>5, <1>6

\* A mirror deploy of an uncut, unfiltered preview verifies: if nobody else
\* writes and no query is cut, the second compare finds every range equal.
\* It looks at the same ranges again, so it cannot see what the first one left
\* between two chunks.
THEOREM VerificationPasses == Spec => []VerifyFindsNoDifference
<1> DEFINE VInv == PagesInv /\ BoundsKnown /\ ExaminedInv /\ VerifyInv
<1>1. CASE Cardinality(PK) <= RowLimit
  <2>1. Roomy
    BY <1>1 DEF Roomy
  <2>2. Init => VInv
    <3>1. ASSUME Init PROVE VInv
      <4>1. /\ phase = "bounds" /\ cursor = NoKey /\ ranges = <<>> /\ equal = <<>>
            /\ verifying = FALSE /\ Len(<<>>) = 0
        BY <3>1 DEF Init
      <4>2. NoKey \in Cuts
        BY CutsClose DEF Closed
      <4>3. QED
        BY <4>1, <4>2 DEF PagesInv, BoundsKnown, ExaminedInv, VerifyInv, Listed
    <3>2. QED
      BY <3>1
  <2>3. EngineInv /\ EngineInv' /\ VInv /\ [Next]_vars => VInv'
    BY PagesStep, BoundsStep, ExaminedStep, VerifyStep DEF EngineInv, SettledInv
  <2>4. VInv => VerifyFindsNoDifference
    BY DEF VerifyInv, VerifyFindsNoDifference, Complete
  <2>5. Spec => []EngineInv
    BY <2>1, EngineInvariant
  <2>6. QED
    BY <2>2, <2>3, <2>4, <2>5, PTL DEF Spec
<1>2. CASE ~(Cardinality(PK) <= RowLimit)
  <2>1. VerifyFindsNoDifference
    BY <1>2 DEF VerifyFindsNoDifference
  <2>2. QED
    BY <2>1, PTL
<1>3. QED
  BY <1>1, <1>2
=============================================================================
