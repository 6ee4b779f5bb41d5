----------------------------- MODULE GridProofs -----------------------------
(***************************************************************************)
(* Proofs about the table: the column layout always shows a column, the      *)
(* conflict dialog leaves nothing of its scope behind, the pending changes   *)
(* stay with their rows, through saves that fail halfway, discards,          *)
(* recoveries and resolved conflicts, and paging by key skips no row.        *)
(***************************************************************************)
EXTENDS MCWebClient, Ranks, Sequences, FiniteSetTheorems, TLAPS

-----------------------------------------------------------------------------
(* Sorting and filtering by ranks. *)

LEMMA RankType ==
  ASSUME NEW S, S \subseteq Int, IsFiniteSet(S), NEW x \in S
  PROVE  Rank(x, S) \in 1..Cardinality(S)
<1> DEFINE Upto == {y \in S : y <= x}
<1>1. IsFiniteSet(Upto) /\ Cardinality(Upto) <= Cardinality(S)
  BY FS_Subset
<1>2. Cardinality(Upto) \in Nat /\ Cardinality(S) \in Nat
  BY <1>1, FS_CardinalityType
<1>3. x \in Upto
  OBVIOUS
<1>4. Cardinality(Upto) # 0
  BY <1>1, <1>3, FS_EmptySet
<1> QED  BY <1>1, <1>2, <1>4 DEF Rank

LEMMA RankGrows ==
  ASSUME NEW S, S \subseteq Int, IsFiniteSet(S), NEW x \in S, NEW y \in S, x < y
  PROVE  Rank(x, S) < Rank(y, S)
<1> DEFINE A == {z \in S : z <= x}
           B == {z \in S : z <= y}
<1>0. IsFiniteSet(B)
  BY FS_Subset
<1>1. IsFiniteSet(B) /\ A \subseteq B
  <2>1. \A z \in S : z <= x => z <= y
    OBVIOUS
  <2> QED  BY <1>0, <2>1
<1>2. IsFiniteSet(A) /\ Cardinality(A) <= Cardinality(B) /\ (Cardinality(B) = Cardinality(A) => A = B)
  BY <1>1, FS_Subset
<1>3. A # B
  <2>1. y \in B /\ y \notin A
    OBVIOUS
  <2> QED  BY <2>1
<1>4. Cardinality(A) \in Nat /\ Cardinality(B) \in Nat
  BY <1>1, <1>2, FS_CardinalityType
<1> QED  BY <1>2, <1>3, <1>4 DEF Rank

LEMMA RankOnto ==
  ASSUME NEW S, S \subseteq Int, IsFiniteSet(S), NEW n \in 1..Cardinality(S)
  PROVE  \E x \in S : Rank(x, S) = n
<1> DEFINE f == [x \in S |-> Rank(x, S)]
<1>1. Cardinality(S) \in Nat
  BY FS_CardinalityType
<1>2. IsFiniteSet(1..Cardinality(S)) /\ Cardinality(1..Cardinality(S)) = Cardinality(S)
  BY <1>1, FS_Interval
<1>3. f \in Injection(S, 1..Cardinality(S))
  <2>1. f \in [S -> 1..Cardinality(S)]
    BY RankType
  <2>2. ASSUME NEW x \in S, NEW y \in S, f[x] = f[y] PROVE x = y
    <3>1. ~(x < y) /\ ~(y < x)
      <4>1. x < y => f[x] < f[y]
        BY RankGrows
      <4>2. y < x => f[y] < f[x]
        BY RankGrows
      <4>3. f[x] \in Int
        BY <2>1
      <4> QED  BY <2>2, <4>1, <4>2, <4>3
    <3> QED  BY <3>1
  <2> HIDE DEF f
  <2> QED  BY <2>1, <2>2 DEF Injection, IsInjective
<1>4. f \in Surjection(S, 1..Cardinality(S))
  BY <1>2, <1>3, FS_Injection
<1> QED  BY <1>4 DEF Surjection

LEMMA Ordered ==
  ASSUME NEW S, S \subseteq Int, IsFiniteSet(S)
  PROVE  /\ InOrder(S) \in [1..Cardinality(S) -> S]
         /\ \A n \in 1..Cardinality(S) : Rank(InOrder(S)[n], S) = n
         /\ \A x \in S : InOrder(S)[Rank(x, S)] = x
         /\ \A m, n \in 1..Cardinality(S) : m < n => InOrder(S)[m] < InOrder(S)[n]
<1>1. ASSUME NEW n \in 1..Cardinality(S)
      PROVE  InOrder(S)[n] \in S /\ Rank(InOrder(S)[n], S) = n
  BY RankOnto DEF InOrder
<1>2. InOrder(S) \in [1..Cardinality(S) -> S]
  BY <1>1 DEF InOrder
<1>3. ASSUME NEW x \in S, NEW y \in S, Rank(x, S) = Rank(y, S) PROVE x = y
  <2>1. Rank(x, S) \in 1..Cardinality(S) /\ Cardinality(S) \in Nat
    BY RankType, FS_CardinalityType
  <2>2. ~(Rank(x, S) < Rank(y, S)) /\ ~(Rank(y, S) < Rank(x, S))
    BY <1>3, <2>1
  <2>3. (x < y => Rank(x, S) < Rank(y, S)) /\ (y < x => Rank(y, S) < Rank(x, S))
    BY RankGrows
  <2>4. x \in Int /\ y \in Int
    OBVIOUS
  <2> QED  BY <2>2, <2>3, <2>4
<1>4. ASSUME NEW x \in S PROVE InOrder(S)[Rank(x, S)] = x
  <2>1. Rank(x, S) \in 1..Cardinality(S)
    BY RankType
  <2> QED  BY <1>1, <1>3, <2>1
<1>5. ASSUME NEW m \in 1..Cardinality(S), NEW n \in 1..Cardinality(S), m < n
      PROVE  InOrder(S)[m] < InOrder(S)[n]
  <2>1. InOrder(S)[m] \in S /\ InOrder(S)[n] \in S
    BY <1>1
  <2>2. ~(InOrder(S)[n] < InOrder(S)[m]) /\ InOrder(S)[n] # InOrder(S)[m]
    <3>1. InOrder(S)[n] < InOrder(S)[m] => n < m
      BY <1>1, <2>1, RankGrows
    <3>2. InOrder(S)[n] = InOrder(S)[m] => n = m
      BY <1>1
    <3> QED  BY <1>5, <3>1, <3>2
  <2>3. InOrder(S)[m] \in Int /\ InOrder(S)[n] \in Int
    BY <2>1
  <2> QED  BY <2>2, <2>3
<1> QED  BY <1>1, <1>2, <1>4, <1>5

LEMMA KeptOnes ==
  ASSUME NEW list, NEW P, P \subseteq Int, IsFiniteSet(P)
  PROVE  /\ DOMAIN Kept(list, P) = 1..Cardinality(P)
         /\ Kept(list, P) = [n \in 1..Cardinality(P) |-> Kept(list, P)[n]]
         /\ \A n \in 1..Cardinality(P) :
               InOrder(P)[n] \in P /\ Kept(list, P)[n] = list[InOrder(P)[n]]
         /\ \A i \in P : Rank(i, P) \in 1..Cardinality(P) /\ Kept(list, P)[Rank(i, P)] = list[i]
         /\ \A m, n \in 1..Cardinality(P) : InOrder(P)[m] = InOrder(P)[n] => m = n
<1>1. \A n \in 1..Cardinality(P) : InOrder(P)[n] \in P
  BY Ordered
<1>2. \A m, n \in 1..Cardinality(P) : InOrder(P)[m] = InOrder(P)[n] => m = n
  BY Ordered
<1>3. \A i \in P : Rank(i, P) \in 1..Cardinality(P) /\ InOrder(P)[Rank(i, P)] = i
  BY RankType, Ordered
<1> QED  BY <1>1, <1>2, <1>3 DEF Kept
(* A list of S in which nothing comes twice, and what is in it. *)
IsList(s, S) == s \in Seq(S) /\ \A m, n \in DOMAIN s : s[m] = s[n] => m = n
Members(s)   == {s[n] : n \in DOMAIN s}

LEMMA InOrderList ==
  ASSUME NEW S, S \subseteq Int, IsFiniteSet(S), NEW T, S \subseteq T
  PROVE  IsList(InOrder(S), T) /\ Members(InOrder(S)) = S
<1>1. Cardinality(S) \in Nat
  BY FS_CardinalityType
<1>2. /\ InOrder(S) \in [1..Cardinality(S) -> S]
      /\ \A n \in 1..Cardinality(S) : Rank(InOrder(S)[n], S) = n
      /\ \A x \in S : Rank(x, S) \in 1..Cardinality(S) /\ InOrder(S)[Rank(x, S)] = x
  BY Ordered, RankType
<1> DEFINE s == InOrder(S)
           N == Cardinality(S)
<1> HIDE DEF s, N
<1>3. s \in [1..N -> S] /\ N \in Nat
  BY <1>1, <1>2 DEF s, N
<1>4. s \in Seq(T)
  <2>1. s \in [1..N -> T]
    BY <1>3
  <2> QED  BY <1>3, <2>1
<1>5. \A m, n \in DOMAIN s : s[m] = s[n] => m = n
  BY <1>2, <1>3 DEF s, N
<1>6. Members(s) = S
  BY <1>2, <1>3 DEF s, N, Members
<1> QED  BY <1>4, <1>5, <1>6 DEF IsList, s

(* What is kept of a list is a list, of the elements at the places. *)
LEMMA KeptList ==
  ASSUME NEW S, NEW s, IsList(s, S), NEW P \in SUBSET DOMAIN s
  PROVE  IsList(Kept(s, P), S) /\ Members(Kept(s, P)) = {s[n] : n \in P}
<1>1. P \subseteq Int /\ IsFiniteSet(P)
  <2>1. DOMAIN s = 1..Len(s) /\ Len(s) \in Nat
    BY DEF IsList
  <2>2. IsFiniteSet(1..Len(s))
    BY <2>1, FS_Interval
  <2> QED  BY <2>1, <2>2, FS_Subset
<1> DEFINE K == Kept(s, P)
           N == Cardinality(P)
<1>2. N \in Nat
  BY <1>1, FS_CardinalityType
<1>3. /\ DOMAIN K = 1..N /\ K = [n \in 1..N |-> K[n]]
      /\ \A n \in 1..N : InOrder(P)[n] \in P /\ K[n] = s[InOrder(P)[n]]
      /\ \A i \in P : Rank(i, P) \in 1..N /\ K[Rank(i, P)] = s[i]
      /\ \A m, n \in 1..N : InOrder(P)[m] = InOrder(P)[n] => m = n
  BY <1>1, KeptOnes
<1> HIDE DEF K, N
<1>4. \A n \in DOMAIN s : s[n] \in S
  BY DEF IsList
<1>5. K \in Seq(S)
  <2>1. K \in [1..N -> S]
    BY <1>3, <1>4
  <2> QED  BY <1>2, <2>1
<1>6. IsList(K, S)
  BY <1>3, <1>5 DEF IsList
<1>7. Members(K) = {s[n] : n \in P}
  BY <1>3 DEF Members
<1> QED  BY <1>6, <1>7 DEF K

(* Two lists without a common element, one after the other. *)
LEMMA JoinedList ==
  ASSUME NEW S, NEW s, NEW t, IsList(s, S), IsList(t, S), Members(s) \cap Members(t) = {}
  PROVE  IsList(s \o t, S) /\ Members(s \o t) = Members(s) \cup Members(t)
<1>1. s \in Seq(S) /\ t \in Seq(S)
  BY DEF IsList
<1>2. /\ s \o t \in Seq(S) /\ DOMAIN (s \o t) = 1..(Len(s) + Len(t))
      /\ DOMAIN s = 1..Len(s) /\ DOMAIN t = 1..Len(t) /\ Len(s) \in Nat /\ Len(t) \in Nat
      /\ \A n \in 1..(Len(s) + Len(t)) : (s \o t)[n] = IF n <= Len(s) THEN s[n] ELSE t[n - Len(s)]
  BY <1>1
<1> DEFINE J == s \o t
<1> HIDE DEF J
<1>3. ASSUME NEW m \in DOMAIN J, NEW n \in DOMAIN J, J[m] = J[n] PROVE m = n
  <2>1. \A i \in DOMAIN J : (i <= Len(s) => i \in DOMAIN s /\ J[i] = s[i])
                            /\ (~(i <= Len(s)) => i - Len(s) \in DOMAIN t /\ J[i] = t[i - Len(s)])
    BY <1>2 DEF J
  <2>2. \A i \in DOMAIN s, j \in DOMAIN t : s[i] # t[j]
    BY DEF Members
  <2>3. m \in Int /\ n \in Int
    BY <1>2 DEF J
  <2>4. CASE m <= Len(s) /\ n <= Len(s)
    BY <1>3, <2>1, <2>4 DEF IsList
  <2>5. CASE ~(m <= Len(s)) /\ ~(n <= Len(s))
    <3>1. m - Len(s) = n - Len(s)
      BY <1>3, <2>1, <2>5 DEF IsList
    <3> QED  BY <1>2, <2>3, <3>1
  <2>6. (m <= Len(s)) = (n <= Len(s))
    BY <1>3, <2>1, <2>2
  <2> QED  BY <2>4, <2>5, <2>6
<1>4. Members(J) = Members(s) \cup Members(t)
  <2>1. \A i \in DOMAIN J : J[i] \in Members(s) \cup Members(t)
    <3>1. \A i \in DOMAIN J : IF i <= Len(s) THEN i \in DOMAIN s /\ J[i] = s[i]
                              ELSE i - Len(s) \in DOMAIN t /\ J[i] = t[i - Len(s)]
      BY <1>2 DEF J
    <3> QED  BY <3>1 DEF Members
  <2>2. \A i \in DOMAIN s : i \in DOMAIN J /\ J[i] = s[i]
    BY <1>2 DEF J
  <2>3. \A i \in DOMAIN t : i + Len(s) \in DOMAIN J /\ J[i + Len(s)] = t[i]
    BY <1>2 DEF J
  <2> QED  BY <2>1, <2>2, <2>3 DEF Members
<1> QED  BY <1>2, <1>3, <1>4 DEF J, IsList

-----------------------------------------------------------------------------
(* The columns of the grid. *)

Fits(order, hidden, width, columns) ==
    /\ IsList(order, GridColumns) /\ Members(order) = Members(columns)
    /\ Members(order) \ hidden # {}
    /\ hidden \cup width \subseteq Members(columns)

LayoutInv ==
    /\ IsList(glColumns, GridColumns) /\ glColumns # <<>>
    /\ Fits(glOrder, glHidden, glWidth, glColumns)
    /\ glStored = GL!Layout

LEMMA LayoutOperators ==
  /\ \A S : GL!InOrder(S) = InOrder(S) /\ GL!Cardinality(S) = Cardinality(S)
  /\ \A list, P : GL!Kept(list, P) = Kept(list, P)
  /\ \A s : GL!ToSet(s) = Members(s)
<1>1. \A S : GL!Cardinality(S) = Cardinality(S)
  BY DEF GL!Cardinality, Cardinality, GL!IsFiniteSet, IsFiniteSet
<1>2. \A x, S : GL!Rank(x, S) = Rank(x, S)
  BY <1>1 DEF GL!Rank, Rank
<1>3. \A S : GL!InOrder(S) = InOrder(S)
  BY <1>1, <1>2 DEF GL!InOrder, InOrder
<1>4. \A list, P : GL!Kept(list, P) = Kept(list, P)
  BY <1>1, <1>3 DEF GL!Kept, Kept
<1>5. \A s : GL!ToSet(s) = Members(s)
  BY DEF GL!ToSet, Members
<1> QED  BY <1>1, <1>3, <1>4, <1>5

(* normalizeColumnLayout, whatever lists it is given. *)
LEMMA NormalizedFits ==
  ASSUME NEW old, IsList(old, GridColumns), NEW columns, IsList(columns, GridColumns), columns # <<>>, NEW hidden, NEW width
  PROVE  LET n == GL!Normalized([order |-> old, hidden |-> hidden, width |-> width], columns)
         IN  /\ n = [order |-> n.order, hidden |-> n.hidden, width |-> n.width]
             /\ Fits(n.order, n.hidden, n.width, columns)
<1> DEFINE known == {i \in DOMAIN old : old[i] \in Members(columns)}
           new   == {i \in DOMAIN columns : columns[i] \notin Members(old)}
           order == Kept(old, known) \o Kept(columns, new)
           hid   == hidden \cap Members(columns)
           shown == IF columns # <<>> /\ hid = Members(columns) THEN hid \ {Head(order)} ELSE hid
           n     == GL!Normalized([order |-> old, hidden |-> hidden, width |-> width], columns)
<1>1. n = [order |-> order, hidden |-> shown, width |-> width \cap Members(columns)]
  BY LayoutOperators DEF GL!Normalized
<1>2. /\ IsList(Kept(old, known), GridColumns) /\ Members(Kept(old, known)) = {old[i] : i \in known}
      /\ IsList(Kept(columns, new), GridColumns) /\ Members(Kept(columns, new)) = {columns[i] : i \in new}
  BY KeptList
<1>3. Members(Kept(old, known)) \cap Members(Kept(columns, new)) = {}
  BY <1>2 DEF Members
<1>4. IsList(order, GridColumns) /\ Members(order) = Members(Kept(old, known)) \cup Members(Kept(columns, new))
  BY <1>2, <1>3, JoinedList
<1>5. Members(order) = Members(columns)
  <2>1. \A i \in known : old[i] \in Members(columns)
    OBVIOUS
  <2>2. \A i \in new : columns[i] \in Members(columns)
    BY DEF Members
  <2>3. ASSUME NEW i \in DOMAIN columns PROVE columns[i] \in Members(order)
    <3>1. CASE columns[i] \in Members(old)
      <4>1. PICK j \in DOMAIN old : old[j] = columns[i]
        BY <3>1 DEF Members
      <4>2. j \in known
        BY <4>1 DEF Members
      <4> QED  BY <1>2, <1>4, <4>1, <4>2
    <3>2. CASE columns[i] \notin Members(old)
      BY <1>2, <1>4, <3>2
    <3> QED  BY <3>1, <3>2
  <2>4. Members(columns) \subseteq Members(order)
    BY <2>3 DEF Members
  <2> QED  BY <1>2, <1>4, <2>1, <2>2, <2>4
<1>6. Members(columns) # {}
  <2>1. DOMAIN columns = 1..Len(columns) /\ Len(columns) \in Nat /\ Len(columns) # 0
    BY DEF IsList
  <2>2. 1 \in DOMAIN columns
    BY <2>1
  <2> QED  BY <2>2 DEF Members
<1> HIDE DEF order
<1>7. Head(order) \in Members(columns)
  <2>1. DOMAIN order = 1..Len(order) /\ Len(order) \in Nat /\ Head(order) = order[1]
    BY <1>4 DEF IsList
  <2>2. 1 \in DOMAIN order
    <3>1. DOMAIN order # {}
      BY <1>5, <1>6 DEF Members
    <3> QED  BY <2>1, <3>1
  <2> QED  BY <1>5, <2>1, <2>2 DEF Members
<1>8. Members(order) \ shown # {}
  BY <1>5, <1>6, <1>7
<1>9. shown \cup (width \cap Members(columns)) \subseteq Members(columns)
  OBVIOUS
<1>10. Fits(order, shown, width \cap Members(columns), columns)
  BY <1>4, <1>5, <1>8, <1>9 DEF Fits
<1> HIDE DEF shown, n
<1>11. n = [order |-> n.order, hidden |-> n.hidden, width |-> n.width] /\ Fits(n.order, n.hidden, n.width, columns)
  BY <1>1, <1>10
<1> QED  BY <1>11 DEF n

LEMMA OthersKeepGrids ==
  ASSUME [Next]_vars
  PROVE  /\ view' = view
         /\ view = "pages" => TP!Next \/ UNCHANGED pages
         /\ view = "grid" => GE!Next \/ UNCHANGED grid
         /\ view = "conflicts" => CV!Next \/ UNCHANGED conflicts
         /\ view = "layout" => GL!Next \/ UNCHANGED layout
BY DEF Next, Pages, Grid, Conflicts, Values, Layout, Tabs, Config, Jobs, Plans, SuitesTab, Schemas,
       ResultsView, vars

(* What Becomes of a fitting layout. *)
LEMMA BecomesFits ==
  ASSUME NEW layout0, layout0 = [order |-> layout0.order, hidden |-> layout0.hidden, width |-> layout0.width],
         Fits(layout0.order, layout0.hidden, layout0.width, glColumns'),
         IsList(glColumns', GridColumns), glColumns' # <<>>, GL!Becomes(layout0)
  PROVE  LayoutInv'
<1>1. /\ glOrder' = layout0.order /\ glHidden' = layout0.hidden /\ glWidth' = layout0.width
      /\ glStored' = layout0
  BY DEF GL!Becomes
<1>2. Fits(glOrder, glHidden, glWidth, glColumns)'
  BY <1>1
<1>3. (glStored = GL!Layout)'
  BY <1>1 DEF GL!Layout
<1> QED  BY <1>2, <1>3 DEF LayoutInv

LEMMA LayoutStart ==
  ASSUME GL!Init PROVE LayoutInv
<1> DEFINE N == Cardinality(GridColumns)
<1>1. /\ InOrder(GridColumns) \in [1..N -> GridColumns] /\ N \in Nat
      /\ \A n \in 1..N : Rank(InOrder(GridColumns)[n], GridColumns) = n
  BY ColumnsAssumption, Ordered, FS_CardinalityType
<1>2. N # 0
  BY ColumnsAssumption, FS_EmptySet
<1>3. glColumns = InOrder(GridColumns)
  BY LayoutOperators DEF GL!Init
<1>4. glColumns \in Seq(GridColumns) /\ Len(glColumns) = N /\ DOMAIN glColumns = 1..N
  BY <1>1, <1>3
<1>5. IsList(glColumns, GridColumns) /\ glColumns # <<>> /\ glColumns[1] \in Members(glColumns)
  BY <1>1, <1>2, <1>3, <1>4 DEF IsList, Members
<1>6. glOrder = glColumns /\ glHidden = {} /\ glWidth = {} /\ glStored = GL!Layout
  BY DEF GL!Init, GL!Default, GL!Layout
<1> QED  BY <1>5, <1>6 DEF LayoutInv, Fits

LEMMA LayoutStep ==
  ASSUME LayoutInv, GL!Next PROVE LayoutInv'
<1> USE DEF LayoutInv
<1>0. IsList(<<>>, GridColumns)
  BY DEF IsList
<1>1. CASE GL!Remount
  <2> DEFINE n == GL!Normalized(GL!Empty, glColumns)
  <2>1. GL!Empty = [order |-> <<>>, hidden |-> {}, width |-> {}]
    BY DEF GL!Empty, GL!Default
  <2>2. n = [order |-> n.order, hidden |-> n.hidden, width |-> n.width] /\ Fits(n.order, n.hidden, n.width, glColumns)
    BY <1>0, <2>1, NormalizedFits
  <2>3. GL!Becomes(n) /\ glColumns' = glColumns
    BY <1>1 DEF GL!Remount, GL!Mount
  <2> HIDE DEF n
  <2> QED  BY <2>2, <2>3, BecomesFits
<1>2. CASE GL!ResetColumnLayout
  <2>1. glColumns[1] \in Members(glColumns)
    <3>1. 1 \in DOMAIN glColumns
      BY DEF IsList
    <3> QED  BY <3>1 DEF Members
  <2>2. Fits(glColumns, {}, {}, glColumns)
    BY <2>1 DEF Fits
  <2>3. GL!Becomes(GL!Default(glColumns)) /\ glColumns' = glColumns
    BY <1>2 DEF GL!ResetColumnLayout
  <2>4. /\ GL!Default(glColumns) = [order |-> GL!Default(glColumns).order, hidden |-> GL!Default(glColumns).hidden,
                                    width |-> GL!Default(glColumns).width]
        /\ GL!Default(glColumns).order = glColumns /\ GL!Default(glColumns).hidden = {} /\ GL!Default(glColumns).width = {}
    BY DEF GL!Default
  <2> QED  BY <2>2, <2>3, <2>4, BecomesFits
<1>3. ASSUME NEW columns \in GL!Tables, GL!SchemaChanges(columns) PROVE LayoutInv'
  <2>1. IsList(columns, GridColumns) /\ columns # <<>>
    <3>1. PICK n \in 1..Cardinality(GridColumns) : columns \in [1..n -> GridColumns]
      BY LayoutOperators DEF GL!Tables
    <3>2. n \in Nat /\ n # 0
      BY ColumnsAssumption, FS_CardinalityType
    <3>3. columns \in Seq(GridColumns) /\ columns # <<>>
      BY <3>1, <3>2
    <3>4. \A a, b \in DOMAIN columns : columns[a] = columns[b] => a = b
      BY DEF GL!Tables, GL!IsInjective
    <3> QED  BY <3>3, <3>4 DEF IsList
  <2> DEFINE n == GL!Normalized(glStored, columns)
  <2>2. n = [order |-> n.order, hidden |-> n.hidden, width |-> n.width] /\ Fits(n.order, n.hidden, n.width, columns)
    BY <2>1, NormalizedFits DEF GL!Layout, Fits
  <2>3. GL!Becomes(n) /\ glColumns' = columns
    BY <1>3 DEF GL!SchemaChanges
  <2> HIDE DEF n
  <2> QED  BY <2>1, <2>2, <2>3, BecomesFits
<1>4. ASSUME NEW i \in DOMAIN glOrder, NEW delta \in {-1, 1}, GL!MoveColumn(i, delta) PROVE LayoutInv'
  <2> DEFINE order == [glOrder EXCEPT ![i] = glOrder[i + delta], ![i + delta] = glOrder[i]]
             j == i + delta
             lay == [GL!Layout EXCEPT !.order = order]
  <2>1. j \in DOMAIN glOrder /\ glOrder \in Seq(GridColumns)
    BY <1>4 DEF GL!MoveColumn, Fits, IsList
  <2>2. /\ DOMAIN order = DOMAIN glOrder /\ order[j] = glOrder[i] /\ order[i] = glOrder[j]
        /\ \A k \in DOMAIN glOrder \ {i, j} : order[k] = glOrder[k]
    <3>1. i \in Int /\ j \in Int /\ i # j
      BY <2>1
    <3> QED  BY <2>1, <3>1
  <2>3. order \in Seq(GridColumns)
    BY <2>1
  <2> HIDE DEF j
  <2>4. lay = [order |-> order, hidden |-> glHidden, width |-> glWidth]
    BY DEF GL!Layout
  <2>5. GL!Becomes(lay) /\ glColumns' = glColumns
    BY <1>4 DEF GL!MoveColumn, GL!Layout
  <2> HIDE DEF order, lay
  <2>6. IsList(order, GridColumns)
    BY <2>1, <2>2, <2>3 DEF IsList, Fits
  <2>7. Members(order) = Members(glOrder)
    BY <2>1, <2>2 DEF Members
  <2>8. Fits(order, glHidden, glWidth, glColumns)
    BY <2>6, <2>7 DEF Fits
  <2> QED  BY <2>4, <2>5, <2>8, BecomesFits
<1>5. ASSUME NEW c \in GL!ToSet(glOrder), GL!ToggleColumnVisibility(c) PROVE LayoutInv'
  <2> DEFINE hidden == IF c \in glHidden THEN glHidden \ {c} ELSE glHidden \cup {c}
             lay == [GL!Layout EXCEPT !.hidden = hidden]
  <2>0. c \in Members(glOrder)
    BY LayoutOperators
  <2>1. Members(glOrder) \ hidden # {}
    <3>1. CASE c \in glHidden
      BY <2>0, <3>1
    <3>2. CASE c \notin glHidden
      <4> DEFINE shown == Members(glOrder) \ glHidden
      <4>1. Cardinality(shown) > 1
        BY <1>5, <3>2, LayoutOperators DEF GL!ToggleColumnVisibility
      <4>2. shown # {c}
        <5>1. \A S : S = {c} => Cardinality(S) = 1
          BY FS_Singleton
        <5>2. shown = {c} => Cardinality(shown) = 1
          BY <5>1
        <5> HIDE DEF shown
        <5> QED  BY <4>1, <5>2
      <4>3. c \in shown
        BY <2>0, <3>2
      <4> QED  BY <3>2, <4>2, <4>3
    <3> QED  BY <3>1, <3>2
  <2>3. GL!Becomes(lay) /\ glColumns' = glColumns
    BY <1>5 DEF GL!ToggleColumnVisibility, GL!Layout
  <2>4. Fits(glOrder, hidden, glWidth, glColumns)
    BY <2>0, <2>1 DEF Fits
  <2> HIDE DEF hidden
  <2>2. lay = [order |-> glOrder, hidden |-> hidden, width |-> glWidth]
    BY DEF GL!Layout
  <2> HIDE DEF lay
  <2> QED  BY <2>2, <2>3, <2>4, BecomesFits
<1>6. ASSUME NEW c \in GL!ToSet(glOrder), GL!Resize(c) PROVE LayoutInv'
  <2> DEFINE width == glWidth \cup {c}
             lay == [GL!Layout EXCEPT !.width = width]
  <2>0. c \in Members(glOrder)
    BY LayoutOperators
  <2>2. GL!Becomes(lay) /\ glColumns' = glColumns
    BY <1>6 DEF GL!Resize, GL!Layout
  <2>3. Fits(glOrder, glHidden, width, glColumns)
    BY <2>0 DEF Fits
  <2> HIDE DEF width
  <2>1. lay = [order |-> glOrder, hidden |-> glHidden, width |-> width]
    BY DEF GL!Layout
  <2> HIDE DEF lay
  <2> QED  BY <2>1, <2>2, <2>3, BecomesFits
<1> QED  BY <1>1, <1>2, <1>3, <1>4, <1>5, <1>6 DEF GL!Next

(* Through moves, toggles, resizes, remounts and a schema that gains and loses columns, every     *)
(* column of the table keeps one place in the grid and one stays visible (DataTable               *)
(* normalizeColumnLayout, toggleColumnVisibility), for any columns.                               *)
THEOREM SomeColumnStays == Spec => []SomeColumnStaysVisible
<1>1. Init => (view = "layout" => LayoutInv)
  BY LayoutStart DEF Init
<1>2. (view = "layout" => LayoutInv) /\ [Next]_vars => (view = "layout" => LayoutInv)'
  <2> SUFFICES ASSUME view = "layout" => LayoutInv, [Next]_vars, view' = "layout"
               PROVE  LayoutInv'
    OBVIOUS
  <2>1. LayoutInv /\ (GL!Next \/ UNCHANGED layout)
    BY OthersKeepGrids
  <2>2. CASE UNCHANGED layout
    BY <2>1, <2>2 DEF layout, LayoutInv, GL!Layout
  <2> QED  BY <2>1, <2>2, LayoutStep
<1>3. (view = "layout" => LayoutInv) => SomeColumnStaysVisible
  <2>1. LayoutInv => GL!SomeColumnStaysVisible
    <3>1. IsList(glOrder, GridColumns) => GL!IsInjective(glOrder)
      BY DEF IsList, GL!IsInjective
    <3> QED  BY <3>1, LayoutOperators DEF LayoutInv, Fits, GL!SomeColumnStaysVisible
  <2> QED  BY <2>1 DEF SomeColumnStaysVisible
<1> QED  BY <1>1, <1>2, <1>3, PTL DEF Spec

-----------------------------------------------------------------------------
(* The review of the conflicts. *)

(* What the dialog walks through: conflicts of the scope it was opened for, with all of them that *)
(* are still in the report, and the one it shows.                                                *)
ConflictsInv ==
    /\ cvReport \subseteq CV!Conflicts /\ cvRecovery \subseteq CV!Conflicts
    /\ IsList(cvScope, CV!Conflicts)
    /\ cvActive # CV!NoConflict =>
          /\ ~cvOverview /\ cvActive \in Members(cvScope) \cap cvReport
          /\ Members(cvScope) \subseteq cvBegun
          /\ cvBegun \cap cvReport \subseteq Members(cvScope)

LEMMA ConflictOperators ==
  /\ \A S : CV!InOrder(S) = InOrder(S)
  /\ \A list, P : CV!Kept(list, P) = Kept(list, P)
  /\ \A s : CV!ToSet(s) = Members(s)
<1>1. \A S : CV!Cardinality(S) = Cardinality(S)
  BY DEF CV!Cardinality, Cardinality, CV!IsFiniteSet, IsFiniteSet
<1>2. \A x, S : CV!Rank(x, S) = Rank(x, S)
  BY <1>1 DEF CV!Rank, Rank
<1>3. \A S : CV!InOrder(S) = InOrder(S)
  BY <1>1, <1>2 DEF CV!InOrder, InOrder
<1>4. \A list, P : CV!Kept(list, P) = Kept(list, P)
  BY <1>1, <1>3 DEF CV!Kept, Kept
<1>5. \A s : CV!ToSet(s) = Members(s)
  BY DEF CV!ToSet, Members
<1> QED  BY <1>3, <1>4, <1>5

LEMMA ConflictNumbers ==
  CV!Conflicts \subseteq Int /\ IsFiniteSet(CV!Conflicts) /\ CV!NoConflict \notin CV!Conflicts
<1>1. IsFiniteSet(UpdateRows \cup DeleteRows)
  BY ConflictAssumption, FS_Union
<1> QED  BY <1>1, ConflictAssumption DEF CV!Conflicts, CV!NoConflict

LEMMA ReportOrderList ==
  ASSUME NEW S \in SUBSET CV!Conflicts
  PROVE  IsList(CV!InReportOrder(S), CV!Conflicts) /\ Members(CV!InReportOrder(S)) = S
<1> DEFINE A == S \cap DeleteRows
           B == S \ DeleteRows
<1>1. A \subseteq Int /\ IsFiniteSet(A) /\ B \subseteq Int /\ IsFiniteSet(B)
  BY ConflictNumbers, FS_Subset
<1>2. /\ IsList(InOrder(A), CV!Conflicts) /\ Members(InOrder(A)) = A
      /\ IsList(InOrder(B), CV!Conflicts) /\ Members(InOrder(B)) = B
  <2>1. A \subseteq CV!Conflicts /\ B \subseteq CV!Conflicts
    OBVIOUS
  <2> HIDE DEF A, B
  <2> QED  BY <1>1, <2>1, InOrderList
<1>3. IsList(InOrder(A) \o InOrder(B), CV!Conflicts) /\ Members(InOrder(A) \o InOrder(B)) = A \cup B
  <2>1. Members(InOrder(A)) \cap Members(InOrder(B)) = {}
    BY <1>2
  <2> DEFINE s == InOrder(A)
             t == InOrder(B)
  <2>2. IsList(s, CV!Conflicts) /\ IsList(t, CV!Conflicts) /\ Members(s) \cap Members(t) = {}
    BY <1>2, <2>1
  <2>3. Members(s) = A /\ Members(t) = B
    BY <1>2
  <2> HIDE DEF A, B, s, t
  <2>4. IsList(s \o t, CV!Conflicts) /\ Members(s \o t) = Members(s) \cup Members(t)
    BY <2>2, JoinedList
  <2> QED  BY <2>3, <2>4 DEF s, t
<1>4. CV!InReportOrder(S) = InOrder(A) \o InOrder(B)
  BY ConflictOperators DEF CV!InReportOrder
<1> QED  BY <1>3, <1>4

(* While the dialog is open it goes through what is left of its scope, and shows one of it. *)
LEMMA ReviewIsLeft ==
  ASSUME ConflictsInv, cvActive # CV!NoConflict
  PROVE  /\ IsList(CV!Review, CV!Conflicts)
         /\ Members(CV!Review) = Members(cvScope) \cap cvReport
         /\ CV!At \in DOMAIN CV!Review /\ CV!Review[CV!At] = cvActive
<1> DEFINE P == {n \in DOMAIN cvScope : cvScope[n] \in cvReport}
           left == Kept(cvScope, P)
<1>1. IsList(left, CV!Conflicts) /\ Members(left) = {cvScope[n] : n \in P}
  BY KeptList DEF ConflictsInv
<1>2. {cvScope[n] : n \in P} = Members(cvScope) \cap cvReport
  BY DEF Members
<1>3. cvActive \in Members(left)
  BY <1>1, <1>2 DEF ConflictsInv
<1> HIDE DEF left
<1>4. left # <<>>
  BY <1>3 DEF Members
<1>5. CV!Review = left
  BY <1>4, ConflictOperators DEF CV!Review, left
<1>6. cvActive \in Members(CV!Review)
  BY <1>3, <1>5
<1>7. \E n \in DOMAIN CV!Review : CV!Review[n] = cvActive
  BY <1>6 DEF Members
<1>8. CV!At = CHOOSE n \in DOMAIN CV!Review : CV!Review[n] = cvActive
  BY <1>6, ConflictOperators DEF CV!At
<1>9. CV!At \in DOMAIN CV!Review /\ CV!Review[CV!At] = cvActive
  BY <1>7, <1>8
<1> QED  BY <1>1, <1>2, <1>5, <1>9

(* With more than one conflict to review there is a next one, and it is another one. *)
LEMMA NextIsAnother ==
  ASSUME ConflictsInv, cvActive # CV!NoConflict, Len(CV!Review) > 1
  PROVE  CV!NextConflict \in Members(CV!Review) \ {cvActive}
<1> DEFINE review == CV!Review
           at == CV!At
<1>1. /\ review \in Seq(CV!Conflicts) /\ at \in DOMAIN review /\ review[at] = cvActive
      /\ \A m, n \in DOMAIN review : review[m] = review[n] => m = n
  BY ReviewIsLeft DEF IsList
<1>2. CV!NextConflict = IF at = 0 THEN CV!NoConflict
        ELSE IF at < Len(review) THEN review[at + 1]
        ELSE IF at > 1 THEN review[at - 1] ELSE CV!NoConflict
  BY DEF CV!NextConflict
<1>3. Len(review) > 1
  OBVIOUS
<1> HIDE DEF review, at
<1>4. DOMAIN review = 1..Len(review) /\ Len(review) \in Nat /\ at \in 1..Len(review)
  BY <1>1
<1>5. PICK n \in DOMAIN review : n # at /\ CV!NextConflict = review[n]
  <2>1. CASE at < Len(review)
    BY <1>2, <1>4, <2>1
  <2>2. CASE ~(at < Len(review))
    BY <1>2, <1>3, <1>4, <2>2
  <2> QED  BY <2>1, <2>2
<1>6. CV!NextConflict \in Members(review) /\ CV!NextConflict # cvActive
  BY <1>1, <1>5 DEF Members
<1> QED  BY <1>6 DEF review

(* A review starts with a list of conflicts of the report and one of them. *)
LEMMA BeginKeeps ==
  ASSUME ConflictsInv, NEW scope, IsList(scope, CV!Conflicts), NEW c \in Members(scope),
         Members(scope) \subseteq cvReport, CV!Begin(c, scope), UNCHANGED <<cvReport, cvRecovery>>
  PROVE  ConflictsInv'
<1>1. /\ cvActive' = c /\ cvScope' = scope /\ cvOverview' = FALSE /\ cvBegun' = Members(scope)
  BY ConflictOperators DEF CV!Begin, CV!Open
<1> QED  BY <1>1 DEF ConflictsInv

LEMMA ClosedKeeps ==
  ASSUME ConflictsInv, CV!Closed, cvReport' \subseteq CV!Conflicts, cvRecovery' \subseteq CV!Conflicts
  PROVE  ConflictsInv'
<1>1. cvActive' = CV!NoConflict /\ cvScope' = <<>>
  BY DEF CV!Closed
<1> QED  BY <1>1 DEF ConflictsInv, IsList

(* The dialog goes on to another conflict of what it walks through. *)
LEMMA OpenKeeps ==
  ASSUME ConflictsInv, cvActive # CV!NoConflict, NEW c \in Members(CV!Review), CV!Open(c, CV!Review),
         UNCHANGED <<cvRecovery, cvBegun>>, c \in cvReport', cvReport' \subseteq cvReport
  PROVE  ConflictsInv'
<1>1. cvActive' = c /\ cvScope' = CV!Review /\ cvOverview' = FALSE
  BY DEF CV!Open
<1>2. IsList(CV!Review, CV!Conflicts) /\ Members(CV!Review) = Members(cvScope) \cap cvReport
  BY ReviewIsLeft
<1> HIDE DEF CV!Review
<1> QED  BY <1>1, <1>2 DEF ConflictsInv

(* No dialog is open, and none opens. *)
LEMMA ClosedStays ==
  ASSUME ConflictsInv, cvActive = CV!NoConflict, UNCHANGED CV!dialog,
         cvReport' \subseteq CV!Conflicts, cvRecovery' \subseteq CV!Conflicts
  PROVE  ConflictsInv'
BY DEF ConflictsInv, CV!dialog

LEMMA QueuesAreLists ==
  ASSUME NEW queue \in CV!Queues, ConflictsInv
  PROVE  /\ IsList(queue, CV!Conflicts) /\ Members(queue) \subseteq cvReport
         /\ Head(queue) \in Members(queue)
<1> DEFINE matching == {c \in cvReport : CV!Matches(c, cvFilter)}
<1>1. IsFiniteSet(matching)
  <2>1. matching \subseteq CV!Conflicts
    BY DEF ConflictsInv
  <2> QED  BY <2>1, ConflictNumbers, FS_Subset
<1>2. CV!Cardinality(matching) = Cardinality(matching)
  BY DEF CV!Cardinality, Cardinality, CV!IsFiniteSet, IsFiniteSet
<1>3. PICK n \in 1..Cardinality(matching) : queue \in [1..n -> matching]
  BY <1>2 DEF CV!Queues
<1>4. \A a, b \in DOMAIN queue : queue[a] = queue[b] => a = b
  BY DEF CV!Queues, CV!IsInjective
<1>5. n \in Nat /\ n >= 1
  BY <1>1, FS_CardinalityType
<1>6. \A c \in matching : c \in cvReport /\ c \in CV!Conflicts
  BY DEF ConflictsInv
<1> HIDE DEF matching
<1>7. queue \in Seq(CV!Conflicts) /\ DOMAIN queue = 1..n
  <2>1. queue \in [1..n -> CV!Conflicts]
    BY <1>3, <1>6
  <2> QED  BY <1>5, <2>1
<1>8. Members(queue) \subseteq cvReport
  BY <1>3, <1>6 DEF Members
<1>9. Head(queue) \in Members(queue)
  <2>1. Head(queue) = queue[1] /\ 1 \in DOMAIN queue
    BY <1>5, <1>7
  <2> QED  BY <2>1 DEF Members
<1> QED  BY <1>4, <1>7, <1>8, <1>9 DEF IsList

LEMMA ConflictsStart ==
  ASSUME CV!Init PROVE ConflictsInv
BY DEF CV!Init, ConflictsInv, IsList

LEMMA ReviewInReport ==
  ASSUME ConflictsInv PROVE Members(CV!Review) \subseteq CV!Conflicts
<1> DEFINE P == {n \in DOMAIN cvScope : cvScope[n] \in cvReport}
<1>1. IsList(Kept(cvScope, P), CV!Conflicts)
  BY KeptList DEF ConflictsInv
<1>2. IsList(CV!InReportOrder(cvReport), CV!Conflicts)
  BY ReportOrderList DEF ConflictsInv
<1>3. IsList(CV!Review, CV!Conflicts)
  BY <1>1, <1>2, ConflictOperators DEF CV!Review
<1> QED  BY <1>3 DEF IsList, Members

LEMMA DialogSteps ==
  ASSUME ConflictsInv, CV!DialogActions PROVE ConflictsInv'
<1>1. CASE CV!CloseConflict
  BY <1>1, ClosedKeeps DEF CV!CloseConflict, ConflictsInv
<1>2. CASE CV!ReturnToOverview
  BY <1>2, ClosedKeeps DEF CV!ReturnToOverview, ConflictsInv
<1>3. ASSUME NEW delta \in {-1, 1}, CV!Adjacent(delta) PROVE ConflictsInv'
  <2> DEFINE c == CV!Review[CV!At + delta]
  <2>1. /\ CV!At + delta \in DOMAIN CV!Review /\ CV!Open(c, CV!Review) /\ CV!At # 0
        /\ UNCHANGED <<cvReport, cvRecovery, cvBegun>>
    BY <1>3 DEF CV!Adjacent
  <2>2. cvActive # CV!NoConflict
    <3> SUFFICES ASSUME cvActive = CV!NoConflict PROVE FALSE
      OBVIOUS
    <3>1. CV!NoConflict \in Members(CV!Review)
      BY <2>1, ConflictOperators DEF CV!At
    <3>2. Members(CV!Review) \subseteq CV!Conflicts
      BY ReviewInReport
    <3> QED  BY <3>1, <3>2, ConflictNumbers
  <2>3. c \in Members(CV!Review)
    BY <2>1 DEF Members
  <2>4. c \in cvReport
    BY <2>2, <2>3, ReviewIsLeft
  <2> HIDE DEF c
  <2> QED  BY <2>1, <2>2, <2>3, <2>4, OpenKeeps
<1>4. ASSUME NEW latest \in BOOLEAN, NEW andNext \in BOOLEAN, CV!Resolve(latest, andNext) PROVE ConflictsInv'
  <2>1. /\ cvActive # CV!NoConflict /\ cvReport' = cvReport \ {cvActive} /\ cvRecovery' = cvRecovery
        /\ CV!Leave(andNext) /\ (andNext => Len(CV!Review) > 1)
    BY <1>4 DEF CV!Resolve
  <2>2. CASE andNext
    <3>1. CV!NextConflict \in Members(CV!Review) \ {cvActive}
      BY <2>1, <2>2, NextIsAnother
    <3>2. CV!NextConflict \in cvReport /\ CV!NextConflict # CV!NoConflict
      BY <2>1, <3>1, ReviewIsLeft, ConflictNumbers DEF ConflictsInv
    <3>3. CV!Open(CV!NextConflict, CV!Review) /\ cvBegun' = cvBegun
      BY <2>1, <2>2, <3>2 DEF CV!Leave
    <3> QED  BY <2>1, <3>1, <3>2, <3>3, OpenKeeps
  <2>3. CASE ~andNext
    BY <2>1, <2>3, ClosedKeeps DEF CV!Leave, ConflictsInv
  <2> QED  BY <2>2, <2>3
<1> QED  BY <1>1, <1>2, <1>3, <1>4 DEF CV!DialogActions

LEMMA ArrivalSteps ==
  ASSUME ConflictsInv, CV!Arrivals PROVE ConflictsInv'
<1>1. PICK found \in SUBSET cvRecovery, state \in [CV!Conflicts -> {"refresh", "conflict", "merged"}] :
         CV!PageArrives(found, state)
  BY DEF CV!Arrivals
<1>2. /\ cvReport' = cvReport \ found /\ cvOverview' = (cvOverview /\ cvReport' # {}) /\ cvRecovery' = {}
      /\ IF cvActive \in found THEN CV!Closed ELSE UNCHANGED CV!dialog
  BY <1>1 DEF CV!PageArrives, CV!Leaves
<1>3. CASE cvActive \in found
  BY <1>2, <1>3, ClosedKeeps DEF ConflictsInv
<1>4. CASE cvActive \notin found
  BY <1>2, <1>4 DEF ConflictsInv, CV!dialog
<1> QED  BY <1>3, <1>4

LEMMA OverviewSteps ==
  ASSUME ConflictsInv, CV!OverviewActions \/ CV!GroupActions \/ CV!ReportActions PROVE ConflictsInv'
<1>1. CASE CV!CloseOverview
  BY <1>1 DEF CV!CloseOverview, ConflictsInv, CV!dialog
<1>2. CASE CV!ReviewQueue
  <2>1. PICK queue \in CV!Queues : CV!Begin(Head(queue), queue)
    BY <1>2 DEF CV!ReviewQueue
  <2> QED  BY <1>2, <2>1, QueuesAreLists, BeginKeeps DEF CV!ReviewQueue
<1>3. ASSUME NEW filter \in CV!Filters, CV!SetFilter(filter) PROVE ConflictsInv'
  BY <1>3 DEF CV!SetFilter, ConflictsInv, CV!dialog
<1>4. ASSUME NEW S, CV!ToggleGroups(S) PROVE ConflictsInv'
  BY <1>4 DEF CV!ToggleGroups, ConflictsInv, CV!dialog
<1>5. ASSUME NEW g \in CV!Groups, CV!ReviewGroup(g) PROVE ConflictsInv'
  <2>0. PICK queue \in CV!Queues : \E n \in DOMAIN CV!InGroup(queue, g) :
           CV!Begin(CV!InGroup(queue, g)[n], CV!InGroup(queue, g))
    BY <1>5 DEF CV!ReviewGroup
  <2>1. PICK n \in DOMAIN CV!InGroup(queue, g) : CV!Begin(CV!InGroup(queue, g)[n], CV!InGroup(queue, g))
    BY <2>0
  <2> DEFINE group == CV!InGroup(queue, g)
             P == {m \in DOMAIN queue : CV!Group(queue[m]) = g}
  <2>2. group = Kept(queue, P)
    BY ConflictOperators DEF CV!InGroup
  <2>3. IsList(queue, CV!Conflicts) /\ Members(queue) \subseteq cvReport
    BY QueuesAreLists
  <2>4. IsList(Kept(queue, P), CV!Conflicts) /\ Members(Kept(queue, P)) = {queue[m] : m \in P}
    BY <2>3, KeptList
  <2>5. Members(group) \subseteq cvReport
    BY <2>2, <2>3, <2>4 DEF Members
  <2>6. group[n] \in Members(group)
    BY <2>1 DEF Members
  <2>7. CV!Begin(group[n], group) /\ UNCHANGED <<cvReport, cvRecovery>>
    BY <1>5, <2>1 DEF CV!ReviewGroup
  <2>8. IsList(group, CV!Conflicts)
    BY <2>2, <2>4
  <2> HIDE DEF group
  <2> QED  BY <2>5, <2>6, <2>7, <2>8, BeginKeeps
<1>6. CASE CV!OpenOverview
  BY <1>6, ClosedStays DEF CV!OpenOverview, CV!Idle, ConflictsInv
<1>7. ASSUME NEW c \in CV!Conflicts, CV!ReviewReport(c) PROVE ConflictsInv'
  <2>1. IsList(CV!InReportOrder(cvReport), CV!Conflicts) /\ Members(CV!InReportOrder(cvReport)) = cvReport
    BY ReportOrderList DEF ConflictsInv
  <2> QED  BY <1>7, <2>1, BeginKeeps DEF CV!ReviewReport
<1> QED  BY <1>1, <1>2, <1>3, <1>4, <1>5, <1>6, <1>7 DEF CV!OverviewActions, CV!GroupActions, CV!ReportActions

LEMMA ConflictsStep ==
  ASSUME ConflictsInv, CV!Next PROVE ConflictsInv'
<1>1. CASE CV!ReportActions \/ CV!OverviewActions \/ CV!GroupActions
  BY <1>1, OverviewSteps
<1>2. CASE CV!DialogActions
  BY <1>2, DialogSteps
<1>3. CASE CV!ColumnChoices
  BY <1>3 DEF CV!ColumnChoices, CV!Choose, ConflictsInv, CV!overview
<1>4. ASSUME NEW S \in SUBSET cvReport, CV!MergeSafe(S) \/ CV!UseLatest(S) PROVE ConflictsInv'
  <2>1. cvOverview /\ cvReport' = cvReport \ S /\ UNCHANGED <<CV!dialog, cvRecovery>>
    BY <1>4 DEF CV!MergeSafe, CV!UseLatest, CV!Leaves
  <2>2. cvActive = CV!NoConflict
    BY <2>1 DEF ConflictsInv
  <2> QED  BY <2>1, <2>2, ClosedStays DEF ConflictsInv
<1>5. ASSUME NEW S \in SUBSET cvReport, CV!Recover(S) PROVE ConflictsInv'
  BY <1>5, ClosedStays DEF CV!Recover, ConflictsInv
<1>6. CASE CV!Arrivals
  BY <1>6, ArrivalSteps
<1>7. ASSUME NEW S \in SUBSET CV!Conflicts, CV!SaveFails(S) PROVE ConflictsInv'
  BY <1>7, ClosedStays DEF CV!SaveFails, CV!Idle, ConflictsInv
<1> QED  BY <1>1, <1>2, <1>3, <1>4, <1>5, <1>6, <1>7 DEF CV!Next, CV!QueueActions

LEMMA NextIsOfTheScope ==
  ASSUME ConflictsInv, CV!Next PROVE CV!ScopeFinished
<1>1. ASSUME cvActive # CV!NoConflict, Len(CV!Review) = 1 PROVE cvBegun \cap cvReport = {cvActive}
  <2>1. /\ DOMAIN CV!Review = {1} /\ Members(CV!Review) = Members(cvScope) \cap cvReport
        /\ CV!At \in DOMAIN CV!Review /\ CV!Review[CV!At] = cvActive
    <3>1. IsList(CV!Review, CV!Conflicts)
      BY <1>1, ReviewIsLeft
    <3>2. DOMAIN CV!Review = {1}
      BY <1>1, <3>1 DEF IsList
    <3> QED  BY <1>1, <3>2, ReviewIsLeft
  <2>2. Members(CV!Review) = {cvActive}
    BY <2>1 DEF Members
  <2> QED  BY <1>1, <2>1, <2>2 DEF ConflictsInv
<1>2. ASSUME NEW latest \in BOOLEAN, CV!Resolve(latest, TRUE) PROVE cvActive' \in cvBegun \cap cvReport'
  <2>1. /\ cvActive # CV!NoConflict /\ cvReport' = cvReport \ {cvActive}
        /\ CV!Leave(TRUE) /\ Len(CV!Review) > 1
    BY <1>2 DEF CV!Resolve
  <2>2. CV!NextConflict \in Members(CV!Review) \ {cvActive} /\ Members(CV!Review) = Members(cvScope) \cap cvReport
    BY <2>1, NextIsAnother, ReviewIsLeft
  <2>3. CV!NextConflict # CV!NoConflict
    BY <2>2, ConflictNumbers DEF ConflictsInv
  <2>4. cvActive' = CV!NextConflict
    BY <2>1, <2>3 DEF CV!Leave, CV!Open
  <2> QED  BY <2>1, <2>2, <2>4 DEF ConflictsInv
<1> QED  BY <1>1, <1>2 DEF CV!ScopeFinished

(* A conflict dialog worked through with the "& Next" buttons leaves no conflict of its scope      *)
(* behind (DataTable resolveActiveStaleConflict): the buttons are there while the scope has        *)
(* another conflict in the report, and open one.  For any conflicts, reloads and merges between.   *)
THEOREM AndNextFinishes == Spec => AndNextFinishesTheScope
<1>1. Init => (view = "conflicts" => ConflictsInv)
  BY ConflictsStart DEF Init
<1>2. (view = "conflicts" => ConflictsInv) /\ [Next]_vars => (view = "conflicts" => ConflictsInv)'
  <2> SUFFICES ASSUME view = "conflicts" => ConflictsInv, [Next]_vars, view' = "conflicts"
               PROVE  ConflictsInv'
    OBVIOUS
  <2>1. ConflictsInv /\ (CV!Next \/ UNCHANGED conflicts)
    BY OthersKeepGrids
  <2>2. CASE UNCHANGED conflicts
    BY <2>1, <2>2 DEF conflicts, ConflictsInv
  <2> QED  BY <2>1, <2>2, ConflictsStep
<1>3. (view = "conflicts" => ConflictsInv) /\ [Next]_vars => [view = "conflicts" => CV!ScopeFinished]_conflicts
  <2> SUFFICES ASSUME view = "conflicts" => ConflictsInv, [Next]_vars, view = "conflicts", ~UNCHANGED conflicts
               PROVE  CV!ScopeFinished
    OBVIOUS
  <2> QED  BY OthersKeepGrids, NextIsOfTheScope
<1> QED  BY <1>1, <1>2, <1>3, PTL DEF Spec, AndNextFinishesTheScope
-----------------------------------------------------------------------------
(* The pending changes of the grid. *)

Rows     == [k : GridKeys, v : Int, of : GridKeys]
Actions  == {"delete", "update", "insert"}
Ops      == [action : Actions, idx : Int, row : Rows, cond : Rows]
Failures == [action : Actions, idx : Int, row : Rows, cond : Rows, stale : BOOLEAN, rev : Int]

IsPage(data) == data \in Seq(Rows) /\ \A i \in DOMAIN data : data[i].of = data[i].k

(* An update is about a row whose unchanged columns are those of the row that it was made on. *)
OfItsRow(f) == f.action = "update" => GE!Shown(f.row.of) = GE!Shown(f.cond.k)

(* An insert names a draft of the list. *)
Names(f, new) ==
    f.action = "insert" => f.idx \in DOMAIN new /\ new[f.idx] = f.row.k /\ f.row.k # 0

Apart(f, g) == f.action = "insert" /\ g.action = "insert" => f.idx # g.idx

GridTypes ==
    /\ gdServer \in [GridKeys -> Int] /\ gdRev \in Int
    /\ gdMoved \in BOOLEAN /\ gdSpliced \in BOOLEAN
    /\ IsPage(gdData)
    /\ \A i \in DOMAIN gdMod : gdMod[i] \in Rows
    /\ gdNew \in Seq(DraftKeys)
    /\ gdReport \subseteq Failures /\ IsFiniteSet(gdReport) /\ gdRecovery \subseteq Failures
    /\ \A f \in gdReport : f.stale => f.action # "insert"

OnTheirRows ==
    ~gdMoved =>
        /\ \A i \in DOMAIN gdMod : i \in DOMAIN gdData /\ GE!Shown(gdMod[i].of) = GE!Shown(gdData[i].k)
        /\ \A f \in gdReport \cup gdRecovery : OfItsRow(f)

NameTheirDrafts ==
    ~gdSpliced =>
        /\ \A f \in gdReport : Names(f, gdNew)
        /\ \A f, g \in gdReport : f # g => Apart(f, g)

(* A save that runs, its requests and its failures. *)
IsSave(s) == s \in [on : {TRUE}, ops : {s.ops}, mod : {s.mod}, del : {s.del}, new : {s.new},
                    fails : {s.fails}, rev : {s.rev}, written : {s.written}]

SaveTypes(s) ==
    /\ IsSave(s)
    /\ s.ops \in Seq(Ops) /\ s.rev \in Int
    /\ s.fails \subseteq Failures /\ IsFiniteSet(s.fails)
    /\ \A f \in s.fails : f.stale => f.action # "insert"

(* What has left the copies of the pending sets was written. *)
Covered(s, mod, del, new) ==
    /\ DOMAIN s.mod \subseteq DOMAIN mod
    /\ \A i \in DOMAIN s.mod : s.mod[i] = mod[i]
    /\ \A i \in DOMAIN mod : i \in DOMAIN s.mod \/ <<"update", i>> \in s.written
    /\ \A i \in del : i \in s.del \/ <<"delete", i>> \in s.written
    /\ s.new \in [1..Len(new) -> DraftKeys \cup {0}]
    /\ \A i \in 1..Len(new) : s.new[i] = new[i] \/ (s.new[i] = 0 /\ <<"insert", i>> \in s.written)

(* The inserts that are left to send, and those that failed, are of drafts of their own. *)
InsertsApart(s) ==
    /\ \A n \in DOMAIN s.ops : Names(s.ops[n], s.new)
    /\ \A f \in s.fails : Names(f, s.new)
    /\ \A m, n \in DOMAIN s.ops : m # n => Apart(s.ops[m], s.ops[n])
    /\ \A f, g \in s.fails : f # g => Apart(f, g)
    /\ \A n \in DOMAIN s.ops, f \in s.fails : Apart(s.ops[n], f)

UpdatesOfTheirRows(s, moved) ==
    ~moved =>
        /\ \A n \in DOMAIN s.ops : OfItsRow(s.ops[n])
        /\ \A f \in s.fails : OfItsRow(f)

SaveInv ==
    gdSave.on =>
        /\ gdModal /\ gdRecovery = {} /\ ~gdSpliced
        /\ SaveTypes(gdSave) /\ Covered(gdSave, gdMod, gdDel, gdNew)
        /\ InsertsApart(gdSave) /\ UpdatesOfTheirRows(gdSave, gdMoved)

GridInv == GridTypes /\ OnTheirRows /\ NameTheirDrafts /\ SaveInv

GridOK == view = "grid" => GridInv

LEMMA GridOperators ==
  /\ \A S : GE!InOrder(S) = InOrder(S) /\ GE!Cardinality(S) = Cardinality(S)
  /\ \A list, P : GE!Kept(list, P) = Kept(list, P)
<1>1. \A S : GE!Cardinality(S) = Cardinality(S)
  BY DEF GE!Cardinality, Cardinality, GE!IsFiniteSet, IsFiniteSet
<1>2. \A x, S : GE!Rank(x, S) = Rank(x, S)
  BY <1>1 DEF GE!Rank, Rank
<1>3. \A S : GE!InOrder(S) = InOrder(S)
  BY <1>1, <1>2 DEF GE!InOrder, InOrder
<1>4. \A list, P : GE!Kept(list, P) = Kept(list, P)
  BY <1>1, <1>3 DEF GE!Kept, Kept
<1> QED  BY <1>1, <1>3, <1>4

LEMMA IsSequence ==
  ASSUME NEW S, NEW n \in Nat, NEW s \in [1..n -> S]
  PROVE  s \in Seq(S) /\ Len(s) = n
OBVIOUS

LEMMA Joined ==
  ASSUME NEW S, NEW s \in Seq(S), NEW t \in Seq(S), NEW m, NEW n, Len(s) = m, Len(t) = n
  PROVE  /\ s \o t \in Seq(S) /\ Len(s \o t) = m + n /\ DOMAIN (s \o t) = 1..(m + n)
         /\ \A i \in 1..(m + n) : (s \o t)[i] = IF i <= m THEN s[i] ELSE t[i - m]
OBVIOUS

LEMMA FiniteImage ==
  ASSUME NEW S, IsFiniteSet(S), NEW f, DOMAIN f = S
  PROVE  IsFiniteSet({f[x] : x \in S})
<1> DEFINE T == {f[x] : x \in S}
           g == [x \in S |-> f[x]]
<1>1. g \in Surjection(S, T)
  BY DEF Surjection
<1> HIDE DEF T, g
<1>2. IsFiniteSet(T)
  BY <1>1, FS_Surjection
<1> QED  BY <1>2 DEF T

(* A finite set of numbers has a largest one. *)
LEMMA Largest ==
  ASSUME NEW S, S \subseteq Int, IsFiniteSet(S), S # {}
  PROVE  \E x \in S : \A y \in S : y <= x
<1> DEFINE N == Cardinality(S)
<1>1. N \in Nat /\ N # 0
  BY FS_CardinalityType, FS_EmptySet
<1>2. PICK x \in S : Rank(x, S) = N
  <2>1. N \in 1..N
    BY <1>1
  <2> QED  BY <2>1, RankOnto
<1> DEFINE Upto == {y \in S : y <= x}
<1>3. Cardinality(Upto) = Cardinality(S)
  BY <1>2 DEF Rank
<1>4. Upto \in SUBSET S
  OBVIOUS
<1>5. Upto = S
  <2> HIDE DEF Upto
  <2> QED  BY <1>3, <1>4, FS_Subset
<1> QED  BY <1>5

(* And a smallest one. *)
LEMMA Smallest ==
  ASSUME NEW S, S \subseteq Int, IsFiniteSet(S), S # {}
  PROVE  \E x \in S : \A y \in S : x <= y
<1> DEFINE g == [x \in S |-> -x]
           T == {g[x] : x \in S}
<1>1. IsFiniteSet(T)
  <2>1. DOMAIN g = S
    OBVIOUS
  <2> HIDE DEF g
  <2> QED  BY <2>1, FiniteImage
<1>2. T \subseteq Int /\ T # {}
  <2>1. \A x \in S : g[x] \in Int
    OBVIOUS
  <2> HIDE DEF g
  <2> QED  BY <2>1
<1>3. PICK t \in T : \A u \in T : u <= t
  <2> HIDE DEF T
  <2> QED  BY <1>1, <1>2, Largest
<1>4. PICK x \in S : t = g[x]
  OBVIOUS
<1>5. ASSUME NEW y \in S PROVE x <= y
  <2>1. g[y] <= g[x]
    <3> HIDE DEF g
    <3> QED  BY <1>3, <1>4
  <2>2. g[y] = -y /\ g[x] = -x /\ x \in Int /\ y \in Int
    OBVIOUS
  <2> QED  BY <2>1, <2>2
<1> QED  BY <1>4, <1>5

LEMMA PageIsPage ==
  ASSUME NEW server \in [GridKeys -> Int]
  PROVE  IsPage(GE!Page(server))
<1> DEFINE K == {k \in GridKeys : server[k] # 0}
           keys == InOrder(K)
           N == Cardinality(K)
<1>1. K \subseteq Int /\ IsFiniteSet(K)
  BY GridAssumption, FS_Subset
<1>2. keys \in [1..N -> K] /\ N \in Nat
  BY <1>1, Ordered, FS_CardinalityType
<1>3. GE!Page(server) = [i \in DOMAIN keys |-> [k |-> keys[i], v |-> server[keys[i]], of |-> keys[i]]]
  BY GridOperators DEF GE!Page
<1>4. \A i \in 1..N : keys[i] \in GridKeys
  BY <1>2
<1> DEFINE p == GE!Page(server)
<1> HIDE DEF K, keys, N, p
<1>5. p = [i \in 1..N |-> [k |-> keys[i], v |-> server[keys[i]], of |-> keys[i]]]
  BY <1>2, <1>3 DEF p
<1>6. p \in [1..N -> Rows]
  BY <1>4, <1>5 DEF Rows
<1>7. p \in Seq(Rows) /\ DOMAIN p = 1..N
  BY <1>2, <1>6
<1> QED  BY <1>5, <1>7 DEF IsPage, p

(* The row that is found for a change is one of the page, with the key of its condition. *)
LEMMA LocatedRow ==
  ASSUME NEW data, IsPage(data), NEW f, GE!Located(data, f) # 0
  PROVE  GE!Located(data, f) \in DOMAIN data /\ GE!Shown(data[GE!Located(data, f)].k) = GE!Shown(f.cond.k)
<1> DEFINE alike == {i \in DOMAIN data : GE!Shown(data[i].k) = GE!Shown(f.cond.k)}
           exact == {i \in alike : gdPk \/ data[i].v = f.cond.v}
           at    == IF exact = {} /\ ~gdPk /\ f.action = "update" /\ GE!Cardinality(alike) = 1 THEN alike ELSE exact
<1>1. GE!Located(data, f) = IF at = {} THEN 0 ELSE CHOOSE i \in at : \A j \in at : i <= j
  BY DEF GE!Located
<1>2. at \subseteq alike /\ alike \subseteq DOMAIN data
  OBVIOUS
<1>3. DOMAIN data \subseteq Int /\ IsFiniteSet(DOMAIN data)
  <2>1. DOMAIN data = 1..Len(data) /\ Len(data) \in Nat
    BY DEF IsPage
  <2> QED  BY <2>1, FS_Interval
<1> HIDE DEF at
<1>4. at # {}
  BY <1>1
<1>5. \E i \in at : \A j \in at : i <= j
  <2>1. at \subseteq Int /\ IsFiniteSet(at)
    BY <1>2, <1>3, FS_Subset
  <2> QED  BY <1>4, <2>1, Smallest
<1>6. GE!Located(data, f) \in at
  BY <1>1, <1>4, <1>5
<1> QED  BY <1>2, <1>6

LEMMA ResolvedRow ==
  ASSUME NEW data, IsPage(data), NEW f \in Failures, NEW keep, GE!Located(data, f) # 0
  PROVE  GE!Resolved(data, f, keep) \in Rows /\ GE!Resolved(data, f, keep).of = f.row.of
<1>1. data[GE!Located(data, f)] \in Rows
  BY LocatedRow DEF IsPage
<1>2. f.row.v \in Int /\ f.row.of \in GridKeys
  BY DEF Failures, Rows
<1> DEFINE row == data[GE!Located(data, f)]
<1>3. GE!Resolved(data, f, keep) = [row EXCEPT !.v = IF keep THEN f.row.v ELSE row.v, !.of = f.row.of]
  BY DEF GE!Resolved
<1> HIDE DEF row
<1> QED  BY <1>1, <1>2, <1>3 DEF Rows, row

(* One of the changes S was found at i, and the row is the one that it is about. *)
FoundAt(data, S, i, row) == \E f \in S : GE!Located(data, f) = i /\ row.of = f.row.of

(* A resolved conflict leaves an edit on the row found for it, and the other edits where they are. *)
LEMMA RebasedRows ==
  ASSUME NEW data, IsPage(data), NEW mod, \A i \in DOMAIN mod : mod[i] \in Rows,
         NEW S \in SUBSET Failures, IsFiniteSet(S), \A f \in S : GE!Located(data, f) # 0,
         NEW keep
  PROVE  LET r == GE!Rebased(mod, data, S, keep)
         IN  \A i \in DOMAIN r :
                /\ r[i] \in Rows
                /\ \/ i \in DOMAIN mod /\ r[i] = mod[i]
                   \/ FoundAt(data, S, i, r[i])
<1> DEFINE r == GE!Rebased(mod, data, S, keep)
           about(j) == {f \in S : j \in {f.idx, GE!Located(data, f)}}
           last(j)  == CHOOSE f \in about(j) : \A g \in about(j) : g.idx <= f.idx
           edited(j) == IF about(j) = {} THEN j \in DOMAIN mod
                        ELSE GE!Located(data, last(j)) = j /\ ~GE!Same(GE!Resolved(data, last(j), keep), data[j])
           D == {j \in DOMAIN mod \cup {GE!Located(data, f) : f \in S} : edited(j)}
<1> SUFFICES ASSUME NEW i \in DOMAIN r
             PROVE  /\ r[i] \in Rows
                    /\ \/ i \in DOMAIN mod /\ r[i] = mod[i]
                       \/ FoundAt(data, S, i, r[i])
  OBVIOUS
<1>1. r = [j \in D |-> IF about(j) = {} THEN mod[j] ELSE GE!Resolved(data, last(j), keep)]
  BY DEF GE!Rebased
<1>2. i \in D /\ r[i] = IF about(i) = {} THEN mod[i] ELSE GE!Resolved(data, last(i), keep)
  <2> HIDE DEF D
  <2> QED  BY <1>1
<1>3. CASE about(i) = {}
  <2>1. i \in DOMAIN mod /\ r[i] = mod[i]
    BY <1>2, <1>3
  <2> QED  BY <2>1
<1>4. CASE about(i) # {}
  <2> DEFINE A == about(i)
             idxs == {f.idx : f \in A}
  <2>1. IsFiniteSet(A) /\ A \subseteq S
    BY FS_Subset
  <2>2. IsFiniteSet(idxs)
    <3> DEFINE g == [f \in A |-> f.idx]
    <3>1. idxs = {g[f] : f \in A}
      OBVIOUS
    <3>2. IsFiniteSet({g[f] : f \in A})
      <4>1. DOMAIN g = A
        OBVIOUS
      <4> HIDE DEF g, A
      <4> QED  BY <2>1, <4>1, FiniteImage
    <3> QED  BY <3>1, <3>2
  <2>3. idxs \subseteq Int /\ idxs # {}
    <3>1. \A f \in A : f.idx \in Int
      BY <2>1 DEF Failures
    <3> QED  BY <1>4, <3>1
  <2> HIDE DEF A
  <2>4. PICK x \in idxs : \A y \in idxs : y <= x
    BY <2>2, <2>3, Largest
  <2>5. \E f \in A : \A g \in A : g.idx <= f.idx
    BY <2>4
  <2>6. last(i) \in A
    <3>1. last(i) = CHOOSE f \in A : \A g \in A : g.idx <= f.idx
      BY DEF A
    <3> HIDE DEF last
    <3> QED  BY <2>5, <3>1
  <2> DEFINE f0 == last(i)
  <2>7. f0 \in S /\ f0 \in Failures
    BY <2>1, <2>6
  <2>8. GE!Located(data, f0) = i
    <3>1. edited(i)
      BY <1>2
    <3> QED  BY <1>4, <3>1
  <2>9. r[i] = GE!Resolved(data, f0, keep)
    BY <1>2, <1>4
  <2> HIDE DEF last, r, f0
  <2> QED  BY <2>7, <2>8, <2>9, ResolvedRow DEF r, FoundAt
<1> QED  BY <1>3, <1>4

-----------------------------------------------------------------------------
(* The user edits. *)

LEMMA GridStart ==
  ASSUME GE!Init PROVE GridInv
<1>1. gdServer \in [GridKeys -> Int]
  BY DEF GE!Init
<1>2. IsPage(gdData)
  BY <1>1, PageIsPage DEF GE!Init
<1>3. GridTypes
  <2>1. gdNew \in Seq(DraftKeys) /\ DOMAIN gdMod = {} /\ IsFiniteSet(gdReport)
    BY FS_EmptySet DEF GE!Init
  <2>2. gdRev = 0 /\ gdMoved = FALSE /\ gdSpliced = FALSE /\ gdReport = {} /\ gdRecovery = {}
    BY DEF GE!Init
  <2>3. \A i \in DOMAIN gdMod : gdMod[i] \in Rows
    BY <2>1
  <2>4. gdReport \subseteq Failures /\ gdRecovery \subseteq Failures /\ \A f \in gdReport : f.stale => f.action # "insert"
    BY <2>2
  <2>5. gdRev \in Int
    BY <2>2
  <2>6. gdMoved \in BOOLEAN /\ gdSpliced \in BOOLEAN
    BY <2>2, Zenon
  <2> QED  BY <1>1, <1>2, <2>1, <2>3, <2>4, <2>5, <2>6 DEF GridTypes
<1>4. OnTheirRows /\ NameTheirDrafts
  BY DEF GE!Init, OnTheirRows, NameTheirDrafts, OfItsRow, GE!Shown
<1>5. ~gdSave.on
  BY DEF GE!Init, GE!NoSave
<1> QED  BY <1>3, <1>4, <1>5 DEF GridInv, SaveInv

LEMMA NoSaveWhileEditing ==
  ASSUME GridInv, ~gdModal PROVE ~gdSave.on
BY DEF GridInv, SaveInv

LEMMA CellSteps ==
  ASSUME GridInv, NEW i \in DOMAIN gdData, NEW v \in GE!Values, GE!EditCell(i, v)
  PROVE  GridInv'
<1> DEFINE row  == IF i \in DOMAIN gdMod THEN gdMod[i] ELSE gdData[i]
           row2 == [row EXCEPT !.v = v]
<1>1. /\ gdMod' = IF GE!Same(gdData[i], row2) THEN GE!WithoutRow(gdMod, i) ELSE GE!WithRow(gdMod, i, row2)
      /\ UNCHANGED <<GE!page, gdNew, GE!dialog, gdSpliced, gdMoved>> /\ ~gdModal
  BY DEF GE!EditCell, GE!UserEdits
<1>2. row \in Rows /\ row2 \in Rows /\ row2.of = row.of
  <2>1. row \in Rows
    BY DEF GridInv, GridTypes, IsPage
  <2>2. v \in Int
    BY DEF GE!Values
  <2> HIDE DEF row
  <2> QED  BY <2>1, <2>2 DEF Rows
<1>3. ~gdMoved => GE!Shown(row.of) = GE!Shown(gdData[i].k)
  BY DEF GridInv, OnTheirRows, GridTypes, IsPage, OfItsRow, GE!Shown
<1> HIDE DEF row, row2
<1>4. \A j \in DOMAIN gdMod' : (j \in DOMAIN gdMod /\ gdMod'[j] = gdMod[j]) \/ (j = i /\ gdMod'[j] = row2)
  <2>1. CASE GE!Same(gdData[i], row2)
    BY <1>1, <2>1 DEF GE!WithoutRow, GE!Restrict
  <2>2. CASE ~GE!Same(gdData[i], row2)
    BY <1>1, <2>2 DEF GE!WithRow
  <2> QED  BY <2>1, <2>2
<1>5. GridTypes'
  BY <1>1, <1>2, <1>4 DEF GridInv, GridTypes, GE!page, GE!dialog
<1>6. OnTheirRows'
  BY <1>1, <1>2, <1>3, <1>4 DEF GridInv, OnTheirRows, GE!page, GE!dialog, OfItsRow, GE!Shown
<1>7. NameTheirDrafts'
  BY <1>1 DEF GridInv, NameTheirDrafts, GE!dialog
<1>8. ~gdSave'.on
  BY <1>1, NoSaveWhileEditing DEF GE!dialog
<1> QED  BY <1>5, <1>6, <1>7, <1>8 DEF GridInv, SaveInv

LEMMA OtherEditSteps ==
  ASSUME GridInv, \/ \E k \in DraftKeys : GE!AddDraft(k)
                  \/ \E i \in DOMAIN gdNew : GE!DeleteDraft(i)
                  \/ \E i \in DOMAIN gdData : GE!DeleteRow(i)
  PROVE  GridInv'
<1>1. ASSUME NEW k \in DraftKeys, GE!AddDraft(k) PROVE GridInv'
  <2>1. gdNew' = Append(gdNew, k) /\ UNCHANGED <<GE!page, gdMod, gdDel, GE!dialog, gdSpliced, gdMoved>> /\ ~gdModal
    BY <1>1 DEF GE!AddDraft, GE!UserEdits
  <2>2. gdNew' \in Seq(DraftKeys) /\ \A i \in DOMAIN gdNew : i \in DOMAIN gdNew' /\ gdNew'[i] = gdNew[i]
    BY <2>1 DEF GridInv, GridTypes
  <2>3. GridTypes' /\ OnTheirRows'
    BY <2>1, <2>2 DEF GridInv, GridTypes, OnTheirRows, GE!page, GE!dialog, OfItsRow, GE!Shown
  <2>4. NameTheirDrafts'
    BY <2>1, <2>2 DEF GridInv, NameTheirDrafts, Names, GE!dialog
  <2>5. ~gdSave'.on
    BY <2>1, NoSaveWhileEditing DEF GE!dialog
  <2> QED  BY <2>3, <2>4, <2>5 DEF GridInv, SaveInv
<1>2. ASSUME NEW i \in DOMAIN gdNew, GE!DeleteDraft(i) PROVE GridInv'
  <2>1. /\ gdNew' = SubSeq(gdNew, 1, i - 1) \o SubSeq(gdNew, i + 1, Len(gdNew)) /\ gdSpliced' = TRUE
        /\ UNCHANGED <<GE!page, gdMod, gdDel, GE!dialog, gdMoved>> /\ ~gdModal
    BY <1>2 DEF GE!DeleteDraft, GE!UserEdits, GE!RemoveAt
  <2>2. gdNew' \in Seq(DraftKeys)
    <3>1. gdNew \in Seq(DraftKeys) /\ DOMAIN gdNew = 1..Len(gdNew) /\ Len(gdNew) \in Nat
      BY DEF GridInv, GridTypes
    <3>2. SubSeq(gdNew, 1, i - 1) \in Seq(DraftKeys) /\ SubSeq(gdNew, i + 1, Len(gdNew)) \in Seq(DraftKeys)
      BY <3>1
    <3> QED  BY <2>1, <3>2
  <2>3. GridTypes' /\ OnTheirRows'
    BY <2>1, <2>2 DEF GridInv, GridTypes, OnTheirRows, GE!page, GE!dialog, OfItsRow, GE!Shown
  <2>4. NameTheirDrafts'
    BY <2>1 DEF NameTheirDrafts
  <2>5. ~gdSave'.on
    BY <2>1, NoSaveWhileEditing DEF GE!dialog
  <2> QED  BY <2>3, <2>4, <2>5 DEF GridInv, SaveInv
<1>3. ASSUME NEW i \in DOMAIN gdData, GE!DeleteRow(i) PROVE GridInv'
  <2>1. UNCHANGED <<GE!page, gdMod, gdNew, GE!dialog, gdSpliced, gdMoved>> /\ ~gdModal
    BY <1>3 DEF GE!DeleteRow, GE!UserEdits
  <2>2. GridTypes' /\ OnTheirRows' /\ NameTheirDrafts'
    BY <2>1 DEF GridInv, GridTypes, OnTheirRows, NameTheirDrafts, GE!page, GE!dialog, OfItsRow, GE!Shown
  <2>3. ~gdSave'.on
    BY <2>1, NoSaveWhileEditing DEF GE!dialog
  <2> QED  BY <2>2, <2>3 DEF GridInv, SaveInv
<1> QED  BY <1>1, <1>2, <1>3

(* The steps that change no pending change, no report and no page: the review closes, the parent *)
(* loads, a load fails, other sessions write.                                                    *)
LEMMA QuietSteps ==
  ASSUME GridInv, UNCHANGED <<gdPk, gdData, gdRev, gdMod, gdDel, gdNew, gdSave, gdSpliced, gdMoved>>,
         gdServer' \in [GridKeys -> Int], gdReport' \in {gdReport, {}}, gdRecovery' \in {gdRecovery, {}},
         gdModal' = gdModal \/ ~gdSave.on
  PROVE  GridInv'
<1>1. GridTypes'
  BY FS_EmptySet DEF GridInv, GridTypes
<1>2. OnTheirRows'
  BY DEF GridInv, OnTheirRows, OfItsRow, GE!Shown
<1>3. NameTheirDrafts'
  BY DEF GridInv, NameTheirDrafts
<1>4. SaveInv'
  BY DEF GridInv, SaveInv, SaveTypes, Covered, InsertsApart, UpdatesOfTheirRows, OfItsRow, GE!Shown
<1> QED  BY <1>1, <1>2, <1>3, <1>4 DEF GridInv

-----------------------------------------------------------------------------
(* The save. *)

(* The pending changes are of rows that the page has. *)
LEMMA PlacesAreFinite ==
  ASSUME GridTypes, ~GE!Crashed
  PROVE  /\ gdDel \subseteq DOMAIN gdData /\ DOMAIN gdMod \subseteq DOMAIN gdData
         /\ \A P \in SUBSET (DOMAIN gdData) : P \subseteq Int /\ IsFiniteSet(P)
<1>1. DOMAIN gdData = 1..Len(gdData) /\ Len(gdData) \in Nat
  BY DEF GridTypes, IsPage
<1>2. IsFiniteSet(DOMAIN gdData) /\ DOMAIN gdData \subseteq Int
  BY <1>1, FS_Interval
<1>3. \A P \in SUBSET (DOMAIN gdData) : IsFiniteSet(P)
  BY <1>2, FS_Subset
<1> QED  BY <1>2, <1>3 DEF GE!Crashed

(* What is sent: operations on rows of the page, each insert of a draft of its own. *)
LEMMA PreviewsAreOps ==
  ASSUME GridTypes, OnTheirRows, ~GE!Crashed
  PROVE  /\ GE!Previews \in Seq(Ops)
         /\ \A n \in DOMAIN GE!Previews : Names(GE!Previews[n], gdNew)
         /\ \A m, n \in DOMAIN GE!Previews : m # n => Apart(GE!Previews[m], GE!Previews[n])
         /\ ~gdMoved => \A n \in DOMAIN GE!Previews : OfItsRow(GE!Previews[n])
<1> DEFINE del  == InOrder(gdDel)
           D    == {i \in DOMAIN gdMod \ gdDel : ~GE!Same(gdMod[i], gdData[i])}
           upd  == InOrder(D)
           row(k) == [k |-> k, v |-> 1, of |-> k]
           nd == Cardinality(gdDel)
           nu == Cardinality(D)
<1>1. gdDel \subseteq Int /\ IsFiniteSet(gdDel) /\ D \subseteq Int /\ IsFiniteSet(D)
  BY PlacesAreFinite
<1>2. /\ del \in [1..nd -> gdDel] /\ nd \in Nat
      /\ upd \in [1..nu -> D] /\ nu \in Nat
  BY <1>1, Ordered, FS_CardinalityType
<1>3. \A n \in 1..nd : del[n] \in DOMAIN gdData /\ del[n] \in Int
  BY <1>1, <1>2, PlacesAreFinite
<1>4. \A n \in 1..nu : upd[n] \in DOMAIN gdData /\ upd[n] \in DOMAIN gdMod /\ upd[n] \in Int
  BY <1>1, <1>2, PlacesAreFinite
<1>5. \A i \in DOMAIN gdData : gdData[i] \in Rows
  BY DEF GridTypes, IsPage
<1>6. \A i \in DOMAIN gdMod : gdMod[i] \in Rows
  BY DEF GridTypes
<1>7. \A n \in 1..Len(gdNew) : gdNew[n] \in DraftKeys /\ row(gdNew[n]) \in Rows
  <2>1. \A k \in DraftKeys : row(k) \in Rows
    BY GridAssumption DEF Rows
  <2> QED  BY <2>1 DEF GridTypes
<1>8. GE!Deletes = [n \in DOMAIN del |-> [action |-> "delete", idx |-> del[n], row |-> gdData[del[n]], cond |-> gdData[del[n]]]]
  BY GridOperators DEF GE!Deletes
<1>9. GE!Updates = [n \in DOMAIN upd |-> [action |-> "update", idx |-> upd[n], row |-> gdMod[upd[n]], cond |-> gdData[upd[n]]]]
  BY GridOperators DEF GE!Updates
<1>10. /\ GE!Inserts = [n \in DOMAIN gdNew |-> [action |-> "insert", idx |-> n, row |-> row(gdNew[n]), cond |-> row(gdNew[n])]]
       /\ DOMAIN gdNew = 1..Len(gdNew) /\ Len(gdNew) \in Nat
  BY DEF GE!Inserts, GridTypes
<1>11. \A n \in 1..Len(gdNew) : row(gdNew[n]).k = gdNew[n]
  OBVIOUS
<1> HIDE DEF del, upd, D, nd, nu, row
<1> DEFINE A == GE!Deletes
           B == GE!Updates
           C == GE!Inserts
<1>12. A \in [1..nd -> Ops] /\ \A n \in 1..nd : A[n].action = "delete"
  BY <1>2, <1>3, <1>5, <1>8 DEF Ops, Actions
<1>13. /\ B \in [1..nu -> Ops]
       /\ \A n \in 1..nu : B[n].action = "update" /\ B[n].row = gdMod[upd[n]] /\ B[n].cond = gdData[upd[n]]
  BY <1>2, <1>4, <1>5, <1>6, <1>9 DEF Ops, Actions
<1>14. /\ C \in [1..Len(gdNew) -> Ops]
       /\ \A n \in 1..Len(gdNew) : C[n].action = "insert" /\ C[n].idx = n /\ C[n].row.k = gdNew[n]
  BY <1>7, <1>10, <1>11 DEF Ops, Actions
<1> HIDE DEF A, B, C
<1>15. A \in Seq(Ops) /\ Len(A) = nd /\ B \in Seq(Ops) /\ Len(B) = nu /\ C \in Seq(Ops) /\ Len(C) = Len(gdNew)
  <2>1. A \in Seq(Ops) /\ Len(A) = nd
    BY <1>2, <1>12, IsSequence
  <2>2. B \in Seq(Ops) /\ Len(B) = nu
    BY <1>2, <1>13, IsSequence
  <2>3. C \in Seq(Ops) /\ Len(C) = Len(gdNew)
    BY <1>10, <1>14, IsSequence
  <2> QED  BY <2>1, <2>2, <2>3
<1> DEFINE P == A \o B \o C
<1>16. /\ P \in Seq(Ops) /\ DOMAIN P = 1..(nd + nu + Len(gdNew))
       /\ \A n \in DOMAIN P : P[n] = IF n <= nd THEN A[n] ELSE IF n <= nd + nu THEN B[n - nd] ELSE C[n - (nd + nu)]
  <2>1. /\ A \o B \in Seq(Ops) /\ Len(A \o B) = nd + nu
        /\ \A n \in 1..(nd + nu) : (A \o B)[n] = IF n <= nd THEN A[n] ELSE B[n - nd]
    BY <1>15, Joined
  <2> DEFINE Q == A \o B
  <2> HIDE DEF Q
  <2>2. /\ Q \o C \in Seq(Ops) /\ DOMAIN (Q \o C) = 1..(nd + nu + Len(gdNew))
        /\ \A n \in 1..(nd + nu + Len(gdNew)) : (Q \o C)[n] = IF n <= nd + nu THEN Q[n] ELSE C[n - (nd + nu)]
    <3>1. Q \in Seq(Ops) /\ Len(Q) = nd + nu
      BY <2>1 DEF Q
    <3> QED  BY <1>15, <3>1, Joined
  <2>3. \A n \in 1..(nd + nu + Len(gdNew)) : n <= nd => n <= nd + nu
    BY <1>2, <1>10
  <2>4. \A n \in 1..(nd + nu + Len(gdNew)) : n <= nd + nu => n \in 1..(nd + nu)
    BY <1>2, <1>10
  <2> QED  BY <2>1, <2>2, <2>3, <2>4 DEF Q
<1> HIDE DEF P
<1>17. ASSUME NEW n \in DOMAIN P
       PROVE  \/ P[n].action = "delete"
              \/ \E m \in 1..nu : P[n] = B[m]
              \/ \E m \in 1..Len(gdNew) : m = n - (nd + nu) /\ P[n] = C[m]
  <2>1. n \in Int /\ 1 <= n /\ n <= nd + nu + Len(gdNew)
    BY <1>2, <1>10, <1>16
  <2>2. CASE n <= nd
    <3>1. n \in 1..nd
      BY <2>1, <2>2, <1>2
    <3> QED  BY <1>12, <1>16, <2>2, <3>1
  <2>3. CASE ~(n <= nd) /\ n <= nd + nu
    <3>1. n - nd \in 1..nu
      BY <1>2, <2>1, <2>3
    <3> QED  BY <1>16, <2>3, <3>1
  <2>4. CASE ~(n <= nd) /\ ~(n <= nd + nu)
    <3>1. n - (nd + nu) \in 1..Len(gdNew)
      BY <1>2, <1>10, <2>1, <2>4
    <3> QED  BY <1>16, <2>4, <3>1
  <2> QED  BY <2>2, <2>3, <2>4
<1>18. ASSUME NEW n \in DOMAIN P, P[n].action = "insert"
       PROVE  P[n].idx = n - (nd + nu) /\ P[n].idx \in DOMAIN gdNew /\ gdNew[P[n].idx] = P[n].row.k /\ P[n].row.k # 0
  <2>1. PICK m \in 1..Len(gdNew) : m = n - (nd + nu) /\ P[n] = C[m]
    BY <1>13, <1>17, <1>18
  <2> QED  BY <1>7, <1>10, <1>14, <2>1, GridAssumption
<1>19. \A n \in DOMAIN P : Names(P[n], gdNew)
  BY <1>18 DEF Names
<1>20. \A m, n \in DOMAIN P : m # n => Apart(P[m], P[n])
  <2>1. \A m, n \in DOMAIN P : m # n => m - (nd + nu) # n - (nd + nu)
    BY <1>2, <1>16
  <2> QED  BY <1>18, <2>1 DEF Apart
<1>21. ASSUME ~gdMoved, NEW n \in DOMAIN P PROVE OfItsRow(P[n])
  <2>1. ASSUME P[n].action = "update" PROVE GE!Shown(P[n].row.of) = GE!Shown(P[n].cond.k)
    <3>1. PICK m \in 1..nu : P[n] = B[m]
      BY <1>14, <1>17, <2>1
    <3> QED  BY <1>4, <1>13, <1>21, <3>1 DEF OnTheirRows, OfItsRow, GE!Shown
  <2> QED  BY <2>1 DEF OfItsRow
<1>22. GE!Previews = P
  BY DEF GE!Previews, P, A, B, C
<1> QED  BY <1>16, <1>19, <1>20, <1>21, <1>22

LEMMA ReviewSteps ==
  ASSUME GridInv, GE!RequestReview \/ GE!CloseReview PROVE GridInv'
<1>1. CASE GE!CloseReview
  BY <1>1, QuietSteps DEF GE!CloseReview, GE!page, GE!pending, GE!ghosts, GridInv, GridTypes
<1>2. CASE GE!RequestReview
  <2>1. /\ UNCHANGED <<gdServer, gdPk, gdData, gdRev, gdMod, gdDel, gdNew, gdSave, gdRecovery, gdMoved>>
        /\ gdReport' = {} /\ gdSpliced' = FALSE /\ ~gdModal
    BY <1>2 DEF GE!RequestReview, GE!page, GE!pending
  <2>2. GridTypes'
    <3>1. gdSpliced' \in BOOLEAN
      BY <2>1, Zenon
    <3>2. IsFiniteSet(gdReport')
      BY <2>1, FS_EmptySet
    <3>3. gdReport' \subseteq Failures /\ \A f \in gdReport' : f.stale => f.action # "insert"
      BY <2>1
    <3> QED  BY <2>1, <3>1, <3>2, <3>3 DEF GridInv, GridTypes
  <2>3. OnTheirRows' /\ NameTheirDrafts'
    BY <2>1 DEF GridInv, OnTheirRows, NameTheirDrafts, OfItsRow, GE!Shown
  <2>4. ~gdSave'.on
    BY <2>1, NoSaveWhileEditing
  <2> QED  BY <2>2, <2>3, <2>4 DEF GridInv, SaveInv
<1> QED  BY <1>1, <1>2

LEMMA ConfirmStep ==
  ASSUME GridInv, ~GE!Crashed, GE!ConfirmSave PROVE GridInv'
<1> DEFINE s == [on |-> TRUE, ops |-> GE!Previews, mod |-> gdMod, del |-> gdDel, new |-> gdNew,
                 fails |-> {}, rev |-> gdRev, written |-> {}]
<1>1. /\ UNCHANGED <<gdServer, gdPk, gdData, gdRev, gdMod, gdDel, gdNew, gdModal, gdRecovery, gdMoved>>
      /\ gdReport' = {} /\ gdSpliced' = FALSE /\ gdModal /\ gdRecovery = {} /\ gdSave' = s
  BY DEF GE!ConfirmSave, GE!page, GE!pending
<1>2. GridTypes'
  <2>1. gdSpliced' \in BOOLEAN
    BY <1>1, Zenon
  <2>2. IsFiniteSet(gdReport')
    BY <1>1, FS_EmptySet
  <2>3. gdReport' \subseteq Failures /\ \A f \in gdReport' : f.stale => f.action # "insert"
    BY <1>1
  <2> QED  BY <1>1, <2>1, <2>2, <2>3 DEF GridInv, GridTypes
<1>3. OnTheirRows' /\ NameTheirDrafts'
  BY <1>1 DEF GridInv, OnTheirRows, NameTheirDrafts, OfItsRow, GE!Shown
<1>4. /\ GE!Previews \in Seq(Ops)
      /\ \A n \in DOMAIN GE!Previews : Names(GE!Previews[n], gdNew)
      /\ \A m, n \in DOMAIN GE!Previews : m # n => Apart(GE!Previews[m], GE!Previews[n])
      /\ ~gdMoved => \A n \in DOMAIN GE!Previews : OfItsRow(GE!Previews[n])
  BY PreviewsAreOps DEF GridInv
<1>5. /\ s.ops = GE!Previews /\ s.mod = gdMod /\ s.del = gdDel /\ s.new = gdNew /\ s.fails = {}
      /\ s.rev = gdRev /\ s.written = {} /\ s.on = TRUE
      /\ IsSave(s)
  BY DEF IsSave
<1> HIDE DEF s
<1>6. SaveTypes(s)
  BY <1>4, <1>5, FS_EmptySet DEF SaveTypes, GridInv, GridTypes
<1>7. InsertsApart(s) /\ UpdatesOfTheirRows(s, gdMoved)
  BY <1>4, <1>5 DEF InsertsApart, UpdatesOfTheirRows, OfItsRow, GE!Shown
<1>8. Covered(s, gdMod, gdDel, gdNew)
  <2>1. gdNew \in [1..Len(gdNew) -> DraftKeys \cup {0}]
    <3>1. gdNew \in Seq(DraftKeys)
      BY DEF GridInv, GridTypes
    <3>2. gdNew \in [1..Len(gdNew) -> DraftKeys]
      BY <3>1
    <3> QED  BY <3>2
  <2> QED  BY <1>5, <2>1 DEF Covered
<1>9. SaveInv'
  <2>1. UpdatesOfTheirRows(gdSave, gdMoved)'
    BY <1>1, <1>7 DEF UpdatesOfTheirRows, OfItsRow, GE!Shown
  <2> QED  BY <1>1, <1>6, <1>7, <1>8, <2>1 DEF SaveInv
<1> QED  BY <1>2, <1>3, <1>9 DEF GridInv

(* A request of the save is answered. *)
LEMMA SaveStep ==
  ASSUME GridInv, GE!SaveNext PROVE GridInv' /\ gdSave'.on
<1> DEFINE s   == gdSave
           op  == Head(s.ops)
           ops == Tail(s.ops)
           ok  == [GE!Saved(op) EXCEPT !.written = @ \cup {<<op.action, op.idx>>}]
<1>1. /\ s.on /\ s.ops # <<>>
      /\ UNCHANGED <<gdPk, gdData, gdRev, gdMod, gdDel, gdNew, gdModal, gdReport, gdRecovery, gdSpliced, gdMoved>>
      /\ (gdServer' = gdServer \/ gdServer' \in GE!Written(op))
      /\ \/ gdSave' = ok
         \/ gdSave' = [GE!NotSaved(op, FALSE) EXCEPT !.written = @ \cup {<<op.action, op.idx>>}]
         \/ gdSave' = GE!NotSaved(op, op.action # "insert" /\ ~GE!Hits(op))
  BY DEF GE!SaveNext, GE!pending, GE!ghosts
<1>2. SaveTypes(s) /\ Covered(s, gdMod, gdDel, gdNew) /\ InsertsApart(s) /\ UpdatesOfTheirRows(s, gdMoved)
  BY <1>1 DEF GridInv, SaveInv
<1>3. /\ op = s.ops[1] /\ 1 \in DOMAIN s.ops /\ op \in Ops /\ ops \in Seq(Ops)
      /\ \A n \in DOMAIN ops : n + 1 \in DOMAIN s.ops /\ ops[n] = s.ops[n + 1] /\ n + 1 # 1
      /\ \A m, n \in DOMAIN ops : m # n => m + 1 # n + 1
  BY <1>1, <1>2 DEF SaveTypes
<1>4. gdServer' \in [GridKeys -> Int]
  <2>1. gdServer \in [GridKeys -> Int]
    BY DEF GridInv, GridTypes
  <2>2. op.row.v \in Int
    BY <1>3 DEF Ops, Rows
  <2>3. GE!Written(op) \subseteq [GridKeys -> Int]
    <3> HIDE DEF op
    <3>1. CASE op.action = "insert"
      BY <2>1, <2>2, <3>1 DEF GE!Written
    <3>2. CASE op.action # "insert" /\ GE!Renames(op)
      BY <2>1, <2>2, <3>2 DEF GE!Written
    <3>3. CASE op.action # "insert" /\ ~GE!Renames(op)
      BY <2>1, <2>2, <3>3 DEF GE!Written
    <3> QED  BY <3>1, <3>2, <3>3
  <2> QED  BY <1>1, <2>1, <2>3
<1>5. GridTypes' /\ OnTheirRows' /\ NameTheirDrafts'
  BY <1>1, <1>4 DEF GridInv, GridTypes, OnTheirRows, NameTheirDrafts, OfItsRow, GE!Shown
<1> DEFINE t == gdSave'
<1> HIDE DEF op, ops, s, t
<1>6. ASSUME gdSave' = GE!NotSaved(op, FALSE) \/ gdSave' = GE!NotSaved(op, op.action # "insert" /\ ~GE!Hits(op))
              \/ gdSave' = [GE!NotSaved(op, FALSE) EXCEPT !.written = @ \cup {<<op.action, op.idx>>}]
      PROVE  SaveTypes(t) /\ Covered(t, gdMod, gdDel, gdNew) /\ InsertsApart(t) /\ UpdatesOfTheirRows(t, gdMoved)
  <2>1. PICK stale \in BOOLEAN : /\ stale => op.action # "insert"
                                 /\ \/ t = GE!NotSaved(op, stale)
                                    \/ t = [GE!NotSaved(op, stale) EXCEPT !.written = @ \cup {<<op.action, op.idx>>}]
    <3>1. (op.action # "insert" /\ ~GE!Hits(op)) \in BOOLEAN
      OBVIOUS
    <3> QED  BY <1>6, <3>1 DEF t
  <2> DEFINE f0 == GE!Failure(op, stale)
             fails == s.fails \cup {f0}
  <2>2. GE!NotSaved(op, stale) = [s EXCEPT !.ops = ops, !.fails = fails]
    BY DEF GE!NotSaved, s, ops
  <2>3. /\ f0 \in Failures /\ f0.action = op.action /\ f0.idx = op.idx /\ f0.row = op.row /\ f0.cond = op.cond
        /\ f0.stale = stale
    <3>1. f0 = [action |-> op.action, idx |-> op.idx, row |-> op.row, cond |-> op.cond, stale |-> stale, rev |-> s.rev]
      BY DEF GE!Failure, s
    <3>2. s.rev \in Int
      BY <1>2 DEF SaveTypes
    <3> HIDE DEF f0
    <3> QED  BY <1>3, <3>1, <3>2 DEF Ops, Failures
  <2>4. IsFiniteSet(fails) /\ fails \subseteq Failures /\ \A f \in fails : f.stale => f.action # "insert"
    BY <1>2, <2>1, <2>3, FS_AddElement DEF SaveTypes
  <2> HIDE DEF f0, fails
  <2>5. IsSave(s)
    BY <1>2 DEF SaveTypes
  <2>6. /\ t.ops = ops /\ t.mod = s.mod /\ t.del = s.del /\ t.new = s.new /\ t.fails = fails
        /\ t.rev = s.rev /\ s.written \subseteq t.written /\ IsSave(t)
    <3> DEFINE x  == GE!NotSaved(op, stale)
               w  == s.written \cup {<<op.action, op.idx>>}
    <3>1. /\ x.ops = ops /\ x.mod = s.mod /\ x.del = s.del /\ x.new = s.new /\ x.fails = fails
          /\ x.rev = s.rev /\ x.written = s.written /\ IsSave(x)
      BY ONLY <2>2, <2>5 DEF IsSave
    <3>2. s.written \subseteq w
      OBVIOUS
    <3>3. t = x \/ t = [x EXCEPT !.written = w]
      BY <2>1, <3>1
    <3> HIDE DEF x, w
    <3>4. ASSUME NEW y, y = [x EXCEPT !.written = w]
          PROVE  /\ y.ops = x.ops /\ y.mod = x.mod /\ y.del = x.del /\ y.new = x.new /\ y.fails = x.fails
                 /\ y.rev = x.rev /\ y.written = w /\ IsSave(y)
      BY ONLY <3>1, <3>4 DEF IsSave
    <3> QED  BY <3>1, <3>2, <3>3, <3>4
  <2>7. SaveTypes(t)
    BY <1>2, <1>3, <2>4, <2>6 DEF SaveTypes
  <2>8. Covered(t, gdMod, gdDel, gdNew)
    BY <1>2, <2>6 DEF Covered
  <2>9. InsertsApart(t)
    <3>1. \A n \in DOMAIN ops : Names(ops[n], s.new) /\ Apart(ops[n], op) /\ Apart(op, ops[n])
      BY <1>2, <1>3 DEF InsertsApart
    <3>2. \A m, n \in DOMAIN ops : m # n => Apart(ops[m], ops[n])
      BY <1>2, <1>3 DEF InsertsApart
    <3>3. Names(f0, s.new)
      BY <1>2, <1>3, <2>3 DEF InsertsApart, Names
    <3>4. \A n \in DOMAIN ops : Apart(ops[n], f0)
      BY <2>3, <3>1 DEF Apart
    <3>5. \A f \in s.fails : Apart(f, f0) /\ Apart(f0, f)
      BY <1>2, <1>3, <2>3 DEF InsertsApart, Apart
    <3>6. \A f \in s.fails, n \in DOMAIN ops : Apart(ops[n], f)
      BY <1>2, <1>3 DEF InsertsApart
    <3>7. \A f \in fails : f \in s.fails \/ f = f0
      BY DEF fails
    <3> QED  BY <1>2, <2>6, <3>1, <3>2, <3>3, <3>4, <3>5, <3>6, <3>7 DEF InsertsApart
  <2>10. UpdatesOfTheirRows(t, gdMoved)
    <3>1. \A f \in fails : f \in s.fails \/ f = f0
      BY DEF fails
    <3> QED  BY <1>2, <1>3, <2>3, <2>6, <3>1 DEF UpdatesOfTheirRows, OfItsRow, GE!Shown
  <2> QED  BY <2>7, <2>8, <2>9, <2>10
<1>7. ASSUME gdSave' = ok
      PROVE  SaveTypes(t) /\ Covered(t, gdMod, gdDel, gdNew) /\ InsertsApart(t) /\ UpdatesOfTheirRows(t, gdMoved)
  <2> DEFINE mod == IF op.action = "update" THEN GE!WithoutRow(s.mod, op.idx) ELSE s.mod
             del == IF op.action = "delete" THEN s.del \ {op.idx} ELSE s.del
             new == IF op.action = "insert" THEN [s.new EXCEPT ![op.idx] = 0] ELSE s.new
             w   == s.written \cup {<<op.action, op.idx>>}
  <2>1. GE!Saved(op) = [s EXCEPT !.ops = ops, !.del = del, !.mod = mod, !.new = new]
    BY DEF GE!Saved, s, ops
  <2>2. IsSave(s)
    BY <1>2 DEF SaveTypes
  <2>3. \A i \in DOMAIN mod : i \in DOMAIN s.mod /\ mod[i] = s.mod[i]
    BY DEF GE!WithoutRow, GE!Restrict
  <2>4. \A i \in DOMAIN s.mod : i \in DOMAIN mod \/ <<"update", i>> \in w
    <3>1. CASE op.action = "update"
      BY <3>1 DEF GE!WithoutRow, GE!Restrict
    <3>2. CASE op.action # "update"
      BY <3>2
    <3> QED  BY <3>1, <3>2
  <2>5. \A i \in s.del : i \in del \/ <<"delete", i>> \in w
    OBVIOUS
  <2>6. s.new \in [1..Len(gdNew) -> DraftKeys \cup {0}]
    BY <1>2 DEF Covered
  <2>7. /\ new \in [1..Len(gdNew) -> DraftKeys \cup {0}]
        /\ \A i \in 1..Len(gdNew) : new[i] = s.new[i] \/ (new[i] = 0 /\ <<"insert", i>> \in w)
        /\ \A i \in 1..Len(gdNew) : (op.action = "insert" => i # op.idx) => new[i] = s.new[i]
    <3>1. CASE op.action = "insert"
      BY <2>6, <3>1
    <3>2. CASE op.action # "insert"
      BY <2>6, <3>2
    <3> QED  BY <3>1, <3>2
  <2>8. s.written \subseteq w
    OBVIOUS
  <2> HIDE DEF mod, del, new, w
  <2>10. /\ t.ops = ops /\ t.mod = mod /\ t.del = del /\ t.new = new /\ t.fails = s.fails
         /\ t.rev = s.rev /\ t.written = w /\ IsSave(t)
    <3> DEFINE x == GE!Saved(op)
    <3>1. /\ x.ops = ops /\ x.mod = mod /\ x.del = del /\ x.new = new /\ x.fails = s.fails
          /\ x.rev = s.rev /\ x.written = s.written /\ IsSave(x)
      BY ONLY <2>1, <2>2 DEF IsSave
    <3>2. t = [x EXCEPT !.written = w]
      BY <1>7, <3>1 DEF t, w
    <3> HIDE DEF x
    <3> QED  BY ONLY <3>1, <3>2 DEF IsSave
  <2>11. SaveTypes(t)
    BY <1>2, <1>3, <2>10 DEF SaveTypes
  <2>12. Covered(t, gdMod, gdDel, gdNew)
    BY <1>2, <2>3, <2>4, <2>5, <2>7, <2>8, <2>10 DEF Covered
  <2>13. InsertsApart(t)
    <3>1. \A g : Names(g, s.new) /\ Apart(g, op) => Names(g, new)
      BY <2>6, <2>7 DEF Names, Apart
    <3>2. \A n \in DOMAIN ops : Names(ops[n], s.new) /\ Apart(ops[n], op)
      BY <1>2, <1>3 DEF InsertsApart
    <3>3. \A m, n \in DOMAIN ops : m # n => Apart(ops[m], ops[n])
      BY <1>2, <1>3 DEF InsertsApart
    <3>4. \A f \in s.fails : Names(f, s.new) /\ Apart(f, op)
      BY <1>2, <1>3 DEF InsertsApart, Apart
    <3>5. \A f \in s.fails, n \in DOMAIN ops : Apart(ops[n], f)
      BY <1>2, <1>3 DEF InsertsApart
    <3> QED  BY <1>2, <2>10, <3>1, <3>2, <3>3, <3>4, <3>5 DEF InsertsApart
  <2>14. UpdatesOfTheirRows(t, gdMoved)
    BY <1>2, <1>3, <2>10 DEF UpdatesOfTheirRows, OfItsRow, GE!Shown
  <2> QED  BY <2>11, <2>12, <2>13, <2>14
<1>8. SaveTypes(t) /\ Covered(t, gdMod, gdDel, gdNew) /\ InsertsApart(t) /\ UpdatesOfTheirRows(t, gdMoved)
  BY <1>1, <1>6, <1>7
<1>9. SaveInv'
  <2>1. gdModal' /\ gdRecovery' = {} /\ ~gdSpliced'
    BY <1>1 DEF GridInv, SaveInv, s
  <2>2. UpdatesOfTheirRows(gdSave, gdMoved)'
    BY <1>1, <1>8 DEF UpdatesOfTheirRows, OfItsRow, GE!Shown, t
  <2> QED  BY <1>1, <1>8, <2>1, <2>2 DEF SaveInv, t
<1>10. gdSave'.on
  BY <1>8 DEF SaveTypes, IsSave, t
<1> QED  BY <1>5, <1>9, <1>10 DEF GridInv

(* What is kept of the drafts is a list of them, each at the place its rank gives it. *)
LEMMA KeptDrafts ==
  ASSUME NEW n \in Nat, NEW list, NEW P \in SUBSET (1..n), \A i \in P : list[i] \in DraftKeys
  PROVE  /\ Kept(list, P) \in Seq(DraftKeys)
         /\ \A i \in P : Rank(i, P) \in DOMAIN Kept(list, P) /\ Kept(list, P)[Rank(i, P)] = list[i]
         /\ \A i, j \in P : i # j => Rank(i, P) # Rank(j, P)
<1>1. P \subseteq Int /\ IsFiniteSet(P)
  <2>1. IsFiniteSet(1..n) /\ 1..n \subseteq Int
    BY FS_Interval
  <2>2. IsFiniteSet(P)
    BY <2>1, FS_Subset
  <2> QED  BY <2>1, <2>2
<1> DEFINE K == Kept(list, P)
           N == Cardinality(P)
<1>2. N \in Nat
  BY <1>1, FS_CardinalityType
<1>3. /\ DOMAIN K = 1..N /\ K = [m \in 1..N |-> K[m]]
      /\ \A m \in 1..N : InOrder(P)[m] \in P /\ K[m] = list[InOrder(P)[m]]
      /\ \A i \in P : Rank(i, P) \in 1..N /\ K[Rank(i, P)] = list[i]
  BY <1>1, KeptOnes
<1>4. \A i \in P : InOrder(P)[Rank(i, P)] = i
  BY <1>1, Ordered
<1> HIDE DEF K, N
<1>5. K \in [1..N -> DraftKeys]
  BY <1>3
<1>6. K \in Seq(DraftKeys)
  BY <1>2, <1>5, IsSequence
<1>7. \A i, j \in P : i # j => Rank(i, P) # Rank(j, P)
  BY <1>4
<1> QED  BY <1>3, <1>6, <1>7 DEF K

(* A place moves up by the number of places before it that go. *)
LEMMA MovesUp ==
  ASSUME NEW n \in Nat, NEW gone \in SUBSET (1..n), NEW x \in (1..n) \ gone
  PROVE  x - Cardinality({i \in gone : i < x}) = Rank(x, (1..n) \ gone)
<1> DEFINE A == 1..x
           B == {i \in gone : i < x}
           C == {y \in (1..n) \ gone : y <= x}
<1>1. IsFiniteSet(A) /\ Cardinality(A) = x
  BY FS_Interval
<1>2. B \subseteq A /\ A \cap B = B /\ A \ B = C
  <2>1. \A y \in C : y \in A /\ y \notin B
    OBVIOUS
  <2>2. \A y \in A : y \notin B => y \in C
    OBVIOUS
  <2>3. B \subseteq A
    <3>1. \A i \in gone : i \in 1..n
      OBVIOUS
    <3>2. \A i \in gone : i < x => i \in A
      BY <3>1
    <3> QED  BY <3>2
  <2> HIDE DEF A, B, C
  <2>4. A \ B \subseteq C /\ C \subseteq A \ B
    BY <2>1, <2>2
  <2> QED  BY <2>3, <2>4
<1>3. Cardinality(A \ B) = Cardinality(A) - Cardinality(A \cap B)
  <2> HIDE DEF A, B
  <2> QED  BY <1>1, FS_Difference
<1>4. Cardinality(C) = x - Cardinality(B)
  <2> HIDE DEF A, B, C
  <2> QED  BY <1>1, <1>2, <1>3
<1> QED  BY <1>4 DEF Rank

LEMMA FinishStep ==
  ASSUME GridInv, GE!FinishSave PROVE GridInv'
<1> DEFINE s  == gdSave
           nz == {i \in DOMAIN s.new : s.new[i] # 0}
           n  == Len(gdNew)
           ret(f) == GE!Retained(s.new, f)
<1>1. /\ s.on /\ gdMod' = s.mod /\ gdDel' = s.del /\ gdNew' = Kept(s.new, nz)
      /\ gdReport' = {ret(f) : f \in s.fails} /\ gdSave' = GE!NoSave
      /\ UNCHANGED <<gdServer, gdPk, gdData, gdRev, gdRecovery, gdSpliced, gdMoved>>
  BY GridOperators DEF GE!FinishSave, GE!page, GE!ghosts
<1>2. SaveTypes(s) /\ Covered(s, gdMod, gdDel, gdNew) /\ InsertsApart(s) /\ UpdatesOfTheirRows(s, gdMoved)
  BY <1>1 DEF GridInv, SaveInv
<1>3. n \in Nat /\ s.new \in [1..n -> DraftKeys \cup {0}]
  BY <1>2 DEF Covered, GridInv, GridTypes
<1>4. /\ nz \in SUBSET (1..n) /\ \A i \in nz : s.new[i] \in DraftKeys
  BY <1>3
<1>5. /\ gdNew' \in Seq(DraftKeys)
      /\ \A i \in nz : Rank(i, nz) \in DOMAIN gdNew' /\ gdNew'[Rank(i, nz)] = s.new[i]
      /\ \A i, j \in nz : i # j => Rank(i, nz) # Rank(j, nz)
  <2> DEFINE list == s.new
  <2>1. n \in Nat /\ nz \in SUBSET (1..n) /\ \A i \in nz : list[i] \in DraftKeys
    BY <1>3, <1>4
  <2>2. gdNew' = Kept(list, nz)
    BY <1>1
  <2> HIDE DEF nz, n, list
  <2>3. /\ Kept(list, nz) \in Seq(DraftKeys)
        /\ \A i \in nz : Rank(i, nz) \in DOMAIN Kept(list, nz) /\ Kept(list, nz)[Rank(i, nz)] = list[i]
        /\ \A i, j \in nz : i # j => Rank(i, nz) # Rank(j, nz)
    BY ONLY <2>1, KeptDrafts
  <2> QED  BY ONLY <2>2, <2>3 DEF list
<1>6. ASSUME NEW f \in s.fails
      PROVE  /\ ret(f) \in Failures /\ ret(f).action = f.action /\ ret(f).row = f.row /\ ret(f).cond = f.cond
             /\ ret(f).stale = f.stale
             /\ f.action = "insert" => f.idx \in nz /\ ret(f).idx = Rank(f.idx, nz)
  <2>1. f \in Failures /\ f.idx \in Int
    BY <1>2 DEF SaveTypes, Failures
  <2> DEFINE left == {i \in 1..f.idx : s.new[i] # 0}
             c    == Cardinality(left)
  <2>2. IsFiniteSet(left) /\ c \in Int
    <3>1. IsFiniteSet(1..f.idx)
      BY <2>1, FS_Interval
    <3>2. IsFiniteSet(left)
      BY <3>1, FS_Subset
    <3> HIDE DEF left
    <3> QED  BY <3>2, FS_CardinalityType
  <2>3. ret(f) = IF f.action = "insert" THEN [f EXCEPT !.idx = c] ELSE f
    BY GridOperators DEF GE!Retained
  <2>4. ASSUME f.action = "insert" PROVE f.idx \in nz /\ c = Rank(f.idx, nz)
    <3>1. f.idx \in 1..n /\ s.new[f.idx] # 0
      BY <1>2, <1>3, <2>4 DEF InsertsApart, Names
    <3>2. left = {y \in nz : y <= f.idx}
      BY <1>3, <3>1
    <3> QED  BY <1>3, <3>1, <3>2 DEF Rank
  <2> HIDE DEF c, ret, nz
  <2>5. CASE f.action = "insert"
    BY <2>1, <2>2, <2>3, <2>4, <2>5 DEF Failures
  <2>6. CASE f.action # "insert"
    BY <2>1, <2>3, <2>6
  <2> QED  BY <2>5, <2>6
<1> HIDE DEF ret, nz, n
<1>7. IsFiniteSet(gdReport')
  <2> DEFINE g == [f \in s.fails |-> ret(f)]
  <2>1. gdReport' = {g[f] : f \in s.fails}
    BY <1>1
  <2>2. DOMAIN g = s.fails /\ IsFiniteSet(s.fails)
    BY <1>2 DEF SaveTypes
  <2> HIDE DEF g
  <2>3. IsFiniteSet({g[f] : f \in s.fails})
    BY <2>2, FiniteImage
  <2> QED  BY <2>1, <2>3
<1>8. /\ \A i \in DOMAIN s.mod : i \in DOMAIN gdMod /\ s.mod[i] = gdMod[i]
      /\ \A f \in s.fails : f.stale => f.action # "insert"
  BY <1>2 DEF Covered, SaveTypes
<1>9. gdReport' \subseteq Failures /\ \A r \in gdReport' : r.stale => r.action # "insert"
  BY <1>1, <1>6, <1>8
<1>10. \A i \in DOMAIN gdMod' : gdMod'[i] \in Rows
  BY <1>1, <1>8 DEF GridInv, GridTypes
<1>11. GridTypes'
  BY <1>1, <1>5, <1>7, <1>9, <1>10 DEF GridInv, GridTypes
<1>15. ~gdMoved => \A f \in s.fails : OfItsRow(f)
  BY <1>2 DEF UpdatesOfTheirRows, OfItsRow, GE!Shown
<1>12. OnTheirRows'
  <2>1. ASSUME ~gdMoved, NEW r \in gdReport' PROVE OfItsRow(r)
    <3>1. PICK f \in s.fails : r = ret(f)
      BY <1>1
    <3>2. OfItsRow(f)
      BY <1>15, <2>1
    <3> QED  BY <1>6, <3>1, <3>2 DEF OfItsRow
  <2> QED  BY <1>1, <1>8, <2>1 DEF GridInv, OnTheirRows, OfItsRow, GE!Shown
<1>13. NameTheirDrafts'
  <2>1. ASSUME NEW r \in gdReport' PROVE Names(r, gdNew')
    <3>1. PICK f \in s.fails : r = ret(f)
      BY <1>1
    <3> QED  BY <1>2, <1>5, <1>6, <3>1 DEF InsertsApart, Names
  <2>2. ASSUME NEW q \in gdReport', NEW r \in gdReport', q # r PROVE Apart(q, r)
    <3>1. PICK f \in s.fails, g \in s.fails : q = ret(f) /\ r = ret(g)
      BY <1>1
    <3>2. Apart(f, g)
      BY <1>2, <2>2, <3>1 DEF InsertsApart
    <3> QED  BY <1>5, <1>6, <3>1, <3>2 DEF Apart
  <2> QED  BY <2>1, <2>2 DEF NameTheirDrafts
<1>14. ~gdSave'.on
  BY <1>1 DEF GE!NoSave
<1> QED  BY <1>11, <1>12, <1>13, <1>14 DEF GridInv, SaveInv

-----------------------------------------------------------------------------
(* Giving changes up, and rows that were no longer found. *)

(* What leaves the report of some failures: the others, an insert moved up by the inserts that   *)
(* left before it.                                                                               *)
LEMMA ClearedOnes ==
  ASSUME GridTypes, NEW S \in SUBSET gdReport
  PROVE  LET gone  == GE!Indexes(S, "insert")
             cl(f) == IF f.action = "insert"
                      THEN [f EXCEPT !.idx = f.idx - Cardinality({i \in gone : i < f.idx})] ELSE f
         IN  /\ GE!Cleared(S) = {cl(f) : f \in gdReport \ S} /\ IsFiniteSet(GE!Cleared(S))
             /\ \A f \in gdReport \ S :
                   /\ cl(f) \in Failures /\ cl(f).action = f.action /\ cl(f).row = f.row /\ cl(f).cond = f.cond
                   /\ cl(f).stale = f.stale
                   /\ f.action = "insert" => cl(f).idx = f.idx - Cardinality({i \in gone : i < f.idx})
<1> DEFINE gone  == GE!Indexes(S, "insert")
           n(f)  == Cardinality({i \in gone : i < f.idx})
           cl(f) == IF f.action = "insert" THEN [f EXCEPT !.idx = f.idx - n(f)] ELSE f
           left  == gdReport \ S
<1>1. IsFiniteSet(gone)
  <2> DEFINE T == {g \in S : g.action = "insert"}
             h == [g \in T |-> g.idx]
  <2>1. IsFiniteSet(T)
    <3>1. IsFiniteSet(gdReport) /\ T \in SUBSET gdReport
      BY DEF GridTypes
    <3> QED  BY <3>1, FS_Subset
  <2>2. gone = {h[g] : g \in T}
    BY DEF GE!Indexes
  <2>3. IsFiniteSet({h[g] : g \in T})
    <3>1. DOMAIN h = T
      OBVIOUS
    <3> HIDE DEF h, T
    <3> QED  BY <2>1, <3>1, FiniteImage
  <2> QED  BY <2>2, <2>3
<1>2. GE!Cleared(S) = {cl(f) : f \in left}
  BY GridOperators DEF GE!Cleared
<1> HIDE DEF gone
<1>3. ASSUME NEW f \in left PROVE n(f) \in Int /\ f \in Failures /\ f.idx \in Int
  <2>1. f \in Failures /\ f.idx \in Int
    BY DEF GridTypes, Failures
  <2> DEFINE A == {i \in gone : i < f.idx}
  <2>2. IsFiniteSet(A)
    BY <1>1, FS_Subset
  <2>3. Cardinality(A) \in Int
    <3> HIDE DEF A
    <3> QED  BY <2>2, FS_CardinalityType
  <2> QED  BY <2>1, <2>3
<1>4. ASSUME NEW f \in left
      PROVE  /\ cl(f) \in Failures /\ cl(f).action = f.action /\ cl(f).row = f.row /\ cl(f).cond = f.cond
             /\ cl(f).stale = f.stale /\ (f.action = "insert" => cl(f).idx = f.idx - n(f))
  <2> DEFINE c == f.idx - n(f)
  <2>1. c \in Int /\ f \in Failures /\ cl(f) = IF f.action = "insert" THEN [f EXCEPT !.idx = c] ELSE f
    BY <1>3
  <2> HIDE DEF cl, c
  <2>2. CASE f.action = "insert"
    <3>1. cl(f) = [f EXCEPT !.idx = c]
      BY <2>1, <2>2
    <3>2. cl(f) \in Failures /\ cl(f).action = f.action /\ cl(f).row = f.row /\ cl(f).cond = f.cond
          /\ cl(f).stale = f.stale /\ cl(f).idx = c
      BY <2>1, <3>1 DEF Failures
    <3> QED  BY <3>2 DEF c
  <2>3. CASE f.action # "insert"
    BY <2>1, <2>3
  <2> QED  BY <2>2, <2>3
<1>5. IsFiniteSet(GE!Cleared(S))
  <2>1. IsFiniteSet(left)
    BY FS_Subset DEF GridTypes
  <2> DEFINE g == [f \in left |-> cl(f)]
  <2> HIDE DEF cl, left
  <2>2. GE!Cleared(S) = {g[f] : f \in left} /\ DOMAIN g = left
    BY <1>2
  <2> HIDE DEF g
  <2>3. IsFiniteSet({g[f] : f \in left})
    BY <2>1, <2>2, FiniteImage
  <2> QED  BY <2>2, <2>3
<1> HIDE DEF cl
<1> QED  BY <1>2, <1>4, <1>5 DEF cl, gone

(* Failures that name no draft leave the others as they are. *)
LEMMA ClearedKeeps ==
  ASSUME GridTypes, OnTheirRows, NEW S \in SUBSET gdReport, gdReport' = GE!Cleared(S)
  PROVE  /\ gdReport' \subseteq Failures /\ IsFiniteSet(gdReport')
         /\ \A r \in gdReport' : r.stale => r.action # "insert"
         /\ ~gdMoved => \A r \in gdReport' : OfItsRow(r)
         /\ NameTheirDrafts /\ gdNew' = gdNew /\ gdSpliced' = gdSpliced /\ (\A f \in S : f.action # "insert")
               => NameTheirDrafts'
<1> DEFINE gone  == GE!Indexes(S, "insert")
           cl(f) == IF f.action = "insert"
                    THEN [f EXCEPT !.idx = f.idx - Cardinality({i \in gone : i < f.idx})] ELSE f
<1>1. /\ gdReport' = {cl(f) : f \in gdReport \ S} /\ IsFiniteSet(gdReport')
      /\ \A f \in gdReport \ S :
            /\ cl(f) \in Failures /\ cl(f).action = f.action /\ cl(f).row = f.row /\ cl(f).cond = f.cond
            /\ cl(f).stale = f.stale
            /\ f.action = "insert" => cl(f).idx = f.idx - Cardinality({i \in gone : i < f.idx})
  BY ClearedOnes
<1> HIDE DEF cl
<1>2. \A f \in gdReport : f.stale => f.action # "insert"
  BY DEF GridTypes
<1>3. ASSUME ~gdMoved, NEW r \in gdReport' PROVE OfItsRow(r)
  <2>1. PICK f \in gdReport \ S : r = cl(f)
    BY <1>1
  <2>2. OfItsRow(f)
    BY <1>3 DEF OnTheirRows, OfItsRow, GE!Shown
  <2> QED  BY <1>1, <2>1, <2>2 DEF OfItsRow
<1>4. ASSUME NameTheirDrafts, gdNew' = gdNew, gdSpliced' = gdSpliced, \A f \in S : f.action # "insert"
      PROVE  NameTheirDrafts'
  <2>1. gone = {}
    BY <1>4 DEF GE!Indexes
  <2>2. ASSUME NEW f \in gdReport \ S, f.action = "insert" PROVE cl(f).idx = f.idx
    <3> DEFINE x == f.idx
               c == Cardinality({i \in gone : i < x})
    <3>1. {i \in gone : i < x} = {}
      BY <2>1
    <3>2. c = 0
      BY <3>1, FS_EmptySet
    <3>3. x \in Int
      BY DEF GridTypes, Failures
    <3>4. cl(f).idx = x - c
      BY <1>1, <2>2
    <3> HIDE DEF gone, c, x
    <3>5. cl(f).idx = x
      BY <3>2, <3>3, <3>4
    <3> QED  BY <3>5 DEF x
  <2> SUFFICES ASSUME ~gdSpliced
               PROVE  /\ \A r \in gdReport' : Names(r, gdNew')
                      /\ \A q, r \in gdReport' : q # r => Apart(q, r)
    BY <1>4 DEF NameTheirDrafts
  <2>3. ASSUME NEW r \in gdReport' PROVE Names(r, gdNew')
    <3>1. PICK f \in gdReport \ S : r = cl(f)
      BY <1>1
    <3>2. Names(f, gdNew)
      BY <1>4 DEF NameTheirDrafts
    <3> QED  BY <1>1, <1>4, <2>2, <3>1, <3>2 DEF Names
  <2>4. ASSUME NEW q \in gdReport', NEW r \in gdReport', q # r PROVE Apart(q, r)
    <3>1. PICK f \in gdReport \ S, g \in gdReport \ S : q = cl(f) /\ r = cl(g)
      BY <1>1
    <3>2. Apart(f, g)
      BY <1>4, <2>4, <3>1 DEF NameTheirDrafts
    <3> QED  BY <1>1, <2>2, <3>1, <3>2 DEF Apart
  <2> QED  BY <2>3, <2>4
<1> QED  BY <1>1, <1>2, <1>3, <1>4

LEMMA DiscardStep ==
  ASSUME GridInv, NEW S \in SUBSET gdReport, GE!Discard(S) PROVE GridInv'
<1> DEFINE gone  == GE!Indexes(S, "insert")
           cl(f) == IF f.action = "insert"
                    THEN [f EXCEPT !.idx = f.idx - Cardinality({i \in gone : i < f.idx})] ELSE f
           n     == Len(gdNew)
           P     == (1..n) \ gone
<1>1. /\ gdMod' = GE!Restrict(gdMod, DOMAIN gdMod \ GE!Indexes(S, "update"))
      /\ gdNew' = Kept(gdNew, DOMAIN gdNew \ gone) /\ gdReport' = GE!Cleared(S) /\ ~gdSave.on
      /\ UNCHANGED <<gdServer, gdPk, gdData, gdRev, gdSave, gdRecovery, gdSpliced, gdMoved>>
  BY GridOperators DEF GE!Discard, GE!page, GE!ghosts
<1>2. n \in Nat /\ DOMAIN gdNew = 1..n /\ \A i \in P : gdNew[i] \in DraftKeys
  BY DEF GridInv, GridTypes
<1>3. /\ gdNew' \in Seq(DraftKeys)
      /\ \A i \in P : Rank(i, P) \in DOMAIN gdNew' /\ gdNew'[Rank(i, P)] = gdNew[i]
      /\ \A i, j \in P : i # j => Rank(i, P) # Rank(j, P)
  <2>1. P \in SUBSET (1..n) /\ gdNew' = Kept(gdNew, P)
    BY <1>1, <1>2
  <2> HIDE DEF P, n
  <2> QED  BY <1>2, <2>1, KeptDrafts
<1>4. /\ gdReport' \subseteq Failures /\ IsFiniteSet(gdReport')
      /\ \A r \in gdReport' : r.stale => r.action # "insert"
      /\ ~gdMoved => \A r \in gdReport' : OfItsRow(r)
  BY <1>1, ClearedKeeps DEF GridInv
<1>5. \A i \in DOMAIN gdMod' : i \in DOMAIN gdMod /\ gdMod'[i] = gdMod[i]
  BY <1>1 DEF GE!Restrict
<1>6. GridTypes'
  BY <1>1, <1>3, <1>4, <1>5 DEF GridInv, GridTypes
<1>7. OnTheirRows'
  BY <1>1, <1>4, <1>5 DEF GridInv, OnTheirRows, OfItsRow, GE!Shown
<1>8. /\ gdReport' = {cl(f) : f \in gdReport \ S}
      /\ \A f \in gdReport \ S :
            /\ cl(f).action = f.action /\ cl(f).row = f.row
            /\ f.action = "insert" => cl(f).idx = f.idx - Cardinality({i \in gone : i < f.idx})
  BY <1>1, ClearedOnes DEF GridInv
<1> HIDE DEF cl
<1>9. NameTheirDrafts'
  <2> SUFFICES ASSUME ~gdSpliced
               PROVE  /\ \A r \in gdReport' : Names(r, gdNew')
                      /\ \A q, r \in gdReport' : q # r => Apart(q, r)
    BY <1>1 DEF NameTheirDrafts
  <2>1. /\ \A f \in gdReport : Names(f, gdNew)
        /\ \A f, g \in gdReport : f # g => Apart(f, g)
    BY DEF GridInv, NameTheirDrafts
  <2>2. gone \in SUBSET (1..n)
    BY <1>2, <2>1 DEF GE!Indexes, Names
  <2>3. ASSUME NEW f \in gdReport \ S, f.action = "insert"
        PROVE  f.idx \in P /\ cl(f).idx = Rank(f.idx, P)
    <3>1. f.idx \notin gone
      BY <2>1, <2>3 DEF GE!Indexes, Apart
    <3>2. f.idx \in 1..n
      BY <1>2, <2>1, <2>3 DEF Names
    <3> DEFINE x == f.idx
    <3>3. x \in (1..n) \ gone
      BY <3>1, <3>2
    <3> HIDE DEF gone, n, x
    <3>4. x - Cardinality({i \in gone : i < x}) = Rank(x, (1..n) \ gone)
      BY <1>2, <2>2, <3>3, MovesUp
    <3> QED  BY <1>8, <2>3, <3>3, <3>4 DEF x
  <2> HIDE DEF P, n, gone
  <2>4. ASSUME NEW r \in gdReport' PROVE Names(r, gdNew')
    <3>1. PICK f \in gdReport \ S : r = cl(f)
      BY <1>8
    <3>2. r.action = f.action /\ r.row = f.row
      BY <1>8, <3>1
    <3>3. CASE f.action = "insert"
      <4>1. f.idx \in P /\ r.idx = Rank(f.idx, P)
        BY <2>3, <3>1, <3>3
      <4>2. gdNew[f.idx] = f.row.k /\ f.row.k # 0
        BY <2>1, <3>3 DEF Names
      <4>3. r.idx \in DOMAIN gdNew' /\ gdNew'[r.idx] = gdNew[f.idx]
        BY <1>3, <4>1
      <4> QED  BY <3>2, <4>2, <4>3 DEF Names
    <3>4. CASE f.action # "insert"
      BY <3>2, <3>4 DEF Names
    <3> QED  BY <3>3, <3>4
  <2>5. ASSUME NEW q \in gdReport', NEW r \in gdReport', q # r PROVE Apart(q, r)
    <3>1. PICK f \in gdReport \ S, g \in gdReport \ S : q = cl(f) /\ r = cl(g)
      BY <1>8
    <3>2. q.action = f.action /\ r.action = g.action
      BY <1>8, <3>1
    <3>3. ASSUME f.action = "insert", g.action = "insert" PROVE q.idx # r.idx
      <4>1. f.idx \in P /\ q.idx = Rank(f.idx, P) /\ g.idx \in P /\ r.idx = Rank(g.idx, P)
        BY <2>3, <3>1, <3>3
      <4>2. f.idx # g.idx
        BY <2>1, <2>5, <3>1, <3>3 DEF Apart
      <4> QED  BY <1>3, <4>1, <4>2
    <3> QED  BY <3>2, <3>3 DEF Apart
  <2> QED  BY <2>4, <2>5
<1>10. ~gdSave'.on
  BY <1>1
<1> QED  BY <1>6, <1>7, <1>9, <1>10 DEF GridInv, SaveInv

LEMMA RecoveryStep ==
  ASSUME GridInv, NEW S \in SUBSET gdReport, GE!QueueRecovery(S) PROVE GridInv'
<1>1. /\ gdMod' = GE!Restrict(gdMod, DOMAIN gdMod \ GE!Indexes(S, "update"))
      /\ gdRecovery' = S /\ ~gdSave.on
      /\ UNCHANGED <<gdServer, gdPk, gdData, gdRev, gdNew, gdSave, gdReport, gdSpliced, gdMoved>>
  BY DEF GE!QueueRecovery, GE!page, GE!ghosts
<1>2. \A i \in DOMAIN gdMod' : i \in DOMAIN gdMod /\ gdMod'[i] = gdMod[i]
  BY <1>1 DEF GE!Restrict
<1>3. GridTypes'
  BY <1>1, <1>2 DEF GridInv, GridTypes
<1>4. OnTheirRows'
  BY <1>1, <1>2 DEF GridInv, OnTheirRows, OfItsRow, GE!Shown
<1>5. NameTheirDrafts'
  BY <1>1 DEF GridInv, NameTheirDrafts
<1> QED  BY <1>1, <1>3, <1>4, <1>5 DEF GridInv, SaveInv

(* Edits that a resolution lays on the rows found for them. *)
LEMMA RebasedSteps ==
  ASSUME GridInv, NEW S \in SUBSET gdReport, \A f \in S : f.stale /\ GE!Located(gdData, f) # 0,
         ~gdSave.on, gdReport' = GE!Cleared(S),
         UNCHANGED <<gdServer, gdPk, gdData, gdRev, gdNew, gdSave, gdRecovery, gdSpliced, gdMoved>>,
         NEW keep \in BOOLEAN,
         \/ gdMod' = gdMod
         \/ gdMod' = GE!Rebased(gdMod, gdData, S, keep) /\ \A f \in S : f.action = "update"
  PROVE  GridInv'
<1>1. /\ gdReport' \subseteq Failures /\ IsFiniteSet(gdReport')
      /\ \A r \in gdReport' : r.stale => r.action # "insert"
      /\ ~gdMoved => \A r \in gdReport' : OfItsRow(r)
  BY ClearedKeeps DEF GridInv
<1>2. NameTheirDrafts'
  <2>1. \A f \in S : f.action # "insert"
    BY DEF GridInv, GridTypes
  <2> QED  BY <2>1, ClearedKeeps DEF GridInv
<1>3. ASSUME NEW i \in DOMAIN gdMod'
      PROVE  /\ gdMod'[i] \in Rows
             /\ ~gdMoved => i \in DOMAIN gdData /\ GE!Shown(gdMod'[i].of) = GE!Shown(gdData[i].k)
  <2>1. CASE gdMod' = gdMod
    BY <2>1 DEF GridInv, GridTypes, OnTheirRows, OfItsRow, GE!Shown
  <2>2. CASE gdMod' = GE!Rebased(gdMod, gdData, S, keep) /\ \A f \in S : f.action = "update"
    <3> DEFINE r == GE!Rebased(gdMod, gdData, S, keep)
    <3>1. /\ r[i] \in Rows
          /\ \/ i \in DOMAIN gdMod /\ r[i] = gdMod[i]
             \/ FoundAt(gdData, S, i, r[i])
      <4>1. IsPage(gdData) /\ (\A j \in DOMAIN gdMod : gdMod[j] \in Rows) /\ S \in SUBSET Failures
        BY DEF GridInv, GridTypes
      <4>2. IsFiniteSet(S)
        BY FS_Subset DEF GridInv, GridTypes
      <4>3. i \in DOMAIN GE!Rebased(gdMod, gdData, S, keep)
        BY <2>2
      <4>4. \A f \in S : GE!Located(gdData, f) # 0
        OBVIOUS
      <4>5. \A k \in DOMAIN GE!Rebased(gdMod, gdData, S, keep) :
                /\ GE!Rebased(gdMod, gdData, S, keep)[k] \in Rows
                /\ \/ k \in DOMAIN gdMod /\ GE!Rebased(gdMod, gdData, S, keep)[k] = gdMod[k]
                   \/ FoundAt(gdData, S, k, GE!Rebased(gdMod, gdData, S, keep)[k])
        BY ONLY <4>1, <4>2, <4>4, RebasedRows
      <4> QED  BY <4>3, <4>5
    <3> HIDE DEF r
    <3>2. r = gdMod'
      BY <2>2 DEF r
    <3>3. ASSUME ~gdMoved, NEW f \in S, GE!Located(gdData, f) = i, r[i].of = f.row.of
          PROVE  i \in DOMAIN gdData /\ GE!Shown(r[i].of) = GE!Shown(gdData[i].k)
      <4>1. i \in DOMAIN gdData /\ GE!Shown(gdData[i].k) = GE!Shown(f.cond.k)
        BY <3>3, LocatedRow DEF GridInv, GridTypes
      <4>2. GE!Shown(f.row.of) = GE!Shown(f.cond.k)
        BY <2>2, <3>3 DEF GridInv, OnTheirRows, OfItsRow, GE!Shown
      <4> QED  BY <3>3, <4>1, <4>2
    <3>4. ~gdMoved /\ i \in DOMAIN gdMod => i \in DOMAIN gdData /\ GE!Shown(gdMod[i].of) = GE!Shown(gdData[i].k)
      BY DEF GridInv, OnTheirRows, OfItsRow, GE!Shown
    <3> QED  BY <3>1, <3>2, <3>3, <3>4 DEF FoundAt
  <2> QED  BY <2>1, <2>2
<1>4. GridTypes'
  BY <1>1, <1>3 DEF GridInv, GridTypes
<1>5. OnTheirRows'
  BY <1>1, <1>3 DEF GridInv, OnTheirRows, OfItsRow, GE!Shown
<1> QED  BY <1>2, <1>4, <1>5 DEF GridInv, SaveInv

LEMMA ResolveSteps ==
  ASSUME GridInv, \/ \E f \in GE!Stale, keep \in BOOLEAN : GE!Resolve(f, keep)
                  \/ GE!KeepMine
  PROVE  GridInv'
<1>1. ASSUME NEW f \in GE!Stale, NEW keep \in BOOLEAN, GE!Resolve(f, keep) PROVE GridInv'
  <2>1. /\ f \in gdReport /\ f.stale /\ GE!Located(gdData, f) # 0 /\ ~gdSave.on /\ gdReport' = GE!Cleared({f})
        /\ UNCHANGED <<gdServer, gdPk, gdData, gdRev, gdNew, gdSave, gdRecovery, gdSpliced, gdMoved>>
        /\ \/ gdMod' = gdMod
           \/ gdMod' = GE!Rebased(gdMod, gdData, {f}, keep) /\ f.action # "delete"
    BY <1>1 DEF GE!Resolve, GE!Stale, GE!Fresh, GE!page, GE!ghosts
  <2>2. f.action # "delete" => f.action = "update"
    BY <2>1 DEF GridInv, GridTypes, Failures, Actions
  <2> DEFINE S == {f}
  <2>3. /\ S \in SUBSET gdReport /\ \A g \in S : g.stale /\ GE!Located(gdData, g) # 0
        /\ gdReport' = GE!Cleared(S)
        /\ \/ gdMod' = gdMod
           \/ gdMod' = GE!Rebased(gdMod, gdData, S, keep) /\ \A g \in S : g.action = "update"
    BY <2>1, <2>2
  <2> HIDE DEF S
  <2> QED  BY <2>1, <2>3, RebasedSteps
<1>2. ASSUME GE!KeepMine PROVE GridInv'
  <2> DEFINE S == {f \in GE!Stale : f.action = "update" /\ GE!Fresh(f) /\ ~GE!Conflict(f)}
  <2>1. /\ gdMod' = GE!Rebased(gdMod, gdData, S, TRUE) /\ gdReport' = GE!Cleared(S) /\ ~gdSave.on
        /\ UNCHANGED <<gdServer, gdPk, gdData, gdRev, gdNew, gdSave, gdRecovery, gdSpliced, gdMoved>>
    BY <1>2 DEF GE!KeepMine, GE!page, GE!ghosts
  <2>2. S \in SUBSET gdReport /\ \A f \in S : f.stale /\ GE!Located(gdData, f) # 0 /\ f.action = "update"
    BY DEF GE!Stale, GE!Fresh
  <2> HIDE DEF S
  <2> QED  BY <2>1, <2>2, RebasedSteps
<1> QED  BY <1>1, <1>2

(* A page arrives; with a recovery under way its changes go to the rows found for them. *)
LEMMA PageStep ==
  ASSUME GridInv, GE!PageArrives PROVE GridInv'
<1> DEFINE data  == GE!Page(gdServer)
           found == {f \in gdRecovery : GE!Located(data, f) # 0}
           dirty == {f \in found : f.action = "update" /\ f.row.v # data[GE!Located(data, f)].v}
           rows  == {GE!Located(data, f) : f \in dirty}
           at(i) == CHOOSE f \in dirty : GE!Located(data, f) = i
           moves == \E i \in DOMAIN gdMod \cup gdDel : i \notin DOMAIN data \/ data[i].k # gdData[i].k
<1>1. /\ gdData' = data /\ gdRev' = gdRev + 1 /\ gdMoved' = (gdMoved \/ moves)
      /\ UNCHANGED <<gdServer, gdPk, gdNew, gdModal, gdSave, gdSpliced>>
  BY DEF GE!PageArrives
<1>2. \/ /\ gdRecovery # {} /\ gdRecovery' = {} /\ gdReport' = gdReport \ found
         /\ gdMod' = [i \in DOMAIN gdMod \cup rows |->
                         IF i \in rows THEN GE!Resolved(data, at(i), TRUE) ELSE gdMod[i]]
      \/ UNCHANGED <<gdMod, gdDel, gdReport, gdRecovery>>
  BY DEF GE!PageArrives, GE!Reattach
<1>3. IsPage(data)
  BY PageIsPage DEF GridInv, GridTypes
<1> HIDE DEF data
<1>4. ASSUME NEW i \in rows
      PROVE  /\ GE!Resolved(data, at(i), TRUE) \in Rows
             /\ i \in DOMAIN data
             /\ ~gdMoved => GE!Shown(GE!Resolved(data, at(i), TRUE).of) = GE!Shown(data[i].k)
  <2>1. PICK f \in dirty : GE!Located(data, f) = i
    OBVIOUS
  <2> DEFINE g == at(i)
  <2>2. g \in dirty /\ GE!Located(data, g) = i
    BY <2>1
  <2> HIDE DEF g, at
  <2>3. g \in gdRecovery /\ g \in Failures /\ g.action = "update" /\ GE!Located(data, g) # 0
    BY <2>2 DEF GridInv, GridTypes
  <2>4. i \in DOMAIN data /\ GE!Shown(data[i].k) = GE!Shown(g.cond.k)
    BY <1>3, <2>2, <2>3, LocatedRow
  <2>5. GE!Resolved(data, g, TRUE) \in Rows /\ GE!Resolved(data, g, TRUE).of = g.row.of
    BY <1>3, <2>3, ResolvedRow
  <2>6. ~gdMoved => GE!Shown(g.row.of) = GE!Shown(g.cond.k)
    BY <2>3 DEF GridInv, OnTheirRows, OfItsRow, GE!Shown
  <2> QED  BY <2>4, <2>5, <2>6 DEF g
<1>5. gdReport' \subseteq gdReport /\ gdRecovery' \subseteq gdRecovery
  BY <1>2
<1> HIDE DEF at, rows
<1>6. ASSUME NEW i \in DOMAIN gdMod'
      PROVE  \/ i \in rows /\ gdMod'[i] = GE!Resolved(data, at(i), TRUE)
             \/ i \in DOMAIN gdMod /\ gdMod'[i] = gdMod[i]
  BY <1>2
<1> HIDE DEF found, moves
<1>7. GridTypes'
  <2>1. gdMoved' \in BOOLEAN
    BY <1>1, Zenon
  <2>2. \A i \in DOMAIN gdMod' : gdMod'[i] \in Rows
    BY <1>4, <1>6 DEF GridInv, GridTypes
  <2>3. gdRev' \in Int
    BY <1>1 DEF GridInv, GridTypes
  <2>4. IsFiniteSet(gdReport')
    BY <1>5, FS_Subset DEF GridInv, GridTypes
  <2> QED  BY <1>1, <1>3, <1>5, <2>1, <2>2, <2>3, <2>4 DEF GridInv, GridTypes
<1>8. OnTheirRows'
  <2>1. ASSUME ~gdMoved', NEW i \in DOMAIN gdMod'
        PROVE  i \in DOMAIN data /\ GE!Shown(gdMod'[i].of) = GE!Shown(data[i].k)
    <3>1. ~gdMoved /\ ~moves
      BY <1>1, <2>1
    <3>2. i \in DOMAIN gdMod => i \in DOMAIN data /\ GE!Shown(gdMod[i].of) = GE!Shown(data[i].k)
      BY <3>1 DEF GridInv, OnTheirRows, moves, OfItsRow, GE!Shown
    <3> QED  BY <1>4, <1>6, <3>1, <3>2
  <2>2. ~gdMoved' => \A f \in gdReport' \cup gdRecovery' : OfItsRow(f)
    BY <1>1, <1>5 DEF GridInv, OnTheirRows, OfItsRow, GE!Shown
  <2> QED  BY <1>1, <2>1, <2>2 DEF OnTheirRows, OfItsRow, GE!Shown
<1>9. NameTheirDrafts'
  BY <1>1, <1>5 DEF GridInv, NameTheirDrafts
<1>10. SaveInv'
  <2> SUFFICES ASSUME gdSave.on PROVE SaveInv'
    BY <1>1 DEF SaveInv
  <2>1. gdRecovery = {} /\ SaveInv
    BY DEF GridInv, SaveInv
  <2>2. UNCHANGED <<gdMod, gdDel, gdRecovery>>
    BY <1>2, <2>1
  <2>3. UpdatesOfTheirRows(gdSave, gdMoved) => UpdatesOfTheirRows(gdSave, gdMoved')
    BY <1>1 DEF UpdatesOfTheirRows, OfItsRow, GE!Shown
  <2> QED  BY <1>1, <2>1, <2>2, <2>3 DEF SaveInv, SaveTypes, Covered, InsertsApart, UpdatesOfTheirRows, OfItsRow, GE!Shown
<1> QED  BY <1>7, <1>8, <1>9, <1>10 DEF GridInv

(* The whole grid is given up. *)
LEMMA EmptiedSteps ==
  ASSUME GridInv, GE!Undo \/ GE!ReloadServerCopy PROVE GridInv'
<1>1. /\ gdMod' = <<>> /\ gdNew' = <<>> /\ gdReport' = {} /\ gdRecovery' \subseteq gdRecovery /\ ~gdSave'.on
      /\ UNCHANGED <<gdServer, gdPk, gdData, gdRev, gdMoved, gdSpliced>>
  BY NoSaveWhileEditing DEF GE!Undo, GE!ReloadServerCopy, GE!page, GE!ghosts
<1>2. GridTypes'
  <2>1. IsFiniteSet(gdReport') /\ gdNew' \in Seq(DraftKeys) /\ DOMAIN gdMod' = {}
    BY <1>1, FS_EmptySet
  <2>2. gdReport' \subseteq Failures /\ \A f \in gdReport' : f.stale => f.action # "insert"
    BY <1>1
  <2>3. \A i \in DOMAIN gdMod' : gdMod'[i] \in Rows
    BY <2>1
  <2> QED  BY <1>1, <2>1, <2>2, <2>3 DEF GridInv, GridTypes
<1>3. OnTheirRows' /\ NameTheirDrafts'
  <2>1. DOMAIN gdMod' = {}
    BY <1>1
  <2> QED  BY <1>1, <2>1 DEF GridInv, OnTheirRows, NameTheirDrafts, OfItsRow, GE!Shown
<1> QED  BY <1>1, <1>2, <1>3 DEF GridInv, SaveInv

LEMMA LoadSteps ==
  ASSUME GridInv, \/ GE!ParentLoads \/ GE!PageFails
                  \/ \E k \in GridKeys : \E v \in {0, 2} : GE!OthersWrite([gdServer EXCEPT ![k] = v])
  PROVE  GridInv'
<1>1. gdServer \in [GridKeys -> Int]
  BY DEF GridInv, GridTypes
<1>2. CASE GE!ParentLoads
  BY <1>1, <1>2, QuietSteps DEF GE!ParentLoads, GE!page, GE!pending, GE!dialog, GE!ghosts
<1>3. CASE GE!PageFails
  BY <1>1, <1>3, QuietSteps DEF GE!PageFails, GE!page, GE!pending, GE!ghosts
<1>4. ASSUME NEW k \in GridKeys, NEW v \in {0, 2}, GE!OthersWrite([gdServer EXCEPT ![k] = v]) PROVE GridInv'
  BY <1>1, <1>4, QuietSteps DEF GE!OthersWrite, GE!pending, GE!dialog
<1> QED  BY <1>2, <1>3, <1>4

LEMMA GridStep ==
  ASSUME GridInv, GE!Next PROVE GridInv'
<1>1. ~GE!Crashed
  BY DEF GE!Next
<1>2. CASE GE!RowActions
  BY <1>2, CellSteps, OtherEditSteps DEF GE!RowActions
<1>3. CASE GE!DraftActions
  BY <1>3, OtherEditSteps DEF GE!DraftActions
<1>4. CASE GE!DirtyBanner
  BY <1>4, ReviewSteps, EmptiedSteps DEF GE!DirtyBanner
<1>5. GE!Stale \in SUBSET gdReport
  BY DEF GE!Stale
<1>6. CASE GE!FailureBanner
  BY <1>5, <1>6, EmptiedSteps, RecoveryStep, DiscardStep DEF GE!FailureBanner
<1>7. CASE GE!ReviewModal
  BY <1>1, <1>7, ReviewSteps, ConfirmStep DEF GE!ReviewModal
<1>8. CASE GE!ReportLines
  <2>1. PICK f \in gdReport : GE!Discard({f}) \/ GE!QueueRecovery({f})
    BY <1>8 DEF GE!ReportLines
  <2>2. {f} \in SUBSET gdReport
    OBVIOUS
  <2> QED  BY <2>1, <2>2, DiscardStep, RecoveryStep
<1>9. CASE GE!ConflictDialog \/ GE!KeepMine
  BY <1>9, ResolveSteps DEF GE!ConflictDialog
<1>10. CASE GE!Requests
  BY <1>10, SaveStep, FinishStep, LoadSteps, PageStep DEF GE!Requests
<1>11. CASE \E k \in GridKeys : \E v \in {0, 2} : GE!OthersWrite([gdServer EXCEPT ![k] = v])
  BY <1>11, LoadSteps
<1> QED  BY <1>2, <1>3, <1>4, <1>6, <1>7, <1>8, <1>9, <1>10, <1>11 DEF GE!Next

-----------------------------------------------------------------------------
(* What a save leaves. *)

(* A save ends in one way only. *)
LEMMA OnlyFinishEnds ==
  ASSUME GridInv, GE!Next, gdSave.on, ~gdSave'.on PROVE GE!FinishSave
<1>1. gdModal /\ gdRecovery = {}
  BY DEF GridInv, SaveInv
<1>2. ~UNCHANGED gdSave
  OBVIOUS
<1>3. ~GE!RowActions /\ ~GE!DraftActions
  BY <1>1 DEF GE!RowActions, GE!DraftActions, GE!DeleteRow, GE!EditCell, GE!AddDraft, GE!DeleteDraft, GE!UserEdits
<1>4. ~GE!DirtyBanner /\ ~GE!ReviewModal
  BY <1>1 DEF GE!DirtyBanner, GE!RequestReview, GE!Undo, GE!ReviewModal, GE!CloseReview, GE!ConfirmSave
<1>5. ~GE!FailureBanner /\ ~GE!ReportLines
  BY DEF GE!FailureBanner, GE!ReportLines, GE!ReloadServerCopy, GE!QueueRecovery, GE!Discard
<1>6. ~GE!ConflictDialog /\ ~GE!KeepMine
  BY DEF GE!ConflictDialog, GE!Resolve, GE!KeepMine
<1>7. ~GE!ParentLoads /\ ~GE!PageArrives /\ ~GE!PageFails
  BY <1>2 DEF GE!ParentLoads, GE!PageArrives, GE!PageFails, GE!dialog
<1>8. ~ \E k \in GridKeys : \E v \in {0, 2} : GE!OthersWrite([gdServer EXCEPT ![k] = v])
  BY <1>2 DEF GE!OthersWrite, GE!dialog
<1>9. ~GE!SaveNext
  BY SaveStep
<1> QED  BY <1>3, <1>4, <1>5, <1>6, <1>7, <1>8, <1>9 DEF GE!Next, GE!Requests

LEMMA FinishLosesNothing ==
  ASSUME GridInv, GE!FinishSave PROVE GE!NothingLost
<1> DEFINE s  == gdSave
           n  == Len(gdNew)
           nz == {i \in DOMAIN s.new : s.new[i] # 0}
<1>1. s.on /\ gdMod' = s.mod /\ gdDel' = s.del /\ gdNew' = Kept(s.new, nz)
  BY GridOperators DEF GE!FinishSave
<1>2. Covered(s, gdMod, gdDel, gdNew)
  BY <1>1 DEF GridInv, SaveInv
<1>3. n \in Nat /\ DOMAIN gdNew = 1..n /\ s.new \in [1..n -> DraftKeys \cup {0}] /\ gdNew \in Seq(DraftKeys)
  BY <1>2 DEF Covered, GridInv, GridTypes
<1>4. nz \in SUBSET (1..n) /\ \A i \in nz : s.new[i] \in DraftKeys
  BY <1>3
<1> DEFINE list == s.new
<1>5. /\ gdNew' \in Seq(DraftKeys)
      /\ \A i \in nz : Rank(i, nz) \in DOMAIN gdNew' /\ gdNew'[Rank(i, nz)] = list[i]
      /\ \A i, j \in nz : i # j => Rank(i, nz) # Rank(j, nz)
  <2>1. n \in Nat /\ nz \in SUBSET (1..n) /\ \A i \in nz : list[i] \in DraftKeys
    BY <1>3, <1>4
  <2>2. gdNew' = Kept(list, nz)
    BY <1>1
  <2> HIDE DEF nz, n, list
  <2>3. /\ Kept(list, nz) \in Seq(DraftKeys)
        /\ \A i \in nz : Rank(i, nz) \in DOMAIN Kept(list, nz) /\ Kept(list, nz)[Rank(i, nz)] = list[i]
        /\ \A i, j \in nz : i # j => Rank(i, nz) # Rank(j, nz)
    BY ONLY <2>1, KeptDrafts
  <2> QED  BY ONLY <2>2, <2>3
<1>6. ASSUME NEW k \in GridKeys
      PROVE  GE!Count(k, gdNew') >=
                GE!Cardinality({i \in DOMAIN gdNew : gdNew[i] = k /\ <<"insert", i>> \notin s.written})
  <2> DEFINE A == {i \in DOMAIN gdNew : gdNew[i] = k /\ <<"insert", i>> \notin s.written}
             B == {j \in DOMAIN gdNew' : gdNew'[j] = k}
             g == [i \in A |-> Rank(i, nz)]
  <2>1. \A i \in A : i \in nz /\ list[i] = k
    <3>1. \A i \in 1..n : gdNew[i] \in DraftKeys /\ gdNew[i] # 0
      BY <1>3, GridAssumption
    <3>2. \A i \in 1..n : s.new[i] = gdNew[i] \/ <<"insert", i>> \in s.written
      BY <1>2 DEF Covered
    <3>3. \A i \in A : i \in 1..n /\ gdNew[i] = k /\ s.new[i] = gdNew[i]
      BY <1>3, <3>2
    <3> QED  BY <1>3, <3>1, <3>3
  <2>2. \A i \in A : Rank(i, nz) \in B
    BY <1>5, <2>1
  <2> HIDE DEF nz, list
  <2>3. g \in Injection(A, B)
    <3>1. g \in [A -> B]
      BY <2>2
    <3>2. \A i, j \in A : g[i] = g[j] => i = j
      BY <1>5, <2>1
    <3> HIDE DEF A, B, g
    <3> QED  BY <3>1, <3>2 DEF Injection, IsInjective
  <2>4. IsFiniteSet(B)
    <3>1. IsFiniteSet(DOMAIN gdNew')
      <4>1. DOMAIN gdNew' = 1..Len(gdNew') /\ Len(gdNew') \in Nat
        BY <1>5
      <4> QED  BY <4>1, FS_Interval
    <3> QED  BY <3>1, FS_Subset
  <2> HIDE DEF A, B, g
  <2>5. Cardinality(A) <= Cardinality(B) /\ IsFiniteSet(A)
    BY <2>3, <2>4, FS_Injection
  <2>6. Cardinality(A) \in Nat /\ Cardinality(B) \in Nat
    BY <2>4, <2>5, FS_CardinalityType
  <2>7. GE!Count(k, gdNew') = Cardinality(B) /\ GE!Cardinality(A) = Cardinality(A)
    BY GridOperators DEF GE!Count, B
  <2> QED  BY <2>5, <2>6, <2>7 DEF A
<1>7. \A i \in gdDel \ gdDel' : <<"delete", i>> \in gdSave.written
  BY <1>1, <1>2 DEF Covered
<1>8. \A i \in DOMAIN gdMod : \/ <<"update", i>> \in gdSave.written
                              \/ i \in DOMAIN gdMod' /\ gdMod'[i] = gdMod[i]
  BY <1>1, <1>2 DEF Covered
<1> QED  BY <1>6, <1>7, <1>8 DEF GE!NothingLost

LEMMA GridAlways == Spec => []GridOK
<1>1. Init => GridOK
  BY GridStart DEF Init, GridOK
<1>2. GridOK /\ [Next]_vars => GridOK'
  <2> SUFFICES ASSUME GridOK, [Next]_vars, view' = "grid" PROVE GridInv'
    BY DEF GridOK
  <2>1. GridInv /\ (GE!Next \/ UNCHANGED grid)
    BY OthersKeepGrids DEF GridOK
  <2>2. CASE UNCHANGED grid
    <3>1. UNCHANGED <<gdServer, gdPk, gdData, gdRev, gdMod, gdDel, gdNew, gdModal, gdSave, gdReport, gdRecovery, gdSpliced, gdMoved>>
      BY <2>2 DEF grid
    <3>2. gdServer' \in [GridKeys -> Int]
      BY <2>1, <3>1 DEF GridInv, GridTypes
    <3> QED  BY <2>1, <3>1, <3>2, QuietSteps
  <2> QED  BY <2>1, <2>2, GridStep
<1> QED  BY <1>1, <1>2, PTL DEF Spec

(* A pending edit lies on the row it was made on (DataTable findRecoveryRowIndex), for every page,    *)
(* through saves, recoveries and resolved conflicts, until a load moves rows under a pending          *)
(* change; without a primary key it may be moved by a recovery, to a row whose unchanged columns      *)
(* are the same.  The invariant adds that what a save sends, reports or holds back says that row too. *)
THEOREM EditsStay == Spec => []EditsStayOnTheirRows
<1>1. GridOK => EditsStayOnTheirRows
  BY DEF GridOK, GridInv, OnTheirRows, EditsStayOnTheirRows, GE!EditsStayOnTheirRows, OfItsRow, GE!Shown
<1> QED  BY <1>1, GridAlways, PTL

(* A reported insert names the draft that failed (DataTable retainedInsertIndexMap,               *)
(* clearResolvedFailuresFromReport, discardSaveFailures), for any number of drafts and any         *)
(* discards: the inserts that a save has left to send, and those it reports, are of drafts of      *)
(* their own, and move up with them.                                                              *)
THEOREM FailuresName == Spec => []FailuresNameTheirDrafts
<1>1. GridOK => FailuresNameTheirDrafts
  BY DEF GridOK, GridInv, NameTheirDrafts, Names, FailuresNameTheirDrafts, GE!FailuresNameTheirDrafts
<1> QED  BY <1>1, GridAlways, PTL

(* A change that a save takes out of the pending sets was written by the server, and every other   *)
(* one is still pending, drafts with the same key counted (DataTable confirmSave), whichever       *)
(* requests fail or lose their answer.                                                             *)
THEOREM SavesLoseNothing == Spec => SaveLosesNothing
<1>1. GridOK /\ [Next]_vars => [view = "grid" => GE!NothingLost]_grid
  <2> SUFFICES ASSUME GridOK, [Next]_vars, view = "grid", ~UNCHANGED grid PROVE GE!NothingLost
    OBVIOUS
  <2>1. GridInv /\ GE!Next
    BY OthersKeepGrids DEF GridOK
  <2>2. CASE gdSave.on /\ ~gdSave'.on
    BY <2>1, <2>2, OnlyFinishEnds, FinishLosesNothing
  <2>3. CASE ~(gdSave.on /\ ~gdSave'.on)
    BY <2>3 DEF GE!NothingLost
  <2> QED  BY <2>2, <2>3
<1> QED  BY <1>1, GridAlways, PTL DEF Spec, SaveLosesNothing

-----------------------------------------------------------------------------
(* Paging by key. *)

Loads == [page : 1..MaxPage, where : SUBSET TableKeys, desc : BOOLEAN, skip : Nat,
          reverse : BOOLEAN, keyset : BOOLEAN, bound : BOOLEAN, late : BOOLEAN]

Untouched == pgFilter \ pgTouched

(* Each of these rows up to x, in the order of the table, was shown since page 1. *)
Reached(x, rows, seen, desc) == \A k \in rows : TP!Before(x, k, desc) \/ k \in seen

Bounded(b, rows, seen, desc) ==
    b # TP!None => Reached(b.first, rows, seen, desc) /\ Reached(b.last, rows, seen, desc)

(* Of a walk, what the page shows and the bounds of the pages up to it were reached. *)
Sound ==
    pgWalk =>
        /\ \A p \in 1..pgPage : Bounded(pgBounds[p], Untouched, pgSeen, pgDesc)
        /\ pgShown # <<>> => Reached(pgShown[Len(pgShown)], Untouched, pgSeen, pgDesc)

(* The load of a page by its number, and of the first page as things are now. *)
PlainLoad(page, where, desc, keyset) ==
    [page |-> page, where |-> where, desc |-> desc, skip |-> (page - 1) * PageSize, reverse |-> FALSE,
     keyset |-> keyset, bound |-> FALSE, late |-> FALSE]
FirstPage ==
    [page |-> 1, where |-> pgFilter, desc |-> pgDesc, skip |-> 0, reverse |-> FALSE,
     keyset |-> pgKeyset, bound |-> FALSE, late |-> FALSE]

(* A load that ends the walk, whatever it brings. *)
Spoils(r) == r.late \/ (r.page # 1 /\ ~r.bound)

(* What a load asks for by key: the rows after x, or those before x. *)
NextRows(r, x, filter, desc) ==
    /\ ~r.reverse /\ r.skip = 0 /\ r.desc = desc
    /\ r.where = {k \in filter : TP!Before(x, k, desc)}
RowsBefore(r, x, filter, desc) == r.where = {k \in filter : TP!Before(k, x, desc)}

(* A load by key that continues the walk: of the next page, or of the one before. *)
Continues(r) ==
    /\ r.bound /\ r.keyset /\ ~r.late /\ r.page = pgPage /\ pgPage # 1
    /\ pgWalk =>
         /\ \A p \in 1..(pgPage - 1) : Bounded(pgBounds[p], Untouched, pgSeen, pgDesc)
         /\ \E x \in Int :
               /\ Reached(x, Untouched, pgSeen, pgDesc)
               /\ \/ NextRows(r, x, pgFilter, pgDesc)
                  \/ /\ RowsBefore(r, x, pgFilter, pgDesc)
                     /\ Bounded(pgBounds[pgPage], Untouched, pgSeen, pgDesc)

(* How the walk goes on: a timer will start it again, the load issued last decides, or none is  *)
(* under way.                                                                                   *)
Restarts == pgDue # {} /\ pgPage # 1
Decides(r) == (r = FirstPage /\ pgPage = 1) \/ Spoils(r)
Walks ==
    \/ Restarts
    \/ pgLoads # <<>> /\ Decides(pgLoads[Len(pgLoads)])
    \/ pgLoads = <<>> /\ Sound
    \/ Len(pgLoads) = 1 /\ Continues(pgLoads[1])

PageTypes ==
    /\ pgFilter \subseteq TableKeys /\ pgTyped \subseteq TableKeys
    /\ TableKeys \ pgTouched \subseteq pgRows
    /\ pgKeyset \in BOOLEAN /\ pgDesc \in BOOLEAN
    /\ pgPage \in 1..MaxPage
    /\ pgBounds \in [1..MaxPage -> [first : Int, last : Int]]
    /\ ~pgKeyset => pgBounds = TP!NoBounds
    /\ pgLoads \in Seq(Loads) /\ pgShown \in Seq(Int)
    /\ \A i \in DOMAIN pgLoads : pgLoads[i].keyset => pgKeyset
    /\ pgLoads = <<>> => pgNav \notin {"next", "prev"}

PagesInv == PageTypes /\ Walks

LEMMA PageOperators ==
  /\ \A S : TP!InOrder(S) = InOrder(S) /\ TP!Cardinality(S) = Cardinality(S)
  /\ \A s : TP!ToSet(s) = Members(s)
<1>1. \A S : TP!Cardinality(S) = Cardinality(S)
  BY DEF TP!Cardinality, Cardinality, TP!IsFiniteSet, IsFiniteSet
<1>2. \A x, S : TP!Rank(x, S) = Rank(x, S)
  BY <1>1 DEF TP!Rank, Rank
<1>3. \A S : TP!InOrder(S) = InOrder(S)
  BY <1>1, <1>2 DEF TP!InOrder, InOrder
<1>4. \A s : TP!ToSet(s) = Members(s)
  BY DEF TP!ToSet, Members
<1> QED  BY <1>1, <1>3, <1>4

(* What a load asks for: by number, or by a bound of the page before or after it. *)
AsksByKey(r, page, nav, bounds, desc, filter) ==
    /\ r.bound /\ page > 1
    /\ \/ /\ nav = "next" /\ bounds[page - 1] # TP!None
          /\ NextRows(r, bounds[page - 1].last, filter, desc)
       \/ /\ nav = "prev" /\ page < MaxPage /\ bounds[page + 1] # TP!None
          /\ RowsBefore(r, bounds[page + 1].first, filter, desc)
Asks(r, page, nav, bounds, desc, filter, keyset) ==
    /\ r \in Loads /\ r.page = page /\ r.keyset = keyset /\ ~r.late
    /\ \/ r = PlainLoad(page, filter, desc, keyset)
       \/ keyset /\ AsksByKey(r, page, nav, bounds, desc, filter)

LEMMA RequestIs ==
  ASSUME NEW page \in 1..MaxPage, NEW nav, NEW desc \in BOOLEAN, NEW filter \in SUBSET TableKeys,
         NEW keyset \in BOOLEAN, NEW bounds \in [1..MaxPage -> [first : Int, last : Int]]
  PROVE  Asks(TP!Request(page, nav, bounds, desc, filter, keyset), page, nav, bounds, desc, filter, keyset)
<1> DEFINE r == TP!Request(page, nav, bounds, desc, filter, keyset)
           plain == PlainLoad(page, filter, desc, keyset)
           prev == IF page > 1 THEN bounds[page - 1] ELSE TP!None
           next == IF page < MaxPage THEN bounds[page + 1] ELSE TP!None
           after == {k \in filter : TP!Before(prev.last, k, desc)}
           before == {k \in filter : TP!Before(k, next.first, desc)}
<1>1. MaxPage \in Nat /\ PageSize \in Nat
  BY PageAssumption
<1>2. (page - 1) * PageSize \in Nat
  <2>1. page - 1 \in Nat
    BY <1>1
  <2> QED  BY <1>1, <2>1
<1>3. plain \in Loads
  BY <1>2 DEF PlainLoad, Loads
<1>4. after \in SUBSET TableKeys /\ before \in SUBSET TableKeys /\ (~desc) \in BOOLEAN
  OBVIOUS
<1>5. r = IF keyset /\ page > 1 /\ nav = "next" /\ prev # TP!None
          THEN [plain EXCEPT !.skip = 0, !.bound = TRUE, !.where = after]
          ELSE IF keyset /\ page > 1 /\ nav = "prev" /\ next # TP!None
          THEN [plain EXCEPT !.skip = 0, !.bound = TRUE, !.desc = ~desc, !.reverse = TRUE, !.where = before]
          ELSE plain
  BY DEF TP!Request, TP!Skip, PlainLoad
<1>6. CASE keyset /\ page > 1 /\ nav = "next" /\ prev # TP!None
  <2>1. r = [page |-> page, where |-> after, desc |-> desc, skip |-> 0, reverse |-> FALSE,
             keyset |-> keyset, bound |-> TRUE, late |-> FALSE]
    BY <1>5, <1>6 DEF PlainLoad
  <2>2. r \in Loads
    BY <1>4, <2>1 DEF Loads
  <2>3. prev = bounds[page - 1]
    BY <1>6
  <2>4. r.where = {k \in filter : TP!Before(bounds[page - 1].last, k, desc)}
    BY <2>1, <2>3
  <2>5. r.page = page /\ r.keyset = keyset /\ ~r.late /\ r.bound /\ r.skip = 0 /\ ~r.reverse /\ r.desc = desc
    BY <2>1
  <2>6. NextRows(r, bounds[page - 1].last, filter, desc)
    BY <2>4, <2>5 DEF NextRows
  <2> QED  BY <1>6, <2>2, <2>3, <2>5, <2>6 DEF Asks, AsksByKey
<1>7. CASE ~(keyset /\ page > 1 /\ nav = "next" /\ prev # TP!None)
           /\ keyset /\ page > 1 /\ nav = "prev" /\ next # TP!None
  <2>1. r = [page |-> page, where |-> before, desc |-> ~desc, skip |-> 0, reverse |-> TRUE,
             keyset |-> keyset, bound |-> TRUE, late |-> FALSE]
    BY <1>5, <1>7 DEF PlainLoad
  <2>2. r \in Loads
    BY <1>4, <2>1 DEF Loads
  <2>3. next = bounds[page + 1] /\ page < MaxPage
    BY <1>7
  <2>4. r.where = {k \in filter : TP!Before(k, bounds[page + 1].first, desc)}
    BY <2>1, <2>3
  <2>5. r.page = page /\ r.keyset = keyset /\ ~r.late /\ r.bound
    BY <2>1
  <2> QED  BY <1>7, <2>2, <2>3, <2>4, <2>5 DEF Asks, AsksByKey, RowsBefore
<1>8. CASE ~(keyset /\ page > 1 /\ nav = "next" /\ prev # TP!None)
           /\ ~(keyset /\ page > 1 /\ nav = "prev" /\ next # TP!None)
  <2>1. r = plain
    BY <1>5, <1>8
  <2>2. plain.page = page /\ plain.keyset = keyset /\ plain.late = FALSE
    BY DEF PlainLoad
  <2> HIDE DEF plain
  <2>3. r \in Loads /\ r.page = page /\ r.keyset = keyset /\ ~r.late
    BY <1>3, <2>1, <2>2
  <2> QED  BY <2>1, <2>3 DEF plain, Asks
<1> QED  BY <1>6, <1>7, <1>8

LEMMA JoinIs ==
  ASSUME NEW S, NEW a \in Seq(S), NEW b \in Seq(S)
  PROVE  /\ a \o b \in Seq(S) /\ Len(a \o b) = Len(a) + Len(b)
         /\ \A j \in 1..(Len(a) + Len(b)) : (a \o b)[j] = IF j <= Len(a) THEN a[j] ELSE b[j - Len(a)]
OBVIOUS

LEMMA WithoutOne ==
  ASSUME NEW S, NEW s \in Seq(S), NEW i \in 1..Len(s)
  PROVE  LET w == SubSeq(s, 1, i - 1) \o SubSeq(s, i + 1, Len(s))
         IN  /\ w \in Seq(S) /\ Len(w) = Len(s) - 1
             /\ \A j \in 1..(Len(s) - 1) : w[j] = IF j < i THEN s[j] ELSE s[j + 1]
<1>1. Len(s) \in Nat
  OBVIOUS
<1>2. PICK a : /\ a = SubSeq(s, 1, i - 1)
              /\ a \in Seq(S) /\ Len(a) = i - 1 /\ \A j \in 1..(i - 1) : a[j] = s[j]
  <2> DEFINE a == SubSeq(s, 1, i - 1)
  <2>1. a \in Seq(S) /\ Len(a) = i - 1 /\ \A j \in 1..(i - 1) : a[j] = s[j]
    BY <1>1
  <2> QED  BY <2>1
<1>3. PICK b : /\ b = SubSeq(s, i + 1, Len(s))
              /\ b \in Seq(S) /\ Len(b) = Len(s) - i /\ \A j \in 1..(Len(s) - i) : b[j] = s[i + j]
  <2> DEFINE b == SubSeq(s, i + 1, Len(s))
  <2>1. b \in Seq(S)
    BY <1>1
  <2>2. Len(b) = Len(s) - i
    BY <1>1
  <2>3. \A j \in 1..(Len(s) - i) : b[j] = s[i + j]
    BY <1>1
  <2> QED  BY <2>1, <2>2, <2>3
<1>4. /\ a \o b \in Seq(S) /\ Len(a \o b) = Len(s) - 1
      /\ \A j \in 1..(Len(s) - 1) : (a \o b)[j] = IF j <= i - 1 THEN a[j] ELSE b[j - (i - 1)]
  <2>1. /\ a \o b \in Seq(S) /\ Len(a \o b) = Len(a) + Len(b)
        /\ \A j \in 1..(Len(a) + Len(b)) : (a \o b)[j] = IF j <= Len(a) THEN a[j] ELSE b[j - Len(a)]
    <3>1. a \in Seq(S) /\ b \in Seq(S)
      BY <1>2, <1>3
    <3> QED  BY ONLY <3>1, JoinIs
  <2>2. Len(a) = i - 1
    BY ONLY <1>2
  <2>3. Len(b) = Len(s) - i
    BY ONLY <1>3
  <2>4. Len(a) + Len(b) = Len(s) - 1
    BY <1>1, <2>2, <2>3
  <2> QED  BY <2>1, <2>2, <2>4
<1>5. ASSUME NEW j \in 1..(Len(s) - 1) PROVE (a \o b)[j] = IF j < i THEN s[j] ELSE s[j + 1]
  <2>1. CASE j < i
    <3>1. j <= i - 1 /\ j \in 1..(i - 1)
      BY <2>1
    <3> QED  BY <1>2, <1>4, <2>1, <3>1
  <2>2. CASE ~(j < i)
    <3>1. ~(j <= i - 1) /\ j - (i - 1) \in 1..(Len(s) - i) /\ i + (j - (i - 1)) = j + 1
      BY <1>1, <2>2
    <3>2. b[j - (i - 1)] = s[i + (j - (i - 1))]
      BY <1>3, <3>1
    <3> QED  BY <1>4, <2>2, <3>1, <3>2
  <2> QED  BY <2>1, <2>2
<1> QED  BY <1>2, <1>3, <1>4, <1>5

(* The loads that are left when load i is over: the last one as it was, or late. *)
LEMMA WithoutLoads ==
  ASSUME pgLoads \in Seq(Loads), NEW i \in 1..Len(pgLoads)
  PROVE  /\ TP!Without(i) \in Seq(Loads) /\ Len(TP!Without(i)) = Len(pgLoads) - 1
         /\ \A j \in 1..(Len(pgLoads) - 1) :
               \E m \in 1..Len(pgLoads) : TP!Without(i)[j].keyset = pgLoads[m].keyset
         /\ i < Len(pgLoads) => TP!Without(i)[Len(pgLoads) - 1] = pgLoads[Len(pgLoads)]
         /\ i = Len(pgLoads) /\ Len(pgLoads) > 1 => TP!Without(i)[Len(pgLoads) - 1].late
<1> DEFINE n == Len(pgLoads)
           s == [j \in 1..n |-> [pgLoads[j] EXCEPT !.late = @ \/ j < i]]
           w == TP!Without(i)
<1>1. n \in Nat /\ DOMAIN pgLoads = 1..n /\ \A j \in 1..n : pgLoads[j] \in Loads
  OBVIOUS
<1>2. ASSUME NEW j \in 1..n
      PROVE  /\ s[j] \in Loads /\ s[j].keyset = pgLoads[j].keyset
             /\ j < i => s[j].late
             /\ i < j => s[j] = pgLoads[j]
  <2>1. pgLoads[j] \in Loads
    BY <1>1
  <2>2. (pgLoads[j].late \/ j < i) \in BOOLEAN
    OBVIOUS
  <2>3. s[j] \in Loads /\ s[j].keyset = pgLoads[j].keyset
    BY <2>1, <2>2 DEF Loads
  <2>4. j < i => s[j].late
    BY <2>1 DEF Loads
  <2>5. i < j => s[j] = pgLoads[j]
    BY <2>1 DEF Loads
  <2> QED  BY <2>3, <2>4, <2>5
<1>3. w = SubSeq(s, 1, i - 1) \o SubSeq(s, i + 1, n)
  <2>1. Len(s) = n
    BY <1>1
  <2> QED  BY <1>1, <2>1 DEF TP!Without, TP!RemoveAt
<1>4. s \in Seq(Loads)
  <2>1. \A j \in 1..n : s[j] \in Loads
    BY <1>2
  <2>2. s = [j \in 1..n |-> s[j]]
    OBVIOUS
  <2> HIDE DEF s
  <2> QED  BY <1>1, <2>1, <2>2
<1>5. Len(s) = n
  BY <1>1
<1> HIDE DEF s
<1>7. /\ w \in Seq(Loads) /\ Len(w) = n - 1
      /\ \A j \in 1..(n - 1) : w[j] = IF j < i THEN s[j] ELSE s[j + 1]
  <2>1. i \in 1..Len(s)
    BY <1>5
  <2>2. LET v == SubSeq(s, 1, i - 1) \o SubSeq(s, i + 1, Len(s))
        IN  /\ v \in Seq(Loads) /\ Len(v) = Len(s) - 1
            /\ \A j \in 1..(Len(s) - 1) : v[j] = IF j < i THEN s[j] ELSE s[j + 1]
    BY ONLY <1>4, <2>1, WithoutOne
  <2> QED  BY <1>3, <1>5, <2>2
<1>8. \A j \in 1..(n - 1) : \E m \in 1..n : w[j].keyset = pgLoads[m].keyset
  <2>1. \A j \in 1..(n - 1) : j \in 1..n /\ j + 1 \in 1..n
    BY <1>1
  <2> QED  BY <1>2, <1>7, <2>1
<1>9. i < n => w[n - 1] = pgLoads[n]
  BY <1>1, <1>2, <1>7
<1>10. i = n /\ n > 1 => w[n - 1].late
  BY <1>1, <1>2, <1>7
<1> QED  BY <1>7, <1>8, <1>9, <1>10

(* What a load brings: rows it asked for, and by key every one of them up to the last it brings. *)
LEMMA AnswerIs ==
  ASSUME NEW r \in Loads, NEW a, a = TP!Answer(r)
  PROVE  /\ a.rows \in Seq(pgRows \cap r.where)
         /\ ~r.reverse /\ r.skip = 0 /\ a.rows = <<>> => pgRows \cap r.where = {}
         /\ ~r.reverse /\ r.skip = 0 /\ a.rows # <<>> =>
              /\ \A k \in pgRows \cap r.where :
                    TP!Before(a.rows[Len(a.rows)], k, r.desc) \/ k \in Members(a.rows)
              /\ TP!Before(a.rows[1], a.rows[Len(a.rows)], r.desc) \/ a.rows[1] = a.rows[Len(a.rows)]
<1> DEFINE found == pgRows \cap r.where
           count == Cardinality(found)
           rest  == IF count > r.skip THEN count - r.skip ELSE 0
           taken == IF rest < PageSize THEN rest ELSE PageSize
           at(n) == IF r.desc THEN count + 1 - n ELSE n
           order == InOrder(found)
           place(n) == at(r.skip + (IF r.reverse THEN taken + 1 - n ELSE n))
<1>1. found \subseteq Int /\ IsFiniteSet(found)
  BY PageAssumption, FS_Subset DEF Loads
<1>2. count \in Nat /\ PageSize \in Nat \ {0} /\ r.skip \in Nat /\ r.desc \in BOOLEAN /\ r.reverse \in BOOLEAN
  BY <1>1, FS_CardinalityType, PageAssumption DEF Loads
<1>3. a.rows = [n \in 1..taken |-> order[place(n)]]
  BY PageOperators DEF TP!Answer
<1>4. /\ order \in [1..count -> found]
      /\ \A x \in found : order[Rank(x, found)] = x
      /\ \A m, n \in 1..count : m < n => order[m] < order[n]
  BY <1>1, Ordered
<1>5. \A x \in found : Rank(x, found) \in 1..count
  BY <1>1, RankType
<1> HIDE DEF found, count, order
<1>6. taken \in Nat /\ \A n \in 1..taken : place(n) \in 1..count
  BY <1>2
<1>7. a.rows \in Seq(found) /\ Len(a.rows) = taken
  BY <1>3, <1>4, <1>6
<1>8. ASSUME ~r.reverse, r.skip = 0
      PROVE  /\ taken \in Nat /\ taken = IF count < PageSize THEN count ELSE PageSize
             /\ \A n \in 1..taken : a.rows[n] = order[at(n)]
  BY <1>2, <1>3, <1>6, <1>8
<1>9. ASSUME ~r.reverse, r.skip = 0, a.rows = <<>> PROVE found = {}
  <2>1. count = 0
    BY <1>2, <1>7, <1>8, <1>9
  <2> QED  BY <1>5, <2>1
<1>10. ASSUME ~r.reverse, r.skip = 0, a.rows # <<>>
       PROVE  /\ \A k \in found : TP!Before(a.rows[Len(a.rows)], k, r.desc) \/ k \in Members(a.rows)
              /\ TP!Before(a.rows[1], a.rows[Len(a.rows)], r.desc) \/ a.rows[1] = a.rows[Len(a.rows)]
  <2>1. taken > 0 /\ taken <= count
    BY <1>2, <1>7, <1>8, <1>10
  <2>2. a.rows[1] = order[at(1)] /\ a.rows[Len(a.rows)] = order[at(taken)]
    BY <1>7, <1>8, <1>10, <2>1
  <2>3. ASSUME NEW k \in found, k \notin Members(a.rows) PROVE TP!Before(a.rows[Len(a.rows)], k, r.desc)
    <3> DEFINE m == Rank(k, found)
    <3>1. m \in 1..count /\ order[m] = k
      BY <1>4, <1>5
    <3> HIDE DEF m
    <3>2. at(at(m)) = m /\ at(m) \in 1..count
      BY <1>2, <3>1
    <3>3. ~(at(m) <= taken)
      <4>1. SUFFICES ASSUME at(m) \in 1..taken PROVE FALSE
        BY <1>8, <1>10, <3>2
      <4>2. a.rows[at(m)] = k
        BY <1>8, <1>10, <3>1, <3>2, <4>1
      <4> QED  BY <1>7, <2>3, <4>1, <4>2 DEF Members
    <3>4. at(taken) \in 1..count /\ IF r.desc THEN m < at(taken) ELSE at(taken) < m
      BY <1>2, <2>1, <3>1, <3>2, <3>3, <1>8, <1>10
    <3>5. IF r.desc THEN order[m] < order[at(taken)] ELSE order[at(taken)] < order[m]
      BY <1>4, <3>1, <3>4
    <3>6. order[m] \in Int /\ order[at(taken)] \in Int
      BY <1>1, <1>4, <3>1, <3>4
    <3> QED  BY <2>2, <3>1, <3>5, <3>6 DEF TP!Before
  <2>4. TP!Before(a.rows[1], a.rows[Len(a.rows)], r.desc) \/ a.rows[1] = a.rows[Len(a.rows)]
    <3>1. at(1) \in 1..count /\ at(taken) \in 1..count
      BY <1>2, <1>8, <1>10, <2>1
    <3>2. at(1) = at(taken) \/ IF r.desc THEN at(taken) < at(1) ELSE at(1) < at(taken)
      BY <1>2, <1>8, <1>10, <2>1
    <3>3. order[at(1)] \in Int /\ order[at(taken)] \in Int
      BY <1>1, <1>4, <3>1
    <3>4. order[at(1)] = order[at(taken)]
          \/ IF r.desc THEN order[at(taken)] < order[at(1)] ELSE order[at(1)] < order[at(taken)]
      BY <1>4, <3>1, <3>2
    <3> QED  BY <2>2, <3>3, <3>4 DEF TP!Before
  <2> QED  BY <2>3, <2>4
<1> QED  BY <1>7, <1>9, <1>10 DEF found

-----------------------------------------------------------------------------
(* The steps of the table view. *)

LEMMA Appended ==
  ASSUME NEW s \in Seq(Loads), NEW r \in Loads, NEW on, r.keyset => on,
         \A i \in DOMAIN s : s[i].keyset => on
  PROVE  /\ Append(s, r) \in Seq(Loads) /\ Append(s, r) # <<>>
         /\ Append(s, r)[Len(Append(s, r))] = r /\ Len(Append(s, r)) = Len(s) + 1
         /\ \A i \in DOMAIN Append(s, r) : Append(s, r)[i].keyset => on
OBVIOUS

(* A load by number is the load of the first page, or ends the walk. *)
LEMMA PlainDecides ==
  ASSUME NEW page \in 1..MaxPage, NEW where, NEW desc, NEW keyset
  PROVE  /\ PlainLoad(1, where, desc, keyset) =
              [page |-> 1, where |-> where, desc |-> desc, skip |-> 0, reverse |-> FALSE,
               keyset |-> keyset, bound |-> FALSE, late |-> FALSE]
         /\ page # 1 => Spoils(PlainLoad(page, where, desc, keyset))
<1>1. (1 - 1) * PageSize = 0
  BY PageAssumption
<1>2. PlainLoad(page, where, desc, keyset).page = page /\ PlainLoad(page, where, desc, keyset).bound = FALSE
  BY DEF PlainLoad
<1>3. page # 1 => Spoils(PlainLoad(page, where, desc, keyset))
  BY <1>2 DEF Spoils
<1> QED  BY <1>1, <1>3 DEF PlainLoad

LEMMA SchemaStep ==
  ASSUME PagesInv, TP!SchemaArrives
  PROVE  PagesInv'
<1>1. PICK r : /\ r = TP!Request(pgPage, pgNav, pgBounds, pgDesc, pgFilter, TRUE)
              /\ pgLoads' = Append(pgLoads, r)
  BY DEF TP!SchemaArrives, TP!LoadWith, TP!Load
<1>2. /\ pgKeyset = FALSE /\ pgKeyset' = TRUE
      /\ UNCHANGED <<pgRows, pgPage, pgNav, pgBounds, pgMore, pgShown, pgDesc, pgFilter, pgTyped,
                     pgDue, pgTurns, pgWrites, pgTouched, pgSeen, pgWalk>>
  BY DEF TP!SchemaArrives, PagesInv, PageTypes
<1>3. /\ pgFilter \in SUBSET TableKeys /\ pgDesc \in BOOLEAN /\ pgPage \in 1..MaxPage
      /\ pgBounds \in [1..MaxPage -> [first : Int, last : Int]] /\ pgBounds = TP!NoBounds
      /\ pgLoads \in Seq(Loads)
  BY <1>2 DEF PagesInv, PageTypes
<1>4. Asks(r, pgPage, pgNav, pgBounds, pgDesc, pgFilter, TRUE)
  BY <1>1, <1>3, RequestIs
<1>5. \A p \in 1..MaxPage : pgBounds[p] = TP!None
  BY <1>3 DEF TP!NoBounds
<1>6. ~AsksByKey(r, pgPage, pgNav, pgBounds, pgDesc, pgFilter)
  BY <1>3, <1>5, PageAssumption DEF AsksByKey
<1>7. r \in Loads /\ r = PlainLoad(pgPage, pgFilter, pgDesc, TRUE)
  BY <1>4, <1>6 DEF Asks
<1>8. /\ pgLoads' \in Seq(Loads) /\ pgLoads' # <<>> /\ pgLoads'[Len(pgLoads')] = r
      /\ \A i \in DOMAIN pgLoads' : pgLoads'[i].keyset => TRUE
  BY <1>1, <1>3, <1>7, Appended
<1>9. PageTypes'
  BY <1>2, <1>8 DEF PagesInv, PageTypes
<1>10. (r = FirstPage' /\ pgPage' = 1) \/ Spoils(r)
  BY <1>2, <1>3, <1>7, PlainDecides DEF FirstPage
<1> QED  BY <1>8, <1>9, <1>10 DEF PagesInv, Walks, Decides, Spoils

(* A page is turned or loaded again: after an answer, by the bound of a page that was reached. *)
LEMMA TurnStep ==
  ASSUME PagesInv, NEW page \in 1..MaxPage, NEW nav, TP!Turn(page, nav),
         \/ page = pgPage + 1 /\ nav = "next"
         \/ page = pgPage - 1 /\ nav = "prev"
         \/ page = pgPage /\ nav = pgNav
  PROVE  PagesInv'
<1>1. PICK ask : ask = TP!Request(page, nav, pgBounds, pgDesc, pgFilter, pgKeyset)
  OBVIOUS
<1>2. PICK r : r = [ask EXCEPT !.late = pgLoads # <<>>] /\ pgLoads' = Append(pgLoads, r)
  BY <1>1 DEF TP!Turn, TP!Load
<1>3. /\ pgPage' = page /\ pgNav' = nav
      /\ UNCHANGED <<pgRows, pgKeyset, pgBounds, pgMore, pgShown, pgDesc, pgFilter, pgTyped, pgDue,
                     pgTurns, pgWrites, pgTouched, pgSeen, pgWalk>>
  BY DEF TP!Turn
<1>4. /\ pgFilter \in SUBSET TableKeys /\ pgDesc \in BOOLEAN /\ pgPage \in 1..MaxPage /\ pgKeyset \in BOOLEAN
      /\ pgBounds \in [1..MaxPage -> [first : Int, last : Int]] /\ pgLoads \in Seq(Loads)
      /\ \A i \in DOMAIN pgLoads : pgLoads[i].keyset => pgKeyset
  BY DEF PagesInv, PageTypes
<1>5. Asks(ask, page, nav, pgBounds, pgDesc, pgFilter, pgKeyset)
  BY <1>1, <1>4, RequestIs
<1>6. ask \in Loads /\ ask.page = page /\ ask.keyset = pgKeyset /\ ~ask.late
  BY <1>5 DEF Asks
<1>7. r \in Loads /\ r.keyset = pgKeyset /\ (pgLoads # <<>> => r.late)
  <2>1. (pgLoads # <<>>) \in BOOLEAN
    OBVIOUS
  <2> QED  BY <1>2, <1>6, <2>1 DEF Loads
<1>8. /\ pgLoads' \in Seq(Loads) /\ pgLoads' # <<>> /\ pgLoads'[Len(pgLoads')] = r
      /\ Len(pgLoads') = Len(pgLoads) + 1 /\ \A i \in DOMAIN pgLoads' : pgLoads'[i].keyset => pgKeyset
  BY <1>2, <1>4, <1>7, Appended
<1>9. PageTypes'
  BY <1>3, <1>8 DEF PagesInv, PageTypes
<1>10. CASE pgLoads # <<>>
  BY <1>7, <1>8, <1>9, <1>10 DEF PagesInv, Walks, Decides, Spoils
<1>11. CASE pgLoads = <<>>
  <2>1. r = ask
    BY <1>2, <1>6, <1>11 DEF Loads
  <2>2. CASE r = PlainLoad(page, pgFilter, pgDesc, pgKeyset)
    <3>1. (r = FirstPage' /\ pgPage' = 1) \/ Spoils(r)
      BY <1>3, <2>2, PlainDecides DEF FirstPage
    <3> QED  BY <1>8, <1>9, <3>1 DEF PagesInv, Walks, Decides, Spoils
  <2>3. CASE pgKeyset /\ AsksByKey(r, page, nav, pgBounds, pgDesc, pgFilter)
    <3>1. r.bound /\ page > 1 /\ r.page = page /\ r.keyset /\ ~r.late
      BY <1>6, <2>1, <2>3 DEF AsksByKey
    <3>2. CASE pgDue # {}
      BY <1>3, <1>9, <3>1, <3>2 DEF PagesInv, Walks, Restarts
    <3>3. CASE pgDue = {}
      <4>1. Sound
        BY <1>11, <3>3 DEF PagesInv, Walks, Restarts
      <4>2. pgNav \notin {"next", "prev"}
        BY <1>11 DEF PagesInv, PageTypes
      <4>3. ASSUME pgWalk
            PROVE  /\ \A p \in 1..(page - 1) : Bounded(pgBounds[p], Untouched, pgSeen, pgDesc)
                   /\ \E x \in Int :
                         /\ Reached(x, Untouched, pgSeen, pgDesc)
                         /\ \/ NextRows(r, x, pgFilter, pgDesc)
                            \/ /\ RowsBefore(r, x, pgFilter, pgDesc)
                               /\ Bounded(pgBounds[page], Untouched, pgSeen, pgDesc)
        <5>1. \A p \in 1..pgPage : Bounded(pgBounds[p], Untouched, pgSeen, pgDesc)
          BY <4>1, <4>3 DEF Sound
        <5>2. CASE nav = "next"
          <6>1. page - 1 = pgPage /\ pgPage \in 1..pgPage
            BY <1>4, <4>2, <5>2
          <6>2. pgBounds[pgPage] # TP!None /\ NextRows(r, pgBounds[pgPage].last, pgFilter, pgDesc)
            BY <2>3, <5>2, <6>1 DEF AsksByKey
          <6>3. Reached(pgBounds[pgPage].last, Untouched, pgSeen, pgDesc)
            BY <5>1, <6>1, <6>2 DEF Bounded
          <6>4. pgBounds[pgPage].last \in Int
            BY <1>4
          <6> QED  BY <5>1, <6>1, <6>2, <6>3, <6>4
        <5>3. CASE nav = "prev"
          <6>1. page + 1 = pgPage /\ pgPage \in 1..pgPage /\ page \in 1..pgPage
            BY <1>4, <4>2, <5>3
          <6>2. pgBounds[pgPage] # TP!None /\ RowsBefore(r, pgBounds[pgPage].first, pgFilter, pgDesc)
            BY <2>3, <5>3, <6>1 DEF AsksByKey
          <6>3. Reached(pgBounds[pgPage].first, Untouched, pgSeen, pgDesc)
            BY <5>1, <6>1, <6>2 DEF Bounded
          <6>4. pgBounds[pgPage].first \in Int
            BY <1>4
          <6>5. \A p \in 1..(page - 1) : p \in 1..pgPage
            BY <1>4, <6>1
          <6> QED  BY <5>1, <6>1, <6>2, <6>3, <6>4, <6>5
        <5> QED  BY <2>3, <5>2, <5>3 DEF AsksByKey
      <4>4. Continues(r)'
        BY <1>3, <3>1, <4>3 DEF Continues, Untouched, Bounded, Reached, NextRows, RowsBefore
      <4>5. Len(pgLoads') = 1 /\ pgLoads'[1] = r
        BY <1>8, <1>11
      <4> QED  BY <1>9, <4>4, <4>5 DEF PagesInv, Walks
    <3> QED  BY <3>2, <3>3
  <2> QED  BY <1>5, <2>1, <2>2, <2>3 DEF Asks
<1> QED  BY <1>10, <1>11

(* A change of the order: page 1 is loaded again, and any other page is left when the timer ends. *)
LEMMA SortStep ==
  ASSUME PagesInv, TP!ChangeSort
  PROVE  PagesInv'
<1>1. PICK r : /\ r = TP!Request(pgPage, pgNav, pgBounds, ~pgDesc, pgFilter, pgKeyset)
              /\ pgLoads' = Append(pgLoads, r)
  BY DEF TP!ChangeSort, TP!LoadWith, TP!Load
<1>2. /\ pgDesc' = ~pgDesc /\ pgDue' = pgDue \cup {"sort"}
      /\ UNCHANGED <<pgRows, pgKeyset, pgPage, pgNav, pgBounds, pgMore, pgShown, pgFilter, pgTyped,
                     pgWrites, pgTouched, pgSeen, pgWalk>>
  BY DEF TP!ChangeSort
<1>3. /\ pgFilter \in SUBSET TableKeys /\ pgPage \in 1..MaxPage /\ pgKeyset \in BOOLEAN
      /\ pgBounds \in [1..MaxPage -> [first : Int, last : Int]] /\ pgLoads \in Seq(Loads)
      /\ \A i \in DOMAIN pgLoads : pgLoads[i].keyset => pgKeyset
  BY DEF PagesInv, PageTypes
<1>4. (~pgDesc) \in BOOLEAN
  OBVIOUS
<1>5. Asks(r, pgPage, pgNav, pgBounds, ~pgDesc, pgFilter, pgKeyset)
  BY <1>1, <1>3, <1>4, RequestIs
<1>6. r \in Loads /\ r.keyset = pgKeyset
  BY <1>5 DEF Asks
<1>7. /\ pgLoads' \in Seq(Loads) /\ pgLoads' # <<>> /\ pgLoads'[Len(pgLoads')] = r
      /\ \A i \in DOMAIN pgLoads' : pgLoads'[i].keyset => pgKeyset
  BY <1>1, <1>3, <1>6, Appended
<1>8. PageTypes'
  BY <1>2, <1>4, <1>7 DEF PagesInv, PageTypes
<1>9. CASE pgPage = 1
  <2>1. r = PlainLoad(1, pgFilter, ~pgDesc, pgKeyset)
    BY <1>5, <1>9 DEF Asks, AsksByKey
  <2>2. r = FirstPage'
    BY <1>2, <1>3, <1>9, <2>1, PlainDecides DEF FirstPage
  <2> QED  BY <1>2, <1>7, <1>8, <1>9, <2>2 DEF PagesInv, Walks, Decides
<1>10. CASE pgPage # 1
  BY <1>2, <1>8, <1>10 DEF PagesInv, Walks, Restarts
<1> QED  BY <1>9, <1>10

(* Another filter is typed: nothing is loaded before the timer ends. *)
LEMMA FilterStep ==
  ASSUME PagesInv, NEW f \in SUBSET TableKeys, TP!ChangeFilter(f)
  PROVE  PagesInv'
<1>1. /\ pgTyped' = f /\ pgDue' = pgDue \cup {"filter"}
      /\ UNCHANGED <<pgRows, pgKeyset, pgPage, pgNav, pgBounds, pgMore, pgShown, pgDesc, pgFilter,
                     pgLoads, pgWrites, pgTouched, pgSeen, pgWalk>>
  BY DEF TP!ChangeFilter
<1>2. PageTypes'
  BY <1>1 DEF PagesInv, PageTypes
<1>3. CASE Restarts
  BY <1>1, <1>2, <1>3 DEF PagesInv, Walks, Restarts
<1>4. CASE pgLoads # <<>> /\ Decides(pgLoads[Len(pgLoads)])
  BY <1>1, <1>2, <1>4 DEF PagesInv, Walks, Decides, FirstPage, Spoils
<1>5. CASE pgLoads = <<>> /\ Sound
  BY <1>1, <1>2, <1>5 DEF PagesInv, Walks, Sound, Untouched, Bounded, Reached
<1>6. CASE Len(pgLoads) = 1 /\ Continues(pgLoads[1])
  <2>1. Continues(pgLoads[1])'
    BY <1>1, <1>6 DEF Continues, Untouched, Bounded, Reached, NextRows, RowsBefore
  <2> QED  BY <1>1, <1>2, <1>6, <2>1 DEF PagesInv, Walks
<1> QED  BY <1>3, <1>4, <1>5, <1>6 DEF PagesInv, Walks

(* On page 1 the reset only forgets the bounds. *)
LEMMA BoundsForgotten ==
  ASSUME PagesInv, pgPage = 1, pgPage' = 1, pgBounds' = TP!NoBounds, PageTypes',
         UNCHANGED <<pgKeyset, pgShown, pgDesc, pgFilter, pgLoads, pgTouched, pgSeen, pgWalk>>
  PROVE  PagesInv'
<1>1. CASE pgLoads # <<>> /\ Decides(pgLoads[Len(pgLoads)])
  BY <1>1 DEF PagesInv, Walks, Decides, FirstPage, Spoils
<1>2. CASE pgLoads = <<>> /\ Sound
  <2>1. 1 \in 1..MaxPage /\ \A p \in 1..1 : p = 1
    BY DEF PagesInv, PageTypes
  <2>2. \A p \in 1..1 : pgBounds'[p] = TP!None
    BY <2>1 DEF TP!NoBounds
  <2>3. Sound'
    BY <1>2, <2>2 DEF Sound, Untouched, Bounded, Reached
  <2> QED  BY <1>2, <2>3 DEF PagesInv, Walks
<1>3. ~Restarts /\ ~Continues(pgLoads[1])
  BY DEF Restarts, Continues
<1> QED  BY <1>1, <1>2, <1>3 DEF PagesInv, Walks

LEMMA ResetStep ==
  ASSUME PagesInv, TP!ResetGrid
  PROVE  PagesInv'
<1>1. /\ pgTyped' = TableKeys /\ pgDesc' = FALSE /\ pgPage' = 1 /\ pgNav' = "reset" /\ pgBounds' = TP!NoBounds
      /\ UNCHANGED <<pgRows, pgKeyset, pgMore, pgShown, pgFilter, pgTurns, pgWrites, pgTouched,
                     pgSeen, pgWalk>>
  BY DEF TP!ResetGrid
<1>2. /\ pgFilter \in SUBSET TableKeys /\ pgPage \in 1..MaxPage /\ pgKeyset \in BOOLEAN /\ pgLoads \in Seq(Loads)
      /\ \A i \in DOMAIN pgLoads : pgLoads[i].keyset => pgKeyset
  BY DEF PagesInv, PageTypes
<1>3. 1 \in 1..MaxPage /\ TP!NoBounds \in [1..MaxPage -> [first : Int, last : Int]]
  BY PageAssumption DEF TP!NoBounds, TP!None
<1>4. CASE pgPage # 1 \/ pgDesc
  <2>1. PICK r : /\ r = TP!Request(1, "reset", TP!NoBounds, FALSE, pgFilter, pgKeyset)
                /\ pgLoads' = Append(pgLoads, r)
    BY <1>4 DEF TP!ResetGrid, TP!LoadWith, TP!Load
  <2>2. Asks(r, 1, "reset", TP!NoBounds, FALSE, pgFilter, pgKeyset)
    BY <1>2, <1>3, <2>1, RequestIs
  <2>3. r \in Loads /\ r.keyset = pgKeyset /\ r = PlainLoad(1, pgFilter, FALSE, pgKeyset)
    BY <2>2 DEF Asks, AsksByKey
  <2>4. /\ pgLoads' \in Seq(Loads) /\ pgLoads' # <<>> /\ pgLoads'[Len(pgLoads')] = r
        /\ \A i \in DOMAIN pgLoads' : pgLoads'[i].keyset => pgKeyset
    BY <1>2, <2>1, <2>3, Appended
  <2>5. PageTypes'
    BY <1>1, <1>3, <2>4 DEF PagesInv, PageTypes
  <2>6. r = FirstPage'
    BY <1>1, <1>3, <2>3, PlainDecides DEF FirstPage
  <2> QED  BY <1>1, <2>4, <2>5, <2>6 DEF PagesInv, Walks, Decides
<1>5. CASE ~(pgPage # 1 \/ pgDesc)
  <2>1. pgLoads' = pgLoads /\ pgPage = 1 /\ pgDesc' = pgDesc
    BY <1>1, <1>5 DEF TP!ResetGrid, PagesInv, PageTypes
  <2>2. PageTypes'
    BY <1>1, <1>3, <2>1 DEF PagesInv, PageTypes
  <2> QED  BY <1>1, <2>1, <2>2, BoundsForgotten
<1> QED  BY <1>4, <1>5

(* The timer ends: page 1 is loaded with what is sorted and filtered now, unless the page, the   *)
(* order and the filter are those of the load before.                                           *)
LEMMA DebouncedStep ==
  ASSUME PagesInv, NEW what, TP!Debounced(what), what \in {"sort", "filter"}
  PROVE  PagesInv'
<1> DEFINE filter == IF what = "filter" THEN pgTyped ELSE pgFilter
           asked == IF what = "filter"
                    THEN <<TP!Request(pgPage, pgNav, pgBounds, pgDesc, filter, pgKeyset)>> ELSE <<>>
           first == IF pgPage # 1
                    THEN <<TP!Request(1, "reset", TP!NoBounds, pgDesc, filter, pgKeyset)>> ELSE <<>>
<1>1. /\ pgLoads' = pgLoads \o asked \o first /\ pgFilter' = filter
      /\ pgPage' = 1 /\ pgNav' = "reset" /\ pgBounds' = TP!NoBounds
      /\ UNCHANGED <<pgRows, pgKeyset, pgShown, pgDesc, pgTyped, pgTurns, pgWrites, pgTouched,
                     pgSeen, pgWalk>>
  BY DEF TP!Debounced
<1>2. /\ filter \in SUBSET TableKeys /\ pgPage \in 1..MaxPage /\ pgKeyset \in BOOLEAN /\ pgLoads \in Seq(Loads)
      /\ pgDesc \in BOOLEAN /\ pgBounds \in [1..MaxPage -> [first : Int, last : Int]]
      /\ \A i \in DOMAIN pgLoads : pgLoads[i].keyset => pgKeyset
  BY DEF PagesInv, PageTypes
<1>3. 1 \in 1..MaxPage /\ TP!NoBounds \in [1..MaxPage -> [first : Int, last : Int]]
  BY PageAssumption DEF TP!NoBounds, TP!None
<1>4. PICK old : old = TP!Request(pgPage, pgNav, pgBounds, pgDesc, filter, pgKeyset)
  OBVIOUS
<1>5. PICK new : new = TP!Request(1, "reset", TP!NoBounds, pgDesc, filter, pgKeyset)
  OBVIOUS
<1> HIDE DEF filter
<1>6. Asks(old, pgPage, pgNav, pgBounds, pgDesc, filter, pgKeyset)
  BY <1>2, <1>4, RequestIs
<1>7. Asks(new, 1, "reset", TP!NoBounds, pgDesc, filter, pgKeyset)
  BY <1>2, <1>3, <1>5, RequestIs
<1>8. old \in Loads /\ old.keyset = pgKeyset /\ new \in Loads /\ new.keyset = pgKeyset
  BY <1>6, <1>7 DEF Asks
<1>9. new = FirstPage'
  <2>1. new = PlainLoad(1, filter, pgDesc, pgKeyset)
    BY <1>7 DEF Asks, AsksByKey
  <2> QED  BY <1>1, <1>3, <2>1, PlainDecides DEF FirstPage
<1>10. pgPage = 1 => old = FirstPage'
  <2>1. pgPage = 1 => old = PlainLoad(1, filter, pgDesc, pgKeyset)
    BY <1>6 DEF Asks, AsksByKey
  <2> QED  BY <1>1, <1>3, <2>1, PlainDecides DEF FirstPage
<1>11. PICK mid : /\ mid = IF what = "filter" THEN Append(pgLoads, old) ELSE pgLoads
                  /\ pgLoads' = IF pgPage # 1 THEN Append(mid, new) ELSE mid
  <2>1. \A s \in Seq(Loads), r \in Loads : s \o <<r>> = Append(s, r) /\ Append(s, r) \in Seq(Loads)
    OBVIOUS
  <2>2. \A s \in Seq(Loads) : s \o <<>> = s
    OBVIOUS
  <2>3. asked = IF what = "filter" THEN <<old>> ELSE <<>>
    BY <1>4
  <2>4. first = IF pgPage # 1 THEN <<new>> ELSE <<>>
    BY <1>5
  <2> HIDE DEF asked, first
  <2>5. pgLoads \o asked = IF what = "filter" THEN Append(pgLoads, old) ELSE pgLoads
    BY <1>2, <1>8, <2>1, <2>2, <2>3
  <2>6. (pgLoads \o asked) \in Seq(Loads)
    BY <1>2, <1>8, <2>1, <2>5
  <2>7. (pgLoads \o asked) \o first = IF pgPage # 1 THEN Append(pgLoads \o asked, new) ELSE pgLoads \o asked
    BY <1>8, <2>1, <2>2, <2>4, <2>6
  <2> QED  BY <1>1, <2>5, <2>7
<1>12. /\ mid \in Seq(Loads) /\ \A i \in DOMAIN mid : mid[i].keyset => pgKeyset
       /\ what = "filter" => mid # <<>> /\ mid[Len(mid)] = old
  BY <1>2, <1>8, <1>11, Appended
<1>13. /\ pgLoads' \in Seq(Loads) /\ \A i \in DOMAIN pgLoads' : pgLoads'[i].keyset => pgKeyset
       /\ pgPage # 1 => pgLoads' # <<>> /\ pgLoads'[Len(pgLoads')] = new
  BY <1>8, <1>11, <1>12, Appended
<1>14. PageTypes'
  BY <1>1, <1>2, <1>3, <1>13 DEF PagesInv, PageTypes
<1>15. CASE pgPage # 1
  BY <1>1, <1>9, <1>13, <1>14, <1>15 DEF PagesInv, Walks, Decides
<1>16. CASE pgPage = 1 /\ what = "filter"
  BY <1>1, <1>10, <1>11, <1>12, <1>14, <1>16 DEF PagesInv, Walks, Decides
<1>17. CASE pgPage = 1 /\ what # "filter"
  <2>1. pgLoads' = pgLoads /\ pgFilter' = pgFilter
    BY <1>1, <1>11, <1>17 DEF filter
  <2> QED  BY <1>1, <1>14, <1>17, <2>1, BoundsForgotten
<1> QED  BY <1>15, <1>16, <1>17

(* A load that is over hands the walk to the load issued last, unless it was the only one. *)
LEMMA LoadOver ==
  ASSUME PagesInv, NEW i \in 1..Len(pgLoads), pgLoads' = TP!Without(i),
         UNCHANGED <<pgRows, pgKeyset, pgPage, pgDesc, pgFilter, pgTyped, pgDue, pgTouched>>,
         pgNav' = "steady", pgShown' \in Seq(Int), pgBounds' \in [1..MaxPage -> [first : Int, last : Int]],
         ~pgKeyset => pgBounds' = TP!NoBounds,
         Len(pgLoads) = 1 /\ ~Restarts => Sound'
  PROVE  PagesInv'
<1> DEFINE n == Len(pgLoads)
<1>1. pgLoads \in Seq(Loads) /\ n \in Nat
  BY DEF PagesInv, PageTypes
<1>2. /\ pgLoads' \in Seq(Loads) /\ Len(pgLoads') = n - 1
      /\ \A j \in 1..(n - 1) : \E m \in 1..n : pgLoads'[j].keyset = pgLoads[m].keyset
      /\ i < n => pgLoads'[n - 1] = pgLoads[n]
      /\ i = n /\ n > 1 => pgLoads'[n - 1].late
  BY <1>1, WithoutLoads
<1>3. \A j \in DOMAIN pgLoads' : pgLoads'[j].keyset => pgKeyset
  <2>1. DOMAIN pgLoads' = 1..(n - 1) /\ DOMAIN pgLoads = 1..n
    BY <1>1, <1>2
  <2>2. \A m \in 1..n : pgLoads[m].keyset => pgKeyset
    BY <2>1 DEF PagesInv, PageTypes
  <2> QED  BY <1>2, <2>1, <2>2
<1>4. PageTypes'
  BY <1>2, <1>3 DEF PagesInv, PageTypes
<1>5. CASE Restarts
  BY <1>4, <1>5 DEF PagesInv, Walks, Restarts
<1>6. CASE ~Restarts /\ n = 1
  <2>1. pgLoads' = <<>> /\ Sound'
    BY <1>2, <1>6
  <2> QED  BY <1>4, <2>1 DEF PagesInv, Walks
<1>7. CASE ~Restarts /\ n # 1
  <2>1. n > 1 /\ pgLoads # <<>> /\ pgLoads' # <<>> /\ Len(pgLoads') = n - 1
    BY <1>1, <1>2, <1>7
  <2>2. Decides(pgLoads[n])
    BY <1>7, <2>1 DEF PagesInv, Walks
  <2>3. CASE i < n
    BY <1>2, <1>4, <2>1, <2>2, <2>3 DEF PagesInv, Walks, Decides, FirstPage, Spoils
  <2>4. CASE i = n
    BY <1>2, <1>4, <2>1, <2>4 DEF PagesInv, Walks, Decides, Spoils
  <2> QED  BY <1>1, <2>3, <2>4
<1> QED  BY <1>5, <1>6, <1>7

(* Of an answer of the first page, the rows up to any of its own were shown with it. *)
LEMMA FirstPageReaches ==
  ASSUME PagesInv, NEW a, a = TP!Answer(FirstPage)
  PROVE  /\ a.rows \in Seq(pgRows \cap pgFilter)
         /\ a.rows = <<>> => Untouched = {}
         /\ a.rows # <<>> => /\ Reached(a.rows[1], Untouched, Members(a.rows), pgDesc)
                             /\ Reached(a.rows[Len(a.rows)], Untouched, Members(a.rows), pgDesc)
<1>1. FirstPage \in Loads
  BY PageAssumption DEF FirstPage, Loads, PagesInv, PageTypes
<1>2. Untouched \subseteq pgRows \cap pgFilter
  BY DEF Untouched, PagesInv, PageTypes
<1>3. ~FirstPage.reverse /\ FirstPage.skip = 0 /\ FirstPage.where = pgFilter /\ FirstPage.desc = pgDesc
  BY DEF FirstPage
<1>4. /\ a.rows \in Seq(pgRows \cap pgFilter)
      /\ a.rows = <<>> => pgRows \cap pgFilter = {}
      /\ a.rows # <<>> =>
            /\ \A k \in pgRows \cap pgFilter :
                  TP!Before(a.rows[Len(a.rows)], k, pgDesc) \/ k \in Members(a.rows)
            /\ TP!Before(a.rows[1], a.rows[Len(a.rows)], pgDesc) \/ a.rows[1] = a.rows[Len(a.rows)]
  BY <1>1, <1>3, AnswerIs
<1>5. pgRows \cap pgFilter \subseteq Int /\ pgDesc \in BOOLEAN
  BY PageAssumption DEF PagesInv, PageTypes
<1>6. ASSUME a.rows # <<>> PROVE a.rows[1] \in pgRows \cap pgFilter /\ a.rows[Len(a.rows)] \in pgRows \cap pgFilter
  BY <1>4, <1>6
<1>7. ASSUME a.rows # <<>>, NEW k \in Untouched, k \notin Members(a.rows)
      PROVE  TP!Before(a.rows[1], k, pgDesc) /\ TP!Before(a.rows[Len(a.rows)], k, pgDesc)
  <2>1. k \in Int /\ a.rows[1] \in Int /\ a.rows[Len(a.rows)] \in Int
    BY <1>2, <1>5, <1>6, <1>7
  <2>2. TP!Before(a.rows[Len(a.rows)], k, pgDesc)
    BY <1>2, <1>4, <1>7
  <2>3. TP!Before(a.rows[1], a.rows[Len(a.rows)], pgDesc) \/ a.rows[1] = a.rows[Len(a.rows)]
    BY <1>4, <1>7
  <2> QED  BY <2>1, <2>2, <2>3 DEF TP!Before
<1> QED  BY <1>2, <1>4, <1>7 DEF Reached

(* Of an answer to a load by key, what is reached goes on from where the load began. *)
LEMMA KeyLoadReaches ==
  ASSUME PagesInv, NEW r \in Loads, NEW a, a = TP!Answer(r), NEW x \in Int,
         Reached(x, Untouched, pgSeen, pgDesc),
         NextRows(r, x, pgFilter, pgDesc) \/ RowsBefore(r, x, pgFilter, pgDesc)
  PROVE  /\ a.rows # <<>> =>
              /\ Reached(a.rows[1], Untouched, pgSeen \cup Members(a.rows), pgDesc)
              /\ Reached(a.rows[Len(a.rows)], Untouched, pgSeen \cup Members(a.rows), pgDesc)
         /\ a.rows = <<>> /\ NextRows(r, x, pgFilter, pgDesc) => Untouched \subseteq pgSeen
<1>1. Untouched \subseteq pgRows \cap pgFilter
  BY DEF Untouched, PagesInv, PageTypes
<1>2. /\ a.rows \in Seq(pgRows \cap r.where)
      /\ ~r.reverse /\ r.skip = 0 /\ a.rows = <<>> => pgRows \cap r.where = {}
      /\ ~r.reverse /\ r.skip = 0 /\ a.rows # <<>> =>
           /\ \A k \in pgRows \cap r.where :
                 TP!Before(a.rows[Len(a.rows)], k, r.desc) \/ k \in Members(a.rows)
           /\ TP!Before(a.rows[1], a.rows[Len(a.rows)], r.desc) \/ a.rows[1] = a.rows[Len(a.rows)]
  BY AnswerIs
<1>3. r.where \subseteq Int /\ pgFilter \subseteq Int /\ pgDesc \in BOOLEAN
  BY PageAssumption DEF Loads, PagesInv, PageTypes
<1>4. ASSUME a.rows # <<>> PROVE a.rows[1] \in r.where /\ a.rows[Len(a.rows)] \in r.where
  BY <1>2, <1>4
<1>5. ASSUME NextRows(r, x, pgFilter, pgDesc)
      PROVE  /\ ~r.reverse /\ r.skip = 0 /\ r.desc = pgDesc
             /\ \A k \in Untouched : k \in pgSeen \/ k \in pgRows \cap r.where
  <2>1. ~r.reverse /\ r.skip = 0 /\ r.desc = pgDesc /\ r.where = {k \in pgFilter : TP!Before(x, k, pgDesc)}
    BY <1>5 DEF NextRows
  <2>2. \A k \in Untouched : k \in pgSeen \/ TP!Before(x, k, pgDesc)
    BY DEF Reached
  <2> QED  BY <1>1, <2>1, <2>2
<1>6. ASSUME a.rows # <<>>, NEW k \in Untouched, k \notin pgSeen, k \notin Members(a.rows)
      PROVE  TP!Before(a.rows[1], k, pgDesc) /\ TP!Before(a.rows[Len(a.rows)], k, pgDesc)
  <2>1. k \in Int /\ a.rows[1] \in Int /\ a.rows[Len(a.rows)] \in Int
    BY <1>1, <1>3, <1>4, <1>6
  <2>2. CASE NextRows(r, x, pgFilter, pgDesc)
    <3>1. TP!Before(a.rows[Len(a.rows)], k, pgDesc)
      BY <1>2, <1>5, <1>6, <2>2
    <3>2. TP!Before(a.rows[1], a.rows[Len(a.rows)], pgDesc) \/ a.rows[1] = a.rows[Len(a.rows)]
      BY <1>2, <1>5, <1>6, <2>2
    <3> QED  BY <2>1, <3>1, <3>2 DEF TP!Before
  <2>3. CASE RowsBefore(r, x, pgFilter, pgDesc)
    <3>1. TP!Before(a.rows[1], x, pgDesc) /\ TP!Before(a.rows[Len(a.rows)], x, pgDesc)
      BY <1>4, <1>6, <2>3 DEF RowsBefore
    <3>2. TP!Before(x, k, pgDesc)
      BY <1>6 DEF Reached
    <3> QED  BY <2>1, <3>1, <3>2 DEF TP!Before
  <2> QED  BY <2>2, <2>3
<1>7. a.rows = <<>> /\ NextRows(r, x, pgFilter, pgDesc) => Untouched \subseteq pgSeen
  BY <1>2, <1>5
<1> QED  BY <1>6, <1>7 DEF Reached

LEMMA AnsweredStep ==
  ASSUME PagesInv, NEW i \in 1..Len(pgLoads), TP!Answered(i)
  PROVE  PagesInv'
<1>1. PICK r : r = pgLoads[i]
  OBVIOUS
<1>2. PICK a : a = TP!Answer(r)
  OBVIOUS
<1>3. pgLoads \in Seq(Loads) /\ r \in Loads /\ (r.keyset => pgKeyset) /\ r.page \in 1..MaxPage
  <2>1. pgLoads \in Seq(Loads) /\ i \in DOMAIN pgLoads
    BY DEF PagesInv, PageTypes
  <2>2. r \in Loads /\ (r.keyset => pgKeyset)
    BY <1>1, <2>1 DEF PagesInv, PageTypes
  <2> QED  BY <2>1, <2>2 DEF Loads
<1>4. /\ pgShown' = a.rows /\ pgNav' = "steady" /\ pgLoads' = TP!Without(i)
      /\ pgBounds' = IF r.keyset /\ a.rows # <<>>
                     THEN [pgBounds EXCEPT ![r.page] = [first |-> a.rows[1], last |-> a.rows[Len(a.rows)]]]
                     ELSE pgBounds
      /\ pgWalk' = (~r.late /\ (r.page = 1 \/ (r.bound /\ pgWalk)))
      /\ pgSeen' = IF r.page = 1 THEN Members(a.rows) ELSE pgSeen \cup Members(a.rows)
      /\ UNCHANGED <<pgRows, pgKeyset, pgPage, pgDesc, pgFilter, pgTyped, pgDue, pgTouched>>
  <2>1. \A s : Head(s) = s[1] /\ TP!Last(s) = s[Len(s)]
    BY DEF TP!Last
  <2> QED  BY <1>1, <1>2, <2>1, PageOperators DEF TP!Answered
<1>5. a.rows \in Seq(Int) /\ (a.rows # <<>> => a.rows[1] \in Int /\ a.rows[Len(a.rows)] \in Int)
  <2>1. a.rows \in Seq(pgRows \cap r.where) /\ r.where \subseteq Int
    BY <1>2, <1>3, AnswerIs, PageAssumption DEF Loads
  <2>2. a.rows \in Seq(Int)
    BY <2>1
  <2> QED  BY <2>2
<1>6. /\ pgBounds \in [1..MaxPage -> [first : Int, last : Int]] /\ pgPage \in 1..MaxPage
      /\ ~pgKeyset => pgBounds = TP!NoBounds
  BY DEF PagesInv, PageTypes
<1>7. /\ pgBounds' \in [1..MaxPage -> [first : Int, last : Int]]
      /\ ~pgKeyset => pgBounds' = TP!NoBounds
      /\ r.keyset /\ a.rows # <<>> =>
           pgBounds'[r.page] = [first |-> a.rows[1], last |-> a.rows[Len(a.rows)]]
      /\ \A p \in 1..MaxPage : p # r.page => pgBounds'[p] = pgBounds[p]
      /\ ~(r.keyset /\ a.rows # <<>>) => pgBounds' = pgBounds
  BY <1>3, <1>4, <1>5, <1>6
<1>8. ASSUME Len(pgLoads) = 1, ~Restarts PROVE Sound'
  <2>1. pgLoads[1] = r /\ pgLoads # <<>>
    BY <1>1, <1>8
  <2>2. CASE Spoils(r)
    BY <1>4, <2>2 DEF Spoils, Sound
  <2>3. CASE r = FirstPage /\ pgPage = 1
    <3>1. /\ a.rows = <<>> => Untouched = {}
          /\ a.rows # <<>> => /\ Reached(a.rows[1], Untouched, Members(a.rows), pgDesc)
                              /\ Reached(a.rows[Len(a.rows)], Untouched, Members(a.rows), pgDesc)
      BY <1>2, <2>3, FirstPageReaches
    <3>2. r.page = 1 /\ r.keyset = pgKeyset /\ pgSeen' = Members(a.rows) /\ 1 \in 1..MaxPage
      BY <1>3, <1>4, <2>3 DEF FirstPage
    <3>3. Bounded(pgBounds'[1], Untouched, Members(a.rows), pgDesc)
      <4>1. CASE ~pgKeyset
        BY <1>7, <3>2, <4>1 DEF Bounded, TP!NoBounds
      <4>2. CASE pgKeyset /\ a.rows # <<>>
        BY <1>7, <3>1, <3>2, <4>2 DEF Bounded
      <4>3. CASE a.rows = <<>>
        BY <3>1, <4>3 DEF Bounded, Reached
      <4> QED  BY <4>1, <4>2, <4>3
    <3>4. \A p \in 1..1 : p = 1
      OBVIOUS
    <3> QED  BY <1>4, <2>3, <3>1, <3>2, <3>3, <3>4 DEF Sound, Untouched, Bounded, Reached
  <2>4. CASE Continues(r)
    <3>1. r.bound /\ r.keyset /\ ~r.late /\ r.page = pgPage /\ pgPage # 1
      BY <2>4 DEF Continues
    <3>2. (pgWalk' => pgWalk) /\ pgSeen' = pgSeen \cup Members(a.rows)
      BY <1>4, <3>1
    <3>3. ASSUME pgWalk
          PROVE  /\ \A p \in 1..pgPage : Bounded(pgBounds'[p], Untouched, pgSeen', pgDesc)
                 /\ a.rows # <<>> => Reached(a.rows[Len(a.rows)], Untouched, pgSeen', pgDesc)
      <4>1. PICK x \in Int : /\ Reached(x, Untouched, pgSeen, pgDesc)
                             /\ \/ NextRows(r, x, pgFilter, pgDesc)
                                \/ /\ RowsBefore(r, x, pgFilter, pgDesc)
                                   /\ Bounded(pgBounds[pgPage], Untouched, pgSeen, pgDesc)
        BY <2>4, <3>3 DEF Continues
      <4>2. /\ a.rows # <<>> =>
                 /\ Reached(a.rows[1], Untouched, pgSeen', pgDesc)
                 /\ Reached(a.rows[Len(a.rows)], Untouched, pgSeen', pgDesc)
            /\ a.rows = <<>> /\ NextRows(r, x, pgFilter, pgDesc) => Untouched \subseteq pgSeen
        BY <1>2, <1>3, <3>2, <4>1, KeyLoadReaches
      <4>3. Bounded(pgBounds'[pgPage], Untouched, pgSeen', pgDesc)
        <5>1. CASE a.rows # <<>>
          BY <1>7, <3>1, <4>2, <5>1 DEF Bounded
        <5>2. CASE a.rows = <<>> /\ NextRows(r, x, pgFilter, pgDesc)
          BY <3>2, <4>2, <5>2 DEF Bounded, Reached
        <5>3. CASE a.rows = <<>> /\ ~NextRows(r, x, pgFilter, pgDesc)
          BY <1>7, <3>2, <4>1, <5>3 DEF Bounded, Reached
        <5> QED  BY <5>1, <5>2, <5>3
      <4>4. ASSUME NEW p \in 1..(pgPage - 1) PROVE Bounded(pgBounds'[p], Untouched, pgSeen', pgDesc)
        <5>1. Bounded(pgBounds[p], Untouched, pgSeen, pgDesc)
          BY <2>4, <3>3 DEF Continues
        <5>2. pgBounds'[p] = pgBounds[p]
          BY <1>6, <1>7, <3>1, PageAssumption
        <5> QED  BY <3>2, <5>1, <5>2 DEF Bounded, Reached
      <4>5. \A p \in 1..pgPage : p = pgPage \/ p \in 1..(pgPage - 1)
        BY <1>6
      <4> QED  BY <4>2, <4>3, <4>4, <4>5
    <3> QED  BY <1>4, <3>2, <3>3 DEF Sound, Untouched, Bounded, Reached
  <2> QED  BY <1>8, <2>1, <2>2, <2>3, <2>4 DEF PagesInv, Walks, Decides
<1> QED  BY <1>4, <1>5, <1>7, <1>8, LoadOver

LEMMA FailsStep ==
  ASSUME PagesInv, NEW i \in 1..Len(pgLoads), TP!LoadFails(i)
  PROVE  PagesInv'
<1>1. /\ pgNav' = "steady" /\ pgLoads' = TP!Without(i) /\ pgWalk' = FALSE /\ pgBounds' = pgBounds
      /\ pgShown' = pgShown
      /\ UNCHANGED <<pgRows, pgKeyset, pgPage, pgDesc, pgFilter, pgTyped, pgDue, pgTouched>>
  BY DEF TP!LoadFails
<1>2. /\ pgBounds \in [1..MaxPage -> [first : Int, last : Int]]
      /\ ~pgKeyset => pgBounds = TP!NoBounds
      /\ pgShown \in Seq(Int)
  BY DEF PagesInv, PageTypes
<1>3. Sound'
  BY <1>1 DEF Sound
<1> QED  BY <1>1, <1>2, <1>3, LoadOver

(* What is reached stays reached while others write: there are fewer untouched rows. *)
LEMMA WriteStep ==
  ASSUME PagesInv, NEW k \in TableKeys, TP!OtherWrites(k)
  PROVE  PagesInv'
<1>1. /\ pgRows' = IF k \in pgRows THEN pgRows \ {k} ELSE pgRows \cup {k}
      /\ pgTouched' = pgTouched \cup {k}
      /\ UNCHANGED <<pgKeyset, pgPage, pgNav, pgBounds, pgMore, pgShown, pgDesc, pgFilter, pgTyped,
                     pgDue, pgLoads, pgTurns, pgSeen, pgWalk>>
  BY DEF TP!OtherWrites
<1>2. PageTypes'
  BY <1>1 DEF PagesInv, PageTypes
<1>3. Untouched' \subseteq Untouched
  BY <1>1 DEF Untouched
<1>4. \A x : Reached(x, Untouched, pgSeen, pgDesc) => Reached(x, Untouched', pgSeen, pgDesc)
  BY <1>3 DEF Reached
<1>5. \A b : Bounded(b, Untouched, pgSeen, pgDesc) => Bounded(b, Untouched', pgSeen, pgDesc)
  BY <1>4 DEF Bounded
<1>6. CASE Restarts
  BY <1>1, <1>2, <1>6 DEF PagesInv, Walks, Restarts
<1>7. CASE pgLoads # <<>> /\ Decides(pgLoads[Len(pgLoads)])
  BY <1>1, <1>2, <1>7 DEF PagesInv, Walks, Decides, FirstPage, Spoils
<1>8. CASE pgLoads = <<>> /\ Sound
  <2>1. Sound'
    BY <1>1, <1>4, <1>5, <1>8 DEF Sound
  <2> QED  BY <1>1, <1>2, <1>8, <2>1 DEF PagesInv, Walks
<1>9. CASE Len(pgLoads) = 1 /\ Continues(pgLoads[1])
  <2>1. Continues(pgLoads[1])'
    BY <1>1, <1>4, <1>5, <1>9 DEF Continues
  <2> QED  BY <1>1, <1>2, <1>9, <2>1 DEF PagesInv, Walks
<1> QED  BY <1>6, <1>7, <1>8, <1>9 DEF PagesInv, Walks

LEMMA PagesStart ==
  ASSUME TP!Init
  PROVE  PagesInv
<1>1. PICK r : r = TP!Request(1, "reset", TP!NoBounds, FALSE, TableKeys, FALSE) /\ pgLoads = <<r>>
  BY DEF TP!Init
<1>2. /\ pgRows = TableKeys /\ pgKeyset = FALSE /\ pgPage = 1 /\ pgBounds = TP!NoBounds /\ pgDesc = FALSE
      /\ pgFilter = TableKeys /\ pgTyped = TableKeys /\ pgShown = <<>>
  BY DEF TP!Init
<1>3. 1 \in 1..MaxPage /\ TP!NoBounds \in [1..MaxPage -> [first : Int, last : Int]]
  BY PageAssumption DEF TP!NoBounds, TP!None
<1>4. Asks(r, 1, "reset", TP!NoBounds, FALSE, TableKeys, FALSE)
  BY <1>1, <1>3, RequestIs
<1>5. r \in Loads /\ ~r.keyset /\ r = PlainLoad(1, TableKeys, FALSE, FALSE)
  BY <1>4 DEF Asks
<1>6. r = FirstPage
  BY <1>2, <1>3, <1>5, PlainDecides DEF FirstPage
<1>7. /\ pgLoads \in Seq(Loads) /\ pgLoads # <<>> /\ pgLoads[Len(pgLoads)] = r
      /\ \A i \in DOMAIN pgLoads : pgLoads[i] = r
  <2>1. \A x \in Loads : <<x>> \in Seq(Loads)
    OBVIOUS
  <2>2. \A x : <<x>> # <<>> /\ <<x>>[Len(<<x>>)] = x
    OBVIOUS
  <2>3. \A x : DOMAIN <<x>> = 1..1 /\ <<x>>[1] = x
    OBVIOUS
  <2>4. \A j \in 1..1 : j = 1
    OBVIOUS
  <2> QED  BY <1>1, <1>5, <2>1, <2>2, <2>3, <2>4
<1>8. PageTypes
  <2>1. <<>> \in Seq(Int) /\ FALSE \in BOOLEAN
    OBVIOUS
  <2>2. \A i \in DOMAIN pgLoads : pgLoads[i].keyset => pgKeyset
    BY <1>5, <1>7
  <2>3. TableKeys \ pgTouched \subseteq pgRows
    BY <1>2
  <2>4. pgLoads \in Seq(Loads) /\ pgLoads # <<>>
    BY <1>7
  <2> QED  BY <1>2, <1>3, <2>1, <2>2, <2>3, <2>4 DEF PageTypes
<1> QED  BY <1>2, <1>6, <1>7, <1>8 DEF PagesInv, Walks, Decides

LEMMA PagesStep ==
  ASSUME PagesInv, TP!Next
  PROVE  PagesInv'
<1>1. pgPage \in 1..MaxPage /\ MaxPage \in Nat
  BY PageAssumption DEF PagesInv, PageTypes
<1>2. CASE TP!NextPage
  BY <1>1, <1>2, TurnStep DEF TP!NextPage
<1>3. CASE TP!PrevPage
  BY <1>1, <1>3, TurnStep DEF TP!PrevPage
<1>4. CASE TP!Refresh
  BY <1>1, <1>4, TurnStep DEF TP!Refresh
<1> QED  BY <1>2, <1>3, <1>4, SchemaStep, SortStep, ResetStep, FilterStep, DebouncedStep, AnsweredStep,
            FailsStep, WriteStep DEF TP!Next

(* Paging forward and back by key from page 1 passes over no row that nobody touched (TableDataView *)
(* loadData), for every table, page size and number of loads under way, whatever other sessions      *)
(* write.  The invariant says what lies ahead of an unfinished load: a timer that leaves the page,   *)
(* or the load issued last, which starts the walk again, ends it, or goes on from a row that was     *)
(* reached.                                                                                          *)
THEOREM WalksSkipNothing == Spec => []WalkSkipsNothing
<1>1. Init => (view = "pages" => PagesInv)
  BY PagesStart DEF Init
<1>2. (view = "pages" => PagesInv) /\ [Next]_vars => (view = "pages" => PagesInv)'
  <2> SUFFICES ASSUME view = "pages" => PagesInv, [Next]_vars, view' = "pages"
               PROVE  PagesInv'
    OBVIOUS
  <2>1. PagesInv /\ (TP!Next \/ UNCHANGED pages)
    BY OthersKeepGrids
  <2>2. CASE UNCHANGED pages
    BY <2>1, <2>2 DEF pages, PagesInv, PageTypes, Walks, Restarts, Decides, FirstPage, Spoils, Sound,
                      Continues, Untouched, Bounded, Reached, NextRows, RowsBefore
  <2> QED  BY <2>1, <2>2, PagesStep
<1>3. (view = "pages" => PagesInv) => WalkSkipsNothing
  <2> SUFFICES ASSUME PagesInv, pgWalk, pgShown # <<>>, pgLoads = <<>>, pgDue = {},
                      NEW k \in pgFilter \ pgTouched, TP!Before(k, TP!Last(pgShown), pgDesc)
               PROVE  k \in pgSeen
    BY DEF WalkSkipsNothing, TP!WalkSkipsNothing
  <2>1. Sound
    BY DEF PagesInv, Walks, Restarts
  <2>2. Reached(pgShown[Len(pgShown)], Untouched, pgSeen, pgDesc)
    BY <2>1 DEF Sound
  <2>3. pgShown[Len(pgShown)] \in Int /\ k \in Int
    <3>1. pgShown \in Seq(Int) /\ pgFilter \subseteq Int
      BY PageAssumption DEF PagesInv, PageTypes
    <3> QED  BY <3>1
  <2>4. TP!Before(pgShown[Len(pgShown)], k, pgDesc) \/ k \in pgSeen
    BY <2>2 DEF Reached, Untouched
  <2>5. TP!Before(k, pgShown[Len(pgShown)], pgDesc)
    BY DEF TP!Last
  <2> QED  BY <2>3, <2>4, <2>5 DEF TP!Before
<1> QED  BY <1>1, <1>2, <1>3, PTL DEF Spec
=============================================================================
