------------------------- MODULE FindSymbolsProofs -------------------------
(***************************************************************************)
(* Theorems about the answers of a query (module FindSymbols), for any     *)
(* files, rows, segments, clauses and limits: the page of rows, the page   *)
(* of groups and the total are those of scanning every row.                *)
(*                                                                         *)
(* Nothing but the answer changes from query to query, so the invariant is *)
(* the state of the index (IndexOK) and the three properties of the last   *)
(* answer; the work is that one step from any index gives them.            *)
(*                                                                         *)
(* The rows that match are written MatchingOf: of each segment, and then   *)
(* of each dirty file, the first of its kind (Layered).  Every route is    *)
(* compared with that set.                                                 *)
(*   - The candidates lose none of it (ProposedComplete, ZoneComplete,     *)
(*     NarrowedFacts).                                                     *)
(*   - A scan that sheds has Kept of it what the page can show: a row it   *)
(*     dropped comes after as many kept rows as the page needs.  The dirty *)
(*     rows come on top (JoinedCover), and what is left Suffices for the   *)
(*     page and the total (ScanSuffices, SufficesExact).                   *)
(*   - A name stream stops when it has Enough of it, in either direction.  *)
(*   - Groups are built from the rows or counted from the postings; the    *)
(*     rows of groups are the same (GroupsFit).                            *)
(* ExactPage and GroupPage then say what paging does to a set it has       *)
(* enough of, and a row's place is its rank: how many come before it.      *)
(***************************************************************************)
EXTENDS FindSymbols, FiniteSetTheorems, SequenceTheorems, WellFoundedInduction, TLAPS

-----------------------------------------------------------------------------
\* Numbers and orders.

LEMMA LeastOf ==
  ASSUME NEW S, S \subseteq Nat, S # {}
  PROVE  \E n \in S : \A m \in S : n <= m
<1>1. PICK n \in S : \A m \in S : ~ (<<m, n>> \in OpToRel(<, Nat))
  BY NatLessThanWellFounded, WFMin, Zenon
<1>2. ASSUME NEW m \in S PROVE n <= m
  <2>1. <<m, n>> \in OpToRel(<, Nat) <=> m < n
    BY DEF OpToRel
  <2>2. m \in Nat /\ n \in Nat /\ ~ (m < n)
    BY <1>1, <2>1
  <2> QED BY <2>2
<1> QED BY <1>2

LEMMA IntervalFacts ==
  ASSUME NEW n \in Nat
  PROVE  IsFiniteSet(1..n) /\ Cardinality(1..n) = n
BY FS_Interval

LEMMA UpTo ==
  ASSUME NEW N \in Nat, NEW S, 0 \in S, \A n \in 0..(N - 1) : n \in S => n + 1 \in S
  PROVE  \A n \in 0..N : n \in S
<1> DEFINE T == {n \in 0..N : n \notin S}
<1> SUFFICES ASSUME T # {} PROVE FALSE
  OBVIOUS
<1>0. T \subseteq Nat
  OBVIOUS
<1>1. PICK t \in T : \A m \in T : t <= m
  BY <1>0, LeastOf
<1>2. t # 0 /\ t - 1 \in 0..(N - 1) /\ t - 1 \in S
  BY <1>1
<1>3. (t - 1) + 1 \in S
  BY <1>2
<1> QED BY <1>1, <1>2, <1>3

(* How many of S come before each of its elements in the order R.          *)
Rank(S, R) == [x \in S |-> Cardinality({y \in S : <<y, x>> \in R})]

(* In a finite set that R orders, the number of those before an element    *)
(* tells its place.                                                        *)
LEMMA Ranking ==
  ASSUME NEW S, IsFiniteSet(S), NEW R,
         \A x \in S : <<x, x>> \notin R,
         \A x, y, z \in S : <<x, y>> \in R /\ <<y, z>> \in R => <<x, z>> \in R,
         \A x, y \in S : x # y => <<x, y>> \in R \/ <<y, x>> \in R
  PROVE  /\ Cardinality(S) \in Nat
         /\ \A x \in S : Rank(S, R)[x] \in 0..(Cardinality(S) - 1)
         /\ \A x, y \in S : <<x, y>> \in R <=> Rank(S, R)[x] < Rank(S, R)[y]
         /\ \A n \in 1..Cardinality(S) : \E x \in S : Rank(S, R)[x] = n - 1
<1> DEFINE rank == Rank(S, R)
<1> DEFINE B(x) == {y \in S : <<y, x>> \in R}
<1> DEFINE c == Cardinality(S)
<1>1. c \in Nat
  BY FS_CardinalityType
<1>0. rank = [x \in S |-> Cardinality(B(x))]
  BY DEF Rank
<1> HIDE DEF rank, c
<1>2. ASSUME NEW x \in S
      PROVE  IsFiniteSet(B(x)) /\ rank[x] \in 0..(c - 1) /\ rank[x] \in Nat
  <2>1. B(x) \in SUBSET S /\ x \notin B(x)
    OBVIOUS
  <2>2. IsFiniteSet(B(x)) /\ Cardinality(B(x)) <= c /\ (c = Cardinality(B(x)) => S = B(x))
    BY <2>1, FS_Subset DEF c
  <2>3. Cardinality(B(x)) \in Nat
    BY <2>2, FS_CardinalityType
  <2> QED BY <1>0, <1>1, <2>1, <2>2, <2>3
<1>3. ASSUME NEW x \in S, NEW y \in S, <<x, y>> \in R
      PROVE  rank[x] < rank[y]
  <2>1. B(x) \in SUBSET B(y) /\ x \in B(y) /\ x \notin B(x)
    BY <1>3
  <2>2. IsFiniteSet(B(y)) /\ Cardinality(B(x)) <= Cardinality(B(y))
          /\ (Cardinality(B(y)) = Cardinality(B(x)) => B(y) = B(x))
    BY <1>2, <2>1, FS_Subset
  <2>3. rank[x] \in Nat /\ rank[y] \in Nat /\ rank[x] = Cardinality(B(x)) /\ rank[y] = Cardinality(B(y))
    BY <1>0, <1>2
  <2> QED BY <2>1, <2>2, <2>3
<1>4. ASSUME NEW x \in S, NEW y \in S, rank[x] < rank[y]
      PROVE  <<x, y>> \in R
  <2>0. rank[x] \in Nat /\ rank[y] \in Nat
    BY <1>2
  <2>1. x # y /\ rank[x] \in Nat /\ rank[y] \in Nat
    BY <1>4, <2>0
  <2>2. CASE <<y, x>> \in R
    BY <1>3, <1>4, <2>1, <2>2
  <2> QED BY <2>1, <2>2
<1>5. rank \in Injection(S, 0..(c - 1))
  <2>1. rank \in [S -> 0..(c - 1)]
    BY <1>0, <1>2
  <2>2. ASSUME NEW x \in S, NEW y \in S, rank[x] = rank[y] PROVE x = y
    <3>1. rank[x] \in Nat /\ rank[y] \in Nat
      BY <1>2
    <3>2. ~ (<<x, y>> \in R) /\ ~ (<<y, x>> \in R)
      BY <1>3, <2>2, <3>1
    <3> QED BY <3>2
  <2> QED BY <2>1, <2>2 DEF Injection, IsInjective
<1>6. IsFiniteSet(0..(c - 1)) /\ Cardinality(0..(c - 1)) = c
  BY <1>1, FS_Interval
<1>7. rank \in Surjection(S, 0..(c - 1))
  BY <1>5, <1>6, FS_Injection DEF c
<1>8. \A n \in 1..c : \E x \in S : rank[x] = n - 1
  BY <1>1, <1>7 DEF Surjection
<1> USE DEF rank, c
<1> QED BY <1>1, <1>2, <1>3, <1>4, <1>8

LEMMA Places ==
  ASSUME NEW S, IsFiniteSet(S), NEW R,
         \A x \in S : <<x, x>> \notin R,
         \A x, y, z \in S : <<x, y>> \in R /\ <<y, z>> \in R => <<x, z>> \in R,
         \A x, y \in S : x # y => <<x, y>> \in R \/ <<y, x>> \in R,
         NEW g,
         \A n \in 1..Cardinality(S) :
           (\E x \in S : Rank(S, R)[x] = n - 1) => g[n] \in S /\ Rank(S, R)[g[n]] = n - 1
  PROVE  /\ Cardinality(S) \in Nat
         /\ \A n \in 1..Cardinality(S) : g[n] \in S
         /\ \A x \in S : \E n \in 1..Cardinality(S) : g[n] = x
         /\ \A m, n \in 1..Cardinality(S) : m < n <=> <<g[m], g[n]>> \in R
<1> DEFINE rank == Rank(S, R)
<1> DEFINE c == Cardinality(S)
<1>1. /\ c \in Nat
      /\ \A x \in S : rank[x] \in 0..(c - 1)
      /\ \A x, y \in S : <<x, y>> \in R <=> rank[x] < rank[y]
      /\ \A n \in 1..c : \E x \in S : rank[x] = n - 1
  BY Ranking
<1> HIDE DEF rank, c
<1>3. \A n \in 1..c : g[n] \in S /\ rank[g[n]] = n - 1
  BY <1>1 DEF c, rank
<1>5. ASSUME NEW x \in S PROVE \E n \in 1..c : g[n] = x
  <2>1. rank[x] + 1 \in 1..c
    BY <1>1
  <2>0. rank[x] \in Int /\ (rank[x] + 1) - 1 = rank[x]
    BY <1>1
  <2>2. g[rank[x] + 1] \in S /\ rank[g[rank[x] + 1]] = rank[x]
    BY <1>3, <2>0, <2>1
  <2>3. g[rank[x] + 1] = x
    BY ZenonT(60), <1>1, <2>2
  <2> QED BY <2>1, <2>3
<1>6. ASSUME NEW m \in 1..c, NEW n \in 1..c
      PROVE  m < n <=> <<g[m], g[n]>> \in R
  <2>1. <<g[m], g[n]>> \in R <=> rank[g[m]] < rank[g[n]]
    BY <1>1, <1>3
  <2>2. m - 1 < n - 1 <=> m < n
    BY <1>1
  <2> QED BY <1>3, <2>1, <2>2
<1> QED BY <1>1, <1>3, <1>5, <1>6 DEF c

-----------------------------------------------------------------------------
\* Rows of a sequence, and which of them are the first of their kind.

(* The rows of a sequence, each once, and sequences without two alike.     *)
FirstRows(rows) == {rows[i] : i \in Firsts(rows)}
Distinct(rows) == \A i, j \in DOMAIN rows : i # j => ~SameRow(rows[i], rows[j])

LEMMA SameRowFacts ==
  /\ \A a : SameRow(a, a)
  /\ \A a, b : SameRow(a, b) => SameRow(b, a)
  /\ \A a, b, c : SameRow(a, b) /\ SameRow(b, c) => SameRow(a, c)
BY Zenon DEF SameRow

LEMMA InOrderFacts ==
  ASSUME NEW at, at \subseteq Nat, IsFiniteSet(at)
  PROVE  /\ Cardinality(at) \in Nat
         /\ InOrder(at) \in [1..Cardinality(at) -> at]
         /\ \A i \in at : \E n \in 1..Cardinality(at) : InOrder(at)[n] = i
         /\ \A m, n \in 1..Cardinality(at) : m < n <=> InOrder(at)[m] < InOrder(at)[n]
<1> DEFINE R == {p \in at \X at : p[1] < p[2]}
<1>1. \A x, y \in at : <<x, y>> \in R <=> x < y
  OBVIOUS
<1>2. \A x \in at : {y \in at : <<y, x>> \in R} = {j \in at : j < x}
  BY <1>1
<1> DEFINE place(n) == CHOOSE i \in at : Cardinality({j \in at : j < i}) = n - 1
<1>3. /\ InOrder(at) = [n \in 1..Cardinality(at) |-> InOrder(at)[n]]
      /\ \A n \in 1..Cardinality(at) : InOrder(at)[n] = place(n)
  <2>1. InOrder(at) = [n \in 1..Cardinality(at) |-> place(n)]
    BY DEF InOrder
  <2> HIDE DEF place
  <2> QED BY <2>1
<1>6. \A x \in at : Rank(at, R)[x] = Cardinality({j \in at : j < x})
  BY <1>2 DEF Rank
<1>7. \A n \in 1..Cardinality(at) :
        (\E x \in at : Rank(at, R)[x] = n - 1)
          => InOrder(at)[n] \in at /\ Rank(at, R)[InOrder(at)[n]] = n - 1
  BY <1>3, <1>6
<1>4. /\ \A x \in at : <<x, x>> \notin R
      /\ \A x, y, z \in at : <<x, y>> \in R /\ <<y, z>> \in R => <<x, z>> \in R
      /\ \A x, y \in at : x # y => <<x, y>> \in R \/ <<y, x>> \in R
  BY <1>1
<1> HIDE DEF R
<1>5. /\ Cardinality(at) \in Nat
      /\ \A n \in 1..Cardinality(at) : InOrder(at)[n] \in at
      /\ \A x \in at : \E n \in 1..Cardinality(at) : InOrder(at)[n] = x
      /\ \A m, n \in 1..Cardinality(at) : m < n <=> <<InOrder(at)[m], InOrder(at)[n]>> \in R
  BY <1>4, <1>7, Places
<1>8. InOrder(at) \in [1..Cardinality(at) -> at]
  BY <1>3, <1>5
<1> QED BY <1>1, <1>5, <1>8

LEMMA RowsAtFacts ==
  ASSUME NEW X, NEW rows \in Seq(X), NEW at, at \subseteq DOMAIN rows
  PROVE  /\ at \subseteq Nat /\ IsFiniteSet(at) /\ Cardinality(at) \in Nat
         /\ RowsAt(rows, at) \in Seq(X)
         /\ Len(RowsAt(rows, at)) = Cardinality(at)
         /\ DOMAIN RowsAt(rows, at) = 1..Cardinality(at)
         /\ \A n \in 1..Cardinality(at) : /\ InOrder(at)[n] \in at
                                         /\ RowsAt(rows, at)[n] = rows[InOrder(at)[n]]
         /\ Range(RowsAt(rows, at)) = {rows[i] : i \in at}
<1>1. DOMAIN rows = 1..Len(rows) /\ Len(rows) \in Nat /\ \A i \in DOMAIN rows : rows[i] \in X
  OBVIOUS
<1>2. IsFiniteSet(1..Len(rows)) /\ at \in SUBSET (1..Len(rows)) /\ at \subseteq Nat
  BY <1>1, FS_Interval
<1>3. IsFiniteSet(at)
  BY <1>2, FS_Subset
<1> DEFINE c == Cardinality(at)
<1> DEFINE g == InOrder(at)
<1>4. /\ c \in Nat
      /\ g \in [1..c -> at]
      /\ \A i \in at : \E n \in 1..c : g[n] = i
  BY <1>2, <1>3, InOrderFacts
<1>5. RowsAt(rows, at) = [n \in 1..c |-> rows[g[n]]]
  BY DEF RowsAt
<1> HIDE DEF c, g
<1>6. \A n \in 1..c : g[n] \in at /\ rows[g[n]] \in X
  BY <1>1, <1>4
<1>7. RowsAt(rows, at) \in [1..c -> X]
  BY <1>5, <1>6
<1>8. RowsAt(rows, at) \in Seq(X) /\ Len(RowsAt(rows, at)) = c
  BY <1>4, <1>7
<1>9. Range(RowsAt(rows, at)) = {rows[i] : i \in at}
  <2>1. Range(RowsAt(rows, at)) = {rows[g[n]] : n \in 1..c}
    BY <1>5 DEF Range
  <2> QED BY <1>4, <1>6, <2>1
<1> QED BY <1>2, <1>3, <1>4, <1>5, <1>6, <1>7, <1>8, <1>9 DEF c, g

LEMMA RowsAtOrder ==
  ASSUME NEW X, NEW rows \in Seq(X), NEW at, at \subseteq DOMAIN rows
  PROVE  /\ \A i \in at : \E n \in 1..Cardinality(at) : InOrder(at)[n] = i
         /\ \A m, n \in 1..Cardinality(at) : m < n <=> InOrder(at)[m] < InOrder(at)[n]
BY RowsAtFacts, InOrderFacts

(* Every row has a first of its kind at or before it.                      *)
LEMMA FirstBefore ==
  ASSUME NEW X, NEW rows \in Seq(X), NEW i \in DOMAIN rows
  PROVE  \E k \in Firsts(rows) : k <= i /\ SameRow(rows[k], rows[i])
<1> DEFINE T == {k \in DOMAIN rows : k <= i /\ SameRow(rows[k], rows[i])}
<1>0. DOMAIN rows = 1..Len(rows) /\ Len(rows) \in Nat
  OBVIOUS
<1>1. T \subseteq Nat /\ i \in T
  BY <1>0, SameRowFacts
<1>2. PICK k \in T : \A m \in T : k <= m
  BY <1>1, LeastOf
<1>3. ASSUME NEW j \in 1..(k - 1), SameRow(rows[k], rows[j]) PROVE FALSE
  <2>1. j \in DOMAIN rows /\ j <= i /\ j < k
    BY <1>0, <1>2, <1>3
  <2>2. SameRow(rows[j], rows[i])
    BY <1>2, <1>3, SameRowFacts
  <2>3. j \in T
    BY <2>1, <2>2
  <2> QED BY <1>0, <1>2, <2>1, <2>3
<1>4. k \in Firsts(rows)
  BY <1>2, <1>3 DEF Firsts
<1> QED BY <1>2, <1>4

LEMMA FirstRowsFacts ==
  ASSUME NEW X, NEW rows \in Seq(X)
  PROVE  /\ FirstRows(rows) \subseteq Range(rows) /\ Range(rows) \subseteq X
         /\ \A r \in Range(rows) : \E f \in FirstRows(rows) : SameRow(f, r)
         /\ \A a, b \in FirstRows(rows) : SameRow(a, b) => a = b
<1>0. DOMAIN rows = 1..Len(rows) /\ Len(rows) \in Nat /\ \A i \in DOMAIN rows : rows[i] \in X
  OBVIOUS
<1>1. Firsts(rows) \subseteq DOMAIN rows
  BY DEF Firsts
<1>2. FirstRows(rows) \subseteq Range(rows) /\ Range(rows) \subseteq X
  BY <1>0, <1>1 DEF FirstRows, Range
<1>3. ASSUME NEW r \in Range(rows) PROVE \E f \in FirstRows(rows) : SameRow(f, r)
  <2>1. PICK i \in DOMAIN rows : r = rows[i]
    BY DEF Range
  <2> QED BY <2>1, FirstBefore DEF FirstRows
<1>4. ASSUME NEW a \in FirstRows(rows), NEW b \in FirstRows(rows), SameRow(a, b) PROVE a = b
  <2>1. PICK i \in Firsts(rows) : a = rows[i]
    BY DEF FirstRows
  <2>2. PICK j \in Firsts(rows) : b = rows[j]
    BY DEF FirstRows
  <2>3. ~ (i < j) /\ ~ (j < i)
    <3>1. i \in 1..Len(rows) /\ j \in 1..Len(rows)
      BY <1>0, <1>1
    <3>2. CASE i < j
      BY <1>4, <2>1, <2>2, <3>1, <3>2, SameRowFacts DEF Firsts
    <3>3. CASE j < i
      BY <1>4, <2>1, <2>2, <3>1, <3>3, SameRowFacts DEF Firsts
    <3> QED BY <3>2, <3>3
  <2>4. i = j
    BY <1>0, <1>1, <2>3
  <2> QED BY <2>1, <2>2, <2>4
<1> QED BY <1>2, <1>3, <1>4

LEMMA RowsAtDistinct ==
  ASSUME NEW X, NEW rows \in Seq(X), NEW at, at \subseteq DOMAIN rows,
         \A i, j \in at : i # j => ~SameRow(rows[i], rows[j])
  PROVE  Distinct(RowsAt(rows, at))
<1> DEFINE c == Cardinality(at)
<1> SUFFICES ASSUME NEW m \in 1..c, NEW n \in 1..c, m # n
             PROVE  ~SameRow(RowsAt(rows, at)[m], RowsAt(rows, at)[n])
  BY RowsAtFacts DEF Distinct
<1>1. /\ InOrder(at)[m] \in at /\ InOrder(at)[n] \in at /\ at \subseteq Nat
      /\ RowsAt(rows, at)[m] = rows[InOrder(at)[m]] /\ RowsAt(rows, at)[n] = rows[InOrder(at)[n]]
  BY RowsAtFacts
<1>2. InOrder(at)[m] # InOrder(at)[n]
  <2>1. m < n \/ n < m
    OBVIOUS
  <2>2. InOrder(at)[m] < InOrder(at)[n] \/ InOrder(at)[n] < InOrder(at)[m]
    BY <2>1, RowsAtOrder
  <2>3. InOrder(at)[m] \in Nat /\ InOrder(at)[n] \in Nat
    BY <1>1
  <2> QED BY <2>2, <2>3
<1> QED BY <1>1, <1>2

LEMMA CollapseFacts ==
  ASSUME NEW X, NEW rows \in Seq(X)
  PROVE  /\ Collapse(rows) \in Seq(X) /\ Distinct(Collapse(rows))
         /\ Range(Collapse(rows)) = FirstRows(rows)
         /\ Len(Collapse(rows)) = Cardinality(Firsts(rows))
<1>1. Firsts(rows) \subseteq DOMAIN rows
  BY DEF Firsts
<1>2. ASSUME NEW i \in Firsts(rows), NEW j \in Firsts(rows), i # j
      PROVE  ~SameRow(rows[i], rows[j])
  <2>1. i \in 1..Len(rows) /\ j \in 1..Len(rows) /\ Len(rows) \in Nat
    BY <1>1
  <2>2. i \in 1..(j - 1) \/ j \in 1..(i - 1)
    BY <1>2, <2>1
  <2> QED BY <2>2, SameRowFacts DEF Firsts
<1> QED BY <1>1, <1>2, RowsAtFacts, RowsAtDistinct DEF Collapse, FirstRows

LEMMA DistinctFacts ==
  ASSUME NEW X, NEW rows \in Seq(X), Distinct(rows)
  PROVE  /\ FirstRows(rows) = Range(rows)
         /\ \A a, b \in Range(rows) : SameRow(a, b) => a = b
         /\ IsFiniteSet(Range(rows)) /\ Cardinality(Range(rows)) = Len(rows)
         /\ \A i, j \in DOMAIN rows : rows[i] = rows[j] => i = j
<1>0. DOMAIN rows = 1..Len(rows) /\ Len(rows) \in Nat /\ rows \in [1..Len(rows) -> X]
  OBVIOUS
<1>1. Firsts(rows) = DOMAIN rows
  <2>1. ASSUME NEW i \in DOMAIN rows, NEW j \in 1..(i - 1) PROVE ~SameRow(rows[i], rows[j])
    <3>1. j \in DOMAIN rows /\ i # j
      BY <1>0
    <3> QED BY <3>1 DEF Distinct
  <2> QED BY <2>1 DEF Firsts
<1>2. FirstRows(rows) = Range(rows)
  BY <1>1 DEF FirstRows, Range
<1>3. \A i, j \in DOMAIN rows : rows[i] = rows[j] => i = j
  BY SameRowFacts DEF Distinct
<1>4. rows \in Bijection(1..Len(rows), Range(rows))
  <2>1. rows \in [1..Len(rows) -> Range(rows)]
    BY <1>0 DEF Range
  <2>2. \A t \in Range(rows) : \E s \in 1..Len(rows) : rows[s] = t
    BY <1>0 DEF Range
  <2>3. rows \in Injection(1..Len(rows), Range(rows))
    BY <1>0, <1>3, <2>1 DEF Injection, IsInjective
  <2>4. rows \in Surjection(1..Len(rows), Range(rows))
    BY <2>1, <2>2 DEF Surjection
  <2> QED BY <2>3, <2>4 DEF Bijection
<1>5. IsFiniteSet(1..Len(rows)) /\ Cardinality(1..Len(rows)) = Len(rows)
  BY <1>0, FS_Interval
<1>6. IsFiniteSet(Range(rows)) /\ Cardinality(Range(rows)) = Len(rows)
  BY <1>4, <1>5, FS_Bijection DEF ExistsBijection
<1>7. \A a, b \in Range(rows) : SameRow(a, b) => a = b
  BY <1>2, FirstRowsFacts
<1> QED BY <1>2, <1>3, <1>6, <1>7

(* Rows picked so that the first of each kind that is in G is among them.  *)
LEMMA RowsAtGood ==
  ASSUME NEW X, NEW rows \in Seq(X), NEW at, at \subseteq DOMAIN rows, NEW G,
         \A i, j \in DOMAIN rows : SameRow(rows[i], rows[j]) /\ rows[i] \in G => rows[j] \in G,
         \A i \in Firsts(rows) : rows[i] \in G => i \in at
  PROVE  FirstRows(RowsAt(rows, at)) \cap G = FirstRows(rows) \cap G
<1> DEFINE c == Cardinality(at)
<1> DEFINE g == InOrder(at)
<1> DEFINE R == RowsAt(rows, at)
<1>0. DOMAIN rows = 1..Len(rows) /\ Len(rows) \in Nat
  OBVIOUS
<1>1. /\ at \subseteq Nat /\ c \in Nat /\ DOMAIN R = 1..c
      /\ \A n \in 1..c : g[n] \in at /\ R[n] = rows[g[n]]
  BY RowsAtFacts
<1>2. /\ \A i \in at : \E n \in 1..c : g[n] = i
      /\ \A m, n \in 1..c : m < n <=> g[m] < g[n]
  BY RowsAtOrder
<1> HIDE DEF c, g, R
<1>3. ASSUME NEW n \in Firsts(R), R[n] \in G
      PROVE  R[n] \in FirstRows(rows)
  <2>1. n \in 1..c /\ \A m \in 1..(n - 1) : ~SameRow(R[n], R[m])
    BY <1>1 DEF Firsts
  <2>2. g[n] \in DOMAIN rows /\ R[n] = rows[g[n]]
    BY <1>1, <2>1
  <2>3. ASSUME NEW j \in 1..(g[n] - 1), SameRow(rows[g[n]], rows[j]) PROVE FALSE
    <3>1. j \in DOMAIN rows /\ j < g[n]
      BY <1>0, <2>2
    <3>2. PICK k \in Firsts(rows) : k <= j /\ SameRow(rows[k], rows[j])
      BY <3>1, FirstBefore
    <3>3. k \in DOMAIN rows /\ SameRow(rows[g[n]], rows[k])
      BY <2>3, <3>2, SameRowFacts DEF Firsts
    <3>4. k \in at
      BY <1>3, <2>2, <3>2, <3>3
    <3>5. PICK m \in 1..c : g[m] = k
      BY <1>2, <3>4
    <3>6. k < g[n]
      BY <1>0, <2>2, <3>1, <3>2, <3>3
    <3>7. m < n
      BY <1>2, <2>1, <3>5, <3>6
    <3>8. m \in 1..(n - 1) /\ R[m] = rows[k]
      BY <1>1, <2>1, <3>5, <3>7
    <3> QED BY <2>1, <2>2, <3>3, <3>8
  <2>4. g[n] \in Firsts(rows)
    BY <2>2, <2>3 DEF Firsts
  <2> QED BY <2>2, <2>4 DEF FirstRows
<1>4. ASSUME NEW i \in Firsts(rows), rows[i] \in G
      PROVE  rows[i] \in FirstRows(R)
  <2>1. i \in at /\ i \in DOMAIN rows /\ \A j \in 1..(i - 1) : ~SameRow(rows[i], rows[j])
    BY <1>4 DEF Firsts
  <2>2. PICK n \in 1..c : g[n] = i
    BY <1>2, <2>1
  <2>3. ASSUME NEW m \in 1..(n - 1) PROVE ~SameRow(R[n], R[m])
    <3>1. m \in 1..c /\ m < n
      BY <1>1
    <3>2. g[m] < g[n] /\ g[m] \in at /\ R[m] = rows[g[m]] /\ R[n] = rows[i]
      BY <1>1, <1>2, <2>2, <3>1
    <3>3. g[m] \in 1..(i - 1)
      BY <1>0, <2>1, <2>2, <3>2
    <3> QED BY <2>1, <3>2, <3>3
  <2>4. n \in Firsts(R) /\ R[n] = rows[i]
    BY <1>1, <2>2, <2>3 DEF Firsts
  <2> QED BY <2>4 DEF FirstRows
<1>5. FirstRows(R) \cap G \subseteq FirstRows(rows)
  BY <1>3 DEF FirstRows
<1>6. FirstRows(rows) \cap G \subseteq FirstRows(R)
  BY <1>4 DEF FirstRows
<1> QED BY <1>5, <1>6 DEF R

LEMMA ConcatFacts ==
  ASSUME NEW X, NEW a \in Seq(X), NEW b \in Seq(X)
  PROVE  /\ a \o b \in Seq(X) /\ Len(a \o b) = Len(a) + Len(b)
         /\ DOMAIN (a \o b) = 1..(Len(a) + Len(b))
         /\ \A i \in DOMAIN a : i \in DOMAIN (a \o b) /\ (a \o b)[i] = a[i]
         /\ \A i \in DOMAIN b : Len(a) + i \in DOMAIN (a \o b) /\ (a \o b)[Len(a) + i] = b[i]
         /\ \A i \in DOMAIN (a \o b) : i \notin DOMAIN a => i - Len(a) \in DOMAIN b /\ (a \o b)[i] = b[i - Len(a)]
         /\ Range(a \o b) = Range(a) \cup Range(b)
<1>1. /\ a \o b \in Seq(X) /\ Len(a \o b) = Len(a) + Len(b)
      /\ \A i \in 1..(Len(a) + Len(b)) : (a \o b)[i] = IF i <= Len(a) THEN a[i] ELSE b[i - Len(a)]
  BY ConcatProperties
<1>2. Len(a) \in Nat /\ Len(b) \in Nat /\ DOMAIN a = 1..Len(a) /\ DOMAIN b = 1..Len(b)
        /\ DOMAIN (a \o b) = 1..(Len(a) + Len(b))
  BY <1>1
<1>3. \A i \in DOMAIN a : i \in DOMAIN (a \o b) /\ (a \o b)[i] = a[i]
  BY <1>1, <1>2
<1>4. \A i \in DOMAIN b : Len(a) + i \in DOMAIN (a \o b) /\ (a \o b)[Len(a) + i] = b[i]
  <2> SUFFICES ASSUME NEW i \in DOMAIN b
               PROVE  Len(a) + i \in DOMAIN (a \o b) /\ (a \o b)[Len(a) + i] = b[i]
    OBVIOUS
  <2>1. Len(a) + i \in 1..(Len(a) + Len(b)) /\ ~ (Len(a) + i <= Len(a)) /\ (Len(a) + i) - Len(a) = i
    BY <1>2
  <2> QED BY <1>1, <1>2, <2>1
<1>5. \A i \in DOMAIN (a \o b) : i \notin DOMAIN a => i - Len(a) \in DOMAIN b /\ (a \o b)[i] = b[i - Len(a)]
  <2> SUFFICES ASSUME NEW i \in DOMAIN (a \o b), i \notin DOMAIN a
               PROVE  i - Len(a) \in DOMAIN b /\ (a \o b)[i] = b[i - Len(a)]
    OBVIOUS
  <2>1. i \in 1..(Len(a) + Len(b)) /\ ~ (i <= Len(a)) /\ i - Len(a) \in 1..Len(b)
    BY <1>2
  <2> QED BY <1>1, <1>2, <2>1
<1>6. Range(a \o b) = Range(a) \cup Range(b)
  <2>1. \A r \in Range(a \o b) : r \in Range(a) \/ r \in Range(b)
    BY <1>5 DEF Range
  <2>2. \A r \in Range(a) : r \in Range(a \o b)
    BY <1>3 DEF Range
  <2>3. \A r \in Range(b) : r \in Range(a \o b)
    BY <1>4 DEF Range
  <2> QED BY <2>1, <2>2, <2>3
<1> QED BY <1>1, <1>2, <1>3, <1>4, <1>5, <1>6

LEMMA ConcatFirsts ==
  ASSUME NEW X, NEW a \in Seq(X), NEW b \in Seq(X)
  PROVE  FirstRows(a \o b) =
           FirstRows(a) \cup {r \in FirstRows(b) : \A x \in FirstRows(a) : ~SameRow(x, r)}
<1> DEFINE s == a \o b
<1>1. /\ s \in Seq(X) /\ Len(s) = Len(a) + Len(b)
      /\ DOMAIN s = 1..(Len(a) + Len(b))
      /\ \A i \in DOMAIN a : i \in DOMAIN s /\ s[i] = a[i]
      /\ \A i \in DOMAIN b : Len(a) + i \in DOMAIN s /\ s[Len(a) + i] = b[i]
      /\ \A i \in DOMAIN s : i \notin DOMAIN a => i - Len(a) \in DOMAIN b /\ s[i] = b[i - Len(a)]
  BY ConcatFacts
<1>2. Len(a) \in Nat /\ Len(b) \in Nat /\ DOMAIN a = 1..Len(a) /\ DOMAIN b = 1..Len(b)
  OBVIOUS
<1> HIDE DEF s
<1>3. ASSUME NEW i \in Firsts(s)
      PROVE  \/ s[i] \in FirstRows(a)
             \/ s[i] \in FirstRows(b) /\ \A x \in FirstRows(a) : ~SameRow(x, s[i])
  <2>0. i \in DOMAIN s /\ \A j \in 1..(i - 1) : ~SameRow(s[i], s[j])
    BY DEF Firsts
  <2>1. CASE i \in DOMAIN a
    <3>1. ASSUME NEW j \in 1..(i - 1) PROVE ~SameRow(a[i], a[j])
      <4>1. j \in DOMAIN a
        BY <1>2, <2>1
      <4> QED BY <1>1, <2>0, <2>1, <4>1
    <3>2. i \in Firsts(a) /\ s[i] = a[i]
      BY <1>1, <2>1, <3>1 DEF Firsts
    <3> QED BY <3>2 DEF FirstRows
  <2>2. CASE i \notin DOMAIN a
    <3> DEFINE k == i - Len(a)
    <3>1. k \in DOMAIN b /\ s[i] = b[k] /\ i \in 1..(Len(a) + Len(b))
      BY <1>1, <2>0, <2>2
    <3>2. ASSUME NEW j \in 1..(k - 1) PROVE ~SameRow(b[k], b[j])
      <4>1. j \in DOMAIN b /\ Len(a) + j \in 1..(i - 1)
        BY <1>2, <3>1
      <4> QED BY <1>1, <2>0, <3>1, <4>1
    <3>3. k \in Firsts(b)
      BY <3>1, <3>2 DEF Firsts
    <3>4. ASSUME NEW x \in FirstRows(a) PROVE ~SameRow(x, s[i])
      <4>1. PICK j \in Firsts(a) : x = a[j]
        BY DEF FirstRows
      <4>2. j \in DOMAIN a
        BY DEF Firsts
      <4>3. j \in 1..(i - 1) /\ s[j] = a[j]
        BY <1>1, <1>2, <2>2, <3>1, <4>2
      <4> QED BY <2>0, <4>1, <4>3, SameRowFacts
    <3> QED BY <3>1, <3>3, <3>4 DEF FirstRows
  <2> QED BY <2>1, <2>2
<1>4. ASSUME NEW i \in Firsts(a) PROVE a[i] \in FirstRows(s)
  <2>1. i \in DOMAIN a /\ \A j \in 1..(i - 1) : ~SameRow(a[i], a[j])
    BY DEF Firsts
  <2>2. ASSUME NEW j \in 1..(i - 1) PROVE ~SameRow(s[i], s[j])
    <3>1. j \in DOMAIN a
      BY <1>2, <2>1
    <3> QED BY <1>1, <2>1, <3>1
  <2>3. i \in Firsts(s) /\ s[i] = a[i]
    BY <1>1, <2>1, <2>2 DEF Firsts
  <2> QED BY <2>3 DEF FirstRows
<1>5. ASSUME NEW i \in Firsts(b), \A x \in FirstRows(a) : ~SameRow(x, b[i])
      PROVE  b[i] \in FirstRows(s)
  <2>1. i \in DOMAIN b /\ \A j \in 1..(i - 1) : ~SameRow(b[i], b[j])
    BY DEF Firsts
  <2> DEFINE k == Len(a) + i
  <2>2. k \in DOMAIN s /\ s[k] = b[i]
    BY <1>1, <2>1
  <2>3. ASSUME NEW j \in 1..(k - 1) PROVE ~SameRow(s[k], s[j])
    <3>1. CASE j \in DOMAIN a
      <4>1. PICK f \in FirstRows(a) : SameRow(f, a[j])
        BY <3>1, FirstBefore DEF FirstRows
      <4>2. ~SameRow(f, b[i]) /\ s[j] = a[j]
        BY <1>1, <1>5, <3>1, <4>1
      <4> QED BY <2>2, <4>1, <4>2, SameRowFacts
    <3>2. CASE j \notin DOMAIN a
      <4>1. j \in DOMAIN s
        BY <1>1, <1>2, <2>1, <2>2
      <4>2. j - Len(a) \in DOMAIN b /\ s[j] = b[j - Len(a)]
        BY <1>1, <3>2, <4>1
      <4>3. j - Len(a) \in 1..(i - 1)
        BY <1>2, <2>1, <4>2
      <4> QED BY <2>1, <2>2, <4>2, <4>3
    <3> QED BY <3>1, <3>2
  <2>4. k \in Firsts(s)
    BY <2>2, <2>3 DEF Firsts
  <2> HIDE DEF k
  <2> QED BY <2>2, <2>4 DEF FirstRows
<1>6. FirstRows(s) \subseteq FirstRows(a) \cup {r \in FirstRows(b) : \A x \in FirstRows(a) : ~SameRow(x, r)}
  BY <1>3 DEF FirstRows
<1>7. FirstRows(a) \subseteq FirstRows(s)
  BY <1>4 DEF FirstRows
<1>8. ASSUME NEW r \in FirstRows(b), \A x \in FirstRows(a) : ~SameRow(x, r) PROVE r \in FirstRows(s)
  <2>1. PICK i \in Firsts(b) : r = b[i]
    BY DEF FirstRows
  <2> QED BY <1>5, <1>8, <2>1
<1> QED BY <1>6, <1>7, <1>8 DEF s

-----------------------------------------------------------------------------
\* Sets of rows one after the other, of those alike the first.

Layered(F, n) == {r \in UNION {F[i] : i \in 1..n} :
                    \E i \in 1..n : r \in F[i] /\ \A j \in 1..(i - 1) : \A x \in F[j] : ~SameRow(x, r)}

LEMMA LayeredCovers ==
  ASSUME NEW F, NEW n \in Nat, NEW i \in 1..n, NEW x \in F[i]
  PROVE  \E y \in Layered(F, n) : SameRow(y, x)
<1> DEFINE T == {j \in 1..n : \E y \in F[j] : SameRow(y, x)}
<1>1. T \subseteq Nat /\ i \in T
  BY SameRowFacts
<1>2. PICK j \in T : \A k \in T : j <= k
  BY <1>1, LeastOf
<1>3. PICK y \in F[j] : SameRow(y, x)
  BY <1>2
<1>4. ASSUME NEW k \in 1..(j - 1), NEW z \in F[k], SameRow(z, y) PROVE FALSE
  <2>1. k \in 1..n /\ k < j
    BY <1>2
  <2>2. k \in T
    BY <1>3, <1>4, <2>1, SameRowFacts
  <2> QED BY <1>1, <1>2, <2>1, <2>2
<1>5. y \in Layered(F, n)
  BY <1>2, <1>3, <1>4 DEF Layered
<1> QED BY <1>3, <1>5

LEMMA LayeredStep ==
  ASSUME NEW F, NEW n \in Nat
  PROVE  Layered(F, n + 1) =
           Layered(F, n) \cup {r \in F[n + 1] : \A x \in Layered(F, n) : ~SameRow(x, r)}
<1>1. ASSUME NEW r \in Layered(F, n + 1), r \notin Layered(F, n)
      PROVE  r \in F[n + 1] /\ \A x \in Layered(F, n) : ~SameRow(x, r)
  <2>1. PICK i \in 1..(n + 1) : r \in F[i] /\ \A j \in 1..(i - 1) : \A x \in F[j] : ~SameRow(x, r)
    BY DEF Layered
  <2>2. i = n + 1
    <3>1. CASE i \in 1..n
      BY <1>1, <2>1, <3>1 DEF Layered
    <3> QED BY <3>1
  <2>3. ASSUME NEW x \in Layered(F, n) PROVE ~SameRow(x, r)
    <3>1. PICK k \in 1..n : x \in F[k]
      BY DEF Layered
    <3> QED BY <2>1, <2>2, <3>1
  <2> QED BY <2>1, <2>2, <2>3
<1>2. Layered(F, n) \subseteq Layered(F, n + 1)
  <2> SUFFICES ASSUME NEW r \in Layered(F, n) PROVE r \in Layered(F, n + 1)
    OBVIOUS
  <2>1. PICK i \in 1..n : r \in F[i] /\ \A j \in 1..(i - 1) : \A x \in F[j] : ~SameRow(x, r)
    BY DEF Layered
  <2>2. i \in 1..(n + 1)
    OBVIOUS
  <2> QED BY <2>1, <2>2 DEF Layered
<1>3. ASSUME NEW r \in F[n + 1], \A x \in Layered(F, n) : ~SameRow(x, r)
      PROVE  r \in Layered(F, n + 1)
  <2>1. ASSUME NEW j \in 1..n, NEW x \in F[j], SameRow(x, r) PROVE FALSE
    <3>1. PICK y \in Layered(F, n) : SameRow(y, x)
      BY LayeredCovers
    <3> QED BY <1>3, <2>1, <3>1, SameRowFacts
  <2>2. n + 1 \in 1..(n + 1) /\ (n + 1) - 1 = n
    OBVIOUS
  <2> QED BY <2>1, <2>2 DEF Layered
<1> QED BY <1>1, <1>2, <1>3

LEMMA LayeredStart ==
  ASSUME NEW F
  PROVE  Layered(F, 0) = {}
BY DEF Layered

(* Only the part in G matters to the part in G.                            *)
Respects(U, G) == \A x, y \in U : SameRow(x, y) /\ y \in G => x \in G

LEMMA LayeredGood ==
  ASSUME NEW F, NEW H, NEW n \in Nat, NEW G, NEW U,
         \A i \in 1..n : F[i] \cap G = H[i] \cap G,
         \A i \in 1..n : F[i] \subseteq U /\ H[i] \subseteq U,
         Respects(U, G)
  PROVE  Layered(F, n) \cap G = Layered(H, n) \cap G
<1>1. ASSUME NEW A, NEW B,
             \A i \in 1..n : A[i] \cap G = B[i] \cap G,
             \A i \in 1..n : A[i] \subseteq U /\ B[i] \subseteq U,
             NEW r \in Layered(A, n), r \in G
      PROVE  r \in Layered(B, n)
  <2>1. PICK i \in 1..n : r \in A[i] /\ \A j \in 1..(i - 1) : \A x \in A[j] : ~SameRow(x, r)
    BY DEF Layered
  <2>2. r \in B[i] /\ r \in U
    BY <1>1, <2>1
  <2>3. ASSUME NEW j \in 1..(i - 1), NEW x \in B[j], SameRow(x, r) PROVE FALSE
    <3>1. j \in 1..n
      OBVIOUS
    <3>2. x \in G
      BY <1>1, <2>2, <2>3, <3>1 DEF Respects
    <3>3. x \in A[j]
      BY <1>1, <3>1, <3>2
    <3> QED BY <2>1, <2>3, <3>3
  <2> QED BY <2>2, <2>3 DEF Layered
<1>2. Layered(F, n) \cap G \subseteq Layered(H, n)
  BY <1>1, Zenon
<1>3. Layered(H, n) \cap G \subseteq Layered(F, n)
  <2>1. /\ \A i \in 1..n : H[i] \cap G = F[i] \cap G
        /\ \A i \in 1..n : H[i] \subseteq U /\ F[i] \subseteq U
    BY Zenon
  <2> QED BY <1>1, <2>1, Zenon
<1> QED BY <1>2, <1>3

-----------------------------------------------------------------------------
\* The sequences of a sequence in one.

(* The step of the recursive function that concatenates.                   *)
FlatStep(ss, f, i) == IF i = 1 THEN ss[i] ELSE f[i - 1] \o ss[i]

LEMMA FlatExists ==
  ASSUME NEW ss, NEW N \in Nat
  PROVE  \E f : f = [i \in 1..N |-> FlatStep(ss, f, i)]
<1> DEFINE S == {n \in 0..N : \E f : f = [i \in 1..n |-> FlatStep(ss, f, i)]}
<1>1. 0 \in S
  <2>1. 0 \in 0..N /\ 1..0 = {}
    OBVIOUS
  <2>2. [i \in 1..0 |-> i] = [i \in 1..0 |-> FlatStep(ss, [k \in 1..0 |-> k], i)]
    BY <2>1
  <2> QED BY <2>1, <2>2
<1>2. ASSUME NEW n \in 0..(N - 1), n \in S PROVE n + 1 \in S
  <2>1. PICK f : f = [i \in 1..n |-> FlatStep(ss, f, i)]
    BY <1>2
  <2> DEFINE g == [i \in 1..(n + 1) |-> IF i \in 1..n THEN f[i] ELSE FlatStep(ss, f, n + 1)]
  <2>2. ASSUME NEW i \in 1..(n + 1) PROVE g[i] = FlatStep(ss, g, i)
    <3>1. CASE i = 1
      <4>1. FlatStep(ss, g, i) = ss[i] /\ FlatStep(ss, f, i) = ss[i]
        BY <3>1 DEF FlatStep
      <4>2. i \in 1..n => f[i] = ss[i]
        BY <2>1, <4>1
      <4>3. i \notin 1..n => i = n + 1
        OBVIOUS
      <4> HIDE DEF g
      <4>4. g[i] = IF i \in 1..n THEN f[i] ELSE FlatStep(ss, f, n + 1)
        BY DEF g
      <4> QED BY <4>1, <4>2, <4>3, <4>4
    <3>2. CASE i # 1
      <4>1. i - 1 \in 1..n /\ i - 1 \in 1..(n + 1)
        BY <3>2
      <4>2. g[i - 1] = f[i - 1]
        BY <4>1
      <4> HIDE DEF g
      <4>3. FlatStep(ss, g, i) = g[i - 1] \o ss[i] /\ FlatStep(ss, f, i) = f[i - 1] \o ss[i]
        BY <3>2 DEF FlatStep
      <4>4. i \in 1..n => f[i] = FlatStep(ss, f, i)
        BY <2>1
      <4>5. i \notin 1..n => i = n + 1
        OBVIOUS
      <4>6. g[i] = IF i \in 1..n THEN f[i] ELSE FlatStep(ss, f, n + 1)
        BY DEF g
      <4> QED BY <4>2, <4>3, <4>4, <4>5, <4>6
    <3> QED BY <3>1, <3>2
  <2>3. g = [i \in 1..(n + 1) |-> g[i]]
    OBVIOUS
  <2> HIDE DEF g
  <2>4. g = [i \in 1..(n + 1) |-> FlatStep(ss, g, i)]
    BY <2>2, <2>3
  <2>5. n + 1 \in 0..N
    OBVIOUS
  <2> QED BY <2>4, <2>5
<1>3. N \in S
  <2> HIDE DEF S
  <2>1. \A n \in 0..N : n \in S
    BY <1>1, <1>2, UpTo
  <2> QED BY <2>1
<1> QED BY <1>3

LEMMA FlattenFacts ==
  ASSUME NEW X, NEW ss \in Seq(Seq(X)), NEW F, \A i \in 1..Len(ss) : F[i] = FirstRows(ss[i])
  PROVE  /\ FlattenSeq(ss) \in Seq(X)
         /\ Range(FlattenSeq(ss)) = UNION {Range(ss[i]) : i \in 1..Len(ss)}
         /\ FirstRows(FlattenSeq(ss)) = Layered(F, Len(ss))
<1> DEFINE N == Len(ss)
<1>1. N \in Nat /\ DOMAIN ss = 1..N /\ \A i \in 1..N : ss[i] \in Seq(X)
  OBVIOUS
<1>2. CASE N = 0
  <2>1. ss = <<>> /\ FlattenSeq(ss) = ss /\ 1..N = {}
    BY <1>2 DEF FlattenSeq
  <2>2. FlattenSeq(ss) = <<>> /\ DOMAIN FlattenSeq(ss) = {} /\ FlattenSeq(ss) \in Seq(X)
    <3>1. <<>> \in Seq(X) /\ DOMAIN <<>> = {}
      BY EmptySeq
    <3> QED BY <2>1, <3>1
  <2>3. Range(FlattenSeq(ss)) = {} /\ Firsts(FlattenSeq(ss)) = {}
    BY <2>2 DEF Range, Firsts
  <2>4. FirstRows(FlattenSeq(ss)) = {}
    BY <2>3 DEF FirstRows
  <2> QED BY <1>2, <2>1, <2>2, <2>3, <2>4, LayeredStart
<1>3. CASE N # 0
  <2> DEFINE flat == CHOOSE f : f = [i \in 1..N |-> FlatStep(ss, f, i)]
  <2>1. FlattenSeq(ss) = flat[N]
    BY <1>3 DEF FlattenSeq, FlatStep
  <2>2. flat = [i \in 1..N |-> FlatStep(ss, flat, i)]
    <3>1. \E f : f = [i \in 1..N |-> FlatStep(ss, f, i)]
      BY <1>1, FlatExists
    <3> QED BY <3>1
  <2> HIDE DEF flat, N
  <2> DEFINE Good(n) == /\ flat[n] \in Seq(X)
                        /\ Range(flat[n]) = UNION {Range(ss[i]) : i \in 1..n}
                        /\ FirstRows(flat[n]) = Layered(F, n)
  <2> DEFINE S == {0} \cup {n \in 1..N : Good(n)}
  <2>3. ASSUME NEW n \in 0..(N - 1), n \in S PROVE n + 1 \in S
    <3>0. n + 1 \in 1..N /\ n \in Nat
      BY <1>1
    <3>1. CASE n = 0
      <4>1. flat[1] = ss[1] /\ 1..1 = {1} /\ n + 1 = 1
        BY <1>3, <2>2, <3>0, <3>1 DEF FlatStep
      <4>2. F[1] = FirstRows(ss[1])
        BY <3>0, <4>1 DEF N
      <4>3. Layered(F, 1) = F[1]
        <5>1. Layered(F, 0 + 1) = Layered(F, 0) \cup {r \in F[0 + 1] : \A x \in Layered(F, 0) : ~SameRow(x, r)}
          BY LayeredStep
        <5>2. 0 + 1 = 1
          OBVIOUS
        <5> QED BY <5>1, <5>2, LayeredStart
      <4>4. Good(1)
        BY <1>1, <3>0, <4>1, <4>2, <4>3
      <4> QED BY <3>0, <4>1, <4>4
    <3>2. CASE n # 0
      <4>1. Good(n) /\ n \in 1..N
        BY <2>3, <3>2
      <4>2. flat[n + 1] = flat[n] \o ss[n + 1]
        <5>1. flat[n + 1] = FlatStep(ss, flat, n + 1)
          BY <2>2, <3>0
        <5>2. n + 1 # 1 /\ (n + 1) - 1 = n
          BY <3>0, <3>2
        <5> QED BY <5>1, <5>2 DEF FlatStep
      <4>3. ss[n + 1] \in Seq(X) /\ F[n + 1] = FirstRows(ss[n + 1])
        BY <1>1, <3>0 DEF N
      <4>4. /\ flat[n + 1] \in Seq(X)
            /\ Range(flat[n + 1]) = Range(flat[n]) \cup Range(ss[n + 1])
        BY <4>1, <4>2, <4>3, ConcatFacts
      <4>5. FirstRows(flat[n + 1]) =
              Layered(F, n) \cup {r \in F[n + 1] : \A x \in Layered(F, n) : ~SameRow(x, r)}
        BY <4>1, <4>2, <4>3, ConcatFirsts
      <4>6. FirstRows(flat[n + 1]) = Layered(F, n + 1)
        BY <3>0, <4>5, LayeredStep
      <4>7. 1..(n + 1) = (1..n) \cup {n + 1}
        BY <3>0
      <4>8. Range(flat[n + 1]) = UNION {Range(ss[i]) : i \in 1..(n + 1)}
        BY <4>1, <4>4, <4>7
      <4> QED BY <3>0, <4>4, <4>6, <4>8
    <3> QED BY <3>1, <3>2
  <2>4. \A n \in 0..N : n \in S
    <3> HIDE DEF S
    <3>1. 0 \in S
      BY DEF S
    <3> QED BY <1>1, <2>3, <3>1, UpTo
  <2>5. Good(N)
    <3> HIDE DEF Good
    <3>1. N \in S
      BY <1>1, <2>4
    <3> QED BY <1>3, <3>1
  <2> QED BY <2>1, <2>5 DEF N
<1> QED BY <1>2, <1>3

-----------------------------------------------------------------------------
\* The order of rows, and the rows of a page.

(* Rows, and the rows of groups.                                           *)
SortRow == Row \cup [Fields -> Nat]
IsOrder(q) == q.order \in {"none"} \cup Fields

LEMMA TwoNumbers ==
  ASSUME NEW a \in Int, NEW b \in Int
  PROVE  /\ Min({a, b}) = IF a <= b THEN a ELSE b
         /\ Max({a, b}) = IF a >= b THEN a ELSE b
<1>1. Min({a, b}) = IF a <= b THEN a ELSE b
  BY DEF Min
<1>2. Max({a, b}) = IF a >= b THEN a ELSE b
  BY DEF Max
<1> QED BY <1>1, <1>2

LEMMA FieldFacts ==
  ASSUME NEW r \in SortRow
  PROVE  /\ r.name \in Nat /\ r.kind \in Nat /\ r.path \in Nat /\ r.line \in Nat /\ r.val \in Nat
         /\ \A f \in Fields : Field(r, f) \in Nat
         /\ r \in Row => Field(r, "count") = 0
<1>0. Default \in Nat
  BY FindAssumption
<1>1. r.name \in Nat /\ r.kind \in Nat /\ r.path \in Nat /\ r.line \in Nat /\ r.val \in Nat
  BY DEF SortRow, Row, Fields
<1>2. r \in Row => "count" \notin DOMAIN r
  BY DEF Row
<1>3. "count" \in DOMAIN r => r.count \in Nat
  BY <1>2 DEF SortRow, Fields
<1>4. Field(r, "count") \in Nat /\ (r \in Row => Field(r, "count") = 0)
  BY <1>2, <1>3 DEF Field
<1>5. Field(r, "val") \in Nat
  BY <1>0, <1>1 DEF Field, ResolvedValue
<1>6. \A f \in {"name", "kind", "path", "line"} : Field(r, f) \in Nat
  BY <1>1 DEF Field
<1> QED BY <1>1, <1>4, <1>5, <1>6 DEF Fields

LEMMA SameRowIs ==
  \A a, b : SameRow(a, b) <=> a.name = b.name /\ a.kind = b.kind /\ a.path = b.path /\ a.line = b.line
BY DEF SameRow

LEMMA BeforeFacts ==
  ASSUME NEW q, IsOrder(q), NEW a \in SortRow, NEW b \in SortRow, NEW c \in SortRow
  PROVE  /\ ~Before(q, a, a)
         /\ Before(q, a, b) /\ Before(q, b, c) => Before(q, a, c)
         /\ ~SameRow(a, b) => Before(q, a, b) \/ Before(q, b, a)
<1> DEFINE less(x, y) == \/ x.name < y.name
                         \/ x.name = y.name /\ x.line < y.line
                         \/ x.name = y.name /\ x.line = y.line /\ x.path < y.path
                         \/ x.name = y.name /\ x.line = y.line /\ x.path = y.path /\ x.kind < y.kind
<1>1. /\ a.name \in Nat /\ a.kind \in Nat /\ a.path \in Nat /\ a.line \in Nat
      /\ b.name \in Nat /\ b.kind \in Nat /\ b.path \in Nat /\ b.line \in Nat
      /\ c.name \in Nat /\ c.kind \in Nat /\ c.path \in Nat /\ c.line \in Nat
  BY FieldFacts
<1>2. /\ ~less(a, a)
      /\ less(a, b) /\ less(b, c) => less(a, c)
      /\ ~SameRow(a, b) => less(a, b) \/ less(b, a)
  BY <1>1, SameRowIs
<1> DEFINE order(x, y, k, l) == IF q.order = "none" \/ k = l THEN less(x, y)
                                ELSE IF q.descending THEN k > l ELSE k < l
<1>3. \A x, y : Before(q, x, y) = order(x, y, Field(x, q.order), Field(y, q.order))
  BY DEF Before
<1> HIDE DEF less
<1>4. CASE q.order = "none"
  BY <1>2, <1>3, <1>4
<1>5. CASE q.order # "none"
  <2>1. Field(a, q.order) \in Nat /\ Field(b, q.order) \in Nat /\ Field(c, q.order) \in Nat
    BY <1>5, FieldFacts DEF IsOrder
  <2> PICK k : k = Field(a, q.order)
    OBVIOUS
  <2> PICK l : l = Field(b, q.order)
    OBVIOUS
  <2> PICK m : m = Field(c, q.order)
    OBVIOUS
  <2>2. /\ Before(q, a, a) = order(a, a, k, k) /\ Before(q, a, b) = order(a, b, k, l)
        /\ Before(q, b, c) = order(b, c, l, m) /\ Before(q, a, c) = order(a, c, k, m)
        /\ Before(q, b, a) = order(b, a, l, k)
    BY <1>3
  <2>3. k \in Nat /\ l \in Nat /\ m \in Nat
    BY <2>1
  <2>4. ~order(a, a, k, k)
    BY <1>2, <2>3
  <2>5. order(a, b, k, l) /\ order(b, c, l, m) => order(a, c, k, m)
    <3>1. CASE q.descending
      BY <1>2, <1>5, <2>3, <3>1
    <3>2. CASE ~q.descending
      BY <1>2, <1>5, <2>3, <3>2
    <3> QED BY <3>1, <3>2
  <2>6. ~SameRow(a, b) => order(a, b, k, l) \/ order(b, a, l, k)
    BY <1>2, <1>5, <2>3
  <2> HIDE DEF order
  <2> QED BY <2>2, <2>4, <2>5, <2>6
<1> QED BY <1>4, <1>5

LEMMA TopKFacts ==
  ASSUME NEW q, IsOrder(q), NEW X, X \subseteq SortRow, NEW rows \in Seq(X), Distinct(rows), NEW k \in Nat,
         NEW T, T = TopK(q, rows, k)
  PROVE  /\ T \in Seq(X) /\ Len(T) = (IF k <= Len(rows) THEN k ELSE Len(rows))
         /\ Range(T) \subseteq Range(rows) /\ Distinct(T)
         /\ k >= Len(rows) => Range(T) = Range(rows)
         /\ \A i, j \in DOMAIN T : i < j <=> Before(q, T[i], T[j])
         /\ \A r \in Range(rows) \ Range(T) : \A i \in DOMAIN T : Before(q, T[i], r)
<1> DEFINE D == DOMAIN rows
<1> DEFINE R == {p \in D \X D : Before(q, rows[p[1]], rows[p[2]])}
<1>1. D = 1..Len(rows) /\ Len(rows) \in Nat /\ \A i \in D : rows[i] \in X /\ rows[i] \in SortRow
  OBVIOUS
<1>2. IsFiniteSet(D) /\ Cardinality(D) = Len(rows)
  <2> HIDE DEF D
  <2>0. Len(rows) \in Nat
    BY <1>1
  <2>1. IsFiniteSet(1..Len(rows)) /\ Cardinality(1..Len(rows)) = Len(rows)
    BY <2>0, IntervalFacts
  <2> QED BY <1>1, <2>1
<1>3. \A x, y \in D : <<x, y>> \in R <=> Before(q, rows[x], rows[y])
  OBVIOUS
<1>4. \A x \in D : Rank(D, R)[x] = Cardinality({j \in D : Before(q, rows[j], rows[x])})
  <2> SUFFICES ASSUME NEW x \in D
               PROVE  Rank(D, R)[x] = Cardinality({j \in D : Before(q, rows[j], rows[x])})
    OBVIOUS
  <2> HIDE DEF D, R
  <2>1. {y \in D : <<y, x>> \in R} = {j \in D : Before(q, rows[j], rows[x])}
    BY <1>3
  <2>2. Rank(D, R)[x] = Cardinality({y \in D : <<y, x>> \in R})
    BY DEF Rank
  <2> QED BY <2>1, <2>2
<1> DEFINE place(n) == CHOOSE i \in D : Cardinality({j \in D : Before(q, rows[j], rows[i])}) = n - 1
<1> DEFINE g == [n \in 1..Cardinality(D) |-> place(n)]
<1> DEFINE m == IF k <= Len(rows) THEN k ELSE Len(rows)
<1>5. T = [n \in 1..m |-> rows[place(n)]]
  <2>1. Min({k, Len(rows)}) = m
    BY <1>1, TwoNumbers
  <2> QED BY <2>1 DEF TopK
<1>6. \A n \in 1..Cardinality(D) :
        (\E x \in D : Rank(D, R)[x] = n - 1) => place(n) \in D /\ Rank(D, R)[place(n)] = n - 1
  BY <1>4
<1> HIDE DEF place, D
<1>7. g = [n \in 1..Cardinality(D) |-> g[n]] /\ \A n \in 1..Cardinality(D) : g[n] = place(n)
  OBVIOUS
<1>8. /\ \A x \in D : <<x, x>> \notin R
      /\ \A x, y, z \in D : <<x, y>> \in R /\ <<y, z>> \in R => <<x, z>> \in R
      /\ \A x, y \in D : x # y => <<x, y>> \in R \/ <<y, x>> \in R
  <2> HIDE DEF R
  <2>1. \A x \in D : <<x, x>> \notin R
    BY <1>1, <1>3, BeforeFacts
  <2>2. ASSUME NEW x \in D, NEW y \in D, NEW z \in D, <<x, y>> \in R, <<y, z>> \in R
        PROVE <<x, z>> \in R
    BY <1>1, <1>3, <2>2, BeforeFacts
  <2>3. ASSUME NEW x \in D, NEW y \in D, x # y PROVE <<x, y>> \in R \/ <<y, x>> \in R
    <3>1. ~SameRow(rows[x], rows[y])
      BY <2>3 DEF Distinct, D
    <3> QED BY <1>1, <1>3, <3>1, BeforeFacts
  <2> QED BY <2>1, <2>2, <2>3
<1> HIDE DEF R, g
<1>9. /\ \A n \in 1..Len(rows) : g[n] \in D
      /\ \A x \in D : \E n \in 1..Len(rows) : g[n] = x
      /\ \A i, j \in 1..Len(rows) : i < j <=> <<g[i], g[j]>> \in R
  <2>1. \A n \in 1..Cardinality(D) :
          (\E x \in D : Rank(D, R)[x] = n - 1) => g[n] \in D /\ Rank(D, R)[g[n]] = n - 1
    BY <1>6, <1>7
  <2>2. /\ \A n \in 1..Cardinality(D) : g[n] \in D
        /\ \A x \in D : \E n \in 1..Cardinality(D) : g[n] = x
        /\ \A i, j \in 1..Cardinality(D) : i < j <=> <<g[i], g[j]>> \in R
    BY SMTT(40), <1>2, <1>8, <2>1, Places
  <2> QED BY <1>2, <2>2
<1>10. /\ m \in Nat /\ m <= Len(rows) /\ 1..m \subseteq 1..Len(rows)
       /\ T = [n \in 1..m |-> rows[g[n]]]
  <2>1. m \in Nat /\ m <= Len(rows) /\ 1..m \subseteq 1..Len(rows)
    BY <1>1
  <2>2. \A n \in 1..m : place(n) = g[n]
    BY <1>2, <1>7, <2>1
  <2> HIDE DEF m
  <2> QED BY <1>5, <2>1, <2>2
<1>11. m = (IF k <= Len(rows) THEN k ELSE Len(rows))
  OBVIOUS
<1> HIDE DEF m
<1>12. T \in Seq(X) /\ Len(T) = m /\ DOMAIN T = 1..m /\ \A i \in 1..m : T[i] = rows[g[i]] /\ g[i] \in D
  <2>1. \A i \in 1..m : rows[g[i]] \in X /\ g[i] \in D
    BY <1>1, <1>9, <1>10
  <2>2. T \in [1..m -> X]
    BY <1>10, <2>1
  <2> QED BY <1>10, <2>1, <2>2
<1>13. Range(T) \subseteq Range(rows)
  BY <1>12 DEF Range, D
<1>14. \A i, j \in 1..Len(rows) : g[i] = g[j] => i = j
  <2> SUFFICES ASSUME NEW i \in 1..Len(rows), NEW j \in 1..Len(rows), g[i] = g[j] PROVE i = j
    OBVIOUS
  <2>1. ~ (i < j) /\ ~ (j < i)
    BY <1>8, <1>9
  <2> QED BY <1>1, <2>1
<1>15. Distinct(T)
  <2> SUFFICES ASSUME NEW i \in 1..m, NEW j \in 1..m, i # j PROVE ~SameRow(T[i], T[j])
    BY <1>12 DEF Distinct
  <2>1. g[i] # g[j] /\ g[i] \in D /\ g[j] \in D /\ T[i] = rows[g[i]] /\ T[j] = rows[g[j]]
    BY <1>10, <1>12, <1>14
  <2> QED BY <2>1 DEF Distinct, D
<1>16. ASSUME NEW i \in 1..m, NEW j \in 1..m PROVE i < j <=> Before(q, T[i], T[j])
  BY ZenonT(60), <1>3, <1>9, <1>10, <1>12
<1>17. ASSUME NEW r \in Range(rows), r \notin Range(T), NEW i \in 1..m
       PROVE  Before(q, T[i], r)
  <2>1. PICK x \in D : r = rows[x]
    BY DEF Range, D
  <2>2. PICK n \in 1..Len(rows) : g[n] = x
    BY <1>9
  <2>3. n \notin 1..m
    BY <1>12, <1>17, <2>1, <2>2 DEF Range
  <2>4. i < n /\ i \in 1..Len(rows)
    BY <1>10, <2>3
  <2>5. <<g[i], g[n]>> \in R
    BY <1>9, <2>4
  <2> QED BY <1>3, <1>12, <2>1, <2>2, <2>5
<1>18. k >= Len(rows) => Range(rows) \subseteq Range(T)
  <2> SUFFICES ASSUME k >= Len(rows), NEW r \in Range(rows) PROVE r \in Range(T)
    OBVIOUS
  <2>1. m = Len(rows)
    BY <1>1, <1>11
  <2>2. PICK x \in D : r = rows[x]
    BY DEF Range, D
  <2>3. PICK n \in 1..Len(rows) : g[n] = x
    BY <1>9
  <2> QED BY <1>12, <2>1, <2>2, <2>3 DEF Range
<1> QED BY <1>11, <1>12, <1>13, <1>15, <1>16, <1>17, <1>18

-----------------------------------------------------------------------------
\* The page of rows in order.

(* What a clause asks of a page, as far as the page is concerned.          *)
IsClause(q) == /\ IsOrder(q) /\ q.having \in Nat
               /\ q.limit \in Nat \cup {NoLimit} /\ q.offset \in Nat

(* Where the rows are that pass HAVING; how many of n rows OFFSET and      *)
(* LIMIT leave; rows in the order of the query.                            *)
HadAt(q, rows) == {i \in DOMAIN rows : q.having = 0 \/ Field(rows[i], "count") >= q.having}
PageLen(q, n) == LET left == Max({0, n - q.offset})
                 IN IF q.limit = NoLimit THEN left ELSE Min({q.limit, left})
Sorted(q, T) == \A i, j \in DOMAIN T : i < j <=> Before(q, T[i], T[j])

(* T is what OFFSET and LIMIT cut the page of rows from.                   *)
CutFrom(q, rows, page, T) ==
  /\ Distinct(T) /\ Sorted(q, T)
  /\ Range(T) = {rows[i] : i \in HadAt(q, rows)}
  /\ Len(T) = Cardinality(HadAt(q, rows))
  /\ Len(page.rows) = PageLen(q, Len(T))
  /\ \A i \in DOMAIN page.rows : /\ i \in Nat /\ i >= 1 /\ q.offset + i \in DOMAIN T
                                 /\ q.limit # NoLimit => i <= q.limit
                                 /\ page.rows[i] = T[q.offset + i]

LEMMA PagedFacts ==
  ASSUME NEW q, IsClause(q), NEW X, X \subseteq SortRow, NEW rows \in Seq(X), Distinct(rows),
         NEW shed
  PROVE  /\ \E T \in Seq(X) : CutFrom(q, rows, Paged(q, rows, shed), T)
         /\ Paged(q, rows, shed).rows \in Seq(X)
         /\ Paged(q, rows, shed).total = Cardinality(HadAt(q, rows)) + shed
         /\ Paged(q, rows, shed).refused = FALSE
<1> DEFINE at == HadAt(q, rows)
<1> DEFINE had == RowsAt(rows, at)
<1> DEFINE T == TopK(q, had, Len(had))
<1> DEFINE lim == IF q.limit = NoLimit THEN Len(had) ELSE q.limit
<1> DEFINE off == q.offset
<1> DEFINE top == Min({off + lim, Len(had)})
<1> DEFINE P == SubSeq(T, off + 1, top)
<1>1. at \subseteq DOMAIN rows
  BY DEF HadAt
<1>2. had \in Seq(X) /\ Len(had) = Cardinality(at) /\ Len(had) \in Nat /\ Range(had) = {rows[i] : i \in at}
  BY <1>1, RowsAtFacts
<1>3. Distinct(had)
  <2>1. \A i, j \in at : i # j => ~SameRow(rows[i], rows[j])
    BY <1>1 DEF Distinct
  <2> QED BY <1>1, <2>1, RowsAtDistinct
<1>4. Paged(q, rows, shed) = [rows |-> P, total |-> Len(had) + shed, refused |-> FALSE]
  BY DEF Paged, HadAt
<1> HIDE DEF at, had
<1>5. /\ T \in Seq(X) /\ Len(T) = Len(had) /\ Range(T) \subseteq Range(had) /\ Distinct(T)
      /\ Range(T) = Range(had) /\ Sorted(q, T)
  <2>0. Len(had) >= Len(had)
    BY <1>2
  <2>1. IsOrder(q)
    BY DEF IsClause
  <2> QED BY <1>2, <1>3, <2>0, <2>1, TopKFacts DEF Sorted
<1> HIDE DEF T
<1>6. off \in Nat /\ lim \in Nat /\ (q.limit # NoLimit => q.limit \in Nat /\ lim = q.limit)
  BY <1>2 DEF IsClause
<1>7. q.limit = NoLimit => lim = Len(had)
  OBVIOUS
<1> HIDE DEF lim, off
<1>8. top \in Nat /\ top <= Len(T) /\ top <= off + lim /\ (top = off + lim \/ top = Len(T))
  BY <1>2, <1>5, <1>6, TwoNumbers
<1> HIDE DEF top
<1>9. /\ P \in Seq(X) /\ Len(P) = (IF off + 1 <= top THEN top - off ELSE 0)
      /\ \A i \in 1..Len(P) : off + i \in 1..Len(T) /\ i <= lim /\ P[i] = T[off + i]
  <2>1. T \in Seq(X) /\ off + 1 \in 1..(Len(T) + 1) /\ top \in 0..Len(T)
          => P \in Seq(X) /\ Len(P) = (IF off + 1 <= top THEN top - (off + 1) + 1 ELSE 0)
               /\ \A i \in 1..Len(P) : P[i] = T[off + 1 + i - 1]
    BY <1>5, SubSeqProperties
  <2>2. CASE off + 1 <= top
    <3>1. off + 1 \in 1..(Len(T) + 1) /\ top \in 0..Len(T)
      BY <1>2, <1>5, <1>6, <1>8, <2>2
    <3>2. P \in Seq(X) /\ Len(P) = top - off /\ \A i \in 1..Len(P) : P[i] = T[off + 1 + i - 1]
      BY <1>5, <1>6, <1>8, <2>1, <2>2, <3>1
    <3>3. ASSUME NEW i \in 1..Len(P) PROVE off + i \in 1..Len(T) /\ i <= lim /\ P[i] = T[off + i]
      <4> HIDE DEF P
      <4>0. Len(P) \in Nat /\ Len(P) = top - off /\ i \in 1..Len(P)
        BY <1>6, <1>8, <2>2, <3>2
      <4>1. off + 1 + i - 1 = off + i /\ off + i \in 1..Len(T) /\ i <= lim
        BY SMTT(20), <1>2, <1>5, <1>6, <1>8, <4>0
      <4> QED BY <3>2, <4>1
    <3> QED BY <2>2, <3>2, <3>3
  <2>3. CASE ~ (off + 1 <= top)
    <3>1. P = <<>>
      <4>1. off + 1 \in Int /\ top \in Int /\ off + 1 > top
        BY <1>6, <1>8, <2>3
      <4> QED BY <1>5, <4>1, SubSeqEmpty
    <3>2. P \in Seq(X) /\ Len(P) = 0
      <4> HIDE DEF P
      <4> QED BY <3>1, EmptySeq
    <3> QED BY <2>3, <3>2
  <2> QED BY <2>2, <2>3
<1> HIDE DEF P
<1>10. Len(P) = PageLen(q, Len(T))
  <2> DEFINE left == Max({0, Len(T) - q.offset})
  <2>1. PageLen(q, Len(T)) = IF q.limit = NoLimit THEN left ELSE Min({q.limit, left})
    BY DEF PageLen
  <2>2. left = (IF off >= Len(T) THEN 0 ELSE Len(T) - off)
    <3>1. q.offset = off
      BY DEF off
    <3>2. Len(T) - off \in Int /\ Len(T) \in Nat
      BY <1>2, <1>5, <1>6
    <3>3. left = IF 0 >= Len(T) - off THEN 0 ELSE Len(T) - off
      <4>1. PICK d \in Int : d = Len(T) - q.offset
        BY <3>1, <3>2
      <4>2. Max({0, d}) = IF 0 >= d THEN 0 ELSE d
        <5>1. PICK z \in Int : z = 0
          OBVIOUS
        <5>2. Max({z, d}) = IF z >= d THEN z ELSE d
          BY <4>1, <5>1, TwoNumbers
        <5> QED BY <5>1, <5>2
      <4>3. left = Max({0, d}) /\ Len(T) - off = d
        BY <3>1, <4>1
      <4> QED BY <4>2, <4>3
    <3> QED BY <1>6, <3>2, <3>3
  <2>3. left \in Nat
    BY <1>2, <1>5, <1>6, <2>2
  <2> HIDE DEF left
  <2>4. Min({lim, left}) = IF lim <= left THEN lim ELSE left
    BY <1>6, <2>3, TwoNumbers
  <2>5. q.limit = NoLimit => Len(P) = left
    BY <1>2, <1>5, <1>6, <1>7, <1>8, <1>9, <2>2
  <2>6. Len(P) = IF lim <= left THEN lim ELSE left
    BY <1>2, <1>5, <1>6, <1>7, <1>8, <1>9, <2>2
  <2> QED BY <1>6, <2>1, <2>4, <2>5, <2>6
<1>11. ASSUME NEW i \in DOMAIN P
       PROVE  /\ i \in Nat /\ i >= 1 /\ q.offset + i \in DOMAIN T
              /\ q.limit # NoLimit => i <= q.limit
              /\ P[i] = T[q.offset + i]
  <2>1. i \in 1..Len(P) /\ DOMAIN T = 1..Len(T) /\ Len(P) \in Nat
    BY <1>5, <1>9
  <2> QED BY <1>6, <1>9, <2>1 DEF off
<1>12. /\ Paged(q, rows, shed).rows = P /\ Paged(q, rows, shed).total = Cardinality(HadAt(q, rows)) + shed
       /\ Paged(q, rows, shed).refused = FALSE /\ Range(T) = {rows[i] : i \in HadAt(q, rows)}
       /\ Len(T) = Cardinality(HadAt(q, rows))
  BY <1>2, <1>4, <1>5 DEF at
<1>13. CutFrom(q, rows, Paged(q, rows, shed), T)
  BY <1>5, <1>10, <1>11, <1>12 DEF CutFrom
<1> QED BY <1>5, <1>9, <1>12, <1>13

-----------------------------------------------------------------------------
\* A page of some of the rows that has the rank each row has among them all.

(* No two rows of M are the same symbol.                                   *)
Alone(M) == \A a, b \in M : SameRow(a, b) => a = b

(* Of M only K is kept, and each row dropped comes after n of those kept.  *)
Covers(q, K, M, n) ==
  \A m \in M \ K : \E A \in SUBSET K : /\ IsFiniteSet(A) /\ Cardinality(A) >= n
                                       /\ \A a \in A : Before(q, a, m)

(* The place a row has among the rows M, and the page of all of M: as      *)
(* long as OFFSET and LIMIT allow, each row at its rank.                   *)
RankIn(q, M, r) == Cardinality({x \in M : Before(q, x, r)})

ExactPage(q, M, rows) ==
  /\ Len(rows) = PageLen(q, Cardinality(M))
  /\ \A i \in DOMAIN rows : rows[i] \in M /\ RankIn(q, M, rows[i]) = q.offset + i - 1

LEMMA PrefixCard ==
  ASSUME NEW X, NEW T \in Seq(X), Distinct(T), NEW p \in 0..Len(T)
  PROVE  IsFiniteSet({T[i] : i \in 1..p}) /\ Cardinality({T[i] : i \in 1..p}) = p
<1> DEFINE B == {T[i] : i \in 1..p}
<1> DEFINE f == [i \in 1..p |-> T[i]]
<1>1. p \in Nat /\ 1..p \subseteq DOMAIN T
  OBVIOUS
<1>2. f \in Bijection(1..p, B)
  <2>1. f \in [1..p -> B] /\ \A b \in B : \E i \in 1..p : f[i] = b
    OBVIOUS
  <2>2. \A i, j \in 1..p : f[i] = f[j] => i = j
    <3>1. \A i, j \in DOMAIN T : T[i] = T[j] => i = j
      BY DistinctFacts
    <3>2. \A i \in 1..p : f[i] = T[i]
      OBVIOUS
    <3> HIDE DEF f
    <3> QED BY <1>1, <3>1, <3>2
  <2> HIDE DEF f, B
  <2>3. f \in Injection(1..p, B)
    BY <2>1, <2>2 DEF Injection, IsInjective
  <2>4. f \in Surjection(1..p, B)
    BY <2>1 DEF Surjection
  <2> QED BY <2>3, <2>4 DEF Bijection
<1> HIDE DEF f, B
<1>3. IsFiniteSet(1..p) /\ Cardinality(1..p) = p
  BY <1>1, IntervalFacts
<1>4. IsFiniteSet(B) /\ Cardinality(B) = p
  BY <1>2, <1>3, FS_Bijection DEF ExistsBijection
<1> QED BY <1>4 DEF B

LEMMA PageRank ==
  ASSUME NEW q, IsOrder(q), NEW M, M \subseteq SortRow,
         NEW T \in Seq(M), Distinct(T), Sorted(q, T),
         NEW n \in Nat, Covers(q, Range(T), M, n), NEW p \in DOMAIN T, Range(T) = M \/ p <= n
  PROVE  RankIn(q, M, T[p]) = p - 1
<1> DEFINE B == {x \in M : Before(q, x, T[p])}
<1> DEFINE C == {T[i] : i \in 1..(p - 1)}
<1>1. DOMAIN T = 1..Len(T) /\ Len(T) \in Nat /\ \A i \in DOMAIN T : T[i] \in M /\ T[i] \in SortRow
  OBVIOUS
<1>2. p \in Nat /\ p - 1 \in 0..Len(T) /\ 1..(p - 1) \subseteq DOMAIN T
  BY <1>1
<1>3. IsFiniteSet(C) /\ Cardinality(C) = p - 1
  <2> HIDE DEF C
  <2>1. PICK k \in 0..Len(T) : k = p - 1
    BY <1>2
  <2>2. IsFiniteSet({T[i] : i \in 1..k}) /\ Cardinality({T[i] : i \in 1..k}) = k
    BY PrefixCard
  <2> QED BY <2>1, <2>2 DEF C
<1>4. ASSUME NEW x \in B, x \in Range(T) PROVE x \in C
  <2>1. PICK i \in DOMAIN T : x = T[i]
    BY <1>4 DEF Range
  <2>2. i < p
    BY <1>4, <2>1 DEF Sorted
  <2> QED BY <1>1, <2>1, <2>2
<1>5. ASSUME NEW x \in B, x \notin Range(T) PROVE FALSE
  <2>1. x \in M \ Range(T) /\ Range(T) # M
    BY <1>5
  <2>2. PICK A \in SUBSET Range(T) : /\ IsFiniteSet(A) /\ Cardinality(A) >= n
                                     /\ \A a \in A : Before(q, a, x)
    BY <2>1 DEF Covers
  <2>3. p <= n
    BY <2>1
  <2>4. ASSUME NEW a \in A PROVE a \in C
    <3>1. PICK i \in DOMAIN T : a = T[i]
      BY DEF Range
    <3>2. a \in SortRow /\ x \in SortRow /\ T[p] \in SortRow
      BY <1>1, <3>1
    <3>3. Before(q, a, T[p])
      BY <2>2, <3>2, BeforeFacts
    <3>4. i < p
      BY <3>1, <3>3 DEF Sorted
    <3> QED BY <1>1, <3>1, <3>4
  <2>5. Cardinality(A) <= Cardinality(C)
    BY <1>3, <2>4, FS_Subset
  <2>6. Cardinality(A) \in Nat
    BY <2>2, FS_CardinalityType
  <2> HIDE DEF C
  <2> QED BY <1>2, <1>3, <2>2, <2>3, <2>5, <2>6
<1>6. ASSUME NEW x \in C PROVE x \in B
  <2>1. PICK i \in 1..(p - 1) : x = T[i]
    OBVIOUS
  <2>2. i \in DOMAIN T /\ i < p
    BY <1>2, <2>1
  <2> QED BY <1>1, <2>1, <2>2 DEF Sorted
<1>7. B = C
  BY <1>4, <1>5, <1>6
<1> HIDE DEF C
<1> QED BY <1>3, <1>7 DEF RankIn

LEMMA CoversCard ==
  ASSUME NEW q, NEW K, NEW M, IsFiniteSet(M), K \subseteq M, NEW n \in Nat, Covers(q, K, M, n)
  PROVE  /\ IsFiniteSet(K) /\ Cardinality(K) \in Nat /\ Cardinality(M) \in Nat
         /\ Cardinality(K) <= Cardinality(M)
         /\ K = M \/ n <= Cardinality(K)
<1>1. IsFiniteSet(K) /\ Cardinality(K) <= Cardinality(M)
  BY FS_Subset
<1>2. Cardinality(K) \in Nat /\ Cardinality(M) \in Nat
  BY <1>1, FS_CardinalityType
<1>3. ASSUME K # M PROVE n <= Cardinality(K)
  <2>1. PICK m \in M \ K : TRUE
    BY <1>3
  <2>2. PICK A \in SUBSET K : IsFiniteSet(A) /\ Cardinality(A) >= n
    BY <2>1 DEF Covers
  <2>3. Cardinality(A) <= Cardinality(K) /\ Cardinality(A) \in Nat
    BY <1>1, <2>2, FS_Subset, FS_CardinalityType
  <2> QED BY <1>2, <2>2, <2>3
<1> QED BY <1>1, <1>2, <1>3

(* The page of the rows kept is the page of all.                           *)
LEMMA PagedExact ==
  ASSUME NEW q, IsClause(q), NEW M, M \subseteq Row, IsFiniteSet(M), NEW rows \in Seq(M), Distinct(rows),
         NEW n \in Nat, Covers(q, Range(rows), M, n),
         Range(rows) = M \/ (q.limit # NoLimit /\ n >= q.limit + q.offset /\ q.having = 0),
         NEW shed \in Nat, shed = Cardinality(M) - Len(rows)
  PROVE  LET page == Paged(q, rows, shed)
             all == IF q.having = 0 THEN M ELSE {}
         IN /\ ExactPage(q, all, page.rows)
            /\ q.having = 0 \/ shed = 0 => page.total = Cardinality(all)
            /\ page.refused = FALSE /\ page.rows \in Seq(Row)
<1> DEFINE page == Paged(q, rows, shed)
<1>0. M \subseteq SortRow
  BY DEF SortRow
<1>1. /\ rows \in Seq(Row) /\ Len(rows) \in Nat /\ DOMAIN rows = 1..Len(rows)
      /\ \A i \in DOMAIN rows : rows[i] \in Row
  OBVIOUS
<1>2. IsOrder(q) /\ q.having \in Nat /\ q.offset \in Nat /\ (q.limit # NoLimit => q.limit \in Nat)
  BY DEF IsClause
<1>3. /\ \E T \in Seq(M) : CutFrom(q, rows, page, T)
      /\ page.rows \in Seq(M)
      /\ page.total = Cardinality(HadAt(q, rows)) + shed
      /\ page.refused = FALSE
  BY <1>0, PagedFacts
<1> HIDE DEF page
<1>4. page.rows \in Seq(Row)
  BY <1>3
<1>5. CASE q.having = 0
  <2>1. HadAt(q, rows) = DOMAIN rows
    BY <1>5 DEF HadAt
  <2>2. Cardinality(HadAt(q, rows)) = Len(rows) /\ {rows[i] : i \in HadAt(q, rows)} = Range(rows)
    BY <1>1, <2>1, IntervalFacts DEF Range
  <2>3. PICK T \in Seq(M) :
              /\ Distinct(T) /\ Sorted(q, T) /\ Range(T) = Range(rows)
              /\ Len(T) = Len(rows)
              /\ Len(page.rows) = PageLen(q, Len(T))
              /\ \A i \in DOMAIN page.rows :
                   /\ i \in Nat /\ i >= 1 /\ q.offset + i \in DOMAIN T
                   /\ q.limit # NoLimit => i <= q.limit
                   /\ page.rows[i] = T[q.offset + i]
    BY <1>3, <2>2 DEF CutFrom
  <2>4. Cardinality(M) \in Nat /\ Cardinality(Range(rows)) = Len(rows) /\ Range(rows) \subseteq M
    <3>1. Cardinality(Range(rows)) = Len(rows)
      BY DistinctFacts
    <3>2. Range(rows) \subseteq M
      BY FirstRowsFacts
    <3> QED BY <3>1, <3>2, FS_CardinalityType
  <2>5. Len(rows) <= Cardinality(M) /\ (Range(rows) = M \/ n <= Len(rows))
    BY <2>4, CoversCard
  <2>6. PageLen(q, Len(T)) = PageLen(q, Cardinality(M))
    <3>1. CASE Range(rows) = M
      BY <2>3, <2>4, <3>1
    <3>2. CASE Range(rows) # M
      <4>1. q.limit \in Nat /\ q.limit # NoLimit /\ Len(T) >= q.limit + q.offset
              /\ Cardinality(M) >= q.limit + q.offset /\ Len(T) \in Nat
        BY <1>1, <1>2, <2>3, <2>4, <2>5, <3>2
      <4>2. ASSUME NEW k \in Nat, k >= q.limit + q.offset PROVE PageLen(q, k) = q.limit
        <5>1. PICK d \in Int : d = k - q.offset
          BY <1>2
        <5>2. PICK z \in Int : z = 0
          OBVIOUS
        <5>3. Max({z, d}) = IF z >= d THEN z ELSE d
          BY <5>1, <5>2, TwoNumbers
        <5>4. d >= q.limit
          BY <1>2, <4>1, <4>2, <5>1
        <5>5. Max({z, d}) >= q.limit /\ Max({z, d}) \in Nat
          BY <4>1, <5>1, <5>2, <5>3, <5>4
        <5>6. PICK l \in Nat : l = Max({z, d})
          BY <5>5
        <5>7. Min({q.limit, l}) = IF q.limit <= l THEN q.limit ELSE l
          <6>1. PICK k1 \in Nat : k1 = q.limit
            BY <4>1
          <6>2. Min({k1, l}) = IF k1 <= l THEN k1 ELSE l
            <7>1. k1 \in Int /\ l \in Int
              BY <5>6, <6>1
            <7> QED BY <7>1, TwoNumbers
          <6> QED BY <6>1, <6>2
        <5>8. PageLen(q, k) = Min({q.limit, l})
          BY <4>1, <5>1, <5>2, <5>6 DEF PageLen
        <5> QED BY <4>1, <5>5, <5>6, <5>7, <5>8
      <4> QED BY <2>4, <4>1, <4>2
    <3> QED BY <3>1, <3>2
  <2>7. ASSUME NEW i \in DOMAIN page.rows
        PROVE  page.rows[i] \in M /\ RankIn(q, M, page.rows[i]) = q.offset + i - 1
    <3>1. q.offset + i \in DOMAIN T /\ page.rows[i] = T[q.offset + i] /\ T[q.offset + i] \in M
      BY <2>3
    <3>2. Range(T) = M \/ q.offset + i <= n
      <4>1. i \in Nat /\ (q.limit # NoLimit => i <= q.limit)
        BY <2>3
      <4> QED BY <1>2, <2>3, <4>1
    <3>3. PICK p \in DOMAIN T : p = q.offset + i
      BY <3>1
    <3>4. Covers(q, Range(T), M, n) /\ Distinct(T) /\ Sorted(q, T)
      BY <2>3
    <3>5. (Range(T) = M \/ p <= n) /\ page.rows[i] = T[p] /\ T[p] \in M
      BY <3>1, <3>2, <3>3
    <3>6. RankIn(q, M, T[p]) = p - 1
      BY <1>0, <1>2, <3>4, <3>5, PageRank
    <3>7. p - 1 = q.offset + i - 1
      BY <1>2, <2>3, <3>3
    <3> QED BY <3>5, <3>6, <3>7
  <2>8. ExactPage(q, M, page.rows)
    BY <2>3, <2>6, <2>7 DEF ExactPage
  <2>9. page.total = Cardinality(M)
    BY <1>1, <1>3, <2>2, <2>4
  <2> QED BY <1>3, <1>4, <1>5, <2>8, <2>9 DEF page
<1>6. CASE q.having # 0
  <2>1. HadAt(q, rows) = {}
    <3>1. \A i \in DOMAIN rows : Field(rows[i], "count") = 0
      BY <1>1, FieldFacts DEF SortRow
    <3> QED BY <1>2, <1>6, <3>1 DEF HadAt
  <2>2. Cardinality(HadAt(q, rows)) = 0
    BY <2>1, FS_EmptySet
  <2>3. Len(page.rows) = PageLen(q, 0) /\ page.total = shed /\ DOMAIN page.rows = {}
    <3>1. PICK T \in Seq(M) :
              /\ Len(T) = 0 /\ Len(page.rows) = PageLen(q, Len(T))
              /\ \A i \in DOMAIN page.rows : q.offset + i \in DOMAIN T
      BY <1>3, <2>2 DEF CutFrom
    <3>2. DOMAIN T = {}
      BY <3>1
    <3> QED BY <1>3, <2>2, <3>1, <3>2
  <2>4. ExactPage(q, {}, page.rows)
    BY <2>3, FS_EmptySet DEF ExactPage
  <2>5. shed = 0 => page.total = Cardinality({})
    BY <2>3, FS_EmptySet
  <2> QED BY <1>3, <1>4, <1>6, <2>4, <2>5 DEF page
<1> QED BY <1>5, <1>6

-----------------------------------------------------------------------------
\* The rows of the overlay and of the dirty overlay, and those that match.

(* What a session's index is: the rows of a file are of its path.          *)
IndexOK ==
  /\ segments \in Seq([path : Nat, rows : Seq(Row)])
  /\ \A s \in DOMAIN segments : segments[s].rows \in Seq(RowOf(segments[s].path))
  /\ DOMAIN shadow \subseteq Nat /\ IsFiniteSet(DOMAIN shadow)
  /\ \A p \in DOMAIN shadow : shadow[p] \in Seq(RowOf(p))

(* Segments whose file the dirty overlay has taken over, and the rows of   *)
(* the others.                                                             *)
Masked(s) == segments[s].path \in DOMAIN shadow
LiveRows == [s \in DOMAIN segments |-> IF Masked(s) THEN <<>> ELSE RowsOf(s)]

(* The rows a query wants.                                                 *)
Good(q) == {r \in Row : PassesPath(q, r.path) /\ \A p \in q.where : Holds(r, p)}
(* Rows that are the same symbol are wanted alike.                         *)
Alike(q) == \A a, b \in Range(Live) : SameRow(a, b) /\ a \in Good(q) => b \in Good(q)

(* The first of each symbol in a segment and in a dirty file.              *)
OverlayFirsts == [s \in DOMAIN segments |-> FirstRows(LiveRows[s])]
DirtyFirsts == [d \in DOMAIN DirtyFiles |-> FirstRows(DirtyFiles[d])]

(* What each segment and each dirty file has of them.                      *)
Wanted(q) == [s \in DOMAIN segments |-> OverlayFirsts[s] \cap Good(q)]
DirtyWanted(q) == [d \in DOMAIN DirtyFiles |-> DirtyFirsts[d] \cap Good(q)]
(* The rows that match: of the overlay, of the dirty overlay, and both.    *)
OverlayMatching(q) == Layered(Wanted(q), Len(segments))
DirtyMatching(q) == Layered(DirtyWanted(q), Len(DirtyFiles))
MatchingOf(q) == OverlayMatching(q) \cup DirtyMatching(q)

LEMMA SegmentFacts ==
  ASSUME IndexOK
  PROVE  /\ Len(segments) \in Nat /\ DOMAIN segments = 1..Len(segments)
         /\ \A s \in DOMAIN segments :
              /\ segments[s].path \in Nat /\ RowsOf(s) \in Seq(Row)
              /\ \A i \in DOMAIN RowsOf(s) :
                   RowsOf(s)[i] \in Row /\ RowsOf(s)[i] \in RowOf(segments[s].path)
              /\ DOMAIN RowsOf(s) \subseteq Nat
<1>1. Len(segments) \in Nat /\ DOMAIN segments = 1..Len(segments)
  BY DEF IndexOK
<1>2. ASSUME NEW s \in DOMAIN segments
      PROVE  /\ segments[s].path \in Nat /\ RowsOf(s) \in Seq(Row)
             /\ \A i \in DOMAIN RowsOf(s) : RowsOf(s)[i] \in Row /\ RowsOf(s)[i] \in RowOf(segments[s].path)
             /\ DOMAIN RowsOf(s) \subseteq Nat
  <2>1. segments[s] \in [path : Nat, rows : Seq(Row)]
    <3>1. segments \in Seq([path : Nat, rows : Seq(Row)])
      BY DEF IndexOK
    <3>2. PICK X : X = [path : Nat, rows : Seq(Row)]
      OBVIOUS
    <3>3. segments[s] \in X
      BY <1>1, <3>1, <3>2, ElementOfSeq
    <3> QED BY <3>2, <3>3
  <2>2. segments[s].path \in Nat /\ segments[s].rows \in Seq(Row)
    BY <2>1
  <2>3. RowsOf(s) \in Seq(RowOf(segments[s].path)) /\ RowsOf(s) \in Seq(Row)
    BY <2>2 DEF IndexOK, RowsOf
  <2>4. \A i \in DOMAIN RowsOf(s) : RowsOf(s)[i] \in RowOf(segments[s].path)
    BY <2>3
  <2>5. \A i \in DOMAIN RowsOf(s) : RowsOf(s)[i] \in Row
    BY <2>3
  <2>6. DOMAIN RowsOf(s) \subseteq Nat
    BY <2>3
  <2> QED BY <2>2, <2>3, <2>4, <2>5, <2>6
<1> QED BY <1>1, <1>2

LEMMA DirtyFacts ==
  ASSUME IndexOK
  PROVE  /\ Len(DirtyFiles) \in Nat /\ DOMAIN DirtyFiles = 1..Len(DirtyFiles)
         /\ Len(DirtyFiles) = Cardinality(DOMAIN shadow)
         /\ DirtyFiles \in Seq(Seq(Row))
         /\ \A d \in DOMAIN DirtyFiles :
              \E p \in DOMAIN shadow : /\ DirtyFiles[d] = shadow[p] /\ p \in Nat
                                       /\ DirtyFiles[d] \in Seq(Row)
                                       /\ \A i \in DOMAIN DirtyFiles[d] :
                                            DirtyFiles[d][i] \in Row /\ DirtyFiles[d][i] \in RowOf(p)
<1> DEFINE D == DOMAIN shadow
<1> DEFINE g == InOrder(D)
<1> DEFINE c == Cardinality(D)
<1>1. D \subseteq Nat /\ IsFiniteSet(D)
  BY DEF IndexOK
<1>2. c \in Nat /\ g \in [1..c -> D]
  <2> HIDE DEF D
  <2> QED BY <1>1, InOrderFacts
<1>3. ASSUME NEW p \in D
      PROVE  shadow[p] \in Seq(Row) /\ \A i \in DOMAIN shadow[p] : shadow[p][i] \in Row /\ shadow[p][i] \in RowOf(p)
  <2>1. shadow[p] \in Seq(RowOf(p))
    BY DEF IndexOK
  <2>2. RowOf(p) \subseteq Row
    BY DEF RowOf
  <2>3. \A i \in DOMAIN shadow[p] : shadow[p][i] \in RowOf(p)
    BY <2>1
  <2>4. shadow[p] \in [1..Len(shadow[p]) -> RowOf(p)] /\ Len(shadow[p]) \in Nat
    BY <2>1
  <2>5. shadow[p] \in [1..Len(shadow[p]) -> Row]
    BY <2>2, <2>4
  <2>6. shadow[p] \in Seq(Row)
    BY <2>4, <2>5
  <2> QED BY <2>2, <2>3, <2>6
<1>4. DirtyFiles = [n \in 1..c |-> shadow[g[n]]]
  BY DEF DirtyFiles
<1> HIDE DEF D, c, g
<1>5. \A n \in 1..c : g[n] \in D /\ shadow[g[n]] \in Seq(Row)
  BY <1>2, <1>3
<1>6. DirtyFiles \in [1..c -> Seq(Row)]
  BY <1>4, <1>5
<1>7. DirtyFiles \in Seq(Seq(Row)) /\ Len(DirtyFiles) = c /\ DOMAIN DirtyFiles = 1..c
  BY <1>2, <1>6
<1>8. ASSUME NEW d \in DOMAIN DirtyFiles
      PROVE  \E p \in D : /\ DirtyFiles[d] = shadow[p] /\ p \in Nat
                          /\ DirtyFiles[d] \in Seq(Row)
                          /\ \A i \in DOMAIN DirtyFiles[d] :
                               DirtyFiles[d][i] \in Row /\ DirtyFiles[d][i] \in RowOf(p)
  <2>1. d \in 1..c /\ g[d] \in D /\ DirtyFiles[d] = shadow[g[d]]
    BY <1>4, <1>5, <1>7
  <2> QED BY <1>1, <1>3, <2>1
<1> QED BY <1>2, <1>7, <1>8 DEF c, D

LEMMA LiveFacts ==
  ASSUME IndexOK
  PROVE  /\ LiveRows \in Seq(Seq(Row)) /\ Len(LiveRows) = Len(segments) /\ Live \in Seq(Row)
         /\ Range(Live) = (UNION {Range(LiveRows[s]) : s \in DOMAIN segments})
                            \cup (UNION {Range(DirtyFiles[d]) : d \in DOMAIN DirtyFiles})
         /\ \A s \in DOMAIN segments : \A r \in Range(LiveRows[s]) :
              r \in Row /\ r.path = segments[s].path /\ r.path \notin DOMAIN shadow /\ r \in Range(Live)
         /\ \A d \in DOMAIN DirtyFiles : \A r \in Range(DirtyFiles[d]) :
              r \in Row /\ r.path \in DOMAIN shadow /\ r \in Range(Live)
         /\ FirstRows(Live) = Layered(OverlayFirsts, Len(segments)) \cup Layered(DirtyFirsts, Len(DirtyFiles))
<1>1. /\ Len(segments) \in Nat /\ DOMAIN segments = 1..Len(segments)
      /\ \A s \in DOMAIN segments : /\ segments[s].path \in Nat /\ RowsOf(s) \in Seq(Row)
                                    /\ \A i \in DOMAIN RowsOf(s) : RowsOf(s)[i] \in RowOf(segments[s].path)
  BY SegmentFacts
<1>2. \A s \in DOMAIN segments : LiveRows[s] = IF Masked(s) THEN <<>> ELSE RowsOf(s)
  BY DEF LiveRows
<1>3. \A s \in DOMAIN segments : LiveRows[s] \in Seq(Row)
  BY <1>1, <1>2, EmptySeq
<1>4. LiveRows \in [1..Len(segments) -> Seq(Row)]
  BY <1>1, <1>3 DEF LiveRows
<1>5. LiveRows \in Seq(Seq(Row)) /\ Len(LiveRows) = Len(segments)
  BY <1>1, <1>4
<1>6. /\ DirtyFiles \in Seq(Seq(Row)) /\ DOMAIN DirtyFiles = 1..Len(DirtyFiles)
  BY DirtyFacts
<1>7. Live = FlattenSeq(LiveRows) \o FlattenSeq(DirtyFiles)
  BY DEF Live, LiveRows, Masked
<1>8. /\ FlattenSeq(LiveRows) \in Seq(Row)
      /\ Range(FlattenSeq(LiveRows)) = UNION {Range(LiveRows[s]) : s \in 1..Len(LiveRows)}
      /\ FirstRows(FlattenSeq(LiveRows)) = Layered(OverlayFirsts, Len(LiveRows))
  <2>1. \A i \in 1..Len(LiveRows) : OverlayFirsts[i] = FirstRows(LiveRows[i])
    BY <1>1, <1>5 DEF OverlayFirsts
  <2> QED BY <1>5, <2>1, FlattenFacts
<1>9. /\ FlattenSeq(DirtyFiles) \in Seq(Row)
      /\ Range(FlattenSeq(DirtyFiles)) = UNION {Range(DirtyFiles[d]) : d \in 1..Len(DirtyFiles)}
      /\ FirstRows(FlattenSeq(DirtyFiles)) = Layered(DirtyFirsts, Len(DirtyFiles))
  <2>1. \A i \in 1..Len(DirtyFiles) : DirtyFirsts[i] = FirstRows(DirtyFiles[i])
    BY <1>6 DEF DirtyFirsts
  <2> QED BY <1>6, <2>1, FlattenFacts
<1>10. Live \in Seq(Row) /\ Range(Live) = Range(FlattenSeq(LiveRows)) \cup Range(FlattenSeq(DirtyFiles))
  BY <1>7, <1>8, <1>9, ConcatFacts
<1>11. FirstRows(Live) = FirstRows(FlattenSeq(LiveRows))
          \cup {r \in FirstRows(FlattenSeq(DirtyFiles)) : \A x \in FirstRows(FlattenSeq(LiveRows)) : ~SameRow(x, r)}
  BY <1>7, <1>8, <1>9, ConcatFirsts
<1>12. ASSUME NEW s \in DOMAIN segments, NEW r \in Range(LiveRows[s])
       PROVE  r \in Row /\ r.path = segments[s].path /\ r.path \notin DOMAIN shadow
  <2>1. PICK i \in DOMAIN LiveRows[s] : r = LiveRows[s][i]
    BY DEF Range
  <2>2. ~Masked(s)
    <3>1. CASE Masked(s)
      <4>1. DOMAIN LiveRows[s] = {}
        BY <1>2, <3>1, EmptySeq
      <4> QED BY <2>1, <4>1
    <3> QED BY <3>1
  <2>3. r = RowsOf(s)[i] /\ i \in DOMAIN RowsOf(s)
    BY <1>2, <2>1, <2>2
  <2>4. r \in RowOf(segments[s].path)
    BY <1>1, <2>3
  <2> QED BY <2>2, <2>4 DEF RowOf, Masked
<1>13. ASSUME NEW d \in DOMAIN DirtyFiles, NEW r \in Range(DirtyFiles[d])
       PROVE  r \in Row /\ r.path \in DOMAIN shadow
  <2>1. PICK i \in DOMAIN DirtyFiles[d] : r = DirtyFiles[d][i]
    BY DEF Range
  <2>2. PICK p \in DOMAIN shadow : DirtyFiles[d][i] \in RowOf(p)
    BY DirtyFacts
  <2> QED BY <2>1, <2>2 DEF RowOf
<1>14. Range(Live) = (UNION {Range(LiveRows[s]) : s \in DOMAIN segments})
                       \cup (UNION {Range(DirtyFiles[d]) : d \in DOMAIN DirtyFiles})
  <2>1. 1..Len(LiveRows) = DOMAIN segments /\ 1..Len(DirtyFiles) = DOMAIN DirtyFiles
    BY <1>1, <1>5, <1>6
  <2>2. /\ Range(FlattenSeq(LiveRows)) = (UNION {Range(LiveRows[s]) : s \in DOMAIN segments})
        /\ Range(FlattenSeq(DirtyFiles)) = UNION {Range(DirtyFiles[d]) : d \in DOMAIN DirtyFiles}
    BY <1>8, <1>9, <2>1
  <2> QED BY <1>10, <2>2, SMT
<1>15. \A r \in FirstRows(FlattenSeq(DirtyFiles)) : \A x \in FirstRows(FlattenSeq(LiveRows)) : ~SameRow(x, r)
  <2> SUFFICES ASSUME NEW r \in FirstRows(FlattenSeq(DirtyFiles)), NEW x \in FirstRows(FlattenSeq(LiveRows))
               PROVE  ~SameRow(x, r)
    OBVIOUS
  <2>1. r \in Range(FlattenSeq(DirtyFiles)) /\ x \in Range(FlattenSeq(LiveRows))
    BY <1>8, <1>9, FirstRowsFacts
  <2>2. PICK d \in DOMAIN DirtyFiles : r \in Range(DirtyFiles[d])
    BY <1>6, <1>9, <2>1
  <2>3. PICK s \in DOMAIN segments : x \in Range(LiveRows[s])
    BY <1>1, <1>5, <1>8, <2>1
  <2>4. r.path \in DOMAIN shadow /\ x.path \notin DOMAIN shadow
    BY <1>12, <1>13, <2>2, <2>3
  <2> QED BY <2>4, SameRowIs
<1>16. FirstRows(Live) = Layered(OverlayFirsts, Len(segments)) \cup Layered(DirtyFirsts, Len(DirtyFiles))
  BY <1>5, <1>8, <1>9, <1>11, <1>15
<1>17. ASSUME NEW s \in DOMAIN segments, NEW r \in Range(LiveRows[s]) PROVE r \in Range(Live)
  BY <1>14, Zenon
<1>18. ASSUME NEW d \in DOMAIN DirtyFiles, NEW r \in Range(DirtyFiles[d]) PROVE r \in Range(Live)
  <2>1. r \in UNION {Range(DirtyFiles[e]) : e \in DOMAIN DirtyFiles}
    OBVIOUS
  <2> QED BY <1>14, <2>1
<1> QED BY <1>5, <1>10, <1>12, <1>13, <1>14, <1>16, <1>17, <1>18

LEMMA RangeFinite ==
  ASSUME NEW X, NEW rows \in Seq(X)
  PROVE  IsFiniteSet(Range(rows)) /\ IsFiniteSet(DOMAIN rows)
<1>1. DOMAIN rows = 1..Len(rows) /\ Len(rows) \in Nat /\ rows \in [1..Len(rows) -> X]
  OBVIOUS
<1>2. rows \in Surjection(1..Len(rows), Range(rows))
  <2>1. rows \in [1..Len(rows) -> Range(rows)]
    BY <1>1 DEF Range
  <2>2. \A t \in Range(rows) : \E s \in 1..Len(rows) : rows[s] = t
    BY <1>1 DEF Range
  <2> QED BY <2>1, <2>2 DEF Surjection
<1>3. IsFiniteSet(1..Len(rows))
  BY <1>1, IntervalFacts
<1> QED BY <1>1, <1>2, <1>3, FS_Surjection

LEMMA PassingFacts ==
  ASSUME NEW q, NEW X, X \subseteq Row, NEW rows \in Seq(X)
  PROVE  /\ Passing(q, rows) = RowsAt(rows, {i \in DOMAIN rows : rows[i] \in Good(q)})
         /\ Passing(q, rows) \in Seq(X) /\ Range(Passing(q, rows)) = Range(rows) \cap Good(q)
         /\ Distinct(rows) => Distinct(Passing(q, rows))
<1> DEFINE at == {i \in DOMAIN rows : rows[i] \in Good(q)}
<1>1. \A i \in DOMAIN rows : rows[i] \in Row
  OBVIOUS
<1>2. at = {i \in DOMAIN rows : PassesPath(q, rows[i].path) /\ \A p \in q.where : Holds(rows[i], p)}
  BY <1>1 DEF Good
<1>3. Passing(q, rows) = RowsAt(rows, at)
  BY <1>2 DEF Passing
<1>4. {rows[i] : i \in at} = Range(rows) \cap Good(q)
  BY DEF Range
<1>5. at \subseteq DOMAIN rows
  OBVIOUS
<1>6. Distinct(rows) => \A i, j \in at : i # j => ~SameRow(rows[i], rows[j])
  BY DEF Distinct
<1> HIDE DEF at
<1> QED BY <1>3, <1>4, <1>5, <1>6, RowsAtFacts, RowsAtDistinct DEF at

(* Rows that are the same pass the same predicates, but for those on val.  *)
LEMMA HoldsAlike ==
  ASSUME NEW a \in Row, NEW b \in Row, SameRow(a, b), NEW p \in Predicate,
         p.field = "val" => a.val = b.val, Holds(a, p)
  PROVE  Holds(b, p)
<1>1. p.field \in Fields
  BY DEF Predicate
<1>2. a.name = b.name /\ a.kind = b.kind /\ a.path = b.path /\ a.line = b.line
  BY SameRowIs
<1>3. Field(a, p.field) = Field(b, p.field)
  <2>1. CASE p.field = "val"
    BY <1>2, <2>1 DEF Field, ResolvedValue
  <2>2. CASE p.field = "count"
    BY <2>2, FieldFacts DEF SortRow
  <2>3. CASE p.field \in {"name", "kind", "path", "line"}
    BY <1>2, <2>3 DEF Field
  <2> QED BY <1>1, <2>1, <2>2, <2>3 DEF Fields
<1> QED BY <1>3 DEF Holds

LEMMA AlikeUnlessTwins ==
  ASSUME IndexOK, NEW q \in Queries,
         \A p \in q.where : p.field = "val" =>
           \A i, j \in DOMAIN Live : SameRow(Live[i], Live[j]) => Live[i].val = Live[j].val
  PROVE  Alike(q)
<1> SUFFICES ASSUME NEW a \in Range(Live), NEW b \in Range(Live), SameRow(a, b), a \in Good(q)
             PROVE  b \in Good(q)
  BY DEF Alike
<1>1. q.where \subseteq Predicate
  BY FindAssumption
<1>2. Live \in Seq(Row)
  BY LiveFacts
<1>3. a \in Row /\ b \in Row
  BY <1>2, FirstRowsFacts
<1>4. PICK i, j \in DOMAIN Live : a = Live[i] /\ b = Live[j]
  BY DEF Range
<1>5. ASSUME NEW p \in q.where PROVE Holds(b, p)
  <2>1. p.field = "val" => a.val = b.val
    BY <1>4
  <2>2. Holds(a, p) /\ p \in Predicate
    BY <1>1 DEF Good
  <2> QED BY <1>3, <2>1, <2>2, HoldsAlike
<1>6. PassesPath(q, b.path)
  BY SameRowIs DEF Good
<1> QED BY <1>3, <1>5, <1>6 DEF Good

LEMMA WantedFacts ==
  ASSUME IndexOK, NEW q
  PROVE  /\ \A s \in DOMAIN segments :
              /\ OverlayFirsts[s] = FirstRows(LiveRows[s]) /\ OverlayFirsts[s] \subseteq Range(LiveRows[s])
              /\ OverlayFirsts[s] \subseteq Range(Live)
              /\ Wanted(q)[s] = OverlayFirsts[s] \cap Good(q)
              /\ \A a, b \in Wanted(q)[s] : SameRow(a, b) => a = b
              /\ \A r \in Wanted(q)[s] : r \in Row /\ r.path = segments[s].path /\ r.path \notin DOMAIN shadow
         /\ \A d \in DOMAIN DirtyFiles :
              /\ DirtyFirsts[d] = FirstRows(DirtyFiles[d]) /\ DirtyFirsts[d] \subseteq Range(DirtyFiles[d])
              /\ DirtyFirsts[d] \subseteq Range(Live)
              /\ DirtyWanted(q)[d] = DirtyFirsts[d] \cap Good(q)
              /\ \A r \in DirtyWanted(q)[d] : r \in Row /\ r.path \in DOMAIN shadow
<1>1. LiveRows \in Seq(Seq(Row)) /\ DirtyFiles \in Seq(Seq(Row)) /\ Len(LiveRows) = Len(segments)
        /\ DOMAIN segments = 1..Len(segments) /\ DOMAIN DirtyFiles = 1..Len(DirtyFiles)
  BY LiveFacts, DirtyFacts, SegmentFacts
<1>2. ASSUME NEW s \in DOMAIN segments
      PROVE  /\ OverlayFirsts[s] = FirstRows(LiveRows[s]) /\ OverlayFirsts[s] \subseteq Range(LiveRows[s])
             /\ OverlayFirsts[s] \subseteq Range(Live)
             /\ Wanted(q)[s] = OverlayFirsts[s] \cap Good(q)
             /\ \A a, b \in Wanted(q)[s] : SameRow(a, b) => a = b
             /\ \A r \in Wanted(q)[s] : r \in Row /\ r.path = segments[s].path /\ r.path \notin DOMAIN shadow
  <2>1. OverlayFirsts[s] = FirstRows(LiveRows[s])
    BY DEF OverlayFirsts
  <2>2. LiveRows[s] \in Seq(Row)
    BY <1>1, ElementOfSeq
  <2>3. FirstRows(LiveRows[s]) \subseteq Range(LiveRows[s]) /\ \A a, b \in FirstRows(LiveRows[s]) : SameRow(a, b) => a = b
    BY <2>2, FirstRowsFacts
  <2>4. Wanted(q)[s] = OverlayFirsts[s] \cap Good(q)
    BY DEF Wanted
  <2>5. \A r \in Range(LiveRows[s]) : r \in Row /\ r.path = segments[s].path /\ r.path \notin DOMAIN shadow
                                        /\ r \in Range(Live)
    BY LiveFacts
  <2> QED BY <2>1, <2>3, <2>4, <2>5
<1>3. ASSUME NEW d \in DOMAIN DirtyFiles
      PROVE  /\ DirtyFirsts[d] = FirstRows(DirtyFiles[d]) /\ DirtyFirsts[d] \subseteq Range(DirtyFiles[d])
             /\ DirtyFirsts[d] \subseteq Range(Live)
             /\ DirtyWanted(q)[d] = DirtyFirsts[d] \cap Good(q)
             /\ \A r \in DirtyWanted(q)[d] : r \in Row /\ r.path \in DOMAIN shadow
  <2>1. DirtyFirsts[d] = FirstRows(DirtyFiles[d])
    BY DEF DirtyFirsts
  <2>2. DirtyFiles[d] \in Seq(Row)
    BY <1>1, ElementOfSeq
  <2>3. FirstRows(DirtyFiles[d]) \subseteq Range(DirtyFiles[d])
    BY <2>2, FirstRowsFacts
  <2>4. DirtyWanted(q)[d] = DirtyFirsts[d] \cap Good(q)
    BY DEF DirtyWanted
  <2>5. \A r \in Range(DirtyFiles[d]) : r \in Row /\ r.path \in DOMAIN shadow /\ r \in Range(Live)
    BY LiveFacts
  <2> QED BY <2>1, <2>3, <2>4, <2>5
<1> QED BY <1>2, <1>3

LEMMA MatchingIs ==
  ASSUME IndexOK, NEW q, Alike(q)
  PROVE  /\ FirstRows(Passing(q, Live)) = MatchingOf(q)
         /\ MatchingOf(q) \subseteq Row /\ MatchingOf(q) \subseteq Good(q) /\ IsFiniteSet(MatchingOf(q))
         /\ Alone(MatchingOf(q))
         /\ Layered(OverlayFirsts, Len(segments)) \cap Good(q) = OverlayMatching(q)
         /\ Layered(DirtyFirsts, Len(DirtyFiles)) \cap Good(q) = DirtyMatching(q)
<1> DEFINE G == Good(q)
<1> DEFINE P == Passing(q, Live)
<1> DEFINE at == {i \in DOMAIN Live : Live[i] \in Good(q)}
<1>1. Live \in Seq(Row) /\ Len(segments) \in Nat /\ Len(DirtyFiles) \in Nat
        /\ DOMAIN segments = 1..Len(segments) /\ DOMAIN DirtyFiles = 1..Len(DirtyFiles)
  BY LiveFacts, SegmentFacts, DirtyFacts
<1>2. P = RowsAt(Live, at) /\ P \in Seq(Row) /\ Range(P) = Range(Live) \cap Good(q)
  BY <1>1, PassingFacts
<1>3. FirstRows(RowsAt(Live, at)) \cap G = FirstRows(Live) \cap G
  <2>1. at \subseteq DOMAIN Live /\ \A i \in Firsts(Live) : Live[i] \in G => i \in at
    BY DEF Firsts
  <2>2. \A i, j \in DOMAIN Live : SameRow(Live[i], Live[j]) /\ Live[i] \in G => Live[j] \in G
    BY DEF Alike, Range
  <2> HIDE DEF at, G
  <2> QED BY <1>1, <2>1, <2>2, RowsAtGood
<1>4. FirstRows(P) \subseteq G /\ FirstRows(P) \subseteq Row /\ IsFiniteSet(FirstRows(P))
        /\ \A a, b \in FirstRows(P) : SameRow(a, b) => a = b
  <2>1. FirstRows(P) \subseteq Range(P) /\ Range(P) \subseteq Row /\ \A a, b \in FirstRows(P) : SameRow(a, b) => a = b
    BY <1>2, FirstRowsFacts
  <2>2. IsFiniteSet(Range(P))
    BY <1>2, RangeFinite
  <2> HIDE DEF P
  <2> QED BY <1>2, <2>1, <2>2, FS_Subset
<1>5. FirstRows(P) = FirstRows(Live) \cap G
  BY <1>2, <1>3, <1>4
<1>6. Layered(OverlayFirsts, Len(segments)) \cap G = OverlayMatching(q)
  <2>0. \A i \in 1..Len(segments) : /\ Wanted(q)[i] = OverlayFirsts[i] \cap G
                                    /\ OverlayFirsts[i] \subseteq Range(Live)
    BY <1>1, WantedFacts
  <2> HIDE DEF G
  <2>1. \A i \in 1..Len(segments) : OverlayFirsts[i] \cap G = Wanted(q)[i] \cap G
    BY <2>0
  <2>2. \A i \in 1..Len(segments) : OverlayFirsts[i] \subseteq Range(Live) /\ Wanted(q)[i] \subseteq Range(Live)
    BY <2>0
  <2>5. Respects(Range(Live), G)
    BY SameRowFacts DEF Alike, G, Respects
  <2>3. Layered(OverlayFirsts, Len(segments)) \cap G = Layered(Wanted(q), Len(segments)) \cap G
    BY <1>1, <2>1, <2>2, <2>5, LayeredGood
  <2>4. Layered(Wanted(q), Len(segments)) \subseteq G
    BY <2>0 DEF Layered
  <2> QED BY <2>3, <2>4 DEF OverlayMatching
<1>7. Layered(DirtyFirsts, Len(DirtyFiles)) \cap G = DirtyMatching(q)
  <2>0. \A i \in 1..Len(DirtyFiles) : /\ DirtyWanted(q)[i] = DirtyFirsts[i] \cap G
                                      /\ DirtyFirsts[i] \subseteq Range(Live)
    BY <1>1, WantedFacts
  <2> HIDE DEF G
  <2>1. \A i \in 1..Len(DirtyFiles) : DirtyFirsts[i] \cap G = DirtyWanted(q)[i] \cap G
    BY <2>0
  <2>2. \A i \in 1..Len(DirtyFiles) : DirtyFirsts[i] \subseteq Range(Live) /\ DirtyWanted(q)[i] \subseteq Range(Live)
    BY <2>0
  <2>5. Respects(Range(Live), G)
    BY SameRowFacts DEF Alike, G, Respects
  <2>3. Layered(DirtyFirsts, Len(DirtyFiles)) \cap G = Layered(DirtyWanted(q), Len(DirtyFiles)) \cap G
    BY <1>1, <2>1, <2>2, <2>5, LayeredGood
  <2>4. Layered(DirtyWanted(q), Len(DirtyFiles)) \subseteq G
    BY <2>0 DEF Layered
  <2> QED BY <2>3, <2>4 DEF DirtyMatching
<1>8. FirstRows(P) = MatchingOf(q)
  <2>1. FirstRows(Live) = Layered(OverlayFirsts, Len(segments)) \cup Layered(DirtyFirsts, Len(DirtyFiles))
    BY LiveFacts
  <2> HIDE DEF P, G
  <2> QED BY <1>5, <1>6, <1>7, <2>1 DEF MatchingOf
<1> HIDE DEF P
<1> QED BY <1>4, <1>6, <1>7, <1>8 DEF P, Alone

-----------------------------------------------------------------------------
\* The candidates miss no row that matches.

LEMMA RowIdFacts ==
  ASSUME IndexOK
  PROVE  /\ \A s \in DOMAIN segments : \A i \in DOMAIN RowsOf(s) :
              <<s, i>> \in RowIds /\ At(<<s, i>>) = RowsOf(s)[i]
         /\ \A id \in RowIds : /\ id[1] \in DOMAIN segments /\ id[2] \in DOMAIN RowsOf(id[1])
                               /\ id = <<id[1], id[2]>> /\ At(id) = RowsOf(id[1])[id[2]]
                               /\ At(id) \in Row /\ At(id) \in RowOf(segments[id[1]].path)
<1>1. \A s \in DOMAIN segments : \A i \in DOMAIN RowsOf(s) :
        <<s, i>> \in RowIds /\ At(<<s, i>>) = RowsOf(s)[i]
  <2> SUFFICES ASSUME NEW s \in DOMAIN segments, NEW i \in DOMAIN RowsOf(s)
               PROVE  <<s, i>> \in RowIds /\ At(<<s, i>>) = RowsOf(s)[i]
    OBVIOUS
  <2>1. <<s, i>> \in {s} \X DOMAIN segments[s].rows
    BY DEF RowsOf
  <2> QED BY <2>1 DEF RowIds, At, RowsOf
<1>2. ASSUME NEW id \in RowIds
      PROVE  /\ id[1] \in DOMAIN segments /\ id[2] \in DOMAIN RowsOf(id[1])
             /\ id = <<id[1], id[2]>> /\ At(id) = RowsOf(id[1])[id[2]]
             /\ At(id) \in Row /\ At(id) \in RowOf(segments[id[1]].path)
  <2>1. PICK s \in DOMAIN segments : id \in {s} \X DOMAIN segments[s].rows
    BY DEF RowIds
  <2>2. id[1] = s /\ id[2] \in DOMAIN RowsOf(s) /\ id = <<id[1], id[2]>>
    BY <2>1 DEF RowsOf
  <2>3. At(id) = RowsOf(id[1])[id[2]]
    BY DEF At, RowsOf
  <2> QED BY <2>1, <2>2, <2>3, SegmentFacts
<1> QED BY <1>1, <1>2

LEMMA ValueHolds ==
  ASSUME NEW path, NEW r \in RowOf(path), NEW p \in Predicate, p.field = "val",
         p.op \in {"eq", "matches"}, Holds(r, p)
  PROVE  /\ p.value # Default => r.val = p.value /\ r.val # 0
         /\ p.value = Default => r.kind \in Applicable
<1>1. ResolvedValue(r) = p.value /\ p.value # 0
  BY DEF Holds, Field
<1>2. r.val = Default => r.val = 0
  BY DEF RowOf
<1> QED BY <1>1, <1>2 DEF ResolvedValue

LEMMA ProposedComplete ==
  ASSUME IndexOK, NEW p \in Predicate, NEW id \in Canonical, Holds(At(id), p)
  PROVE  id \in Proposed(p)
<1> DEFINE s == id[1]
<1> DEFINE r == At(id)
<1>1. id \in RowIds
  BY DEF Canonical
<1>2. s \in DOMAIN segments /\ id[2] \in DOMAIN RowsOf(s) /\ r = RowsOf(s)[id[2]]
        /\ r \in Row /\ r \in RowOf(segments[s].path)
  BY <1>1, RowIdFacts
<1> HIDE DEF s, r
<1>3. r.val # 0 => r.val \in Values(RowsOf(s))
  BY <1>2 DEF Values
<1>4. r.val # 0 => \/ id \in MissingRows
                   \/ Posts(RowsOf(s)) /\ id \in ValueRows(r.val) /\ r.val \in PostedValues
  <2> SUFFICES ASSUME r.val # 0, ~PostsPartially(RowsOf(s))
               PROVE  Posts(RowsOf(s)) /\ id \in ValueRows(r.val) /\ r.val \in PostedValues
    BY <1>1 DEF MissingRows, s
  <2>1. Posts(RowsOf(s))
    BY <1>3 DEF PostsPartially
  <2>2. id \in ValueRows(r.val)
    BY <2>1 DEF ValueRows, r, s
  <2>3. r.val \in PostedValues
    BY <1>2, <1>3, <2>1 DEF PostedValues
  <2> QED BY <2>1, <2>2, <2>3
<1>5. CASE p.field = "name" /\ p.op = "eq"
  <2>1. r.name = p.value
    BY <1>5 DEF Holds, Field, r
  <2>2. id \in NameRows(p.value)
    BY <2>1 DEF NameRows, r
  <2> QED BY <1>5, <2>2 DEF Proposed
<1>6. CASE p.field = "kind" /\ p.op = "eq"
  <2>1. r.kind = p.value
    BY <1>6 DEF Holds, Field, r
  <2>2. id \in KindRows(p.value)
    BY <2>1 DEF KindRows, r
  <2> QED BY <1>6, <2>2 DEF Proposed
<1>7. CASE p.field = "val" /\ p.op = "eq" /\ p.value = Default
  <2>1. r.kind \in Applicable
    BY <1>2, <1>7, ValueHolds DEF r
  <2>2. id \in KindRows(r.kind)
    BY DEF KindRows, r
  <2>3. id \in DefaultRows
    BY <1>1, <2>1, <2>2 DEF DefaultRows
  <2> QED BY <1>7, <2>3 DEF Proposed
<1>8. CASE p.field = "val" /\ p.op = "eq" /\ p.value # Default
  <2>1. r.val = p.value /\ r.val # 0
    BY <1>2, <1>8, ValueHolds DEF r
  <2>2. Proposed(p) = IF p.value \in Keyed THEN ValueRows(p.value) \cup MissingRows
                      ELSE IF /\ \E t \in DOMAIN segments : Values(RowsOf(t)) # {}
                              /\ \A t \in DOMAIN segments : ProvesAbsent(RowsOf(t), p.value) THEN {}
                      ELSE RowIds
    BY <1>8 DEF Proposed
  <2>3. ~ProvesAbsent(RowsOf(s), p.value)
    BY <1>3, <2>1 DEF ProvesAbsent
  <2> QED BY <1>1, <1>2, <1>4, <2>1, <2>2, <2>3
<1>9. CASE p.field = "val" /\ p.op = "matches" /\ p.value # Default /\ Keyed # {}
  <2>1. r.val = p.value /\ r.val # 0
    BY <1>2, <1>9, ValueHolds DEF r
  <2>2. Proposed(p) = MissingRows \cup IF p.value \in Keyed THEN ValueRows(p.value) ELSE {}
    BY <1>9 DEF Proposed
  <2>3. r.val \in PostedValues /\ id \in ValueRows(r.val) => r.val \in Keyed
    BY <1>9 DEF Keyed
  <2> QED BY <1>4, <2>1, <2>2, <2>3
<1>10. CASE /\ ~(p.field = "name" /\ p.op = "eq") /\ ~(p.field = "kind" /\ p.op = "eq")
            /\ ~(p.field = "val" /\ p.op = "eq" /\ p.value = Default)
            /\ ~(p.field = "val" /\ p.op = "eq" /\ p.value # Default)
            /\ ~(p.field = "val" /\ p.op = "matches" /\ p.value # Default /\ Keyed # {})
  <2>1. Proposed(p) = RowIds
    BY <1>10 DEF Proposed
  <2> QED BY <1>1, <2>1
<1> QED BY <1>5, <1>6, <1>7, <1>8, <1>9, <1>10

(* Of the numbers of a sequence one is the greatest.                       *)
LEMMA GreatestOf ==
  ASSUME NEW n \in Nat, NEW f, \A i \in 1..n : f[i] \in Nat, n # 0
  PROVE  \E i \in 1..n : \A j \in 1..n : f[j] <= f[i]
<1> DEFINE S == {0} \cup {m \in 1..n : \E i \in 1..m : \A j \in 1..m : f[j] <= f[i]}
<1>1. ASSUME NEW m \in 0..(n - 1), m \in S PROVE m + 1 \in S
  <2>1. CASE m = 0
    <3>1. m + 1 = 1 /\ 1 \in 1..n /\ 1..1 = {1} /\ f[1] \in Nat
      BY <2>1
    <3> QED BY <3>1
  <2>2. CASE m # 0
    <3>1. PICK i \in 1..m : \A j \in 1..m : f[j] <= f[i]
      BY <1>1, <2>2
    <3>2. m + 1 \in 1..n /\ 1..(m + 1) = (1..m) \cup {m + 1} /\ i \in 1..(m + 1)
      OBVIOUS
    <3>3. f[i] \in Nat /\ f[m + 1] \in Nat /\ \A j \in 1..m : f[j] \in Nat
      BY <3>2
    <3>4. CASE f[m + 1] <= f[i]
      <4>1. \A j \in 1..(m + 1) : f[j] <= f[i]
        BY <3>1, <3>2, <3>4
      <4> QED BY <3>2, <4>1
    <3>5. CASE f[i] <= f[m + 1]
      <4>1. \A j \in 1..(m + 1) : f[j] <= f[m + 1]
        BY <3>1, <3>2, <3>3, <3>5
      <4> QED BY <3>2, <4>1
    <3> QED BY <3>3, <3>4, <3>5
  <2> QED BY <2>1, <2>2
<1>2. \A m \in 0..n : m \in S
  <2> HIDE DEF S
  <2>1. 0 \in S
    BY DEF S
  <2> QED BY <1>1, <2>1, UpTo
<1> QED BY <1>2

LEMMA ZoneComplete ==
  ASSUME NEW rows \in Seq(Row), NEW i \in DOMAIN rows, NEW p \in Predicate, Holds(rows[i], p)
  PROVE  ZonePasses(rows, p)
<1> DEFINE lines == {rows[j].line : j \in DOMAIN rows}
<1>1. DOMAIN rows = 1..Len(rows) /\ Len(rows) \in Nat /\ \A j \in DOMAIN rows : rows[j].line \in Nat
  BY SMTT(40) DEF Row
<1>2. rows[i].line \in lines /\ lines \subseteq Nat /\ p.value \in Nat
  BY <1>1 DEF Predicate
<1>3. ASSUME p.field = "line", p.op = "gt" PROVE Max(lines) > p.value
  <2> DEFINE f == [j \in 1..Len(rows) |-> rows[j].line]
  <2>1. \A j \in 1..Len(rows) : f[j] = rows[j].line /\ f[j] \in Nat
    BY <1>1
  <2> HIDE DEF f
  <2>2. PICK k \in 1..Len(rows) : \A j \in 1..Len(rows) : f[j] <= f[k]
    <3>0. Len(rows) \in Nat /\ Len(rows) # 0
      BY <1>1
    <3>1. PICK n \in Nat : n = Len(rows) /\ n # 0
      BY <3>0
    <3>2. \A j \in 1..n : f[j] \in Nat
      BY <2>1, <3>1
    <3>3. \E k \in 1..n : \A j \in 1..n : f[j] <= f[k]
      BY <3>1, <3>2, GreatestOf
    <3> QED BY <3>1, <3>3
  <2>3. \E x \in lines : \A y \in lines : x >= y
    <3>1. rows[k].line \in lines
      BY <1>1
    <3>2. ASSUME NEW y \in lines PROVE rows[k].line >= y
      <4>1. PICK j \in 1..Len(rows) : y = rows[j].line
        BY <1>1
      <4>2. f[j] <= f[k] /\ f[j] = y /\ f[k] = rows[k].line /\ f[j] \in Nat /\ f[k] \in Nat
        BY <2>1, <2>2, <4>1
      <4> QED BY <4>2
    <3> QED BY <3>1, <3>2
  <2>4. Max(lines) \in lines /\ \A y \in lines : Max(lines) >= y
    <3> HIDE DEF lines
    <3> QED BY <2>3 DEF Max
  <2>5. rows[i].line > p.value
    BY <1>3 DEF Holds, Field
  <2>6. Max(lines) \in Nat /\ Max(lines) >= rows[i].line
    BY <1>2, <2>4
  <2> HIDE DEF lines
  <2> QED BY <1>1, <1>2, <2>5, <2>6
<1>4. ASSUME p.field = "line", p.op = "lt" PROVE Min(lines) < p.value
  <2>1. \E x \in lines : \A y \in lines : x <= y
    BY <1>2, LeastOf
  <2>2. Min(lines) \in lines /\ \A y \in lines : Min(lines) <= y
    <3> HIDE DEF lines
    <3> QED BY <2>1 DEF Min
  <2>3. rows[i].line < p.value
    BY <1>4 DEF Holds, Field
  <2>4. Min(lines) \in Nat /\ Min(lines) <= rows[i].line
    BY <1>2, <2>2
  <2> HIDE DEF lines
  <2> QED BY <1>1, <1>2, <2>3, <2>4
<1> HIDE DEF lines
<1>5. ZonePasses(rows, p) = (p.field = "line" => CASE p.op = "gt" -> Max(lines) > p.value
                                                   [] p.op = "lt" -> Min(lines) < p.value
                                                   [] OTHER -> TRUE)
  BY DEF ZonePasses, lines
<1> QED BY <1>3, <1>4, <1>5

-----------------------------------------------------------------------------
\* The rows a segment gives to a scan.

(* The candidates of a segment, the rows of them the columns narrow to,    *)
(* and of those the ones that pass the predicates read late.               *)
Held(q, s) == {id[2] : id \in InSegment(Candidates(q), s)}
SegmentRows(q, s) == RowsAt(RowsOf(s), NarrowedRows(q, s, Held(q, s)))
LateAt(q, rows) == {i \in DOMAIN rows : \A p \in Late(q) : Holds(rows[i], p)}
BuiltRows(q, s) == RowsAt(SegmentRows(q, s), LateAt(q, SegmentRows(q, s)))

LEMMA HeldFacts ==
  ASSUME IndexOK, NEW q \in Queries, NEW s \in DOMAIN segments
  PROVE  /\ Held(q, s) \subseteq DOMAIN RowsOf(s)
         /\ Held(q, s) # {} => ~Masked(s) /\ PassesPath(q, segments[s].path)
         /\ \A i \in Firsts(RowsOf(s)) : RowsOf(s)[i] \in Good(q) /\ ~Masked(s) => i \in Held(q, s)
         /\ Candidates(q) = {} => Held(q, s) = {}
<1>0. q.where \subseteq Predicate
  BY FindAssumption
<1>1. ASSUME NEW i \in Held(q, s)
      PROVE  i \in DOMAIN RowsOf(s) /\ ~Masked(s) /\ PassesPath(q, segments[s].path) /\ Candidates(q) # {}
  <2>1. PICK id \in Candidates(q) : id[1] = s /\ id[2] = i
    BY DEF Held, InSegment
  <2>2. id \in BuildCandidates(q) /\ segments[id[1]].path \notin DOMAIN shadow
    BY DEF Candidates
  <2>3. id \in RowIds /\ PassesPath(q, segments[id[1]].path)
    BY <2>2 DEF BuildCandidates
  <2>4. i \in DOMAIN RowsOf(s)
    BY <2>1, <2>3, RowIdFacts
  <2> QED BY <2>1, <2>2, <2>3, <2>4 DEF Masked
<1>2. ASSUME NEW i \in Firsts(RowsOf(s)), RowsOf(s)[i] \in Good(q), ~Masked(s)
      PROVE  i \in Held(q, s)
  <2> DEFINE id == <<s, i>>
  <2>1. i \in DOMAIN RowsOf(s)
    BY DEF Firsts
  <2>2. id \in RowIds /\ At(id) = RowsOf(s)[i] /\ id[1] = s /\ id[2] = i
    BY <2>1, RowIdFacts
  <2> HIDE DEF id
  <2>3. id \in Canonical
    BY <2>2 DEF Canonical
  <2>4. RowsOf(s)[i].path = segments[s].path /\ RowsOf(s) \in Seq(Row)
    BY <2>1, SegmentFacts DEF RowOf
  <2>5. PassesPath(q, segments[id[1]].path)
    BY <1>2, <2>2, <2>4 DEF Good
  <2>6. \A p \in q.where : id \in Proposed(p)
    <3> SUFFICES ASSUME NEW p \in q.where PROVE id \in Proposed(p)
      OBVIOUS
    <3>1. p \in Predicate /\ Holds(At(id), p)
      BY <1>0, <1>2, <2>2 DEF Good
    <3> QED BY <2>3, <3>1, ProposedComplete
  <2>7. id \in BuildCandidates(q)
    BY <2>2, <2>5, <2>6 DEF BuildCandidates
  <2>8. \A p \in q.where : ZonePasses(RowsOf(id[1]), p)
    <3> SUFFICES ASSUME NEW p \in q.where PROVE ZonePasses(RowsOf(s), p)
      BY <2>2
    <3>1. p \in Predicate /\ Holds(RowsOf(s)[i], p)
      BY <1>0, <1>2 DEF Good
    <3> QED BY <2>1, <2>4, <3>1, ZoneComplete
  <2>9. id \in Candidates(q)
    BY <1>2, <2>2, <2>7, <2>8 DEF Candidates, Masked
  <2> QED BY <2>2, <2>9 DEF Held, InSegment
<1> QED BY <1>1, <1>2

LEMMA NarrowedFacts ==
  ASSUME IndexOK, NEW q \in Queries, NEW s \in DOMAIN segments, NEW at, at \subseteq DOMAIN RowsOf(s)
  PROVE  /\ NarrowedRows(q, s, at) \subseteq at
         /\ \A i \in NarrowedRows(q, s, at) : \A p \in q.where \ Late(q) : Holds(RowsOf(s)[i], p)
         /\ \A i \in at : RowsOf(s)[i] \in Good(q) => i \in NarrowedRows(q, s, at)
<1>0. q.where \subseteq Predicate
  BY FindAssumption
<1>1. NarrowedRows(q, s, at) \subseteq at
  BY DEF NarrowedRows, Posted
<1>2. \A i \in NarrowedRows(q, s, at) : \A p \in q.where \ Late(q) : Holds(RowsOf(s)[i], p)
  BY DEF NarrowedRows
<1>3. ASSUME NEW i \in at, RowsOf(s)[i] \in Good(q)
      PROVE  i \in NarrowedRows(q, s, at)
  <2>1. \A p \in q.where : Holds(RowsOf(s)[i], p)
    BY <1>3 DEF Good
  <2>2. RowsOf(s)[i] \in RowOf(segments[s].path)
    BY SegmentFacts
  <2>3. ASSUME NEW p \in q.where, p.field = "val" /\ p.op = "eq" /\ p.value # Default
        PROVE  RowsOf(s)[i].val = p.value
    BY <1>0, <2>1, <2>2, <2>3, ValueHolds
  <2>4. i \in Posted(q, RowsOf(s), at)
    BY <2>3 DEF Posted
  <2> QED BY <2>1, <2>4 DEF NarrowedRows
<1> QED BY <1>1, <1>2, <1>3

LEMMA NoRows ==
  ASSUME NEW X, NEW rows \in Seq(X)
  PROVE  /\ RowsAt(rows, {}) \in Seq(X) /\ Range(RowsAt(rows, {})) = {}
         /\ FirstRows(RowsAt(rows, {})) = {} /\ FirstRows(<<>>) = {}
<1>1. RowsAt(rows, {}) \in Seq(X) /\ Range(RowsAt(rows, {})) = {rows[i] : i \in {}}
  BY RowsAtFacts
<1>2. FirstRows(RowsAt(rows, {})) \subseteq Range(RowsAt(rows, {}))
  BY <1>1, FirstRowsFacts
<1>3. <<>> \in Seq(X) /\ DOMAIN <<>> = {}
  BY EmptySeq
<1>4. FirstRows(<<>>) = {}
  BY <1>3 DEF FirstRows, Firsts
<1> QED BY <1>1, <1>2, <1>4

LEMMA SegmentScan ==
  ASSUME IndexOK, NEW q \in Queries, Alike(q), NEW s \in DOMAIN segments
  PROVE  /\ SegmentRows(q, s) \in Seq(Row) /\ BuiltRows(q, s) \in Seq(Row)
         /\ Late(q) = {} \/ Candidates(q) = {} => FirstRows(SegmentRows(q, s)) = Wanted(q)[s]
         /\ FirstRows(BuiltRows(q, s)) = Wanted(q)[s]
<1> DEFINE G == Good(q)
<1> DEFINE at == NarrowedRows(q, s, Held(q, s))
<1> DEFINE rows == RowsOf(s)
<1> DEFINE R == SegmentRows(q, s)
<1> DEFINE B == BuiltRows(q, s)
<1>1. rows \in Seq(Row)
  BY SegmentFacts
<1>2. /\ Held(q, s) \subseteq DOMAIN rows
      /\ Held(q, s) # {} => ~Masked(s) /\ PassesPath(q, segments[s].path)
      /\ \A i \in Firsts(rows) : rows[i] \in G /\ ~Masked(s) => i \in Held(q, s)
      /\ Candidates(q) = {} => Held(q, s) = {}
  BY HeldFacts
<1>3. /\ at \subseteq Held(q, s)
      /\ \A i \in at : \A p \in q.where \ Late(q) : Holds(rows[i], p)
      /\ \A i \in Held(q, s) : rows[i] \in G => i \in at
  BY <1>2, NarrowedFacts
<1>4. R = RowsAt(rows, at)
  BY DEF SegmentRows
<1>5. B = RowsAt(R, LateAt(q, R)) /\ LateAt(q, R) \subseteq DOMAIN R
  BY DEF BuiltRows, LateAt
<1>6. Wanted(q)[s] = FirstRows(LiveRows[s]) \cap G
  BY WantedFacts
<1>7. LiveRows[s] = IF Masked(s) THEN <<>> ELSE rows
  BY DEF LiveRows
<1> HIDE DEF G, at, rows, R, B
<1>8. /\ R \in Seq(Row) /\ Range(R) = {rows[i] : i \in at}
  BY <1>1, <1>2, <1>3, <1>4, RowsAtFacts
<1>9. /\ B \in Seq(Row) /\ Range(B) = {R[i] : i \in LateAt(q, R)}
  BY <1>5, <1>8, RowsAtFacts
<1>10. ASSUME NEW r \in Range(R)
       PROVE  r \in Row /\ PassesPath(q, r.path) /\ \A p \in q.where \ Late(q) : Holds(r, p)
  <2>1. PICK i \in at : r = rows[i]
    BY <1>8
  <2>2. i \in DOMAIN rows /\ PassesPath(q, segments[s].path)
    BY <1>2, <1>3
  <2>3. r \in Row /\ r.path = segments[s].path
    BY <2>1, <2>2, SegmentFacts DEF RowOf, rows
  <2> QED BY <1>3, <2>1, <2>2, <2>3
<1>11. Late(q) = {} => Range(R) \subseteq G
  BY <1>10 DEF G, Good
<1>12. Range(B) \subseteq G
  <2> SUFFICES ASSUME NEW r \in Range(B) PROVE r \in G
    OBVIOUS
  <2>1. PICK i \in LateAt(q, R) : r = R[i]
    BY <1>9
  <2>2. r \in Range(R) /\ \A p \in Late(q) : Holds(r, p)
    BY <2>1 DEF LateAt, Range
  <2> QED BY <1>10, <2>2 DEF G, Good
<1>13. FirstRows(R) \subseteq Range(R) /\ FirstRows(B) \subseteq Range(B)
  BY <1>8, <1>9, FirstRowsFacts
<1>14. CASE at = {}
  <2>1. Range(R) = {} /\ FirstRows(R) = {} /\ FirstRows(B) = {}
    <3>1. Range(R) = {}
      BY <1>8, <1>14
    <3>2. DOMAIN R = {}
      BY <3>1 DEF Range
    <3>3. LateAt(q, R) = {}
      BY <1>5, <3>2
    <3>4. Range(B) = {}
      BY <1>9, <3>3
    <3> QED BY <1>13, <3>1, <3>4
  <2>2. Wanted(q)[s] = {}
    <3>1. CASE Masked(s)
      <4>1. LiveRows[s] = <<>>
        BY <1>7, <3>1
      <4> QED BY <1>1, <1>6, <4>1, NoRows
    <3>2. CASE ~Masked(s)
      <4>1. \A i \in Firsts(rows) : rows[i] \notin G
        BY <1>2, <1>3, <1>14, <3>2
      <4> QED BY <1>6, <1>7, <3>2, <4>1 DEF FirstRows
    <3> QED BY <3>1, <3>2
  <2> QED BY <1>8, <1>9, <2>1, <2>2 DEF R, B
<1>15. CASE at # {}
  <2>1. ~Masked(s) /\ LiveRows[s] = rows
    BY <1>2, <1>3, <1>7, <1>15
  <2>2. \A i, j \in DOMAIN rows : SameRow(rows[i], rows[j]) /\ rows[i] \in G => rows[j] \in G
    <3>1. \A i \in DOMAIN rows : rows[i] \in Range(Live)
      <4>1. \A r \in Range(LiveRows[s]) : r \in Range(Live)
        BY LiveFacts
      <4> QED BY <2>1, <4>1 DEF Range
    <3> QED BY <3>1 DEF Alike, G
  <2>3. FirstRows(R) \cap G = FirstRows(rows) \cap G
    <3>1. at \subseteq DOMAIN rows /\ \A i \in Firsts(rows) : rows[i] \in G => i \in at
      BY <1>2, <1>3, <2>1
    <3> QED BY <1>1, <1>4, <2>2, <3>1, RowsAtGood
  <2>4. FirstRows(B) \cap G = FirstRows(R) \cap G
    <3>1. \A i, j \in DOMAIN R : SameRow(R[i], R[j]) /\ R[i] \in G => R[j] \in G
      <4> SUFFICES ASSUME NEW i \in DOMAIN R, NEW j \in DOMAIN R, SameRow(R[i], R[j]), R[i] \in G
                   PROVE  R[j] \in G
        OBVIOUS
      <4>1. R[i] \in Range(R) /\ R[j] \in Range(R)
        BY DEF Range
      <4>2. PICK k \in at : R[i] = rows[k]
        BY <1>8, <4>1
      <4>3. PICK l \in at : R[j] = rows[l]
        BY <1>8, <4>1
      <4>4. k \in DOMAIN rows /\ l \in DOMAIN rows
        BY <1>2, <1>3
      <4> QED BY <2>2, <4>2, <4>3, <4>4
    <3>2. \A i \in Firsts(R) : R[i] \in G => i \in LateAt(q, R)
      BY DEF Firsts, LateAt, G, Good, Late
    <3> QED BY <1>5, <1>8, <3>1, <3>2, RowsAtGood
  <2>5. FirstRows(B) = Wanted(q)[s]
    BY <1>6, <1>12, <1>13, <2>1, <2>3, <2>4
  <2>6. Late(q) = {} => FirstRows(R) = Wanted(q)[s]
    BY <1>6, <1>11, <1>13, <2>1, <2>3
  <2>7. Candidates(q) # {}
    BY <1>2, <1>3, <1>15
  <2> QED BY <1>8, <1>9, <2>5, <2>6, <2>7 DEF R, B
<1> QED BY <1>14, <1>15

-----------------------------------------------------------------------------
\* The dirty rows, and what is left of a scan and of them.

LEMMA DirtyRowsFacts ==
  ASSUME IndexOK, NEW q \in Queries, Alike(q)
  PROVE  /\ DirtyRows(q) \in Seq(Row)
         /\ \A r \in Range(DirtyRows(q)) : r.path \in DOMAIN shadow
         /\ FirstRows(DirtyRows(q)) \cap Good(q) = DirtyMatching(q)
<1> DEFINE own(d) == RowsAt(DirtyFiles[d], Posted(q, DirtyFiles[d], DOMAIN DirtyFiles[d]))
<1> DEFINE ss == [d \in DOMAIN DirtyFiles |-> own(d)]
<1> DEFINE E == [d \in DOMAIN DirtyFiles |-> FirstRows(own(d))]
<1> DEFINE m == Len(DirtyFiles)
<1> DEFINE G == Good(q)
<1>0. q.where \subseteq Predicate
  BY FindAssumption
<1>1. m \in Nat /\ DOMAIN DirtyFiles = 1..m /\ DirtyFiles \in Seq(Seq(Row))
  BY DirtyFacts
<1>2. ASSUME NEW d \in DOMAIN DirtyFiles
      PROVE  /\ own(d) \in Seq(Row) /\ Range(own(d)) \subseteq Range(DirtyFiles[d])
             /\ FirstRows(own(d)) \cap G = DirtyWanted(q)[d] \cap G
  <2> DEFINE rows == DirtyFiles[d]
  <2> DEFINE at == Posted(q, rows, DOMAIN rows)
  <2>1. PICK p \in DOMAIN shadow : rows \in Seq(Row) /\ \A i \in DOMAIN rows : rows[i] \in RowOf(p)
    BY DirtyFacts
  <2>2. at \subseteq DOMAIN rows
    BY DEF Posted
  <2>3. ASSUME NEW i \in Firsts(rows), rows[i] \in G PROVE i \in at
    <3>1. i \in DOMAIN rows /\ rows[i] \in RowOf(p) /\ \A c \in q.where : Holds(rows[i], c)
      BY <2>1, <2>3 DEF Firsts, Good
    <3>2. ASSUME NEW c \in q.where, c.field = "val" /\ c.op = "eq" /\ c.value # Default
          PROVE  rows[i].val = c.value
      BY <1>0, <3>1, <3>2, ValueHolds
    <3> QED BY <3>1, <3>2 DEF Posted
  <2>4. \A i, j \in DOMAIN rows : SameRow(rows[i], rows[j]) /\ rows[i] \in G => rows[j] \in G
    <3>1. \A i \in DOMAIN rows : rows[i] \in Range(Live)
      <4>1. \A r \in Range(DirtyFiles[d]) : r \in Range(Live)
        BY LiveFacts
      <4> QED BY <4>1 DEF Range
    <3> QED BY <3>1 DEF Alike, G
  <2>5. own(d) = RowsAt(rows, at)
    OBVIOUS
  <2> HIDE DEF rows, at, G, own
  <2>6. own(d) \in Seq(Row) /\ Range(own(d)) = {rows[i] : i \in at}
    BY <2>1, <2>2, <2>5, RowsAtFacts
  <2>7. FirstRows(own(d)) \cap G = FirstRows(rows) \cap G
    BY <2>1, <2>2, <2>3, <2>4, <2>5, RowsAtGood
  <2>8. DirtyWanted(q)[d] = FirstRows(rows) \cap G
    BY WantedFacts DEF rows, G
  <2>9. Range(own(d)) \subseteq Range(rows)
    BY <2>2, <2>6 DEF Range
  <2> QED BY <2>6, <2>7, <2>8, <2>9 DEF rows
<1>3. ss \in Seq(Seq(Row)) /\ Len(ss) = m /\ \A d \in DOMAIN DirtyFiles : ss[d] = own(d) /\ E[d] = FirstRows(own(d))
  <2>1. \A d \in DOMAIN DirtyFiles : own(d) \in Seq(Row)
    BY <1>2
  <2> HIDE DEF own
  <2>2. ss \in [1..m -> Seq(Row)]
    BY <1>1, <2>1
  <2> HIDE DEF m
  <2> QED BY <1>1, <2>2
<1>4. DirtyRows(q) = FlattenSeq(ss)
  BY DEF DirtyRows
<1>5. DirtyWanted(q) = [d \in DOMAIN DirtyFiles |-> DirtyWanted(q)[d]]
  BY DEF DirtyWanted
<1> HIDE DEF ss, E, m, G, own
<1>6. /\ FlattenSeq(ss) \in Seq(Row)
      /\ Range(FlattenSeq(ss)) = UNION {Range(ss[i]) : i \in 1..m}
      /\ FirstRows(FlattenSeq(ss)) = Layered(E, m)
  <2>1. \A i \in 1..Len(ss) : E[i] = FirstRows(ss[i])
    BY <1>1, <1>3
  <2> QED BY <1>3, <2>1, FlattenFacts
<1>7. ASSUME NEW r \in Range(DirtyRows(q)) PROVE r.path \in DOMAIN shadow
  <2>1. PICK d \in 1..m : r \in Range(ss[d])
    BY <1>4, <1>6
  <2>2. d \in DOMAIN DirtyFiles /\ r \in Range(DirtyFiles[d])
    BY <1>1, <1>2, <1>3, <2>1
  <2> QED BY <2>2, LiveFacts
<1>8. Layered(E, m) \cap G = DirtyMatching(q)
  <2>1. \A i \in 1..m : /\ E[i] \cap G = DirtyWanted(q)[i] \cap G
                        /\ E[i] \subseteq Range(Live) /\ DirtyWanted(q)[i] \subseteq Range(Live)
                        /\ DirtyWanted(q)[i] \subseteq G
    <3> SUFFICES ASSUME NEW d \in DOMAIN DirtyFiles
                 PROVE  /\ E[d] \cap G = DirtyWanted(q)[d] \cap G
                        /\ E[d] \subseteq Range(Live) /\ DirtyWanted(q)[d] \subseteq Range(Live)
                        /\ DirtyWanted(q)[d] \subseteq G
      BY <1>1
    <3>1. E[d] = FirstRows(own(d)) /\ own(d) \in Seq(Row)
      BY <1>2, <1>3
    <3>2. E[d] \subseteq Range(own(d))
      BY <3>1, FirstRowsFacts
    <3>3. DirtyWanted(q)[d] = DirtyFirsts[d] \cap G /\ DirtyFirsts[d] \subseteq Range(Live)
      BY WantedFacts DEF G
    <3>4. \A r \in Range(DirtyFiles[d]) : r \in Range(Live)
      BY LiveFacts
    <3> QED BY <1>2, <3>1, <3>2, <3>3, <3>4
  <2>2. Respects(Range(Live), G)
    BY SameRowFacts DEF Alike, G, Respects
  <2>3. \A i \in 1..m : E[i] \cap G = DirtyWanted(q)[i] \cap G
    BY <2>1
  <2>4. \A i \in 1..m : E[i] \subseteq Range(Live) /\ DirtyWanted(q)[i] \subseteq Range(Live)
    BY <2>1
  <2>5. Layered(E, m) \cap G = Layered(DirtyWanted(q), m) \cap G
    <3>0. PICK n \in Nat : n = m
      BY <1>1
    <3>1. PICK H : H = DirtyWanted(q) /\ n = m
      BY <3>0
    <3>2. \A i \in 1..n : E[i] \cap G = H[i] \cap G
      BY <2>3, <3>1
    <3>3. \A i \in 1..n : E[i] \subseteq Range(Live) /\ H[i] \subseteq Range(Live)
      BY <2>4, <3>1
    <3>4. Layered(E, n) \cap G = Layered(H, n) \cap G
      BY <2>2, <3>2, <3>3, LayeredGood
    <3> QED BY <3>1, <3>4
  <2>6. Layered(DirtyWanted(q), m) \subseteq G
    BY <2>1 DEF Layered
  <2> QED BY <2>5, <2>6 DEF DirtyMatching, m
<1> QED BY <1>4, <1>6, <1>7, <1>8 DEF G

(* Stages 3b to 5 over what a scan kept: those of it that match, and the   *)
(* dirty rows that do.                                                     *)
LEMMA Collected ==
  ASSUME IndexOK, NEW q \in Queries, Alike(q), NEW kept \in Seq(Row),
         \A r \in Range(kept) : r.path \notin DOMAIN shadow,
         NEW P, P = Passing(q, Collapse(kept \o DirtyRows(q)))
  PROVE  /\ P \in Seq(Row) /\ Distinct(P)
         /\ Range(P) = (FirstRows(kept) \cap Good(q)) \cup DirtyMatching(q)
<1> DEFINE dirty == DirtyRows(q)
<1> DEFINE union == kept \o dirty
<1>1. dirty \in Seq(Row) /\ (\A r \in Range(dirty) : r.path \in DOMAIN shadow)
        /\ FirstRows(dirty) \cap Good(q) = DirtyMatching(q)
  BY DirtyRowsFacts
<1> HIDE DEF dirty
<1>2. union \in Seq(Row)
        /\ FirstRows(union) = FirstRows(kept) \cup {r \in FirstRows(dirty) : \A x \in FirstRows(kept) : ~SameRow(x, r)}
  BY <1>1, ConcatFacts, ConcatFirsts
<1>3. \A r \in FirstRows(dirty) : \A x \in FirstRows(kept) : ~SameRow(x, r)
  <2> SUFFICES ASSUME NEW r \in FirstRows(dirty), NEW x \in FirstRows(kept) PROVE ~SameRow(x, r)
    OBVIOUS
  <2>1. r \in Range(dirty) /\ x \in Range(kept)
    BY <1>1, FirstRowsFacts
  <2> QED BY <1>1, <2>1, SameRowIs
<1>4. FirstRows(union) = FirstRows(kept) \cup FirstRows(dirty)
  BY <1>2, <1>3
<1> HIDE DEF union
<1>5. Collapse(union) \in Seq(Row) /\ Distinct(Collapse(union)) /\ Range(Collapse(union)) = FirstRows(union)
  BY <1>2, CollapseFacts
<1>6. P = Passing(q, Collapse(union))
  BY DEF union, dirty
<1>7. P \in Seq(Row) /\ Range(P) = Range(Collapse(union)) \cap Good(q) /\ Distinct(P)
  <2>1. /\ Passing(q, Collapse(union)) \in Seq(Row)
        /\ Range(Passing(q, Collapse(union))) = Range(Collapse(union)) \cap Good(q)
        /\ Distinct(Passing(q, Collapse(union)))
    BY <1>5, PassingFacts
  <2> QED BY <1>6, <2>1
<1> QED BY <1>1, <1>4, <1>5, <1>7

-----------------------------------------------------------------------------
\* What a scan that sheds on rank has kept of the rows M, for a page of k.

Kept(q, K, shed, M, k) ==
  /\ K \in Seq(Row) /\ Distinct(K) /\ Range(K) \subseteq M /\ Covers(q, Range(K), M, k)
  /\ shed \in Nat /\ Len(K) + shed = Cardinality(M)

LEMMA KeptAll ==
  ASSUME NEW q, NEW K \in Seq(Row), Distinct(K), NEW k
  PROVE  Kept(q, K, 0, Range(K), k)
BY DistinctFacts DEF Kept, Covers

LEMMA KeptTrim ==
  ASSUME NEW q, IsOrder(q), NEW M, M \subseteq Row, NEW k \in Nat, NEW n \in Nat, n >= k,
         NEW K, NEW shed, Kept(q, K, shed, M, k)
  PROVE  LET T == TopK(q, K, n)
         IN /\ Kept(q, T, shed + Len(K) - Len(T), M, k)
            /\ Len(T) = IF n <= Len(K) THEN n ELSE Len(K)
<1> DEFINE T == TopK(q, K, n)
<1>0. Row \subseteq SortRow
  BY DEF SortRow
<1>1. K \in Seq(Row) /\ Distinct(K) /\ Range(K) \subseteq M /\ Covers(q, Range(K), M, k)
        /\ shed \in Nat /\ Len(K) + shed = Cardinality(M) /\ Len(K) \in Nat
  BY DEF Kept
<1>2. /\ T \in Seq(Row) /\ Len(T) = (IF n <= Len(K) THEN n ELSE Len(K))
      /\ Range(T) \subseteq Range(K) /\ Distinct(T)
      /\ n >= Len(K) => Range(T) = Range(K)
      /\ \A r \in Range(K) \ Range(T) : \A i \in DOMAIN T : Before(q, T[i], r)
  BY <1>0, <1>1, TopKFacts
<1> HIDE DEF T
<1>3. Len(T) \in Nat /\ Len(T) <= Len(K)
  BY <1>1, <1>2
<1>4. Cardinality(Range(T)) = Len(T) /\ IsFiniteSet(Range(T))
  BY <1>2, DistinctFacts
<1>5. \A r \in Range(K) \ Range(T) : \A a \in Range(T) : Before(q, a, r)
  BY <1>2 DEF Range
<1>6. Covers(q, Range(T), M, k)
  <2>1. CASE n >= Len(K)
    BY <1>1, <1>2, <2>1
  <2>2. CASE ~(n >= Len(K))
    <3>1. Len(T) >= k
      BY <1>1, <1>2, <2>2
    <3> SUFFICES ASSUME NEW m \in M \ Range(T)
                 PROVE  \E A \in SUBSET Range(T) : /\ IsFiniteSet(A) /\ Cardinality(A) >= k
                                                   /\ \A a \in A : Before(q, a, m)
      BY DEF Covers
    <3>2. CASE m \in Range(K)
      BY <1>4, <1>5, <3>1, <3>2
    <3>3. CASE m \notin Range(K)
      <4>1. PICK A \in SUBSET Range(K) : /\ IsFiniteSet(A) /\ Cardinality(A) >= k
                                         /\ \A a \in A : Before(q, a, m)
        BY <1>1, <3>3 DEF Covers
      <4>2. CASE A \subseteq Range(T)
        BY <4>1, <4>2
      <4>3. CASE ~(A \subseteq Range(T))
        <5>1. PICK x \in A : x \in Range(K) \ Range(T)
          BY <4>3
        <5>2. m \in SortRow /\ x \in SortRow
          BY <1>0, <1>1, <5>1
        <5>3. ASSUME NEW a \in Range(T) PROVE Before(q, a, m)
          <6>1. a \in SortRow
            BY <1>0, <1>1, <1>2
          <6>2. Before(q, a, x) /\ Before(q, x, m)
            BY <1>5, <4>1, <5>1
          <6> QED BY <5>2, <6>1, <6>2, BeforeFacts
        <5> QED BY <1>4, <3>1, <5>3
      <4> QED BY <4>2, <4>3
    <3> QED BY <3>2, <3>3
  <2> QED BY <2>1, <2>2
<1>7. shed + Len(K) - Len(T) \in Nat /\ Len(T) + (shed + Len(K) - Len(T)) = Cardinality(M)
  BY <1>1, <1>3
<1> QED BY <1>1, <1>2, <1>6, <1>7 DEF Kept, T

LEMMA KeepFacts ==
  ASSUME NEW k \in Nat
  PROVE  TopKKeep(k) \in Nat /\ TopKKeep(k) >= k /\ k * OverFetch \in Nat /\ k * OverFetch >= k
<1>1. OverFetch \in Nat /\ OverFetch >= 2 /\ OverFetch \div 2 \in Nat
  BY FindAssumption
<1>2. k * (OverFetch \div 2) \in Nat /\ k * OverFetch \in Nat /\ k * OverFetch >= k
  BY <1>1
<1> QED BY <1>2 DEF TopKKeep

LEMMA KeptShed ==
  ASSUME NEW q, IsOrder(q), NEW M, M \subseteq Row, NEW k \in Nat,
         NEW K, NEW shed, Kept(q, K, shed, M, k)
  PROVE  LET cut == Shed(q, K, shed, k) IN Kept(q, cut.kept, cut.shed, M, k)
<1> DEFINE T == TopK(q, K, TopKKeep(k))
<1>1. TopKKeep(k) \in Nat /\ TopKKeep(k) >= k
  BY KeepFacts
<1>2. /\ Kept(q, T, shed + Len(K) - Len(T), M, k)
      /\ Len(T) = IF TopKKeep(k) <= Len(K) THEN TopKKeep(k) ELSE Len(K)
  BY <1>1, KeptTrim
<1>3. Len(K) \in Nat
  BY DEF Kept
<1>4. Min({TopKKeep(k), Len(K)}) = Len(T)
  <2>1. PICK a \in Int, b \in Int : a = TopKKeep(k) /\ b = Len(K)
    BY <1>1, <1>3
  <2>2. Min({a, b}) = IF a <= b THEN a ELSE b
    BY <2>1, TwoNumbers
  <2> QED BY <1>2, <2>1, <2>2
<1> HIDE DEF T
<1>5. Shed(q, K, shed, k) = IF Len(K) > k * OverFetch THEN [kept |-> T, shed |-> shed + Len(K) - Len(T)]
                            ELSE [kept |-> K, shed |-> shed]
  BY <1>4 DEF Shed, T
<1> QED BY <1>2, <1>5

LEMMA KeptJoin ==
  ASSUME NEW q, NEW M, NEW W, IsFiniteSet(M), IsFiniteSet(W), NEW k \in Nat,
         \A x \in M : \A y \in W : ~SameRow(x, y),
         NEW a, NEW b, NEW s1, NEW s2, Kept(q, a, s1, M, k), Kept(q, b, s2, W, k)
  PROVE  Kept(q, a \o b, s1 + s2, M \cup W, k) /\ IsFiniteSet(M \cup W)
<1> DEFINE c == a \o b
<1>1. /\ a \in Seq(Row) /\ Distinct(a) /\ Range(a) \subseteq M /\ Covers(q, Range(a), M, k)
      /\ b \in Seq(Row) /\ Distinct(b) /\ Range(b) \subseteq W /\ Covers(q, Range(b), W, k)
      /\ s1 \in Nat /\ s2 \in Nat /\ Len(a) + s1 = Cardinality(M) /\ Len(b) + s2 = Cardinality(W)
      /\ Len(a) \in Nat /\ Len(b) \in Nat
  BY DEF Kept
<1>2. /\ c \in Seq(Row) /\ Len(c) = Len(a) + Len(b)
      /\ DOMAIN c = 1..(Len(a) + Len(b))
      /\ \A i \in DOMAIN a : i \in DOMAIN c /\ c[i] = a[i]
      /\ \A i \in DOMAIN c : i \notin DOMAIN a => i - Len(a) \in DOMAIN b /\ c[i] = b[i - Len(a)]
      /\ Range(c) = Range(a) \cup Range(b)
  BY <1>1, ConcatFacts
<1> HIDE DEF c
<1>3. Distinct(c)
  <2> SUFFICES ASSUME NEW i \in DOMAIN c, NEW j \in DOMAIN c, i # j, SameRow(c[i], c[j]) PROVE FALSE
    BY DEF Distinct
  <2>1. CASE i \in DOMAIN a /\ j \in DOMAIN a
    BY <1>1, <1>2, <2>1 DEF Distinct
  <2>2. CASE i \in DOMAIN a /\ j \notin DOMAIN a
    <3>1. c[i] \in M /\ c[j] \in W
      BY <1>1, <1>2, <2>2 DEF Range
    <3> QED BY <3>1
  <2>3. CASE i \notin DOMAIN a /\ j \in DOMAIN a
    <3>1. c[j] \in M /\ c[i] \in W
      BY <1>1, <1>2, <2>3 DEF Range
    <3> QED BY <3>1, SameRowFacts
  <2>4. CASE i \notin DOMAIN a /\ j \notin DOMAIN a
    <3>1. /\ i - Len(a) \in DOMAIN b /\ c[i] = b[i - Len(a)]
          /\ j - Len(a) \in DOMAIN b /\ c[j] = b[j - Len(a)]
      BY <1>2, <2>4
    <3>2. i - Len(a) # j - Len(a)
      BY <1>1, <1>2
    <3> QED BY <1>1, <3>1, <3>2 DEF Distinct
  <2> QED BY <2>1, <2>2, <2>3, <2>4
<1>4. Covers(q, Range(c), M \cup W, k)
  <2> SUFFICES ASSUME NEW m \in (M \cup W) \ Range(c)
               PROVE  \E A \in SUBSET Range(c) : /\ IsFiniteSet(A) /\ Cardinality(A) >= k
                                                 /\ \A x \in A : Before(q, x, m)
    BY DEF Covers
  <2>1. CASE m \in M
    <3>1. PICK A \in SUBSET Range(a) : IsFiniteSet(A) /\ Cardinality(A) >= k /\ \A x \in A : Before(q, x, m)
      BY <1>1, <1>2, <2>1 DEF Covers
    <3> QED BY <1>2, <3>1
  <2>2. CASE m \in W
    <3>1. PICK A \in SUBSET Range(b) : IsFiniteSet(A) /\ Cardinality(A) >= k /\ \A x \in A : Before(q, x, m)
      BY <1>1, <1>2, <2>2 DEF Covers
    <3> QED BY <1>2, <3>1
  <2> QED BY <2>1, <2>2
<1>5. IsFiniteSet(M \cup W) /\ Cardinality(M \cup W) = Cardinality(M) + Cardinality(W)
  <2>1. M \cap W = {}
    BY SameRowFacts
  <2>2. Cardinality(M \cap W) = 0
    BY <2>1, FS_EmptySet
  <2>3. Cardinality(M) \in Nat /\ Cardinality(W) \in Nat
    BY FS_CardinalityType
  <2>4. IsFiniteSet(M \cup W) /\ Cardinality(M \cup W) = Cardinality(M) + Cardinality(W) - Cardinality(M \cap W)
    BY FS_Union
  <2> QED BY <2>2, <2>3, <2>4
<1>6. Len(c) + (s1 + s2) = Cardinality(M \cup W) /\ s1 + s2 \in Nat
  BY <1>1, <1>2, <1>5
<1> QED BY <1>1, <1>2, <1>3, <1>4, <1>5, <1>6 DEF Kept, c

-----------------------------------------------------------------------------
\* The scans over the segments, one after the other.

(* The scans as recursive functions over the segments.                     *)
Start == [kept |-> <<>>, shed |-> 0, refused |-> FALSE]

ViewsJoin(q, ids, acc, s) ==
  LET rows == RowsAt(RowsOf(s), NarrowedRows(q, s, {id[2] : id \in InSegment(ids, s)}))
      cut == Shed(q, acc.kept \o Collapse(rows), acc.shed, CHOOSE n \in ViewNeed(q) : TRUE)
  IN [kept |-> cut.kept, shed |-> cut.shed,
      refused |-> acc.refused \/ Len(cut.kept) > MaxViews]
ViewsStep(q, ids, f, s) == IF s = 0 THEN Start ELSE ViewsJoin(q, ids, f[s - 1], s)

BuiltJoin(q, ids, acc, s) ==
  LET own == BuiltOf(q, s, ids)
      kept == acc.kept \o own.kept
      cut == IF TrimBudget(q) = {} THEN [kept |-> kept, shed |-> acc.shed + own.shed]
             ELSE Shed(q, kept, acc.shed + own.shed, CHOOSE n \in TrimBudget(q) : TRUE)
  IN [kept |-> cut.kept, shed |-> cut.shed,
      refused |-> acc.refused \/ Len(cut.kept) > MaxRows]
BuiltStep(q, ids, f, s) == IF s = 0 THEN Start ELSE BuiltJoin(q, ids, f[s - 1], s)

LEMMA ViewsExists ==
  ASSUME NEW q, NEW ids, NEW N \in Nat
  PROVE  \E f : f = [s \in 0..N |-> ViewsStep(q, ids, f, s)]
<1> DEFINE S == {n \in 0..N : \E f : f = [s \in 0..n |-> ViewsStep(q, ids, f, s)]}
<1>1. 0 \in S
  <2> DEFINE f == [s \in 0..0 |-> Start]
  <2>1. \A s \in 0..0 : s = 0
    OBVIOUS
  <2>2. \A s \in 0..0 : ViewsStep(q, ids, f, s) = Start
    BY <2>1 DEF ViewsStep
  <2>3. f = [s \in 0..0 |-> ViewsStep(q, ids, f, s)]
    BY <2>2
  <2> QED BY <2>3
<1>2. ASSUME NEW n \in 0..(N - 1), n \in S PROVE n + 1 \in S
  <2>1. PICK f : f = [s \in 0..n |-> ViewsStep(q, ids, f, s)]
    BY <1>2
  <2> DEFINE g == [s \in 0..(n + 1) |-> IF s \in 0..n THEN f[s] ELSE ViewsJoin(q, ids, f[n], n + 1)]
  <2>2. ASSUME NEW s \in 0..(n + 1) PROVE g[s] = ViewsStep(q, ids, g, s)
    <3>1. CASE s = 0
      <4>1. s \in 0..n /\ f[s] = ViewsStep(q, ids, f, s) /\ ViewsStep(q, ids, f, s) = Start /\ ViewsStep(q, ids, g, s) = Start
        BY <2>1, <3>1 DEF ViewsStep
      <4>2. g[s] = f[s]
        BY <4>1
      <4> QED BY <4>1, <4>2
    <3>2. CASE s # 0
      <4>1. s - 1 \in 0..n /\ s - 1 \in 0..(n + 1)
        BY <3>2
      <4>2. g[s - 1] = f[s - 1]
        BY <4>1
      <4>3. g[s] = IF s \in 0..n THEN f[s] ELSE ViewsJoin(q, ids, f[n], n + 1)
        OBVIOUS
      <4> HIDE DEF g
      <4>4. ViewsStep(q, ids, g, s) = ViewsJoin(q, ids, f[s - 1], s)
        BY <3>2, <4>2 DEF ViewsStep
      <4>5. s \in 0..n => f[s] = ViewsJoin(q, ids, f[s - 1], s)
        BY <2>1, <3>2 DEF ViewsStep
      <4>6. s \notin 0..n => s = n + 1 /\ s - 1 = n
        OBVIOUS
      <4> QED BY <4>3, <4>4, <4>5, <4>6
    <3> QED BY <3>1, <3>2
  <2>3. g = [s \in 0..(n + 1) |-> g[s]]
    OBVIOUS
  <2> HIDE DEF g
  <2>4. g = [s \in 0..(n + 1) |-> ViewsStep(q, ids, g, s)]
    BY <2>2, <2>3
  <2>5. n + 1 \in 0..N
    OBVIOUS
  <2> QED BY <2>4, <2>5
<1>3. N \in S
  <2> HIDE DEF S
  <2>1. \A n \in 0..N : n \in S
    BY <1>1, <1>2, UpTo
  <2> QED BY <2>1
<1> QED BY <1>3

(* What the scan has after each segment.                                   *)
ViewsScan(q, ids) == CHOOSE f : f = [s \in 0..Len(segments) |-> ViewsStep(q, ids, f, s)]

LEMMA ViewsScanFacts ==
  ASSUME NEW q, NEW ids, Len(segments) \in Nat
  PROVE  /\ ViewsScan(q, ids)[0] = Start
         /\ \A n \in 0..(Len(segments) - 1) :
              ViewsScan(q, ids)[n + 1] = ViewsJoin(q, ids, ViewsScan(q, ids)[n], n + 1)
<1> DEFINE f == ViewsScan(q, ids)
<1> DEFINE N == Len(segments)
<1>1. f = [s \in 0..N |-> ViewsStep(q, ids, f, s)]
  <2>1. \E g : g = [s \in 0..N |-> ViewsStep(q, ids, g, s)]
    BY ViewsExists
  <2> QED BY <2>1 DEF ViewsScan
<1> HIDE DEF f, N
<1>2. f[0] = ViewsStep(q, ids, f, 0)
  <2>1. 0 \in 0..N
    BY DEF N
  <2> QED BY <1>1, <2>1
<1>3. ASSUME NEW n \in 0..(N - 1) PROVE f[n + 1] = ViewsJoin(q, ids, f[n], n + 1)
  <2>1. n + 1 \in 0..N /\ n + 1 # 0 /\ (n + 1) - 1 = n
    BY DEF N
  <2>2. f[n + 1] = ViewsStep(q, ids, f, n + 1)
    BY <1>1, <2>1
  <2> QED BY <2>1, <2>2 DEF ViewsStep
<1> QED BY <1>2, <1>3 DEF f, N, ViewsStep

LEMMA BuiltExists ==
  ASSUME NEW q, NEW ids, NEW N \in Nat
  PROVE  \E f : f = [s \in 0..N |-> BuiltStep(q, ids, f, s)]
<1> DEFINE S == {n \in 0..N : \E f : f = [s \in 0..n |-> BuiltStep(q, ids, f, s)]}
<1>1. 0 \in S
  <2> DEFINE f == [s \in 0..0 |-> Start]
  <2>1. \A s \in 0..0 : s = 0
    OBVIOUS
  <2>2. \A s \in 0..0 : BuiltStep(q, ids, f, s) = Start
    BY <2>1 DEF BuiltStep
  <2>3. f = [s \in 0..0 |-> BuiltStep(q, ids, f, s)]
    BY <2>2
  <2> QED BY <2>3
<1>2. ASSUME NEW n \in 0..(N - 1), n \in S PROVE n + 1 \in S
  <2>1. PICK f : f = [s \in 0..n |-> BuiltStep(q, ids, f, s)]
    BY <1>2
  <2> DEFINE g == [s \in 0..(n + 1) |-> IF s \in 0..n THEN f[s] ELSE BuiltJoin(q, ids, f[n], n + 1)]
  <2>2. ASSUME NEW s \in 0..(n + 1) PROVE g[s] = BuiltStep(q, ids, g, s)
    <3>1. CASE s = 0
      <4>1. s \in 0..n /\ f[s] = BuiltStep(q, ids, f, s) /\ BuiltStep(q, ids, f, s) = Start /\ BuiltStep(q, ids, g, s) = Start
        BY <2>1, <3>1 DEF BuiltStep
      <4>2. g[s] = f[s]
        BY <4>1
      <4> QED BY <4>1, <4>2
    <3>2. CASE s # 0
      <4>1. s - 1 \in 0..n /\ s - 1 \in 0..(n + 1)
        BY <3>2
      <4>2. g[s - 1] = f[s - 1]
        BY <4>1
      <4>3. g[s] = IF s \in 0..n THEN f[s] ELSE BuiltJoin(q, ids, f[n], n + 1)
        OBVIOUS
      <4> HIDE DEF g
      <4>4. BuiltStep(q, ids, g, s) = BuiltJoin(q, ids, f[s - 1], s)
        BY <3>2, <4>2 DEF BuiltStep
      <4>5. s \in 0..n => f[s] = BuiltJoin(q, ids, f[s - 1], s)
        BY <2>1, <3>2 DEF BuiltStep
      <4>6. s \notin 0..n => s = n + 1 /\ s - 1 = n
        OBVIOUS
      <4> QED BY <4>3, <4>4, <4>5, <4>6
    <3> QED BY <3>1, <3>2
  <2>3. g = [s \in 0..(n + 1) |-> g[s]]
    OBVIOUS
  <2> HIDE DEF g
  <2>4. g = [s \in 0..(n + 1) |-> BuiltStep(q, ids, g, s)]
    BY <2>2, <2>3
  <2>5. n + 1 \in 0..N
    OBVIOUS
  <2> QED BY <2>4, <2>5
<1>3. N \in S
  <2> HIDE DEF S
  <2>1. \A n \in 0..N : n \in S
    BY <1>1, <1>2, UpTo
  <2> QED BY <2>1
<1> QED BY <1>3

(* What the scan has after each segment.                                   *)
BuiltScan(q, ids) == CHOOSE f : f = [s \in 0..Len(segments) |-> BuiltStep(q, ids, f, s)]

LEMMA BuiltScanFacts ==
  ASSUME NEW q, NEW ids, Len(segments) \in Nat
  PROVE  /\ BuiltScan(q, ids)[0] = Start
         /\ \A n \in 0..(Len(segments) - 1) :
              BuiltScan(q, ids)[n + 1] = BuiltJoin(q, ids, BuiltScan(q, ids)[n], n + 1)
<1> DEFINE f == BuiltScan(q, ids)
<1> DEFINE N == Len(segments)
<1>1. f = [s \in 0..N |-> BuiltStep(q, ids, f, s)]
  <2>1. \E g : g = [s \in 0..N |-> BuiltStep(q, ids, g, s)]
    BY BuiltExists
  <2> QED BY <2>1 DEF BuiltScan
<1> HIDE DEF f, N
<1>2. f[0] = BuiltStep(q, ids, f, 0)
  <2>1. 0 \in 0..N
    BY DEF N
  <2> QED BY <1>1, <2>1
<1>3. ASSUME NEW n \in 0..(N - 1) PROVE f[n + 1] = BuiltJoin(q, ids, f[n], n + 1)
  <2>1. n + 1 \in 0..N /\ n + 1 # 0 /\ (n + 1) - 1 = n
    BY DEF N
  <2>2. f[n + 1] = BuiltStep(q, ids, f, n + 1)
    BY <1>1, <2>1
  <2> QED BY <2>1, <2>2 DEF BuiltStep
<1> QED BY <1>2, <1>3 DEF f, N, BuiltStep

LEMMA FromViewsIs ==
  ASSUME NEW q, NEW ids
  PROVE  FromViews(q, ids) =
           LET scan == ViewsScan(q, ids)[Len(segments)]
               kept == TopK(q, scan.kept, CHOOSE n \in ViewNeed(q) : TRUE)
           IN [kept |-> kept, shed |-> scan.shed + Len(scan.kept) - Len(kept),
               refused |-> scan.refused \/ Len(kept) > MaxRows]
BY DEF FromViews, ViewsScan, ViewsStep, ViewsJoin, Start

LEMMA FromBuiltIs ==
  ASSUME NEW q, NEW ids
  PROVE  FromBuilt(q, ids) = BuiltScan(q, ids)[Len(segments)]
BY DEF FromBuilt, BuiltScan, BuiltStep, BuiltJoin, Start

-----------------------------------------------------------------------------
\* What the scans leave.

LEMMA QueryFacts ==
  ASSUME NEW q \in Queries
  PROVE  IsClause(q) /\ IsOrder(q) /\ q.where \subseteq Predicate
           /\ q.limit \in Nat \cup {NoLimit} /\ q.offset \in Nat /\ q.having \in Nat
BY FindAssumption DEF IsClause, IsOrder

LEMMA BuiltOfIs ==
  ASSUME NEW q, NEW s
  PROVE  BuiltOf(q, s, Candidates(q)) =
           IF TrimBudget(q) # {} /\ Late(q) = {} /\ OrderTravels(q)
           THEN LET k == CHOOSE n \in TrimBudget(q) : TRUE
                IN IF Cardinality(NarrowedRows(q, s, Held(q, s))) > k * OverFetch
                   THEN [kept |-> TopK(q, Collapse(SegmentRows(q, s)), TopKKeep(k)),
                         shed |-> Max({0, Len(Collapse(SegmentRows(q, s))) - TopKKeep(k)})]
                   ELSE [kept |-> Collapse(SegmentRows(q, s)), shed |-> 0]
           ELSE [kept |-> Collapse(BuiltRows(q, s)), shed |-> 0]
BY DEF BuiltOf, SegmentRows, BuiltRows, LateAt, Held

(* The scan over built rows that sheds none.                               *)
LEMMA WholeScan ==
  ASSUME IndexOK, NEW q \in Queries, Alike(q), TrimBudget(q) = {}
  PROVE  LET scan == FromBuilt(q, Candidates(q))
         IN /\ scan.kept \in Seq(Row) /\ FirstRows(scan.kept) = OverlayMatching(q)
            /\ \A r \in Range(scan.kept) : r.path \notin DOMAIN shadow
            /\ scan.shed = 0
<1> DEFINE N == Len(segments)
<1> DEFINE f == BuiltScan(q, Candidates(q))
<1> DEFINE W == Wanted(q)
<1> DEFINE Whole(n) == /\ f[n].kept \in Seq(Row) /\ FirstRows(f[n].kept) = Layered(W, n)
                       /\ \A r \in Range(f[n].kept) : r.path \notin DOMAIN shadow
                       /\ f[n].shed = 0
<1> DEFINE S == {n \in 0..N : Whole(n)}
<1>1. N \in Nat /\ DOMAIN segments = 1..N
  BY SegmentFacts
<1>2. f[0] = Start /\ \A n \in 0..(N - 1) : f[n + 1] = BuiltJoin(q, Candidates(q), f[n], n + 1)
  BY <1>1, BuiltScanFacts
<1> HIDE DEF f, N, W
<1>3. 0 \in S
  <2>1. f[0].kept = <<>> /\ f[0].shed = 0
    BY <1>2 DEF Start
  <2>2. <<>> \in Seq(Row) /\ DOMAIN <<>> = {}
    BY EmptySeq
  <2>3. FirstRows(<<>>) = {} /\ Range(<<>>) = {}
    BY <2>2 DEF FirstRows, Firsts, Range
  <2>4. Layered(W, 0) = {}
    BY LayeredStart
  <2>5. 0 \in 0..N
    BY <1>1
  <2> QED BY <2>1, <2>2, <2>3, <2>4, <2>5
<1>4. ASSUME NEW n \in 0..(N - 1), n \in S PROVE n + 1 \in S
  <2>0. n \in Nat /\ n + 1 \in 0..N /\ n + 1 \in DOMAIN segments
    BY <1>1
  <2> DEFINE s == n + 1
  <2> DEFINE a == f[n].kept
  <2> DEFINE b == Collapse(BuiltRows(q, s))
  <2>1. Whole(n)
    BY <1>4
  <2>2. BuiltOf(q, s, Candidates(q)) = [kept |-> b, shed |-> 0]
    BY BuiltOfIs
  <2>3. f[s].kept = a \o b /\ f[s].shed = 0
    <3>1. f[s] = BuiltJoin(q, Candidates(q), f[n], s)
      BY <1>2
    <3>2. BuiltJoin(q, Candidates(q), f[n], s).kept = a \o b
            /\ BuiltJoin(q, Candidates(q), f[n], s).shed = f[n].shed + 0
      <4> HIDE DEF b, s
      <4> QED BY <2>2 DEF BuiltJoin
    <3>3. f[n].shed = 0
      BY <2>1
    <3>4. f[n].shed + 0 = 0
      BY <3>3
    <3> HIDE DEF a, b, s, Whole
    <3> QED BY <3>1, <3>2, <3>4
  <2>4. BuiltRows(q, s) \in Seq(Row) /\ FirstRows(BuiltRows(q, s)) = W[s]
    <3> HIDE DEF s
    <3>1. s \in DOMAIN segments
      BY <2>0 DEF s
    <3> QED BY <3>1, SegmentScan DEF W
  <2>5. b \in Seq(Row) /\ Range(b) = W[s] /\ FirstRows(b) = W[s]
    BY <2>4, CollapseFacts, DistinctFacts
  <2>6. \A r \in W[s] : r.path \notin DOMAIN shadow
    BY <2>0, WantedFacts DEF W
  <2> HIDE DEF a, b, Whole
  <2>7. a \in Seq(Row) /\ FirstRows(a) = Layered(W, n) /\ \A r \in Range(a) : r.path \notin DOMAIN shadow
    BY <2>1 DEF Whole, a
  <2>8. FirstRows(a \o b) = Layered(W, n) \cup {r \in W[s] : \A x \in Layered(W, n) : ~SameRow(x, r)}
    BY <2>5, <2>7, ConcatFirsts
  <2>9. FirstRows(a \o b) = Layered(W, s)
    BY <2>0, <2>8, LayeredStep
  <2>10. a \o b \in Seq(Row) /\ Range(a \o b) = Range(a) \cup Range(b)
    BY <2>5, <2>7, ConcatFacts
  <2>11. Whole(s)
    BY <2>3, <2>5, <2>6, <2>7, <2>9, <2>10 DEF Whole
  <2> QED BY <2>0, <2>11
<1>5. Whole(N)
  <2> HIDE DEF S
  <2>1. \A n \in 0..N : n \in S
    BY <1>1, <1>3, <1>4, UpTo
  <2>2. N \in S
    BY <1>1, <2>1
  <2> QED BY <2>2 DEF S
<1>6. FromBuilt(q, Candidates(q)) = f[N]
  BY FromBuiltIs DEF f, N
<1> QED BY <1>5, <1>6 DEF OverlayMatching, W, N

LEMMA WantedApart ==
  ASSUME IndexOK, NEW q, ~HasDuplicatePaths, NEW n \in Nat, n + 1 \in DOMAIN segments
  PROVE  /\ \A x \in Layered(Wanted(q), n) : \A y \in Wanted(q)[n + 1] : ~SameRow(x, y)
         /\ Layered(Wanted(q), n + 1) = Layered(Wanted(q), n) \cup Wanted(q)[n + 1]
<1> DEFINE W == Wanted(q)
<1>1. ASSUME NEW x \in Layered(W, n), NEW y \in W[n + 1] PROVE ~SameRow(x, y)
  <2>1. PICK s \in 1..n : x \in W[s]
    BY DEF Layered
  <2>2. s \in DOMAIN segments /\ s # n + 1
    BY SegmentFacts
  <2>3. x.path = segments[s].path /\ y.path = segments[n + 1].path
    BY <2>1, <2>2, WantedFacts
  <2>4. x.path # y.path
    BY <2>2, <2>3 DEF HasDuplicatePaths
  <2> QED BY <2>4, SameRowIs
<1> HIDE DEF W
<1>2. Layered(W, n + 1) = Layered(W, n) \cup {r \in W[n + 1] : \A x \in Layered(W, n) : ~SameRow(x, r)}
  BY LayeredStep
<1>3. {r \in W[n + 1] : \A x \in Layered(W, n) : ~SameRow(x, r)} = W[n + 1]
  BY <1>1
<1> QED BY <1>1, <1>2, <1>3 DEF W

LEMMA OverlayRows ==
  ASSUME IndexOK, NEW q, NEW n \in 0..Len(segments)
  PROVE  /\ Layered(Wanted(q), n) \subseteq Row /\ IsFiniteSet(Layered(Wanted(q), n))
         /\ \A r \in Layered(Wanted(q), n) : r.path \notin DOMAIN shadow
<1>1. Live \in Seq(Row) /\ Len(segments) \in Nat /\ DOMAIN segments = 1..Len(segments)
  BY LiveFacts, SegmentFacts
<1>2. ASSUME NEW r \in Layered(Wanted(q), n)
      PROVE  r \in Row /\ r.path \notin DOMAIN shadow /\ r \in Range(Live)
  <2>1. PICK s \in 1..n : r \in Wanted(q)[s]
    BY DEF Layered
  <2>2. s \in DOMAIN segments
    BY <1>1
  <2> QED BY <2>1, <2>2, WantedFacts
<1>3. IsFiniteSet(Range(Live))
  BY <1>1, RangeFinite
<1>4. Layered(Wanted(q), n) \subseteq Range(Live)
  BY <1>2
<1>5. IsFiniteSet(Layered(Wanted(q), n))
  BY <1>3, <1>4, FS_Subset
<1> QED BY <1>2, <1>5

LEMMA NeedFacts ==
  ASSUME NEW q \in Queries
  PROVE  /\ ViewNeed(q) # {} => /\ q.group = "none" /\ q.having = 0 /\ ~HasDuplicatePaths
                                /\ q.limit \in Nat /\ q.limit # NoLimit
                                /\ (CHOOSE n \in ViewNeed(q) : TRUE) = q.limit + q.offset
         /\ TrimBudget(q) # {} => /\ q.group = "none" /\ q.having = 0 /\ ~HasDuplicatePaths
                                  /\ q.limit \in Nat /\ q.limit # NoLimit /\ q.offset = 0
                                  /\ (CHOOSE n \in TrimBudget(q) : TRUE) = q.limit
<1>1. q.limit \in Nat \cup {NoLimit} /\ q.offset \in Nat
  BY QueryFacts
<1>2. ASSUME ViewNeed(q) # {}
      PROVE  /\ q.group = "none" /\ q.having = 0 /\ ~HasDuplicatePaths /\ q.limit # NoLimit
             /\ ViewNeed(q) = {q.limit + q.offset}
  BY <1>2 DEF ViewNeed
<1>3. TopKThreshold \in Nat
  BY FindAssumption
<1>4. ASSUME TrimBudget(q) # {}
      PROVE  /\ q.group = "none" /\ q.having = 0 /\ ~HasDuplicatePaths /\ q.offset = 0
             /\ q.limit \in 0..TopKThreshold /\ TrimBudget(q) = {q.limit}
  BY <1>4 DEF TrimBudget
<1>5. NoLimit \notin Nat
  BY DEF NoLimit
<1> QED BY <1>1, <1>2, <1>3, <1>4, <1>5

(* A segment's rows on top of what the scan has kept.                      *)
LEMMA ShedJoin ==
  ASSUME IndexOK, NEW q \in Queries, ~HasDuplicatePaths, NEW k \in Nat,
         NEW n \in 0..(Len(segments) - 1),
         NEW a, NEW s1, Kept(q, a, s1, Layered(Wanted(q), n), k),
         NEW b, NEW s2, Kept(q, b, s2, Wanted(q)[n + 1], k)
  PROVE  LET cut == Shed(q, a \o b, s1 + s2, k)
         IN Kept(q, cut.kept, cut.shed, Layered(Wanted(q), n + 1), k)
<1> DEFINE M == Layered(Wanted(q), n)
<1> DEFINE W == Wanted(q)[n + 1]
<1>1. n \in Nat /\ n \in 0..Len(segments) /\ n + 1 \in DOMAIN segments /\ n + 1 \in 0..Len(segments)
  BY SegmentFacts
<1>2. /\ \A x \in M : \A y \in W : ~SameRow(x, y)
      /\ Layered(Wanted(q), n + 1) = M \cup W
  BY <1>1, WantedApart
<1>3. IsFiniteSet(M) /\ IsFiniteSet(M \cup W) /\ M \cup W \subseteq Row
  BY <1>1, <1>2, OverlayRows
<1>4. IsFiniteSet(W)
  <2> HIDE DEF M, W
  <2> QED BY <1>3, FS_Subset
<1> HIDE DEF M, W
<1>5. Kept(q, a, s1, M, k) /\ Kept(q, b, s2, W, k)
  BY DEF M, W
<1>6. Kept(q, a \o b, s1 + s2, M \cup W, k)
  BY <1>2, <1>3, <1>4, <1>5, KeptJoin
<1>7. IsOrder(q)
  BY QueryFacts
<1> DEFINE cut == Shed(q, a \o b, s1 + s2, k)
<1>8. Kept(q, cut.kept, cut.shed, M \cup W, k)
  BY <1>3, <1>6, <1>7, KeptShed
<1> QED BY <1>2, <1>8

LEMMA KeptNothing ==
  ASSUME NEW q, NEW k
  PROVE  Kept(q, <<>>, 0, Layered(Wanted(q), 0), k)
<1>1. <<>> \in Seq(Row) /\ DOMAIN <<>> = {}
  BY EmptySeq
<1>2. Distinct(<<>>) /\ Range(<<>>) = {}
  BY <1>1 DEF Distinct, Range
<1>3. Kept(q, <<>>, 0, {}, k)
  BY <1>1, <1>2, KeptAll
<1> QED BY <1>3, LayeredStart

LEMMA ShedViews ==
  ASSUME IndexOK, NEW q \in Queries, Alike(q), ViewNeed(q) # {}, Late(q) = {} \/ Candidates(q) = {}
  PROVE  LET scan == FromViews(q, Candidates(q))
         IN Kept(q, scan.kept, scan.shed, OverlayMatching(q), q.limit + q.offset)
<1> DEFINE N == Len(segments)
<1> DEFINE f == ViewsScan(q, Candidates(q))
<1> DEFINE k == q.limit + q.offset
<1> DEFINE Fine(n) == Kept(q, f[n].kept, f[n].shed, Layered(Wanted(q), n), k)
<1> DEFINE S == {n \in 0..N : Fine(n)}
<1>1. N \in Nat /\ DOMAIN segments = 1..N
  BY SegmentFacts
<1>2. f[0] = Start /\ \A n \in 0..(N - 1) : f[n + 1] = ViewsJoin(q, Candidates(q), f[n], n + 1)
  BY <1>1, ViewsScanFacts
<1>3. k \in Nat /\ ~HasDuplicatePaths /\ (CHOOSE n \in ViewNeed(q) : TRUE) = k
  BY NeedFacts, QueryFacts
<1> HIDE DEF f, N, k
<1>4. 0 \in S
  <2>1. f[0].kept = <<>> /\ f[0].shed = 0
    BY <1>2 DEF Start
  <2>2. Fine(0)
    BY <2>1, KeptNothing
  <2> QED BY <1>1, <2>2
<1>5. ASSUME NEW n \in 0..(N - 1), n \in S PROVE n + 1 \in S
  <2>0. n + 1 \in 0..N /\ n + 1 \in DOMAIN segments
    BY <1>1
  <2> DEFINE s == n + 1
  <2> DEFINE a == f[n].kept
  <2> DEFINE b == Collapse(SegmentRows(q, s))
  <2> DEFINE cut == Shed(q, a \o b, f[n].shed + 0, k)
  <2>1. Kept(q, a, f[n].shed, Layered(Wanted(q), n), k)
    BY <1>5
  <2>2. f[s].kept = cut.kept /\ f[s].shed = cut.shed
    <3>1. f[s] = ViewsJoin(q, Candidates(q), f[n], s)
      BY <1>2
    <3>2. f[n].shed + 0 = f[n].shed
      BY <2>1 DEF Kept
    <3> HIDE DEF s
    <3> DEFINE c == Shed(q, a \o b, f[n].shed, CHOOSE m \in ViewNeed(q) : TRUE)
    <3>3. ViewsJoin(q, Candidates(q), f[n], s) =
            [kept |-> c.kept, shed |-> c.shed, refused |-> f[n].refused \/ Len(c.kept) > MaxViews]
      BY DEF ViewsJoin, SegmentRows, Held
    <3>4. c = cut
      <4> HIDE DEF a, b
      <4> QED BY <1>3, <3>2
    <3> HIDE DEF c, cut
    <3> QED BY <3>1, <3>3, <3>4
  <2>3. Kept(q, b, 0, Wanted(q)[s], k)
    <3> HIDE DEF s
    <3>1. s \in DOMAIN segments
      BY <2>0 DEF s
    <3>2. SegmentRows(q, s) \in Seq(Row) /\ FirstRows(SegmentRows(q, s)) = Wanted(q)[s]
      BY <3>1, SegmentScan
    <3>3. b \in Seq(Row) /\ Distinct(b) /\ Range(b) = Wanted(q)[s]
      BY <3>2, CollapseFacts
    <3> HIDE DEF b
    <3> QED BY <3>3, KeptAll
  <2> HIDE DEF a, b
  <2>4. Kept(q, cut.kept, cut.shed, Layered(Wanted(q), s), k)
    BY <1>3, <2>1, <2>3, ShedJoin DEF N
  <2> HIDE DEF cut
  <2> QED BY <2>0, <2>2, <2>4
<1>6. Fine(N)
  <2> HIDE DEF S
  <2>1. \A n \in 0..N : n \in S
    BY <1>1, <1>4, <1>5, UpTo
  <2>2. N \in S
    BY <1>1, <2>1
  <2> QED BY <2>2 DEF S
<1> DEFINE T == TopK(q, f[N].kept, k)
<1>7. FromViews(q, Candidates(q)).kept = T
        /\ FromViews(q, Candidates(q)).shed = f[N].shed + Len(f[N].kept) - Len(T)
  <2>1. FromViews(q, Candidates(q)) =
          LET kept == TopK(q, f[N].kept, CHOOSE n \in ViewNeed(q) : TRUE)
          IN [kept |-> kept, shed |-> f[N].shed + Len(f[N].kept) - Len(kept),
              refused |-> f[N].refused \/ Len(kept) > MaxRows]
    BY FromViewsIs DEF f, N
  <2> DEFINE c == CHOOSE n \in ViewNeed(q) : TRUE
  <2> DEFINE K == TopK(q, f[N].kept, c)
  <2>2. FromViews(q, Candidates(q)) = [kept |-> K, shed |-> f[N].shed + Len(f[N].kept) - Len(K),
                                       refused |-> f[N].refused \/ Len(K) > MaxRows]
    BY <2>1
  <2>3. K = T
    BY <1>3
  <2> HIDE DEF K, T
  <2> QED BY <2>2, <2>3
<1>8. Layered(Wanted(q), N) \subseteq Row /\ IsOrder(q)
  BY <1>1, OverlayRows, QueryFacts DEF N
<1>9. Kept(q, T, f[N].shed + Len(f[N].kept) - Len(T), Layered(Wanted(q), N), k)
  <2>1. k >= k
    BY <1>3
  <2>2. Kept(q, f[N].kept, f[N].shed, Layered(Wanted(q), N), k)
    BY <1>6
  <2> HIDE DEF Fine
  <2>3. PICK n, M, K, s : n = k /\ M = Layered(Wanted(q), N) /\ K = f[N].kept /\ s = f[N].shed
    OBVIOUS
  <2>4. Kept(q, K, s, M, k) /\ M \subseteq Row /\ n \in Nat /\ n >= k
    BY <1>3, <1>8, <2>1, <2>2, <2>3
  <2> DEFINE U == TopK(q, K, n)
  <2>5. Kept(q, U, s + Len(K) - Len(U), M, k)
    BY <1>3, <1>8, <2>4, KeptTrim
  <2>6. U = T
    BY <2>3
  <2> HIDE DEF U, T
  <2> QED BY <2>3, <2>5, <2>6
<1> HIDE DEF T
<1> QED BY <1>7, <1>9 DEF OverlayMatching, N, k

LEMMA ShedBuilt ==
  ASSUME IndexOK, NEW q \in Queries, Alike(q), TrimBudget(q) # {}
  PROVE  LET scan == FromBuilt(q, Candidates(q))
         IN Kept(q, scan.kept, scan.shed, OverlayMatching(q), q.limit)
<1> DEFINE N == Len(segments)
<1> DEFINE f == BuiltScan(q, Candidates(q))
<1> DEFINE k == q.limit
<1> DEFINE Fine(n) == Kept(q, f[n].kept, f[n].shed, Layered(Wanted(q), n), k)
<1> DEFINE S == {n \in 0..N : Fine(n)}
<1>1. N \in Nat /\ DOMAIN segments = 1..N
  BY SegmentFacts
<1>2. f[0] = Start /\ \A n \in 0..(N - 1) : f[n + 1] = BuiltJoin(q, Candidates(q), f[n], n + 1)
  BY <1>1, BuiltScanFacts
<1>3. k \in Nat /\ ~HasDuplicatePaths /\ (CHOOSE n \in TrimBudget(q) : TRUE) = k
  BY NeedFacts
<1> HIDE DEF f, N, k
<1>4. 0 \in S
  <2>1. f[0].kept = <<>> /\ f[0].shed = 0
    BY <1>2 DEF Start
  <2>2. Fine(0)
    BY <2>1, KeptNothing
  <2> QED BY <1>1, <2>2
<1>5. ASSUME NEW n \in 0..(N - 1), n \in S PROVE n + 1 \in S
  <2>0. n + 1 \in 0..N /\ n + 1 \in DOMAIN segments
    BY <1>1
  <2> DEFINE s == n + 1
  <2> DEFINE a == f[n].kept
  <2> DEFINE own == BuiltOf(q, s, Candidates(q))
  <2> DEFINE cut == Shed(q, a \o own.kept, f[n].shed + own.shed, k)
  <2>1. Kept(q, a, f[n].shed, Layered(Wanted(q), n), k)
    BY <1>5
  <2>2. f[s].kept = cut.kept /\ f[s].shed = cut.shed
    <3>1. f[s] = BuiltJoin(q, Candidates(q), f[n], s)
      BY <1>2
    <3> DEFINE c == Shed(q, a \o own.kept, f[n].shed + own.shed, CHOOSE m \in TrimBudget(q) : TRUE)
    <3>2. BuiltJoin(q, Candidates(q), f[n], s) =
            [kept |-> c.kept, shed |-> c.shed, refused |-> f[n].refused \/ Len(c.kept) > MaxRows]
      <4> HIDE DEF s
      <4> QED BY DEF BuiltJoin
    <3>3. c = cut
      <4> HIDE DEF a, own
      <4> QED BY <1>3
    <3> HIDE DEF c, cut
    <3> QED BY <3>1, <3>2, <3>3
  <2>3. Kept(q, own.kept, own.shed, Wanted(q)[s], k)
    <3> DEFINE R == SegmentRows(q, s)
    <3> DEFINE B == BuiltRows(q, s)
    <3> HIDE DEF s
    <3>1. s \in DOMAIN segments
      BY <2>0 DEF s
    <3>2. /\ R \in Seq(Row) /\ B \in Seq(Row) /\ FirstRows(B) = Wanted(q)[s]
          /\ Late(q) = {} => FirstRows(R) = Wanted(q)[s]
      BY <3>1, SegmentScan
    <3> HIDE DEF R, B
    <3>3. Kept(q, Collapse(B), 0, Wanted(q)[s], k)
      <4>1. Collapse(B) \in Seq(Row) /\ Distinct(Collapse(B)) /\ Range(Collapse(B)) = Wanted(q)[s]
        BY <3>2, CollapseFacts
      <4> QED BY <4>1, KeptAll
    <3>4. Late(q) = {} => Kept(q, Collapse(R), 0, Wanted(q)[s], k)
      <4> SUFFICES ASSUME Late(q) = {} PROVE Kept(q, Collapse(R), 0, Wanted(q)[s], k)
        OBVIOUS
      <4>1. Collapse(R) \in Seq(Row) /\ Distinct(Collapse(R)) /\ Range(Collapse(R)) = Wanted(q)[s]
        BY <3>2, CollapseFacts
      <4> QED BY <4>1, KeptAll
    <3> DEFINE T == TopK(q, Collapse(R), TopKKeep(k))
    <3> DEFINE cutoff == Max({0, Len(Collapse(R)) - TopKKeep(k)})
    <3>5. Late(q) = {} => Kept(q, T, cutoff, Wanted(q)[s], k)
      <4> SUFFICES ASSUME Late(q) = {} PROVE Kept(q, T, cutoff, Wanted(q)[s], k)
        OBVIOUS
      <4>1. TopKKeep(k) \in Nat /\ TopKKeep(k) >= k
        BY <1>3, KeepFacts
      <4>2. Wanted(q)[s] \subseteq Row /\ IsOrder(q)
        BY <3>1, WantedFacts, QueryFacts
      <4>3. /\ Kept(q, T, 0 + Len(Collapse(R)) - Len(T), Wanted(q)[s], k)
            /\ Len(T) = IF TopKKeep(k) <= Len(Collapse(R)) THEN TopKKeep(k) ELSE Len(Collapse(R))
        <5>1. Kept(q, Collapse(R), 0, Wanted(q)[s], k)
          BY <3>4
        <5>2. PICK e, M, K, z : /\ e = TopKKeep(k) /\ M = Wanted(q)[s] /\ K = Collapse(R)
                                /\ z = 0
          OBVIOUS
        <5>3. Kept(q, K, z, M, k) /\ M \subseteq Row /\ e \in Nat /\ e >= k
          BY <4>1, <4>2, <5>1, <5>2
        <5> DEFINE U == TopK(q, K, e)
        <5>4. /\ Kept(q, U, z + Len(K) - Len(U), M, k)
              /\ Len(U) = IF e <= Len(K) THEN e ELSE Len(K)
          BY <1>3, <4>2, <5>3, KeptTrim
        <5>5. U = T
          BY <5>2
        <5> HIDE DEF U, T
        <5> QED BY <5>2, <5>4, <5>5
      <4>4. Len(Collapse(R)) \in Nat
        BY <3>4 DEF Kept
      <4>5. cutoff = IF 0 >= Len(Collapse(R)) - TopKKeep(k) THEN 0 ELSE Len(Collapse(R)) - TopKKeep(k)
        <5>1. PICK z \in Int, d \in Int : z = 0 /\ d = Len(Collapse(R)) - TopKKeep(k)
          BY <4>1, <4>4
        <5>2. Max({z, d}) = IF z >= d THEN z ELSE d
          BY <5>1, TwoNumbers
        <5> QED BY <5>1, <5>2
      <4> HIDE DEF T, cutoff
      <4>6. cutoff = 0 + Len(Collapse(R)) - Len(T)
        BY <4>1, <4>3, <4>4, <4>5
      <4> QED BY <4>3, <4>6
    <3>6. \/ own = [kept |-> T, shed |-> cutoff] /\ Late(q) = {}
          \/ own = [kept |-> Collapse(R), shed |-> 0] /\ Late(q) = {}
          \/ own = [kept |-> Collapse(B), shed |-> 0]
      BY <1>3, BuiltOfIs DEF R, B
    <3> HIDE DEF T, cutoff, own
    <3> QED BY <3>3, <3>4, <3>5, <3>6
  <2> HIDE DEF a, own
  <2>4. Kept(q, cut.kept, cut.shed, Layered(Wanted(q), s), k)
    BY <1>3, <2>1, <2>3, ShedJoin DEF N
  <2> HIDE DEF cut
  <2> QED BY <2>0, <2>2, <2>4
<1>6. Fine(N)
  <2> HIDE DEF S
  <2>1. \A n \in 0..N : n \in S
    BY <1>1, <1>4, <1>5, UpTo
  <2>2. N \in S
    BY <1>1, <2>1
  <2> QED BY <2>2 DEF S
<1>7. FromBuilt(q, Candidates(q)) = f[N]
  BY FromBuiltIs DEF f, N
<1> QED BY <1>6, <1>7 DEF OverlayMatching, N, k

(* Abbreviations of the lemmas below: the dirty rows D on top of those a   *)
(* scan kept of O.                                                         *)
Apart(A, B) == A \cap B = {}
Parts(O, D) == IsFiniteSet(O) /\ IsFiniteSet(D) /\ Apart(O, D)
Joins(P, kept, D) == P \in Seq(Row) /\ Distinct(P) /\ Range(P) = Range(kept) \cup D
Counts(P, shed, M) == shed \in Nat /\ shed = Cardinality(M) - Len(P)

(* The dirty rows on top of what a scan has kept.                          *)
LEMMA JoinedCover ==
  ASSUME NEW q, NEW O, NEW D, Parts(O, D), NEW k,
         NEW kept, NEW shed, Kept(q, kept, shed, O, k), NEW P, Joins(P, kept, D)
  PROVE  /\ Covers(q, Range(P), O \cup D, k) /\ Range(P) \subseteq O \cup D
         /\ Counts(P, shed, O \cup D)
<1>0. /\ IsFiniteSet(O) /\ IsFiniteSet(D) /\ Apart(O, D)
      /\ P \in Seq(Row) /\ Distinct(P) /\ Range(P) = Range(kept) \cup D
  BY DEF Parts, Joins
<1>1. /\ kept \in Seq(Row) /\ Distinct(kept) /\ Range(kept) \subseteq O /\ Covers(q, Range(kept), O, k)
      /\ shed \in Nat /\ Len(kept) + shed = Cardinality(O)
  BY DEF Kept
<1>2. IsFiniteSet(Range(kept)) /\ Cardinality(Range(kept)) = Len(kept)
  BY <1>1, DistinctFacts
<1>3. Cardinality(Range(P)) = Len(P)
  BY <1>0, DistinctFacts
<1> DEFINE K == Range(kept)
<1> HIDE DEF K
<1>4. K \subseteq O /\ IsFiniteSet(K) /\ Apart(K, D) /\ K \cup D = Range(P) /\ Cardinality(K) = Len(kept)
  BY <1>0, <1>1, <1>2 DEF K, Apart
<1>5. Cardinality({}) = 0
  BY FS_EmptySet
<1>6. Cardinality(O \cup D) = Cardinality(O) + Cardinality(D) - 0
  <2> DEFINE I == O \cap D
  <2>1. Cardinality(O \cup D) = Cardinality(O) + Cardinality(D) - Cardinality(I)
    BY <1>0, FS_Union
  <2>2. I = {}
    BY <1>0 DEF Apart
  <2> HIDE DEF I
  <2> QED BY <1>5, <2>1, <2>2
<1>7. Cardinality(K \cup D) = Cardinality(K) + Cardinality(D) - 0
  <2> DEFINE I == K \cap D
  <2>1. Cardinality(K \cup D) = Cardinality(K) + Cardinality(D) - Cardinality(I)
    BY <1>0, <1>4, FS_Union
  <2>2. I = {}
    BY <1>4 DEF Apart
  <2> HIDE DEF I
  <2> QED BY <1>5, <2>1, <2>2
<1>8. Cardinality(O) \in Nat /\ Cardinality(D) \in Nat /\ Len(kept) \in Nat
  BY <1>0, <1>1, FS_CardinalityType
<1>9. shed = Cardinality(O \cup D) - Len(P)
  <2>1. Cardinality(O \cup D) = Cardinality(O) + Cardinality(D)
    BY <1>6, <1>8
  <2>2. Cardinality(K \cup D) = Len(kept) + Cardinality(D)
    BY <1>4, <1>7, <1>8
  <2>3. Len(P) = Len(kept) + Cardinality(D)
    BY <1>3, <1>4, <2>2
  <2>4. Len(kept) + shed = Cardinality(O) /\ shed \in Nat
    BY <1>1
  <2> QED BY <1>8, <2>1, <2>3, <2>4
<1>10. Covers(q, K \cup D, O \cup D, k)
  <2>1. Covers(q, K, O, k)
    BY <1>1 DEF K
  <2> SUFFICES ASSUME NEW m \in (O \cup D) \ (K \cup D)
               PROVE  \E A \in SUBSET (K \cup D) : /\ IsFiniteSet(A) /\ Cardinality(A) >= k
                                                   /\ \A a \in A : Before(q, a, m)
    BY DEF Covers
  <2>2. m \in O \ K
    OBVIOUS
  <2>3. PICK A \in SUBSET K : IsFiniteSet(A) /\ Cardinality(A) >= k /\ \A a \in A : Before(q, a, m)
    BY <2>1, <2>2 DEF Covers
  <2> QED BY <2>3
<1> QED BY <1>1, <1>4, <1>9, <1>10 DEF Counts

LEMMA MatchingParts ==
  ASSUME IndexOK, NEW q, Alike(q)
  PROVE  /\ Apart(OverlayMatching(q), DirtyMatching(q))
         /\ IsFiniteSet(OverlayMatching(q)) /\ IsFiniteSet(DirtyMatching(q))
         /\ OverlayMatching(q) \subseteq Good(q) /\ DirtyMatching(q) \subseteq Good(q)
         /\ OverlayMatching(q) \subseteq Row
<1> DEFINE O == OverlayMatching(q)
<1> DEFINE D == DirtyMatching(q)
<1> DEFINE M == MatchingOf(q)
<1>1. M \subseteq Row /\ M \subseteq Good(q) /\ IsFiniteSet(M)
  BY MatchingIs
<1>2. M = O \cup D
  BY DEF MatchingOf
<1>3. \A r \in O : r.path \notin DOMAIN shadow
  <2>1. Len(segments) \in 0..Len(segments)
    BY SegmentFacts
  <2> QED BY <2>1, OverlayRows DEF OverlayMatching
<1>4. \A r \in D : r.path \in DOMAIN shadow
  <2>1. \A d \in 1..Len(DirtyFiles) : \A r \in DirtyWanted(q)[d] : r.path \in DOMAIN shadow
    BY WantedFacts, DirtyFacts
  <2> QED BY <2>1 DEF DirtyMatching, Layered
<1> HIDE DEF O, D, M
<1>5. IsFiniteSet(O) /\ IsFiniteSet(D) /\ O \subseteq Good(q) /\ D \subseteq Good(q) /\ O \subseteq Row
  BY <1>1, <1>2, FS_Subset
<1>6. Apart(O, D)
  BY <1>3, <1>4 DEF Apart
<1> QED BY <1>5, <1>6 DEF O, D

-----------------------------------------------------------------------------
\* What a scan leaves for the page.

(* The scan the query takes, and the rows it leaves.                       *)
ScanOf(q) == IF TravelsAsViews(q) THEN FromViews(q, Candidates(q)) ELSE FromBuilt(q, Candidates(q))
ScannedRows(q) == Passing(q, Collapse(ScanOf(q).kept \o DirtyRows(q)))

(* The rows of P are all that match, or it lacks shed of them, none of     *)
(* which the page of the query could show.                                 *)
Suffices(q, P, shed) ==
  /\ P \in Seq(Row) /\ Distinct(P) /\ Range(P) \subseteq MatchingOf(q)
  /\ \/ Range(P) = MatchingOf(q) /\ shed = 0
     \/ /\ q.group = "none" /\ q.having = 0 /\ q.limit # NoLimit
        /\ Covers(q, Range(P), MatchingOf(q), q.limit + q.offset)
        /\ shed \in Nat /\ shed = Cardinality(MatchingOf(q)) - Len(P)

LEMMA CutSuffices ==
  ASSUME IndexOK, NEW q \in Queries, Alike(q), q.group = "none", q.having = 0, q.limit # NoLimit,
         NEW kept, NEW shed, Kept(q, kept, shed, OverlayMatching(q), q.limit + q.offset)
  PROVE  Suffices(q, Passing(q, Collapse(kept \o DirtyRows(q))), shed)
<1> DEFINE O == OverlayMatching(q)
<1> DEFINE D == DirtyMatching(q)
<1> DEFINE P == Passing(q, Collapse(kept \o DirtyRows(q)))
<1> DEFINE k == q.limit + q.offset
<1>1. kept \in Seq(Row) /\ Distinct(kept) /\ Range(kept) \subseteq O
  BY DEF Kept
<1>2. /\ Apart(O, D) /\ IsFiniteSet(O) /\ IsFiniteSet(D) /\ O \subseteq Good(q)
  BY MatchingParts
<1>3. \A r \in Range(kept) : r.path \notin DOMAIN shadow
  <2>1. Len(segments) \in 0..Len(segments)
    BY SegmentFacts
  <2>2. \A r \in O : r.path \notin DOMAIN shadow
    BY <2>1, OverlayRows DEF OverlayMatching
  <2> QED BY <1>1, <2>2
<1>4. FirstRows(kept) = Range(kept)
  BY <1>1, DistinctFacts
<1>5. Kept(q, kept, shed, O, k)
  OBVIOUS
<1>6. P \in Seq(Row) /\ Distinct(P) /\ Range(P) = (FirstRows(kept) \cap Good(q)) \cup D
  BY <1>1, <1>3, Collected
<1>7. MatchingOf(q) = O \cup D
  BY DEF MatchingOf
<1> HIDE DEF O, D, P, k
<1>8. Range(P) = Range(kept) \cup D
  BY <1>1, <1>2, <1>4, <1>6
<1>9. /\ Covers(q, Range(P), O \cup D, k) /\ Range(P) \subseteq O \cup D
      /\ Counts(P, shed, O \cup D)
  <2>1. Parts(O, D)
    BY <1>2 DEF Parts
  <2>2. Joins(P, kept, D)
    BY <1>6, <1>8 DEF Joins
  <2> QED BY <1>5, <2>1, <2>2, JoinedCover
<1>10. Suffices(q, P, shed)
  <2>1. shed \in Nat /\ shed = Cardinality(O \cup D) - Len(P)
    BY <1>9 DEF Counts
  <2> QED BY <1>6, <1>7, <1>9, <2>1 DEF Suffices, k
<1> QED BY <1>10 DEF P

LEMMA ScanSuffices ==
  ASSUME IndexOK, NEW q \in Queries, Alike(q)
  PROVE  Suffices(q, ScannedRows(q), ScanOf(q).shed)
<1>1. CASE TravelsAsViews(q)
  <2>1. ScanOf(q) = FromViews(q, Candidates(q))
    BY <1>1 DEF ScanOf
  <2> DEFINE scan == FromViews(q, Candidates(q))
  <2>2. ViewNeed(q) # {} /\ (Late(q) = {} \/ Candidates(q) = {})
    BY <1>1 DEF TravelsAsViews
  <2>3. Kept(q, scan.kept, scan.shed, OverlayMatching(q), q.limit + q.offset)
    BY <2>2, ShedViews
  <2>4. q.group = "none" /\ q.having = 0 /\ q.limit # NoLimit
    BY <2>2, NeedFacts
  <2> HIDE DEF scan
  <2>5. Suffices(q, Passing(q, Collapse(scan.kept \o DirtyRows(q))), scan.shed)
    BY <2>3, <2>4, CutSuffices
  <2> QED BY <2>1, <2>5 DEF ScannedRows, scan
<1>2. CASE ~TravelsAsViews(q) /\ TrimBudget(q) # {}
  <2>1. ScanOf(q) = FromBuilt(q, Candidates(q))
    BY <1>2 DEF ScanOf
  <2> DEFINE scan == FromBuilt(q, Candidates(q))
  <2>2. Kept(q, scan.kept, scan.shed, OverlayMatching(q), q.limit)
    BY <1>2, ShedBuilt
  <2>3. q.group = "none" /\ q.having = 0 /\ q.limit # NoLimit /\ q.limit \in Nat /\ q.offset = 0
    BY <1>2, NeedFacts
  <2> HIDE DEF scan
  <2>4. Kept(q, scan.kept, scan.shed, OverlayMatching(q), q.limit + q.offset)
    BY <2>2, <2>3
  <2>5. Suffices(q, Passing(q, Collapse(scan.kept \o DirtyRows(q))), scan.shed)
    BY <2>3, <2>4, CutSuffices
  <2> QED BY <2>1, <2>5 DEF ScannedRows, scan
<1>3. CASE ~TravelsAsViews(q) /\ TrimBudget(q) = {}
  <2>1. ScanOf(q) = FromBuilt(q, Candidates(q))
    BY <1>3 DEF ScanOf
  <2> DEFINE kept == FromBuilt(q, Candidates(q)).kept
  <2>2. /\ kept \in Seq(Row) /\ FirstRows(kept) = OverlayMatching(q)
        /\ \A r \in Range(kept) : r.path \notin DOMAIN shadow
        /\ ScanOf(q).shed = 0 /\ ScannedRows(q) = Passing(q, Collapse(kept \o DirtyRows(q)))
    BY <1>3, <2>1, WholeScan DEF ScannedRows
  <2> HIDE DEF kept
  <2> DEFINE P == Passing(q, Collapse(kept \o DirtyRows(q)))
  <2>3. P \in Seq(Row) /\ Distinct(P) /\ Range(P) = (FirstRows(kept) \cap Good(q)) \cup DirtyMatching(q)
    BY <2>2, Collected
  <2>4. OverlayMatching(q) \subseteq Good(q)
    BY MatchingParts
  <2>5. Range(P) = MatchingOf(q)
    BY <2>2, <2>3, <2>4 DEF MatchingOf
  <2>6. Suffices(q, P, 0)
    BY <2>3, <2>5 DEF Suffices
  <2> QED BY <2>2, <2>6
<1> QED BY <1>1, <1>2, <1>3

LEMMA FinishedIs ==
  ASSUME NEW q, ~Finished(q, ScanOf(q)).refused
  PROVE  Finished(q, ScanOf(q)) = Paged(q, Grouped(q, ScannedRows(q)), ScanOf(q).shed)
BY DEF Finished, Refusal, ScannedRows

(* The page of rows without GROUP BY.                                      *)
LEMMA SufficesExact ==
  ASSUME IndexOK, NEW q \in Queries, Alike(q), NEW P, NEW shed, Suffices(q, P, shed)
  PROVE  LET page == Paged(q, P, shed)
             all == IF q.having = 0 THEN MatchingOf(q) ELSE {}
         IN ExactPage(q, all, page.rows) /\ page.total = Cardinality(all)
<1> DEFINE M == MatchingOf(q)
<1>1. M \subseteq Row /\ IsFiniteSet(M)
  BY MatchingIs
<1>2. P \in Seq(Row) /\ Distinct(P) /\ Range(P) \subseteq M
  BY DEF Suffices
<1>3. IsClause(q)
  BY QueryFacts
<1>4. P \in Seq(M)
  BY <1>2 DEF Range
<1>5. PICK n \in Nat : /\ Covers(q, Range(P), M, n)
                       /\ Range(P) = M \/ (q.limit # NoLimit /\ n >= q.limit + q.offset /\ q.having = 0)
                       /\ shed \in Nat /\ shed = Cardinality(M) - Len(P) /\ (q.having = 0 \/ shed = 0)
  <2>1. CASE Range(P) = M /\ shed = 0
    <3>1. Covers(q, Range(P), M, 0)
      BY <2>1 DEF Covers
    <3>2. Cardinality(M) = Len(P) /\ Len(P) \in Nat
      BY <1>2, <2>1, DistinctFacts
    <3> QED BY <2>1, <3>1, <3>2
  <2>2. CASE /\ q.group = "none" /\ q.having = 0 /\ q.limit # NoLimit
             /\ Covers(q, Range(P), M, q.limit + q.offset)
             /\ shed \in Nat /\ shed = Cardinality(M) - Len(P)
    <3>1. q.limit + q.offset \in Nat
      BY <2>2, QueryFacts
    <3>2. q.limit + q.offset >= q.limit + q.offset
      BY <3>1
    <3> QED BY <2>2, <3>1, <3>2
  <2> QED BY <2>1, <2>2 DEF Suffices
<1> DEFINE page == Paged(q, P, shed)
<1> DEFINE all == IF q.having = 0 THEN M ELSE {}
<1> HIDE DEF M
<1>6. ExactPage(q, all, page.rows) /\ page.total = Cardinality(all)
  BY <1>1, <1>2, <1>3, <1>4, <1>5, PagedExact
<1> QED BY <1>6 DEF M

-----------------------------------------------------------------------------
\* The name streams.

LEMMA FlatScan ==
  ASSUME NEW X, NEW ss \in Seq(Seq(X)), Len(ss) # 0
  PROVE  \E flat : /\ FlattenSeq(ss) = flat[Len(ss)] /\ flat[1] = ss[1]
                   /\ \A n \in 1..(Len(ss) - 1) : flat[n + 1] = flat[n] \o ss[n + 1]
<1> DEFINE N == Len(ss)
<1>1. N \in Nat /\ DOMAIN ss = 1..N
  OBVIOUS
<1> DEFINE flat == CHOOSE f : f = [i \in 1..N |-> FlatStep(ss, f, i)]
<1>2. FlattenSeq(ss) = flat[N]
  BY DEF FlattenSeq, FlatStep
<1>3. flat = [i \in 1..N |-> FlatStep(ss, flat, i)]
  <2>1. \E f : f = [i \in 1..N |-> FlatStep(ss, f, i)]
    BY <1>1, FlatExists
  <2> QED BY <2>1
<1> HIDE DEF flat
<1>4. flat[1] = ss[1]
  BY <1>1, <1>3 DEF FlatStep
<1>5. ASSUME NEW n \in 1..(N - 1) PROVE flat[n + 1] = flat[n] \o ss[n + 1]
  <2>1. n + 1 \in 1..N /\ n + 1 # 1 /\ (n + 1) - 1 = n
    BY <1>1
  <2>2. flat[n + 1] = FlatStep(ss, flat, n + 1)
    BY <1>3, <2>1
  <2> QED BY <2>1, <2>2 DEF FlatStep
<1> QED BY <1>2, <1>4, <1>5

LEMMA ConcatDistinct ==
  ASSUME NEW X, NEW a \in Seq(X), NEW b \in Seq(X), Distinct(a), Distinct(b),
         \A x \in Range(a) : \A y \in Range(b) : ~SameRow(x, y)
  PROVE  Distinct(a \o b)
<1>1. /\ DOMAIN (a \o b) = 1..(Len(a) + Len(b)) /\ Len(a) \in Nat /\ Len(b) \in Nat
      /\ DOMAIN a = 1..Len(a) /\ DOMAIN b = 1..Len(b)
      /\ \A i \in DOMAIN a : (a \o b)[i] = a[i]
      /\ \A i \in DOMAIN (a \o b) : i \notin DOMAIN a => i - Len(a) \in DOMAIN b /\ (a \o b)[i] = b[i - Len(a)]
  BY ConcatFacts
<1> DEFINE c == a \o b
<1> HIDE DEF c
<1>2. ASSUME NEW i \in DOMAIN c, NEW j \in DOMAIN c, i # j PROVE ~SameRow(c[i], c[j])
  <2>1. i \in Int /\ j \in Int
    BY <1>1 DEF c
  <2>2. CASE i \in DOMAIN a /\ j \in DOMAIN a
    BY <1>1, <1>2, <2>2 DEF Distinct, c
  <2>3. CASE i \in DOMAIN a /\ j \notin DOMAIN a
    <3>1. c[i] \in Range(a) /\ c[j] \in Range(b)
      BY <1>1, <2>3 DEF Range, c
    <3> QED BY <3>1
  <2>4. CASE i \notin DOMAIN a /\ j \in DOMAIN a
    <3>1. c[j] \in Range(a) /\ c[i] \in Range(b)
      BY <1>1, <2>4 DEF Range, c
    <3> QED BY <3>1, SameRowFacts
  <2>5. CASE i \notin DOMAIN a /\ j \notin DOMAIN a
    <3>1. /\ i - Len(a) \in DOMAIN b /\ j - Len(a) \in DOMAIN b
          /\ c[i] = b[i - Len(a)] /\ c[j] = b[j - Len(a)]
      BY <1>1, <2>5 DEF c
    <3>2. i - Len(a) # j - Len(a)
      BY <1>1, <1>2, <2>1
    <3> QED BY <3>1, <3>2 DEF Distinct
  <2> QED BY <2>2, <2>3, <2>4, <2>5
<1> QED BY <1>2 DEF Distinct, c

LEMMA FlattenDistinct ==
  ASSUME NEW X, NEW ss \in Seq(Seq(X)), \A i \in 1..Len(ss) : Distinct(ss[i]),
         \A i, j \in 1..Len(ss) : i < j =>
           \A x \in Range(ss[i]) : \A y \in Range(ss[j]) : ~SameRow(x, y)
  PROVE  Distinct(FlattenSeq(ss))
<1> DEFINE N == Len(ss)
<1>1. N \in Nat /\ DOMAIN ss = 1..N /\ \A i \in 1..N : ss[i] \in Seq(X)
  OBVIOUS
<1>2. CASE N = 0
  <2>1. FlattenSeq(ss) = <<>>
    BY <1>2 DEF FlattenSeq
  <2>2. DOMAIN <<>> = {}
    BY EmptySeq
  <2> QED BY <2>1, <2>2 DEF Distinct
<1>3. CASE N # 0
  <2>1. PICK flat : /\ FlattenSeq(ss) = flat[N] /\ flat[1] = ss[1]
                    /\ \A n \in 1..(N - 1) : flat[n + 1] = flat[n] \o ss[n + 1]
    BY <1>3, FlatScan
  <2>0. /\ \A i \in 1..N : Distinct(ss[i])
        /\ \A i, j \in 1..N : i < j => \A x \in Range(ss[i]) : \A y \in Range(ss[j]) : ~SameRow(x, y)
    OBVIOUS
  <2> HIDE DEF N
  <2> DEFINE Fine(n) == /\ flat[n] \in Seq(X) /\ Distinct(flat[n])
                        /\ \A x \in Range(flat[n]) : \E i \in 1..n : x \in Range(ss[i])
  <2> DEFINE S == {0} \cup {n \in 1..N : Fine(n)}
  <2>2. ASSUME NEW n \in 0..(N - 1), n \in S PROVE n + 1 \in S
    <3>0. n + 1 \in 1..N /\ n \in Nat /\ n + 1 \in 1..(n + 1) /\ 1..n \subseteq 1..(n + 1) /\ 1..n \subseteq 1..N
      BY <1>1
    <3>1. CASE n = 0
      <4>1. flat[n + 1] = ss[n + 1]
        BY <2>1, <3>1
      <4>2. ss[n + 1] \in Seq(X) /\ Distinct(ss[n + 1])
        BY <1>1, <2>0, <3>0
      <4>3. Fine(n + 1)
        BY <3>0, <4>1, <4>2
      <4> HIDE DEF Fine
      <4> QED BY <3>0, <4>3
    <3>2. CASE n # 0
      <4>1. Fine(n) /\ n \in 1..(N - 1)
        BY <1>1, <2>2, <3>2
      <4>2. flat[n + 1] = flat[n] \o ss[n + 1] /\ ss[n + 1] \in Seq(X) /\ Distinct(ss[n + 1])
        BY <1>1, <2>0, <2>1, <3>0, <4>1
      <4>3. \A x \in Range(flat[n]) : \A y \in Range(ss[n + 1]) : ~SameRow(x, y)
        <5> SUFFICES ASSUME NEW x \in Range(flat[n]), NEW y \in Range(ss[n + 1]) PROVE ~SameRow(x, y)
          OBVIOUS
        <5>1. PICK i \in 1..n : x \in Range(ss[i])
          BY <4>1
        <5>2. i \in 1..N /\ i < n + 1
          BY <3>0
        <5> QED BY <2>0, <3>0, <5>1, <5>2
      <4>4. flat[n + 1] \in Seq(X) /\ Range(flat[n + 1]) = Range(flat[n]) \cup Range(ss[n + 1])
        BY <4>1, <4>2, ConcatFacts
      <4>5. Distinct(flat[n + 1])
        BY <4>1, <4>2, <4>3, ConcatDistinct
      <4>6. \A x \in Range(flat[n + 1]) : \E i \in 1..(n + 1) : x \in Range(ss[i])
        BY <3>0, <4>1, <4>4
      <4>7. Fine(n + 1)
        BY <4>4, <4>5, <4>6
      <4> HIDE DEF Fine
      <4> QED BY <3>0, <4>7
    <3> QED BY <3>1, <3>2
  <2> HIDE DEF S
  <2>3. 0 \in S
    BY DEF S
  <2>4. N \in S
    <3>1. \A n \in 0..N : n \in S
      BY <1>1, <2>2, <2>3, UpTo
    <3> QED BY <1>1, <3>1
  <2>5. Fine(N)
    BY <1>3, <2>4 DEF S
  <2> QED BY <2>1, <2>5
<1> QED BY <1>2, <1>3

-----------------------------------------------------------------------------
\* What a stream has of each segment.

(* The rows a stream has of each segment.                                  *)
StreamAt(q, s) == {i \in Firsts(RowsOf(s)) : ~Masked(s) /\ RowsOf(s)[i] \in Good(q)}
StreamParts(q) == [s \in DOMAIN segments |-> RowsAt(RowsOf(s), StreamAt(q, s))]

LEMMA StreamGood ==
  ASSUME NEW q \in Queries, Streams(q), NEW r \in Row
  PROVE  /\ r \in Good(q) <=> \A p \in q.where : r.kind = p.value
         /\ q.where = {} => r \in Good(q)
<1>1. q.in = {} /\ \A p \in q.where : p.field = "kind" /\ p.op = "eq"
  BY DEF Streams, KindEq
<1>2. PassesPath(q, r.path)
  BY <1>1 DEF PassesPath
<1>3. \A p \in q.where : Holds(r, p) <=> r.kind = p.value
  BY <1>1 DEF Holds, Field
<1> QED BY <1>2, <1>3 DEF Good

LEMMA StreamRowsIs ==
  ASSUME IndexOK, NEW q \in Queries, Streams(q)
  PROVE  StreamRows(q) = FlattenSeq(StreamParts(q)) \o FlattenSeq(DirtyFiles)
<1> DEFINE ids == {id \in Canonical : /\ segments[id[1]].path \notin DOMAIN shadow
                                      /\ \A p \in q.where : id \in KindRows(p.value)}
<1>1. ASSUME NEW s \in DOMAIN segments
      PROVE  {id[2] : id \in InSegment(ids, s)} = StreamAt(q, s)
  <2>1. ASSUME NEW id \in InSegment(ids, s) PROVE id[2] \in StreamAt(q, s)
    <3>1. /\ id \in RowIds /\ id[1] = s /\ id[2] \in Firsts(RowsOf(s))
          /\ segments[s].path \notin DOMAIN shadow /\ \A p \in q.where : At(id).kind = p.value
      BY DEF InSegment, Canonical, KindRows
    <3>2. At(id) = RowsOf(s)[id[2]] /\ At(id) \in Row
      BY <3>1, RowIdFacts
    <3>3. RowsOf(s)[id[2]] \in Good(q)
      BY <3>1, <3>2, StreamGood
    <3> QED BY <3>1, <3>3 DEF StreamAt, Masked
  <2>2. ASSUME NEW i \in StreamAt(q, s) PROVE \E id \in InSegment(ids, s) : i = id[2]
    <3>1. /\ i \in Firsts(RowsOf(s)) /\ segments[s].path \notin DOMAIN shadow
          /\ RowsOf(s)[i] \in Good(q) /\ i \in DOMAIN RowsOf(s)
      BY DEF StreamAt, Masked, Firsts
    <3>2. <<s, i>> \in RowIds /\ At(<<s, i>>) = RowsOf(s)[i]
      BY <3>1, RowIdFacts
    <3>3. <<s, i>> \in Canonical
      BY <3>1, <3>2 DEF Canonical
    <3>4. \A p \in q.where : RowsOf(s)[i].kind = p.value
      <4>1. RowsOf(s)[i] \in Row
        BY <3>1 DEF Good
      <4> QED BY <3>1, <4>1, StreamGood
    <3>5. \A p \in q.where : <<s, i>> \in KindRows(p.value)
      BY <3>2, <3>3, <3>4 DEF KindRows
    <3>6. <<s, i>> \in ids
      BY <3>1, <3>3, <3>5
    <3>7. <<s, i>> \in InSegment(ids, s)
      BY <3>6 DEF InSegment
    <3> QED BY <3>7
  <2> QED BY <2>1, <2>2
<1>2. StreamRows(q) = FlattenSeq([s \in DOMAIN segments |->
                                    RowsAt(RowsOf(s), {id[2] : id \in InSegment(ids, s)})])
                        \o FlattenSeq(DirtyFiles)
  BY DEF StreamRows
<1> HIDE DEF ids
<1>3. [s \in DOMAIN segments |-> RowsAt(RowsOf(s), {id[2] : id \in InSegment(ids, s)})] = StreamParts(q)
  BY <1>1 DEF StreamParts
<1> QED BY <1>2, <1>3

LEMMA StreamPartFacts ==
  ASSUME IndexOK, NEW q \in Queries, NEW s \in DOMAIN segments
  PROVE  /\ StreamParts(q)[s] \in Seq(Row) /\ Distinct(StreamParts(q)[s])
         /\ Range(StreamParts(q)[s]) = Wanted(q)[s]
         /\ FirstRows(StreamParts(q)[s]) = Wanted(q)[s]
<1> DEFINE rows == RowsOf(s)
<1> DEFINE at == StreamAt(q, s)
<1> DEFINE P == RowsAt(rows, at)
<1>1. rows \in Seq(Row) /\ at \subseteq DOMAIN rows /\ StreamParts(q)[s] = P
  BY SegmentFacts DEF StreamAt, Firsts, StreamParts
<1>2. \A i, j \in at : i # j => ~SameRow(rows[i], rows[j])
  <2> SUFFICES ASSUME NEW i \in at, NEW j \in at, i # j PROVE ~SameRow(rows[i], rows[j])
    OBVIOUS
  <2>1. i \in Firsts(rows) /\ j \in Firsts(rows) /\ i \in Nat /\ j \in Nat /\ i >= 1 /\ j >= 1
    <3>1. DOMAIN rows = 1..Len(rows) /\ Len(rows) \in Nat
      BY <1>1
    <3> QED BY <1>1, <3>1 DEF StreamAt
  <2>2. CASE i < j
    <3>1. i \in 1..(j - 1)
      BY <2>1, <2>2
    <3> QED BY <2>1, <3>1, SameRowFacts DEF Firsts
  <2>3. CASE j < i
    <3>1. j \in 1..(i - 1)
      BY <2>1, <2>3
    <3> QED BY <2>1, <3>1 DEF Firsts
  <2> QED BY <2>1, <2>2, <2>3
<1>3. {rows[i] : i \in at} = Wanted(q)[s]
  <2>1. Wanted(q)[s] = FirstRows(LiveRows[s]) \cap Good(q)
    BY WantedFacts
  <2>2. LiveRows[s] = IF Masked(s) THEN <<>> ELSE rows
    BY DEF LiveRows
  <2>3. CASE Masked(s)
    <3>1. at = {}
      BY <2>3 DEF StreamAt
    <3>2. FirstRows(<<>>) = {}
      BY <1>1, NoRows
    <3> QED BY <2>1, <2>2, <2>3, <3>1, <3>2
  <2>4. CASE ~Masked(s)
    BY <2>1, <2>2, <2>4 DEF FirstRows, StreamAt
  <2> QED BY <2>3, <2>4
<1> HIDE DEF rows, at
<1>4. P \in Seq(Row) /\ Range(P) = {rows[i] : i \in at} /\ Distinct(P)
  BY <1>1, <1>2, RowsAtFacts, RowsAtDistinct
<1> HIDE DEF P
<1>5. FirstRows(P) = Range(P)
  BY <1>4, DistinctFacts
<1> QED BY <1>1, <1>3, <1>4, <1>5

(* The rows a stream goes over have every row that matches, and the first  *)
(* of its kind among them.                                                 *)
LEMMA StreamFacts ==
  ASSUME IndexOK, NEW q \in Queries, Alike(q), Streams(q), ~HasDuplicatePaths
  PROVE  /\ StreamRows(q) \in Seq(Row) /\ FirstRows(StreamRows(q)) = MatchingOf(q)
         /\ q.descending => Distinct(StreamRows(q))
<1> DEFINE ss == StreamParts(q)
<1> DEFINE a == FlattenSeq(ss)
<1> DEFINE b == FlattenSeq(DirtyFiles)
<1>1. /\ Len(segments) \in Nat /\ DOMAIN segments = 1..Len(segments)
      /\ Len(DirtyFiles) \in Nat /\ DOMAIN DirtyFiles = 1..Len(DirtyFiles)
      /\ DirtyFiles \in Seq(Seq(Row))
  BY SegmentFacts, DirtyFacts
<1>2. /\ \A s \in DOMAIN segments : /\ ss[s] \in Seq(Row) /\ Distinct(ss[s])
                                    /\ Range(ss[s]) = Wanted(q)[s]
                                    /\ FirstRows(ss[s]) = Wanted(q)[s]
  BY StreamPartFacts
<1>3. ss \in Seq(Seq(Row)) /\ Len(ss) = Len(segments)
  <2>1. ss \in [1..Len(segments) -> Seq(Row)]
    BY <1>1, <1>2 DEF StreamParts
  <2> HIDE DEF ss
  <2> QED BY <1>1, <2>1
<1>4. a \in Seq(Row) /\ FirstRows(a) = OverlayMatching(q)
  <2>1. \A i \in 1..Len(ss) : Wanted(q)[i] = FirstRows(ss[i])
    BY <1>1, <1>2, <1>3
  <2> HIDE DEF ss
  <2> QED BY <1>3, <2>1, FlattenFacts DEF OverlayMatching
<1>5. b \in Seq(Row) /\ FirstRows(b) = DirtyMatching(q)
  <2>1. b \in Seq(Row) /\ FirstRows(b) = Layered(DirtyFirsts, Len(DirtyFiles))
    <3>1. \A i \in 1..Len(DirtyFiles) : DirtyFirsts[i] = FirstRows(DirtyFiles[i])
      BY <1>1 DEF DirtyFirsts
    <3> QED BY <1>1, <3>1, FlattenFacts
  <2>2. Layered(DirtyFirsts, Len(DirtyFiles)) \cap Good(q) = DirtyMatching(q)
    BY MatchingIs
  <2>3. CASE DOMAIN shadow = {}
    <3>1. Len(DirtyFiles) = 0
      BY <2>3, DirtyFacts, FS_EmptySet
    <3>2. Layered(DirtyFirsts, Len(DirtyFiles)) = {}
      BY <3>1, LayeredStart
    <3> QED BY <2>1, <2>2, <3>2
  <2>4. CASE DOMAIN shadow # {}
    <3>1. q.where = {}
      BY <2>4 DEF Streams
    <3>2. FirstRows(b) \subseteq Row
      BY <2>1, FirstRowsFacts
    <3>3. FirstRows(b) \subseteq Good(q)
      BY <3>1, <3>2, StreamGood
    <3> QED BY <2>1, <2>2, <3>3
  <2> QED BY <2>3, <2>4
<1>6. StreamRows(q) = a \o b
  BY StreamRowsIs
<1>7. \A r \in FirstRows(b) : \A x \in FirstRows(a) : ~SameRow(x, r)
  <2>1. Len(segments) \in 0..Len(segments)
    BY <1>1
  <2>2. \A x \in OverlayMatching(q) : x.path \notin DOMAIN shadow
    BY <2>1, OverlayRows DEF OverlayMatching
  <2>3. \A d \in 1..Len(DirtyFiles) : \A r \in DirtyWanted(q)[d] : r.path \in DOMAIN shadow
    BY WantedFacts, <1>1
  <2>4. \A r \in DirtyMatching(q) : r.path \in DOMAIN shadow
    BY <2>3 DEF DirtyMatching, Layered
  <2> QED BY <1>4, <1>5, <2>2, <2>4, SameRowIs
<1>8. ASSUME q.descending PROVE Distinct(StreamRows(q))
  <2>1. DOMAIN shadow = {}
    BY <1>8 DEF Streams
  <2>2. Len(DirtyFiles) = 0
    BY <2>1, DirtyFacts, FS_EmptySet
  <2>3. b = <<>>
    <3>1. DirtyFiles = <<>>
      BY <1>1, <2>2
    <3> QED BY <3>1 DEF FlattenSeq
  <2>4. \A i, j \in 1..Len(ss) : i < j =>
          \A x \in Range(ss[i]) : \A y \in Range(ss[j]) : ~SameRow(x, y)
    <3> SUFFICES ASSUME NEW i \in 1..Len(ss), NEW j \in 1..Len(ss), i < j,
                        NEW x \in Range(ss[i]), NEW y \in Range(ss[j])
                 PROVE  ~SameRow(x, y)
      OBVIOUS
    <3>1. i \in DOMAIN segments /\ j \in DOMAIN segments /\ i # j
      BY <1>1, <1>3
    <3>2. x \in Wanted(q)[i] /\ y \in Wanted(q)[j]
      BY <1>2, <3>1
    <3>3. x.path = segments[i].path /\ y.path = segments[j].path
      BY <3>1, <3>2, WantedFacts
    <3>4. segments[i].path # segments[j].path
      BY <3>1 DEF HasDuplicatePaths
    <3> QED BY <3>3, <3>4, SameRowIs
  <2>5. \A i \in 1..Len(ss) : Distinct(ss[i])
    BY <1>1, <1>2, <1>3
  <2>6. Distinct(a)
    <3> HIDE DEF ss
    <3> QED BY <1>3, <2>4, <2>5, FlattenDistinct
  <2>7. a \o b = a
    <3> HIDE DEF a, b
    <3> QED BY <1>4, <2>3
  <2> QED BY <1>6, <2>6, <2>7
<1> HIDE DEF a, b
<1>9. a \o b \in Seq(Row)
  BY <1>4, <1>5, ConcatFacts
<1>10. FirstRows(a \o b) =
         FirstRows(a) \cup {r \in FirstRows(b) : \A x \in FirstRows(a) : ~SameRow(x, r)}
  BY <1>4, <1>5, ConcatFirsts
<1>11. FirstRows(a \o b) = MatchingOf(q)
  BY <1>4, <1>5, <1>7, <1>10 DEF MatchingOf
<1> QED BY <1>6, <1>8, <1>9, <1>11

(* A stream stopped where it may stop still has the page.                  *)
Enough(q, K, M, need) == K \subseteq M /\ (K = M \/ Covers(q, K, M, need))

LEMMA AscendingEnough ==
  ASSUME NEW q, q.descending = FALSE, q.order \in {"none", "name"},
         NEW rows \in Seq(Row), NEW need \in Nat, NEW t, t = Ascending(rows, need),
         ~(Len(Collapse(t)) < Len(t) /\ Len(t) >= need)
  PROVE  t \in Seq(Row) /\ Enough(q, FirstRows(t), FirstRows(rows), need)
<1> DEFINE at(n) == {i \in DOMAIN rows : rows[i].name <= n}
<1> DEFINE upTo(n) == RowsAt(rows, at(n))
<1> DEFINE enough == {rows[i].name : i \in {j \in DOMAIN rows : Len(upTo(rows[j].name)) >= need}}
<1>1. t = IF enough = {} THEN rows ELSE upTo(Min(enough))
  BY DEF Ascending
<1>2. \A i \in DOMAIN rows : rows[i] \in Row /\ rows[i].name \in Nat
  BY DEF Row
<1>3. CASE enough = {}
  <2>1. t = rows
    BY <1>1, <1>3
  <2> QED BY <2>1 DEF Enough
<1>4. CASE enough # {}
  <2>1. enough \subseteq Nat
    BY <1>2
  <2>2. PICK n \in enough : \A m \in enough : n <= m
    <3> HIDE DEF enough
    <3> QED BY <1>4, <2>1, LeastOf
  <2>3. Min(enough) \in enough
    <3> HIDE DEF enough
    <3> QED BY <2>2 DEF Min
  <2>4. PICK k \in DOMAIN rows : Min(enough) = rows[k].name /\ Len(upTo(rows[k].name)) >= need
    BY <2>3
  <2>5. PICK c \in Nat : c = rows[k].name
    BY <1>2
  <2>6. t = RowsAt(rows, at(c)) /\ Len(t) >= need
    BY <1>1, <1>4, <2>4, <2>5
  <2> HIDE DEF enough
  <2>7. at(c) \subseteq DOMAIN rows
    OBVIOUS
  <2>8. t \in Seq(Row) /\ Range(t) = {rows[i] : i \in at(c)}
    <3> DEFINE A == at(c)
    <3>1. A \subseteq DOMAIN rows /\ t = RowsAt(rows, A)
      BY <2>6
    <3> HIDE DEF A
    <3>2. t \in Seq(Row) /\ Range(t) = {rows[i] : i \in A}
      BY <3>1, RowsAtFacts
    <3> QED BY <3>2 DEF A
  <2> DEFINE G == {r \in Row : r.name <= c}
  <2>9. FirstRows(t) = FirstRows(rows) \cap G
    <3> DEFINE A == at(c)
    <3>1. \A i, j \in DOMAIN rows : SameRow(rows[i], rows[j]) /\ rows[i] \in G => rows[j] \in G
      BY <1>2, SameRowIs
    <3>2. \A i \in Firsts(rows) : rows[i] \in G => i \in A
      BY DEF Firsts
    <3>3. A \subseteq DOMAIN rows
      OBVIOUS
    <3>4. FirstRows(t) \subseteq G
      <4>1. FirstRows(t) \subseteq Range(t)
        BY <2>8, FirstRowsFacts
      <4> QED BY <1>2, <2>8, <4>1
    <3> HIDE DEF A, G
    <3>5. FirstRows(RowsAt(rows, A)) \cap G = FirstRows(rows) \cap G
      BY <3>1, <3>2, <3>3, RowsAtGood
    <3>6. t = RowsAt(rows, A)
      BY <2>6 DEF A
    <3> QED BY <3>4, <3>5, <3>6
  <2>10. IsFiniteSet(FirstRows(t)) /\ Cardinality(FirstRows(t)) >= need
    <3>1. /\ Collapse(t) \in Seq(Row) /\ Distinct(Collapse(t)) /\ Range(Collapse(t)) = FirstRows(t)
      BY <2>8, CollapseFacts
    <3>2. IsFiniteSet(FirstRows(t)) /\ Cardinality(FirstRows(t)) = Len(Collapse(t))
      BY <3>1, DistinctFacts
    <3>3. Len(Collapse(t)) \in Nat /\ Len(t) \in Nat
      BY <2>8, <3>1
    <3>4. Len(Collapse(t)) >= Len(t)
      BY <2>6, <3>3
    <3> QED BY <2>6, <3>2, <3>3, <3>4
  <2>11. FirstRows(rows) \subseteq Row
    BY FirstRowsFacts
  <2>12. ASSUME NEW m \in FirstRows(rows) \ FirstRows(t), NEW a \in FirstRows(t)
         PROVE  Before(q, a, m)
    <3>1. m \in Row /\ a \in Row /\ a.name <= c /\ ~(m.name <= c)
      BY <2>9, <2>11
    <3>2. a.name \in Nat /\ m.name \in Nat
      BY <3>1 DEF Row
    <3>3. a.name < m.name
      BY <3>1, <3>2
    <3>4. Field(a, "name") = a.name /\ Field(m, "name") = m.name
      BY DEF Field
    <3> QED BY <3>2, <3>3, <3>4 DEF Before
  <2>13. Covers(q, FirstRows(t), FirstRows(rows), need)
    BY <2>10, <2>12 DEF Covers
  <2> QED BY <2>8, <2>9, <2>13 DEF Enough
<1> QED BY <1>3, <1>4

LEMMA DescendingEnough ==
  ASSUME NEW q, q.descending = TRUE, q.order = "name",
         NEW rows \in Seq(Row), Distinct(rows), NEW need \in Nat, NEW t \in Descending(rows, need),
         \A a, b \in FirstRows(rows) :
           a # b => ~\A f \in {"name", "line", "path"} : a[f] = b[f]
  PROVE  t \in Seq(Row) /\ Enough(q, FirstRows(t), FirstRows(rows), need)
<1> DEFINE D == DOMAIN rows
<1> DEFINE size == Min({need, Len(rows)})
<1>1. PICK at \in kSubset(size, D) :
        t = RowsAt(rows, at) /\ \A i \in at, j \in D \ at : ~DropsBefore(rows[i], rows[j])
  BY DEF Descending
<1>2. /\ D = 1..Len(rows) /\ Len(rows) \in Nat /\ IsFiniteSet(D) /\ Cardinality(D) = Len(rows)
      /\ \A i \in D : rows[i] \in Row
  BY IntervalFacts
<1>3. size = IF need <= Len(rows) THEN need ELSE Len(rows)
  BY <1>2, TwoNumbers
<1> HIDE DEF size, D
<1>4. at \subseteq D /\ Cardinality(at) = size
  BY <1>1 DEF kSubset
<1>5. IsFiniteSet(at)
  BY <1>2, <1>4, FS_Subset
<1>6. t \in Seq(Row) /\ Len(t) = size /\ Range(t) = {rows[i] : i \in at} /\ Distinct(t)
  <2>1. at \subseteq DOMAIN rows
    BY <1>4 DEF D
  <2>2. \A i, j \in at : i # j => ~SameRow(rows[i], rows[j])
    BY <2>1 DEF Distinct
  <2> QED BY <1>1, <1>4, <2>1, <2>2, RowsAtFacts, RowsAtDistinct
<1>7. /\ FirstRows(t) = {rows[i] : i \in at} /\ FirstRows(rows) = {rows[i] : i \in D}
      /\ IsFiniteSet(FirstRows(t)) /\ Cardinality(FirstRows(t)) = size
  <2>1. /\ FirstRows(t) = Range(t) /\ IsFiniteSet(Range(t)) /\ Cardinality(Range(t)) = Len(t)
    BY <1>6, DistinctFacts
  <2>2. FirstRows(rows) = Range(rows)
    BY DistinctFacts
  <2>3. Range(rows) = {rows[i] : i \in D}
    BY DEF Range, D
  <2> QED BY <1>6, <2>1, <2>2, <2>3
<1>8. FirstRows(t) \subseteq FirstRows(rows)
  BY <1>4, <1>7
<1>9. CASE need >= Len(rows)
  <2>1. Cardinality(at) = Cardinality(D)
    BY <1>2, <1>3, <1>4, <1>9
  <2>2. at = D
    BY <1>2, <1>4, <2>1, FS_Subset
  <2> QED BY <1>6, <1>7, <2>2 DEF Enough
<1>10. CASE ~(need >= Len(rows))
  <2>1. size = need
    BY <1>2, <1>3, <1>10
  <2>2. ASSUME NEW m \in FirstRows(rows) \ FirstRows(t), NEW a \in FirstRows(t)
        PROVE  Before(q, a, m)
    <3>1. PICK i \in at : a = rows[i]
      BY <1>7
    <3>2. PICK j \in D : m = rows[j]
      BY <1>7
    <3>3. j \notin at
      BY <1>7, <3>2
    <3>4. ~DropsBefore(a, m)
      BY <1>1, <3>1, <3>2, <3>3
    <3>5. a # m /\ a \in Row /\ m \in Row /\ a \in FirstRows(rows)
      BY <1>2, <1>4, <1>8, <3>1, <3>2
    <3>6. /\ a.name \in Nat /\ a.line \in Nat /\ a.path \in Nat
          /\ m.name \in Nat /\ m.line \in Nat /\ m.path \in Nat
      BY <3>5 DEF Row
    <3>7. ~(a.name = m.name /\ a.line = m.line /\ a.path = m.path)
      BY <3>5
    <3>8. Field(a, "name") = a.name /\ Field(m, "name") = m.name
      BY DEF Field
    <3>9. \/ a.name > m.name
          \/ a.name = m.name /\ a.line < m.line
          \/ a.name = m.name /\ a.line = m.line /\ a.path < m.path
      BY <3>4, <3>6, <3>7 DEF DropsBefore
    <3> QED BY <3>6, <3>8, <3>9 DEF Before
  <2>3. need >= need
    OBVIOUS
  <2>4. Covers(q, FirstRows(t), FirstRows(rows), need)
    BY <1>7, <2>1, <2>2, <2>3 DEF Covers
  <2> QED BY <1>6, <1>8, <2>4 DEF Enough
<1> QED BY <1>9, <1>10

LEMMA NeedSuffices ==
  ASSUME NEW q \in Queries, q.limit # NoLimit
  PROVE  /\ StreamNeed(q) \in Nat /\ StreamNeed(q) >= q.limit + q.offset
         /\ q.limit \in Nat /\ q.offset \in Nat
<1>1. q.limit \in Nat /\ q.offset \in Nat
  BY QueryFacts
<1>2. PICK z \in Int, one \in Int : z = 0 /\ one = 1
  OBVIOUS
<1>3. Max({z, q.limit}) = q.limit
  <2>1. PICK l \in Int : l = q.limit
    BY <1>1
  <2>2. Max({z, l}) = IF z >= l THEN z ELSE l
    BY <1>2, TwoNumbers
  <2> QED BY <1>1, <1>2, <2>1, <2>2
<1> DEFINE top == q.limit + q.offset
<1>4. top \in Int
  BY <1>1
<1>5. Max({one, top}) = IF one >= top THEN one ELSE top
  <2> HIDE DEF top
  <2> QED BY <1>4, TwoNumbers
<1>6. StreamNeed(q) = Max({one, top})
  BY <1>2, <1>3 DEF StreamNeed
<1> QED BY <1>1, <1>2, <1>5, <1>6

LEMMA EnoughSuffices ==
  ASSUME IndexOK, NEW q \in Queries, Alike(q), q.group = "none", q.having = 0, q.limit # NoLimit,
         NEW t \in Seq(Row), Enough(q, FirstRows(t), MatchingOf(q), StreamNeed(q))
  PROVE  \E shed : Suffices(q, Collapse(t), shed)
<1> DEFINE M == MatchingOf(q)
<1> DEFINE K == FirstRows(t)
<1> DEFINE P == Collapse(t)
<1> DEFINE need == StreamNeed(q)
<1> DEFINE top == q.limit + q.offset
<1>1. P \in Seq(Row) /\ Distinct(P) /\ Range(P) = K
  BY CollapseFacts
<1>2. K \subseteq M /\ (K = M \/ Covers(q, K, M, need))
  BY DEF Enough
<1>3. IsFiniteSet(M)
  BY MatchingIs
<1>4. need \in Nat /\ top \in Nat /\ need >= top
  BY NeedSuffices
<1>5. CASE K = M
  <2>1. Suffices(q, P, 0)
    BY <1>1, <1>5 DEF Suffices
  <2> QED BY <2>1
<1>6. CASE Covers(q, K, M, need)
  <2> HIDE DEF M, K, P, need, top
  <2>1. Covers(q, K, M, top)
    <3> SUFFICES ASSUME NEW m \in M \ K
                 PROVE  \E A \in SUBSET K : /\ IsFiniteSet(A) /\ Cardinality(A) >= top
                                            /\ \A a \in A : Before(q, a, m)
      BY DEF Covers
    <3>1. PICK A \in SUBSET K : IsFiniteSet(A) /\ Cardinality(A) >= need /\ \A a \in A : Before(q, a, m)
      BY <1>6 DEF Covers
    <3>2. Cardinality(A) \in Nat
      BY <3>1, FS_CardinalityType
    <3>3. Cardinality(A) >= top
      BY <1>4, <3>1, <3>2
    <3> QED BY <3>1, <3>3
  <2>2. Cardinality(K) = Len(P) /\ Cardinality(K) <= Cardinality(M)
          /\ Cardinality(K) \in Nat /\ Cardinality(M) \in Nat
    <3>1. Cardinality(Range(P)) = Len(P)
      BY <1>1, DistinctFacts
    <3>2. IsFiniteSet(K) /\ Cardinality(K) <= Cardinality(M)
      BY <1>2, <1>3, FS_Subset
    <3> QED BY <1>1, <1>3, <3>1, <3>2, FS_CardinalityType
  <2>3. Cardinality(M) - Len(P) \in Nat
    BY <2>2
  <2>4. Suffices(q, P, Cardinality(M) - Len(P))
    BY <1>1, <1>2, <2>1, <2>3 DEF Suffices, M, top
  <2> QED BY <2>4 DEF P
<1> QED BY <1>2, <1>5, <1>6

(* Rows of one name, line and path, which a descending stream does not     *)
(* order.                                                                  *)
TiedRows(q) == \E a, b \in MatchingOf(q) : a # b /\ \A f \in {"name", "line", "path"} : a[f] = b[f]

LEMMA StreamedExact ==
  ASSUME IndexOK, NEW q \in Queries, Alike(q), Streams(q), ~HasDuplicatePaths,
         NEW page \in Streamed(q), ~(q.descending /\ TiedRows(q))
  PROVE  /\ ExactPage(q, MatchingOf(q), page.rows) /\ page.total = Cardinality(MatchingOf(q))
         /\ q.group = "none" /\ q.having = 0 /\ page.refused = FALSE
<1> DEFINE rows == StreamRows(q)
<1> DEFINE need == StreamNeed(q)
<1>1. q.group = "none" /\ q.having = 0 /\ q.limit # NoLimit
        /\ (q.order = "name" \/ (q.order = "none" /\ q.where = {}))
  BY DEF Streams
<1>2. q.descending \in BOOLEAN /\ (q.order = "none" => ~q.descending)
  BY FindAssumption
<1>3. /\ rows \in Seq(Row) /\ FirstRows(rows) = MatchingOf(q)
      /\ q.descending => Distinct(rows)
  BY StreamFacts
<1>4. need \in Nat
  BY <1>1, NeedSuffices
<1>5. PICK t \in IF q.descending THEN Descending(rows, need) ELSE {Ascending(rows, need)} :
        /\ ~(Len(Collapse(t)) < Len(t) /\ Len(t) >= need)
        /\ page = [Paged(q, Collapse(t), 0) EXCEPT !.total = Matched(q)]
  BY DEF Streamed
<1>6. t \in Seq(Row) /\ Enough(q, FirstRows(t), MatchingOf(q), need)
  <2> HIDE DEF rows, need
  <2>1. CASE q.descending
    <3>1. t \in Descending(rows, need) /\ q.descending = TRUE /\ q.order = "name"
      BY <1>1, <1>2, <1>5, <2>1
    <3>2. \A a, b \in FirstRows(rows) : a # b => ~\A f \in {"name", "line", "path"} : a[f] = b[f]
      BY <1>3, <2>1 DEF TiedRows
    <3>3. t \in Seq(Row) /\ Enough(q, FirstRows(t), FirstRows(rows), need)
      BY <1>3, <1>4, <2>1, <3>1, <3>2, DescendingEnough
    <3> QED BY <1>3, <3>3
  <2>2. CASE ~q.descending
    <3>1. t = Ascending(rows, need) /\ q.descending = FALSE /\ q.order \in {"none", "name"}
      BY <1>1, <1>2, <1>5, <2>2
    <3>2. t \in Seq(Row) /\ Enough(q, FirstRows(t), FirstRows(rows), need)
      BY <1>3, <1>4, <1>5, <3>1, AscendingEnough
    <3> QED BY <1>3, <3>2
  <2> QED BY <2>1, <2>2
<1> HIDE DEF rows
<1>7. PICK shed : Suffices(q, Collapse(t), shed)
  BY <1>1, <1>6, EnoughSuffices
<1>8. ExactPage(q, MatchingOf(q), Paged(q, Collapse(t), shed).rows)
  BY <1>1, <1>7, SufficesExact
<1>9. page.rows = Paged(q, Collapse(t), shed).rows /\ page.total = Matched(q) /\ page.refused = FALSE
  BY <1>5 DEF Paged
<1>10. Matched(q) = Cardinality(MatchingOf(q))
  <2>1. /\ Collapse(rows) \in Seq(Row) /\ Distinct(Collapse(rows))
        /\ Range(Collapse(rows)) = FirstRows(rows)
    BY <1>3, CollapseFacts
  <2>2. Cardinality(Range(Collapse(rows))) = Len(Collapse(rows))
    BY <2>1, DistinctFacts
  <2> QED BY <1>3, <2>1, <2>2 DEF Matched, rows
<1> QED BY <1>1, <1>8, <1>9, <1>10

-----------------------------------------------------------------------------
\* The specification.

(* The exception of the page invariant: two rows the same symbol that      *)
(* differ in the value a predicate reads.                                  *)
TwinRows(q) == \E p \in q.where : p.field = "val" /\ \E i, j \in DOMAIN Live :
                 SameRow(Live[i], Live[j]) /\ Live[i].val # Live[j].val

LEMMA IndexFromCorpora ==
  ASSUME FindInit
  PROVE  IndexOK /\ ~Asked
<1>1. PICK c \in Corpora : segments = c.segments /\ shadow = c.shadow
  BY DEF FindInit
<1>2. /\ c.segments \in Seq([path : Nat, rows : Seq(Row)])
      /\ \A s \in DOMAIN c.segments : c.segments[s].rows \in Seq(RowOf(c.segments[s].path))
      /\ DOMAIN c.shadow \subseteq Nat /\ IsFiniteSet(DOMAIN c.shadow)
      /\ \A p \in DOMAIN c.shadow : c.shadow[p] \in Seq(RowOf(p))
  BY FindAssumption
<1>3. IndexOK
  BY <1>1, <1>2 DEF IndexOK
<1>4. ~Asked
  BY DEF FindInit, Asked
<1> QED BY <1>3, <1>4

(* What is asked of an answer reads the same after the step that gives it. *)
LEMMA AfterAnswer ==
  ASSUME IndexOK, NEW q \in Queries, query' = q, UNCHANGED <<segments, shadow>>
  PROVE  /\ IndexOK'
         /\ Twins' <=> TwinRows(q)
         /\ ~TwinRows(q) => Alike(q) /\ Matching' = MatchingOf(q)
         /\ ~TwinRows(q) => (Tied' <=> answer'.route = "streamed" /\ q.descending /\ TiedRows(q))
<1>1. IndexOK'
  BY DEF IndexOK
<1>2. Live' = Live
  BY DEF Live, DirtyFiles, RowsOf
<1>3. Twins' <=> TwinRows(q)
  BY <1>2 DEF Twins, TwinRows
<1>4. ASSUME ~TwinRows(q) PROVE Alike(q)
  <2>1. \A p \in q.where : p.field = "val" =>
          \A i, j \in DOMAIN Live : SameRow(Live[i], Live[j]) => Live[i].val = Live[j].val
    BY <1>4 DEF TwinRows
  <2> QED BY <2>1, AlikeUnlessTwins
<1>5. ASSUME ~TwinRows(q) PROVE Matching' = MatchingOf(q)
  <2>1. Matching' = FirstRows(Passing(q, Live))
    BY <1>2 DEF Matching, FirstRows
  <2> QED BY <1>4, <1>5, <2>1, MatchingIs
<1>6. ASSUME ~TwinRows(q)
      PROVE  Tied' <=> answer'.route = "streamed" /\ q.descending /\ TiedRows(q)
  BY <1>5, <1>6 DEF Tied, TiedRows
<1> QED BY <1>1, <1>3, <1>4, <1>5, <1>6

(* Every route to an answer but the counted groups.                        *)
LEMMA RowsAnswered ==
  ASSUME IndexOK, NEW q \in Queries, Alike(q), q.group = "none",
         FindCounted(q) \/ FindStreamed(q) \/ FindScanned(q),
         ~answer'.refused, ~(answer'.route = "streamed" /\ q.descending /\ TiedRows(q))
  PROVE  LET all == IF q.having = 0 THEN MatchingOf(q) ELSE {}
         IN ExactPage(q, all, answer'.rows) /\ answer'.total = Cardinality(all)
<1> DEFINE all == IF q.having = 0 THEN MatchingOf(q) ELSE {}
<1>1. CASE FindCounted(q)
  BY <1>1 DEF FindCounted, Groups
<1>2. CASE FindStreamed(q)
  <2>1. PICK page \in Streamed(q) : Answers(q, "streamed", page)
    BY <1>2 DEF FindStreamed
  <2>2. Streams(q) /\ ~HasDuplicatePaths
    BY <1>2 DEF FindStreamed, StreamsWhole
  <2>3. answer'.rows = page.rows /\ answer'.total = page.total /\ answer'.route = "streamed"
    BY <2>1 DEF Answers
  <2>4. ~(q.descending /\ TiedRows(q))
    BY <2>3
  <2>5. /\ ExactPage(q, MatchingOf(q), page.rows) /\ page.total = Cardinality(MatchingOf(q))
        /\ q.having = 0
    BY <2>2, <2>4, StreamedExact
  <2> QED BY <2>3, <2>5
<1>3. CASE FindScanned(q)
  <2> DEFINE page == Finished(q, ScanOf(q))
  <2>1. answer'.rows = page.rows /\ answer'.total = page.total /\ ~page.refused
    <3>1. \/ Answers(q, "refused", Refusal)
          \/ TravelsAsViews(q) /\ Answers(q, "views", Finished(q, FromViews(q, Candidates(q))))
          \/ ~TravelsAsViews(q) /\ Answers(q, "built", Finished(q, FromBuilt(q, Candidates(q))))
      BY <1>3 DEF FindScanned
    <3>2. CASE Answers(q, "refused", Refusal)
      BY <3>2 DEF Answers, Refusal
    <3>3. CASE TravelsAsViews(q) /\ Answers(q, "views", Finished(q, FromViews(q, Candidates(q))))
      BY <3>3 DEF Answers, ScanOf
    <3>4. CASE ~TravelsAsViews(q) /\ Answers(q, "built", Finished(q, FromBuilt(q, Candidates(q))))
      BY <3>4 DEF Answers, ScanOf
    <3> QED BY <3>1, <3>2, <3>3, <3>4
  <2>2. page = Paged(q, Grouped(q, ScannedRows(q)), ScanOf(q).shed)
    BY <2>1, FinishedIs
  <2>3. Grouped(q, ScannedRows(q)) = ScannedRows(q)
    BY DEF Grouped
  <2>4. Suffices(q, ScannedRows(q), ScanOf(q).shed)
    BY ScanSuffices
  <2> HIDE DEF page
  <2>5. ExactPage(q, all, page.rows) /\ page.total = Cardinality(all)
    BY <2>2, <2>3, <2>4, SufficesExact
  <2> QED BY <2>1, <2>5
<1> QED BY <1>1, <1>2, <1>3

-----------------------------------------------------------------------------
\* Groups.

(* A row of an answer as a group, how many rows that match have a value,   *)
(* and the groups of them all.                                             *)
GroupOf(q, r) == [value |-> Field(r, q.group), count |-> r.count]
CountOf(q, v) == Cardinality({r \in MatchingOf(q) : Field(r, q.group) = v})
GroupsOf(q) == {[value |-> v, count |-> CountOf(q, v)] : v \in {Field(r, q.group) : r \in MatchingOf(q)}}
GroupRows == [Fields -> Nat]

(* The rows of gs are the groups of the rows that match.                   *)
GroupsFit(q, gs) ==
  /\ gs \in Seq(GroupRows) /\ Distinct(gs)
  /\ \A r \in Range(gs) : GroupOf(q, r) \in GroupsOf(q)
  /\ \A g \in GroupsOf(q) : \E r \in Range(gs) : GroupOf(q, r) = g
  /\ \A r, s \in Range(gs) : Field(r, q.group) = Field(s, q.group) => r = s

Better(q, g, h) ==
  LET key(x) == IF q.order = "count" THEN x.count ELSE x.value
  IN /\ q.order \in {"count", q.group}
     /\ IF q.descending THEN key(g) > key(h) ELSE key(g) < key(h)

GroupPage(q, all, rows) ==
  /\ Len(rows) = PageLen(q, Cardinality(all))
  /\ \A i, j \in DOMAIN rows : i # j => GroupOf(q, rows[i]) # GroupOf(q, rows[j])
  /\ \A i \in DOMAIN rows :
       /\ GroupOf(q, rows[i]) \in all
       /\ Cardinality({h \in all : Better(q, h, GroupOf(q, rows[i]))}) < q.offset + i
       /\ q.offset + i <= Cardinality({h \in all : ~Better(q, GroupOf(q, rows[i]), h)})

(* The first n of f are different.                                         *)
Tells(f, n) == \A i, j \in 1..n : f[i] = f[j] => i = j

LEMMA ImageCard ==
  ASSUME NEW f, NEW n \in Nat, Tells(f, n)
  PROVE  IsFiniteSet({f[i] : i \in 1..n}) /\ Cardinality({f[i] : i \in 1..n}) = n
<1> DEFINE B == {f[i] : i \in 1..n}
<1> DEFINE g == [i \in 1..n |-> f[i]]
<1>1. g \in [1..n -> B] /\ \A i \in 1..n : g[i] = f[i]
  OBVIOUS
<1>2. \A b \in B : \E i \in 1..n : g[i] = b
  OBVIOUS
<1>3. g \in Bijection(1..n, B)
  <2> HIDE DEF g, B
  <2>1. \A i, j \in 1..n : g[i] = g[j] => i = j
    BY <1>1 DEF Tells
  <2>2. g \in Injection(1..n, B)
    BY <1>1, <2>1 DEF Injection, IsInjective
  <2>3. g \in Surjection(1..n, B)
    BY <1>1, <1>2 DEF Surjection
  <2> QED BY <2>2, <2>3 DEF Bijection
<1> HIDE DEF g, B
<1>4. IsFiniteSet(1..n) /\ Cardinality(1..n) = n
  BY IntervalFacts
<1>5. IsFiniteSet(B) /\ Cardinality(B) = n
  BY <1>3, <1>4, FS_Bijection DEF ExistsBijection
<1> QED BY <1>5 DEF B

LEMMA BetterIsBefore ==
  ASSUME NEW q, q.group \in Fields \ {"count"}, NEW r \in GroupRows, NEW s \in GroupRows,
         Better(q, GroupOf(q, r), GroupOf(q, s))
  PROVE  Before(q, r, s)
<1>1. Field(r, "count") = r.count /\ Field(s, "count") = s.count
  BY DEF GroupRows, Fields, Field
<1>2. r \in SortRow /\ s \in SortRow
  BY DEF GroupRows, SortRow
<1>3. /\ Field(r, "count") \in Nat /\ Field(s, "count") \in Nat
      /\ Field(r, q.group) \in Nat /\ Field(s, q.group) \in Nat
  BY <1>2, FieldFacts DEF Fields
<1>4. GroupOf(q, r) = [value |-> Field(r, q.group), count |-> r.count]
        /\ GroupOf(q, s) = [value |-> Field(s, q.group), count |-> s.count]
  BY DEF GroupOf
<1>5. q.order # "none" /\ (q.order = "count" \/ q.order = q.group)
  BY DEF Better, Fields
<1>6. IF q.descending THEN Field(r, q.order) > Field(s, q.order)
                      ELSE Field(r, q.order) < Field(s, q.order)
  <2>1. CASE q.order = "count"
    BY <1>1, <1>4, <2>1 DEF Better
  <2>2. CASE q.order # "count"
    BY <1>4, <1>5, <2>2 DEF Better
  <2> QED BY <2>1, <2>2
<1>7. Field(r, q.order) \in Nat /\ Field(s, q.order) \in Nat
  BY <1>3, <1>5
<1>8. Field(r, q.order) # Field(s, q.order)
  BY <1>6, <1>7
<1> QED BY <1>5, <1>6, <1>8 DEF Before

LEMMA GroupsPaged ==
  ASSUME NEW q, IsClause(q), q.group \in Fields \ {"count"}, NEW gs, GroupsFit(q, gs),
         NEW all, all = {g \in GroupsOf(q) : g.count >= q.having}
  PROVE  /\ GroupPage(q, all, Paged(q, gs, 0).rows)
         /\ Paged(q, gs, 0).total = Cardinality(all)
<1> DEFINE page == Paged(q, gs, 0)
<1>0. /\ gs \in Seq(GroupRows) /\ Distinct(gs)
      /\ \A r \in Range(gs) : GroupOf(q, r) \in GroupsOf(q)
      /\ \A g \in GroupsOf(q) : \E r \in Range(gs) : GroupOf(q, r) = g
      /\ \A r, s \in Range(gs) : Field(r, q.group) = Field(s, q.group) => r = s
  BY DEF GroupsFit
<1>1. GroupRows \subseteq SortRow
  BY DEF GroupRows, SortRow
<1>2. /\ \E T \in Seq(GroupRows) : CutFrom(q, gs, page, T)
      /\ page.total = Cardinality(HadAt(q, gs)) + 0
  <2>1. PICK z : z = 0
    OBVIOUS
  <2>2. PICK X : X = GroupRows
    OBVIOUS
  <2>3. X \subseteq SortRow /\ gs \in Seq(X) /\ Distinct(gs)
    BY <1>0, <1>1, <2>2
  <2>4. /\ \E T \in Seq(X) : CutFrom(q, gs, Paged(q, gs, z), T)
        /\ Paged(q, gs, z).total = Cardinality(HadAt(q, gs)) + z
    BY <2>3, PagedFacts
  <2> QED BY <2>1, <2>2, <2>4
<1>3. PICK T \in Seq(GroupRows) : CutFrom(q, gs, page, T)
  BY <1>2
<1>4. /\ Distinct(T) /\ Sorted(q, T)
      /\ Range(T) = {gs[i] : i \in HadAt(q, gs)}
      /\ Len(T) = Cardinality(HadAt(q, gs))
      /\ Len(page.rows) = PageLen(q, Len(T))
      /\ \A i \in DOMAIN page.rows : /\ i \in Nat /\ i >= 1 /\ q.offset + i \in DOMAIN T
                                     /\ page.rows[i] = T[q.offset + i]
  BY <1>3 DEF CutFrom
<1> HIDE DEF page
<1> DEFINE N == Len(T)
<1> DEFINE f == [p \in 1..N |-> GroupOf(q, T[p])]
<1>5. N \in Nat /\ DOMAIN T = 1..N /\ \A p \in 1..N : T[p] \in GroupRows
  OBVIOUS
<1>6. Range(T) = {r \in Range(gs) : r.count >= q.having}
  <2>1. \A r \in GroupRows : Field(r, "count") = r.count /\ r.count \in Nat
    BY DEF GroupRows, Fields, Field
  <2>2. \A i \in DOMAIN gs : gs[i] \in GroupRows
    BY <1>0
  <2>3. q.having \in Nat
    BY DEF IsClause
  <2>4. \A i \in DOMAIN gs : i \in HadAt(q, gs) <=> gs[i].count >= q.having
    BY <2>1, <2>2, <2>3 DEF HadAt
  <2>5. HadAt(q, gs) \subseteq DOMAIN gs
    BY DEF HadAt
  <2> QED BY <1>4, <2>4, <2>5 DEF Range
<1>7. all = {f[p] : p \in 1..N}
  <2>1. ASSUME NEW g \in all PROVE \E p \in 1..N : g = f[p]
    <3>1. PICK r \in Range(gs) : GroupOf(q, r) = g
      BY <1>0, <2>1
    <3>2. r.count >= q.having
      BY <3>1 DEF GroupOf
    <3>3. r \in Range(T)
      BY <1>6, <3>2
    <3>4. PICK p \in 1..N : r = T[p]
      BY <1>5, <3>3 DEF Range
    <3> QED BY <3>1, <3>4
  <2>2. ASSUME NEW p \in 1..N PROVE f[p] \in all
    <3>1. T[p] \in Range(T)
      BY <1>5 DEF Range
    <3>2. T[p] \in Range(gs) /\ T[p].count >= q.having
      BY <1>6, <3>1
    <3>3. f[p] = GroupOf(q, T[p]) /\ f[p] \in GroupsOf(q)
      BY <1>0, <3>2
    <3>4. f[p].count = T[p].count
      BY <3>3 DEF GroupOf
    <3> QED BY <3>2, <3>3, <3>4
  <2> HIDE DEF f
  <2> QED BY <2>1, <2>2
<1>8. \A i, j \in 1..N : f[i] = f[j] => i = j
  <2> SUFFICES ASSUME NEW i \in 1..N, NEW j \in 1..N, f[i] = f[j] PROVE i = j
    OBVIOUS
  <2>1. Field(T[i], q.group) = Field(T[j], q.group)
    BY DEF GroupOf
  <2>2. T[i] \in Range(gs) /\ T[j] \in Range(gs)
    BY <1>5, <1>6 DEF Range
  <2>3. T[i] = T[j]
    BY <1>0, <2>1, <2>2
  <2>4. \A a, b \in DOMAIN T : T[a] = T[b] => a = b
    BY <1>4, DistinctFacts
  <2> QED BY <1>5, <2>3, <2>4
<1>9. \A i, j \in 1..N : Better(q, f[i], f[j]) => i < j
  <2> SUFFICES ASSUME NEW i \in 1..N, NEW j \in 1..N, Better(q, f[i], f[j]) PROVE i < j
    OBVIOUS
  <2>1. Before(q, T[i], T[j])
    BY <1>5, BetterIsBefore
  <2> QED BY <1>4, <1>5, <2>1 DEF Sorted
<1>10. \A p \in 1..N : f[p] = GroupOf(q, T[p])
  OBVIOUS
<1> HIDE DEF f
<1>11. IsFiniteSet(all) /\ Cardinality(all) = N
  <2>1. IsFiniteSet({f[i] : i \in 1..N}) /\ Cardinality({f[i] : i \in 1..N}) = N
    <3> HIDE DEF N
    <3>1. Tells(f, N)
      BY <1>8 DEF Tells
    <3> QED BY <1>5, <3>1, ImageCard
  <2> QED BY <1>7, <2>1
<1>12. ASSUME NEW p \in 1..N
       PROVE  /\ Cardinality({h \in all : Better(q, h, f[p])}) < p
              /\ p <= Cardinality({h \in all : ~Better(q, f[p], h)})
  <2> DEFINE A == {h \in all : Better(q, h, f[p])}
  <2> DEFINE B == {h \in all : ~Better(q, f[p], h)}
  <2> DEFINE below == {f[i] : i \in 1..(p - 1)}
  <2> DEFINE upTo == {f[i] : i \in 1..p}
  <2>1. p \in Nat /\ p - 1 \in Nat /\ 1..p \subseteq 1..N /\ 1..(p - 1) \subseteq 1..p
    BY <1>5
  <2>2. IsFiniteSet(below) /\ Cardinality(below) = p - 1
    <3>1. PICK m \in Nat : m = p - 1
      BY <2>1
    <3>2. Tells(f, m)
      BY <1>8, <2>1, <3>1 DEF Tells
    <3>3. IsFiniteSet({f[i] : i \in 1..m}) /\ Cardinality({f[i] : i \in 1..m}) = m
      BY <3>2, ImageCard
    <3> QED BY <3>1, <3>3
  <2>3. IsFiniteSet(upTo) /\ Cardinality(upTo) = p
    <3>1. Tells(f, p)
      BY <1>8, <2>1 DEF Tells
    <3> QED BY <2>1, <3>1, ImageCard
  <2>4. A \subseteq below
    <3> SUFFICES ASSUME NEW h \in A PROVE h \in below
      OBVIOUS
    <3>1. PICK i \in 1..N : h = f[i]
      BY <1>7
    <3>2. i < p
      BY <1>9, <3>1
    <3>3. i \in 1..(p - 1)
      BY <1>5, <3>2
    <3> QED BY <3>1, <3>3
  <2>5. upTo \subseteq B
    <3> SUFFICES ASSUME NEW i \in 1..p PROVE f[i] \in B
      OBVIOUS
    <3>1. i \in 1..N /\ ~(p < i) /\ f[i] \in all
      BY <1>7, <2>1
    <3>2. ~Better(q, f[p], f[i])
      BY <1>9, <3>1
    <3> QED BY <3>1, <3>2
  <2>6. B \subseteq all
    OBVIOUS
  <2> HIDE DEF A, B, below, upTo
  <2>7. IsFiniteSet(B) /\ Cardinality(upTo) <= Cardinality(B)
    <3>1. IsFiniteSet(B)
      BY <1>11, <2>6, FS_Subset
    <3> QED BY <2>5, <3>1, FS_Subset
  <2>8. IsFiniteSet(A) /\ Cardinality(A) <= Cardinality(below)
    BY <2>2, <2>4, FS_Subset
  <2>9. Cardinality(A) \in Nat /\ Cardinality(B) \in Nat
    BY <2>7, <2>8, FS_CardinalityType
  <2>10. Cardinality(A) < p /\ p <= Cardinality(B)
    BY <2>1, <2>2, <2>3, <2>7, <2>8, <2>9
  <2> QED BY <2>10 DEF A, B
<1>13. page.total = Cardinality(all)
  BY <1>2, <1>4, <1>5, <1>11
<1>14. ASSUME NEW i \in DOMAIN page.rows
       PROVE  q.offset + i \in 1..N /\ GroupOf(q, page.rows[i]) = f[q.offset + i] /\ i \in Nat
  BY <1>4, <1>5, <1>10
<1>15. GroupPage(q, all, page.rows)
  <2>1. Len(page.rows) = PageLen(q, Cardinality(all))
    BY <1>4, <1>11
  <2>2. ASSUME NEW i \in DOMAIN page.rows, NEW j \in DOMAIN page.rows, i # j
        PROVE  GroupOf(q, page.rows[i]) # GroupOf(q, page.rows[j])
    <3>1. q.offset \in Nat
      BY DEF IsClause
    <3>2. q.offset + i # q.offset + j
      BY <1>14, <2>2, <3>1
    <3> QED BY <1>8, <1>14, <3>2
  <2>3. ASSUME NEW i \in DOMAIN page.rows
        PROVE  /\ GroupOf(q, page.rows[i]) \in all
               /\ Cardinality({h \in all : Better(q, h, GroupOf(q, page.rows[i]))}) < q.offset + i
               /\ q.offset + i <= Cardinality({h \in all : ~Better(q, GroupOf(q, page.rows[i]), h)})
    <3>1. PICK p \in 1..N : p = q.offset + i /\ GroupOf(q, page.rows[i]) = f[p]
      BY <1>14
    <3>2. f[p] \in all
      BY <1>7
    <3> QED BY <1>12, <3>1, <3>2
  <2> QED BY <2>1, <2>2, <2>3 DEF GroupPage
<1> QED BY <1>13, <1>15 DEF page

(* A set of positions has as many rows.                                    *)
LEMMA PositionsCard ==
  ASSUME NEW X, NEW rows \in Seq(X), Distinct(rows), NEW at, at \subseteq DOMAIN rows
  PROVE  Cardinality({rows[i] : i \in at}) = Cardinality(at)
<1> DEFINE P == RowsAt(rows, at)
<1>1. P \in Seq(X) /\ Len(P) = Cardinality(at) /\ Range(P) = {rows[i] : i \in at}
  BY RowsAtFacts
<1>2. Distinct(P)
  <2>1. \A i, j \in at : i # j => ~SameRow(rows[i], rows[j])
    BY DEF Distinct
  <2> QED BY <2>1, RowsAtDistinct
<1> HIDE DEF P
<1>3. Cardinality(Range(P)) = Len(P)
  BY <1>1, <1>2, DistinctFacts
<1> QED BY <1>1, <1>3

(* The rows grouped are the groups.                                        *)
LEMMA GroupedFit ==
  ASSUME NEW q, q.group \in Fields \ {"count"}, NEW rows \in Seq(Row), Distinct(rows),
         Range(rows) = MatchingOf(q)
  PROVE  GroupsFit(q, Grouped(q, rows))
<1> DEFINE D == DOMAIN rows
<1> DEFINE alike(i) == {j \in D : Field(rows[j], q.group) = Field(rows[i], q.group)}
<1> DEFINE counted == [i \in D |->
                         [x \in Fields |-> IF x = "count" THEN Cardinality(alike(i)) ELSE rows[i][x]]]
<1> DEFINE at == {i \in D : i = Min(alike(i))}
<1> DEFINE gs == RowsAt(counted, at)
<1>1. Grouped(q, rows) = gs
  BY DEF Grouped, Fields
<1>2. /\ D = 1..Len(rows) /\ Len(rows) \in Nat /\ IsFiniteSet(D)
      /\ \A i \in D : rows[i] \in Row /\ rows[i] \in MatchingOf(q)
  BY IntervalFacts DEF Range
<1>3. \A i \in D : Cardinality(alike(i)) \in Nat
  <2> SUFFICES ASSUME NEW i \in D PROVE Cardinality(alike(i)) \in Nat
    OBVIOUS
  <2>1. alike(i) \subseteq D
    OBVIOUS
  <2> DEFINE A == alike(i)
  <2> HIDE DEF A, D
  <2>2. A \subseteq D
    BY <2>1 DEF A
  <2>3. Cardinality(A) \in Nat
    BY <1>2, <2>2, FS_Subset, FS_CardinalityType
  <2> QED BY <2>3 DEF A
<1>4. \A i \in D : counted[i] = [x \in Fields |-> IF x = "count" THEN Cardinality(alike(i)) ELSE rows[i][x]]
  OBVIOUS
<1>5. \A i \in D : counted[i] \in GroupRows
  <2> SUFFICES ASSUME NEW i \in D PROVE counted[i] \in GroupRows
    OBVIOUS
  <2>1. \A x \in Fields \ {"count"} : rows[i][x] \in Nat
    BY <1>2 DEF Row, Fields
  <2> HIDE DEF alike, counted, D
  <2> QED BY <1>3, <1>4, <2>1 DEF GroupRows
<1>6. counted \in Seq(GroupRows) /\ DOMAIN counted = D
  <2>1. counted \in [1..Len(rows) -> GroupRows]
    BY <1>2, <1>5
  <2> HIDE DEF counted
  <2> QED BY <1>2, <2>1
<1>7. /\ \A i \in D : counted[i].count = Cardinality(alike(i))
      /\ \A i \in D : Field(counted[i], q.group) = Field(rows[i], q.group)
      /\ \A i, j \in D : SameRow(counted[i], counted[j]) => SameRow(rows[i], rows[j])
  <2>1. ASSUME NEW i \in D
        PROVE  /\ counted[i].count = Cardinality(alike(i))
               /\ \A x \in {"name", "kind", "path", "line", "val"} : counted[i][x] = rows[i][x]
    <3> HIDE DEF alike, counted, D
    <3> QED BY <1>4 DEF Fields
  <2>2. ASSUME NEW i \in D PROVE Field(counted[i], q.group) = Field(rows[i], q.group)
    <3> HIDE DEF alike, counted, D
    <3>1. q.group \in {"name", "kind", "path", "line", "val"}
      BY DEF Fields
    <3>2. CASE q.group = "val"
      BY <2>1, <3>2 DEF Field, ResolvedValue
    <3>3. CASE q.group \in {"name", "kind", "path", "line"}
      BY <2>1, <3>3 DEF Field
    <3> QED BY <3>1, <3>2, <3>3
  <2>3. \A i, j \in D : SameRow(counted[i], counted[j]) => SameRow(rows[i], rows[j])
    <3> HIDE DEF alike, counted, D
    <3> QED BY <2>1, SameRowIs
  <2> QED BY <2>1, <2>2, <2>3
<1>8. at \subseteq D
  OBVIOUS
<1>9. \A i \in D : i \in at <=> i = Min(alike(i))
  OBVIOUS
<1> HIDE DEF counted, at
<1>10. /\ gs \in Seq(GroupRows) /\ Range(gs) = {counted[i] : i \in at}
  BY <1>6, <1>8, RowsAtFacts
<1>11. Distinct(gs)
  <2>1. \A i, j \in at : i # j => ~SameRow(counted[i], counted[j])
    BY <1>7, <1>8 DEF Distinct
  <2> HIDE DEF D
  <2> QED BY <1>6, <1>8, <2>1, RowsAtDistinct
<1>12. ASSUME NEW i \in D PROVE Cardinality(alike(i)) = CountOf(q, Field(rows[i], q.group))
  <2> DEFINE A == alike(i)
  <2>1. A \subseteq DOMAIN rows
    OBVIOUS
  <2>2. {rows[j] : j \in A} = {r \in MatchingOf(q) : Field(r, q.group) = Field(rows[i], q.group)}
    BY DEF Range
  <2>3. Cardinality({rows[j] : j \in A}) = Cardinality(A)
    <3> HIDE DEF A
    <3> QED BY <2>1, PositionsCard
  <2> QED BY <2>2, <2>3 DEF CountOf
<1>13. ASSUME NEW i \in D
       PROVE  GroupOf(q, counted[i]) = [value |-> Field(rows[i], q.group),
                                        count |-> CountOf(q, Field(rows[i], q.group))]
  <2> HIDE DEF alike
  <2> QED BY <1>7, <1>12 DEF GroupOf
<1>14. ASSUME NEW i \in D
       PROVE  \E k \in at : Field(rows[k], q.group) = Field(rows[i], q.group)
  <2> DEFINE A == alike(i)
  <2>1. i \in A /\ A \subseteq Nat /\ A \subseteq D
    BY <1>2
  <2>2. PICK k \in A : \A m \in A : k <= m
    <3> HIDE DEF A
    <3> QED BY <2>1, LeastOf
  <2>3. Min(A) \in A /\ \A m \in A : Min(A) <= m
    <3> HIDE DEF A
    <3> QED BY <2>2 DEF Min
  <2>4. Field(rows[Min(A)], q.group) = Field(rows[i], q.group) /\ Min(A) \in D
    BY <2>3
  <2>5. alike(Min(A)) = A
    BY <2>4
  <2>6. Min(A) \in at
    BY <1>9, <2>4, <2>5
  <2> QED BY <2>4, <2>6
<1>15. \A i, j \in at : Field(rows[i], q.group) = Field(rows[j], q.group) => i = j
  <2> SUFFICES ASSUME NEW i \in at, NEW j \in at, Field(rows[i], q.group) = Field(rows[j], q.group)
               PROVE  i = j
    OBVIOUS
  <2>1. alike(i) = alike(j)
    OBVIOUS
  <2> QED BY <1>8, <1>9, <2>1
<1> HIDE DEF gs, alike
<1>16. \A r \in Range(gs) : GroupOf(q, r) \in GroupsOf(q)
  <2> SUFFICES ASSUME NEW i \in at PROVE GroupOf(q, counted[i]) \in GroupsOf(q)
    BY <1>10
  <2>1. i \in D /\ rows[i] \in MatchingOf(q)
    BY <1>2, <1>8
  <2> QED BY <1>13, <2>1 DEF GroupsOf
<1>17. \A g \in GroupsOf(q) : \E r \in Range(gs) : GroupOf(q, r) = g
  <2> SUFFICES ASSUME NEW g \in GroupsOf(q) PROVE \E r \in Range(gs) : GroupOf(q, r) = g
    OBVIOUS
  <2>1. PICK r \in MatchingOf(q) : g = [value |-> Field(r, q.group), count |-> CountOf(q, Field(r, q.group))]
    BY DEF GroupsOf
  <2>2. PICK i \in D : r = rows[i]
    BY DEF Range
  <2>3. PICK k \in at : Field(rows[k], q.group) = Field(rows[i], q.group)
    BY <1>14
  <2>4. GroupOf(q, counted[k]) = g
    BY <1>8, <1>13, <2>1, <2>2, <2>3
  <2> QED BY <1>10, <2>4
<1>18. \A r, s \in Range(gs) : Field(r, q.group) = Field(s, q.group) => r = s
  <2> SUFFICES ASSUME NEW i \in at, NEW j \in at,
                      Field(counted[i], q.group) = Field(counted[j], q.group)
               PROVE  counted[i] = counted[j]
    BY <1>10
  <2>1. Field(rows[i], q.group) = Field(rows[j], q.group)
    BY <1>7, <1>8
  <2> QED BY <1>15, <2>1
<1> QED BY <1>1, <1>10, <1>11, <1>16, <1>17, <1>18 DEF GroupsFit

-----------------------------------------------------------------------------
\* The groupings counted from the overlay.

LEMMA SetToSeqFacts ==
  ASSUME NEW S, IsFiniteSet(S)
  PROVE  /\ SetToSeq(S) \in Seq(S) /\ Range(SetToSeq(S)) = S
         /\ \A i, j \in DOMAIN SetToSeq(S) : SetToSeq(S)[i] = SetToSeq(S)[j] => i = j
<1> DEFINE n == Cardinality(S)
<1> DEFINE f == SetToSeq(S)
<1>1. n \in Nat /\ ExistsBijection(1..n, S)
  BY FS_CardinalityType
<1>2. \E g \in [1..n -> S] : IsInjective(g)
  BY <1>1 DEF ExistsBijection, Bijection, Injection
<1>3. f \in [1..n -> S] /\ IsInjective(f)
  BY <1>2 DEF SetToSeq
<1> HIDE DEF f, n
<1>4. f \in Injection(1..n, S)
  BY <1>3 DEF Injection
<1>5. Cardinality(1..n) = n /\ n = Cardinality(S)
  BY <1>1, IntervalFacts DEF n
<1>6. f \in Surjection(1..n, S)
  BY <1>4, <1>5, FS_Injection
<1>7. f \in Seq(S) /\ DOMAIN f = 1..n
  BY <1>1, <1>3
<1>8. Range(f) = S
  BY <1>3, <1>6 DEF Surjection, Range
<1>9. \A i, j \in DOMAIN f : f[i] = f[j] => i = j
  BY <1>3 DEF IsInjective
<1> QED BY <1>7, <1>8, <1>9 DEF f

(* A row for each value that some row has.                                 *)
CountedRows(q) == {GroupRow(q.group, v, CountOf(q, v)) : v \in {n \in Nat : CountOf(q, n) > 0}}

LEMMA GroupRowFacts ==
  ASSUME NEW f \in {"path", "kind", "val"}, NEW v \in Nat, NEW n \in Nat
  PROVE  /\ GroupRow(f, v, n) \in GroupRows /\ GroupRow(f, v, n).count = n
         /\ Field(GroupRow(f, v, n), f) = v
         /\ f = "path" => GroupRow(f, v, n).path = v
         /\ f = "kind" => GroupRow(f, v, n).kind = v
         /\ f = "val" => GroupRow(f, v, n).name = v
<1> DEFINE g == GroupRow(f, v, n)
<1>1. g = [x \in Fields |-> CASE x = f -> v
                              [] x = "count" -> n
                              [] x = "name" /\ f # "path" -> v
                              [] OTHER -> 0]
  BY DEF GroupRow
<1>2. ASSUME NEW x \in Fields
      PROVE  g[x] = IF x = f THEN v
                    ELSE IF x = "count" THEN n
                    ELSE IF x = "name" /\ f # "path" THEN v ELSE 0
  <2>1. g[x] = CASE x = f -> v
                 [] x = "count" -> n
                 [] x = "name" /\ f # "path" -> v
                 [] OTHER -> 0
    BY <1>1
  <2>2. f # "count" /\ f # "name"
    OBVIOUS
  <2> HIDE DEF g
  <2>3. CASE x = f
    BY <2>1, <2>2, <2>3
  <2>4. CASE x # f /\ x = "count"
    BY <2>1, <2>4
  <2>5. CASE x # f /\ x # "count" /\ x = "name" /\ f # "path"
    BY <2>1, <2>5
  <2>6. CASE x # f /\ x # "count" /\ ~(x = "name" /\ f # "path")
    BY <2>1, <2>6
  <2> QED BY <2>3, <2>4, <2>5, <2>6
<1>3. DOMAIN g = Fields /\ g = [x \in Fields |-> g[x]]
  BY <1>1
<1> HIDE DEF g
<1>4. \A x \in Fields : g[x] \in Nat
  BY <1>2
<1>5. g \in GroupRows
  BY <1>3, <1>4 DEF GroupRows
<1>6. g.count = n
  BY <1>2 DEF Fields
<1>7. f = "path" => g.path = v /\ Field(g, f) = v
  BY <1>2 DEF Fields, Field
<1>8. f = "kind" => g.kind = v /\ g.name = v /\ Field(g, f) = v
  BY <1>2 DEF Fields, Field
<1>9. f = "val" => g.name = v /\ Field(g, f) = v
  <2> SUFFICES ASSUME f = "val" PROVE g.name = v /\ Field(g, f) = v
    OBVIOUS
  <2>1. g.name = v /\ g.val = v /\ g.kind = 0
    BY <1>2 DEF Fields
  <2>2. 0 \notin Applicable
    BY FindAssumption
  <2> QED BY <2>1, <2>2 DEF Field, ResolvedValue
<1> QED BY <1>5, <1>6, <1>7, <1>8, <1>9 DEF g

LEMMA CountFacts ==
  ASSUME IndexOK, NEW q, Alike(q), q.group \in Fields \ {"count"}
  PROVE  /\ \A v : CountOf(q, v) \in Nat
         /\ \A v : CountOf(q, v) > 0 <=> \E r \in MatchingOf(q) : Field(r, q.group) = v
         /\ \A r \in MatchingOf(q) : Field(r, q.group) \in Nat
         /\ IsFiniteSet(MatchingOf(q))
<1>1. IsFiniteSet(MatchingOf(q)) /\ MatchingOf(q) \subseteq Row
  BY MatchingIs
<1>2. ASSUME NEW v
      PROVE  /\ CountOf(q, v) \in Nat
             /\ CountOf(q, v) > 0 <=> \E r \in MatchingOf(q) : Field(r, q.group) = v
  <2> DEFINE C == {r \in MatchingOf(q) : Field(r, q.group) = v}
  <2>0. C \subseteq MatchingOf(q)
    OBVIOUS
  <2>1. C # {} <=> \E r \in MatchingOf(q) : Field(r, q.group) = v
    OBVIOUS
  <2>2. CountOf(q, v) = Cardinality(C)
    BY DEF CountOf
  <2> HIDE DEF C
  <2>3. IsFiniteSet(C)
    BY <1>1, <2>0, FS_Subset
  <2>4. Cardinality(C) \in Nat /\ (Cardinality(C) = 0 <=> C = {})
    BY <2>3, FS_CardinalityType, FS_EmptySet
  <2> QED BY <2>1, <2>2, <2>4
<1>3. \A r \in MatchingOf(q) : Field(r, q.group) \in Nat
  <2>1. \A r \in Row : r \in SortRow
    BY DEF SortRow
  <2> QED BY <1>1, <2>1, FieldFacts
<1> QED BY <1>1, <1>2, <1>3

LEMMA CountedFit ==
  ASSUME IndexOK, NEW q, Alike(q), q.group \in {"path", "kind", "val"}
  PROVE  GroupsFit(q, SetToSeq(CountedRows(q)))
<1> DEFINE M == MatchingOf(q)
<1> DEFINE row(v) == GroupRow(q.group, v, CountOf(q, v))
<1> DEFINE S == CountedRows(q)
<1> DEFINE gs == SetToSeq(S)
<1>1. /\ \A v : CountOf(q, v) \in Nat
      /\ \A v : CountOf(q, v) > 0 <=> \E r \in M : Field(r, q.group) = v
      /\ \A r \in M : Field(r, q.group) \in Nat
      /\ IsFiniteSet(M)
  BY CountFacts DEF Fields
<1>2. S = {row(v) : v \in {n \in Nat : CountOf(q, n) > 0}}
  BY DEF CountedRows
<1>3. ASSUME NEW v \in Nat
      PROVE  /\ row(v) \in GroupRows /\ row(v).count = CountOf(q, v) /\ Field(row(v), q.group) = v
             /\ q.group = "path" => row(v).path = v
             /\ q.group = "kind" => row(v).kind = v
             /\ q.group = "val" => row(v).name = v
  BY <1>1, GroupRowFacts
<1> HIDE DEF row, S
<1>4. \A r \in S : \E v \in Nat : r = row(v) /\ CountOf(q, v) > 0
  BY <1>2
<1>5. IsFiniteSet(S)
  <2> DEFINE f == [r \in M |-> row(Field(r, q.group))]
  <2>1. \A r \in M : row(Field(r, q.group)) \in S
    BY <1>1, <1>2
  <2>2. f \in [M -> S]
    BY <2>1
  <2>3. \A s \in S : \E r \in M : f[r] = s
    <3> SUFFICES ASSUME NEW s \in S PROVE \E r \in M : f[r] = s
      OBVIOUS
    <3>1. PICK v \in Nat : s = row(v) /\ CountOf(q, v) > 0
      BY <1>4
    <3>2. PICK r \in M : Field(r, q.group) = v
      BY <1>1, <3>1
    <3> QED BY <3>1, <3>2
  <2> HIDE DEF f, M
  <2>4. f \in Surjection(M, S)
    BY <2>2, <2>3 DEF Surjection
  <2> QED BY <1>1, <2>4, FS_Surjection
<1>6. /\ gs \in Seq(S) /\ Range(gs) = S
      /\ \A i, j \in DOMAIN gs : gs[i] = gs[j] => i = j
  BY <1>5, SetToSeqFacts
<1> HIDE DEF gs
<1>7. \A r, s \in S : Field(r, q.group) = Field(s, q.group) => r = s
  <2> SUFFICES ASSUME NEW r \in S, NEW s \in S, Field(r, q.group) = Field(s, q.group) PROVE r = s
    OBVIOUS
  <2>1. PICK v \in Nat : r = row(v)
    BY <1>4
  <2>2. PICK w \in Nat : s = row(w)
    BY <1>4
  <2> QED BY <1>3, <2>1, <2>2
<1>8. \A r, s \in S : SameRow(r, s) => r = s
  <2> SUFFICES ASSUME NEW r \in S, NEW s \in S, SameRow(r, s) PROVE r = s
    OBVIOUS
  <2>1. PICK v \in Nat : r = row(v)
    BY <1>4
  <2>2. PICK w \in Nat : s = row(w)
    BY <1>4
  <2>3. r.path = s.path /\ r.kind = s.kind /\ r.name = s.name
    BY SameRowIs
  <2>4. v = w
    <3>1. CASE q.group = "path"
      BY <1>3, <2>1, <2>2, <2>3, <3>1
    <3>2. CASE q.group = "kind"
      BY <1>3, <2>1, <2>2, <2>3, <3>2
    <3>3. CASE q.group = "val"
      BY <1>3, <2>1, <2>2, <2>3, <3>3
    <3> QED BY <3>1, <3>2, <3>3
  <2> QED BY <2>1, <2>2, <2>4
<1>9. gs \in Seq(GroupRows) /\ Distinct(gs)
  <2>1. S \subseteq GroupRows
    BY <1>3, <1>4
  <2>2. \A i \in DOMAIN gs : gs[i] \in S
    BY <1>6
  <2>3. gs \in [1..Len(gs) -> GroupRows] /\ Len(gs) \in Nat
    <3>1. gs \in [1..Len(gs) -> S] /\ Len(gs) \in Nat
      BY <1>6
    <3> QED BY <2>1, <3>1
  <2>4. gs \in Seq(GroupRows)
    BY <2>3
  <2>5. Distinct(gs)
    BY <1>6, <1>8, <2>2 DEF Distinct
  <2> QED BY <2>4, <2>5
<1>10. \A r \in Range(gs) : GroupOf(q, r) \in GroupsOf(q)
  <2> SUFFICES ASSUME NEW r \in S PROVE GroupOf(q, r) \in GroupsOf(q)
    BY <1>6
  <2>1. PICK v \in Nat : r = row(v) /\ CountOf(q, v) > 0
    BY <1>4
  <2>2. GroupOf(q, r) = [value |-> v, count |-> CountOf(q, v)]
    BY <1>3, <2>1 DEF GroupOf
  <2>3. PICK m \in M : Field(m, q.group) = v
    BY <1>1, <2>1
  <2> QED BY <2>2, <2>3 DEF GroupsOf
<1>11. \A g \in GroupsOf(q) : \E r \in Range(gs) : GroupOf(q, r) = g
  <2> SUFFICES ASSUME NEW g \in GroupsOf(q) PROVE \E r \in S : GroupOf(q, r) = g
    BY <1>6
  <2>1. PICK m \in M : g = [value |-> Field(m, q.group), count |-> CountOf(q, Field(m, q.group))]
    BY DEF GroupsOf
  <2>2. PICK v \in Nat : v = Field(m, q.group)
    BY <1>1
  <2>3. CountOf(q, v) > 0
    BY <1>1, <2>2
  <2>4. row(v) \in S
    BY <1>2, <2>3
  <2>5. GroupOf(q, row(v)) = g
    BY <1>3, <2>1, <2>2 DEF GroupOf
  <2> QED BY <2>4, <2>5
<1>12. \A r, s \in Range(gs) : Field(r, q.group) = Field(s, q.group) => r = s
  BY <1>6, <1>7
<1> QED BY <1>9, <1>10, <1>11, <1>12 DEF GroupsFit, gs, S

(* The row ids the query wants of an overlay alone.                        *)
Chosen(q) == {id \in Canonical : At(id) \in Good(q)}

LEMMA FirstsApart ==
  ASSUME NEW rows \in Seq(Row), NEW i \in Firsts(rows), NEW j \in Firsts(rows),
         SameRow(rows[i], rows[j])
  PROVE  i = j
<1>1. DOMAIN rows = 1..Len(rows) /\ Len(rows) \in Nat
  OBVIOUS
<1>2. i \in DOMAIN rows /\ j \in DOMAIN rows /\ i \in Nat /\ j \in Nat /\ i >= 1 /\ j >= 1
  BY <1>1 DEF Firsts
<1>3. CASE i < j
  <2>1. i \in 1..(j - 1)
    BY <1>2, <1>3
  <2> QED BY <2>1, SameRowFacts DEF Firsts
<1>4. CASE j < i
  <2>1. j \in 1..(i - 1)
    BY <1>2, <1>4
  <2> QED BY <2>1 DEF Firsts
<1> QED BY <1>2, <1>3, <1>4

LEMMA CanonicalFacts ==
  ASSUME IndexOK, ~HasDuplicatePaths
  PROVE  /\ \A id \in Canonical :
              /\ id \in RowIds /\ id[1] \in DOMAIN segments /\ At(id) \in Row
              /\ At(id) \in RowOf(segments[id[1]].path)
              /\ At(id).path = segments[id[1]].path
              /\ id[2] \in DOMAIN RowsOf(id[1]) /\ At(id) = RowsOf(id[1])[id[2]]
         /\ \A a, b \in Canonical : At(a) = At(b) => a = b
         /\ \A s, t \in DOMAIN segments : segments[s].path = segments[t].path => s = t
<1>1. ASSUME NEW id \in Canonical
      PROVE  /\ id \in RowIds /\ id[1] \in DOMAIN segments /\ At(id) \in Row
             /\ At(id) \in RowOf(segments[id[1]].path)
             /\ At(id).path = segments[id[1]].path
             /\ id[2] \in DOMAIN RowsOf(id[1]) /\ At(id) = RowsOf(id[1])[id[2]]
             /\ id = <<id[1], id[2]>> /\ id[2] \in Firsts(RowsOf(id[1]))
  <2>1. id \in RowIds /\ id[2] \in Firsts(RowsOf(id[1]))
    BY DEF Canonical
  <2>2. /\ id[1] \in DOMAIN segments /\ id[2] \in DOMAIN RowsOf(id[1])
        /\ id = <<id[1], id[2]>> /\ At(id) = RowsOf(id[1])[id[2]]
        /\ At(id) \in Row /\ At(id) \in RowOf(segments[id[1]].path)
    BY <2>1, RowIdFacts
  <2>3. At(id).path = segments[id[1]].path
    BY <2>2 DEF RowOf
  <2> QED BY <2>1, <2>2, <2>3
<1>2. \A s, t \in DOMAIN segments : segments[s].path = segments[t].path => s = t
  BY DEF HasDuplicatePaths
<1>3. ASSUME NEW a \in Canonical, NEW b \in Canonical, At(a) = At(b) PROVE a = b
  <2>1. a[1] = b[1]
    BY <1>1, <1>2, <1>3
  <2>2. RowsOf(a[1]) \in Seq(Row)
    BY <1>1, SegmentFacts
  <2>3. a[2] = b[2]
    <3>1. SameRow(RowsOf(a[1])[a[2]], RowsOf(a[1])[b[2]])
      BY <1>1, <1>3, <2>1, SameRowFacts
    <3>2. a[2] \in Firsts(RowsOf(a[1])) /\ b[2] \in Firsts(RowsOf(a[1]))
      BY <1>1, <2>1
    <3> QED BY <2>2, <3>1, <3>2, FirstsApart
  <2>4. a = <<a[1], a[2]>> /\ b = <<b[1], b[2]>>
    BY <1>1
  <2> QED BY <2>1, <2>3, <2>4
<1>4. \A id \in Canonical :
        /\ id \in RowIds /\ id[1] \in DOMAIN segments /\ At(id) \in Row
        /\ At(id) \in RowOf(segments[id[1]].path)
        /\ At(id).path = segments[id[1]].path
        /\ id[2] \in DOMAIN RowsOf(id[1]) /\ At(id) = RowsOf(id[1])[id[2]]
  BY <1>1
<1>5. \A a, b \in Canonical : At(a) = At(b) => a = b
  BY <1>3
<1> QED BY <1>2, <1>4, <1>5

LEMMA ChosenRows ==
  ASSUME IndexOK, NEW q \in Queries, ~HasDuplicatePaths, DOMAIN shadow = {}
  PROVE  {At(id) : id \in Chosen(q)} = MatchingOf(q)
<1>1. /\ Len(segments) \in Nat /\ DOMAIN segments = 1..Len(segments)
      /\ \A s \in DOMAIN segments : RowsOf(s) \in Seq(Row)
  BY SegmentFacts
<1>2. DirtyMatching(q) = {}
  <2>1. Len(DirtyFiles) = 0
    BY DirtyFacts, FS_EmptySet
  <2> QED BY <2>1, LayeredStart DEF DirtyMatching
<1>3. \A s \in DOMAIN segments : Wanted(q)[s] = FirstRows(RowsOf(s)) \cap Good(q)
  <2>1. \A s \in DOMAIN segments : LiveRows[s] = RowsOf(s)
    BY DEF LiveRows, Masked
  <2> QED BY <2>1, WantedFacts
<1>4. ASSUME NEW id \in Chosen(q) PROVE At(id) \in OverlayMatching(q)
  <2>1. id \in Canonical /\ At(id) \in Good(q)
    BY DEF Chosen
  <2>2. /\ id[1] \in DOMAIN segments /\ id[2] \in Firsts(RowsOf(id[1]))
        /\ At(id) = RowsOf(id[1])[id[2]]
    BY <2>1, CanonicalFacts DEF Canonical
  <2>3. PICK s \in 1..Len(segments) : s = id[1]
    BY <1>1, <2>2
  <2>4. At(id) \in Wanted(q)[s]
    BY <1>1, <1>3, <2>1, <2>2, <2>3 DEF FirstRows
  <2>5. \A j \in 1..(s - 1) : \A x \in Wanted(q)[j] : ~SameRow(x, At(id))
    <3> SUFFICES ASSUME NEW j \in 1..(s - 1), NEW x \in Wanted(q)[j] PROVE ~SameRow(x, At(id))
      OBVIOUS
    <3>1. j \in DOMAIN segments /\ s \in DOMAIN segments /\ j # s
      BY <1>1
    <3>2. x.path = segments[j].path /\ At(id).path = segments[s].path
      BY <2>1, <2>3, <3>1, WantedFacts, CanonicalFacts
    <3>3. x.path # At(id).path
      BY <3>1, <3>2, CanonicalFacts
    <3> QED BY <3>3, SameRowIs
  <2>6. At(id) \in Layered(Wanted(q), Len(segments))
    BY <2>4, <2>5 DEF Layered
  <2> QED BY <2>6 DEF OverlayMatching
<1>5. ASSUME NEW r \in OverlayMatching(q) PROVE \E id \in Chosen(q) : At(id) = r
  <2>1. PICK s \in 1..Len(segments) : r \in Wanted(q)[s]
    BY DEF OverlayMatching, Layered
  <2>2. s \in DOMAIN segments /\ r \in FirstRows(RowsOf(s)) /\ r \in Good(q)
    BY <1>1, <1>3, <2>1
  <2>3. PICK i \in Firsts(RowsOf(s)) : r = RowsOf(s)[i]
    BY <2>2 DEF FirstRows
  <2>4. i \in DOMAIN RowsOf(s)
    BY DEF Firsts
  <2>5. <<s, i>> \in RowIds /\ At(<<s, i>>) = r
    BY <2>2, <2>3, <2>4, RowIdFacts
  <2>6. <<s, i>> \in Canonical
    BY <2>3, <2>5 DEF Canonical
  <2> QED BY <2>2, <2>5, <2>6 DEF Chosen
<1>6. MatchingOf(q) = OverlayMatching(q)
  BY <1>2 DEF MatchingOf
<1> QED BY <1>4, <1>5, <1>6

(* Ids of rows are as many as the rows.                                    *)
LEMMA ChosenCount ==
  ASSUME IndexOK, NEW q \in Queries, Alike(q), ~HasDuplicatePaths, DOMAIN shadow = {},
         NEW v, NEW I, I = {id \in Chosen(q) : Field(At(id), q.group) = v}
  PROVE  Cardinality(I) = CountOf(q, v)
<1> DEFINE R == {r \in MatchingOf(q) : Field(r, q.group) = v}
<1> DEFINE f == [id \in I |-> At(id)]
<1>1. {At(id) : id \in Chosen(q)} = MatchingOf(q)
  BY ChosenRows
<1>2. f \in [I -> R] /\ \A id \in I : f[id] = At(id)
  BY <1>1
<1>3. \A r \in R : \E id \in I : f[id] = r
  BY <1>1
<1>4. \A a, b \in I : At(a) = At(b) => a = b
  BY CanonicalFacts DEF Chosen
<1>5. IsFiniteSet(MatchingOf(q)) /\ R \subseteq MatchingOf(q)
  BY MatchingIs
<1>6. CountOf(q, v) = Cardinality(R)
  BY DEF CountOf
<1> HIDE DEF f, R
<1>7. IsFiniteSet(R)
  BY <1>5, FS_Subset
<1>8. f \in Injection(I, R)
  BY <1>2, <1>4 DEF Injection, IsInjective
<1>9. f \in Surjection(I, R)
  BY <1>2, <1>3 DEF Surjection
<1>10. IsFiniteSet(I) /\ Cardinality(I) = Cardinality(R)
  BY <1>7, <1>8, <1>9, FS_Injection
<1> QED BY <1>6, <1>10

(* A set of the rows of groups that the counts above zero are picked from. *)
CountedFrom(q, rows) ==
  /\ \A r \in rows : \E v \in Nat, n \in Nat : r = GroupRow(q.group, v, n) /\ (n > 0 => n = CountOf(q, v))
  /\ \A v \in Nat : CountOf(q, v) > 0 => GroupRow(q.group, v, CountOf(q, v)) \in rows

LEMMA CountedFromIs ==
  ASSUME IndexOK, NEW q, Alike(q), q.group \in {"path", "kind", "val"}, NEW rows,
         CountedFrom(q, rows)
  PROVE  {r \in rows : r.count > 0} = CountedRows(q)
<1>1. \A v \in Nat : CountOf(q, v) \in Nat
  BY CountFacts DEF Fields
<1>2. ASSUME NEW r \in rows, r.count > 0 PROVE r \in CountedRows(q)
  <2>1. PICK v \in Nat, n \in Nat : r = GroupRow(q.group, v, n) /\ (n > 0 => n = CountOf(q, v))
    BY DEF CountedFrom
  <2>2. r.count = n
    BY <2>1, GroupRowFacts
  <2> QED BY <1>2, <2>1, <2>2 DEF CountedRows
<1>3. ASSUME NEW r \in CountedRows(q) PROVE r \in rows /\ r.count > 0
  <2>1. PICK v \in Nat : r = GroupRow(q.group, v, CountOf(q, v)) /\ CountOf(q, v) > 0
    BY DEF CountedRows
  <2>2. r.count = CountOf(q, v)
    BY <1>1, <2>1, GroupRowFacts
  <2> QED BY <2>1, <2>2 DEF CountedFrom
<1> QED BY <1>2, <1>3

LEMMA ExactlyProposed ==
  ASSUME NEW p \in Predicate, CountsExactly(p), NEW id \in Canonical
  PROVE  id \in Proposed(p) <=> Holds(At(id), p)
<1>1. p.op = "eq" /\ (p.field = "name" \/ p.field = "kind")
  BY DEF CountsExactly
<1>2. CASE p.field = "name"
  <2>1. Proposed(p) = NameRows(p.value)
    BY <1>1, <1>2 DEF Proposed
  <2>2. Holds(At(id), p) <=> At(id).name = p.value
    BY <1>1, <1>2 DEF Holds, Field
  <2> QED BY <2>1, <2>2 DEF NameRows
<1>3. CASE p.field = "kind"
  <2>1. Proposed(p) = KindRows(p.value)
    BY <1>1, <1>3 DEF Proposed
  <2>2. Holds(At(id), p) <=> At(id).kind = p.value
    BY <1>1, <1>3 DEF Holds, Field
  <2> QED BY <2>1, <2>2 DEF KindRows
<1> QED BY <1>1, <1>2, <1>3

(* What the counted groupings want.                                        *)
CountsOn(q) == IndexOK /\ Alike(q) /\ CountsSuffice(q)

LEMMA CountsOnFacts ==
  ASSUME NEW q \in Queries, CountsOn(q)
  PROVE  /\ IndexOK /\ Alike(q) /\ ~HasDuplicatePaths /\ DOMAIN shadow = {}
         /\ q.group \in {"path", "kind", "val"}
         /\ q.group \in {"kind", "val"} => q.where = {}
         /\ q.group = "path" => \A p \in q.where : p \in Predicate /\ CountsExactly(p)
         /\ \A v : CountOf(q, v) \in Nat
         /\ \A v : CountOf(q, v) > 0 => \E id \in Chosen(q) : Field(At(id), q.group) = v
         /\ \A v : \A I : I = {id \in Chosen(q) : Field(At(id), q.group) = v} => Cardinality(I) = CountOf(q, v)
<1>1. /\ IndexOK /\ Alike(q) /\ ~HasDuplicatePaths /\ DOMAIN shadow = {}
      /\ q.group \in {"path", "kind", "val"}
      /\ q.group \in {"kind", "val"} => q.where = {}
      /\ q.group = "path" => \A p \in q.where : CountsExactly(p)
  BY DEF CountsOn, CountsSuffice
<1>2. q.where \subseteq Predicate
  BY QueryFacts
<1>3. /\ \A v : CountOf(q, v) \in Nat
      /\ \A v : CountOf(q, v) > 0 <=> \E r \in MatchingOf(q) : Field(r, q.group) = v
  BY <1>1, CountFacts DEF Fields
<1>4. {At(id) : id \in Chosen(q)} = MatchingOf(q)
  BY <1>1, ChosenRows
<1>5. \A v : CountOf(q, v) > 0 => \E id \in Chosen(q) : Field(At(id), q.group) = v
  BY <1>3, <1>4
<1>6. \A v : \A I : I = {id \in Chosen(q) : Field(At(id), q.group) = v} => Cardinality(I) = CountOf(q, v)
  BY <1>1, ChosenCount
<1> QED BY <1>1, <1>2, <1>3, <1>5, <1>6

(* A row id is chosen if its segment is selected and its row passes.       *)
LEMMA ChosenIs ==
  ASSUME NEW q \in Queries, CountsOn(q), NEW id \in Canonical
  PROVE  id \in Chosen(q) <=> id[1] \in SelectedSegments(q) /\ \A p \in q.where : Holds(At(id), p)
<1>1. IndexOK /\ ~HasDuplicatePaths
  BY CountsOnFacts
<1>2. id[1] \in DOMAIN segments /\ At(id) \in Row /\ At(id).path = segments[id[1]].path
  BY <1>1, CanonicalFacts
<1> QED BY <1>2 DEF Chosen, Good, SelectedSegments

LEMMA FileGroupsFrom ==
  ASSUME NEW q \in Queries, CountsOn(q), q.group = "path"
  PROVE  CountedFrom(q, FileGroups(q))
<1>0. /\ IndexOK /\ ~HasDuplicatePaths
      /\ \A p \in q.where : p \in Predicate /\ CountsExactly(p)
      /\ \A v : CountOf(q, v) \in Nat
      /\ \A v : CountOf(q, v) > 0 => \E id \in Chosen(q) : Field(At(id), q.group) = v
      /\ \A v : \A I : I = {id \in Chosen(q) : Field(At(id), q.group) = v} => Cardinality(I) = CountOf(q, v)
  BY CountsOnFacts
<1> DEFINE ids(s) == {id \in InSegment(Canonical, s) : \A p \in q.where : id \in Proposed(p)}
<1>1. ASSUME NEW s \in SelectedSegments(q)
      PROVE  segments[s].path \in Nat /\ Cardinality(ids(s)) = CountOf(q, segments[s].path)
  <2>1. s \in DOMAIN segments /\ segments[s].path \in Nat
    BY <1>0, SegmentFacts DEF SelectedSegments
  <2>2. ASSUME NEW id \in Canonical
        PROVE  /\ id \in Chosen(q) <=> id[1] \in SelectedSegments(q) /\ \A p \in q.where : id \in Proposed(p)
               /\ Field(At(id), q.group) = segments[s].path <=> id[1] = s
    <3>1. \A p \in q.where : id \in Proposed(p) <=> Holds(At(id), p)
      BY <1>0, ExactlyProposed
    <3>2. id \in Chosen(q) <=> id[1] \in SelectedSegments(q) /\ \A p \in q.where : Holds(At(id), p)
      BY ChosenIs
    <3>3. Field(At(id), q.group) = At(id).path
      BY DEF Field
    <3>4. At(id).path = segments[id[1]].path /\ id[1] \in DOMAIN segments
      BY <1>0, CanonicalFacts
    <3>5. segments[id[1]].path = segments[s].path => id[1] = s
      BY <1>0, <2>1, <3>4, CanonicalFacts
    <3> QED BY <3>1, <3>2, <3>3, <3>4, <3>5
  <2>3. ids(s) = {id \in Chosen(q) : Field(At(id), q.group) = segments[s].path}
    <3>1. Chosen(q) \subseteq Canonical
      BY DEF Chosen
    <3> QED BY <2>2, <3>1 DEF InSegment
  <2> QED BY <1>0, <2>1, <2>3
<1>2. FileGroups(q) = {GroupRow("path", segments[s].path, Cardinality(ids(s))) : s \in SelectedSegments(q)}
  BY DEF FileGroups
<1> HIDE DEF ids
<1>3. ASSUME NEW r \in FileGroups(q)
      PROVE  \E v \in Nat, n \in Nat : r = GroupRow(q.group, v, n) /\ (n > 0 => n = CountOf(q, v))
  <2>1. PICK s \in SelectedSegments(q) : r = GroupRow("path", segments[s].path, Cardinality(ids(s)))
    BY <1>2
  <2>2. PICK v \in Nat, n \in Nat : v = segments[s].path /\ n = Cardinality(ids(s)) /\ n = CountOf(q, v)
    BY <1>0, <1>1
  <2> QED BY <2>1, <2>2
<1>4. ASSUME NEW v \in Nat, CountOf(q, v) > 0
      PROVE  GroupRow(q.group, v, CountOf(q, v)) \in FileGroups(q)
  <2>1. PICK id \in Chosen(q) : Field(At(id), q.group) = v
    BY <1>0, <1>4
  <2>2. id \in Canonical
    BY DEF Chosen
  <2>3. id[1] \in SelectedSegments(q)
    BY <2>2, ChosenIs
  <2>4. segments[id[1]].path = v
    <3>1. Field(At(id), q.group) = At(id).path
      BY DEF Field
    <3>2. At(id).path = segments[id[1]].path
      BY <1>0, <2>2, CanonicalFacts
    <3> QED BY <2>1, <3>1, <3>2
  <2>5. Cardinality(ids(id[1])) = CountOf(q, v)
    BY <1>1, <2>3, <2>4
  <2> QED BY <1>2, <2>3, <2>4, <2>5
<1> QED BY <1>3, <1>4 DEF CountedFrom

LEMMA SelectedIs ==
  ASSUME NEW q \in Queries, CountsOn(q), q.where = {}
  PROVE  SelectedRows(q) = Chosen(q)
<1>1. SelectedRows(q) \subseteq Canonical /\ Chosen(q) \subseteq Canonical
  BY DEF SelectedRows, Chosen
<1>2. \A id \in Canonical : id \in SelectedRows(q) <=> id \in Chosen(q)
  BY ChosenIs DEF SelectedRows
<1> QED BY <1>1, <1>2

LEMMA KindGroupsFrom ==
  ASSUME NEW q \in Queries, CountsOn(q), q.group = "kind"
  PROVE  CountedFrom(q, KindGroups(q))
<1>0. /\ IndexOK /\ ~HasDuplicatePaths /\ q.where = {}
      /\ \A v : CountOf(q, v) \in Nat
      /\ \A v : CountOf(q, v) > 0 => \E id \in Chosen(q) : Field(At(id), q.group) = v
      /\ \A v : \A I : I = {id \in Chosen(q) : Field(At(id), q.group) = v} => Cardinality(I) = CountOf(q, v)
  BY CountsOnFacts
<1>1. SelectedRows(q) = Chosen(q) /\ Chosen(q) \subseteq Canonical
  BY <1>0, SelectedIs DEF Chosen
<1>2. \A r : Field(r, q.group) = r.kind
  BY DEF Field
<1>3. ASSUME NEW v PROVE Cardinality(KindRows(v) \cap SelectedRows(q)) = CountOf(q, v)
  <2>1. KindRows(v) \cap SelectedRows(q) = {id \in Chosen(q) : Field(At(id), q.group) = v}
    BY <1>1, <1>2 DEF KindRows
  <2> QED BY <1>0, <2>1
<1>4. KindGroups(q) = {GroupRow("kind", At(id).kind, Cardinality(KindRows(At(id).kind) \cap SelectedRows(q))) :
                         id \in SelectedRows(q)}
  BY DEF KindGroups
<1>5. ASSUME NEW r \in KindGroups(q)
      PROVE  \E v \in Nat, n \in Nat : r = GroupRow(q.group, v, n) /\ (n > 0 => n = CountOf(q, v))
  <2>1. PICK id \in SelectedRows(q) :
          r = GroupRow("kind", At(id).kind, Cardinality(KindRows(At(id).kind) \cap SelectedRows(q)))
    BY <1>4
  <2>2. At(id) \in Row
    BY <1>0, <1>1, CanonicalFacts
  <2>3. PICK v \in Nat, n \in Nat : v = At(id).kind /\ n = CountOf(q, v)
    BY <1>0, <2>2 DEF Row
  <2>4. r = GroupRow(q.group, v, n)
    BY <1>3, <2>1, <2>3
  <2> QED BY <2>3, <2>4
<1>6. ASSUME NEW v \in Nat, CountOf(q, v) > 0
      PROVE  GroupRow(q.group, v, CountOf(q, v)) \in KindGroups(q)
  <2>1. PICK id \in Chosen(q) : Field(At(id), q.group) = v
    BY <1>0, <1>6
  <2>2. At(id).kind = v /\ id \in SelectedRows(q)
    BY <1>1, <1>2, <2>1
  <2> QED BY <1>3, <1>4, <2>2
<1> QED BY <1>5, <1>6 DEF CountedFrom

(* Where the counts of val do not decline, every row chosen that has a     *)
(* value is under its key.                                                 *)
LEMMA KeyedFacts ==
  ASSUME NEW q \in Queries, CountsOn(q), q.group = "val", ~ValueDeclines(q)
  PROVE  /\ \A v \in Keyed : v \in Nat /\ v # 0 /\ (Default # 0 => v # Default)
         /\ \A id \in Chosen(q) : /\ At(id).val \in Nat /\ At(id).kind \in Nat
                                  /\ Default # 0 => At(id).val # Default
                                  /\ At(id).val # 0 => At(id).val \in Keyed /\ Posts(RowsOf(id[1]))
<1>0. IndexOK /\ ~HasDuplicatePaths
  BY CountsOnFacts
<1>1. /\ Keyed # {} /\ \A s \in SelectedSegments(q) : ~PostsPartially(RowsOf(s))
  BY DEF ValueDeclines
<1>2. Keyed = {v \in PostedValues : ValueRows(v) # {}}
  BY <1>1 DEF Keyed
<1>3. ASSUME NEW id \in Canonical
      PROVE  At(id).val \in Nat /\ At(id).kind \in Nat /\ (Default # 0 => At(id).val # Default)
  <2>1. At(id) \in Row /\ At(id) \in RowOf(segments[id[1]].path)
    BY <1>0, CanonicalFacts
  <2> QED BY <2>1 DEF Row, RowOf
<1>4. ASSUME NEW v \in Keyed PROVE v \in Nat /\ v # 0 /\ (Default # 0 => v # Default)
  <2>1. v \in PostedValues /\ ValueRows(v) # {}
    BY <1>2
  <2>2. PICK id \in Canonical : At(id).val = v
    BY <2>1 DEF ValueRows
  <2>3. v # 0
    BY <2>1 DEF PostedValues, Values
  <2> QED BY <1>3, <2>2, <2>3
<1>5. ASSUME NEW id \in Chosen(q), At(id).val # 0
      PROVE  At(id).val \in Keyed /\ Posts(RowsOf(id[1]))
  <2>1. id \in Canonical /\ id[1] \in SelectedSegments(q)
    BY ChosenIs DEF Chosen
  <2>2. /\ id[1] \in DOMAIN segments /\ id[2] \in DOMAIN RowsOf(id[1])
        /\ At(id) = RowsOf(id[1])[id[2]]
    BY <1>0, <2>1, CanonicalFacts
  <2>3. At(id).val \in Values(RowsOf(id[1]))
    BY <1>5, <2>2 DEF Values
  <2>4. Posts(RowsOf(id[1]))
    BY <1>1, <2>1, <2>3 DEF PostsPartially
  <2>5. At(id).val \in PostedValues
    BY <2>2, <2>3, <2>4 DEF PostedValues
  <2>6. id \in ValueRows(At(id).val)
    BY <2>1, <2>4 DEF ValueRows
  <2> QED BY <1>2, <2>4, <2>5, <2>6
<1>6. Chosen(q) \subseteq Canonical
  BY DEF Chosen
<1> QED BY <1>3, <1>4, <1>5, <1>6

LEMMA ValueGroupsFrom ==
  ASSUME NEW q \in Queries, CountsOn(q), q.group = "val", ~ValueDeclines(q)
  PROVE  CountedFrom(q, ValueGroups(q))
<1>0. /\ IndexOK /\ ~HasDuplicatePaths /\ q.where = {}
      /\ \A v : CountOf(q, v) \in Nat
      /\ \A v : CountOf(q, v) > 0 => \E id \in Chosen(q) : Field(At(id), q.group) = v
      /\ \A v : \A I : I = {id \in Chosen(q) : Field(At(id), q.group) = v} => Cardinality(I) = CountOf(q, v)
  BY CountsOnFacts
<1>1. SelectedRows(q) = Chosen(q) /\ Chosen(q) \subseteq Canonical
  BY <1>0, SelectedIs DEF Chosen
<1>2. /\ \A v \in Keyed : v \in Nat /\ v # 0 /\ (Default # 0 => v # Default)
      /\ \A id \in Chosen(q) : /\ At(id).val \in Nat /\ At(id).kind \in Nat
                               /\ Default # 0 => At(id).val # Default
                               /\ At(id).val # 0 => At(id).val \in Keyed /\ Posts(RowsOf(id[1]))
  BY KeyedFacts
<1>3. Default \in Nat /\ (Default = 0 => Applicable = {})
  BY FindAssumption
<1>4. \A id : Field(At(id), q.group) = IF At(id).val = 0 /\ At(id).kind \in Applicable
                                       THEN Default ELSE At(id).val
  BY DEF Field, ResolvedValue
<1> DEFINE of(v) == ValueRows(v) \cap SelectedRows(q)
<1> DEFINE stored == UNION {of(v) : v \in Keyed}
<1> DEFINE spoken == {id \in SelectedRows(q) : At(id).kind \in Applicable} \ stored
<1> DEFINE silent == (SelectedRows(q) \ stored) \ spoken
<1>5. ValueGroups(q) = {GroupRow("val", v, Cardinality(of(v))) : v \in Keyed}
                         \cup {GroupRow("val", Default, Cardinality(spoken)),
                               GroupRow("val", 0, Cardinality(silent))}
  BY DEF ValueGroups
<1>6. \A v : of(v) = {id \in Chosen(q) : At(id).val = v /\ Posts(RowsOf(id[1]))}
  BY <1>1 DEF ValueRows
<1> HIDE DEF of
<1>7. stored = {id \in Chosen(q) : At(id).val # 0}
  <2>1. ASSUME NEW id \in stored PROVE id \in Chosen(q) /\ At(id).val # 0
    <3>1. PICK v \in Keyed : id \in of(v)
      OBVIOUS
    <3> QED BY <1>2, <1>6, <3>1
  <2>2. ASSUME NEW id \in Chosen(q), At(id).val # 0 PROVE id \in stored
    <3>1. At(id).val \in Keyed /\ id \in of(At(id).val)
      BY <1>2, <1>6, <2>2
    <3> QED BY <3>1
  <2> HIDE DEF stored
  <2> QED BY <2>1, <2>2
<1> HIDE DEF stored
<1>8. /\ spoken = {id \in Chosen(q) : At(id).val = 0 /\ At(id).kind \in Applicable}
      /\ silent = {id \in Chosen(q) : At(id).val = 0 /\ At(id).kind \notin Applicable}
  BY <1>1, <1>7
<1> HIDE DEF spoken, silent
<1>9. ASSUME NEW v \in Keyed PROVE Cardinality(of(v)) = CountOf(q, v)
  <2>1. of(v) = {id \in Chosen(q) : Field(At(id), q.group) = v}
    <3>1. ASSUME NEW id \in Chosen(q)
          PROVE  At(id).val = v /\ Posts(RowsOf(id[1])) <=> Field(At(id), q.group) = v
      BY <1>2, <1>3, <1>4
    <3> QED BY <1>6, <3>1
  <2> QED BY <1>0, <2>1
<1>10. Cardinality(silent) = CountOf(q, 0)
  <2>1. silent = {id \in Chosen(q) : Field(At(id), q.group) = 0}
    <3>1. ASSUME NEW id \in Chosen(q)
          PROVE  At(id).val = 0 /\ At(id).kind \notin Applicable <=> Field(At(id), q.group) = 0
      BY <1>3, <1>4
    <3> QED BY <1>8, <3>1
  <2> QED BY <1>0, <2>1
<1>11. Cardinality(spoken) = IF Default = 0 THEN 0 ELSE CountOf(q, Default)
  <2>1. CASE Default = 0
    <3>1. spoken = {}
      BY <1>3, <1>8, <2>1
    <3> QED BY <2>1, <3>1, FS_EmptySet
  <2>2. CASE Default # 0
    <3>1. spoken = {id \in Chosen(q) : Field(At(id), q.group) = Default}
      <4>1. ASSUME NEW id \in Chosen(q)
            PROVE  At(id).val = 0 /\ At(id).kind \in Applicable <=> Field(At(id), q.group) = Default
        BY <1>2, <1>4, <2>2
      <4> QED BY <1>8, <4>1
    <3> QED BY <1>0, <2>2, <3>1
  <2> QED BY <2>1, <2>2
<1>12. ASSUME NEW r \in ValueGroups(q)
       PROVE  \E v \in Nat, n \in Nat : r = GroupRow(q.group, v, n) /\ (n > 0 => n = CountOf(q, v))
  <2>1. CASE \E v \in Keyed : r = GroupRow("val", v, Cardinality(of(v)))
    <3>1. PICK v \in Keyed : r = GroupRow("val", v, Cardinality(of(v)))
      BY <2>1
    <3>2. v \in Nat /\ CountOf(q, v) \in Nat /\ r = GroupRow(q.group, v, CountOf(q, v))
      BY <1>0, <1>2, <1>9, <3>1
    <3> QED BY <3>2
  <2>2. CASE r = GroupRow("val", Default, Cardinality(spoken))
    <3>1. PICK n \in Nat : n = Cardinality(spoken) /\ (n > 0 => n = CountOf(q, Default))
      <4>1. Cardinality(spoken) \in Nat /\ (Cardinality(spoken) > 0 => Cardinality(spoken) = CountOf(q, Default))
        BY <1>0, <1>11
      <4> QED BY <4>1
    <3>2. r = GroupRow(q.group, Default, n)
      BY <2>2, <3>1
    <3> QED BY <1>3, <3>1, <3>2
  <2>3. CASE r = GroupRow("val", 0, Cardinality(silent))
    <3>1. 0 \in Nat /\ CountOf(q, 0) \in Nat /\ r = GroupRow(q.group, 0, CountOf(q, 0))
      BY <1>0, <1>10, <2>3
    <3> QED BY <3>1
  <2> QED BY <1>5, <2>1, <2>2, <2>3
<1>13. ASSUME NEW v \in Nat, CountOf(q, v) > 0
       PROVE  GroupRow(q.group, v, CountOf(q, v)) \in ValueGroups(q)
  <2>1. PICK id \in Chosen(q) : Field(At(id), q.group) = v
    BY <1>0, <1>13
  <2>2. CASE v = 0
    BY <1>5, <1>10, <2>2
  <2>3. CASE v # 0 /\ v = Default
    BY <1>5, <1>11, <2>3
  <2>4. CASE v # 0 /\ v # Default
    <3>1. At(id).val = v /\ v \in Keyed
      BY <1>2, <1>4, <2>1, <2>4
    <3> QED BY <1>5, <1>9, <3>1
  <2> QED BY <2>2, <2>3, <2>4
<1> QED BY <1>12, <1>13 DEF CountedFrom

-----------------------------------------------------------------------------
(* The groups that pass HAVING.                                            *)
AllGroups(q) == {g \in GroupsOf(q) : g.count >= q.having}

LEMMA CountedAnswer ==
  ASSUME NEW q \in Queries, CountsOn(q), q.group = "val" => ~ValueDeclines(q)
  PROVE  /\ GroupPage(q, AllGroups(q), CountedGroups(q).rows)
         /\ CountedGroups(q).total = Cardinality(AllGroups(q))
<1>0. IndexOK /\ Alike(q) /\ q.group \in {"path", "kind", "val"}
  BY CountsOnFacts
<1>1. PICK rows : /\ CountedGroups(q) = Paged(q, SetToSeq({r \in rows : r.count > 0}), 0)
                  /\ CountedFrom(q, rows)
  <2>1. CASE q.group = "path"
    BY <2>1, FileGroupsFrom DEF CountedGroups
  <2>2. CASE q.group = "kind"
    BY <2>2, KindGroupsFrom DEF CountedGroups
  <2>3. CASE q.group = "val"
    BY <2>3, ValueGroupsFrom DEF CountedGroups
  <2> QED BY <1>0, <2>1, <2>2, <2>3
<1>2. {r \in rows : r.count > 0} = CountedRows(q)
  BY <1>0, <1>1, CountedFromIs
<1> DEFINE gs == SetToSeq(CountedRows(q))
<1>3. GroupsFit(q, gs)
  BY <1>0, CountedFit
<1>4. IsClause(q) /\ q.group \in Fields \ {"count"}
  BY <1>0, QueryFacts DEF Fields
<1> HIDE DEF gs
<1>5. /\ GroupPage(q, AllGroups(q), Paged(q, gs, 0).rows)
      /\ Paged(q, gs, 0).total = Cardinality(AllGroups(q))
  BY <1>3, <1>4, GroupsPaged DEF AllGroups
<1> QED BY <1>1, <1>2, <1>5 DEF gs

(* Every route to an answer of groups.                                     *)
LEMMA GroupsAnswered ==
  ASSUME IndexOK, NEW q \in Queries, Alike(q), q.group # "none",
         FindCounted(q) \/ FindStreamed(q) \/ FindScanned(q), ~answer'.refused
  PROVE  /\ GroupPage(q, AllGroups(q), answer'.rows)
         /\ answer'.total = Cardinality(AllGroups(q))
<1>1. CASE FindCounted(q)
  <2>1. CountsSuffice(q) /\ (q.group = "val" => ~ValueDeclines(q)) /\ Answers(q, "counted", CountedGroups(q))
    BY <1>1 DEF FindCounted, Groups
  <2>2. answer'.rows = CountedGroups(q).rows /\ answer'.total = CountedGroups(q).total
    BY <2>1 DEF Answers
  <2> QED BY <2>1, <2>2, CountedAnswer DEF CountsOn
<1>2. CASE FindStreamed(q)
  BY <1>2 DEF FindStreamed, StreamsWhole, Streams
<1>3. CASE FindScanned(q)
  <2> DEFINE page == Finished(q, ScanOf(q))
  <2>1. answer'.rows = page.rows /\ answer'.total = page.total /\ ~page.refused
    <3>1. \/ Answers(q, "refused", Refusal)
          \/ TravelsAsViews(q) /\ Answers(q, "views", Finished(q, FromViews(q, Candidates(q))))
          \/ ~TravelsAsViews(q) /\ Answers(q, "built", Finished(q, FromBuilt(q, Candidates(q))))
      BY <1>3 DEF FindScanned
    <3>2. CASE Answers(q, "refused", Refusal)
      BY <3>2 DEF Answers, Refusal
    <3>3. CASE TravelsAsViews(q) /\ Answers(q, "views", Finished(q, FromViews(q, Candidates(q))))
      BY <3>3 DEF Answers, ScanOf
    <3>4. CASE ~TravelsAsViews(q) /\ Answers(q, "built", Finished(q, FromBuilt(q, Candidates(q))))
      BY <3>4 DEF Answers, ScanOf
    <3> QED BY <3>1, <3>2, <3>3, <3>4
  <2>2. page = Paged(q, Grouped(q, ScannedRows(q)), ScanOf(q).shed)
    BY <2>1, FinishedIs
  <2>3. Suffices(q, ScannedRows(q), ScanOf(q).shed)
    BY ScanSuffices
  <2>4. /\ ScannedRows(q) \in Seq(Row) /\ Distinct(ScannedRows(q))
        /\ Range(ScannedRows(q)) = MatchingOf(q) /\ ScanOf(q).shed = 0
    BY <2>3 DEF Suffices
  <2>5. IsClause(q) /\ q.group \in Fields \ {"count"}
    BY QueryFacts, FindAssumption
  <2>6. GroupsFit(q, Grouped(q, ScannedRows(q)))
    BY <2>4, <2>5, GroupedFit
  <2> DEFINE gs == Grouped(q, ScannedRows(q))
  <2>7. page = Paged(q, gs, 0) /\ GroupsFit(q, gs)
    BY <2>2, <2>4, <2>6
  <2> HIDE DEF page, gs
  <2>8. GroupPage(q, AllGroups(q), Paged(q, gs, 0).rows) /\ Paged(q, gs, 0).total = Cardinality(AllGroups(q))
    BY <2>5, <2>7, GroupsPaged DEF AllGroups
  <2> QED BY <2>1, <2>7, <2>8
<1> QED BY <1>1, <1>2, <1>3

-----------------------------------------------------------------------------
\* The invariant: the index stays what it was, and the answer is exact.

FindInv == IndexOK /\ PageExact /\ GroupsExact /\ TotalExact

(* One query from any index leaves an exact answer, whatever route it      *)
(* takes.                                                                  *)
LEMMA AnswerExact ==
  ASSUME IndexOK, FindNext
  PROVE  FindInv'
<1>1. PICK q \in Queries : FindCounted(q) \/ FindStreamed(q) \/ FindScanned(q)
  BY DEF FindNext
<1>2. query' = q /\ UNCHANGED <<segments, shadow>>
  BY <1>1 DEF FindCounted, FindStreamed, FindScanned, Answers
<1>3. IndexOK'
  BY <1>2, AfterAnswer
<1>4. ASSUME Served'
      PROVE  /\ Alike(q) /\ Matching' = MatchingOf(q) /\ ~answer'.refused
             /\ ~(answer'.route = "streamed" /\ q.descending /\ TiedRows(q))
  BY <1>2, <1>4, AfterAnswer DEF Served
<1> DEFINE all == IF q.having = 0 THEN MatchingOf(q) ELSE {}
<1>5. ASSUME Served', q.group = "none"
      PROVE  ExactPage(q, all, answer'.rows) /\ answer'.total = Cardinality(all)
  BY <1>1, <1>4, <1>5, RowsAnswered
<1>6. ASSUME Served', q.group # "none"
      PROVE  GroupPage(q, AllGroups(q), answer'.rows) /\ answer'.total = Cardinality(AllGroups(q))
  BY <1>1, <1>4, <1>6, GroupsAnswered
<1>7. PageExact'
  <2> SUFFICES ASSUME Served', q.group = "none" PROVE PageExact'
    BY <1>2 DEF PageExact
  <2>1. /\ Len(answer'.rows) = PageLen(q, Cardinality(all))
        /\ \A i \in DOMAIN answer'.rows :
             answer'.rows[i] \in all /\ RankIn(q, all, answer'.rows[i]) = q.offset + i - 1
    BY <1>5 DEF ExactPage
  <2>2. all = (IF query.having = 0 THEN Matching ELSE {})'
    BY <1>2, <1>4
  <2> HIDE DEF all
  <2> QED BY <1>2, <2>1, <2>2 DEF PageExact, PageLen, RankIn
<1>8. ASSUME Served', q.group # "none" PROVE MatchingGroups' = AllGroups(q)
  <2>1. Matching' = MatchingOf(q)
    BY <1>4, <1>8
  <2> QED BY <1>2, <2>1 DEF MatchingGroups, AllGroups, GroupsOf, CountOf
<1>9. GroupsExact'
  <2> SUFFICES ASSUME Served', q.group # "none" PROVE GroupsExact'
    BY <1>2 DEF GroupsExact
  <2> DEFINE gs == AllGroups(q)
  <2>1. /\ Len(answer'.rows) = PageLen(q, Cardinality(gs))
        /\ \A i, j \in DOMAIN answer'.rows :
             i # j => GroupOf(q, answer'.rows[i]) # GroupOf(q, answer'.rows[j])
        /\ \A i \in DOMAIN answer'.rows :
             /\ GroupOf(q, answer'.rows[i]) \in gs
             /\ Cardinality({h \in gs : Better(q, h, GroupOf(q, answer'.rows[i]))}) < q.offset + i
             /\ q.offset + i <= Cardinality({h \in gs : ~Better(q, GroupOf(q, answer'.rows[i]), h)})
    BY <1>6 DEF GroupPage
  <2>2. MatchingGroups' = gs
    BY <1>8
  <2> HIDE DEF gs
  <2> QED BY ZenonT(60), <1>2, <2>1, <2>2 DEF GroupsExact, PageLen, GroupOf, Better
<1>10. TotalExact'
  <2> SUFFICES ASSUME Served' PROVE TotalExact'
    BY DEF TotalExact
  <2>1. CASE q.group = "none"
    BY <1>2, <1>4, <1>5, <2>1, FS_EmptySet DEF TotalExact
  <2>2. CASE q.group # "none"
    BY <1>2, <1>6, <1>8, <2>2 DEF TotalExact
  <2> QED BY <2>1, <2>2
<1> QED BY <1>3, <1>7, <1>9, <1>10 DEF FindInv

(* The invariant is kept by every step.                                    *)
LEMMA FindInductive ==
  ASSUME FindInv, [FindNext]_findVars
  PROVE  FindInv'
<1>1. CASE FindNext
  BY <1>1, AnswerExact DEF FindInv
<1>2. CASE UNCHANGED findVars
  <2>1. Live' = Live
    BY <1>2 DEF findVars, Live, DirtyFiles, RowsOf
  <2>2. Matching' = Matching /\ (Twins' <=> Twins)
    BY <1>2, <2>1 DEF findVars, Matching, Twins
  <2>3. Served' <=> Served
    BY <1>2, <2>2 DEF findVars, Served, Asked, Tied
  <2>4. MatchingGroups' = MatchingGroups
    BY <1>2, <2>2 DEF findVars, MatchingGroups
  <2>5. IndexOK'
    BY <1>2 DEF findVars, IndexOK, FindInv
  <2>6. PageExact'
    BY <1>2, <2>2, <2>3 DEF findVars, PageExact, FindInv
  <2>7. GroupsExact'
    <3>1. Served /\ query.group # "none" => GroupPage(query, MatchingGroups, answer.rows)
      BY DEF FindInv, GroupsExact, GroupPage, PageLen, GroupOf, Better
    <3>2. (Served /\ query.group # "none" => GroupPage(query, MatchingGroups, answer.rows)) '
      BY <1>2, <2>3, <2>4, <3>1 DEF findVars
    <3> QED BY <3>2 DEF GroupsExact, GroupPage, PageLen, GroupOf, Better
  <2>8. TotalExact'
    BY <1>2, <2>2, <2>3, <2>4 DEF findVars, TotalExact, FindInv
  <2> QED BY <2>5, <2>6, <2>7, <2>8 DEF FindInv
<1> QED BY <1>1, <1>2

(* The index is always well formed, and the answer to a query of it        *)
(* exact, for any files, rows, clauses and limits (query/find.rs,          *)
(* find_symbols_impl).                                                     *)
THEOREM FindInvariant == FindSpec => []FindInv
<1>1. FindInit => FindInv
  <2> SUFFICES ASSUME FindInit PROVE FindInv
    OBVIOUS
  <2>1. IndexOK /\ ~Asked
    BY IndexFromCorpora
  <2> QED BY <2>1 DEF FindInv, PageExact, GroupsExact, TotalExact, Served
<1>2. FindInv /\ [FindNext]_findVars => FindInv'
  BY FindInductive
<1> QED BY <1>1, <1>2, PTL DEF FindSpec

(* A page of rows has, for each place OFFSET and LIMIT leave, the row of   *)
(* that rank among all that match: neither the rows the scans shed         *)
(* (fast_paths.rs, page_from_row_views and page_from_built_rows) nor a     *)
(* name stream stopped early nor a skipped segment takes one away.         *)
THEOREM PageExactHolds == FindSpec => []PageExact
<1>1. FindInv => PageExact
  BY DEF FindInv
<1> QED BY <1>1, FindInvariant, PTL

(* A page of groups has groups of all the rows that match, with their      *)
(* counts, each at a place the order of the query allows: the counts       *)
(* fast_paths.rs takes from the postings are those the rows would give.    *)
THEOREM GroupsExactHolds == FindSpec => []GroupsExact
<1>1. FindInv => GroupsExact
  BY DEF FindInv
<1> QED BY <1>1, FindInvariant, PTL

(* The total beside a page is the number of rows, or groups, that match,   *)
(* though the rows a scan sheds and those a stream never reads are not     *)
(* built (find.rs, find_symbols_impl).                                     *)
THEOREM TotalExactHolds == FindSpec => []TotalExact
<1>1. FindInv => TotalExact
  BY DEF FindInv
<1> QED BY <1>1, FindInvariant, PTL
=============================================================================
