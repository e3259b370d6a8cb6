------------------------- MODULE NodeHandlesProofs -------------------------
(***************************************************************************)
(* Theorems about the node handles of a file (module NodeHandles), for any *)
(* names, guards and texts and any bounds: the rows a handle is looked up  *)
(* in are those of the file, no two constructs share a handle, a retired   *)
(* ordinal is not reissued, UNDO gives the handles back, and a re-index    *)
(* leaves a construct its handle that is told from its siblings.           *)
(*                                                                         *)
(* The inductive invariant HandlesInv adds to HandlesSound what the other  *)
(* places a segment may come back from hold: the staged segments, one for  *)
(* the same bytes (Cached), what BEGIN saved (Saved), and the undo ring    *)
(* (Kept).  IdsInv says that the ids of constructs tell them apart.        *)
(***************************************************************************)
EXTENDS NodeHandles, FiniteSetTheorems, SequenceTheorems, WellFoundedInduction, TLAPS

-----------------------------------------------------------------------------
\* The inductive invariant.

\* The ordinals there are after e edits.
Most(e) == MaxLines + (MaxLines + 1) * e

IsFile(f) == f \in Seq(Line) /\ Len(f) <= MaxLines /\ (f # <<>> => ~f[1].nested)

Distinct(rows) == \A i, k \in 1..Len(rows) : rows[i].ord = rows[k].ord => i = k

IsSegment(rows, most) ==
  /\ rows \in Seq(HandleRow)
  /\ \A i \in 1..Len(rows) : rows[i].ord <= most /\ rows[i].parent \in Root..most
  /\ Distinct(rows)

\* Every segment is one, there is always one for the file, and it is of the file.
Placed ==
  /\ base # NoSegment => IsSegment(base, Most(edits))
  /\ \A rows \in saved : IsSegment(rows, Most(edits))
  /\ segment # NoSegment => segment \in saved
  /\ segment = NoSegment => base # NoSegment
  /\ Keys(Rows) = Parsed(lines)

Cached == \A r, s \in saved : Keys(r) = Keys(s) => r = s

Saved ==
  begun # NoSegment =>
    /\ begun \in [lines : Seq(Line), dirty : BOOLEAN]
    /\ IsFile(begun.lines)
    /\ IF begun.dirty THEN Staged(begun.lines) # {}
       ELSE base # NoSegment /\ Keys(base) = Parsed(begun.lines)

\* What an edit puts in the ring stays staged until another is made.
Kept ==
  /\ ring \in Seq([lines : Seq(Line), rows : Seq(HandleRow) \cup {NoSegment}])
  /\ Len(ring) <= RingSize
  /\ \A n \in 1..Len(ring) : IsFile(ring[n].lines)
  /\ last.edit /\ ring # <<>> /\ ring[1].rows # NoSegment =>
       /\ Keys(ring[1].rows) = Parsed(ring[1].lines)
       /\ Parsed(ring[1].lines) # Parsed(lines) => ring[1].rows \in saved

HandlesInv ==
  /\ edits \in 0..MaxEdits
  /\ last \in [built : BOOLEAN, edit : BOOLEAN, removed : SUBSET Nat, retired : SUBSET Nat]
  /\ IsFile(lines)
  /\ Placed /\ Cached /\ Saved /\ Kept
  /\ RetiredNotReissued

-----------------------------------------------------------------------------
\* Numbers.

LEMMA LeastNumber ==
  ASSUME NEW S, S \subseteq Nat, S # {}
  PROVE  \E n \in S : \A m \in S : n <= m
<1>1. PICK n \in S : \A m \in S : ~ (<<m, n>> \in OpToRel(<, Nat))
  BY NatLessThanWellFounded, WFMin, Zenon
<1>2. ASSUME NEW m \in S PROVE n <= m
  <2>1. <<m, n>> \in OpToRel(<, Nat) <=> m < n
    BY DEF OpToRel
  <2>2. m \in Nat /\ n \in Nat /\ ~ (m < n)
    BY <1>1, <2>1
  <2> QED BY <2>2
<1> QED BY <1>2

LEMMA MaxFacts ==
  ASSUME NEW S, S \subseteq Nat, S # {}, NEW b \in Nat, \A n \in S : n <= b
  PROVE  Max(S) \in S /\ \A n \in S : n <= Max(S)
<1> DEFINE T == {m \in Nat : \E n \in S : m = b - n}
<1>1. T \subseteq Nat /\ T # {}
  <2>1. \A n \in S : b - n \in T
    OBVIOUS
  <2> QED BY <2>1
<1>2. PICK t \in T : \A u \in T : t <= u
  BY <1>1, LeastNumber
<1>3. PICK n \in S : t = b - n
  OBVIOUS
<1>4. \A m \in S : n >= m
  <2>1. \A m \in S : b - m \in T
    OBVIOUS
  <2>2. \A m \in S : b - n <= b - m
    BY <1>2, <1>3, <2>1
  <2> QED BY <2>2
<1>5. Max(S) \in S /\ \A m \in S : Max(S) >= m
  BY <1>4 DEF Max
<1> QED BY <1>5

LEMMA MostGrows ==
  ASSUME NEW e \in Nat
  PROVE  Most(e) \in Nat /\ Most(e + 1) = Most(e) + MaxLines + 1
<1>1. MaxLines \in Nat
  BY NodeHandlesAssumption
<1>2. (MaxLines + 1) * (e + 1) = (MaxLines + 1) * e + (MaxLines + 1)
  BY <1>1
<1>3. (MaxLines + 1) * e \in Nat
  BY <1>1
<1> QED BY <1>1, <1>2, <1>3 DEF Most

\* Elements in order: each but the last has a next.
LEMMA Ranked ==
  ASSUME NEW n \in Nat, NEW S \in SUBSET (1..n), NEW k \in 1..Cardinality(S)
  PROVE  \E i \in S : Cardinality({j \in S : j <= i}) = k
<1> DEFINE B(i) == {j \in S : j <= i}
           T == {i \in 0..n : Cardinality(B(i)) >= k}
<1>1. IsFiniteSet(S)
  <2>1. IsFiniteSet(1..n)
    BY FS_Interval
  <2> QED BY <2>1, FS_Subset
<1>2. ASSUME NEW i \in 0..n PROVE IsFiniteSet(B(i)) /\ Cardinality(B(i)) \in Nat
  <2>1. B(i) \in SUBSET S
    OBVIOUS
  <2> HIDE DEF B
  <2> QED BY <1>1, <2>1, FS_Subset, FS_CardinalityType
<1>0. \A j \in S : j \in Nat /\ j >= 1 /\ j <= n
  OBVIOUS
<1>3. B(n) = S /\ B(0) = {}
  <2>1. B(n) = S
    BY <1>0
  <2>2. \A j \in S : ~(j <= 0)
    BY <1>0
  <2>3. B(0) = {}
    BY <2>2
  <2> QED BY <2>1, <2>3
<1>4. ASSUME NEW i \in 1..n
      PROVE  /\ i \in S => B(i) = B(i - 1) \cup {i} /\ i \notin B(i - 1)
             /\ i \notin S => B(i) = B(i - 1)
  <2>1. \A j \in S : (j <= i <=> j <= i - 1 \/ j = i) /\ ~(i <= i - 1)
    BY <1>0
  <2>2. ASSUME i \in S PROVE B(i) = B(i - 1) \cup {i}
    BY <2>1, <2>2
  <2>3. i \notin B(i - 1)
    BY <2>1
  <2>4. ASSUME i \notin S PROVE B(i) = B(i - 1)
    BY <2>1, <2>4
  <2> QED BY <2>2, <2>3, <2>4
<1>5. Cardinality(S) \in Nat /\ k \in Nat /\ k >= 1
  BY <1>1, FS_CardinalityType
<1>6. T \subseteq Nat /\ n \in T
  BY <1>3, <1>5
<1>7. PICK i \in T : \A m \in T : i <= m
  BY <1>6, LeastNumber
<1>8. i \in 0..n /\ Cardinality(B(i)) >= k
  OBVIOUS
<1>9. \A m \in 0..n : m < i => ~(Cardinality(B(m)) >= k)
  BY <1>7, <1>8
<1> HIDE DEF B, T
<1>10. i # 0
  BY <1>3, <1>5, <1>8, FS_EmptySet
<1>11. i \in 1..n /\ i - 1 \in 0..n /\ i - 1 < i
  BY <1>8, <1>10
<1>12. Cardinality(B(i - 1)) < k
  BY <1>2, <1>5, <1>9, <1>11
<1>13. i \in S
  BY <1>4, <1>8, <1>11, <1>12, <1>2, <1>5
<1>14. Cardinality(B(i)) = Cardinality(B(i - 1)) + 1
  BY <1>2, <1>4, <1>11, <1>13, FS_AddElement
<1>15. Cardinality(B(i)) = k
  BY <1>2, <1>5, <1>8, <1>11, <1>12, <1>14
<1> QED BY <1>13, <1>15 DEF B

-----------------------------------------------------------------------------
\* The lines of a construct, and what is compared of it.

LEMMA LineFacts ==
  ASSUME NEW f \in Seq(Line), NEW i \in 1..Len(f)
  PROVE  /\ Len(f) \in Nat /\ f[i] \in Line /\ f[i].id \in Nat /\ f[i].name \in Names
         /\ f[i].guard \in Guards /\ f[i].text \in Texts /\ f[i].nested \in BOOLEAN
<1>1. Len(f) \in Nat /\ f[i] \in Line
  OBVIOUS
<1> QED BY <1>1 DEF Line

LEMMA SpanFacts ==
  ASSUME NEW f \in Seq(Line), NEW i \in 1..Len(f)
  PROVE  /\ i \in Span(f, i) /\ Span(f, i) \subseteq i..Len(f)
         /\ \A k \in Span(f, i) : i..k \subseteq Span(f, i)
         /\ Cardinality(Span(f, i)) \in 1..(Len(f) - i + 1)
<1>1. Len(f) \in Nat /\ i \in Nat /\ i >= 1 /\ i <= Len(f)
  OBVIOUS
<1>2. Span(f, i) \subseteq i..Len(f)
  BY DEF Span
<1>3. i \in Span(f, i)
  <2>1. i \in i..Len(f) /\ (i + 1)..i = {}
    BY <1>1
  <2> QED BY <2>1 DEF Span
<1>4. ASSUME NEW k \in Span(f, i), NEW m \in i..k PROVE m \in Span(f, i)
  <2>1. k \in i..Len(f) /\ \A j \in (i + 1)..k : f[j].nested /\ ~f[i].nested
    BY DEF Span
  <2>2. m \in i..Len(f) /\ (i + 1)..m \subseteq (i + 1)..k
    BY <1>1, <2>1
  <2> QED BY <2>1, <2>2 DEF Span
<1>5. Cardinality(Span(f, i)) \in 1..(Len(f) - i + 1)
  <2>1. IsFiniteSet(i..Len(f)) /\ Cardinality(i..Len(f)) = Len(f) - i + 1
    BY <1>1, FS_Interval
  <2>2. IsFiniteSet(Span(f, i)) /\ Cardinality(Span(f, i)) <= Len(f) - i + 1
    BY <1>2, <2>1, FS_Subset
  <2>3. Cardinality(Span(f, i)) \in Nat /\ Cardinality(Span(f, i)) # 0
    BY <1>3, <2>2, FS_CardinalityType, FS_EmptySet
  <2> QED BY <1>1, <2>2, <2>3
<1> QED BY <1>2, <1>3, <1>4, <1>5

LEMMA KeyType == ASSUME NEW f \in Seq(Line), NEW i \in 1..Len(f) PROVE KeyOf(f, i) \in Key
<1> PICK c : c = Cardinality(Span(f, i))
  OBVIOUS
<1>1. c \in Nat /\ c >= 1 /\ c <= Len(f) - i + 1 /\ Len(f) \in Nat
  BY SpanFacts
<1>2. ASSUME NEW k \in 1..c PROVE <<f[i + k - 1].name, f[i + k - 1].text>> \in Names \X Texts
  <2>1. i + k - 1 \in 1..Len(f)
    BY <1>1
  <2> QED BY <2>1, LineFacts
<1>3. Content(f, i) = [k \in 1..c |-> <<f[i + k - 1].name, f[i + k - 1].text>>]
  BY DEF Content
<1>4. Content(f, i) \in [1..c -> Names \X Texts]
  BY <1>2, <1>3
<1>5. Content(f, i) \in Seq(Names \X Texts)
  BY <1>1, <1>4, SeqDef
<1>6. c > 1 => Content(f, i)[2] \in Names \X Texts
  BY <1>1, <1>4
<1> PICK t : t = Content(f, i)
  OBVIOUS
<1> PICK b : b = IF c > 1 THEN t[2] ELSE <<>>
  OBVIOUS
<1>7. KeyOf(f, i) = [name |-> f[i].name, guard |-> f[i].guard, body |-> b, hash |-> t]
  BY DEF KeyOf
<1>8. b \in {<<>>} \cup (Names \X Texts) /\ t \in Seq(Names \X Texts)
  BY <1>5, <1>6
<1> QED BY <1>7, <1>8, LineFacts DEF Key

\* The root above a nested construct.
LEMMA ParentFacts ==
  ASSUME NEW f, IsFile(f), NEW i \in 1..Len(f), f[i].nested
  PROVE  /\ ParentOf(f, i) \in 1..(i - 1) /\ ~f[ParentOf(f, i)].nested
         /\ i \in Span(f, ParentOf(f, i))
<1> DEFINE S == {j \in 1..i : ~f[j].nested}
<1>1. Len(f) \in Nat /\ i \in Nat /\ i >= 1 /\ i <= Len(f) /\ f # <<>> /\ ~f[1].nested
  BY DEF IsFile
<1>2. S \subseteq Nat /\ 1 \in S /\ \A j \in S : j <= i
  BY <1>1
<1> PICK p : p = Max(S)
  OBVIOUS
<1>3. p \in S /\ \A j \in S : j <= p
  BY <1>1, <1>2, MaxFacts
<1>4. p \in 1..i /\ ~f[p].nested /\ p # i
  BY <1>3
<1>5. \A j \in (p + 1)..i : f[j].nested
  <2>1. ASSUME NEW j \in (p + 1)..i, ~f[j].nested PROVE FALSE
    <3>1. j \in 1..i /\ ~(j <= p)
      BY <1>1, <1>4
    <3> QED BY <1>3, <2>1, <3>1
  <2> QED BY <2>1
<1>6. p \in 1..(i - 1) /\ i \in p..Len(f)
  BY <1>1, <1>4
<1>7. i \in Span(f, p)
  BY <1>4, <1>5, <1>6 DEF Span
<1> QED BY <1>4, <1>6, <1>7 DEF ParentOf

-----------------------------------------------------------------------------
\* What a re-index hands out.

IsHints(hints, b) == /\ hints \in Seq(HandleRow) /\ Distinct(hints)
                     /\ b \in Int /\ b >= -1
                     /\ \A h \in 1..Len(hints) : hints[h].ord <= b

LEMMA HintFacts ==
  ASSUME NEW hints, NEW b, IsHints(hints, b)
  PROVE  /\ NextOrdinal(hints) \in 0..(b + 1) /\ Len(hints) \in Nat
         /\ \A h \in 1..Len(hints) : hints[h].ord \in Nat /\ hints[h].ord < NextOrdinal(hints)
<1> DEFINE S == {o + 1 : o \in OrdinalsOf(hints)} \cup {0}
<1>1. Len(hints) \in Nat /\ \A h \in 1..Len(hints) : hints[h].ord \in Nat /\ hints[h].ord <= b
  <2>1. Len(hints) \in Nat /\ \A h \in 1..Len(hints) : hints[h] \in HandleRow /\ hints[h].ord <= b
    BY DEF IsHints
  <2>2. \A r \in HandleRow : r.ord \in Nat
    BY DEF HandleRow
  <2> QED BY <2>1, <2>2
<1>2. b + 1 \in Nat /\ OrdinalsOf(hints) \subseteq Nat /\ \A o \in OrdinalsOf(hints) : o <= b
  BY <1>1 DEF OrdinalsOf, IsHints
<1>3. S \subseteq Nat /\ S # {} /\ \A n \in S : n <= b + 1
  BY <1>2 DEF IsHints
<1>4. Max(S) \in S /\ \A n \in S : n <= Max(S)
  BY <1>2, <1>3, MaxFacts
<1>5. NextOrdinal(hints) = Max(S)
  BY DEF NextOrdinal
<1>6. \A h \in 1..Len(hints) : hints[h].ord + 1 \in S
  BY DEF OrdinalsOf
<1> PICK n : n = Max(S)
  OBVIOUS
<1> HIDE DEF S
<1>7. n \in 0..(b + 1) /\ \A h \in 1..Len(hints) : hints[h].ord + 1 <= n
  <2>1. n \in S /\ \A m \in S : m <= n
    BY <1>4
  <2>2. n \in Nat /\ n <= b + 1
    BY <1>3, <2>1
  <2>3. n \in 0..(b + 1)
    BY <1>2, <2>2
  <2> QED BY <1>6, <2>1, <2>3
<1> QED BY <1>1, <1>5, <1>7

LEMMA MatchesAreFree ==
  ASSUME NEW hints, NEW used, NEW key, NEW parent
  PROVE  \A h \in Matches(hints, used, key, parent) :
           h \in (1..Len(hints)) \ used /\ hints[h].parent = parent /\ hints[h].key.name = key.name
BY DEF Matches, Narrowed

First(hints, retired) ==
  [rows |-> <<>>, used |-> Tombstone(hints, retired), next |-> NextOrdinal(hints)]

WalkGood(f, hints, retired, w, i) ==
  /\ w.rows \in Seq(HandleRow) /\ Len(w.rows) = i /\ Distinct(w.rows)
  /\ w.used \subseteq 1..Len(hints) /\ Tombstone(hints, retired) \subseteq w.used
  /\ w.next \in NextOrdinal(hints)..(NextOrdinal(hints) + i)
  /\ \A k \in 1..i :
       /\ w.rows[k].key = KeyOf(f, k)
       /\ w.rows[k].parent \in Root..(w.next - 1)
       /\ w.rows[k].ord < w.next
       /\ \/ w.rows[k].ord >= NextOrdinal(hints)
          \/ \E h \in w.used \ Tombstone(hints, retired) : w.rows[k].ord = hints[h].ord

LEMMA FirstGood ==
  ASSUME NEW f, NEW hints, NEW b, IsHints(hints, b), NEW retired
  PROVE  WalkGood(f, hints, retired, First(hints, retired), 0)
<1>1. NextOrdinal(hints) \in Nat
  <2>1. NextOrdinal(hints) \in 0..(b + 1)
    BY HintFacts
  <2> QED BY <2>1
<1>2. <<>> \in Seq(HandleRow) /\ Len(<<>>) = 0
  OBVIOUS
<1> PICK N : N = NextOrdinal(hints)
  OBVIOUS
<1>3. First(hints, retired) = [rows |-> <<>>, used |-> Tombstone(hints, retired), next |-> N]
  BY DEF First
<1> PICK v : v = First(hints, retired)
  OBVIOUS
<1>4. v.rows = <<>> /\ v.used = Tombstone(hints, retired) /\ v.next = N
  BY <1>3
<1>5. Tombstone(hints, retired) \subseteq 1..Len(hints)
  BY DEF Tombstone
<1> QED BY <1>1, <1>2, <1>4, <1>5 DEF WalkGood, Distinct

\* A construct takes a hint that matches it, or a new ordinal.
IsNext(f, hints, w, i, v) ==
  LET parent == IF f[i].nested THEN w.rows[ParentOf(f, i)].ord ELSE Root
      best == Matches(hints, w.used, KeyOf(f, i), parent)
      row(o) == Append(w.rows, [key |-> KeyOf(f, i), parent |-> parent, ord |-> o])
  IN \/ best = {} /\ v = [rows |-> row(w.next), used |-> w.used, next |-> w.next + 1]
     \/ \E h \in best : v = [rows |-> row(hints[h].ord), used |-> w.used \cup {h}, next |-> w.next]

LEMMA AssignIs ==
  ASSUME NEW f, NEW hints, NEW b, IsHints(hints, b), NEW w, NEW i
  PROVE  IsNext(f, hints, w, i, Assign(f, hints, w, i))
<1> PICK parent : parent = IF f[i].nested THEN w.rows[ParentOf(f, i)].ord ELSE Root
  OBVIOUS
<1> PICK best : best = Matches(hints, w.used, KeyOf(f, i), parent)
  OBVIOUS
<1> PICK h : h = CHOOSE a \in best : \A c \in best : hints[a].ord <= hints[c].ord
  OBVIOUS
<1>1. \A a \in best : a \in 1..Len(hints)
  BY MatchesAreFree
<1>2. best # {} => h \in best
  <2> SUFFICES ASSUME best # {} PROVE \E a \in best : \A c \in best : hints[a].ord <= hints[c].ord
    OBVIOUS
  <2> DEFINE S == {hints[a].ord : a \in best}
  <2>0. \A a \in best : hints[a].ord \in Nat
    BY <1>1, HintFacts
  <2>1. S \subseteq Nat /\ S # {}
    BY <2>0
  <2>2. PICK n \in S : \A m \in S : n <= m
    BY <2>1, LeastNumber
  <2> QED BY <2>2
<1>3. CASE best # {}
  <2>1. Assign(f, hints, w, i) =
          [rows |-> Append(w.rows, [key |-> KeyOf(f, i), parent |-> parent, ord |-> hints[h].ord]),
           used |-> w.used \cup {h}, next |-> w.next]
    BY <1>3 DEF Assign
  <2>2. \E g \in best : Assign(f, hints, w, i) =
          [rows |-> Append(w.rows, [key |-> KeyOf(f, i), parent |-> parent, ord |-> hints[g].ord]),
           used |-> w.used \cup {g}, next |-> w.next]
    BY <1>2, <1>3, <2>1
  <2> QED BY <2>2 DEF IsNext
<1>4. CASE best = {}
  <2>1. Assign(f, hints, w, i) =
          [rows |-> Append(w.rows, [key |-> KeyOf(f, i), parent |-> parent, ord |-> w.next]),
           used |-> w.used, next |-> w.next + 1]
    BY <1>4 DEF Assign
  <2> QED BY <1>4, <2>1 DEF IsNext
<1> QED BY <1>3, <1>4

\* What that adds to the walk.
Taken(f, hints, w, i, v) ==
  /\ \A k \in 1..(i - 1) : v.rows[k] = w.rows[k]
  /\ \E best : /\ best = Matches(hints, w.used, KeyOf(f, i), v.rows[i].parent)
               /\ \/ best = {} /\ v.used = w.used
                  \/ \E h \in best : v.rows[i].ord = hints[h].ord /\ v.used = w.used \cup {h}

LEMMA AssignGood ==
  ASSUME NEW f, IsFile(f), NEW hints, NEW b, IsHints(hints, b), NEW retired,
         NEW i \in 1..Len(f), NEW w, WalkGood(f, hints, retired, w, i - 1),
         NEW v, v = Assign(f, hints, w, i)
  PROVE  WalkGood(f, hints, retired, v, i) /\ Taken(f, hints, w, i, v)
<1> PICK N : N = NextOrdinal(hints)
  OBVIOUS
<1> PICK T : T = Tombstone(hints, retired)
  OBVIOUS
<1> PICK parent : parent = IF f[i].nested THEN w.rows[ParentOf(f, i)].ord ELSE Root
  OBVIOUS
<1> PICK best : best = Matches(hints, w.used, KeyOf(f, i), parent)
  OBVIOUS
<1>0. PICK o, used, next :
        /\ v = [rows |-> Append(w.rows, [key |-> KeyOf(f, i), parent |-> parent, ord |-> o]),
                used |-> used, next |-> next]
        /\ \/ best = {} /\ o = w.next /\ used = w.used /\ next = w.next + 1
           \/ \E h \in best : o = hints[h].ord /\ used = w.used \cup {h} /\ next = w.next
  <2>1. IsNext(f, hints, w, i, v)
    BY AssignIs
  <2>2. \/ best = {} /\ v = [rows |-> Append(w.rows, [key |-> KeyOf(f, i), parent |-> parent, ord |-> w.next]),
                             used |-> w.used, next |-> w.next + 1]
        \/ \E h \in best :
             v = [rows |-> Append(w.rows, [key |-> KeyOf(f, i), parent |-> parent, ord |-> hints[h].ord]),
                  used |-> w.used \cup {h}, next |-> w.next]
    BY <2>1 DEF IsNext
  <2> QED BY <2>2
<1>1. /\ parent = IF f[i].nested THEN w.rows[ParentOf(f, i)].ord ELSE Root
      /\ v = [rows |-> Append(w.rows, [key |-> KeyOf(f, i), parent |-> parent, ord |-> o]),
              used |-> used, next |-> next]
      /\ \/ o = w.next /\ used = w.used /\ next = w.next + 1
         \/ \E h \in (1..Len(hints)) \ w.used :
              o = hints[h].ord /\ used = w.used \cup {h} /\ next = w.next
  <2>1. \A h \in best : h \in (1..Len(hints)) \ w.used
    BY <1>0, MatchesAreFree
  <2> QED BY <1>0, <2>1
<1>2. /\ N \in Nat /\ Len(hints) \in Nat /\ i \in Nat /\ i >= 1 /\ f \in Seq(Line)
      /\ \A h \in 1..Len(hints) : hints[h].ord \in Nat /\ hints[h].ord < N
      /\ \A h, k \in 1..Len(hints) : hints[h].ord = hints[k].ord => h = k
  <2>0. /\ N \in 0..(b + 1) /\ Len(hints) \in Nat
        /\ \A h \in 1..Len(hints) : hints[h].ord \in Nat /\ hints[h].ord < N
    BY HintFacts
  <2>1. /\ N \in Nat /\ Len(hints) \in Nat
        /\ \A h \in 1..Len(hints) : hints[h].ord \in Nat /\ hints[h].ord < N
    BY <2>0
  <2>2. \A h, k \in 1..Len(hints) : hints[h].ord = hints[k].ord => h = k
    BY DEF IsHints, Distinct
  <2>3. i \in Nat /\ i >= 1 /\ f \in Seq(Line)
    BY DEF IsFile
  <2> QED BY <2>1, <2>2, <2>3
<1> PICK rows : rows = w.rows
  OBVIOUS
<1>3. /\ rows \in Seq(HandleRow) /\ Len(rows) = i - 1 /\ Distinct(rows)
      /\ w.used \subseteq 1..Len(hints) /\ T \subseteq w.used
      /\ w.next \in N..(N + (i - 1))
      /\ \A k \in 1..(i - 1) :
           /\ rows[k].key = KeyOf(f, k)
           /\ rows[k].parent \in Root..(w.next - 1)
           /\ rows[k].ord < w.next
           /\ rows[k].ord >= N \/ \E h \in w.used \ T : rows[k].ord = hints[h].ord
  BY DEF WalkGood
<1>4. /\ next \in N..(N + i) /\ w.next \in Nat /\ w.next <= next
      /\ used \subseteq 1..Len(hints) /\ w.used \subseteq used /\ T \subseteq used
      /\ o \in Nat /\ o < next
      /\ o >= N \/ \E h \in used \ T : o = hints[h].ord
  <2>0. w.next \in Nat /\ N <= w.next /\ w.next <= N + (i - 1) /\ i - 1 \in Nat
    BY <1>2, <1>3
  <2>1. CASE o = w.next /\ used = w.used /\ next = w.next + 1
    BY SMTT(20), <1>2, <1>3, <2>0, <2>1
  <2>2. ASSUME NEW h \in (1..Len(hints)) \ w.used,
               o = hints[h].ord /\ used = w.used \cup {h} /\ next = w.next
        PROVE  /\ next \in N..(N + i) /\ w.next \in Nat /\ w.next <= next
               /\ used \subseteq 1..Len(hints) /\ w.used \subseteq used /\ T \subseteq used
               /\ o \in Nat /\ o < next
               /\ o >= N \/ \E g \in used \ T : o = hints[g].ord
    <3>1. h \in used \ T
      BY <1>3, <2>2
    <3>2. o \in Nat /\ o < N
      BY <1>2, <2>2
    <3> QED BY SMTT(20), <1>2, <1>3, <2>0, <2>2, <3>1, <3>2
  <2> QED BY <1>1, <2>1, <2>2
<1>5. \A k \in 1..(i - 1) : rows[k].ord \in Nat /\ rows[k] \in HandleRow
  <2>1. \A k \in 1..(i - 1) : rows[k] \in HandleRow
    BY <1>3
  <2>2. \A r \in HandleRow : r.ord \in Nat
    BY DEF HandleRow
  <2> QED BY <2>1, <2>2
<1>6. \A k \in 1..(i - 1) : rows[k].ord # o
  <2> SUFFICES ASSUME NEW k \in 1..(i - 1), rows[k].ord = o PROVE FALSE
    OBVIOUS
  <2>0. rows[k].ord = o
    OBVIOUS
  <2>1. CASE o = w.next
    BY <1>3, <1>4, <1>5, <2>1
  <2>2. ASSUME NEW h \in (1..Len(hints)) \ w.used, o = hints[h].ord PROVE FALSE
    <3>1. o < N
      BY <1>2, <2>2
    <3>2. PICK g \in w.used \ T : rows[k].ord = hints[g].ord
      <4>1. ~(o >= N)
        BY <1>2, <1>4, <3>1
      <4> QED BY <1>3, <2>0, <4>1
    <3> QED BY <1>2, <1>3, <2>2, <2>0, <3>2
  <2> QED BY <1>1, <2>1, <2>2
<1>7. parent \in Root..(next - 1)
  <2>1. CASE f[i].nested
    <3>1. ParentOf(f, i) \in 1..(i - 1)
      BY <2>1, ParentFacts
    <3> QED BY SMTT(20), <1>1, <1>3, <1>4, <1>5, <2>1, <3>1 DEF Root
  <2>2. CASE ~f[i].nested
    BY <1>1, <1>2, <1>4, <2>2 DEF Root
  <2> QED BY <2>1, <2>2
<1> PICK row : row = [key |-> KeyOf(f, i), parent |-> parent, ord |-> o]
  OBVIOUS
<1>8. row \in HandleRow /\ row.key = KeyOf(f, i) /\ row.parent = parent /\ row.ord = o
  <2>1. KeyOf(f, i) \in Key
    BY <1>2, KeyType
  <2>2. parent \in Int
    BY <1>4, <1>7 DEF Root
  <2> QED BY <1>4, <2>1, <2>2 DEF HandleRow
<1> PICK all : all = Append(rows, row)
  OBVIOUS
<1>9. /\ all \in Seq(HandleRow) /\ Len(all) = i /\ all[i] = row
      /\ \A k \in 1..(i - 1) : all[k] = rows[k]
  BY <1>2, <1>3, <1>8, AppendProperties
<1>10. v.rows = all /\ v.used = used /\ v.next = next
  BY <1>1
<1>11. Distinct(all)
  <2> SUFFICES ASSUME NEW j \in 1..i, NEW k \in 1..i, all[j].ord = all[k].ord PROVE j = k
    BY <1>9 DEF Distinct
  <2>1. CASE j # i /\ k # i
    <3>1. j \in 1..(i - 1) /\ k \in 1..(i - 1)
      BY <1>2, <2>1
    <3> QED BY <1>3, <1>9, <3>1 DEF Distinct
  <2>2. CASE j = i /\ k # i
    <3>1. k \in 1..(i - 1)
      BY <1>2, <2>2
    <3> QED BY <1>6, <1>8, <1>9, <2>2, <3>1
  <2>3. CASE j # i /\ k = i
    <3>1. j \in 1..(i - 1)
      BY <1>2, <2>3
    <3> QED BY <1>6, <1>8, <1>9, <2>3, <3>1
  <2> QED BY <2>1, <2>2, <2>3
<1>12. ASSUME NEW k \in 1..i
       PROVE  /\ all[k].key = KeyOf(f, k)
              /\ all[k].parent \in Root..(next - 1)
              /\ all[k].ord < next
              /\ all[k].ord >= N \/ \E h \in used \ T : all[k].ord = hints[h].ord
  <2>1. CASE k = i
    BY <1>4, <1>7, <1>8, <1>9, <2>1
  <2>2. CASE k # i
    <3>1. k \in 1..(i - 1) /\ all[k] = rows[k]
      BY <1>2, <1>9, <2>2
    <3>2. all[k].key = KeyOf(f, k) /\ all[k].parent \in Root..(next - 1) /\ all[k].ord < next
      <4>1. /\ rows[k].key = KeyOf(f, k) /\ rows[k].parent \in Root..(w.next - 1)
            /\ rows[k].ord < w.next /\ rows[k].ord \in Nat
        BY <1>3, <1>5, <3>1
      <4>2. w.next \in Nat /\ next \in Nat /\ w.next <= next
        BY <1>2, <1>4
      <4>3. \A x, y, z : (y \in Nat /\ z \in Nat /\ y <= z)
              => (x \in Root..(y - 1) => x \in Root..(z - 1)) /\ (x \in Nat /\ x < y => x < z)
        BY DEF Root
      <4>4. rows[k].parent \in Root..(next - 1) /\ rows[k].ord < next
        BY <4>1, <4>2, <4>3
      <4> QED BY <3>1, <4>1, <4>4
    <3>3. all[k].ord >= N \/ \E h \in used \ T : all[k].ord = hints[h].ord
      <4>1. rows[k].ord >= N \/ \E h \in w.used \ T : rows[k].ord = hints[h].ord
        BY <1>3, <3>1
      <4>2. w.used \subseteq used /\ all[k] = rows[k]
        BY <1>4, <3>1
      <4> QED BY <4>1, <4>2
    <3> QED BY <3>2, <3>3
  <2> QED BY <2>1, <2>2
<1>13. WalkGood(f, hints, retired, v, i)
  BY <1>4, <1>9, <1>10, <1>11, <1>12 DEF WalkGood
<1>14. Taken(f, hints, w, i, v)
  <2>1. \A k \in 1..(i - 1) : v.rows[k] = w.rows[k]
    BY <1>9, <1>10
  <2>2. v.rows[i].parent = parent /\ v.rows[i].ord = o /\ v.used = used
    BY <1>8, <1>9, <1>10
  <2>3. \/ best = {} /\ v.used = w.used
        \/ \E h \in best : v.rows[i].ord = hints[h].ord /\ v.used = w.used \cup {h}
    BY <1>0, <2>2
  <2> QED BY <1>0, <2>1, <2>2, <2>3 DEF Taken
<1> QED BY <1>13, <1>14

IsWalk(f, hints, retired, w, n) ==
  w = [i \in 0..n |-> IF i = 0 THEN First(hints, retired) ELSE Assign(f, hints, w[i - 1], i)]

LEMMA WalkStarts ==
  ASSUME NEW f, NEW hints, NEW retired
  PROVE  IsWalk(f, hints, retired, [i \in 0..0 |-> First(hints, retired)], 0)
<1>1. \A i \in 0..0 : i = 0
  OBVIOUS
<1> QED BY <1>1 DEF IsWalk

LEMMA WalkGoesOn ==
  ASSUME NEW f, NEW hints, NEW retired, NEW n \in Nat, NEW w, IsWalk(f, hints, retired, w, n)
  PROVE  \E v : IsWalk(f, hints, retired, v, n + 1)
<1> DEFINE v == [i \in 0..(n + 1) |-> IF i = n + 1 THEN Assign(f, hints, w[n], n + 1) ELSE w[i]]
<1>1. \A i \in 0..n : w[i] = IF i = 0 THEN First(hints, retired) ELSE Assign(f, hints, w[i - 1], i)
  BY DEF IsWalk
<1>2. ASSUME NEW i \in 0..(n + 1)
      PROVE  v[i] = IF i = 0 THEN First(hints, retired) ELSE Assign(f, hints, v[i - 1], i)
  <2>1. CASE i = n + 1
    <3>1. i # 0 /\ i - 1 = n /\ n \in 0..(n + 1) /\ n # n + 1
      BY <2>1
    <3>2. v[i] = Assign(f, hints, w[n], n + 1) /\ v[n] = w[n]
      BY <2>1, <3>1
    <3> QED BY <2>1, <3>1, <3>2
  <2>2. CASE i = 0
    <3>1. i # n + 1 /\ i \in 0..n
      BY <2>2
    <3> QED BY <1>1, <2>2, <3>1
  <2>3. CASE i # n + 1 /\ i # 0
    <3>1. i \in 0..n /\ i - 1 \in 0..(n + 1) /\ i - 1 # n + 1
      BY <2>3
    <3>2. v[i] = w[i] /\ v[i - 1] = w[i - 1]
      BY <2>3, <3>1
    <3>3. w[i] = Assign(f, hints, w[i - 1], i)
      BY <1>1, <2>3, <3>1
    <3> QED BY <2>3, <3>2, <3>3
  <2> QED BY <2>1, <2>2, <2>3
<1>3. v = [i \in 0..(n + 1) |-> v[i]]
  OBVIOUS
<1> HIDE DEF v
<1>4. v = [i \in 0..(n + 1) |-> IF i = 0 THEN First(hints, retired) ELSE Assign(f, hints, v[i - 1], i)]
  BY <1>2, <1>3
<1> QED BY <1>4 DEF IsWalk

\* A recursive function is defined on as much of its domain as one likes.
LEMMA WalkExists ==
  ASSUME NEW f, NEW hints, NEW retired, NEW n \in Nat
  PROVE  \E w : IsWalk(f, hints, retired, w, n)
<1> DEFINE S == {m \in Nat : ~ \E w : IsWalk(f, hints, retired, w, m)}
<1> SUFFICES ASSUME S # {} PROVE FALSE
  OBVIOUS
<1>1. PICK m \in S : \A k \in S : m <= k
  BY LeastNumber
<1>2. m # 0
  BY WalkStarts
<1>3. m - 1 \in Nat /\ ~(m <= m - 1) /\ (m - 1) + 1 = m
  BY <1>2
<1>4. PICK w : IsWalk(f, hints, retired, w, m - 1)
  BY <1>1, <1>3
<1>5. \E v : IsWalk(f, hints, retired, v, m)
  BY <1>3, <1>4, WalkGoesOn
<1> QED BY <1>5

LEMMA WalkIsGood ==
  ASSUME NEW f, IsFile(f), NEW hints, NEW b, IsHints(hints, b), NEW retired,
         NEW w, IsWalk(f, hints, retired, w, Len(f))
  PROVE  \A i \in 0..Len(f) : WalkGood(f, hints, retired, w[i], i)
<1> DEFINE S == {i \in 0..Len(f) : ~WalkGood(f, hints, retired, w[i], i)}
<1>1. Len(f) \in Nat
  BY DEF IsFile
<1> SUFFICES ASSUME S # {} PROVE FALSE
  BY <1>1
<1>2. \A i \in 0..Len(f) : w[i] = IF i = 0 THEN First(hints, retired) ELSE Assign(f, hints, w[i - 1], i)
  BY DEF IsWalk
<1>3. S \subseteq Nat
  BY <1>1
<1>4. PICK i \in S : \A k \in S : i <= k
  BY <1>3, LeastNumber
<1>5. CASE i = 0
  <2>1. w[i] = First(hints, retired)
    BY <1>2, <1>5
  <2>2. WalkGood(f, hints, retired, First(hints, retired), 0)
    BY FirstGood
  <2> QED BY <1>5, <2>1, <2>2
<1>6. CASE i # 0
  <2>1. i \in 1..Len(f) /\ i - 1 \in 0..Len(f) /\ ~(i <= i - 1)
    BY <1>1, <1>6
  <2>2. WalkGood(f, hints, retired, w[i - 1], i - 1)
    BY <1>4, <2>1
  <2>3. w[i] = Assign(f, hints, w[i - 1], i)
    BY <1>2, <1>6
  <2>4. WalkGood(f, hints, retired, w[i], i)
    BY <2>1, <2>2, <2>3, AssignGood
  <2> QED BY <2>4
<1> QED BY <1>5, <1>6

\* What a re-index makes of file f with the hints of a segment.
IsIndexed(f, hints, b, retired, rows) ==
  /\ rows \in Seq(HandleRow) /\ Keys(rows) = Parsed(f) /\ Distinct(rows)
  /\ \A i \in 1..Len(rows) : rows[i].ord <= b + MaxLines /\ rows[i].parent \in Root..(b + MaxLines)
  /\ OrdinalsOf(rows) \cap (retired \cap OrdinalsOf(hints)) = {}

LEMMA AssignedGood ==
  ASSUME NEW f, IsFile(f), NEW hints, NEW b, IsHints(hints, b), NEW retired
  PROVE  IsIndexed(f, hints, b, retired, Assigned(f, hints, retired))
<1>1. Len(f) \in Nat /\ Len(f) <= MaxLines /\ MaxLines \in Nat
  BY NodeHandlesAssumption DEF IsFile
<1> DEFINE u == CHOOSE w : IsWalk(f, hints, retired, w, Len(f))
<1>2. IsWalk(f, hints, retired, u, Len(f))
  BY <1>1, WalkExists
<1>3. Assigned(f, hints, retired) = u[Len(f)].rows
  BY DEF Assigned, IsWalk, First
<1> PICK w : w = u[Len(f)]
  OBVIOUS
<1>4. WalkGood(f, hints, retired, w, Len(f))
  BY <1>1, <1>2, WalkIsGood
<1> HIDE DEF u
<1> PICK rows : rows = w.rows
  OBVIOUS
<1> PICK N : N = NextOrdinal(hints)
  OBVIOUS
<1>5. /\ N \in 0..(b + 1) /\ Len(hints) \in Nat /\ b \in Int /\ b >= -1
      /\ \A h \in 1..Len(hints) : hints[h].ord \in Nat /\ hints[h].ord < N
  <2>1. N \in 0..(b + 1) /\ \A h \in 1..Len(hints) : hints[h].ord \in Nat /\ hints[h].ord < N
    BY HintFacts
  <2> QED BY <2>1, HintFacts DEF IsHints
<1>6. /\ rows \in Seq(HandleRow) /\ Len(rows) = Len(f) /\ Distinct(rows)
      /\ w.used \subseteq 1..Len(hints)
      /\ w.next \in N..(N + Len(f))
      /\ \A k \in 1..Len(f) :
           /\ rows[k].key = KeyOf(f, k)
           /\ rows[k].parent \in Root..(w.next - 1)
           /\ rows[k].ord < w.next
           /\ \/ rows[k].ord >= N
              \/ \E h \in w.used \ Tombstone(hints, retired) : rows[k].ord = hints[h].ord
  BY <1>4 DEF WalkGood
<1>7. Keys(rows) = Parsed(f)
  BY <1>6 DEF Keys, Parsed
<1> PICK next : next = w.next
  OBVIOUS
<1>8. next - 1 <= b + MaxLines /\ next \in Nat
  BY <1>1, <1>5, <1>6
<1>9. \A x : (x \in Nat /\ x < next => x <= b + MaxLines) /\ (x \in Root..(next - 1) => x \in Root..(b + MaxLines))
  BY SMTT(20), <1>1, <1>5, <1>8 DEF Root
<1>10. \A k \in 1..Len(rows) : rows[k].ord \in Nat
  <2>1. \A k \in 1..Len(rows) : rows[k] \in HandleRow
    BY <1>6
  <2>2. \A r \in HandleRow : r.ord \in Nat
    BY DEF HandleRow
  <2> QED BY <2>1, <2>2
<1>11. \A k \in 1..Len(rows) : rows[k].ord <= b + MaxLines /\ rows[k].parent \in Root..(b + MaxLines)
  BY <1>6, <1>9, <1>10
<1>12. ASSUME NEW k \in 1..Len(rows), NEW g \in 1..Len(hints), rows[k].ord = hints[g].ord
       PROVE  rows[k].ord \notin retired
  <2>1. rows[k].ord \in Nat /\ rows[k].ord < N
    BY <1>5, <1>12
  <2>2. ~(rows[k].ord >= N)
    BY <1>5, <2>1
  <2>3. PICK h \in w.used \ Tombstone(hints, retired) : rows[k].ord = hints[h].ord
    BY <1>6, <2>2
  <2>4. h \in 1..Len(hints) /\ hints[h].ord \notin retired
    BY <1>6, <2>3 DEF Tombstone
  <2> QED BY <2>3, <2>4
<1>13. OrdinalsOf(rows) \cap (retired \cap OrdinalsOf(hints)) = {}
  <2> SUFFICES ASSUME NEW o \in OrdinalsOf(rows), o \in retired, o \in OrdinalsOf(hints) PROVE FALSE
    OBVIOUS
  <2>1. PICK k \in 1..Len(rows) : o = rows[k].ord
    BY DEF OrdinalsOf
  <2>2. PICK g \in 1..Len(hints) : o = hints[g].ord
    BY DEF OrdinalsOf
  <2> QED BY <1>12, <2>1, <2>2
<1> QED BY <1>3, <1>6, <1>7, <1>11, <1>13 DEF IsIndexed

-----------------------------------------------------------------------------
\* What a re-index leaves.

LEMMA Wider ==
  ASSUME NEW rows, NEW e \in Nat, IsSegment(rows, Most(e))
  PROVE  IsSegment(rows, Most(e + 1))
<1>1. Most(e) \in Nat /\ Most(e + 1) \in Nat /\ Most(e) <= Most(e + 1)
  BY MostGrows, NodeHandlesAssumption
<1>2. \A i \in 1..Len(rows) : rows[i].ord \in Nat
  <2>1. \A i \in 1..Len(rows) : rows[i] \in HandleRow
    BY DEF IsSegment
  <2>2. \A r \in HandleRow : r.ord \in Nat
    BY DEF HandleRow
  <2> QED BY <2>1, <2>2
<1>3. \A x : (x \in Nat /\ x <= Most(e) => x <= Most(e + 1)) /\ (x \in Root..Most(e) => x \in Root..Most(e + 1))
  BY <1>1 DEF Root
<1> HIDE DEF Most
<1> QED BY <1>2, <1>3 DEF IsSegment

LEMMA RowsFacts ==
  ASSUME HandlesInv
  PROVE  /\ edits \in Nat /\ IsSegment(Rows, Most(edits)) /\ IsHints(Rows, Most(edits))
         /\ Rows \in Seq(HandleRow) /\ OrdinalsOf(Rows) \subseteq Nat /\ Len(Rows) = Len(lines)
<1>1. edits \in Nat /\ MaxEdits \in Nat
  BY NodeHandlesAssumption DEF HandlesInv
<1>2. IsSegment(Rows, Most(edits)) /\ Keys(Rows) = Parsed(lines)
  BY DEF HandlesInv, Placed, Rows
<1>3. Most(edits) \in Nat
  BY <1>1, MostGrows
<1>4. IsHints(Rows, Most(edits))
  BY <1>2, <1>3 DEF IsSegment, IsHints
<1>5. Rows \in Seq(HandleRow)
  BY <1>2 DEF IsSegment
<1>6. \A h \in 1..Len(Rows) : Rows[h].ord \in Nat
  BY <1>4, HintFacts
<1>7. OrdinalsOf(Rows) \subseteq Nat
  BY <1>6 DEF OrdinalsOf
<1>8. Len(Rows) \in Nat /\ Len(lines) \in Nat
  BY <1>5 DEF HandlesInv, IsFile
<1>9. DOMAIN Keys(Rows) = 1..Len(Rows) /\ DOMAIN Parsed(lines) = 1..Len(lines)
  BY DEF Keys, Parsed
<1>10. 1..Len(Rows) = 1..Len(lines)
  BY <1>2, <1>9
<1>11. Len(Rows) = Len(lines)
  BY <1>8, <1>10
<1> QED BY <1>1, <1>2, <1>4, <1>5, <1>7, <1>11

\* The segment that a re-index of f chooses.
LEMMA ChosenSegment ==
  ASSUME HandlesInv, NEW f, IsFile(f), NEW retired, NEW rows,
         rows = IF Reusable(f, retired) # {} THEN CHOOSE r \in Reusable(f, retired) : TRUE
                ELSE Assigned(f, Rows, retired)
  PROVE  /\ IsSegment(rows, Most(edits + 1)) /\ Keys(rows) = Parsed(f) /\ rows # NoSegment
         /\ OrdinalsOf(rows) \cap (retired \cap OrdinalsOf(Rows)) = {}
<1>0. edits \in Nat /\ IsHints(Rows, Most(edits))
  BY RowsFacts
<1>1. CASE Reusable(f, retired) # {}
  <2>1. rows \in Reusable(f, retired)
    BY <1>1
  <2>2. rows \in saved /\ Keys(rows) = Parsed(f) /\ retired = {}
    BY <2>1 DEF Reusable, Staged
  <2>3. IsSegment(rows, Most(edits))
    BY <2>2 DEF HandlesInv, Placed
  <2>4. IsSegment(rows, Most(edits + 1))
    BY <1>0, <2>3, Wider
  <2>5. rows # NoSegment
    BY <2>3, NoSegmentAssumption DEF IsSegment
  <2> QED BY <2>2, <2>4, <2>5
<1>2. CASE Reusable(f, retired) = {}
  <2>1. IsIndexed(f, Rows, Most(edits), retired, rows)
    BY <1>0, <1>2, AssignedGood
  <2>2. /\ rows \in Seq(HandleRow) /\ Keys(rows) = Parsed(f) /\ Distinct(rows)
        /\ \A i \in 1..Len(rows) : /\ rows[i].ord <= Most(edits) + MaxLines
                                   /\ rows[i].parent \in Root..(Most(edits) + MaxLines)
        /\ OrdinalsOf(rows) \cap (retired \cap OrdinalsOf(Rows)) = {}
    BY <2>1 DEF IsIndexed
  <2>3. Most(edits) \in Nat /\ Most(edits + 1) = Most(edits) + MaxLines + 1 /\ MaxLines \in Nat
    BY <1>0, MostGrows, NodeHandlesAssumption
  <2>4. \A i \in 1..Len(rows) : rows[i].ord \in Nat
    <3>1. \A i \in 1..Len(rows) : rows[i] \in HandleRow
      BY <2>2
    <3>2. \A r \in HandleRow : r.ord \in Nat
      BY DEF HandleRow
    <3> QED BY <3>1, <3>2
  <2>5. \A x : /\ x \in Nat /\ x <= Most(edits) + MaxLines => x <= Most(edits + 1)
               /\ x \in Root..(Most(edits) + MaxLines) => x \in Root..Most(edits + 1)
    BY <2>3 DEF Root
  <2>6. IsSegment(rows, Most(edits + 1))
    BY <2>2, <2>4, <2>5 DEF IsSegment
  <2>7. rows # NoSegment
    BY <2>2, NoSegmentAssumption
  <2> QED BY <2>2, <2>6, <2>7
<1> QED BY <1>1, <1>2

\* What a re-index leaves is as good as what it found.
LEMMA TakenInGood ==
  ASSUME HandlesInv, NEW f, IsFile(f), NEW retired, NEW removed, removed \subseteq Nat,
         NEW edit, edit \in BOOLEAN, TakenIn(f, retired, removed, edit), Command,
         lines' = f, UNCHANGED <<base, begun>>
  PROVE  /\ edits' \in 0..MaxEdits /\ IsFile(lines')
         /\ last' \in [built : BOOLEAN, edit : BOOLEAN, removed : SUBSET Nat, retired : SUBSET Nat]
         /\ last'.edit = edit
         /\ Placed' /\ Cached' /\ Saved' /\ RetiredNotReissued'
         /\ \A s \in saved : Keys(s) # Parsed(f) => s \in saved'
<1>1. edits \in Nat /\ OrdinalsOf(Rows) \subseteq Nat /\ MaxEdits \in Nat
  BY RowsFacts, NodeHandlesAssumption
<1>2. edits' = edits + 1 /\ edits' \in 0..MaxEdits
  BY <1>1 DEF Command, HandlesInv
<1> PICK rows : rows = IF Reusable(f, retired) # {} THEN CHOOSE r \in Reusable(f, retired) : TRUE
                       ELSE Assigned(f, Rows, retired)
  OBVIOUS
<1>3. /\ IsSegment(rows, Most(edits + 1)) /\ Keys(rows) = Parsed(f) /\ rows # NoSegment
      /\ OrdinalsOf(rows) \cap (retired \cap OrdinalsOf(Rows)) = {}
  BY ChosenSegment
<1>4. /\ segment' = rows
      /\ saved' = (saved \ Staged(f)) \cup {rows}
      /\ last' = [built |-> Reusable(f, retired) = {}, edit |-> edit, removed |-> removed,
                  retired |-> retired \cap OrdinalsOf(Rows)]
  BY DEF TakenIn
<1>5. last'.edit = edit /\ last'.retired = retired \cap OrdinalsOf(Rows)
  BY <1>4
<1>6. last' \in [built : BOOLEAN, edit : BOOLEAN, removed : SUBSET Nat, retired : SUBSET Nat]
  <2>1. retired \cap OrdinalsOf(Rows) \in SUBSET Nat /\ removed \in SUBSET Nat
    BY <1>1
  <2>2. (Reusable(f, retired) = {}) \in BOOLEAN
    OBVIOUS
  <2> QED BY <1>4, <2>1, <2>2
<1>7. Rows' = rows
  BY <1>3, <1>4 DEF Rows
<1>8. \A s \in saved' : s = rows \/ (s \in saved /\ Keys(s) # Parsed(f))
  BY <1>4 DEF Staged
<1>9. \A s \in saved : Keys(s) # Parsed(f) => s \in saved'
  BY <1>4 DEF Staged
<1>10. \A s : IsSegment(s, Most(edits)) => IsSegment(s, Most(edits + 1))
  BY <1>1, Wider
<1>11. Placed'
  <2>1. base' # NoSegment => IsSegment(base', Most(edits'))
    BY <1>2, <1>10 DEF HandlesInv, Placed
  <2>2. \A s \in saved' : IsSegment(s, Most(edits'))
    BY <1>2, <1>3, <1>8, <1>10 DEF HandlesInv, Placed
  <2>3. segment' \in saved' /\ segment' # NoSegment
    BY <1>3, <1>4
  <2>4. Keys(Rows') = Parsed(lines')
    BY <1>3, <1>7
  <2> QED BY <2>1, <2>2, <2>3, <2>4 DEF Placed
<1>12. Cached'
  <2> SUFFICES ASSUME NEW r \in saved', NEW s \in saved', Keys(r) = Keys(s) PROVE r = s
    BY DEF Cached
  <2>1. CASE r # rows /\ s # rows
    BY <1>8, <2>1 DEF HandlesInv, Cached
  <2>2. CASE r = rows \/ s = rows
    BY <1>3, <1>8, <2>2
  <2> QED BY <2>1, <2>2
<1>13. Saved'
  <2> SUFFICES ASSUME begun # NoSegment
               PROVE  /\ begun \in [lines : Seq(Line), dirty : BOOLEAN]
                      /\ IsFile(begun.lines)
                      /\ IF begun.dirty THEN Staged(begun.lines)' # {}
                         ELSE base # NoSegment /\ Keys(base) = Parsed(begun.lines)
    BY DEF Saved
  <2>1. /\ begun \in [lines : Seq(Line), dirty : BOOLEAN]
        /\ IsFile(begun.lines)
        /\ IF begun.dirty THEN Staged(begun.lines) # {}
           ELSE base # NoSegment /\ Keys(base) = Parsed(begun.lines)
    BY DEF HandlesInv, Saved
  <2>2. ASSUME begun.dirty PROVE \E s \in saved' : Keys(s) = Parsed(begun.lines)
    <3>1. PICK s \in saved : Keys(s) = Parsed(begun.lines)
      BY <2>1, <2>2 DEF Staged
    <3>2. CASE Parsed(begun.lines) = Parsed(f)
      <4>1. rows \in saved'
        BY <1>4
      <4> QED BY <1>3, <3>2, <4>1
    <3>3. CASE Parsed(begun.lines) # Parsed(f)
      BY <1>9, <3>1, <3>3
    <3> QED BY <3>2, <3>3
  <2>3. ASSUME begun.dirty PROVE Staged(begun.lines)' # {}
    BY <2>2, <2>3 DEF Staged
  <2> QED BY <2>1, <2>3
<1>14. RetiredNotReissued'
  BY <1>3, <1>5, <1>7 DEF RetiredNotReissued
<1> QED BY <1>2, <1>5, <1>6, <1>9, <1>11, <1>12, <1>13, <1>14

LEMMA Part ==
  ASSUME NEW S, NEW s \in Seq(S), NEW m \in 1..Len(s), NEW n \in m..Len(s)
  PROVE  /\ SubSeq(s, m, n) \in Seq(S) /\ Len(SubSeq(s, m, n)) = n - m + 1
         /\ \A i \in 1..(n - m + 1) : SubSeq(s, m, n)[i] = s[m + i - 1]
<1>1. Len(s) \in Nat
  OBVIOUS
<1>2. m \in Int /\ n \in Int /\ m <= n /\ m..n \subseteq 1..Len(s)
  BY <1>1
<1>3. \A i \in m..n : s[i] \in S
  BY <1>2
<1>4. /\ SubSeq(s, m, n) \in Seq(S)
      /\ Len(SubSeq(s, m, n)) = IF m <= n THEN n - m + 1 ELSE 0
      /\ \A i \in 1..(n - m + 1) : SubSeq(s, m, n)[i] = s[m + i - 1]
  BY <1>2, <1>3, SubSeqProperties
<1> QED BY <1>2, <1>4

LEMMA Two == ASSUME NEW x, NEW y, x # y PROVE Cardinality({x} \cup {y}) = 2
<1>1. IsFiniteSet({x}) /\ Cardinality({x}) = 1 /\ y \notin {x}
  BY FS_Singleton
<1> QED BY <1>1, FS_AddElement

LEMMA Joined ==
  ASSUME NEW S, NEW s \in Seq(S), NEW t \in Seq(S)
  PROVE  /\ s \o t \in Seq(S) /\ Len(s \o t) = Len(s) + Len(t)
         /\ Len(s) >= 1 => (s \o t)[1] = s[1]
         /\ Len(s) = 0 /\ Len(t) >= 1 => (s \o t)[1] = t[1]
<1>1. Len(s) \in Nat /\ Len(t) \in Nat
  OBVIOUS
<1>2. s \o t \in Seq(S) /\ Len(s \o t) = Len(s) + Len(t)
  BY ConcatProperties
<1>3. \A i \in 1..(Len(s) + Len(t)) : (s \o t)[i] = IF i <= Len(s) THEN s[i] ELSE t[i - Len(s)]
  BY ConcatProperties
<1> QED BY <1>1, <1>2, <1>3

LEMMA Size == ASSUME NEW n \in Nat PROVE IsFiniteSet(1..n) /\ Cardinality(1..n) = n
<1>1. IsFiniteSet(1..n) /\ Cardinality(1..n) = IF 1 <= n THEN n - 1 + 1 ELSE 0
  BY FS_Interval
<1> QED BY <1>1

\* A slot is put first in the ring, and the last may go.
Pushed(r, s) == SubSeq(<<s>> \o r, 1, Min({RingSize, Len(r) + 1}))

PutFirst(s, r, t) == /\ Len(t) \in 1..RingSize /\ t[1] = s
                     /\ \A n \in 2..Len(t) : n - 1 \in 1..Len(r) /\ t[n] = r[n - 1]

LEMMA PushedIs ==
  ASSUME NEW Slot, NEW r \in Seq(Slot), NEW s \in Slot
  PROVE  Pushed(r, s) \in Seq(Slot) /\ PutFirst(s, r, Pushed(r, s))
<1>1. Len(r) \in Nat
  OBVIOUS
<1> PICK all : all = <<s>> \o r
  OBVIOUS
<1>2. /\ all \in Seq(Slot) /\ Len(all) = Len(r) + 1 /\ all[1] = s
      /\ \A n \in 2..Len(all) : all[n] = r[n - 1]
  <2>1. <<s>> \in Seq(Slot) /\ Len(<<s>>) = 1 /\ <<s>>[1] = s
    OBVIOUS
  <2> QED BY <1>1, <2>1, ConcatProperties
<1> PICK m : m = Min({RingSize, Len(r) + 1})
  OBVIOUS
<1>3. m \in 1..(Len(r) + 1) /\ m \in 1..RingSize
  <2>1. RingSize \in Nat /\ RingSize >= 1
    BY DEF RingSize
  <2>2. \E x \in {RingSize, Len(r) + 1} : \A y \in {RingSize, Len(r) + 1} : x <= y
    BY <1>1, <2>1
  <2>3. m \in {RingSize, Len(r) + 1} /\ \A y \in {RingSize, Len(r) + 1} : m <= y
    BY <2>2 DEF Min
  <2> QED BY <1>1, <2>1, <2>3
<1> PICK t : t = Pushed(r, s)
  OBVIOUS
<1>4. t \in Seq(Slot) /\ Len(t) = m /\ \A n \in 1..m : t[n] = all[n]
  <2>1. Len(all) \in Nat /\ 1 \in 1..Len(all) /\ m \in 1..Len(all) /\ m \in Int
    BY <1>1, <1>2, <1>3
  <2>2. /\ SubSeq(all, 1, m) \in Seq(Slot) /\ Len(SubSeq(all, 1, m)) = m - 1 + 1
        /\ \A n \in 1..(m - 1 + 1) : SubSeq(all, 1, m)[n] = all[1 + n - 1]
    <3>1. all \in Seq(Slot)
      BY <1>2
    <3> QED BY ZenonT(30), <2>1, <3>1, Part
  <2>3. m - 1 + 1 = m /\ \A n \in 1..m : 1 + n - 1 = n
    BY <2>1
  <2>4. t = SubSeq(all, 1, m)
    BY DEF Pushed
  <2> QED BY <2>2, <2>3, <2>4
<1>5. t[1] = s /\ \A n \in 2..m : n - 1 \in 1..Len(r) /\ t[n] = r[n - 1]
  <2>1. m \in Nat /\ m >= 1 /\ m <= Len(all) /\ Len(all) = Len(r) + 1
    BY <1>1, <1>2, <1>3
  <2>2. ASSUME NEW n \in 2..m PROVE n \in 1..m /\ n \in 2..Len(all) /\ n - 1 \in 1..Len(r)
    BY <1>1, <2>1
  <2>3. 1 \in 1..m
    BY <2>1
  <2>4. t[1] = s
    BY <1>2, <1>4, <2>3
  <2> QED BY <1>2, <1>4, <2>2, <2>4
<1> QED BY <1>3, <1>4, <1>5 DEF PutFirst

\* An edit: what was there goes to the ring, and stays staged if it must.
LEMMA EditedGood ==
  ASSUME HandlesInv, NEW f, IsFile(f), NEW retired, NEW removed, removed \subseteq Nat,
         Edited(f, retired, removed)
  PROVE  HandlesInv'
<1> DEFINE Slot == [lines : Seq(Line), rows : Seq(HandleRow) \cup {NoSegment}]
           slot == [lines |-> lines, rows |-> segment]
<1>1. /\ Command /\ lines' = f /\ TakenIn(f, retired, removed, TRUE) /\ UNCHANGED <<base, begun>>
      /\ ring' = Pushed(ring, slot)
  BY DEF Edited, Pushed
<1>2. /\ edits' \in 0..MaxEdits /\ IsFile(lines')
      /\ last' \in [built : BOOLEAN, edit : BOOLEAN, removed : SUBSET Nat, retired : SUBSET Nat]
      /\ Placed' /\ Cached' /\ Saved' /\ RetiredNotReissued'
      /\ \A s \in saved : Keys(s) # Parsed(f) => s \in saved'
  BY <1>1, TakenInGood
<1>3. ring \in Seq(Slot) /\ \A n \in 1..Len(ring) : IsFile(ring[n].lines)
  BY DEF HandlesInv, Kept
<1>4. slot \in Slot /\ slot.lines = lines /\ slot.rows = segment
  <2>1. segment \in Seq(HandleRow) \cup {NoSegment}
    BY DEF HandlesInv, Placed, IsSegment
  <2>2. lines \in Seq(Line)
    BY DEF HandlesInv, IsFile
  <2> QED BY <2>1, <2>2
<1> PICK s : s = slot
  OBVIOUS
<1>5. s \in Slot /\ s.lines = lines /\ s.rows = segment /\ ring' = Pushed(ring, s)
  BY <1>1, <1>4
<1> HIDE DEF slot, Slot
<1>6. /\ ring' \in Seq(Slot) /\ Len(ring') \in 1..RingSize /\ ring'[1] = s
      /\ \A n \in 2..Len(ring') : n - 1 \in 1..Len(ring) /\ ring'[n] = ring[n - 1]
  <2>1. Pushed(ring, s) \in Seq(Slot) /\ PutFirst(s, ring, Pushed(ring, s))
    BY <1>3, <1>5, PushedIs
  <2> QED BY <1>5, <2>1 DEF PutFirst
<1>7. ASSUME NEW n \in 1..Len(ring') PROVE IsFile(ring'[n].lines)
  <2>1. CASE n = 1
    BY <1>5, <1>6, <2>1 DEF HandlesInv
  <2>2. CASE n # 1
    <3>1. n \in 2..Len(ring')
      BY <1>6, <2>2
    <3> QED BY <1>3, <1>6, <3>1
  <2> QED BY <2>1, <2>2
<1>8. ASSUME segment # NoSegment
      PROVE  /\ Keys(segment) = Parsed(lines)
             /\ Parsed(lines) # Parsed(lines') => segment \in saved'
  <2>1. segment \in saved /\ Keys(segment) = Parsed(lines)
    BY <1>8 DEF HandlesInv, Placed, Rows
  <2> QED BY <1>1, <1>2, <2>1
<1>9. Kept'
  <2>1. ring' \in Seq([lines : Seq(Line), rows : Seq(HandleRow) \cup {NoSegment}])
    BY <1>6 DEF Slot
  <2>3. \A x : x \in 1..RingSize => x <= RingSize
    BY DEF RingSize
  <2>4. Len(ring') <= RingSize
    BY <1>6, <2>3
  <2>2. ring'[1].rows # NoSegment =>
          /\ Keys(ring'[1].rows) = Parsed(ring'[1].lines)
          /\ Parsed(ring'[1].lines) # Parsed(lines') => ring'[1].rows \in saved'
    BY <1>5, <1>6, <1>8
  <2> QED BY <1>7, <2>1, <2>2, <2>4 DEF Kept
<1> QED BY <1>2, <1>9 DEF HandlesInv

-----------------------------------------------------------------------------
\* What the edits make of the file is a file.

\* The lines of g are those of f but gone, in order.
InOrder(g, f, gone) ==
  \A k \in 1..Len(g) : \E i \in (1..Len(f)) \ gone :
    g[k] = f[i] /\ Cardinality({j \in (1..Len(f)) \ gone : j <= i}) = k

LEMMA WithoutIsFile ==
  ASSUME NEW f, IsFile(f), NEW I, I \subseteq 1..Len(f),
         NEW gone, gone = UNION {Span(f, i) : i \in I}
  PROVE  /\ IsFile(Without(f, gone)) /\ gone \subseteq 1..Len(f)
         /\ Len(Without(f, gone)) = Cardinality((1..Len(f)) \ gone)
         /\ InOrder(Without(f, gone), f, gone)
<1>1. f \in Seq(Line) /\ Len(f) \in Nat /\ Len(f) <= MaxLines /\ MaxLines \in Nat
  BY NodeHandlesAssumption DEF IsFile
<1> PICK kept : kept = {i \in 1..Len(f) : i \notin gone}
  OBVIOUS
<1> DEFINE at(k) == CHOOSE i \in kept : Cardinality({j \in kept : j <= i}) = k
<1>2. gone \subseteq 1..Len(f)
  <2> SUFFICES ASSUME NEW i \in I, NEW k \in Span(f, i) PROVE k \in 1..Len(f)
    OBVIOUS
  <2>1. i \in 1..Len(f) /\ k \in i..Len(f)
    BY DEF Span
  <2> QED BY <1>1, <2>1
<1>3. kept \in SUBSET (1..Len(f)) /\ kept = (1..Len(f)) \ gone
  OBVIOUS
<1> PICK n : n = Cardinality(kept)
  OBVIOUS
<1>4. n \in Nat /\ n <= Len(f)
  <2>1. IsFiniteSet(1..Len(f)) /\ Cardinality(1..Len(f)) = Len(f)
    BY <1>1, Size
  <2>2. IsFiniteSet(kept) /\ Cardinality(kept) <= Len(f)
    BY <1>3, <2>1, FS_Subset
  <2> QED BY <2>2, FS_CardinalityType
<1>5. ASSUME NEW k \in 1..n PROVE at(k) \in kept /\ Cardinality({j \in kept : j <= at(k)}) = k
  <2>1. \E i \in kept : Cardinality({j \in kept : j <= i}) = k
    BY <1>1, <1>3, Ranked
  <2> QED BY <2>1
<1> PICK g : g = Without(f, gone)
  OBVIOUS
<1>6. g = [k \in 1..n |-> f[at(k)]]
  BY DEF Without
<1>7. \A k \in 1..n : f[at(k)] \in Line
  <2>1. \A i \in kept : f[i] \in Line
    BY <1>1, <1>3
  <2> HIDE DEF at
  <2> QED BY <1>5, <2>1
<1>8. g \in Seq(Line) /\ Len(g) = n
  <2> HIDE DEF at
  <2>1. g \in [1..n -> Line]
    BY <1>6, <1>7
  <2>2. g \in Seq(Line)
    <3>1. Seq(Line) = UNION {[1..k -> Line] : k \in Nat}
      BY SeqDef
    <3> QED BY <1>4, <2>1, <3>1
  <2> QED BY <1>4, <2>1, <2>2
<1>9. ASSUME n >= 1 PROVE ~g[1].nested
  <2>1. 1 \in 1..n
    BY <1>4, <1>9
  <2> PICK i : i = at(1)
    OBVIOUS
  <2> HIDE DEF at
  <2>2. i \in kept /\ Cardinality({j \in kept : j <= i}) = 1 /\ g[1] = f[i]
    BY <1>5, <1>6, <2>1
  <2> SUFFICES ASSUME f[i].nested PROVE FALSE
    BY <2>2
  <2> PICK p : p = ParentOf(f, i)
    OBVIOUS
  <2>3. p \in 1..(i - 1) /\ ~f[p].nested /\ i \in Span(f, p)
    BY <2>2, ParentFacts
  <2>4. i \in Nat /\ p \in 1..Len(f) /\ p < i
    BY <1>1, <2>2, <2>3
  <2>5. CASE p \in gone
    <3>1. PICK r \in I : p \in Span(f, r)
      <4>1. p \in UNION {Span(f, r) : r \in I}
        BY <2>5
      <4> QED BY <4>1
    <3>2. r \in 1..Len(f) /\ p \in r..Len(f) /\ \A j \in (r + 1)..p : f[j].nested
      BY <3>1 DEF Span
    <3>3. p = r
      <4> SUFFICES ASSUME p # r PROVE FALSE
        OBVIOUS
      <4>1. p \in (r + 1)..p
        BY <1>1, <2>4, <3>2
      <4> QED BY <2>3, <3>2, <4>1
    <3>4. i \in gone
      <4>1. i \in UNION {Span(f, q) : q \in I}
        BY <2>3, <3>3
      <4> QED BY <4>1
    <3> QED BY <1>3, <2>2, <3>4
  <2>6. CASE p \notin gone
    <3> PICK S : S = {j \in kept : j <= i}
      OBVIOUS
    <3>1. p \in S /\ i \in S /\ p # i
      <4>1. p \in kept
        BY <1>3, <2>4, <2>6
      <4>2. p \in Nat /\ i \in Nat /\ p < i
        BY <1>1, <2>4
      <4>3. p <= i /\ i <= i /\ p # i
        BY <4>2
      <4>4. \A x : x \in S <=> x \in kept /\ x <= i
        OBVIOUS
      <4> QED BY <2>2, <4>1, <4>3, <4>4
    <3>2. IsFiniteSet(S)
      <4>1. IsFiniteSet(1..Len(f)) /\ S \in SUBSET (1..Len(f))
        BY <1>1, FS_Interval
      <4> QED BY <4>1, FS_Subset
    <3>3. Cardinality({p, i}) = 2 /\ {p, i} \in SUBSET S
      <4>2. Cardinality({p} \cup {i}) = 2
        BY <3>1, Two
      <4>3. {p, i} = {p} \cup {i}
        OBVIOUS
      <4> QED BY <3>1, <4>2, <4>3
    <3>4. Cardinality({p, i}) <= Cardinality(S) /\ Cardinality(S) = 1
      BY <2>2, <3>2, <3>3, FS_Subset
    <3> QED BY <3>3, <3>4
  <2> QED BY <2>5, <2>6
<1>10. g # <<>> => n >= 1
  <2> SUFFICES ASSUME g # <<>>, ~(n >= 1) PROVE FALSE
    OBVIOUS
  <2>1. n = 0
    BY <1>4
  <2> QED BY <1>8, <2>1, EmptySeq
<1>11. IsFile(g)
  BY <1>1, <1>4, <1>8, <1>9, <1>10 DEF IsFile
<1>12. \A k \in 1..Len(g) : \E i \in kept : g[k] = f[i] /\ Cardinality({j \in kept : j <= i}) = k
  <2> HIDE DEF at
  <2> QED BY <1>5, <1>6, <1>8
<1>13. InOrder(g, f, gone)
  BY ZenonT(30), <1>3, <1>12 DEF InOrder
<1> QED BY <1>2, <1>3, <1>8, <1>11, <1>13

\* new goes in before line i of f.
LEMMA InsertedIsFile ==
  ASSUME NEW f, IsFile(f), NEW i \in 1..(Len(f) + 1), NEW new \in Seq(Line), new # <<>>,
         Len(f) + Len(new) <= MaxLines, i = 1 => ~new[1].nested
  PROVE  IsFile(Inserted(f, i, new))
<1>1. f \in Seq(Line) /\ Len(f) \in Nat /\ (f # <<>> => ~f[1].nested) /\ Len(new) \in Nat
  BY DEF IsFile
<1>0. Len(new) >= 1
  BY <1>1, EmptySeq
<1> DEFINE a == SubSeq(f, 1, i - 1)
           b == SubSeq(f, i, Len(f))
           c == a \o new
           d == c \o b
<1>2. a \in Seq(Line) /\ Len(a) = i - 1 /\ (i > 1 => a[1] = f[1])
  <2>1. CASE i = 1
    <3>1. a = <<>>
      BY <1>1, <2>1, SubSeqEmpty
    <3> QED BY <2>1, <3>1
  <2>2. CASE i # 1
    <3>1. 1 \in 1..Len(f) /\ i - 1 \in 1..Len(f) /\ 1 \in 1..(i - 1 - 1 + 1)
      BY <1>1, <2>2
    <3>2. /\ a \in Seq(Line) /\ Len(a) = i - 1 - 1 + 1
          /\ \A k \in 1..(i - 1 - 1 + 1) : a[k] = f[1 + k - 1]
      BY <1>1, <3>1, Part
    <3>3. i - 1 - 1 + 1 = i - 1 /\ 1 + 1 - 1 = 1
      OBVIOUS
    <3> QED BY <3>1, <3>2, <3>3
  <2> QED BY <2>1, <2>2
<1>3. b \in Seq(Line) /\ Len(b) = Len(f) - i + 1
  <2>1. CASE i = Len(f) + 1
    <3>1. b = <<>>
      BY <1>1, <2>1, SubSeqEmpty
    <3> QED BY <1>1, <2>1, <3>1
  <2>2. CASE i # Len(f) + 1
    <3>1. i \in 1..Len(f) /\ Len(f) \in i..Len(f)
      BY <1>1, <2>2
    <3> QED BY <1>1, <3>1, Part
  <2> QED BY <2>1, <2>2
<1> HIDE DEF a, b
<1>4. /\ c \in Seq(Line) /\ Len(c) = i - 1 + Len(new)
      /\ i > 1 => c[1] = a[1]
      /\ i = 1 => c[1] = new[1]
  <2>1. /\ c \in Seq(Line) /\ Len(c) = Len(a) + Len(new)
        /\ Len(a) >= 1 => c[1] = a[1]
        /\ Len(a) = 0 /\ Len(new) >= 1 => c[1] = new[1]
    BY <1>2, Joined
  <2>2. Len(a) = i - 1 /\ i \in Nat /\ i >= 1
    BY <1>1, <1>2
  <2> QED BY <1>0, <2>1, <2>2
<1> HIDE DEF c
<1>5. d \in Seq(Line) /\ Len(d) = Len(f) + Len(new) /\ d[1] = c[1]
  <2>0. c \in Seq(Line) /\ b \in Seq(Line)
    BY <1>3, <1>4
  <2>1. d \in Seq(Line) /\ Len(d) = Len(c) + Len(b) /\ (Len(c) >= 1 => d[1] = c[1])
    BY <2>0, Joined
  <2> HIDE DEF d
  <2>2. Len(c) = i - 1 + Len(new) /\ Len(b) = Len(f) - i + 1
    BY <1>3, <1>4
  <2>3. i \in Nat /\ i >= 1 /\ i <= Len(f) + 1
    BY <1>1
  <2>4. Len(c) + Len(b) = Len(f) + Len(new) /\ Len(c) >= 1
    BY <1>0, <1>1, <2>2, <2>3
  <2> QED BY <2>1, <2>4
<1> HIDE DEF d
<1>6. ~d[1].nested
  <2>1. CASE i = 1
    BY <1>4, <1>5, <2>1
  <2>2. CASE i # 1
    <3>1. i > 1 /\ f # <<>>
      BY <1>1, <2>2
    <3> QED BY <1>1, <1>2, <1>4, <1>5, <3>1
  <2> QED BY <2>1, <2>2
<1>7. Inserted(f, i, new) = d
  BY DEF Inserted, a, b, c, d
<1> QED BY <1>5, <1>6, <1>7 DEF IsFile

-----------------------------------------------------------------------------
\* The actions.

LEMMA ResolvedFacts ==
  ASSUME HandlesInv, NEW o
  PROVE  Resolved(o) \subseteq 1..Len(lines)
<1>1. Len(Rows) = Len(lines)
  BY RowsFacts
<1>2. CASE o \in OrdinalsOf(Rows)
  <2>1. \E i \in 1..Len(Rows) : Rows[i].ord = o
    BY <1>2 DEF OrdinalsOf
  <2>2. LineOf(Rows, o) \in 1..Len(Rows)
    BY <2>1 DEF LineOf
  <2> QED BY <1>1, <1>2, <2>2 DEF Resolved
<1>3. CASE o \notin OrdinalsOf(Rows) /\ segment # NoSegment /\ base # NoSegment /\ o \in OrdinalsOf(base)
  <2>1. Rows = segment
    BY <1>3 DEF Rows
  <2>2. \A name, i : NearestNamed(name, i) \subseteq 1..Len(segment)
    BY DEF NearestNamed
  <2> QED BY <1>1, <1>3, <2>1, <2>2 DEF Resolved
<1>4. CASE o \notin OrdinalsOf(Rows) /\ ~(segment # NoSegment /\ base # NoSegment /\ o \in OrdinalsOf(base))
  BY <1>4 DEF Resolved
<1> QED BY <1>2, <1>3, <1>4

LEMMA HandlesAreNumbers == ASSUME HandlesInv PROVE Handles \subseteq Nat
<1>1. OrdinalsOf(Rows) \subseteq Nat
  BY RowsFacts
<1>2. ASSUME base # NoSegment PROVE OrdinalsOf(base) \subseteq Nat
  <2>1. base \in Seq(HandleRow)
    BY <1>2 DEF HandlesInv, Placed, IsSegment
  <2>2. \A h \in 1..Len(base) : base[h] \in HandleRow
    BY <2>1
  <2>3. \A r \in HandleRow : r.ord \in Nat
    BY DEF HandleRow
  <2> QED BY <2>2, <2>3 DEF OrdinalsOf
<1> QED BY <1>1, <1>2 DEF Handles

LEMMA DeleteGood ==
  ASSUME HandlesInv, NEW handles, handles \subseteq Handles, DeleteNodes(handles)
  PROVE  HandlesInv'
<1> DEFINE gone == UNION {UNION {Span(lines, i) : i \in Resolved(o)} : o \in handles}
           I == UNION {Resolved(o) : o \in handles}
<1>1. I \subseteq 1..Len(lines)
  BY ResolvedFacts
<1>2. gone = UNION {Span(lines, i) : i \in I}
  OBVIOUS
<1>3. IsFile(lines) /\ handles \subseteq Nat
  BY HandlesAreNumbers DEF HandlesInv
<1> HIDE DEF I, gone
<1>4. IsFile(Without(lines, gone))
  BY <1>1, <1>2, <1>3, WithoutIsFile
<1>5. \E retired : Edited(Without(lines, gone), retired, handles)
  BY DEF DeleteNodes, gone
<1> QED BY <1>3, <1>4, <1>5, EditedGood

LEMMA ChangeGood ==
  ASSUME HandlesInv, NEW o, NEW name \in Names, NEW text \in Texts, ChangeNode(o, name, text)
  PROVE  HandlesInv'
<1>1. PICK i \in Resolved(o) : Edited([lines EXCEPT ![i].name = name, ![i].text = text], {}, {})
  BY DEF ChangeNode
<1>2. i \in 1..Len(lines)
  BY ResolvedFacts
<1>3. lines \in Seq(Line) /\ Len(lines) \in Nat /\ Len(lines) <= MaxLines /\ (lines # <<>> => ~lines[1].nested)
  BY DEF HandlesInv, IsFile
<1> DEFINE line == [lines[i] EXCEPT !.name = name, !.text = text]
           f == [lines EXCEPT ![i] = line]
<1>4. lines[i] \in Line
  BY <1>2, <1>3
<1>5. line \in Line /\ line.nested = lines[i].nested
  BY <1>4 DEF Line
<1>6. [lines EXCEPT ![i].name = name, ![i].text = text] = f
  OBVIOUS
<1> HIDE DEF line
<1>7. f \in Seq(Line) /\ Len(f) = Len(lines) /\ \A k \in 1..Len(lines) : f[k] = IF k = i THEN line ELSE lines[k]
  BY <1>2, <1>3, <1>5
<1> HIDE DEF f
<1>8. IsFile(f)
  <2>1. 1 \in 1..Len(lines)
    BY <1>2, <1>3
  <2>2. lines # <<>>
    BY <2>1
  <2> QED BY <1>3, <1>5, <1>7, <2>1, <2>2 DEF IsFile
<1>9. Edited(f, {}, {})
  BY <1>1, <1>6
<1> QED BY <1>8, <1>9, EditedGood

LEMMA InsertGood ==
  ASSUME HandlesInv, NEW i \in 1..(Len(lines) + 1), NEW name \in Names, NEW guard \in Guards,
         NEW text \in Texts, NEW nested \in BOOLEAN, InsertNode(i, name, guard, text, nested)
  PROVE  HandlesInv'
<1> DEFINE line == [id |-> MaxLines + edits + 1, name |-> name, guard |-> guard, text |-> text, nested |-> nested]
           new == <<line>>
<1>1. IsFile(lines) /\ edits \in Nat /\ MaxLines \in Nat /\ MaxEdits \in Nat /\ Len(lines) \in Nat
  BY RowsFacts, NodeHandlesAssumption DEF HandlesInv, IsFile
<1>2. Len(lines) < MaxLines /\ Fits(lines, i, nested) /\ Edited(Inserted(lines, i, new), {}, {})
  BY DEF InsertNode
<1>3. line \in Line /\ line.nested = nested
  <2>1. MaxLines + edits + 1 \in Nat
    BY <1>1
  <2> QED BY <2>1 DEF Line
<1>4. i = 1 => ~nested
  BY <1>2 DEF Fits
<1> HIDE DEF line
<1>5. new \in Seq(Line) /\ new # <<>> /\ Len(new) = 1 /\ new[1] = line
  BY <1>3
<1> HIDE DEF new
<1>6. IsFile(Inserted(lines, i, new))
  <2>1. Len(lines) + Len(new) <= MaxLines
    BY <1>1, <1>2, <1>5
  <2>2. i = 1 => ~new[1].nested
    BY <1>3, <1>4, <1>5
  <2> QED BY <1>1, <1>5, <2>1, <2>2, InsertedIsFile
<1> QED BY <1>2, <1>6, EditedGood

LEMMA MoveGood ==
  ASSUME HandlesInv, NEW o, NEW j, MoveNode(o, j)
  PROVE  HandlesInv'
<1>1. PICK i \in Resolved(o) :
        LET span == Span(lines, i)
            stay == Without(lines, span)
        IN /\ j \in 1..(Len(stay) + 1) \ {i}
           /\ Fits(stay, j, lines[i].nested)
           /\ Edited(Inserted(stay, j, SubSeq(lines, i, Max(span))), {o}, {})
  BY DEF MoveNode
<1> DEFINE span == Span(lines, i)
           stay == Without(lines, span)
           m == Max(span)
           new == SubSeq(lines, i, m)
<1>2. /\ j \in 1..(Len(stay) + 1)
      /\ Fits(stay, j, lines[i].nested)
      /\ Edited(Inserted(stay, j, new), {o}, {})
  BY <1>1
<1>3. /\ i \in 1..Len(lines) /\ IsFile(lines) /\ lines \in Seq(Line)
      /\ Len(lines) \in Nat /\ Len(lines) <= MaxLines /\ MaxLines \in Nat
  BY ResolvedFacts, NodeHandlesAssumption DEF HandlesInv, IsFile
<1>4. i \in span /\ span \subseteq i..Len(lines) /\ \A k \in span : i..k \subseteq span
  BY <1>3, SpanFacts
<1>5. m \in span /\ \A k \in span : k <= m
  <2>1. span \subseteq Nat /\ \A k \in span : k <= Len(lines)
    BY <1>3, <1>4
  <2> HIDE DEF span
  <2> QED BY <1>3, <1>4, <2>1, MaxFacts
<1>6. IsFile(stay) /\ Len(stay) = Cardinality((1..Len(lines)) \ span)
  <2>1. span = UNION {Span(lines, k) : k \in {i}}
    OBVIOUS
  <2>2. {i} \subseteq 1..Len(lines)
    BY <1>3
  <2> QED BY <1>3, <2>1, <2>2, WithoutIsFile
<1> HIDE DEF span, stay, m
<1>7. m \in i..Len(lines) /\ span = i..m
  <2>1. m \in i..Len(lines) /\ i..m \subseteq span
    BY <1>4, <1>5
  <2>2. ASSUME NEW k \in span PROVE k \in i..m
    <3>1. k \in i..Len(lines) /\ k <= m
      BY <1>4, <1>5
    <3> QED BY <1>3, <2>1, <3>1
  <2> QED BY <2>1, <2>2
<1>8. /\ new \in Seq(Line) /\ Len(new) = m - i + 1
      /\ new[1] = lines[i]
  <2>1. /\ new \in Seq(Line) /\ Len(new) = m - i + 1
        /\ \A k \in 1..(m - i + 1) : new[k] = lines[i + k - 1]
    BY <1>3, <1>7, Part
  <2> HIDE DEF new
  <2>2. 1 \in 1..(m - i + 1) /\ i + 1 - 1 = i
    BY <1>3, <1>7
  <2> QED BY <2>1, <2>2
<1>9. Len(stay) + Len(new) = Len(lines)
  <2>1. IsFiniteSet(1..Len(lines)) /\ Cardinality(1..Len(lines)) = Len(lines)
    BY <1>3, Size
  <2>2. IsFiniteSet(span) /\ Cardinality(span) = m - i + 1
    <3>1. i \in Int /\ m \in Int /\ i <= m
      BY <1>3, <1>7
    <3> QED BY <1>7, <3>1, FS_Interval
  <2>3. span \subseteq 1..Len(lines)
    BY <1>3, <1>7
  <2>4. Cardinality((1..Len(lines)) \ span) = Cardinality(1..Len(lines)) - Cardinality((1..Len(lines)) \cap span)
    BY <2>1, FS_Difference
  <2>5. (1..Len(lines)) \cap span = span
    BY <2>3
  <2>6. Len(stay) = Len(lines) - (m - i + 1)
    BY <1>6, <2>1, <2>2, <2>4, <2>5
  <2> HIDE DEF new
  <2> QED BY <1>3, <1>7, <1>8, <2>6
<1> HIDE DEF new
<1>10. new # <<>>
  BY <1>3, <1>7, <1>8
<1>11. j = 1 => ~new[1].nested
  BY <1>2, <1>8 DEF Fits
<1>12. IsFile(Inserted(stay, j, new))
  BY <1>2, <1>3, <1>6, <1>8, <1>9, <1>10, <1>11, InsertedIsFile
<1> QED BY <1>2, <1>12, EditedGood

LEMMA UndoGood ==
  ASSUME HandlesInv, NEW n, Undo(n)
  PROVE  HandlesInv'
<1>1. /\ n \in 1..Len(ring) /\ Command /\ lines' = ring[n].lines
      /\ TakenIn(lines', {}, {}, FALSE) /\ UNCHANGED <<base, ring, begun>>
  BY DEF Undo
<1> PICK f : f = ring[n].lines
  OBVIOUS
<1>2. IsFile(f) /\ lines' = f /\ TakenIn(f, {}, {}, FALSE)
  BY <1>1 DEF HandlesInv, Kept
<1>3. {} \subseteq Nat /\ FALSE \in BOOLEAN
  OBVIOUS
<1>4. /\ edits' \in 0..MaxEdits /\ IsFile(lines')
      /\ last' \in [built : BOOLEAN, edit : BOOLEAN, removed : SUBSET Nat, retired : SUBSET Nat]
      /\ last'.edit = FALSE
      /\ Placed' /\ Cached' /\ Saved' /\ RetiredNotReissued'
  BY <1>1, <1>2, <1>3, TakenInGood
<1>5. Kept'
  BY <1>1, <1>4 DEF HandlesInv, Kept
<1> QED BY <1>4, <1>5 DEF HandlesInv

LEMMA BeginGood == ASSUME HandlesInv, Begin PROVE HandlesInv'
<1>1. /\ Command /\ begun' = [lines |-> lines, dirty |-> segment # NoSegment]
      /\ UNCHANGED <<lines, base, segment, saved, ring, last>>
  BY DEF Begin
<1>2. edits \in Nat /\ edits' = edits + 1 /\ edits' \in 0..MaxEdits
  <2>1. edits \in Nat /\ MaxEdits \in Nat
    BY RowsFacts, NodeHandlesAssumption
  <2> QED BY <1>1, <2>1 DEF Command, HandlesInv
<1>3. Rows' = Rows
  BY <1>1 DEF Rows
<1>4. Placed'
  <2>1. \A s : IsSegment(s, Most(edits)) => IsSegment(s, Most(edits + 1))
    BY <1>2, Wider
  <2> QED BY <1>1, <1>2, <1>3, <2>1 DEF HandlesInv, Placed
<1>5. Saved'
  <2>1. begun'.lines = lines /\ begun'.dirty = (segment # NoSegment)
    BY <1>1
  <2>2. begun' \in [lines : Seq(Line), dirty : BOOLEAN]
    BY <1>1 DEF HandlesInv, IsFile
  <2>3. segment # NoSegment => segment \in Staged(lines)'
    BY <1>1 DEF HandlesInv, Placed, Rows, Staged
  <2>4. segment = NoSegment => base # NoSegment /\ Keys(base) = Parsed(lines)
    BY DEF HandlesInv, Placed, Rows
  <2>5. IsFile(lines)
    BY DEF HandlesInv
  <2>6. CASE segment # NoSegment
    <3>1. begun'.dirty = TRUE
      BY <2>1, <2>6
    <3>2. \E s \in saved' : Keys(s) = Parsed(begun'.lines)
      BY <1>1, <2>1, <2>3, <2>6 DEF Staged
    <3>3. Staged(begun.lines)' # {}
      BY <3>2 DEF Staged
    <3> QED BY <2>1, <2>2, <2>5, <3>1, <3>3 DEF Saved
  <2>7. CASE segment = NoSegment
    <3>1. begun'.dirty = FALSE
      BY <2>1, <2>7
    <3> QED BY <1>1, <2>1, <2>2, <2>4, <2>5, <2>7, <3>1 DEF Saved
  <2> QED BY <2>6, <2>7
<1>6. Cached' /\ Kept' /\ RetiredNotReissued'
  BY <1>1, <1>3 DEF HandlesInv, Cached, Kept, RetiredNotReissued
<1> QED BY <1>1, <1>2, <1>4, <1>5, <1>6 DEF HandlesInv

LEMMA RollbackGood == ASSUME HandlesInv, RollbackFile PROVE HandlesInv'
<1>1. /\ begun # NoSegment /\ lines' = begun.lines
      /\ saved' = IF begun.dirty THEN Staged(lines') ELSE {}
      /\ segment' = IF begun.dirty THEN CHOOSE rows \in saved' : TRUE ELSE NoSegment
      /\ ring' = [n \in 1..Len(ring) |-> [ring[n] EXCEPT !.rows = NoSegment]]
      /\ begun' = NoSegment
      /\ last' = [built |-> FALSE, edit |-> FALSE, removed |-> {}, retired |-> {}]
      /\ UNCHANGED <<base, edits>>
  BY DEF RollbackFile
<1>2. /\ begun \in [lines : Seq(Line), dirty : BOOLEAN] /\ IsFile(lines')
      /\ IF begun.dirty THEN Staged(lines') # {} ELSE base # NoSegment /\ Keys(base) = Parsed(lines')
  BY <1>1 DEF HandlesInv, Saved
<1>3. \A s \in saved' : s \in saved /\ Keys(s) = Parsed(lines') /\ s # NoSegment
  <2>1. \A s \in saved' : s \in saved /\ Keys(s) = Parsed(lines')
    BY <1>1 DEF Staged
  <2>2. \A s \in saved : s \in Seq(HandleRow)
    BY DEF HandlesInv, Placed, IsSegment
  <2> QED BY <2>1, <2>2, NoSegmentAssumption
<1>4. begun.dirty => segment' \in saved'
  <2> SUFFICES ASSUME begun.dirty PROVE segment' \in saved'
    OBVIOUS
  <2>1. saved' # {} /\ segment' = CHOOSE rows \in saved' : TRUE
    BY <1>1, <1>2
  <2> QED BY <2>1
<1>5. Keys(Rows)' = Parsed(lines')
  <2>1. CASE begun.dirty
    <3>1. Rows' = segment'
      BY <1>3, <1>4, <2>1 DEF Rows
    <3> QED BY <1>3, <1>4, <2>1, <3>1
  <2>2. CASE ~begun.dirty
    <3>1. Rows' = base
      BY <1>1, <2>2 DEF Rows
    <3> QED BY <1>2, <2>2, <3>1
  <2> QED BY <2>1, <2>2
<1>6. Placed'
  <2>1. base' # NoSegment => IsSegment(base', Most(edits'))
    BY <1>1 DEF HandlesInv, Placed
  <2>2. \A s \in saved' : IsSegment(s, Most(edits'))
    BY <1>1, <1>3 DEF HandlesInv, Placed
  <2>3. segment' # NoSegment => segment' \in saved'
    BY <1>1, <1>4
  <2>4. segment' = NoSegment => base' # NoSegment
    BY <1>1, <1>2, <1>3, <1>4
  <2> QED BY <1>5, <2>1, <2>2, <2>3, <2>4 DEF Placed
<1>7. Cached' /\ Saved'
  BY <1>1, <1>3 DEF HandlesInv, Cached, Saved
<1>8. Kept'
  <2> DEFINE Slot == [lines : Seq(Line), rows : Seq(HandleRow) \cup {NoSegment}]
  <2>1. ring \in Seq(Slot) /\ Len(ring) \in Nat /\ Len(ring) <= RingSize /\ \A n \in 1..Len(ring) : IsFile(ring[n].lines)
    BY DEF HandlesInv, Kept
  <2>2. ASSUME NEW n \in 1..Len(ring)
        PROVE  [ring[n] EXCEPT !.rows = NoSegment] \in Slot /\ [ring[n] EXCEPT !.rows = NoSegment].lines = ring[n].lines
    <3>1. ring[n] \in Slot
      <4> HIDE DEF Slot
      <4> QED BY <2>1
    <3> QED BY <3>1
  <2>3. \A n \in 1..Len(ring) : ring'[n] \in Slot /\ ring'[n].lines = ring[n].lines
    BY <1>1, <2>2
  <2> HIDE DEF Slot
  <2>4. ring' \in [1..Len(ring) -> Slot]
    BY <1>1, <2>3
  <2>5. ring' \in Seq(Slot)
    BY <2>1, <2>4, SeqDef
  <2>6. Len(ring') = Len(ring)
    BY <2>1, <2>4, <2>5
  <2>7. last'.edit = FALSE
    BY <1>1
  <2> QED BY <2>1, <2>3, <2>5, <2>6, <2>7 DEF Kept, Slot
<1>9. RetiredNotReissued'
  <2>1. last'.retired = {}
    BY <1>1
  <2> QED BY <2>1 DEF RetiredNotReissued
<1>10. /\ edits' \in 0..MaxEdits
       /\ last' \in [built : BOOLEAN, edit : BOOLEAN, removed : SUBSET Nat, retired : SUBSET Nat]
  BY <1>1 DEF HandlesInv
<1> QED BY <1>2, <1>6, <1>7, <1>8, <1>9, <1>10 DEF HandlesInv

LEMMA HandlesInitInv == HandlesInit => HandlesInv
<1> SUFFICES ASSUME HandlesInit PROVE HandlesInv
  OBVIOUS
<1>1. PICK n \in 0..MaxLines : \E c \in [1..n -> Construct] :
        lines = [i \in 1..n |-> [id |-> i, name |-> c[i].name, guard |-> c[i].guard,
                                 text |-> c[i].text, nested |-> c[i].nested]]
  BY DEF HandlesInit
<1>2. PICK c \in [1..n -> Construct] :
        lines = [i \in 1..n |-> [id |-> i, name |-> c[i].name, guard |-> c[i].guard,
                                 text |-> c[i].text, nested |-> c[i].nested]]
  BY <1>1
<1>3. MaxLines \in Nat /\ MaxEdits \in Nat /\ n \in Nat /\ n <= MaxLines
  BY NodeHandlesAssumption
<1>4. \A i \in 1..n : lines[i] \in Line
  <2>1. \A i \in 1..n : c[i] \in Construct /\ i \in Nat
    BY <1>3
  <2> QED BY <1>2, <2>1 DEF Construct, Line
<1>5. lines \in [1..n -> Line]
  BY <1>2, <1>4
<1>6. lines \in Seq(Line) /\ Len(lines) = n
  <2>1. lines \in Seq(Line)
    BY <1>3, <1>5, SeqDef
  <2> QED BY <1>3, <1>5, <2>1
<1>7. IsFile(lines)
  BY <1>3, <1>6 DEF HandlesInit, IsFile
<1> PICK rows : rows = Assigned(lines, <<>>, {})
  OBVIOUS
<1>8. IsHints(<<>>, -1)
  <2>1. <<>> \in Seq(HandleRow) /\ Len(<<>>) = 0
    OBVIOUS
  <2> QED BY <2>1 DEF IsHints, Distinct
<1>9. IsIndexed(lines, <<>>, -1, {}, rows)
  BY <1>7, <1>8, AssignedGood
<1>10. /\ rows \in Seq(HandleRow) /\ Keys(rows) = Parsed(lines) /\ Distinct(rows)
       /\ \A i \in 1..Len(rows) : rows[i].ord <= -1 + MaxLines /\ rows[i].parent \in Root..(-1 + MaxLines)
  BY <1>9 DEF IsIndexed
<1>11. edits = 0 /\ Most(edits) = MaxLines
  BY <1>3 DEF HandlesInit, Most
<1>12. IsSegment(rows, Most(edits)) /\ rows # NoSegment
  <2>1. \A i \in 1..Len(rows) : rows[i].ord \in Nat
    <3>1. \A i \in 1..Len(rows) : rows[i] \in HandleRow
      BY <1>10
    <3>2. \A r \in HandleRow : r.ord \in Nat
      BY DEF HandleRow
    <3> QED BY <3>1, <3>2
  <2>2. \A x : (x \in Nat /\ x <= -1 + MaxLines => x <= MaxLines) /\ (x \in Root..(-1 + MaxLines) => x \in Root..MaxLines)
    BY <1>3 DEF Root
  <2>3. \A i \in 1..Len(rows) : rows[i].ord <= MaxLines /\ rows[i].parent \in Root..MaxLines
    BY <1>10, <2>1, <2>2
  <2>4. IsSegment(rows, MaxLines)
    BY <1>10, <2>3 DEF IsSegment
  <2> QED BY <1>10, <1>11, <2>4, NoSegmentAssumption
<1>13. \/ base = rows /\ segment = NoSegment /\ saved = {}
       \/ base = NoSegment /\ segment = rows /\ saved = {rows}
  BY DEF HandlesInit
<1>14. Rows = rows
  BY <1>12, <1>13 DEF Rows
<1>15. Placed /\ Cached
  BY <1>10, <1>12, <1>13, <1>14 DEF Placed, Cached
<1>16. /\ ring = <<>> /\ begun = NoSegment
       /\ last = [built |-> FALSE, edit |-> FALSE, removed |-> {}, retired |-> {}]
  BY DEF HandlesInit
<1>17. Saved /\ Kept
  <2>1. Len(ring) = 0 /\ ring \in Seq([lines : Seq(Line), rows : Seq(HandleRow) \cup {NoSegment}]) /\ 0 <= RingSize
    BY <1>16 DEF RingSize
  <2> QED BY <1>16, <2>1 DEF Saved, Kept
<1>18. /\ last \in [built : BOOLEAN, edit : BOOLEAN, removed : SUBSET Nat, retired : SUBSET Nat]
       /\ last.retired = {}
  BY <1>16
<1>19. RetiredNotReissued
  BY <1>18 DEF RetiredNotReissued
<1> QED BY <1>3, <1>7, <1>11, <1>15, <1>17, <1>18, <1>19 DEF HandlesInv

LEMMA HandlesNextInv == HandlesInv /\ [HandlesNext]_handleVars => HandlesInv'
<1> SUFFICES ASSUME HandlesInv, [HandlesNext]_handleVars PROVE HandlesInv'
  OBVIOUS
<1>1. CASE \E n \in 1..MaxSweep : \E handles \in kSubset(n, Handles) : DeleteNodes(handles)
  <2>1. PICK handles : handles \subseteq Handles /\ DeleteNodes(handles)
    BY <1>1 DEF kSubset
  <2> QED BY <2>1, DeleteGood
<1>2. CASE \E o \in Handles, name \in Names, text \in Texts : ChangeNode(o, name, text)
  BY <1>2, ChangeGood
<1>3. CASE \E i \in 1..(Len(lines) + 1), name \in Names, guard \in Guards, text \in Texts,
             nested \in BOOLEAN : InsertNode(i, name, guard, text, nested)
  BY <1>3, InsertGood
<1>4. CASE \E o \in Handles, j \in 1..MaxLines : MoveNode(o, j)
  BY <1>4, MoveGood
<1>5. CASE \E n \in 1..Len(ring) : Undo(n)
  BY <1>5, UndoGood
<1>6. CASE Begin
  BY <1>6, BeginGood
<1>7. CASE RollbackFile
  BY <1>7, RollbackGood
<1>8. CASE UNCHANGED handleVars
  <2>1. UNCHANGED <<lines, base, segment, saved, ring, begun, edits, last>>
    BY <1>8 DEF handleVars
  <2>2. Rows' = Rows
    BY <2>1 DEF Rows
  <2>3. Saved'
    BY <2>1 DEF HandlesInv, Saved, Staged
  <2> QED BY <2>1, <2>2, <2>3 DEF HandlesInv, Placed, Cached, Kept, RetiredNotReissued
<1> QED BY <1>1, <1>2, <1>3, <1>4, <1>5, <1>6, <1>7, <1>8 DEF HandlesNext

-----------------------------------------------------------------------------
\* The theorems.

\* HandlesInv is inductive: what the re-index, the removals, UNDO and ROLLBACK
\* leave of the segments of a file is what the next command can start from.
THEOREM HandlesInvariant == HandlesSpec => []HandlesInv
BY HandlesInitInv, HandlesNextInv, PTL DEF HandlesSpec

LEMMA MostOrdinals ==
  ASSUME NEW e \in 0..MaxEdits
  PROVE  Most(e) \in Nat /\ Most(e) <= Most(MaxEdits) /\ Ordinals = 0..Most(MaxEdits) /\ Most(MaxEdits) \in Nat
<1>1. MaxEdits \in Nat /\ MaxLines \in Nat /\ e \in Nat
  BY NodeHandlesAssumption
<1> PICK d : d = MaxEdits - e
  OBVIOUS
<1> PICK m : m = MaxLines + 1
  OBVIOUS
<1>2. d \in Nat /\ MaxEdits = e + d /\ m \in Nat
  BY <1>1
<1>3. m * e \in Nat /\ m * d \in Nat
  BY <1>1, <1>2
<1>4. m * (e + d) = m * e + m * d
  BY <1>1, <1>2
<1>5. Most(e) = MaxLines + m * e /\ Most(MaxEdits) = MaxLines + (m * e + m * d)
  BY <1>2, <1>4 DEF Most
<1> QED BY <1>1, <1>3, <1>5 DEF Ordinals, Most

\* Reads and writes agree on the file: the rows a handle is looked up in
\* (node_lookup.rs, find_node) are those of the bytes on disk; no two
\* constructs share a handle; and the ordinal of a construct that was retired
\* is not handed out by the re-index it was retired for (ordinals.rs).
THEOREM HandlesAreSound == HandlesSpec => []HandlesSound
<1>1. HandlesInv => HandlesSound
  <2> SUFFICES ASSUME HandlesInv PROVE HandlesSound
    OBVIOUS
  <2>1. edits \in 0..MaxEdits /\ Len(lines) <= MaxLines /\ Len(ring) <= RingSize
    BY DEF HandlesInv, IsFile, Kept
  <2>2. \A i \in 1..Len(lines) : lines[i] \in Line
    BY DEF HandlesInv, IsFile
  <2>3. \A rows \in saved \cup {Rows} : IsSegment(rows, Most(edits))
    BY RowsFacts DEF HandlesInv, Placed
  <2>4. /\ Most(edits) \in Nat /\ Most(edits) <= Most(MaxEdits)
        /\ Ordinals = 0..Most(MaxEdits) /\ Most(MaxEdits) \in Nat
    BY <2>1, MostOrdinals
  <2>5. \A x : /\ x \in Nat /\ x <= Most(edits) => x \in Ordinals
               /\ x \in Root..Most(edits) => x \in Ordinals \cup {Root}
    BY <2>4 DEF Root
  <2>6. ASSUME NEW rows \in saved \cup {Rows}, NEW i \in 1..Len(rows)
        PROVE  rows[i].ord \in Ordinals /\ rows[i].parent \in Ordinals \cup {Root}
    <3>1. rows[i] \in HandleRow /\ rows[i].ord <= Most(edits) /\ rows[i].parent \in Root..Most(edits)
      BY <2>3 DEF IsSegment
    <3>2. rows[i].ord \in Nat
      BY <3>1 DEF HandleRow
    <3> QED BY <2>5, <3>1, <3>2
  <2>7. RowsCurrent
    <3>1. Keys(Rows) = Parsed(lines)
      BY DEF HandlesInv, Placed
    <3>2. ASSUME segment # NoSegment PROVE Staged(lines) = {segment}
      <4>1. segment \in saved /\ Keys(segment) = Parsed(lines)
        BY <3>1, <3>2 DEF HandlesInv, Placed, Rows
      <4>2. \A s \in saved : Keys(s) = Parsed(lines) => s = segment
        BY <4>1 DEF HandlesInv, Cached
      <4> QED BY <4>1, <4>2 DEF Staged
    <3> QED BY <3>1, <3>2 DEF RowsCurrent
  <2>8. HandlesUnique
    BY <2>3 DEF HandlesUnique, IsSegment, Distinct
  <2>9. RetiredNotReissued
    BY DEF HandlesInv
  <2> QED BY <2>1, <2>2, <2>6, <2>7, <2>8, <2>9 DEF HandlesSound
<1> QED BY <1>1, HandlesInvariant, PTL

\* UNDO of an edit puts back the segment the file had, which is still staged,
\* so that every construct has its handle again (reindex.rs, reindex_files).
THEOREM UndoRestoresHandles == HandlesSpec => UndoRestores
<1>1. HandlesInv /\ [HandlesNext]_handleVars
        => [Undo(1) /\ last.edit /\ ring[1].rows # NoSegment => segment' = ring[1].rows]_handleVars
  <2> SUFFICES ASSUME HandlesInv, Undo(1), last.edit, ring[1].rows # NoSegment
               PROVE  segment' = ring[1].rows
    OBVIOUS
  <2> PICK old : old = ring[1].rows
    OBVIOUS
  <2> PICK f : f = ring[1].lines
    OBVIOUS
  <2>1. /\ 1 \in 1..Len(ring) /\ Parsed(f) # Parsed(lines) /\ lines' = f
        /\ TakenIn(f, {}, {}, FALSE)
    BY DEF Undo
  <2>2. ring # <<>>
    BY <2>1
  <2>3. old \in saved /\ Keys(old) = Parsed(f)
    BY <2>1, <2>2 DEF HandlesInv, Kept
  <2>4. Staged(f) = {old}
    BY <2>3 DEF HandlesInv, Cached, Staged
  <2>5. Reusable(f, {}) = {old}
    BY <2>4 DEF Reusable
  <2>6. segment' = CHOOSE r \in {old} : TRUE
    BY <2>1, <2>5 DEF TakenIn
  <2> QED BY <2>6
<1> QED BY <1>1, HandlesInvariant, PTL DEF HandlesSpec, UndoRestores

-----------------------------------------------------------------------------
\* Constructs are told apart by their ids.

Apart(f) == \A i, k \in 1..Len(f) : f[i].id = f[k].id => i = k
Bounded(f, e) == \A i \in 1..Len(f) : f[i].id <= MaxLines + e

\* The file, what UNDO may bring back of it, and what ROLLBACK may.
Files == {lines} \cup {ring[n].lines : n \in 1..Len(ring)}
           \cup (IF begun = NoSegment THEN {} ELSE {begun.lines})

IdsInv == /\ \A f \in Files : Apart(f) /\ Bounded(f, edits)
          /\ last.built => segment # NoSegment

\* What edit number e makes of f has constructs of f, and a new one.
Made(g, f, e) ==
  /\ Apart(g)
  /\ \A i \in 1..Len(g) : g[i].id = MaxLines + e + 1 \/ \E k \in 1..Len(f) : g[i].id = f[k].id

LEMMA AreFiles == ASSUME HandlesInv PROVE \A f \in Files : IsFile(f)
<1>1. IsFile(lines) /\ \A n \in 1..Len(ring) : IsFile(ring[n].lines)
  BY DEF HandlesInv, Kept
<1>2. begun # NoSegment => IsFile(begun.lines)
  BY DEF HandlesInv, Saved
<1> QED BY <1>1, <1>2 DEF Files

LEMMA IdsAreNumbers ==
  ASSUME HandlesInv, IdsInv, NEW f \in Files, NEW i \in 1..Len(f)
  PROVE  f[i].id \in Nat /\ f[i].id < MaxLines + edits + 1
<1>1. f \in Seq(Line) /\ edits \in Nat /\ MaxLines \in Nat
  BY AreFiles, RowsFacts, NodeHandlesAssumption DEF IsFile
<1>2. f[i].id \in Nat /\ f[i].id <= MaxLines + edits
  BY <1>1, LineFacts DEF IdsInv, Bounded
<1> QED BY <1>1, <1>2

LEMMA SameFiles ==
  ASSUME HandlesInv, IdsInv, Files' \subseteq Files, edits' \in {edits, edits + 1},
         last'.built => segment' # NoSegment
  PROVE  IdsInv'
<1>1. ASSUME NEW f \in Files' PROVE Apart(f) /\ Bounded(f, edits')
  <2>1. \A i \in 1..Len(f) : f[i].id \in Nat /\ f[i].id < MaxLines + edits + 1
    BY IdsAreNumbers
  <2>2. edits \in Nat /\ MaxLines \in Nat
    BY RowsFacts, NodeHandlesAssumption
  <2>3. \A x : x \in Nat /\ x < MaxLines + edits + 1 => x <= MaxLines + edits /\ x <= MaxLines + (edits + 1)
    BY <2>2
  <2>4. Bounded(f, edits')
    BY <2>1, <2>3 DEF Bounded
  <2> QED BY <2>4 DEF IdsInv
<1> QED BY <1>1 DEF IdsInv

LEMMA MadeFiles ==
  ASSUME HandlesInv, IdsInv, NEW f, Made(f, lines, edits),
         Files' \subseteq Files \cup {f}, edits' = edits + 1, last'.built => segment' # NoSegment
  PROVE  IdsInv'
<1> PICK new : new = MaxLines + edits + 1
  OBVIOUS
<1>1. edits \in Nat /\ MaxLines \in Nat /\ new \in Nat
  BY RowsFacts, NodeHandlesAssumption
<1>2. lines \in Files
  BY DEF Files
<1>3. \A g \in Files : \A i \in 1..Len(g) : g[i].id \in Nat /\ g[i].id < new
  BY IdsAreNumbers
<1>4. /\ Apart(f)
      /\ \A i \in 1..Len(f) : f[i].id = new \/ \E k \in 1..Len(lines) : f[i].id = lines[k].id
  BY DEF Made
<1>5. ASSUME NEW g \in Files' PROVE Apart(g) /\ Bounded(g, edits')
  <2>1. ASSUME NEW i \in 1..Len(g) PROVE g[i].id <= new
    <3>1. CASE g \in Files
      <4>1. g[i].id \in Nat /\ g[i].id < new
        BY <1>3, <3>1
      <4> QED BY <1>1, <4>1
    <3>2. CASE g = f
      <4>1. g[i].id = new \/ \E k \in 1..Len(lines) : g[i].id = lines[k].id
        BY <1>4, <3>2
      <4>2. \A k \in 1..Len(lines) : lines[k].id \in Nat /\ lines[k].id < new
        BY <1>2, <1>3
      <4> QED BY <1>1, <4>1, <4>2
    <3> QED BY <3>1, <3>2
  <2>2. MaxLines + edits' = new
    BY <1>1
  <2> QED BY <1>4, <2>1, <2>2 DEF IdsInv, Bounded
<1> QED BY <1>5 DEF IdsInv

LEMMA TakenInBuilt ==
  ASSUME HandlesInv, NEW f, IsFile(f), NEW retired, NEW removed, NEW edit,
         TakenIn(f, retired, removed, edit)
  PROVE  segment' # NoSegment
<1> PICK rows : rows = IF Reusable(f, retired) # {} THEN CHOOSE r \in Reusable(f, retired) : TRUE
                       ELSE Assigned(f, Rows, retired)
  OBVIOUS
<1>1. segment' = rows
  BY DEF TakenIn
<1> QED BY <1>1, ChosenSegment

LEMMA EditedIds ==
  ASSUME HandlesInv, IdsInv, NEW f, IsFile(f), Made(f, lines, edits),
         NEW retired, NEW removed, Edited(f, retired, removed)
  PROVE  IdsInv'
<1> DEFINE Slot == [lines : Seq(Line), rows : Seq(HandleRow) \cup {NoSegment}]
           slot == [lines |-> lines, rows |-> segment]
<1>1. /\ Command /\ lines' = f /\ TakenIn(f, retired, removed, TRUE) /\ UNCHANGED <<base, begun>>
      /\ ring' = Pushed(ring, slot)
  BY DEF Edited, Pushed
<1>2. ring \in Seq(Slot)
  BY DEF HandlesInv, Kept
<1>3. slot \in Slot /\ slot.lines = lines
  <2>1. segment \in Seq(HandleRow) \cup {NoSegment}
    BY DEF HandlesInv, Placed, IsSegment
  <2>2. lines \in Seq(Line)
    BY DEF HandlesInv, IsFile
  <2> QED BY <2>1, <2>2
<1> PICK s : s = slot
  OBVIOUS
<1>4. s \in Slot /\ s.lines = lines /\ ring' = Pushed(ring, s)
  BY <1>1, <1>3
<1> HIDE DEF slot, Slot
<1>5. /\ Len(ring') \in 1..RingSize /\ ring'[1] = s
      /\ \A n \in 2..Len(ring') : n - 1 \in 1..Len(ring) /\ ring'[n] = ring[n - 1]
  <2>1. Pushed(ring, s) \in Seq(Slot) /\ PutFirst(s, ring, Pushed(ring, s))
    BY <1>2, <1>4, PushedIs
  <2> QED BY <1>4, <2>1 DEF PutFirst
<1>6. \A n \in 1..Len(ring') : ring'[n].lines \in Files
  <2>1. \A n \in 1..Len(ring') : n = 1 \/ n \in 2..Len(ring')
    BY <1>5
  <2>2. \A n \in 2..Len(ring') : ring'[n].lines \in Files
    BY <1>5 DEF Files
  <2>3. ring'[1].lines \in Files
    BY <1>4, <1>5 DEF Files
  <2> QED BY <2>1, <2>2, <2>3
<1>7. Files' \subseteq Files \cup {f}
  BY <1>1, <1>6 DEF Files
<1>8. segment' # NoSegment
  BY <1>1, TakenInBuilt
<1>9. edits' = edits + 1
  BY <1>1 DEF Command
<1> QED BY <1>7, <1>8, <1>9, MadeFiles

\* The constructs of g are constructs of f that are not gone.
From(g, f, gone) ==
  \A k \in 1..Len(g) : \E i \in (1..Len(f)) \ gone : g[k].id = f[i].id

LEMMA WithoutApart ==
  ASSUME NEW f, IsFile(f), Apart(f), NEW I, I \subseteq 1..Len(f),
         NEW gone, gone = UNION {Span(f, i) : i \in I}
  PROVE  Apart(Without(f, gone)) /\ From(Without(f, gone), f, gone)
<1> PICK g : g = Without(f, gone)
  OBVIOUS
<1>1. \A k \in 1..Len(g) : \E i \in (1..Len(f)) \ gone :
        g[k] = f[i] /\ Cardinality({j \in (1..Len(f)) \ gone : j <= i}) = k
  <2>1. InOrder(g, f, gone)
    BY WithoutIsFile
  <2> QED BY <2>1 DEF InOrder
<1>2. ASSUME NEW k \in 1..Len(g), NEW m \in 1..Len(g), g[k].id = g[m].id PROVE k = m
  <2>1. PICK i \in (1..Len(f)) \ gone :
          g[k] = f[i] /\ Cardinality({j \in (1..Len(f)) \ gone : j <= i}) = k
    BY <1>1
  <2>2. PICK l \in (1..Len(f)) \ gone :
          g[m] = f[l] /\ Cardinality({j \in (1..Len(f)) \ gone : j <= l}) = m
    BY <1>1
  <2>3. i = l
    BY <1>2, <2>1, <2>2 DEF Apart
  <2> QED BY <2>1, <2>2, <2>3
<1>3. From(g, f, gone)
  BY <1>1 DEF From
<1> QED BY <1>2, <1>3 DEF Apart

LEMMA InsertedIs ==
  ASSUME NEW f \in Seq(Line), NEW i \in 1..(Len(f) + 1), NEW new \in Seq(Line),
         NEW k \in 1..Len(Inserted(f, i, new))
  PROVE  \/ k \in 1..Len(f) /\ k < i /\ Inserted(f, i, new)[k] = f[k]
         \/ \E a \in 1..Len(new) : k = a + (i - 1) /\ Inserted(f, i, new)[k] = new[a]
         \/ \E a \in 1..Len(f) : k = a + Len(new) /\ a >= i /\ Inserted(f, i, new)[k] = f[a]
<1> DEFINE a == SubSeq(f, 1, i - 1)
           b == SubSeq(f, i, Len(f))
           c == a \o new
<1>1. Len(f) \in Nat /\ Len(new) \in Nat /\ i \in Nat /\ i >= 1 /\ i <= Len(f) + 1
  OBVIOUS
<1>2. /\ a \in Seq(Line) /\ Len(a) = i - 1
      /\ \A m \in 1..(i - 1) : a[m] = f[m]
  <2>1. CASE i = 1
    <3>1. a = <<>>
      BY <1>1, <2>1, SubSeqEmpty
    <3>2. 1..(i - 1) = {}
      BY <2>1
    <3> QED BY <2>1, <3>1, <3>2
  <2>2. CASE i # 1
    <3>1. 1 \in 1..Len(f) /\ i - 1 \in 1..Len(f)
      BY <1>1, <2>2
    <3>2. /\ a \in Seq(Line) /\ Len(a) = i - 1 - 1 + 1
          /\ \A m \in 1..(i - 1 - 1 + 1) : a[m] = f[1 + m - 1]
      BY <1>1, <3>1, Part
    <3>3. i - 1 - 1 + 1 = i - 1 /\ \A m \in 1..(i - 1) : 1 + m - 1 = m
      BY <1>1
    <3> QED BY <3>2, <3>3
  <2> QED BY <2>1, <2>2
<1>3. /\ b \in Seq(Line) /\ Len(b) = Len(f) - i + 1
      /\ \A m \in 1..(Len(f) - i + 1) : b[m] = f[i + m - 1]
  <2>1. CASE i = Len(f) + 1
    <3>1. b = <<>>
      BY <1>1, <2>1, SubSeqEmpty
    <3>2. 1..(Len(f) - i + 1) = {}
      BY <1>1, <2>1
    <3> QED BY <1>1, <2>1, <3>1, <3>2
  <2>2. CASE i # Len(f) + 1
    <3>1. i \in 1..Len(f) /\ Len(f) \in i..Len(f)
      BY <1>1, <2>2
    <3> QED BY <1>1, <3>1, Part
  <2> QED BY <2>1, <2>2
<1> HIDE DEF a, b
<1>4. /\ c \in Seq(Line) /\ Len(c) = Len(a) + Len(new)
      /\ \A m \in 1..(Len(a) + Len(new)) : c[m] = IF m <= Len(a) THEN a[m] ELSE new[m - Len(a)]
  BY <1>2, ConcatProperties
<1> HIDE DEF c
<1> PICK d : d = c \o b
  OBVIOUS
<1>5. /\ Len(d) = Len(c) + Len(b)
      /\ \A m \in 1..(Len(c) + Len(b)) : d[m] = IF m <= Len(c) THEN c[m] ELSE b[m - Len(c)]
  <2>1. c \in Seq(Line) /\ b \in Seq(Line)
    BY <1>3, <1>4
  <2> QED BY <2>1, ConcatProperties
<1>6. Inserted(f, i, new) = d
  BY DEF Inserted, a, b, c
<1>7. /\ k \in Nat /\ k >= 1 /\ k <= Len(f) + Len(new)
      /\ Len(a) = i - 1 /\ Len(b) = Len(f) - i + 1 /\ Len(c) = i - 1 + Len(new)
  <2>1. Len(a) = i - 1 /\ Len(b) = Len(f) - i + 1 /\ Len(c) = Len(a) + Len(new)
    BY <1>2, <1>3, <1>4
  <2>2. k \in 1..(Len(c) + Len(b))
    BY <1>5, <1>6
  <2> QED BY <1>1, <2>1, <2>2
<1>8. CASE k < i
  <2>1. k \in 1..Len(f) /\ k \in 1..(i - 1) /\ k <= Len(c) /\ k \in 1..(Len(a) + Len(new))
        /\ k <= Len(a) /\ k \in 1..(Len(c) + Len(b))
    BY <1>1, <1>7, <1>8
  <2> QED BY <1>2, <1>4, <1>5, <1>6, <1>8, <2>1
<1>9. CASE ~(k < i) /\ k <= Len(c)
  <2>1. k \in 1..(Len(a) + Len(new)) /\ ~(k <= Len(a)) /\ k \in 1..(Len(c) + Len(b))
        /\ k - Len(a) \in 1..Len(new) /\ k = (k - Len(a)) + (i - 1)
    BY <1>1, <1>7, <1>9
  <2>2. Inserted(f, i, new)[k] = new[k - Len(a)]
    BY <1>4, <1>5, <1>6, <1>9, <2>1
  <2> QED BY <2>1, <2>2
<1>10. CASE ~(k <= Len(c))
  <2>1. k \in 1..(Len(c) + Len(b)) /\ k - Len(c) \in 1..(Len(f) - i + 1)
        /\ i + (k - Len(c)) - 1 = k - Len(new)
        /\ k - Len(new) \in 1..Len(f) /\ k - Len(new) >= i /\ k = (k - Len(new)) + Len(new)
    BY <1>1, <1>7, <1>10
  <2>2. d[k] = b[k - Len(c)] /\ b[k - Len(c)] = f[k - Len(new)]
    BY <1>3, <1>5, <1>10, <2>1
  <2> QED BY <1>6, <2>1, <2>2
<1> QED BY <1>8, <1>9, <1>10

FromBoth(g, f, new) ==
  \A k \in 1..Len(g) : \/ \E m \in 1..Len(f) : g[k].id = f[m].id
                       \/ \E m \in 1..Len(new) : g[k].id = new[m].id

LEMMA InsertedApart ==
  ASSUME NEW f \in Seq(Line), Apart(f), NEW i \in 1..(Len(f) + 1), NEW new \in Seq(Line), Apart(new),
         \A k \in 1..Len(f), m \in 1..Len(new) : f[k].id # new[m].id
  PROVE  Apart(Inserted(f, i, new)) /\ FromBoth(Inserted(f, i, new), f, new)
<1> PICK g : g = Inserted(f, i, new)
  OBVIOUS
<1>1. \A k \in 1..Len(g) :
         \/ k \in 1..Len(f) /\ k < i /\ g[k] = f[k]
         \/ \E a \in 1..Len(new) : k = a + (i - 1) /\ g[k] = new[a]
         \/ \E a \in 1..Len(f) : k = a + Len(new) /\ a >= i /\ g[k] = f[a]
  BY InsertedIs
<1>2. ASSUME NEW k \in 1..Len(g), NEW m \in 1..Len(g), g[k].id = g[m].id PROVE k = m
  <2>1. \/ \E a \in 1..Len(f) : g[k] = f[a] /\ ((k = a /\ a < i) \/ (k = a + Len(new) /\ a >= i))
        \/ \E a \in 1..Len(new) : k = a + (i - 1) /\ g[k] = new[a]
    BY <1>1
  <2>2. \/ \E a \in 1..Len(f) : g[m] = f[a] /\ ((m = a /\ a < i) \/ (m = a + Len(new) /\ a >= i))
        \/ \E a \in 1..Len(new) : m = a + (i - 1) /\ g[m] = new[a]
    BY <1>1
  <2>3. ASSUME NEW a \in 1..Len(f), NEW c \in 1..Len(f), g[k] = f[a], g[m] = f[c],
               (k = a /\ a < i) \/ (k = a + Len(new) /\ a >= i),
               (m = c /\ c < i) \/ (m = c + Len(new) /\ c >= i)
        PROVE  k = m
    <3>1. a = c
      BY <1>2, <2>3 DEF Apart
    <3>2. ~(a < i /\ a >= i)
      OBVIOUS
    <3> QED BY <2>3, <3>1, <3>2
  <2>4. ASSUME NEW a \in 1..Len(new), NEW c \in 1..Len(new), g[k] = new[a], g[m] = new[c],
               k = a + (i - 1), m = c + (i - 1)
        PROVE  k = m
    <3>1. a = c
      BY <1>2, <2>4 DEF Apart
    <3> QED BY <2>4, <3>1
  <2>5. ASSUME NEW a \in 1..Len(f), NEW c \in 1..Len(new), f[a].id = new[c].id PROVE FALSE
    BY <2>5
  <2> QED BY <1>2, <2>1, <2>2, <2>3, <2>4, <2>5
<1>3. FromBoth(g, f, new)
  BY <1>1 DEF FromBoth
<1> QED BY <1>2, <1>3 DEF Apart

LEMMA DeleteIds ==
  ASSUME HandlesInv, IdsInv, NEW handles, handles \subseteq Handles, DeleteNodes(handles)
  PROVE  IdsInv'
<1> DEFINE gone == UNION {UNION {Span(lines, i) : i \in Resolved(o)} : o \in handles}
           I == UNION {Resolved(o) : o \in handles}
<1>1. I \subseteq 1..Len(lines)
  BY ResolvedFacts
<1>2. gone = UNION {Span(lines, i) : i \in I}
  OBVIOUS
<1>3. IsFile(lines) /\ Apart(lines)
  BY DEF HandlesInv, IdsInv, Files
<1>4. \E retired : Edited(Without(lines, gone), retired, handles)
  BY DEF DeleteNodes
<1> HIDE DEF I, gone
<1>5. IsFile(Without(lines, gone))
  BY <1>1, <1>2, <1>3, WithoutIsFile
<1>6. Made(Without(lines, gone), lines, edits)
  <2>1. Apart(Without(lines, gone)) /\ From(Without(lines, gone), lines, gone)
    BY <1>1, <1>2, <1>3, WithoutApart
  <2> QED BY <2>1 DEF Made, From
<1> QED BY <1>4, <1>5, <1>6, EditedIds

LEMMA ChangeIds ==
  ASSUME HandlesInv, IdsInv, NEW o, NEW name \in Names, NEW text \in Texts, ChangeNode(o, name, text)
  PROVE  IdsInv'
<1>1. PICK i \in Resolved(o) : Edited([lines EXCEPT ![i].name = name, ![i].text = text], {}, {})
  BY DEF ChangeNode
<1> PICK f : f = [lines EXCEPT ![i].name = name, ![i].text = text]
  OBVIOUS
<1>2. f = lines'
  BY <1>1 DEF Edited
<1>3. IsFile(f)
  BY <1>2, ChangeGood DEF HandlesInv
<1>4. i \in 1..Len(lines) /\ lines \in Seq(Line) /\ Apart(lines)
  BY ResolvedFacts DEF HandlesInv, IsFile, IdsInv, Files
<1>5. Len(f) = Len(lines) /\ \A k \in 1..Len(lines) : f[k].id = lines[k].id
  <2> DEFINE line == [lines[i] EXCEPT !.name = name, !.text = text]
  <2>1. lines[i] \in Line
    BY <1>4
  <2>2. line \in Line /\ line.id = lines[i].id
    BY <2>1 DEF Line
  <2>3. f = [lines EXCEPT ![i] = line]
    OBVIOUS
  <2> HIDE DEF line
  <2> QED BY <1>4, <2>2, <2>3
<1>6. Made(f, lines, edits)
  BY <1>4, <1>5 DEF Apart, Made
<1> QED BY <1>1, <1>3, <1>6, EditedIds

LEMMA InsertIds ==
  ASSUME HandlesInv, IdsInv, NEW i \in 1..(Len(lines) + 1), NEW name \in Names, NEW guard \in Guards,
         NEW text \in Texts, NEW nested \in BOOLEAN, InsertNode(i, name, guard, text, nested)
  PROVE  IdsInv'
<1> DEFINE line == [id |-> MaxLines + edits + 1, name |-> name, guard |-> guard, text |-> text, nested |-> nested]
           new == <<line>>
<1>1. Edited(Inserted(lines, i, new), {}, {})
  BY DEF InsertNode
<1> PICK f : f = Inserted(lines, i, new)
  OBVIOUS
<1>2. f = lines'
  BY <1>1 DEF Edited
<1>3. IsFile(f)
  BY <1>2, InsertGood DEF HandlesInv
<1>4. line \in Line /\ line.id = MaxLines + edits + 1
  <2>1. MaxLines + edits + 1 \in Nat
    BY RowsFacts, NodeHandlesAssumption
  <2> QED BY <2>1 DEF Line
<1> HIDE DEF line
<1>5. new \in Seq(Line) /\ Len(new) = 1 /\ new[1] = line
  BY <1>4
<1> HIDE DEF new
<1>6. lines \in Files /\ lines \in Seq(Line) /\ Apart(lines)
  BY DEF HandlesInv, IsFile, IdsInv, Files
<1>7. \A m \in 1..Len(new) : m = 1
  BY <1>5
<1>8. Apart(new) /\ \A m \in 1..Len(new) : new[m].id = MaxLines + edits + 1
  BY <1>4, <1>5, <1>7 DEF Apart
<1>9. \A k \in 1..Len(lines), m \in 1..Len(new) : lines[k].id # new[m].id
  <2>1. \A k \in 1..Len(lines) : lines[k].id \in Nat /\ lines[k].id < MaxLines + edits + 1
    BY <1>6, IdsAreNumbers
  <2>2. \A x : x \in Nat /\ x < MaxLines + edits + 1 => x # MaxLines + edits + 1
    BY RowsFacts, NodeHandlesAssumption
  <2> QED BY <1>8, <2>1, <2>2
<1>10. Made(f, lines, edits)
  <2>1. Apart(f) /\ FromBoth(f, lines, new)
    BY <1>5, <1>6, <1>8, <1>9, InsertedApart
  <2> QED BY <1>8, <2>1 DEF Made, FromBoth
<1> QED BY <1>1, <1>3, <1>10, EditedIds

LEMMA MoveIds ==
  ASSUME HandlesInv, IdsInv, NEW o, NEW j, MoveNode(o, j)
  PROVE  IdsInv'
<1>1. PICK i \in Resolved(o) :
        LET span == Span(lines, i)
            stay == Without(lines, span)
        IN /\ j \in 1..(Len(stay) + 1) \ {i}
           /\ Fits(stay, j, lines[i].nested)
           /\ Edited(Inserted(stay, j, SubSeq(lines, i, Max(span))), {o}, {})
  BY DEF MoveNode
<1> DEFINE span == Span(lines, i)
           stay == Without(lines, span)
           m == Max(span)
           new == SubSeq(lines, i, m)
<1>2. j \in 1..(Len(stay) + 1) /\ Edited(Inserted(stay, j, new), {o}, {})
  BY <1>1
<1> PICK f : f = Inserted(stay, j, new)
  OBVIOUS
<1>3. f = lines'
  BY <1>2 DEF Edited
<1>4. IsFile(f)
  BY <1>3, MoveGood DEF HandlesInv
<1>5. i \in 1..Len(lines) /\ IsFile(lines) /\ lines \in Seq(Line) /\ Len(lines) \in Nat /\ Apart(lines)
  BY ResolvedFacts DEF HandlesInv, IsFile, IdsInv, Files
<1>6. i \in span /\ span \subseteq i..Len(lines) /\ \A k \in span : i..k \subseteq span
  BY <1>5, SpanFacts
<1>7. m \in span
  <2>1. span \subseteq Nat /\ \A k \in span : k <= Len(lines)
    BY <1>5, <1>6
  <2> HIDE DEF span
  <2> QED BY <1>5, <1>6, <2>1, MaxFacts
<1>8. span = UNION {Span(lines, k) : k \in {i}} /\ {i} \subseteq 1..Len(lines)
  BY <1>5
<1>9. IsFile(stay)
  BY <1>5, <1>8, WithoutIsFile
<1>10. /\ Apart(stay)
       /\ \A k \in 1..Len(stay) : \E a \in (1..Len(lines)) \ span : stay[k].id = lines[a].id
  <2>1. Apart(stay) /\ From(stay, lines, span)
    BY <1>5, <1>8, WithoutApart
  <2> HIDE DEF stay, span
  <2> QED BY <2>1 DEF From
<1> HIDE DEF span, stay, m
<1>11. m \in i..Len(lines) /\ i..m \subseteq span /\ span \subseteq 1..Len(lines)
  BY <1>5, <1>6, <1>7
<1>12. /\ new \in Seq(Line) /\ Len(new) = m - i + 1
       /\ \A k \in 1..(m - i + 1) : new[k] = lines[i + k - 1]
  BY <1>5, <1>11, Part
<1> HIDE DEF new
<1>13. ASSUME NEW k \in 1..Len(new) PROVE i + k - 1 \in span /\ i + k - 1 \in 1..Len(lines) /\ new[k] = lines[i + k - 1]
  <2>1. k \in 1..(m - i + 1) /\ i + k - 1 \in i..m
    BY <1>5, <1>11, <1>12, <1>13
  <2> QED BY <1>11, <1>12, <2>1
<1>14. Apart(new)
  <2> SUFFICES ASSUME NEW k \in 1..Len(new), NEW l \in 1..Len(new), new[k].id = new[l].id PROVE k = l
    BY DEF Apart
  <2>1. i + k - 1 = i + l - 1
    BY <1>5, <1>13 DEF Apart
  <2>2. k \in Int /\ l \in Int /\ i \in Int
    BY <1>5, <1>11, <1>12
  <2> QED BY <2>1, <2>2
<1>15. \A k \in 1..Len(stay), l \in 1..Len(new) : stay[k].id # new[l].id
  <2> SUFFICES ASSUME NEW k \in 1..Len(stay), NEW l \in 1..Len(new), stay[k].id = new[l].id PROVE FALSE
    OBVIOUS
  <2>1. PICK a \in (1..Len(lines)) \ span : stay[k].id = lines[a].id
    BY <1>10
  <2>2. a = i + l - 1
    BY <1>5, <1>13, <2>1 DEF Apart
  <2> QED BY <1>13, <2>1, <2>2
<1>16. Apart(f) /\ FromBoth(f, stay, new)
  <2>1. stay \in Seq(Line)
    BY <1>9 DEF IsFile
  <2> QED BY <1>2, <1>10, <1>12, <1>14, <1>15, <2>1, InsertedApart
<1>17. Made(f, lines, edits)
  <2>1. \A k \in 1..Len(f) : \/ \E l \in 1..Len(stay) : f[k].id = stay[l].id
                             \/ \E l \in 1..Len(new) : f[k].id = new[l].id
    BY <1>16 DEF FromBoth
  <2>2. \A l \in 1..Len(stay) : \E a \in 1..Len(lines) : stay[l].id = lines[a].id
    BY <1>10
  <2>3. \A l \in 1..Len(new) : \E a \in 1..Len(lines) : new[l].id = lines[a].id
    BY <1>13
  <2>4. \A k \in 1..Len(f) : \E a \in 1..Len(lines) : f[k].id = lines[a].id
    BY <2>1, <2>2, <2>3
  <2> QED BY <1>16, <2>4 DEF Made
<1> QED BY <1>2, <1>4, <1>17, EditedIds

LEMMA UndoIds == ASSUME HandlesInv, IdsInv, NEW n, Undo(n) PROVE IdsInv'
<1> PICK f : f = ring[n].lines
  OBVIOUS
<1>1. /\ n \in 1..Len(ring) /\ Command /\ lines' = f
      /\ TakenIn(f, {}, {}, FALSE) /\ UNCHANGED <<base, ring, begun>>
  BY DEF Undo
<1>2. f \in Files /\ IsFile(f)
  BY <1>1, AreFiles DEF Files
<1>3. Files' \subseteq Files
  BY <1>1, <1>2 DEF Files
<1>4. segment' # NoSegment
  BY <1>1, <1>2, TakenInBuilt
<1>5. edits' = edits + 1
  BY <1>1 DEF Command
<1> QED BY <1>3, <1>4, <1>5, SameFiles

LEMMA BeginIds == ASSUME HandlesInv, IdsInv, Begin PROVE IdsInv'
<1>1. /\ edits' = edits + 1 /\ begun' = [lines |-> lines, dirty |-> segment # NoSegment]
      /\ UNCHANGED <<lines, segment, ring, last>>
  BY DEF Begin, Command
<1>2. begun'.lines = lines
  BY <1>1
<1>3. Files' \subseteq Files
  BY <1>1, <1>2 DEF Files
<1>4. last'.built => segment' # NoSegment
  BY <1>1 DEF IdsInv
<1> QED BY <1>1, <1>3, <1>4, SameFiles

LEMMA RollbackIds == ASSUME HandlesInv, IdsInv, RollbackFile PROVE IdsInv'
<1>1. /\ begun # NoSegment /\ lines' = begun.lines
      /\ ring' = [n \in 1..Len(ring) |-> [ring[n] EXCEPT !.rows = NoSegment]]
      /\ begun' = NoSegment /\ edits' = edits
      /\ last' = [built |-> FALSE, edit |-> FALSE, removed |-> {}, retired |-> {}]
  BY DEF RollbackFile
<1>2. HandlesInv'
  BY RollbackGood
<1>3. Len(ring) \in Nat /\ Len(ring') \in Nat /\ DOMAIN ring' = 1..Len(ring')
      /\ \A n \in 1..Len(ring) : ring[n] \in [lines : Seq(Line), rows : Seq(HandleRow) \cup {NoSegment}]
  <2> DEFINE Slot == [lines : Seq(Line), rows : Seq(HandleRow) \cup {NoSegment}]
  <2>1. ring \in Seq(Slot) /\ ring' \in Seq(Slot)
    BY <1>2 DEF HandlesInv, Kept
  <2> HIDE DEF Slot
  <2>2. Len(ring) \in Nat /\ Len(ring') \in Nat /\ DOMAIN ring' = 1..Len(ring')
        /\ \A n \in 1..Len(ring) : ring[n] \in Slot
    BY <2>1
  <2> QED BY <2>2 DEF Slot
<1>4. 1..Len(ring') = 1..Len(ring)
  BY <1>1, <1>3
<1>5. \A n \in 1..Len(ring') : ring'[n].lines = ring[n].lines
  BY <1>1, <1>3, <1>4
<1>6. Files' \subseteq Files
  BY <1>1, <1>4, <1>5 DEF Files
<1>7. last'.built = FALSE
  BY <1>1
<1> QED BY <1>1, <1>6, <1>7, SameFiles

LEMMA IdsInitInv == HandlesInit => IdsInv
<1> SUFFICES ASSUME HandlesInit PROVE IdsInv
  OBVIOUS
<1>1. PICK n \in 0..MaxLines : \E c \in [1..n -> Construct] :
        lines = [i \in 1..n |-> [id |-> i, name |-> c[i].name, guard |-> c[i].guard,
                                 text |-> c[i].text, nested |-> c[i].nested]]
  BY DEF HandlesInit
<1>2. /\ ring = <<>> /\ begun = NoSegment /\ edits = 0
      /\ last = [built |-> FALSE, edit |-> FALSE, removed |-> {}, retired |-> {}]
  BY DEF HandlesInit
<1>3. Len(lines) = n /\ \A i \in 1..n : lines[i].id = i
  <2>1. MaxLines \in Nat /\ n \in Nat
    BY NodeHandlesAssumption
  <2>2. lines \in Seq(Line)
    BY HandlesInitInv DEF HandlesInv, IsFile
  <2>3. DOMAIN lines = 1..Len(lines) /\ Len(lines) \in Nat
    BY <2>2
  <2>4. DOMAIN lines = 1..n /\ \A i \in 1..n : lines[i].id = i
    BY <1>1
  <2>5. 1..Len(lines) = 1..n
    BY <2>3, <2>4
  <2>6. Len(lines) = n
    <3>1. \A l, m \in Nat : 1..l = 1..m => l = m
      OBVIOUS
    <3> QED BY <2>1, <2>3, <2>5, <3>1
  <2> QED BY <2>4, <2>6
<1>4. Apart(lines)
  BY <1>3 DEF Apart
<1>5. Bounded(lines, edits)
  <2>1. MaxLines \in Nat /\ n \in Nat /\ n <= MaxLines
    BY NodeHandlesAssumption
  <2>2. \A i \in 1..n : i <= MaxLines + 0
    BY <2>1
  <2> QED BY <1>2, <1>3, <2>2 DEF Bounded
<1>6. Files = {lines}
  <2>1. 1..Len(ring) = {}
    BY <1>2
  <2> QED BY <1>2, <2>1 DEF Files
<1>7. last.built = FALSE
  BY <1>2
<1> QED BY <1>4, <1>5, <1>6, <1>7 DEF IdsInv

LEMMA IdsNextInv == HandlesInv /\ IdsInv /\ [HandlesNext]_handleVars => IdsInv'
<1> SUFFICES ASSUME HandlesInv, IdsInv, [HandlesNext]_handleVars PROVE IdsInv'
  OBVIOUS
<1>1. CASE \E n \in 1..MaxSweep : \E handles \in kSubset(n, Handles) : DeleteNodes(handles)
  <2>1. PICK handles : handles \subseteq Handles /\ DeleteNodes(handles)
    BY <1>1 DEF kSubset
  <2> QED BY <2>1, DeleteIds
<1>2. CASE \E o \in Handles, name \in Names, text \in Texts : ChangeNode(o, name, text)
  BY <1>2, ChangeIds
<1>3. CASE \E i \in 1..(Len(lines) + 1), name \in Names, guard \in Guards, text \in Texts,
             nested \in BOOLEAN : InsertNode(i, name, guard, text, nested)
  BY <1>3, InsertIds
<1>4. CASE \E o \in Handles, j \in 1..MaxLines : MoveNode(o, j)
  BY <1>4, MoveIds
<1>5. CASE \E n \in 1..Len(ring) : Undo(n)
  BY <1>5, UndoIds
<1>6. CASE Begin
  BY <1>6, BeginIds
<1>7. CASE RollbackFile
  BY <1>7, RollbackIds
<1>8. CASE UNCHANGED handleVars
  BY <1>8 DEF handleVars, IdsInv, Files
<1> QED BY <1>1, <1>2, <1>3, <1>4, <1>5, <1>6, <1>7, <1>8 DEF HandlesNext

-----------------------------------------------------------------------------
\* Who keeps its ordinal in a re-index.

\* A construct with that key and parent ordinal is told from the hints that
\* live on, but hint j.
Told(hints, T, key, parent, j) ==
  LET old == hints[j]
      alike == {h \in (1..Len(hints)) \ T : /\ h # j
                                            /\ hints[h].parent = old.parent
                                            /\ hints[h].key.name = old.key.name
                                            /\ hints[h].key.guard = old.key.guard}
  IN /\ j \in (1..Len(hints)) \ T
     /\ old.parent = parent /\ old.key.name = key.name /\ old.key.guard = key.guard
     /\ alike = {} \/ (old.key = key /\ \A h \in alike : hints[h].key.hash # key.hash)

LEMMA LeftIs ==
  ASSUME NEW among, IsFiniteSet(among), NEW left, left \subseteq among, NEW j \in left,
         NEW r, r = IF Cardinality(among) > 1 /\ left # {} THEN left ELSE among
  PROVE  r = left
<1>1. CASE Cardinality(among) > 1
  BY <1>1
<1>2. CASE ~(Cardinality(among) > 1)
  <2>1. ASSUME NEW h \in among PROVE h = j
    <3> SUFFICES ASSUME h # j PROVE FALSE
      OBVIOUS
    <3>1. Cardinality({h} \cup {j}) = 2 /\ {h} \cup {j} \in SUBSET among
      BY <2>1, Two
    <3>2. Cardinality({h} \cup {j}) <= Cardinality(among) /\ Cardinality(among) \in Nat
      BY <3>1, FS_Subset, FS_CardinalityType
    <3> QED BY <1>2, <3>1, <3>2
  <2> QED BY <1>2, <2>1
<1> QED BY <1>1, <1>2

LEMMA ToldMatches ==
  ASSUME NEW hints, Len(hints) \in Nat, NEW T, NEW used, T \subseteq used,
         NEW key, NEW parent, NEW j, j \notin used, Told(hints, T, key, parent, j)
  PROVE  Matches(hints, used, key, parent) = {j}
<1> DEFINE there == {h \in 1..Len(hints) : /\ h \notin used /\ hints[h].parent = parent
                                           /\ hints[h].key.name = key.name}
           ofGuard == {h \in there : hints[h].key.guard = key.guard}
           guarded == IF Cardinality(there) > 1 /\ ofGuard # {} THEN ofGuard ELSE there
           ofBody == {h \in guarded : hints[h].key.body = key.body}
           bodied == IF key.body = <<>> THEN guarded
                     ELSE IF Cardinality(guarded) > 1 /\ ofBody # {} THEN ofBody ELSE guarded
           ofHash == {h \in bodied : hints[h].key.hash = key.hash}
           hashed == IF Cardinality(bodied) > 1 /\ ofHash # {} THEN ofHash ELSE bodied
<1>1. Matches(hints, used, key, parent) = hashed
  BY DEF Matches, Narrowed
<1>2. /\ j \in 1..Len(hints) /\ j \notin T /\ hints[j].parent = parent
      /\ hints[j].key.name = key.name /\ hints[j].key.guard = key.guard
  BY DEF Told
<1> DEFINE alike == {h \in (1..Len(hints)) \ T : /\ h # j
                                                 /\ hints[h].parent = parent
                                                 /\ hints[h].key.name = key.name
                                                 /\ hints[h].key.guard = key.guard}
<1>3. alike = {} \/ (hints[j].key = key /\ \A h \in alike : hints[h].key.hash # key.hash)
  BY <1>2 DEF Told
<1>4. IsFiniteSet(there) /\ IsFiniteSet(ofGuard)
  <2>1. IsFiniteSet(1..Len(hints)) /\ there \subseteq 1..Len(hints) /\ ofGuard \subseteq 1..Len(hints)
    BY FS_Interval
  <2> HIDE DEF there, ofGuard
  <2> QED BY <2>1, FS_Subset
<1>5. j \in ofGuard /\ ofGuard \subseteq there
  BY <1>2
<1>6. guarded = ofGuard
  <2> HIDE DEF ofGuard, there
  <2> QED BY <1>4, <1>5, LeftIs
<1>7. \A h \in ofGuard : h = j \/ h \in alike
  OBVIOUS
<1>8. IsFiniteSet(guarded) /\ j \in guarded /\ \A h \in guarded : h = j \/ h \in alike
  BY <1>4, <1>5, <1>6, <1>7
<1> HIDE DEF ofGuard, there, guarded, alike
<1>9. CASE alike = {}
  <2>1. guarded = {j}
    BY <1>8, <1>9
  <2>2. bodied = {j}
    BY <2>1
  <2> HIDE DEF bodied
  <2>3. hashed = {j}
    BY <2>2
  <2> QED BY <1>1, <2>3
<1>10. CASE hints[j].key = key /\ \A h \in alike : hints[h].key.hash # key.hash
  <2>1. bodied \subseteq guarded /\ j \in bodied
    <3>1. j \in ofBody
      BY <1>8, <1>10
    <3> HIDE DEF ofBody
    <3>2. ofBody \subseteq guarded
      BY DEF ofBody
    <3> QED BY <1>8, <3>1, <3>2
  <2>2. IsFiniteSet(bodied)
    BY <1>8, <2>1, FS_Subset
  <2> HIDE DEF bodied
  <2>3. j \in ofHash /\ ofHash \subseteq bodied
    BY <1>10, <2>1
  <2>4. \A h \in ofHash : h = j
    BY <1>8, <1>10, <2>1
  <2> HIDE DEF ofHash
  <2>5. hashed = ofHash
    BY <2>2, <2>3, LeftIs
  <2>6. ofHash = {j}
    BY <2>3, <2>4
  <2> QED BY <1>1, <2>5, <2>6
<1> QED BY <1>3, <1>9, <1>10

\* The fingerprint tells what is in a construct.
LEMMA HashTells ==
  ASSUME NEW f \in Seq(Line), NEW i \in 1..Len(f), NEW k \in 1..Len(f),
         KeyOf(f, i).name = KeyOf(f, k).name, KeyOf(f, i).guard = KeyOf(f, k).guard,
         KeyOf(f, i).hash = KeyOf(f, k).hash
  PROVE  KeyOf(f, i) = KeyOf(f, k)
<1> DEFINE c(m) == Cardinality(Span(f, m))
           t(m) == Content(f, m)
           b(m) == IF c(m) > 1 THEN t(m)[2] ELSE <<>>
<1>1. \A m : KeyOf(f, m) = [name |-> f[m].name, guard |-> f[m].guard, body |-> b(m), hash |-> t(m)]
  BY DEF KeyOf
<1>2. c(i) \in Nat /\ c(k) \in Nat
  <2>1. c(i) \in 1..(Len(f) - i + 1) /\ c(k) \in 1..(Len(f) - k + 1)
    BY SpanFacts
  <2> HIDE DEF c
  <2> QED BY <2>1
<1>3. DOMAIN t(i) = 1..c(i) /\ DOMAIN t(k) = 1..c(k)
  BY DEF Content
<1> HIDE DEF t, c
<1>4. t(i) = t(k) /\ f[i].name = f[k].name /\ f[i].guard = f[k].guard
  BY <1>1
<1>5. c(i) = c(k)
  BY <1>2, <1>3, <1>4
<1>6. b(i) = b(k)
  BY <1>4, <1>5
<1> HIDE DEF b
<1> QED BY <1>1, <1>4, <1>6

\* The rows of a walk stay.
LEMMA WalkStays ==
  ASSUME NEW f, IsFile(f), NEW hints, NEW b, IsHints(hints, b), NEW retired,
         NEW w, IsWalk(f, hints, retired, w, Len(f)), NEW i \in 0..Len(f)
  PROVE  /\ i > 0 => Taken(f, hints, w[i - 1], i, w[i]) /\ WalkGood(f, hints, retired, w[i - 1], i - 1)
         /\ \A m \in 1..i : w[Len(f)].rows[m] = w[i].rows[m]
<1>1. Len(f) \in Nat
  BY DEF IsFile
<1>2. \A m \in 0..Len(f) : WalkGood(f, hints, retired, w[m], m)
  BY WalkIsGood
<1>3. ASSUME NEW m \in 1..Len(f) PROVE Taken(f, hints, w[m - 1], m, w[m])
  <2>1. m - 1 \in 0..Len(f) /\ m \in 0..Len(f) /\ m # 0
    BY <1>1
  <2>2. w[m] = Assign(f, hints, w[m - 1], m)
    BY <2>1 DEF IsWalk
  <2> QED BY <1>2, <2>1, <2>2, AssignGood
<1> DEFINE Stays(n) == \A m \in 1..i : w[n].rows[m] = w[i].rows[m]
           S == {n \in i..Len(f) : ~Stays(n)}
<1>4. S = {}
  <2> SUFFICES ASSUME S # {} PROVE FALSE
    OBVIOUS
  <2>1. S \subseteq Nat
    BY <1>1
  <2>2. PICK n \in S : \A k \in S : n <= k
    BY <2>1, LeastNumber
  <2>3. n \in i..Len(f) /\ ~Stays(n)
    BY <2>2
  <2>4. n # i
    BY <2>3
  <2>5. n - 1 \in i..Len(f) /\ n \in 1..Len(f) /\ 1..i \subseteq 1..(n - 1) /\ ~(n <= n - 1)
    BY <1>1, <2>3, <2>4
  <2>6. Stays(n - 1)
    BY <2>2, <2>5
  <2>7. \A m \in 1..(n - 1) : w[n].rows[m] = w[n - 1].rows[m]
    BY <1>3, <2>5 DEF Taken
  <2>8. Stays(n)
    BY <2>5, <2>6, <2>7
  <2> QED BY <2>3, <2>8
<1>5. Stays(Len(f))
  <2>1. Len(f) \in i..Len(f)
    BY <1>1
  <2> QED BY <1>4, <2>1
<1>6. i > 0 => i \in 1..Len(f) /\ i - 1 \in 0..Len(f)
  BY <1>1
<1> QED BY <1>2, <1>3, <1>5, <1>6

\* A hint that the walk has used is that of a construct with its parent and
\* its name.
LEMMA WalkTracks ==
  ASSUME NEW f, IsFile(f), NEW hints, NEW b, IsHints(hints, b), NEW retired,
         NEW w, IsWalk(f, hints, retired, w, Len(f)), NEW i \in 0..Len(f),
         NEW h \in w[i].used \ Tombstone(hints, retired)
  PROVE  \E m \in 1..i : LET row == w[Len(f)].rows[m]
                         IN row.ord = hints[h].ord /\ row.parent = hints[h].parent
                            /\ row.key.name = hints[h].key.name
<1> PICK rows : rows = w[Len(f)].rows
  OBVIOUS
<1> PICK T : T = Tombstone(hints, retired)
  OBVIOUS
<1> DEFINE Tracked(n) == \A g \in w[n].used \ T : \E m \in 1..n :
             /\ rows[m].ord = hints[g].ord /\ rows[m].parent = hints[g].parent
             /\ rows[m].key.name = hints[g].key.name
           S == {n \in 0..Len(f) : ~Tracked(n)}
<1>1. Len(f) \in Nat
  BY DEF IsFile
<1>2. S = {}
  <2> SUFFICES ASSUME S # {} PROVE FALSE
    OBVIOUS
  <2>1. S \subseteq Nat
    BY <1>1
  <2>2. PICK n \in S : \A k \in S : n <= k
    BY <2>1, LeastNumber
  <2>3. n \in 0..Len(f) /\ ~Tracked(n)
    BY <2>2
  <2>4. CASE n = 0
    <3>1. w[0] = First(hints, retired)
      BY <2>3, <2>4 DEF IsWalk
    <3>2. w[0].used = T
      BY <3>1 DEF First
    <3> QED BY <2>3, <2>4, <3>2
  <2>5. CASE n # 0
    <3>1. n \in 1..Len(f) /\ n - 1 \in 0..Len(f) /\ ~(n <= n - 1) /\ n > 0 /\ n \in 1..n
          /\ 1..(n - 1) \subseteq 1..n
      BY <1>1, <2>3, <2>5
    <3>2. Tracked(n - 1)
      BY <2>2, <3>1
    <3>3. Taken(f, hints, w[n - 1], n, w[n]) /\ \A m \in 1..n : rows[m] = w[n].rows[m]
      BY <2>3, <3>1, WalkStays
    <3> PICK row : row = rows[n]
      OBVIOUS
    <3>4. row = w[n].rows[n] /\ row.key.name = f[n].name
      <4>1. WalkGood(f, hints, retired, w[n], n)
        BY <2>3, WalkIsGood
      <4>2. w[n].rows[n].key = KeyOf(f, n)
        BY <3>1, <4>1 DEF WalkGood
      <4> QED BY <3>1, <3>3, <4>2 DEF KeyOf
    <3>5. \/ w[n].used = w[n - 1].used
          \/ \E g \in Matches(hints, w[n - 1].used, KeyOf(f, n), row.parent) :
               row.ord = hints[g].ord /\ w[n].used = w[n - 1].used \cup {g}
      BY <3>3, <3>4 DEF Taken
    <3>6. CASE w[n].used = w[n - 1].used
      <4>1. Tracked(n)
        BY <3>1, <3>2, <3>6
      <4> QED BY <2>3, <4>1
    <3>7. ASSUME NEW g \in Matches(hints, w[n - 1].used, KeyOf(f, n), row.parent),
                 row.ord = hints[g].ord, w[n].used = w[n - 1].used \cup {g}
          PROVE  FALSE
      <4>1. hints[g].parent = row.parent /\ hints[g].key.name = row.key.name
        <5>1. hints[g].parent = row.parent /\ hints[g].key.name = KeyOf(f, n).name
          BY MatchesAreFree
        <5> QED BY <3>4, <5>1 DEF KeyOf
      <4>2. Tracked(n)
        BY <3>1, <3>2, <3>7, <4>1
      <4> QED BY <2>3, <4>2
    <3> QED BY <3>5, <3>6, <3>7
  <2> QED BY <2>4, <2>5
<1>3. Tracked(i)
  BY <1>2
<1> QED BY <1>3

\* Constructs that are told from the hints of all others, as are their new
\* siblings of that name, keep their ordinals.
\* G has every sibling of that name of those in it; own gives each a hint of
\* its own, that it is told to have.
Siblings(G, rows, n) ==
  /\ G \subseteq 1..n
  /\ \A m \in G, k \in 1..n :
       rows[k].parent = rows[m].parent /\ rows[k].key.name = rows[m].key.name => k \in G

OneEach(G, own) == \A m, k \in G : own[m] = own[k] => m = k

AllTold(G, rows, own, hints, T) ==
  \A m \in G : Told(hints, T, rows[m].key, rows[m].parent, own[m])

LEMMA KeptOrdinals ==
  ASSUME NEW f, IsFile(f), NEW hints, NEW b, IsHints(hints, b), NEW retired,
         NEW rows, rows = Assigned(f, hints, retired),
         NEW G, Siblings(G, rows, Len(f)), NEW own, OneEach(G, own),
         AllTold(G, rows, own, hints, Tombstone(hints, retired)), NEW g \in G
  PROVE  rows[g].ord = hints[own[g]].ord
<1>0. /\ G \subseteq 1..Len(f)
      /\ \A m \in G, k \in 1..Len(f) :
           rows[k].parent = rows[m].parent /\ rows[k].key.name = rows[m].key.name => k \in G
      /\ \A m, k \in G : own[m] = own[k] => m = k
      /\ \A m \in G : Told(hints, Tombstone(hints, retired), rows[m].key, rows[m].parent, own[m])
  BY DEF Siblings, OneEach, AllTold
<1>1. Len(f) \in Nat
  BY DEF IsFile
<1> DEFINE u == CHOOSE w : IsWalk(f, hints, retired, w, Len(f))
<1>2. IsWalk(f, hints, retired, u, Len(f))
  BY <1>1, WalkExists
<1>3. rows = u[Len(f)].rows
  BY DEF Assigned, IsWalk, First
<1> PICK w : w = u
  OBVIOUS
<1>4. IsWalk(f, hints, retired, w, Len(f)) /\ rows = w[Len(f)].rows
  BY <1>2, <1>3
<1> HIDE DEF u
<1> PICK T : T = Tombstone(hints, retired)
  OBVIOUS
<1> DEFINE S == {m \in G : rows[m].ord # hints[own[m]].ord}
<1> SUFFICES ASSUME S # {} PROVE FALSE
  OBVIOUS
<1>5. S \subseteq Nat
  <2>1. G \subseteq Nat /\ S \subseteq G
    BY <1>0, <1>1
  <2> QED BY <2>1
<1>6. PICK m \in S : \A k \in S : m <= k
  BY <1>5, LeastNumber
<1> PICK j : j = own[m]
  OBVIOUS
<1>7. m \in G /\ rows[m].ord # hints[j].ord
  BY <1>6
<1>8. m \in 1..Len(f) /\ m \in 0..Len(f) /\ m - 1 \in 0..Len(f) /\ m > 0 /\ m \in 1..m
      /\ \A k \in 1..(m - 1) : k \in 1..Len(f) /\ ~(m <= k)
  BY <1>0, <1>1, <1>7
<1>9. /\ Taken(f, hints, w[m - 1], m, w[m]) /\ WalkGood(f, hints, retired, w[m - 1], m - 1)
      /\ rows[m] = w[m].rows[m]
  BY <1>4, <1>8, WalkStays
<1>10. WalkGood(f, hints, retired, w[m], m)
  BY <1>4, <1>8, WalkIsGood
<1>11. rows[m].key = KeyOf(f, m)
  BY <1>8, <1>9, <1>10 DEF WalkGood
<1>12. Told(hints, T, KeyOf(f, m), rows[m].parent, j)
  BY <1>0, <1>7, <1>11
<1>13. /\ j \in (1..Len(hints)) \ T /\ hints[j].parent = rows[m].parent
       /\ hints[j].key.name = rows[m].key.name
  BY <1>11, <1>12 DEF Told
<1>14. j \notin w[m - 1].used
  <2> SUFFICES ASSUME j \in w[m - 1].used PROVE FALSE
    OBVIOUS
  <2>1. j \in w[m - 1].used \ Tombstone(hints, retired)
    BY <1>13
  <2>2. PICK k \in 1..(m - 1) : /\ rows[k].ord = hints[j].ord /\ rows[k].parent = hints[j].parent
                                /\ rows[k].key.name = hints[j].key.name
    BY <1>4, <1>8, <2>1, WalkTracks
  <2>3. k \in G
    BY <1>0, <1>7, <1>8, <1>13, <2>2
  <2>4. rows[k].ord = hints[own[k]].ord
    BY <1>6, <1>8, <2>3
  <2>5. own[k] \in 1..Len(hints)
    BY <1>0, <2>3 DEF Told
  <2>6. own[k] = j
    BY <1>13, <2>2, <2>4, <2>5 DEF IsHints, Distinct
  <2>7. k = m
    BY <1>0, <1>7, <2>3, <2>6
  <2>8. m <= k
    BY <1>8, <2>7
  <2> QED BY <1>8, <2>8
<1>15. Matches(hints, w[m - 1].used, KeyOf(f, m), rows[m].parent) = {j}
  <2>1. T \subseteq w[m - 1].used
    BY <1>9 DEF WalkGood
  <2>2. Len(hints) \in Nat
    BY HintFacts
  <2> QED BY <1>12, <1>14, <2>1, <2>2, ToldMatches
<1>16. rows[m].ord = hints[j].ord
  <2>1. PICK best :
          /\ best = Matches(hints, w[m - 1].used, KeyOf(f, m), w[m].rows[m].parent)
          /\ \/ best = {} /\ w[m].used = w[m - 1].used
             \/ \E h \in best : /\ w[m].rows[m].ord = hints[h].ord
                                /\ w[m].used = w[m - 1].used \cup {h}
    BY <1>9 DEF Taken
  <2>2. best = {j}
    BY <1>9, <1>15, <2>1
  <2>3. w[m].rows[m].ord = hints[j].ord
    BY <2>1, <2>2
  <2> QED BY <1>9, <2>3
<1> QED BY <1>7, <1>16

\* Whose is line m of the file, if it is settled.
IsOwn(m, j) ==
  LET old == Rows[j]
      new == segment'[m]
      alike == {h \in 1..Len(lines) \ {j} : /\ Rows[h].parent = old.parent
                                            /\ Rows[h].key.name = old.key.name
                                            /\ Rows[h].key.guard = old.key.guard
                                            /\ Rows[h].ord \notin last'.retired}
  IN /\ lines[j].id = lines'[m].id
     /\ old.parent = new.parent /\ old.ord \notin last'.retired
     /\ old.key.name = new.key.name /\ old.key.guard = new.key.guard
     /\ alike = {} \/ (new.key = old.key /\ \A h \in alike : Rows[h].key # old.key)

LEMMA OwnTold ==
  ASSUME HandlesInv, NEW retired, last'.retired = retired \cap OrdinalsOf(Rows),
         NEW m, NEW j \in 1..Len(lines), IsOwn(m, j)
  PROVE  Told(Rows, Tombstone(Rows, retired), segment'[m].key, segment'[m].parent, j)
<1> PICK H : H = Rows
  OBVIOUS
<1> PICK new : new = segment'[m]
  OBVIOUS
<1> PICK T : T = Tombstone(Rows, retired)
  OBVIOUS
<1>1. Len(H) = Len(lines) /\ lines \in Seq(Line)
  BY RowsFacts DEF HandlesInv, IsFile
<1>2. \A h \in 1..Len(lines) : H[h].key = KeyOf(lines, h)
  <2>1. Keys(H) = Parsed(lines)
    BY DEF HandlesInv, Placed
  <2>2. \A h \in 1..Len(lines) : Keys(H)[h] = H[h].key /\ Parsed(lines)[h] = KeyOf(lines, h)
    BY <1>1 DEF Keys, Parsed
  <2> QED BY <2>1, <2>2
<1>3. \A h \in 1..Len(lines) : H[h].ord \in last'.retired <=> h \in T
  BY <1>1 DEF Tombstone, OrdinalsOf
<1> DEFINE alike == {h \in 1..Len(lines) \ {j} : /\ H[h].parent = H[j].parent
                                                 /\ H[h].key.name = H[j].key.name
                                                 /\ H[h].key.guard = H[j].key.guard
                                                 /\ H[h].ord \notin last'.retired}
           others == {h \in (1..Len(H)) \ T : /\ h # j
                                              /\ H[h].parent = H[j].parent
                                              /\ H[h].key.name = H[j].key.name
                                              /\ H[h].key.guard = H[j].key.guard}
<1>4. /\ H[j].parent = new.parent /\ H[j].ord \notin last'.retired
      /\ H[j].key.name = new.key.name /\ H[j].key.guard = new.key.guard
      /\ alike = {} \/ (new.key = H[j].key /\ \A h \in alike : H[h].key # H[j].key)
  BY DEF IsOwn
<1>5. others = alike
  BY <1>1, <1>3
<1>6. ASSUME new.key = H[j].key, NEW h \in alike, H[h].key # H[j].key
      PROVE  H[h].key.hash # new.key.hash
  <2> SUFFICES ASSUME H[h].key.hash = H[j].key.hash PROVE FALSE
    BY <1>6
  <2>1. /\ h \in 1..Len(lines) /\ H[h].key.name = H[j].key.name
        /\ H[h].key.guard = H[j].key.guard
    OBVIOUS
  <2>2. H[h].key = KeyOf(lines, h) /\ H[j].key = KeyOf(lines, j)
    BY <1>2, <2>1
  <2>3. KeyOf(lines, h) = KeyOf(lines, j)
    BY <1>1, <2>1, <2>2, HashTells
  <2> QED BY <1>6, <2>2, <2>3
<1>7. alike = {} \/ (H[j].key = new.key /\ \A h \in alike : H[h].key.hash # new.key.hash)
  <2> HIDE DEF alike
  <2> QED BY <1>4, <1>6
<1>8. j \in (1..Len(H)) \ T
  BY <1>1, <1>3, <1>4
<1> HIDE DEF alike
<1>9. Told(H, T, new.key, new.parent, j)
  BY <1>4, <1>5, <1>7, <1>8 DEF Told
<1> QED BY <1>9

LEMMA ReindexKeeps ==
  ASSUME HandlesInv, IsFile(lines'), Apart(lines), Apart(lines'),
         NEW retired, NEW removed, NEW edit, TakenIn(lines', retired, removed, edit), last'.built,
         NEW i \in 1..Len(lines), NEW k \in 1..Len(lines'), lines[i].id = lines'[k].id,
         \A m \in 1..Len(lines') : (/\ segment'[m].parent = segment'[k].parent
                                    /\ segment'[m].key.name = segment'[k].key.name) => Settled(m)
  PROVE  segment'[k].ord = Rows[i].ord
<1> PICK f : f = lines'
  OBVIOUS
<1> PICK rows : rows = segment'
  OBVIOUS
<1>1. rows = Assigned(f, Rows, retired) /\ last'.retired = retired \cap OrdinalsOf(Rows)
  <2>1. last' = [built |-> Reusable(f, retired) = {}, edit |-> edit, removed |-> removed,
                 retired |-> retired \cap OrdinalsOf(Rows)]
    BY DEF TakenIn
  <2>2. Reusable(f, retired) = {} /\ last'.retired = retired \cap OrdinalsOf(Rows)
    BY <2>1
  <2>3. rows = IF Reusable(f, retired) # {} THEN CHOOSE r \in Reusable(f, retired) : TRUE
               ELSE Assigned(f, Rows, retired)
    BY DEF TakenIn
  <2> QED BY <2>2, <2>3
<1> DEFINE G == {m \in 1..Len(f) : rows[m].parent = rows[k].parent /\ rows[m].key.name = rows[k].key.name}
           own == [m \in G |-> CHOOSE j \in 1..Len(lines) : IsOwn(m, j)]
<1>2. ASSUME NEW m \in G PROVE own[m] \in 1..Len(lines) /\ IsOwn(m, own[m])
  <2>1. Settled(m)
    OBVIOUS
  <2>2. \E j \in 1..Len(lines) : IsOwn(m, j)
    BY <2>1 DEF Settled, IsOwn
  <2> QED BY <2>2
<1>3. \A m \in G : lines[own[m]].id = f[m].id
  <2> HIDE DEF G, own
  <2> QED BY <1>2 DEF IsOwn
<1>4. G \subseteq 1..Len(f) /\ k \in G
  OBVIOUS
<1>5. Siblings(G, rows, Len(f))
  BY DEF Siblings
<1> HIDE DEF G, own
<1>6. OneEach(G, own)
  <2> SUFFICES ASSUME NEW m \in G, NEW n \in G, own[m] = own[n] PROVE m = n
    BY DEF OneEach
  <2>1. f[m].id = f[n].id
    BY <1>3
  <2> QED BY <1>4, <2>1 DEF Apart
<1>7. AllTold(G, rows, own, Rows, Tombstone(Rows, retired))
  BY <1>1, <1>2, OwnTold DEF AllTold
<1>8. IsHints(Rows, Most(edits))
  BY RowsFacts
<1>9. rows[k].ord = Rows[own[k]].ord
  <2>1. IsFile(f)
    OBVIOUS
  <2> QED BY <1>1, <1>4, <1>5, <1>6, <1>7, <1>8, <2>1, KeptOrdinals
<1>10. own[k] = i
  BY <1>2, <1>3, <1>4 DEF Apart
<1> QED BY <1>9, <1>10

\* "Edit one function and every other handle in the file must still resolve":
\* a re-index leaves a construct its ordinal, if it and its siblings of that
\* name are settled (ordinals.rs, OrdinalRemapper).
THEOREM HandlesAreKept == HandlesSpec => KeepsHandles
<1>1. HandlesSpec => [](HandlesInv /\ IdsInv)
  BY HandlesInitInv, IdsInitInv, HandlesNextInv, IdsNextInv, PTL DEF HandlesSpec
<1> DEFINE Keeps == last'.built =>
              \A i \in 1..Len(lines), k \in 1..Len(lines') :
                /\ lines[i].id = lines'[k].id
                /\ \A m \in 1..Len(lines') : (/\ segment'[m].parent = segment'[k].parent
                                              /\ segment'[m].key.name = segment'[k].key.name) => Settled(m)
                => segment'[k].ord = Rows[i].ord
<1>2. HandlesInv /\ IdsInv /\ [HandlesNext]_handleVars => [Keeps]_handleVars
  <2> SUFFICES ASSUME HandlesInv, IdsInv, HandlesNext PROVE Keeps
    OBVIOUS
  <2>1. Apart(lines) /\ Apart(lines') /\ IsFile(lines') /\ (last'.built => segment' # NoSegment)
    <3>1. HandlesInv' /\ IdsInv'
      BY HandlesNextInv, IdsNextInv
    <3> QED BY <3>1 DEF HandlesInv, IdsInv, Files
  <2>2. ASSUME NEW retired, NEW removed, NEW edit, TakenIn(lines', retired, removed, edit) PROVE Keeps
    BY <2>1, <2>2, ReindexKeeps
  <2>3. ASSUME NEW f, NEW retired, NEW removed, Edited(f, retired, removed) PROVE Keeps
    <3>1. TakenIn(lines', retired, removed, TRUE)
      BY <2>3 DEF Edited
    <3> QED BY <2>2, <3>1
  <2> HIDE DEF Keeps
  <2>4. CASE \E n \in 1..MaxSweep : \E handles \in kSubset(n, Handles) : DeleteNodes(handles)
    BY <2>3, <2>4 DEF DeleteNodes
  <2>5. CASE \E o \in Handles, name \in Names, text \in Texts : ChangeNode(o, name, text)
    BY <2>3, <2>5 DEF ChangeNode
  <2>6. CASE \E i \in 1..(Len(lines) + 1), name \in Names, guard \in Guards, text \in Texts,
               nested \in BOOLEAN : InsertNode(i, name, guard, text, nested)
    BY <2>3, <2>6 DEF InsertNode
  <2>7. CASE \E o \in Handles, j \in 1..MaxLines : MoveNode(o, j)
    BY <2>3, <2>7 DEF MoveNode
  <2>8. CASE \E n \in 1..Len(ring) : Undo(n)
    BY <2>2, <2>8 DEF Undo
  <2>9. CASE Begin
    <3>1. lines' = lines /\ segment' = segment
      BY <2>9 DEF Begin
    <3> SUFFICES ASSUME last'.built, NEW i \in 1..Len(lines), NEW k \in 1..Len(lines'), lines[i].id = lines'[k].id
                 PROVE  segment'[k].ord = Rows[i].ord
      BY DEF Keeps
    <3>2. Rows = segment
      BY <2>1, <3>1 DEF Rows
    <3>3. i = k
      BY <2>1, <3>1 DEF Apart
    <3> QED BY <3>1, <3>2, <3>3
  <2>10. CASE RollbackFile
    <3>1. last' = [built |-> FALSE, edit |-> FALSE, removed |-> {}, retired |-> {}]
      BY <2>10 DEF RollbackFile
    <3>2. last'.built = FALSE
      BY <3>1
    <3> QED BY <3>2 DEF Keeps
  <2> QED BY <2>4, <2>5, <2>6, <2>7, <2>8, <2>9, <2>10 DEF HandlesNext
<1> QED BY <1>1, <1>2, PTL DEF HandlesSpec, KeepsHandles

=============================================================================
