----------------------------- MODULE FindSymbols -----------------------------
(***************************************************************************)
(* FIND symbols over the columnar index (crates/forgeql-core/src/storage/  *)
(* columnar/columnar_storage/): the pipeline of query/find.rs, which reads *)
(* every candidate row, and the routes of fast_paths.rs that answer from   *)
(* what the overlay counted and sorted when it was built                   *)
(* (overlay_builder.rs).  Which one serves a query must not be seen in the *)
(* answer.                                                                 *)
(*                                                                         *)
(* A session's index is an overlay, its segments in path order, and the    *)
(* dirty overlay that shadows the files the session has changed.  Values   *)
(* are numbers in the order of the strings they stand for; 0 is the empty  *)
(* kind, a line or path a row lacks, or an enrichment value it lacks.  val *)
(* is one enrichment field that segments post; count is 0 but on a group.  *)
(* All rows are of one language.  A query runs under the engine mutex, so  *)
(* it is one step.  Left out: the name patterns, whose indexes only narrow *)
(* the candidates, usage counts, and errors of reading the index, on which *)
(* every route falls back.                                                 *)
(*                                                                         *)
(* A definition whose name starts with Mut is the one after it with a      *)
(* plausible bug, and is not part of the specification.                    *)
(***************************************************************************)
EXTENDS Integers, FiniteSets, FiniteSetsExt, SequencesExt

CONSTANTS Corpora,         \* the indexes considered
          Queries,         \* the queries considered
          Default,         \* the stamp-only default of val, or 0
          Applicable,      \* the kinds it is declared for
          PostingBudget,   \* values a segment posts, and
          OverlayBudget,   \* values the overlay keys
          OverFetch,       \* TOPK_OVER_FETCH
          TopKThreshold,   \* TOPK_THRESHOLD
          MaxRowIds,       \* bounds on the candidates a query holds,
          MaxViews,        \* the row views it carries
          MaxRows          \* and the rows it builds

NoLimit == -1
Fields == {"name", "kind", "path", "line", "val", "count"}
Row == [{"name", "kind", "path", "line", "val"} -> Nat]
\* A default is never stored.
RowOf(path) == {r \in Row : r.path = path /\ (r.val = Default => r.val = 0)}
Predicate == [field : Fields, op : {"eq", "ne", "matches", "gt", "lt"}, value : Nat]

ASSUME FindAssumption ==
  /\ {PostingBudget, OverlayBudget, TopKThreshold, MaxRowIds, MaxViews, MaxRows} \subseteq Nat
  /\ OverFetch \in Nat /\ OverFetch >= 2
  /\ Default \in Nat /\ Applicable \subseteq Nat \ {0} /\ (Default = 0 <=> Applicable = {})
  /\ \A c \in Corpora :
       /\ c.segments \in Seq([path : Nat, rows : Seq(Row)])
       /\ \A s \in DOMAIN c.segments : c.segments[s].rows \in Seq(RowOf(c.segments[s].path))
       /\ \A s, t \in DOMAIN c.segments : s < t => c.segments[s].path <= c.segments[t].path
       /\ DOMAIN c.shadow \subseteq Nat /\ IsFiniteSet(DOMAIN c.shadow)
       /\ \A p \in DOMAIN c.shadow : c.shadow[p] \in Seq(RowOf(p))
  /\ \A q \in Queries :
       /\ q.where \subseteq Predicate
       /\ q.group \in {"none"} \cup (Fields \ {"count"}) /\ q.having \in Nat
       /\ q.order \in {"none"} \cup Fields /\ q.descending \in BOOLEAN
       /\ q.order = "none" => ~q.descending
       /\ q.limit \in Nat \cup {NoLimit} /\ q.offset \in Nat

VARIABLES
  segments,   \* the overlay: [path, rows], a path may come twice
  shadow,     \* the dirty overlay: the rows of the shadowed paths
  query,      \* the query answered last
  answer      \* its answer: the route, and the page and total or a refusal

findVars == <<segments, shadow, query, answer>>

Asked == answer.route # "none"
Refusal == [rows |-> <<>>, total |-> 0, refused |-> TRUE]

-----------------------------------------------------------------------------
\* Rows: what a predicate and an ordering read, and what makes two one.

\* resolved_field_str: a row the enricher examined and did not stamp.
ResolvedValue(r) == IF r.val = 0 /\ r.kind \in Applicable THEN Default ELSE r.val
Field(r, f) == CASE f = "val" -> ResolvedValue(r)
                 [] f = "count" -> IF "count" \in DOMAIN r THEN r.count ELSE 0
                 [] OTHER -> r[f]

\* A value that is missing differs from nothing: != fails on it too.
Holds(r, p) ==
  LET v == Field(r, p.field)
  IN /\ p.field = "val" => v # 0
     /\ CASE p.op \in {"eq", "matches"} -> v = p.value
          [] p.op = "ne" -> v # p.value
          [] p.op = "gt" -> v > p.value
          [] p.op = "lt" -> v < p.value

\* The order of a query, and of every route: total on what Collapse keeps.
Before(q, a, b) ==
  LET less == \/ a.name < b.name
              \/ a.name = b.name /\ a.line < b.line
              \/ a.name = b.name /\ a.line = b.line /\ a.path < b.path
              \/ a.name = b.name /\ a.line = b.line /\ a.path = b.path /\ a.kind < b.kind
      x == Field(a, q.order)
      y == Field(b, q.order)
  IN IF q.order = "none" \/ x = y THEN less
     ELSE IF q.descending THEN x > y ELSE x < y

SameRow(a, b) == \A f \in {"name", "kind", "path", "line"} : a[f] = b[f]

\* The numbers of a set in order, and the rows there.
InOrder(at) == [n \in 1..Cardinality(at) |->
                  CHOOSE i \in at : Cardinality({j \in at : j < i}) = n - 1]
RowsAt(rows, at) == LET i == InOrder(at) IN [n \in 1..Cardinality(at) |-> rows[i[n]]]

\* The rows of which no earlier one is the same.
Firsts(rows) == {i \in DOMAIN rows : \A j \in 1..(i - 1) : ~SameRow(rows[i], rows[j])}
Collapse(rows) == RowsAt(rows, Firsts(rows))

TopK(q, rows, k) ==
  LET rank(i) == Cardinality({j \in DOMAIN rows : Before(q, rows[j], rows[i])})
  IN [n \in 1..Min({k, Len(rows)}) |-> rows[CHOOSE i \in DOMAIN rows : rank(i) = n - 1]]

-----------------------------------------------------------------------------
\* What the overlay knows, over global row ids <<segment, row>>.

RowIds == UNION {{s} \X DOMAIN segments[s].rows : s \in DOMAIN segments}
At(id) == segments[id[1]].rows[id[2]]
RowsOf(s) == segments[s].rows
InSegment(ids, s) == {id \in ids : id[1] = s}

HasDuplicatePaths == \E s, t \in DOMAIN segments : s # t /\ segments[s].path = segments[t].path

\* A segment keeps one row of each that are the same: only those are posted.
Canonical == {id \in RowIds : id[2] \in Firsts(RowsOf(id[1]))}

NameRows(n) == {id \in Canonical : At(id).name = n}
KindRows(k) == {id \in Canonical : At(id).kind = k}

\* The values of val in a segment, and whether it posts them or keeps only the
\* column, having too many.
Values(rows) == {rows[i].val : i \in DOMAIN rows} \ {0}
Posts(rows) == Cardinality(Values(rows)) \in 1..PostingBudget
PostsPartially(rows) == Values(rows) # {} /\ ~Posts(rows)

\* The key table drops the field when the segments post too many values.
PostedValues == UNION {Values(RowsOf(s)) : s \in {t \in DOMAIN segments : Posts(RowsOf(t))}}
ValueRows(v) == {id \in Canonical : At(id).val = v /\ Posts(RowsOf(id[1]))}
Keyed == IF Cardinality(PostedValues) > OverlayBudget THEN {}
         ELSE {v \in PostedValues : ValueRows(v) # {}}

\* The rows of which the keys of val say nothing.
MissingRows == {id \in RowIds : PostsPartially(RowsOf(id[1]))}
ProvesAbsent(rows, v) == ~PostsPartially(rows) /\ v \notin Values(rows)

\* The rows the default could speak for, or all where a kind has no postings.
DefaultRows == IF \E k \in Applicable : KindRows(k) = {} THEN RowIds
               ELSE (UNION {KindRows(k) : k \in Applicable}) \cup MissingRows

\* Stage 1.  The candidates of one predicate: all rows, if no tier serves it.
Proposed(p) ==
  CASE p.field = "name" /\ p.op = "eq" -> NameRows(p.value)
    [] p.field = "kind" /\ p.op = "eq" -> KindRows(p.value)
    [] p.field = "val" /\ p.op = "eq" /\ p.value = Default -> DefaultRows
    [] p.field = "val" /\ p.op = "eq" /\ p.value # Default ->
         IF p.value \in Keyed THEN ValueRows(p.value) \cup MissingRows
         ELSE IF /\ \E s \in DOMAIN segments : Values(RowsOf(s)) # {}
                 /\ \A s \in DOMAIN segments : ProvesAbsent(RowsOf(s), p.value) THEN {}
         ELSE RowIds
    [] p.field = "val" /\ p.op = "matches" /\ p.value # Default /\ Keyed # {} ->
         MissingRows \cup IF p.value \in Keyed THEN ValueRows(p.value) ELSE {}
    [] OTHER -> RowIds

HasIndex(p) == \/ p.field \in {"name", "kind"} /\ p.op = "eq"
               \/ p.field = "name" /\ p.op = "matches"
               \/ p.field = "val" /\ Keyed # {}

\* IN and EXCLUDE select whole files: {} is neither of them written.
PassesPath(q, path) == q.in = {} \/ path \in q.in

BuildCandidates(q) ==
  LET all == {id \in RowIds : PassesPath(q, segments[id[1]].path)}
  IN IF q.in # {} /\ ~\E p \in q.where : HasIndex(p) THEN all
     ELSE {id \in all : \A p \in q.where : id \in Proposed(p)}

\* Stage 2: no row of a shadowed file, none of a segment whose zone rules it out.
ZonePasses(rows, p) ==
  p.field = "line" => LET lines == {rows[i].line : i \in DOMAIN rows}
                      IN CASE p.op = "gt" -> Max(lines) > p.value
                           [] p.op = "lt" -> Min(lines) < p.value
                           [] OTHER -> TRUE
Candidates(q) == {id \in BuildCandidates(q) : /\ segments[id[1]].path \notin DOMAIN shadow
                                              /\ \A p \in q.where : ZonePasses(RowsOf(id[1]), p)}

-----------------------------------------------------------------------------
\* Stage 3: the candidates of a segment, read in path order.

\* A regex waits for a built row.
Late(q) == {p \in q.where : p.op = "matches"}

\* The rows of one file its postings and columns leave, of those given.
Posted(q, rows, at) ==
  {i \in at : \A p \in q.where :
     p.field = "val" /\ p.op = "eq" /\ p.value # Default /\ Posts(rows) => rows[i].val = p.value}
NarrowedRows(q, s, at) ==
  {i \in Posted(q, RowsOf(s), at) : \A p \in q.where \ Late(q) : Holds(RowsOf(s)[i], p)}

TopKKeep(k) == IF k * (OverFetch \div 2) > k THEN k * (OverFetch \div 2) ELSE k

\* What a scan has when a chooser that sheds on rank has run over rows.
Shed(q, kept, shed, k) ==
  IF Len(kept) > k * OverFetch
  THEN [kept |-> TopK(q, kept, TopKKeep(k)), shed |-> shed + Len(kept) - Min({TopKKeep(k), Len(kept)})]
  ELSE [kept |-> kept, shed |-> shed]

\* view_page_bound: the rows a page needs, or none where it cannot be chosen
\* before its rows are built.
MutViewNeed(q) == IF q.group = "none" /\ q.having = 0 /\ ~HasDuplicatePaths /\ q.limit > 0
                  THEN {q.limit} ELSE {}
ViewNeed(q) == IF /\ q.group = "none" /\ q.having = 0 /\ ~HasDuplicatePaths
                  /\ q.limit # NoLimit /\ q.limit + q.offset > 0
               THEN {q.limit + q.offset} ELSE {}

\* trim_budget: the rows the running trim keeps, or none where it may not run.
TrimBudget(q) == IF /\ q.group = "none" /\ q.having = 0 /\ ~HasDuplicatePaths
                    /\ q.offset = 0 /\ q.limit \in 0..TopKThreshold
                 THEN {q.limit} ELSE {}

OrderTravels(q) == q.order # "count"

\* page_from_row_views: every selected segment answers from its columns.
FromViews(q, ids) ==
  LET need == CHOOSE n \in ViewNeed(q) : TRUE
      scans[s \in 0..Len(segments)] ==
        IF s = 0 THEN [kept |-> <<>>, shed |-> 0, refused |-> FALSE]
        ELSE LET acc == scans[s - 1]
                 rows == RowsAt(RowsOf(s), NarrowedRows(q, s, {id[2] : id \in InSegment(ids, s)}))
                 cut == Shed(q, acc.kept \o Collapse(rows), acc.shed, need)
             IN [kept |-> cut.kept, shed |-> cut.shed,
                 refused |-> acc.refused \/ Len(cut.kept) > MaxViews]
      scan == scans[Len(segments)]
      kept == TopK(q, scan.kept, need)
  IN [kept |-> kept, shed |-> scan.shed + Len(scan.kept) - Len(kept),
      refused |-> scan.refused \/ Len(kept) > MaxRows]

\* topk_rows_of_segment, and the built rows of the segment that pass the rest.
BuiltOf(q, s, ids) ==
  LET at == NarrowedRows(q, s, {id[2] : id \in InSegment(ids, s)})
      rows == RowsAt(RowsOf(s), at)
      distinct == Collapse(rows)
      built == RowsAt(rows, {i \in DOMAIN rows : \A p \in Late(q) : Holds(rows[i], p)})
  IN IF TrimBudget(q) # {} /\ Late(q) = {} /\ OrderTravels(q)
     THEN LET k == CHOOSE n \in TrimBudget(q) : TRUE
          IN IF Cardinality(at) > k * OverFetch
             THEN [kept |-> TopK(q, distinct, TopKKeep(k)),
                   shed |-> Max({0, Len(distinct) - TopKKeep(k)})]
             ELSE [kept |-> distinct, shed |-> 0]
     ELSE [kept |-> Collapse(built), shed |-> 0]

\* page_from_built_rows, with the running trim.
FromBuilt(q, ids) ==
  LET scans[s \in 0..Len(segments)] ==
        IF s = 0 THEN [kept |-> <<>>, shed |-> 0, refused |-> FALSE]
        ELSE LET acc == scans[s - 1]
                 own == BuiltOf(q, s, ids)
                 kept == acc.kept \o own.kept
                 cut == IF TrimBudget(q) = {} THEN [kept |-> kept, shed |-> acc.shed + own.shed]
                        ELSE Shed(q, kept, acc.shed + own.shed, CHOOSE n \in TrimBudget(q) : TRUE)
             IN [kept |-> cut.kept, shed |-> cut.shed,
                 refused |-> acc.refused \/ Len(cut.kept) > MaxRows]
  IN scans[Len(segments)]

-----------------------------------------------------------------------------
\* Stage 5: apply_clauses_counted, on rows or on the rows of groups.

Passing(q, rows) ==
  RowsAt(rows, {i \in DOMAIN rows :
                  PassesPath(q, rows[i].path) /\ \A p \in q.where : Holds(rows[i], p)})

Grouped(q, rows) ==
  LET alike(i) == {j \in DOMAIN rows : Field(rows[j], q.group) = Field(rows[i], q.group)}
      counted == [i \in DOMAIN rows |->
                    [x \in Fields |-> IF x = "count" THEN Cardinality(alike(i)) ELSE rows[i][x]]]
  IN IF q.group = "none" THEN rows
     ELSE RowsAt(counted, {i \in DOMAIN rows : i = Min(alike(i))})

\* HAVING, then ORDER BY, OFFSET and LIMIT cut the page.
Paged(q, rows, shed) ==
  LET had == RowsAt(rows, {i \in DOMAIN rows : q.having = 0 \/ Field(rows[i], "count") >= q.having})
      sorted == TopK(q, had, Len(had))
      limit == IF q.limit = NoLimit THEN Len(had) ELSE q.limit
  IN [rows |-> SubSeq(sorted, q.offset + 1, Min({q.offset + limit, Len(had)})),
      total |-> Len(had) + shed, refused |-> FALSE]

\* The rows of the shadowed files, in the order of their paths.
DirtyFiles == [n \in 1..Cardinality(DOMAIN shadow) |-> shadow[InOrder(DOMAIN shadow)[n]]]

\* The dirty rows, each file narrowed by its own postings.
DirtyRows(q) ==
  FlattenSeq([n \in DOMAIN DirtyFiles |->
                RowsAt(DirtyFiles[n], Posted(q, DirtyFiles[n], DOMAIN DirtyFiles[n]))])

\* Stages 3b to 5 over what a scan left.
Finished(q, scan) ==
  LET union == scan.kept \o DirtyRows(q)
  IN IF scan.refused \/ (DOMAIN shadow # {} /\ Len(union) > MaxRows) THEN Refusal
     ELSE Paged(q, Grouped(q, Passing(q, Collapse(union))), scan.shed)

-----------------------------------------------------------------------------
\* The groupings counted from the overlay.

GroupRow(f, value, n) ==
  [x \in Fields |->
     CASE x = f -> value
       [] x = "count" -> n
       [] x = "name" /\ f # "path" -> value
       [] OTHER -> 0]

CountsExactly(p) == p.field \in {"name", "kind"} /\ p.op = "eq"

\* What every counted grouping wants of the query and the session.
CountsSuffice(q) == /\ DOMAIN shadow = {} /\ ~HasDuplicatePaths
                    /\ q.order \in {"none", "count", q.group}
                    /\ \/ q.group \in {"kind", "val"} /\ q.where = {}
                       \/ q.group = "path" /\ \A p \in q.where : CountsExactly(p)

SelectedSegments(q) == {s \in DOMAIN segments : PassesPath(q, segments[s].path)}
SelectedRows(q) == {id \in Canonical : id[1] \in SelectedSegments(q)}

\* fast_group_by_file: the rows a file has, or its share of the postings.
FileGroups(q) ==
  {GroupRow("path", segments[s].path,
            Cardinality({id \in InSegment(Canonical, s) : \A p \in q.where : id \in Proposed(p)})) :
     s \in SelectedSegments(q)}

\* fast_group_by_kind: the kinds partition the rows, the empty one included.
KindGroups(q) ==
  {GroupRow("kind", At(id).kind, Cardinality(KindRows(At(id).kind) \cap SelectedRows(q))) :
     id \in SelectedRows(q)}

\* fast_group_by_enrichment: the rows without a value are what the default
\* speaks for, and the rest.
ValueGroups(q) ==
  LET of(v) == ValueRows(v) \cap SelectedRows(q)
      stored == UNION {of(v) : v \in Keyed}
      spoken == {id \in SelectedRows(q) : At(id).kind \in Applicable} \ stored
  IN {GroupRow("val", v, Cardinality(of(v))) : v \in Keyed}
       \cup {GroupRow("val", Default, Cardinality(spoken)),
             GroupRow("val", 0, Cardinality((SelectedRows(q) \ stored) \ spoken))}

\* Where the counts of val are not the groups.
MutValueDeclines(q) == Keyed = {} \/ \E k \in Applicable : KindRows(k) = {}
ValueDeclines(q) == \/ Keyed = {}
                    \/ \E s \in SelectedSegments(q) : PostsPartially(RowsOf(s))
                    \/ \E k \in Applicable : KindRows(k) = {}

CountedGroups(q) ==
  LET rows == CASE q.group = "path" -> FileGroups(q)
                [] q.group = "kind" -> KindGroups(q)
                [] q.group = "val" -> ValueGroups(q)
  IN Paged(q, SetToSeq({r \in rows : r.count > 0}), 0)

-----------------------------------------------------------------------------
\* The name streams, which stop when they have rows enough for the page.

KindEq(p) == p.field = "kind" /\ p.op = "eq"

\* The shapes they serve: no filter, or one kind under an ORDER BY name.
Streams(q) ==
  /\ q.limit # NoLimit /\ q.group = "none" /\ q.in = {} /\ q.having = 0
  /\ q.order = "name" \/ (q.order = "none" /\ q.where = {})
  /\ \E P \in {{}} \cup {{p} : p \in {r \in q.where : KindEq(r)}} : q.where = P
  /\ DOMAIN shadow # {} => q.where = {} /\ ~q.descending
  /\ \A p \in q.where : KindRows(p.value) # {}

StreamNeed(q) == Max({1, Max({0, q.limit}) + q.offset})

\* The overlay's rows of it, those of shadowed files masked, and the dirty ones.
StreamRows(q) ==
  LET ids == {id \in Canonical : /\ segments[id[1]].path \notin DOMAIN shadow
                                 /\ \A p \in q.where : id \in KindRows(p.value)}
  IN FlattenSeq([s \in DOMAIN segments |-> RowsAt(RowsOf(s), {id[2] : id \in InSegment(ids, s)})])
       \o FlattenSeq(DirtyFiles)

\* stream_names_asc: every row of a name is read before the budget is asked.
Ascending(rows, need) ==
  LET upTo(n) == RowsAt(rows, {i \in DOMAIN rows : rows[i].name <= n})
      enough == {rows[i].name : i \in {j \in DOMAIN rows : Len(upTo(rows[j].name)) >= need}}
  IN IF enough = {} THEN rows ELSE upTo(Min(enough))

\* HeapEntry: which row a descending stream drops before which.  Rows of one
\* name, line and path tie, and either may go.
DropsBefore(a, b) == \/ a.name < b.name
                     \/ a.name = b.name /\ a.line > b.line
                     \/ a.name = b.name /\ a.line = b.line /\ a.path > b.path
Descending(rows, need) ==
  {RowsAt(rows, at) : at \in {k \in kSubset(Min({need, Len(rows)}), DOMAIN rows) :
     \A i \in k, j \in DOMAIN rows \ k : ~DropsBefore(rows[i], rows[j])}}

\* dirty_distinct_total with the masked counts of the overlay.
MutMatched(q) == Len(StreamRows(q))
Matched(q) == Len(Collapse(StreamRows(q)))

\* The pages a stream has to offer: none, where collapsing leaves it short.
Streamed(q) ==
  LET need == StreamNeed(q)
      rows == StreamRows(q)
  IN {[Paged(q, Collapse(s), 0) EXCEPT !.total = Matched(q)] :
        s \in {t \in IF q.descending THEN Descending(rows, need) ELSE {Ascending(rows, need)} :
               ~(Len(Collapse(t)) < Len(t) /\ Len(t) >= need)}}

-----------------------------------------------------------------------------
FindInit ==
  /\ \E c \in Corpora : segments = c.segments /\ shadow = c.shadow
  /\ query = [none |-> TRUE]
  /\ answer = [route |-> "none"]

Answers(q, route, page) ==
  /\ query' = q
  /\ answer' = [route |-> route, rows |-> page.rows, total |-> page.total, refused |-> page.refused]
  /\ UNCHANGED <<segments, shadow>>

Groups(q) == q.group # "none" /\ CountsSuffice(q) /\ (q.group = "val" => ~ValueDeclines(q))
StreamsWhole(q) == /\ Streams(q) /\ ~HasDuplicatePaths /\ StreamNeed(q) <= MaxRows
                   /\ Streamed(q) # {}

FindCounted(q) == Groups(q) /\ Answers(q, "counted", CountedGroups(q))

FindStreamed(q) ==
  /\ ~Groups(q) /\ StreamsWhole(q)
  /\ \E page \in Streamed(q) : Answers(q, "streamed", page)

\* The pipeline, over row views where every candidate can travel as one.
TravelsAsViews(q) == /\ ViewNeed(q) # {} /\ OrderTravels(q)
                     /\ Late(q) = {} \/ Candidates(q) = {}

FindScanned(q) ==
  /\ ~Groups(q) /\ ~StreamsWhole(q)
  /\ LET ids == Candidates(q)
     IN \/ Cardinality(ids) > MaxRowIds /\ Answers(q, "refused", Refusal)
        \/ /\ Cardinality(ids) <= MaxRowIds /\ TravelsAsViews(q)
           /\ Answers(q, "views", Finished(q, FromViews(q, ids)))
        \/ /\ Cardinality(ids) <= MaxRowIds /\ ~TravelsAsViews(q)
           /\ Answers(q, "built", Finished(q, FromBuilt(q, ids)))

FindNext == /\ ~Asked
            /\ \E q \in Queries : FindCounted(q) \/ FindStreamed(q) \/ FindScanned(q)

FindSpec == FindInit /\ [][FindNext]_findVars

-----------------------------------------------------------------------------
\* What a session has: the rows of its overlay, but for the shadowed files,
\* and of its dirty overlay.
Live == FlattenSeq([s \in DOMAIN segments |->
                      IF segments[s].path \in DOMAIN shadow THEN <<>> ELSE RowsOf(s)])
          \o FlattenSeq(DirtyFiles)

\* What the query asks of them: rows that pass, of those alike the first.
Matching == LET rows == Passing(query, Live) IN {rows[i] : i \in Firsts(rows)}

\* Rows alike with different values of val, of which a WHERE on val may see
\* either: segments post one of them (overlay_builder.rs, step 5).
Twins == \E p \in query.where : p.field = "val" /\ \E i, j \in DOMAIN Live :
           SameRow(Live[i], Live[j]) /\ Live[i].val # Live[j].val

\* Rows of one name, line and path, which a descending stream does not order.
Tied == answer.route = "streamed" /\ query.descending
          /\ \E a, b \in Matching : a # b /\ \A f \in {"name", "line", "path"} : a[f] = b[f]

Served == Asked /\ ~answer.refused /\ ~Twins /\ ~Tied

\* Whichever route answers a query without GROUP BY, the streams that stop
\* early, the scan that sheds rows as it goes over segments, over row views or
\* over built rows, or the dirty rows merged in: its page has the rows that
\* match, each at its rank in the order of the query, from OFFSET on for LIMIT
\* rows, and no row twice (query/find.rs; filter.rs, order_cmp, which calls
\* itself the single source of truth for every ordering).
PageExact ==
  Served /\ query.group = "none" =>
    LET rows == IF query.having = 0 THEN Matching ELSE {}
        left == Max({0, Cardinality(rows) - query.offset})
    IN /\ Len(answer.rows) = IF query.limit = NoLimit THEN left ELSE Min({query.limit, left})
       /\ \A i \in DOMAIN answer.rows :
            /\ answer.rows[i] \in rows
            /\ Cardinality({r \in rows : Before(query, r, answer.rows[i])}) = query.offset + i - 1

\* The groups of the rows that match, of those HAVING leaves.
MatchingGroups ==
  LET of(v) == {r \in Matching : Field(r, query.group) = v}
  IN {g \in {[value |-> v, count |-> Cardinality(of(v))] :
               v \in {Field(r, query.group) : r \in Matching}} : g.count >= query.having}

\* A GROUP BY, counted from the postings of the overlay without reading a row
\* or from the rows themselves, answers with groups of the rows that match,
\* each with its count, in the order the query wants of counts or values; the
\* order of groups alike in that, or by another field, is not promised
\* (fast_paths.rs).
GroupsExact ==
  Served /\ query.group # "none" =>
    LET left == Max({0, Cardinality(MatchingGroups) - query.offset})
        group(r) == [value |-> Field(r, query.group), count |-> r.count]
        key(x) == IF query.order = "count" THEN x.count ELSE x.value
        better(g, h) == /\ query.order \in {"count", query.group}
                        /\ IF query.descending THEN key(g) > key(h) ELSE key(g) < key(h)
    IN /\ Len(answer.rows) = IF query.limit = NoLimit THEN left ELSE Min({query.limit, left})
       /\ \A i, j \in DOMAIN answer.rows : i # j => group(answer.rows[i]) # group(answer.rows[j])
       /\ \A i \in DOMAIN answer.rows :
            LET g == group(answer.rows[i])
            IN /\ g \in MatchingGroups
               /\ Cardinality({h \in MatchingGroups : better(h, g)}) < query.offset + i
               /\ query.offset + i <= Cardinality({h \in MatchingGroups : ~better(g, h)})

\* The total beside the page is the number of rows, or groups, that match,
\* though a scan that sheds rows and a stream that stops early have not
\* counted them all (find.rs, FindPage).
TotalExact ==
  Served => answer.total = IF query.group # "none" THEN Cardinality(MatchingGroups)
                           ELSE IF query.having = 0 THEN Cardinality(Matching) ELSE 0
=============================================================================
