--------------------------- MODULE MCSessionIndex ---------------------------
(***************************************************************************)
(* The index of a session, for TLC in one run: the overlays of its files   *)
(* and of the commits (SessionIndex), the handles in one of its files      *)
(* (NodeHandles), or the queries over it (FindSymbols); part says whose    *)
(* behaviour it is.  They share no state.                                  *)
(***************************************************************************)
EXTENDS SessionIndex, NodeHandles, FindSymbols, TLC

CONSTANT MaxStart   \* bound: constructs in the file at first

VARIABLE part
sessionVars == <<indexVars, handleVars, findVars, part>>

\* The paths are alike, and so are the contents of a file, and the guards of a
\* construct.  Its names and texts are too: the values of one part stand for
\* those of the other, so that one permutation serves both.
ASSUME Names = Paths /\ Texts = Contents
SessionSymmetry == UNION {Permutations(S) : S \in {Paths, Contents, Guards}}

-----------------------------------------------------------------------------
\* The rows of a file: none; one; two; a duplicate; one row with two values of
\* val; two kinds of one name and line; and three.
RowOfFile(n, k, p, l, v) == [name |-> n, kind |-> k, path |-> p, line |-> l, val |-> v]
FileRows(p) ==
  {<<>>,
   <<RowOfFile(1, 1, p, 1, 2)>>,
   <<RowOfFile(1, 1, p, 1, 2), RowOfFile(2, 2, p, 2, 0)>>,
   <<RowOfFile(2, 1, p, 1, 0), RowOfFile(2, 1, p, 1, 0)>>,
   <<RowOfFile(1, 1, p, 1, 2), RowOfFile(1, 1, p, 1, 3)>>,
   <<RowOfFile(1, 1, p, 1, 0), RowOfFile(1, 2, p, 1, 3)>>,
   <<RowOfFile(3, 1, p, 1, 0), RowOfFile(2, 1, p, 2, 2), RowOfFile(1, 2, p, 3, 2)>>}
SegmentsOf(p) == {[path |-> p, rows |-> rows] : rows \in FileRows(p)}

\* Two files in every pair, both clean, one changed or the other deleted; and
\* two segments of one file.
NoShadow == [p \in {} |-> <<>>]
MCCorpora ==
  {[segments |-> <<s, t>>, shadow |-> d] : s \in SegmentsOf(1), t \in SegmentsOf(2),
     d \in {NoShadow, 1 :> <<RowOfFile(2, 1, 1, 2, 3), RowOfFile(2, 1, 1, 2, 3)>>, 2 :> <<>>}}
  \cup {[segments |-> <<s, t>>, shadow |-> NoShadow] : s \in SegmentsOf(1), t \in SegmentsOf(1)}

Where(f, o, v) == [field |-> f, op |-> o, value |-> v]
Ordering == {[order |-> "none", descending |-> FALSE]}
            \cup [order : {"name", "val", "line", "path", "kind", "count"}, descending : BOOLEAN]
Asking(where, in, group, having, by, limit, offset) ==
  [where |-> where, in |-> in, group |-> group, having |-> having, limit |-> limit, offset |-> offset] @@ by

\* A page of every shape; HAVING and the orders no view carries; the groups.
MCQueries ==
  {Asking(w, in, "none", 0, by, limit, offset) :
     w \in {{}, {Where("name", "eq", 2)}, {Where("kind", "eq", 1)}, {Where("val", "eq", 1)},
            {Where("val", "eq", 3)}, {Where("line", "gt", 1)}, {Where("name", "matches", 1)},
            {Where("val", "ne", 2)}, {Where("kind", "eq", 1), Where("val", "matches", 3)}},
     in \in {{}, {1}},
     by \in {b \in Ordering : b.order \in {"none", "name", "val", "line"}},
     limit \in {NoLimit, 1, 2}, offset \in {0, 1}}
  \cup {Asking(w, {}, "none", having, by, 1, 0) :
          w \in {{}, {Where("kind", "eq", 1)}}, having \in {0, 1},
          by \in {b \in Ordering : b.order \in {"none", "path", "count"}}}
  \cup UNION {{Asking(w, in, group, having, by, limit, 0) :
                 w \in {{}, {Where("name", "eq", 2)}, {Where("val", "eq", 3)}}, in \in {{}, {1}},
                 having \in {0, 2}, by \in {b \in Ordering : b.order \in {"none", "count", group}},
                 limit \in {NoLimit, 1}} : group \in {"path", "kind", "val"}}

-----------------------------------------------------------------------------
\* One file is there at first, the other is not.  A part that does not run has
\* no file, and no row, at all.
SessionInit ==
  /\ part \in {"index", "handles", "find"}
  /\ IndexInit /\ HandlesInit /\ Len(lines) <= MaxStart
  /\ LET present == {p \in Paths : commits[1].tree[p] # Absent}
     IN /\ IF part = "index" THEN Cardinality(present) = 1 ELSE present = {}
        /\ part # "handles" => lines = <<>> /\ base = NoSegment
  /\ IF part = "find" THEN FindInit
     ELSE /\ segments = <<>> /\ shadow = NoShadow
          /\ query = [none |-> TRUE] /\ answer = [route |-> "none"]

SessionNext ==
  /\ UNCHANGED part
  /\ \/ part = "index" /\ IndexNext /\ UNCHANGED <<handleVars, findVars>>
     \/ part = "handles" /\ HandlesNext /\ UNCHANGED <<indexVars, findVars>>
     \/ part = "find" /\ FindNext /\ UNCHANGED <<indexVars, handleVars>>

SessionSpec == SessionInit /\ [][SessionNext]_sessionVars

=============================================================================
