----------------------------- MODULE NodeHandles -----------------------------
(***************************************************************************)
(* What a node handle n<path>.<ordinal> means while a session edits the    *)
(* file (crates/forgeql-core/src): the ordinals a re-index hands out       *)
(* (ast/index/file_indexer/ordinals.rs, rows.rs), the segments it takes    *)
(* them from and puts them into (columnar_storage/query/reindex.rs), the   *)
(* tombstones of the removing verbs (engine/exec_change/), UNDO, ROLLBACK, *)
(* and how a handle is resolved (columnar_storage/query/node_lookup.rs).   *)
(*                                                                         *)
(* One file of one session, from an attach to the next.  A construct takes *)
(* one line and the lines of those nested in it, which nest no further.    *)
(* Its name stands for name and kind, its guard for group and branch, its  *)
(* text for what its own line says; the fingerprint of a body is the first *)
(* construct in it.  The file is only written through the session: changes *)
(* behind its back, COMMIT, which keeps the dirty segment, and the files   *)
(* as a whole are in module SessionIndex.                                  *)
(*                                                                         *)
(* The id of a construct and last are history.  A definition whose name    *)
(* starts with Mut is the one after it with a plausible bug, and is not    *)
(* part of the specification.                                              *)
(***************************************************************************)
EXTENDS Integers, FiniteSets, FiniteSetsExt, SequencesExt

CONSTANTS Names, Guards, Texts,
          NoSegment,   \* a file without one, a BEGIN that was not
          MaxLines,    \* bound: constructs in the file
          MaxSweep,    \* bound: handles in one removal
          MaxEdits     \* bound: edits, and BEGIN

ASSUME NodeHandlesAssumption == {MaxLines, MaxSweep, MaxEdits} \subseteq Nat

VARIABLES
  lines,     \* the constructs of the file, in order, and in each whether it
             \* is nested in the one before that is not
  base,      \* the segment of the file in the master overlay, or NoSegment
  segment,   \* its dirty segment, or NoSegment
  saved,     \* the staged segments
  ring,      \* the undo ring, LAST-0 first: the lines, and history: the
             \* dirty segment they had, unless a ROLLBACK collected it
  begun,     \* what BEGIN saved
  edits,     \* counts the edits, and BEGIN
  last       \* history: what the last command did

handleVars == <<lines, base, segment, saved, ring, begun, edits, last>>

RingSize == 10
Root == -1                   \* the parent ordinal u32::MAX
Ordinals == 0..(MaxLines + (MaxLines + 1) * MaxEdits)

Construct == [name : Names, guard : Guards, text : Texts, nested : BOOLEAN]
Line == [id : Nat, name : Names, guard : Guards, text : Texts, nested : BOOLEAN]

\* What is compared of a construct, and a row of a segment.
Key == [name : Names, guard : Guards, body : {<<>>} \cup (Names \X Texts), hash : Seq(Names \X Texts)]
HandleRow == [key : Key, parent : Int, ord : Nat]

ASSUME NoSegmentAssumption == NoSegment \notin Seq(HandleRow) \cup [lines : Seq(Line), dirty : BOOLEAN]

\* The construct on line i of f: the lines it spans, and where its parent is.
Span(f, i) == {k \in i..Len(f) : \A j \in (i + 1)..k : f[j].nested /\ ~f[i].nested}
ParentOf(f, i) == Max({j \in 1..i : ~f[j].nested})

\* What the walk computes of it.
Content(f, i) == [k \in 1..Cardinality(Span(f, i)) |->
                    <<f[i + k - 1].name, f[i + k - 1].text>>]
KeyOf(f, i) == [name |-> f[i].name, guard |-> f[i].guard,
                body |-> IF Cardinality(Span(f, i)) > 1 THEN Content(f, i)[2] ELSE <<>>,
                hash |-> Content(f, i)]
Parsed(f) == [i \in 1..Len(f) |-> KeyOf(f, i)]

\* A segment is the rows of the file, in order.
Keys(rows) == [i \in 1..Len(rows) |-> rows[i].key]
OrdinalsOf(rows) == {rows[i].ord : i \in 1..Len(rows)}

-----------------------------------------------------------------------------
\* OrdinalRemapper.  The hints are the rows of the segment before.

NextOrdinal(hints) == Max({o + 1 : o \in OrdinalsOf(hints)} \cup {0})

\* One filter of assign: it applies to a choice, and must leave one.
Narrowed(among, agrees(_)) ==
  LET left == {h \in among : agrees(h)}
  IN IF Cardinality(among) > 1 /\ left # {} THEN left ELSE among

MutMatches(hints, used, key, parent) ==
  LET there == {h \in 1..Len(hints) : /\ h \notin used /\ hints[h].parent = parent
                                      /\ hints[h].key.name = key.name}
      bodied == IF key.body = <<>> THEN there
                ELSE Narrowed(there, LAMBDA h : hints[h].key.body = key.body)
  IN Narrowed(bodied, LAMBDA h : hints[h].key.hash = key.hash)
Matches(hints, used, key, parent) ==
  LET there == {h \in 1..Len(hints) : /\ h \notin used /\ hints[h].parent = parent
                                      /\ hints[h].key.name = key.name}
      guarded == Narrowed(there, LAMBDA h : hints[h].key.guard = key.guard)
      bodied == IF key.body = <<>> THEN guarded
                ELSE Narrowed(guarded, LAMBDA h : hints[h].key.body = key.body)
  IN Narrowed(bodied, LAMBDA h : hints[h].key.hash = key.hash)

\* assign, at the construct on line i: the rows so far, the hints that are
\* used and the next ordinal after w.
Assign(f, hints, w, i) ==
  LET parent == IF f[i].nested THEN w.rows[ParentOf(f, i)].ord ELSE Root
      best == Matches(hints, w.used, KeyOf(f, i), parent)
      h == CHOOSE b \in best : \A c \in best : hints[b].ord <= hints[c].ord
      row(o) == Append(w.rows, [key |-> KeyOf(f, i), parent |-> parent, ord |-> o])
  IN IF best # {}
     THEN [rows |-> row(hints[h].ord), used |-> w.used \cup {h}, next |-> w.next]
     ELSE [rows |-> row(w.next), used |-> w.used, next |-> w.next + 1]

\* At each construct in the order of the walk; the hints of the ordinals in
\* retired are used from the start.
Tombstone(hints, retired) == {h \in 1..Len(hints) : hints[h].ord \in retired}

Assigned(f, hints, retired) ==
  LET walk[i \in 0..Len(f)] ==
        IF i = 0
        THEN [rows |-> <<>>, used |-> Tombstone(hints, retired), next |-> NextOrdinal(hints)]
        ELSE Assign(f, hints, walk[i - 1], i)
  IN walk[Len(f)].rows

\* The segment a query, and the next re-index, takes the file from.
Rows == IF segment # NoSegment THEN segment ELSE base

\* reindex_files: a segment staged for the same path and bytes is taken as it
\* is, unless there are tombstones.
Staged(f) == {rows \in saved : Keys(rows) = Parsed(f)}
MutReusable(f, retired) == {}
MutReusableAlways(f, retired) == Staged(f)
Reusable(f, retired) == IF retired = {} THEN Staged(f) ELSE {}

TakenIn(f, retired, removed, edit) ==
  LET reused == Reusable(f, retired)
      rows == IF reused # {} THEN CHOOSE r \in reused : TRUE ELSE Assigned(f, Rows, retired)
  IN /\ segment' = rows
     /\ saved' = (saved \ Staged(f)) \cup {rows}
     /\ last' = [built |-> reused = {}, edit |-> edit, removed |-> removed,
                 retired |-> retired \cap OrdinalsOf(Rows)]

-----------------------------------------------------------------------------
\* find_node: the dirty segment, by the ordinal; else the row of the master,
\* and for a file that was re-indexed, the nearest row with its name.

LineOf(rows, o) == CHOOSE i \in 1..Len(rows) : rows[i].ord = o

NearestNamed(name, i) ==
  LET named == {k \in 1..Len(segment) : segment[k].key.name = name}
      gap(k) == Max({k - i, i - k})
  IN {k \in named : \A j \in named : gap(k) < gap(j) \/ (gap(k) = gap(j) /\ k <= j)}

\* The line a handle resolves to, or none.
Resolved(o) ==
  IF o \in OrdinalsOf(Rows) THEN {LineOf(Rows, o)}
  ELSE IF segment # NoSegment /\ base # NoSegment /\ o \in OrdinalsOf(base)
  THEN NearestNamed(base[LineOf(base, o)].key.name, LineOf(base, o))
  ELSE {}

Handles == OrdinalsOf(Rows) \cup (IF base = NoSegment THEN {} ELSE OrdinalsOf(base))

\* root_ordinals_within: the constructs at the root that lines ls span whole.
RootsWithin(ls) == {Rows[i].ord : i \in {k \in ls : Rows[k].parent = Root /\ Span(lines, k) \subseteq ls}}

-----------------------------------------------------------------------------

Command == edits < MaxEdits /\ edits' = edits + 1

\* exec_mutation and apply_plan: the file becomes f, the index takes it in, and
\* the bytes from before go to the undo ring.
Edited(f, retired, removed) ==
  /\ Command
  /\ lines' = f
  /\ TakenIn(f, retired, removed, TRUE)
  /\ ring' = SubSeq(<<[lines |-> lines, rows |-> segment]>> \o ring, 1,
                    Min({RingSize, Len(ring) + 1}))
  /\ UNCHANGED <<base, begun>>

Without(f, ls) == LET kept == {i \in 1..Len(f) : i \notin ls}
                  IN [k \in 1..Cardinality(kept) |->
                        f[CHOOSE i \in kept : Cardinality({j \in kept : j <= i}) = k]]

\* A construct goes before line i, or at the end, of f.
Fits(f, i, nested) == IF nested THEN i > 1 ELSE i \in 1..Len(f) => ~f[i].nested
Inserted(f, i, new) == SubSeq(f, 1, i - 1) \o new \o SubSeq(f, i, Len(f))

\* DELETE NODE, CHANGE NODE WITH '', and the sweeps of FOUND that remove.
DeleteNodes(handles) ==
  LET gone == UNION {UNION {Span(lines, i) : i \in Resolved(o)} : o \in handles}
  IN /\ \A o \in handles : Resolved(o) # {}
     /\ Edited(Without(lines, gone),
               UNION {RootsWithin(UNION {Span(lines, i) : i \in Resolved(o)}) : o \in handles},
               handles)

\* CHANGE NODE, of the line of the construct itself.
ChangeNode(o, name, text) ==
  \E i \in Resolved(o) :
    /\ <<name, text>> # <<lines[i].name, lines[i].text>>
    /\ Edited([lines EXCEPT ![i].name = name, ![i].text = text], {}, {})

\* INSERT BEFORE, INSERT AFTER NODE, and CHANGE NODE by a body with one more.
InsertNode(i, name, guard, text, nested) ==
  /\ Len(lines) < MaxLines
  /\ Fits(lines, i, nested)
  /\ Edited(Inserted(lines, i, <<[id |-> MaxLines + edits + 1, name |-> name, guard |-> guard,
                                  text |-> text, nested |-> nested]>>), {}, {})

\* MOVE NODE, to before line j of the lines that stay.
MoveNode(o, j) ==
  \E i \in Resolved(o) :
    LET span == Span(lines, i)
        stay == Without(lines, span)
    IN /\ j \in 1..(Len(stay) + 1) \ {i}
       /\ Fits(stay, j, lines[i].nested)
       /\ Edited(Inserted(stay, j, SubSeq(lines, i, Max(span))), {o}, {})

\* UNDO LAST-(n - 1), where it rewrites the file.
Undo(n) ==
  /\ n \in 1..Len(ring)
  /\ Parsed(ring[n].lines) # Parsed(lines)
  /\ Command
  /\ lines' = ring[n].lines
  /\ TakenIn(lines', {}, {}, FALSE)
  /\ UNCHANGED <<base, ring, begun>>

\* BEGIN TRANSACTION saves the delta; ROLLBACK resets the file, collects what
\* that delta does not name, and loads it.
Begin ==
  /\ begun = NoSegment
  /\ Command
  /\ begun' = [lines |-> lines, dirty |-> segment # NoSegment]
  /\ UNCHANGED <<lines, base, segment, saved, ring, last>>

RollbackFile ==
  /\ begun # NoSegment
  /\ lines' = begun.lines
  /\ saved' = IF begun.dirty THEN Staged(lines') ELSE {}
  /\ segment' = IF begun.dirty THEN CHOOSE rows \in saved' : TRUE ELSE NoSegment
  /\ ring' = [n \in 1..Len(ring) |-> [ring[n] EXCEPT !.rows = NoSegment]]
  /\ begun' = NoSegment
  /\ last' = [built |-> FALSE, edit |-> FALSE, removed |-> {}, retired |-> {}]
  /\ UNCHANGED <<base, edits>>

\* The session begins over an overlay that has the file, or with a file it
\* has created: a walk without hints numbers the constructs in order.
HandlesInit ==
  /\ \E n \in 0..MaxLines : \E c \in [1..n -> Construct] :
       lines = [i \in 1..n |-> [id |-> i, name |-> c[i].name, guard |-> c[i].guard,
                                text |-> c[i].text, nested |-> c[i].nested]]
  /\ lines # <<>> => ~lines[1].nested
  /\ LET rows == Assigned(lines, <<>>, {})
     IN \/ base = rows /\ segment = NoSegment /\ saved = {}
        \/ base = NoSegment /\ segment = rows /\ saved = {rows}
  /\ ring = <<>>
  /\ begun = NoSegment
  /\ edits = 0
  /\ last = [built |-> FALSE, edit |-> FALSE, removed |-> {}, retired |-> {}]

HandlesNext ==
  \/ \E n \in 1..MaxSweep : \E handles \in kSubset(n, Handles) : DeleteNodes(handles)
  \/ \E o \in Handles, name \in Names, text \in Texts : ChangeNode(o, name, text)
  \/ \E i \in 1..(Len(lines) + 1), name \in Names, guard \in Guards, text \in Texts,
        nested \in BOOLEAN : InsertNode(i, name, guard, text, nested)
  \/ \E o \in Handles, j \in 1..MaxLines : MoveNode(o, j)
  \/ \E n \in 1..Len(ring) : Undo(n)
  \/ Begin
  \/ RollbackFile

HandlesSpec == HandlesInit /\ [][HandlesNext]_handleVars

-----------------------------------------------------------------------------

\* Reads and writes agree on the file: the rows a handle is looked up in are
\* those of the bytes on disk, and the ones the next attach would load.
RowsCurrent ==
  /\ Keys(Rows) = Parsed(lines)
  /\ segment # NoSegment => Staged(lines) = {segment}

\* No two constructs of a segment share a handle.
HandlesUnique ==
  \A rows \in saved \cup {Rows} : \A i, k \in 1..Len(rows) : rows[i].ord = rows[k].ord => i = k

\* "The retired ordinal is never reissued", by the re-index it was retired for:
\* that of a construct.  What MOVE NODE retires is the ordinal in the handle,
\* which, if stale, is that of no construct.
RetiredNotReissued == OrdinalsOf(Rows) \cap last.retired = {}

\* The type invariant, and what every command leaves of the index of the file.
HandlesSound ==
  /\ edits \in 0..MaxEdits /\ Len(lines) <= MaxLines /\ Len(ring) <= RingSize
  /\ \A i \in 1..Len(lines) : lines[i] \in Line
  /\ \A rows \in saved \cup {Rows} : \A i \in 1..Len(rows) :
       rows[i].ord \in Ordinals /\ rows[i].parent \in Ordinals \cup {Root}
  /\ RowsCurrent
  /\ HandlesUnique
  /\ RetiredNotReissued

\* Is the construct on line m of the file told from its old siblings of that
\* name, whose hints live on?
Settled(m) ==
  \E j \in 1..Len(lines) :
    LET old == Rows[j]
        new == segment'[m]
        alike == {h \in 1..Len(lines) \ {j} : /\ Rows[h].parent = old.parent
                                              /\ Rows[h].key.name = old.key.name
                                              /\ Rows[h].key.guard = old.key.guard
                                              /\ Rows[h].ord \notin last'.retired}
    IN /\ lines[j].id = lines'[m].id
       /\ old.parent = new.parent /\ old.ord \notin last'.retired
       /\ old.key.name = new.key.name /\ old.key.guard = new.key.guard
       /\ alike = {} \/ (new.key = old.key /\ \A h \in alike : Rows[h].key # old.key)

\* "Edit one function and every other handle in the file must still resolve": a
\* re-index leaves a construct its ordinal if it and its siblings of that name
\* are settled.
KeepsHandles ==
  [][last'.built =>
       \A i \in 1..Len(lines), k \in 1..Len(lines') :
         /\ lines[i].id = lines'[k].id
         /\ \A m \in 1..Len(lines') : (/\ segment'[m].parent = segment'[k].parent
                                       /\ segment'[m].key.name = segment'[k].key.name) => Settled(m)
         => segment'[k].ord = Rows[i].ord]_handleVars

\* UNDO of an edit, of a file that had been re-indexed, gives every construct
\* its handle back, short of a ROLLBACK or an UNDO in between.
UndoRestores ==
  [][Undo(1) /\ last.edit /\ ring[1].rows # NoSegment => segment' = ring[1].rows]_handleVars

\* "When a node is removed, its handle is retired - it never transfers to a
\* look-alike."
RemovedHandleIsDead == \A o \in last.removed : Resolved(o) = {}

=============================================================================
