------------------------- MODULE SessionIndexProofs -------------------------
(***************************************************************************)
(* Theorems about the index of a session (module SessionIndex), for any    *)
(* paths and contents and any bounds: a query is answered from the rows of *)
(* the files, a stamp vouches for them, the delta file gives the overlay   *)
(* back, and the artefacts of a commit tell its files.                     *)
(*                                                                         *)
(* The inductive invariant IndexInv says, of every set of changes that is  *)
(* kept somewhere, in memory (Awake), in the worktree of a session that    *)
(* left memory (Asleep), in a checkpoint (Committed), in the store         *)
(* (Manifests), for which master it speaks and what it then tells.         *)
(***************************************************************************)
EXTENDS SessionIndex, SequenceTheorems, WellFoundedInduction, TLAPS

-----------------------------------------------------------------------------
\* The inductive invariant.

\* The master of d is known, and is there in the generation of d; what d says
\* it replaces, it adds and hides.
Sound(d) == /\ d.of \in 1..Len(commits)
            /\ d.gen <= generation
            /\ d.gen = generation => overlay[d.of] # None
            /\ d.repl \subseteq Added(d) \cap d.removed

\* The rows of p are in one segment.
OnePlace(d, tree, p) == d.added[p] # Absent => p \in d.removed \/ tree[p] = Absent

\* What d names it says of the files wt, short of the odd paths.
Agrees(d, wt, odd) == \A p \in Named(d) \ odd : wt[p] = d.added[p]

\* d over its master tells the files wt, short of the unseen and the mixed.
Answers(d, wt, u, m) ==
  d.gen = generation => /\ \A p \in Paths \ (u \cup m) : Tells(d, overlay[d.of], p, wt[p])
                        /\ \A p \in Paths \ m : OnePlace(d, overlay[d.of], p)

\* m is the master over which an attach to c would take a delta that stays.
Serving(c, m) == IF overlay[c] # None THEN m = c ELSE chain[c] # None => m = chain[c].of

Manifests ==
  \A c \in CommitIds : /\ overlay[c] # None \/ chain[c] # None => c \in 1..Len(commits)
                       /\ chain[c] # None => chain[c].gen = generation /\ Sound(chain[c])

CommittedAt(c) ==
  LET d == commits[c].delta
      odd == commits[c].unseen \cup commits[c].mixed
  IN d # None =>
       /\ Sound(d)
       /\ Agrees(d, commits[c].tree, odd)
       /\ Answers(d, commits[c].tree, commits[c].unseen, commits[c].mixed)
       /\ \A p \in Paths \ (odd \cup Named(d) \cup blind.overlay[d.of]) :
            commits[d.of].tree[p] = commits[c].tree[p]
Committed == \A c \in 1..Len(commits) : CommittedAt(c)

Stacked ==
  \A k \in 1..Len(stack) : /\ {stack[k].oid, stack[k].pre} \subseteq 1..Len(commits)
                           /\ commits[stack[k].oid].delta # None

Placed == /\ live => there
          /\ there => head # 0 /\ idx # 0
          /\ delta # None => Sound(delta)

Awake ==
  live => /\ Sound(dirty) /\ dirty.gen = generation
          /\ Queued(delta, staging) \subseteq mixed
          /\ \A p \in Paths \ mixed : OnePlace(dirty, Master, p)
          /\ delta # None /\ delta.gen = generation /\ Serving(head, delta.of) =>
               delta.of = dirty.of \/ mixed = Paths

Asleep ==
  there /\ ~live /\ delta # None =>
    /\ Agrees(delta, files, unseen \cup mixed)
    /\ Serving(head, delta.of) => Answers(delta, files, unseen, mixed)

IndexInv ==
  /\ IndexTypeOK
  /\ Manifests /\ Committed /\ Stacked /\ Placed /\ Awake /\ Asleep
  /\ SessionExact /\ StampsVouch /\ DeltaRestores /\ ArtefactsExact

-----------------------------------------------------------------------------
\* Sets of changes.

LEMMA TellsMeans ==
  ASSUME NEW ch, NEW tree, NEW p, NEW content
  PROVE  Tells(ch, tree, p, content) <=>
           \/ ch.added[p] = content /\ (p \in ch.removed \/ tree[p] = Absent)
           \/ ch.added[p] = Absent /\ content = (IF p \in ch.removed THEN Absent ELSE tree[p])
BY DEF Tells

LEMMA NoChangesType ==
  ASSUME NEW c \in CommitIds, generation \in 0..MaxChanges
  PROVE  /\ NoChanges(c) \in Changes
         /\ Added(NoChanges(c)) = {} /\ Named(NoChanges(c)) = {}
         /\ \A p \in Paths : NoChanges(c).added[p] = Absent
BY DEF NoChanges, Changes, Trees, NoFiles, Added, Named

\* Over the paths of q a re-index tells the files, in one segment for each; what
\* it makes, with the segments it stages, is restored as it is.
LEMMA ReindexedChanges ==
  ASSUME NEW ch \in Changes, NEW tree \in Trees, NEW wt \in Trees, NEW q \in SUBSET Paths
  PROVE  LET d == Reindexed(ch, tree, q, wt)
         IN /\ d \in Changes
            /\ d.of = ch.of /\ d.gen = ch.gen
            /\ d.added = [p \in Paths |-> IF p \in q THEN wt[p] ELSE ch.added[p]]
            /\ d.repl = (ch.repl \ q) \cup {p \in q : Absent \notin {tree[p], wt[p]}}
            /\ d.removed = ch.removed \cup {p \in q : tree[p] # Absent \/ wt[p] = Absent}
<1> DEFINE d == Reindexed(ch, tree, q, wt)
           added == [p \in Paths |-> IF p \in q THEN wt[p] ELSE ch.added[p]]
           repl == (ch.repl \ q) \cup {p \in q : Absent \notin {tree[p], wt[p]}}
           removed == ch.removed \cup {p \in q : tree[p] # Absent \/ wt[p] = Absent}
<1>1. d = [ch EXCEPT !.added = added, !.repl = repl, !.removed = removed]
  BY DEF Reindexed
<1>2. added \in Trees /\ repl \subseteq Paths /\ removed \subseteq Paths
  BY DEF Trees, Changes
<1> HIDE DEF added, repl, removed, d
<1>3. /\ d \in Changes /\ d.of = ch.of /\ d.gen = ch.gen
      /\ d.added = added /\ d.repl = repl /\ d.removed = removed
  BY <1>1, <1>2 DEF Changes
<1> QED BY <1>3 DEF d, added, repl, removed

LEMMA ReindexedTells ==
  ASSUME NEW ch \in Changes, NEW tree \in Trees, NEW wt \in Trees, NEW q \in SUBSET Paths
  PROVE  LET d == Reindexed(ch, tree, q, wt)
         IN /\ \A p \in q : Tells(d, tree, p, wt[p]) /\ OnePlace(d, tree, p)
            /\ \A p \in Paths \ q : \A content : Tells(ch, tree, p, content) => Tells(d, tree, p, content)
            /\ \A p \in Paths \ q : OnePlace(ch, tree, p) => OnePlace(d, tree, p)
<1> DEFINE d == Reindexed(ch, tree, q, wt)
<1>1. /\ d.added = [p \in Paths |-> IF p \in q THEN wt[p] ELSE ch.added[p]]
      /\ d.removed = ch.removed \cup {p \in q : tree[p] # Absent \/ wt[p] = Absent}
  BY ReindexedChanges
<1> HIDE DEF d
<1>2. ASSUME NEW p \in q PROVE Tells(d, tree, p, wt[p]) /\ OnePlace(d, tree, p)
  BY <1>1, <1>2, TellsMeans DEF OnePlace
<1>3. ASSUME NEW p \in Paths \ q
      PROVE  d.added[p] = ch.added[p] /\ (p \in d.removed <=> p \in ch.removed)
  BY <1>1, <1>3
<1>4. ASSUME NEW p \in Paths \ q, NEW content, Tells(ch, tree, p, content)
      PROVE  Tells(d, tree, p, content)
  BY <1>3, <1>4 DEF Tells
<1>5. ASSUME NEW p \in Paths \ q, OnePlace(ch, tree, p) PROVE OnePlace(d, tree, p)
  BY <1>3, <1>5 DEF OnePlace
<1> QED BY <1>2, <1>4, <1>5 DEF d

LEMMA LoadedChanges ==
  ASSUME NEW d \in Changes, NEW stg, NEW m \in CommitIds, generation \in 0..MaxChanges
  PROVE  LET l == Loaded(d, stg, m)
         IN /\ l \in Changes /\ l.of = m /\ l.gen = generation
            /\ l.added = [p \in Paths |-> IF p \in Restorable(d, stg) THEN d.added[p] ELSE Absent]
            /\ l.repl = d.repl \cap Restorable(d, stg)
            /\ l.removed = d.removed
<1> DEFINE l == Loaded(d, stg, m)
           added == [p \in Paths |-> IF p \in Restorable(d, stg) THEN d.added[p] ELSE Absent]
           repl == d.repl \cap Restorable(d, stg)
<1>1. d # None
  BY NoneAssumption
<1>2. l = [of |-> m, gen |-> generation, added |-> added, repl |-> repl, removed |-> d.removed]
  BY <1>1 DEF Loaded
<1>3. added \in Trees /\ repl \subseteq Paths /\ d.removed \subseteq Paths
  BY DEF Trees, Changes
<1> HIDE DEF added, repl, l
<1>4. /\ l \in Changes /\ l.of = m /\ l.gen = generation
      /\ l.added = added /\ l.repl = repl /\ l.removed = d.removed
  BY <1>2, <1>3 DEF Changes
<1> QED BY <1>4 DEF l, added, repl

\* Changes whose segments are all staged are restored as they are.
LEMMA RestoresWhole ==
  ASSUME NEW d \in Changes, NEW stg, generation \in 0..MaxChanges,
         d.gen = generation, Segments(d) \subseteq stg, d.repl \subseteq Added(d)
  PROVE  Loaded(d, stg, d.of) = d /\ Queued(d, stg) = {}
<1> DEFINE l == Loaded(d, stg, d.of)
<1>1. Restorable(d, stg) = Added(d)
  BY DEF Restorable, Segments, Added
<1>2. Queued(d, stg) = {}
  BY <1>1, NoneAssumption DEF Queued
<1>3. d.of \in CommitIds /\ d.added \in Trees /\ d.repl \subseteq Paths
  BY DEF Changes
<1>4. /\ l \in Changes /\ l.of = d.of /\ l.gen = d.gen
      /\ l.added = [p \in Paths |-> IF p \in Added(d) THEN d.added[p] ELSE Absent]
      /\ l.repl = d.repl \cap Added(d)
      /\ l.removed = d.removed
  BY <1>1, <1>3, LoadedChanges
<1> HIDE DEF l
<1>5. l.added = d.added
  BY <1>3, <1>4 DEF Added, Trees
<1>6. l.repl = d.repl
  BY <1>4
<1>7. l = d
  BY <1>4, <1>5, <1>6 DEF Changes
<1> QED BY <1>2, <1>7 DEF l

\* ... after a re-index, when they were before.
Backed(ch) == ch.repl \subseteq Added(ch) \cap ch.removed
Restores(ch, s) == Loaded(ch, s, ch.of) = ch /\ Queued(ch, s) = {}
Holds(s, q, wt) == \A p \in q : wt[p] # Absent => <<p, wt[p]>> \in s

LEMMA ReindexedRestores ==
  ASSUME NEW ch \in Changes, NEW tree \in Trees, NEW wt \in Trees, NEW q \in SUBSET Paths,
         NEW s, generation \in 0..MaxChanges, ch.gen = generation,
         Segments(ch) \subseteq s, Holds(s, q, wt), Backed(ch)
  PROVE  LET d == Reindexed(ch, tree, q, wt)
         IN /\ d \in Changes /\ d.of = ch.of /\ d.gen = generation
            /\ Backed(d) /\ Restores(d, s)
<1> DEFINE d == Reindexed(ch, tree, q, wt)
<1>1. /\ d \in Changes /\ d.of = ch.of /\ d.gen = generation
      /\ d.added = [p \in Paths |-> IF p \in q THEN wt[p] ELSE ch.added[p]]
      /\ d.repl = (ch.repl \ q) \cup {p \in q : Absent \notin {tree[p], wt[p]}}
      /\ d.removed = ch.removed \cup {p \in q : tree[p] # Absent \/ wt[p] = Absent}
  BY ReindexedChanges
<1> HIDE DEF d
<1>2. Backed(d)
  BY <1>1 DEF Backed, Added, Changes
<1>3. Segments(d) \subseteq s
  BY <1>1 DEF Holds, Segments, Added
<1>4. Restores(d, s)
  BY <1>1, <1>2, <1>3, RestoresWhole DEF Backed, Restores
<1> QED BY <1>1, <1>2, <1>4 DEF d

\* What a load restores: all that is not queued, as it was.
LEMMA LoadedOverlay ==
  ASSUME NEW d \in Changes \cup {None}, NEW stg, NEW m \in CommitIds,
         generation \in 0..MaxChanges, d # None => d.repl \subseteq Added(d) \cap d.removed
  PROVE  LET l == Loaded(d, stg, m)
         IN /\ l \in Changes /\ l.of = m /\ l.gen = generation
            /\ l.repl \subseteq Added(l) \cap l.removed
            /\ Segments(l) \subseteq stg
            /\ Queued(d, stg) \subseteq Paths
            /\ d = None => Named(l) = {} /\ Queued(d, stg) = {}
            /\ d # None =>
                 /\ Named(d) = Named(l) \cup Queued(d, stg)
                 /\ d.gen = generation \/ Added(l) = {}
                 /\ \A p \in Paths \ Queued(d, stg) : /\ l.added[p] = d.added[p]
                                                      /\ p \in l.removed <=> p \in d.removed
<1> DEFINE l == Loaded(d, stg, m)
<1>1. CASE d = None
  <2>1. l = NoChanges(m) /\ Queued(d, stg) = {}
    BY <1>1 DEF Loaded, Queued
  <2>2. l \in Changes /\ l.of = m /\ l.gen = generation /\ l.repl = {} /\ l.removed = {}
        /\ Added(l) = {}
    BY <2>1, NoChangesType DEF NoChanges
  <2> QED BY <1>1, <2>1, <2>2 DEF Segments, Named
<1>2. CASE d # None
  <2>1. d \in Changes /\ d.repl \subseteq d.removed
    BY <1>2
  <2>2. /\ l \in Changes /\ l.of = m /\ l.gen = generation
        /\ l.added = [p \in Paths |-> IF p \in Restorable(d, stg) THEN d.added[p] ELSE Absent]
        /\ l.repl = d.repl \cap Restorable(d, stg)
        /\ l.removed = d.removed
    BY <2>1, LoadedChanges
  <2>3. Queued(d, stg) = Added(d) \ Restorable(d, stg)
    BY <1>2 DEF Queued
  <2> HIDE DEF l
  <2>4. Restorable(d, stg) \subseteq Added(d) /\ Added(d) \subseteq Paths
    BY DEF Restorable, Added
  <2>5. Added(l) = Restorable(d, stg)
    BY <2>2, <2>4 DEF Added
  <2>6. Segments(l) \subseteq stg
    <3>1. \A p \in Restorable(d, stg) : l.added[p] = d.added[p] /\ <<p, d.added[p]>> \in stg
      BY <2>2, <2>4 DEF Restorable
    <3> QED BY <2>5, <3>1 DEF Segments
  <2>7. d.gen = generation \/ Added(l) = {}
    BY <2>5 DEF Restorable
  <2>8. \A p \in Paths \ Queued(d, stg) : /\ l.added[p] = d.added[p]
                                          /\ p \in l.removed <=> p \in d.removed
    BY <2>2, <2>3, <2>4 DEF Added
  <2>9. Named(d) = Named(l) \cup Queued(d, stg)
    BY <2>2, <2>3, <2>4, <2>5 DEF Named
  <2>10. Queued(d, stg) \subseteq Paths
    BY <2>3, <2>4
  <2>11. l.repl \subseteq Added(l) \cap l.removed
    BY <2>1, <2>2, <2>5
  <2> QED BY <1>2, <2>2, <2>6, <2>7, <2>8, <2>9, <2>10, <2>11 DEF l
<1> QED BY <1>1, <1>2

\* What changes do not name, the master tells.
LEMMA UnnamedTells ==
  ASSUME NEW ch \in Changes, NEW tree, NEW p \in Paths \ Named(ch)
  PROVE  /\ Tells(ch, tree, p, tree[p])
         /\ \A content : Tells(ch, tree, p, content) => tree[p] = content
         /\ OnePlace(ch, tree, p)
<1>1. ch.added[p] = Absent /\ p \notin ch.removed
  BY DEF Named, Added
<1> QED BY <1>1, TellsMeans DEF OnePlace

\* What they name, they tell, or nothing.
LEMMA NamedTells ==
  ASSUME NEW ch \in Changes, NEW tree, NEW p \in Named(ch), NEW content, Tells(ch, tree, p, content)
  PROVE  content = ch.added[p]
<1>1. ch.added[p] # Absent \/ p \in ch.removed
  BY DEF Named, Added
<1> QED BY <1>1, TellsMeans

LEMMA HiddenTells ==
  ASSUME NEW ch \in Changes, NEW tree, NEW p \in ch.removed
  PROVE  Tells(ch, tree, p, ch.added[p])
BY TellsMeans

-----------------------------------------------------------------------------
\* The commits, and what is kept of them.

LEMMA CommitNumbers == CommitIds \subseteq Nat /\ 1 \in CommitIds /\ 0 \notin CommitIds
BY SessionIndexAssumption DEF CommitIds

LEMMA CommitType ==
  ASSUME IndexTypeOK, NEW c \in 1..Len(commits)
  PROVE  /\ c \in CommitIds /\ Len(commits) \in Nat
         /\ commits[c].tree \in Trees
         /\ commits[c].delta \in Changes \cup {None}
         /\ commits[c].unseen \subseteq Paths /\ commits[c].mixed \subseteq Paths
<1> DEFINE R == [tree : Trees, parent : 0..MaxCommits, delta : Changes \cup {None},
                 unseen : SUBSET Paths, mixed : SUBSET Paths]
<1>1. commits \in Seq(R) /\ Len(commits) \in CommitIds
  BY DEF IndexTypeOK
<1> HIDE DEF R
<1>2. commits[c] \in R /\ Len(commits) \in Nat
  BY <1>1
<1> USE DEF R
<1>3. c \in CommitIds
  BY <1>1, SessionIndexAssumption DEF CommitIds
<1> QED BY <1>2, <1>3

LEMMA IndexInitInv == IndexInit => IndexInv
<1> SUFFICES ASSUME IndexInit PROVE IndexInv
  OBVIOUS
<1> PICK tree \in Trees :
      /\ commits = <<[tree |-> tree, parent |-> 0, delta |-> None, unseen |-> {}, mixed |-> {}]>>
      /\ overlay = [c \in CommitIds |-> IF c = 1 THEN tree ELSE None]
  BY DEF IndexInit
<1>1. /\ Len(commits) = 1 /\ commits[1].delta = None /\ commits[1].tree = tree
      /\ 1..Len(commits) = {1}
  OBVIOUS
<1>2. IndexTypeOK
  <2>1. commits \in Seq([tree : Trees, parent : 0..MaxCommits, delta : Changes \cup {None},
                         unseen : SUBSET Paths, mixed : SUBSET Paths])
    BY SessionIndexAssumption
  <2>2. dirty \in Changes
    BY SessionIndexAssumption, CommitNumbers, NoChangesType DEF IndexInit
  <2>3. NoFiles \in Trees
    BY DEF NoFiles, Trees
  <2>4. stack \in Seq([oid : CommitIds, pre : CommitIds, created : SUBSET Paths])
    BY DEF IndexInit
  <2>5. Len(commits) \in CommitIds /\ upstream \in 1..Len(commits)
    BY <1>1, CommitNumbers DEF IndexInit
  <2>6. overlay \in [CommitIds -> Trees \cup {None}] /\ chain \in [CommitIds -> Changes \cup {None}]
    BY DEF IndexInit
  <2>7. /\ generation \in 0..MaxChanges /\ there \in BOOLEAN /\ live \in BOOLEAN
        /\ head \in 0..Len(commits) /\ idx \in 0..Len(commits)
    <3>1. 0 \in 0..MaxChanges
      BY SessionIndexAssumption
    <3>2. 0 \in 0..Len(commits)
      BY <1>1
    <3>3. head = 0 /\ idx = 0 /\ generation = 0 /\ there = FALSE /\ live = FALSE
      BY DEF IndexInit
    <3> QED BY <3>1, <3>2, <3>3
  <2>8. blind \in [overlay : [CommitIds -> SUBSET Paths], chain : [CommitIds -> SUBSET Paths]]
    BY DEF IndexInit
  <2> QED BY <2>1, <2>2, <2>3, <2>4, <2>5, <2>6, <2>7, <2>8 DEF IndexInit, IndexTypeOK
<1>3. Manifests
  BY <1>1 DEF IndexInit, Manifests
<1>4. Committed
  BY <1>1 DEF Committed, CommittedAt
<1>5. Stacked /\ Placed /\ Awake /\ Asleep
  BY DEF IndexInit, Stacked, Placed, Awake, Asleep
<1>6. SessionExact /\ StampsVouch /\ DeltaRestores
  BY DEF IndexInit, SessionExact, StampsVouch, DeltaRestores
<1>7. ArtefactsExact
  BY <1>1, CommitNumbers DEF IndexInit, ArtefactsExact
<1> QED BY <1>2, <1>3, <1>4, <1>5, <1>6, <1>7 DEF IndexInv

\* Short of a new generation, what a commit says stays true: the repository
\* grows, an overlay stays, and a path it is blind to stays one.
RepoGrows ==
  /\ generation' = generation
  /\ Len(commits') \in Nat /\ Len(commits) <= Len(commits')
  /\ \A c \in 1..Len(commits) : commits'[c] = commits[c]
  /\ \A c \in CommitIds : overlay[c] # None => overlay'[c] = overlay[c]
  /\ \A c \in CommitIds : blind.overlay[c] \subseteq blind'.overlay[c]

LEMMA SoundStays ==
  ASSUME IndexTypeOK, RepoGrows, NEW d, d.of \in CommitIds, Sound(d)
  PROVE  Sound(d)'
BY CommitNumbers DEF RepoGrows, Sound, Added, IndexTypeOK

LEMMA AnswersStay ==
  ASSUME IndexTypeOK, RepoGrows, NEW d, d.of \in CommitIds, Sound(d), NEW wt, NEW u, NEW m,
         Answers(d, wt, u, m)
  PROVE  Answers(d, wt, u, m)'
<1> SUFFICES ASSUME d.gen = generation PROVE Answers(d, wt, u, m)'
  BY DEF RepoGrows, Answers
<1>1. overlay'[d.of] = overlay[d.of]
  BY DEF RepoGrows, Sound
<1> QED BY <1>1 DEF Answers, OnePlace, Tells

LEMMA CommitStays ==
  ASSUME IndexTypeOK, RepoGrows, NEW c \in 1..Len(commits), CommittedAt(c)
  PROVE  CommittedAt(c)'
<1>1. PICK r : r = commits[c] /\ r = commits'[c]
  BY DEF RepoGrows
<1>2. CASE r.delta = None
  BY <1>1, <1>2 DEF CommittedAt
<1>3. CASE r.delta # None
  <2> DEFINE d == r.delta
             odd == r.unseen \cup r.mixed
  <2>1. /\ Sound(d) /\ Agrees(d, r.tree, odd) /\ Answers(d, r.tree, r.unseen, r.mixed)
        /\ \A p \in Paths \ (odd \cup Named(d) \cup blind.overlay[d.of]) :
             commits[d.of].tree[p] = r.tree[p]
    BY <1>1, <1>3 DEF CommittedAt
  <2>2. d \in Changes /\ d.of \in CommitIds /\ d.of \in 1..Len(commits)
    BY <1>1, <1>3, <2>1, CommitType DEF Changes, Sound
  <2>3. Sound(d)' /\ Answers(d, r.tree, r.unseen, r.mixed)'
    BY <2>1, <2>2, SoundStays, AnswersStay
  <2>4. Agrees(d, r.tree, odd)'
    BY <2>1 DEF Agrees, Named, Added
  <2>5. commits'[d.of] = commits[d.of] /\ blind.overlay[d.of] \subseteq blind'.overlay[d.of]
    BY <2>2 DEF RepoGrows
  <2>6. \A p \in Paths \ (odd \cup Named(d) \cup blind'.overlay[d.of]) :
          commits'[d.of].tree[p] = r.tree[p]
    BY <2>1, <2>5
  <2> QED BY <1>1, <2>3, <2>4, <2>6 DEF CommittedAt, Named, Added
<1> QED BY <1>2, <1>3

-----------------------------------------------------------------------------
\* A session in memory.

LEMMA RepoSame ==
  ASSUME IndexInv, UNCHANGED repoVars
  PROVE  RepoGrows /\ Manifests' /\ Committed' /\ ArtefactsExact'
<1>1. /\ commits' = commits /\ overlay' = overlay /\ chain' = chain
      /\ generation' = generation /\ blind' = blind
  BY DEF repoVars
<1>2. RepoGrows
  <2>1. Len(commits) \in Nat
    BY CommitNumbers DEF IndexInv, IndexTypeOK
  <2> QED BY <1>1, <2>1 DEF RepoGrows
<1>3. Manifests'
  BY <1>1 DEF IndexInv, Manifests, Sound, Added
<1>4. Committed'
  BY <1>1, <1>2, CommitStays DEF IndexInv, Committed
<1>5. ArtefactsExact'
  BY <1>1 DEF IndexInv, ArtefactsExact, Tells
<1> QED BY <1>2, <1>3, <1>4, <1>5

LEMMA LiveFacts ==
  ASSUME IndexInv, live
  PROVE  /\ dirty \in Changes /\ dirty.of \in CommitIds /\ dirty.of \in 1..Len(commits)
         /\ dirty.gen = generation /\ generation \in 0..MaxChanges
         /\ overlay[dirty.of] # None /\ Master \in Trees
         /\ dirty.repl \subseteq Added(dirty) \cap dirty.removed
         /\ delta \in Changes \cup {None} /\ (delta # None => Sound(delta))
         /\ Loaded(delta, staging, dirty.of) = dirty
         /\ Segments(dirty) \subseteq staging
         /\ Queued(delta, staging) \subseteq Paths
         /\ delta # None =>
              \A p \in Paths \ Queued(delta, staging) : /\ dirty.added[p] = delta.added[p]
                                                        /\ p \in dirty.removed <=> p \in delta.removed
<1>1. /\ dirty \in Changes /\ generation \in 0..MaxChanges /\ delta \in Changes \cup {None}
      /\ overlay \in [CommitIds -> Trees \cup {None}]
  BY DEF IndexInv, IndexTypeOK
<1>2. dirty.of \in CommitIds
  BY <1>1 DEF Changes
<1>3. Sound(dirty) /\ dirty.gen = generation
  BY DEF IndexInv, Awake
<1>4. overlay[dirty.of] # None /\ Master \in Trees
  BY <1>1, <1>2, <1>3 DEF Sound, Master
<1>5. delta # None => Sound(delta)
  BY DEF IndexInv, Placed
<1>6. Loaded(delta, staging, dirty.of) = dirty
  BY DEF IndexInv, DeltaRestores
<1>7. delta # None => delta.repl \subseteq Added(delta) \cap delta.removed
  BY <1>5 DEF Sound
<1>8. /\ Segments(dirty) \subseteq staging /\ Queued(delta, staging) \subseteq Paths
      /\ delta # None =>
           \A p \in Paths \ Queued(delta, staging) : /\ dirty.added[p] = delta.added[p]
                                                     /\ p \in dirty.removed <=> p \in delta.removed
  BY <1>1, <1>2, <1>6, <1>7, LoadedOverlay
<1> QED BY <1>1, <1>2, <1>3, <1>4, <1>5, <1>6, <1>8 DEF Sound

\* The parts of the invariant that a live session needs, and a repository.
LiveInv == /\ Placed /\ Awake /\ Asleep
           /\ SessionExact /\ StampsVouch /\ DeltaRestores

LEMMA TakeInInv ==
  ASSUME IndexInv, live, UNCHANGED <<repoVars, there, head, idx, live>>,
         NEW q \in SUBSET Paths, TakeIn(dirty, q, files', staging),
         files' \in Trees, \A p \in Paths \ q : files'[p] = files[p],
         pending' = pending, vouched' \subseteq vouched \cup q,
         unseen' = unseen \ q, mixed' = mixed \ q
  PROVE  /\ dirty' \in Changes /\ delta' \in Changes /\ staging' \subseteq Paths \X Contents
         /\ LiveInv'
<1> DEFINE d == Reindexed(dirty, Master, q, files')
           s == staging \cup {<<p, files'[p]>> : p \in {r \in q : files'[r] # Absent}}
<1>1. /\ commits' = commits /\ overlay' = overlay /\ chain' = chain
      /\ generation' = generation /\ blind' = blind
      /\ there' = there /\ head' = head /\ idx' = idx /\ live' = live
  BY DEF repoVars
<1>2. dirty' = d /\ delta' = d /\ staging' = s
  BY <1>1 DEF TakeIn, Master
<1>0. /\ dirty \in Changes /\ dirty.gen = generation /\ generation \in 0..MaxChanges
      /\ Master \in Trees /\ Segments(dirty) \subseteq staging
      /\ dirty.repl \subseteq Added(dirty) \cap dirty.removed
  BY LiveFacts
<1>4. /\ d \in Changes /\ d.of = dirty.of /\ d.gen = generation
      /\ d.repl \subseteq Added(d) \cap d.removed
      /\ Loaded(d, s, d.of) = d /\ Queued(d, s) = {}
  <2>1. Segments(dirty) \subseteq s /\ Holds(s, q, files') /\ Backed(dirty)
    BY <1>0 DEF Holds, Backed
  <2> HIDE DEF s
  <2>2. /\ d \in Changes /\ d.of = dirty.of /\ d.gen = generation
        /\ Backed(d) /\ Restores(d, s)
    BY <1>0, <2>1, ReindexedRestores
  <2> QED BY <2>2 DEF Backed, Restores
<1>5. /\ \A p \in q : Tells(d, Master, p, files'[p]) /\ OnePlace(d, Master, p)
      /\ \A p \in Paths \ q : \A content : Tells(dirty, Master, p, content) => Tells(d, Master, p, content)
      /\ \A p \in Paths \ q : OnePlace(dirty, Master, p) => OnePlace(d, Master, p)
  BY LiveFacts, ReindexedTells
<1>6. staging' \subseteq Paths \X Contents
  <2>1. \A r \in q : files'[r] # Absent => files'[r] \in Contents
    BY DEF Trees
  <2> QED BY <1>2, <2>1 DEF IndexInv, IndexTypeOK
<1> HIDE DEF d, s
<1>7. Master' = Master
  BY <1>1, <1>2, <1>4 DEF Master
<1>8. Sound(dirty)' /\ Sound(delta)' /\ dirty'.gen = generation'
  <2>1. Sound(d)
    BY <1>4, LiveFacts DEF Sound
  <2> QED BY <1>1, <1>2, <1>4, <2>1 DEF Sound, Added
<1>9. Placed'
  BY <1>1, <1>8 DEF IndexInv, Placed
<1>10. /\ Loaded(delta, staging, dirty.of)' = dirty' /\ Queued(delta, staging)' = {}
  BY <1>1, <1>2, <1>4 DEF Loaded, Queued, Restorable, NoChanges, Added
<1>11. DeltaRestores'
  BY <1>10 DEF DeltaRestores
<1>12. SessionExact'
  <2> SUFFICES ASSUME NEW p \in Paths \ (unseen' \cup mixed') PROVE Tells(d, Master, p, files'[p])
    BY <1>2, <1>7 DEF SessionExact, Tells
  <2>1. CASE p \in q
    BY <1>5, <2>1
  <2>2. CASE p \notin q
    <3>1. Tells(dirty, Master, p, files[p])
      BY <2>2 DEF IndexInv, SessionExact
    <3> QED BY <1>5, <2>2, <3>1
  <2> QED BY <2>1, <2>2
<1>13. StampsVouch'
  <2> SUFFICES ASSUME NEW p \in vouched' \ mixed' PROVE Tells(d, Master, p, files'[p])
    BY <1>2, <1>7 DEF StampsVouch, Tells
  <2>1. CASE p \in q
    BY <1>5, <2>1
  <2>2. CASE p \notin q
    <3>1. p \in Paths /\ Tells(dirty, Master, p, files[p])
      BY <2>2 DEF IndexInv, StampsVouch, IndexTypeOK
    <3> QED BY <1>5, <2>2, <3>1
  <2> QED BY <2>1, <2>2
<1>14. Awake'
  <2>1. \A p \in Paths \ mixed' : OnePlace(d, Master, p)
    BY <1>5 DEF IndexInv, Awake
  <2>2. (\A p \in Paths \ mixed : OnePlace(dirty, Master, p))'
    BY <1>2, <1>7, <2>1 DEF OnePlace
  <2>3. delta'.of = dirty'.of
    BY <1>2
  <2> QED BY <1>8, <1>10, <2>2, <2>3 DEF Awake
<1>15. Asleep'
  BY <1>1 DEF Asleep
<1> QED BY <1>2, <1>4, <1>6, <1>9, <1>11, <1>12, <1>13, <1>14, <1>15 DEF LiveInv

LEMMA WriteInv ==
  ASSUME IndexInv, NEW p \in Paths, NEW content \in Contents \cup {Absent}, Write(p, content)
  PROVE  IndexInv'
<1> DEFINE wt == [files EXCEPT ![p] = content]
           S == [oid : CommitIds, pre : CommitIds, created : SUBSET Paths]
<1>1. /\ live /\ UNCHANGED <<repoVars, there, head, idx, live, pending>>
      /\ files' = wt /\ TakeIn(dirty, {p}, wt, staging)
      /\ vouched' = vouched \ {p} /\ unseen' = unseen \ {p} /\ mixed' = mixed \ {p}
  BY DEF Write
<1>2. files' \in Trees /\ \A r \in Paths \ {p} : files'[r] = files[r]
  BY <1>1 DEF IndexInv, IndexTypeOK, Trees
<1>3. UNCHANGED repoVars
  BY <1>1
<1>4. /\ dirty' \in Changes /\ delta' \in Changes /\ staging' \subseteq Paths \X Contents
      /\ LiveInv'
  BY <1>1, <1>2, <1>3, TakeInInv
<1>5. /\ Manifests' /\ Committed' /\ ArtefactsExact'
  BY <1>3, RepoSame
<1>6. stack' \in Seq(S) /\ Stacked'
  <2>1. stack \in Seq(S) /\ commits' = commits
    BY <1>3 DEF IndexInv, IndexTypeOK, repoVars
  <2>2. CASE stack' = stack
    BY <2>1, <2>2 DEF IndexInv, Stacked
  <2>3. CASE stack # <<>> /\ stack' = [stack EXCEPT ![Len(stack)].created = @ \cup {p}]
    <3> DEFINE n == Len(stack)
               e == [stack[n] EXCEPT !.created = @ \cup {p}]
    <3>1. n \in 1..Len(stack)
      <4> HIDE DEF S
      <4> QED BY <2>1, <2>3, EmptySeq, LenProperties
    <3>2. stack[n] \in S
      <4> HIDE DEF S, n
      <4> QED BY <2>1, <3>1
    <3>3. stack' = [stack EXCEPT ![n] = e]
      BY <2>3
    <3>4. e \in S /\ e.oid = stack[n].oid /\ e.pre = stack[n].pre
      BY <3>2
    <3> HIDE DEF n, e, S
    <3>5. /\ stack' \in Seq(S) /\ Len(stack') = Len(stack)
          /\ \A k \in 1..Len(stack) : stack'[k] = IF k = n THEN e ELSE stack[k]
      BY <2>1, <3>3, <3>4, <3>1, ExceptSeq
    <3>6. /\ stack' \in Seq(S) /\ Len(stack') = Len(stack)
          /\ \A k \in 1..Len(stack) : stack'[k].oid = stack[k].oid /\ stack'[k].pre = stack[k].pre
      BY <3>4, <3>5
    <3> QED BY <2>1, <3>6 DEF IndexInv, Stacked
  <2> QED BY <2>2, <2>3 DEF Write
<1>7. IndexTypeOK'
  BY <1>1, <1>2, <1>3, <1>4, <1>6 DEF IndexInv, IndexTypeOK, repoVars
<1> QED BY <1>4, <1>5, <1>6, <1>7 DEF IndexInv, LiveInv

LEMMA StaleInv ==
  ASSUME IndexInv, NEW p \in Paths, Stale(p)
  PROVE  IndexInv'
<1>1. /\ live /\ UNCHANGED <<repoVars, there, head, idx, files, live, pending, stack>>
      /\ TakeIn(dirty, {p}, files, staging)
      /\ vouched' = vouched \cup {p} /\ unseen' = unseen \ {p} /\ mixed' = mixed \ {p}
  BY DEF Stale
<1>2. files' \in Trees /\ \A r \in Paths \ {p} : files'[r] = files[r]
  BY <1>1 DEF IndexInv, IndexTypeOK
<1>3. UNCHANGED repoVars
  BY <1>1
<1>4. /\ dirty' \in Changes /\ delta' \in Changes /\ staging' \subseteq Paths \X Contents
      /\ LiveInv'
  BY <1>1, <1>2, <1>3, TakeInInv
<1>5. /\ Manifests' /\ Committed' /\ ArtefactsExact'
  BY <1>3, RepoSame
<1>6. Stacked'
  BY <1>1 DEF IndexInv, Stacked, repoVars
<1>7. IndexTypeOK'
  BY <1>1, <1>4 DEF IndexInv, IndexTypeOK, repoVars
<1> QED BY <1>4, <1>5, <1>6, <1>7 DEF IndexInv, LiveInv

\* The gate compares a file with one segment; where the rows of the path are in
\* one place, and none that the delta hides, that is what a query is told.
LEMMA VerifiedInv ==
  ASSUME IndexInv, NEW p \in Paths, Verified(p)
  PROVE  IndexInv'
<1>1. /\ live /\ files[p] # Absent /\ Indexed(p) = files[p]
      /\ vouched' = vouched \cup {p} /\ unseen' = unseen \ {p}
      /\ mixed' = IF dirty.added[p] = Absent /\ p \in dirty.removed \cup blind.overlay[dirty.of]
                  THEN mixed \cup {p} ELSE mixed
      /\ UNCHANGED <<changes, repoVars, wtVars, live, dirty, pending, stack>>
  BY DEF Verified
<1>2. /\ commits' = commits /\ overlay' = overlay /\ chain' = chain /\ generation' = generation
      /\ blind' = blind /\ there' = there /\ head' = head /\ idx' = idx /\ files' = files
      /\ delta' = delta /\ staging' = staging /\ upstream' = upstream
      /\ live' = live /\ dirty' = dirty /\ pending' = pending /\ stack' = stack
  BY <1>1 DEF repoVars, wtVars
<1>3. mixed \subseteq mixed' /\ mixed' \subseteq mixed \cup {p} /\ Master' = Master
  BY <1>1, <1>2 DEF Master
<1>4. p \notin mixed' => Tells(dirty, Master, p, files[p])
  <2> SUFFICES ASSUME p \notin mixed' PROVE Tells(dirty, Master, p, files[p])
    OBVIOUS
  <2>1. dirty.added[p] # Absent \/ p \notin dirty.removed
    BY <1>1
  <2>2. OnePlace(dirty, Master, p)
    BY <1>1, <1>3 DEF IndexInv, Awake
  <2> QED BY <1>1, <2>1, <2>2, TellsMeans DEF Indexed, OnePlace
<1>5. /\ Manifests' /\ Committed' /\ ArtefactsExact'
  BY <1>1, RepoSame
<1>6. Stacked' /\ Placed'
  BY <1>2 DEF IndexInv, Stacked, Placed, Sound, Added
<1>7. SessionExact'
  <2> SUFFICES ASSUME NEW r \in Paths \ (unseen' \cup mixed') PROVE Tells(dirty, Master, r, files[r])
    BY <1>2, <1>3 DEF SessionExact, Tells
  <2>1. CASE r = p
    BY <1>4, <2>1
  <2>2. CASE r # p
    BY <1>1, <1>3, <2>2 DEF IndexInv, SessionExact
  <2> QED BY <2>1, <2>2
<1>8. StampsVouch'
  <2> SUFFICES ASSUME NEW r \in vouched' \ mixed' PROVE Tells(dirty, Master, r, files[r])
    BY <1>2, <1>3 DEF StampsVouch, Tells
  <2>1. CASE r = p
    BY <1>4, <2>1
  <2>2. CASE r # p
    BY <1>1, <1>3, <2>2 DEF IndexInv, StampsVouch
  <2> QED BY <2>1, <2>2
<1>9. DeltaRestores'
  BY <1>2 DEF IndexInv, DeltaRestores, Loaded, Queued, Restorable, NoChanges, Added
<1>10. Awake'
  <2>1. Sound(dirty)'
    BY <1>1, <1>2 DEF IndexInv, Awake, Sound, Added
  <2>2. Queued(delta, staging)' \subseteq mixed'
    BY <1>1, <1>2, <1>3 DEF IndexInv, Awake, Queued, Restorable, Added
  <2>3. (\A r \in Paths \ mixed : OnePlace(dirty, Master, r))'
    BY <1>1, <1>2, <1>3 DEF IndexInv, Awake, OnePlace
  <2>4. Serving(head, delta.of)' = Serving(head, delta.of)
    BY <1>2 DEF Serving
  <2>5. mixed = Paths => mixed' = Paths
    BY <1>3
  <2> QED BY <1>1, <1>2, <2>1, <2>2, <2>3, <2>4, <2>5 DEF IndexInv, Awake
<1>11. Asleep'
  BY <1>1 DEF Asleep
<1>12. IndexTypeOK'
  BY <1>1, <1>2, <1>3 DEF IndexInv, IndexTypeOK
<1> QED BY <1>5, <1>6, <1>7, <1>8, <1>9, <1>10, <1>11, <1>12 DEF IndexInv

LEMMA RewriteInv ==
  ASSUME IndexInv, NEW p \in Paths, NEW content \in Contents \cup {Absent}, Rewrite(p, content)
  PROVE  IndexInv'
<1>1. /\ files' = [files EXCEPT ![p] = content]
      /\ vouched' = vouched \ {p} /\ unseen' = unseen \cup {p}
      /\ UNCHANGED <<repoVars, there, head, idx, delta, staging, live, dirty, pending, stack, mixed>>
  BY DEF Rewrite
<1>2. /\ commits' = commits /\ overlay' = overlay /\ chain' = chain /\ generation' = generation
      /\ blind' = blind /\ there' = there /\ head' = head /\ idx' = idx /\ upstream' = upstream
      /\ delta' = delta /\ staging' = staging /\ mixed' = mixed
      /\ live' = live /\ dirty' = dirty /\ pending' = pending /\ stack' = stack
  BY <1>1 DEF repoVars
<1>3. files' \in Trees /\ \A r \in Paths \ {p} : files'[r] = files[r]
  BY <1>1 DEF IndexInv, IndexTypeOK, Trees
<1>4. Master' = Master
  BY <1>2 DEF Master
<1>5. /\ Manifests' /\ Committed' /\ ArtefactsExact'
  BY <1>1, RepoSame
<1>6. Stacked' /\ Placed'
  BY <1>2 DEF IndexInv, Stacked, Placed, Sound, Added
<1>7. SessionExact'
  <2> SUFFICES ASSUME live, NEW r \in Paths \ (unseen' \cup mixed')
               PROVE  Tells(dirty, Master, r, files'[r])
    BY <1>2, <1>4 DEF SessionExact, Tells
  <2> QED BY <1>1, <1>3 DEF IndexInv, SessionExact
<1>8. StampsVouch'
  <2> SUFFICES ASSUME live, NEW r \in vouched' \ mixed' PROVE Tells(dirty, Master, r, files'[r])
    BY <1>2, <1>4 DEF StampsVouch, Tells
  <2>1. r \in Paths \ {p} /\ r \in vouched \ mixed
    BY <1>1 DEF IndexInv, IndexTypeOK
  <2> QED BY <1>3, <2>1 DEF IndexInv, StampsVouch
<1>9. DeltaRestores'
  BY <1>2 DEF IndexInv, DeltaRestores, Loaded, Queued, Restorable, NoChanges, Added
<1>10. Awake'
  BY <1>2, <1>4 DEF IndexInv, Awake, Sound, Added, OnePlace, Serving, Queued, Restorable
<1>11. Asleep'
  <2> SUFFICES ASSUME there, ~live, delta # None
               PROVE  /\ Agrees(delta, files', unseen' \cup mixed)
                      /\ Serving(head, delta.of) => Answers(delta, files', unseen', mixed)
    BY <1>2 DEF Asleep, Agrees, Named, Added, Serving, Answers, OnePlace, Tells
  <2>1. delta \in Changes
    BY DEF IndexInv, IndexTypeOK
  <2>2. Agrees(delta, files', unseen' \cup mixed)
    BY <1>1, <1>3, <2>1 DEF IndexInv, Asleep, Agrees, Named, Added, Changes
  <2>3. Serving(head, delta.of) => Answers(delta, files', unseen', mixed)
    BY <1>1, <1>3 DEF IndexInv, Asleep, Answers
  <2> QED BY <2>2, <2>3
<1>12. IndexTypeOK'
  BY <1>1, <1>2, <1>3 DEF IndexInv, IndexTypeOK
<1> QED BY <1>5, <1>6, <1>7, <1>8, <1>9, <1>10, <1>11, <1>12 DEF IndexInv

\* A session that leaves memory leaves a delta that agrees with the files, and
\* answers for them over the master that the next attach takes it over.
LEMMA GoneInv ==
  ASSUME IndexInv, live, Gone,
         UNCHANGED <<repoVars, there, head, idx, delta, staging, stack, mixed>>,
         files' \in Trees, unseen \subseteq unseen', unseen' \subseteq Paths,
         \A r \in Paths \ unseen' : files'[r] = files[r]
  PROVE  IndexInv'
<1>1. /\ commits' = commits /\ overlay' = overlay /\ chain' = chain /\ generation' = generation
      /\ blind' = blind /\ there' = there /\ head' = head /\ idx' = idx /\ upstream' = upstream
      /\ delta' = delta /\ staging' = staging /\ mixed' = mixed /\ stack' = stack
      /\ ~live' /\ pending' = {} /\ vouched' = {}
  BY DEF repoVars, Gone
<1>2. /\ Manifests' /\ Committed' /\ ArtefactsExact'
  BY RepoSame
<1>3. Stacked' /\ Placed'
  BY <1>1 DEF IndexInv, Stacked, Placed, Sound, Added
<1>4. SessionExact' /\ StampsVouch' /\ DeltaRestores' /\ Awake'
  BY <1>1 DEF SessionExact, StampsVouch, DeltaRestores, Awake
<1>5. Asleep'
  <2> SUFFICES ASSUME delta # None
               PROVE  /\ Agrees(delta, files', unseen' \cup mixed)
                      /\ Serving(head, delta.of) => Answers(delta, files', unseen', mixed)
    BY <1>1 DEF Asleep, Agrees, Named, Added, Serving, Answers, OnePlace, Tells
  <2>1. delta \in Changes /\ dirty \in Changes /\ delta.removed \subseteq Paths
    BY LiveFacts DEF Changes
  <2>2. \A p \in Paths \ mixed : /\ dirty.added[p] = delta.added[p]
                                 /\ p \in dirty.removed <=> p \in delta.removed
    BY LiveFacts DEF IndexInv, Awake
  <2>3. \A p \in Paths \ (unseen' \cup mixed) : Tells(dirty, Master, p, files'[p])
    BY DEF IndexInv, SessionExact
  <2>4. Agrees(delta, files', unseen' \cup mixed)
    <3> SUFFICES ASSUME NEW p \in Named(delta) \ (unseen' \cup mixed)
                 PROVE  files'[p] = delta.added[p]
      BY DEF Agrees
    <3>1. p \in Paths
      BY <2>1 DEF Named, Added
    <3>2. p \in Named(dirty)
      BY <2>2, <3>1 DEF Named, Added
    <3> QED BY <2>1, <2>2, <2>3, <3>1, <3>2, NamedTells
  <2>5. ASSUME Serving(head, delta.of), delta.gen = generation, mixed # Paths
        PROVE  /\ \A p \in Paths \ (unseen' \cup mixed) : Tells(delta, overlay[delta.of], p, files'[p])
               /\ \A p \in Paths \ mixed : OnePlace(delta, overlay[delta.of], p)
    <3>1. overlay[delta.of] = Master
      BY <2>5 DEF IndexInv, Awake, Master
    <3>2. \A p \in Paths \ mixed : OnePlace(dirty, Master, p)
      BY DEF IndexInv, Awake
    <3> QED BY <2>2, <2>3, <3>1, <3>2 DEF Tells, OnePlace
  <2> QED BY <2>4, <2>5 DEF Answers
<1>6. IndexTypeOK'
  <2>1. dirty' \in Changes
    <3>1. NoChanges(1) \in Changes /\ 0 \in 0..MaxChanges
      BY CommitNumbers, NoChangesType, SessionIndexAssumption DEF IndexInv, IndexTypeOK
    <3>2. dirty' = [NoChanges(1) EXCEPT !.gen = 0]
      BY DEF Gone
    <3> QED BY <3>1, <3>2 DEF Changes
  <2>2. live' \in BOOLEAN
    BY DEF Gone
  <2> QED BY <1>1, <2>1, <2>2 DEF IndexInv, IndexTypeOK
<1> QED BY <1>2, <1>3, <1>4, <1>5, <1>6 DEF IndexInv

LEMMA WriteAndDieInv ==
  ASSUME IndexInv, NEW p \in Paths, NEW content \in Contents \cup {Absent}, WriteAndDie(p, content)
  PROVE  IndexInv'
<1>1. /\ live /\ Gone /\ files' = [files EXCEPT ![p] = content] /\ unseen' = unseen \cup {p}
      /\ UNCHANGED <<repoVars, there, head, idx, delta, staging, stack, mixed>>
  BY DEF WriteAndDie
<1>2. files' \in Trees /\ \A r \in Paths \ unseen' : files'[r] = files[r]
  BY <1>1 DEF IndexInv, IndexTypeOK, Trees
<1>3. unseen' \subseteq Paths
  BY <1>1 DEF IndexInv, IndexTypeOK
<1> QED BY <1>1, <1>2, <1>3, GoneInv

LEMMA EndInv == ASSUME IndexInv, End PROVE IndexInv'
<1>1. live /\ Gone /\ UNCHANGED <<repoVars, wtVars, stack, unseen, mixed>>
  BY DEF End
<1>2. UNCHANGED <<repoVars, there, head, idx, delta, staging, stack, mixed>> /\ files' = files
  BY <1>1 DEF wtVars
<1>3. files' \in Trees /\ unseen' \subseteq Paths /\ unseen' = unseen
  BY <1>1, <1>2 DEF IndexInv, IndexTypeOK
<1> QED BY <1>1, <1>2, <1>3, GoneInv

-----------------------------------------------------------------------------
\* New commits, and what others leave.

LEMMA LeastNumber ==
  ASSUME NEW S, S \subseteq Nat, S # {}
  PROVE  \E n \in S : \A m \in S : n <= m
<1>1. PICK n \in S : \A m \in S : ~ (<<m, n>> \in OpToRel(<, Nat))
  BY NatLessThanWellFounded, WFMin, Zenon
<1>2. ASSUME NEW m \in S PROVE n <= m
  <2>1. <<m, n>> \in OpToRel(<, Nat) <=> m < n
    BY DEF OpToRel
  <2>2. m \in Nat /\ n \in Nat /\ ~ (m < n)
    BY <1>1, <2>1
  <2> QED BY <2>2
<1> QED BY <1>2

LEMMA GreatestCommit ==
  ASSUME NEW S, S \subseteq CommitIds, S # {}
  PROVE  \E n \in S : \A m \in S : m <= n
<1> DEFINE T == {MaxCommits - n : n \in S}
<1>1. MaxCommits \in Nat /\ \A n \in S : n \in Nat /\ n <= MaxCommits /\ MaxCommits - n \in Nat
  BY SessionIndexAssumption DEF CommitIds
<1>2. T \subseteq Nat /\ T # {}
  BY <1>1
<1>3. PICK t \in T : \A u \in T : t <= u
  BY <1>2, LeastNumber
<1>4. PICK n \in S : t = MaxCommits - n
  OBVIOUS
<1>5. ASSUME NEW m \in S PROVE m <= n
  <2>1. MaxCommits - n <= MaxCommits - m
    BY <1>3, <1>4
  <2> QED BY <1>1, <2>1
<1> QED BY <1>5

LEMMA NearestMaster ==
  ASSUME NEW c, Masters(c) # {}
  PROVE  Nearest(c) \in CommitIds /\ overlay[Nearest(c)] # None
<1>1. Masters(c) \subseteq CommitIds
  BY DEF Masters, Ancestors
<1>2. \E m \in Masters(c) : \A n \in Masters(c) : n <= m
  BY <1>1, GreatestCommit
<1>3. Nearest(c) \in Masters(c)
  BY <1>2 DEF Nearest
<1> QED BY <1>1, <1>3 DEF Masters

\* A derived manifest tells, over its master, what was parsed.
LEMMA DerivedTells ==
  ASSUME NEW m \in CommitIds, NEW wt \in Trees, overlay[m] \in Trees, generation \in 0..MaxChanges
  PROVE  LET d == Derived(m, wt)
         IN /\ d \in Changes /\ d.of = m /\ d.gen = generation
            /\ d.repl \subseteq Added(d) \cap d.removed
            /\ \A p \in Paths : Tells(d, overlay[m], p, wt[p]) /\ OnePlace(d, overlay[m], p)
<1> DEFINE tree == overlay[m]
           added == [p \in Paths |-> IF wt[p] # tree[p] THEN wt[p] ELSE Absent]
           repl == {p \in Paths : Absent \notin {wt[p], tree[p]} /\ wt[p] # tree[p]}
           removed == {p \in Paths : tree[p] # Absent /\ wt[p] # tree[p]}
           d == Derived(m, wt)
<1>1. d = [NoChanges(m) EXCEPT !.added = added, !.repl = repl, !.removed = removed]
  BY DEF Derived
<1>2. NoChanges(m) \in Changes /\ NoChanges(m).of = m /\ NoChanges(m).gen = generation
  BY NoChangesType DEF NoChanges
<1>3. added \in Trees /\ repl \subseteq Paths /\ removed \subseteq Paths
  BY DEF Trees
<1> HIDE DEF added, repl, removed, d
<1>4. /\ d \in Changes /\ d.of = m /\ d.gen = generation
      /\ d.added = added /\ d.repl = repl /\ d.removed = removed
  BY <1>1, <1>2, <1>3 DEF Changes
<1>5. d.repl \subseteq Added(d) \cap d.removed
  BY <1>4 DEF Added, added, repl, removed
<1>6. \A p \in Paths : Tells(d, tree, p, wt[p]) /\ OnePlace(d, tree, p)
  <2> SUFFICES ASSUME NEW p \in Paths PROVE Tells(d, tree, p, wt[p]) /\ OnePlace(d, tree, p)
    OBVIOUS
  <2>1. /\ d.added[p] = IF wt[p] # tree[p] THEN wt[p] ELSE Absent
        /\ p \in d.removed <=> tree[p] # Absent /\ wt[p] # tree[p]
    BY <1>4 DEF added, removed
  <2> QED BY <2>1, TellsMeans DEF OnePlace
<1> QED BY <1>4, <1>5, <1>6 DEF d

\* What is in memory and in the worktree stays true of a repository that grows;
\* where an overlay is new, no delta of this generation was over its commit.
LEMMA StateStays ==
  ASSUME IndexInv, RepoGrows, UNCHANGED <<wtVars, ramVars, unseen, mixed>>,
         \A m \in CommitIds : head # 0 /\ overlay[m] # None /\ Serving(head, m)' => Serving(head, m)
  PROVE  LiveInv' /\ Stacked'
<1>1. /\ generation' = generation /\ Len(commits') \in Nat /\ Len(commits) <= Len(commits')
      /\ there' = there /\ head' = head /\ idx' = idx /\ files' = files
      /\ delta' = delta /\ staging' = staging /\ live' = live /\ dirty' = dirty
      /\ pending' = pending /\ vouched' = vouched /\ stack' = stack
      /\ unseen' = unseen /\ mixed' = mixed
  BY DEF RepoGrows, wtVars, ramVars
<1>2. IndexTypeOK
  BY DEF IndexInv
<1>3. delta # None => Sound(delta)'
  <2> SUFFICES ASSUME delta # None PROVE Sound(delta)'
    OBVIOUS
  <2>1. Sound(delta) /\ delta.of \in CommitIds
    BY <1>2 DEF IndexInv, Placed, IndexTypeOK, Changes
  <2> QED BY <1>1, <1>2, <2>1, SoundStays
<1>4. live => Sound(dirty)' /\ Master' = Master
  <2> SUFFICES ASSUME live PROVE Sound(dirty)' /\ Master' = Master
    OBVIOUS
  <2>1. Sound(dirty) /\ dirty.of \in CommitIds /\ overlay[dirty.of] # None
    BY LiveFacts DEF IndexInv, Awake
  <2>2. Sound(dirty)'
    BY <1>1, <1>2, <2>1, SoundStays
  <2> QED BY <1>1, <2>1, <2>2 DEF RepoGrows, Master
<1>5. Placed'
  BY <1>1, <1>3 DEF IndexInv, Placed
<1>6. SessionExact' /\ StampsVouch'
  BY <1>1, <1>4 DEF IndexInv, SessionExact, StampsVouch, Tells
<1>7. DeltaRestores'
  BY <1>1 DEF IndexInv, DeltaRestores, Loaded, Queued, Restorable, NoChanges, Added
<1>8. there /\ delta # None /\ delta.gen = generation /\ Serving(head, delta.of)' =>
        Serving(head, delta.of)
  <2> SUFFICES ASSUME there, delta # None, delta.gen = generation, Serving(head, delta.of)'
               PROVE  Serving(head, delta.of)
    OBVIOUS
  <2>1. PICK m \in CommitIds : m = delta.of /\ m = delta'.of
    BY <1>1, <1>2 DEF IndexTypeOK, Changes
  <2>2. head # 0 /\ overlay[m] # None
    BY <2>1 DEF IndexInv, Placed, Sound
  <2>3. Serving(head, m)'
    BY <2>1 DEF Serving
  <2>4. Serving(head, m)
    BY <2>2, <2>3
  <2> QED BY <2>1, <2>4
<1>9. Awake'
  <2> SUFFICES ASSUME live PROVE Awake'
    BY <1>1 DEF Awake
  <2>1. dirty'.gen = generation' /\ (Queued(delta, staging) \subseteq mixed)'
    BY <1>1 DEF IndexInv, Awake, Queued, Restorable, Added
  <2>2. (\A p \in Paths \ mixed : OnePlace(dirty, Master, p))'
    BY <1>1, <1>4 DEF IndexInv, Awake, OnePlace
  <2>3. delta' # None /\ delta'.gen = generation' /\ Serving(head, delta.of)' =>
          delta'.of = dirty'.of \/ mixed' = Paths
    BY <1>1, <1>8 DEF IndexInv, Awake, Placed
  <2> QED BY <1>1, <1>4, <2>1, <2>2, <2>3 DEF Awake
<1>10. Asleep'
  <2> SUFFICES ASSUME there, ~live, delta # None
               PROVE  /\ Agrees(delta, files, unseen \cup mixed)'
                      /\ Serving(head, delta.of)' => Answers(delta, files, unseen, mixed)'
    BY <1>1 DEF Asleep
  <2>1. Agrees(delta, files, unseen \cup mixed)'
    BY <1>1 DEF IndexInv, Asleep, Agrees, Named, Added
  <2>2. ASSUME delta.gen = generation, Serving(head, delta.of)'
        PROVE  Answers(delta, files, unseen, mixed)'
    <3>1. Answers(delta, files, unseen, mixed)
      BY <1>8, <2>2 DEF IndexInv, Asleep
    <3>2. Sound(delta) /\ delta.of \in CommitIds
      BY <1>2 DEF IndexInv, Placed, IndexTypeOK, Changes
    <3>3. (Answers(delta, files, unseen, mixed))'
      BY <1>1, <1>2, <3>1, <3>2 DEF Answers, OnePlace, Tells, RepoGrows, Sound
    <3> QED BY <3>3
  <2> QED BY <1>1, <2>1, <2>2 DEF Answers
<1>11. Stacked'
  BY <1>1 DEF IndexInv, Stacked, RepoGrows
<1> QED BY <1>5, <1>6, <1>7, <1>9, <1>10, <1>11 DEF LiveInv

LEMMA CommitMade ==
  ASSUME IndexInv,
         NEW record \in [tree : Trees, parent : 0..MaxCommits, delta : Changes \cup {None},
                         unseen : SUBSET Paths, mixed : SUBSET Paths],
         Commit(record), UNCHANGED <<overlay, generation>>, blind'.overlay = blind.overlay
  PROVE  /\ RepoGrows
         /\ commits' \in Seq([tree : Trees, parent : 0..MaxCommits, delta : Changes \cup {None},
                              unseen : SUBSET Paths, mixed : SUBSET Paths])
         /\ Len(commits') \in CommitIds /\ Len(commits') = Len(commits) + 1
         /\ 1..Len(commits) \subseteq 1..Len(commits')
         /\ commits'[Len(commits')] = record
         /\ \A c \in 1..Len(commits) : CommittedAt(c)'
         /\ overlay[Len(commits')] = None /\ chain[Len(commits')] = None
<1> DEFINE R == [tree : Trees, parent : 0..MaxCommits, delta : Changes \cup {None},
                 unseen : SUBSET Paths, mixed : SUBSET Paths]
<1>1. commits \in Seq(R) /\ Len(commits) \in CommitIds /\ record \in R
  BY DEF IndexInv, IndexTypeOK
<1> HIDE DEF R
<1>2. /\ commits' \in Seq(R) /\ Len(commits') = Len(commits) + 1
      /\ commits'[Len(commits')] = record
      /\ \A c \in 1..Len(commits) : commits'[c] = commits[c]
  BY <1>1, AppendProperties DEF Commit
<1>3. /\ Len(commits) \in Nat /\ Len(commits) < MaxCommits /\ MaxCommits \in Nat
  BY <1>1, CommitNumbers, SessionIndexAssumption DEF Commit
<1>4. /\ Len(commits') \in CommitIds /\ Len(commits') \in Nat /\ Len(commits) <= Len(commits')
      /\ 1..Len(commits) \subseteq 1..Len(commits') /\ Len(commits') \notin 1..Len(commits)
  BY <1>2, <1>3 DEF CommitIds
<1>5. RepoGrows
  BY <1>2, <1>4 DEF RepoGrows
<1>6. \A c \in 1..Len(commits) : CommittedAt(c)'
  BY <1>5, CommitStays DEF IndexInv, Committed
<1>7. overlay[Len(commits')] = None /\ chain[Len(commits')] = None
  BY <1>4 DEF IndexInv, Manifests
<1> QED BY <1>2, <1>4, <1>5, <1>6, <1>7 DEF R

\* A dirty overlay that is saved as the delta.
LEMMA SavedInv ==
  ASSUME IndexInv, live, RepoGrows, delta' = dirty, head' # 0, idx' # 0,
         UNCHANGED <<there, files, staging, live, dirty, pending, vouched, unseen, mixed>>
  PROVE  LiveInv'
<1>1. /\ dirty \in Changes /\ Sound(dirty) /\ dirty.gen = generation /\ generation' = generation
      /\ generation \in 0..MaxChanges /\ dirty.of \in CommitIds /\ overlay[dirty.of] # None
  BY LiveFacts DEF IndexInv, Awake, RepoGrows
<1>2. Sound(dirty)' /\ Sound(delta)'
  <2>1. PICK d : d = dirty /\ d = dirty' /\ d = delta'
    OBVIOUS
  <2>2. Sound(d)'
    BY <1>1, <2>1, SoundStays DEF IndexInv
  <2> QED BY <2>1, <2>2 DEF Sound, Added
<1>3. Master' = Master
  BY <1>1 DEF RepoGrows, Master
<1>4. Loaded(dirty, staging, dirty.of) = dirty /\ Queued(dirty, staging) = {}
  BY <1>1, LiveFacts, RestoresWhole
<1>5. Placed'
  BY <1>2 DEF IndexInv, Placed
<1>6. SessionExact' /\ StampsVouch'
  BY <1>3 DEF IndexInv, SessionExact, StampsVouch, Tells
<1>7. DeltaRestores' /\ Queued(delta, staging)' = {}
  BY <1>1, <1>4 DEF DeltaRestores, Loaded, Queued, Restorable, NoChanges, Added
<1>8. Awake'
  <2>1. (\A p \in Paths \ mixed : OnePlace(dirty, Master, p))'
    BY <1>3 DEF IndexInv, Awake, OnePlace
  <2> QED BY <1>1, <1>2, <1>7, <2>1 DEF Awake
<1>9. Asleep'
  BY DEF Asleep
<1> QED BY <1>5, <1>6, <1>7, <1>8, <1>9 DEF LiveInv

LEMMA LiveCommits ==
  ASSUME IndexInv, live
  PROVE  /\ files \in Trees /\ unseen \subseteq Paths /\ mixed \subseteq Paths
         /\ head \in CommitIds /\ head \in 1..Len(commits)
         /\ \A k \in 1..Len(stack) : stack[k].pre \in CommitIds
<1>1. head # 0 /\ head \in 0..Len(commits) /\ Len(commits) \in CommitIds
  BY DEF IndexInv, Placed, IndexTypeOK
<1>2. 1..Len(commits) \subseteq CommitIds /\ Len(commits) \in Nat
  BY <1>1, SessionIndexAssumption DEF CommitIds
<1>3. \A k \in 1..Len(stack) : stack[k].pre \in CommitIds
  BY <1>2 DEF IndexInv, Stacked
<1>4. files \in Trees /\ unseen \subseteq Paths /\ mixed \subseteq Paths
  BY DEF IndexInv, IndexTypeOK
<1>5. head \in CommitIds /\ head \in 1..Len(commits)
  BY <1>1, <1>2
<1> QED BY <1>3, <1>4, <1>5

LEMMA BeginInv == ASSUME IndexInv, BeginTransaction PROVE IndexInv'
<1> PICK n : n = Len(commits')
  OBVIOUS
<1> DEFINE R == [tree : Trees, parent : 0..MaxCommits, delta : Changes \cup {None},
                 unseen : SUBSET Paths, mixed : SUBSET Paths]
           record == [tree |-> files, parent |-> head, delta |-> dirty, unseen |-> unseen,
                      mixed |-> mixed]
           S == [oid : CommitIds, pre : CommitIds, created : SUBSET Paths]
           top == [oid |-> n, pre |-> head, created |-> {}]
           odd == unseen \cup mixed
<1>1. /\ live /\ delta' = dirty /\ Commit(record) /\ head' = n /\ idx' = n
      /\ stack' = Append(stack, top)
      /\ UNCHANGED <<changes, upstream, overlay, chain, generation, blind, there, files, staging,
                     live, dirty, pending, vouched, unseen, mixed>>
  BY DEF BeginTransaction
<1>2. record \in R
  <2>1. CommitIds \subseteq 0..MaxCommits
    BY SessionIndexAssumption DEF CommitIds
  <2> QED BY <1>1, <2>1, LiveFacts, LiveCommits
<1> HIDE DEF record
<1>3. /\ RepoGrows /\ commits' \in Seq(R)
      /\ n \in CommitIds /\ n = Len(commits) + 1 /\ 1..Len(commits) \subseteq 1..n
      /\ commits'[n] = record
      /\ \A c \in 1..Len(commits) : CommittedAt(c)'
      /\ overlay[n] = None /\ chain[n] = None
  BY <1>1, <1>2, CommitMade
<1>4. Len(commits) \in Nat /\ n # 0
  BY <1>3, CommitNumbers DEF IndexInv, IndexTypeOK
<1>5. LiveInv'
  BY <1>1, <1>3, <1>4, SavedInv
<1>6. CommittedAt(n)'
  <2> DEFINE d == dirty
  <2>1. Sound(dirty)'
    BY <1>1, <1>5 DEF LiveInv, Awake
  <2>2. Agrees(dirty, files, odd)
    <3> SUFFICES ASSUME NEW p \in Named(dirty) \ odd PROVE files[p] = dirty.added[p]
      BY DEF Agrees
    <3>1. dirty \in Changes /\ p \in Paths
      BY <1>1, LiveFacts DEF Changes, Named, Added
    <3>2. Tells(dirty, Master, p, files[p])
      BY <1>1, <3>1 DEF IndexInv, SessionExact
    <3> QED BY <3>1, <3>2, NamedTells
  <2>3. Answers(dirty, files, unseen, mixed)
    BY <1>1 DEF IndexInv, SessionExact, Awake, Answers, Master
  <2>4. \A p \in Paths \ (odd \cup Named(dirty) \cup blind.overlay[dirty.of]) :
          commits[dirty.of].tree[p] = files[p]
    <3> SUFFICES ASSUME NEW p \in Paths \ (odd \cup Named(dirty) \cup blind.overlay[dirty.of])
                 PROVE  commits[dirty.of].tree[p] = files[p]
      OBVIOUS
    <3>1. dirty \in Changes /\ dirty.of \in 1..Len(commits) /\ overlay[dirty.of] # None
      BY <1>1, LiveFacts
    <3>2. Tells(dirty, Master, p, files[p])
      BY <1>1 DEF IndexInv, SessionExact
    <3>3. Master[p] = files[p]
      BY <3>1, <3>2, UnnamedTells
    <3>4. overlay[dirty.of][p] = commits[dirty.of].tree[p]
      BY <3>1 DEF IndexInv, ArtefactsExact
    <3> QED BY <3>3, <3>4 DEF Master
  <2>5. PICK r : /\ r = record /\ r = commits'[n]
                 /\ r.tree = files /\ r.delta = dirty /\ r.unseen = unseen /\ r.mixed = mixed
    BY <1>3 DEF record
  <2>6. dirty.of \in 1..Len(commits) /\ commits'[dirty.of] = commits[dirty.of]
    BY <1>1, <1>3, LiveFacts DEF RepoGrows
  <2>7. Agrees(r.delta, r.tree, r.unseen \cup r.mixed)'
    BY <1>1, <2>2, <2>5 DEF Agrees, Named, Added
  <2>8. Answers(r.delta, r.tree, r.unseen, r.mixed)'
    BY <1>1, <2>3, <2>5 DEF Answers, Tells, OnePlace
  <2>9. Sound(r.delta)'
    BY <1>1, <2>1, <2>5 DEF Sound, Added
  <2>10. (\A p \in Paths \ (r.unseen \cup r.mixed \cup Named(r.delta) \cup blind.overlay[r.delta.of]) :
            commits[r.delta.of].tree[p] = r.tree[p])'
    BY <1>1, <2>4, <2>5, <2>6 DEF Named, Added
  <2> QED BY <2>5, <2>7, <2>8, <2>9, <2>10 DEF CommittedAt
<1>7. Committed'
  BY <1>3, <1>4, <1>6 DEF Committed
<1>8. Manifests'
  <2> SUFFICES ASSUME NEW c \in CommitIds
               PROVE  /\ overlay[c] # None \/ chain[c] # None => c \in 1..n
                      /\ chain[c] # None => chain[c].gen = generation /\ Sound(chain[c])'
    BY <1>1 DEF Manifests, Sound, Added
  <2>1. ASSUME chain[c] # None PROVE Sound(chain[c])'
    <3>1. PICK d : d = chain[c] /\ d = chain'[c]
      BY <1>1
    <3>2. d \in Changes
      BY <2>1, <3>1 DEF IndexInv, IndexTypeOK
    <3>3. d.of \in CommitIds /\ Sound(d)
      BY <2>1, <3>1, <3>2 DEF IndexInv, Manifests, Changes
    <3>4. Sound(d)'
      BY <1>3, <3>3, SoundStays DEF IndexInv
    <3> QED BY <3>1, <3>4 DEF Sound, Added
  <2> QED BY <1>3, <2>1 DEF IndexInv, Manifests
<1>9. ArtefactsExact'
  <2> SUFFICES ASSUME NEW c \in 1..n, NEW p \in Paths
               PROVE  /\ overlay[c] # None /\ p \notin blind.overlay[c] =>
                           overlay[c][p] = commits'[c].tree[p]
                      /\ chain[c] # None /\ p \notin blind.chain[c] =>
                           Tells(chain[c], overlay[chain[c].of], p, commits'[c].tree[p])
    BY <1>1 DEF ArtefactsExact, Tells
  <2>1. CASE c = n
    BY <1>3, <2>1
  <2>2. CASE c # n
    <3>1. c \in 1..Len(commits) /\ commits'[c] = commits[c]
      BY <1>3, <1>4, <2>2 DEF RepoGrows
    <3> QED BY <3>1 DEF IndexInv, ArtefactsExact
  <2> QED BY <2>1, <2>2
<1>10. stack' \in Seq(S) /\ Stacked'
  <2>1. stack \in Seq(S) /\ top \in S
    BY <1>1, <1>3, LiveCommits DEF IndexInv, IndexTypeOK
  <2>2. top.oid = n /\ top.pre = head /\ commits'[n].delta = dirty /\ dirty # None
    BY <1>1, <1>3, LiveFacts, NoneAssumption DEF record
  <2> HIDE DEF top, S
  <2>3. /\ stack' \in Seq(S) /\ Len(stack') = Len(stack) + 1 /\ Len(stack) \in Nat
        /\ stack'[Len(stack) + 1] = top
        /\ \A k \in 1..Len(stack) : stack'[k] = stack[k]
    BY <1>1, <2>1, AppendProperties, LenProperties
  <2>4. ASSUME NEW k \in 1..Len(stack')
        PROVE  /\ {stack'[k].oid, stack'[k].pre} \subseteq 1..n
               /\ commits'[stack'[k].oid].delta # None
    <3>1. CASE k = Len(stack')
      BY <1>1, <1>3, <1>4, <2>2, <2>3, <3>1, LiveCommits
    <3>2. CASE k # Len(stack')
      <4>1. k \in 1..Len(stack) /\ stack'[k] = stack[k]
        BY <2>3, <3>2
      <4> QED BY <1>3, <4>1 DEF IndexInv, Stacked, RepoGrows
    <3> QED BY <3>1, <3>2
  <2> QED BY <2>3, <2>4 DEF Stacked
<1>11. IndexTypeOK'
  <2>1. upstream' \in 1..n /\ n \in 0..n
    BY <1>1, <1>3, <1>4 DEF IndexInv, IndexTypeOK
  <2> QED BY <1>1, <1>3, <1>10, <2>1, LiveFacts DEF IndexInv, IndexTypeOK
<1> QED BY <1>5, <1>7, <1>8, <1>9, <1>10, <1>11 DEF IndexInv, LiveInv

\* A manifest, and an overlay, go on telling the files of their commit.
LEMMA ManifestStays ==
  ASSUME IndexInv, RepoGrows, NEW c \in CommitIds, NEW d, d = chain[c], d # None
  PROVE  /\ c \in 1..Len(commits) /\ c \in 1..Len(commits')
         /\ d \in Changes /\ d.of \in CommitIds /\ d.gen = generation /\ Sound(d) /\ Sound(d)'
         /\ \A p \in Paths \ blind.chain[c] :
              Tells(d, overlay'[d.of], p, commits'[c].tree[p])
<1>1. /\ c \in 1..Len(commits) /\ d.gen = generation /\ Sound(d)
  BY DEF IndexInv, Manifests
<1>2. d \in Changes /\ d.of \in CommitIds
  BY DEF IndexInv, IndexTypeOK, Changes
<1>3. Sound(d)'
  BY <1>1, <1>2, SoundStays DEF IndexInv
<1>4. overlay'[d.of] = overlay[d.of] /\ commits'[c] = commits[c]
  BY <1>1, <1>2 DEF RepoGrows, Sound
<1>5. c \in 1..Len(commits')
  BY <1>1, CommitNumbers DEF IndexInv, IndexTypeOK, RepoGrows
<1> QED BY <1>1, <1>2, <1>3, <1>4, <1>5 DEF IndexInv, ArtefactsExact

LEMMA OverlayStays ==
  ASSUME IndexInv, RepoGrows, NEW c \in CommitIds, overlay[c] # None
  PROVE  /\ c \in 1..Len(commits) /\ c \in 1..Len(commits')
         /\ overlay'[c] = overlay[c]
         /\ \A p \in Paths \ blind.overlay[c] : overlay'[c][p] = commits'[c].tree[p]
<1>1. c \in 1..Len(commits) /\ overlay'[c] = overlay[c] /\ commits'[c] = commits[c]
  BY DEF IndexInv, Manifests, RepoGrows
<1>2. c \in 1..Len(commits')
  BY <1>1, CommitNumbers DEF IndexInv, IndexTypeOK, RepoGrows
<1> QED BY <1>1, <1>2 DEF IndexInv, ArtefactsExact

LEMMA CommitMessageInv == ASSUME IndexInv, CommitMessage PROVE IndexInv'
<1> PICK n : n = Len(commits')
  OBVIOUS
<1> DEFINE R == [tree : Trees, parent : 0..MaxCommits, delta : Changes \cup {None},
                 unseen : SUBSET Paths, mixed : SUBSET Paths]
           base == IF stack = <<>> THEN head ELSE stack[1].pre
           record == [tree |-> files, parent |-> base, delta |-> None, unseen |-> {}, mixed |-> {}]
           S == [oid : CommitIds, pre : CommitIds, created : SUBSET Paths]
<1>1. /\ live /\ delta' = dirty /\ Commit(record) /\ head' = n /\ idx' = n
      /\ chain' = [chain EXCEPT ![n] = dirty]
      /\ blind' = [blind EXCEPT !.chain[n] = unseen \cup mixed]
      /\ stack' = <<>>
      /\ UNCHANGED <<changes, upstream, overlay, generation, there, files, staging,
                     live, dirty, pending, vouched, unseen, mixed>>
  BY DEF CommitMessage
<1>2. record \in R
  <2>1. CommitIds \subseteq 0..MaxCommits
    BY SessionIndexAssumption DEF CommitIds
  <2>2. base \in CommitIds
    <3>1. CASE stack = <<>>
      BY <1>1, <3>1, LiveCommits
    <3>2. CASE stack # <<>>
      <4>1. 1 \in 1..Len(stack)
        BY <3>2, EmptySeq, LenProperties DEF IndexInv, IndexTypeOK
      <4> QED BY <1>1, <3>2, <4>1, LiveCommits
    <3> QED BY <3>1, <3>2
  <2> QED BY <1>1, <2>1, <2>2, LiveCommits
<1> HIDE DEF record
<1>3. blind \in [overlay : [CommitIds -> SUBSET Paths], chain : [CommitIds -> SUBSET Paths]]
  BY DEF IndexInv, IndexTypeOK
<1>4. blind'.overlay = blind.overlay /\ blind'.chain = [blind.chain EXCEPT ![n] = unseen \cup mixed]
  BY <1>1, <1>3
<1>5. /\ RepoGrows /\ commits' \in Seq(R)
      /\ n \in CommitIds /\ n = Len(commits) + 1 /\ 1..Len(commits) \subseteq 1..n
      /\ commits'[n] = record
      /\ \A c \in 1..Len(commits) : CommittedAt(c)'
      /\ overlay[n] = None /\ chain[n] = None
  BY <1>1, <1>2, <1>4, CommitMade
<1>6. Len(commits) \in Nat /\ n # 0 /\ record.tree = files /\ record.delta = None
  BY <1>5, CommitNumbers DEF IndexInv, IndexTypeOK, record
<1>7. LiveInv'
  BY <1>1, <1>5, <1>6, SavedInv
<1>8. Committed'
  <2>1. CommittedAt(n)'
    BY <1>5, <1>6 DEF CommittedAt
  <2> QED BY <1>5, <1>6, <2>1 DEF Committed
<1>9. /\ dirty \in Changes /\ dirty.of \in CommitIds /\ dirty.gen = generation /\ Sound(dirty)'
      /\ \A p \in Paths \ (unseen \cup mixed) : Tells(dirty, Master, p, files[p])
  <2>1. Sound(dirty)'
    BY <1>1, <1>7 DEF LiveInv, Awake
  <2> QED BY <1>1, <2>1, LiveFacts DEF IndexInv, SessionExact
<1>10. chain \in [CommitIds -> Changes \cup {None}]
  BY DEF IndexInv, IndexTypeOK
<1>11. Manifests' /\ ArtefactsExact'
  <2> SUFFICES ASSUME NEW c \in CommitIds
               PROVE  /\ overlay[c] # None => c \in 1..n
                      /\ overlay[c] # None => \A p \in Paths \ blind.overlay[c] :
                                                overlay[c][p] = commits'[c].tree[p]
                      /\ chain'[c] # None => /\ c \in 1..n /\ chain'[c].gen = generation
                                             /\ Sound(chain[c])'
                                             /\ \A p \in Paths \ blind'.chain[c] :
                                                  Tells(chain'[c], overlay[chain'[c].of], p,
                                                        commits'[c].tree[p])
    <3>1. 1..n \subseteq CommitIds
      BY <1>5, <1>6, CommitNumbers, SessionIndexAssumption DEF CommitIds
    <3>2. overlay' = overlay /\ generation' = generation
      BY <1>1
    <3>3. Manifests'
      BY <3>2 DEF Manifests
    <3>4. ArtefactsExact'
      BY ZenonT(30), <1>4, <3>1, <3>2 DEF ArtefactsExact, Tells
    <3> QED BY <3>3, <3>4
  <2>1. CASE c = n
    <3>1. chain'[c] = dirty /\ blind'.chain[c] = unseen \cup mixed /\ commits'[c].tree = files
      BY <1>1, <1>3, <1>4, <1>5, <1>6, <1>10, <2>1
    <3>2. Sound(chain[c])'
      BY <1>1, <1>9, <3>1 DEF Sound, Added
    <3>3. c \in 1..n
      BY <1>5, <1>6, <2>1
    <3> QED BY <1>5, <1>9, <2>1, <3>1, <3>2, <3>3 DEF Master
  <2>2. CASE c # n
    <3>1. chain'[c] = chain[c] /\ blind'.chain[c] = blind.chain[c]
      BY <1>1, <1>3, <1>4, <1>10, <2>2
    <3>2. PICK d : d = chain[c] /\ d = chain'[c]
      BY <3>1
    <3>3. ASSUME d # None
          PROVE  /\ c \in 1..n /\ d.gen = generation /\ Sound(chain[c])'
                 /\ \A p \in Paths \ blind'.chain[c] : Tells(d, overlay[d.of], p, commits'[c].tree[p])
      <4>1. /\ c \in 1..n /\ d.gen = generation /\ Sound(d)'
            /\ \A p \in Paths \ blind.chain[c] : Tells(d, overlay'[d.of], p, commits'[c].tree[p])
        BY <1>5, <3>2, <3>3, ManifestStays
      <4> QED BY <1>1, <3>1, <3>2, <4>1 DEF Sound, Added
    <3>4. ASSUME overlay[c] # None
          PROVE  /\ c \in 1..n
                 /\ \A p \in Paths \ blind.overlay[c] : overlay[c][p] = commits'[c].tree[p]
      BY <1>1, <1>5, <3>4, OverlayStays
    <3> QED BY <3>2, <3>3, <3>4
  <2> QED BY <2>1, <2>2
<1>12. stack' \in Seq(S) /\ Stacked'
  BY <1>1, EmptySeq DEF Stacked
<1>13. IndexTypeOK'
  <2>1. upstream' \in 1..n /\ n \in 0..n
    BY <1>1, <1>5, <1>6 DEF IndexInv, IndexTypeOK
  <2>2. chain' \in [CommitIds -> Changes \cup {None}]
    BY <1>1, <1>9, <1>10
  <2>3. blind' \in [overlay : [CommitIds -> SUBSET Paths], chain : [CommitIds -> SUBSET Paths]]
    BY <1>1, <1>3, LiveCommits
  <2> QED BY <1>1, <1>5, <1>9, <1>12, <2>1, <2>2, <2>3 DEF IndexInv, IndexTypeOK
<1> QED BY <1>7, <1>8, <1>11, <1>12, <1>13 DEF IndexInv, LiveInv

LEMMA RefreshInv == ASSUME IndexInv, Refresh PROVE IndexInv'
<1> PICK n : n = Len(commits')
  OBVIOUS
<1> PICK p \in Paths, content \in Contents \cup {Absent},
         c \in {upstream} \cup (IF head # 0 /\ commits[head].delta = None THEN {head} ELSE {}) :
      /\ Commit([tree |-> [commits[c].tree EXCEPT ![p] = content], parent |-> c, delta |-> None,
                 unseen |-> {}, mixed |-> {}])
      /\ upstream' = n
      /\ UNCHANGED <<overlay, chain, generation, blind, wtVars, ramVars, unseen, mixed>>
  BY DEF Refresh
<1> DEFINE R == [tree : Trees, parent : 0..MaxCommits, delta : Changes \cup {None},
                 unseen : SUBSET Paths, mixed : SUBSET Paths]
           record == [tree |-> [commits[c].tree EXCEPT ![p] = content], parent |-> c,
                      delta |-> None, unseen |-> {}, mixed |-> {}]
<1>1. record \in R
  <2>1. c \in 1..Len(commits)
    BY DEF IndexInv, IndexTypeOK
  <2>2. c \in CommitIds /\ commits[c].tree \in Trees
    BY <2>1, CommitType DEF IndexInv
  <2>3. [commits[c].tree EXCEPT ![p] = content] \in Trees
    BY <2>2 DEF Trees
  <2>4. c \in 0..MaxCommits
    BY <2>2, SessionIndexAssumption DEF CommitIds
  <2> QED BY <2>3, <2>4
<1>2. record.delta = None
  OBVIOUS
<1> HIDE DEF record
<1>3. /\ RepoGrows /\ commits' \in Seq(R)
      /\ n \in CommitIds /\ n = Len(commits) + 1 /\ 1..Len(commits) \subseteq 1..n
      /\ commits'[n] = record
      /\ \A k \in 1..Len(commits) : CommittedAt(k)'
      /\ overlay[n] = None /\ chain[n] = None
  BY <1>1, CommitMade DEF record
<1>4. Len(commits) \in Nat /\ 1..n \subseteq CommitIds
  <2>1. Len(commits) \in Nat
    BY DEF IndexInv, IndexTypeOK
  <2>2. 1..n \subseteq CommitIds
    <3>1. n \in CommitIds
      BY <1>3
    <3>2. \A k \in CommitIds : 1..k \subseteq CommitIds
      BY SessionIndexAssumption DEF CommitIds
    <3> QED BY <3>1, <3>2
  <2> QED BY <2>1, <2>2
<1>5. Committed'
  <2>1. CommittedAt(n)'
    BY <1>2, <1>3 DEF CommittedAt
  <2> QED BY <1>3, <1>4, <2>1 DEF Committed
<1>6. overlay' = overlay /\ chain' = chain /\ blind' = blind /\ generation' = generation
  OBVIOUS
<1>7. Manifests'
  <2> SUFFICES ASSUME NEW k \in CommitIds
               PROVE  /\ overlay[k] # None \/ chain[k] # None => k \in 1..n
                      /\ chain[k] # None => chain[k].gen = generation /\ Sound(chain[k])'
    BY <1>6 DEF Manifests
  <2>1. PICK d : d = chain[k] /\ d = chain'[k]
    BY <1>6
  <2>2. overlay[k] # None => k \in 1..n
    BY <1>3, OverlayStays
  <2>3. d # None => k \in 1..n /\ d.gen = generation /\ Sound(d)'
    BY <1>3, <2>1, ManifestStays
  <2> QED BY <2>1, <2>2, <2>3 DEF Sound, Added
<1>8. ArtefactsExact'
  <2> SUFFICES ASSUME NEW k \in 1..n
               PROVE  /\ overlay[k] # None => \A r \in Paths \ blind.overlay[k] :
                           overlay[k][r] = commits'[k].tree[r]
                      /\ chain[k] # None => \A r \in Paths \ blind.chain[k] :
                           Tells(chain[k], overlay[chain[k].of], r, commits'[k].tree[r])
    BY <1>6 DEF ArtefactsExact, Tells
  <2>1. k \in CommitIds
    BY <1>4
  <2>2. overlay[k] # None => \A r \in Paths \ blind.overlay[k] :
                                overlay[k][r] = commits'[k].tree[r]
    BY <1>3, <1>6, <2>1, OverlayStays
  <2>3. chain[k] # None => \A r \in Paths \ blind.chain[k] :
                              Tells(chain[k], overlay[chain[k].of], r, commits'[k].tree[r])
    BY <1>3, <1>6, <2>1, ManifestStays
  <2> QED BY <2>2, <2>3
<1>9. LiveInv' /\ Stacked'
  <2>1. head' = head
    BY DEF wtVars
  <2> QED BY <1>3, <1>6, <2>1, StateStays DEF Serving
<1>10. IndexTypeOK'
  <2>1. /\ there' = there /\ head' = head /\ idx' = idx /\ files' = files /\ delta' = delta
        /\ staging' = staging /\ live' = live /\ dirty' = dirty /\ pending' = pending
        /\ vouched' = vouched /\ stack' = stack /\ unseen' = unseen /\ mixed' = mixed
    BY DEF wtVars, ramVars
  <2>2. head \in 0..n /\ idx \in 0..n /\ n \in 1..n
    BY <1>3, <1>4 DEF IndexInv, IndexTypeOK
  <2> QED BY <1>3, <1>6, <2>1, <2>2 DEF IndexInv, IndexTypeOK
<1> QED BY <1>5, <1>7, <1>8, <1>9, <1>10 DEF IndexInv, LiveInv

LEMMA WarmInv == ASSUME IndexInv, Warm PROVE IndexInv'
<1> PICK c \in 1..Len(commits) :
      /\ overlay[c] = None /\ commits[c].delta = None
      /\ \/ /\ overlay' = [overlay EXCEPT ![c] = commits[c].tree]
            /\ UNCHANGED chain
         \/ /\ chain[c] = None /\ Masters(c) # {}
            /\ chain' = [chain EXCEPT ![c] = Derived(Nearest(c), commits[c].tree)]
            /\ UNCHANGED overlay
      /\ UNCHANGED <<changes, commits, upstream, generation, blind, wtVars, ramVars,
                     unseen, mixed>>
  BY DEF Warm
<1> DEFINE m == Nearest(c)
           e == Derived(m, commits[c].tree)
<1>1. /\ c \in CommitIds /\ commits[c].tree \in Trees /\ commits[c].tree # None
      /\ overlay \in [CommitIds -> Trees \cup {None}] /\ chain \in [CommitIds -> Changes \cup {None}]
      /\ generation \in 0..MaxChanges /\ Len(commits) \in Nat
  BY CommitType, NoneAssumption DEF IndexInv, IndexTypeOK
<1>2. commits' = commits /\ generation' = generation /\ blind' = blind /\ head' = head
  BY DEF wtVars
<1>3. RepoGrows
  BY <1>1, <1>2 DEF RepoGrows
<1>4. Masters(c) # {} => /\ m \in CommitIds /\ m \in 1..Len(commits) /\ overlay[m] # None
                         /\ overlay[m] \in Trees
  BY <1>1, NearestMaster DEF IndexInv, Manifests
<1>5. Masters(c) # {} =>
        /\ e \in Changes /\ e.of = m /\ e.gen = generation /\ e.repl \subseteq Added(e) \cap e.removed
        /\ \A p \in Paths : Tells(e, overlay[m], p, commits[c].tree[p])
  BY <1>1, <1>4, DerivedTells
<1> HIDE DEF m, e
<1>6. Committed'
  BY <1>2, <1>3, CommitStays DEF IndexInv, Committed
<1>7. ASSUME NEW k \in CommitIds, chain'[k] # None
      PROVE  /\ k \in 1..Len(commits) /\ chain'[k].gen = generation /\ Sound(chain[k])'
             /\ \A p \in Paths \ blind.chain[k] :
                  Tells(chain'[k], overlay'[chain'[k].of], p, commits[k].tree[p])
  <2>1. CASE chain'[k] = chain[k]
    <3>1. PICK d : d = chain[k] /\ d = chain'[k]
      BY <2>1
    <3>2. /\ k \in 1..Len(commits) /\ d.gen = generation /\ Sound(d)'
          /\ \A p \in Paths \ blind.chain[k] : Tells(d, overlay'[d.of], p, commits'[k].tree[p])
      BY <1>3, <1>7, <3>1, ManifestStays
    <3> QED BY <1>2, <3>1, <3>2 DEF Sound, Added
  <2>2. CASE chain'[k] # chain[k]
    <3>1. k = c /\ Masters(c) # {} /\ chain'[k] = e /\ overlay' = overlay
      BY <1>1, <2>2 DEF e, m
    <3>2. PICK d : d = e /\ d = chain'[k]
      BY <3>1
    <3>3. Sound(d)
      BY <1>1, <1>4, <1>5, <3>1, <3>2 DEF Sound
    <3>4. Sound(chain[k])'
      BY <1>2, <3>1, <3>2, <3>3 DEF Sound, Added
    <3> QED BY <1>5, <3>1, <3>4
  <2> QED BY <2>1, <2>2
<1>8. ASSUME NEW k \in CommitIds, overlay'[k] # None
      PROVE  /\ k \in 1..Len(commits)
             /\ \A p \in Paths \ blind.overlay[k] : overlay'[k][p] = commits[k].tree[p]
  <2>1. CASE overlay'[k] = overlay[k]
    BY <1>2, <1>3, <1>8, <2>1, OverlayStays
  <2>2. CASE overlay'[k] # overlay[k]
    BY <1>1, <2>2
  <2> QED BY <2>1, <2>2
<1>9. Manifests'
  BY <1>2, <1>7, <1>8 DEF Manifests
<1>10. ArtefactsExact'
  <2>1. 1..Len(commits) \subseteq CommitIds
    BY CommitType DEF IndexInv
  <2> QED BY <1>2, <1>7, <1>8, <2>1 DEF ArtefactsExact, Tells
<1>11. LiveInv' /\ Stacked'
  <2>1. ASSUME NEW k \in CommitIds, head # 0, overlay[k] # None, Serving(head, k)'
        PROVE  Serving(head, k)
    <3> PICK h \in CommitIds : h = head /\ h = head'
      BY <1>1, <1>2, <2>1, CommitType DEF IndexInv, IndexTypeOK
    <3>1. CASE overlay' = overlay
      BY <1>1, <1>2, <2>1, <3>1 DEF Serving
    <3>2. CASE overlay' = [overlay EXCEPT ![c] = commits[c].tree] /\ chain' = chain
      BY <1>1, <1>2, <2>1, <3>2 DEF Serving
    <3> QED BY <3>1, <3>2
  <2> QED BY <1>3, <2>1, StateStays
<1>12. IndexTypeOK'
  <2>1. /\ there' = there /\ head' = head /\ idx' = idx /\ files' = files /\ delta' = delta
        /\ staging' = staging /\ live' = live /\ dirty' = dirty /\ pending' = pending
        /\ vouched' = vouched /\ stack' = stack /\ unseen' = unseen /\ mixed' = mixed
    BY DEF wtVars, ramVars
  <2>2. overlay' \in [CommitIds -> Trees \cup {None}]
    BY <1>1
  <2>3. chain' \in [CommitIds -> Changes \cup {None}]
    BY <1>1, <1>5 DEF e, m
  <2> QED BY <1>2, <2>1, <2>2, <2>3 DEF IndexInv, IndexTypeOK
<1> QED BY <1>6, <1>9, <1>10, <1>11, <1>12 DEF IndexInv, LiveInv

\* The bound on the changes bounds the generations.
Counts == changes \in Nat /\ generation \in 0..changes /\ changes <= MaxChanges

LEMMA CountsInit == IndexInit => Counts
BY SessionIndexAssumption DEF IndexInit, Counts

LEMMA CountsNext == Counts /\ [IndexNext]_indexVars => Counts'
<1> SUFFICES ASSUME Counts, [IndexNext]_indexVars PROVE Counts'
  OBVIOUS
<1>1. MaxChanges \in Nat
  BY SessionIndexAssumption
<1>2. CASE UNCHANGED <<changes, generation>>
  BY <1>2 DEF Counts
<1>3. CASE Counted /\ generation' = generation
  BY <1>1, <1>3 DEF Counts, Counted
<1>4. CASE Upgrade
  BY <1>1, <1>4 DEF Counts, Counted, Upgrade
<1>5. \/ UNCHANGED <<changes, generation>>
      \/ Counted /\ generation' = generation
      \/ Upgrade
  BY DEF IndexNext, Write, WriteAndDie, Rewrite, Verified, Stale, BeginTransaction, Rollback,
         CommitMessage, FastForward, Resume, Checkout, End, RemoveCheckout, Refresh, Warm,
         indexVars, repoVars
<1> QED BY <1>2, <1>3, <1>4, <1>5

\* A new generation reads no manifest, no overlay, and no segment of a delta.
LEMMA UpgradeInv == ASSUME IndexInv, Counts, Upgrade PROVE IndexInv'
<1>1. /\ ~live /\ changes < MaxChanges /\ generation' = generation + 1
      /\ overlay' = [c \in CommitIds |-> None] /\ chain' = [c \in CommitIds |-> None]
      /\ UNCHANGED <<commits, upstream, blind, wtVars, ramVars, unseen, mixed>>
  BY DEF Upgrade, Counted
<1>2. /\ there' = there /\ head' = head /\ idx' = idx /\ files' = files /\ delta' = delta
      /\ staging' = staging /\ live' = live /\ dirty' = dirty /\ pending' = pending
      /\ vouched' = vouched /\ stack' = stack /\ unseen' = unseen /\ mixed' = mixed
      /\ commits' = commits /\ upstream' = upstream /\ blind' = blind
  BY <1>1 DEF wtVars, ramVars
<1>3. generation \in 0..MaxChanges /\ MaxChanges \in Nat
  BY SessionIndexAssumption DEF IndexInv, IndexTypeOK
<1>4. ASSUME NEW d \in Changes, Sound(d)
      PROVE  d.gen # generation' /\ Sound(d)'
  <2>1. d.gen # generation' /\ d.gen <= generation'
    BY <1>1, <1>3, <1>4 DEF Sound, Changes
  <2> QED BY <1>2, <1>4, <2>1 DEF Sound, Added
<1>5. Manifests' /\ ArtefactsExact'
  <2>1. 1..Len(commits) \subseteq CommitIds
    BY CommitType DEF IndexInv
  <2> QED BY <1>1, <1>2, <2>1 DEF Manifests, ArtefactsExact
<1>6. Committed'
  <2> SUFFICES ASSUME NEW c \in 1..Len(commits) PROVE CommittedAt(c)'
    BY <1>2 DEF Committed
  <2>1. PICK r : r = commits[c] /\ r = commits'[c]
    BY <1>2
  <2>2. CASE r.delta = None
    BY <2>1, <2>2 DEF CommittedAt
  <2>3. CASE r.delta # None
    <3>1. r.delta \in Changes /\ Sound(r.delta)
      BY <2>1, <2>3, CommitType DEF IndexInv, Committed, CommittedAt
    <3>2. r.delta.gen # generation' /\ Sound(r.delta)'
      BY <1>4, <3>1
    <3>3. /\ Agrees(r.delta, r.tree, r.unseen \cup r.mixed)
          /\ \A p \in Paths \ (r.unseen \cup r.mixed \cup Named(r.delta) \cup blind.overlay[r.delta.of]) :
               commits[r.delta.of].tree[p] = r.tree[p]
      BY <2>1, <2>3 DEF IndexInv, Committed, CommittedAt
    <3> QED BY <1>2, <2>1, <3>2, <3>3 DEF CommittedAt, Answers, Agrees, Named, Added
  <2> QED BY <2>2, <2>3
<1>7. Stacked'
  BY <1>2 DEF IndexInv, Stacked
<1>8. delta # None => delta.gen # generation' /\ Sound(delta)'
  <2> SUFFICES ASSUME delta # None PROVE delta.gen # generation' /\ Sound(delta)'
    OBVIOUS
  <2>1. PICK d \in Changes : d = delta /\ d = delta'
    BY <1>2 DEF IndexInv, IndexTypeOK
  <2>2. Sound(d)
    BY <2>1 DEF IndexInv, Placed
  <2> QED BY <1>4, <2>1, <2>2 DEF Sound, Added
<1>9. Placed' /\ Awake' /\ SessionExact' /\ StampsVouch' /\ DeltaRestores'
  BY <1>1, <1>2, <1>8 DEF IndexInv, Placed, Awake, SessionExact, StampsVouch, DeltaRestores
<1>10. Asleep'
  BY <1>1, <1>2, <1>8 DEF IndexInv, Asleep, Answers, Agrees, Named, Added
<1>11. IndexTypeOK'
  <2>1. generation' \in 0..MaxChanges
    BY <1>1, <1>3 DEF Counts
  <2> QED BY <1>1, <1>2, <2>1 DEF IndexInv, IndexTypeOK
<1> QED BY <1>5, <1>6, <1>7, <1>9, <1>10, <1>11 DEF IndexInv

LEMMA RemoveCheckoutInv == ASSUME IndexInv, RemoveCheckout PROVE IndexInv'
<1>1. /\ ~live /\ there' = FALSE /\ head' \in {head, 0} /\ idx' = 0
      /\ files' = NoFiles /\ delta' = None /\ staging' = {} /\ stack' = <<>>
      /\ unseen' = {} /\ mixed' = {}
      /\ UNCHANGED <<repoVars, live, dirty, pending, vouched>>
  BY DEF RemoveCheckout
<1>2. Manifests' /\ Committed' /\ ArtefactsExact'
  BY <1>1, RepoSame
<1>3. Stacked' /\ Placed' /\ Awake' /\ Asleep' /\ SessionExact' /\ StampsVouch' /\ DeltaRestores'
  BY <1>1 DEF Stacked, Placed, Awake, Asleep, SessionExact, StampsVouch, DeltaRestores
<1>4. IndexTypeOK'
  <2>1. NoFiles \in Trees
    BY DEF NoFiles, Trees
  <2>2. stack' \in Seq([oid : CommitIds, pre : CommitIds, created : SUBSET Paths])
    BY <1>1, EmptySeq
  <2>3. 0 \in 0..Len(commits)
    BY CommitNumbers DEF IndexInv, IndexTypeOK
  <2> QED BY <1>1, <2>1, <2>2, <2>3 DEF IndexInv, IndexTypeOK, repoVars
<1> QED BY <1>2, <1>3, <1>4 DEF IndexInv

-----------------------------------------------------------------------------
\* What a session in memory has after a rollback or an attach: changes l over a
\* master, which the delta e and the segments of stg give back, and then the
\* paths of q re-indexed.
Settles(l, e, stg, q, wt) ==
  IF q = {} THEN dirty' = l /\ delta' = e /\ staging' = stg ELSE TakeIn(l, q, wt, stg)

\* l tells the files wt, and in one place, short of q.
Fits(l, q, wt) ==
  /\ \A p \in Paths \ (unseen' \cup mixed' \cup q) : Tells(l, overlay'[l.of], p, wt[p])
  /\ \A p \in vouched' \ (mixed' \cup q) : Tells(l, overlay'[l.of], p, wt[p])
  /\ \A p \in Paths \ (mixed' \cup q) : OnePlace(l, overlay'[l.of], p)

\* A delta that is left as it was is over that master, if it could be taken so.
Follows(l, e, q) ==
  q = {} /\ e # None /\ e.gen = generation /\ Serving(head, e.of)' =>
    e.of = l.of \/ mixed' = Paths

LEMMA Settled ==
  ASSUME RepoGrows, generation \in 0..MaxChanges, live', there',
         head' # 0, idx' # 0, vouched' \subseteq Paths,
         NEW wt \in Trees, files' = wt,
         NEW l \in Changes, l.gen = generation, Sound(l)', overlay'[l.of] \in Trees,
         NEW e \in Changes \cup {None}, e # None => Sound(e)',
         NEW stg \in SUBSET (Paths \X Contents),
         NEW q \in SUBSET Paths,
         Segments(l) \subseteq stg, q = {} => Loaded(e, stg, l.of) = l,
         Queued(e, stg) \subseteq q \cup (pending' \cap mixed'),
         Settles(l, e, stg, q, wt), Fits(l, q, wt), Follows(l, e, q)
  PROVE  /\ LiveInv'
         /\ dirty' \in Changes /\ delta' \in Changes \cup {None}
         /\ staging' \subseteq Paths \X Contents
<1> PICK M \in Trees : M = overlay'[l.of]
  OBVIOUS
<1>1. CASE q = {}
  <2>0. generation' = generation
    BY DEF RepoGrows
  <2>1. dirty' = l /\ delta' = e /\ staging' = stg
    BY <1>1 DEF Settles
  <2>2. Master' = M
    BY <2>1 DEF Master
  <2>3. Sound(dirty)' /\ (delta' # None => Sound(delta)')
    BY <2>1 DEF Sound, Added
  <2>4. Placed'
    BY <2>3 DEF Placed
  <2>5. SessionExact' /\ StampsVouch'
    BY <1>1, <2>1, <2>2 DEF Fits, SessionExact, StampsVouch, Tells
  <2>6. Queued(delta, staging)' = Queued(e, stg)
    BY <2>0, <2>1 DEF Queued, Restorable, Added
  <2>7. Loaded(delta, staging, dirty.of)' = dirty'
    BY <1>1, <2>0, <2>1 DEF Loaded, Restorable, NoChanges, Added
  <2>8. DeltaRestores'
    BY <1>1, <2>6, <2>7 DEF DeltaRestores
  <2>9. Awake'
    <3>1. (\A p \in Paths \ mixed : OnePlace(dirty, Master, p))'
      BY <1>1, <2>1, <2>2 DEF Fits, OnePlace
    <3>2. delta' # None /\ delta'.gen = generation' /\ Serving(head, delta.of)' =>
            delta'.of = dirty'.of \/ mixed' = Paths
      BY <1>1, <2>0, <2>1 DEF Follows, Serving
    <3>3. (Queued(delta, staging) \subseteq mixed)'
      BY <1>1, <2>6
    <3>4. dirty'.gen = generation'
      BY <2>0, <2>1
    <3> QED BY <2>3, <3>1, <3>2, <3>3, <3>4 DEF Awake
  <2>10. Asleep'
    BY DEF Asleep
  <2> QED BY <2>1, <2>4, <2>5, <2>8, <2>9, <2>10 DEF LiveInv
<1>2. CASE q # {}
  <2> DEFINE d == Reindexed(l, M, q, wt)
             s == stg \cup {<<p, wt[p]>> : p \in {r \in q : wt[r] # Absent}}
  <2>1. dirty' = d /\ delta' = d /\ staging' = s
    BY <1>2 DEF Settles, TakeIn
  <2>2. l.repl \subseteq Added(l) \cap l.removed
    BY DEF Sound, Added
  <2>3. /\ d \in Changes /\ d.of = l.of /\ d.gen = generation
        /\ d.repl \subseteq Added(d) \cap d.removed
        /\ Loaded(d, s, d.of) = d /\ Queued(d, s) = {}
    <3>1. Segments(l) \subseteq s /\ Holds(s, q, wt) /\ Backed(l)
      BY <2>2 DEF Holds, Backed
    <3> HIDE DEF s
    <3>2. d \in Changes /\ d.of = l.of /\ d.gen = generation /\ Backed(d) /\ Restores(d, s)
      BY <3>1, ReindexedRestores
    <3> QED BY <3>2 DEF Backed, Restores
  <2>4. /\ \A p \in q : Tells(d, M, p, wt[p]) /\ OnePlace(d, M, p)
        /\ \A p \in Paths \ q : \A content : Tells(l, M, p, content) => Tells(d, M, p, content)
        /\ \A p \in Paths \ q : OnePlace(l, M, p) => OnePlace(d, M, p)
    BY ReindexedTells
  <2>5. staging' \subseteq Paths \X Contents
    <3>1. \A r \in q : wt[r] # Absent => wt[r] \in Contents
      BY DEF Trees
    <3> QED BY <2>1, <3>1
  <2> HIDE DEF d, s
  <2>0. generation' = generation
    BY DEF RepoGrows
  <2>6. Master' = M
    BY <2>1, <2>3 DEF Master
  <2>7. Sound(dirty)' /\ Sound(delta)'
    BY <2>1, <2>3 DEF Sound, Added
  <2>8. Placed'
    BY <2>7 DEF Placed
  <2>9. SessionExact' /\ StampsVouch'
    <3>1. \A p \in Paths \ (unseen' \cup mixed') : Tells(d, M, p, wt[p])
      BY <2>4 DEF Fits
    <3>2. \A p \in vouched' \ mixed' : Tells(d, M, p, wt[p])
      BY <2>4 DEF Fits
    <3> QED BY <2>1, <2>6, <3>1, <3>2 DEF SessionExact, StampsVouch, Tells
  <2>10. Queued(delta, staging)' = {} /\ Loaded(delta, staging, dirty.of)' = dirty'
    BY <2>0, <2>1, <2>3 DEF Queued, Loaded, NoChanges, Restorable, Added
  <2>11. DeltaRestores'
    BY <2>10 DEF DeltaRestores
  <2>12. Awake'
    <3>1. (\A p \in Paths \ mixed : OnePlace(dirty, Master, p))'
      BY <2>1, <2>4, <2>6 DEF Fits, OnePlace
    <3>2. dirty'.gen = generation' /\ delta'.of = dirty'.of
      BY <2>0, <2>1, <2>3
    <3> QED BY <2>7, <2>10, <3>1, <3>2 DEF Awake
  <2>13. Asleep'
    BY DEF Asleep
  <2> QED BY <2>1, <2>3, <2>5, <2>8, <2>9, <2>11, <2>12, <2>13 DEF LiveInv
<1> QED BY <1>1, <1>2

LEMMA ResetType ==
  ASSUME IndexInv, there, NEW c \in 1..Len(commits)
  PROVE  Reset(c) \in Trees
<1>1. idx \in 1..Len(commits)
  <2>1. idx # 0 /\ idx \in 0..Len(commits) /\ Len(commits) \in Nat
    BY CommitNumbers DEF IndexInv, Placed, IndexTypeOK
  <2> QED BY <2>1
<1>2. commits[c].tree \in Trees /\ commits[idx].tree \in Trees /\ files \in Trees
  BY <1>1, CommitType DEF IndexInv, IndexTypeOK
<1> QED BY <1>2 DEF Reset, Trees

\* What a rollback loads tells the files, of the paths that are not queued and
\* of which nothing was odd: as the checkpoint did, where the delta of the
\* checkpoint is over this master and of this generation; as the master does,
\* where the segments of the delta are dropped and the paths are left.
LEMMA RestoredTells ==
  ASSUME IndexInv, live, NEW c \in 1..Len(commits), NEW r, r = commits[c], r.delta # None,
         NEW stg, NEW l, l = Loaded(r.delta, stg, dirty.of), r.delta.of = dirty.of,
         NEW p \in Paths \ (r.unseen \cup r.mixed \cup blind.overlay[dirty.of] \cup Queued(r.delta, stg))
  PROVE  Tells(l, Master, p, r.tree[p])
<1> DEFINE D == r.delta
<1>1. /\ D \in Changes /\ Sound(D) /\ D.of \in CommitIds /\ dirty.of \in CommitIds
      /\ dirty.of \in 1..Len(commits) /\ overlay[dirty.of] # None /\ generation \in 0..MaxChanges
      /\ r.tree \in Trees
  BY CommitType, LiveFacts DEF IndexInv, Committed, CommittedAt, Changes
<1>2. /\ Agrees(D, r.tree, r.unseen \cup r.mixed)
      /\ Answers(D, r.tree, r.unseen, r.mixed)
      /\ \A s \in Paths \ (r.unseen \cup r.mixed \cup Named(D) \cup blind.overlay[D.of]) :
           commits[D.of].tree[s] = r.tree[s]
  BY DEF IndexInv, Committed, CommittedAt
<1>3. /\ l \in Changes /\ (D.gen = generation \/ Added(l) = {})
      /\ Named(D) = Named(l) \cup Queued(D, stg)
      /\ l.added[p] = D.added[p] /\ (p \in l.removed <=> p \in D.removed)
  BY <1>1, LoadedOverlay DEF Sound
<1>4. CASE D.gen = generation
  <2>1. Tells(D, Master, p, r.tree[p])
    BY <1>1, <1>2, <1>4 DEF Answers, Master
  <2> QED BY <1>3, <2>1 DEF Tells
<1>5. CASE D.gen # generation
  <2>1. l.added[p] = Absent /\ l \in Changes
    BY <1>1, <1>3, <1>5, LoadedOverlay DEF Added, Sound
  <2>2. CASE p \in Named(D)
    <3>1. p \in D.removed /\ D.added[p] = Absent
      BY <1>3, <2>1, <2>2 DEF Named, Added
    <3>2. r.tree[p] = Absent
      BY <1>2, <2>2, <3>1 DEF Agrees
    <3> QED BY <1>3, <2>1, <3>1, <3>2, TellsMeans
  <2>3. CASE p \notin Named(D)
    <3>1. r.tree[p] = commits[dirty.of].tree[p]
      BY <1>2, <2>3
    <3>2. Master[p] = commits[dirty.of].tree[p]
      BY <1>1 DEF IndexInv, ArtefactsExact, Master
    <3>3. p \notin Named(l)
      BY <1>3, <2>3
    <3> QED BY <2>1, <3>1, <3>2, <3>3, UnnamedTells
  <2> QED BY <2>2, <2>3
<1> QED BY <1>4, <1>5

LEMMA RestoredOnePlace ==
  ASSUME IndexInv, live, NEW c \in 1..Len(commits), NEW r, r = commits[c], r.delta # None,
         NEW stg, NEW l, l = Loaded(r.delta, stg, dirty.of), r.delta.of = dirty.of,
         NEW p \in Paths \ (r.mixed \cup Queued(r.delta, stg))
  PROVE  OnePlace(l, Master, p)
<1> DEFINE D == r.delta
<1>1. /\ D \in Changes /\ Sound(D) /\ dirty.of \in CommitIds /\ generation \in 0..MaxChanges
  BY CommitType, LiveFacts DEF IndexInv, Committed, CommittedAt
<1>2. Answers(D, r.tree, r.unseen, r.mixed)
  BY DEF IndexInv, Committed, CommittedAt
<1>3. /\ D.gen = generation \/ Added(l) = {}
      /\ l.added[p] = D.added[p] /\ (p \in l.removed <=> p \in D.removed)
  BY <1>1, LoadedOverlay DEF Sound
<1>4. CASE D.gen = generation
  <2>1. OnePlace(D, Master, p)
    BY <1>2, <1>4 DEF Answers, Master
  <2> QED BY <1>3, <2>1 DEF OnePlace
<1>5. CASE D.gen # generation
  BY <1>3, <1>5 DEF OnePlace, Added
<1> QED BY <1>4, <1>5

LEMMA RollbackInv == ASSUME IndexInv, Rollback PROVE IndexInv'
<1> DEFINE P(k) == commits[stack[k].oid]
           W(k) == [p \in Paths |-> IF p \in stack[k].created THEN Absent ELSE Reset(stack[k].oid)[p]]
           K(k) == Collected(P(k).delta)
           F(k) == IF Foreign(P(k).delta, dirty.of) THEN Paths ELSE {}
           O(k) == F(k) \cup P(k).unseen \cup P(k).mixed \cup blind.overlay[dirty.of]
                     \cup {p \in Paths : W(k)[p] # P(k).tree[p]}
<1>1. PICK k \in 1..Len(stack) :
        /\ live /\ UNCHANGED <<changes, repoVars, there, live>>
        /\ files' = W(k) /\ head' = stack[k].pre /\ idx' = stack[k].oid
        /\ stack' = SubSeq(stack, 1, k - 1)
        /\ IF Queued(P(k).delta, K(k)) = {}
           THEN /\ dirty' = Loaded(P(k).delta, K(k), dirty.of)
                /\ delta' = P(k).delta
                /\ staging' = K(k)
           ELSE TakeIn(Loaded(P(k).delta, K(k), dirty.of), Queued(P(k).delta, K(k)), W(k), K(k))
        /\ pending' = {}
        /\ vouched' = {p \in vouched : W(k)[p] = files[p]}
        /\ unseen' = O(k) \ Queued(P(k).delta, K(k))
        /\ mixed' = (O(k) \cap (F(k) \cup P(k).mixed \cup vouched')) \ Queued(P(k).delta, K(k))
  BY DEF Rollback
<1> PICK c : c = stack[k].oid
  OBVIOUS
<1> PICK r : r = P(k)
  OBVIOUS
<1> PICK wt : wt = W(k)
  OBVIOUS
<1> PICK stg : stg = K(k)
  OBVIOUS
<1> PICK foreign : foreign = F(k)
  OBVIOUS
<1> PICK odd : odd = O(k)
  OBVIOUS
<1> PICK l : l = Loaded(r.delta, stg, dirty.of)
  OBVIOUS
<1> PICK q : q = Queued(r.delta, stg)
  OBVIOUS
<1>2. /\ live /\ UNCHANGED repoVars /\ there' = there /\ live' = live
      /\ files' = wt /\ head' = stack[k].pre /\ idx' = c
      /\ stack' = SubSeq(stack, 1, k - 1)
      /\ Settles(l, r.delta, stg, q, wt)
      /\ pending' = {}
      /\ vouched' = {p \in vouched : wt[p] = files[p]}
      /\ unseen' = odd \ q
      /\ mixed' = (odd \cap (foreign \cup r.mixed \cup vouched')) \ q
  BY <1>1 DEF Settles
<1>3. /\ c \in 1..Len(commits) /\ head' \in 1..Len(commits) /\ r = commits[c] /\ r.delta # None
      /\ foreign = (IF r.delta.of # dirty.of THEN Paths ELSE {})
      /\ odd = foreign \cup r.unseen \cup r.mixed \cup blind.overlay[dirty.of]
                 \cup {p \in Paths : wt[p] # r.tree[p]}
  BY <1>2 DEF IndexInv, Stacked, Foreign
<1>4. stg \in SUBSET (Paths \X Contents)
  BY DEF Collected, IndexInv, IndexTypeOK
<1>5. wt \in Trees
  <2>1. Reset(c) \in Trees
    BY <1>2, <1>3, ResetType DEF IndexInv, Placed
  <2> QED BY <2>1 DEF Trees
<1> HIDE DEF P, W, K, F, O
<1>6. /\ commits' = commits /\ overlay' = overlay /\ chain' = chain /\ generation' = generation
      /\ blind' = blind /\ upstream' = upstream
  BY <1>2 DEF repoVars
<1>7. /\ r.delta \in Changes /\ Sound(r.delta) /\ dirty.of \in CommitIds
      /\ dirty.of \in 1..Len(commits) /\ overlay[dirty.of] # None /\ Master \in Trees
      /\ generation \in 0..MaxChanges /\ r.unseen \subseteq Paths /\ r.mixed \subseteq Paths
  BY <1>2, <1>3, CommitType, LiveFacts DEF IndexInv, Committed, CommittedAt
<1>8. /\ l \in Changes /\ l.of = dirty.of /\ l.gen = generation
      /\ l.repl \subseteq Added(l) \cap l.removed
      /\ Segments(l) \subseteq stg /\ q \in SUBSET Paths
  BY <1>7, LoadedOverlay DEF Sound
<1>9. RepoGrows /\ Manifests' /\ Committed' /\ ArtefactsExact'
  BY <1>2, RepoSame
<1>10. Sound(l)' /\ Sound(r.delta)'
  <2>1. Sound(l)
    BY <1>7, <1>8 DEF Sound
  <2>2. r.delta.of \in CommitIds /\ l.of \in CommitIds
    BY <1>7, <1>8 DEF Changes
  <2> QED BY <1>7, <1>9, <2>1, <2>2, SoundStays DEF IndexInv
<1>11. overlay'[l.of] = Master
  BY <1>6, <1>8 DEF Master
<1>12. odd \subseteq Paths /\ vouched' \subseteq Paths
  BY <1>2, <1>3, <1>7 DEF IndexInv, IndexTypeOK
<1>13. ASSUME NEW p \in Paths \ (odd \cup q) PROVE Tells(l, Master, p, wt[p])
  <2>1. r.delta.of = dirty.of /\ wt[p] = r.tree[p]
    BY <1>3, <1>13
  <2>2. p \in Paths \ (r.unseen \cup r.mixed \cup blind.overlay[dirty.of] \cup Queued(r.delta, stg))
    BY <1>3, <1>13
  <2>3. Tells(l, Master, p, r.tree[p])
    BY <1>2, <1>3, <2>1, <2>2, RestoredTells
  <2> QED BY <2>1, <2>3
<1>14. Fits(l, q, wt)
  <2>1. ASSUME NEW p \in Paths \ (unseen' \cup mixed' \cup q) PROVE Tells(l, Master, p, wt[p])
    BY <1>2, <1>13, <2>1
  <2>2. ASSUME NEW p \in vouched' \ (mixed' \cup q) PROVE Tells(l, Master, p, wt[p])
    BY <1>2, <1>12, <1>13, <2>2
  <2>3. ASSUME NEW p \in Paths \ (mixed' \cup q) PROVE OnePlace(l, Master, p)
    <3>1. p \notin foreign /\ p \notin r.mixed
      BY <1>2, <1>3, <2>3
    <3>2. r.delta.of = dirty.of
      BY <1>3, <3>1
    <3>3. p \in Paths \ (r.mixed \cup Queued(r.delta, stg))
      BY <2>3, <3>1
    <3> QED BY <1>2, <1>3, <3>2, <3>3, RestoredOnePlace
  <2> QED BY <1>11, <2>1, <2>2, <2>3 DEF Fits
<1>15. Follows(l, r.delta, q)
  <2>1. ASSUME q = {}, r.delta.of # l.of PROVE mixed' = Paths
    <3>1. foreign = Paths /\ odd = Paths
      BY <1>3, <1>8, <1>12, <2>1
    <3> QED BY <1>2, <2>1, <3>1
  <2> QED BY <2>1 DEF Follows
<1>16. Queued(r.delta, stg) \subseteq q \cup (pending' \cap mixed')
  OBVIOUS
<1>17. head' # 0 /\ idx' # 0 /\ live' /\ there'
  BY SMTT(20), <1>2, <1>3 DEF IndexInv, Placed
<1>18. l = Loaded(r.delta, stg, l.of)
  BY <1>8
<1>19. /\ LiveInv'
       /\ dirty' \in Changes /\ delta' \in Changes \cup {None}
       /\ staging' \subseteq Paths \X Contents
  <2>1. overlay'[l.of] \in Trees
    BY <1>7, <1>11
  <2>2. q = {} => Loaded(r.delta, stg, l.of) = l
    BY <1>18
  <2>3. PICK e : e = r.delta
    OBVIOUS
  <2>4. /\ e \in Changes \cup {None} /\ (e # None => Sound(e)') /\ Settles(l, e, stg, q, wt)
        /\ Follows(l, e, q) /\ Queued(e, stg) \subseteq q \cup (pending' \cap mixed')
        /\ (q = {} => Loaded(e, stg, l.of) = l)
    BY <1>2, <1>7, <1>10, <1>15, <1>16, <2>2, <2>3 DEF Sound, Added
  <2>5. /\ Segments(l) \subseteq stg /\ l \in Changes /\ l.gen = generation /\ Sound(l)'
        /\ wt \in Trees /\ files' = wt /\ q \in SUBSET Paths /\ stg \in SUBSET (Paths \X Contents)
        /\ Fits(l, q, wt) /\ RepoGrows /\ vouched' \subseteq Paths /\ generation \in 0..MaxChanges
    BY <1>2, <1>4, <1>5, <1>7, <1>8, <1>9, <1>10, <1>12, <1>14
  <2> QED BY ZenonT(30), <1>17, <2>1, <2>4, <2>5, Settled
<1>20. Stacked' /\ stack' \in Seq([oid : CommitIds, pre : CommitIds, created : SUBSET Paths])
  <2> DEFINE S == [oid : CommitIds, pre : CommitIds, created : SUBSET Paths]
  <2>1. stack \in Seq(S)
    BY DEF IndexInv, IndexTypeOK
  <2> HIDE DEF S
  <2>2. /\ stack' \in Seq(S) /\ Len(stack') = k - 1
        /\ \A j \in 1..(k - 1) : stack'[j] = stack[j]
    BY <1>2, <2>1, SubSeqProperties
  <2>3. \A j \in 1..(k - 1) : j \in 1..Len(stack)
    BY <2>1, LenProperties
  <2> QED BY <1>6, <2>2, <2>3 DEF IndexInv, Stacked, S
<1>21. IndexTypeOK'
  <2>1. unseen' \subseteq Paths /\ mixed' \subseteq Paths
    BY <1>2, <1>12
  <2>2. head' \in 0..Len(commits) /\ idx' \in 0..Len(commits)
    <3>1. Len(commits) \in Nat
      BY CommitNumbers DEF IndexInv, IndexTypeOK
    <3> QED BY SMTT(20), <1>2, <1>3, <3>1
  <2> QED BY <1>2, <1>5, <1>6, <1>12, <1>19, <1>20, <2>1, <2>2 DEF IndexInv, IndexTypeOK
<1> QED BY <1>9, <1>19, <1>20, <1>21 DEF IndexInv, LiveInv

-----------------------------------------------------------------------------
\* The artefacts an attach leaves.

\* An overlay, and a manifest, of commit c, that tell its files.
OverlayGood(c) ==
  overlay[c] # None => \A p \in Paths \ blind.overlay[c] : overlay[c][p] = commits[c].tree[p]
ManifestGood(c) ==
  chain[c] # None =>
    /\ chain[c].gen = generation /\ Sound(chain[c])
    /\ \A p \in Paths \ blind.chain[c] : Tells(chain[c], overlay[chain[c].of], p, commits[c].tree[p])

LEMMA RepoGrown ==
  ASSUME IndexInv, RepoGrows, commits' = commits, NEW c \in 1..Len(commits),
         \A k \in CommitIds \ {c} : /\ overlay'[k] = overlay[k] /\ chain'[k] = chain[k]
                                    /\ blind'.overlay[k] = blind.overlay[k]
                                    /\ blind'.chain[k] = blind.chain[k],
         OverlayGood(c)', ManifestGood(c)'
  PROVE  Manifests' /\ Committed' /\ ArtefactsExact'
<1>1. 1..Len(commits) \subseteq CommitIds /\ generation' = generation
  BY CommitType DEF IndexInv, RepoGrows
<1>2. ASSUME NEW k \in CommitIds \ {c} PROVE OverlayGood(k)' /\ ManifestGood(k)'
  <2>1. OverlayGood(k)'
    BY <1>2, OverlayStays DEF OverlayGood
  <2>2. PICK d : d = chain[k] /\ d = chain'[k]
    BY <1>2
  <2>3. d # None => /\ d.gen = generation /\ Sound(d)'
                    /\ \A p \in Paths \ blind.chain[k] : Tells(d, overlay'[d.of], p, commits'[k].tree[p])
    BY <1>2, <2>2, ManifestStays
  <2>4. d # None => Sound(chain[k])'
    BY <2>2, <2>3 DEF Sound, Added
  <2>5. ManifestGood(k)'
    BY <1>1, <1>2, <2>2, <2>3, <2>4 DEF ManifestGood, Tells
  <2> QED BY <2>1, <2>5
<1>3. ASSUME NEW k \in CommitIds PROVE OverlayGood(k)' /\ ManifestGood(k)'
  BY <1>2
<1>4. ASSUME NEW k \in CommitIds, overlay'[k] # None \/ chain'[k] # None
      PROVE  k \in 1..Len(commits)
  <2>1. CASE k = c
    BY <2>1
  <2>2. CASE k # c
    BY <1>4, <2>2 DEF IndexInv, Manifests
  <2> QED BY <2>1, <2>2
<1>5. Manifests'
  BY <1>3, <1>4 DEF Manifests, ManifestGood
<1>6. ArtefactsExact'
  <2>1. \A k \in 1..Len(commits) : OverlayGood(k)' /\ ManifestGood(k)'
    BY <1>1, <1>3
  <2>2. (\A k \in 1..Len(commits) : OverlayGood(k) /\ ManifestGood(k))'
    BY <2>1
  <2>3. ((\A k \in 1..Len(commits) : OverlayGood(k) /\ ManifestGood(k)) => ArtefactsExact)'
    BY DEF ArtefactsExact, OverlayGood, ManifestGood
  <2> QED BY <2>2, <2>3
<1>7. Committed'
  BY CommitStays DEF IndexInv, Committed
<1> QED BY <1>5, <1>6, <1>7

-----------------------------------------------------------------------------
\* Attaches.

\* What is known of the worktree an attach is in: where it is neither changed nor
\* unseen, and the delta does not name it, a file is that of the commit; and a
\* delta that is not that of another head is of these files.
Attaches == [tip : CommitIds, again : BOOLEAN, changed : SUBSET Paths, files : Trees,
             delta : Changes \cup {None}, staging : SUBSET (Paths \X Contents), moved : BOOLEAN,
             unseen : SUBSET Paths, mixed : SUBSET Paths]
Known(at) ==
  /\ at \in Attaches /\ at.tip \in 1..Len(commits)
  /\ ~at.again => at.changed = {} /\ at.staging = {} /\ at.files = commits[at.tip].tree
  /\ \A p \in Paths \ (at.changed \cup at.unseen) :
       \/ at.files[p] = commits[at.tip].tree[p]
       \/ at.delta # None /\ p \in Named(at.delta)
  /\ at.delta # None => Sound(at.delta)
  /\ at.moved => at.delta # None
  /\ ~at.moved /\ at.delta # None =>
       /\ Agrees(at.delta, at.files, at.unseen \cup at.mixed)
       /\ Serving(at.tip, at.delta.of) => Answers(at.delta, at.files, at.unseen, at.mixed)

\* The paths that the attach re-indexes.
Drained(o, at) == IF at.again THEN at.changed \cup o.pending ELSE {}

WayType(o, wrong) ==
  /\ o.dirty \in Changes /\ o.dirty.gen = generation /\ Sound(o.dirty)'
  /\ overlay'[o.dirty.of] \in Trees
  /\ o.delta \in Changes \cup {None} /\ (o.delta # None => Sound(o.delta)')
  /\ o.staging \in SUBSET (Paths \X Contents)
  /\ o.pending \subseteq Paths /\ o.odd \subseteq Paths /\ wrong \subseteq Paths

\* What it restores is what the delta and the segments it leaves restore.
WayRestores(o, at) ==
  /\ Segments(o.dirty) \subseteq o.staging
  /\ Loaded(o.delta, o.staging, o.dirty.of) = o.dirty
  /\ Queued(o.delta, o.staging) \subseteq o.pending
  /\ ~at.again => Queued(o.delta, o.staging) \subseteq at.mixed \cup o.odd
  /\ o.delta # None /\ o.delta.gen = generation /\ Serving(at.tip, o.delta.of)' =>
       o.delta.of = o.dirty.of

\* It tells the files, short of what it says it tells wrongly.
WayTells(o, at, wrong) ==
  /\ \A p \in Paths \ (Drained(o, at) \cup at.unseen \cup wrong \cup at.mixed \cup o.odd) :
       Tells(o.dirty, overlay'[o.dirty.of], p, at.files[p])
  /\ \A p \in Paths \ (Drained(o, at) \cup at.mixed \cup o.odd) :
       OnePlace(o.dirty, overlay'[o.dirty.of], p)

GoodWay(o, at, wrong) == WayType(o, wrong) /\ WayRestores(o, at) /\ WayTells(o, at, wrong)

LEMMA OpenedInv ==
  ASSUME RepoGrows, generation \in 0..MaxChanges, NEW at, Known(at), NEW o, NEW wrong,
         GoodWay(o, at, wrong), Opened(o, at, wrong),
         live', there', head' = at.tip, idx' # 0, vouched' = {}, files' = at.files
  PROVE  /\ LiveInv'
         /\ dirty' \in Changes /\ delta' \in Changes \cup {None}
         /\ staging' \subseteq Paths \X Contents
         /\ pending' \subseteq Paths /\ unseen' \subseteq Paths /\ mixed' \subseteq Paths
<1> PICK q : q = Drained(o, at)
  OBVIOUS
<1>1. /\ Settles(o.dirty, o.delta, o.staging, q, at.files)
      /\ pending' = IF at.again THEN {} ELSE o.pending
      /\ unseen' = (at.unseen \cup wrong) \ q
      /\ mixed' = (at.mixed \cup o.odd) \ q
  BY DEF Opened, Settles, Drained
<1>2. /\ q \subseteq Paths /\ at.unseen \subseteq Paths /\ at.mixed \subseteq Paths
      /\ at.tip \in Nat /\ at.tip # 0 /\ at.files \in Trees /\ at.again \in BOOLEAN
  BY DEF Known, Attaches, GoodWay, WayType, Drained
<1>3. WayType(o, wrong) /\ WayRestores(o, at) /\ WayTells(o, at, wrong)
  BY DEF GoodWay
<1>4. pending' \subseteq Paths /\ unseen' \subseteq Paths /\ mixed' \subseteq Paths
  BY <1>1, <1>2, <1>3 DEF WayType
<1>5. Fits(o.dirty, q, at.files)
  BY <1>1, <1>2, <1>3 DEF WayTells, Fits
<1>6. Follows(o.dirty, o.delta, q)
  BY <1>2, <1>3 DEF WayRestores, Follows, Serving
<1>7. Queued(o.delta, o.staging) \subseteq q \cup (pending' \cap mixed')
  <2>1. CASE at.again
    BY <1>3, <2>1 DEF WayRestores, Drained
  <2>2. CASE ~at.again
    BY <1>1, <1>3, <2>2 DEF WayRestores, Drained
  <2> QED BY <2>1, <2>2
<1>8. LiveInv' /\ dirty' \in Changes /\ delta' \in Changes \cup {None}
      /\ staging' \subseteq Paths \X Contents
  <2>1. PICK l, e, stg, wt : l = o.dirty /\ e = o.delta /\ stg = o.staging /\ wt = at.files
    OBVIOUS
  <2>2. /\ l \in Changes /\ l.gen = generation /\ Sound(l)' /\ overlay'[l.of] \in Trees
        /\ e \in Changes \cup {None} /\ (e # None => Sound(e)')
        /\ stg \in SUBSET (Paths \X Contents) /\ q \in SUBSET Paths
        /\ wt \in Trees /\ files' = wt
    BY <1>2, <1>3, <2>1 DEF WayType
  <2>3. Segments(l) \subseteq stg /\ Loaded(e, stg, l.of) = l
    BY <1>3, <2>1 DEF WayRestores
  <2>4. /\ Settles(l, e, stg, q, wt) /\ Fits(l, q, wt) /\ Follows(l, e, q)
        /\ Queued(e, stg) \subseteq q \cup (pending' \cap mixed')
    BY <1>1, <1>5, <1>6, <1>7, <2>1
  <2>5. head' # 0 /\ vouched' \subseteq Paths
    BY <1>2
  <2> QED BY <2>2, <2>3, <2>4, <2>5, Settled
<1> QED BY <1>4, <1>8

\* What an attach restores of a delta that is over the master it is taken over.
LEMMA OverTells ==
  ASSUME IndexInv, RepoGrows, NEW at, Known(at), NEW m \in CommitIds,
         NEW l, l = Loaded(at.delta, at.staging, m),
         at.delta # None, ~at.moved, at.delta.of = m,
         at.delta.gen = generation => Serving(at.tip, m),
         NEW p \in Named(at.delta), p \notin Queued(at.delta, at.staging), p \notin at.mixed
  PROVE  /\ p \notin at.unseen => Tells(l, overlay'[m], p, at.files[p])
         /\ OnePlace(l, overlay'[m], p)
<1> DEFINE D == at.delta
<1>1. /\ D \in Changes /\ Sound(D) /\ generation \in 0..MaxChanges
      /\ Agrees(D, at.files, at.unseen \cup at.mixed)
      /\ Serving(at.tip, D.of) => Answers(D, at.files, at.unseen, at.mixed)
  BY DEF Known, Attaches, IndexInv, IndexTypeOK
<1>2. p \in Paths
  BY <1>1 DEF Changes, Named, Added
<1>3. /\ l \in Changes /\ (D.gen = generation \/ Added(l) = {})
      /\ l.added[p] = D.added[p] /\ (p \in l.removed <=> p \in D.removed)
  BY <1>1, <1>2, LoadedOverlay DEF Sound
<1>4. CASE D.gen = generation
  <2>1. Answers(D, at.files, at.unseen, at.mixed) /\ overlay'[m] = overlay[D.of]
    BY <1>1, <1>4 DEF Sound, RepoGrows
  <2>2. p \notin at.unseen => Tells(D, overlay'[m], p, at.files[p])
    BY <1>2, <1>4, <2>1 DEF Answers
  <2>3. OnePlace(D, overlay'[m], p)
    BY <1>2, <1>4, <2>1 DEF Answers
  <2> QED BY <1>3, <2>2, <2>3 DEF Tells, OnePlace
<1>5. CASE D.gen # generation
  <2>1. l.added[p] = Absent
    BY <1>1, <1>2, <1>3, <1>5, LoadedOverlay DEF Added, Sound
  <2>2. p \in l.removed
    BY <1>3, <2>1 DEF Named, Added
  <2>3. p \notin at.unseen => at.files[p] = Absent
    BY <1>1, <1>3, <2>1 DEF Agrees
  <2> QED BY <2>1, <2>2, <2>3, TellsMeans DEF OnePlace
<1> QED BY <1>4, <1>5

LEMMA OverType ==
  ASSUME IndexInv, RepoGrows, NEW at, Known(at), NEW m \in CommitIds,
         overlay'[m] # None, m \in 1..Len(commits),
         NEW l, l = Loaded(at.delta, at.staging, m)
  PROVE  /\ l \in Changes /\ l.of = m /\ l.gen = generation /\ Sound(l)'
         /\ Segments(l) \subseteq at.staging
         /\ Queued(at.delta, at.staging) \subseteq Paths
         /\ Loaded(at.delta, at.staging, l.of) = l
         /\ at.delta # None => Sound(at.delta)' /\ at.delta \in Changes /\ Named(at.delta) \subseteq Paths
                               /\ Named(at.delta) = Named(l) \cup Queued(at.delta, at.staging)
         /\ at.delta = None => Named(l) = {} /\ Queued(at.delta, at.staging) = {}
<1>1. /\ generation \in 0..MaxChanges /\ at.delta \in Changes \cup {None}
      /\ at.delta # None => Sound(at.delta)
  BY DEF Known, Attaches, IndexInv, IndexTypeOK
<1>2. /\ l \in Changes /\ l.of = m /\ l.gen = generation
      /\ l.repl \subseteq Added(l) \cap l.removed
      /\ Segments(l) \subseteq at.staging
      /\ Queued(at.delta, at.staging) \subseteq Paths
      /\ at.delta = None => Named(l) = {} /\ Queued(at.delta, at.staging) = {}
      /\ at.delta # None => Named(at.delta) = Named(l) \cup Queued(at.delta, at.staging)
  BY <1>1, LoadedOverlay DEF Sound
<1>3. Sound(l)'
  <2>1. l.of \in 1..Len(commits') /\ l.gen <= generation'
    BY <1>1, <1>2 DEF RepoGrows
  <2> QED BY <1>2, <2>1 DEF Sound, Added
<1>4. at.delta # None => Sound(at.delta)' /\ at.delta \in Changes /\ Named(at.delta) \subseteq Paths
  <2> SUFFICES ASSUME at.delta # None
               PROVE  Sound(at.delta)' /\ at.delta \in Changes /\ Named(at.delta) \subseteq Paths
    OBVIOUS
  <2>1. at.delta \in Changes /\ at.delta.of \in CommitIds
    BY <1>1 DEF Changes
  <2>2. Sound(at.delta)'
    BY <1>1, <2>1, SoundStays DEF IndexInv
  <2> QED BY <2>1, <2>2 DEF Named, Added, Changes
<1> QED BY <1>2, <1>3, <1>4

\* An overlay of the commit itself.
OwnWay(o, at) == o = [Over(at.tip, at) EXCEPT !.odd = @ \cup Over(at.tip, at).pending]

LEMMA OwnGood ==
  ASSUME IndexInv, RepoGrows, commits' = commits, NEW at, Known(at),
         overlay'[at.tip] \in Trees, OverlayGood(at.tip)', NEW wrong, wrong = blind'.overlay[at.tip],
         wrong \subseteq Paths, NEW o, OwnWay(o, at)
  PROVE  GoodWay(o, at, wrong)
<1> PICK l : l = Loaded(at.delta, at.staging, at.tip)
  OBVIOUS
<1> PICK q : q = Queued(at.delta, at.staging)
  OBVIOUS
<1> PICK odd : odd = (IF at.moved \/ Foreign(at.delta, at.tip) THEN Named(at.delta) ELSE {}) \cup q
  OBVIOUS
<1>1. /\ o.dirty = l /\ o.pending = q /\ o.delta = at.delta /\ o.staging = at.staging
      /\ o.odd = odd
  BY DEF Over, OwnWay
<1>2. /\ at.tip \in CommitIds /\ at.tip \in 1..Len(commits) /\ commits[at.tip].tree \in Trees
      /\ overlay'[at.tip] # None /\ at.moved \in BOOLEAN
      /\ at.delta \in Changes \cup {None} /\ at.staging \in SUBSET (Paths \X Contents)
  BY CommitType, NoneAssumption DEF Known, Attaches, IndexInv
<1>3. /\ l \in Changes /\ l.of = at.tip /\ l.gen = generation /\ Sound(l)'
      /\ Segments(l) \subseteq at.staging
      /\ q \subseteq Paths
      /\ Loaded(at.delta, at.staging, l.of) = l
      /\ at.delta # None => Sound(at.delta)' /\ at.delta \in Changes /\ Named(at.delta) \subseteq Paths
                            /\ Named(at.delta) = Named(l) \cup q
      /\ at.delta = None => Named(l) = {} /\ q = {}
  <2>1. /\ l \in Changes /\ l.of = at.tip /\ l.gen = generation /\ Sound(l)'
        /\ Segments(l) \subseteq at.staging /\ Loaded(at.delta, at.staging, l.of) = l
    BY <1>2, OverType
  <2>2. q \subseteq Paths
    BY <1>2, OverType
  <2>3. at.delta # None => Sound(at.delta)' /\ at.delta \in Changes /\ Named(at.delta) \subseteq Paths
    BY <1>2, OverType
  <2>4. at.delta # None => Named(at.delta) = Named(l) \cup q
    BY SMTT(20), <1>2, OverType
  <2>5. at.delta = None => Named(l) = {} /\ q = {}
    BY <1>2, OverType
  <2> QED BY <2>1, <2>2, <2>3, <2>4, <2>5
<1>4. odd \subseteq Paths
  <2>1. at.moved \/ Foreign(at.delta, at.tip) => at.delta # None
    BY DEF Foreign, Known, Attaches
  <2> QED BY <1>3, <2>1
<1> PICK M \in Trees : M = overlay'[at.tip]
  OBVIOUS
<1>5. overlay'[o.dirty.of] = M
  BY <1>1, <1>3
<1>6. WayType(o, wrong)
  <2>1. Sound(o.dirty)'
    BY <1>1, <1>3 DEF Sound, Added
  <2>2. o.delta # None => Sound(o.delta)'
    BY <1>1, <1>3 DEF Sound, Added
  <2> QED BY <1>1, <1>2, <1>3, <1>4, <1>5, <2>1, <2>2 DEF WayType
<1>7. WayRestores(o, at)
  <2>1. Serving(at.tip, at.delta.of)' => at.delta.of = at.tip
    BY <1>2 DEF Serving
  <2> QED BY <1>1, <1>3, <2>1 DEF WayRestores
<1>8. ASSUME NEW p \in Paths \ (Drained(o, at) \cup at.mixed \cup odd)
      PROVE  /\ p \notin at.unseen \cup wrong => Tells(l, M, p, at.files[p])
             /\ OnePlace(l, M, p)
  <2>1. p \notin q
    BY <1>8
  <2>2. CASE at.delta # None /\ p \in Named(at.delta)
    <3>1. ~at.moved /\ at.delta.of = at.tip
      BY <1>8, <2>2 DEF Foreign
    <3>2. at.delta.gen = generation => Serving(at.tip, at.tip)
      BY <2>2, <3>1 DEF Known, Attaches, Sound, Serving
    <3> QED BY <1>2, <1>8, <2>1, <2>2, <3>1, <3>2, OverTells
  <2>3. CASE at.delta = None \/ p \notin Named(at.delta)
    <3>1. p \in Paths \ Named(l)
      BY <1>2, <1>3, <2>3
    <3>2. Tells(l, M, p, M[p]) /\ OnePlace(l, M, p)
      BY <1>3, <3>1, UnnamedTells
    <3>3. p \notin at.changed
      BY <1>8 DEF Known, Attaches, Drained
    <3>4. p \notin at.unseen => at.files[p] = commits[at.tip].tree[p]
      BY <2>3, <3>1, <3>3 DEF Known, Attaches
    <3>5. p \notin wrong => M[p] = commits[at.tip].tree[p]
      BY <1>2, <3>1 DEF OverlayGood
    <3> QED BY <3>2, <3>4, <3>5
  <2> QED BY <2>2, <2>3
<1>9. WayTells(o, at, wrong)
  <2>1. ASSUME NEW p \in Paths \ (Drained(o, at) \cup at.unseen \cup wrong \cup at.mixed \cup odd)
        PROVE  Tells(l, M, p, at.files[p])
    BY <1>8, <2>1
  <2>2. ASSUME NEW p \in Paths \ (Drained(o, at) \cup at.mixed \cup odd) PROVE OnePlace(l, M, p)
    BY <1>8, <2>2
  <2> QED BY <1>1, <1>5, <2>1, <2>2 DEF WayTells
<1> QED BY <1>6, <1>7, <1>9 DEF GoodWay

\* A manifest of the commit: the restored delta stays, over the master of the
\* manifest, or the manifest itself is the overlay.
ChainWay(o, manifest, derived, at) == o = ViaChain(manifest, derived, at)

LEMMA StaysGood ==
  ASSUME IndexInv, RepoGrows, commits' = commits, NEW at, Known(at), NEW ch \in Changes,
         NEW wrong \in SUBSET Paths,
         ch.gen = generation, Sound(ch), overlay[at.tip] = None, chain[at.tip] = ch,
         overlay'[at.tip] = None, chain'[at.tip] = ch,
         \A p \in Paths \ wrong : Tells(ch, overlay'[ch.of], p, commits[at.tip].tree[p]),
         Stays(Over(ch.of, at), FALSE), NEW o, ChainWay(o, ch, FALSE, at)
  PROVE  GoodWay(o, at, wrong)
<1> PICK m : m = ch.of
  OBVIOUS
<1> PICK l : l = Loaded(at.delta, at.staging, m)
  OBVIOUS
<1> PICK q : q = Queued(at.delta, at.staging)
  OBVIOUS
<1> PICK alien : alien = (at.moved \/ at.delta.of # m \/ at.delta.gen # generation)
  OBVIOUS
<1> PICK odd : odd = (IF at.moved \/ Foreign(at.delta, m) THEN Named(at.delta) ELSE {})
                       \cup (IF alien THEN Named(ch) ELSE {})
  OBVIOUS
<1>1. /\ o.dirty = l /\ o.pending = q /\ o.delta = at.delta /\ o.staging = at.staging
      /\ o.odd = odd
  BY DEF ChainWay, ViaChain, Over
<1>2. Added(l) # {} \/ (Named(l) # {} /\ q = {})
  <2>1. PICK v : v = Over(ch.of, at)
    OBVIOUS
  <2>2. Stays(v, FALSE) /\ v.dirty = l /\ v.pending = q
    BY <2>1 DEF Over
  <2>3. (Named(v.dirty) # {} \/ v.pending # {}) /\ (Added(v.dirty) # {} \/ v.pending = {})
    BY <2>2 DEF Stays, Restored
  <2> QED BY <2>2, <2>3
<1>3. /\ m \in CommitIds /\ m \in 1..Len(commits) /\ overlay[m] # None /\ overlay'[m] = overlay[m]
      /\ overlay'[m] # None /\ at.tip \in 1..Len(commits)
  <2>1. m \in CommitIds /\ at.tip \in 1..Len(commits)
    BY DEF Changes, Known
  <2>2. m \in 1..Len(commits) /\ overlay[m] # None
    BY DEF Sound
  <2> QED BY <2>1, <2>2 DEF RepoGrows
<1> PICK M \in Trees : M = overlay'[m]
  BY <1>3 DEF IndexInv, IndexTypeOK
<1>4. /\ l \in Changes /\ l.of = m /\ l.gen = generation /\ Sound(l)'
      /\ Segments(l) \subseteq at.staging
  BY <1>3, OverType
<1>5. q \subseteq Paths /\ Loaded(at.delta, at.staging, l.of) = l
  BY <1>3, OverType
<1>6. at.delta # None
  <2>1. at.delta = None => Named(l) = {} /\ q = {}
    BY <1>3, OverType
  <2> QED BY <1>2, <2>1 DEF Named
<1>7. Sound(at.delta)' /\ at.delta \in Changes /\ Named(at.delta) \subseteq Paths
  BY <1>3, <1>6, OverType
<1>8. Named(at.delta) = Named(l) \cup q
  BY <1>3, <1>6, OverType
<1>9. Named(ch) \subseteq Paths /\ odd \subseteq Paths
  BY <1>7 DEF Named, Added, Changes
<1>10. ~at.again => q = {}
  <2> SUFFICES ASSUME ~at.again PROVE q = {}
    OBVIOUS
  <2>1. at.staging = {}
    BY DEF Known
  <2>2. Added(l) = {}
    BY <1>4, <2>1 DEF Segments
  <2> QED BY <1>2, <2>2
<1>11. overlay'[o.dirty.of] = M
  BY <1>1, <1>4
<1>12. WayType(o, wrong)
  <2>1. Sound(o.dirty)' /\ Sound(o.delta)'
    BY <1>1, <1>4, <1>7 DEF Sound, Added
  <2> QED BY <1>1, <1>4, <1>5, <1>7, <1>9, <1>11, <2>1 DEF WayType, Known, Attaches
<1>13. WayRestores(o, at)
  <2>1. Serving(at.tip, at.delta.of)' => at.delta.of = m
    BY NoneAssumption DEF Serving
  <2> QED BY <1>1, <1>4, <1>5, <1>10, <2>1 DEF WayRestores
<1>14. ASSUME NEW p \in Paths \ (Drained(o, at) \cup at.mixed \cup odd)
       PROVE  /\ p \notin at.unseen \cup wrong => Tells(l, M, p, at.files[p])
              /\ OnePlace(l, M, p)
  <2>1. p \notin q /\ p \notin at.changed
    BY <1>1, <1>10, <1>14 DEF Drained, Known, Attaches
  <2>2. at.delta.of = m => Serving(at.tip, m)
    BY DEF Serving
  <2>3. CASE p \in Named(at.delta)
    <3>1. ~at.moved /\ at.delta.of = m
      BY <1>6, <1>14, <2>3 DEF Foreign, Known, Attaches
    <3> QED BY <1>3, <1>6, <1>14, <2>1, <2>2, <2>3, <3>1, OverTells
  <2>4. CASE p \notin Named(at.delta)
    <3>1. p \in Paths \ Named(l)
      BY <1>8, <2>4
    <3>2. Tells(l, M, p, M[p]) /\ OnePlace(l, M, p)
      BY <1>4, <3>1, UnnamedTells
    <3>3. ASSUME p \notin at.unseen \cup wrong PROVE M[p] = at.files[p]
      <4>1. CASE alien
        <5>1. p \in Paths \ Named(ch) /\ Tells(ch, M, p, commits[at.tip].tree[p])
          BY <1>14, <3>3, <4>1
        <5>2. M[p] = commits[at.tip].tree[p]
          BY <5>1, UnnamedTells
        <5>3. at.files[p] = commits[at.tip].tree[p]
          BY <2>1, <2>4, <3>3 DEF Known
        <5> QED BY <5>2, <5>3
      <4>2. CASE ~alien
        <5>1. Answers(at.delta, at.files, at.unseen, at.mixed) /\ at.delta.gen = generation
              /\ at.delta.of = m
          BY <1>6, <2>2, <4>2 DEF Known, Attaches
        <5>2. Tells(at.delta, M, p, at.files[p])
          BY <1>3, <1>14, <3>3, <5>1 DEF Answers
        <5> QED BY <1>7, <2>4, <5>2, UnnamedTells
      <4> QED BY <4>1, <4>2
    <3> QED BY <3>2, <3>3
  <2> QED BY <2>3, <2>4
<1>15. WayTells(o, at, wrong)
  <2>1. ASSUME NEW p \in Paths \ (Drained(o, at) \cup at.unseen \cup wrong \cup at.mixed \cup odd)
        PROVE  Tells(l, M, p, at.files[p])
    BY <1>14, <2>1
  <2>2. ASSUME NEW p \in Paths \ (Drained(o, at) \cup at.mixed \cup odd) PROVE OnePlace(l, M, p)
    BY <1>14, <2>2
  <2> QED BY <1>1, <1>11, <2>1, <2>2 DEF WayTells
<1> QED BY <1>12, <1>13, <1>15 DEF GoodWay

\* ... which it is when the delta is dropped, its paths being queued.
SeededWay(o, manifest, q, stg) == o = Seeded(manifest, q, stg)

LEMMA SeededGood ==
  ASSUME commits' = commits, NEW at, Known(at), NEW ch \in Changes, NEW wrong \in SUBSET Paths,
         ch.gen = generation, Sound(ch)', chain'[at.tip] = ch, overlay'[at.tip] = None,
         overlay'[ch.of] \in Trees,
         \A p \in Paths : OnePlace(ch, overlay'[ch.of], p),
         \A p \in Paths \ wrong : Tells(ch, overlay'[ch.of], p, commits[at.tip].tree[p]),
         generation \in 0..MaxChanges,
         NEW q \in SUBSET Paths, NEW stg \in SUBSET (Paths \X Contents),
         at.delta # None => Named(at.delta) \subseteq q,
         NEW o, SeededWay(o, ch, q, stg)
  PROVE  GoodWay(o, at, wrong)
<1> PICK s : s = stg \cup Segments(ch)
  OBVIOUS
<1>1. o.dirty = ch /\ o.pending = q /\ o.delta = ch /\ o.staging = s /\ o.odd = {}
  BY DEF SeededWay, Seeded
<1>2. s \in SUBSET (Paths \X Contents)
  <2>1. \A p \in Added(ch) : p \in Paths /\ ch.added[p] \in Contents
    BY DEF Added, Changes, Trees
  <2> QED BY <2>1 DEF Segments
<1>3. Loaded(ch, s, ch.of) = ch /\ Queued(ch, s) = {}
  BY RestoresWhole DEF Sound, Added
<1> PICK M \in Trees : M = overlay'[ch.of]
  OBVIOUS
<1>4. WayType(o, wrong)
  <2>1. Sound(o.dirty)' /\ Sound(o.delta)'
    BY <1>1 DEF Sound, Added
  <2> QED BY <1>1, <1>2, <2>1 DEF WayType
<1>5. WayRestores(o, at)
  BY <1>1, <1>3 DEF WayRestores
<1>6. ASSUME NEW p \in Paths \ (Drained(o, at) \cup at.unseen \cup wrong) PROVE Tells(ch, M, p, at.files[p])
  <2>1. Tells(ch, M, p, commits[at.tip].tree[p])
    BY <1>6
  <2>2. at.files[p] = commits[at.tip].tree[p]
    BY <1>1, <1>6 DEF Known, Drained
  <2> QED BY <2>1, <2>2
<1>7. WayTells(o, at, wrong)
  BY <1>1, <1>6 DEF WayTells
<1> QED BY <1>4, <1>5, <1>7 DEF GoodWay

LEMMA ChangesSeed ==
  ASSUME NEW d \in Changes \cup {None}, NEW stg, NEW m \in CommitIds,
         generation \in 0..MaxChanges, d # None => d.repl \subseteq Added(d) \cap d.removed
  PROVE  LET l == Loaded(d, stg, m)
         IN /\ Named(l) \cup Queued(d, stg) \subseteq Paths
            /\ d # None => Named(d) = Queued(d, stg) \cup Named(l)
<1> DEFINE l == Loaded(d, stg, m)
<1>1. l \in Changes /\ Queued(d, stg) \subseteq Paths
  BY LoadedOverlay
<1>2. d # None => Named(d) = Named(l) \cup Queued(d, stg)
  BY LoadedOverlay
<1> HIDE DEF l
<1>3. Named(l) \subseteq Paths
  BY <1>1 DEF Named, Added, Changes
<1> QED BY <1>1, <1>2, <1>3 DEF l

LEMMA FallenKnown == ASSUME NEW at, Known(at)
                     PROVE  /\ Known(Fallen(at)) /\ Fallen(at).tip = at.tip
                            /\ Fallen(at).files = at.files
<1> PICK f : f = Fallen(at)
  OBVIOUS
<1>1. /\ f \in Attaches /\ f.tip = at.tip /\ f.again = at.again /\ f.changed = at.changed
      /\ f.files = at.files /\ f.delta = at.delta /\ f.moved = at.moved
      /\ f.unseen = at.unseen /\ f.mixed = at.mixed
      /\ f.staging \in {at.staging, {}}
  BY DEF Fallen, Known, Attaches
<1>2. Known(f)
  BY <1>1 DEF Known
<1> QED BY <1>1, <1>2

\* What each way of opening leaves: a store that is as it should be, and a good
\* way that is taken.
GoodStore ==
  /\ RepoGrows
  /\ Manifests' /\ Committed' /\ ArtefactsExact'
  /\ overlay' \in [CommitIds -> Trees \cup {None}]
  /\ chain' \in [CommitIds -> Changes \cup {None}]
  /\ blind' \in [overlay : [CommitIds -> SUBSET Paths], chain : [CommitIds -> SUBSET Paths]]

Taken(at, o, wrong) == Known(at) /\ GoodWay(o, at, wrong) /\ Opened(o, at, wrong)
TakenAt(tip, wt) == \E at, o, wrong : at.tip = tip /\ at.files = wt /\ Taken(at, o, wrong)

LEMMA TipFacts ==
  ASSUME IndexInv, NEW at, Known(at)
  PROVE  /\ at.tip \in CommitIds /\ at.tip \in 1..Len(commits) /\ Len(commits) \in Nat
         /\ commits[at.tip].tree \in Trees /\ at.files \in Trees
         /\ at.delta \in Changes \cup {None} /\ at.staging \in SUBSET (Paths \X Contents)
         /\ generation \in 0..MaxChanges
         /\ at.delta # None => at.delta.repl \subseteq Added(at.delta) \cap at.delta.removed
         /\ overlay[at.tip] \in Trees \cup {None} /\ chain[at.tip] \in Changes \cup {None}
         /\ blind.overlay[at.tip] \subseteq Paths /\ blind.chain[at.tip] \subseteq Paths
<1>1. /\ at.tip \in CommitIds /\ at.tip \in 1..Len(commits) /\ at.files \in Trees
      /\ at.delta \in Changes \cup {None} /\ at.staging \in SUBSET (Paths \X Contents)
      /\ at.delta # None => at.delta.repl \subseteq Added(at.delta) \cap at.delta.removed
  BY DEF Known, Attaches, Sound
<1>2. commits[at.tip].tree \in Trees /\ Len(commits) \in Nat
  BY <1>1, CommitType DEF IndexInv
<1>3. /\ overlay[at.tip] \in Trees \cup {None} /\ chain[at.tip] \in Changes \cup {None}
      /\ blind.overlay[at.tip] \subseteq Paths /\ blind.chain[at.tip] \subseteq Paths
      /\ generation \in 0..MaxChanges
  BY <1>1 DEF IndexInv, IndexTypeOK
<1> QED BY <1>1, <1>2, <1>3

LEMMA ByOverlayGood ==
  ASSUME IndexInv, NEW at, Known(at), UNCHANGED <<commits, upstream, generation>>, ByOverlay(at)
  PROVE  GoodStore /\ TakenAt(at.tip, at.files)
<1>1. /\ overlay' = overlay /\ chain' = chain /\ blind' = blind
      /\ commits' = commits /\ generation' = generation
      /\ overlay[at.tip] # None /\ OpenedOwn(at)
  BY DEF ByOverlay
<1>2. /\ at.tip \in CommitIds /\ Len(commits) \in Nat
      /\ overlay[at.tip] \in Trees /\ blind.overlay[at.tip] \subseteq Paths
  BY <1>1, TipFacts
<1>3. RepoGrows /\ Manifests' /\ Committed' /\ ArtefactsExact'
  BY <1>1, RepoSame DEF repoVars
<1>5. GoodStore
  BY <1>1, <1>3 DEF GoodStore, IndexInv, IndexTypeOK
<1>6. OverlayGood(at.tip)'
  BY <1>1, <1>2, <1>3, OverlayStays DEF OverlayGood
<1> PICK o : OwnWay(o, at)
  BY DEF OwnWay
<1> PICK wrong : wrong = blind'.overlay[at.tip]
  OBVIOUS
<1>7. Opened(o, at, wrong)
  BY <1>1 DEF OpenedOwn, OwnWay
<1>8. GoodWay(o, at, wrong)
  BY <1>1, <1>2, <1>3, <1>6, OwnGood
<1> QED BY <1>5, <1>7, <1>8 DEF TakenAt, Taken

LEMMA ByChainGood ==
  ASSUME IndexInv, NEW at, Known(at), UNCHANGED <<commits, upstream, generation>>,
         NEW most, ByChain(at, most)
  PROVE  GoodStore /\ TakenAt(at.tip, at.files)
<1>1. /\ overlay' = overlay /\ chain' = chain /\ blind' = blind
      /\ commits' = commits /\ generation' = generation
      /\ overlay[at.tip] = None /\ chain[at.tip] # None
      /\ ~Stays(Over(chain[at.tip].of, at), FALSE) => Seedable(chain[at.tip])
      /\ Opened(ViaChain(chain[at.tip], FALSE, at), at, blind.chain[at.tip])
  BY DEF ByChain, Serves
<1> PICK ch : ch = chain[at.tip]
  OBVIOUS
<1> PICK wrong : wrong = blind.chain[at.tip]
  OBVIOUS
<1> PICK o : ChainWay(o, ch, FALSE, at)
  BY DEF ChainWay
<1>2. /\ at.tip \in CommitIds /\ Len(commits) \in Nat
      /\ wrong \in SUBSET Paths /\ ch \in Changes /\ generation \in 0..MaxChanges
  BY <1>1, TipFacts
<1>3. RepoGrows /\ Manifests' /\ Committed' /\ ArtefactsExact'
  BY <1>1, RepoSame DEF repoVars
<1>5. GoodStore
  BY <1>1, <1>3 DEF GoodStore, IndexInv, IndexTypeOK
<1>6. Opened(o, at, wrong)
  BY <1>1 DEF ChainWay
<1>7. /\ ch.of \in CommitIds /\ ch.gen = generation /\ Sound(ch) /\ Sound(ch)'
      /\ \A p \in Paths \ wrong : Tells(ch, overlay'[ch.of], p, commits[at.tip].tree[p])
  BY <1>1, <1>2, <1>3, ManifestStays
<1>8. GoodWay(o, at, wrong)
  <2>1. CASE Stays(Over(ch.of, at), FALSE)
    BY <1>1, <1>2, <1>3, <1>7, <2>1, StaysGood
  <2>2. CASE ~Stays(Over(ch.of, at), FALSE)
    <3> PICK q : q = Over(ch.of, at).pending \cup Named(Over(ch.of, at).dirty)
      OBVIOUS
    <3> PICK stg : stg = IF Restored(Over(ch.of, at)) THEN {} ELSE at.staging
      OBVIOUS
    <3>1. SeededWay(o, ch, q, stg)
      BY <2>2 DEF ChainWay, ViaChain, SeededWay
    <3>2. q \in SUBSET Paths /\ (at.delta # None => Named(at.delta) \subseteq q)
      <4>1. /\ at.delta \in Changes \cup {None}
            /\ at.delta # None => at.delta.repl \subseteq Added(at.delta) \cap at.delta.removed
        BY TipFacts
      <4>2. q = Queued(at.delta, at.staging) \cup Named(Loaded(at.delta, at.staging, ch.of))
        BY DEF Over
      <4> PICK d : d = at.delta
        OBVIOUS
      <4> PICK s : s = at.staging
        OBVIOUS
      <4>3. /\ d \in Changes \cup {None} /\ ch.of \in CommitIds
            /\ d # None => d.repl \subseteq Added(d) \cap d.removed
        BY <1>7, <4>1
      <4>4. /\ Named(Loaded(d, s, ch.of)) \cup Queued(d, s) \subseteq Paths
            /\ d # None => Named(d) = Queued(d, s) \cup Named(Loaded(d, s, ch.of))
        BY <1>2, <4>3, ChangesSeed
      <4> QED BY <4>2, <4>4
    <3>3. stg \in SUBSET (Paths \X Contents)
      BY TipFacts
    <3>4. overlay'[ch.of] \in Trees
      BY <1>1, <1>7 DEF Sound, IndexInv, IndexTypeOK
    <3>5. \A p \in Paths : OnePlace(ch, overlay'[ch.of], p)
      <4>1. ASSUME NEW p \in Paths, ch.added[p] # Absent
            PROVE  p \in ch.removed \/ overlay'[ch.of][p] = Absent
        BY <1>1, <1>7, <2>2, <4>1 DEF Seedable, Sound, Added
      <4> QED BY <4>1 DEF OnePlace
    <3>6. chain'[at.tip] = ch /\ overlay'[at.tip] = None
      BY <1>1
    <3> QED BY <1>1, <1>2, <1>7, <3>1, <3>2, <3>3, <3>4, <3>5, <3>6, SeededGood
  <2> QED BY <2>1, <2>2
<1> QED BY <1>5, <1>6, <1>8 DEF TakenAt, Taken

\* Compaction: the overlay says what the manifest over its master did.
LEMMA MergedTells ==
  ASSUME NEW ch \in Changes, NEW tree \in Trees
  PROVE  /\ Merged(ch, tree) \in Trees
         /\ \A p \in Paths : \A content : Tells(ch, tree, p, content) => Merged(ch, tree)[p] = content
<1>1. \A p \in Paths : ch.added[p] \in Contents \cup {Absent} /\ tree[p] \in Contents \cup {Absent}
  BY DEF Changes, Trees
<1>2. Merged(ch, tree) \in Trees
  BY <1>1 DEF Merged, Trees
<1>3. ASSUME NEW p \in Paths, NEW content, Tells(ch, tree, p, content)
      PROVE  Merged(ch, tree)[p] = content
  BY <1>3, TellsMeans DEF Merged
<1> QED BY <1>2, <1>3

LEMMA ByCompactionGood ==
  ASSUME IndexInv, NEW at, Known(at), UNCHANGED <<commits, upstream, generation>>,
         NEW most, ByCompaction(at, most)
  PROVE  GoodStore /\ TakenAt(at.tip, at.files)
<1> PICK c : c = at.tip
  OBVIOUS
<1> PICK ch : ch = chain[c]
  OBVIOUS
<1>1. /\ commits' = commits /\ generation' = generation
      /\ overlay[c] = None /\ ch # None
      /\ overlay' = [overlay EXCEPT ![c] = Merged(ch, overlay[ch.of])]
      /\ chain' = [chain EXCEPT ![c] = None]
      /\ blind' = [blind EXCEPT !.overlay[c] = @ \cup blind.chain[c]]
      /\ OpenedOwn(at)
  BY DEF ByCompaction, Large
<1>2. /\ c \in CommitIds /\ c \in 1..Len(commits) /\ Len(commits) \in Nat
      /\ blind.overlay[c] \subseteq Paths /\ blind.chain[c] \subseteq Paths
      /\ ch \in Changes /\ generation \in 0..MaxChanges
  BY <1>1, TipFacts
<1>3. /\ overlay \in [CommitIds -> Trees \cup {None}] /\ chain \in [CommitIds -> Changes \cup {None}]
      /\ blind \in [overlay : [CommitIds -> SUBSET Paths], chain : [CommitIds -> SUBSET Paths]]
  BY DEF IndexInv, IndexTypeOK
<1>4. /\ ch.of \in CommitIds /\ overlay[ch.of] \in Trees
  BY <1>1, <1>2, <1>3 DEF IndexInv, Manifests, Sound, Changes
<1> PICK tree \in Trees : tree = Merged(ch, overlay[ch.of])
  BY <1>2, <1>4, MergedTells
<1>5. /\ overlay'[c] = tree /\ chain'[c] = None
      /\ blind'.overlay[c] = blind.overlay[c] \cup blind.chain[c]
      /\ \A k \in CommitIds \ {c} : /\ overlay'[k] = overlay[k] /\ chain'[k] = chain[k]
                                    /\ blind'.overlay[k] = blind.overlay[k]
                                    /\ blind'.chain[k] = blind.chain[k]
  BY <1>1, <1>2, <1>3
<1>6. /\ overlay' \in [CommitIds -> Trees \cup {None}] /\ chain' \in [CommitIds -> Changes \cup {None}]
      /\ blind' \in [overlay : [CommitIds -> SUBSET Paths], chain : [CommitIds -> SUBSET Paths]]
  BY <1>1, <1>2, <1>3
<1>7. RepoGrows
  BY <1>1, <1>2, <1>5 DEF RepoGrows
<1>8. OverlayGood(c)'
  <2>1. \A p \in Paths \ blind.chain[c] : Tells(ch, overlay'[ch.of], p, commits'[c].tree[p])
    BY <1>1, <1>2, <1>7, ManifestStays
  <2>2. overlay'[ch.of] = overlay[ch.of]
    BY <1>1, <1>4, <1>5, NoneAssumption
  <2>3. \A p \in Paths \ blind.chain[c] : tree[p] = commits'[c].tree[p]
    BY <1>2, <1>4, <2>1, <2>2, MergedTells
  <2> QED BY <1>5, <2>3 DEF OverlayGood
<1>9. ManifestGood(c)'
  BY <1>5 DEF ManifestGood
<1>10. Manifests' /\ Committed' /\ ArtefactsExact'
  BY <1>1, <1>2, <1>5, <1>7, <1>8, <1>9, RepoGrown
<1>11. GoodStore
  BY <1>6, <1>7, <1>10 DEF GoodStore
<1> PICK o : OwnWay(o, at)
  BY DEF OwnWay
<1> PICK wrong : wrong = blind'.overlay[at.tip]
  OBVIOUS
<1>12. Opened(o, at, wrong)
  BY <1>1 DEF OpenedOwn, OwnWay
<1>13. GoodWay(o, at, wrong)
  BY <1>1, <1>2, <1>5, <1>7, <1>8, OwnGood
<1> QED BY <1>11, <1>12, <1>13 DEF TakenAt, Taken

\* A manifest derived from a parse of the worktree.
LEMMA ByDerivedGood ==
  ASSUME IndexInv, NEW at, Known(at), UNCHANGED <<commits, upstream, generation>>,
         NEW most, ByDerived(at, most)
  PROVE  GoodStore /\ TakenAt(at.tip, at.files)
<1> PICK c : c = at.tip
  OBVIOUS
<1> PICK m : m = Nearest(c)
  OBVIOUS
<1> PICK ch : ch = Derived(m, at.files)
  OBVIOUS
<1> PICK wrong : wrong = Unlike(at)
  OBVIOUS
<1>1. /\ commits' = commits /\ generation' = generation /\ overlay' = overlay
      /\ overlay[c] = None /\ Masters(c) # {}
      /\ chain' = [chain EXCEPT ![c] = ch]
      /\ blind' = [blind EXCEPT !.chain[c] = @ \cup wrong]
      /\ Opened(ViaChain(chain'[c], TRUE, Fallen(at)), at, wrong)
  BY DEF ByDerived, Unchained
<1>2. /\ c \in CommitIds /\ c \in 1..Len(commits) /\ Len(commits) \in Nat
      /\ at.files \in Trees /\ commits[c].tree \in Trees /\ generation \in 0..MaxChanges
  BY TipFacts
<1>3. /\ overlay \in [CommitIds -> Trees \cup {None}] /\ chain \in [CommitIds -> Changes \cup {None}]
      /\ blind \in [overlay : [CommitIds -> SUBSET Paths], chain : [CommitIds -> SUBSET Paths]]
  BY DEF IndexInv, IndexTypeOK
<1>4. wrong \in SUBSET Paths
  BY DEF Unlike
<1>5. m \in CommitIds /\ overlay[m] # None /\ overlay[m] \in Trees /\ m \in 1..Len(commits)
  BY <1>1, <1>3, NearestMaster DEF IndexInv, Manifests
<1>6. /\ ch \in Changes /\ ch.of = m /\ ch.gen = generation
      /\ ch.repl \subseteq Added(ch) \cap ch.removed
      /\ \A p \in Paths : Tells(ch, overlay[m], p, at.files[p]) /\ OnePlace(ch, overlay[m], p)
  BY <1>2, <1>5, DerivedTells
<1>7. /\ chain'[c] = ch /\ overlay'[c] = None
      /\ blind'.chain[c] = blind.chain[c] \cup wrong
      /\ \A k \in CommitIds \ {c} : /\ overlay'[k] = overlay[k] /\ chain'[k] = chain[k]
                                    /\ blind'.overlay[k] = blind.overlay[k]
                                    /\ blind'.chain[k] = blind.chain[k]
      /\ blind'.overlay[c] = blind.overlay[c]
  BY <1>1, <1>2, <1>3
<1>8. /\ overlay' \in [CommitIds -> Trees \cup {None}] /\ chain' \in [CommitIds -> Changes \cup {None}]
      /\ blind' \in [overlay : [CommitIds -> SUBSET Paths], chain : [CommitIds -> SUBSET Paths]]
  BY <1>1, <1>2, <1>3, <1>4, <1>6
<1>9. RepoGrows
  BY <1>1, <1>2, <1>7 DEF RepoGrows
<1>10. Sound(ch)'
  BY <1>1, <1>2, <1>5, <1>6 DEF Sound, Added
<1>11. \A p \in Paths \ wrong : Tells(ch, overlay'[ch.of], p, commits[c].tree[p])
  BY <1>1, <1>6 DEF Unlike
<1>12. OverlayGood(c)' /\ ManifestGood(c)'
  <2>1. OverlayGood(c)'
    BY <1>7 DEF OverlayGood
  <2>2. Sound(chain[c])'
    BY <1>7, <1>10 DEF Sound, Added
  <2>3. \A p \in Paths \ blind'.chain[c] : Tells(chain'[c], overlay'[chain'[c].of], p, commits'[c].tree[p])
    BY <1>1, <1>7, <1>11
  <2>4. chain'[c].gen = generation'
    BY <1>1, <1>6, <1>7
  <2> QED BY <2>1, <2>2, <2>3, <2>4 DEF ManifestGood
<1>13. Manifests' /\ Committed' /\ ArtefactsExact'
  BY <1>1, <1>2, <1>7, <1>9, <1>12, RepoGrown
<1>14. GoodStore
  BY <1>8, <1>9, <1>13 DEF GoodStore
<1> PICK f : f = Fallen(at)
  OBVIOUS
<1>15. f.delta = at.delta /\ f.staging \in {at.staging, {}}
  BY DEF Fallen, Known, Attaches
<1> PICK q : q = Over(m, f).pending \cup Named(Over(m, f).dirty)
  OBVIOUS
<1> PICK stg : stg = IF Restored(Over(m, f)) THEN {} ELSE f.staging
  OBVIOUS
<1> PICK o : SeededWay(o, ch, q, stg)
  BY DEF SeededWay
<1>16. Opened(o, at, wrong)
  <2>1. o = ViaChain(ch, TRUE, f)
    BY <1>6 DEF SeededWay, ViaChain, Stays
  <2> QED BY <1>1, <1>7, <2>1
<1>17. GoodWay(o, at, wrong)
  <2>1. q \in SUBSET Paths /\ (at.delta # None => Named(at.delta) \subseteq q)
    <3> PICK d : d = at.delta
      OBVIOUS
    <3> PICK s : s = f.staging
      OBVIOUS
    <3>1. /\ d \in Changes \cup {None}
          /\ d # None => d.repl \subseteq Added(d) \cap d.removed
      BY TipFacts
    <3>2. q = Queued(d, s) \cup Named(Loaded(d, s, m))
      BY <1>15 DEF Over
    <3>3. /\ Named(Loaded(d, s, m)) \cup Queued(d, s) \subseteq Paths
          /\ d # None => Named(d) = Queued(d, s) \cup Named(Loaded(d, s, m))
      BY <1>2, <1>5, <3>1, ChangesSeed
    <3> QED BY <3>2, <3>3
  <2>2. stg \in SUBSET (Paths \X Contents)
    BY <1>15, TipFacts
  <2>3. overlay'[ch.of] \in Trees /\ \A p \in Paths : OnePlace(ch, overlay'[ch.of], p)
    BY <1>1, <1>5, <1>6
  <2> QED BY <1>1, <1>2, <1>4, <1>6, <1>7, <1>10, <1>11, <2>1, <2>2, <2>3, SeededGood
<1> QED BY <1>14, <1>16, <1>17 DEF TakenAt, Taken

\* An overlay built from it.
LEMMA ByBuildGood ==
  ASSUME IndexInv, NEW at, Known(at), UNCHANGED <<commits, upstream, generation>>,
         NEW most, ByBuild(at, most)
  PROVE  GoodStore /\ TakenAt(at.tip, at.files)
<1> PICK c : c = at.tip
  OBVIOUS
<1> PICK odd : odd = Unlike(at)
  OBVIOUS
<1> PICK f : f = Fallen(at)
  OBVIOUS
<1>1. /\ commits' = commits /\ generation' = generation /\ chain' = chain
      /\ overlay[c] = None
      /\ overlay' = [overlay EXCEPT ![c] = at.files]
      /\ blind' = [blind EXCEPT !.overlay[c] = @ \cup odd]
      /\ OpenedOwn(f)
  BY DEF ByBuild, Unchained
<1>2. /\ c \in CommitIds /\ c \in 1..Len(commits) /\ Len(commits) \in Nat
      /\ at.files \in Trees /\ generation \in 0..MaxChanges
      /\ blind.overlay[c] \subseteq Paths
      /\ chain[c] \in Changes \cup {None} /\ blind.chain[c] \subseteq Paths
  BY TipFacts
<1>3. /\ overlay \in [CommitIds -> Trees \cup {None}] /\ chain \in [CommitIds -> Changes \cup {None}]
      /\ blind \in [overlay : [CommitIds -> SUBSET Paths], chain : [CommitIds -> SUBSET Paths]]
  BY DEF IndexInv, IndexTypeOK
<1>4. odd \in SUBSET Paths
  BY DEF Unlike
<1>5. /\ overlay'[c] = at.files /\ chain'[c] = chain[c]
      /\ blind'.overlay[c] = blind.overlay[c] \cup odd
      /\ blind'.chain[c] = blind.chain[c]
      /\ \A k \in CommitIds \ {c} : /\ overlay'[k] = overlay[k] /\ chain'[k] = chain[k]
                                    /\ blind'.overlay[k] = blind.overlay[k]
                                    /\ blind'.chain[k] = blind.chain[k]
  BY <1>1, <1>2, <1>3
<1>6. /\ overlay' \in [CommitIds -> Trees \cup {None}] /\ chain' \in [CommitIds -> Changes \cup {None}]
      /\ blind' \in [overlay : [CommitIds -> SUBSET Paths], chain : [CommitIds -> SUBSET Paths]]
  BY <1>1, <1>2, <1>3, <1>4
<1>7. RepoGrows
  BY <1>1, <1>2, <1>5 DEF RepoGrows
<1>8. OverlayGood(c)'
  <2>1. \A p \in Paths \ odd : at.files[p] = commits[c].tree[p]
    BY DEF Unlike
  <2> QED BY <1>1, <1>5, <2>1 DEF OverlayGood
<1>9. ManifestGood(c)'
  <2> SUFFICES ASSUME chain[c] # None PROVE ManifestGood(c)'
    BY <1>5 DEF ManifestGood
  <2> PICK d : d = chain[c]
    OBVIOUS
  <2>1. /\ d.gen = generation /\ Sound(d)'
        /\ \A p \in Paths \ blind.chain[c] : Tells(d, overlay'[d.of], p, commits'[c].tree[p])
    BY <1>2, <1>7, ManifestStays
  <2>2. Sound(chain[c])'
    BY <1>5, <2>1 DEF Sound, Added
  <2> QED BY <1>1, <1>5, <2>1, <2>2 DEF ManifestGood
<1>10. Manifests' /\ Committed' /\ ArtefactsExact'
  BY <1>1, <1>2, <1>5, <1>7, <1>8, <1>9, RepoGrown
<1>11. GoodStore
  BY <1>6, <1>7, <1>10 DEF GoodStore
<1>12. Known(f) /\ f.tip = c /\ f.files = at.files
  BY FallenKnown
<1> PICK o : OwnWay(o, f)
  BY DEF OwnWay
<1> PICK wrong : wrong = blind'.overlay[f.tip]
  OBVIOUS
<1>13. Opened(o, f, wrong)
  BY <1>1 DEF OpenedOwn, OwnWay
<1>14. GoodWay(o, f, wrong)
  <2>1. wrong \subseteq Paths /\ overlay'[f.tip] \in Trees /\ OverlayGood(f.tip)'
    BY <1>2, <1>4, <1>5, <1>8, <1>12
  <2> QED BY <1>1, <1>7, <1>12, <2>1, OwnGood
<1>15. Taken(f, o, wrong)
  BY <1>12, <1>13, <1>14 DEF Taken
<1> QED BY <1>11, <1>12, <1>15 DEF TakenAt

LEMMA WarmOrOpenGood ==
  ASSUME IndexInv, NEW at, Known(at), UNCHANGED <<commits, upstream, generation>>, WarmOrOpen(at)
  PROVE  GoodStore /\ TakenAt(at.tip, at.files)
<1>1. CASE ByOverlay(at)
  BY <1>1, ByOverlayGood
<1>2. ASSUME NEW most \in Thresholds, ByChain(at, most) PROVE GoodStore /\ TakenAt(at.tip, at.files)
  BY <1>2, ByChainGood
<1>3. ASSUME NEW most \in Thresholds, ByCompaction(at, most)
      PROVE  GoodStore /\ TakenAt(at.tip, at.files)
  BY <1>3, ByCompactionGood
<1>4. ASSUME NEW most \in Thresholds, ByDerived(at, most) PROVE GoodStore /\ TakenAt(at.tip, at.files)
  BY <1>4, ByDerivedGood
<1>5. ASSUME NEW most \in Thresholds, ByBuild(at, most) PROVE GoodStore /\ TakenAt(at.tip, at.files)
  BY <1>5, ByBuildGood
<1> QED BY <1>1, <1>2, <1>3, <1>4, <1>5 DEF WarmOrOpen

\* An attach, by any way, keeps the invariant.
LEMMA AttachInv ==
  ASSUME IndexInv, NEW at, Known(at), UNCHANGED <<commits, upstream, generation>>, WarmOrOpen(at),
         live', there', head' = at.tip, idx' \in 1..Len(commits), vouched' = {}, files' = at.files,
         Stacked', stack' \in Seq([oid : CommitIds, pre : CommitIds, created : SUBSET Paths])
  PROVE  IndexInv'
<1>1. GoodStore /\ TakenAt(at.tip, at.files)
  BY WarmOrOpenGood
<1>2. PICK a, o, wrong : a.tip = at.tip /\ a.files = at.files /\ Taken(a, o, wrong)
  BY <1>1 DEF TakenAt
<1>3. /\ at.tip \in 1..Len(commits) /\ at.files \in Trees /\ Len(commits) \in Nat
      /\ generation \in 0..MaxChanges
  BY TipFacts
<1>4. /\ LiveInv'
      /\ dirty' \in Changes /\ delta' \in Changes \cup {None}
      /\ staging' \subseteq Paths \X Contents
      /\ pending' \subseteq Paths /\ unseen' \subseteq Paths /\ mixed' \subseteq Paths
  <2>1. idx' # 0 /\ head' = a.tip /\ files' = a.files
    BY <1>2, <1>3
  <2> QED BY <1>1, <1>2, <1>3, <2>1, OpenedInv DEF GoodStore, Taken
<1>5. IndexTypeOK'
  <2>1. /\ commits' = commits /\ upstream' = upstream /\ generation' = generation
        /\ head' \in 0..Len(commits) /\ idx' \in 0..Len(commits) /\ files' \in Trees
        /\ live' \in BOOLEAN /\ there' \in BOOLEAN /\ vouched' \subseteq Paths
    BY <1>3
  <2> QED BY <1>1, <1>4, <2>1 DEF GoodStore, IndexInv, IndexTypeOK
<1> QED BY <1>1, <1>4, <1>5 DEF GoodStore, IndexInv, LiveInv

LEMMA StackStays ==
  ASSUME IndexInv, commits' = commits, stack' = stack \/ stack' = <<>>
  PROVE  Stacked' /\ stack' \in Seq([oid : CommitIds, pre : CommitIds, created : SUBSET Paths])
<1> DEFINE S == [oid : CommitIds, pre : CommitIds, created : SUBSET Paths]
<1>1. stack \in Seq(S)
  BY DEF IndexInv, IndexTypeOK
<1> HIDE DEF S
<1>2. <<>> \in Seq(S) /\ Len(<<>>) = 0
  OBVIOUS
<1>3. CASE stack' = stack
  BY <1>1, <1>3 DEF IndexInv, Stacked, S
<1>4. CASE stack' = <<>>
  BY <1>2, <1>4 DEF Stacked, S
<1> QED BY <1>3, <1>4

LEMMA CheckoutInv == ASSUME IndexInv, Checkout PROVE IndexInv'
<1> PICK tip : tip = IF head = 0 \/ Behind THEN upstream ELSE head
  OBVIOUS
<1> PICK r : r = commits[tip]
  OBVIOUS
<1> PICK at : at = [tip |-> tip, again |-> FALSE, changed |-> {}, files |-> r.tree,
                    delta |-> r.delta, staging |-> {}, moved |-> FALSE,
                    unseen |-> r.unseen, mixed |-> r.mixed]
  OBVIOUS
<1>1. /\ there' /\ live' /\ head' = tip /\ idx' = tip /\ files' = r.tree
      /\ WarmOrOpen(at) /\ stack' = <<>> /\ vouched' = {}
      /\ UNCHANGED <<commits, upstream, generation>>
  BY DEF Checkout
<1>2. tip \in 1..Len(commits)
  <2>1. upstream \in 1..Len(commits) /\ head \in 0..Len(commits) /\ Len(commits) \in Nat
    BY CommitNumbers DEF IndexInv, IndexTypeOK
  <2> QED BY <2>1
<1>3. /\ tip \in CommitIds /\ r.tree \in Trees /\ r.delta \in Changes \cup {None}
      /\ r.unseen \subseteq Paths /\ r.mixed \subseteq Paths
  BY <1>2, CommitType DEF IndexInv
<1>4. /\ at \in Attaches /\ at.tip = tip /\ at.files = r.tree /\ ~at.again /\ at.changed = {}
      /\ at.staging = {} /\ at.delta = r.delta /\ ~at.moved
      /\ at.unseen = r.unseen /\ at.mixed = r.mixed
  BY <1>3 DEF Attaches
<1>5. r.delta # None =>
        /\ Sound(r.delta)
        /\ Agrees(r.delta, r.tree, r.unseen \cup r.mixed)
        /\ Answers(r.delta, r.tree, r.unseen, r.mixed)
  BY <1>2 DEF IndexInv, Committed, CommittedAt
<1>6. Known(at)
  BY <1>2, <1>4, <1>5 DEF Known
<1>7. Stacked' /\ stack' \in Seq([oid : CommitIds, pre : CommitIds, created : SUBSET Paths])
  BY <1>1, StackStays
<1> QED BY <1>1, <1>2, <1>4, <1>6, <1>7, AttachInv

LEMMA FastForwardInv == ASSUME IndexInv, FastForward PROVE IndexInv'
<1> PICK kept : kept = IF commits[idx].delta # None THEN None ELSE delta
  OBVIOUS
<1> PICK wt : wt = Reset(upstream)
  OBVIOUS
<1> PICK odd : odd = unseen \cup Unasked(upstream, wt, kept)
  OBVIOUS
<1> PICK at : at = [tip |-> upstream, again |-> TRUE, changed |-> {}, files |-> wt, delta |-> kept,
                    staging |-> staging, moved |-> kept # None,
                    unseen |-> odd, mixed |-> mixed]
  OBVIOUS
<1>1. /\ there /\ live' /\ head' = upstream /\ idx' = upstream /\ files' = wt /\ stack' = <<>>
      /\ vouched' = {} /\ UNCHANGED <<commits, upstream, generation, there, changes>>
      /\ Reconnect(upstream, upstream, {}, files', kept, kept # None)
  BY DEF FastForward
<1>2. WarmOrOpen(at)
  BY <1>1 DEF Reconnect
<1>3. /\ upstream \in CommitIds /\ upstream \in 1..Len(commits) /\ wt \in Trees
      /\ kept \in Changes \cup {None} /\ staging \in SUBSET (Paths \X Contents)
      /\ odd \subseteq Paths /\ mixed \subseteq Paths
  <2>1. upstream \in 1..Len(commits)
    BY DEF IndexInv, IndexTypeOK
  <2>2. upstream \in CommitIds /\ wt \in Trees
    BY <1>1, <2>1, CommitType, ResetType DEF IndexInv
  <2>3. kept \in Changes \cup {None} /\ staging \in SUBSET (Paths \X Contents)
        /\ unseen \subseteq Paths /\ mixed \subseteq Paths
    BY DEF IndexInv, IndexTypeOK
  <2>4. Unasked(upstream, wt, kept) \subseteq Paths
    BY DEF Unasked
  <2> QED BY <2>1, <2>2, <2>3, <2>4
<1>4. /\ at \in Attaches /\ at.tip = upstream /\ at.files = wt /\ at.again /\ at.changed = {}
      /\ at.staging = staging /\ at.delta = kept /\ (at.moved <=> kept # None)
      /\ at.unseen = odd /\ at.mixed = mixed
  BY <1>3 DEF Attaches
<1>5. ASSUME NEW p \in Paths \ odd
      PROVE  wt[p] = commits[upstream].tree[p] \/ (kept # None /\ p \in Named(kept))
  <2>1. CASE commits[upstream].tree[p] # Absent
    BY <2>1 DEF Reset
  <2>2. CASE commits[upstream].tree[p] = Absent
    BY <1>5, <2>2 DEF Unasked
  <2> QED BY <2>1, <2>2
<1>6. kept # None => Sound(kept)
  BY DEF IndexInv, Placed
<1>7. Known(at)
  BY <1>3, <1>4, <1>5, <1>6 DEF Known
<1>8. Stacked' /\ stack' \in Seq([oid : CommitIds, pre : CommitIds, created : SUBSET Paths])
  BY <1>1, StackStays
<1>9. idx' \in 1..Len(commits) /\ there'
  BY <1>1, <1>3
<1> QED BY <1>1, <1>2, <1>4, <1>7, <1>8, <1>9, AttachInv

LEMMA ResumeInv == ASSUME IndexInv, Resume PROVE IndexInv'
<1> PICK odd : odd = unseen \cup Unasked(idx, files, delta)
  OBVIOUS
<1> PICK changed : changed = Changed(head, idx, files)
  OBVIOUS
<1> PICK at : at = [tip |-> head, again |-> TRUE, changed |-> changed, files |-> files,
                    delta |-> delta, staging |-> staging, moved |-> FALSE,
                    unseen |-> odd, mixed |-> mixed]
  OBVIOUS
<1>1. /\ there /\ ~live /\ live' /\ there' = there /\ head' = head /\ idx' = idx /\ files' = files
      /\ (stack' = stack \/ stack' = <<>>)
      /\ vouched' = {} /\ UNCHANGED <<commits, upstream, generation>>
      /\ WarmOrOpen(at)
  BY DEF Resume, Reconnect
<1>2. /\ head \in 1..Len(commits) /\ idx \in 1..Len(commits)
  <2>1. head \in 0..Len(commits) /\ idx \in 0..Len(commits) /\ Len(commits) \in Nat
    BY CommitNumbers DEF IndexInv, IndexTypeOK
  <2>2. head # 0 /\ idx # 0
    BY <1>1 DEF IndexInv, Placed
  <2> QED BY <2>1, <2>2
<1>3. /\ head \in CommitIds /\ files \in Trees
      /\ delta \in Changes \cup {None} /\ staging \in SUBSET (Paths \X Contents)
      /\ odd \subseteq Paths /\ mixed \subseteq Paths /\ changed \subseteq Paths
  <2>1. head \in CommitIds
    BY <1>2, CommitType DEF IndexInv
  <2>2. /\ files \in Trees /\ delta \in Changes \cup {None} /\ staging \in SUBSET (Paths \X Contents)
        /\ unseen \subseteq Paths /\ mixed \subseteq Paths
    BY DEF IndexInv, IndexTypeOK
  <2>3. Unasked(idx, files, delta) \subseteq Paths /\ changed \subseteq Paths
    BY DEF Unasked, Changed
  <2> QED BY <2>1, <2>2, <2>3
<1>4. /\ at \in Attaches /\ at.tip = head /\ at.files = files /\ at.again /\ at.changed = changed
      /\ at.staging = staging /\ at.delta = delta /\ ~at.moved
      /\ at.unseen = odd /\ at.mixed = mixed
  BY <1>3 DEF Attaches
<1>5. ASSUME NEW p \in Paths \ (changed \cup odd)
      PROVE  files[p] = commits[head].tree[p] \/ (delta # None /\ p \in Named(delta))
  <2>1. commits[idx].tree[p] = commits[head].tree[p] /\ commits[idx].tree[p] \in {Absent, files[p]}
    BY <1>5 DEF Changed
  <2>2. commits[idx].tree[p] # Absent \/ files[p] = Absent \/ (delta # None /\ p \in Named(delta))
    BY <1>5 DEF Unasked
  <2> QED BY <2>1, <2>2
<1>6. delta # None =>
        /\ Sound(delta)
        /\ Agrees(delta, files, odd \cup mixed)
        /\ Serving(head, delta.of) => Answers(delta, files, odd, mixed)
  <2> SUFFICES ASSUME delta # None
               PROVE  /\ Sound(delta)
                      /\ Agrees(delta, files, odd \cup mixed)
                      /\ Serving(head, delta.of) => Answers(delta, files, odd, mixed)
    OBVIOUS
  <2>1. /\ Sound(delta) /\ Agrees(delta, files, unseen \cup mixed)
        /\ Serving(head, delta.of) => Answers(delta, files, unseen, mixed)
    BY <1>1 DEF IndexInv, Placed, Asleep
  <2>2. Agrees(delta, files, odd \cup mixed)
    BY <2>1 DEF Agrees
  <2>3. Serving(head, delta.of) => Answers(delta, files, odd, mixed)
    BY <2>1 DEF Answers
  <2> QED BY <2>1, <2>2, <2>3
<1>7. Known(at)
  BY <1>2, <1>4, <1>5, <1>6 DEF Known
<1>8. Stacked' /\ stack' \in Seq([oid : CommitIds, pre : CommitIds, created : SUBSET Paths])
  BY <1>1, StackStays
<1> QED BY <1>1, <1>2, <1>4, <1>7, <1>8, AttachInv

-----------------------------------------------------------------------------
\* The theorems.

LEMMA IndexStutterInv == ASSUME IndexInv, UNCHANGED indexVars PROVE IndexInv'
<1>1. /\ UNCHANGED repoVars /\ UNCHANGED <<wtVars, ramVars, unseen, mixed>>
  BY DEF indexVars
<1>2. RepoGrows /\ Manifests' /\ Committed' /\ ArtefactsExact'
  BY <1>1, RepoSame
<1>3. overlay' = overlay /\ chain' = chain /\ head' = head
  BY <1>1 DEF repoVars, wtVars
<1>4. LiveInv' /\ Stacked'
  BY <1>1, <1>2, <1>3, StateStays DEF Serving
<1>5. IndexTypeOK'
  BY <1>1 DEF IndexInv, IndexTypeOK, repoVars, wtVars, ramVars
<1> QED BY <1>2, <1>4, <1>5 DEF IndexInv, LiveInv

LEMMA IndexNextInv == IndexInv /\ Counts /\ [IndexNext]_indexVars => IndexInv'
<1> SUFFICES ASSUME IndexInv, Counts, [IndexNext]_indexVars PROVE IndexInv'
  OBVIOUS
<1>1. ASSUME NEW p \in Paths, NEW content \in Contents \cup {Absent},
             Write(p, content) \/ WriteAndDie(p, content) \/ Rewrite(p, content)
      PROVE  IndexInv'
  BY <1>1, WriteInv, WriteAndDieInv, RewriteInv
<1>2. ASSUME NEW p \in Paths, Verified(p) \/ Stale(p) PROVE IndexInv'
  BY <1>2, VerifiedInv, StaleInv
<1>3. CASE BeginTransaction
  BY <1>3, BeginInv
<1>4. CASE Rollback
  BY <1>4, RollbackInv
<1>5. CASE CommitMessage
  BY <1>5, CommitMessageInv
<1>6. CASE FastForward
  BY <1>6, FastForwardInv
<1>7. CASE Resume
  BY <1>7, ResumeInv
<1>8. CASE Checkout
  BY <1>8, CheckoutInv
<1>9. CASE End
  BY <1>9, EndInv
<1>10. CASE RemoveCheckout
  BY <1>10, RemoveCheckoutInv
<1>11. CASE Refresh
  BY <1>11, RefreshInv
<1>12. CASE Warm
  BY <1>12, WarmInv
<1>13. CASE Upgrade
  BY <1>13, UpgradeInv
<1>14. CASE UNCHANGED indexVars
  BY <1>14, IndexStutterInv
<1> QED BY <1>1, <1>2, <1>3, <1>4, <1>5, <1>6, <1>7, <1>8, <1>9, <1>10, <1>11, <1>12, <1>13, <1>14
        DEF IndexNext

\* IndexInv is inductive: whatever opened, edited, rolled back, committed or
\* resumed the session (storage/columnar/columnar_storage/), what it leaves in
\* memory and on disk is what the next of them can start from.
THEOREM IndexInvariant == IndexSpec => [](IndexInv /\ Counts)
BY IndexInitInv, CountsInit, IndexNextInv, CountsNext, PTL DEF IndexSpec

\* Through the attaches, the edits, the transactions, the commits and what
\* others do, the state is of the kind the code's types say it is.
THEOREM IndexTypeCorrect == IndexSpec => []IndexTypeOK
<1>1. IndexInv => IndexTypeOK
  BY DEF IndexInv
<1> QED BY <1>1, IndexInvariant, PTL

\* A query is answered from the rows of the files, one segment for a path,
\* built from what the file has now: the dirty overlay of the session over its
\* master (storage/columnar/dirty_overlay.rs), whatever brought it there.
THEOREM SessionIsExact == IndexSpec => []SessionExact
<1>1. IndexInv => SessionExact
  BY DEF IndexInv
<1> QED BY <1>1, IndexInvariant, PTL

\* A file whose stamp the freshness gate (engine.rs, ensure_file_fresh) takes
\* on trust has the rows the index tells.
THEOREM StampsCanBeTrusted == IndexSpec => []StampsVouch
<1>1. IndexInv => StampsVouch
  BY DEF IndexInv
<1> QED BY <1>1, IndexInvariant, PTL

\* Whenever the process ends, the delta file and the staged segments
\* (storage/columnar/delta_file.rs) give back the dirty overlay it had.
THEOREM DeltaAlwaysRestores == IndexSpec => []DeltaRestores
<1>1. IndexInv => DeltaRestores
  BY DEF IndexInv
<1> QED BY <1>1, IndexInvariant, PTL

\* The overlays and the chain manifests of commits, written, derived, compacted
\* or built (storage/columnar/columnar_storage/commit.rs), tell the files of
\* their commits.
THEOREM ArtefactsAreExact == IndexSpec => []ArtefactsExact
<1>1. IndexInv => ArtefactsExact
  BY DEF IndexInv
<1> QED BY <1>1, IndexInvariant, PTL

=============================================================================
