---------------------------- MODULE SessionIndex ----------------------------
(***************************************************************************)
(* What a session's index says of the files of its worktree                *)
(* (crates/forgeql-core/src): the dirty overlay over a master overlay      *)
(* (storage/columnar/dirty_overlay.rs, columnar_storage/query/reindex.rs), *)
(* the delta file and the staging directory it comes back from             *)
(* (delta_file.rs), BEGIN, ROLLBACK and COMMIT (engine/exec_transaction.rs, *)
(* columnar_storage/commit.rs), the freshness gate (engine.rs,             *)
(* ensure_file_fresh), and USE: the checkout (git/worktree.rs), and the    *)
(* ways warm_or_open gets at a commit, through its overlay, a written or a *)
(* derived chain manifest, compaction, or a build.                         *)
(*                                                                         *)
(* One worktree.  Other sessions are the environment: they leave overlays, *)
(* REFRESH brings commits, a command rewrites files unseen, and the next   *)
(* binary may be of another index generation.                              *)
(*                                                                         *)
(* Abstracted: a segment is the contents it was built from, and a stamp is *)
(* the promise that the file has not been written since.  The store loses  *)
(* nothing and an attach is one step (module OverlayStore has both); where *)
(* COMMIT puts its commit, crashes inside BEGIN, COMMIT and ROLLBACK, and  *)
(* the checkpoint file are in module Checkpoints.  Files no language       *)
(* claims are left out.                                                    *)
(*                                                                         *)
(* unseen, mixed and blind are history.  A definition whose name starts    *)
(* with Mut is the one after it with a plausible bug, and is not part of   *)
(* the specification.                                                      *)
(***************************************************************************)
EXTENDS Naturals, Sequences, FiniteSets

CONSTANTS Paths,        \* the indexed files
          Contents,     \* what may be in one
          Absent,       \* no file, no segment
          None,         \* no artefact
          Thresholds,   \* what chain_compact_threshold() may say
          MaxChanges,   \* bound: changes of files, upstream's too, and of the index
          MaxCommits,   \* bound: commits of the repository
          MaxDepth      \* bound: nested transactions

ASSUME SessionIndexAssumption == /\ Absent \notin Contents
                                 /\ MaxCommits \in Nat \ {0}
                                 /\ Thresholds \subseteq Nat
                                 /\ {MaxChanges, MaxDepth} \subseteq Nat

VARIABLES
  commits,     \* every commit, oldest first: tree, parent, the delta file in
               \* it if it is a checkpoint, and history: what was odd then
  upstream,    \* the commit of the base branch
  overlay,     \* for each commit, the files its overlay tells, or None
  chain,       \* for each commit, its chain manifest, or None
  generation,  \* ENRICH_VER
  there,       \* the worktree exists
  head,        \* the commit of the session branch; 0 if there is none
  idx,         \* the commit the git index tells
  files,       \* the worktree
  delta,       \* .forgeql-columnar-delta, or None
  staging,     \* the staged segments
  live,        \* a process has the session
  dirty,       \* its dirty overlay, and the master it is over
  pending,     \* paths a load could not restore
  vouched,     \* paths whose stamp is that of the file
  changes,     \* counts the changes of files and of the generation
  stack,       \* the open transactions
  unseen,      \* history: paths changed where the index does not look
  mixed,       \* history: paths with rows of another base
  blind        \* history: the paths an artefact of a commit is not to be
               \* asked about

repoVars == <<commits, upstream, overlay, chain, generation, blind>>
wtVars == <<there, head, idx, files, delta, staging>>
ramVars == <<live, dirty, pending, vouched, stack>>
indexVars == <<repoVars, wtVars, ramVars, changes, unseen, mixed>>

CommitIds == 1..MaxCommits
Trees == [Paths -> Contents \cup {Absent}]
NoFiles == [p \in Paths |-> Absent]

\* A dirty overlay, a delta file and a chain manifest all say this: segments
\* over those of a master, those that say they replace one, and the paths of
\* the master that are hidden.
Changes == [of : CommitIds, gen : 0..MaxChanges, added : Trees,
            repl : SUBSET Paths, removed : SUBSET Paths]

ASSUME NoneAssumption == None \notin Trees \cup Changes

IndexTypeOK ==
  /\ commits \in Seq([tree : Trees, parent : 0..MaxCommits, delta : Changes \cup {None},
                      unseen : SUBSET Paths, mixed : SUBSET Paths])
  /\ Len(commits) \in CommitIds
  /\ upstream \in 1..Len(commits)
  /\ overlay \in [CommitIds -> Trees \cup {None}]
  /\ chain \in [CommitIds -> Changes \cup {None}]
  /\ generation \in 0..MaxChanges
  /\ there \in BOOLEAN /\ live \in BOOLEAN
  /\ head \in 0..Len(commits) /\ idx \in 0..Len(commits)
  /\ files \in Trees
  /\ delta \in Changes \cup {None}
  /\ staging \subseteq Paths \X Contents
  /\ dirty \in Changes
  /\ pending \subseteq Paths /\ vouched \subseteq Paths
  /\ stack \in Seq([oid : CommitIds, pre : CommitIds, created : SUBSET Paths])
  /\ unseen \subseteq Paths /\ mixed \subseteq Paths
  /\ blind \in [overlay : [CommitIds -> SUBSET Paths], chain : [CommitIds -> SUBSET Paths]]

-----------------------------------------------------------------------------

NoChanges(c) == [of |-> c, gen |-> generation, added |-> NoFiles, repl |-> {}, removed |-> {}]
Added(ch) == {p \in Paths : ch.added[p] # Absent}
Named(ch) == Added(ch) \cup ch.removed
Segments(ch) == {<<p, ch.added[p]>> : p \in Added(ch)}

\* What a query is told of p, by the segments over the master and by the
\* master: the file and nothing else.
Tells(ch, tree, p, content) ==
  {ch.added[p], IF p \in ch.removed THEN Absent ELSE tree[p]} = {content, Absent}

\* OverlayBuilder::from_chain: one segment for each path.
MutMerged(ch, tree) == [p \in Paths |-> IF ch.added[p] # Absent THEN ch.added[p] ELSE tree[p]]
Merged(ch, tree) == [p \in Paths |-> IF ch.added[p] # Absent THEN ch.added[p]
                                     ELSE IF p \in ch.removed THEN Absent
                                     ELSE tree[p]]

\* derive_upstream_manifest: what a parse tells that the master does not.
Derived(m, wt) ==
  [NoChanges(m) EXCEPT
     !.added = [p \in Paths |-> IF wt[p] # overlay[m][p] THEN wt[p] ELSE Absent],
     !.repl = {p \in Paths : Absent \notin {wt[p], overlay[m][p]} /\ wt[p] # overlay[m][p]},
     !.removed = {p \in Paths : overlay[m][p] # Absent /\ wt[p] # overlay[m][p]}]

\* reindex_files on the paths of q, over a master.
Reindexed(ch, tree, q, wt) ==
  [ch EXCEPT !.added = [p \in Paths |-> IF p \in q THEN wt[p] ELSE @[p]],
             !.repl = (@ \ q) \cup {p \in q : Absent \notin {tree[p], wt[p]}},
             !.removed = @ \cup {p \in q : tree[p] # Absent \/ wt[p] = Absent}]

\* DeltaFile::load over master m, with the staged segments of stg: an entry of
\* an older generation, or one whose segment is gone, is dropped and queued.
Restorable(d, stg) == {p \in Added(d) : d.gen = generation /\ <<p, d.added[p]>> \in stg}
Loaded(d, stg, m) ==
  IF d = None THEN NoChanges(m)
  ELSE [of |-> m, gen |-> generation,
        added |-> [p \in Paths |-> IF p \in Restorable(d, stg) THEN d.added[p] ELSE Absent],
        repl |-> d.repl \cap Restorable(d, stg),
        removed |-> d.removed]
Queued(d, stg) == IF d = None THEN {} ELSE Added(d) \ Restorable(d, stg)
Foreign(d, m) == d # None /\ d.of # m

\* The commits c was made from.
Ancestors(c) == LET up[n \in 0..MaxCommits] ==
                      IF n = 0 THEN {} ELSE up[commits[n].parent] \cup {n}
                IN (up[c] \cap CommitIds) \ {c}

\* nearest_ancestor: the last of them with an overlay.
Masters(c) == {m \in Ancestors(c) : overlay[m] # None}
Nearest(c) == CHOOSE m \in Masters(c) : \A n \in Masters(c) : n <= m

IndexInit ==
  /\ \E tree \in Trees :
       /\ commits = <<[tree |-> tree, parent |-> 0, delta |-> None, unseen |-> {}, mixed |-> {}]>>
       /\ overlay = [c \in CommitIds |-> IF c = 1 THEN tree ELSE None]
  /\ upstream = 1
  /\ chain = [c \in CommitIds |-> None]
  /\ generation = 0
  /\ there = FALSE /\ live = FALSE
  /\ head = 0 /\ idx = 0
  /\ files = NoFiles
  /\ delta = None
  /\ staging = {}
  /\ dirty = NoChanges(1)
  /\ pending = {} /\ vouched = {}
  /\ stack = <<>>
  /\ changes = 0 /\ unseen = {} /\ mixed = {}
  /\ blind = [overlay |-> [c \in CommitIds |-> {}], chain |-> [c \in CommitIds |-> {}]]

Master == overlay[dirty.of]

-----------------------------------------------------------------------------
\* Editing and reading.

\* The session leaves memory.
Gone ==
  /\ live' = FALSE
  /\ dirty' = [NoChanges(1) EXCEPT !.gen = 0]
  /\ pending' = {} /\ vouched' = {}

\* The index takes in the paths of q as they are in wt, and saves the delta.
MutTakeIn(ch, q, wt, stg) ==
  /\ dirty' = Reindexed(ch, overlay'[ch.of], q, wt)
  /\ delta' = ch
  /\ staging' = stg \cup {<<p, wt[p]>> : p \in {r \in q : wt[r] # Absent}}
TakeIn(ch, q, wt, stg) ==
  /\ dirty' = Reindexed(ch, overlay'[ch.of], q, wt)
  /\ delta' = dirty'
  /\ staging' = stg \cup {<<p, wt[p]>> : p \in {r \in q : wt[r] # Absent}}

Counted == changes < MaxChanges /\ changes' = changes + 1

\* A mutation writes, or deletes, the file, and re-indexes it; in a
\* transaction, a path it brings into existence is remembered.
Write(p, content) ==
  LET wt == [files EXCEPT ![p] = content]
  IN /\ live
     /\ files[p] # content
     /\ UNCHANGED <<repoVars, there, head, idx, live, pending>>
     /\ files' = wt
     /\ TakeIn(dirty, {p}, wt, staging)
     /\ vouched' = vouched \ {p}
     /\ Counted
     /\ stack' = IF stack = <<>> \/ files[p] # Absent THEN stack
                 ELSE [stack EXCEPT ![Len(stack)].created = @ \cup {p}]
     /\ unseen' = unseen \ {p}
     /\ mixed' = mixed \ {p}

\* ... or the process dies between the two.
WriteAndDie(p, content) ==
  /\ live
  /\ files[p] # content
  /\ files' = [files EXCEPT ![p] = content]
  /\ unseen' = unseen \cup {p}
  /\ Gone
  /\ Counted
  /\ UNCHANGED <<repoVars, there, head, idx, delta, staging, stack, mixed>>

\* A command, a formatter or an editor changes a file.
Rewrite(p, content) ==
  /\ there
  /\ files[p] # content
  /\ files' = [files EXCEPT ![p] = content]
  /\ vouched' = vouched \ {p}
  /\ Counted
  /\ unseen' = unseen \cup {p}
  /\ UNCHANGED <<repoVars, there, head, idx, delta, staging, live, dirty, pending, stack,
                 mixed>>

\* path_freshness: the segment a query is answered from, for the gate: the
\* dirty one if there is one, else that of the master, hidden or not.
MutIndexed(p) == IF Master[p] # Absent THEN Master[p] ELSE dirty.added[p]
Indexed(p) == IF dirty.added[p] # Absent THEN dirty.added[p] ELSE Master[p]

\* ensure_file_fresh, where the stamp does not vouch for the file and there
\* are bytes and a segment to compare.
Verified(p) ==
  /\ live /\ p \notin vouched
  /\ files[p] # Absent /\ Indexed(p) = files[p]
  /\ vouched' = vouched \cup {p}
  /\ unseen' = unseen \ {p}
  /\ mixed' = IF dirty.added[p] = Absent /\ p \in dirty.removed \cup blind.overlay[dirty.of]
            THEN mixed \cup {p} ELSE mixed
  /\ UNCHANGED <<changes, repoVars, wtVars, live, dirty, pending, stack>>

Stale(p) ==
  /\ live /\ p \notin vouched
  /\ files[p] # Absent /\ Indexed(p) \notin {Absent, files[p]}
  /\ UNCHANGED <<changes, repoVars, there, head, idx, files, live, pending, stack>>
  /\ TakeIn(dirty, {p}, files, staging)
  /\ vouched' = vouched \cup {p}
  /\ unseen' = unseen \ {p}
  /\ mixed' = mixed \ {p}

-----------------------------------------------------------------------------
\* Transactions.

Commit(record) ==
  /\ Len(commits) < MaxCommits
  /\ commits' = Append(commits, record)

\* BEGIN TRANSACTION: the delta is saved, and committed with the files.
BeginTransaction ==
  /\ live
  /\ Len(stack) < MaxDepth
  /\ delta' = dirty
  /\ Commit([tree |-> files, parent |-> head, delta |-> dirty, unseen |-> unseen, mixed |-> mixed])
  /\ head' = Len(commits')
  /\ idx' = Len(commits')
  /\ stack' = Append(stack, [oid |-> Len(commits'), pre |-> head, created |-> {}])
  /\ UNCHANGED <<changes, upstream, overlay, chain, generation, blind, there, files, staging,
                 live, dirty, pending, vouched, unseen, mixed>>

\* git reset --hard from what the git index has to what the commit has.
Reset(c) == [p \in Paths |-> IF commits[c].tree[p] # Absent THEN commits[c].tree[p]
                             ELSE IF commits[idx].tree[p] # Absent THEN Absent
                             ELSE files[p]]

\* gc_orphaned_staging: what delta d, just restored, does not name goes.
Collected(d) == IF d.gen = generation THEN staging \cap Segments(d) ELSE {}

\* ROLLBACK to the transaction at depth k: reset, remove what it created,
\* collect, load the delta, and re-index what that could not restore.  The
\* branch goes below the checkpoint; the git index stays at it.
Rollback ==
  \E k \in 1..Len(stack) :
    LET point == commits[stack[k].oid]
        wt == [p \in Paths |-> IF p \in stack[k].created THEN Absent ELSE Reset(stack[k].oid)[p]]
        kept == Collected(point.delta)
        queue == Queued(point.delta, kept)
        foreign == IF Foreign(point.delta, dirty.of) THEN Paths ELSE {}
        odd == foreign \cup point.unseen \cup point.mixed \cup blind.overlay[dirty.of]
                 \cup {p \in Paths : wt[p] # point.tree[p]}
    IN /\ live
       /\ UNCHANGED <<changes, repoVars, there, live>>
       /\ files' = wt
       /\ head' = stack[k].pre
       /\ idx' = stack[k].oid
       /\ stack' = SubSeq(stack, 1, k - 1)
       /\ IF queue = {}
          THEN /\ dirty' = Loaded(point.delta, kept, dirty.of)
               /\ delta' = point.delta
               /\ staging' = kept
          ELSE TakeIn(Loaded(point.delta, kept, dirty.of), queue, wt, kept)
       /\ pending' = {}
       /\ vouched' = {p \in vouched : wt[p] = files[p]}
       /\ unseen' = odd \ queue
       /\ mixed' = (odd \cap (foreign \cup point.mixed \cup vouched')) \ queue

\* COMMIT MESSAGE: one commit with all the files, on the commit the outermost
\* transaction began at; the dirty overlay is kept, saved, and becomes the
\* manifest of the commit.
CommitMessage ==
  /\ live
  /\ Commit([tree |-> files, parent |-> IF stack = <<>> THEN head ELSE stack[1].pre,
             delta |-> None, unseen |-> {}, mixed |-> {}])
  /\ head' = Len(commits')
  /\ idx' = Len(commits')
  /\ delta' = dirty
  /\ chain' = [chain EXCEPT ![Len(commits')] = dirty]
  /\ blind' = [blind EXCEPT !.chain[Len(commits')] = unseen \cup mixed]
  /\ stack' = <<>>
  /\ UNCHANGED <<changes, upstream, overlay, generation, there, files, staging,
                 live, dirty, pending, vouched, unseen, mixed>>

-----------------------------------------------------------------------------
\* USE.  The attach at is to commit at.tip, in a worktree with the files
\* at.files, the delta at.delta and the staged segments at.staging; at.again
\* says that the worktree was there before, at.changed what git status then
\* tells, at.moved that the delta is that of another head, and at.unseen and
\* at.mixed what was odd.
\*
\* A way of opening is a record of what is then in memory and on disk, and of
\* the paths that it tells wrongly.

\* finish_open: over master m, what the delta in the worktree restores.
Over(m, at) ==
  [dirty |-> Loaded(at.delta, at.staging, m), pending |-> Queued(at.delta, at.staging),
   delta |-> at.delta, staging |-> at.staging,
   odd |-> IF at.moved \/ Foreign(at.delta, m) THEN Named(at.delta) ELSE {}]

\* seed_dirty_from_chain, the paths of q being queued.
Seeded(manifest, q, stg) ==
  [dirty |-> manifest, pending |-> q, delta |-> manifest,
   staging |-> stg \cup Segments(manifest), odd |-> {}]

\* It refuses an entry over a segment that it does not say it replaces.
Seedable(manifest) ==
  \A p \in Added(manifest) : p \in manifest.repl \/ overlay[manifest.of][p] = Absent

Restored(o) == Named(o.dirty) # {} \/ o.pending # {}

\* open_via_chain, short of the threshold: does the restored delta stay?  If it
\* is not over this manifest, the files that only the manifest names are told
\* from the master.
MutStays(o, derived) == Restored(o) /\ ~derived
Stays(o, derived) == Restored(o) /\ ~derived /\ (Added(o.dirty) # {} \/ o.pending = {})

ViaChain(manifest, derived, at) ==
  LET o == Over(manifest.of, at)
      alien == at.moved \/ at.delta.of # manifest.of \/ at.delta.gen # generation
  IN IF Stays(o, derived)
     THEN [o EXCEPT !.odd = IF alien THEN @ \cup Named(manifest) ELSE @]
     ELSE Seeded(manifest, o.pending \cup Named(o.dirty), IF Restored(o) THEN {} ELSE at.staging)

\* The way is taken.  In a worktree that was there before, what git says is
\* changed, and what is queued, is re-indexed; in a new one the queue stays.
Opened(o, at, wrong) ==
  LET queue == IF at.again THEN at.changed \cup o.pending ELSE {}
  IN /\ IF queue = {} THEN dirty' = o.dirty /\ delta' = o.delta /\ staging' = o.staging
        ELSE TakeIn(o.dirty, queue, at.files, o.staging)
     /\ pending' = IF at.again THEN {} ELSE o.pending
     /\ unseen' = (at.unseen \cup wrong) \ queue
     /\ mixed' = (at.mixed \cup o.odd) \ queue

\* An overlay of the commit itself: a queue that is not drained leaves the
\* rows that the delta hides hidden.
OpenedOwn(at) ==
  LET o == Over(at.tip, at)
  IN Opened([o EXCEPT !.odd = @ \cup o.pending], at, blind'.overlay[at.tip])

\* warm_or_open: the overlay of the commit;
ByOverlay(at) ==
  /\ overlay[at.tip] # None
  /\ UNCHANGED <<overlay, chain, blind>>
  /\ OpenedOwn(at)

\* its manifest, where the change set is short of the threshold;
Small(manifest, most) == Cardinality(Named(manifest)) < most

Serves(at, most) ==
  /\ chain[at.tip] # None /\ Small(chain[at.tip], most)
  /\ ~Stays(Over(chain[at.tip].of, at), FALSE) => Seedable(chain[at.tip])

ByChain(at, most) ==
  /\ overlay[at.tip] = None /\ Serves(at, most)
  /\ UNCHANGED <<overlay, chain, blind>>
  /\ Opened(ViaChain(chain[at.tip], FALSE, at), at, blind.chain[at.tip])

\* compact_chain, where it is not;
Large(at, most) == chain[at.tip] # None /\ ~Small(chain[at.tip], most)

ByCompaction(at, most) ==
  LET manifest == chain[at.tip]
  IN /\ overlay[at.tip] = None /\ Large(at, most)
     /\ overlay' = [overlay EXCEPT ![at.tip] = Merged(manifest, overlay[manifest.of])]
     /\ chain' = [chain EXCEPT ![at.tip] = None]
     /\ blind' = [blind EXCEPT !.overlay[at.tip] = @ \cup blind.chain[at.tip]]
     /\ OpenedOwn(at)

\* no manifest, or one that is refused, when the delta it had dropped has lost
\* its staged segments;
Unchained(at, most) == overlay[at.tip] = None /\ ~Large(at, most) /\ ~Serves(at, most)
Fallen(at) == IF chain[at.tip] # None /\ Restored(Over(chain[at.tip].of, at))
              THEN [at EXCEPT !.staging = {}] ELSE at

\* Paths that the worktree tells otherwise than the commit.
Unlike(at) == {p \in Paths : at.files[p] # commits[at.tip].tree[p]}

\* then a manifest derived from a parse of the worktree,
ByDerived(at, most) ==
  /\ Unchained(at, most)
  /\ Masters(at.tip) # {}
  /\ Small(Derived(Nearest(at.tip), at.files), most)
  /\ chain' = [chain EXCEPT ![at.tip] = Derived(Nearest(at.tip), at.files)]
  /\ blind' = [blind EXCEPT !.chain[at.tip] = @ \cup Unlike(at)]
  /\ UNCHANGED overlay
  /\ Opened(ViaChain(chain'[at.tip], TRUE, Fallen(at)), at, Unlike(at))

\* or an overlay built from it.
ByBuild(at, most) ==
  /\ Unchained(at, most)
  /\ Masters(at.tip) # {} => ~Small(Derived(Nearest(at.tip), at.files), most)
  /\ overlay' = [overlay EXCEPT ![at.tip] = at.files]
  /\ blind' = [blind EXCEPT !.overlay[at.tip] = @ \cup Unlike(at)]
  /\ UNCHANGED chain
  /\ OpenedOwn(Fallen(at))

WarmOrOpen(at) ==
  \/ ByOverlay(at)
  \/ \E most \in Thresholds :
       ByChain(at, most) \/ ByCompaction(at, most) \/ ByDerived(at, most) \/ ByBuild(at, most)

\* What git status tells, between commit c and files wt, of the files in the
\* git index, which has those of commit i.
Changed(c, i, wt) == {p \in Paths : \/ commits[i].tree[p] # commits[c].tree[p]
                                    \/ commits[i].tree[p] \notin {Absent, wt[p]}}

\* resume_checkout_oid: a clean checkout that the base has left behind moves
\* to the base.
Clean == /\ Changed(head, idx, files) = {}
         /\ commits[idx].delta = commits[head].delta
         /\ commits[idx].delta \in {None, delta}
Behind == head \in Ancestors(upstream)

\* A reconnect looks for no untracked file: only the delta can tell one.
Unasked(c, wt, d) == {p \in Paths : commits[c].tree[p] = Absent /\ wt[p] # Absent}
                       \ (IF d = None THEN {} ELSE Named(d))

\* USE finds a worktree.
Reconnect(c, i, changed, wt, d, moved) ==
  WarmOrOpen([tip |-> c, again |-> TRUE, changed |-> changed, files |-> wt, delta |-> d,
              staging |-> staging, moved |-> moved,
              unseen |-> unseen \cup Unasked(i, wt, d), mixed |-> mixed])

FastForward ==
  LET kept == IF commits[idx].delta # None THEN None ELSE delta
  IN /\ there /\ ~live
     /\ Behind /\ Clean
     /\ live' = TRUE
     /\ head' = upstream /\ idx' = upstream
     /\ files' = Reset(upstream)
     /\ stack' = <<>>
     /\ Reconnect(upstream, upstream, {}, files', kept, kept # None)
     /\ vouched' = {}
     /\ UNCHANGED <<commits, upstream, generation, there, changes>>

Resume ==
  /\ there /\ ~live
  /\ ~(Behind /\ Clean)
  /\ live' = TRUE
  /\ stack' = IF stack # <<>> /\ stack[Len(stack)].oid = head THEN stack ELSE <<>>
  /\ Reconnect(head, idx, Changed(head, idx, files), files, delta, FALSE)
  /\ vouched' = {}
  /\ UNCHANGED <<commits, upstream, generation, there, head, idx, files, changes>>

\* USE finds none, and checks the session branch out, or a new one.
Checkout ==
  LET tip == IF head = 0 \/ Behind THEN upstream ELSE head
      new == commits[tip]
  IN /\ ~there
     /\ there' = TRUE /\ live' = TRUE
     /\ head' = tip /\ idx' = tip
     /\ files' = new.tree
     /\ WarmOrOpen([tip |-> tip, again |-> FALSE, changed |-> {}, files |-> new.tree,
                    delta |-> new.delta, staging |-> {}, moved |-> FALSE,
                    unseen |-> new.unseen, mixed |-> new.mixed])
     /\ stack' = <<>>
     /\ vouched' = {}
     /\ UNCHANGED <<commits, upstream, generation, changes>>

-----------------------------------------------------------------------------
\* The rest of the world.

\* The session leaves memory: eviction, a restart, a crash.
End ==
  /\ live
  /\ Gone
  /\ UNCHANGED <<changes, repoVars, wtVars, stack, unseen, mixed>>

\* The worktree is removed, and its branch with it, or not.
RemoveCheckout ==
  /\ there /\ ~live
  /\ there' = FALSE
  /\ head' \in {head, 0}
  /\ idx' = 0
  /\ files' = NoFiles /\ delta' = None /\ staging' = {} /\ stack' = <<>>
  /\ unseen' = {} /\ mixed' = {}
  /\ UNCHANGED <<changes, repoVars, live, dirty, pending, vouched>>

\* REFRESH brings a commit, made on the base or on what the session committed.
Refresh ==
  \E p \in Paths, content \in Contents \cup {Absent},
     c \in {upstream} \cup (IF head # 0 /\ commits[head].delta = None THEN {head} ELSE {}) :
    /\ Commit([tree |-> [commits[c].tree EXCEPT ![p] = content], parent |-> c, delta |-> None,
               unseen |-> {}, mixed |-> {}])
    /\ commits[c].tree[p] # content
    /\ upstream' = Len(commits')
    /\ Counted
    /\ UNCHANGED <<overlay, chain, generation, blind, wtVars, ramVars, unseen, mixed>>

\* Another session, or the warmer, leaves an overlay of a user commit, or a
\* manifest that it has derived.
Warm ==
  \E c \in 1..Len(commits) :
    /\ overlay[c] = None /\ commits[c].delta = None
    /\ \/ /\ overlay' = [overlay EXCEPT ![c] = commits[c].tree]
          /\ UNCHANGED chain
       \/ /\ chain[c] = None /\ Masters(c) # {}
          /\ \E most \in Thresholds : Small(Derived(Nearest(c), commits[c].tree), most)
          /\ chain' = [chain EXCEPT ![c] = Derived(Nearest(c), commits[c].tree)]
          /\ UNCHANGED overlay
    /\ UNCHANGED <<changes, commits, upstream, generation, blind, wtVars, ramVars,
                   unseen, mixed>>

\* A binary of another index generation: it reads none of the old artefacts.
Upgrade ==
  /\ ~live
  /\ Counted
  /\ generation' = generation + 1
  /\ overlay' = [c \in CommitIds |-> None]
  /\ chain' = [c \in CommitIds |-> None]
  /\ UNCHANGED <<commits, upstream, blind, wtVars, ramVars, unseen, mixed>>

IndexNext ==
  \/ \E p \in Paths, content \in Contents \cup {Absent} :
       Write(p, content) \/ WriteAndDie(p, content) \/ Rewrite(p, content)
  \/ \E p \in Paths : Verified(p) \/ Stale(p)
  \/ BeginTransaction
  \/ Rollback
  \/ CommitMessage
  \/ FastForward \/ Resume \/ Checkout \/ End \/ RemoveCheckout
  \/ Refresh \/ Warm \/ Upgrade

IndexSpec == IndexInit /\ [][IndexNext]_indexVars

-----------------------------------------------------------------------------

\* The rows a query answers from are those of the files: of a path, one
\* segment, built from what the file has now (storage/columnar/dirty_overlay.rs:
\* 48-51), through edits, COMMIT, ROLLBACK, a restart, a new index generation
\* and every way of opening a commit.  Short of the paths changed where the
\* index does not look (unseen), and of those told over another base (mixed).
SessionExact ==
  live => \A p \in Paths \ (unseen \cup mixed) : Tells(dirty, Master, p, files[p])

\* The stamp, which lets a query skip the comparison with the file (engine.rs:
\* 800-812), is on a path whose rows are those of the file, one the index was
\* not looking at included.
StampsVouch ==
  live => \A p \in vouched \ mixed : Tells(dirty, Master, p, files[p])

\* At any moment the delta file and the staged segments give the dirty overlay
\* back, "so the overlay state survives server restarts and ROLLBACK"
\* (columnar_storage/commit.rs:792-793); what they do not give back is queued.
DeltaRestores ==
  live => /\ Loaded(delta, staging, dirty.of) = dirty
          /\ Queued(delta, staging) \subseteq pending

\* An overlay, or a manifest over its master, tells the files of its commit:
\* "a bad manifest can cost time, never rows" (columnar_storage/commit.rs:146-147).  Short of
\* the paths it was made blind to: those odd in the session that committed,
\* and those changed in the worktree that was parsed.
ArtefactsExact ==
  \A c \in 1..Len(commits), p \in Paths :
    /\ overlay[c] # None /\ p \notin blind.overlay[c] => overlay[c][p] = commits[c].tree[p]
    /\ chain[c] # None /\ p \notin blind.chain[c] =>
         Tells(chain[c], overlay[chain[c].of], p, commits[c].tree[p])

\* "a re-USE after REFRESH actually picks up the new base instead of silently
\* resuming the old one" (git/worktree.rs:205-206): the rows are those of the
\* base, for the paths that were told rightly before.
PicksUpTheBase ==
  [][FastForward => \A p \in Paths \ (unseen \cup mixed) :
                      Tells(dirty', overlay'[dirty'.of], p, files'[p])]_indexVars

=============================================================================
