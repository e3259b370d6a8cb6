# A formal model of ForgeQL

ForgeQL lets AI agents read, edit, build and commit source code through statements (`USE`, `FIND`,
`CHANGE`, `BEGIN TRANSACTION`, `VERIFY build`, `JOB START`, `COMMIT`, `ROLLBACK`, `UNDO`, ...). Each
session owns a git worktree and branch; long commands run on a job pool; what a session must survive
is written into files of its worktree. This directory holds TLA+ models of the parts whose correctness
depends on the order of steps, the TLC runs that check them, and the proofs of what holds for every
value of the constants. Source paths are relative to `src/`; where no crate is named,
`crates/forgeql-core/src/` is meant.

## Inventory

| Part (code) | State | Operations | Hard behaviours | What makes it correct |
|---|---|---|---|---|
| Job pool (`jobs.rs`) | records, `order`, `queue`, `running`, `seq`, mutex, condvar | `start`, `pump`, `complete`, `wait`, `evict`, `status`, `list` | many threads, failing spawns, eviction, deadlines | no slot lost or used twice, FIFO, nobody sleeps through a completion |
| Commit gate (`engine/jobs.rs`, `engine/exec_transaction.rs`, `engine/exec_change/`) | `satisfied_gates`, `mutation_seq`, engine-wide `pending_gate_jobs` | edits, `UNDO`, `VERIFY`, `JOB START`, polls, `COMMIT`, `ROLLBACK`, `USE`, TTL eviction | results arrive after later commands | COMMIT records only content each gated step passed on |
| Transactions (`engine/exec_transaction.rs`, `session/checkpoint_file.rs`, `git/`) | checkpoint stack, `last_clean_oid`, `.forgeql-checkpoints`, branch, git index, worktree | `BEGIN`, `ROLLBACK`, `COMMIT`, restore on `USE` | nesting, crash between two steps | ROLLBACK restores the tree of BEGIN; a restart loses no transaction; no checkpoint commit stays on the branch |
| Edits and UNDO (`engine/exec_change/`, `transforms/`, `undo.rs`) | worktree files, 10-slot undo ring | plan, merge, apply, `IF REV` guards, `UNDO LAST-n` | several files, one failing; ring rotation | a plan is applied in full, UNDO brings back the bytes |
| Sessions (`engine/exec_session.rs`, `engine/exec_source/attach.rs`, `session/`) | session map, pending sessions, sentinel and metadata files | `USE`, resume, restore from disk, TTL eviction | moved bases, idle sessions, restarts | a token always names the same worktree; no live work is deleted |
| Worktree liveness (`session/liveness.rs`, `git/worktree.rs`) | advisory lock per worktree | claim, reclaim, sweep | several engine processes on one data directory | no sweep deletes a worktree an owner holds |
| Open cache (`storage/columnar/open_cache.rs`) | weak entries, gate per key | `get_or_open`, `publish`, `release_gate` | first opens that race, failed opens | one decode per key, no leaked gate |
| Overlay store (`storage/columnar/overlay_*.rs`, `columnar_storage/`, `gc.rs`) | segments, overlays, chain manifests, build lock | build, promote on commit, derive, vacuum | crashes, concurrent builders, missing segments | an overlay that opens is complete |
| Dirty overlay, delta file (`storage/columnar/dirty_overlay.rs`, `delta_file.rs`) | staged segments, tombstones, delta on disk | reindex, purge, flush, reload | ROLLBACK and restart between edit and flush | index rows agree with the files |
| FOUND set (`session/found_set.rs`) | armed set, its file | `FIND` arms, edits clear, `... NODES LAST` uses | persistence, stale revs | a sweep touches only what FIND showed |
| Line budget (`budget.rs`) | remaining lines, window, file per branch | deduct, recover, sweep | zero and ceiling, idle time | never negative, never above the ceiling |
| Node ids (`node_id.rs`, `ast/index/file_indexer/ordinals.rs`) | none | ordinals, format, parse | edits that move nodes | an id keeps naming the same node |
| Queries (`columnar_storage/query/`, `fast_paths.rs`, `overlay.rs`, `filter.rs`) | none | candidates, scans, postings, name streams, grouping, paging | several routes to one answer, budgets | which route serves is not seen in the answer |
| Engine dispatch, parser, output (`engine.rs`, `parser/`, `compact.rs`, `showmore.rs`) | result pages | sequential functions | - | agreement with their documentation |
| Indexing and languages (`ast/`, `forgeql-lang-*`) | symbol tables | parse, extract, enrich | - | data, compared by tests |
| MCP server, CLI, HTTP server and client, coach (`crates/forgeql*`) | engine mutex, HTTP sessions | take the mutex, execute, wait for a job without it, reconcile | other requests served during a wait; a panic caught inside a request | a waiting VERIFY never blocks, nor is mixed up with, other requests |

How they interact: a transport parses a statement, takes the engine mutex and executes it. The engine
owns the session map. Edits change worktree files, the in-memory index, the gate state and (inside a
transaction) the checkpoint file. `VERIFY`, `RUN` and `JOB START` hand a command to the job pool; the
transport then releases the mutex and blocks in `JobRegistry::wait`, and takes it again to reconcile,
so any other request can be served in between. Several processes may share one data directory and meet
only through files, git and advisory locks. `PROJECT.json` lists every part with its status and every
hazard at its line.

## Modules

    JobService ------------ the promise of the pool
      ^    ^ implemented by
      |    JobPool            MCJobPool, JobPoolProofs
      | used by (INSTANCE)
    CommitGate                CommitGateProofs ........ \ MCCommitGate
    Checkpoints               CheckpointsProofs ....... / (MCCheckpoints: violations)
    WorktreeLiveness          WorktreeLivenessProofs .. \
    OpenCache                 StorageProofs ...........  > MCStorage
    OverlayStore              StorageProofs ........... /
    SessionIndex              SessionIndexProofs ...... \
    NodeHandles               NodeHandlesProofs .......  > MCSessionIndex
    FindSymbols               FindSymbolsProofs ....... /

The MC modules put modules side by side that share no state, so that one run of TLC checks them: a
variable says whose behaviour it is (`scope`, `part`), and the others stay in an initial state. Each of
the modules can be checked, and is proved about, on its own.

**JobService** is the abstract specification: a `phase` per job id, submission in id order, admission
in that order under the cap, an outcome, and forgetting of finished jobs only.

**JobPool** is `JobRegistry`. Each action is one step of one thread between two points where another
may run. `Start`, `EvictOne`, `EvictDone` are `start()` with its critical section (the loop of
`evict()` takes one action per turn, holding `lock`). `PumpLock`, `Admit`, `PumpUnlock`, `Spawn`,
`SpawnFails`, `PumpReturn` are `pump()`; workers are spawned after the unlock, and a thread whose spawn
fails goes through `complete()` itself, and through it `pump()` again. `RunJob`, `Complete`, `NotifyAll`
are the worker. `Wait`, `WaitCheck`, `WaitDeadline` are `wait()`: checking and blocking on the condition
variable are one step, as the mutex is released atomically with the block. Service is the refinement
mapping: a record that is absent is "new" above `seq` and "forgotten" below it.

**CommitGate** has one action per engine command, because commands run one at a time under the engine
mutex, and takes the pool to be JobService: a job may start, end or be forgotten between any two
commands. The content of a worktree is one value. `Mutate` is `exec_mutation_inner` and
`apply_plan_inner`, `Undo` is `exec_undo` when something differs, `PartialWrite` is either of them
returning its error after some files were written, `CommandWrites` is a verify or run command that
writes into the worktree, `Submit` is `submit_verify_job` and `submit_run_job`, `Poll` is every place
that calls `reconcile_gate_jobs` without committing. The history variables record what the properties
speak of: `saw` (contents the worktree had while a job ran), `validated` (a step passed on a content it
saw throughout), `current` (jobs submitted since the last edit), `bypass` (changes the gate is not told
of). No guard reads them. A `COMMIT` that is refused still reconciles and is a `Poll`. A restart of the
server loses pool and session map together, so it starts this module again from a fresh gate.

**Checkpoints** is one session: worktree, git index, commits with parent, kind and tree, branch head,
the stack, `last_clean_oid` and the checkpoint file, which is a name in the worktree and in the
checkpoint commits. The engine mutex keeps other engine commands out, so what can come between two steps
of a command is a crash, or `JobWrites`: a verify or run command, whose job holds no lock, writes or
deletes a file, also while no session object is there. Commands are split where a crash leaves the disk
half changed: `BeginCommit`/`BeginPush`, `Create`/`RecordCreated`, `RollbackReset`/`RollbackRemove` (path by
path)/`RollbackSave`/`RollbackPop`, `CommitSquash`/`CommitClear`. `Crash` at "idle" is also an eviction
or an orderly restart; `Restart` restores the stack from the file when it matches HEAD. `Staged` is
`add_all`, which honours ignore rules: names in the index are brought up to date, others are added unless
they are in `ignored`, any set of names chosen in the initial state. (Edits of `.gitignore` inside a
history are left out.) `ResetHard` models `git reset --hard`: names of the target are written, names of
the index that the target lacks are deleted, untracked names stay. `ring` is the set of paths the undo
ring has bytes of, for `UndoDeletion`. History: `atBegin`, `lost` (paths that came to exist untracked since
the outermost BEGIN and that no open transaction has a record of), `written` (paths a job wrote since the
reset of the running ROLLBACK) and `tainted` (why a checkpoint commit may be below the next user commit).
The violation runs of MCCheckpoints use `QuietSpec`, in which no job writes and nothing is ignored, so that
their traces consist of engine commands.

**WorktreeLiveness** is several engine processes on one data directory, seen from one session worktree.
`Scan`, `TryReclaim`, `ScanMeta` are the sweep of `restore_sessions_from_disk` with its two passes;
`Prune`, `RemoveSome`, `RemoveRest`, `DeleteBranch` are `remove_with_branch`, in which either pass or an
eviction may be, and which a process may die in; `UseBegin`, `UseClaim`, `UseCreate`, `UseMkdir`,
`UseCheckout`, `UseAttach`, `UseFails` are `use_source` up to the insertion of the session, the middle of
which (register, make the directory, check out) is libgit2's `worktree add`; `Evict` is one turn of the
eviction task; `Command` is any statement that touches the session. What processes share is on disk or in
the kernel: `tree`, `registered`, `branch`, `work`, `sentinel`, `young` and the two locks; what dies with
a process is `pc`, `session`, `idle`. Abstractions: sessions are independent (path, branch and claim file
are per session), so one worktree stands for all; time is an age in three classes, and `author` ties the
age on disk to the session that wrote it, so that no clock runs backwards; reading the sentinel, the git
state and the directory's age is one step (the hazard is the time between that reading and the lock, which
is kept); making the branch and registering the worktree are one step; one pass over git's metadata reads
path and branch together. git refuses to delete a branch that a registered worktree has checked out, and
registering a name whose directory is gone prunes it first. Only MCP servers sweep and evict; a process
that never does is one that takes no such step. Per-session TTLs, which skip the work check, are left out.
History: `undercut` (owners whose worktree a peer's eviction removes) and `torn` (a process died inside
USE or a teardown, or an eviction met an owner).

**OpenCache** is the cache of opened overlays and segments of one process. A call goes through
`FirstLookup`, the gate of its key, `SecondLookup`, a decode (`DecodeEnds`, `DecodePanics`), the
publication of a weak entry and the release of the gate; each is one step, because the map's mutex is held
for one lookup, insertion or removal. Values and gates are numbers that are used again once nothing refers
to them, as addresses are. A decode gives a whole value, a partial one, an error, or panics. History:
`early` (keys whose decode failed under waiting callers, or whose value died under them) and `panicked`.

**OverlayStore** is an attach to one commit whose files processes share: the probe
(`load_session_index`), the parse, the unlocked and the locked look at the overlay (`warm_or_open`),
`rebuild_or_refuse`, the build under `OverlayLock` and the rename. Attachers may be threads of one process,
which share open entries, or processes that die at any step. The environment loses or damages files, at
most `MaxFaults` times; `VACUUM` is one such fault. History: `late` (a removal of the overlay by its name,
without the lock) and `faulty`.

**SessionIndex** is what the index of a session says of the files of its worktree. `Edit`, `Undo`,
`Rewrite` (a command or an editor), `Stale` and `Verified` (the freshness gate with its stamps), `Commit`,
`BeginTransaction`, `Rollback`, `End`, `Resume`, `FastForward`, `Checkout` are commands of the session;
`Refresh`, `Warm`, `Upgrade` what others do. Every attach is one step through `WarmOrOpen`, which is the
code's cascade: `ByOverlay`, `ByChain`, `ByDerived`, `ByCompaction`, `ByBuild`. A segment is the content it
was built from, a stamp the promise that the file was not written since. `Tells(d, master, p, content)`
says that delta `d` over a master gives exactly one answer for path `p`, and this content. History:
`unseen` (paths changed where the index does not look), `mixed` (paths that a delta of another base
tells) and `blind` (the same, of what an overlay or a manifest was made from).

**NodeHandles** is one file of one session: the constructs on its lines, the segment of the master, the
dirty segment, the staged ones, the undo ring and what BEGIN saved. `Assigned` is the walk of the re-index
with `OrdinalRemapper::assign` at each construct (`Matches`: name and parent, then guard, body fingerprint
and hash, each a filter that must leave a candidate); `Reusable` is the reuse of a staged segment, `Resolved`
the lookup of a handle with its fallback by name. Every edit ends in `TakenIn`, the re-index, whatever verb
it came from. The id of a construct is history: it says which constructs are the same before and after;
`last` says what the last command did.

**FindSymbols** is `FIND symbols` on one index: the scan over candidates (`FindScanned`), with rows that
travel as views or built, that sheds rows on rank as it goes; the groupings counted from postings
(`FindCounted`); the name streams (`FindStreamed`). A query is one step; the state is the index, the query
and the answer. The reference is the set of matching rows, ordered and grouped as `filter.rs` says.
Rows are kept as sequences where the code iterates a bitmap (`RowsAt`, in the order of the row ids); a
sort is by rank (`TopK`), which asks that no two of the rows tie, as none do once they are collapsed. The
scans over the segments are recursive functions. `Corpora` and `Queries` are the indexes and queries
considered, as sets of any size; `FindAssumption` says what an index and a query look like.

A definition named `Mut...` is its successor with a plausible bug: it is not part of the specification
and shows that a property notices it.

| Mutant | Bug | Caught by |
|---|---|---|
| `MutSaturatingDecForgotten` | a slot is not given back | `SlotAccounting` |
| `MutSpawnFailsIgnored` | a failed spawn is not completed | `OneOwner` |
| `MutFinishedAtNotRunning` | eviction takes queued records | `FifoAdmission` |
| `MutNotifyWithoutPump` | a completion does not pump | `NoIdleSlot`, `ServesEveryJob` |
| `MutNotifyOne` | `notify_one` for `notify_all` | `NoLostWakeup`, `WaiterReturns` |
| `MutFinishedAtNotQueued` | eviction takes running records | `ImplementsService` |
| `MutCounts` | `mutation_seq` is not compared | `GateSound` |
| `MutReconcileAnySession` | a result opens every session's gate | `NoStaleOpening` |
| `MutReconcileForgetsRunning` | entries of running jobs are not kept | `PassNotLost` |
| `MutMayCommit` | any gate suffices | `CommitsValidated` |
| `MutSecondLookup` | no second lookup inside the gate | `DecodesOnce` |
| `MutToPublish` | a partial decode is published | `ServesWhole` |
| `MutReturnsUnreleased` | a hit at the second lookup returns with the gate in the map | `NoGateLeft` |
| `MutPanicKeepsLock` | a panic leaves the gate locked | `CallReturns` |
| `MutReadable` | an overlay opens with the segments that do | `NeverSmaller` |
| `MutLookAgain` | no second look under the lock | `BuildsOnce` |
| `MutUnreadable` | an overlay that lacks a segment counts as damaged and is removed | `KeepsReadable` |
| `MutProbe` | the probe does not keep what it decoded | `RefusesForCause` |
| `MutDie` | the lock outlives its holder | `AttachEnds` |
| `MutRecordUnsaved` | a created path is recorded in memory only | `RestartTransparent` |
| `MutStaged` | BEGIN and COMMIT stage only what the index already has | `RestoresUntouchedPaths` |
| `MutToRemove` | the records of the inner transactions are removed instead of its own | `RemovesCreatedPaths` |
| `MutCommitBase` | COMMIT is always put on HEAD | `HistoryClean` |
| `MutUseClaimAtOnce` | USE does not wait for a sweep | `SweepAlone` |
| `MutLockFreeShared` | a sweep takes the shared lock | `SessionsKeepWorktree` |
| `MutBranchMadeUp` | the branch name is derived from the directory name | `BranchGoesWithWorktree` |
| `MutUseCheckoutIgnoresError` | a failed checkout is attached | `ResumesWholeCheckout` |
| `MutReleaseLockForgotten` | a sweep keeps its lock | `UseGetsClaim` |
| `MutStays` | a delta that restored no segment stays, and the chain is not seeded | `SessionExact` |
| `MutIndexed` | the freshness gate compares the file with the row of the master before that of the session | `StampsVouch` |
| `MutTakeIn` | a re-index saves the delta from before it | `DeltaRestores` |
| `MutMerged` | what a change set removes stays in the tree it is merged into | `ArtefactsExact` |
| `MutReusableAlways` | a removal may take a staged segment back | `HandlesSound` |
| `MutMatches` | the guard filter is missing | `KeepsHandles` |
| `MutReusable` | staged segments are never taken back | `UndoRestores` |
| `MutViewNeed` | the scan keeps LIMIT rows, without the OFFSET | `PageExact` |
| `MutValueDeclines` | a grouping is counted though some segment posts the field in part | `GroupsExact` |
| `MutMatched` | the total of the page is counted before rows collapse | `TotalExact` |

## Runs

| Run | What it asks | Bounds, and why they suffice |
|---|---|---|
| `job_pool` | every invariant of the pool, that it implements JobService, that every waiter returns and every accepted job ends | 2 clients, 3 jobs, 2 slots, 1 retained record: one job more than slots (a queue), eviction with queued, running and finished records, both clients and two workers inside `pump()` at once; a waiter may find its job evicted |
| `commit_gate` | gate soundness, no lost result, only validated commits; and restart, restore and branch history of the checkpoints | 2 sessions with one gate each and, of the changes the gate is not told of, only those of an attach; or 1 session with 2 gates, an ungated step, a transaction and every such change; 2 jobs, 2 contents: one stale and one current job of either session. For the checkpoints 1 path, 2 contents, 4 commits, 3 nested transactions, the path ignored or not, a crash or a write of a job anywhere. Paths meet only in the commit of the whole tree, in the reset of the whole tree and in the removal loop, where each is treated alike; three levels give an outermost, a middle and an innermost transaction |
| `storage` | locks, what sweeps and evictions may take, whole checkouts, a USE behind a sweep; one decode per key, no gate left behind; only whole overlays served, one build, refusals with a cause | 2 processes, started four times in all: a process and its successor on either side, so a sweep meets what an earlier death left behind while a peer uses, creates or evicts the worktree. 2 callers, 2 keys, 3 gates (one more than can be in use, so that a released one is used again). 2 attachers in one process or in two, 2 segments, 1 fault: one segment is lost while the other is there |
| `session_index` | the index of a session tells its files, through every way of opening a commit; handles of one file; the answers of `FIND symbols` | 2 paths, 2 contents, 2 changes, 3 commits, one transaction, a chain manifest of two paths is compacted and one of one path is not: a path an overlay tells, one a delta tells, in every order. A file of 2 constructs that grows to 3, sweeps of 2, 2 edits, 2 guards: siblings alike, guarded siblings, a nested construct. 196 indexes of two files of at most three rows, about 1100 queries on them, budgets small enough to be passed |
| `rollback_keeps_gate`, `reattach_resets_seq`, `rollback_removes_recreated`, `outer_rollback_keeps_inner`, `commit_on_checkpoint`, `work_reclaimed_early`, `picks_up_the_base`, `removed_handle_is_dead` | one claim of the documentation or of a comment each, which the code does not keep | the smallest instance with a counterexample |

`CHECK_DEADLOCK FALSE` stands where counters run out of their bounds; the pool run checks deadlock,
which is possible there because a client can always wait for a job again. In WorktreeLiveness all
processes may have died with no start left. Symmetry (sessions, gates, paths, contents, names, guards,
texts) is used in runs of safety properties only, and every property is symmetric in them; the runs with
liveness properties, `job_pool` and `storage`, use none.

Bounds on counters (`MaxJobs`, `MaxSeq`, `MaxDepth`, `MaxNesting`, `MaxCommits`, `MaxStarts`, `MaxFaults`,
`MaxChanges`, `MaxEdits`) are guards of the submitting, editing, starting or beginning action.
`mutation_seq` saturates at 2^64 and `seq` wraps there; neither is reached.

### What the invariants exempt

The properties of the passing runs say precisely where the code is not told of a change, so that what
they do claim is exact. History variables record those places, and no guard reads them.

* `GateSound` and `CommitsValidated` hold while `bypass` is empty; the reasons in it are a ROLLBACK, an
  edit the gate is not told of (one that failed half way, `INSERT NODE FOR`), a command that wrote into
  the worktree, and a rebuilt session with jobs still awaited.
* `RestoresUntouchedPaths` excepts the paths the rolled back transaction recorded as created (most of them
  `RemovesCreatedPaths` speaks of); those in `lost`: created in a transaction inside it, by an edit whose
  record a crash prevented, by an UNDO that took a deletion back, or by a job; those in `written`, which a
  job wrote after the reset (`RemovesCreatedPaths` excepts them too); and those in `Uncovered`, ignored
  files that the commit of BEGIN lacks. `HistoryClean` is stated for histories without a partial ROLLBACK and without a crash inside a
  command (`tainted`).
* `SessionsKeepWorktree` excepts owners that another owner's eviction undercuts: eviction takes no
  exclusive lock. `BranchGoesWithWorktree` and `ResumesWholeCheckout` are stated while `torn` is not set;
  after a death inside `worktree add` the next USE does resume the half-populated directory, and after a
  death between the removal of the directory and of the branch the second pass asks for a branch name made
  up from the directory name, so the branch stays.
* `DecodesOnce` excepts keys in `early`: a decode failed while others waited for it, or its value died
  before they looked. `NoGateLeft` excepts keys in `panicked`, whose gate stays in the map.
* `KeepsReadable` excepts faults and the removal of an overlay that another attacher has rebuilt since it
  was looked at (`late`); `RefusesForCause` says that nothing but that or a fault (`faulty`: one that an
  attach under way met, or a damaged segment, which no parse writes again) ends in a refusal.
* `SessionExact`, `DeltaRestores` and `ArtefactsExact` except, path by path, what changed where the index
  does not look (`unseen`: a command that writes, an ignored or untracked file), what a delta saved over
  another base tells (`mixed`, which is what `picks_up_the_base` is about), and both of what an overlay or
  a manifest was made from (`blind`).
* `KeepsHandles` speaks of re-indexes that assign ordinals, and of constructs that can be told from their
  old siblings of the same name, as can every present sibling of that name (`Settled`): look-alikes are
  matched in order. `UndoRestores` is about UNDO right after the edit, of a file the session had re-indexed
  before, because the first re-index of a file and the reload of ROLLBACK leave no staged segment of the
  bytes from before.
* `PageExact`, `GroupsExact` and `TotalExact` except refusals, rows alike with different values of a
  field that segments post once (`Twins`), and rows that tie in a descending stream (`Tied`); see below.

## Where the code and its documentation disagree

Each of these is a run with `expect: violation`; `PROJECT.json` quotes the lines.

1. `RollbackClosesGate`: ROLLBACK leaves `satisfied_gates` alone, so BEGIN, edit, passing VERIFY,
   ROLLBACK, COMMIT records content no gate ran on.
2. `OldJobsOpenNoGate`: a `USE` that rebuilds the session restarts `mutation_seq` at 0 with jobs of
   the old object still awaited under the same key, so such a job opens the gate of a tree that an edit,
   or the move of the checkout to a moved base, has changed since.
3. `RemovesNothingElse`: a file deleted and written again within a transaction counts as created, and
   ROLLBACK removes it after the reset brought it back.
4. `RemovesInnerCreations`: ROLLBACK of an outer transaction drops the created-path records of the
   inner ones.
5. `UserCommitsOnUserCommits`: after ROLLBACK of an inner transaction, COMMIT is put on the checkpoint
   commit of the outer one.
6. `WorkKeptForTTL`: a start-up sweep decides on a sentinel it read before it has the lock and does not
   read it again, so edits made in between by an owner that has left are deleted at once instead of after
   48 hours.
7. `PicksUpTheBase`: a USE that moves a clean checkout to a moved base leaves the delta file of the old
   base, and its rows shadow those of the new one. The same happens when another session has already
   derived the manifest of the new base.
8. `RemovedHandleIsDead`: the handle of a removed construct of a committed file resolves, by the name of
   its committed row, to the nearest live construct of that name.

Seen while reading the code for the models, and not the subject of a run:

* A descending name stream compares by name, line and path (`overlay.rs:1276-1300`) and lacks only the
  tie-break by kind of `filter.rs:952`, so rows that differ in kind alone may come in another order than
  from a scan (`Tied`).
* ROLLBACK leaves an edit of an ignored, untracked file: `CHANGE FILE` takes any file no language indexes
  (`raw_text.rs:207-221`), `add_all` does not stage it at BEGIN (`git/commit.rs:29-33`), and `reset --hard`
  passes it by. It also leaves what a verify or run command created since BEGIN. `doc/architecture.md:283`
  says of the worktree that ROLLBACK "restores it wholesale", and `exec_change/plan.rs:114-116` that what was
  created below a nested BEGIN "was staged by that BEGIN", which an ignored file is not; the outer
  transaction still has it on record. `Uncovered` and `lost` are these cases.
* A `WHERE` on a posted field sees one value per group of rows alike (`fast_paths.rs:1314-1335` says so),
  so two segments of equal rows with different values are answered by either (`Twins`).
* `MOVE NODES FOUND` counts the lines of a file by its newlines (`found.rs:595-605`): a last line without
  one is not carried along, and an empty file becomes one empty line.
* `FIND symbols` followed by `MOVE` or `COPY NODES FOUND` relocates whole files: `found_set_paths` takes
  the paths of the set, whatever armed it (`doc/syntax.md:582`).
* `apply()` writes the files of a plan in the order of a `HashMap` and stops at the first error, so a plan
  can be half applied, where its comment says "never half-applied".
* An insertion at the end of a file without a final newline is put behind the last line's text.
* `INSERT NODE FOR` closes no gate, clears no FOUND set and writes no undo slot.
* When `.forgeql-foundset` cannot be saved, the file of the previous set stays and is restored at the next
  start.
* `MOVE NODE` of a stale handle that resolves by name retires the ordinal in the text of the handle
  (`relocate.rs:263-276`), not the one of the construct it moves, which the re-index may then hand out
  again; `ordinals.rs:82` says that the retired ordinal is never reissued. NodeHandles models the edits
  within one file, where MOVE is a removal and an insertion.

## Fairness

*JobPool.* Weak fairness is assumed of every step of a thread inside
`start`, `wait`'s check, `pump` and `complete` (the operating system schedules a thread that can run,
and a contended mutex is acquired eventually) and of `RunJob`: a command ends. The pool has no timeout
that would end it, so this is an assumption about the commands, not a guarantee of the code. Nothing
forces a client to submit or wait, nor a deadline to pass, so `WaiterReturns` does not rest on timeouts.
JobService has weak fairness of admission and of completion; `ServesEveryJob` is the refinement with it.

*WorktreeLiveness.* Weak fairness of the sweep, the teardown and the USE of each process: a process that
is alive goes on with what it has begun, and the file-system and git calls in between return. A blocked
`acquire` is granted once the exclusive lock is gone and nobody takes it. Starting, killing, commands,
eviction and the passing of time are not fair. That starts are bounded matters to `UseGetsClaim`: a USE
could wait for ever if new servers kept being started and always won the lock.

*OpenCache.* Weak fairness of the steps of a call (its thread is scheduled, and a contended mutex is
acquired eventually), and strong fairness, per key, of a decode that ends without a panic: reading a file
does not panic for ever, which is an assumption about the disk. Dropping a value is not fair.

*OverlayStore.* Weak fairness of the steps of an attacher that is alive. `AttachEnds` is stated for a time
after which no new attach begins: an attacher could wait for ever behind others that keep arriving at the
build lock. Beginning, dying and faults are not fair.

SessionIndex, NodeHandles, CommitGate, Checkpoints and FindSymbols take one step per command and state no
liveness.

## Proofs

All theorems hold for any finite or infinite set of clients, sessions, steps, paths, contents, processes,
callers, keys, segments and names, and any bounds, that satisfy the named assumptions
(`JobPoolAssumption`, `CommitGateAssumption`, `CheckpointsAssumption`, `WorktreeAssumption`,
`OpenCacheAssumption`, `OverlayStoreAssumption`, `SessionIndexAssumption` and `NoneAssumption`,
`NodeHandlesAssumption` and `NoSegmentAssumption`, `FindAssumption`): the bounds are natural numbers, there
is at least one slot, commit and segment, gates are steps, the special values are distinct. `FindAssumption`
says more, because its constants are data: segments lie in the order of their paths (`OverlayBuilder` sorts
them), the rows of a segment are of its path, the default of a field is never stored and has kinds it is
declared for, a query with no ORDER BY does not descend, and the over-fetch is at least 2 (the code has 4).
Each module of proofs states its inductive invariant first, but for FindSymbolsProofs, where the lemmas
come first.

*JobPoolProofs* proves `TypeOK` first. `OneOwner` is inductive only together with `ThreadInv`, which
says who holds the mutex, which threads may have jobs to spawn and that a worker thread is unborn until
its job is spawned. `FifoAdmission` needs both. `SlotAccounting` then follows step by step with the
cardinality lemmas (the running records are a finite set that gains or loses one element), and
`CommandsBounded` from it. `NoIdleSlot` and `NoLostWakeup` are each inductive on top of those. The
refinement has one case per action: `Start` maps to `Submit`, a successful `Admit` to `Admit` (here FIFO
gives that no older job is queued), `Complete` to `Finish` (here `OneOwner` gives that the record is
running), `EvictOne` to `Forget`, everything else to a stutter.

*CommitGateProofs* proves an invariant per session (`SessionInv`). `GateSound` alone is not inductive:
that a counted job passed on the present tree needs that it is a job of `current` (`AwaitedInOrder`: an
awaited entry with the present `mutation_seq` is current) and that a current job only ever saw the
present tree (`CurrentClean`). `OtherSession` shows that a step of one session leaves the invariant of
the others alone, so each action is treated for its own session only. The action properties
`CommitsValidated` and `NoStaleOpening` follow from the same invariant.

*CheckpointsProofs* proves the four properties of its run and `HeadMatchesStack`, whatever is ignored, the
checkpoint file included, and whatever jobs write. A stack, in memory, in
the checkpoint file or in the file as some commit has it, is a chain of checkpoint commits (`StackIn`);
`Stored` says so of every copy, because a `reset --hard` brings an old copy back. Memory and file agree
whenever a command ends (`Standing`), which is `RestartTransparent`; `Running` says how they differ in the
middle of each command. What is on disk, not in the index, not ignored and not in `lost` was created since
the innermost BEGIN (`Known`), so that the reset and the removals together restore what BEGIN committed but
for what a job writes meanwhile (`Undone`); what BEGIN committed is what it found, but for ignored files
(`CoveredOr`). `Based` follows the commit on which the next COMMIT is put. `CkInv` was checked with 1 path,
4 commits, three nested transactions and every set of ignored names (1.5
million states), and with 2 paths, 3 commits and two nested ones (5 million).

*WorktreeLivenessProofs* proves every safety property of its run, from `WorktreeAssumption` only.
`LockInv` is about who may touch the disk: `LocksHeld` and `LocksExclude` make a sweep exclusive, and
`EvictionUndercuts` says that an owner beside an eviction is recorded as undercut, which is what makes
`SessionsKeepWorktree` inductive. `TypeOK` has a part (no changes without a directory) that needs
`RemovesAlone`: two teardowns may run at once when two owners evict, but only the one that found git's
metadata removes the directory, so nobody deletes it twice or under a fresh checkout. `DiskInv` follows the
disk through creation and teardown as long as `torn` is not set; `BranchGoesWithWorktree` and
`ResumesWholeCheckout` follow from it.

*StorageProofs*, of OpenCache: a gate is the mutex of one decode because whoever is inside it holds it
(`Inside`), it leaves the map only by its holder (`OwnGateRemoved`), and a caller that waits for one the
map no longer has finds a value once it is in, unless the key is `early` (`Gated`). `InUse` says that a
gate in the map has a caller of its key inside or before it, which is `NoGateLeft`.

*StorageProofs*, of OverlayStore: nothing smaller is served because an overlay lists every segment or is
not written (`Complete`). No attach is refused without a cause because from its first look on, an attacher
holds a decode or has parsed, and then nothing but a fault or a late removal takes away what it put there
(`Provided`).

*SessionIndexProofs* proves the four properties of SessionIndex from `IndexInv`, which says of every set of
changes that is kept somewhere, in memory (`Awake`), in the worktree of a session that left memory
(`Asleep`), in a checkpoint (`Committed`, `Stacked`), in the store (`Manifests`), for which master it speaks
and what it then tells. None of the four is inductive alone: what a ROLLBACK loads is the delta of a commit,
what a USE loads may be the delta of another base. The argument for an attach: each way of opening a commit
gives a `GoodWay`, a set of changes that tells the commit or the files (`OwnGood`, `StaysGood`,
`SeededGood`), and `OpenedInv` and `AttachInv` turn any good way into the invariant, whatever comes after it
(the reconnect of Resume, the moved checkout of FastForward). `Counts` keeps the counters in bounds.
`IndexInv` was checked on instances of 0.7 and 9.2 million states.

*NodeHandlesProofs* proves the three properties of NodeHandles. `HandlesInv` says what every place a segment
may come back from holds: the staged segments, one for the same bytes (`Cached`), what BEGIN saved
(`Saved`), the undo ring (`Kept`), all with distinct ordinals below a number that grows with each edit.
`Assigned` is a recursive walk, and a fact about every step of it would be an induction: it is shown instead
that a first step at which the fact fails cannot exist (`LeastNumber`, from the library's `WFMin`;
`WalkExists`, `WalkIsGood`). A step of the walk gives a row a hint that no row before it has, and that is
not retired, or a new ordinal (`AssignGood`). The lemmas on `Without`, `Inserted` and the move give that a
file stays a file. `KeepsHandles` needs that no two constructs share an id, in the file or in what UNDO and
ROLLBACK may bring back of it (`IdsInv`), and three facts about the walk: its rows stay (`WalkStays`), a hint
it has used is that of a row with its parent and its name (`WalkTracks`), and the filters leave a construct
that is told from the other hints nothing but its own (`ToldMatches`). Then the first sibling to get another
ordinal cannot exist: its hint would have been taken by a sibling before it, which has its own
(`KeptOrdinals`). `HandlesInv` and `IdsInv` were checked with files of 3 constructs and 3 edits.

*FindSymbolsProofs* proves the three properties of FindSymbols, for any index and any query. The state
changes once, so `FindInv` is the three properties and `IndexOK`, that the index is one of `Corpora`'s kind;
the work is that a single step, by any of the routes, gives an exact answer from any such index. The
reference is rewritten first: the rows that match are those of each segment and each dirty file in turn,
of those alike the first (`Layered`, `MatchingOf`, `MatchingIs`). Then each route is compared with that set.

- Nothing is missed: each index proposes every row its predicate holds for (`ProposedComplete`), a skipped
  segment has none (`ZoneComplete`), a segment's postings and columns leave those that match
  (`NarrowedFacts`, `SegmentScan`).
- A scan that sheds has `Kept` of the rows so far: of those it dropped each comes after as many kept rows as
  the page needs. This is an invariant over the segments, shown by the least segment at which it would fail
  (`ShedViews`, `ShedBuilt`), since the induction theorems cannot be used. The dirty rows come on top
  (`JoinedCover`); what is left `Suffices` for the page and its `shed` for the total (`ScanSuffices`).
- A name stream has `Enough` when it stops (`AscendingEnough`, `DescendingEnough`), and collapsing what it
  read gives the page unless it falls short, where it does not answer (`StreamedExact`).
- Groups built from rows and groups counted from postings are the same set of rows (`GroupsFit`: `GroupedFit`
  and `CountedFit`); the counts are right because the canonical rows of an overlay are one per symbol
  (`CanonicalFacts`, `ChosenCount`), and the counts of `val` because no selected segment posts it in part
  (`KeyedFacts`).
- `PagedFacts` and `PagedExact` turn what is left into a page: the place of a row is its rank in all that
  match (`PageRank`), even if only some are there (`CoversCard`). `GroupsPaged` says it of groups.

The exceptions of the properties are used where they are needed: `Twins` in `AlikeUnlessTwins`, `Tied` in
`StreamedExact`; a refusal is no answer. `FindInv` has no bound on rows, segments or limits to check against;
the three properties are checked by the run on the corpora of MCSessionIndex.

Proved without a run of their own: the type invariants, `LocksHeld`, `HeadMatchesStack`, `CommandsBounded`
and `GateRemovedByHolder`.

Only model-checked: `WaiterReturns`, `ServesEveryJob`, `UseGetsClaim`, `CallReturns` and `AttachEnds`, which
are liveness under fairness. Every invariant and every action property that a run checks is proved. No module
uses RECURSIVE.

## Plan

Written and proved: every module above. Next:

1. `EditPlans`: the plan of an edit of several files, the undo ring slot by slot with crashes, and the FOUND
   set, cleared and re-gated, which several of the observations above are about.
2. `LineBudget`: deduction, recovery and idle reset at zero and at the ceiling.
3. git calls that fail inside a command, in Checkpoints.

## Not modelled, and why

Parsing, indexing, enrichment and the five language crates are sequential functions of source text that the
repository's own tests compare, as are the encodings of segments and overlays, the renderings of results,
the command line and the HTTP layer; they are most of the repository's lines, so the lines that are modelled
are a small share of it, those in which the order of steps matters. Of the queries, `FIND symbols` is
modelled and `FIND usages`, `FIND files`, `FIND globals` and `SHOW` are not. Network operations on sources and the coach keep no
state a property here is about. The FOUND set and the line budget are planned.

Not in the models of the parts that are there: errors of git inside a command (a commit or reset that fails
half way) and failing saves of the checkpoint file, which the code logs and ignores; the crash between two
renames of the undo ring; ignore rules that change; the rebuild of an overlay from a flushed
`.forgeql-index` (`shadow_writer.rs`), which an attach reaches after a session without a columnar index; a panic inside a statement that the server catches. `PROJECT.json` lists these as
hazards without a property, with the reason.
