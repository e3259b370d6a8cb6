---------------------------- MODULE Checkpoints ----------------------------
(***************************************************************************)
(* Transactions of one session on its git branch: BEGIN TRANSACTION,       *)
(* ROLLBACK and COMMIT with the commits they make, the checkpoint stack,   *)
(* the file that persists it in the worktree, and the paths a transaction  *)
(* created (engine/exec_transaction.rs, session/checkpoint_file.rs,        *)
(* git/commit.rs, git/mod.rs, engine/exec_change/plan.rs).                 *)
(*                                                                         *)
(* The engine mutex keeps other engine commands of the session out, so two *)
(* things can come between two steps of one: a crash, and a verify or run  *)
(* command, whose job holds no lock, that writes a file.  An engine        *)
(* command is split where a crash would leave the disk half changed.  At   *)
(* "idle" a crash is also an eviction or an orderly restart.               *)
(*                                                                         *)
(* Abstracted: the checkpoint file is one more name in the worktree and in *)
(* the commits; the other runtime files are left out, and so are           *)
(* directories (ROLLBACK keeps a created one that is not empty).  Staging  *)
(* and a reset are one step.  The ignore rules of the repository are the   *)
(* set of names they cover and do not change.  What jobs run writes files, *)
(* neither the index, nor a branch, nor the checkpoint file.  A            *)
(* transaction is named by its depth.  A base branch that moves takes      *)
(* along a clean checkout without commits of its own only, which has no    *)
(* state here.                                                             *)
(*                                                                         *)
(* atBegin, lost, written and tainted are history: no step of the code     *)
(* depends on them.  A definition whose name starts with Mut is the one    *)
(* after it with a plausible bug, and is not part of the specification.    *)
(***************************************************************************)
EXTENDS Naturals, Sequences, FiniteSets

CONSTANTS Paths,         \* files of the worktree
          FileContents,  \* what a file can hold
          Absent,        \* no such file
          CkFile,        \* .forgeql-checkpoints
          MaxCommits,    \* bound: commits ever made, the first one included
          MaxNesting     \* bound: nested transactions

ASSUME CheckpointsAssumption == /\ Absent \notin FileContents
                                /\ CkFile \notin Paths
                                /\ MaxCommits \in Nat \ {0}
                                /\ MaxNesting \in Nat

VARIABLES
  commits,    \* the commits made so far, in order: parent, kind, tree
  head,       \* the commit the session branch points to
  index,      \* the names in the git index
  ignored,    \* the names the ignore rules of the repository cover
  worktree,   \* the worktree: what each name holds
  attached,   \* a session object exists in memory
  stack,      \* Session::checkpoints
  lastClean,  \* Session::last_clean_oid, 0 for None
  step,       \* where the running command is
  undoing,    \* the checkpoint a running ROLLBACK popped
  ring,       \* the paths the undo ring has bytes of
  todo,       \* created paths that ROLLBACK has yet to remove, or that an
              \* edit has yet to record
  atBegin,    \* history: the files at the BEGIN that made each commit
  lost,       \* history: paths that came to exist untracked since the
              \* outermost BEGIN, and that no open transaction has a record of
  written,    \* history: paths a job wrote since the reset of a ROLLBACK
  tainted     \* history: why the branch may hold a checkpoint commit below
              \* the next user commit: an outer transaction outlived a
              \* ROLLBACK ("nested"), a crash cut a command short ("crash")

gitVars == <<commits, head, index, ignored>>
memVars == <<attached, stack, lastClean>>
opVars == <<step, undoing, todo>>
pastVars == <<atBegin, lost, written, tainted>>
checkpointsVars == <<gitVars, worktree, ring, memVars, opVars, pastVars>>

Names == Paths \cup {CkFile}
CommitIds == 1..MaxCommits
Frames == [oid : CommitIds, pre : CommitIds, created : SUBSET Paths]
Files == [stack : Seq(Frames), lastClean : 0..MaxCommits]
NoFrame == [oid |-> 0, pre |-> 0, created |-> {}]
FileTrees == [Names -> FileContents \cup Files \cup {Absent}]

ASSUME AbsentAssumption == Absent \notin Files

CheckpointsTypeOK ==
  /\ commits \in Seq([parent : 0..MaxCommits, kind : {"user", "checkpoint"}, tree : FileTrees])
  /\ Len(commits) \in CommitIds
  /\ head \in 1..Len(commits)
  /\ index \subseteq Names
  /\ ignored \subseteq Names
  /\ worktree \in FileTrees
  /\ attached \in BOOLEAN
  /\ stack \in Seq(Frames)
  /\ lastClean \in 0..MaxCommits
  /\ step \in {"idle", "record", "push", "clear", "remove", "save", "pop"}
  /\ step = "record" => stack # <<>>
  /\ undoing \in Frames \cup {NoFrame}
  /\ todo \subseteq Paths
  /\ ring \subseteq Paths
  /\ lost \subseteq Paths
  /\ written \subseteq Paths
  /\ atBegin \in [CommitIds -> [Paths -> FileContents \cup {Absent}]]
  /\ tainted \subseteq {"nested", "crash"}

-----------------------------------------------------------------------------

Present(tree) == {n \in Names : tree[n] # Absent}

CheckpointsInit ==
  /\ worktree \in {[n \in Names |-> IF n = CkFile THEN Absent ELSE f[n]] :
                     f \in [Paths -> FileContents \cup {Absent}]}
  /\ commits = <<[parent |-> 0, kind |-> "user", tree |-> worktree]>>
  /\ head = 1
  /\ index = Present(worktree)
  /\ ignored \in SUBSET Names
  /\ attached = TRUE
  /\ stack = <<>>
  /\ lastClean = 0
  /\ step = "idle"
  /\ undoing = NoFrame
  /\ todo = {}
  /\ ring = {}
  /\ lost = {}
  /\ written = {}
  /\ atBegin = [c \in CommitIds |-> [p \in Paths |-> Absent]]
  /\ tainted = {}

Ready == attached /\ step = "idle"

Top == stack[Len(stack)]

\* checkpoint_file::save writes what the session object holds.
SavedFile(stk, clean) == [stack |-> stk, lastClean |-> clean]

\* add_all(): names the index has are brought up to date, others are added
\* unless they are ignored.
MutStaged(excluded) == {n \in Present(worktree) \ excluded : n \in index}
Staged(excluded) == {n \in Present(worktree) \ excluded : n \in index \/ n \notin ignored}

\* stage all but `excluded` and what is ignored, and commit it on `parent`;
\* the branch moves to the new commit.
CommitTree(parent, kind, excluded) ==
  LET staged == Staged(excluded)
      tree == [n \in Names |-> IF n \in staged THEN worktree[n] ELSE Absent]
  IN /\ Len(commits) < MaxCommits
     /\ commits' = Append(commits, [parent |-> parent, kind |-> kind, tree |-> tree])
     /\ head' = Len(commits) + 1
     /\ index' = staged
     /\ UNCHANGED ignored

\* git reset --hard: every name of the target is written, every name in the
\* index that the target lacks is deleted, untracked files stay.
ResetHard(c) ==
  /\ head' = c
  /\ index' = Present(commits[c].tree)
  /\ worktree' = [n \in Names |-> IF n \in Present(commits[c].tree) THEN commits[c].tree[n]
                                  ELSE IF n \in index THEN Absent
                                  ELSE worktree[n]]
  /\ UNCHANGED ignored

-----------------------------------------------------------------------------

\* An edit that rewrites or deletes an existing file; UNDO of one is another.
Change(p) ==
  /\ Ready
  /\ worktree[p] # Absent
  /\ \E c \in (FileContents \cup {Absent}) \ {worktree[p]} :
       worktree' = [worktree EXCEPT ![p] = c]
  /\ ring' = ring \cup {p}
  /\ UNCHANGED <<gitVars, memVars, opVars, pastVars>>

\* UNDO brings a deleted file back, which nothing records.
UndoDeletion(p) ==
  /\ Ready
  /\ worktree[p] = Absent
  /\ p \in ring
  /\ \E c \in FileContents : worktree' = [worktree EXCEPT ![p] = c]
  /\ lost' = IF p \in index THEN lost ELSE lost \cup {p}
  /\ UNCHANGED <<gitVars, ring, memVars, opVars, atBegin, written, tainted>>

\* A command that a job runs writes or deletes a file, whatever the engine is
\* at and whether or not the session is still there.
JobWrites(p) ==
  /\ \E c \in (FileContents \cup {Absent}) \ {worktree[p]} :
       worktree' = [worktree EXCEPT ![p] = c]
  /\ lost' = IF worktree[p] = Absent /\ p \notin index THEN lost \cup {p} ELSE lost
  /\ written' = IF step \in {"remove", "pop"} THEN written \cup {p} ELSE written
  /\ UNCHANGED <<gitVars, ring, memVars, opVars, atBegin, tainted>>

\* record_created() has nothing to do outside a transaction.
Recording == stack # <<>>

\* An edit that brings a file into existence; record_created() comes next.
Create(p) ==
  /\ Ready
  /\ worktree[p] = Absent
  /\ \E c \in FileContents : worktree' = [worktree EXCEPT ![p] = c]
  /\ ring' = ring \cup {p}
  /\ IF Recording THEN step' = "record" /\ todo' = {p} ELSE UNCHANGED <<step, todo>>
  /\ UNCHANGED <<gitVars, memVars, undoing, pastVars>>

MutRecordUnsaved ==
  /\ step = "record"
  /\ stack' = [stack EXCEPT ![Len(stack)].created = @ \cup todo]
  /\ step' = "idle"
  /\ todo' = {}
  /\ UNCHANGED <<ring, worktree, gitVars, attached, lastClean, undoing, pastVars>>
\* record_created(): the innermost transaction remembers the path, in memory
\* and in its file.
RecordCreated ==
  /\ step = "record"
  /\ stack' = [stack EXCEPT ![Len(stack)].created = @ \cup todo]
  /\ worktree' = [worktree EXCEPT ![CkFile] = SavedFile(stack', lastClean)]
  /\ step' = "idle"
  /\ todo' = {}
  /\ UNCHANGED <<ring, gitVars, attached, lastClean, undoing, pastVars>>

\* BEGIN TRANSACTION commits the worktree as it is, checkpoint file included
\* and untracked ignored files left out.
BeginCommit ==
  /\ Ready
  /\ Len(stack) < MaxNesting
  /\ CommitTree(head, "checkpoint", {})
  /\ atBegin' = [atBegin EXCEPT ![head'] = [p \in Paths |-> worktree[p]]]
  /\ lost' = IF stack = <<>> THEN {} ELSE lost
  /\ step' = "push"
  /\ UNCHANGED <<ring, worktree, memVars, undoing, todo, written, tainted>>

\* BEGIN then pushes the checkpoint and saves the stack.
BeginPush ==
  /\ step = "push"
  /\ stack' = Append(stack, [oid |-> head, pre |-> commits[head].parent, created |-> {}])
  /\ lastClean' = IF lastClean = 0 THEN commits[head].parent ELSE lastClean
  /\ worktree' = [worktree EXCEPT ![CkFile] = SavedFile(stack', lastClean')]
  /\ step' = "idle"
  /\ UNCHANGED <<ring, gitVars, attached, undoing, todo, pastVars>>

\* pop_rollback_checkpoint(): the base of the next COMMIT.
BaseAfterPop(stk, pre) == IF stk = <<>> THEN 0 ELSE pre

\* The commit ROLLBACK resets the worktree to.
RollbackTarget(frame) == frame.oid

MutToRemove(k) == UNION {stack[i].created : i \in (k+1)..Len(stack)}
\* The paths ROLLBACK removes once the reset is done.
ToRemove(k) == stack[k].created

\* ROLLBACK to the transaction at depth k: pop it and those inside it, and
\* git reset --hard to its checkpoint.
RollbackReset(k) ==
  /\ Ready
  /\ undoing' = stack[k]
  /\ todo' = ToRemove(k)
  /\ lost' = lost \cup UNION {stack[i].created : i \in (k+1)..Len(stack)}
  /\ stack' = SubSeq(stack, 1, k-1)
  /\ lastClean' = BaseAfterPop(stack', stack[k].pre)
  /\ ResetHard(RollbackTarget(stack[k]))
  /\ tainted' = IF k = 1 THEN tainted \ {"nested"} ELSE tainted \cup {"nested"}
  /\ written' = {}
  /\ step' = "remove"
  /\ UNCHANGED <<ring, commits, attached, atBegin>>

\* ROLLBACK removes what the transaction created, path by path.
RollbackRemove ==
  /\ step = "remove"
  /\ todo # {}
  /\ \E p \in todo : /\ worktree' = [worktree EXCEPT ![p] = Absent]
                     /\ todo' = todo \ {p}
  /\ UNCHANGED <<ring, gitVars, memVars, step, undoing, pastVars>>

\* ROLLBACK saves the popped stack, or removes the file if nothing is left.
RollbackSave ==
  /\ step = "remove"
  /\ todo = {}
  /\ worktree' = [worktree EXCEPT ![CkFile] =
                     IF stack = <<>> /\ lastClean = 0 THEN Absent
                     ELSE SavedFile(stack, lastClean)]
  /\ step' = "pop"
  /\ UNCHANGED <<ring, gitVars, memVars, undoing, todo, pastVars>>

\* ROLLBACK moves the branch below the checkpoint commit: git reset --soft.
RollbackPop ==
  /\ step = "pop"
  /\ head' = undoing.pre
  /\ step' = "idle"
  /\ undoing' = NoFrame
  /\ written' = {}
  /\ UNCHANGED <<ring, commits, index, ignored, worktree, memVars, todo, atBegin, lost, tainted>>

\* Where COMMIT puts its commit: on last_clean_oid, else on HEAD.
MutCommitBase == head
CommitBase == IF lastClean # 0 THEN lastClean ELSE head

\* COMMIT squashes everything since CommitBase into one user commit, which
\* never holds the checkpoint file.
CommitSquash ==
  /\ Ready
  /\ CommitTree(CommitBase, "user", {CkFile})
  /\ step' = "clear"
  /\ UNCHANGED <<ring, worktree, memVars, undoing, todo, pastVars>>

\* COMMIT then empties the stack and removes its file.
CommitClear ==
  /\ step = "clear"
  /\ lastClean' = head
  /\ stack' = <<>>
  /\ worktree' = [worktree EXCEPT ![CkFile] = Absent]
  /\ tainted' = tainted \ {"nested"}
  /\ step' = "idle"
  /\ UNCHANGED <<ring, gitVars, attached, undoing, todo, atBegin, lost, written>>

\* The process ends; what it had in memory is gone.
Crash ==
  /\ attached
  /\ attached' = FALSE
  /\ stack' = <<>>
  /\ lastClean' = 0
  /\ IF step = "record" THEN lost' = lost \cup todo ELSE UNCHANGED lost
  /\ IF step \in {"idle", "record"} THEN UNCHANGED tainted
     ELSE tainted' = tainted \cup {"crash"}
  /\ step' = "idle"
  /\ undoing' = NoFrame
  /\ todo' = {}
  /\ written' = {}
  /\ UNCHANGED <<ring, gitVars, worktree, atBegin>>

\* The commit a checkpoint file expects the branch to be at.
ExpectedHead(file) ==
  IF file.stack # <<>> THEN file.stack[Len(file.stack)].oid ELSE file.lastClean

\* try_restore(): the file is there and was written for the present HEAD.
Restorable == /\ worktree[CkFile] # Absent
              /\ ExpectedHead(worktree[CkFile]) = head

RestoredStack == IF Restorable THEN worktree[CkFile].stack ELSE <<>>
RestoredBase == IF Restorable THEN worktree[CkFile].lastClean ELSE 0

\* USE finds the worktree and restores the checkpoint stack.
Restart ==
  /\ ~attached
  /\ attached' = TRUE
  /\ stack' = RestoredStack
  /\ lastClean' = RestoredBase
  /\ UNCHANGED <<ring, gitVars, worktree, opVars, pastVars>>

FileStep == \E p \in Paths : Change(p) \/ Create(p) \/ UndoDeletion(p)
FilesOfJobs == \E p \in Paths : JobWrites(p)
RollbackBegin == \E k \in 1..Len(stack) : RollbackReset(k)

SessionNext ==
        \/ FileStep \/ RecordCreated
        \/ BeginCommit \/ BeginPush
        \/ RollbackBegin \/ RollbackRemove \/ RollbackSave \/ RollbackPop
        \/ CommitSquash \/ CommitClear
        \/ Crash \/ Restart

CheckpointsNext == SessionNext \/ FilesOfJobs

CheckpointsSpec == CheckpointsInit /\ [][CheckpointsNext]_checkpointsVars

-----------------------------------------------------------------------------

(* checkpoint_file.rs:6-8, the invariant of every completed operation: the *)
(* branch is at the checkpoint of the innermost transaction, or at the     *)
(* last user commit.                                                       *)
HeadMatchesStack ==
  Ready => /\ stack # <<>> => Top.oid = head
           /\ stack = <<>> /\ lastClean # 0 => lastClean = head

(* checkpoint_file.rs:1-8: losing the process between two commands loses   *)
(* no transaction, and the next COMMIT is still put on the same commit.    *)
RestartTransparent ==
  Ready => /\ RestoredStack = stack
           /\ (IF RestoredBase # 0 THEN RestoredBase ELSE head) = CommitBase

\* What the commit of a BEGIN cannot give back: files that were ignored and
\* untracked.
Uncovered(oid) == {p \in ignored : commits[oid].tree[p] = Absent}

(* exec_rollback(): once it has removed what was created, every file that  *)
(* BEGIN could commit is back to what it was then, but for the paths an    *)
(* edit created since, in that transaction or one inside it, the paths     *)
(* that came to exist out of any record (a job's output, a deletion that   *)
(* UNDO took back) and what a job wrote after the reset.  What an edit or  *)
(* a job did to an ignored and untracked file stays.                       *)
RestoresUntouchedPaths ==
  step = "pop" =>
    \A p \in Paths \ (undoing.created \cup lost \cup written \cup Uncovered(undoing.oid)) :
      worktree[p] = atBegin[undoing.oid][p]

(* The same for a path the transaction itself created for the first time,  *)
(* ignored or not: it is gone, unless a job wrote it after the reset.      *)
RemovesCreatedPaths ==
  step = "pop" =>
    \A p \in undoing.created \ written :
      atBegin[undoing.oid][p] = Absent => worktree[p] = Absent

\* A user commit that this step makes has a user commit for a parent.
UserCommitStep ==
  commits' # commits /\ commits'[Len(commits')].kind = "user" =>
    commits[commits'[Len(commits')].parent].kind = "user"

(* exec_rollback(), exec_commit(): a user commit is put on a user commit,  *)
(* unless an outer transaction outlived a ROLLBACK or a command was cut    *)
(* short.                                                                  *)
HistoryClean == [][tainted = {} => UserCommitStep]_checkpointsVars

-----------------------------------------------------------------------------

(* exec_transaction.rs, exec_rollback: "Remove exactly what the            *)
(* transaction created, and nothing else": a file that was there at the    *)
(* BEGIN, and committed by it, is there after the ROLLBACK, unless a job   *)
(* deleted it after the reset.                                             *)
RemovesNothingElse ==
  step = "pop" =>
    \A p \in Paths \ (written \cup Uncovered(undoing.oid)) :
      atBegin[undoing.oid][p] # Absent => worktree[p] # Absent

(* doc/architecture.md:283, "ROLLBACK restores it wholesale": what the     *)
(* transactions it undoes brought into existence, it removes.              *)
RemovesInnerCreations ==
  [][step # "remove" /\ step' = "remove" =>
       \A i \in (Len(stack') + 1)..Len(stack) : \A p \in stack[i].created :
         atBegin[undoing'.oid][p] = Absent => p \in todo' \/ worktree'[p] = Absent]_checkpointsVars

(* session/mod.rs:282, "so the branch history stays clean": no user commit *)
(* is put on a checkpoint commit while no command is cut short.            *)
UserCommitsOnUserCommits == [][tainted \subseteq {"nested"} => UserCommitStep]_checkpointsVars

=============================================================================
