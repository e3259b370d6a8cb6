------------------------- MODULE CheckpointsProofs -------------------------
(***************************************************************************)
(* Proofs about Checkpoints for any paths, contents and bounds.  A stack,  *)
(* in memory, in the checkpoint file or in the file as some commit has it, *)
(* is a chain of checkpoint commits (StackIn); memory and file agree       *)
(* whenever a command ends (Standing), so a restart gives back the stack;  *)
(* what is on disk and neither in the index nor ignored was created since  *)
(* the innermost BEGIN (Known), so that git reset and the removals         *)
(* together restore the files BEGIN could commit, but for what jobs write  *)
(* meanwhile (Undone).                                                     *)
(***************************************************************************)
EXTENDS Checkpoints, TLAPS

Contents == FileContents \cup {Absent}

(* A stack of checkpoints among the first n of the commits cs.             *)
StackIn(cs, n, stk) ==
  /\ stk \in Seq(Frames)
  /\ \A i \in 1..Len(stk) : /\ stk[i].oid <= n
                            /\ cs[stk[i].oid].kind = "checkpoint"
                            /\ cs[stk[i].oid].parent = stk[i].pre
  /\ \A i \in 2..Len(stk) : stk[i].pre = stk[i - 1].oid
  /\ \A i, j \in 1..Len(stk) : i < j => stk[i].oid < stk[j].oid

FileIn(cs, n, file) ==
  \/ file = Absent
  \/ file \in Files /\ file.stack # <<>> /\ file.lastClean <= n /\ StackIn(cs, n, file.stack)

(* What a commit has of p where the worktree had content.                  *)
CoveredOr(had, p, content) == had = content \/ (p \in ignored /\ had = Absent)

Recorded ==
  \A c \in 1..Len(commits) :
    /\ FileIn(commits, c - 1, commits[c].tree[CkFile])
    /\ \A p \in Paths : commits[c].tree[p] \in Contents
    /\ commits[c].kind = "checkpoint" =>
         /\ commits[c].parent \in 1..(c - 1)
         /\ \A p \in Paths : CoveredOr(commits[c].tree[p], p, atBegin[c][p])

Stored ==
  /\ FileIn(commits, Len(commits), worktree[CkFile])
  /\ \A p \in Paths : worktree[p] \in Contents
  /\ StackIn(commits, Len(commits), stack)
  /\ lastClean <= Len(commits)

(* Between the commands of a session.                                      *)
Standing ==
  attached /\ step \in {"idle", "record"} =>
    /\ stack # <<>> => Top.oid = head /\ worktree[CkFile] = SavedFile(stack, lastClean)
    /\ stack = <<>> => lastClean \in {0, head} /\ ~Restorable

(* Inside a command.                                                       *)
Running ==
  /\ step # "idle" => attached
  /\ step \notin {"record", "remove"} => todo = {}
  /\ step = "push" =>
       /\ commits[head].kind = "checkpoint"
       /\ stack # <<>> => Top.oid = commits[head].parent
       /\ stack = <<>> => lastClean \in {0, commits[head].parent}
       /\ \A p \in Paths : worktree[p] # Absent => p \in index \cup lost \cup ignored
       /\ ~Restorable
  /\ step = "clear" => commits[head].kind = "user" /\ ~Restorable
  /\ step \in {"remove", "pop"} =>
       /\ undoing \in Frames /\ undoing.oid = head
       /\ commits[head].kind = "checkpoint" /\ undoing.pre = commits[head].parent
       /\ stack # <<>> => Top.oid = undoing.pre
       /\ stack = <<>> => lastClean = 0
       /\ index = Present(commits[head].tree)
  /\ step = "pop" =>
       worktree[CkFile] = IF stack = <<>> THEN Absent ELSE SavedFile(stack, lastClean)

(* What ROLLBACK has put back, and what it has still to remove.            *)
Undone ==
  step \in {"remove", "pop"} =>
    /\ todo \subseteq undoing.created
    /\ \A p \in undoing.created \ (todo \cup written) : worktree[p] = Absent
    /\ \A p \in Paths \ (undoing.created \cup lost \cup written \cup Uncovered(undoing.oid)) :
         worktree[p] = commits[undoing.oid].tree[p]
    /\ \A p \in Paths : worktree[p] # Absent => p \in index \cup lost \cup ignored \cup todo

(* The untracked paths that the checkpoint file has to know.               *)
Untracked == Paths \ (index \cup lost \cup ignored \cup IF step = "record" THEN todo ELSE {})
Known ==
  Restorable =>
    LET file == worktree[CkFile]
    IN \A p \in Untracked : worktree[p] # Absent => p \in file.stack[Len(file.stack)].created

(* On what the next COMMIT is put.                                         *)
UserCommit(c) == commits[c].kind = "user"
OnUserCommit(stk, base) ==
  /\ UserCommit(stk[1].pre)
  /\ tainted = {} => base # 0 /\ UserCommit(base)
Based ==
  "crash" \notin tainted =>
    /\ step \in {"idle", "record"} =>
         LET stk == IF attached THEN stack ELSE RestoredStack
             base == IF attached THEN lastClean ELSE RestoredBase
         IN IF stk # <<>> THEN OnUserCommit(stk, base) ELSE UserCommit(head)
    /\ step = "push" =>
         IF stack # <<>> THEN OnUserCommit(stack, lastClean) ELSE UserCommit(commits[head].parent)
    /\ step \in {"remove", "pop"} =>
         IF stack # <<>> THEN UserCommit(stack[1].pre) /\ "nested" \in tainted
         ELSE UserCommit(undoing.pre)

CkInv == CheckpointsTypeOK /\ Recorded /\ Stored /\ Standing /\ Running /\ Undone /\ Known /\ Based

-----------------------------------------------------------------------------
(* Stacks of checkpoints: more commits, a push, a pop, a recorded path.    *)

LEMMA FrameType ==
  \A f : f \in Frames => f.oid \in CommitIds /\ f.pre \in CommitIds /\ f.created \in SUBSET Paths
  BY DEF Frames

LEMMA CommitNumbers == CommitIds \subseteq Nat /\ \A c \in CommitIds : c >= 1 /\ c <= MaxCommits
  BY CheckpointsAssumption DEF CommitIds

LEMMA StackElements ==
  ASSUME NEW stk \in Seq(Frames)
  PROVE  Len(stk) \in Nat /\ \A i \in 1..Len(stk) : stk[i] \in Frames
  OBVIOUS

LEMMA StackExtends ==
  ASSUME NEW cs, NEW ds, NEW n \in Nat, NEW m \in Nat, n <= m, NEW stk,
         \A c \in 1..n : ds[c] = cs[c], StackIn(cs, n, stk)
  PROVE  StackIn(ds, m, stk)
<1>1. \A i \in 1..Len(stk) : stk[i].oid \in 1..n
  <2> TAKE i \in 1..Len(stk)
  <2>1. stk[i].oid \in CommitIds
    BY FrameType DEF StackIn
  <2>2. stk[i].oid \in Nat /\ stk[i].oid >= 1
    BY <2>1, CommitNumbers
  <2> QED
    BY <2>2 DEF StackIn
<1>2. \A i \in 1..Len(stk) : ds[stk[i].oid] = cs[stk[i].oid] /\ stk[i].oid <= m
  BY <1>1
<1> QED
  BY <1>2 DEF StackIn

LEMMA FileExtends ==
  ASSUME NEW cs, NEW ds, NEW n \in Nat, NEW m \in Nat, n <= m, NEW file,
         \A c \in 1..n : ds[c] = cs[c], FileIn(cs, n, file)
  PROVE  FileIn(ds, m, file)
<1>1. CASE file = Absent
  BY <1>1 DEF FileIn
<1>2. CASE file # Absent
  <2>1. file \in Files /\ file.stack # <<>> /\ file.lastClean <= n /\ StackIn(cs, n, file.stack)
    BY <1>2 DEF FileIn
  <2>2. file.lastClean \in Nat
    BY <2>1, CheckpointsAssumption DEF Files
  <2>3. file.lastClean <= m
    BY <2>1, <2>2
  <2>4. StackIn(ds, m, file.stack)
    BY <2>1, StackExtends
  <2> QED
    BY <2>1, <2>3, <2>4 DEF FileIn
<1> QED
  BY <1>1, <1>2

LEMMA EmptyStack ==
  ASSUME NEW cs, NEW n
  PROVE  StackIn(cs, n, <<>>)
  BY DEF StackIn

LEMMA StackPops ==
  ASSUME NEW cs, NEW n, NEW stk, StackIn(cs, n, stk), NEW k \in 1..Len(stk)
  PROVE  LET rest == SubSeq(stk, 1, k - 1)
         IN /\ rest \in Seq(Frames)
            /\ Len(rest) = k - 1
            /\ \A i \in 1..(k - 1) : rest[i] = stk[i]
            /\ rest = <<>> <=> k = 1
            /\ StackIn(cs, n, rest)
<1> DEFINE rest == SubSeq(stk, 1, k - 1)
<1>1. stk \in Seq(Frames) /\ Len(stk) \in Nat /\ k \in Nat
  BY DEF StackIn
<1>2. rest \in Seq(Frames) /\ Len(rest) = k - 1 /\ \A i \in 1..(k - 1) : rest[i] = stk[i]
  BY <1>1
<1>3. rest = <<>> <=> k = 1
  BY <1>1, <1>2
<1> HIDE DEF rest
<1>4. \A i \in 1..Len(rest) : i \in 1..Len(stk) /\ rest[i] = stk[i]
  BY <1>1, <1>2
<1>5. \A i \in 2..Len(rest) : i \in 2..Len(stk) /\ rest[i - 1] = stk[i - 1]
  BY <1>1, <1>2
<1>6. StackIn(cs, n, rest)
  <2>1. \A i \in 2..Len(rest) : rest[i].pre = rest[i - 1].oid
    <3> TAKE i \in 2..Len(rest)
    <3>1. i \in 1..Len(rest)
      BY <1>1, <1>2
    <3>2. stk[i].pre = stk[i - 1].oid
      BY <1>5 DEF StackIn
    <3> QED
      BY <1>4, <1>5, <3>1, <3>2
  <2>2. \A i, j \in 1..Len(rest) : i < j => rest[i].oid < rest[j].oid
    BY <1>4 DEF StackIn
  <2>3. \A i \in 1..Len(rest) : /\ rest[i].oid <= n
                               /\ cs[rest[i].oid].kind = "checkpoint"
                               /\ cs[rest[i].oid].parent = rest[i].pre
    BY <1>4 DEF StackIn
  <2> QED
    BY <1>2, <2>1, <2>2, <2>3 DEF StackIn
<1> QED
  BY <1>2, <1>3, <1>6 DEF rest

LEMMA StackPushes ==
  ASSUME NEW cs, NEW n, NEW stk, StackIn(cs, n, stk), NEW f \in Frames,
         f.oid <= n, cs[f.oid].kind = "checkpoint", cs[f.oid].parent = f.pre,
         f.pre < f.oid, stk # <<>> => stk[Len(stk)].oid = f.pre
  PROVE  StackIn(cs, n, Append(stk, f))
<1> DEFINE new == Append(stk, f)
           l == Len(stk)
<1>1. stk \in Seq(Frames) /\ l \in Nat
  BY DEF StackIn
<1>2. new \in Seq(Frames) /\ Len(new) = l + 1 /\ new[l + 1] = f /\ \A i \in 1..l : new[i] = stk[i]
  BY <1>1
<1>3. \A i \in 1..l : stk[i].oid \in Nat /\ stk[l].oid \in Nat
  <2> TAKE i \in 1..l
  <2>1. l \in 1..l
    BY <1>1
  <2>2. stk[i].oid \in CommitIds /\ stk[l].oid \in CommitIds
    BY <1>1, <2>1, FrameType
  <2> QED
    BY <2>2, CommitNumbers
<1>4. f.oid \in Nat /\ f.pre \in Nat
  BY FrameType, CommitNumbers
<1>5. l > 0 => stk[l].oid = f.pre
  BY <1>1
<1>6. \A i \in 1..l : stk[i].oid <= stk[l].oid
  BY <1>1, <1>3 DEF StackIn
<1>7. \A i \in 1..l : stk[i].oid < f.oid
  <2> TAKE i \in 1..l
  <2>1. stk[l].oid = f.pre
    BY <1>1, <1>5
  <2> QED
    BY <2>1, <1>3, <1>4, <1>6
<1> HIDE DEF new
<1>8. \A i \in 1..Len(new) : /\ new[i].oid <= n
                            /\ cs[new[i].oid].kind = "checkpoint"
                            /\ cs[new[i].oid].parent = new[i].pre
  BY <1>1, <1>2 DEF StackIn
<1>9. \A i \in 2..Len(new) : new[i].pre = new[i - 1].oid
  BY <1>1, <1>2, <1>5 DEF StackIn
<1>10. \A i, j \in 1..Len(new) : i < j => new[i].oid < new[j].oid
  <2> SUFFICES ASSUME NEW i \in 1..(l + 1), NEW j \in 1..(l + 1), i < j
               PROVE  new[i].oid < new[j].oid
    BY <1>2
  <2>1. i \in 1..l /\ new[i] = stk[i]
    BY <1>1, <1>2
  <2>2. CASE j = l + 1
    BY <1>2, <1>7, <2>1, <2>2
  <2>3. CASE j # l + 1
    <3>1. j \in 1..l /\ new[j] = stk[j]
      BY <1>1, <1>2, <2>3
    <3> QED
      BY <2>1, <3>1 DEF StackIn
  <2> QED
    BY <2>2, <2>3
<1> QED
  BY <1>2, <1>8, <1>9, <1>10 DEF StackIn, new

LEMMA StackRecords ==
  ASSUME NEW cs, NEW n, NEW stk, StackIn(cs, n, stk), stk # <<>>, NEW s \in SUBSET Paths
  PROVE  LET new == [stk EXCEPT ![Len(stk)].created = @ \cup s]
         IN /\ new \in Seq(Frames) /\ Len(new) = Len(stk)
            /\ \A i \in 1..Len(stk) : new[i].oid = stk[i].oid /\ new[i].pre = stk[i].pre
            /\ new[Len(stk)].created = stk[Len(stk)].created \cup s
            /\ StackIn(cs, n, new)
<1> DEFINE new == [stk EXCEPT ![Len(stk)].created = @ \cup s]
           l == Len(stk)
<1>1. stk \in Seq(Frames) /\ l \in Nat /\ l \in 1..l
  BY DEF StackIn
<1>2. stk[l] \in Frames
  BY <1>1
<1>3. [stk[l] EXCEPT !.created = @ \cup s] \in Frames
  BY <1>2 DEF Frames
<1>4. new = [stk EXCEPT ![l] = [stk[l] EXCEPT !.created = @ \cup s]]
  OBVIOUS
<1>5. new \in Seq(Frames) /\ Len(new) = l
  BY <1>1, <1>3, <1>4
<1>6. \A i \in 1..l : new[i].oid = stk[i].oid /\ new[i].pre = stk[i].pre
  BY <1>1, <1>2, <1>4, StackElements DEF Frames
<1>7. new[l].created = stk[l].created \cup s
  BY <1>1, <1>2, <1>4 DEF Frames
<1> HIDE DEF new
<1>8. StackIn(cs, n, new)
  BY <1>1, <1>5, <1>6 DEF StackIn
<1> QED
  BY <1>5, <1>6, <1>7, <1>8 DEF new

-----------------------------------------------------------------------------

LEMMA Bounds ==
  ASSUME CheckpointsTypeOK
  PROVE  /\ Len(commits) \in Nat /\ Len(commits) >= 1 /\ Len(commits) <= MaxCommits
         /\ head \in 1..Len(commits) /\ head \in CommitIds
         /\ lastClean \in Nat /\ MaxCommits \in Nat
         /\ CkFile \in Names /\ \A p \in Paths : p \in Names /\ p # CkFile
  BY CheckpointsAssumption DEF CheckpointsTypeOK, CommitIds, Names

(* A file in the worktree, told from the checkpoint file.                  *)
LEMMA WriteType ==
  ASSUME CheckpointsTypeOK, NEW n \in Names, NEW c \in FileContents \cup Files \cup {Absent},
         worktree' = [worktree EXCEPT ![n] = c]
  PROVE  /\ worktree' \in FileTrees
         /\ worktree'[n] = c
         /\ \A m \in Names \ {n} : worktree'[m] = worktree[m]
  BY DEF CheckpointsTypeOK, FileTrees

(* Whether the file can be restored depends on it and on HEAD.             *)
LEMMA SameRestore ==
  ASSUME worktree'[CkFile] = worktree[CkFile], head' = head
  PROVE  /\ Restorable' <=> Restorable
         /\ RestoredStack' = RestoredStack
         /\ RestoredBase' = RestoredBase
  BY DEF Restorable, RestoredStack, RestoredBase, ExpectedHead

(* A file with a stack is restored where the top of its stack is.          *)
LEMMA RestorableFile ==
  ASSUME FileIn(commits, Len(commits), worktree[CkFile])
  PROVE  Restorable <=> /\ worktree[CkFile] # Absent
                        /\ worktree[CkFile].stack[Len(worktree[CkFile].stack)].oid = head
  BY DEF FileIn, Restorable, ExpectedHead

LEMMA SavedIsFile ==
  ASSUME NEW stk \in Seq(Frames), NEW clean \in 0..MaxCommits
  PROVE  /\ SavedFile(stk, clean) \in Files
         /\ SavedFile(stk, clean) # Absent
         /\ SavedFile(stk, clean).stack = stk
         /\ SavedFile(stk, clean).lastClean = clean
  BY AbsentAssumption DEF SavedFile, Files

LEMMA SavedRestores ==
  ASSUME NEW cs, NEW n \in Nat, NEW stk, StackIn(cs, n, stk), stk # <<>>,
         NEW clean \in 0..MaxCommits, clean <= n
  PROVE  FileIn(cs, n, SavedFile(stk, clean))
  BY SavedIsFile DEF FileIn, StackIn

LEMMA CkInitInv == CheckpointsInit => CkInv
<1> SUFFICES ASSUME CheckpointsInit PROVE CkInv
  OBVIOUS
<1>1. PICK f \in [Paths -> Contents] :
        worktree = [n \in Names |-> IF n = CkFile THEN Absent ELSE f[n]]
  BY DEF CheckpointsInit, Contents
<1>2. worktree \in FileTrees /\ worktree[CkFile] = Absent /\ \A p \in Paths : worktree[p] \in Contents
  BY <1>1, CheckpointsAssumption DEF FileTrees, Names, Contents
<1>3. Len(commits) = 1 /\ commits[1] = [parent |-> 0, kind |-> "user", tree |-> worktree]
  BY DEF CheckpointsInit
<1>4. CheckpointsTypeOK
  <2>1. [parent |-> 0, kind |-> "user", tree |-> worktree]
          \in [parent : 0..MaxCommits, kind : {"user", "checkpoint"}, tree : FileTrees]
    BY <1>2, CheckpointsAssumption
  <2>2. commits \in Seq([parent : 0..MaxCommits, kind : {"user", "checkpoint"}, tree : FileTrees])
    BY <2>1 DEF CheckpointsInit
  <2>3. 1 \in CommitIds /\ 0 \in 0..MaxCommits
    BY CheckpointsAssumption DEF CommitIds
  <2>4. index \subseteq Names
    BY DEF CheckpointsInit, Present
  <2>5. atBegin \in [CommitIds -> [Paths -> FileContents \cup {Absent}]]
    BY DEF CheckpointsInit
  <2> QED
    BY <1>2, <1>3, <2>2, <2>3, <2>4, <2>5 DEF CheckpointsTypeOK, CheckpointsInit
<1>5. Recorded
  BY <1>2, <1>3 DEF Recorded, FileIn
<1>6. Stored
  BY <1>2, <1>3, EmptyStack DEF Stored, FileIn, CheckpointsInit
<1>7. ~Restorable
  BY <1>2 DEF Restorable
<1>8. Standing /\ Running /\ Undone /\ Known
  BY <1>7 DEF Standing, Running, Undone, Known, CheckpointsInit
<1>9. Based
  BY <1>3 DEF Based, UserCommit, CheckpointsInit
<1> QED
  BY <1>4, <1>5, <1>6, <1>8, <1>9 DEF CkInv

(* A file is written, by an edit or a job: outside a transaction, or one   *)
(* that the index or a record knows, or recorded next, or out of every     *)
(* record.                                                                 *)
LEMMA EditStep ==
  ASSUME CkInv, Ready, NEW p \in Paths, NEW c \in Contents,
         worktree' = [worktree EXCEPT ![p] = c],
         UNCHANGED <<gitVars, memVars, undoing, atBegin, tainted>>,
         ring' \in SUBSET Paths, lost' \in SUBSET Paths, lost \subseteq lost',
         \/ step' = "idle" /\ todo' = todo
         \/ step' = "record" /\ todo' = {p} /\ stack # <<>>,
         worktree[p] = Absent /\ stack # <<>> => p \in index \cup lost' \/ step' = "record",
         written' \in SUBSET Paths
  PROVE  CkInv'
<1> USE DEF gitVars, memVars, Ready
<1>i. CheckpointsTypeOK /\ Recorded /\ Stored /\ Standing /\ Running /\ Known /\ Based
  BY DEF CkInv
<1>b. CkFile \in Names /\ p \in Names /\ p # CkFile
  BY <1>i, Bounds
<1>w. worktree' \in FileTrees /\ worktree'[p] = c /\ \A m \in Names \ {p} : worktree'[m] = worktree[m]
  BY <1>i, <1>b, WriteType DEF Contents
<1>r. /\ worktree'[CkFile] = worktree[CkFile]
      /\ Restorable' <=> Restorable
      /\ RestoredStack' = RestoredStack /\ RestoredBase' = RestoredBase
  BY <1>b, <1>w, SameRestore
<1>1. CheckpointsTypeOK'
  BY <1>i, <1>w DEF CheckpointsTypeOK
<1>2. Recorded'
  BY <1>i DEF Recorded, CoveredOr
<1>3. Stored'
  BY <1>i, <1>b, <1>w, <1>r DEF Stored, Names
<1>4. Standing'
  BY <1>i, <1>r DEF Standing, Top
<1>5. Running' /\ Undone'
  BY <1>i DEF Running, Undone
<1>6. Known'
  <2> SUFFICES ASSUME Restorable, NEW q \in Paths, q \in Untracked', worktree'[q] # Absent
               PROVE  q \in worktree[CkFile].stack[Len(worktree[CkFile].stack)].created
    BY <1>r DEF Known, Untracked
  <2>1. stack # <<>>
    BY <1>i DEF Standing
  <2>2. q # p \/ worktree[p] # Absent
    BY <2>1 DEF Untracked
  <2>3. worktree[q] # Absent
    BY <2>2, <1>w, <1>b DEF Names
  <2>4. q \in Untracked
    BY DEF Untracked
  <2> QED
    BY <2>3, <2>4, <1>i DEF Known
<1>7. Based'
  BY <1>i, <1>r DEF Based, OnUserCommit, UserCommit
<1> QED
  BY <1>1, <1>2, <1>3, <1>4, <1>5, <1>6, <1>7 DEF CkInv

LEMMA FileStepInv == ASSUME CkInv, FileStep PROVE CkInv'
<1>i. CheckpointsTypeOK
  BY DEF CkInv
<1>1. ASSUME NEW p \in Paths, Change(p) PROVE CkInv'
  <2>1. PICK c \in Contents : worktree' = [worktree EXCEPT ![p] = c]
    BY <1>1 DEF Change, Contents
  <2>2. ring' \in SUBSET Paths /\ lost' \in SUBSET Paths /\ lost' = lost
    BY <1>1, <1>i DEF Change, CheckpointsTypeOK, pastVars
  <2> QED
    BY <1>1, <1>i, <2>1, <2>2, EditStep DEF Change, opVars, pastVars, Ready, CheckpointsTypeOK
<1>2. ASSUME NEW p \in Paths, UndoDeletion(p) PROVE CkInv'
  <2>1. PICK c \in Contents : worktree' = [worktree EXCEPT ![p] = c]
    BY <1>2 DEF UndoDeletion, Contents
  <2>2. ring' \in SUBSET Paths /\ lost' \in SUBSET Paths
        /\ lost \subseteq lost' /\ p \in index \cup lost'
    BY <1>2, <1>i DEF UndoDeletion, CheckpointsTypeOK
  <2> QED
    BY <1>2, <1>i, <2>1, <2>2, EditStep DEF UndoDeletion, opVars, Ready, CheckpointsTypeOK
<1>3. ASSUME NEW p \in Paths, Create(p) PROVE CkInv'
  <2>1. PICK c \in Contents : worktree' = [worktree EXCEPT ![p] = c]
    BY <1>3 DEF Create, Contents
  <2>2. ring' \in SUBSET Paths /\ lost' \in SUBSET Paths /\ lost' = lost
    BY <1>3, <1>i DEF Create, CheckpointsTypeOK, pastVars
  <2> QED
    BY <1>3, <1>i, <2>1, <2>2, EditStep DEF Create, Recording, pastVars, Ready, CheckpointsTypeOK
<1> QED
  BY <1>1, <1>2, <1>3 DEF FileStep

(* A job writes a file at any point of a command, or between two.          *)
LEMMA JobWritesInv ==
  ASSUME CkInv, NEW p \in Paths, JobWrites(p)
  PROVE  CkInv'
<1> USE DEF gitVars, memVars, opVars
<1>i. CheckpointsTypeOK /\ Recorded /\ Stored /\ Standing /\ Running /\ Undone /\ Known /\ Based
  BY DEF CkInv
<1>b. CkFile \in Names /\ p \in Names /\ p # CkFile /\ Paths \subseteq Names
  BY <1>i, Bounds
<1>c. PICK c \in Contents : worktree' = [worktree EXCEPT ![p] = c]
  BY DEF JobWrites, Contents
<1>w. /\ worktree' \in FileTrees /\ worktree'[p] \in Contents
      /\ \A m \in Names \ {p} : worktree'[m] = worktree[m]
  BY <1>i, <1>b, <1>c, WriteType DEF Contents
<1>s. /\ UNCHANGED <<ring, commits, head, index, ignored, attached, stack, lastClean, step,
                     undoing, todo, atBegin, tainted>>
      /\ lost' \in SUBSET Paths /\ lost \subseteq lost'
      /\ worktree[p] = Absent => p \in index \cup lost'
      /\ written' \in SUBSET Paths /\ written \subseteq written'
      /\ step \in {"remove", "pop"} => p \in written'
  BY <1>i DEF JobWrites, CheckpointsTypeOK
<1>p. \A q \in Paths : worktree'[q] # Absent => worktree[q] # Absent \/ q \in index \cup lost'
  BY <1>b, <1>w, <1>s
<1>r. /\ worktree'[CkFile] = worktree[CkFile]
      /\ Restorable' <=> Restorable
      /\ RestoredStack' = RestoredStack /\ RestoredBase' = RestoredBase
  BY <1>b, <1>w, <1>s, SameRestore
<1>1. CheckpointsTypeOK'
  BY <1>i, <1>w, <1>s DEF CheckpointsTypeOK
<1>2. Recorded'
  BY <1>i, <1>s DEF Recorded, CoveredOr
<1>3. Stored'
  BY <1>i, <1>b, <1>w, <1>s, <1>r DEF Stored
<1>4. Standing'
  BY <1>i, <1>s, <1>r DEF Standing, Top
<1>5. Running'
  BY <1>i, <1>s, <1>p, <1>r DEF Running, Top
<1>6. Undone'
  <2> SUFFICES ASSUME step \in {"remove", "pop"} PROVE Undone'
    BY <1>s DEF Undone
  <2>1. undoing.created \in SUBSET Paths
    BY <1>i, FrameType DEF Running
  <2>2. \A q \in undoing.created \ (todo \cup written') : worktree'[q] = Absent
    BY <1>i, <1>b, <1>w, <1>s, <2>1 DEF Undone
  <2>3. Uncovered(undoing.oid)' = Uncovered(undoing.oid)
    BY <1>s DEF Uncovered
  <2>4. \A q \in Paths \ (undoing.created \cup lost' \cup written' \cup Uncovered(undoing.oid)) :
          worktree'[q] = commits[undoing.oid].tree[q]
    BY <1>i, <1>b, <1>w, <1>s DEF Undone
  <2>5. \A q \in Paths : worktree'[q] # Absent => q \in index \cup lost' \cup ignored \cup todo
    BY <1>i, <1>s, <1>p DEF Undone
  <2> QED
    BY <1>i, <1>s, <2>2, <2>3, <2>4, <2>5 DEF Undone
<1>7. Known'
  <2>1. \A q \in Untracked' : worktree'[q] # Absent => q \in Untracked /\ worktree[q] # Absent
    BY <1>s, <1>p DEF Untracked
  <2> QED
    BY <1>i, <1>r, <2>1 DEF Known
<1>8. Based'
  BY <1>i, <1>s, <1>r DEF Based, OnUserCommit, UserCommit
<1> QED
  BY <1>1, <1>2, <1>3, <1>4, <1>5, <1>6, <1>7, <1>8 DEF CkInv

LEMMA RecordCreatedInv == ASSUME CkInv, RecordCreated PROVE CkInv'
<1> USE DEF gitVars, pastVars
<1>i. CheckpointsTypeOK /\ Recorded /\ Stored /\ Standing /\ Running /\ Known /\ Based
  BY DEF CkInv
<1>b. CkFile \in Names /\ Len(commits) \in Nat /\ \A p \in Paths : p \in Names /\ p # CkFile
  BY <1>i, Bounds
<1>c. /\ step = "record" /\ attached /\ step' = "idle" /\ todo' = {}
      /\ stack # <<>> /\ StackIn(commits, Len(commits), stack) /\ stack \in Seq(Frames)
      /\ todo \in SUBSET Paths /\ lastClean \in 0..MaxCommits
  BY <1>i DEF RecordCreated, CheckpointsTypeOK, Running, Stored
<1>s. /\ stack' \in Seq(Frames) /\ Len(stack') = Len(stack) /\ stack' # <<>>
      /\ \A i \in 1..Len(stack) : stack'[i].oid = stack[i].oid /\ stack'[i].pre = stack[i].pre
      /\ stack'[Len(stack)].created = stack[Len(stack)].created \cup todo
      /\ StackIn(commits, Len(commits), stack')
  <2>1. stack' = [stack EXCEPT ![Len(stack)].created = @ \cup todo]
    BY DEF RecordCreated
  <2> DEFINE new == [stack EXCEPT ![Len(stack)].created = @ \cup todo]
  <2>2. /\ new \in Seq(Frames) /\ Len(new) = Len(stack)
        /\ \A i \in 1..Len(stack) : new[i].oid = stack[i].oid /\ new[i].pre = stack[i].pre
        /\ new[Len(stack)].created = stack[Len(stack)].created \cup todo
        /\ StackIn(commits, Len(commits), new)
    BY <1>c, StackRecords
  <2> HIDE DEF new
  <2>3. new # <<>>
    BY <1>c, <2>2
  <2> QED
    BY <2>1, <2>2, <2>3 DEF new
<1>f. /\ SavedFile(stack', lastClean) \in Files /\ SavedFile(stack', lastClean) # Absent
      /\ SavedFile(stack', lastClean).stack = stack'
      /\ FileIn(commits, Len(commits), SavedFile(stack', lastClean))
  BY <1>b, <1>c, <1>s, <1>i, SavedIsFile, SavedRestores DEF Stored
<1>w. /\ worktree' \in FileTrees /\ worktree'[CkFile] = SavedFile(stack', lastClean)
      /\ \A p \in Paths : worktree'[p] = worktree[p]
  BY <1>i, <1>b, <1>f, WriteType DEF RecordCreated
<1>t. Top' = stack'[Len(stack)] /\ Top'.oid = Top.oid /\ Len(stack) \in 1..Len(stack)
  BY <1>c, <1>s DEF Top
<1>1. CheckpointsTypeOK'
  BY <1>i, <1>c, <1>s, <1>w DEF CheckpointsTypeOK, RecordCreated
<1>2. Recorded'
  BY <1>i DEF Recorded, CoveredOr, RecordCreated
<1>3. Stored'
  BY <1>i, <1>s, <1>f, <1>w DEF Stored, RecordCreated
<1>4. Standing'
  BY <1>i, <1>c, <1>s, <1>w, <1>t DEF Standing, RecordCreated
<1>5. Running' /\ Undone'
  BY <1>c DEF Running, Undone, RecordCreated
<1>6. Known'
  <2>1. worktree[CkFile] = SavedFile(stack, lastClean) /\ stack[Len(stack)].oid = head
    BY <1>i, <1>c DEF Standing, Top
  <2>2. worktree[CkFile] # Absent /\ worktree[CkFile].stack = stack
    BY <1>c, <2>1, SavedIsFile
  <2>3. Restorable
    BY <1>i, <2>1, <2>2, RestorableFile DEF Stored
  <2>4. \A p \in Untracked : worktree[p] # Absent => p \in stack[Len(stack)].created
    BY <1>i, <2>2, <2>3 DEF Known
  <2>5. \A p \in Untracked' : worktree'[p] # Absent => p \in stack'[Len(stack)].created
    BY <1>c, <1>s, <1>w, <2>4 DEF Untracked, RecordCreated
  <2> QED
    BY <1>s, <1>f, <1>w, <2>5 DEF Known
<1>7. Based'
  <2>1. stack'[1].pre = stack[1].pre /\ stack' # <<>>
    BY <1>c, <1>s
  <2> QED
    BY <1>i, <1>c, <2>1 DEF Based, OnUserCommit, UserCommit, RecordCreated
<1> QED
  BY <1>1, <1>2, <1>3, <1>4, <1>5, <1>6, <1>7 DEF CkInv

(* What a new commit changes: nothing of those there are.                  *)
LEMMA CommitGrows ==
  ASSUME CheckpointsTypeOK, Stored, NEW parent \in 0..MaxCommits, NEW kind \in {"user", "checkpoint"},
         NEW excluded, CommitTree(parent, kind, excluded)
  PROVE  LET c == Len(commits) + 1
         IN /\ commits' \in Seq([parent : 0..MaxCommits, kind : {"user", "checkpoint"},
                                 tree : FileTrees])
            /\ Len(commits') = c /\ c \in CommitIds /\ head' = c
            /\ \A d \in 1..Len(commits) : commits'[d] = commits[d]
            /\ commits'[c].parent = parent /\ commits'[c].kind = kind
            /\ \A n \in Names : commits'[c].tree[n] =
                  IF n \in index' THEN worktree[n] ELSE Absent
            /\ index' = Staged(excluded) /\ index' \subseteq Names
            /\ \A n \in Names \ excluded : worktree[n] # Absent => n \in index' \cup ignored
            /\ \A n \in index' : n \notin excluded
            /\ ignored' = ignored
<1> DEFINE staged == Staged(excluded)
           tree == [n \in Names |-> IF n \in staged THEN worktree[n] ELSE Absent]
           new == [parent |-> parent, kind |-> kind, tree |-> tree]
<1>1. tree \in FileTrees
  BY DEF FileTrees, CheckpointsTypeOK
<1>2. new \in [parent : 0..MaxCommits, kind : {"user", "checkpoint"}, tree : FileTrees]
  BY <1>1
<1>3. /\ commits' = Append(commits, new) /\ head' = Len(commits) + 1 /\ index' = staged
      /\ Len(commits) < MaxCommits
  BY DEF CommitTree
<1> HIDE DEF staged
<1>4. \A n \in Names : tree[n] = IF n \in index' THEN worktree[n] ELSE Absent
  BY <1>3
<1>5. /\ index' \subseteq Names /\ \A n \in index' : n \notin excluded
      /\ \A n \in Names \ excluded : worktree[n] # Absent => n \in index' \cup ignored
  BY <1>3 DEF staged, Staged, Present
<1>e. ignored' = ignored
  BY DEF CommitTree
<1> HIDE DEF tree
<1>6. new.parent = parent /\ new.kind = kind /\ new.tree = tree
  OBVIOUS
<1> HIDE DEF new
<1>7. Len(commits) \in Nat /\ commits \in Seq([parent : 0..MaxCommits,
        kind : {"user", "checkpoint"}, tree : FileTrees])
  BY DEF CheckpointsTypeOK
<1>8. /\ commits' \in Seq([parent : 0..MaxCommits, kind : {"user", "checkpoint"}, tree : FileTrees])
      /\ Len(commits') = Len(commits) + 1 /\ commits'[Len(commits) + 1] = new
      /\ \A d \in 1..Len(commits) : commits'[d] = commits[d]
  BY <1>2, <1>3, <1>7
<1>9. Len(commits) + 1 \in CommitIds
  BY <1>3, <1>7, CheckpointsAssumption DEF CommitIds
<1> QED
  BY <1>3, <1>4, <1>5, <1>e, <1>6, <1>8, <1>9 DEF staged

(* After a new commit, no file of the worktree can be restored.            *)
LEMMA NothingRestorable ==
  ASSUME CheckpointsTypeOK, FileIn(commits, Len(commits), worktree[CkFile]),
         worktree' = worktree, head' = Len(commits) + 1
  PROVE  ~Restorable'
<1> DEFINE file == worktree[CkFile]
<1>1. Len(commits) \in Nat
  BY Bounds
<1> SUFFICES ASSUME file # Absent PROVE ExpectedHead(file) # head'
  BY DEF Restorable, ExpectedHead
<1>2. file.stack # <<>> /\ StackIn(commits, Len(commits), file.stack)
  BY DEF FileIn
<1>3. file.stack[Len(file.stack)].oid <= Len(commits)
  BY <1>2 DEF StackIn
<1>4. file.stack[Len(file.stack)].oid \in Nat
  <2>1. file.stack[Len(file.stack)] \in Frames
    BY <1>2 DEF StackIn
  <2> QED
    BY <2>1, FrameType, CommitNumbers
<1> QED
  BY <1>1, <1>2, <1>3, <1>4 DEF ExpectedHead

(* Recorded and Stored over one more commit of a worktree that stays.      *)
LEMMA CommitKept ==
  ASSUME CheckpointsTypeOK, Recorded, Stored, worktree' = worktree, stack' = stack,
         lastClean' = lastClean, Len(commits') = Len(commits) + 1,
         \A d \in 1..Len(commits) : commits'[d] = commits[d] /\ atBegin'[d] = atBegin[d],
         ignored' = ignored,
         LET c == Len(commits) + 1
         IN /\ commits'[c].tree[CkFile] \in {Absent, worktree[CkFile]}
            /\ \A p \in Paths : commits'[c].tree[p] \in {Absent, worktree[p]}
            /\ commits'[c].kind = "checkpoint" =>
                 /\ commits'[c].parent \in 1..Len(commits)
                 /\ \A p \in Paths : CoveredOr(commits'[c].tree[p], p, atBegin'[c][p])
  PROVE  Recorded' /\ Stored'
<1> DEFINE n == Len(commits)
<1>1. n \in Nat /\ lastClean \in Nat
  BY Bounds
<1>2. \A m \in 0..n : \A file : FileIn(commits, m, file) => FileIn(commits', m, file)
  <2> TAKE m \in 0..n
  <2>1. m \in Nat /\ m <= m /\ \A d \in 1..m : commits'[d] = commits[d]
    BY <1>1
  <2> QED
    BY <2>1, FileExtends
<1>m. n + 1 \in Nat /\ n <= n + 1 /\ \A d \in 1..n : commits'[d] = commits[d]
  BY <1>1
<1>3. \A file : FileIn(commits, n, file) => FileIn(commits', n + 1, file)
  BY <1>1, <1>m, FileExtends
<1>4. \A stk : StackIn(commits, n, stk) => StackIn(commits', n + 1, stk)
  BY <1>1, <1>m, StackExtends
<1>5. Stored'
  BY <1>1, <1>3, <1>4 DEF Stored
<1>6. ASSUME NEW c \in 1..n
      PROVE  /\ FileIn(commits', c - 1, commits'[c].tree[CkFile])
             /\ \A p \in Paths : commits'[c].tree[p] \in Contents
             /\ commits'[c].kind = "checkpoint" =>
                  /\ commits'[c].parent \in 1..(c - 1)
                  /\ \A p \in Paths : CoveredOr(commits'[c].tree[p], p, atBegin'[c][p])
  BY <1>1, <1>2, <1>6 DEF Recorded, CoveredOr
<1>7. /\ FileIn(commits', n, commits'[n + 1].tree[CkFile])
      /\ \A p \in Paths : commits'[n + 1].tree[p] \in Contents
  <2>1. FileIn(commits', n, worktree[CkFile])
    BY <1>1, <1>2 DEF Stored
  <2>2. FileIn(commits', n, Absent)
    BY DEF FileIn
  <2> QED
    BY <2>1, <2>2 DEF Stored, Contents
<1>8. \A c \in 1..(n + 1) : c \in 1..n \/ (c = n + 1 /\ c - 1 = n)
  BY <1>1
<1> QED
  BY <1>1, <1>5, <1>6, <1>7, <1>8 DEF Recorded, CoveredOr

(* The commits a stack names are there, and the one a checkpoint was made  *)
(* on is older.                                                            *)
LEMMA StackBelow ==
  ASSUME CheckpointsTypeOK, Recorded, NEW stk, StackIn(commits, Len(commits), stk),
         NEW i \in 1..Len(stk)
  PROVE  /\ stk[i] \in Frames
         /\ stk[i].oid \in 1..Len(commits) /\ stk[i].pre \in 1..Len(commits)
         /\ stk[i].pre < stk[i].oid
         /\ commits[stk[i].oid].kind = "checkpoint"
         /\ commits[stk[i].oid].parent = stk[i].pre
<1>1. stk[i] \in Frames /\ stk[i].oid \in CommitIds
  BY FrameType DEF StackIn
<1>2. /\ stk[i].oid <= Len(commits) /\ commits[stk[i].oid].kind = "checkpoint"
      /\ commits[stk[i].oid].parent = stk[i].pre
  BY DEF StackIn
<1>3. stk[i].oid \in Nat /\ stk[i].oid >= 1 /\ Len(commits) \in Nat
  BY <1>1, CommitNumbers, Bounds
<1>4. stk[i].oid \in 1..Len(commits)
  BY <1>2, <1>3
<1>5. stk[i].pre \in 1..(stk[i].oid - 1)
  BY <1>2, <1>4 DEF Recorded, CoveredOr
<1>6. stk[i].pre \in 1..Len(commits) /\ stk[i].pre < stk[i].oid
  BY <1>2, <1>3, <1>5
<1> QED
  BY <1>1, <1>2, <1>4, <1>6

LEMMA BeginCommitInv == ASSUME CkInv, BeginCommit PROVE CkInv'
<1> USE DEF memVars, Ready
<1>i. CheckpointsTypeOK /\ Recorded /\ Stored /\ Standing /\ Running /\ Known /\ Based
  BY DEF CkInv
<1>b. /\ Len(commits) \in Nat /\ head \in 1..Len(commits) /\ head \in 0..MaxCommits
      /\ CkFile \in Names /\ Paths \subseteq Names
  BY <1>i, Bounds DEF CommitIds
<1> DEFINE c == Len(commits) + 1
<1>g. /\ commits' \in Seq([parent : 0..MaxCommits, kind : {"user", "checkpoint"}, tree : FileTrees])
      /\ Len(commits') = c /\ c \in CommitIds /\ head' = c
      /\ \A d \in 1..Len(commits) : commits'[d] = commits[d]
      /\ commits'[c].parent = head /\ commits'[c].kind = "checkpoint"
      /\ \A n \in Names : commits'[c].tree[n] = IF n \in index' THEN worktree[n] ELSE Absent
      /\ \A n \in Names : worktree[n] # Absent => n \in index' \cup ignored
      /\ index' \subseteq Names /\ ignored' = ignored
  <2>1. CommitTree(head, "checkpoint", {})
    BY DEF BeginCommit
  <2>2. /\ commits' \in Seq([parent : 0..MaxCommits, kind : {"user", "checkpoint"},
                             tree : FileTrees])
        /\ Len(commits') = c /\ c \in CommitIds /\ head' = c
        /\ \A d \in 1..Len(commits) : commits'[d] = commits[d]
        /\ commits'[c].parent = head /\ commits'[c].kind = "checkpoint"
        /\ \A n \in Names : commits'[c].tree[n] = IF n \in index' THEN worktree[n] ELSE Absent
        /\ \A n \in Names \ {} : worktree[n] # Absent => n \in index' \cup ignored
        /\ index' \subseteq Names /\ ignored' = ignored
    BY <1>i, <1>b, <2>1, CommitGrows, Zenon
  <2> QED
    BY <2>2
<1>a. /\ atBegin' \in [CommitIds -> [Paths -> FileContents \cup {Absent}]]
      /\ \A p \in Paths : atBegin'[c][p] = worktree[p]
      /\ \A d \in 1..Len(commits) : atBegin'[d] = atBegin[d]
  <2>1. atBegin' = [atBegin EXCEPT ![c] = [p \in Paths |-> worktree[p]]]
    BY <1>g DEF BeginCommit
  <2>2. [p \in Paths |-> worktree[p]] \in [Paths -> FileContents \cup {Absent}]
    BY <1>i DEF Stored, Contents
  <2>3. atBegin \in [CommitIds -> [Paths -> FileContents \cup {Absent}]]
    BY <1>i DEF CheckpointsTypeOK
  <2>4. \A d \in 1..Len(commits) : d # c
    BY <1>b
  <2> QED
    BY <1>g, <2>1, <2>2, <2>3, <2>4
<1>s. step = "idle" /\ step' = "push" /\ attached /\ todo' = todo
      /\ lost' = (IF stack = <<>> THEN {} ELSE lost)
      /\ UNCHANGED <<worktree, stack, lastClean, attached, undoing, written, tainted, ring>>
  BY DEF BeginCommit
<1>v. \A p \in Paths : CoveredOr(commits'[c].tree[p], p, atBegin'[c][p])
                       /\ commits'[c].tree[p] \in {Absent, worktree[p]}
  BY <1>b, <1>g, <1>a DEF CoveredOr
<1>n. ~Restorable'
  BY <1>i, <1>g, <1>s, NothingRestorable DEF Stored
<1>1. CheckpointsTypeOK'
  BY SMTT(30), <1>i, <1>g, <1>a, <1>s DEF CheckpointsTypeOK
<1>2. Recorded' /\ Stored'
  <2>1. commits'[c].tree[CkFile] \in {Absent, worktree[CkFile]}
    BY <1>b, <1>g
  <2>2. commits'[c].parent \in 1..Len(commits)
    BY <1>b, <1>g
  <2> QED
    BY <1>i, <1>b, <1>g, <1>a, <1>v, <1>s, <2>1, <2>2, CommitKept
<1>3. Standing' /\ Undone'
  BY <1>s DEF Standing, Undone
<1>4. Running'
  <2>1. \A p \in Paths : worktree[p] # Absent => p \in index' \cup lost' \cup ignored'
    BY <1>b, <1>g
  <2>2. stack # <<>> => Top.oid = head
    BY <1>i, <1>s DEF Standing
  <2>3. stack = <<>> => lastClean \in {0, head}
    BY <1>i, <1>s DEF Standing
  <2>4. Top' = Top
    BY <1>s DEF Top
  <2>5. todo' = {}
    BY <1>i, <1>s DEF Running
  <2> QED
    BY <1>g, <1>s, <1>n, <2>1, <2>2, <2>3, <2>4, <2>5 DEF Running
<1>5. Known'
  BY <1>n DEF Known
<1>6. Based'
  <2>1. "crash" \notin tainted =>
          IF stack # <<>> THEN OnUserCommit(stack, lastClean) ELSE UserCommit(head)
    BY <1>i, <1>s DEF Based
  <2>2. UserCommit(head) => commits'[commits'[head'].parent].kind = "user"
    BY <1>b, <1>g DEF UserCommit
  <2>3. stack # <<>> => 1 \in 1..Len(stack) /\ stack[1].pre \in 1..Len(commits)
    <3>1. stack # <<>> => 1 \in 1..Len(stack)
      BY <1>i DEF Stored, StackIn
    <3> QED
      BY <1>i, <3>1, StackBelow DEF Stored
  <2>4. stack # <<>> /\ OnUserCommit(stack, lastClean) => OnUserCommit(stack, lastClean)'
    <3>1. lastClean # 0 => lastClean \in 1..Len(commits)
      BY <1>i, Bounds DEF Stored
    <3> QED
      BY <1>g, <1>s, <2>3, <3>1 DEF OnUserCommit, UserCommit
  <2> QED
    BY <1>s, <2>1, <2>2, <2>4 DEF Based, UserCommit
<1> QED
  BY <1>1, <1>2, <1>3, <1>4, <1>5, <1>6 DEF CkInv

LEMMA BeginPushInv == ASSUME CkInv, BeginPush PROVE CkInv'
<1> USE DEF gitVars
<1>i. CheckpointsTypeOK /\ Recorded /\ Stored /\ Running /\ Based
  BY DEF CkInv
<1>b. /\ Len(commits) \in Nat /\ head \in 1..Len(commits) /\ head \in CommitIds
      /\ CkFile \in Names /\ \A p \in Paths : p \in Names /\ p # CkFile
  BY <1>i, Bounds
<1> DEFINE parent == commits[head].parent
           frame == [oid |-> head, pre |-> parent, created |-> {}]
<1>s. /\ step = "push" /\ step' = "idle" /\ attached /\ todo = {}
      /\ UNCHANGED <<commits, head, index, ignored, attached, undoing, todo, atBegin, tainted,
                     ring, lost, written>>
  BY <1>i DEF BeginPush, Running, pastVars
<1>p. /\ commits[head].kind = "checkpoint" /\ parent \in 1..(head - 1)
      /\ parent \in CommitIds /\ parent \in 1..Len(commits)
  <2>1. commits[head].kind = "checkpoint" /\ parent \in 1..(head - 1)
    BY <1>i, <1>b, <1>s DEF Running, Recorded
  <2> QED
    BY <1>b, <2>1, CheckpointsAssumption DEF CommitIds
<1>f. frame \in Frames /\ frame.oid = head /\ frame.pre = parent
  BY <1>b, <1>p DEF Frames
<1> HIDE DEF parent, frame
<1>t. stack # <<>> => stack[Len(stack)].oid = parent
  BY <1>i, <1>s DEF Running, Top, parent
<1>k. /\ StackIn(commits, Len(commits), stack) /\ stack \in Seq(Frames) /\ Len(stack) \in Nat
  BY SMTT(20), <1>i DEF Stored, StackIn
<1>a. stack' = Append(stack, frame)
  BY DEF BeginPush, frame, parent
<1>n. /\ stack' \in Seq(Frames) /\ Len(stack') = Len(stack) + 1 /\ stack' # <<>>
      /\ stack'[Len(stack')] = frame
      /\ stack # <<>> => stack'[1] = stack[1]
      /\ stack = <<>> => stack'[1] = frame
  BY <1>a, <1>f, <1>k
<1>o. StackIn(commits, Len(commits), stack')
  BY <1>a, <1>b, <1>f, <1>k, <1>p, <1>t, StackPushes DEF parent
<1>c. lastClean' = (IF lastClean = 0 THEN parent ELSE lastClean)
      /\ lastClean' \in 0..MaxCommits /\ lastClean' <= Len(commits)
  BY <1>i, <1>b, <1>p, Bounds DEF BeginPush, parent, CheckpointsTypeOK, CommitIds, Stored
<1>v. /\ SavedFile(stack', lastClean') \in Files /\ SavedFile(stack', lastClean') # Absent
      /\ FileIn(commits, Len(commits), SavedFile(stack', lastClean'))
  BY <1>b, <1>c, <1>n, <1>o, SavedIsFile, SavedRestores
<1>w. /\ worktree' \in FileTrees /\ worktree'[CkFile] = SavedFile(stack', lastClean')
      /\ \A p \in Paths : worktree'[p] = worktree[p]
  BY <1>i, <1>b, <1>v, WriteType DEF BeginPush
<1>1. CheckpointsTypeOK'
  BY <1>i, <1>s, <1>n, <1>c, <1>w DEF CheckpointsTypeOK
<1>2. Recorded'
  BY <1>i, <1>s DEF Recorded, CoveredOr
<1>3. Stored'
  BY <1>i, <1>s, <1>o, <1>c, <1>v, <1>w DEF Stored
<1>4. Standing'
  BY <1>s, <1>n, <1>f, <1>w DEF Standing, Top
<1>5. Running' /\ Undone'
  BY <1>s DEF Running, Undone
<1>6. Known'
  BY <1>i, <1>s, <1>w DEF Known, Untracked, Running
<1>7. Based'
  <2> SUFFICES ASSUME "crash" \notin tainted PROVE OnUserCommit(stack, lastClean)'
    BY <1>s, <1>n DEF Based
  <2>1. CASE stack = <<>>
    <3>1. UserCommit(parent)
      BY <1>i, <1>s, <2>1 DEF Based, parent
    <3>2. lastClean \in {0, parent}
      BY <1>i, <1>s, <2>1 DEF Running, parent
    <3>3. lastClean' = parent /\ lastClean' # 0
      BY <1>c, <1>p, <3>2
    <3> QED
      BY <1>s, <1>n, <1>f, <2>1, <3>1, <3>3 DEF OnUserCommit, UserCommit
  <2>2. CASE stack # <<>>
    <3>1. OnUserCommit(stack, lastClean)
      BY <1>i, <1>s, <2>2 DEF Based
    <3> QED
      BY <1>s, <1>n, <1>c, <2>2, <3>1 DEF OnUserCommit, UserCommit
  <2> QED
    BY <2>1, <2>2
<1> QED
  BY <1>1, <1>2, <1>3, <1>4, <1>5, <1>6, <1>7 DEF CkInv

LEMMA CommitSquashInv == ASSUME CkInv, CommitSquash PROVE CkInv'
<1> USE DEF memVars, pastVars, Ready
<1>i. CheckpointsTypeOK /\ Recorded /\ Stored /\ Running
  BY DEF CkInv
<1>b. /\ Len(commits) \in Nat /\ CkFile \in Names /\ CommitBase \in 0..MaxCommits
      /\ \A p \in Paths : p \in Names /\ p # CkFile
  BY <1>i, Bounds DEF CommitBase, CommitIds, CheckpointsTypeOK
<1> DEFINE c == Len(commits) + 1
<1>g. /\ commits' \in Seq([parent : 0..MaxCommits, kind : {"user", "checkpoint"}, tree : FileTrees])
      /\ Len(commits') = c /\ c \in CommitIds /\ head' = c
      /\ \A d \in 1..Len(commits) : commits'[d] = commits[d]
      /\ commits'[c].parent = CommitBase /\ commits'[c].kind = "user"
      /\ \A n \in Names : commits'[c].tree[n] = IF n \in index' THEN worktree[n] ELSE Absent
      /\ \A n \in index' : n \notin {CkFile}
      /\ index' \subseteq Names /\ ignored' = ignored
  <2>1. CommitTree(CommitBase, "user", {CkFile})
    BY DEF CommitSquash
  <2> QED
    BY <1>i, <1>b, <2>1, CommitGrows, Zenon
<1>s. step = "idle" /\ step' = "clear" /\ attached /\ todo' = todo /\ todo = {}
      /\ UNCHANGED <<worktree, stack, lastClean, attached, undoing, lost, written, tainted, ring,
                     atBegin>>
  BY <1>i DEF CommitSquash, Running
<1>n. ~Restorable'
  BY <1>i, <1>g, <1>s, NothingRestorable DEF Stored
<1>t. /\ commits'[c].tree[CkFile] = Absent
      /\ \A p \in Paths : commits'[c].tree[p] \in {Absent, worktree[p]}
  BY <1>b, <1>g
<1>1. CheckpointsTypeOK'
  BY <1>i, <1>g, <1>s DEF CheckpointsTypeOK
<1>2. Recorded' /\ Stored'
  BY <1>i, <1>b, <1>g, <1>s, <1>t, CommitKept
<1>3. Standing' /\ Undone' /\ Running' /\ Known'
  BY <1>g, <1>s, <1>n DEF Standing, Undone, Running, Known
<1>4. Based'
  BY <1>s DEF Based
<1> QED
  BY <1>1, <1>2, <1>3, <1>4 DEF CkInv

LEMMA CommitClearInv == ASSUME CkInv, CommitClear PROVE CkInv'
<1> USE DEF gitVars
<1>i. CheckpointsTypeOK /\ Recorded /\ Stored /\ Running
  BY DEF CkInv
<1>b. /\ Len(commits) \in Nat /\ head \in 1..Len(commits) /\ head \in CommitIds
      /\ CkFile \in Names /\ \A p \in Paths : p \in Names /\ p # CkFile
  BY <1>i, Bounds
<1>s. /\ step = "clear" /\ step' = "idle" /\ attached /\ todo = {} /\ stack' = <<>> /\ lastClean' = head
      /\ tainted' \subseteq tainted /\ ("crash" \in tainted => "crash" \in tainted')
      /\ commits[head].kind = "user"
      /\ UNCHANGED <<commits, head, index, ignored, attached, undoing, todo, atBegin, lost, written,
                     ring>>
  BY <1>i DEF CommitClear, Running
<1>w. /\ worktree' \in FileTrees /\ worktree'[CkFile] = Absent
      /\ \A p \in Paths : worktree'[p] = worktree[p]
  BY <1>i, <1>b, WriteType DEF CommitClear
<1>n. ~Restorable'
  BY <1>w DEF Restorable
<1>1. CheckpointsTypeOK'
  BY <1>i, <1>b, <1>s, <1>w DEF CheckpointsTypeOK, CommitIds
<1>2. Recorded'
  BY <1>i, <1>s DEF Recorded, CoveredOr
<1>3. Stored'
  BY <1>i, <1>b, <1>s, <1>w, EmptyStack DEF Stored, FileIn
<1>4. Standing' /\ Undone' /\ Running' /\ Known'
  BY <1>s, <1>n DEF Standing, Undone, Running, Known
<1>5. Based'
  BY <1>s DEF Based, UserCommit
<1> QED
  BY <1>1, <1>2, <1>3, <1>4, <1>5 DEF CkInv

(* While a command could be cut off without loss, the file gives back the  *)
(* stack.                                                                  *)
LEMMA StandingRestores ==
  ASSUME CheckpointsTypeOK, Stored, Standing, attached, step \in {"idle", "record"}
  PROVE  /\ RestoredStack = stack
         /\ stack # <<>> => /\ Restorable /\ RestoredBase = lastClean
                            /\ worktree[CkFile] # Absent /\ worktree[CkFile].stack = stack
         /\ stack = <<>> => ~Restorable /\ RestoredBase = 0
<1>1. CASE stack = <<>>
  BY <1>1 DEF Standing, RestoredStack, RestoredBase
<1>2. CASE stack # <<>>
  <2>1. worktree[CkFile] = SavedFile(stack, lastClean) /\ stack[Len(stack)].oid = head
    BY <1>2 DEF Standing, Top
  <2>2. /\ worktree[CkFile] # Absent /\ worktree[CkFile].stack = stack
        /\ worktree[CkFile].lastClean = lastClean
    BY <2>1, SavedIsFile DEF CheckpointsTypeOK
  <2>3. Restorable
    BY <2>1, <2>2, RestorableFile DEF Stored
  <2> QED
    BY <1>2, <2>2, <2>3 DEF RestoredStack, RestoredBase
<1> QED
  BY <1>1, <1>2

LEMMA RollbackResetInv ==
  ASSUME CkInv, NEW k \in 1..Len(stack), RollbackReset(k)
  PROVE  CkInv'
<1> USE DEF Ready
<1>i. CheckpointsTypeOK /\ Recorded /\ Stored /\ Standing /\ Running /\ Known /\ Based
  BY DEF CkInv
<1>b. /\ Len(commits) \in Nat /\ head \in 1..Len(commits)
      /\ CkFile \in Names /\ \A p \in Paths : p \in Names /\ p # CkFile
  BY <1>i, Bounds
<1>k. /\ StackIn(commits, Len(commits), stack) /\ stack \in Seq(Frames) /\ Len(stack) \in Nat
      /\ stack # <<>> /\ Len(stack) \in 1..Len(stack) /\ k \in Nat
  BY <1>i DEF Stored, StackIn
<1> DEFINE target == stack[k].oid
           tree == commits[target].tree
           n == Len(commits)
<1>f. /\ stack[k] \in Frames /\ target \in 1..n /\ stack[k].pre \in 1..n
      /\ commits[target].kind = "checkpoint" /\ commits[target].parent = stack[k].pre
      /\ stack[k].created \in SUBSET Paths /\ stack[1].pre \in 1..n
  BY <1>i, <1>k, StackBelow, FrameType
<1>s. /\ step = "idle" /\ step' = "remove" /\ attached /\ todo = {}
      /\ undoing' = stack[k] /\ todo' = stack[k].created /\ head' = target
      /\ lost' = lost \cup UNION {stack[i].created : i \in (k + 1)..Len(stack)}
      /\ stack' = SubSeq(stack, 1, k - 1)
      /\ lastClean' = (IF stack' = <<>> THEN 0 ELSE stack[k].pre)
      /\ UNCHANGED <<commits, ignored, attached, atBegin, ring>> /\ written' = {}
      /\ ("crash" \in tainted' <=> "crash" \in tainted)
      /\ k # 1 => "nested" \in tainted'
      /\ tainted' \subseteq {"nested", "crash"}
  BY <1>i DEF RollbackReset, ResetHard, Running, ToRemove, BaseAfterPop, RollbackTarget,
              CheckpointsTypeOK
<1>p. /\ stack' \in Seq(Frames) /\ Len(stack') = k - 1
      /\ \A i \in 1..(k - 1) : stack'[i] = stack[i]
      /\ stack' = <<>> <=> k = 1
      /\ StackIn(commits, n, stack')
  BY <1>k, <1>s, StackPops
<1>t. /\ \A m \in Names : tree[m] \in FileContents \cup Files \cup {Absent}
      /\ FileIn(commits, target - 1, tree[CkFile]) /\ \A p \in Paths : tree[p] \in Contents
  <2> DEFINE R == [parent : 0..MaxCommits, kind : {"user", "checkpoint"}, tree : FileTrees]
  <2>a. commits \in Seq(R) /\ target \in 1..Len(commits)
    BY <1>i, <1>f DEF CheckpointsTypeOK
  <2> HIDE DEF target
  <2>c. commits[target] \in R
    <3> HIDE DEF R
    <3> QED
      BY <2>a
  <2>1. commits[target].tree \in FileTrees
    BY <2>c
  <2> QED
    BY <1>i, <1>f, <2>1 DEF Recorded, FileTrees
<1>w. /\ \A m \in Names : worktree'[m] = IF tree[m] # Absent THEN tree[m]
                                        ELSE IF m \in index THEN Absent ELSE worktree[m]
      /\ worktree' \in FileTrees
      /\ index' = Present(tree) /\ index' \subseteq Names
  <2>1. /\ index' = Present(tree)
        /\ worktree' = [m \in Names |-> IF m \in Present(tree) THEN tree[m]
                                       ELSE IF m \in index THEN Absent ELSE worktree[m]]
    BY DEF RollbackReset, ResetHard, RollbackTarget
  <2>2. \A m \in Names : worktree[m] \in FileContents \cup Files \cup {Absent}
    BY <1>i DEF CheckpointsTypeOK, FileTrees
  <2> QED
    BY <1>t, <2>1, <2>2 DEF Present, FileTrees
<1> HIDE DEF target, tree
<1>a. /\ Restorable /\ worktree[CkFile].stack = stack /\ worktree[CkFile] # Absent
      /\ Top.oid = head
  BY <1>i, <1>k, <1>s, StandingRestores DEF Standing
<1>u. \A p \in Paths : p \notin index \cup lost \cup ignored /\ worktree[p] # Absent
                        => p \in stack[Len(stack)].created
  <2>1. Untracked = Paths \ (index \cup lost \cup ignored)
    BY <1>s DEF Untracked
  <2>2. \A p \in Untracked : worktree[p] # Absent => p \in stack[Len(stack)].created
    BY <1>i, <1>a DEF Known
  <2> QED
    BY <2>1, <2>2
<1>1. CheckpointsTypeOK'
  <2>1. lost' \subseteq Paths
    <3>1. \A i \in 1..Len(stack) : stack[i].created \in SUBSET Paths
      BY <1>k, FrameType
    <3>2. \A i \in (k + 1)..Len(stack) : i \in 1..Len(stack)
      BY <1>k
    <3> QED
      BY SMTT(30), <1>i, <1>s, <3>1, <3>2 DEF CheckpointsTypeOK
  <2>2. lastClean' \in 0..MaxCommits
    <3>1. stack[k].pre \in 0..MaxCommits /\ 0 \in 0..MaxCommits
      BY <1>f, FrameType, CheckpointsAssumption DEF CommitIds
    <3> QED
      BY <1>s, <3>1
  <2> QED
    BY <1>i, <1>b, <1>f, <1>s, <1>p, <1>w, <2>1, <2>2 DEF CheckpointsTypeOK
<1>2. Recorded'
  BY <1>i, <1>s DEF Recorded, CoveredOr
<1>3. Stored'
  <2>1. FileIn(commits, n, worktree'[CkFile])
    <3>1. CASE worktree'[CkFile] = Absent
      BY <3>1 DEF FileIn
    <3>2. CASE worktree'[CkFile] = worktree[CkFile]
      BY <1>i, <3>2 DEF Stored
    <3>3. CASE worktree'[CkFile] = tree[CkFile]
      <4>1. target - 1 \in Nat /\ target - 1 <= n /\ \A d \in 1..(target - 1) : commits[d] = commits[d]
        BY <1>b, <1>f
      <4>2. FileIn(commits, n, tree[CkFile])
        BY <1>b, <1>t, <4>1, FileExtends
      <4> QED
        BY <3>3, <4>2
    <3> QED
      BY <1>b, <1>w, <3>1, <3>2, <3>3
  <2>2. \A p \in Paths : worktree'[p] \in Contents
    BY <1>i, <1>b, <1>t, <1>w DEF Stored, Contents
  <2>3. lastClean' <= n
    BY <1>b, <1>f, <1>s
  <2> QED
    BY <1>s, <1>p, <2>1, <2>2, <2>3 DEF Stored
<1>4. Standing'
  BY <1>s DEF Standing
<1>5. Running'
  <2>1. stack' # <<>> => Top'.oid = stack[k].pre
    <3> SUFFICES ASSUME stack' # <<>> PROVE Top'.oid = stack[k].pre
      OBVIOUS
    <3>1. k \in 2..Len(stack) /\ k - 1 \in 1..(k - 1)
      BY <1>k, <1>p
    <3>2. stack[k].pre = stack[k - 1].oid
      BY <1>k, <3>1 DEF StackIn
    <3>3. Top' = stack[k - 1]
      BY <1>p, <3>1 DEF Top
    <3> QED
      BY <3>2, <3>3
  <2> QED
    BY <1>f, <1>s, <1>w, <2>1 DEF Running, target, tree
<1>6. Undone'
  <2>1. ASSUME NEW p \in Paths, p \notin stack[k].created, p \notin lost',
               tree[p] # Absent \/ p \notin ignored
        PROVE  worktree'[p] = tree[p]
    <3>1. CASE tree[p] # Absent \/ p \in index
      BY <1>b, <1>w, <3>1
    <3>2. CASE tree[p] = Absent /\ p \notin index
      <4>1. p \notin stack[Len(stack)].created
        <5>1. CASE k = Len(stack)
          BY <2>1, <5>1
        <5>2. CASE k # Len(stack)
          <6>1. Len(stack) \in (k + 1)..Len(stack)
            BY <1>k, <5>2
          <6> QED
            BY <1>s, <2>1, <6>1
        <5> QED
          BY <5>1, <5>2
      <4>2. worktree[p] = Absent
        BY <1>s, <1>u, <2>1, <3>2, <4>1
      <4> QED
        BY <1>b, <1>w, <3>2, <4>2
    <3> QED
      BY <3>1, <3>2
  <2>2. ASSUME NEW p \in Paths, worktree'[p] # Absent
        PROVE  p \in index' \cup lost' \cup ignored \cup stack[k].created
    <3>1. CASE tree[p] # Absent
      BY <1>b, <1>w, <3>1 DEF Present
    <3>2. CASE tree[p] = Absent
      BY <1>b, <2>1, <2>2, <3>2
    <3> QED
      BY <3>1, <3>2
  <2>3. \A p \in Paths \ Uncovered(target) : tree[p] # Absent \/ p \notin ignored
    BY <1>b DEF Uncovered, tree
  <2>4. Uncovered(undoing.oid)' = Uncovered(target)
    BY <1>s DEF Uncovered, target
  <2>5. \A p \in Paths \ (stack[k].created \cup lost' \cup Uncovered(target)) :
          worktree'[p] = tree[p]
    BY <2>1, <2>3
  <2> QED
    BY <1>s, <2>2, <2>4, <2>5 DEF Undone, target, tree
<1>7. Known'
  <2> SUFFICES ASSUME Restorable' PROVE Known'
    BY DEF Known
  <2>1. /\ worktree'[CkFile] # Absent
        /\ worktree'[CkFile].stack[Len(worktree'[CkFile].stack)].oid = target
    <3>1. FileIn(commits, n, worktree'[CkFile])
      BY <1>3, <1>s DEF Stored
    <3> QED
      BY <1>s, <3>1 DEF Restorable, ExpectedHead, FileIn
  <2>2. worktree'[CkFile] # tree[CkFile]
    <3> SUFFICES ASSUME worktree'[CkFile] = tree[CkFile] PROVE FALSE
      OBVIOUS
    <3> DEFINE file == tree[CkFile]
    <3>1. file.stack # <<>> /\ StackIn(commits, target - 1, file.stack)
      BY <1>t, <2>1 DEF FileIn
    <3>2. file.stack[Len(file.stack)].oid <= target - 1
      BY <3>1 DEF StackIn
    <3> QED
      BY <1>f, <2>1, <3>2
  <2>3. worktree'[CkFile] = worktree[CkFile]
    BY <1>b, <1>w, <2>1, <2>2
  <2>4. stack[Len(stack)].oid = stack[k].oid
    BY <1>a, <2>1, <2>3 DEF target
  <2>5. k = Len(stack)
    <3> SUFFICES ASSUME k < Len(stack) PROVE FALSE
      BY <1>k
    <3>1. stack[k].oid < stack[Len(stack)].oid
      BY <1>k DEF StackIn
    <3> QED
      BY <1>f, <2>4, <3>1 DEF target
  <2>6. ASSUME NEW p \in Paths, p \notin index', p \notin lost', p \notin ignored,
               worktree'[p] # Absent
        PROVE  p \in stack[Len(stack)].created
    <3>1. tree[p] = Absent
      BY <1>b, <1>w, <2>6 DEF Present
    <3>2. p \notin index /\ worktree[p] # Absent
      BY <1>b, <1>w, <2>6, <3>1
    <3> QED
      BY <1>s, <1>u, <2>6, <3>2
  <2>7. Untracked' = Paths \ (index' \cup lost' \cup ignored)
    BY <1>s DEF Untracked
  <2> QED
    BY <1>a, <2>3, <2>6, <2>7 DEF Known
<1>8. Based'
  <2> SUFFICES ASSUME "crash" \notin tainted PROVE Based'
    BY <1>s DEF Based
  <2>1. UserCommit(stack[1].pre)
    BY <1>i, <1>k, <1>s DEF Based, OnUserCommit
  <2>2. k # 1 => stack'[1] = stack[1]
    BY <1>k, <1>p
  <2> QED
    BY <1>s, <1>p, <2>1, <2>2 DEF Based, UserCommit
<1> QED
  BY <1>1, <1>2, <1>3, <1>4, <1>5, <1>6, <1>7, <1>8 DEF CkInv

LEMMA RollbackRemoveInv == ASSUME CkInv, RollbackRemove PROVE CkInv'
<1> USE DEF gitVars, memVars, pastVars
<1>i. CheckpointsTypeOK /\ Recorded /\ Stored /\ Running /\ Undone /\ Known /\ Based
  BY DEF CkInv
<1>b. CkFile \in Names /\ \A p \in Paths : p \in Names /\ p # CkFile
  BY <1>i, Bounds
<1>1. PICK p \in todo : worktree' = [worktree EXCEPT ![p] = Absent] /\ todo' = todo \ {p}
  BY DEF RollbackRemove
<1>s. /\ step = "remove" /\ step' = step /\ p \in Paths
      /\ UNCHANGED <<ring, commits, head, index, ignored, attached, stack, lastClean, undoing,
                     atBegin, lost, written, tainted>>
  BY <1>i DEF RollbackRemove, CheckpointsTypeOK
<1>w. /\ worktree' \in FileTrees /\ worktree'[p] = Absent
      /\ \A m \in Names \ {p} : worktree'[m] = worktree[m]
  BY <1>i, <1>b, <1>1, <1>s, WriteType
<1>r. /\ worktree'[CkFile] = worktree[CkFile]
      /\ Restorable' <=> Restorable
  BY <1>b, <1>s, <1>w, SameRestore
<1>2. CheckpointsTypeOK'
  BY <1>i, <1>1, <1>s, <1>w DEF CheckpointsTypeOK
<1>3. Recorded'
  BY <1>i, <1>s DEF Recorded, CoveredOr
<1>4. Stored'
  BY <1>i, <1>b, <1>s, <1>w, <1>r DEF Stored, Contents
<1>5. Standing'
  BY <1>s DEF Standing
<1>6. Running'
  BY <1>i, <1>s DEF Running, Top
<1>7. Undone'
  <2>1. undoing.created \in SUBSET Paths
    BY <1>i, <1>s, FrameType DEF Running
  <2>2. todo \subseteq undoing.created /\ p \in undoing.created
    BY <1>i, <1>1, <1>s DEF Undone
  <2>3. \A q \in undoing.created \ (todo' \cup written) : worktree'[q] = Absent
    BY <1>i, <1>b, <1>1, <1>s, <1>w, <2>1 DEF Undone
  <2>4. \A q \in Paths \ undoing.created : worktree'[q] = worktree[q]
    BY <1>b, <1>w, <2>2
  <2>5. \A q \in Paths : worktree'[q] # Absent => q \in index \cup lost \cup ignored \cup todo'
    BY <1>i, <1>b, <1>1, <1>s, <1>w DEF Undone
  <2>6. Uncovered(undoing.oid)' = Uncovered(undoing.oid)
    BY <1>s DEF Uncovered
  <2>7. \A q \in Paths \ (undoing.created \cup lost \cup written \cup Uncovered(undoing.oid)) :
          worktree'[q] = commits[undoing.oid].tree[q]
    BY <1>i, <1>s, <2>4 DEF Undone
  <2> QED
    BY <1>1, <1>s, <2>2, <2>3, <2>5, <2>6, <2>7 DEF Undone
<1>8. Known'
  BY <1>i, <1>b, <1>s, <1>w, <1>r DEF Known, Untracked
<1>9. Based'
  BY <1>i, <1>s DEF Based, UserCommit
<1> QED
  BY <1>2, <1>3, <1>4, <1>5, <1>6, <1>7, <1>8, <1>9 DEF CkInv

LEMMA RollbackSaveInv == ASSUME CkInv, RollbackSave PROVE CkInv'
<1> USE DEF gitVars, memVars, pastVars
<1>i. CheckpointsTypeOK /\ Recorded /\ Stored /\ Running /\ Undone /\ Based
  BY DEF CkInv
<1>b. Len(commits) \in Nat /\ CkFile \in Names /\ \A p \in Paths : p \in Names /\ p # CkFile
  BY <1>i, Bounds
<1>s. /\ step = "remove" /\ step' = "pop" /\ todo = {}
      /\ UNCHANGED <<ring, commits, head, index, ignored, attached, stack, lastClean, undoing,
                     todo, atBegin, lost, written, tainted>>
  BY DEF RollbackSave
<1>c. /\ stack \in Seq(Frames) /\ StackIn(commits, Len(commits), stack)
      /\ lastClean \in 0..MaxCommits /\ lastClean <= Len(commits)
      /\ stack = <<>> => lastClean = 0
  BY <1>i, <1>s DEF CheckpointsTypeOK, Stored, Running
<1> DEFINE file == IF stack = <<>> THEN Absent ELSE SavedFile(stack, lastClean)
<1>f. /\ file \in Files \cup {Absent} /\ FileIn(commits, Len(commits), file)
      /\ stack # <<>> => SavedFile(stack, lastClean) # Absent
                         /\ SavedFile(stack, lastClean).stack = stack
  <2>1. FileIn(commits, Len(commits), Absent)
    BY DEF FileIn
  <2> QED
    BY <1>b, <1>c, <2>1, SavedIsFile, SavedRestores
<1>w. /\ worktree' \in FileTrees /\ worktree'[CkFile] = file
      /\ \A p \in Paths : worktree'[p] = worktree[p]
  <2>1. worktree' = [worktree EXCEPT ![CkFile] = file]
    BY <1>c DEF RollbackSave
  <2> QED
    BY <1>i, <1>b, <1>f, <2>1, WriteType
<1>n. ~Restorable'
  <2>1. CASE stack = <<>>
    BY <1>w, <2>1 DEF Restorable
  <2>2. CASE stack # <<>>
    <3>1. undoing.pre < head /\ stack[Len(stack)].oid = undoing.pre
      <4>1. commits[head].kind = "checkpoint" /\ undoing.pre = commits[head].parent
        BY <1>i, <1>s DEF Running
      <4>2. head \in 1..Len(commits)
        BY <1>i, Bounds
      <4>3. undoing.pre \in 1..(head - 1)
        BY <1>i, <4>1, <4>2 DEF Recorded, CoveredOr
      <4> QED
        BY <1>i, <1>s, <2>2, <4>2, <4>3 DEF Running, Top
    <3>2. worktree'[CkFile].stack = stack
      BY <1>f, <1>w, <2>2
    <3>3. head \in Nat
      BY <1>i, Bounds
    <3> QED
      BY <1>s, <2>2, <3>1, <3>2, <3>3 DEF Restorable, ExpectedHead
  <2> QED
    BY <2>1, <2>2
<1>1. CheckpointsTypeOK'
  BY <1>i, <1>s, <1>w DEF CheckpointsTypeOK
<1>2. Recorded'
  BY <1>i, <1>s DEF Recorded, CoveredOr
<1>3. Stored'
  BY <1>i, <1>s, <1>f, <1>w DEF Stored
<1>4. Standing' /\ Known'
  BY <1>s, <1>n DEF Standing, Known
<1>5. Running'
  BY <1>i, <1>s, <1>w DEF Running, Top
<1>6. Undone'
  <2>1. undoing.created \in SUBSET Paths
    BY <1>i, <1>s, FrameType DEF Running
  <2>2. Uncovered(undoing.oid)' = Uncovered(undoing.oid)
    BY <1>s DEF Uncovered
  <2> QED
    BY <1>i, <1>s, <1>w, <2>1, <2>2 DEF Undone
<1>7. Based'
  BY <1>i, <1>s DEF Based, UserCommit
<1> QED
  BY <1>1, <1>2, <1>3, <1>4, <1>5, <1>6, <1>7 DEF CkInv

LEMMA RollbackPopInv == ASSUME CkInv, RollbackPop PROVE CkInv'
<1> USE DEF memVars, pastVars
<1>i. CheckpointsTypeOK /\ Recorded /\ Stored /\ Running /\ Undone /\ Based
  BY DEF CkInv
<1>b. CkFile \in Names /\ Len(commits) \in Nat /\ \A p \in Paths : p \in Names /\ p # CkFile
  BY <1>i, Bounds
<1>s. /\ step = "pop" /\ step' = "idle" /\ todo = {} /\ head' = undoing.pre /\ undoing' = NoFrame
      /\ attached /\ undoing.oid = head
      /\ UNCHANGED <<ring, commits, index, ignored, worktree, attached, stack, lastClean, todo,
                     atBegin, lost, tainted>> /\ written' = {}
  BY <1>i DEF RollbackPop, Running
<1>h. undoing.pre \in 1..Len(commits)
  <2>1. commits[head].kind = "checkpoint" /\ undoing.pre = commits[head].parent
    BY <1>i, <1>s DEF Running
  <2>2. head \in 1..Len(commits)
    BY <1>i, Bounds
  <2>3. undoing.pre \in 1..(head - 1)
    BY <1>i, <2>1, <2>2 DEF Recorded, CoveredOr
  <2> QED
    BY <1>b, <2>2, <2>3
<1>f. /\ stack # <<>> => Top.oid = undoing.pre /\ worktree[CkFile] = SavedFile(stack, lastClean)
      /\ stack = <<>> => lastClean = 0 /\ worktree[CkFile] = Absent
  BY <1>i, <1>s DEF Running
<1>1. CheckpointsTypeOK'
  BY <1>i, <1>s, <1>h DEF CheckpointsTypeOK
<1>2. Recorded'
  BY <1>i, <1>s DEF Recorded, CoveredOr
<1>3. Stored'
  BY <1>i, <1>s DEF Stored
<1>4. Standing'
  BY <1>s, <1>f DEF Standing, Top, Restorable
<1>5. Running' /\ Undone'
  BY <1>s DEF Running, Undone
<1>6. Known'
  <2>1. \A p \in Paths : worktree[p] # Absent => p \in index \cup lost \cup ignored
    BY <1>i, <1>s DEF Undone
  <2> QED
    BY <1>s, <2>1 DEF Known, Untracked
<1>7. Based'
  BY <1>i, <1>s DEF Based, OnUserCommit, UserCommit
<1> QED
  BY <1>1, <1>2, <1>3, <1>4, <1>5, <1>6, <1>7 DEF CkInv

LEMMA CrashInv == ASSUME CkInv, Crash PROVE CkInv'
<1> USE DEF gitVars
<1>i. CheckpointsTypeOK /\ Recorded /\ Stored /\ Standing /\ Known /\ Based
  BY DEF CkInv
<1>s. /\ attached /\ attached' = FALSE /\ stack' = <<>> /\ lastClean' = 0 /\ step' = "idle"
      /\ undoing' = NoFrame /\ todo' = {}
      /\ lost' = (IF step = "record" THEN lost \cup todo ELSE lost)
      /\ tainted' = (IF step \in {"idle", "record"} THEN tainted ELSE tainted \cup {"crash"})
      /\ UNCHANGED <<ring, commits, head, index, ignored, worktree, atBegin>> /\ written' = {}
  BY DEF Crash
<1>r. /\ Restorable' <=> Restorable
      /\ RestoredStack' = RestoredStack /\ RestoredBase' = RestoredBase
  BY <1>s, SameRestore
<1>1. CheckpointsTypeOK'
  <2>1. lost' \subseteq Paths /\ tainted' \subseteq {"nested", "crash"}
    BY <1>i, <1>s DEF CheckpointsTypeOK
  <2>2. <<>> \in Seq(Frames) /\ 0 \in 0..MaxCommits
    BY CheckpointsAssumption
  <2> QED
    BY <1>i, <1>s, <2>1, <2>2 DEF CheckpointsTypeOK
<1>2. Recorded'
  BY <1>i, <1>s DEF Recorded, CoveredOr
<1>3. Stored'
  BY <1>i, <1>s, EmptyStack, Bounds DEF Stored
<1>4. Standing' /\ Running' /\ Undone'
  BY <1>s DEF Standing, Running, Undone
<1>5. Known'
  BY <1>i, <1>s, <1>r DEF Known, Untracked
<1>6. Based'
  <2> SUFFICES ASSUME "crash" \notin tainted'
               PROVE  IF RestoredStack # <<>> THEN OnUserCommit(RestoredStack, RestoredBase)'
                      ELSE UserCommit(head)'
    BY <1>s, <1>r DEF Based
  <2>1. step \in {"idle", "record"} /\ tainted' = tainted
    BY <1>s
  <2>2. RestoredStack = stack /\ (stack # <<>> => RestoredBase = lastClean)
    BY <1>i, <1>s, <2>1, StandingRestores
  <2>3. IF stack # <<>> THEN OnUserCommit(stack, lastClean) ELSE UserCommit(head)
    BY <1>i, <1>s, <2>1 DEF Based
  <2> QED
    BY <1>s, <1>r, <2>1, <2>2, <2>3 DEF OnUserCommit, UserCommit
<1> QED
  BY <1>1, <1>2, <1>3, <1>4, <1>5, <1>6 DEF CkInv

LEMMA RestartInv == ASSUME CkInv, Restart PROVE CkInv'
<1> USE DEF gitVars, opVars, pastVars
<1>i. CheckpointsTypeOK /\ Recorded /\ Stored /\ Running /\ Known /\ Based
  BY DEF CkInv
<1>s. /\ ~attached /\ attached' /\ attached' = TRUE /\ step = "idle" /\ todo = {}
      /\ stack' = RestoredStack /\ lastClean' = RestoredBase
      /\ UNCHANGED <<ring, commits, head, index, ignored, worktree, step, undoing, todo,
                     atBegin, lost, written, tainted>>
  BY <1>i DEF Restart, Running
<1>r. /\ Restorable' <=> Restorable
      /\ RestoredStack' = RestoredStack /\ RestoredBase' = RestoredBase
  BY <1>s, SameRestore
<1>f. /\ StackIn(commits, Len(commits), RestoredStack) /\ RestoredStack \in Seq(Frames)
      /\ RestoredBase \in 0..MaxCommits /\ RestoredBase <= Len(commits)
      /\ Restorable => /\ RestoredStack # <<>>
                       /\ RestoredStack[Len(RestoredStack)].oid = head
                       /\ worktree[CkFile] = SavedFile(RestoredStack, RestoredBase)
      /\ ~Restorable => RestoredStack = <<>> /\ RestoredBase = 0
  <2>1. CASE Restorable
    <3> DEFINE file == worktree[CkFile]
    <3>1. /\ file \in Files /\ file.stack # <<>> /\ file.lastClean <= Len(commits)
          /\ StackIn(commits, Len(commits), file.stack)
      BY <1>i, <2>1 DEF Stored, FileIn, Restorable
    <3>2. RestoredStack = file.stack /\ RestoredBase = file.lastClean
      BY <2>1 DEF RestoredStack, RestoredBase
    <3>3. /\ file.stack \in Seq(Frames) /\ file.lastClean \in 0..MaxCommits
          /\ file = SavedFile(file.stack, file.lastClean)
      BY <3>1 DEF Files, SavedFile
    <3>4. file.stack[Len(file.stack)].oid = head
      BY <1>i, <2>1, RestorableFile DEF Stored
    <3> QED
      BY <2>1, <3>1, <3>2, <3>3, <3>4
  <2>2. CASE ~Restorable
    BY <1>i, <2>2, EmptyStack, Bounds, CheckpointsAssumption DEF RestoredStack, RestoredBase
  <2> QED
    BY <2>1, <2>2
<1>1. CheckpointsTypeOK'
  BY <1>i, <1>s, <1>f DEF CheckpointsTypeOK
<1>2. Recorded'
  BY <1>i, <1>s DEF Recorded, CoveredOr
<1>3. Stored'
  BY <1>i, <1>s, <1>f DEF Stored
<1>4. Standing'
  BY <1>s, <1>r, <1>f DEF Standing, Top
<1>5. Running' /\ Undone'
  BY <1>s DEF Running, Undone
<1>6. Known'
  BY <1>i, <1>s, <1>r DEF Known, Untracked
<1>7. Based'
  BY <1>i, <1>s, <1>r DEF Based, OnUserCommit, UserCommit
<1> QED
  BY <1>1, <1>2, <1>3, <1>4, <1>5, <1>6, <1>7 DEF CkInv

LEMMA CheckpointsInvariant == CheckpointsSpec => []CkInv
<1>1. CkInv /\ [CheckpointsNext]_checkpointsVars => CkInv'
  <2> SUFFICES ASSUME CkInv, CheckpointsNext \/ UNCHANGED checkpointsVars PROVE CkInv'
    OBVIOUS
  <2>1. CASE FileStep
    BY <2>1, FileStepInv
  <2>2. CASE RecordCreated
    BY <2>2, RecordCreatedInv
  <2>3. CASE BeginCommit
    BY <2>3, BeginCommitInv
  <2>4. CASE BeginPush
    BY <2>4, BeginPushInv
  <2>5. CASE RollbackBegin
    BY <2>5, RollbackResetInv DEF RollbackBegin
  <2>6. CASE RollbackRemove
    BY <2>6, RollbackRemoveInv
  <2>7. CASE RollbackSave
    BY <2>7, RollbackSaveInv
  <2>8. CASE RollbackPop
    BY <2>8, RollbackPopInv
  <2>9. CASE CommitSquash
    BY <2>9, CommitSquashInv
  <2>10. CASE CommitClear
    BY <2>10, CommitClearInv
  <2>11. CASE Crash
    BY <2>11, CrashInv
  <2>12. CASE Restart
    BY <2>12, RestartInv
  <2>13. CASE FilesOfJobs
    BY <2>13, JobWritesInv DEF FilesOfJobs
  <2>14. CASE UNCHANGED checkpointsVars
    BY SMTT(40), <2>14 DEF checkpointsVars, gitVars, memVars, opVars, pastVars, CkInv, CheckpointsTypeOK,
                 Recorded, Stored, Standing, Running, Undone, Known, Based, Top, Restorable,
                 RestoredStack, RestoredBase, ExpectedHead, Untracked, OnUserCommit, UserCommit,
                 CoveredOr, Uncovered
  <2> QED
    BY <2>1, <2>2, <2>3, <2>4, <2>5, <2>6, <2>7, <2>8, <2>9, <2>10, <2>11, <2>12, <2>13, <2>14
    DEF CheckpointsNext, SessionNext
<1> QED
  BY CkInitInv, <1>1, PTL DEF CheckpointsSpec

-----------------------------------------------------------------------------

(* Every variable keeps its type, through crashes and restarts.            *)
THEOREM CheckpointsTypeCorrect == CheckpointsSpec => []CheckpointsTypeOK
<1>1. CkInv => CheckpointsTypeOK
  BY DEF CkInv
<1> QED
  BY CheckpointsInvariant, <1>1, PTL

(* Every completed command leaves HEAD where the stack says.               *)
THEOREM HeadFollowsStack == CheckpointsSpec => []HeadMatchesStack
<1>1. CkInv => HeadMatchesStack
  BY DEF CkInv, Standing, HeadMatchesStack, Ready
<1> QED
  BY CheckpointsInvariant, <1>1, PTL

(* try_restore() gives back what the session had when a command ended, and *)
(* the next COMMIT goes where it would have gone.                          *)
THEOREM RestartsTransparent == CheckpointsSpec => []RestartTransparent
<1>1. CkInv => RestartTransparent
  <2> SUFFICES ASSUME CkInv, Ready
               PROVE  /\ RestoredStack = stack
                      /\ (IF RestoredBase # 0 THEN RestoredBase ELSE head) = CommitBase
    BY DEF RestartTransparent
  <2>1. /\ RestoredStack = stack
        /\ stack # <<>> => RestoredBase = lastClean
        /\ stack = <<>> => RestoredBase = 0
    BY StandingRestores DEF CkInv, Ready
  <2>2. stack = <<>> => lastClean \in {0, head}
    BY DEF CkInv, Standing, Ready
  <2> QED
    BY <2>1, <2>2 DEF CommitBase
<1> QED
  BY CheckpointsInvariant, <1>1, PTL

(* exec_rollback(): git reset --hard and the removals together bring every *)
(* file back that BEGIN could commit, but for the paths created since,     *)
(* those out of any record and those a job wrote meanwhile.                *)
THEOREM RollbackRestores == CheckpointsSpec => []RestoresUntouchedPaths
<1>1. CkInv => RestoresUntouchedPaths
  <2> SUFFICES ASSUME CkInv, step = "pop",
                      NEW p \in Paths \ (undoing.created \cup lost \cup written
                                         \cup Uncovered(undoing.oid))
               PROVE  worktree[p] = atBegin[undoing.oid][p]
    BY DEF RestoresUntouchedPaths
  <2>1. worktree[p] = commits[undoing.oid].tree[p]
    BY DEF CkInv, Undone
  <2>2. undoing.oid = head /\ commits[head].kind = "checkpoint" /\ head \in 1..Len(commits)
    BY Bounds DEF CkInv, Running
  <2>3. CoveredOr(commits[undoing.oid].tree[p], p, atBegin[undoing.oid][p])
    BY <2>2 DEF CkInv, Recorded
  <2> QED
    BY <2>1, <2>3 DEF CoveredOr, Uncovered
<1> QED
  BY CheckpointsInvariant, <1>1, PTL

(* exec_rollback() removes what the transaction itself created, unless a   *)
(* job writes it again.                                                    *)
THEOREM RollbackRemoves == CheckpointsSpec => []RemovesCreatedPaths
<1>1. CkInv => RemovesCreatedPaths
  BY DEF CkInv, Running, Undone, RemovesCreatedPaths
<1> QED
  BY CheckpointsInvariant, <1>1, PTL

(* exec_commit() puts a user commit on a user commit, unless a transaction *)
(* outlived a ROLLBACK or a command was cut short.                         *)
THEOREM UserHistoryClean == CheckpointsSpec => HistoryClean
<1>1. CkInv /\ [CheckpointsNext]_checkpointsVars => (tainted = {} => UserCommitStep)
  <2> SUFFICES ASSUME CkInv, CheckpointsNext \/ UNCHANGED checkpointsVars, tainted = {},
                      commits' # commits, commits'[Len(commits')].kind = "user"
               PROVE  commits[commits'[Len(commits')].parent].kind = "user"
    BY DEF UserCommitStep
  <2>i. CheckpointsTypeOK /\ Stored /\ Standing /\ Based
    BY DEF CkInv
  <2>b. head \in 0..MaxCommits /\ CommitBase \in 0..MaxCommits
    BY <2>i, Bounds DEF CommitBase, CommitIds, CheckpointsTypeOK
  <2>1. CASE CommitSquash
    <3>1. commits'[Len(commits')].parent = CommitBase
      BY <2>i, <2>b, <2>1, CommitGrows DEF CommitSquash
    <3>2. step = "idle" /\ attached
      BY <2>1 DEF CommitSquash, Ready
    <3>3. IF stack # <<>> THEN OnUserCommit(stack, lastClean) ELSE UserCommit(head)
      BY <2>i, <3>2 DEF Based
    <3>4. stack = <<>> => lastClean \in {0, head}
      BY <2>i, <3>2 DEF Standing
    <3> QED
      BY <3>1, <3>3, <3>4 DEF CommitBase, OnUserCommit, UserCommit
  <2>2. CASE BeginCommit
    <3>1. commits'[Len(commits')].kind = "checkpoint"
      BY <2>i, <2>b, <2>2, CommitGrows DEF BeginCommit
    <3> QED
      BY <3>1
  <2>3. CASE ~CommitSquash /\ ~BeginCommit
    BY <2>3 DEF CheckpointsNext, SessionNext, FilesOfJobs, JobWrites, FileStep, Change, Create,
                UndoDeletion, RecordCreated, BeginPush,
                RollbackBegin, RollbackReset, RollbackRemove, RollbackSave, RollbackPop,
                CommitClear, Crash, Restart, checkpointsVars, gitVars
  <2> QED
    BY <2>1, <2>2, <2>3
<1> QED
  BY CheckpointsInvariant, <1>1, PTL DEF CheckpointsSpec, HistoryClean

=============================================================================
