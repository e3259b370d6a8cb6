----------------------------- MODULE CommitGate -----------------------------
(***************************************************************************)
(* The commit gate: COMMIT is refused until every verify step flagged      *)
(* commit_gate has passed since the session's most recent edit             *)
(* (crates/forgeql-core/src/engine/exec_transaction.rs, engine/jobs.rs,    *)
(* engine/exec_change).                                                    *)
(*                                                                         *)
(* Engine commands run one at a time under the engine mutex, so each is    *)
(* one action.  Verify commands run on the job pool, of which only the     *)
(* promise is used here (JobService, instantiated as Jobs): a job may      *)
(* start, finish or be forgotten between any two engine commands.          *)
(*                                                                         *)
(* Abstracted: the content of a worktree is a member of Contents; the git  *)
(* side of BEGIN, COMMIT and ROLLBACK is the stack of saved contents       *)
(* (module Checkpoints has the commits); edits_since_gate only words the   *)
(* refusal.  An engine command that changes nothing here has no action.    *)
(* A restart of the server keeps only tree and saved: the job pool and     *)
(* what awaits it go together, so what follows starts from a fresh gate.   *)
(*                                                                         *)
(* saw, validated, current and bypass are history: they record what the    *)
(* properties speak of, and no step of the code depends on them.           *)
(* A definition whose name starts with Mut is the one after it with a      *)
(* plausible bug, and is not part of the specification.                    *)
(***************************************************************************)
EXTENDS Naturals, Sequences, FiniteSets

CONSTANTS Sessions,       \* session tokens, the keys of the session map
          Steps,          \* names of the verify and run steps
          Gates,          \* the steps with commit_gate: true
          Contents,       \* what a worktree can hold
          NoTree,         \* the worktree directory does not exist
          MaxJobs,        \* bound: how many jobs are ever submitted
          MaxConcurrent,  \* worker slots of the job pool
          MaxSeq,         \* bound: edits of one attached session
          MaxDepth        \* bound: nested transactions

ASSUME CommitGateAssumption == /\ Gates \subseteq Steps
                               /\ NoTree \notin Contents
                               /\ MaxJobs \in Nat
                               /\ MaxConcurrent \in Nat \ {0}
                               /\ MaxSeq \in Nat
                               /\ MaxDepth \in Nat

VARIABLES
  phase,        \* the job pool, as JobService sees it
  job,          \* what each submitted job runs: a step, for a session
  open,         \* open[s]: s is a key of ForgeQLEngine::sessions
  satisfied,    \* Session::satisfied_gates
  mutationSeq,  \* Session::mutation_seq
  pending,      \* ForgeQLEngine::pending_gate_jobs
  tree,         \* the content of each session's worktree, on disk
  saved,        \* the content each open transaction would roll back to
  saw,          \* history: contents the worktree had so far while a job runs
  validated,    \* history: <<s, step, c>>, step passed on content c of s
  current,      \* history: jobs of s submitted since its last edit or attach
                \* that have not failed nor been forgotten
  bypass        \* history: changes of s's tree or state the gate did not see

jobVars == <<phase, job, saw, validated>>
gateVars == <<satisfied, mutationSeq, pending, current>>
treeVars == <<tree, saved, bypass>>
vars == <<jobVars, gateVars, treeVars, open>>

Jobs == INSTANCE JobService
JobIds == 1..MaxJobs
NoJob == [sid |-> "none", step |-> "none"]
JobInfo == [sid : Sessions, step : Steps]
Entries == [job : JobIds, sid : Sessions, step : Gates, seq : 0..MaxSeq]
Trees == Contents \cup {NoTree}

(* "rollback"  ROLLBACK moved the tree                                     *)
(* "untold"    an edit without its bookkeeping: it failed after writing    *)
(*             some of its files, or it was INSERT NODE FOR                *)
(* "command"   a verify or run command wrote into the worktree             *)
(* "attach"    USE rebuilt the session while jobs of the old one were      *)
(*             still awaited                                               *)
Unseen == {"rollback", "untold", "command"}
Reasons == Unseen \cup {"attach"}

TypeOK ==
  /\ phase \in [JobIds -> Jobs!Phases]
  /\ job \in [JobIds -> JobInfo \cup {NoJob}]
  /\ open \in [Sessions -> BOOLEAN]
  /\ satisfied \in [Sessions -> SUBSET Gates]
  /\ mutationSeq \in [Sessions -> 0..MaxSeq]
  /\ pending \in SUBSET Entries
  /\ tree \in [Sessions -> Trees]
  /\ saved \in [Sessions -> Seq(Contents)]
  /\ saw \in [JobIds -> SUBSET Trees]
  /\ validated \in SUBSET (Sessions \X Steps \X Trees)
  /\ current \in [Sessions -> SUBSET JobIds]
  /\ bypass \in [Sessions -> SUBSET Reasons]

-----------------------------------------------------------------------------

Init ==
  /\ Jobs!Init
  /\ job = [j \in JobIds |-> NoJob]
  /\ open = [s \in Sessions |-> FALSE]
  /\ satisfied = [s \in Sessions |-> {}]
  /\ mutationSeq = [s \in Sessions |-> 0]
  /\ pending = {}
  /\ tree = [s \in Sessions |-> NoTree]
  /\ saved = [s \in Sessions |-> <<>>]
  /\ saw = [j \in JobIds |-> {}]
  /\ validated = {}
  /\ current = [s \in Sessions |-> {}]
  /\ bypass = [s \in Sessions |-> {}]

\* The worktree of s now holds c, in front of the commands running in it.
Holds(s, c) ==
  /\ tree' = [tree EXCEPT ![s] = c]
  /\ saw' = [j \in JobIds |->
               IF phase[j] = "running" /\ job[j].sid = s THEN saw[j] \cup {c}
               ELSE saw[j]]

NewSession(s) ==
  /\ satisfied' = [satisfied EXCEPT ![s] = {}]
  /\ mutationSeq' = [mutationSeq EXCEPT ![s] = 0]
  /\ current' = [current EXCEPT ![s] = {}]

\* USE builds a session object: none is attached, or the attached one is
\* stale because its base moved.  Gate state starts empty whatever jobs are
\* awaited.  The worktree is checked out at the base, or one that is there
\* without changes of its own is moved to the base; any other is reused as it
\* is, and its checkpoint file may fail to restore.
Attach(s) ==
  /\ open' = [open EXCEPT ![s] = TRUE]
  /\ NewSession(s)
  /\ \/ /\ \E base \in Contents : Holds(s, base)
        /\ saved' = [saved EXCEPT ![s] = <<>>]
     \/ /\ tree[s] # NoTree
        /\ \E kept \in {saved[s], <<>>} : saved' = [saved EXCEPT ![s] = kept]
        /\ UNCHANGED <<tree, saw>>
  /\ bypass' = [bypass EXCEPT ![s] =
                  IF \E e \in pending : e.sid = s THEN {"attach"} ELSE {}]
  /\ UNCHANGED <<phase, job, validated, pending>>

\* TTL eviction: the session object goes; its worktree is kept for review
\* (or its removal fails), or is deleted together with its branch.
Evict(s) ==
  /\ open[s]
  /\ open' = [open EXCEPT ![s] = FALSE]
  /\ NewSession(s)
  /\ bypass' = [bypass EXCEPT ![s] = {}]
  /\ \/ UNCHANGED <<tree, saw, saved>>
     \/ /\ Holds(s, NoTree)
        /\ saved' = [saved EXCEPT ![s] = <<>>]
  /\ UNCHANGED <<phase, job, validated, pending>>

\* The bookkeeping every successful edit ends with.
CloseGate(s) ==
  /\ satisfied' = [satisfied EXCEPT ![s] = {}]
  /\ mutationSeq' = [mutationSeq EXCEPT ![s] = @ + 1]

Edit(s, c) ==
  /\ open[s]
  /\ mutationSeq[s] < MaxSeq
  /\ Holds(s, c)
  /\ CloseGate(s)
  /\ current' = [current EXCEPT ![s] = {}]
  /\ bypass' = [bypass EXCEPT ![s] = @ \ Unseen]
  /\ UNCHANGED <<phase, job, validated, pending, saved, open>>

\* CHANGE, INSERT, DELETE, MOVE, COPY, rename: the plan is applied in full.
\* It may write the bytes that were there, and closes the gate all the same.
Mutate(s) == \E c \in Contents : Edit(s, c)

\* UNDO closes the gate only if a file it restores differs.
Undo(s) == \E c \in Contents \ {tree[s]} : Edit(s, c)

EditUntold(s) ==
  /\ open[s]
  /\ \E c \in Contents \ {tree[s]} : Holds(s, c)
  /\ bypass' = [bypass EXCEPT ![s] = @ \cup {"untold"}]
  /\ UNCHANGED <<phase, job, validated, gateVars, saved, open>>

\* An edit or UNDO whose write fails after others succeeded returns its error
\* at once: the files already written stay, the gate is not closed.
PartialWrite(s) == EditUntold(s)

\* INSERT NODE FOR makes an empty file or a directory and reindexes it, but
\* does not close the gate.
InsertNodeFor(s) == EditUntold(s)

\* A command of a job writes into the worktree it runs in.
CommandWrites(j) ==
  /\ phase[j] = "running"
  /\ LET s == job[j].sid IN
       /\ tree[s] # NoTree
       /\ \E c \in Contents \ {tree[s]} : Holds(s, c)
       /\ bypass' = [bypass EXCEPT ![s] = @ \cup {"command"}]
  /\ UNCHANGED <<phase, job, validated, gateVars, saved, open>>

\* BEGIN TRANSACTION: a checkpoint of the tree as it is.
BeginTransaction(s) ==
  /\ open[s]
  /\ Len(saved[s]) < MaxDepth
  /\ saved' = [saved EXCEPT ![s] = Append(@, tree[s])]
  /\ UNCHANGED <<jobVars, gateVars, tree, bypass, open>>

\* ROLLBACK to the transaction at depth k, dropping it and those inside it.
\* It leaves satisfied_gates and mutation_seq as they are.
Rollback(s) ==
  /\ open[s]
  /\ \E k \in 1..Len(saved[s]) :
       /\ Holds(s, saved[s][k])
       /\ saved' = [saved EXCEPT ![s] = SubSeq(@, 1, k-1)]
       /\ bypass' = [bypass EXCEPT ![s] =
                       IF saved[s][k] = tree[s] THEN @ ELSE @ \cup {"rollback"}]
  /\ UNCHANGED <<phase, job, validated, gateVars, open>>

-----------------------------------------------------------------------------

\* A gated step is awaited under the session's current mutation_seq.
Awaits(j, s, step) ==
  pending' = pending \cup
    (IF step \in Gates
       THEN {[job |-> j, sid |-> s, step |-> step, seq |-> mutationSeq[s]]}
       ELSE {})

\* VERIFY build, JOB START and RUN hand a frozen step to the pool.
Submit(s, step) ==
  /\ open[s]
  /\ \E j \in JobIds :
       /\ Jobs!Submit(j)
       /\ job' = [job EXCEPT ![j] = [sid |-> s, step |-> step]]
       /\ Awaits(j, s, step)
       /\ current' = [current EXCEPT ![s] = @ \cup {j}]
  /\ UNCHANGED <<saw, validated, satisfied, mutationSeq, treeVars, open>>

JobStarts(j) ==
  /\ Jobs!Admit(j)
  /\ saw' = [saw EXCEPT ![j] = {tree[job[j].sid]}]
  /\ UNCHANGED <<job, validated, gateVars, treeVars, open>>

\* The command exits; it cannot succeed where there never was a directory to
\* run in.  Success proves something about a content only if the worktree held
\* that content throughout.
JobEnds(j) ==
  /\ \/ /\ Jobs!Finish(j, "succeeded")
        /\ saw[j] # {NoTree}
        /\ validated' = validated \cup
             {v \in Sessions \X Steps \X Trees :
                v[1] = job[j].sid /\ v[2] = job[j].step /\ saw[j] = {v[3]}}
        /\ UNCHANGED current
     \/ /\ Jobs!Finish(j, "failed")
        /\ current' = [s \in Sessions |-> current[s] \ {j}]
        /\ UNCHANGED validated
  /\ saw' = [saw EXCEPT ![j] = {}]
  /\ UNCHANGED <<job, satisfied, mutationSeq, pending, treeVars, open>>

JobForgotten(j) ==
  /\ Jobs!Forget(j)
  /\ current' = [s \in Sessions |-> current[s] \ {j}]
  /\ UNCHANGED <<job, saw, validated, satisfied, mutationSeq, pending, treeVars, open>>

-----------------------------------------------------------------------------

\* reconcile_gate_jobs(): what it makes of one awaited job.  The statuses are
\* read one by one; a job that ends in between counts as ending just after.
MutCounts(e) == phase[e.job] = "succeeded" /\ open[e.sid]
Counts(e) ==
  /\ phase[e.job] = "succeeded"
  /\ open[e.sid]
  /\ mutationSeq[e.sid] = e.seq

MutReconcileForgetsRunning ==
  /\ satisfied' = [s \in Sessions |-> satisfied[s] \cup
                     {e.step : e \in {p \in pending : p.sid = s /\ Counts(p)}}]
  /\ pending' = {}
MutReconcileAnySession ==
  /\ satisfied' = [s \in Sessions |->
       IF open[s] THEN satisfied[s] \cup {e.step : e \in {p \in pending : Counts(p)}}
       ELSE satisfied[s]]
  /\ pending' = {e \in pending : phase[e.job] \in {"queued", "running"}}
ReconcileGateJobs ==
  /\ satisfied' = [s \in Sessions |-> satisfied[s] \cup
                     {e.step : e \in {p \in pending : p.sid = s /\ Counts(p)}}]
  /\ pending' = {e \in pending : phase[e.job] \in {"queued", "running"}}

\* JOB STATUS, JOB LIST, the end of a VERIFY or RUN wait, a COMMIT that is
\* refused or whose git commit fails.
Poll ==
  /\ pending # {}
  /\ ReconcileGateJobs
  /\ UNCHANGED <<jobVars, mutationSeq, current, treeVars, open>>

MutMayCommit(s) == satisfied'[s] # {}
MayCommit(s) == Gates \subseteq satisfied'[s]

\* COMMIT: fold in finished gate jobs, check the gate, commit the tree as it
\* is, drop the transactions.  satisfied_gates stay.
Commit(s) ==
  /\ open[s]
  /\ ReconcileGateJobs
  /\ MayCommit(s)
  /\ saved' = [saved EXCEPT ![s] = <<>>]
  /\ UNCHANGED <<jobVars, mutationSeq, current, tree, bypass, open>>

-----------------------------------------------------------------------------

EditStep(s) == Mutate(s) \/ Undo(s) \/ PartialWrite(s) \/ InsertNodeFor(s)
SessionStep(s) == Attach(s) \/ Evict(s) \/ BeginTransaction(s) \/ Rollback(s) \/ Commit(s)
JobStep(j) == JobStarts(j) \/ JobEnds(j) \/ JobForgotten(j) \/ CommandWrites(j)

Next == \/ \E s \in Sessions : EditStep(s) \/ SessionStep(s)
        \/ \E s \in Sessions, step \in Steps : Submit(s, step)
        \/ \E j \in JobIds : JobStep(j)
        \/ Poll

Spec == Init /\ [][Next]_vars

-----------------------------------------------------------------------------

Sound(s) == \A g \in satisfied[s] : <<s, g, tree[s]>> \in validated

(* doc/syntax.md:947, Commit gate, for the changes the gate is told of: a  *)
(* satisfied gate step passed on exactly the content the worktree holds,   *)
(* run in this session's worktree and under no concurrent edit.            *)
GateSound == \A s \in Sessions : open[s] /\ bypass[s] = {} => Sound(s)

(* exec_commit(), "A commit can therefore never record an unvalidated      *)
(* tree": the content a COMMIT records is one every gated step passed on.  *)
CommitsValidated ==
  [][\A s \in Sessions :
       Commit(s) /\ bypass[s] = {} =>
         \A g \in Gates : <<s, g, tree[s]>> \in validated]_vars

(* reconcile_gate_jobs(), "Failed and stale entries are dropped; running   *)
(* ones are kept": the result of a gate job submitted since the last edit  *)
(* is never dropped while the pool still knows it.                         *)
PassNotLost ==
  \A s \in Sessions : \A j \in current[s] :
    job[j].step \in Gates =>
      \/ \E e \in pending : e.job = j /\ e.sid = s /\ e.seq = mutationSeq[s]
      \/ phase[j] = "succeeded" /\ job[j].step \in satisfied[s]

(* doc/syntax.md:971, JOB START: a gate opens only for a job submitted     *)
(* since the last edit.                                                    *)
OpensForCurrentJob(s) ==
  \A g \in satisfied'[s] \ satisfied[s] :
    \E j \in current[s] : phase[j] = "succeeded" /\ job[j] = [sid |-> s, step |-> g]
NoStaleOpening ==
  [][\A s \in Sessions : "attach" \notin bypass[s] => OpensForCurrentJob(s)]_vars

-----------------------------------------------------------------------------

(* doc/syntax.md:947-951, "any edit after a pass re-blocks the commit": a  *)
(* ROLLBACK changes the tree too.                                          *)
RollbackClosesGate == \A s \in Sessions : open[s] /\ bypass[s] \subseteq {"rollback"} => Sound(s)

(* doc/syntax.md:947-951, "A commit can therefore never record an          *)
(* unvalidated tree", and session/mod.rs:312, mutation_seq is "never       *)
(* reset": a job from before a USE that rebuilt the session opens no gate  *)
(* for content it did not run on.                                          *)
OldJobsOpenNoGate == \A s \in Sessions : open[s] /\ bypass[s] \subseteq {"attach"} => Sound(s)

=============================================================================
