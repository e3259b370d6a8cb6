-------------------------- MODULE CommitGateProofs --------------------------
(***************************************************************************)
(* Proofs about CommitGate for any sessions, steps, contents and bounds.   *)
(* A gate is sound because whatever it counts is a job of `current` (the   *)
(* sequence numbers say so: AwaitedInOrder), and a job of `current` only   *)
(* ever saw the tree that is there now (CurrentClean).                     *)
(***************************************************************************)
EXTENDS CommitGate, TLAPS

Alive == {"queued", "running", "succeeded"}

(* Submitted and awaited jobs are known by what they run.                  *)
JobsKnown ==
  /\ \A j \in JobIds : phase[j] # "new" => job[j] \in JobInfo
  /\ \A e \in pending : /\ phase[e.job] # "new"
                        /\ job[e.job] = [sid |-> e.sid, step |-> e.step]

(* Only an attached session has current jobs, and they are its own.        *)
CurrentJobs(s) ==
  \A j \in current[s] : open[s] /\ phase[j] \in Alive /\ job[j].sid = s

(* PassNotLost, for one session.                                           *)
ResultsKept(s) ==
  \A j \in current[s] :
    job[j].step \in Gates =>
      \/ \E e \in pending : e.job = j /\ e.sid = s /\ e.seq = mutationSeq[s]
      \/ phase[j] = "succeeded" /\ job[j].step \in satisfied[s]

(* An awaited job was submitted at or before the session's present         *)
(* mutation_seq, and at it only if no edit came since.                     *)
AwaitedInOrder(s) ==
  open[s] /\ "attach" \notin bypass[s] =>
    \A e \in pending : e.sid = s =>
      /\ e.seq <= mutationSeq[s]
      /\ e.seq = mutationSeq[s] /\ phase[e.job] \in Alive => e.job \in current[s]

(* A current job runs on the present tree, and if it succeeded it passed   *)
(* on the present tree.                                                    *)
CurrentClean(s) ==
  bypass[s] = {} =>
    \A j \in current[s] :
      /\ phase[j] = "running" => saw[j] = {tree[s]}
      /\ phase[j] = "succeeded" => <<s, job[j].step, tree[s]>> \in validated

SessionInv(s) ==
  /\ open[s] => tree[s] \in Contents
  /\ CurrentJobs(s)
  /\ ResultsKept(s)
  /\ AwaitedInOrder(s)
  /\ CurrentClean(s)
  /\ open[s] /\ bypass[s] = {} => Sound(s)

IInv == TypeOK /\ JobsKnown /\ \A s \in Sessions : SessionInv(s)

-----------------------------------------------------------------------------

LEMMA InitInv == Init => IInv
  BY CommitGateAssumption
  DEF Init, IInv, TypeOK, JobsKnown, SessionInv, CurrentJobs, ResultsKept,
      AwaitedInOrder, CurrentClean, Sound, Jobs!Init, Jobs!JobIds,
      Jobs!Phases, Jobs!Outcomes, JobIds, Trees, Entries

(* Which content a worktree comes to hold.                                 *)
LEMMA HoldsType ==
  ASSUME TypeOK, NEW s \in Sessions, NEW c \in Trees, Holds(s, c)
  PROVE  /\ tree' \in [Sessions -> Trees]
         /\ saw' \in [JobIds -> SUBSET Trees]
  BY DEF TypeOK, Holds

LEMMA TypeStep == IInv /\ [Next]_vars => TypeOK'
<1> SUFFICES ASSUME IInv, [Next]_vars PROVE TypeOK'
  OBVIOUS
<1>t. TypeOK /\ \A s \in Sessions : open[s] => tree[s] \in Contents
  BY DEF IInv, SessionInv
<1> USE <1>t, CommitGateAssumption DEF TypeOK
<1>1. ASSUME NEW s \in Sessions, NEW c \in Contents, Edit(s, c) PROVE TypeOK'
  <2>1. c \in Trees
    BY DEF Trees
  <2> QED
    BY <1>1, <2>1, HoldsType DEF Edit, CloseGate
<1>2. ASSUME NEW s \in Sessions, EditUntold(s) PROVE TypeOK'
  <2>1. PICK c \in Contents : Holds(s, c)
    BY <1>2 DEF EditUntold
  <2>2. c \in Trees
    BY DEF Trees
  <2> QED
    BY <1>2, <2>1, <2>2, HoldsType DEF EditUntold, gateVars, Reasons, Unseen
<1>3. ASSUME NEW s \in Sessions, Attach(s) PROVE TypeOK'
  <2>1. tree' \in [Sessions -> Trees] /\ saw' \in [JobIds -> SUBSET Trees]
    BY <1>3, HoldsType DEF Attach, Trees
  <2>2. saved[s] \in Seq(Contents) /\ <<>> \in Seq(Contents)
    OBVIOUS
  <2>3. PICK kept \in {saved[s], <<>>} : saved' = [saved EXCEPT ![s] = kept]
    BY <1>3 DEF Attach
  <2>4. saved' \in [Sessions -> Seq(Contents)]
    BY <2>2, <2>3
  <2>5. /\ satisfied' \in [Sessions -> SUBSET Gates]
        /\ mutationSeq' \in [Sessions -> 0..MaxSeq]
        /\ current' \in [Sessions -> SUBSET JobIds]
    BY <1>3 DEF Attach, NewSession
  <2>6. bypass' \in [Sessions -> SUBSET Reasons] /\ open' \in [Sessions -> BOOLEAN]
    BY <1>3 DEF Attach, Reasons
  <2> QED
    BY <1>3, <2>1, <2>4, <2>5, <2>6 DEF Attach
<1>4. ASSUME NEW s \in Sessions, Evict(s) PROVE TypeOK'
  <2>1. tree' \in [Sessions -> Trees] /\ saw' \in [JobIds -> SUBSET Trees]
    BY <1>4, HoldsType DEF Evict, Trees
  <2>2. saved' \in [Sessions -> Seq(Contents)]
    <3>1. <<>> \in Seq(Contents)
      OBVIOUS
    <3> QED
      BY <1>4, <3>1 DEF Evict
  <2>3. /\ satisfied' \in [Sessions -> SUBSET Gates]
        /\ mutationSeq' \in [Sessions -> 0..MaxSeq]
        /\ current' \in [Sessions -> SUBSET JobIds]
    BY <1>4 DEF Evict, NewSession
  <2> QED
    BY <1>4, <2>1, <2>2, <2>3 DEF Evict
<1>5. ASSUME NEW s \in Sessions, BeginTransaction(s) PROVE TypeOK'
  BY <1>5 DEF BeginTransaction, jobVars, gateVars
<1>6. ASSUME NEW s \in Sessions, Rollback(s) PROVE TypeOK'
  <2>1. PICK k \in 1..Len(saved[s]) :
          /\ Holds(s, saved[s][k])
          /\ saved' = [saved EXCEPT ![s] = SubSeq(@, 1, k-1)]
          /\ bypass' = [bypass EXCEPT ![s] =
               IF saved[s][k] = tree[s] THEN @ ELSE @ \cup {"rollback"}]
    BY <1>6 DEF Rollback
  <2>2. saved[s] \in Seq(Contents)
    OBVIOUS
  <2>3. saved[s][k] \in Contents /\ SubSeq(saved[s], 1, k-1) \in Seq(Contents)
    BY <2>2
  <2>4. tree' \in [Sessions -> Trees] /\ saw' \in [JobIds -> SUBSET Trees]
    BY <2>1, <2>3, HoldsType DEF Trees
  <2>5. bypass' \in [Sessions -> SUBSET Reasons]
    BY <2>1 DEF Reasons, Unseen
  <2> QED
    BY <1>6, <2>1, <2>3, <2>4, <2>5 DEF Rollback, gateVars
<1>7. ASSUME NEW s \in Sessions, Commit(s) PROVE TypeOK'
  BY <1>7 DEF Commit, ReconcileGateJobs, Entries, jobVars
<1>8. ASSUME NEW s \in Sessions, NEW step \in Steps, Submit(s, step) PROVE TypeOK'
  <2>1. PICK j \in JobIds :
          /\ Jobs!Submit(j)
          /\ job' = [job EXCEPT ![j] = [sid |-> s, step |-> step]]
          /\ Awaits(j, s, step)
          /\ current' = [current EXCEPT ![s] = @ \cup {j}]
    BY <1>8 DEF Submit
  <2>2. pending' \in SUBSET Entries
    BY <2>1 DEF Awaits, Entries
  <2>3. phase' \in [JobIds -> Jobs!Phases]
    BY <2>1 DEF Jobs!Submit, Jobs!Phases
  <2> QED
    BY ZenonT(30), <1>8, <2>1, <2>2, <2>3 DEF Submit, treeVars, JobInfo
<1>9. ASSUME NEW j \in JobIds, JobStarts(j) PROVE TypeOK'
  <2>1. phase' \in [JobIds -> Jobs!Phases] /\ phase[j] # "new"
    BY <1>9 DEF JobStarts, Jobs!Admit, Jobs!Phases
  <2>2. tree[job[j].sid] \in Trees
    BY <2>1 DEF IInv, JobsKnown, JobInfo
  <2> QED
    BY <1>9, <2>1, <2>2 DEF JobStarts, gateVars, treeVars
<1>10. ASSUME NEW j \in JobIds, JobEnds(j) PROVE TypeOK'
  <2>1. phase' \in [JobIds -> Jobs!Phases]
    BY <1>10 DEF JobEnds, Jobs!Finish, Jobs!Phases, Jobs!Outcomes
  <2>2. validated' \in SUBSET (Sessions \X Steps \X Trees)
    BY <1>10 DEF JobEnds
  <2> QED
    BY <1>10, <2>1, <2>2 DEF JobEnds, treeVars
<1>11. ASSUME NEW j \in JobIds, JobForgotten(j) PROVE TypeOK'
  BY <1>11 DEF JobForgotten, Jobs!Forget, Jobs!Phases, treeVars
<1>12. ASSUME NEW j \in JobIds, CommandWrites(j) PROVE TypeOK'
  <2>1. job[j] \in JobInfo
    BY <1>12 DEF CommandWrites, IInv, JobsKnown
  <2>2. PICK s \in Sessions : s = job[j].sid
    BY <2>1 DEF JobInfo
  <2>3. PICK c \in Contents : Holds(s, c)
    BY <1>12, <2>2 DEF CommandWrites
  <2>4. c \in Trees
    BY DEF Trees
  <2> QED
    BY <1>12, <2>2, <2>3, <2>4, HoldsType DEF CommandWrites, gateVars, Reasons, Unseen
<1>13. ASSUME Poll PROVE TypeOK'
  BY <1>13 DEF Poll, ReconcileGateJobs, Entries, jobVars, treeVars
<1>14. CASE UNCHANGED vars
  BY <1>14 DEF vars, jobVars, gateVars, treeVars
<1> QED
  BY <1>1, <1>2, <1>3, <1>4, <1>5, <1>6, <1>7, <1>8, <1>9, <1>10, <1>11,
     <1>12, <1>13, <1>14
  DEF Next, EditStep, SessionStep, JobStep, Mutate, Undo, PartialWrite, InsertNodeFor

-----------------------------------------------------------------------------

(* What a step of one session does to another: nothing.                    *)
LEMMA OtherSession ==
  ASSUME IInv, NEW s \in Sessions, NEW u \in Sessions \ {s},
         UNCHANGED <<phase, job, validated, pending>>,
         open'[u] = open[u], tree'[u] = tree[u], bypass'[u] = bypass[u],
         satisfied'[u] = satisfied[u], mutationSeq'[u] = mutationSeq[u],
         current'[u] = current[u],
         \A j \in JobIds : job[j].sid # s => saw'[j] = saw[j]
  PROVE  SessionInv(u)'
<1> USE DEF TypeOK
<1>1. SessionInv(u) /\ TypeOK
  BY DEF IInv
<1>2. (open[u] => tree[u] \in Contents)' /\ CurrentJobs(u)' /\ ResultsKept(u)'
  BY <1>1 DEF SessionInv, CurrentJobs, ResultsKept
<1>3. AwaitedInOrder(u)'
  BY <1>1 DEF SessionInv, AwaitedInOrder
<1>4. CurrentClean(u)'
  <2>1. \A j \in current[u] : saw'[j] = saw[j]
    BY <1>1 DEF SessionInv, CurrentJobs
  <2> QED
    BY <1>1, <2>1 DEF SessionInv, CurrentClean
<1>5. (open[u] /\ bypass[u] = {} => Sound(u))'
  BY <1>1 DEF SessionInv, Sound
<1> QED
  BY <1>2, <1>3, <1>4, <1>5 DEF SessionInv

LEMMA JobsStillKnown ==
  ASSUME IInv, UNCHANGED <<phase, job, pending>>
  PROVE  JobsKnown'
  BY DEF IInv, JobsKnown

LEMMA HoldsOthers ==
  ASSUME IInv, NEW s \in Sessions, NEW c, Holds(s, c)
  PROVE  /\ tree'[s] = c
         /\ \A u \in Sessions \ {s} : tree'[u] = tree[u]
         /\ \A j \in JobIds : job[j].sid # s => saw'[j] = saw[j]
  BY DEF IInv, TypeOK, Holds

(* A change of the tree of s that the gate is not told of.                 *)
LEMMA UnseenChange ==
  ASSUME IInv, NEW s \in Sessions, NEW c \in Contents, NEW reason \in Unseen,
         Holds(s, c),
         bypass' = [bypass EXCEPT ![s] = @ \cup {reason}],
         UNCHANGED <<phase, job, validated, gateVars, open>>
  PROVE  JobsKnown' /\ \A u \in Sessions : SessionInv(u)'
<1> USE DEF TypeOK, gateVars
<1>1. TypeOK /\ SessionInv(s)
  BY DEF IInv
<1>2. /\ bypass'[s] = bypass[s] \cup {reason} /\ reason # "attach"
      /\ \A u \in Sessions \ {s} : bypass'[u] = bypass[u]
  BY <1>1 DEF Unseen
<1>3. SessionInv(s)'
  BY <1>1, <1>2, HoldsOthers
  DEF SessionInv, CurrentJobs, ResultsKept, AwaitedInOrder, CurrentClean
<1> QED
  BY <1>2, <1>3, HoldsOthers, OtherSession, JobsStillKnown

LEMMA EditInv ==
  ASSUME IInv, NEW s \in Sessions, NEW c \in Contents, Edit(s, c)
  PROVE  JobsKnown' /\ \A u \in Sessions : SessionInv(u)'
<1> USE DEF TypeOK
<1>1. TypeOK /\ SessionInv(s)
  BY DEF IInv
<1>2. UNCHANGED <<phase, job, validated, pending, open>> /\ Holds(s, c) /\ open[s]
  BY DEF Edit
<1>3. /\ satisfied'[s] = {}
      /\ mutationSeq'[s] = mutationSeq[s] + 1
      /\ current'[s] = {}
      /\ "attach" \in bypass[s] => "attach" \in bypass'[s]
  BY <1>1 DEF Edit, CloseGate, Unseen
<1>4. \A u \in Sessions \ {s} :
        /\ satisfied'[u] = satisfied[u]
        /\ mutationSeq'[u] = mutationSeq[u]
        /\ current'[u] = current[u]
        /\ bypass'[u] = bypass[u]
  BY <1>1 DEF Edit, CloseGate
<1>5. AwaitedInOrder(s)'
  <2>1. ASSUME "attach" \notin bypass'[s], NEW e \in pending, e.sid = s
        PROVE  e.seq <= mutationSeq'[s] /\ e.seq # mutationSeq'[s]
    <3>1. e.seq <= mutationSeq[s]
      BY <1>1, <1>2, <1>3, <2>1 DEF SessionInv, AwaitedInOrder
    <3>2. e.seq \in Nat /\ mutationSeq[s] \in Nat
      BY <1>1, CommitGateAssumption DEF Entries
    <3> QED
      BY <1>3, <3>1, <3>2
  <2> QED
    BY <1>2, <2>1 DEF AwaitedInOrder
<1>6. SessionInv(s)'
  <2>1. tree'[s] = c
    BY <1>2, HoldsOthers
  <2> QED
    BY <1>3, <1>5, <2>1 DEF SessionInv, CurrentJobs, ResultsKept, CurrentClean, Sound
<1> QED
  BY <1>2, <1>4, <1>6, HoldsOthers, OtherSession, JobsStillKnown

LEMMA AttachInv ==
  ASSUME IInv, NEW s \in Sessions, Attach(s)
  PROVE  JobsKnown' /\ \A u \in Sessions : SessionInv(u)'
<1> USE DEF TypeOK
<1>1. TypeOK /\ SessionInv(s)
  BY DEF IInv
<1>2. /\ UNCHANGED <<phase, job, validated, pending>>
      /\ satisfied'[s] = {}
      /\ current'[s] = {}
      /\ open'[s]
      /\ \A u \in Sessions \ {s} :
           /\ satisfied'[u] = satisfied[u]
           /\ mutationSeq'[u] = mutationSeq[u]
           /\ current'[u] = current[u]
           /\ open'[u] = open[u]
           /\ bypass'[u] = bypass[u]
  BY <1>1 DEF Attach, NewSession
<1>3. "attach" \notin bypass'[s] => \A e \in pending : e.sid # s
  BY <1>1 DEF Attach
<1>4. /\ \A u \in Sessions \ {s} : tree'[u] = tree[u]
      /\ \A j \in JobIds : job[j].sid # s => saw'[j] = saw[j]
  <2>1. CASE \E base \in Contents : Holds(s, base)
    BY <2>1, HoldsOthers
  <2>2. CASE UNCHANGED <<tree, saw>>
    BY <2>2
  <2> QED
    BY <2>1, <2>2 DEF Attach
<1>5. tree'[s] \in Contents
  <2>1. CASE \E base \in Contents : Holds(s, base)
    BY <2>1, HoldsOthers, CommitGateAssumption
  <2>2. CASE tree[s] # NoTree /\ UNCHANGED <<tree, saw>>
    BY <1>1, <2>2 DEF Trees
  <2> QED
    BY <2>1, <2>2 DEF Attach
<1>6. SessionInv(s)'
  BY <1>2, <1>3, <1>5
  DEF SessionInv, CurrentJobs, ResultsKept, AwaitedInOrder, CurrentClean, Sound
<1> QED
  BY <1>2, <1>4, <1>6, OtherSession, JobsStillKnown

LEMMA EvictInv ==
  ASSUME IInv, NEW s \in Sessions, Evict(s)
  PROVE  JobsKnown' /\ \A u \in Sessions : SessionInv(u)'
<1> USE DEF TypeOK
<1>1. TypeOK
  BY DEF IInv
<1>2. /\ UNCHANGED <<phase, job, validated, pending>>
      /\ current'[s] = {}
      /\ ~open'[s]
      /\ \A u \in Sessions \ {s} :
           /\ satisfied'[u] = satisfied[u]
           /\ mutationSeq'[u] = mutationSeq[u]
           /\ current'[u] = current[u]
           /\ open'[u] = open[u]
           /\ bypass'[u] = bypass[u]
  BY <1>1 DEF Evict, NewSession
<1>3. /\ \A u \in Sessions \ {s} : tree'[u] = tree[u]
      /\ \A j \in JobIds : job[j].sid # s => saw'[j] = saw[j]
  <2>1. CASE Holds(s, NoTree)
    BY <2>1, HoldsOthers
  <2>2. CASE UNCHANGED <<tree, saw>>
    BY <2>2
  <2> QED
    BY <2>1, <2>2 DEF Evict
<1>4. SessionInv(s)'
  BY <1>2 DEF SessionInv, CurrentJobs, ResultsKept, AwaitedInOrder, CurrentClean
<1> QED
  BY <1>2, <1>3, <1>4, OtherSession, JobsStillKnown

LEMMA RollbackInv ==
  ASSUME IInv, NEW s \in Sessions, Rollback(s)
  PROVE  JobsKnown' /\ \A u \in Sessions : SessionInv(u)'
<1>0. TypeOK /\ SessionInv(s)
  BY DEF IInv
<1>1. PICK k \in 1..Len(saved[s]) :
        /\ Holds(s, saved[s][k])
        /\ bypass' = [bypass EXCEPT ![s] =
             IF saved[s][k] = tree[s] THEN @ ELSE @ \cup {"rollback"}]
  BY DEF Rollback
<1>2. saved[s][k] \in Contents
  <2>1. saved[s] \in Seq(Contents)
    BY <1>0 DEF TypeOK
  <2> QED
    BY <2>1
<1>3. UNCHANGED <<phase, job, validated, gateVars, open>>
  BY DEF Rollback
<1>4. CASE saved[s][k] # tree[s]
  <2>1. bypass' = [bypass EXCEPT ![s] = @ \cup {"rollback"}] /\ "rollback" \in Unseen
    BY <1>1, <1>4 DEF Unseen
  <2> QED
    BY <1>1, <1>2, <1>3, <2>1, UnseenChange
<1>5. CASE saved[s][k] = tree[s]
  <2>1. bypass' = bypass
    BY <1>0, <1>1, <1>5 DEF TypeOK
  <2>2. \A j \in JobIds : saw'[j] = saw[j] \/ saw'[j] = saw[j] \cup {tree[s]}
    BY <1>1, <1>5 DEF Holds
  <2>3. tree'[s] = tree[s]
    BY <1>0, <1>1, <1>5, HoldsOthers
  <2>4. CurrentClean(s)'
    BY <1>0, <1>3, <2>1, <2>2, <2>3
    DEF TypeOK, gateVars, SessionInv, CurrentClean
  <2>5. SessionInv(s)'
    BY <1>0, <1>3, <2>1, <2>3, <2>4
    DEF gateVars, SessionInv, CurrentJobs, ResultsKept, AwaitedInOrder, Sound
  <2> QED
    BY <1>1, <1>3, <2>1, <2>5, HoldsOthers, OtherSession, JobsStillKnown DEF gateVars
<1> QED
  BY <1>4, <1>5

-----------------------------------------------------------------------------

LEMMA AwaitedStep ==
  ASSUME JobsKnown, NEW e \in pending
  PROVE  job[e.job].step = e.step /\ job[e.job].sid = e.sid /\ phase[e.job] # "new"
<1>1. job[e.job] = [sid |-> e.sid, step |-> e.step] /\ phase[e.job] # "new"
  BY DEF JobsKnown
<1> QED
  BY <1>1

(* The heart of the matter: what reconcile_gate_jobs() counts did pass on  *)
(* the present tree, and what it drops is not needed.                      *)
LEMMA ReconcileInv ==
  ASSUME IInv, ReconcileGateJobs,
         UNCHANGED <<jobVars, mutationSeq, current, tree, bypass, open>>
  PROVE  JobsKnown' /\ \A s \in Sessions : SessionInv(s)'
<1> USE DEF TypeOK, jobVars, ReconcileGateJobs
<1>1. TypeOK /\ JobsKnown
  BY DEF IInv
<1>2. JobsKnown'
  BY <1>1 DEF JobsKnown
<1> SUFFICES ASSUME NEW s \in Sessions PROVE SessionInv(s)'
  BY <1>2
<1>3. SessionInv(s)
  BY DEF IInv
<1>4. (open[s] => tree[s] \in Contents)' /\ CurrentJobs(s)' /\ CurrentClean(s)'
  BY <1>3 DEF SessionInv, CurrentJobs, CurrentClean
<1>5. AwaitedInOrder(s)'
  BY <1>3 DEF SessionInv, AwaitedInOrder
<1>6. ResultsKept(s)'
  <2> SUFFICES ASSUME NEW j \in current[s], job[j].step \in Gates
               PROVE  \/ \E e \in pending' : e.job = j /\ e.sid = s /\ e.seq = mutationSeq[s]
                      \/ phase[j] = "succeeded" /\ job[j].step \in satisfied'[s]
    BY DEF ResultsKept
  <2>1. phase[j] \in Alive /\ open[s]
    BY <1>3 DEF SessionInv, CurrentJobs
  <2>2. CASE phase[j] = "succeeded" /\ job[j].step \in satisfied[s]
    BY <1>1, <2>2
  <2>3. CASE \E e \in pending : e.job = j /\ e.sid = s /\ e.seq = mutationSeq[s]
    <3>1. PICK e \in pending : e.job = j /\ e.sid = s /\ e.seq = mutationSeq[s]
      BY <2>3
    <3>2. CASE phase[j] \in {"queued", "running"}
      BY <3>1, <3>2
    <3>3. CASE phase[j] = "succeeded"
      <4>1. Counts(e)
        BY <2>1, <3>1, <3>3 DEF Counts
      <4>2. e.step = job[j].step
        BY <1>1, <3>1, AwaitedStep
      <4> QED
        BY <1>1, <3>1, <3>3, <4>1, <4>2
    <3> QED
      BY <2>1, <3>2, <3>3 DEF Alive
  <2> QED
    BY <1>3, <2>2, <2>3 DEF SessionInv, ResultsKept
<1>7. (open[s] /\ bypass[s] = {} => Sound(s))'
  <2> SUFFICES ASSUME open[s], bypass[s] = {}, NEW g \in satisfied'[s]
               PROVE  <<s, g, tree[s]>> \in validated
    BY DEF Sound
  <2>1. CASE g \in satisfied[s]
    BY <1>3, <2>1 DEF SessionInv, Sound
  <2>2. CASE g \notin satisfied[s]
    <3>1. PICK e \in pending : e.sid = s /\ Counts(e) /\ e.step = g
      BY <1>1, <2>2
    <3>2. e.job \in current[s] /\ phase[e.job] = "succeeded"
      BY <1>3, <3>1 DEF Counts, SessionInv, AwaitedInOrder, Alive
    <3>3. job[e.job].step = g
      BY <1>1, <3>1, AwaitedStep
    <3> QED
      BY <1>3, <3>2, <3>3 DEF SessionInv, CurrentClean
  <2> QED
    BY <2>1, <2>2
<1> QED
  BY <1>4, <1>5, <1>6, <1>7 DEF SessionInv

LEMMA SubmitInv ==
  ASSUME IInv, NEW s \in Sessions, NEW step \in Steps, Submit(s, step)
  PROVE  JobsKnown' /\ \A u \in Sessions : SessionInv(u)'
<1> USE DEF TypeOK
<1>1. TypeOK /\ JobsKnown /\ open[s]
  BY DEF IInv, Submit
<1>2. PICK j \in JobIds :
        /\ Jobs!Submit(j)
        /\ job' = [job EXCEPT ![j] = [sid |-> s, step |-> step]]
        /\ Awaits(j, s, step)
        /\ current' = [current EXCEPT ![s] = @ \cup {j}]
  BY DEF Submit
<1>3. /\ phase[j] = "new" /\ phase'[j] = "queued"
      /\ \A i \in JobIds \ {j} : phase'[i] = phase[i] /\ job'[i] = job[i]
      /\ job'[j] = [sid |-> s, step |-> step]
  BY <1>1, <1>2 DEF Jobs!Submit
<1>4. /\ UNCHANGED <<saw, validated, satisfied, mutationSeq, tree, bypass, open>>
      /\ current'[s] = current[s] \cup {j}
      /\ \A u \in Sessions \ {s} : current'[u] = current[u]
  BY <1>1, <1>2 DEF Submit, treeVars
<1>5. /\ pending \subseteq pending'
      /\ \A e \in pending' \ pending :
           /\ e.job = j /\ e.sid = s /\ e.step = step /\ e.seq = mutationSeq[s]
      /\ step \in Gates => \E e \in pending' : e.job = j /\ e.sid = s /\ e.seq = mutationSeq[s]
  <2>1. CASE step \in Gates
    <3>1. PICK entry : entry = [job |-> j, sid |-> s, step |-> step, seq |-> mutationSeq[s]]
      OBVIOUS
    <3>2. entry.job = j /\ entry.sid = s /\ entry.step = step /\ entry.seq = mutationSeq[s]
      BY <3>1
    <3>3. pending' = pending \cup {entry}
      BY <1>2, <2>1, <3>1 DEF Awaits
    <3> HIDE DEF TypeOK
    <3> QED
      BY <3>2, <3>3
  <2>2. CASE step \notin Gates
    <3>1. pending' = pending
      BY <1>2, <2>2 DEF Awaits
    <3> QED
      BY <2>2, <3>1
  <2> QED
    BY <2>1, <2>2
<1>6. \A e \in pending : e.job \in JobIds \ {j}
  BY ZenonT(30), <1>1, <1>3 DEF JobsKnown, Entries
<1>7. JobsKnown'
  <2>1. \A i \in JobIds : phase'[i] # "new" => job'[i] \in JobInfo
    <3>1. ASSUME NEW i \in JobIds \ {j}, phase'[i] # "new" PROVE job'[i] \in JobInfo
      BY <1>1, <1>3, <3>1 DEF JobsKnown
    <3>2. job'[j] \in JobInfo
      BY <1>3 DEF JobInfo
    <3> QED
      BY <3>1, <3>2
  <2>2. ASSUME NEW e \in pending'
        PROVE  phase'[e.job] # "new" /\ job'[e.job] = [sid |-> e.sid, step |-> e.step]
    <3>1. CASE e \in pending
      BY <1>1, <1>3, <1>6, <3>1 DEF JobsKnown
    <3>2. CASE e \notin pending
      BY <1>3, <1>5, <3>2
    <3> QED
      BY <3>1, <3>2
  <2> QED
    BY <2>1, <2>2 DEF JobsKnown
<1> SUFFICES ASSUME NEW u \in Sessions PROVE SessionInv(u)'
  BY <1>7
<1>8. SessionInv(u)
  BY DEF IInv
<1>9. \A i \in current[u] : i \in JobIds \ {j}
  BY <1>1, <1>3, <1>8 DEF SessionInv, CurrentJobs, Alive
<1>10. \A i \in current'[u] : i \in current[u] \/ (i = j /\ u = s)
  BY <1>4
<1>11. (open[u] => tree[u] \in Contents)' /\ (open[u] /\ bypass[u] = {} => Sound(u))'
  BY <1>4, <1>8 DEF SessionInv, Sound
<1>12. CurrentJobs(u)'
  <2> SUFFICES ASSUME NEW i \in current'[u]
               PROVE  open[u] /\ phase'[i] \in Alive /\ job'[i].sid = u
    BY <1>4 DEF CurrentJobs
  <2>1. CASE i \in current[u]
    BY <1>3, <1>8, <1>9, <2>1 DEF SessionInv, CurrentJobs
  <2>2. CASE i = j /\ u = s
    BY <1>1, <1>3, <2>2 DEF Alive
  <2> QED
    BY <1>10, <2>1, <2>2
<1>13. ResultsKept(u)'
  <2> SUFFICES ASSUME NEW i \in current'[u], job'[i].step \in Gates
               PROVE  \/ \E e \in pending' : e.job = i /\ e.sid = u /\ e.seq = mutationSeq[u]
                      \/ phase'[i] = "succeeded" /\ job'[i].step \in satisfied[u]
    BY <1>4 DEF ResultsKept
  <2>1. CASE i \in current[u]
    BY <1>3, <1>5, <1>8, <1>9, <2>1 DEF SessionInv, ResultsKept
  <2>2. CASE i = j /\ u = s
    BY <1>3, <1>5, <2>2
  <2> QED
    BY <1>10, <2>1, <2>2
<1>14. AwaitedInOrder(u)'
  <2> SUFFICES ASSUME open[u], "attach" \notin bypass[u], NEW e \in pending', e.sid = u
               PROVE  /\ e.seq <= mutationSeq[u]
                      /\ e.seq = mutationSeq[u] /\ phase'[e.job] \in Alive => e.job \in current'[u]
    BY <1>4 DEF AwaitedInOrder
  <2>1. CASE e \in pending
    <3>1. current[u] \subseteq current'[u]
      BY <1>4
    <3> QED
      BY <1>3, <1>6, <1>8, <2>1, <3>1 DEF SessionInv, AwaitedInOrder
  <2>2. CASE e \notin pending
    <3>1. mutationSeq[u] \in Nat
      BY <1>1, CommitGateAssumption
    <3> QED
      BY <1>4, <1>5, <2>2, <3>1
  <2> QED
    BY <2>1, <2>2
<1>15. CurrentClean(u)'
  BY <1>3, <1>4, <1>8, <1>9, <1>10 DEF SessionInv, CurrentClean
<1> QED
  BY <1>11, <1>12, <1>13, <1>14, <1>15 DEF SessionInv

(* A job moves from phase to phase: what the pool alone can change.        *)
LEMMA JobMoves ==
  ASSUME IInv, NEW j \in JobIds,
         phase[j] # "new", phase'[j] # "new",
         \A i \in JobIds \ {j} : phase'[i] = phase[i] /\ saw'[i] = saw[i],
         UNCHANGED <<job, pending, tree, bypass, open, satisfied, mutationSeq>>,
         validated \subseteq validated',
         \/ UNCHANGED current /\ phase'[j] \in Alive /\ phase[j] \in Alive \ {"succeeded"}
         \/ /\ phase'[j] \notin Alive
            /\ current' = [s \in Sessions |-> current[s] \ {j}],
         \A s \in Sessions : j \in current'[s] /\ bypass[s] = {} =>
           /\ phase'[j] = "running" => saw'[j] = {tree[s]}
           /\ phase'[j] = "succeeded" => <<s, job[j].step, tree[s]>> \in validated'
  PROVE  JobsKnown' /\ \A s \in Sessions : SessionInv(s)'
<1> USE DEF TypeOK
<1>1. TypeOK /\ JobsKnown
  BY DEF IInv
<1>2. JobsKnown'
  <2>1. \A e \in pending : e.job \in JobIds
    BY <1>1 DEF Entries
  <2> QED
    BY <1>1, <2>1 DEF JobsKnown
<1> SUFFICES ASSUME NEW s \in Sessions PROVE SessionInv(s)'
  BY <1>2
<1>3. SessionInv(s)
  BY DEF IInv
<1>4. \A i \in current'[s] : i \in current[s] /\ i \in JobIds /\ phase'[i] \in Alive
  BY <1>1, <1>3 DEF SessionInv, CurrentJobs
<1>5. (open[s] => tree[s] \in Contents)' /\ (open[s] /\ bypass[s] = {} => Sound(s))'
  BY <1>3 DEF SessionInv, Sound
<1>6. CurrentJobs(s)'
  BY <1>3, <1>4 DEF SessionInv, CurrentJobs
<1>7. ResultsKept(s)'
  BY <1>3, <1>4 DEF SessionInv, ResultsKept
<1>8. AwaitedInOrder(s)'
  <2> SUFFICES ASSUME open[s], "attach" \notin bypass[s], NEW e \in pending, e.sid = s
               PROVE  /\ e.seq <= mutationSeq[s]
                      /\ e.seq = mutationSeq[s] /\ phase'[e.job] \in Alive => e.job \in current'[s]
    BY DEF AwaitedInOrder
  <2>1. e.job \in JobIds
    BY <1>1 DEF Entries
  <2>2. /\ e.seq <= mutationSeq[s]
        /\ e.seq = mutationSeq[s] /\ phase[e.job] \in Alive => e.job \in current[s]
    BY <1>3 DEF SessionInv, AwaitedInOrder
  <2>3. CASE e.job = j
    BY <2>2, <2>3
  <2>4. CASE e.job # j
    BY <2>1, <2>2, <2>4
  <2> QED
    BY <2>3, <2>4
<1>9. CurrentClean(s)'
  BY <1>3, <1>4 DEF SessionInv, CurrentClean
<1> QED
  BY <1>5, <1>6, <1>7, <1>8, <1>9 DEF SessionInv

LEMMA JobStartsInv ==
  ASSUME IInv, NEW j \in JobIds, JobStarts(j)
  PROVE  JobsKnown' /\ \A s \in Sessions : SessionInv(s)'
<1>1. TypeOK
  BY DEF IInv
<1>2. /\ phase[j] = "queued" /\ phase'[j] = "running"
      /\ \A i \in JobIds \ {j} : phase'[i] = phase[i] /\ saw'[i] = saw[i]
      /\ saw'[j] = {tree[job[j].sid]}
  BY <1>1 DEF JobStarts, Jobs!Admit, TypeOK
<1>3. UNCHANGED <<job, pending, tree, bypass, open, satisfied, mutationSeq, validated, current>>
  BY DEF JobStarts, gateVars, treeVars
<1>4. \A s \in Sessions : j \in current[s] => job[j].sid = s
  BY DEF IInv, SessionInv, CurrentJobs
<1> QED
  BY <1>2, <1>3, <1>4, JobMoves DEF Alive

LEMMA JobEndsInv ==
  ASSUME IInv, NEW j \in JobIds, JobEnds(j)
  PROVE  JobsKnown' /\ \A s \in Sessions : SessionInv(s)'
<1>1. TypeOK /\ JobsKnown
  BY DEF IInv
<1>2. /\ phase[j] = "running"
      /\ \A i \in JobIds \ {j} : phase'[i] = phase[i] /\ saw'[i] = saw[i]
  BY <1>1 DEF JobEnds, Jobs!Finish, TypeOK
<1>3. UNCHANGED <<job, pending, tree, bypass, open, satisfied, mutationSeq>>
  BY DEF JobEnds, treeVars
<1>4. CASE Jobs!Finish(j, "failed")
  <2>1. phase'[j] = "failed"
    BY <1>1, <1>4 DEF Jobs!Finish, TypeOK
  <2>2. current' = [s \in Sessions |-> current[s] \ {j}] /\ UNCHANGED validated
    BY <1>1, <2>1 DEF JobEnds, Jobs!Finish, TypeOK
  <2> QED
    BY <1>2, <1>3, <2>1, <2>2, JobMoves DEF Alive
<1>5. CASE Jobs!Finish(j, "succeeded")
  <2>1. phase'[j] = "succeeded"
    BY <1>1, <1>5 DEF Jobs!Finish, TypeOK
  <2>2. /\ UNCHANGED current
        /\ validated' = validated \cup
             {v \in Sessions \X Steps \X Trees :
                v[1] = job[j].sid /\ v[2] = job[j].step /\ saw[j] = {v[3]}}
    BY <1>1, <2>1 DEF JobEnds, Jobs!Finish, TypeOK
  <2>3. ASSUME NEW s \in Sessions, j \in current[s], bypass[s] = {}
        PROVE  <<s, job[j].step, tree[s]>> \in validated'
    <3>1. job[j].sid = s /\ saw[j] = {tree[s]}
      BY <1>2, <2>3 DEF IInv, SessionInv, CurrentJobs, CurrentClean
    <3>2. job[j].step \in Steps /\ tree[s] \in Trees
      BY <1>1, <1>2 DEF JobsKnown, JobInfo, TypeOK
    <3>3. <<s, job[j].step, tree[s]>> \in Sessions \X Steps \X Trees
      BY <3>2
    <3> QED
      BY <2>2, <3>1, <3>3
  <2> QED
    BY <1>2, <1>3, <2>1, <2>2, <2>3, JobMoves DEF Alive
<1> QED
  BY <1>4, <1>5 DEF JobEnds

LEMMA JobForgottenInv ==
  ASSUME IInv, NEW j \in JobIds, JobForgotten(j)
  PROVE  JobsKnown' /\ \A s \in Sessions : SessionInv(s)'
<1>1. TypeOK
  BY DEF IInv
<1>2. /\ phase[j] # "new" /\ phase'[j] = "forgotten"
      /\ \A i \in JobIds \ {j} : phase'[i] = phase[i]
  BY <1>1 DEF JobForgotten, Jobs!Forget, Jobs!Outcomes, TypeOK
<1>3. UNCHANGED <<job, saw, pending, tree, bypass, open, satisfied, mutationSeq, validated>>
  BY DEF JobForgotten, treeVars
<1>4. current' = [s \in Sessions |-> current[s] \ {j}]
  BY DEF JobForgotten
<1> QED
  BY <1>2, <1>3, <1>4, JobMoves DEF Alive

-----------------------------------------------------------------------------

LEMMA InvStep == IInv /\ [Next]_vars => IInv'
<1> SUFFICES ASSUME IInv, [Next]_vars PROVE IInv'
  OBVIOUS
<1> DEFINE Kept == JobsKnown' /\ \A s \in Sessions : SessionInv(s)'
<1>1. TypeOK'
  BY TypeStep
<1>2. ASSUME NEW s \in Sessions, EditStep(s) PROVE Kept
  <2>1. CASE \E c \in Contents : Edit(s, c)
    BY <2>1, EditInv
  <2>2. CASE EditUntold(s)
    <3>1. PICK c \in Contents : Holds(s, c)
      BY <2>2 DEF EditUntold
    <3> QED
      BY <2>2, <3>1, UnseenChange DEF EditUntold, Unseen
  <2> QED
    BY <1>2, <2>1, <2>2 DEF EditStep, Mutate, Undo, PartialWrite, InsertNodeFor
<1>3. ASSUME NEW s \in Sessions, SessionStep(s) PROVE Kept
  <2>1. CASE BeginTransaction(s)
    <3>1. UNCHANGED <<jobVars, gateVars, tree, bypass, open>>
      BY <2>1 DEF BeginTransaction
    <3> QED
      BY <3>1 DEF IInv, jobVars, gateVars, JobsKnown, SessionInv, CurrentJobs,
                  ResultsKept, AwaitedInOrder, CurrentClean, Sound
  <2>2. CASE Commit(s)
    BY <2>2, ReconcileInv DEF Commit
  <2> QED
    BY <1>3, <2>1, <2>2, AttachInv, EvictInv, RollbackInv DEF SessionStep
<1>4. ASSUME NEW s \in Sessions, NEW step \in Steps, Submit(s, step) PROVE Kept
  BY <1>4, SubmitInv
<1>5. ASSUME NEW j \in JobIds, JobStep(j) PROVE Kept
  <2>1. CASE CommandWrites(j)
    <3>1. job[j] \in JobInfo
      BY <2>1 DEF CommandWrites, IInv, JobsKnown
    <3>2. PICK s \in Sessions : s = job[j].sid
      BY <3>1 DEF JobInfo
    <3>3. PICK c \in Contents : Holds(s, c)
      BY <2>1, <3>2 DEF CommandWrites
    <3> QED
      BY <2>1, <3>2, <3>3, UnseenChange DEF CommandWrites, Unseen
  <2> QED
    BY <1>5, <2>1, JobStartsInv, JobEndsInv, JobForgottenInv DEF JobStep
<1>6. ASSUME Poll PROVE Kept
  BY <1>6, ReconcileInv DEF Poll, treeVars
<1>7. ASSUME UNCHANGED vars PROVE Kept
  BY <1>7 DEF IInv, vars, jobVars, gateVars, treeVars, JobsKnown, SessionInv,
              CurrentJobs, ResultsKept, AwaitedInOrder, CurrentClean, Sound
<1>8. Kept
  BY <1>2, <1>3, <1>4, <1>5, <1>6, <1>7 DEF Next
<1> QED
  BY <1>1, <1>8 DEF IInv

LEMMA Invariance == Spec => []IInv
<1>1. Init => IInv
  BY InitInv
<1>2. IInv /\ [Next]_vars => IInv'
  BY InvStep
<1> QED
  BY <1>1, <1>2, PTL DEF Spec

(* Every variable of the commit gate keeps its type.                       *)
THEOREM CommitGateTypeCorrect == Spec => []TypeOK
<1>1. IInv => TypeOK
  BY DEF IInv
<1> QED
  BY <1>1, Invariance, PTL

(* A satisfied gate passed on exactly the content the worktree holds, as   *)
(* long as that content only changed through edits that completed.         *)
THEOREM CommitGateSound == Spec => []GateSound
<1>1. IInv => GateSound
  BY DEF IInv, SessionInv, GateSound
<1> QED
  BY <1>1, Invariance, PTL

(* No result of a gate job is dropped while it could still open the gate.  *)
THEOREM CommitGatePassNotLost == Spec => []PassNotLost
<1>1. IInv => PassNotLost
  BY DEF IInv, SessionInv, ResultsKept, PassNotLost
<1> QED
  BY <1>1, Invariance, PTL

(* Every COMMIT records a content on which every gated step passed.        *)
THEOREM CommitGateCommitsValidated == Spec => CommitsValidated
<1>1. IInv /\ IInv' =>
        \A s \in Sessions : Commit(s) /\ bypass[s] = {} =>
          \A g \in Gates : <<s, g, tree[s]>> \in validated
  <2> SUFFICES ASSUME IInv', NEW s \in Sessions, Commit(s), bypass[s] = {}, NEW g \in Gates
               PROVE  <<s, g, tree[s]>> \in validated
    OBVIOUS
  <2>1. g \in satisfied'[s]
    BY DEF Commit, MayCommit
  <2>2. UNCHANGED <<tree, validated, bypass, open>> /\ open[s]
    BY DEF Commit, jobVars
  <2> QED
    BY <2>1, <2>2 DEF IInv, SessionInv, Sound
<1> QED
  BY <1>1, Invariance, PTL DEF CommitsValidated

(* A gate opens only for a job submitted since the last edit, unless the   *)
(* session was rebuilt while its jobs were awaited.                        *)
THEOREM CommitGateNoStaleOpening == Spec => NoStaleOpening
<1>1. ASSUME IInv, [Next]_vars, NEW s \in Sessions, "attach" \notin bypass[s]
      PROVE  OpensForCurrentJob(s)
  <2>0. TypeOK /\ JobsKnown /\ SessionInv(s)
    BY <1>1 DEF IInv
  <2>1. CASE ReconcileGateJobs
    <3> SUFFICES ASSUME NEW g \in satisfied'[s] \ satisfied[s]
                 PROVE  \E j \in current[s] :
                          phase[j] = "succeeded" /\ job[j] = [sid |-> s, step |-> g]
      BY DEF OpensForCurrentJob
    <3>1. PICK e \in pending : e.sid = s /\ Counts(e) /\ e.step = g
      BY <2>1 DEF ReconcileGateJobs
    <3>2. e.job \in current[s] /\ phase[e.job] = "succeeded"
      BY <1>1, <2>0, <3>1 DEF Counts, SessionInv, AwaitedInOrder, Alive
    <3>3. job[e.job] = [sid |-> s, step |-> g]
      BY <2>0, <3>1 DEF JobsKnown
    <3> QED
      BY <3>2, <3>3
  <2>2. ASSUME satisfied'[s] \subseteq satisfied[s] PROVE OpensForCurrentJob(s)
    BY <2>2 DEF OpensForCurrentJob
  <2>3. ASSUME NEW u \in Sessions, EditStep(u) PROVE satisfied'[s] \subseteq satisfied[s]
    BY <2>0, <2>3
    DEF TypeOK, EditStep, Mutate, Undo, PartialWrite, InsertNodeFor, EditUntold, Edit,
        CloseGate, gateVars
  <2>4. ASSUME NEW u \in Sessions, Attach(u) \/ Evict(u) \/ BeginTransaction(u) \/ Rollback(u)
        PROVE  satisfied'[s] \subseteq satisfied[s]
    BY <2>0, <2>4
    DEF TypeOK, Attach, Evict, NewSession, BeginTransaction, Rollback, gateVars
  <2>5. ASSUME NEW u \in Sessions, NEW step \in Steps, Submit(u, step)
        PROVE  satisfied'[s] \subseteq satisfied[s]
    BY <2>5 DEF Submit
  <2>6. ASSUME NEW j \in JobIds, JobStep(j) PROVE satisfied'[s] \subseteq satisfied[s]
    BY <2>6 DEF JobStep, JobStarts, JobEnds, JobForgotten, CommandWrites, gateVars
  <2>7. CASE UNCHANGED vars
    BY <2>2, <2>7 DEF vars, gateVars
  <2> QED
    BY <1>1, <2>1, <2>2, <2>3, <2>4, <2>5, <2>6, <2>7
    DEF Next, SessionStep, Commit, Poll
<1>2. IInv /\ [Next]_vars =>
        \A s \in Sessions : "attach" \notin bypass[s] => OpensForCurrentJob(s)
  BY <1>1
<1> QED
  BY <1>2, Invariance, PTL DEF Spec, NoStaleOpening

=============================================================================
