---------------------------- MODULE MCCommitGate ----------------------------
(***************************************************************************)
(* What a COMMIT may record, for TLC in one run: CommitGate and            *)
(* Checkpoints, which share no state here.  The run asks two questions of  *)
(* the gate, each with bounds of its own, because their product is too     *)
(* large; scope says what is asked, and what it is not asked of stays in   *)
(* its initial state.                                                      *)
(*                                                                         *)
(*   "sessions"      all sessions, one gated step, one edit each, no       *)
(*                   transactions, and of the changes the gate is not told *)
(*                   of only those of an attach: who opens whose gate      *)
(*   "gates"         one session, with every step and transactions         *)
(*   "transactions"  the files and commits of nested transactions, with    *)
(*                   every crash point                                     *)
(*                                                                         *)
(* Sessions, gates and contents are interchangeable.  The violation runs   *)
(* use no symmetry between sessions: their traces are to be read.          *)
(***************************************************************************)
EXTENDS CommitGate, Checkpoints, TLC

VARIABLE scope

\* s has been used: a session, a worktree, a job, a result.
Used(s) == \/ open[s] \/ tree[s] # NoTree
           \/ \E j \in JobIds : job[j].sid = s
           \/ \E v \in validated : v[1] = s

InScope ==
  \/ /\ scope = "sessions"
     /\ \A s \in Sessions : /\ mutationSeq[s] <= 1 /\ saved[s] = <<>>
                           /\ bypass[s] \subseteq {"attach"}
     /\ \E g \in Gates : \A j \in JobIds : job[j].step \in {g, NoJob.step}
  \/ /\ scope = "gates"
     /\ \A s, t \in Sessions : Used(s) /\ Used(t) => s = t

ScopedInit ==
  /\ Init /\ CheckpointsInit
  /\ scope \in {"sessions", "gates", "transactions"}
  /\ IF scope = "transactions" THEN ignored \subseteq Paths
     ELSE ignored = {} /\ \A p \in Paths : worktree[p] = Absent

ScopedNext ==
  /\ UNCHANGED scope
  /\ \/ scope # "transactions" /\ Next /\ InScope' /\ UNCHANGED checkpointsVars
     \/ scope = "transactions" /\ CheckpointsNext /\ UNCHANGED vars

ScopedSpec == ScopedInit /\ [][ScopedNext]_<<vars, checkpointsVars, scope>>

Symmetry == UNION {Permutations(S) : S \in {Sessions, Gates, Contents}}

=============================================================================
