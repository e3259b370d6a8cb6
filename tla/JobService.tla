----------------------------- MODULE JobService -----------------------------
(***************************************************************************)
(* What the background job pool promises to the rest of the engine         *)
(* (crates/forgeql-core/src/jobs.rs, the module comment and the comments   *)
(* on JobState): a job goes queued, running, succeeded or failed, at most  *)
(* MaxConcurrent jobs run at once, jobs are admitted in the order they     *)
(* were submitted, and only a finished job is ever forgotten.  The threads,*)
(* the mutex, the queue and the retention list of the implementation are   *)
(* absent: JobPool is shown to implement this module.                      *)
(***************************************************************************)
EXTENDS Naturals, FiniteSets

CONSTANTS MaxJobs,        \* bound: how many jobs are ever submitted
          MaxConcurrent   \* Inner::max_concurrent, clamped to at least 1

VARIABLE phase            \* what JOB STATUS would say of each job id

JobIds == 1..MaxJobs
Outcomes == {"succeeded", "failed"}
Phases == {"new", "queued", "running", "forgotten"} \cup Outcomes

Running == {j \in JobIds : phase[j] = "running"}

TypeOK == phase \in [JobIds -> Phases]

-----------------------------------------------------------------------------

Init == phase = [j \in JobIds |-> "new"]

\* JOB START: ids are handed out in increasing order.
Submit(j) ==
  /\ phase[j] = "new"
  /\ \A i \in 1..(j-1) : phase[i] # "new"
  /\ phase' = [phase EXCEPT ![j] = "queued"]

\* A worker slot is free and j is the oldest job still waiting for one.
Admit(j) ==
  /\ phase[j] = "queued"
  /\ \A i \in 1..(j-1) : phase[i] # "queued"
  /\ Cardinality(Running) < MaxConcurrent
  /\ phase' = [phase EXCEPT ![j] = "running"]

\* The command exited, or its thread could not be spawned.
Finish(j, outcome) ==
  /\ phase[j] = "running"
  /\ phase' = [phase EXCEPT ![j] = outcome]

\* The record of a finished job is dropped; JOB STATUS no longer knows it.
Forget(j) ==
  /\ phase[j] \in Outcomes
  /\ phase' = [phase EXCEPT ![j] = "forgotten"]

Next == \E j \in JobIds :
          \/ Submit(j)
          \/ Admit(j)
          \/ \E outcome \in Outcomes : Finish(j, outcome)
          \/ Forget(j)

Spec == Init /\ [][Next]_phase

Fairness == \A j \in JobIds :
              /\ WF_phase(Admit(j))
              /\ WF_phase(\E outcome \in Outcomes : Finish(j, outcome))

FairSpec == Spec /\ Fairness

=============================================================================
