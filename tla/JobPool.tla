------------------------------ MODULE JobPool ------------------------------
(***************************************************************************)
(* The bounded worker pool behind VERIFY, RUN and JOB START                *)
(* (crates/forgeql-core/src/jobs.rs, JobRegistry).                         *)
(*                                                                         *)
(* One mutex guards the registry; a condition variable wakes callers of    *)
(* wait().  A thread is a client (a request that calls start or wait) or   *)
(* the worker of a job, named by the job's id.  Every action is one step   *)
(* of one thread between two points where another thread may run: a whole  *)
(* critical section without a loop is one action, and the loops of evict() *)
(* and pump() take one action per iteration while they hold the mutex.     *)
(*                                                                         *)
(* Abstracted: labels, costs, outputs and elapsed times.  status() and     *)
(* list() only read, so they have no action; the order in which pump()     *)
(* spawns the batch it admitted is left open.                              *)
(*                                                                         *)
(* A definition whose name starts with Mut is not part of the              *)
(* specification.  It is the definition after it with a plausible bug, and *)
(* the README says which property notices.                                 *)
(***************************************************************************)
EXTENDS Naturals, Sequences, FiniteSets

CONSTANTS Clients,        \* request threads
          MaxJobs,        \* bound: how many jobs are ever submitted
          MaxConcurrent,  \* Inner::max_concurrent
          MaxRetained,    \* MAX_RETAINED_JOBS
          Nobody          \* the mutex is free

JobIds == 1..MaxJobs
Threads == Clients \cup JobIds

ASSUME JobPoolAssumption == /\ MaxJobs \in Nat
                            /\ MaxConcurrent \in Nat \ {0}
                            /\ MaxRetained \in Nat
                            /\ Clients \cap JobIds = {}
                            /\ Nobody \notin Threads
                            /\ 0 \notin Clients

VARIABLES
  state,     \* Inner::jobs, the state of each record, "absent" if there is none
  order,     \* Inner::order, submission order
  queue,     \* Inner::queue, accepted and not yet running
  running,   \* Inner::running
  seq,       \* Inner::seq
  lock,      \* the thread that holds JobRegistry::inner, or Nobody
  pc,        \* where each thread is
  toSpawn,   \* the local to_spawn of each thread inside pump()
  subject    \* the job a thread is completing or waiting for, 0 if none

vars == <<state, order, queue, running, seq, lock, pc, toSpawn, subject>>

Outcomes == {"succeeded", "failed"}
States == {"absent", "queued", "running"} \cup Outcomes

(* "idle"    a client between requests                                     *)
(* "unborn"  a worker thread that has not been spawned; "gone" once ended  *)
(* "evict"   in start(), inside evict()                                    *)
(* "pump"    about to lock in pump(); "admit" inside its loop              *)
(* "spawn"   in pump() after unlocking                                     *)
(* "exec"    a worker running job_fn                                       *)
(* "succeeded", "failed"  entering complete() with that outcome            *)
(* "notify"  in complete() after unlocking                                 *)
(* "check"   in wait(), about to examine the job; "blocked" on the condvar *)
PCs == {"idle", "unborn", "gone", "evict", "pump", "admit", "spawn", "exec",
        "notify", "check", "blocked"} \cup Outcomes

TypeOK ==
  /\ state \in [JobIds -> States]
  /\ order \in Seq(JobIds)
  /\ queue \in Seq(JobIds)
  /\ running \in Nat
  /\ seq \in 0..MaxJobs
  /\ lock \in Threads \cup {Nobody}
  /\ pc \in [Threads -> PCs]
  /\ toSpawn \in [Threads -> SUBSET JobIds]
  /\ subject \in [Threads -> JobIds \cup {0}]

-----------------------------------------------------------------------------

Init ==
  /\ state = [j \in JobIds |-> "absent"]
  /\ order = <<>>
  /\ queue = <<>>
  /\ running = 0
  /\ seq = 0
  /\ lock = Nobody
  /\ pc = [t \in Threads |-> IF t \in Clients THEN "idle" ELSE "unborn"]
  /\ toSpawn = [t \in Threads |-> {}]
  /\ subject = [t \in Threads |-> 0]

Goto(t, label) == pc' = [pc EXCEPT ![t] = label]

\* inner.seq += 1; the id is formatted from the new value.
NextId == seq + 1

\* start(): record the job as Queued under a fresh id and keep the mutex
\* for evict().
Start(c) ==
  /\ pc[c] = "idle"
  /\ lock = Nobody
  /\ seq < MaxJobs
  /\ lock' = c
  /\ seq' = NextId
  /\ state' = [state EXCEPT ![NextId] = "queued"]
  /\ order' = Append(order, NextId)
  /\ queue' = Append(queue, NextId)
  /\ Goto(c, "evict")
  /\ UNCHANGED <<running, toSpawn, subject>>

MutFinishedAtNotRunning(i) == state[order[i]] # "running"
MutFinishedAtNotQueued(i) == state[order[i]] # "queued"
FinishedAt(i) == state[order[i]] \in Outcomes

\* Position i holds the oldest finished job of the retention list.
OldestFinished(i) ==
  /\ FinishedAt(i)
  /\ \A k \in 1..(i-1) : ~FinishedAt(k)

\* evict(): one turn of its loop, dropping the oldest finished record.
EvictOne(c) ==
  /\ pc[c] = "evict"
  /\ Len(order) > MaxRetained
  /\ \E i \in 1..Len(order) :
       /\ OldestFinished(i)
       /\ state' = [state EXCEPT ![order[i]] = "absent"]
       /\ order' = SubSeq(order, 1, i-1) \o SubSeq(order, i+1, Len(order))
  /\ UNCHANGED <<queue, running, seq, lock, pc, toSpawn, subject>>

\* evict() has no more to drop; start() unlocks and calls pump().
EvictDone(c) ==
  /\ pc[c] = "evict"
  /\ \/ Len(order) <= MaxRetained
     \/ \A i \in 1..Len(order) : ~FinishedAt(i)
  /\ lock' = Nobody
  /\ Goto(c, "pump")
  /\ UNCHANGED <<state, order, queue, running, seq, toSpawn, subject>>

PumpLock(t) ==
  /\ pc[t] = "pump"
  /\ lock = Nobody
  /\ lock' = t
  /\ Goto(t, "admit")
  /\ UNCHANGED <<state, order, queue, running, seq, toSpawn, subject>>

SlotFree == running < MaxConcurrent

\* pump(): one turn of its loop.  The head of the queue gets a slot; an id
\* without a record, or whose closure is gone, is skipped.
Admit(t) ==
  /\ pc[t] = "admit"
  /\ SlotFree
  /\ queue # <<>>
  /\ queue' = Tail(queue)
  /\ LET j == Head(queue) IN
       \/ /\ state[j] = "queued"
          /\ state' = [state EXCEPT ![j] = "running"]
          /\ running' = running + 1
          /\ toSpawn' = [toSpawn EXCEPT ![t] = @ \cup {j}]
       \/ /\ state[j] # "queued"
          /\ UNCHANGED <<state, running, toSpawn>>
  /\ UNCHANGED <<order, seq, lock, pc, subject>>

\* pump() leaves its loop and unlocks before spawning anything.
PumpUnlock(t) ==
  /\ pc[t] = "admit"
  /\ ~SlotFree \/ queue = <<>>
  /\ lock' = Nobody
  /\ Goto(t, "spawn")
  /\ UNCHANGED <<state, order, queue, running, seq, toSpawn, subject>>

\* pump() spawns the worker thread of one admitted job.
Spawn(t) ==
  /\ pc[t] = "spawn"
  /\ \E j \in toSpawn[t] :
       /\ toSpawn' = [toSpawn EXCEPT ![t] = @ \ {j}]
       /\ Goto(j, "exec")
  /\ UNCHANGED <<state, order, queue, running, seq, lock, subject>>

MutSpawnFailsIgnored(t) ==
  /\ pc[t] = "spawn"
  /\ \E j \in toSpawn[t] : toSpawn' = [toSpawn EXCEPT ![t] = @ \ {j}]
  /\ UNCHANGED <<state, order, queue, running, seq, lock, pc, subject>>

\* The operating system refuses the thread: the pumping thread itself calls
\* complete(), and through it pump() again, before its other spawns.
SpawnFails(t) ==
  /\ pc[t] = "spawn"
  /\ \E j \in toSpawn[t] :
       /\ toSpawn' = [toSpawn EXCEPT ![t] = @ \ {j}]
       /\ subject' = [subject EXCEPT ![t] = j]
  /\ Goto(t, "failed")
  /\ UNCHANGED <<state, order, queue, running, seq, lock>>

\* pump() returns: a client gets its job id, a worker thread ends.
PumpReturn(t) ==
  /\ pc[t] = "spawn"
  /\ toSpawn[t] = {}
  /\ Goto(t, IF t \in Clients THEN "idle" ELSE "gone")
  /\ UNCHANGED <<state, order, queue, running, seq, lock, toSpawn, subject>>

\* job_fn returns; the worker enters complete() with its outcome.
RunJob(j) ==
  /\ pc[j] = "exec"
  /\ \E outcome \in Outcomes : Goto(j, outcome)
  /\ subject' = [subject EXCEPT ![j] = j]
  /\ UNCHANGED <<state, order, queue, running, seq, lock, toSpawn>>

\* running.saturating_sub(1)
MutSaturatingDecForgotten(n) == n
SaturatingDec(n) == IF n > 0 THEN n - 1 ELSE 0

\* complete(): record the outcome and give the slot back, if the record is
\* still there.
Complete(t) ==
  /\ pc[t] \in Outcomes
  /\ lock = Nobody
  /\ LET j == subject[t] IN
       \/ /\ state[j] # "absent"
          /\ state' = [state EXCEPT ![j] = pc[t]]
          /\ running' = SaturatingDec(running)
       \/ /\ state[j] = "absent"
          /\ UNCHANGED <<state, running>>
  /\ Goto(t, "notify")
  /\ subject' = [subject EXCEPT ![t] = 0]
  /\ UNCHANGED <<order, queue, seq, lock, toSpawn>>

MutNotifyOne(t) ==
  /\ pc[t] = "notify"
  /\ LET asleep == {c \in Clients : pc[c] = "blocked"} IN
       \/ asleep = {} /\ Goto(t, "pump")
       \/ \E c \in asleep : pc' = [pc EXCEPT ![t] = "pump", ![c] = "check"]
  /\ UNCHANGED <<state, order, queue, running, seq, lock, toSpawn, subject>>

MutNotifyWithoutPump(t) ==
  /\ pc[t] = "notify"
  /\ pc' = [u \in Threads |->
              CASE u = t -> "spawn"
                [] u # t /\ pc[u] = "blocked" -> "check"
                [] OTHER -> pc[u]]
  /\ UNCHANGED <<state, order, queue, running, seq, lock, toSpawn, subject>>

\* complete(), after unlocking: notify_all() wakes every blocked waiter,
\* then pump() is called.
NotifyAll(t) ==
  /\ pc[t] = "notify"
  /\ pc' = [u \in Threads |->
              CASE u = t -> "pump"
                [] u # t /\ pc[u] = "blocked" -> "check"
                [] OTHER -> pc[u]]
  /\ UNCHANGED <<state, order, queue, running, seq, lock, toSpawn, subject>>

\* wait(): a client asks about a job it was given the id of.
Wait(c) ==
  /\ pc[c] = "idle"
  /\ \E j \in 1..seq : subject' = [subject EXCEPT ![c] = j]
  /\ Goto(c, "check")
  /\ UNCHANGED <<state, order, queue, running, seq, lock, toSpawn>>

WaitReturn(c) ==
  /\ Goto(c, "idle")
  /\ subject' = [subject EXCEPT ![c] = 0]

\* wait(), one turn of its loop under the mutex: return if the job is
\* unknown or finished, else release the mutex and block in one step.
WaitCheck(c) ==
  /\ pc[c] = "check"
  /\ lock = Nobody
  /\ \/ /\ state[subject[c]] \in {"absent"} \cup Outcomes
        /\ WaitReturn(c)
     \/ /\ state[subject[c]] \in {"queued", "running"}
        /\ Goto(c, "blocked")
        /\ UNCHANGED subject
  /\ UNCHANGED <<state, order, queue, running, seq, lock, toSpawn>>

\* wait(): the deadline passes, while blocked or on the way to blocking.
WaitDeadline(c) ==
  /\ pc[c] \in {"check", "blocked"}
  /\ lock = Nobody
  /\ WaitReturn(c)
  /\ UNCHANGED <<state, order, queue, running, seq, lock, toSpawn>>

-----------------------------------------------------------------------------

ClientStep(c) ==
  \/ Start(c) \/ EvictOne(c) \/ EvictDone(c)
  \/ Wait(c) \/ WaitCheck(c) \/ WaitDeadline(c)

PumpStep(t) ==
  \/ PumpLock(t) \/ Admit(t) \/ PumpUnlock(t)
  \/ Spawn(t) \/ SpawnFails(t) \/ PumpReturn(t)

CompleteStep(t) == Complete(t) \/ NotifyAll(t)

Next == \/ \E c \in Clients : ClientStep(c)
        \/ \E t \in Threads : PumpStep(t) \/ CompleteStep(t)
        \/ \E j \in JobIds : RunJob(j)

Spec == Init /\ [][Next]_vars

(***************************************************************************)
(* A thread that can go on does (the operating system schedules it), and a *)
(* command ends: the pool enforces no timeout of its own.  Nothing forces  *)
(* a client to call start or wait, nor a deadline to pass.                 *)
(***************************************************************************)
Fairness ==
  /\ \A c \in Clients : /\ WF_vars(EvictOne(c)) 
                        /\ WF_vars(EvictDone(c))
                        /\ WF_vars(WaitCheck(c))
  /\ \A t \in Threads : WF_vars(PumpStep(t)) /\ WF_vars(CompleteStep(t))
  /\ \A j \in JobIds : WF_vars(RunJob(j))

FairSpec == Spec /\ Fairness

-----------------------------------------------------------------------------

RunningJobs == {j \in JobIds : state[j] = "running"}

(* jobs.rs, Inner::running and its saturating decrement: the counter is    *)
(* exactly the number of running records, and never passes the cap.        *)
SlotAccounting ==
  /\ running = Cardinality(RunningJobs)
  /\ running <= MaxConcurrent

(* Thread t is the one that will call complete() for job j: it is about to *)
(* spawn its worker, it is that worker, or it is completing it.            *)
Owns(t, j) == \/ j \in toSpawn[t]
              \/ t = j /\ pc[t] = "exec"
              \/ pc[t] \in Outcomes /\ subject[t] = j

(* jobs.rs, pump() and complete(): every running record has exactly one    *)
(* thread that will complete it, so no slot leaks when a spawn fails or a  *)
(* record is evicted, and none is given back twice.                        *)
OneOwner ==
  \A j \in JobIds :
    /\ state[j] = "running" <=> \E t \in Threads : Owns(t, j)
    /\ \A t, u \in Threads : Owns(t, j) /\ Owns(u, j) => t = u

(* jobs.rs, "At most max_concurrent jobs run at once": the number of       *)
(* commands executing on worker threads, not only the registry's counter.  *)
CommandsBounded ==
  Cardinality({j \in JobIds : pc[j] = "exec"}) <= MaxConcurrent

(* jobs.rs, "FIFO admission": the queue holds exactly the queued jobs in   *)
(* submission order, and none of them waits while a later one has started. *)
FifoAdmission ==
  /\ \A j \in JobIds :
       state[j] = "queued" <=> \E i \in 1..Len(queue) : queue[i] = j
  /\ \A i, k \in 1..Len(queue) : i < k => queue[i] < queue[k]
  /\ \A i \in 1..Len(queue) : \A j \in queue[i]..seq : state[j] = "queued"

(* Some thread is on its way into the admission loop of pump().            *)
PumpComing == \E t \in Threads : pc[t] \in {"evict", "notify", "pump", "admit"}

(* jobs.rs, "the rest wait Queued and start as slots free": a job waits    *)
(* beside a free slot only while some thread is about to pump.             *)
NoIdleSlot == SlotFree /\ queue # <<>> => PumpComing

(* jobs.rs, wait(): a waiter sleeps on a job that is finished (or already  *)
(* evicted) only while the notify_all() that will wake it is still due.    *)
NoLostWakeup ==
  \A c \in Clients :
    pc[c] = "blocked" => \/ state[subject[c]] \in {"queued", "running"}
                         \/ \E t \in Threads : pc[t] = "notify"

-----------------------------------------------------------------------------

(* wait() called without a deadline that passes still returns: the job it  *)
(* names finishes and the waiter is woken.                                 *)
WaiterReturns ==
  \A c \in Clients : pc[c] \in {"check", "blocked"} ~> pc[c] = "idle"

(* The pool implements the service the engine relies on: JOB STATUS shows  *)
(* each job moving through the states of JobService, within its cap, in    *)
(* its order, and (under fairness) every accepted job to an outcome.       *)
Service == INSTANCE JobService
             WITH phase <- [j \in JobIds |->
                              IF j > seq THEN "new"
                              ELSE IF state[j] = "absent" THEN "forgotten"
                              ELSE state[j]]

ImplementsService == Service!Spec
ServesEveryJob == Service!FairSpec

=============================================================================
