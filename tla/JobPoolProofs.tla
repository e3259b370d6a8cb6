--------------------------- MODULE JobPoolProofs ---------------------------
(***************************************************************************)
(* Proofs about JobPool for any number of clients, jobs, slots and         *)
(* retained records.  The inductive invariant is built in three layers:    *)
(* types, then where each thread is (ThreadInv), then which thread is      *)
(* responsible for which job (OneOwner, FifoAdmission).  The slot count,   *)
(* the wake-up and the refinement follow from those.                       *)
(***************************************************************************)
EXTENDS JobPool, FiniteSetTheorems, SequenceTheorems, TLAPS

(* The mutex is held exactly inside evict() and the loop of pump(); only   *)
(* clients call start() and wait(); a thread has jobs to spawn only within *)
(* pump(); whoever enters complete() names a job it no longer has to       *)
(* spawn; a job's own thread is unborn until its worker is spawned.        *)
ThreadInv ==
  /\ \A t \in Threads : pc[t] \in {"evict", "admit"} <=> lock = t
  /\ \A t \in Threads :
       /\ pc[t] \in {"idle", "check", "blocked", "evict"} => t \in Clients
       /\ toSpawn[t] # {} => pc[t] \in {"admit", "spawn", "notify", "pump"} \cup Outcomes
       /\ pc[t] \in Outcomes => subject[t] \in JobIds \ toSpawn[t]
       /\ pc[t] \in {"check", "blocked"} => subject[t] \in 1..seq
  /\ \A j \in JobIds :
       /\ j > seq => state[j] = "absent" /\ pc[j] = "unborn"
       /\ state[j] = "queued" => pc[j] = "unborn"
       /\ \A t \in Threads : j \in toSpawn[t] => pc[j] = "unborn"

LEMMA TypeInit == Init => TypeOK
  BY JobPoolAssumption DEF Init, TypeOK, Threads, JobIds, States, PCs, Outcomes

LEMMA TypeStep == TypeOK /\ [Next]_vars => TypeOK'
<1> SUFFICES ASSUME TypeOK, [Next]_vars PROVE TypeOK'
  OBVIOUS
<1> USE JobPoolAssumption DEF TypeOK, Threads, JobIds, Outcomes
<1>1. ASSUME NEW c \in Clients, Start(c) PROVE TypeOK'
  BY <1>1 DEF Start, NextId, Goto, States, PCs
<1>2. ASSUME NEW c \in Clients, EvictOne(c) PROVE TypeOK'
  BY SMTT(20), <1>2 DEF EvictOne, States
<1>3. ASSUME NEW c \in Clients, EvictDone(c) PROVE TypeOK'
  BY <1>3 DEF EvictDone, Goto, PCs
<1>4. ASSUME NEW c \in Clients, Wait(c) PROVE TypeOK'
  BY <1>4 DEF Wait, Goto, PCs
<1>5. ASSUME NEW c \in Clients, WaitCheck(c) PROVE TypeOK'
  BY ZenonT(30), <1>5 DEF WaitCheck, WaitReturn, Goto, PCs
<1>6. ASSUME NEW c \in Clients, WaitDeadline(c) PROVE TypeOK'
  BY <1>6 DEF WaitDeadline, WaitReturn, Goto, PCs
<1>7. ASSUME NEW t \in Threads, PumpLock(t) PROVE TypeOK'
  BY <1>7 DEF PumpLock, Goto, PCs
<1>8. ASSUME NEW t \in Threads, Admit(t) PROVE TypeOK'
  <2>1. Head(queue) \in JobIds /\ Tail(queue) \in Seq(JobIds)
    BY <1>8, HeadTailProperties DEF Admit
  <2>2. CASE state[Head(queue)] = "queued"
    <3>1. PICK j \in JobIds : j = Head(queue)
      BY <2>1
    <3>2. /\ state' = [state EXCEPT ![j] = "running"]
          /\ running' = running + 1
          /\ toSpawn' = [toSpawn EXCEPT ![t] = @ \cup {j}]
          /\ queue' = Tail(queue)
          /\ UNCHANGED <<order, seq, lock, pc, subject>>
      BY <1>8, <2>2, <3>1 DEF Admit
    <3>3. state' \in [JobIds -> States]
      BY <3>2 DEF States
    <3>4. toSpawn' \in [Threads -> SUBSET JobIds]
      BY <3>2
    <3> QED
      BY <2>1, <3>2, <3>3, <3>4
  <2>3. CASE state[Head(queue)] # "queued"
    BY <1>8, <2>1, <2>3 DEF Admit
  <2> QED
    BY <2>2, <2>3
<1>9. ASSUME NEW t \in Threads, PumpUnlock(t) PROVE TypeOK'
  BY <1>9 DEF PumpUnlock, Goto, PCs
<1>10. ASSUME NEW t \in Threads, Spawn(t) PROVE TypeOK'
  BY <1>10 DEF Spawn, Goto, PCs
<1>11. ASSUME NEW t \in Threads, SpawnFails(t) PROVE TypeOK'
  BY <1>11 DEF SpawnFails, Goto, PCs
<1>12. ASSUME NEW t \in Threads, PumpReturn(t) PROVE TypeOK'
  BY <1>12 DEF PumpReturn, Goto, PCs
<1>13. ASSUME NEW t \in Threads, Complete(t) PROVE TypeOK'
  <2>1. running' \in Nat
    BY <1>13 DEF Complete, SaturatingDec
  <2>2. state' \in [JobIds -> States]
    BY <1>13 DEF Complete, States
  <2>3. pc' \in [Threads -> PCs] /\ subject' \in [Threads -> JobIds \cup {0}]
    BY <1>13 DEF Complete, Goto, PCs
  <2> QED
    BY <1>13, <2>1, <2>2, <2>3 DEF Complete
<1>14. ASSUME NEW t \in Threads, NotifyAll(t) PROVE TypeOK'
  BY <1>14 DEF NotifyAll, PCs
<1>15. ASSUME NEW j \in JobIds, RunJob(j) PROVE TypeOK'
  BY <1>15 DEF RunJob, Goto, PCs
<1>16. CASE UNCHANGED vars
  BY <1>16 DEF vars
<1> QED
  BY <1>1, <1>2, <1>3, <1>4, <1>5, <1>6, <1>7, <1>8, <1>9, <1>10, <1>11, <1>12,
     <1>13, <1>14, <1>15, <1>16
     DEF Next, ClientStep, PumpStep, CompleteStep

(* Every variable keeps the shape of the JobRegistry fields it stands for. *)
THEOREM JobPoolTypeCorrect == Spec => []TypeOK
  BY TypeInit, TypeStep, PTL DEF Spec

-----------------------------------------------------------------------------

LEMMA ThreadInit == Init => ThreadInv
  BY JobPoolAssumption DEF Init, ThreadInv, Threads, JobIds, Outcomes

LEMMA ThreadStep == TypeOK /\ ThreadInv /\ OneOwner /\ [Next]_vars => ThreadInv'
<1> SUFFICES ASSUME TypeOK, ThreadInv, OneOwner, [Next]_vars PROVE ThreadInv'
  OBVIOUS
<1> USE JobPoolAssumption DEF TypeOK, ThreadInv, Threads, JobIds, Outcomes
<1>1. ASSUME NEW c \in Clients, Start(c) PROVE ThreadInv'
  <2>1. /\ c \in Threads /\ c \notin JobIds
        /\ seq + 1 \in JobIds /\ seq' = seq + 1 /\ lock = Nobody /\ lock' = c
        /\ state' = [state EXCEPT ![seq + 1] = "queued"]
        /\ pc' = [pc EXCEPT ![c] = "evict"] /\ pc[c] = "idle"
        /\ UNCHANGED <<toSpawn, subject>>
    BY <1>1 DEF Start, NextId, Goto
  <2>2. \A t \in Threads : pc'[t] \in {"evict", "admit"} <=> lock' = t
    BY <2>1
  <2>3. \A t \in Threads :
          /\ pc'[t] \in {"idle", "check", "blocked", "evict"} => t \in Clients
          /\ toSpawn'[t] # {} => pc'[t] \in {"admit", "spawn", "notify", "pump"} \cup Outcomes
          /\ pc'[t] \in Outcomes => subject'[t] \in JobIds \ toSpawn'[t]
          /\ pc'[t] \in {"check", "blocked"} => subject'[t] \in 1..seq'
    BY <2>1
  <2>4. \A j \in JobIds :
          /\ j > seq' => state'[j] = "absent" /\ pc'[j] = "unborn"
          /\ state'[j] = "queued" => pc'[j] = "unborn"
          /\ \A t \in Threads : j \in toSpawn'[t] => pc'[j] = "unborn"
    BY <2>1
  <2> QED
    BY <2>2, <2>3, <2>4
<1>2. ASSUME NEW c \in Clients, EvictOne(c) PROVE ThreadInv'
  BY <1>2 DEF EvictOne, Goto
<1>3. ASSUME NEW c \in Clients, EvictDone(c) PROVE ThreadInv'
  BY <1>3 DEF EvictDone, Goto
<1>4. ASSUME NEW c \in Clients, Wait(c) PROVE ThreadInv'
  <2>1. PICK k \in 1..seq : subject' = [subject EXCEPT ![c] = k]
    BY <1>4 DEF Wait
  <2>2. /\ pc' = [pc EXCEPT ![c] = "check"] /\ pc[c] = "idle"
        /\ UNCHANGED <<state, seq, lock, toSpawn>>
    BY <1>4 DEF Wait, Goto
  <2> QED
    BY <2>1, <2>2
<1>5. ASSUME NEW c \in Clients, WaitCheck(c) PROVE ThreadInv'
  <2>1. CASE WaitReturn(c)
    BY <1>5, <2>1 DEF WaitCheck, WaitReturn, Goto
  <2>2. CASE Goto(c, "blocked") /\ UNCHANGED subject
    BY <1>5, <2>2 DEF WaitCheck, Goto
  <2> QED
    BY <1>5, <2>1, <2>2 DEF WaitCheck
<1>6. ASSUME NEW c \in Clients, WaitDeadline(c) PROVE ThreadInv'
  BY <1>6 DEF WaitDeadline, WaitReturn, Goto
<1>7. ASSUME NEW t \in Threads, PumpLock(t) PROVE ThreadInv'
  BY <1>7 DEF PumpLock, Goto
<1>8. ASSUME NEW t \in Threads, Admit(t) PROVE ThreadInv'
  <2>1. pc[t] = "admit" /\ UNCHANGED <<seq, lock, pc, subject>>
    BY <1>8 DEF Admit
  <2>2. CASE state[Head(queue)] # "queued"
    BY <1>8, <2>1, <2>2 DEF Admit
  <2>3. CASE state[Head(queue)] = "queued"
    <3>1. PICK j \in JobIds : j = Head(queue)
      BY <1>8, HeadTailProperties DEF Admit
    <3>2. /\ state' = [state EXCEPT ![j] = "running"]
          /\ toSpawn' = [toSpawn EXCEPT ![t] = @ \cup {j}]
          /\ state[j] = "queued"
      BY <1>8, <2>3, <3>1 DEF Admit
    <3> QED
      BY <2>1, <3>1, <3>2
  <2> QED
    BY <2>2, <2>3
<1>9. ASSUME NEW t \in Threads, PumpUnlock(t) PROVE ThreadInv'
  BY <1>9 DEF PumpUnlock, Goto
<1>10. ASSUME NEW t \in Threads, Spawn(t) PROVE ThreadInv'
  <2>1. PICK j \in toSpawn[t] : toSpawn' = [toSpawn EXCEPT ![t] = @ \ {j}]
                                /\ Goto(j, "exec")
    BY <1>10 DEF Spawn
  <2>2. /\ j \in JobIds /\ j \in Threads /\ pc[j] = "unborn"
        /\ pc[t] = "spawn" /\ pc' = [pc EXCEPT ![j] = "exec"] 
        /\ UNCHANGED <<state, seq, lock, subject>>
    BY <1>10, <2>1 DEF Spawn, Goto
  <2>3. state[j] = "running" /\ \A u \in Threads : j \notin toSpawn'[u]
    BY <2>1, <2>2, <1>10 DEF OneOwner, Owns
  <2> QED
    BY SMTT(20), <2>1, <2>2, <2>3
<1>11. ASSUME NEW t \in Threads, SpawnFails(t) PROVE ThreadInv'
  <2>1. PICK j \in toSpawn[t] : /\ toSpawn' = [toSpawn EXCEPT ![t] = @ \ {j}]
                                /\ subject' = [subject EXCEPT ![t] = j]
    BY <1>11 DEF SpawnFails
  <2>2. /\ j \in JobIds /\ pc[t] = "spawn" /\ pc' = [pc EXCEPT ![t] = "failed"] 
        /\ UNCHANGED <<state, seq, lock>>
    BY <1>11, <2>1 DEF SpawnFails, Goto
  <2> QED
    BY <2>1, <2>2
<1>12. ASSUME NEW t \in Threads, PumpReturn(t) PROVE ThreadInv'
  BY <1>12 DEF PumpReturn, Goto
<1>13. ASSUME NEW t \in Threads, Complete(t) PROVE ThreadInv'
  BY <1>13 DEF Complete, Goto
<1>14. ASSUME NEW t \in Threads, NotifyAll(t) PROVE ThreadInv'
  BY <1>14 DEF NotifyAll, Goto
<1>15. ASSUME NEW j \in JobIds, RunJob(j) PROVE ThreadInv'
  BY <1>15 DEF RunJob, Goto
<1>16. CASE UNCHANGED vars
  BY <1>16 DEF vars
<1> QED
  BY <1>1, <1>2, <1>3, <1>4, <1>5, <1>6, <1>7, <1>8, <1>9, <1>10, <1>11, <1>12,
     <1>13, <1>14, <1>15, <1>16
     DEF Next, ClientStep, PumpStep, CompleteStep

-----------------------------------------------------------------------------

LEMMA OwnerInit == Init => OneOwner
  BY JobPoolAssumption DEF Init, OneOwner, Owns, Threads, JobIds, Outcomes

(* A step that neither starts nor ends a job, and hands no job from one    *)
(* thread to another, keeps OneOwner.                                      *)
LEMMA OwnersUnchanged ==
  ASSUME OneOwner,
         \A j \in JobIds : state'[j] = "running" <=> state[j] = "running",
         \A t \in Threads : \A j \in JobIds : Owns(t, j)' <=> Owns(t, j)
  PROVE  OneOwner'
BY DEF OneOwner

LEMMA OwnerStep == TypeOK /\ ThreadInv /\ OneOwner /\ [Next]_vars => OneOwner'
<1> SUFFICES ASSUME TypeOK, ThreadInv, OneOwner, [Next]_vars PROVE OneOwner'
  OBVIOUS
<1> USE JobPoolAssumption DEF TypeOK, ThreadInv, Threads, JobIds, Outcomes
<1>1. ASSUME NEW c \in Clients, Start(c) PROVE OneOwner'
  <2>1. \A u \in Threads : \A k \in JobIds : Owns(u, k)' <=> Owns(u, k)
    BY <1>1 DEF Start, NextId, Owns, Goto
  <2>2. \A k \in JobIds : state'[k] = "running" <=> state[k] = "running"
    BY <1>1 DEF Start, NextId
  <2> QED
    BY <2>1, <2>2, OwnersUnchanged
<1>2. ASSUME NEW c \in Clients, EvictOne(c) PROVE OneOwner'
  <2>1. \A u \in Threads : \A k \in JobIds : Owns(u, k)' <=> Owns(u, k)
    BY <1>2 DEF EvictOne, Owns, Goto
  <2>2. \A k \in JobIds : state'[k] = "running" <=> state[k] = "running"
    <3>1. PICK i \in 1..Len(order) :
            OldestFinished(i) /\ state' = [state EXCEPT ![order[i]] = "absent"]
      BY <1>2 DEF EvictOne
    <3>2. order[i] \in JobIds
      OBVIOUS
    <3> QED
      BY <3>1, <3>2 DEF OldestFinished, FinishedAt
  <2> QED
    BY <2>1, <2>2, OwnersUnchanged
<1>3. ASSUME NEW c \in Clients, EvictDone(c) PROVE OneOwner'
  <2>1. \A u \in Threads : \A k \in JobIds : Owns(u, k)' <=> Owns(u, k)
    BY <1>3 DEF EvictDone, Owns, Goto
  <2>2. \A k \in JobIds : state'[k] = "running" <=> state[k] = "running"
    BY <1>3 DEF EvictDone
  <2> QED
    BY <2>1, <2>2, OwnersUnchanged
<1>4. ASSUME NEW c \in Clients, Wait(c) PROVE OneOwner'
  <2>1. \A u \in Threads : \A k \in JobIds : Owns(u, k)' <=> Owns(u, k)
    BY <1>4 DEF Wait, Owns, Goto
  <2>2. \A k \in JobIds : state'[k] = "running" <=> state[k] = "running"
    BY <1>4 DEF Wait
  <2> QED
    BY <2>1, <2>2, OwnersUnchanged
<1>5. ASSUME NEW c \in Clients, WaitCheck(c) PROVE OneOwner'
  <2>1. \A u \in Threads : \A k \in JobIds : Owns(u, k)' <=> Owns(u, k)
    BY <1>5 DEF WaitCheck, Owns, WaitReturn, Goto
  <2>2. \A k \in JobIds : state'[k] = "running" <=> state[k] = "running"
    BY <1>5 DEF WaitCheck
  <2> QED
    BY <2>1, <2>2, OwnersUnchanged
<1>6. ASSUME NEW c \in Clients, WaitDeadline(c) PROVE OneOwner'
  <2>1. \A u \in Threads : \A k \in JobIds : Owns(u, k)' <=> Owns(u, k)
    BY <1>6 DEF WaitDeadline, Owns, WaitReturn, Goto
  <2>2. \A k \in JobIds : state'[k] = "running" <=> state[k] = "running"
    BY <1>6 DEF WaitDeadline
  <2> QED
    BY <2>1, <2>2, OwnersUnchanged
<1>7. ASSUME NEW t \in Threads, PumpLock(t) PROVE OneOwner'
  <2>1. \A u \in Threads : \A k \in JobIds : Owns(u, k)' <=> Owns(u, k)
    BY <1>7 DEF PumpLock, Owns, Goto
  <2>2. \A k \in JobIds : state'[k] = "running" <=> state[k] = "running"
    BY <1>7 DEF PumpLock
  <2> QED
    BY <2>1, <2>2, OwnersUnchanged
<1>8. ASSUME NEW t \in Threads, Admit(t) PROVE OneOwner'
  <2>1. CASE state[Head(queue)] # "queued"
    BY <1>8, <2>1, OwnersUnchanged DEF Admit, Owns
  <2>2. CASE state[Head(queue)] = "queued"
    <3>1. PICK j \in JobIds : j = Head(queue)
      BY <1>8, HeadTailProperties DEF Admit
    <3>2. /\ state' = [state EXCEPT ![j] = "running"]
          /\ toSpawn' = [toSpawn EXCEPT ![t] = @ \cup {j}]
          /\ state[j] = "queued"
          /\ UNCHANGED <<pc, subject>>
      BY <1>8, <2>2, <3>1 DEF Admit
    <3>3. \A u \in Threads : ~Owns(u, j)
      BY <3>2 DEF OneOwner
    <3>4. \A u \in Threads : \A k \in JobIds :
            Owns(u, k)' <=> Owns(u, k) \/ (u = t /\ k = j)
      BY <3>2 DEF Owns
    <3>5. \A k \in JobIds : state'[k] = "running" <=> state[k] = "running" \/ k = j
      BY <3>2
    <3>6. SUFFICES ASSUME NEW k \in JobIds
                   PROVE /\ state'[k] = "running" <=> \E u \in Threads : Owns(u, k)'
                         /\ \A u, v \in Threads : Owns(u, k)' /\ Owns(v, k)' => u = v
      BY DEF OneOwner
    <3>7. CASE k = j
      BY <3>3, <3>4, <3>5, <3>7
    <3>8. CASE k # j
      BY <3>4, <3>5, <3>8 DEF OneOwner
    <3> QED
      BY <3>7, <3>8
  <2> QED
    BY <2>1, <2>2
<1>9. ASSUME NEW t \in Threads, PumpUnlock(t) PROVE OneOwner'
  <2>1. \A u \in Threads : \A k \in JobIds : Owns(u, k)' <=> Owns(u, k)
    BY <1>9 DEF PumpUnlock, Owns, Goto
  <2>2. \A k \in JobIds : state'[k] = "running" <=> state[k] = "running"
    BY <1>9 DEF PumpUnlock
  <2> QED
    BY <2>1, <2>2, OwnersUnchanged
<1>10. ASSUME NEW t \in Threads, Spawn(t) PROVE OneOwner'
  <2>1. PICK j \in toSpawn[t] : toSpawn' = [toSpawn EXCEPT ![t] = @ \ {j}]
                                /\ Goto(j, "exec")
    BY <1>10 DEF Spawn
  <2>2. /\ j \in JobIds /\ j \in Threads /\ pc[j] = "unborn"
        /\ pc[t] = "spawn" /\ pc' = [pc EXCEPT ![j] = "exec"]
        /\ UNCHANGED <<state, subject>>
    BY <1>10, <2>1 DEF Spawn, Goto
  <2>3. \A u \in Threads : Owns(u, j) => u = t
    BY <2>1, <2>2 DEF OneOwner, Owns
  <2>4. \A u \in Threads : \A k \in JobIds :
          Owns(u, k)' <=> IF k = j THEN u = j ELSE Owns(u, k)
    BY <2>1, <2>2, <2>3 DEF Owns
  <2>5. state'[j] = "running"
    BY <2>1, <2>2 DEF OneOwner, Owns
  <2> QED
    BY <2>2, <2>4, <2>5 DEF OneOwner
<1>11. ASSUME NEW t \in Threads, SpawnFails(t) PROVE OneOwner'
  <2>1. PICK j \in toSpawn[t] : /\ toSpawn' = [toSpawn EXCEPT ![t] = @ \ {j}]
                                /\ subject' = [subject EXCEPT ![t] = j]
    BY <1>11 DEF SpawnFails
  <2>2. /\ j \in JobIds /\ pc[t] = "spawn" /\ pc' = [pc EXCEPT ![t] = "failed"]
        /\ UNCHANGED state
    BY <1>11, <2>1 DEF SpawnFails, Goto
  <2>3. \A u \in Threads : \A k \in JobIds : Owns(u, k)' <=> Owns(u, k)
    BY <2>1, <2>2 DEF Owns
  <2> QED
    BY <2>2, <2>3, OwnersUnchanged
<1>12. ASSUME NEW t \in Threads, PumpReturn(t) PROVE OneOwner'
  <2>1. \A u \in Threads : \A k \in JobIds : Owns(u, k)' <=> Owns(u, k)
    BY <1>12 DEF PumpReturn, Owns, Goto
  <2>2. \A k \in JobIds : state'[k] = "running" <=> state[k] = "running"
    BY <1>12 DEF PumpReturn
  <2> QED
    BY <2>1, <2>2, OwnersUnchanged
<1>13. ASSUME NEW t \in Threads, Complete(t) PROVE OneOwner'
  <2>1. PICK j \in JobIds : j = subject[t]
    BY <1>13 DEF Complete
  <2>2. Owns(t, j) /\ state[j] = "running" /\ j \notin toSpawn[t]
    BY <1>13, <2>1 DEF Complete, OneOwner, Owns
  <2>3. /\ state' = [state EXCEPT ![j] = pc[t]]
        /\ pc' = [pc EXCEPT ![t] = "notify"] /\ pc[t] \in Outcomes
        /\ subject' = [subject EXCEPT ![t] = 0] /\ toSpawn' = toSpawn
    BY <1>13, <2>1, <2>2 DEF Complete, Goto
  <2>4. \A u \in Threads : \A k \in JobIds :
          Owns(u, k)' <=> Owns(u, k) /\ k # j
    BY <2>1, <2>2, <2>3 DEF Owns, OneOwner
  <2>5. \A k \in JobIds : state'[k] = "running" <=> state[k] = "running" /\ k # j
    BY <2>3
  <2>6. \A u \in Threads : Owns(u, j) <=> u = t
    BY <2>2 DEF OneOwner
  <2> QED
    BY ZenonT(30), <2>4, <2>5, <2>6 DEF OneOwner
<1>14. ASSUME NEW t \in Threads, NotifyAll(t) PROVE OneOwner'
  <2>1. \A u \in Threads : \A k \in JobIds : Owns(u, k)' <=> Owns(u, k)
    BY <1>14 DEF NotifyAll, Owns
  <2> QED
    BY <1>14, <2>1, OwnersUnchanged DEF NotifyAll
<1>15. ASSUME NEW j \in JobIds, RunJob(j) PROVE OneOwner'
  <2>1. PICK o \in Outcomes : pc' = [pc EXCEPT ![j] = o]
    BY <1>15 DEF RunJob, Goto
  <2>2. /\ pc[j] = "exec" /\ j \in Threads
        /\ subject' = [subject EXCEPT ![j] = j]
        /\ UNCHANGED <<state, toSpawn>>
    BY <1>15 DEF RunJob
  <2>3. \A u \in Threads : \A k \in JobIds : Owns(u, k)' <=> Owns(u, k)
    BY <2>1, <2>2 DEF Owns
  <2> QED
    BY <2>2, <2>3, OwnersUnchanged
<1>16. CASE UNCHANGED vars
  BY SMTT(20), <1>16 DEF vars, OneOwner, Owns
<1> QED
  BY <1>1, <1>2, <1>3, <1>4, <1>5, <1>6, <1>7, <1>8, <1>9, <1>10, <1>11, <1>12,
     <1>13, <1>14, <1>15, <1>16
     DEF Next, ClientStep, PumpStep, CompleteStep

-----------------------------------------------------------------------------

LEMMA FifoInit == Init => FifoAdmission
  BY DEF Init, FifoAdmission

(* Nothing is queued, admitted or handed an id.                            *)
LEMMA QueueUnchanged ==
  ASSUME TypeOK, FifoAdmission, UNCHANGED <<queue, seq>>,
         \A j \in JobIds : state'[j] = "queued" <=> state[j] = "queued"
  PROVE  FifoAdmission'
<1>1. \A i \in 1..Len(queue) : queue[i]..seq \subseteq JobIds
  BY JobPoolAssumption DEF TypeOK, JobIds
<1> QED
  BY <1>1 DEF FifoAdmission

LEMMA FifoStep ==
  TypeOK /\ ThreadInv /\ OneOwner /\ FifoAdmission /\ [Next]_vars => FifoAdmission'
<1> SUFFICES ASSUME TypeOK, ThreadInv, OneOwner, FifoAdmission, [Next]_vars
             PROVE  FifoAdmission'
  OBVIOUS
<1> USE JobPoolAssumption
<1>1. ASSUME NEW c \in Clients, Start(c) PROVE FifoAdmission'
  <2> DEFINE n == seq + 1
  <2>1. /\ n \in JobIds /\ seq' = n /\ queue' = Append(queue, n)
        /\ state' = [state EXCEPT ![n] = "queued"]
    BY <1>1 DEF Start, NextId, TypeOK, JobIds
  <2>2. /\ Len(queue') = Len(queue) + 1
        /\ queue'[Len(queue) + 1] = n
        /\ \A i \in 1..Len(queue) : queue'[i] = queue[i] /\ queue[i] \in 1..seq
    <3>1. \A i \in 1..Len(queue) : queue[i] \in JobIds /\ state[queue[i]] = "queued"
      BY DEF TypeOK, FifoAdmission
    <3> QED
      BY <2>1, <3>1 DEF TypeOK, ThreadInv, JobIds
  <2>3. state[n] = "absent"
    BY <2>1 DEF ThreadInv, TypeOK, JobIds
  <2> HIDE DEF n
  <2>4. \A j \in JobIds :
          state'[j] = "queued" <=> \E i \in 1..Len(queue') : queue'[i] = j
    <3> SUFFICES ASSUME NEW j \in JobIds
                 PROVE  state'[j] = "queued" <=> \E i \in 1..Len(queue') : queue'[i] = j
      OBVIOUS
    <3>1. CASE j = n
      BY <2>1, <2>2, <3>1 DEF TypeOK
    <3>2. CASE j # n
      <4>1. state'[j] = "queued" <=> \E i \in 1..Len(queue) : queue[i] = j
        BY <2>1, <3>2 DEF TypeOK, FifoAdmission
      <4>2. (\E i \in 1..Len(queue) : queue[i] = j)
              <=> \E i \in 1..Len(queue') : queue'[i] = j
        <5>1. ASSUME NEW i \in 1..Len(queue), queue[i] = j
              PROVE  i \in 1..Len(queue') /\ queue'[i] = j
          BY <2>2, <5>1 DEF TypeOK
        <5>2. ASSUME NEW i \in 1..Len(queue'), queue'[i] = j
              PROVE  i \in 1..Len(queue) /\ queue[i] = j
          BY <2>2, <3>2, <5>2 DEF TypeOK
        <5> QED
          BY <5>1, <5>2
      <4> QED
        BY <4>1, <4>2
    <3> QED
      BY <3>1, <3>2
  <2>5. \A i, k \in 1..Len(queue') : i < k => queue'[i] < queue'[k]
    <3> SUFFICES ASSUME NEW i \in 1..Len(queue'), NEW k \in 1..Len(queue'), i < k
                 PROVE  queue'[i] < queue'[k]
      OBVIOUS
    <3>1. i \in 1..Len(queue) /\ queue'[i] = queue[i] /\ queue[i] \in 1..seq
      BY <2>2 DEF TypeOK
    <3>2. CASE k \in 1..Len(queue)
      BY <2>2, <3>1, <3>2 DEF FifoAdmission
    <3>3. CASE k = Len(queue) + 1
      BY <2>2, <3>1, <3>3 DEF TypeOK, n
    <3> QED
      BY <2>2, <3>2, <3>3 DEF TypeOK
  <2>6. \A i \in 1..Len(queue') : \A j \in queue'[i]..seq' : state'[j] = "queued"
    <3> SUFFICES ASSUME NEW i \in 1..Len(queue'), NEW j \in queue'[i]..seq'
                 PROVE  state'[j] = "queued"
      OBVIOUS
    <3>1. CASE j = n
      BY <2>1, <3>1 DEF TypeOK
    <3>2. CASE j # n
      <4>1. i \in 1..Len(queue) /\ j \in queue[i]..seq
        BY <2>1, <2>2, <3>2 DEF TypeOK, n
      <4>2. j \in JobIds /\ state[j] = "queued"
        BY <2>2, <4>1 DEF TypeOK, FifoAdmission, JobIds
      <4> QED
        BY <2>1, <3>2, <4>2 DEF TypeOK
    <3> QED
      BY <3>1, <3>2
  <2> QED
    BY <2>4, <2>5, <2>6 DEF FifoAdmission
<1>2. ASSUME NEW c \in Clients, EvictOne(c) PROVE FifoAdmission'
  <2>1. PICK i \in 1..Len(order) :
          OldestFinished(i) /\ state' = [state EXCEPT ![order[i]] = "absent"]
    BY <1>2 DEF EvictOne
  <2>2. order[i] \in JobIds
    BY DEF TypeOK
  <2>3. \A j \in JobIds : state'[j] = "queued" <=> state[j] = "queued"
    BY <2>1, <2>2 DEF OldestFinished, FinishedAt, Outcomes, TypeOK
  <2> QED
    BY <1>2, <2>3, QueueUnchanged DEF EvictOne
<1>3. ASSUME NEW t \in Threads, Admit(t) PROVE FifoAdmission'
  <2>1. /\ queue # <<>> /\ queue' = Tail(queue) /\ seq' = seq
        /\ queue \in Seq(JobIds)
    BY <1>3 DEF Admit, TypeOK
  <2>2. /\ Len(queue') = Len(queue) - 1 /\ Len(queue) \in Nat /\ Len(queue) >= 1
        /\ \A i \in 1..Len(queue') : queue'[i] = queue[i+1]
        /\ Head(queue) = queue[1]
        /\ \A i \in 1..Len(queue) : queue[i] \in JobIds
    BY <2>1, HeadTailProperties
  <2>3. state[queue[1]] = "queued" /\ queue[1] \in JobIds
    BY <2>2 DEF FifoAdmission
  <2>4. state' = [state EXCEPT ![queue[1]] = "running"]
    BY <1>3, <2>2, <2>3 DEF Admit
  <2>5. \A i \in 1..Len(queue') : queue'[i] > queue[1] /\ queue'[i] \in JobIds
    <3> SUFFICES ASSUME NEW i \in 1..Len(queue')
                 PROVE  queue'[i] > queue[1] /\ queue'[i] \in JobIds
      OBVIOUS
    <3>1. i + 1 \in 1..Len(queue) /\ 1 \in 1..Len(queue) /\ 1 < i + 1
          /\ queue'[i] = queue[i+1]
      BY <2>2
    <3>2. queue[1] < queue[i+1]
      BY <3>1 DEF FifoAdmission
    <3> QED
      BY <2>2, <3>1, <3>2 DEF JobIds
  <2>6. \A j \in JobIds :
          state'[j] = "queued" <=> \E i \in 1..Len(queue') : queue'[i] = j
    <3> SUFFICES ASSUME NEW j \in JobIds
                 PROVE  state'[j] = "queued" <=> \E i \in 1..Len(queue') : queue'[i] = j
      OBVIOUS
    <3>1. CASE j = queue[1]
      BY <2>3, <2>4, <2>5, <3>1 DEF TypeOK, JobIds
    <3>2. CASE j # queue[1]
      <4>1. state'[j] = "queued" <=> \E i \in 1..Len(queue) : queue[i] = j
        BY <2>3, <2>4, <3>2 DEF TypeOK, FifoAdmission
      <4>2. ASSUME NEW i \in 1..Len(queue), queue[i] = j
            PROVE  i - 1 \in 1..Len(queue') /\ queue'[i-1] = j
        BY <2>2, <3>2, <4>2
      <4>3. ASSUME NEW i \in 1..Len(queue'), queue'[i] = j
            PROVE  i + 1 \in 1..Len(queue) /\ queue[i+1] = j
        BY <2>2, <4>3
      <4> QED
        BY <4>1, <4>2, <4>3
    <3> QED
      BY <3>1, <3>2
  <2>7. \A i, k \in 1..Len(queue') : i < k => queue'[i] < queue'[k]
    <3> SUFFICES ASSUME NEW i \in 1..Len(queue'), NEW k \in 1..Len(queue'), i < k
                 PROVE  queue'[i] < queue'[k]
      OBVIOUS
    <3>1. i + 1 \in 1..Len(queue) /\ k + 1 \in 1..Len(queue) /\ i + 1 < k + 1
      BY <2>2
    <3> QED
      BY <2>2, <3>1 DEF FifoAdmission
  <2>8. \A i \in 1..Len(queue') : \A j \in queue'[i]..seq' : state'[j] = "queued"
    <3> SUFFICES ASSUME NEW i \in 1..Len(queue'), NEW j \in queue'[i]..seq'
                 PROVE  state'[j] = "queued"
      OBVIOUS
    <3>1. i + 1 \in 1..Len(queue) /\ j \in queue[i+1]..seq
      BY <2>1, <2>2
    <3>2. state[j] = "queued" /\ j \in JobIds /\ j # queue[1]
      BY <2>2, <2>5, <3>1 DEF FifoAdmission, TypeOK, JobIds
    <3> QED
      BY <2>3, <2>4, <3>2 DEF TypeOK
  <2> QED
    BY <2>6, <2>7, <2>8 DEF FifoAdmission
<1>4. ASSUME NEW t \in Threads, Complete(t) PROVE FifoAdmission'
  <2>1. PICK j \in JobIds : j = subject[t]
    BY <1>4 DEF Complete, ThreadInv
  <2>2. state[j] = "running" /\ pc[t] \in Outcomes
    BY <1>4, <2>1 DEF Complete, OneOwner, Owns
  <2>3. state' = [state EXCEPT ![j] = pc[t]]
    BY <1>4, <2>1, <2>2 DEF Complete
  <2>4. \A k \in JobIds : state'[k] = "queued" <=> state[k] = "queued"
    BY <2>2, <2>3 DEF TypeOK, Outcomes
  <2> QED
    BY <1>4, <2>4, QueueUnchanged DEF Complete
<1>5. CASE UNCHANGED <<state, queue, seq>>
  BY <1>5, QueueUnchanged
<1> QED
  BY <1>1, <1>2, <1>3, <1>4, <1>5
     DEF Next, ClientStep, PumpStep, CompleteStep, EvictDone, Wait, WaitCheck,
         WaitDeadline, PumpLock, PumpUnlock, Spawn, SpawnFails, PumpReturn,
         NotifyAll, RunJob, vars

-----------------------------------------------------------------------------

(* The invariant of the pool; each conjunct needs the ones before it.      *)
PoolInv == TypeOK /\ ThreadInv /\ OneOwner /\ FifoAdmission

LEMMA PoolInvariant == Spec => []PoolInv
<1>1. Init => PoolInv
  BY TypeInit, ThreadInit, OwnerInit, FifoInit DEF PoolInv
<1>2. PoolInv /\ [Next]_vars => PoolInv'
  BY TypeStep, ThreadStep, OwnerStep, FifoStep DEF PoolInv
<1> QED
  BY <1>1, <1>2, PTL DEF Spec

(* Every running job has exactly one thread that will complete it.         *)
THEOREM JobPoolOneOwner == Spec => []OneOwner
  BY PoolInvariant, PTL DEF PoolInv

(* Jobs are admitted in submission order.                                  *)
THEOREM JobPoolFifo == Spec => []FifoAdmission
  BY PoolInvariant, PTL DEF PoolInv

-----------------------------------------------------------------------------

LEMMA RunningJobsFinite ==
  IsFiniteSet(RunningJobs) /\ Cardinality(RunningJobs) \in Nat
<1>1. IsFiniteSet(JobIds)
  BY JobPoolAssumption, FS_Interval DEF JobIds
<1>2. RunningJobs \subseteq JobIds
  BY DEF RunningJobs
<1> QED
  BY <1>1, <1>2, FS_Subset, FS_CardinalityType

LEMMA SlotStep == PoolInv /\ SlotAccounting /\ [Next]_vars => SlotAccounting'
<1> SUFFICES ASSUME PoolInv, SlotAccounting, [Next]_vars PROVE SlotAccounting'
  OBVIOUS
<1> USE JobPoolAssumption DEF PoolInv
<1>1. ASSUME UNCHANGED running,
             \A j \in JobIds : state'[j] = "running" <=> state[j] = "running"
      PROVE  SlotAccounting'
  BY <1>1 DEF SlotAccounting, RunningJobs
<1>2. ASSUME NEW c \in Clients, Start(c) PROVE SlotAccounting'
  <2>1. seq + 1 \in JobIds /\ state[seq + 1] = "absent"
    BY <1>2 DEF Start, NextId, TypeOK, ThreadInv, JobIds
  <2> QED
    BY <1>1, <1>2, <2>1 DEF Start, NextId, TypeOK
<1>3. ASSUME NEW c \in Clients, EvictOne(c) PROVE SlotAccounting'
  <2>1. PICK i \in 1..Len(order) :
          OldestFinished(i) /\ state' = [state EXCEPT ![order[i]] = "absent"]
    BY <1>3 DEF EvictOne
  <2>2. order[i] \in JobIds
    BY DEF TypeOK
  <2>3. \A j \in JobIds : state'[j] = "running" <=> state[j] = "running"
    BY <2>1, <2>2 DEF OldestFinished, FinishedAt, Outcomes, TypeOK
  <2> QED
    BY <1>1, <1>3, <2>3 DEF EvictOne
<1>4. ASSUME NEW t \in Threads, Admit(t) PROVE SlotAccounting'
  <2>1. CASE state[Head(queue)] # "queued"
    BY <1>1, <1>4, <2>1 DEF Admit
  <2>2. CASE state[Head(queue)] = "queued"
    <3>1. PICK j \in JobIds : j = Head(queue)
      BY <1>4, HeadTailProperties DEF Admit, TypeOK
    <3>2. /\ state' = [state EXCEPT ![j] = "running"]
          /\ running' = running + 1 /\ running < MaxConcurrent
          /\ state[j] = "queued"
      BY <1>4, <2>2, <3>1 DEF Admit, SlotFree
    <3>3. RunningJobs' = RunningJobs \cup {j} /\ j \notin RunningJobs
      BY <3>2 DEF RunningJobs, TypeOK
    <3>4. Cardinality(RunningJobs') = Cardinality(RunningJobs) + 1
      BY <3>3, RunningJobsFinite, FS_AddElement
    <3> QED
      BY <3>2, <3>4 DEF SlotAccounting, TypeOK
  <2> QED
    BY <2>1, <2>2
<1>5. ASSUME NEW t \in Threads, Complete(t) PROVE SlotAccounting'
  <2>1. PICK j \in JobIds : j = subject[t]
    BY <1>5 DEF Complete, ThreadInv
  <2>2. state[j] = "running" /\ pc[t] \in Outcomes
    BY <1>5, <2>1 DEF Complete, OneOwner, Owns
  <2>3. state' = [state EXCEPT ![j] = pc[t]] /\ running' = SaturatingDec(running)
    BY <1>5, <2>1, <2>2 DEF Complete
  <2>4. RunningJobs' = RunningJobs \ {j} /\ j \in RunningJobs
    BY <2>2, <2>3 DEF RunningJobs, TypeOK, Outcomes
  <2>5. Cardinality(RunningJobs') = Cardinality(RunningJobs) - 1
    BY <2>4, RunningJobsFinite, FS_RemoveElement
  <2>6. RunningJobs # {} => Cardinality(RunningJobs) > 0
    BY RunningJobsFinite, FS_EmptySet
  <2> QED
    BY <2>3, <2>4, <2>5, <2>6, RunningJobsFinite DEF SlotAccounting, SaturatingDec
<1>6. CASE UNCHANGED <<state, running>>
  BY <1>1, <1>6
<1> QED
  BY <1>2, <1>3, <1>4, <1>5, <1>6
     DEF Next, ClientStep, PumpStep, CompleteStep, EvictDone, Wait, WaitCheck,
         WaitDeadline, PumpLock, PumpUnlock, Spawn, SpawnFails, PumpReturn,
         NotifyAll, RunJob, vars

(* The slot counter counts exactly the running records and stays in cap.   *)
THEOREM JobPoolSlots == Spec => []SlotAccounting
<1>1. Init => SlotAccounting
  <2>1. ASSUME Init PROVE RunningJobs = {} /\ running = 0
    BY <2>1 DEF Init, RunningJobs
  <2> QED
    BY <2>1, FS_EmptySet, JobPoolAssumption DEF SlotAccounting
<1> QED
  BY <1>1, SlotStep, PoolInvariant, PTL DEF Spec

(* No more commands execute at once than the cap allows.                   *)
THEOREM JobPoolCommandsBounded == Spec => []CommandsBounded
<1>1. PoolInv /\ SlotAccounting => CommandsBounded
  <2> SUFFICES ASSUME PoolInv, SlotAccounting PROVE CommandsBounded
    OBVIOUS
  <2> DEFINE Executing == {j \in JobIds : pc[j] = "exec"}
  <2>1. Executing \subseteq RunningJobs
    BY DEF PoolInv, OneOwner, Owns, RunningJobs, Threads
  <2>2. Cardinality(Executing) <= Cardinality(RunningJobs) /\ Cardinality(Executing) \in Nat
    BY <2>1, RunningJobsFinite, FS_Subset, FS_CardinalityType
  <2> QED
    BY <2>2, RunningJobsFinite, JobPoolAssumption DEF SlotAccounting, CommandsBounded
<1> QED
  BY <1>1, JobPoolSlots, PoolInvariant, PTL

-----------------------------------------------------------------------------

LEMMA IdleSlotStep == PoolInv /\ NoIdleSlot /\ [Next]_vars => NoIdleSlot'
<1> SUFFICES ASSUME PoolInv, NoIdleSlot, [Next]_vars, (SlotFree /\ queue # <<>>)'
             PROVE  PumpComing'
  BY DEF NoIdleSlot
<1> USE JobPoolAssumption DEF PoolInv, TypeOK, Threads, SlotFree, PumpComing
<1>1. ASSUME NEW t \in Threads, pc'[t] \in {"evict", "notify", "pump", "admit"}
      PROVE  PumpComing'
  BY <1>1
<1>2. ASSUME NEW c \in Clients, Start(c) \/ EvictDone(c) \/ EvictOne(c)
      PROVE  PumpComing'
  BY <1>1, <1>2 DEF Start, NextId, EvictDone, EvictOne, Goto
<1>3. ASSUME NEW t \in Threads, PumpLock(t) \/ Admit(t) \/ CompleteStep(t)
      PROVE  PumpComing'
  BY <1>1, <1>3 DEF PumpLock, Admit, CompleteStep, Complete, NotifyAll, Goto
<1>4. ASSUME NEW t \in Threads, PumpUnlock(t) PROVE PumpComing'
  BY <1>4 DEF PumpUnlock
<1>5. ASSUME UNCHANGED <<running, queue>>,
             \A t \in Threads : pc[t] \in {"evict", "notify", "pump", "admit"}
                                  => pc'[t] = pc[t]
      PROVE  PumpComing'
  BY <1>1, <1>5 DEF NoIdleSlot
<1>6. ASSUME NEW c \in Clients, Wait(c) \/ WaitCheck(c) \/ WaitDeadline(c)
      PROVE  PumpComing'
  BY <1>5, <1>6 DEF Wait, WaitCheck, WaitDeadline, WaitReturn, Goto
<1>7. ASSUME NEW t \in Threads, Spawn(t) PROVE PumpComing'
  BY <1>5, <1>7 DEF Spawn, Goto, ThreadInv
<1>8. ASSUME NEW t \in Threads, SpawnFails(t) \/ PumpReturn(t) PROVE PumpComing'
  BY <1>5, <1>8 DEF SpawnFails, PumpReturn, Goto
<1>9. ASSUME NEW j \in JobIds, RunJob(j) PROVE PumpComing'
  BY <1>5, <1>9 DEF RunJob, Goto
<1>10. CASE UNCHANGED vars
  BY <1>5, <1>10 DEF vars
<1> QED
  BY <1>2, <1>3, <1>4, <1>6, <1>7, <1>8, <1>9, <1>10 DEF Next, ClientStep, PumpStep

(* A job never waits beside a free slot with nobody about to pump.         *)
THEOREM JobPoolNoIdleSlot == Spec => []NoIdleSlot
<1>1. Init => NoIdleSlot
  BY DEF Init, NoIdleSlot
<1> QED
  BY <1>1, IdleSlotStep, PoolInvariant, PTL DEF Spec

LEMMA WakeupStep == PoolInv /\ NoLostWakeup /\ [Next]_vars => NoLostWakeup'
<1> SUFFICES ASSUME PoolInv, NoLostWakeup, [Next]_vars,
                    NEW w \in Clients, pc'[w] = "blocked"
             PROVE  \/ state'[subject'[w]] \in {"queued", "running"}
                    \/ \E t \in Threads : pc'[t] = "notify"
  BY DEF NoLostWakeup
<1> DEFINE Goal == \/ state'[subject'[w]] \in {"queued", "running"}
                   \/ \E t \in Threads : pc'[t] = "notify"
<1> USE JobPoolAssumption DEF PoolInv, TypeOK, Threads
<1>1. ASSUME NEW t \in Threads, pc'[t] = "notify" PROVE Goal
  BY <1>1
<1>2. ASSUME pc[w] = "blocked", subject'[w] = subject[w],
             state[subject[w]] \in {"queued", "running"}
                => state'[subject[w]] \in {"queued", "running"},
             \A t \in Threads : pc[t] = "notify" => pc'[t] = "notify"
      PROVE  Goal
  BY <1>2 DEF NoLostWakeup
<1> HIDE DEF Goal
<1>3. ASSUME NEW c \in Clients, Start(c) PROVE Goal
  <2>1. pc[w] = "blocked" /\ subject[w] \in 1..seq
    BY <1>3 DEF Start, NextId, Goto, ThreadInv
  <2> QED
    BY <1>2, <1>3, <2>1 DEF Start, NextId, Goto
<1>4. ASSUME NEW c \in Clients, EvictOne(c) PROVE Goal
  <2>1. PICK i \in 1..Len(order) :
          OldestFinished(i) /\ state' = [state EXCEPT ![order[i]] = "absent"]
    BY <1>4 DEF EvictOne
  <2> QED
    BY <1>2, <1>4, <2>1 DEF EvictOne, OldestFinished, FinishedAt, Outcomes
<1>5. ASSUME NEW c \in Clients, EvictDone(c) \/ Wait(c) \/ WaitDeadline(c)
      PROVE  Goal
  BY <1>2, <1>5 DEF EvictDone, Wait, WaitDeadline, WaitReturn, Goto
<1>6. ASSUME NEW c \in Clients, WaitCheck(c) PROVE Goal
  <2>1. CASE w = c
    BY <1>6, <2>1 DEF WaitCheck, WaitReturn, Goto, Goal
  <2>2. CASE w # c
    BY <1>2, <1>6, <2>2 DEF WaitCheck, WaitReturn, Goto
  <2> QED
    BY <2>1, <2>2
<1>7. ASSUME NEW t \in Threads, PumpLock(t) \/ PumpUnlock(t) \/ PumpReturn(t)
      PROVE  Goal
  BY <1>2, <1>7 DEF PumpLock, PumpUnlock, PumpReturn, Goto
<1>8. ASSUME NEW t \in Threads, Admit(t) PROVE Goal
  <2>1. Head(queue) \in JobIds
    BY <1>8, HeadTailProperties DEF Admit
  <2> QED
    <3>1. UNCHANGED <<pc, subject>>
      BY <1>8 DEF Admit
    <3>2. state' = state \/ state' = [state EXCEPT ![Head(queue)] = "running"]
      BY <1>8 DEF Admit
    <3>3. state[subject[w]] \in {"queued", "running"}
            => state'[subject[w]] \in {"queued", "running"}
      <4>1. CASE subject[w] \in JobIds
        BY <2>1, <3>2, <4>1
      <4>2. CASE subject[w] \notin JobIds
        BY <3>1, <4>2 DEF ThreadInv, JobIds
      <4> QED
        BY <4>1, <4>2
    <3> QED
      BY <1>2, <3>1, <3>3
<1>9. ASSUME NEW t \in Threads, Spawn(t) PROVE Goal
  BY <1>2, <1>9 DEF Spawn, Goto, ThreadInv
<1>10. ASSUME NEW t \in Threads, SpawnFails(t) PROVE Goal
  BY <1>2, <1>10 DEF SpawnFails, Goto
<1>11. ASSUME NEW t \in Threads, Complete(t) PROVE Goal
  BY <1>1, <1>11 DEF Complete, Goto
<1>12. ASSUME NEW t \in Threads, NotifyAll(t) PROVE Goal
  BY <1>12 DEF NotifyAll
<1>13. ASSUME NEW j \in JobIds, RunJob(j) PROVE Goal
  BY <1>2, <1>13 DEF RunJob, Goto, ThreadInv, Outcomes
<1>14. CASE UNCHANGED vars
  <2>1. UNCHANGED <<state, pc, subject>>
    BY <1>14 DEF vars
  <2> QED
    BY <1>2, <2>1 DEF Goal
<1> QED
  BY <1>3, <1>4, <1>5, <1>6, <1>7, <1>8, <1>9, <1>10, <1>11, <1>12, <1>13, <1>14
     DEF Next, ClientStep, PumpStep, CompleteStep, Goal

(* A waiter is never asleep on a finished job with no notification due.    *)
THEOREM JobPoolNoLostWakeup == Spec => []NoLostWakeup
<1>1. Init => NoLostWakeup
  BY JobPoolAssumption DEF Init, NoLostWakeup, Threads
<1> QED
  BY <1>1, WakeupStep, PoolInvariant, PTL DEF Spec

-----------------------------------------------------------------------------

(* The refinement mapping of JobPool!Service.                              *)
Phase == [j \in JobIds |-> IF j > seq THEN "new"
                           ELSE IF state[j] = "absent" THEN "forgotten"
                           ELSE state[j]]

LEMMA PhaseUnchanged ==
  ASSUME UNCHANGED <<state, seq>> PROVE Phase' = Phase
BY DEF Phase

(* Each step of the pool is a step of the service, or leaves it alone.     *)
LEMMA ServiceStep ==
  PoolInv /\ SlotAccounting /\ [Next]_vars => [Service!Next]_Phase
<1> SUFFICES ASSUME PoolInv, SlotAccounting, [Next]_vars
             PROVE  Service!Next \/ Phase' = Phase
  OBVIOUS
<1> USE JobPoolAssumption DEF PoolInv
<1>1. ASSUME NEW c \in Clients, Start(c) PROVE Service!Next
  <2>1. PICK n \in JobIds : n = seq + 1
    BY <1>1 DEF Start, NextId, TypeOK, JobIds
  <2>2. /\ state' = [state EXCEPT ![n] = "queued"]
        /\ seq' = n
    BY <1>1, <2>1 DEF Start, NextId
  <2>3. Phase[n] = "new" /\ \A i \in 1..(n-1) : Phase[i] # "new"
    <3>1. n > seq
      BY <2>1 DEF TypeOK, JobIds
    <3>2. ASSUME NEW i \in 1..(n-1) PROVE i \in JobIds /\ ~(i > seq)
      BY <2>1 DEF TypeOK, JobIds
    <3>3. \A i \in JobIds : state[i] # "new"
      BY DEF TypeOK, States, Outcomes
    <3>4. \A i \in 1..(n-1) : Phase[i] = IF state[i] = "absent" THEN "forgotten" ELSE state[i]
      BY <3>2 DEF Phase
    <3> QED
      BY <3>1, <3>2, <3>3, <3>4 DEF Phase
  <2>4. Phase' = [Phase EXCEPT ![n] = "queued"]
    <3>1. \A k \in JobIds : k > seq' <=> (k > seq /\ k # n)
      BY <2>1, <2>2 DEF TypeOK, JobIds
    <3>2. \A k \in JobIds : Phase'[k] = IF k = n THEN "queued" ELSE Phase[k]
      BY <2>1, <2>2, <3>1 DEF Phase, TypeOK, JobIds
    <3> QED
      BY <3>2 DEF Phase
  <2>5. Service!Submit(n)
    BY <2>3, <2>4 DEF Service!Submit, Phase
  <2> QED
    BY <2>5 DEF Service!Next, Service!JobIds, JobIds
<1>2. ASSUME NEW c \in Clients, EvictOne(c) PROVE Service!Next
  <2>1. PICK i \in 1..Len(order) :
          OldestFinished(i) /\ state' = [state EXCEPT ![order[i]] = "absent"]
    BY <1>2 DEF EvictOne
  <2>2. PICK j \in JobIds : j = order[i]
    BY DEF TypeOK
  <2>3. /\ state[j] \in Outcomes /\ state' = [state EXCEPT ![j] = "absent"]
        /\ seq' = seq
    BY <1>2, <2>1, <2>2 DEF EvictOne, OldestFinished, FinishedAt
  <2>4. ~(j > seq)
    BY <2>3 DEF ThreadInv, Outcomes
  <2>5. Phase[j] \in Outcomes /\ Phase' = [Phase EXCEPT ![j] = "forgotten"]
    BY <2>3, <2>4 DEF Phase, TypeOK, Outcomes
  <2>6. Service!Forget(j)
    BY <2>5 DEF Service!Forget, Service!Outcomes, Outcomes, Phase
  <2> QED
    BY <2>6 DEF Service!Next, Service!JobIds, JobIds
<1>3. ASSUME NEW t \in Threads, Admit(t) PROVE Service!Next \/ Phase' = Phase
  <2>1. CASE state[Head(queue)] # "queued"
    BY <1>3, <2>1, PhaseUnchanged DEF Admit
  <2>2. CASE state[Head(queue)] = "queued"
    <3>1. /\ queue \in Seq(JobIds) /\ queue # <<>> /\ Len(queue) \in Nat /\ Len(queue) >= 1
          /\ Head(queue) = queue[1]
      BY <1>3 DEF Admit, TypeOK
    <3>2. PICK j \in JobIds : j = queue[1]
      BY <3>1
    <3>3. /\ state' = [state EXCEPT ![j] = "running"] /\ seq' = seq
          /\ state[j] = "queued" /\ running < MaxConcurrent /\ j <= seq
      BY <1>3, <2>2, <3>1, <3>2 DEF Admit, SlotFree, ThreadInv, JobIds, TypeOK
    <3>4. \A i \in 1..(j-1) : state[i] # "queued"
      <4> SUFFICES ASSUME NEW i \in 1..(j-1), state[i] = "queued" PROVE FALSE
        OBVIOUS
      <4>1. PICK k \in 1..Len(queue) : queue[k] = i
        BY DEF FifoAdmission, JobIds
      <4>2. k # 1 => queue[1] < queue[k]
        BY <3>1, <4>1 DEF FifoAdmission
      <4> QED
        BY <3>2, <4>1, <4>2 DEF JobIds
    <3>5. {k \in JobIds : Phase[k] = "running"} = RunningJobs
      BY DEF Phase, RunningJobs, ThreadInv, TypeOK
    <3>6. Service!Admit(j)
      <4>1. Cardinality({k \in JobIds : Phase[k] = "running"}) < MaxConcurrent
        BY <3>3, <3>5 DEF SlotAccounting
      <4>2. Phase[j] = "queued" /\ \A i \in 1..(j-1) : Phase[i] # "queued"
        BY <3>3, <3>4 DEF Phase, TypeOK, JobIds
      <4>3. Phase' = [Phase EXCEPT ![j] = "running"]
        <5>1. ~(j > seq)
          BY <3>3 DEF TypeOK, JobIds
        <5> QED
          BY <3>3, <5>1 DEF Phase, TypeOK
      <4> QED
        <5>1. Cardinality(Service!Running) < MaxConcurrent
          BY <4>1 DEF Service!Running, Service!JobIds, JobIds, Phase
        <5>2. Service!Cardinality(Service!Running) < MaxConcurrent
          BY <5>1, Zenon DEF Service!Cardinality, Cardinality
        <5> QED
          BY <4>2, <4>3, <5>2 DEF Service!Admit, Phase
    <3> QED
      BY <3>6 DEF Service!Next, Service!JobIds, JobIds
  <2> QED
    BY <2>1, <2>2
<1>4. ASSUME NEW t \in Threads, Complete(t) PROVE Service!Next
  <2>1. PICK j \in JobIds : j = subject[t]
    BY <1>4 DEF Complete, ThreadInv
  <2>2. state[j] = "running" /\ pc[t] \in Outcomes
    BY <1>4, <2>1 DEF Complete, OneOwner, Owns
  <2>3. PICK o \in Outcomes : o = pc[t]
    BY <2>2
  <2>4. state' = [state EXCEPT ![j] = o] /\ seq' = seq
    BY <1>4, <2>1, <2>2, <2>3 DEF Complete
  <2>5. ~(j > seq)
    BY <2>2 DEF ThreadInv
  <2>6. Phase[j] = "running" /\ Phase' = [Phase EXCEPT ![j] = o]
    BY <2>2, <2>4, <2>5 DEF Phase, TypeOK, Outcomes
  <2>7. Service!Finish(j, o)
    BY <2>6 DEF Service!Finish, Phase
  <2> QED
    BY <2>7 DEF Service!Next, Service!JobIds, Service!Outcomes, JobIds, Outcomes
<1>5. CASE UNCHANGED <<state, seq>>
  BY <1>5, PhaseUnchanged
<1> QED
  BY <1>1, <1>2, <1>3, <1>4, <1>5
     DEF Next, ClientStep, PumpStep, CompleteStep, EvictDone, Wait, WaitCheck,
         WaitDeadline, PumpLock, PumpUnlock, Spawn, SpawnFails, PumpReturn,
         NotifyAll, RunJob, vars

(* The pool implements the job service (safety; liveness is left to TLC).  *)
THEOREM JobPoolImplementsService == Spec => ImplementsService
<1>1. Init => Service!Init
  BY JobPoolAssumption DEF Init, Service!Init, Service!JobIds, JobIds
<1> QED
  BY <1>1, ServiceStep, JobPoolSlots, PoolInvariant, PTL
     DEF Spec, ImplementsService, Service!Spec, Phase

=============================================================================
