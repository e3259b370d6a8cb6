----------------------- MODULE WorktreeLivenessProofs -----------------------
(***************************************************************************)
(* Proofs about WorktreeLiveness for any processes and any number of       *)
(* starts.  Everything rests on who may touch the disk: a sweep holds the  *)
(* exclusive lock, so nobody owns the worktree; an eviction holds only its *)
(* own claim, so every other owner is undercut by it and `torn` is set.    *)
(***************************************************************************)
EXTENDS WorktreeLiveness, TLAPS

(* A session is only ever used between commands.                           *)
SessionServing == \A p \in Procs : session[p] => pc[p] = "serving"

(* The two kinds of lock exclude each other.                               *)
LocksExclude == reclaimer = Nobody \/ claims = {}

(* An owner beside an eviction has lost its worktree to it.                *)
EvictionUndercuts ==
  \A p, q \in Procs : p # q /\ Evicting(q) /\ p \in claims => p \in undercut

Removing(p) == pc[p] \in {"removeDir", "finishRemove"}

(* One process at a time removes the directory, and git does not know the  *)
(* worktree while it does: an eviction removes only what it has pruned     *)
(* itself, and registering needs the directory gone.                       *)
RemovesAlone ==
  /\ \A p, q \in Procs : Removing(p) /\ Removing(q) => p = q
  /\ \A p \in Procs : Removing(p) => ~registered /\ tree # "none"
  /\ \A p \in Procs : pc[p] = "finishRemove" =>
       tree \in {"gutted", "bare"} /\ "uncommitted" \notin work

AuthorStamped == author # Nobody => sentinel # "none"

LockInv ==
  /\ TypeOK /\ LocksHeld
  /\ SessionServing /\ LocksExclude /\ EvictionUndercuts
  /\ RemovesAlone /\ AuthorStamped

-----------------------------------------------------------------------------
(* What is on disk as long as `torn` is not set.                           *)

NoTeardown == \A p \in Procs : pc[p] \notin Teardown

(* Evictions that meet an owner set `torn`.                                *)
TornRecords ==
  /\ undercut # {} => torn
  /\ \A p, q \in Procs : p # q /\ Evicting(q) /\ p \in claims => torn

(* Outside a teardown the worktree is absent, or complete but for a        *)
(* checkout under way.                                                     *)
WholeOrAbsent ==
  /\ tree # "none" => tree \in {"partial", "full"} /\ registered /\ branch
  /\ registered \/ branch => tree # "none" \/ \E p \in Procs : pc[p] = "mkdir"

CreatingPhases ==
  /\ \A p \in Procs : pc[p] = "mkdir" => registered /\ branch
  /\ \A p \in Procs : pc[p] = "checkout" => tree # "none"
  /\ tree = "partial" => \E p \in Procs : pc[p] = "checkout"

TeardownPhases ==
  \A p \in Procs :
    /\ pc[p] = "prune" =>
         \/ tree = "full" /\ registered /\ branch /\ named[p]
         \/ tree = "none" /\ ~registered /\ ~branch
    /\ Removing(p) => branch /\ named[p]
    /\ pc[p] = "deleteBranch" => /\ tree = "none" /\ ~registered
                                 /\ branch => named[p]

DiskInv ==
  /\ TornRecords
  /\ ~torn => /\ NoTeardown => WholeOrAbsent
              /\ CreatingPhases
              /\ TeardownPhases

IInv == LockInv /\ SessionsKeepWorktree /\ DiskInv

-----------------------------------------------------------------------------
(* Nothing is on disk and no process runs.                                 *)
LEMMA InitInv == Init => IInv
<1> SUFFICES ASSUME Init PROVE IInv
  OBVIOUS
<1> USE WorktreeAssumption DEF Init
<1>1. TypeOK
  <2>1. session \in [Procs -> BOOLEAN] /\ named \in [Procs -> BOOLEAN]
    BY Zenon
  <2>2. /\ pc \in [Procs -> {"down", "serving", "claim"} \cup Sweep \cup Teardown \cup Creating]
        /\ idle \in [Procs -> Ages]
        /\ mode \in [Procs -> {"sweep", "meta", "evict"}]
    BY DEF Ages
  <2>3. starts \in 0..MaxStarts
    OBVIOUS
  <2> QED
    BY <2>1, <2>2, <2>3 DEF TypeOK, Ages, Trees
<1>2. LocksHeld /\ SessionServing /\ LocksExclude /\ EvictionUndercuts
  BY DEF LocksHeld, SessionServing, LocksExclude, EvictionUndercuts, InUse,
         Evicting, Sweeping, Creating, Teardown
<1>3. RemovesAlone /\ AuthorStamped
  BY DEF RemovesAlone, AuthorStamped, Removing
<1>4. SessionsKeepWorktree
  BY DEF SessionsKeepWorktree
<1>5. DiskInv
  BY DEF DiskInv, TornRecords, WholeOrAbsent, CreatingPhases, TeardownPhases,
         Removing
<1> QED
  BY <1>1, <1>2, <1>3, <1>4, <1>5 DEF IInv, LockInv

(* Types, and what cannot be on disk without a directory or a branch.      *)
LEMMA TypeStep == LockInv /\ [Next]_vars => TypeOK'
<1> SUFFICES ASSUME LockInv, [Next]_vars PROVE TypeOK'
  OBVIOUS
<1> USE WorktreeAssumption DEF LockInv, TypeOK, RemovesAlone, AuthorStamped,
          Ages, Trees, Sweep, Creating, Teardown, Goto, disk, locks, memory,
          history
<1>1. ASSUME NEW p \in Procs, Launch(p) PROVE TypeOK'
  BY <1>1 DEF Launch
<1>2. ASSUME NEW p \in Procs, Scan(p) PROVE TypeOK'
  BY <1>2 DEF Scan
<1>3. ASSUME NEW p \in Procs, ScanMeta(p) PROVE TypeOK'
  BY <1>3 DEF ScanMeta
<1>4. ASSUME NEW p \in Procs, TryReclaim(p) PROVE TypeOK'
  BY ZenonT(30), <1>4 DEF TryReclaim, LockFree, BranchReadable, Openable
<1>5. ASSUME NEW p \in Procs, Prune(p) PROVE TypeOK'
  BY <1>5 DEF Prune
<1>6. ASSUME NEW p \in Procs, RemoveSome(p) PROVE TypeOK'
  BY <1>6 DEF RemoveSome
<1>7. ASSUME NEW p \in Procs, RemoveRest(p) PROVE TypeOK'
  BY <1>7 DEF RemoveRest
<1>8. ASSUME NEW p \in Procs, DeleteBranch(p) PROVE TypeOK'
  BY <1>8 DEF DeleteBranch, EndTeardown, ReleaseLock, DeletesBranch
<1>9. ASSUME NEW p \in Procs, Evict(p) PROVE TypeOK'
  BY ZenonT(30), <1>9 DEF Evict, DropSession
<1>10. ASSUME NEW p \in Procs, UseBegin(p) PROVE TypeOK'
  BY <1>10 DEF UseBegin, DropSession
<1>11. ASSUME NEW p \in Procs, UseClaim(p) PROVE TypeOK'
  BY <1>11 DEF UseClaim
<1>12. ASSUME NEW p \in Procs, UseCreate(p) PROVE TypeOK'
  BY <1>12 DEF UseCreate, FailUse, Openable
<1>13. ASSUME NEW p \in Procs, UseMkdir(p) PROVE TypeOK'
  <2>1. CASE tree = "none"
    BY <1>13, <2>1 DEF UseMkdir, FailUse
  <2>2. CASE tree # "none"
    BY <1>13, <2>2 DEF UseMkdir, FailUse
  <2> QED
    BY <2>1, <2>2
<1>14. ASSUME NEW p \in Procs, UseCheckout(p) PROVE TypeOK'
  BY <1>14 DEF UseCheckout, FailUse, Openable
<1>15. ASSUME NEW p \in Procs, UseAttach(p) PROVE TypeOK'
  BY <1>15 DEF UseAttach, Touch, Openable
<1>16. ASSUME NEW p \in Procs, UseFails(p) PROVE TypeOK'
  BY <1>16 DEF UseFails, FailUse
<1>17. ASSUME NEW p \in Procs, Command(p) PROVE TypeOK'
  BY <1>17 DEF Command, Touch, Openable
<1>18. ASSUME NEW p \in Procs, Exit(p) PROVE TypeOK'
  BY <1>18 DEF Exit, DropSession, EndTeardown
<1>19. ASSUME NEW p \in Procs, AgeSession(p) PROVE TypeOK'
  BY <1>19 DEF AgeSession, Older
<1>20. CASE AgeSentinel
  BY <1>20 DEF AgeSentinel, Older
<1>21. CASE AgeTree
  BY <1>21 DEF AgeTree
<1>22. CASE UNCHANGED vars
  BY <1>22 DEF vars
<1> QED
    BY <1>1, <1>2, <1>3, <1>4, <1>5, <1>6, <1>7, <1>8, <1>9, <1>10, <1>11,
     <1>12, <1>13, <1>14, <1>15, <1>16, <1>17, <1>18, <1>19, <1>20, <1>21,
     <1>22
     DEF Next, SweepNext, TeardownNext, UseNext

(* Every path into and out of a use or a teardown takes and gives back     *)
(* its lock.                                                               *)
LEMMA LocksHeldStep == LockInv /\ [Next]_vars => LocksHeld'
<1> SUFFICES ASSUME LockInv, [Next]_vars PROVE LocksHeld'
  OBVIOUS
<1> USE WorktreeAssumption DEF LockInv, TypeOK, LocksHeld, SessionServing,
          InUse, Evicting, Sweeping, Creating, Teardown, Goto, disk, locks,
          memory, history
<1>1. ASSUME NEW p \in Procs, Launch(p) PROVE LocksHeld'
  BY <1>1 DEF Launch
<1>2. ASSUME NEW p \in Procs, Scan(p) PROVE LocksHeld'
  BY <1>2 DEF Scan
<1>3. ASSUME NEW p \in Procs, ScanMeta(p) PROVE LocksHeld'
  BY <1>3 DEF ScanMeta
<1>4. ASSUME NEW p \in Procs, TryReclaim(p) PROVE LocksHeld'
  BY <1>4 DEF TryReclaim, LockFree
<1>5. ASSUME NEW p \in Procs, Prune(p) PROVE LocksHeld'
  BY <1>5 DEF Prune
<1>6. ASSUME NEW p \in Procs, RemoveSome(p) PROVE LocksHeld'
  BY <1>6 DEF RemoveSome
<1>7. ASSUME NEW p \in Procs, RemoveRest(p) PROVE LocksHeld'
  BY <1>7 DEF RemoveRest
<1>8. ASSUME NEW p \in Procs, DeleteBranch(p) PROVE LocksHeld'
  BY <1>8 DEF DeleteBranch, EndTeardown, ReleaseLock, DeletesBranch
<1>9. ASSUME NEW p \in Procs, Evict(p) PROVE LocksHeld'
  BY <1>9 DEF Evict, DropSession
<1>10. ASSUME NEW p \in Procs, UseBegin(p) PROVE LocksHeld'
  BY <1>10 DEF UseBegin, DropSession
<1>11. ASSUME NEW p \in Procs, UseClaim(p) PROVE LocksHeld'
  BY <1>11 DEF UseClaim
<1>12. ASSUME NEW p \in Procs, UseCreate(p) PROVE LocksHeld'
  BY <1>12 DEF UseCreate, FailUse, Openable
<1>13. ASSUME NEW p \in Procs, UseMkdir(p) PROVE LocksHeld'
  BY <1>13 DEF UseMkdir, FailUse
<1>14. ASSUME NEW p \in Procs, UseCheckout(p) PROVE LocksHeld'
  BY <1>14 DEF UseCheckout, FailUse, Openable
<1>15. ASSUME NEW p \in Procs, UseAttach(p) PROVE LocksHeld'
  BY <1>15 DEF UseAttach, Touch, Openable
<1>16. ASSUME NEW p \in Procs, UseFails(p) PROVE LocksHeld'
  BY <1>16 DEF UseFails, FailUse
<1>17. ASSUME NEW p \in Procs, Command(p) PROVE LocksHeld'
  BY <1>17 DEF Command, Touch, Openable
<1>18. ASSUME NEW p \in Procs, Exit(p) PROVE LocksHeld'
  BY <1>18 DEF Exit, DropSession, EndTeardown
<1>19. ASSUME NEW p \in Procs, AgeSession(p) PROVE LocksHeld'
  BY <1>19 DEF AgeSession, Older
<1>20. CASE AgeSentinel
  BY <1>20 DEF AgeSentinel, Older
<1>21. CASE AgeTree
  BY <1>21 DEF AgeTree
<1>22. CASE UNCHANGED vars
  BY <1>22 DEF vars
<1> QED
    BY <1>1, <1>2, <1>3, <1>4, <1>5, <1>6, <1>7, <1>8, <1>9, <1>10, <1>11,
     <1>12, <1>13, <1>14, <1>15, <1>16, <1>17, <1>18, <1>19, <1>20, <1>21,
     <1>22
     DEF Next, SweepNext, TeardownNext, UseNext

(* The guards of the two locks, and what an eviction records.              *)
LEMMA ExclusionStep == LockInv /\ [Next]_vars => SessionServing' /\ LocksExclude' /\ EvictionUndercuts'
<1> SUFFICES ASSUME LockInv, [Next]_vars PROVE SessionServing' /\ LocksExclude' /\ EvictionUndercuts'
  OBVIOUS
<1> USE WorktreeAssumption DEF LockInv, TypeOK, SessionServing, LocksExclude,
          EvictionUndercuts, Evicting, Teardown, Goto, disk, locks, memory,
          history
<1>1. ASSUME NEW p \in Procs, Launch(p) PROVE SessionServing' /\ LocksExclude' /\ EvictionUndercuts'
  BY <1>1 DEF Launch
<1>2. ASSUME NEW p \in Procs, Scan(p) PROVE SessionServing' /\ LocksExclude' /\ EvictionUndercuts'
  BY <1>2 DEF Scan
<1>3. ASSUME NEW p \in Procs, ScanMeta(p) PROVE SessionServing' /\ LocksExclude' /\ EvictionUndercuts'
  BY <1>3 DEF ScanMeta
<1>4. ASSUME NEW p \in Procs, TryReclaim(p) PROVE SessionServing' /\ LocksExclude' /\ EvictionUndercuts'
  BY <1>4 DEF TryReclaim, LockFree
<1>5. ASSUME NEW p \in Procs, Prune(p) PROVE SessionServing' /\ LocksExclude' /\ EvictionUndercuts'
  BY <1>5 DEF Prune
<1>6. ASSUME NEW p \in Procs, RemoveSome(p) PROVE SessionServing' /\ LocksExclude' /\ EvictionUndercuts'
  BY <1>6 DEF RemoveSome
<1>7. ASSUME NEW p \in Procs, RemoveRest(p) PROVE SessionServing' /\ LocksExclude' /\ EvictionUndercuts'
  BY <1>7 DEF RemoveRest
<1>8. ASSUME NEW p \in Procs, DeleteBranch(p) PROVE SessionServing' /\ LocksExclude' /\ EvictionUndercuts'
  BY <1>8 DEF DeleteBranch, EndTeardown, ReleaseLock, DeletesBranch
<1>9. ASSUME NEW p \in Procs, Evict(p) PROVE SessionServing' /\ LocksExclude' /\ EvictionUndercuts'
  BY <1>9 DEF Evict, DropSession
<1>10. ASSUME NEW p \in Procs, UseBegin(p) PROVE SessionServing' /\ LocksExclude' /\ EvictionUndercuts'
  BY <1>10 DEF UseBegin, DropSession
<1>11. ASSUME NEW p \in Procs, UseClaim(p) PROVE SessionServing' /\ LocksExclude' /\ EvictionUndercuts'
  BY <1>11 DEF UseClaim
<1>12. ASSUME NEW p \in Procs, UseCreate(p) PROVE SessionServing' /\ LocksExclude' /\ EvictionUndercuts'
  BY <1>12 DEF UseCreate, FailUse, Openable
<1>13. ASSUME NEW p \in Procs, UseMkdir(p) PROVE SessionServing' /\ LocksExclude' /\ EvictionUndercuts'
  BY <1>13 DEF UseMkdir, FailUse
<1>14. ASSUME NEW p \in Procs, UseCheckout(p) PROVE SessionServing' /\ LocksExclude' /\ EvictionUndercuts'
  BY <1>14 DEF UseCheckout, FailUse, Openable
<1>15. ASSUME NEW p \in Procs, UseAttach(p) PROVE SessionServing' /\ LocksExclude' /\ EvictionUndercuts'
  BY <1>15 DEF UseAttach, Touch, Openable
<1>16. ASSUME NEW p \in Procs, UseFails(p) PROVE SessionServing' /\ LocksExclude' /\ EvictionUndercuts'
  BY <1>16 DEF UseFails, FailUse
<1>17. ASSUME NEW p \in Procs, Command(p) PROVE SessionServing' /\ LocksExclude' /\ EvictionUndercuts'
  BY <1>17 DEF Command, Touch, Openable
<1>18. ASSUME NEW p \in Procs, Exit(p) PROVE SessionServing' /\ LocksExclude' /\ EvictionUndercuts'
  BY <1>18 DEF Exit, DropSession, EndTeardown
<1>19. ASSUME NEW p \in Procs, AgeSession(p) PROVE SessionServing' /\ LocksExclude' /\ EvictionUndercuts'
  BY <1>19 DEF AgeSession, Older
<1>20. CASE AgeSentinel
  BY <1>20 DEF AgeSentinel, Older
<1>21. CASE AgeTree
  BY <1>21 DEF AgeTree
<1>22. CASE UNCHANGED vars
  BY <1>22 DEF vars
<1> QED
    BY <1>1, <1>2, <1>3, <1>4, <1>5, <1>6, <1>7, <1>8, <1>9, <1>10, <1>11,
     <1>12, <1>13, <1>14, <1>15, <1>16, <1>17, <1>18, <1>19, <1>20, <1>21,
     <1>22
     DEF Next, SweepNext, TeardownNext, UseNext

(* A second remover would need metadata that the first has pruned.         *)
LEMMA RemovalStep == LockInv /\ [Next]_vars => RemovesAlone' /\ AuthorStamped'
<1> SUFFICES ASSUME LockInv, [Next]_vars PROVE RemovesAlone' /\ AuthorStamped'
  OBVIOUS
<1> USE WorktreeAssumption DEF LockInv, TypeOK, LocksHeld, LocksExclude,
          RemovesAlone, AuthorStamped, Removing, Evicting, Sweeping,
          Teardown, Goto, disk, locks, memory, history
<1>1. ASSUME NEW p \in Procs, Launch(p) PROVE RemovesAlone' /\ AuthorStamped'
  BY <1>1 DEF Launch
<1>2. ASSUME NEW p \in Procs, Scan(p) PROVE RemovesAlone' /\ AuthorStamped'
  BY <1>2 DEF Scan
<1>3. ASSUME NEW p \in Procs, ScanMeta(p) PROVE RemovesAlone' /\ AuthorStamped'
  BY <1>3 DEF ScanMeta
<1>4. ASSUME NEW p \in Procs, TryReclaim(p) PROVE RemovesAlone' /\ AuthorStamped'
  BY <1>4 DEF TryReclaim, LockFree
<1>5. ASSUME NEW p \in Procs, Prune(p) PROVE RemovesAlone' /\ AuthorStamped'
  BY <1>5 DEF Prune
<1>6. ASSUME NEW p \in Procs, RemoveSome(p) PROVE RemovesAlone' /\ AuthorStamped'
  BY <1>6 DEF RemoveSome
<1>7. ASSUME NEW p \in Procs, RemoveRest(p) PROVE RemovesAlone' /\ AuthorStamped'
  BY <1>7 DEF RemoveRest
<1>8. ASSUME NEW p \in Procs, DeleteBranch(p) PROVE RemovesAlone' /\ AuthorStamped'
  BY <1>8 DEF DeleteBranch, EndTeardown, ReleaseLock, DeletesBranch
<1>9. ASSUME NEW p \in Procs, Evict(p) PROVE RemovesAlone' /\ AuthorStamped'
  BY <1>9 DEF Evict, DropSession
<1>10. ASSUME NEW p \in Procs, UseBegin(p) PROVE RemovesAlone' /\ AuthorStamped'
  BY <1>10 DEF UseBegin, DropSession
<1>11. ASSUME NEW p \in Procs, UseClaim(p) PROVE RemovesAlone' /\ AuthorStamped'
  BY <1>11 DEF UseClaim
<1>12. ASSUME NEW p \in Procs, UseCreate(p) PROVE RemovesAlone' /\ AuthorStamped'
  BY <1>12 DEF UseCreate, FailUse, Openable
<1>13. ASSUME NEW p \in Procs, UseMkdir(p) PROVE RemovesAlone' /\ AuthorStamped'
  BY <1>13 DEF UseMkdir, FailUse
<1>14. ASSUME NEW p \in Procs, UseCheckout(p) PROVE RemovesAlone' /\ AuthorStamped'
  BY <1>14 DEF UseCheckout, FailUse, Openable
<1>15. ASSUME NEW p \in Procs, UseAttach(p) PROVE RemovesAlone' /\ AuthorStamped'
  BY <1>15 DEF UseAttach, Touch, Openable
<1>16. ASSUME NEW p \in Procs, UseFails(p) PROVE RemovesAlone' /\ AuthorStamped'
  BY <1>16 DEF UseFails, FailUse
<1>17. ASSUME NEW p \in Procs, Command(p) PROVE RemovesAlone' /\ AuthorStamped'
  BY <1>17 DEF Command, Touch, Openable
<1>18. ASSUME NEW p \in Procs, Exit(p) PROVE RemovesAlone' /\ AuthorStamped'
  BY <1>18 DEF Exit, DropSession, EndTeardown
<1>19. ASSUME NEW p \in Procs, AgeSession(p) PROVE RemovesAlone' /\ AuthorStamped'
  BY <1>19 DEF AgeSession, Older
<1>20. CASE AgeSentinel
  BY <1>20 DEF AgeSentinel, Older
<1>21. CASE AgeTree
  BY <1>21 DEF AgeTree
<1>22. CASE UNCHANGED vars
  BY <1>22 DEF vars
<1> QED
    BY <1>1, <1>2, <1>3, <1>4, <1>5, <1>6, <1>7, <1>8, <1>9, <1>10, <1>11,
     <1>12, <1>13, <1>14, <1>15, <1>16, <1>17, <1>18, <1>19, <1>20, <1>21,
     <1>22
     DEF Next, SweepNext, TeardownNext, UseNext

(* Whoever prunes, removes or deletes is a sweep, and there is no owner,   *)
(* or an eviction, and the other owners are undercut.                      *)
LEMMA SessionsKeepStep == LockInv /\ SessionsKeepWorktree /\ [Next]_vars => SessionsKeepWorktree'
<1> SUFFICES ASSUME LockInv, SessionsKeepWorktree, [Next]_vars PROVE SessionsKeepWorktree'
  OBVIOUS
<1> USE WorktreeAssumption DEF LockInv, TypeOK, LocksHeld, SessionServing,
          LocksExclude, EvictionUndercuts, SessionsKeepWorktree, Openable,
          InUse, Evicting, Sweeping, Teardown, Goto, disk, locks, memory,
          history
<1>1. ASSUME NEW p \in Procs, Launch(p) PROVE SessionsKeepWorktree'
  BY <1>1 DEF Launch
<1>2. ASSUME NEW p \in Procs, Scan(p) PROVE SessionsKeepWorktree'
  BY <1>2 DEF Scan
<1>3. ASSUME NEW p \in Procs, ScanMeta(p) PROVE SessionsKeepWorktree'
  BY <1>3 DEF ScanMeta
<1>4. ASSUME NEW p \in Procs, TryReclaim(p) PROVE SessionsKeepWorktree'
  BY <1>4 DEF TryReclaim, LockFree, BranchReadable
<1>5. ASSUME NEW p \in Procs, Prune(p) PROVE SessionsKeepWorktree'
  BY <1>5 DEF Prune
<1>6. ASSUME NEW p \in Procs, RemoveSome(p) PROVE SessionsKeepWorktree'
  BY <1>6 DEF RemoveSome
<1>7. ASSUME NEW p \in Procs, RemoveRest(p) PROVE SessionsKeepWorktree'
  BY <1>7 DEF RemoveRest
<1>8. ASSUME NEW p \in Procs, DeleteBranch(p) PROVE SessionsKeepWorktree'
  BY <1>8 DEF DeleteBranch, EndTeardown, ReleaseLock, DeletesBranch
<1>9. ASSUME NEW p \in Procs, Evict(p) PROVE SessionsKeepWorktree'
  BY <1>9 DEF Evict, DropSession
<1>10. ASSUME NEW p \in Procs, UseBegin(p) PROVE SessionsKeepWorktree'
  BY <1>10 DEF UseBegin, DropSession
<1>11. ASSUME NEW p \in Procs, UseClaim(p) PROVE SessionsKeepWorktree'
  BY <1>11 DEF UseClaim
<1>12. ASSUME NEW p \in Procs, UseCreate(p) PROVE SessionsKeepWorktree'
  BY <1>12 DEF UseCreate, FailUse, Openable
<1>13. ASSUME NEW p \in Procs, UseMkdir(p) PROVE SessionsKeepWorktree'
  BY <1>13 DEF UseMkdir, FailUse
<1>14. ASSUME NEW p \in Procs, UseCheckout(p) PROVE SessionsKeepWorktree'
  BY <1>14 DEF UseCheckout, FailUse, Openable
<1>15. ASSUME NEW p \in Procs, UseAttach(p) PROVE SessionsKeepWorktree'
  BY <1>15 DEF UseAttach, Touch, Openable
<1>16. ASSUME NEW p \in Procs, UseFails(p) PROVE SessionsKeepWorktree'
  BY <1>16 DEF UseFails, FailUse
<1>17. ASSUME NEW p \in Procs, Command(p) PROVE SessionsKeepWorktree'
  BY <1>17 DEF Command, Touch, Openable
<1>18. ASSUME NEW p \in Procs, Exit(p) PROVE SessionsKeepWorktree'
  BY <1>18 DEF Exit, DropSession, EndTeardown
<1>19. ASSUME NEW p \in Procs, AgeSession(p) PROVE SessionsKeepWorktree'
  BY <1>19 DEF AgeSession, Older
<1>20. CASE AgeSentinel
  BY <1>20 DEF AgeSentinel, Older
<1>21. CASE AgeTree
  BY <1>21 DEF AgeTree
<1>22. CASE UNCHANGED vars
  BY <1>22 DEF vars
<1> QED
    BY <1>1, <1>2, <1>3, <1>4, <1>5, <1>6, <1>7, <1>8, <1>9, <1>10, <1>11,
     <1>12, <1>13, <1>14, <1>15, <1>16, <1>17, <1>18, <1>19, <1>20, <1>21,
     <1>22
     DEF Next, SweepNext, TeardownNext, UseNext

(* Without a death inside USE or a teardown, and without an eviction that  *)
(* meets an owner, a teardown has the disk to itself and finishes.         *)
LEMMA DiskStep == LockInv /\ DiskInv /\ [Next]_vars => DiskInv'
<1> SUFFICES ASSUME LockInv, DiskInv, [Next]_vars PROVE DiskInv'
  OBVIOUS
<1> USE WorktreeAssumption DEF LockInv, TypeOK, LocksHeld, LocksExclude,
          RemovesAlone, Removing, DiskInv, TornRecords, WholeOrAbsent,
          CreatingPhases, TeardownPhases, NoTeardown, Openable, InUse,
          Evicting, Sweeping, Creating, Teardown, Goto, disk, locks, memory,
          history
<1>1. ASSUME NEW p \in Procs, Launch(p) PROVE DiskInv'
  BY <1>1 DEF Launch
<1>2. ASSUME NEW p \in Procs, Scan(p) PROVE DiskInv'
  BY <1>2 DEF Scan
<1>3. ASSUME NEW p \in Procs, ScanMeta(p) PROVE DiskInv'
  BY <1>3 DEF ScanMeta
<1>4. ASSUME NEW p \in Procs, TryReclaim(p) PROVE DiskInv'
  BY <1>4 DEF TryReclaim, LockFree, BranchReadable
<1>5. ASSUME NEW p \in Procs, Prune(p) PROVE DiskInv'
  BY <1>5 DEF Prune
<1>6. ASSUME NEW p \in Procs, RemoveSome(p) PROVE DiskInv'
  BY <1>6 DEF RemoveSome
<1>7. ASSUME NEW p \in Procs, RemoveRest(p) PROVE DiskInv'
  BY <1>7 DEF RemoveRest
<1>8. ASSUME NEW p \in Procs, DeleteBranch(p) PROVE DiskInv'
  BY <1>8 DEF DeleteBranch, EndTeardown, ReleaseLock, DeletesBranch
<1>9. ASSUME NEW p \in Procs, Evict(p) PROVE DiskInv'
  BY <1>9 DEF Evict, DropSession
<1>10. ASSUME NEW p \in Procs, UseBegin(p) PROVE DiskInv'
  BY <1>10 DEF UseBegin, DropSession
<1>11. ASSUME NEW p \in Procs, UseClaim(p) PROVE DiskInv'
  <2>a. \A q \in Procs : Evicting(q)' => Evicting(q)
    BY <1>11 DEF UseClaim
  <2>b. (\E q \in Procs : Evicting(q)) => torn'
    BY <1>11 DEF UseClaim
  <2>c. \A q \in Procs : q \in claims' => q = p \/ q \in claims
    BY <1>11 DEF UseClaim
  <2>1. TornRecords'
    BY <1>11, <2>a, <2>b, <2>c DEF UseClaim
  <2>2. ASSUME ~torn' PROVE WholeOrAbsent' \/ ~NoTeardown'
    BY <1>11, <2>2 DEF UseClaim
  <2>3. ASSUME ~torn' PROVE CreatingPhases' /\ TeardownPhases'
    BY <1>11, <2>3 DEF UseClaim
  <2> QED
    BY <2>1, <2>2, <2>3
<1>12. ASSUME NEW p \in Procs, UseCreate(p) PROVE DiskInv'
  BY <1>12 DEF UseCreate, FailUse, Openable
<1>13. ASSUME NEW p \in Procs, UseMkdir(p) PROVE DiskInv'
  BY <1>13 DEF UseMkdir, FailUse
<1>14. ASSUME NEW p \in Procs, UseCheckout(p) PROVE DiskInv'
  BY <1>14 DEF UseCheckout, FailUse, Openable
<1>15. ASSUME NEW p \in Procs, UseAttach(p) PROVE DiskInv'
  BY <1>15 DEF UseAttach, Touch, Openable
<1>16. ASSUME NEW p \in Procs, UseFails(p) PROVE DiskInv'
  BY <1>16 DEF UseFails, FailUse
<1>17. ASSUME NEW p \in Procs, Command(p) PROVE DiskInv'
  BY <1>17 DEF Command, Touch, Openable
<1>18. ASSUME NEW p \in Procs, Exit(p) PROVE DiskInv'
  BY <1>18 DEF Exit, DropSession, EndTeardown
<1>19. ASSUME NEW p \in Procs, AgeSession(p) PROVE DiskInv'
  BY <1>19 DEF AgeSession, Older
<1>20. CASE AgeSentinel
  BY <1>20 DEF AgeSentinel, Older
<1>21. CASE AgeTree
  BY <1>21 DEF AgeTree
<1>22. CASE UNCHANGED vars
  BY <1>22 DEF vars
<1> QED
    BY <1>1, <1>2, <1>3, <1>4, <1>5, <1>6, <1>7, <1>8, <1>9, <1>10, <1>11,
     <1>12, <1>13, <1>14, <1>15, <1>16, <1>17, <1>18, <1>19, <1>20, <1>21,
     <1>22
     DEF Next, SweepNext, TeardownNext, UseNext

(* Every step preserves the invariant.                                     *)
LEMMA NextInv == IInv /\ [Next]_vars => IInv'
  BY TypeStep, LocksHeldStep, ExclusionStep, RemovalStep, SessionsKeepStep,
     DiskStep DEF IInv, LockInv

(* The inductive invariant holds in every reachable state.                 *)
THEOREM Invariance == Spec => []IInv
  BY InitInv, NextInv, PTL DEF Spec

-----------------------------------------------------------------------------

(* The type invariant of WorktreeLiveness.                                 *)
THEOREM WorktreeTypeCorrect == Spec => []TypeOK
  BY Invariance, PTL DEF IInv, LockInv

(* No lock outlives the use, the eviction or the sweep it was taken for.   *)
THEOREM WorktreeLocksHeld == Spec => []LocksHeld
  BY Invariance, PTL DEF IInv, LockInv

(* What LocksHeld and the exclusion of the two locks say about sweeps.     *)
LEMMA LocksIsolateSweeps ==
  ASSUME TypeOK, LocksHeld, LocksExclude
  PROVE  SweepAlone
  BY WorktreeAssumption
  DEF TypeOK, LocksHeld, LocksExclude, SweepAlone, Sweeping, Evicting

(* While a sweep tears a worktree down, no process of any number uses or   *)
(* tears down the same one.                                                *)
THEOREM WorktreeSweepAlone == Spec => []SweepAlone
<1>1. IInv => SweepAlone
  BY LocksIsolateSweeps DEF IInv, LockInv
<1> QED
  BY <1>1, Invariance, PTL

(* A session keeps worktree, metadata and branch unless another owner's    *)
(* eviction takes them.                                                    *)
THEOREM WorktreeSessionsKeep == Spec => []SessionsKeepWorktree
  BY Invariance, PTL DEF IInv

(* Worktree, metadata and branch come and go together.                     *)
THEOREM WorktreeUnity == Spec => []BranchGoesWithWorktree
<1>1. IInv => BranchGoesWithWorktree
  BY DEF IInv, DiskInv, WholeOrAbsent, NoTeardown, BranchGoesWithWorktree,
         Quiet, Creating
<1> QED
  BY <1>1, Invariance, PTL

(* USE resumes a directory in worktree::create only.                       *)
LEMMA OnlyUseCreateResumes ==
  ASSUME TypeOK, Next, NEW p \in Procs, Resumes(p)
  PROVE  Openable
<1> USE DEF TypeOK, Resumes, Goto, FailUse, locks
<1>1. ASSUME NEW q \in Procs, SweepNext(q) PROVE Openable
  BY <1>1 DEF SweepNext, Scan, ScanMeta, TryReclaim
<1>2. ASSUME NEW q \in Procs, TeardownNext(q) PROVE Openable
  BY <1>2 DEF TeardownNext, Prune, RemoveSome, RemoveRest, DeleteBranch
<1>3. ASSUME NEW q \in Procs, UseNext(q) PROVE Openable
  BY <1>3 DEF UseNext, UseClaim, UseCreate, UseMkdir, UseCheckout, UseAttach, UseFails
<1>4. ASSUME NEW q \in Procs,
             Launch(q) \/ Evict(q) \/ UseBegin(q) \/ Command(q) \/ Exit(q) \/ AgeSession(q)
      PROVE  Openable
  BY <1>4 DEF Launch, Evict, UseBegin, Command, Exit, AgeSession
<1>5. CASE AgeSentinel \/ AgeTree
  BY <1>5 DEF AgeSentinel, AgeTree
<1> QED
  BY <1>1, <1>2, <1>3, <1>4, <1>5 DEF Next

(* USE resumes only complete checkouts.                                    *)
THEOREM WorktreeResumesWhole == Spec => ResumesWholeCheckout
<1>1. IInv /\ [Next]_vars =>
        [\A p \in Procs :
           Resumes(p) /\ ~torn /\ (\A q \in Procs : pc[q] # "checkout")
             => tree = "full"]_vars
  <2> SUFFICES ASSUME IInv, Next, NEW p \in Procs, Resumes(p), ~torn,
                      \A q \in Procs : pc[q] # "checkout"
               PROVE  tree = "full"
    OBVIOUS
  <2>1. tree # "partial"
    BY DEF IInv, DiskInv, CreatingPhases
  <2>2. Openable
    BY OnlyUseCreateResumes DEF IInv, LockInv
  <2> QED
    BY <2>1, <2>2 DEF Openable
<1> QED
  BY <1>1, Invariance, PTL DEF Spec, ResumesWholeCheckout

=============================================================================
