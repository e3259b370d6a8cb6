-------------------------- MODULE WorktreeLiveness --------------------------
(***************************************************************************)
(* Several engine processes on one data directory, seen from one session   *)
(* worktree: USE creates or resumes it, the sweep every MCP server runs at *)
(* start-up reclaims it, TTL eviction removes it, and any process may die  *)
(* between two steps.  What the processes share is on disk: the directory, *)
(* git's metadata for it, the session branch, the sentinel with the time   *)
(* of the last command, and the advisory lock on the claim file, which     *)
(* owners take shared and sweepers exclusive.  Worktrees do not interact   *)
(* (paths, branches and claims are per session), so one is enough.         *)
(*                                                                         *)
(* Time is kept as ages: "recent" is below the short TTL, "short" between  *)
(* the short TTL and SESSION_TTL_SECS, "long" past it.                     *)
(***************************************************************************)
EXTENDS Naturals

CONSTANTS
  Procs,      \* engine processes
  Nobody,     \* holder of the exclusive lock when there is none
  MaxStarts   \* bound: how often a process is started

ASSUME WorktreeAssumption == Nobody \notin Procs /\ MaxStarts \in Nat

VARIABLES
  tree,        \* the worktree directory
  registered,  \* git has metadata of the worktree
  branch,      \* the session branch exists
  work,        \* changes over the base: in the directory, on the branch
  sentinel,    \* age of the time in .forgeql-session, or "none"
  young,       \* the directory was modified within the creation grace
               \* (kept while there is no sentinel: it is read only then)
  claims,      \* processes with the shared lock
  reclaimer,   \* process with the exclusive lock
  pc,          \* where a process is; between commands it is "serving"
  session,     \* the process has the session in memory
  idle,        \* age of the session's last command in that process
  author,      \* the live session whose last command the sentinel records
  mode,        \* why a process tears down: "sweep", "meta" or "evict"
  named,       \* the branch a teardown deletes is the session branch
  starts,      \* processes started so far
  undercut,    \* history: owners whose worktree a peer's eviction removes
  torn         \* history: a process died inside USE or a teardown, or an
               \* eviction met an owner

disk == <<tree, registered, branch, work, sentinel, young>>
locks == <<claims, reclaimer>>
memory == <<session, idle, author, mode, named>>
history == <<undercut, torn>>
vars == <<disk, locks, pc, memory, starts, history>>

Ages == {"recent", "short", "long"}

\* "partial" is a checkout under way, "gutted" a remove_dir_all under way,
\* "bare" the same with the .git entry already gone.
Trees == {"none", "partial", "full", "gutted", "bare"}

Creating == {"create", "mkdir", "checkout", "attach"}
Teardown == {"prune", "removeDir", "finishRemove", "deleteBranch"}
Sweep == {"scan", "reclaim", "scanMeta", "reclaimMeta"}

-----------------------------------------------------------------------------
\* Repository::open(worktree) succeeds.
Openable == registered /\ tree \in {"partial", "full"}

\* The branch name is made up from the directory name.
MutBranchMadeUp == FALSE

\* branch_of_worktree: the branch to delete is read from the checkout's HEAD;
\* without it a name is made up that no session branch has.
BranchReadable == Openable

\* session_carries_work: every git error counts as work, and a checkout that
\* lacks files differs from HEAD.
CarriesWork == work # {} \/ tree # "full" \/ ~registered \/ ~branch

Expired(age) == age = "long" \/ (age = "short" /\ ~CarriesWork)

\* The directory looks abandoned to a start-up sweep.
Reclaimable ==
  /\ tree \in {"partial", "full", "gutted"}
  /\ IF sentinel = "none" THEN ~young ELSE Expired(sentinel)

\* The full metadata in the sentinel makes it a pending session, which the
\* second pass skips.
Pending == tree \in {"partial", "full", "gutted"} /\ sentinel # "none"

\* The session object is dropped; its callers give the claim back.
DropSession(p) ==
  /\ session' = [session EXCEPT ![p] = FALSE]
  /\ idle' = [idle EXCEPT ![p] = "recent"]
  /\ author' = IF author = p THEN Nobody ELSE author

\* Session::touch: the time goes to the session and, if there is a directory,
\* to the sentinel.
Touch(p) ==
  /\ idle' = [idle EXCEPT ![p] = "recent"]
  /\ sentinel' = IF tree = "none" THEN "none" ELSE "recent"
  /\ author' = IF tree = "none" THEN Nobody ELSE p
  /\ young' = FALSE

\* A teardown is over: its locals go out of scope.
EndTeardown(p) ==
  /\ mode' = [mode EXCEPT ![p] = "sweep"]
  /\ named' = [named EXCEPT ![p] = FALSE]

Goto(p, l) == pc' = [pc EXCEPT ![p] = l]

\* A USE that fails drops its claim with the session it was building.
FailUse(p) ==
  /\ Goto(p, "serving")
  /\ claims' = claims \ {p}

-----------------------------------------------------------------------------
Init ==
  /\ tree = "none" /\ registered = FALSE /\ branch = FALSE
  /\ work = {} /\ sentinel = "none" /\ young = FALSE
  /\ claims = {} /\ reclaimer = Nobody
  /\ pc = [p \in Procs |-> "down"]
  /\ session = [p \in Procs |-> FALSE]
  /\ idle = [p \in Procs |-> "recent"] /\ author = Nobody
  /\ mode = [p \in Procs |-> "sweep"]
  /\ named = [p \in Procs |-> FALSE]
  /\ starts = 0
  /\ undercut = {} /\ torn = FALSE

Launch(p) ==
  /\ pc[p] = "down" /\ starts < MaxStarts
  /\ Goto(p, "scan")
  /\ starts' = starts + 1
  /\ UNCHANGED <<disk, locks, memory, history>>

-----------------------------------------------------------------------------
(* The start-up sweep: restore_one_worktree, then the metadata pass.       *)

Scan(p) ==
  /\ pc[p] = "scan"
  /\ Goto(p, IF Reclaimable THEN "reclaim"
             ELSE IF Pending THEN "serving" ELSE "scanMeta")
  /\ UNCHANGED <<disk, locks, memory, starts, history>>

ScanMeta(p) ==
  /\ pc[p] = "scanMeta"
  /\ Goto(p, IF registered /\ tree = "none" THEN "reclaimMeta" ELSE "serving")
  /\ UNCHANGED <<disk, locks, memory, starts, history>>

\* A sweeper takes the shared lock.
MutLockFreeShared == reclaimer = Nobody

LockFree == claims = {} /\ reclaimer = Nobody

\* claim_for_reclaim: the exclusive lock is tried, never waited for.
TryReclaim(p) ==
  /\ pc[p] \in {"reclaim", "reclaimMeta"}
  /\ IF LockFree
       THEN /\ reclaimer' = p
            /\ mode' = [mode EXCEPT ![p] = IF pc[p] = "reclaim" THEN "sweep" ELSE "meta"]
            /\ named' = [named EXCEPT ![p] = BranchReadable]
            /\ Goto(p, "prune")
       ELSE /\ Goto(p, IF pc[p] = "reclaim" THEN "scanMeta" ELSE "serving")
            /\ UNCHANGED <<reclaimer, mode, named>>
  /\ UNCHANGED <<disk, claims, session, idle, author, starts, history>>

-----------------------------------------------------------------------------
(* remove_with_branch, called by both passes and by eviction: metadata,    *)
(* directory, branch.  Only teardown_worktree (the first pass) removes the *)
(* directory when git does not know the worktree.                          *)

Prune(p) ==
  /\ pc[p] = "prune"
  /\ Goto(p, IF tree # "none" /\ (registered \/ mode[p] = "sweep")
               THEN "removeDir" ELSE "deleteBranch")
  /\ registered' = FALSE
  /\ UNCHANGED <<tree, branch, work, sentinel, young, locks, memory, starts, history>>

RemoveSome(p) ==
  /\ pc[p] = "removeDir"
  /\ tree' \in {"gutted", "bare"}
  /\ sentinel' \in {sentinel, "none"}
  /\ work' = work \ {"uncommitted"}
  /\ young' = (sentinel' = "none")
  /\ author' = IF sentinel' = "none" THEN Nobody ELSE author
  /\ Goto(p, "finishRemove")
  /\ UNCHANGED <<registered, branch, locks, session, idle, mode, named, starts, history>>

RemoveRest(p) ==
  /\ pc[p] = "finishRemove"
  /\ tree' = "none" /\ sentinel' = "none" /\ young' = FALSE /\ author' = Nobody
  /\ Goto(p, "deleteBranch")
  /\ UNCHANGED <<registered, branch, work, locks, session, idle, mode, named, starts,
                 history>>

\* git refuses to delete the branch of a registered worktree.
DeletesBranch(p) == named[p] /\ ~registered

\* A sweep does not give its lock back.
MutReleaseLockForgotten(p) ==
  /\ claims' = IF mode[p] = "evict" THEN claims \ {p} ELSE claims
  /\ UNCHANGED reclaimer

ReleaseLock(p) ==
  /\ reclaimer' = IF mode[p] = "evict" THEN reclaimer ELSE Nobody
  /\ claims' = IF mode[p] = "evict" THEN claims \ {p} ELSE claims

DeleteBranch(p) ==
  /\ pc[p] = "deleteBranch"
  /\ branch' = (branch /\ ~DeletesBranch(p))
  /\ work' = IF DeletesBranch(p) THEN work \ {"committed"} ELSE work
  /\ ReleaseLock(p)
  /\ EndTeardown(p)
  /\ Goto(p, IF mode[p] = "sweep" THEN "scanMeta" ELSE "serving")
  /\ UNCHANGED <<tree, registered, sentinel, young, session, idle, author, starts,
                 history>>

-----------------------------------------------------------------------------
(* TTL eviction, by a server that has the session and has seen no command  *)
(* for it.  It judges by its own clock and holds its own shared claim      *)
(* only.  A branch with changes, or one that cannot be compared, keeps     *)
(* worktree and branch.                                                    *)

Evict(p) ==
  /\ pc[p] = "serving" /\ session[p] /\ Expired(idle[p])
  /\ DropSession(p)
  /\ IF "committed" \in work \/ ~branch
       THEN /\ claims' = claims \ {p}
            /\ UNCHANGED <<pc, mode, named, history>>
       ELSE /\ Goto(p, "prune")
            /\ mode' = [mode EXCEPT ![p] = "evict"]
            /\ named' = [named EXCEPT ![p] = TRUE]
            /\ undercut' = undercut \cup (claims \ {p})
            /\ torn' = (torn \/ claims # {p})
            /\ UNCHANGED claims
  /\ UNCHANGED <<disk, reclaimer, starts>>

Evicting(p) == pc[p] \in Teardown /\ mode[p] = "evict"

-----------------------------------------------------------------------------
(* USE.  A session in memory is resumed without touching the disk unless   *)
(* the base moved, which drops it, and its claim, first.                   *)

UseBegin(p) ==
  /\ pc[p] = "serving"
  /\ DropSession(p)
  /\ claims' = claims \ {p}
  /\ undercut' = undercut \ {p}
  /\ Goto(p, "claim")
  /\ UNCHANGED <<disk, reclaimer, mode, named, starts, torn>>

\* An owner does not wait for a sweep.
MutUseClaimAtOnce(p) ==
  /\ pc[p] = "claim"
  /\ claims' = claims \cup {p}
  /\ Goto(p, "create")
  /\ UNCHANGED <<disk, reclaimer, memory, starts, history>>

\* WorktreeClaim::acquire blocks while a sweeper holds the lock.
UseClaim(p) ==
  /\ pc[p] = "claim" /\ reclaimer = Nobody
  /\ claims' = claims \cup {p}
  /\ Goto(p, "create")
  /\ LET evicted == \E q \in Procs : Evicting(q) IN
       /\ undercut' = IF evicted THEN undercut \cup {p} ELSE undercut
       /\ torn' = (torn \/ evicted)
  /\ UNCHANGED <<disk, reclaimer, memory, starts>>

\* worktree::create: make or reuse the branch, then resume a directory that
\* belongs to this repository, or register a new worktree (after pruning
\* metadata whose directory is gone).
UseCreate(p) ==
  /\ pc[p] = "create"
  /\ branch' = TRUE
  /\ \/ /\ tree = "none"
        /\ registered' = TRUE
        /\ Goto(p, "mkdir")
        /\ UNCHANGED claims
     \/ /\ Openable
        /\ Goto(p, "attach")
        /\ UNCHANGED <<registered, claims>>
     \/ /\ tree # "none" /\ ~Openable
        /\ FailUse(p)
        /\ UNCHANGED registered
  /\ UNCHANGED <<tree, work, sentinel, young, reclaimer, memory, starts, history>>

UseMkdir(p) ==
  /\ pc[p] = "mkdir"
  /\ \/ /\ tree = "none"
        /\ tree' = "partial" /\ young' = TRUE
        /\ Goto(p, "checkout")
        /\ UNCHANGED claims
     \/ /\ tree # "none"
        /\ FailUse(p)
        /\ UNCHANGED <<tree, young>>
  /\ UNCHANGED <<registered, branch, work, sentinel, reclaimer, memory, starts, history>>

\* The error of a checkout is ignored.
MutUseCheckoutIgnoresError(p) ==
  /\ pc[p] = "checkout"
  /\ tree' \in {tree, "full"}
  /\ Goto(p, "attach")
  /\ UNCHANGED <<registered, branch, work, sentinel, young, locks, memory, starts, history>>

UseCheckout(p) ==
  /\ pc[p] = "checkout"
  /\ \/ /\ Openable /\ branch
        /\ tree' = "full"
        /\ Goto(p, "attach")
        /\ UNCHANGED claims
     \/ /\ ~Openable \/ ~branch
        /\ FailUse(p)
        /\ UNCHANGED tree
  /\ UNCHANGED <<registered, branch, work, sentinel, young, reclaimer, memory, starts, history>>

\* Configuration and index are loaded, the first time stamp is written and
\* the session is inserted.
UseAttach(p) ==
  /\ pc[p] = "attach"
  /\ Openable /\ branch
  /\ Touch(p)
  /\ session' = [session EXCEPT ![p] = TRUE]
  /\ Goto(p, "serving")
  /\ UNCHANGED <<tree, registered, branch, work, locks, mode, named, starts, history>>

\* A configuration that does not parse, an index that cannot be built, or a
\* directory that is gone.
UseFails(p) ==
  /\ pc[p] = "attach"
  /\ FailUse(p)
  /\ UNCHANGED <<disk, reclaimer, memory, starts, history>>

-----------------------------------------------------------------------------
\* One command: the session is touched, and the command may change files,
\* commit them, or take the changes back.
Command(p) ==
  /\ pc[p] = "serving" /\ session[p]
  /\ Touch(p)
  /\ \/ UNCHANGED work
     \/ Openable /\ branch /\ work' = work \cup {"uncommitted"}
     \/ Openable /\ branch /\ "uncommitted" \in work /\ work' = {"committed"}
     \/ Openable /\ branch /\ work' = work \ {"uncommitted"}
  /\ UNCHANGED <<tree, registered, branch, locks, pc, session, mode, named,
                 starts, history>>

\* The process exits, or dies wherever it is; the OS releases its locks.
Exit(p) ==
  /\ pc[p] # "down"
  /\ Goto(p, "down")
  /\ DropSession(p) /\ EndTeardown(p)
  /\ claims' = claims \ {p}
  /\ reclaimer' = IF reclaimer = p THEN Nobody ELSE reclaimer
  /\ undercut' = undercut \ {p}
  /\ torn' = (torn \/ pc[p] \in Creating \cup Teardown)
  /\ UNCHANGED <<disk, starts>>

-----------------------------------------------------------------------------
(* Time passes.  The sentinel bears the newest command of all processes:   *)
(* it ages with the session that wrote it, on its own when that one is     *)
(* gone, and is never older than another session's clock.                  *)

Older(age) == IF age = "recent" THEN "short" ELSE "long"

OthersOlder(p, age) ==
  \A q \in Procs \ {p} : session[q] => idle[q] \in {age, "long"}

AgeSession(p) ==
  /\ session[p] /\ idle[p] # "long"
  /\ idle' = [idle EXCEPT ![p] = Older(idle[p])]
  /\ IF author = p
       THEN OthersOlder(p, Older(sentinel)) /\ sentinel' = Older(sentinel)
       ELSE UNCHANGED sentinel
  /\ UNCHANGED <<tree, registered, branch, work, young, locks, pc, session, author,
                 mode, named, starts, history>>

AgeSentinel ==
  /\ sentinel \in {"recent", "short"} /\ author = Nobody
  /\ OthersOlder(Nobody, Older(sentinel))
  /\ sentinel' = Older(sentinel)
  /\ UNCHANGED <<tree, registered, branch, work, young, locks, pc, memory, starts, history>>

AgeTree ==
  /\ young
  /\ young' = FALSE
  /\ UNCHANGED <<tree, registered, branch, work, sentinel, locks, pc, memory, starts, history>>

-----------------------------------------------------------------------------
SweepNext(p) == Scan(p) \/ ScanMeta(p) \/ TryReclaim(p)
TeardownNext(p) == Prune(p) \/ RemoveSome(p) \/ RemoveRest(p) \/ DeleteBranch(p)
UseNext(p) ==
  \/ UseClaim(p) \/ UseCreate(p) \/ UseMkdir(p) \/ UseCheckout(p)
  \/ UseAttach(p) \/ UseFails(p)

Next ==
  \/ \E p \in Procs :
       \/ Launch(p) \/ SweepNext(p) \/ TeardownNext(p) \/ Evict(p)
       \/ UseBegin(p) \/ UseNext(p) \/ Command(p) \/ Exit(p) \/ AgeSession(p)
  \/ AgeSentinel
  \/ AgeTree

Spec == Init /\ [][Next]_vars

\* A process that is alive goes on with what it has begun; nobody has to
\* start one, send it a command or kill it.
Fairness ==
  \A p \in Procs : WF_vars(SweepNext(p)) /\ WF_vars(TeardownNext(p)) /\ WF_vars(UseNext(p))

FairSpec == Spec /\ Fairness

-----------------------------------------------------------------------------
(* Properties.                                                             *)

\* Types, and what the disk cannot hold: a time stamp or changes without a
\* directory, commits without a branch.
TypeOK ==
  /\ tree \in Trees
  /\ registered \in BOOLEAN /\ branch \in BOOLEAN /\ young \in BOOLEAN
  /\ work \in SUBSET {"uncommitted", "committed"}
  /\ sentinel \in Ages \cup {"none"}
  /\ claims \in SUBSET Procs
  /\ reclaimer \in Procs \cup {Nobody}
  /\ pc \in [Procs -> {"down", "serving", "claim"} \cup Sweep \cup Teardown \cup Creating]
  /\ session \in [Procs -> BOOLEAN]
  /\ idle \in [Procs -> Ages]
  /\ author \in Procs \cup {Nobody}
  /\ mode \in [Procs -> {"sweep", "meta", "evict"}]
  /\ named \in [Procs -> BOOLEAN]
  /\ starts \in 0..MaxStarts
  /\ undercut \in SUBSET Procs
  /\ torn \in BOOLEAN

  /\ tree = "none" => sentinel = "none" /\ "uncommitted" \notin work
  /\ "committed" \in work => branch
  /\ sentinel # "none" => ~young

InUse(p) == session[p] \/ pc[p] \in Creating
Sweeping(p) == pc[p] \in Teardown /\ mode[p] # "evict"

\* No lock outlives its purpose: the shared claim is held exactly while a
\* session lives, is being built or is being evicted, the exclusive lock
\* exactly while a sweep tears down.  Both are released by forgetting a
\* guard and dropping a file descriptor, on every path out.
LocksHeld ==
  \A p \in Procs : /\ p \in claims <=> InUse(p) \/ Evicting(p)
                   /\ reclaimer = p <=> Sweeping(p)

\* While a sweep tears the worktree down, no other process creates, resumes
\* or uses it, and no other teardown runs: the claim is taken before git may
\* touch the directory and is held as long as the session lives, and the
\* sweeper keeps the exclusive lock until the branch is gone.
SweepAlone ==
  \A p, q \in Procs :
    p # q /\ Sweeping(q) => ~InUse(p) /\ pc[p] \notin Teardown

\* A session keeps its worktree, the git metadata and its branch, whatever
\* other processes do and wherever they die.  The one thing that takes them
\* away is an eviction by another owner of the same worktree.
SessionsKeepWorktree ==
  \A p \in Procs : session[p] /\ p \notin undercut => Openable /\ branch

Quiet == \A p \in Procs : pc[p] \notin Creating \cup Teardown

\* Worktree, metadata and branch come and go together (the "unity rule" of
\* eviction, and remove_with_branch), unless a process died half-way or an
\* eviction met another owner.
BranchGoesWithWorktree ==
  Quiet /\ ~torn => /\ branch <=> tree # "none"
                    /\ registered <=> tree # "none"

Resumes(p) == pc[p] = "create" /\ pc'[p] = "attach"

\* USE resumes a directory only when its checkout is complete, unless the
\* process that made the checkout is still at it or died in it.
ResumesWholeCheckout ==
  [][\A p \in Procs :
       Resumes(p) /\ ~torn /\ (\A q \in Procs : pc[q] # "checkout") => tree = "full"]_vars

\* A USE that waits for a sweep gets its claim, or its process ends.
UseGetsClaim == \A p \in Procs : pc[p] = "claim" ~> pc[p] # "claim"

StartsTeardown(p) == pc[p] # "prune" /\ pc'[p] = "prune"

\* A worktree with work is reclaimed only when no command of any process
\* reached it for SESSION_TTL_SECS: doc/architecture.md says "one with work
\* after 48 hours".
WorkKeptForTTL ==
  [][\A p \in Procs : StartsTeardown(p) /\ work # {} => sentinel \in {"none", "long"}]_vars

=============================================================================
