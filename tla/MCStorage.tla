----------------------------- MODULE MCStorage -----------------------------
(***************************************************************************)
(* What processes and threads share, for TLC in one run; part says whose   *)
(* behaviour it is: the processes that create and reclaim a worktree       *)
(* (WorktreeLiveness), the threads that open segments through one cache    *)
(* (OpenCache), or the attachers, processes or threads of one, that build  *)
(* and read an overlay (OverlayStore).                                     *)
(*                                                                         *)
(* They share no state here; OverlayStore uses the promise of the cache.   *)
(* The parts that do not run stay in an initial state, where no step that  *)
(* fairness asks for is enabled, so fairness can be asked for all.  Much   *)
(* is interchangeable, but the run checks liveness and uses no symmetry.   *)
(***************************************************************************)
EXTENDS WorktreeLiveness, OpenCache, OverlayStore

VARIABLE part
storageVars == <<vars, cacheVars, storeVars, part>>

StorageInit ==
  /\ Init /\ CacheInit /\ StoreInit
  /\ part \in {"processes", "cache", "store"}
  /\ part # "store" => overlay = "none"
  /\ local = {} \/ (part = "store" /\ local = Attachers)

Worktrees == part = "processes" /\ Next /\ UNCHANGED <<cacheVars, storeVars>>
Threads == part = "cache" /\ CacheNext /\ UNCHANGED <<vars, storeVars>>
Stores == part = "store" /\ StoreNext /\ UNCHANGED <<vars, cacheVars>>

StorageNext == (Worktrees \/ Threads \/ Stores) /\ UNCHANGED part

StorageSpec ==
  /\ StorageInit /\ [][StorageNext]_storageVars
  /\ Fairness /\ CacheFairness /\ StoreFairness

=============================================================================
