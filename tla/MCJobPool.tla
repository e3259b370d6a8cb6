----------------------------- MODULE MCJobPool -----------------------------
(***************************************************************************)
(* JobPool for TLC.  Clients are interchangeable, but the run checks       *)
(* liveness too and uses no symmetry.                                      *)
(***************************************************************************)
EXTENDS JobPool

=============================================================================
