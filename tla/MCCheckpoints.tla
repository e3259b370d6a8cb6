--------------------------- MODULE MCCheckpoints ---------------------------
(***************************************************************************)
(* Checkpoints for TLC: files and their contents are interchangeable.  The *)
(* violation runs ask for behaviours no job and no ignored file has a part *)
(* in, which are behaviours of CheckpointsSpec.                            *)
(***************************************************************************)
EXTENDS Checkpoints, TLC

FileSymmetry == Permutations(Paths) \cup Permutations(FileContents)

QuietSpec == CheckpointsInit /\ ignored = {} /\ [][SessionNext]_checkpointsVars

=============================================================================
