-------------------------- MODULE MCCheckpointStore --------------------------
(* Instances of CheckpointStore for TLC. *)
EXTENDS CheckpointStore, TLC

Symmetry == Permutations(Procs) \cup Permutations(Identities)
==============================================================================
