------------------------- MODULE MCResumableCampaign -------------------------
(* Instances of ResumableCampaign for TLC. *)
EXTENDS ResumableCampaign, TLC

\* Nothing tells processes apart but their names.
Symmetry == Permutations(Procs)
=============================================================================
