---------------------------- MODULE MCDistribuQ ----------------------------
(***************************************************************************)
(* Instances of DistribuQ for TLC: the constants that a .cfg file cannot   *)
(* write down, and the symmetries.  Ids of jobs, workers and requests are  *)
(* only ever compared for equality, so permuting them is sound for the     *)
(* runs that check safety.                                                 *)
(***************************************************************************)
EXTENDS JobRefinement, TLC

NoPriority == {0}
HighPriority == {1}
AllPriorities == {-1, 0, 1}

JobSymmetry == Permutations(Jobs)
ActorSymmetry == Permutations(Workers) \cup Permutations(Replayers)
=============================================================================
