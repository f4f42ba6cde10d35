------------------------ MODULE MCPreparationWorkers ------------------------
(* Instances of PreparationWorkers for TLC. *)
EXTENDS PreparationWorkers, TLC

ThreadSymmetry == Permutations(Threads)
=============================================================================
