------------------------ MODULE MCPreparationRunStore ------------------------
(* Symmetry for the two store runs.  Only the arrival order of actions and  *)
(* the order of statuses matter to the store, never the identity of a run,  *)
(* a token or an item.                                                      *)
EXTENDS PreparationRunStore, TLC

StoreSymmetry ==
  Permutations(Runs) \cup Permutations(Tokens) \cup Permutations(Items)
=============================================================================
