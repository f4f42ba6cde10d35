-------------------------- MODULE MCPreparationItem --------------------------
(* Instance of PreparationItem for TLC. *)
EXTENDS PreparationItem
=============================================================================
