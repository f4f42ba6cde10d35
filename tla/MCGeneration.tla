---------------------------- MODULE MCGeneration ----------------------------
(* Instances of Generation for TLC. *)
EXTENDS Generation

AllModes == UNION {[kind : {k}, caller : Callers[k]] : k \in DOMAIN Callers}
=============================================================================
