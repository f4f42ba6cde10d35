------------------------- MODULE MCScriptExecution -------------------------
(* Instances of ScriptExecution for TLC. *)
EXTENDS ScriptExecution
=============================================================================
