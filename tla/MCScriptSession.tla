-------------------------- MODULE MCScriptSession --------------------------
(* Two runs, of the script and of others, and an event of each. *)
EXTENDS ScriptSession, TLC
=============================================================================
