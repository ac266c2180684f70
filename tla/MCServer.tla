----------------------------- MODULE MCServer -----------------------------
(* Instances of Server for TLC. *)
EXTENDS ServerDialogue
=============================================================================
