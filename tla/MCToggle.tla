------------------------------- MODULE MCToggle -------------------------------
(* Constants for TLC. *)
EXTENDS ToggleBridge
=============================================================================
