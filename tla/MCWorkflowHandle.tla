-------------------------- MODULE MCWorkflowHandle --------------------------
(***************************************************************************)
(* Small instances of WorkflowHandle.                                      *)
(***************************************************************************)
EXTENDS WorkflowHandle

CONSTANTS p, q, f, g

=============================================================================
