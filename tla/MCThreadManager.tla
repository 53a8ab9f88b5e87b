-------------------------- MODULE MCThreadManager --------------------------
(***************************************************************************)
(* Small instances of ThreadManager.                                       *)
(***************************************************************************)
EXTENDS ThreadManager, TLC

\* Tasks and task threads differ in nothing but their names.
Symmetry == Permutations(Tasks) \cup Permutations(TaskThreads)

=============================================================================
