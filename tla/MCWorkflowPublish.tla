-------------------------- MODULE MCWorkflowPublish --------------------------
(***************************************************************************)
(* Instances of WorkflowPublish for TLC.                                   *)
(***************************************************************************)
EXTENDS WorkflowPublish, TLC

Symmetry == Permutations(Workflows) \cup Permutations(Names)
              \cup Permutations(Publishers)
=============================================================================
