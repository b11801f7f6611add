-------------------------- MODULE MCAutomationTask --------------------------
(***************************************************************************)
(* Instances of AutomationTask for TLC: the cfg files name the tasks and   *)
(* the goroutines as model values.                                         *)
(***************************************************************************)
EXTENDS AutomationTask
=============================================================================
