------------------------- MODULE MCResilientConsumer -------------------------
(***************************************************************************)
(* Instances of ResilientConsumer for TLC.                                 *)
(***************************************************************************)
EXTENDS ResilientConsumer, TLC
=============================================================================
