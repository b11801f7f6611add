---------------------------- MODULE MCTicketStart ----------------------------
(***************************************************************************)
(* Instances of TicketStart for TLC.                                       *)
(***************************************************************************)
EXTENDS TicketStart, TLC

Symmetry == Permutations(Tickets) \cup Permutations(Instances)
=============================================================================
