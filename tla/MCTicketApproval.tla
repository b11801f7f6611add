-------------------------- MODULE MCTicketApproval --------------------------
(***************************************************************************)
(* Instances of TicketApproval for TLC.                                    *)
(***************************************************************************)
EXTENDS TicketApproval, TLC

Symmetry == Permutations(Requests)
=============================================================================
