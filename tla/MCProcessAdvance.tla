-------------------------- MODULE MCProcessAdvance --------------------------
(***************************************************************************)
(* Instances of ProcessAdvance for TLC.                                    *)
(***************************************************************************)
EXTENDS ProcessAdvance, TLC

CONSTANTS p1, p2, u1, u2, a1, a2, v1, b1

\* An instance whose automation node lies between two approvals, and one that
\* ends behind its automation node
TwoPaths == p1 :> <<u1, a1, u2>> @@ p2 :> <<v1, b1>>
\* Two automation nodes in a row
OnePath == p1 :> <<u1, a1, a2, u2>>
=============================================================================
