---------------------------- MODULE MCWithdrawal ----------------------------
(* A grant that is compensated by a revocation, which names a compensation   *)
(* of its own.                                                               *)
EXTENDS Withdrawal, TLC

CONSTANTS grant, reclaim, report

MCNodes == {grant, reclaim, report}

MCChain == [n \in Nodes |-> CASE n = grant -> reclaim
                             [] n = reclaim -> report
                             [] OTHER -> NoNode]
=============================================================================
