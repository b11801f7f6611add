------------------------- MODULE WithdrawalContract -------------------------
(***************************************************************************)
(* What the withdrawal of a ticket promises (README, "自动化任务撤回补偿"), without *)
(* saying how: the process is frozen before the engine archives it, after  *)
(* that only compensations of successful actions run, and the ticket is    *)
(* withdrawn only when all of them have succeeded. Until the engine has    *)
(* archived the instance the withdrawal can be taken back, afterwards not. *)
(* A process that comes to its end cuts the withdrawal off, wherever it    *)
(* is; then no action starts any more.                                     *)
(***************************************************************************)
CONSTANTS
    Nodes,   \* the automation nodes of the process definition
    NoNode,
    CompOf   \* the compensation of a node, or NoNode

VARIABLES
    phase,     \* where the withdrawal is
    running,   \* nodes whose action is submitted or running
    succeeded  \* nodes whose action has succeeded

contract == <<phase, running, succeeded>>

Phases == {"open", "frozen", "compensating", "withdrawn", "ended"}

CompensationsOf(S) == {CompOf[n] : n \in S} \ {NoNode}

\* The compensations due once the actions in S have succeeded: an action that
\* is itself a compensation is not compensated again
Due(S) == CompensationsOf(S \ CompensationsOf(Nodes))

ContractInit == phase = "open" /\ running = {} /\ succeeded = {}

\* An action starts: any action of an open process, afterwards only the
\* compensation of a successful one
Run(n) ==
    /\ n \notin running \cup succeeded
    /\ \/ phase = "open"
       \/ phase = "compensating" /\ n \in CompensationsOf(succeeded)
    /\ running' = running \cup {n}
    /\ UNCHANGED <<phase, succeeded>>

Succeed(n) ==
    /\ n \in running
    /\ running' = running \ {n}
    /\ succeeded' = succeeded \cup {n}
    /\ UNCHANGED phase

Fail(n) ==
    /\ n \in running
    /\ running' = running \ {n}
    /\ UNCHANGED <<phase, succeeded>>

Enter(p) == phase' = p /\ UNCHANGED <<running, succeeded>>

Freeze == phase = "open" /\ running \subseteq CompensationsOf(succeeded)
                         /\ Enter("frozen")
Thaw    == phase = "frozen" /\ Enter("open")
Archive == phase = "frozen" /\ Enter("compensating")
Close   == /\ phase = "compensating"
           /\ running = {}
           /\ Due(succeeded) \subseteq succeeded
           /\ Enter("withdrawn")
End     == phase # "ended" /\ Enter("ended")

ContractNext ==
    \/ \E n \in Nodes : Run(n) \/ Succeed(n) \/ Fail(n)
    \/ Freeze \/ Thaw \/ Archive \/ Close \/ End

ContractSpec == ContractInit /\ [][ContractNext]_contract
=============================================================================
