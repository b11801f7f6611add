------------------------------- MODULE MCFlowx -------------------------------
(***************************************************************************)
(* Process definitions on which TLC checks FlowxEngine.  A node's name says *)
(* what it is: S starts and E ends; L, A, A2, B, C and D are approvals; F   *)
(* and J parallel, I and K inclusive and X and Y exclusive gateways; T is   *)
(* automated; N and M are carbon copies, M without assignees.               *)
(***************************************************************************)
EXTENDS FlowxEngine

If(rule, source, target) == [source |-> source, target |-> target, rule |-> rule]
Edge(source, target) == If(Always, source, target)

(* L, then A and B in parallel, then C.                                     *)
Parallel ==
  << Edge("S", "L"), Edge("L", "F"), Edge("F", "A"), Edge("F", "B"),
     Edge("A", "J"), Edge("B", "J"), Edge("J", "C"), Edge("C", "E") >>

(* The same with a branch of two nodes, A and A2.                           *)
TwoStage ==
  << Edge("S", "L"), Edge("L", "F"), Edge("F", "A"), Edge("F", "B"), Edge("A", "A2"),
     Edge("A2", "J"), Edge("B", "J"), Edge("J", "C"), Edge("C", "E") >>

(* The same with a branch without nodes.                                    *)
EmptyBranch ==
  << Edge("S", "F"), Edge("F", "A"), Edge("F", "J"),
     Edge("A", "J"), Edge("J", "C"), Edge("C", "E") >>

(* A and A2, and B, as their rules say, then C.                             *)
InclusiveTwoStage ==
  << Edge("S", "L"), Edge("L", "I"), If("r", "I", "A"), If("q", "I", "B"), Edge("A", "A2"),
     Edge("A2", "K"), Edge("B", "K"), Edge("K", "C"), Edge("C", "E") >>

(* Automation, carbon copies, nodes with several exits, a node nobody is    *)
(* assigned to, a way back to a node already visited, then A and B as their *)
(* rules say, then C.                                                       *)
Conditional ==
  << Edge("S", "X"), If("r", "X", "T"), If("q", "X", "D"), Edge("X", "L"),
     Edge("T", "N"), Edge("N", "M"), Edge("M", "L"),
     Edge("D", "E"), Edge("L", "Y"), If("r", "Y", "I"), If("q", "Y", "L"), Edge("Y", "I"),
     If("r", "I", "A"), If("q", "I", "B"), Edge("A", "K"), Edge("B", "K"),
     Edge("K", "C"), Edge("C", "E") >>

(* A parallel to a carbon copy that is followed by the end.                 *)
CopyBeforeEnd ==
  << Edge("S", "F"), Edge("F", "A"), Edge("F", "N"), Edge("N", "E"), Edge("A", "E") >>

(* A parallel to a carbon copy to nobody.                                   *)
CopyToNobody ==
  << Edge("S", "F"), Edge("F", "A"), Edge("F", "M"),
     Edge("A", "J"), Edge("M", "J"), Edge("J", "C"), Edge("C", "E") >>

NodesOf(edges) == {edges[i].source : i \in DOMAIN edges} \cup {edges[i].target : i \in DOMAIN edges}
ASSUME NodesNamed == Nodes = NodesOf(Edges)

MCType ==
  [n \in Nodes |->
     CASE n = "S" -> "START"
       [] n = "E" -> "END"
       [] n \in {"F", "J"} -> "PARALLEL"
       [] n \in {"I", "K"} -> "INCLUSIVE"
       [] n \in {"X", "Y"} -> "EXCLUSIVE"
       [] n = "T" -> "TASK"
       [] n \in {"N", "M"} -> "CC"
       [] OTHER -> "APPROVAL"]

(* B is decided by one vote.                                                *)
MCSign == [n \in Nodes |-> IF n = "B" THEN "ONE_VOTE" ELSE "ALL_PASS"]

(* One assignee each, but nobody at D and M.                                *)
OneEach == [n \in Nodes |-> IF n \in {"D", "M"} THEN <<>> ELSE <<"ann">>]

(* The same, with two assignees at A, or at B.                              *)
TwoAtA == [OneEach EXCEPT !["A"] = <<"ann", "bob">>]
TwoAtB == [OneEach EXCEPT !["B"] = <<"ann", "bob">>]

(* The definition Parallel is staged, so that the theorems about staged      *)
(* definitions are about it.                                                *)
ParallelPlaces ==
  [n \in Nodes |->
     CASE n = "S" -> 0 [] n = "L" -> 1 [] n = "F" -> 2 [] n \in {"A", "B"} -> 3
       [] n = "J" -> 4 [] n = "C" -> 5 [] OTHER -> 6]

ASSUME ParallelIsStaged == Edges = Parallel => Staged(ParallelPlaces)

NoVariables == {{}}
AnyVariables == SUBSET {"r", "q"}
ToStarter == {"S"}
ToStarterOrLeader == {"S", "L"}
BeforeTheFork == {"S", "T", "D", "L"}
==============================================================================
