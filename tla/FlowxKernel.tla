----------------------------- MODULE FlowxKernel -----------------------------
(***************************************************************************)
(* The kernel of the flowx engine (pkg/flowx/kernel): the pure functions    *)
(* that decide, from the definition of a process, its variables and a       *)
(* snapshot of its tasks, where the process goes next.                      *)
(*                                                                          *)
(* A task is named by its key, the parts GenTaskID puts into its id, and a  *)
(* snapshot maps keys to statuses.  A rule is a model value and the         *)
(* variables of an instance are the set of rules they satisfy.              *)
(***************************************************************************)
EXTENDS Integers, Sequences, SequencesExt

CONSTANTS
  Nodes,      \* the nodes of the definition
  Type,       \* the type of each node
  Sign,       \* the sign rule of each node
  Assignees,  \* the assignees of each node, a sequence without repetition
  Edges,      \* the edges in the order of the definition
  Always      \* the rule of an edge that has none

NodeType == {"START", "END", "APPROVAL", "CC", "TASK",
             "EXCLUSIVE", "PARALLEL", "INCLUSIVE"}
TaskStatus == {"pending", "passed", "rejected", "cancelled", "skipped"}

IsActivity(n) == Type[n] \in {"APPROVAL", "TASK", "CC"}
IsGateway(n) == Type[n] \in {"EXCLUSIVE", "PARALLEL", "INCLUSIVE"}
IsWaitState(n) == Type[n] = "APPROVAL"
CanRejectTo(n) == Type[n] \in {"APPROVAL", "START"}

(* Those of a sequence of edges that are in S, in their order.              *)
Among(edges, S) ==
  LET found[k \in 0..Len(edges)] ==
        IF k = 0 THEN <<>>
        ELSE IF edges[k] \in S THEN Append(found[k - 1], edges[k])
        ELSE found[k - 1]
  IN  found[Len(edges)]

OutEdges == [n \in Nodes |-> Among(Edges, {e \in ToSet(Edges) : e.source = n})]
InEdges == [n \in Nodes |-> Among(Edges, {e \in ToSet(Edges) : e.target = n})]
TargetsOf(edges) == [i \in DOMAIN edges |-> edges[i].target]

(* What Deploy accepts.                                                     *)
Validate ==
  /\ \E n \in Nodes : Type[n] = "END"
  /\ \E n \in Nodes : \A m \in Nodes : Type[m] = "START" <=> m = n
  /\ \A i \in DOMAIN Edges : /\ Edges[i].source \in Nodes
                             /\ Edges[i].target \in Nodes
                             /\ Edges[i].source # Edges[i].target
  /\ \A n \in Nodes :
       /\ Type[n] = "START" => InEdges[n] = <<>>
       /\ Type[n] = "END" => OutEdges[n] = <<>>
       /\ Type[n] = "START" \/ IsGateway(n) => OutEdges[n] # <<>>
       /\ Type[n] = "END" \/ IsGateway(n) => InEdges[n] # <<>>

ASSUME DefinitionAssumption ==
  /\ Edges \in Seq(ToSet(Edges))
  /\ Type \in [Nodes -> NodeType]
  /\ Sign \in [Nodes -> {"ONE_VOTE", "ALL_PASS"}]
  /\ DOMAIN Assignees = Nodes
  /\ Validate

StartNode == CHOOSE n \in Nodes : Type[n] = "START"

(***************************************************************************)
(* Transitions.                                                             *)
(***************************************************************************)
EvaluateEdge(e, variables) == e.rule = Always \/ e.rule \in variables

(* The targets of the edges that are taken: all of a parallel gateway, the  *)
(* first that matches of an exclusive one, else every edge that matches.    *)
Taken(n, variables) ==
  {e \in ToSet(OutEdges[n]) : Type[n] = "PARALLEL" \/ EvaluateEdge(e, variables)}

Targets(n, variables) ==
  LET matched == Among(OutEdges[n], Taken(n, variables))
  IN  IF Type[n] = "EXCLUSIVE" /\ matched # <<>>
        THEN <<Head(matched).target>>
        ELSE TargetsOf(matched)

\* Mutant of SkippedTargets: the nodes passed over leave no record
SkippedTargetsForgotten(n, variables) == <<>>

(* The targets an inclusive gateway passes over.                            *)
SkippedTargets(n, variables) ==
  IF Type[n] = "INCLUSIVE"
    THEN TargetsOf(Among(OutEdges[n], ToSet(OutEdges[n]) \ Taken(n, variables)))
    ELSE <<>>

(***************************************************************************)
(* Arbitration and joins.                                                   *)
(***************************************************************************)
TasksOf(n, snap) == {k \in DOMAIN snap : k.node = n}
BatchTasks(n, b, snap) == {k \in TasksOf(n, snap) : k.batch = b}
\* Mutant of LatestTasks: the round is that of the process, not of the node
LatestTasksOfProcess(n, snap) ==
  {k \in TasksOf(n, snap) : \A j \in DOMAIN snap : j.batch <= k.batch}

LatestTasks(n, snap) ==
  {k \in TasksOf(n, snap) : \A j \in TasksOf(n, snap) : j.batch <= k.batch}

(* The rule of the node on the tasks of one batch: one vote, or all.        *)
IsSatisfied(n, keys, snap) ==
  /\ keys # {}
  /\ IF Sign[n] = "ONE_VOTE" THEN \E k \in keys : snap[k] = "passed"
                             ELSE \A k \in keys : snap[k] = "passed"

\* Mutant of SkippedTasks: the other votes stay open
SkippedTasksNone(k, snap) == {}

(* The tasks that a passed vote makes superfluous.                          *)
SkippedTasks(k, snap) ==
  IF Sign[k.node] = "ONE_VOTE"
    THEN {j \in BatchTasks(k.node, k.batch, snap) \ {k} : snap[j] = "pending"}
    ELSE {}

(* The activities before a node, seen through gateways.  The recursion ends *)
(* only where no cycle of the definition consists of gateways alone.        *)
Preceding[n \in Nodes] ==
  UNION {LET s == InEdges[n][i].source
         IN  IF IsActivity(s) THEN {s} ELSE IF IsGateway(s) THEN Preceding[s] ELSE {} :
         i \in DOMAIN InEdges[n]}

IsPassed(n, snap) == IsSatisfied(n, LatestTasks(n, snap), snap)

IsResolved(n, type, snap) ==
  \/ IsPassed(n, snap)
  \/ /\ type = "INCLUSIVE"
     /\ \E k \in LatestTasks(n, snap) : snap[k] = "skipped"

\* Mutant of IsJoin: only a parallel gateway joins
IsJoinIfParallel(g) == Type[g] = "PARALLEL" /\ Len(InEdges[g]) > 1

(* Only a parallel or inclusive gateway of several edges waits.             *)
IsJoin(g) == Type[g] \in {"PARALLEL", "INCLUSIVE"} /\ Len(InEdges[g]) > 1

\* Mutant of IsJoinSatisfied: one branch is enough
IsJoinSatisfiedByOne(g, snap) ==
  IsJoin(g) => \E n \in Preceding[g] : IsResolved(n, Type[g], snap)

IsJoinSatisfied(g, snap) ==
  IsJoin(g) =>
    /\ \A n \in Preceding[g] : IsResolved(n, Type[g], snap)
    /\ Type[g] = "INCLUSIVE" /\ Preceding[g] # {} => \E n \in Preceding[g] : IsPassed(n, snap)

(***************************************************************************)
(* The next step: a breadth-first walk from the node that is done, through  *)
(* the gateways that let pass, to the nodes to activate.  An edge is queued *)
(* at most once, since a gateway is opened at most once.                    *)
(***************************************************************************)
Visit(w, variables, snap) ==
  IF w.queue = <<>> THEN w
  ELSE LET n == Head(w.queue)
           rest == [w EXCEPT !.queue = Tail(@)]
       IN  CASE ~IsGateway(n) -> [rest EXCEPT !.ready = IF Contains(@, n) THEN @ ELSE Append(@, n)]
             [] IsGateway(n) /\ ~IsJoinSatisfied(n, snap) -> [rest EXCEPT !.blocked = TRUE]
             [] IsGateway(n) /\ IsJoinSatisfied(n, snap) /\ n \in w.opened -> rest
             [] OTHER -> [rest EXCEPT !.opened = @ \cup {n},
                                      !.skipped = @ \o SkippedTargets(n, variables),
                                      !.queue = @ \o Targets(n, variables)]

ResolveNextStep(n, variables, snap) ==
  LET walk[k \in 0..Len(Edges)] ==
        IF k = 0
          THEN [queue |-> Targets(n, variables), opened |-> {}, blocked |-> FALSE,
                ready |-> <<>>, skipped |-> SkippedTargets(n, variables)]
          ELSE Visit(walk[k - 1], variables, snap)
  IN  walk[Len(Edges)]

(* The node a rejection goes back to: along the first edge that comes from  *)
(* an approval node or a gateway; Nowhere if there is none.                 *)
Nowhere == "nowhere"

FindUpstreamApprovalNode[n \in Nodes] ==
  LET back == Among(InEdges[n], {e \in ToSet(InEdges[n]) : Type[e.source] = "APPROVAL" \/ IsGateway(e.source)})
  IN  IF back = <<>> THEN Nowhere
      ELSE IF Type[Head(back).source] = "APPROVAL" THEN Head(back).source
      ELSE FindUpstreamApprovalNode[Head(back).source]
==============================================================================
