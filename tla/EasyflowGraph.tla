---------------------------- MODULE EasyflowGraph ----------------------------
(***************************************************************************)
(* From a drawn workflow to the definition the easy-workflow engine runs:  *)
(* internal/pkg/easyflow (converter.go, validator.go, handlers.go,         *)
(* types.go).                                                              *)
(*                                                                         *)
(* A drawing is [type, edges]: the type of each node of the canvas and a   *)
(* set of edges [no, src, dst, expr], no being the edge's place in the     *)
(* drawing's list.  Expressions are opaque and "" is the empty one.        *)
(* Node properties (assignees, scripts, names) are left out.               *)
(***************************************************************************)
EXTENDS Naturals, FiniteSets, Functions

Types == {"start", "end", "user", "condition", "parallel", "inclusion",
          "selective", "automation", "chat"}

WithNext(S, next) == UNION {{n} \union next[n] : n \in S}

\* What can be reached from S in at most bound steps, next[n] being behind n
Spread(S, next, bound) ==
    LET reach[k \in 0..bound] ==
            IF k = 0 THEN S
            ELSE WithNext(reach[k - 1], next)
    IN  reach[bound]

-----------------------------------------------------------------------------
(* The context of a conversion: initContext and its lookups.               *)

\* Edges drawn on top of each other become one: the first with an expression,
\* or else the first.
DeduplicateEdges(edges) ==
    LET copies(e) == {o \in edges : o.src = e.src /\ o.dst = e.dst}
        filled(e) == {o \in copies(e) : o.expr # ""}
        pool(e) == IF filled(e) = {} THEN copies(e) ELSE filled(e)
    IN  {e \in edges : e \in pool(e) /\ \A o \in pool(e) : e.no <= o.no}

InitContext(d) == [d EXCEPT !.edges = DeduplicateEdges(@)]

Nodes(g) == DOMAIN g.type
OfType(g, types) == {n \in Nodes(g) : g.type[n] \in types}
TargetEdges(g, n) == {e \in g.edges : e.src = n}
Targets(g, n) == {e.dst : e \in TargetEdges(g, n)}
PrevNodes(g, n) == {e.src : e \in {e \in g.edges : e.dst = n}}
Forward(g) == [n \in Nodes(g) |-> Targets(g, n)]
Backward(g) == [n \in Nodes(g) |-> PrevNodes(g, n)]
Descendants(g, n) == Spread({n}, Forward(g), Cardinality(Nodes(g)))

-----------------------------------------------------------------------------
(* The validators, in the order of ValidateAll.                            *)

SupportedNodeTypes(g) == Range(g.type) \subseteq Types

EdgeEndpoints(g) == \A e \in g.edges : {e.src, e.dst} \subseteq Nodes(g)

NoSelfLoops(g) == \A e \in g.edges : e.src # e.dst

StartEnd(g) ==
    /\ Cardinality(OfType(g, {"start"})) = 1
    /\ \A n \in OfType(g, {"start"}) : PrevNodes(g, n) = {}
    /\ OfType(g, {"end"}) # {}
    /\ \A n \in OfType(g, {"end"}) : Targets(g, n) = {}

\* Kahn's algorithm: a node is taken when all its incoming edges have been
\* walked; in a graph with a cycle some node is never taken.
\* Mutant of Acyclic: a node is taken when one of its incoming edges is walked
AcyclicByOneEdge(g) ==
    LET roots == {n \in Nodes(g) : PrevNodes(g, n) = {}}
    IN  Spread(roots, Forward(g), Cardinality(Nodes(g))) = Nodes(g)
Acyclic(g) ==
    LET taken[k \in 0..Cardinality(Nodes(g))] ==
            IF k = 0 THEN {}
            ELSE LET r == taken[k - 1] IN {n \in Nodes(g) : PrevNodes(g, n) \subseteq r}
    IN  taken[Cardinality(Nodes(g))] = Nodes(g)

Reachability(g) ==
    LET size == Cardinality(Nodes(g))
    IN  /\ Spread(OfType(g, {"start"}), Forward(g), size) = Nodes(g)
        /\ Spread(OfType(g, {"end"}), Backward(g), size) = Nodes(g)

IsMergeGateway(g, n) == g.type[n] \in {"parallel", "inclusion"}

\* Where a branch leads to: the first gateways that join, and whether there is
\* a way to an end that passes none
ScanBranchDownstream(g, n, stopAtExclusiveJoin) ==
    LET isExclusiveJoin(x) ==
            g.type[x] = "condition" /\ Cardinality(PrevNodes(g, x)) > 1
        stops(x) == \/ IsMergeGateway(g, x)
                    \/ stopAtExclusiveJoin /\ isExclusiveJoin(x)
        visited == Spread({n}, [x \in Nodes(g) |-> IF stops(x) THEN {} ELSE Targets(g, x)],
                          Cardinality(Nodes(g)))
    IN  [gateways |-> {x \in visited : IsMergeGateway(g, x)},
         reachedEnd |-> visited \intersect OfType(g, {"end"}) # {}]

CommonGateways(g, n, stopAtExclusiveJoin) ==
    {x \in Nodes(g) : \A t \in Targets(g, n) :
        x \in ScanBranchDownstream(g, t, stopAtExclusiveJoin).gateways}

Forks(g, types) == {n \in OfType(g, types) : Cardinality(Targets(g, n)) >= 2}

\* Mutant of ConditionParallelDeadlock: the rule is not there
ConditionParallelIgnored(g) == TRUE
ConditionParallelDeadlock(g) ==
    \A n \in Forks(g, {"condition"}) : CommonGateways(g, n, TRUE) = {}

\* Mutant of ParallelForkJoinPairing: a branch may lead straight to an end
ForkJoinPairingOnly(g) ==
    \A n \in Forks(g, {"parallel"}) : CommonGateways(g, n, FALSE) # {}
ParallelForkJoinPairing(g) ==
    \A n \in Forks(g, {"parallel"}) :
        /\ \A t \in Targets(g, n) : ~ ScanBranchDownstream(g, t, FALSE).reachedEnd
        /\ CommonGateways(g, n, FALSE) # {}

SelectiveTargetsMustBeCondition(g) ==
    \A n \in OfType(g, {"selective"}) : \A t \in Targets(g, n) : g.type[t] = "condition"

SelectiveMinBranches(g) == OfType(g, {"selective"}) \subseteq Forks(g, {"selective"})

ConditionEdgeExpression(g) ==
    \A n \in OfType(g, {"condition"}) :
        (\/ n \in Forks(g, {"condition"})
         \/ \E p \in PrevNodes(g, n) : g.type[p] = "selective")
            => \A e \in TargetEdges(g, n) : e.expr # ""

\* The branches of one gateway, beginning with its conditions if it is selective
Branches(g, n) ==
    IF g.type[n] = "selective"
    THEN UNION {TargetEdges(g, t) : t \in Targets(g, n)}
    ELSE TargetEdges(g, n)

NoDuplicateConditionExpressions(g) ==
    \A n \in OfType(g, {"selective"}) \union Forks(g, {"condition"}) :
        \A e, o \in Branches(g, n) : (e.expr = o.expr /\ e.expr # "") => e = o

ValidateAll(g) ==
    /\ SupportedNodeTypes(g)
    /\ EdgeEndpoints(g)
    /\ NoSelfLoops(g)
    /\ StartEnd(g)
    /\ Acyclic(g)
    /\ Reachability(g)
    /\ ConditionParallelDeadlock(g)
    /\ ParallelForkJoinPairing(g)
    /\ SelectiveTargetsMustBeCondition(g)
    /\ SelectiveMinBranches(g)
    /\ ConditionEdgeExpression(g)
    /\ NoDuplicateConditionExpressions(g)

-----------------------------------------------------------------------------
(* The conversion.  The engine finds the successor of a task node in the   *)
(* PrevNodeIDs of other nodes and that of a gateway in its configuration,  *)
(* and a gateway waits for tasks of its PrevNodeIDs.  Between two gateways *)
(* there is no task to wait for; a proxy node <<src, dst>> is put there,   *)
(* which the system passes by itself.                                      *)

Waiting == {"parallel", "inclusion", "selective"}
Gateways == Waiting \union {"condition"}

NeedsProxy(g, dst) == g.type[dst] \in Waiting
GetOrGenerateProxyID(g, src, dst) == IF NeedsProxy(g, dst) THEN <<src, dst>> ELSE dst

GetOrGenerateProxyForGateway(g, src, dst) ==
    IF g.type[src] = "condition" THEN <<src, dst>> ELSE src

Proxies(g) ==
    {<<e.src, e.dst>> : e \in {e \in g.edges : g.type[e.src] \in Gateways /\ NeedsProxy(g, e.dst)}}

PrevNodeIDs(g, n) ==
    IF n \in Proxies(g) THEN {n[1]}
    ELSE IF g.type[n] \in Waiting
    THEN {GetOrGenerateProxyForGateway(g, p, n) : p \in PrevNodes(g, n)}
    ELSE PrevNodes(g, n)

\* What follows a gateway, and the expression that decides on it; "" is the
\* "1 = 1" of an edge without one and the fate of inevitable nodes
NextOf(g, n) ==
    {[id |-> GetOrGenerateProxyID(g, n, e.dst),
      expr |-> IF g.type[n] = "condition" THEN e.expr ELSE ""] : e \in TargetEdges(g, n)}

WaitForAllPrevNode(g, n) ==
    CASE g.type[n] = "inclusion" -> 0
      [] g.type[n] = "condition" -> 3
      [] OTHER                  -> 1

Kind(g, n) ==
    IF n \in Proxies(g) THEN "proxy"
    ELSE CASE g.type[n] = "start"   -> "root"
           [] g.type[n] = "end"     -> "end"
           [] g.type[n] \in Gateways -> "gateway"
           [] OTHER                 -> "task"

\* Whether the tasks of a node carry EventTaskInclusionNodePass
PassesInclusion(g, n) ==
    IF n \in Proxies(g) THEN g.type[n[2]] = "inclusion"
    ELSE g.type[n] = "user" /\ \E t \in Targets(g, n) : g.type[t] = "inclusion"

\* Whether they carry EventInclusionPassCleanup
CleansInclusion(g, n) ==
    /\ n \in OfType(g, {"user"})
    /\ \E c \in PrevNodes(g, n) :
        g.type[c] = "condition" /\ \E p \in PrevNodes(g, c) : g.type[p] = "inclusion"

\* EventTaskSelectiveNodePass (types.go:106, :136), on a proxy in front of a
\* selective gateway, is left out: it names no method of ProcessEvent, and what
\* the library does then is not to be seen in src/.  MCEasyflow has no drawing
\* with a gateway directly in front of a selective one.
Convert(g) ==
    LET ids == Nodes(g) \union Proxies(g)
        gateways == OfType(g, Gateways)
    IN  [kind |-> [n \in ids |-> Kind(g, n)],
         prevs |-> [n \in ids |-> PrevNodeIDs(g, n)],
         next |-> [n \in gateways |-> NextOf(g, n)],
         wait |-> [n \in gateways |-> WaitForAllPrevNode(g, n)],
         splits |-> OfType(g, {"selective"}),
         ends |-> {n \in ids : PassesInclusion(g, n) \/ CleansInclusion(g, n)}]
=============================================================================
