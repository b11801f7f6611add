---------------------------- MODULE EasyflowTrace ----------------------------
(***************************************************************************)
(* Which edges of a drawing a running instance is shown to have taken:     *)
(* GetTraversedEdges of internal/service/engine/engine.go, which derives   *)
(* them from the definition and the task records, and UpdateEdgeProperties *)
(* of internal/pkg/easyflow/utils.go, which tells passed from skipped.     *)
(*                                                                         *)
(* p is a definition as Convert makes it, rows the sequence of records     *)
(* [node, prev, status] in the order of their ids.  A node has one user,   *)
(* so a batch is a record.                                                 *)
(***************************************************************************)
EXTENDS EasyflowGraph, Sequences, SequencesExt

IsGateway(p, n) == p.kind[n] = "gateway"
IsProxyNode(p, n) == p.kind[n] = "proxy"
Ids(p) == DOMAIN p.kind

\* The nodes before n when the proxies are left out
ResolveRealPrevs(p, n) ==
    UNION {IF IsProxyNode(p, m) THEN p.prevs[m] ELSE {m} : m \in p.prevs[n]}
EffectiveNext(p, n) == {m \in Ids(p) : ~ IsProxyNode(p, m) /\ n \in ResolveRealPrevs(p, m)}

ResolveLogicalPrev(p, n) ==
    IF IsProxyNode(p, n) THEN CHOOSE m \in p.prevs[n] : TRUE ELSE n

\* Paths from a to b with nothing but gateways between
GatewayPaths(p, a, b) ==
    LET extended[k \in 0..Cardinality(Ids(p))] ==
            IF k = 0 THEN {<<a>>}
            ELSE LET r == extended[k - 1]
                 IN  UNION {{Append(path, n) : n \in {n \in EffectiveNext(p, Last(path)) : IsGateway(p, n)}}
                              : path \in r}
    IN  {Append(path, b) : path \in {path \in UNION Range(extended) : b \in EffectiveNext(p, Last(path))}}

\* findPathThroughGateways takes a shortest one; which of several depends on
\* the order of a Go map, and all count
FindPaths(p, a, b) ==
    LET paths == GatewayPaths(p, a, b)
    IN  {path \in paths : \A o \in paths : Len(path) <= Len(o)}
EdgesOf(path) == {<<path[i], path[i + 1]>> : i \in 1..(Len(path) - 1)}
PathEdges(p, a, b) == UNION {EdgesOf(path) : path \in FindPaths(p, a, b)}

\* A gateway behind which it is not known yet which way it goes.
\* Mutant of HidesNext: a join is looked through before it is open
HidesOnlyChoice(p, n) ==
    \/ p.wait[n] = 0
    \/ p.wait[n] = 3 /\ Cardinality(EffectiveNext(p, n)) > 1
HidesNext(p, n) ==
    \/ p.wait[n] = 1 /\ Cardinality(p.prevs[n]) > 1
    \/ p.wait[n] = 0
    \/ p.wait[n] = 3 /\ Cardinality(EffectiveNext(p, n)) > 1

\* lightUpForward to every node after n
LightUpForward(p, n) ==
    LET shown == [x \in Ids(p) |-> {m \in EffectiveNext(p, x) : IsGateway(p, m) /\ ~ HidesNext(p, m)}]
        lit == Spread({n}, shown, Cardinality(Ids(p)))
    IN  UNION {{<<x, m>> : m \in EffectiveNext(p, x)} : x \in lit}

RecursiveReset(p, lit, n) ==
    LET gone == Spread({n}, [x \in Ids(p) |-> {m \in Ids(p) : <<x, m>> \in lit /\ IsGateway(p, m)}],
                       Cardinality(Ids(p)))
    IN  {e \in lit : e[1] \notin gone}

OtherPending(rows, i) ==
    \E j \in DOMAIN rows : j # i /\ rows[j].node = rows[i].node /\ rows[j].status = "open"

\* What record i adds to the lit edges
LightUp(p, rows, i) ==
    LET row == rows[i]
        before == IF row.status = "system" \/ p.kind[row.node] = "root" THEN {}
                  ELSE PathEdges(p, ResolveLogicalPrev(p, row.prev), row.node)
        after == IF \/ row.status = "passed" /\ ~ OtherPending(rows, i)
                    \/ row.status = "skipped"
                 THEN LightUpForward(p, row.node) ELSE {}
    IN  before \union after

\* What is connected to the root is shown
GetTraversedEdges(p, rows) ==
    LET lit[i \in 0..Len(rows)] ==
            IF i = 0 THEN {}
            ELSE LET l == lit[i - 1]
                 IN  RecursiveReset(p, l, rows[i].node) \union LightUp(p, rows, i)
        all == lit[Len(rows)]
        root == CHOOSE n \in Ids(p) : p.kind[n] = "root"
        connected == Spread({root}, [x \in Ids(p) |-> {m \in Ids(p) : <<x, m>> \in all}],
                            Cardinality(Ids(p)))
    IN  {e \in all : e[1] \in connected}

\* The newest record of node n is one of a skipped branch
ShownSkipped(rows, n) ==
    \E i \in DOMAIN rows : /\ rows[i].node = n /\ rows[i].status = "skipped"
                           /\ \A j \in DOMAIN rows : rows[j].node = n => j <= i

\* The lit edges that are shown as passed.
PassedEdges(p, rows) ==
    {e \in GetTraversedEdges(p, rows) : \A n \in {e[1], e[2], e} : ~ ShownSkipped(rows, n)}
=============================================================================
