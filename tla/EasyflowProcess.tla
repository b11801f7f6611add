--------------------------- MODULE EasyflowProcess ---------------------------
(***************************************************************************)
(* A drawing is published or refused (Convert of internal/pkg/easyflow),   *)
(* and one instance of what was published is run by the easy-workflow      *)
(* engine with the callbacks of internal/service/event/easyflow.           *)
(*                                                                         *)
(* The engine is a library outside src/.  What is assumed of it is what    *)
(* the converter and the callbacks rely on: a gateway waits for finished   *)
(* tasks of all (1), any (0) or none (3) of its PrevNodeIDs, a task node's *)
(* successors are the nodes that name it in theirs, a task behind gateways *)
(* has the last task node as prev_node_id, and an end archives what is     *)
(* left.  A call of the engine is worked off before the next one begins.   *)
(* Nobody rejects: where a rejection continues is the library's decision.  *)
(***************************************************************************)
EXTENDS EasyflowTrace

CONSTANTS
    Canvases,     \* what users draw
    MaxRows,      \* bound on the task records of the instance
    MaxLost       \* bound on proxies that are not passed in time

ASSUME CanvasAssumption ==
    /\ MaxRows \in Nat /\ MaxLost \in Nat
    /\ \A d \in Canvases :
        /\ IsFiniteSet(DOMAIN d.type)
        /\ \A n, m \in DOMAIN d.type : <<n, m>> \notin DOMAIN d.type  \* no id is a proxy's

VARIABLES
    drawing,      \* the drawing, with its edges deduplicated
    process,      \* the definition Convert returned
    truth,        \* the expressions the instance's variables satisfy
    rows,         \* proc_task and hist_proc_task
    agenda,       \* nodes the engine's call has yet to enter
    phase,        \* "drawn", "refused", "published", "running", "ended"
    walked,       \* the edges of the drawing that were taken
    lost          \* proxies whose automatic pass timed out

processVars == <<drawing, process, truth, rows, agenda, phase, walked, lost>>

Unpublished == [kind |-> <<>>]

RowsOf(n) == {i \in DOMAIN rows : rows[i].node = n}
Open == {i \in DOMAIN rows : rows[i].status = "open"}
IsFinished(n) == RowsOf(n) # {} /\ RowsOf(n) \intersect Open = {}

ProcessTypeOK ==
    /\ drawing.edges = DeduplicateEdges(drawing.edges)
    /\ phase \in {"drawn", "refused", "published", "running", "ended"}
    /\ phase \in {"published", "running", "ended"} => process = Convert(drawing)
    /\ \A i \in DOMAIN rows :
        /\ {rows[i].node, rows[i].prev} \subseteq Ids(process)
        /\ rows[i].status \in {"open", "passed", "skipped", "system"}
    /\ \A item \in agenda : {item.node, item.from, item.prev} \subseteq Ids(process)
    /\ walked \subseteq {<<e.src, e.dst>> : e \in drawing.edges}
    /\ lost \subseteq DOMAIN rows

ProcessInit ==
    /\ \E d \in Canvases : drawing = InitContext(d)
    /\ process = Unpublished /\ truth = {} /\ rows = <<>> /\ agenda = {}
    /\ phase = "drawn" /\ walked = {} /\ lost = {}

-----------------------------------------------------------------------------
(* Publication.                                                            *)

Publish ==
    /\ phase = "drawn" /\ ValidateAll(drawing)
    /\ process' = Convert(drawing)
    /\ phase' = "published"
    /\ UNCHANGED <<drawing, truth, rows, agenda, walked, lost>>

Refuse ==
    /\ phase = "drawn" /\ ~ ValidateAll(drawing)
    /\ phase' = "refused"
    /\ UNCHANGED <<drawing, process, truth, rows, agenda, walked, lost>>

-----------------------------------------------------------------------------
(* The engine.                                                             *)

Holds(expr) == expr = "" \/ expr \in truth

\* The nodes a finished task node n hands over to
AfterTask(n) == {[node |-> m, from |-> n, prev |-> n] : m \in {m \in Ids(process) : n \in process.prevs[m]}}

Rules == {e.expr : e \in {e \in drawing.edges : drawing.type[e.src] = "condition"}} \ {""}

\* The designer's expressions leave exactly one way out of every exclusive
\* gateway, and every selective gateway has a branch that is taken
Decided(t) ==
    /\ \A n \in OfType(drawing, {"condition"}) :
        LET open == {e \in TargetEdges(drawing, n) : e.expr = "" \/ e.expr \in t}
            selective == \E s \in PrevNodes(drawing, n) : drawing.type[s] = "selective"
        IN  Cardinality(open) = 1 \/ (selective /\ open = {})
    /\ \A s \in OfType(drawing, {"selective"}) :
        \E e \in Branches(drawing, s) : e.expr \in t

\* The canvas lets a task node have several successors; what the library does
\* with them is not to be seen in src/, so such a definition is not started
OneSuccessor ==
    \A n \in Ids(process) : process.kind[n] # "gateway" => Cardinality(AfterTask(n)) <= 1

StartInstance ==
    /\ phase = "published" /\ OneSuccessor
    /\ truth' \in {t \in SUBSET Rules : Decided(t)}
    /\ LET root == CHOOSE n \in Ids(process) : process.kind[n] = "root"
       IN  /\ rows' = <<[node |-> root, prev |-> root, status |-> "passed"]>>
           /\ agenda' = AfterTask(root)
    /\ phase' = "running"
    /\ UNCHANGED <<drawing, process, walked, lost>>

\* An edge between gateways is taken when the proxy on it is entered
Walk(item) ==
    IF process.kind[item.node] = "proxy" THEN walked \union {item.node}
    ELSE IF process.kind[item.from] = "proxy" THEN walked
    ELSE walked \union {<<item.from, item.node>>}

EnterTask(item) ==
    /\ item \in agenda /\ process.kind[item.node] \in {"task", "proxy"}
    /\ Len(rows) < MaxRows
    /\ rows' = Append(rows, [node |-> item.node, prev |-> item.prev, status |-> "open"])
    /\ agenda' = agenda \ {item}
    /\ walked' = Walk(item)
    /\ UNCHANGED <<drawing, process, truth, phase, lost>>

IsReady(n) ==
    CASE process.wait[n] = 1 -> \A m \in process.prevs[n] : IsFinished(m)
      [] process.wait[n] = 0 -> \E m \in process.prevs[n] : IsFinished(m)
      [] OTHER -> TRUE

Chosen(n) == {next \in process.next[n] : Holds(next.expr)}

\* EventSelectiveGatewaySplit runs before the gateway is looked at: what is
\* behind a condition that does not hold gets a skipped record.
SkippedBy(n) ==
    IF n \notin process.splits THEN {}
    ELSE UNION {{next.id : next \in {next \in process.next[c.id] : ~ Holds(next.expr)}}
                  : c \in process.next[n]}

Skipped(nodes, prev) ==
    LET order == SetToSeq(nodes)
    IN  [i \in DOMAIN order |-> [node |-> order[i], prev |-> prev, status |-> "skipped"]]

EnterGateway(item) ==
    /\ item \in agenda /\ process.kind[item.node] = "gateway"
    /\ rows' = rows \o Skipped(SkippedBy(item.node), item.prev)
    /\ agenda' = (agenda \ {item}) \union
                 IF IsReady(item.node)
                 THEN {[node |-> next.id, from |-> item.node, prev |-> item.prev]
                         : next \in Chosen(item.node)}
                 ELSE {}
    /\ walked' = Walk(item)
    /\ UNCHANGED <<drawing, process, truth, phase, lost>>

\* The end node archives the instance, and EventNotify closes the ticket
EnterEnd(item) ==
    /\ item \in agenda /\ process.kind[item.node] = "end"
    /\ phase' = "ended"
    /\ agenda' = {}
    /\ walked' = Walk(item)
    /\ UNCHANGED <<drawing, process, truth, rows, lost>>

\* UpdateIsFinishedByPreNodeId: the open tasks with the same prev_node_id.
\* Mutant of Siblings: they stay open
SiblingsNone(i) == {}
Siblings(i) ==
    IF rows[i].node \in process.ends
    THEN {j \in Open \ {i} : rows[j].prev = rows[i].prev} ELSE {}

PassRow(i) ==
    /\ phase = "running" /\ agenda = {} /\ i \in Open
    /\ rows' = [j \in DOMAIN rows |->
                  IF j = i THEN [rows[j] EXCEPT !.status = "passed"]
                  ELSE IF j \in Siblings(i) THEN [rows[j] EXCEPT !.status = "system"]
                  ELSE rows[j]]
    /\ agenda' = AfterTask(rows[i].node)
    /\ UNCHANGED <<drawing, process, truth, phase, walked, lost>>

PassTask(i) == process.kind[rows[i].node] = "task" /\ PassRow(i)

\* The goroutine of EventNotify passes the proxy's task when it appears
AutoPassNode(i) == process.kind[rows[i].node] = "proxy" /\ i \notin lost /\ PassRow(i)

\* or gives up after ten seconds, or dies with its process
AutoPassLost(i) ==
    /\ phase = "running" /\ i \in Open \ lost /\ process.kind[rows[i].node] = "proxy"
    /\ Cardinality(lost) < MaxLost
    /\ lost' = lost \union {i}
    /\ UNCHANGED <<drawing, process, truth, rows, agenda, phase, walked>>

ProcessNext ==
    \/ Publish \/ Refuse \/ StartInstance
    \/ \E item \in agenda : EnterTask(item) \/ EnterGateway(item) \/ EnterEnd(item)
    \/ \E i \in DOMAIN rows : PassTask(i) \/ AutoPassNode(i) \/ AutoPassLost(i)

ProcessSpec == ProcessInit /\ [][ProcessNext]_processVars

-----------------------------------------------------------------------------
(* Properties.                                                             *)

\* Shapes the validators let through although their runs may stop for ever.
\* A gateway straight behind one that is not exclusive: the proxy between them
\* is nobody's PrevNodeID, and the gateway in its place has no tasks.
BypassedProxy(g) == \E x \in Proxies(g) : g.type[x[1]] # "condition"

\* A join behind a skipped branch of which it does not name the first node
Joins(g) == {n \in OfType(g, Waiting \ {"inclusion"}) : Cardinality(PrevNodes(g, n)) > 1}
LongSkippedBranch(g) ==
    \E s \in OfType(g, {"selective"}) : \E e \in Branches(g, s) :
        \E j \in Joins(g) \intersect Descendants(g, e.dst) :
            j # e.dst /\ e.dst \notin PrevNodes(g, j)

\* A join that waits for a node only some ways out of an exclusive gateway lead
\* to, unless all of them meet there, which is refused
HalfJoined(g) ==
    \E c \in Forks(g, {"condition"}) : \E j \in Joins(g) : \E t \in Targets(g, c) :
        /\ j \in Descendants(g, t) /\ j \notin CommonGateways(g, c, TRUE)
        /\ \E m \in PrevNodes(g, j) : m \in Descendants(g, c) /\ m \notin Descendants(g, t)

Waits == agenda # {} \/ \E i \in Open : i \notin lost

\* A published process that has none of these shapes always has a task somebody
\* can pass until it ends, unless an automatic pass was lost: validator.go's
\* rules against deadlock do what converter.go promises of them.
StuckOnlyByShape ==
    (phase = "running" /\ ~ Waits) =>
        \/ lost # {}
        \/ BypassedProxy(drawing) \/ LongSkippedBranch(drawing) \/ HalfJoined(drawing)

\* converter.go:49 promises that drawings that deadlock are refused
PublishedNeverStuck == (phase = "running" /\ lost = {}) => Waits

\* Branches that run side by side and need not meet: the rule that they do is
\* for parallel gateways alone
UnpairedFork(g) ==
    \E n \in Forks(g, {"selective", "inclusion"}) : \E t \in Targets(g, n) :
        ScanBranchDownstream(g, t, FALSE).reachedEnd

\* An inclusive join is raced for.  The task that reaches it first closes the
\* open tasks with its own prev_node_id, and so not those of a branch of two
\* tasks; and an automation closes none.
OpenRace(g) ==
    LET tasks == Nodes(g) \ OfType(g, Gateways)
        long(n) == {o \in tasks : \E m \in (Descendants(g, n) \intersect tasks) \ {o} : o \in Descendants(g, m)}
    IN  \E j \in OfType(g, {"inclusion"}) :
          \/ \E m \in PrevNodes(g, j) : g.type[m] \in {"automation", "chat"}
          \/ \E n \in Forks(g, Waiting) \ {j} : \E o \in long(n) : j \in Descendants(g, o)

\* An instance does not end while a branch is open: validateParallelForkJoinPairing
EndsWhole == (phase = "ended" /\ Open # {}) => (UnpairedFork(drawing) \/ OpenRace(drawing))

\* No node of a process without loops is entered twice
EnteredOnce ==
    \/ UnpairedFork(drawing) \/ OpenRace(drawing)
    \/ \A n \in Ids(process) : process.kind[n] \in {"task", "proxy"} => Cardinality(RowsOf(n)) <= 1

\* Two ways of gateways alone lead from one task node to another: the records do
\* not tell which was taken, and the shorter one is shown
TwoWays(p) ==
    \E n, m \in {n \in Ids(p) : p.kind[n] \notin {"gateway", "proxy"}} :
        Cardinality(GatewayPaths(p, n, m)) > 1

\* An edge is shown as passed only if the process has gone along it
ShownIsTrue ==
    (phase \in {"running", "ended"} /\ agenda = {})
        => \/ PassedEdges(process, rows) \subseteq walked
           \/ UnpairedFork(drawing) \/ TwoWays(process)

\* Reference for validateAcyclic and validateReachability: no node leads back
\* to itself, and each lies between the start and an end
AcceptedIsSound ==
    phase \in {"published", "running"} =>
        \A n \in Nodes(drawing) :
            /\ \A m \in Targets(drawing, n) : n \notin Descendants(drawing, m)
            /\ \E s \in OfType(drawing, {"start"}) : n \in Descendants(drawing, s)
            /\ \E x \in OfType(drawing, {"end"}) : x \in Descendants(drawing, n)
=============================================================================
