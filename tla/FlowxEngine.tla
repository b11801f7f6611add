----------------------------- MODULE FlowxEngine -----------------------------
(***************************************************************************)
(* The flowx engine (pkg/flowx): what its callers do to the instances and   *)
(* tasks of one process definition.                                         *)
(*                                                                          *)
(* A call reads the instance and all its tasks into a session, works on     *)
(* that snapshot and writes every change through to the storage.  Its work  *)
(* is an agenda: the nodes still to be activated and the instance to be     *)
(* saved, in the order in which the recursion of applyStepDecision and      *)
(* activateNodes gets to them.                                              *)
(*                                                                          *)
(* Transactional calls run inside DoTx of the MySQL storage.  The row of    *)
(* the instance, read FOR UPDATE, makes them wait for each other, and a     *)
(* call that fails leaves nothing behind.  Otherwise each statement commits *)
(* at once, and a call that fails leaves behind what it has written.        *)
(***************************************************************************)
EXTENDS FlowxKernel

CONSTANTS
  Callers,        \* the goroutines that call the engine
  Instances,      \* the instances that may be started
  Starter,        \* who starts them
  Variables,      \* what the variables may become: sets of rules they satisfy
  RejectTargets,  \* the nodes a rejection may name as its target
  Transactional,  \* whether calls are wrapped in DoTx
  Crashes,        \* whether a call may die half-way
  StatementsFail, \* whether a statement whose error the engine ignores may fail
  MaxBatch        \* bound on the number of rounds

ASSUME EngineAssumption ==
  /\ RejectTargets \subseteq Nodes
  /\ MaxBatch \in Nat \ {0}
  /\ {Transactional, Crashes, StatementsFail} \subseteq BOOLEAN

VARIABLES
  tasks,    \* the task table: for each primary key the instance and the status
  inst,     \* the instance table: status and variables
  session   \* the call each caller is in the middle of

vars == <<tasks, inst, session>>

InstanceStatus == {"none", "running", "finished", "rejected", "cancelled"}

Save == [do |-> "save", node |-> Nowhere, ends |-> FALSE]
Idle == [do |-> "idle"]

TaskKey == [node : Nodes, batch : 1..MaxBatch, user : STRING, seq : Nat]
Item == [do : {"activate"}, node : Nodes, ends : BOOLEAN] \cup {Save}

(* The tables and the sessions have their types.                            *)
TypeOK ==
  /\ \A k \in DOMAIN tasks : k \in TaskKey /\ tasks[k] \in [inst : Instances, status : TaskStatus]
  /\ \A i \in Instances : inst[i].status \in InstanceStatus
  /\ \A c \in Callers : session[c] # Idle =>
       LET s == session[c] IN
       /\ s.do \in {"decide", "revoke", "advance"}
       /\ s.inst \in Instances
       /\ s.batch \in 1..MaxBatch
       /\ \A k \in DOMAIN s.snap : k \in TaskKey /\ s.snap[k] \in TaskStatus
       /\ s.status \in InstanceStatus \ {"none"}
       /\ \A j \in DOMAIN s.agenda : s.agenda[j] \in Item
       /\ s.do = "advance" => s.agenda # <<>> /\ Last(s.agenda) = Save

Init ==
  /\ tasks = << >>
  /\ inst = [i \in Instances |-> [status |-> "none", variables |-> {}]]
  /\ session = [c \in Callers |-> Idle]

(***************************************************************************)
(* The session.                                                             *)
(***************************************************************************)
Snapshot(i) == [k \in {j \in DOMAIN tasks : tasks[j].inst = i} |-> tasks[k].status]
Rows(s, keys) == [k \in keys |-> [inst |-> s.inst, status |-> s.snap[k]]]

Over(f, g) == [k \in DOMAIN f \cup DOMAIN g |-> IF k \in DOMAIN f THEN f[k] ELSE g[k]]

\* Mutant of MayBegin: the row is not locked
MayBeginAtOnce(c) == session[c] = Idle

(* The instance's row is free, so that a transaction may begin.             *)
MayBegin(c) ==
  /\ session[c] = Idle
  /\ Transactional => \A d \in Callers : session[d] = Idle

(* The storage after the session has changed the tasks in keys.             *)
WriteThrough(s, keys) ==
  tasks' = IF Transactional THEN tasks ELSE Over(Rows(s, keys), tasks)

Continue(c, s, keys) ==
  /\ session' = [session EXCEPT ![c] = s]
  /\ WriteThrough(s, keys)
  /\ UNCHANGED inst

(* The call returns an error.                                               *)
Fail(c, s, keys) ==
  /\ session' = [session EXCEPT ![c] = Idle]
  /\ WriteThrough(s, keys)
  /\ UNCHANGED inst

SetStatus(s, keys, status) ==
  [s EXCEPT !.snap = [k \in DOMAIN @ |-> IF k \in keys THEN status ELSE @[k]]]

(* The session goes on with an agenda.                                      *)
Advance(s, agenda) == [s EXCEPT !.do = "advance", !.agenda = agenda]

AddTasks(s, keys, status) == [s EXCEPT !.snap = Over(@, [k \in keys |-> status])]

(* Whether the primary keys are unused: SaveTasks inserts all or none.      *)
Insertable(s, keys) == keys \cap (DOMAIN tasks \cup DOMAIN s.snap) = {}

(* The keys GenTaskID gives the tasks of a node's users.                    *)
KeysFor(n, users, b) ==
  {[node |-> n, batch |-> b, user |-> users[i], seq |-> i] : i \in DOMAIN users}

(* What activateNodes has to do.  An end node finishes the instance only if *)
(* none of the nodes activated with it is a wait state.                     *)
ActivateNodes(nodes) ==
  LET ends == \A i \in DOMAIN nodes : ~IsWaitState(nodes[i])
  IN  [i \in DOMAIN nodes |-> [do |-> "activate", node |-> nodes[i], ends |-> ends]]

(* A statement whose error is ignored changes its rows, or none.            *)
Attempted(rows) == {rows} \cup IF StatementsFail THEN {{}} ELSE {}

(* Resolve the step after node n and apply the decision: record the skipped *)
(* nodes (an error of that insert is ignored), wait if a join is not        *)
(* satisfied, fail if there is no way on, else activate the ready nodes.    *)
ApplyStepDecision(c, s, n, keys) ==
  LET dec == ResolveNextStep(n, s.variables, s.snap)
      skips == {[node |-> dec.skipped[i], batch |-> s.batch, user |-> "system_skip", seq |-> i] :
                i \in DOMAIN dec.skipped}
  IN  \E saved \in Attempted(IF Insertable(s, skips) THEN skips ELSE {}) :
        LET t == AddTasks(s, saved, "skipped")
        IN  IF dec.blocked
              THEN Continue(c, Advance(t, <<Save>> \o t.agenda), keys \cup saved)
            ELSE IF dec.ready = <<>>
              THEN Fail(c, t, keys \cup saved)
              ELSE Continue(c, Advance(t, ActivateNodes(dec.ready) \o <<Save>> \o t.agenda), keys \cup saved)

(***************************************************************************)
(* The calls.                                                               *)
(***************************************************************************)
Start(c, i, variables) ==
  /\ MayBegin(c)
  /\ inst[i].status = "none"
  /\ DOMAIN Snapshot(i) = {}  \* a new id
  /\ \A d \in Callers : session[d] # Idle => session[d].inst # i
  /\ ApplyStepDecision(c, [do |-> "advance", inst |-> i, key |-> Nowhere, batch |-> 1, snap |-> << >>,
                           status |-> "running", variables |-> variables, agenda |-> <<>>],
                       StartNode, {})

(* A task can be decided while it is pending and its instance is running.   *)
CanDecide(k) == tasks[k].status = "pending" /\ inst[tasks[k].inst].status = "running"

Load(c, i, do, k, b) ==
  session' = [session EXCEPT ![c] =
    [do |-> do, inst |-> i, key |-> k, batch |-> b, snap |-> Snapshot(i),
     status |-> inst[i].status, variables |-> inst[i].variables, agenda |-> <<>>]]

LoadTask(c, k) ==
  /\ MayBegin(c)
  /\ CanDecide(k)
  /\ Load(c, tasks[k].inst, "decide", k, k.batch)
  /\ UNCHANGED <<tasks, inst>>

LoadInstance(c, i) ==
  /\ MayBegin(c)
  /\ inst[i].status = "running"
  /\ Load(c, i, "revoke", Nowhere, 1)
  /\ UNCHANGED <<tasks, inst>>

(* Pass and CompleteTask: pass the task, merge the variables, arbitrate the *)
(* node and, if it is satisfied, go on.                                     *)
Pass(c, s, k) ==
  LET skips == SkippedTasks(k, s.snap)
      t == SetStatus(s, skips, "skipped")
      keys == {k} \cup skips
  IN  IF IsSatisfied(k.node, BatchTasks(k.node, k.batch, s.snap), s.snap)
        THEN ApplyStepDecision(c, t, k.node, keys)
        ELSE Continue(c, Advance(t, <<Save>>), keys)

PassTask(c) ==
  LET s == session[c] IN
  /\ s.do = "decide"
  /\ \E variables \in Variables \cup {s.variables} :
       Pass(c, [SetStatus(s, {s.key}, "passed") EXCEPT !.variables = variables], s.key)

\* Mutant of Siblings: only those of the same node
SiblingsAtNode(k, snap) ==
  {j \in BatchTasks(k.node, k.batch, snap) \ {k} : snap[j] = "pending"}

(* The other tasks that are pending in the round of a rejected one.         *)
Siblings(k, snap) == {j \in DOMAIN snap \ {k} : j.batch = k.batch /\ snap[j] = "pending"}

\* Mutant of Rejected: the siblings stay open
RejectedAlone(s, siblings) == SetStatus(s, {s.key}, "rejected")

Rejected(s, siblings) ==
  SetStatus(SetStatus(s, siblings, "cancelled"), {s.key}, "rejected")

Close(c, s, status, keys) ==
  Continue(c, Advance([s EXCEPT !.status = status], <<Save>>), keys)

(* A task for the starter, in a new round.                                  *)
BackToStarter(c, s, b, keys) ==
  LET new == KeysFor(StartNode, <<Starter>>, b)
      t == Advance(AddTasks([s EXCEPT !.batch = b], new, "pending"), <<Save>>)
  IN  /\ b <= MaxBatch
      /\ IF Insertable(s, new) THEN Continue(c, t, keys \cup new) ELSE Fail(c, s, keys)

(* Activate the node a rejection goes back to, in a new round.              *)
SendBack(c, s, n, keys) ==
  LET b == s.batch + 1
  IN  IF Type[n] = "START" THEN BackToStarter(c, s, b, keys)
      ELSE /\ b <= MaxBatch
           /\ Continue(c, Advance([s EXCEPT !.batch = b], ActivateNodes(<<n>>) \o <<Save>>), keys)

(* A rejection rejects the task, cancels its siblings, an error of which is *)
(* ignored, and closes the process or goes back to some node.               *)
RejectAndTerminate(c) ==
  LET s == session[c] IN
  /\ s.do = "decide"
  /\ \E siblings \in Attempted(Siblings(s.key, s.snap)) :
       Close(c, Rejected(s, siblings), "rejected", {s.key} \cup siblings)

RejectToTarget(c, n) ==
  LET s == session[c] IN
  /\ s.do = "decide"
  /\ \E siblings \in Attempted(Siblings(s.key, s.snap)) :
       IF CanRejectTo(n) THEN SendBack(c, Rejected(s, siblings), n, {s.key} \cup siblings)
                         ELSE Fail(c, Rejected(s, siblings), {s.key} \cup siblings)

RejectUpstream(c) ==
  LET s == session[c]
      up == FindUpstreamApprovalNode[s.key.node]
  IN  /\ s.do = "decide"
      /\ \E siblings \in Attempted(Siblings(s.key, s.snap)) :
           IF up = Nowhere THEN Close(c, Rejected(s, siblings), "rejected", {s.key} \cup siblings)
                           ELSE SendBack(c, Rejected(s, siblings), up, {s.key} \cup siblings)

PendingTasks(snap) == {k \in DOMAIN snap : snap[k] = "pending"}

MaxBatchCode(snap) == Max({1} \cup {k.batch : k \in DOMAIN snap})

Revoke(c, backToStarter) ==
  LET s == session[c] IN
  /\ s.do = "revoke"
  /\ LET keys == PendingTasks(s.snap)
         t == SetStatus(s, keys, "cancelled")
     IN  IF backToStarter THEN BackToStarter(c, t, MaxBatchCode(s.snap) + 1, keys)
                          ELSE Close(c, t, "cancelled", keys)

(***************************************************************************)
(* The agenda.                                                              *)
(***************************************************************************)
AtNode(c, type) ==
  /\ session[c].do = "advance"
  /\ Head(session[c].agenda).do = "activate"
  /\ Type[Head(session[c].agenda).node] = type

\* The session without the item it has dealt with
Done(s) == [s EXCEPT !.agenda = Tail(@)]

(* An approval node: a pending task for each assignee, of whom there must   *)
(* be one.                                                                  *)
ActivateApproval(c) ==
  LET s == session[c]
      n == Head(s.agenda).node
      new == KeysFor(n, Assignees[n], s.batch)
  IN  /\ AtNode(c, "APPROVAL")
      /\ IF new # {} /\ Insertable(s, new)
           THEN Continue(c, AddTasks(Done(s), new, "pending"), new)
           ELSE Fail(c, s, {})

(* A carbon copy: a passed task for each assignee, and on.                  *)
ActivateCarbonCopy(c) ==
  LET s == session[c]
      n == Head(s.agenda).node
      new == KeysFor(n, Assignees[n], s.batch)
  IN  /\ AtNode(c, "CC")
      /\ IF Insertable(s, new)
           THEN ApplyStepDecision(c, AddTasks(Done(s), new, "passed"), n, new)
           ELSE Fail(c, s, {})

\* Mutant of WorkerFails: the error is swallowed
WorkerFailsSilently(c) == AtNode(c, "TASK") /\ Continue(c, Done(session[c]), {})

(* An automation node: the worker fails, or leaves a pending task for a     *)
(* callback, or is done and the process goes on.                            *)
WorkerFails(c) == AtNode(c, "TASK") /\ Fail(c, session[c], {})

WorkerSuspends(c) ==
  LET s == session[c]
      new == KeysFor(Head(s.agenda).node, <<"system">>, s.batch)
  IN  /\ AtNode(c, "TASK")
      /\ IF Insertable(s, new)
           THEN Continue(c, AddTasks(Done(s), new, "pending"), new)
           ELSE Fail(c, s, {})

WorkerSucceeds(c) ==
  LET s == session[c]
      n == Head(s.agenda).node
      new == KeysFor(n, <<"system">>, s.batch)
  IN  /\ AtNode(c, "TASK")
      /\ \E variables \in Variables \cup {s.variables} :
           IF Insertable(s, new)
             THEN ApplyStepDecision(c, [AddTasks(Done(s), new, "passed") EXCEPT !.variables = variables], n, new)
             ELSE Fail(c, s, {})

ReachEnd(c) ==
  LET s == session[c] IN
  /\ AtNode(c, "END")
  /\ Continue(c, [Done(s) EXCEPT !.status = IF Head(s.agenda).ends THEN "finished" ELSE @], {})

(* SaveInstance; a transaction commits after the last one.                  *)
SaveInstance(c) ==
  LET s == session[c]
      last == Len(s.agenda) = 1
  IN  /\ s.do = "advance"
      /\ Head(s.agenda) = Save
      /\ session' = [session EXCEPT ![c] = IF last THEN Idle ELSE Done(s)]
      /\ inst' = IF Transactional /\ ~last THEN inst
                 ELSE [inst EXCEPT ![s.inst] = [status |-> s.status, variables |-> s.variables]]
      /\ tasks' = IF Transactional /\ last THEN Over(Rows(s, DOMAIN s.snap), tasks) ELSE tasks

(* The process dies, or the storage fails.                                  *)
Crash(c) ==
  /\ Crashes
  /\ session[c] # Idle
  /\ Fail(c, session[c], {})

Next ==
  \E c \in Callers :
    \/ \E i \in Instances, v \in Variables : Start(c, i, v)
    \/ \E k \in DOMAIN tasks : LoadTask(c, k)
    \/ \E i \in Instances : LoadInstance(c, i)
    \/ PassTask(c)
    \/ RejectAndTerminate(c)
    \/ \E n \in RejectTargets : RejectToTarget(c, n)
    \/ RejectUpstream(c)
    \/ \E back \in BOOLEAN : Revoke(c, back)
    \/ ActivateApproval(c)
    \/ ActivateCarbonCopy(c)
    \/ WorkerFails(c)
    \/ WorkerSuspends(c)
    \/ WorkerSucceeds(c)
    \/ ReachEnd(c)
    \/ SaveInstance(c)
    \/ Crash(c)

Spec == Init /\ [][Next]_vars

(***************************************************************************)
(* Properties.                                                              *)
(***************************************************************************)
Running(i) == inst[i].status = "running"
Pending(i) == {k \in DOMAIN tasks : tasks[k].inst = i /\ tasks[k].status = "pending"}

(* Whoever still has a task to decide has it in the newest round of the     *)
(* process: a rejection or a withdrawal leaves no task of the old round     *)
(* open (cancelPendingSiblingTasks, which goes by the round alone).         *)
PendingAreLatest ==
  \A i \in Instances : \A k \in Pending(i) : \A j \in DOMAIN tasks :
    tasks[j].inst = i => j.batch <= k.batch

(* A process that was rejected or withdrawn asks nobody for a decision.     *)
ClosedHasNoWork ==
  \A i \in Instances : inst[i].status \in {"rejected", "cancelled"} => Pending(i) = {}

(* What has been decided stays as it was: neither another vote, nor a       *)
(* rejection, nor a skip rewrites it, and no task disappears (task.go:30).  *)
HistoryIsFinal ==
  [][\A k \in DOMAIN tasks : k \in DOMAIN tasks' /\
       (tasks[k].status # "pending" => tasks'[k] = tasks[k])]_vars

(* A running process waits for somebody: no join holds it up for ever.      *)
RunningHasWork ==
  \A i \in Instances : Running(i) =>
    Pending(i) # {} \/ \E c \in Callers : session[c] # Idle /\ session[c].inst = i

(* A finished process has nothing open, and at each approval node it came   *)
(* to the last round ended in agreement, or the node was passed over.       *)
FinishedMeansAgreed ==
  \A i \in Instances : inst[i].status = "finished" =>
    /\ Pending(i) = {}
    /\ \A n \in Nodes : Type[n] = "APPROVAL" /\ TasksOf(n, Snapshot(i)) # {} =>
         IsResolved(n, "INCLUSIVE", Snapshot(i))

(* No process stands still, and none is over before its time (dispatcher.go *)
(* 47-82, transition.go:155).                                               *)
ProcessIsWhole == RunningHasWork /\ FinishedMeansAgreed

(* The nodes behind each node.                                              *)
Behind ==
  LET After(S) == {Edges[j].target : j \in {j \in DOMAIN Edges : Edges[j].source \in S}}
      behind(n) ==
        LET walk[k \in 0..Len(Edges)] ==
              IF k = 0 THEN {} ELSE After({n} \cup walk[k - 1])
        IN  UNION {walk[k] : k \in 0..Len(Edges)}
  IN  [n \in Nodes |-> behind(n)]

(* No decision is asked for at a node while one is still open before it:    *)
(* a join waits for all of its branches.                                    *)
NothingOvertaken ==
  \A i \in Instances : \A j, k \in Pending(i) : k.node \notin Behind[j.node]

(* One vote decides a one-vote node: no second one is accepted in a round.  *)
OneVoteDecides ==
  \A k \in DOMAIN tasks :
    Type[k.node] = "APPROVAL" /\ Sign[k.node] = "ONE_VOTE" /\ tasks[k].status = "passed" =>
      \A j \in BatchTasks(k.node, k.batch, Snapshot(tasks[k].inst)) :
        tasks[j].status = "passed" => j = k

(***************************************************************************)
(* The inductive invariant of transactional calls.                          *)
(***************************************************************************)
Closed(status) == status \in {"rejected", "cancelled"}

(* What the session shows the table to be, it may become: every row of the  *)
(* instance is in the snapshot, and no decided row has been changed there.  *)
Extends(s) ==
  /\ \A k \in DOMAIN tasks : tasks[k].inst = s.inst => k \in DOMAIN s.snap
  /\ \A k \in DOMAIN tasks \cap DOMAIN s.snap :
       /\ tasks[k].inst = s.inst
       /\ tasks[k].status # "pending" => s.snap[k] = tasks[k].status

(* The session works in the newest round, and what is pending is in it.     *)
InRound(s) ==
  \A k \in DOMAIN s.snap : k.batch <= s.batch /\ (s.snap[k] = "pending" => k.batch = s.batch)

WellFormed(s) ==
  /\ s = [do |-> s.do, inst |-> s.inst, key |-> s.key, batch |-> s.batch, snap |-> s.snap,
           status |-> s.status, variables |-> s.variables, agenda |-> s.agenda]
  /\ s.snap = [k \in DOMAIN s.snap |-> s.snap[k]]
  /\ s.inst \in Instances
  /\ s.batch \in 1..MaxBatch
  /\ \A k \in DOMAIN s.snap : k.batch \in 1..MaxBatch
  /\ Extends(s)

SessionInv(s) ==
  /\ WellFormed(s)
  /\ \/ /\ s.do = "decide"
        /\ s.key \in DOMAIN s.snap
        /\ s.snap[s.key] = "pending"
        /\ s.batch = s.key.batch
        /\ InRound(s)
        /\ ~Closed(s.status)
     \/ s.do = "revoke" /\ ~Closed(s.status)
     \/ s.do = "advance" /\ InRound(s) /\ ~Closed(s.status)
     \/ /\ s.do = "advance"
        /\ Closed(s.status)
        /\ PendingTasks(s.snap) = {}
        /\ s.agenda = <<Save>>

TablesInv ==
  /\ tasks = [k \in DOMAIN tasks |-> [inst |-> tasks[k].inst, status |-> tasks[k].status]]
  /\ \A k \in DOMAIN tasks : k.batch \in 1..MaxBatch /\ tasks[k].inst \in Instances
  /\ DOMAIN inst = Instances
  /\ PendingAreLatest
  /\ ClosedHasNoWork

IInv ==
  /\ TablesInv
  /\ session = [c \in Callers |-> session[c]]
  /\ \A c \in Callers : session[c] = Idle \/ SessionInv(session[c])
  /\ \A c, d \in Callers : session[c] # Idle /\ session[d] # Idle => c = d

(* Who votes at an approval node was assigned there, and a one-vote node    *)
(* that has a vote has no other task that is open or passed in that round.  *)
Live(status) == status \in {"pending", "passed"}

OneVote(snap) ==
  \A k \in DOMAIN snap : Type[k.node] = "APPROVAL" /\ Live(snap[k]) =>
    /\ k \in KeysFor(k.node, Assignees[k.node], k.batch)
    /\ Sign[k.node] = "ONE_VOTE" /\ snap[k] = "passed" =>
         \A j \in DOMAIN snap : j # k /\ j.node = k.node /\ j.batch = k.batch => ~Live(snap[j])

VoteInv ==
  /\ \A i \in Instances : OneVote(Snapshot(i))
  /\ \A c \in Callers : session[c] # Idle => OneVote(session[c].snap)

(***************************************************************************)
(* Staged definitions: approvals and parallel gateways, where all nodes of  *)
(* a stage are opened together and the next stage waits for all of them.    *)
(* pos gives every node its place; the nodes of a stage share theirs.       *)
(***************************************************************************)
Stops == {n \in Nodes : ~IsGateway(n)}
Stage(pos, n) == {m \in Stops : pos[m] = pos[n]}
After(n) == ToSet(TargetsOf(OutEdges[n]))

(* A gateway behind which there is all of a stage.                          *)
Fans(pos, g) == \A m \in After(g) : m \in Stops /\ Stage(pos, m) \subseteq After(g)

(* From n to a single node; or to gateways, of which at most the first      *)
(* joins, and then the nodes of n's stage, and the last forks.              *)
Onward(pos, n, t) ==
  \/ t \in Stops /\ Stage(pos, n) = {n} /\ Stage(pos, t) = {t}
  \/ /\ t \notin Stops
     /\ Stage(pos, n) = {n} \/ (IsJoin(t) /\ Stage(pos, n) \subseteq Preceding[t])
     /\ IsJoin(t) => Preceding[t] \subseteq Stage(pos, n) \ {StartNode}
     /\ \/ Fans(pos, t)
        \/ \E h \in Nodes \ Stops : TargetsOf(OutEdges[t]) = <<h>> /\ ~IsJoin(h) /\ Fans(pos, h)

(* Rejections that name a target name the start or the one approval that is *)
(* first; the others go back to a stage before.                             *)
Returns(pos) ==
  /\ \A n \in RejectTargets : CanRejectTo(n) =>
       Stage(pos, n) = {n} /\ \A m \in Nodes : Type[m] = "APPROVAL" => pos[n] <= pos[m]
  /\ \A n \in Stops : LET up == FindUpstreamApprovalNode[n] IN
       up # Nowhere => up \in Nodes /\ Type[up] = "APPROVAL" /\ pos[up] < pos[n]

Staged(pos) ==
  /\ pos \in [Nodes -> Nat]
  /\ \A n \in Nodes : Type[n] \in {"START", "APPROVAL", "PARALLEL", "END"}
  /\ \A n \in Nodes : \A m \in After(n) :
       pos[n] < pos[m] /\ \A x \in Stops : ~(pos[n] < pos[x] /\ pos[x] < pos[m])
  /\ \A g \in Nodes \ Stops : \A x \in Stops : pos[g] # pos[x]
  /\ \A n, m \in Stops : Type[n] = "START" \/ Type[m] = "END" => n = m \/ pos[n] < pos[m]
  /\ \A n \in Stops : Len(OutEdges[n]) <= 1 /\ \A t \in After(n) : Onward(pos, n, t)
  /\ Returns(pos)

(* Nothing is decided at the node yet, but somebody is asked.               *)
Voting(n, b, snap) ==
  LET keys == BatchTasks(n, b, snap)
  IN  /\ \E k \in keys : snap[k] = "pending"
      /\ \A k \in keys : IF Sign[n] = "ONE_VOTE" THEN snap[k] # "passed" ELSE Live(snap[k])

Settled(n, snap) == IsPassed(n, snap) /\ \A k \in TasksOf(n, snap) : snap[k] # "pending"

(* The process stands at the stage of place p, of which the nodes in coming *)
(* have yet to be opened: what comes before has agreed.                     *)
AtStage(pos, p, b, snap, coming) ==
  /\ \A k \in PendingTasks(snap) : pos[k.node] = p
  /\ \A n \in Nodes : Type[n] = "APPROVAL" /\ pos[n] < p => IsPassed(n, snap)
  /\ \A n \in Stops : pos[n] = p /\ n \notin coming => Settled(n, snap) \/ Voting(n, b, snap)

Agreed(snap) ==
  PendingTasks(snap) = {} /\ \A n \in Nodes : Type[n] = "APPROVAL" => IsPassed(n, snap)

Assigned(snap) ==
  \A k \in DOMAIN snap :
    /\ k.node \in Nodes
    /\ \/ Type[k.node] = "START"
       \/ Type[k.node] = "APPROVAL" /\ k \in KeysFor(k.node, Assignees[k.node], k.batch)

(* What a session has yet to do: to open nodes of a place, then to save.    *)
Activation(n) == [do |-> "activate", node |-> n, ends |-> Type[n] = "END"]
Items(pos, p) == {Activation(n) : n \in {n \in Stops : pos[n] = p}} \cup {Save}
Coming(agenda) == {agenda[j].node : j \in 1..(Len(agenda) - 1)}

Opens(pos, p, agenda) ==
  /\ agenda \in Seq(Items(pos, p)) /\ agenda # <<>> /\ agenda[Len(agenda)] = Save
  /\ \A j \in 1..(Len(agenda) - 1) : agenda[j] # Save

Opening(pos, p, s) ==
  /\ Opens(pos, p, s.agenda)
  /\ \/ /\ s.status = "running"
        /\ AtStage(pos, p, s.batch, s.snap, Coming(s.agenda))
        /\ Len(s.agenda) = 1 => PendingTasks(s.snap) # {}
     \/ /\ s.status = "finished"
        /\ Agreed(s.snap)
        /\ \A n \in Coming(s.agenda) : Type[n] = "END"

StageSession(pos, s) ==
  /\ Assigned(s.snap)
  /\ \/ /\ s.do = "decide" /\ s.status = "running" /\ s.agenda = <<>>
        /\ AtStage(pos, pos[s.key.node], s.batch, s.snap, {})
     \/ s.do = "revoke" /\ s.status = "running"
     \/ s.do = "advance" /\ \E p \in {pos[n] : n \in Stops} : Opening(pos, p, s)
     \/ s.do = "advance" /\ Closed(s.status) /\ s.agenda = <<Save>>

(* A process runs as long as somebody is asked, and all who are asked are   *)
(* asked at one place.                                                      *)
StageInv(pos) ==
  /\ \A i \in Instances :
       /\ Assigned(Snapshot(i))
       /\ inst[i].status = "finished" => Agreed(Snapshot(i))
       /\ Running(i) <=> PendingTasks(Snapshot(i)) # {}
       /\ \A k \in PendingTasks(Snapshot(i)) : AtStage(pos, pos[k.node], k.batch, Snapshot(i), {})
  /\ \A c \in Callers : session[c] # Idle => StageSession(pos, session[c])
==============================================================================
