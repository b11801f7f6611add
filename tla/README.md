# eflow in TLA+

This directory holds a formal model of eflow: TLA+ modules for the parts of the
program whose correctness depends on concurrency, failure and ordering, the TLC
configurations that check them on small instances, and TLAPS proofs of what
matters most for instances of any size. Paths below are relative to the
repository.

## 1. The system

eflow runs approval tickets. A ticket starts a process instance in a workflow
engine; the process has human nodes, which notification strategies announce, and
automation nodes, which are executed by an external scheduler, etask. When an
automation node has succeeded a job hands its result to the engine. A process can
be withdrawn: the engine archives the instance and the successful automation tasks
that have a compensation are compensated before the ticket is closed.

| Component | State | Operations | What is hard | What makes it correct |
|---|---|---|---|---|
| Automation tasks and attempts (`internal/service/task`, `dao/task.go`, `dao/task_attempt.go`) | tables `automation_tasks` (status, current attempt) and `task_attempts` (status, execution id, request id) | CreateTask, StartTask, submit, bind, reject, complete, retry, terminate, reconcile; two jobs | unlocked reads before every transaction, RPCs of unknown outcome, crashes, repeated and lost events, two jobs and administrators on one row | the two tables agree; results are etask's and are final; no execution is left behind; every task comes to rest |
| etask client and result events (`internal/client/etask`, `event/task`) | none of its own (etask's executions, a Kafka topic) | Dispatch, TerminateExecution, Consume | lost requests, lost answers, lost and repeated events | one execution per request id |
| Withdrawal (`internal/service/withdrawal`, `dao/withdrawal.go`) | ticket status, the engine's instance, task kinds | Prepare, Rollback, ActivateCompensations, TryFinalize, recovery job | two stores without a common transaction, a request that dies in between, a process that runs on meanwhile | nothing but compensations runs in a frozen process; a withdrawn ticket is compensated; every withdrawal ends |
| Process advance job (`pass_process_task_job.go`, the engine's automation callback, the start list) | `advanced` flag, the engine's row of the node, the page of the job | list, check, look up, pass, mark; EventAutomation, CreateTask; start of what is ready | crash between the engine's step and the mark, results that come before the engine's own row, pages behind which the list changes | the process moves on once per success; what is ready starts |
| Ticket lifecycle and process start (`internal/service/ticket`, `dao/ticket.go`, `event/process`) | ticket status, business key, instance id, start error | create, start, restart, bind, end, withdraw | an event per start, delivered more than once; unguarded updates; three writers of one row | one instance per ticket, no started instance without its ticket, no final status lost |
| Approvals (`service/ticket/service.go`, `dao/engine.go`, `event/ticket`) | the engine's task rows, the ticket's fields, task forms | pass, reject, transfer; merging of fields | an operator checked statements before his vote, three stores without a transaction, a transfer that deletes by id | a vote is its assignee's, is on record, and a node is decided once |
| Engine adapter, event handlers (`internal/service/engine`, `service/event/easyflow`) | the easy-workflow library's tables | start, revoke, callbacks of gateways and proxies | callbacks inside the library's transaction | nodes entered once per visit |
| Workflow compiler and validators (`internal/pkg/easyflow`), trace of a run (`internal/service/engine`) | none: a drawing becomes a process, the engine's rows become shown edges | ValidateAll, Convert, GetTraversedEdges | gateways that wait for gateways, proxies, branches that are skipped | what is published comes to its end; what is shown was walked |
| Workflow publication (`internal/service/workflow`, `dao/workflow.go`) | workflow rows, versions of the engine, snapshots | create, update, delete, deploy; reading the drawing of an instance | six statements without a transaction, edits and starts in between | an instance is shown what it runs |
| flowx engine (`pkg/flowx`) | instances (status, variables), tasks (node, round, status) | Start, Pass, CompleteTask, Reject, Revoke; activation of approvals, carbon copies, automation and ends | joins and rounds after rejections, sibling branches, calls with and without a transaction, errors that are ignored | decided tasks stay; a running instance waits for somebody; what is finished was agreed to; a join waits for its branches |
| Message queue (`pkg/mqx`) | current consumer, closed flag | Consume, ConsumeChan, the consumer loop, Stop, Close | reconnection against Close, several readers of one consumer | every consumer is closed, once; Stop returns |
| Rules, dispatch, schedules, ratings, templates, notification, web, wiring | configuration tables | CRUD and pure functions | little | see `PROJECT.json` |

The components interact through the database (row locks on `ticket`,
`automation_tasks` and `task_attempts`), through Kafka events (process start, task
results), through callbacks of the engine (EventAutomation, EventNotify,
EventRevoke), and through RPCs to etask.

## 2. Modules

```
TaskDomain                  statuses and the predicates of internal/domain
 |-- AutomationTask         tasks, attempts, goroutines, etask, result events
 |    |-- AutomationTaskProofs         invariants, safety theorems, implements TaskTables
 |    `-- MCAutomationTask             constants for TLC
 |-- TaskTables             the transactions on ticket and automation_tasks
 |    `-- Withdrawal        the withdrawal service, its job and the engine
 |         |-- WithdrawalProofs        invariants, implements WithdrawalContract
 |         `-- MCWithdrawal            constants for TLC
 `-- TicketStart            tickets, start events, consumers, binding, restart
      |-- TicketStartProofs            inductive invariants and safety theorems
      `-- MCTicketStart                constants for TLC
TicketApproval              pass, reject and transfer at one visit of a node
 |-- TicketApprovalProofs         inductive invariant and safety theorems
 `-- MCTicketApproval             constants for TLC
WithdrawalContract          what a withdrawal promises, without tables
ProcessAdvance              pass job, engine call, start list over a path of nodes
 |-- ProcessAdvanceProofs         inductive invariant and safety theorems
 `-- MCProcessAdvance            paths for TLC
EasyflowGraph               drawings, validators, Convert
 `-- EasyflowTrace          the edges shown of a run
      `-- EasyflowProcess   a published drawing in the engine, with its callbacks
           |-- WorkflowProofs          validators, publication, and the two together
           `-- MCEasyflow              18 656 drawings for TLC
WorkflowPublish             Deploy, edits, snapshots, what an instance is shown
 |-- WorkflowProofs               inductive invariant and safety theorems
 `-- MCWorkflowPublish            constants for TLC
ResilientConsumer           readers, reconnection, Stop and Close of a consumer
 |-- ResilientConsumerProofs      inductive invariant and safety theorem
 `-- MCResilientConsumer          constants for TLC
FlowxKernel                 definition, transitions, joins, arbitration of flowx
 `-- FlowxEngine            calls, sessions and tables of flowx
      |-- FlowxEngineProofs            inductive invariants, staged definitions
      `-- MCFlowx                      process definitions for TLC
```

`TaskTables` has one operator per transaction of the two DAOs. It is used twice.
`AutomationTask` is the detailed model of the goroutines around these transactions
and implements it (`ImplementsTables`). `Withdrawal` builds on it and so contains
every way in which the tasks may change under a withdrawal, without attempts, RPCs
and jobs. `Withdrawal` in turn implements `WithdrawalContract` (`KeepsContract`).

### AutomationTask

One database transaction is one action. Between transactions, between an unlocked
read and the transaction that uses it, and around each RPC a goroutine stands at a
step recorded in `work`; any other goroutine may run in between, and the goroutine
may die (`Crash`).

| State | Code |
|---|---|
| `ticket` | `ticket.status` of the process's ticket |
| `status`, `current` | `automation_tasks.status`, `current_attempt_id` (by attempt number) |
| `attempt`, `bound` | `task_attempts.status`, and whether `execution_id` is set |
| `execution` | what etask holds under the attempt's request id (external) |
| `topic` | result events in Kafka (external) |
| `work` | where each goroutine of StartTaskJob, TaskRecoveryJob and the HTTP handlers stands |

| Action | Code |
|---|---|
| `StartTask`, `BeginAttempt`, `PrepareFails` | `StartTask`, `TaskAttemptDAO.Begin`, `blockTask` |
| `Dispatch`, `DispatchFails`, `BindExecution`, `RejectSubmission` | `submitAttempt` and the three ways it ends |
| `ConsumeResult`, `LoseEvent` | `ExecuteResultConsumer`, its loop |
| `RecoverSubmitting`, `ListFailed`, `AutoRetryTask`, `ReconcileTask` | `TaskRecoveryJob` |
| `RetryTask`, `ConfirmTerminated`, `PrepareRetry`, `BlockTask` | `retry` |
| `TerminateTask`, `TerminateRows`, `StopExecution` | `TerminateTask` |
| `EndProcess`, `PrepareWithdrawal`, `RollbackWithdrawal`, `CancelPending`, `FinalizeWithdrawal` | the ticket's statements, for a process without compensations; END overwrites any status |
| `Execute` | etask finishing an execution |

What is assumed of etask is what the client code and its comments rely on: a
request id names at most one execution; a refused request stays refused; a cancel
intent is kept, also for a request id not seen yet.

### Withdrawal

| State | Code |
|---|---|
| `ticket`, `status` | as above |
| `kind`, `comp` | `execution_kind` and `compensation_node_id` of the task rows |
| `engine` | the process instance in the engine: active, archived, ended |
| `endNode` | how far the engine is with the end node |
| `work` | where each request, recovery job, consumer and administrator stands |

`Revoke`, `Build`, `EventRevoke`, `ArchiveInstance`, `CreateTarget`, `Apply`,
`Finalize` and `Abort` are the steps of `service.Revoke`; `ListStale` starts the
recovery job, which goes through `Build`, `CreateTarget`, `Apply`, `Finalize`, or
`Abort`. `CompleteAttempt` and `CheckTerminable`/`Terminate` are the consumer and
the administrator. The process runs on meanwhile: `EventAutomation`, the task
transactions, and its end in three steps. The engine comes to the end node
(`ReachEnd`); the start event of that node writes END by a statement of its own,
without a condition on the status (`EventNotify`); later the engine ends the
instance, if it has not been archived meanwhile (`EndInstance`). So END overwrites a
withdrawal under way or finished, over an instance that still runs or is archived.
The contract takes this as it is: from every phase a process may end (`End`), and
what is left of the compensations is then not started.

### TicketStart

| State | Code |
|---|---|
| `status`, `key`, `bound` | `ticket.status`, the business key, `process_instance_id` |
| `events` | start events of the ticket in Kafka, those delivered included: an event may be delivered again |
| `owner`, `phase`, `failed` | the engine's instances (external): for which ticket, how far, and whether the nodes behind the start failed |
| `endNode`, `revoking` | how far the engine is with each instance's end node, and the instances whose revoke has passed `EventRevoke` |
| `work` | where each requester, restarter and consumer stands |
| `reopened` | ghost: instances whose END the consumer's second binding took back |
| `lost`, `blind` | ghosts: tickets whose event was lost with its sender, tickets inserted without a look at the key |

| Action | Code |
|---|---|
| `FindOpenTicket`, `FindFails`, `CreateTicket`, `Insert`, `Send`, `SendFails`, `Mark` | `CreateBizTicket`, `CreateTicket`, `sendGenerateFlowEvent`, `MarkProcessStartFailed` |
| `RestartProcess`, `PrepareProcessRestart` | `RestartProcess` and its transaction |
| `Receive`, `InstanceStart`, `EventStart`, `EventStartFails`, `NodesRun`, `NodesFail`, `Bind` | `handleTask` of the consumer, and the engine's start with its callback |
| `ReachEnd`, `EventNotify`, `EndInstance` | the end: the engine comes to the end node, whose start event writes END, and ends the instance later |
| `PrepareWithdrawal`, `EventRevoke`, `ArchiveInstance`, `FinalizeWithdrawal`, `RollbackWithdrawal` | a withdrawal as this row sees it; the check and the engine's archiving are two steps |
| `GiveUp` | a process that dies in any of these |

An instance is bound twice: by `EventStart`, inside the engine, and by the consumer
when `InstanceStart` has returned. Between the two the process runs, and may end.
END may be written between any two steps of a withdrawal, and a withdrawal go on
after it: `EndMatchesEngine` says what is left of the agreement of ticket and engine.

### TicketApproval

One visit of an approval node, with the calls of `Pass`, `Reject` and `Transfer` by
assignees and administrators. Everybody acts on rows he read some statements ago.

| State | Code |
|---|---|
| `row`, `assignee`, `cosigned` | the engine's `proc_task` rows of the node: status, `user_id`, `is_cosigned` (external, but for the transfer) |
| `outcomes` | how often the process left the node (external) |
| `data` | the ticket's fields: which request wrote each |
| `forms` | the table of task forms |
| `request` | where each call stands, and what it was answered |
| `by`, `raced` | ghosts: the vote that decided a row; that a transfer wrote after its row was decided |

| Action | Code |
|---|---|
| `Refuse`, `Invalid`, `Begin` | `TaskInfo`, `ValidateTaskOperable`, `collectAndValidateFields` |
| `Pass`, `MergeTicketData`, `CreateTaskForm`, `EnginePass` | `Pass` and its three statements; those that have nothing to do are skipped |
| `Reject`, `EngineReject` | `Reject` |
| `Transfer`, `TransferRead`, `TransferWrite` | `Transfer`, and the two halves of its transaction |
| `Fail`, `RevokeInstance` | an error or a dying process between two steps; a withdrawal |

A transfer makes a new row for each new assignee, so a row is named by the request
that made it and its user. A node that is cosigned needs all votes, one that is not
needs one; which it is, is chosen in `Init`.

### ProcessAdvance

Each process is a path of human and automation nodes. A call of the engine goes
from node to node (`call`), and the callback of an automation node creates the task
and starts it before the engine has inserted its own row (`InsertTask`): a task may
succeed, and the pass job look for the row, before it is there.

| State | Code |
|---|---|
| `ticket` | `ticket.status` |
| `pos`, `row`, `call`, `visits` | the engine's newest row of the process, its status, the call under way (external) |
| `task`, `advanced`, `id` | `automation_tasks`: status, whether `advanced_at` is set, and the id; one row per node, which a later visit finds again |
| `job` | what is left of the page the pass job works through, its cursor and where it stands |
| `missed`, `skipped` | ghosts: nodes whose task is marked before the engine is done with them, and nodes whose engine task a sibling's pass finished |

A page is a set of tasks, `Lowest(rows, limit)` what `ORDER BY id LIMIT` returns of it,
and the job takes the `Oldest` of what is left.

`List`, `Check`, `Lookup`, `Pass`, `Mark`, `JobError` and `JobCrash` are
`PassProcessTaskJob`; `Arrive`, `EnterUserNode`, `FindTask`, `CreateTask`,
`CreateBlocked`, `StartNow`, `InsertTask`, `ComesToEnd`, `EventNotify`,
`EventNotifyFails`, `EndProcess` and `CallFails` an engine call, of which END is
written in `EventNotify` and the instance ended in `EndProcess`; `UserPasses`,
`UserRejects`, `SiblingPasses` the people; `StartTask`, `Succeed`, `ExecutionFails`,
`Retry` the tasks, whose attempts are those of
`AutomationTask`. A revoke comes between two calls of the engine; one that comes
during the end is in `Withdrawal` and `TicketStart`.

### EasyflowGraph, EasyflowTrace, EasyflowProcess

`EasyflowGraph` is the converter: a drawing is a function from node ids to types
and a set of numbered edges. Each validator of `ValidateAll` is one predicate, and
`Convert` the definition handed to the engine, with the proxy nodes put between
gateways. Cycles are excluded first, so what the validators compute by walks with a
visited set is stated by reachability. `EasyflowTrace` is `GetTraversedEdges` and
the edges written back to the drawing. `EasyflowProcess` publishes one drawing,
starts it, and lets people pass its tasks in any order; `rows` are the engine's
task rows, `agenda` what an event still has to enter, `walked` (a ghost) the edges
that tokens took. The callbacks of gateways (skipped branches of inclusion) and
proxies (`AutoPassNode`) run as the code has them; `AutoPassLost` is a pass whose
goroutine dies. Two inputs are narrower than what a user may enter. The variables
satisfy conditions that leave exactly one way out of every exclusive gateway, or
none behind a selective one, and a branch of every selective gateway (`Decided`): what
the library does without a way, or with two, is not to be seen in `src/`. And no
drawing has a gateway directly in front of a selective one: its proxy would carry
`EventTaskSelectiveNodePass` (`types.go:106`), which no method of `ProcessEvent`
implements.

### WorkflowPublish

| State | Code |
|---|---|
| `row` | table of workflows: name, drawing, process |
| `definitions` | the engine's versions of the process of a name (external) |
| `snapshots` | table of snapshots: the rows of a process and version in order of id |
| `publisher` | where each `Deploy` stands; `own` is a ghost, the version it saved |
| `instance` | workflow and version of each process instance |
| `overlapped`, `abandoned` | ghosts: versions published while another publication was under way, and those whose publication failed |

`CreateWorkflow`, `UpdateWorkflow`, `DeleteWorkflow` are the DAO's; `Deploy`,
`ProcessSave`, `UpdateProcessId`, `AskVersion`, `CreateSnapshot` and `DeployFails`
the steps of a publication; `FindFlow` and `InstanceStart` the consumer of start events.
`FindInstanceFlow` is what the views, the approvals and the automation of an
instance read: the snapshot, or else the row's drawing. Two workflows of one name
share a process of the engine, so publishing one changes what tickets of the other
run; the model has them.

### ResilientConsumer

| State | Code |
|---|---|
| `current`, `closed` | fields of `resilientConsumer` |
| `open`, `broken`, `closes` | the queue's consumers (external): made and not closed, unable to read, calls of Close |
| `reader` | the goroutines in `ConsumeLoop`, `Consumer.consume` and `ConsumeChan`: step, consumer held, delay |
| `cancelled`, `stopping`, `closer` | the contexts, and the goroutines in Stop and Close |

`GetCurrent`, `Create`, `CreateFails`, `ConsumeMessage`, `ConsumeFails`,
`Invalidate`, `CloseInvalid` and `WaitReconnect` are `Consume` between its locks;
`Loop`, `Handled`, `Deliver`, `WaitContext` the loops around it; `Stop`, `Close`,
`CloseCurrent`, `StopWaits` the end. `Break` is a broker that goes away.

### FlowxKernel

The pure functions of `pkg/flowx/kernel`. The definition is a constant: `Type`,
`Sign`, `Assignees` and the sequence `Edges`, constrained by `Validate` as Deploy
constrains it. A task is named by what `GenTaskID` puts into its id (node, round,
user, number) and a snapshot is a function from these keys to statuses.
`ResolveNextStep` is the breadth-first walk of `transition.go`, as a recursive
function with one step per edge, because no edge is queued twice; `Among` keeps the
order in which `NewExecutionPlan` indexes the edges. `Preceding` and `FindUpstreamApprovalNode`
are recursive functions, defined where no cycle consists of gateways alone; the
code does not end on such a cycle either.

### FlowxEngine

A call loads the instance and its tasks into a session, works on that snapshot and
writes each change through. The recursion of `applyStepDecision` and
`activateNodes` is an agenda of nodes to activate and saves to make, one action per
item, so that other calls, or the death of this one, may come in between.

| State | Code |
|---|---|
| `tasks` | table of tasks: primary key, instance, status |
| `inst` | table of instances: status, and the rules its variables satisfy |
| `session` | `flowSession` of each call: task, round, snapshot, instance, agenda |

| Action | Code |
|---|---|
| `Start` | `doStart` |
| `LoadTask`, `LoadInstance` | `loadAndValidateTask`, `newSessionForInstance`; the beginning of `doRevoke` |
| `PassTask` | `Pass`, `CompleteTask`: `advanceTaskPipeline` |
| `RejectAndTerminate`, `RejectToTarget`, `RejectUpstream` | `doReject` and its three continuations |
| `Revoke` | `doRevoke` |
| `ActivateApproval`, `ActivateCarbonCopy`, `WorkerFails`, `WorkerSuspends`, `WorkerSucceeds`, `ReachEnd` | the node executors |
| `SaveInstance` | `SaveInstance`, and the commit after the last one |
| `Crash` | a failing statement, a dying process, a deadlock the database breaks |

`Transactional` says whether callers wrap their calls in `DoTx`. If they do, the
row locks of `GetTaskForUpdate` and `GetInstanceForUpdate` come before the first
plain read, so the calls are serialisable, and the model has them one after the
other: a call begins when no other is under way and its writes appear at its end or
not at all. If they do not, each write is visible at once. One action may hold
several writes of a call (a vote, the skips it causes and the skipped records), so
without transactions the model has fewer interleavings than the code; every
behaviour it has is one of the code. `StatementsFail` lets the two statements fail
whose errors the engine ignores: recording skipped nodes and cancelling siblings.

## 3. Checks

| Run | Question | Bounds |
|---|---|---|
| `task_attempts` | Do the tables agree, are results etask's and final, is no execution left behind or started in a frozen process, does a retry wait for the cancel intent, and are the transactions of `TaskTables` all that happens to the rows? | 1 task, 3 attempts, start job and administrator, 1 fault |
| `task_jobs` | Are automatic attempts bounded, and does every task come to rest? | 1 start job, 1 recovery job, no administrator, 3 attempts, 3 faults |
| `withdrawal` | Does the withdrawal keep its contract, is an archived instance never rolled back, and does every withdrawal end? | 3 nodes in a chain of compensations, 2 requests, 1 job, 1 consumer, 1 administrator, 2 faults |
| `flowx_parallel` | Do votes, rejections and revocations leave history, rounds and closed instances alone, is the process whole (it waits for somebody, or is finished and agreed to), and does the join wait for its branches? | fork, a branch of one assignee and one of two (one vote), join; 2 callers, 3 rounds, crashes |
| `flowx_conditional` | Is the process whole with an inclusive join, changing variables, automation, carbon copies and exclusive gateways? | a graph with all of them, a loop, a branch of two assignees (all pass) and a node without assignees, 2 rounds, crashes |
| `ticket_start` | Is there one instance per ticket, is a ticket bound when its instance runs, does a ticket that waits for its start wait for something, is END shown exactly where the end node wrote it, and WITHDRAW only for an archived instance? | 2 tickets, 2 instances, 1 key, 1 requester, 1 restarter, 1 consumer, 1 event of a ticket at a time, 1 fault |
| `consumer_reconnect` | Is each consumer closed and closed once, does Stop return, does a reader of a living queue keep reading? | one reader of each kind, 1 closer, 2 consumers, delays of 1 and 2, 1 broken connection |
| `process_advance` | Is a process stuck only where the job marked a success it did not hand over, is it passed on only with a result, is each result delivered, does what is ready start? | 2 processes (approval, automation, approval; approval, automation), pages and start list of 1, 2 visits of a node, 1 fault |
| `easyflow` | Do accepted drawings come to their end unless they have a named shape or lost an automatic pass, is every node entered once, are the edges shown edges walked, but for unpaired forks and gateways with two ways to one node? | 18 656 drawings of up to 8 nodes and 13 edges, at most 12 rows, conditions with one way out of each exclusive gateway, 1 lost automatic pass |
| `ticket_approval` | Is a vote that counts its assignee's, is what it filled in on record, is a node asked about until it is decided, and decided once? | 2 assignees of whom one is an administrator, 3 requests, 3 fields (merged and optional, merged, required), cosigned and not |
| `workflow_publish` | Is an instance shown what it runs if its version was published alone, and does the latest version have its snapshot? | 2 workflows of 1 name, 2 drawings, 2 publishers, 1 instance, 2 versions, 1 failed publication |

The other run is that of section 4.

The bounds are the smallest in which the interesting cases occur. Two attempts are
needed for a stale attempt beside a current one, and a third for a retry that acts on
the stale one. `task_attempts` has no recovery job: beside an administrator it breaks
`RetryAfterStop` at the third attempt (section 4). `task_jobs` has it, with the
submission that is repeated while the first is under way, and the other properties of
`task_attempts` are proved for any goroutines. Withdrawals need three nodes for a
compensation that itself has a compensation, and two faults for a crash of the request
followed by a crash of the job that takes over. A fault is a crash, an RPC error, a
lost event or a failed preparation. One task is enough for `FrozenByWithdrawal`,
because Prepare treats each task of the process alike and Begin looks at one;
`Withdrawal` has several. `CHECK_DEADLOCK FALSE` is set because the systems come to
rest when all tasks are done and the ticket is closed.

Two tickets are the least for which an event can be taken for another's, and for
two requests with one key. One event of a ticket at a time is enough for a
redelivery, which leaves the event in its place while it is handled, and for a
restart, whose event takes the place of one that was taken and may still be under
way. Two consumers of the queue are one
to break and one to replace it. `ProcessAdvance` needs pages of one so that a
process of a frozen ticket can stand before another, two visits for a node that is
entered again after a rejection, and a second process whose last node is an
automation. In `EasyflowProcess` the optional edges of a fork and a join give every
combination of short cuts, and `Defective` has a drawing for every validator;
`MaxRows` is more than any of them needs. Its exceptions are definitions of the
module, each named in the property: `StuckOnlyByShape` has three shapes and the lost
passes, `EndsWhole` and `EnteredOnce` have `UnpairedFork` and `OpenRace`, and `ShownIsTrue`
has `UnpairedFork` and `TwoWays`, where the records do not tell the way. Section 4 shows
the first. The publications need two versions, so
that one may take the other's, and a second workflow of the same name. For
approvals, three requests are two votes and a transfer, or two transfers and the
vote on what they made; the users are interchangeable but for the administrator, and
the requests altogether (`SYMMETRY`). These systems stop when every process has
ended, every publication is done or every request answered, and `CHECK_DEADLOCK
FALSE` is set for that.

For flowx, two assignees are the least for which a rule is more than one vote, two
branches the least for a join, two rounds the least for a task that is older than
the newest of its instance, and three the least for a node whose last task is two
rounds old. The engine's calls end and processes wait for people, so
`CHECK_DEADLOCK FALSE` is set there too: at the last round of `MaxBatch` a
rejection that needs another one is not taken. `RejectTargets` are the nodes a
rejection may name. The passing runs allow the starter and nodes before the fork,
and branches of one node: for branches of two nodes, or a rejection to a node on
one branch, the same properties fail, as section 4 shows. In
`flowx_conditional` every path leads through the join, since `FinishedMeansAgreed`
speaks of every node the instance ever came to, also of one that a later round
went round.

### Fairness

`ioc/task.go` starts every job on a ticker for the life of the process: the start
job every 10 s, the task recovery job every minute, the withdrawal recovery job
every minute. Each lists what it finds and works through all of it, so a task that
is again and again in the listed status is again and again taken up: strong
fairness of the job's call, for each task. A goroutine whose process lives goes on,
since every RPC and transaction has a timeout: weak fairness of its steps. etask
finishes what it runs: weak fairness of `Execute`. Result events need not be
delivered. For withdrawals it is enough that the job lists what stays listed (weak
fairness of `ListStale`) and its steps go on. `WithdrawalEnds` also assumes, of
compensations only, that one which is ready again and again is started and succeeds
(strong fairness of `StartTask` and of a success), and that an administrator retries
one that has failed for good (weak fairness of `RetryTask`); the code has no other
way out of `WITHDRAWING`.

A consumer's goroutines go on while their process lives: weak fairness of each
reader's step and of the steps of Close and Stop. That a broker that went away
comes back, so that making a consumer succeeds at last, is strong fairness of
`Create`; without it no reader reads again, and the code says so by retrying for
ever. `ProcessAdvance` has weak fairness of the pass job, of a call of the engine
under way, and of the start job, which the tickers of `ioc/task.go` run.

`ListStale` picks a ticket five minutes after Prepare. That the request has
finished or died by then is assumed (`\A r \in Revokers : Stays(r, "idle")`).

## 4. Where the code and its documentation disagree

This is a run that TLC ends with a counterexample:

- `ticket_reopened`: the consumer binds the instance a second time, after the
  engine has run it; if it has ended or been withdrawn by then, the ticket goes
  back to `PROCESS` for good (`dao/ticket.go:139`, against `domain/ticket.go:78`).

Others show when a cfg is changed. "Two stages" is `MCFlowxParallel.cfg` with
`Edges <- TwoStage`, `Assignees <- OneEach`, `RejectTargets <- ToStarter`, one caller,
two rounds and no crashes.

| Change | Violated | Why |
|---|---|---|
| `MCTaskAttempts.cfg`: `Recoverers = {r1}`, `PROPERTY CancelledNotAutoRetried` | that | the recovery job's refusal of cancelled tasks is an unlocked read; `PrepareRetry` accepts `Cancelled`, so a task terminated in between is restarted automatically (README.md:244) |
| `MCTaskAttempts.cfg`: two operators, or `Recoverers = {r1}` | `RetryAfterStop` | `retry` confirms the cancellation of the attempt it read, and `PrepareRetry` rearms the task in whatever attempt it is by then (README.md:244); the recovery job confirms nothing and rearms a task that was terminated since it read it |
| `MCTaskJobs.cfg`: two recoverers, `MaxAttempts = 4`, `AutoAttemptsBounded` without the jobs beyond the first | that | two jobs count the same attempts without a lock, and both rearm the task: `AutoLimit + 1` attempts, and by `AttemptsAreBounded` no more (`task/service.go:278`) |
| `MCWithdrawal.cfg`: `PROPERTY CompensationNotTerminated` | that | the test that a task is no compensation precedes the transaction that cancels it (README.md:246) |
| `MCWithdrawal.cfg`: `UnreadDefinition = TRUE`, `INVARIANT WithdrawnIsCompensated` | that | a task whose definition could not be read is stored without its compensation, and is not compensated when it succeeds after a retry (README.md:274) |
| `MCWithdrawal.cfg`: two recoverers | `RollbackOnlyBeforeArchive` | a job rolls back on a candidate whose ticket has meanwhile been rolled back, withdrawn again and archived (`dao/withdrawal.go:28`) |
| `MCFlowxParallel.cfg`: `Transactional = FALSE` | `HistoryIsFinal` | outside `DoTx` the locks do not outlast the read, and a second vote rewrites the first (`storage/types.go:45`) |
| `MCFlowxParallel.cfg`: `StatementsFail = TRUE` | `ClosedHasNoWork` | the error of cancelling the siblings is dropped, and they stay pending in a closed process (`engine.go:571`) |
| two stages: `INVARIANT RunningHasWork` | that | a rejection cancels the pending tasks of all branches and repeats one; the join waits for the other for ever (`engine.go:574`, `transition.go:204`) |
| two stages: `INVARIANT NothingOvertaken` | that | a join takes each node's newest round, so an agreement of before a rejection counts again (`model/dsl.go:20`, `transition.go:205`) |
| two stages: `Edges <- CopyBeforeEnd`, `INVARIANT FinishedMeansAgreed` | that | the end behind a carbon copy finishes the instance while a parallel approval is pending (`dispatcher.go:76`) |
| two stages: `Edges <- EmptyBranch` | `RunningHasWork` | a branch from fork straight to join blocks the step before the other branches are activated (`model/dsl.go:20`) |
| two stages: `Edges <- CopyToNobody` | `RunningHasWork` | a carbon copy to nobody leaves no task for the join behind it (`model/dsl.go:17`) |
| `MCFlowxConditional.cfg`: `Edges <- InclusiveTwoStage`, rejections to the starter | `ProcessIsWhole` | of an inclusive branch passed over only the first node is recorded, and the join looks at the last (`model/dsl.go:21`) |
| `MCProcessAdvance.cfg`: `INVARIANT MarkedIsDone` | that | the job takes a row the engine has not inserted yet for one it has passed, marks the task, and the process stays at the node (`pass_process_task_job.go:82`) |
| `MCEasyflow.cfg`: `INVARIANT PublishedNeverStuck` | that | some drawings that pass every validator wait for ever; `StuckOnlyByShape` names their shapes (`converter.go:49`) |
| `MCWorkflowPublish.cfg`: one workflow, no failures, `INVARIANT HistoryIsShown` | that | of two publications that overlap both may be told the later version; the older drawing becomes its snapshot, and instances of the first version have none and are shown the newest drawing (`workflow.go:133`, against `workflow.go:229`); an approval of an instance without a snapshot fails (`ticket/service.go:272`) |
| `MCTicketStart.cfg`: `INVARIANT FailedStartIsKept` | that | a start that fails after the engine has bound the instance leaves a ticket in `PROCESS` that can be neither restarted nor advanced (`event/process/consumer.go:84`) |
| `MCTicketStart.cfg`: two requesters, `INVARIANT OneLiveTicketPerKey` | that | the look for an open ticket of the key and the insert are two statements, and the key has no unique index (`ticket/service.go:97`) |
| `MCTicketApproval.cfg`: `INVARIANT RemarkIsTrue` | that | the remark of a card is "你已同意该申请" also when the vote failed, unless the task was finished or the form invalid (`event/ticket/handler.go:187`) |
| `MCTicketApproval.cfg`: `PROPERTY VotesKept`, no `SYMMETRY` | that | a transfer reads its row without a lock and deletes it by id: a vote given meanwhile is deleted and its task is open again (`dao/engine.go:126`, against its own "任务已完成，无法转交") |
| `MCTicketApproval.cfg`: `INVARIANT DataIsVoted` | that | the fields of an approval are merged before the engine is told; if the vote fails, they stay (`ticket/service.go:313`) |

Task ids of flowx do not contain the instance (`idgen/idgen.go:27`), so a second
instance of a definition cannot insert its first task; every run has one instance.

## 5. Proofs

`AutomationTaskProofs` proves, for any set of tasks and goroutines and any bounds,
that `IInv` is an invariant, and from it `TypeOK`, `TablesAgree`,
`ResultsAreEtasks`, `LiveExecutionsOwned`, `FrozenByWithdrawal` and the action
property `ResultsAreFinal`. The only assumptions are `ConstantsAssumption`: the
three kinds of goroutine are different, `NoTask` is no task, and the bounds are
natural numbers.

None of the safety invariants is inductive alone. That an accepted submission may
be recorded needs to know that etask has an execution under the request id, and
that a refused one may be recorded as a failure needs to know that etask will never
run it; both are known only to the goroutine that was told. `IInv` therefore adds
`GoroutinesAgree`, what a goroutine may rely on after it has released its locks;
`EtaskFollows`, what etask may hold for an attempt in each status; and `Numbered`,
that attempts are created one after the other and the last is the current one.

The proof splits the actions by what they touch. Lemmas such as `LocalStep`,
`CloseStep`, `EtaskStep` and `RpcStep` say which changes of one attempt, one
execution or one goroutine keep the invariant; each action's lemma (`BeginKeeps`,
`BindKeeps`, `TerminateKeeps`, ...) applies them, and `NextKeeps` collects them.

`TasksImplementTables` is `Spec => ImplementsTables`: under `IInv` each step is one
transaction of `TaskTables` or leaves its rows alone.

Two theorems are about goroutines that retry and terminate one task at the same
time, each on what it read before. `CancelsAreDelivered` proves `CancelsUnderWay`,
for any number of administrators, start jobs and recovery jobs: as long as no call was
lost and no goroutine died, an attempt that was cancelled and that etask may still
run has a goroutine about to deliver the cancel, also if the task was rearmed and has
a newer attempt. It does not say that the next attempt waits for that, which with two
operators it need not (`RetryAfterStop`, section 4). `AttemptsAreBounded` proves
`AutoAttemptsBounded` for any finite number of recovery jobs, such as the replicas of
the service have: a task gets at most `AutoLimit` attempts and one more for each job
beyond the first, whatever start jobs, results, terminations and withdrawals do
meanwhile. The jobs count without a lock, so `CountInv` counts with each task the jobs
that have counted it and will rearm it (`Rearming`). TLC reaches the bound with two jobs,
so it cannot be lowered. `NoManualRetry` leaves out the behaviours in which an
administrator retries by hand, since that takes no count of attempts and no bound
holds.

`WithdrawalProofs` proves for any process definition and any number of requests,
consumers, administrators and faults, with one recovery job (`OneJob`; a service
starts one, `ioc/task.go`), that no ticket goes back to `PROCESS` once its instance is
archived (`NoWayBackAfterArchive`), and, if definitions can be read
(`~UnreadDefinition`), that the withdrawal implements its contract
(`WithdrawalImplementsContract`) and leaves no successful action uncompensated
(`WithdrawnMeansCompensated`). Section 4 shows that both assumptions are needed.
An instance is ended only once END is written (`EndIsWritten`), and a ticket in END
is ended whatever the instance is, so the proofs hold for an END between any two
steps of a withdrawal. `Protocol` says what ticket and engine may rely on: which goroutine may stand where
(`StepsFit`), which states of the two stores go together (`StoresAgree`), that at
most one goroutine may still roll back (`OneMayGoBack`), and that whoever is past
the archiving goes on (`GoesOnAfterArchive`). `Compensation` adds the plans: one
covers every success that is due and what still runs, and names only targets (`PlansFit`), nothing but
compensations runs in a frozen process (`FrozenRuns`), and what was planned is
activated and at rest in the end (`ActivatedAll`, `WithdrawnAtRest`). The proof of
`Compensation` has three layers, by what a transaction does to a row: it leaves the
task at rest, begins it or lets it succeed.

`ProcessAdvanceProofs` proves for any number of instances, nodes, pass jobs, visits
and faults and any limits of the lists (`ProcessAdvanceAssumption`: a node is on one
path once, and a path starts with a person's node) that a process is stranded at a task handed over
only if the task was marked too early or the node is visited again
(`StrandedOnlyIfMissed`), and that what the job passes is an automation node whose
own task has succeeded (`JobPassesItsOwn`). Neither is inductive. `AdvanceInv` adds
`EngineInv`, that a call lasts exactly as long as its task is finished, that it goes
to a node beside it, that the job which makes it waits for it, and that a ticket in
END has an instance that is gone or whose call is about to end it, and one in
WITHDRAW none; `JobInv`, that
the tasks of a page stay successful, that what a job found is the engine's task of its
own task's node, and that it marks a task only if it is missed or the visit it was
made for is over; and `MarkInv`, the same of what is marked. `Over` is what no
step can take back, a ticket in END among it; `TicketMoves` says what becomes of a ticket
without the engine. Each action changes the engine (`ArriveKeeps`,
`CallFailsKeeps`, `CallBegins`), a job (`JobStep`, `GoOnKeeps`) or tasks and tickets
(`TaskStep`). That a page which is not empty has an oldest task (`OldestInTodo`) is the
well-foundedness of the natural numbers.

`FlowxEngineProofs` proves, for every process definition and any number of
instances, callers and rounds, that with transactional calls and no ignored error
`IInv` is an invariant, and from it `PendingAreLatest`, `ClosedHasNoWork` and the
action property `HistoryIsFinal`. The assumptions are `DefinitionAssumption` (the
definition is valid) and `EngineAssumption` (the constants have their types); section
4 shows what happens in the two cases that are excluded. The two invariants
are about the tables and say nothing of a call half-way, so `IInv` adds
`SessionInv`: the snapshot contains every row of the instance and none decided
differently (`Extends`), what is pending in it is in the session's round, which is
the newest (`InRound`), and a closed session has nothing pending and only its save
to do. Every action continues a session, drops it or saves it: `ContinueKeeps`,
`FailKeeps` and `SaveInstanceKeeps` are the three cases, and the lemmas of the
actions show that the session they continue satisfies `SessionInv`. That nothing
survives a rejection (`RejectedKeeps`) rests on `InRound`: cancelling by round
cancels all that is pending.

What depends on the graph (`RunningHasWork`, `FinishedMeansAgreed`,
`NothingOvertaken`) does not hold for every definition, as section 4 shows, but for
every staged one: `StagedProcessIsWhole` proves `ProcessIsWhole` and
`StagedNeverOvertakes` proves `NothingOvertaken` under `Staged(pos)`, with
transactional calls and no ignored error. A definition is staged if its nodes are
the start, approvals, parallel gateways and ends; if `pos` gives each node a place
that every edge increases, without passing over a place at which approvals are; if
every node of a place leads through the same joins and forks to all nodes of the
next (`Onward`, `Fans`); if an end is alone at the last place; and if a rejection
that names its target names the start or an approval that is alone at the first
place, and one that does not goes back to an earlier place (`Returns`). So there may
be any number of stages of any number of parallel approvals, each with any number of
assignees and either rule. Each exclusion is one of the cases of section 4: a branch
of two nodes (`TwoStage`), an empty branch, a rejection into a branch.
`ParallelIsStaged` in `MCFlowx` has TLC evaluate that the definition of
`MCFlowxParallel.cfg` is one, so the hypothesis is satisfied by what is checked.

The two follow from `StageInv` (`StagesInOrder`). In the tables, an instance runs
exactly as long as something is pending in it; whatever is pending is at one place;
all approvals before that place have agreed, and at the place itself each node is
settled or has a vote in the newest round that is open and undecided (`AtStage`,
`Voting`, `Settled`). A call half-way is at a place of which some nodes have yet to be
opened (`Opening`: `Coming` are the nodes left on its agenda), or has reached the end
with everything agreed (`Agreed`). The proof has three layers. That the recursive
functions of the kernel mean what they should: `AmongElements` and `OutEdgesOf` for
the index of the edges, `WalkStep` and `WalkDrains` for the walk of
`ResolveNextStep`, by induction over sets of numbers (`Induction`), which the prover
can instantiate where it cannot instantiate a predicate. `NextStage`: after a
decision the walk is blocked at a join exactly as long as a node of the stage has
not agreed, and else opens all nodes of the next stage, each once. And a lemma per
action (`StageVote`, `StageReject`, `StageActivateApproval`, `StageSave`, ...), of
which those for rejections need that what was agreed before the target stays agreed
(`BeforeRejection`). `BehindIsLater` relates the places to the reachability that
`NothingOvertaken` speaks of. Definitions with exclusive or inclusive gateways,
automation and carbon copies are checked on the graph of
`MCFlowxConditional.cfg` only.

`OneVoteIsEnough` proves `OneVoteDecides` from `IInv` and `VoteInv`: in the tables
and in every session, an approval's task that is pending or passed is one of its
node's assignees in its round, and where one vote decides, nothing but that vote is
left. That no later task joins a decided approval rests on the round: the tasks
of a node and round are saved together or not at all.

`TicketStartProofs` proves, for any number of tickets, instances, requesters,
restarters and consumers (`TicketStartAssumption`: the three kinds of goroutine are
different), that a ticket is in a status before the start exactly as long as no instance is
bound to it (`BoundWhenStarted`), that one in `START` has an event or a goroutine
that will start or mark it, unless that was lost (`StartIsPending`), and that a ticket
shows END exactly if the end node of its own instance has written it and the
consumer's second binding has not taken it back, and WITHDRAW only for an instance
the engine has archived (`FinalStatusIsTrue`); both hold although END is written
before the engine ends the instance, and between the steps of a withdrawal. `IInv` says what each goroutine relies on: `JobsFit`, that a consumer
which binds has an instance of its ticket, and `OneStarter`, that an instance is
started by one of them, so that nobody binds it under another's hands;
`BoundToOwn` that a ticket is never given another's; and `EndComesLast`, that end node and
revoke come after the start. `EngineStep` is the lemma for the steps of the engine
that leave every goroutine alone. `OneConsumerStartsOnce`
proves `OneInstancePerTicket` for a single consumer: `StartsAlone` and
`StartedIsKnown` then say that every started instance is already bound or in the
consumer's hands, so that the look at the row before a start cannot miss one. With
two consumers of the topic the theorem is false, since the look and the start are
not one step; a service starts one consumer of the topic (`ioc/mq_consumer.go`).

`TicketApprovalProofs` proves for any users, administrators, fields and number of
requests (`TicketApprovalAssumption`: the sets are subsets of one another as named,
and somebody is assigned) that a vote that counts is its assignee's or an
administrator's (`VotesAreAssignees`), that it has its form and its merged fields a
value (`VotesAreRecorded`), and that the node is decided once (`NodeIsDecidedOnce`).
None is about the moment of the vote alone, so `IInv` adds `CallsFit`, what a call
still knows after its check: that its user may act on the task, since a transfer
never changes the assignee of a row; what it has merged and kept, since a merge takes
no field out; and that the rows a transfer will make do not exist yet.

`ResilientConsumerProofs` proves for any number of readers, closers and consumers
(`ResilientConsumerAssumption`) that each consumer made is current, closed or about
to be closed, and closed at most once (`EveryConsumerClosedOnce`). `IInv` adds who
may close what: what a goroutine is about to close is open, no longer current, and
held for closing by no other (`HeldHandles`, `OneClosing`), and what is open was
never closed (`OpenNotClosed`). That Close and a reader never take the same
consumer rests on both removing it from `current` under the mutex.

`WorkflowProofs` proves for any number of workflows, names, drawings,
publishers and instances (`PublishAssumption`) that an instance whose version was
published alone and completely is shown what it runs (`ShownAsPublished`), and that
the latest version of a process has a snapshot once no publication of that process
is under way or was abandoned (`LatestHasSnapshot`). The ghosts name the exceptions: `overlapped` and
`abandoned`. `IInv` follows a publication through its steps: `SavedItsDrawing`,
that the version it saved is its drawing; `TogetherOverlap`, that two between
`ProcessSave` and `CreateSnapshot` overlap; `LatestIsOwn`, that one alone is told
its own version; `SnapshotsFit` and `AloneHasSnapshot`, what the table holds for a
version published alone; `StartsVersions`, that instances run versions that exist.
The snapshots are grouped by version in the model, so that the first of several rows
by id is the head of a sequence.

For drawings, with any nodes and any set of them that users may draw
(`CanvasAssumption`: a drawing has finitely many nodes, of which none has the id of
a proxy, as a canvas does not name its nodes `proxy_<src>_<dst>`), it proves that what is
published has no cycle, and that each of its nodes lies between the start and an end
(`PublishedIsSound`, from `AcceptedIsSound`). `Acyclic` and `Reachability` are
searches; that a search of as many rounds as there are nodes has found everything
is a counting argument: as long as it has not stopped, the set grows in each
round. `ProcessTypes` follows the run of such a definition (`Walking`): records and
pending steps name its nodes, and every step, from or to a proxy or not, is along an
edge of the drawing (`NextIsDrawn` for what a gateway hands over to, `PrevIsDrawn` for
what names a task node as its predecessor). `VersionsAreSound` puts the two models together: if a publication refuses
what `ValidateAll` does, then however publications, edits and starts interleave
every instance runs a drawing with these properties, and is shown one if its version
was published alone.

Checked by TLC only:

- `RetryAfterStop`, with one operator, since it holds for no more (section 4).
- Liveness (`EveryTaskSettles`, `WithdrawalEnds`, `StopReturns`, `KeepsReading`,
  `ResultDelivered`, `ReadyTaskStarts`), which is beyond TLAPS.
- `StuckOnlyByShape`, `EndsWhole`, `EnteredOnce` and `ShownIsTrue` of
  `EasyflowProcess`. They say that a list of shapes is complete, among the drawings
  of `MCEasyflow`; for larger drawings the lists may have to be longer, and a proof
  would need, for every graph, where each branch meets the others.

## 6. What is not modelled

See `components` in `PROJECT.json`. More than a third of the Go lines are generated
protobuf code and mocks, and most of the rest is web handlers, DAOs of
configuration tables, notification texts and wiring: one statement per request,
without a state of their own that two requests could disagree about.

Within the modelled components: the content of inputs and outputs, the choice of a
runner, schedules (a task may be listed at any time after its creation, which
allows every schedule), tenants, and paging of the jobs' lists except in
`ProcessAdvance`. Of flowx: Deploy and the plan cache (a definition is a constant),
hooks (assignees are constants), the evaluation of conditions (a rule is satisfied
or not), `current_node`, comments, events and the timeline.

Of easy-workflow, the library the program runs processes on, what `src/` shows is
assumed: when a gateway with `WaitForAllPrevNode` opens and what `prev_node_id`
holds (the comments of `validator.go:421` and of `process.go`), that a task runs its
callbacks before its row is inserted, and that an instance runs the version that is
the latest when it starts. Rejections are the library's decision and are not in
`EasyflowProcess`. A task node with several successors is not started there
(`OneSuccessor`), since what the library does with it cannot be read here.
`internal/pkg/compiler/easyflow` is a copy of `internal/pkg/easyflow` that nothing
imports, and the flowx compiler beside it has no caller: neither is mapped.

Of approvals the values of fields are left out: a value is the request that wrote
it, and whether a form is valid is a choice. A call of the engine is one step, and
what the engine does with a vote at a node that is cosigned or not is assumed as the
code relies on it. `TicketApproval` is one visit of one node; what follows a vote
along the process is in `ProcessAdvance` and `EasyflowProcess`, which have the votes
but not the calls before them.

## 7. Plan

1. `TicketApproval` composed with the rows of `ProcessAdvance`: several visits of a
   node, and rejections that go back to it.
2. flowx by tokens: an abstract specification of a process as tokens on its graph,
   implemented by `FlowxEngine` on the graphs where it is; redeployment under a
   running instance.
3. The template syncer; schedules and the rule evaluator as pure algorithms.
4. Proofs: staged definitions with exclusive gateways, automation and carbon
   copies; processes of `EasyflowProcess` whose drawings are nested forks and
   joins; types of `FlowxEngine`.
