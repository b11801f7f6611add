----------------------------- MODULE TaskTables -----------------------------
(***************************************************************************)
(* The transactions of internal/repository/dao on the rows ticket and      *)
(* automation_tasks of one process instance, each as one action, whoever   *)
(* calls it and whenever: what the database lets happen. Attempt rows,     *)
(* etask and the goroutines are left out; module AutomationTask refines    *)
(* this one with them, module Withdrawal adds the callers of the           *)
(* withdrawal transactions.                                                *)
(***************************************************************************)
EXTENDS TaskDomain

CONSTANTS
    Nodes,   \* the automation nodes of the process definition
    NoNode,
    CompOf,  \* the compensation node in the process definition, or NoNode
    UnreadDefinition  \* whether CreateTask may fail to read the definition

\* A node is not its own compensation (checked when the workflow is compiled)
ASSUME CompensationAssumption ==
    /\ NoNode \notin Nodes
    /\ CompOf \in [Nodes -> Nodes \cup {NoNode}]
    /\ \A n \in Nodes : CompOf[n] # n
    /\ UnreadDefinition \in BOOLEAN

VARIABLES
    ticket,  \* ticket.status
    status,  \* automation_tasks.status by node
    kind,    \* automation_tasks.execution_kind by node
    comp     \* automation_tasks.compensation_node_id by node

tables == <<ticket, status, kind, comp>>

\* "Absent": the node's task has not been created
RowStatus == TaskStatus \cup {"Absent"}

TablesTyped ==
    /\ ticket \in TicketStatus
    /\ status \in [Nodes -> RowStatus]
    /\ kind \in [Nodes -> ExecutionKind]
    /\ comp \in [Nodes -> Nodes \cup {NoNode}]

\* Some rows may exist already
TablesInit ==
    /\ ticket = "PROCESS"
    /\ status \in [Nodes -> {"Absent", "Waiting", "Blocked"}]
    /\ kind = [n \in Nodes |-> "PROCESS"]
    /\ comp = [n \in Nodes |-> IF status[n] = "Absent" THEN NoNode
                                                      ELSE CompOf[n]]

Move(n, s) ==
    /\ status' = [status EXCEPT ![n] = s]
    /\ UNCHANGED <<ticket, kind, comp>>

\* CreateTask: the row is Blocked where prepareTaskDefinition failed, and then
\* without a compensation if it failed before it had read the definition
CreateTask(n, s) ==
    /\ status[n] = "Absent"
    /\ status' = [status EXCEPT ![n] = s]
    /\ \/ comp' = [comp EXCEPT ![n] = CompOf[n]]
       \/ s = "Blocked" /\ UnreadDefinition /\ UNCHANGED comp
    /\ UNCHANGED <<ticket, kind>>

\* TaskAttemptDAO.Begin
Begin(n) ==
    /\ status[n] = "Waiting"
    /\ AllowsStart(kind[n], ticket)
    /\ Move(n, "Submitting")

\* TaskAttemptDAO.BindExecution and RejectSubmission, attempt still open
BindExecution(n)    == status[n] = "Submitting" /\ Move(n, "Running")
RejectSubmission(n) == status[n] = "Submitting" /\ Move(n, "Blocked")

\* TaskAttemptDAO.Complete, attempt still open
Complete(n, s) ==
    /\ IsActive(status[n])
    /\ s \in {"Success", "Failed", "Cancelled"}
    /\ Move(n, s)

\* TaskDAO.Block, TaskDAO.PrepareRetry, TaskAttemptDAO.TerminateTask
Block(n)         == status[n] \in {"Waiting", "Failed"} /\ Move(n, "Blocked")
PrepareRetry(n)  == CanRetry(status[n]) /\ Move(n, "Waiting")
TerminateTask(n) == CanTerminate(status[n]) /\ Move(n, "Cancelled")

\* The compensation nodes of the tasks that have succeeded
Targets ==
    {comp[n] : n \in {m \in Nodes : status[m] = "Success"}} \ {NoNode}

\* WithdrawalDAO.Prepare: only a compensation whose source has succeeded may
\* be submitting or running
Prepare ==
    /\ ticket = "PROCESS"
    /\ \A n \in Nodes : IsActive(status[n]) => n \in Targets
    /\ ticket' = "WITHDRAWING"
    /\ kind' = [n \in Nodes |-> "PROCESS"]
    /\ UNCHANGED <<status, comp>>

\* WithdrawalDAO.ActivateCompensations
ActivateCompensations(plan) ==
    /\ ticket = "WITHDRAWING"
    /\ status' = [n \in Nodes |->
         CASE status[n] \notin Pending -> status[n]
           [] status[n] \in Pending /\ n \notin plan -> "Cancelled"
           [] status[n] \in Pending /\ n \in plan ->
                IF kind[n] = "COMPENSATION" THEN status[n] ELSE "Waiting"]
    /\ kind' = [n \in Nodes |-> IF n \in plan /\ status[n] # "Absent"
                                  THEN "COMPENSATION" ELSE kind[n]]
    /\ UNCHANGED <<ticket, comp>>

\* Mutant of CompensationsSucceeded: it is enough that none is open
CompensationsAtRest ==
    \A n \in Nodes : kind[n] = "COMPENSATION" =>
        status[n] \in {"Success", "Failed", "Blocked", "Cancelled"}

\* WithdrawalDAO.TryFinalize
CompensationsSucceeded ==
    \A n \in Nodes : kind[n] = "COMPENSATION" => status[n] = "Success"

TryFinalize ==
    /\ ticket = "WITHDRAWING"
    /\ CompensationsSucceeded
    /\ ticket' = "WITHDRAW"
    /\ UNCHANGED <<status, kind, comp>>

\* WithdrawalDAO.Rollback
Rollback ==
    /\ ticket = "WITHDRAWING"
    /\ ticket' = "PROCESS"
    /\ UNCHANGED <<status, kind, comp>>

\* EventNotify at the end node, UpdateStatusByInstanceId: whatever the ticket's
\* status was, a withdrawal in progress or finished included
EndProcess ==
    /\ ticket' = "END"
    /\ UNCHANGED <<status, kind, comp>>

TaskTransaction(n) ==
    \/ \E s \in {"Waiting", "Blocked"} : CreateTask(n, s)
    \/ Begin(n) \/ BindExecution(n) \/ RejectSubmission(n)
    \/ \E s \in {"Success", "Failed", "Cancelled"} : Complete(n, s)
    \/ Block(n) \/ PrepareRetry(n) \/ TerminateTask(n)

TicketTransaction ==
    \/ Prepare \/ TryFinalize \/ Rollback \/ EndProcess
    \/ \E plan \in SUBSET Nodes : ActivateCompensations(plan)

TablesNext == (\E n \in Nodes : TaskTransaction(n)) \/ TicketTransaction

TablesSpec == TablesInit /\ [][TablesNext]_tables
=============================================================================
