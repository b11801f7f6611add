----------------------------- MODULE TaskDomain -----------------------------
(***************************************************************************)
(* The vocabulary of internal/domain/task.go and internal/domain/ticket.go *)
(* shared by the modules about automation tasks and withdrawal: the status *)
(* values of a task, of one execution attempt and of a ticket, and the     *)
(* predicates that the services and the DAOs evaluate on them.             *)
(***************************************************************************)

\* automation_tasks.status
TaskStatus == {"Waiting", "Submitting", "Running", "Success", "Failed",
               "Blocked", "Cancelled"}

\* automation_task_attempts.status; "None" stands for a row not created yet
AttemptStatus == {"None", "SUBMITTING", "RUNNING", "SUCCESS", "FAILED",
                  "CANCELLED"}

\* automation_tasks.execution_kind
ExecutionKind == {"PROCESS", "COMPENSATION"}

\* ticket.status from the moment a process instance is bound to the ticket
TicketStatus == {"PROCESS", "END", "WITHDRAWING", "WITHDRAW"}

\* TaskStatus.CanRetry
CanRetry(s) == s \in {"Failed", "Blocked", "Cancelled"}

\* TaskStatus.CanTerminate
CanTerminate(s) ==
    s \in {"Waiting", "Blocked", "Failed", "Submitting", "Running"}

\* AttemptStatus.IsTerminal
IsTerminal(a) == a \in {"SUCCESS", "FAILED", "CANCELLED"}

\* The attempts a transaction may still change: created and not terminal
IsOpen(a) == a \in {"SUBMITTING", "RUNNING"}

\* The two statuses in which a task owns an open attempt
IsActive(s) == s \in {"Submitting", "Running"}

\* TaskExecutionKind.AllowsStart
AllowsStart(kind, ticket) ==
    \/ kind = "PROCESS" /\ ticket = "PROCESS"
    \/ kind = "COMPENSATION" /\ ticket = "WITHDRAWING"

\* withdrawalPendingStatuses
Pending == {"Waiting", "Blocked", "Failed"}
=============================================================================
