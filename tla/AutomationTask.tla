--------------------------- MODULE AutomationTask ---------------------------
(***************************************************************************)
(* The life of the automation tasks of one process instance: the task and  *)
(* attempt tables (internal/repository/dao/task.go, task_attempt.go), the  *)
(* service that drives them (internal/service/task/service.go), the jobs   *)
(* that call it (start_task_job.go, task_recovery_job.go), the consumer of *)
(* etask's result events (internal/event/task/consumer.go) and the calls   *)
(* the service makes to etask (internal/client/etask/submission.go).       *)
(*                                                                         *)
(* A database transaction is one action. Between two transactions, between *)
(* an unlocked read and the transaction that uses it, and around every RPC *)
(* a goroutine may be overtaken by any other or die: where it stands is    *)
(* kept in work. Only etask is outside the repository; what this module    *)
(* says of it is what the client code and its comments rely on: a request  *)
(* id names at most one execution, a rejected request stays rejected, and  *)
(* a cancel intent is remembered even for a request not yet seen.          *)
(*                                                                         *)
(* All tasks here are of kind PROCESS; compensation tasks are the subject  *)
(* of module Withdrawal.                                                   *)
(***************************************************************************)
EXTENDS Naturals, FiniteSets, TaskDomain

CONSTANTS
    Tasks,        \* the automation tasks of the process instance
    Starters,     \* goroutines of StartTaskJob (and CreateTask's own start)
    Recoverers,   \* instances of TaskRecoveryJob
    Operators,    \* administrators' HTTP requests (retry, terminate)
    NoTask,       \* the task of an idle goroutine
    AutoLimit,    \* maxTaskAttempts
    MaxAttempts,  \* bound: attempts modelled per task
    MaxFaults     \* bound: crashes, RPC errors, lost events and preparation
                  \* errors of one behaviour

ASSUME ConstantsAssumption ==
    /\ NoTask \notin Tasks
    /\ AutoLimit \in Nat \ {0}
    /\ MaxAttempts \in Nat \ {0}
    /\ MaxFaults \in Nat
    /\ Starters \cap Recoverers = {}
    /\ Starters \cap Operators = {}
    /\ Recoverers \cap Operators = {}

Workers == Starters \cup Recoverers \cup Operators
Nos     == 1..MaxAttempts

VARIABLES
    ticket,    \* ticket.status
    status,    \* [Tasks -> TaskStatus]
    current,   \* [Tasks -> 0..MaxAttempts]: current_attempt_id by number
    attempt,   \* [Tasks -> [Nos -> AttemptStatus]]
    bound,     \* [Tasks -> SUBSET Nos]: attempts with an execution_id
    execution, \* [Tasks -> [Nos -> Executions]]: etask's view of a request id
    topic,     \* result events in Kafka: pairs <<task, attempt number>>
    work,      \* [Workers -> Jobs]: where each goroutine stands
    faults     \* faults so far

rows == <<ticket, status, current, attempt, bound>>
vars == <<ticket, status, current, attempt, bound, execution, topic, work,
          faults>>

(***************************************************************************)
(* etask's knowledge of a request id. INTENT is a cancel intent for a      *)
(* request it has not seen, STOPPING an execution told to stop.            *)
(***************************************************************************)
Executions == {"NONE", "INTENT", "REJECTED", "LIVE", "STOPPING", "SUCCESS",
               "FAILED", "CANCELLED"}
Results    == {"SUCCESS", "FAILED", "CANCELLED"}

Steps == {"idle", "listed", "begin", "dispatch", "report", "confirm",
          "rearm", "block", "terminate", "stop"}
Replies == {"none", "accepted", "rejected"}
Jobs == [step : Steps, task : Tasks \cup {NoTask}, no : 0..MaxAttempts,
         reply : Replies]

Idle == [step |-> "idle", task |-> NoTask, no |-> 0, reply |-> "none"]
At(s, t, n) == [step |-> s, task |-> t, no |-> n, reply |-> "none"]

TypeOK ==
    /\ ticket \in TicketStatus
    /\ status \in [Tasks -> TaskStatus]
    /\ current \in [Tasks -> 0..MaxAttempts]
    /\ attempt \in [Tasks -> [Nos -> AttemptStatus]]
    /\ bound \in [Tasks -> SUBSET Nos]
    /\ execution \in [Tasks -> [Nos -> Executions]]
    /\ topic \subseteq Tasks \X Nos
    /\ work \in [Workers -> Jobs]
    /\ faults \in 0..MaxFaults

\* The rows CreateTask has just inserted, without an attempt: Waiting, or
\* Blocked where the task's definition could not be prepared
Init ==
    /\ ticket = "PROCESS"
    /\ status \in [Tasks -> {"Waiting", "Blocked"}]
    /\ current = [t \in Tasks |-> 0]
    /\ attempt = [t \in Tasks |-> [n \in Nos |-> "None"]]
    /\ bound = [t \in Tasks |-> {}]
    /\ execution = [t \in Tasks |-> [n \in Nos |-> "NONE"]]
    /\ topic = {}
    /\ work = [w \in Workers |-> Idle]
    /\ faults = 0

Goto(w, job) == work' = [work EXCEPT ![w] = job]
Stays(w, s)  == work[w].step = s
Fault        == faults < MaxFaults /\ faults' = faults + 1

-----------------------------------------------------------------------------
(***************************************************************************)
(* StartTask.                                                              *)
(***************************************************************************)

\* The test StartTask and Begin both make on the task row
HasOpenAttempt(t) == current[t] > 0 /\ IsActive(status[t])

\* Mutant of StartDecision: an open attempt is never submitted again
StartDecisionOnce(t) ==
    IF status[t] = "Waiting" THEN At("begin", t, 0) ELSE Idle

\* What StartTask decides from its unlocked reads of the task and the attempt
StartDecision(t) ==
    IF HasOpenAttempt(t)
      THEN IF current[t] \in bound[t] THEN Idle
                                      ELSE At("dispatch", t, current[t])
      ELSE IF status[t] = "Waiting" THEN At("begin", t, 0) ELSE Idle

\* StartTaskJob.run hands a listed task to StartTask. The list may be old by
\* then, so the task may be in any status.
StartTask(w, t) ==
    /\ w \in Starters
    /\ Stays(w, "idle")
    /\ StartDecision(t) # Idle
    /\ Goto(w, StartDecision(t))
    /\ UNCHANGED <<rows, execution, topic, faults>>

\* n is attempt_no + 1 of the task's last attempt row, 1 without one
IsNextNo(t, n) == \A m \in Nos : m < n <=> attempt[t][m] # "None"

\* TaskAttemptDAO.Begin, in one transaction under the ticket's and the task's
\* row locks: return the open attempt, refuse, or create the next attempt.
BeginAttempt(w) ==
    LET t == work[w].task IN
    /\ Stays(w, "begin")
    /\ \/ /\ HasOpenAttempt(t)
          \* its row is read without a lock, in a snapshot it may be missing from
          /\ Goto(w, At("dispatch", t, current[t])) \/ Goto(w, Idle)
          /\ UNCHANGED rows
       \/ /\ ~HasOpenAttempt(t)
          /\ status[t] # "Waiting" \/ ~AllowsStart("PROCESS", ticket)
          /\ Goto(w, Idle)
          /\ UNCHANGED rows
       \/ /\ status[t] = "Waiting"
          /\ AllowsStart("PROCESS", ticket)
          /\ \E n \in Nos :
               /\ IsNextNo(t, n)
               /\ attempt' = [attempt EXCEPT ![t][n] = "SUBMITTING"]
               /\ status' = [status EXCEPT ![t] = "Submitting"]
               /\ current' = [current EXCEPT ![t] = n]
               /\ Goto(w, At("dispatch", t, n))
          /\ UNCHANGED <<ticket, bound>>
    /\ UNCHANGED <<execution, topic, faults>>

\* Mutant of BlockRow: the update without its condition on the status
BlockRowAnyStatus(t) == status' = [status EXCEPT ![t] = "Blocked"]

\* TaskDAO.Block: only a Waiting or Failed row becomes Blocked
BlockRow(t) ==
    status' = IF status[t] \in {"Waiting", "Failed"}
                THEN [status EXCEPT ![t] = "Blocked"] ELSE status

\* prepareAttempt fails before Begin: blockTask.
PrepareFails(w) ==
    /\ Stays(w, "begin")
    /\ Fault
    /\ BlockRow(work[w].task)
    /\ Goto(w, Idle)
    /\ UNCHANGED <<ticket, current, attempt, bound, execution, topic>>

-----------------------------------------------------------------------------
(***************************************************************************)
(* submitAttempt: the Dispatch RPC and the transaction that records its    *)
(* answer.                                                                 *)
(***************************************************************************)

\* etask's reaction to RunRunner with a request id: an unseen request is
\* accepted or refused for good, an intent turns it into a cancelled
\* execution, any other request is answered as before.
Dispatched(e) ==
    CASE e = "NONE"   -> {"LIVE", "REJECTED"}
      [] e = "INTENT" -> {"INTENT", "CANCELLED"}
      [] OTHER        -> {e}

\* The answer that goes with etask's state after the call
Answer(e) == IF e \in {"INTENT", "REJECTED"} THEN "rejected" ELSE "accepted"

\* The event etask publishes when an execution it created is cancelled
Announce(t, n, e) ==
    topic' = IF e = "CANCELLED" /\ execution[t][n] = "INTENT"
               THEN topic \cup {<<t, n>>} ELSE topic

\* Mutant of SubmissionError: a lost answer is taken for a refusal
SubmissionErrorRejects(w) ==
    /\ Fault
    /\ Goto(w, [At("report", work[w].task, work[w].no)
                  EXCEPT !.reply = "rejected"])

\* A transport error: RecordSubmissionError keeps the statuses
SubmissionError(w) == Fault /\ Goto(w, Idle)

Dispatch(w) ==
    LET t == work[w].task
        n == work[w].no
    IN
    /\ Stays(w, "dispatch")
    /\ \E e \in Dispatched(execution[t][n]) :
         /\ execution' = [execution EXCEPT ![t][n] = e]
         /\ Announce(t, n, e)
         /\ \/ /\ Goto(w, [At("report", t, n) EXCEPT !.reply = Answer(e)])
               /\ UNCHANGED faults
            \/ SubmissionError(w)
    /\ UNCHANGED rows

\* An error before etask saw the request
DispatchFails(w) ==
    /\ Stays(w, "dispatch")
    /\ SubmissionError(w)
    /\ UNCHANGED <<rows, execution, topic>>

\* TaskAttemptDAO.BindExecution
BindExecution(w) ==
    LET t == work[w].task
        n == work[w].no
    IN
    /\ Stays(w, "report")
    /\ work[w].reply = "accepted"
    /\ bound' = [bound EXCEPT ![t] = @ \cup {n}]
    /\ IF IsTerminal(attempt[t][n])
         THEN UNCHANGED <<attempt, status>>
         ELSE /\ attempt' = [attempt EXCEPT ![t][n] = "RUNNING"]
              /\ status' = IF current[t] = n /\ status[t] = "Submitting"
                             THEN [status EXCEPT ![t] = "Running"]
                             ELSE status
    /\ Goto(w, Idle)
    /\ UNCHANGED <<ticket, current, execution, topic, faults>>

\* TaskAttemptDAO.RejectSubmission
RejectSubmission(w) ==
    LET t == work[w].task
        n == work[w].no
    IN
    /\ Stays(w, "report")
    /\ work[w].reply = "rejected"
    /\ IF IsTerminal(attempt[t][n])
         THEN UNCHANGED <<attempt, status>>
         ELSE /\ attempt' = [attempt EXCEPT ![t][n] = "FAILED"]
              /\ status' = IF current[t] = n /\ status[t] = "Submitting"
                             THEN [status EXCEPT ![t] = "Blocked"]
                             ELSE status
    /\ Goto(w, Idle)
    /\ UNCHANGED <<ticket, current, bound, execution, topic, faults>>

-----------------------------------------------------------------------------
(***************************************************************************)
(* Results. CompleteAttempt is reached from the consumer and from          *)
(* ReconcileTask; for tasks of kind PROCESS it is TaskAttemptDAO.Complete. *)
(***************************************************************************)

\* Mutant of TaskResult: whatever is not a failure is a success
TaskResultNoCancel(r) == IF r = "FAILED" THEN "Failed" ELSE "Success"

\* The task status Complete derives from etask's result
TaskResult(r) == CASE r = "SUCCESS"   -> "Success"
                   [] r = "FAILED"    -> "Failed"
                   [] r = "CANCELLED" -> "Cancelled"

\* Mutant of Complete: the result of a closed attempt is recorded again
CompleteAgain(t, n, r) ==
    /\ attempt[t][n] # "None"
    /\ attempt' = [attempt EXCEPT ![t][n] = r]
    /\ status' = IF current[t] = n /\ IsActive(status[t])
                   THEN [status EXCEPT ![t] = TaskResult(r)] ELSE status
    /\ UNCHANGED <<ticket, current, bound>>

\* TaskAttemptDAO.Complete: idempotent by request id, and the task follows
\* only while the attempt is its current one and it is still active.
Complete(t, n, r) ==
    /\ IsOpen(attempt[t][n])
    /\ attempt' = [attempt EXCEPT ![t][n] = r]
    /\ status' = IF current[t] = n /\ IsActive(status[t])
                   THEN [status EXCEPT ![t] = TaskResult(r)] ELSE status
    /\ UNCHANGED <<ticket, current, bound>>

\* ExecuteResultConsumer.handle. A message stays in topic, so it may be
\* delivered again at any later time; Complete is then a no-op.
ConsumeResult(t, n) ==
    /\ <<t, n>> \in topic
    /\ Complete(t, n, execution[t][n])
    /\ UNCHANGED <<execution, topic, work, faults>>

\* The consumer's group offset moved past a message whose handler failed
LoseEvent(t, n) ==
    /\ <<t, n>> \in topic
    /\ Fault
    /\ topic' = topic \ {<<t, n>>}
    /\ UNCHANGED <<rows, execution, work>>

\* ReconcileTask, called by TaskRecoveryJob for a Running task. An execution's
\* result never changes, so the read and the completion are one step.
ReconcileTask(w, t) ==
    /\ w \in Recoverers
    /\ Stays(w, "idle")
    /\ status[t] = "Running"
    /\ current[t] \in bound[t]
    /\ execution[t][current[t]] \in Results
    /\ Complete(t, current[t], execution[t][current[t]])
    /\ UNCHANGED <<execution, topic, work, faults>>

\* etask finishes an execution and publishes its result
Execute(t, n) ==
    /\ execution[t][n] \in {"LIVE", "STOPPING"}
    /\ \E r \in Results : execution' = [execution EXCEPT ![t][n] = r]
    /\ topic' = topic \cup {<<t, n>>}
    /\ UNCHANGED <<rows, work, faults>>

-----------------------------------------------------------------------------
(***************************************************************************)
(* Recovery and retry.                                                     *)
(***************************************************************************)

\* TaskRecoveryJob finds a stale Submitting task and calls StartTask
RecoverSubmitting(w, t) ==
    /\ w \in Recoverers
    /\ Stays(w, "idle")
    /\ status[t] = "Submitting"
    /\ StartDecision(t) # Idle
    /\ Goto(w, StartDecision(t))
    /\ UNCHANGED <<rows, execution, topic, faults>>

\* TaskRecoveryJob lists a stale Failed task; the page is worked off later
ListFailed(w, t) ==
    /\ w \in Recoverers
    /\ Stays(w, "idle")
    /\ status[t] = "Failed"
    /\ Goto(w, At("listed", t, 0))
    /\ UNCHANGED <<rows, execution, topic, faults>>

Attempts(t) == {n \in Nos : attempt[t][n] # "None"}

\* Mutant of AttemptsUsedUp: one attempt more
AttemptsExceeded(t) == Cardinality(Attempts(t)) > AutoLimit

AttemptsUsedUp(t) == Cardinality(Attempts(t)) >= AutoLimit

\* What retry(automatic) decides from its unlocked reads
AutoRetryDecision(t) ==
    IF status[t] = "Submitting" THEN StartDecision(t)
    ELSE IF ~CanRetry(status[t]) \/ status[t] = "Cancelled" THEN Idle
    ELSE IF AttemptsUsedUp(t) THEN At("block", t, 0)
    ELSE At("rearm", t, 0)

AutoRetryTask(w) ==
    /\ Stays(w, "listed")
    /\ Goto(w, AutoRetryDecision(work[w].task))
    /\ UNCHANGED <<rows, execution, topic, faults>>

\* Mutant of RetryDecision: a terminated execution is not confirmed stopped
RetryDecisionUnconfirmed(t) ==
    IF status[t] = "Submitting" THEN StartDecision(t)
    ELSE IF CanRetry(status[t]) THEN At("rearm", t, 0) ELSE Idle

\* What retry(manual) decides; a Cancelled task's old execution must first be
\* confirmed terminated
RetryDecision(t) ==
    IF status[t] = "Submitting" THEN StartDecision(t)
    ELSE IF ~CanRetry(status[t]) THEN Idle
    ELSE IF status[t] = "Cancelled" /\ current[t] > 0
      THEN At("confirm", t, current[t])
    ELSE At("rearm", t, 0)

RetryTask(w, t) ==
    /\ w \in Operators
    /\ Stays(w, "idle")
    /\ RetryDecision(t) # Idle
    /\ Goto(w, RetryDecision(t))
    /\ UNCHANGED <<rows, execution, topic, faults>>

\* etask's reaction to TerminateExecution
Terminated(e) == CASE e = "NONE" -> "INTENT"
                   [] e = "LIVE" -> "STOPPING"
                   [] OTHER      -> e

\* The TerminateExecution RPC: it takes effect and the caller goes on to
\* next, or its answer is lost and the caller gives up.
TerminateExecution(w, next) ==
    LET t == work[w].task
        n == work[w].no
    IN
    /\ execution' = [execution EXCEPT ![t][n] = Terminated(@)]
    /\ \/ Goto(w, next) /\ UNCHANGED faults
       \/ Goto(w, Idle) /\ Fault
    /\ UNCHANGED <<rows, topic>>

\* confirmCancelledAttemptTerminated
ConfirmTerminated(w) ==
    /\ Stays(w, "confirm")
    /\ TerminateExecution(w, At("rearm", work[w].task, 0))

\* TaskDAO.PrepareRetry, then StartTask's read of the row it has just written
PrepareRetry(w) ==
    LET t == work[w].task IN
    /\ Stays(w, "rearm")
    /\ IF CanRetry(status[t])
         THEN /\ status' = [status EXCEPT ![t] = "Waiting"]
              /\ Goto(w, At("begin", t, 0))
         ELSE Goto(w, Idle) /\ UNCHANGED status
    /\ UNCHANGED <<ticket, current, attempt, bound, execution, topic, faults>>

\* The automatic retry found the attempts used up
BlockTask(w) ==
    /\ Stays(w, "block")
    /\ BlockRow(work[w].task)
    /\ Goto(w, Idle)
    /\ UNCHANGED <<ticket, current, attempt, bound, execution, topic, faults>>

-----------------------------------------------------------------------------
(***************************************************************************)
(* TerminateTask: unlocked check, transaction, cancel intent to etask.     *)
(***************************************************************************)
TerminateTask(w, t) ==
    /\ w \in Operators
    /\ Stays(w, "idle")
    /\ status[t] # "Success"
    /\ Goto(w, At("terminate", t, 0))
    /\ UNCHANGED <<rows, execution, topic, faults>>

\* TaskAttemptDAO.TerminateTask and what the service does with the attempt it
\* returns: only a cancelled attempt still needs the intent sent.
TerminateRows(w) ==
    LET t == work[w].task
        n == current[t]
    IN
    /\ Stays(w, "terminate")
    /\ IF status[t] = "Cancelled" \/ CanTerminate(status[t])
         THEN /\ status' = [status EXCEPT ![t] = "Cancelled"]
              /\ attempt' = IF n > 0 /\ IsOpen(attempt[t][n])
                              THEN [attempt EXCEPT ![t][n] = "CANCELLED"]
                              ELSE attempt
              /\ IF n > 0 /\ attempt'[t][n] = "CANCELLED"
                   THEN Goto(w, At("stop", t, n)) ELSE Goto(w, Idle)
         ELSE Goto(w, Idle) /\ UNCHANGED <<status, attempt>>
    /\ UNCHANGED <<ticket, current, bound, execution, topic, faults>>

StopExecution(w) ==
    /\ Stays(w, "stop")
    /\ TerminateExecution(w, Idle)

\* The process dies, the context expires or the database is unreachable:
\* the goroutine's local state is gone, what it committed stays.
Crash(w) ==
    /\ ~Stays(w, "idle")
    /\ Fault
    /\ Goto(w, Idle)
    /\ UNCHANGED <<rows, execution, topic>>

-----------------------------------------------------------------------------
(***************************************************************************)
(* The ticket, as far as tasks of kind PROCESS can see it: the process     *)
(* comes to its end, which overwrites any status, or it is withdrawn by    *)
(* the transactions of WithdrawalDAO with an empty compensation plan.      *)
(***************************************************************************)
EndProcess ==
    /\ ticket' = "END"
    /\ UNCHANGED <<status, current, attempt, bound, execution, topic, work,
                   faults>>

\* Mutant of PrepareWithdrawal: a task that is submitting is overlooked
PrepareUnlessRunning ==
    /\ ticket = "PROCESS"
    /\ \A t \in Tasks : status[t] # "Running"
    /\ ticket' = "WITHDRAWING"
    /\ UNCHANGED <<status, current, attempt, bound, execution, topic, work,
                   faults>>

\* WithdrawalDAO.Prepare refuses while a task is submitting or running
PrepareWithdrawal ==
    /\ ticket = "PROCESS"
    /\ \A t \in Tasks : ~IsActive(status[t])
    /\ ticket' = "WITHDRAWING"
    /\ UNCHANGED <<status, current, attempt, bound, execution, topic, work,
                   faults>>

\* Mutant of RollbackWithdrawal: the update without its condition on the status
RollbackAnyStatus ==
    /\ ticket # "PROCESS"
    /\ ticket' = "PROCESS"
    /\ UNCHANGED <<status, current, attempt, bound, execution, topic, work,
                   faults>>

\* WithdrawalDAO.Rollback
RollbackWithdrawal ==
    /\ ticket = "WITHDRAWING"
    /\ ticket' = "PROCESS"
    /\ UNCHANGED <<status, current, attempt, bound, execution, topic, work,
                   faults>>

\* WithdrawalDAO.ActivateCompensations with no node to compensate
CancelPending ==
    /\ ticket = "WITHDRAWING"
    /\ \E t \in Tasks : status[t] \in Pending
    /\ status' = [t \in Tasks |-> IF status[t] \in Pending
                                    THEN "Cancelled" ELSE status[t]]
    /\ UNCHANGED <<ticket, current, attempt, bound, execution, topic, work,
                   faults>>

\* WithdrawalDAO.TryFinalize with no compensation task
FinalizeWithdrawal ==
    /\ ticket = "WITHDRAWING"
    /\ ticket' = "WITHDRAW"
    /\ UNCHANGED <<status, current, attempt, bound, execution, topic, work,
                   faults>>

-----------------------------------------------------------------------------
Step(w) ==
    \/ BeginAttempt(w) \/ PrepareFails(w)
    \/ Dispatch(w) \/ DispatchFails(w)
    \/ BindExecution(w) \/ RejectSubmission(w)
    \/ AutoRetryTask(w) \/ ConfirmTerminated(w)
    \/ PrepareRetry(w) \/ BlockTask(w)
    \/ TerminateRows(w) \/ StopExecution(w)
    \/ Crash(w)

Call(w, t) ==
    \/ StartTask(w, t)
    \/ RecoverSubmitting(w, t) \/ ListFailed(w, t) \/ ReconcileTask(w, t)
    \/ RetryTask(w, t) \/ TerminateTask(w, t)

Ticket ==
    \/ EndProcess \/ PrepareWithdrawal \/ RollbackWithdrawal
    \/ CancelPending \/ FinalizeWithdrawal

External(t, n) == Execute(t, n) \/ ConsumeResult(t, n) \/ LoseEvent(t, n)

Next ==
    \/ \E w \in Workers : Step(w)
    \/ \E w \in Workers, t \in Tasks : Call(w, t)
    \/ \E t \in Tasks, n \in Nos : External(t, n)
    \/ Ticket

Spec == Init /\ [][Next]_vars

-----------------------------------------------------------------------------
(***************************************************************************)
(* Safety.                                                                 *)
(***************************************************************************)

\* The two tables agree: a task is submitting or running exactly when its
\* current attempt is open, in the same phase, and every other attempt of
\* the task is closed. Begin, BindExecution, RejectSubmission, Complete,
\* TerminateTask and PrepareRetry each write a part of this, from unlocked
\* reads and in any order.
TablesAgree ==
    \A t \in Tasks :
        /\ IsActive(status[t]) <=>
              current[t] > 0 /\ IsOpen(attempt[t][current[t]])
        /\ status[t] = "Running" <=>
              current[t] > 0 /\ attempt[t][current[t]] = "RUNNING"
        /\ \A n \in Nos : n # current[t] => ~IsOpen(attempt[t][n])

\* A recorded result is what etask did: a task succeeds only if the execution
\* of its current attempt succeeded, an attempt fails only if its execution
\* failed or was refused. No loss, duplication or reordering of result events
\* and no submission error turns one outcome into another.
ResultsAreEtasks ==
    \A t \in Tasks :
        /\ status[t] = "Success" =>
              current[t] > 0 /\ attempt[t][current[t]] = "SUCCESS"
        /\ \A n \in Nos :
              /\ attempt[t][n] = "SUCCESS" => execution[t][n] = "SUCCESS"
              /\ attempt[t][n] = "FAILED" =>
                    execution[t][n] \in {"FAILED", "REJECTED"}

\* An execution that etask still runs, and was not told to stop, belongs to
\* an attempt that is open or was cancelled; none is left behind by a failed,
\* refused or superseded attempt whatever submissions raced or were repeated.
LiveExecutionsOwned ==
    \A t \in Tasks, n \in Nos :
        execution[t][n] = "LIVE" =>
            IsOpen(attempt[t][n]) \/ attempt[t][n] = "CANCELLED"

\* A withdrawal freezes the process: from the moment Prepare commits no task
\* of kind PROCESS is submitting or running, although Begin may have been
\* under way, because both take the ticket's row lock.
FrozenByWithdrawal ==
    ticket \in {"WITHDRAWING", "WITHDRAW"} =>
        \A t \in Tasks : ~IsActive(status[t])

\* Late events do not overwrite a result: a closed attempt keeps its status
\* and a successful task stays successful.
ResultsAreFinal ==
    [][\A t \in Tasks :
        /\ status[t] = "Success" => status'[t] = "Success"
        /\ \A n \in Nos : IsTerminal(attempt[t][n]) =>
              attempt'[t][n] = attempt[t][n]]_vars

\* README "自动化任务强制终止": before a retry creates a new attempt for a
\* terminated task, etask has durably recorded the cancel intent of the old
\* one, so the two never run side by side. confirmCancelledAttemptTerminated
\* and PrepareRetry are separate steps and PrepareRetry does not look at the
\* current attempt: it holds while one goroutine at a time retries and
\* terminates, an administrator's or the recovery job's, and only then.
RetryAfterStop ==
    \A t \in Tasks, n \in Nos :
        n < current[t] /\ attempt[t][n] = "CANCELLED" =>
            execution[t][n] \notin {"NONE", "LIVE"}

\* README "自动化任务强制终止": the recovery job does not retry a CANCELLED
\* task; only an administrator's retry takes a task out of CANCELLED.
CancelledNotAutoRetried ==
    [][\A t \in Tasks :
        status[t] = "Cancelled" /\ status'[t] # "Cancelled" =>
            \E w \in Operators :
                Stays(w, "rearm") /\ work[w].task = t /\ work'[w] # work[w]]_vars

\* The recovery jobs start at most maxTaskAttempts attempts of a task, and one
\* more for each job beyond the first, since each may rearm the task on a count
\* it took before. An administrator's retry takes no count, so it holds where
\* none retries by hand.
AutoAttemptsBounded ==
    \A t \in Tasks :
        Cardinality(Attempts(t)) <= AutoLimit + Cardinality(Recoverers) - 1

\* The attempts, the goroutines and etask are detail of the transactions of
\* TaskTables: every step is one of them on the rows ticket and
\* automation_tasks, or leaves those rows alone.
Tables == INSTANCE TaskTables WITH
              Nodes            <- Tasks,
              NoNode           <- NoTask,
              CompOf           <- [t \in Tasks |-> NoTask],
              UnreadDefinition <- FALSE,
              kind             <- [t \in Tasks |-> "PROCESS"],
              comp             <- [t \in Tasks |-> NoTask]

ImplementsTables == Tables!TablesSpec

-----------------------------------------------------------------------------
(***************************************************************************)
(* The inductive invariant behind the safety properties: how the attempt   *)
(* rows are numbered, what etask may know of an attempt in each status,    *)
(* and what a goroutine may rely on after it has released every lock.      *)
(***************************************************************************)

\* Attempt rows are created one after the other and the last is the current
Numbered ==
    \A t \in Tasks, n \in Nos : attempt[t][n] # "None" <=> n <= current[t]

\* etask's record of a request id against the attempt row
EtaskFollows ==
    \A t \in Tasks, n \in Nos :
        /\ attempt[t][n] = "None" => execution[t][n] = "NONE"
        /\ attempt[t][n] = "RUNNING" =>
              execution[t][n] \notin {"NONE", "INTENT", "REJECTED"}
        /\ execution[t][n] \in {"INTENT", "STOPPING"} =>
              attempt[t][n] = "CANCELLED"
        /\ <<t, n>> \in topic => execution[t][n] \in Results

\* What a goroutine read or was told before it gave up its locks and may
\* still act on
JobAgrees(job) ==
    LET t == job.task
        n == job.no
    IN
    /\ job.step # "idle" => t \in Tasks
    /\ job.step \in {"dispatch", "report"} =>
          n \in Nos /\ attempt[t][n] # "None"
    /\ job.step \in {"confirm", "stop"} =>
          n \in Nos /\ IsTerminal(attempt[t][n])
    /\ job.step = "report" /\ job.reply = "accepted" =>
          execution[t][n] \in {"LIVE", "STOPPING"} \cup Results
    /\ job.step = "report" /\ job.reply = "rejected" =>
          execution[t][n] = "REJECTED" \/ IsTerminal(attempt[t][n])

GoroutinesAgree == \A w \in Workers : JobAgrees(work[w])

IInv ==
    /\ TypeOK
    /\ Numbered
    /\ TablesAgree
    /\ ResultsAreEtasks
    /\ LiveExecutionsOwned
    /\ EtaskFollows
    /\ GoroutinesAgree
    /\ FrozenByWithdrawal

-----------------------------------------------------------------------------
(***************************************************************************)
(* What the proofs about cancels and about the number of attempts rest on. *)
(***************************************************************************)

\* Wherever an attempt was cancelled and etask may still run it, a goroutine is
\* about to tell etask, until a call is lost or a goroutine dies
\* (TerminateTask: the transaction first, the cancel intent after it).
CancelsUnderWay ==
    faults = 0 =>
        \A t \in Tasks, n \in Nos :
            attempt[t][n] = "CANCELLED" /\ execution[t][n] \in {"NONE", "LIVE"} =>
                \E w \in Workers :
                    Stays(w, "stop") /\ work[w].task = t /\ work[w].no = n

\* No administrator retries a task by hand
ManualRetry   == \E w \in Operators, t \in Tasks : RetryTask(w, t)
NoManualRetry == [][~ManualRetry]_vars

\* The jobs that have counted the attempts of a task and will rearm it
Rearming(t) == {w \in Recoverers : Stays(w, "rearm") /\ work[w].task = t}

\* The attempts a task has, those its jobs are about to allow, and the one its
\* status allows
CountInv ==
    /\ \A t \in Tasks :
          current[t] + Cardinality(Rearming(t)) + (IF status[t] = "Waiting" THEN 1 ELSE 0)
             <= AutoLimit + Cardinality(Recoverers) - 1
    /\ \A w \in Workers :
          /\ work[w].step \in {"listed", "rearm"} => w \in Recoverers
          /\ work[w].step # "confirm"

-----------------------------------------------------------------------------
(***************************************************************************)
(* Liveness. The jobs run for ever on tickers, a goroutine that was not    *)
(* killed goes on (its RPCs have timeouts), and etask finishes what it     *)
(* runs. Result events need not be delivered.                              *)
(***************************************************************************)
Fairness ==
    /\ \A w \in Workers : WF_vars(Step(w))
    /\ \A w \in Workers, t \in Tasks :
          SF_vars(StartTask(w, t)) /\ SF_vars(RecoverSubmitting(w, t))
            /\ SF_vars(ListFailed(w, t)) /\ SF_vars(ReconcileTask(w, t))
    /\ \A t \in Tasks, n \in Nos : WF_vars(Execute(t, n))

FairSpec == Spec /\ Fairness

\* Whatever calls and events are lost, a task whose ticket stays in PROCESS
\* comes to rest in a result or in a status an administrator sees: no
\* sequence of faults leaves it waiting, submitting, running or failed with
\* no job that would still move it.
Settled(t) == status[t] \in {"Success", "Blocked", "Cancelled"}
EveryTaskSettles ==
    <>[](ticket = "PROCESS") => \A t \in Tasks : <>[]Settled(t)
=============================================================================
