----------------------------- MODULE Withdrawal -----------------------------
(***************************************************************************)
(* The withdrawal of one ticket: the callers of WithdrawalDAO. The service *)
(* (internal/service/withdrawal/service.go) prepares, plans, has the       *)
(* engine archive the instance, activates the compensations and finalizes; *)
(* any step may fail and the process may die between two of them. The      *)
(* recovery job (recovery_job.go) picks up what was left behind, from a    *)
(* list read earlier. CompleteAttempt finalizes in a step after the one    *)
(* that recorded the success. An administrator's TerminateTask checks the  *)
(* task's kind before its transaction.                                     *)
(*                                                                         *)
(* The task transactions themselves are those of TaskTables. The engine    *)
(* (easy-workflow) is outside the repository: it has an instance that is   *)
(* active, then ended or archived as revoked, calls EventRevoke before it  *)
(* archives, EventAutomation when it reaches an automation node, and       *)
(* EventNotify when it reaches the end node, before it ends the instance.  *)
(***************************************************************************)
EXTENDS TaskTables, Naturals

CONSTANTS
    Revokers,    \* HTTP requests to withdraw the ticket
    Recoverers,  \* instances of withdrawal.RecoveryJob
    Consumers,   \* goroutines in CompleteAttempt
    Operators,   \* HTTP requests to terminate a task
    MaxFaults    \* bound: errors and crashes in one behaviour

ASSUME WithdrawalAssumption ==
    /\ MaxFaults \in Nat
    /\ Revokers \cap Recoverers = {}
    /\ (Revokers \cup Recoverers) \cap (Consumers \cup Operators) = {}
    /\ Consumers \cap Operators = {}

Workers == Revokers \cup Recoverers \cup Consumers \cup Operators

VARIABLES
    engine,  \* the process instance in the engine
    endNode, \* how far the engine is with the end node
    work,    \* [Workers -> Jobs]: where each goroutine stands
    faults   \* faults so far

vars == <<ticket, status, kind, comp, engine, endNode, work, faults>>

EngineStates == {"active", "revoked", "ended"}
EndSteps     == {"ahead", "reached", "notified", "passed"}

Steps == {"idle", "build", "revoke", "archive", "abort", "apply", "finalize",
          "terminate"}
Jobs == [step : Steps, plan : SUBSET Nodes, node : Nodes \cup {NoNode}]

Idle == [step |-> "idle", plan |-> {}, node |-> NoNode]
At(s)         == [Idle EXCEPT !.step = s]
Plan(s, plan) == [Idle EXCEPT !.step = s, !.plan = plan]

TypeOK ==
    /\ TablesTyped
    /\ engine \in EngineStates
    /\ endNode \in EndSteps
    /\ work \in [Workers -> Jobs]
    /\ faults \in 0..MaxFaults

Init ==
    /\ TablesInit
    /\ \A n \in Nodes : status[n] = "Absent"
    /\ engine = "active"
    /\ endNode = "ahead"
    /\ work = [w \in Workers |-> Idle]
    /\ faults = 0

Goto(w, job) == work' = [work EXCEPT ![w] = job]
Stays(w, s)  == work[w].step = s
Fault        == faults < MaxFaults /\ faults' = faults + 1

-----------------------------------------------------------------------------
(***************************************************************************)
(* service.Revoke                                                          *)
(***************************************************************************)

\* The request's first transaction; where it is refused nothing happens
Revoke(w) ==
    /\ w \in Revokers
    /\ Stays(w, "idle")
    /\ Prepare
    /\ Goto(w, At("build"))
    /\ UNCHANGED <<engine, endNode, faults>>

\* compensationPlanner.Build, for the service and for the recovery job
Build(w) ==
    /\ Stays(w, "build")
    /\ Goto(w, Plan(IF w \in Revokers THEN "revoke" ELSE "apply", Targets))
    /\ UNCHANGED <<tables, engine, endNode, faults>>

\* Mutant of BuildFails: the service also rolls back when Apply fails
AnyStepFails(w) ==
    /\ work[w].step \in {"build", "revoke", "archive", "apply"}
    /\ Fault
    /\ Goto(w, IF w \in Revokers THEN At("abort") ELSE Idle)
    /\ UNCHANGED <<tables, engine, endNode>>

\* Build or the engine fails: the service rolls back, the job tries again later
BuildFails(w) ==
    /\ work[w].step \in {"build", "revoke", "archive"}
    /\ Fault
    /\ Goto(w, IF w \in Revokers THEN At("abort") ELSE Idle)
    /\ UNCHANGED <<tables, engine, endNode>>

\* engine.InstanceRevoke first calls EventRevoke, which looks at the ticket ...
EventRevoke(w) ==
    /\ Stays(w, "revoke")
    /\ Goto(w, IF engine = "active" /\ ticket = "WITHDRAWING"
                 THEN Plan("archive", work[w].plan) ELSE At("abort"))
    /\ UNCHANGED <<tables, engine, endNode, faults>>

\* ... and then archives the instance, unless it has ended
ArchiveInstance(w) ==
    /\ Stays(w, "archive")
    /\ IF engine = "active"
         THEN engine' = "revoked" /\ Goto(w, Plan("apply", work[w].plan))
         ELSE UNCHANGED engine /\ Goto(w, At("abort"))
    /\ UNCHANGED <<tables, endNode, faults>>

\* Rollback, deferred by the service or chosen by the recovery job
Abort(w) ==
    /\ Stays(w, "abort")
    /\ Rollback \/ (ticket # "WITHDRAWING" /\ UNCHANGED tables)
    /\ Goto(w, Idle)
    /\ UNCHANGED <<engine, endNode, faults>>

\* Apply creates the tasks the process had not reached. One whose definition
\* has an error is stored as Blocked and Apply gives up.
CreateTarget(w) ==
    /\ Stays(w, "apply")
    /\ \E n \in work[w].plan :
         \/ CreateTask(n, "Waiting") /\ UNCHANGED work
         \/ CreateTask(n, "Blocked") /\ Goto(w, Idle)
    /\ UNCHANGED <<engine, endNode, faults>>

\* When all of them exist, one transaction activates the plan
Apply(w) ==
    /\ Stays(w, "apply")
    /\ \A n \in work[w].plan : status[n] # "Absent"
    /\ \/ ActivateCompensations(work[w].plan) /\ Goto(w, At("finalize"))
       \/ /\ ticket # "WITHDRAWING"
          /\ Goto(w, IF ticket = "WITHDRAW" THEN At("finalize") ELSE Idle)
          /\ UNCHANGED tables
    /\ UNCHANGED <<engine, endNode, faults>>

Finalize(w) ==
    /\ Stays(w, "finalize")
    /\ \/ TryFinalize
       \/ ticket = "WITHDRAWING" /\ ~CompensationsSucceeded /\ UNCHANGED tables
       \/ ticket # "WITHDRAWING" /\ UNCHANGED tables
    /\ Goto(w, Idle)
    /\ UNCHANGED <<engine, endNode, faults>>

-----------------------------------------------------------------------------
\* Mutant of ListStale: archived instances are not listed
ListActiveOnly(w) ==
    /\ w \in Recoverers
    /\ Stays(w, "idle")
    /\ ticket = "WITHDRAWING"
    /\ \A r \in Revokers : Stays(r, "idle")
    /\ engine = "active"
    /\ Goto(w, At("abort"))
    /\ UNCHANGED <<tables, engine, endNode, faults>>

(***************************************************************************)
(* RecoveryJob.run: the state of the engine is the one ListStale saw.      *)
(* A ticket is listed five minutes after Prepare; that a request has then  *)
(* finished or died is assumed.                                            *)
(***************************************************************************)
ListStale(w) ==
    /\ w \in Recoverers
    /\ Stays(w, "idle")
    /\ ticket = "WITHDRAWING"
    /\ \A r \in Revokers : Stays(r, "idle")
    /\ \/ engine = "revoked" /\ Goto(w, At("build"))
       \/ engine = "active" /\ Goto(w, At("abort"))
    /\ UNCHANGED <<tables, engine, endNode, faults>>

\* CompleteAttempt has recorded a success, perhaps once more, and reads the
\* task's kind before it calls TryFinalize
CompleteAttempt(w, n) ==
    /\ w \in Consumers
    /\ Stays(w, "idle")
    /\ status[n] = "Success"
    /\ kind[n] = "COMPENSATION"
    /\ Goto(w, At("finalize"))
    /\ UNCHANGED <<tables, engine, endNode, faults>>

\* taskService.TerminateTask: unlocked check, then the transaction
CheckTerminable(w, n) ==
    /\ w \in Operators
    /\ Stays(w, "idle")
    /\ status[n] \notin {"Absent", "Success"}
    /\ kind[n] # "COMPENSATION"
    /\ Goto(w, [At("terminate") EXCEPT !.node = n])
    /\ UNCHANGED <<tables, engine, endNode, faults>>

Terminate(w) ==
    /\ Stays(w, "terminate")
    /\ \/ TerminateTask(work[w].node)
       \/ ~CanTerminate(status[work[w].node]) /\ UNCHANGED tables
    /\ Goto(w, Idle)
    /\ UNCHANGED <<engine, endNode, faults>>

\* The process dies or the database fails; the next run starts afresh
Crash(w) ==
    /\ ~Stays(w, "idle")
    /\ Fault
    /\ Goto(w, Idle)
    /\ UNCHANGED <<tables, engine, endNode>>

-----------------------------------------------------------------------------
(***************************************************************************)
(* The engine, and the transactions of StartTask, CompleteAttempt and      *)
(* RetryTask, whose goroutines are modelled in AutomationTask.             *)
(***************************************************************************)
\* A handler the engine has called may outlive the archiving
EventAutomation(n) ==
    /\ engine \in {"active", "revoked"}
    /\ \E s \in {"Waiting", "Blocked"} : CreateTask(n, s)
    /\ UNCHANGED <<engine, endNode, work, faults>>

\* The engine comes to the end node
ReachEnd ==
    /\ engine = "active"
    /\ endNode = "ahead"
    /\ endNode' = "reached"
    /\ UNCHANGED <<tables, engine, work, faults>>

\* Its start event writes END by a statement of its own, whatever has become
\* of the withdrawal and of the instance since the engine called it ...
EventNotify ==
    /\ endNode = "reached"
    /\ endNode' = "notified"
    /\ EndProcess
    /\ UNCHANGED <<engine, work, faults>>

\* ... and then the engine ends the instance, if it has not been archived
EndInstance ==
    /\ endNode = "notified"
    /\ endNode' = "passed"
    /\ engine' = IF engine = "active" THEN "ended" ELSE engine
    /\ UNCHANGED <<tables, work, faults>>

\* A transaction on a task leaves the rest alone
TaskStep == UNCHANGED <<engine, endNode, work, faults>>

StartTask(n)        == Begin(n) /\ TaskStep
RecordResult(n, s)  == Complete(n, s) /\ TaskStep
RetryTask(n)        == PrepareRetry(n) /\ TaskStep
OtherTaskStep(n) ==
    /\ BindExecution(n) \/ RejectSubmission(n) \/ Block(n)
    /\ TaskStep

Step(w) ==
    \/ Build(w) \/ BuildFails(w) \/ EventRevoke(w) \/ ArchiveInstance(w)
    \/ Abort(w) \/ CreateTarget(w) \/ Apply(w) \/ Finalize(w)
    \/ Terminate(w) \/ Crash(w)

Call(w) ==
    \/ Revoke(w) \/ ListStale(w)
    \/ \E n \in Nodes : CompleteAttempt(w, n) \/ CheckTerminable(w, n)

Task(n) ==
    \/ EventAutomation(n) \/ StartTask(n) \/ RetryTask(n) \/ OtherTaskStep(n)
    \/ \E s \in {"Success", "Failed", "Cancelled"} : RecordResult(n, s)

Next ==
    \/ \E w \in Workers : Step(w) \/ Call(w)
    \/ \E n \in Nodes : Task(n)
    \/ ReachEnd \/ EventNotify \/ EndInstance

Spec == Init /\ [][Next]_vars

-----------------------------------------------------------------------------
(***************************************************************************)
(* Properties.                                                             *)
(***************************************************************************)

\* The phase of the withdrawal that the two stores stand for. A ticket in END
\* is ended, whatever the engine did or will still do with the instance; one
\* that is back in PROCESS with an instance that is not active has no phase.
Phase ==
    CASE ticket = "PROCESS" /\ engine = "active" -> "open"
      [] ticket = "WITHDRAWING" /\ engine = "active" -> "frozen"
      [] ticket = "WITHDRAWING" /\ engine = "revoked" -> "compensating"
      [] ticket = "WITHDRAW" /\ engine = "revoked" -> "withdrawn"
      [] ticket = "END" -> "ended"
      [] OTHER -> "broken"

Contract == INSTANCE WithdrawalContract WITH
                phase     <- Phase,
                running   <- {n \in Nodes : IsActive(status[n])},
                succeeded <- {n \in Nodes : status[n] = "Success"}

\* README "自动化任务撤回补偿": with the failures, crashes and races of this
\* module the withdrawal keeps its contract: nothing but compensations of
\* successful actions runs once the process is frozen, a ticket is withdrawn
\* only after all of them succeeded, and after the engine archived the
\* instance there is no way back.
KeepsContract == Contract!ContractSpec

\* README "自动化任务撤回补偿" again, on the tables alone: a withdrawn ticket
\* leaves no successful action whose compensation, as the process definition
\* names it, has not succeeded.
WithdrawnIsCompensated ==
    ticket = "WITHDRAW" =>
        Contract!Due({n \in Nodes : status[n] = "Success"})
            \subseteq {n \in Nodes : status[n] = "Success"}

\* dao/withdrawal.go, Rollback "将尚未完成引擎撤回的工单恢复为处理中": a ticket goes
\* back to PROCESS only while the engine has not archived the instance.
RollbackOnlyBeforeArchive ==
    [][ticket = "WITHDRAWING" /\ ticket' = "PROCESS" => engine = "active"]_vars

\* README "撤回补偿任务不允许强制终止": TerminateTask's transaction cancels no
\* task that is a compensation by then.
CompensationNotTerminated ==
    [][\A w \in Operators, n \in Nodes :
          Stays(w, "terminate") /\ work[w].node = n /\ work'[w] # work[w]
            /\ kind[n] = "COMPENSATION" => status'[n] = status[n]]_vars

-----------------------------------------------------------------------------
(***************************************************************************)
(* Liveness: goroutines go on, the recovery job and StartTaskJob run on    *)
(* tickers, an execution started again and again succeeds in the end, and  *)
(* an administrator retries what stands still. Of the tasks only           *)
(* compensations need it: nothing else runs in a frozen process.           *)
(***************************************************************************)
Fairness ==
    /\ \A w \in Workers : WF_vars(Step(w))
    /\ \A w \in Recoverers : WF_vars(ListStale(w))
    /\ \A n \in {CompOf[m] : m \in Nodes} \ {NoNode} :
         /\ SF_vars(StartTask(n)) /\ WF_vars(RetryTask(n))
         /\ SF_vars(RecordResult(n, "Success"))

FairSpec == Spec /\ Fairness

\* recovery_job.go: no ticket stays in WITHDRAWING for ever, wherever the
\* request that put it there died.
WithdrawalEnds == ticket = "WITHDRAWING" ~> ticket # "WITHDRAWING"

-----------------------------------------------------------------------------
(***************************************************************************)
(* The inductive invariants. With one recovery job, Protocol says what     *)
(* each goroutine may rely on about the two stores, Compensation what the  *)
(* plans and the kinds of the tasks have to do with what has succeeded.    *)
(***************************************************************************)
Before == {"build", "revoke", "archive", "abort"}

\* Between Prepare and the archiving, or a rollback: it may still go back
MayGoBack(w) == \/ w \in Revokers /\ work[w].step \in Before
                \/ w \in Recoverers /\ work[w].step = "abort"

\* Only after the archiving does a goroutine come to these steps
GoesOn(w) == \/ work[w].step \in {"apply", "finalize"}
             \/ w \in Recoverers /\ work[w].step = "build"

StepsFit ==
    \A w \in Workers :
        /\ w \in Revokers => work[w].step \in Before \cup {"idle", "apply", "finalize"}
        /\ w \in Recoverers =>
              work[w].step \in {"idle", "build", "abort", "apply", "finalize"}
        /\ w \in Consumers => work[w].step \in {"idle", "finalize"}
        /\ w \in Operators => work[w].step \in {"idle", "terminate"}
        /\ work[w].step = "terminate" => work[w].node \in Nodes

StoresAgree == Phase # "broken"

OneMayGoBack ==
    \A w \in Workers : MayGoBack(w) =>
        /\ Phase \in {"frozen", "ended"}
        /\ \A v \in Workers : MayGoBack(v) => v = w

GoesOnAfterArchive ==
    /\ \A w \in Workers : GoesOn(w) => engine = "revoked"
    /\ \A n \in Nodes : kind[n] = "COMPENSATION" => engine = "revoked"

\* The engine ends an instance only after END has been written
EndIsWritten == endNode \in {"notified", "passed"} => ticket = "END"

Protocol == StepsFit /\ StoresAgree /\ OneMayGoBack /\ GoesOnAfterArchive

Running     == {n \in Nodes : IsActive(status[n])}
Succeeded   == {n \in Nodes : status[n] = "Success"}
Compensates == {n \in Nodes : kind[n] = "COMPENSATION"}

\* A row has the compensation the definition names
DefinitionRead == \A n \in Nodes : status[n] # "Absent" => comp[n] = CompOf[n]

Planned(w) == work[w].step \in {"revoke", "archive", "apply"}

\* What a plan has to cover and may cover
PlanFits(plan) ==
    /\ Contract!Due(Succeeded) \subseteq plan
    /\ plan \subseteq Targets
    /\ Running \subseteq plan \cup Compensates

PlansFit ==
    \A w \in Workers : Planned(w) /\ ticket # "END" => PlanFits(work[w].plan)

\* In a frozen process only compensations run
FrozenRuns ==
    /\ ticket = "WITHDRAWING" => Running \subseteq Targets
    /\ Compensates \subseteq Targets

\* Whoever finalizes comes after an activation
Activated == \/ ticket = "WITHDRAW" \/ Compensates # {}
             \/ \E w \in Workers : Stays(w, "finalize")

ActivatedAll ==
    Activated => Running \cup Contract!Due(Succeeded) \subseteq Compensates

WithdrawnAtRest ==
    ticket = "WITHDRAW" => Running = {} /\ Compensates \subseteq Succeeded

Compensation == DefinitionRead /\ PlansFit /\ FrozenRuns /\ ActivatedAll
                  /\ WithdrawnAtRest
=============================================================================
