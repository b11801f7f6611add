-------------------------- MODULE WithdrawalProofs --------------------------
(***************************************************************************)
(* What holds of every withdrawal, for any process definition and any      *)
(* number of requests, consumers, administrators and faults, with one      *)
(* recovery job.                                                           *)
(***************************************************************************)
EXTENDS Withdrawal, TLAPS

\* A service runs one recovery job (ioc/task.go).
OneJob == \A v, w \in Recoverers : v = w

LEMMA TypesAtStart == Init => TypeOK
BY CompensationAssumption, WithdrawalAssumption
DEF CompensationAssumption, WithdrawalAssumption, Init, TypeOK, TablesInit, TablesTyped,
    RowStatus, TaskStatus, ExecutionKind, TicketStatus, EngineStates, EndSteps, Jobs, Steps,
    Idle

\* A goroutine's record stays one
LEMMA JobTyped ==
    ASSUME NEW w \in Workers, work \in [Workers -> Jobs], NEW job \in Jobs, Goto(w, job)
    PROVE  work' \in [Workers -> Jobs]
BY DEF Goto

LEMMA JobForms ==
    /\ Idle \in Jobs
    /\ \A s \in Steps : At(s) \in Jobs
    /\ \A s \in Steps, plan \in SUBSET Nodes : Plan(s, plan) \in Jobs
    /\ \A n \in Nodes : [At("terminate") EXCEPT !.node = n] \in Jobs
BY DEF Jobs, Steps, Idle, At, Plan

LEMMA TransactionTyped ==
    ASSUME TablesTyped, TablesNext \/ UNCHANGED tables
    PROVE  TablesTyped'
<1> USE DEF TablesTyped, TicketStatus, RowStatus, TaskStatus, ExecutionKind
<1>1. CASE UNCHANGED tables
  BY <1>1 DEF tables
<1>2. CASE TicketTransaction
  BY <1>2 DEF TicketTransaction, Prepare, TryFinalize, Rollback, EndProcess,
              ActivateCompensations, Pending
<1>3. ASSUME NEW n \in Nodes, TaskTransaction(n) PROVE TablesTyped'
  <2>1. CASE \E s \in {"Waiting", "Blocked"} : CreateTask(n, s)
    <3>1. PICK s \in {"Waiting", "Blocked"} : CreateTask(n, s)
      BY <2>1
    <3>2. status' \in [Nodes -> RowStatus] /\ UNCHANGED <<ticket, kind>>
      BY <3>1 DEF CreateTask
    <3>3. comp' \in [Nodes -> Nodes \cup {NoNode}]
      BY <3>1, CompensationAssumption DEF CreateTask, CompensationAssumption
    <3> QED BY <3>2, <3>3
  <2>2. CASE ~ \E s \in {"Waiting", "Blocked"} : CreateTask(n, s)
    BY <1>3, <2>2 DEF TaskTransaction, Begin, BindExecution, RejectSubmission, Complete,
              Block, PrepareRetry, TerminateTask, Move
  <2> QED BY <2>1, <2>2
<1> QED BY <1>1, <1>2, <1>3 DEF TablesNext

\* Every action of the model is at most one transaction
LEMMA AtMostOneTransaction ==
    ASSUME TypeOK, StepsFit, [Next]_vars
    PROVE  TablesNext \/ UNCHANGED tables
<1> USE DEF TablesNext, TaskTransaction, TicketTransaction
<1>1. CASE UNCHANGED vars
  BY <1>1 DEF vars, tables
<1>2. CASE ReachEnd \/ EventNotify \/ EndInstance
  BY <1>2 DEF ReachEnd, EventNotify, EndInstance
<1>3. ASSUME NEW n \in Nodes, Task(n) PROVE TablesNext
  BY <1>3 DEF Task, EventAutomation, StartTask, RetryTask, OtherTaskStep, RecordResult
<1>4. ASSUME NEW w \in Workers, Call(w) PROVE TablesNext \/ UNCHANGED tables
  BY <1>4 DEF Call, Revoke, ListStale, CompleteAttempt, CheckTerminable
<1>5. ASSUME NEW w \in Workers, Step(w) PROVE TablesNext \/ UNCHANGED tables
  <2>1. CASE Terminate(w)
    BY <2>1 DEF Terminate, StepsFit, Stays
  <2>2. CASE CreateTarget(w)
    <3>1. work[w].plan \subseteq Nodes
      BY DEF TypeOK, Jobs
    <3> QED BY <2>2, <3>1 DEF CreateTarget
  <2>3. CASE Apply(w)
    <3>1. work[w].plan \subseteq Nodes
      BY DEF TypeOK, Jobs
    <3> QED BY <2>3, <3>1 DEF Apply
  <2>4. CASE Build(w) \/ BuildFails(w) \/ EventRevoke(w) \/ ArchiveInstance(w)
               \/ Abort(w) \/ Finalize(w) \/ Crash(w)
    BY <2>4 DEF Build, BuildFails, EventRevoke, ArchiveInstance, Abort, Finalize, Crash
  <2> QED BY <1>5, <2>1, <2>2, <2>3, <2>4 DEF Step
<1> QED BY <1>1, <1>2, <1>3, <1>4, <1>5 DEF Next

LEMMA TypesStay ==
    ASSUME TypeOK, StepsFit, [Next]_vars
    PROVE  TypeOK'
<1>1. TablesTyped'
  BY AtMostOneTransaction, TransactionTyped DEF TypeOK
<1>2. engine' \in EngineStates /\ endNode' \in EndSteps
  BY DEF TypeOK, EngineStates, EndSteps, Next, vars, Step, Call, Task, Build, BuildFails,
         EventRevoke, ArchiveInstance, Abort, CreateTarget, Apply, Finalize, Terminate, Crash,
         Revoke, ListStale, CompleteAttempt, CheckTerminable, EventAutomation, ReachEnd,
         EventNotify, EndInstance, StartTask, RecordResult, RetryTask, OtherTaskStep, TaskStep
<1>3. faults' \in 0..MaxFaults
  <2> USE WithdrawalAssumption DEF WithdrawalAssumption
  <2>1. ASSUME Fault PROVE faults' \in 0..MaxFaults
    BY <2>1 DEF Fault, TypeOK
  <2> QED
    BY <2>1 DEF TypeOK, Next, vars, Step, Call, Task, Build, BuildFails, EventRevoke,
         ArchiveInstance, Abort, CreateTarget, Apply, Finalize, Terminate, Crash, Revoke,
         ListStale, CompleteAttempt, CheckTerminable, EventAutomation, ReachEnd, EventNotify,
         EndInstance, StartTask, RecordResult, RetryTask, OtherTaskStep, TaskStep
<1>4. work' \in [Workers -> Jobs]
  <2> USE JobForms, JobTyped DEF Steps, TypeOK
  <2>1. CASE \/ ReachEnd \/ EventNotify \/ EndInstance \/ UNCHANGED vars
             \/ \E n \in Nodes : Task(n)
    BY <2>1 DEF ReachEnd, EventNotify, EndInstance, vars, Task, EventAutomation, StartTask,
                RecordResult, RetryTask, OtherTaskStep, TaskStep
  <2>2. ASSUME NEW w \in Workers, Call(w) PROVE work' \in [Workers -> Jobs]
    BY <2>2 DEF Call, Revoke, ListStale, CompleteAttempt, CheckTerminable
  <2>3. ASSUME NEW w \in Workers, Step(w) PROVE work' \in [Workers -> Jobs]
    <3>1. work[w].plan \in SUBSET Nodes
      BY DEF Jobs
    <3>2. Targets \in SUBSET Nodes
      BY DEF Targets, TablesTyped
    <3>3. CASE Build(w) \/ BuildFails(w) \/ EventRevoke(w) \/ ArchiveInstance(w)
      BY <3>1, <3>2, <3>3 DEF Build, BuildFails, EventRevoke, ArchiveInstance
    <3>4. CASE Abort(w) \/ CreateTarget(w) \/ Apply(w) \/ Finalize(w) \/ Terminate(w)
                 \/ Crash(w)
      BY <3>4 DEF Abort, CreateTarget, Apply, Finalize, Terminate, Crash
    <3> QED BY <2>3, <3>3, <3>4 DEF Step
  <2> QED BY <2>1, <2>2, <2>3 DEF Next
<1> QED BY <1>1, <1>2, <1>3, <1>4 DEF TypeOK

-----------------------------------------------------------------------------
(***************************************************************************)
(* Protocol                                                                *)
(***************************************************************************)

\* The two stores agree in five ways
LEMMA Phases ==
    StoresAgree <=> \/ ticket = "PROCESS" /\ engine = "active" /\ Phase = "open"
                    \/ ticket = "WITHDRAWING" /\ engine = "active" /\ Phase = "frozen"
                    \/ ticket = "WITHDRAWING" /\ engine = "revoked" /\ Phase = "compensating"
                    \/ ticket = "WITHDRAW" /\ engine = "revoked" /\ Phase = "withdrawn"
                    \/ ticket = "END" /\ Phase = "ended"
BY DEF StoresAgree, Phase

LEMMA Roles ==
    ASSUME NEW w \in Workers
    PROVE  /\ w \in Revokers => w \notin Recoverers \cup Consumers \cup Operators
           /\ w \in Recoverers => w \notin Consumers \cup Operators
           /\ w \in Consumers => w \notin Operators
BY WithdrawalAssumption DEF WithdrawalAssumption

\* END, once written, stays, and the engine ends no instance before
LEMMA EndStays ==
    ASSUME TypeOK, StepsFit, EndIsWritten, [Next]_vars
    PROVE  EndIsWritten'
<1>1. ticket = "END" => ticket' = "END"
  BY AtMostOneTransaction
  DEF TablesNext, TaskTransaction, TicketTransaction, tables, CreateTask, Begin, BindExecution,
      RejectSubmission, Complete, Block, PrepareRetry, TerminateTask, Move, Prepare,
      TryFinalize, Rollback, EndProcess, ActivateCompensations
<1>2. CASE EventNotify
  BY <1>2 DEF EventNotify, EndProcess, EndIsWritten
<1>3. CASE ReachEnd \/ EndInstance
  BY <1>1, <1>3 DEF ReachEnd, EndInstance, EndIsWritten
<1>4. CASE UNCHANGED endNode
  BY <1>1, <1>4 DEF EndIsWritten
<1> QED
  BY <1>2, <1>3, <1>4
  DEF Next, vars, Step, Call, Task, Build, BuildFails, EventRevoke, ArchiveInstance, Abort,
      CreateTarget, Apply, Finalize, Terminate, Crash, Revoke, ListStale, CompleteAttempt,
      CheckTerminable, EventAutomation, StartTask, RecordResult, RetryTask, OtherTaskStep,
      TaskStep

LEMMA ProtocolAtStart == Init => Protocol
BY DEF Init, TablesInit, Protocol, StepsFit, StoresAgree, Phase, OneMayGoBack, MayGoBack,
       GoesOnAfterArchive, GoesOn, Idle, Before

\* One goroutine moves on, the stores stay
LEMMA MoveKeepsProtocol ==
    ASSUME TypeOK, Protocol, NEW w \in Workers, NEW job \in Jobs, Goto(w, job),
           UNCHANGED <<ticket, kind, engine>>,
           w \in Revokers => job.step \in Before \cup {"idle", "apply", "finalize"},
           w \in Recoverers => job.step \in {"idle", "build", "abort", "apply", "finalize"},
           w \in Consumers => job.step \in {"idle", "finalize"},
           w \in Operators => job.step \in {"idle", "terminate"},
           job.step = "terminate" => job.node \in Nodes,
           w \in Revokers /\ job.step \in Before => MayGoBack(w),
           w \in Recoverers /\ job.step = "abort" => MayGoBack(w),
           job.step \in {"apply", "finalize"} => engine = "revoked",
           w \in Recoverers /\ job.step = "build" => engine = "revoked"
    PROVE  Protocol'
<1>1. /\ work'[w] = job
      /\ \A v \in Workers : v # w => work'[v] = work[v]
  BY DEF Goto, TypeOK
<1>2. StepsFit'
  BY <1>1 DEF Protocol, StepsFit
<1>3. StoresAgree' /\ Phase' = Phase
  BY DEF Protocol, StoresAgree, Phase
<1>4. \A v \in Workers : MayGoBack(v)' => MayGoBack(v)
  BY <1>1 DEF MayGoBack
<1>5. OneMayGoBack'
  BY <1>3, <1>4 DEF Protocol, OneMayGoBack
<1>6. GoesOnAfterArchive'
  BY <1>1 DEF Protocol, GoesOnAfterArchive, GoesOn
<1> QED BY <1>2, <1>3, <1>5, <1>6 DEF Protocol

\* No goroutine moves
LEMMA TasksKeepProtocol ==
    ASSUME Protocol, UNCHANGED <<ticket, kind, engine, work>>
    PROVE  Protocol'
BY DEF Protocol, StepsFit, StoresAgree, Phase, OneMayGoBack, MayGoBack,
       GoesOnAfterArchive, GoesOn

\* A request or a job begins, when none may go back
LEMMA BeginKeepsProtocol ==
    ASSUME OneJob, TypeOK, Protocol, NEW w \in Workers, Revoke(w) \/ ListStale(w)
    PROVE  Protocol'
<1> USE Roles, Phases DEF Protocol
<1>1. ASSUME Revoke(w) PROVE Protocol'
  <2>1. /\ ticket = "PROCESS" /\ ticket' = "WITHDRAWING" /\ engine' = engine
        /\ kind' = [n \in Nodes |-> "PROCESS"]
        /\ w \in Revokers
        /\ work' = [work EXCEPT ![w] = At("build")]
    BY <1>1 DEF Revoke, Prepare, Goto
  <2>2. engine = "active" /\ Phase = "open" /\ Phase' = "frozen" /\ StoresAgree'
    BY <2>1 DEF Phase, StoresAgree
  <2>3. /\ work'[w].step = "build"
        /\ \A v \in Workers : v # w => work'[v] = work[v]
    BY <2>1 DEF TypeOK, At, Idle
  <2>4. \A v \in Workers : ~MayGoBack(v)
    BY <2>2 DEF OneMayGoBack
  <2>5. \A v \in Workers : MayGoBack(v)' => v = w
    BY <2>3, <2>4 DEF MayGoBack
  <2>6. StepsFit'
    BY <2>1, <2>3 DEF StepsFit, Before
  <2>7. OneMayGoBack'
    BY <2>2, <2>5 DEF OneMayGoBack
  <2>8. GoesOnAfterArchive'
    BY <2>1, <2>2, <2>3 DEF GoesOnAfterArchive, GoesOn
  <2> QED BY <2>2, <2>6, <2>7, <2>8
<1>2. ASSUME ListStale(w) PROVE Protocol'
  <2>1. UNCHANGED <<ticket, kind, engine>> /\ w \in Recoverers
    BY <1>2 DEF ListStale, tables
  <2>2. CASE Goto(w, At("build")) /\ engine = "revoked"
    BY <2>1, <2>2, JobForms, MoveKeepsProtocol DEF At, Idle, Steps, Protocol
  <2>3. CASE Goto(w, At("abort")) /\ engine = "active"
    <3>1. /\ work'[w].step = "abort"
          /\ \A v \in Workers : v # w => work'[v] = work[v]
      BY <2>3 DEF TypeOK, At, Idle, Goto
    <3>2. \A v \in Workers : MayGoBack(v)' => v = w
      BY <1>2, <2>1, <3>1 DEF MayGoBack, ListStale, Stays, Before, OneJob
    <3>3. Phase = "frozen" /\ Phase' = Phase /\ StoresAgree'
      BY <1>2, <2>1, <2>3 DEF ListStale, Phase, StoresAgree
    <3>4. StepsFit'
      BY <2>1, <3>1 DEF StepsFit
    <3>5. OneMayGoBack'
      BY <3>2, <3>3 DEF OneMayGoBack
    <3>6. GoesOnAfterArchive'
      BY <2>1, <3>1 DEF GoesOnAfterArchive, GoesOn
    <3> QED BY <3>3, <3>4, <3>5, <3>6
  <2> QED BY <1>2, <2>2, <2>3 DEF ListStale
<1> QED BY <1>1, <1>2

\* The engine archives the instance, or finds that it has ended
LEMMA ArchiveKeepsProtocol ==
    ASSUME TypeOK, Protocol, NEW w \in Workers, ArchiveInstance(w)
    PROVE  Protocol'
<1> USE Roles, Phases DEF Protocol
<1>1. w \in Revokers /\ MayGoBack(w) /\ work[w].step = "archive"
  BY DEF ArchiveInstance, Stays, StepsFit, MayGoBack, Before, Workers
<1>2. UNCHANGED <<ticket, kind>>
  BY DEF ArchiveInstance, tables
<1>3. CASE engine = "active"
  <2>1. engine' = "revoked" /\ StoresAgree'
    BY <1>1, <1>2, <1>3 DEF ArchiveInstance, OneMayGoBack, Phase, StoresAgree
  <2>2. /\ work'[w].step = "apply"
        /\ \A v \in Workers : v # w => work'[v] = work[v]
    BY <1>3 DEF ArchiveInstance, Goto, Plan, Idle, TypeOK
  <2>3. \A v \in Workers : ~MayGoBack(v)'
    BY <1>1, <2>2 DEF OneMayGoBack, MayGoBack, Before
  <2>4. StepsFit'
    BY <1>1, <2>2 DEF StepsFit
  <2>5. GoesOnAfterArchive' /\ OneMayGoBack'
    BY <2>1, <2>3 DEF GoesOnAfterArchive, OneMayGoBack
  <2> QED BY <2>1, <2>4, <2>5
<1>4. CASE engine # "active"
  <2>1. UNCHANGED engine /\ Goto(w, At("abort"))
    BY <1>4 DEF ArchiveInstance
  <2> QED
    BY <1>1, <1>2, <2>1, JobForms, MoveKeepsProtocol DEF At, Idle, Steps, Before
<1> QED BY <1>3, <1>4

\* A rollback, by the only one who may
LEMMA AbortKeepsProtocol ==
    ASSUME TypeOK, Protocol, NEW w \in Workers, Abort(w)
    PROVE  Protocol'
<1> USE Roles, Phases DEF Protocol
<1>1. MayGoBack(w)
  BY DEF Abort, Stays, StepsFit, MayGoBack, Before, Workers
<1>2. UNCHANGED <<engine, kind>> /\ Goto(w, Idle)
  BY DEF Abort, Rollback, tables
<1>3. CASE Rollback
  <2>1. ticket = "WITHDRAWING" /\ ticket' = "PROCESS"
    BY <1>3 DEF Rollback
  <2>2. engine = "active" /\ StoresAgree'
    BY <1>1, <1>2, <2>1 DEF OneMayGoBack, StoresAgree, Phase
  <2>3. /\ work'[w].step = "idle"
        /\ \A v \in Workers : v # w => work'[v] = work[v]
    BY <1>2 DEF Goto, Idle, TypeOK
  <2>4. \A v \in Workers : ~MayGoBack(v)'
    BY <1>1, <2>3 DEF OneMayGoBack, MayGoBack, Before
  <2>5. StepsFit'
    BY <2>3 DEF StepsFit
  <2>6. GoesOnAfterArchive' /\ OneMayGoBack'
    BY <1>2, <2>3, <2>4 DEF GoesOnAfterArchive, GoesOn, OneMayGoBack
  <2> QED BY <2>2, <2>5, <2>6
<1>4. CASE ticket # "WITHDRAWING" /\ UNCHANGED tables
  BY <1>2, <1>4, JobForms, MoveKeepsProtocol DEF Idle, Before, tables
<1> QED BY <1>3, <1>4 DEF Abort

\* Plans are made and followed before the archiving by requests only
LEMMA PlanStepKeepsProtocol ==
    ASSUME TypeOK, Protocol, NEW w \in Workers,
           Build(w) \/ BuildFails(w) \/ EventRevoke(w)
    PROVE  Protocol'
<1> USE Roles, JobForms DEF Protocol, Steps
<1>1. UNCHANGED <<ticket, kind, engine>>
  BY DEF Build, BuildFails, EventRevoke, tables
<1>2. /\ work[w].step \in {"build", "revoke", "archive", "apply"}
      /\ work[w].step = "apply" => FALSE
      /\ w \in Revokers \cup Recoverers
      /\ w \in Revokers => MayGoBack(w)
      /\ w \in Recoverers => GoesOn(w) /\ engine = "revoked" /\ work[w].step = "build"
  BY DEF Build, BuildFails, EventRevoke, Stays, StepsFit, MayGoBack, GoesOn, Before, Workers,
         GoesOnAfterArchive
<1>3. work[w].plan \in SUBSET Nodes /\ Targets \in SUBSET Nodes
  BY DEF TypeOK, TablesTyped, Jobs, Targets
<1>4. CASE w \in Revokers
  <2>1. PICK job \in Jobs : Goto(w, job) /\ job.step \in Before
    BY <1>2, <1>3, <1>4
    DEF Build, BuildFails, EventRevoke, Before, Plan, At, Idle
  <2> QED BY <1>1, <1>2, <1>4, <2>1, MoveKeepsProtocol DEF Before
<1>5. CASE w \in Recoverers
  <2>1. PICK job \in Jobs : Goto(w, job) /\ job.step \in {"apply", "idle"}
    BY <1>2, <1>3, <1>5 DEF Build, BuildFails, EventRevoke, Plan, Idle, Stays
  <2> QED BY <1>1, <1>2, <1>5, <2>1, MoveKeepsProtocol DEF Before
<1> QED BY <1>2, <1>4, <1>5

\* Compensations are created and activated after the archiving only
LEMMA ApplyKeepsProtocol ==
    ASSUME TypeOK, Protocol, NEW w \in Workers, CreateTarget(w) \/ Apply(w)
    PROVE  Protocol'
<1> USE Roles, JobForms DEF Protocol, Steps
<1>1. Stays(w, "apply") /\ engine = "revoked" /\ engine' = engine
      /\ w \in Revokers \cup Recoverers
  BY DEF CreateTarget, Apply, Stays, GoesOnAfterArchive, GoesOn, StepsFit, Workers
<1>2. PICK job \in Jobs : /\ Goto(w, job)
                          /\ job.step \in {"apply", "idle", "finalize"}
  <2>1. UNCHANGED work => Goto(w, work[w]) /\ work[w] \in Jobs
    BY DEF Goto, TypeOK
  <2>2. CASE CreateTarget(w)
    BY <1>1, <2>1, <2>2 DEF CreateTarget, Stays, Idle
  <2>3. CASE Apply(w)
    BY <2>3 DEF Apply, At, Idle
  <2> QED BY <2>2, <2>3
<1>3. UNCHANGED ticket
  BY DEF CreateTarget, CreateTask, Apply, ActivateCompensations, tables
<1>4. StepsFit' /\ OneMayGoBack' /\ StoresAgree'
  <2>1. /\ work'[w] = job
        /\ \A v \in Workers : v # w => work'[v] = work[v]
    BY <1>2 DEF Goto, TypeOK
  <2>2. StoresAgree' /\ Phase' = Phase
    BY <1>1, <1>3 DEF StoresAgree, Phase
  <2>3. \A v \in Workers : MayGoBack(v)' => MayGoBack(v)
    BY <1>2, <2>1 DEF MayGoBack, Before
  <2>4. StepsFit'
    BY <1>1, <1>2, <2>1 DEF StepsFit
  <2> QED BY <2>2, <2>3, <2>4 DEF OneMayGoBack
<1>5. GoesOnAfterArchive'
  BY <1>1 DEF GoesOnAfterArchive
<1> QED BY <1>4, <1>5

\* Closing the ticket
LEMMA FinalizeKeepsProtocol ==
    ASSUME TypeOK, Protocol, NEW w \in Workers, Finalize(w)
    PROVE  Protocol'
<1> USE Roles, Phases DEF Protocol
<1>1. Stays(w, "finalize") /\ Goto(w, Idle) /\ UNCHANGED <<kind, engine>>
      /\ engine = "revoked"
  BY DEF Finalize, TryFinalize, tables, GoesOnAfterArchive, GoesOn, Stays
<1>2. CASE TryFinalize
  <2>1. ticket = "WITHDRAWING" /\ ticket' = "WITHDRAW"
    BY <1>2 DEF TryFinalize
  <2>2. StoresAgree' /\ Phase = "compensating"
    BY <1>1, <2>1 DEF StoresAgree, Phase
  <2>3. /\ work'[w].step = "idle"
        /\ \A v \in Workers : v # w => work'[v] = work[v]
    BY <1>1 DEF Goto, Idle, TypeOK
  <2>4. \A v \in Workers : ~MayGoBack(v)'
    BY <2>2, <2>3 DEF OneMayGoBack, MayGoBack, Before
  <2>5. StepsFit'
    BY <2>3 DEF StepsFit
  <2>6. GoesOnAfterArchive' /\ OneMayGoBack'
    BY <1>1, <2>4 DEF GoesOnAfterArchive, OneMayGoBack
  <2> QED BY <2>2, <2>5, <2>6
<1>3. CASE ~TryFinalize
  <2>1. UNCHANGED ticket
    BY <1>3 DEF Finalize, tables
  <2> QED BY <1>1, <2>1, JobForms, MoveKeepsProtocol DEF Idle, Before
<1> QED BY <1>2, <1>3

LEMMA ProtocolStays ==
    ASSUME OneJob, TypeOK, EndIsWritten, Protocol, [Next]_vars
    PROVE  Protocol'
<1> USE JobForms, Roles DEF Steps
<1>1. CASE UNCHANGED vars
  BY <1>1, TasksKeepProtocol DEF vars
<1>2. CASE ReachEnd \/ EventNotify \/ EndInstance
  <2>1. CASE ReachEnd
    BY <2>1, TasksKeepProtocol DEF ReachEnd, tables
  <2>2. CASE EventNotify \/ EndInstance
    <3>1. /\ ticket' = "END" /\ UNCHANGED <<kind, work>>
          /\ engine = "revoked" => engine' = "revoked"
      BY <2>2 DEF EventNotify, EndInstance, EndProcess, EndIsWritten, tables
    <3>2. StoresAgree' /\ Phase' = "ended"
      BY <3>1 DEF StoresAgree, Phase
    <3> QED BY <3>1, <3>2 DEF Protocol, StepsFit, OneMayGoBack, MayGoBack, GoesOnAfterArchive,
                              GoesOn
  <2> QED BY <1>2, <2>1, <2>2
<1>3. ASSUME NEW n \in Nodes, Task(n) PROVE Protocol'
  BY <1>3, TasksKeepProtocol
  DEF Task, EventAutomation, StartTask, RetryTask, OtherTaskStep, RecordResult, CreateTask,
      Begin, PrepareRetry, BindExecution, RejectSubmission, Block, Complete, Move, TaskStep
<1>4. ASSUME NEW w \in Workers, Call(w) PROVE Protocol'
  <2>1. CASE Revoke(w) \/ ListStale(w)
    BY <2>1, BeginKeepsProtocol
  <2>2. ASSUME NEW n \in Nodes, CompleteAttempt(w, n) PROVE Protocol'
    <3>1. engine = "revoked"
      BY <2>2 DEF CompleteAttempt, Protocol, GoesOnAfterArchive
    <3> QED BY <2>2, <3>1, MoveKeepsProtocol DEF CompleteAttempt, tables, At, Idle, Before
  <2>3. ASSUME NEW n \in Nodes, CheckTerminable(w, n) PROVE Protocol'
    BY <2>3, MoveKeepsProtocol DEF CheckTerminable, tables, At, Idle, Before
  <2> QED BY <1>4, <2>1, <2>2, <2>3 DEF Call
<1>5. ASSUME NEW w \in Workers, Step(w) PROVE Protocol'
  <2>1. CASE Build(w) \/ BuildFails(w) \/ EventRevoke(w)
    BY <2>1, PlanStepKeepsProtocol
  <2>2. CASE ArchiveInstance(w) \/ Abort(w)
    BY <2>2, ArchiveKeepsProtocol, AbortKeepsProtocol
  <2>3. CASE CreateTarget(w) \/ Apply(w) \/ Finalize(w)
    BY <2>3, ApplyKeepsProtocol, FinalizeKeepsProtocol
  <2>4. CASE Terminate(w) \/ Crash(w)
    BY <2>4, MoveKeepsProtocol
    DEF Terminate, TerminateTask, Move, Crash, tables, Idle, Before
  <2> QED BY <1>5, <2>1, <2>2, <2>3, <2>4 DEF Step
<1> QED BY <1>1, <1>2, <1>3, <1>4, <1>5 DEF Next

LEMMA ProtocolHolds ==
    ASSUME OneJob
    PROVE  Spec => [](TypeOK /\ EndIsWritten /\ Protocol)
<1>1. Init => TypeOK /\ EndIsWritten /\ Protocol
  BY TypesAtStart, ProtocolAtStart DEF Init, EndIsWritten
<1>2. TypeOK /\ EndIsWritten /\ Protocol /\ [Next]_vars
        => (TypeOK /\ EndIsWritten /\ Protocol)'
  <2> SUFFICES ASSUME TypeOK, EndIsWritten, Protocol, [Next]_vars
               PROVE  TypeOK' /\ EndIsWritten' /\ Protocol'
    OBVIOUS
  <2> QED BY TypesStay, EndStays, ProtocolStays DEF Protocol
<1> QED BY <1>1, <1>2, PTL DEF Spec

-----------------------------------------------------------------------------
(***************************************************************************)
(* Compensation                                                            *)
(***************************************************************************)

\* With the definition read, the targets are the compensations of what has
\* succeeded, and all that is due is a target
LEMMA TargetsAreCompensations ==
    ASSUME DefinitionRead
    PROVE  /\ Targets = Contract!CompensationsOf(Succeeded)
           /\ Contract!Due(Succeeded) \subseteq Targets
           /\ Targets \subseteq Contract!CompensationsOf(Nodes)
<1>1. \A n \in Succeeded : n \in Nodes /\ comp[n] = CompOf[n]
  BY DEF DefinitionRead, Succeeded
<1> QED BY <1>1 DEF Targets, Succeeded, Contract!CompensationsOf, Contract!Due

\* The success of a compensation makes nothing due
LEMMA CompensationMakesNothingDue ==
    ASSUME NEW S, NEW n \in Contract!CompensationsOf(Nodes)
    PROVE  Contract!Due(S \cup {n}) = Contract!Due(S)
<1>1. (S \cup {n}) \ Contract!CompensationsOf(Nodes) = S \ Contract!CompensationsOf(Nodes)
  OBVIOUS
<1> QED BY <1>1 DEF Contract!Due

\* A transaction that starts and finishes nothing
Rests ==
    /\ UNCHANGED <<ticket, kind>>
    /\ Succeeded' = Succeeded /\ Targets' = Targets
    /\ Running' = Running \/ \E n \in Running : Running' = Running \ {n}
    /\ DefinitionRead'

\* An attempt begins: Submitting
Begins(n) ==
    /\ UNCHANGED <<ticket, kind>>
    /\ Succeeded' = Succeeded /\ Targets' = Targets
    /\ n \notin Running \cup Succeeded /\ Running' = Running \cup {n}
    /\ AllowsStart(kind[n], ticket)
    /\ DefinitionRead'

\* An attempt succeeds
Succeeds(n) ==
    /\ UNCHANGED <<ticket, kind>>
    /\ n \in Running /\ Running' = Running \ {n}
    /\ Succeeded' = Succeeded \cup {n}
    /\ Targets \subseteq Targets'
    /\ DefinitionRead'

LEMMA QuietRests ==
    ASSUME UNCHANGED <<ticket, status, kind, comp>>, DefinitionRead
    PROVE  Rests
BY DEF Rests, Succeeded, Running, Targets, DefinitionRead

LEMMA CreateRests ==
    ASSUME TypeOK, DefinitionRead, ~UnreadDefinition,
           NEW n \in Nodes, NEW s \in {"Waiting", "Blocked"}, CreateTask(n, s)
    PROVE  Rests
<1>1. /\ status' = [status EXCEPT ![n] = s] /\ status[n] = "Absent"
      /\ comp' = [comp EXCEPT ![n] = CompOf[n]]
      /\ UNCHANGED <<ticket, kind>>
  BY DEF CreateTask
<1>2. Succeeded' = Succeeded /\ Running' = Running
  BY <1>1 DEF TypeOK, TablesTyped, Succeeded, Running, IsActive
<1>3. DefinitionRead'
  BY <1>1 DEF TypeOK, TablesTyped, DefinitionRead
<1>4. Targets' = Targets
  BY <1>1 DEF TypeOK, TablesTyped, Targets
<1> QED BY <1>1, <1>2, <1>3, <1>4 DEF Rests

\* The row moves to a status other than success and the active ones
LEMMA MoveRests ==
    ASSUME TypeOK, DefinitionRead, NEW n \in Nodes, NEW s \in TaskStatus, Move(n, s),
           status[n] \notin {"Success", "Absent"},
           s # "Success", IsActive(s) => IsActive(status[n])
    PROVE  Rests
<1>1. status' = [status EXCEPT ![n] = s] /\ UNCHANGED <<ticket, kind, comp>>
  BY DEF Move
<1>2. Succeeded' = Succeeded
  BY <1>1 DEF TypeOK, TablesTyped, Succeeded
<1>3. Running' = Running \/ \E m \in Running : Running' = Running \ {m}
  <2>1. CASE IsActive(status[n]) /\ ~IsActive(s)
    <3>1. n \in Running /\ Running' = Running \ {n}
      BY <1>1, <2>1 DEF TypeOK, TablesTyped, Running, IsActive
    <3> QED BY <3>1
  <2>2. CASE IsActive(status[n]) <=> IsActive(s)
    BY <1>1, <2>2 DEF TypeOK, TablesTyped, Running, IsActive
  <2> QED BY <2>1, <2>2
<1>4. DefinitionRead' /\ Targets' = Targets
  BY <1>1 DEF TypeOK, TablesTyped, DefinitionRead, Targets
<1> QED BY <1>1, <1>2, <1>3, <1>4 DEF Rests

LEMMA BeginBegins ==
    ASSUME TypeOK, DefinitionRead, NEW n \in Nodes, Begin(n)
    PROVE  Begins(n)
<1>1. /\ status' = [status EXCEPT ![n] = "Submitting"] /\ status[n] = "Waiting"
      /\ AllowsStart(kind[n], ticket)
      /\ UNCHANGED <<ticket, kind, comp>>
  BY DEF Begin, Move
<1>2. n \notin Running \cup Succeeded /\ Running' = Running \cup {n}
  BY <1>1 DEF TypeOK, TablesTyped, Running, Succeeded, IsActive
<1>3. Succeeded' = Succeeded /\ Targets' = Targets /\ DefinitionRead'
  BY <1>1 DEF TypeOK, TablesTyped, Succeeded, Targets, DefinitionRead
<1> QED BY <1>1, <1>2, <1>3 DEF Begins

LEMMA CompleteMoves ==
    ASSUME TypeOK, DefinitionRead, NEW n \in Nodes,
           NEW s \in {"Success", "Failed", "Cancelled"}, Complete(n, s)
    PROVE  IF s = "Success" THEN Succeeds(n) ELSE Rests
<1>1. CASE s = "Success"
  <2>1. /\ status' = [status EXCEPT ![n] = "Success"] /\ IsActive(status[n])
        /\ UNCHANGED <<ticket, kind, comp>>
    BY <1>1 DEF Complete, Move
  <2>2. n \in Running /\ Running' = Running \ {n} /\ Succeeded' = Succeeded \cup {n}
    BY <2>1 DEF TypeOK, TablesTyped, Running, Succeeded, IsActive
  <2>3. Targets \subseteq Targets' /\ DefinitionRead'
    BY <2>1 DEF TypeOK, TablesTyped, Targets, DefinitionRead, IsActive
  <2> QED BY <1>1, <2>1, <2>2, <2>3 DEF Succeeds
<1>2. CASE s # "Success"
  BY <1>2, MoveRests DEF Complete, IsActive, TaskStatus
<1> QED BY <1>1, <1>2

\* What a task transaction may be
LEMMA TaskTransactionKinds ==
    ASSUME TypeOK, DefinitionRead, ~UnreadDefinition, NEW n \in Nodes, TaskTransaction(n)
    PROVE  Rests \/ Begins(n) \/ Succeeds(n)
<1>1. CASE \E s \in {"Waiting", "Blocked"} : CreateTask(n, s)
  BY <1>1, CreateRests
<1>2. CASE Begin(n)
  BY <1>2, BeginBegins
<1>3. CASE \E s \in {"Success", "Failed", "Cancelled"} : Complete(n, s)
  BY <1>3, CompleteMoves
<1>4. CASE BindExecution(n) \/ RejectSubmission(n) \/ Block(n) \/ PrepareRetry(n)
             \/ TerminateTask(n)
  BY <1>4, MoveRests
  DEF BindExecution, RejectSubmission, Block, PrepareRetry, TerminateTask, CanRetry,
      CanTerminate, IsActive, TaskStatus
<1> QED BY <1>1, <1>2, <1>3, <1>4 DEF TaskTransaction

\* The conditions on goroutines, when the tables do no more than rest
LEMMA CompensationKept ==
    ASSUME TypeOK, Compensation, Rests,
           \A w \in Workers : Planned(w)' /\ ticket # "END" =>
               \/ Planned(w) /\ work'[w].plan = work[w].plan
               \/ PlanFits(work'[w].plan),
           \A w \in Workers : Stays(w, "finalize")' => Activated
    PROVE  Compensation'
<1>1. /\ Succeeded' = Succeeded /\ Targets' = Targets /\ Running' \subseteq Running
      /\ Compensates' = Compensates /\ ticket' = ticket
  BY DEF Rests, Compensates
<1>2. PlansFit'
  <2> SUFFICES ASSUME NEW w \in Workers, Planned(w)', ticket' # "END"
               PROVE  PlanFits(work[w].plan)'
    BY DEF PlansFit
  <2>1. PlanFits(work'[w].plan)
    BY <1>1 DEF Compensation, PlansFit
  <2> QED BY <1>1, <2>1 DEF PlanFits, Contract!Due
<1>3. FrozenRuns' /\ WithdrawnAtRest'
  BY <1>1 DEF Compensation, FrozenRuns, WithdrawnAtRest
<1>4. Activated' => Activated
  BY <1>1 DEF Activated
<1>5. ActivatedAll'
  BY <1>1, <1>4 DEF Compensation, ActivatedAll, Contract!Due
<1> QED BY <1>2, <1>3, <1>5 DEF Compensation, Rests

\* While the process runs nobody has a plan, or finalizes
NothingPlanned ==
    /\ \A w \in Workers : ~Planned(w)
    /\ ~Activated /\ Compensates = {} /\ engine # "revoked"

LEMMA NothingPlannedWhenOpen ==
    TypeOK /\ Protocol /\ ticket = "PROCESS" => NothingPlanned
<1> SUFFICES ASSUME TypeOK, Protocol, ticket = "PROCESS" PROVE NothingPlanned
  OBVIOUS
<1>1. engine # "revoked" /\ Phase = "open"
  BY Phases DEF Protocol
<1>2. ASSUME NEW w \in Workers PROVE ~Planned(w)
  BY <1>1, Roles
  DEF Protocol, StepsFit, OneMayGoBack, GoesOnAfterArchive, GoesOn, Planned, MayGoBack, Before,
      Workers
<1>3. Compensates = {} /\ ~Activated
  BY <1>1 DEF Protocol, GoesOnAfterArchive, GoesOn, Compensates, Activated, Stays
<1> QED BY <1>1, <1>2, <1>3 DEF NothingPlanned

\* The start or the success of an execution, whoever reports it
LEMMA TasksKeepCompensation ==
    ASSUME TypeOK, Protocol, Compensation, ~UnreadDefinition, NEW n \in Nodes,
           TaskTransaction(n), UNCHANGED <<engine, work>>
    PROVE  Compensation'
<1>1. CASE Rests
  BY <1>1, CompensationKept DEF Planned, Activated, Stays
<1>2. CASE Begins(n)
  <2>1. /\ Succeeded' = Succeeded /\ Targets' = Targets /\ Compensates' = Compensates
        /\ Running' = Running \cup {n} /\ ticket' = ticket
        /\ \A w \in Workers : Planned(w)' => Planned(w)
        /\ Activated' <=> Activated
        /\ DefinitionRead'
    BY <1>2 DEF Begins, Compensates, Planned, Activated, Stays
  <2>2. CASE ticket = "PROCESS"
    <3>1. PlansFit'
      BY <2>1, <2>2, NothingPlannedWhenOpen DEF NothingPlanned, PlansFit
    <3>2. FrozenRuns' /\ ActivatedAll' /\ WithdrawnAtRest'
      BY <2>1, <2>2, NothingPlannedWhenOpen
      DEF NothingPlanned, FrozenRuns, ActivatedAll, WithdrawnAtRest
    <3> QED BY <2>1, <3>1, <3>2 DEF Compensation
  <2>3. CASE ticket = "WITHDRAWING" /\ n \in Compensates
    <3>1. PlansFit'
      BY <2>1, <2>3 DEF Compensation, PlansFit, PlanFits, Contract!Due, Planned
    <3>2. FrozenRuns' /\ ActivatedAll' /\ WithdrawnAtRest'
      BY <2>1, <2>3 DEF Compensation, FrozenRuns, ActivatedAll, WithdrawnAtRest, Contract!Due
    <3> QED BY <2>1, <3>1, <3>2 DEF Compensation
  <2> QED BY <1>2, <2>2, <2>3 DEF Begins, AllowsStart, Compensates
<1>3. CASE Succeeds(n)
  <2>1. /\ Succeeded' = Succeeded \cup {n} /\ Targets \subseteq Targets'
        /\ Compensates' = Compensates /\ ticket' = ticket
        /\ n \in Running /\ Running' = Running \ {n}
        /\ \A w \in Workers : Planned(w)' => Planned(w)
        /\ Activated' <=> Activated
        /\ DefinitionRead'
    BY <1>3 DEF Succeeds, Compensates, Planned, Activated, Stays
  <2>2. CASE ticket = "PROCESS"
    <3>1. PlansFit'
      BY <2>1, <2>2, NothingPlannedWhenOpen DEF NothingPlanned, PlansFit
    <3>2. FrozenRuns' /\ ActivatedAll' /\ WithdrawnAtRest'
      BY <2>1, <2>2, NothingPlannedWhenOpen
      DEF NothingPlanned, FrozenRuns, ActivatedAll, WithdrawnAtRest
    <3> QED BY <2>1, <3>1, <3>2 DEF Compensation
  <2>3. CASE ticket = "WITHDRAWING"
    <3>1. Contract!Due(Succeeded)' = Contract!Due(Succeeded)
      <4>1. n \in Contract!CompensationsOf(Nodes)
        BY <2>1, <2>3, TargetsAreCompensations DEF Compensation, FrozenRuns
      <4>2. Contract!Due(Succeeded \cup {n}) = Contract!Due(Succeeded)
        BY <4>1, CompensationMakesNothingDue
      <4> QED BY <2>1, <4>2 DEF Contract!Due
    <3>2. PlansFit'
      BY <2>1, <3>1 DEF Compensation, PlansFit, PlanFits, Planned
    <3>3. FrozenRuns' /\ ActivatedAll' /\ WithdrawnAtRest'
      BY <2>1, <2>3, <3>1 DEF Compensation, FrozenRuns, ActivatedAll, WithdrawnAtRest
    <3> QED BY <2>1, <3>2, <3>3 DEF Compensation
  <2>4. CASE ticket = "WITHDRAW"
    BY <2>1, <2>4 DEF Compensation, WithdrawnAtRest
  <2>5. CASE ticket = "END"
    <3>1. PlansFit' /\ FrozenRuns' /\ WithdrawnAtRest'
      BY <2>1, <2>5 DEF Compensation, PlansFit, FrozenRuns, WithdrawnAtRest
    <3>2. ASSUME Activated PROVE (Running \cup Contract!Due(Succeeded) \subseteq Compensates)'
      <4>1. n \in Compensates /\ n \in Contract!CompensationsOf(Nodes)
        BY <2>1, <3>2, TargetsAreCompensations DEF Compensation, FrozenRuns, ActivatedAll
      <4>2. Contract!Due(Succeeded \cup {n}) = Contract!Due(Succeeded)
        BY <4>1, CompensationMakesNothingDue
      <4> QED BY <2>1, <3>2, <4>2 DEF Compensation, ActivatedAll, Contract!Due
    <3> QED BY <2>1, <3>1, <3>2 DEF Compensation, ActivatedAll
  <2> QED BY <2>2, <2>3, <2>4, <2>5 DEF TypeOK, TablesTyped, TicketStatus
<1> QED BY <1>1, <1>2, <1>3, TaskTransactionKinds DEF Compensation

\* A goroutine moves on while the tables rest
LEMMA MoveKeepsCompensation ==
    ASSUME TypeOK, Compensation, Rests, NEW w \in Workers, NEW job \in Jobs, Goto(w, job),
           job.step \in {"revoke", "archive", "apply"} /\ ticket # "END" =>
               \/ Planned(w) /\ job.plan = work[w].plan
               \/ PlanFits(job.plan),
           job.step = "finalize" => Activated
    PROVE  Compensation'
<1>1. /\ work'[w] = job
      /\ \A v \in Workers : v # w => work'[v] = work[v]
  BY DEF Goto, TypeOK
<1>2. \A v \in Workers : Planned(v)' /\ ticket # "END" =>
               \/ Planned(v) /\ work'[v].plan = work[v].plan
               \/ PlanFits(work'[v].plan)
  BY <1>1 DEF Planned
<1>3. \A v \in Workers : Stays(v, "finalize")' => Activated
  BY <1>1 DEF Stays, Activated
<1> QED BY <1>2, <1>3, CompensationKept

\* The ticket goes back to PROCESS: nothing is planned any more
LEMMA OpeningKeepsCompensation ==
    ASSUME TypeOK', Protocol', (ticket = "PROCESS")', Compensation,
           UNCHANGED <<status, kind, comp>>
    PROVE  Compensation'
<1>1. NothingPlanned'
  BY NothingPlannedWhenOpen, PTL
<1>2. DefinitionRead'
  BY DEF Compensation, DefinitionRead
<1>3. PlansFit' /\ FrozenRuns' /\ ActivatedAll' /\ WithdrawnAtRest'
  BY <1>1 DEF NothingPlanned, PlansFit, FrozenRuns, ActivatedAll, WithdrawnAtRest
<1> QED BY <1>2, <1>3 DEF Compensation

\* The ticket ends: no plan counts any more, and who finalizes comes too late
LEMMA EndKeepsCompensation ==
    ASSUME TypeOK, Compensation, ticket' = "END", UNCHANGED <<status, kind, comp, work>>
    PROVE  Compensation'
<1>1. Running' = Running /\ Succeeded' = Succeeded /\ Targets' = Targets
      /\ Compensates' = Compensates
  BY DEF Running, Succeeded, Targets, Compensates
<1>2. DefinitionRead' /\ PlansFit' /\ FrozenRuns' /\ WithdrawnAtRest'
  BY <1>1 DEF Compensation, DefinitionRead, PlansFit, FrozenRuns, WithdrawnAtRest
<1>3. Activated' => Activated
  BY <1>1 DEF Activated, Stays
<1>4. ActivatedAll'
  BY <1>1, <1>3 DEF Compensation, ActivatedAll, Contract!Due
<1> QED BY <1>2, <1>4 DEF Compensation

LEMMA RevokeKeepsCompensation ==
    ASSUME TypeOK, Protocol, Compensation, NEW w \in Workers, Revoke(w)
    PROVE  Compensation'
<1>1. /\ ticket = "PROCESS" /\ ticket' = "WITHDRAWING"
      /\ Running \subseteq Targets
      /\ kind' = [n \in Nodes |-> "PROCESS"]
      /\ UNCHANGED <<status, comp, engine>>
      /\ Goto(w, At("build"))
  BY DEF Revoke, Prepare, Running
<1>2. Running' = Running /\ Targets' = Targets /\ Compensates' = {}
  BY <1>1 DEF Running, Targets, Compensates
<1>3. /\ work'[w].step = "build"
      /\ \A v \in Workers : v # w => work'[v] = work[v]
  BY <1>1 DEF Goto, At, Idle, TypeOK
<1>5. \A v \in Workers : ~Planned(v)'
  BY <1>1, <1>3, NothingPlannedWhenOpen DEF NothingPlanned, Planned
<1>6. ~Activated'
  BY <1>1, <1>2, <1>3, NothingPlannedWhenOpen DEF NothingPlanned, Activated, Stays
<1>7. DefinitionRead'
  BY <1>1 DEF Compensation, DefinitionRead
<1> QED
  BY <1>1, <1>2, <1>5, <1>6, <1>7
  DEF Compensation, PlansFit, FrozenRuns, ActivatedAll, WithdrawnAtRest

\* What a plan may be made of
LEMMA BuildFits ==
    ASSUME Protocol, Compensation, NEW w \in Workers, TypeOK, Stays(w, "build"), ticket # "END"
    PROVE  PlanFits(Targets)
<1>1. ticket \in {"WITHDRAWING", "WITHDRAW"}
  BY Phases, Roles DEF Protocol, StepsFit, OneMayGoBack, MayGoBack, Before, GoesOnAfterArchive,
                GoesOn, Stays, Workers
<1> QED BY <1>1, TargetsAreCompensations
        DEF Compensation, FrozenRuns, WithdrawnAtRest, PlanFits

LEMMA PlanStepKeepsCompensation ==
    ASSUME TypeOK, Protocol, Compensation, NEW w \in Workers,
           Build(w) \/ BuildFails(w) \/ EventRevoke(w) \/ ArchiveInstance(w)
    PROVE  Compensation'
<1> USE JobForms DEF Steps
<1>1. Rests
  BY QuietRests DEF Build, BuildFails, EventRevoke, ArchiveInstance, tables, Compensation
<1>2. Targets \in SUBSET Nodes /\ work[w].plan \in SUBSET Nodes
  BY DEF TypeOK, TablesTyped, Targets, Jobs
<1>3. CASE Build(w)
  <2>1. PICK s \in {"revoke", "apply"} : Goto(w, Plan(s, Targets))
    BY <1>3 DEF Build
  <2>2. Plan(s, Targets) \in Jobs /\ Plan(s, Targets).plan = Targets
        /\ Plan(s, Targets).step = s
    BY <1>2, <2>1 DEF Plan, Idle
  <2>3. ticket # "END" => PlanFits(Targets)
    BY <1>3, BuildFits DEF Build
  <2> QED BY <1>1, <2>1, <2>2, <2>3, MoveKeepsCompensation
<1>4. CASE BuildFails(w) \/ EventRevoke(w) \/ ArchiveInstance(w)
  <2>1. PICK job \in Jobs :
          /\ Goto(w, job)
          /\ \/ job.step \in {"idle", "abort"}
             \/ Planned(w) /\ job.step # "finalize" /\ job.plan = work[w].plan
    BY <1>2, <1>4
    DEF BuildFails, EventRevoke, ArchiveInstance, Planned, Stays, At, Plan, Idle
  <2> QED BY <1>1, <2>1, MoveKeepsCompensation
<1> QED BY <1>3, <1>4

LEMMA ApplyKeepsCompensation ==
    ASSUME TypeOK, Protocol, Compensation, ~UnreadDefinition, NEW w \in Workers,
           CreateTarget(w) \/ Apply(w)
    PROVE  Compensation'
<1> USE JobForms DEF Steps
<1>1. /\ Stays(w, "apply") /\ engine' = engine
      /\ work[w].plan \in SUBSET Nodes /\ (ticket # "END" => PlanFits(work[w].plan))
      /\ work[w] \in Jobs
  BY DEF CreateTarget, Apply, Stays, Protocol, GoesOnAfterArchive, GoesOn, TypeOK, Jobs,
         Compensation, PlansFit, Planned
<1>2. CASE CreateTarget(w)
  <2>1. PICK n \in Nodes, s \in {"Waiting", "Blocked"} :
          CreateTask(n, s) /\ (UNCHANGED work \/ Goto(w, Idle))
    BY <1>1, <1>2 DEF CreateTarget
  <2>2. Rests
    BY <2>1, CreateRests DEF Compensation
  <2>3. CASE UNCHANGED work
    BY <1>1, <2>2, <2>3, CompensationKept DEF Planned, Stays, Activated
  <2>4. CASE Goto(w, Idle)
    BY <1>1, <2>2, <2>4, MoveKeepsCompensation DEF Idle
  <2> QED BY <2>1, <2>3, <2>4
<1>3. CASE Apply(w) /\ ActivateCompensations(work[w].plan)
  <2> DEFINE plan == work[w].plan
  <2>1. /\ ticket = "WITHDRAWING" /\ ticket' = ticket /\ comp' = comp
        /\ \A n \in plan : status[n] # "Absent"
        /\ Goto(w, At("finalize"))
    BY <1>3 DEF Apply, ActivateCompensations
  <2>2. \A n \in Nodes : /\ status[n] \notin Pending => status'[n] = status[n]
                         /\ status[n] \in Pending => status'[n] \in Pending \cup {"Cancelled"}
    BY <1>3 DEF ActivateCompensations, Pending
  <2>3. Running' = Running /\ Succeeded' = Succeeded
    BY <2>2 DEF Running, Succeeded, IsActive, Pending
  <2>4. Targets' = Targets
    BY <2>1, <2>2 DEF Targets, Pending
  <2>5. DefinitionRead'
    BY <2>1, <2>2 DEF Compensation, DefinitionRead, Pending
  <2>6. Compensates' = Compensates \cup plan
    BY <1>1, <1>3, <2>1 DEF ActivateCompensations, Compensates
  <2>7. /\ work'[w].step = "finalize"
        /\ \A v \in Workers : v # w => work'[v] = work[v]
    BY <2>1 DEF Goto, At, Idle, TypeOK
  <2>8. PlansFit'
    <3> SUFFICES ASSUME NEW v \in Workers, Planned(v)'
                 PROVE  PlanFits(work[v].plan)'
      BY DEF PlansFit
    <3>1. v # w /\ work'[v] = work[v] /\ PlanFits(work[v].plan)
      BY <2>1, <2>7 DEF Planned, Compensation, PlansFit
    <3> QED BY <2>3, <2>4, <2>6, <3>1 DEF PlanFits, Contract!Due
  <2>9. FrozenRuns' /\ ActivatedAll' /\ WithdrawnAtRest'
    BY <1>1, <2>1, <2>3, <2>4, <2>6
    DEF PlanFits, Compensation, FrozenRuns, ActivatedAll, WithdrawnAtRest, Contract!Due
  <2> QED BY <2>5, <2>8, <2>9 DEF Compensation
<1>4. CASE Apply(w) /\ ~ActivateCompensations(work[w].plan)
  <2>1. PICK job \in Jobs :
          /\ Goto(w, job)
          /\ job.step = "idle" \/ (job.step = "finalize" /\ ticket = "WITHDRAW")
    <3>1. Goto(w, IF ticket = "WITHDRAW" THEN At("finalize") ELSE Idle)
      BY <1>4 DEF Apply
    <3>2. At("finalize").step = "finalize" /\ Idle.step = "idle"
      BY DEF At, Idle
    <3>3. CASE ticket = "WITHDRAW"
      BY <3>1, <3>2, <3>3
    <3>4. CASE ticket # "WITHDRAW"
      BY <3>1, <3>2, <3>4
    <3> QED BY <3>3, <3>4
  <2>2. Rests
    BY <1>4, QuietRests DEF Apply, tables, Compensation
  <2> QED BY <1>1, <2>1, <2>2, MoveKeepsCompensation DEF Activated
<1> QED BY <1>2, <1>3, <1>4

LEMMA FinalizeKeepsCompensation ==
    ASSUME TypeOK, Protocol, Compensation, NEW w \in Workers, Finalize(w)
    PROVE  Compensation'
<1>1. Goto(w, Idle) /\ UNCHANGED engine /\ Stays(w, "finalize")
  BY DEF Finalize
<1>2. CASE TryFinalize
  <2>1. /\ ticket = "WITHDRAWING" /\ ticket' = "WITHDRAW" /\ UNCHANGED <<status, kind, comp>>
        /\ Compensates \subseteq Succeeded
    BY <1>2 DEF TryFinalize, CompensationsSucceeded, Compensates, Succeeded
  <2>2. /\ Running' = Running /\ Succeeded' = Succeeded /\ Targets' = Targets
        /\ Compensates' = Compensates
    BY <2>1 DEF Running, Succeeded, Targets, Compensates
  <2>3. Running \cup Contract!Due(Succeeded) \subseteq Compensates
    BY <1>1 DEF Compensation, ActivatedAll, Activated
  <2>4. Running = {}
    BY <2>1, <2>3 DEF Running, Succeeded, IsActive
  <2>5. \A v \in Workers : Planned(v)' => Planned(v) /\ work'[v] = work[v]
    BY <1>1 DEF Goto, Planned, Idle, TypeOK
  <2>6. PlansFit'
    BY <2>1, <2>2, <2>5 DEF Compensation, PlansFit, PlanFits, Contract!Due
  <2>7. DefinitionRead'
    BY <2>1 DEF Compensation, DefinitionRead
  <2> QED BY <2>1, <2>2, <2>3, <2>4, <2>6, <2>7
          DEF Compensation, FrozenRuns, ActivatedAll, WithdrawnAtRest, Contract!Due
<1>3. CASE ~TryFinalize
  <2>1. Rests
    BY <1>3, QuietRests DEF Finalize, tables, Compensation
  <2> QED BY <1>1, <2>1, JobForms, MoveKeepsCompensation DEF Idle
<1> QED BY <1>2, <1>3

LEMMA CompensationStays ==
    ASSUME OneJob, ~UnreadDefinition, TypeOK, EndIsWritten, Protocol, Compensation,
           [Next]_vars
    PROVE  Compensation'
<1> USE JobForms DEF Steps
<1>1. TypeOK' /\ Protocol'
  BY TypesStay, ProtocolStays DEF Protocol
<1>2. CASE UNCHANGED vars
  <2>1. Rests
    BY <1>2, QuietRests DEF vars, Compensation
  <2> QED BY <1>2, <2>1, CompensationKept DEF vars, Planned, Stays, Activated
<1>3. CASE ReachEnd \/ EventNotify \/ EndInstance
  <2>1. CASE ReachEnd
    <3>1. Rests
      BY <2>1, QuietRests DEF ReachEnd, tables, Compensation
    <3> QED BY <2>1, <3>1, CompensationKept DEF ReachEnd, Planned, Stays, Activated
  <2>2. CASE EventNotify \/ EndInstance
    BY <2>2, EndKeepsCompensation
    DEF EventNotify, EndInstance, EndProcess, EndIsWritten, tables
  <2> QED BY <1>3, <2>1, <2>2
<1>4. ASSUME NEW n \in Nodes, Task(n) PROVE Compensation'
  <2>1. TaskTransaction(n) /\ UNCHANGED <<engine, work>>
    BY <1>4 DEF Task, TaskTransaction, EventAutomation, StartTask, RetryTask, OtherTaskStep,
                RecordResult, TaskStep
  <2> QED BY <2>1, TasksKeepCompensation
<1>5. ASSUME NEW w \in Workers, Call(w) PROVE Compensation'
  <2>1. CASE Revoke(w)
    BY <2>1, RevokeKeepsCompensation
  <2>2. CASE ListStale(w)
    <3>1. Rests
      BY <2>2, QuietRests DEF ListStale, tables, Compensation
    <3> QED BY <2>2, <3>1, MoveKeepsCompensation DEF ListStale, At, Idle
  <2>3. ASSUME NEW n \in Nodes, CompleteAttempt(w, n) PROVE Compensation'
    <3>1. Rests
      BY <2>3, QuietRests DEF CompleteAttempt, tables, Compensation
    <3>2. Activated
      BY <2>3 DEF CompleteAttempt, Activated, Compensates
    <3> QED BY <2>3, <3>1, <3>2, MoveKeepsCompensation DEF CompleteAttempt, At, Idle
  <2>4. ASSUME NEW n \in Nodes, CheckTerminable(w, n) PROVE Compensation'
    <3>1. Rests
      BY <2>4, QuietRests DEF CheckTerminable, tables, Compensation
    <3> QED BY <2>4, <3>1, MoveKeepsCompensation DEF CheckTerminable, At, Idle
  <2> QED BY <1>5, <2>1, <2>2, <2>3, <2>4 DEF Call
<1>6. ASSUME NEW w \in Workers, Step(w) PROVE Compensation'
  <2>1. CASE Build(w) \/ BuildFails(w) \/ EventRevoke(w) \/ ArchiveInstance(w)
    BY <2>1, PlanStepKeepsCompensation
  <2>2. CASE CreateTarget(w) \/ Apply(w) \/ Finalize(w)
    BY <2>2, ApplyKeepsCompensation, FinalizeKeepsCompensation
  <2>3. CASE Abort(w)
    <3>1. CASE Rollback
      BY <1>1, <3>1, OpeningKeepsCompensation DEF Rollback
    <3>2. CASE ~Rollback
      <4>1. Rests /\ Goto(w, Idle) /\ UNCHANGED engine
        BY <2>3, <3>2, QuietRests DEF Abort, tables, Compensation
      <4> QED BY <4>1, MoveKeepsCompensation DEF Idle
    <3> QED BY <3>1, <3>2
  <2>4. CASE Terminate(w) \/ Crash(w)
    <3>1. UNCHANGED engine /\ Goto(w, Idle)
      BY <2>4 DEF Terminate, Crash
    <3>2. CASE UNCHANGED tables
      <4>1. Rests
        BY <3>2, QuietRests DEF tables, Compensation
      <4> QED BY <3>1, <4>1, MoveKeepsCompensation DEF Idle
    <3>3. CASE ~UNCHANGED tables
      <4>1. work[w].node \in Nodes /\ TerminateTask(work[w].node)
        BY <2>4, <3>3 DEF Terminate, Crash, Protocol, StepsFit, Stays
      <4>2. Rests
        BY <4>1, MoveRests DEF TerminateTask, CanTerminate, IsActive, TaskStatus, Compensation
      <4> QED BY <3>1, <4>2, MoveKeepsCompensation DEF Idle
    <3> QED BY <3>2, <3>3
  <2> QED BY <1>6, <2>1, <2>2, <2>3, <2>4 DEF Step
<1> QED BY <1>2, <1>3, <1>4, <1>5, <1>6 DEF Next

LEMMA CompensationAtStart == Init => Compensation
<1> SUFFICES ASSUME Init PROVE Compensation
  OBVIOUS
<1>1. /\ ticket = "PROCESS"
      /\ \A n \in Nodes : status[n] = "Absent" /\ kind[n] = "PROCESS"
      /\ \A w \in Workers : work[w].step = "idle"
  BY DEF Init, TablesInit, Idle
<1>2. Running = {} /\ Compensates = {}
  BY <1>1 DEF Running, Compensates, IsActive
<1> QED BY <1>1, <1>2
        DEF Compensation, DefinitionRead, PlansFit, Planned, FrozenRuns, ActivatedAll,
            Activated, Stays, WithdrawnAtRest

LEMMA CompensationHolds ==
    ASSUME OneJob, ~UnreadDefinition
    PROVE  Spec => [](TypeOK /\ EndIsWritten /\ Protocol /\ Compensation)
<1>1. Init => TypeOK /\ EndIsWritten /\ Protocol /\ Compensation
  BY TypesAtStart, ProtocolAtStart, CompensationAtStart DEF Init, EndIsWritten
<1>2. TypeOK /\ EndIsWritten /\ Protocol /\ Compensation /\ [Next]_vars
        => (TypeOK /\ EndIsWritten /\ Protocol /\ Compensation)'
  <2> SUFFICES ASSUME TypeOK, EndIsWritten, Protocol, Compensation, [Next]_vars
               PROVE  TypeOK' /\ EndIsWritten' /\ Protocol' /\ Compensation'
    OBVIOUS
  <2> QED BY TypesStay, EndStays, ProtocolStays, CompensationStays DEF Protocol
<1> QED BY <1>1, <1>2, PTL DEF Spec

-----------------------------------------------------------------------------
(***************************************************************************)
(* The contract, step by step                                              *)
(***************************************************************************)

\* What the contract sees is left alone
LEMMA ContractStutter ==
    ASSUME Phase' = Phase, Running' = Running, Succeeded' = Succeeded
    PROVE  [Contract!ContractNext]_(Contract!contract)
BY DEF Contract!contract, Running, Succeeded

\* A transaction on a task runs it, ends it, or is not seen
LEMMA TasksKeepContract ==
    ASSUME TypeOK, Protocol, Compensation, ~UnreadDefinition, NEW n \in Nodes,
           Rests \/ Begins(n) \/ Succeeds(n), UNCHANGED engine
    PROVE  [Contract!ContractNext]_(Contract!contract)
<1> USE DEF Contract!ContractNext
<1>1. ticket' = ticket /\ Phase' = Phase
  BY DEF Rests, Begins, Succeeds, Phase
<1>2. CASE Rests
  <2>1. CASE Running' = Running
    BY <1>1, <1>2, <2>1, ContractStutter DEF Rests
  <2>2. ASSUME NEW m \in Running, Running' = Running \ {m}
        PROVE  Contract!Fail(m) /\ m \in Nodes
    BY <1>1, <1>2, <2>2 DEF Rests, Contract!Fail, Running, Succeeded
  <2> QED BY <1>2, <2>1, <2>2 DEF Rests
<1>3. CASE Begins(n)
  <2>1. /\ n \notin Running \cup Succeeded
        /\ Running' = Running \cup {n} /\ Succeeded' = Succeeded
    BY <1>3 DEF Begins
  <2>2. CASE ticket = "PROCESS"
    <3>1. Phase = "open"
      BY <2>2, Phases DEF Protocol
    <3> QED BY <1>1, <2>1, <3>1 DEF Contract!Run, Running, Succeeded
  <2>3. CASE ticket = "WITHDRAWING" /\ n \in Compensates
    <3>1. Phase = "compensating"
      BY <2>3, Phases DEF Protocol, GoesOnAfterArchive, Compensates
    <3>2. n \in Contract!CompensationsOf(Succeeded)
      BY <2>3, TargetsAreCompensations DEF Compensation, FrozenRuns
    <3> QED BY <1>1, <2>1, <3>1, <3>2 DEF Contract!Run, Running, Succeeded
  <2> QED BY <1>3, <2>2, <2>3 DEF Begins, AllowsStart, Compensates
<1>4. CASE Succeeds(n)
  <2>1. Contract!Succeed(n)
    BY <1>1, <1>4 DEF Succeeds, Contract!Succeed, Running, Succeeded
  <2> QED BY <2>1
<1> QED BY <1>2, <1>3, <1>4

\* A step that moves the ticket or the engine
LEMMA PhaseSteps ==
    ASSUME TypeOK, Protocol, Compensation, Protocol', NEW w \in Workers,
           Revoke(w) \/ ArchiveInstance(w) \/ Abort(w) \/ Finalize(w)
    PROVE  [Contract!ContractNext]_(Contract!contract)
<1> USE DEF Contract!ContractNext
<1>1. Running' = Running /\ Succeeded' = Succeeded
  BY DEF Revoke, Prepare, ArchiveInstance, Abort, Rollback, Finalize, TryFinalize,
         tables, Running, Succeeded
<1>2. CASE Phase' = Phase
  BY <1>1, <1>2, ContractStutter
<1>3. CASE Revoke(w)
  <2>1. ticket = "PROCESS" /\ ticket' = "WITHDRAWING" /\ engine' = engine
        /\ Running \subseteq Targets
    BY <1>3 DEF Revoke, Prepare, Running
  <2>2. Phase = "open" /\ Phase' = "frozen"
    BY <2>1, Phases DEF Protocol, Phase
  <2>3. Contract!Freeze
    BY <1>1, <2>1, <2>2, TargetsAreCompensations
    DEF Compensation, Contract!Freeze, Contract!Enter, Running, Succeeded
  <2> QED BY <2>3
<1>4. CASE ArchiveInstance(w) /\ engine = "active"
  <2>1. ticket' = ticket /\ engine' = "revoked" /\ MayGoBack(w)
    BY <1>4, Roles DEF ArchiveInstance, tables, Stays, MayGoBack, Before, Protocol, StepsFit,
                Workers
  <2>2. \/ Phase' = Phase
        \/ Phase = "frozen" /\ Phase' = "compensating"
    BY <1>4, <2>1 DEF Protocol, OneMayGoBack, Phase
  <2>3. Phase' # Phase => Contract!Archive
    BY <1>1, <2>2 DEF Contract!Archive, Contract!Enter, Running, Succeeded
  <2> QED BY <1>2, <2>3
<1>5. CASE Abort(w) /\ Rollback
  <2>1. ticket = "WITHDRAWING" /\ ticket' = "PROCESS" /\ engine' = engine /\ MayGoBack(w)
    BY <1>5, Roles DEF Abort, Rollback, Stays, MayGoBack, Before, Protocol, StepsFit, Workers
  <2>2. Phase = "frozen" /\ Phase' = "open"
    BY <2>1, Phases DEF Protocol, OneMayGoBack, Phase
  <2>3. Contract!Thaw
    BY <1>1, <2>2 DEF Contract!Thaw, Contract!Enter, Running, Succeeded
  <2> QED BY <2>3
<1>6. CASE Finalize(w) /\ TryFinalize
  <2>1. /\ ticket = "WITHDRAWING" /\ ticket' = "WITHDRAW" /\ engine' = engine
        /\ engine = "revoked" /\ Activated
        /\ Compensates \subseteq Succeeded
    BY <1>6 DEF Finalize, TryFinalize, Stays, Protocol, GoesOnAfterArchive, GoesOn, Activated,
                CompensationsSucceeded, Compensates, Succeeded
  <2>2. Phase = "compensating" /\ Phase' = "withdrawn"
    BY <2>1 DEF Phase
  <2>3. Running = {} /\ Contract!Due(Succeeded) \subseteq Succeeded
    BY <2>1 DEF Compensation, ActivatedAll, Running, Succeeded, IsActive
  <2>4. Contract!Close
    BY <1>1, <2>2, <2>3 DEF Contract!Close, Contract!Enter, Running, Succeeded
  <2> QED BY <2>4
<1>7. UNCHANGED <<ticket, engine>> => Phase' = Phase
  BY DEF Phase
<1>8. ArchiveInstance(w) /\ engine # "active" => UNCHANGED <<ticket, engine>>
  BY DEF ArchiveInstance, tables
<1>9. Abort(w) => Rollback \/ UNCHANGED <<ticket, engine>>
  BY DEF Abort, tables
<1>10. Finalize(w) => TryFinalize \/ UNCHANGED <<ticket, engine>>
  BY DEF Finalize, tables
<1> QED BY <1>2, <1>3, <1>4, <1>5, <1>6, <1>7, <1>8, <1>9, <1>10

\* The process comes to its end: once END is written the engine's own steps
\* are not seen
LEMMA EndKeepsContract ==
    ASSUME Protocol, EndIsWritten, ReachEnd \/ EventNotify \/ EndInstance
    PROVE  [Contract!ContractNext]_(Contract!contract)
<1>1. UNCHANGED status /\ Running' = Running /\ Succeeded' = Succeeded
  BY DEF ReachEnd, EventNotify, EndInstance, EndProcess, tables, Running, Succeeded
<1>2. CASE Phase' = Phase
  BY <1>1, <1>2, ContractStutter
<1>3. CASE Phase' # Phase
  <2>1. EventNotify
    BY <1>3 DEF ReachEnd, EndInstance, EndIsWritten, tables, Phase
  <2>2. Phase' = "ended" /\ Phase # "ended"
    BY <1>3, <2>1 DEF EventNotify, EndProcess, Phase
  <2>3. Contract!End
    BY <1>1, <2>2 DEF Contract!End, Contract!Enter
  <2> QED BY <2>3 DEF Contract!ContractNext
<1> QED BY <1>2, <1>3

\* Every other step of a goroutine is a transaction on a task or is not seen
LEMMA StepKeepsContract ==
    ASSUME OneJob, ~UnreadDefinition, TypeOK, EndIsWritten, Protocol, Compensation,
           [Next]_vars
    PROVE  [Contract!ContractNext]_(Contract!contract)
<1>1. Protocol'
  BY ProtocolStays
<1>2. CASE UNCHANGED vars
  BY <1>2, ContractStutter DEF vars, Phase, Running, Succeeded
<1>3. ASSUME NEW w \in Workers,
             Revoke(w) \/ ArchiveInstance(w) \/ Abort(w) \/ Finalize(w)
      PROVE  [Contract!ContractNext]_(Contract!contract)
  BY <1>1, <1>3, PhaseSteps
<1>4. ASSUME NEW n \in Nodes, Task(n) PROVE [Contract!ContractNext]_(Contract!contract)
  <2>1. TaskTransaction(n) /\ UNCHANGED engine
    BY <1>4 DEF Task, TaskTransaction, EventAutomation, StartTask, RetryTask, OtherTaskStep,
                RecordResult, TaskStep
  <2> QED BY <2>1, TaskTransactionKinds, TasksKeepContract DEF Compensation
<1>5. ASSUME NEW w \in Workers,
             \/ ListStale(w) \/ Build(w) \/ BuildFails(w) \/ EventRevoke(w) \/ Crash(w)
             \/ \E n \in Nodes : CompleteAttempt(w, n) \/ CheckTerminable(w, n)
      PROVE  [Contract!ContractNext]_(Contract!contract)
  <2>1. UNCHANGED <<ticket, status, engine>>
    BY <1>5 DEF ListStale, Build, BuildFails, EventRevoke, Crash, CompleteAttempt,
                CheckTerminable, tables
  <2> QED BY <2>1, ContractStutter DEF Phase, Running, Succeeded
<1>6. ASSUME NEW w \in Workers, CreateTarget(w) \/ Terminate(w)
      PROVE  [Contract!ContractNext]_(Contract!contract)
  <2>1. UNCHANGED engine
    BY <1>6 DEF CreateTarget, Terminate
  <2>2. PICK n \in Nodes : TaskTransaction(n) \/ UNCHANGED tables
    BY <1>6 DEF CreateTarget, Terminate, TaskTransaction, Protocol, StepsFit, Stays, TypeOK, Jobs
  <2>3. CASE TaskTransaction(n)
    BY <2>1, <2>3, TaskTransactionKinds, TasksKeepContract DEF Compensation
  <2>4. CASE UNCHANGED tables
    BY <2>1, <2>4, ContractStutter DEF tables, Phase, Running, Succeeded
  <2> QED BY <2>2, <2>3, <2>4
<1>7. ASSUME NEW w \in Workers, Apply(w)
      PROVE  [Contract!ContractNext]_(Contract!contract)
  <2>1. /\ UNCHANGED <<ticket, engine>>
        /\ \A n \in Nodes :
             /\ status[n] \notin Pending => status'[n] = status[n]
             /\ status[n] \in Pending => status'[n] \in Pending \cup {"Cancelled"}
    BY <1>7 DEF Apply, ActivateCompensations, Pending, tables
  <2>2. Running' = Running /\ Succeeded' = Succeeded
    BY <2>1 DEF Running, Succeeded, IsActive, Pending
  <2> QED BY <2>1, <2>2, ContractStutter DEF Phase
<1>8. CASE ReachEnd \/ EventNotify \/ EndInstance
  BY <1>8, EndKeepsContract
<1> QED BY <1>2, <1>3, <1>4, <1>5, <1>6, <1>7, <1>8 DEF Next, Step, Call

-----------------------------------------------------------------------------
(***************************************************************************)
(* The theorems                                                            *)
(***************************************************************************)

\* Every variable keeps its type, and each goroutine may rely on what Protocol
\* says of the two stores (service.go, recovery_job.go).
THEOREM WithdrawalInvariant ==
    ASSUME OneJob
    PROVE  Spec => [](TypeOK /\ EndIsWritten /\ Protocol)
BY ProtocolHolds

\* With one recovery job no ticket goes back to PROCESS once the engine has
\* archived its instance, whoever died before (dao/withdrawal.go, Rollback).
THEOREM NoWayBackAfterArchive ==
    ASSUME OneJob
    PROVE  Spec => RollbackOnlyBeforeArchive
<1>1. TypeOK /\ EndIsWritten /\ Protocol /\ [Next]_vars
        => [ticket = "WITHDRAWING" /\ ticket' = "PROCESS" => engine = "active"]_vars
  <2> SUFFICES ASSUME TypeOK, EndIsWritten, Protocol, [Next]_vars,
                      ticket = "WITHDRAWING", ticket' = "PROCESS"
               PROVE  engine = "active"
    OBVIOUS
  <2>1. Protocol'
    BY ProtocolStays
  <2>2. engine' = "active"
    BY <2>1 DEF Protocol, StoresAgree, Phase
  <2>3. engine' \in {engine, "revoked", "ended"}
    BY DEF Next, vars, Step, Call, Task, Build, BuildFails, EventRevoke, ArchiveInstance,
           Abort, CreateTarget, Apply, Finalize, Terminate, Crash, Revoke, ListStale,
           CompleteAttempt, CheckTerminable, EventAutomation, ReachEnd, EventNotify,
           EndInstance, StartTask, RecordResult, RetryTask, OtherTaskStep, TaskStep
  <2> QED BY <2>2, <2>3
<1> QED BY <1>1, ProtocolHolds, PTL DEF Spec, RollbackOnlyBeforeArchive

\* With one recovery job and definitions that can be read, a withdrawn ticket
\* leaves no successful action whose compensation has not succeeded
\* (TryFinalize, ActivateCompensations).
THEOREM WithdrawnMeansCompensated ==
    ASSUME OneJob, ~UnreadDefinition
    PROVE  Spec => []WithdrawnIsCompensated
<1>1. Compensation => WithdrawnIsCompensated
  BY DEF Compensation, WithdrawnAtRest, ActivatedAll, Activated, WithdrawnIsCompensated,
         Succeeded
<1> QED BY <1>1, CompensationHolds, PTL

\* Under the same assumptions the withdrawal implements its contract: every
\* step of the requests, the job, the consumers, the administrators, the engine
\* and the tasks is a step of WithdrawalContract or is not seen by it.
THEOREM WithdrawalImplementsContract ==
    ASSUME OneJob, ~UnreadDefinition
    PROVE  Spec => KeepsContract
<1>1. Init => Contract!ContractInit
  <2> SUFFICES ASSUME Init PROVE Contract!ContractInit
    OBVIOUS
  <2>1. /\ ticket = "PROCESS" /\ engine = "active"
        /\ \A n \in Nodes : status[n] = "Absent"
    BY DEF Init, TablesInit
  <2> QED BY <2>1 DEF Contract!ContractInit, Phase, IsActive
<1>2. TypeOK /\ EndIsWritten /\ Protocol /\ Compensation /\ [Next]_vars
        => [Contract!ContractNext]_(Contract!contract)
  BY StepKeepsContract
<1> QED BY <1>1, <1>2, CompensationHolds, PTL
        DEF Spec, KeepsContract, Contract!ContractSpec
=============================================================================
