------------------------ MODULE AutomationTaskProofs ------------------------
(***************************************************************************)
(* Proofs about AutomationTask, for every set of tasks and goroutines and  *)
(* every value of the bounds: IInv is an inductive invariant, the safety   *)
(* properties follow from it, and TaskTables is implemented. No cancel is  *)
(* forgotten and the automatic attempts are bounded, for any number of     *)
(* goroutines that retry and terminate.                                    *)
(*                                                                         *)
(* The actions fall into four groups, and the first lemmas say once for    *)
(* each group what it leaves of the invariant: steps that only move a      *)
(* goroutine, steps that move a task between inactive statuses, steps that *)
(* close an attempt, and steps of etask.                                   *)
(***************************************************************************)
EXTENDS AutomationTask, FiniteSetTheorems, TLAPS

\* The part of IInv that speaks of the tables and etask only
RowInv ==
    /\ Numbered
    /\ TablesAgree
    /\ ResultsAreEtasks
    /\ LiveExecutionsOwned
    /\ EtaskFollows
    /\ FrozenByWithdrawal

\* What no step takes back: rows stay, successes, closed attempts and etask's
\* verdicts do not change. It is why a goroutine may act on an old read.
Monotone ==
    \A t \in Tasks, n \in Nos :
        /\ status[t] = "Success" => status'[t] = "Success"
        /\ attempt[t][n] # "None" => attempt'[t][n] # "None"
        /\ IsTerminal(attempt[t][n]) => attempt'[t][n] = attempt[t][n]
        /\ execution[t][n] \in {"LIVE", "STOPPING"} \cup Results =>
              execution'[t][n] \in {"LIVE", "STOPPING"} \cup Results
        /\ execution[t][n] = "REJECTED" => execution'[t][n] = "REJECTED"

-----------------------------------------------------------------------------
\* A job in the work table is well formed.
LEMMA JobsTyped ==
    /\ Idle \in Jobs
    /\ \A s \in Steps, t \in Tasks, n \in 0..MaxAttempts : At(s, t, n) \in Jobs
BY ConstantsAssumption DEF Idle, At, Jobs, Steps, Replies

\* A monotone step of one goroutine keeps every other goroutine's local state
\* valid (work): only its own new job has to be checked.
LEMMA GoroutineStep ==
    ASSUME IInv, Monotone, NEW w \in Workers, NEW job \in Jobs,
           Goto(w, job), JobAgrees(job)'
    PROVE  GoroutinesAgree' /\ work' \in [Workers -> Jobs]
<1>1. work' \in [Workers -> Jobs] /\ work'[w] = job
  BY DEF IInv, TypeOK, Goto
<1>2. ASSUME NEW v \in Workers PROVE JobAgrees(work[v])'
  <2>1. CASE v = w
    BY <1>1, <2>1 DEF JobAgrees
  <2>2. CASE v # w
    <3>1. work'[v] = work[v] /\ JobAgrees(work[v]) /\ work[v] \in Jobs
      BY <2>2 DEF IInv, TypeOK, Goto, GoroutinesAgree
    <3> QED BY <3>1 DEF JobAgrees, Monotone, Jobs, IsTerminal, Nos
  <2> QED BY <2>1, <2>2
<1> QED BY <1>1, <1>2 DEF GoroutinesAgree

\* The same for a step that moves no goroutine.
LEMMA GoroutinesStay ==
    ASSUME IInv, Monotone, UNCHANGED work
    PROVE  GoroutinesAgree'
<1> SUFFICES ASSUME NEW v \in Workers PROVE JobAgrees(work[v])'
  BY DEF GoroutinesAgree
<1>1. work'[v] = work[v] /\ JobAgrees(work[v]) /\ work[v] \in Jobs
  BY DEF IInv, TypeOK, GoroutinesAgree
<1> QED BY <1>1 DEF JobAgrees, Monotone, Jobs, IsTerminal, Nos

-----------------------------------------------------------------------------
\* Steps that touch neither the tables nor etask (the unlocked reads, lost
\* RPCs, crashes, lost events) keep the invariant if the goroutine's new job
\* is one it may act on.
LEMMA LocalStep ==
    ASSUME IInv, UNCHANGED <<rows, execution>>, topic' \subseteq topic,
           faults' \in 0..MaxFaults,
           NEW w \in Workers, NEW job \in Jobs, Goto(w, job), JobAgrees(job)
    PROVE  IInv' /\ Monotone
<1>1. Monotone
  BY DEF Monotone, rows
<1>2. JobAgrees(job)'
  BY DEF JobAgrees, rows
<1>3. GoroutinesAgree' /\ work' \in [Workers -> Jobs]
  BY <1>1, <1>2, GoroutineStep
<1>4. TypeOK'
  BY <1>3 DEF IInv, TypeOK, rows
<1>5. RowInv'
  BY DEF IInv, RowInv, Numbered, TablesAgree, ResultsAreEtasks,
         LiveExecutionsOwned, EtaskFollows, FrozenByWithdrawal, rows
<1> QED BY <1>1, <1>3, <1>4, <1>5 DEF IInv, RowInv

\* Block, PrepareRetry and the cancellation of pending tasks move tasks
\* between statuses that own no open attempt and no result.
LEMMA InactiveStep ==
    ASSUME IInv, status' \in [Tasks -> TaskStatus],
           \A t \in Tasks :
              \/ status'[t] = status[t]
              \/ /\ ~IsActive(status[t]) /\ status[t] # "Success"
                 /\ ~IsActive(status'[t])
                 /\ status'[t] # "Success",
           UNCHANGED <<ticket, current, attempt, bound, execution, topic>>
    PROVE  RowInv' /\ Monotone
<1>1. Numbered' /\ LiveExecutionsOwned' /\ EtaskFollows' /\ Monotone
  BY DEF IInv, Numbered, LiveExecutionsOwned, EtaskFollows, Monotone
<1>2. TablesAgree'
  BY DEF IInv, TablesAgree, IsActive
<1>3. ResultsAreEtasks'
  BY DEF IInv, ResultsAreEtasks
<1>4. FrozenByWithdrawal'
  BY DEF IInv, FrozenByWithdrawal
<1> QED BY <1>1, <1>2, <1>3, <1>4 DEF RowInv

\* Complete, RejectSubmission and TerminateTask close an open attempt and
\* take its task out of the active statuses.
LEMMA CloseStep ==
    ASSUME IInv, NEW t \in Tasks, NEW n \in Nos, IsOpen(attempt[t][n]),
           NEW r \in Results, NEW s \in TaskStatus,
           ~IsActive(s), s = "Success" => r = "SUCCESS",
           r = "SUCCESS" => execution[t][n] = "SUCCESS",
           r = "FAILED" => execution[t][n] \in {"FAILED", "REJECTED"},
           attempt' = [attempt EXCEPT ![t][n] = r],
           status' = [status EXCEPT ![t] = s],
           UNCHANGED <<ticket, current, bound, execution, topic>>
    PROVE  /\ RowInv' /\ Monotone
           /\ attempt' \in [Tasks -> [Nos -> AttemptStatus]]
           /\ status' \in [Tasks -> TaskStatus]
<1>1. /\ current[t] = n /\ current[t] > 0
      /\ IsActive(status[t])
      /\ r \in AttemptStatus /\ r # "None" /\ IsTerminal(r) /\ ~IsOpen(r)
  BY DEF IInv, TypeOK, TablesAgree, IsOpen, Results, AttemptStatus,
         IsTerminal, Nos
<1>2. /\ attempt' \in [Tasks -> [Nos -> AttemptStatus]]
      /\ status' \in [Tasks -> TaskStatus]
      /\ attempt'[t][n] = r /\ status'[t] = s
      /\ \A u \in Tasks, m \in Nos :
            u # t \/ m # n => attempt'[u][m] = attempt[u][m]
      /\ \A u \in Tasks : u # t => status'[u] = status[u]
  BY <1>1 DEF IInv, TypeOK
<1>3. Numbered' /\ Monotone
  BY <1>1, <1>2 DEF IInv, Numbered, Monotone, IsTerminal, IsOpen, IsActive
<1>4. TablesAgree'
  <2> SUFFICES ASSUME NEW u \in Tasks
               PROVE  /\ IsActive(status'[u]) <=>
                            current[u] > 0 /\ IsOpen(attempt'[u][current[u]])
                      /\ status'[u] = "Running" <=>
                            current[u] > 0 /\ attempt'[u][current[u]] = "RUNNING"
                      /\ \A m \in Nos :
                            m # current[u] => ~IsOpen(attempt'[u][m])
    BY DEF TablesAgree
  <2>1. CASE u = t
    BY <1>1, <1>2, <2>1 DEF IInv, TablesAgree, IsActive, IsOpen
  <2>2. CASE u # t
    <3>1. current[u] > 0 => current[u] \in Nos
      BY DEF IInv, TypeOK, Nos
    <3> QED BY <1>2, <2>2, <3>1 DEF IInv, TablesAgree
  <2> QED BY <2>1, <2>2
<1>5. ResultsAreEtasks'
  <2>1. \A u \in Tasks : current[u] > 0 => current[u] \in Nos
    BY DEF IInv, TypeOK, Nos
  <2> QED BY <1>1, <1>2, <2>1 DEF IInv, ResultsAreEtasks
<1>6. LiveExecutionsOwned' /\ EtaskFollows'
  BY <1>1, <1>2 DEF IInv, LiveExecutionsOwned, EtaskFollows, IsOpen, Results
<1>7. FrozenByWithdrawal'
  BY <1>1, <1>2 DEF IInv, FrozenByWithdrawal
<1> QED BY <1>2, <1>3, <1>4, <1>5, <1>6, <1>7 DEF RowInv

\* A step of etask on a created request keeps the tables and the relation
\* between them and etask.
LEMMA EtaskStep ==
    ASSUME IInv, NEW t \in Tasks, NEW n \in Nos, NEW e \in Executions,
           execution' = [execution EXCEPT ![t][n] = e],
           UNCHANGED rows,
           topic' \subseteq topic \cup {<<t, n>>},
           <<t, n>> \in topic' => e \in Results,
           attempt[t][n] # "None",
           execution[t][n] \in {"LIVE", "STOPPING"} \cup Results =>
              e \in {"STOPPING", execution[t][n]} \cup Results,
           execution[t][n] \in Results \cup {"REJECTED"} => e = execution[t][n],
           execution[t][n] = "LIVE" /\ e = "STOPPING" =>
              attempt[t][n] = "CANCELLED",
           execution[t][n] = "NONE" =>
              e \in {"NONE", "LIVE", "REJECTED"}
              \/ (e = "INTENT" /\ attempt[t][n] = "CANCELLED"),
           execution[t][n] = "INTENT" => e \in {"INTENT", "CANCELLED"}
    PROVE  /\ RowInv' /\ Monotone
           /\ execution' \in [Tasks -> [Nos -> Executions]]
           /\ topic' \subseteq Tasks \X Nos
<1>1. /\ execution' \in [Tasks -> [Nos -> Executions]]
      /\ execution'[t][n] = e
      /\ \A u \in Tasks, m \in Nos :
            u # t \/ m # n => execution'[u][m] = execution[u][m]
      /\ execution[t][n] \in Executions
      /\ attempt[t][n] \in AttemptStatus
      /\ topic' \subseteq Tasks \X Nos
  BY DEF IInv, TypeOK
<1>2. Numbered' /\ TablesAgree' /\ FrozenByWithdrawal'
  BY DEF IInv, Numbered, TablesAgree, FrozenByWithdrawal, rows
<1>3. Monotone
  BY <1>1 DEF Monotone, rows, Results
<1>4. ResultsAreEtasks'
  BY <1>1 DEF IInv, ResultsAreEtasks, rows, Results
<1>5. LiveExecutionsOwned'
  BY <1>1 DEF IInv, LiveExecutionsOwned, ResultsAreEtasks, EtaskFollows, rows,
              Results, IsOpen, Executions, AttemptStatus
<1>6. EtaskFollows'
  <2>1. attempt[t][n] = "RUNNING" => e \notin {"NONE", "INTENT", "REJECTED"}
    BY <1>1 DEF IInv, EtaskFollows, Results, Executions
  <2>2. e \in {"INTENT", "STOPPING"} => attempt[t][n] = "CANCELLED"
    BY <1>1 DEF IInv, EtaskFollows, Results, Executions
  <2>3. \A u \in Tasks, m \in Nos :
           <<u, m>> \in topic' => execution'[u][m] \in Results
    BY <1>1 DEF IInv, EtaskFollows
  <2> SUFFICES ASSUME NEW u \in Tasks, NEW m \in Nos
               PROVE  /\ attempt[u][m] = "None" => execution'[u][m] = "NONE"
                      /\ attempt[u][m] = "RUNNING" => execution'[u][m] \notin
                            {"NONE", "INTENT", "REJECTED"}
                      /\ execution'[u][m] \in {"INTENT", "STOPPING"} =>
                            attempt[u][m] = "CANCELLED"
    BY <2>3 DEF EtaskFollows, rows
  <2>4. CASE u = t /\ m = n
    BY <1>1, <2>1, <2>2, <2>4
  <2>5. CASE u # t \/ m # n
    <3>1. execution'[u][m] = execution[u][m]
      BY <1>1, <2>5
    <3>2. EtaskFollows
      BY DEF IInv
    <3> QED BY <3>1, <3>2 DEF EtaskFollows
  <2> QED BY <2>4, <2>5
<1> QED BY <1>1, <1>2, <1>3, <1>4, <1>5, <1>6 DEF RowInv
-----------------------------------------------------------------------------
\* A goroutine in the middle of a call holds a task and what JobAgrees says.
LEMMA Holds ==
    ASSUME IInv, NEW w \in Workers, ~Stays(w, "idle")
    PROVE  work[w].task \in Tasks /\ JobAgrees(work[w]) /\ work[w] \in Jobs
BY DEF IInv, TypeOK, GoroutinesAgree, JobAgrees, Stays

\* The facts about Idle and the jobs that name only a task.
LEMMA PlainJobs ==
    ASSUME NEW t \in Tasks,
           NEW s \in {"listed", "begin", "rearm", "block", "terminate"}
    PROVE  /\ Idle \in Jobs /\ JobAgrees(Idle)
           /\ At(s, t, 0) \in Jobs /\ JobAgrees(At(s, t, 0))
<1>1. 0 \in 0..MaxAttempts /\ s \in Steps
  BY ConstantsAssumption DEF Steps
<1>2. Idle \in Jobs /\ At(s, t, 0) \in Jobs
  BY <1>1, JobsTyped
<1>3. JobAgrees(Idle)
  BY DEF JobAgrees, Idle
<1>4. JobAgrees(At(s, t, 0))
  BY DEF JobAgrees, At
<1> QED BY <1>2, <1>3, <1>4

\* A task that has a current attempt has its row.
LEMMA CurrentRow ==
    ASSUME IInv, NEW t \in Tasks, current[t] > 0
    PROVE  /\ current[t] \in Nos /\ current[t] \in 0..MaxAttempts
           /\ attempt[t][current[t]] \in AttemptStatus \ {"None"}
<1>1. current[t] \in 0..MaxAttempts
  BY DEF IInv, TypeOK
<1>2. current[t] \in Nos
  BY <1>1, ConstantsAssumption DEF Nos
<1>3. attempt[t][current[t]] \in AttemptStatus
  BY <1>2 DEF IInv, TypeOK
<1>4. attempt[t][current[t]] # "None"
  BY <1>1, <1>2, ConstantsAssumption DEF IInv, Numbered
<1> QED BY <1>1, <1>2, <1>3, <1>4

\* Only the current attempt can be open, and its task is then active.
LEMMA OpenIsCurrent ==
    ASSUME IInv, NEW t \in Tasks, NEW n \in Nos, IsOpen(attempt[t][n])
    PROVE  current[t] = n /\ IsActive(status[t])
<1>1. current[t] = n
  BY DEF IInv, TablesAgree
<1>2. n > 0
  BY DEF Nos
<1> QED BY <1>1, <1>2 DEF IInv, TablesAgree

\* StartTask resumes an open attempt or begins a new one; both are jobs the
\* goroutine may act on.
LEMMA StartDecisionSound ==
    ASSUME IInv, NEW t \in Tasks
    PROVE  StartDecision(t) \in Jobs /\ JobAgrees(StartDecision(t))
<1>1. CASE HasOpenAttempt(t)
  <2>1. /\ current[t] \in Nos /\ current[t] \in 0..MaxAttempts
        /\ attempt[t][current[t]] # "None"
    BY <1>1, CurrentRow DEF HasOpenAttempt
  <2>2. /\ At("dispatch", t, current[t]) \in Jobs
        /\ JobAgrees(At("dispatch", t, current[t]))
    BY <2>1, JobsTyped DEF Steps, JobAgrees, At
  <2> QED BY <1>1, <2>2, PlainJobs DEF StartDecision
<1>2. CASE ~HasOpenAttempt(t)
  BY <1>2, PlainJobs DEF StartDecision
<1> QED BY <1>1, <1>2

\* The unlocked reads at the head of StartTask, retry and TerminateTask.
LEMMA ReadsKeep ==
    ASSUME IInv, NEW w \in Workers, NEW t \in Tasks,
           \/ StartTask(w, t) \/ RecoverSubmitting(w, t) \/ ListFailed(w, t)
           \/ RetryTask(w, t) \/ TerminateTask(w, t)
    PROVE  IInv' /\ Monotone
<1>1. ASSUME NEW job \in Jobs, JobAgrees(job), Goto(w, job),
             UNCHANGED <<rows, execution, topic, faults>>
      PROVE  IInv' /\ Monotone
  <2>1. faults' \in 0..MaxFaults
    BY <1>1 DEF IInv, TypeOK
  <2> QED BY <1>1, <2>1, LocalStep
<1>2. StartDecision(t) \in Jobs /\ JobAgrees(StartDecision(t))
  BY StartDecisionSound
<1>3. CASE StartTask(w, t) \/ RecoverSubmitting(w, t)
  BY <1>1, <1>2, <1>3 DEF StartTask, RecoverSubmitting
<1>4. CASE ListFailed(w, t) \/ TerminateTask(w, t)
  <2>1. /\ At("listed", t, 0) \in Jobs /\ JobAgrees(At("listed", t, 0))
        /\ At("terminate", t, 0) \in Jobs /\ JobAgrees(At("terminate", t, 0))
    BY PlainJobs
  <2> QED BY <1>1, <1>4, <2>1 DEF ListFailed, TerminateTask
<1>5. CASE RetryTask(w, t)
  <2>1. CASE status[t] = "Cancelled" /\ current[t] > 0
    <3>1. /\ current[t] \in Nos /\ current[t] \in 0..MaxAttempts
          /\ attempt[t][current[t]] \in AttemptStatus \ {"None"}
      BY <2>1, CurrentRow
    <3>4. IsTerminal(attempt[t][current[t]])
      BY <2>1, <3>1 DEF IInv, TablesAgree, AttemptStatus, IsTerminal, IsOpen,
                        IsActive
    <3>2. /\ At("confirm", t, current[t]) \in Jobs
          /\ JobAgrees(At("confirm", t, current[t]))
      BY <3>1, <3>4, JobsTyped DEF Steps, JobAgrees, At
    <3>3. RetryDecision(t) = At("confirm", t, current[t])
      BY <2>1 DEF RetryDecision, CanRetry
    <3> QED BY <1>1, <1>5, <3>2, <3>3 DEF RetryTask
  <2>2. CASE ~(status[t] = "Cancelled" /\ current[t] > 0)
    <3>1. RetryDecision(t) \in Jobs /\ JobAgrees(RetryDecision(t))
      BY <1>2, <2>2, PlainJobs DEF RetryDecision
    <3> QED BY <1>1, <1>5, <3>1 DEF RetryTask
  <2> QED BY <2>1, <2>2
<1> QED BY <1>3, <1>4, <1>5

\* What the worker steps that change no table leave of the invariant.
LEMMA LocalStepsKeep ==
    ASSUME IInv, NEW w \in Workers,
           AutoRetryTask(w) \/ DispatchFails(w) \/ Crash(w)
    PROVE  IInv' /\ Monotone
<1>1. work[w].task \in Tasks
  BY Holds DEF AutoRetryTask, DispatchFails, SubmissionError, Crash, Stays
<1>2. Idle \in Jobs /\ JobAgrees(Idle)
  BY <1>1, PlainJobs
<1>3. faults' \in 0..MaxFaults
  BY ConstantsAssumption
  DEF IInv, TypeOK, AutoRetryTask, DispatchFails, SubmissionError, Crash, Fault
<1>4. /\ AutoRetryDecision(work[w].task) \in Jobs
      /\ JobAgrees(AutoRetryDecision(work[w].task))
  BY <1>1, <1>2, PlainJobs, StartDecisionSound DEF AutoRetryDecision
<1>5. CASE AutoRetryTask(w)
  BY <1>3, <1>4, <1>5, LocalStep DEF AutoRetryTask
<1>6. CASE DispatchFails(w) \/ Crash(w)
  BY <1>2, <1>3, <1>6, LocalStep DEF DispatchFails, SubmissionError, Crash
<1> QED BY <1>5, <1>6

\* Block, PrepareRetry: a task moves between inactive statuses.
LEMMA RestingStepsKeep ==
    ASSUME IInv, NEW w \in Workers,
           PrepareFails(w) \/ BlockTask(w) \/ PrepareRetry(w)
    PROVE  IInv' /\ Monotone
<1>1. PICK t \in Tasks : t = work[w].task
  BY Holds DEF PrepareFails, BlockTask, PrepareRetry, Stays
<1>2. /\ UNCHANGED <<ticket, current, attempt, bound, execution, topic>>
      /\ faults' \in 0..MaxFaults
  BY ConstantsAssumption
  DEF IInv, TypeOK, PrepareFails, BlockTask, PrepareRetry, Fault
<1>3. /\ status' \in [Tasks -> TaskStatus]
      /\ \A u \in Tasks :
            \/ status'[u] = status[u]
            \/ /\ ~IsActive(status[u]) /\ status[u] # "Success"
               /\ ~IsActive(status'[u])
               /\ status'[u] # "Success"
  <2>1. CASE PrepareFails(w) \/ BlockTask(w)
    BY <1>1, <2>1
    DEF IInv, TypeOK, PrepareFails, BlockTask, BlockRow, TaskStatus, IsActive
  <2>2. CASE PrepareRetry(w)
    BY <1>1, <2>2
    DEF IInv, TypeOK, PrepareRetry, CanRetry, TaskStatus, IsActive
  <2> QED BY <2>1, <2>2
<1>4. RowInv' /\ Monotone
  BY <1>2, <1>3, InactiveStep
<1>5. PICK job \in {Idle, At("begin", t, 0)} : Goto(w, job)
  BY <1>1 DEF PrepareFails, BlockTask, PrepareRetry
<1>6. job \in Jobs /\ JobAgrees(job)'
  <2>1. Idle \in Jobs /\ At("begin", t, 0) \in Jobs
    BY <1>1, PlainJobs
  <2>2. JobAgrees(Idle)' /\ JobAgrees(At("begin", t, 0))'
    BY <1>1 DEF JobAgrees, Idle, At
  <2> QED BY <2>1, <2>2
<1>7. GoroutinesAgree' /\ work' \in [Workers -> Jobs]
  BY <1>4, <1>5, <1>6, GoroutineStep
<1>8. TypeOK'
  BY <1>2, <1>3, <1>7 DEF IInv, TypeOK
<1> QED BY <1>4, <1>7, <1>8 DEF IInv, RowInv

\* Complete, from the consumer or from ReconcileTask, closes an attempt with
\* the result etask reports.
LEMMA CompleteKeeps ==
    ASSUME IInv, NEW t \in Tasks, NEW n \in Nos, execution[t][n] \in Results,
           Complete(t, n, execution[t][n]),
           UNCHANGED <<execution, topic, work, faults>>
    PROVE  IInv' /\ Monotone
<1> DEFINE r == execution[t][n]
           s == TaskResult(r)
<1>1. /\ s \in TaskStatus /\ ~IsActive(s)
      /\ s = "Success" => r = "SUCCESS"
  BY DEF TaskResult, Results, TaskStatus, IsActive
<1>2. current[t] = n /\ IsActive(status[t])
  BY OpenIsCurrent DEF Complete
<1>3. /\ IsOpen(attempt[t][n])
      /\ attempt' = [attempt EXCEPT ![t][n] = r]
      /\ status' = [status EXCEPT ![t] = s]
      /\ UNCHANGED <<ticket, current, bound, execution, topic>>
  BY <1>2 DEF Complete
<1>4. /\ RowInv' /\ Monotone
      /\ attempt' \in [Tasks -> [Nos -> AttemptStatus]]
      /\ status' \in [Tasks -> TaskStatus]
  BY <1>1, <1>3, CloseStep
<1>5. GoroutinesAgree'
  BY <1>4, GoroutinesStay
<1>6. TypeOK'
  BY <1>3, <1>4 DEF IInv, TypeOK
<1> QED BY <1>4, <1>5, <1>6 DEF IInv, RowInv

LEMMA ConsumeKeeps ==
    ASSUME IInv, NEW t \in Tasks, NEW n \in Nos, ConsumeResult(t, n)
    PROVE  IInv' /\ Monotone
<1>1. execution[t][n] \in Results
  BY DEF IInv, EtaskFollows, ConsumeResult
<1> QED BY <1>1, CompleteKeeps DEF ConsumeResult

LEMMA ReconcileKeeps ==
    ASSUME IInv, NEW w \in Workers, NEW t \in Tasks, ReconcileTask(w, t)
    PROVE  IInv' /\ Monotone
<1>1. current[t] > 0
  BY DEF IInv, TablesAgree, ReconcileTask
<1>2. current[t] \in Nos
  BY <1>1, CurrentRow
<1> QED BY <1>2, CompleteKeeps DEF ReconcileTask

\* etask refused the request: the attempt fails.
LEMMA RejectKeeps ==
    ASSUME IInv, NEW w \in Workers, RejectSubmission(w)
    PROVE  IInv' /\ Monotone
<1> DEFINE t == work[w].task
           n == work[w].no
<1>1. /\ t \in Tasks /\ n \in Nos /\ attempt[t][n] # "None"
      /\ execution[t][n] = "REJECTED" \/ IsTerminal(attempt[t][n])
  BY Holds DEF RejectSubmission, Stays, JobAgrees
<1>2. /\ Goto(w, Idle) /\ Idle \in Jobs /\ JobAgrees(Idle) /\ JobAgrees(Idle)'
      /\ UNCHANGED <<ticket, current, bound, execution, topic, faults>>
  BY JobsTyped DEF RejectSubmission, JobAgrees, Idle
<1>3. CASE IsTerminal(attempt[t][n])
  <2>1. UNCHANGED <<rows, execution, topic, faults>>
    BY <1>2, <1>3 DEF RejectSubmission, rows
  <2>2. faults' \in 0..MaxFaults
    BY <2>1 DEF IInv, TypeOK
  <2> QED BY <1>2, <2>1, <2>2, LocalStep
<1>4. CASE ~IsTerminal(attempt[t][n])
  <2>1. IsOpen(attempt[t][n]) /\ execution[t][n] = "REJECTED"
    BY <1>1, <1>4 DEF IInv, TypeOK, AttemptStatus, IsTerminal, IsOpen
  <2>2. current[t] = n /\ IsActive(status[t])
    BY <1>1, <2>1, OpenIsCurrent
  <2>3. status[t] = "Submitting"
    <3>1. attempt[t][n] # "RUNNING"
      BY <1>1, <2>1 DEF IInv, EtaskFollows
    <3> QED BY <1>1, <2>2, <3>1 DEF IInv, TablesAgree, IsActive, Nos
  <2>4. /\ attempt' = [attempt EXCEPT ![t][n] = "FAILED"]
        /\ status' = [status EXCEPT ![t] = "Blocked"]
    BY <1>4, <2>2, <2>3 DEF RejectSubmission
  <2>5. /\ "FAILED" \in Results /\ "Blocked" \in TaskStatus
        /\ ~IsActive("Blocked")
    BY DEF Results, TaskStatus, IsActive
  <2>6. /\ RowInv' /\ Monotone
        /\ attempt' \in [Tasks -> [Nos -> AttemptStatus]]
        /\ status' \in [Tasks -> TaskStatus]
    BY <1>1, <1>2, <2>1, <2>4, <2>5, CloseStep
  <2>7. GoroutinesAgree' /\ work' \in [Workers -> Jobs]
    BY <1>2, <2>6, GoroutineStep
  <2>8. TypeOK'
    BY <1>2, <2>6, <2>7 DEF IInv, TypeOK
  <2> QED BY <2>6, <2>7, <2>8 DEF IInv, RowInv
<1> QED BY <1>3, <1>4

-----------------------------------------------------------------------------
\* A step of etask made by a goroutine's RPC: with EtaskStep's conclusion only
\* the goroutine's new job is left to check.
LEMMA RpcStep ==
    ASSUME IInv, RowInv', Monotone, UNCHANGED rows,
           execution' \in [Tasks -> [Nos -> Executions]],
           topic' \subseteq Tasks \X Nos,
           faults' \in 0..MaxFaults,
           NEW w \in Workers, NEW job \in Jobs, Goto(w, job), JobAgrees(job)'
    PROVE  IInv' /\ Monotone
<1>1. GoroutinesAgree' /\ work' \in [Workers -> Jobs]
  BY GoroutineStep
<1>2. TypeOK'
  BY <1>1 DEF IInv, TypeOK, rows
<1> QED BY <1>1, <1>2 DEF IInv, RowInv

\* The Dispatch RPC.
LEMMA DispatchKeeps ==
    ASSUME IInv, NEW w \in Workers, Dispatch(w)
    PROVE  IInv' /\ Monotone
<1>1. PICK t \in Tasks, n \in Nos :
         t = work[w].task /\ n = work[w].no /\ attempt[t][n] # "None"
  BY Holds DEF Dispatch, Stays, JobAgrees
<1>2. PICK e \in Dispatched(execution[t][n]) :
         /\ execution' = [execution EXCEPT ![t][n] = e]
         /\ Announce(t, n, e)
         /\ \/ /\ Goto(w, [At("report", t, n) EXCEPT !.reply = Answer(e)])
               /\ UNCHANGED faults
            \/ Fault /\ Goto(w, Idle)
  BY <1>1 DEF Dispatch, SubmissionError
<1>3. UNCHANGED rows /\ faults' \in 0..MaxFaults
  BY <1>2, ConstantsAssumption DEF Dispatch, SubmissionError, IInv, TypeOK, Fault
<1>4. execution[t][n] \in Executions
  BY DEF IInv, TypeOK
<1>5. /\ e \in Executions \ {"NONE"}
      /\ execution[t][n] = "NONE" => e \in {"LIVE", "REJECTED"}
      /\ execution[t][n] = "INTENT" => e \in {"INTENT", "CANCELLED"}
      /\ execution[t][n] \notin {"NONE", "INTENT"} => e = execution[t][n]
  BY <1>4 DEF Dispatched, Executions
<1>6. /\ topic' \subseteq topic \cup {<<t, n>>}
      /\ <<t, n>> \in topic' => e \in Results
  BY <1>2, <1>5 DEF Announce, IInv, EtaskFollows, Results
<1>7. /\ RowInv' /\ Monotone
      /\ execution' \in [Tasks -> [Nos -> Executions]]
      /\ topic' \subseteq Tasks \X Nos
  <2>1. /\ e \in Executions
        /\ execution[t][n] \in {"LIVE", "STOPPING"} \cup Results =>
              e \in {"STOPPING", execution[t][n]} \cup Results
        /\ execution[t][n] \in Results \cup {"REJECTED"} =>
              e = execution[t][n]
        /\ execution[t][n] = "LIVE" /\ e = "STOPPING" =>
              attempt[t][n] = "CANCELLED"
        /\ execution[t][n] = "NONE" =>
              e \in {"NONE", "LIVE", "REJECTED"}
              \/ (e = "INTENT" /\ attempt[t][n] = "CANCELLED")
        /\ execution[t][n] = "INTENT" => e \in {"INTENT", "CANCELLED"}
    BY <1>5 DEF Results
  <2>2. execution' = [execution EXCEPT ![t][n] = e]
    BY <1>2
  <2>3. attempt[t][n] # "None"
    BY <1>1
  <2>4. UNCHANGED rows
    BY <1>3
  <2> QED BY <1>6, <2>1, <2>2, <2>3, <2>4, EtaskStep
<1>8. execution'[t][n] = e /\ attempt' = attempt
  BY <1>2, <1>3 DEF IInv, TypeOK, rows
<1>9. CASE Goto(w, Idle)
  <2>1. Idle \in Jobs /\ JobAgrees(Idle)'
    BY JobsTyped DEF JobAgrees, Idle
  <2> QED BY <1>3, <1>7, <1>9, <2>1, RpcStep
<1>10. CASE Goto(w, [At("report", t, n) EXCEPT !.reply = Answer(e)])
  <2>1. [At("report", t, n) EXCEPT !.reply = Answer(e)] =
           [step |-> "report", task |-> t, no |-> n, reply |-> Answer(e)]
    BY DEF At
  <2>2. PICK job \in Jobs :
           job = [step |-> "report", task |-> t, no |-> n, reply |-> Answer(e)]
    <3>1. /\ "report" \in Steps /\ t \in Tasks \cup {NoTask}
          /\ Answer(e) \in Replies
      BY DEF Steps, Answer, Replies
    <3>2. n \in 0..MaxAttempts
      BY ConstantsAssumption DEF Nos
    <3> QED BY <3>1, <3>2, Zenon DEF Jobs
  <2>3. Answer(e) = "accepted" => execution'[t][n] \in {"LIVE", "STOPPING"} \cup Results
    BY <1>5, <1>8 DEF Answer, Executions, Results
  <2>4. Answer(e) = "rejected" =>
           execution'[t][n] = "REJECTED" \/ IsTerminal(attempt'[t][n])
    <3>1. Answer(e) = "rejected" => execution'[t][n] \in {"INTENT", "REJECTED"}
      BY <1>8 DEF Answer
    <3>2. execution'[t][n] = "INTENT" => attempt'[t][n] = "CANCELLED"
      BY <1>7 DEF RowInv, EtaskFollows
    <3> QED BY <3>1, <3>2 DEF IsTerminal
  <2>5. JobAgrees(job)'
    <3>1. /\ job.step = "report" /\ job.task = t /\ job.no = n
          /\ job.reply = Answer(e)
      BY <2>2
    <3>2. attempt'[t][n] # "None"
      BY <1>1, <1>8
    <3>3. t \in Tasks /\ n \in Nos
      OBVIOUS
    <3> QED BY <2>3, <2>4, <3>1, <3>2, <3>3, Zenon DEF JobAgrees
  <2>6. Goto(w, job)
    BY <1>10, <2>1, <2>2
  <2> QED BY <1>3, <1>7, <2>2, <2>5, <2>6, RpcStep
<1> QED BY <1>2, <1>9, <1>10

\* The TerminateExecution RPC: its attempt is closed, so a request etask does
\* not know, or still runs, can only belong to a cancelled attempt.
LEMMA TerminationKeeps ==
    ASSUME IInv, NEW w \in Workers, ConfirmTerminated(w) \/ StopExecution(w)
    PROVE  IInv' /\ Monotone
<1>1. PICK t \in Tasks, n \in Nos :
         t = work[w].task /\ n = work[w].no /\ IsTerminal(attempt[t][n])
  BY Holds DEF ConfirmTerminated, StopExecution, Stays, JobAgrees
<1>2. PICK job \in {Idle, At("rearm", t, 0)} : Goto(w, job)
  BY <1>1 DEF ConfirmTerminated, StopExecution, TerminateExecution
<1>3. /\ execution' = [execution EXCEPT ![t][n] = Terminated(execution[t][n])]
      /\ UNCHANGED <<rows, topic>>
      /\ faults' \in 0..MaxFaults
  BY <1>1, ConstantsAssumption
  DEF ConfirmTerminated, StopExecution, TerminateExecution, IInv, TypeOK, Fault
<1>4. job \in Jobs /\ JobAgrees(job)'
  <2>1. Idle \in Jobs /\ At("rearm", t, 0) \in Jobs
    BY PlainJobs
  <2>2. JobAgrees(Idle)' /\ JobAgrees(At("rearm", t, 0))'
    BY DEF JobAgrees, Idle, At
  <2> QED BY <2>1, <2>2
<1>5. /\ RowInv' /\ Monotone
      /\ execution' \in [Tasks -> [Nos -> Executions]]
      /\ topic' \subseteq Tasks \X Nos
  <2> DEFINE x == execution[t][n]
             e == Terminated(x)
  <2>1. x \in Executions /\ attempt[t][n] # "None"
    BY <1>1 DEF IInv, TypeOK, IsTerminal
  <2>2. x \in {"NONE", "LIVE"} => attempt[t][n] = "CANCELLED"
    BY <1>1 DEF IInv, ResultsAreEtasks, LiveExecutionsOwned, IsTerminal, IsOpen
  <2>3. /\ e \in Executions
        /\ x \in {"LIVE", "STOPPING"} \cup Results =>
              e \in {"STOPPING", x} \cup Results
        /\ x \in Results \cup {"REJECTED"} => e = x
        /\ x = "LIVE" /\ e = "STOPPING" => attempt[t][n] = "CANCELLED"
        /\ x = "NONE" => e = "INTENT" /\ attempt[t][n] = "CANCELLED"
        /\ x = "INTENT" => e \in {"INTENT", "CANCELLED"}
    BY <2>1, <2>2 DEF Terminated, Executions, Results
  <2>4. /\ topic' \subseteq topic \cup {<<t, n>>}
        /\ <<t, n>> \in topic' => e \in Results
    BY <1>3, <2>3 DEF IInv, EtaskFollows
  <2> HIDE DEF e
  <2> QED BY <1>3, <2>1, <2>3, <2>4, EtaskStep DEF e
<1> QED BY <1>2, <1>3, <1>4, <1>5, RpcStep

\* etask finishes an execution.
LEMMA ExecuteKeeps ==
    ASSUME IInv, NEW t \in Tasks, NEW n \in Nos, Execute(t, n)
    PROVE  IInv' /\ Monotone
<1>1. PICK e \in Results : execution' = [execution EXCEPT ![t][n] = e]
  BY DEF Execute
<1>2. /\ UNCHANGED <<rows, work, faults>>
      /\ topic' = topic \cup {<<t, n>>}
      /\ execution[t][n] \in {"LIVE", "STOPPING"}
  BY DEF Execute
<1>3. attempt[t][n] # "None" /\ e \in Executions
  BY <1>2 DEF IInv, EtaskFollows, Results, Executions
<1>4. /\ RowInv' /\ Monotone
      /\ execution' \in [Tasks -> [Nos -> Executions]]
      /\ topic' \subseteq Tasks \X Nos
  BY <1>1, <1>2, <1>3, EtaskStep DEF Results
<1>5. GoroutinesAgree'
  BY <1>2, <1>4, GoroutinesStay
<1>6. TypeOK'
  BY <1>2, <1>4 DEF IInv, TypeOK, rows
<1> QED BY <1>4, <1>5, <1>6 DEF IInv, RowInv

-----------------------------------------------------------------------------
\* Begin creates the next attempt under the ticket's lock, or hands back the
\* open one, or refuses.
LEMMA BeginKeeps ==
    ASSUME IInv, NEW w \in Workers, BeginAttempt(w)
    PROVE  IInv' /\ Monotone
<1>1. PICK t \in Tasks : t = work[w].task
  BY Holds DEF BeginAttempt, Stays
<1>2. UNCHANGED <<execution, topic, faults>> /\ faults' \in 0..MaxFaults
  BY DEF BeginAttempt, IInv, TypeOK
<1>3. ASSUME NEW job \in {Idle, At("dispatch", t, current[t])}, Goto(w, job),
             job # Idle => HasOpenAttempt(t), UNCHANGED rows
      PROVE  IInv' /\ Monotone
  <2>1. CASE job = Idle
    <3>1. job \in Jobs /\ JobAgrees(job)
      BY <1>1, <2>1, PlainJobs
    <3> QED BY <1>2, <1>3, <3>1, LocalStep
  <2>2. CASE job # Idle
    <3>2. /\ current[t] \in Nos /\ current[t] \in 0..MaxAttempts
          /\ attempt[t][current[t]] # "None"
      BY <1>3, <2>2, CurrentRow DEF HasOpenAttempt
    <3>3. job \in Jobs /\ JobAgrees(job)
      BY <1>3, <2>2, <3>2, JobsTyped DEF Steps, JobAgrees, At
    <3> QED BY <1>2, <1>3, <3>3, LocalStep
  <2> QED BY <2>1, <2>2
<1>4. CASE /\ HasOpenAttempt(t)
           /\ Goto(w, At("dispatch", t, current[t])) \/ Goto(w, Idle)
           /\ UNCHANGED rows
  BY <1>3, <1>4
<1>5. CASE Goto(w, Idle) /\ UNCHANGED rows
  BY <1>3, <1>5
<1>6. ASSUME status[t] = "Waiting", AllowsStart("PROCESS", ticket),
             NEW n \in Nos, IsNextNo(t, n),
             attempt' = [attempt EXCEPT ![t][n] = "SUBMITTING"],
             status' = [status EXCEPT ![t] = "Submitting"],
             current' = [current EXCEPT ![t] = n],
             Goto(w, At("dispatch", t, n)),
             UNCHANGED <<ticket, bound>>
      PROVE  IInv' /\ Monotone
  <2>1. /\ attempt[t][n] = "None" /\ execution[t][n] = "NONE"
        /\ \A m \in Nos : m < n <=> attempt[t][m] # "None"
    <3>1. \A m \in Nos : m < n <=> attempt[t][m] # "None"
      BY <1>6 DEF IsNextNo
    <3>2. attempt[t][n] = "None"
      BY <3>1 DEF Nos
    <3> QED BY <3>1, <3>2 DEF IInv, EtaskFollows
  <2>2. \A m \in Nos : ~IsOpen(attempt[t][m])
    <3>1. ~IsActive(status[t])
      BY <1>6 DEF IsActive
    <3> QED BY <3>1, OpenIsCurrent
  <2>3. /\ attempt' \in [Tasks -> [Nos -> AttemptStatus]]
        /\ status' \in [Tasks -> TaskStatus]
        /\ current' \in [Tasks -> 0..MaxAttempts]
        /\ n \in 0..MaxAttempts /\ n > 0
    BY <1>6, ConstantsAssumption
    DEF IInv, TypeOK, AttemptStatus, TaskStatus, Nos
  <2>4. /\ attempt'[t][n] = "SUBMITTING" /\ status'[t] = "Submitting"
        /\ current'[t] = n
        /\ \A u \in Tasks, m \in Nos :
              u # t \/ m # n => attempt'[u][m] = attempt[u][m]
        /\ \A u \in Tasks :
              u # t => status'[u] = status[u] /\ current'[u] = current[u]
    BY <1>6 DEF IInv, TypeOK
  <2>5. Monotone
    BY <1>2, <1>6, <2>1, <2>4 DEF Monotone, IsTerminal
  <2>6. Numbered'
    <3> SUFFICES ASSUME NEW u \in Tasks, NEW m \in Nos
                 PROVE  attempt'[u][m] # "None" <=> m <= current'[u]
      BY DEF Numbered
    <3>1. CASE u = t
      BY <2>1, <2>4, <3>1 DEF Nos
    <3>2. CASE u # t
      BY <2>4, <3>2 DEF IInv, Numbered
    <3> QED BY <3>1, <3>2
  <2>7. TablesAgree'
    <3> SUFFICES ASSUME NEW u \in Tasks
                 PROVE  /\ IsActive(status'[u]) <=>
                             current'[u] > 0 /\ IsOpen(attempt'[u][current'[u]])
                        /\ status'[u] = "Running" <=>
                             /\ current'[u] > 0
                             /\ attempt'[u][current'[u]] = "RUNNING"
                        /\ \A m \in Nos :
                             m # current'[u] => ~IsOpen(attempt'[u][m])
      BY DEF TablesAgree
    <3>1. CASE u = t
      BY <2>2, <2>3, <2>4, <3>1 DEF IsActive, IsOpen
    <3>2. CASE u # t
      <4>1. current[u] > 0 => current[u] \in Nos
        BY CurrentRow
      <4> QED BY <2>4, <3>2, <4>1 DEF IInv, TablesAgree
    <3> QED BY <3>1, <3>2
  <2>8. ResultsAreEtasks' /\ LiveExecutionsOwned' /\ EtaskFollows'
    <3>1. \A u \in Tasks : current[u] > 0 => current[u] \in Nos
      BY CurrentRow
    <3>2. ResultsAreEtasks'
      BY <1>2, <2>4, <3>1 DEF IInv, ResultsAreEtasks
    <3>3. LiveExecutionsOwned'
      BY <1>2, <2>1, <2>4 DEF IInv, LiveExecutionsOwned, IsOpen
    <3>4. EtaskFollows'
      <4> SUFFICES ASSUME NEW u \in Tasks, NEW m \in Nos
                   PROVE  /\ attempt'[u][m] = "None" => execution[u][m] = "NONE"
                          /\ attempt'[u][m] = "RUNNING" => execution[u][m] \notin
                                {"NONE", "INTENT", "REJECTED"}
                          /\ execution[u][m] \in {"INTENT", "STOPPING"} =>
                                attempt'[u][m] = "CANCELLED"
        BY <1>2 DEF IInv, EtaskFollows
      <4>1. CASE u = t /\ m = n
        BY <2>1, <2>4, <4>1
      <4>2. CASE u # t \/ m # n
        <5>1. attempt'[u][m] = attempt[u][m]
          BY <2>4, <4>2
        <5> QED BY <5>1 DEF IInv, EtaskFollows
      <4> QED BY <4>1, <4>2
    <3> QED BY <3>2, <3>3, <3>4
  <2>9. FrozenByWithdrawal'
    BY <1>6 DEF FrozenByWithdrawal, AllowsStart
  <2>10. PICK job \in Jobs : job = At("dispatch", t, n)
    BY <2>3, JobsTyped DEF Steps
  <2>11. JobAgrees(job)'
    BY <2>4, <2>10 DEF JobAgrees, At
  <2>12. GoroutinesAgree' /\ work' \in [Workers -> Jobs]
    BY <1>6, <2>5, <2>10, <2>11, GoroutineStep
  <2>13. TypeOK'
    BY <1>2, <1>6, <2>3, <2>12 DEF IInv, TypeOK
  <2> QED BY <2>5, <2>6, <2>7, <2>8, <2>9, <2>12, <2>13 DEF IInv
<1> QED BY <1>1, <1>4, <1>5, <1>6 DEF BeginAttempt

\* BindExecution records the execution id, and the attempt is running unless
\* its result came first.
LEMMA BindKeeps ==
    ASSUME IInv, NEW w \in Workers, BindExecution(w)
    PROVE  IInv' /\ Monotone
<1>1. PICK t \in Tasks, n \in Nos :
         /\ t = work[w].task /\ n = work[w].no /\ attempt[t][n] # "None"
         /\ execution[t][n] \in {"LIVE", "STOPPING"} \cup Results
  BY Holds DEF BindExecution, Stays, JobAgrees
<1>2. /\ UNCHANGED <<ticket, current, execution, topic, faults>>
      /\ bound' \in [Tasks -> SUBSET Nos] /\ faults' \in 0..MaxFaults
  BY <1>1 DEF BindExecution, IInv, TypeOK
<1>3. Goto(w, Idle) /\ Idle \in Jobs /\ JobAgrees(Idle)'
  BY JobsTyped DEF BindExecution, JobAgrees, Idle
<1>4. /\ RowInv' /\ Monotone
      /\ attempt' \in [Tasks -> [Nos -> AttemptStatus]]
      /\ status' \in [Tasks -> TaskStatus]
  <2>1. CASE IsTerminal(attempt[t][n])
    <3>1. UNCHANGED <<attempt, status>>
      BY <1>1, <2>1 DEF BindExecution
    <3> QED BY <1>2, <3>1
        DEF IInv, TypeOK, RowInv, Monotone, Numbered, TablesAgree, ResultsAreEtasks,
            LiveExecutionsOwned, EtaskFollows, FrozenByWithdrawal
  <2>2. CASE ~IsTerminal(attempt[t][n])
    <3>1. IsOpen(attempt[t][n])
      BY <1>1, <2>2 DEF IInv, TypeOK, AttemptStatus, IsTerminal, IsOpen
    <3>2. current[t] = n /\ IsActive(status[t]) /\ n > 0
      BY <3>1, OpenIsCurrent DEF Nos
    <3>3. /\ attempt' = [attempt EXCEPT ![t][n] = "RUNNING"]
          /\ status' = IF status[t] = "Submitting"
                         THEN [status EXCEPT ![t] = "Running"] ELSE status
      BY <1>1, <2>2, <3>2 DEF BindExecution
    <3>4. /\ attempt' \in [Tasks -> [Nos -> AttemptStatus]]
          /\ status' \in [Tasks -> TaskStatus]
          /\ attempt'[t][n] = "RUNNING" /\ status'[t] = "Running"
          /\ \A u \in Tasks, m \in Nos :
                u # t \/ m # n => attempt'[u][m] = attempt[u][m]
          /\ \A u \in Tasks : u # t => status'[u] = status[u]
      BY <3>2, <3>3 DEF IInv, TypeOK, AttemptStatus, TaskStatus, IsActive
    <3>5. Numbered' /\ Monotone
      BY <1>2, <2>2, <3>1, <3>2, <3>4
      DEF IInv, Numbered, Monotone, IsTerminal, IsOpen, IsActive
    <3>6. TablesAgree'
      <4> SUFFICES ASSUME NEW u \in Tasks
                   PROVE  /\ IsActive(status'[u]) <=>
                               current[u] > 0 /\ IsOpen(attempt'[u][current[u]])
                          /\ status'[u] = "Running" <=>
                               current[u] > 0 /\ attempt'[u][current[u]] = "RUNNING"
                          /\ \A m \in Nos :
                               m # current[u] => ~IsOpen(attempt'[u][m])
        BY <1>2 DEF TablesAgree
      <4>1. CASE u = t
        BY <3>2, <3>4, <4>1 DEF IInv, TablesAgree, IsActive, IsOpen
      <4>2. CASE u # t
        <5>1. current[u] > 0 => current[u] \in Nos
          BY CurrentRow
        <5> QED BY <3>4, <4>2, <5>1 DEF IInv, TablesAgree
      <4> QED BY <4>1, <4>2
    <3>7. ResultsAreEtasks'
      <4> SUFFICES ASSUME NEW u \in Tasks
                   PROVE  /\ status'[u] = "Success" => /\ current[u] > 0
                                /\ attempt'[u][current[u]] = "SUCCESS"
                          /\ \A m \in Nos :
                               /\ attempt'[u][m] = "SUCCESS" =>
                                     execution[u][m] = "SUCCESS"
                               /\ attempt'[u][m] = "FAILED" =>
                                     execution[u][m] \in {"FAILED", "REJECTED"}
        BY <1>2 DEF ResultsAreEtasks
      <4>1. \A m \in Nos :
               attempt'[u][m] = attempt[u][m] \/ attempt'[u][m] = "RUNNING"
        BY <3>4
      <4>2. CASE u = t
        BY <3>4, <4>1, <4>2 DEF IInv, ResultsAreEtasks
      <4>3. CASE u # t
        <5>1. current[u] > 0 => current[u] \in Nos
          BY CurrentRow
        <5> QED BY <3>4, <4>1, <4>3, <5>1 DEF IInv, ResultsAreEtasks
      <4> QED BY <4>2, <4>3
    <3>8. LiveExecutionsOwned'
      BY <1>2, <3>4 DEF IInv, LiveExecutionsOwned, IsOpen
    <3>9. EtaskFollows'
      <4>1. attempt[t][n] # "CANCELLED"
        BY <3>1 DEF IsOpen
      <4>2. execution[t][n] \notin {"INTENT", "STOPPING"}
        BY <4>1 DEF IInv, EtaskFollows
      <4>3. execution[t][n] \notin {"NONE", "INTENT", "REJECTED"}
        BY <1>1 DEF Results
      <4> SUFFICES ASSUME NEW u \in Tasks, NEW m \in Nos
                   PROVE  /\ attempt'[u][m] = "None" => execution[u][m] = "NONE"
                          /\ attempt'[u][m] = "RUNNING" => execution[u][m] \notin
                                {"NONE", "INTENT", "REJECTED"}
                          /\ execution[u][m] \in {"INTENT", "STOPPING"} =>
                                attempt'[u][m] = "CANCELLED"
        BY <1>2 DEF IInv, EtaskFollows
      <4>4. CASE u = t /\ m = n
        BY <3>4, <4>2, <4>3, <4>4
      <4>5. CASE u # t \/ m # n
        <5>1. attempt'[u][m] = attempt[u][m]
          BY <3>4, <4>5
        <5> QED BY <5>1 DEF IInv, EtaskFollows
      <4> QED BY <4>4, <4>5
    <3>10. FrozenByWithdrawal'
      BY <1>2, <3>2, <3>4 DEF IInv, FrozenByWithdrawal
    <3> QED BY <3>4, <3>5, <3>6, <3>7, <3>8, <3>9, <3>10 DEF RowInv
  <2> QED BY <2>1, <2>2
<1>5. GoroutinesAgree' /\ work' \in [Workers -> Jobs]
  BY <1>3, <1>4, GoroutineStep
<1>6. TypeOK'
  BY <1>2, <1>4, <1>5 DEF IInv, TypeOK
<1> QED BY <1>4, <1>5, <1>6 DEF IInv, RowInv

\* TerminateTask cancels the task and closes its current attempt.
LEMMA TerminateKeeps ==
    ASSUME IInv, NEW w \in Workers, TerminateRows(w)
    PROVE  IInv' /\ Monotone
<1>1. PICK t \in Tasks, n \in 0..MaxAttempts :
         t = work[w].task /\ n = current[t]
  BY Holds DEF TerminateRows, Stays, IInv, TypeOK
<1>2. /\ UNCHANGED <<ticket, current, bound, execution, topic, faults>>
      /\ faults' \in 0..MaxFaults
  BY DEF TerminateRows, IInv, TypeOK
<1>3. CASE ~(status[t] = "Cancelled" \/ CanTerminate(status[t]))
  <2>1. Goto(w, Idle) /\ UNCHANGED <<rows, execution, topic, faults>>
    BY <1>1, <1>2, <1>3 DEF TerminateRows, rows
  <2>2. Idle \in Jobs /\ JobAgrees(Idle)
    BY JobsTyped DEF JobAgrees, Idle
  <2> QED BY <1>2, <2>1, <2>2, LocalStep
<1>4. CASE status[t] = "Cancelled" \/ CanTerminate(status[t])
  <2>1. /\ status' = [status EXCEPT ![t] = "Cancelled"]
        /\ attempt' = IF n > 0 /\ IsOpen(attempt[t][n])
                        THEN [attempt EXCEPT ![t][n] = "CANCELLED"]
                        ELSE attempt
        /\ IF n > 0 /\ attempt'[t][n] = "CANCELLED"
             THEN Goto(w, At("stop", t, n)) ELSE Goto(w, Idle)
    BY <1>1, <1>4 DEF TerminateRows
  <2>2. "Cancelled" \in TaskStatus /\ ~IsActive("Cancelled")
    BY DEF TaskStatus, IsActive
  <2>3. /\ RowInv' /\ Monotone
        /\ attempt' \in [Tasks -> [Nos -> AttemptStatus]]
        /\ status' \in [Tasks -> TaskStatus]
    <3>1. CASE n > 0 /\ IsOpen(attempt[t][n])
      <4>1. n \in Nos /\ "CANCELLED" \in Results
        BY <1>1, <3>1, CurrentRow DEF Results
      <4>2. attempt' = [attempt EXCEPT ![t][n] = "CANCELLED"]
        BY <2>1, <3>1
      <4> QED BY <1>2, <2>1, <2>2, <3>1, <4>1, <4>2, CloseStep
    <3>2. CASE ~(n > 0 /\ IsOpen(attempt[t][n]))
      <4>1. attempt' = attempt /\ ~IsActive(status[t])
        BY <1>1, <2>1, <3>2 DEF IInv, TablesAgree
      <4>2. status[t] # "Success"
        BY <1>4 DEF CanTerminate
      <4>3. /\ status' \in [Tasks -> TaskStatus]
            /\ \A u \in Tasks :
                  \/ status'[u] = status[u]
                  \/ /\ ~IsActive(status[u]) /\ status[u] # "Success"
                     /\ ~IsActive(status'[u])
                     /\ status'[u] # "Success"
        BY <2>1, <2>2, <4>1, <4>2 DEF IInv, TypeOK
      <4> QED BY <1>2, <4>1, <4>3, InactiveStep DEF IInv, TypeOK
    <3> QED BY <3>1, <3>2
  <2>4. PICK job \in Jobs : Goto(w, job) /\ JobAgrees(job)'
    <3>1. CASE n > 0 /\ attempt'[t][n] = "CANCELLED"
      <4>1. n \in Nos /\ IsTerminal(attempt'[t][n])
        BY <1>1, <3>1, CurrentRow DEF IsTerminal
      <4>2. PICK job \in Jobs : job = At("stop", t, n)
        BY JobsTyped DEF Steps
      <4>3. JobAgrees(job)'
        BY <4>1, <4>2 DEF JobAgrees, At
      <4> QED BY <2>1, <3>1, <4>2, <4>3
    <3>2. CASE ~(n > 0 /\ attempt'[t][n] = "CANCELLED")
      <4>1. Idle \in Jobs /\ JobAgrees(Idle)'
        BY JobsTyped DEF JobAgrees, Idle
      <4> QED BY <2>1, <3>2, <4>1
    <3> QED BY <3>1, <3>2
  <2>5. GoroutinesAgree' /\ work' \in [Workers -> Jobs]
    BY <2>3, <2>4, GoroutineStep
  <2>6. TypeOK'
    BY <1>2, <2>3, <2>5 DEF IInv, TypeOK
  <2> QED BY <2>3, <2>5, <2>6 DEF IInv, RowInv
<1> QED BY <1>3, <1>4

\* A lost event.
LEMMA LoseKeeps ==
    ASSUME IInv, NEW t \in Tasks, NEW n \in Nos, LoseEvent(t, n)
    PROVE  IInv' /\ Monotone
<1>1. /\ UNCHANGED <<rows, execution, work>>
      /\ topic' \subseteq topic /\ faults' \in 0..MaxFaults
  BY ConstantsAssumption DEF LoseEvent, IInv, TypeOK, Fault
<1>2. Monotone
  BY <1>1 DEF Monotone, rows
<1>3. GoroutinesAgree'
  BY <1>1, <1>2, GoroutinesStay
<1>4. TypeOK'
  BY <1>1 DEF IInv, TypeOK, rows
<1>5. RowInv'
  BY <1>1 DEF IInv, RowInv, Numbered, TablesAgree, ResultsAreEtasks,
              LiveExecutionsOwned, EtaskFollows, FrozenByWithdrawal, rows
<1> QED BY <1>2, <1>3, <1>4, <1>5 DEF IInv, RowInv

\* The ticket's transactions: the withdrawal enters WITHDRAWING only when no
\* task is active, and leaves the attempts alone.
LEMMA TicketKeeps ==
    ASSUME IInv, Ticket
    PROVE  IInv' /\ Monotone
<1>1. UNCHANGED <<current, attempt, bound, execution, topic, work, faults>>
  BY DEF Ticket, EndProcess, PrepareWithdrawal, RollbackWithdrawal,
         CancelPending, FinalizeWithdrawal
<1>2. /\ ticket' \in TicketStatus
      /\ status' \in [Tasks -> TaskStatus]
      /\ \A u \in Tasks :
            \/ status'[u] = status[u]
            \/ /\ ~IsActive(status[u]) /\ status[u] # "Success"
               /\ ~IsActive(status'[u])
               /\ status'[u] # "Success"
  BY DEF Ticket, EndProcess, PrepareWithdrawal, RollbackWithdrawal, IInv, TypeOK,
         CancelPending, FinalizeWithdrawal, TicketStatus, TaskStatus, Pending,
         IsActive
<1>3. Numbered' /\ LiveExecutionsOwned' /\ EtaskFollows'
  BY <1>1 DEF IInv, Numbered, LiveExecutionsOwned, EtaskFollows
<1>4. TablesAgree'
  BY <1>1, <1>2 DEF IInv, TablesAgree, IsActive
<1>5. ResultsAreEtasks'
  BY <1>1, <1>2 DEF IInv, ResultsAreEtasks
<1>6. FrozenByWithdrawal'
  BY <1>2
  DEF Ticket, EndProcess, PrepareWithdrawal, RollbackWithdrawal, CancelPending,
      FinalizeWithdrawal, IInv, FrozenByWithdrawal
<1>7. Monotone
  BY <1>1, <1>2 DEF Monotone
<1>8. GoroutinesAgree'
  BY <1>1, <1>7, GoroutinesStay
<1>9. TypeOK'
  BY <1>1, <1>2 DEF IInv, TypeOK
<1> QED BY <1>3, <1>4, <1>5, <1>6, <1>7, <1>8, <1>9 DEF IInv

-----------------------------------------------------------------------------
\* The rows as CreateTask inserts them satisfy the invariant.
LEMMA InitEstablishes == Init => IInv
<1> SUFFICES ASSUME Init PROVE IInv
  OBVIOUS
<1>1. TypeOK
  BY ConstantsAssumption, JobsTyped
  DEF Init, TypeOK, TicketStatus, TaskStatus, AttemptStatus, Executions
<1>2. Numbered /\ TablesAgree
  BY DEF Init, Numbered, TablesAgree, Nos, IsActive, IsOpen
<1>3. ResultsAreEtasks /\ LiveExecutionsOwned /\ EtaskFollows
  BY DEF Init, ResultsAreEtasks, LiveExecutionsOwned, EtaskFollows
<1>4. GoroutinesAgree
  BY DEF Init, GoroutinesAgree, JobAgrees, Idle
<1>5. FrozenByWithdrawal
  BY DEF Init, FrozenByWithdrawal
<1> QED BY <1>1, <1>2, <1>3, <1>4, <1>5 DEF IInv

\* Every step of every goroutine, of etask and of the ticket keeps the
\* invariant and takes nothing back.
LEMMA NextKeeps == IInv /\ [Next]_vars => IInv' /\ (Monotone \/ UNCHANGED vars)
<1> SUFFICES ASSUME IInv, [Next]_vars
             PROVE  IInv' /\ (Monotone \/ UNCHANGED vars)
  OBVIOUS
<1>1. ASSUME NEW w \in Workers, Step(w) PROVE IInv' /\ Monotone
  BY <1>1, BeginKeeps, RestingStepsKeep, DispatchKeeps, LocalStepsKeep,
     BindKeeps, RejectKeeps, TerminationKeeps, TerminateKeeps DEF Step
<1>2. ASSUME NEW w \in Workers, NEW t \in Tasks, Call(w, t)
      PROVE  IInv' /\ Monotone
  BY <1>2, ReadsKeep, ReconcileKeeps DEF Call
<1>3. ASSUME NEW t \in Tasks, NEW n \in Nos, External(t, n)
      PROVE  IInv' /\ Monotone
  BY <1>3, ExecuteKeeps, ConsumeKeeps, LoseKeeps DEF External
<1>4. CASE Ticket
  BY <1>4, TicketKeeps
<1>5. CASE UNCHANGED vars
  BY <1>5 DEF vars, IInv, TypeOK, Numbered, TablesAgree, ResultsAreEtasks,
              LiveExecutionsOwned, EtaskFollows, GoroutinesAgree, JobAgrees,
              FrozenByWithdrawal
<1> QED BY <1>1, <1>2, <1>3, <1>4, <1>5 DEF Next

\* IInv is an invariant: the tables, the goroutines and etask stay within it
\* under every interleaving, crash and loss.
THEOREM Invariance == Spec => []IInv
<1>1. IInv /\ [Next]_vars => IInv'
  BY NextKeeps
<1> QED BY InitEstablishes, <1>1, PTL DEF Spec

\* Type correctness.
THEOREM TypeCorrect == Spec => []TypeOK
<1>1. IInv => TypeOK
  BY DEF IInv
<1> QED BY Invariance, <1>1, PTL

\* automation_tasks and automation_task_attempts agree on what is open.
THEOREM TablesStayConsistent == Spec => []TablesAgree
<1>1. IInv => TablesAgree
  BY DEF IInv
<1> QED BY Invariance, <1>1, PTL

\* A recorded success or failure is the verdict of etask.
THEOREM ResultsAreTrue == Spec => []ResultsAreEtasks
<1>1. IInv => ResultsAreEtasks
  BY DEF IInv
<1> QED BY Invariance, <1>1, PTL

\* No execution is running on behalf of a failed or refused attempt.
THEOREM NoStrayExecution == Spec => []LiveExecutionsOwned
<1>1. IInv => LiveExecutionsOwned
  BY DEF IInv
<1> QED BY Invariance, <1>1, PTL

\* While a ticket is being withdrawn no task of the process is submitting or
\* running: Begin and WithdrawalDAO.Prepare exclude each other.
THEOREM WithdrawalFreezes == Spec => []FrozenByWithdrawal
<1>1. IInv => FrozenByWithdrawal
  BY DEF IInv
<1> QED BY Invariance, <1>1, PTL

\* No late, repeated or lost message changes a result once it is recorded.
THEOREM ResultsStay == Spec => ResultsAreFinal
<1> DEFINE Final == \A t \in Tasks :
              /\ status[t] = "Success" => status'[t] = "Success"
              /\ \A n \in Nos : IsTerminal(attempt[t][n]) =>
                    attempt'[t][n] = attempt[t][n]
<1>1. Monotone => Final
  <2>1. 1 \in Nos
    BY ConstantsAssumption DEF Nos
  <2> QED BY <2>1 DEF Monotone
<1>2. IInv /\ [Next]_vars => [Final]_vars
  BY <1>1, NextKeeps
<1> QED BY Invariance, <1>2, PTL DEF Spec, ResultsAreFinal

-----------------------------------------------------------------------------
(***************************************************************************)
(* AutomationTask implements TaskTables: what goroutines, attempt rows and *)
(* etask do together to the rows ticket and automation_tasks is what the   *)
(* transactions of TaskTables allow. Reads, RPCs, crashes, lost events and *)
(* the attempts' own bookkeeping map to stuttering steps.                  *)
(***************************************************************************)

\* The rows that TaskTables sees are left alone
RowsStay == UNCHANGED <<ticket, status>>

\* A step that leaves the rows alone is a stuttering step of TaskTables.
LEMMA StayIsStutter == RowsStay => [Tables!TablesNext]_(Tables!tables)
BY DEF RowsStay, Tables!tables

\* A step that moves one task as a transaction of TaskTables moves it.
LEMMA TaskMoves ==
    ASSUME NEW t \in Tasks, UNCHANGED ticket,
           \/ Tables!Begin(t) \/ Tables!BindExecution(t)
           \/ Tables!RejectSubmission(t)
           \/ \E s \in {"Success", "Failed", "Cancelled"} :
                 Tables!Complete(t, s)
           \/ Tables!Block(t) \/ Tables!PrepareRetry(t)
           \/ Tables!TerminateTask(t)
    PROVE  [Tables!TablesNext]_(Tables!tables)
BY DEF Tables!TablesNext, Tables!TaskTransaction

\* The task a goroutine is busy with exists.
LEMMA BusyWithTask ==
    ASSUME IInv, NEW w \in Workers, ~Stays(w, "idle")
    PROVE  work[w].task \in Tasks
BY DEF IInv, GoroutinesAgree, JobAgrees, Stays

-----------------------------------------------------------------------------
\* A goroutine's step is at most one transaction on its task.
LEMMA StepRefines ==
    ASSUME IInv, NEW w \in Workers, Step(w)
    PROVE  [Tables!TablesNext]_(Tables!tables)
<1>1. CASE \/ Dispatch(w) \/ DispatchFails(w) \/ AutoRetryTask(w)
           \/ ConfirmTerminated(w) \/ StopExecution(w) \/ Crash(w)
  <2>1. RowsStay
    BY <1>1 DEF RowsStay, rows, Dispatch, DispatchFails, AutoRetryTask,
                ConfirmTerminated, StopExecution, TerminateExecution, Crash
  <2> QED BY <2>1, StayIsStutter
<1>2. CASE BeginAttempt(w)
  <2>1. PICK t \in Tasks : t = work[w].task
    BY <1>2, BusyWithTask DEF BeginAttempt, Stays
  <2>2. UNCHANGED ticket /\ (RowsStay \/ Tables!Begin(t))
    BY <1>2, <2>1
    DEF BeginAttempt, rows, RowsStay, Tables!Begin, Tables!Move,
        AllowsStart, Tables!AllowsStart
  <2> QED BY <2>2, StayIsStutter, TaskMoves
<1>3. CASE PrepareFails(w) \/ BlockTask(w)
  <2>1. PICK t \in Tasks : t = work[w].task
    BY <1>3, BusyWithTask DEF PrepareFails, BlockTask, Stays
  <2>2. UNCHANGED ticket /\ (RowsStay \/ Tables!Block(t))
    BY <1>3, <2>1
    DEF PrepareFails, BlockTask, BlockRow, RowsStay, Tables!Block, Tables!Move
  <2> QED BY <2>2, StayIsStutter, TaskMoves
<1>4. CASE BindExecution(w)
  <2>1. PICK t \in Tasks : t = work[w].task
    BY <1>4, BusyWithTask DEF BindExecution, Stays
  <2>2. UNCHANGED ticket /\ (RowsStay \/ Tables!BindExecution(t))
    BY <1>4, <2>1
    DEF BindExecution, RowsStay, Tables!BindExecution, Tables!Move
  <2> QED BY <2>2, StayIsStutter, TaskMoves
<1>5. CASE RejectSubmission(w)
  <2>1. PICK t \in Tasks : t = work[w].task
    BY <1>5, BusyWithTask DEF RejectSubmission, Stays
  <2>2. UNCHANGED ticket /\ (RowsStay \/ Tables!RejectSubmission(t))
    BY <1>5, <2>1
    DEF RejectSubmission, RowsStay, Tables!RejectSubmission, Tables!Move
  <2> QED BY <2>2, StayIsStutter, TaskMoves
<1>6. CASE PrepareRetry(w)
  <2>1. PICK t \in Tasks : t = work[w].task
    BY <1>6, BusyWithTask DEF PrepareRetry, Stays
  <2>2. UNCHANGED ticket /\ (RowsStay \/ Tables!PrepareRetry(t))
    BY <1>6, <2>1
    DEF PrepareRetry, RowsStay, Tables!PrepareRetry, Tables!Move,
        CanRetry, Tables!CanRetry
  <2> QED BY <2>2, StayIsStutter, TaskMoves
<1>7. CASE TerminateRows(w)
  <2>1. PICK t \in Tasks : t = work[w].task
    BY <1>7, BusyWithTask DEF TerminateRows, Stays
  <2>2. CASE status[t] = "Cancelled" \/ ~CanTerminate(status[t])
    <3>1. status' = status
      BY <1>7, <2>1, <2>2 DEF TerminateRows, IInv, TypeOK
    <3>2. RowsStay
      BY <1>7, <3>1 DEF TerminateRows, RowsStay
    <3> QED BY <3>2, StayIsStutter
  <2>3. CASE CanTerminate(status[t])
    <3>1. UNCHANGED ticket /\ Tables!TerminateTask(t)
      BY <1>7, <2>1, <2>3
      DEF TerminateRows, Tables!TerminateTask, Tables!Move,
          CanTerminate, Tables!CanTerminate
    <3> QED BY <3>1, TaskMoves
  <2> QED BY <2>2, <2>3
<1> QED BY <1>1, <1>2, <1>3, <1>4, <1>5, <1>6, <1>7 DEF Step

\* A recorded result is Complete on the row, or concerns an old attempt.
LEMMA CompleteRefines ==
    ASSUME NEW t \in Tasks, NEW n \in Nos, NEW r \in Results, Complete(t, n, r)
    PROVE  [Tables!TablesNext]_(Tables!tables)
<1>1. TaskResult(r) \in {"Success", "Failed", "Cancelled"}
  BY DEF TaskResult, Results
<1>2. UNCHANGED ticket /\ (RowsStay \/ Tables!Complete(t, TaskResult(r)))
  BY <1>1 DEF Complete, RowsStay, Tables!Complete, Tables!Move, IsActive,
              Tables!IsActive
<1> QED BY <1>1, <1>2, StayIsStutter, TaskMoves

\* Of the calls and of the events, those that record a result change a row.
LEMMA EventRefines ==
    ASSUME IInv, NEW t \in Tasks,
           \/ \E w \in Workers : Call(w, t)
           \/ \E n \in Nos : External(t, n)
    PROVE  [Tables!TablesNext]_(Tables!tables)
<1>1. ASSUME NEW w \in Workers, ReconcileTask(w, t)
      PROVE  [Tables!TablesNext]_(Tables!tables)
  <2>1. current[t] \in Nos /\ execution[t][current[t]] \in Results
    BY <1>1 DEF ReconcileTask, IInv, TypeOK
  <2>2. Complete(t, current[t], execution[t][current[t]])
    BY <1>1 DEF ReconcileTask
  <2> QED BY <2>1, <2>2, CompleteRefines
<1>2. ASSUME NEW n \in Nos, ConsumeResult(t, n)
      PROVE  [Tables!TablesNext]_(Tables!tables)
  <2>1. execution[t][n] \in Results /\ Complete(t, n, execution[t][n])
    BY <1>2 DEF ConsumeResult, IInv, EtaskFollows
  <2> QED BY <2>1, CompleteRefines
<1>3. CASE RowsStay
  BY <1>3, StayIsStutter
<1> QED
  BY <1>1, <1>2, <1>3
  DEF Call, External, StartTask, RecoverSubmitting, ListFailed, RetryTask,
      TerminateTask, Execute, LoseEvent, RowsStay, rows

\* The withdrawal of a process without compensations.
LEMMA TicketRefines ==
    ASSUME IInv, Ticket
    PROVE  [Tables!TablesNext]_(Tables!tables)
<1>1. CASE EndProcess
  BY <1>1 DEF EndProcess, Tables!EndProcess, Tables!TablesNext,
              Tables!TicketTransaction
<1>2. CASE PrepareWithdrawal
  BY <1>2 DEF PrepareWithdrawal, Tables!Prepare, Tables!TablesNext,
              Tables!TicketTransaction, IsActive, Tables!IsActive
<1>3. CASE RollbackWithdrawal
  BY <1>3 DEF RollbackWithdrawal, Tables!Rollback, Tables!TablesNext,
              Tables!TicketTransaction
<1>4. CASE CancelPending
  <2>1. Tables!ActivateCompensations({})
    BY <1>4 DEF CancelPending, Tables!ActivateCompensations, Pending,
                Tables!Pending
  <2> QED BY <2>1 DEF Tables!TablesNext, Tables!TicketTransaction
<1>5. CASE FinalizeWithdrawal
  BY <1>5 DEF FinalizeWithdrawal, Tables!TryFinalize, Tables!TablesNext,
              Tables!CompensationsSucceeded, Tables!TicketTransaction
<1> QED BY <1>1, <1>2, <1>3, <1>4, <1>5 DEF Ticket

-----------------------------------------------------------------------------
\* Every behaviour of the services, jobs and consumers on a process without
\* compensations is a behaviour of the transactions of TaskTables.
THEOREM TasksImplementTables == Spec => ImplementsTables
<1>1. Init => Tables!TablesInit
  BY DEF Init, Tables!TablesInit
<1>2. IInv /\ [Next]_vars => [Tables!TablesNext]_(Tables!tables)
  <2> SUFFICES ASSUME IInv, [Next]_vars
               PROVE  [Tables!TablesNext]_(Tables!tables)
    OBVIOUS
  <2>1. CASE UNCHANGED vars
    BY <2>1, StayIsStutter DEF vars, RowsStay
  <2>2. CASE Next
    BY <2>2, StepRefines, EventRefines, TicketRefines DEF Next
  <2> QED BY <2>1, <2>2
<1> QED
  BY Invariance, <1>1, <1>2, PTL
  DEF Spec, ImplementsTables, Tables!TablesSpec

-----------------------------------------------------------------------------
(***************************************************************************)
(* CancelsUnderWay, whoever terminates and retries, and at the same time.  *)
(***************************************************************************)

\* A step after which etask still may run only what it might before, and that
\* cancels no attempt but by etask's own result
QuietForCancels ==
    \A t \in Tasks, n \in Nos :
        /\ execution'[t][n] \in {"NONE", "LIVE"} =>
              execution[t][n] \in {"NONE", "LIVE"}
        /\ attempt'[t][n] = "CANCELLED" =>
              attempt[t][n] = "CANCELLED" \/ execution'[t][n] \in Results

\* Such a step, of a goroutine that is not about to tell etask
LEMMA QuietKeepsCancels ==
    ASSUME IInv, CancelsUnderWay, QuietForCancels, faults' = 0 => faults = 0,
           UNCHANGED work
              \/ \E w \in Workers : ~Stays(w, "stop") /\ \E job : Goto(w, job)
    PROVE  CancelsUnderWay'
<1> SUFFICES ASSUME faults' = 0, NEW t \in Tasks, NEW n \in Nos,
                    attempt'[t][n] = "CANCELLED", execution'[t][n] \in {"NONE", "LIVE"}
             PROVE  \E v \in Workers :
                       work'[v].step = "stop" /\ work'[v].task = t /\ work'[v].no = n
  BY DEF CancelsUnderWay, Stays
<1>1. attempt[t][n] = "CANCELLED" /\ execution[t][n] \in {"NONE", "LIVE"}
  BY DEF QuietForCancels, Results
<1>2. PICK v \in Workers : Stays(v, "stop") /\ work[v].task = t /\ work[v].no = n
  BY <1>1 DEF CancelsUnderWay
<1>3. work'[v] = work[v]
  BY <1>2 DEF Goto, IInv, TypeOK
<1> QED BY <1>2, <1>3 DEF Stays

LEMMA CallsKeepCancels ==
    ASSUME IInv, CancelsUnderWay, NEW w \in Workers, NEW t \in Tasks, Call(w, t)
    PROVE  CancelsUnderWay'
<1>1. CASE ~ReconcileTask(w, t)
  <2>1. /\ UNCHANGED <<rows, execution, faults>> /\ Stays(w, "idle")
        /\ \E job : Goto(w, job)
    BY <1>1 DEF Call, StartTask, RecoverSubmitting, ListFailed, RetryTask, TerminateTask
  <2> QED BY <2>1, QuietKeepsCancels DEF QuietForCancels, rows, Stays
<1>2. CASE ReconcileTask(w, t)
  <2>1. /\ UNCHANGED <<execution, work, faults>>
        /\ execution[t][current[t]] \in Results
        /\ attempt' = [attempt EXCEPT ![t][current[t]] = execution[t][current[t]]]
    BY <1>2 DEF ReconcileTask, Complete
  <2>2. QuietForCancels
    BY <2>1 DEF QuietForCancels, IInv, TypeOK
  <2> QED BY <2>1, <2>2, QuietKeepsCancels
<1> QED BY <1>1, <1>2

\* The steps of a goroutine that cancel nothing and tell etask of no cancel.
LEMMA StepsKeepCancels ==
    ASSUME IInv, CancelsUnderWay, NEW w \in Workers,
           Step(w), ~TerminateRows(w), ~StopExecution(w), ~Crash(w)
    PROVE  CancelsUnderWay'
<1> PICK t, n : t = work[w].task /\ n = work[w].no
  OBVIOUS
<1>1. ~Stays(w, "stop") /\ (faults' = 0 => faults = 0) /\ \E job : Goto(w, job)
  <2>1. CASE BeginAttempt(w) \/ BindExecution(w) \/ RejectSubmission(w)
    BY <2>1 DEF BeginAttempt, BindExecution, RejectSubmission, Stays
  <2>2. CASE PrepareFails(w) \/ BlockTask(w) \/ AutoRetryTask(w) \/ PrepareRetry(w)
    BY <2>2 DEF PrepareFails, BlockTask, AutoRetryTask, PrepareRetry, Stays, Fault, IInv, TypeOK
  <2>3. CASE Dispatch(w)
    <3>1. Stays(w, "dispatch") /\ (UNCHANGED faults \/ Fault) /\ \E job : Goto(w, job)
      BY <2>3 DEF Dispatch, SubmissionError
    <3> QED BY <3>1 DEF Stays, Fault, IInv, TypeOK
  <2>4. CASE DispatchFails(w) \/ ConfirmTerminated(w)
    BY <2>4 DEF DispatchFails, SubmissionError, ConfirmTerminated,
           TerminateExecution, Stays, Fault, IInv, TypeOK
  <2> QED BY <2>1, <2>2, <2>3, <2>4 DEF Step
<1>0. t \in Tasks /\ (work[w].step \in {"report", "dispatch", "confirm"} => n \in Nos)
  <2>1. ~Stays(w, "idle")
    BY DEF Step, BeginAttempt, PrepareFails, Dispatch, DispatchFails, BindExecution,
           RejectSubmission, AutoRetryTask, ConfirmTerminated, PrepareRetry, BlockTask, Stays
  <2> QED BY <2>1, Holds DEF JobAgrees, Stays
<1>2. CASE \/ PrepareFails(w) \/ DispatchFails(w) \/ AutoRetryTask(w)
           \/ PrepareRetry(w) \/ BlockTask(w)
  <2>1. UNCHANGED <<attempt, execution>>
    BY <1>2 DEF PrepareFails, DispatchFails, AutoRetryTask, PrepareRetry, BlockTask, rows
  <2> QED BY <1>1, <2>1, QuietKeepsCancels DEF QuietForCancels
<1>3. CASE BeginAttempt(w)
  <2>1. UNCHANGED execution
    BY <1>3 DEF BeginAttempt
  <2>2. attempt' = attempt \/ \E k \in Nos : attempt' = [attempt EXCEPT ![t][k] = "SUBMITTING"]
    BY <1>3 DEF BeginAttempt, rows
  <2>3. UNCHANGED <<attempt, execution>> => QuietForCancels
    BY DEF QuietForCancels
  <2>4. ASSUME NEW k \in Nos, attempt' = [attempt EXCEPT ![t][k] = "SUBMITTING"]
        PROVE  QuietForCancels
    BY <1>0, <2>1, <2>4 DEF QuietForCancels, IInv, TypeOK
  <2> QED BY <1>1, <2>1, <2>2, <2>3, <2>4, QuietKeepsCancels
<1>4. CASE BindExecution(w) \/ RejectSubmission(w)
  <2>1. UNCHANGED execution
    BY <1>4 DEF BindExecution, RejectSubmission
  <2>2. \E a \in {"RUNNING", "FAILED"} :
          attempt' \in {attempt, [attempt EXCEPT ![t][n] = a]}
    BY <1>4 DEF BindExecution, RejectSubmission
  <2>3. QuietForCancels
    BY <2>1, <2>2 DEF QuietForCancels, IInv, TypeOK
  <2> QED BY <1>1, <2>3, QuietKeepsCancels
<1>5. CASE Dispatch(w) \/ ConfirmTerminated(w)
  <2>1. UNCHANGED attempt
    BY <1>5 DEF Dispatch, ConfirmTerminated, TerminateExecution, rows
  <2>2. PICK e \in Dispatched(execution[t][n]) \cup {Terminated(execution[t][n])} :
           execution' = [execution EXCEPT ![t][n] = e]
    BY <1>5 DEF Dispatch, ConfirmTerminated, TerminateExecution
  <2>3. e \in {"NONE", "LIVE"} => execution[t][n] \in {"NONE", "LIVE"}
    BY DEF Dispatched, Terminated
  <2>5. n \in Nos
    BY <1>0, <1>5 DEF Dispatch, ConfirmTerminated, Stays
  <2>4. QuietForCancels
    BY <1>0, <2>1, <2>2, <2>3, <2>5 DEF QuietForCancels, IInv, TypeOK
  <2> QED BY <1>1, <2>4, QuietKeepsCancels
<1> QED BY <1>2, <1>3, <1>4, <1>5 DEF Step

\* The transaction that cancels leaves its goroutine about to tell etask.
LEMMA TerminateKeepsCancels ==
    ASSUME IInv, CancelsUnderWay, NEW w \in Workers, TerminateRows(w)
    PROVE  CancelsUnderWay'
<1> PICK t, n : t = work[w].task /\ n = current[t]
  OBVIOUS
<1> SUFFICES ASSUME faults = 0, NEW u \in Tasks, NEW m \in Nos,
                    attempt'[u][m] = "CANCELLED", execution[u][m] \in {"NONE", "LIVE"}
             PROVE  \E v \in Workers :
                       work'[v].step = "stop" /\ work'[v].task = u /\ work'[v].no = m
  BY DEF CancelsUnderWay, TerminateRows, Stays
<1>1. CASE attempt[u][m] = "CANCELLED"
  <2>1. PICK v \in Workers : Stays(v, "stop") /\ work[v].task = u /\ work[v].no = m
    BY <1>1 DEF CancelsUnderWay
  <2>2. work'[v] = work[v]
    BY <2>1 DEF TerminateRows, Stays, Goto, IInv, TypeOK
  <2> QED BY <2>1, <2>2 DEF Stays
<1>2. CASE attempt[u][m] # "CANCELLED"
  <2>1. u = t /\ m = n
    BY <1>2 DEF TerminateRows, IInv, TypeOK
  <2>2. Goto(w, At("stop", t, n))
    BY <1>2, <2>1 DEF TerminateRows, Nos
  <2> QED BY <2>1, <2>2 DEF Goto, At, IInv, TypeOK
<1> QED BY <1>1, <1>2

\* The call that tells etask, when its answer is not lost.
LEMMA StopKeepsCancels ==
    ASSUME IInv, CancelsUnderWay, NEW w \in Workers, StopExecution(w)
    PROVE  CancelsUnderWay'
<1> PICK t, n : t = work[w].task /\ n = work[w].no
  OBVIOUS
<1>1. /\ execution' = [execution EXCEPT ![t][n] = Terminated(@)]
      /\ UNCHANGED attempt /\ \E job : Goto(w, job)
      /\ faults' = 0 => faults = 0
  BY DEF StopExecution, TerminateExecution, rows, Fault, IInv, TypeOK
<1> SUFFICES ASSUME faults' = 0, NEW u \in Tasks, NEW m \in Nos,
                    attempt[u][m] = "CANCELLED", execution'[u][m] \in {"NONE", "LIVE"}
             PROVE  \E v \in Workers :
                       work'[v].step = "stop" /\ work'[v].task = u /\ work'[v].no = m
  BY <1>1 DEF CancelsUnderWay, Stays
<1>2. ~(u = t /\ m = n)
  BY <1>1 DEF Terminated, IInv, TypeOK
<1>3. execution'[u][m] = execution[u][m]
  BY <1>1, <1>2 DEF IInv, TypeOK
<1>4. PICK v \in Workers : Stays(v, "stop") /\ work[v].task = u /\ work[v].no = m
  BY <1>1, <1>3 DEF CancelsUnderWay
<1>5. work'[v] = work[v]
  BY <1>1, <1>2, <1>4 DEF Goto, IInv, TypeOK
<1> QED BY <1>4, <1>5 DEF Stays

\* Results, etask, lost events and the ticket.
LEMMA EventsKeepCancels ==
    ASSUME IInv, CancelsUnderWay,
           Ticket \/ \E t \in Tasks, n \in Nos : External(t, n)
    PROVE  CancelsUnderWay'
<1>1. CASE Ticket
  <2>1. UNCHANGED <<attempt, execution, work, faults>>
    BY <1>1 DEF Ticket, EndProcess, PrepareWithdrawal, RollbackWithdrawal, CancelPending,
                FinalizeWithdrawal
  <2> QED BY <2>1, QuietKeepsCancels DEF QuietForCancels
<1>2. ASSUME NEW t \in Tasks, NEW n \in Nos, ConsumeResult(t, n) PROVE CancelsUnderWay'
  <2>1. /\ UNCHANGED <<execution, work, faults>> /\ execution[t][n] \in Results
        /\ attempt' = [attempt EXCEPT ![t][n] = execution[t][n]]
    BY <1>2 DEF ConsumeResult, Complete, IInv, EtaskFollows
  <2>2. QuietForCancels
    BY <2>1 DEF QuietForCancels, IInv, TypeOK
  <2> QED BY <2>1, <2>2, QuietKeepsCancels
<1>3. ASSUME NEW t \in Tasks, NEW n \in Nos, Execute(t, n) PROVE CancelsUnderWay'
  <2>1. /\ UNCHANGED <<attempt, work, faults>>
        /\ \E r \in Results : execution' = [execution EXCEPT ![t][n] = r]
    BY <1>3 DEF Execute, rows
  <2>2. QuietForCancels
    BY <2>1 DEF QuietForCancels, Results, IInv, TypeOK
  <2> QED BY <2>1, <2>2, QuietKeepsCancels
<1>4. ASSUME NEW t \in Tasks, NEW n \in Nos, LoseEvent(t, n) PROVE CancelsUnderWay'
  BY <1>4, QuietKeepsCancels DEF LoseEvent, rows, Fault, QuietForCancels, IInv, TypeOK
<1> QED BY <1>1, <1>2, <1>3, <1>4 DEF External

\* An attempt that was cancelled and that etask may still run has a goroutine
\* about to deliver the cancel, until a call is lost or a goroutine dies: no
\* number of administrators and jobs that retry, terminate and resubmit at
\* once makes the service forget one (TerminateTask).
THEOREM CancelsAreDelivered == Spec => []CancelsUnderWay
<1>1. Init => CancelsUnderWay
  BY DEF Init, CancelsUnderWay
<1>2. IInv /\ CancelsUnderWay /\ [Next]_vars => CancelsUnderWay'
  <2> SUFFICES ASSUME IInv, CancelsUnderWay, [Next]_vars PROVE CancelsUnderWay'
    OBVIOUS
  <2>1. CASE UNCHANGED vars
    BY <2>1 DEF vars, CancelsUnderWay, Stays
  <2>2. ASSUME NEW w \in Workers, Crash(w) PROVE CancelsUnderWay'
    BY <2>2 DEF Crash, Fault, CancelsUnderWay, IInv, TypeOK
  <2>3. ASSUME NEW w \in Workers, Step(w) PROVE CancelsUnderWay'
    BY <2>2, <2>3, StepsKeepCancels, TerminateKeepsCancels, StopKeepsCancels
  <2> QED BY <2>1, <2>3, CallsKeepCancels, EventsKeepCancels DEF Next
<1> QED BY Invariance, <1>1, <1>2, PTL DEF Spec

-----------------------------------------------------------------------------
(***************************************************************************)
(* AutoAttemptsBounded, for any number of recovery jobs.                   *)
(***************************************************************************)

\* Rows are numbered without gaps, so their number is that of the last
LEMMA AttemptsCounted ==
    ASSUME IInv, NEW t \in Tasks
    PROVE  Cardinality(Attempts(t)) = current[t]
<1>1. Attempts(t) = 1..current[t] /\ current[t] \in Nat
  BY ConstantsAssumption DEF Attempts, IInv, TypeOK, Numbered, Nos
<1> QED BY <1>1, FS_Interval

\* The number of jobs that rearm a task is a number, and at most that of all
LEMMA SomeJobs ==
    ASSUME IsFiniteSet(Recoverers), NEW S \in SUBSET Recoverers
    PROVE  /\ Cardinality(Recoverers) \in Nat /\ Cardinality(S) \in Nat
           /\ Cardinality(S) <= Cardinality(Recoverers)
           /\ IsFiniteSet(S)
BY FS_Subset, FS_CardinalityType

\* A step that creates no attempt, makes no task Waiting and lets no further
\* job rearm
QuietForCount ==
    /\ UNCHANGED current
    /\ \A t \in Tasks : status'[t] = "Waiting" => status[t] = "Waiting"
    /\ \A t \in Tasks : Rearming(t)' \subseteq Rearming(t)

\* The jobs a worker may be left with
MayHold(w, job) ==
    /\ job.step \in {"listed", "rearm"} => w \in Recoverers
    /\ job.step # "confirm"

LEMMA HoldersStay ==
    ASSUME IInv, CountInv,
           UNCHANGED work \/ \E w \in Workers : \E job : Goto(w, job) /\ MayHold(w, job)
    PROVE  \A v \in Workers : /\ work'[v].step \in {"listed", "rearm"} => v \in Recoverers
                              /\ work'[v].step # "confirm"
<1> SUFFICES ASSUME NEW v \in Workers
             PROVE  /\ work'[v].step \in {"listed", "rearm"} => v \in Recoverers
                    /\ work'[v].step # "confirm"
  OBVIOUS
<1>1. CASE work'[v] = work[v]
  BY <1>1 DEF CountInv
<1>2. CASE work'[v] # work[v]
  <2>1. PICK w \in Workers : \E job : Goto(w, job) /\ MayHold(w, job)
    BY <1>2
  <2>2. PICK job : Goto(w, job) /\ MayHold(w, job)
    BY <2>1
  <2>3. v = w /\ work'[v] = job
    BY <1>2, <2>2 DEF Goto, IInv, TypeOK
  <2> QED BY <2>2, <2>3 DEF MayHold
<1> QED BY <1>1, <1>2

\* A goroutine that goes on with anything but a rearming
LEMMA NoNewRearming ==
    ASSUME IInv, NEW t \in Tasks,
           UNCHANGED work
              \/ \E w \in Workers : \E job : Goto(w, job) /\ job.step # "rearm"
    PROVE  Rearming(t)' \subseteq Rearming(t)
BY DEF Rearming, Stays, Goto, IInv, TypeOK, Workers

LEMMA QuietKeepsCount ==
    ASSUME IsFiniteSet(Recoverers), IInv, CountInv, QuietForCount,
           UNCHANGED work \/ \E w \in Workers : \E job : Goto(w, job) /\ MayHold(w, job)
    PROVE  CountInv'
<1>1. ASSUME NEW t \in Tasks
      PROVE  current'[t] + Cardinality(Rearming(t)') + (IF status'[t] = "Waiting" THEN 1 ELSE 0)
                <= AutoLimit + Cardinality(Recoverers) - 1
  <2>1. Rearming(t) \subseteq Recoverers /\ Rearming(t)' \subseteq Rearming(t)
    BY DEF Rearming, QuietForCount
  <2>2. /\ Cardinality(Rearming(t)') <= Cardinality(Rearming(t))
        /\ Cardinality(Rearming(t)') \in Nat /\ Cardinality(Rearming(t)) \in Nat
        /\ Cardinality(Recoverers) \in Nat
    BY <2>1, SomeJobs, FS_Subset
  <2>3. current[t] \in Nat /\ AutoLimit \in Nat /\ current'[t] = current[t]
    BY ConstantsAssumption DEF IInv, TypeOK, QuietForCount
  <2>4. status'[t] = "Waiting" => status[t] = "Waiting"
    BY DEF QuietForCount
  <2>5. current[t] + Cardinality(Rearming(t)) + (IF status[t] = "Waiting" THEN 1 ELSE 0)
           <= AutoLimit + Cardinality(Recoverers) - 1
    BY DEF CountInv
  <2> QED BY <2>2, <2>3, <2>4, <2>5
<1> QED BY <1>1, HoldersStay DEF CountInv

\* The calls: only the recovery jobs list and retry.
LEMMA CallsKeepCount ==
    ASSUME IsFiniteSet(Recoverers), IInv, CountInv, NEW w \in Workers, NEW t \in Tasks,
           Call(w, t), ~RetryTask(w, t)
    PROVE  CountInv'
<1>1. StartDecision(t).step \in {"idle", "begin", "dispatch"}
  BY DEF StartDecision, At, Idle
<1>2. CASE ~ReconcileTask(w, t)
  <2>1. PICK job : /\ Goto(w, job) /\ MayHold(w, job) /\ job.step # "rearm"
                   /\ UNCHANGED rows
    BY <1>1, <1>2 DEF Call, StartTask, RecoverSubmitting, ListFailed, TerminateTask, MayHold, At
  <2>2. QuietForCount
    BY <2>1, NoNewRearming DEF QuietForCount, rows
  <2> QED BY <2>1, <2>2, QuietKeepsCount
<1>3. CASE ReconcileTask(w, t)
  <2>1. UNCHANGED <<current, work>> /\ \A u \in Tasks : status'[u] = "Waiting" => status[u] = "Waiting"
    BY <1>3 DEF ReconcileTask, Complete, TaskResult, Results, IInv, TypeOK
  <2>2. QuietForCount
    BY <2>1, NoNewRearming DEF QuietForCount
  <2> QED BY <2>1, <2>2, QuietKeepsCount
<1> QED BY <1>2, <1>3

\* The count is taken while the task is not Waiting, and is below the limit.
LEMMA AutoRetryKeepsCount ==
    ASSUME IsFiniteSet(Recoverers), IInv, CountInv, NEW w \in Workers, AutoRetryTask(w)
    PROVE  CountInv'
<1> PICK t : t = work[w].task
  OBVIOUS
<1>1. t \in Tasks /\ w \in Recoverers
  BY Holds DEF AutoRetryTask, Stays, CountInv
<1>2. UNCHANGED rows /\ Goto(w, AutoRetryDecision(t))
  BY DEF AutoRetryTask
<1>3. PICK job : job = AutoRetryDecision(t)
  OBVIOUS
<1>4. AutoRetryDecision(t) \in {StartDecision(t), Idle, At("block", t, 0), At("rearm", t, 0)}
  BY DEF AutoRetryDecision
<1>5. MayHold(w, job)
  BY <1>1, <1>3, <1>4 DEF MayHold, StartDecision, At, Idle
<1>6. CASE job # At("rearm", t, 0)
  <2>1. job.step # "rearm"
    BY <1>3, <1>4, <1>6 DEF StartDecision, At, Idle
  <2>2. QuietForCount
    BY <1>2, <1>3, <2>1, NoNewRearming DEF QuietForCount, rows
  <2> QED BY <1>2, <1>3, <1>5, <2>2, QuietKeepsCount
<1>7. CASE job = At("rearm", t, 0)
  <2>1. CanRetry(status[t]) /\ ~AttemptsUsedUp(t)
    BY <1>3, <1>7 DEF AutoRetryDecision, StartDecision, At, Idle
  <2>2. current[t] < AutoLimit /\ status[t] # "Waiting"
    BY <1>1, <2>1, AttemptsCounted, ConstantsAssumption DEF AttemptsUsedUp, CanRetry, IInv, TypeOK
  <2>3. ASSUME NEW u \in Tasks
        PROVE  current'[u] + Cardinality(Rearming(u)') + (IF status'[u] = "Waiting" THEN 1 ELSE 0)
                  <= AutoLimit + Cardinality(Recoverers) - 1
    <3>1. /\ current'[u] = current[u] /\ status'[u] = status[u] /\ current[u] \in Nat
          /\ AutoLimit \in Nat
      BY <1>2, ConstantsAssumption DEF rows, IInv, TypeOK
    <3>2. Rearming(u) \subseteq Recoverers /\ Rearming(u)' \subseteq Recoverers
      BY DEF Rearming
    <3>3. CASE u = t
      <4>1. /\ Cardinality(Rearming(u)') <= Cardinality(Recoverers)
            /\ Cardinality(Rearming(u)') \in Nat /\ Cardinality(Recoverers) \in Nat
        BY <3>2, SomeJobs
      <4> QED BY <2>2, <3>1, <3>3, <4>1
    <3>4. CASE u # t
      <4>1. Rearming(u)' \subseteq Rearming(u)
        BY <1>2, <1>3, <1>7, <3>4 DEF Rearming, Stays, Goto, At, IInv, TypeOK, Workers
      <4>2. /\ Cardinality(Rearming(u)') <= Cardinality(Rearming(u))
            /\ Cardinality(Rearming(u)') \in Nat /\ Cardinality(Rearming(u)) \in Nat
            /\ Cardinality(Recoverers) \in Nat
        BY <3>2, <4>1, SomeJobs, FS_Subset
      <4>3. current[u] + Cardinality(Rearming(u)) + (IF status[u] = "Waiting" THEN 1 ELSE 0)
               <= AutoLimit + Cardinality(Recoverers) - 1
        BY DEF CountInv
      <4> QED BY <3>1, <4>2, <4>3
    <3> QED BY <3>3, <3>4
  <2> QED BY <1>2, <1>3, <1>5, <2>3, HoldersStay DEF CountInv
<1> QED BY <1>6, <1>7

\* Steps of a goroutine that end a call or lose it.
LEMMA RestKeepsCount ==
    ASSUME IsFiniteSet(Recoverers), IInv, CountInv, NEW w \in Workers,
           \/ PrepareFails(w) \/ BlockTask(w) \/ DispatchFails(w) \/ Crash(w)
           \/ BindExecution(w) \/ RejectSubmission(w) \/ TerminateRows(w)
           \/ Dispatch(w) \/ StopExecution(w) \/ ConfirmTerminated(w)
    PROVE  CountInv'
<1> PICK t : t = work[w].task
  OBVIOUS
<1>1. ~Stays(w, "idle") /\ t \in Tasks /\ ~Stays(w, "confirm")
  BY Holds DEF PrepareFails, BlockTask, DispatchFails, Crash, BindExecution, Stays,
         RejectSubmission, TerminateRows, Dispatch, StopExecution, ConfirmTerminated, CountInv
<1>2. \E k, r : \/ Goto(w, Idle) \/ Goto(w, At("stop", t, k))
                \/ Goto(w, [At("report", t, k) EXCEPT !.reply = r])
  BY <1>1 DEF PrepareFails, BlockTask, DispatchFails, SubmissionError, Crash, BindExecution,
         RejectSubmission, TerminateRows, Dispatch, StopExecution, ConfirmTerminated,
         TerminateExecution
<1>3. PICK job : Goto(w, job) /\ job.step \in {"idle", "stop", "report"}
  BY <1>2 DEF At, Idle
<1>4. UNCHANGED current /\ \A u \in Tasks : status'[u] = "Waiting" => status[u] = "Waiting"
  <2>1. CASE \/ DispatchFails(w) \/ Crash(w) \/ Dispatch(w) \/ StopExecution(w)
             \/ ConfirmTerminated(w)
    BY <2>1 DEF DispatchFails, Crash, Dispatch, StopExecution, ConfirmTerminated,
           TerminateExecution, rows
  <2>2. CASE PrepareFails(w) \/ BlockTask(w)
    BY <1>1, <2>2 DEF PrepareFails, BlockTask, BlockRow, IInv, TypeOK
  <2>3. CASE BindExecution(w) \/ RejectSubmission(w) \/ TerminateRows(w)
    BY <1>1, <2>3 DEF BindExecution, RejectSubmission, TerminateRows, IInv, TypeOK
  <2> QED BY <2>1, <2>2, <2>3
<1>5. QuietForCount
  BY <1>3, <1>4, NoNewRearming DEF QuietForCount
<1> QED BY <1>3, <1>5, QuietKeepsCount DEF MayHold

\* Results, etask and the ticket.
LEMMA EventsKeepCount ==
    ASSUME IsFiniteSet(Recoverers), IInv, CountInv,
           Ticket \/ \E t \in Tasks, n \in Nos : External(t, n)
    PROVE  CountInv'
<1>1. UNCHANGED <<current, work>> /\ \A u \in Tasks : status'[u] = "Waiting" => status[u] = "Waiting"
  <2>1. CASE Ticket
    BY <2>1 DEF Ticket, EndProcess, PrepareWithdrawal, RollbackWithdrawal, CancelPending,
                FinalizeWithdrawal, Pending
  <2>2. ASSUME NEW t \in Tasks, NEW n \in Nos, External(t, n)
        PROVE  /\ UNCHANGED <<current, work>>
               /\ \A u \in Tasks : status'[u] = "Waiting" => status[u] = "Waiting"
    <3>1. CASE ConsumeResult(t, n)
      <4>1. execution[t][n] \in Results
        BY <3>1 DEF ConsumeResult, IInv, EtaskFollows
      <4> QED BY <3>1, <4>1 DEF ConsumeResult, Complete, TaskResult, Results, IInv, TypeOK
    <3>2. CASE Execute(t, n) \/ LoseEvent(t, n)
      BY <3>2 DEF Execute, LoseEvent, rows
    <3> QED BY <2>2, <3>1, <3>2 DEF External
  <2> QED BY <2>1, <2>2
<1>2. QuietForCount
  BY <1>1, NoNewRearming DEF QuietForCount
<1> QED BY <1>1, <1>2, QuietKeepsCount

\* An attempt is created only for a Waiting task, and ends the waiting.
LEMMA BeginKeepsCount ==
    ASSUME IsFiniteSet(Recoverers), IInv, CountInv, NEW w \in Workers, BeginAttempt(w)
    PROVE  CountInv'
<1> PICK t : t = work[w].task
  OBVIOUS
<1>1. t \in Tasks
  BY Holds DEF BeginAttempt, Stays
<1>2. PICK job : Goto(w, job) /\ job.step \in {"dispatch", "idle"} /\ MayHold(w, job)
  <2>1. \E k : Goto(w, Idle) \/ Goto(w, At("dispatch", t, k))
    BY DEF BeginAttempt
  <2> QED BY <2>1 DEF At, Idle, MayHold
<1>3. \A u \in Tasks : Rearming(u)' \subseteq Rearming(u)
  BY <1>2, NoNewRearming
<1>4. CASE UNCHANGED rows
  <2>1. QuietForCount
    BY <1>3, <1>4 DEF QuietForCount, rows
  <2> QED BY <1>2, <2>1, QuietKeepsCount
<1>5. CASE ~UNCHANGED rows
  <2>1. PICK n \in Nos :
           /\ status[t] = "Waiting" /\ IsNextNo(t, n)
           /\ status' = [status EXCEPT ![t] = "Submitting"]
           /\ current' = [current EXCEPT ![t] = n]
    BY <1>5 DEF BeginAttempt
  <2>2. n <= current[t] + 1 /\ n \in Nat /\ current[t] \in Nat
    <3>1. current[t] \in 0..MaxAttempts /\ n \in 1..MaxAttempts
      BY <1>1, <2>1 DEF IInv, TypeOK, Nos
    <3>2. \A m \in 1..MaxAttempts : m < n => m <= current[t]
      BY <1>1, <2>1 DEF IsNextNo, IInv, Numbered, Nos
    <3>3. CASE n = 1
      BY <3>1, <3>3
    <3>4. CASE n > 1
      BY <3>1, <3>2, <3>4, ConstantsAssumption
    <3> QED BY <3>1, <3>3, <3>4
  <2>3. ASSUME NEW u \in Tasks
        PROVE  current'[u] + Cardinality(Rearming(u)') + (IF status'[u] = "Waiting" THEN 1 ELSE 0)
                  <= AutoLimit + Cardinality(Recoverers) - 1
    <3>1. Rearming(u) \subseteq Recoverers /\ AutoLimit \in Nat /\ current[u] \in Nat
      BY ConstantsAssumption DEF Rearming, IInv, TypeOK
    <3>2. /\ Cardinality(Rearming(u)') <= Cardinality(Rearming(u))
          /\ Cardinality(Rearming(u)') \in Nat /\ Cardinality(Rearming(u)) \in Nat
          /\ Cardinality(Recoverers) \in Nat
      BY <1>3, <3>1, SomeJobs, FS_Subset
    <3>3. current[u] + Cardinality(Rearming(u)) + (IF status[u] = "Waiting" THEN 1 ELSE 0)
             <= AutoLimit + Cardinality(Recoverers) - 1
      BY DEF CountInv
    <3>4. CASE u = t
      <4>1. current'[u] = n /\ status'[u] # "Waiting" /\ status[u] = "Waiting"
        BY <2>1, <3>4 DEF IInv, TypeOK
      <4> QED BY <2>2, <3>1, <3>2, <3>3, <3>4, <4>1
    <3>5. CASE u # t
      <4>1. current'[u] = current[u] /\ status'[u] = status[u]
        BY <2>1, <3>5 DEF IInv, TypeOK
      <4> QED BY <3>1, <3>2, <3>3, <4>1
    <3> QED BY <3>4, <3>5
  <2> QED BY <1>2, <2>3, HoldersStay DEF CountInv
<1> QED BY <1>4, <1>5

\* A job that rearms hands its place on to the status.
LEMMA PrepareRetryKeepsCount ==
    ASSUME IsFiniteSet(Recoverers), IInv, CountInv, NEW w \in Workers, PrepareRetry(w)
    PROVE  CountInv'
<1> PICK t : t = work[w].task
  OBVIOUS
<1>1. t \in Tasks /\ w \in Recoverers /\ Stays(w, "rearm") /\ UNCHANGED current
  BY Holds DEF PrepareRetry, Stays, CountInv
<1>2. PICK job : Goto(w, job) /\ job.step \in {"idle", "begin"} /\ MayHold(w, job)
  BY DEF PrepareRetry, At, Idle, MayHold
<1>3. ASSUME NEW u \in Tasks
      PROVE  current'[u] + Cardinality(Rearming(u)') + (IF status'[u] = "Waiting" THEN 1 ELSE 0)
                <= AutoLimit + Cardinality(Recoverers) - 1
  <2>1. Rearming(u) \subseteq Recoverers /\ AutoLimit \in Nat /\ current[u] \in Nat
    BY ConstantsAssumption DEF Rearming, IInv, TypeOK
  <2>2. /\ Cardinality(Rearming(u)) \in Nat /\ IsFiniteSet(Rearming(u))
        /\ Cardinality(Recoverers) \in Nat
    BY <2>1, SomeJobs
  <2>3. current[u] + Cardinality(Rearming(u)) + (IF status[u] = "Waiting" THEN 1 ELSE 0)
           <= AutoLimit + Cardinality(Recoverers) - 1
    BY DEF CountInv
  <2>4. CASE u = t
    <3>1. Rearming(u)' = Rearming(u) \ {w} /\ w \in Rearming(u)
      BY <1>1, <1>2, <2>4 DEF Rearming, Stays, Goto, IInv, TypeOK, Workers
    <3>2. Cardinality(Rearming(u)') = Cardinality(Rearming(u)) - 1
      BY <2>2, <3>1, FS_RemoveElement
    <3> QED BY <1>1, <2>1, <2>2, <2>3, <3>2
  <2>5. CASE u # t
    <3>1. status'[u] = status[u]
      BY <2>5 DEF PrepareRetry, IInv, TypeOK
    <3>2. Rearming(u)' \subseteq Rearming(u)
      BY <1>2, NoNewRearming
    <3>3. Cardinality(Rearming(u)') <= Cardinality(Rearming(u)) /\ Cardinality(Rearming(u)') \in Nat
      BY <2>1, <2>2, <3>2, SomeJobs, FS_Subset
    <3> QED BY <1>1, <2>1, <2>2, <2>3, <3>1, <3>3
  <2> QED BY <2>4, <2>5
<1> QED BY <1>2, <1>3, HoldersStay DEF CountInv

\* However many recovery jobs count the attempts of a task without a lock, and
\* whatever start jobs, results, administrators who terminate and withdrawals
\* do meanwhile, a task is given at most maxTaskAttempts attempts and one more
\* for each job beyond the first (retry). An administrator's retry takes no
\* count, so the behaviours with one are excluded.
THEOREM AttemptsAreBounded ==
    ASSUME IsFiniteSet(Recoverers), Recoverers # {}
    PROVE  Spec /\ NoManualRetry => []AutoAttemptsBounded
<1>1. Init => CountInv
  <2> SUFFICES ASSUME Init PROVE CountInv
    OBVIOUS
  <2>1. Cardinality(Recoverers) \in Nat /\ Cardinality(Recoverers) # 0
    BY FS_EmptySet, FS_CardinalityType
  <2>2. \A w \in Workers : work[w].step = "idle"
    BY DEF Init, Idle
  <2>3. \A t \in Tasks : Cardinality(Rearming(t)) = 0
    BY <2>2, FS_EmptySet DEF Rearming, Stays, Workers
  <2>4. ASSUME NEW t \in Tasks
        PROVE  current[t] + Cardinality(Rearming(t)) + (IF status[t] = "Waiting" THEN 1 ELSE 0)
                  <= AutoLimit + Cardinality(Recoverers) - 1
    <3>1. current[t] = 0 /\ Cardinality(Rearming(t)) = 0 /\ AutoLimit \in Nat \ {0}
      BY <2>3, ConstantsAssumption DEF Init
    <3> QED BY <2>1, <3>1
  <2> QED BY <2>2, <2>4 DEF CountInv
<1>2. IInv /\ CountInv /\ [Next]_vars /\ [~ManualRetry]_vars => CountInv'
  <2> SUFFICES ASSUME IInv, CountInv, [Next]_vars, [~ManualRetry]_vars PROVE CountInv'
    OBVIOUS
  <2>1. CASE UNCHANGED vars
    <3>1. QuietForCount /\ UNCHANGED work
      BY <2>1, NoNewRearming DEF QuietForCount, vars
    <3> QED BY <3>1, QuietKeepsCount
  <2>2. ASSUME NEW w \in Workers, Step(w) PROVE CountInv'
    BY <2>2, BeginKeepsCount, RestKeepsCount, AutoRetryKeepsCount, PrepareRetryKeepsCount
    DEF Step
  <2>3. ASSUME NEW w \in Workers, NEW t \in Tasks, Call(w, t) PROVE CountInv'
    <3>1. CASE ~RetryTask(w, t)
      BY <2>3, <3>1, CallsKeepCount
    <3>2. CASE RetryTask(w, t)
      BY <2>1, <3>2 DEF ManualRetry, RetryTask
    <3> QED BY <3>1, <3>2
  <2> QED BY <2>1, <2>2, <2>3, EventsKeepCount DEF Next
<1>3. IInv /\ CountInv => AutoAttemptsBounded
  <2> SUFFICES ASSUME IInv, CountInv, NEW t \in Tasks
               PROVE  Cardinality(Attempts(t)) <= AutoLimit + Cardinality(Recoverers) - 1
    BY DEF AutoAttemptsBounded
  <2>1. Rearming(t) \subseteq Recoverers
    BY DEF Rearming
  <2>2. /\ Cardinality(Rearming(t)) \in Nat /\ Cardinality(Recoverers) \in Nat
        /\ current[t] \in Nat /\ AutoLimit \in Nat
    BY <2>1, SomeJobs, ConstantsAssumption DEF IInv, TypeOK
  <2>3. current[t] + Cardinality(Rearming(t)) + (IF status[t] = "Waiting" THEN 1 ELSE 0)
           <= AutoLimit + Cardinality(Recoverers) - 1
    BY DEF CountInv
  <2> QED BY <2>2, <2>3, AttemptsCounted
<1> QED BY Invariance, <1>1, <1>2, <1>3, PTL DEF Spec, NoManualRetry
=============================================================================
