--------------------------- MODULE ProcessAdvance ---------------------------
(***************************************************************************)
(* How automation tasks and the approval engine drive one another. The     *)
(* engine reaches an automation node and calls EventAutomation             *)
(* (internal/service/event/easyflow/process.go), which creates the node's  *)
(* task and starts it at once when it is due (CreateTask); the start job   *)
(* starts the others. The pass job hands every successful task back to the *)
(* engine (internal/service/task/pass_process_task_job.go), which goes on  *)
(* to the next node. People approve, reject and withdraw meanwhile.        *)
(*                                                                         *)
(* A step is one database statement or transaction, or what the engine     *)
(* does between two calls to this repository. The engine (easy-workflow)   *)
(* is outside: it calls the node's start event before it inserts the       *)
(* node's task, a start event that fails makes the whole call fail         *)
(* (IgnoreEventError is false), and the caller may repeat a failed call.   *)
(* Attempts, etask and compensations are in AutomationTask and Withdrawal: *)
(* here a task is waiting, at work or at rest.                             *)
(***************************************************************************)
EXTENDS Naturals, Sequences, SequencesExt, FiniteSets

CONSTANTS
    Procs,       \* process instances, each with its ticket
    Path,        \* [Procs -> Seq(nodes)]: the way through the instance
    Users,       \* the approval nodes among the nodes
    Raced,       \* automation nodes that share an inclusive gateway with an
                 \* approver whose pass finishes their task too
    Jobs,        \* pass jobs, one in each process of the service
    NoCaller, Person,
    PageLimit,   \* limit of the pass job's pages
    StartLimit,  \* limit of ListReady
    MaxVisits,   \* bound: visits of a node
    MaxFaults    \* bound: errors and crashes

Nodes     == UNION {ToSet(Path[p]) : p \in Procs}
AutoNodes == Nodes \ Users

ASSUME ProcessAdvanceAssumption ==
    /\ IsFiniteSet(Nodes)
    /\ DOMAIN Path = Procs
    /\ \A p \in Procs : Path[p] \in Seq(Nodes) /\ Path[p] # <<>> /\ Path[p][1] \in Users
    /\ \A p, q \in Procs : \A i \in DOMAIN Path[p], k \in DOMAIN Path[q] :
          Path[p][i] = Path[q][k] => p = q /\ i = k
    /\ Raced \subseteq AutoNodes
    /\ PageLimit \in Nat \ {0} /\ StartLimit \in Nat \ {0}
    /\ MaxVisits \in Nat \ {0} /\ MaxFaults \in Nat
    /\ NoCaller \notin Jobs /\ Person \notin Jobs /\ NoCaller # Person

\* Where a node is: it is on one path, once
ProcOf(n)  == CHOOSE p \in Procs : n \in ToSet(Path[p])
IndexOf(n) == CHOOSE k \in 1..Len(Path[ProcOf(n)]) : Path[ProcOf(n)][k] = n

VARIABLES
    ticket,    \* [Procs -> TicketStatus]
    pos,       \* [Procs -> index]: the node of the engine's newest task
    row,       \* [Procs -> status of that task]; "sibling" when only the
               \* approver beside it has one, "gone" with the instance
    call,      \* [Procs -> Calls]: the engine call under way
    visits,    \* [Nodes -> Nat]
    task,      \* [AutoNodes -> TaskState]
    advanced,  \* [AutoNodes -> BOOLEAN]: advanced_at is set
    id,        \* [AutoNodes -> Nat]: the id of the task, in the order of which tasks
               \* are due too; 0 before it exists
    job,       \* [Jobs -> position of a pass job]
    missed,    \* nodes to be marked as advanced before the engine is done
    skipped,   \* nodes whose newest engine task a sibling's pass finished
    faults

engine == <<pos, row, call, visits>>
tasks  == <<task, advanced, id>>
ghosts == <<missed, skipped>>
vars   == <<ticket, engine, tasks, job, ghosts, faults>>

TicketState == {"PROCESS", "WITHDRAWING", "WITHDRAW", "END"}
TaskState   == {"Absent", "Waiting", "Blocked", "Active", "Failed", "Success",
                "Cancelled"}
JobSteps    == {"list", "check", "lookup", "pass", "passing", "mark"}

NoCall   == [step |-> "none", to |-> 0, by |-> NoCaller]
JobStart == [step |-> "list", todo |-> {}, full |-> FALSE, after |-> 0,
             found |-> <<>>]

RowState == {"open", "finished", "sibling", "gone"}
Calls    == [step : {"none", "enter", "start", "insert", "end"}, to : Nat,
             by : Jobs \cup {Person, NoCaller}]
JobState == [step : JobSteps, todo : SUBSET AutoNodes, full : BOOLEAN, after : Nat,
             found : {<<>>} \cup (Nodes \X Nat)]

TypeOK ==
    /\ ticket \in [Procs -> TicketState]
    /\ pos \in [Procs -> Nat] /\ \A p \in Procs : pos[p] \in 1..Len(Path[p])
    /\ row \in [Procs -> RowState]
    /\ call \in [Procs -> Calls]
    /\ visits \in [Nodes -> Nat]
    /\ task \in [AutoNodes -> TaskState]
    /\ advanced \in [AutoNodes -> BOOLEAN]
    /\ id \in [AutoNodes -> Nat]
    /\ job \in [Jobs -> JobState]
    /\ missed \subseteq AutoNodes /\ skipped \subseteq Raced
    /\ faults \in 0..MaxFaults

Init ==
    /\ ticket = [p \in Procs |-> "PROCESS"]
    /\ pos = [p \in Procs |-> 1]
    /\ row = [p \in Procs |-> "open"]
    /\ call = [p \in Procs |-> NoCall]
    /\ visits = [n \in Nodes |-> IF \E p \in Procs : Path[p][1] = n
                                   THEN 1 ELSE 0]
    /\ task = [n \in AutoNodes |-> "Absent"]
    /\ advanced = [n \in AutoNodes |-> FALSE]
    /\ id = [n \in AutoNodes |-> 0]
    /\ job = [j \in Jobs |-> JobStart]
    /\ missed = {}
    /\ skipped = {}
    /\ faults = 0

Fault == faults < MaxFaults /\ faults' = faults + 1

Current(p) == Path[p][pos[p]]
\* The engine's newest task
EngineTask(p) == <<Current(p), visits[Current(p)]>>
\* The engine's task of this node is unfinished
OpenAt(n)  == LET p == ProcOf(n) IN row[p] = "open" /\ Current(p) = n
\* The engine has yet to come to this node, or is on its way to it, or somebody's
\* pass of its task is under way and may still fail
Unsettled(n) == LET p == ProcOf(n) IN
    /\ row[p] # "gone"
    /\ \/ IndexOf(n) > pos[p] \/ call[p].to = IndexOf(n)
       \/ Current(p) = n /\ row[p] = "finished" /\ n \notin skipped

-----------------------------------------------------------------------------
(***************************************************************************)
(* The pass job's loop                                                     *)
(***************************************************************************)

\* ORDER BY id LIMIT limit
Lowest(rows, limit) ==
    {n \in rows : Cardinality({m \in rows : id[m] < id[n]}) < limit}

Unadvanced == {n \in AutoNodes : task[n] = "Success" /\ ~advanced[n]}

\* Mutant of Page: no cursor
PageFromStart(after) == Lowest(Unadvanced, PageLimit)

\* ListSucceededUnadvanced
Page(after) == Lowest({n \in Unadvanced : id[n] > after}, PageLimit)

\* The task of a page that comes next
Oldest(todo) == CHOOSE n \in todo : \A m \in todo : id[n] <= id[m]

\* On to the next task of the page, to the next page behind the last task of a
\* full one, or to the next run
NextTask(r) ==
    LET rest == r.todo \ {Oldest(r.todo)} IN
    IF rest # {} THEN [r EXCEPT !.step = "check", !.todo = rest, !.found = <<>>]
    ELSE IF r.full THEN [JobStart EXCEPT !.after = id[Oldest(r.todo)]] ELSE JobStart

GoOn(j)    == job' = [job EXCEPT ![j] = NextTask(@)]
Step(j, s) == job' = [job EXCEPT ![j].step = s]
Task(j)    == Oldest(job[j].todo)

List(j) ==
    LET page == Page(job[j].after) IN
    /\ job[j].step = "list"
    /\ job' = [job EXCEPT ![j] =
                 IF page = {} THEN JobStart
                 ELSE [step |-> "check", todo |-> page,
                       full |-> Cardinality(page) = PageLimit, after |-> 0,
                       found |-> <<>>]]
    /\ UNCHANGED <<ticket, engine, tasks, ghosts, faults>>

\* Mutant of ShouldAdvance: whatever is not in process is closed
ShouldAdvanceOrClose(p) == IF ticket[p] = "PROCESS" THEN "yes" ELSE "no"

\* ShouldAdvanceProcessTask: a withdrawal under way may still be taken back, so
\* its tasks are left alone; those of a closed ticket need nothing any more
ShouldAdvance(p) ==
    IF ticket[p] = "WITHDRAWING" THEN "later"
    ELSE IF ticket[p] = "PROCESS" THEN "yes" ELSE "no"

Check(j) ==
    LET should == ShouldAdvance(ProcOf(Task(j))) IN
    /\ job[j].step = "check"
    /\ \/ should = "later" /\ GoOn(j)
       \/ should = "yes" /\ Step(j, "lookup")
       \/ should = "no" /\ Step(j, "mark")
    /\ UNCHANGED <<ticket, engine, tasks, ghosts, faults>>

\* Mutant of Found: any unfinished task of the instance
FoundAny(n) == row[ProcOf(n)] = "open"

\* GetAutomationTask finds the node's unfinished task, if there is one
Found(n) == OpenAt(n)

Lookup(j) ==
    LET n == Task(j) IN
    /\ job[j].step = "lookup"
    /\ IF Found(n)
         THEN /\ job' = [job EXCEPT ![j].step = "pass",
                           ![j].found = EngineTask(ProcOf(n))]
              /\ UNCHANGED missed
         ELSE /\ Step(j, "mark")
              /\ missed' = IF Unsettled(n) THEN missed \cup {n} ELSE missed
    /\ UNCHANGED <<ticket, engine, tasks, skipped, faults>>

\* engine.Pass of the task found, which refuses one that is finished
Pass(j) ==
    LET p == ProcOf(Task(j)) IN
    /\ job[j].step = "pass"
    /\ IF row[p] = "open" /\ EngineTask(p) = job[j].found
         THEN /\ row' = [row EXCEPT ![p] = "finished"]
              /\ call' = [call EXCEPT ![p] =
                            [step |-> "enter", to |-> pos[p] + 1, by |-> j]]
              /\ Step(j, "passing")
         ELSE GoOn(j) /\ UNCHANGED <<row, call>>
    /\ UNCHANGED <<ticket, pos, visits, tasks, ghosts, faults>>

\* MarkTaskAsAutoPassed
Mark(j) ==
    /\ job[j].step = "mark"
    /\ advanced' = [advanced EXCEPT ![Task(j)] = TRUE]
    /\ GoOn(j)
    /\ UNCHANGED <<ticket, engine, task, id, ghosts, faults>>

\* A statement of the job fails: the run goes on with the next task, or ends
\* when it has no page
JobError(j) ==
    /\ Fault
    /\ \/ job[j].step = "list" /\ job' = [job EXCEPT ![j] = JobStart]
       \/ job[j].step \in {"check", "lookup", "pass", "mark"} /\ GoOn(j)
    /\ UNCHANGED <<ticket, engine, tasks, ghosts>>

\* The service dies outside an engine call and starts again
JobCrash(j) ==
    /\ job[j].step \notin {"list", "passing"}
    /\ Fault
    /\ job' = [job EXCEPT ![j] = JobStart]
    /\ UNCHANGED <<ticket, engine, tasks, ghosts>>

-----------------------------------------------------------------------------
(***************************************************************************)
(* The engine's call goes on to the next node, whoever made it             *)
(***************************************************************************)

\* What the caller does next: a pass job marks its task, or leaves it to its
\* next run when the call failed
Return(p, ok) ==
    job' = [j \in Jobs |->
              IF call[p].by # j THEN job[j]
              ELSE IF ok THEN [job[j] EXCEPT !.step = "mark"]
              ELSE NextTask(job[j])]

\* The engine inserts the task of the node
Arrive(p) ==
    LET k == call[p].to IN
    /\ pos' = [pos EXCEPT ![p] = k]
    /\ row' = [row EXCEPT ![p] = "open"]
    /\ visits' = [visits EXCEPT ![Path[p][k]] = @ + 1]
    /\ call' = [call EXCEPT ![p] = NoCall]
    /\ skipped' = skipped \ {Path[p][k]}
    /\ Return(p, TRUE)

\* The start event failed, so the call failed and may be made again
CallFails(p) ==
    /\ row' = [row EXCEPT ![p] = IF Current(p) \in skipped THEN "sibling"
                                                          ELSE "open"]
    /\ call' = [call EXCEPT ![p] = NoCall]
    /\ Return(p, FALSE)
    /\ UNCHANGED <<pos, visits>>

Target(p) == Path[p][call[p].to]
Entering(p) == call[p].step = "enter" /\ call[p].to <= Len(Path[p])

ComesToEnd(p) == call[p].step = "enter" /\ call[p].to = Len(Path[p]) + 1

\* EventNotify, the start event of the end node, closes the ticket, also one in
\* a withdrawal ...
EventNotify(p) ==
    /\ ComesToEnd(p)
    /\ ticket' = [ticket EXCEPT ![p] = "END"]
    /\ call' = [call EXCEPT ![p].step = "end"]
    /\ UNCHANGED <<pos, row, visits, tasks, job, ghosts, faults>>

\* ... or fails, and the call with it ...
EventNotifyFails(p) ==
    /\ ComesToEnd(p)
    /\ Fault
    /\ CallFails(p)
    /\ UNCHANGED <<ticket, tasks, ghosts>>

\* ... and only then the engine ends the instance
EndProcess(p) ==
    /\ call[p].step = "end"
    /\ row' = [row EXCEPT ![p] = "gone"]
    /\ call' = [call EXCEPT ![p] = NoCall]
    /\ Return(p, TRUE)
    /\ UNCHANGED <<ticket, pos, visits, tasks, ghosts, faults>>

EnterUserNode(p) ==
    /\ Entering(p) /\ Target(p) \in Users
    /\ Arrive(p)
    /\ UNCHANGED <<ticket, tasks, missed, faults>>

NextId == Cardinality({n \in AutoNodes : id[n] > 0}) + 1

\* EventAutomation finds the task of an earlier visit or of a failed call ...
FindTask(p) ==
    /\ Entering(p) /\ Target(p) \in AutoNodes
    /\ task[Target(p)] # "Absent"
    /\ call' = [call EXCEPT ![p].step = "insert"]
    /\ UNCHANGED <<ticket, pos, row, visits, tasks, job, ghosts, faults>>

\* ... or creates it, to be started now or when it is due ...
CreateTask(p) ==
    LET n == Target(p) IN
    /\ Entering(p) /\ n \in AutoNodes
    /\ task[n] = "Absent"
    /\ task' = [task EXCEPT ![n] = "Waiting"]
    /\ id' = [id EXCEPT ![n] = NextId]
    /\ \E s \in {"start", "insert"} : call' = [call EXCEPT ![p].step = s]
    /\ UNCHANGED <<ticket, pos, row, visits, advanced, job, ghosts, faults>>

\* ... or cannot read its definition and stores it blocked
CreateBlocked(p) ==
    LET n == Target(p) IN
    /\ Entering(p) /\ n \in AutoNodes
    /\ task[n] = "Absent"
    /\ Fault
    /\ task' = [task EXCEPT ![n] = "Blocked"]
    /\ id' = [id EXCEPT ![n] = NextId]
    /\ CallFails(p)
    /\ UNCHANGED <<ticket, advanced, ghosts>>

\* StartTask inside CreateTask: Begin refuses a ticket that is not in process
StartNow(p) ==
    LET n == Target(p) IN
    /\ call[p].step = "start"
    /\ task' = IF task[n] = "Waiting" /\ ticket[p] = "PROCESS"
                 THEN [task EXCEPT ![n] = "Active"] ELSE task
    /\ call' = [call EXCEPT ![p].step = "insert"]
    /\ UNCHANGED <<ticket, pos, row, visits, advanced, id, job, ghosts, faults>>

\* Its error is the event's error, though the task stays blocked or submitted
StartNowFails(p) ==
    LET n == Target(p) IN
    /\ call[p].step = "start"
    /\ Fault
    /\ task[n] = "Waiting" /\ ticket[p] = "PROCESS"
    /\ \E s \in {"Blocked", "Active", "Failed"} : task' = [task EXCEPT ![n] = s]
    /\ CallFails(p)
    /\ UNCHANGED <<ticket, advanced, id, ghosts>>

InsertTask(p) ==
    /\ call[p].step = "insert"
    /\ Arrive(p)
    /\ UNCHANGED <<ticket, tasks, missed, faults>>

EngineCall(p) ==
    \/ EnterUserNode(p) \/ FindTask(p) \/ CreateTask(p) \/ StartNow(p)
    \/ InsertTask(p) \/ EventNotify(p) \/ EndProcess(p)

EventFails(p) == CreateBlocked(p) \/ StartNowFails(p) \/ EventNotifyFails(p)

-----------------------------------------------------------------------------
(***************************************************************************)
(* People                                                                  *)
(***************************************************************************)

CallByPerson(p, k) ==
    /\ row[p] \in {"open", "sibling"}
    /\ row' = [row EXCEPT ![p] = "finished"]
    /\ call' = [call EXCEPT ![p] = [step |-> "enter", to |-> k, by |-> Person]]
    /\ UNCHANGED <<pos, visits>>

\* An approver passes the node
UserPasses(p) ==
    /\ Current(p) \in Users
    /\ CallByPerson(p, pos[p] + 1)
    /\ pos[p] < Len(Path[p]) => visits[Path[p][pos[p] + 1]] < MaxVisits
    /\ UNCHANGED <<ticket, tasks, job, ghosts, faults>>

\* An approver rejects it: the engine goes back to the node before
UserRejects(p) ==
    /\ Current(p) \in Users /\ pos[p] > 1
    /\ CallByPerson(p, pos[p] - 1)
    /\ visits[Path[p][pos[p] - 1]] < MaxVisits
    /\ UNCHANGED <<ticket, tasks, job, ghosts, faults>>

\* An approver beside an automation node behind an inclusive gateway passes
\* first, and UpdateIsFinishedByPreNodeId finishes the node's task
SiblingPasses(p) ==
    /\ Current(p) \in Raced
    /\ CallByPerson(p, pos[p] + 1)
    /\ skipped' = skipped \cup {Current(p)}
    /\ UNCHANGED <<ticket, tasks, job, missed, faults>>

\* WithdrawalDAO.Prepare
PrepareWithdrawal(p) ==
    /\ ticket[p] = "PROCESS"
    /\ \A n \in AutoNodes : ProcOf(n) = p => task[n] # "Active"
    /\ ticket' = [ticket EXCEPT ![p] = "WITHDRAWING"]
    /\ UNCHANGED <<engine, tasks, job, ghosts, faults>>

\* engine.InstanceRevoke, between two calls of the engine: a revoke that falls
\* into the end of the instance is in Withdrawal and TicketStart
RevokeInstance(p) ==
    /\ ticket[p] = "WITHDRAWING"
    /\ row[p] \in {"open", "sibling"}
    /\ row' = [row EXCEPT ![p] = "gone"]
    /\ UNCHANGED <<ticket, pos, call, visits, tasks, job, ghosts, faults>>

\* WithdrawalDAO.Rollback, when the engine did not archive the instance
RollbackWithdrawal(p) ==
    /\ ticket[p] = "WITHDRAWING"
    /\ row[p] # "gone"
    /\ ticket' = [ticket EXCEPT ![p] = "PROCESS"]
    /\ UNCHANGED <<engine, tasks, job, ghosts, faults>>

\* ActivateCompensations without compensations, and TryFinalize
FinalizeWithdrawal(p) ==
    /\ ticket[p] = "WITHDRAWING"
    /\ row[p] = "gone"
    /\ ticket' = [ticket EXCEPT ![p] = "WITHDRAW"]
    /\ task' = [n \in AutoNodes |->
                  IF ProcOf(n) = p /\ task[n] \in {"Waiting", "Blocked", "Failed"}
                    THEN "Cancelled" ELSE task[n]]
    /\ UNCHANGED <<engine, advanced, id, job, ghosts, faults>>

-----------------------------------------------------------------------------
(***************************************************************************)
(* The start job and what becomes of a task                                *)
(***************************************************************************)

\* Mutant of ListReady: failed and blocked tasks are listed too
ListNotDone ==
    Lowest({n \in AutoNodes : task[n] \in {"Waiting", "Failed", "Blocked"}}, StartLimit)

\* ListReady: the oldest waiting tasks, of whatever ticket
ListReady == Lowest({n \in AutoNodes : task[n] = "Waiting"}, StartLimit)

\* The start job starts what it listed; Begin refuses a task whose ticket is
\* not in process
StartTask(n) ==
    /\ n \in ListReady
    /\ ticket[ProcOf(n)] = "PROCESS"
    /\ task[n] = "Waiting"
    /\ task' = [task EXCEPT ![n] = "Active"]
    /\ UNCHANGED <<ticket, engine, advanced, id, job, ghosts, faults>>

\* prepareAttempt fails, whatever the ticket's status
StartTaskBlocks(n) ==
    /\ n \in ListReady
    /\ Fault
    /\ task[n] = "Waiting"
    /\ task' = [task EXCEPT ![n] = "Blocked"]
    /\ UNCHANGED <<ticket, engine, advanced, id, job, ghosts>>

\* The result of an execution reaches the task
Succeed(n) ==
    /\ task[n] = "Active"
    /\ task' = [task EXCEPT ![n] = "Success"]
    /\ UNCHANGED <<ticket, engine, advanced, id, job, ghosts, faults>>

ExecutionFails(n) ==
    /\ task[n] = "Active"
    /\ Fault
    /\ task' = [task EXCEPT ![n] = "Failed"]
    /\ UNCHANGED <<ticket, engine, advanced, id, job, ghosts>>

\* PrepareRetry, by the recovery job or an administrator
Retry(n) ==
    /\ task[n] \in {"Failed", "Blocked", "Cancelled"}
    /\ task' = [task EXCEPT ![n] = "Waiting"]
    /\ UNCHANGED <<ticket, engine, advanced, id, job, ghosts, faults>>

-----------------------------------------------------------------------------
PassJob(j) == List(j) \/ Check(j) \/ Lookup(j) \/ Pass(j) \/ Mark(j)

People(p) ==
    \/ UserPasses(p) \/ UserRejects(p) \/ SiblingPasses(p)
    \/ PrepareWithdrawal(p) \/ RevokeInstance(p)
    \/ RollbackWithdrawal(p) \/ FinalizeWithdrawal(p)

Next ==
    \/ \E j \in Jobs : PassJob(j) \/ JobError(j) \/ JobCrash(j)
    \/ \E p \in Procs : EngineCall(p) \/ EventFails(p)
    \/ \E p \in Procs : People(p)
    \/ \E n \in AutoNodes :
         \/ StartTask(n) \/ StartTaskBlocks(n)
         \/ Succeed(n) \/ ExecutionFails(n) \/ Retry(n)

Spec == Init /\ [][Next]_vars

\* The two jobs run again and again, and an engine call goes on to its end.
Fairness ==
    /\ \A j \in Jobs : WF_vars(PassJob(j))
    /\ \A p \in Procs : WF_vars(EngineCall(p))
    /\ \A n \in AutoNodes : WF_vars(StartTask(n))

FairSpec == Spec /\ Fairness

-----------------------------------------------------------------------------
(***************************************************************************)
(* Properties                                                              *)
(***************************************************************************)

\* A process waits at an automation node for a task that is handed over
\* already only when the task was marked before the engine came to the node, or
\* during another job's Pass that failed, or when the node is visited again.
\* Errors, crashes between Pass and the mark, withdrawals that are taken back
\* and approvals beside the node lead to no other case.
StuckOnlyIfMissed ==
    \A n \in AutoNodes :
        OpenAt(n) /\ advanced[n] => n \in missed \/ visits[n] > 1

\* The pass job finishes nobody else's engine task: what it passes belongs to an
\* automation node whose task has succeeded, also when it repeats what a dead
\* job did, or people got there between its lookup and its pass.
PassedWithResult ==
    [][\A p \in Procs :
         row[p] = "open" /\ row'[p] = "finished" /\ call'[p].by \in Jobs
            => Current(p) \in AutoNodes /\ task[Current(p)] = "Success"]_vars

\* A result reaches the engine, however many tasks of frozen processes the
\* pages hold before it.
ResultDelivered ==
    \A n \in AutoNodes :
        OpenAt(n) /\ task[n] = "Success" /\ ~advanced[n]
            ~> ~OpenAt(n) \/ advanced[n] \/ ticket[ProcOf(n)] # "PROCESS"

\* Waiting tasks the start job cannot start
Frozen == {n \in AutoNodes : task[n] = "Waiting" /\ ticket[ProcOf(n)] # "PROCESS"}

\* A waiting task of a process that goes on is started, as long as tasks that
\* cannot be started do not fill the start job's list.
ReadyTaskStarts ==
    \A n \in AutoNodes :
        task[n] = "Waiting" /\ ticket[ProcOf(n)] = "PROCESS"
            ~> \/ task[n] # "Waiting" \/ ticket[ProcOf(n)] # "PROCESS"
               \/ Cardinality(Frozen) >= StartLimit

\* A task marked without a pass is one whose node the engine is done with
\* ("该节点任务已完结或被跳过", PassProcessTaskJob.run)
MarkedIsDone == missed = {}

-----------------------------------------------------------------------------
(***************************************************************************)
(* The inductive invariant                                                 *)
(***************************************************************************)

\* The engine is done with the visit of this node that the task was made for: it
\* has gone on, has come to its end, was archived, or a sibling finished its task
Over(n) ==
    \/ visits[n] > 1
    \/ row[ProcOf(n)] = "gone"
    \/ ticket[ProcOf(n)] = "END"
    \/ /\ visits[n] = 1
       /\ Current(ProcOf(n)) = n => n \in skipped /\ row[ProcOf(n)] # "open"

\* A call lasts while its task is finished and goes to a node beside it; a job
\* that makes one waits for it, and closed tickets have no instance, or one that
\* the engine is about to end
EngineInv ==
    \A p \in Procs :
        /\ call[p].step = "none" <=> row[p] # "finished"
        /\ row[p] = "finished" =>
             call[p].to \in {pos[p] - 1, pos[p] + 1} /\ call[p].to >= 1
        /\ call[p].step \in {"start", "insert"} => call[p].to <= Len(Path[p])
        /\ \A j \in Jobs : call[p].by = j =>
             row[p] = "finished" /\ job[j].step = "passing" /\ Task(j) = Current(p)
        /\ row[p] = "sibling" => Current(p) \in skipped
        /\ ticket[p] = "END" => row[p] = "gone" \/ call[p].step = "end"
        /\ ticket[p] = "WITHDRAW" => row[p] = "gone"
        /\ \A k \in 1..pos[p] : visits[Path[p][k]] >= 1

\* A job has tasks that have succeeded, the engine's task it found is its own
\* task's, and it marks a task when the engine is done with it, or errs
Sound(r) ==
    /\ r.step # "list" => r.todo # {}
    /\ \A n \in r.todo : task[n] = "Success"
    /\ r.step = "pass" => r.found # <<>> /\ r.found[1] = Oldest(r.todo)
    /\ r.step = "mark" => Oldest(r.todo) \in missed \/ Over(Oldest(r.todo))

JobInv == \A j \in Jobs : Sound(job[j])

MarkInv == \A n \in AutoNodes : advanced[n] => n \in missed \/ Over(n)

AdvanceInv == TypeOK /\ EngineInv /\ JobInv /\ MarkInv
=============================================================================
