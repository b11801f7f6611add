----------------------------- MODULE TicketStart -----------------------------
(***************************************************************************)
(* How a ticket gets its process instance. A request inserts the ticket's  *)
(* row and sends a start event (internal/service/ticket/service.go); a     *)
(* consumer takes the event and calls the engine                           *)
(* (internal/event/process/consumer.go), whose start node calls back       *)
(* EventStart (internal/service/event/easyflow/process.go), and both of    *)
(* them bind the instance to the row. An applicant restarts a ticket whose *)
(* start failed or stalled. Meanwhile the process may already end or be    *)
(* withdrawn: the end node's event writes END before the engine ends the   *)
(* instance, and a revoke checks the ticket before the engine archives it. *)
(*                                                                         *)
(* Each database statement is a step. Kafka and the engine (easy-workflow) *)
(* are outside the repository: Kafka may deliver an event again, a message *)
(* whose handler fails is not read again (mqx.ConsumeLoop), a failed send  *)
(* may have been delivered, and the engine commits an instance with its    *)
(* variables before it calls EventStart.                                   *)
(***************************************************************************)
EXTENDS TaskDomain, Naturals, FiniteSets

CONSTANTS
    Tickets,     \* rows of the ticket table
    Instances,   \* process instances of the engine
    Keys,        \* business keys of alert tickets
    Requesters,  \* goroutines that create tickets
    Restarters,  \* goroutines in RestartProcess
    Consumers,   \* ProcessEventConsumer goroutines
    NoTicket, NoInstance, NoKey,
    MaxEvents,   \* bound: start events of one ticket at a time
    MaxFaults    \* bound: errors, crashes and repeated deliveries

ASSUME TicketStartAssumption ==
    /\ MaxEvents \in Nat
    /\ MaxFaults \in Nat
    /\ NoTicket \notin Tickets
    /\ NoInstance \notin Instances
    /\ NoKey \notin Keys
    /\ Requesters \cap Restarters = {}
    /\ Requesters \cap Consumers = {}
    /\ Restarters \cap Consumers = {}

Workers == Requesters \cup Restarters \cup Consumers

VARIABLES
    status,   \* [Tickets -> RowStatus]
    key,      \* [Tickets -> Keys \cup {NoKey}]
    bound,    \* [Tickets -> Instances \cup {NoInstance}]: process_instance_id
    events,   \* [Tickets -> 0..MaxEvents]: start events not handled yet
    owner,    \* [Instances -> Tickets \cup {NoTicket}]: variable ticket_id
    phase,    \* [Instances -> Phases]
    endNode,  \* [Instances -> EndSteps]: how far the engine is with the end node
    revoking, \* instances whose EventRevoke has let the archiving pass
    failed,   \* instances whose InstanceStart returned an error
    work,     \* [Workers -> Jobs]: where each goroutine stands
    lost,     \* tickets whose start was given up with no record of it
    blind,    \* tickets created after the lookup of their key had failed
    reopened, \* instances bound once more after END was written for them
    faults    \* faults so far

rows   == <<status, key, bound>>
engine == <<owner, phase, endNode, revoking, failed>>
ghosts == <<lost, blind, reopened>>
vars   == <<rows, events, engine, work, ghosts, faults>>

RowStatus == {"None", "START", "START_FAILED"} \cup TicketStatus
Phases == {"none", "created", "running", "ended", "revoked"}
EndSteps == {"ahead", "reached", "notified"}
Steps  == {"idle", "insert", "blindInsert", "send", "mark", "prepare", "find",
           "created", "nodes", "bind"}
Jobs   == [step : Steps, ticket : Tickets \cup {NoTicket},
           inst : Instances \cup {NoInstance}, key : Keys \cup {NoKey}]

Idle == [step |-> "idle", ticket |-> NoTicket, inst |-> NoInstance,
         key |-> NoKey]

TypeOK ==
    /\ status \in [Tickets -> RowStatus]
    /\ key \in [Tickets -> Keys \cup {NoKey}]
    /\ bound \in [Tickets -> Instances \cup {NoInstance}]
    /\ events \in [Tickets -> 0..MaxEvents]
    /\ owner \in [Instances -> Tickets \cup {NoTicket}]
    /\ phase \in [Instances -> Phases]
    /\ endNode \in [Instances -> EndSteps]
    /\ revoking \subseteq Instances
    /\ failed \subseteq Instances
    /\ work \in [Workers -> Jobs]
    /\ lost \subseteq Tickets
    /\ blind \subseteq Tickets
    /\ reopened \subseteq Instances
    /\ faults \in 0..MaxFaults

Init ==
    /\ status = [t \in Tickets |-> "None"]
    /\ key = [t \in Tickets |-> NoKey]
    /\ bound = [t \in Tickets |-> NoInstance]
    /\ events = [t \in Tickets |-> 0]
    /\ owner = [i \in Instances |-> NoTicket]
    /\ phase = [i \in Instances |-> "none"]
    /\ endNode = [i \in Instances |-> "ahead"]
    /\ revoking = {}
    /\ failed = {}
    /\ work = [w \in Workers |-> Idle]
    /\ lost = {}
    /\ blind = {}
    /\ reopened = {}
    /\ faults = 0

Stays(w, s) == work[w].step = s
Job(w)      == work[w]
Goto(w, s)  == work' = [work EXCEPT ![w].step = s]
Done(w)     == work' = [work EXCEPT ![w] = Idle]
Fault       == faults < MaxFaults /\ faults' = faults + 1

-----------------------------------------------------------------------------
(***************************************************************************)
(* The statements of TicketDAO                                             *)
(***************************************************************************)

\* Status.AllowsProcessRestart
AllowsProcessRestart(s) == s \in {"START", "START_FAILED"}

\* Ticket.CanRestartProcess
CanRestartProcess(t) == bound[t] = NoInstance /\ AllowsProcessRestart(status[t])

\* FindByBizIdAndKey, with the statuses CreateBizTicket asks for
OpenWithKey(k) ==
    {t \in Tickets : key[t] = k /\ status[t] \in
        {"START", "PROCESS", "WITHDRAWING", "START_FAILED"}}

\* Mutant of MarkProcessStartFailed: only after a restart
MarkOnlyAgain(t) ==
    status' = IF bound[t] = NoInstance /\ status[t] = "START_FAILED"
                THEN [status EXCEPT ![t] = "START_FAILED"] ELSE status

\* MarkProcessStartFailed touches only a ticket that is not bound yet
MarkProcessStartFailed(t) ==
    status' = IF CanRestartProcess(t)
                THEN [status EXCEPT ![t] = "START_FAILED"] ELSE status

\* RegisterProcessInstanceId does not look at the row's status
BindProcessInstanceID(t, i) ==
    /\ bound' = [bound EXCEPT ![t] = i]
    /\ status' = [status EXCEPT ![t] = "PROCESS"]
    /\ UNCHANGED key

-----------------------------------------------------------------------------
(***************************************************************************)
(* Requests: CreateBizTicket, CreateTicket                                 *)
(***************************************************************************)

\* An alert with a key that has no open ticket; one with an open ticket gets
\* that ticket back and changes nothing
FindOpenTicket(w, k) ==
    /\ w \in Requesters
    /\ Stays(w, "idle")
    /\ OpenWithKey(k) = {}
    /\ work' = [work EXCEPT ![w] = [Idle EXCEPT !.step = "insert", !.key = k]]
    /\ UNCHANGED <<rows, events, engine, ghosts, faults>>

\* The lookup's error is only logged
FindFails(w, k) ==
    /\ w \in Requesters
    /\ Stays(w, "idle")
    /\ Fault
    /\ work' = [work EXCEPT ![w] =
                  [Idle EXCEPT !.step = "blindInsert", !.key = k]]
    /\ UNCHANGED <<rows, events, engine, ghosts>>

\* CreateTicket, which reads the template first and knows no key
CreateTicket(w) ==
    /\ w \in Requesters
    /\ Stays(w, "idle")
    /\ Goto(w, "insert")
    /\ UNCHANGED <<rows, events, engine, ghosts, faults>>

Insert(w) ==
    /\ work[w].step \in {"insert", "blindInsert"}
    /\ \E t \in Tickets :
         /\ status[t] = "None"
         /\ status' = [status EXCEPT ![t] = "START"]
         /\ key' = [key EXCEPT ![t] = work[w].key]
         /\ blind' = IF Stays(w, "blindInsert") THEN blind \cup {t} ELSE blind
         /\ work' = [work EXCEPT ![w].step = "send", ![w].ticket = t]
    /\ UNCHANGED <<bound, events, engine, lost, reopened, faults>>

\* sendGenerateFlowEvent
Send(w) ==
    LET t == work[w].ticket IN
    /\ Stays(w, "send")
    /\ events[t] < MaxEvents
    /\ events' = [events EXCEPT ![t] = @ + 1]
    /\ Done(w)
    /\ UNCHANGED <<rows, engine, ghosts, faults>>

\* The producer reports an error, though the event may have been written
SendFails(w) ==
    LET t == work[w].ticket IN
    /\ Stays(w, "send")
    /\ Fault
    /\ \/ UNCHANGED events
       \/ events[t] < MaxEvents /\ events' = [events EXCEPT ![t] = @ + 1]
    /\ Goto(w, "mark")
    /\ UNCHANGED <<rows, engine, ghosts>>

\* Sending, or starting the instance, failed and the row is told so
Mark(w) ==
    /\ Stays(w, "mark")
    /\ MarkProcessStartFailed(work[w].ticket)
    /\ Done(w)
    /\ UNCHANGED <<key, bound, events, engine, ghosts, faults>>

-----------------------------------------------------------------------------
(***************************************************************************)
(* RestartProcess: reads the ticket, then asks again in the update         *)
(***************************************************************************)

RestartProcess(w, t) ==
    /\ w \in Restarters
    /\ Stays(w, "idle")
    /\ CanRestartProcess(t)
    /\ work' = [work EXCEPT ![w].step = "prepare", ![w].ticket = t]
    /\ UNCHANGED <<rows, events, engine, ghosts, faults>>

\* Mutant of PrepareProcessRestart: trusts the ticket read before
PrepareUnchecked(w) ==
    LET t == work[w].ticket IN
    /\ Stays(w, "prepare")
    /\ status' = [status EXCEPT ![t] = "START"]
    /\ lost' = lost \ {t}
    /\ Goto(w, "send")
    /\ UNCHANGED <<key, bound, events, engine, blind, reopened, faults>>

PrepareProcessRestart(w) ==
    LET t == work[w].ticket IN
    /\ Stays(w, "prepare")
    /\ IF CanRestartProcess(t)
         THEN /\ status' = [status EXCEPT ![t] = "START"]
              /\ lost' = lost \ {t}
              /\ Goto(w, "send")
         ELSE Done(w) /\ UNCHANGED <<status, lost>>
    /\ UNCHANGED <<key, bound, events, engine, blind, reopened, faults>>

-----------------------------------------------------------------------------
(***************************************************************************)
(* ProcessEventConsumer.handleTask                                         *)
(***************************************************************************)

\* Mutant of Receive: no look at the binding
ReceiveAlways(w, t) ==
    /\ w \in Consumers
    /\ Stays(w, "idle")
    /\ events[t] > 0
    /\ \/ events' = [events EXCEPT ![t] = @ - 1] /\ UNCHANGED faults
       \/ UNCHANGED events /\ Fault
    /\ work' = [work EXCEPT ![w].step = "find", ![w].ticket = t]
    /\ UNCHANGED <<rows, engine, ghosts>>

\* Takes an event, which Kafka may keep, and reads the ticket. A ticket that
\* is bound already is skipped.
Receive(w, t) ==
    /\ w \in Consumers
    /\ Stays(w, "idle")
    /\ events[t] > 0
    /\ \/ events' = [events EXCEPT ![t] = @ - 1] /\ UNCHANGED faults
       \/ UNCHANGED events /\ Fault
    /\ IF bound[t] = NoInstance
         THEN work' = [work EXCEPT ![w].step = "find", ![w].ticket = t]
         ELSE UNCHANGED work
    /\ UNCHANGED <<rows, engine, ghosts>>

\* engine.InstanceStart commits the instance with its variables ...
InstanceStart(w) ==
    /\ Stays(w, "find")
    /\ \E i \in Instances :
         /\ phase[i] = "none"
         /\ phase' = [phase EXCEPT ![i] = "created"]
         /\ owner' = [owner EXCEPT ![i] = work[w].ticket]
         /\ work' = [work EXCEPT ![w].step = "created", ![w].inst = i]
    /\ UNCHANGED <<rows, events, endNode, revoking, failed, ghosts, faults>>

\* ... and calls EventStart, which finds the ticket through the variable ...
EventStart(w) ==
    LET i == work[w].inst IN
    /\ Stays(w, "created")
    /\ BindProcessInstanceID(owner[i], i)
    /\ phase' = [phase EXCEPT ![i] = "running"]
    /\ Goto(w, "nodes")
    /\ UNCHANGED <<events, owner, endNode, revoking, failed, ghosts, faults>>

\* ... or fails to load its context or to bind
EventStartFails(w) ==
    /\ Stays(w, "created")
    /\ Fault
    /\ failed' = failed \cup {work[w].inst}
    /\ Goto(w, "mark")
    /\ UNCHANGED <<rows, events, owner, phase, endNode, revoking, ghosts>>

\* The engine runs the nodes behind the start node before it returns
NodesRun(w) ==
    /\ Stays(w, "nodes")
    /\ Goto(w, "bind")
    /\ UNCHANGED <<rows, events, engine, ghosts, faults>>

\* The handler of one of them returns an error
NodesFail(w) ==
    /\ Stays(w, "nodes")
    /\ Fault
    /\ failed' = failed \cup {work[w].inst}
    /\ Goto(w, "mark")
    /\ UNCHANGED <<rows, events, owner, phase, endNode, revoking, ghosts>>

\* END has been written for the instance
Notified(i) == endNode[i] = "notified"

\* The consumer binds what EventStart has bound already
Bind(w) ==
    LET i == work[w].inst IN
    /\ Stays(w, "bind")
    /\ BindProcessInstanceID(work[w].ticket, i)
    /\ reopened' = IF Notified(i) THEN reopened \cup {i} ELSE reopened
    /\ Done(w)
    /\ UNCHANGED <<events, engine, lost, blind, faults>>

\* A goroutine stops between two steps: its process dies, or a statement fails
\* whose error the code only returns or logs
GiveUp(w) ==
    LET t == work[w].ticket IN
    /\ ~Stays(w, "idle")
    /\ Fault
    /\ lost' = IF work[w].step \in {"send", "mark", "find", "created"}
                 THEN lost \cup {t} ELSE lost
    /\ Done(w)
    /\ UNCHANGED <<rows, events, engine, blind, reopened>>

-----------------------------------------------------------------------------
(***************************************************************************)
(* What becomes of the instance, also while InstanceStart is still running *)
(***************************************************************************)

\* The engine comes to the end node
ReachEnd(i) ==
    /\ phase[i] = "running"
    /\ endNode[i] = "ahead"
    /\ endNode' = [endNode EXCEPT ![i] = "reached"]
    /\ UNCHANGED <<rows, events, owner, phase, revoking, failed, work, ghosts, faults>>

\* Its start event closes the ticket that is bound to the instance, whatever
\* the ticket's status and whatever has become of the instance meanwhile ...
EventNotify(i) ==
    /\ endNode[i] = "reached"
    /\ endNode' = [endNode EXCEPT ![i] = "notified"]
    /\ status' = [t \in Tickets |-> IF bound[t] = i THEN "END" ELSE status[t]]
    /\ UNCHANGED <<key, bound, events, owner, phase, revoking, failed, work,
                   ghosts, faults>>

\* ... and then the engine ends the instance, if it has not been archived
EndInstance(i) ==
    /\ endNode[i] = "notified"
    /\ phase[i] = "running"
    /\ phase' = [phase EXCEPT ![i] = "ended"]
    /\ UNCHANGED <<rows, events, owner, endNode, revoking, failed, work, ghosts, faults>>

\* WithdrawalDAO.Prepare
PrepareWithdrawal(t) ==
    /\ status[t] = "PROCESS"
    /\ status' = [status EXCEPT ![t] = "WITHDRAWING"]
    /\ UNCHANGED <<key, bound, events, engine, work, ghosts, faults>>

\* engine.InstanceRevoke first calls EventRevoke, which looks at the ticket ...
EventRevoke(t) ==
    /\ status[t] = "WITHDRAWING"
    /\ phase[bound[t]] = "running"
    /\ revoking' = revoking \cup {bound[t]}
    /\ UNCHANGED <<rows, events, owner, phase, endNode, failed, work, ghosts, faults>>

\* ... and then archives the instance, unless it has ended
ArchiveInstance(i) ==
    /\ i \in revoking
    /\ revoking' = revoking \ {i}
    /\ phase' = IF phase[i] = "running" THEN [phase EXCEPT ![i] = "revoked"] ELSE phase
    /\ UNCHANGED <<rows, events, owner, endNode, failed, work, ghosts, faults>>

\* Mutant of FinalizeWithdrawal: the update without its condition on the status
FinalizeArchived(t) ==
    /\ bound[t] # NoInstance
    /\ phase[bound[t]] = "revoked"
    /\ status' = [status EXCEPT ![t] = "WITHDRAW"]
    /\ UNCHANGED <<key, bound, events, engine, work, ghosts, faults>>

\* WithdrawalDAO.TryFinalize, which the service reaches after the engine
FinalizeWithdrawal(t) ==
    /\ status[t] = "WITHDRAWING"
    /\ phase[bound[t]] = "revoked"
    /\ status' = [status EXCEPT ![t] = "WITHDRAW"]
    /\ UNCHANGED <<key, bound, events, engine, work, ghosts, faults>>

\* WithdrawalDAO.Rollback, when the engine did not archive the instance. The
\* request that was to archive it has given up, or died: the recovery job
\* comes only five minutes later.
RollbackWithdrawal(t) ==
    /\ status[t] = "WITHDRAWING"
    /\ phase[bound[t]] # "revoked"
    /\ status' = [status EXCEPT ![t] = "PROCESS"]
    /\ revoking' = revoking \ {bound[t]}
    /\ UNCHANGED <<key, bound, events, owner, phase, endNode, failed, work, ghosts,
                   faults>>

-----------------------------------------------------------------------------
Consume(w) ==
    \/ \E t \in Tickets : Receive(w, t)
    \/ InstanceStart(w) \/ EventStart(w) \/ NodesRun(w) \/ Bind(w)

Request(w) ==
    \/ \E k \in Keys : FindOpenTicket(w, k) \/ FindFails(w, k)
    \/ \E t \in Tickets : RestartProcess(w, t)
    \/ CreateTicket(w) \/ Insert(w) \/ PrepareProcessRestart(w)

Fail(w) ==
    SendFails(w) \/ EventStartFails(w) \/ NodesFail(w) \/ GiveUp(w)

Next ==
    \/ \E w \in Workers :
         Request(w) \/ Consume(w) \/ Send(w) \/ Mark(w) \/ Fail(w)
    \/ \E i \in Instances :
         \/ ReachEnd(i) \/ EventNotify(i) \/ EndInstance(i)
         \/ ArchiveInstance(i)
    \/ \E t \in Tickets :
         \/ PrepareWithdrawal(t) \/ EventRevoke(t)
         \/ FinalizeWithdrawal(t) \/ RollbackWithdrawal(t)

Spec == Init /\ [][Next]_vars

-----------------------------------------------------------------------------
(***************************************************************************)
(* Properties                                                              *)
(***************************************************************************)

\* Repeated deliveries, restarts during a start and crashes leave a ticket
\* with one started instance at the most: the consumer's check of the binding
\* and the early binding in EventStart, with one consumer of the topic.
OneInstancePerTicket ==
    \A i, j \in Instances :
        /\ phase[i] \notin {"none", "created"}
        /\ phase[j] \notin {"none", "created"}
        /\ owner[i] = owner[j]
        => i = j

\* A row is in a status before the start exactly as long as no instance is
\* bound, so that a late MarkProcessStartFailed or restart leaves a started
\* ticket alone and an unstarted one can always be restarted.
BoundIffStarted ==
    \A t \in Tickets :
        bound[t] = NoInstance <=> status[t] \in {"None", "START", "START_FAILED"}

\* The goroutines that still work on the start of a ticket
Starters(t) ==
    {w \in Workers : work[w].ticket = t
                     /\ work[w].step \in {"send", "mark", "find", "created"}}

\* A ticket waits in START only while an event or a goroutine will start it or
\* mark it, unless a step of its start was given up.
WaitsForSomething ==
    \A t \in Tickets :
        status[t] = "START" => events[t] > 0 \/ Starters(t) # {} \/ t \in lost

\* No END is lost and none is made up: a ticket shows END exactly when the end
\* node of its own instance has said so, however that write and the statements
\* of a withdrawal overtake each other, and only the consumer's second binding
\* takes it back. WITHDRAW is shown only for an instance the engine archived.
EndMatchesEngine ==
    \A t \in Tickets : bound[t] # NoInstance =>
        /\ status[t] = "END" <=> Notified(bound[t]) /\ bound[t] \notin reopened
        /\ status[t] = "WITHDRAW" => phase[bound[t]] = "revoked"

\* The tickets whose process can still go on
Live(t) ==
    /\ status[t] \in {"START", "START_FAILED", "PROCESS", "WITHDRAWING"}
    /\ bound[t] # NoInstance => phase[bound[t]] = "running"

\* One requester whose lookups succeed never has two live tickets of one key
\* (CreateBizTicket's check; two requesters at once can pass it together).
OneLiveTicketPerKey ==
    \A t, u \in Tickets :
        Live(t) /\ Live(u) /\ key[t] = key[u] /\ key[t] # NoKey
            /\ t \notin blind /\ u \notin blind
        => t = u

\* A ticket that ended or was withdrawn stays so ("不可逆的终结状态",
\* Status.IsTerminal)
TerminalIsIrreversible ==
    [][\A t \in Tickets :
         status[t] \in {"END", "WITHDRAW"} => status'[t] = status[t]]_vars

\* A ticket whose InstanceStart failed is kept for another start
\* ("已保留工单等待重试", handleTask)
FailedStartIsKept ==
    \A i \in failed :
        (\A w \in Workers : work[w].inst # i) => CanRestartProcess(owner[i])

-----------------------------------------------------------------------------
(***************************************************************************)
(* The inductive invariant                                                 *)
(***************************************************************************)

Started == {"running", "ended", "revoked"}

\* What a goroutine knows of the ticket and the instance it works on
JobsFit ==
    \A w \in Workers :
        /\ work[w].step \in {"send", "mark", "prepare", "find", "created", "nodes", "bind"}
              => work[w].ticket \in Tickets
        /\ work[w].step \in {"created", "nodes", "bind"}
              => work[w].inst \in Instances /\ owner[work[w].inst] = work[w].ticket
        /\ work[w].step = "created" => phase[work[w].inst] = "created"
        /\ work[w].step \in {"nodes", "bind"} => phase[work[w].inst] \in Started

\* An instance that was just created has one goroutine behind it.
OneStarter ==
    \A w, v \in Workers :
        Stays(w, "created") /\ Stays(v, "created") /\ work[w].inst = work[v].inst => w = v

\* What a ticket is bound to is a started instance of its own.
BoundToOwn ==
    \A t \in Tickets :
        bound[t] # NoInstance => owner[bound[t]] = t /\ phase[bound[t]] \in Started

\* The end node and a revoke come after the start, and END before it is taken
\* back.
EndComesLast ==
    \A i \in Instances :
        /\ phase[i] \in {"none", "created"} => endNode[i] = "ahead"
        /\ i \in reopened => Notified(i)
        /\ i \in revoking => phase[i] \in Started

IInv == /\ TypeOK /\ JobsFit /\ OneStarter /\ BoundToOwn /\ EndComesLast
        /\ BoundIffStarted /\ WaitsForSomething /\ EndMatchesEngine

\* With one consumer of the topic, a ticket it starts is not bound by anyone
\* else, and every started instance is known to its ticket.
SingleConsumer == \A c, d \in Consumers : c = d

StartsAlone ==
    \A w \in Workers :
        /\ work[w].step \in {"find", "created"} => bound[work[w].ticket] = NoInstance
        /\ work[w].step \in {"find", "created", "nodes", "bind"} => w \in Consumers

StartedIsKnown ==
    \A i \in Instances :
        phase[i] \in Started => owner[i] \in Tickets /\ bound[owner[i]] # NoInstance

SingleIInv == IInv /\ StartsAlone /\ StartedIsKnown /\ OneInstancePerTicket
=============================================================================
