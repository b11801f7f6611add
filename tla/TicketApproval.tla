--------------------------- MODULE TicketApproval ---------------------------
(***************************************************************************)
(* One visit of an approval node: people, or administrators for them,      *)
(* agree, reject and hand tasks over, from the web and from Lark cards     *)
(* (internal/service/ticket/service.go: Pass, Reject, Transfer). An        *)
(* agreement may fill in fields of the node, which go into the ticket and  *)
(* into a form kept for the task before the engine is told.                *)
(*                                                                         *)
(* A step is one statement or transaction, or one call of the engine       *)
(* (easy-workflow, outside), which takes effect at once or not at all. A   *)
(* transfer reads its row without a lock: the read and the write are two   *)
(* steps. A row is named by the request that made it and its assignee.     *)
(***************************************************************************)
EXTENDS Naturals

CONSTANTS
    Users,
    Admins,    \* administrators among the users
    Assigned,  \* the assignees of the node when it is entered
    Fields,    \* fields the node asks for
    Merged,    \* those copied into the ticket (Field.Merge)
    Required,  \* those that must be filled in
    Requests,  \* calls of Pass, Reject and Transfer
    NoRequest

ASSUME TicketApprovalAssumption ==
    /\ Admins \subseteq Users
    /\ Assigned \subseteq Users /\ Assigned # {}
    /\ Merged \subseteq Fields /\ Required \subseteq Fields
    /\ NoRequest \notin Requests

Tasks == (Requests \cup {NoRequest}) \X Users

VARIABLES
    row,       \* [Tasks -> RowStatus]: proc_task
    assignee,  \* [Tasks -> Users]: its user_id
    cosigned,  \* its is_cosigned, the same for all rows of the node
    outcomes,  \* how often the process went on, or back, from this node
    data,      \* [Fields -> request that wrote the ticket's value]
    forms,     \* the forms kept: of which task, by which request
    request,   \* [Requests -> where the call stands]
    by,        \* [Tasks -> Votes]: what decided the row, a ghost
    raced      \* a transfer wrote after its row was no longer open, a ghost

tables == <<row, assignee, cosigned, outcomes, by>>
vars   == <<tables, data, forms, request, raced>>

Decided   == {"passed", "rejected"}
\* "over" is finished without a vote, since another one decided the node
RowStatus == Decided \cup {"none", "open", "over", "deleted"}
Steps     == {"new", "merge", "form", "pass", "reject", "read", "write", "done"}
Answers   == {"none", "ok", "finished", "invalid", "error"}
Calls     == [step : Steps, task : Tasks, user : Users, given : SUBSET Fields,
              targets : SUBSET Users, answer : Answers]
Votes     == [request : Requests \cup {NoRequest}, user : Users,
              given : SUBSET Fields]

TypeOK ==
    /\ row \in [Tasks -> RowStatus]
    /\ assignee \in [Tasks -> Users]
    /\ cosigned \in BOOLEAN
    /\ outcomes \in Nat
    /\ data \in [Fields -> Requests \cup {NoRequest}]
    /\ forms \subseteq Tasks \X Requests
    /\ request \in [Requests -> Calls]
    /\ by \in [Tasks -> Votes]
    /\ raced \in BOOLEAN

FirstUser == CHOOSE u \in Assigned : TRUE
NotSent   == [step |-> "new", task |-> <<NoRequest, FirstUser>>, user |-> FirstUser,
              given |-> {}, targets |-> {}, answer |-> "none"]
NoVote    == [request |-> NoRequest, user |-> FirstUser, given |-> {}]

Init ==
    /\ row = [k \in Tasks |-> IF k \in {NoRequest} \X Assigned THEN "open"
                                                              ELSE "none"]
    /\ assignee = [k \in Tasks |-> k[2]]
    /\ cosigned \in BOOLEAN
    /\ outcomes = 0
    /\ data = [f \in Fields |-> NoRequest]
    /\ forms = {}
    /\ request = [q \in Requests |-> NotSent]
    /\ by = [k \in Tasks |-> NoVote]
    /\ raced = FALSE

Step(q, s)   == request' = [request EXCEPT ![q].step = s]
\* The caller has his answer; of the call only the targets are kept
Answer(q, a) == request' = [request EXCEPT ![q] = [NotSent EXCEPT !.step = "done",
                              !.answer = a, !.targets = request[q].targets]]

-----------------------------------------------------------------------------
(***************************************************************************)
(* The checks every call begins with                                       *)
(***************************************************************************)

\* TaskInfo, which knows no deleted row, and ValidateTaskOperable
Check(k, u) ==
    IF row[k] = "deleted" THEN "error"
    ELSE IF row[k] # "open" THEN "finished"
    ELSE IF u \in Admins \cup {assignee[k]} THEN "ok" ELSE "error"

Refuse(q) ==
    /\ request[q].step = "new"
    /\ \E k \in Tasks, u \in Users :
         /\ row[k] # "none" /\ Check(k, u) # "ok"
         /\ Answer(q, Check(k, u))
    /\ UNCHANGED <<tables, data, forms, raced>>

Begin(q, k, u, c) ==
    /\ request[q].step = "new"
    /\ row[k] # "none" /\ Check(k, u) = "ok"
    /\ request' = [request EXCEPT ![q] = [c EXCEPT !.task = k, !.user = u]]
    /\ UNCHANGED <<tables, data, forms, raced>>

\* collectAndValidateFields: a required field is missing, or a value does not
\* match the field's expression
Invalid(q) ==
    /\ request[q].step = "new"
    /\ Fields # {}
    /\ \E k \in Tasks, u \in Users : row[k] # "none" /\ Check(k, u) = "ok"
    /\ Answer(q, "invalid")
    /\ UNCHANGED <<tables, data, forms, raced>>

-----------------------------------------------------------------------------
(***************************************************************************)
(* Pass                                                                    *)
(***************************************************************************)

\* Mutant of AfterChecks: a node that merges nothing goes straight to the engine
AfterChecksMerging(given) == IF given \cap Merged # {} THEN "merge" ELSE "pass"

\* Nothing to merge, nothing to keep: those statements are left out
AfterChecks(given) ==
    IF given \cap Merged # {} THEN "merge"
    ELSE IF given # {} THEN "form" ELSE "pass"

Pass(q) ==
    \E k \in Tasks, u \in Users, given \in SUBSET Fields :
        /\ Required \subseteq given
        /\ Begin(q, k, u, [NotSent EXCEPT !.step = AfterChecks(given),
                                          !.given = given])

\* Mutant of MergeTicketData: the ticket's data becomes what this form holds
MergeReplaces(q) ==
    /\ request[q].step = "merge"
    /\ data' = [f \in Fields |->
                  IF f \in request[q].given \cap Merged THEN q ELSE NoRequest]
    /\ Step(q, "form")
    /\ UNCHANGED <<tables, forms, raced>>

\* Under a row lock, key by key: the fields other approvals merged stay
MergeTicketData(q) ==
    /\ request[q].step = "merge"
    /\ data' = [f \in Fields |->
                  IF f \in request[q].given \cap Merged THEN q ELSE data[f]]
    /\ Step(q, "form")
    /\ UNCHANGED <<tables, forms, raced>>

CreateTaskForm(q) ==
    /\ request[q].step = "form"
    /\ forms' = forms \cup {<<request[q].task, q>>}
    /\ Step(q, "pass")
    /\ UNCHANGED <<tables, data, raced>>

\* Rows after a vote r on task k: a vote against, or any vote at a node that is
\* not cosigned, decides for the others too
Vote(k, r) ==
    [j \in Tasks |-> IF j = k THEN r
                     ELSE IF row[j] = "open" /\ (r = "rejected" \/ ~cosigned)
                       THEN "over" ELSE row[j]]

Unfinished(rows) == {k \in Tasks : rows[k] = "open"}

\* engine.TaskPass and TaskReject, which refuse a task that is finished or gone;
\* the process goes on, or back, when no task of the node is left
Decide(q, r) ==
    LET k == request[q].task IN
    IF row[k] = "open"
      THEN /\ row' = Vote(k, r)
           /\ outcomes' = IF Unfinished(Vote(k, r)) = {} THEN outcomes + 1
                                                         ELSE outcomes
           /\ by' = [by EXCEPT ![k] = [request |-> q, user |-> request[q].user,
                                     given |-> request[q].given]]
           /\ Answer(q, "ok")
           /\ UNCHANGED <<assignee, cosigned, data, forms, raced>>
      ELSE /\ Answer(q, "error")
           /\ UNCHANGED <<tables, data, forms, raced>>

EnginePass(q) == request[q].step = "pass" /\ Decide(q, "passed")

-----------------------------------------------------------------------------
(***************************************************************************)
(* Reject and Transfer                                                     *)
(***************************************************************************)

Reject(q) ==
    \E k \in Tasks, u \in Users :
        Begin(q, k, u, [NotSent EXCEPT !.step = "reject"])

EngineReject(q) == request[q].step = "reject" /\ Decide(q, "rejected")

Transfer(q) ==
    \E k \in Tasks, u \in Users, S \in (SUBSET Users) \ {{}} :
        Begin(q, k, u, [NotSent EXCEPT !.step = "read", !.targets = S])

\* The transaction's read of the old row ("任务已完成，无法转交")
TransferRead(q) ==
    /\ request[q].step = "read"
    /\ IF row[request[q].task] = "open" THEN Step(q, "write")
                                        ELSE Answer(q, "error")
    /\ UNCHANGED <<tables, data, forms, raced>>

\* Mutant of TransferWrite: the row is given to another user
TransferInPlace(q) ==
    LET k == request[q].task IN
    /\ request[q].step = "write"
    /\ assignee' = [assignee EXCEPT ![k] = CHOOSE u \in request[q].targets : TRUE]
    /\ raced' = (raced \/ row[k] # "open")
    /\ Answer(q, "ok")
    /\ UNCHANGED <<row, cosigned, outcomes, by, data, forms>>

\* Mutant of TransferWrite: nobody is handed his own task
TransferToOthers(q) ==
    LET k == request[q].task IN
    /\ request[q].step = "write"
    /\ row' = [j \in Tasks |->
                 IF j = k THEN "deleted"
                 ELSE IF j \in {q} \X (request[q].targets \ {assignee[k]}) THEN "open"
                 ELSE row[j]]
    /\ raced' = (raced \/ row[k] # "open")
    /\ Answer(q, "ok")
    /\ UNCHANGED <<assignee, cosigned, outcomes, by, data, forms>>

\* Its write: the old row is deleted, whatever it is by now, and each user gets
\* a copy of what was read, unfinished and in the same batch
TransferWrite(q) ==
    LET k == request[q].task IN
    /\ request[q].step = "write"
    /\ row' = [j \in Tasks |-> IF j = k THEN "deleted"
                               ELSE IF j \in {q} \X request[q].targets THEN "open"
                               ELSE row[j]]
    /\ raced' = (raced \/ row[k] # "open")
    /\ Answer(q, "ok")
    /\ UNCHANGED <<assignee, cosigned, outcomes, by, data, forms>>

-----------------------------------------------------------------------------
(***************************************************************************)
(* Errors, and what else happens to the node                               *)
(***************************************************************************)

\* A statement or the engine fails, or the process dies
Fail(q) ==
    /\ request[q].step \notin {"new", "done"}
    /\ Answer(q, "error")
    /\ UNCHANGED <<tables, data, forms, raced>>

\* The ticket is withdrawn: the engine archives the instance, and the tasks that
\* were open go with it
RevokeInstance ==
    /\ outcomes = 0
    /\ row' = [k \in Tasks |-> IF row[k] = "open" THEN "deleted" ELSE row[k]]
    /\ outcomes' = 1
    /\ UNCHANGED <<assignee, cosigned, by, data, forms, request, raced>>

Call(q) == \/ Refuse(q) \/ Invalid(q) \/ Fail(q)
           \/ Pass(q) \/ MergeTicketData(q) \/ CreateTaskForm(q) \/ EnginePass(q)
           \/ Reject(q) \/ EngineReject(q)
           \/ Transfer(q) \/ TransferRead(q) \/ TransferWrite(q)

Next == RevokeInstance \/ \E q \in Requests : Call(q)

Spec == Init /\ [][Next]_vars

-----------------------------------------------------------------------------
(***************************************************************************)
(* Safety                                                                  *)
(***************************************************************************)

\* A vote that counts was its assignee's or an administrator's, also when the
\* task changed hands between the check and the vote (ValidateTaskOperable).
DecidedByAssignee ==
    \A k \in Tasks : row[k] \in Decided =>
        /\ by[k].request \in Requests
        /\ by[k].user \in Admins \cup {assignee[k]}

\* What an agreement filled in is in the task's form, and every merged field of
\* it has a value in the ticket: no other approval takes it out (Pass;
\* MergeTicketData).
VoteOnRecord ==
    \A k \in Tasks : row[k] = "passed" =>
        /\ by[k].given # {} => <<k, by[k].request>> \in forms
        /\ \A f \in by[k].given \cap Merged : data[f] # NoRequest

\* Somebody is asked as long as the node is not decided, and nobody afterwards,
\* and it is decided once, unless a transfer wrote after its task was decided
\* (dao/engine.go, Transfer).
NodeFollowsTasks ==
    /\ outcomes = 0 => Unfinished(row) # {}
    /\ ~raced => /\ outcomes \in {0, 1}
                 /\ outcomes = 1 => Unfinished(row) = {}

\* "任务已完成，无法转交" (dao/engine.go, Transfer): a task that was decided is not
\* handed over.
VotesKept == [][\A k \in Tasks : row[k] \in Decided => row'[k] = row[k]]_vars

\* The remark of a Lark card (Handle): "agreed" or "rejected" unless the error is
\* that the task was finished, or the form is invalid
SaysDecided(q) == request[q].answer \in {"ok", "error"}

\* "你已同意该申请": who is told that he has decided has decided.
RemarkIsTrue ==
    \A q \in Requests :
        request[q].step = "done" /\ request[q].targets = {} /\ SaysDecided(q)
          => \E k \in Tasks : by[k].request = q

\* What is in the ticket was filled in with a vote that counts.
DataIsVoted ==
    outcomes > 0 => \A f \in Fields : data[f] # NoRequest
                                        => \E k \in Tasks : by[k].request = data[f]

(***************************************************************************)
(* The inductive invariant: what a call may rely on between its steps      *)
(***************************************************************************)
Fits(q, c) ==
    /\ c.step \notin {"new", "done"} => /\ c.user \in Admins \cup {assignee[c.task]}
                                        /\ row[c.task] # "none"
    /\ c.step \in {"form", "pass"} => \A f \in c.given \cap Merged : data[f] # NoRequest
    /\ c.step = "pass" /\ c.given # {} => <<c.task, q>> \in forms
    /\ c.step \in {"read", "write"} => c.targets # {}
    /\ c.step # "done" => \A u \in Users : row[<<q, u>>] = "none"

CallsFit == \A q \in Requests : Fits(q, request[q])

IInv == TypeOK /\ CallsFit /\ DecidedByAssignee /\ VoteOnRecord /\ NodeFollowsTasks
=============================================================================
