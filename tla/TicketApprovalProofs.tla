------------------------ MODULE TicketApprovalProofs ------------------------
(***************************************************************************)
(* However many people and requests there are, and wherever requests fail: *)
(* a vote that counts was its assignee's or an administrator's and is on   *)
(* record, and the node is decided once unless a transfer overtook it.     *)
(***************************************************************************)
EXTENDS TicketApproval, TLAPS

LEMMA FirstUserIsUser == FirstUser \in Users
BY TicketApprovalAssumption DEF TicketApprovalAssumption, FirstUser

LEMMA NotSentCall ==
  /\ NotSent \in Calls /\ NoVote \in Votes
  /\ NotSent.step = "new" /\ NotSent.answer = "none"
BY FirstUserIsUser DEF NotSent, NoVote, Calls, Votes, Tasks, Steps, Answers

LEMMA InitHolds == Init => IInv
<1> SUFFICES ASSUME Init PROVE IInv
  OBVIOUS
<1>1. TypeOK
  BY NotSentCall DEF Init, TypeOK, Tasks, RowStatus
<1>2. CallsFit
  <2> SUFFICES ASSUME NEW q \in Requests PROVE Fits(q, request[q])
    BY DEF CallsFit
  <2>1. request[q].step = "new"
    BY NotSentCall DEF Init
  <2>2. ASSUME NEW u \in Users PROVE row[<<q, u>>] = "none"
    BY TicketApprovalAssumption DEF Init, TicketApprovalAssumption, Tasks
  <2> QED BY <2>1, <2>2 DEF Fits
<1>3. \A k \in Tasks : row[k] \in {"none", "open"}
  BY DEF Init
<1>4. DecidedByAssignee /\ VoteOnRecord
  BY <1>3 DEF DecidedByAssignee, VoteOnRecord, Decided
<1>5. NodeFollowsTasks
  <2>1. PICK u \in Assigned : TRUE
    BY TicketApprovalAssumption DEF TicketApprovalAssumption
  <2>2. <<NoRequest, u>> \in Unfinished(row)
    BY <2>1, TicketApprovalAssumption DEF Init, TicketApprovalAssumption, Tasks, Unfinished
  <2> QED BY <2>2 DEF Init, NodeFollowsTasks
<1> QED BY <1>1, <1>2, <1>4, <1>5 DEF IInv

(***************************************************************************)
(* What a step does to its own call                                        *)
(***************************************************************************)
Becomes(q, c) == c \in Calls /\ request' = [request EXCEPT ![q] = c]

LEMMA StepEdit ==
  ASSUME TypeOK, NEW q \in Requests, NEW s \in Steps, Step(q, s)
  PROVE  \E c \in Calls : /\ Becomes(q, c) /\ c.step = s
                          /\ c.task = request[q].task /\ c.user = request[q].user
                          /\ c.given = request[q].given /\ c.targets = request[q].targets
<1>1. PICK c : c = [request[q] EXCEPT !.step = s]
  OBVIOUS
<1>2. request' = [request EXCEPT ![q] = c]
  BY <1>1 DEF Step, TypeOK
<1>3. request[q] \in Calls
  BY DEF TypeOK
<1>4. /\ c \in Calls /\ c.step = s
      /\ c.task = request[q].task /\ c.user = request[q].user
      /\ c.given = request[q].given /\ c.targets = request[q].targets
  BY <1>1, <1>3 DEF Calls
<1> QED BY <1>2, <1>4 DEF Becomes

LEMMA AnswerEdit ==
  ASSUME TypeOK, NEW q \in Requests, NEW a \in Answers, Answer(q, a)
  PROVE  \E c \in Calls : Becomes(q, c) /\ c.step = "done"
<1>1. PICK c : c = [NotSent EXCEPT !.step = "done", !.answer = a,
                                   !.targets = request[q].targets]
  OBVIOUS
<1>2. request[q] \in Calls
  BY DEF TypeOK
<1>3. c \in Calls /\ c.step = "done"
  BY <1>1, <1>2, NotSentCall DEF Calls, Steps
<1> QED BY <1>1, <1>3 DEF Becomes, Answer

(***************************************************************************)
(* A step that leaves the engine's tables alone                            *)
(***************************************************************************)
LEMMA CallStep ==
  ASSUME IInv, NEW q \in Requests, NEW c \in Calls, Becomes(q, c),
         UNCHANGED <<tables, raced>>,
         data' \in [Fields -> Requests \cup {NoRequest}],
         \A f \in Fields : data[f] # NoRequest => data'[f] # NoRequest,
         forms \subseteq forms', forms' \subseteq Tasks \X Requests,
         Fits(q, c)'
  PROVE  IInv'
<1>1. TypeOK'
  BY DEF IInv, TypeOK, tables, Becomes
<1>2. CallsFit'
  <2> SUFFICES ASSUME NEW p \in Requests PROVE Fits(p, request[p])'
    BY DEF CallsFit
  <2>1. CASE p = q
    BY <2>1 DEF Becomes, IInv, TypeOK, Fits
  <2>2. CASE p # q
    <3>1. request'[p] = request[p] /\ request[p] \in Calls
      BY <2>2 DEF Becomes, IInv, TypeOK
    <3>2. Fits(p, request[p])
      BY DEF IInv, CallsFit
    <3>3. request[p].given \subseteq Fields
      BY <3>1 DEF Calls
    <3> QED BY <3>1, <3>2, <3>3 DEF Fits, tables
  <2> QED BY <2>1, <2>2
<1>3. DecidedByAssignee'
  BY DEF IInv, DecidedByAssignee, tables
<1>4. VoteOnRecord'
  <2> SUFFICES ASSUME NEW k \in Tasks, row[k] = "passed"
               PROVE  /\ by[k].given # {} => <<k, by[k].request>> \in forms'
                      /\ \A f \in by[k].given \cap Merged : data'[f] # NoRequest
    BY DEF VoteOnRecord, tables
  <2>1. by[k].given \subseteq Fields
    BY DEF IInv, TypeOK, Votes
  <2> QED BY <2>1 DEF IInv, VoteOnRecord
<1>5. NodeFollowsTasks'
  BY DEF IInv, NodeFollowsTasks, tables, Unfinished
<1> QED BY <1>1, <1>2, <1>3, <1>4, <1>5 DEF IInv

LEMMA AnswerKeeps ==
  ASSUME IInv, NEW q \in Requests, NEW a \in Answers, Answer(q, a),
         UNCHANGED <<tables, data, forms, raced>>
  PROVE  IInv'
<1>1. PICK c \in Calls : Becomes(q, c) /\ c.step = "done"
  BY AnswerEdit DEF IInv
<1>2. Fits(q, c)'
  BY <1>1 DEF Fits
<1>3. /\ data' \in [Fields -> Requests \cup {NoRequest}]
      /\ forms' \subseteq Tasks \X Requests
  BY DEF IInv, TypeOK
<1> QED BY <1>1, <1>2, <1>3, CallStep

LEMMA RefuseKeeps ==
  ASSUME IInv, NEW q \in Requests, Refuse(q) \/ Invalid(q) \/ Fail(q)
  PROVE  IInv'
<1>1. ASSUME Refuse(q) PROVE IInv'
  <2>1. PICK k \in Tasks, u \in Users : Answer(q, Check(k, u))
    BY <1>1 DEF Refuse
  <2>2. Check(k, u) \in Answers
    BY DEF Check, Answers
  <2> QED BY <1>1, <2>1, <2>2, AnswerKeeps DEF Refuse
<1>2. ASSUME Invalid(q) PROVE IInv'
  BY <1>2, AnswerKeeps DEF Invalid, Answers
<1>3. ASSUME Fail(q) PROVE IInv'
  BY <1>3, AnswerKeeps DEF Fail, Answers
<1> QED BY <1>1, <1>2, <1>3

(***************************************************************************)
(* The checks, and the tables of the ticket                                *)
(***************************************************************************)
LEMMA BeginKeeps ==
  ASSUME IInv, NEW q \in Requests, NEW k \in Tasks, NEW u \in Users, NEW o \in Calls,
         Begin(q, k, u, o),
         o.step \in {"form", "pass"} => o.given \cap Merged = {},
         o.step = "pass" => o.given = {},
         o.step \in {"read", "write"} => o.targets # {}
  PROVE  IInv'
<1>1. PICK c : c = [o EXCEPT !.task = k, !.user = u]
  OBVIOUS
<1>2. /\ c \in Calls /\ c.step = o.step /\ c.task = k /\ c.user = u
      /\ c.given = o.given /\ c.targets = o.targets
  BY <1>1 DEF Calls
<1>3. request' = [request EXCEPT ![q] = c]
  BY <1>1 DEF Begin
<1>4. row[k] # "none" /\ u \in Admins \cup {assignee[k]} /\ request[q].step = "new"
  BY DEF Begin, Check
<1>5. \A v \in Users : row[<<q, v>>] = "none"
  BY <1>4 DEF IInv, CallsFit, Fits
<1>6. Fits(q, c)'
  BY <1>2, <1>4, <1>5 DEF Fits, Begin, tables
<1>7. /\ data' \in [Fields -> Requests \cup {NoRequest}]
      /\ forms' \subseteq Tasks \X Requests
  BY DEF IInv, TypeOK, Begin
<1> QED BY <1>2, <1>3, <1>6, <1>7, CallStep DEF Becomes, Begin

LEMMA PassKeeps ==
  ASSUME IInv, NEW q \in Requests, Pass(q)
  PROVE  IInv'
<1>1. PICK k \in Tasks, u \in Users, given \in SUBSET Fields :
        Begin(q, k, u, [NotSent EXCEPT !.step = AfterChecks(given), !.given = given])
  BY DEF Pass
<1>2. PICK o : o = [NotSent EXCEPT !.step = AfterChecks(given), !.given = given]
  OBVIOUS
<1>3. /\ AfterChecks(given) \in {"merge", "form", "pass"}
      /\ AfterChecks(given) \in {"form", "pass"} => given \cap Merged = {}
      /\ AfterChecks(given) = "pass" => given = {}
  BY DEF AfterChecks
<1>4. o \in Calls /\ o.step = AfterChecks(given) /\ o.given = given
  BY <1>2, <1>3, NotSentCall DEF Calls, Steps
<1> QED BY <1>1, <1>2, <1>3, <1>4, BeginKeeps

LEMMA RejectKeeps ==
  ASSUME IInv, NEW q \in Requests, Reject(q)
  PROVE  IInv'
<1>1. PICK k \in Tasks, u \in Users : Begin(q, k, u, [NotSent EXCEPT !.step = "reject"])
  BY DEF Reject
<1>2. PICK o : o = [NotSent EXCEPT !.step = "reject"]
  OBVIOUS
<1>3. o \in Calls /\ o.step = "reject"
  BY <1>2, NotSentCall DEF Calls, Steps
<1> QED BY <1>1, <1>2, <1>3, BeginKeeps

LEMMA TransferKeeps ==
  ASSUME IInv, NEW q \in Requests, Transfer(q)
  PROVE  IInv'
<1>1. PICK k \in Tasks, u \in Users, S \in (SUBSET Users) \ {{}} :
        Begin(q, k, u, [NotSent EXCEPT !.step = "read", !.targets = S])
  BY DEF Transfer
<1>2. PICK o : o = [NotSent EXCEPT !.step = "read", !.targets = S]
  OBVIOUS
<1>3. o \in Calls /\ o.step = "read" /\ o.targets = S
  BY <1>2, NotSentCall DEF Calls, Steps
<1> QED BY <1>1, <1>2, <1>3, BeginKeeps

LEMMA MergeKeeps ==
  ASSUME IInv, NEW q \in Requests, MergeTicketData(q)
  PROVE  IInv'
<1>1. PICK c \in Calls : /\ Becomes(q, c) /\ c.step = "form"
                         /\ c.task = request[q].task /\ c.user = request[q].user
                         /\ c.given = request[q].given
  BY StepEdit DEF IInv, MergeTicketData, Steps
<1>2. request[q] \in Calls /\ request[q].step = "merge" /\ Fits(q, request[q])
  BY DEF IInv, TypeOK, CallsFit, MergeTicketData
<1>3. /\ data' \in [Fields -> Requests \cup {NoRequest}]
      /\ \A f \in Fields : data[f] # NoRequest => data'[f] # NoRequest
      /\ \A f \in c.given \cap Merged : data'[f] # NoRequest
  BY <1>1, TicketApprovalAssumption
     DEF MergeTicketData, TicketApprovalAssumption, IInv, TypeOK
<1>4. Fits(q, c)'
  BY <1>1, <1>2, <1>3 DEF Fits, MergeTicketData, tables
<1>5. forms' \subseteq Tasks \X Requests
  BY DEF IInv, TypeOK, MergeTicketData
<1> QED BY <1>1, <1>3, <1>4, <1>5, CallStep DEF MergeTicketData

LEMMA FormKeeps ==
  ASSUME IInv, NEW q \in Requests, CreateTaskForm(q)
  PROVE  IInv'
<1>1. PICK c \in Calls : /\ Becomes(q, c) /\ c.step = "pass"
                         /\ c.task = request[q].task /\ c.user = request[q].user
                         /\ c.given = request[q].given
  BY StepEdit DEF IInv, CreateTaskForm, Steps
<1>2. request[q] \in Calls /\ request[q].step = "form" /\ Fits(q, request[q])
  BY DEF IInv, TypeOK, CallsFit, CreateTaskForm
<1>3. /\ forms \subseteq forms' /\ forms' \subseteq Tasks \X Requests
      /\ <<c.task, q>> \in forms'
      /\ data' \in [Fields -> Requests \cup {NoRequest}]
  BY <1>1, <1>2 DEF CreateTaskForm, IInv, TypeOK, Calls
<1>4. Fits(q, c)'
  BY <1>1, <1>2, <1>3 DEF Fits, CreateTaskForm, tables
<1> QED BY <1>1, <1>3, <1>4, CallStep DEF CreateTaskForm

LEMMA ReadKeeps ==
  ASSUME IInv, NEW q \in Requests, TransferRead(q)
  PROVE  IInv'
<1>1. CASE row[request[q].task] # "open"
  BY <1>1, AnswerKeeps DEF TransferRead, Answers
<1>2. CASE row[request[q].task] = "open"
  <2>1. PICK c \in Calls : /\ Becomes(q, c) /\ c.step = "write"
                           /\ c.task = request[q].task /\ c.user = request[q].user
                           /\ c.targets = request[q].targets
    BY <1>2, StepEdit DEF IInv, TransferRead, Steps
  <2>2. request[q].step = "read" /\ Fits(q, request[q])
    BY DEF IInv, CallsFit, TransferRead
  <2>3. Fits(q, c)'
    BY <2>1, <2>2 DEF Fits, TransferRead, tables
  <2>4. /\ data' \in [Fields -> Requests \cup {NoRequest}]
        /\ forms' \subseteq Tasks \X Requests
    BY DEF IInv, TypeOK, TransferRead
  <2> QED BY <2>1, <2>3, <2>4, CallStep DEF TransferRead
<1> QED BY <1>1, <1>2

(***************************************************************************)
(* The rows                                                                *)
(***************************************************************************)
LEMMA VoteRows ==
  ASSUME TypeOK, NEW k \in Tasks, NEW r \in Decided
  PROVE  /\ Vote(k, r) \in [Tasks -> RowStatus]
         /\ Vote(k, r)[k] = r
         /\ \A j \in Tasks : /\ row[j] = "none" /\ j # k => Vote(k, r)[j] = "none"
                             /\ row[j] # "none" => Vote(k, r)[j] # "none"
                             /\ j # k /\ Vote(k, r)[j] \in Decided
                                  => row[j] = Vote(k, r)[j]
BY DEF Vote, TypeOK, RowStatus, Decided

LEMMA DecideKeeps ==
  ASSUME IInv, NEW q \in Requests, NEW r \in Decided, Decide(q, r),
         request[q].step \in {"pass", "reject"},
         r = "passed" => request[q].step = "pass"
  PROVE  IInv'
<1> DEFINE k == request[q].task
<1>1. CASE row[k] # "open"
  BY <1>1, AnswerKeeps DEF Decide, Answers
<1>2. CASE row[k] = "open"
  <2>1. PICK c \in Calls : Becomes(q, c) /\ c.step = "done"
    <3>1. Answer(q, "ok")
      BY <1>2 DEF Decide
    <3> QED BY <3>1, AnswerEdit DEF IInv, Answers
  <2>2. /\ k \in Tasks /\ request[q].user \in Users /\ request[q].given \subseteq Fields
        /\ Fits(q, request[q])
    BY DEF IInv, TypeOK, Calls, CallsFit
  <2>3. /\ row' = Vote(k, r)
        /\ outcomes' = IF Unfinished(Vote(k, r)) = {} THEN outcomes + 1 ELSE outcomes
        /\ by' = [by EXCEPT ![k] = [request |-> q, user |-> request[q].user,
                                    given |-> request[q].given]]
        /\ UNCHANGED <<assignee, cosigned, data, forms, raced>>
    BY <1>2 DEF Decide
  <2>4. TypeOK'
    <3>1. by' \in [Tasks -> Votes]
      BY <2>2, <2>3 DEF IInv, TypeOK, Votes
    <3>2. request' \in [Requests -> Calls]
      BY <2>1 DEF IInv, TypeOK, Becomes
    <3>3. row' \in [Tasks -> RowStatus] /\ outcomes' \in Nat
      BY <2>2, <2>3, VoteRows DEF IInv, TypeOK
    <3> QED BY <2>3, <3>1, <3>2, <3>3 DEF IInv, TypeOK
  <2>5. CallsFit'
    <3> SUFFICES ASSUME NEW p \in Requests PROVE Fits(p, request[p])'
      BY DEF CallsFit
    <3>1. CASE p = q
      BY <2>1, <3>1 DEF Becomes, IInv, TypeOK, Fits
    <3>2. CASE p # q
      <4>1. request'[p] = request[p] /\ request[p].task \in Tasks /\ Fits(p, request[p])
        BY <2>1, <3>2 DEF Becomes, IInv, TypeOK, CallsFit, Calls
      <4>2. row[request[p].task] # "none" => row'[request[p].task] # "none"
        BY <2>2, <2>3, <4>1, VoteRows DEF IInv
      <4>3. ASSUME NEW u \in Users, row[<<p, u>>] = "none" PROVE row'[<<p, u>>] = "none"
        BY <1>2, <2>2, <2>3, <4>3, VoteRows DEF IInv, Tasks
      <4> QED BY <2>3, <4>1, <4>2, <4>3 DEF Fits
    <3> QED BY <3>1, <3>2
  <2>6. by'[k].request = q /\ by'[k].user = request[q].user /\ by'[k].given = request[q].given
    BY <2>2, <2>3 DEF IInv, TypeOK
  <2>7. ASSUME NEW j \in Tasks, j # k PROVE by'[j] = by[j]
    BY <2>3, <2>7 DEF IInv, TypeOK
  <2>8. DecidedByAssignee'
    <3> SUFFICES ASSUME NEW j \in Tasks, row'[j] \in Decided
                 PROVE  by'[j].request \in Requests
                          /\ by'[j].user \in Admins \cup {assignee'[j]}
      BY DEF DecidedByAssignee
    <3>1. CASE j = k
      BY <2>2, <2>3, <2>6, <3>1 DEF Fits
    <3>2. CASE j # k
      BY <2>2, <2>3, <2>7, <3>2, VoteRows DEF IInv, DecidedByAssignee
    <3> QED BY <3>1, <3>2
  <2>9. VoteOnRecord'
    <3> SUFFICES ASSUME NEW j \in Tasks, row'[j] = "passed"
                 PROVE  /\ by'[j].given # {} => <<j, by'[j].request>> \in forms'
                        /\ \A f \in by'[j].given \cap Merged : data'[f] # NoRequest
      BY DEF VoteOnRecord
    <3>1. CASE j = k
      <4>1. request[q].step = "pass"
        BY <2>2, <2>3, <3>1, VoteRows DEF IInv
      <4> QED BY <2>2, <2>3, <2>6, <3>1, <4>1 DEF Fits
    <3>2. CASE j # k
      <4>1. row[j] = "passed"
        BY <2>2, <2>3, <3>2, VoteRows DEF IInv, Decided
      <4> QED BY <2>3, <2>7, <3>2, <4>1 DEF IInv, VoteOnRecord
    <3> QED BY <3>1, <3>2
  <2>10. NodeFollowsTasks'
    <3>1. k \in Unfinished(row)
      BY <1>2, <2>2 DEF Unfinished
    <3>2. outcomes \in Nat /\ (~raced => outcomes = 0)
      BY <3>1 DEF IInv, TypeOK, NodeFollowsTasks
    <3>3. CASE Unfinished(Vote(k, r)) = {}
      BY <2>3, <3>2, <3>3 DEF NodeFollowsTasks
    <3>4. CASE Unfinished(Vote(k, r)) # {}
      BY <2>3, <3>2, <3>4 DEF NodeFollowsTasks
    <3> QED BY <3>3, <3>4
  <2> QED BY <2>4, <2>5, <2>8, <2>9, <2>10 DEF IInv
<1> QED BY <1>1, <1>2

LEMMA WriteKeeps ==
  ASSUME IInv, NEW q \in Requests, TransferWrite(q)
  PROVE  IInv'
<1> DEFINE k    == request[q].task
           made == {q} \X request[q].targets
<1>1. PICK c \in Calls : Becomes(q, c) /\ c.step = "done"
  BY AnswerEdit DEF IInv, TransferWrite, Answers
<1>2. /\ k \in Tasks /\ request[q].targets \subseteq Users /\ request[q].targets # {}
      /\ row[k] # "none" /\ \A u \in Users : row[<<q, u>>] = "none"
  BY DEF IInv, TypeOK, Calls, CallsFit, Fits, TransferWrite
<1>3. k \notin made
  BY <1>2
<1>4. /\ row' = [j \in Tasks |-> IF j = k THEN "deleted"
                                 ELSE IF j \in made THEN "open" ELSE row[j]]
      /\ raced' = (raced \/ row[k] # "open")
      /\ UNCHANGED <<assignee, cosigned, outcomes, by, data, forms>>
  BY DEF TransferWrite
<1>5. TypeOK'
  <2>1. row' \in [Tasks -> RowStatus]
    BY <1>4 DEF IInv, TypeOK, RowStatus
  <2>2. request' \in [Requests -> Calls]
    BY <1>1 DEF IInv, TypeOK, Becomes
  <2>3. raced' \in BOOLEAN
    BY <1>4 DEF IInv, TypeOK
  <2> QED BY <1>4, <2>1, <2>2, <2>3 DEF IInv, TypeOK
<1>6. ASSUME NEW j \in Tasks, row'[j] \in Decided PROVE row[j] = row'[j]
  BY <1>4, <1>6 DEF Decided
<1>7. CallsFit'
  <2> SUFFICES ASSUME NEW p \in Requests PROVE Fits(p, request[p])'
    BY DEF CallsFit
  <2>1. CASE p = q
    BY <1>1, <2>1 DEF Becomes, IInv, TypeOK, Fits
  <2>2. CASE p # q
    <3>1. request'[p] = request[p] /\ request[p].task \in Tasks /\ Fits(p, request[p])
      BY <1>1, <2>2 DEF Becomes, IInv, TypeOK, CallsFit, Calls
    <3>2. row[request[p].task] # "none" => row'[request[p].task] # "none"
      BY <1>4, <3>1
    <3>3. ASSUME NEW u \in Users, row[<<p, u>>] = "none" PROVE row'[<<p, u>>] = "none"
      <4>1. <<p, u>> \in Tasks /\ <<p, u>> # k /\ <<p, u>> \notin made
        BY <1>2, <2>2, <3>3 DEF Tasks
      <4> QED BY <1>4, <3>3, <4>1
    <3> QED BY <1>4, <3>1, <3>2, <3>3 DEF Fits
  <2> QED BY <2>1, <2>2
<1>8. DecidedByAssignee'
  BY <1>4, <1>6 DEF IInv, DecidedByAssignee
<1>9. VoteOnRecord'
  BY <1>4, <1>6 DEF IInv, VoteOnRecord, Decided
<1>10. NodeFollowsTasks'
  <2>1. PICK u \in request[q].targets : TRUE
    BY <1>2
  <2>2. <<q, u>> \in Tasks /\ <<q, u>> \in made
    BY <1>2, <2>1 DEF Tasks
  <2>3. <<q, u>> \in Unfinished(row')
    BY <1>3, <1>4, <2>2 DEF Unfinished
  <2>4. ASSUME ~raced' PROVE outcomes = 0
    <3>1. k \in Unfinished(row) /\ ~raced
      BY <1>2, <1>4, <2>4 DEF Unfinished
    <3> QED BY <3>1 DEF IInv, TypeOK, NodeFollowsTasks
  <2> QED BY <1>4, <2>3, <2>4 DEF NodeFollowsTasks
<1> QED BY <1>5, <1>7, <1>8, <1>9, <1>10 DEF IInv

LEMMA RevokeKeeps == IInv /\ RevokeInstance => IInv'
<1> SUFFICES ASSUME IInv, RevokeInstance PROVE IInv'
  OBVIOUS
<1>1. /\ row' = [k \in Tasks |-> IF row[k] = "open" THEN "deleted" ELSE row[k]]
      /\ outcomes' = 1
      /\ UNCHANGED <<assignee, cosigned, by, data, forms, request, raced>>
  BY DEF RevokeInstance
<1>2. TypeOK'
  BY <1>1 DEF IInv, TypeOK, RowStatus
<1>3. \A k \in Tasks : row[k] # "open" => row'[k] = row[k]
  BY <1>1
<1>4. \A k \in Tasks : row[k] = "open" => row'[k] = "deleted"
  BY <1>1
<1>5. CallsFit'
  <2> SUFFICES ASSUME NEW p \in Requests PROVE Fits(p, request[p])'
    BY DEF CallsFit
  <2>1. request[p].task \in Tasks /\ Fits(p, request[p])
    BY DEF IInv, TypeOK, CallsFit, Calls
  <2>2. \A u \in Users : <<p, u>> \in Tasks
    BY DEF Tasks
  <2> QED BY <1>1, <1>3, <1>4, <2>1, <2>2 DEF Fits
<1>6. DecidedByAssignee' /\ VoteOnRecord'
  BY <1>1, <1>3, <1>4 DEF IInv, DecidedByAssignee, VoteOnRecord, Decided
<1>7. NodeFollowsTasks'
  BY <1>1 DEF NodeFollowsTasks, Unfinished
<1> QED BY <1>2, <1>5, <1>6, <1>7 DEF IInv

LEMMA NextKeeps == IInv /\ [Next]_vars => IInv'
<1> SUFFICES ASSUME IInv, [Next]_vars PROVE IInv'
  OBVIOUS
<1>1. CASE UNCHANGED vars
  BY <1>1 DEF vars, tables, IInv, TypeOK, CallsFit, Fits, DecidedByAssignee, VoteOnRecord,
              NodeFollowsTasks, Unfinished
<1>2. CASE RevokeInstance
  BY <1>2, RevokeKeeps
<1>3. ASSUME NEW q \in Requests, Call(q) PROVE IInv'
  <2>1. CASE Refuse(q) \/ Invalid(q) \/ Fail(q)
    BY <2>1, RefuseKeeps
  <2>2. CASE Pass(q) \/ Reject(q) \/ Transfer(q)
    BY <2>2, PassKeeps, RejectKeeps, TransferKeeps
  <2>3. CASE MergeTicketData(q) \/ CreateTaskForm(q)
    BY <2>3, MergeKeeps, FormKeeps
  <2>4. CASE EnginePass(q)
    BY <2>4, DecideKeeps DEF EnginePass, Decided
  <2>5. CASE EngineReject(q)
    BY <2>5, DecideKeeps DEF EngineReject, Decided
  <2>6. CASE TransferRead(q) \/ TransferWrite(q)
    BY <2>6, ReadKeeps, WriteKeeps
  <2> QED BY <1>3, <2>1, <2>2, <2>3, <2>4, <2>5, <2>6 DEF Call
<1> QED BY <1>1, <1>2, <1>3 DEF Next

LEMMA InvariantHolds == Spec => []IInv
<1>1. IInv /\ [Next]_vars => IInv'
  BY NextKeeps
<1> QED BY InitHolds, <1>1, PTL DEF Spec

(***************************************************************************)
(* The theorems                                                            *)
(***************************************************************************)

\* The tables and the calls keep their types (Pass, Reject, Transfer).
THEOREM TypesHold == Spec => []TypeOK
BY InvariantHolds, PTL DEF IInv

\* However calls interleave and fail, a vote that counts is its assignee's or an
\* administrator's (ValidateTaskOperable before the vote, Transfer meanwhile).
THEOREM VotesAreAssignees == Spec => []DecidedByAssignee
BY InvariantHolds, PTL DEF IInv

\* A vote that counts has its form, and its merged fields are in the ticket
\* (MergeTicketData, CreateTaskForm, engine.TaskPass, in this order).
THEOREM VotesAreRecorded == Spec => []VoteOnRecord
BY InvariantHolds, PTL DEF IInv

\* As long as no transfer overtakes a decision, a node has open tasks until it
\* is decided, is decided once, and has none afterwards (dao Transfer).
THEOREM NodeIsDecidedOnce == Spec => []NodeFollowsTasks
BY InvariantHolds, PTL DEF IInv
=============================================================================
