-------------------------- MODULE TicketStartProofs --------------------------
(***************************************************************************)
(* However many tickets, requests, restarts and consumers there are, and   *)
(* however often statements fail and events are repeated: a ticket is      *)
(* bound exactly when it is past its start, its last status is what its    *)
(* own instance came to, and in START something will start it or mark it.  *)
(* With one consumer of the topic it also never has two started instances. *)
(***************************************************************************)
EXTENDS TicketStart, TLAPS

LEMMA Constants ==
  /\ NoTicket \notin Tickets /\ NoInstance \notin Instances /\ NoKey \notin Keys
  /\ MaxEvents \in Nat /\ MaxFaults \in Nat
BY TicketStartAssumption DEF TicketStartAssumption

(***************************************************************************)
(* What a goroutine does to its own job                                    *)
(***************************************************************************)
LEMMA RecordEdit ==
  ASSUME NEW o \in Jobs, NEW s \in Steps
  PROVE  /\ [o EXCEPT !.step = s] \in Jobs
         /\ [o EXCEPT !.step = s].step = s
         /\ [o EXCEPT !.step = s].ticket = o.ticket
         /\ [o EXCEPT !.step = s].inst = o.inst
         /\ \A t \in Tickets : /\ [o EXCEPT !.ticket = t] \in Jobs
                               /\ [o EXCEPT !.ticket = t].step = o.step
                               /\ [o EXCEPT !.ticket = t].ticket = t
                               /\ [o EXCEPT !.ticket = t].inst = o.inst
         /\ \A i \in Instances : /\ [o EXCEPT !.inst = i] \in Jobs
                                 /\ [o EXCEPT !.inst = i].step = o.step
                                 /\ [o EXCEPT !.inst = i].ticket = o.ticket
                                 /\ [o EXCEPT !.inst = i].inst = i
         /\ \A k \in Keys : /\ [o EXCEPT !.key = k] \in Jobs
                            /\ [o EXCEPT !.key = k].step = o.step
                            /\ [o EXCEPT !.key = k].ticket = o.ticket
BY DEF Jobs

LEMMA IdleJob == Idle \in Jobs /\ Idle.step = "idle"
BY DEF Idle, Jobs, Steps

LEMMA GotoEdit ==
  ASSUME TypeOK, NEW w \in Workers, NEW s \in Steps, Goto(w, s)
  PROVE  \E j \in Jobs : /\ work' = [work EXCEPT ![w] = j]
                         /\ j.step = s /\ j.ticket = work[w].ticket /\ j.inst = work[w].inst
<1>1. PICK j : j = [work[w] EXCEPT !.step = s]
  OBVIOUS
<1>2. work' = [work EXCEPT ![w] = j]
  BY <1>1 DEF Goto, TypeOK
<1>3. j \in Jobs /\ j.step = s /\ j.ticket = work[w].ticket /\ j.inst = work[w].inst
  BY <1>1, RecordEdit DEF TypeOK
<1> QED BY <1>2, <1>3

Takes(w, s, t)  == work' = [work EXCEPT ![w].step = s, ![w].ticket = t]
Begins(w, s, i) == work' = [work EXCEPT ![w].step = s, ![w].inst = i]

LEMMA TicketEdit ==
  ASSUME TypeOK, NEW w \in Workers, NEW s \in Steps, NEW t \in Tickets, Takes(w, s, t)
  PROVE  \E j \in Jobs : /\ work' = [work EXCEPT ![w] = j]
                         /\ j.step = s /\ j.ticket = t /\ j.inst = work[w].inst
<1>1. PICK o : o = [work[w] EXCEPT !.step = s]
  OBVIOUS
<1>2. work' = [work EXCEPT ![w] = [o EXCEPT !.ticket = t]]
  BY <1>1 DEF TypeOK, Takes
<1>3. o \in Jobs /\ o.step = s /\ o.inst = work[w].inst
  BY <1>1, RecordEdit DEF TypeOK
<1>4. PICK j : j = [o EXCEPT !.ticket = t]
  OBVIOUS
<1>5. j \in Jobs /\ j.step = s /\ j.ticket = t /\ j.inst = work[w].inst
  BY <1>3, <1>4, RecordEdit
<1> QED BY <1>2, <1>4, <1>5

LEMMA InstanceEdit ==
  ASSUME TypeOK, NEW w \in Workers, NEW s \in Steps, NEW i \in Instances, Begins(w, s, i)
  PROVE  \E j \in Jobs : /\ work' = [work EXCEPT ![w] = j]
                         /\ j.step = s /\ j.ticket = work[w].ticket /\ j.inst = i
<1>1. PICK o : o = [work[w] EXCEPT !.step = s]
  OBVIOUS
<1>2. work' = [work EXCEPT ![w] = [o EXCEPT !.inst = i]]
  BY <1>1 DEF TypeOK, Begins
<1>3. o \in Jobs /\ o.step = s /\ o.ticket = work[w].ticket
  BY <1>1, RecordEdit DEF TypeOK
<1>4. PICK j : j = [o EXCEPT !.inst = i]
  OBVIOUS
<1>5. j \in Jobs /\ j.step = s /\ j.ticket = work[w].ticket /\ j.inst = i
  BY <1>3, <1>4, RecordEdit
<1> QED BY <1>2, <1>4, <1>5

LEMMA KeyEdit ==
  ASSUME NEW s \in Steps, NEW k \in Keys
  PROVE  /\ [Idle EXCEPT !.step = s, !.key = k] \in Jobs
         /\ [Idle EXCEPT !.step = s, !.key = k].step = s
BY DEF Idle, Jobs

LEMMA Typed == IInv => TypeOK
BY DEF IInv

LEMMA StepNames ==
  {"idle", "insert", "blindInsert", "send", "mark", "prepare", "find", "created",
   "nodes", "bind"} \subseteq Steps
BY DEF Steps

(***************************************************************************)
(* The kinds of step                                                       *)
(***************************************************************************)

\* The rows and the engine stay, and who was to start a ticket still does, has
\* sent an event, or has given up with a note.
LEMMA LocalStep ==
  ASSUME IInv, NEW w \in Workers, NEW j \in Jobs,
         work' = [work EXCEPT ![w] = j],
         UNCHANGED <<rows, owner, phase, endNode, revoking, reopened>>,
         events' \in [Tickets -> 0..MaxEvents],
         failed' \subseteq Instances, lost' \subseteq Tickets, blind' \subseteq Tickets,
         faults' \in 0..MaxFaults,
         j.step # "created",
         j.step \in {"send", "mark", "prepare", "find", "nodes", "bind"} => j.ticket \in Tickets,
         j.step \in {"nodes", "bind"} =>
            j.inst \in Instances /\ owner[j.inst] = j.ticket /\ phase[j.inst] \in Started,
         \A t \in Tickets :
            status[t] = "START" /\ (events[t] > 0 \/ w \in Starters(t) \/ t \in lost) =>
              \/ events'[t] > 0
              \/ j.ticket = t /\ j.step \in {"send", "mark", "find", "created"}
              \/ t \in lost'
  PROVE  IInv'
<1> USE DEF rows
<1>1. TypeOK'
  BY DEF IInv, TypeOK
<1>2. work'[w] = j /\ \A v \in Workers : v # w => work'[v] = work[v]
  BY DEF IInv, TypeOK
<1>3. JobsFit'
  BY <1>2 DEF IInv, JobsFit
<1>4. OneStarter'
  BY <1>2 DEF IInv, OneStarter, Stays
<1>5. BoundToOwn' /\ BoundIffStarted' /\ EndMatchesEngine' /\ EndComesLast'
  BY DEF IInv, BoundToOwn, BoundIffStarted, EndMatchesEngine, EndComesLast, Notified, Started
<1>6. ASSUME NEW t \in Tickets, status'[t] = "START"
      PROVE  events'[t] > 0 \/ Starters(t)' # {} \/ t \in lost'
  <2>1. CASE events[t] > 0 \/ w \in Starters(t) \/ t \in lost
    BY <1>2, <1>6, <2>1 DEF Starters
  <2>2. CASE \E v \in Starters(t) : v # w
    BY <1>2, <2>2 DEF Starters
  <2> QED BY <1>6, <2>1, <2>2 DEF IInv, WaitsForSomething
<1> QED BY <1>1, <1>3, <1>4, <1>5, <1>6 DEF IInv, WaitsForSomething

\* A ticket without an instance gets a status from before the start.
LEMMA UnboundStep ==
  ASSUME IInv, NEW w \in Workers, NEW j \in Jobs,
         work' = [work EXCEPT ![w] = j],
         NEW t \in Tickets, bound[t] = NoInstance,
         NEW s \in {"START", "START_FAILED"},
         status' = [status EXCEPT ![t] = s],
         key' \in [Tickets -> Keys \cup {NoKey}],
         UNCHANGED <<bound, events, engine, reopened, faults>>,
         lost' \subseteq Tickets, lost \ {t} \subseteq lost', blind' \subseteq Tickets,
         j.step \in {"idle", "send"}, j.step = "send" => j.ticket = t,
         s = "START" => j.step = "send",
         \A u \in Tickets : w \in Starters(u) => u = t
  PROVE  IInv'
<1> USE DEF engine
<1>1. TypeOK'
  BY DEF IInv, TypeOK, RowStatus
<1>2. work'[w] = j /\ \A v \in Workers : v # w => work'[v] = work[v]
  BY DEF IInv, TypeOK
<1>3. status'[t] = s /\ \A u \in Tickets : u # t => status'[u] = status[u]
  BY DEF IInv, TypeOK
<1>4. JobsFit'
  BY <1>2 DEF IInv, JobsFit
<1>5. OneStarter'
  BY <1>2 DEF IInv, OneStarter, Stays
<1>6. BoundToOwn'
  BY DEF IInv, BoundToOwn
<1>7. BoundIffStarted'
  BY <1>3 DEF IInv, BoundIffStarted
<1>8. EndMatchesEngine' /\ EndComesLast'
  BY <1>3 DEF IInv, EndMatchesEngine, EndComesLast, Notified, Started
<1>9. ASSUME NEW u \in Tickets, status'[u] = "START"
      PROVE  events'[u] > 0 \/ Starters(u)' # {} \/ u \in lost'
  <2>1. CASE u = t
    BY <1>2, <1>3, <1>9, <2>1 DEF Starters
  <2>2. CASE u # t
    <3>1. status[u] = "START" /\ w \notin Starters(u)
      BY <1>3, <1>9, <2>2
    <3>2. Starters(u) \subseteq Starters(u)'
      BY <1>2, <3>1 DEF Starters
    <3> QED BY <2>2, <3>1, <3>2 DEF IInv, WaitsForSomething
  <2> QED BY <2>1, <2>2
<1> QED BY <1>1, <1>4, <1>5, <1>6, <1>7, <1>8, <1>9 DEF IInv, WaitsForSomething

\* A bound ticket goes through its withdrawal.
LEMMA WithdrawalStep ==
  ASSUME IInv, NEW t \in Tickets, status[t] \in {"PROCESS", "WITHDRAWING"},
         NEW s \in {"PROCESS", "WITHDRAWING", "WITHDRAW"},
         s = "WITHDRAW" => phase[bound[t]] = "revoked",
         status' = [status EXCEPT ![t] = s],
         revoking' \subseteq revoking,
         UNCHANGED <<key, bound, events, owner, phase, endNode, failed, work, ghosts, faults>>
  PROVE  IInv'
<1> USE DEF ghosts
<1>1. TypeOK'
  BY DEF IInv, TypeOK, RowStatus, TicketStatus
<1>2. status'[t] = s /\ \A u \in Tickets : u # t => status'[u] = status[u]
  BY DEF IInv, TypeOK
<1>3. JobsFit' /\ OneStarter' /\ BoundToOwn'
  BY DEF IInv, JobsFit, OneStarter, BoundToOwn, Stays
<1>4. BoundIffStarted'
  BY <1>2 DEF IInv, BoundIffStarted
<1>5. EndMatchesEngine' /\ EndComesLast'
  BY <1>2 DEF IInv, EndMatchesEngine, EndComesLast, Notified, Started
<1>6. \A u : Starters(u)' = Starters(u)
  BY DEF Starters
<1>7. WaitsForSomething'
  BY <1>2, <1>6 DEF IInv, WaitsForSomething
<1> QED BY <1>1, <1>3, <1>4, <1>5, <1>7 DEF IInv

(***************************************************************************)
(* The actions                                                             *)
(***************************************************************************)

\* Looking for an open ticket, and taking up a creation or a restart
LEMMA RequestKeeps ==
  ASSUME IInv, NEW w \in Workers,
         \/ \E k \in Keys : FindOpenTicket(w, k) \/ FindFails(w, k)
         \/ \E t \in Tickets : RestartProcess(w, t)
         \/ CreateTicket(w)
  PROVE  IInv'
<1>1. PICK j \in Jobs : /\ work' = [work EXCEPT ![w] = j]
                        /\ j.step \in {"insert", "blindInsert", "prepare"}
                        /\ j.step = "prepare" => j.ticket \in Tickets
  <2>1. {"insert", "blindInsert", "prepare"} \subseteq Steps
    BY DEF Steps
  <2>2. CASE \E k \in Keys : FindOpenTicket(w, k) \/ FindFails(w, k)
    BY <2>1, <2>2, KeyEdit DEF FindOpenTicket, FindFails
  <2>3. CASE \E t \in Tickets : RestartProcess(w, t)
    <3>1. PICK t \in Tickets : Takes(w, "prepare", t)
      BY <2>3 DEF RestartProcess, Takes
    <3> QED BY <2>1, <3>1, Typed, TicketEdit
  <2>4. CASE CreateTicket(w)
    BY <2>1, <2>4, GotoEdit DEF CreateTicket, IInv
  <2> QED BY <2>2, <2>3, <2>4
<1>2. /\ UNCHANGED <<rows, events, engine, ghosts>>
      /\ Stays(w, "idle")
      /\ faults' = faults \/ Fault
  BY DEF FindOpenTicket, FindFails, RestartProcess, CreateTicket
<1>4. faults' \in 0..MaxFaults
  BY <1>2, Constants DEF Fault, IInv, TypeOK
<1>3. \A t \in Tickets : w \notin Starters(t)
  BY <1>2 DEF Starters, Stays
<1>5. /\ UNCHANGED <<rows, owner, phase, endNode, revoking, reopened>>
      /\ events' \in [Tickets -> 0..MaxEvents] /\ events' = events
      /\ failed' \subseteq Instances /\ lost' \subseteq Tickets /\ blind' \subseteq Tickets
      /\ lost' = lost
  BY <1>2 DEF engine, ghosts, IInv, TypeOK
<1>6. CASE j.step = "insert" \/ j.step = "blindInsert"
  BY <1>1, <1>3, <1>4, <1>5, <1>6, LocalStep
<1>7. CASE j.step = "prepare"
  BY <1>1, <1>3, <1>4, <1>5, <1>7, LocalStep
<1> QED BY <1>1, <1>6, <1>7

LEMMA InsertKeeps ==
  ASSUME IInv, NEW w \in Workers, Insert(w)
  PROVE  IInv'
<1>1. PICK t \in Tickets :
        /\ status[t] = "None"
        /\ status' = [status EXCEPT ![t] = "START"]
        /\ key' = [key EXCEPT ![t] = work[w].key]
        /\ blind' = IF Stays(w, "blindInsert") THEN blind \cup {t} ELSE blind
        /\ Takes(w, "send", t)
  BY DEF Insert, Takes
<1>2. PICK j \in Jobs : /\ work' = [work EXCEPT ![w] = j]
                        /\ j.step = "send" /\ j.ticket = t
  BY <1>1, Typed, StepNames, TicketEdit
<1>3. bound[t] = NoInstance
  BY <1>1 DEF IInv, BoundIffStarted
<1>4. \A u \in Tickets : w \notin Starters(u)
  BY DEF Starters, Insert
<1>5. key' \in [Tickets -> Keys \cup {NoKey}] /\ blind' \subseteq Tickets
  BY <1>1 DEF IInv, TypeOK, Jobs
<1> QED BY <1>1, <1>2, <1>3, <1>4, <1>5, UnboundStep DEF Insert, IInv, TypeOK

LEMMA SendKeeps ==
  ASSUME IInv, NEW w \in Workers, Send(w)
  PROVE  IInv'
<1>1. work' = [work EXCEPT ![w] = Idle]
  BY DEF Send, Done
<1>2. PICK t : t = work[w].ticket
  OBVIOUS
<1>3. t \in Tickets /\ work[w].step = "send"
  BY <1>2 DEF Send, Stays, IInv, JobsFit
<1>4. events' \in [Tickets -> 0..MaxEvents] /\ events'[t] > 0
      /\ \A u \in Tickets : u # t => events'[u] = events[u]
  BY <1>2, <1>3, Constants DEF Send, IInv, TypeOK
<1>5. \A u \in Tickets : w \in Starters(u) => u = t
  BY <1>2 DEF Starters
<1> QED BY <1>1, <1>4, <1>5, IdleJob, LocalStep DEF Send, engine, ghosts, IInv, TypeOK

LEMMA SendFailsKeeps ==
  ASSUME IInv, NEW w \in Workers, SendFails(w)
  PROVE  IInv'
<1>1. PICK t : t = work[w].ticket
  OBVIOUS
<1>2. t \in Tickets /\ work[w].step = "send"
  BY <1>1 DEF SendFails, Stays, IInv, JobsFit
<1>3. PICK j \in Jobs : work' = [work EXCEPT ![w] = j] /\ j.step = "mark" /\ j.ticket = t
  BY <1>1, GotoEdit DEF SendFails, IInv, Steps
<1>4. events' \in [Tickets -> 0..MaxEvents] /\ \A u \in Tickets : events[u] > 0 => events'[u] > 0
  BY <1>1, <1>2, Constants DEF SendFails, IInv, TypeOK
<1>5. \A u \in Tickets : w \in Starters(u) => u = t
  BY <1>1 DEF Starters
<1>6. faults' \in 0..MaxFaults
  BY Constants DEF SendFails, Fault, IInv, TypeOK
<1> QED BY <1>2, <1>3, <1>4, <1>5, <1>6, LocalStep DEF SendFails, engine, ghosts, IInv, TypeOK

LEMMA MarkKeeps ==
  ASSUME IInv, NEW w \in Workers, Mark(w)
  PROVE  IInv'
<1>1. work' = [work EXCEPT ![w] = Idle]
  BY DEF Mark, Done
<1>2. PICK t : t = work[w].ticket
  OBVIOUS
<1>3. t \in Tickets
  BY <1>2 DEF Mark, Stays, IInv, JobsFit
<1>4. \A u \in Tickets : w \in Starters(u) => u = t
  BY <1>2 DEF Starters
<1>5. CASE CanRestartProcess(t)
  <2>1. bound[t] = NoInstance /\ status' = [status EXCEPT ![t] = "START_FAILED"]
    BY <1>2, <1>5 DEF Mark, MarkProcessStartFailed, CanRestartProcess
  <2> QED BY <1>1, <1>3, <1>4, <2>1, IdleJob, UnboundStep DEF Mark, ghosts, IInv, TypeOK
<1>6. CASE ~CanRestartProcess(t)
  <2>1. status' = status
    BY <1>2, <1>6 DEF Mark, MarkProcessStartFailed
  <2>2. status[t] # "START"
    BY <1>3, <1>6 DEF CanRestartProcess, AllowsProcessRestart, IInv, BoundIffStarted
  <2> QED BY <1>1, <1>4, <2>1, <2>2, IdleJob, LocalStep
          DEF Mark, rows, engine, ghosts, IInv, TypeOK
<1> QED BY <1>5, <1>6

LEMMA PrepareProcessRestartKeeps ==
  ASSUME IInv, NEW w \in Workers, PrepareProcessRestart(w)
  PROVE  IInv'
<1>1. PICK t : t = work[w].ticket
  OBVIOUS
<1>2. t \in Tickets /\ \A u \in Tickets : w \notin Starters(u)
  BY <1>1 DEF PrepareProcessRestart, Stays, IInv, JobsFit, Starters
<1>3. CASE CanRestartProcess(t)
  <2>1. /\ bound[t] = NoInstance
        /\ status' = [status EXCEPT ![t] = "START"]
        /\ lost' = lost \ {t}
        /\ Goto(w, "send")
    BY <1>1, <1>3 DEF PrepareProcessRestart, CanRestartProcess
  <2>2. PICK j \in Jobs : work' = [work EXCEPT ![w] = j] /\ j.step = "send" /\ j.ticket = t
    BY <1>1, <2>1, GotoEdit DEF IInv, Steps
  <2> QED BY <1>2, <2>1, <2>2, UnboundStep DEF PrepareProcessRestart, IInv, TypeOK
<1>4. CASE ~CanRestartProcess(t)
  <2>1. work' = [work EXCEPT ![w] = Idle] /\ UNCHANGED <<status, lost>>
    BY <1>1, <1>4 DEF PrepareProcessRestart, Done
  <2> QED BY <1>2, <2>1, IdleJob, LocalStep DEF PrepareProcessRestart, rows, engine, IInv, TypeOK
<1> QED BY <1>3, <1>4

LEMMA ReceiveKeeps ==
  ASSUME IInv, NEW w \in Workers, NEW t \in Tickets, Receive(w, t)
  PROVE  IInv'
<1>1. /\ events' \in [Tickets -> 0..MaxEvents]
      /\ \A u \in Tickets : u # t => events'[u] = events[u]
      /\ faults' \in 0..MaxFaults
      /\ UNCHANGED <<rows, engine, ghosts>>
  BY Constants DEF Receive, Fault, IInv, TypeOK
<1>2. \A u \in Tickets : w \notin Starters(u)
  BY DEF Receive, Stays, Starters
<1>3. CASE bound[t] = NoInstance
  <2>1. PICK j \in Jobs : work' = [work EXCEPT ![w] = j] /\ j.step = "find" /\ j.ticket = t
    <3>1. Takes(w, "find", t)
      BY <1>3 DEF Receive, Takes
    <3> QED BY <3>1, Typed, StepNames, TicketEdit
  <2> QED BY <1>1, <1>2, <2>1, LocalStep DEF engine, ghosts, IInv, TypeOK
<1>4. CASE bound[t] # NoInstance
  <2>1. work' = [work EXCEPT ![w] = work[w]] /\ work[w] \in Jobs /\ work[w].step = "idle"
    BY <1>4 DEF Receive, Stays, IInv, TypeOK
  <2>2. status[t] # "START"
    BY <1>4 DEF IInv, BoundIffStarted
  <2> QED BY <1>1, <1>2, <2>1, <2>2, LocalStep DEF engine, ghosts, IInv, TypeOK
<1> QED BY <1>3, <1>4

\* A step of the consumer that ends, or goes on in the instance it started
LEMMA ConsumerKeeps ==
  ASSUME IInv, NEW w \in Workers, EventStartFails(w) \/ NodesRun(w) \/ NodesFail(w)
  PROVE  IInv'
<1>1. PICK t : t = work[w].ticket
  OBVIOUS
<1>2. /\ t \in Tickets /\ work[w].inst \in Instances
      /\ work[w].step \in {"created", "nodes"}
      /\ NodesRun(w) => owner[work[w].inst] = t /\ phase[work[w].inst] \in Started
  BY <1>1 DEF EventStartFails, NodesRun, NodesFail, Stays, IInv, JobsFit
<1>3. PICK j \in Jobs :
        /\ work' = [work EXCEPT ![w] = j]
        /\ j.ticket = t /\ j.inst = work[w].inst
        /\ j.step = IF NodesRun(w) THEN "bind" ELSE "mark"
  <2>1. "bind" \in Steps /\ "mark" \in Steps
    BY DEF Steps
  <2>2. CASE NodesRun(w)
    BY <1>1, <2>1, <2>2, GotoEdit DEF NodesRun, IInv
  <2>3. CASE ~NodesRun(w)
    BY <1>1, <2>1, <2>3, GotoEdit DEF EventStartFails, NodesFail, IInv
  <2> QED BY <2>2, <2>3
<1>4. /\ UNCHANGED <<rows, events, owner, phase, endNode, revoking, ghosts>>
      /\ faults' \in 0..MaxFaults /\ failed' \subseteq Instances
  BY <1>2, Constants DEF EventStartFails, NodesRun, NodesFail, Fault, engine, IInv, TypeOK
<1>5. \A u \in Tickets : w \in Starters(u) => u = t /\ ~NodesRun(w)
  BY <1>1 DEF Starters, NodesRun, Stays
<1> QED BY <1>2, <1>3, <1>4, <1>5, LocalStep DEF ghosts, IInv, TypeOK

LEMMA GiveUpKeeps ==
  ASSUME IInv, NEW w \in Workers, GiveUp(w)
  PROVE  IInv'
<1>1. work' = [work EXCEPT ![w] = Idle]
  BY DEF GiveUp, Done
<1>2. /\ lost' \subseteq Tickets /\ lost \subseteq lost'
      /\ \A u \in Tickets : w \in Starters(u) => u \in lost'
  BY DEF GiveUp, Starters, IInv, TypeOK, JobsFit
<1>3. faults' \in 0..MaxFaults
  BY Constants DEF GiveUp, Fault, IInv, TypeOK
<1> QED BY <1>1, <1>2, <1>3, IdleJob, LocalStep DEF GiveUp, engine, IInv, TypeOK

LEMMA InstanceStartKeeps ==
  ASSUME IInv, NEW w \in Workers, InstanceStart(w)
  PROVE  IInv'
<1>1. PICK i \in Instances :
        /\ phase[i] = "none"
        /\ phase' = [phase EXCEPT ![i] = "created"]
        /\ owner' = [owner EXCEPT ![i] = work[w].ticket]
        /\ Begins(w, "created", i)
  BY DEF InstanceStart, Begins
<1>2. PICK t : t = work[w].ticket
  OBVIOUS
<1>3. t \in Tickets /\ work[w].step = "find"
  BY <1>2 DEF InstanceStart, Stays, IInv, JobsFit
<1>4. PICK j \in Jobs : /\ work' = [work EXCEPT ![w] = j]
                        /\ j.step = "created" /\ j.ticket = t /\ j.inst = i
  BY <1>1, <1>2, Typed, StepNames, InstanceEdit
<1>5. work'[w] = j /\ \A v \in Workers : v # w => work'[v] = work[v]
  BY <1>4 DEF IInv, TypeOK
<1>6. /\ phase'[i] = "created" /\ owner'[i] = t
      /\ \A k \in Instances : k # i => phase'[k] = phase[k] /\ owner'[k] = owner[k]
  BY <1>1, <1>2 DEF IInv, TypeOK
<1>7. UNCHANGED <<rows, events, endNode, revoking, failed, ghosts, faults>>
  BY DEF InstanceStart
<1>8. TypeOK'
  BY <1>1, <1>2, <1>3, <1>4, <1>7 DEF IInv, TypeOK, Phases, rows, ghosts
<1>17. ASSUME NEW v \in Workers, v # w,
              work[v].step \in {"created", "nodes", "bind"}
       PROVE  /\ work[v].inst # i
              /\ phase'[work[v].inst] = phase[work[v].inst]
              /\ owner'[work[v].inst] = owner[work[v].inst]
  <2>1. work[v].inst \in Instances /\ phase[work[v].inst] # "none"
    BY <1>17 DEF IInv, JobsFit, Started
  <2> QED BY <1>1, <1>6, <2>1
<1>9. JobsFit'
  BY <1>3, <1>4, <1>5, <1>6, <1>17 DEF IInv, JobsFit, Started
<1>10. OneStarter'
  BY <1>4, <1>5, <1>17 DEF IInv, OneStarter, Stays
<1>11. BoundToOwn'
  BY <1>1, <1>6, <1>7 DEF IInv, BoundToOwn, Started, rows, TypeOK
<1>12. BoundIffStarted'
  BY <1>7 DEF IInv, BoundIffStarted, rows
<1>13. ASSUME NEW u \in Tickets, bound[u] # NoInstance
       PROVE  phase'[bound[u]] = phase[bound[u]]
  <2>1. bound[u] \in Instances /\ bound[u] # i
    BY <1>1, <1>13 DEF IInv, TypeOK, BoundToOwn, Started
  <2> QED BY <1>6, <2>1
<1>14. EndMatchesEngine' /\ EndComesLast'
  <2>1. EndMatchesEngine'
    BY <1>7, <1>13 DEF IInv, EndMatchesEngine, Notified, rows, ghosts
  <2>2. EndComesLast'
    BY <1>1, <1>6, <1>7 DEF IInv, EndComesLast, Notified, Started, ghosts
  <2> QED BY <2>1, <2>2
<1>15. \A u \in Tickets : Starters(u) \subseteq Starters(u)'
  BY <1>2, <1>3, <1>4, <1>5 DEF Starters
<1>16. WaitsForSomething'
  BY <1>7, <1>15 DEF IInv, WaitsForSomething, rows, ghosts
<1> QED BY <1>8, <1>9, <1>10, <1>11, <1>12, <1>14, <1>16 DEF IInv

\* EventStart binds the instance to the ticket whose number it has.
LEMMA EventStartKeeps ==
  ASSUME IInv, NEW w \in Workers, EventStart(w)
  PROVE  IInv'
<1>1. PICK i : i = work[w].inst
  OBVIOUS
<1>2. PICK t : t = work[w].ticket
  OBVIOUS
<1>3. /\ t \in Tickets /\ i \in Instances /\ owner[i] = t /\ phase[i] = "created"
      /\ work[w].step = "created"
  BY <1>1, <1>2 DEF EventStart, Stays, IInv, JobsFit
<1>4. PICK j \in Jobs : /\ work' = [work EXCEPT ![w] = j]
                        /\ j.step = "nodes" /\ j.ticket = t /\ j.inst = i
  BY <1>1, <1>2, Typed, StepNames, GotoEdit DEF EventStart
<1>5. work'[w] = j /\ \A v \in Workers : v # w => work'[v] = work[v]
  BY <1>4 DEF IInv, TypeOK
<1>6. /\ bound' = [bound EXCEPT ![t] = i] /\ status' = [status EXCEPT ![t] = "PROCESS"]
      /\ phase' = [phase EXCEPT ![i] = "running"]
      /\ UNCHANGED <<key, events, owner, endNode, revoking, failed, ghosts, faults>>
  BY <1>1, <1>3 DEF EventStart, BindProcessInstanceID
<1>7. /\ bound'[t] = i /\ status'[t] = "PROCESS" /\ phase'[i] = "running"
      /\ \A u \in Tickets : u # t => bound'[u] = bound[u] /\ status'[u] = status[u]
      /\ \A k \in Instances : k # i => phase'[k] = phase[k]
  BY <1>3, <1>6 DEF IInv, TypeOK
<1>8. TypeOK'
  BY <1>3, <1>4, <1>6 DEF IInv, TypeOK, Phases, RowStatus, TicketStatus, ghosts
<1>9. ASSUME NEW v \in Workers, v # w, work[v].step \in {"created", "nodes", "bind"}
      PROVE  /\ work[v].inst \in Instances
             /\ work[v].step = "created" => work[v].inst # i
             /\ phase'[work[v].inst] = phase[work[v].inst] \/ phase'[work[v].inst] = "running"
  BY <1>1, <1>3, <1>7, <1>9 DEF IInv, JobsFit, OneStarter, Stays
<1>10. JobsFit'
  BY <1>3, <1>4, <1>5, <1>6, <1>7, <1>9 DEF IInv, JobsFit, Started
<1>11. OneStarter'
  BY <1>4, <1>5 DEF IInv, OneStarter, Stays
<1>12. BoundToOwn'
  BY <1>3, <1>6, <1>7 DEF IInv, TypeOK, BoundToOwn, Started
<1>13. BoundIffStarted'
  BY <1>3, <1>7, Constants DEF IInv, BoundIffStarted
<1>14. ASSUME NEW u \in Tickets, u # t, bound[u] # NoInstance
       PROVE  bound'[u] = bound[u] /\ phase'[bound[u]] = phase[bound[u]]
  <2>1. bound[u] \in Instances /\ bound[u] # i
    BY <1>3, <1>14 DEF IInv, TypeOK, BoundToOwn, Started
  <2> QED BY <1>7, <1>14, <2>1
<1>18. endNode[i] = "ahead"
  BY <1>3 DEF IInv, EndComesLast
<1>15. EndMatchesEngine' /\ EndComesLast'
  <2>1. EndMatchesEngine'
    BY <1>6, <1>7, <1>14, <1>18 DEF IInv, EndMatchesEngine, Notified, ghosts
  <2>2. EndComesLast'
    BY <1>6, <1>7 DEF IInv, EndComesLast, Notified, Started, ghosts
  <2> QED BY <2>1, <2>2
<1>16. \A u \in Tickets : u # t => Starters(u) \subseteq Starters(u)'
  BY <1>2, <1>5 DEF Starters
<1>17. WaitsForSomething'
  BY <1>6, <1>7, <1>16 DEF IInv, WaitsForSomething, ghosts
<1> QED BY <1>8, <1>10, <1>11, <1>12, <1>13, <1>15, <1>17 DEF IInv

LEMMA BindKeeps ==
  ASSUME IInv, NEW w \in Workers, Bind(w)
  PROVE  IInv'
<1>1. PICK i : i = work[w].inst
  OBVIOUS
<1>2. PICK t : t = work[w].ticket
  OBVIOUS
<1>3. /\ t \in Tickets /\ i \in Instances /\ owner[i] = t /\ phase[i] \in Started
      /\ work[w].step = "bind"
  BY <1>1, <1>2 DEF Bind, Stays, IInv, JobsFit
<1>4. work' = [work EXCEPT ![w] = Idle]
  BY DEF Bind, Done
<1>5. work'[w] = Idle /\ \A v \in Workers : v # w => work'[v] = work[v]
  BY <1>4 DEF IInv, TypeOK
<1>6. /\ bound' = [bound EXCEPT ![t] = i] /\ status' = [status EXCEPT ![t] = "PROCESS"]
      /\ reopened' = IF Notified(i) THEN reopened \cup {i} ELSE reopened
      /\ UNCHANGED <<key, events, owner, phase, endNode, revoking, failed, lost, blind, faults>>
  BY <1>1, <1>2 DEF Bind, BindProcessInstanceID, engine
<1>7. /\ bound'[t] = i /\ status'[t] = "PROCESS"
      /\ \A u \in Tickets : u # t => bound'[u] = bound[u] /\ status'[u] = status[u]
  BY <1>3, <1>6 DEF IInv, TypeOK
<1>8. TypeOK'
  BY <1>3, <1>4, <1>6, IdleJob DEF IInv, TypeOK, RowStatus, TicketStatus
<1>9. JobsFit' /\ OneStarter'
  BY <1>5, <1>6, IdleJob DEF IInv, JobsFit, OneStarter, Stays
<1>10. BoundToOwn'
  BY <1>3, <1>6, <1>7 DEF IInv, BoundToOwn
<1>11. BoundIffStarted'
  BY <1>3, <1>7, Constants DEF IInv, BoundIffStarted
<1>15. \A u \in Tickets : u # t => bound[u] # i
  BY <1>3, Constants DEF IInv, BoundToOwn
<1>12. EndMatchesEngine' /\ EndComesLast'
  <2>1. EndMatchesEngine'
    BY <1>6, <1>7, <1>15 DEF IInv, EndMatchesEngine, Notified
  <2>2. EndComesLast'
    BY <1>6 DEF IInv, EndComesLast, Notified, Started
  <2> QED BY <2>1, <2>2
<1>13. \A u \in Tickets : u # t => Starters(u) \subseteq Starters(u)'
  BY <1>2, <1>5 DEF Starters
<1>14. WaitsForSomething'
  BY <1>6, <1>7, <1>13 DEF IInv, WaitsForSomething
<1> QED BY <1>8, <1>9, <1>10, <1>11, <1>12, <1>14 DEF IInv

\* The engine moves: an instance it runs comes to its end node, is told to
\* archive, ends or is archived. No row changes.
LEMMA EngineStep ==
  ASSUME IInv, NEW i \in Instances, phase[i] \in Started,
         endNode' \in [Instances -> EndSteps], revoking' \subseteq revoking \cup {i},
         \/ phase' = phase
         \/ /\ phase[i] = "running"
            /\ \E p \in {"ended", "revoked"} : phase' = [phase EXCEPT ![i] = p],
         \A k \in Instances \ {i} : endNode'[k] = endNode[k],
         \A k \in Instances : Notified(k)' <=> Notified(k),
         UNCHANGED <<rows, events, owner, failed, work, ghosts, faults>>
  PROVE  IInv'
<1> USE DEF rows, ghosts
<1>1. /\ \A k \in Instances : phase[k] \in Started <=> phase'[k] \in Started
      /\ \A k \in Instances : phase[k] \notin Started => phase'[k] = phase[k]
      /\ \A k \in Instances : phase[k] = "revoked" => phase'[k] = "revoked"
      /\ \A k \in Instances : k # i => phase'[k] = phase[k]
      /\ phase' \in [Instances -> Phases]
  BY DEF IInv, TypeOK, Started, Phases
<1>2. TypeOK'
  BY <1>1 DEF IInv, TypeOK
<1>3. JobsFit' /\ OneStarter'
  <2>1. JobsFit'
    BY <1>1 DEF IInv, JobsFit, Started
  <2> QED BY <2>1 DEF IInv, OneStarter, Stays
<1>4. BoundToOwn' /\ BoundIffStarted'
  BY <1>1 DEF IInv, TypeOK, BoundToOwn, BoundIffStarted
<1>5. EndMatchesEngine'
  <2> SUFFICES ASSUME NEW t \in Tickets, bound[t] # NoInstance
               PROVE  /\ status[t] = "END" <=> Notified(bound[t])' /\ bound[t] \notin reopened
                      /\ status[t] = "WITHDRAW" => phase'[bound[t]] = "revoked"
    BY DEF EndMatchesEngine, Notified
  <2>1. bound[t] \in Instances
    BY DEF IInv, TypeOK
  <2> QED BY <1>1, <2>1 DEF IInv, EndMatchesEngine, Notified
<1>6. EndComesLast'
  <2> SUFFICES ASSUME NEW k \in Instances
               PROVE  /\ phase'[k] \in {"none", "created"} => endNode'[k] = "ahead"
                      /\ k \in reopened => Notified(k)'
                      /\ k \in revoking' => phase'[k] \in Started
    BY DEF EndComesLast, Notified, Started
  <2>1. phase'[k] \in {"none", "created"} => k # i /\ phase[k] = phase'[k]
    BY <1>1 DEF Started
  <2>2. k \in revoking' => phase[k] \in Started
    BY DEF IInv, EndComesLast
  <2> QED BY <1>1, <2>1, <2>2 DEF IInv, EndComesLast
<1>7. \A u \in Tickets : Starters(u)' = Starters(u)
  BY DEF Starters
<1>8. WaitsForSomething'
  BY <1>7 DEF IInv, WaitsForSomething
<1> QED BY <1>2, <1>3, <1>4, <1>5, <1>6, <1>8 DEF IInv

LEMMA ReachEndKeeps ==
  ASSUME IInv, NEW i \in Instances, ReachEnd(i) \/ EndInstance(i) \/ ArchiveInstance(i)
  PROVE  IInv'
<1>1. CASE ReachEnd(i)
  <2>1. /\ endNode' = [endNode EXCEPT ![i] = "reached"] /\ endNode[i] = "ahead"
        /\ revoking' = revoking
    BY <1>1 DEF ReachEnd
  <2>2. /\ endNode' \in [Instances -> EndSteps] /\ revoking' \subseteq revoking \cup {i}
        /\ \A k \in Instances \ {i} : endNode'[k] = endNode[k]
        /\ \A k \in Instances : Notified(k)' <=> Notified(k)
    BY <2>1 DEF IInv, TypeOK, EndSteps, Notified
  <2>3. /\ phase' = phase /\ phase[i] \in Started
        /\ UNCHANGED <<rows, events, owner, failed, work, ghosts, faults>>
    BY <1>1 DEF ReachEnd, Started
  <2> QED BY <2>2, <2>3, EngineStep
<1>2. CASE EndInstance(i)
  <2>1. UNCHANGED <<endNode, revoking>>
    BY <1>2 DEF EndInstance
  <2>2. /\ endNode' \in [Instances -> EndSteps] /\ revoking' \subseteq revoking \cup {i}
        /\ \A k \in Instances \ {i} : endNode'[k] = endNode[k]
        /\ \A k \in Instances : Notified(k)' <=> Notified(k)
    BY <2>1 DEF IInv, TypeOK, Notified
  <2>3. /\ phase[i] = "running" /\ phase' = [phase EXCEPT ![i] = "ended"]
        /\ phase[i] \in Started
        /\ UNCHANGED <<rows, events, owner, failed, work, ghosts, faults>>
    BY <1>2 DEF EndInstance, Started
  <2> QED BY <2>2, <2>3, EngineStep
<1>3. CASE ArchiveInstance(i)
  <2>1. revoking' = revoking \ {i} /\ i \in revoking /\ UNCHANGED endNode
    BY <1>3 DEF ArchiveInstance
  <2>2. /\ endNode' \in [Instances -> EndSteps] /\ revoking' \subseteq revoking \cup {i}
        /\ \A k \in Instances \ {i} : endNode'[k] = endNode[k]
        /\ \A k \in Instances : Notified(k)' <=> Notified(k)
    BY <2>1 DEF IInv, TypeOK, Notified
  <2>3. /\ \/ phase' = phase
           \/ /\ phase[i] = "running"
              /\ \E p \in {"ended", "revoked"} : phase' = [phase EXCEPT ![i] = p]
        /\ phase[i] \in Started
        /\ UNCHANGED <<rows, events, owner, failed, work, ghosts, faults>>
    BY <1>3, <2>1 DEF ArchiveInstance, IInv, EndComesLast
  <2> QED BY <2>2, <2>3, EngineStep
<1> QED BY <1>1, <1>2, <1>3

\* END reaches the tickets bound to the instance, and no other.
LEMMA EventNotifyKeeps ==
  ASSUME IInv, NEW i \in Instances, EventNotify(i)
  PROVE  IInv'
<1> USE DEF ghosts
<1>1. /\ endNode[i] = "reached"
      /\ endNode' = [endNode EXCEPT ![i] = "notified"]
      /\ status' = [t \in Tickets |-> IF bound[t] = i THEN "END" ELSE status[t]]
      /\ UNCHANGED <<key, bound, events, owner, phase, revoking, failed, work, ghosts, faults>>
  BY DEF EventNotify
<1>2. endNode'[i] = "notified" /\ \A k \in Instances : k # i => endNode'[k] = endNode[k]
  BY <1>1 DEF IInv, TypeOK
<1>3. \A u \in Tickets : status'[u] = IF bound[u] = i THEN "END" ELSE status[u]
  BY <1>1
<1>4. TypeOK'
  BY <1>1 DEF IInv, TypeOK, EndSteps, RowStatus, TicketStatus
<1>5. JobsFit' /\ OneStarter' /\ BoundToOwn'
  BY <1>1 DEF IInv, JobsFit, OneStarter, BoundToOwn, Stays
<1>6. BoundIffStarted'
  BY <1>1, <1>3, Constants DEF IInv, BoundIffStarted
<1>7. i \notin reopened /\ phase[i] \notin {"none", "created"}
  BY <1>1 DEF IInv, EndComesLast, Notified, Started
<1>8. EndComesLast'
  BY <1>1, <1>2, <1>7 DEF IInv, EndComesLast, Notified, Started
<1>9. ASSUME NEW u \in Tickets, bound[u] # NoInstance
      PROVE  /\ status'[u] = "END" <=> endNode'[bound[u]] = "notified" /\ bound[u] \notin reopened
             /\ status'[u] = "WITHDRAW" => phase[bound[u]] = "revoked"
  <2>1. CASE bound[u] = i
    BY <1>2, <1>3, <1>7, <2>1
  <2>2. CASE bound[u] # i
    <3>1. bound[u] \in Instances
      BY <1>9 DEF IInv, TypeOK
    <3> QED BY <1>2, <1>3, <1>9, <2>2, <3>1 DEF IInv, EndMatchesEngine, Notified
  <2> QED BY <2>1, <2>2
<1>10. EndMatchesEngine'
  BY <1>1, <1>9 DEF EndMatchesEngine, Notified
<1>11. \A u \in Tickets : Starters(u)' = Starters(u)
  BY <1>1 DEF Starters
<1>12. WaitsForSomething'
  BY <1>1, <1>3, <1>11 DEF IInv, WaitsForSomething
<1> QED BY <1>4, <1>5, <1>6, <1>8, <1>10, <1>12 DEF IInv

\* EventRevoke only notes that the archiving may go on.
LEMMA EventRevokeKeeps ==
  ASSUME IInv, NEW t \in Tickets, EventRevoke(t)
  PROVE  IInv'
<1>1. PICK i : i = bound[t]
  OBVIOUS
<1>2. /\ i \in Instances /\ phase[i] \in Started
      /\ revoking' = revoking \cup {i}
      /\ UNCHANGED <<rows, events, owner, phase, endNode, failed, work, ghosts, faults>>
  BY <1>1 DEF EventRevoke, rows, Started, IInv, TypeOK, BoundIffStarted
<1>3. /\ endNode' \in [Instances -> EndSteps] /\ revoking' \subseteq revoking \cup {i}
      /\ \A k \in Instances : endNode'[k] = endNode[k] /\ (Notified(k)' <=> Notified(k))
  BY <1>2 DEF IInv, TypeOK, Notified
<1> QED BY <1>2, <1>3, EngineStep

LEMMA WithdrawalKeeps ==
  ASSUME IInv, NEW t \in Tickets,
         PrepareWithdrawal(t) \/ FinalizeWithdrawal(t) \/ RollbackWithdrawal(t)
  PROVE  IInv'
<1>1. CASE PrepareWithdrawal(t)
  BY <1>1, WithdrawalStep DEF PrepareWithdrawal, engine
<1>2. CASE FinalizeWithdrawal(t)
  BY <1>2, WithdrawalStep DEF FinalizeWithdrawal, engine
<1>3. CASE RollbackWithdrawal(t)
  BY <1>3, WithdrawalStep DEF RollbackWithdrawal
<1> QED BY <1>1, <1>2, <1>3

LEMMA StutterKeeps == IInv /\ UNCHANGED vars => IInv'
<1> SUFFICES ASSUME IInv, UNCHANGED vars PROVE IInv'
  OBVIOUS
<1> USE DEF vars, rows, engine, ghosts
<1>1. TypeOK'
  BY DEF IInv, TypeOK
<1>2. JobsFit' /\ OneStarter' /\ BoundToOwn' /\ BoundIffStarted'
  BY DEF IInv, JobsFit, OneStarter, BoundToOwn, BoundIffStarted, Stays
<1>5. EndMatchesEngine' /\ EndComesLast'
  BY DEF IInv, EndMatchesEngine, EndComesLast, Notified, Started
<1>3. \A u \in Tickets : Starters(u)' = Starters(u)
  BY DEF Starters
<1>4. WaitsForSomething'
  BY <1>3 DEF IInv, WaitsForSomething
<1> QED BY <1>1, <1>2, <1>4, <1>5 DEF IInv

LEMMA NextKeeps == IInv /\ [Next]_vars => IInv'
<1> SUFFICES ASSUME IInv, [Next]_vars PROVE IInv'
  OBVIOUS
<1>1. ASSUME NEW w \in Workers, Request(w) PROVE IInv'
  BY <1>1, RequestKeeps, InsertKeeps, PrepareProcessRestartKeeps DEF Request
<1>2. ASSUME NEW w \in Workers, Consume(w) PROVE IInv'
  BY <1>2, ReceiveKeeps, InstanceStartKeeps, EventStartKeeps, ConsumerKeeps, BindKeeps
  DEF Consume
<1>3. ASSUME NEW w \in Workers, Send(w) \/ Mark(w) \/ Fail(w) PROVE IInv'
  BY <1>3, SendKeeps, MarkKeeps, SendFailsKeeps, ConsumerKeeps, GiveUpKeeps DEF Fail
<1>4. CASE UNCHANGED vars
  BY <1>4, StutterKeeps
<1> QED BY <1>1, <1>2, <1>3, <1>4, ReachEndKeeps, EventNotifyKeeps, EventRevokeKeeps,
       WithdrawalKeeps DEF Next

LEMMA InitHolds == Init => IInv
<1> SUFFICES ASSUME Init PROVE IInv
  OBVIOUS
<1>1. TypeOK
  <2>1. work \in [Workers -> Jobs]
    BY IdleJob DEF Init
  <2>2. /\ status \in [Tickets -> RowStatus] /\ key \in [Tickets -> Keys \cup {NoKey}]
        /\ bound \in [Tickets -> Instances \cup {NoInstance}]
        /\ owner \in [Instances -> Tickets \cup {NoTicket}]
        /\ phase \in [Instances -> Phases] /\ endNode \in [Instances -> EndSteps]
    BY DEF Init, RowStatus, Phases, EndSteps
  <2>3. events \in [Tickets -> 0..MaxEvents] /\ faults \in 0..MaxFaults
    BY Constants DEF Init
  <2> QED BY <2>1, <2>2, <2>3 DEF Init, TypeOK
<1>2. JobsFit /\ OneStarter
  BY IdleJob DEF Init, JobsFit, OneStarter, Stays
<1>3. BoundToOwn /\ BoundIffStarted /\ WaitsForSomething /\ EndMatchesEngine /\ EndComesLast
  BY DEF Init, BoundToOwn, BoundIffStarted, WaitsForSomething, EndMatchesEngine, EndComesLast
<1> QED BY <1>1, <1>2, <1>3 DEF IInv

\* The rows, the engine's instances and the goroutines agree, for any number
\* of tickets, requests, restarts, consumers and faults.
THEOREM StartInvariant == Spec => []IInv
BY InitHolds, NextKeeps, PTL DEF Spec

\* Every variable keeps its type.
THEOREM StartTypes == Spec => []TypeOK
<1>1. IInv => TypeOK
  BY DEF IInv
<1> QED BY <1>1, StartInvariant, PTL

\* A ticket is bound to an instance exactly when its status is past the start
\* (dao/ticket.go:139-182: the guards of the failure mark and of the restart).
THEOREM BoundWhenStarted == Spec => []BoundIffStarted
<1>1. IInv => BoundIffStarted
  BY DEF IInv
<1> QED BY <1>1, StartInvariant, PTL

\* No ticket waits in START for nothing, unless a step of its start was given
\* up (service.go:468, consumer.go:61).
THEOREM StartIsPending == Spec => []WaitsForSomething
<1>1. IInv => WaitsForSomething
  BY DEF IInv
<1> QED BY <1>1, StartInvariant, PTL

\* A ticket shows END exactly when the end node of its own instance has said so
\* and no second binding came after it, and WITHDRAW only for an archived
\* instance, though END, EventRevoke's check, the archiving and the statements of
\* the withdrawal overtake each other (process.go:158, :564, dao/withdrawal.go:146).
THEOREM FinalStatusIsTrue == Spec => []EndMatchesEngine
<1>1. IInv => EndMatchesEngine
  BY DEF IInv
<1> QED BY <1>1, StartInvariant, PTL

(***************************************************************************)
(* One consumer of the topic                                               *)
(***************************************************************************)

\* No instance becomes started and no binding changes.
LEMMA QuietInstances ==
  ASSUME SingleIInv, IInv', bound' = bound,
         \A i \in Instances :
            phase'[i] \in Started => phase[i] \in Started /\ owner'[i] = owner[i]
  PROVE  StartedIsKnown' /\ OneInstancePerTicket'
<1>1. \A i \in Instances :
        /\ phase[i] \in Started <=> phase[i] \notin {"none", "created"}
        /\ phase'[i] \in Started <=> phase'[i] \notin {"none", "created"}
  BY DEF SingleIInv, IInv, TypeOK, Phases, Started
<1>2. StartedIsKnown'
  BY DEF SingleIInv, StartedIsKnown
<1>3. OneInstancePerTicket'
  BY <1>1 DEF SingleIInv, OneInstancePerTicket
<1> QED BY <1>2, <1>3

\* A goroutine takes a job that starts nothing, or it is the consumer and the
\* ticket has no instance.
LEMMA QuietJob ==
  ASSUME SingleIInv, NEW w \in Workers, NEW j \in Jobs,
         work' = [work EXCEPT ![w] = j], bound' = bound,
         j.step \in {"find", "created"} => bound[j.ticket] = NoInstance,
         j.step \in {"find", "created", "nodes", "bind"} => w \in Consumers
  PROVE  StartsAlone'
<1>1. work'[w] = j /\ \A v \in Workers : v # w => work'[v] = work[v]
  BY DEF SingleIInv, IInv, TypeOK
<1> QED BY <1>1 DEF SingleIInv, StartsAlone

\* Requests, restarts, failures
LEMMA OtherJobsAlone ==
  ASSUME SingleIInv, IInv', NEW w \in Workers,
         Request(w) \/ Send(w) \/ Mark(w) \/ Fail(w)
  PROVE  SingleIInv'
<1>1. UNCHANGED <<bound, owner, phase>>
  BY DEF Request, FindOpenTicket, FindFails, RestartProcess, CreateTicket, Insert,
         PrepareProcessRestart, Send, Mark, Fail, SendFails, EventStartFails, NodesFail,
         GiveUp, rows, engine
<1>2. \E j \in Jobs : work' = [work EXCEPT ![w] = j]
                     /\ j.step \notin {"find", "created", "nodes", "bind"}
  <2>1. {"insert", "blindInsert", "prepare", "send", "mark"} \subseteq Steps
    BY DEF Steps
  <2>2. CASE \E k \in Keys : FindOpenTicket(w, k) \/ FindFails(w, k)
    <3>1. PICK k \in Keys, s \in {"insert", "blindInsert"} :
            work' = [work EXCEPT ![w] = [Idle EXCEPT !.step = s, !.key = k]]
      BY <2>2 DEF FindOpenTicket, FindFails
    <3>2. PICK j : j = [Idle EXCEPT !.step = s, !.key = k]
      OBVIOUS
    <3>3. j \in Jobs /\ j.step = s
      BY <2>1, <3>2, KeyEdit
    <3> QED BY <3>1, <3>2, <3>3
  <2>3. CASE \E t \in Tickets : RestartProcess(w, t)
    <3>1. PICK t \in Tickets : Takes(w, "prepare", t)
      BY <2>3 DEF RestartProcess, Takes
    <3> QED BY <2>1, <3>1, Typed, TicketEdit DEF SingleIInv
  <2>4. CASE Goto(w, "insert") \/ Goto(w, "send") \/ Goto(w, "mark")
    BY <2>1, <2>4, Typed, GotoEdit DEF SingleIInv
  <2>5. CASE Done(w)
    BY <2>5, IdleJob DEF Done
  <2>6. CASE CreateTicket(w) \/ PrepareProcessRestart(w)
    BY <2>4, <2>5, <2>6 DEF CreateTicket, PrepareProcessRestart
  <2>7. CASE Send(w) \/ Mark(w) \/ Fail(w)
    BY <2>4, <2>5, <2>7 DEF Send, Mark, Fail, SendFails, EventStartFails, NodesFail, GiveUp
  <2>8. CASE Insert(w)
    <3>1. PICK t \in Tickets : Takes(w, "send", t)
      BY <2>8 DEF Insert, Takes
    <3> QED BY <2>1, <3>1, Typed, TicketEdit DEF SingleIInv
  <2> QED BY <2>2, <2>3, <2>6, <2>7, <2>8 DEF Request
<1>3. StartsAlone'
  BY <1>1, <1>2, QuietJob
<1> QED BY <1>1, <1>3, QuietInstances DEF SingleIInv

\* The engine and the withdrawal work on started instances only.
LEMMA InstanceAlone ==
  ASSUME SingleIInv, IInv',
         \/ \E i \in Instances : \/ ReachEnd(i) \/ EventNotify(i) \/ EndInstance(i)
                                \/ ArchiveInstance(i)
         \/ \E t \in Tickets : \/ PrepareWithdrawal(t) \/ EventRevoke(t)
                              \/ FinalizeWithdrawal(t) \/ RollbackWithdrawal(t)
         \/ UNCHANGED vars
  PROVE  SingleIInv'
<1>1. UNCHANGED <<bound, owner, work>>
  BY DEF ReachEnd, EventNotify, EndInstance, ArchiveInstance, PrepareWithdrawal,
         EventRevoke, FinalizeWithdrawal, RollbackWithdrawal, vars, rows, engine
<1>2. \A i \in Instances : phase'[i] \in Started => phase[i] \in Started
  <2>1. CASE phase' = phase
    BY <2>1
  <2>2. CASE \E i \in Instances : EndInstance(i) \/ ArchiveInstance(i)
    BY <2>2 DEF EndInstance, ArchiveInstance, SingleIInv, IInv, TypeOK, Started
  <2> QED BY <2>1, <2>2 DEF ReachEnd, EventNotify, PrepareWithdrawal, EventRevoke,
                            FinalizeWithdrawal, RollbackWithdrawal, vars, engine
<1>3. StartsAlone'
  BY <1>1 DEF SingleIInv, StartsAlone
<1> QED BY <1>1, <1>2, <1>3, QuietInstances DEF SingleIInv

LEMMA ReceiveAlone ==
  ASSUME SingleIInv, IInv', NEW w \in Workers, NEW t \in Tickets, Receive(w, t)
  PROVE  SingleIInv'
<1>1. UNCHANGED <<bound, owner, phase>>
  BY DEF Receive, rows, engine
<1>2. CASE bound[t] = NoInstance
  <2>1. PICK j \in Jobs : work' = [work EXCEPT ![w] = j] /\ j.step = "find" /\ j.ticket = t
    <3>1. Takes(w, "find", t)
      BY <1>2 DEF Receive, Takes
    <3> QED BY <3>1, Typed, StepNames, TicketEdit DEF SingleIInv
  <2>2. StartsAlone'
    BY <1>1, <1>2, <2>1, QuietJob DEF Receive
  <2> QED BY <1>1, <2>2, QuietInstances DEF SingleIInv
<1>3. CASE bound[t] # NoInstance
  <2>1. StartsAlone'
    BY <1>1, <1>3 DEF Receive, SingleIInv, StartsAlone
  <2> QED BY <1>1, <2>1, QuietInstances DEF SingleIInv
<1> QED BY <1>2, <1>3

LEMMA InstanceStartAlone ==
  ASSUME SingleIInv, IInv', NEW w \in Workers, InstanceStart(w)
  PROVE  SingleIInv'
<1>1. PICK i \in Instances :
        /\ phase' = [phase EXCEPT ![i] = "created"]
        /\ owner' = [owner EXCEPT ![i] = work[w].ticket]
        /\ Begins(w, "created", i)
  BY DEF InstanceStart, Begins
<1>2. bound' = bound /\ work[w].step = "find"
  BY DEF InstanceStart, Stays, rows
<1>3. PICK j \in Jobs : /\ work' = [work EXCEPT ![w] = j]
                        /\ j.step = "created" /\ j.ticket = work[w].ticket
  BY <1>1, Typed, StepNames, InstanceEdit DEF SingleIInv
<1>4. StartsAlone'
  BY <1>2, <1>3, QuietJob DEF SingleIInv, StartsAlone
<1>5. \A k \in Instances :
        phase'[k] \in Started => phase[k] \in Started /\ owner'[k] = owner[k]
  BY <1>1 DEF SingleIInv, IInv, TypeOK, Started
<1> QED BY <1>2, <1>4, <1>5, QuietInstances DEF SingleIInv

LEMMA NodesRunAlone ==
  ASSUME SingleIInv, IInv', NEW w \in Workers, NodesRun(w)
  PROVE  SingleIInv'
<1>1. UNCHANGED <<bound, owner, phase>> /\ work[w].step = "nodes"
  BY DEF NodesRun, Stays, rows, engine
<1>2. PICK j \in Jobs : work' = [work EXCEPT ![w] = j] /\ j.step = "bind"
  BY Typed, StepNames, GotoEdit DEF NodesRun, SingleIInv
<1>3. StartsAlone'
  BY <1>1, <1>2, QuietJob DEF SingleIInv, StartsAlone
<1> QED BY <1>1, <1>3, QuietInstances DEF SingleIInv

\* The ticket had no instance, so that the new one is its only one.
LEMMA EventStartAlone ==
  ASSUME SingleConsumer, SingleIInv, IInv', NEW w \in Workers, EventStart(w)
  PROVE  SingleIInv'
<1>1. PICK i : i = work[w].inst
  OBVIOUS
<1>2. PICK t : t = work[w].ticket
  OBVIOUS
<1>3. /\ t \in Tickets /\ i \in Instances /\ owner[i] = t
      /\ w \in Consumers /\ bound[t] = NoInstance
  BY <1>1, <1>2 DEF EventStart, Stays, SingleIInv, IInv, JobsFit, StartsAlone
<1>4. PICK j \in Jobs : work' = [work EXCEPT ![w] = j] /\ j.step = "nodes"
  BY Typed, StepNames, GotoEdit DEF EventStart, SingleIInv
<1>5. work'[w] = j /\ \A v \in Workers : v # w => work'[v] = work[v]
  BY <1>4 DEF SingleIInv, IInv, TypeOK
<1>6. /\ bound' = [bound EXCEPT ![t] = i] /\ phase' = [phase EXCEPT ![i] = "running"]
      /\ owner' = owner
  BY <1>1, <1>3 DEF EventStart, BindProcessInstanceID
<1>7. /\ bound'[t] = i /\ \A u \in Tickets : u # t => bound'[u] = bound[u]
      /\ \A k \in Instances : k # i => phase'[k] = phase[k]
  BY <1>3, <1>6 DEF SingleIInv, IInv, TypeOK
<1>8. StartsAlone'
  <2>1. \A v \in Workers : v # w => work[v].step \notin {"find", "created", "nodes", "bind"}
    BY <1>3 DEF SingleConsumer, SingleIInv, StartsAlone
  <2> QED BY <1>3, <1>4, <1>5, <2>1 DEF StartsAlone
<1>9. StartedIsKnown'
  BY <1>3, <1>6, <1>7, Constants DEF SingleIInv, StartedIsKnown
<1>10. \A k \in Instances : /\ phase[k] \in Started <=> phase[k] \notin {"none", "created"}
                            /\ phase[k] \in Started => owner[k] # t
  BY <1>3 DEF SingleIInv, IInv, TypeOK, Phases, Started, StartedIsKnown
<1>11. OneInstancePerTicket'
  BY <1>3, <1>6, <1>7, <1>10 DEF SingleIInv, OneInstancePerTicket
<1> QED BY <1>8, <1>9, <1>11 DEF SingleIInv

LEMMA BindAlone ==
  ASSUME SingleConsumer, SingleIInv, IInv', NEW w \in Workers, Bind(w)
  PROVE  SingleIInv'
<1>1. PICK i : i = work[w].inst
  OBVIOUS
<1>2. PICK t : t = work[w].ticket
  OBVIOUS
<1>3. t \in Tickets /\ i \in Instances /\ w \in Consumers
  BY <1>1, <1>2 DEF Bind, Stays, SingleIInv, IInv, JobsFit, StartsAlone
<1>4. /\ work' = [work EXCEPT ![w] = Idle] /\ bound' = [bound EXCEPT ![t] = i]
      /\ UNCHANGED <<owner, phase>>
  BY <1>1, <1>2 DEF Bind, Done, BindProcessInstanceID, engine
<1>5. /\ work'[w] = Idle /\ \A v \in Workers : v # w => work'[v] = work[v]
      /\ bound'[t] = i /\ \A u \in Tickets : u # t => bound'[u] = bound[u]
  BY <1>3, <1>4 DEF SingleIInv, IInv, TypeOK
<1>6. StartsAlone'
  <2>1. \A v \in Workers : v # w => work[v].step \notin {"find", "created", "nodes", "bind"}
    BY <1>3 DEF SingleConsumer, SingleIInv, StartsAlone
  <2> QED BY <1>5, <2>1, IdleJob DEF StartsAlone
<1>7. StartedIsKnown'
  BY <1>3, <1>4, <1>5, Constants DEF SingleIInv, StartedIsKnown
<1>8. OneInstancePerTicket'
  BY <1>4 DEF SingleIInv, OneInstancePerTicket
<1> QED BY <1>6, <1>7, <1>8 DEF SingleIInv

LEMMA NextAlone == SingleConsumer /\ SingleIInv /\ [Next]_vars => SingleIInv'
<1> SUFFICES ASSUME SingleConsumer, SingleIInv, [Next]_vars PROVE SingleIInv'
  OBVIOUS
<1>1. IInv'
  BY NextKeeps DEF SingleIInv
<1>2. ASSUME NEW w \in Workers, Consume(w) PROVE SingleIInv'
  BY <1>1, <1>2, ReceiveAlone, InstanceStartAlone, EventStartAlone, NodesRunAlone, BindAlone
  DEF Consume
<1> QED BY <1>1, <1>2, OtherJobsAlone, InstanceAlone DEF Next

\* One consumer of the topic never starts a second instance of a ticket, whatever
\* Kafka repeats, whoever restarts and whatever fails (consumer.go:63,
\* process.go:49-60).
THEOREM OneConsumerStartsOnce == SingleConsumer => (Spec => []OneInstancePerTicket)
<1> SUFFICES ASSUME SingleConsumer PROVE Spec => []OneInstancePerTicket
  OBVIOUS
<1>1. Init => SingleIInv
  <2> SUFFICES ASSUME Init PROVE SingleIInv
    OBVIOUS
  <2>1. IInv
    BY InitHolds
  <2>2. StartsAlone /\ StartedIsKnown /\ OneInstancePerTicket
    BY IdleJob DEF Init, StartsAlone, StartedIsKnown, Started, OneInstancePerTicket
  <2> QED BY <2>1, <2>2 DEF SingleIInv
<1>2. SingleIInv /\ [Next]_vars => SingleIInv'
  BY NextAlone
<1>3. SingleIInv => OneInstancePerTicket
  BY DEF SingleIInv
<1> QED BY <1>1, <1>2, <1>3, PTL DEF Spec
=============================================================================
