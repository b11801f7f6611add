-------------------------- MODULE FlowxEngineProofs --------------------------
(***************************************************************************)
(* Proofs about FlowxEngine with transactional calls, for every process     *)
(* definition and every number of instances, callers and rounds: IInv is an *)
(* inductive invariant, and with it a task is pending only in the newest    *)
(* round, closed instances have no work, and decided tasks do not change.   *)
(* When no ignored statement fails, VoteInv holds too, and one vote decides *)
(* an approval that needs one.                                              *)
(*                                                                          *)
(* When the nodes of the definition lie in stages (Staged), StageInv adds   *)
(* that open work is never on both sides of a stage: then a finished        *)
(* instance has taken no contradictory path and no step overtakes another.  *)
(*                                                                          *)
(* An action either takes a session to another (Continue), drops it (Fail), *)
(* or saves the instance.  For the first kind it is enough that the new     *)
(* session satisfies SessionInv (ContinueKeeps).                            *)
(***************************************************************************)
EXTENDS FlowxEngine, TLAPS, WellFoundedInduction

(* A set of rounds that is not empty has a largest one.                     *)
LEMMA MaxOfRounds ==
  ASSUME NEW S \in SUBSET (1..MaxBatch), S # {}
  PROVE  Max(S) \in S /\ \A x \in S : x <= Max(S)
<1> DEFINE T == {MaxBatch - x : x \in S}
<1>1. T \subseteq Nat /\ T # {}
  <2>1. ASSUME NEW x \in S PROVE MaxBatch - x \in Nat
    BY EngineAssumption DEF EngineAssumption
  <2>2. PICK x \in S : TRUE
    OBVIOUS
  <2> QED BY <2>1, <2>2
<1>2. PICK y \in T : \A z \in T : <<z, y>> \notin OpToRel(<, Nat)
  BY <1>1, NatLessThanWellFounded, WFMin
<1>3. PICK m \in S : y = MaxBatch - m
  OBVIOUS
<1>4. ASSUME NEW x \in S PROVE x <= m
  <2>1. MaxBatch - x \in T /\ ~(MaxBatch - x < y)
    BY <1>1, <1>2 DEF OpToRel
  <2> QED BY <1>3, <2>1, EngineAssumption DEF EngineAssumption
<1>5. \E x \in S : \A z \in S : x >= z
  BY <1>4, EngineAssumption DEF EngineAssumption
<1> QED BY <1>5 DEF Max

(***************************************************************************)
(* The two ways a call goes on.                                             *)
(***************************************************************************)
LEMMA ContinueKeeps ==
  ASSUME IInv, Transactional, NEW c \in Callers, NEW s, NEW keys, SessionInv(s),
         \A d \in Callers : session[d] # Idle => d = c,
         Continue(c, s, keys)
  PROVE  IInv'
<1>1. /\ UNCHANGED <<tasks, inst>>
      /\ session' = [session EXCEPT ![c] = s]
  BY DEF Continue, WriteThrough
<1>2. TablesInv'
  BY <1>1 DEF IInv, TablesInv, PendingAreLatest, ClosedHasNoWork, Pending
<1>3. session' = [d \in Callers |-> session'[d]] /\ session'[c] = s
  BY <1>1 DEF IInv
<1>4. \A d \in Callers : d # c => session'[d] = Idle
  BY <1>1 DEF IInv
<1>5. SessionInv(s)'
  BY <1>1 DEF SessionInv, WellFormed, Extends, InRound
<1> QED BY <1>2, <1>3, <1>4, <1>5 DEF IInv, SessionInv, WellFormed, Extends, InRound

LEMMA FailKeeps ==
  ASSUME IInv, Transactional, NEW c \in Callers, NEW s, NEW keys,
         \A d \in Callers : session[d] # Idle => d = c,
         Fail(c, s, keys)
  PROVE  IInv'
<1>1. /\ UNCHANGED <<tasks, inst>>
      /\ session' = [session EXCEPT ![c] = Idle]
  BY DEF Fail, WriteThrough
<1>2. TablesInv'
  BY <1>1 DEF IInv, TablesInv, PendingAreLatest, ClosedHasNoWork, Pending
<1>3. \A d \in Callers : session'[d] = Idle
  BY <1>1 DEF IInv
<1> QED BY <1>1, <1>2, <1>3 DEF IInv

(***************************************************************************)
(* What a session does to itself.                                           *)
(***************************************************************************)
(* A session that is well formed is a record of eight fields, so that one   *)
(* of them can be replaced.                                                 *)
LEMMA AgendaKeeps ==
  ASSUME NEW s, WellFormed(s), NEW x
  PROVE  LET t == [s EXCEPT !.agenda = x] IN
         /\ WellFormed(t) /\ (InRound(s) => InRound(t)) /\ t.status = s.status /\ t.batch = s.batch
         /\ t.snap = s.snap /\ t.do = s.do /\ t.agenda = x
<1> DEFINE t == [s EXCEPT !.agenda = x]
<1>1. t = [do |-> s.do, inst |-> s.inst, key |-> s.key, batch |-> s.batch, snap |-> s.snap,
             status |-> s.status, variables |-> s.variables, agenda |-> x]
  BY DEF WellFormed
<1> HIDE DEF t
<1>2. /\ WellFormed(t) /\ (InRound(s) => InRound(t)) /\ t.status = s.status /\ t.batch = s.batch
      /\ t.snap = s.snap /\ t.do = s.do /\ t.agenda = x
  BY <1>1 DEF WellFormed, Extends, InRound
<1> QED BY <1>2 DEF t

(* The same for the other fields that are replaced.                         *)
LEMMA StatusKeeps ==
  ASSUME NEW s, WellFormed(s), NEW x
  PROVE  LET t == [s EXCEPT !.status = x] IN
         /\ WellFormed(t) /\ (InRound(s) => InRound(t)) /\ t.status = x /\ t.batch = s.batch
         /\ t.snap = s.snap /\ t.agenda = s.agenda
<1> DEFINE t == [s EXCEPT !.status = x]
<1>1. t = [do |-> s.do, inst |-> s.inst, key |-> s.key, batch |-> s.batch, snap |-> s.snap,
           status |-> x, variables |-> s.variables, agenda |-> s.agenda]
  BY DEF WellFormed
<1> HIDE DEF t
<1>2. /\ WellFormed(t) /\ (InRound(s) => InRound(t)) /\ t.status = x /\ t.batch = s.batch
      /\ t.snap = s.snap /\ t.agenda = s.agenda
  BY <1>1 DEF WellFormed, Extends, InRound
<1> QED BY <1>2 DEF t

LEMMA VariablesKeep ==
  ASSUME NEW s, WellFormed(s), NEW x
  PROVE  LET t == [s EXCEPT !.variables = x] IN
         /\ WellFormed(t) /\ (InRound(s) => InRound(t)) /\ t.status = s.status /\ t.batch = s.batch
         /\ t.snap = s.snap /\ t.agenda = s.agenda
<1> DEFINE t == [s EXCEPT !.variables = x]
<1>1. t = [do |-> s.do, inst |-> s.inst, key |-> s.key, batch |-> s.batch, snap |-> s.snap,
           status |-> s.status, variables |-> x, agenda |-> s.agenda]
  BY DEF WellFormed
<1> HIDE DEF t
<1>2. /\ WellFormed(t) /\ (InRound(s) => InRound(t)) /\ t.status = s.status /\ t.batch = s.batch
      /\ t.snap = s.snap /\ t.agenda = s.agenda
  BY <1>1 DEF WellFormed, Extends, InRound
<1> QED BY <1>2 DEF t

LEMMA BatchKeeps ==
  ASSUME NEW s, WellFormed(s), NEW x \in 1..MaxBatch
  PROVE  LET t == [s EXCEPT !.batch = x] IN
         /\ WellFormed(t) /\ t.status = s.status /\ t.batch = x
         /\ t.snap = s.snap /\ t.agenda = s.agenda
<1> DEFINE t == [s EXCEPT !.batch = x]
<1>1. t = [do |-> s.do, inst |-> s.inst, key |-> s.key, batch |-> x, snap |-> s.snap,
           status |-> s.status, variables |-> s.variables, agenda |-> s.agenda]
  BY DEF WellFormed
<1> HIDE DEF t
<1>2. /\ WellFormed(t) /\ t.status = s.status /\ t.batch = x
      /\ t.snap = s.snap /\ t.agenda = s.agenda
  BY <1>1 DEF WellFormed, Extends, InRound
<1> QED BY <1>2 DEF t

(* Giving pending tasks another status changes no decided row.              *)
LEMMA SetStatusKeeps ==
  ASSUME NEW s, WellFormed(s), NEW keys, NEW status,
         \A k \in keys \cap DOMAIN s.snap : s.snap[k] = "pending"
  PROVE  LET t == SetStatus(s, keys, status) IN
         /\ WellFormed(t)
         /\ InRound(s) => InRound(t)
         /\ t.status = s.status /\ t.batch = s.batch /\ t.key = s.key /\ t.agenda = s.agenda
         /\ DOMAIN t.snap = DOMAIN s.snap
         /\ \A k \in DOMAIN s.snap : t.snap[k] = IF k \in keys THEN status ELSE s.snap[k]
<1> DEFINE t == SetStatus(s, keys, status)
<1>1. t.snap = [k \in DOMAIN s.snap |-> IF k \in keys THEN status ELSE s.snap[k]]
  BY DEF SetStatus, WellFormed
<1>2. t = [s EXCEPT !.snap = t.snap]
  BY <1>1 DEF SetStatus
<1> HIDE DEF t
<1>3. t = [do |-> s.do, inst |-> s.inst, key |-> s.key, batch |-> s.batch, snap |-> t.snap,
           status |-> s.status, variables |-> s.variables, agenda |-> s.agenda]
  BY <1>2 DEF WellFormed
<1>4. WellFormed(t) /\ t.status = s.status /\ t.batch = s.batch /\ t.key = s.key /\ t.agenda = s.agenda
  BY <1>1, <1>3 DEF WellFormed, Extends
<1>5. InRound(s) => InRound(t)
  BY <1>1, <1>4 DEF InRound
<1> QED BY <1>1, <1>4, <1>5 DEF t

(* New tasks touch no row.                                                  *)
LEMMA AddTasksKeeps ==
  ASSUME NEW s, WellFormed(s), NEW keys, NEW status, Insertable(s, keys),
         \A k \in keys : k.batch \in 1..MaxBatch
  PROVE  LET t == AddTasks(s, keys, status) IN
         /\ WellFormed(t)
         /\ InRound(s) /\ (\A k \in keys : k.batch = s.batch) => InRound(t)
         /\ t.status = s.status /\ t.batch = s.batch /\ t.do = s.do /\ t.agenda = s.agenda
         /\ DOMAIN t.snap = DOMAIN s.snap \cup keys
         /\ \A k \in DOMAIN t.snap : t.snap[k] = IF k \in DOMAIN s.snap THEN s.snap[k] ELSE status
<1> DEFINE t == AddTasks(s, keys, status)
<1>1. t.snap = [k \in DOMAIN s.snap \cup keys |-> IF k \in DOMAIN s.snap THEN s.snap[k] ELSE status]
  BY DEF AddTasks, Over, WellFormed
<1>2. t = [s EXCEPT !.snap = t.snap]
  BY <1>1 DEF AddTasks
<1> HIDE DEF t
<1>3. t = [do |-> s.do, inst |-> s.inst, key |-> s.key, batch |-> s.batch, snap |-> t.snap,
           status |-> s.status, variables |-> s.variables, agenda |-> s.agenda]
  BY <1>2 DEF WellFormed
<1>4. WellFormed(t) /\ t.status = s.status /\ t.batch = s.batch /\ t.do = s.do /\ t.agenda = s.agenda
  BY <1>1, <1>3 DEF WellFormed, Extends, Insertable
<1>5. InRound(s) /\ (\A k \in keys : k.batch = s.batch) => InRound(t)
  BY <1>1, <1>4, EngineAssumption DEF WellFormed, InRound, EngineAssumption
<1> QED BY <1>1, <1>4, <1>5 DEF t

(* The keys of new tasks carry the round they are made for.                 *)
LEMMA KeysInRound ==
  ASSUME NEW n, NEW users, NEW b, NEW k \in KeysFor(n, users, b)
  PROVE  k.batch = b
BY DEF KeysFor

(* What an agenda leaves of a session.                                      *)
LEMMA AdvanceKeeps ==
  ASSUME NEW s, WellFormed(s), NEW agenda
  PROVE  LET t == Advance(s, agenda) IN
         /\ WellFormed(t)
         /\ InRound(s) => InRound(t)
         /\ t.do = "advance" /\ t.agenda = agenda
         /\ t.status = s.status /\ t.batch = s.batch /\ t.snap = s.snap
<1> DEFINE u == [s EXCEPT !.do = "advance"]
           t == Advance(s, agenda)
<1>1. u = [do |-> "advance", inst |-> s.inst, key |-> s.key, batch |-> s.batch, snap |-> s.snap,
           status |-> s.status, variables |-> s.variables, agenda |-> s.agenda]
  BY DEF WellFormed
<1>2. t = [u EXCEPT !.agenda = agenda]
  BY DEF Advance
<1> HIDE DEF u, t
<1>3. t = [do |-> "advance", inst |-> s.inst, key |-> s.key, batch |-> s.batch, snap |-> s.snap,
           status |-> s.status, variables |-> s.variables, agenda |-> agenda]
  BY <1>1, <1>2
<1>4. /\ WellFormed(t)
      /\ InRound(s) => InRound(t)
      /\ t.do = "advance" /\ t.agenda = agenda
      /\ t.status = s.status /\ t.batch = s.batch /\ t.snap = s.snap
  BY <1>3 DEF WellFormed, InRound, Extends
<1> QED BY <1>4 DEF t

(* An open session that works in its round may do anything; a closed one    *)
(* that has no work may be saved.                                           *)
LEMMA OpenSession ==
  ASSUME NEW s, WellFormed(s), InRound(s), ~Closed(s.status), NEW agenda
  PROVE  SessionInv(Advance(s, agenda))
<1> DEFINE t == Advance(s, agenda)
<1>1. WellFormed(t) /\ InRound(t) /\ ~Closed(t.status) /\ t.do = "advance"
  BY AdvanceKeeps
<1> HIDE DEF t
<1> QED BY <1>1 DEF SessionInv, t

LEMMA ClosedSession ==
  ASSUME NEW s, WellFormed(s), PendingTasks(s.snap) = {}, Closed(s.status)
  PROVE  SessionInv(Advance(s, <<Save>>))
<1> DEFINE t == Advance(s, <<Save>>)
<1>1. /\ WellFormed(t) /\ t.do = "advance" /\ t.agenda = <<Save>>
      /\ t.status = s.status /\ t.snap = s.snap
  BY AdvanceKeeps
<1> HIDE DEF t
<1> QED BY <1>1 DEF SessionInv, t

(* A decision applied to an open session leaves one.                        *)
LEMMA DecisionKeeps ==
  ASSUME IInv, Transactional, NEW c \in Callers, NEW s, NEW n, NEW keys,
         \A d \in Callers : session[d] # Idle => d = c,
         WellFormed(s), InRound(s), ~Closed(s.status),
         ApplyStepDecision(c, s, n, keys)
  PROVE  IInv'
<1> DEFINE dec == ResolveNextStep(n, s.variables, s.snap)
           skips == {[node |-> dec.skipped[i], batch |-> s.batch, user |-> "system_skip", seq |-> i] :
                     i \in DOMAIN dec.skipped}
           T(saved) == AddTasks(s, saved, "skipped")
<1>1. PICK saved \in Attempted(IF Insertable(s, skips) THEN skips ELSE {}) :
        \/ Continue(c, Advance(T(saved), <<Save>> \o T(saved).agenda), keys \cup saved)
        \/ Fail(c, T(saved), keys \cup saved)
        \/ Continue(c, Advance(T(saved), ActivateNodes(dec.ready) \o <<Save>> \o T(saved).agenda), keys \cup saved)
  BY DEF ApplyStepDecision
<1> DEFINE t == T(saved)
<1>2. Insertable(s, saved) /\ \A k \in saved : k.batch = s.batch
  BY DEF Insertable, Attempted
<1>3. WellFormed(t) /\ InRound(t) /\ t.status = s.status
  <2>1. s.batch \in 1..MaxBatch
    BY DEF WellFormed
  <2> QED BY <1>2, <2>1, AddTasksKeeps
<1>4. \/ \E agenda : Continue(c, Advance(t, agenda), keys \cup saved)
      \/ Fail(c, t, keys \cup saved)
  BY <1>1
<1> HIDE DEF t
<1>5. \A agenda : SessionInv(Advance(t, agenda))
  BY <1>3, OpenSession
<1> QED BY <1>4, <1>5, ContinueKeeps, FailKeeps

(***************************************************************************)
(* The actions.                                                             *)
(***************************************************************************)
(* A call is alone when it begins and while it lasts.                       *)
LEMMA Alone ==
  ASSUME IInv, Transactional, NEW c \in Callers, session[c] # Idle \/ MayBegin(c)
  PROVE  \A d \in Callers : session[d] # Idle => d = c
BY DEF IInv, MayBegin

(* The session of a call that starts an instance.                           *)
LEMMA StartSession ==
  ASSUME IInv, NEW c \in Callers, NEW i \in Instances, NEW v, Start(c, i, v)
  PROVE  LET s == [do |-> "advance", inst |-> i, key |-> Nowhere, batch |-> 1, snap |-> << >>,
                   status |-> "running", variables |-> v, agenda |-> <<>>] IN
         WellFormed(s) /\ InRound(s) /\ ~Closed(s.status)
<1> DEFINE s == [do |-> "advance", inst |-> i, key |-> Nowhere, batch |-> 1, snap |-> << >>,
                 status |-> "running", variables |-> v, agenda |-> <<>>]
<1>1. DOMAIN Snapshot(i) = {}
  BY DEF Start
<1>2. DOMAIN s.snap = {} /\ s.snap = [k \in DOMAIN s.snap |-> s.snap[k]]
  OBVIOUS
<1>3. \A k \in DOMAIN tasks : tasks[k].inst # i
  BY <1>1 DEF Snapshot
<1>4. s = [do |-> s.do, inst |-> s.inst, key |-> s.key, batch |-> s.batch, snap |-> s.snap,
           status |-> s.status, variables |-> s.variables, agenda |-> s.agenda]
      /\ s.inst = i /\ s.batch = 1 /\ s.status = "running"
  OBVIOUS
<1> HIDE DEF s
<1>5. WellFormed(s) /\ InRound(s) /\ ~Closed(s.status)
  BY <1>2, <1>3, <1>4, EngineAssumption DEF WellFormed, InRound, Extends, Closed, EngineAssumption
<1> QED BY <1>5 DEF s

LEMMA StartKeeps ==
  ASSUME IInv, Transactional, NEW c \in Callers, NEW i \in Instances, NEW v, Start(c, i, v)
  PROVE  IInv'
<1> DEFINE s == [do |-> "advance", inst |-> i, key |-> Nowhere, batch |-> 1, snap |-> << >>,
                 status |-> "running", variables |-> v, agenda |-> <<>>]
<1>1. ApplyStepDecision(c, s, StartNode, {}) /\ MayBegin(c)
  BY DEF Start
<1>2. WellFormed(s) /\ InRound(s) /\ ~Closed(s.status)
  BY StartSession
<1> HIDE DEF s
<1> QED BY <1>1, <1>2, Alone, DecisionKeeps

LEMMA LoadTaskKeeps ==
  ASSUME IInv, Transactional, NEW c \in Callers, NEW k \in DOMAIN tasks, LoadTask(c, k)
  PROVE  IInv'
<1> DEFINE i == tasks[k].inst
           s == [do |-> "decide", inst |-> i, key |-> k, batch |-> k.batch, snap |-> Snapshot(i),
                 status |-> inst[i].status, variables |-> inst[i].variables, agenda |-> <<>>]
<1>1. session' = [session EXCEPT ![c] = s] /\ UNCHANGED <<tasks, inst>>
  BY DEF LoadTask, Load
<1>2. CanDecide(k) /\ MayBegin(c)
  BY DEF LoadTask
<1>3. /\ DOMAIN s.snap = {j \in DOMAIN tasks : tasks[j].inst = i}
      /\ \A j \in DOMAIN s.snap : s.snap[j] = tasks[j].status
      /\ s.snap = [j \in DOMAIN s.snap |-> s.snap[j]]
  BY DEF Snapshot
<1>4. /\ s = [do |-> s.do, inst |-> s.inst, key |-> s.key, batch |-> s.batch, snap |-> s.snap,
              status |-> s.status, variables |-> s.variables, agenda |-> s.agenda]
      /\ s.do = "decide" /\ s.inst = i /\ s.key = k /\ s.batch = k.batch /\ s.status = inst[i].status
  OBVIOUS
<1> HIDE DEF s
<1>5. WellFormed(s)
  BY <1>3, <1>4 DEF WellFormed, Extends, IInv, TablesInv
<1>6. InRound(s)
  <2>1. ASSUME NEW j \in DOMAIN s.snap, s.snap[j] = "pending", NEW l \in DOMAIN s.snap
        PROVE  l.batch <= j.batch
    <3>1. i \in Instances /\ j \in Pending(i)
      BY <1>3, <2>1 DEF Pending, IInv, TablesInv
    <3>2. l \in DOMAIN tasks /\ tasks[l].inst = i
      BY <1>3
    <3> HIDE DEF i
    <3> QED BY <3>1, <3>2 DEF IInv, TablesInv, PendingAreLatest
  <2>2. k \in DOMAIN s.snap /\ s.snap[k] = "pending" /\ s.batch = k.batch
    BY <1>2, <1>3, <1>4 DEF CanDecide
  <2>3. \A j \in DOMAIN s.snap : j.batch \in 1..MaxBatch
    BY <1>5 DEF WellFormed
  <2>4. \A j \in DOMAIN s.snap : s.snap[j] = "pending" => j.batch = k.batch
    BY <2>1, <2>2, <2>3, EngineAssumption DEF EngineAssumption
  <2> QED BY <2>1, <2>2, <2>4 DEF InRound
<1>7. SessionInv(s)
  BY <1>2, <1>3, <1>4, <1>5, <1>6 DEF SessionInv, CanDecide, Closed
<1>8. Continue(c, s, {})
  BY <1>1 DEF Continue, WriteThrough
<1> QED BY <1>2, <1>7, <1>8, Alone, ContinueKeeps

LEMMA LoadInstanceKeeps ==
  ASSUME IInv, Transactional, NEW c \in Callers, NEW i \in Instances, LoadInstance(c, i)
  PROVE  IInv'
<1> DEFINE s == [do |-> "revoke", inst |-> i, key |-> Nowhere, batch |-> 1, snap |-> Snapshot(i),
                 status |-> inst[i].status, variables |-> inst[i].variables, agenda |-> <<>>]
<1>1. session' = [session EXCEPT ![c] = s] /\ UNCHANGED <<tasks, inst>>
  BY DEF LoadInstance, Load
<1>2. inst[i].status = "running" /\ MayBegin(c)
  BY DEF LoadInstance
<1>3. /\ DOMAIN s.snap = {j \in DOMAIN tasks : tasks[j].inst = i}
      /\ \A j \in DOMAIN s.snap : s.snap[j] = tasks[j].status
      /\ s.snap = [j \in DOMAIN s.snap |-> s.snap[j]]
  BY DEF Snapshot
<1>4. /\ s = [do |-> s.do, inst |-> s.inst, key |-> s.key, batch |-> s.batch, snap |-> s.snap,
              status |-> s.status, variables |-> s.variables, agenda |-> s.agenda]
      /\ s.do = "revoke" /\ s.inst = i /\ s.batch = 1 /\ s.status = inst[i].status
  OBVIOUS
<1> HIDE DEF s
<1>5. WellFormed(s)
  BY <1>3, <1>4, EngineAssumption DEF WellFormed, Extends, IInv, TablesInv, EngineAssumption
<1>6. SessionInv(s)
  BY <1>2, <1>4, <1>5 DEF SessionInv, Closed
<1>7. Continue(c, s, {})
  BY <1>1 DEF Continue, WriteThrough
<1> QED BY <1>2, <1>6, <1>7, Alone, ContinueKeeps

(* A session that is about to decide its task.                              *)
LEMMA Deciding ==
  ASSUME IInv, NEW c \in Callers, session[c].do = "decide"
  PROVE  LET s == session[c] IN
         /\ session[c] # Idle
         /\ WellFormed(s) /\ InRound(s) /\ ~Closed(s.status)
         /\ s.key \in DOMAIN s.snap /\ s.snap[s.key] = "pending" /\ s.batch = s.key.batch
<1>1. session[c] # Idle
  BY DEF Idle
<1> QED BY <1>1 DEF IInv, SessionInv

LEMMA PassTaskKeeps ==
  ASSUME IInv, Transactional, NEW c \in Callers, PassTask(c)
  PROVE  IInv'
<1> DEFINE s == session[c]
           k == s.key
           p == SetStatus(s, {k}, "passed")
<1>1. /\ session[c] # Idle
      /\ WellFormed(s) /\ InRound(s) /\ ~Closed(s.status)
      /\ k \in DOMAIN s.snap /\ s.snap[k] = "pending" /\ s.batch = k.batch
  BY Deciding DEF PassTask
<1>2. PICK v : Pass(c, [p EXCEPT !.variables = v], k)
  BY DEF PassTask
<1>3. WellFormed(p) /\ InRound(p) /\ p.status = s.status
  BY <1>1, SetStatusKeeps
<1> HIDE DEF p
<1> DEFINE q == [p EXCEPT !.variables = v]
           skips == SkippedTasks(k, q.snap)
           t == SetStatus(q, skips, "skipped")
<1>4. WellFormed(q) /\ InRound(q) /\ q.status = s.status
  <2>1. WellFormed(q) /\ (InRound(p) => InRound(q)) /\ q.status = p.status
    BY <1>3, VariablesKeep
  <2> QED BY <1>3, <2>1
<1>5. \/ ApplyStepDecision(c, t, k.node, {k} \cup skips)
      \/ Continue(c, Advance(t, <<Save>>), {k} \cup skips)
  BY <1>2 DEF Pass
<1> HIDE DEF q
<1>6. \A j \in skips \cap DOMAIN q.snap : q.snap[j] = "pending"
  BY DEF SkippedTasks
<1>7. WellFormed(t) /\ InRound(t) /\ t.status = s.status
  BY <1>4, <1>6, SetStatusKeeps
<1> HIDE DEF t
<1>8. SessionInv(Advance(t, <<Save>>))
  BY <1>1, <1>7, OpenSession
<1> QED BY <1>1, <1>5, <1>7, <1>8, Alone, ContinueKeeps, DecisionKeeps

(* A rejection leaves nothing pending.                                      *)
LEMMA RejectedKeeps ==
  ASSUME NEW s, WellFormed(s), InRound(s), ~Closed(s.status),
         s.key \in DOMAIN s.snap, s.snap[s.key] = "pending", s.batch = s.key.batch
  PROVE  LET t == Rejected(s, Siblings(s.key, s.snap)) IN
         /\ WellFormed(t) /\ InRound(t)
         /\ t.status = s.status /\ t.batch = s.batch
         /\ PendingTasks(t.snap) = {}
         /\ DOMAIN t.snap = DOMAIN s.snap
         /\ \A k \in DOMAIN s.snap : s.snap[k] # "pending" => t.snap[k] = s.snap[k]
<1> DEFINE keys == Siblings(s.key, s.snap)
           u == SetStatus(s, keys, "cancelled")
           t == Rejected(s, keys)
<1>1. /\ WellFormed(u) /\ InRound(u) /\ u.status = s.status /\ u.batch = s.batch /\ u.key = s.key
      /\ DOMAIN u.snap = DOMAIN s.snap
      /\ \A k \in DOMAIN s.snap : u.snap[k] = IF k \in keys THEN "cancelled" ELSE s.snap[k]
  <2>1. \A k \in keys \cap DOMAIN s.snap : s.snap[k] = "pending"
    BY DEF Siblings
  <2> QED BY <2>1, SetStatusKeeps
<1>2. t = SetStatus(u, {s.key}, "rejected")
  BY DEF Rejected
<1> HIDE DEF u, t
<1>3. u.snap[s.key] = "pending"
  BY <1>1 DEF Siblings
<1>4. /\ WellFormed(t) /\ InRound(t) /\ t.status = s.status /\ t.batch = s.batch
      /\ DOMAIN t.snap = DOMAIN s.snap
      /\ \A k \in DOMAIN u.snap : t.snap[k] = IF k \in {s.key} THEN "rejected" ELSE u.snap[k]
  BY <1>1, <1>2, <1>3, SetStatusKeeps
<1>5. ASSUME NEW k \in DOMAIN t.snap PROVE t.snap[k] # "pending"
  BY <1>1, <1>4 DEF Siblings, InRound
<1>6. PendingTasks(t.snap) = {}
  BY <1>5 DEF PendingTasks
<1>7. ASSUME NEW k \in DOMAIN s.snap, s.snap[k] # "pending" PROVE t.snap[k] = s.snap[k]
  BY <1>1, <1>4, <1>7 DEF Siblings
<1> QED BY <1>1, <1>4, <1>6, <1>7 DEF t

(* Closing a process that has nothing pending.                              *)
LEMMA CloseKeeps ==
  ASSUME IInv, Transactional, NEW c \in Callers, NEW s, NEW status, NEW keys,
         \A d \in Callers : session[d] # Idle => d = c,
         WellFormed(s), PendingTasks(s.snap) = {}, Closed(status),
         Close(c, s, status, keys)
  PROVE  IInv'
<1> DEFINE t == [s EXCEPT !.status = status]
<1>1. Continue(c, Advance(t, <<Save>>), keys)
  BY DEF Close
<1>2. WellFormed(t) /\ t.snap = s.snap /\ t.status = status
  BY StatusKeeps
<1> HIDE DEF t
<1> QED BY <1>1, <1>2, ClosedSession, ContinueKeeps

(* A new round of a process that has nothing pending.                       *)
LEMMA NewRound ==
  ASSUME NEW s, WellFormed(s), PendingTasks(s.snap) = {}, NEW b \in 1..MaxBatch,
         \A k \in DOMAIN s.snap : k.batch <= b
  PROVE  LET t == [s EXCEPT !.batch = b] IN
         WellFormed(t) /\ InRound(t) /\ t.status = s.status /\ t.batch = b /\ t.snap = s.snap
<1> DEFINE t == [s EXCEPT !.batch = b]
<1>1. WellFormed(t) /\ t.status = s.status /\ t.batch = b /\ t.snap = s.snap
  BY BatchKeeps
<1> HIDE DEF t
<1>2. InRound(t)
  BY <1>1 DEF InRound, PendingTasks
<1> QED BY <1>1, <1>2 DEF t

LEMMA BackToStarterKeeps ==
  ASSUME IInv, Transactional, NEW c \in Callers, NEW s, NEW b \in Nat \ {0}, NEW keys,
         \A d \in Callers : session[d] # Idle => d = c,
         WellFormed(s), PendingTasks(s.snap) = {}, ~Closed(s.status),
         \A k \in DOMAIN s.snap : k.batch <= b,
         BackToStarter(c, s, b, keys)
  PROVE  IInv'
<1> DEFINE new == KeysFor(StartNode, <<Starter>>, b)
           u == [s EXCEPT !.batch = b]
           t == AddTasks(u, new, "pending")
<1>1. b \in 1..MaxBatch
  BY EngineAssumption DEF BackToStarter, EngineAssumption
<1>2. \/ Insertable(s, new) /\ Continue(c, Advance(t, <<Save>>), keys \cup new)
      \/ Fail(c, s, keys)
  BY DEF BackToStarter
<1>3. WellFormed(u) /\ InRound(u) /\ u.status = s.status /\ u.batch = b /\ u.snap = s.snap
  BY <1>1, NewRound
<1>4. \A k \in new : k.batch = b
  BY KeysInRound
<1> HIDE DEF u, new
<1>5. ASSUME Insertable(s, new) PROVE WellFormed(t) /\ InRound(t) /\ t.status = s.status
  <2>1. Insertable(u, new)
    BY <1>3, <1>5 DEF Insertable
  <2> QED BY <1>1, <1>3, <1>4, <2>1, AddTasksKeeps
<1> HIDE DEF t
<1> QED BY <1>2, <1>5, OpenSession, ContinueKeeps, FailKeeps

LEMMA SendBackKeeps ==
  ASSUME IInv, Transactional, NEW c \in Callers, NEW s, NEW n, NEW keys,
         \A d \in Callers : session[d] # Idle => d = c,
         WellFormed(s), InRound(s), PendingTasks(s.snap) = {}, ~Closed(s.status),
         SendBack(c, s, n, keys)
  PROVE  IInv'
<1> DEFINE b == s.batch + 1
           u == [s EXCEPT !.batch = b]
<1>1. b \in Nat \ {0} /\ \A k \in DOMAIN s.snap : k.batch <= b
  BY EngineAssumption DEF WellFormed, InRound, EngineAssumption
<1>2. CASE BackToStarter(c, s, b, keys)
  <2> HIDE DEF b
  <2> QED BY <1>1, <1>2, BackToStarterKeeps
<1>3. CASE b <= MaxBatch /\ Continue(c, Advance(u, ActivateNodes(<<n>>) \o <<Save>>), keys)
  <2>1. b \in 1..MaxBatch
    BY <1>1, <1>3, EngineAssumption DEF EngineAssumption
  <2> HIDE DEF b
  <2>2. WellFormed(u) /\ InRound(u) /\ u.status = s.status
    BY <1>1, <2>1, NewRound
  <2> HIDE DEF u
  <2> QED BY <1>3, <2>2, OpenSession, ContinueKeeps
<1> QED BY <1>2, <1>3 DEF SendBack

(* The three rejections.                                                    *)
LEMMA RejectKeeps ==
  ASSUME IInv, Transactional, ~StatementsFail, NEW c \in Callers,
         \/ RejectAndTerminate(c)
         \/ \E n \in RejectTargets : RejectToTarget(c, n)
         \/ RejectUpstream(c)
  PROVE  IInv'
<1> DEFINE s == session[c]
           siblings == Siblings(s.key, s.snap)
           t == Rejected(s, siblings)
           keys == {s.key} \cup siblings
<1>1. s.do = "decide"
  BY DEF RejectAndTerminate, RejectToTarget, RejectUpstream
<1>2. \/ Close(c, t, "rejected", keys)
      \/ \E n : SendBack(c, t, n, keys)
      \/ Fail(c, t, keys)
  BY DEF RejectAndTerminate, RejectToTarget, RejectUpstream, Attempted
<1>3. /\ session[c] # Idle
      /\ WellFormed(s) /\ InRound(s) /\ ~Closed(s.status)
      /\ s.key \in DOMAIN s.snap /\ s.snap[s.key] = "pending" /\ s.batch = s.key.batch
  BY <1>1, Deciding
<1>4. WellFormed(t) /\ InRound(t) /\ ~Closed(t.status) /\ PendingTasks(t.snap) = {}
  <2> HIDE DEF s
  <2> QED BY <1>3, RejectedKeeps
<1>5. \A d \in Callers : session[d] # Idle => d = c
  BY <1>3, Alone
<1>6. Closed("rejected")
  BY DEF Closed
<1> HIDE DEF t, keys
<1> QED BY <1>2, <1>4, <1>5, <1>6, CloseKeeps, SendBackKeeps, FailKeeps

(* The round after all those of a snapshot.                                 *)
LEMMA RoundsOfSnapshot ==
  ASSUME NEW s, WellFormed(s)
  PROVE  LET b == MaxBatchCode(s.snap) + 1 IN
         b \in Nat \ {0} /\ \A k \in DOMAIN s.snap : k.batch < b
<1> DEFINE rounds == {1} \cup {k.batch : k \in DOMAIN s.snap}
           b == MaxBatchCode(s.snap) + 1
<1>1. rounds \in SUBSET (1..MaxBatch) /\ rounds # {}
  BY EngineAssumption DEF WellFormed, EngineAssumption
<1>2. b = Max(rounds) + 1
  BY DEF MaxBatchCode
<1>3. \A k \in DOMAIN s.snap : k.batch \in rounds
  OBVIOUS
<1> HIDE DEF rounds, b
<1>4. Max(rounds) \in rounds /\ \A x \in rounds : x <= Max(rounds)
  BY <1>1, MaxOfRounds
<1>5. \A x \in rounds : x \in Int /\ 1 <= x /\ x <= Max(rounds)
  BY <1>1, <1>4, EngineAssumption DEF EngineAssumption
<1>6. b \in Nat \ {0} /\ \A k \in DOMAIN s.snap : k.batch < b
  BY <1>2, <1>3, <1>4, <1>5
<1> QED BY <1>6 DEF b

LEMMA RevokeKeeps ==
  ASSUME IInv, Transactional, NEW c \in Callers, NEW back \in BOOLEAN, Revoke(c, back)
  PROVE  IInv'
<1> DEFINE s == session[c]
           keys == PendingTasks(s.snap)
           t == SetStatus(s, keys, "cancelled")
           b == MaxBatchCode(s.snap) + 1
<1>1. s.do = "revoke" /\ (BackToStarter(c, t, b, keys) \/ Close(c, t, "cancelled", keys))
  BY DEF Revoke
<1>2. session[c] # Idle /\ WellFormed(s) /\ ~Closed(s.status)
  BY <1>1 DEF Idle, IInv, SessionInv
<1>3. \A d \in Callers : session[d] # Idle => d = c
  BY <1>2, Alone
<1>4. /\ WellFormed(t) /\ t.status = s.status
      /\ DOMAIN t.snap = DOMAIN s.snap
      /\ \A k \in DOMAIN s.snap : t.snap[k] = IF k \in keys THEN "cancelled" ELSE s.snap[k]
  <2>1. \A k \in keys \cap DOMAIN s.snap : s.snap[k] = "pending"
    BY DEF PendingTasks
  <2> HIDE DEF s
  <2> QED BY <1>2, <2>1, SetStatusKeeps
<1>5. PendingTasks(t.snap) = {}
  BY <1>4 DEF PendingTasks
<1>6. b \in Nat \ {0} /\ \A k \in DOMAIN t.snap : k.batch <= b
  <2>1. b \in Nat \ {0} /\ \A k \in DOMAIN s.snap : k.batch < b
    BY <1>2, RoundsOfSnapshot
  <2>2. \A k \in DOMAIN s.snap : k.batch \in Nat
    BY <1>2, EngineAssumption DEF WellFormed, EngineAssumption
  <2> HIDE DEF s, b
  <2> QED BY <1>4, <2>1, <2>2
<1>7. Closed("cancelled")
  BY DEF Closed
<1> HIDE DEF t, b, keys
<1> QED BY <1>1, <1>2, <1>3, <1>4, <1>5, <1>6, <1>7, BackToStarterKeeps, CloseKeeps

(* A session that is about to activate a node.                              *)
LEMMA Activating ==
  ASSUME IInv, NEW c \in Callers, session[c].do = "advance", Head(session[c].agenda) # Save
  PROVE  LET s == session[c] IN
         session[c] # Idle /\ WellFormed(s) /\ InRound(s) /\ ~Closed(s.status)
<1>1. session[c] # Idle
  BY DEF Idle
<1>2. Head(<<Save>>) = Save
  OBVIOUS
<1> QED BY <1>1, <1>2 DEF IInv, SessionInv

(* The same for a node of some type, and the session without that node.     *)
LEMMA AtNodeKeeps ==
  ASSUME IInv, Transactional, NEW c \in Callers, NEW type, AtNode(c, type)
  PROVE  LET t == Done(session[c]) IN
         /\ session[c] # Idle
         /\ \A d \in Callers : session[d] # Idle => d = c
         /\ WellFormed(t) /\ InRound(t) /\ ~Closed(t.status) /\ t.do = "advance"
         /\ t.batch = session[c].batch /\ t.snap = session[c].snap
         /\ t.status = session[c].status /\ t.agenda = Tail(session[c].agenda)
<1> DEFINE s == session[c]
           t == Done(s)
<1>1. s.do = "advance" /\ Head(s.agenda).do = "activate"
  BY DEF AtNode
<1>2. session[c] # Idle /\ WellFormed(s) /\ InRound(s) /\ ~Closed(s.status)
  BY <1>1, Activating DEF Save
<1> DEFINE rest == Tail(s.agenda)
<1>3. t = [s EXCEPT !.agenda = rest]
  BY <1>2 DEF Done, WellFormed
<1> HIDE DEF s, t, rest
<1>4. /\ WellFormed(t) /\ (InRound(s) => InRound(t)) /\ t.status = s.status
      /\ t.batch = s.batch /\ t.snap = s.snap /\ t.do = s.do /\ t.agenda = rest
  <2>1. LET u == [s EXCEPT !.agenda = rest] IN
        /\ WellFormed(u) /\ (InRound(s) => InRound(u)) /\ u.status = s.status /\ u.batch = s.batch
        /\ u.snap = s.snap /\ u.do = s.do /\ u.agenda = rest
    BY <1>2, AgendaKeeps
  <2> QED BY <1>3, <2>1
<1> QED BY <1>1, <1>2, <1>4, Alone DEF s, t, rest

(* New tasks of an open session.                                            *)
LEMMA Activated ==
  ASSUME NEW s, WellFormed(s), InRound(s), ~Closed(s.status), s.do = "advance",
         NEW n, NEW users, NEW status,
         Insertable(s, KeysFor(n, users, s.batch))
  PROVE  LET t == AddTasks(s, KeysFor(n, users, s.batch), status) IN
         WellFormed(t) /\ InRound(t) /\ ~Closed(t.status) /\ SessionInv(t)
<1> DEFINE new == KeysFor(n, users, s.batch)
           t == AddTasks(s, new, status)
<1>1. \A k \in new : k.batch = s.batch
  BY KeysInRound
<1>2. s.batch \in 1..MaxBatch
  BY DEF WellFormed
<1> HIDE DEF new
<1>3. WellFormed(t) /\ InRound(t) /\ ~Closed(t.status) /\ t.do = "advance"
  BY <1>1, <1>2, AddTasksKeeps DEF new
<1> HIDE DEF t
<1>4. SessionInv(t)
  BY <1>3 DEF SessionInv
<1> QED BY <1>3, <1>4 DEF t, new

LEMMA ActivateApprovalKeeps ==
  ASSUME IInv, Transactional, NEW c \in Callers, ActivateApproval(c)
  PROVE  IInv'
<1> DEFINE s == session[c]
           u == Done(s)
           n == Head(s.agenda).node
           new == KeysFor(n, Assignees[n], s.batch)
<1>1. /\ AtNode(c, "APPROVAL")
      /\ \/ Insertable(s, new) /\ Continue(c, AddTasks(u, new, "pending"), new)
         \/ Fail(c, s, {})
  BY DEF ActivateApproval
<1>2. /\ \A d \in Callers : session[d] # Idle => d = c
      /\ WellFormed(u) /\ InRound(u) /\ ~Closed(u.status) /\ u.do = "advance"
      /\ u.batch = s.batch /\ u.snap = s.snap
  BY <1>1, AtNodeKeeps
<1> HIDE DEF u, n
<1>3. Insertable(s, new) => SessionInv(AddTasks(u, new, "pending"))
  BY <1>2, Activated DEF Insertable
<1> HIDE DEF s, new
<1> QED BY <1>1, <1>2, <1>3, ContinueKeeps, FailKeeps

LEMMA ActivateCarbonCopyKeeps ==
  ASSUME IInv, Transactional, NEW c \in Callers, ActivateCarbonCopy(c)
  PROVE  IInv'
<1> DEFINE s == session[c]
           u == Done(s)
           n == Head(s.agenda).node
           new == KeysFor(n, Assignees[n], s.batch)
           t == AddTasks(u, new, "passed")
<1>1. /\ AtNode(c, "CC")
      /\ \/ Insertable(s, new) /\ ApplyStepDecision(c, t, n, new)
         \/ Fail(c, s, {})
  BY DEF ActivateCarbonCopy
<1>2. /\ \A d \in Callers : session[d] # Idle => d = c
      /\ WellFormed(u) /\ InRound(u) /\ ~Closed(u.status) /\ u.do = "advance"
      /\ u.batch = s.batch /\ u.snap = s.snap
  BY <1>1, AtNodeKeeps
<1> HIDE DEF u, n
<1>3. Insertable(s, new) => WellFormed(t) /\ InRound(t) /\ ~Closed(t.status)
  BY <1>2, Activated DEF Insertable
<1> HIDE DEF s, t, new
<1> QED BY <1>1, <1>2, <1>3, DecisionKeeps, FailKeeps

LEMMA WorkerKeeps ==
  ASSUME IInv, Transactional, NEW c \in Callers,
         WorkerFails(c) \/ WorkerSuspends(c) \/ WorkerSucceeds(c)
  PROVE  IInv'
<1> DEFINE s == session[c]
           u == Done(s)
           n == Head(s.agenda).node
           new == KeysFor(n, <<"system">>, s.batch)
           t == AddTasks(u, new, "passed")
<1>1. /\ AtNode(c, "TASK")
      /\ \/ Insertable(s, new) /\ Continue(c, AddTasks(u, new, "pending"), new)
         \/ Insertable(s, new) /\ \E v : ApplyStepDecision(c, [t EXCEPT !.variables = v], n, new)
         \/ Fail(c, s, {})
  BY DEF WorkerFails, WorkerSuspends, WorkerSucceeds
<1>2. /\ \A d \in Callers : session[d] # Idle => d = c
      /\ WellFormed(u) /\ InRound(u) /\ ~Closed(u.status) /\ u.do = "advance"
      /\ u.batch = s.batch /\ u.snap = s.snap
  BY <1>1, AtNodeKeeps
<1> HIDE DEF u, n
<1>3. Insertable(s, new) => /\ SessionInv(AddTasks(u, new, "pending"))
                            /\ WellFormed(t) /\ InRound(t) /\ ~Closed(t.status)
  BY <1>2, Activated DEF Insertable
<1> HIDE DEF s, t, new
<1>4. ASSUME Insertable(s, new), NEW v
      PROVE  LET w == [t EXCEPT !.variables = v] IN WellFormed(w) /\ InRound(w) /\ ~Closed(w.status)
  BY <1>3, <1>4, VariablesKeep
<1>5. CASE Insertable(s, new) /\ \E v : ApplyStepDecision(c, [t EXCEPT !.variables = v], n, new)
  BY <1>2, <1>4, <1>5, DecisionKeeps
<1> QED BY <1>1, <1>2, <1>3, <1>5, ContinueKeeps, FailKeeps

LEMMA ReachEndKeeps ==
  ASSUME IInv, Transactional, NEW c \in Callers, ReachEnd(c)
  PROVE  IInv'
<1> DEFINE s == session[c]
           u == Done(s)
           status == IF Head(s.agenda).ends THEN "finished" ELSE u.status
           t == [u EXCEPT !.status = status]
<1>1. AtNode(c, "END")
  BY DEF ReachEnd
<1>2. /\ \A d \in Callers : session[d] # Idle => d = c
      /\ WellFormed(u) /\ InRound(u) /\ ~Closed(u.status) /\ u.do = "advance"
  BY <1>1, AtNodeKeeps
<1>3. Continue(c, t, {})
  <2>1. Continue(c, [u EXCEPT !.status = IF Head(s.agenda).ends THEN "finished" ELSE @], {})
    BY DEF ReachEnd
  <2> HIDE DEF u, s
  <2>2. [u EXCEPT !.status = IF Head(s.agenda).ends THEN "finished" ELSE @] = t
    BY <1>2 DEF WellFormed
  <2> QED BY <2>1, <2>2
<1>4. ~Closed(status)
  BY <1>2 DEF Closed
<1> HIDE DEF u, status
<1>5. WellFormed(t) /\ InRound(t) /\ t.status = status /\ t.do = "advance"
  <2>1. WellFormed(t) /\ (InRound(u) => InRound(t)) /\ t.status = status
    BY <1>2, StatusKeeps
  <2>2. t.do = u.do
    BY <1>2 DEF WellFormed
  <2> QED BY <1>2, <2>1, <2>2
<1> HIDE DEF t
<1>6. SessionInv(t)
  BY <1>4, <1>5 DEF SessionInv
<1> QED BY <1>2, <1>3, <1>6, ContinueKeeps

(* What SaveInstance does when it is the last one, the commit, and when it  *)
(* is not.                                                                  *)
LEMMA Saving ==
  ASSUME IInv, Transactional, NEW c \in Callers, SaveInstance(c)
  PROVE  LET s == session[c] IN
         /\ session[c] # Idle
         /\ SessionInv(s) /\ s.do = "advance"
         /\ \/ /\ session' = [session EXCEPT ![c] = Idle]
               /\ inst' = [inst EXCEPT ![s.inst] = [status |-> s.status, variables |-> s.variables]]
               /\ tasks' = Over(Rows(s, DOMAIN s.snap), tasks)
            \/ /\ session' = [session EXCEPT ![c] = Done(s)]
               /\ Len(s.agenda) # 1
               /\ UNCHANGED <<tasks, inst>>
<1>1. session[c] # Idle
  BY DEF SaveInstance, Idle
<1>2. SessionInv(session[c])
  BY <1>1 DEF IInv
<1> QED BY <1>1, <1>2 DEF SaveInstance

(* The rows after a commit: those of the snapshot, and those of the other   *)
(* instances.                                                               *)
LEMMA Committed ==
  ASSUME NEW s, WellFormed(s), tasks' = Over(Rows(s, DOMAIN s.snap), tasks)
  PROVE  /\ DOMAIN tasks' = DOMAIN s.snap \cup DOMAIN tasks
         /\ \A k \in DOMAIN s.snap : /\ tasks'[k] = [inst |-> s.inst, status |-> s.snap[k]]
                                     /\ tasks'[k].inst = s.inst
                                     /\ tasks'[k].status = s.snap[k]
         /\ \A k \in DOMAIN tasks \ DOMAIN s.snap : tasks'[k] = tasks[k] /\ tasks[k].inst # s.inst
         /\ tasks' = [k \in DOMAIN tasks' |-> tasks'[k]]
<1>1. /\ DOMAIN tasks' = DOMAIN s.snap \cup DOMAIN tasks
      /\ \A k \in DOMAIN s.snap : tasks'[k] = [inst |-> s.inst, status |-> s.snap[k]]
      /\ \A k \in DOMAIN tasks \ DOMAIN s.snap : tasks'[k] = tasks[k] /\ tasks[k].inst # s.inst
      /\ tasks' = [k \in DOMAIN tasks' |-> tasks'[k]]
  BY DEF Over, Rows, WellFormed, Extends
<1>2. ASSUME NEW k \in DOMAIN s.snap PROVE tasks'[k].inst = s.inst /\ tasks'[k].status = s.snap[k]
  <2>1. ASSUME NEW r, NEW i, NEW v, r = [inst |-> i, status |-> v] PROVE r.inst = i /\ r.status = v
    BY <2>1
  <2>2. tasks'[k] = [inst |-> s.inst, status |-> s.snap[k]]
    BY <1>1
  <2> QED BY <2>1, <2>2
<1> QED BY <1>1, <1>2

LEMMA SaveInstanceKeeps ==
  ASSUME IInv, Transactional, NEW c \in Callers, SaveInstance(c)
  PROVE  IInv'
<1> DEFINE s == session[c]
<1>1. /\ session[c] # Idle
      /\ SessionInv(s) /\ s.do = "advance"
      /\ \/ /\ session' = [session EXCEPT ![c] = Idle]
            /\ inst' = [inst EXCEPT ![s.inst] = [status |-> s.status, variables |-> s.variables]]
            /\ tasks' = Over(Rows(s, DOMAIN s.snap), tasks)
         \/ /\ session' = [session EXCEPT ![c] = Done(s)]
            /\ Len(s.agenda) # 1
            /\ UNCHANGED <<tasks, inst>>
  BY Saving
<1>2. \A d \in Callers : session[d] # Idle => d = c
  BY <1>1, Alone
<1>3. CASE Len(s.agenda) # 1 /\ session' = [session EXCEPT ![c] = Done(s)] /\ UNCHANGED <<tasks, inst>>
  <2> DEFINE t == Done(s)
  <2>1. WellFormed(s) /\ InRound(s) /\ ~Closed(s.status)
    <3>1. Len(<<Save>>) = 1
      OBVIOUS
    <3> QED BY <1>1, <1>3, <3>1 DEF SessionInv
  <2>2. t = [s EXCEPT !.agenda = Tail(s.agenda)]
    BY <2>1 DEF Done, WellFormed
  <2>3. Continue(c, t, {})
    BY <1>3 DEF Continue, WriteThrough
  <2> HIDE DEF t
  <2>4. WellFormed(t) /\ (InRound(s) => InRound(t)) /\ t.status = s.status /\ t.do = s.do
    <3> HIDE DEF s
    <3> QED BY <2>1, <2>2, AgendaKeeps
  <2>5. SessionInv(t)
    BY <1>1, <2>1, <2>4 DEF SessionInv
  <2> QED BY <1>2, <2>3, <2>5, ContinueKeeps
<1>4. CASE /\ session' = [session EXCEPT ![c] = Idle]
           /\ inst' = [inst EXCEPT ![s.inst] = [status |-> s.status, variables |-> s.variables]]
           /\ tasks' = Over(Rows(s, DOMAIN s.snap), tasks)
  <2>1. /\ WellFormed(s)
        /\ \/ InRound(s) /\ ~Closed(s.status)
           \/ PendingTasks(s.snap) = {}
    BY <1>1 DEF SessionInv
  <2>2. /\ DOMAIN tasks' = DOMAIN s.snap \cup DOMAIN tasks
        /\ \A k \in DOMAIN s.snap : /\ tasks'[k] = [inst |-> s.inst, status |-> s.snap[k]]
                                    /\ tasks'[k].inst = s.inst
                                    /\ tasks'[k].status = s.snap[k]
        /\ \A k \in DOMAIN tasks \ DOMAIN s.snap : tasks'[k] = tasks[k] /\ tasks[k].inst # s.inst
        /\ tasks' = [k \in DOMAIN tasks' |-> tasks'[k]]
    <3> HIDE DEF s
    <3> QED BY <1>4, <2>1, Committed
  <2>3. \A d \in Callers : session'[d] = Idle
    BY <1>2, <1>4 DEF IInv
  <2>4. session' = [d \in Callers |-> session'[d]]
    BY <1>4 DEF IInv
  <2>5. DOMAIN inst' = Instances /\ s.inst \in Instances
        /\ \A i \in Instances : inst'[i].status = IF i = s.inst THEN s.status ELSE inst[i].status
    BY <1>4, <2>1 DEF IInv, TablesInv, WellFormed
  <2>6. \A k \in DOMAIN s.snap : k.batch \in 1..MaxBatch
    BY <2>1 DEF WellFormed
  <2> HIDE DEF s
  <2>7. tasks' = [k \in DOMAIN tasks' |-> [inst |-> tasks'[k].inst, status |-> tasks'[k].status]]
    <3>1. ASSUME NEW k \in DOMAIN tasks \ DOMAIN s.snap
          PROVE  tasks'[k] = [inst |-> tasks'[k].inst, status |-> tasks'[k].status]
      <4>1. tasks[k] = [inst |-> tasks[k].inst, status |-> tasks[k].status]
        BY DEF IInv, TablesInv
      <4> QED BY <2>2, <4>1
    <3>2. ASSUME NEW k \in DOMAIN s.snap
          PROVE  tasks'[k] = [inst |-> tasks'[k].inst, status |-> tasks'[k].status]
      BY <2>2
    <3> QED BY <2>2, <3>1, <3>2
  <2>8. \A k \in DOMAIN tasks' : k.batch \in 1..MaxBatch /\ tasks'[k].inst \in Instances
    BY <2>2, <2>5, <2>6 DEF IInv, TablesInv
  <2>9. ASSUME NEW i \in Instances, NEW k \in Pending(i)', NEW j \in DOMAIN tasks', tasks'[j].inst = i
        PROVE  j.batch <= k.batch
    <3>1. CASE i = s.inst
      <4>1. j \in DOMAIN s.snap /\ k \in DOMAIN s.snap /\ s.snap[k] = "pending"
        BY <2>2, <2>9, <3>1 DEF Pending
      <4> QED BY <2>1, <4>1 DEF InRound, PendingTasks
    <3>2. CASE i # s.inst
      <4>1. j \in DOMAIN tasks /\ tasks[j].inst = i /\ k \in Pending(i)
        BY <2>2, <2>9, <3>2 DEF Pending
      <4> QED BY <4>1 DEF IInv, TablesInv, PendingAreLatest
    <3> QED BY <3>1, <3>2
  <2>10. ASSUME NEW i \in Instances, inst'[i].status \in {"rejected", "cancelled"}, NEW k \in Pending(i)'
         PROVE  FALSE
    <3>1. CASE i = s.inst
      <4>1. k \in DOMAIN s.snap /\ s.snap[k] = "pending"
        BY <2>2, <2>10, <3>1 DEF Pending
      <4> QED BY <2>1, <2>5, <2>10, <3>1, <4>1 DEF PendingTasks, Closed
    <3>2. CASE i # s.inst
      <4>1. k \in Pending(i) /\ inst[i].status \in {"rejected", "cancelled"}
        BY <2>2, <2>5, <2>10, <3>2 DEF Pending
      <4> QED BY <4>1 DEF IInv, TablesInv, ClosedHasNoWork
    <3> QED BY <3>1, <3>2
  <2>11. PendingAreLatest'
    BY <2>9 DEF PendingAreLatest
  <2>12. ClosedHasNoWork'
    BY <2>10 DEF ClosedHasNoWork
  <2>13. TablesInv'
    BY <2>5, <2>7, <2>8, <2>11, <2>12 DEF TablesInv
  <2> QED BY <2>3, <2>4, <2>13 DEF IInv
<1> QED BY <1>1, <1>3, <1>4

LEMMA CrashKeeps ==
  ASSUME IInv, Transactional, NEW c \in Callers, Crash(c)
  PROVE  IInv'
BY Alone, FailKeeps DEF Crash

(***************************************************************************)
(* The theorems.                                                            *)
(***************************************************************************)
LEMMA InitHolds == Init => IInv
<1> SUFFICES ASSUME Init PROVE IInv
  OBVIOUS
<1>1. DOMAIN tasks = {} /\ tasks = [k \in DOMAIN tasks |-> [inst |-> tasks[k].inst, status |-> tasks[k].status]]
  BY DEF Init
<1>2. DOMAIN inst = Instances /\ \A i \in Instances : inst[i].status = "none"
  BY DEF Init
<1>3. TablesInv
  BY <1>1, <1>2 DEF TablesInv, PendingAreLatest, ClosedHasNoWork, Pending
<1> QED BY <1>3 DEF Init, IInv

LEMMA NextKeeps == IInv /\ Transactional /\ ~StatementsFail /\ [Next]_vars => IInv'
<1> SUFFICES ASSUME IInv, Transactional, ~StatementsFail, [Next]_vars PROVE IInv'
  OBVIOUS
<1>1. CASE UNCHANGED vars
  <2>1. UNCHANGED <<tasks, inst, session>>
    BY <1>1 DEF vars
  <2>2. TablesInv'
    BY <2>1 DEF IInv, TablesInv, PendingAreLatest, ClosedHasNoWork, Pending
  <2>4. ASSUME NEW c \in Callers PROVE session'[c] = Idle \/ SessionInv(session[c])'
    BY <2>1 DEF IInv, SessionInv, WellFormed, Extends, InRound
  <2> QED BY <2>1, <2>2, <2>4 DEF IInv
<1>2. ASSUME NEW c \in Callers, NEW i \in Instances, NEW v \in Variables, Start(c, i, v) PROVE IInv'
  BY <1>2, StartKeeps
<1>3. ASSUME NEW c \in Callers, NEW k \in DOMAIN tasks, LoadTask(c, k) PROVE IInv'
  BY <1>3, LoadTaskKeeps
<1>4. ASSUME NEW c \in Callers, NEW i \in Instances, LoadInstance(c, i) PROVE IInv'
  BY <1>4, LoadInstanceKeeps
<1>5. ASSUME NEW c \in Callers, PassTask(c) PROVE IInv'
  BY <1>5, PassTaskKeeps
<1>6. ASSUME NEW c \in Callers,
             RejectAndTerminate(c) \/ (\E n \in RejectTargets : RejectToTarget(c, n)) \/ RejectUpstream(c)
      PROVE  IInv'
  BY <1>6, RejectKeeps
<1>7. ASSUME NEW c \in Callers, NEW back \in BOOLEAN, Revoke(c, back) PROVE IInv'
  BY <1>7, RevokeKeeps
<1>8. ASSUME NEW c \in Callers, ActivateApproval(c) PROVE IInv'
  BY <1>8, ActivateApprovalKeeps
<1>9. ASSUME NEW c \in Callers, ActivateCarbonCopy(c) PROVE IInv'
  BY <1>9, ActivateCarbonCopyKeeps
<1>10. ASSUME NEW c \in Callers, WorkerFails(c) \/ WorkerSuspends(c) \/ WorkerSucceeds(c) PROVE IInv'
  BY <1>10, WorkerKeeps
<1>11. ASSUME NEW c \in Callers, ReachEnd(c) PROVE IInv'
  BY <1>11, ReachEndKeeps
<1>12. ASSUME NEW c \in Callers, SaveInstance(c) PROVE IInv'
  BY <1>12, SaveInstanceKeeps
<1>13. ASSUME NEW c \in Callers, Crash(c) PROVE IInv'
  BY <1>13, CrashKeeps
<1> QED
  BY <1>1, <1>2, <1>3, <1>4, <1>5, <1>6, <1>7, <1>8, <1>9, <1>10, <1>11, <1>12, <1>13 DEF Next

(* With transactional calls, and if no statement whose error the engine     *)
(* ignores fails, IInv is an invariant: whatever call is under way works on *)
(* a snapshot that contains every row of its instance and no row decided    *)
(* differently (pkg/flowx/session.go, storage.go DoTx).                     *)
THEOREM InductiveInvariant == Transactional /\ ~StatementsFail => (Spec => []IInv)
<1> SUFFICES ASSUME Transactional, ~StatementsFail PROVE Spec => []IInv
  OBVIOUS
<1>1. Init => IInv
  BY InitHolds
<1>2. IInv /\ [Next]_vars => IInv'
  BY NextKeeps
<1> QED BY <1>1, <1>2, PTL DEF Spec

(* Under the same assumptions every pending task belongs to the newest      *)
(* round of its instance, for every definition and any rejections and       *)
(* revocations (engine.go cancelPendingSiblingTasks, doReject, doRevoke).   *)
THEOREM PendingInNewestRound == Transactional /\ ~StatementsFail => (Spec => []PendingAreLatest)
<1>1. IInv => PendingAreLatest
  BY DEF IInv, TablesInv
<1> QED BY <1>1, InductiveInvariant, PTL

(* Under the same assumptions a rejected or withdrawn process has no        *)
(* pending task (engine.go doReject, doRevoke).                             *)
THEOREM NoWorkAfterClosing == Transactional /\ ~StatementsFail => (Spec => []ClosedHasNoWork)
<1>1. IInv => ClosedHasNoWork
  BY DEF IInv, TablesInv
<1> QED BY <1>1, InductiveInvariant, PTL

(* Under the same assumptions no step rewrites a decided task or loses one  *)
(* (model/task.go:30; storage.go UpdateTask, UpdateTasksStatus).            *)
THEOREM HistoryNeverRewritten == Transactional /\ ~StatementsFail => (Spec => HistoryIsFinal)
<1> SUFFICES ASSUME Transactional, ~StatementsFail PROVE Spec => HistoryIsFinal
  OBVIOUS
<1> DEFINE Kept == \A k \in DOMAIN tasks : k \in DOMAIN tasks' /\
                     (tasks[k].status # "pending" => tasks'[k] = tasks[k])
<1>1. ASSUME IInv, [Next]_vars PROVE [Kept]_vars
  <2>1. CASE \E c \in Callers : SaveInstance(c)
    <3>1. PICK c \in Callers : SaveInstance(c)
      BY <2>1
    <3> DEFINE s == session[c]
    <3>2. CASE UNCHANGED tasks
      BY <3>2
    <3>3. CASE tasks' = Over(Rows(s, DOMAIN s.snap), tasks)
      <4>1. WellFormed(s)
        BY <1>1, <3>1, Saving DEF SessionInv
      <4>2. /\ DOMAIN tasks' = DOMAIN s.snap \cup DOMAIN tasks
            /\ \A k \in DOMAIN s.snap : tasks'[k] = [inst |-> s.inst, status |-> s.snap[k]]
            /\ \A k \in DOMAIN tasks \ DOMAIN s.snap : tasks'[k] = tasks[k]
        <5> HIDE DEF s
        <5> QED BY <3>3, <4>1, Committed
      <4>3. ASSUME NEW k \in DOMAIN tasks \cap DOMAIN s.snap, tasks[k].status # "pending"
            PROVE  tasks'[k] = tasks[k]
        <5>1. tasks[k] = [inst |-> tasks[k].inst, status |-> tasks[k].status]
          BY <1>1 DEF IInv, TablesInv
        <5>2. tasks[k].inst = s.inst /\ s.snap[k] = tasks[k].status
          BY <4>1, <4>3 DEF WellFormed, Extends
        <5> QED BY <4>2, <5>1, <5>2
      <4> QED BY <4>2, <4>3
    <3> QED BY <1>1, <3>1, <3>2, <3>3, Saving
  <2>2. CASE ~\E c \in Callers : SaveInstance(c)
    <3>1. ASSUME NEW c \in Callers, NEW s, NEW keys, Continue(c, s, keys) \/ Fail(c, s, keys)
          PROVE  UNCHANGED tasks
      BY <1>1, <3>1 DEF Continue, Fail, WriteThrough
    <3>2. ASSUME NEW c \in Callers, NEW s, NEW n, NEW keys, ApplyStepDecision(c, s, n, keys)
          PROVE  UNCHANGED tasks
      BY <3>1, <3>2 DEF ApplyStepDecision
    <3>3. ASSUME NEW c \in Callers, NEW s, NEW n, NEW keys, SendBack(c, s, n, keys) PROVE UNCHANGED tasks
      BY <3>1, <3>3 DEF SendBack, BackToStarter
    <3>4. ASSUME NEW c \in Callers, NEW i \in Instances, NEW v \in Variables, Start(c, i, v)
          PROVE  UNCHANGED tasks
      BY <3>2, <3>4 DEF Start
    <3>5. ASSUME NEW c \in Callers, NEW k \in DOMAIN tasks, LoadTask(c, k) PROVE UNCHANGED tasks
      BY <3>5 DEF LoadTask
    <3>6. ASSUME NEW c \in Callers, NEW i \in Instances, LoadInstance(c, i) PROVE UNCHANGED tasks
      BY <3>6 DEF LoadInstance
    <3>7. ASSUME NEW c \in Callers, PassTask(c) PROVE UNCHANGED tasks
      BY <3>1, <3>2, <3>7 DEF PassTask, Pass
    <3>8. ASSUME NEW c \in Callers,
                 RejectAndTerminate(c) \/ (\E n \in RejectTargets : RejectToTarget(c, n)) \/ RejectUpstream(c)
          PROVE  UNCHANGED tasks
      BY <3>1, <3>3, <3>8 DEF RejectAndTerminate, RejectToTarget, RejectUpstream, Close
    <3>9. ASSUME NEW c \in Callers, NEW back \in BOOLEAN, Revoke(c, back) PROVE UNCHANGED tasks
      BY <3>1, <3>9 DEF Revoke, BackToStarter, Close
    <3>10. ASSUME NEW c \in Callers, ActivateApproval(c) \/ ActivateCarbonCopy(c) \/ ReachEnd(c) \/ Crash(c)
           PROVE  UNCHANGED tasks
      BY <3>1, <3>2, <3>10 DEF ActivateApproval, ActivateCarbonCopy, ReachEnd, Crash
    <3>11. ASSUME NEW c \in Callers, WorkerFails(c) \/ WorkerSuspends(c) \/ WorkerSucceeds(c)
           PROVE  UNCHANGED tasks
      BY <3>1, <3>2, <3>11 DEF WorkerFails, WorkerSuspends, WorkerSucceeds
    <3>12. UNCHANGED tasks
      BY <1>1, <2>2, <3>4, <3>5, <3>6, <3>7, <3>8, <3>9, <3>10, <3>11 DEF Next, vars
    <3> QED BY <3>12
  <2> QED BY <2>1, <2>2
<1>2. IInv /\ [Next]_vars => [Kept]_vars
  BY <1>1
<1> QED BY <1>2, InductiveInvariant, PTL DEF HistoryIsFinal, Spec

(***************************************************************************)
(* One vote decides.  Beside IInv, every snapshot and the table have at     *)
(* most one vote in a round of a one-vote node (VoteInv).  A new task of    *)
(* such a round cannot join a vote: SaveTasks inserts the tasks of all      *)
(* assignees or none, and the key of the one who voted is taken.            *)
(***************************************************************************)
LEMMA VotesClosed ==
  ASSUME NEW snap, NEW new, NEW keys, NEW status,
         OneVote(snap), ~Live(status), DOMAIN new = DOMAIN snap,
         \A k \in DOMAIN snap : new[k] = IF k \in keys THEN status ELSE snap[k]
  PROVE  OneVote(new)
<1>1. \A k \in DOMAIN new : Live(new[k]) => Live(snap[k]) /\ new[k] = snap[k]
  OBVIOUS
<1> QED BY <1>1 DEF OneVote

(* A vote at a one-vote node skips whatever else is open in its round.      *)
LEMMA VotesPassed ==
  ASSUME NEW snap, NEW voted, NEW new, NEW k \in DOMAIN snap,
         OneVote(snap), snap[k] = "pending",
         DOMAIN voted = DOMAIN snap,
         \A j \in DOMAIN snap : voted[j] = IF j \in {k} THEN "passed" ELSE snap[j],
         DOMAIN new = DOMAIN snap,
         \A j \in DOMAIN snap : new[j] = IF j \in SkippedTasks(k, voted) THEN "skipped" ELSE voted[j]
  PROVE  OneVote(new)
<1>1. ASSUME NEW j \in DOMAIN new, Live(new[j])
      PROVE  Live(snap[j]) /\ j \notin SkippedTasks(k, voted) /\ new[j] = voted[j]
  BY <1>1 DEF Live
<1>2. ASSUME NEW j \in DOMAIN new, Type[j.node] = "APPROVAL", Live(new[j])
      PROVE  j \in KeysFor(j.node, Assignees[j.node], j.batch)
  BY <1>1, <1>2 DEF OneVote
<1>3. ASSUME NEW j \in DOMAIN new, Type[j.node] = "APPROVAL", Sign[j.node] = "ONE_VOTE", new[j] = "passed",
             NEW l \in DOMAIN new, l # j, l.node = j.node, l.batch = j.batch, Live(new[l])
      PROVE  FALSE
  <2>1. Live(new[j])
    BY <1>3 DEF Live
  <2>2. Live(snap[l]) /\ l \notin SkippedTasks(k, voted)
    BY <1>1, <1>3
  <2>3. CASE j = k
    <3>1. voted[l] = snap[l] /\ snap[l] # "pending"
      BY <1>3, <2>2, <2>3 DEF SkippedTasks, BatchTasks, TasksOf
    <3>2. snap[l] = "passed"
      BY <2>2, <3>1 DEF Live
    <3>3. ~Live(snap[k])
      BY <1>3, <2>2, <2>3, <3>2 DEF OneVote
    <3> QED BY <3>3 DEF Live
  <2>4. CASE j # k
    <3>1. snap[j] = "passed"
      BY <1>1, <1>3, <2>1, <2>4
    <3>2. Live(snap[j])
      BY <3>1 DEF Live
    <3> QED BY <1>3, <2>2, <3>1, <3>2 DEF OneVote
  <2> QED BY <2>3, <2>4
<1> QED BY <1>2, <1>3 DEF OneVote

(* New tasks that are skipped, or not of an approval node, or the tasks of  *)
(* all assignees of one.                                                    *)
LEMMA VotesAdded ==
  ASSUME NEW snap, NEW new, NEW keys, NEW status, OneVote(snap),
         DOMAIN new = DOMAIN snap \cup keys, keys \cap DOMAIN snap = {},
         \A k \in DOMAIN new : new[k] = IF k \in DOMAIN snap THEN snap[k] ELSE status,
         \/ ~Live(status)
         \/ \A k \in keys : Type[k.node] # "APPROVAL"
         \/ status = "pending" /\ \E n, b : keys = KeysFor(n, Assignees[n], b)
  PROVE  OneVote(new)
<1>1. CASE ~Live(status) \/ \A k \in keys : Type[k.node] # "APPROVAL"
  <2>1. ASSUME NEW k \in DOMAIN new, Type[k.node] = "APPROVAL", Live(new[k])
        PROVE  k \in DOMAIN snap /\ Live(snap[k]) /\ new[k] = snap[k]
    BY <1>1, <2>1
  <2> QED BY <2>1 DEF OneVote
<1>2. ASSUME status = "pending", NEW n, NEW b, keys = KeysFor(n, Assignees[n], b)
      PROVE  OneVote(new)
  <2>1. \A k \in keys : k.node = n /\ k.batch = b
    BY <1>2 DEF KeysFor
  <2>2. ASSUME NEW k \in DOMAIN new, Type[k.node] = "APPROVAL", Live(new[k])
        PROVE  k \in KeysFor(k.node, Assignees[k.node], k.batch)
    BY <1>2, <2>1, <2>2 DEF OneVote
  <2>3. ASSUME NEW k \in DOMAIN new, Type[k.node] = "APPROVAL", Sign[k.node] = "ONE_VOTE", new[k] = "passed",
               NEW j \in DOMAIN new, j # k, j.node = k.node, j.batch = k.batch, Live(new[j])
        PROVE  FALSE
    <3>1. k \in DOMAIN snap /\ snap[k] = "passed" /\ Live(snap[k])
      BY <1>2, <2>3 DEF Live
    <3>2. k \in KeysFor(k.node, Assignees[k.node], k.batch)
      BY <2>3, <3>1 DEF OneVote
    <3>3. j \notin keys
      <4>1. SUFFICES ASSUME j \in keys PROVE FALSE
        OBVIOUS
      <4>2. k.node = n /\ k.batch = b
        BY <2>1, <2>3, <4>1
      <4> QED BY <1>2, <3>1, <3>2, <4>2
    <3>4. j \in DOMAIN snap /\ Live(snap[j])
      BY <2>3, <3>3
    <3> QED BY <2>3, <3>1, <3>4 DEF OneVote
  <2> QED BY <2>2, <2>3 DEF OneVote
<1> QED BY <1>1, <1>2

LEMMA VoteTables ==
  ASSUME VoteInv, tasks' = tasks
  PROVE  \A i \in Instances : OneVote(Snapshot(i))'
<1> SUFFICES ASSUME NEW i \in Instances PROVE OneVote(Snapshot(i))'
  OBVIOUS
<1>1. Snapshot(i)' = Snapshot(i)
  BY DEF Snapshot
<1>2. OneVote(Snapshot(i))
  BY DEF VoteInv
<1> QED BY <1>1, <1>2 DEF OneVote, Live

(* A call that goes on with such a snapshot, or fails.                      *)
LEMMA VoteContinue ==
  ASSUME IInv, VoteInv, Transactional, NEW c \in Callers, NEW s, NEW keys, OneVote(s.snap),
         Continue(c, s, keys)
  PROVE  VoteInv'
<1>1. tasks' = tasks /\ session' = [session EXCEPT ![c] = s]
  BY DEF Continue, WriteThrough
<1>2. \A i \in Instances : OneVote(Snapshot(i))'
  BY <1>1, VoteTables
<1>3. \A d \in Callers : session'[d] = IF d = c THEN s ELSE session[d]
  BY <1>1 DEF IInv
<1>4. ASSUME NEW d \in Callers, session'[d] # Idle PROVE OneVote(session'[d].snap)
  BY <1>3, <1>4 DEF VoteInv
<1> QED BY <1>2, <1>4 DEF VoteInv, OneVote

LEMMA VoteFail ==
  ASSUME IInv, VoteInv, Transactional, NEW c \in Callers, NEW s, NEW keys, Fail(c, s, keys)
  PROVE  VoteInv'
<1>1. tasks' = tasks /\ session' = [session EXCEPT ![c] = Idle]
  BY DEF Fail, WriteThrough
<1>2. \A i \in Instances : OneVote(Snapshot(i))'
  BY <1>1, VoteTables
<1>3. \A d \in Callers : session'[d] = IF d = c THEN Idle ELSE session[d]
  BY <1>1 DEF IInv
<1>4. ASSUME NEW d \in Callers, session'[d] # Idle PROVE OneVote(session'[d].snap)
  BY <1>3, <1>4 DEF VoteInv
<1> QED BY <1>2, <1>4 DEF VoteInv, OneVote

(* A decision adds skipped tasks only.                                      *)
LEMMA VoteDecision ==
  ASSUME IInv, VoteInv, Transactional, NEW c \in Callers, NEW s, NEW n, NEW keys,
         WellFormed(s), OneVote(s.snap), ApplyStepDecision(c, s, n, keys)
  PROVE  VoteInv'
<1> DEFINE dec == ResolveNextStep(n, s.variables, s.snap)
           skips == {[node |-> dec.skipped[i], batch |-> s.batch, user |-> "system_skip", seq |-> i] :
                     i \in DOMAIN dec.skipped}
           T(saved) == AddTasks(s, saved, "skipped")
<1>1. PICK saved \in Attempted(IF Insertable(s, skips) THEN skips ELSE {}) :
        \/ Continue(c, Advance(T(saved), <<Save>> \o T(saved).agenda), keys \cup saved)
        \/ Fail(c, T(saved), keys \cup saved)
        \/ Continue(c, Advance(T(saved), ActivateNodes(dec.ready) \o <<Save>> \o T(saved).agenda), keys \cup saved)
  BY DEF ApplyStepDecision
<1> DEFINE t == T(saved)
<1>2. Insertable(s, saved) /\ \A k \in saved : k.batch = s.batch
  BY DEF Insertable, Attempted
<1>3. /\ WellFormed(t)
      /\ DOMAIN t.snap = DOMAIN s.snap \cup saved
      /\ \A k \in DOMAIN t.snap : t.snap[k] = IF k \in DOMAIN s.snap THEN s.snap[k] ELSE "skipped"
  <2>1. s.batch \in 1..MaxBatch
    BY DEF WellFormed
  <2> QED BY <1>2, <2>1, AddTasksKeeps
<1>4. \/ \E agenda : Continue(c, Advance(t, agenda), keys \cup saved)
      \/ Fail(c, t, keys \cup saved)
  BY <1>1
<1> HIDE DEF t
<1>5. OneVote(t.snap)
  <2>1. ~Live("skipped") /\ saved \cap DOMAIN s.snap = {}
    BY <1>2 DEF Insertable, Live
  <2> QED BY <1>3, <2>1, VotesAdded
<1>6. \A agenda : Advance(t, agenda).snap = t.snap
  BY <1>3, AdvanceKeeps
<1>7. \A agenda : OneVote(Advance(t, agenda).snap)
  BY <1>5, <1>6
<1> QED BY <1>4, <1>7, VoteContinue, VoteFail

LEMMA VoteStart ==
  ASSUME IInv, VoteInv, Transactional, NEW c \in Callers, NEW i \in Instances, NEW v, Start(c, i, v)
  PROVE  VoteInv'
<1> DEFINE s == [do |-> "advance", inst |-> i, key |-> Nowhere, batch |-> 1, snap |-> << >>,
                 status |-> "running", variables |-> v, agenda |-> <<>>]
<1>1. ApplyStepDecision(c, s, StartNode, {})
  BY DEF Start
<1>2. WellFormed(s)
  BY StartSession
<1>3. OneVote(s.snap)
  BY DEF OneVote
<1> HIDE DEF s
<1> QED BY <1>1, <1>2, <1>3, VoteDecision

LEMMA VoteLoad ==
  ASSUME IInv, VoteInv, Transactional, NEW c \in Callers,
         (\E k \in DOMAIN tasks : LoadTask(c, k)) \/ (\E i \in Instances : LoadInstance(c, i))
  PROVE  VoteInv'
<1>1. PICK i, do, k, b : i \in Instances /\ Load(c, i, do, k, b) /\ UNCHANGED <<tasks, inst>>
  BY DEF LoadTask, LoadInstance, IInv, TablesInv
<1> DEFINE s == [do |-> do, inst |-> i, key |-> k, batch |-> b, snap |-> Snapshot(i),
                 status |-> inst[i].status, variables |-> inst[i].variables, agenda |-> <<>>]
<1>2. Continue(c, s, {})
  BY <1>1 DEF Load, Continue, WriteThrough
<1>3. s.snap = Snapshot(i)
  OBVIOUS
<1> HIDE DEF s
<1>4. OneVote(s.snap)
  BY <1>1, <1>3 DEF VoteInv
<1> QED BY <1>2, <1>4, VoteContinue

LEMMA VotePass ==
  ASSUME IInv, VoteInv, Transactional, NEW c \in Callers, PassTask(c)
  PROVE  VoteInv'
<1> DEFINE s == session[c]
           k == s.key
           p == SetStatus(s, {k}, "passed")
<1>1. /\ session[c] # Idle
      /\ WellFormed(s)
      /\ k \in DOMAIN s.snap /\ s.snap[k] = "pending"
  BY Deciding DEF PassTask
<1>2. PICK v : Pass(c, [p EXCEPT !.variables = v], k)
  BY DEF PassTask
<1>3. /\ WellFormed(p)
      /\ DOMAIN p.snap = DOMAIN s.snap
      /\ \A j \in DOMAIN s.snap : p.snap[j] = IF j \in {k} THEN "passed" ELSE s.snap[j]
  BY <1>1, SetStatusKeeps
<1> HIDE DEF p
<1> DEFINE q == [p EXCEPT !.variables = v]
           skips == SkippedTasks(k, q.snap)
           t == SetStatus(q, skips, "skipped")
<1>4. WellFormed(q) /\ q.snap = p.snap
  BY <1>3, VariablesKeep
<1>5. \/ ApplyStepDecision(c, t, k.node, {k} \cup skips)
      \/ Continue(c, Advance(t, <<Save>>), {k} \cup skips)
  BY <1>2 DEF Pass
<1> HIDE DEF q
<1>6. \A j \in skips \cap DOMAIN q.snap : q.snap[j] = "pending"
  BY DEF SkippedTasks
<1>7. /\ WellFormed(t)
      /\ DOMAIN t.snap = DOMAIN q.snap
      /\ \A j \in DOMAIN q.snap : t.snap[j] = IF j \in skips THEN "skipped" ELSE q.snap[j]
  BY <1>4, <1>6, SetStatusKeeps
<1> HIDE DEF t
<1>8. OneVote(s.snap)
  BY <1>1 DEF VoteInv
<1>9. OneVote(t.snap)
  BY <1>1, <1>3, <1>4, <1>7, <1>8, VotesPassed
<1>10. OneVote(Advance(t, <<Save>>).snap)
  BY <1>7, <1>9, AdvanceKeeps
<1> QED BY <1>5, <1>7, <1>9, <1>10, VoteContinue, VoteDecision

(* Going back to the starter: the start node is no approval node.           *)
LEMMA VoteBackToStarter ==
  ASSUME IInv, VoteInv, Transactional, NEW c \in Callers, NEW s, NEW b \in Nat \ {0}, NEW keys,
         WellFormed(s), OneVote(s.snap), BackToStarter(c, s, b, keys)
  PROVE  VoteInv'
<1> DEFINE new == KeysFor(StartNode, <<Starter>>, b)
           u == [s EXCEPT !.batch = b]
           t == AddTasks(u, new, "pending")
<1>1. b \in 1..MaxBatch
  BY EngineAssumption DEF BackToStarter, EngineAssumption
<1>2. \/ Insertable(s, new) /\ Continue(c, Advance(t, <<Save>>), keys \cup new)
      \/ Fail(c, s, keys)
  BY DEF BackToStarter
<1>3. WellFormed(u) /\ u.snap = s.snap
  BY <1>1, BatchKeeps
<1>4. \A k \in new : k.batch = b /\ k.node = StartNode
  BY DEF KeysFor
<1>5. Type[StartNode] = "START"
  BY DefinitionAssumption DEF DefinitionAssumption, Validate, StartNode
<1> HIDE DEF u, new
<1>6. ASSUME Insertable(s, new) PROVE WellFormed(t) /\ OneVote(t.snap)
  <2>1. Insertable(u, new) /\ new \cap DOMAIN u.snap = {}
    BY <1>3, <1>6 DEF Insertable
  <2>2. /\ WellFormed(t)
        /\ DOMAIN t.snap = DOMAIN u.snap \cup new
        /\ \A k \in DOMAIN t.snap : t.snap[k] = IF k \in DOMAIN u.snap THEN u.snap[k] ELSE "pending"
    BY <1>1, <1>3, <1>4, <2>1, AddTasksKeeps
  <2>3. \A k \in new : Type[k.node] # "APPROVAL"
    BY <1>4, <1>5
  <2> HIDE DEF t
  <2>4. OneVote(t.snap)
    BY <1>3, <2>1, <2>2, <2>3, VotesAdded
  <2> QED BY <2>2, <2>4
<1> HIDE DEF t
<1>7. Insertable(s, new) => OneVote(Advance(t, <<Save>>).snap)
  BY <1>6, AdvanceKeeps
<1> QED BY <1>2, <1>7, VoteContinue, VoteFail

LEMMA VoteReject ==
  ASSUME IInv, VoteInv, Transactional, ~StatementsFail, NEW c \in Callers,
         \/ RejectAndTerminate(c)
         \/ \E n \in RejectTargets : RejectToTarget(c, n)
         \/ RejectUpstream(c)
  PROVE  VoteInv'
<1> DEFINE s == session[c]
           siblings == Siblings(s.key, s.snap)
           u == SetStatus(s, siblings, "cancelled")
           t == Rejected(s, siblings)
           keys == {s.key} \cup siblings
           b == t.batch + 1
<1>1. s.do = "decide"
  BY DEF RejectAndTerminate, RejectToTarget, RejectUpstream
<1>2. \/ Close(c, t, "rejected", keys)
      \/ \E n : SendBack(c, t, n, keys)
      \/ Fail(c, t, keys)
  BY DEF RejectAndTerminate, RejectToTarget, RejectUpstream, Attempted
<1>3. /\ session[c] # Idle
      /\ WellFormed(s)
      /\ s.key \in DOMAIN s.snap /\ s.snap[s.key] = "pending"
  BY <1>1, Deciding
<1>4. OneVote(s.snap)
  BY <1>3 DEF VoteInv
<1>5. /\ WellFormed(u) /\ u.key = s.key
      /\ DOMAIN u.snap = DOMAIN s.snap
      /\ \A k \in DOMAIN s.snap : u.snap[k] = IF k \in siblings THEN "cancelled" ELSE s.snap[k]
  <2>1. \A k \in siblings \cap DOMAIN s.snap : s.snap[k] = "pending"
    BY DEF Siblings
  <2> HIDE DEF s
  <2> QED BY <1>3, <2>1, SetStatusKeeps
<1>6. t = SetStatus(u, {s.key}, "rejected")
  BY DEF Rejected
<1>7. s.key \notin siblings
  BY DEF Siblings
<1> HIDE DEF s, siblings, u, t
<1>8. /\ WellFormed(t)
      /\ DOMAIN t.snap = DOMAIN u.snap
      /\ \A k \in DOMAIN u.snap : t.snap[k] = IF k \in {s.key} THEN "rejected" ELSE u.snap[k]
  <2>1. \A k \in {s.key} \cap DOMAIN u.snap : u.snap[k] = "pending"
    BY <1>3, <1>5, <1>7
  <2> QED BY <1>5, <1>6, <2>1, SetStatusKeeps
<1>9. OneVote(t.snap)
  <2>1. ~Live("cancelled") /\ ~Live("rejected")
    BY DEF Live
  <2>2. OneVote(u.snap)
    BY <1>4, <1>5, <2>1, VotesClosed
  <2> QED BY <1>8, <2>1, <2>2, VotesClosed
<1>10. CASE Close(c, t, "rejected", keys)
  <2> DEFINE w == [t EXCEPT !.status = "rejected"]
  <2>1. Continue(c, Advance(w, <<Save>>), keys)
    BY <1>10 DEF Close
  <2>2. WellFormed(w) /\ w.snap = t.snap
    BY <1>8, StatusKeeps
  <2> HIDE DEF w
  <2>3. OneVote(Advance(w, <<Save>>).snap)
    BY <1>9, <2>2, AdvanceKeeps
  <2> QED BY <2>1, <2>3, VoteContinue
<1>11. ASSUME NEW n, SendBack(c, t, n, keys) PROVE VoteInv'
  <2> DEFINE w == [t EXCEPT !.batch = b]
  <2>1. b \in Nat \ {0}
    BY <1>8, EngineAssumption DEF WellFormed, EngineAssumption
  <2>2. CASE BackToStarter(c, t, b, keys)
    <3> HIDE DEF b
    <3> QED BY <1>8, <1>9, <2>1, <2>2, VoteBackToStarter
  <2>3. CASE b <= MaxBatch /\ Continue(c, Advance(w, ActivateNodes(<<n>>) \o <<Save>>), keys)
    <3>1. b \in 1..MaxBatch
      BY <2>1, <2>3, EngineAssumption DEF EngineAssumption
    <3> HIDE DEF b
    <3>2. WellFormed(w) /\ w.snap = t.snap
      BY <1>8, <3>1, BatchKeeps
    <3> HIDE DEF w
    <3>3. OneVote(Advance(w, ActivateNodes(<<n>>) \o <<Save>>).snap)
      BY <1>9, <3>2, AdvanceKeeps
    <3> QED BY <2>3, <3>3, VoteContinue
  <2> QED BY <1>11, <2>2, <2>3 DEF SendBack
<1> QED BY <1>2, <1>10, <1>11, VoteFail

LEMMA VoteRevoke ==
  ASSUME IInv, VoteInv, Transactional, NEW c \in Callers, NEW back \in BOOLEAN, Revoke(c, back)
  PROVE  VoteInv'
<1> DEFINE s == session[c]
           keys == PendingTasks(s.snap)
           t == SetStatus(s, keys, "cancelled")
           w == [t EXCEPT !.status = "cancelled"]
           b == MaxBatchCode(s.snap) + 1
<1>1. s.do = "revoke" /\ (BackToStarter(c, t, b, keys) \/ Close(c, t, "cancelled", keys))
  BY DEF Revoke
<1>2. session[c] # Idle /\ WellFormed(s) /\ OneVote(s.snap)
  BY <1>1 DEF Idle, IInv, SessionInv, VoteInv
<1>3. b \in Nat \ {0}
  BY <1>2, RoundsOfSnapshot
<1>4. /\ WellFormed(t)
      /\ DOMAIN t.snap = DOMAIN s.snap
      /\ \A k \in DOMAIN s.snap : t.snap[k] = IF k \in keys THEN "cancelled" ELSE s.snap[k]
  <2>1. \A k \in keys \cap DOMAIN s.snap : s.snap[k] = "pending"
    BY DEF PendingTasks
  <2> HIDE DEF s
  <2> QED BY <1>2, <2>1, SetStatusKeeps
<1> HIDE DEF s, keys, t, b
<1>5. OneVote(t.snap)
  <2>1. ~Live("cancelled")
    BY DEF Live
  <2> QED BY <1>2, <1>4, <2>1, VotesClosed
<1>6. CASE Close(c, t, "cancelled", keys)
  <2>1. Continue(c, Advance(w, <<Save>>), keys)
    BY <1>6 DEF Close
  <2>2. WellFormed(w) /\ w.snap = t.snap
    BY <1>4, StatusKeeps
  <2> HIDE DEF w
  <2>3. OneVote(Advance(w, <<Save>>).snap)
    BY <1>5, <2>2, AdvanceKeeps
  <2> QED BY <2>1, <2>3, VoteContinue
<1> QED BY <1>1, <1>3, <1>4, <1>5, <1>6, VoteBackToStarter

(* A session without the node it has dealt with, and its snapshot.          *)
LEMMA VoteAtNode ==
  ASSUME IInv, VoteInv, Transactional, NEW c \in Callers, NEW type, AtNode(c, type)
  PROVE  LET u == Done(session[c]) IN
         WellFormed(u) /\ OneVote(u.snap) /\ u.batch = session[c].batch /\ u.snap = session[c].snap
<1> DEFINE s == session[c]
           u == Done(s)
<1>1. s # Idle /\ WellFormed(u) /\ u.batch = s.batch /\ u.snap = s.snap
  BY AtNodeKeeps
<1> HIDE DEF u
<1>2. OneVote(u.snap)
  BY <1>1 DEF VoteInv
<1> QED BY <1>1, <1>2 DEF u

(* The new tasks of a node.                                                 *)
LEMMA VoteActivated ==
  ASSUME NEW s, WellFormed(s), OneVote(s.snap), NEW n, NEW users, NEW status,
         Insertable(s, KeysFor(n, users, s.batch)),
         Type[n] # "APPROVAL" \/ (status = "pending" /\ users = Assignees[n])
  PROVE  LET t == AddTasks(s, KeysFor(n, users, s.batch), status) IN WellFormed(t) /\ OneVote(t.snap)
<1> DEFINE new == KeysFor(n, users, s.batch)
           t == AddTasks(s, new, status)
<1>1. \A k \in new : k.batch = s.batch /\ k.node = n
  BY DEF KeysFor
<1>2. s.batch \in 1..MaxBatch
  BY DEF WellFormed
<1>3. \/ \A k \in new : Type[k.node] # "APPROVAL"
      \/ status = "pending" /\ \E m, b : new = KeysFor(m, Assignees[m], b)
  BY <1>1
<1>4. Insertable(s, new) /\ new \cap DOMAIN s.snap = {}
  BY DEF Insertable
<1> HIDE DEF new
<1>5. /\ WellFormed(t)
      /\ DOMAIN t.snap = DOMAIN s.snap \cup new
      /\ \A k \in DOMAIN t.snap : t.snap[k] = IF k \in DOMAIN s.snap THEN s.snap[k] ELSE status
  BY <1>1, <1>2, <1>4, AddTasksKeeps
<1> HIDE DEF t
<1>6. OneVote(t.snap)
  BY <1>3, <1>4, <1>5, VotesAdded
<1> QED BY <1>5, <1>6 DEF t, new

LEMMA VoteActivateApproval ==
  ASSUME IInv, VoteInv, Transactional, NEW c \in Callers, ActivateApproval(c)
  PROVE  VoteInv'
<1> DEFINE s == session[c]
           u == Done(s)
           n == Head(s.agenda).node
           new == KeysFor(n, Assignees[n], s.batch)
           t == AddTasks(u, new, "pending")
<1>1. /\ AtNode(c, "APPROVAL")
      /\ \/ Insertable(s, new) /\ Continue(c, t, new)
         \/ Fail(c, s, {})
  BY DEF ActivateApproval
<1>2. WellFormed(u) /\ OneVote(u.snap) /\ u.batch = s.batch /\ u.snap = s.snap
  BY <1>1, VoteAtNode
<1> HIDE DEF u, n
<1>3. Insertable(s, new) => OneVote(t.snap)
  BY <1>2, VoteActivated DEF Insertable
<1> HIDE DEF s, t, new
<1> QED BY <1>1, <1>3, VoteContinue, VoteFail

LEMMA VoteActivateCarbonCopy ==
  ASSUME IInv, VoteInv, Transactional, NEW c \in Callers, ActivateCarbonCopy(c)
  PROVE  VoteInv'
<1> DEFINE s == session[c]
           u == Done(s)
           n == Head(s.agenda).node
           new == KeysFor(n, Assignees[n], s.batch)
           t == AddTasks(u, new, "passed")
<1>1. /\ AtNode(c, "CC")
      /\ \/ Insertable(s, new) /\ ApplyStepDecision(c, t, n, new)
         \/ Fail(c, s, {})
  BY DEF ActivateCarbonCopy
<1>2. Type[n] # "APPROVAL"
  BY <1>1 DEF AtNode
<1>3. WellFormed(u) /\ OneVote(u.snap) /\ u.batch = s.batch /\ u.snap = s.snap
  BY <1>1, VoteAtNode
<1> HIDE DEF u, n
<1>4. Insertable(s, new) => WellFormed(t) /\ OneVote(t.snap)
  BY <1>2, <1>3, VoteActivated DEF Insertable
<1> HIDE DEF s, t, new
<1> QED BY <1>1, <1>4, VoteDecision, VoteFail

LEMMA VoteWorker ==
  ASSUME IInv, VoteInv, Transactional, NEW c \in Callers,
         WorkerFails(c) \/ WorkerSuspends(c) \/ WorkerSucceeds(c)
  PROVE  VoteInv'
<1> DEFINE s == session[c]
           u == Done(s)
           n == Head(s.agenda).node
           new == KeysFor(n, <<"system">>, s.batch)
           open == AddTasks(u, new, "pending")
           t == AddTasks(u, new, "passed")
<1>1. /\ AtNode(c, "TASK")
      /\ \/ Insertable(s, new) /\ Continue(c, open, new)
         \/ Insertable(s, new) /\ \E v : ApplyStepDecision(c, [t EXCEPT !.variables = v], n, new)
         \/ Fail(c, s, {})
  BY DEF WorkerFails, WorkerSuspends, WorkerSucceeds
<1>2. Type[n] # "APPROVAL"
  BY <1>1 DEF AtNode
<1>3. WellFormed(u) /\ OneVote(u.snap) /\ u.batch = s.batch /\ u.snap = s.snap
  BY <1>1, VoteAtNode
<1> HIDE DEF u, n
<1>4. Insertable(s, new) => WellFormed(t) /\ OneVote(t.snap) /\ OneVote(open.snap)
  BY <1>2, <1>3, VoteActivated DEF Insertable
<1> HIDE DEF s, open, t, new
<1>5. ASSUME Insertable(s, new), NEW v
      PROVE  WellFormed([t EXCEPT !.variables = v]) /\ OneVote([t EXCEPT !.variables = v].snap)
  BY <1>4, <1>5, VariablesKeep
<1>6. CASE Insertable(s, new) /\ \E v : ApplyStepDecision(c, [t EXCEPT !.variables = v], n, new)
  BY <1>5, <1>6, VoteDecision
<1> QED BY <1>1, <1>4, <1>6, VoteContinue, VoteFail

LEMMA VoteReachEnd ==
  ASSUME IInv, VoteInv, Transactional, NEW c \in Callers, ReachEnd(c)
  PROVE  VoteInv'
<1> DEFINE s == session[c]
           u == Done(s)
           status == IF Head(s.agenda).ends THEN "finished" ELSE u.status
           t == [u EXCEPT !.status = status]
<1>1. AtNode(c, "END")
  BY DEF ReachEnd
<1>2. WellFormed(u) /\ OneVote(u.snap)
  BY <1>1, VoteAtNode
<1>3. Continue(c, t, {})
  <2>1. Continue(c, [u EXCEPT !.status = IF Head(s.agenda).ends THEN "finished" ELSE @], {})
    BY DEF ReachEnd
  <2> HIDE DEF u, s
  <2>2. [u EXCEPT !.status = IF Head(s.agenda).ends THEN "finished" ELSE @] = t
    BY <1>2 DEF WellFormed
  <2> QED BY <2>1, <2>2
<1> HIDE DEF u, status
<1>4. t.snap = u.snap
  BY <1>2, StatusKeeps
<1> HIDE DEF t
<1>5. OneVote(t.snap)
  BY <1>2, <1>4
<1> QED BY <1>3, <1>5, VoteContinue

(* A commit makes the table of its instance what the snapshot was, and      *)
(* leaves that of the others alone.                                         *)
LEMMA VoteSave ==
  ASSUME IInv, VoteInv, Transactional, NEW c \in Callers, SaveInstance(c)
  PROVE  VoteInv'
<1> DEFINE s == session[c]
<1>1. /\ s # Idle
      /\ SessionInv(s)
      /\ \/ /\ session' = [session EXCEPT ![c] = Idle]
            /\ tasks' = Over(Rows(s, DOMAIN s.snap), tasks)
         \/ /\ session' = [session EXCEPT ![c] = Done(s)]
            /\ UNCHANGED <<tasks, inst>>
  BY Saving
<1>2. WellFormed(s) /\ OneVote(s.snap)
  BY <1>1 DEF SessionInv, VoteInv
<1>3. CASE session' = [session EXCEPT ![c] = Done(s)] /\ UNCHANGED <<tasks, inst>>
  <2> DEFINE t == Done(s)
  <2>1. Continue(c, t, {})
    BY <1>3 DEF Continue, WriteThrough
  <2>2. t = [s EXCEPT !.agenda = Tail(s.agenda)]
    BY <1>2 DEF Done, WellFormed
  <2> HIDE DEF s, t
  <2>3. OneVote(t.snap)
    BY <1>2, <2>2, AgendaKeeps
  <2> QED BY <2>1, <2>3, VoteContinue
<1>4. CASE session' = [session EXCEPT ![c] = Idle] /\ tasks' = Over(Rows(s, DOMAIN s.snap), tasks)
  <2>1. \A d \in Callers : session'[d] = Idle
    BY <1>1, <1>4, Alone DEF IInv
  <2>2. /\ DOMAIN tasks' = DOMAIN s.snap \cup DOMAIN tasks
        /\ \A k \in DOMAIN s.snap : tasks'[k].inst = s.inst /\ tasks'[k].status = s.snap[k]
        /\ \A k \in DOMAIN tasks \ DOMAIN s.snap : tasks'[k] = tasks[k] /\ tasks[k].inst # s.inst
    <3> HIDE DEF s
    <3> QED BY <1>2, <1>4, Committed
  <2>3. \A k \in DOMAIN tasks \cap DOMAIN s.snap : tasks[k].inst = s.inst
    BY <1>2 DEF WellFormed, Extends
  <2>4. s.snap = [k \in DOMAIN s.snap |-> s.snap[k]]
    BY <1>2 DEF WellFormed
  <2> HIDE DEF s
  <2>5. ASSUME NEW i \in Instances PROVE OneVote(Snapshot(i))'
    <3>1. CASE i = s.inst
      <4>1. Snapshot(i)' = s.snap
        BY <2>2, <2>4, <3>1 DEF Snapshot
      <4> QED BY <1>2, <4>1 DEF OneVote, Live
    <3>2. CASE i # s.inst
      <4>1. {k \in DOMAIN tasks' : tasks'[k].inst = i} = {k \in DOMAIN tasks : tasks[k].inst = i}
        BY <2>2, <2>3, <3>2
      <4>2. \A k \in DOMAIN tasks : tasks[k].inst = i => tasks'[k] = tasks[k]
        BY <2>2, <2>3, <3>2
      <4>3. Snapshot(i)' = Snapshot(i)
        BY <4>1, <4>2 DEF Snapshot
      <4>4. OneVote(Snapshot(i))
        BY DEF VoteInv
      <4> QED BY <4>3, <4>4 DEF OneVote, Live
    <3> QED BY <3>1, <3>2
  <2> QED BY <2>1, <2>5 DEF VoteInv
<1> QED BY <1>1, <1>3, <1>4

LEMMA VoteNext == IInv /\ VoteInv /\ Transactional /\ ~StatementsFail /\ [Next]_vars => VoteInv'
<1> SUFFICES ASSUME IInv, VoteInv, Transactional, ~StatementsFail, [Next]_vars PROVE VoteInv'
  OBVIOUS
<1>1. CASE UNCHANGED vars
  <2>1. UNCHANGED <<tasks, inst, session>>
    BY <1>1 DEF vars
  <2>2. \A i \in Instances : OneVote(Snapshot(i))'
    BY <2>1, VoteTables
  <2>3. ASSUME NEW c \in Callers, session'[c] # Idle PROVE OneVote(session[c].snap)'
    BY <2>1, <2>3 DEF VoteInv, OneVote, Live
  <2> QED BY <2>2, <2>3 DEF VoteInv, Idle
<1>2. ASSUME NEW c \in Callers, NEW i \in Instances, NEW v \in Variables, Start(c, i, v) PROVE VoteInv'
  BY <1>2, VoteStart
<1>3. ASSUME NEW c \in Callers,
             (\E k \in DOMAIN tasks : LoadTask(c, k)) \/ (\E i \in Instances : LoadInstance(c, i))
      PROVE  VoteInv'
  BY <1>3, VoteLoad
<1>4. ASSUME NEW c \in Callers, PassTask(c) PROVE VoteInv'
  BY <1>4, VotePass
<1>5. ASSUME NEW c \in Callers,
             RejectAndTerminate(c) \/ (\E n \in RejectTargets : RejectToTarget(c, n)) \/ RejectUpstream(c)
      PROVE  VoteInv'
  BY <1>5, VoteReject
<1>6. ASSUME NEW c \in Callers, NEW back \in BOOLEAN, Revoke(c, back) PROVE VoteInv'
  BY <1>6, VoteRevoke
<1>7. ASSUME NEW c \in Callers, ActivateApproval(c) PROVE VoteInv'
  BY <1>7, VoteActivateApproval
<1>8. ASSUME NEW c \in Callers, ActivateCarbonCopy(c) PROVE VoteInv'
  BY <1>8, VoteActivateCarbonCopy
<1>9. ASSUME NEW c \in Callers, WorkerFails(c) \/ WorkerSuspends(c) \/ WorkerSucceeds(c) PROVE VoteInv'
  BY <1>9, VoteWorker
<1>10. ASSUME NEW c \in Callers, ReachEnd(c) PROVE VoteInv'
  BY <1>10, VoteReachEnd
<1>11. ASSUME NEW c \in Callers, SaveInstance(c) PROVE VoteInv'
  BY <1>11, VoteSave
<1>12. ASSUME NEW c \in Callers, Crash(c) PROVE VoteInv'
  BY <1>12, VoteFail DEF Crash
<1> QED
  BY <1>1, <1>2, <1>3, <1>4, <1>5, <1>6, <1>7, <1>8, <1>9, <1>10, <1>11, <1>12 DEF Next

(* With transactional calls, and if no ignored statement fails, a one-vote  *)
(* node accepts one vote in a round, for every definition, any number of    *)
(* assignees and any rejections that reopen the node in a later round       *)
(* (engine.go skipPendingNodeTasks, arbiter.go IsSatisfied).                *)
THEOREM OneVoteIsEnough == Transactional /\ ~StatementsFail => (Spec => []OneVoteDecides)
<1> SUFFICES ASSUME Transactional, ~StatementsFail PROVE Spec => []OneVoteDecides
  OBVIOUS
<1>1. Init => VoteInv
  BY DEF Init, VoteInv, OneVote, Snapshot
<1>2. IInv /\ VoteInv /\ [Next]_vars => VoteInv'
  BY VoteNext
<1>3. IInv /\ VoteInv => OneVoteDecides
  <2> SUFFICES ASSUME IInv, VoteInv,
                      NEW k \in DOMAIN tasks, Type[k.node] = "APPROVAL", Sign[k.node] = "ONE_VOTE",
                      tasks[k].status = "passed",
                      NEW j \in BatchTasks(k.node, k.batch, Snapshot(tasks[k].inst)), tasks[j].status = "passed"
               PROVE  j = k
    BY DEF OneVoteDecides
  <2> DEFINE i == tasks[k].inst
             snap == Snapshot(i)
  <2>1. i \in Instances
    BY DEF IInv, TablesInv
  <2>2. k \in DOMAIN snap /\ snap[k] = "passed"
    BY DEF Snapshot
  <2>3. j \in DOMAIN snap /\ snap[j] = "passed" /\ j.node = k.node /\ j.batch = k.batch
    BY DEF Snapshot, BatchTasks, TasksOf
  <2>4. OneVote(snap)
    BY <2>1 DEF VoteInv
  <2> HIDE DEF snap
  <2> QED BY <2>2, <2>3, <2>4 DEF OneVote, Live
<1> QED BY <1>1, <1>2, <1>3, InductiveInvariant, PTL DEF Spec

(***************************************************************************)
(* Edges.                                                                   *)
(***************************************************************************)
(* Induction over the natural numbers, for sets of them.                    *)
LEMMA Induction ==
  ASSUME NEW T, 0 \in T, \A k \in Nat : k \in T => k + 1 \in T
  PROVE  Nat \subseteq T
<1> DEFINE bad == Nat \ T
<1>1. SUFFICES ASSUME bad # {} PROVE FALSE
  OBVIOUS
<1>2. PICK k \in bad : \A j \in bad : <<j, k>> \notin OpToRel(<, Nat)
  BY <1>1, WFMin, NatLessThanWellFounded
<1>3. k \in Nat /\ k - 1 \in Nat /\ k - 1 < k
  OBVIOUS
<1>4. k - 1 \notin bad
  BY <1>2, <1>3, Zenon DEF OpToRel
<1> QED BY <1>3, <1>4

LEMMA InductionTo ==
  ASSUME NEW N \in Nat, NEW T, 0 \in T, \A k \in Nat : k < N /\ k \in T => k + 1 \in T
  PROVE  N \in T
<1> DEFINE U == {k \in Nat : k <= N => k \in T}
<1>1. 0 \in U
  OBVIOUS
<1>2. ASSUME NEW k \in Nat, k \in U PROVE k + 1 \in U
  BY <1>2
<1> HIDE DEF U
<1>3. N \in U
  BY <1>1, <1>2, Induction
<1> QED BY <1>3 DEF U

(* The recursion of Among, up to bound.                                     *)
Found(f, edges, S, bound) ==
  f = [k \in 0..bound |->
         IF k = 0 THEN <<>>
         ELSE IF edges[k] \in S THEN Append(f[k - 1], edges[k])
         ELSE f[k - 1]]

LEMMA FoundExists ==
  ASSUME NEW edges, NEW S, NEW bound \in Nat
  PROVE  \E f : Found(f, edges, S, bound)
<1> DEFINE T == {k \in Nat : \E f : Found(f, edges, S, k)}
<1>1. 0 \in T
  <2> DEFINE f == [j \in 0..0 |-> <<>>]
  <2>1. Found(f, edges, S, 0)
    BY DEF Found
  <2> QED BY <2>1
<1>2. ASSUME NEW k \in Nat, k \in T PROVE k + 1 \in T
  <2>1. PICK f : Found(f, edges, S, k)
    BY <1>2
  <2> DEFINE Step(q, j) == IF edges[j] \in S THEN Append(q, edges[j]) ELSE q
             after == Step(f[k], k + 1)
             g == [j \in 0..(k + 1) |-> IF j = k + 1 THEN after ELSE f[j]]
  <2>2. \A j \in 0..k : g[j] = f[j]
    OBVIOUS
  <2>3. ASSUME NEW j \in 0..(k + 1)
        PROVE  g[j] = IF j = 0 THEN <<>> ELSE Step(g[j - 1], j)
    <3>1. CASE j = k + 1
      <4>1. g[j] = after /\ g[j - 1] = f[k] /\ j # 0
        BY <3>1
      <4> HIDE DEF g
      <4> QED BY <3>1, <4>1
    <3>2. CASE j # k + 1
      <4>1. j \in 0..k
        BY <3>2
      <4>2. g[j] = f[j] /\ (j # 0 => g[j - 1] = f[j - 1])
        BY <2>2, <4>1
      <4>3. f[j] = IF j = 0 THEN <<>> ELSE Step(f[j - 1], j)
        BY <2>1, <4>1 DEF Found
      <4> HIDE DEF g
      <4> QED BY <4>2, <4>3
    <3> QED BY <3>1, <3>2
  <2>4. g = [j \in 0..(k + 1) |-> g[j]]
    OBVIOUS
  <2> HIDE DEF g
  <2>5. Found(g, edges, S, k + 1)
    BY <2>3, <2>4 DEF Found
  <2> QED BY <2>5
<1> HIDE DEF T
<1>3. bound \in T
  BY <1>1, <1>2, Induction
<1> QED BY <1>3 DEF T

LEMMA AmongIsFound ==
  ASSUME NEW edges, NEW S, Len(edges) \in Nat
  PROVE  \E f : Found(f, edges, S, Len(edges)) /\ Among(edges, S) = f[Len(edges)]
<1> DEFINE f == CHOOSE f : Found(f, edges, S, Len(edges))
<1>1. Found(f, edges, S, Len(edges))
  BY FoundExists
<1>2. Among(edges, S) = f[Len(edges)]
  BY DEF Among, Found
<1> QED BY <1>1, <1>2

LEMMA FoundStep ==
  ASSUME NEW f, NEW edges, NEW S, NEW bound \in Nat, Found(f, edges, S, bound)
  PROVE  /\ f[0] = <<>>
         /\ \A k \in Nat : k < bound =>
              /\ edges[k + 1] \in S => f[k + 1] = Append(f[k], edges[k + 1])
              /\ edges[k + 1] \notin S => f[k + 1] = f[k]
<1>1. f[0] = <<>>
  BY DEF Found
<1>2. ASSUME NEW k \in Nat, k < bound
      PROVE  f[k + 1] = IF edges[k + 1] \in S THEN Append(f[k], edges[k + 1]) ELSE f[k]
  <2> DEFINE j == k + 1
  <2>1. j \in 0..bound /\ j # 0 /\ j - 1 = k
    BY <1>2
  <2> HIDE DEF j
  <2>2. f[j] = IF edges[j] \in S THEN Append(f[j - 1], edges[j]) ELSE f[j - 1]
    BY <2>1 DEF Found
  <2> QED BY <2>1, <2>2 DEF j
<1> QED BY <1>1, <1>2

(* What is found is in the sequence and in S, and all of that is found.     *)
LEMMA AmongElements ==
  ASSUME NEW X, NEW edges \in Seq(X), NEW S
  PROVE  /\ Among(edges, S) \in Seq(X \cap S)
         /\ Len(Among(edges, S)) <= Len(edges)
         /\ \A j \in 1..Len(edges) : edges[j] \in S =>
              \E i \in 1..Len(Among(edges, S)) : Among(edges, S)[i] = edges[j]
<1> DEFINE N == Len(edges)
<1>1. N \in Nat /\ \A k \in Nat : k < N => edges[k + 1] \in X
  OBVIOUS
<1>2. PICK f : Found(f, edges, S, N) /\ Among(edges, S) = f[N]
  BY <1>1, AmongIsFound
<1> HIDE DEF N
<1> DEFINE Good(k) == /\ f[k] \in Seq(X \cap S)
                      /\ Len(f[k]) <= k
                      /\ \A j \in 1..k : edges[j] \in S =>
                           \E i \in 1..Len(f[k]) : f[k][i] = edges[j]
           T == {k \in Nat : Good(k)}
<1>3. Good(0)
  <2>1. f[0] = <<>>
    BY <1>1, <1>2, FoundStep
  <2> QED BY <2>1
<1>4. ASSUME NEW k \in Nat, k < N, Good(k) PROVE Good(k + 1)
  <2> DEFINE e == edges[k + 1]
             q == f[k]
             r == f[k + 1]
  <2>1. /\ e \in S => r = Append(q, e)
        /\ e \notin S => r = q
    BY <1>1, <1>2, <1>4, FoundStep
  <2>2. e \in X /\ q \in Seq(X \cap S) /\ Len(q) <= k
    BY <1>1, <1>4
  <2>3. \A j \in 1..k : edges[j] \in S => \E i \in 1..Len(q) : q[i] = edges[j]
    BY <1>4
  <2>4. \A j \in 1..(k + 1) : j \in 1..k \/ edges[j] = e
    OBVIOUS
  <2> HIDE DEF e, q
  <2>5. r \in Seq(X \cap S) /\ Len(r) <= k + 1
    <3> HIDE DEF r
    <3>1. CASE e \in S
      <4>1. e \in X \cap S /\ r = Append(q, e)
        BY <2>1, <2>2, <3>1
      <4> QED BY <2>2, <4>1
    <3>2. CASE e \notin S
      BY <2>1, <2>2, <3>2
    <3> QED BY <3>1, <3>2
  <2>6. \A i \in 1..Len(q) : i \in 1..Len(r) /\ r[i] = q[i]
    <3> HIDE DEF r
    <3> QED BY <2>1, <2>2
  <2>7. e \in S => \E i \in 1..Len(r) : r[i] = e
    <3> HIDE DEF r
    <3>1. SUFFICES ASSUME e \in S PROVE \E i \in 1..Len(r) : r[i] = e
      OBVIOUS
    <3>2. r = Append(q, e)
      BY <2>1, <3>1
    <3>3. Len(q) + 1 \in 1..Len(r) /\ r[Len(q) + 1] = e
      BY <2>2, <3>1, <3>2
    <3> QED BY <3>3
  <2>8. ASSUME NEW j \in 1..(k + 1), edges[j] \in S
        PROVE  \E i \in 1..Len(r) : r[i] = edges[j]
    <3> HIDE DEF r
    <3> QED BY <2>3, <2>4, <2>6, <2>7, <2>8
  <2> QED BY <2>5, <2>8
<1> HIDE DEF Good
<1>5. 0 \in T /\ \A k \in Nat : k < N /\ k \in T => k + 1 \in T
  BY <1>3, <1>4
<1> HIDE DEF T
<1>6. N \in T
  BY <1>1, <1>5, InductionTo
<1>7. Good(N)
  BY <1>6 DEF T
<1> QED BY <1>2, <1>7 DEF Good, N

(* All of them are found among themselves.                                  *)
LEMMA AmongWhole ==
  ASSUME NEW X, NEW edges \in Seq(X), NEW S, X \subseteq S
  PROVE  Among(edges, S) = edges
<1> DEFINE N == Len(edges)
<1>1. N \in Nat /\ \A k \in Nat : k < N => edges[k + 1] \in X
  OBVIOUS
<1>2. PICK f : Found(f, edges, S, N) /\ Among(edges, S) = f[N]
  BY <1>1, AmongIsFound
<1> HIDE DEF N
<1> DEFINE Good(k) == f[k] \in Seq(X) /\ Len(f[k]) = k /\ \A j \in 1..k : f[k][j] = edges[j]
           T == {k \in Nat : Good(k)}
<1>3. Good(0)
  <2>1. f[0] = <<>>
    BY <1>1, <1>2, FoundStep
  <2> QED BY <2>1
<1>4. ASSUME NEW k \in Nat, k < N, Good(k) PROVE Good(k + 1)
  <2> DEFINE e == edges[k + 1]
             q == f[k]
             r == f[k + 1]
  <2>1. e \in X /\ r = Append(q, e)
    BY <1>1, <1>2, <1>4, FoundStep
  <2>2. q \in Seq(X) /\ Len(q) = k /\ \A j \in 1..k : q[j] = edges[j]
    BY <1>4
  <2>3. \A j \in 1..(k + 1) : j \in 1..k \/ (j = k + 1 /\ edges[j] = e)
    OBVIOUS
  <2> HIDE DEF e, q
  <2>4. r \in Seq(X) /\ Len(r) = k + 1 /\ r[k + 1] = e /\ \A j \in 1..k : r[j] = q[j]
    <3> HIDE DEF r
    <3> QED BY <2>1, <2>2
  <2> QED BY <2>2, <2>3, <2>4
<1> HIDE DEF Good
<1>5. 0 \in T /\ \A k \in Nat : k < N /\ k \in T => k + 1 \in T
  BY <1>3, <1>4
<1> HIDE DEF T
<1>6. Good(N)
  BY <1>1, <1>5, InductionTo DEF T
<1>7. f[N] \in Seq(X) /\ Len(f[N]) = Len(edges) /\ \A j \in 1..Len(edges) : f[N][j] = edges[j]
  BY <1>6 DEF Good, N
<1> QED BY <1>2, <1>7

(* Three kinds of edges are not more than there are edges.                  *)
LEMMA AmongThree ==
  ASSUME NEW X, NEW edges \in Seq(X), NEW A, NEW B, NEW C,
         A \cap B = {}, A \cap C = {}, B \cap C = {}
  PROVE  Len(Among(edges, A)) + Len(Among(edges, B)) + Len(Among(edges, C)) <= Len(edges)
<1> DEFINE N == Len(edges)
<1>1. N \in Nat /\ \A k \in Nat : k < N => edges[k + 1] \in X
  OBVIOUS
<1>2. PICK f : Found(f, edges, A, N) /\ Among(edges, A) = f[N]
  BY <1>1, AmongIsFound
<1>3. PICK g : Found(g, edges, B, N) /\ Among(edges, B) = g[N]
  BY <1>1, AmongIsFound
<1>4. PICK h : Found(h, edges, C, N) /\ Among(edges, C) = h[N]
  BY <1>1, AmongIsFound
<1> HIDE DEF N
<1> DEFINE Good(k) == /\ f[k] \in Seq(X) /\ g[k] \in Seq(X) /\ h[k] \in Seq(X)
                      /\ Len(f[k]) + Len(g[k]) + Len(h[k]) <= k
           T == {k \in Nat : Good(k)}
<1>5. Good(0)
  <2>1. f[0] = <<>> /\ g[0] = <<>> /\ h[0] = <<>>
    BY <1>1, <1>2, <1>3, <1>4, FoundStep
  <2> QED BY <2>1
<1>6. ASSUME NEW k \in Nat, k < N, Good(k) PROVE Good(k + 1)
  <2> DEFINE e == edges[k + 1]
             fk == f[k]
             gk == g[k]
             hk == h[k]
             fl == f[k + 1]
             gl == g[k + 1]
             hl == h[k + 1]
  <2>1. /\ e \in A => fl = Append(fk, e)
        /\ e \notin A => fl = fk
    BY <1>1, <1>2, <1>6, FoundStep
  <2>2. /\ e \in B => gl = Append(gk, e)
        /\ e \notin B => gl = gk
    BY <1>1, <1>3, <1>6, FoundStep
  <2>3. /\ e \in C => hl = Append(hk, e)
        /\ e \notin C => hl = hk
    BY <1>1, <1>4, <1>6, FoundStep
  <2>4. /\ e \in X /\ fk \in Seq(X) /\ gk \in Seq(X) /\ hk \in Seq(X)
        /\ Len(fk) + Len(gk) + Len(hk) <= k
    BY <1>1, <1>6
  <2> HIDE DEF e, fk, gk, hk
  <2>5. /\ fl \in Seq(X) /\ gl \in Seq(X) /\ hl \in Seq(X)
        /\ Len(fl) + Len(gl) + Len(hl) <= k + 1
    <3> HIDE DEF fl, gl, hl
    <3>1. CASE e \in A
      <4>1. fl = Append(fk, e) /\ gl = gk /\ hl = hk
        BY <2>1, <2>2, <2>3, <3>1
      <4> QED BY <2>4, <4>1
    <3>2. CASE e \in B
      <4>1. fl = fk /\ gl = Append(gk, e) /\ hl = hk
        BY <2>1, <2>2, <2>3, <3>2
      <4> QED BY <2>4, <4>1
    <3>3. CASE e \in C
      <4>1. fl = fk /\ gl = gk /\ hl = Append(hk, e)
        BY <2>1, <2>2, <2>3, <3>3
      <4> QED BY <2>4, <4>1
    <3>4. CASE e \notin A \cup B \cup C
      BY <2>1, <2>2, <2>3, <2>4, <3>4
    <3> QED BY <3>1, <3>2, <3>3, <3>4
  <2> QED BY <2>5
<1> HIDE DEF Good
<1>7. 0 \in T /\ \A k \in Nat : k < N /\ k \in T => k + 1 \in T
  BY <1>5, <1>6
<1> HIDE DEF T
<1>8. Good(N)
  BY <1>1, <1>7, InductionTo DEF T
<1> QED BY <1>2, <1>3, <1>4, <1>8 DEF Good, N

LEMMA OutEdgesOf ==
  ASSUME NEW n \in Nodes
  PROVE  LET E == {e \in ToSet(Edges) : e.source = n} IN
         /\ OutEdges[n] = Among(Edges, E)
         /\ OutEdges[n] \in Seq(E)
         /\ \A e \in E : e.target \in After(n)
         /\ TargetsOf(OutEdges[n]) \in Seq(After(n))
         /\ Len(TargetsOf(OutEdges[n])) = Len(OutEdges[n])
         /\ After(n) \subseteq Nodes
<1> DEFINE E == {e \in ToSet(Edges) : e.source = n}
           out == OutEdges[n]
<1>1. Edges \in Seq(ToSet(Edges))
  BY DefinitionAssumption
<1>2. out = Among(Edges, E)
  BY DEF OutEdges
<1>3. E = ToSet(Edges) \cap E
  OBVIOUS
<1>4. /\ out \in Seq(E)
      /\ \A j \in 1..Len(Edges) : Edges[j] \in E => \E i \in 1..Len(out) : out[i] = Edges[j]
  <2> HIDE DEF out, E
  <2> QED BY <1>1, <1>2, <1>3, AmongElements
<1>5. \A e \in E : \E j \in 1..Len(Edges) : e = Edges[j]
  BY <1>1 DEF ToSet
<1>6. \A e \in E : \E i \in 1..Len(out) : out[i] = e
  <2> HIDE DEF out, E
  <2> QED BY <1>4, <1>5
<1>7. \A e \in E : e.target \in Nodes
  BY <1>1, DefinitionAssumption DEF ToSet, Validate
<1> DEFINE T == [i \in 1..Len(out) |-> out[i].target]
<1>8. DOMAIN out = 1..Len(out) /\ Len(out) \in Nat /\ \A i \in 1..Len(out) : out[i] \in E
  <2> HIDE DEF out, E
  <2> QED BY <1>4
<1>9. TargetsOf(out) = T
  BY <1>8 DEF TargetsOf
<1>10. DOMAIN T = 1..Len(out) /\ T \in Seq({T[i] : i \in 1..Len(out)}) /\ Len(T) = Len(out)
  BY <1>8
<1>11. After(n) = {T[i] : i \in DOMAIN T}
  BY <1>9 DEF After, ToSet
<1>12. \A i \in 1..Len(out) : T[i] = out[i].target
  OBVIOUS
<1> HIDE DEF T, E
<1>13. \A e \in E : e.target \in After(n)
  BY <1>6, <1>10, <1>11, <1>12
<1>14. After(n) \subseteq Nodes
  BY <1>7, <1>8, <1>10, <1>11, <1>12
<1> QED BY <1>2, <1>4, <1>9, <1>10, <1>11, <1>13, <1>14 DEF E

(***************************************************************************)
(* The walk to the next nodes.                                              *)
(***************************************************************************)
Walked(queue, opened, shut, ready) ==
  [queue |-> queue, opened |-> opened, blocked |-> shut # {}, ready |-> ready, skipped |-> <<>>]

Walk(f, w, variables, snap, bound) ==
  f = [k \in 0..bound |-> IF k = 0 THEN w ELSE Visit(f[k - 1], variables, snap)]

LEMMA WalkExists ==
  ASSUME NEW w, NEW variables, NEW snap, NEW bound \in Nat
  PROVE  \E f : Walk(f, w, variables, snap, bound)
<1> DEFINE T == {k \in Nat : \E f : Walk(f, w, variables, snap, k)}
<1>1. 0 \in T
  <2> DEFINE f == [j \in 0..0 |-> w]
  <2>1. Walk(f, w, variables, snap, 0)
    BY DEF Walk
  <2> QED BY <2>1
<1>2. ASSUME NEW k \in Nat, k \in T PROVE k + 1 \in T
  <2>1. PICK f : Walk(f, w, variables, snap, k)
    BY <1>2
  <2> DEFINE after == Visit(f[k], variables, snap)
             g == [j \in 0..(k + 1) |-> IF j = k + 1 THEN after ELSE f[j]]
  <2>2. \A j \in 0..k : g[j] = f[j]
    OBVIOUS
  <2>3. ASSUME NEW j \in 0..(k + 1)
        PROVE  g[j] = IF j = 0 THEN w ELSE Visit(g[j - 1], variables, snap)
    <3>1. CASE j = k + 1
      <4>1. g[j] = after /\ g[j - 1] = f[k] /\ j # 0
        BY <3>1
      <4> HIDE DEF g
      <4> QED BY <3>1, <4>1
    <3>2. CASE j # k + 1
      <4>1. j \in 0..k
        BY <3>2
      <4>2. g[j] = f[j] /\ (j # 0 => g[j - 1] = f[j - 1])
        BY <2>2, <4>1
      <4>3. f[j] = IF j = 0 THEN w ELSE Visit(f[j - 1], variables, snap)
        BY <2>1, <4>1 DEF Walk
      <4> HIDE DEF g
      <4> QED BY <4>2, <4>3
    <3> QED BY <3>1, <3>2
  <2>4. g = [j \in 0..(k + 1) |-> g[j]]
    OBVIOUS
  <2> HIDE DEF g
  <2>5. Walk(g, w, variables, snap, k + 1)
    BY <2>3, <2>4 DEF Walk
  <2> QED BY <2>5
<1> HIDE DEF T
<1>3. bound \in T
  BY <1>1, <1>2, Induction
<1> QED BY <1>3 DEF T

LEMMA WalkStep ==
  ASSUME NEW f, NEW w, NEW variables, NEW snap, NEW bound \in Nat,
         Walk(f, w, variables, snap, bound)
  PROVE  f[0] = w /\ \A k \in Nat : k < bound => f[k + 1] = Visit(f[k], variables, snap)
<1>1. f[0] = w
  BY DEF Walk
<1>2. ASSUME NEW k \in Nat, k < bound
      PROVE  f[k + 1] = Visit(f[k], variables, snap)
  <2> DEFINE j == k + 1
  <2>1. j \in 0..bound /\ j # 0 /\ j - 1 = k
    BY <1>2
  <2> HIDE DEF j
  <2>2. f[j] = Visit(f[j - 1], variables, snap)
    BY <2>1 DEF Walk
  <2> QED BY <2>1, <2>2 DEF j
<1> QED BY <1>1, <1>2

LEMMA NextStepIsWalk ==
  ASSUME NEW n, NEW variables, NEW snap, Len(Edges) \in Nat, SkippedTargets(n, variables) = <<>>
  PROVE  \E f : /\ Walk(f, Walked(Targets(n, variables), {}, {}, <<>>), variables, snap, Len(Edges))
                /\ ResolveNextStep(n, variables, snap) = f[Len(Edges)]
<1> DEFINE w == Walked(Targets(n, variables), {}, {}, <<>>)
           f == CHOOSE f : Walk(f, w, variables, snap, Len(Edges))
<1>1. Walk(f, w, variables, snap, Len(Edges))
  BY WalkExists
<1>2. ResolveNextStep(n, variables, snap) = f[Len(Edges)]
  BY DEF ResolveNextStep, Walk, Walked
<1> QED BY <1>1, <1>2

(* What one visit does: to a node, and to a gateway that is shut or open.   *)
LEMMA VisitNothing ==
  ASSUME NEW opened, NEW shut, NEW ready, NEW variables, NEW snap
  PROVE  LET w == Walked(<<>>, opened, shut, ready) IN Visit(w, variables, snap) = w
BY DEF Visit, Walked

LEMMA VisitNode ==
  ASSUME NEW queue \in Seq(Stops), queue # <<>>, NEW opened, NEW shut,
         NEW ready \in Seq(Stops), NEW variables, NEW snap
  PROVE  \E r \in Seq(Stops) :
           /\ Visit(Walked(queue, opened, shut, ready), variables, snap)
                = Walked(Tail(queue), opened, shut, r)
           /\ ToSet(r) = ToSet(ready) \cup {Head(queue)}
<1> DEFINE w == Walked(queue, opened, shut, ready)
           r == IF Contains(ready, Head(queue)) THEN ready ELSE Append(ready, Head(queue))
<1>1. Head(queue) \in Stops /\ ~IsGateway(Head(queue))
  BY DEF Stops
<1>2. r \in Seq(Stops)
  BY <1>1
<1>3. ToSet(r) = ToSet(ready) \cup {Head(queue)}
  <2>1. CASE Contains(ready, Head(queue))
    BY <2>1 DEF Contains, ToSet
  <2>2. CASE ~Contains(ready, Head(queue))
    <3> DEFINE x == Head(queue)
               a == Append(ready, x)
    <3>1. x \in Stops
      BY <1>1
    <3> HIDE DEF x
    <3>2. /\ DOMAIN ready = 1..Len(ready) /\ Len(ready) \in Nat
          /\ DOMAIN a = 1..(Len(ready) + 1)
          /\ a[Len(ready) + 1] = x
          /\ \A i \in 1..Len(ready) : a[i] = ready[i]
      BY <3>1
    <3> HIDE DEF a
    <3>3. ToSet(a) = ToSet(ready) \cup {x}
      BY <3>2 DEF ToSet
    <3> QED BY <2>2, <3>3 DEF a, x
  <2> QED BY <2>1, <2>2
<1>4. w.queue = queue /\ w.ready = ready
  BY DEF Walked
<1>5. Visit(w, variables, snap) = [[w EXCEPT !.queue = Tail(@)] EXCEPT !.ready = IF Contains(@, Head(queue)) THEN @ ELSE Append(@, Head(queue))]
  BY <1>1, <1>4 DEF Visit
<1>6. Visit(w, variables, snap) = Walked(Tail(queue), opened, shut, r)
  BY <1>5 DEF Walked
<1> QED BY <1>2, <1>3, <1>6

LEMMA VisitShut ==
  ASSUME NEW g, IsGateway(g), NEW opened, NEW ready, NEW variables, NEW snap,
         ~IsJoinSatisfied(g, snap)
  PROVE  Visit(Walked(<<g>>, opened, {}, ready), variables, snap)
           = Walked(<<>>, opened, {g}, ready)
<1> DEFINE w == Walked(<<g>>, opened, {}, ready)
<1>1. w.queue = <<g>> /\ Head(<<g>>) = g /\ Tail(<<g>>) = <<>> /\ <<g>> # <<>>
  BY DEF Walked
<1>2. Visit(w, variables, snap) = [[w EXCEPT !.queue = Tail(@)] EXCEPT !.blocked = TRUE]
  BY <1>1 DEF Visit
<1> QED BY <1>1, <1>2 DEF Walked

LEMMA VisitOpen ==
  ASSUME NEW g, IsGateway(g), NEW opened, g \notin opened, NEW ready, NEW variables, NEW snap,
         IsJoinSatisfied(g, snap), SkippedTargets(g, variables) = <<>>,
         NEW X, Targets(g, variables) \in Seq(X)
  PROVE  Visit(Walked(<<g>>, opened, {}, ready), variables, snap)
           = Walked(Targets(g, variables), opened \cup {g}, {}, ready)
<1> DEFINE w == Walked(<<g>>, opened, {}, ready)
           q == Targets(g, variables)
<1>1. w.queue = <<g>> /\ Head(<<g>>) = g /\ Tail(<<g>>) = <<>> /\ <<g>> # <<>> /\ w.opened = opened
  BY DEF Walked
<1>2. <<>> \o q = q /\ <<>> \o <<>> = <<>>
  <2> HIDE DEF q
  <2> QED OBVIOUS
<1>3. Visit(w, variables, snap)
        = [[w EXCEPT !.queue = Tail(@)] EXCEPT !.opened = @ \cup {g},
                                               !.skipped = @ \o SkippedTargets(g, variables),
                                               !.queue = @ \o Targets(g, variables)]
  BY <1>1 DEF Visit
<1> QED BY <1>1, <1>2, <1>3 DEF Walked

(* Nodes in the queue come to be the ready ones.                            *)
LEMMA WalkDrains ==
  ASSUME NEW f, NEW w, NEW variables, NEW snap, NEW bound \in Nat,
         Walk(f, w, variables, snap, bound),
         NEW k \in Nat, NEW queue \in Seq(Stops), NEW opened, NEW shut,
         f[k] = Walked(queue, opened, shut, <<>>), k + Len(queue) <= bound
  PROVE  \E r \in Seq(Stops) : f[bound] = Walked(<<>>, opened, shut, r) /\ ToSet(r) = ToSet(queue)
<1> DEFINE Good(j) == \E q, r \in Seq(Stops) :
                        /\ f[k + j] = Walked(q, opened, shut, r)
                        /\ q = <<>> \/ Len(q) + j = Len(queue)
                        /\ ToSet(r) \cup ToSet(q) = ToSet(queue)
           T == {j \in Nat : Good(j)}
           N == bound - k
<1>1. Len(queue) \in Nat /\ N \in Nat /\ k + N = bound /\ Len(queue) <= N
  OBVIOUS
<1>2. Good(0)
  <2>1. f[k + 0] = Walked(queue, opened, shut, <<>>) /\ Len(queue) + 0 = Len(queue)
    OBVIOUS
  <2>2. <<>> \in Seq(Stops) /\ ToSet(<<>>) \cup ToSet(queue) = ToSet(queue)
    BY DEF ToSet
  <2> QED BY <2>1, <2>2
<1>3. ASSUME NEW j \in Nat, j < N, Good(j) PROVE Good(j + 1)
  <2>1. PICK q \in Seq(Stops), r \in Seq(Stops) :
          /\ f[k + j] = Walked(q, opened, shut, r)
          /\ q = <<>> \/ Len(q) + j = Len(queue)
          /\ ToSet(r) \cup ToSet(q) = ToSet(queue)
    BY <1>3
  <2>2. f[(k + j) + 1] = Visit(f[k + j], variables, snap)
    <3>1. k + j \in Nat /\ k + j < bound
      BY <1>1, <1>3
    <3> QED BY <3>1, WalkStep
  <2>3. (k + j) + 1 = k + (j + 1)
    OBVIOUS
  <2> DEFINE v == f[k + (j + 1)]
  <2>4. v = Visit(Walked(q, opened, shut, r), variables, snap)
    BY <2>1, <2>2, <2>3
  <2> HIDE DEF v
  <2>5. CASE q = <<>>
    <3>1. v = Walked(q, opened, shut, r)
      BY <2>4, <2>5, VisitNothing
    <3> QED BY <2>1, <2>5, <3>1 DEF v
  <2>6. CASE q # <<>>
    <3>0. \E r2 \in Seq(Stops) :
            /\ Visit(Walked(q, opened, shut, r), variables, snap) = Walked(Tail(q), opened, shut, r2)
            /\ ToSet(r2) = ToSet(r) \cup {Head(q)}
      BY <2>6, VisitNode
    <3>1. PICK r2 \in Seq(Stops) : v = Walked(Tail(q), opened, shut, r2) /\ ToSet(r2) = ToSet(r) \cup {Head(q)}
      BY <2>4, <3>0
    <3>2. Tail(q) \in Seq(Stops) /\ Len(Tail(q)) + (j + 1) = Len(queue)
      BY <2>1, <2>6
    <3>3. ToSet(q) = {Head(q)} \cup ToSet(Tail(q))
      <4>1. /\ DOMAIN q = 1..Len(q) /\ Len(q) \in Nat \ {0} /\ Head(q) = q[1]
            /\ DOMAIN Tail(q) = 1..(Len(q) - 1)
            /\ \A i \in 1..(Len(q) - 1) : Tail(q)[i] = q[i + 1]
        BY <2>6
      <4>2. ASSUME NEW x \in ToSet(q) PROVE x = Head(q) \/ x \in ToSet(Tail(q))
        <5>1. PICK i \in 1..Len(q) : x = q[i]
          BY <4>1 DEF ToSet
        <5>2. CASE i = 1
          BY <4>1, <5>1, <5>2
        <5>3. CASE i # 1
          <6>1. i - 1 \in 1..(Len(q) - 1) /\ (i - 1) + 1 = i
            BY <4>1, <5>3
          <6> QED BY <4>1, <5>1, <6>1 DEF ToSet
        <5> QED BY <5>2, <5>3
      <4>3. ASSUME NEW x \in ToSet(Tail(q)) PROVE x \in ToSet(q)
        <5>1. PICK i \in 1..(Len(q) - 1) : x = Tail(q)[i]
          BY <4>1 DEF ToSet
        <5>2. x = q[i + 1] /\ i + 1 \in 1..Len(q)
          BY <4>1, <5>1
        <5> QED BY <4>1, <5>2 DEF ToSet
      <4>4. Head(q) \in ToSet(q)
        BY <4>1 DEF ToSet
      <4> QED BY <4>2, <4>3, <4>4
    <3>4. ToSet(r2) \cup ToSet(Tail(q)) = ToSet(queue)
      BY <2>1, <3>1, <3>3
    <3> QED BY <3>1, <3>2, <3>4 DEF v
  <2> QED BY <2>5, <2>6
<1> HIDE DEF Good, N
<1>4. 0 \in T /\ \A j \in Nat : j < N /\ j \in T => j + 1 \in T
  BY <1>2, <1>3
<1> HIDE DEF T
<1>5. Good(N)
  BY <1>1, <1>4, InductionTo DEF T
<1>6. PICK q \in Seq(Stops), r \in Seq(Stops) :
        /\ f[k + N] = Walked(q, opened, shut, r)
        /\ q = <<>> \/ Len(q) + N = Len(queue)
        /\ ToSet(r) \cup ToSet(q) = ToSet(queue)
  BY <1>5 DEF Good
<1>7. q = <<>>
  <2>1. Len(q) \in Nat /\ (Len(q) = 0 => q = <<>>)
    OBVIOUS
  <2> QED BY <1>1, <1>6, <2>1
<1>8. ToSet(r) = ToSet(queue)
  <2>1. ToSet(q) = {}
    BY <1>7 DEF ToSet
  <2> QED BY <1>6, <2>1
<1> QED BY <1>1, <1>6, <1>7, <1>8

(***************************************************************************)
(* Where a staged definition leads to.                                      *)
(***************************************************************************)
LEMMA StagedTypes ==
  ASSUME NEW pos, Staged(pos), NEW n \in Nodes
  PROVE  /\ n \in Stops => Type[n] \in {"START", "APPROVAL", "END"} /\ ~IsGateway(n)
         /\ n \notin Stops => Type[n] = "PARALLEL" /\ IsGateway(n)
         /\ \A variables : SkippedTargets(n, variables) = <<>>
         /\ pos[n] \in Nat
<1>1. Type[n] \in {"START", "APPROVAL", "PARALLEL", "END"} /\ pos \in [Nodes -> Nat]
  BY DEF Staged
<1> QED BY <1>1 DEF Stops, IsGateway, SkippedTargets

LEMMA GatewayTargets ==
  ASSUME NEW pos, Staged(pos), NEW g \in Nodes \ Stops, NEW variables
  PROVE  /\ Targets(g, variables) = TargetsOf(OutEdges[g])
         /\ Targets(g, variables) \in Seq(After(g))
         /\ Len(Targets(g, variables)) = Len(OutEdges[g])
         /\ ToSet(Targets(g, variables)) = After(g)
<1> DEFINE out == OutEdges[g]
           X == ToSet(out)
<1>1. Type[g] = "PARALLEL"
  BY StagedTypes
<1>2. Taken(g, variables) = X
  BY <1>1 DEF Taken
<1>3. out \in Seq(X)
  <2>1. PICK E : out \in Seq(E)
    BY OutEdgesOf
  <2> HIDE DEF out
  <2> QED BY <2>1 DEF ToSet
<1>4. Among(out, X) = out
  <2> HIDE DEF out, X
  <2> QED BY <1>3, AmongWhole
<1>5. Targets(g, variables) = TargetsOf(out)
  BY <1>1, <1>2, <1>4 DEF Targets
<1> QED BY <1>5, OutEdgesOf DEF After

LEMMA StopTargets ==
  ASSUME NEW pos, Staged(pos), NEW n \in Stops, NEW variables
  PROVE  \/ Targets(n, variables) = <<>>
         \/ /\ Len(OutEdges[n]) = 1
            /\ \E t \in After(n) : Targets(n, variables) = <<t>>
<1> DEFINE out == OutEdges[n]
           E == {e \in ToSet(Edges) : e.source = n}
           S == Taken(n, variables)
           m == Among(out, S)
<1>1. n \in Nodes /\ Type[n] # "EXCLUSIVE"
  BY StagedTypes DEF Stops
<1>2. Len(out) <= 1
  BY DEF Staged
<1>3. out \in Seq(E) /\ \A e \in E : e.target \in After(n)
  BY <1>1, OutEdgesOf
<1>4. Targets(n, variables) = TargetsOf(m)
  BY <1>1 DEF Targets
<1>5. m \in Seq(E \cap S) /\ Len(m) <= Len(out)
  <2> HIDE DEF out, S, E
  <2> QED BY <1>3, AmongElements
<1> HIDE DEF out, E, S, m
<1>6. CASE m = <<>>
  BY <1>4, <1>6 DEF TargetsOf
<1>7. CASE m # <<>>
  <2>1. Len(m) = 1 /\ Len(out) = 1 /\ m[1] \in E /\ DOMAIN m = 1..1
    BY <1>2, <1>3, <1>5, <1>7
  <2>2. TargetsOf(m) = <<m[1].target>>
    BY <2>1 DEF TargetsOf
  <2> QED BY <1>3, <1>4, <2>1, <2>2 DEF out
<1> QED BY <1>6, <1>7

(* A gateway behind which all targets are stops leads to one stage.         *)
LEMMA FanIsStage ==
  ASSUME NEW pos, Staged(pos), NEW g \in Nodes \ Stops, Fans(pos, g), NEW x \in After(g)
  PROVE  x \in Stops /\ After(g) = Stage(pos, x)
<1>1. \A m \in After(g) : m \in Stops /\ Stage(pos, m) \subseteq After(g)
  BY DEF Fans
<1>2. \A m \in After(g) : pos[g] < pos[m] /\ \A y \in Stops : ~(pos[g] < pos[y] /\ pos[y] < pos[m])
  BY DEF Staged
<1>3. \A m \in Stops : m \in Nodes /\ pos[m] \in Nat
  BY StagedTypes DEF Stops
<1>4. ASSUME NEW m \in After(g) PROVE m \in Stage(pos, x)
  <2>1. pos[m] = pos[x]
    BY <1>1, <1>2, <1>3
  <2> QED BY <1>1, <2>1 DEF Stage
<1> QED BY <1>1, <1>4

LEMMA JoinSatisfied ==
  ASSUME NEW pos, Staged(pos), NEW g \in Nodes \ Stops, NEW snap
  PROVE  IsJoinSatisfied(g, snap) <=> (IsJoin(g) => \A m \in Preceding[g] : IsPassed(m, snap))
<1>1. Type[g] = "PARALLEL"
  BY StagedTypes
<1>2. \A m : IsResolved(m, Type[g], snap) <=> IsPassed(m, snap)
  BY <1>1 DEF IsResolved
<1> QED BY <1>1, <1>2 DEF IsJoinSatisfied

(* From a stop the walk comes to a join that waits for a node of the same   *)
(* stage, or to all nodes of the next stage.                                *)
Leads(pos, n, snap, dec) ==
  /\ dec.skipped = <<>>
  /\ dec.blocked => \E m \in Stage(pos, n) : m # StartNode /\ ~IsPassed(m, snap)
  /\ ~dec.blocked /\ dec.ready # <<>> =>
       /\ \A m \in Stage(pos, n) : m = n \/ IsPassed(m, snap)
       /\ \E x \in Stops :
            /\ dec.ready \in Seq(Stops) /\ ToSet(dec.ready) = Stage(pos, x)
            /\ pos[n] < pos[x] /\ \A y \in Stops : pos[y] < pos[x] => pos[y] <= pos[n]

LEMMA NextStage ==
  ASSUME NEW pos, Staged(pos), NEW n \in Stops, NEW variables, NEW snap
  PROVE  Leads(pos, n, snap, ResolveNextStep(n, variables, snap))
<1> DEFINE N == Len(Edges)
           w == Walked(Targets(n, variables), {}, {}, <<>>)
           dec == ResolveNextStep(n, variables, snap)
           none == {}
           empty == <<>>
<1>1. Edges \in Seq(ToSet(Edges)) /\ N \in Nat
  BY DefinitionAssumption
<1>2. n \in Nodes /\ SkippedTargets(n, variables) = <<>> /\ \A m \in Nodes : pos[m] \in Nat
  BY StagedTypes DEF Stops
<1>3. PICK f : Walk(f, w, variables, snap, N) /\ dec = f[N]
  BY <1>1, <1>2, NextStepIsWalk
<1>4. /\ f[0] = Walked(Targets(n, variables), none, none, <<>>)
      /\ 0 < N => f[1] = Visit(f[0], variables, snap)
      /\ 1 < N => f[2] = Visit(f[1], variables, snap)
  <2> HIDE DEF N, dec, w
  <2>1. f[0] = w /\ \A k \in Nat : k < N => f[k + 1] = Visit(f[k], variables, snap)
    BY <1>1, <1>3, WalkStep
  <2>2. 0 \in Nat /\ 0 + 1 = 1 /\ 1 \in Nat /\ 1 + 1 = 2
    OBVIOUS
  <2>3. (0 < N => f[0 + 1] = Visit(f[0], variables, snap)) /\ (1 < N => f[1 + 1] = Visit(f[1], variables, snap))
    BY <2>1, <2>2
  <2> QED BY <2>1, <2>2, <2>3 DEF w
<1>drain. ASSUME NEW k \in Nat, NEW queue \in Seq(Stops), NEW opened, NEW shut,
                 f[k] = Walked(queue, opened, shut, <<>>), k + Len(queue) <= N
          PROVE  /\ dec.skipped = <<>> /\ dec.blocked = (shut # {}) /\ dec.ready \in Seq(Stops)
                 /\ ToSet(dec.ready) = ToSet(queue)
  <2> HIDE DEF N, dec, w
  <2>1. \E r \in Seq(Stops) : f[N] = Walked(<<>>, opened, shut, r) /\ ToSet(r) = ToSet(queue)
    BY <1>1, <1>3, <1>drain, WalkDrains
  <2>2. PICK r \in Seq(Stops) : f[N] = Walked(<<>>, opened, shut, r) /\ ToSet(r) = ToSet(queue)
    BY <2>1
  <2> QED BY <1>3, <2>2 DEF Walked
<1>counts. \A S : Len(Among(Edges, S)) \in Nat /\ Len(Among(Edges, S)) <= N
  <2>1. ASSUME NEW S PROVE Among(Edges, S) \in Seq(ToSet(Edges) \cap S) /\ Len(Among(Edges, S)) <= N
    BY <1>1, AmongElements
  <2>2. ASSUME NEW S PROVE Len(Among(Edges, S)) \in Nat
    BY <2>1
  <2> QED BY <2>1, <2>2
<1>three. ASSUME NEW A, NEW B, NEW C, A \cap B = {}, A \cap C = {}, B \cap C = {}
          PROVE  Len(Among(Edges, A)) + Len(Among(Edges, B)) + Len(Among(Edges, C)) <= N
  BY <1>1, <1>three, AmongThree
<1>5. /\ empty \in Seq(Stops) /\ Len(empty) = 0 /\ ToSet(empty) = {} /\ empty = <<>>
      /\ none = {}
  BY DEF ToSet
<1> HIDE DEF N, w, dec, none, empty
<1>6. ASSUME Targets(n, variables) = <<>> PROVE Leads(pos, n, snap, dec)
  <2>1. f[0] = Walked(empty, none, none, <<>>)
    BY <1>4, <1>5, <1>6
  <2>2. 0 \in Nat /\ 0 + Len(empty) <= N
    BY <1>1, <1>5
  <2>3. /\ dec.skipped = <<>> /\ dec.blocked = (none # {}) /\ dec.ready \in Seq(Stops)
        /\ ToSet(dec.ready) = ToSet(empty)
    BY <1>5, <2>1, <2>2, <1>drain
  <2>4. dec.ready = <<>>
    <3> DEFINE r == dec.ready
    <3>1. r \in Seq(Stops) /\ ToSet(r) = {}
      BY <1>5, <2>3
    <3> HIDE DEF r
    <3>2. \A i \in 1..Len(r) : r[i] \in ToSet(r)
      BY <3>1 DEF ToSet
    <3>3. Len(r) \in Nat /\ (Len(r) # 0 => 1 \in 1..Len(r)) /\ (Len(r) = 0 => r = <<>>)
      BY <3>1
    <3>4. r = <<>>
      BY <3>1, <3>2, <3>3
    <3> QED BY <3>4 DEF r
  <2>5. ~dec.blocked
    BY <1>5, <2>3
  <2>6. dec.skipped = <<>>
    BY <2>3
  <2> QED BY <2>4, <2>5, <2>6 DEF Leads
<1>7. ASSUME NEW t \in After(n), Targets(n, variables) = <<t>>, Len(OutEdges[n]) = 1
      PROVE  Leads(pos, n, snap, dec)
  <2> DEFINE just == <<t>>
             only == {t}
  <2>1. Onward(pos, n, t) /\ pos[n] < pos[t] /\ \A y \in Stops : ~(pos[n] < pos[y] /\ pos[y] < pos[t])
    BY <1>2 DEF Staged
  <2>2. t \in Nodes
    BY <1>2, OutEdgesOf
  <2>3. \A y \in Stops : y \in Nodes
    BY DEF Stops
  <2>4. f[0] = Walked(just, none, none, <<>>)
    BY <1>4, <1>7
  <2>5. 1 <= N
    <3>1. OutEdges[n] = Among(Edges, {e \in ToSet(Edges) : e.source = n})
      BY <1>2, OutEdgesOf
    <3> DEFINE E == {e \in ToSet(Edges) : e.source = n}
    <3> HIDE DEF E
    <3>2. OutEdges[n] = Among(Edges, E)
      BY <3>1 DEF E
    <3> QED BY <1>7, <1>counts, <3>2
  <2>6. \A y \in Stops : pos[y] < pos[t] => pos[y] <= pos[n]
    BY <1>2, <2>1, <2>2, <2>3
  <2>7. Len(just) = 1 /\ ToSet(just) = {t} /\ (t \in Stops => just \in Seq(Stops)) /\ only # {} /\ just # <<>>
    BY DEF ToSet
  <2>8. f[1] = Visit(f[0], variables, snap)
    BY <1>1, <1>4, <2>5
  <2>9. CASE t \in Stops
    <3> HIDE DEF just, only
    <3>1. Stage(pos, n) = {n} /\ Stage(pos, t) = {t}
      BY <2>1, <2>9 DEF Onward
    <3>2. 0 \in Nat /\ 0 + Len(just) <= N
      BY <1>1, <2>5, <2>7
    <3>3. /\ dec.skipped = <<>> /\ dec.blocked = (none # {}) /\ dec.ready \in Seq(Stops)
          /\ ToSet(dec.ready) = ToSet(just)
      BY <2>4, <2>7, <2>9, <3>2, <1>drain
    <3>4. ~dec.blocked /\ ToSet(dec.ready) = Stage(pos, t)
      BY <1>5, <2>7, <3>1, <3>3
    <3>5. \A m \in Stage(pos, n) : m = n \/ IsPassed(m, snap)
      BY <3>1
    <3> QED BY <2>1, <2>6, <2>9, <3>3, <3>4, <3>5 DEF Leads
  <2>10. CASE t \notin Stops /\ ~IsJoinSatisfied(t, snap)
    <3>1. IsGateway(t)
      BY <2>2, <2>10, StagedTypes
    <3>2. f[1] = Walked(empty, none, only, <<>>)
      <4>1. f[1] = Visit(Walked(<<t>>, none, {}, <<>>), variables, snap)
        BY <1>5, <2>4, <2>8
      <4>2. Visit(Walked(<<t>>, none, {}, empty), variables, snap) = Walked(<<>>, none, {t}, empty)
        <5> HIDE DEF just, only
        <5> QED BY <2>10, <3>1, VisitShut
      <4> QED BY <1>5, <4>1, <4>2
    <3>3. 1 \in Nat /\ 1 + Len(empty) <= N
      BY <1>5, <2>5
    <3> HIDE DEF only
    <3>4. /\ dec.skipped = <<>> /\ dec.blocked = (only # {}) /\ dec.ready \in Seq(Stops)
          /\ ToSet(dec.ready) = ToSet(empty)
      <4>1. empty \in Seq(Stops)
        BY <1>5
      <4>2. 1 \in Nat /\ f[1] = Walked(empty, none, only, <<>>)
        BY <3>2, <3>3
      <4> QED BY <3>3, <4>1, <4>2, <1>drain
    <3>5. IsJoin(t) /\ \E m \in Preceding[t] : ~IsPassed(m, snap)
      BY <2>2, <2>10, JoinSatisfied
    <3>6. Preceding[t] \subseteq Stage(pos, n) \ {StartNode}
      BY <2>1, <2>10, <3>5 DEF Onward
    <3>7. \E m \in Stage(pos, n) : m # StartNode /\ ~IsPassed(m, snap)
      BY <3>5, <3>6
    <3> QED BY <2>7, <3>4, <3>7 DEF Leads
  <2>11. CASE t \notin Stops /\ IsJoinSatisfied(t, snap)
    <3>1. \A m \in Stage(pos, n) : m = n \/ IsPassed(m, snap)
      <4>1. Stage(pos, n) = {n} \/ (IsJoin(t) /\ Stage(pos, n) \subseteq Preceding[t])
        BY <2>1, <2>11 DEF Onward
      <4> QED BY <2>2, <2>11, <4>1, JoinSatisfied
    <3>2. IsGateway(t)
      BY <2>2, <2>11, StagedTypes
    <3>3. /\ Targets(t, variables) = TargetsOf(OutEdges[t])
          /\ Targets(t, variables) \in Seq(After(t))
          /\ Len(Targets(t, variables)) = Len(OutEdges[t])
          /\ ToSet(Targets(t, variables)) = After(t)
      BY <2>2, <2>11, GatewayTargets
    <3>4. f[1] = Walked(Targets(t, variables), only, none, <<>>)
      <4>1. f[1] = Visit(Walked(<<t>>, none, {}, <<>>), variables, snap)
        BY <1>5, <2>4, <2>8
      <4>2. SkippedTargets(t, variables) = <<>> /\ none \cup {t} = only /\ t \notin none
        BY <1>5, <2>2, StagedTypes
      <4>3. Visit(Walked(<<t>>, none, {}, empty), variables, snap)
              = Walked(Targets(t, variables), none \cup {t}, {}, empty)
        <5> DEFINE X == After(t)
        <5> HIDE DEF just, only, X
        <5>1. Targets(t, variables) \in Seq(X)
          BY <3>3 DEF X
        <5> QED BY <2>11, <3>2, <4>2, <5>1, VisitOpen
      <4> QED BY <1>5, <4>1, <4>2, <4>3
    <3> HIDE DEF just, only
    <3>5. ASSUME NEW g \in Nodes \ Stops, Fans(pos, g), NEW k \in Nat, NEW opened,
                 f[k] = Walked(Targets(g, variables), opened, none, <<>>),
                 k + Len(OutEdges[g]) <= N,
                 pos[n] < pos[g], \A y \in Stops : pos[y] < pos[g] => pos[y] <= pos[n]
          PROVE  Leads(pos, n, snap, dec)
      <4>1. /\ Targets(g, variables) \in Seq(After(g))
            /\ Len(Targets(g, variables)) = Len(OutEdges[g])
            /\ ToSet(Targets(g, variables)) = After(g)
        BY <3>5, GatewayTargets
      <4>2. After(g) \subseteq Stops
        BY <3>5 DEF Fans
      <4> DEFINE q == Targets(g, variables)
      <4>3. q \in Seq(Stops) /\ k + Len(q) <= N
        BY <3>5, <4>1, <4>2
      <4>4. f[k] = Walked(q, opened, none, <<>>) /\ ToSet(q) = After(g)
        BY <3>5, <4>1
      <4> HIDE DEF q
      <4>5. /\ dec.skipped = <<>> /\ dec.blocked = (none # {}) /\ dec.ready \in Seq(Stops)
            /\ ToSet(dec.ready) = ToSet(q)
        BY <4>3, <4>4, <1>drain
      <4>6. ~dec.blocked
        BY <1>5, <4>5
      <4> DEFINE r == dec.ready
      <4>7. ASSUME r # <<>>
            PROVE  \E x \in Stops :
                     /\ r \in Seq(Stops) /\ ToSet(r) = Stage(pos, x)
                     /\ pos[n] < pos[x] /\ \A y \in Stops : pos[y] < pos[x] => pos[y] <= pos[n]
        <5> DEFINE x == r[1]
        <5>1. r \in Seq(Stops) /\ ToSet(r) = After(g)
          BY <4>4, <4>5
        <5> HIDE DEF r
        <5>2. x \in After(g)
          BY <4>7, <5>1 DEF ToSet
        <5> HIDE DEF x
        <5>3. x \in Stops /\ After(g) = Stage(pos, x)
          BY <3>5, <5>2, FanIsStage
        <5>4. pos[g] < pos[x] /\ \A y \in Stops : ~(pos[g] < pos[y] /\ pos[y] < pos[x])
          BY <3>5, <5>2 DEF Staged
        <5>5. \A y \in Stops : pos[g] # pos[y]
          BY <3>5 DEF Staged
        <5>6. pos[g] \in Nat /\ pos[n] \in Nat /\ pos[x] \in Nat /\ \A y \in Stops : pos[y] \in Nat
          BY <1>2, <2>3, <5>3
        <5>7. \A y \in Stops : pos[y] < pos[x] => pos[y] <= pos[n]
          BY <3>5, <5>4, <5>5, <5>6
        <5>8. pos[n] < pos[x]
          BY <3>5, <5>4, <5>6
        <5> QED BY <5>1, <5>3, <5>7, <5>8
      <4> QED BY <3>1, <4>5, <4>6, <4>7 DEF Leads
    <3>6. CASE Fans(pos, t)
      <4>1. 1 + Len(OutEdges[t]) <= N
        <5> DEFINE En == {e \in ToSet(Edges) : e.source = n}
                   Et == {e \in ToSet(Edges) : e.source = t}
                   Eh == {}
        <5>1. OutEdges[n] = Among(Edges, En) /\ OutEdges[t] = Among(Edges, Et)
          BY <1>2, <2>2, OutEdgesOf
        <5>2. En \cap Et = {} /\ En \cap Eh = {} /\ Et \cap Eh = {}
          BY <2>11
        <5> HIDE DEF En, Et, Eh
        <5>3. Len(Among(Edges, En)) + Len(Among(Edges, Et)) + Len(Among(Edges, Eh)) <= N
          BY <5>2, <1>three
        <5>4. Len(Among(Edges, En)) = 1
          BY <1>7, <5>1
        <5>5. Len(Among(Edges, Et)) \in Nat /\ Len(Among(Edges, Eh)) \in Nat
          BY <1>counts
        <5> QED BY <1>1, <5>1, <5>3, <5>4, <5>5
      <4>2. 1 \in Nat /\ t \in Nodes \ Stops
        BY <2>2, <2>11
      <4> QED BY <2>1, <2>6, <3>4, <3>5, <3>6, <4>1, <4>2
    <3>7. ASSUME NEW h \in Nodes \ Stops, TargetsOf(OutEdges[t]) = <<h>>, ~IsJoin(h), Fans(pos, h)
          PROVE  Leads(pos, n, snap, dec)
      <4>1. h \in After(t) /\ Len(OutEdges[t]) = 1
        <5>1. Len(<<h>>) = 1 /\ ToSet(<<h>>) = {h}
          BY DEF ToSet
        <5> QED BY <3>3, <3>7, <5>1
      <4>2. pos[t] < pos[h] /\ \A y \in Stops : ~(pos[t] < pos[y] /\ pos[y] < pos[h])
        BY <2>2, <4>1 DEF Staged
      <4>3. \A y \in Stops : pos[t] # pos[y]
        BY <2>2, <2>11 DEF Staged
      <4>4. pos[n] < pos[h] /\ \A y \in Stops : pos[y] < pos[h] => pos[y] <= pos[n]
        BY <1>2, <2>1, <2>2, <2>3, <2>6, <4>2, <4>3
      <4>5. h # t /\ n # t /\ n # h
        BY <1>2, <2>1, <2>2, <2>11, <4>2
      <4>6. 2 + Len(OutEdges[h]) <= N /\ Len(OutEdges[h]) \in Nat
        <5> DEFINE En == {e \in ToSet(Edges) : e.source = n}
                   Et == {e \in ToSet(Edges) : e.source = t}
                   Eh == {e \in ToSet(Edges) : e.source = h}
        <5>1. /\ OutEdges[n] = Among(Edges, En) /\ OutEdges[t] = Among(Edges, Et)
              /\ OutEdges[h] = Among(Edges, Eh)
          BY <1>2, <2>2, OutEdgesOf
        <5>2. En \cap Et = {} /\ En \cap Eh = {} /\ Et \cap Eh = {}
          BY <4>5
        <5> HIDE DEF En, Et, Eh
        <5>3. Len(Among(Edges, En)) + Len(Among(Edges, Et)) + Len(Among(Edges, Eh)) <= N
          BY <5>2, <1>three
        <5>4. Len(Among(Edges, En)) = 1 /\ Len(Among(Edges, Et)) = 1
          BY <1>7, <4>1, <5>1
        <5>5. Len(Among(Edges, Eh)) \in Nat
          BY <1>counts
        <5> QED BY <1>1, <5>1, <5>3, <5>4, <5>5
      <4> DEFINE both == only \cup {h}
      <4>7. f[2] = Walked(Targets(h, variables), both, none, <<>>)
        <5>1. 1 < N
          BY <1>1, <4>6
        <5>2. f[2] = Visit(Walked(<<h>>, only, {}, <<>>), variables, snap)
          BY <1>4, <1>5, <3>3, <3>4, <3>7, <5>1
        <5>3. IsGateway(h) /\ SkippedTargets(h, variables) = <<>> /\ h \notin only
          BY <4>5, StagedTypes DEF only
        <5>4. IsJoinSatisfied(h, snap)
          BY <3>7 DEF IsJoinSatisfied
        <5>5. Visit(Walked(<<h>>, only, {}, empty), variables, snap)
                = Walked(Targets(h, variables), only \cup {h}, {}, empty)
          <6> DEFINE X == After(h)
          <6>1. Targets(h, variables) \in Seq(X)
            BY GatewayTargets
          <6> HIDE DEF X
          <6> QED BY <5>3, <5>4, <6>1, VisitOpen
        <5> QED BY <1>5, <5>2, <5>5
      <4> HIDE DEF both
      <4>8. 2 \in Nat
        OBVIOUS
      <4> QED BY <3>5, <3>7, <4>4, <4>6, <4>7, <4>8
    <3>8. Fans(pos, t) \/ \E h \in Nodes \ Stops : TargetsOf(OutEdges[t]) = <<h>> /\ ~IsJoin(h) /\ Fans(pos, h)
      BY <2>1, <2>11 DEF Onward
    <3> QED BY <3>6, <3>7, <3>8
  <2> QED BY <2>9, <2>10, <2>11
<1>8. \/ Targets(n, variables) = <<>>
      \/ /\ Len(OutEdges[n]) = 1
         /\ \E t \in After(n) : Targets(n, variables) = <<t>>
  BY StopTargets
<1>9. Leads(pos, n, snap, dec)
  <2>1. CASE \E t \in After(n) : Targets(n, variables) = <<t>> /\ Len(OutEdges[n]) = 1
    <3>1. PICK t \in After(n) : Targets(n, variables) = <<t>> /\ Len(OutEdges[n]) = 1
      BY <2>1
    <3> QED BY <1>7, <3>1, Zenon
  <2> QED BY <1>6, <1>8, <2>1
<1> QED BY <1>9 DEF dec

(***************************************************************************)
(* What a snapshot says of a node depends on the tasks of that node alone.  *)
(***************************************************************************)
LEMMA SameTasks ==
  ASSUME NEW snap, NEW new, NEW n,
         TasksOf(n, new) = TasksOf(n, snap), \A k \in TasksOf(n, snap) : new[k] = snap[k]
  PROVE  /\ IsPassed(n, new) <=> IsPassed(n, snap)
         /\ Settled(n, new) <=> Settled(n, snap)
         /\ \A b : Voting(n, b, new) <=> Voting(n, b, snap)
<1>1. LatestTasks(n, new) = LatestTasks(n, snap) /\ LatestTasks(n, snap) \subseteq TasksOf(n, snap)
  BY DEF LatestTasks
<1>2. IsPassed(n, new) <=> IsPassed(n, snap)
  BY <1>1 DEF IsPassed, IsSatisfied
<1>3. \A b : BatchTasks(n, b, new) = BatchTasks(n, b, snap) /\ BatchTasks(n, b, snap) \subseteq TasksOf(n, snap)
  BY DEF BatchTasks
<1>4. ASSUME NEW b PROVE Voting(n, b, new) <=> Voting(n, b, snap)
  BY <1>3 DEF Voting
<1>5. Settled(n, new) <=> Settled(n, snap)
  BY <1>2 DEF Settled
<1> QED BY <1>2, <1>4, <1>5

(* A snapshot of a process that is in round b.                              *)
Rounds(snap, b) ==
  \A k \in DOMAIN snap : k.batch \in Nat /\ k.batch <= b /\ (snap[k] = "pending" => k.batch = b)

LEMMA SessionRounds ==
  ASSUME NEW s, WellFormed(s), InRound(s)
  PROVE  Rounds(s.snap, s.batch) /\ s.batch \in Nat
BY EngineAssumption DEF WellFormed, InRound, Rounds, EngineAssumption

LEMMA LatestOfRound ==
  ASSUME NEW snap, NEW b \in Nat, Rounds(snap, b), NEW n, NEW k \in BatchTasks(n, b, snap)
  PROVE  LatestTasks(n, snap) = BatchTasks(n, b, snap)
<1>1. k \in TasksOf(n, snap) /\ k.batch = b
  BY DEF BatchTasks
<1>2. \A j \in TasksOf(n, snap) : j.batch \in Nat /\ j.batch <= b
  BY DEF TasksOf, Rounds
<1>3. ASSUME NEW j \in LatestTasks(n, snap) PROVE j \in BatchTasks(n, b, snap)
  <2>1. j \in TasksOf(n, snap) /\ k.batch <= j.batch
    BY <1>1 DEF LatestTasks
  <2>2. j.batch = b
    BY <1>1, <1>2, <2>1
  <2> QED BY <2>1, <2>2 DEF BatchTasks
<1>4. ASSUME NEW j \in BatchTasks(n, b, snap) PROVE j \in LatestTasks(n, snap)
  BY <1>2 DEF BatchTasks, LatestTasks
<1> QED BY <1>3, <1>4

(* A node where somebody is asked and nothing is decided has not agreed.    *)
LEMMA VotingIsOpen ==
  ASSUME NEW snap, NEW b \in Nat, Rounds(snap, b), NEW n \in Nodes, Voting(n, b, snap)
  PROVE  ~IsPassed(n, snap) /\ ~Settled(n, snap) /\ PendingTasks(snap) # {}
<1>1. PICK k \in BatchTasks(n, b, snap) : snap[k] = "pending"
  BY DEF Voting
<1>2. LatestTasks(n, snap) = BatchTasks(n, b, snap)
  BY <1>1, LatestOfRound
<1>3. ~IsPassed(n, snap)
  BY <1>1, <1>2 DEF Voting, IsPassed, IsSatisfied
<1>4. k \in PendingTasks(snap)
  BY <1>1 DEF PendingTasks, BatchTasks, TasksOf
<1> QED BY <1>3, <1>4 DEF Settled

(***************************************************************************)
(* The ends of a staged definition.                                         *)
(***************************************************************************)
LEMMA StageEnds ==
  ASSUME NEW pos, Staged(pos)
  PROVE  /\ StartNode \in Stops /\ Type[StartNode] = "START" /\ Stage(pos, StartNode) = {StartNode}
         /\ \A m \in Stops : m = StartNode \/ pos[StartNode] < pos[m]
         /\ \A m \in Stops : Type[m] = "START" => m = StartNode
         /\ \A n, m \in Stops : Type[m] = "END" => n = m \/ pos[n] < pos[m]
         /\ \A m \in Stops : m \in Nodes /\ pos[m] \in Nat
<1>1. StartNode \in Nodes /\ Type[StartNode] = "START" /\ \A m \in Nodes : Type[m] = "START" => m = StartNode
  BY DefinitionAssumption DEF DefinitionAssumption, Validate, StartNode
<1>2. StartNode \in Stops
  BY <1>1 DEF Stops, IsGateway
<1>3. \A m \in Stops : m \in Nodes /\ pos[m] \in Nat
  BY DEF Staged, Stops
<1>4. \A n, m \in Stops : Type[n] = "START" \/ Type[m] = "END" => n = m \/ pos[n] < pos[m]
  BY DEF Staged
<1>5. \A m \in Stops : m = StartNode \/ pos[StartNode] < pos[m]
  BY <1>1, <1>2, <1>4
<1>6. ASSUME NEW m \in Stage(pos, StartNode) PROVE m = StartNode
  <2>1. m \in Stops /\ pos[m] = pos[StartNode]
    BY <1>6 DEF Stage
  <2> QED BY <1>2, <1>3, <1>5, <2>1
<1>7. StartNode \in Stage(pos, StartNode)
  BY <1>2 DEF Stage
<1> QED BY <1>1, <1>2, <1>3, <1>4, <1>5, <1>6, <1>7

(* Tasks are at stops.                                                      *)
LEMMA TaskAtStop ==
  ASSUME NEW pos, Staged(pos), NEW snap, Assigned(snap), NEW k \in DOMAIN snap
  PROVE  k.node \in Stops /\ k.node \in Nodes /\ Type[k.node] \in {"START", "APPROVAL"}
BY DEF Assigned, Stops, IsGateway
(***************************************************************************)
(* A decision.  What it needs: the process stands at the place of n, and n  *)
(* is done, or is the start that nobody was asked at.                       *)
(***************************************************************************)
DoneAt(pos, n, b, snap) ==
  /\ AtStage(pos, pos[n], b, snap, {n})
  /\ Settled(n, snap) \/ (n = StartNode /\ PendingTasks(snap) = {})

LEMMA StageGoesOn ==
  ASSUME NEW pos, Staged(pos), NEW snap, Assigned(snap), NEW b \in Nat, Rounds(snap, b),
         NEW n \in Stops, DoneAt(pos, n, b, snap),
         \A m \in Stage(pos, n) : m = n \/ IsPassed(m, snap),
         NEW x \in Stops, pos[n] < pos[x], \A y \in Stops : pos[y] < pos[x] => pos[y] <= pos[n]
  PROVE  AtStage(pos, pos[x], b, snap, Stage(pos, x))
<1>1. \A m \in Stops : m \in Nodes /\ pos[m] \in Nat
  BY StageEnds
<1>2. \A m \in Stage(pos, n) : m = n \/ Settled(m, snap)
  <2>1. ASSUME NEW m \in Stage(pos, n), m # n PROVE Settled(m, snap)
    <3>1. m \in Stops /\ pos[m] = pos[n] /\ m \notin {n}
      BY <2>1 DEF Stage
    <3>2. Settled(m, snap) \/ Voting(m, b, snap)
      BY <3>1 DEF DoneAt, AtStage
    <3>3. IsPassed(m, snap) /\ m \in Nodes
      BY <1>1, <2>1, <3>1
    <3> QED BY <3>2, <3>3, VotingIsOpen
  <2> QED BY <2>1
<1>3. PendingTasks(snap) = {}
  <2> SUFFICES ASSUME NEW k \in PendingTasks(snap) PROVE FALSE
    OBVIOUS
  <2>1. k \in DOMAIN snap /\ snap[k] = "pending" /\ k \in TasksOf(k.node, snap)
    BY DEF PendingTasks, TasksOf
  <2>2. k.node \in Stops /\ pos[k.node] = pos[n]
    BY <2>1, TaskAtStop DEF DoneAt, AtStage
  <2>3. ~Settled(k.node, snap)
    BY <2>1 DEF Settled
  <2>4. k.node \in Stage(pos, n)
    BY <2>2 DEF Stage
  <2>5. k.node = n
    BY <1>2, <2>3, <2>4
  <2> QED BY <2>3, <2>5 DEF DoneAt
<1>4. ASSUME NEW m \in Nodes, Type[m] = "APPROVAL", pos[m] < pos[x] PROVE IsPassed(m, snap)
  <2>1. m \in Stops
    BY <1>4 DEF Stops, IsGateway
  <2>2. CASE pos[m] < pos[n]
    BY <1>4, <2>2 DEF DoneAt, AtStage
  <2>3. CASE pos[m] = pos[n]
    <3>1. m \in Stage(pos, n)
      BY <2>1, <2>3 DEF Stage
    <3>2. CASE m = n
      <4>1. n # StartNode
        BY <1>4, <3>2, StageEnds
      <4> QED BY <3>2, <4>1 DEF DoneAt, Settled
    <3> QED BY <3>1, <3>2
  <2>4. pos[m] <= pos[n] /\ pos[m] \in Nat /\ pos[n] \in Nat
    BY <1>1, <1>4, <2>1
  <2> QED BY <2>2, <2>3, <2>4
<1>5. ASSUME NEW m \in Stops, pos[m] = pos[x] PROVE m \in Stage(pos, x)
  BY <1>5 DEF Stage
<1> QED BY <1>3, <1>4, <1>5 DEF AtStage

LEMMA StageWaits ==
  ASSUME NEW pos, Staged(pos), NEW snap, NEW b \in Nat, Rounds(snap, b),
         NEW n \in Stops, DoneAt(pos, n, b, snap),
         NEW m \in Stage(pos, n), m # StartNode, ~IsPassed(m, snap)
  PROVE  AtStage(pos, pos[n], b, snap, {}) /\ PendingTasks(snap) # {}
<1>1. n # StartNode
  BY StageEnds
<1>2. Settled(n, snap)
  BY <1>1 DEF DoneAt
<1>3. AtStage(pos, pos[n], b, snap, {})
  <2>1. ASSUME NEW y \in Stops, pos[y] = pos[n] PROVE Settled(y, snap) \/ Voting(y, b, snap)
    <3>1. CASE y = n
      BY <1>2, <3>1
    <3>2. CASE y # n
      BY <2>1, <3>2 DEF DoneAt, AtStage
    <3> QED BY <3>1, <3>2
  <2> QED BY <2>1 DEF DoneAt, AtStage
<1>4. m \in Stops /\ pos[m] = pos[n]
  BY DEF Stage
<1>5. Voting(m, b, snap)
  BY <1>3, <1>4 DEF AtStage, Settled
<1>6. m \in Nodes
  BY <1>4 DEF Stops
<1> QED BY <1>3, <1>5, <1>6, VotingIsOpen

(* The agenda of nodes of one place.                                        *)
LEMMA AgendaOpens ==
  ASSUME NEW pos, Staged(pos), NEW x \in Stops, x # StartNode,
         NEW nodes \in Seq(Stops), nodes # <<>>, ToSet(nodes) \subseteq Stage(pos, x),
         NEW agenda, agenda = ActivateNodes(nodes) \o <<Save>>
  PROVE  Opens(pos, pos[x], agenda) /\ Coming(agenda) = ToSet(nodes) /\ Len(agenda) # 1
<1> DEFINE N == Len(nodes)
           ends == \A i \in DOMAIN nodes : ~IsWaitState(nodes[i])
           acts == ActivateNodes(nodes)
           I == Items(pos, pos[x])
<1>1. N \in Nat \ {0} /\ DOMAIN nodes = 1..N
  OBVIOUS
<1>2. \A i \in 1..N : nodes[i] \in Stage(pos, x)
  BY <1>1 DEF ToSet
<1>3. \A i \in 1..N : nodes[i] \in Stops /\ pos[nodes[i]] = pos[x]
  BY <1>2 DEF Stage
<1>4. ASSUME NEW i \in 1..N PROVE ends <=> Type[nodes[i]] = "END"
  <2>1. \A j \in 1..N : nodes[j] # StartNode
    BY <1>3, StageEnds
  <2>2. \A j \in 1..N : Type[nodes[j]] \in {"APPROVAL", "END"}
    <3> TAKE j \in 1..N
    <3>1. nodes[j] \in Stops /\ nodes[j] \in Nodes
      BY <1>3, StageEnds
    <3>2. Type[nodes[j]] \in {"START", "APPROVAL", "END"} /\ Type[nodes[j]] # "START"
      BY <2>1, <3>1, StagedTypes, StageEnds
    <3> QED BY <3>2
  <2>3. \A j \in 1..N : IsWaitState(nodes[j]) <=> Type[nodes[j]] # "END"
    BY <2>2 DEF IsWaitState
  <2>4. ASSUME Type[nodes[i]] = "END", NEW j \in 1..N PROVE nodes[j] = nodes[i]
    <3>1. nodes[i] \in Stops /\ nodes[j] \in Stops /\ pos[nodes[i]] = pos[nodes[j]] /\ pos[nodes[i]] \in Nat
      BY <1>3, StageEnds
    <3>2. nodes[j] = nodes[i] \/ pos[nodes[j]] < pos[nodes[i]]
      BY <2>4, <3>1, StageEnds
    <3> QED BY <3>1, <3>2
  <2> QED BY <1>1, <2>3, <2>4
<1>5. acts = [i \in 1..N |-> [do |-> "activate", node |-> nodes[i], ends |-> ends]]
  BY <1>1 DEF ActivateNodes
<1>6. \A i \in 1..N : acts[i] = Activation(nodes[i])
  BY <1>4, <1>5 DEF Activation
<1>7. \A i \in 1..N : acts[i] \in I /\ acts[i] # Save /\ acts[i].node = nodes[i]
  <2>1. \A i \in 1..N : acts[i] \in I
    BY <1>3, <1>6 DEF Items
  <2>2. \A i \in 1..N : acts[i].do = "activate" /\ acts[i].node = nodes[i]
    BY <1>5
  <2>3. Save.do = "save"
    BY DEF Save
  <2> QED BY <2>1, <2>2, <2>3
<1>8. acts \in Seq(I) /\ Len(acts) = N
  <2>1. acts = [i \in 1..N |-> acts[i]]
    BY <1>5
  <2>2. N \in Nat /\ \A i \in 1..N : acts[i] \in I
    BY <1>1, <1>7
  <2> HIDE DEF acts, I, N
  <2>3. acts \in [1..N -> I]
    BY <2>1, <2>2, Zenon
  <2> QED BY <2>2, <2>3
<1>9. <<Save>> \in Seq(I)
  BY DEF Items
<1> HIDE DEF N, ends, acts, I
<1>10. /\ agenda \in Seq(I) /\ Len(agenda) = N + 1 /\ agenda[N + 1] = Save
       /\ \A i \in 1..N : agenda[i] = acts[i]
  BY <1>1, <1>8, <1>9 DEF acts
<1>11. Len(agenda) - 1 = N /\ agenda # <<>> /\ Len(agenda) # 1
  BY <1>1, <1>10
<1>12. Opens(pos, pos[x], agenda)
  BY <1>7, <1>10, <1>11 DEF Opens, I
<1>13. Coming(agenda) = {nodes[i] : i \in 1..N}
  <2>1. Coming(agenda) = {agenda[i].node : i \in 1..N}
    BY <1>11 DEF Coming
  <2>2. \A i \in 1..N : agenda[i].node = nodes[i]
    BY <1>7, <1>10
  <2> QED BY <2>1, <2>2
<1> QED BY <1>1, <1>11, <1>12, <1>13 DEF ToSet
(***************************************************************************)
(* How a call goes on.                                                      *)
(***************************************************************************)
StageTables(pos, i) ==
  /\ Assigned(Snapshot(i))
  /\ inst[i].status = "finished" => Agreed(Snapshot(i))
  /\ Running(i) <=> PendingTasks(Snapshot(i)) # {}
  /\ \A k \in PendingTasks(Snapshot(i)) : AtStage(pos, pos[k.node], k.batch, Snapshot(i), {})

LEMMA StageInvParts ==
  ASSUME NEW pos
  PROVE  StageInv(pos) <=> /\ \A i \in Instances : StageTables(pos, i)
                           /\ \A c \in Callers : session[c] # Idle => StageSession(pos, session[c])
BY DEF StageInv, StageTables

LEMMA StageTablesKept ==
  ASSUME NEW pos, NEW i, StageTables(pos, i), Snapshot(i)' = Snapshot(i), inst'[i] = inst[i]
  PROVE  StageTables(pos, i)'
<1> DEFINE snap == Snapshot(i)
<1>1. Snapshot(i)' = snap /\ inst'[i].status = inst[i].status
  OBVIOUS
<1>2. /\ Assigned(snap) /\ (inst[i].status = "finished" => Agreed(snap))
      /\ inst[i].status = "running" <=> PendingTasks(snap) # {}
      /\ \A k \in PendingTasks(snap) : AtStage(pos, pos[k.node], k.batch, snap, {})
  BY DEF StageTables, Running
<1> HIDE DEF snap
<1> QED BY <1>1, <1>2 DEF StageTables, Running

LEMMA StageContinue ==
  ASSUME NEW pos, IInv, StageInv(pos), Transactional, NEW c \in Callers, NEW s, NEW keys,
         StageSession(pos, s), Continue(c, s, keys)
  PROVE  StageInv(pos)'
<1>1. tasks' = tasks /\ inst' = inst /\ session' = [session EXCEPT ![c] = s]
  BY DEF Continue, WriteThrough
<1>2. ASSUME NEW i \in Instances PROVE StageTables(pos, i)'
  <2>1. StageTables(pos, i)
    BY StageInvParts
  <2>2. Snapshot(i)' = Snapshot(i) /\ inst'[i] = inst[i]
    BY <1>1 DEF Snapshot
  <2> QED BY <2>1, <2>2, StageTablesKept
<1>3. \A d \in Callers : session'[d] = IF d = c THEN s ELSE session[d]
  BY <1>1 DEF IInv
<1>4. ASSUME NEW d \in Callers, session'[d] # Idle PROVE StageSession(pos, session'[d])
  BY <1>3, <1>4 DEF StageInv
<1> QED BY <1>2, <1>4 DEF StageInv, StageTables

LEMMA StageFail ==
  ASSUME NEW pos, IInv, StageInv(pos), Transactional, NEW c \in Callers, NEW s, NEW keys, Fail(c, s, keys)
  PROVE  StageInv(pos)'
<1>1. tasks' = tasks /\ inst' = inst /\ session' = [session EXCEPT ![c] = Idle]
  BY DEF Fail, WriteThrough
<1>2. ASSUME NEW i \in Instances PROVE StageTables(pos, i)'
  <2>1. StageTables(pos, i)
    BY StageInvParts
  <2>2. Snapshot(i)' = Snapshot(i) /\ inst'[i] = inst[i]
    BY <1>1 DEF Snapshot
  <2> QED BY <2>1, <2>2, StageTablesKept
<1>3. \A d \in Callers : session'[d] = IF d = c THEN Idle ELSE session[d]
  BY <1>1 DEF IInv
<1>4. ASSUME NEW d \in Callers, session'[d] # Idle PROVE StageSession(pos, session'[d])
  BY <1>3, <1>4 DEF StageInv
<1> QED BY <1>2, <1>4 DEF StageInv, StageTables

(* A session whose snapshot is open at a place, with the agenda for it.     *)
LEMMA OpeningSession ==
  ASSUME NEW pos, NEW s, s.do = "advance", s.status = "running", Assigned(s.snap),
         NEW n \in Stops, Opens(pos, pos[n], s.agenda),
         AtStage(pos, pos[n], s.batch, s.snap, Coming(s.agenda)),
         Len(s.agenda) = 1 => PendingTasks(s.snap) # {}
  PROVE  StageSession(pos, s)
BY DEF StageSession, Opening

(* The agenda that only saves.                                              *)
LEMMA JustSave ==
  ASSUME NEW pos, NEW p
  PROVE  Opens(pos, p, <<Save>>) /\ Coming(<<Save>>) = {} /\ Len(<<Save>>) = 1
<1> DEFINE a == <<Save>>
           I == Items(pos, p)
<1>1. Save \in I
  BY DEF Items
<1>2. Len(a) = 1 /\ a[1] = Save /\ a # <<>>
  OBVIOUS
<1> HIDE DEF I
<1>3. a \in Seq(I)
  BY <1>1
<1> HIDE DEF a
<1>4. 1..(Len(a) - 1) = {}
  BY <1>2
<1>5. Opens(pos, p, a)
  BY <1>2, <1>3, <1>4 DEF Opens, I
<1>6. Coming(a) = {}
  BY <1>4 DEF Coming
<1> QED BY <1>2, <1>5, <1>6 DEF a

LEMMA StageDecision ==
  ASSUME NEW pos, Staged(pos), IInv, StageInv(pos), Transactional, NEW c \in Callers, NEW s, NEW n \in Stops,
         NEW keys, WellFormed(s), InRound(s), s.status = "running", s.agenda = <<>>,
         Assigned(s.snap), DoneAt(pos, n, s.batch, s.snap),
         ApplyStepDecision(c, s, n, keys)
  PROVE  StageInv(pos)'
<1> DEFINE dec == ResolveNextStep(n, s.variables, s.snap)
           skips == {[node |-> dec.skipped[i], batch |-> s.batch, user |-> "system_skip", seq |-> i] :
                     i \in DOMAIN dec.skipped}
           T(saved) == AddTasks(s, saved, "skipped")
<1>1. Leads(pos, n, s.snap, dec)
  BY NextStage
<1>2. skips = {}
  BY <1>1 DEF Leads
<1> DEFINE none == {}
           t == T(none)
<1>3. \/ dec.blocked /\ Continue(c, Advance(t, <<Save>> \o t.agenda), keys)
      \/ ~dec.blocked /\ dec.ready = <<>> /\ Fail(c, t, keys)
      \/ /\ ~dec.blocked /\ dec.ready # <<>>
         /\ Continue(c, Advance(t, ActivateNodes(dec.ready) \o <<Save>> \o t.agenda), keys)
  <2>1. \A saved \in Attempted(IF Insertable(s, skips) THEN skips ELSE {}) : saved = none /\ keys \cup saved = keys
    BY <1>2 DEF Attempted
  <2> HIDE DEF none, skips, dec
  <2>2. PICK saved \in Attempted(IF Insertable(s, skips) THEN skips ELSE {}) :
          IF dec.blocked
              THEN Continue(c, Advance(T(saved), <<Save>> \o T(saved).agenda), keys \cup saved)
            ELSE IF dec.ready = <<>>
              THEN Fail(c, T(saved), keys \cup saved)
              ELSE Continue(c, Advance(T(saved), ActivateNodes(dec.ready) \o <<Save>> \o T(saved).agenda), keys \cup saved)
    BY DEF ApplyStepDecision, dec, skips
  <2>3. saved = none /\ keys \cup saved = keys
    BY <2>1, <2>2
  <2> QED BY <2>2, <2>3
<1>4. /\ WellFormed(t) /\ InRound(t) /\ t.status = "running" /\ t.batch = s.batch /\ t.agenda = <<>>
      /\ t.snap = s.snap
  <2>1. Insertable(s, none) /\ \A k \in none : k.batch = s.batch /\ k.batch \in 1..MaxBatch
    BY DEF Insertable
  <2> HIDE DEF none
  <2>2. /\ WellFormed(t) /\ InRound(t) /\ t.status = s.status /\ t.batch = s.batch /\ t.agenda = s.agenda
        /\ DOMAIN t.snap = DOMAIN s.snap \cup none
        /\ \A k \in DOMAIN t.snap : t.snap[k] = IF k \in DOMAIN s.snap THEN s.snap[k] ELSE "skipped"
    BY <2>1, AddTasksKeeps
  <2>3. DOMAIN t.snap = DOMAIN s.snap
    BY <2>2 DEF none
  <2> HIDE DEF t
  <2>4. t.snap = s.snap
    BY <2>2, <2>3 DEF WellFormed
  <2> QED BY <2>2, <2>4
<1> HIDE DEF t, skips, dec
<1>5. Rounds(s.snap, s.batch) /\ s.batch \in Nat
  BY SessionRounds
<1>6. CASE dec.blocked /\ Continue(c, Advance(t, <<Save>> \o t.agenda), keys)
  <2> DEFINE a == <<Save>>
             u == Advance(t, a)
  <2>1. <<Save>> \o t.agenda = a
    BY <1>4
  <2>2. Opens(pos, pos[n], a) /\ Coming(a) = {}
    BY JustSave
  <2> HIDE DEF a
  <2>3. /\ u.do = "advance" /\ u.agenda = a /\ u.status = "running" /\ u.batch = s.batch /\ u.snap = s.snap
    BY <1>4, AdvanceKeeps
  <2> HIDE DEF u
  <2>4. PICK m \in Stage(pos, n) : m # StartNode /\ ~IsPassed(m, s.snap)
    BY <1>1, <1>6 DEF Leads
  <2>5. AtStage(pos, pos[n], s.batch, s.snap, {}) /\ PendingTasks(s.snap) # {}
    BY <1>5, <2>4, StageWaits
  <2>6. StageSession(pos, u)
    BY <2>2, <2>3, <2>5, OpeningSession
  <2> QED BY <1>6, <2>1, <2>6, StageContinue DEF u
<1>7. CASE ~dec.blocked /\ dec.ready # <<>>
           /\ Continue(c, Advance(t, ActivateNodes(dec.ready) \o <<Save>> \o t.agenda), keys)
  <2> DEFINE a == ActivateNodes(dec.ready) \o <<Save>>
             u == Advance(t, a)
  <2>1. PICK x \in Stops :
          /\ dec.ready \in Seq(Stops) /\ ToSet(dec.ready) = Stage(pos, x)
          /\ pos[n] < pos[x] /\ \A y \in Stops : pos[y] < pos[x] => pos[y] <= pos[n]
    BY <1>1, <1>7 DEF Leads
  <2>2. \A m \in Stage(pos, n) : m = n \/ IsPassed(m, s.snap)
    BY <1>1, <1>7 DEF Leads
  <2>3. x # StartNode
    <3>1. n = StartNode \/ pos[StartNode] < pos[n]
      BY StageEnds
    <3>2. pos[StartNode] \in Nat /\ pos[n] \in Nat /\ pos[x] \in Nat
      BY StageEnds
    <3> QED BY <2>1, <3>1, <3>2
  <2>4. Opens(pos, pos[x], a) /\ Coming(a) = Stage(pos, x) /\ Len(a) # 1
    <3> DEFINE r == dec.ready
    <3>1. r \in Seq(Stops) /\ r # <<>> /\ ToSet(r) = Stage(pos, x)
      BY <1>7, <2>1
    <3>2. a = ActivateNodes(r) \o <<Save>>
      OBVIOUS
    <3> HIDE DEF r, a
    <3> QED BY <2>3, <3>1, <3>2, AgendaOpens
  <2>5. a \o t.agenda = a
    <3>1. a \in Seq(Items(pos, pos[x]))
      BY <2>4 DEF Opens
    <3> HIDE DEF a
    <3> QED BY <1>4, <3>1
  <2>6. Continue(c, u, keys)
    BY <1>7, <2>5
  <2> HIDE DEF a
  <2>7. u.do = "advance" /\ u.agenda = a /\ u.status = "running" /\ u.batch = s.batch /\ u.snap = s.snap
    BY <1>4, AdvanceKeeps
  <2> HIDE DEF u
  <2>8. AtStage(pos, pos[x], s.batch, s.snap, Stage(pos, x))
    BY <1>5, <2>1, <2>2, StageGoesOn
  <2>9. StageSession(pos, u)
    BY <2>4, <2>7, <2>8, OpeningSession
  <2> QED BY <2>6, <2>9, StageContinue
<1> QED BY <1>3, <1>6, <1>7, StageFail
(***************************************************************************)
(* The actions.                                                             *)
(***************************************************************************)
LEMMA StageStart ==
  ASSUME NEW pos, Staged(pos), IInv, StageInv(pos), Transactional,
         NEW c \in Callers, NEW i \in Instances, NEW v, Start(c, i, v)
  PROVE  StageInv(pos)'
<1> DEFINE s == [do |-> "advance", inst |-> i, key |-> Nowhere, batch |-> 1, snap |-> << >>,
                 status |-> "running", variables |-> v, agenda |-> <<>>]
<1>1. ApplyStepDecision(c, s, StartNode, {})
  BY DEF Start
<1>2. WellFormed(s) /\ InRound(s)
  BY StartSession
<1>3. s.status = "running" /\ s.agenda = <<>> /\ DOMAIN s.snap = {} /\ s.batch = 1
  OBVIOUS
<1> HIDE DEF s
<1>4. Assigned(s.snap) /\ PendingTasks(s.snap) = {}
  BY <1>3 DEF Assigned, PendingTasks
<1>5. \A m \in Stops : m \in Nodes /\ pos[m] \in Nat
  BY StageEnds
<1>6. \A m \in Nodes : Type[m] = "APPROVAL" => ~(pos[m] < pos[StartNode])
  <2> SUFFICES ASSUME NEW m \in Nodes, Type[m] = "APPROVAL", pos[m] < pos[StartNode] PROVE FALSE
    OBVIOUS
  <2>1. m \in Stops
    BY DEF Stops, IsGateway
  <2>2. StartNode \in Stops /\ (m = StartNode \/ pos[StartNode] < pos[m])
    BY <2>1, StageEnds
  <2> QED BY <1>5, <2>1, <2>2
<1>7. \A m \in Stops : pos[m] = pos[StartNode] => m = StartNode
  BY <1>5, StageEnds
<1>8. DoneAt(pos, StartNode, s.batch, s.snap)
  BY <1>4, <1>6, <1>7 DEF DoneAt, AtStage
<1>9. StartNode \in Stops
  BY StageEnds
<1> QED BY <1>1, <1>2, <1>3, <1>4, <1>8, <1>9, StageDecision

LEMMA StageLoadTask ==
  ASSUME NEW pos, IInv, StageInv(pos), Transactional, NEW c \in Callers, NEW k \in DOMAIN tasks, LoadTask(c, k)
  PROVE  StageInv(pos)'
<1> DEFINE i == tasks[k].inst
           s == [do |-> "decide", inst |-> i, key |-> k, batch |-> k.batch, snap |-> Snapshot(i),
                 status |-> inst[i].status, variables |-> inst[i].variables, agenda |-> <<>>]
<1>1. Continue(c, s, {})
  BY DEF LoadTask, Load, Continue, WriteThrough
<1>2. s.do = "decide" /\ s.key = k /\ s.batch = k.batch /\ s.snap = Snapshot(i) /\ s.agenda = <<>>
      /\ s.status = inst[i].status
  OBVIOUS
<1>3. s.status = "running" /\ k \in PendingTasks(Snapshot(i)) /\ i \in Instances
  BY DEF LoadTask, CanDecide, PendingTasks, Snapshot, IInv, TablesInv
<1> HIDE DEF s, i
<1>4. StageTables(pos, i)
  BY <1>3, StageInvParts
<1>5. Assigned(Snapshot(i)) /\ AtStage(pos, pos[k.node], k.batch, Snapshot(i), {})
  BY <1>3, <1>4 DEF StageTables
<1>6. StageSession(pos, s)
  BY <1>2, <1>3, <1>5 DEF StageSession
<1> QED BY <1>1, <1>6, StageContinue

LEMMA StageLoadInstance ==
  ASSUME NEW pos, IInv, StageInv(pos), Transactional, NEW c \in Callers, NEW i \in Instances, LoadInstance(c, i)
  PROVE  StageInv(pos)'
<1> DEFINE s == [do |-> "revoke", inst |-> i, key |-> Nowhere, batch |-> 1, snap |-> Snapshot(i),
                 status |-> inst[i].status, variables |-> inst[i].variables, agenda |-> <<>>]
<1>1. Continue(c, s, {})
  BY DEF LoadInstance, Load, Continue, WriteThrough
<1>2. s.do = "revoke" /\ s.snap = Snapshot(i) /\ s.status = "running"
  BY DEF LoadInstance
<1> HIDE DEF s
<1>3. Assigned(Snapshot(i))
  BY DEF StageInv
<1>4. StageSession(pos, s)
  BY <1>2, <1>3 DEF StageSession
<1> QED BY <1>1, <1>4, StageContinue

(* A session that is about to decide its task.                              *)
LEMMA StageDeciding ==
  ASSUME NEW pos, StageInv(pos), NEW c \in Callers, session[c].do = "decide"
  PROVE  LET s == session[c] IN
         /\ s.status = "running" /\ s.agenda = <<>> /\ Assigned(s.snap)
         /\ AtStage(pos, pos[s.key.node], s.batch, s.snap, {})
<1>1. session[c] # Idle
  BY DEF Idle
<1> QED BY <1>1 DEF StageInv, StageSession

(* A vote: the other nodes stay as they are, and the node of the vote is    *)
(* settled, or has others still to vote.                                    *)
LEMMA StageVote ==
  ASSUME NEW pos, Staged(pos), NEW snap, Assigned(snap), NEW b \in Nat, Rounds(snap, b),
         NEW k \in DOMAIN snap, snap[k] = "pending", AtStage(pos, pos[k.node], b, snap, {}),
         NEW voted, DOMAIN voted = DOMAIN snap,
         \A j \in DOMAIN snap : voted[j] = IF j \in {k} THEN "passed" ELSE snap[j],
         NEW new, DOMAIN new = DOMAIN snap,
         \A j \in DOMAIN snap : new[j] = IF j \in SkippedTasks(k, voted) THEN "skipped" ELSE voted[j]
  PROVE  /\ Assigned(new)
         /\ IF IsSatisfied(k.node, BatchTasks(k.node, k.batch, voted), voted)
              THEN DoneAt(pos, k.node, b, new)
              ELSE AtStage(pos, pos[k.node], b, new, {}) /\ PendingTasks(new) # {}
<1> DEFINE n == k.node
           skips == SkippedTasks(k, voted)
           keys == BatchTasks(n, b, snap)
<1>1. n \in Stops /\ n \in Nodes
  BY TaskAtStop
<1>2. k.batch = b
  BY DEF Rounds
<1>3. /\ BatchTasks(n, k.batch, voted) = keys /\ BatchTasks(n, b, new) = keys /\ k \in keys
      /\ keys \subseteq DOMAIN snap /\ TasksOf(n, new) = TasksOf(n, snap)
  BY <1>2 DEF BatchTasks, TasksOf
<1>4. /\ \A j \in skips : j \in keys /\ j # k /\ snap[j] = "pending"
      /\ Sign[n] = "ONE_VOTE" => \A j \in keys : j # k /\ snap[j] = "pending" => j \in skips
      /\ Sign[n] # "ONE_VOTE" => skips = {}
  BY <1>3 DEF SkippedTasks
<1>5. Sign[n] = "ONE_VOTE" \/ Sign[n] = "ALL_PASS"
  BY <1>1, DefinitionAssumption DEF DefinitionAssumption
<1>6. Rounds(new, b)
  BY DEF Rounds
<1>7. LatestTasks(n, new) = keys
  BY <1>3, <1>6, LatestOfRound
<1>8. Voting(n, b, snap)
  <2>1. Settled(n, snap) \/ Voting(n, b, snap)
    BY <1>1 DEF AtStage
  <2>2. ~Settled(n, snap)
    BY <1>3 DEF Settled, BatchTasks
  <2> QED BY <2>1, <2>2
<1>9. \A j \in keys : Sign[n] # "ONE_VOTE" => Live(snap[j])
  BY <1>8 DEF Voting
<1> HIDE DEF skips, keys
<1>10. new[k] = "passed" /\ voted[k] = "passed"
  BY <1>4 DEF skips
<1>11. \A j \in DOMAIN snap : new[j] = "pending" => snap[j] = "pending" /\ j # k /\ j \notin skips
  BY DEF skips
<1>12. Assigned(new)
  BY DEF Assigned
<1>13. ASSUME NEW m \in Nodes, m # n
       PROVE  /\ IsPassed(m, new) <=> IsPassed(m, snap)
              /\ Settled(m, new) <=> Settled(m, snap)
              /\ Voting(m, b, new) <=> Voting(m, b, snap)
  <2>1. TasksOf(m, new) = TasksOf(m, snap) /\ \A j \in TasksOf(m, snap) : new[j] = snap[j]
    BY <1>3, <1>4, <1>13 DEF TasksOf, BatchTasks, skips, keys
  <2> QED BY <2>1, SameTasks
<1>14. AtStage(pos, pos[n], b, new, {n})
  <2>1. \A j \in PendingTasks(new) : pos[j.node] = pos[n]
    BY <1>11 DEF PendingTasks, AtStage
  <2>2. \A m \in Nodes : Type[m] = "APPROVAL" /\ pos[m] < pos[n] => IsPassed(m, new)
    <3> TAKE m \in Nodes
    <3>1. HAVE Type[m] = "APPROVAL" /\ pos[m] < pos[n]
    <3>2. pos[n] \in Nat
      BY <1>1, StagedTypes
    <3>3. m # n
      BY <3>1, <3>2
    <3> QED BY <1>13, <3>1, <3>3 DEF AtStage
  <2>3. \A m \in Stops : pos[m] = pos[n] /\ m \notin {n} => Settled(m, new) \/ Voting(m, b, new)
    BY <1>13 DEF AtStage, Stops
  <2> QED BY <2>1, <2>2, <2>3 DEF AtStage
<1>15. CASE IsSatisfied(n, BatchTasks(n, k.batch, voted), voted)
  <2>1. IsPassed(n, new)
    <3>1. CASE Sign[n] = "ONE_VOTE"
      BY <1>3, <1>7, <1>10, <3>1 DEF IsPassed, IsSatisfied
    <3>2. CASE Sign[n] = "ALL_PASS"
      <4>1. \A j \in keys : voted[j] = "passed"
        BY <1>3, <1>15, <3>2 DEF IsSatisfied
      <4>2. \A j \in keys : new[j] = "passed"
        BY <1>3, <1>4, <3>2, <4>1 DEF skips
      <4> QED BY <1>3, <1>7, <3>2, <4>2 DEF IsPassed, IsSatisfied
    <3> QED BY <1>5, <3>1, <3>2
  <2>2. ASSUME NEW j \in TasksOf(n, new), new[j] = "pending" PROVE FALSE
    <3>1. j \in keys /\ j # k /\ snap[j] = "pending" /\ j \notin skips
      BY <1>3, <1>6, <1>11, <2>2 DEF Rounds, BatchTasks, TasksOf, keys
    <3>2. Sign[n] = "ALL_PASS"
      BY <1>4, <1>5, <3>1
    <3>3. voted[j] = "passed"
      BY <1>3, <1>15, <3>1, <3>2 DEF IsSatisfied
    <3> QED BY <1>3, <3>1, <3>3
  <2>3. Settled(n, new)
    BY <2>1, <2>2 DEF Settled
  <2> QED BY <1>12, <1>14, <1>15, <2>3 DEF DoneAt
<1>16. CASE ~IsSatisfied(n, BatchTasks(n, k.batch, voted), voted)
  <2>1. Sign[n] = "ALL_PASS"
    BY <1>3, <1>5, <1>10, <1>16 DEF IsSatisfied
  <2>2. PICK j \in keys : voted[j] # "passed"
    BY <1>3, <1>16, <2>1 DEF IsSatisfied
  <2>3. new[j] = "pending"
    <3>1. j # k /\ voted[j] = snap[j] /\ new[j] = voted[j]
      BY <1>3, <1>4, <1>10, <2>1, <2>2 DEF skips
    <3>2. Live(snap[j])
      BY <1>9, <2>1
    <3> QED BY <2>2, <3>1, <3>2 DEF Live
  <2>4. \A l \in keys : Live(new[l])
    <3> TAKE l \in keys
    <3>1. new[l] = voted[l] /\ Live(snap[l])
      BY <1>3, <1>4, <1>9, <2>1 DEF skips
    <3> QED BY <1>3, <3>1 DEF Live
  <2>5. Voting(n, b, new)
    BY <1>3, <2>1, <2>3, <2>4 DEF Voting
  <2>6. AtStage(pos, pos[n], b, new, {})
    BY <1>14, <2>5 DEF AtStage
  <2>7. j \in PendingTasks(new)
    BY <1>3, <2>3 DEF PendingTasks
  <2> QED BY <1>12, <1>16, <2>6, <2>7
<1> QED BY <1>15, <1>16
LEMMA StagePass ==
  ASSUME NEW pos, Staged(pos), IInv, StageInv(pos), Transactional, NEW c \in Callers, PassTask(c)
  PROVE  StageInv(pos)'
<1> DEFINE s == session[c]
           k == s.key
           p == SetStatus(s, {k}, "passed")
<1>1. /\ WellFormed(s) /\ InRound(s)
      /\ k \in DOMAIN s.snap /\ s.snap[k] = "pending"
  BY Deciding DEF PassTask
<1>2. s.status = "running" /\ s.agenda = <<>> /\ Assigned(s.snap) /\ AtStage(pos, pos[k.node], s.batch, s.snap, {})
  BY StageDeciding DEF PassTask
<1>3. PICK v : Pass(c, [p EXCEPT !.variables = v], k)
  BY DEF PassTask
<1>4. /\ WellFormed(p) /\ InRound(p) /\ p.status = s.status /\ p.batch = s.batch /\ p.agenda = s.agenda
      /\ DOMAIN p.snap = DOMAIN s.snap
      /\ \A j \in DOMAIN s.snap : p.snap[j] = IF j \in {k} THEN "passed" ELSE s.snap[j]
  BY <1>1, SetStatusKeeps
<1> HIDE DEF p
<1> DEFINE q == [p EXCEPT !.variables = v]
           skips == SkippedTasks(k, q.snap)
           t == SetStatus(q, skips, "skipped")
<1>5. /\ WellFormed(q) /\ InRound(q) /\ q.status = p.status /\ q.batch = p.batch /\ q.snap = p.snap
      /\ q.agenda = p.agenda
  BY <1>4, VariablesKeep
<1>6. IF IsSatisfied(k.node, BatchTasks(k.node, k.batch, q.snap), q.snap)
        THEN ApplyStepDecision(c, t, k.node, {k} \cup skips)
        ELSE Continue(c, Advance(t, <<Save>>), {k} \cup skips)
  BY <1>3 DEF Pass
<1> HIDE DEF q
<1>7. \A j \in skips \cap DOMAIN q.snap : q.snap[j] = "pending"
  BY DEF SkippedTasks
<1>8. /\ WellFormed(t) /\ InRound(t) /\ t.status = q.status /\ t.batch = q.batch /\ t.agenda = q.agenda
      /\ DOMAIN t.snap = DOMAIN q.snap
      /\ \A j \in DOMAIN q.snap : t.snap[j] = IF j \in skips THEN "skipped" ELSE q.snap[j]
  BY <1>5, <1>7, SetStatusKeeps
<1> HIDE DEF t
<1>9. Rounds(s.snap, s.batch) /\ s.batch \in Nat
  BY <1>1, SessionRounds
<1> DEFINE voted == q.snap
           new == t.snap
           b == s.batch
           snap == s.snap
           n == k.node
<1>10. /\ DOMAIN voted = DOMAIN snap /\ DOMAIN new = DOMAIN snap
       /\ \A j \in DOMAIN snap : voted[j] = IF j \in {k} THEN "passed" ELSE snap[j]
       /\ \A j \in DOMAIN snap : new[j] = IF j \in SkippedTasks(k, voted) THEN "skipped" ELSE voted[j]
  BY <1>4, <1>5, <1>8
<1>11. b \in Nat /\ Rounds(snap, b) /\ Assigned(snap) /\ AtStage(pos, pos[n], b, snap, {})
       /\ k \in DOMAIN snap /\ snap[k] = "pending"
  BY <1>1, <1>2, <1>9
<1>12. t.status = "running" /\ t.agenda = <<>> /\ t.batch = b /\ t.snap = new
  BY <1>2, <1>4, <1>5, <1>8
<1>13. IF IsSatisfied(n, BatchTasks(n, k.batch, voted), voted)
         THEN ApplyStepDecision(c, t, n, {k} \cup skips)
         ELSE Continue(c, Advance(t, <<Save>>), {k} \cup skips)
  BY <1>6
<1> HIDE DEF skips, voted, new, b, snap, k
<1>14. /\ Assigned(new)
       /\ IF IsSatisfied(n, BatchTasks(n, k.batch, voted), voted)
            THEN DoneAt(pos, n, b, new)
            ELSE AtStage(pos, pos[n], b, new, {}) /\ PendingTasks(new) # {}
  BY <1>10, <1>11, StageVote
<1>15. n \in Stops
  BY <1>11, TaskAtStop
<1> HIDE DEF n
<1>16. CASE IsSatisfied(n, BatchTasks(n, k.batch, voted), voted)
  BY <1>8, <1>12, <1>13, <1>14, <1>15, <1>16, StageDecision
<1>17. CASE ~IsSatisfied(n, BatchTasks(n, k.batch, voted), voted)
  <2> DEFINE a == <<Save>>
             u == Advance(t, a)
  <2>1. Opens(pos, pos[n], a) /\ Coming(a) = {}
    BY JustSave
  <2> HIDE DEF a
  <2>2. u.do = "advance" /\ u.agenda = a /\ u.status = "running" /\ u.batch = b /\ u.snap = new
    BY <1>8, <1>12, AdvanceKeeps
  <2> HIDE DEF u
  <2>3. StageSession(pos, u)
    BY <1>14, <1>15, <1>17, <2>1, <2>2, OpeningSession
  <2>4. Continue(c, u, {k} \cup skips)
    BY <1>13, <1>17 DEF u, a
  <2> QED BY <2>3, <2>4, StageContinue
<1> QED BY <1>16, <1>17

(* A process that is closed.                                                *)
LEMMA StageClose ==
  ASSUME NEW pos, IInv, StageInv(pos), Transactional, NEW c \in Callers, NEW s, NEW status, NEW keys,
         WellFormed(s), Assigned(s.snap), Closed(status), Close(c, s, status, keys)
  PROVE  StageInv(pos)'
<1> DEFINE t == [s EXCEPT !.status = status]
           u == Advance(t, <<Save>>)
<1>1. Continue(c, u, keys)
  BY DEF Close
<1>2. WellFormed(t) /\ t.snap = s.snap /\ t.status = status
  BY StatusKeeps
<1> HIDE DEF t
<1>3. u.do = "advance" /\ u.agenda = <<Save>> /\ u.status = status /\ u.snap = s.snap
  BY <1>2, AdvanceKeeps
<1> HIDE DEF u
<1>4. StageSession(pos, u)
  BY <1>3 DEF StageSession
<1> QED BY <1>1, <1>4, StageContinue

(* A process that asks its starter, in a round of its own.                  *)
LEMMA StageBackToStarter ==
  ASSUME NEW pos, Staged(pos), IInv, StageInv(pos), Transactional, NEW c \in Callers, NEW s, NEW b \in Nat \ {0}, NEW keys,
         WellFormed(s), s.status = "running", Assigned(s.snap), PendingTasks(s.snap) = {},
         \A k \in DOMAIN s.snap : k.batch < b,
         BackToStarter(c, s, b, keys)
  PROVE  StageInv(pos)'
<1> DEFINE n == StartNode
           new == KeysFor(n, <<Starter>>, b)
           u == [s EXCEPT !.batch = b]
           t == AddTasks(u, new, "pending")
           a == <<Save>>
           w == Advance(t, a)
<1>1. b \in 1..MaxBatch
  BY EngineAssumption DEF BackToStarter, EngineAssumption
<1>2. (Insertable(s, new) /\ Continue(c, w, keys \cup new)) \/ Fail(c, s, keys)
  BY DEF BackToStarter
<1>3. WellFormed(u) /\ u.status = s.status /\ u.batch = b /\ u.snap = s.snap
  BY <1>1, BatchKeeps
<1>4. \A k \in new : k.batch = b /\ k.node = n
  BY DEF KeysFor
<1>5. new # {}
  <2>1. DOMAIN <<Starter>> = {1}
    OBVIOUS
  <2> QED BY <2>1 DEF KeysFor
<1>6. /\ n \in Stops /\ n \in Nodes /\ Type[n] = "START"
      /\ \A m \in Stops : m \in Nodes /\ pos[m] \in Nat /\ (m = n \/ pos[n] < pos[m])
  BY StageEnds
<1>7. Opens(pos, pos[n], a) /\ Coming(a) = {}
  BY JustSave
<1> HIDE DEF u, n, new, a
<1>8. CASE Insertable(s, new) /\ Continue(c, w, keys \cup new)
  <2>1. Insertable(u, new) /\ new \cap DOMAIN u.snap = {}
    BY <1>3, <1>8 DEF Insertable
  <2>2. /\ WellFormed(t) /\ t.status = u.status /\ t.batch = u.batch
        /\ DOMAIN t.snap = DOMAIN u.snap \cup new
        /\ \A k \in DOMAIN t.snap : t.snap[k] = IF k \in DOMAIN u.snap THEN u.snap[k] ELSE "pending"
    BY <1>1, <1>3, <1>4, <2>1, AddTasksKeeps
  <2> HIDE DEF t
  <2> DEFINE snap == t.snap
  <2>3. /\ DOMAIN snap = DOMAIN s.snap \cup new /\ new \cap DOMAIN s.snap = {}
        /\ \A k \in new : snap[k] = "pending"
        /\ \A k \in DOMAIN s.snap : snap[k] # "pending" /\ k.batch # b
    <3>1. \A k \in DOMAIN s.snap : s.snap[k] # "pending"
      BY DEF PendingTasks
    <3>2. \A k \in DOMAIN s.snap : k.batch \in Nat
      BY EngineAssumption DEF WellFormed, EngineAssumption
    <3> QED BY <1>3, <2>1, <2>2, <3>1, <3>2
  <2>4. w.do = "advance" /\ w.agenda = a /\ w.status = "running" /\ w.batch = b /\ w.snap = snap
    BY <1>3, <2>2, AdvanceKeeps
  <2> HIDE DEF w, snap
  <2>5. PendingTasks(snap) = new
    BY <2>3 DEF PendingTasks
  <2>6. Assigned(snap)
    BY <1>4, <1>6, <2>3 DEF Assigned
  <2>7. BatchTasks(n, b, snap) = new
    BY <1>4, <2>3 DEF BatchTasks, TasksOf
  <2>8. Voting(n, b, snap)
    BY <1>5, <2>3, <2>7 DEF Voting, Live
  <2>9. AtStage(pos, pos[n], b, snap, {})
    <3>1. \A k \in PendingTasks(snap) : pos[k.node] = pos[n]
      BY <1>4, <2>5
    <3>2. \A m \in Nodes : Type[m] = "APPROVAL" => ~(pos[m] < pos[n])
      <4> SUFFICES ASSUME NEW m \in Nodes, Type[m] = "APPROVAL", pos[m] < pos[n] PROVE FALSE
        OBVIOUS
      <4>1. m \in Stops
        BY DEF Stops, IsGateway
      <4> QED BY <1>6, <4>1
    <3>3. \A m \in Stops : pos[m] = pos[n] => m = n
      BY <1>6
    <3> QED BY <2>8, <3>1, <3>2, <3>3 DEF AtStage
  <2>10. StageSession(pos, w)
    BY <1>5, <1>6, <1>7, <2>4, <2>5, <2>6, <2>9, OpeningSession
  <2> QED BY <1>8, <2>10, StageContinue
<1> QED BY <1>2, <1>8, StageFail
(* A process that goes back to a node whose stage is otherwise settled.     *)
LEMMA StageSendBack ==
  ASSUME NEW pos, Staged(pos), IInv, StageInv(pos), Transactional, NEW c \in Callers, NEW s, NEW n \in Nodes, NEW keys,
         WellFormed(s), InRound(s), s.status = "running", Assigned(s.snap), PendingTasks(s.snap) = {},
         Type[n] = "START" \/ Type[n] = "APPROVAL",
         Type[n] = "APPROVAL" =>
           /\ \A m \in Nodes : Type[m] = "APPROVAL" /\ pos[m] < pos[n] => IsPassed(m, s.snap)
           /\ \A m \in Stops : pos[m] = pos[n] /\ m # n => Settled(m, s.snap),
         SendBack(c, s, n, keys)
  PROVE  StageInv(pos)'
<1> DEFINE b == s.batch + 1
<1>1. b \in Nat \ {0} /\ \A k \in DOMAIN s.snap : k.batch < b /\ k.batch <= b
  BY EngineAssumption DEF WellFormed, InRound, EngineAssumption
<1>2. CASE Type[n] = "START"
  <2>1. BackToStarter(c, s, b, keys)
    BY <1>2 DEF SendBack
  <2> HIDE DEF b
  <2> QED BY <1>1, <2>1, StageBackToStarter
<1>3. CASE Type[n] = "APPROVAL"
  <2> DEFINE u == [s EXCEPT !.batch = b]
             nodes == <<n>>
             a == ActivateNodes(nodes) \o <<Save>>
             w == Advance(u, a)
  <2>1. b <= MaxBatch /\ Continue(c, w, keys)
    BY <1>3 DEF SendBack
  <2>2. b \in 1..MaxBatch
    BY <1>1, <2>1, EngineAssumption DEF EngineAssumption
  <2>3. n \in Stops /\ n # StartNode
    BY <1>3, StageEnds DEF Stops, IsGateway
  <2>4. nodes \in Seq(Stops) /\ nodes # <<>> /\ ToSet(nodes) = {n}
    BY <2>3 DEF ToSet
  <2>5. {n} \subseteq Stage(pos, n)
    BY <2>3 DEF Stage
  <2>6. a = ActivateNodes(nodes) \o <<Save>>
    OBVIOUS
  <2> HIDE DEF b, nodes, a
  <2>7. Opens(pos, pos[n], a) /\ Coming(a) = {n} /\ Len(a) # 1
    <3>1. ToSet(nodes) \subseteq Stage(pos, n)
      BY <2>4, <2>5
    <3>2. Opens(pos, pos[n], a) /\ Coming(a) = ToSet(nodes) /\ Len(a) # 1
      BY <2>3, <2>4, <2>6, <3>1, AgendaOpens
    <3> QED BY <2>4, <3>2
  <2>8. WellFormed(u) /\ u.status = s.status /\ u.batch = b /\ u.snap = s.snap
    BY <2>2, BatchKeeps
  <2> HIDE DEF u
  <2>9. w.do = "advance" /\ w.agenda = a /\ w.status = "running" /\ w.batch = b /\ w.snap = s.snap
    BY <2>8, AdvanceKeeps
  <2> HIDE DEF w
  <2>10. AtStage(pos, pos[n], b, s.snap, {n})
    BY <1>3 DEF AtStage
  <2>11. StageSession(pos, w)
    BY <2>3, <2>7, <2>9, <2>10, OpeningSession
  <2> QED BY <2>1, <2>11, StageContinue
<1> QED BY <1>2, <1>3

(* A rejection at a place leaves what comes before it as it was.            *)
LEMMA BeforeRejection ==
  ASSUME NEW pos, Staged(pos), NEW snap, NEW b, NEW n \in Stops, AtStage(pos, pos[n], b, snap, {}),
         NEW new, DOMAIN new = DOMAIN snap, PendingTasks(new) = {},
         \A k \in DOMAIN snap : snap[k] # "pending" => new[k] = snap[k],
         NEW m \in Nodes, Type[m] = "APPROVAL", pos[m] < pos[n]
  PROVE  IsPassed(m, new) /\ Settled(m, new)
<1>1. IsPassed(m, snap)
  BY DEF AtStage
<1>2. pos[m] \in Nat /\ pos[n] \in Nat
  BY StageEnds, StagedTypes
<1>3. \A k \in TasksOf(m, snap) : snap[k] # "pending"
  BY <1>2 DEF TasksOf, PendingTasks, AtStage
<1>4. TasksOf(m, new) = TasksOf(m, snap) /\ \A k \in TasksOf(m, snap) : new[k] = snap[k]
  BY <1>3 DEF TasksOf
<1>5. IsPassed(m, new)
  BY <1>1, <1>4, SameTasks
<1>6. \A k \in TasksOf(m, new) : new[k] # "pending"
  BY DEF PendingTasks, TasksOf
<1> QED BY <1>5, <1>6 DEF Settled

LEMMA StageReject ==
  ASSUME NEW pos, Staged(pos), IInv, StageInv(pos), Transactional, ~StatementsFail, NEW c \in Callers,
         \/ RejectAndTerminate(c)
         \/ \E n \in RejectTargets : RejectToTarget(c, n)
         \/ RejectUpstream(c)
  PROVE  StageInv(pos)'
<1> DEFINE s == session[c]
           siblings == Siblings(s.key, s.snap)
           t == Rejected(s, siblings)
           keys == {s.key} \cup siblings
           up == FindUpstreamApprovalNode[s.key.node]
<1>1. s.do = "decide"
  BY DEF RejectAndTerminate, RejectToTarget, RejectUpstream
<1>2. \/ Close(c, t, "rejected", keys)
      \/ \E n \in RejectTargets : CanRejectTo(n) /\ SendBack(c, t, n, keys)
      \/ up # Nowhere /\ SendBack(c, t, up, keys)
      \/ Fail(c, t, keys)
  <2>1. CASE RejectAndTerminate(c)
    BY <2>1 DEF RejectAndTerminate, Attempted
  <2>2. ASSUME NEW n \in RejectTargets, RejectToTarget(c, n)
        PROVE  (CanRejectTo(n) /\ SendBack(c, t, n, keys)) \/ Fail(c, t, keys)
    BY <2>2 DEF RejectToTarget, Attempted
  <2>3. CASE RejectUpstream(c)
    BY <2>3 DEF RejectUpstream, Attempted
  <2> QED BY <2>1, <2>2, <2>3
<1>3. /\ WellFormed(s) /\ InRound(s) /\ ~Closed(s.status)
      /\ s.key \in DOMAIN s.snap /\ s.snap[s.key] = "pending" /\ s.batch = s.key.batch
  BY <1>1, Deciding
<1>4. s.status = "running" /\ Assigned(s.snap) /\ AtStage(pos, pos[s.key.node], s.batch, s.snap, {})
  BY <1>1, StageDeciding
<1>5. /\ WellFormed(t) /\ InRound(t) /\ t.status = s.status /\ PendingTasks(t.snap) = {}
      /\ DOMAIN t.snap = DOMAIN s.snap
      /\ \A k \in DOMAIN s.snap : s.snap[k] # "pending" => t.snap[k] = s.snap[k]
  <2> HIDE DEF s
  <2> QED BY <1>3, RejectedKeeps
<1> DEFINE n0 == s.key.node
<1>6. n0 \in Stops /\ n0 \in Nodes
  BY <1>3, <1>4, TaskAtStop
<1> HIDE DEF t, keys, s
<1>7. Assigned(t.snap)
  BY <1>4, <1>5 DEF Assigned
<1>8. Closed("rejected")
  BY DEF Closed
<1>9. CASE Close(c, t, "rejected", keys)
  BY <1>5, <1>7, <1>8, <1>9, StageClose
<1>10. ASSUME NEW n \in RejectTargets, CanRejectTo(n), SendBack(c, t, n, keys) PROVE StageInv(pos)'
  <2>1. n \in Nodes /\ (Type[n] = "START" \/ Type[n] = "APPROVAL")
    BY <1>10, EngineAssumption DEF EngineAssumption, CanRejectTo
  <2>2. Stage(pos, n) = {n} /\ \A m \in Nodes : Type[m] = "APPROVAL" => pos[n] <= pos[m]
    BY <1>10 DEF Staged, Returns
  <2>3. \A m \in Nodes : pos[m] \in Nat
    BY DEF Staged
  <2>4. \A m \in Nodes : Type[m] = "APPROVAL" /\ pos[m] < pos[n] => IsPassed(m, t.snap)
    BY <2>1, <2>2, <2>3
  <2>5. \A m \in Stops : pos[m] = pos[n] /\ m # n => Settled(m, t.snap)
    BY <2>2 DEF Stage
  <2>6. t.status = "running"
    BY <1>4, <1>5
  <2> QED BY <1>5, <1>7, <1>10, <2>1, <2>4, <2>5, <2>6, StageSendBack
<1>11. CASE up # Nowhere /\ SendBack(c, t, up, keys)
  <2>1. up \in Nodes /\ Type[up] = "APPROVAL" /\ pos[up] < pos[n0]
    BY <1>6, <1>11 DEF Staged, Returns
  <2> HIDE DEF up, n0
  <2>2. \A m \in Nodes : pos[m] \in Nat
    BY DEF Staged
  <2>3. \A m \in Nodes : Type[m] = "APPROVAL" /\ pos[m] <= pos[up] => IsPassed(m, t.snap) /\ Settled(m, t.snap)
    <3> TAKE m \in Nodes
    <3>1. HAVE Type[m] = "APPROVAL" /\ pos[m] <= pos[up]
    <3>2. pos[m] < pos[n0]
      BY <1>6, <2>1, <2>2, <3>1
    <3>3. AtStage(pos, pos[n0], s.batch, s.snap, {})
      BY <1>4 DEF n0
    <3> QED BY <1>5, <1>6, <3>1, <3>2, <3>3, BeforeRejection
  <2>4. \A m \in Stops : pos[m] = pos[up] /\ m # up => Settled(m, t.snap)
    <3> TAKE m \in Stops
    <3>1. HAVE pos[m] = pos[up] /\ m # up
    <3>2. up \in Stops
      BY <2>1 DEF Stops, IsGateway
    <3>3. m \in Nodes /\ pos[m] \in Nat
      BY StageEnds
    <3>4. Type[m] \in {"START", "APPROVAL", "END"}
      BY <3>3, StagedTypes
    <3>5. Type[m] # "START"
      <4>1. m = StartNode => pos[m] < pos[up]
        BY <3>1, <3>2, StageEnds
      <4> QED BY <3>1, <3>3, <4>1, StageEnds
    <3>6. Type[m] # "END"
      <4>1. Type[m] = "END" => pos[up] < pos[m]
        BY <3>1, <3>2, StageEnds
      <4> QED BY <3>1, <3>3, <4>1
    <3> QED BY <2>3, <3>1, <3>3, <3>4, <3>5, <3>6
  <2>5. t.status = "running" /\ \A m \in Nodes : Type[m] = "APPROVAL" /\ pos[m] < pos[up] => IsPassed(m, t.snap)
    BY <1>4, <1>5, <2>1, <2>2, <2>3
  <2> QED BY <1>5, <1>7, <1>11, <2>1, <2>4, <2>5, StageSendBack
<1> QED BY <1>2, <1>9, <1>10, <1>11, StageFail

LEMMA StageRevoke ==
  ASSUME NEW pos, Staged(pos), IInv, StageInv(pos), Transactional, NEW c \in Callers, NEW back \in BOOLEAN, Revoke(c, back)
  PROVE  StageInv(pos)'
<1> DEFINE s == session[c]
           keys == PendingTasks(s.snap)
           t == SetStatus(s, keys, "cancelled")
           b == MaxBatchCode(s.snap) + 1
<1>1. s.do = "revoke" /\ (BackToStarter(c, t, b, keys) \/ Close(c, t, "cancelled", keys))
  BY DEF Revoke
<1>2. session[c] # Idle /\ WellFormed(s) /\ ~Closed(s.status)
  BY <1>1 DEF Idle, IInv, SessionInv
<1>3. s.status = "running" /\ Assigned(s.snap)
  BY <1>1, <1>2 DEF StageInv, StageSession
<1>4. /\ WellFormed(t) /\ t.status = s.status
      /\ DOMAIN t.snap = DOMAIN s.snap
      /\ \A k \in DOMAIN s.snap : t.snap[k] = IF k \in keys THEN "cancelled" ELSE s.snap[k]
  <2>1. \A k \in keys \cap DOMAIN s.snap : s.snap[k] = "pending"
    BY DEF PendingTasks
  <2> HIDE DEF s
  <2> QED BY <1>2, <2>1, SetStatusKeeps
<1>5. PendingTasks(t.snap) = {}
  BY <1>4 DEF PendingTasks
<1>6. b \in Nat \ {0} /\ \A k \in DOMAIN t.snap : k.batch < b
  <2>1. b \in Nat \ {0} /\ \A k \in DOMAIN s.snap : k.batch < b
    BY <1>2, RoundsOfSnapshot
  <2> HIDE DEF s, b
  <2> QED BY <1>4, <2>1
<1>7. Closed("cancelled")
  BY DEF Closed
<1> HIDE DEF s, t, b, keys
<1>8. Assigned(t.snap) /\ t.status = "running"
  BY <1>3, <1>4 DEF Assigned
<1> QED BY <1>1, <1>4, <1>5, <1>6, <1>7, <1>8, StageBackToStarter, StageClose

(***************************************************************************)
(* The agenda of a staged definition.                                       *)
(***************************************************************************)
(* Its first item is the last one, or opens a node, which is then done.     *)
LEMMA OpensNode ==
  ASSUME NEW pos, NEW p, NEW a, Opens(pos, p, a), Head(a) # Save
  PROVE  /\ \E n \in Stops : pos[n] = p /\ Head(a) = Activation(n)
         /\ Opens(pos, p, Tail(a))
         /\ Coming(a) = {Head(a).node} \cup Coming(Tail(a))
<1> DEFINE I == Items(pos, p)
           N == Len(a)
           b == Tail(a)
<1>1. /\ a \in Seq(I) /\ a # <<>> /\ a[N] = Save
      /\ \A j \in 1..(N - 1) : a[j] # Save
  BY DEF Opens
<1>2. \E n \in Stops : pos[n] = p /\ Head(a) = Activation(n)
  <2>1. Head(a) \in I
    <3> HIDE DEF I
    <3> QED BY <1>1
  <2> QED BY <2>1 DEF Items
<1> HIDE DEF I
<1>3. N \in Nat /\ N > 1 /\ Head(a) = a[1]
  BY <1>1
<1>4. b \in Seq(I) /\ Len(b) = N - 1 /\ \A j \in 1..(N - 1) : b[j] = a[j + 1]
  BY <1>1
<1> HIDE DEF N, b
<1>5. b # <<>> /\ b[Len(b)] = Save
  BY <1>1, <1>3, <1>4
<1>6. \A j \in 1..(Len(b) - 1) : b[j] # Save
  BY <1>1, <1>3, <1>4
<1>7. Opens(pos, p, b)
  BY <1>4, <1>5, <1>6 DEF Opens, I
<1>8. ASSUME NEW x \in Coming(a) PROVE x = Head(a).node \/ x \in Coming(b)
  <2>1. PICK j \in 1..(N - 1) : x = a[j].node
    BY DEF Coming, N
  <2>2. CASE j = 1
    BY <1>3, <2>1, <2>2
  <2>3. CASE j # 1
    <3>1. j - 1 \in 1..(Len(b) - 1) /\ b[j - 1] = a[j]
      BY <1>3, <1>4, <2>1, <2>3
    <3> QED BY <2>1, <3>1 DEF Coming
  <2> QED BY <2>2, <2>3
<1>9. ASSUME NEW x \in Coming(b) PROVE x \in Coming(a)
  <2>1. PICK j \in 1..(Len(b) - 1) : x = b[j].node
    BY DEF Coming
  <2>2. j + 1 \in 1..(N - 1) /\ a[j + 1] = b[j]
    BY <1>3, <1>4, <2>1
  <2> QED BY <2>1, <2>2 DEF Coming, N
<1>10. Head(a).node \in Coming(a)
  <2>1. 1 \in 1..(N - 1)
    BY <1>3
  <2> QED BY <1>3, <2>1 DEF Coming, N
<1> QED BY <1>2, <1>7, <1>8, <1>9, <1>10 DEF b

LEMMA OpensSave ==
  ASSUME NEW pos, NEW p, NEW a, Opens(pos, p, a), Head(a) = Save
  PROVE  Len(a) = 1 /\ Coming(a) = {}
<1> DEFINE I == Items(pos, p)
           N == Len(a)
<1>1. a \in Seq(I) /\ a # <<>> /\ \A j \in 1..(N - 1) : a[j] # Save
  BY DEF Opens
<1> HIDE DEF I
<1>2. N \in Nat /\ N > 0 /\ a[1] = Save
  BY <1>1
<1> HIDE DEF N
<1>3. N = 1
  <2>1. N > 1 => 1 \in 1..(N - 1)
    BY <1>2
  <2> QED BY <1>1, <1>2, <2>1
<1>4. 1..(N - 1) = {}
  BY <1>3
<1> QED BY <1>3, <1>4 DEF Coming, N

(* What comes is of the place that is opened.                               *)
LEMMA ComingOfPlace ==
  ASSUME NEW pos, NEW p, NEW a, Opens(pos, p, a), NEW x \in Coming(a)
  PROVE  x \in Stops /\ pos[x] = p
<1> DEFINE I == Items(pos, p)
           N == Len(a)
<1>1. a \in Seq(I) /\ \A j \in 1..(N - 1) : a[j] # Save
  BY DEF Opens
<1> HIDE DEF I
<1>2. PICK j \in 1..(N - 1) : x = a[j].node
  BY DEF Coming
<1>3. a[j] \in I /\ a[j] # Save
  BY <1>1, <1>2
<1>4. PICK n \in Stops : pos[n] = p /\ a[j] = Activation(n)
  BY <1>3 DEF I, Items
<1>5. a[j].node = n
  BY <1>4 DEF Activation
<1> QED BY <1>2, <1>4, <1>5

(* A session that is about to activate a node.                              *)
LEMMA StageAtNode ==
  ASSUME NEW pos, Staged(pos), IInv, StageInv(pos), Transactional, NEW c \in Callers, NEW type, AtNode(c, type)
  PROVE  LET s == session[c]
             n == Head(s.agenda).node
         IN  /\ n \in Stops /\ n \in Nodes /\ Type[n] = type /\ type \in {"START", "APPROVAL", "END"}
             /\ Head(s.agenda).ends <=> type = "END"
             /\ Assigned(s.snap)
             /\ Opening(pos, pos[n], s)
             /\ Opens(pos, pos[n], Tail(s.agenda))
             /\ Coming(s.agenda) = {n} \cup Coming(Tail(s.agenda))
<1> DEFINE s == session[c]
           n == Head(s.agenda).node
<1>1. s.do = "advance" /\ Head(s.agenda).do = "activate" /\ Type[n] = type
  BY DEF AtNode
<1>2. s # Idle
  BY <1>1 DEF Idle
<1>3. Head(s.agenda) # Save
  BY <1>1 DEF Save
<1>4. s.agenda # <<Save>>
  <2>1. Head(<<Save>>) = Save
    OBVIOUS
  <2> QED BY <1>3, <2>1
<1>5. Assigned(s.snap) /\ \E p \in {pos[m] : m \in Stops} : Opening(pos, p, s)
  BY <1>1, <1>2, <1>4 DEF StageInv, StageSession
<1>6. PICK p : Opening(pos, p, s)
  BY <1>5
<1>7. Opens(pos, p, s.agenda)
  BY <1>6 DEF Opening
<1>8. /\ \E m \in Stops : pos[m] = p /\ Head(s.agenda) = Activation(m)
      /\ Opens(pos, p, Tail(s.agenda))
      /\ Coming(s.agenda) = {n} \cup Coming(Tail(s.agenda))
  BY <1>3, <1>7, OpensNode
<1>9. PICK m \in Stops : pos[m] = p /\ Head(s.agenda) = Activation(m)
  BY <1>8
<1>10. n = m /\ Head(s.agenda).ends = (Type[m] = "END")
  BY <1>9 DEF Activation
<1>11. type \in {"START", "APPROVAL", "END"} /\ n \in Nodes
  BY <1>1, <1>9, <1>10, StagedTypes, StageEnds
<1> QED BY <1>1, <1>5, <1>6, <1>8, <1>9, <1>10, <1>11

(* The nodes of other types than these are never opened.                    *)
LEMMA StageNoOther ==
  ASSUME NEW pos, Staged(pos), IInv, StageInv(pos), Transactional, NEW c \in Callers
  PROVE  ~AtNode(c, "CC") /\ ~AtNode(c, "TASK")
<1>1. ASSUME NEW type, AtNode(c, type) PROVE type \in {"START", "APPROVAL", "END"}
  BY <1>1, StageAtNode
<1> QED BY <1>1

(* The tasks a node that is opened gets are its first in the round.         *)
LEMMA StageOpened ==
  ASSUME NEW pos, Staged(pos), NEW n \in Stops, Type[n] = "APPROVAL", NEW b,
         NEW snap, Assigned(snap), NEW rest,
         AtStage(pos, pos[n], b, snap, {n} \cup rest),
         NEW new, new = KeysFor(n, Assignees[n], b), new # {}, new \cap DOMAIN snap = {},
         NEW w, DOMAIN w = DOMAIN snap \cup new,
         \A k \in DOMAIN w : w[k] = IF k \in DOMAIN snap THEN snap[k] ELSE "pending"
  PROVE  Assigned(w) /\ AtStage(pos, pos[n], b, w, rest) /\ PendingTasks(w) # {}
<1>1. \A k \in new : k.node = n /\ k.batch = b
  BY DEF KeysFor
<1>2. n \in Nodes
  BY StageEnds
<1>3. \A k \in new : k \in DOMAIN w /\ w[k] = "pending"
  OBVIOUS
<1>4. \A k \in DOMAIN snap : k \in DOMAIN w /\ w[k] = snap[k]
  OBVIOUS
<1>5. Assigned(w)
  <2>1. ASSUME NEW k \in DOMAIN w 
        PROVE  /\ k.node \in Nodes
               /\ \/ Type[k.node] = "START"
                  \/ Type[k.node] = "APPROVAL" /\ k \in KeysFor(k.node, Assignees[k.node], k.batch)
    <3>1. CASE k \in new
      BY <1>1, <1>2, <3>1
    <3>2. CASE k \in DOMAIN snap
      BY <3>2 DEF Assigned
    <3> QED BY <2>1, <3>1, <3>2
  <2> QED BY <2>1 DEF Assigned
<1>6. BatchTasks(n, b, w) = new
  <2>1. ASSUME NEW k \in DOMAIN snap, k.node = n, k.batch = b PROVE FALSE
    <3>1. k \in new
      BY <2>1 DEF Assigned
    <3> QED BY <3>1
  <2> QED BY <1>1, <2>1 DEF BatchTasks, TasksOf
<1>7. Voting(n, b, w)
  BY <1>3, <1>6 DEF Voting, Live
<1>8. PendingTasks(w) # {}
  BY <1>3 DEF PendingTasks
<1>9. ASSUME NEW m, m # n
      PROVE  /\ IsPassed(m, w) <=> IsPassed(m, snap)
             /\ Settled(m, w) <=> Settled(m, snap)
             /\ Voting(m, b, w) <=> Voting(m, b, snap)
  <2>1. TasksOf(m, w) = TasksOf(m, snap)
    BY <1>1, <1>4, <1>9 DEF TasksOf
  <2>2. \A k \in TasksOf(m, snap) : w[k] = snap[k]
    BY <1>4 DEF TasksOf
  <2> QED BY <2>1, <2>2, SameTasks
<1>10. ASSUME NEW k \in PendingTasks(w) PROVE pos[k.node] = pos[n]
  <2>1. CASE k \in new
    BY <1>1, <2>1
  <2>2. CASE k \in DOMAIN snap
    BY <1>4, <1>10, <2>2 DEF PendingTasks, AtStage
  <2> QED BY <1>10, <2>1, <2>2 DEF PendingTasks
<1>11. ASSUME NEW m \in Nodes, Type[m] = "APPROVAL", pos[m] < pos[n] PROVE IsPassed(m, w)
  <2>1. m # n
    <3>1. pos[n] \in Nat
      BY StageEnds
    <3> QED BY <1>11, <3>1
  <2>2. IsPassed(m, snap)
    BY <1>11 DEF AtStage
  <2> QED BY <1>9, <2>1, <2>2
<1>12. ASSUME NEW m \in Stops, pos[m] = pos[n], m \notin rest PROVE Settled(m, w) \/ Voting(m, b, w)
  <2>1. CASE m = n
    BY <1>7, <2>1
  <2>2. CASE m # n
    <3>1. Settled(m, snap) \/ Voting(m, b, snap)
      BY <1>12, <2>2 DEF AtStage
    <3> QED BY <1>9, <2>2, <3>1
  <2> QED BY <2>1, <2>2
<1> QED BY <1>5, <1>8, <1>10, <1>11, <1>12 DEF AtStage

LEMMA StageActivateApproval ==
  ASSUME NEW pos, Staged(pos), IInv, StageInv(pos), Transactional, NEW c \in Callers, ActivateApproval(c)
  PROVE  StageInv(pos)'
<1> DEFINE s == session[c]
           u == Done(s)
           n == Head(s.agenda).node
           new == KeysFor(n, Assignees[n], s.batch)
           t == AddTasks(u, new, "pending")
<1>1. /\ AtNode(c, "APPROVAL")
      /\ \/ new # {} /\ Insertable(s, new) /\ Continue(c, t, new)
         \/ Fail(c, s, {})
  BY DEF ActivateApproval
<1>2. /\ WellFormed(u) /\ u.do = "advance"
      /\ u.batch = s.batch /\ u.snap = s.snap /\ u.status = s.status /\ u.agenda = Tail(s.agenda)
  BY <1>1, AtNodeKeeps
<1>3. /\ n \in Stops /\ n \in Nodes /\ Type[n] = "APPROVAL" /\ Assigned(s.snap)
      /\ Opening(pos, pos[n], s)
      /\ Opens(pos, pos[n], u.agenda) /\ Coming(s.agenda) = {n} \cup Coming(u.agenda)
  BY <1>1, <1>2, StageAtNode
<1> HIDE DEF u, n, s
<1>4. s.status = "running" /\ AtStage(pos, pos[n], s.batch, s.snap, {n} \cup Coming(u.agenda))
  BY <1>3 DEF Opening
<1>5. CASE new # {} /\ Insertable(s, new) /\ Continue(c, t, new)
  <2>1. Insertable(u, new) /\ new \cap DOMAIN s.snap = {}
    BY <1>2, <1>5 DEF Insertable
  <2>2. \A k \in new : k.batch \in 1..MaxBatch
    BY <1>2, KeysInRound DEF WellFormed
  <2> DEFINE rest == Coming(u.agenda)
  <2> HIDE DEF new, rest
  <2>3. /\ t.status = u.status /\ t.batch = u.batch /\ t.do = u.do /\ t.agenda = u.agenda
        /\ DOMAIN t.snap = DOMAIN u.snap \cup new
        /\ \A k \in DOMAIN t.snap : t.snap[k] = IF k \in DOMAIN u.snap THEN u.snap[k] ELSE "pending"
    BY <1>2, <2>1, <2>2, AddTasksKeeps
  <2> DEFINE snap == s.snap
             w == t.snap
             b == s.batch
  <2>4. /\ DOMAIN w = DOMAIN snap \cup new /\ new \cap DOMAIN snap = {}
        /\ \A k \in DOMAIN w : w[k] = IF k \in DOMAIN snap THEN snap[k] ELSE "pending"
        /\ Assigned(snap) /\ new # {} /\ new = KeysFor(n, Assignees[n], b)
        /\ AtStage(pos, pos[n], b, snap, {n} \cup rest)
    BY <1>2, <1>3, <1>4, <1>5, <2>1, <2>3 DEF new, rest
  <2>5. t.do = "advance" /\ t.status = "running" /\ t.batch = b /\ t.agenda = u.agenda
    BY <1>2, <1>4, <2>3
  <2> HIDE DEF t, snap, w, b
  <2>6. Assigned(w) /\ AtStage(pos, pos[n], b, w, rest) /\ PendingTasks(w) # {}
    <3>1. n \in Stops /\ Type[n] = "APPROVAL"
      BY <1>3
    <3> QED BY <2>4, <3>1, StageOpened
  <2>7. StageSession(pos, t)
    BY <1>3, <2>5, <2>6, OpeningSession DEF w, rest
  <2> QED BY <1>5, <2>7, StageContinue
<1> QED BY <1>1, <1>5, StageFail DEF s

(* The end of a staged process is alone at the last place.                  *)
LEMMA AgreedAtEnd ==
  ASSUME NEW pos, Staged(pos), NEW n \in Stops, Type[n] = "END",
         NEW snap, Assigned(snap), NEW b, NEW coming, AtStage(pos, pos[n], b, snap, coming)
  PROVE  Agreed(snap)
<1>1. \A m \in Stops : m = n \/ pos[m] < pos[n]
  BY StageEnds
<1>2. ASSUME NEW k \in PendingTasks(snap) PROVE FALSE
  <2>1. k \in DOMAIN snap
    BY DEF PendingTasks
  <2>2. k.node \in Stops /\ Type[k.node] \in {"START", "APPROVAL"}
    BY <2>1, TaskAtStop
  <2>3. pos[k.node] = pos[n] /\ pos[n] \in Nat
    BY StageEnds DEF AtStage
  <2>4. k.node = n
    BY <1>1, <2>2, <2>3
  <2> QED BY <2>2, <2>4
<1>3. ASSUME NEW m \in Nodes, Type[m] = "APPROVAL" PROVE IsPassed(m, snap)
  <2>1. m \in Stops /\ m # n
    BY <1>3 DEF Stops, IsGateway
  <2>2. pos[m] < pos[n]
    BY <1>1, <2>1
  <2> QED BY <1>3, <2>2 DEF AtStage
<1> QED BY <1>2, <1>3 DEF Agreed

LEMMA StageReachEnd ==
  ASSUME NEW pos, Staged(pos), IInv, StageInv(pos), Transactional, NEW c \in Callers, ReachEnd(c)
  PROVE  StageInv(pos)'
<1> DEFINE s == session[c]
           u == Done(s)
           n == Head(s.agenda).node
           status == "finished"
           t == [u EXCEPT !.status = status]
<1>1. AtNode(c, "END")
  BY DEF ReachEnd
<1>2. /\ WellFormed(u) /\ u.do = "advance"
      /\ u.snap = s.snap /\ u.status = s.status /\ u.agenda = Tail(s.agenda)
  BY <1>1, AtNodeKeeps
<1>3. /\ n \in Stops /\ Type[n] = "END" /\ Head(s.agenda).ends /\ Assigned(s.snap)
      /\ Opening(pos, pos[n], s)
      /\ Opens(pos, pos[n], u.agenda)
  BY <1>1, <1>2, StageAtNode
<1>4. Continue(c, t, {})
  <2>1. Continue(c, [u EXCEPT !.status = IF Head(s.agenda).ends THEN "finished" ELSE @], {})
    BY DEF ReachEnd
  <2> HIDE DEF u, s
  <2>2. [u EXCEPT !.status = IF Head(s.agenda).ends THEN "finished" ELSE @] = t
    BY <1>2, <1>3 DEF WellFormed
  <2> QED BY <2>1, <2>2
<1> HIDE DEF u, n, s
<1>5. t.status = "finished" /\ t.snap = s.snap /\ t.do = "advance" /\ t.agenda = u.agenda
  BY <1>2 DEF WellFormed
<1>6. Agreed(s.snap)
  <2>1. CASE AtStage(pos, pos[n], s.batch, s.snap, Coming(s.agenda))
    <3> DEFINE coming == Coming(s.agenda)
    <3> HIDE DEF coming
    <3>1. AtStage(pos, pos[n], s.batch, s.snap, coming)
      BY <2>1 DEF coming
    <3> QED BY <1>3, <3>1, AgreedAtEnd
  <2> QED BY <1>3, <2>1 DEF Opening
<1>7. ASSUME NEW x \in Coming(u.agenda) PROVE Type[x] = "END"
  <2>1. x \in Stops /\ pos[x] = pos[n]
    BY <1>3, ComingOfPlace
  <2>2. x = n \/ pos[x] < pos[n]
    BY <1>3, <2>1, StageEnds
  <2>3. pos[n] \in Nat
    BY <1>3, StageEnds
  <2> QED BY <1>3, <2>1, <2>2, <2>3
<1> HIDE DEF t
<1>8. Opening(pos, pos[n], t)
  BY <1>3, <1>5, <1>6, <1>7 DEF Opening
<1>9. StageSession(pos, t)
  BY <1>3, <1>5, <1>8 DEF StageSession
<1> QED BY <1>4, <1>9, StageContinue

(***************************************************************************)
(* The commit.                                                              *)
(***************************************************************************)
(* What a session that is to be saved says of its instance.                 *)
LEMMA StageSaving ==
  ASSUME NEW pos, NEW s, \A k \in PendingTasks(s.snap) : k.batch = s.batch, StageSession(pos, s), s.do = "advance", Head(s.agenda) = Save,
         Closed(s.status) => PendingTasks(s.snap) = {}
  PROVE  /\ Len(s.agenda) = 1
         /\ Assigned(s.snap)
         /\ s.status = "finished" => Agreed(s.snap)
         /\ s.status = "running" <=> PendingTasks(s.snap) # {}
         /\ \A k \in PendingTasks(s.snap) : AtStage(pos, pos[k.node], k.batch, s.snap, {})
<1>1. Assigned(s.snap)
  BY DEF StageSession
<1>2. CASE Closed(s.status) /\ s.agenda = <<Save>>
  <2>1. Len(<<Save>>) = 1
    OBVIOUS
  <2> QED BY <1>1, <1>2, <2>1 DEF Closed
<1>3. CASE \E p \in {pos[n] : n \in Stops} : Opening(pos, p, s)
  <2>1. PICK p : Opening(pos, p, s)
    BY <1>3
  <2>2. Len(s.agenda) = 1 /\ Coming(s.agenda) = {}
    BY <2>1, OpensSave DEF Opening
  <2>3. CASE s.status = "running"
    <3>1. AtStage(pos, p, s.batch, s.snap, {}) /\ PendingTasks(s.snap) # {}
      BY <2>1, <2>2, <2>3 DEF Opening
    <3>2. \A k \in PendingTasks(s.snap) : pos[k.node] = p
      BY <3>1 DEF AtStage
    <3> QED BY <1>1, <2>2, <2>3, <3>1, <3>2
  <2>4. CASE s.status = "finished"
    <3>1. Agreed(s.snap)
      BY <2>1, <2>4 DEF Opening
    <3>2. PendingTasks(s.snap) = {}
      BY <3>1 DEF Agreed
    <3> QED BY <1>1, <2>2, <2>4, <3>1, <3>2
  <2> QED BY <2>1, <2>3, <2>4 DEF Opening
<1> QED BY <1>2, <1>3 DEF StageSession

LEMMA StageSave ==
  ASSUME NEW pos, Staged(pos), IInv, StageInv(pos), Transactional, NEW c \in Callers, SaveInstance(c)
  PROVE  StageInv(pos)'
<1> DEFINE s == session[c]
<1>1. /\ s # Idle
      /\ SessionInv(s) /\ s.do = "advance"
      /\ \/ /\ session' = [session EXCEPT ![c] = Idle]
            /\ inst' = [inst EXCEPT ![s.inst] = [status |-> s.status, variables |-> s.variables]]
            /\ tasks' = Over(Rows(s, DOMAIN s.snap), tasks)
         \/ Len(s.agenda) # 1
  BY Saving
<1>2. WellFormed(s) /\ StageSession(pos, s) /\ Head(s.agenda) = Save
  BY <1>1 DEF SessionInv, StageInv, SaveInstance
<1>3. \A k \in PendingTasks(s.snap) : k.batch = s.batch
  BY <1>1 DEF SessionInv, InRound, PendingTasks
<1>4. Closed(s.status) => PendingTasks(s.snap) = {}
  BY <1>1 DEF SessionInv
<1>5. \A d \in Callers : session[d] # Idle => d = c
  BY <1>1, Alone
<1>6. \A k \in DOMAIN tasks \cap DOMAIN s.snap : tasks[k].inst = s.inst
  BY <1>2 DEF WellFormed, Extends
<1>7. s.snap = [k \in DOMAIN s.snap |-> s.snap[k]] /\ s.inst \in Instances
  BY <1>2 DEF WellFormed
<1> HIDE DEF s
<1>8. /\ Len(s.agenda) = 1
      /\ Assigned(s.snap)
      /\ s.status = "finished" => Agreed(s.snap)
      /\ s.status = "running" <=> PendingTasks(s.snap) # {}
      /\ \A k \in PendingTasks(s.snap) : AtStage(pos, pos[k.node], k.batch, s.snap, {})
  BY <1>1, <1>2, <1>3, <1>4, StageSaving
<1>9. /\ session' = [session EXCEPT ![c] = Idle]
      /\ inst' = [inst EXCEPT ![s.inst] = [status |-> s.status, variables |-> s.variables]]
      /\ tasks' = Over(Rows(s, DOMAIN s.snap), tasks)
  BY <1>1, <1>8
<1>10. \A d \in Callers : session'[d] = Idle
  BY <1>5, <1>9 DEF IInv
<1>11. /\ DOMAIN tasks' = DOMAIN s.snap \cup DOMAIN tasks
       /\ \A k \in DOMAIN s.snap : tasks'[k].inst = s.inst /\ tasks'[k].status = s.snap[k]
       /\ \A k \in DOMAIN tasks \ DOMAIN s.snap : tasks'[k] = tasks[k] /\ tasks[k].inst # s.inst
  BY <1>2, <1>9, Committed
<1>12. \A i \in Instances : i # s.inst => inst'[i] = inst[i]
  BY <1>9 DEF IInv, TablesInv
<1>13. inst'[s.inst].status = s.status
  BY <1>7, <1>9 DEF IInv, TablesInv
<1>14. ASSUME NEW i \in Instances PROVE StageTables(pos, i)'
  <2>1. CASE i = s.inst
    <3>1. Snapshot(i)' = s.snap
      BY <1>7, <1>11, <2>1 DEF Snapshot
    <3> QED BY <1>8, <1>13, <2>1, <3>1 DEF StageTables, Running
  <2>2. CASE i # s.inst
    <3>1. {k \in DOMAIN tasks' : tasks'[k].inst = i} = {k \in DOMAIN tasks : tasks[k].inst = i}
      BY <1>6, <1>11, <2>2
    <3>2. \A k \in DOMAIN tasks : tasks[k].inst = i => tasks'[k] = tasks[k]
      BY <1>6, <1>11, <2>2
    <3>3. Snapshot(i)' = Snapshot(i)
      BY <3>1, <3>2 DEF Snapshot
    <3>4. StageTables(pos, i)
      BY StageInvParts
    <3> QED BY <1>12, <2>2, <3>3, <3>4, StageTablesKept
  <2> QED BY <2>1, <2>2
<1> QED BY <1>10, <1>14 DEF StageInv, StageTables

(***************************************************************************)
(* What is behind a node has a later place.                                 *)
(***************************************************************************)
Ahead(S) == {Edges[j].target : j \in {j \in DOMAIN Edges : Edges[j].source \in S}}

(* The recursion of Behind, up to bound.                                    *)
Climb(f, n, bound) == f = [k \in 0..bound |-> IF k = 0 THEN {} ELSE Ahead({n} \cup f[k - 1])]

LEMMA ClimbExists ==
  ASSUME NEW n, NEW bound \in Nat
  PROVE  \E f : Climb(f, n, bound)
<1> DEFINE T == {k \in Nat : \E f : Climb(f, n, k)}
<1>1. 0 \in T
  <2> DEFINE f == [j \in 0..0 |-> {}]
  <2>1. Climb(f, n, 0)
    BY DEF Climb
  <2> QED BY <2>1
<1>2. ASSUME NEW k \in Nat, k \in T PROVE k + 1 \in T
  <2>1. PICK f : Climb(f, n, k)
    BY <1>2
  <2> DEFINE after == Ahead({n} \cup f[k])
             g == [j \in 0..(k + 1) |-> IF j = k + 1 THEN after ELSE f[j]]
  <2>2. \A j \in 0..k : g[j] = f[j]
    OBVIOUS
  <2>3. ASSUME NEW j \in 0..(k + 1)
        PROVE  g[j] = IF j = 0 THEN {} ELSE Ahead({n} \cup g[j - 1])
    <3>1. CASE j = k + 1
      <4>1. g[j] = after /\ g[j - 1] = f[k] /\ j # 0
        BY <3>1
      <4> HIDE DEF g
      <4> QED BY <3>1, <4>1
    <3>2. CASE j # k + 1
      <4>1. j \in 0..k
        BY <3>2
      <4>2. g[j] = f[j] /\ (j # 0 => g[j - 1] = f[j - 1])
        BY <2>2, <4>1
      <4>3. f[j] = IF j = 0 THEN {} ELSE Ahead({n} \cup f[j - 1])
        BY <2>1, <4>1 DEF Climb
      <4> HIDE DEF g
      <4> QED BY <4>2, <4>3
    <3> QED BY <3>1, <3>2
  <2>4. g = [j \in 0..(k + 1) |-> g[j]]
    OBVIOUS
  <2> HIDE DEF g
  <2>5. Climb(g, n, k + 1)
    BY <2>3, <2>4 DEF Climb
  <2> QED BY <2>5
<1> HIDE DEF T
<1>3. bound \in T
  BY <1>1, <1>2, Induction
<1> QED BY <1>3 DEF T

LEMMA AheadIsLater ==
  ASSUME NEW pos, Staged(pos), NEW n \in Nodes, NEW S,
         \A y \in S : y \in Nodes /\ (y = n \/ pos[n] < pos[y]), NEW x \in Ahead(S)
  PROVE  x \in Nodes /\ pos[n] < pos[x]
<1>1. PICK j \in DOMAIN Edges : Edges[j].source \in S /\ x = Edges[j].target
  BY DEF Ahead
<1> DEFINE e == Edges[j]
           m == e.source
<1>2. e \in ToSet(Edges)
  BY DEF ToSet
<1>3. m \in Nodes /\ (m = n \/ pos[n] < pos[m])
  BY <1>1
<1> HIDE DEF e
<1>4. x \in After(m)
  <2>1. e \in {d \in ToSet(Edges) : d.source = m}
    BY <1>2
  <2>2. \A d \in {d \in ToSet(Edges) : d.source = m} : d.target \in After(m)
    BY <1>3, OutEdgesOf
  <2>3. e.target \in After(m)
    BY <2>1, <2>2
  <2> QED BY <1>1, <2>3 DEF e
<1>5. x \in Nodes /\ After(m) \subseteq Nodes
  BY <1>3, <1>4, OutEdgesOf
<1> HIDE DEF m
<1>6. pos[m] < pos[x] /\ pos[m] \in Nat /\ pos[n] \in Nat /\ pos[x] \in Nat
  BY <1>3, <1>4, <1>5 DEF Staged
<1> QED BY <1>3, <1>5, <1>6

LEMMA BehindIsLater ==
  ASSUME NEW pos, Staged(pos), NEW n \in Nodes, NEW x \in Behind[n]
  PROVE  pos[n] < pos[x]
<1> DEFINE N == Len(Edges)
           f == CHOOSE f : Climb(f, n, N)
           T == {k \in Nat : \A y \in f[k] : y \in Nodes /\ pos[n] < pos[y]}
<1>1. N \in Nat
  BY DefinitionAssumption DEF DefinitionAssumption
<1>2. Climb(f, n, N)
  BY <1>1, ClimbExists
<1>3. Behind[n] = UNION {f[k] : k \in 0..N}
  BY DEF Behind, Climb, Ahead
<1> HIDE DEF f, N
<1>4. PICK k \in 0..N : x \in f[k]
  BY <1>3
<1>5. f[0] = {} /\ \A j \in Nat : j < N => f[j + 1] = Ahead({n} \cup f[j])
  <2>1. f[0] = {}
    BY <1>1, <1>2 DEF Climb
  <2>2. ASSUME NEW j \in Nat, j < N PROVE f[j + 1] = Ahead({n} \cup f[j])
    <3> DEFINE i == j + 1
    <3>1. i \in 0..N /\ i # 0 /\ i - 1 = j
      BY <1>1, <2>2
    <3> HIDE DEF i
    <3>2. f[i] = Ahead({n} \cup f[i - 1])
      BY <1>2, <3>1 DEF Climb
    <3> QED BY <3>1, <3>2 DEF i
  <2> QED BY <2>1, <2>2
<1>6. 0 \in T
  BY <1>5
<1>7. ASSUME NEW j \in Nat, j < N, j \in T PROVE j + 1 \in T
  <2> DEFINE S == {n} \cup f[j]
  <2>1. \A y \in S : y \in Nodes /\ (y = n \/ pos[n] < pos[y])
    BY <1>7
  <2>2. f[j + 1] = Ahead(S)
    BY <1>5, <1>7
  <2> HIDE DEF S
  <2>3. \A y \in Ahead(S) : y \in Nodes /\ pos[n] < pos[y]
    BY <2>1, AheadIsLater
  <2> QED BY <2>2, <2>3
<1> HIDE DEF T
<1>8. k \in T
  <2>1. k \in Nat /\ \A j \in Nat : j < k => j < N
    BY <1>1
  <2>2. \A j \in Nat : j < k /\ j \in T => j + 1 \in T
    BY <1>7, <2>1
  <2> QED BY <1>6, <2>1, <2>2, InductionTo
<1> QED BY <1>4, <1>8 DEF T

(***************************************************************************)
(* The theorems.                                                            *)
(***************************************************************************)
LEMMA StageNext ==
  ASSUME NEW pos, Staged(pos), IInv, StageInv(pos), Transactional, ~StatementsFail, [Next]_vars
  PROVE  StageInv(pos)'
<1>1. CASE UNCHANGED vars
  <2>1. UNCHANGED <<tasks, inst, session>>
    BY <1>1 DEF vars
  <2>2. ASSUME NEW i \in Instances PROVE StageTables(pos, i)'
    <3>1. StageTables(pos, i)
      BY StageInvParts
    <3>2. Snapshot(i)' = Snapshot(i) /\ inst'[i] = inst[i]
      BY <2>1 DEF Snapshot
    <3> QED BY <3>1, <3>2, StageTablesKept
  <2>3. \A d \in Callers : session'[d] # Idle => StageSession(pos, session'[d])
    BY <2>1 DEF StageInv
  <2> QED BY <2>2, <2>3 DEF StageInv, StageTables
<1>2. ASSUME NEW c \in Callers, NEW i \in Instances, NEW v \in Variables, Start(c, i, v) PROVE StageInv(pos)'
  BY <1>2, StageStart
<1>3. ASSUME NEW c \in Callers, NEW k \in DOMAIN tasks, LoadTask(c, k) PROVE StageInv(pos)'
  BY <1>3, StageLoadTask
<1>4. ASSUME NEW c \in Callers, NEW i \in Instances, LoadInstance(c, i) PROVE StageInv(pos)'
  BY <1>4, StageLoadInstance
<1>5. ASSUME NEW c \in Callers, PassTask(c) PROVE StageInv(pos)'
  BY <1>5, StagePass
<1>6. ASSUME NEW c \in Callers,
             RejectAndTerminate(c) \/ (\E n \in RejectTargets : RejectToTarget(c, n)) \/ RejectUpstream(c)
      PROVE  StageInv(pos)'
  BY <1>6, StageReject
<1>7. ASSUME NEW c \in Callers, NEW back \in BOOLEAN, Revoke(c, back) PROVE StageInv(pos)'
  BY <1>7, StageRevoke
<1>8. ASSUME NEW c \in Callers, ActivateApproval(c) PROVE StageInv(pos)'
  BY <1>8, StageActivateApproval
<1>9. ASSUME NEW c \in Callers,
             ActivateCarbonCopy(c) \/ WorkerFails(c) \/ WorkerSuspends(c) \/ WorkerSucceeds(c)
      PROVE  StageInv(pos)'
  BY <1>9, StageNoOther DEF ActivateCarbonCopy, WorkerFails, WorkerSuspends, WorkerSucceeds
<1>10. ASSUME NEW c \in Callers, ReachEnd(c) PROVE StageInv(pos)'
  BY <1>10, StageReachEnd
<1>11. ASSUME NEW c \in Callers, SaveInstance(c) PROVE StageInv(pos)'
  BY <1>11, StageSave
<1>12. ASSUME NEW c \in Callers, Crash(c) PROVE StageInv(pos)'
  BY <1>12, StageFail DEF Crash
<1> QED
  BY <1>1, <1>2, <1>3, <1>4, <1>5, <1>6, <1>7, <1>8, <1>9, <1>10, <1>11, <1>12 DEF Next

LEMMA StageInit == ASSUME NEW pos, Init PROVE StageInv(pos)
<1>1. DOMAIN tasks = {} /\ \A c \in Callers : session[c] = Idle
  BY DEF Init
<1>2. ASSUME NEW i \in Instances PROVE StageTables(pos, i)
  <2>1. DOMAIN Snapshot(i) = {}
    BY <1>1 DEF Snapshot
  <2>2. inst[i].status = "none"
    BY DEF Init
  <2> QED BY <2>1, <2>2 DEF StageTables, Assigned, Running, PendingTasks
<1> QED BY <1>1, <1>2 DEF StageInv, StageTables

(* In a staged definition a running process stands at one place: whoever is *)
(* asked is asked there, and all before it has agreed (dispatcher.go 47-82, *)
(* transition.go 40-155, engine.go).                                        *)
THEOREM StagesInOrder ==
  ASSUME NEW CONSTANT pos, Staged(pos), Transactional, ~StatementsFail
  PROVE  Spec => []StageInv(pos)
<1>1. Init => StageInv(pos)
  BY StageInit
<1>2. IInv /\ StageInv(pos) /\ [Next]_vars => StageInv(pos)'
  BY StageNext
<1>3. Spec => []IInv
  BY InductiveInvariant
<1> QED BY <1>1, <1>2, <1>3, PTL DEF Spec

(* What is pending in the snapshot is what is pending in the table.         *)
LEMMA PendingOfSnapshot ==
  ASSUME NEW i
  PROVE  PendingTasks(Snapshot(i)) = Pending(i)
BY DEF PendingTasks, Snapshot, Pending

(* A running process of a staged definition always has somebody to wait     *)
(* for, and a finished one has nothing open and every approval agreed.      *)
THEOREM StagedProcessIsWhole ==
  ASSUME NEW CONSTANT pos, Staged(pos), Transactional, ~StatementsFail
  PROVE  Spec => []ProcessIsWhole
<1>1. ASSUME StageInv(pos) PROVE ProcessIsWhole
  <2>1. RunningHasWork
    BY <1>1, PendingOfSnapshot DEF StageInv, RunningHasWork
  <2>2. ASSUME NEW i \in Instances, inst[i].status = "finished"
        PROVE  /\ Pending(i) = {}
               /\ \A n \in Nodes : Type[n] = "APPROVAL" => IsResolved(n, "INCLUSIVE", Snapshot(i))
    <3>1. Agreed(Snapshot(i))
      BY <1>1, <2>2 DEF StageInv
    <3> QED BY <3>1, PendingOfSnapshot DEF Agreed, IsResolved
  <2> QED BY <2>1, <2>2 DEF ProcessIsWhole, FinishedMeansAgreed
<1> QED BY <1>1, StagesInOrder, PTL

(* No decision is asked for at a node of a staged definition while one is   *)
(* still open before it.                                                    *)
THEOREM StagedNeverOvertakes ==
  ASSUME NEW CONSTANT pos, Staged(pos), Transactional, ~StatementsFail
  PROVE  Spec => []NothingOvertaken
<1>1. ASSUME StageInv(pos) PROVE NothingOvertaken
  <2> SUFFICES ASSUME NEW i \in Instances, NEW j \in Pending(i), NEW k \in Pending(i), k.node \in Behind[j.node]
               PROVE  FALSE
    BY DEF NothingOvertaken
  <2>1. StageTables(pos, i)
    BY <1>1, StageInvParts
  <2> DEFINE snap == Snapshot(i)
  <2>2. j \in PendingTasks(snap) /\ k \in PendingTasks(snap)
    BY PendingOfSnapshot
  <2>3. Assigned(snap) /\ AtStage(pos, pos[j.node], j.batch, snap, {})
    BY <2>1, <2>2 DEF StageTables
  <2> HIDE DEF snap
  <2>4. pos[k.node] = pos[j.node]
    BY <2>2, <2>3 DEF AtStage
  <2>5. j.node \in Nodes
    BY <2>2, <2>3 DEF PendingTasks, Assigned
  <2>6. pos[j.node] < pos[k.node] /\ pos[j.node] \in Nat
    BY <2>5, BehindIsLater DEF Staged
  <2> QED BY <2>4, <2>6
<1> QED BY <1>1, StagesInOrder, PTL
==============================================================================
