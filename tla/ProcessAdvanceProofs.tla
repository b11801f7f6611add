------------------------ MODULE ProcessAdvanceProofs ------------------------
(***************************************************************************)
(* Proofs about ProcessAdvance, for any number of instances, nodes, pass   *)
(* jobs, visits and faults and any limits of the lists: AdvanceInv is an   *)
(* inductive invariant.  It gives the one way a process may be stranded,   *)
(* and that the pass job finishes nobody else's engine task.               *)
(***************************************************************************)
EXTENDS ProcessAdvance, TLAPS, FiniteSetTheorems, WellFoundedInduction

(***************************************************************************)
(* Nodes and tasks                                                         *)
(***************************************************************************)
LEMMA Paths ==
    ASSUME NEW p \in Procs
    PROVE  /\ Len(Path[p]) \in Nat
           /\ \A k \in 1..Len(Path[p]) : /\ Path[p][k] \in Nodes
                                         /\ ProcOf(Path[p][k]) = p
                                         /\ IndexOf(Path[p][k]) = k
           /\ Len(Path[p]) >= 1
<1>1. /\ Len(Path[p]) \in Nat /\ DOMAIN Path[p] = 1..Len(Path[p]) /\ Len(Path[p]) >= 1
      /\ \A k \in 1..Len(Path[p]) : Path[p][k] \in Nodes
  BY ProcessAdvanceAssumption DEF ProcessAdvanceAssumption
<1>2. ASSUME NEW k \in 1..Len(Path[p]) PROVE ProcOf(Path[p][k]) = p /\ IndexOf(Path[p][k]) = k
  <2>1. ASSUME NEW q \in Procs, Path[p][k] \in ToSet(Path[q]) PROVE q = p
    BY <1>1, <2>1, ProcessAdvanceAssumption DEF ProcessAdvanceAssumption, ToSet
  <2>2. Path[p][k] \in ToSet(Path[p])
    BY <1>1 DEF ToSet
  <2>3. ProcOf(Path[p][k]) = p
    BY <2>1, <2>2 DEF ProcOf
  <2>4. ASSUME NEW i \in 1..Len(Path[p]), Path[p][i] = Path[p][k] PROVE i = k
    BY <1>1, <2>4, ProcessAdvanceAssumption DEF ProcessAdvanceAssumption
  <2> QED BY <2>3, <2>4 DEF IndexOf
<1> QED BY <1>1, <1>2

LEMMA NodeOnPath ==
    ASSUME NEW n \in Nodes
    PROVE  /\ ProcOf(n) \in Procs
           /\ IndexOf(n) \in 1..Len(Path[ProcOf(n)])
           /\ Path[ProcOf(n)][IndexOf(n)] = n
<1>1. PICK p \in Procs : n \in ToSet(Path[p])
  BY DEF Nodes
<1>2. PICK k \in DOMAIN Path[p] : n = Path[p][k]
  BY <1>1 DEF ToSet
<1>3. DOMAIN Path[p] = 1..Len(Path[p])
  BY ProcessAdvanceAssumption DEF ProcessAdvanceAssumption
<1> QED BY <1>2, <1>3, Paths

LEMMA AutoAreNodes == AutoNodes \subseteq Nodes /\ Raced \subseteq AutoNodes /\ IsFiniteSet(AutoNodes)
<1>1. AutoNodes \subseteq Nodes /\ IsFiniteSet(Nodes)
  BY ProcessAdvanceAssumption DEF ProcessAdvanceAssumption, AutoNodes
<1>2. IsFiniteSet(AutoNodes)
  BY <1>1, FS_Subset
<1> QED BY <1>1, <1>2, ProcessAdvanceAssumption DEF ProcessAdvanceAssumption

\* The newest task's node
LEMMA CurrentNode ==
    ASSUME TypeOK, NEW p \in Procs
    PROVE  /\ Current(p) \in Nodes /\ ProcOf(Current(p)) = p /\ IndexOf(Current(p)) = pos[p]
           /\ pos[p] \in 1..Len(Path[p]) /\ Len(Path[p]) \in Nat
BY Paths DEF TypeOK, Current

\* A page that is not empty has an oldest task
LEMMA OldestInTodo ==
    ASSUME TypeOK, NEW S \in SUBSET AutoNodes, S # {}
    PROVE  Oldest(S) \in S
<1> DEFINE T == {id[n] : n \in S}
<1>1. T \subseteq Nat /\ T # {}
  BY DEF TypeOK
<1>2. PICK y \in T : \A z \in T : <<z, y>> \notin OpToRel(<, Nat)
  BY <1>1, NatLessThanWellFounded, WFMin
<1>3. PICK n \in S : y = id[n]
  OBVIOUS
<1>4. ASSUME NEW m \in S PROVE id[n] <= id[m]
  <2>1. id[m] \in T /\ id[m] \in Nat /\ id[n] \in Nat
    BY DEF TypeOK
  <2> HIDE DEF T
  <2>2. <<id[m], id[n]>> \notin OpToRel(<, Nat)
    BY <1>2, <1>3, <2>1
  <2>3. ~(id[m] < id[n])
    BY <2>1, <2>2 DEF OpToRel
  <2> QED BY <2>1, <2>3
<1> HIDE DEF T
<1>5. \E x \in S : \A m \in S : id[x] <= id[m]
  BY <1>4
<1>6. (CHOOSE x \in S : \A m \in S : id[x] <= id[m]) \in S
  BY <1>5
<1> QED BY <1>6 DEF Oldest

LEMMA OldestStays ==
    ASSUME NEW S, \A n \in S : id'[n] = id[n]
    PROVE  Oldest(S)' = Oldest(S)
BY DEF Oldest

\* What a page holds
LEMMA PageSucceeded ==
    ASSUME NEW after
    PROVE  Page(after) \subseteq AutoNodes /\ \A n \in Page(after) : task[n] = "Success"
BY DEF Page, Lowest, Unadvanced

\* A job that has found the engine's task
LEMMA JobFound ==
    ASSUME NEW r \in JobState, NEW x
    PROVE  [r EXCEPT !.step = "pass", !.found = x]
             = [step |-> "pass", todo |-> r.todo, full |-> r.full, after |-> r.after, found |-> x]
<1> DEFINE a == [r EXCEPT !.step = "pass"]
<1>1. r = [step |-> r.step, todo |-> r.todo, full |-> r.full, after |-> r.after, found |-> r.found]
  BY DEF JobState
<1>2. a = [step |-> "pass", todo |-> r.todo, full |-> r.full, after |-> r.after, found |-> r.found]
  BY <1>1
<1>3. [r EXCEPT !.step = "pass", !.found = x] = [a EXCEPT !.found = x]
  OBVIOUS
<1> HIDE DEF a
<1> QED BY <1>2, <1>3

\* The next task of a job
LEMMA NextTaskSound ==
    ASSUME TypeOK, NEW r \in JobState, r.todo # {}, \A n \in r.todo : task[n] = "Success"
    PROVE  LET t == NextTask(r) IN
           /\ t \in JobState
           /\ t.step \in {"list", "check"}
           /\ t.step # "list" => t.todo # {}
           /\ \A n \in t.todo : task[n] = "Success"
<1> DEFINE rest == r.todo \ {Oldest(r.todo)}
<1>1. Oldest(r.todo) \in r.todo
  BY OldestInTodo DEF JobState
<1>2. id[Oldest(r.todo)] \in Nat
  BY <1>1 DEF TypeOK, JobState
<1>3. JobStart = [step |-> "list", todo |-> {}, full |-> FALSE, after |-> 0, found |-> <<>>]
  BY DEF JobStart
<1>4. CASE rest # {}
  <2>1. NextTask(r) = [r EXCEPT !.step = "check", !.todo = rest, !.found = <<>>]
    BY <1>4 DEF NextTask
  <2>2. rest \subseteq AutoNodes /\ (\A n \in rest : task[n] = "Success")
    BY DEF JobState
  <2> HIDE DEF rest
  <2>3. NextTask(r) = [step |-> "check", todo |-> rest, full |-> r.full, after |-> r.after, found |-> <<>>]
    BY <2>1 DEF JobState
  <2> QED BY <1>4, <2>2, <2>3 DEF JobState, JobSteps
<1>5. CASE rest = {} /\ r.full
  <2>1. NextTask(r) = [JobStart EXCEPT !.after = id[Oldest(r.todo)]]
    BY <1>5 DEF NextTask
  <2>2. NextTask(r) = [step |-> "list", todo |-> {}, full |-> FALSE, after |-> id[Oldest(r.todo)], found |-> <<>>]
    BY <1>3, <2>1
  <2> QED BY <1>2, <2>2 DEF JobState, JobSteps
<1>6. CASE rest = {} /\ ~r.full
  <2>1. NextTask(r) = JobStart
    BY <1>6 DEF NextTask
  <2> QED BY <1>3, <2>1 DEF JobState, JobSteps
<1> QED BY <1>4, <1>5, <1>6

(***************************************************************************)
(* Steps that leave the engine alone                                       *)
(***************************************************************************)

\* A step of a pass job outside its call
LEMMA JobStep ==
    ASSUME AdvanceInv, NEW j \in Jobs, job[j].step # "passing",
           NEW r \in JobState, job' = [job EXCEPT ![j] = r],
           UNCHANGED <<ticket, engine, task, id, skipped>>,
           missed \subseteq missed', missed' \subseteq AutoNodes,
           advanced' \in [AutoNodes -> BOOLEAN],
           \A n \in AutoNodes : advanced'[n] => advanced[n] \/ n \in missed \/ Over(n),
           faults' \in 0..MaxFaults,
           r.step # "list" => r.todo # {},
           \A n \in r.todo : task[n] = "Success",
           r.step = "pass" => r.found # <<>> /\ r.found[1] = Oldest(r.todo),
           r.step = "mark" => Oldest(r.todo) \in missed' \/ Over(Oldest(r.todo))
    PROVE  AdvanceInv'
<1>1. UNCHANGED <<ticket, pos, row, call, visits, task, id, skipped>>
  BY DEF engine
<1>2. TypeOK'
  BY <1>1 DEF AdvanceInv, TypeOK
<1>3. \A i \in Jobs : job'[i] = IF i = j THEN r ELSE job[i]
  BY DEF AdvanceInv, TypeOK
<1>4. \A n : Over(n)' <=> Over(n)
  BY <1>1 DEF Over, Current
<1>5. \A S : Oldest(S)' = Oldest(S)
  BY <1>1, OldestStays
<1>6. EngineInv'
  <2>1. ASSUME NEW p \in Procs, NEW i \in Jobs, call[p].by = i
        PROVE  job'[i] = job[i] /\ job[i].step = "passing" /\ Task(i) = Current(p)
    BY <1>3, <2>1 DEF AdvanceInv, EngineInv
  <2>2. ASSUME NEW p \in Procs, NEW i \in Jobs, call[p].by = i
        PROVE  job'[i].step = "passing" /\ Task(i)' = Current(p)
    BY <1>5, <2>1, <2>2 DEF Task
  <2> QED BY <1>1, <2>2 DEF AdvanceInv, EngineInv, Current
<1>7. JobInv'
  <2>1. ASSUME NEW i \in Jobs PROVE Sound(job[i])'
    <3>1. CASE i = j
      BY <1>1, <1>3, <1>4, <1>5, <3>1 DEF Sound
    <3>2. CASE i # j
      <4>1. Sound(job[i]) /\ job'[i] = job[i]
        BY <1>3, <3>2 DEF AdvanceInv, JobInv
      <4> QED BY <1>1, <1>4, <1>5, <4>1 DEF Sound
    <3> QED BY <3>1, <3>2
  <2> QED BY <2>1 DEF JobInv
<1>8. MarkInv'
  BY <1>4 DEF AdvanceInv, MarkInv
<1> QED BY <1>2, <1>6, <1>7, <1>8 DEF AdvanceInv

\* What may become of a ticket without the engine
TicketMoves(p) ==
    \/ ticket'[p] = ticket[p]
    \/ /\ ticket[p] # "END" /\ ticket'[p] # "END"
       /\ ticket'[p] = "WITHDRAW" => row[p] = "gone"

\* What becomes of tasks and tickets without the engine
LEMMA TaskStep ==
    ASSUME AdvanceInv, UNCHANGED <<engine, advanced, id, job, ghosts>>,
           ticket' \in [Procs -> TicketState],
           \A p \in Procs : TicketMoves(p),
           task' \in [AutoNodes -> TaskState],
           \A n \in AutoNodes : task[n] = "Success" => task'[n] = "Success",
           faults' \in 0..MaxFaults
    PROVE  AdvanceInv'
<1>1. UNCHANGED <<pos, row, call, visits, advanced, id, job, missed, skipped>>
  BY DEF engine, ghosts
<1>2. TypeOK'
  BY <1>1 DEF AdvanceInv, TypeOK
<1>3. ASSUME NEW n \in AutoNodes PROVE Over(n)' <=> Over(n)
  <2>1. ProcOf(n) \in Procs
    BY AutoAreNodes, NodeOnPath
  <2>2. ticket'[ProcOf(n)] = "END" <=> ticket[ProcOf(n)] = "END"
    BY <2>1 DEF TicketMoves
  <2> QED BY <1>1, <2>2 DEF Over, Current
<1>4. \A S : Oldest(S)' = Oldest(S)
  BY <1>1, OldestStays
<1>5. EngineInv'
  <2>1. ASSUME NEW p \in Procs
        PROVE  /\ ticket'[p] = "END" => row[p] = "gone" \/ call[p].step = "end"
               /\ ticket'[p] = "WITHDRAW" => row[p] = "gone"
    BY DEF AdvanceInv, EngineInv, TicketMoves
  <2> QED BY <1>1, <1>4, <2>1 DEF AdvanceInv, EngineInv, Current, Task
<1>6. JobInv'
  <2>1. ASSUME NEW i \in Jobs PROVE Sound(job[i])'
    <3>1. Sound(job[i]) /\ job[i].todo \subseteq AutoNodes
      BY DEF AdvanceInv, JobInv, TypeOK, JobState
    <3>2. job[i].step = "mark" => Oldest(job[i].todo) \in AutoNodes
      BY <3>1, OldestInTodo DEF AdvanceInv, Sound
    <3>3. PICK n : n = Oldest(job[i].todo)
      OBVIOUS
    <3>4. Oldest(job[i].todo)' = n
      BY <1>1, <1>4, <3>3
    <3>5. job[i].step = "mark" => n \in missed \/ Over(n)'
      BY <1>3, <3>1, <3>2, <3>3 DEF Sound
    <3> QED BY <1>1, <1>4, <3>1, <3>3, <3>4, <3>5 DEF Sound, Over
  <2> QED BY <2>1 DEF JobInv
<1>7. MarkInv'
  BY <1>1, <1>3 DEF AdvanceInv, MarkInv
<1> QED BY <1>2, <1>5, <1>6, <1>7 DEF AdvanceInv

\* The fault counter
LEMMA Faults ==
    ASSUME TypeOK, Fault \/ UNCHANGED faults
    PROVE  faults' \in 0..MaxFaults
BY ProcessAdvanceAssumption DEF ProcessAdvanceAssumption, TypeOK, Fault

\* On to the next task
LEMMA GoOnKeeps ==
    ASSUME AdvanceInv, NEW j \in Jobs, job[j].step \notin {"list", "passing"}, GoOn(j),
           UNCHANGED <<ticket, engine, task, id, ghosts>>,
           advanced' \in [AutoNodes -> BOOLEAN],
           \A n \in AutoNodes : advanced'[n] => advanced[n] \/ n \in missed \/ Over(n),
           faults' \in 0..MaxFaults
    PROVE  AdvanceInv'
<1> DEFINE r == NextTask(job[j])
<1>1. job' = [job EXCEPT ![j] = r] /\ UNCHANGED <<missed, skipped>>
  BY DEF GoOn, AdvanceInv, TypeOK, ghosts
<1>2. job[j] \in JobState /\ job[j].todo # {} /\ \A n \in job[j].todo : task[n] = "Success"
  BY DEF AdvanceInv, TypeOK, JobInv, Sound
<1>3. /\ r \in JobState
      /\ r.step \in {"list", "check"}
      /\ r.step # "list" => r.todo # {}
      /\ \A n \in r.todo : task[n] = "Success"
  BY <1>2, NextTaskSound DEF AdvanceInv
<1>4. missed' \subseteq AutoNodes
  BY <1>1 DEF AdvanceInv, TypeOK
<1> HIDE DEF r
<1> QED BY <1>1, <1>3, <1>4, JobStep

\* A job without a page
LEMMA Restart ==
    ASSUME AdvanceInv, NEW j \in Jobs, job[j].step # "passing",
           job' = [job EXCEPT ![j] = JobStart],
           UNCHANGED <<ticket, engine, tasks, ghosts>>, faults' \in 0..MaxFaults
    PROVE  AdvanceInv'
<1>1. JobStart \in JobState /\ JobStart.step = "list" /\ JobStart.todo = {}
  BY DEF JobStart, JobState, JobSteps
<1>2. /\ UNCHANGED <<ticket, engine, task, id, advanced, missed, skipped>>
      /\ missed' \subseteq AutoNodes /\ advanced' \in [AutoNodes -> BOOLEAN]
  BY DEF tasks, ghosts, AdvanceInv, TypeOK
<1> QED BY <1>1, <1>2, JobStep

LEMMA ListKeeps ==
    ASSUME AdvanceInv, NEW j \in Jobs, List(j)
    PROVE  AdvanceInv'
<1> DEFINE page == Page(job[j].after)
           r == [step |-> "check", todo |-> page, full |-> Cardinality(page) = PageLimit, after |-> 0,
                 found |-> <<>>]
<1>1. /\ job[j].step = "list" /\ UNCHANGED <<ticket, engine, tasks, ghosts, faults>>
      /\ \/ page = {} /\ job' = [job EXCEPT ![j] = JobStart]
         \/ page # {} /\ job' = [job EXCEPT ![j] = r]
  BY DEF List, AdvanceInv, TypeOK
<1>2. faults' \in 0..MaxFaults
  BY <1>1 DEF AdvanceInv, TypeOK
<1>3. CASE page # {} /\ job' = [job EXCEPT ![j] = r]
  <2>1. page \subseteq AutoNodes /\ \A n \in page : task[n] = "Success"
    BY PageSucceeded
  <2>2. PICK full \in BOOLEAN :
          r = [step |-> "check", todo |-> page, full |-> full, after |-> 0, found |-> <<>>]
    OBVIOUS
  <2> HIDE DEF page, r
  <2>3. r \in JobState /\ r.step = "check" /\ r.todo = page
    BY <2>1, <2>2 DEF JobState, JobSteps
  <2>4. /\ UNCHANGED <<ticket, engine, task, id, advanced, missed, skipped>>
        /\ missed' \subseteq AutoNodes /\ advanced' \in [AutoNodes -> BOOLEAN]
    BY <1>1 DEF tasks, ghosts, AdvanceInv, TypeOK
  <2> QED BY <1>1, <1>2, <1>3, <2>1, <2>3, <2>4, JobStep
<1>4. CASE page = {} /\ job' = [job EXCEPT ![j] = JobStart]
  BY <1>1, <1>2, <1>4, Restart
<1> QED BY <1>1, <1>3, <1>4

\* A job that only takes another step
LEMMA StepKeeps ==
    ASSUME AdvanceInv, NEW j \in Jobs, job[j].step \notin {"list", "passing"},
           NEW s \in {"lookup", "mark"}, Step(j, s),
           s = "mark" => Task(j) \in missed' \/ Over(Task(j)),
           UNCHANGED <<ticket, engine, tasks, skipped, faults>>,
           missed \subseteq missed', missed' \subseteq AutoNodes
    PROVE  AdvanceInv'
<1> DEFINE r == [job[j] EXCEPT !.step = s]
<1>1. job' = [job EXCEPT ![j] = r]
  BY DEF Step, AdvanceInv, TypeOK
<1>2. job[j] \in JobState /\ job[j].todo # {} /\ \A n \in job[j].todo : task[n] = "Success"
  BY DEF AdvanceInv, TypeOK, JobInv, Sound
<1>3. r = [step |-> s, todo |-> job[j].todo, full |-> job[j].full, after |-> job[j].after, found |-> job[j].found]
  BY <1>2 DEF JobState
<1>4. r \in JobState /\ r.step = s /\ r.todo = job[j].todo
  BY <1>2, <1>3 DEF JobState, JobSteps
<1> HIDE DEF r
<1>5. /\ UNCHANGED <<ticket, engine, task, id, advanced, skipped>>
      /\ advanced' \in [AutoNodes -> BOOLEAN] /\ faults' \in 0..MaxFaults
  BY DEF tasks, AdvanceInv, TypeOK
<1> QED BY <1>1, <1>2, <1>4, <1>5, JobStep DEF Task

\* The task of a job at work
LEMMA TaskOfJob ==
    ASSUME AdvanceInv, NEW j \in Jobs, job[j].step # "list"
    PROVE  /\ Task(j) \in job[j].todo /\ Task(j) \in AutoNodes /\ task[Task(j)] = "Success"
           /\ Task(j) \in Nodes /\ ProcOf(Task(j)) \in Procs
<1>1. /\ job[j].todo \in SUBSET AutoNodes /\ job[j].todo # {}
      /\ \A n \in job[j].todo : task[n] = "Success"
  BY DEF AdvanceInv, TypeOK, JobState, JobInv, Sound
<1>2. Task(j) \in job[j].todo
  BY <1>1, OldestInTodo DEF Task, AdvanceInv
<1> QED BY <1>1, <1>2, AutoAreNodes, NodeOnPath

LEMMA CheckKeeps ==
    ASSUME AdvanceInv, NEW j \in Jobs, Check(j)
    PROVE  AdvanceInv'
<1> DEFINE p == ProcOf(Task(j))
<1>1. job[j].step = "check" /\ UNCHANGED <<ticket, engine, tasks, ghosts, faults>>
  BY DEF Check
<1>2. p \in Procs
  BY <1>1, TaskOfJob
<1>3. /\ UNCHANGED <<ticket, engine, task, id, advanced, missed, skipped>>
      /\ missed' \subseteq AutoNodes /\ advanced' \in [AutoNodes -> BOOLEAN] /\ faults' \in 0..MaxFaults
  BY <1>1 DEF tasks, ghosts, AdvanceInv, TypeOK
<1>4. CASE GoOn(j)
  BY <1>1, <1>3, <1>4, GoOnKeeps
<1>5. CASE Step(j, "lookup")
  BY <1>1, <1>3, <1>5, StepKeeps
<1>6. CASE ShouldAdvance(p) = "no" /\ Step(j, "mark")
  <2>1. ticket[p] \in {"END", "WITHDRAW"}
    BY <1>2, <1>6 DEF ShouldAdvance, AdvanceInv, TypeOK, TicketState
  <2>2. ticket[p] = "END" \/ row[p] = "gone"
    BY <1>2, <2>1 DEF AdvanceInv, EngineInv
  <2>3. Over(Task(j))
    BY <2>2 DEF Over
  <2> QED BY <1>1, <1>3, <1>6, <2>3, StepKeeps
<1> QED BY <1>4, <1>5, <1>6 DEF Check

LEMMA LookupKeeps ==
    ASSUME AdvanceInv, NEW j \in Jobs, Lookup(j)
    PROVE  AdvanceInv'
<1> DEFINE n == Task(j)
           p == ProcOf(n)
           found == EngineTask(p)
           r == [job[j] EXCEPT !.step = "pass", !.found = found]
<1>1. job[j].step = "lookup" /\ UNCHANGED <<ticket, engine, tasks, skipped, faults>>
  BY DEF Lookup
<1>2. n \in job[j].todo /\ n \in AutoNodes /\ n \in Nodes /\ p \in Procs
  BY <1>1, TaskOfJob
<1>3. /\ UNCHANGED <<ticket, engine, task, id, advanced, skipped>>
      /\ advanced' \in [AutoNodes -> BOOLEAN] /\ faults' \in 0..MaxFaults
  BY <1>1 DEF tasks, AdvanceInv, TypeOK
<1>4. job[j] \in JobState /\ job[j].todo # {} /\ \A m \in job[j].todo : task[m] = "Success"
  BY <1>1 DEF AdvanceInv, TypeOK, JobInv, Sound
<1>5. CASE Found(n) /\ UNCHANGED missed /\ job' = [job EXCEPT ![j].step = "pass", ![j].found = found]
  <2>1. Current(p) = n
    BY <1>5 DEF Found, OpenAt
  <2>2. found \in Nodes \X Nat /\ found # <<>> /\ found[1] = n
    BY <1>2, <2>1 DEF EngineTask, AdvanceInv, TypeOK
  <2> HIDE DEF found
  <2>3. job' = [job EXCEPT ![j] = r]
    BY <1>5 DEF AdvanceInv, TypeOK
  <2>4. r = [step |-> "pass", todo |-> job[j].todo, full |-> job[j].full, after |-> job[j].after, found |-> found]
    BY <1>4, JobFound
  <2>5. r \in JobState /\ r.step = "pass" /\ r.todo = job[j].todo /\ r.found = found
    BY <1>4, <2>2, <2>4 DEF JobState, JobSteps
  <2> HIDE DEF r
  <2>6. missed' \subseteq AutoNodes /\ missed \subseteq missed'
    BY <1>5 DEF AdvanceInv, TypeOK
  <2>7. Oldest(r.todo) = n
    BY <2>5 DEF Task
  <2> HIDE DEF n
  <2> QED BY <1>1, <1>3, <1>4, <2>2, <2>3, <2>5, <2>6, <2>7, JobStep
<1>6. CASE /\ ~Found(n) /\ Step(j, "mark")
           /\ missed' = IF Unsettled(n) THEN missed \cup {n} ELSE missed
  <2>1. missed \subseteq missed' /\ missed' \subseteq AutoNodes
    BY <1>2, <1>6 DEF AdvanceInv, TypeOK
  <2>2. ASSUME ~Unsettled(n), row[p] # "gone" PROVE Over(n)
    <3>1. /\ IndexOf(n) <= pos[p]
          /\ Current(p) = n => row[p] # "finished" \/ n \in skipped
      BY <1>2, <2>2, CurrentNode, NodeOnPath DEF Unsettled, AdvanceInv
    <3>2. visits[n] >= 1
      BY <1>2, <3>1, NodeOnPath, CurrentNode DEF AdvanceInv, EngineInv
    <3>3. Current(p) = n => n \in skipped /\ row[p] # "open"
      <4>1. SUFFICES ASSUME Current(p) = n PROVE n \in skipped /\ row[p] # "open"
        OBVIOUS
      <4>2. row[p] # "open"
        BY <1>6, <4>1 DEF Found, OpenAt
      <4>3. row[p] = "sibling" => n \in skipped
        BY <1>2, <4>1 DEF AdvanceInv, EngineInv
      <4>4. row[p] \in RowState
        BY <1>2 DEF AdvanceInv, TypeOK
      <4> QED BY <2>2, <3>1, <4>1, <4>2, <4>3, <4>4 DEF RowState
    <3>4. visits[n] \in Nat
      BY <1>2 DEF AdvanceInv, TypeOK
    <3>5. visits[n] > 1 \/ visits[n] = 1
      BY <3>2, <3>4
    <3> QED BY <3>3, <3>5 DEF Over
  <2>3. n \in missed' \/ Over(n)
    BY <1>6, <2>2 DEF Over
  <2> QED BY <1>1, <1>6, <2>1, <2>3, StepKeeps
<1> QED BY <1>5, <1>6 DEF Lookup

LEMMA MarkKeeps ==
    ASSUME AdvanceInv, NEW j \in Jobs, Mark(j)
    PROVE  AdvanceInv'
<1>1. /\ job[j].step = "mark" /\ GoOn(j)
      /\ advanced' = [advanced EXCEPT ![Task(j)] = TRUE]
      /\ UNCHANGED <<ticket, engine, task, id, ghosts, faults>>
  BY DEF Mark
<1>2. Task(j) \in missed \/ Over(Task(j))
  BY <1>1 DEF AdvanceInv, JobInv, Sound, Task
<1>3. advanced' \in [AutoNodes -> BOOLEAN] /\ faults' \in 0..MaxFaults
  BY <1>1 DEF AdvanceInv, TypeOK
<1>4. \A n \in AutoNodes : advanced'[n] => advanced[n] \/ n \in missed \/ Over(n)
  <2>1. \A n \in AutoNodes : n # Task(j) => advanced'[n] = advanced[n]
    BY <1>1 DEF AdvanceInv, TypeOK
  <2> QED BY <1>2, <2>1
<1> QED BY <1>1, <1>3, <1>4, GoOnKeeps

LEMMA JobErrs ==
    ASSUME AdvanceInv, NEW j \in Jobs, JobError(j) \/ JobCrash(j)
    PROVE  AdvanceInv'
<1>1. /\ UNCHANGED <<ticket, engine, tasks, ghosts>> /\ Fault
      /\ \/ job[j].step # "passing" /\ job' = [job EXCEPT ![j] = JobStart]
         \/ job[j].step \notin {"list", "passing"} /\ GoOn(j)
  BY DEF JobError, JobCrash
<1>2. /\ UNCHANGED <<ticket, engine, task, id, advanced, ghosts>>
      /\ advanced' \in [AutoNodes -> BOOLEAN] /\ faults' \in 0..MaxFaults
  BY <1>1, Faults DEF tasks, AdvanceInv, TypeOK
<1> QED BY <1>1, <1>2, Restart, GoOnKeeps

LEMMA TasksKeep ==
    ASSUME AdvanceInv,
           \/ \E n \in AutoNodes : StartTask(n) \/ StartTaskBlocks(n) \/ Succeed(n)
                                \/ ExecutionFails(n) \/ Retry(n)
           \/ \E p \in Procs : PrepareWithdrawal(p) \/ RollbackWithdrawal(p) \/ FinalizeWithdrawal(p)
    PROVE  AdvanceInv'
<1>1. CASE \E n \in AutoNodes : StartTask(n) \/ StartTaskBlocks(n) \/ Succeed(n) \/ ExecutionFails(n) \/ Retry(n)
  <2>1. PICK n \in AutoNodes, s \in TaskState :
          /\ task[n] # "Success"
          /\ task' = [task EXCEPT ![n] = s]
          /\ UNCHANGED <<ticket, engine, advanced, id, job, ghosts>>
          /\ Fault \/ UNCHANGED faults
    BY <1>1 DEF StartTask, StartTaskBlocks, Succeed, ExecutionFails, Retry, TaskState
  <2>2. task' \in [AutoNodes -> TaskState] /\ \A m \in AutoNodes : task[m] = "Success" => task'[m] = "Success"
    BY <2>1 DEF AdvanceInv, TypeOK
  <2>3. ticket' \in [Procs -> TicketState] /\ \A p \in Procs : TicketMoves(p)
    BY <2>1 DEF AdvanceInv, TypeOK, TicketMoves
  <2>4. faults' \in 0..MaxFaults
    BY <2>1, Faults DEF AdvanceInv
  <2> QED BY <2>1, <2>2, <2>3, <2>4, TaskStep
<1>2. CASE \E p \in Procs : PrepareWithdrawal(p) \/ RollbackWithdrawal(p) \/ FinalizeWithdrawal(p)
  <2>1. PICK p \in Procs, s \in TicketState :
          /\ ticket' = [ticket EXCEPT ![p] = s]
          /\ ticket[p] # "END" /\ s # "END"
          /\ s = "WITHDRAW" => row[p] = "gone"
          /\ UNCHANGED <<engine, advanced, id, job, ghosts, faults>>
          /\ \/ UNCHANGED task
             \/ task' = [n \in AutoNodes |->
                           IF ProcOf(n) = p /\ task[n] \in {"Waiting", "Blocked", "Failed"}
                             THEN "Cancelled" ELSE task[n]]
    BY <1>2 DEF PrepareWithdrawal, RollbackWithdrawal, FinalizeWithdrawal, TicketState, tasks
  <2>2. task' \in [AutoNodes -> TaskState] /\ \A m \in AutoNodes : task[m] = "Success" => task'[m] = "Success"
    BY <2>1 DEF AdvanceInv, TypeOK, TaskState
  <2>3. ticket' \in [Procs -> TicketState] /\ \A q \in Procs : TicketMoves(q)
    BY <2>1 DEF AdvanceInv, TypeOK, TicketMoves
  <2>4. faults' \in 0..MaxFaults
    BY <2>1, Faults DEF AdvanceInv
  <2> QED BY <2>1, <2>2, <2>3, <2>4, TaskStep
<1> QED BY <1>1, <1>2

(***************************************************************************)
(* Steps of an engine call                                                 *)
(***************************************************************************)

\* What the caller of an engine call that ends does
LEMMA Returned ==
    ASSUME AdvanceInv, NEW p \in Procs, NEW ok \in BOOLEAN, Return(p, ok)
    PROVE  /\ job' \in [Jobs -> JobState]
           /\ \A j \in Jobs : call[p].by # j => job'[j] = job[j]
           /\ \A j \in Jobs : call[p].by = j =>
                /\ job'[j].step \in {"list", "check", "mark"}
                /\ job'[j].step # "list" => job'[j].todo # {}
                /\ \A n \in job'[j].todo : n \in AutoNodes /\ task[n] = "Success"
                /\ job'[j].step = "mark" => ok /\ job'[j].todo = job[j].todo
<1> DEFINE R(j) == IF call[p].by # j THEN job[j]
                   ELSE IF ok THEN [job[j] EXCEPT !.step = "mark"] ELSE NextTask(job[j])
<1>1. job' = [j \in Jobs |-> R(j)]
  BY DEF Return
<1>2. ASSUME NEW j \in Jobs
      PROVE  /\ R(j) \in JobState
             /\ call[p].by # j => R(j) = job[j]
             /\ call[p].by = j =>
                  /\ R(j).step \in {"list", "check", "mark"}
                  /\ R(j).step # "list" => R(j).todo # {}
                  /\ \A n \in R(j).todo : n \in AutoNodes /\ task[n] = "Success"
                  /\ R(j).step = "mark" => ok /\ R(j).todo = job[j].todo
  <2>1. job[j] \in JobState /\ \A n \in job[j].todo : task[n] = "Success"
    BY DEF AdvanceInv, TypeOK, JobInv, Sound
  <2>2. CASE call[p].by # j
    BY <2>1, <2>2
  <2>3. CASE call[p].by = j
    <3>1. job[j].todo # {}
      BY <2>3 DEF AdvanceInv, EngineInv, JobInv, Sound
    <3>2. CASE ok
      <4>1. R(j) = [job[j] EXCEPT !.step = "mark"]
        BY <2>3, <3>2
      <4>2. [job[j] EXCEPT !.step = "mark"]
              = [step |-> "mark", todo |-> job[j].todo, full |-> job[j].full, after |-> job[j].after,
                 found |-> job[j].found]
        BY <2>1 DEF JobState
      <4> HIDE DEF R
      <4>3. R(j) \in JobState /\ R(j).step = "mark" /\ R(j).todo = job[j].todo
        BY <2>1, <4>1, <4>2 DEF JobState, JobSteps
      <4> QED BY <2>1, <2>3, <3>1, <3>2, <4>3 DEF JobState
    <3>3. CASE ~ok
      <4>1. R(j) = NextTask(job[j])
        BY <2>3, <3>3
      <4> HIDE DEF R
      <4>2. /\ R(j) \in JobState
            /\ R(j).step \in {"list", "check"}
            /\ R(j).step # "list" => R(j).todo # {}
            /\ \A n \in R(j).todo : task[n] = "Success"
        BY <2>1, <3>1, <4>1, NextTaskSound DEF AdvanceInv
      <4> QED BY <2>3, <4>2 DEF JobState
    <3> QED BY <3>2, <3>3
  <2> QED BY <2>2, <2>3
<1> HIDE DEF R
<1> QED BY <1>1, <1>2

\* A call that ends: the instance waits at a node again, or is gone
LEMMA CallEnds ==
    ASSUME AdvanceInv, TypeOK', NEW p \in Procs, NEW ok \in BOOLEAN, Return(p, ok),
           call' = [call EXCEPT ![p] = NoCall],
           \A q \in Procs : q # p => /\ pos'[q] = pos[q] /\ row'[q] = row[q] /\ ticket'[q] = ticket[q]
                                     /\ row[q] = "sibling" => Current(q) \in skipped',
           row'[p] # "finished",
           row'[p] = "sibling" => Path[p][pos'[p]] \in skipped',
           ticket'[p] = "END" => row'[p] = "gone", ticket'[p] = "WITHDRAW" => row'[p] = "gone",
           \A q \in Procs : \A k \in 1..pos'[q] : visits'[Path[q][k]] >= 1,
           \A n \in AutoNodes : Over(n) \/ (ok /\ n = Current(p)) => Over(n)',
           \A n \in AutoNodes : task[n] = "Success" => task'[n] = "Success" /\ id'[n] = id[n],
           missed' = missed, advanced' = advanced
    PROVE  AdvanceInv'
<1>1. /\ \A j \in Jobs : call[p].by # j => job'[j] = job[j]
      /\ \A j \in Jobs : call[p].by = j =>
           /\ job'[j].step \in {"list", "check", "mark"}
           /\ job'[j].step # "list" => job'[j].todo # {}
           /\ \A n \in job'[j].todo : n \in AutoNodes /\ task[n] = "Success"
           /\ job'[j].step = "mark" => ok /\ job'[j].todo = job[j].todo
  BY Returned
<1>2. /\ \A q \in Procs : q # p => call'[q] = call[q]
      /\ call'[p] = NoCall /\ NoCall.step = "none" /\ NoCall.by = NoCaller
  BY DEF AdvanceInv, TypeOK, NoCall
<1>3. ASSUME NEW j \in Jobs
      PROVE  /\ job[j].todo \subseteq AutoNodes /\ \A n \in job[j].todo : task[n] = "Success" /\ id'[n] = id[n]
             /\ job'[j].todo = job[j].todo => Oldest(job[j].todo)' = Oldest(job[j].todo)
  <2>1. job[j].todo \subseteq AutoNodes /\ \A n \in job[j].todo : task[n] = "Success" /\ id'[n] = id[n]
    BY DEF AdvanceInv, TypeOK, JobState, JobInv, Sound
  <2>2. PICK S : S = job[j].todo
    OBVIOUS
  <2>3. Oldest(S)' = Oldest(S)
    BY <2>1, <2>2, OldestStays
  <2>4. job'[j].todo = S => Oldest(job[j].todo)' = Oldest(S)'
    BY DEF Oldest
  <2> QED BY <2>1, <2>2, <2>3, <2>4
<1>4. EngineInv'
  <2>1. ASSUME NEW q \in Procs, NEW j \in Jobs, call'[q].by = j
        PROVE  row'[q] = "finished" /\ job'[j].step = "passing" /\ Task(j)' = Current(q)'
    <3>1. q # p
      BY <1>2, <2>1, ProcessAdvanceAssumption DEF ProcessAdvanceAssumption
    <3>2. row[q] = "finished" /\ job[j].step = "passing" /\ Task(j) = Current(q)
      BY <1>2, <2>1, <3>1 DEF AdvanceInv, EngineInv
    <3>3. call[p].by # j
      <4>1. SUFFICES ASSUME call[p].by = j PROVE FALSE
        OBVIOUS
      <4>2. Task(j) = Current(p)
        BY <4>1 DEF AdvanceInv, EngineInv
      <4>3. ProcOf(Current(q)) = q /\ ProcOf(Current(p)) = p
        BY CurrentNode DEF AdvanceInv
      <4> QED BY <3>1, <3>2, <4>2, <4>3
    <3>4. job'[j] = job[j]
      BY <1>1, <3>3
    <3>5. Task(j)' = Task(j)
      BY <1>3, <3>4 DEF Task
    <3> QED BY <3>1, <3>2, <3>4, <3>5 DEF Current
  <2>2. ASSUME NEW q \in Procs
        PROVE  /\ call'[q].step = "none" <=> row'[q] # "finished"
               /\ row'[q] = "finished" =>
                    call'[q].to \in {pos'[q] - 1, pos'[q] + 1} /\ call'[q].to >= 1
               /\ call'[q].step \in {"start", "insert"} => call'[q].to <= Len(Path[q])
               /\ row'[q] = "sibling" => Current(q)' \in skipped'
               /\ ticket'[q] = "END" => row'[q] = "gone" \/ call'[q].step = "end"
               /\ ticket'[q] = "WITHDRAW" => row'[q] = "gone"
    <3>1. CASE q = p
      BY <1>2, <3>1 DEF Current
    <3>2. CASE q # p
      BY <1>2, <3>2 DEF Current, AdvanceInv, EngineInv
    <3> QED BY <3>1, <3>2
  <2> QED BY <2>1, <2>2 DEF EngineInv
<1>5. JobInv'
  <2>1. ASSUME NEW j \in Jobs PROVE Sound(job[j])'
    <3>1. CASE call[p].by = j
      <4>1. ASSUME job'[j].step = "mark" PROVE Over(Oldest(job[j].todo))'
        <5>1. ok /\ job'[j].todo = job[j].todo
          BY <1>1, <3>1, <4>1
        <5>2. Task(j) = Current(p) /\ job[j].step = "passing"
          BY <3>1 DEF AdvanceInv, EngineInv
        <5>3. Task(j) \in AutoNodes
          BY <5>2, TaskOfJob
        <5>4. PICK n \in AutoNodes : n = Task(j)
          BY <5>3
        <5>5. Oldest(job[j].todo)' = n
          BY <1>3, <5>1, <5>4 DEF Task
        <5>6. Over(n)'
          BY <5>1, <5>2, <5>4
        <5> QED BY <5>5, <5>6 DEF Over
      <4> QED BY <1>1, <3>1, <4>1 DEF Sound
    <3>2. CASE call[p].by # j
      <4>1. Sound(job[j]) /\ job'[j] = job[j] /\ job[j].todo \subseteq AutoNodes
        BY <1>1, <1>3, <3>2 DEF AdvanceInv, JobInv
      <4>2. Oldest(job[j].todo)' = Oldest(job[j].todo)
        BY <1>3, <4>1
      <4>3. job[j].step = "mark" => Oldest(job[j].todo) \in AutoNodes
        BY TaskOfJob DEF Task
      <4>4. ASSUME job[j].step = "mark" PROVE (Oldest(job[j].todo) \in missed \/ Over(Oldest(job[j].todo)))'
        <5>1. PICK n \in AutoNodes : n = Oldest(job[j].todo)
          BY <4>3, <4>4
        <5>2. n \in missed \/ Over(n)'
          BY <4>1, <4>4, <5>1 DEF Sound
        <5> QED BY <4>2, <5>1, <5>2 DEF Over
      <4> QED BY <1>3, <4>1, <4>2, <4>4 DEF Sound
    <3> QED BY <3>1, <3>2
  <2> QED BY <2>1 DEF JobInv
<1>6. MarkInv'
  BY DEF AdvanceInv, MarkInv
<1> QED BY <1>4, <1>5, <1>6 DEF AdvanceInv

\* What ends a call keeps what the engine is done with
LEMMA ArriveKeeps ==
    ASSUME AdvanceInv, NEW p \in Procs, Arrive(p), call[p].step \notin {"none", "end"},
           call[p].to <= Len(Path[p]),
           UNCHANGED <<ticket, tasks, missed, faults>>
    PROVE  AdvanceInv'
<1> DEFINE k == call[p].to
           m == Path[p][k]
<1>1. row[p] = "finished" /\ k \in {pos[p] - 1, pos[p] + 1} /\ k >= 1 /\ k \in Nat
  BY DEF AdvanceInv, TypeOK, Calls, EngineInv
<1>2. k \in 1..Len(Path[p]) /\ m \in Nodes /\ ProcOf(m) = p /\ IndexOf(m) = k
  BY <1>1, Paths
<1>3. /\ pos' = [pos EXCEPT ![p] = k]
      /\ row' = [row EXCEPT ![p] = "open"]
      /\ visits' = [visits EXCEPT ![m] = visits[m] + 1]
      /\ call' = [call EXCEPT ![p] = NoCall]
      /\ skipped' = skipped \ {m}
      /\ Return(p, TRUE)
      /\ UNCHANGED <<ticket, task, advanced, id, missed, faults>>
  BY <1>2 DEF Arrive, tasks, AdvanceInv, TypeOK
<1> HIDE DEF m
<1>4. /\ pos'[p] = k /\ row'[p] = "open"
      /\ \A q \in Procs : q # p => pos'[q] = pos[q] /\ row'[q] = row[q]
      /\ \A n \in Nodes : visits'[n] = IF n = m THEN visits[n] + 1 ELSE visits[n]
      /\ \A n \in Nodes : visits[n] \in Nat
  BY <1>2, <1>3 DEF AdvanceInv, TypeOK
<1>5. TypeOK'
  <2>1. job' \in [Jobs -> JobState]
    BY <1>3, Returned
  <2>2. call' \in [Procs -> Calls]
    BY <1>3 DEF AdvanceInv, TypeOK, Calls, NoCall
  <2>3. pos' \in [Procs -> Nat] /\ \A q \in Procs : pos'[q] \in 1..Len(Path[q])
    BY <1>2, <1>3, <1>4 DEF AdvanceInv, TypeOK
  <2>4. row' \in [Procs -> RowState]
    BY <1>3 DEF AdvanceInv, TypeOK, RowState
  <2>5. visits' \in [Nodes -> Nat]
    <3>1. visits[m] + 1 \in Nat /\ visits \in [Nodes -> Nat]
      BY <1>2, <1>4 DEF AdvanceInv, TypeOK
    <3> QED BY <1>3, <3>1
  <2> QED BY <1>3, <2>1, <2>2, <2>3, <2>4, <2>5 DEF AdvanceInv, TypeOK
<1>6. ASSUME NEW q \in Procs, NEW i \in 1..pos'[q] PROVE visits'[Path[q][i]] >= 1
  <2>1. i \in 1..Len(Path[q]) /\ Path[q][i] \in Nodes
    BY <1>5, Paths DEF TypeOK
  <2>2. CASE i \in 1..pos[q]
    BY <1>4, <2>1, <2>2 DEF AdvanceInv, EngineInv
  <2>3. CASE i \notin 1..pos[q]
    <3>1. q = p /\ i = k
      BY <1>1, <1>2, <1>4, <2>1, <2>3, CurrentNode DEF AdvanceInv
    <3> QED BY <1>4, <2>1, <3>1 DEF m
  <2> QED BY <2>2, <2>3
<1>7. ASSUME NEW q \in Procs, q # p, row[q] = "sibling" PROVE Current(q) \in skipped'
  <2>1. Current(q) \in skipped /\ Current(q) # m
    BY <1>2, <1>7, CurrentNode DEF AdvanceInv, EngineInv
  <2> QED BY <1>3, <2>1
<1>9. ticket[p] \notin {"END", "WITHDRAW"}
  BY <1>1 DEF AdvanceInv, EngineInv
<1>8. ASSUME NEW n \in AutoNodes, Over(n) \/ n = Current(p) PROVE Over(n)'
  <2>1. n \in Nodes /\ ProcOf(n) \in Procs
    BY AutoAreNodes, NodeOnPath
  <2>2. Path[p][pos'[p]] = m
    BY <1>4 DEF m
  <2>3. CASE n = m
    <3>1. /\ row[ProcOf(n)] # "gone" /\ ticket[ProcOf(n)] # "END"
          /\ n # Current(p)
      BY <1>1, <1>2, <1>9, <2>3, CurrentNode DEF AdvanceInv
    <3>2. visits[n] >= 1
      BY <1>4, <1>8, <2>1, <3>1 DEF Over
    <3> QED BY <1>4, <2>1, <2>3, <3>2 DEF Over
  <2>4. CASE n # m /\ ProcOf(n) = p
    <3>1. visits[n] >= 1 \/ row[p] = "gone"
      <4>1. CASE Over(n)
        BY <1>4, <1>9, <2>1, <2>4, <4>1 DEF Over
      <4>2. CASE n = Current(p)
        BY <4>2, CurrentNode DEF AdvanceInv, EngineInv, Current
      <4> QED BY <1>8, <4>1, <4>2
    <3>2. visits'[n] \in Nat /\ visits'[n] >= 1
      BY <1>1, <1>4, <2>1, <2>4, <3>1
    <3>3. Path[ProcOf(n)][pos'[ProcOf(n)]] # n
      BY <2>2, <2>4
    <3>4. visits'[n] > 1 \/ visits'[n] = 1
      BY <3>2
    <3> QED BY <3>3, <3>4 DEF Over, Current
  <2>5. CASE n # m /\ ProcOf(n) # p
    <3>1. Over(n)
      BY <1>8, <2>5, CurrentNode DEF AdvanceInv
    <3>2. /\ visits'[n] = visits[n] /\ row'[ProcOf(n)] = row[ProcOf(n)]
          /\ pos'[ProcOf(n)] = pos[ProcOf(n)] /\ (n \in skipped => n \in skipped')
      BY <1>3, <1>4, <2>1, <2>5
    <3> QED BY <3>1, <3>2 DEF Over, Current
  <2> QED BY <2>3, <2>4, <2>5
<1> HIDE DEF k
<1> QED BY <1>3, <1>4, <1>5, <1>6, <1>7, <1>8, <1>9, CallEnds

LEMMA CallFailsKeeps ==
    ASSUME AdvanceInv, NEW p \in Procs, CallFails(p), call[p].step \notin {"none", "end"},
           UNCHANGED <<ticket, advanced, ghosts>>,
           task' \in [AutoNodes -> TaskState], id' \in [AutoNodes -> Nat], faults' \in 0..MaxFaults,
           \A n \in AutoNodes : task[n] = "Success" => task'[n] = "Success" /\ id'[n] = id[n]
    PROVE  AdvanceInv'
<1>1. row[p] = "finished"
  BY DEF AdvanceInv, EngineInv
<1>2. /\ row' = [row EXCEPT ![p] = IF Current(p) \in skipped THEN "sibling" ELSE "open"]
      /\ call' = [call EXCEPT ![p] = NoCall]
      /\ Return(p, FALSE)
      /\ UNCHANGED <<ticket, pos, visits, advanced, missed, skipped>>
  BY DEF CallFails, ghosts
<1>3. /\ \A q \in Procs : q # p => pos'[q] = pos[q] /\ row'[q] = row[q]
      /\ row'[p] = IF Current(p) \in skipped THEN "sibling" ELSE "open"
  BY <1>2 DEF AdvanceInv, TypeOK
<1>4. TypeOK'
  <2>1. job' \in [Jobs -> JobState]
    BY <1>2, Returned
  <2>2. call' \in [Procs -> Calls]
    BY <1>2 DEF AdvanceInv, TypeOK, Calls, NoCall
  <2>3. row' \in [Procs -> RowState]
    BY <1>2 DEF AdvanceInv, TypeOK, RowState
  <2> QED BY <1>2, <2>1, <2>2, <2>3 DEF AdvanceInv, TypeOK
<1>5. ASSUME NEW n \in AutoNodes, Over(n) PROVE Over(n)'
  <2>1. ProcOf(n) \in Procs
    BY AutoAreNodes, NodeOnPath
  <2>2. CASE ProcOf(n) = p
    BY <1>1, <1>2, <1>3, <1>5, <2>2 DEF Over, Current
  <2>3. CASE ProcOf(n) # p
    BY <1>2, <1>3, <1>5, <2>1, <2>3 DEF Over, Current
  <2> QED BY <2>2, <2>3
<1>6. \A q \in Procs : row[q] = "sibling" => Current(q) \in skipped
  BY DEF AdvanceInv, EngineInv
<1>7. row'[p] = "sibling" => Path[p][pos'[p]] \in skipped'
  BY <1>2, <1>3 DEF Current
<1>8. ticket[p] \notin {"END", "WITHDRAW"}
  BY <1>1 DEF AdvanceInv, EngineInv
<1>9. \A q \in Procs : \A k \in 1..pos'[q] : visits'[Path[q][k]] >= 1
  BY <1>2 DEF AdvanceInv, EngineInv
<1>10. row'[p] # "finished" /\ UNCHANGED <<ticket, missed, skipped, advanced>>
  BY <1>2, <1>3
<1>11. PICK ok \in BOOLEAN : ok = FALSE
  OBVIOUS
<1>12. Return(p, ok) /\ \A n \in AutoNodes : Over(n) \/ (ok /\ n = Current(p)) => Over(n)'
  BY <1>2, <1>5, <1>11
<1> QED BY <1>2, <1>3, <1>4, <1>6, <1>7, <1>8, <1>9, <1>10, <1>12, CallEnds

LEMMA EndProcessKeeps ==
    ASSUME AdvanceInv, NEW p \in Procs, EndProcess(p)
    PROVE  AdvanceInv'
<1>1. /\ call[p].step # "none"
      /\ row' = [row EXCEPT ![p] = "gone"]
      /\ call' = [call EXCEPT ![p] = NoCall]
      /\ Return(p, TRUE)
      /\ UNCHANGED <<ticket, pos, visits, task, advanced, id, missed, skipped, faults>>
  BY DEF EndProcess, tasks, ghosts
<1>2. /\ \A q \in Procs : q # p => pos'[q] = pos[q] /\ row'[q] = row[q] /\ ticket'[q] = ticket[q]
      /\ row'[p] = "gone"
  BY <1>1 DEF AdvanceInv, TypeOK
<1>3. TypeOK'
  <2>1. job' \in [Jobs -> JobState]
    BY <1>1, Returned
  <2>2. call' \in [Procs -> Calls]
    BY <1>1 DEF AdvanceInv, TypeOK, Calls, NoCall
  <2>3. row' \in [Procs -> RowState]
    BY <1>1 DEF AdvanceInv, TypeOK, RowState
  <2> QED BY <1>1, <2>1, <2>2, <2>3 DEF AdvanceInv, TypeOK
<1>4. ASSUME NEW n \in AutoNodes, Over(n) \/ n = Current(p) PROVE Over(n)'
  <2>1. ProcOf(n) \in Procs
    BY AutoAreNodes, NodeOnPath
  <2>2. CASE ProcOf(n) = p
    BY <1>2, <2>2 DEF Over
  <2>3. CASE ProcOf(n) # p
    <3>1. Over(n)
      BY <1>4, <2>3, CurrentNode DEF AdvanceInv
    <3> QED BY <1>1, <1>2, <2>1, <2>3, <3>1 DEF Over, Current
  <2> QED BY <2>2, <2>3
<1>5. \A q \in Procs : row[q] = "sibling" => Current(q) \in skipped
  BY DEF AdvanceInv, EngineInv
<1>6. \A q \in Procs : \A k \in 1..pos'[q] : visits'[Path[q][k]] >= 1
  BY <1>1 DEF AdvanceInv, EngineInv
<1> QED BY <1>1, <1>2, <1>3, <1>4, <1>5, <1>6, CallEnds

\* A call that goes on to the insertion of the next task, or to the end
LEMMA CallGoesOn ==
    ASSUME AdvanceInv, NEW p \in Procs, NEW s \in {"start", "insert", "end"},
           call' = [call EXCEPT ![p].step = s],
           call[p].step \notin {"none", "end"}, s # "end" => call[p].to <= Len(Path[p]),
           ticket' = IF s = "end" THEN [ticket EXCEPT ![p] = "END"] ELSE ticket,
           UNCHANGED <<pos, row, visits, advanced, job, ghosts>>,
           task' \in [AutoNodes -> TaskState], id' \in [AutoNodes -> Nat], faults' \in 0..MaxFaults,
           \A n \in AutoNodes : task[n] = "Success" => task'[n] = "Success" /\ id'[n] = id[n]
    PROVE  AdvanceInv'
<1>1. \A q \in Procs : /\ call'[q].to = call[q].to /\ call'[q].by = call[q].by
                       /\ call'[q].step = IF q = p THEN s ELSE call[q].step
  BY DEF AdvanceInv, TypeOK, Calls
<1>2. TypeOK'
  <2>1. call' \in [Procs -> Calls]
    BY DEF AdvanceInv, TypeOK, Calls
  <2>2. ticket' \in [Procs -> TicketState]
    BY DEF AdvanceInv, TypeOK, TicketState
  <2> QED BY <2>1, <2>2 DEF AdvanceInv, TypeOK, ghosts
<1>3. UNCHANGED <<pos, row, visits, advanced, job, missed, skipped>>
  BY DEF ghosts
<1>10. \A q \in Procs : ticket'[q] = IF q = p /\ s = "end" THEN "END" ELSE ticket[q]
  BY DEF AdvanceInv, TypeOK
<1>4. ASSUME NEW n \in AutoNodes, Over(n) PROVE Over(n)'
  <2>1. ProcOf(n) \in Procs
    BY AutoAreNodes, NodeOnPath
  <2>2. ticket[ProcOf(n)] = "END" => ticket'[ProcOf(n)] = "END"
    BY <1>10, <2>1
  <2> QED BY <1>3, <1>4, <2>2 DEF Over, Current
<1>5. ASSUME NEW j \in Jobs
      PROVE  /\ Oldest(job[j].todo)' = Oldest(job[j].todo)
             /\ \A n \in job[j].todo : task[n] = "Success" /\ task'[n] = "Success"
  <2>1. PICK S : S = job[j].todo
    OBVIOUS
  <2>2. S \subseteq AutoNodes /\ \A n \in S : task[n] = "Success"
    BY <2>1 DEF AdvanceInv, TypeOK, JobState, JobInv, Sound
  <2>3. Oldest(S)' = Oldest(S)
    BY <2>2, OldestStays
  <2>4. Oldest(job[j].todo)' = Oldest(S)'
    BY <1>3, <2>1 DEF Oldest
  <2> QED BY <2>1, <2>2, <2>3, <2>4
<1>6. EngineInv'
  <2>1. \A j \in Jobs : Task(j)' = Task(j)
    BY <1>5 DEF Task
  <2>2. ASSUME NEW q \in Procs
        PROVE  /\ ticket'[q] = "END" => row[q] = "gone" \/ call'[q].step = "end"
               /\ ticket'[q] = "WITHDRAW" => row[q] = "gone"
    <3>1. row[p] = "finished"
      BY DEF AdvanceInv, EngineInv
    <3> QED BY <1>1, <1>10, <3>1 DEF AdvanceInv, EngineInv
  <2> QED BY <1>1, <1>3, <2>1, <2>2 DEF AdvanceInv, EngineInv, Current
<1>7. JobInv'
  <2>1. ASSUME NEW j \in Jobs PROVE Sound(job[j])'
    <3>1. Sound(job[j])
      BY DEF AdvanceInv, JobInv
    <3>2. PICK n : n = Oldest(job[j].todo)
      OBVIOUS
    <3>3. job[j].step = "mark" => n \in missed \/ Over(n)'
      BY <1>4, <3>1, <3>2, TaskOfJob DEF Sound, Task
    <3> QED BY <1>3, <1>5, <3>1, <3>2, <3>3 DEF Sound, Over
  <2> QED BY <2>1 DEF JobInv
<1>8. MarkInv'
  BY <1>3, <1>4 DEF AdvanceInv, MarkInv
<1> QED BY <1>2, <1>6, <1>7, <1>8 DEF AdvanceInv

LEMMA NextIdIsNat == NextId \in Nat
<1>1. IsFiniteSet({n \in AutoNodes : id[n] > 0})
  BY AutoAreNodes, FS_Subset
<1> QED BY <1>1, FS_CardinalityType DEF NextId

LEMMA EngineCallKeeps ==
    ASSUME AdvanceInv, NEW p \in Procs, EngineCall(p)
    PROVE  AdvanceInv'
<1>1. CASE EnterUserNode(p) \/ InsertTask(p)
  <2>1. Arrive(p) /\ call[p].step \notin {"none", "end"} /\ UNCHANGED <<ticket, tasks, missed, faults>>
    BY <1>1 DEF EnterUserNode, Entering, InsertTask
  <2>2. call[p].to <= Len(Path[p])
    BY <1>1 DEF EnterUserNode, Entering, InsertTask, AdvanceInv, EngineInv
  <2> QED BY <2>1, <2>2, ArriveKeeps
<1>2. CASE FindTask(p) \/ CreateTask(p) \/ StartNow(p)
  <2>1. /\ call[p].step \notin {"none", "end"}
        /\ UNCHANGED <<ticket, pos, row, visits, advanced, job, ghosts, faults>>
    BY <1>2 DEF FindTask, CreateTask, StartNow, Entering, tasks
  <2>2. call[p].to <= Len(Path[p])
    BY <1>2 DEF FindTask, CreateTask, StartNow, Entering, AdvanceInv, EngineInv
  <2>3. PICK s \in {"start", "insert"} : call' = [call EXCEPT ![p].step = s]
    BY <1>2 DEF FindTask, CreateTask, StartNow
  <2>4. /\ task' \in [AutoNodes -> TaskState] /\ id' \in [AutoNodes -> Nat]
        /\ \A n \in AutoNodes : task[n] = "Success" => task'[n] = "Success" /\ id'[n] = id[n]
    <3>1. CASE FindTask(p)
      BY <3>1 DEF FindTask, tasks, AdvanceInv, TypeOK
    <3>2. CASE CreateTask(p)
      <4>1. PICK n \in AutoNodes : /\ task[n] = "Absent" /\ task' = [task EXCEPT ![n] = "Waiting"]
                              /\ id' = [id EXCEPT ![n] = NextId]
        BY <3>2 DEF CreateTask
      <4> QED BY <4>1, NextIdIsNat DEF AdvanceInv, TypeOK, TaskState
    <3>3. CASE StartNow(p)
      <4>1. id' = id
        BY <3>3 DEF StartNow
      <4>2. \/ task' = task
            \/ \E n : task[n] = "Waiting" /\ task' = [task EXCEPT ![n] = "Active"]
        BY <3>3 DEF StartNow
      <4> QED BY <4>1, <4>2 DEF AdvanceInv, TypeOK, TaskState
    <3> QED BY <1>2, <3>1, <3>2, <3>3
  <2>5. faults' \in 0..MaxFaults
    BY <2>1 DEF AdvanceInv, TypeOK
  <2> QED BY <2>1, <2>2, <2>3, <2>4, <2>5, CallGoesOn
<1>3. CASE EventNotify(p)
  <2>1. /\ call[p].step = "enter" /\ call' = [call EXCEPT ![p].step = "end"]
        /\ ticket' = [ticket EXCEPT ![p] = "END"]
        /\ UNCHANGED <<pos, row, visits, task, id, advanced, job, ghosts, faults>>
    BY <1>3 DEF EventNotify, ComesToEnd, tasks
  <2>2. PICK s \in {"start", "insert", "end"} : s = "end"
    OBVIOUS
  <2> QED BY <2>1, <2>2, CallGoesOn DEF AdvanceInv, TypeOK
<1> QED BY <1>1, <1>2, <1>3, EndProcessKeeps DEF EngineCall

\* The event of the node fails
LEMMA EventFailsKeeps ==
    ASSUME AdvanceInv, NEW p \in Procs, EventFails(p)
    PROVE  AdvanceInv'
<1>1. /\ call[p].step \notin {"none", "end"} /\ Fault /\ CallFails(p)
      /\ UNCHANGED <<ticket, advanced, ghosts>>
  BY DEF EventFails, CreateBlocked, StartNowFails, EventNotifyFails, Entering, ComesToEnd, tasks
<1>6. faults' \in 0..MaxFaults
  BY <1>1, Faults DEF AdvanceInv
<1>7. EventNotifyFails(p) => AdvanceInv'
  <2> SUFFICES ASSUME EventNotifyFails(p) PROVE AdvanceInv'
    OBVIOUS
  <2>1. UNCHANGED <<task, id>>
    BY DEF EventNotifyFails, tasks
  <2> QED BY <1>1, <1>6, <2>1, CallFailsKeeps DEF AdvanceInv, TypeOK
<1> SUFFICES ASSUME CreateBlocked(p) \/ StartNowFails(p) PROVE AdvanceInv'
  BY <1>7 DEF EventFails
<1>2. PICK n : \E s \in TaskState :
        /\ task[n] # "Success" /\ task' = [task EXCEPT ![n] = s]
        /\ id' = id \/ (task[n] = "Absent" /\ id' = [id EXCEPT ![n] = NextId])
  <2>1. CASE CreateBlocked(p)
    BY <2>1 DEF CreateBlocked, TaskState
  <2>2. CASE StartNowFails(p)
    <3>1. PICK s \in {"Blocked", "Active", "Failed"} : task' = [task EXCEPT ![Target(p)] = s]
      BY <2>2 DEF StartNowFails
    <3>2. task[Target(p)] = "Waiting" /\ id' = id
      BY <2>2 DEF StartNowFails
    <3> QED BY <3>1, <3>2 DEF TaskState
  <2> QED BY <2>1, <2>2
<1>3. task' \in [AutoNodes -> TaskState] /\ id' \in [AutoNodes -> Nat]
  BY <1>2, NextIdIsNat DEF AdvanceInv, TypeOK
<1>4. \A m \in AutoNodes : task[m] = "Success" => task'[m] = "Success" /\ id'[m] = id[m]
  BY <1>2 DEF AdvanceInv, TypeOK
<1> QED BY <1>1, <1>3, <1>4, <1>6, CallFailsKeeps

\* A task of the engine is finished, and the call for it begins
LEMMA CallBegins ==
    ASSUME AdvanceInv, NEW p \in Procs, NEW k \in Nat, NEW b \in Jobs \cup {Person},
           row[p] \in {"open", "sibling"},
           row' = [row EXCEPT ![p] = "finished"],
           call' = [call EXCEPT ![p] = [step |-> "enter", to |-> k, by |-> b]],
           k \in {pos[p] - 1, pos[p] + 1}, k >= 1,
           b \in Jobs => job[b].step = "pass" /\ Task(b) = Current(p),
           job' = [j \in Jobs |-> IF j = b THEN [job[j] EXCEPT !.step = "passing"] ELSE job[j]],
           skipped \subseteq skipped', skipped' \subseteq Raced,
           UNCHANGED <<ticket, pos, visits, tasks, missed, faults>>
    PROVE  AdvanceInv'
<1>1. UNCHANGED <<ticket, pos, visits, task, advanced, id, missed, faults>>
  BY DEF tasks
<1>2. \A q \in Procs : /\ q # p => row'[q] = row[q] /\ call'[q] = call[q]
                       /\ q = p => /\ row'[q] = "finished" /\ call'[q].step = "enter"
                                   /\ call'[q].to = k /\ call'[q].by = b
  BY DEF AdvanceInv, TypeOK
<1>3. ASSUME NEW j \in Jobs
      PROVE  /\ job'[j] \in JobState /\ job'[j].todo = job[j].todo
             /\ j = b => job'[j].step = "passing"
             /\ j # b => job'[j] = job[j]
  <2>1. job[j] \in JobState
    BY DEF AdvanceInv, TypeOK
  <2>2. CASE j = b
    <3>1. job'[j] = [job[j] EXCEPT !.step = "passing"]
      BY <2>2
    <3>2. job'[j] = [step |-> "passing", todo |-> job[j].todo, full |-> job[j].full,
                     after |-> job[j].after, found |-> job[j].found]
      BY <2>1, <3>1 DEF JobState
    <3> QED BY <2>1, <2>2, <3>2 DEF JobState, JobSteps
  <2>3. CASE j # b
    BY <2>1, <2>3
  <2> QED BY <2>2, <2>3
<1>4. TypeOK'
  <2>1. job' \in [Jobs -> JobState]
    BY <1>3
  <2>2. call' \in [Procs -> Calls]
    BY DEF AdvanceInv, TypeOK, Calls
  <2>3. row' \in [Procs -> RowState]
    BY DEF AdvanceInv, TypeOK, RowState
  <2> QED BY <1>1, <2>1, <2>2, <2>3 DEF AdvanceInv, TypeOK
<1>5. ASSUME NEW n \in AutoNodes, Over(n) PROVE Over(n)'
  <2>1. ProcOf(n) \in Procs
    BY AutoAreNodes, NodeOnPath
  <2>2. CASE ProcOf(n) = p
    BY <1>1, <1>2, <1>5, <2>2 DEF Over, Current
  <2>3. CASE ProcOf(n) # p
    BY <1>1, <1>2, <1>5, <2>1, <2>3 DEF Over, Current
  <2> QED BY <2>2, <2>3
<1>6. ASSUME NEW j \in Jobs PROVE Task(j)' = Task(j)
  <2>1. job'[j].todo = job[j].todo
    BY <1>3
  <2>2. PICK S : S = job[j].todo
    OBVIOUS
  <2>3. Oldest(S)' = Oldest(S)
    BY <1>1, OldestStays
  <2>4. Oldest(job[j].todo)' = Oldest(S)'
    BY <2>1, <2>2 DEF Oldest
  <2> QED BY <2>2, <2>3, <2>4 DEF Task
<1>7. EngineInv'
  <2>1. ASSUME NEW q \in Procs, NEW j \in Jobs, call'[q].by = j
        PROVE  row'[q] = "finished" /\ job'[j].step = "passing" /\ Task(j)' = Current(q)'
    <3>1. CASE q = p
      <4>1. j = b
        BY <1>2, <2>1, <3>1
      <4> QED BY <1>1, <1>2, <1>3, <1>6, <3>1, <4>1 DEF Current
    <3>2. CASE q # p
      <4>1. row[q] = "finished" /\ job[j].step = "passing" /\ Task(j) = Current(q)
        BY <1>2, <2>1, <3>2 DEF AdvanceInv, EngineInv
      <4>2. j # b
        BY <4>1
      <4> QED BY <1>1, <1>2, <1>3, <1>6, <3>2, <4>1, <4>2 DEF Current
    <3> QED BY <3>1, <3>2
  <2>2. ASSUME NEW q \in Procs
        PROVE  /\ call'[q].step = "none" <=> row'[q] # "finished"
               /\ row'[q] = "finished" =>
                    call'[q].to \in {pos'[q] - 1, pos'[q] + 1} /\ call'[q].to >= 1
               /\ call'[q].step \in {"start", "insert"} => call'[q].to <= Len(Path[q])
               /\ row'[q] = "sibling" => Current(q)' \in skipped'
               /\ ticket'[q] = "END" => row'[q] = "gone" \/ call'[q].step = "end"
               /\ ticket'[q] = "WITHDRAW" => row'[q] = "gone"
               /\ \A i \in 1..pos'[q] : visits'[Path[q][i]] >= 1
    <3>1. CASE q = p
      BY <1>1, <1>2, <3>1 DEF AdvanceInv, EngineInv
    <3>2. CASE q # p
      BY <1>1, <1>2, <3>2 DEF Current, AdvanceInv, EngineInv
    <3> QED BY <3>1, <3>2
  <2> QED BY <2>1, <2>2 DEF EngineInv
<1>8. JobInv'
  <2>1. ASSUME NEW j \in Jobs PROVE Sound(job[j])'
    <3>1. Sound(job[j])
      BY DEF AdvanceInv, JobInv
    <3>2. PICK n : n = Oldest(job[j].todo)
      OBVIOUS
    <3>3. job'[j].todo = job[j].todo /\ Oldest(job[j].todo)' = n
      BY <1>3, <1>6, <3>2 DEF Task
    <3>4. CASE j = b
      BY <1>1, <1>3, <3>1, <3>3, <3>4 DEF Sound
    <3>5. CASE j # b
      <4>1. job'[j] = job[j]
        BY <1>3, <3>5
      <4>2. ASSUME job[j].step = "mark" PROVE n \in missed \/ Over(n)'
        <5>1. n \in missed \/ Over(n)
          BY <3>1, <3>2, <4>2 DEF Sound
        <5>2. n \in AutoNodes
          BY <3>2, <4>2, TaskOfJob DEF Task
        <5> QED BY <1>5, <5>1, <5>2
      <4> QED BY <1>1, <3>1, <3>2, <3>3, <4>1, <4>2 DEF Sound, Over
    <3> QED BY <3>4, <3>5
  <2> QED BY <2>1 DEF JobInv
<1>9. MarkInv'
  BY <1>1, <1>5 DEF AdvanceInv, MarkInv
<1> QED BY <1>4, <1>7, <1>8, <1>9 DEF AdvanceInv

LEMMA RevokeKeeps ==
    ASSUME AdvanceInv, NEW p \in Procs, RevokeInstance(p)
    PROVE  AdvanceInv'
<1>1. /\ row[p] \in {"open", "sibling"} /\ row' = [row EXCEPT ![p] = "gone"]
      /\ UNCHANGED <<ticket, pos, call, visits, task, advanced, id, job, missed, skipped, faults>>
  BY DEF RevokeInstance, tasks, ghosts
<1>2. \A q \in Procs : row'[q] = IF q = p THEN "gone" ELSE row[q]
  BY <1>1 DEF AdvanceInv, TypeOK
<1>3. row' \in [Procs -> RowState]
  BY <1>1 DEF AdvanceInv, TypeOK, RowState
<1>4. TypeOK'
  BY <1>1, <1>3 DEF AdvanceInv, TypeOK
<1>5. ASSUME NEW n \in AutoNodes, Over(n) PROVE Over(n)'
  <2>1. ProcOf(n) \in Procs
    BY AutoAreNodes, NodeOnPath
  <2> QED BY <1>1, <1>2, <1>5, <2>1 DEF Over, Current
<1>6. ASSUME NEW S PROVE Oldest(S)' = Oldest(S)
  BY <1>1, OldestStays
<1>7. EngineInv'
  <2>1. \A j \in Jobs : Task(j)' = Task(j)
    BY <1>1, <1>6 DEF Task
  <2> QED BY <1>1, <1>2, <2>1 DEF AdvanceInv, EngineInv, Current
<1>8. JobInv'
  <2>1. ASSUME NEW j \in Jobs PROVE Sound(job[j])'
    <3>1. Sound(job[j])
      BY DEF AdvanceInv, JobInv
    <3>2. PICK S : S = job[j].todo
      OBVIOUS
    <3>3. PICK n : n = Oldest(S)
      OBVIOUS
    <3>4. Oldest(job[j].todo)' = n
      <4>1. Oldest(job[j].todo)' = Oldest(S)'
        BY <1>1, <3>2 DEF Oldest
      <4> QED BY <1>6, <3>3, <4>1
    <3>5. job[j].step = "mark" => n \in missed \/ Over(n)'
      BY <1>5, <3>1, <3>2, <3>3, TaskOfJob DEF Sound, Task
    <3> QED BY <1>1, <3>1, <3>2, <3>3, <3>4, <3>5 DEF Sound, Over
  <2> QED BY <2>1 DEF JobInv
<1>9. MarkInv'
  BY <1>1, <1>5 DEF AdvanceInv, MarkInv
<1> QED BY <1>4, <1>7, <1>8, <1>9 DEF AdvanceInv

\* A pass that finishes the task the job found passes its own task's node
LEMMA PassesItsOwn ==
    ASSUME AdvanceInv, NEW j \in Jobs, Pass(j), NEW q \in Procs, row'[q] # row[q]
    PROVE  /\ q = ProcOf(Task(j)) /\ Task(j) = Current(q)
           /\ Current(q) \in AutoNodes /\ task[Current(q)] = "Success"
<1> DEFINE p == ProcOf(Task(j))
<1>1. job[j].step = "pass"
  BY DEF Pass
<1>2. Task(j) \in AutoNodes /\ task[Task(j)] = "Success" /\ p \in Procs
  BY <1>1, TaskOfJob
<1>3. row' # row /\ EngineTask(p) = job[j].found /\ row' = [row EXCEPT ![p] = "finished"]
  BY DEF Pass
<1>4. q = p
  BY <1>3 DEF AdvanceInv, TypeOK
<1>5. job[j].found[1] = Task(j)
  BY <1>1 DEF AdvanceInv, JobInv, Sound, Task
<1>6. Current(p) = Task(j)
  BY <1>3, <1>5 DEF EngineTask
<1> QED BY <1>2, <1>4, <1>6

LEMMA PassKeeps ==
    ASSUME AdvanceInv, NEW j \in Jobs, Pass(j)
    PROVE  AdvanceInv'
<1> DEFINE p == ProcOf(Task(j))
<1>1. job[j].step = "pass" /\ UNCHANGED <<ticket, pos, visits, tasks, ghosts, faults>>
  BY DEF Pass
<1>2. p \in Procs
  BY <1>1, TaskOfJob
<1>3. UNCHANGED <<ticket, pos, visits, tasks, task, id, missed, skipped, faults>>
  BY <1>1 DEF tasks, ghosts
<1>4. CASE GoOn(j) /\ UNCHANGED <<row, call>>
  <2>1. /\ UNCHANGED <<ticket, engine, task, id, ghosts>>
        /\ advanced' \in [AutoNodes -> BOOLEAN] /\ faults' \in 0..MaxFaults /\ advanced' = advanced
    BY <1>1, <1>4 DEF engine, tasks, AdvanceInv, TypeOK
  <2> QED BY <1>1, <1>4, <2>1, GoOnKeeps
<1>5. CASE /\ row[p] = "open" /\ EngineTask(p) = job[j].found
           /\ row' = [row EXCEPT ![p] = "finished"]
           /\ call' = [call EXCEPT ![p] = [step |-> "enter", to |-> pos[p] + 1, by |-> j]]
           /\ Step(j, "passing")
  <2>1. job[j].found[1] = Task(j)
    BY <1>1 DEF AdvanceInv, JobInv, Sound, Task
  <2>2. Task(j) = Current(p)
    BY <1>5, <2>1 DEF EngineTask
  <2>3. job' = [i \in Jobs |-> IF i = j THEN [job[i] EXCEPT !.step = "passing"] ELSE job[i]]
    BY <1>5 DEF Step, AdvanceInv, TypeOK
  <2>4. pos[p] + 1 \in Nat /\ pos[p] + 1 >= 1 /\ skipped' \subseteq Raced
    BY <1>2, <1>3 DEF AdvanceInv, TypeOK
  <2> HIDE DEF p
  <2> QED BY <1>1, <1>2, <1>3, <1>5, <2>2, <2>3, <2>4, CallBegins
<1> QED BY <1>4, <1>5 DEF Pass

LEMMA PeopleKeep ==
    ASSUME AdvanceInv, NEW p \in Procs, People(p)
    PROVE  AdvanceInv'
<1>1. CASE UserPasses(p) \/ UserRejects(p) \/ SiblingPasses(p)
  <2>1. pos[p] \in Nat /\ pos[p] >= 1 /\ skipped \subseteq Raced /\ job \in [Jobs -> JobState]
    BY DEF AdvanceInv, TypeOK
  <2>2. PICK k \in Nat : /\ CallByPerson(p, k)
                         /\ k \in {pos[p] - 1, pos[p] + 1} /\ k >= 1
    <3>1. CASE UserPasses(p) \/ SiblingPasses(p)
      BY <2>1, <3>1 DEF UserPasses, SiblingPasses
    <3>2. CASE UserRejects(p)
      <4>1. pos[p] - 1 \in Nat /\ pos[p] - 1 >= 1
        BY <2>1, <3>2 DEF UserRejects
      <4> QED BY <3>2, <4>1 DEF UserRejects
    <3> QED BY <1>1, <3>1, <3>2
  <2>3. skipped \subseteq skipped' /\ skipped' \subseteq Raced
        /\ UNCHANGED <<ticket, tasks, job, missed, faults>>
    BY <1>1, <2>1 DEF UserPasses, UserRejects, SiblingPasses, ghosts
  <2>4. job' = [j \in Jobs |-> IF j = Person THEN [job[j] EXCEPT !.step = "passing"] ELSE job[j]]
    BY <2>1, <2>3, ProcessAdvanceAssumption DEF ProcessAdvanceAssumption
  <2>5. Person \notin Jobs
    BY ProcessAdvanceAssumption DEF ProcessAdvanceAssumption
  <2>6. /\ row[p] \in {"open", "sibling"}
        /\ row' = [row EXCEPT ![p] = "finished"]
        /\ call' = [call EXCEPT ![p] = [step |-> "enter", to |-> k, by |-> Person]]
        /\ UNCHANGED <<pos, visits>>
    BY <2>2 DEF CallByPerson
  <2>7. PICK b \in Jobs \cup {Person} : b = Person
    OBVIOUS
  <2> QED BY <2>2, <2>3, <2>4, <2>5, <2>6, <2>7, CallBegins
<1>2. CASE RevokeInstance(p)
  BY <1>2, RevokeKeeps
<1> QED BY <1>1, <1>2, TasksKeep DEF People

(***************************************************************************)
(* The theorems                                                            *)
(***************************************************************************)
LEMMA InitHolds == Init => AdvanceInv
<1> SUFFICES ASSUME Init PROVE AdvanceInv
  OBVIOUS
<1>1. ASSUME NEW p \in Procs
      PROVE /\ pos[p] = 1 /\ row[p] = "open" /\ call[p] = NoCall /\ ticket[p] = "PROCESS"
            /\ 1 \in 1..Len(Path[p]) /\ Path[p][1] \in Nodes /\ visits[Path[p][1]] = 1
  <2>1. 1 \in 1..Len(Path[p]) /\ Path[p][1] \in Nodes
    BY Paths
  <2> QED BY <2>1 DEF Init
<1>2. NoCall \in Calls /\ NoCall.step = "none" /\ NoCall.by = NoCaller
  BY DEF NoCall, Calls
<1>3. JobStart \in JobState /\ JobStart.step = "list" /\ JobStart.todo = {}
  BY DEF JobStart, JobState, JobSteps
<1>4. TypeOK
  <2>1. call \in [Procs -> Calls] /\ job \in [Jobs -> JobState]
    BY <1>2, <1>3 DEF Init
  <2>2. faults \in 0..MaxFaults
    BY ProcessAdvanceAssumption DEF ProcessAdvanceAssumption, Init
  <2>3. pos \in [Procs -> Nat] /\ \A p \in Procs : pos[p] \in 1..Len(Path[p])
    BY <1>1 DEF Init
  <2> QED BY <2>1, <2>2, <2>3 DEF Init, TypeOK, TicketState, RowState, TaskState
<1>5. EngineInv
  BY <1>1, <1>2, ProcessAdvanceAssumption DEF EngineInv, ProcessAdvanceAssumption
<1>6. JobInv /\ MarkInv
  BY <1>3 DEF Init, JobInv, Sound, MarkInv
<1> QED BY <1>4, <1>5, <1>6 DEF AdvanceInv

LEMMA NextKeeps == AdvanceInv /\ [Next]_vars => AdvanceInv'
<1> SUFFICES ASSUME AdvanceInv, [Next]_vars PROVE AdvanceInv'
  OBVIOUS
<1>1. ASSUME NEW j \in Jobs, PassJob(j) \/ JobError(j) \/ JobCrash(j) PROVE AdvanceInv'
  BY <1>1, ListKeeps, CheckKeeps, LookupKeeps, PassKeeps, MarkKeeps, JobErrs DEF PassJob
<1>2. ASSUME NEW p \in Procs, EngineCall(p) \/ EventFails(p) PROVE AdvanceInv'
  BY <1>2, EngineCallKeeps, EventFailsKeeps
<1>3. ASSUME NEW p \in Procs, People(p) PROVE AdvanceInv'
  BY <1>3, PeopleKeep
<1>4. ASSUME NEW n \in AutoNodes, \/ StartTask(n) \/ StartTaskBlocks(n)
                             \/ Succeed(n) \/ ExecutionFails(n) \/ Retry(n)
      PROVE  AdvanceInv'
  BY <1>4, TasksKeep
<1>5. CASE UNCHANGED vars
  <2>1. /\ UNCHANGED <<engine, advanced, id, job, ghosts>> /\ UNCHANGED <<ticket, task, faults, row>>
    BY <1>5 DEF vars, tasks, engine
  <2>2. /\ ticket' \in [Procs -> TicketState] /\ task' \in [AutoNodes -> TaskState] /\ faults' \in 0..MaxFaults
        /\ \A p \in Procs : TicketMoves(p)
        /\ \A n \in AutoNodes : task[n] = "Success" => task'[n] = "Success"
    BY <2>1 DEF AdvanceInv, TypeOK, TicketMoves
  <2> QED BY <2>1, <2>2, TaskStep
<1> QED BY <1>1, <1>2, <1>3, <1>4, <1>5 DEF Next

\* The invariant of the whole: an engine call lasts while its task is finished
\* and goes to a node beside it, the pass job at work on a call waits for it, it
\* knows only the engine's tasks of its own tasks' nodes, and what it marked
\* belongs to a visit the engine is done with, or was marked too early.
THEOREM AdvanceInvariant == Spec => []AdvanceInv
BY InitHolds, NextKeeps, PTL DEF Spec

\* The one way a process is stranded (PassProcessTaskJob.run): whatever jobs,
\* people, errors, crashes and withdrawals do to one another, the engine waits
\* for a task that is handed over already only when the task was marked before
\* the engine was done with the node's visit, or the node is visited again.
THEOREM StrandedOnlyIfMissed == Spec => []StuckOnlyIfMissed
<1>1. AdvanceInv => StuckOnlyIfMissed
  <2> SUFFICES ASSUME AdvanceInv, NEW n \in AutoNodes, OpenAt(n), advanced[n], n \notin missed
               PROVE  visits[n] > 1
    BY DEF StuckOnlyIfMissed
  <2>1. Over(n)
    BY DEF AdvanceInv, MarkInv
  <2>2. row[ProcOf(n)] = "open" /\ Current(ProcOf(n)) = n
    BY DEF OpenAt
  <2>3. ProcOf(n) \in Procs
    BY AutoAreNodes, NodeOnPath
  <2>4. ticket[ProcOf(n)] # "END"
    BY <2>2, <2>3 DEF AdvanceInv, EngineInv
  <2> QED BY <2>1, <2>2, <2>4 DEF Over
<1> QED BY <1>1, AdvanceInvariant, PTL

\* The pass job finishes nobody else's engine task: a task it passes is that of
\* an automation node whose own task has succeeded, for any number of jobs that
\* work on the same tasks and whatever happened since their lookups.
THEOREM JobPassesItsOwn == Spec => PassedWithResult
<1> DEFINE Own == \A p \in Procs :
                    row[p] = "open" /\ row'[p] = "finished" /\ call'[p].by \in Jobs
                      => Current(p) \in AutoNodes /\ task[Current(p)] = "Success"
<1>1. AdvanceInv /\ [Next]_vars => [Own]_vars
  <2> SUFFICES ASSUME AdvanceInv, Next,
                      NEW q \in Procs,
                      row[q] = "open", row'[q] = "finished", call'[q].by \in Jobs
               PROVE  Current(q) \in AutoNodes /\ task[Current(q)] = "Success"
    OBVIOUS
  <2>1. row \in [Procs -> RowState] /\ call \in [Procs -> Calls]
    BY DEF AdvanceInv, TypeOK
  <2>2. ASSUME NEW j \in Jobs, PassJob(j) \/ JobError(j) \/ JobCrash(j)
        PROVE  Current(q) \in AutoNodes /\ task[Current(q)] = "Success"
    <3>1. CASE Pass(j)
      BY <3>1, PassesItsOwn
    <3>2. CASE ~Pass(j)
      <4>1. UNCHANGED row
        BY <2>2, <3>2 DEF PassJob, List, Check, Lookup, Mark, JobError, JobCrash, engine
      <4> QED BY <4>1
    <3> QED BY <3>1, <3>2
  <2>3. ASSUME NEW p \in Procs, EngineCall(p) \/ EventFails(p)
        PROVE  FALSE
    <3>1. PICK s \in {"gone", "open", "sibling"} : row' = row \/ row' = [row EXCEPT ![p] = s]
      BY <2>3 DEF EngineCall, EndProcess, EnterUserNode, Arrive, FindTask, CreateTask, StartNow,
                  InsertTask, EventNotify, EventFails, CreateBlocked, StartNowFails,
                  EventNotifyFails, CallFails
    <3> QED BY <2>1, <3>1
  <2>4. ASSUME NEW p \in Procs, People(p)
        PROVE  FALSE
    <3>1. CASE UserPasses(p) \/ UserRejects(p) \/ SiblingPasses(p)
      <4>1. PICK k : /\ row' = [row EXCEPT ![p] = "finished"]
                     /\ call' = [call EXCEPT ![p] = [step |-> "enter", to |-> k, by |-> Person]]
        BY <3>1 DEF UserPasses, UserRejects, SiblingPasses, CallByPerson
      <4>2. q = p
        BY <2>1, <4>1
      <4>3. call'[q].by = Person
        BY <2>1, <4>1, <4>2
      <4> QED BY <4>3, ProcessAdvanceAssumption DEF ProcessAdvanceAssumption
    <3>2. CASE PrepareWithdrawal(p) \/ RevokeInstance(p) \/ RollbackWithdrawal(p) \/ FinalizeWithdrawal(p)
      <4>1. row' = row \/ row' = [row EXCEPT ![p] = "gone"]
        BY <3>2 DEF PrepareWithdrawal, RevokeInstance, RollbackWithdrawal, FinalizeWithdrawal, engine
      <4> QED BY <2>1, <4>1
    <3> QED BY <2>4, <3>1, <3>2 DEF People
  <2>5. ASSUME NEW n \in AutoNodes, \/ StartTask(n) \/ StartTaskBlocks(n)
                               \/ Succeed(n) \/ ExecutionFails(n) \/ Retry(n)
        PROVE  FALSE
    BY <2>5 DEF StartTask, StartTaskBlocks, Succeed, ExecutionFails, Retry, engine
  <2> QED BY <2>2, <2>3, <2>4, <2>5 DEF Next
<1> QED BY <1>1, AdvanceInvariant, PTL DEF Spec, PassedWithResult
=============================================================================
