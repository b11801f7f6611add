--------------------------- MODULE WorkflowProofs ---------------------------
(***************************************************************************)
(* What becomes of a drawing, for every canvas and every set of them.      *)
(* First its publication, whatever publications, edits, deletions and      *)
(* starts happen, in any order and number; then what the validators let    *)
(* through and the run of it; and last the two together.                   *)
(***************************************************************************)
EXTENDS WorkflowPublish, EasyflowProcess, SequenceTheorems, FiniteSetTheorems,
        WellFoundedInduction, TLAPS

published == <<definitions, snapshots, publisher, overlapped, abandoned, faults>>

\* What IInv says of publications does not depend on rows and instances.
LEMMA PublishedSame ==
  ASSUME IInv, UNCHANGED published, TypeOK', StartsVersions'
  PROVE  IInv'
<1> USE DEF published
<1>1. /\ \A g \in Publishers : Publishing(g)' = Publishing(g)
      /\ \A p, v : Over(p, v)' = Over(p, v)
      /\ \A p, v : SnapshotsOf(p, v)' = SnapshotsOf(p, v)
      /\ \A p : GetLatestProcessVersion(p)' = GetLatestProcessVersion(p)
  BY DEF Publishing, Over, SnapshotsOf, GetLatestProcessVersion
<1>2. SavedItsDrawing'
  BY <1>1 DEF IInv, SavedItsDrawing
<1>3. TogetherOverlap'
  BY <1>1 DEF IInv, TogetherOverlap
<1>4. LatestIsOwn'
  BY <1>1 DEF IInv, LatestIsOwn
<1>5. SnapshotsFit'
  BY <1>1 DEF IInv, SnapshotsFit
<1>6. AloneHasSnapshot'
  BY <1>1 DEF IInv, AloneHasSnapshot, Alone
<1>7. LatestIsSnapshotted'
  BY <1>1 DEF IInv, LatestIsSnapshotted
<1> QED BY <1>2, <1>3, <1>4, <1>5, <1>6, <1>7 DEF IInv

\* One publication moves on to another step of its way, or gives up: no drawing,
\* no snapshot and no other publication changes.
LEMMA PublisherStep ==
  ASSUME IInv, NEW g \in Publishers, NEW job \in Publications,
         publisher' = [publisher EXCEPT ![g] = job],
         job.step # "idle" => job.workflow \in Workflows /\ job.flow_data \in Drawings,
         job.step \in {"link", "ask", "snapshot"} =>
             /\ Publishing(g)
             /\ job.name = publisher[g].name
             /\ job.own = publisher[g].own
             /\ job.flow_data = publisher[g].flow_data,
         job.step = "snapshot" =>
             /\ job.version \in job.own..GetLatestProcessVersion(job.name)
             /\ \/ job.version = job.own
                \/ /\ <<job.name, job.version>> \in overlapped
                   /\ <<job.name, job.own>> \in overlapped,
         Publishing(g) /\ job.step \notin {"link", "ask", "snapshot"} =>
             <<publisher[g].name, publisher[g].own>> \in abandoned',
         abandoned \subseteq abandoned', TypeOK', StartsVersions',
         UNCHANGED <<definitions, snapshots, overlapped>>
  PROVE  IInv'
<1>1. /\ publisher'[g] = job
      /\ \A h \in Publishers : h # g => publisher'[h] = publisher[h]
  BY DEF IInv, TypeOK
<1>2. /\ Publishing(g)' <=> job.step \in {"link", "ask", "snapshot"}
      /\ \A h \in Publishers : h # g => (Publishing(h)' <=> Publishing(h))
      /\ \A p, v : SnapshotsOf(p, v)' = SnapshotsOf(p, v)
      /\ \A p : GetLatestProcessVersion(p)' = GetLatestProcessVersion(p)
  BY <1>1 DEF Publishing, SnapshotsOf, GetLatestProcessVersion
<1>3. \A p, v : Over(p, v)' /\ <<p, v>> \notin abandoned' => Over(p, v)
  BY <1>1, <1>2 DEF Over
<1>4. SavedItsDrawing'
  BY <1>1, <1>2 DEF IInv, SavedItsDrawing
<1>5. TogetherOverlap'
  BY <1>1, <1>2 DEF IInv, TogetherOverlap
<1>6. LatestIsOwn'
  <2> USE DEF LatestIsOwn, GetLatestProcessVersion
  <2>1. SUFFICES ASSUME NEW h \in Publishers
        PROVE  LET job_ == publisher'[h]
                   latest == Len(definitions[job_.name])
               IN  /\ Publishing(h)' =>
                        \/ latest = job_.own
                        \/ /\ <<job_.name, latest>> \in overlapped
                           /\ <<job_.name, job_.own>> \in overlapped
                   /\ job_.step = "snapshot" =>
                        /\ job_.version \in job_.own..latest
                        /\ \/ job_.version = job_.own
                           \/ /\ <<job_.name, job_.version>> \in overlapped
                              /\ <<job_.name, job_.own>> \in overlapped
    OBVIOUS
  <2>2. CASE h # g
    BY <1>1, <1>2, <2>2 DEF IInv
  <2>3. CASE h = g
    BY <1>1, <1>2, <2>3 DEF IInv
  <2> QED BY <2>2, <2>3
<1>7. SnapshotsFit'
  BY <1>2 DEF IInv, SnapshotsFit
<1>8. AloneHasSnapshot'
  BY <1>2, <1>3 DEF IInv, AloneHasSnapshot, Alone
<1>9. LatestIsSnapshotted'
  BY <1>2, <1>3 DEF IInv, LatestIsSnapshotted
<1> QED BY <1>4, <1>5, <1>6, <1>7, <1>8, <1>9 DEF IInv

\* Rows that still name versions of the engine, and instances that do, are
\* undisturbed by a publication.
LEMMA StartsKept ==
  ASSUME IInv, UNCHANGED <<instance, definitions>>,
         \A w \in Workflows :
           row'[w].process_id \in {NoProcess, row[w].process_id}
             \/ definitions[row'[w].process_id] # <<>>
  PROVE  StartsVersions'
BY DEF IInv, StartsVersions

LEMMA CreateKeeps ==
  ASSUME IInv, NEW w \in Workflows, CreateWorkflow(w)
  PROVE  IInv'
<1> USE DEF CreateWorkflow
<1>1. TypeOK'
  BY DEF IInv, TypeOK, Rows
<1>2. StartsVersions'
  <2>1. \A x \in Workflows : row'[x].process_id \in {NoProcess, row[x].process_id}
    BY DEF IInv, TypeOK
  <2> QED BY <2>1, StartsKept
<1> QED BY <1>1, <1>2, PublishedSame DEF published

LEMMA UpdateKeeps ==
  ASSUME IInv, NEW w \in Workflows, UpdateWorkflow(w)
  PROVE  IInv'
<1> USE DEF UpdateWorkflow
<1>1. TypeOK'
  <2>1. PICK n \in Names, d \in Drawings \cup {NoDrawing} :
          row' = [row EXCEPT ![w].name = n, ![w].flow_data = d]
    OBVIOUS
  <2>2. row[w] \in Rows
    BY DEF IInv, TypeOK
  <2>3. [row[w] EXCEPT !.name = n, !.flow_data = d] \in Rows
    BY <2>2 DEF Rows
  <2>4. row' \in [Workflows -> Rows]
    BY <2>1, <2>3 DEF IInv, TypeOK
  <2> QED BY <2>4 DEF IInv, TypeOK
<1>2. StartsVersions'
  <2>1. \A x \in Workflows : row'[x].process_id \in {NoProcess, row[x].process_id}
    BY DEF IInv, TypeOK, Rows
  <2> QED BY <2>1, StartsKept
<1> QED BY <1>1, <1>2, PublishedSame DEF published

LEMMA DeleteKeeps ==
  ASSUME IInv, NEW w \in Workflows, DeleteWorkflow(w)
  PROVE  IInv'
<1> USE DEF DeleteWorkflow
<1>1. TypeOK'
  BY DEF IInv, TypeOK, Rows
<1>2. StartsVersions'
  <2>1. \A x \in Workflows : row'[x].process_id \in {NoProcess, row[x].process_id}
    BY DEF IInv, TypeOK, Rows
  <2> QED BY <2>1, StartsKept
<1> QED BY <1>1, <1>2, PublishedSame DEF published

LEMMA FindFlowKeeps ==
  ASSUME IInv, NEW i \in Instances, NEW w \in Workflows, FindFlow(i, w)
  PROVE  IInv'
<1> USE DEF FindFlow
<1>1. TypeOK'
  <2>1. instance[i] \in InstanceRows /\ row[w].process_id \in Names
    BY DEF IInv, TypeOK, Rows
  <2>2. [instance[i] EXCEPT !.phase = "found", !.workflow = w,
                            !.process = row[w].process_id] \in InstanceRows
    BY <2>1 DEF InstanceRows
  <2>3. instance' \in [Instances -> InstanceRows]
    BY <2>2 DEF IInv, TypeOK
  <2> QED BY <2>3 DEF IInv, TypeOK
<1>2. StartsVersions'
  BY DEF IInv, TypeOK, InstanceRows, Rows, StartsVersions
<1> QED BY <1>1, <1>2, PublishedSame DEF published

LEMMA InstanceStartKeeps ==
  ASSUME IInv, NEW i \in Instances, InstanceStart(i)
  PROVE  IInv'
<1> USE DEF InstanceStart, GetLatestProcessVersion
<1> DEFINE p == instance[i].process
<1>1. /\ p \in Names
      /\ definitions[p] \in Seq(Drawings) /\ definitions[p] # <<>>
      /\ Len(definitions[p]) <= MaxVersion
  BY DEF IInv, StartsVersions, TypeOK
<1>2. Len(definitions[p]) \in 1..Len(definitions[p]) /\ Len(definitions[p]) \in Versions
  BY <1>1, PublishAssumption DEF Versions, PublishAssumption
<1>3. TypeOK'
  BY <1>2 DEF IInv, TypeOK, InstanceRows
<1>4. StartsVersions'
  BY <1>1, <1>2 DEF IInv, TypeOK, InstanceRows, StartsVersions
<1> QED BY <1>3, <1>4, PublishedSame DEF published

LEMMA DeployKeeps ==
  ASSUME IInv, NEW g \in Publishers, NEW w \in Workflows, Deploy(g, w)
  PROVE  IInv'
<1> USE DEF Deploy
<1> DEFINE job == [Idle(row[w].name) EXCEPT !.step = "save", !.workflow = w,
                                           !.flow_data = row[w].flow_data]
<1>1. /\ job \in Publications /\ job.step = "save" /\ job.workflow = w
      /\ job.flow_data \in Drawings
  <2>1. row[w].name \in Names /\ row[w].flow_data \in Drawings
    BY DEF IInv, TypeOK, Rows
  <2>2. 0 \in Versions
    BY PublishAssumption DEF Versions, PublishAssumption
  <2>3. Idle(row[w].name) \in Publications
    BY <2>1, <2>2 DEF Idle, Publications
  <2> QED BY <2>1, <2>3 DEF Publications
<1>2. TypeOK'
  BY <1>1 DEF IInv, TypeOK
<1>3. StartsVersions'
  BY StartsKept
<1>4. ~Publishing(g)
  BY DEF Publishing
<1>5. publisher' = [publisher EXCEPT ![g] = job]
  OBVIOUS
<1> HIDE DEF job
<1> QED BY <1>1, <1>2, <1>3, <1>4, <1>5, PublisherStep

LEMMA UpdateProcessIdKeeps ==
  ASSUME IInv, NEW g \in Publishers, UpdateProcessId(g)
  PROVE  IInv'
<1> USE DEF UpdateProcessId, Goto
<1> DEFINE job == [publisher[g] EXCEPT !.step = "ask"]
<1>1. /\ publisher[g] \in Publications
      /\ publisher[g].workflow \in Workflows /\ publisher[g].flow_data \in Drawings
      /\ Publishing(g)
      /\ definitions[publisher[g].name] # <<>>
  BY DEF IInv, TypeOK, SavedItsDrawing, Publishing, Publications
<1>2. /\ job \in Publications /\ job.step = "ask"
      /\ job.workflow = publisher[g].workflow /\ job.flow_data = publisher[g].flow_data
      /\ job.name = publisher[g].name /\ job.own = publisher[g].own
      /\ publisher' = [publisher EXCEPT ![g] = job]
  BY <1>1 DEF Publications
<1>3. TypeOK'
  <2>1. publisher' \in [Publishers -> Publications]
    BY <1>2 DEF IInv, TypeOK
  <2>2. ASSUME NEW r \in Rows, NEW n \in Names
        PROVE  [r EXCEPT !.process_id = n] \in Rows
    BY DEF Rows
  <2>3. row' \in [Workflows -> Rows]
    <3>1. publisher[g].name \in Names
      BY <1>1 DEF Publications
    <3>2. row' = row
            \/ row' = [row EXCEPT ![publisher[g].workflow] =
                         [row[publisher[g].workflow] EXCEPT !.process_id = publisher[g].name]]
      OBVIOUS
    <3>3. row \in [Workflows -> Rows]
      BY DEF IInv, TypeOK
    <3>4. [row[publisher[g].workflow] EXCEPT !.process_id = publisher[g].name] \in Rows
      BY <1>1, <2>2, <3>1, <3>3
    <3> QED BY <3>2, <3>3, <3>4
  <2> QED BY <2>1, <2>3 DEF IInv, TypeOK
<1>4. StartsVersions'
  <2>1. \A x \in Workflows :
          row'[x].process_id \in {row[x].process_id, publisher[g].name}
    BY DEF IInv, TypeOK, Rows
  <2> QED BY <2>1, <1>1, StartsKept
<1> HIDE DEF job
<1> QED BY <1>1, <1>2, <1>3, <1>4, PublisherStep

LEMMA AskVersionKeeps ==
  ASSUME IInv, NEW g \in Publishers, AskVersion(g)
  PROVE  IInv'
<1> USE DEF AskVersion
<1> DEFINE n == publisher[g].name
           latest == GetLatestProcessVersion(n)
           job == [publisher[g] EXCEPT !.step = "snapshot", !.version = latest]
<1>1. /\ publisher[g] \in Publications
      /\ publisher[g].workflow \in Workflows /\ publisher[g].flow_data \in Drawings
      /\ Publishing(g)
      /\ publisher[g].own \in 1..latest
      /\ \/ latest = publisher[g].own
         \/ /\ <<n, latest>> \in overlapped
            /\ <<n, publisher[g].own>> \in overlapped
  BY DEF IInv, TypeOK, SavedItsDrawing, LatestIsOwn, Publishing, GetLatestProcessVersion
<1>2. latest \in Versions
  <2>1. definitions[n] \in Seq(Drawings) /\ Len(definitions[n]) <= MaxVersion
    BY <1>1 DEF IInv, TypeOK, Publications
  <2> QED BY <2>1, PublishAssumption DEF Versions, GetLatestProcessVersion, PublishAssumption
<1>3. latest \in publisher[g].own..latest
  BY <1>1, <1>2 DEF Versions
<1>4. /\ job \in Publications /\ job.step = "snapshot" /\ job.version = latest
      /\ job.workflow = publisher[g].workflow /\ job.flow_data = publisher[g].flow_data
      /\ job.name = n /\ job.own = publisher[g].own
      /\ publisher' = [publisher EXCEPT ![g] = job]
  BY <1>1, <1>2 DEF Publications
<1>5. TypeOK'
  BY <1>4 DEF IInv, TypeOK
<1>6. StartsVersions'
  BY StartsKept
<1> HIDE DEF job
<1> QED BY <1>1, <1>3, <1>4, <1>5, <1>6, PublisherStep

LEMMA DeployFailsKeeps ==
  ASSUME IInv, NEW g \in Publishers, DeployFails(g)
  PROVE  IInv'
<1> USE DEF DeployFails, Goto
<1> DEFINE job == [publisher[g] EXCEPT !.step = "idle"]
<1>1. publisher[g] \in Publications
  BY DEF IInv, TypeOK
<1>2. /\ job \in Publications /\ job.step = "idle"
      /\ publisher' = [publisher EXCEPT ![g] = job]
  BY <1>1 DEF Publications
<1>3. TypeOK'
  BY <1>1, <1>2, PublishAssumption DEF IInv, TypeOK, Publications, PublishAssumption
<1>4. StartsVersions'
  BY StartsKept
<1>5. /\ abandoned \subseteq abandoned'
      /\ Publishing(g) => <<publisher[g].name, publisher[g].own>> \in abandoned'
  OBVIOUS
<1> HIDE DEF job
<1> QED BY <1>2, <1>3, <1>4, <1>5, PublisherStep

\* Saving a version: its publication is under way, and has overlapped exactly
\* with those that are.
LEMMA ProcessSaveKeeps ==
  ASSUME IInv, NEW g \in Publishers, ProcessSave(g)
  PROVE  IInv'
<1> DEFINE n == publisher[g].name
           d == publisher[g].flow_data
           v == Len(definitions[n]) + 1
           job == [publisher[g] EXCEPT !.step = "link", !.own = v]
<1>1. /\ publisher[g] \in Publications /\ n \in Names
      /\ publisher[g].workflow \in Workflows /\ d \in Drawings
      /\ ~Publishing(g)
  BY DEF IInv, TypeOK, SavedItsDrawing, Publishing, Publications, ProcessSave
<1>2. /\ definitions \in [Names -> Seq(Drawings)]
      /\ \A p \in Names : definitions[p] \in Seq(Drawings) /\ Len(definitions[p]) \in Nat
      /\ v \in 1..MaxVersion /\ v \in Versions
  BY <1>1, PublishAssumption DEF IInv, TypeOK, ProcessSave, Versions, PublishAssumption
<1>3. /\ definitions' = [definitions EXCEPT ![n] = Append(definitions[n], d)]
      /\ publisher' = [publisher EXCEPT ![g] = job]
      /\ overlapped' = IF Underway(n) = {} THEN overlapped
                       ELSE overlapped \cup Underway(n) \cup {<<n, v>>}
      /\ UNCHANGED <<row, snapshots, instance, abandoned, faults>>
  BY DEF ProcessSave
<1>4. /\ definitions'[n] = Append(definitions[n], d)
      /\ Len(definitions'[n]) = v /\ definitions'[n][v] = d
      /\ \A p \in Names : p # n => definitions'[p] = definitions[p]
      /\ \A p \in Names : \A u \in 1..Len(definitions[p]) :
           u \in 1..Len(definitions'[p]) /\ definitions'[p][u] = definitions[p][u]
      /\ definitions' \in [Names -> Seq(Drawings)]
      /\ \A p \in Names : definitions[p] # <<>> => definitions'[p] # <<>>
  BY <1>1, <1>2, <1>3, AppendProperties
<1>5. /\ publisher'[g] = job /\ job \in Publications
      /\ job.step = "link" /\ job.own = v /\ job.name = n /\ job.flow_data = d
      /\ job.workflow = publisher[g].workflow
      /\ \A h \in Publishers : h # g => publisher'[h] = publisher[h]
  BY <1>1, <1>2, <1>3 DEF IInv, TypeOK, Publications
<1> HIDE DEF job, v, d
<1>6. /\ Publishing(g)'
      /\ \A h \in Publishers : h # g => (Publishing(h)' <=> Publishing(h))
  BY <1>5 DEF Publishing
<1>7. /\ overlapped \subseteq overlapped'
      /\ overlapped' \subseteq overlapped \cup Underway(n) \cup {<<n, v>>}
      /\ \A h \in Publishers : Publishing(h) /\ publisher[h].name = n =>
            <<n, publisher[h].own>> \in overlapped' /\ <<n, v>> \in overlapped'
  BY <1>3 DEF Underway
<1>8. Underway(n) \subseteq Names \X Versions
  BY <1>1 DEF IInv, TypeOK, Underway, Publications
<1>9. \A p, u : p # n \/ u # v => (Over(p, u)' <=> Over(p, u))
  BY <1>1, <1>5, <1>6 DEF Over
<1>10. \A p, u : p = n /\ u = v => ~Over(p, u)'
  BY <1>5, <1>6 DEF Over
<1>11. TypeOK'
  <2>1. \A p \in Names : Len(definitions'[p]) <= MaxVersion
    BY <1>2, <1>4 DEF IInv, TypeOK
  <2>2. publisher' \in [Publishers -> Publications]
    BY <1>3, <1>5 DEF IInv, TypeOK
  <2>3. overlapped' \subseteq Names \X Versions
    BY <1>1, <1>2, <1>7, <1>8 DEF IInv, TypeOK
  <2> QED BY <1>3, <1>4, <2>1, <2>2, <2>3 DEF IInv, TypeOK
<1>12. SavedItsDrawing'
  <2> SUFFICES ASSUME NEW h \in Publishers
               PROVE  /\ publisher'[h].step # "idle" =>
                           publisher'[h].workflow \in Workflows /\ publisher'[h].flow_data \in Drawings
                      /\ Publishing(h)' =>
                           /\ publisher'[h].own \in 1..Len(definitions'[publisher'[h].name])
                           /\ definitions'[publisher'[h].name][publisher'[h].own]
                                = publisher'[h].flow_data
    BY DEF SavedItsDrawing
  <2>1. CASE h = g
    BY <2>1, <1>1, <1>2, <1>4, <1>5
  <2>2. CASE h # g
    <3>1. publisher[h].name \in Names
      BY DEF IInv, TypeOK, Publications
    <3> QED BY <2>2, <3>1, <1>4, <1>5, <1>6 DEF IInv, SavedItsDrawing
  <2> QED BY <2>1, <2>2
<1>13. TogetherOverlap'
  <2> SUFFICES ASSUME NEW h \in Publishers, NEW k \in Publishers, h # k,
                      Publishing(h)', Publishing(k)',
                      publisher'[h].name = publisher'[k].name
               PROVE  <<publisher'[h].name, publisher'[h].own>> \in overlapped'
    BY DEF TogetherOverlap
  <2>1. CASE h = g
    BY <2>1, <1>5, <1>6, <1>7
  <2>2. CASE k = g
    BY <2>2, <1>5, <1>6, <1>7
  <2>3. CASE h # g /\ k # g
    BY <2>3, <1>5, <1>6, <1>7 DEF IInv, TogetherOverlap
  <2> QED BY <2>1, <2>2, <2>3
<1>14. LatestIsOwn'
  <2> USE DEF GetLatestProcessVersion
  <2> SUFFICES ASSUME NEW h \in Publishers
               PROVE  /\ Publishing(h)' =>
                           \/ Len(definitions'[publisher'[h].name]) = publisher'[h].own
                           \/ /\ <<publisher'[h].name, Len(definitions'[publisher'[h].name])>> \in overlapped'
                              /\ <<publisher'[h].name, publisher'[h].own>> \in overlapped'
                      /\ publisher'[h].step = "snapshot" =>
                           /\ publisher'[h].version \in
                                publisher'[h].own..Len(definitions'[publisher'[h].name])
                           /\ \/ publisher'[h].version = publisher'[h].own
                              \/ /\ <<publisher'[h].name, publisher'[h].version>> \in overlapped'
                                 /\ <<publisher'[h].name, publisher'[h].own>> \in overlapped'
    BY DEF LatestIsOwn
  <2>1. CASE h = g
    BY <2>1, <1>4, <1>5
  <2>2. CASE h # g
    <3>1. publisher[h].name \in Names /\ publisher'[h] = publisher[h]
            /\ publisher[h].version \in Nat /\ publisher[h].own \in Nat
      BY <2>2, <1>5 DEF IInv, TypeOK, Publications, Versions
    <3>2. CASE publisher[h].name = n
      <4>1. Len(definitions[n]) \in Nat /\ v = Len(definitions[n]) + 1
        BY <1>1, <1>2 DEF v
      <4>2. Publishing(h) =>
              /\ <<n, Len(definitions'[n])>> \in overlapped'
              /\ <<n, publisher[h].own>> \in overlapped'
        BY <3>2, <1>4, <1>7
      <4>3. publisher[h].step = "snapshot" =>
              /\ publisher[h].version \in publisher[h].own..Len(definitions[n])
              /\ \/ publisher[h].version = publisher[h].own
                 \/ /\ <<n, publisher[h].version>> \in overlapped
                    /\ <<n, publisher[h].own>> \in overlapped
        BY <3>2 DEF IInv, LatestIsOwn
      <4>4. publisher[h].step = "snapshot" =>
              publisher[h].version \in publisher[h].own..Len(definitions'[n])
        BY <3>1, <4>1, <4>3, <1>4
      <4> QED BY <2>2, <3>1, <3>2, <4>2, <4>3, <4>4, <1>6, <1>7
    <3>3. CASE publisher[h].name # n
      BY <2>2, <3>1, <3>3, <1>4, <1>6, <1>7 DEF IInv, LatestIsOwn
    <3> QED BY <3>2, <3>3
  <2> QED BY <2>1, <2>2
<1>15. SnapshotsFit'
  <2>1. \A p, u : SnapshotsOf(p, u)' = SnapshotsOf(p, u)
    BY <1>3 DEF SnapshotsOf
  <2>2. ASSUME NEW p \in Names, NEW u \in Versions
        PROVE  /\ SnapshotsOf(p, u) # <<>> => u \in 1..Len(definitions'[p])
               /\ <<p, u>> \notin overlapped' =>
                    \A k \in DOMAIN SnapshotsOf(p, u) :
                       SnapshotsOf(p, u)[k].flow_data = definitions'[p][u]
    <3>1. CASE SnapshotsOf(p, u) = <<>>
      BY <3>1
    <3>2. CASE SnapshotsOf(p, u) # <<>>
      BY <3>2, <1>4, <1>7 DEF IInv, SnapshotsFit
    <3> QED BY <3>1, <3>2
  <2> QED BY <2>1, <2>2 DEF SnapshotsFit
<1>16. \A p, u : SnapshotsOf(p, u)' = SnapshotsOf(p, u)
  BY <1>3 DEF SnapshotsOf
<1>17. AloneHasSnapshot'
  <2> SUFFICES ASSUME NEW p \in Names, NEW u \in 1..Len(definitions'[p]), Alone(p, u)'
               PROVE  SnapshotsOf(p, u)' # <<>>
    BY DEF AloneHasSnapshot
  <2>1. p # n \/ u # v
    BY <1>10 DEF Alone
  <2>2. u \in 1..Len(definitions[p])
    BY <2>1, <1>2, <1>4 DEF v
  <2>3. Alone(p, u)
    BY <2>1, <1>3, <1>7, <1>9 DEF Alone
  <2> QED BY <2>2, <2>3, <1>16 DEF IInv, AloneHasSnapshot
<1>18. LatestIsSnapshotted'
  <2> SUFFICES ASSUME NEW p \in Names, NEW u, u = Len(definitions'[p]), u > 0,
                      Over(p, u)', <<p, u>> \notin abandoned'
               PROVE  SnapshotsOf(p, u)' # <<>>
    BY DEF LatestIsSnapshotted, GetLatestProcessVersion
  <2>1. p # n
    BY <1>4, <1>10
  <2>2. definitions'[p] = definitions[p]
    BY <2>1, <1>4
  <2>3. Over(p, u)
    BY <2>1, <1>9
  <2>4. SnapshotsOf(p, u) # <<>>
    BY <2>2, <2>3, <1>3 DEF IInv, LatestIsSnapshotted, GetLatestProcessVersion
  <2> QED BY <2>4, <1>16
<1>19. StartsVersions'
  <2>1. \A w \in Workflows : row[w].process_id \in Names \cup {NoProcess}
    BY DEF IInv, TypeOK, Rows
  <2>2. \A w \in Workflows :
          row[w].process_id # NoProcess => definitions'[row[w].process_id] # <<>>
    BY <2>1, <1>4 DEF IInv, StartsVersions
  <2>3. \A i \in Instances : instance[i].phase # "none" =>
          /\ instance[i].process \in Names
          /\ definitions'[instance[i].process] # <<>>
          /\ instance[i].phase = "started" =>
               instance[i].version \in 1..Len(definitions'[instance[i].process])
    BY <1>4 DEF IInv, StartsVersions
  <2> QED BY <2>2, <2>3, <1>3 DEF StartsVersions
<1> QED BY <1>11, <1>12, <1>13, <1>14, <1>15, <1>17, <1>18, <1>19 DEF IInv

\* What the upsert does to the snapshots of one version.
LEMMA UpsertSnapshotEffect ==
  ASSUME NEW w \in Workflows, NEW p \in Names, NEW v \in Versions, NEW d \in Drawings,
         snapshots \in [Names \X Versions -> Seq(SnapshotRows)],
         UpsertSnapshot(w, p, v, d)
  PROVE  /\ snapshots' \in [Names \X Versions -> Seq(SnapshotRows)]
         /\ \A q, u : q # p \/ u # v => snapshots'[<<q, u>>] = snapshots[<<q, u>>]
         /\ snapshots'[<<p, v>>] # <<>>
         /\ \A k \in DOMAIN snapshots'[<<p, v>>] :
              \/ snapshots'[<<p, v>>][k].flow_data = d
              \/ k \in DOMAIN snapshots[<<p, v>>]
                   /\ snapshots'[<<p, v>>][k] = snapshots[<<p, v>>][k]
<1> DEFINE table == snapshots[<<p, v>>]
           snapshot == [workflow_id |-> w, flow_data |-> d]
           SameKey == {k \in DOMAIN table : table[k].workflow_id = w}
           updated == [k \in DOMAIN table |-> IF k \in SameKey THEN snapshot ELSE table[k]]
           new == IF SameKey = {} THEN Append(table, snapshot) ELSE updated
<1>1. snapshots' = [snapshots EXCEPT ![<<p, v>>] = new]
  BY DEF UpsertSnapshot, SnapshotsOf
<1>2. table \in Seq(SnapshotRows) /\ snapshot \in SnapshotRows /\ snapshot.flow_data = d
  BY DEF SnapshotRows
<1>3. /\ new \in Seq(SnapshotRows) /\ new # <<>>
      /\ \A k \in DOMAIN new :
           \/ new[k].flow_data = d
           \/ k \in DOMAIN table /\ new[k] = table[k]
  <2> HIDE DEF table, snapshot
  <2>1. CASE SameKey = {}
    <3>1. new = Append(table, snapshot)
      BY <2>1
    <3> HIDE DEF new
    <3>2. /\ Append(table, snapshot) \in Seq(SnapshotRows)
          /\ Append(table, snapshot) # <<>>
          /\ DOMAIN Append(table, snapshot) = 1..(Len(table) + 1)
          /\ Append(table, snapshot)[Len(table) + 1] = snapshot
          /\ \A k \in 1..Len(table) : Append(table, snapshot)[k] = table[k]
      BY <1>2, AppendProperties
    <3>3. DOMAIN table = 1..Len(table) /\ Len(table) \in Nat
      BY <1>2
    <3> QED BY <1>2, <3>1, <3>2, <3>3
  <2>2. CASE SameKey # {}
    <3>1. new = updated
      BY <2>2
    <3>2. \A k \in DOMAIN table : updated[k] \in SnapshotRows
      BY <1>2
    <3>3. updated \in Seq(SnapshotRows)
      <4>1. updated = [k \in 1..Len(table) |-> IF k \in SameKey THEN snapshot ELSE table[k]]
              /\ Len(table) \in Nat
        BY <1>2
      <4> QED BY <4>1, <3>2, <1>2, IsASeq
    <3>4. updated # <<>>
      <4>1. PICK k \in DOMAIN table : TRUE
        BY <2>2
      <4>2. k \in DOMAIN updated
        BY <4>1
      <4> QED BY <4>2
    <3> QED BY <1>2, <3>1, <3>3, <3>4
  <2> QED BY <2>1, <2>2
<1> HIDE DEF new
<1>4. <<p, v>> \in Names \X Versions
  OBVIOUS
<1>5. snapshots'[<<p, v>>] = new
  BY <1>1, <1>4
<1>6. \A q, u : q # p \/ u # v => snapshots'[<<q, u>>] = snapshots[<<q, u>>]
  BY <1>1
<1> QED BY <1>1, <1>3, <1>5, <1>6

\* Storing a snapshot, of one's own version or of one that overlapped, and
\* ending the publication.
LEMMA CreateSnapshotKeeps ==
  ASSUME IInv, NEW g \in Publishers, CreateSnapshot(g)
  PROVE  IInv'
<1> DEFINE n == publisher[g].name
           d == publisher[g].flow_data
           v == publisher[g].version
           job == [publisher[g] EXCEPT !.step = "idle"]
<1>1. /\ publisher[g] \in Publications /\ n \in Names /\ v \in Versions
      /\ publisher[g].workflow \in Workflows /\ d \in Drawings
      /\ Publishing(g)
      /\ publisher[g].own \in 1..Len(definitions[n])
      /\ definitions[n][publisher[g].own] = d
      /\ v \in publisher[g].own..Len(definitions[n])
      /\ \/ v = publisher[g].own
         \/ /\ <<n, v>> \in overlapped
            /\ <<n, publisher[g].own>> \in overlapped
  BY DEF IInv, TypeOK, SavedItsDrawing, LatestIsOwn, GetLatestProcessVersion, Publishing,
         Publications, CreateSnapshot
<1>2. /\ UpsertSnapshot(publisher[g].workflow, n, v, d)
      /\ publisher' = [publisher EXCEPT ![g] = job]
      /\ UNCHANGED <<row, definitions, instance, overlapped, abandoned, faults>>
  BY DEF CreateSnapshot, Goto
<1>3. /\ publisher'[g] = job /\ job \in Publications /\ job.step = "idle"
      /\ \A h \in Publishers : h # g => publisher'[h] = publisher[h]
  BY <1>1, <1>2 DEF IInv, TypeOK, Publications
<1>4. /\ snapshots' \in [Names \X Versions -> Seq(SnapshotRows)]
      /\ \A p, u : p # n \/ u # v => snapshots'[<<p, u>>] = snapshots[<<p, u>>]
      /\ snapshots'[<<n, v>>] # <<>>
      /\ \A k \in DOMAIN snapshots'[<<n, v>>] :
           \/ snapshots'[<<n, v>>][k].flow_data = d
           \/ k \in DOMAIN snapshots[<<n, v>>]
                /\ snapshots'[<<n, v>>][k] = snapshots[<<n, v>>][k]
  BY <1>1, <1>2, UpsertSnapshotEffect DEF IInv, TypeOK
<1> HIDE DEF job
<1>5. /\ ~Publishing(g)'
      /\ \A h \in Publishers : h # g => (Publishing(h)' <=> Publishing(h))
  BY <1>3 DEF Publishing
<1>6. \A p, u : Over(p, u)' => Over(p, u) \/ (p = n /\ u = publisher[g].own)
  BY <1>3, <1>5 DEF Over
<1>7. v \in 1..Len(definitions[n]) /\ publisher[g].own \in Nat /\ v \in Nat
        /\ Len(definitions[n]) \in Nat
  BY <1>1, PublishAssumption DEF IInv, TypeOK, Versions, PublishAssumption
<1>8. TypeOK'
  BY <1>2, <1>3, <1>4 DEF IInv, TypeOK
<1>9. SavedItsDrawing'
  BY <1>2, <1>3, <1>5 DEF IInv, SavedItsDrawing
<1>10. TogetherOverlap'
  BY <1>2, <1>3, <1>5 DEF IInv, TogetherOverlap
<1>11. LatestIsOwn'
  <2> SUFFICES ASSUME NEW h \in Publishers
               PROVE  /\ Publishing(h)' =>
                           \/ Len(definitions[publisher'[h].name]) = publisher'[h].own
                           \/ /\ <<publisher'[h].name, Len(definitions[publisher'[h].name])>> \in overlapped
                              /\ <<publisher'[h].name, publisher'[h].own>> \in overlapped
                      /\ publisher'[h].step = "snapshot" =>
                           /\ publisher'[h].version \in
                                publisher'[h].own..Len(definitions[publisher'[h].name])
                           /\ \/ publisher'[h].version = publisher'[h].own
                              \/ /\ <<publisher'[h].name, publisher'[h].version>> \in overlapped
                                 /\ <<publisher'[h].name, publisher'[h].own>> \in overlapped
    BY <1>2 DEF LatestIsOwn, GetLatestProcessVersion
  <2>1. CASE h = g
    BY <2>1, <1>3, <1>5
  <2>2. CASE h # g
    BY <2>2, <1>3, <1>5 DEF IInv, LatestIsOwn, GetLatestProcessVersion
  <2> QED BY <2>1, <2>2
<1>12. SnapshotsFit'
  <2> SUFFICES ASSUME NEW p \in Names, NEW u \in Versions
               PROVE  /\ snapshots'[<<p, u>>] # <<>> => u \in 1..Len(definitions[p])
                      /\ <<p, u>> \notin overlapped =>
                           \A k \in DOMAIN snapshots'[<<p, u>>] :
                              snapshots'[<<p, u>>][k].flow_data = definitions[p][u]
    BY <1>2 DEF SnapshotsFit, SnapshotsOf
  <2>1. CASE p # n \/ u # v
    <3>1. snapshots'[<<p, u>>] = snapshots[<<p, u>>]
      BY <2>1, <1>4
    <3>2. /\ snapshots[<<p, u>>] # <<>> => u \in 1..Len(definitions[p])
          /\ <<p, u>> \notin overlapped =>
               \A k \in DOMAIN snapshots[<<p, u>>] :
                  snapshots[<<p, u>>][k].flow_data = definitions[p][u]
      BY DEF IInv, SnapshotsFit, SnapshotsOf
    <3> QED BY <3>1, <3>2
  <2>2. CASE p = n /\ u = v
    <3>1. <<n, v>> \notin overlapped =>
            /\ d = definitions[n][v]
            /\ \A k \in DOMAIN snapshots[<<n, v>>] :
                 snapshots[<<n, v>>][k].flow_data = definitions[n][v]
      BY <2>2, <1>1 DEF IInv, SnapshotsFit, SnapshotsOf
    <3> QED BY <2>2, <3>1, <1>4, <1>7
  <2> QED BY <2>1, <2>2
<1>13. \A p, u : snapshots[<<p, u>>] # <<>> => snapshots'[<<p, u>>] # <<>>
  BY <1>4
<1>14. AloneHasSnapshot'
  <2> SUFFICES ASSUME NEW p \in Names, NEW u \in 1..Len(definitions[p]), Over(p, u)',
                      <<p, u>> \notin overlapped \cup abandoned
               PROVE  snapshots'[<<p, u>>] # <<>>
    BY <1>2 DEF AloneHasSnapshot, Alone, SnapshotsOf
  <2>1. CASE Over(p, u)
    BY <2>1, <1>13 DEF IInv, AloneHasSnapshot, Alone, SnapshotsOf
  <2>2. CASE p = n /\ u = publisher[g].own
    <3>1. v = publisher[g].own
      BY <2>2, <1>1
    <3> QED BY <2>2, <3>1, <1>4
  <2> QED BY <2>1, <2>2, <1>6
<1>15. LatestIsSnapshotted'
  <2> SUFFICES ASSUME NEW p \in Names, NEW u, u = Len(definitions[p]), u > 0,
                      Over(p, u)', <<p, u>> \notin abandoned
               PROVE  snapshots'[<<p, u>>] # <<>>
    BY <1>2 DEF LatestIsSnapshotted, GetLatestProcessVersion, SnapshotsOf
  <2>1. CASE Over(p, u)
    BY <2>1, <1>13 DEF IInv, LatestIsSnapshotted, GetLatestProcessVersion, SnapshotsOf
  <2>2. CASE p = n /\ u = publisher[g].own
    <3>1. v = u
      BY <2>2, <1>1, <1>7
    <3> QED BY <2>2, <3>1, <1>4
  <2> QED BY <2>1, <2>2, <1>6
<1>16. StartsVersions'
  BY <1>2 DEF IInv, StartsVersions
<1> QED BY <1>8, <1>9, <1>10, <1>11, <1>12, <1>14, <1>15, <1>16 DEF IInv

LEMMA InitHolds ==
  ASSUME Init
  PROVE  IInv
<1>1. PICK n \in Names :
        /\ row = [w \in Workflows |-> [state |-> "none", name |-> n,
                                       flow_data |-> NoDrawing, process_id |-> NoProcess]]
        /\ publisher = [g \in Publishers |-> Idle(n)]
  BY DEF Init
<1>2. /\ definitions = [m \in Names |-> <<>>]
      /\ snapshots = [key \in Names \X Versions |-> <<>>]
      /\ instance = [i \in Instances |-> [phase |-> "none", workflow |-> NoWorkflow,
                                          process |-> NoProcess, version |-> 0]]
      /\ overlapped = {} /\ abandoned = {} /\ faults = 0
  BY DEF Init
<1>3. 0 \in Versions /\ MaxFaults \in Nat /\ MaxVersion \in Nat
  BY PublishAssumption DEF Versions, PublishAssumption
<1>4. \A g \in Publishers : publisher[g] \in Publications /\ publisher[g].step = "idle"
  BY <1>1, <1>3 DEF Idle, Publications
<1>5. \A g \in Publishers : ~Publishing(g)
  BY <1>4 DEF Publishing
<1>6. \A m \in Names : definitions[m] = <<>> /\ definitions[m] \in Seq(Drawings)
                         /\ Len(definitions[m]) = 0
  BY <1>2
<1>7. \A m \in Names, v \in Versions : SnapshotsOf(m, v) = <<>>
  BY <1>2 DEF SnapshotsOf
<1>8. TypeOK
  <2>1. row \in [Workflows -> Rows]
    BY <1>1 DEF Rows
  <2>2. definitions \in [Names -> Seq(Drawings)] /\ \A m \in Names : Len(definitions[m]) <= MaxVersion
    BY <1>2, <1>3, <1>6
  <2>3. snapshots \in [Names \X Versions -> Seq(SnapshotRows)]
    BY <1>2
  <2>4. publisher \in [Publishers -> Publications]
    BY <1>1, <1>3 DEF Idle, Publications
  <2>5. instance \in [Instances -> InstanceRows]
    BY <1>2, <1>3 DEF InstanceRows
  <2> QED BY <1>2, <1>3, <2>1, <2>2, <2>3, <2>4, <2>5 DEF TypeOK
<1>9. SavedItsDrawing /\ TogetherOverlap /\ LatestIsOwn
  BY <1>4, <1>5 DEF SavedItsDrawing, TogetherOverlap, LatestIsOwn
<1>10. SnapshotsFit
  BY <1>7 DEF SnapshotsFit
<1>11. AloneHasSnapshot
  BY <1>6 DEF AloneHasSnapshot
<1>12. LatestIsSnapshotted
  BY <1>6 DEF LatestIsSnapshotted, GetLatestProcessVersion
<1>13. StartsVersions
  BY <1>1, <1>2 DEF StartsVersions
<1> QED BY <1>8, <1>9, <1>10, <1>11, <1>12, <1>13 DEF IInv

LEMMA NextKeeps ==
  ASSUME IInv, [Next]_vars
  PROVE  IInv'
<1>1. ASSUME NEW w \in Workflows, CreateWorkflow(w) \/ UpdateWorkflow(w) \/ DeleteWorkflow(w)
      PROVE  IInv'
  BY <1>1, CreateKeeps, UpdateKeeps, DeleteKeeps
<1>2. ASSUME NEW g \in Publishers, NEW w \in Workflows, Deploy(g, w)
      PROVE  IInv'
  BY <1>2, DeployKeeps
<1>3. ASSUME NEW g \in Publishers, ProcessSave(g) \/ UpdateProcessId(g) \/ AskVersion(g)
      PROVE  IInv'
  BY <1>3, ProcessSaveKeeps, UpdateProcessIdKeeps, AskVersionKeeps
<1>4. ASSUME NEW g \in Publishers, CreateSnapshot(g) \/ DeployFails(g)
      PROVE  IInv'
  BY <1>4, CreateSnapshotKeeps, DeployFailsKeeps
<1>5. ASSUME NEW i \in Instances, NEW w \in Workflows, FindFlow(i, w)
      PROVE  IInv'
  BY <1>5, FindFlowKeeps
<1>6. ASSUME NEW i \in Instances, InstanceStart(i)
      PROVE  IInv'
  BY <1>6, InstanceStartKeeps
<1>7. CASE UNCHANGED vars
  <2>1. TypeOK'
    BY <1>7 DEF vars, IInv, TypeOK
  <2>2. StartsVersions'
    BY <1>7 DEF vars, IInv, StartsVersions
  <2>3. UNCHANGED published
    BY <1>7 DEF vars, published
  <2> QED BY <2>1, <2>2, <2>3, PublishedSame
<1> QED BY <1>1, <1>2, <1>3, <1>4, <1>5, <1>6, <1>7 DEF Next

\* However many goroutines publish, edit, delete and start, IInv holds.
THEOREM PublishInvariant == Spec => []IInv
<1>1. Init => IInv
  BY InitHolds
<1>2. IInv /\ [Next]_vars => IInv'
  BY NextKeeps
<1> QED BY <1>1, <1>2, PTL DEF Spec

\* Rows, versions, snapshots and publications keep their types.
THEOREM PublishTypes == Spec => []TypeOK
<1>1. IInv => TypeOK
  BY DEF IInv
<1> QED BY <1>1, PublishInvariant, PTL

\* What IInv says of one started instance and its version.
LEMMA InvariantShows ==
  ASSUME IInv
  PROVE  AloneIsShown
<1> SUFFICES ASSUME NEW i \in Instances, instance[i].phase = "started",
                    Alone(instance[i].process, instance[i].version)
             PROVE  /\ SnapshotsOf(instance[i].process, instance[i].version) # <<>>
                    /\ FindInstanceFlow(instance[i].workflow, instance[i].process,
                                        instance[i].version)
                         = definitions[instance[i].process][instance[i].version]
  BY DEF AloneIsShown
<1> DEFINE p == instance[i].process
           v == instance[i].version
<1>1. p \in Names /\ v \in 1..Len(definitions[p])
  BY DEF IInv, StartsVersions
<1>2. v \in Versions
  BY DEF IInv, TypeOK, InstanceRows
<1>3. SnapshotsOf(p, v) # <<>>
  BY <1>1 DEF IInv, AloneHasSnapshot
<1>4. \A k \in DOMAIN SnapshotsOf(p, v) : SnapshotsOf(p, v)[k].flow_data = definitions[p][v]
  BY <1>1, <1>2 DEF IInv, SnapshotsFit, Alone
<1>5. SnapshotsOf(p, v) \in Seq(SnapshotRows)
  BY <1>1, <1>2 DEF IInv, TypeOK, SnapshotsOf
<1>6. 1 \in DOMAIN SnapshotsOf(p, v) /\ Head(SnapshotsOf(p, v)) = SnapshotsOf(p, v)[1]
  BY <1>3, <1>5
<1>7. FindSnapshot(p, v) = definitions[p][v]
  BY <1>4, <1>6 DEF FindSnapshot
<1> QED BY <1>3, <1>7 DEF FindInstanceFlow

\* An instance whose version was published alone is shown as it runs, whatever
\* is edited, renamed, deleted or published afterwards.
THEOREM ShownAsPublished == Spec => []AloneIsShown
BY PublishInvariant, InvariantShows, PTL

\* When nobody is publishing the latest version any more, it has a snapshot,
\* unless its publication failed half-way.
THEOREM LatestHasSnapshot == Spec => []LatestIsSnapshotted
<1>1. IInv => LatestIsSnapshotted
  BY DEF IInv
<1> QED BY <1>1, PublishInvariant, PTL

-----------------------------------------------------------------------------
(* Walks.                                                                  *)

\* Induction over the natural numbers, for sets of them
LEMMA Induction ==
  ASSUME NEW T, 0 \in T, \A k \in Nat : k \in T => k + 1 \in T
  PROVE  Nat \subseteq T
<1> DEFINE bad == Nat \ T
<1>1. SUFFICES ASSUME bad # {} PROVE FALSE
  OBVIOUS
<1>2. PICK k \in bad : \A j \in bad : <<j, k>> \notin OpToRel(<, Nat)
  BY <1>1, WFMin, NatLessThanWellFounded
<1>3. k \in Nat /\ k - 1 \in Nat /\ k - 1 < k
  OBVIOUS
<1>4. k - 1 \notin bad
  BY <1>2, <1>3, Zenon DEF OpToRel
<1> QED BY <1>3, <1>4

LEMMA Least ==
  ASSUME NEW T \in SUBSET Nat, T # {}
  PROVE  \E k \in T : \A j \in T : k <= j
<1>1. PICK k \in T : \A j \in T : <<j, k>> \notin OpToRel(<, Nat)
  BY WFMin, NatLessThanWellFounded
<1>2. ASSUME NEW j \in T PROVE k <= j
  <2>1. ~ (j < k)
    BY <1>1, Zenon DEF OpToRel
  <2> QED BY <2>1
<1> QED BY <1>2

\* The sets of nodes that a walk reaches, step by step
Levels(f, S, next, bound) ==
    f = [k \in 0..bound |-> IF k = 0 THEN S
                            ELSE WithNext(f[k - 1], next)]

LEMMA LevelsExist ==
  ASSUME NEW S, NEW next, NEW bound \in Nat
  PROVE  \E f : Levels(f, S, next, bound)
<1> DEFINE T == {k \in Nat : \E f : Levels(f, S, next, k)}
<1>1. 0 \in T
  <2> DEFINE f == [j \in 0..0 |-> S]
  <2>1. Levels(f, S, next, 0)
    BY DEF Levels
  <2> QED BY <2>1
<1>2. ASSUME NEW k \in Nat, k \in T PROVE k + 1 \in T
  <2>1. PICK f : Levels(f, S, next, k)
    BY <1>2
  <2> DEFINE after == WithNext(f[k], next)
             g == [j \in 0..(k + 1) |-> IF j = k + 1 THEN after ELSE f[j]]
  <2>2. \A j \in 0..k : g[j] = f[j]
    OBVIOUS
  <2>3. ASSUME NEW j \in 0..(k + 1)
        PROVE  g[j] = IF j = 0 THEN S ELSE WithNext(g[j - 1], next)
    <3>1. CASE j = k + 1
      <4>1. g[j] = after /\ g[j - 1] = f[k] /\ j # 0
        BY <3>1
      <4> QED BY <4>1
    <3>2. CASE j # k + 1
      <4>1. j \in 0..k
        BY <3>2
      <4>2. g[j] = f[j] /\ (j # 0 => g[j - 1] = f[j - 1])
        BY <2>2, <4>1
      <4>3. f[j] = IF j = 0 THEN S ELSE WithNext(f[j - 1], next)
        BY <2>1, <4>1 DEF Levels
      <4> QED BY <4>2, <4>3
    <3> QED BY <3>1, <3>2
  <2>4. Levels(g, S, next, k + 1)
    BY <2>3 DEF Levels
  <2> QED BY <2>4
<1> HIDE DEF T
<1>3. bound \in T
  BY <1>1, <1>2, Induction
<1> QED BY <1>3 DEF T

LEMMA SpreadIsLevel ==
  ASSUME NEW S, NEW next, NEW bound \in Nat
  PROVE  \E f : Levels(f, S, next, bound) /\ Spread(S, next, bound) = f[bound]
<1> DEFINE f == CHOOSE f : Levels(f, S, next, bound)
<1>1. Levels(f, S, next, bound)
  BY LevelsExist
<1>2. Spread(S, next, bound) = f[bound]
  BY DEF Spread, Levels
<1> QED BY <1>1, <1>2

\* The levels do not depend on how far the walk goes
LEMMA SameLevels ==
  ASSUME NEW S, NEW next, NEW bound \in Nat, NEW f, NEW g,
         Levels(f, S, next, bound + 1), Levels(g, S, next, bound)
  PROVE  f[bound] = g[bound]
<1> DEFINE T == {k \in Nat : k <= bound => f[k] = g[k]}
<1>1. 0 \in T
  BY DEF Levels
<1>2. ASSUME NEW k \in Nat, k \in T PROVE k + 1 \in T
  <2>1. SUFFICES ASSUME k + 1 <= bound PROVE f[k + 1] = g[k + 1]
    OBVIOUS
  <2>2. f[k] = g[k]
    BY <1>2, <2>1
  <2>3. f[k + 1] = WithNext(f[k], next)
    BY <2>1 DEF Levels
  <2>4. g[k + 1] = WithNext(g[k], next)
    BY <2>1 DEF Levels
  <2> QED BY <2>2, <2>3, <2>4
<1> HIDE DEF T
<1>3. bound \in T
  BY <1>1, <1>2, Induction
<1> QED BY <1>3 DEF T

\* What is reached in no steps, and in one more
LEMMA SpreadZero ==
  ASSUME NEW S, NEW next
  PROVE  Spread(S, next, 0) = S
<1>1. PICK f : Levels(f, S, next, 0) /\ Spread(S, next, 0) = f[0]
  BY SpreadIsLevel
<1> QED BY <1>1 DEF Levels

LEMMA SpreadGrows ==
  ASSUME NEW S, NEW next, NEW k \in Nat
  PROVE  Spread(S, next, k + 1) = WithNext(Spread(S, next, k), next)
<1>1. PICK f : Levels(f, S, next, k + 1) /\ Spread(S, next, k + 1) = f[k + 1]
  BY SpreadIsLevel
<1>2. PICK g : Levels(g, S, next, k) /\ Spread(S, next, k) = g[k]
  BY SpreadIsLevel
<1>3. f[k] = g[k]
  BY <1>1, <1>2, SameLevels
<1>4. f[k + 1] = WithNext(f[k], next)
  BY <1>1 DEF Levels
<1> QED BY <1>1, <1>2, <1>3, <1>4

LEMMA SpreadStep ==
  ASSUME NEW S, NEW next, NEW k \in Nat, NEW x
  PROVE  x \in Spread(S, next, k + 1)
           <=> \E n \in Spread(S, next, k) : x = n \/ x \in next[n]
BY SpreadGrows DEF WithNext

\* A walk reaches in k steps what one that begins a step before it reaches in
\* k + 1
LEMMA WalkFromBefore ==
  ASSUME NEW next, NEW R, NEW S, NEW k \in Nat,
         \A x \in S : x \in Spread(R, next, 1)
  PROVE  \A x \in Spread(S, next, k) : x \in Spread(R, next, k + 1)
<1> DEFINE Good(j) == \A x \in Spread(S, next, j) : x \in Spread(R, next, j + 1)
           T == {j \in Nat : Good(j)}
<1>1. Good(0)
  BY SpreadZero
<1>2. ASSUME NEW j \in Nat, Good(j) PROVE Good(j + 1)
  <2>1. SUFFICES ASSUME NEW x \in Spread(S, next, j + 1)
                 PROVE  x \in Spread(R, next, (j + 1) + 1)
    OBVIOUS
  <2>2. PICK y \in Spread(S, next, j) : x = y \/ x \in next[y]
    BY SpreadStep
  <2>3. y \in Spread(R, next, j + 1)
    BY <1>2, <2>2
  <2>4. j + 1 \in Nat
    OBVIOUS
  <2> QED BY <2>2, <2>3, <2>4, SpreadStep
<1>3. 0 \in T /\ \A j \in Nat : j \in T => j + 1 \in T
  BY <1>1, <1>2
<1> HIDE DEF T
<1>4. k \in T
  BY <1>3, Induction
<1> QED BY <1>4 DEF T

\* A node from which a walk against the edges was reached leads to where that
\* walk began
LEMMA BackIsForth ==
  ASSUME NEW next, NEW prev, NEW N, NEW E \in SUBSET N, NEW k \in Nat,
         \A n \in N : prev[n] \subseteq N,
         \A n, m \in N : n \in prev[m] => m \in next[n]
  PROVE  \A n \in Spread(E, prev, k) : n \in N /\ \E x \in E : x \in Spread({n}, next, k)
<1> DEFINE Good(j) == \A n \in Spread(E, prev, j) : n \in N /\ \E x \in E : x \in Spread({n}, next, j)
           T == {j \in Nat : Good(j)}
<1>1. Good(0)
  BY SpreadZero
<1>2. ASSUME NEW j \in Nat, Good(j) PROVE Good(j + 1)
  <2>1. SUFFICES ASSUME NEW n \in Spread(E, prev, j + 1)
                 PROVE  n \in N /\ \E x \in E : x \in Spread({n}, next, j + 1)
    OBVIOUS
  <2>2. PICK m \in Spread(E, prev, j) : n = m \/ n \in prev[m]
    BY <2>1, SpreadStep
  <2>3. m \in N
    BY <1>2, <2>2
  <2>4. PICK x \in E : x \in Spread({m}, next, j)
    BY <1>2, <2>2
  <2>5. CASE n = m
    <3>1. x \in Spread({n}, next, j)
      BY <2>4, <2>5
    <3>2. x \in Spread({n}, next, j + 1)
      BY <3>1, SpreadStep
    <3> QED BY <2>3, <2>5, <3>2
  <2>6. CASE n \in prev[m]
    <3>1. n \in N /\ m \in next[n]
      BY <2>3, <2>6
    <3>2. n \in Spread({n}, next, 0) /\ 0 \in Nat
      BY SpreadZero
    <3>3. m \in Spread({n}, next, 0 + 1)
      BY <3>1, <3>2, SpreadStep
    <3>4. \A y \in Spread({m}, next, j) : y \in Spread({n}, next, j + 1)
      BY <3>3, WalkFromBefore
    <3> QED BY <2>4, <3>1, <3>4
  <2> QED BY <2>2, <2>5, <2>6
<1>3. 0 \in T /\ \A j \in Nat : j \in T => j + 1 \in T
  BY <1>1, <1>2
<1> HIDE DEF T
<1>4. k \in T
  BY <1>3, Induction
<1> QED BY <1>4 DEF T

-----------------------------------------------------------------------------
(* Accepted drawings.                                                      *)

\* The rounds of Kahn's algorithm
Rounds(f, g, size) ==
    f = [k \in 0..size |-> IF k = 0 THEN {}
                           ELSE {n \in Nodes(g) : PrevNodes(g, n) \subseteq f[k - 1]}]

LEMMA RoundsExist ==
  ASSUME NEW g, NEW size \in Nat
  PROVE  \E f : Rounds(f, g, size)
<1> DEFINE Follow(S) == {n \in Nodes(g) : PrevNodes(g, n) \subseteq S}
           T == {k \in Nat : \E f : Rounds(f, g, k)}
<1>1. 0 \in T
  <2> DEFINE f == [j \in 0..0 |-> {}]
  <2>1. Rounds(f, g, 0)
    BY DEF Rounds
  <2> QED BY <2>1
<1>2. ASSUME NEW k \in Nat, k \in T PROVE k + 1 \in T
  <2>1. PICK f : Rounds(f, g, k)
    BY <1>2
  <2>2. \A j \in 0..k : f[j] = IF j = 0 THEN {} ELSE Follow(f[j - 1])
    BY <2>1 DEF Rounds
  <2> DEFINE h == [j \in 0..(k + 1) |-> IF j = k + 1 THEN Follow(f[k]) ELSE f[j]]
  <2> HIDE DEF Follow
  <2>3. \A j \in 0..k : h[j] = f[j]
    OBVIOUS
  <2>4. ASSUME NEW j \in 0..(k + 1)
        PROVE  h[j] = IF j = 0 THEN {} ELSE Follow(h[j - 1])
    <3>1. CASE j = k + 1
      <4>1. h[j] = Follow(f[k]) /\ h[j - 1] = f[k] /\ j # 0
        BY <3>1
      <4> QED BY <4>1
    <3>2. CASE j # k + 1
      <4>1. j \in 0..k
        BY <3>2
      <4>2. h[j] = f[j] /\ (j # 0 => h[j - 1] = f[j - 1])
        BY <2>3, <4>1
      <4> QED BY <2>2, <4>1, <4>2
    <3> QED BY <3>1, <3>2
  <2>5. h = [j \in 0..(k + 1) |-> IF j = 0 THEN {} ELSE Follow(h[j - 1])]
    BY <2>4
  <2>6. Rounds(h, g, k + 1)
    BY <2>5 DEF Rounds, Follow
  <2> QED BY <2>6
<1> HIDE DEF T
<1>3. size \in T
  BY <1>1, <1>2, Induction
<1> QED BY <1>3 DEF T

\* validateAcyclic: the nodes of an accepted drawing can be numbered so that
\* each edge leads upwards
LEMMA Ranked ==
  ASSUME NEW g, Cardinality(Nodes(g)) \in Nat, Acyclic(g)
  PROVE  \E rank \in [Nodes(g) -> Nat] :
           \A n, m \in Nodes(g) : m \in Targets(g, n) => rank[n] < rank[m]
<1> DEFINE size == Cardinality(Nodes(g))
           f == CHOOSE f : Rounds(f, g, size)
<1>1. Rounds(f, g, size)
  BY RoundsExist
<1>2. f[size] = Nodes(g)
  BY DEF Acyclic, Rounds
<1> HIDE DEF f
<1>3. ASSUME NEW n \in Nodes(g)
      PROVE  \E k \in 0..size : n \in f[k] /\ \A j \in 0..size : n \in f[j] => k <= j
  <2> DEFINE T == {k \in 0..size : n \in f[k]}
  <2>1. T \in SUBSET Nat /\ size \in T
    BY <1>2
  <2>2. PICK k \in T : \A j \in T : k <= j
    BY <2>1, Least
  <2> QED BY <2>2
<1> DEFINE rank == [n \in Nodes(g) |-> CHOOSE k \in 0..size :
                      n \in f[k] /\ \A j \in 0..size : n \in f[j] => k <= j]
<1>4. \A n \in Nodes(g) : /\ rank[n] \in 0..size /\ n \in f[rank[n]]
                          /\ \A j \in 0..size : n \in f[j] => rank[n] <= j
  BY <1>3
<1> HIDE DEF rank
<1>5. ASSUME NEW n \in Nodes(g), NEW m \in Nodes(g), m \in Targets(g, n)
      PROVE  rank[n] < rank[m]
  <2> DEFINE k == rank[m]
  <2>1. k \in 0..size /\ m \in f[k] /\ rank[n] \in 0..size
    BY <1>4
  <2>2. k # 0
    BY <1>1, <2>1 DEF Rounds
  <2>3. k - 1 \in 0..size
    BY <2>1, <2>2
  <2>4. n \in PrevNodes(g, m)
    BY <1>5 DEF Targets, TargetEdges, PrevNodes
  <2>5. f[k] = {x \in Nodes(g) : PrevNodes(g, x) \subseteq f[k - 1]}
    BY <1>1, <2>1, <2>2 DEF Rounds
  <2>6. n \in f[k - 1]
    BY <2>1, <2>4, <2>5
  <2>7. rank[n] <= k - 1
    BY <1>4, <2>3, <2>6
  <2> QED BY <2>1, <2>7
<1>6. rank \in [Nodes(g) -> Nat]
  BY <1>4 DEF rank
<1> QED BY <1>5, <1>6

\* The walks of a drawing whose edges have ends stay inside it
LEMMA WalksInside ==
  ASSUME NEW g, EdgeEndpoints(g)
  PROVE  /\ \A n \in Nodes(g) : Forward(g)[n] = Targets(g, n) /\ Targets(g, n) \subseteq Nodes(g)
         /\ \A n \in Nodes(g) : Backward(g)[n] = PrevNodes(g, n) /\ PrevNodes(g, n) \subseteq Nodes(g)
         /\ \A n, m \in Nodes(g) : n \in PrevNodes(g, m) => m \in Targets(g, n)
BY DEF EdgeEndpoints, Forward, Backward, Targets, TargetEdges, PrevNodes

\* Behind a node there are only nodes of its rank or a higher one
LEMMA DescendantsAbove ==
  ASSUME NEW g, EdgeEndpoints(g), Cardinality(Nodes(g)) \in Nat,
         NEW rank \in [Nodes(g) -> Nat],
         \A n, m \in Nodes(g) : m \in Targets(g, n) => rank[n] < rank[m],
         NEW r \in Nodes(g)
  PROVE  \A x \in Descendants(g, r) : x \in Nodes(g) /\ rank[r] <= rank[x]
<1> DEFINE S == {r}
           Good(j) == \A x \in Spread(S, Forward(g), j) : x \in Nodes(g) /\ rank[r] <= rank[x]
           T == {j \in Nat : Good(j)}
<1>1. Good(0)
  <2>1. Spread(S, Forward(g), 0) = S
    BY SpreadZero
  <2> QED BY <2>1
<1> HIDE DEF S
<1>2. ASSUME NEW j \in Nat, Good(j) PROVE Good(j + 1)
  <2>1. SUFFICES ASSUME NEW x \in Spread(S, Forward(g), j + 1)
                 PROVE  x \in Nodes(g) /\ rank[r] <= rank[x]
    OBVIOUS
  <2>2. PICK y \in Spread(S, Forward(g), j) : x = y \/ x \in Forward(g)[y]
    BY SpreadStep
  <2>3. y \in Nodes(g) /\ rank[r] <= rank[y]
    BY <1>2, <2>2
  <2>4. CASE x = y
    BY <2>3, <2>4
  <2>5. CASE x \in Forward(g)[y]
    <3>1. x \in Targets(g, y) /\ x \in Nodes(g)
      BY <2>3, <2>5, WalksInside
    <3>2. rank[y] < rank[x] /\ rank[r] \in Nat /\ rank[y] \in Nat /\ rank[x] \in Nat
      BY <2>3, <3>1
    <3> QED BY <2>3, <3>1, <3>2
  <2> QED BY <2>2, <2>4, <2>5
<1>3. 0 \in T /\ \A j \in Nat : j \in T => j + 1 \in T
  BY <1>1, <1>2
<1> HIDE DEF T
<1>4. Cardinality(Nodes(g)) \in T
  BY <1>3, Induction
<1> QED BY <1>4 DEF T, Descendants, S

\* validateAcyclic: no way leads from behind a node back to it
LEMMA NoWayBack ==
  ASSUME NEW g, EdgeEndpoints(g), Cardinality(Nodes(g)) \in Nat, Acyclic(g),
         NEW n \in Nodes(g), NEW m \in Targets(g, n)
  PROVE  n \notin Descendants(g, m)
<1>1. PICK rank \in [Nodes(g) -> Nat] :
        \A x, y \in Nodes(g) : y \in Targets(g, x) => rank[x] < rank[y]
  BY Ranked
<1>2. m \in Nodes(g)
  BY WalksInside
<1>3. rank[n] < rank[m] /\ rank[n] \in Nat /\ rank[m] \in Nat
  BY <1>1, <1>2
<1>4. \A x \in Descendants(g, m) : rank[m] <= rank[x]
  BY <1>1, <1>2, DescendantsAbove
<1> QED BY <1>3, <1>4

\* validateReachability: the search from the ends, against the edges, finds a
\* node only if it leads to one of them
LEMMA LeadsToEnd ==
  ASSUME NEW g, EdgeEndpoints(g), Cardinality(Nodes(g)) \in Nat, Reachability(g),
         NEW n \in Nodes(g)
  PROVE  \E x \in OfType(g, {"end"}) : x \in Descendants(g, n)
<1> DEFINE size == Cardinality(Nodes(g))
           E == OfType(g, {"end"})
<1>1. E \in SUBSET Nodes(g)
  BY DEF OfType
<1>2. n \in Spread(E, Backward(g), size)
  BY DEF Reachability
<1>3. /\ \A x \in Nodes(g) : Backward(g)[x] \subseteq Nodes(g)
      /\ \A x, y \in Nodes(g) : x \in Backward(g)[y] => y \in Forward(g)[x]
  BY WalksInside
<1> HIDE DEF E
<1>4. \E x \in E : x \in Spread({n}, Forward(g), size)
  BY <1>1, <1>2, <1>3, BackIsForth
<1> QED BY <1>4 DEF E, Descendants

\* and the one from the start is from a single node
LEMMA LedToFromStart ==
  ASSUME NEW g, IsFiniteSet(Nodes(g)), StartEnd(g), Reachability(g), NEW n \in Nodes(g)
  PROVE  \E s \in OfType(g, {"start"}) : n \in Descendants(g, s)
<1>1. OfType(g, {"start"}) \subseteq Nodes(g)
  BY DEF OfType
<1>2. IsFiniteSet(OfType(g, {"start"}))
  BY <1>1, FS_Subset
<1>3. PICK s : OfType(g, {"start"}) = {s}
  BY <1>2, FS_Singleton DEF StartEnd
<1>4. n \in Spread({s}, Forward(g), Cardinality(Nodes(g)))
  BY <1>3 DEF Reachability
<1> QED BY <1>3, <1>4 DEF Descendants

\* What ValidateAll lets through, said without its algorithms
Sound(g) ==
    \A n \in Nodes(g) :
        /\ \A m \in Targets(g, n) : n \notin Descendants(g, m)
        /\ \E s \in OfType(g, {"start"}) : n \in Descendants(g, s)
        /\ \E x \in OfType(g, {"end"}) : x \in Descendants(g, n)

LEMMA ValidIsSound ==
  ASSUME NEW g, IsFiniteSet(Nodes(g)), ValidateAll(g)
  PROVE  Sound(g)
<1>1. /\ EdgeEndpoints(g) /\ StartEnd(g) /\ Acyclic(g) /\ Reachability(g)
      /\ Cardinality(Nodes(g)) \in Nat
  BY FS_CardinalityType DEF ValidateAll
<1>2. ASSUME NEW n \in Nodes(g), NEW m \in Targets(g, n) PROVE n \notin Descendants(g, m)
  BY <1>1, NoWayBack
<1>3. ASSUME NEW n \in Nodes(g)
      PROVE  \E s \in OfType(g, {"start"}) : n \in Descendants(g, s)
  BY <1>1, LedToFromStart
<1>4. ASSUME NEW n \in Nodes(g)
      PROVE  \E x \in OfType(g, {"end"}) : x \in Descendants(g, n)
  BY <1>1, LeadsToEnd
<1> QED BY <1>2, <1>3, <1>4 DEF Sound

LEMMA SameNodes ==
  ASSUME NEW d
  PROVE  Nodes(InitContext(d)) = Nodes(d)
BY DEF InitContext, Nodes

-----------------------------------------------------------------------------
(* The state.                                                              *)

\* A drawing that was accepted stays the one that was looked at, and the
\* engine has something to enter only while the instance runs
Accepted ==
    /\ agenda # {} => phase = "running"
    /\ \E d \in Canvases : drawing = InitContext(d)
    /\ phase \in {"published", "running", "ended"} =>
         ValidateAll(drawing) /\ process = Convert(drawing)

LEMMA AcceptedHolds == ProcessSpec => []Accepted
<1>1. ProcessInit => Accepted
  BY DEF ProcessInit, Accepted
<1>2. Accepted /\ [ProcessNext]_processVars => Accepted'
  <2> SUFFICES ASSUME Accepted, [ProcessNext]_processVars PROVE Accepted'
    OBVIOUS
  <2> USE DEF Accepted
  <2>1. CASE Publish
    BY <2>1 DEF Publish
  <2>2. CASE Refuse
    BY <2>2 DEF Refuse
  <2>3. CASE StartInstance
    BY <2>3 DEF StartInstance
  <2>4. ASSUME NEW item \in agenda, EnterTask(item) \/ EnterGateway(item) \/ EnterEnd(item)
        PROVE  Accepted'
    BY <2>4 DEF EnterTask, EnterGateway, EnterEnd
  <2>5. ASSUME NEW i \in DOMAIN rows, PassTask(i) \/ AutoPassNode(i) \/ AutoPassLost(i)
        PROVE  Accepted'
    BY <2>5 DEF PassTask, AutoPassNode, PassRow, AutoPassLost
  <2>6. CASE UNCHANGED processVars
    BY <2>6 DEF processVars
  <2> QED BY <2>1, <2>2, <2>3, <2>4, <2>5, <2>6 DEF ProcessNext
<1> QED BY <1>1, <1>2, PTL DEF ProcessSpec

\* Whatever is drawn: a published drawing has no cycle, and each of its nodes
\* lies on a way from the start to an end (validateAcyclic,
\* validateReachability)
THEOREM PublishedIsSound == ProcessSpec => []AcceptedIsSound
<1>1. Accepted => AcceptedIsSound
  <2> SUFFICES ASSUME Accepted, phase \in {"published", "running"} PROVE Sound(drawing)
    BY DEF AcceptedIsSound, Sound
  <2>1. ValidateAll(drawing)
    BY DEF Accepted
  <2>2. IsFiniteSet(Nodes(drawing))
    BY CanvasAssumption, SameNodes DEF Accepted, Nodes
  <2> QED BY <2>1, <2>2, ValidIsSound
<1> QED BY <1>1, AcceptedHolds, PTL

-----------------------------------------------------------------------------
(* The run.                                                                *)

Drawn(g) == {<<e.src, e.dst>> : e \in g.edges}

LEMMA DeduplicatedOnce ==
  ASSUME NEW edges
  PROVE  DeduplicateEdges(DeduplicateEdges(edges)) = DeduplicateEdges(edges)
<1> DEFINE D == DeduplicateEdges(edges)
           copies(E, e) == {o \in E : o.src = e.src /\ o.dst = e.dst}
           filled(E, e) == {o \in copies(E, e) : o.expr # ""}
           pool(E, e) == IF filled(E, e) = {} THEN copies(E, e) ELSE filled(E, e)
<1>1. \A E : DeduplicateEdges(E) =
               {e \in E : e \in pool(E, e) /\ \A o \in pool(E, e) : e.no <= o.no}
  BY DEF DeduplicateEdges
<1>2. D \subseteq edges
  BY DEF DeduplicateEdges
<1>3. ASSUME NEW e \in D PROVE e \in pool(D, e) /\ pool(D, e) \subseteq pool(edges, e)
  <2>1. e \in pool(edges, e)
    BY <1>1
  <2>2. copies(D, e) \subseteq copies(edges, e) /\ filled(D, e) \subseteq filled(edges, e)
    BY <1>2
  <2>3. e \in copies(D, e)
    OBVIOUS
  <2>4. CASE filled(edges, e) = {}
    BY <2>2, <2>3, <2>4
  <2>5. CASE filled(edges, e) # {}
    <3>1. e \in filled(D, e)
      BY <2>1, <2>3, <2>5
    <3> QED BY <2>2, <3>1, <2>5
  <2> QED BY <2>4, <2>5
<1>4. \A e \in D : \A o \in pool(D, e) : e.no <= o.no
  BY <1>1, <1>3
<1> HIDE DEF D, pool
<1>5. DeduplicateEdges(D) = D
  BY <1>1, <1>3, <1>4
<1> QED BY <1>5 DEF D

LEMMA SequenceOfSet ==
  ASSUME NEW S, IsFiniteSet(S)
  PROVE  SetToSeq(S) \in [1..Cardinality(S) -> S] /\ Cardinality(S) \in Nat
<1>1. ExistsBijection(1..Cardinality(S), S) /\ Cardinality(S) \in Nat
  BY FS_CardinalityType
<1>2. \E f \in [1..Cardinality(S) -> S] : IsInjective(f)
  BY <1>1 DEF ExistsBijection, Bijection, Injection, IsInjective
<1> QED BY <1>1, <1>2 DEF SetToSeq

\* What Convert makes of an accepted drawing
Publishable(g) ==
    /\ ValidateAll(g)
    /\ IsFiniteSet(Nodes(g))
    /\ \A n, m \in Nodes(g) : <<n, m>> \notin Nodes(g)

LEMMA ProxiesAreDrawn ==
  ASSUME NEW g, Publishable(g)
  PROVE  /\ Proxies(g) \subseteq Drawn(g)
         /\ Proxies(g) \intersect Nodes(g) = {}
         /\ Proxies(g) \subseteq Nodes(g) \X Nodes(g)
<1>1. EdgeEndpoints(g)
  BY DEF Publishable, ValidateAll
<1>2. \A e \in g.edges : e.src \in Nodes(g) /\ e.dst \in Nodes(g)
  BY <1>1 DEF EdgeEndpoints
<1>3. Proxies(g) \subseteq Drawn(g)
  BY DEF Proxies, Drawn
<1>4. Drawn(g) \subseteq Nodes(g) \X Nodes(g) /\ Drawn(g) \intersect Nodes(g) = {}
  BY <1>2 DEF Drawn, Publishable
<1> QED BY <1>3, <1>4

LEMMA IdsOfConvert ==
  ASSUME NEW g, Publishable(g)
  PROVE  /\ Ids(Convert(g)) = Nodes(g) \union Proxies(g)
         /\ IsFiniteSet(Ids(Convert(g)))
         /\ \A n \in Ids(Convert(g)) : /\ Convert(g).kind[n] = Kind(g, n)
                                       /\ Convert(g).prevs[n] = PrevNodeIDs(g, n)
         /\ \A n \in OfType(g, Gateways) : Convert(g).next[n] = NextOf(g, n)
<1>1. Ids(Convert(g)) = Nodes(g) \union Proxies(g)
  BY DEF Ids, Convert
<1>2. IsFiniteSet(Nodes(g) \X Nodes(g))
  BY FS_Product DEF Publishable
<1>3. IsFiniteSet(Proxies(g))
  BY <1>2, ProxiesAreDrawn, FS_Subset
<1>4. IsFiniteSet(Nodes(g) \union Proxies(g))
  BY <1>3, FS_Union DEF Publishable
<1> QED BY <1>1, <1>4 DEF Convert

LEMMA KindsOfConvert ==
  ASSUME NEW g, Publishable(g), NEW n \in Nodes(g) \union Proxies(g)
  PROVE  /\ Kind(g, n) = "proxy" <=> n \in Proxies(g)
         /\ Kind(g, n) = "gateway" => n \in OfType(g, Gateways)
         /\ n \in Nodes(g) /\ g.type[n] = "start" => Kind(g, n) = "root"
<1>1. n \in Nodes(g) => n \notin Proxies(g)
  BY ProxiesAreDrawn
<1> QED BY <1>1 DEF Kind, OfType, Gateways, Waiting

LEMMA IdOfNext ==
  ASSUME NEW g, NEW n, NEW x \in NextOf(g, n)
  PROVE  \E e \in TargetEdges(g, n) : x.id = GetOrGenerateProxyID(g, n, e.dst)
<1> DEFINE expr(e) == IF g.type[n] = "condition" THEN e.expr ELSE ""
<1>1. PICK e \in TargetEdges(g, n) :
        x = [id |-> GetOrGenerateProxyID(g, n, e.dst), expr |-> expr(e)]
  BY Zenon DEF NextOf
<1>2. x.id = GetOrGenerateProxyID(g, n, e.dst)
  <2> HIDE DEF expr
  <2> QED BY <1>1
<1> QED BY <1>2

LEMMA NextIsDrawn ==
  ASSUME NEW g, Publishable(g), NEW n \in OfType(g, Gateways), NEW x \in NextOf(g, n)
  PROVE  /\ x.id \in Ids(Convert(g))
         /\ Convert(g).kind[x.id] # "proxy" => <<n, x.id>> \in Drawn(g)
<1>1. PICK e \in TargetEdges(g, n) : x.id = GetOrGenerateProxyID(g, n, e.dst)
  BY IdOfNext
<1>2. e \in g.edges /\ e.src = n /\ e.dst \in Nodes(g)
  BY <1>1 DEF TargetEdges, Publishable, ValidateAll, EdgeEndpoints
<1>3. CASE NeedsProxy(g, e.dst)
  <2>1. x.id \in Proxies(g)
    BY <1>1, <1>2, <1>3 DEF GetOrGenerateProxyID, Proxies, OfType
  <2> QED BY <2>1, IdsOfConvert, KindsOfConvert
<1>4. CASE ~NeedsProxy(g, e.dst)
  <2>1. x.id = e.dst
    BY <1>1, <1>4 DEF GetOrGenerateProxyID
  <2> QED BY <1>2, <2>1, IdsOfConvert DEF Drawn
<1> QED BY <1>3, <1>4

LEMMA PrevIsDrawn ==
  ASSUME NEW g, Publishable(g), NEW m \in Ids(Convert(g)), NEW n \in Convert(g).prevs[m],
         Convert(g).kind[m] # "proxy", n \in Ids(Convert(g)), Convert(g).kind[n] # "proxy"
  PROVE  <<n, m>> \in Drawn(g)
<1>1. /\ m \in Nodes(g) /\ m \notin Proxies(g)
      /\ n \in Nodes(g) /\ n \notin Proxies(g)
  BY IdsOfConvert, KindsOfConvert
<1>2. n \in PrevNodeIDs(g, m)
  BY IdsOfConvert
<1>3. n \in PrevNodes(g, m)
  <2>1. CASE g.type[m] \in Waiting
    <3>1. PICK p \in PrevNodes(g, m) : n = GetOrGenerateProxyForGateway(g, p, m)
      BY <1>1, <1>2, <2>1 DEF PrevNodeIDs
    <3>2. p \in Nodes(g)
      BY DEF PrevNodes, Publishable, ValidateAll, EdgeEndpoints
    <3>3. n = p
      BY <1>1, <3>1, <3>2 DEF GetOrGenerateProxyForGateway, Publishable
    <3> QED BY <3>3
  <2>2. CASE g.type[m] \notin Waiting
    BY <1>1, <1>2, <2>2 DEF PrevNodeIDs
  <2> QED BY <2>1, <2>2
<1> QED BY <1>3 DEF PrevNodes, Drawn

Records(S) == Seq([node : S, prev : S, status : {"open", "passed", "skipped", "system"}])

LEMMA RecordIn ==
  ASSUME NEW S, NEW r \in Records(S), NEW i \in DOMAIN r
  PROVE  /\ r[i] \in [node : S, prev : S, status : {"open", "passed", "skipped", "system"}]
         /\ r[i].node \in S /\ r[i].prev \in S
         /\ r[i].status \in {"open", "passed", "skipped", "system"}
<1> DEFINE T == [node : S, prev : S, status : {"open", "passed", "skipped", "system"}]
<1>1. r \in Seq(T)
  BY DEF Records
<1>2. r[i] \in T
  <2> HIDE DEF T
  <2> QED BY <1>1
<1> QED BY <1>2

\* An item leads along the drawing, if not from or to a proxy
Leads(item) ==
    /\ {item.node, item.from, item.prev} \subseteq Ids(process)
    /\ process.kind[item.node] # "proxy" /\ process.kind[item.from] # "proxy" =>
         <<item.from, item.node>> \in Drawn(drawing)

Walking ==
    /\ drawing.edges = DeduplicateEdges(drawing.edges)
    /\ phase \in {"drawn", "refused", "published", "running", "ended"}
    /\ phase \in {"drawn", "refused", "published"} => rows = <<>>
    /\ rows \in Records(Ids(process))
    /\ \A item \in agenda : Leads(item)
    /\ walked \subseteq Drawn(drawing)
    /\ lost \subseteq DOMAIN rows

LEMMA PublishedIsPublishable ==
  ASSUME Accepted, phase \in {"published", "running", "ended"}
  PROVE  Publishable(drawing) /\ process = Convert(drawing)
<1>1. PICK d \in Canvases : drawing = InitContext(d)
  BY DEF Accepted
<1>2. Nodes(drawing) = DOMAIN d.type
  BY <1>1, SameNodes DEF Nodes
<1> QED BY <1>2, CanvasAssumption DEF Accepted, Publishable

LEMMA AfterTaskLeads ==
  ASSUME Accepted, phase \in {"published", "running"}, NEW n \in Ids(process), NEW item \in AfterTask(n)
  PROVE  Leads(item)
<1>1. Publishable(drawing) /\ process = Convert(drawing)
  BY PublishedIsPublishable
<1>2. PICK m \in Ids(process) : n \in process.prevs[m] /\ item = [node |-> m, from |-> n, prev |-> n]
  BY DEF AfterTask
<1> QED BY <1>1, <1>2, PrevIsDrawn DEF Leads

LEMMA WalkIsDrawn ==
  ASSUME Accepted, Walking, NEW item \in agenda
  PROVE  Walk(item) \subseteq Drawn(drawing)
<1>1. Publishable(drawing) /\ process = Convert(drawing)
  BY PublishedIsPublishable DEF Accepted
<1>2. Leads(item) /\ item.node \in Nodes(drawing) \union Proxies(drawing)
  BY <1>1, IdsOfConvert DEF Walking, Leads
<1>3. CASE process.kind[item.node] = "proxy"
  <2>1. item.node \in Proxies(drawing)
    BY <1>1, <1>2, <1>3, IdsOfConvert, KindsOfConvert
  <2> QED BY <1>1, <1>3, <2>1, ProxiesAreDrawn DEF Walk, Walking
<1>4. CASE process.kind[item.node] # "proxy"
  BY <1>2, <1>4 DEF Walk, Walking, Leads
<1> QED BY <1>3, <1>4

LEMMA SkippedAreRecords ==
  ASSUME Accepted, phase = "running", NEW n \in Ids(process), process.kind[n] = "gateway",
         NEW prev \in Ids(process)
  PROVE  Skipped(SkippedBy(n), prev) \in Records(Ids(process))
<1>1. Publishable(drawing) /\ process = Convert(drawing)
  BY PublishedIsPublishable
<1>2. SkippedBy(n) \subseteq Ids(process)
  <2> SUFFICES ASSUME n \in process.splits, NEW c \in process.next[n], NEW x \in process.next[c.id]
               PROVE  x.id \in Ids(process)
    BY DEF SkippedBy
  <2>1. n \in OfType(drawing, {"selective"}) /\ n \in OfType(drawing, Gateways)
    BY <1>1 DEF Convert, OfType, Gateways, Waiting
  <2>2. c \in NextOf(drawing, n)
    BY <1>1, <2>1, IdsOfConvert
  <2>3. PICK e \in TargetEdges(drawing, n) : c.id = GetOrGenerateProxyID(drawing, n, e.dst)
    BY <2>2, IdOfNext
  <2>4. e.dst \in Nodes(drawing) /\ drawing.type[e.dst] = "condition"
    BY <1>1, <2>1, <2>3
    DEF Publishable, ValidateAll, EdgeEndpoints, SelectiveTargetsMustBeCondition, Targets, TargetEdges
  <2>5. c.id \in OfType(drawing, Gateways)
    BY <2>3, <2>4 DEF GetOrGenerateProxyID, NeedsProxy, OfType, Gateways, Waiting
  <2>6. x \in NextOf(drawing, c.id)
    BY <1>1, <2>5, IdsOfConvert
  <2> QED BY <1>1, <2>5, <2>6, NextIsDrawn
<1>3. IsFiniteSet(SkippedBy(n))
  BY <1>1, <1>2, IdsOfConvert, FS_Subset
<1> DEFINE order == SetToSeq(SkippedBy(n))
           size == Cardinality(SkippedBy(n))
<1>4. order \in [1..size -> SkippedBy(n)] /\ size \in Nat
  BY <1>3, SequenceOfSet
<1> HIDE DEF order, size
<1>5. Skipped(SkippedBy(n), prev) =
        [i \in 1..size |-> [node |-> order[i], prev |-> prev, status |-> "skipped"]]
  BY <1>4 DEF Skipped, order
<1>6. \A i \in 1..size : order[i] \in Ids(process)
  BY <1>2, <1>4
<1> QED BY <1>4, <1>5, <1>6 DEF Records

LEMMA StartWalks ==
  ASSUME Accepted, Walking, StartInstance
  PROVE  Walking'
<1> DEFINE root == CHOOSE n \in Ids(process) : process.kind[n] = "root"
<1>1. Publishable(drawing) /\ process = Convert(drawing)
  BY PublishedIsPublishable DEF StartInstance
<1>2. root \in Ids(process)
  <2>1. Cardinality(OfType(drawing, {"start"})) = 1
    BY <1>1 DEF Publishable, ValidateAll, StartEnd
  <2>2. PICK n \in Nodes(drawing) : drawing.type[n] = "start"
    BY <2>1, FS_EmptySet DEF OfType
  <2>3. n \in Ids(process) /\ process.kind[n] = "root"
    BY <1>1, <2>2, IdsOfConvert, KindsOfConvert
  <2> QED BY <2>3
<1> HIDE DEF root
<1>3. rows' = <<[node |-> root, prev |-> root, status |-> "passed"]>> /\ agenda' = AfterTask(root)
  BY DEF StartInstance, root
<1>4. UNCHANGED <<drawing, process, walked, lost>> /\ phase' = "running"
  BY DEF StartInstance
<1>5. rows' \in Records(Ids(process))
  BY <1>2, <1>3 DEF Records
<1>6. \A item \in agenda' : Leads(item)
  BY <1>2, <1>3, AfterTaskLeads DEF StartInstance
<1>7. lost \subseteq DOMAIN rows'
  BY DEF Walking, StartInstance
<1> QED BY <1>4, <1>5, <1>6, <1>7 DEF Walking, Leads

LEMMA EnterWalks ==
  ASSUME Accepted, Walking, NEW item \in agenda,
         EnterTask(item) \/ EnterGateway(item) \/ EnterEnd(item)
  PROVE  Walking'
<1>1. phase = "running" /\ Publishable(drawing) /\ process = Convert(drawing)
  BY PublishedIsPublishable DEF Accepted
<1>2. /\ UNCHANGED <<drawing, process, lost>>
      /\ phase' \in {"running", "ended"}
      /\ walked' = Walk(item)
  BY <1>1 DEF EnterTask, EnterGateway, EnterEnd
<1>3. Leads(item)
  BY DEF Walking
<1>4. rows' \in Records(Ids(process)) /\ DOMAIN rows \subseteq DOMAIN rows'
  <2>1. rows \in Records(Ids(process))
    BY DEF Walking
  <2>2. CASE EnterTask(item)
    <3> DEFINE record == [node |-> item.node, prev |-> item.prev, status |-> "open"]
    <3>1. record \in [node : Ids(process), prev : Ids(process),
                   status : {"open", "passed", "skipped", "system"}]
      BY <1>3 DEF Leads
    <3>2. rows' = Append(rows, record)
      BY <2>2 DEF EnterTask
    <3> HIDE DEF record
    <3> QED BY <2>1, <3>1, <3>2 DEF Records
  <2>3. CASE EnterGateway(item)
    <3>1. Skipped(SkippedBy(item.node), item.prev) \in Records(Ids(process))
      BY <1>1, <1>3, <2>3, SkippedAreRecords DEF EnterGateway, Leads
    <3>2. rows' = rows \o Skipped(SkippedBy(item.node), item.prev)
      BY <2>3 DEF EnterGateway
    <3> QED BY <2>1, <3>1, <3>2 DEF Records
  <2>4. CASE EnterEnd(item)
    BY <2>1, <2>4 DEF EnterEnd
  <2> QED BY <2>2, <2>3, <2>4
<1>5. \A x \in agenda' : Leads(x)
  <2>1. CASE EnterGateway(item)
    <3> SUFFICES ASSUME NEW next \in Chosen(item.node)
                 PROVE  Leads([node |-> next.id, from |-> item.node, prev |-> item.prev])
      BY <2>1 DEF EnterGateway, Walking
    <3>1. item.node \in OfType(drawing, Gateways)
      BY <1>1, <1>3, <2>1, IdsOfConvert, KindsOfConvert DEF EnterGateway, Leads
    <3>2. next \in NextOf(drawing, item.node)
      BY <1>1, <3>1, IdsOfConvert DEF Chosen
    <3> QED BY <1>1, <1>3, <3>1, <3>2, NextIsDrawn DEF Leads
  <2> QED BY <2>1 DEF EnterTask, EnterEnd, Walking
<1>6. walked' \subseteq Drawn(drawing)
  BY <1>2, WalkIsDrawn
<1> QED BY <1>2, <1>4, <1>5, <1>6 DEF Walking, Leads

LEMMA PassWalks ==
  ASSUME Accepted, Walking, NEW i \in DOMAIN rows, PassRow(i)
  PROVE  Walking'
<1>1. UNCHANGED <<drawing, process, phase, walked, lost>> /\ phase = "running"
  BY DEF PassRow
<1>2. agenda' = AfterTask(rows[i].node)
  BY DEF PassRow
<1> DEFINE record(j) == IF j = i THEN [rows[j] EXCEPT !.status = "passed"]
                     ELSE IF j \in Siblings(i) THEN [rows[j] EXCEPT !.status = "system"]
                     ELSE rows[j]
           Record == [node : Ids(process), prev : Ids(process),
                      status : {"open", "passed", "skipped", "system"}]
<1>3. rows \in Seq(Record)
  BY DEF Walking, Records
<1>4. \A j \in DOMAIN rows : record(j) \in Record
  <2> SUFFICES ASSUME NEW j \in DOMAIN rows PROVE record(j) \in Record
    OBVIOUS
  <2>1. rows[j] \in Record
    BY RecordIn DEF Walking
  <2> QED BY <2>1
<1>5. rows' = [j \in DOMAIN rows |-> record(j)]
  BY DEF PassRow
<1>6. rows' \in Records(Ids(process)) /\ DOMAIN rows' = DOMAIN rows
  <2> HIDE DEF record, Record
  <2>1. DOMAIN rows = 1..Len(rows) /\ Len(rows) \in Nat
    BY <1>3
  <2>2. rows' \in Seq(Record)
    BY <1>4, <1>5, <2>1
  <2> QED BY <1>5, <2>2 DEF Records, Record
<1>7. \A item \in agenda' : Leads(item)
  <2>1. rows[i].node \in Ids(process)
    BY RecordIn DEF Walking
  <2> QED BY <1>1, <1>2, <2>1, AfterTaskLeads
<1> QED BY <1>1, <1>6, <1>7 DEF Walking, Leads

LEMMA WalkingHolds == ProcessSpec => [](Accepted /\ Walking)
<1>1. ProcessInit => Walking
  <2> SUFFICES ASSUME ProcessInit PROVE Walking
    OBVIOUS
  <2>1. drawing.edges = DeduplicateEdges(drawing.edges)
    <3>1. PICK d \in Canvases : drawing = InitContext(d)
      BY DEF ProcessInit
    <3> QED BY <3>1, DeduplicatedOnce DEF InitContext
  <2>2. rows \in Records(Ids(process))
    BY DEF ProcessInit, Records
  <2> QED BY <2>1, <2>2 DEF ProcessInit, Walking
<1>2. Accepted /\ Walking /\ [ProcessNext]_processVars => Walking'
  <2> SUFFICES ASSUME Accepted, Walking, [ProcessNext]_processVars PROVE Walking'
    OBVIOUS
  <2>1. CASE Publish
    <3>1. rows' = <<>> /\ UNCHANGED <<drawing, walked, lost>> /\ phase' = "published"
      BY <2>1 DEF Publish, Walking
    <3>2. agenda' = {}
      BY <2>1 DEF Publish, Accepted
    <3>3. lost \subseteq DOMAIN rows'
      BY <2>1 DEF Publish, Walking
    <3> QED BY <3>1, <3>2, <3>3 DEF Walking, Records
  <2>2. CASE Refuse
    BY <2>2 DEF Refuse, Walking, Leads
  <2>3. CASE StartInstance
    BY <2>3, StartWalks
  <2>4. ASSUME NEW item \in agenda, EnterTask(item) \/ EnterGateway(item) \/ EnterEnd(item)
        PROVE  Walking'
    BY <2>4, EnterWalks
  <2>5. ASSUME NEW i \in DOMAIN rows, PassTask(i) \/ AutoPassNode(i)
        PROVE  Walking'
    BY <2>5, PassWalks DEF PassTask, AutoPassNode
  <2>6. ASSUME NEW i \in DOMAIN rows, AutoPassLost(i)
        PROVE  Walking'
    BY <2>6 DEF AutoPassLost, Walking, Leads
  <2>7. CASE UNCHANGED processVars
    BY <2>7 DEF processVars, Walking, Leads
  <2> QED BY <2>1, <2>2, <2>3, <2>4, <2>5, <2>6, <2>7 DEF ProcessNext
<1> QED BY <1>1, <1>2, AcceptedHolds, PTL DEF ProcessSpec

\* Whatever is drawn: the records and what the engine has yet to enter name
\* nodes of the definition, and the process goes along edges of the drawing,
\* although the definition has proxies between its gateways (types.go:56-90)
THEOREM ProcessTypes == ProcessSpec => []ProcessTypeOK
<1>1. Accepted /\ Walking => ProcessTypeOK
  <2> SUFFICES ASSUME Accepted, Walking PROVE ProcessTypeOK
    OBVIOUS
  <2>1. \A i \in DOMAIN rows : /\ rows[i].node \in Ids(process) /\ rows[i].prev \in Ids(process)
                               /\ rows[i].status \in {"open", "passed", "skipped", "system"}
    BY RecordIn DEF Walking
  <2>2. \A item \in agenda : {item.node, item.from, item.prev} \subseteq Ids(process)
    BY DEF Walking, Leads
  <2> QED BY <2>1, <2>2 DEF ProcessTypeOK, Accepted, Walking, Drawn
<1> QED BY <1>1, WalkingHolds, PTL

-----------------------------------------------------------------------------
(* Both together: the drawings that Deploy does not refuse are those that   *)
(* ValidateAll lets through.                                               *)

\* Only such drawings become versions
NoneRefused ==
    /\ \A g \in Publishers :
         publisher[g].step # "idle" => publisher[g].flow_data \in Drawings \ Refused
    /\ \A p \in Names : \A v \in 1..Len(definitions[p]) :
         definitions[p][v] \in Drawings \ Refused

LEMMA NoneRefusedKept ==
  ASSUME IInv, NoneRefused, [Next]_vars
  PROVE  NoneRefused'
<1> USE DEF NoneRefused
<1>1. /\ publisher \in [Publishers -> Publications]
      /\ definitions \in [Names -> Seq(Drawings)]
  BY DEF IInv, TypeOK
<1>2. ASSUME UNCHANGED <<publisher, definitions>> PROVE NoneRefused'
  BY <1>2
<1>3. ASSUME NEW w \in Workflows, CreateWorkflow(w) \/ UpdateWorkflow(w) \/ DeleteWorkflow(w)
      PROVE  NoneRefused'
  BY <1>2, <1>3 DEF CreateWorkflow, UpdateWorkflow, DeleteWorkflow
<1>4. ASSUME NEW i \in Instances, InstanceStart(i) \/ \E w \in Workflows : FindFlow(i, w)
      PROVE  NoneRefused'
  BY <1>2, <1>4 DEF InstanceStart, FindFlow
<1>5. ASSUME NEW g \in Publishers, NEW w \in Workflows, Deploy(g, w)
      PROVE  NoneRefused'
  <2>1. row[w].flow_data \in Drawings \ Refused
    BY <1>5 DEF Deploy, IInv, TypeOK, Rows
  <2>2. publisher'[g].flow_data = row[w].flow_data
    BY <1>1, <1>5 DEF Deploy, Idle
  <2>3. \A h \in Publishers : h # g => publisher'[h] = publisher[h]
    BY <1>1, <1>5 DEF Deploy
  <2> QED BY <1>5, <2>1, <2>2, <2>3 DEF Deploy
<1>6. ASSUME NEW g \in Publishers, publisher[g].step # "idle", UNCHANGED definitions,
             \A h \in Publishers : publisher'[h].flow_data = publisher[h].flow_data,
             \A h \in Publishers : h # g => publisher'[h].step = publisher[h].step
      PROVE  NoneRefused'
  BY <1>6
<1>7. ASSUME NEW g \in Publishers, ProcessSave(g)
      PROVE  NoneRefused'
  <2> DEFINE n == publisher[g].name
  <2>1. n \in Names /\ publisher[g].flow_data \in Drawings \ Refused
    BY <1>1, <1>7 DEF ProcessSave, Publications
  <2>2. definitions[n] \in Seq(Drawings)
    BY <1>1, <2>1
  <2>3. /\ definitions'[n] = Append(definitions[n], publisher[g].flow_data)
        /\ \A m \in Names : m # n => definitions'[m] = definitions[m]
    BY <1>1, <1>7, <2>1 DEF ProcessSave
  <2>4. \A v \in 1..Len(definitions'[n]) : definitions'[n][v] \in Drawings \ Refused
    BY <2>1, <2>2, <2>3
  <2>5. /\ \A h \in Publishers : publisher'[h].flow_data = publisher[h].flow_data
        /\ \A h \in Publishers : h # g => publisher'[h].step = publisher[h].step
    BY <1>1, <1>7 DEF ProcessSave
  <2>6. \A h \in Publishers :
          publisher'[h].step # "idle" => publisher'[h].flow_data \in Drawings \ Refused
    BY <2>1, <2>5
  <2>7. \A m \in Names : \A v \in 1..Len(definitions'[m]) :
          definitions'[m][v] \in Drawings \ Refused
    BY <2>3, <2>4
  <2> QED BY <2>6, <2>7
<1>8. ASSUME NEW g \in Publishers,
             UpdateProcessId(g) \/ AskVersion(g) \/ CreateSnapshot(g) \/ DeployFails(g)
      PROVE  NoneRefused'
  <2>1. publisher[g].step # "idle" /\ UNCHANGED definitions
    BY <1>8 DEF UpdateProcessId, AskVersion, CreateSnapshot, DeployFails
  <2>2. /\ \A h \in Publishers : publisher'[h].flow_data = publisher[h].flow_data
        /\ \A h \in Publishers : h # g => publisher'[h].step = publisher[h].step
    <3>1. CASE \E t : Goto(g, t)
      BY <1>1, <3>1 DEF Goto
    <3>2. CASE AskVersion(g)
      BY <1>1, <3>2 DEF AskVersion
    <3>3. AskVersion(g) \/ \E t : Goto(g, t)
      BY <1>8 DEF UpdateProcessId, CreateSnapshot, DeployFails
    <3> QED BY <3>1, <3>2, <3>3
  <2> QED BY <1>6, <2>1, <2>2
<1>9. CASE UNCHANGED vars
  BY <1>2, <1>9 DEF vars
<1> QED BY <1>3, <1>4, <1>5, <1>7, <1>8, <1>9 DEF Next

\* What instances run, and what users are shown of those whose version was
\* published alone, has no cycle, and each node lies between start and end
RunsSoundDrawings ==
    \A i \in Instances :
        LET p == instance[i].process
            v == instance[i].version
        IN  instance[i].phase = "started" =>
              /\ Sound(InitContext(definitions[p][v]))
              /\ Alone(p, v) =>
                   Sound(InitContext(FindInstanceFlow(instance[i].workflow, p, v)))

\* The engine never runs a drawing that a validator would have refused,
\* whatever is drawn, edited and published meanwhile: Deploy compiles what it
\* saves, and an instance runs what was saved (workflow.go, converter.go)
THEOREM VersionsAreSound ==
  ASSUME \A d \in Drawings \ Refused :
           IsFiniteSet(DOMAIN d.type) /\ ValidateAll(InitContext(d))
  PROVE  Spec => []RunsSoundDrawings
<1>1. ASSUME NEW d \in Drawings \ Refused PROVE Sound(InitContext(d))
  <2>1. IsFiniteSet(Nodes(InitContext(d)))
    BY SameNodes DEF Nodes
  <2> QED BY <2>1, ValidIsSound
<1>2. Init => NoneRefused
  BY SMT DEF Init, NoneRefused, Idle
<1>3. IInv /\ NoneRefused /\ [Next]_vars => NoneRefused'
  BY NoneRefusedKept
<1>4. IInv /\ NoneRefused => RunsSoundDrawings
  <2> SUFFICES ASSUME IInv, NoneRefused, NEW i \in Instances, instance[i].phase = "started"
               PROVE  LET p == instance[i].process
                          v == instance[i].version
                      IN  /\ Sound(InitContext(definitions[p][v]))
                          /\ Alone(p, v) =>
                               Sound(InitContext(FindInstanceFlow(instance[i].workflow, p, v)))
    BY DEF RunsSoundDrawings
  <2> DEFINE p == instance[i].process
             v == instance[i].version
  <2>1. p \in Names /\ v \in 1..Len(definitions[p])
    BY DEF IInv, StartsVersions
  <2>2. definitions[p][v] \in Drawings \ Refused
    BY <2>1 DEF NoneRefused
  <2>3. Alone(p, v) => FindInstanceFlow(instance[i].workflow, p, v) = definitions[p][v]
    BY InvariantShows DEF AloneIsShown
  <2> QED BY <1>1, <2>2, <2>3
<1> QED BY <1>2, <1>3, <1>4, PublishInvariant, PTL DEF Spec
=============================================================================
