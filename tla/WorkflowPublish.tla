--------------------------- MODULE WorkflowPublish ---------------------------
(***************************************************************************)
(* What an instance runs and what its users are shown. Publishing a        *)
(* workflow (Deploy, internal/service/workflow/workflow.go) compiles the   *)
(* drawing it read, saves it as the next version of the engine's process   *)
(* of that name, notes the process in the workflow's row, asks for the     *)
(* latest version and stores the drawing as the snapshot of that version.  *)
(* Instances run what the engine has; the views, approvals and automation  *)
(* of an instance read the snapshot of its version and, if there is none,  *)
(* the drawing of the row (FindInstanceFlow).                              *)
(*                                                                         *)
(* Each statement is a step, because no transaction spans them. Meanwhile  *)
(* rows are edited and deleted, processes are started, and a publication   *)
(* may fail at each step. The engine (easy-workflow) is outside the        *)
(* repository: ProcessSave appends a version to the process of the name,   *)
(* and an instance runs the version that is the latest when it starts.     *)
(***************************************************************************)
EXTENDS Naturals, Sequences

CONSTANTS
    Workflows,   \* ids of the workflow table
    Names,       \* their names; the engine has one process per name
    Drawings,    \* contents of flow_data
    Refused,     \* drawings the validators refuse
    Publishers,  \* goroutines in Deploy
    Instances,   \* process instances
    NoProcess, NoDrawing, NoWorkflow,
    MaxVersion,  \* bound: versions of a process
    MaxFaults    \* bound: publications that fail half-way

ASSUME PublishAssumption ==
    /\ Refused \subseteq Drawings
    /\ NoProcess \notin Names
    /\ NoDrawing \notin Drawings
    /\ NoWorkflow \notin Workflows
    /\ MaxVersion \in Nat
    /\ MaxFaults \in Nat

VARIABLES
    row,          \* [Workflows -> Rows]: the workflow table
    definitions,  \* [Names -> Seq(Drawings)]: the engine's versions
    snapshots,    \* [Names \X Versions -> Seq(SnapshotRows)]: the snapshot table,
                  \* the rows of each process and version in order of id
    publisher,    \* [Publishers -> Publications]: where each Deploy stands
    instance,     \* [Instances -> InstanceRows]
    overlapped,   \* versions saved or pending while another was being published
    abandoned,    \* versions whose publication failed after they were saved
    faults        \* failed publications so far

vars == <<row, definitions, snapshots, publisher, instance, overlapped,
          abandoned, faults>>

Versions == 0..MaxVersion

\* A row is not created yet, deleted, or there.
Rows == [state : {"none", "deleted", "there"}, name : Names,
         flow_data : Drawings \cup {NoDrawing}, process_id : Names \cup {NoProcess}]

SnapshotRows == [workflow_id : Workflows, flow_data : Drawings]

\* own is the version the engine gave this publication, which ProcessSave does
\* not return; version is the one Deploy asked for afterwards.
Publications == [step : {"idle", "save", "link", "ask", "snapshot"},
                 workflow : Workflows \cup {NoWorkflow}, name : Names,
                 flow_data : Drawings \cup {NoDrawing},
                 own : Versions, version : Versions]

InstanceRows == [phase : {"none", "found", "started"},
                 workflow : Workflows \cup {NoWorkflow}, process : Names \cup {NoProcess},
                 version : Versions]

TypeOK ==
    /\ row \in [Workflows -> Rows]
    /\ definitions \in [Names -> Seq(Drawings)]
    /\ \A n \in Names : Len(definitions[n]) <= MaxVersion
    /\ snapshots \in [Names \X Versions -> Seq(SnapshotRows)]
    /\ publisher \in [Publishers -> Publications]
    /\ instance \in [Instances -> InstanceRows]
    /\ overlapped \subseteq Names \X Versions
    /\ abandoned \subseteq Names \X Versions
    /\ faults \in 0..MaxFaults

Idle(n) == [step |-> "idle", workflow |-> NoWorkflow, name |-> n,
            flow_data |-> NoDrawing, own |-> 0, version |-> 0]

Init ==
    \E n \in Names :
      /\ row = [w \in Workflows |-> [state |-> "none", name |-> n,
                                     flow_data |-> NoDrawing, process_id |-> NoProcess]]
      /\ definitions = [m \in Names |-> <<>>]
      /\ snapshots = [key \in Names \X Versions |-> <<>>]
      /\ publisher = [g \in Publishers |-> Idle(n)]
      /\ instance = [i \in Instances |-> [phase |-> "none", workflow |-> NoWorkflow,
                                          process |-> NoProcess, version |-> 0]]
      /\ overlapped = {}
      /\ abandoned = {}
      /\ faults = 0

There(w) == row[w].state = "there"

-----------------------------------------------------------------------------
(***************************************************************************)
(* Rows and snapshots                                                      *)
(***************************************************************************)

CreateWorkflow(w) ==
    /\ row[w].state = "none"
    /\ \E n \in Names, d \in Drawings \cup {NoDrawing} :
         row' = [row EXCEPT ![w] = [state |-> "there", name |-> n,
                                    flow_data |-> d, process_id |-> NoProcess]]
    /\ UNCHANGED <<definitions, snapshots, publisher, instance, overlapped,
                   abandoned, faults>>

\* Update replaces name and drawing; a request without a drawing removes it.
UpdateWorkflow(w) ==
    /\ There(w)
    /\ \E n \in Names, d \in Drawings \cup {NoDrawing} :
         row' = [row EXCEPT ![w].name = n, ![w].flow_data = d]
    /\ UNCHANGED <<definitions, snapshots, publisher, instance, overlapped,
                   abandoned, faults>>

DeleteWorkflow(w) ==
    /\ There(w)
    /\ row' = [row EXCEPT ![w].state = "deleted"]
    /\ UNCHANGED <<definitions, snapshots, publisher, instance, overlapped,
                   abandoned, faults>>

\* The snapshots of a version; two workflows of one name may each have one.
SnapshotsOf(p, v) == snapshots[<<p, v>>]

\* FindSnapshotByProcess does not ask for the workflow and takes the lowest id.
FindSnapshot(p, v) == Head(SnapshotsOf(p, v)).flow_data

\* The drawing an instance's views, approvals and automation work with.
FindInstanceFlow(w, p, v) ==
    IF SnapshotsOf(p, v) # <<>> THEN FindSnapshot(p, v)
    ELSE IF There(w) THEN row[w].flow_data
    ELSE NoDrawing

GetLatestProcessVersion(p) == Len(definitions[p])

\* INSERT ... ON DUPLICATE KEY UPDATE of (workflow_id, process_id, process_version).
UpsertSnapshot(w, p, v, d) ==
    LET table    == SnapshotsOf(p, v)
        snapshot == [workflow_id |-> w, flow_data |-> d]
        SameKey  == {k \in DOMAIN table : table[k].workflow_id = w}
    IN  snapshots' = [snapshots EXCEPT ![<<p, v>>] =
          IF SameKey = {} THEN Append(table, snapshot)
          ELSE [k \in DOMAIN table |-> IF k \in SameKey THEN snapshot ELSE table[k]]]

-----------------------------------------------------------------------------
(***************************************************************************)
(* Deploy                                                                  *)
(***************************************************************************)

\* Between ProcessSave and CreateSnapshot.
Publishing(g) == publisher[g].step \in {"link", "ask", "snapshot"}
Goto(g, s)    == publisher' = [publisher EXCEPT ![g].step = s]

\* The handler reads the row and Deploy compiles what was read; a drawing that
\* is refused ends the request.
Deploy(g, w) ==
    /\ publisher[g].step = "idle"
    /\ There(w)
    /\ row[w].flow_data \notin Refused \cup {NoDrawing}
    /\ publisher' = [publisher EXCEPT ![g] =
         [Idle(row[w].name) EXCEPT !.step = "save", !.workflow = w,
                                   !.flow_data = row[w].flow_data]]
    /\ UNCHANGED <<row, definitions, snapshots, instance, overlapped,
                   abandoned, faults>>

\* Versions of the process n on their way to their snapshots.
Underway(n) ==
    {<<n, publisher[h].own>> :
        h \in {h \in Publishers : Publishing(h) /\ publisher[h].name = n}}

ProcessSave(g) ==
    LET n == publisher[g].name
        v == Len(definitions[n]) + 1
    IN  /\ publisher[g].step = "save"
        /\ v <= MaxVersion
        /\ definitions' = [definitions EXCEPT ![n] = Append(@, publisher[g].flow_data)]
        /\ publisher' = [publisher EXCEPT ![g].step = "link", ![g].own = v]
        /\ overlapped' = IF Underway(n) = {} THEN overlapped
                         ELSE overlapped \cup Underway(n) \cup {<<n, v>>}
        /\ UNCHANGED <<row, snapshots, instance, abandoned, faults>>

\* An UPDATE by id: nothing happens if the row has been deleted.
UpdateProcessId(g) ==
    LET w == publisher[g].workflow
    IN  /\ publisher[g].step = "link"
        /\ row' = IF There(w) THEN [row EXCEPT ![w].process_id = publisher[g].name]
                  ELSE row
        /\ Goto(g, "ask")
        /\ UNCHANGED <<definitions, snapshots, instance, overlapped, abandoned,
                       faults>>

\* Mutant: the version that was the latest before this publication saved its own.
AskVersionBefore(g) ==
    /\ publisher[g].step = "ask"
    /\ publisher' = [publisher EXCEPT ![g].step = "snapshot",
                       ![g].version = publisher[g].own - 1]
    /\ UNCHANGED <<row, definitions, snapshots, instance, overlapped, abandoned,
                   faults>>

AskVersion(g) ==
    /\ publisher[g].step = "ask"
    /\ publisher' = [publisher EXCEPT ![g].step = "snapshot",
                       ![g].version = GetLatestProcessVersion(publisher[g].name)]
    /\ UNCHANGED <<row, definitions, snapshots, instance, overlapped, abandoned,
                   faults>>

\* Mutant: the drawing is read again from the row.
CreateSnapshotOfRow(g) ==
    LET w == publisher[g].workflow
    IN  /\ publisher[g].step = "snapshot"
        /\ IF There(w) /\ row[w].flow_data # NoDrawing
           THEN UpsertSnapshot(w, publisher[g].name, publisher[g].version,
                               row[w].flow_data)
           ELSE UNCHANGED snapshots
        /\ Goto(g, "idle")
        /\ UNCHANGED <<row, definitions, instance, overlapped, abandoned, faults>>

CreateSnapshot(g) ==
    /\ publisher[g].step = "snapshot"
    /\ UpsertSnapshot(publisher[g].workflow, publisher[g].name,
                      publisher[g].version, publisher[g].flow_data)
    /\ Goto(g, "idle")
    /\ UNCHANGED <<row, definitions, instance, overlapped, abandoned, faults>>

\* An error, or the end of the process: what was done stays.
DeployFails(g) ==
    /\ publisher[g].step # "idle"
    /\ faults < MaxFaults
    /\ faults' = faults + 1
    /\ abandoned' = IF Publishing(g)
                    THEN abandoned \cup {<<publisher[g].name, publisher[g].own>>}
                    ELSE abandoned
    /\ Goto(g, "idle")
    /\ UNCHANGED <<row, definitions, snapshots, instance, overlapped>>

-----------------------------------------------------------------------------
(***************************************************************************)
(* Starting an instance                                                    *)
(***************************************************************************)

\* ProcessEventConsumer.handleTask reads the row; process 0 cannot be started.
FindFlow(i, w) ==
    /\ instance[i].phase = "none"
    /\ There(w)
    /\ row[w].process_id # NoProcess
    /\ instance' = [instance EXCEPT ![i].phase = "found", ![i].workflow = w,
                                    ![i].process = row[w].process_id]
    /\ UNCHANGED <<row, definitions, snapshots, publisher, overlapped, abandoned,
                   faults>>

InstanceStart(i) ==
    /\ instance[i].phase = "found"
    /\ instance' = [instance EXCEPT ![i].phase = "started",
                      ![i].version = GetLatestProcessVersion(instance[i].process)]
    /\ UNCHANGED <<row, definitions, snapshots, publisher, overlapped, abandoned,
                   faults>>

Next ==
    \/ \E w \in Workflows : CreateWorkflow(w) \/ UpdateWorkflow(w) \/ DeleteWorkflow(w)
    \/ \E g \in Publishers :
         \/ \E w \in Workflows : Deploy(g, w)
         \/ ProcessSave(g)
         \/ UpdateProcessId(g)
         \/ AskVersion(g)
         \/ CreateSnapshot(g)
         \/ DeployFails(g)
    \/ \E i \in Instances :
         \/ \E w \in Workflows : FindFlow(i, w)
         \/ InstanceStart(i)

Spec == Init /\ [][Next]_vars

-----------------------------------------------------------------------------
(***************************************************************************)
(* Properties                                                              *)
(***************************************************************************)

\* The publication of version v of process p has ended, one way or the other.
Over(p, v) ==
    ~ \E g \in Publishers :
        Publishing(g) /\ publisher[g].name = p /\ publisher[g].own = v

\* It ended well, and no other publication of the process ran beside it.
Alone(p, v) == Over(p, v) /\ <<p, v>> \notin overlapped \cup abandoned

\* What an instance of a version runs is what its users are shown, and an
\* approval finds its snapshot (service.go:272), whatever became of the row, of
\* its name and of later publications: provided that no two publications of the
\* process overlapped and this one did not fail half-way.
AloneIsShown ==
    \A i \in Instances :
        LET p == instance[i].process
            v == instance[i].version
        IN  instance[i].phase = "started" /\ Alone(p, v) =>
              /\ SnapshotsOf(p, v) # <<>>
              /\ FindInstanceFlow(instance[i].workflow, p, v) = definitions[p][v]

\* However publications overlap, the latest version of a process has a snapshot
\* once its own publication has ended well: Deploy asks for the version after it
\* has saved its own. Earlier versions may have none.
LatestIsSnapshotted ==
    \A p \in Names :
        LET v == GetLatestProcessVersion(p)
        IN  v > 0 /\ Over(p, v) /\ <<p, v>> \notin abandoned
              => SnapshotsOf(p, v) # <<>>

\* workflow.go:229: users who open an old ticket see the drawing it was approved
\* by and not the newest one. Said of moments at which nobody is publishing and
\* no publication has failed.
HistoryIsShown ==
    (\A g \in Publishers : ~Publishing(g)) /\ abandoned = {} =>
        \A i \in Instances :
            instance[i].phase = "started" =>
                FindInstanceFlow(instance[i].workflow, instance[i].process,
                                 instance[i].version)
                  = definitions[instance[i].process][instance[i].version]

-----------------------------------------------------------------------------
(***************************************************************************)
(* Why they hold: an inductive invariant                                   *)
(***************************************************************************)

\* A publication that is under way is of a row and its drawing, and has saved
\* that drawing as its own version.
SavedItsDrawing ==
    \A g \in Publishers :
        LET job == publisher[g]
        IN  /\ job.step # "idle" =>
                 job.workflow \in Workflows /\ job.flow_data \in Drawings
            /\ Publishing(g) =>
                 /\ job.own \in 1..Len(definitions[job.name])
                 /\ definitions[job.name][job.own] = job.flow_data

\* Two of them that are under way together have overlapped.
TogetherOverlap ==
    \A g, h \in Publishers :
        g # h /\ Publishing(g) /\ Publishing(h) /\ publisher[g].name = publisher[h].name
          => <<publisher[g].name, publisher[g].own>> \in overlapped

\* The latest version is one's own, or both overlapped; so is the one that was
\* the latest when Deploy asked.
LatestIsOwn ==
    \A g \in Publishers :
        LET job == publisher[g]
            latest == GetLatestProcessVersion(job.name)
        IN  /\ Publishing(g) =>
                 \/ latest = job.own
                 \/ /\ <<job.name, latest>> \in overlapped
                    /\ <<job.name, job.own>> \in overlapped
            /\ job.step = "snapshot" =>
                 /\ job.version \in job.own..latest
                 /\ \/ job.version = job.own
                    \/ /\ <<job.name, job.version>> \in overlapped
                       /\ <<job.name, job.own>> \in overlapped

\* Snapshots are of versions that exist, and of their drawing unless overlapped.
SnapshotsFit ==
    \A p \in Names, v \in Versions :
        /\ SnapshotsOf(p, v) # <<>> => v \in 1..Len(definitions[p])
        /\ <<p, v>> \notin overlapped =>
             \A k \in DOMAIN SnapshotsOf(p, v) :
                 SnapshotsOf(p, v)[k].flow_data = definitions[p][v]

\* A version that did not overlap has its snapshot when it is over.
AloneHasSnapshot ==
    \A p \in Names : \A v \in 1..Len(definitions[p]) :
        Alone(p, v) => SnapshotsOf(p, v) # <<>>

\* What is found or started is a process with a version.
StartsVersions ==
    /\ \A w \in Workflows :
         row[w].process_id # NoProcess => definitions[row[w].process_id] # <<>>
    /\ \A i \in Instances :
         instance[i].phase # "none" =>
             /\ instance[i].process \in Names
             /\ definitions[instance[i].process] # <<>>
             /\ instance[i].phase = "started" =>
                  instance[i].version \in 1..Len(definitions[instance[i].process])

IInv ==
    /\ TypeOK
    /\ SavedItsDrawing
    /\ TogetherOverlap
    /\ LatestIsOwn
    /\ SnapshotsFit
    /\ AloneHasSnapshot
    /\ LatestIsSnapshotted
    /\ StartsVersions
=============================================================================
