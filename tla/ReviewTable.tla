----------------------------- MODULE ReviewTable -----------------------------
(***************************************************************************)
(* The projects and review records as those see them who fill and read the *)
(* table from outside the pipeline: the webhook filter, the import script, *)
(* the notifications and the daily report.  Rows are numbered in the order *)
(* of their ids; one process of the API serves everybody, so that a        *)
(* request without an await between its reads and its commit is one step.  *)
(***************************************************************************)
EXTENDS Integers, Sequences, FiniteSets, FiniteSetsExt, Functions

CONSTANT None  \* an empty column

ASSUME TableAssumption == None \notin Nat \cup {"sent", "failed"}

VARIABLES
    projects,  \* the rows of the projects table, by id
    records,   \* the rows of review_records, by id
    now,       \* the time, in halves of a minute
    scene      \* what the outside world is like, and what it may still do

tableVars == <<projects, records, now, scene>>

-----------------------------------------------------------------------------
(* What is left of a deleted row.                                          *)
Gone == [gone |-> TRUE]

Existing(table) == {i \in DOMAIN table : table[i] # Gone}

IsActive(p) == p \in Existing(projects) /\ projects[p].active

(* What names a record: the project, where it came from (external_event_id)*)
(* and what it reviews (kind, change and commit).                          *)
NewRecord(project, event, subject, text, status, updated) ==
    [project |-> project, event |-> event, subject |-> subject, text |-> text,
     status |-> status, updated |-> updated, notice |-> None]

OfEvent(p, event) ==
    {r \in Existing(records) : records[r].project = p /\ records[r].event = event}

OfSubject(p, subject) ==
    {r \in Existing(records) : records[r].project = p /\ records[r].subject = subject}

Insert(record) == records' = Append(records, record)

(* Every write of a record moves its updated_at to the present.            *)
Set(r, record) == records' = [records EXCEPT ![r] = [record EXCEPT !.updated = now]]

May(what) == scene.left[what] > 0

Spend(what) == scene' = [scene EXCEPT !.left[what] = @ - 1]

-----------------------------------------------------------------------------
(* What administrators do to projects meanwhile.                           *)

CreateProject ==
    /\ \E row \in scene.newProjects :
        /\ \A p \in Existing(projects) : projects[p].key # row.key
        /\ projects' = Append(projects, row)
    /\ UNCHANGED records

SwitchProject(p) ==
    /\ p \in scene.switched \cap Existing(projects)
    /\ projects' = [projects EXCEPT ![p].active = ~@]
    /\ UNCHANGED records

SwitchReview(p) ==
    /\ p \in scene.switched \cap Existing(projects)
    /\ projects' = [projects EXCEPT ![p].enabled = ~@]
    /\ UNCHANGED records

(* Mutant: the records of a project stay.                                  *)
DeleteProjectOnly(p) ==
    /\ p \in scene.deleted \cap Existing(projects)
    /\ projects' = [projects EXCEPT ![p] = Gone]
    /\ UNCHANGED records

(* The records of a project go with it.                                    *)
DeleteProject(p) ==
    /\ p \in scene.deleted \cap Existing(projects)
    /\ projects' = [projects EXCEPT ![p] = Gone]
    /\ records' = [r \in DOMAIN records |->
                      IF records[r] # Gone /\ records[r].project = p THEN Gone
                      ELSE records[r]]

EditProjects ==
    /\ May("edits") /\ Spend("edits")
    /\ \/ CreateProject
       \/ \E p \in DOMAIN projects :
             SwitchProject(p) \/ SwitchReview(p) \/ DeleteProject(p)
    /\ UNCHANGED now

-----------------------------------------------------------------------------
(* The pipeline of ReviewPipeline as far as it shows here: a queued record *)
(* is reviewed or fails.                                                   *)
Execute(r) ==
    /\ May("work") /\ Spend("work")
    /\ r \in Existing(records) /\ records[r].status = "queued"
    /\ \E status \in {"reviewed", "failed"} :
          Set(r, [records[r] EXCEPT !.status = status])
    /\ UNCHANGED <<projects, now>>
=============================================================================
