--------------------------- MODULE ReportingProofs ---------------------------
(***************************************************************************)
(* Proofs about Reporting: for any scenes, any number of importers and of  *)
(* change requests, any calendar and schedule.                             *)
(***************************************************************************)
EXTENDS Reporting, WellFoundedInduction, FiniteSetTheorems, TLAPS

Columns == {"project", "event", "subject", "text", "status", "updated", "notice"}

SceneFields ==
    {"projects", "records", "platform", "repository", "onlyProtected", "protected", "drafts",
     "targets", "newProjects", "switched", "deleted", "sources", "leftOut", "pageSize",
     "answersGetLost", "schedule", "expected", "day", "enabled", "scoped", "failing", "left"}

Moves == {"moves", "again", "work", "edits", "imports", "ticks", "starts", "stops"}

(***************************************************************************)
(* What stays true of the scene, and what a step leaves of it.             *)
(***************************************************************************)
SceneHolds ==
    /\ DOMAIN scene = SceneFields
    /\ scene.left \in [Moves -> Nat]
    /\ scene.platform \in {"github", "gitlab"} /\ None \notin scene.targets
    /\ scene.pageSize \in Nat \ {0}
    /\ scene.enabled \subseteq Range(Channels) /\ scene.expected \subseteq Nat
    /\ DOMAIN scene.sources \subseteq Nat \ {0}
    /\ \A row \in scene.newProjects : IsProject(row, scene)

SceneStays == \A f \in SceneFields \ {"left"} : scene'[f] = scene[f]

(* A bounded move is counted, and leaves the rest of the scene.            *)
LEMMA SpendingStays ==
    ASSUME SceneHolds, NEW what \in Moves, May(what), Spend(what)
    PROVE  SceneHolds' /\ SceneStays
<1>1. /\ DOMAIN scene' = SceneFields /\ SceneStays
      /\ scene'.left = [scene.left EXCEPT ![what] = @ - 1]
  BY DEF Spend, SceneHolds, SceneStays, SceneFields
<1>2. scene'.left \in [Moves -> Nat]
  BY <1>1 DEF SceneHolds, May
<1>3. /\ scene'.platform = scene.platform /\ scene'.targets = scene.targets
      /\ scene'.pageSize = scene.pageSize /\ scene'.enabled = scene.enabled
      /\ scene'.newProjects = scene.newProjects /\ scene'.protected = scene.protected
      /\ scene'.sources = scene.sources /\ scene'.expected = scene.expected
  BY <1>1 DEF SceneStays, SceneFields
<1> QED
  BY <1>1, <1>2, <1>3 DEF SceneHolds, IsProject, ProtectedBy

(* A scene that is left alone stays.                                       *)
LEMMA UnchangedStays == SceneHolds /\ UNCHANGED scene => SceneHolds' /\ SceneStays
BY DEF SceneHolds, SceneStays, IsProject, ProtectedBy

-----------------------------------------------------------------------------
(***************************************************************************)
(* The tables: rows are complete, keys unique, no record outlives its      *)
(* project, none is a second one of an event or of what it reviews.        *)
(***************************************************************************)
ProjectsHold ==
    /\ \E S : projects \in Seq(S)
    /\ \A p \in Existing(projects) : IsProject(projects[p], scene)
    /\ \A p, q \in Existing(projects) : projects[p].key = projects[q].key => p = q

IsRow(row) ==
    /\ DOMAIN row = Columns
    /\ row.project \in Existing(projects)
    /\ row.status \in {"queued", "reviewed", "failed"}
    /\ row.notice \in {None, "sent", "failed"}
    /\ row.event[1] = "import" => row.subject = None

RecordsHold ==
    /\ \E S : records \in Seq(S)
    /\ \A r \in Existing(records) : IsRow(records[r])
    /\ \A r, s \in Existing(records) : records[r].project = records[s].project =>
          /\ records[r].event = records[s].event => r = s
          /\ records[r].subject = records[s].subject /\ records[r].subject # None => r = s

(***************************************************************************)
(* What the steps do to the records.                                       *)
(***************************************************************************)
SameRow(r) ==
    /\ records'[r].project = records[r].project
    /\ records'[r].event = records[r].event /\ records'[r].subject = records[r].subject
    /\ records[r].notice # None => records'[r].notice # None

PlacesStay ==
    /\ DOMAIN records \subseteq DOMAIN records'
    /\ Existing(records') \cap DOMAIN records \subseteq Existing(records)

RowsStay ==
    /\ PlacesStay
    /\ Existing(records') \subseteq Existing(records)
    /\ \A r \in Existing(records') : SameRow(r)

(* The id of a project is its place in the table.                          *)
LEMMA RowsArePlaces == \A t : t \in Existing(projects) => t \in DOMAIN projects
BY DEF Existing

IsNewRow(p, event, subject, status) ==
    /\ p \in Existing(projects) /\ status \in {"queued", "reviewed"}
    /\ OfEvent(p, event) = {}
    /\ subject # None => OfSubject(p, subject) = {}
    /\ event[1] = "import" => subject = None

(* An insert adds one row under the next id and touches no other.          *)
LEMMA InsertAddsOne ==
    ASSUME RecordsHold, projects' = projects,
           NEW p, NEW event, NEW subject, NEW text, NEW status, NEW updated,
           IsNewRow(p, event, subject, status),
           Insert(NewRecord(p, event, subject, text, status, updated))
    PROVE  /\ RecordsHold' /\ PlacesStay
           /\ Existing(records') = Existing(records) \cup {Len(records) + 1}
           /\ Len(records) + 1 \notin Existing(records)
           /\ \A r \in Existing(records) : records'[r] = records[r]
           /\ records'[Len(records) + 1]
                  = NewRecord(p, event, subject, text, status, updated)
<1> DEFINE row == NewRecord(p, event, subject, text, status, updated)
           n == Len(records) + 1
<1> USE DEF IsNewRow
<1>1. PICK S : records \in Seq(S)
  BY DEF RecordsHold
<1>2. /\ records' = Append(records, row)
      /\ records' \in Seq(S \cup {row}) /\ n \in Nat
      /\ DOMAIN records' = DOMAIN records \cup {n} /\ n \notin DOMAIN records
      /\ \A r \in DOMAIN records : records'[r] = records[r]
      /\ records'[n] = row
  BY <1>1 DEF Insert
<1>3. /\ DOMAIN row = Columns
      /\ row.project = p /\ row.event = event /\ row.subject = subject
      /\ row.status = status /\ row.notice = None
  BY DEF NewRecord, Columns
<1>4. row # Gone
  <2>1. "project" \in DOMAIN row /\ "project" \notin DOMAIN Gone
    BY <1>3 DEF Columns, Gone
  <2> QED
    BY <2>1
<1> HIDE DEF row, n
<1>5. Existing(records') = Existing(records) \cup {n}
  BY <1>2, <1>4 DEF Existing
<1>6. n \notin Existing(records)
  BY <1>2 DEF Existing
<1>7. \A r \in Existing(records) : r \in DOMAIN records /\ records'[r] = records[r]
  BY <1>2 DEF Existing
<1>8. \A r \in Existing(records') : IsRow(records[r])'
  BY <1>2, <1>3, <1>5, <1>7 DEF RecordsHold, IsRow
<1>9. ASSUME NEW r \in Existing(records), records[r].project = p
      PROVE  /\ records[r].event # event
             /\ records[r].subject = subject => subject = None
  BY <1>9 DEF OfEvent, OfSubject
<1>10. \A r, s \in Existing(records') : records'[r].project = records'[s].project =>
          /\ records'[r].event = records'[s].event => r = s
          /\ records'[r].subject = records'[s].subject /\ records'[r].subject # None => r = s
  BY <1>2, <1>3, <1>5, <1>7, <1>9 DEF RecordsHold
<1>11. PlacesStay
  BY <1>2, <1>5 DEF PlacesStay, Existing
<1> QED
  BY <1>2, <1>5, <1>6, <1>7, <1>8, <1>10, <1>11 DEF RecordsHold, row, n

(* A write of a row leaves what it reviews, the other rows, and a notice   *)
(* that was sent.                                                          *)
LEMMA SetRewritesOne ==
    ASSUME RecordsHold, NEW r \in Existing(records), projects' = projects,
           NEW row, DOMAIN row = Columns,
           row.project = records[r].project,
           row.event = records[r].event, row.subject = records[r].subject,
           row.status \in {"queued", "reviewed", "failed"},
           row.notice \in {None, "sent", "failed"},
           records[r].notice # None => row.notice # None,
           Set(r, row)
    PROVE  /\ RecordsHold' /\ RowsStay
           /\ Existing(records') = Existing(records)
           /\ Len(records') = Len(records)
           /\ \A s \in Existing(records) : s # r => records'[s] = records[s]
           /\ records'[r].notice = row.notice
<1> DEFINE new == [row EXCEPT !.updated = now]
<1>1. PICK S : records \in Seq(S)
  BY DEF RecordsHold
<1>2. r \in DOMAIN records
  BY DEF Existing
<1>3. /\ records' \in Seq(S \cup {new}) /\ DOMAIN records' = DOMAIN records
      /\ Len(records') = Len(records)
      /\ \A s \in DOMAIN records : records'[s] = IF s = r THEN new ELSE records[s]
  BY <1>1, <1>2 DEF Set
<1>4. /\ DOMAIN new = Columns
      /\ new.project = records[r].project
      /\ new.event = records[r].event /\ new.subject = records[r].subject
      /\ new.status = row.status /\ new.notice = row.notice
  BY DEF Columns
<1>5. new # Gone
  <2>1. "project" \in DOMAIN new /\ "project" \notin DOMAIN Gone
    BY <1>4 DEF Columns, Gone
  <2> QED
    BY <2>1
<1> HIDE DEF new
<1>6. Existing(records') = Existing(records)
  BY <1>2, <1>3, <1>5 DEF Existing
<1>7. \A s \in Existing(records) : s \in DOMAIN records
  BY DEF Existing
<1>8. \A s \in Existing(records') : IsRow(records[s])'
  BY <1>3, <1>4, <1>6, <1>7 DEF RecordsHold, IsRow
<1>9. \A s \in Existing(records) : SameRow(s)
  BY <1>3, <1>4, <1>7 DEF SameRow
<1>10. RecordsHold'
  BY <1>3, <1>6, <1>8, <1>9 DEF RecordsHold, SameRow
<1> QED
  BY <1>2, <1>3, <1>4, <1>6, <1>7, <1>9, <1>10 DEF RowsStay, PlacesStay

-----------------------------------------------------------------------------
(***************************************************************************)
(* Edits of the projects: either none goes, and those that are keep their  *)
(* names and keys and come before those that are new, or the records of    *)
(* the one that goes go with it.                                           *)
(***************************************************************************)
TableHolds == SceneHolds /\ ProjectsHold /\ RecordsHold

ProjectsStay ==
    /\ Existing(projects) \subseteq Existing(projects')
    /\ \A p \in Existing(projects) :
          projects'[p].name = projects[p].name /\ projects'[p].key = projects[p].key
    /\ \A q \in Existing(projects') \ Existing(projects), p \in Existing(projects) : q > p

(* A project is not a deleted row.                                         *)
LEMMA ProjectsAreRows ==
    ASSUME NEW row, NEW s, IsProject(row, s)
    PROVE  row # Gone
<1>1. "key" \in DOMAIN row /\ "key" \notin DOMAIN Gone
  BY DEF IsProject, ProjectColumns, Gone
<1> QED
  BY <1>1

(* Switching a project on or off keeps its place, and every record.        *)
LEMMA SwitchesKeep ==
    ASSUME TableHolds, SceneStays, SceneHolds', NEW p \in Existing(projects),
           NEW column \in {"active", "enabled"}, NEW value, UNCHANGED records,
           projects' = [projects EXCEPT ![p] = [@ EXCEPT ![column] = value]]
    PROVE  TableHolds' /\ RowsStay /\ ProjectsStay /\ Existing(records') = Existing(records)
<1> DEFINE row == [projects[p] EXCEPT ![column] = value]
<1>1. scene'.protected = scene.protected
  BY DEF SceneStays, SceneFields
<1>2. PICK S : projects \in Seq(S)
  BY DEF TableHolds, ProjectsHold
<1>3. p \in DOMAIN projects /\ IsProject(projects[p], scene)
  BY DEF Existing, TableHolds, ProjectsHold
<1>4. /\ projects' \in Seq(S \cup {row}) /\ DOMAIN projects' = DOMAIN projects
      /\ \A q \in DOMAIN projects : projects'[q] = IF q = p THEN row ELSE projects[q]
  BY <1>2, <1>3
<1>5. /\ DOMAIN row = ProjectColumns /\ ProtectedBy(row) = scene'.protected
      /\ row.key = projects[p].key /\ row.name = projects[p].name
  BY <1>1, <1>3 DEF IsProject, ProtectedBy, ProjectColumns
<1>6. row # Gone
  <2>1. "key" \in DOMAIN row /\ "key" \notin DOMAIN Gone
    BY <1>3 DEF IsProject, ProjectColumns, Gone
  <2> QED
    BY <2>1
<1> HIDE DEF row
<1>7. Existing(projects') = Existing(projects)
  BY <1>3, <1>4, <1>6 DEF Existing
<1>8. \A q \in Existing(projects) : q \in DOMAIN projects
  BY DEF Existing
<1>9. ProjectsStay
  BY <1>4, <1>5, <1>7, <1>8 DEF ProjectsStay
<1>10. ASSUME NEW q \in Existing(projects') PROVE IsProject(projects[q], scene)'
  <2>1. q \in Existing(projects) /\ (projects'[q] = projects[q] \/ projects'[q] = row)
    BY <1>4, <1>7, <1>8
  <2>2. CASE projects'[q] = row
    BY <1>5, <2>2 DEF IsProject, ProtectedBy
  <2>3. CASE projects'[q] = projects[q]
    BY <1>1, <2>1, <2>3 DEF TableHolds, ProjectsHold, IsProject, ProtectedBy
  <2> QED
    BY <2>1, <2>2, <2>3
<1>11. ProjectsHold'
  <2>1. \A q \in Existing(projects') : projects'[q].key = projects[q].key
    BY <1>7, <1>9 DEF ProjectsStay
  <2>2. \A q, r \in Existing(projects') :
            projects'[q].key = projects'[r].key => q = r
    BY <1>7, <2>1 DEF TableHolds, ProjectsHold
  <2> QED
    BY <1>4, <1>10, <2>2 DEF ProjectsHold
<1>12. RecordsHold' /\ RowsStay /\ Existing(records') = Existing(records)
  BY <1>7 DEF TableHolds, RecordsHold, IsRow, RowsStay, PlacesStay, SameRow
<1> QED
  BY <1>9, <1>11, <1>12 DEF TableHolds

(* A new project comes after those that are there.                         *)
LEMMA CreationKeeps ==
    ASSUME TableHolds, SceneStays, SceneHolds', CreateProject
    PROVE  TableHolds' /\ RowsStay /\ ProjectsStay /\ Existing(records') = Existing(records)
<1>1. scene'.protected = scene.protected
  BY DEF SceneStays, SceneFields
<1>2. PICK S : projects \in Seq(S)
  BY DEF TableHolds, ProjectsHold
<1>3. PICK row \in scene.newProjects :
          /\ \A p \in Existing(projects) : projects[p].key # row.key
          /\ projects' = Append(projects, row)
  BY DEF CreateProject
<1>4. IsProject(row, scene) /\ row # Gone
  BY <1>3, ProjectsAreRows DEF TableHolds, SceneHolds
<1> DEFINE n == Len(projects) + 1
<1>5. /\ projects' \in Seq(S \cup {row}) /\ n \in Nat
      /\ DOMAIN projects' = DOMAIN projects \cup {n}
      /\ \A p \in DOMAIN projects : p \in Nat /\ p < n /\ projects'[p] = projects[p]
      /\ projects'[n] = row
  BY <1>2, <1>3
<1> HIDE DEF n
<1>6. Existing(projects') = Existing(projects) \cup {n}
  BY <1>4, <1>5 DEF Existing
<1>7. \A q \in Existing(projects) : q \in DOMAIN projects
  BY DEF Existing
<1>8. ProjectsStay
  BY <1>5, <1>6, <1>7 DEF ProjectsStay
<1>9. ProjectsHold'
  <2>1. ASSUME NEW q \in Existing(projects') PROVE IsProject(projects[q], scene)'
    <3>1. \/ q \in Existing(projects) /\ projects'[q] = projects[q]
          \/ projects'[q] = row
      BY <1>5, <1>6, <1>7
    <3>2. IsProject(projects'[q], scene)
      BY <1>4, <3>1 DEF TableHolds, ProjectsHold
    <3> QED
      BY <1>1, <3>2 DEF IsProject, ProtectedBy
  <2>2. \A p, q \in Existing(projects') : projects'[p].key = projects'[q].key => p = q
    BY <1>3, <1>5, <1>6, <1>7 DEF TableHolds, ProjectsHold
  <2> QED
    BY <1>5, <2>1, <2>2 DEF ProjectsHold
<1>10. RecordsHold' /\ RowsStay /\ Existing(records') = Existing(records)
  BY <1>6 DEF TableHolds, RecordsHold, IsRow, RowsStay, PlacesStay, SameRow, CreateProject
<1> QED
  BY <1>8, <1>9, <1>10 DEF TableHolds

(* A deleted project takes its records with it and leaves the others.      *)
LEMMA DeletionKeeps ==
    ASSUME TableHolds, SceneStays, SceneHolds', NEW p, DeleteProject(p)
    PROVE  TableHolds' /\ RowsStay /\ ~(Existing(projects) \subseteq Existing(projects'))
<1>1. scene'.protected = scene.protected
  BY DEF SceneStays, SceneFields
<1>2. PICK S : projects \in Seq(S)
  BY DEF TableHolds, ProjectsHold
<1>3. PICK T : records \in Seq(T)
  BY DEF TableHolds, RecordsHold
<1>4. /\ p \in Existing(projects) /\ p \in DOMAIN projects
      /\ projects' \in Seq(S \cup {Gone}) /\ DOMAIN projects' = DOMAIN projects
      /\ \A q \in DOMAIN projects : projects'[q] = IF q = p THEN Gone ELSE projects[q]
  BY <1>2 DEF DeleteProject, Existing
<1>5. /\ Existing(projects') = Existing(projects) \ {p}
      /\ \A q \in Existing(projects') : projects'[q] = projects[q]
  BY <1>4 DEF Existing
<1>6. ProjectsHold'
  <2>1. \A q \in Existing(projects') : IsProject(projects[q], scene)'
    BY <1>1, <1>5 DEF TableHolds, ProjectsHold, IsProject, ProtectedBy
  <2> QED
    BY <1>4, <1>5, <2>1 DEF TableHolds, ProjectsHold
<1>7. /\ records' \in Seq(T \cup {Gone}) /\ DOMAIN records' = DOMAIN records
      /\ \A r \in DOMAIN records :
            records'[r] = IF records[r] # Gone /\ records[r].project = p THEN Gone
                          ELSE records[r]
  BY <1>3 DEF DeleteProject
<1>8. \A r \in Existing(records') :
          /\ r \in Existing(records) /\ records'[r] = records[r]
          /\ records[r].project # p
  BY <1>7 DEF Existing
<1>9. RecordsHold' /\ RowsStay
  BY <1>5, <1>7, <1>8 DEF TableHolds, RecordsHold, IsRow, RowsStay, PlacesStay, SameRow
<1> QED
  BY <1>4, <1>5, <1>6, <1>9 DEF TableHolds

(* Editing the projects keeps the tables whole: either all projects stay,  *)
(* or one is deleted.                                                      *)
LEMMA EditsKeep ==
    ASSUME TableHolds, EditProjects
    PROVE  /\ TableHolds' /\ SceneStays /\ RowsStay
           /\ \/ ProjectsStay /\ Existing(records') = Existing(records)
              \/ ~(Existing(projects) \subseteq Existing(projects'))
<1> DEFINE Fine == /\ TableHolds' /\ RowsStay
                   /\ \/ ProjectsStay /\ Existing(records') = Existing(records)
                      \/ ~(Existing(projects) \subseteq Existing(projects'))
<1>1. SceneHolds' /\ SceneStays
  BY SpendingStays DEF EditProjects, Moves, TableHolds
<1>2. CreateProject => Fine
  BY <1>1, CreationKeeps
<1>3. \A p : SwitchProject(p) => Fine
  BY <1>1, SwitchesKeep DEF SwitchProject
<1>4. \A p : SwitchReview(p) => Fine
  BY <1>1, SwitchesKeep DEF SwitchReview
<1>5. \A p : DeleteProject(p) => Fine
  BY <1>1, DeletionKeeps
<1> HIDE DEF Fine
<1>6. Fine
  BY <1>2, <1>3, <1>4, <1>5 DEF EditProjects
<1> QED
  BY <1>1, <1>6 DEF Fine

-----------------------------------------------------------------------------
(***************************************************************************)
(* Steps that write one record or none.                                    *)
(***************************************************************************)
RowsKept == RowsStay /\ Existing(records') = Existing(records)

(* Tables that nobody writes stay.                                         *)
LEMMA NoWriteKeeps ==
    RecordsHold /\ UNCHANGED <<projects, records>> => RecordsHold' /\ RowsKept
BY DEF RecordsHold, IsRow, RowsKept, RowsStay, PlacesStay, SameRow

(* Projects that nobody edits stay.                                        *)
LEMMA NoEditKeeps ==
    ProjectsHold /\ SceneStays /\ UNCHANGED projects => ProjectsHold' /\ ProjectsStay
<1> SUFFICES ASSUME ProjectsHold, SceneStays, UNCHANGED projects
             PROVE  ProjectsHold' /\ ProjectsStay
  OBVIOUS
<1>1. scene'.protected = scene.protected
  BY DEF SceneStays, SceneFields
<1> QED
  BY <1>1 DEF ProjectsHold, ProjectsStay, IsProject, ProtectedBy

(* A new status of a review keeps the records.                             *)
LEMMA StatusKeeps ==
    ASSUME RecordsHold, UNCHANGED projects, NEW r \in Existing(records),
           NEW status \in {"queued", "reviewed", "failed"},
           Set(r, [records[r] EXCEPT !.status = status])
    PROVE  RecordsHold' /\ RowsKept
<1> DEFINE row == [records[r] EXCEPT !.status = status]
<1>1. /\ DOMAIN row = Columns /\ row.project = records[r].project
      /\ row.event = records[r].event /\ row.subject = records[r].subject
      /\ row.status = status /\ row.notice \in {None, "sent", "failed"}
      /\ row.notice = records[r].notice
  BY DEF RecordsHold, IsRow, Columns
<1> HIDE DEF row
<1>2. Set(r, row)
  BY DEF row
<1> QED
  BY <1>1, <1>2, SetRewritesOne DEF RowsKept

(* The execution of a review keeps every table and what the rows review.   *)
LEMMA ExecutionKeeps ==
    ASSUME TableHolds, NEW r, Execute(r)
    PROVE  TableHolds' /\ SceneStays /\ RowsKept /\ ProjectsStay
<1>1. SceneHolds' /\ SceneStays
  BY SpendingStays DEF Execute, Moves, TableHolds
<1>2. RecordsHold' /\ RowsKept
  BY StatusKeeps DEF Execute, TableHolds
<1>3. ProjectsHold' /\ ProjectsStay
  BY <1>1, NoEditKeeps DEF Execute, TableHolds
<1> QED
  BY <1>1, <1>2, <1>3 DEF TableHolds

(***************************************************************************)
(* The import of a review finds it or adds it.                             *)
(***************************************************************************)
OnlyImports ==
    /\ PlacesStay
    /\ Existing(records) \subseteq Existing(records')
    /\ \A r \in Existing(records') :
          \/ r \in Existing(records) /\ SameRow(r)
          \/ records'[r].event[1] = "import"
    /\ \A r \in Existing(records) : SameRow(r)

(* An import leaves a review of its project, and otherwise only adds       *)
(* imported rows.                                                          *)
LEMMA ImportKeeps ==
    ASSUME RecordsHold, UNCHANGED projects, NEW job,
           NEW p, Resolved(job) = {p}, IngestMockEvent(job)
    PROVE  RecordsHold' /\ OnlyImports /\ Imported(p, job.review)' # {}
<1>1. p \in Existing(projects)
  BY DEF Resolved, ActiveProjects
<1> DEFINE event == <<"import", job.review.id>>
           updated == IF job.review.at = None THEN now ELSE job.review.at
<1>2. CASE Imported(p, job.review) # {}
  <2>1. UNCHANGED records
    BY <1>2 DEF IngestMockEvent
  <2>2. RecordsHold' /\ OnlyImports
    BY <2>1, NoWriteKeeps DEF RowsKept, RowsStay, OnlyImports
  <2>3. Imported(p, job.review)' = Imported(p, job.review)
    BY <2>1 DEF Imported, OfEvent
  <2> QED
    BY <1>2, <2>2, <2>3
<1>3. CASE Imported(p, job.review) = {}
  <2>1. /\ OfEvent(p, event) = {}
        /\ Insert(NewRecord(p, event, None, job.review.text, "reviewed", updated))
    BY <1>3 DEF IngestMockEvent, Imported
  <2> HIDE DEF updated, event
  <2>2. /\ RecordsHold' /\ PlacesStay
        /\ Existing(records') = Existing(records) \cup {Len(records) + 1}
        /\ \A r \in Existing(records) : records'[r] = records[r]
        /\ records'[Len(records) + 1]
               = NewRecord(p, event, None, job.review.text, "reviewed", updated)
    <3>1. IsNewRow(p, event, None, "reviewed")
      BY <1>1, <2>1 DEF IsNewRow
    <3> QED
      BY <2>1, <3>1, InsertAddsOne
  <2>3. /\ records'[Len(records) + 1].event = event
        /\ records'[Len(records) + 1].project = p
    BY <2>2 DEF NewRecord
  <2>4. OnlyImports
    BY <2>2, <2>3 DEF OnlyImports, SameRow, event
  <2>5. Len(records) + 1 \in Imported(p, job.review)'
    BY <2>2, <2>3 DEF Imported, OfEvent, event
  <2> QED
    BY <2>2, <2>4, <2>5
<1> QED
  BY <1>2, <1>3

(* A table has finitely many projects.                                     *)
LEMMA ProjectsAreFinite == ProjectsHold => IsFiniteSet(Existing(projects))
<1> SUFFICES ASSUME ProjectsHold PROVE IsFiniteSet(Existing(projects))
  OBVIOUS
<1>1. PICK S : projects \in Seq(S)
  BY DEF ProjectsHold
<1>2. Existing(projects) \in SUBSET (1 .. Len(projects)) /\ Len(projects) \in Nat
  BY <1>1 DEF Existing
<1>3. IsFiniteSet(1 .. Len(projects))
  BY <1>2, FS_Interval
<1> QED
  BY <1>2, <1>3, FS_Subset

(* What is accepted belongs to one project.                                *)
LEMMA AcceptedIsResolved ==
    ASSUME ProjectsHold, NEW job, IsAccepted(job)
    PROVE  \E p : Resolved(job) = {p}
<1>1. Cardinality(Resolved(job)) = 1
  BY DEF IsAccepted
<1>2. Resolved(job) \in SUBSET Existing(projects)
  BY DEF Resolved, ActiveProjects
<1>3. IsFiniteSet(Resolved(job))
  BY <1>2, ProjectsAreFinite, FS_Subset
<1> QED
  BY <1>1, <1>3, FS_Singleton

-----------------------------------------------------------------------------
(***************************************************************************)
(* The webhooks: what they tell of a fit change request is known to be     *)
(* fit, a record of a webhook is of what the webhook told of, and what is  *)
(* due is on record or on its way.                                         *)
(***************************************************************************)
IsFit(e) ==
    /\ e.draft = "no" /\ e.head # None
    /\ scene.onlyProtected => e.target \in scene.protected

OfWebhook(row) ==
    LET e == sent[row.event[2]] IN
    /\ row.event[2] \in DOMAIN sent
    /\ row.subject = Subject(e)
    /\ e.kind = "change" => IsFit(e)

Announces(id, h) ==
    LET e == sent[id] IN
    /\ e.kind = "change" /\ <<e.change, e.head>> = h
    /\ IsSupported(e) /\ IsFit(e) /\ e.target # None

IsUnderWay(h) ==
    \E id \in DOMAIN sent : Announces(id, h) /\ (id \notin arrived \/ id \in refused)

ChangesHold ==
    /\ DOMAIN changes = Changes
    /\ \A c \in Changes :
          /\ DOMAIN changes[c] = {"open", "draft", "target", "head"}
          /\ changes[c] = NoChange \/ changes[c].target \in scene.targets

SentHolds ==
    /\ \E S : sent \in Seq(S)
    /\ \A id \in DOMAIN sent : sent[id].kind = "change" /\ IsFit(sent[id]) =>
          <<sent[id].change, sent[id].head>> \in ready
    /\ arrived \subseteq DOMAIN sent /\ refused \subseteq arrived /\ due \subseteq ready

WebhooksHold ==
    /\ ChangesHold /\ SentHolds
    /\ \A r \in Existing(records) :
          \/ records[r].event[1] = "import"
          \/ records[r].event[1] = "webhook" /\ OfWebhook(records[r])
    /\ \A h \in due : Reviewing(h) # {} \/ IsUnderWay(h)

(***************************************************************************)
(* Steps that send no webhook and take none.                               *)
(***************************************************************************)
LEMMA FitnessStays == SceneStays => \A e : (IsFit(e)' <=> IsFit(e)) /\ (IsSupported(e)' <=> IsSupported(e))
BY DEF SceneStays, SceneFields, IsFit, IsSupported

(* A step that neither sends nor takes a webhook keeps what is true of     *)
(* them.                                                                   *)
LEMMA NoWebhookKeeps ==
    ASSUME WebhooksHold, SceneStays, UNCHANGED <<changes, sent, arrived, refused, ready>>,
           \A r \in Existing(records') :
               \/ r \in Existing(records) /\ SameRow(r)
               \/ records'[r].event[1] = "import",
           due' \subseteq due,
           \A h \in due' : Reviewing(h) \subseteq Reviewing(h)'
    PROVE  WebhooksHold'
<1>1. /\ \A e : (IsFit(e)' <=> IsFit(e)) /\ (IsSupported(e)' <=> IsSupported(e))
      /\ scene'.targets = scene.targets
  BY FitnessStays DEF SceneStays, SceneFields
<1>2. ChangesHold'
  BY <1>1 DEF WebhooksHold, ChangesHold
<1>3. SentHolds'
  BY <1>1 DEF WebhooksHold, SentHolds
<1>4. \A r \in Existing(records') :
          \/ records'[r].event[1] = "import"
          \/ records'[r].event[1] = "webhook" /\ OfWebhook(records[r])'
  BY <1>1 DEF WebhooksHold, OfWebhook, SameRow
<1>5. \A h : IsUnderWay(h) => IsUnderWay(h)'
  BY <1>1 DEF IsUnderWay, Announces
<1>6. \A h \in due' : Reviewing(h)' # {} \/ IsUnderWay(h)'
  BY <1>5 DEF WebhooksHold
<1> QED
  BY <1>2, <1>3, <1>4, <1>6 DEF WebhooksHold

(* While the rows stay, what they review stays reviewed.                   *)
LEMMA KeptRowsReview ==
    ASSUME Existing(records) \subseteq Existing(records'),
           \A r \in Existing(records) : SameRow(r), NEW h
    PROVE  Reviewing(h) \subseteq Reviewing(h)'
BY DEF Reviewing, SameRow

(* When rows are deleted, what is no longer reviewed is no longer due.     *)
LEMMA WatchedRowsReview ==
    ASSUME RowsStay, WatchRecords
    PROVE  due' \subseteq due /\ \A h \in due' : Reviewing(h) \subseteq Reviewing(h)'
<1>1. due' \subseteq due /\ \A h \in due' : Reviewing(h) \subseteq Existing(records')
  BY DEF WatchRecords
<1> QED
  BY <1>1 DEF Reviewing, RowsStay, PlacesStay, SameRow

(***************************************************************************)
(* Moves on the platform.                                                  *)
(***************************************************************************)
LEMMA NotesKeep ==
    ASSUME WebhooksHold, SceneHolds, SceneStays,
           UNCHANGED <<records, arrived, refused>>,
           NEW c \in Changes, NEW move \in {"open", "push", "edit", "close", "reopen"},
           NEW change, NEW more,
           DOMAIN change = {"open", "draft", "target", "head"},
           change.target \in scene.targets,
           more = <<>> \/ \E head : more = <<Pushed(c, head)>>,
           Changed(c, move, change, more)
    PROVE  WebhooksHold'
<1> DEFINE note == Note(c, move, change)
           h    == <<c, change.head>>
           n    == Len(sent) + 1
<1>1. PICK S : sent \in Seq(S)
  BY DEF WebhooksHold, SentHolds
<1>2. /\ n \in Nat /\ DOMAIN sent = 1 .. Len(sent) /\ Len(sent) \in Nat
      /\ DOMAIN sent \subseteq DOMAIN sent' /\ n \in DOMAIN sent' /\ n \notin DOMAIN sent
      /\ sent'[n] = note /\ \A id \in DOMAIN sent : sent'[id] = sent[id]
      /\ \A id \in DOMAIN sent' \ DOMAIN sent : id = n \/ sent'[id].kind = "push"
      /\ \E T : sent' \in Seq(T)
  <2>1. CASE more = <<>>
    <3>1. sent' = Append(sent, note)
      BY <1>1, <2>1 DEF Changed
    <3>2. sent' \in Seq(S \cup {note})
      BY <1>1, <3>1
    <3> QED
      BY <1>1, <3>1, <3>2
  <2>2. ASSUME NEW head, more = <<Pushed(c, head)>> PROVE <1>2
    <3> DEFINE push == Pushed(c, head)
    <3>1. sent' = sent \o <<note>> \o <<push>>
      BY <2>2 DEF Changed
    <3>2. push.kind = "push"
      BY DEF Pushed
    <3> HIDE DEF note, push
    <3>3. /\ sent' \in Seq(S \cup {note, push}) /\ Len(sent') = Len(sent) + 2
          /\ \A id \in 1 .. Len(sent) : sent'[id] = sent[id]
          /\ sent'[Len(sent) + 1] = note /\ sent'[Len(sent) + 2] = push
      <4> sent \in Seq(S \cup {note, push})
        BY <1>1
      <4>1. sent \o <<note>> = Append(sent, note)
        OBVIOUS
      <4>2. Append(sent, note) \o <<push>> = Append(Append(sent, note), push)
        OBVIOUS
      <4> QED
        BY <3>1, <4>1, <4>2
    <3> QED
      BY <1>1, <3>2, <3>3
  <2> QED
    BY <2>1, <2>2
<1>3. /\ note.kind = "change" /\ note.change = c /\ note.head = change.head
      /\ note.draft = change.draft /\ note.target = change.target
      /\ note.action = Action[scene.platform][move]
  BY DEF Note
<1>4. /\ IsReady(change) <=> IsFit(note)
      /\ IsReady(change) /\ move \in Announcing[scene.platform] => IsSupported(note)
      /\ change.target # None
  <2>1. IsReady(change) <=> IsFit(note)
    BY <1>3 DEF IsReady, IsFit
  <2>2. ASSUME move \in Announcing[scene.platform] PROVE IsSupported(note)
    <3>1. CASE scene.platform = "gitlab"
      BY <1>3, <2>2, <3>1 DEF Announcing, Action, IsSupported
    <3>2. CASE scene.platform = "github"
      BY <1>3, <2>2, <3>2 DEF Announcing, Action, IsSupported
    <3> QED
      BY <3>1, <3>2 DEF SceneHolds
  <2> QED
    BY <2>1, <2>2 DEF SceneHolds
<1>5. /\ IsReady(change) => h \in ready'
      /\ ready \subseteq ready' /\ due' \subseteq ready'
      /\ \A g \in due' : g \in due \/ (g = h /\ IsReady(change) /\ move \in Announcing[scene.platform])
      /\ changes' = [changes EXCEPT ![c] = change]
  BY DEF Changed, WebhooksHold, SentHolds
<1> HIDE DEF note, n
<1>6. /\ \A e : (IsFit(e)' <=> IsFit(e)) /\ (IsSupported(e)' <=> IsSupported(e))
      /\ scene'.targets = scene.targets
  BY FitnessStays DEF SceneStays, SceneFields
<1>7. ChangesHold'
  BY <1>5, <1>6 DEF WebhooksHold, ChangesHold
<1>8. SentHolds'
  <2>1. \A id \in DOMAIN sent' :
            \/ id \in DOMAIN sent /\ sent'[id] = sent[id]
            \/ sent'[id] = note
            \/ sent'[id].kind = "push"
    BY <1>2
  <2>2. \A id \in DOMAIN sent' : sent'[id].kind = "change" /\ IsFit(sent'[id]) =>
            <<sent'[id].change, sent'[id].head>> \in ready'
    BY <1>3, <1>4, <1>5, <2>1 DEF WebhooksHold, SentHolds
  <2>3. \E T : sent' \in Seq(T)
    BY <1>2
  <2>4. arrived' \subseteq DOMAIN sent' /\ refused' \subseteq arrived'
    BY <1>2 DEF WebhooksHold, SentHolds
  <2> QED
    BY <1>5, <1>6, <2>2, <2>3, <2>4 DEF SentHolds
<1>9. \A r \in Existing(records') :
          \/ records'[r].event[1] = "import"
          \/ records'[r].event[1] = "webhook" /\ OfWebhook(records[r])'
  BY <1>2, <1>6 DEF WebhooksHold, OfWebhook
<1>10. \A g \in due' : Reviewing(g)' # {} \/ IsUnderWay(g)'
  <2>1. \A g : Reviewing(g)' = Reviewing(g)
    BY DEF Reviewing
  <2>2. \A g : IsUnderWay(g) => IsUnderWay(g)'
    BY <1>2, <1>6 DEF IsUnderWay, Announces
  <2>3. ASSUME IsReady(change), move \in Announcing[scene.platform] PROVE IsUnderWay(h)'
    <3>1. n \notin arrived'
      BY <1>2 DEF WebhooksHold, SentHolds
    <3> QED
      BY <1>2, <1>3, <1>4, <1>6, <2>3, <3>1 DEF IsUnderWay, Announces
  <2> QED
    BY <1>5, <2>1, <2>2, <2>3 DEF WebhooksHold
<1> QED
  BY <1>7, <1>8, <1>9, <1>10 DEF WebhooksHold

(* A comment on a change keeps what is true of the webhooks.               *)
LEMMA CommentsKeep ==
    ASSUME WebhooksHold, SceneStays, UNCHANGED <<records, arrived, refused>>,
           NEW c \in Changes, Comment(c)
    PROVE  WebhooksHold'
<1> DEFINE note == [Pushed(c, None) EXCEPT !.kind = "note"]
<1>1. PICK S : sent \in Seq(S)
  BY DEF WebhooksHold, SentHolds
<1>2. note.kind = "note"
  BY DEF Pushed
<1>3. /\ UNCHANGED <<changes, ready, due>>
      /\ sent' = Append(sent, note)
  BY DEF Comment
<1> HIDE DEF note
<1>4. /\ sent' \in Seq(S \cup {note}) /\ DOMAIN sent \subseteq DOMAIN sent'
      /\ \A id \in DOMAIN sent : sent'[id] = sent[id]
      /\ \A id \in DOMAIN sent' : id \in DOMAIN sent \/ sent'[id] = note
  BY <1>1, <1>3
<1>5. /\ \A e : (IsFit(e)' <=> IsFit(e)) /\ (IsSupported(e)' <=> IsSupported(e))
      /\ scene'.targets = scene.targets
  BY FitnessStays DEF SceneStays, SceneFields
<1>6. ChangesHold'
  BY <1>3, <1>5 DEF WebhooksHold, ChangesHold
<1>7. SentHolds'
  BY <1>2, <1>3, <1>4, <1>5 DEF WebhooksHold, SentHolds
<1>8. \A r \in Existing(records') :
          \/ records'[r].event[1] = "import"
          \/ records'[r].event[1] = "webhook" /\ OfWebhook(records[r])'
  BY <1>4, <1>5 DEF WebhooksHold, OfWebhook
<1>9. \A h \in due' : Reviewing(h)' # {} \/ IsUnderWay(h)'
  <2>1. \A h : Reviewing(h)' = Reviewing(h)
    BY DEF Reviewing
  <2>2. \A h : IsUnderWay(h) => IsUnderWay(h)'
    BY <1>4, <1>5 DEF IsUnderWay, Announces
  <2> QED
    BY <1>3, <2>1, <2>2 DEF WebhooksHold
<1> QED
  BY <1>6, <1>7, <1>8, <1>9 DEF WebhooksHold

(* Whatever happens to a change on the platform touches no row and no      *)
(* project, and what it makes due is on its way.                           *)
LEMMA MovesKeep ==
    ASSUME TableHolds, WebhooksHold, NEW c \in Changes, PlatformMove(c)
    PROVE  TableHolds' /\ SceneStays /\ RowsKept /\ ProjectsStay /\ WebhooksHold'
<1>1. SceneHolds' /\ SceneStays
  BY SpendingStays DEF PlatformMove, Moves, TableHolds
<1>2. UNCHANGED <<projects, records, arrived, refused>>
  BY DEF PlatformMove
<1>3. RecordsHold' /\ RowsKept /\ ProjectsHold' /\ ProjectsStay
  BY <1>1, <1>2, NoWriteKeeps, NoEditKeeps DEF TableHolds
<1>4. /\ DOMAIN changes[c] = {"open", "draft", "target", "head"}
      /\ changes[c] = NoChange \/ changes[c].target \in scene.targets
      /\ ~NoChange.open
  BY DEF WebhooksHold, ChangesHold, NoChange
<1> SUFFICES WebhooksHold'
  BY <1>1, <1>3 DEF TableHolds
<1> USE DEF TableHolds
<1>5. CASE Open(c)
  <2>1. PICK draft \in scene.drafts, target \in scene.targets, head \in {None, 1} :
            Changed(c, "open", [open |-> TRUE, draft |-> draft, target |-> target,
                                head |-> head], <<>>)
    BY <1>5 DEF Open
  <2> QED
    BY <1>1, <1>2, <2>1, NotesKeep
<1>6. CASE Push(c)
  <2> DEFINE head == IF changes[c].head = None THEN 1 ELSE changes[c].head + 1
             change == [changes[c] EXCEPT !.head = head]
  <2>1. Changed(c, "push", change, <<Pushed(c, head)>>) /\ changes[c].open
    BY <1>6 DEF Push
  <2>2. /\ DOMAIN change = {"open", "draft", "target", "head"}
        /\ change.target \in scene.targets
    BY <1>4, <2>1
  <2> HIDE DEF change, head
  <2> QED
    BY <1>1, <1>2, <2>1, <2>2, NotesKeep
<1>7. CASE Edit(c)
  <2>1. PICK draft \in scene.drafts, target \in scene.targets :
            Changed(c, "edit", [changes[c] EXCEPT !.draft = draft, !.target = target], <<>>)
    BY <1>7 DEF Edit
  <2> DEFINE change == [changes[c] EXCEPT !.draft = draft, !.target = target]
  <2>2. /\ DOMAIN change = {"open", "draft", "target", "head"}
        /\ change.target \in scene.targets
    BY <1>4
  <2> HIDE DEF change
  <2>3. Changed(c, "edit", change, <<>>)
    BY <2>1 DEF change
  <2> QED
    BY <1>1, <1>2, <2>2, <2>3, NotesKeep
<1>8. ASSUME NEW open \in BOOLEAN, NEW move \in {"close", "reopen"}, changes[c] # NoChange,
             Changed(c, move, [changes[c] EXCEPT !.open = open], <<>>)
      PROVE  WebhooksHold'
  <2> DEFINE change == [changes[c] EXCEPT !.open = open]
  <2>1. /\ DOMAIN change = {"open", "draft", "target", "head"}
        /\ change.target \in scene.targets
    BY <1>4, <1>8
  <2> HIDE DEF change
  <2>2. Changed(c, move, change, <<>>)
    BY <1>8 DEF change
  <2> QED
    BY <1>1, <1>2, <2>1, <2>2, NotesKeep
<1>9. CASE Close(c)
  BY <1>4, <1>8, <1>9 DEF Close
<1>10. CASE Reopen(c)
  BY <1>8, <1>10 DEF Reopen
<1>11. CASE Comment(c)
  BY <1>1, <1>2, <1>11, CommentsKeep
<1> QED
  BY <1>5, <1>6, <1>7, <1>9, <1>10, <1>11 DEF PlatformMove

-----------------------------------------------------------------------------
(***************************************************************************)
(* Deliveries: what is wanted is on record afterwards.                     *)
(***************************************************************************)
LEMMA IngestKeeps ==
    ASSUME TableHolds, WebhooksHold, UNCHANGED <<projects, sent>>, SceneStays,
           NEW p \in Existing(projects), NEW id \in DOMAIN sent, IsWanted(p, sent[id]),
           Ingest(p, id)
    PROVE  /\ RecordsHold' /\ PlacesStay
           /\ Existing(records) \subseteq Existing(records')
           /\ \A r \in Existing(records) : SameRow(r)
           /\ \A r \in Existing(records') :
                 \/ r \in Existing(records)
                 \/ records'[r].event[1] = "webhook" /\ OfWebhook(records[r])'
           /\ \E r \in Existing(records') : records'[r].subject = Subject(sent[id])
<1> USE DEF TableHolds
<1> DEFINE subject == Subject(sent[id])
           Fine == /\ RecordsHold' /\ PlacesStay
                   /\ Existing(records) \subseteq Existing(records')
                   /\ \A r \in Existing(records) : SameRow(r)
                   /\ \A r \in Existing(records') :
                         \/ r \in Existing(records)
                         \/ records'[r].event[1] = "webhook" /\ OfWebhook(records[r])'
                   /\ \E r \in Existing(records') : records'[r].subject = subject
<1>1. ASSUME Found(p, id) = {} PROVE Fine
  <2> DEFINE event == <<"webhook", id>>
             row == NewRecord(p, event, subject, sent[id].head, "queued", now)
  <2>1. OfEvent(p, event) = {} /\ OfSubject(p, subject) = {}
    BY <1>1 DEF Found
  <2>2. Insert(row)
    BY <1>1 DEF Ingest
  <2>3. event[1] = "webhook" /\ event[2] = id /\ event[1] # "import"
    OBVIOUS
  <2> HIDE DEF event, subject
  <2>4. /\ RecordsHold' /\ PlacesStay
        /\ Existing(records') = Existing(records) \cup {Len(records) + 1}
        /\ \A r \in Existing(records) : records'[r] = records[r]
        /\ records'[Len(records) + 1] = row
    <3>1. RecordsHold /\ projects' = projects
      OBVIOUS
    <3>2. IsNewRow(p, event, subject, "queued")
      BY <2>1, <2>3 DEF IsNewRow
    <3> HIDE DEF TableHolds
    <3> QED
      BY <2>2, <3>1, <3>2, InsertAddsOne, Zenon
  <2>5. row.event = event /\ row.subject = subject
    BY DEF NewRecord
  <2> HIDE DEF row
  <2>6. sent[id].kind = "change" => IsFit(sent[id])
    BY DEF IsWanted, IsDraftOrWip, HasRequiredFields, MatchesTargetPolicy, IsFit,
           ProjectsHold, IsProject
  <2>7. ASSUME NEW r, records'[r].event = event, records'[r].subject = subject
        PROVE  OfWebhook(records[r])'
    <3>1. \A e : IsFit(e)' <=> IsFit(e)
      BY FitnessStays
    <3>2. Subject(sent[id])' = subject
      BY DEF Subject, subject
    <3> QED
      BY <2>3, <2>6, <2>7, <3>1, <3>2 DEF OfWebhook
  <2>8. \A r \in Existing(records') :
            \/ r \in Existing(records)
            \/ records'[r].event[1] = "webhook" /\ OfWebhook(records[r])'
    BY <2>3, <2>4, <2>5, <2>7
  <2>9. \A r \in Existing(records) : SameRow(r)
    BY <2>4 DEF SameRow
  <2> QED
    BY <2>4, <2>5, <2>8, <2>9 DEF subject
<1>2. ASSUME NEW r \in Found(p, id)
      PROVE  r \in Existing(records) /\ records[r].subject = subject
  <2>1. CASE records[r].event = <<"webhook", id>>
    <3>1. r \in Existing(records)
      BY <1>2 DEF Found, OfEvent, OfSubject
    <3>2. records[r].event[1] # "import" /\ records[r].event[2] = id
      BY <2>1
    <3> QED
      BY <3>1, <3>2 DEF WebhooksHold, OfWebhook
  <2> QED
    BY <1>2, <2>1 DEF Found, OfEvent, OfSubject
<1>3. ASSUME NEW r \in Found(p, id),
             \/ Set(r, [records[r] EXCEPT !.status = "queued"])
             \/ UNCHANGED records
      PROVE  Fine
  <2>1. RecordsHold' /\ RowsKept
    BY <1>2, <1>3, StatusKeeps, NoWriteKeeps
  <2> QED
    BY <1>2, <2>1 DEF RowsKept, RowsStay, PlacesStay, SameRow
<1>4. \/ Found(p, id) = {}
      \/ \E r \in Found(p, id) : \/ Set(r, [records[r] EXCEPT !.status = "queued"])
                                 \/ UNCHANGED records
  BY DEF Ingest
<1> HIDE DEF Fine
<1>5. Fine
  BY <1>1, <1>3, <1>4
<1> QED
  BY <1>5 DEF Fine

(***************************************************************************)
(* What every step does to the records but a deletion, which adds none.    *)
(***************************************************************************)
RowsGrow ==
    /\ PlacesStay
    /\ Existing(records) \subseteq Existing(records')
    /\ \A r \in Existing(records) : SameRow(r)

(* A webhook that is delivered only adds to the rows, and what was due of  *)
(* it is reviewed.                                                         *)
LEMMA DeliveriesKeep ==
    ASSUME TableHolds, WebhooksHold, NEW id \in DOMAIN sent, Receive(id),
           SceneHolds', SceneStays
    PROVE  TableHolds' /\ WebhooksHold' /\ ProjectsStay /\ RowsGrow
<1> DEFINE e == sent[id]
<1>1. /\ UNCHANGED <<projects, changes, sent, ready, due>>
      /\ arrived' = arrived \cup {id}
      /\ refused' = IF TakesNothing(id) THEN refused \cup {id} ELSE refused
  BY DEF Receive
<1>2. ProjectsHold' /\ ProjectsStay
  BY <1>1, NoEditKeeps DEF TableHolds
<1>3. Located \subseteq Existing(projects)
  BY DEF Located, Matching
<1>4. \/ UNCHANGED records /\ (~Parses(e) \/ TakesNothing(id) \/ \E p \in Located : ~IsWanted(p, e))
      \/ \E p \in Located : IsWanted(p, e) /\ Ingest(p, id)
  BY DEF Receive
<1>5. CASE UNCHANGED records /\ (~Parses(e) \/ TakesNothing(id) \/ \E p \in Located : ~IsWanted(p, e))
  <2>1. RecordsHold' /\ RowsGrow
    BY <1>1, <1>5, NoWriteKeeps DEF TableHolds, RowsKept, RowsStay, RowsGrow
  <2>2. ASSUME NEW h, Announces(id, h) PROVE TakesNothing(id)
    <3>1. SUFFICES ASSUME ~TakesNothing(id) PROVE FALSE
      OBVIOUS
    <3>2. \A p \in Located : IsWanted(p, e)
      BY <1>3, <2>2
      DEF Announces, IsFit, IsWanted, HasRequiredFields, IsDraftOrWip, MatchesTargetPolicy,
          TableHolds, ProjectsHold, IsProject
    <3>3. Parses(e)
      BY <2>2 DEF Announces, Parses
    <3> QED
      BY <1>5, <3>1, <3>2, <3>3
  <2>3. \A f : (IsFit(f)' <=> IsFit(f)) /\ (IsSupported(f)' <=> IsSupported(f))
    BY FitnessStays
  <2>4. \A h : IsUnderWay(h) => IsUnderWay(h)'
    BY <1>1, <2>2, <2>3 DEF IsUnderWay, Announces
  <2>5. \A h : Reviewing(h)' = Reviewing(h)
    BY <1>5 DEF Reviewing
  <2>6. ChangesHold' /\ SentHolds'
    BY <1>1, <2>3 DEF WebhooksHold, ChangesHold, SentHolds, SceneStays, SceneFields
  <2>7. \A r \in Existing(records') :
            \/ records'[r].event[1] = "import"
            \/ records'[r].event[1] = "webhook" /\ OfWebhook(records[r])'
    BY <1>1, <1>5, <2>3 DEF WebhooksHold, OfWebhook
  <2> QED
    BY <1>1, <1>2, <2>1, <2>4, <2>5, <2>6, <2>7 DEF WebhooksHold, TableHolds
<1>6. ASSUME NEW p \in Located, IsWanted(p, e), Ingest(p, id)
      PROVE  RecordsHold' /\ WebhooksHold' /\ RowsGrow
  <2>1. p \in Existing(projects) /\ UNCHANGED <<projects, sent>>
    BY <1>1, <1>3
  <2>2. /\ RecordsHold' /\ PlacesStay
        /\ Existing(records) \subseteq Existing(records')
        /\ \A r \in Existing(records) : SameRow(r)
        /\ \A r \in Existing(records') :
              \/ r \in Existing(records)
              \/ records'[r].event[1] = "webhook" /\ OfWebhook(records[r])'
        /\ \E r \in Existing(records') : records'[r].subject = Subject(e)
    BY <1>6, <2>1, IngestKeeps
  <2>3. \A f : (IsFit(f)' <=> IsFit(f)) /\ (IsSupported(f)' <=> IsSupported(f))
    BY FitnessStays
  <2>4. \A h : Reviewing(h) \subseteq Reviewing(h)'
    BY <2>2, KeptRowsReview
  <2>5. ASSUME NEW h, Announces(id, h) PROVE Reviewing(h)' # {}
    <3>1. h[1] = e.change /\ h[2] = e.head /\ Subject(e) = <<"change", h[1], h[2]>>
      BY <2>5 DEF Announces, Subject
    <3> QED
      BY <2>2, <3>1 DEF Reviewing
  <2>6. \A h : IsUnderWay(h) => IsUnderWay(h)' \/ Reviewing(h)' # {}
    BY <1>1, <2>3, <2>5 DEF IsUnderWay, Announces
  <2>7. ChangesHold' /\ SentHolds'
    BY <1>1, <2>3 DEF WebhooksHold, ChangesHold, SentHolds, SceneStays, SceneFields
  <2>8. \A r \in Existing(records') :
            \/ records'[r].event[1] = "import"
            \/ records'[r].event[1] = "webhook" /\ OfWebhook(records[r])'
    BY <1>1, <2>2, <2>3 DEF WebhooksHold, OfWebhook, SameRow
  <2>9. \A h \in due' : Reviewing(h)' # {} \/ IsUnderWay(h)'
    BY <1>1, <2>4, <2>6 DEF WebhooksHold
  <2> QED
    BY <2>2, <2>7, <2>8, <2>9 DEF WebhooksHold, RowsGrow
<1> QED
  BY <1>2, <1>4, <1>5, <1>6 DEF TableHolds

-----------------------------------------------------------------------------
(***************************************************************************)
(* Imports: the projects that were there all along are known by their key  *)
(* once their page was read, and their reviews are stored once sent.       *)
(***************************************************************************)
Phases == {"idle", "listing", "sending", "done", "failed"}

KeyIsKnown(i, p) ==
    /\ projects[p].name \in DOMAIN importers[i].keys
    /\ importers[i].keys[projects[p].name] = projects[p].key

HasAll(p, upto) ==
    \A n \in DOMAIN scene.sources :
        n \in upto /\ scene.sources[n].name = projects[p].name
            /\ scene.sources[n].name \notin scene.leftOut
            => Imported(p, scene.sources[n]) # {}

ImporterHolds(i) ==
    LET job == importers[i] IN
    /\ DOMAIN job = {"phase", "page", "keys", "last", "steady"}
    /\ job.phase \in Phases /\ job.page \in Nat /\ job.last \in Nat
    /\ job.steady \subseteq ActiveProjects
    /\ job.phase = "listing" => job.last = 0
    /\ job.phase = "listing" =>
          \A p \in job.steady :
              Before(p) < (job.page - 1) * scene.pageSize => KeyIsKnown(i, p)
    /\ job.phase = "sending" =>
          \A p \in job.steady : KeyIsKnown(i, p) /\ HasAll(p, 1 .. job.last)
    /\ job.phase = "done" => \A p \in job.steady : HasAll(p, Nat)

ImportersHold == DOMAIN importers = Importers /\ \A i \in Importers : ImporterHolds(i)

(* A set of natural numbers that is not empty has a least one.             *)
LEMMA MinIsLeast ==
    ASSUME NEW S, S \subseteq Nat, S # {}
    PROVE  Min(S) \in S /\ \A x \in S : Min(S) <= x
<1>1. PICK u \in S : \A v \in S : ~(<<v, u>> \in OpToRel(<, Nat))
  BY NatLessThanWellFounded, WFMin
<1>2. \A v \in S : u <= v
  <2>1. SUFFICES ASSUME NEW v \in S, v < u PROVE FALSE
    OBVIOUS
  <2>2. <<v, u>> \in {p \in Nat \X Nat : p[1] < p[2]}
    BY <2>1
  <2>3. <<v, u>> \in OpToRel(<, Nat)
    BY <2>2, Zenon DEF OpToRel
  <2> QED
    BY <1>1, <2>3
<1>3. \E m \in S : \A x \in S : m <= x
  BY <1>2
<1> QED
  BY <1>3 DEF Min

(***************************************************************************)
(* The place of a project in the list: below the length of the list, and   *)
(* the same as long as no project goes.                                    *)
(***************************************************************************)
LEMMA PlacesAreBelow ==
    ASSUME ProjectsHold, NEW p \in Existing(projects)
    PROVE  /\ Before(p) \in Nat /\ Cardinality(Existing(projects)) \in Nat
           /\ Before(p) < Cardinality(Existing(projects))
<1> DEFINE E == Existing(projects)
           B == {q \in E : q < p}
<1>1. IsFiniteSet(E)
  BY ProjectsAreFinite
<1>2. p \in Nat
  BY DEF Existing, ProjectsHold
<1>3. B \in SUBSET E /\ p \in E /\ p \notin B
  BY <1>2
<1> HIDE DEF E, B
<1>4. /\ IsFiniteSet(B) /\ Cardinality(B) <= Cardinality(E)
      /\ Cardinality(E) = Cardinality(B) => E = B
  BY <1>1, <1>3, FS_Subset
<1>5. Cardinality(B) \in Nat /\ Cardinality(E) \in Nat
  BY <1>1, <1>4, FS_CardinalityType
<1>6. Cardinality(B) < Cardinality(E)
  BY <1>3, <1>4, <1>5
<1> QED
  BY <1>5, <1>6 DEF Before, B, E

(* While projects stay, those before one stay those before it.             *)
LEMMA PlacesStayTheSame ==
    ASSUME ProjectsHold, ProjectsHold', ProjectsStay, NEW p \in Existing(projects)
    PROVE  Before(p)' = Before(p)
<1>1. \A q \in Existing(projects) : q \in Nat
  BY DEF Existing, ProjectsHold
<1>2. \A q \in Existing(projects') : q \in Nat
  BY DEF Existing, ProjectsHold
<1>3. {q \in Existing(projects') : q < p} = {q \in Existing(projects) : q < p}
  BY <1>1, <1>2 DEF ProjectsStay
<1> QED
  BY <1>3 DEF Before

(***************************************************************************)
(* What others do leaves an importer as it is.                             *)
(***************************************************************************)
LEMMA ImportedStays ==
    ASSUME Existing(records) \subseteq Existing(records'),
           \A r \in Existing(records) : SameRow(r), NEW p, NEW source
    PROVE  Imported(p, source) \subseteq Imported(p, source)'
BY DEF Imported, OfEvent, SameRow

GoesOn(i) ==
    LET job == importers[i]
        new == importers'[i]
    IN  /\ DOMAIN new = DOMAIN job
        /\ new.phase = job.phase /\ new.page = job.page /\ new.keys = job.keys
        /\ new.last = job.last
        /\ new.steady \subseteq job.steady /\ new.steady \subseteq ActiveProjects'

(* An importer at work is not disturbed by rows that are added.            *)
LEMMA ImporterStays ==
    ASSUME TableHolds, TableHolds', SceneStays, ProjectsStay,
           Existing(records) \subseteq Existing(records'),
           \A r \in Existing(records) : SameRow(r),
           NEW i, ImporterHolds(i), GoesOn(i)
    PROVE  ImporterHolds(i)'
<1> DEFINE job == importers[i]
           new == importers'[i]
           steady == importers'[i].steady
<1>1. /\ DOMAIN new = {"phase", "page", "keys", "last", "steady"}
      /\ new.phase = job.phase /\ new.page = job.page /\ new.last = job.last
      /\ new.keys = job.keys /\ new.steady = steady
      /\ steady \subseteq job.steady /\ steady \subseteq ActiveProjects'
  BY DEF ImporterHolds, GoesOn
<1>2. /\ scene'.sources = scene.sources /\ scene'.leftOut = scene.leftOut
      /\ scene'.pageSize = scene.pageSize
  BY DEF SceneStays, SceneFields
<1>3. ASSUME NEW p \in steady
      PROVE  /\ p \in job.steady /\ p \in Existing(projects)
             /\ projects'[p].name = projects[p].name /\ projects'[p].key = projects[p].key
             /\ Before(p)' = Before(p)
  <2>1. p \in job.steady /\ p \in Existing(projects)
    BY <1>1, <1>3 DEF ImporterHolds, ActiveProjects
  <2> QED
    BY <2>1, PlacesStayTheSame DEF ProjectsStay, TableHolds
<1>4. ASSUME NEW p \in steady, NEW upto, HasAll(p, upto) PROVE HasAll(p, upto)'
  BY <1>2, <1>3, <1>4, ImportedStays DEF HasAll
<1>5. ASSUME NEW p \in steady, KeyIsKnown(i, p) PROVE KeyIsKnown(i, p)'
  BY <1>1, <1>3, <1>5 DEF KeyIsKnown
<1> HIDE DEF new, job, steady
<1>6. /\ job.phase = "listing" =>
            \A p \in steady : Before(p)' < (new.page - 1) * scene'.pageSize
                => KeyIsKnown(i, p)'
      /\ job.phase = "done" => \A p \in steady : HasAll(p, Nat)'
  BY <1>1, <1>2, <1>3, <1>4, <1>5 DEF ImporterHolds, job
<1>7. ASSUME job.phase = "sending", NEW p \in steady
      PROVE  KeyIsKnown(i, p)' /\ HasAll(p, 1 .. importers[i].last)'
  <2>1. KeyIsKnown(i, p) /\ HasAll(p, 1 .. job.last)
    BY <1>3, <1>7 DEF ImporterHolds, job
  <2>2. HasAll(p, 1 .. importers[i].last)'
    BY <1>1, <1>4, <2>1 DEF HasAll, new
  <2> QED
    BY <1>5, <2>1, <2>2
<1>8. /\ new.phase \in Phases /\ new.page \in Nat /\ new.last \in Nat
      /\ new.phase = "listing" => new.last = 0
      /\ new.steady \subseteq ActiveProjects'
  BY <1>1 DEF ImporterHolds, job
<1> QED
  BY <1>1, <1>6, <1>7, <1>8 DEF ImporterHolds, new

(* An importer at rest owes nothing.                                       *)
LEMMA RestHolds ==
    ASSUME NEW i, NEW phase \in {"idle", "failed"}, importers'[i] = AtRest(phase)
    PROVE  ImporterHolds(i)'
BY DEF ImporterHolds, AtRest, Phases

(***************************************************************************)
(* A page makes its active projects known and keeps those known before.    *)
(***************************************************************************)
LEMMA PagesMakeKnown ==
    ASSUME ProjectsHold, SceneHolds, NEW i, ImporterHolds(i),
           importers[i].phase = "listing", ~Conflicts(i),
           NEW p \in importers[i].steady,
           Before(p) < importers[i].page * scene.pageSize
    PROVE  /\ projects[p].name \in DOMAIN KeysWith(i)
           /\ KeysWith(i)[projects[p].name] = projects[p].key
<1> DEFINE named == Named(i)
           names == Range(named)
           keys  == importers[i].keys
           name  == projects[p].name
           chosen(n) == CHOOSE q \in DOMAIN named : named[q] = n
<1>1. /\ KeysWith(i) = [n \in DOMAIN keys \cup names |->
                            IF n \in names
                            THEN [m \in names |-> projects[chosen(m)].key][n] ELSE keys[n]]
      /\ IsInjective(named)
      /\ \A q \in DOMAIN named : named[q] \in DOMAIN keys => keys[named[q]] = projects[q].key
      /\ DOMAIN named = PageOf(importers[i].page) \cap ActiveProjects
      /\ \A q \in DOMAIN named : named[q] = projects[q].name
  BY DEF KeysWith, Conflicts, Named
<1> HIDE DEF named
<1>2. \A n \in names : chosen(n) \in DOMAIN named /\ named[chosen(n)] = n
  BY DEF Range
<1>3. \A q \in DOMAIN named : named[q] \in names /\ chosen(named[q]) = q
  BY <1>1, <1>2 DEF Range, IsInjective
<1>4. p \in Existing(projects) /\ p \in ActiveProjects
  BY DEF ImporterHolds, ActiveProjects
<1>5. CASE name \in names
  <2>1. /\ name \in DOMAIN KeysWith(i)
        /\ KeysWith(i)[name] = projects[chosen(name)].key
    BY <1>1, <1>5
  <2> DEFINE q == chosen(name)
  <2>2. q \in DOMAIN named /\ named[q] = name
    BY <1>2, <1>5
  <2> HIDE DEF q
  <2>3. CASE p \in DOMAIN named
    <3>1. named[p] = name /\ chosen(named[p]) = p
      BY <1>1, <1>3, <2>3
    <3> QED
      BY <2>1, <3>1
  <2>4. CASE p \notin DOMAIN named
    <3>1. p \notin PageOf(importers[i].page)
      BY <1>1, <1>4, <2>4
    <3>2. /\ Before(p) \in Nat /\ importers[i].page \in Nat
          /\ (importers[i].page - 1) * scene.pageSize \in Int
          /\ importers[i].page * scene.pageSize \in Int
      BY <1>4, PlacesAreBelow DEF SceneHolds, ImporterHolds
    <3>3. Before(p) < (importers[i].page - 1) * scene.pageSize
      BY <1>4, <3>1, <3>2 DEF PageOf
    <3>4. KeyIsKnown(i, p)
      BY <3>3 DEF ImporterHolds
    <3> QED
      BY <1>1, <2>1, <2>2, <3>4 DEF KeyIsKnown, q
  <2> QED
    BY <2>3, <2>4
<1>6. CASE name \notin names
  <2>1. p \notin DOMAIN named
    BY <1>1, <1>3, <1>6
  <2>2. p \notin PageOf(importers[i].page)
    BY <1>1, <1>4, <2>1
  <2>3. /\ Before(p) \in Nat /\ importers[i].page \in Nat
        /\ (importers[i].page - 1) * scene.pageSize \in Int
        /\ importers[i].page * scene.pageSize \in Int
    BY <1>4, PlacesAreBelow DEF SceneHolds, ImporterHolds
  <2>4. Before(p) < (importers[i].page - 1) * scene.pageSize
    BY <1>4, <2>2, <2>3 DEF PageOf
  <2>5. KeyIsKnown(i, p)
    BY <2>4 DEF ImporterHolds
  <2> QED
    BY <1>1, <1>6, <2>5 DEF KeyIsKnown
<1> QED
  BY <1>5, <1>6

(* A page of the list keeps what is true of the importer: of the projects  *)
(* on the pages it has read, those that were there all along are known.    *)
LEMMA ListingKeeps ==
    ASSUME TableHolds, TableHolds', UNCHANGED <<projects, records, scene>>,
           DOMAIN importers = Importers, NEW i \in Importers, ImporterHolds(i), ListPage(i)
    PROVE  ImporterHolds(i)'
<1> USE DEF TableHolds
<1> DEFINE job   == importers[i]
           total == Cardinality(Existing(projects))
           keys  == KeysWith(i)
<1>1. /\ job.phase = "listing" /\ job.page \in Nat /\ job.last = 0
      /\ DOMAIN job = {"phase", "page", "keys", "last", "steady"}
      /\ job.steady \subseteq ActiveProjects /\ ActiveProjects' = ActiveProjects
  BY DEF ListPage, ImporterHolds, ActiveProjects, Existing
<1>2. CASE Conflicts(i)
  BY <1>2, RestHolds DEF ListPage
<1>3. CASE ~Conflicts(i) /\ ListsMore(i, total)
  <2>1. importers'[i] = [job EXCEPT !.page = @ + 1, !.keys = keys]
    BY <1>3 DEF ListPage
  <2>2. \A p \in job.steady : Before(p) < job.page * scene.pageSize =>
            projects[p].name \in DOMAIN keys /\ keys[projects[p].name] = projects[p].key
    BY <1>1, <1>3, PagesMakeKnown
  <2> HIDE DEF keys
  <2>3. /\ importers'[i].phase = "listing" /\ importers'[i].page = job.page + 1
        /\ importers'[i].keys = keys /\ importers'[i].last = job.last
        /\ importers'[i].steady = job.steady
        /\ DOMAIN importers'[i] = {"phase", "page", "keys", "last", "steady"}
    BY <1>1, <2>1
  <2>4. \A p : Before(p)' = Before(p)
    BY DEF Before
  <2>5. (job.page + 1) - 1 = job.page
    BY <1>1
  <2> HIDE DEF job
  <2> QED
    BY <1>1, <2>2, <2>3, <2>4, <2>5 DEF ImporterHolds, KeyIsKnown, Phases
<1>4. CASE ~Conflicts(i) /\ ~ListsMore(i, total)
  <2>1. importers'[i] = [job EXCEPT !.phase = "sending", !.keys = keys]
    BY <1>4 DEF ListPage
  <2>2. ASSUME NEW p \in job.steady
        PROVE  projects[p].name \in DOMAIN keys /\ keys[projects[p].name] = projects[p].key
    <3>1. Before(p) \in Nat /\ total \in Nat /\ Before(p) < total
      BY <1>1, PlacesAreBelow DEF ActiveProjects
    <3>2. job.page * scene.pageSize \in Nat
      BY <1>1 DEF SceneHolds
    <3>3. Before(p) < job.page * scene.pageSize
      BY <1>4, <3>1, <3>2 DEF ListsMore
    <3> QED
      BY <1>1, <1>4, <3>3, PagesMakeKnown
  <2> HIDE DEF keys
  <2>3. /\ importers'[i].phase = "sending" /\ importers'[i].page = job.page
        /\ importers'[i].keys = keys /\ importers'[i].last = job.last
        /\ importers'[i].steady = job.steady
        /\ DOMAIN importers'[i] = {"phase", "page", "keys", "last", "steady"}
    BY <1>1, <2>1
  <2>4. \A p \in job.steady : KeyIsKnown(i, p)'
    BY <2>2, <2>3 DEF KeyIsKnown
  <2>5. 1 .. importers'[i].last = {}
    BY <1>1, <2>3 DEF ImporterHolds
  <2>6. \A p : HasAll(p, 1 .. importers[i].last)'
    BY <2>5 DEF HasAll
  <2> HIDE DEF job
  <2> QED
    BY <1>1, <2>3, <2>4, <2>6 DEF ImporterHolds, Phases
<1> QED
  BY <1>2, <1>3, <1>4

(***************************************************************************)
(* A request that is accepted stores the review for the project it is of.  *)
(***************************************************************************)
LEMMA SendingKeeps ==
    ASSUME TableHolds, UNCHANGED <<projects, scene>>, NEW i \in Importers,
           DOMAIN importers = Importers, ImporterHolds(i), importers[i].phase = "sending",
           Pending(i) # {}, IsAccepted(NextJob(i)), IngestMockEvent(NextJob(i))
    PROVE  /\ RecordsHold' /\ OnlyImports
           /\ importers'[i] = [importers[i] EXCEPT !.last = Min(Pending(i))]
                  => ImporterHolds(i)'
<1> USE DEF TableHolds
<1> DEFINE next == Min(Pending(i))
<1>1. PICK job, source : job = NextJob(i) /\ source = scene.sources[next]
  OBVIOUS
<1>2. PICK q : Resolved(job) = {q}
  BY <1>1, AcceptedIsResolved
<1>3. /\ next \in Pending(i) /\ \A n \in Pending(i) : next <= n
      /\ next \in Nat /\ next \in DOMAIN scene.sources
  <2>1. Pending(i) \subseteq Nat
    BY DEF Pending, SceneHolds
  <2> QED
    BY <2>1, MinIsLeast DEF Pending
<1>4. job.review = source /\ job.key = importers[i].keys[source.name]
  BY <1>1 DEF NextJob
<1>5. RecordsHold' /\ OnlyImports /\ Imported(q, source)' # {}
  BY <1>1, <1>2, <1>4, ImportKeeps
<1> HIDE DEF next
<1>6. ASSUME importers'[i] = [importers[i] EXCEPT !.last = next]
      PROVE  ImporterHolds(i)'
  <2>1. /\ DOMAIN importers'[i] = {"phase", "page", "keys", "last", "steady"}
        /\ importers'[i].phase = "sending" /\ importers'[i].page = importers[i].page
        /\ importers'[i].last = next /\ importers'[i].keys = importers[i].keys
        /\ importers'[i].steady = importers[i].steady
    BY <1>6 DEF ImporterHolds
  <2>2. ActiveProjects' = ActiveProjects
    BY DEF ActiveProjects, Existing
  <2>3. ASSUME NEW p \in importers[i].steady
        PROVE  KeyIsKnown(i, p)' /\ HasAll(p, 1 .. importers[i].last)'
    <3>1. KeyIsKnown(i, p) /\ HasAll(p, 1 .. importers[i].last) /\ p \in Existing(projects)
      BY <2>3 DEF ImporterHolds, ActiveProjects
    <3>2. KeyIsKnown(i, p)'
      BY <2>1, <3>1 DEF KeyIsKnown
    <3>3. ASSUME NEW n \in DOMAIN scene.sources, n \in 1 .. next,
                 scene.sources[n].name = projects[p].name,
                 scene.sources[n].name \notin scene.leftOut
          PROVE  Imported(p, scene.sources[n])' # {}
      <4>1. CASE n = next
        <5>1. job.key = projects[p].key
          BY <1>1, <1>4, <3>1, <3>3, <4>1 DEF KeyIsKnown
        <5>2. p \in {r \in Existing(projects) : projects[r].key = job.key}
          BY <3>1, <5>1
        <5>3. p \in Resolved(job)
          BY <5>2 DEF Resolved
        <5>4. p = q
          BY <1>2, <5>3
        <5> QED
          BY <1>1, <1>5, <4>1, <5>4 DEF Imported
      <4>2. CASE n # next
        <5>1. n \in Nat /\ n < next /\ n \notin Pending(i)
          BY <1>3, <3>3, <4>2 DEF SceneHolds
        <5>2. n \in 1 .. importers[i].last
          BY <3>1, <3>3, <5>1 DEF Pending, KeyIsKnown, ImporterHolds
        <5>3. Imported(p, scene.sources[n]) # {}
          BY <3>1, <3>3, <5>2 DEF HasAll
        <5> QED
          BY <1>5, <5>3, ImportedStays DEF OnlyImports
      <4> QED
        BY <4>1, <4>2
    <3>4. HasAll(p, 1 .. importers[i].last)'
      BY <2>1, <3>3 DEF HasAll
    <3> QED
      BY <3>2, <3>4
  <2> QED
    BY <1>3, <2>1, <2>2, <2>3 DEF ImporterHolds, Phases
<1> QED
  BY <1>5, <1>6 DEF next

(* An import that ends keeps what is true of it.                           *)
LEMMA FinishingKeeps ==
    ASSUME TableHolds, UNCHANGED tableVars, NEW i \in Importers,
           DOMAIN importers = Importers, ImporterHolds(i), FinishImport(i)
    PROVE  ImporterHolds(i)'
<1> USE DEF TableHolds
<1>1. /\ importers[i].phase = "sending" /\ Pending(i) = {}
      /\ DOMAIN importers'[i] = {"phase", "page", "keys", "last", "steady"}
      /\ importers'[i].phase = "done" /\ importers'[i].page = importers[i].page
      /\ importers'[i].last = importers[i].last
      /\ importers'[i].steady = importers[i].steady
  BY DEF FinishImport, ImporterHolds
<1>2. /\ projects' = projects /\ records' = records /\ scene' = scene
      /\ ActiveProjects' = ActiveProjects
  BY DEF tableVars, ActiveProjects, Existing
<1>3. ASSUME NEW p \in importers[i].steady PROVE HasAll(p, Nat)'
  <2>1. KeyIsKnown(i, p) /\ HasAll(p, 1 .. importers[i].last)
    BY <1>1, <1>3 DEF ImporterHolds
  <2>2. ASSUME NEW n \in DOMAIN scene.sources,
               scene.sources[n].name = projects[p].name,
               scene.sources[n].name \notin scene.leftOut
        PROVE  n \in 1 .. importers[i].last \/ n = 0
    BY <1>1, <2>1, <2>2 DEF Pending, KeyIsKnown, SceneHolds, ImporterHolds
  <2>3. 0 \notin DOMAIN scene.sources
    BY DEF SceneHolds
  <2>4. HasAll(p, Nat)
    BY <2>1, <2>2, <2>3 DEF HasAll
  <2> QED
    BY <1>2, <2>4 DEF HasAll, Imported, OfEvent, Existing
<1> QED
  BY <1>1, <1>2, <1>3 DEF ImporterHolds, Phases

(***************************************************************************)
(* A step that leaves the importers alone, or moves one of them.           *)
(***************************************************************************)
LEMMA ImportersStay ==
    ASSUME TableHolds, TableHolds', SceneStays, UNCHANGED projects, RowsGrow,
           NEW i, ImporterHolds(i), importers'[i] = importers[i]
    PROVE  ImporterHolds(i)'
<1>1. ActiveProjects' = ActiveProjects
  BY DEF ActiveProjects, Existing
<1>2. GoesOn(i)
  BY <1>1 DEF GoesOn, ImporterHolds
<1>3. ProjectsStay
  BY DEF ProjectsStay
<1> QED
  BY <1>2, <1>3, ImporterStays DEF RowsGrow

(* Every step of an import keeps the tables, the webhooks and the other    *)
(* importers.                                                              *)
LEMMA ImportStepsKeep ==
    ASSUME TableHolds, WebhooksHold, ImportersHold, ImportStep, UNCHANGED webhookVars
    PROVE  TableHolds' /\ SceneStays /\ WebhooksHold' /\ ImportersHold' /\ RowsGrow
<1>1. PICK i \in Importers :
          StartImport(i) \/ ListPage(i) \/ SendJob(i) \/ FinishImport(i) \/ LoseAnswer(i)
  BY DEF ImportStep
<1>2. /\ UNCHANGED <<projects, now>> /\ DOMAIN importers' = Importers
      /\ \A j \in Importers : j # i => importers'[j] = importers[j]
      /\ ImporterHolds(i)
  BY <1>1 DEF StartImport, ListPage, SendJob, FinishImport, LoseAnswer, tableVars,
              ImportersHold
<1>3. SceneHolds' /\ SceneStays
  BY <1>1, SpendingStays, UnchangedStays
  DEF StartImport, ListPage, SendJob, FinishImport, LoseAnswer, tableVars, Moves, TableHolds
<1>4. ProjectsHold'
  BY <1>2, <1>3, NoEditKeeps DEF TableHolds
<1>5. RecordsHold' /\ OnlyImports /\ ImporterHolds(i)'
  <2>1. ASSUME UNCHANGED records PROVE RecordsHold' /\ OnlyImports
    BY <1>2, <2>1, NoWriteKeeps DEF TableHolds, OnlyImports, RowsKept, RowsStay
  <2>2. ASSUME UNCHANGED records PROVE TableHolds'
    BY <1>3, <1>4, <2>1, <2>2 DEF TableHolds
  <2>3. CASE StartImport(i)
    <3>1. importers'[i] = [AtRest("listing") EXCEPT !.page = 1, !.steady = ActiveProjects]
      BY <2>3 DEF StartImport, ImportersHold
    <3>2. /\ DOMAIN importers'[i] = {"phase", "page", "keys", "last", "steady"}
          /\ importers'[i].phase = "listing" /\ importers'[i].page = 1
          /\ importers'[i].last = 0 /\ importers'[i].steady = ActiveProjects
          /\ ActiveProjects' = ActiveProjects /\ UNCHANGED records
      <4>1. UNCHANGED <<records, projects>>
        BY <2>3 DEF StartImport
      <4>2. ActiveProjects' = ActiveProjects
        BY <4>1 DEF ActiveProjects, Existing
      <4> QED
        BY <3>1, <4>1, <4>2 DEF AtRest
    <3>3. \A p \in ActiveProjects : ~((Before(p) < (importers[i].page - 1) * scene.pageSize)')
      <4>0. \A p \in ActiveProjects : Before(p)' = Before(p)
        BY <1>2 DEF Before, Existing
      <4>1. \A p \in ActiveProjects : Before(p)' \in Nat
        BY <4>0, PlacesAreBelow DEF TableHolds, ActiveProjects
      <4>2. (importers'[i].page - 1) * scene'.pageSize = 0
        BY <1>3, <3>2 DEF SceneHolds
      <4> QED
        BY <4>1, <4>2
    <3> QED
      BY <2>1, <3>2, <3>3 DEF ImporterHolds, Phases
  <2>4. CASE ListPage(i)
    <3>1. UNCHANGED <<projects, records, scene>>
      BY <2>4 DEF ListPage
    <3> QED
      BY <1>2, <2>1, <2>2, <2>4, <3>1, ListingKeeps DEF ImportersHold
  <2>5. ASSUME importers'[i] = AtRest("failed") PROVE ImporterHolds(i)'
    BY <2>5, RestHolds
  <2>6. ASSUME importers[i].phase = "sending", Pending(i) # {}, UNCHANGED <<projects, scene>>,
               IsAccepted(NextJob(i)), IngestMockEvent(NextJob(i))
        PROVE  /\ RecordsHold' /\ OnlyImports
               /\ importers'[i] = [importers[i] EXCEPT !.last = Min(Pending(i))]
                      => ImporterHolds(i)'
    BY <1>2, <2>6, SendingKeeps DEF ImportersHold
  <2>7. CASE SendJob(i)
    BY <2>1, <2>5, <2>6, <2>7 DEF SendJob, ImportersHold
  <2>8. CASE FinishImport(i)
    BY <1>2, <2>1, <2>8, FinishingKeeps DEF FinishImport, tableVars, ImportersHold
  <2>9. CASE LoseAnswer(i)
    BY <2>1, <2>5, <2>6, <2>9 DEF LoseAnswer, ImportersHold
  <2> QED
    BY <1>1, <2>3, <2>4, <2>7, <2>8, <2>9
<1>6. TableHolds' /\ RowsGrow
  BY <1>3, <1>4, <1>5 DEF TableHolds, OnlyImports, RowsGrow
<1>7. WebhooksHold'
  <2>1. \A h : Reviewing(h) \subseteq Reviewing(h)'
    BY <1>6, KeptRowsReview DEF RowsGrow
  <2> QED
    BY <1>3, <1>5, <2>1, NoWebhookKeeps DEF webhookVars, OnlyImports
<1>8. \A j \in Importers : ImporterHolds(j)'
  <2>1. ASSUME NEW j \in Importers, j # i PROVE ImporterHolds(j)'
    BY <1>2, <1>3, <1>6, <2>1, ImportersStay DEF ImportersHold
  <2> QED
    BY <1>5, <2>1
<1> QED
  BY <1>2, <1>3, <1>6, <1>7, <1>8 DEF ImportersHold

(* Importers survive the edits of projects: a deleted project stops those  *)
(* at work on it.                                                          *)
LEMMA EditsKeepImporters ==
    ASSUME TableHolds, TableHolds', SceneStays, RowsStay, ImportersHold, WatchProjects,
           \/ ProjectsStay /\ Existing(records') = Existing(records)
           \/ ~(Existing(projects) \subseteq Existing(projects'))
    PROVE  ImportersHold'
<1>1. DOMAIN importers' = Importers
  BY DEF WatchProjects
<1>2. ASSUME NEW i \in Importers PROVE ImporterHolds(i)'
  <2> DEFINE steady == IF Existing(projects) \subseteq Existing(projects')
                       THEN {p \in importers[i].steady : projects'[p].active} ELSE {}
  <2>1. importers'[i] = [importers[i] EXCEPT !.steady = steady]
    BY DEF WatchProjects
  <2>2. ImporterHolds(i) /\ DOMAIN importers[i] = {"phase", "page", "keys", "last", "steady"}
    BY DEF ImportersHold, ImporterHolds
  <2>3. steady \subseteq importers[i].steady /\ steady \subseteq ActiveProjects'
    BY <2>2 DEF ImporterHolds, ActiveProjects
  <2> HIDE DEF steady
  <2>4. GoesOn(i) /\ importers'[i].steady = steady
    BY <2>1, <2>2, <2>3 DEF GoesOn
  <2>5. CASE ProjectsStay /\ Existing(records') = Existing(records)
    BY <2>2, <2>4, <2>5, ImporterStays DEF RowsStay
  <2>6. CASE ~(Existing(projects) \subseteq Existing(projects'))
    <3>1. importers'[i].steady = {}
      BY <2>4, <2>6 DEF steady
    <3> QED
      BY <2>2, <2>4, <3>1 DEF ImporterHolds, GoesOn
  <2> QED
    BY <2>5, <2>6
<1> QED
  BY <1>1, <1>2 DEF ImportersHold

-----------------------------------------------------------------------------
(***************************************************************************)
(* Reports and notices: of a report, this life of the worker has tried the *)
(* channels up to the present one; of a review it has told if it has a     *)
(* notice.                                                                 *)
(***************************************************************************)
Report(l, m, c) == [what |-> <<"report", l, m>>, channel |-> c]

Notice(r, c) == [what |-> <<"notice", r>>, channel |-> c]

ReporterHolds ==
    /\ DOMAIN reporter = {"phase", "life", "at", "key", "minute", "next", "failed"}
    /\ reporter.phase \in {"off", "up", "asleep", "sending"}
    /\ reporter.life \in Nat /\ reporter.next \in 1 .. Len(Channels) + 1
    /\ reporter.phase # "sending" => reporter.next = 1
    /\ reporter.phase = "sending" =>
          reporter.minute \in Nat /\ reporter.minute <= Minute(now)
    /\ Len(Channels) \in Nat /\ DOMAIN Channels = 1 .. Len(Channels)

(* What the present life has tried of a report, by the phase it is in.     *)
ToldInTime(m, c) ==
    /\ m \in Nat /\ m <= Minute(now)
    /\ reporter.phase = "sending" =>
          /\ m <= reporter.minute
          /\ m = reporter.minute => \E n \in 1 .. reporter.next - 1 : c = Channels[n]
    /\ reporter.phase \in {"up", "asleep"} => (m = Minute(now) => reporter.key = m)

ReportsTold ==
    \A l, m, c : Report(l, m, c) \in tried =>
        /\ l \in Nat /\ l <= reporter.life
        /\ l = reporter.life => ToldInTime(m, c)

AllTold ==
    reporter.phase = "sending" =>
        \A n \in 1 .. reporter.next - 1 : Channels[n] \in scene.enabled =>
            Report(reporter.life, reporter.minute, Channels[n]) \in tried

NoticesTold ==
    \A r, c : Notice(r, c) \in tried =>
        r \in DOMAIN records /\ (r \in Existing(records) => records[r].notice # None)

ReportsHold ==
    /\ now \in Nat /\ ReporterHolds
    /\ repeated = {} /\ ReportsTold /\ AllTold /\ NoticesTold

(* Two ticks make a minute.                                                *)
LEMMA MinutesGrow ==
    ASSUME NEW t \in Nat
    PROVE  /\ Minute(t) \in Nat /\ Minute(t + 1) \in Nat
           /\ Minute(t) <= Minute(t + 1) /\ Minute(t + 1) <= Minute(t) + 1
           /\ 2 * Minute(t) <= t /\ t <= 2 * Minute(t) + 1
BY DEF Minute

(* Rows that keep their notice keep what was tried of it.                  *)
LEMMA NoticesStay ==
    ASSUME NoticesTold, PlacesStay, UNCHANGED tried,
           \A r \in Existing(records) \cap Existing(records') : SameRow(r)
    PROVE  NoticesTold'
<1> SUFFICES ASSUME NEW r, NEW c, Notice(r, c) \in tried
             PROVE  /\ r \in DOMAIN records'
                    /\ r \in Existing(records') => records'[r].notice # None
  BY DEF NoticesTold, Notice
<1>1. r \in DOMAIN records /\ (r \in Existing(records) => records[r].notice # None)
  BY DEF NoticesTold
<1> QED
  BY <1>1 DEF PlacesStay, SameRow

(***************************************************************************)
(* Steps of others.                                                        *)
(***************************************************************************)
LEMMA OthersKeepReports ==
    ASSUME ReportsHold, SceneStays, PlacesStay, UNCHANGED <<now, reportVars>>,
           \A r \in Existing(records) \cap Existing(records') : SameRow(r)
    PROVE  ReportsHold'
<1>1. UNCHANGED <<now, reporter, tried, repeated>> /\ scene'.enabled = scene.enabled
  BY DEF reportVars, SceneStays, SceneFields
<1>2. NoticesTold'
  BY <1>1, NoticesStay DEF ReportsHold
<1>3. ReporterHolds' /\ AllTold'
  BY <1>1 DEF ReportsHold, ReporterHolds, AllTold, Report
<1>4. ReportsTold'
  BY <1>1 DEF ReportsHold, ReportsTold, ToldInTime, Report
<1> QED
  BY <1>1, <1>2, <1>3, <1>4 DEF ReportsHold

(***************************************************************************)
(* Steps of the worker that tell nobody: what they leave to show.          *)
(***************************************************************************)
LEMMA SilenceKeeps ==
    ASSUME ReportsHold, SceneStays, UNCHANGED <<records, tried, repeated>>,
           now' \in Nat, ReporterHolds', AllTold',
           reporter'.life = reporter.life =>
               \A m, c : Report(reporter.life, m, c) \in tried => ToldInTime(m, c)',
           reporter'.life \in {reporter.life, reporter.life + 1}
    PROVE  ReportsHold'
<1>1. NoticesTold'
  BY DEF ReportsHold, NoticesTold, Notice, Existing
<1>2. ASSUME NEW l, NEW m, NEW c, Report(l, m, c) \in tried
      PROVE  /\ l \in Nat /\ l <= reporter'.life
             /\ l = reporter'.life => ToldInTime(m, c)'
  <2>1. l \in Nat /\ l <= reporter.life /\ reporter.life \in Nat
    BY <1>2 DEF ReportsHold, ReportsTold, ReporterHolds
  <2>2. CASE reporter'.life = reporter.life
    BY <1>2, <2>1, <2>2
  <2>3. CASE reporter'.life = reporter.life + 1
    BY <2>1, <2>3
  <2> QED
    BY <2>2, <2>3
<1>3. ReportsTold'
  BY <1>2 DEF ReportsTold, Report
<1> QED
  BY <1>1, <1>3 DEF ReportsHold

(* The clock and the steps of the worker keep what the reports owe.        *)
LEMMA ClockStepsKeep ==
    ASSUME ReportsHold, SceneStays,
           Tick \/ Start \/ Wake \/ LookAway \/ LookAndReport \/ Stop
    PROVE  ReportsHold'
<1> USE DEF ReportsHold, ReporterHolds, ReportsTold
<1>1. /\ Minute(now) \in Nat /\ Minute(now + 1) \in Nat
      /\ Minute(now) <= Minute(now + 1)
  BY MinutesGrow
<1>2. \A m, c : Report(reporter.life, m, c) \in tried => ToldInTime(m, c)
  OBVIOUS
<1>3. CASE Tick
  <2>1. /\ now' = now + 1 /\ UNCHANGED <<records, reporter, tried, repeated>>
        /\ reporter.phase # "up"
    BY <1>3 DEF Tick, MayRest
  <2>2. \A m, c : ToldInTime(m, c) => ToldInTime(m, c)'
    BY <1>1, <2>1 DEF ToldInTime
  <2>3. ReporterHolds'
    BY <1>1, <2>1
  <2>4. scene'.enabled = scene.enabled
    BY DEF SceneStays, SceneFields
  <2>5. AllTold'
    BY <2>1, <2>4 DEF AllTold, Report
  <2> QED
    BY <1>2, <2>1, <2>2, <2>3, <2>5, SilenceKeeps
<1>4. ASSUME NEW phase \in {"up", "asleep"}, UNCHANGED <<records, tried, repeated, now>>,
             DOMAIN reporter' = DOMAIN reporter, reporter'.life = reporter.life,
             reporter'.phase = phase, reporter'.next = 1, reporter.phase \in {"up", "asleep"},
             reporter'.key \in {reporter.key, Minute(now)}
      PROVE  ReportsHold'
  <2>1. \A m, c : ToldInTime(m, c) => ToldInTime(m, c)'
    BY <1>4 DEF ToldInTime
  <2>2. ReporterHolds' /\ AllTold'
    BY <1>4 DEF AllTold
  <2> QED
    BY <1>2, <1>4, <2>1, <2>2, SilenceKeeps
<1>5. CASE Wake
  BY <1>4, <1>5 DEF Wake, tableVars
<1>6. CASE LookAway
  BY <1>4, <1>6 DEF LookAway, SleepOn, tableVars
<1>7. ASSUME NEW life, life \in {reporter.life, reporter.life + 1},
             UNCHANGED <<records, tried, repeated, now>>,
             \/ reporter' = OffDuty(life)
             \/ life # reporter.life /\ reporter' = [OffDuty(life) EXCEPT !.phase = "up"]
      PROVE  ReportsHold'
  <2>1. /\ DOMAIN reporter' = DOMAIN reporter /\ reporter'.life = life
        /\ reporter'.next = 1
        /\ reporter'.phase = "off" \/ (reporter'.phase = "up" /\ life # reporter.life)
    BY <1>7 DEF OffDuty
  <2>2. \A m, c : ToldInTime(m, c) /\ life = reporter.life => ToldInTime(m, c)'
    BY <1>7, <2>1 DEF ToldInTime
  <2>3. ReporterHolds' /\ AllTold'
    BY <1>7, <2>1 DEF AllTold
  <2> QED
    BY <1>2, <1>7, <2>1, <2>2, <2>3, SilenceKeeps
<1>8. CASE Start
  BY <1>7, <1>8 DEF Start
<1>9. CASE Stop
  BY <1>7, <1>9 DEF Stop
<1>10. CASE LookAndReport
  <2>1. /\ reporter.phase = "up" /\ Minute(now) # reporter.key
        /\ UNCHANGED <<records, tried, repeated, now>>
    BY <1>10 DEF LookAndReport, IsDue, tableVars
  <2>2. CASE SleepOn(Minute(now))
    BY <1>4, <2>1, <2>2 DEF SleepOn
  <2>3. CASE reporter' = OffDuty(reporter.life)
    BY <1>7, <2>1, <2>3
  <2>4. CASE reporter' = [reporter EXCEPT !.phase = "sending", !.minute = Minute(now)]
    <3>1. /\ DOMAIN reporter' = DOMAIN reporter /\ reporter'.life = reporter.life
          /\ reporter'.next = 1 /\ reporter'.phase = "sending"
          /\ reporter'.minute = Minute(now)
      BY <2>1, <2>4
    <3>2. \A m, c : ToldInTime(m, c) => ToldInTime(m, c)'
      BY <2>1, <3>1 DEF ToldInTime
    <3>3. ReporterHolds' /\ AllTold'
      BY <1>1, <2>1, <3>1 DEF AllTold
    <3> QED
      BY <1>2, <2>1, <3>1, <3>2, <3>3, SilenceKeeps
  <2> QED
    BY <1>10, <2>2, <2>3, <2>4 DEF LookAndReport
<1> QED
  BY <1>3, <1>5, <1>6, <1>8, <1>9, <1>10

(* The end of a report keeps what the reports owe.                         *)
LEMMA FinishingReportsKeeps ==
    ASSUME ReportsHold, SceneStays, FinishReport
    PROVE  ReportsHold'
<1> USE DEF ReportsHold, ReporterHolds, ReportsTold
<1>1. /\ reporter.phase = "sending" /\ UNCHANGED <<records, tried, repeated, now>>
      /\ \/ reporter' = OffDuty(reporter.life)
         \/ reporter' = [reporter EXCEPT !.phase = "asleep", !.at = now,
                             !.key = reporter.minute, !.minute = 0, !.next = 1]
  BY DEF FinishReport, SleepOn, tableVars
<1>2. \A m, c : Report(reporter.life, m, c) \in tried => ToldInTime(m, c)
  OBVIOUS
<1>3. /\ DOMAIN reporter' = DOMAIN reporter /\ reporter'.life = reporter.life
      /\ reporter'.next = 1
      /\ \/ reporter'.phase = "off"
         \/ reporter'.phase = "asleep" /\ reporter'.key = reporter.minute
  <2>1. CASE reporter' = OffDuty(reporter.life)
    BY <2>1 DEF OffDuty
  <2>2. CASE reporter' = [reporter EXCEPT !.phase = "asleep", !.at = now,
                              !.key = reporter.minute, !.minute = 0, !.next = 1]
    BY <2>2
  <2> QED
    BY <1>1, <2>1, <2>2
<1>4. Minute(now) \in Nat
  BY MinutesGrow
<1>5. \A m, c : ToldInTime(m, c) => ToldInTime(m, c)'
  BY <1>1, <1>3, <1>4 DEF ToldInTime
<1>6. ReporterHolds' /\ AllTold'
  BY <1>1, <1>3 DEF AllTold
<1> QED
  BY <1>1, <1>2, <1>3, <1>5, <1>6, SilenceKeeps

(***************************************************************************)
(* A channel that is tried was not tried before: it comes after those that *)
(* were.                                                                   *)
(***************************************************************************)
LEMMA SendingReportsKeeps ==
    ASSUME ReportsHold, SceneStays, SendReport
    PROVE  ReportsHold'
<1> PICK l, m, k : l = reporter.life /\ m = reporter.minute /\ k = reporter.next
  OBVIOUS
<1>1. reporter.phase = "sending" /\ ~AllTried
  BY Zenon DEF SendReport
<1>2. /\ reporter.phase = "sending" /\ k \in 1 .. Len(Channels) /\ Len(Channels) \in Nat
      /\ DOMAIN reporter = {"phase", "life", "at", "key", "minute", "next", "failed"}
      /\ l \in Nat /\ m \in Nat /\ m <= Minute(now) /\ k \in Nat
  BY <1>1 DEF AllTried, ReportsHold, ReporterHolds
<1>3. /\ UNCHANGED <<records, now>>
      /\ \/ /\ Channels[k] \in scene.enabled
            /\ Try(Attempts(AboutReport, {Channels[k]}))
            /\ \E failed : reporter' = [reporter EXCEPT !.next = @ + 1, !.failed = failed]
         \/ /\ Channels[k] \notin scene.enabled
            /\ reporter' = [reporter EXCEPT !.next = @ + 1]
            /\ UNCHANGED <<tried, repeated>>
  BY DEF SendReport, tableVars
<1>4. /\ DOMAIN reporter' = DOMAIN reporter /\ reporter'.phase = "sending"
      /\ reporter'.life = l /\ reporter'.minute = m /\ reporter'.next = k + 1
  BY <1>3, <1>2
<1>5. /\ UNCHANGED <<records, now>>
       /\ \/ Channels[k] \in scene.enabled /\ Try(Attempts(AboutReport, {Channels[k]}))
          \/ Channels[k] \notin scene.enabled /\ UNCHANGED <<tried, repeated>>
  BY <1>3
<1>6. Report(l, m, Channels[k]) \notin tried
  <2>1. SUFFICES ASSUME Report(l, m, Channels[k]) \in tried PROVE FALSE
    OBVIOUS
  <2>2. PICK n \in 1 .. k - 1 : Channels[k] = Channels[n]
    BY <1>2, <1>5, <2>1 DEF ReportsHold, ReportsTold, ToldInTime
  <2>3. n \in DOMAIN Channels /\ k \in DOMAIN Channels /\ n # k
    BY <1>2, <2>2 DEF ReportsHold, ReporterHolds
  <2> QED
    BY <2>2, <2>3, ChannelAssumption DEF IsInjective
<1>7. /\ repeated' = {}
      /\ tried \subseteq tried'
      /\ \A a \in tried' : a \in tried \/ a = Report(l, m, Channels[k])
      /\ Channels[k] \in scene.enabled => Report(l, m, Channels[k]) \in tried'
  BY <1>2, <1>5, <1>6 DEF Try, Attempts, AboutReport, Report, ReportsHold
<1>8. ReporterHolds'
  BY <1>2, <1>4, <1>5 DEF ReportsHold, ReporterHolds
<1>9. ReportsTold'
  <2> SUFFICES ASSUME NEW l1, NEW m1, NEW c1, Report(l1, m1, c1) \in tried'
               PROVE  /\ l1 \in Nat /\ l1 <= reporter'.life
                      /\ l1 = reporter'.life => ToldInTime(m1, c1)'
    BY DEF ReportsTold, Report
  <2>1. CASE Report(l1, m1, c1) \in tried
    <3>1. l1 \in Nat /\ l1 <= l /\ (l1 = l => ToldInTime(m1, c1))
      BY <2>1 DEF ReportsHold, ReportsTold
    <3>2. ToldInTime(m1, c1) => ToldInTime(m1, c1)'
      BY <1>2, <1>4, <1>5 DEF ToldInTime
    <3> QED
      BY <1>4, <3>1, <3>2
  <2>2. CASE Report(l1, m1, c1) = Report(l, m, Channels[k])
    <3>1. l1 = l /\ m1 = m /\ c1 = Channels[k]
      BY <2>2 DEF Report
    <3>2. k \in 1 .. (k + 1) - 1
      BY <1>2
    <3> QED
      BY <1>2, <1>5, <1>4, <3>1, <3>2 DEF ToldInTime
  <2> QED
    BY <1>7, <2>1, <2>2
<1>10. AllTold'
  <2>1. ASSUME NEW n \in 1 .. k, Channels[n] \in scene.enabled
        PROVE  Report(l, m, Channels[n]) \in tried'
    <3>1. CASE n = k
      BY <1>7, <2>1, <3>1
    <3>2. CASE n # k
      <4>1. n \in 1 .. k - 1
        BY <1>2, <3>2
      <4> QED
        BY <1>2, <1>5, <1>7, <2>1, <4>1 DEF ReportsHold, AllTold
    <3> QED
      BY <3>1, <3>2
  <2>2. scene'.enabled = scene.enabled
    BY DEF SceneStays, SceneFields
  <2>3. (k + 1) - 1 = k
    BY <1>2
  <2> QED
    BY <1>4, <2>1, <2>2, <2>3 DEF AllTold, Report
<1>11. NoticesTold'
  <2>1. \A r, c : Notice(r, c) # Report(l, m, Channels[k])
    BY DEF Notice, Report
  <2> QED
    BY <1>2, <1>5, <1>7, <2>1 DEF ReportsHold, NoticesTold, Notice, Existing
<1> QED
  BY <1>2, <1>5, <1>7, <1>8, <1>9, <1>10, <1>11 DEF ReportsHold

(* A notice is sent once for a row, and changes nothing else of it.        *)
LEMMA NotifyingKeeps ==
    ASSUME TableHolds, ReportsHold, NEW r, Notify(r)
    PROVE  ReportsHold' /\ TableHolds' /\ SceneStays /\ RowsKept /\ ProjectsStay
<1>1. SceneHolds' /\ SceneStays
  BY SpendingStays DEF Notify, Moves, TableHolds
<1>2. /\ r \in Existing(records) /\ records[r].notice = None
      /\ UNCHANGED <<projects, now, reporter>>
      /\ Try(Attempts(<<"notice", r>>, Targets(records[r].project)))
  BY DEF Notify
<1>3. PICK notice \in {"sent", "failed"} : Set(r, [records[r] EXCEPT !.notice = notice])
  BY DEF Notify
<1> DEFINE row == [records[r] EXCEPT !.notice = notice]
<1>4. /\ DOMAIN row = Columns /\ row.project = records[r].project
      /\ row.event = records[r].event /\ row.subject = records[r].subject
      /\ row.status \in {"queued", "reviewed", "failed"} /\ row.notice = notice
  BY <1>2 DEF TableHolds, RecordsHold, IsRow, Columns
<1>5. Set(r, row)
  BY <1>3
<1> HIDE DEF row
<1>6. /\ RecordsHold' /\ RowsKept /\ records'[r].notice = notice
      /\ \A s \in Existing(records) : s # r => records'[s] = records[s]
  BY <1>2, <1>4, <1>5, SetRewritesOne DEF TableHolds, RowsKept
<1>7. ProjectsHold' /\ ProjectsStay
  BY <1>1, <1>2, NoEditKeeps DEF TableHolds
<1>8. \A c : Notice(r, c) \notin tried
  BY <1>2 DEF ReportsHold, NoticesTold
<1>9. /\ repeated' = {} /\ tried \subseteq tried'
      /\ \A a \in tried' : a \in tried \/ \E c : a = Notice(r, c)
  BY <1>2, <1>8 DEF Try, Attempts, Notice, ReportsHold
<1>10. notice # None
  BY TableAssumption DEF Notify
<1>11. NoticesTold'
  <2> SUFFICES ASSUME NEW s, NEW c, Notice(s, c) \in tried'
               PROVE  /\ s \in DOMAIN records'
                      /\ s \in Existing(records') => records'[s].notice # None
    BY DEF NoticesTold, Notice
  <2>1. CASE Notice(s, c) \in tried
    BY <1>6, <2>1 DEF ReportsHold, NoticesTold, RowsKept, RowsStay, PlacesStay, SameRow
  <2>2. CASE s = r
    BY <1>2, <1>6, <1>10, <2>2 DEF RowsKept, RowsStay, PlacesStay, Existing
  <2>3. \A d : Notice(s, c) = Notice(r, d) => s = r
    BY DEF Notice
  <2> QED
    BY <1>9, <2>1, <2>2, <2>3
<1>12. \A l, m, c : Report(l, m, c) \in tried' => Report(l, m, c) \in tried
  <2>1. \A l, m, c, d : Report(l, m, c) # Notice(r, d)
    BY DEF Report, Notice
  <2> QED
    BY <1>9, <2>1
<1>13. ReporterHolds' /\ ReportsTold'
  BY <1>2, <1>12 DEF ReportsHold, ReporterHolds, ReportsTold, ToldInTime, Report
<1>14. AllTold'
  BY <1>1, <1>2, <1>9 DEF ReportsHold, AllTold, Report, SceneStays, SceneFields
<1> QED
  BY <1>1, <1>2, <1>6, <1>7, <1>9, <1>11, <1>13, <1>14 DEF ReportsHold, TableHolds

(***************************************************************************)
(* The whole of the reporter's steps.                                      *)
(***************************************************************************)
LEMMA ReportStepsKeep ==
    ASSUME TableHolds, ReportsHold, ReportStep
    PROVE  TableHolds' /\ SceneStays /\ RowsKept /\ UNCHANGED projects /\ ReportsHold'
<1>1. CASE \E r \in DOMAIN records : Notify(r)
  <2>1. PICK r \in DOMAIN records : Notify(r)
    BY <1>1
  <2>2. UNCHANGED projects
    BY <2>1 DEF Notify
  <2> QED
    BY <2>1, <2>2, NotifyingKeeps
<1>2. ASSUME SceneHolds', SceneStays, UNCHANGED <<projects, records>>, ReportsHold'
      PROVE  TableHolds' /\ SceneStays /\ RowsKept /\ UNCHANGED projects /\ ReportsHold'
  <2>1. RecordsHold' /\ RowsKept
    BY <1>2, NoWriteKeeps DEF TableHolds
  <2>2. ProjectsHold'
    BY <1>2, NoEditKeeps DEF TableHolds
  <2> QED
    BY <1>2, <2>1, <2>2 DEF TableHolds
<1>3. ASSUME NEW what \in Moves, May(what), Spend(what) PROVE SceneHolds' /\ SceneStays
  BY <1>3, SpendingStays DEF TableHolds
<1>4. ASSUME UNCHANGED tableVars
      PROVE  SceneHolds' /\ SceneStays /\ UNCHANGED <<projects, records>>
  BY <1>4, UnchangedStays DEF TableHolds, tableVars
<1>5. CASE Tick
  BY <1>2, <1>3, <1>5, ClockStepsKeep DEF Tick, Moves
<1>6. CASE Start
  BY <1>2, <1>3, <1>6, ClockStepsKeep DEF Start, Moves
<1>7. CASE Stop
  BY <1>2, <1>3, <1>7, ClockStepsKeep DEF Stop, Moves
<1>8. CASE Wake \/ LookAway \/ LookAndReport
  <2>1. UNCHANGED tableVars
    BY <1>8 DEF Wake, LookAway, LookAndReport
  <2> QED
    BY <1>2, <1>4, <1>8, <2>1, ClockStepsKeep
<1>9. CASE SendReport
  <2>1. UNCHANGED tableVars
    BY <1>9 DEF SendReport
  <2> QED
    BY <1>2, <1>4, <1>9, <2>1, SendingReportsKeeps
<1>10. CASE FinishReport
  <2>1. UNCHANGED tableVars
    BY <1>10 DEF FinishReport
  <2> QED
    BY <1>2, <1>4, <1>10, <2>1, FinishingReportsKeeps
<1> QED
  BY <1>1, <1>5, <1>6, <1>7, <1>8, <1>9, <1>10 DEF ReportStep

-----------------------------------------------------------------------------
(***************************************************************************)
(* The clock: while the worker sleeps, the minute of its last look is      *)
(* served, and it sleeps for less than the rest of it and the next one.    *)
(***************************************************************************)
ScheduleIsRight ==
    \A m \in Nat : m <= Minute(now) => (m \in scene.expected <=> IsScheduled(m))

Served == looked \cup excused

ClockHolds ==
    /\ MinutesAreServed
    /\ reporter.key \in looked \cup {None}
    /\ reporter.phase = "sending" => reporter.minute \in looked
    /\ reporter.phase = "asleep" =>
          /\ reporter.at \in Nat /\ reporter.at <= now /\ now <= reporter.at + 2
          /\ Minute(reporter.at) \in scene.expected => Minute(reporter.at) \in Served

(* The schedule that is right after a step was right before it.            *)
LEMMA SchedulesStay ==
    ASSUME SceneStays, now \in Nat, now' \in {now, now + 1}, ScheduleIsRight'
    PROVE  ScheduleIsRight
<1>1. /\ scene'.expected = scene.expected /\ scene'.schedule = scene.schedule
  BY DEF SceneStays, SceneFields
<1>2. \A m : IsScheduled(m)' <=> IsScheduled(m)
  BY <1>1 DEF IsScheduled, Matches, MatchesPart, CronWeekday
<1>3. Minute(now) \in Nat /\ Minute(now + 1) \in Nat /\ Minute(now) <= Minute(now + 1)
  BY MinutesGrow
<1>4. \A m \in Nat : m <= Minute(now) => m <= Minute(now')
  BY <1>3
<1> QED
  BY <1>1, <1>2, <1>4 DEF ScheduleIsRight

(* Steps that touch neither the clock nor the worker keep what is true of  *)
(* them.                                                                   *)
LEMMA OthersKeepTheClock ==
    ASSUME ClockHolds, SceneStays, UNCHANGED <<now, reportVars>>
    PROVE  ClockHolds'
<1>1. /\ scene'.expected = scene.expected
      /\ UNCHANGED <<now, reporter, looked, excused>>
  BY DEF SceneStays, SceneFields, reportVars
<1> QED
  BY <1>1 DEF ClockHolds, MinutesAreServed, Served

(* A tick keeps what is true of the worker and the clock: a minute that    *)
(* goes by was looked at, or is excused.                                   *)
LEMMA TicksKeepTheClock ==
    ASSUME TableHolds, ReportsHold, ClockHolds, SceneStays, Tick
    PROVE  ClockHolds'
<1>1. /\ scene'.expected = scene.expected /\ scene.expected \subseteq Nat
      /\ now \in Nat /\ now' = now + 1 /\ UNCHANGED <<reporter, looked>>
      /\ reporter.phase \in {"off", "up", "asleep", "sending"}
  BY DEF SceneStays, SceneFields, TableHolds, SceneHolds, ReportsHold, ReporterHolds, Tick
<1>2. /\ Minute(now) \in Nat /\ Minute(now') \in Nat
      /\ Minute(now') <= Minute(now) + 1
      /\ 2 * Minute(now) <= now /\ now <= 2 * Minute(now) + 1
  BY <1>1, MinutesGrow
<1>3. \/ reporter.phase \in {"off", "sending"} /\ excused' = excused \cup {Minute(now)}
      \/ reporter.phase = "asleep" /\ now < reporter.at + 2 /\ excused' = excused
  BY DEF Tick, MayRest
<1>4. ASSUME Minute(now') = Minute(now) + 1, Minute(now) \in scene.expected
      PROVE  Minute(now) \in looked' \cup excused'
  <2>1. CASE reporter.phase \in {"off", "sending"}
    BY <1>3, <2>1
  <2>2. CASE reporter.phase = "asleep" /\ now < reporter.at + 2
    <3>1. reporter.at \in Nat /\ reporter.at <= now
      BY <2>2 DEF ClockHolds
    <3>2. Minute(reporter.at) = Minute(now)
      <4>1. (now + 1) \div 2 = (now \div 2) + 1
        BY <1>1, <1>4 DEF Minute
      <4>2. reporter.at = now \/ reporter.at = now - 1
        BY <1>1, <2>2, <3>1
      <4>3. now - 1 >= 0 => (now - 1) \div 2 = now \div 2
        BY <1>1, <4>1
      <4> QED
        BY <1>1, <3>1, <4>2, <4>3 DEF Minute
    <3> QED
      BY <1>1, <1>3, <1>4, <2>2, <3>2 DEF ClockHolds, Served
  <2> QED
    BY <1>3, <2>1, <2>2
<1>5. excused \subseteq excused'
  BY <1>3
<1>6. MinutesAreServed'
  <2>1. ASSUME NEW m \in scene.expected, m < Minute(now') PROVE m \in looked' \cup excused'
    <3>1. m < Minute(now) \/ (m = Minute(now) /\ Minute(now') = Minute(now) + 1)
      BY <1>1, <1>2, <2>1
    <3> QED
      BY <1>1, <1>4, <1>5, <2>1, <3>1 DEF ClockHolds, MinutesAreServed
  <2> QED
    BY <1>1, <2>1 DEF ClockHolds, MinutesAreServed
<1>7. reporter.phase = "asleep" =>
          /\ reporter.at \in Nat /\ reporter.at <= now' /\ now' <= reporter.at + 2
          /\ Minute(reporter.at) \in scene.expected => Minute(reporter.at) \in Served'
  BY <1>1, <1>3, <1>5 DEF ClockHolds, Served
<1> QED
  BY <1>1, <1>6, <1>7 DEF ClockHolds
(***************************************************************************)
(* A look at the clock: what is due is served, what is not due was served  *)
(* before or is not scheduled.                                             *)
(***************************************************************************)
LEMMA LooksKeepTheClock ==
    ASSUME ReportsHold, ScheduleIsRight, ClockHolds, UNCHANGED <<now, scene, excused>>,
           reporter.phase = "up",
           \/ ~IsDue /\ SleepOn(reporter.key) /\ looked' = looked
           \/ /\ IsDue /\ looked' = looked \cup {Minute(now)}
              /\ \/ SleepOn(Minute(now))
                 \/ reporter' = [reporter EXCEPT !.phase = "sending", !.minute = Minute(now)]
                 \/ reporter' = OffDuty(reporter.life)
    PROVE  ClockHolds'
<1> DEFINE m == Minute(now)
<1>1. /\ now \in Nat /\ m \in Nat /\ m # None
      /\ DOMAIN reporter = {"phase", "life", "at", "key", "minute", "next", "failed"}
  BY MinutesGrow, TableAssumption DEF ReportsHold, ReporterHolds
<1>2. m \in scene.expected <=> IsScheduled(m)
  BY <1>1 DEF ScheduleIsRight
<1>3. m \in scene.expected => m \in looked' \cup excused'
  BY <1>1, <1>2 DEF IsDue, ClockHolds
<1>4. MinutesAreServed'
  BY <1>2 DEF ClockHolds, MinutesAreServed, IsDue
<1>5. ASSUME NEW key, SleepOn(key), key \in looked' \cup {None} PROVE ClockHolds'
  <2>1. reporter'.phase = "asleep" /\ reporter'.at = now /\ reporter'.key = key
    BY <1>1, <1>5 DEF SleepOn
  <2> QED
    BY <1>1, <1>3, <1>4, <1>5, <2>1 DEF ClockHolds, Served
<1>6. CASE ~IsDue /\ SleepOn(reporter.key) /\ looked' = looked
  BY <1>5, <1>6 DEF ClockHolds
<1>7. ASSUME looked' = looked \cup {m},
             \/ SleepOn(m)
             \/ reporter' = [reporter EXCEPT !.phase = "sending", !.minute = m]
             \/ reporter' = OffDuty(reporter.life)
      PROVE  ClockHolds'
  <2>1. CASE SleepOn(m)
    BY <1>5, <1>7, <2>1
  <2>2. CASE reporter' = [reporter EXCEPT !.phase = "sending", !.minute = m]
    <3>1. reporter'.phase = "sending" /\ reporter'.minute = m /\ reporter'.key = reporter.key
      BY <1>1, <2>2
    <3> QED
      BY <1>4, <1>7, <3>1 DEF ClockHolds
  <2>3. CASE reporter' = OffDuty(reporter.life)
    <3>1. reporter'.phase = "off" /\ reporter'.key = None
      BY <2>3 DEF OffDuty
    <3> QED
      BY <1>4, <3>1 DEF ClockHolds
  <2> QED
    BY <1>7, <2>1, <2>2, <2>3
<1> QED
  BY <1>6, <1>7

(* The steps of the worker keep what is true of it and the clock.          *)
LEMMA ReportStepsKeepTheClock ==
    ASSUME TableHolds, ReportsHold, ScheduleIsRight, ClockHolds, SceneStays, ReportStep
    PROVE  ClockHolds'
<1>1. CASE Tick
  BY <1>1, TicksKeepTheClock
<1>2. scene'.expected = scene.expected
  BY DEF SceneStays, SceneFields
<1>3. ASSUME UNCHANGED <<now, looked, excused>>, NEW phase \in {"off", "up", "sending"},
             reporter'.phase = phase, reporter'.key \in {reporter.key, None},
             phase = "sending" => /\ reporter.phase = "sending"
                                  /\ reporter'.minute = reporter.minute
      PROVE  ClockHolds'
  BY <1>2, <1>3 DEF ClockHolds, MinutesAreServed
<1>4. CASE Start
  BY <1>3, <1>4 DEF Start, OffDuty
<1>5. CASE Stop
  BY <1>3, <1>5 DEF Stop, OffDuty
<1>6. CASE Wake
  <2>1. /\ UNCHANGED <<now, looked, excused>>
        /\ reporter'.phase = "up" /\ reporter'.key = reporter.key
    BY <1>6 DEF Wake, tableVars, ReportsHold, ReporterHolds
  <2> QED
    BY <1>3, <2>1
<1>7. CASE LookAway
  <2>1. /\ UNCHANGED <<now, scene, excused, looked>>
        /\ reporter.phase = "up" /\ ~IsDue /\ SleepOn(reporter.key)
    BY <1>7 DEF LookAway, tableVars
  <2> QED
    BY <2>1, LooksKeepTheClock
<1>8. CASE LookAndReport
  <2>1. /\ UNCHANGED <<now, scene, excused>>
        /\ reporter.phase = "up" /\ IsDue /\ looked' = looked \cup {Minute(now)}
        /\ \/ SleepOn(Minute(now))
           \/ reporter' = [reporter EXCEPT !.phase = "sending", !.minute = Minute(now)]
           \/ reporter' = OffDuty(reporter.life)
    BY <1>8 DEF LookAndReport, tableVars
  <2> QED
    BY <2>1, LooksKeepTheClock
<1>9. CASE SendReport
  <2>1. UNCHANGED <<now, looked, excused>> /\ reporter.phase = "sending"
    BY <1>9 DEF SendReport, tableVars
  <2>2. \/ reporter' = [reporter EXCEPT !.next = @ + 1]
        \/ \E failed : reporter' = [reporter EXCEPT !.next = @ + 1, !.failed = failed]
    BY <1>9 DEF SendReport
  <2>3. /\ reporter'.phase = "sending" /\ reporter'.key = reporter.key
        /\ reporter'.minute = reporter.minute
    BY <2>1, <2>2 DEF ReportsHold, ReporterHolds
  <2> QED
    BY <1>3, <2>1, <2>3
<1>10. CASE FinishReport
  <2>1. /\ reporter.phase = "sending" /\ UNCHANGED <<now, looked>>
        /\ excused' = excused \cup {Minute(now)}
        /\ reporter' = OffDuty(reporter.life) \/ SleepOn(reporter.minute)
    BY <1>10 DEF FinishReport, tableVars
  <2>2. MinutesAreServed'
    BY <1>2, <2>1 DEF ClockHolds, MinutesAreServed
  <2>3. CASE reporter' = OffDuty(reporter.life)
    <3>1. reporter'.phase = "off" /\ reporter'.key = None
      BY <2>3 DEF OffDuty
    <3> QED
      BY <2>2, <3>1 DEF ClockHolds
  <2>4. CASE SleepOn(reporter.minute)
    <3>1. /\ reporter'.phase = "asleep" /\ reporter'.at = now
          /\ reporter'.key = reporter.minute
      BY <2>4 DEF SleepOn, ReportsHold, ReporterHolds
    <3> QED
      BY <2>1, <2>2, <3>1 DEF ClockHolds, ReportsHold, Served
  <2> QED
    BY <2>1, <2>3, <2>4
<1>11. CASE \E r \in DOMAIN records : Notify(r)
  <2>1. UNCHANGED <<now, reporter, looked, excused>>
    BY <1>11 DEF Notify
  <2> QED
    BY <1>2, <2>1 DEF ClockHolds, MinutesAreServed, Served
<1> QED
  BY <1>1, <1>4, <1>5, <1>6, <1>7, <1>8, <1>9, <1>10, <1>11 DEF ReportStep
-----------------------------------------------------------------------------
(***************************************************************************)
(* The invariant of the whole.                                             *)
(***************************************************************************)
ReportingInvariant ==
    /\ TableHolds /\ WebhooksHold /\ ImportersHold /\ ReportsHold
    /\ ScheduleIsRight => ClockHolds

(* The invariant holds at the beginning.                                   *)
LEMMA TheBeginningHolds == Init => ReportingInvariant
<1> SUFFICES ASSUME Init PROVE ReportingInvariant
  OBVIOUS
<1> USE DEF Init, WebhookInit, ImportInit, ReportInit
<1>1. IsScene(scene)
  BY SceneAssumption
<1>2. SceneHolds
  BY <1>1 DEF IsScene, SceneHolds, SceneFields, Moves
<1>3. ProjectsHold
  <2>1. projects \in Seq(Range(scene.projects))
    BY <1>1 DEF IsScene
  <2>2. \A p \in Existing(projects) : p \in DOMAIN projects /\ projects[p] \in Range(scene.projects)
    BY DEF Existing, Range
  <2>3. \A p \in Existing(projects) : IsProject(projects[p], scene)
    BY <1>1, <2>2 DEF IsScene
  <2>4. \A p, q \in Existing(projects) : projects[p].key = projects[q].key => p = q
    BY <1>1, <2>2 DEF IsScene
  <2> QED
    BY <2>1, <2>3, <2>4 DEF ProjectsHold
<1>4. /\ records \in Seq(Range(scene.records))
      /\ \A r \in Existing(records) : r \in DOMAIN records /\ IsOldRecord(records[r], scene)
      /\ \A r, s \in Existing(records) :
            records[r].project = records[s].project /\ records[r].event = records[s].event
                => r = s
  BY <1>1 DEF IsScene, Existing
<1>5. ASSUME NEW p \in DOMAIN projects PROVE p \in Existing(projects)
  <2>1. IsProject(projects[p], scene)
    BY <1>1, <1>5 DEF IsScene, Range
  <2> QED
    BY <1>5, <2>1, ProjectsAreRows DEF Existing
<1>6. ASSUME NEW r \in Existing(records)
      PROVE  IsRow(records[r]) /\ records[r].subject = None /\ records[r].event[1] = "import"
  <2>1. records[r] = NewRecord(records[r].project, records[r].event, None, records[r].text,
                               "reviewed", records[r].updated)
    BY <1>4, <1>6 DEF IsOldRecord
  <2>2. /\ DOMAIN records[r] = Columns /\ records[r].subject = None
        /\ records[r].status = "reviewed" /\ records[r].notice = None
    BY <2>1 DEF NewRecord, Columns
  <2>3. records[r].event[1] = "import" /\ records[r].project \in DOMAIN projects
    BY <1>4, <1>6 DEF IsOldRecord
  <2> QED
    BY <1>5, <2>2, <2>3 DEF IsRow
<1>7. RecordsHold
  BY <1>4, <1>6 DEF RecordsHold
<1>8. WebhooksHold
  <2>1. sent \in Seq({}) /\ DOMAIN sent = {}
    OBVIOUS
  <2>2. ChangesHold
    BY DEF ChangesHold, NoChange
  <2>3. SentHolds
    BY <2>1 DEF SentHolds
  <2> QED
    BY <1>6, <2>2, <2>3 DEF WebhooksHold
<1>9. ImportersHold
  BY DEF ImportersHold, ImporterHolds, AtRest, Phases
<1>10. /\ Len(Channels) \in Nat /\ DOMAIN Channels = 1 .. Len(Channels)
  BY ChannelAssumption
<1>11. /\ DOMAIN reporter = {"phase", "life", "at", "key", "minute", "next", "failed"}
       /\ reporter.phase = "off" /\ reporter.life = 0 /\ reporter.next = 1
       /\ reporter.key = None /\ now = 0
  BY DEF OffDuty
<1>12. ReportsHold
  BY <1>10, <1>11 DEF ReportsHold, ReporterHolds, ReportsTold, AllTold, NoticesTold
<1>13. ClockHolds
  <2>1. Minute(now) = 0
    BY <1>11 DEF Minute
  <2> QED
    BY <1>2, <1>11, <2>1 DEF ClockHolds, MinutesAreServed, SceneHolds
<1> QED
  BY <1>2, <1>3, <1>7, <1>8, <1>9, <1>12, <1>13 DEF ReportingInvariant, TableHolds

(***************************************************************************)
(* Steps that neither edit projects nor add records leave webhooks and     *)
(* importers alone.                                                        *)
(***************************************************************************)
LEMMA QuietStepsKeep ==
    ASSUME TableHolds, TableHolds', SceneStays, RowsKept, UNCHANGED projects,
           WebhooksHold, ImportersHold, UNCHANGED <<webhookVars, importers>>
    PROVE  WebhooksHold' /\ ImportersHold' /\ RowsGrow
<1>1. /\ UNCHANGED <<changes, sent, arrived, refused, ready>> /\ due' = due
      /\ importers' = importers
  BY DEF webhookVars
<1>2. RowsGrow
  BY DEF RowsKept, RowsStay, RowsGrow
<1>3. /\ Existing(records) \subseteq Existing(records')
      /\ \A r \in Existing(records) : SameRow(r)
  BY <1>2 DEF RowsGrow
<1>4. \A h : Reviewing(h) \subseteq Reviewing(h)'
  BY <1>3, KeptRowsReview
<1>5. \A r \in Existing(records') :
          \/ r \in Existing(records) /\ SameRow(r)
          \/ records'[r].event[1] = "import"
  BY DEF RowsKept, RowsStay
<1>6. WebhooksHold'
  BY <1>1, <1>4, <1>5, NoWebhookKeeps
<1>7. ImportersHold'
  <2>1. \A i \in Importers : ImporterHolds(i)'
    BY <1>1, <1>2, ImportersStay DEF ImportersHold
  <2> QED
    BY <1>1, <2>1 DEF ImportersHold
<1> QED
  BY <1>2, <1>6, <1>7

(* Every step of a webhook keeps the tables, the importers and the clock.  *)
LEMMA WebhookStepsKeep ==
    ASSUME TableHolds, WebhooksHold, ImportersHold, WebhookStep, UNCHANGED importers
    PROVE  /\ TableHolds' /\ SceneStays /\ WebhooksHold' /\ ImportersHold' /\ RowsGrow
           /\ UNCHANGED now
<1>1. CASE \E c \in Changes : PlatformMove(c)
  <2>1. PICK c \in Changes : PlatformMove(c)
    BY <1>1
  <2>2. UNCHANGED <<projects, now>>
    BY <2>1 DEF PlatformMove
  <2>3. TableHolds' /\ SceneStays /\ RowsKept /\ WebhooksHold'
    BY <2>1, MovesKeep
  <2>4. RowsGrow
    BY <2>3 DEF RowsKept, RowsStay, RowsGrow
  <2>5. \A i \in Importers : ImporterHolds(i)'
    BY <2>2, <2>3, <2>4, ImportersStay DEF ImportersHold
  <2> QED
    BY <2>2, <2>3, <2>4, <2>5 DEF ImportersHold
<1>2. CASE \E id \in DOMAIN sent : Deliver(id) \/ Redeliver(id)
  <2>1. PICK id \in DOMAIN sent : Deliver(id) \/ Redeliver(id)
    BY <1>2
  <2>2. Receive(id) /\ SceneHolds' /\ SceneStays
    BY <2>1, SpendingStays, UnchangedStays DEF Deliver, Redeliver, Moves, TableHolds
  <2>3. UNCHANGED <<projects, now>>
    BY <2>2 DEF Receive
  <2>4. TableHolds' /\ WebhooksHold' /\ RowsGrow
    BY <2>2, DeliveriesKeep
  <2>5. \A i \in Importers : ImporterHolds(i)'
    BY <2>2, <2>3, <2>4, ImportersStay DEF ImportersHold
  <2> QED
    BY <2>2, <2>3, <2>4, <2>5 DEF ImportersHold
<1> QED
  BY <1>1, <1>2 DEF WebhookStep

(* Every step keeps the invariant.                                         *)
LEMMA EveryStepKeeps == ReportingInvariant /\ [Next]_vars => ReportingInvariant'
<1> SUFFICES ASSUME ReportingInvariant, [Next]_vars PROVE ReportingInvariant'
  OBVIOUS
<1>1. TableHolds /\ WebhooksHold /\ ImportersHold /\ ReportsHold /\ now \in Nat
  BY DEF ReportingInvariant, ReportsHold
<1>2. ASSUME TableHolds', SceneStays, WebhooksHold', ImportersHold', PlacesStay,
             \A r \in Existing(records) \cap Existing(records') : SameRow(r),
             UNCHANGED <<now, reportVars>>
      PROVE  ReportingInvariant'
  <2>1. ReportsHold'
    BY <1>1, <1>2, OthersKeepReports
  <2>2. ScheduleIsRight' => ClockHolds'
    BY <1>1, <1>2, SchedulesStay, OthersKeepTheClock DEF ReportingInvariant
  <2> QED
    BY <1>2, <2>1, <2>2 DEF ReportingInvariant
<1>3. RowsGrow => PlacesStay /\ \A r \in Existing(records) \cap Existing(records') : SameRow(r)
  BY DEF RowsGrow
<1>4. CASE EditProjects /\ WatchProjects /\ WatchRecords
             /\ UNCHANGED <<changes, sent, arrived, refused, ready, reportVars>>
  <2>1. /\ TableHolds' /\ SceneStays /\ RowsStay
        /\ \/ ProjectsStay /\ Existing(records') = Existing(records)
           \/ ~(Existing(projects) \subseteq Existing(projects'))
    BY <1>1, <1>4, EditsKeep
  <2>2. due' \subseteq due /\ \A h \in due' : Reviewing(h) \subseteq Reviewing(h)'
    BY <1>4, <2>1, WatchedRowsReview
  <2>3. \A r \in Existing(records') :
            \/ r \in Existing(records) /\ SameRow(r)
            \/ records'[r].event[1] = "import"
    BY <2>1 DEF RowsStay
  <2>4. WebhooksHold'
    BY <1>1, <1>4, <2>1, <2>2, <2>3, NoWebhookKeeps
  <2>5. ImportersHold'
    BY <1>1, <1>4, <2>1, EditsKeepImporters
  <2>6. /\ PlacesStay /\ \A r \in Existing(records) \cap Existing(records') : SameRow(r)
        /\ UNCHANGED <<now, reportVars>>
    BY <1>4, <2>1 DEF RowsStay, EditProjects
  <2> QED
    BY <1>2, <2>1, <2>4, <2>5, <2>6
<1>5. CASE (\E r \in DOMAIN records : Execute(r)) /\ UNCHANGED <<webhookVars, importers, reportVars>>
  <2>1. PICK r : Execute(r)
    BY <1>5
  <2>2. UNCHANGED <<projects, now>>
    BY <2>1 DEF Execute
  <2>3. TableHolds' /\ SceneStays /\ RowsKept
    BY <1>1, <2>1, ExecutionKeeps
  <2>4. WebhooksHold' /\ ImportersHold' /\ RowsGrow
    BY <1>1, <1>5, <2>2, <2>3, QuietStepsKeep
  <2> QED
    BY <1>2, <1>3, <1>5, <2>2, <2>3, <2>4
<1>6. CASE WebhookStep /\ UNCHANGED <<importers, reportVars>>
  BY <1>1, <1>2, <1>3, <1>6, WebhookStepsKeep
<1>7. CASE ImportStep /\ UNCHANGED <<webhookVars, reportVars>>
  <2>1. UNCHANGED now
    BY <1>7 DEF ImportStep, StartImport, ListPage, SendJob, FinishImport, LoseAnswer, tableVars
  <2> QED
    BY <1>1, <1>2, <1>3, <1>7, <2>1, ImportStepsKeep
<1>8. CASE ReportStep /\ UNCHANGED <<webhookVars, importers>>
  <2>1. TableHolds' /\ SceneStays /\ RowsKept /\ UNCHANGED projects /\ ReportsHold'
    BY <1>1, <1>8, ReportStepsKeep
  <2>2. WebhooksHold' /\ ImportersHold'
    BY <1>1, <1>8, <2>1, QuietStepsKeep
  <2>3. now' \in {now, now + 1}
    BY <1>8 DEF ReportStep, Tick, Start, Wake, LookAway, LookAndReport, SendReport,
                FinishReport, Stop, Notify, tableVars
  <2>4. ScheduleIsRight' => ClockHolds'
    BY <1>1, <1>8, <2>1, <2>3, SchedulesStay, ReportStepsKeepTheClock DEF ReportingInvariant
  <2> QED
    BY <2>1, <2>2, <2>4 DEF ReportingInvariant
<1>9. CASE UNCHANGED vars
  <2>1. /\ UNCHANGED <<projects, records, now, scene>>
        /\ UNCHANGED <<webhookVars, importers, reportVars>>
    BY <1>9 DEF vars, tableVars
  <2>2. SceneHolds' /\ SceneStays
    BY <1>1, <2>1, UnchangedStays DEF TableHolds
  <2>3. RecordsHold' /\ RowsKept /\ ProjectsHold'
    BY <1>1, <2>1, <2>2, NoWriteKeeps, NoEditKeeps DEF TableHolds
  <2>4. TableHolds'
    BY <2>2, <2>3 DEF TableHolds
  <2>5. WebhooksHold' /\ ImportersHold' /\ RowsGrow
    BY <1>1, <2>1, <2>2, <2>3, <2>4, QuietStepsKeep
  <2> QED
    BY <1>2, <1>3, <2>1, <2>2, <2>4, <2>5
<1> QED
  BY <1>4, <1>5, <1>6, <1>7, <1>8, <1>9 DEF Next

(***************************************************************************)
(* The tables, the webhooks, the imports and the reports keep what is said *)
(* of them through every step.                                             *)
(***************************************************************************)
THEOREM InvariantHolds == Spec => []ReportingInvariant
BY TheBeginningHolds, EveryStepKeeps, PTL DEF Spec

(***************************************************************************)
(* The types, and that no record outlives its project.                     *)
(***************************************************************************)
THEOREM TypesHold == Spec => []TypeOK
<1>1. ReportingInvariant => TypeOK
  BY DEF ReportingInvariant, TableHolds, SceneHolds, RecordsHold, IsRow, WebhooksHold,
         SentHolds, ImportersHold, ImporterHolds, Phases, ReportsHold, ReporterHolds, TypeOK, Moves
<1> QED
  BY <1>1, InvariantHolds, PTL

(***************************************************************************)
(* Webhooks in any order and any number of times: what is reviewed was fit *)
(* for it, is reviewed once, and is on record once its webhooks arrived.   *)
(***************************************************************************)
THEOREM ChangesAreReviewed == Spec => []ReviewsFollowChanges
<1>1. ASSUME ReportingInvariant PROVE ReviewsFollowChanges
  <2> USE <1>1 DEF ReportingInvariant, TableHolds, WebhooksHold, SentHolds
  <2>1. ASSUME NEW r \in Existing(records), records[r].event[1] = "webhook",
               records[r].subject[1] = "change"
        PROVE  <<records[r].subject[2], records[r].subject[3]>> \in ready
    <3>1. OfWebhook(records[r])
      BY <2>1
    <3> QED
      BY <2>1, <3>1 DEF OfWebhook, Subject
  <2>2. \A r, s \in Existing(records) :
            records[r].project = records[s].project /\ records[r].subject = records[s].subject
                /\ records[r].subject # None => r = s
    BY DEF RecordsHold
  <2>3. \A h \in due : Reviewing(h) # {} \/ IsUnderWay(h)
    OBVIOUS
  <2> QED
    BY <2>1, <2>2, <2>3 DEF ReviewsFollowChanges, IsUnderWay, Announces
<1> QED
  BY <1>1, InvariantHolds, PTL

(***************************************************************************)
(* An import stores no review twice, and one that ends has stored all it   *)
(* should of the projects that were active all along.                      *)
(***************************************************************************)
THEOREM ImportsStoreAll == Spec => []ImportsAreExact
<1>1. ASSUME ReportingInvariant PROVE ImportsAreExact
  <2>1. /\ \A r, s \in Existing(records) :
              records[r].project = records[s].project /\ records[r].event = records[s].event
                  => r = s
        /\ DOMAIN scene.sources \subseteq Nat
    BY <1>1 DEF ReportingInvariant, TableHolds, RecordsHold, SceneHolds
  <2>2. ASSUME NEW i \in Importers, importers[i].phase = "done", NEW p \in importers[i].steady
        PROVE  HasAll(p, Nat)
    BY <1>1, <2>2 DEF ReportingInvariant, ImportersHold, ImporterHolds
  <2> QED
    BY <2>1, <2>2 DEF ImportsAreExact, HasAll
<1> QED
  BY <1>1, InvariantHolds, PTL

(***************************************************************************)
(* If the schedule matches the minutes it is meant to, these are served or *)
(* the worker was off duty or on a report during them, and no other is.    *)
(***************************************************************************)
THEOREM MinutesServed == Spec => [](ScheduleIsRight => MinutesAreServed)
<1>1. ReportingInvariant => (ScheduleIsRight => MinutesAreServed)
  BY DEF ReportingInvariant, ClockHolds
<1> QED
  BY <1>1, InvariantHolds, PTL

(***************************************************************************)
(* Every channel that is set up is tried for a report, and none twice.     *)
(***************************************************************************)
THEOREM ChannelsTriedOnce == Spec => []ChannelsAreTriedOnce
<1>1. ASSUME ReportingInvariant PROVE ChannelsAreTriedOnce
  <2>1. repeated = {} /\ ReporterHolds /\ AllTold /\ scene.enabled \subseteq Range(Channels)
    BY <1>1 DEF ReportingInvariant, ReportsHold, TableHolds, SceneHolds
  <2>2. ASSUME reporter.phase = "sending", AllTried, NEW c \in scene.enabled
        PROVE  Report(reporter.life, reporter.minute, c) \in tried
    <3>1. PICK n \in 1 .. Len(Channels) : c = Channels[n]
      BY <2>1, <2>2 DEF Range, ReporterHolds
    <3>2. n \in 1 .. reporter.next - 1
      BY <2>1, <2>2, <3>1 DEF AllTried, ReporterHolds
    <3> QED
      BY <2>1, <2>2, <3>1, <3>2 DEF AllTold
  <2> QED
    BY <2>1, <2>2 DEF ChannelsAreTriedOnce, Attempts, AboutReport, Report
<1> QED
  BY <1>1, InvariantHolds, PTL
=============================================================================
