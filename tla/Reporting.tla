------------------------------ MODULE Reporting ------------------------------
(***************************************************************************)
(* How reviews get into the table, by webhooks and by the import of old    *)
(* logs, and how they are told of, by notices and by the daily report,     *)
(* while the projects they belong to are edited.                           *)
(***************************************************************************)
EXTENDS WebhookFilter, ReviewImport, ReportWorker

CONSTANT Scenes  \* the worlds the model starts in, with the bounds of each

(* What a project is, and what a scene may be: administrators protect, in  *)
(* the projects they set up, the branches that are meant to be reviewed;   *)
(* the records there are have been imported, one of a review.              *)
ProjectColumns ==
    {"platform", "name", "key", "url", "path", "external", "active", "enabled",
     "protected", "default", "bot"}

IsProject(row, s) == DOMAIN row = ProjectColumns /\ ProtectedBy(row) = s.protected

IsOldRecord(row, s) ==
    /\ row = NewRecord(row.project, row.event, None, row.text, "reviewed", row.updated)
    /\ row.event[1] = "import" /\ row.project \in DOMAIN s.projects

IsScene(s) ==
    /\ DOMAIN s = {"projects", "records", "platform", "repository", "onlyProtected",
                   "protected", "drafts", "targets", "newProjects", "switched", "deleted",
                   "sources", "leftOut", "pageSize", "answersGetLost", "schedule",
                   "expected", "day", "enabled", "scoped", "failing", "left"}
    /\ s.left \in [{"moves", "again", "work", "edits", "imports", "ticks", "starts",
                    "stops"} -> Nat]
    /\ s.platform \in {"github", "gitlab"} /\ None \notin s.targets
    /\ s.pageSize \in Nat \ {0}
    /\ s.enabled \subseteq Range(Channels) /\ s.expected \subseteq Nat
    /\ s.sources \in Seq(Range(s.sources))
    /\ s.projects \in Seq(Range(s.projects)) /\ s.records \in Seq(Range(s.records))
    /\ \A row \in Range(s.projects) \cup s.newProjects : IsProject(row, s)
    /\ \A p, q \in DOMAIN s.projects : s.projects[p].key = s.projects[q].key => p = q
    /\ \A r \in DOMAIN s.records :
          /\ IsOldRecord(s.records[r], s)
          /\ \A t \in DOMAIN s.records :
                s.records[t].project = s.records[r].project
                    /\ s.records[t].event = s.records[r].event => t = r

ASSUME SceneAssumption == \A s \in Scenes : IsScene(s)

vars == <<tableVars, webhookVars, importers, reportVars>>

Init ==
    /\ scene \in Scenes
    /\ projects = scene.projects /\ records = scene.records /\ now = 0
    /\ WebhookInit /\ ImportInit /\ ReportInit

Next ==
    \/ /\ EditProjects /\ WatchProjects /\ WatchRecords
       /\ UNCHANGED <<changes, sent, arrived, refused, ready, reportVars>>
    \/ /\ \E r \in DOMAIN records : Execute(r)
       /\ UNCHANGED <<webhookVars, importers, reportVars>>
    \/ WebhookStep /\ UNCHANGED <<importers, reportVars>>
    \/ ImportStep /\ UNCHANGED <<webhookVars, reportVars>>
    \/ ReportStep /\ UNCHANGED <<webhookVars, importers>>

Spec == Init /\ [][Next]_vars

-----------------------------------------------------------------------------
(* Types, and that no record outlives its project.                         *)
TypeOK ==
    /\ \A what \in DOMAIN scene.left : scene.left[what] \in Nat
    /\ \A r \in Existing(records) :
          /\ records[r].project \in Existing(projects)
          /\ records[r].status \in {"queued", "reviewed", "failed"}
          /\ records[r].notice \in {None, "sent", "failed"}
    /\ now \in Nat
    /\ arrived \subseteq DOMAIN sent /\ refused \subseteq arrived /\ due \subseteq ready
    /\ \A i \in Importers :
          importers[i].phase \in {"idle", "listing", "sending", "done", "failed"}
    /\ reporter.phase \in {"off", "up", "asleep", "sending"}

(* In whatever order webhooks arrive, and however often: only a commit that*)
(* was once fit for a review is reviewed for its change request, once in a *)
(* project, and a commit that was opened, pushed or, on GitLab, edited to  *)
(* be fit has a record as soon as its webhooks arrived at a project that   *)
(* takes them, until that record is deleted with its project.              *)
ReviewsFollowChanges ==
    /\ \A r \in Existing(records) :
          records[r].event[1] = "webhook" /\ records[r].subject[1] = "change" =>
              <<records[r].subject[2], records[r].subject[3]>> \in ready
    /\ \A r, s \in Existing(records) :
          /\ records[r].project = records[s].project
          /\ records[r].subject = records[s].subject
          /\ records[r].subject # None
          => r = s
    /\ \A h \in due :
          \/ Reviewing(h) # {}
          \/ \E id \in DOMAIN sent :
                /\ sent[id].kind = "change" /\ <<sent[id].change, sent[id].head>> = h
                /\ id \notin arrived \/ id \in refused

(* No import, repeated or doubled, stores a review twice, and one that ends*)
(* without an error has stored every review of the projects that were      *)
(* active all along, unless a project was deleted while it ran (the pages  *)
(* it reads are cut by offset).                                            *)
ImportsAreExact ==
    /\ \A r, s \in Existing(records) :
          records[r].project = records[s].project /\ records[r].event = records[s].event
              => r = s
    /\ \A i \in Importers : importers[i].phase = "done" =>
          \A p \in importers[i].steady, n \in DOMAIN scene.sources :
              scene.sources[n].name = projects[p].name
                  /\ scene.sources[n].name \notin scene.leftOut
                  => Imported(p, scene.sources[n]) # {}

(* The worker serves the minutes that the schedule means, no other, and    *)
(* misses one only if it was off duty or on a report during it, although   *)
(* it looks at the clock every now and then only.                          *)
MinutesAreServed ==
    /\ looked \subseteq scene.expected
    /\ \A m \in scene.expected : m < Minute(now) => m \in looked \cup excused

(* Between two starts of the worker a channel is tried once for the report *)
(* of a minute, though the clock is looked at twice in it, and a channel   *)
(* that raises keeps none of the others from being tried; so with the      *)
(* notice of a review.                                                     *)
ChannelsAreTriedOnce ==
    /\ repeated = {}
    /\ reporter.phase = "sending" /\ AllTried =>
          Attempts(AboutReport, scene.enabled) \subseteq tried
=============================================================================
