---------------------------- MODULE ReviewImport ----------------------------
(***************************************************************************)
(* scripts/import_review_logs.py: a script that lists the projects page by *)
(* page, matches the reviews of its files to them by name and sends them   *)
(* one by one, while projects come and go; it may be started again after   *)
(* it failed or ended.                                                     *)
(***************************************************************************)
EXTENDS ReviewTable

CONSTANT Importers

ASSUME ImporterAssumption == IsFiniteSet(Importers)

VARIABLE importers  \* where each is, and what it has found

-----------------------------------------------------------------------------
(* "page" is the next one, "keys" the keys of the active projects by name, *)
(* "last" the review sent last; "steady" is history: the projects that     *)
(* were active since the script began while none was deleted.              *)
AtRest(phase) == [phase |-> phase, page |-> 0, keys |-> <<>>, last |-> 0, steady |-> {}]

ActiveProjects == {p \in Existing(projects) : projects[p].active}

StartImport(i) ==
    /\ importers[i].phase \in {"idle", "done", "failed"}
    /\ May("imports") /\ Spend("imports")
    /\ importers' = [importers EXCEPT
           ![i] = [AtRest("listing") EXCEPT !.page = 1, !.steady = ActiveProjects]]
    /\ UNCHANGED <<projects, records, now>>

(* list_projects: the projects in the order of their ids, cut by offset.   *)
Before(p) == Cardinality({q \in Existing(projects) : q < p})

PageOf(page) ==
    {p \in Existing(projects) :
        Before(p) \in (page - 1) * scene.pageSize .. page * scene.pageSize - 1}

(* The names of a page with their keys, added to those found before; two   *)
(* active projects of one name stop the script.                            *)
Named(i) == [p \in PageOf(importers[i].page) \cap ActiveProjects |-> projects[p].name]

Conflicts(i) ==
    LET named == Named(i) IN
    \/ ~IsInjective(named)
    \/ \E p \in DOMAIN named :
          /\ named[p] \in DOMAIN importers[i].keys
          /\ importers[i].keys[named[p]] # projects[p].key

KeysWith(i) ==
    LET named == Named(i)
        added == [n \in Range(named) |-> projects[CHOOSE p \in DOMAIN named : named[p] = n].key]
        keys  == importers[i].keys
    IN  [n \in DOMAIN keys \cup Range(named) |->
            IF n \in Range(named) THEN added[n] ELSE keys[n]]

(* Mutant: the pages are counted from the one to come.                     *)
ListsOnePageLess(i, total) == (importers[i].page + 1) * scene.pageSize < total

ListsMore(i, total) == importers[i].page * scene.pageSize < total

ListPage(i) ==
    LET job   == importers[i]
        total == Cardinality(Existing(projects))
        keys  == KeysWith(i)
    IN  /\ job.phase = "listing"
        /\ importers' = [importers EXCEPT ![i] =
               IF Conflicts(i) THEN AtRest("failed")
               ELSE IF ListsMore(i, total) THEN [job EXCEPT !.page = @ + 1, !.keys = keys]
               ELSE [job EXCEPT !.phase = "sending", !.keys = keys]]
        /\ UNCHANGED <<projects, records, now, scene>>

-----------------------------------------------------------------------------
(* One request to mock-ingest.                                             *)

(* The reviews of the files that are still to be sent: their project was   *)
(* found and is not to be left out.                                        *)
Pending(i) ==
    {n \in DOMAIN scene.sources :
        /\ n > importers[i].last
        /\ scene.sources[n].name \in DOMAIN importers[i].keys \ scene.leftOut}

(* The next of them, with the key it is sent under.                        *)
NextJob(i) ==
    LET review == scene.sources[Min(Pending(i))]
    IN  [review |-> review, key |-> importers[i].keys[review.name]]

(* The project of the key, or else the only active one of the name.        *)
Resolved(job) ==
    LET ofKey  == {p \in Existing(projects) : projects[p].key = job.key}
        ofName == {p \in ActiveProjects : projects[p].name = job.review.name}
    IN  IF ofKey # {} THEN ofKey ELSE ofName

IsAccepted(job) ==
    /\ Cardinality(Resolved(job)) = 1
    /\ \A p \in Resolved(job) : projects[p].active

Imported(p, source) == OfEvent(p, <<"import", source.id>>)

(* The review comes in as finished at the time its file says, if any.      *)
IngestMockEvent(job) ==
    LET review == job.review IN
    \E p \in Resolved(job) :
        IF Imported(p, review) # {} THEN UNCHANGED records
        ELSE Insert(NewRecord(p, <<"import", review.id>>, None, review.text, "reviewed",
                              IF review.at = None THEN now ELSE review.at))

SendJob(i) ==
    LET job == NextJob(i) IN
    /\ importers[i].phase = "sending" /\ Pending(i) # {}
    /\ \/ /\ IsAccepted(job)
          /\ IngestMockEvent(job)
          /\ importers' = [importers EXCEPT ![i].last = Min(Pending(i))]
       \/ /\ ~IsAccepted(job)
          /\ importers' = [importers EXCEPT ![i] = AtRest("failed")]
          /\ UNCHANGED records
    /\ UNCHANGED <<projects, now, scene>>

FinishImport(i) ==
    /\ importers[i].phase = "sending" /\ Pending(i) = {}
    /\ importers' = [importers EXCEPT ![i].phase = "done"]
    /\ UNCHANGED tableVars

(* An answer that is late or lost stops the script; the request may have   *)
(* been served.                                                            *)
LoseAnswer(i) ==
    /\ scene.answersGetLost
    /\ \/ importers[i].phase = "listing" /\ UNCHANGED records
       \/ /\ importers[i].phase = "sending" /\ Pending(i) # {}
          /\ \/ UNCHANGED records
             \/ IsAccepted(NextJob(i)) /\ IngestMockEvent(NextJob(i))
    /\ importers' = [importers EXCEPT ![i] = AtRest("failed")]
    /\ UNCHANGED <<projects, now, scene>>

(* History: what an edit of the projects does to "steady".                 *)
WatchProjects ==
    importers' = [i \in Importers |->
        [importers[i] EXCEPT !.steady =
            IF Existing(projects) \subseteq Existing(projects')
            THEN {p \in @ : projects'[p].active} ELSE {}]]

ImportStep ==
    \E i \in Importers :
        StartImport(i) \/ ListPage(i) \/ SendJob(i) \/ FinishImport(i) \/ LoseAnswer(i)

ImportInit == importers = [i \in Importers |-> AtRest("idle")]
=============================================================================
