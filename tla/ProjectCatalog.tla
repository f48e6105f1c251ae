--------------------------- MODULE ProjectCatalog ---------------------------
(* Projects, their templates, language models and notification bots:       *)
(* ProjectService, ProjectTemplateService, LlmModelService and             *)
(* NotificationBotService.  The first two turn every integrity error of    *)
(* their commit into a conflict; the models' guard is around the commit    *)
(* only, and the flush before it (for the new id, and for the audit entry) *)
(* has already met the index.                                              *)
EXTENDS AdminStore

IsKeyTaken(d, p, key) ==
    \E q \in Rows(d.projects) : q # p /\ d.projects[q].key = key

IsTemplateCodeTaken(d, t, code) ==
    \E u \in Rows(d.templates) : u # t /\ d.templates[u].code = code

(* Mutant: projects that are switched off are overlooked.                  *)
BoundAndActive(d, t) ==
    {p \in Rows(d.projects) : d.projects[p].template = t /\ d.projects[p].active}

BoundTo(d, t) == {p \in Rows(d.projects) : d.projects[p].template = t}

Defaults(d) == {m \in Rows(d.models) : d.models[m].default}

(* The template to bind is absent, or it is there and not active.          *)
IsMissing(d, t) == t \notin Rows(d.templates) \cup {None}

IsInactive(d, t) == t \in Rows(d.templates) /\ ~d.templates[t].active

-----------------------------------------------------------------------------
(* ProjectService.                                                         *)

CreateProject(r) ==
    /\ Serves(r, "create_project")
    /\ LET o == requests[r].op
           s == Seen(r)
           taken == IsKeyTaken(s, o.project, o.key)
       IN Settle(r, ~taken /\ IsMissing(s, o.template),
                 taken \/ IsInactive(s, o.template),
                 IsKeyTaken(db, o.project, o.key) \/ IsMissing(db, o.template), 409,
                 [db EXCEPT !.projects[o.project] =
                     [active |-> TRUE, template |-> o.template, key |-> o.key]])

UpdateProject(r) ==
    /\ Serves(r, "update_project")
    /\ LET o == requests[r].op
           s == Seen(r)
           saw == s.projects[o.project]
           taken == IsKeyTaken(s, o.project, o.key)
       IN Settle(r, o.project \notin Rows(s.projects) \/ (~taken /\ IsMissing(s, o.template)),
                 taken \/ IsInactive(s, o.template),
                 \/ o.project \notin Rows(db.projects)
                 \/ o.key # saw.key /\ IsKeyTaken(db, o.project, o.key)
                 \/ o.template # saw.template /\ IsMissing(db, o.template),
                 IF o.project \in Rows(db.projects) THEN 409 ELSE 500,
                 [db EXCEPT
                     !.projects[o.project].template = Written(saw.template, o.template, @),
                     !.projects[o.project].key = Written(saw.key, o.key, @)])

(* The template is not looked at.                                          *)
UpdateProjectStatus(r) ==
    /\ Serves(r, "project_status")
    /\ LET o == requests[r].op IN
       Settle(r, o.project \notin Rows(Seen(r).projects), FALSE,
              o.project \notin Rows(db.projects), 500,
              [db EXCEPT !.projects[o.project].active =
                  Written(Seen(r).projects[o.project].active, o.active, @)])

DeleteProject(r) ==
    /\ Serves(r, "delete_project")
    /\ LET p == requests[r].op.project IN
       Settle(r, p \notin Rows(Seen(r).projects), FALSE, FALSE, 500,
              [db EXCEPT !.projects[p] = Gone])

-----------------------------------------------------------------------------
(* ProjectTemplateService.                                                 *)

CreateTemplate(r) ==
    /\ Serves(r, "create_template")
    /\ LET o == requests[r].op IN
       Settle(r, FALSE, IsTemplateCodeTaken(Seen(r), o.template, o.code),
              IsTemplateCodeTaken(db, o.template, o.code), 409,
              [db EXCEPT !.templates[o.template] =
                  [system |-> FALSE, active |-> o.active, code |-> o.code]])

(* The code of a system template may change too.                           *)
UpdateTemplate(r) ==
    /\ Serves(r, "update_template")
    /\ LET o == requests[r].op
           s == Seen(r)
       IN Settle(r, o.template \notin Rows(s.templates),
                 IsTemplateCodeTaken(s, o.template, o.code),
                 \/ o.template \notin Rows(db.templates)
                 \/ /\ o.code # s.templates[o.template].code
                    /\ IsTemplateCodeTaken(db, o.template, o.code),
                 IF o.template \in Rows(db.templates) THEN 409 ELSE 500,
                 [db EXCEPT !.templates[o.template].code =
                     Written(Seen(r).templates[o.template].code, o.code, @)])

(* Only active projects stand in the way of switching a template off.      *)
UpdateTemplateStatus(r) ==
    /\ Serves(r, "template_status")
    /\ LET o == requests[r].op
           s == Seen(r)
       IN Settle(r, o.template \notin Rows(s.templates),
                 ~o.active /\ \E p \in BoundTo(s, o.template) : s.projects[p].active,
                 o.template \notin Rows(db.templates), 500,
                 [db EXCEPT !.templates[o.template].active =
                     Written(Seen(r).templates[o.template].active, o.active, @)])

(* Mutant: the foreign key does nothing.                                   *)
StillBound(projects, t) == projects

(* ON DELETE SET NULL.                                                     *)
Unbound(projects, t) ==
    [p \in Projects |-> IF projects[p] \notin NoRow /\ projects[p].template = t
                        THEN [projects[p] EXCEPT !.template = None]
                        ELSE projects[p]]

(* Any project that is bound to it stands in the way of its deletion.      *)
DeleteTemplate(r) ==
    /\ Serves(r, "delete_template")
    /\ LET t == requests[r].op.template
           s == Seen(r)
       IN Settle(r, t \notin Rows(s.templates),
                 s.templates[t].system \/ BoundTo(s, t) # {}, FALSE, 500,
                 [db EXCEPT !.templates[t] = Gone, !.projects = Unbound(db.projects, t)])

-----------------------------------------------------------------------------
(* LlmModelService: at most one default, by a look and by a partial index. *)

HasOtherDefault(d, m) == Defaults(d) \ {m} # {}

CreateModel(r) ==
    /\ Serves(r, "create_model")
    /\ LET o == requests[r].op IN
       Settle(r, FALSE, o.default /\ HasOtherDefault(Seen(r), o.model),
              o.default /\ HasOtherDefault(db, o.model), 500,
              [db EXCEPT !.models[o.model] = [default |-> o.default, active |-> o.active]])

UpdateModel(r) ==
    /\ Serves(r, "update_model")
    /\ LET o == requests[r].op
           s == Seen(r)
           saw == s.models[o.model]
       IN Settle(r, o.model \notin Rows(s.models),
                 o.default /\ HasOtherDefault(s, o.model),
                 o.default /\ ~saw.default /\ HasOtherDefault(db, o.model), 500,
                 [db EXCEPT !.models[o.model].default = Written(saw.default, o.default, @),
                            !.models[o.model].active = Written(saw.active, o.active, @)])

(* The default model may be switched off and stays the default.            *)
UpdateModelStatus(r) ==
    /\ Serves(r, "model_status")
    /\ LET o == requests[r].op IN
       Settle(r, o.model \notin Rows(Seen(r).models), FALSE, FALSE, 500,
              [db EXCEPT !.models[o.model].active =
                  Written(Seen(r).models[o.model].active, o.active, @)])

-----------------------------------------------------------------------------
(* NotificationBotService: bots are never deleted.                         *)

CreateBot(r) ==
    /\ Serves(r, "create_bot")
    /\ LET o == requests[r].op IN
       Settle(r, FALSE, FALSE, FALSE, 500,
              [db EXCEPT !.bots[o.bot] = [active |-> o.active, tested |-> "never"]])

UpdateBot(r) ==
    /\ Serves(r, "update_bot")
    /\ LET o == requests[r].op IN
       Settle(r, o.bot \notin Rows(Seen(r).bots), FALSE, FALSE, 500,
              [db EXCEPT !.bots[o.bot].active =
                  Written(Seen(r).bots[o.bot].active, o.active, @)])

UpdateBotStatus(r) ==
    /\ Serves(r, "bot_status")
    /\ LET o == requests[r].op IN
       Settle(r, o.bot \notin Rows(Seen(r).bots), FALSE, FALSE, 500,
              [db EXCEPT !.bots[o.bot].active =
                  Written(Seen(r).bots[o.bot].active, o.active, @)])

(* A message is really sent, to an inactive bot too; what comes of it is   *)
(* written down and is no error of the request.                            *)
TestBot(r) ==
    /\ Serves(r, "test_bot")
    /\ LET o == requests[r].op IN
       \E result \in {"success", "failed"} :
           Settle(r, o.bot \notin Rows(Seen(r).bots), FALSE, FALSE, 500,
                  [db EXCEPT !.bots[o.bot].tested = result])

(* Mutant: a purge takes everything.                                       *)
PurgeEverything(r) ==
    /\ Serves(r, "purge_audit")
    /\ audit' = {Entry(r)}
    /\ Put(r, NoRequest)
    /\ UNCHANGED <<db, processes>>

(* AuditLogService.purge_business_logs: entries about the access to the    *)
(* system stay, and the purge adds its own.                                *)
PurgeAudit(r) ==
    /\ Serves(r, "purge_audit")
    /\ audit' = {e \in audit : e.kind \in SystemKinds} \cup {Entry(r)}
    /\ Put(r, NoRequest)
    /\ UNCHANGED <<db, processes>>
=============================================================================
