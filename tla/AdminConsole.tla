---------------------------- MODULE AdminConsole ----------------------------
(* The admin console: requests of its users against its services, and      *)
(* starts of its processes, over the same tables.                          *)
EXTENDS AccessControl, ProjectCatalog, AdminBootstrap

(* What the schemas of the routes make of what is asked.                   *)
IsOperation(op) ==
    /\ op.kind \in AuditedKinds \cup DOMAIN ProjectRoutes \cup DOMAIN TemplateRoutes
    /\ op.kind \in DOMAIN UserRoutes => op.user \in Users
    /\ op.kind \in DOMAIN RoleRoutes => op.role \in Roles
    /\ op.kind \in DOMAIN PermissionRoutes => op.permission \in Permissions
    /\ op.kind \in DOMAIN MenuRoutes => op.menu \in Menus
    /\ op.kind \in DOMAIN ProjectRoutes => op.project \in Projects
    /\ op.kind \in DOMAIN TemplateRoutes => op.template \in Templates
    /\ op.kind \in DOMAIN ModelRoutes => op.model \in Models
    /\ op.kind \in DOMAIN BotRoutes => op.bot \in Bots
    /\ op.kind \in {"create_user", "assign_roles"} => op.roles \subseteq Roles
    /\ op.kind \in {"create_user", "update_user"} => op.super \in BOOLEAN
    /\ op.kind = "assign_permissions" => op.permissions \subseteq Permissions
    /\ op.kind = "assign_menus" => op.menus \subseteq Menus
    /\ op.kind \in {"create_permission", "update_permission"} => op.code \in PermissionCodes
    /\ op.kind \in {"create_menu", "update_menu"} =>
           op.parent \in Menus \cup {None} /\ op.path \in Paths
    /\ op.kind \in {"create_project", "update_project"} =>
           op.template \in Templates \cup {None} /\ op.key \in ProjectKeys
    /\ op.kind \in {"create_template", "update_template"} => op.code \in TemplateCodes
    /\ op.kind \in {"create_model", "update_model"} => op.default \in BOOLEAN
    /\ op.kind \in {"user_status", "project_status", "create_template", "template_status",
                     "create_model", "update_model", "model_status",
                     "create_bot", "update_bot", "bot_status"} => op.active \in BOOLEAN

(* The tables agree with one another, whatever two transactions did at     *)
(* once: names and codes are unique, one model at most is the default, and *)
(* no row refers to one that is not there, so that the tree of all menus   *)
(* can be built (list_menu_tree and the context of a superuser raise       *)
(* otherwise).                                                             *)
NamesAreUnique(d) == \A u, v \in Rows(d.users) : UserName[u] = UserName[v] => u = v

RoleCodesAreUnique(d) == \A x, y \in Rows(d.roles) : RoleCode[x] = RoleCode[y] => x = y

PermissionCodesAreUnique(d) ==
    \A p, q \in Rows(d.permissions) : d.permissions[p].code = d.permissions[q].code => p = q

TemplateCodesAreUnique(d) ==
    \A p, q \in Rows(d.templates) : d.templates[p].code = d.templates[q].code => p = q

KeysAreUnique(d) ==
    \A p, q \in Rows(d.projects) : d.projects[p].key = d.projects[q].key => p = q

OneDefault(d) == \A m, n \in Defaults(d) : m = n

UsersHaveRoles(d) == \A u \in Rows(d.users) : d.users[u].roles \subseteq Rows(d.roles)

RolesHaveRights(d) ==
    \A x \in Rows(d.roles) : /\ d.roles[x].permissions \subseteq Rows(d.permissions)
                             /\ d.roles[x].menus \subseteq Rows(d.menus)

ProjectsHaveTemplates(d) ==
    \A p \in Rows(d.projects) : ~IsMissing(d, d.projects[p].template)

Agree(d) ==
    /\ NamesAreUnique(d) /\ RoleCodesAreUnique(d) /\ PermissionCodesAreUnique(d)
    /\ TemplateCodesAreUnique(d) /\ KeysAreUnique(d) /\ OneDefault(d)
    /\ UsersHaveRoles(d) /\ RolesHaveRights(d) /\ ProjectsHaveTemplates(d)
    /\ BuildsMenuTree(Rows(d.menus), d)

-----------------------------------------------------------------------------
(* What is asked of which console, the bounds of the model: the tables it  *)
(* starts with, its processes, the operations, the users who ask for them, *)
(* how many requests there are (None: any number) and what starts anew.    *)
CONSTANT Agendas    \* [tables, processes, ops, actors, budget, starters]

ASSUME AgendaAssumption ==
    \A a \in Agendas :
        /\ a.tables \in Tables /\ Agree(a.tables)
        /\ a.processes \in {"one", "many"}
        /\ \A op \in a.ops : IsOperation(op)
        /\ a.actors \subseteq Users /\ a.starters \subseteq Starters
        /\ Rows(a.tables.users) # {} => ActiveSuperusers(a.tables) # {}

VARIABLE agenda     \* what is left of it: [ops, actors, budget, starters]

vars == <<db, audit, requests, processes, boots, agenda>>

(* The id that a request for a new row will get.                           *)
NewId(op) ==
    CASE op.kind = "create_user" -> op.user
      [] op.kind = "create_role" -> op.role
      [] op.kind = "create_permission" -> op.permission
      [] op.kind = "create_menu" -> op.menu
      [] op.kind = "create_project" -> op.project
      [] op.kind = "create_template" -> op.template
      [] op.kind = "create_model" -> op.model
      [] op.kind = "create_bot" -> op.bot
      [] OTHER -> None

(* Ids come from sequences: no two requests get the same one.              *)
IsNew(id) ==
    /\ \A table \in DOMAIN db : id \in DOMAIN db[table] => db[table][id] = Unborn
    /\ \A r \in Requests : ~IsOver(r) => NewId(requests[r].op) # id

Ask(r) ==
    /\ agenda.budget # 0
    /\ \E op \in agenda.ops, u \in agenda.actors :
        /\ db.users[u] # Unborn
        /\ NewId(op) # None => IsNew(NewId(op))
        /\ Submit(r, op, u)
    /\ agenda' = [agenda EXCEPT !.budget = IF @ = None THEN None ELSE @ - 1]
    /\ UNCHANGED boots

Handle(r) ==
    \/ CreateUser(r) \/ UpdateUser(r) \/ UpdateUserStatus(r) \/ ResetPassword(r)
    \/ AssignRoles(r) \/ DeleteUser(r)
    \/ CreateRole(r) \/ UpdateRole(r) \/ DeleteRole(r) \/ AssignPermissions(r) \/ AssignMenus(r)
    \/ CreatePermission(r) \/ UpdatePermission(r) \/ DeletePermission(r)
    \/ CreateMenu(r) \/ UpdateMenu(r) \/ DeleteMenu(r)
    \/ CreateProject(r) \/ UpdateProject(r) \/ UpdateProjectStatus(r) \/ DeleteProject(r)
    \/ CreateTemplate(r) \/ UpdateTemplate(r) \/ UpdateTemplateStatus(r) \/ DeleteTemplate(r)
    \/ CreateModel(r) \/ UpdateModel(r) \/ UpdateModelStatus(r)
    \/ CreateBot(r) \/ UpdateBot(r) \/ UpdateBotStatus(r) \/ TestBot(r) \/ PurgeAudit(r)

RequestStep(r) == Authenticate(r) \/ Authorize(r) \/ Read(r) \/ Handle(r)

BootStep(b) == BeginBoot(b) \/ CommitBoot(b) \/ FailBoot(b)

Init ==
    /\ \E a \in Agendas :
        /\ db = a.tables
        /\ processes = a.processes
        /\ agenda = [ops |-> a.ops, actors |-> a.actors, budget |-> a.budget,
                     starters |-> a.starters]
    /\ audit = {}
    /\ requests = [r \in Requests |-> NoRequest]
    /\ BootInit

Next ==
    \/ \E r \in Requests : Ask(r)
    \/ \E r \in Requests : RequestStep(r) /\ UNCHANGED <<boots, agenda>>
    \/ \E u \in Users : ChangePassword(u) /\ UNCHANGED <<boots, agenda>>
    \/ Restart /\ UNCHANGED agenda
    \/ \E b \in agenda.starters : BootStep(b) /\ UNCHANGED agenda

Spec == Init /\ [][Next]_vars

-----------------------------------------------------------------------------
TablesAgree == Agree(db)

TypeOK ==
    /\ db \in Tables
    /\ audit \subseteq [kind : AuditedKinds, actor : Users]
    /\ DOMAIN requests = Requests /\ DOMAIN boots = Starters
    /\ processes \in {"one", "many"}
    /\ (\A op \in agenda.ops : IsOperation(op)) /\ agenda.actors \subseteq Users
    /\ agenda.starters \subseteq Starters

(* What a transaction has seen is older than what it meets: a row that was *)
(* there may be gone, but models and bots are never deleted, and an id     *)
(* that is still free was free then.                                       *)
IsOlder(d, now) ==
    /\ d \in Tables
    /\ Rows(d.models) \subseteq Rows(now.models) /\ Rows(d.bots) \subseteq Rows(now.bots)
    /\ \A m \in Menus : now.menus[m] = Unborn => d.menus[m] = Unborn

(* A request on its way has an operation and an actor; only with several   *)
(* processes does it decide on an older state of the tables.               *)
RequestFits(r) ==
    LET q == requests[r] IN
    \/ q = NoRequest
    \/ q.phase = "failed"
    \/ /\ q.phase \in {"authenticate", "authorize", "handle", "commit"}
       /\ IsOperation(q.op) /\ q.actor \in Users
       /\ q.phase # "authenticate" => q.super \in BOOLEAN
       /\ q.phase = "commit" => processes = "many" /\ IsOlder(q.seen, db)

BootFits(b) ==
    boots[b].phase = "ensure" => processes = "many" /\ IsOlder(boots[b].seen, db)

AdminInvariant ==
    /\ TypeOK /\ TablesAgree
    /\ \A r \in Requests : RequestFits(r)
    /\ \A b \in Starters : BootFits(b)

(* In one process no sequence of disablings, demotions and deletions, by   *)
(* users whose own rank may have been taken meanwhile, leaves the console  *)
(* without an active superuser.                                            *)
SomeSuperuserRemains ==
    processes = "one" /\ Rows(db.users) # {} => ActiveSuperusers(db) # {}

(* Why: in one process an id on its way to a new user or project is free,  *)
(* and nobody else's; and a request whose actor was looked up meets a      *)
(* console that has users.                                                 *)
IdIsFree(r) ==
    LET op == requests[r].op IN
    ~IsOver(r) =>
        /\ op.kind = "create_user" => db.users[op.user] = Unborn
        /\ op.kind = "create_project" => db.projects[op.project] = Unborn
        /\ \A x \in Requests \ {r} :
               NewId(op) # None /\ ~IsOver(x) => NewId(requests[x].op) # NewId(op)

IdsAreFree == processes = "one" => \A r \in Requests : IdIsFree(r)

AskedByUsers ==
    processes = "one" =>
        \A r \in Requests :
            requests[r].phase \in {"authorize", "handle"} => Rows(db.users) # {}

StaffInvariant == IdsAreFree /\ AskedByUsers /\ SomeSuperuserRemains

(* In one process a project loses its template only when the project is    *)
(* edited: neither switching a template off and deleting it nor a start    *)
(* takes it away.                                                          *)
BindingsAreKept ==
    [][processes = "one" =>
        \A p \in Rows(db.projects) :
            \/ p \notin Rows(db'.projects)
            \/ db.projects[p].template = None
            \/ db'.projects[p].template # None
            \/ \E r \in Requests :
                   /\ requests'[r] # requests[r]
                   /\ Serves(r, "update_project")
                   /\ requests[r].op.project = p]_vars

(* Who changed the access to the system stays on record: a request that    *)
(* changes users, roles, permissions or menus commits its entry with the   *)
(* change, and no purge removes such an entry.                             *)
AccessTables(d) == <<d.users, d.roles, d.permissions, d.menus>>

SystemChangesStayAudited ==
    [][/\ \A e \in audit : e.kind \in SystemKinds => e \in audit'
       /\ \A r \in Requests :
              /\ requests[r].phase \in {"handle", "commit"} /\ requests[r].op.kind \in Watched
              /\ AccessTables(db) # AccessTables(db')
              /\ Handle(r)
              => Entry(r) \in audit']_vars

(* While paths are unique, a start repeats itself: a second one right      *)
(* after it changes nothing, and the seeded menus then stand under their   *)
(* parents.                                                                *)
PathsAreUnique(d) ==
    \A m, n \in Rows(d.menus) : d.menus[m].path = d.menus[n].path => m = n

StartsSettle ==
    PathsAreUnique(db) /\ HasIds(db, db) =>
        \A plan \in Plans(db, db) :
            LET once == Ensured(db, db, plan) IN
            \A again \in Plans(once, once) : Ensured(once, once, again) = once
=============================================================================
