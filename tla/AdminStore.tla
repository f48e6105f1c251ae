----------------------------- MODULE AdminStore -----------------------------
(* The tables of the admin console and the life of a request to it.        *)
(* FastAPI resolves the synchronous dependencies of a route in a thread    *)
(* pool, so other requests run between the authentication of a request,    *)
(* its authorisation and its handler.  A handler never awaits between its  *)
(* first read and its commit: in one process it is one step.  In several   *)
(* processes another transaction may commit between what a handler read    *)
(* and what it writes; the handler then decides on what it saw and the     *)
(* constraints of the database decide on what is there.                    *)
EXTENDS FiniteSets, Naturals

CONSTANTS
    Users, Roles, Permissions, Menus, Templates, Projects, Models, Bots,
    UserNames, UserName,    \* the unique name of each user
    RoleCodes, RoleCode,    \* the unique code of each role
    PermissionCodes,
    Paths,                  \* paths of menus
    ProjectKeys, TemplateCodes,
    Requests,               \* places for requests that are served at once
    Watched,                \* kinds of requests whose audit entries are kept: a bound
    Unborn, Gone,           \* an id not given out yet, the id of a deleted row
    None

ASSUME AdminAssumption ==
    /\ UserName \in [Users -> UserNames]
    /\ RoleCode \in [Roles -> RoleCodes]
    /\ IsFiniteSet(Users)
    /\ None \notin Users \cup Projects

VARIABLES
    db,         \* what is committed
    audit,      \* audit entries: [kind, actor]
    requests,   \* each place: the request in it
    processes   \* "one" or "many" processes serve the console

NoRow == {Unborn, Gone}

Rows(table) == {i \in DOMAIN table : table[i] \notin NoRow}

UserRow == [active : BOOLEAN, super : BOOLEAN, must : BOOLEAN, roles : SUBSET Roles]
RoleRow == [system : BOOLEAN, permissions : SUBSET Permissions, menus : SUBSET Menus]
PermissionRow == [system : BOOLEAN, code : PermissionCodes]
MenuRow == [system : BOOLEAN, parent : Menus \cup {None}, path : Paths]
TemplateRow == [system : BOOLEAN, active : BOOLEAN, code : TemplateCodes]
ProjectRow == [active : BOOLEAN, template : Templates \cup {None}, key : ProjectKeys]
ModelRow == [default : BOOLEAN, active : BOOLEAN]
BotRow == [active : BOOLEAN, tested : {"never", "success", "failed"}]

Tables ==
    [users : [Users -> UserRow \cup NoRow],
     roles : [Roles -> RoleRow \cup NoRow],
     permissions : [Permissions -> PermissionRow \cup NoRow],
     menus : [Menus -> MenuRow \cup NoRow],
     templates : [Templates -> TemplateRow \cup NoRow],
     projects : [Projects -> ProjectRow \cup NoRow],
     models : [Models -> ModelRow \cup NoRow],
     bots : [Bots -> BotRow \cup NoRow]]

ASSUME RowAssumption ==
    /\ Unborn # Gone
    /\ \A row \in NoRow :
        /\ row \notin UserRow /\ row \notin RoleRow
        /\ row \notin PermissionRow /\ row \notin MenuRow
        /\ row \notin TemplateRow /\ row \notin ProjectRow
        /\ row \notin ModelRow /\ row \notin BotRow

-----------------------------------------------------------------------------
(* Who may do what: the permission each route requires.                    *)

UserRoutes ==
    [create_user |-> "user:create", update_user |-> "user:update",
     user_status |-> "user:status", reset_password |-> "user:reset-password",
     delete_user |-> "user:delete", assign_roles |-> "user:assign-role"]

RoleRoutes ==
    [create_role |-> "role:create", update_role |-> "role:update",
     delete_role |-> "role:delete", assign_permissions |-> "role:assign",
     assign_menus |-> "role:assign"]

PermissionRoutes ==
    [create_permission |-> "permission:create",
     update_permission |-> "permission:update",
     delete_permission |-> "permission:delete"]

MenuRoutes ==
    [create_menu |-> "menu:create", update_menu |-> "menu:update",
     delete_menu |-> "menu:delete"]

ProjectRoutes ==
    [create_project |-> "project:create", update_project |-> "project:update",
     project_status |-> "project:status", delete_project |-> "project:delete"]

TemplateRoutes ==
    [create_template |-> "project_template:create",
     update_template |-> "project_template:update",
     template_status |-> "project_template:status",
     delete_template |-> "project_template:delete"]

ModelRoutes ==
    [create_model |-> "llm_model:create", update_model |-> "llm_model:update",
     model_status |-> "llm_model:status"]

BotRoutes ==
    [create_bot |-> "notification_bot:create",
     update_bot |-> "notification_bot:update",
     bot_status |-> "notification_bot:status",
     test_bot |-> "notification_bot:update"]

AuditRoutes == [purge_audit |-> "audit_log:purge"]

Required(kind) ==
    CASE kind \in DOMAIN UserRoutes -> UserRoutes[kind]
      [] kind \in DOMAIN RoleRoutes -> RoleRoutes[kind]
      [] kind \in DOMAIN PermissionRoutes -> PermissionRoutes[kind]
      [] kind \in DOMAIN MenuRoutes -> MenuRoutes[kind]
      [] kind \in DOMAIN ProjectRoutes -> ProjectRoutes[kind]
      [] kind \in DOMAIN TemplateRoutes -> TemplateRoutes[kind]
      [] kind \in DOMAIN ModelRoutes -> ModelRoutes[kind]
      [] kind \in DOMAIN BotRoutes -> BotRoutes[kind]
      [] kind \in DOMAIN AuditRoutes -> AuditRoutes[kind]

(* Purges spare the entries about who may use the system.                  *)
SystemKinds ==
    DOMAIN UserRoutes \cup DOMAIN RoleRoutes \cup DOMAIN PermissionRoutes
        \cup DOMAIN MenuRoutes \cup DOMAIN AuditRoutes

(* The services of projects and templates write no audit entry.            *)
AuditedKinds == SystemKinds \cup DOMAIN ModelRoutes \cup DOMAIN BotRoutes

CodesOf(d, u) ==
    {d.permissions[p].code : p \in UNION {d.roles[r].permissions : r \in d.users[u].roles}}

-----------------------------------------------------------------------------
(* The life of a request.                                                  *)

NoRequest == [phase |-> "idle"]

Put(r, request) == requests' = [requests EXCEPT ![r] = request]

(* Of a request that is over the model keeps only that it met an error     *)
(* which nothing handled.                                                  *)
Over(r, status) ==
    IF status = 500 THEN [phase |-> "failed", kind |-> requests[r].op.kind] ELSE NoRequest

Answer(r, status) ==
    /\ Put(r, Over(r, status))
    /\ UNCHANGED <<db, audit, processes>>

IsOver(r) == requests[r].phase \in {"idle", "failed"}

Submit(r, op, actor) ==
    /\ IsOver(r)
    /\ Put(r, [phase |-> "authenticate", op |-> op, actor |-> actor])
    /\ UNCHANGED <<db, audit, processes>>

IsActive(u) == u \in Rows(db.users) /\ db.users[u].active

(* The rank read here is used to the end: the session keeps the object.    *)
Authenticate(r) ==
    /\ requests[r].phase = "authenticate"
    /\ LET u == requests[r].actor IN
       \/ ~IsActive(u) /\ Answer(r, 401)
       \/ IsActive(u) /\ db.users[u].must /\ Answer(r, 403)
       \/ /\ IsActive(u) /\ ~db.users[u].must
          /\ Put(r, [phase |-> "authorize", op |-> requests[r].op, actor |-> u,
                     super |-> db.users[u].super])
          /\ UNCHANGED <<db, audit, processes>>

(* The roles are read once more, and only for an active user; otherwise a  *)
(* ValueError that nothing handles ends the request.                       *)
Authorize(r) ==
    /\ requests[r].phase = "authorize"
    /\ LET u == requests[r].actor
           allowed == \/ requests[r].super
                      \/ Required(requests[r].op.kind) \in CodesOf(db, u)
       IN \/ ~IsActive(u) /\ Answer(r, 500)
          \/ IsActive(u) /\ ~allowed /\ Answer(r, 403)
          \/ /\ IsActive(u) /\ allowed
             /\ Put(r, [phase |-> "handle", op |-> requests[r].op, actor |-> u,
                        super |-> requests[r].super])
             /\ UNCHANGED <<db, audit, processes>>

(* One of several processes: the handler reads what it decides on.         *)
Read(r) ==
    /\ requests[r].phase = "handle"
    /\ processes = "many"
    /\ Put(r, [phase |-> "commit", op |-> requests[r].op, actor |-> requests[r].actor,
               super |-> requests[r].super, seen |-> db])
    /\ UNCHANGED <<db, audit, processes>>

Serves(r, kind) ==
    /\ requests[r].phase = IF processes = "one" THEN "handle" ELSE "commit"
    /\ requests[r].op.kind = kind

Seen(r) == IF processes = "one" THEN db ELSE requests[r].seen

Entry(r) == [kind |-> requests[r].op.kind, actor |-> requests[r].actor]

(* The entry is flushed and committed with the change it is about.         *)
RecordAction(r) ==
    IF requests[r].op.kind \in AuditedKinds \cap Watched THEN audit \cup {Entry(r)} ELSE audit

Commit(r, tables) ==
    /\ db' = tables
    /\ audit' = RecordAction(r)
    /\ Put(r, NoRequest)
    /\ UNCHANGED processes

(* A handler: 404 for what is missing, 409 for what its checks refuse; the *)
(* database then refuses what breaks a constraint, and the status is the   *)
(* one the code makes of that error.                                       *)
Settle(r, missing, refused, breaks, status, tables) ==
    \/ missing /\ Answer(r, 404)
    \/ ~missing /\ refused /\ Answer(r, 409)
    \/ ~missing /\ ~refused /\ breaks /\ Answer(r, status)
    \/ ~missing /\ ~refused /\ ~breaks /\ Commit(r, tables)

(* The session writes the fields whose value differs from what it read.    *)
Written(saw, new, now) == IF new = saw THEN now ELSE new
=============================================================================
