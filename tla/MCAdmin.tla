------------------------------- MODULE MCAdmin -------------------------------
(* Instances of AdminConsole for TLC: agendas of a few operations each that *)
(* meet in the same rows, over a console that has been started, one that   *)
(* lacks some of its seeds, and an empty database.                         *)
EXTENDS AdminConsole, TLC

CONSTANTS a, b, c, superAdmin, dev, dev2, seeded, custom, custom2, fresh1,
          system, people, page, extra, more, t1, t2, t3, p1, p2, m1, m2, bot, s1, s2

Names == a :> "admin" @@ b :> "bea" @@ c :> "bea"

Codes == superAdmin :> "super_admin" @@ dev :> "dev" @@ dev2 :> "dev"

MenuOrder == <<"/system", "/system/users">>

Parents == "/system" :> None @@ "/system/users" :> "/system"

Menu(isSystem, parent, path) == [system |-> isSystem, parent |-> parent, path |-> path]

User(isSuper, roles) == [active |-> TRUE, super |-> isSuper, must |-> FALSE, roles |-> roles]

Role(isSystem, permissions, menus) ==
    [system |-> isSystem, permissions |-> permissions, menus |-> menus]

Empty ==
    [users |-> [u \in Users |-> Unborn], roles |-> [x \in Roles |-> Unborn],
     permissions |-> [p \in Permissions |-> Unborn], menus |-> [m \in Menus |-> Unborn],
     templates |-> [t \in Templates |-> Unborn], projects |-> [p \in Projects |-> Unborn],
     models |-> [m \in Models |-> Unborn], bots |-> [x \in Bots |-> Unborn]]

Base ==
    [Empty EXCEPT
        !.users = a :> User(TRUE, {superAdmin}) @@ b :> User(FALSE, {dev}) @@ @,
        !.roles = superAdmin :> Role(TRUE, {}, {}) @@ dev :> Role(FALSE, {seeded}, {people}) @@ @,
        !.permissions = seeded :> [system |-> TRUE, code |-> "user:status"] @@
                        custom :> [system |-> FALSE, code |-> "custom"] @@ @,
        !.menus = system :> Menu(TRUE, None, "/system") @@
                  people :> Menu(TRUE, system, "/system/users") @@
                  page :> Menu(FALSE, system, "/page") @@ @,
        !.templates = t1 :> [system |-> TRUE, active |-> TRUE, code |-> "seed"] @@
                      t2 :> [system |-> FALSE, active |-> TRUE, code |-> "own"] @@ @,
        !.projects = p1 :> [active |-> TRUE, template |-> t2, key |-> "one"] @@ @,
        !.models = m1 :> [default |-> FALSE, active |-> TRUE] @@ @,
        !.bots = @]

TwoSuperusers == [Base EXCEPT !.users[b].super = TRUE]

(* A version of the console that did not have these seeds yet, and a page  *)
(* somebody put where one of them goes.                                    *)
Older ==
    [Base EXCEPT !.menus[system] = Unborn, !.menus[people] = Unborn,
                 !.menus[page] = Menu(FALSE, None, "/system/users"),
                 !.roles[dev].menus = {}, !.permissions[seeded] = Unborn,
                 !.roles[dev].permissions = {}, !.templates[t1] = Unborn,
                 !.users[a].roles = {}]

(* A console of one process, and one of several where the operations meet  *)
(* in all orders until the requests are used up.                           *)
One(tables, ops, actors) ==
    [tables |-> tables, processes |-> "one", ops |-> ops, actors |-> actors,
     budget |-> None, starters |-> {}]

Many(tables, ops, actors, budget, starters) ==
    [tables |-> tables, processes |-> "many", ops |-> ops, actors |-> actors,
     budget |-> budget, starters |-> starters]

Status(kind, id, field) == {[kind |-> kind, active |-> on] @@ (field :> id) : on \in BOOLEAN}

SuperuserOps ==
    {[kind |-> "update_user", user |-> u, super |-> FALSE] : u \in {a, b}} \cup
    {[kind |-> "user_status", user |-> u, active |-> FALSE] : u \in {a, b}} \cup
    {[kind |-> "delete_user", user |-> u] : u \in {a, b}} \cup
    {[kind |-> "update_user", user |-> b, super |-> TRUE]}

UserOps ==
    {[kind |-> "create_user", user |-> c, super |-> FALSE, roles |-> {dev}],
     [kind |-> "delete_user", user |-> b], [kind |-> "reset_password", user |-> b],
     [kind |-> "assign_roles", user |-> b, roles |-> {dev, superAdmin}],
     [kind |-> "assign_roles", user |-> b, roles |-> {}],
     [kind |-> "delete_role", role |-> dev]}

RoleOps ==
    {[kind |-> "create_role", role |-> dev2], [kind |-> "update_role", role |-> dev],
     [kind |-> "delete_role", role |-> dev], [kind |-> "delete_role", role |-> superAdmin],
     [kind |-> "assign_permissions", role |-> dev, permissions |-> {custom}],
     [kind |-> "delete_permission", permission |-> custom]}

RightsOps ==
    {[kind |-> "user_status", user |-> a, active |-> FALSE],
     [kind |-> "assign_permissions", role |-> dev, permissions |-> {}],
     [kind |-> "create_permission", permission |-> custom2, code |-> "user:status"],
     [kind |-> "update_permission", permission |-> seeded, code |-> "other"],
     [kind |-> "purge_audit"]}

MenuOps ==
    {[kind |-> "create_menu", menu |-> extra, parent |-> page, path |-> "/extra"],
     [kind |-> "update_menu", menu |-> page, parent |-> None, path |-> "/page"],
     [kind |-> "update_menu", menu |-> system, parent |-> page, path |-> "/system"],
     [kind |-> "delete_menu", menu |-> page],
     [kind |-> "assign_menus", role |-> dev, menus |-> {people, page}]}

PathOps ==
    {[kind |-> "update_menu", menu |-> page, parent |-> None, path |-> "/system"],
     [kind |-> "delete_menu", menu |-> page],
     [kind |-> "update_permission", permission |-> custom, code |-> "user:status"],
     [kind |-> "assign_roles", user |-> a, roles |-> {superAdmin}],
     [kind |-> "update_template", template |-> t2, code |-> "seed"]}

ProjectOps ==
    {[kind |-> "create_project", project |-> p2, template |-> t2, key |-> "two"],
     [kind |-> "update_project", project |-> p1, template |-> None, key |-> "two"],
     [kind |-> "update_project", project |-> p1, template |-> t2, key |-> "one"],
     [kind |-> "delete_template", template |-> t2]}
        \cup Status("project_status", p1, "project") \cup Status("template_status", t2, "template")

TemplateOps ==
    {[kind |-> "create_template", template |-> t3, active |-> FALSE, code |-> "new"],
     [kind |-> "update_template", template |-> t2, code |-> "new"],
     [kind |-> "update_project", project |-> p1, template |-> t3, key |-> "one"],
     [kind |-> "delete_project", project |-> p1],
     [kind |-> "delete_template", template |-> t3]}

ModelOps ==
    {[kind |-> "create_model", model |-> m2, default |-> TRUE, active |-> TRUE],
     [kind |-> "update_model", model |-> m1, default |-> TRUE, active |-> TRUE],
     [kind |-> "update_model", model |-> m1, default |-> FALSE, active |-> FALSE]}
        \cup Status("model_status", m2, "model")

BotOps ==
    {[kind |-> "create_bot", bot |-> bot, active |-> TRUE],
     [kind |-> "update_bot", bot |-> bot, active |-> FALSE],
     [kind |-> "test_bot", bot |-> bot], [kind |-> "purge_audit"],
     [kind |-> "reset_password", user |-> b]}
        \cup Status("bot_status", bot, "bot")

SomeAgendas ==
    {One(TwoSuperusers, SuperuserOps, {a, b}), One(Base, UserOps, {a, b}),
     One(Base, RoleOps, {a}), One(Base, RightsOps, {a, b}), One(Base, MenuOps, {a}),
     One(Older, PathOps, {a}), One(Base, ProjectOps, {a}), One(Base, TemplateOps, {a}),
     One(Base, ModelOps, {a}), One(Base, BotOps, {a}), One(Empty, {}, {}),
     Many(TwoSuperusers, SuperuserOps, {a}, 2, {}), Many(Base, UserOps, {a}, 3, {}),
     Many(Base, RoleOps, {a}, 3, {}), Many(Base, RightsOps, {a}, 2, {}),
     Many(Base, MenuOps, {a}, 3, {}), Many(Older, PathOps, {a}, 2, {s1}),
     Many(Base, ProjectOps, {a}, 3, {}), Many(Base, TemplateOps, {a}, 3, {}),
     Many(Base, ModelOps, {a}, 3, {}), Many(Base, BotOps, {a}, 2, {}),
     Many(Empty, {}, {}, 0, {s1, s2})}
=============================================================================
