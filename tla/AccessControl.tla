--------------------------- MODULE AccessControl ---------------------------
(* Users, roles, permissions and menus: UserService and RBACService, one   *)
(* action per operation.  s is what the handler saw, o the operation.      *)
EXTENDS AdminStore

IsNameTaken(d, u) == \E v \in Rows(d.users) : v # u /\ UserName[v] = UserName[u]

IsRoleCodeTaken(d, x) == \E y \in Rows(d.roles) : y # x /\ RoleCode[y] = RoleCode[x]

IsCodeTaken(d, p, code) ==
    \E q \in Rows(d.permissions) : q # p /\ d.permissions[q].code = code

ActiveSuperusers(d) == {u \in Rows(d.users) : d.users[u].super /\ d.users[u].active}

(* Mutant: superusers who are switched off are counted.                    *)
CountsEverySuperuser(d, u) ==
    /\ d.users[u].super
    /\ d.users[u].active
    /\ Cardinality({v \in Rows(d.users) : d.users[v].super}) <= 1

IsLastSuperuser(d, u) ==
    /\ d.users[u].super
    /\ d.users[u].active
    /\ Cardinality(ActiveSuperusers(d)) <= 1

(* The parents of all rows exist: only then can the tree be built.         *)
BuildsMenuTree(rows, d) == \A m \in rows : d.menus[m].parent \in rows \cup {None}

-----------------------------------------------------------------------------
(* UserService.                                                            *)

CreateUser(r) ==
    /\ Serves(r, "create_user")
    /\ LET o == requests[r].op
           s == Seen(r)
       IN Settle(r, ~IsNameTaken(s, o.user) /\ ~(o.roles \subseteq Rows(s.roles)),
                 IsNameTaken(s, o.user),
                 IsNameTaken(db, o.user) \/ ~(o.roles \subseteq Rows(db.roles)), 500,
                 [db EXCEPT !.users[o.user] =
                     [active |-> TRUE, super |-> o.super, must |-> FALSE, roles |-> o.roles]])

(* Only a demotion is checked, and only of one who is a superuser.  One's  *)
(* own row is the object read when the request was authenticated, and a    *)
(* field that keeps its value is not written.                              *)
UpdateUser(r) ==
    /\ Serves(r, "update_user")
    /\ LET o == requests[r].op
           s == Seen(r)
           self == o.user = requests[r].actor
           super == IF self THEN requests[r].super ELSE s.users[o.user].super
       IN Settle(r, o.user \notin Rows(s.users),
                 super /\ ~o.super /\ (self \/ IsLastSuperuser(s, o.user)),
                 o.user \notin Rows(db.users), 500,
                 [db EXCEPT !.users[o.user].super = Written(super, o.super, @)])

UpdateUserStatus(r) ==
    /\ Serves(r, "user_status")
    /\ LET o == requests[r].op
           s == Seen(r)
           self == o.user = requests[r].actor
       IN Settle(r, o.user \notin Rows(s.users),
                 ~o.active /\ (self \/ IsLastSuperuser(s, o.user)),
                 o.user \notin Rows(db.users), 500,
                 [db EXCEPT !.users[o.user].active =
                     Written(self \/ s.users[o.user].active, o.active, @)])

ResetPassword(r) ==
    /\ Serves(r, "reset_password")
    /\ LET o == requests[r].op IN
       Settle(r, o.user \notin Rows(Seen(r).users), FALSE,
              o.user \notin Rows(db.users), 500,
              [db EXCEPT !.users[o.user].must =
                  Written(Seen(r).users[o.user].must, TRUE, @)])

(* A set of links is replaced by deleting and inserting single links: one  *)
(* that is inserted twice breaks the key of its table, and one that is     *)
(* deleted twice may be noticed.                                           *)
Relinked(saw, new, now) == (now \ (saw \ new)) \cup (new \ saw)

Relink(r, missing, saw, new, now, targets, tables) ==
    \/ Settle(r, missing, FALSE,
              now = {Gone} \/ (new \ saw) \cap now # {} \/ ~(new \ saw \subseteq targets),
              500, tables)
    \/ ~missing /\ ~(saw \ new \subseteq now) /\ Answer(r, 500)

AssignRoles(r) ==
    /\ Serves(r, "assign_roles")
    /\ LET o == requests[r].op
           s == Seen(r)
           saw == s.users[o.user].roles
           now == IF o.user \in Rows(db.users) THEN db.users[o.user].roles ELSE {Gone}
       IN Relink(r, o.user \notin Rows(s.users) \/ ~(o.roles \subseteq Rows(s.roles)),
                 saw, o.roles, now, Rows(db.roles),
                 [db EXCEPT !.users[o.user].roles = Relinked(saw, o.roles, now)])

DeleteUser(r) ==
    /\ Serves(r, "delete_user")
    /\ LET o == requests[r].op
           s == Seen(r)
       IN Settle(r, o.user \notin Rows(s.users),
                 o.user = requests[r].actor \/ IsLastSuperuser(s, o.user), FALSE, 500,
                 [db EXCEPT !.users[o.user] = Gone])

(* Outside the console: the user replaces a password that was set for him. *)
ChangePassword(u) ==
    /\ IsActive(u) /\ db.users[u].must
    /\ db' = [db EXCEPT !.users[u].must = FALSE]
    /\ UNCHANGED <<audit, requests, processes>>

-----------------------------------------------------------------------------
(* RBACService: codes are unique in the database only.                     *)

CreateRole(r) ==
    /\ Serves(r, "create_role")
    /\ LET x == requests[r].op.role IN
       Settle(r, FALSE, FALSE, IsRoleCodeTaken(db, x), 500,
              [db EXCEPT !.roles[x] =
                  [system |-> FALSE, permissions |-> {}, menus |-> {}]])

(* Name and description only.                                              *)
UpdateRole(r) ==
    /\ Serves(r, "update_role")
    /\ LET x == requests[r].op.role IN
       Settle(r, x \notin Rows(Seen(r).roles), FALSE, x \notin Rows(db.roles), 500, db)

Dismissed(users, x) ==
    [u \in Users |-> IF users[u] \in NoRow THEN users[u]
                     ELSE [users[u] EXCEPT !.roles = @ \ {x}]]

DeleteRole(r) ==
    /\ Serves(r, "delete_role")
    /\ LET x == requests[r].op.role
           s == Seen(r)
       IN Settle(r, x \notin Rows(s.roles), s.roles[x].system, FALSE, 500,
                 [db EXCEPT !.roles[x] = Gone, !.users = Dismissed(db.users, x)])

AssignPermissions(r) ==
    /\ Serves(r, "assign_permissions")
    /\ LET o == requests[r].op
           s == Seen(r)
           saw == s.roles[o.role].permissions
           now == IF o.role \in Rows(db.roles) THEN db.roles[o.role].permissions ELSE {Gone}
       IN Relink(r, o.role \notin Rows(s.roles) \/ ~(o.permissions \subseteq Rows(s.permissions)),
                 saw, o.permissions, now, Rows(db.permissions),
                 [db EXCEPT !.roles[o.role].permissions = Relinked(saw, o.permissions, now)])

AssignMenus(r) ==
    /\ Serves(r, "assign_menus")
    /\ LET o == requests[r].op
           s == Seen(r)
           saw == s.roles[o.role].menus
           now == IF o.role \in Rows(db.roles) THEN db.roles[o.role].menus ELSE {Gone}
       IN Relink(r, o.role \notin Rows(s.roles) \/ ~(o.menus \subseteq Rows(s.menus)),
                 saw, o.menus, now, Rows(db.menus),
                 [db EXCEPT !.roles[o.role].menus = Relinked(saw, o.menus, now)])

CreatePermission(r) ==
    /\ Serves(r, "create_permission")
    /\ LET o == requests[r].op IN
       Settle(r, FALSE, FALSE, IsCodeTaken(db, o.permission, o.code), 500,
              [db EXCEPT !.permissions[o.permission] = [system |-> FALSE, code |-> o.code]])

(* The code may change as well, of a system permission too.                *)
UpdatePermission(r) ==
    /\ Serves(r, "update_permission")
    /\ LET o == requests[r].op IN
       Settle(r, o.permission \notin Rows(Seen(r).permissions), FALSE,
              \/ o.permission \notin Rows(db.permissions)
              \/ /\ o.code # Seen(r).permissions[o.permission].code
                 /\ IsCodeTaken(db, o.permission, o.code), 500,
              [db EXCEPT !.permissions[o.permission].code =
                  Written(Seen(r).permissions[o.permission].code, o.code, @)])

WithoutPermission(roles, p) ==
    [x \in Roles |-> IF roles[x] \in NoRow THEN roles[x]
                     ELSE [roles[x] EXCEPT !.permissions = @ \ {p}]]

DeletePermission(r) ==
    /\ Serves(r, "delete_permission")
    /\ LET p == requests[r].op.permission
           s == Seen(r)
       IN Settle(r, p \notin Rows(s.permissions), s.permissions[p].system, FALSE, 500,
                 [db EXCEPT !.permissions[p] = Gone,
                            !.roles = WithoutPermission(db.roles, p)])

-----------------------------------------------------------------------------
(* Menus: a parent has to exist, nothing else.                             *)

CreateMenu(r) ==
    /\ Serves(r, "create_menu")
    /\ LET o == requests[r].op IN
       Settle(r, o.parent \notin Rows(Seen(r).menus) \cup {None}, FALSE,
              o.parent \notin Rows(db.menus) \cup {None}, 500,
              [db EXCEPT !.menus[o.menu] =
                  [system |-> FALSE, parent |-> o.parent, path |-> o.path]])

UpdateMenu(r) ==
    /\ Serves(r, "update_menu")
    /\ LET o == requests[r].op
           s == Seen(r)
       IN Settle(r, o.menu \notin Rows(s.menus) \/ o.parent \notin Rows(s.menus) \cup {None}, FALSE,
                 \/ o.menu \notin Rows(db.menus)
                 \/ /\ o.parent # s.menus[o.menu].parent
                    /\ o.parent \notin Rows(db.menus) \cup {None}, 500,
                 [db EXCEPT
                     !.menus[o.menu].parent = Written(s.menus[o.menu].parent, o.parent, @),
                     !.menus[o.menu].path = Written(s.menus[o.menu].path, o.path, @)])

(* The children of a deleted menu become roots.                            *)
Orphaned(menus, m) ==
    [n \in Menus |-> CASE n = m -> Gone
                       [] n # m /\ menus[n] \notin NoRow /\ menus[n].parent = m ->
                              [menus[n] EXCEPT !.parent = None]
                       [] OTHER -> menus[n]]

WithoutMenu(roles, m) ==
    [x \in Roles |-> IF roles[x] \in NoRow THEN roles[x]
                     ELSE [roles[x] EXCEPT !.menus = @ \ {m}]]

DeleteMenu(r) ==
    /\ Serves(r, "delete_menu")
    /\ LET m == requests[r].op.menu
           s == Seen(r)
       IN Settle(r, m \notin Rows(s.menus), s.menus[m].system, FALSE, 500,
                 [db EXCEPT !.menus = Orphaned(db.menus, m),
                            !.roles = WithoutMenu(db.roles, m)])
=============================================================================
