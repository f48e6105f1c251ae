------------------------- MODULE AdminConsoleProofs -------------------------
(* The tables of the console agree, whatever requests and starts of any    *)
(* number of processes do at once.  Tables that agree and are left by a    *)
(* transaction are related to what it found by Carries; each operation and *)
(* each start is shown to carry the tables on, from what it checked, from  *)
(* the constraints of the database, and from what is true of every older   *)
(* state: models and bots are never deleted, and a free id was free.  What *)
(* a transaction has seen stays older (IsOlder) when others commit, and    *)
(* this is the part of AdminInvariant that makes it inductive.             *)
EXTENDS AdminConsole, TLAPS, FiniteSetTheorems

(* What the session writes of a field is the new value or the one that is  *)
(* there.                                                                  *)
LEMMA WrittenIsEither ==
    ASSUME NEW S, NEW saw, NEW new \in S, NEW now \in S
    PROVE  Written(saw, new, now) \in S
BY DEF Written

(* The fields of a user.                                                   *)
LEMMA UserRows ==
    ASSUME NEW row \in UserRow
    PROVE  /\ row.active \in BOOLEAN /\ row.super \in BOOLEAN /\ row.must \in BOOLEAN
           /\ row.roles \subseteq Roles
BY DEF UserRow

(* A user built from such fields is a row.                                 *)
LEMMA NewUserRow ==
    ASSUME NEW active \in BOOLEAN, NEW super \in BOOLEAN, NEW must \in BOOLEAN,
           NEW roles \in SUBSET Roles
    PROVE  LET row == [active |-> active, super |-> super, must |-> must, roles |-> roles]
           IN row \in UserRow /\ row.roles = roles
BY DEF UserRow

(* A user stays a row with the same roles when a flag of his is set.       *)
LEMMA ChangedUserRow ==
    ASSUME NEW row \in UserRow, NEW flag \in BOOLEAN
    PROVE  /\ [row EXCEPT !.active = flag] \in UserRow
           /\ [row EXCEPT !.active = flag].roles = row.roles
           /\ [row EXCEPT !.super = flag] \in UserRow
           /\ [row EXCEPT !.super = flag].roles = row.roles
           /\ [row EXCEPT !.must = flag] \in UserRow
           /\ [row EXCEPT !.must = flag].roles = row.roles
BY DEF UserRow

(* A user stays a row when his roles are replaced.                         *)
LEMMA ChangedUserRoles ==
    ASSUME NEW row \in UserRow, NEW roles \in SUBSET Roles
    PROVE  /\ [row EXCEPT !.roles = roles] \in UserRow
           /\ [row EXCEPT !.roles = roles].roles = roles
BY DEF UserRow

(* The tables, each with its rows.                                         *)
LEMMA TableFields ==
    ASSUME NEW d \in Tables
    PROVE  /\ d.users \in [Users -> UserRow \cup NoRow]
           /\ d.roles \in [Roles -> RoleRow \cup NoRow]
           /\ d.permissions \in [Permissions -> PermissionRow \cup NoRow]
           /\ d.menus \in [Menus -> MenuRow \cup NoRow]
           /\ d.templates \in [Templates -> TemplateRow \cup NoRow]
           /\ d.projects \in [Projects -> ProjectRow \cup NoRow]
           /\ d.models \in [Models -> ModelRow \cup NoRow]
           /\ d.bots \in [Bots -> BotRow \cup NoRow]
BY DEF Tables

(* A transaction finds d and leaves e.                                     *)
Carries(d, e) ==
    /\ e \in Tables /\ Agree(e)
    /\ d \in Tables => IsOlder(d, e)

(* A row is put into the table of users.                                   *)
LEMMA UsersPut ==
    ASSUME NEW d \in Tables, NEW u \in Users, NEW row \in UserRow \cup NoRow
    PROVE  LET e == [d EXCEPT !.users[u] = row] IN
           /\ e \in Tables
           /\ e.users = [d.users EXCEPT ![u] = row]
           /\ e.roles = d.roles /\ e.permissions = d.permissions /\ e.menus = d.menus
           /\ e.templates = d.templates /\ e.projects = d.projects /\ e.models = d.models
           /\ e.bots = d.bots
BY DEF Tables

(* A user may be written, or deleted, if his roles are there and his name  *)
(* is his.                                                                 *)
LEMMA PutUser ==
    ASSUME NEW d \in Tables, Agree(d), NEW u \in Users, NEW row \in UserRow \cup NoRow,
           row \in UserRow => /\ row.roles \subseteq Rows(d.roles)
                              /\ u \in Rows(d.users) \/ ~IsNameTaken(d, u)
    PROVE  Carries(d, [d EXCEPT !.users[u] = row])
<1> DEFINE e == [d EXCEPT !.users[u] = row]
<1>1. /\ e \in Tables
      /\ e.users = [d.users EXCEPT ![u] = row]
      /\ e.roles = d.roles /\ e.permissions = d.permissions /\ e.menus = d.menus
      /\ e.templates = d.templates /\ e.projects = d.projects /\ e.models = d.models
      /\ e.bots = d.bots
  BY UsersPut
<1> HIDE DEF e
<1>2. d.users \in [Users -> UserRow \cup NoRow]
  BY TableFields
<1>3. NamesAreUnique(e)
  BY <1>1, <1>2, RowAssumption DEF Agree, NamesAreUnique, Rows, IsNameTaken
<1>4. UsersHaveRoles(e)
  BY <1>1, <1>2, RowAssumption DEF Agree, UsersHaveRoles, Rows, IsNameTaken
<1>5. Agree(e)
  BY <1>1, <1>3, <1>4 DEF Agree, RoleCodesAreUnique, PermissionCodesAreUnique,
     TemplateCodesAreUnique, KeysAreUnique, OneDefault, RolesHaveRights,
     ProjectsHaveTemplates, BuildsMenuTree, Defaults, IsMissing
<1>6. Carries(d, e)
  BY <1>1, <1>2, <1>5, RowAssumption DEF Carries, IsOlder, Rows, NoRow
<1> QED
  BY <1>6 DEF e

(* A row is put into the table of roles.                                   *)
LEMMA RolesPut ==
    ASSUME NEW d \in Tables, NEW x \in Roles, NEW row \in RoleRow \cup NoRow
    PROVE  LET e == [d EXCEPT !.roles[x] = row] IN
           /\ e \in Tables
           /\ e.roles = [d.roles EXCEPT ![x] = row]
           /\ e.users = d.users /\ e.permissions = d.permissions /\ e.menus = d.menus
           /\ e.templates = d.templates /\ e.projects = d.projects /\ e.models = d.models
           /\ e.bots = d.bots
BY DEF Tables

(* A role may be written if its code is its own, and its permissions and   *)
(* menus are there.                                                        *)
LEMMA PutRole ==
    ASSUME NEW d \in Tables, Agree(d), NEW x \in Roles, NEW row \in RoleRow,
           x \in Rows(d.roles) \/ ~IsRoleCodeTaken(d, x),
           row.permissions \subseteq Rows(d.permissions),
           row.menus \subseteq Rows(d.menus)
    PROVE  Carries(d, [d EXCEPT !.roles[x] = row])
<1> DEFINE e == [d EXCEPT !.roles[x] = row]
<1>1. /\ e \in Tables
      /\ e.roles = [d.roles EXCEPT ![x] = row]
      /\ e.users = d.users /\ e.permissions = d.permissions /\ e.menus = d.menus
      /\ e.templates = d.templates /\ e.projects = d.projects /\ e.models = d.models
      /\ e.bots = d.bots
  BY RolesPut
<1> HIDE DEF e
<1>2. d.roles \in [Roles -> RoleRow \cup NoRow]
  BY TableFields
<1>3. UsersHaveRoles(e)
  BY <1>1, <1>2, RowAssumption DEF Agree, UsersHaveRoles, Rows
<1>4. RolesHaveRights(e)
  BY <1>1, <1>2, RowAssumption DEF Agree, RolesHaveRights, Rows
<1>5. RoleCodesAreUnique(e)
  BY <1>1, <1>2, RowAssumption DEF Agree, RoleCodesAreUnique, Rows, IsRoleCodeTaken
<1>6. Agree(e)
  BY <1>1, <1>3, <1>4, <1>5 DEF Agree, NamesAreUnique, PermissionCodesAreUnique,
     TemplateCodesAreUnique, KeysAreUnique, OneDefault, ProjectsHaveTemplates, BuildsMenuTree,
     Defaults, IsMissing
<1>7. Carries(d, e)
  BY <1>1, <1>2, <1>6, RowAssumption DEF Carries, IsOlder, Rows, NoRow
<1> QED
  BY <1>7 DEF e

(* A row is put into the table of permissions.                             *)
LEMMA PermissionsPut ==
    ASSUME NEW d \in Tables, NEW p \in Permissions, NEW row \in PermissionRow \cup NoRow
    PROVE  LET e == [d EXCEPT !.permissions[p] = row] IN
           /\ e \in Tables
           /\ e.permissions = [d.permissions EXCEPT ![p] = row]
           /\ e.users = d.users /\ e.roles = d.roles /\ e.menus = d.menus
           /\ e.templates = d.templates /\ e.projects = d.projects /\ e.models = d.models
           /\ e.bots = d.bots
BY DEF Tables

(* A permission may be written if its code is its own.                     *)
LEMMA PutPermission ==
    ASSUME NEW d \in Tables, Agree(d), NEW p \in Permissions, NEW row \in PermissionRow,
           ~IsCodeTaken(d, p, row.code)
    PROVE  Carries(d, [d EXCEPT !.permissions[p] = row])
<1> DEFINE e == [d EXCEPT !.permissions[p] = row]
<1>1. /\ e \in Tables
      /\ e.permissions = [d.permissions EXCEPT ![p] = row]
      /\ e.users = d.users /\ e.roles = d.roles /\ e.menus = d.menus /\ e.templates = d.templates
      /\ e.projects = d.projects /\ e.models = d.models /\ e.bots = d.bots
  BY PermissionsPut
<1> HIDE DEF e
<1>2. d.permissions \in [Permissions -> PermissionRow \cup NoRow]
  BY TableFields
<1>3. PermissionCodesAreUnique(e)
  BY <1>1, <1>2, RowAssumption DEF Agree, PermissionCodesAreUnique, Rows, IsCodeTaken
<1>4. RolesHaveRights(e)
  BY <1>1, <1>2, RowAssumption DEF Agree, RolesHaveRights, Rows, IsCodeTaken
<1>5. Agree(e)
  BY <1>1, <1>3, <1>4 DEF Agree, RoleCodesAreUnique, NamesAreUnique, TemplateCodesAreUnique,
     KeysAreUnique, OneDefault, UsersHaveRoles, ProjectsHaveTemplates, BuildsMenuTree,
     Defaults, IsMissing
<1>6. Carries(d, e)
  BY <1>1, <1>2, <1>5, RowAssumption DEF Carries, IsOlder, Rows, NoRow
<1> QED
  BY <1>6 DEF e

(* A row is put into the table of menus.                                   *)
LEMMA MenusPut ==
    ASSUME NEW d \in Tables, NEW m \in Menus, NEW row \in MenuRow \cup NoRow
    PROVE  LET e == [d EXCEPT !.menus[m] = row] IN
           /\ e \in Tables
           /\ e.menus = [d.menus EXCEPT ![m] = row]
           /\ e.users = d.users /\ e.roles = d.roles /\ e.permissions = d.permissions
           /\ e.templates = d.templates /\ e.projects = d.projects /\ e.models = d.models
           /\ e.bots = d.bots
BY DEF Tables

(* A menu may be written if its parent is there.                           *)
LEMMA PutMenu ==
    ASSUME NEW d \in Tables, Agree(d), NEW m \in Menus, NEW row \in MenuRow,
           row.parent \in Rows(d.menus) \cup {None}
    PROVE  Carries(d, [d EXCEPT !.menus[m] = row])
<1> DEFINE e == [d EXCEPT !.menus[m] = row]
<1>1. /\ e \in Tables
      /\ e.menus = [d.menus EXCEPT ![m] = row]
      /\ e.users = d.users /\ e.roles = d.roles /\ e.permissions = d.permissions
      /\ e.templates = d.templates /\ e.projects = d.projects /\ e.models = d.models
      /\ e.bots = d.bots
  BY MenusPut
<1> HIDE DEF e
<1>2. d.menus \in [Menus -> MenuRow \cup NoRow]
  BY TableFields
<1>3. RolesHaveRights(e)
  BY <1>1, <1>2, RowAssumption DEF Agree, RolesHaveRights, Rows
<1>4. BuildsMenuTree(Rows(e.menus), e)
  BY <1>1, <1>2, RowAssumption DEF Agree, BuildsMenuTree, Rows
<1>5. Agree(e)
  BY <1>1, <1>3, <1>4 DEF Agree, RoleCodesAreUnique, NamesAreUnique,
     PermissionCodesAreUnique, TemplateCodesAreUnique, KeysAreUnique, OneDefault,
     UsersHaveRoles, ProjectsHaveTemplates, Defaults, IsMissing
<1>6. Carries(d, e)
  BY <1>1, <1>2, <1>5, RowAssumption DEF Carries, IsOlder, Rows, NoRow
<1> QED
  BY <1>6 DEF e

(* A row is put into the table of templates.                               *)
LEMMA TemplatesPut ==
    ASSUME NEW d \in Tables, NEW t \in Templates, NEW row \in TemplateRow \cup NoRow
    PROVE  LET e == [d EXCEPT !.templates[t] = row] IN
           /\ e \in Tables
           /\ e.templates = [d.templates EXCEPT ![t] = row]
           /\ e.users = d.users /\ e.roles = d.roles /\ e.permissions = d.permissions
           /\ e.menus = d.menus /\ e.projects = d.projects /\ e.models = d.models
           /\ e.bots = d.bots
BY DEF Tables

(* A template may be written if its code is its own.                       *)
LEMMA PutTemplate ==
    ASSUME NEW d \in Tables, Agree(d), NEW t \in Templates, NEW row \in TemplateRow,
           ~IsTemplateCodeTaken(d, t, row.code)
    PROVE  Carries(d, [d EXCEPT !.templates[t] = row])
<1> DEFINE e == [d EXCEPT !.templates[t] = row]
<1>1. /\ e \in Tables
      /\ e.templates = [d.templates EXCEPT ![t] = row]
      /\ e.users = d.users /\ e.roles = d.roles /\ e.permissions = d.permissions
      /\ e.menus = d.menus /\ e.projects = d.projects /\ e.models = d.models /\ e.bots = d.bots
  BY TemplatesPut
<1> HIDE DEF e
<1>2. d.templates \in [Templates -> TemplateRow \cup NoRow]
  BY TableFields
<1>3. TemplateCodesAreUnique(e)
  BY <1>1, <1>2, RowAssumption DEF Agree, TemplateCodesAreUnique, Rows, IsTemplateCodeTaken
<1>4. ProjectsHaveTemplates(e)
  BY <1>1, <1>2, RowAssumption DEF Agree, ProjectsHaveTemplates, Rows, IsMissing,
     IsTemplateCodeTaken
<1>5. Agree(e)
  BY <1>1, <1>3, <1>4 DEF Agree, RoleCodesAreUnique, NamesAreUnique,
     PermissionCodesAreUnique, KeysAreUnique, OneDefault, UsersHaveRoles, RolesHaveRights,
     BuildsMenuTree, Defaults
<1>6. Carries(d, e)
  BY <1>1, <1>2, <1>5, RowAssumption DEF Carries, IsOlder, Rows, NoRow
<1> QED
  BY <1>6 DEF e

(* A row is put into the table of projects.                                *)
LEMMA ProjectsPut ==
    ASSUME NEW d \in Tables, NEW p \in Projects, NEW row \in ProjectRow \cup NoRow
    PROVE  LET e == [d EXCEPT !.projects[p] = row] IN
           /\ e \in Tables
           /\ e.projects = [d.projects EXCEPT ![p] = row]
           /\ e.users = d.users /\ e.roles = d.roles /\ e.permissions = d.permissions
           /\ e.menus = d.menus /\ e.templates = d.templates /\ e.models = d.models
           /\ e.bots = d.bots
BY DEF Tables

(* A project may be written, or deleted, if its template is there and its  *)
(* key is its own.                                                         *)
LEMMA PutProject ==
    ASSUME NEW d \in Tables, Agree(d), NEW p \in Projects, NEW row \in ProjectRow \cup NoRow,
           row \in ProjectRow => /\ ~IsMissing(d, row.template)
                                 /\ ~IsKeyTaken(d, p, row.key)
    PROVE  Carries(d, [d EXCEPT !.projects[p] = row])
<1> DEFINE e == [d EXCEPT !.projects[p] = row]
<1>1. /\ e \in Tables
      /\ e.projects = [d.projects EXCEPT ![p] = row]
      /\ e.users = d.users /\ e.roles = d.roles /\ e.permissions = d.permissions
      /\ e.menus = d.menus /\ e.templates = d.templates /\ e.models = d.models /\ e.bots = d.bots
  BY ProjectsPut
<1> HIDE DEF e
<1>2. d.projects \in [Projects -> ProjectRow \cup NoRow]
  BY TableFields
<1>3. KeysAreUnique(e)
  BY <1>1, <1>2, RowAssumption DEF Agree, KeysAreUnique, Rows, IsKeyTaken, IsMissing
<1>4. ProjectsHaveTemplates(e)
  BY <1>1, <1>2, RowAssumption DEF Agree, ProjectsHaveTemplates, Rows, IsKeyTaken, IsMissing
<1>5. Agree(e)
  BY <1>1, <1>3, <1>4 DEF Agree, RoleCodesAreUnique, NamesAreUnique,
     PermissionCodesAreUnique, TemplateCodesAreUnique, OneDefault, UsersHaveRoles,
     RolesHaveRights, BuildsMenuTree, Defaults
<1>6. Carries(d, e)
  BY <1>1, <1>2, <1>5, RowAssumption DEF Carries, IsOlder, Rows, NoRow
<1> QED
  BY <1>6 DEF e

(* A row is put into the table of models.                                  *)
LEMMA ModelsPut ==
    ASSUME NEW d \in Tables, NEW m \in Models, NEW row \in ModelRow \cup NoRow
    PROVE  LET e == [d EXCEPT !.models[m] = row] IN
           /\ e \in Tables
           /\ e.models = [d.models EXCEPT ![m] = row]
           /\ e.users = d.users /\ e.roles = d.roles /\ e.permissions = d.permissions
           /\ e.menus = d.menus /\ e.templates = d.templates /\ e.projects = d.projects
           /\ e.bots = d.bots
BY DEF Tables

(* A model may be written if it is not a second default.                   *)
LEMMA PutModel ==
    ASSUME NEW d \in Tables, Agree(d), NEW m \in Models, NEW row \in ModelRow,
           row.default => ~HasOtherDefault(d, m)
    PROVE  Carries(d, [d EXCEPT !.models[m] = row])
<1> DEFINE e == [d EXCEPT !.models[m] = row]
<1>1. /\ e \in Tables
      /\ e.models = [d.models EXCEPT ![m] = row]
      /\ e.users = d.users /\ e.roles = d.roles /\ e.permissions = d.permissions
      /\ e.menus = d.menus /\ e.templates = d.templates /\ e.projects = d.projects
      /\ e.bots = d.bots
  BY ModelsPut
<1> HIDE DEF e
<1>2. d.models \in [Models -> ModelRow \cup NoRow]
  BY TableFields
<1>3. OneDefault(e)
  BY <1>1, <1>2, RowAssumption DEF Agree, OneDefault, Rows, Defaults, HasOtherDefault
<1>4. Agree(e)
  BY <1>1, <1>3 DEF Agree, RoleCodesAreUnique, NamesAreUnique, PermissionCodesAreUnique,
     TemplateCodesAreUnique, KeysAreUnique, UsersHaveRoles, RolesHaveRights,
     ProjectsHaveTemplates, BuildsMenuTree, IsMissing
<1>5. Carries(d, e)
  BY <1>1, <1>2, <1>4, RowAssumption DEF Carries, IsOlder, Rows, NoRow
<1> QED
  BY <1>5 DEF e

(* A row is put into the table of bots.                                    *)
LEMMA BotsPut ==
    ASSUME NEW d \in Tables, NEW b \in Bots, NEW row \in BotRow \cup NoRow
    PROVE  LET e == [d EXCEPT !.bots[b] = row] IN
           /\ e \in Tables
           /\ e.bots = [d.bots EXCEPT ![b] = row]
           /\ e.users = d.users /\ e.roles = d.roles /\ e.permissions = d.permissions
           /\ e.menus = d.menus /\ e.templates = d.templates /\ e.projects = d.projects
           /\ e.models = d.models
BY DEF Tables

(* A bot may always be written.                                            *)
LEMMA PutBot ==
    ASSUME NEW d \in Tables, Agree(d), NEW b \in Bots, NEW row \in BotRow
    PROVE  Carries(d, [d EXCEPT !.bots[b] = row])
<1> DEFINE e == [d EXCEPT !.bots[b] = row]
<1>1. /\ e \in Tables
      /\ e.bots = [d.bots EXCEPT ![b] = row]
      /\ e.users = d.users /\ e.roles = d.roles /\ e.permissions = d.permissions
      /\ e.menus = d.menus /\ e.templates = d.templates /\ e.projects = d.projects
      /\ e.models = d.models
  BY BotsPut
<1> HIDE DEF e
<1>2. d.bots \in [Bots -> BotRow \cup NoRow]
  BY TableFields
<1>3. Agree(e)
  BY <1>1 DEF Agree, RoleCodesAreUnique, NamesAreUnique, PermissionCodesAreUnique,
     TemplateCodesAreUnique, KeysAreUnique, OneDefault, UsersHaveRoles, RolesHaveRights,
     ProjectsHaveTemplates, BuildsMenuTree, Defaults, IsMissing
<1>4. Carries(d, e)
  BY <1>1, <1>2, <1>3, RowAssumption DEF Carries, IsOlder, Rows, NoRow
<1> QED
  BY <1>4 DEF e

(* What a handler may rely on: tables that agree, a request that the       *)
(* schemas let through, and an older state of the tables to decide on.     *)
Serving(r, o) ==
    /\ db \in Tables /\ Agree(db)
    /\ o = requests[r].op /\ IsOperation(o)
    /\ requests[r].actor \in Users /\ requests[r].super \in BOOLEAN
    /\ IsOlder(Seen(r), db)

(* A handler that answers with an error leaves the tables as they were.    *)
LEMMA Unchanged == db \in Tables /\ Agree(db) => Carries(db, db)
BY DEF Carries, IsOlder

(* A request that is served has an operation the schemas let through, an   *)
(* actor, and has seen an older state of the tables.                       *)
LEMMA Served ==
    ASSUME AdminInvariant, NEW r \in Requests, NEW kind, Serves(r, kind)
    PROVE  Serving(r, requests[r].op)
<1>1. requests[r].phase \in {"handle", "commit"}
  BY DEF Serves
<1>2. /\ IsOperation(requests[r].op) /\ requests[r].actor \in Users
      /\ requests[r].super \in BOOLEAN
      /\ requests[r].phase = "commit" => IsOlder(requests[r].seen, db)
  BY <1>1 DEF AdminInvariant, RequestFits, NoRequest
<1>3. IsOlder(Seen(r), db)
  BY <1>2 DEF Seen, Serves, IsOlder, AdminInvariant, TypeOK
<1> QED
  BY <1>2, <1>3 DEF Serving, AdminInvariant, TypeOK, TablesAgree

(* UserService.create_user: its checks may be stale, the constraints are   *)
(* not.                                                                    *)
LEMMA CreateUserCarries ==
    ASSUME NEW r \in Requests, NEW o, Serving(r, o), CreateUser(r)
    PROVE  Carries(db, db')
<1> DEFINE row == [active |-> TRUE, super |-> o.super, must |-> FALSE, roles |-> o.roles]
<1>1. o.kind = "create_user" /\ o = requests[r].op
  BY DEF Serves, Serving, CreateUser
<1>2. o.user \in Users /\ o.super \in BOOLEAN /\ o.roles \in SUBSET Roles
  BY <1>1 DEF Serving, IsOperation, UserRoutes
<1>3. row \in UserRow /\ row.roles = o.roles
  BY <1>2, NewUserRow
<1>4. \/ db' = db
      \/ /\ ~(IsNameTaken(db, o.user) \/ ~(o.roles \subseteq Rows(db.roles)))
         /\ db' = [db EXCEPT !.users[o.user] = row]
  BY <1>1 DEF CreateUser, Settle, Answer, Commit
<1>5. db \in Tables /\ Agree(db)
  BY DEF Serving
<1> QED
  BY <1>2, <1>3, <1>4, <1>5, PutUser, Unchanged

(* A flag of a user who is there is set to what the session writes.        *)
LEMMA FlagOfUser ==
    ASSUME NEW d \in Tables, Agree(d), NEW u \in Rows(d.users), NEW row \in UserRow,
           row.roles = d.users[u].roles
    PROVE  Carries(d, [d EXCEPT !.users[u] = row])
<1>1. u \in Users
  BY TableFields DEF Rows
<1>2. row.roles \subseteq Rows(d.roles)
  BY DEF Agree, UsersHaveRoles
<1> QED
  BY <1>1, <1>2, PutUser

(* UserService.update_user writes a flag only.                             *)
LEMMA UpdateUserCarries ==
    ASSUME NEW r \in Requests, NEW o, Serving(r, o), UpdateUser(r)
    PROVE  Carries(db, db')
<1> DEFINE s == Seen(r)
           self == o.user = requests[r].actor
           super == IF self THEN requests[r].super ELSE s.users[o.user].super
           now == db.users[o.user]
           flag == Written(super, o.super, now.super)
           row == [now EXCEPT !.super = flag]
<1>1. o.kind = "update_user" /\ o = requests[r].op
  BY DEF Serves, Serving, UpdateUser
<1>2. o.user \in Users /\ o.super \in BOOLEAN
  BY <1>1 DEF Serving, IsOperation, UserRoutes
<1>3. db' = db \/ (o.user \in Rows(db.users) /\ db' = [db EXCEPT !.users[o.user] = row])
  BY <1>1 DEF UpdateUser, Settle, Answer, Commit
<1>4. ASSUME o.user \in Rows(db.users)
      PROVE  row \in UserRow /\ row.roles = now.roles
  <2>1. now \in UserRow
    BY <1>2, <1>4, TableFields DEF Rows, Serving
  <2>2. flag \in BOOLEAN
    BY <1>2, <2>1, UserRows, WrittenIsEither
  <2> QED
    BY <2>1, <2>2, ChangedUserRow, UserRows
<1> HIDE DEF row
<1>5. db \in Tables /\ Agree(db)
  BY DEF Serving
<1> QED
  BY <1>2, <1>3, <1>4, <1>5, FlagOfUser, Unchanged

(* UserService.update_status writes a flag only.                           *)
LEMMA UpdateUserStatusCarries ==
    ASSUME NEW r \in Requests, NEW o, Serving(r, o), UpdateUserStatus(r)
    PROVE  Carries(db, db')
<1> DEFINE s == Seen(r)
           self == o.user = requests[r].actor
           now == db.users[o.user]
           flag == Written(self \/ s.users[o.user].active, o.active, now.active)
           row == [now EXCEPT !.active = flag]
<1>1. o.kind = "user_status" /\ o = requests[r].op
  BY DEF Serves, Serving, UpdateUserStatus
<1>2. o.user \in Users /\ o.active \in BOOLEAN
  BY <1>1 DEF Serving, IsOperation, UserRoutes
<1>3. db' = db \/ (o.user \in Rows(db.users) /\ db' = [db EXCEPT !.users[o.user] = row])
  BY <1>1 DEF UpdateUserStatus, Settle, Answer, Commit
<1>4. ASSUME o.user \in Rows(db.users)
      PROVE  row \in UserRow /\ row.roles = now.roles
  <2>1. now \in UserRow
    BY <1>2, <1>4, TableFields DEF Rows, Serving
  <2>2. flag \in BOOLEAN
    BY <1>2, <2>1, UserRows, WrittenIsEither
  <2> QED
    BY <2>1, <2>2, ChangedUserRow, UserRows
<1> HIDE DEF row
<1>5. db \in Tables /\ Agree(db)
  BY DEF Serving
<1> QED
  BY <1>2, <1>3, <1>4, <1>5, FlagOfUser, Unchanged

(* UserService.reset_password writes a flag only.                          *)
LEMMA ResetPasswordCarries ==
    ASSUME NEW r \in Requests, NEW o, Serving(r, o), ResetPassword(r)
    PROVE  Carries(db, db')
<1> DEFINE s == Seen(r)
           now == db.users[o.user]
           flag == Written(s.users[o.user].must, TRUE, now.must)
           row == [now EXCEPT !.must = flag]
<1>1. o.kind = "reset_password" /\ o = requests[r].op
  BY DEF Serves, Serving, ResetPassword
<1>2. o.user \in Users
  BY <1>1 DEF Serving, IsOperation, UserRoutes
<1>3. db' = db \/ (o.user \in Rows(db.users) /\ db' = [db EXCEPT !.users[o.user] = row])
  BY <1>1 DEF ResetPassword, Settle, Answer, Commit
<1>4. ASSUME o.user \in Rows(db.users)
      PROVE  row \in UserRow /\ row.roles = now.roles
  <2>1. now \in UserRow
    BY <1>2, <1>4, TableFields DEF Rows, Serving
  <2>2. flag \in BOOLEAN
    BY <1>2, <2>1, UserRows, WrittenIsEither
  <2> QED
    BY <2>1, <2>2, ChangedUserRow, UserRows
<1> HIDE DEF row
<1>5. db \in Tables /\ Agree(db)
  BY DEF Serving
<1> QED
  BY <1>2, <1>3, <1>4, <1>5, FlagOfUser, Unchanged

(* A user can be deleted: no other row refers to him.                      *)
LEMMA UserDeleted ==
    ASSUME NEW d \in Tables, Agree(d), NEW u \in Users
    PROVE  Carries(d, [d EXCEPT !.users[u] = Gone])
<1>1. Gone \in UserRow \cup NoRow /\ Gone \notin UserRow
  BY RowAssumption DEF NoRow
<1> QED
  BY <1>1, PutUser

(* UserService.delete_user.                                                *)
LEMMA DeleteUserCarries ==
    ASSUME NEW r \in Requests, NEW o, Serving(r, o), DeleteUser(r)
    PROVE  Carries(db, db')
<1>1. o.kind = "delete_user" /\ o = requests[r].op
  BY DEF Serves, Serving, DeleteUser
<1>2. o.user \in Users
  BY <1>1 DEF Serving, IsOperation, UserRoutes
<1>3. db' = db \/ db' = [db EXCEPT !.users[o.user] = Gone]
  BY <1>1 DEF DeleteUser, Settle, Answer, Commit
<1>4. db \in Tables /\ Agree(db)
  BY DEF Serving
<1> QED
  BY <1>2, <1>3, <1>4, UserDeleted, Unchanged

(* A user who replaces his password changes a flag only.                   *)
LEMMA ChangePasswordCarries ==
    ASSUME db \in Tables, Agree(db), NEW u \in Users, ChangePassword(u)
    PROVE  Carries(db, db')
<1> DEFINE row == [db.users[u] EXCEPT !.must = FALSE]
<1>1. u \in Rows(db.users) /\ db' = [db EXCEPT !.users[u] = row]
  BY DEF ChangePassword, IsActive
<1>2. db.users[u] \in UserRow
  BY <1>1, TableFields DEF Rows
<1>3. row \in UserRow /\ row.roles = db.users[u].roles
  BY <1>2, ChangedUserRow, UserRows
<1> HIDE DEF row
<1> QED
  BY <1>1, <1>3, FlagOfUser

(* Links are only inserted to what is there.                               *)
LEMMA RelinkedLinks ==
    ASSUME NEW saw, NEW new, NEW now, NEW there, now \subseteq there, new \ saw \subseteq there
    PROVE  Relinked(saw, new, now) \subseteq there
BY DEF Relinked

(* UserService.assign_roles: a link to a role that is gone is an integrity *)
(* error.                                                                  *)
LEMMA AssignRolesCarries ==
    ASSUME NEW r \in Requests, NEW o, Serving(r, o), AssignRoles(r)
    PROVE  Carries(db, db')
<1> DEFINE saw == Seen(r).users[o.user].roles
           now == db.users[o.user]
           links == Relinked(saw, o.roles, now.roles)
           row == [now EXCEPT !.roles = links]
<1>1. o.kind = "assign_roles" /\ o = requests[r].op
  BY DEF Serves, Serving, AssignRoles
<1>2. o.user \in Users /\ o.roles \subseteq Roles
  BY <1>1 DEF Serving, IsOperation, UserRoutes
<1>3. \/ db' = db
      \/ /\ o.user \in Rows(db.users) /\ o.roles \ saw \subseteq Rows(db.roles)
         /\ db' = [db EXCEPT !.users[o.user] = row]
  BY <1>1 DEF AssignRoles, Relink, Settle, Answer, Commit
<1>4. ASSUME o.user \in Rows(db.users), o.roles \ saw \subseteq Rows(db.roles)
      PROVE  row \in UserRow /\ row.roles \subseteq Rows(db.roles)
  <2>1. now \in UserRow /\ now.roles \subseteq Rows(db.roles)
    BY <1>2, <1>4, TableFields DEF Rows, Serving, Agree, UsersHaveRoles
  <2>2. links \subseteq Rows(db.roles)
    BY <1>4, <2>1, RelinkedLinks
  <2>3. Rows(db.roles) \subseteq Roles
    BY TableFields DEF Serving, Rows
  <2> HIDE DEF links
  <2> QED
    BY <2>1, <2>2, <2>3, ChangedUserRoles
<1> HIDE DEF row
<1>5. db \in Tables /\ Agree(db)
  BY DEF Serving
<1> QED
  BY <1>2, <1>3, <1>4, <1>5, PutUser, Unchanged

-----------------------------------------------------------------------------
(* The fields of a role.                                                   *)
LEMMA RoleRows ==
    ASSUME NEW row \in RoleRow
    PROVE  row.permissions \subseteq Permissions /\ row.menus \subseteq Menus
BY DEF RoleRow

(* A role stays a row with the same menus when its permissions are         *)
(* replaced.                                                               *)
LEMMA ChangedRolePermissions ==
    ASSUME NEW row \in RoleRow, NEW permissions \in SUBSET Permissions
    PROVE  /\ [row EXCEPT !.permissions = permissions] \in RoleRow
           /\ [row EXCEPT !.permissions = permissions].permissions = permissions
           /\ [row EXCEPT !.permissions = permissions].menus = row.menus
BY DEF RoleRow

(* A role stays a row with the same permissions when its menus are         *)
(* replaced.                                                               *)
LEMMA ChangedRoleMenus ==
    ASSUME NEW row \in RoleRow, NEW menus \in SUBSET Menus
    PROVE  /\ [row EXCEPT !.menus = menus] \in RoleRow
           /\ [row EXCEPT !.menus = menus].menus = menus
           /\ [row EXCEPT !.menus = menus].permissions = row.permissions
BY DEF RoleRow

(* A new role has no rights.                                               *)
LEMMA NewRoleRow ==
    ASSUME NEW system \in BOOLEAN
    PROVE  LET row == [system |-> system, permissions |-> {}, menus |-> {}] IN
           row \in RoleRow /\ row.permissions = {} /\ row.menus = {}
BY DEF RoleRow

(* RBACService.create_role.                                                *)
LEMMA CreateRoleCarries ==
    ASSUME NEW r \in Requests, NEW o, Serving(r, o), CreateRole(r)
    PROVE  Carries(db, db')
<1> DEFINE row == [system |-> FALSE, permissions |-> {}, menus |-> {}]
<1>1. o.kind = "create_role" /\ o = requests[r].op
  BY DEF Serves, Serving, CreateRole
<1>2. o.role \in Roles
  BY <1>1 DEF Serving, IsOperation, RoleRoutes
<1>3. \/ db' = db
      \/ /\ ~IsRoleCodeTaken(db, o.role)
         /\ db' = [db EXCEPT !.roles[o.role] = row]
  BY <1>1 DEF CreateRole, Settle, Answer, Commit
<1>4. row \in RoleRow /\ row.permissions = {} /\ row.menus = {}
  BY NewRoleRow
<1> HIDE DEF row
<1>5. db \in Tables /\ Agree(db)
  BY DEF Serving
<1> QED
  BY <1>2, <1>3, <1>4, <1>5, PutRole, Unchanged

(* RBACService.update_role changes no column of the model.                 *)
LEMMA UpdateRoleCarries ==
    ASSUME NEW r \in Requests, NEW o, Serving(r, o), UpdateRole(r)
    PROVE  Carries(db, db')
BY Unchanged DEF Serving, UpdateRole, Settle, Answer, Commit

(* RBACService.assign_permissions: a link to a permission that is gone is  *)
(* an integrity error.                                                     *)
LEMMA AssignPermissionsCarries ==
    ASSUME NEW r \in Requests, NEW o, Serving(r, o), AssignPermissions(r)
    PROVE  Carries(db, db')
<1> DEFINE saw == Seen(r).roles[o.role].permissions
           now == db.roles[o.role]
           links == Relinked(saw, o.permissions, now.permissions)
           row == [now EXCEPT !.permissions = links]
<1>1. o.kind = "assign_permissions" /\ o = requests[r].op
  BY DEF Serves, Serving, AssignPermissions
<1>2. o.role \in Roles /\ o.permissions \subseteq Permissions
  BY <1>1 DEF Serving, IsOperation, RoleRoutes
<1>3. \/ db' = db
      \/ /\ o.role \in Rows(db.roles) /\ o.permissions \ saw \subseteq Rows(db.permissions)
         /\ db' = [db EXCEPT !.roles[o.role] = row]
  BY <1>1 DEF AssignPermissions, Relink, Settle, Answer, Commit
<1>4. ASSUME o.role \in Rows(db.roles), o.permissions \ saw \subseteq Rows(db.permissions)
      PROVE  /\ row \in RoleRow
             /\ row.permissions \subseteq Rows(db.permissions)
             /\ row.menus \subseteq Rows(db.menus)
  <2>1. /\ now \in RoleRow
        /\ now.permissions \subseteq Rows(db.permissions) /\ now.menus \subseteq Rows(db.menus)
    BY <1>2, <1>4, TableFields DEF Rows, Serving, Agree, RolesHaveRights
  <2>2. links \subseteq Rows(db.permissions)
    BY <1>4, <2>1, RelinkedLinks
  <2>3. Rows(db.permissions) \subseteq Permissions
    BY TableFields DEF Serving, Rows
  <2> HIDE DEF links
  <2> QED
    BY <2>1, <2>2, <2>3, ChangedRolePermissions
<1> HIDE DEF row
<1>5. db \in Tables /\ Agree(db)
  BY DEF Serving
<1> QED
  BY <1>2, <1>3, <1>4, <1>5, PutRole, Unchanged

(* RBACService.assign_menus: a link to a menu that is gone is an integrity *)
(* error.                                                                  *)
LEMMA AssignMenusCarries ==
    ASSUME NEW r \in Requests, NEW o, Serving(r, o), AssignMenus(r)
    PROVE  Carries(db, db')
<1> DEFINE saw == Seen(r).roles[o.role].menus
           now == db.roles[o.role]
           links == Relinked(saw, o.menus, now.menus)
           row == [now EXCEPT !.menus = links]
<1>1. o.kind = "assign_menus" /\ o = requests[r].op
  BY DEF Serves, Serving, AssignMenus
<1>2. o.role \in Roles /\ o.menus \subseteq Menus
  BY <1>1 DEF Serving, IsOperation, RoleRoutes
<1>3. \/ db' = db
      \/ /\ o.role \in Rows(db.roles) /\ o.menus \ saw \subseteq Rows(db.menus)
         /\ db' = [db EXCEPT !.roles[o.role] = row]
  BY <1>1 DEF AssignMenus, Relink, Settle, Answer, Commit
<1>4. ASSUME o.role \in Rows(db.roles), o.menus \ saw \subseteq Rows(db.menus)
      PROVE  /\ row \in RoleRow
             /\ row.permissions \subseteq Rows(db.permissions)
             /\ row.menus \subseteq Rows(db.menus)
  <2>1. /\ now \in RoleRow
        /\ now.permissions \subseteq Rows(db.permissions) /\ now.menus \subseteq Rows(db.menus)
    BY <1>2, <1>4, TableFields DEF Rows, Serving, Agree, RolesHaveRights
  <2>2. links \subseteq Rows(db.menus)
    BY <1>4, <2>1, RelinkedLinks
  <2>3. Rows(db.menus) \subseteq Menus
    BY TableFields DEF Serving, Rows
  <2> HIDE DEF links
  <2> QED
    BY <2>1, <2>2, <2>3, ChangedRoleMenus
<1> HIDE DEF row
<1>5. db \in Tables /\ Agree(db)
  BY DEF Serving
<1> QED
  BY <1>2, <1>3, <1>4, <1>5, PutRole, Unchanged

(* The users of a deleted role stay, without it.                           *)
LEMMA DismissedUsers ==
    ASSUME NEW users \in [Users -> UserRow \cup NoRow], NEW x
    PROVE  /\ Dismissed(users, x) \in [Users -> UserRow \cup NoRow]
           /\ Rows(Dismissed(users, x)) = Rows(users)
           /\ \A u \in Rows(users) : /\ Dismissed(users, x)[u] \in UserRow
                                     /\ Dismissed(users, x)[u].roles = users[u].roles \ {x}
<1>1. ASSUME NEW u \in Users, users[u] \in NoRow
      PROVE  Dismissed(users, x)[u] = users[u]
  BY <1>1 DEF Dismissed
<1>2. ASSUME NEW u \in Users, users[u] \notin NoRow
      PROVE  /\ Dismissed(users, x)[u] \in UserRow
             /\ Dismissed(users, x)[u].roles = users[u].roles \ {x}
  <2>1. users[u] \in UserRow /\ users[u].roles \ {x} \in SUBSET Roles
    BY <1>2, UserRows
  <2>2. Dismissed(users, x)[u] = [users[u] EXCEPT !.roles = users[u].roles \ {x}]
    BY <1>2 DEF Dismissed
  <2> QED
    BY <2>1, <2>2, ChangedUserRoles
<1>3. DOMAIN Dismissed(users, x) = Users
  BY DEF Dismissed
<1>4. Dismissed(users, x) \in [Users -> UserRow \cup NoRow]
  BY <1>1, <1>2 DEF Dismissed
<1>5. Rows(Dismissed(users, x)) = Rows(users)
  BY <1>1, <1>2, <1>3, RowAssumption DEF Rows
<1> QED
  BY <1>2, <1>4, <1>5 DEF Rows

(* A role can be deleted: the links of its users go with it.               *)
LEMMA RoleDeleted ==
    ASSUME NEW d \in Tables, Agree(d), NEW x \in Roles
    PROVE  Carries(d, [d EXCEPT !.roles[x] = Gone, !.users = Dismissed(d.users, x)])
<1> DEFINE e == [d EXCEPT !.roles[x] = Gone, !.users = Dismissed(d.users, x)]
<1>1. /\ d.users \in [Users -> UserRow \cup NoRow] /\ d.roles \in [Roles -> RoleRow \cup NoRow]
      /\ Dismissed(d.users, x) \in [Users -> UserRow \cup NoRow]
  BY TableFields, DismissedUsers
<1>2. /\ e \in Tables
      /\ e.users = Dismissed(d.users, x) /\ e.roles = [d.roles EXCEPT ![x] = Gone]
      /\ e.permissions = d.permissions /\ e.menus = d.menus /\ e.templates = d.templates
      /\ e.projects = d.projects /\ e.models = d.models /\ e.bots = d.bots
  BY <1>1 DEF Tables, NoRow
<1> HIDE DEF e
<1>3. Rows(e.users) = Rows(d.users) /\ Rows(e.roles) = Rows(d.roles) \ {x}
  BY <1>1, <1>2, DismissedUsers DEF Rows, NoRow
<1>4. NamesAreUnique(e) /\ RoleCodesAreUnique(e)
  BY <1>3 DEF Agree, NamesAreUnique, RoleCodesAreUnique
<1>5. UsersHaveRoles(e)
  BY <1>1, <1>2, <1>3, DismissedUsers DEF Agree, UsersHaveRoles
<1>6. RolesHaveRights(e)
  BY <1>1, <1>2, <1>3 DEF Agree, RolesHaveRights, Rows
<1>7. Agree(e)
  BY <1>2, <1>4, <1>5, <1>6 DEF Agree, PermissionCodesAreUnique, TemplateCodesAreUnique,
     KeysAreUnique, OneDefault, Defaults, ProjectsHaveTemplates, IsMissing, BuildsMenuTree
<1>8. Carries(d, e)
  BY <1>2, <1>7 DEF Carries, IsOlder
<1> QED
  BY <1>8 DEF e

(* RBACService.delete_role.                                                *)
LEMMA DeleteRoleCarries ==
    ASSUME NEW r \in Requests, NEW o, Serving(r, o), DeleteRole(r)
    PROVE  Carries(db, db')
<1>1. o.kind = "delete_role" /\ o = requests[r].op
  BY DEF Serves, Serving, DeleteRole
<1>2. o.role \in Roles
  BY <1>1 DEF Serving, IsOperation, RoleRoutes
<1>3. \/ db' = db
      \/ db' = [db EXCEPT !.roles[o.role] = Gone, !.users = Dismissed(db.users, o.role)]
  BY <1>1 DEF DeleteRole, Settle, Answer, Commit
<1>4. db \in Tables /\ Agree(db)
  BY DEF Serving
<1> QED
  BY <1>2, <1>3, <1>4, RoleDeleted, Unchanged

-----------------------------------------------------------------------------
(* The fields of a permission.                                             *)
LEMMA PermissionRows ==
    /\ \A row \in PermissionRow : row.code \in PermissionCodes
    /\ \A system \in BOOLEAN, code \in PermissionCodes :
           [system |-> system, code |-> code] \in PermissionRow
    /\ \A row \in PermissionRow, code \in PermissionCodes :
           /\ [row EXCEPT !.code = code] \in PermissionRow
           /\ [row EXCEPT !.code = code].code = code
BY DEF PermissionRow

(* RBACService.create_permission: the code is unique in the database only. *)
LEMMA CreatePermissionCarries ==
    ASSUME NEW r \in Requests, NEW o, Serving(r, o), CreatePermission(r)
    PROVE  Carries(db, db')
<1> DEFINE row == [system |-> FALSE, code |-> o.code]
<1>1. o.kind = "create_permission" /\ o = requests[r].op
  BY DEF Serves, Serving, CreatePermission
<1>2. o.permission \in Permissions /\ o.code \in PermissionCodes
  BY <1>1 DEF Serving, IsOperation, PermissionRoutes
<1>3. \/ db' = db
      \/ /\ ~IsCodeTaken(db, o.permission, o.code)
         /\ db' = [db EXCEPT !.permissions[o.permission] = row]
  BY <1>1 DEF CreatePermission, Settle, Answer, Commit
<1>4. row \in PermissionRow /\ row.code = o.code
  BY <1>2, PermissionRows
<1> HIDE DEF row
<1>5. db \in Tables /\ Agree(db)
  BY DEF Serving
<1> QED
  BY <1>2, <1>3, <1>4, <1>5, PutPermission, Unchanged

(* A code that is written was found free; one that is kept is unique.      *)
LEMMA UpdatePermissionCarries ==
    ASSUME NEW r \in Requests, NEW o, Serving(r, o), UpdatePermission(r)
    PROVE  Carries(db, db')
<1> DEFINE saw == Seen(r).permissions[o.permission].code
           now == db.permissions[o.permission]
           code == Written(saw, o.code, now.code)
           row == [now EXCEPT !.code = code]
<1>1. o.kind = "update_permission" /\ o = requests[r].op
  BY DEF Serves, Serving, UpdatePermission
<1>2. o.permission \in Permissions /\ o.code \in PermissionCodes
  BY <1>1 DEF Serving, IsOperation, PermissionRoutes
<1>3. \/ db' = db
      \/ /\ o.permission \in Rows(db.permissions)
         /\ o.code # saw => ~IsCodeTaken(db, o.permission, o.code)
         /\ db' = [db EXCEPT !.permissions[o.permission] = row]
  BY <1>1 DEF UpdatePermission, Settle, Answer, Commit
<1>4. ASSUME o.permission \in Rows(db.permissions),
             o.code # saw => ~IsCodeTaken(db, o.permission, o.code)
      PROVE  row \in PermissionRow /\ ~IsCodeTaken(db, o.permission, row.code)
  <2>1. now \in PermissionRow
    BY <1>2, <1>4, TableFields DEF Rows, Serving
  <2>2. code \in PermissionCodes
    BY <1>2, <2>1, PermissionRows, WrittenIsEither
  <2>3. ~IsCodeTaken(db, o.permission, now.code)
    BY <1>4 DEF IsCodeTaken, Serving, Agree, PermissionCodesAreUnique
  <2>4. ~IsCodeTaken(db, o.permission, code)
    BY <1>4, <2>3 DEF Written
  <2> HIDE DEF code
  <2> QED
    BY <2>1, <2>2, <2>4, PermissionRows
<1> HIDE DEF row
<1>5. db \in Tables /\ Agree(db)
  BY DEF Serving
<1> QED
  BY <1>2, <1>3, <1>4, <1>5, PutPermission, Unchanged

(* A right that is deleted is taken from every role.                       *)
LEMMA PermissionWithdrawn ==
    ASSUME NEW roles \in [Roles -> RoleRow \cup NoRow], NEW p
    PROVE  /\ WithoutPermission(roles, p) \in [Roles -> RoleRow \cup NoRow]
           /\ Rows(WithoutPermission(roles, p)) = Rows(roles)
           /\ \A x \in Rows(roles) :
                  /\ WithoutPermission(roles, p)[x].permissions = roles[x].permissions \ {p}
                  /\ WithoutPermission(roles, p)[x].menus = roles[x].menus
<1>1. ASSUME NEW x \in Roles, roles[x] \in NoRow
      PROVE  WithoutPermission(roles, p)[x] = roles[x]
  BY <1>1 DEF WithoutPermission
<1>2. ASSUME NEW x \in Roles, roles[x] \notin NoRow
      PROVE  /\ WithoutPermission(roles, p)[x] \in RoleRow
             /\ WithoutPermission(roles, p)[x].permissions = roles[x].permissions \ {p}
             /\ WithoutPermission(roles, p)[x].menus = roles[x].menus
  <2>1. roles[x] \in RoleRow /\ roles[x].permissions \ {p} \in SUBSET Permissions
    BY <1>2, RoleRows
  <2>2. WithoutPermission(roles, p)[x] =
            [roles[x] EXCEPT !.permissions = roles[x].permissions \ {p}]
    BY <1>2 DEF WithoutPermission
  <2> QED
    BY <2>1, <2>2, ChangedRolePermissions
<1>3. WithoutPermission(roles, p) \in [Roles -> RoleRow \cup NoRow]
  BY <1>1, <1>2 DEF WithoutPermission
<1>4. Rows(WithoutPermission(roles, p)) = Rows(roles)
  BY <1>1, <1>2, <1>3, RowAssumption DEF Rows
<1> QED
  BY <1>2, <1>3, <1>4 DEF Rows

(* A permission can be deleted: the links of its roles go with it.         *)
LEMMA PermissionDeleted ==
    ASSUME NEW d \in Tables, Agree(d), NEW p \in Permissions
    PROVE  Carries(d, [d EXCEPT !.permissions[p] = Gone, !.roles = WithoutPermission(d.roles, p)])
<1> DEFINE e == [d EXCEPT !.permissions[p] = Gone, !.roles = WithoutPermission(d.roles, p)]
<1>1. /\ d.roles \in [Roles -> RoleRow \cup NoRow]
      /\ d.permissions \in [Permissions -> PermissionRow \cup NoRow]
      /\ WithoutPermission(d.roles, p) \in [Roles -> RoleRow \cup NoRow]
  BY TableFields, PermissionWithdrawn
<1>2. /\ e \in Tables
      /\ e.roles = WithoutPermission(d.roles, p)
      /\ e.permissions = [d.permissions EXCEPT ![p] = Gone]
      /\ e.users = d.users /\ e.menus = d.menus /\ e.templates = d.templates
      /\ e.projects = d.projects /\ e.models = d.models /\ e.bots = d.bots
  BY <1>1 DEF Tables, NoRow
<1> HIDE DEF e
<1>3. Rows(e.roles) = Rows(d.roles) /\ Rows(e.permissions) = Rows(d.permissions) \ {p}
  BY <1>1, <1>2, PermissionWithdrawn DEF Rows, NoRow
<1>4. PermissionCodesAreUnique(e)
  BY <1>1, <1>2, <1>3 DEF Agree, PermissionCodesAreUnique, Rows
<1>5. UsersHaveRoles(e) /\ RoleCodesAreUnique(e)
  BY <1>2, <1>3 DEF Agree, UsersHaveRoles, RoleCodesAreUnique
<1>6. RolesHaveRights(e)
  BY <1>1, <1>2, <1>3, PermissionWithdrawn DEF Agree, RolesHaveRights
<1>7. Agree(e)
  BY <1>2, <1>4, <1>5, <1>6 DEF Agree, NamesAreUnique,
     TemplateCodesAreUnique, KeysAreUnique, OneDefault, Defaults, ProjectsHaveTemplates,
     IsMissing, BuildsMenuTree
<1>8. Carries(d, e)
  BY <1>2, <1>7 DEF Carries, IsOlder
<1> QED
  BY <1>8 DEF e

(* RBACService.delete_permission.                                          *)
LEMMA DeletePermissionCarries ==
    ASSUME NEW r \in Requests, NEW o, Serving(r, o), DeletePermission(r)
    PROVE  Carries(db, db')
<1>1. o.kind = "delete_permission" /\ o = requests[r].op
  BY DEF Serves, Serving, DeletePermission
<1>2. o.permission \in Permissions
  BY <1>1 DEF Serving, IsOperation, PermissionRoutes
<1>3. \/ db' = db
      \/ db' = [db EXCEPT !.permissions[o.permission] = Gone,
                          !.roles = WithoutPermission(db.roles, o.permission)]
  BY <1>1 DEF DeletePermission, Settle, Answer, Commit
<1>4. db \in Tables /\ Agree(db)
  BY DEF Serving
<1> QED
  BY <1>2, <1>3, <1>4, PermissionDeleted, Unchanged

-----------------------------------------------------------------------------
(* The fields of a menu.                                                   *)
LEMMA MenuRows ==
    /\ \A row \in MenuRow : row.parent \in Menus \cup {None} /\ row.path \in Paths
    /\ \A system \in BOOLEAN, parent \in Menus \cup {None}, path \in Paths :
           [system |-> system, parent |-> parent, path |-> path] \in MenuRow
BY DEF MenuRow

(* A menu stays a row when it is moved under another parent.               *)
LEMMA ChangedMenuRow ==
    ASSUME NEW row \in MenuRow, NEW parent \in Menus \cup {None}
    PROVE  /\ [row EXCEPT !.parent = parent] \in MenuRow
           /\ [row EXCEPT !.parent = parent].parent = parent
           /\ [row EXCEPT !.parent = parent].path = row.path
           /\ [row EXCEPT !.parent = parent].system = row.system
BY DEF MenuRow

(* A menu stays where it is when its path is replaced.                     *)
LEMMA RenamedMenuRow ==
    ASSUME NEW row \in MenuRow, NEW path \in Paths
    PROVE  /\ [row EXCEPT !.path = path] \in MenuRow
           /\ [row EXCEPT !.path = path].parent = row.parent
BY DEF MenuRow

(* RBACService.create_menu: a parent that is gone is an integrity error.   *)
LEMMA CreateMenuCarries ==
    ASSUME NEW r \in Requests, NEW o, Serving(r, o), CreateMenu(r)
    PROVE  Carries(db, db')
<1> DEFINE row == [system |-> FALSE, parent |-> o.parent, path |-> o.path]
<1>1. o.kind = "create_menu" /\ o = requests[r].op
  BY DEF Serves, Serving, CreateMenu
<1>2. o.menu \in Menus /\ o.parent \in Menus \cup {None} /\ o.path \in Paths
  BY <1>1 DEF Serving, IsOperation, MenuRoutes
<1>3. \/ db' = db
      \/ /\ o.parent \in Rows(db.menus) \cup {None}
         /\ db' = [db EXCEPT !.menus[o.menu] = row]
  BY <1>1 DEF CreateMenu, Settle, Answer, Commit
<1>4. row \in MenuRow /\ row.parent = o.parent
  BY <1>2, MenuRows
<1> HIDE DEF row
<1>5. db \in Tables /\ Agree(db)
  BY DEF Serving
<1> QED
  BY <1>2, <1>3, <1>4, <1>5, PutMenu, Unchanged

(* RBACService.update_menu: the parent is checked when it is written, and  *)
(* one that is not written is still there.                                 *)
LEMMA UpdateMenuCarries ==
    ASSUME NEW r \in Requests, NEW o, Serving(r, o), UpdateMenu(r)
    PROVE  Carries(db, db')
<1> DEFINE saw == Seen(r).menus[o.menu]
           now == db.menus[o.menu]
           parent == Written(saw.parent, o.parent, now.parent)
           path == Written(saw.path, o.path, now.path)
           moved == [now EXCEPT !.parent = parent]
           row == [moved EXCEPT !.path = path]
<1>1. o.kind = "update_menu" /\ o = requests[r].op
  BY DEF Serves, Serving, UpdateMenu
<1>2. o.menu \in Menus /\ o.parent \in Menus \cup {None} /\ o.path \in Paths
  BY <1>1 DEF Serving, IsOperation, MenuRoutes
<1>3. \/ db' = db
      \/ /\ o.menu \in Rows(db.menus)
         /\ o.parent # saw.parent => o.parent \in Rows(db.menus) \cup {None}
         /\ db' = [db EXCEPT
                     !.menus[o.menu].parent = Written(saw.parent, o.parent, @),
                     !.menus[o.menu].path = Written(saw.path, o.path, @)]
  BY <1>1 DEF UpdateMenu, Settle, Answer, Commit
<1>4. ASSUME o.menu \in Rows(db.menus),
             o.parent # saw.parent => o.parent \in Rows(db.menus) \cup {None}
      PROVE  /\ row \in MenuRow /\ row.parent \in Rows(db.menus) \cup {None}
             /\ [db EXCEPT !.menus[o.menu].parent = Written(saw.parent, o.parent, @),
                           !.menus[o.menu].path = Written(saw.path, o.path, @)] =
                    [db EXCEPT !.menus[o.menu] = row]
  <2>1. now \in MenuRow
    BY <1>2, <1>4, TableFields DEF Rows, Serving
  <2>2. parent \in Menus \cup {None} /\ path \in Paths
    BY <1>2, <2>1, MenuRows, WrittenIsEither
  <2>3. parent \in Rows(db.menus) \cup {None}
    BY <1>4 DEF Written, Serving, Agree, BuildsMenuTree
  <2>4. moved \in MenuRow /\ moved.parent = parent /\ moved.path = now.path
    <3> HIDE DEF parent
    <3> QED
      BY <2>1, <2>2, ChangedMenuRow
  <2>5. row \in MenuRow /\ row.parent = parent
    <3> HIDE DEF parent, path, moved
    <3> QED
      BY <2>2, <2>4, RenamedMenuRow
  <2>6. "menus" \in DOMAIN db /\ o.menu \in DOMAIN db.menus
    BY <1>2 DEF Serving, Tables
  <2>7. [db EXCEPT !.menus[o.menu].parent = Written(saw.parent, o.parent, @),
                   !.menus[o.menu].path = Written(saw.path, o.path, @)] =
            [db EXCEPT !.menus[o.menu] = row]
    BY <2>4, <2>6
  <2> QED
    BY <2>3, <2>5, <2>7
<1> HIDE DEF row
<1>5. db \in Tables /\ Agree(db)
  BY DEF Serving
<1> QED
  BY <1>2, <1>3, <1>4, <1>5, PutMenu, Unchanged

(* The children of a deleted menu become roots.                            *)
LEMMA ChildrenBecomeRoots ==
    ASSUME NEW menus \in [Menus -> MenuRow \cup NoRow], NEW m \in Menus
    PROVE  /\ Orphaned(menus, m) \in [Menus -> MenuRow \cup NoRow]
           /\ Rows(Orphaned(menus, m)) = Rows(menus) \ {m}
           /\ \A n \in Rows(menus) \ {m} :
                  Orphaned(menus, m)[n].parent =
                      IF menus[n].parent = m THEN None ELSE menus[n].parent
           /\ \A n \in Menus : Orphaned(menus, m)[n] = Unborn => menus[n] = Unborn
<1>1. Orphaned(menus, m)[m] = Gone
  BY DEF Orphaned
<1>2. ASSUME NEW n \in Menus, n # m, menus[n] \in NoRow \/ menus[n].parent # m
      PROVE  Orphaned(menus, m)[n] = menus[n]
  BY <1>2 DEF Orphaned
<1>3. ASSUME NEW n \in Menus, n # m, menus[n] \notin NoRow, menus[n].parent = m
      PROVE  Orphaned(menus, m)[n] \in MenuRow /\ Orphaned(menus, m)[n].parent = None
  <2>1. Orphaned(menus, m)[n] = [menus[n] EXCEPT !.parent = None]
    BY <1>3 DEF Orphaned
  <2> QED
    BY <1>3, <2>1, ChangedMenuRow
<1>4. Orphaned(menus, m) \in [Menus -> MenuRow \cup NoRow]
  <2>1. \A n \in Menus : Orphaned(menus, m)[n] \in MenuRow \cup NoRow
    BY <1>1, <1>2, <1>3 DEF NoRow
  <2> QED
    BY <2>1 DEF Orphaned
<1>5. Rows(Orphaned(menus, m)) = Rows(menus) \ {m}
  BY <1>1, <1>2, <1>3, <1>4, RowAssumption DEF Rows, NoRow
<1>6. \A n \in Menus : Orphaned(menus, m)[n] = Unborn => menus[n] = Unborn
  BY <1>1, <1>2, <1>3, RowAssumption DEF NoRow
<1> QED
  BY <1>2, <1>3, <1>4, <1>5, <1>6 DEF Rows

(* The roles of a deleted menu stay, without it.                           *)
LEMMA MenuWithdrawn ==
    ASSUME NEW roles \in [Roles -> RoleRow \cup NoRow], NEW m
    PROVE  /\ WithoutMenu(roles, m) \in [Roles -> RoleRow \cup NoRow]
           /\ Rows(WithoutMenu(roles, m)) = Rows(roles)
           /\ \A x \in Rows(roles) :
                  /\ WithoutMenu(roles, m)[x].menus = roles[x].menus \ {m}
                  /\ WithoutMenu(roles, m)[x].permissions = roles[x].permissions
<1>1. ASSUME NEW x \in Roles, roles[x] \in NoRow
      PROVE  WithoutMenu(roles, m)[x] = roles[x]
  BY <1>1 DEF WithoutMenu
<1>2. ASSUME NEW x \in Roles, roles[x] \notin NoRow
      PROVE  /\ WithoutMenu(roles, m)[x] \in RoleRow
             /\ WithoutMenu(roles, m)[x].menus = roles[x].menus \ {m}
             /\ WithoutMenu(roles, m)[x].permissions = roles[x].permissions
  <2>1. roles[x] \in RoleRow /\ roles[x].menus \ {m} \in SUBSET Menus
    BY <1>2, RoleRows
  <2>2. WithoutMenu(roles, m)[x] = [roles[x] EXCEPT !.menus = roles[x].menus \ {m}]
    BY <1>2 DEF WithoutMenu
  <2> QED
    BY <2>1, <2>2, ChangedRoleMenus
<1>3. WithoutMenu(roles, m) \in [Roles -> RoleRow \cup NoRow]
  BY <1>1, <1>2 DEF WithoutMenu
<1>4. Rows(WithoutMenu(roles, m)) = Rows(roles)
  BY <1>1, <1>2, <1>3, RowAssumption DEF Rows
<1> QED
  BY <1>2, <1>3, <1>4 DEF Rows

(* A menu can be deleted: its children become roots and the links of its   *)
(* roles go with it.                                                       *)
LEMMA MenuDeleted ==
    ASSUME NEW d \in Tables, Agree(d), NEW m \in Menus
    PROVE  Carries(d, [d EXCEPT !.menus = Orphaned(d.menus, m), !.roles = WithoutMenu(d.roles, m)])
<1> DEFINE e == [d EXCEPT !.menus = Orphaned(d.menus, m), !.roles = WithoutMenu(d.roles, m)]
<1>1. /\ d.roles \in [Roles -> RoleRow \cup NoRow]
      /\ d.menus \in [Menus -> MenuRow \cup NoRow]
      /\ WithoutMenu(d.roles, m) \in [Roles -> RoleRow \cup NoRow]
      /\ Orphaned(d.menus, m) \in [Menus -> MenuRow \cup NoRow]
  BY TableFields, MenuWithdrawn, ChildrenBecomeRoots
<1>2. /\ e \in Tables
      /\ e.roles = WithoutMenu(d.roles, m) /\ e.menus = Orphaned(d.menus, m)
      /\ e.users = d.users /\ e.permissions = d.permissions /\ e.templates = d.templates
      /\ e.projects = d.projects /\ e.models = d.models /\ e.bots = d.bots
  BY <1>1 DEF Tables
<1> HIDE DEF e
<1>3. Rows(e.roles) = Rows(d.roles) /\ Rows(e.menus) = Rows(d.menus) \ {m}
  <2>1. Rows(e.roles) = Rows(d.roles)
    BY <1>1, <1>2, MenuWithdrawn
  <2>2. Rows(e.menus) = Rows(d.menus) \ {m}
    BY <1>1, <1>2, ChildrenBecomeRoots
  <2> QED
    BY <2>1, <2>2
<1>4. UsersHaveRoles(e) /\ RoleCodesAreUnique(e)
  BY <1>2, <1>3 DEF Agree, UsersHaveRoles, RoleCodesAreUnique
<1>5. RolesHaveRights(e)
  BY <1>1, <1>2, <1>3, MenuWithdrawn DEF Agree, RolesHaveRights
<1>6. BuildsMenuTree(Rows(e.menus), e)
  BY <1>1, <1>2, <1>3, ChildrenBecomeRoots DEF Agree, BuildsMenuTree
<1>7. Agree(e)
  BY <1>2, <1>4, <1>5, <1>6 DEF Agree, NamesAreUnique,
     TemplateCodesAreUnique, PermissionCodesAreUnique, KeysAreUnique, OneDefault, Defaults,
     ProjectsHaveTemplates, IsMissing
<1>8. \A n \in Menus : e.menus[n] = Unborn => d.menus[n] = Unborn
  BY <1>1, <1>2, ChildrenBecomeRoots
<1>9. Carries(d, e)
  BY <1>2, <1>7, <1>8 DEF Carries, IsOlder
<1> QED
  BY <1>9 DEF e

(* RBACService.delete_menu.                                                *)
LEMMA DeleteMenuCarries ==
    ASSUME NEW r \in Requests, NEW o, Serving(r, o), DeleteMenu(r)
    PROVE  Carries(db, db')
<1>1. o.kind = "delete_menu" /\ o = requests[r].op
  BY DEF Serves, Serving, DeleteMenu
<1>2. o.menu \in Menus
  BY <1>1 DEF Serving, IsOperation, MenuRoutes
<1>3. \/ db' = db
      \/ db' = [db EXCEPT !.menus = Orphaned(db.menus, o.menu),
                          !.roles = WithoutMenu(db.roles, o.menu)]
  BY <1>1 DEF DeleteMenu, Settle, Answer, Commit
<1>4. db \in Tables /\ Agree(db)
  BY DEF Serving
<1> QED
  BY <1>2, <1>3, <1>4, MenuDeleted, Unchanged

-----------------------------------------------------------------------------
(* A template built from such fields is a row.                             *)
LEMMA TemplateRows ==
    ASSUME NEW system \in BOOLEAN, NEW active \in BOOLEAN, NEW code \in TemplateCodes
    PROVE  LET row == [system |-> system, active |-> active, code |-> code]
           IN row \in TemplateRow /\ row.code = code
BY DEF TemplateRow

(* The fields of a template.                                               *)
LEMMA TemplateFields ==
    ASSUME NEW row \in TemplateRow
    PROVE  row.code \in TemplateCodes /\ row.active \in BOOLEAN
BY DEF TemplateRow

(* A template stays a row when its code is replaced.                       *)
LEMMA RecodedTemplateRow ==
    ASSUME NEW row \in TemplateRow, NEW code \in TemplateCodes
    PROVE  [row EXCEPT !.code = code] \in TemplateRow /\ [row EXCEPT !.code = code].code = code
BY DEF TemplateRow

(* A template keeps its code when it is switched on or off.                *)
LEMMA SwitchedTemplateRow ==
    ASSUME NEW row \in TemplateRow, NEW flag \in BOOLEAN
    PROVE  /\ [row EXCEPT !.active = flag] \in TemplateRow
           /\ [row EXCEPT !.active = flag].code = row.code
BY DEF TemplateRow

(* ProjectTemplateService.create_template.                                 *)
LEMMA CreateTemplateCarries ==
    ASSUME NEW r \in Requests, NEW o, Serving(r, o), CreateTemplate(r)
    PROVE  Carries(db, db')
<1> DEFINE row == [system |-> FALSE, active |-> o.active, code |-> o.code]
<1>1. o.kind = "create_template" /\ o = requests[r].op
  BY DEF Serves, Serving, CreateTemplate
<1>2. o.template \in Templates /\ o.active \in BOOLEAN /\ o.code \in TemplateCodes
  BY <1>1 DEF Serving, IsOperation, TemplateRoutes
<1>3. \/ db' = db
      \/ /\ ~IsTemplateCodeTaken(db, o.template, o.code)
         /\ db' = [db EXCEPT !.templates[o.template] = row]
  BY <1>1 DEF CreateTemplate, Settle, Answer, Commit
<1>4. row \in TemplateRow /\ row.code = o.code
  BY <1>2, TemplateRows
<1> HIDE DEF row
<1>5. db \in Tables /\ Agree(db)
  BY DEF Serving
<1> QED
  BY <1>2, <1>3, <1>4, <1>5, PutTemplate, Unchanged

(* ProjectTemplateService.update_template.                                 *)
LEMMA UpdateTemplateCarries ==
    ASSUME NEW r \in Requests, NEW o, Serving(r, o), UpdateTemplate(r)
    PROVE  Carries(db, db')
<1> DEFINE saw == Seen(r).templates[o.template].code
           now == db.templates[o.template]
           code == Written(saw, o.code, now.code)
           row == [now EXCEPT !.code = code]
<1>1. o.kind = "update_template" /\ o = requests[r].op
  BY DEF Serves, Serving, UpdateTemplate
<1>2. o.template \in Templates /\ o.code \in TemplateCodes
  BY <1>1 DEF Serving, IsOperation, TemplateRoutes
<1>3. \/ db' = db
      \/ /\ o.template \in Rows(db.templates)
         /\ o.code # saw => ~IsTemplateCodeTaken(db, o.template, o.code)
         /\ db' = [db EXCEPT !.templates[o.template] = row]
  BY <1>1 DEF UpdateTemplate, Settle, Answer, Commit
<1>4. ASSUME o.template \in Rows(db.templates),
             o.code # saw => ~IsTemplateCodeTaken(db, o.template, o.code)
      PROVE  row \in TemplateRow /\ ~IsTemplateCodeTaken(db, o.template, row.code)
  <2>1. now \in TemplateRow
    BY <1>2, <1>4, TableFields DEF Rows, Serving
  <2>2. code \in TemplateCodes
    BY <1>2, <2>1, TemplateFields, WrittenIsEither
  <2>3. ~IsTemplateCodeTaken(db, o.template, now.code)
    BY <1>4 DEF IsTemplateCodeTaken, Serving, Agree, TemplateCodesAreUnique
  <2>4. ~IsTemplateCodeTaken(db, o.template, code)
    BY <1>4, <2>3 DEF Written
  <2> HIDE DEF code
  <2> QED
    BY <2>1, <2>2, <2>4, RecodedTemplateRow
<1> HIDE DEF row
<1>5. db \in Tables /\ Agree(db)
  BY DEF Serving
<1> QED
  BY <1>2, <1>3, <1>4, <1>5, PutTemplate, Unchanged

(* ProjectTemplateService.update_status.                                   *)
LEMMA UpdateTemplateStatusCarries ==
    ASSUME NEW r \in Requests, NEW o, Serving(r, o), UpdateTemplateStatus(r)
    PROVE  Carries(db, db')
<1> DEFINE saw == Seen(r).templates[o.template].active
           now == db.templates[o.template]
           flag == Written(saw, o.active, now.active)
           row == [now EXCEPT !.active = flag]
<1>1. o.kind = "template_status" /\ o = requests[r].op
  BY DEF Serves, Serving, UpdateTemplateStatus
<1>2. o.template \in Templates /\ o.active \in BOOLEAN
  BY <1>1 DEF Serving, IsOperation, TemplateRoutes
<1>3. \/ db' = db
      \/ o.template \in Rows(db.templates) /\ db' = [db EXCEPT !.templates[o.template] = row]
  BY <1>1 DEF UpdateTemplateStatus, Settle, Answer, Commit
<1>4. ASSUME o.template \in Rows(db.templates)
      PROVE  row \in TemplateRow /\ ~IsTemplateCodeTaken(db, o.template, row.code)
  <2>1. now \in TemplateRow
    BY <1>2, <1>4, TableFields DEF Rows, Serving
  <2>2. flag \in BOOLEAN
    BY <1>2, <2>1, TemplateFields, WrittenIsEither
  <2>3. ~IsTemplateCodeTaken(db, o.template, now.code)
    BY <1>4 DEF IsTemplateCodeTaken, Serving, Agree, TemplateCodesAreUnique
  <2> HIDE DEF flag
  <2> QED
    BY <2>1, <2>2, <2>3, SwitchedTemplateRow
<1> HIDE DEF row
<1>5. db \in Tables /\ Agree(db)
  BY DEF Serving
<1> QED
  BY <1>2, <1>3, <1>4, <1>5, PutTemplate, Unchanged

(* A project built from such fields is a row.                              *)
LEMMA ProjectRows ==
    ASSUME NEW active \in BOOLEAN, NEW template \in Templates \cup {None}, NEW key \in ProjectKeys
    PROVE  LET row == [active |-> active, template |-> template, key |-> key]
           IN row \in ProjectRow /\ row.template = template /\ row.key = key
BY DEF ProjectRow

(* The fields of a project.                                                *)
LEMMA ProjectFields ==
    ASSUME NEW row \in ProjectRow
    PROVE  /\ row.active \in BOOLEAN /\ row.template \in Templates \cup {None}
           /\ row.key \in ProjectKeys
BY DEF ProjectRow

(* A project keeps its key when its template is replaced.                  *)
LEMMA BoundProjectRow ==
    ASSUME NEW row \in ProjectRow, NEW template \in Templates \cup {None}
    PROVE  /\ [row EXCEPT !.template = template] \in ProjectRow
           /\ [row EXCEPT !.template = template].template = template
           /\ [row EXCEPT !.template = template].key = row.key
BY DEF ProjectRow

(* A project keeps its template when its key is replaced.                  *)
LEMMA RekeyedProjectRow ==
    ASSUME NEW row \in ProjectRow, NEW key \in ProjectKeys
    PROVE  /\ [row EXCEPT !.key = key] \in ProjectRow
           /\ [row EXCEPT !.key = key].key = key
           /\ [row EXCEPT !.key = key].template = row.template
BY DEF ProjectRow

(* A project keeps its key and template when it is switched on or off.     *)
LEMMA SwitchedProjectRow ==
    ASSUME NEW row \in ProjectRow, NEW flag \in BOOLEAN
    PROVE  /\ [row EXCEPT !.active = flag] \in ProjectRow
           /\ [row EXCEPT !.active = flag].key = row.key
           /\ [row EXCEPT !.active = flag].template = row.template
BY DEF ProjectRow

(* The projects of a deleted template stay, without one.                   *)
LEMMA ProjectsUnbound ==
    ASSUME NEW projects \in [Projects -> ProjectRow \cup NoRow], NEW t
    PROVE  /\ Unbound(projects, t) \in [Projects -> ProjectRow \cup NoRow]
           /\ Rows(Unbound(projects, t)) = Rows(projects)
           /\ \A p \in Rows(projects) :
                  /\ Unbound(projects, t)[p].key = projects[p].key
                  /\ Unbound(projects, t)[p].template =
                         IF projects[p].template = t THEN None ELSE projects[p].template
<1>1. ASSUME NEW p \in Projects, projects[p] \in NoRow \/ projects[p].template # t
      PROVE  Unbound(projects, t)[p] = projects[p]
  BY <1>1 DEF Unbound
<1>2. ASSUME NEW p \in Projects, projects[p] \notin NoRow, projects[p].template = t
      PROVE  /\ Unbound(projects, t)[p] \in ProjectRow
             /\ Unbound(projects, t)[p].template = None
             /\ Unbound(projects, t)[p].key = projects[p].key
  <2>1. Unbound(projects, t)[p] = [projects[p] EXCEPT !.template = None]
    BY <1>2 DEF Unbound
  <2> QED
    BY <1>2, <2>1, BoundProjectRow
<1>3. Unbound(projects, t) \in [Projects -> ProjectRow \cup NoRow]
  <2>1. \A p \in Projects : Unbound(projects, t)[p] \in ProjectRow \cup NoRow
    BY <1>1, <1>2
  <2> QED
    BY <2>1 DEF Unbound
<1>4. Rows(Unbound(projects, t)) = Rows(projects)
  BY <1>1, <1>2, <1>3, RowAssumption DEF Rows
<1> QED
  BY <1>1, <1>2, <1>3, <1>4 DEF Rows

(* A template can be deleted: projects bound to it meanwhile are unbound   *)
(* by the foreign key.                                                     *)
LEMMA TemplateDeleted ==
    ASSUME NEW d \in Tables, Agree(d), NEW t \in Templates
    PROVE  Carries(d, [d EXCEPT !.templates[t] = Gone, !.projects = Unbound(d.projects, t)])
<1> DEFINE e == [d EXCEPT !.templates[t] = Gone, !.projects = Unbound(d.projects, t)]
<1>1. /\ d.projects \in [Projects -> ProjectRow \cup NoRow]
      /\ d.templates \in [Templates -> TemplateRow \cup NoRow]
      /\ Unbound(d.projects, t) \in [Projects -> ProjectRow \cup NoRow]
  BY TableFields, ProjectsUnbound
<1>2. /\ e \in Tables
      /\ e.projects = Unbound(d.projects, t) /\ e.templates = [d.templates EXCEPT ![t] = Gone]
      /\ e.users = d.users /\ e.roles = d.roles /\ e.permissions = d.permissions
      /\ e.menus = d.menus /\ e.models = d.models /\ e.bots = d.bots
  BY <1>1 DEF Tables, NoRow
<1> HIDE DEF e
<1>3. Rows(e.projects) = Rows(d.projects)
  BY <1>1, <1>2, ProjectsUnbound
<1>4. Rows(e.templates) = Rows(d.templates) \ {t}
  BY <1>1, <1>2 DEF Rows, NoRow
<1>5. TemplateCodesAreUnique(e)
  BY <1>1, <1>2, <1>4 DEF Agree, TemplateCodesAreUnique, Rows
<1>6. KeysAreUnique(e)
  BY <1>1, <1>2, <1>3, ProjectsUnbound DEF Agree, KeysAreUnique
<1>7. ProjectsHaveTemplates(e)
  BY <1>1, <1>2, <1>3, <1>4, ProjectsUnbound DEF Agree, ProjectsHaveTemplates, IsMissing
<1>8. Agree(e)
  BY <1>2, <1>5, <1>6, <1>7 DEF Agree, RoleCodesAreUnique, NamesAreUnique,
     PermissionCodesAreUnique, OneDefault, Defaults, UsersHaveRoles, RolesHaveRights,
     BuildsMenuTree
<1>9. Carries(d, e)
  BY <1>2, <1>8 DEF Carries, IsOlder
<1> QED
  BY <1>9 DEF e

(* ProjectTemplateService.delete_template, whose look at the bound         *)
(* projects may be stale.                                                  *)
LEMMA DeleteTemplateCarries ==
    ASSUME NEW r \in Requests, NEW o, Serving(r, o), DeleteTemplate(r)
    PROVE  Carries(db, db')
<1>1. o.kind = "delete_template" /\ o = requests[r].op
  BY DEF Serves, Serving, DeleteTemplate
<1>2. o.template \in Templates
  BY <1>1 DEF Serving, IsOperation, TemplateRoutes
<1>3. \/ db' = db
      \/ db' = [db EXCEPT !.templates[o.template] = Gone,
                          !.projects = Unbound(db.projects, o.template)]
  BY <1>1 DEF DeleteTemplate, Settle, Answer, Commit
<1>4. db \in Tables /\ Agree(db)
  BY DEF Serving
<1> QED
  BY <1>2, <1>3, <1>4, TemplateDeleted, Unchanged

-----------------------------------------------------------------------------
(* ProjectService.create_project.                                          *)
LEMMA CreateProjectCarries ==
    ASSUME NEW r \in Requests, NEW o, Serving(r, o), CreateProject(r)
    PROVE  Carries(db, db')
<1> DEFINE row == [active |-> TRUE, template |-> o.template, key |-> o.key]
<1>1. o.kind = "create_project" /\ o = requests[r].op
  BY DEF Serves, Serving, CreateProject
<1>2. o.project \in Projects /\ o.template \in Templates \cup {None} /\ o.key \in ProjectKeys
  BY <1>1 DEF Serving, IsOperation, ProjectRoutes
<1>3. \/ db' = db
      \/ /\ ~IsKeyTaken(db, o.project, o.key) /\ ~IsMissing(db, o.template)
         /\ db' = [db EXCEPT !.projects[o.project] = row]
  BY <1>1 DEF CreateProject, Settle, Answer, Commit
<1>4. row \in ProjectRow /\ row.template = o.template /\ row.key = o.key
  BY <1>2, ProjectRows
<1> HIDE DEF row
<1>5. db \in Tables /\ Agree(db)
  BY DEF Serving
<1> QED
  BY <1>2, <1>3, <1>4, <1>5, PutProject, Unchanged

(* ProjectService.update_project: a key or a template that is not written  *)
(* is still unique and there.                                              *)
LEMMA UpdateProjectCarries ==
    ASSUME NEW r \in Requests, NEW o, Serving(r, o), UpdateProject(r)
    PROVE  Carries(db, db')
<1> DEFINE saw == Seen(r).projects[o.project]
           now == db.projects[o.project]
           template == Written(saw.template, o.template, now.template)
           key == Written(saw.key, o.key, now.key)
           bound == [now EXCEPT !.template = template]
           row == [bound EXCEPT !.key = key]
<1>1. o.kind = "update_project" /\ o = requests[r].op
  BY DEF Serves, Serving, UpdateProject
<1>2. o.project \in Projects /\ o.template \in Templates \cup {None} /\ o.key \in ProjectKeys
  BY <1>1 DEF Serving, IsOperation, ProjectRoutes
<1>3. \/ db' = db
      \/ /\ o.project \in Rows(db.projects)
         /\ o.key # saw.key => ~IsKeyTaken(db, o.project, o.key)
         /\ o.template # saw.template => ~IsMissing(db, o.template)
         /\ db' = [db EXCEPT !.projects[o.project].template = Written(saw.template, o.template, @),
                             !.projects[o.project].key = Written(saw.key, o.key, @)]
  BY <1>1 DEF UpdateProject, Settle, Answer, Commit
<1>4. ASSUME o.project \in Rows(db.projects),
             o.key # saw.key => ~IsKeyTaken(db, o.project, o.key),
             o.template # saw.template => ~IsMissing(db, o.template)
      PROVE  /\ row \in ProjectRow
             /\ ~IsMissing(db, row.template) /\ ~IsKeyTaken(db, o.project, row.key)
             /\ [db EXCEPT !.projects[o.project].template = Written(saw.template, o.template, @),
                           !.projects[o.project].key = Written(saw.key, o.key, @)] =
                    [db EXCEPT !.projects[o.project] = row]
  <2>1. now \in ProjectRow
    BY <1>2, <1>4, TableFields DEF Rows, Serving
  <2>2. template \in Templates \cup {None} /\ key \in ProjectKeys
    BY <1>2, <2>1, ProjectFields, WrittenIsEither
  <2>3. ~IsKeyTaken(db, o.project, now.key) /\ ~IsMissing(db, now.template)
    BY <1>4 DEF IsKeyTaken, Serving, Agree, KeysAreUnique, ProjectsHaveTemplates
  <2>4. ~IsKeyTaken(db, o.project, key) /\ ~IsMissing(db, template)
    BY <1>4, <2>3 DEF Written
  <2>5. bound \in ProjectRow /\ bound.template = template /\ bound.key = now.key
    <3> HIDE DEF template
    <3> QED
      BY <2>1, <2>2, BoundProjectRow
  <2>6. row \in ProjectRow /\ row.template = template /\ row.key = key
    <3> HIDE DEF template, key, bound
    <3> QED
      BY <2>2, <2>5, RekeyedProjectRow
  <2>7. "projects" \in DOMAIN db /\ o.project \in DOMAIN db.projects
    BY <1>2 DEF Serving, Tables
  <2>8. [db EXCEPT !.projects[o.project].template = Written(saw.template, o.template, @),
                   !.projects[o.project].key = Written(saw.key, o.key, @)] =
            [db EXCEPT !.projects[o.project] = row]
    BY <2>5, <2>7
  <2> QED
    BY <2>4, <2>6, <2>8
<1> HIDE DEF row
<1>5. db \in Tables /\ Agree(db)
  BY DEF Serving
<1> QED
  BY <1>2, <1>3, <1>4, <1>5, PutProject, Unchanged

(* ProjectService.update_status.                                           *)
LEMMA UpdateProjectStatusCarries ==
    ASSUME NEW r \in Requests, NEW o, Serving(r, o), UpdateProjectStatus(r)
    PROVE  Carries(db, db')
<1> DEFINE saw == Seen(r).projects[o.project].active
           now == db.projects[o.project]
           flag == Written(saw, o.active, now.active)
           row == [now EXCEPT !.active = flag]
<1>1. o.kind = "project_status" /\ o = requests[r].op
  BY DEF Serves, Serving, UpdateProjectStatus
<1>2. o.project \in Projects /\ o.active \in BOOLEAN
  BY <1>1 DEF Serving, IsOperation, ProjectRoutes
<1>3. \/ db' = db
      \/ o.project \in Rows(db.projects) /\ db' = [db EXCEPT !.projects[o.project] = row]
  BY <1>1 DEF UpdateProjectStatus, Settle, Answer, Commit
<1>4. ASSUME o.project \in Rows(db.projects)
      PROVE  /\ row \in ProjectRow
             /\ ~IsMissing(db, row.template) /\ ~IsKeyTaken(db, o.project, row.key)
  <2>1. now \in ProjectRow
    BY <1>2, <1>4, TableFields DEF Rows, Serving
  <2>2. flag \in BOOLEAN
    BY <1>2, <2>1, ProjectFields, WrittenIsEither
  <2>3. ~IsKeyTaken(db, o.project, now.key) /\ ~IsMissing(db, now.template)
    BY <1>4 DEF IsKeyTaken, Serving, Agree, KeysAreUnique, ProjectsHaveTemplates
  <2> HIDE DEF flag
  <2> QED
    BY <2>1, <2>2, <2>3, SwitchedProjectRow
<1> HIDE DEF row
<1>5. db \in Tables /\ Agree(db)
  BY DEF Serving
<1> QED
  BY <1>2, <1>3, <1>4, <1>5, PutProject, Unchanged

(* A project can be deleted.                                               *)
LEMMA ProjectDeleted ==
    ASSUME NEW d \in Tables, Agree(d), NEW p \in Projects
    PROVE  Carries(d, [d EXCEPT !.projects[p] = Gone])
<1>1. Gone \in ProjectRow \cup NoRow /\ Gone \notin ProjectRow
  BY RowAssumption DEF NoRow
<1> QED
  BY <1>1, PutProject

(* ProjectService.delete_project.                                          *)
LEMMA DeleteProjectCarries ==
    ASSUME NEW r \in Requests, NEW o, Serving(r, o), DeleteProject(r)
    PROVE  Carries(db, db')
<1>1. o.kind = "delete_project" /\ o = requests[r].op
  BY DEF Serves, Serving, DeleteProject
<1>2. o.project \in Projects
  BY <1>1 DEF Serving, IsOperation, ProjectRoutes
<1>3. db' = db \/ db' = [db EXCEPT !.projects[o.project] = Gone]
  BY <1>1 DEF DeleteProject, Settle, Answer, Commit
<1>4. db \in Tables /\ Agree(db)
  BY DEF Serving
<1> QED
  BY <1>2, <1>3, <1>4, ProjectDeleted, Unchanged

-----------------------------------------------------------------------------
(* A model built from such fields is a row.                                *)
LEMMA ModelRows ==
    ASSUME NEW default \in BOOLEAN, NEW active \in BOOLEAN
    PROVE  LET row == [default |-> default, active |-> active]
           IN row \in ModelRow /\ row.default = default
BY DEF ModelRow

(* The fields of a model.                                                  *)
LEMMA ModelFields ==
    ASSUME NEW row \in ModelRow
    PROVE  row.default \in BOOLEAN /\ row.active \in BOOLEAN
BY DEF ModelRow

(* A model keeps its status when it becomes the default or no longer is.   *)
LEMMA ChosenModelRow ==
    ASSUME NEW row \in ModelRow, NEW flag \in BOOLEAN
    PROVE  /\ [row EXCEPT !.default = flag] \in ModelRow
           /\ [row EXCEPT !.default = flag].default = flag
BY DEF ModelRow

(* A model stays the default, or not, when it is switched on or off.       *)
LEMMA SwitchedModelRow ==
    ASSUME NEW row \in ModelRow, NEW flag \in BOOLEAN
    PROVE  /\ [row EXCEPT !.active = flag] \in ModelRow
           /\ [row EXCEPT !.active = flag].default = row.default
BY DEF ModelRow

(* One who is the default has no other beside it.                          *)
LEMMA DefaultIsAlone ==
    ASSUME NEW d, OneDefault(d), NEW m \in Rows(d.models), d.models[m].default
    PROVE  ~HasOtherDefault(d, m)
BY DEF OneDefault, Defaults, HasOtherDefault

(* LlmModelService.create_model: the partial index stands behind the look. *)
LEMMA CreateModelCarries ==
    ASSUME NEW r \in Requests, NEW o, Serving(r, o), CreateModel(r)
    PROVE  Carries(db, db')
<1> DEFINE row == [default |-> o.default, active |-> o.active]
<1>1. o.kind = "create_model" /\ o = requests[r].op
  BY DEF Serves, Serving, CreateModel
<1>2. o.model \in Models /\ o.default \in BOOLEAN /\ o.active \in BOOLEAN
  BY <1>1 DEF Serving, IsOperation, ModelRoutes
<1>3. \/ db' = db
      \/ /\ o.default => ~HasOtherDefault(db, o.model)
         /\ db' = [db EXCEPT !.models[o.model] = row]
  BY <1>1 DEF CreateModel, Settle, Answer, Commit
<1>4. row \in ModelRow /\ row.default = o.default
  BY <1>2, ModelRows
<1> HIDE DEF row
<1>5. db \in Tables /\ Agree(db)
  BY DEF Serving
<1> QED
  BY <1>2, <1>3, <1>4, <1>5, PutModel, Unchanged

(* LlmModelService.update_model: the default is checked again where it is  *)
(* written.                                                                *)
LEMMA UpdateModelCarries ==
    ASSUME NEW r \in Requests, NEW o, Serving(r, o), UpdateModel(r)
    PROVE  Carries(db, db')
<1> DEFINE saw == Seen(r).models[o.model]
           now == db.models[o.model]
           default == Written(saw.default, o.default, now.default)
           active == Written(saw.active, o.active, now.active)
           chosen == [now EXCEPT !.default = default]
           row == [chosen EXCEPT !.active = active]
<1>1. o.kind = "update_model" /\ o = requests[r].op
  BY DEF Serves, Serving, UpdateModel
<1>2. o.model \in Models /\ o.default \in BOOLEAN /\ o.active \in BOOLEAN
  BY <1>1 DEF Serving, IsOperation, ModelRoutes
<1>3. \/ db' = db
      \/ /\ o.model \in Rows(db.models)
         /\ o.default /\ ~saw.default => ~HasOtherDefault(db, o.model)
         /\ db' = [db EXCEPT !.models[o.model].default = Written(saw.default, o.default, @),
                             !.models[o.model].active = Written(saw.active, o.active, @)]
  BY <1>1 DEF UpdateModel, Settle, Answer, Commit, Serving, IsOlder
<1>4. ASSUME o.model \in Rows(db.models),
             o.default /\ ~saw.default => ~HasOtherDefault(db, o.model)
      PROVE  /\ row \in ModelRow
             /\ row.default => ~HasOtherDefault(db, o.model)
             /\ [db EXCEPT !.models[o.model].default = Written(saw.default, o.default, @),
                           !.models[o.model].active = Written(saw.active, o.active, @)] =
                    [db EXCEPT !.models[o.model] = row]
  <2>1. now \in ModelRow
    BY <1>2, <1>4, TableFields DEF Rows, Serving
  <2>2. default \in BOOLEAN /\ active \in BOOLEAN
    BY <1>2, <2>1, ModelFields, WrittenIsEither
  <2>3. now.default => ~HasOtherDefault(db, o.model)
    BY <1>4, DefaultIsAlone DEF Serving, Agree
  <2>4. default => ~HasOtherDefault(db, o.model)
    BY <1>4, <2>3 DEF Written
  <2>5. chosen \in ModelRow /\ chosen.default = default /\ chosen.active = now.active
    BY <2>1, <2>2 DEF ModelRow
  <2>6. row \in ModelRow /\ row.default = default
    <3> HIDE DEF default, active, chosen
    <3> QED
      BY <2>2, <2>5, SwitchedModelRow
  <2>7. "models" \in DOMAIN db /\ o.model \in DOMAIN db.models
    BY <1>2 DEF Serving, Tables
  <2>8. [db EXCEPT !.models[o.model].default = Written(saw.default, o.default, @),
                   !.models[o.model].active = Written(saw.active, o.active, @)] =
            [db EXCEPT !.models[o.model] = row]
    BY <2>5, <2>7
  <2> QED
    BY <2>4, <2>6, <2>8
<1> HIDE DEF row
<1>5. db \in Tables /\ Agree(db)
  BY DEF Serving
<1> QED
  BY <1>2, <1>3, <1>4, <1>5, PutModel, Unchanged

(* LlmModelService.update_status.                                          *)
LEMMA UpdateModelStatusCarries ==
    ASSUME NEW r \in Requests, NEW o, Serving(r, o), UpdateModelStatus(r)
    PROVE  Carries(db, db')
<1> DEFINE saw == Seen(r).models[o.model].active
           now == db.models[o.model]
           flag == Written(saw, o.active, now.active)
           row == [now EXCEPT !.active = flag]
<1>1. o.kind = "model_status" /\ o = requests[r].op
  BY DEF Serves, Serving, UpdateModelStatus
<1>2. o.model \in Models /\ o.active \in BOOLEAN
  BY <1>1 DEF Serving, IsOperation, ModelRoutes
<1>3. \/ db' = db
      \/ o.model \in Rows(db.models) /\ db' = [db EXCEPT !.models[o.model] = row]
  BY <1>1 DEF UpdateModelStatus, Settle, Answer, Commit, Serving, IsOlder
<1>4. ASSUME o.model \in Rows(db.models)
      PROVE  row \in ModelRow /\ (row.default => ~HasOtherDefault(db, o.model))
  <2>1. now \in ModelRow
    BY <1>2, <1>4, TableFields DEF Rows, Serving
  <2>2. flag \in BOOLEAN
    BY <1>2, <2>1, ModelFields, WrittenIsEither
  <2>3. now.default => ~HasOtherDefault(db, o.model)
    BY <1>4, DefaultIsAlone DEF Serving, Agree
  <2>4. row \in ModelRow /\ row.default = now.default
    <3> HIDE DEF flag
    <3> QED
      BY <2>1, <2>2, SwitchedModelRow
  <2> QED
    BY <2>3, <2>4
<1> HIDE DEF row
<1>5. db \in Tables /\ Agree(db)
  BY DEF Serving
<1> QED
  BY <1>2, <1>3, <1>4, <1>5, PutModel, Unchanged

-----------------------------------------------------------------------------
(* The fields of a bot.                                                    *)
LEMMA BotRows ==
    ASSUME NEW active \in BOOLEAN
    PROVE  /\ [active |-> active, tested |-> "never"] \in BotRow
           /\ \A row \in BotRow : row.active \in BOOLEAN
           /\ \A row \in BotRow : [row EXCEPT !.active = active] \in BotRow
           /\ \A row \in BotRow, result \in {"success", "failed"} :
                  [row EXCEPT !.tested = result] \in BotRow
BY DEF BotRow

(* NotificationBotService.create_bot.                                      *)
LEMMA CreateBotCarries ==
    ASSUME NEW r \in Requests, NEW o, Serving(r, o), CreateBot(r)
    PROVE  Carries(db, db')
<1> DEFINE row == [active |-> o.active, tested |-> "never"]
<1>1. o.kind = "create_bot" /\ o = requests[r].op
  BY DEF Serves, Serving, CreateBot
<1>2. o.bot \in Bots /\ o.active \in BOOLEAN
  BY <1>1 DEF Serving, IsOperation, BotRoutes
<1>3. db' = db \/ db' = [db EXCEPT !.bots[o.bot] = row]
  BY <1>1 DEF CreateBot, Settle, Answer, Commit
<1>4. row \in BotRow
  BY <1>2, BotRows
<1> HIDE DEF row
<1>5. db \in Tables /\ Agree(db)
  BY DEF Serving
<1> QED
  BY <1>2, <1>3, <1>4, <1>5, PutBot, Unchanged

(* NotificationBotService.update_bot.                                      *)
LEMMA UpdateBotCarries ==
    ASSUME NEW r \in Requests, NEW o, Serving(r, o), UpdateBot(r)
    PROVE  Carries(db, db')
<1> DEFINE saw == Seen(r).bots[o.bot].active
           now == db.bots[o.bot]
           flag == Written(saw, o.active, now.active)
           row == [now EXCEPT !.active = flag]
<1>1. o.kind = "update_bot" /\ o = requests[r].op
  BY DEF Serves, Serving, UpdateBot
<1>2. o.bot \in Bots /\ o.active \in BOOLEAN
  BY <1>1 DEF Serving, IsOperation, BotRoutes
<1>3. db' = db \/ (o.bot \in Rows(db.bots) /\ db' = [db EXCEPT !.bots[o.bot] = row])
  BY <1>1 DEF UpdateBot, Settle, Answer, Commit, Serving, IsOlder
<1>4. ASSUME o.bot \in Rows(db.bots)
      PROVE  row \in BotRow
  <2>1. now \in BotRow
    BY <1>2, <1>4, TableFields DEF Rows, Serving
  <2>2. flag \in BOOLEAN
    BY <1>2, <2>1, BotRows, WrittenIsEither
  <2> HIDE DEF flag
  <2> QED
    BY <2>1, <2>2, BotRows
<1> HIDE DEF row
<1>5. db \in Tables /\ Agree(db)
  BY DEF Serving
<1> QED
  BY <1>2, <1>3, <1>4, <1>5, PutBot, Unchanged

(* NotificationBotService.update_status.                                   *)
LEMMA UpdateBotStatusCarries ==
    ASSUME NEW r \in Requests, NEW o, Serving(r, o), UpdateBotStatus(r)
    PROVE  Carries(db, db')
<1> DEFINE saw == Seen(r).bots[o.bot].active
           now == db.bots[o.bot]
           flag == Written(saw, o.active, now.active)
           row == [now EXCEPT !.active = flag]
<1>1. o.kind = "bot_status" /\ o = requests[r].op
  BY DEF Serves, Serving, UpdateBotStatus
<1>2. o.bot \in Bots /\ o.active \in BOOLEAN
  BY <1>1 DEF Serving, IsOperation, BotRoutes
<1>3. db' = db \/ (o.bot \in Rows(db.bots) /\ db' = [db EXCEPT !.bots[o.bot] = row])
  BY <1>1 DEF UpdateBotStatus, Settle, Answer, Commit, Serving, IsOlder
<1>4. ASSUME o.bot \in Rows(db.bots)
      PROVE  row \in BotRow
  <2>1. now \in BotRow
    BY <1>2, <1>4, TableFields DEF Rows, Serving
  <2>2. flag \in BOOLEAN
    BY <1>2, <2>1, BotRows, WrittenIsEither
  <2> HIDE DEF flag
  <2> QED
    BY <2>1, <2>2, BotRows
<1> HIDE DEF row
<1>5. db \in Tables /\ Agree(db)
  BY DEF Serving
<1> QED
  BY <1>2, <1>3, <1>4, <1>5, PutBot, Unchanged

(* NotificationBotService.test_bot.                                        *)
LEMMA TestBotCarries ==
    ASSUME NEW r \in Requests, NEW o, Serving(r, o), TestBot(r)
    PROVE  Carries(db, db')
<1>1. o.kind = "test_bot" /\ o = requests[r].op
  BY DEF Serves, Serving, TestBot
<1>2. o.bot \in Bots
  BY <1>1 DEF Serving, IsOperation, BotRoutes
<1>3. PICK result \in {"success", "failed"} :
          \/ db' = db
          \/ /\ o.bot \in Rows(db.bots)
             /\ db' = [db EXCEPT !.bots[o.bot] = [db.bots[o.bot] EXCEPT !.tested = result]]
  BY <1>1 DEF TestBot, Settle, Answer, Commit, Serving, IsOlder
<1>4. ASSUME o.bot \in Rows(db.bots)
      PROVE  [db.bots[o.bot] EXCEPT !.tested = result] \in BotRow
  BY <1>2, <1>4, TableFields, BotRows DEF Rows, Serving
<1>5. db \in Tables /\ Agree(db)
  BY DEF Serving
<1> QED
  BY <1>2, <1>3, <1>4, <1>5, PutBot, Unchanged

(* AuditLogService.purge_business_logs leaves the tables alone.            *)
LEMMA PurgeAuditCarries ==
    ASSUME NEW r \in Requests, NEW o, Serving(r, o), PurgeAudit(r)
    PROVE  Carries(db, db')
BY Unchanged DEF Serving, PurgeAudit

(* Each operation serves the requests of its own kind.                     *)
LEMMA KindsServed ==
    ASSUME NEW r
    PROVE  /\ CreateUser(r) => Serves(r, "create_user")
           /\ UpdateUser(r) => Serves(r, "update_user")
           /\ UpdateUserStatus(r) => Serves(r, "user_status")
           /\ ResetPassword(r) => Serves(r, "reset_password")
           /\ AssignRoles(r) => Serves(r, "assign_roles")
           /\ DeleteUser(r) => Serves(r, "delete_user")
           /\ CreateRole(r) => Serves(r, "create_role")
           /\ UpdateRole(r) => Serves(r, "update_role")
           /\ DeleteRole(r) => Serves(r, "delete_role")
           /\ AssignPermissions(r) => Serves(r, "assign_permissions")
           /\ AssignMenus(r) => Serves(r, "assign_menus")
           /\ CreatePermission(r) => Serves(r, "create_permission")
           /\ UpdatePermission(r) => Serves(r, "update_permission")
           /\ DeletePermission(r) => Serves(r, "delete_permission")
           /\ CreateMenu(r) => Serves(r, "create_menu")
           /\ UpdateMenu(r) => Serves(r, "update_menu")
           /\ DeleteMenu(r) => Serves(r, "delete_menu")
           /\ CreateProject(r) => Serves(r, "create_project")
           /\ UpdateProject(r) => Serves(r, "update_project")
           /\ UpdateProjectStatus(r) => Serves(r, "project_status")
           /\ DeleteProject(r) => Serves(r, "delete_project")
           /\ CreateTemplate(r) => Serves(r, "create_template")
           /\ UpdateTemplate(r) => Serves(r, "update_template")
           /\ UpdateTemplateStatus(r) => Serves(r, "template_status")
           /\ DeleteTemplate(r) => Serves(r, "delete_template")
           /\ CreateModel(r) => Serves(r, "create_model")
           /\ UpdateModel(r) => Serves(r, "update_model")
           /\ UpdateModelStatus(r) => Serves(r, "model_status")
           /\ CreateBot(r) => Serves(r, "create_bot")
           /\ UpdateBot(r) => Serves(r, "update_bot")
           /\ UpdateBotStatus(r) => Serves(r, "bot_status")
           /\ TestBot(r) => Serves(r, "test_bot")
           /\ PurgeAudit(r) => Serves(r, "purge_audit")
<1>1. CreateUser(r) => Serves(r, "create_user")
  BY DEF CreateUser
<1>2. UpdateUser(r) => Serves(r, "update_user")
  BY DEF UpdateUser
<1>3. UpdateUserStatus(r) => Serves(r, "user_status")
  BY DEF UpdateUserStatus
<1>4. ResetPassword(r) => Serves(r, "reset_password")
  BY DEF ResetPassword
<1>5. AssignRoles(r) => Serves(r, "assign_roles")
  BY DEF AssignRoles
<1>6. DeleteUser(r) => Serves(r, "delete_user")
  BY DEF DeleteUser
<1>7. CreateRole(r) => Serves(r, "create_role")
  BY DEF CreateRole
<1>8. UpdateRole(r) => Serves(r, "update_role")
  BY DEF UpdateRole
<1>9. DeleteRole(r) => Serves(r, "delete_role")
  BY DEF DeleteRole
<1>10. AssignPermissions(r) => Serves(r, "assign_permissions")
  BY DEF AssignPermissions
<1>11. AssignMenus(r) => Serves(r, "assign_menus")
  BY DEF AssignMenus
<1>12. CreatePermission(r) => Serves(r, "create_permission")
  BY DEF CreatePermission
<1>13. UpdatePermission(r) => Serves(r, "update_permission")
  BY DEF UpdatePermission
<1>14. DeletePermission(r) => Serves(r, "delete_permission")
  BY DEF DeletePermission
<1>15. CreateMenu(r) => Serves(r, "create_menu")
  BY DEF CreateMenu
<1>16. UpdateMenu(r) => Serves(r, "update_menu")
  BY DEF UpdateMenu
<1>17. DeleteMenu(r) => Serves(r, "delete_menu")
  BY DEF DeleteMenu
<1>18. CreateProject(r) => Serves(r, "create_project")
  BY DEF CreateProject
<1>19. UpdateProject(r) => Serves(r, "update_project")
  BY DEF UpdateProject
<1>20. UpdateProjectStatus(r) => Serves(r, "project_status")
  BY DEF UpdateProjectStatus
<1>21. DeleteProject(r) => Serves(r, "delete_project")
  BY DEF DeleteProject
<1>22. CreateTemplate(r) => Serves(r, "create_template")
  BY DEF CreateTemplate
<1>23. UpdateTemplate(r) => Serves(r, "update_template")
  BY DEF UpdateTemplate
<1>24. UpdateTemplateStatus(r) => Serves(r, "template_status")
  BY DEF UpdateTemplateStatus
<1>25. DeleteTemplate(r) => Serves(r, "delete_template")
  BY DEF DeleteTemplate
<1>26. CreateModel(r) => Serves(r, "create_model")
  BY DEF CreateModel
<1>27. UpdateModel(r) => Serves(r, "update_model")
  BY DEF UpdateModel
<1>28. UpdateModelStatus(r) => Serves(r, "model_status")
  BY DEF UpdateModelStatus
<1>29. CreateBot(r) => Serves(r, "create_bot")
  BY DEF CreateBot
<1>30. UpdateBot(r) => Serves(r, "update_bot")
  BY DEF UpdateBot
<1>31. UpdateBotStatus(r) => Serves(r, "bot_status")
  BY DEF UpdateBotStatus
<1>32. TestBot(r) => Serves(r, "test_bot")
  BY DEF TestBot
<1>33. PurgeAudit(r) => Serves(r, "purge_audit")
  BY DEF PurgeAudit
<1> QED
  BY <1>1, <1>2, <1>3, <1>4, <1>5, <1>6, <1>7, <1>8, <1>9, <1>10, <1>11, <1>12, <1>13, <1>14,
     <1>15, <1>16, <1>17, <1>18, <1>19, <1>20, <1>21, <1>22, <1>23, <1>24, <1>25, <1>26,
     <1>27, <1>28, <1>29, <1>30, <1>31, <1>32, <1>33

(* Whatever an operation does, and whatever another transaction committed  *)
(* since it read, it leaves tables that agree.                             *)
LEMMA HandleCarries ==
    ASSUME AdminInvariant, NEW r \in Requests, Handle(r)
    PROVE  Carries(db, db')
<1> DEFINE o == requests[r].op
<1>1. \E kind : Serves(r, kind)
  BY KindsServed DEF Handle
<1>2. Serving(r, o)
  BY <1>1, Served
<1> HIDE DEF o
<1> QED
  BY <1>2, CreateUserCarries, UpdateUserCarries, UpdateUserStatusCarries, ResetPasswordCarries,
     AssignRolesCarries, DeleteUserCarries, CreateRoleCarries, UpdateRoleCarries,
     DeleteRoleCarries, AssignPermissionsCarries, AssignMenusCarries,
     CreatePermissionCarries, UpdatePermissionCarries, DeletePermissionCarries,
     CreateMenuCarries, UpdateMenuCarries, DeleteMenuCarries, CreateProjectCarries,
     UpdateProjectCarries, UpdateProjectStatusCarries, DeleteProjectCarries,
     CreateTemplateCarries, UpdateTemplateCarries, UpdateTemplateStatusCarries,
     DeleteTemplateCarries, CreateModelCarries, UpdateModelCarries,
     UpdateModelStatusCarries, CreateBotCarries, UpdateBotCarries,
     UpdateBotStatusCarries, TestBotCarries, PurgeAuditCarries DEF Handle

-----------------------------------------------------------------------------
(* What a handler leaves behind, whichever it is: an answer that changes   *)
(* nothing else, or a commit with its entry.                               *)
Concludes(r) ==
    /\ \/ requests' = [requests EXCEPT ![r] = NoRequest]
       \/ requests' = [requests EXCEPT ![r] = [phase |-> "failed", kind |-> requests[r].op.kind]]
    /\ \/ db' = db /\ audit' = audit
       \/ audit' = RecordAction(r)
       \/ PurgeAudit(r)
    /\ processes' = processes

(* An answer concludes a request so.                                       *)
LEMMA AnswersConclude ==
    ASSUME NEW r, NEW status, Answer(r, status)
    PROVE  Concludes(r)
BY DEF Concludes, Answer, Over, Put

(* And so does a commit.                                                   *)
LEMMA CommitsConclude ==
    ASSUME NEW r, NEW tables, Commit(r, tables)
    PROVE  Concludes(r)
BY DEF Concludes, Commit, Put

(* Every handler concludes its request so.                                 *)
LEMMA HandleConcludes ==
    ASSUME NEW r, Handle(r)
    PROVE  Concludes(r)
<1>1. CreateUser(r) => Concludes(r)
  BY AnswersConclude, CommitsConclude DEF CreateUser, Settle
<1>2. UpdateUser(r) => Concludes(r)
  BY AnswersConclude, CommitsConclude DEF UpdateUser, Settle
<1>3. UpdateUserStatus(r) => Concludes(r)
  BY AnswersConclude, CommitsConclude DEF UpdateUserStatus, Settle
<1>4. ResetPassword(r) => Concludes(r)
  BY AnswersConclude, CommitsConclude DEF ResetPassword, Settle
<1>5. AssignRoles(r) => Concludes(r)
  BY AnswersConclude, CommitsConclude DEF AssignRoles, Relink, Settle
<1>6. DeleteUser(r) => Concludes(r)
  BY AnswersConclude, CommitsConclude DEF DeleteUser, Settle
<1>7. CreateRole(r) => Concludes(r)
  BY AnswersConclude, CommitsConclude DEF CreateRole, Settle
<1>8. UpdateRole(r) => Concludes(r)
  BY AnswersConclude, CommitsConclude DEF UpdateRole, Settle
<1>9. DeleteRole(r) => Concludes(r)
  BY AnswersConclude, CommitsConclude DEF DeleteRole, Settle
<1>10. AssignPermissions(r) => Concludes(r)
  BY AnswersConclude, CommitsConclude DEF AssignPermissions, Relink, Settle
<1>11. AssignMenus(r) => Concludes(r)
  BY AnswersConclude, CommitsConclude DEF AssignMenus, Relink, Settle
<1>12. CreatePermission(r) => Concludes(r)
  BY AnswersConclude, CommitsConclude DEF CreatePermission, Settle
<1>13. UpdatePermission(r) => Concludes(r)
  BY AnswersConclude, CommitsConclude DEF UpdatePermission, Settle
<1>14. DeletePermission(r) => Concludes(r)
  BY AnswersConclude, CommitsConclude DEF DeletePermission, Settle
<1>15. CreateMenu(r) => Concludes(r)
  BY AnswersConclude, CommitsConclude DEF CreateMenu, Settle
<1>16. UpdateMenu(r) => Concludes(r)
  BY AnswersConclude, CommitsConclude DEF UpdateMenu, Settle
<1>17. DeleteMenu(r) => Concludes(r)
  BY AnswersConclude, CommitsConclude DEF DeleteMenu, Settle
<1>18. CreateProject(r) => Concludes(r)
  BY AnswersConclude, CommitsConclude DEF CreateProject, Settle
<1>19. UpdateProject(r) => Concludes(r)
  BY AnswersConclude, CommitsConclude DEF UpdateProject, Settle
<1>20. UpdateProjectStatus(r) => Concludes(r)
  BY AnswersConclude, CommitsConclude DEF UpdateProjectStatus, Settle
<1>21. DeleteProject(r) => Concludes(r)
  BY AnswersConclude, CommitsConclude DEF DeleteProject, Settle
<1>22. CreateTemplate(r) => Concludes(r)
  BY AnswersConclude, CommitsConclude DEF CreateTemplate, Settle
<1>23. UpdateTemplate(r) => Concludes(r)
  BY AnswersConclude, CommitsConclude DEF UpdateTemplate, Settle
<1>24. UpdateTemplateStatus(r) => Concludes(r)
  BY AnswersConclude, CommitsConclude DEF UpdateTemplateStatus, Settle
<1>25. DeleteTemplate(r) => Concludes(r)
  BY AnswersConclude, CommitsConclude DEF DeleteTemplate, Settle
<1>26. CreateModel(r) => Concludes(r)
  BY AnswersConclude, CommitsConclude DEF CreateModel, Settle
<1>27. UpdateModel(r) => Concludes(r)
  BY AnswersConclude, CommitsConclude DEF UpdateModel, Settle
<1>28. UpdateModelStatus(r) => Concludes(r)
  BY AnswersConclude, CommitsConclude DEF UpdateModelStatus, Settle
<1>29. CreateBot(r) => Concludes(r)
  BY AnswersConclude, CommitsConclude DEF CreateBot, Settle
<1>30. UpdateBot(r) => Concludes(r)
  BY AnswersConclude, CommitsConclude DEF UpdateBot, Settle
<1>31. UpdateBotStatus(r) => Concludes(r)
  BY AnswersConclude, CommitsConclude DEF UpdateBotStatus, Settle
<1>32. TestBot(r) => Concludes(r)
  BY AnswersConclude, CommitsConclude DEF TestBot, Settle
<1>33. PurgeAudit(r) => Concludes(r)
  BY DEF PurgeAudit, Concludes, Put
<1> QED
  BY <1>1, <1>2, <1>3, <1>4, <1>5, <1>6, <1>7, <1>8, <1>9, <1>10, <1>11, <1>12, <1>13, <1>14,
     <1>15, <1>16, <1>17, <1>18, <1>19, <1>20, <1>21, <1>22, <1>23, <1>24, <1>25, <1>26,
     <1>27, <1>28, <1>29, <1>30, <1>31, <1>32, <1>33 DEF Handle

-----------------------------------------------------------------------------
(* What was older stays older when another transaction commits.            *)
LEMMA OlderStays ==
    ASSUME NEW d, NEW e \in Tables, NEW f, IsOlder(d, e), Carries(e, f)
    PROVE  IsOlder(d, f)
BY DEF IsOlder, Carries

(* A request that does not move fits the new tables as it fitted the old.  *)
LEMMA RequestStays ==
    ASSUME db \in Tables, Carries(db, db'), processes' = processes,
           NEW r \in Requests, RequestFits(r), requests'[r] = requests[r]
    PROVE  RequestFits(r)'
BY OlderStays DEF RequestFits

(* So does a start.                                                        *)
LEMMA BootStays ==
    ASSUME db \in Tables, Carries(db, db'), processes' = processes,
           NEW b \in Starters, BootFits(b), boots'[b] = boots[b]
    PROVE  BootFits(b)'
BY OlderStays DEF BootFits

(* The parts of the types that most steps leave alone.                     *)
Fixed ==
    /\ processes' = processes
    /\ agenda'.ops = agenda.ops /\ agenda'.actors = agenda.actors
    /\ agenda'.starters = agenda.starters

(* Then the types hold again.                                              *)
LEMMA TypesStay ==
    ASSUME TypeOK, Fixed, db' \in Tables, audit' \subseteq [kind : AuditedKinds, actor : Users],
           DOMAIN requests' = Requests, DOMAIN boots' = Starters
    PROVE  TypeOK'
BY DEF TypeOK, Fixed

(* A step of one request: the rest of the console only sees the tables.    *)
LEMMA OneRequestMoves ==
    ASSUME AdminInvariant, Fixed, Carries(db, db'), boots' = boots,
           audit' \subseteq [kind : AuditedKinds, actor : Users],
           NEW r \in Requests, NEW q, requests' = [requests EXCEPT ![r] = q], RequestFits(r)'
    PROVE  AdminInvariant'
<1>1. TypeOK /\ db \in Tables /\ DOMAIN requests = Requests /\ DOMAIN boots = Starters
  BY DEF AdminInvariant, TypeOK
<1>2. TypeOK'
  BY <1>1, TypesStay DEF Carries
<1>3. TablesAgree'
  BY DEF TablesAgree, Carries
<1>4. ASSUME NEW x \in Requests PROVE RequestFits(x)'
  <2>1. CASE x = r
    BY <2>1
  <2>2. CASE x # r
    <3>1. requests'[x] = requests[x]
      BY <1>1, <2>2
    <3> QED
      BY <1>1, <3>1, RequestStays DEF AdminInvariant, Fixed
  <2> QED
    BY <2>1, <2>2
<1>5. ASSUME NEW b \in Starters PROVE BootFits(b)'
  BY <1>1, BootStays DEF AdminInvariant, Fixed
<1> QED
  BY <1>2, <1>3, <1>4, <1>5 DEF AdminInvariant

(* A new request fits: the schemas let its operation through.              *)
LEMMA AskFits ==
    ASSUME AdminInvariant, NEW r \in Requests, Ask(r)
    PROVE  AdminInvariant'
<1>1. PICK op \in agenda.ops, u \in agenda.actors : Submit(r, op, u)
  BY DEF Ask
<1> DEFINE q == [phase |-> "authenticate", op |-> op, actor |-> u]
<1>2. /\ requests' = [requests EXCEPT ![r] = q]
      /\ db' = db /\ audit' = audit /\ boots' = boots
  BY <1>1 DEF Submit, Put, Ask
<1>3. Fixed
  BY <1>1 DEF Ask, Submit, Fixed
<1>4. DOMAIN requests = Requests /\ IsOperation(op) /\ u \in Users
  BY DEF AdminInvariant, TypeOK
<1>5. RequestFits(r)'
  <2>1. requests'[r] = q
    BY <1>2, <1>4
  <2> QED
    BY <1>4, <2>1 DEF RequestFits, IsOperation
<1>6. Carries(db, db')
  BY <1>2, Unchanged DEF AdminInvariant, TypeOK, TablesAgree
<1>7. audit' \subseteq [kind : AuditedKinds, actor : Users]
  BY <1>2 DEF AdminInvariant, TypeOK
<1> HIDE DEF q
<1> QED
  BY <1>2, <1>3, <1>5, <1>6, <1>7, OneRequestMoves

(* An answer, or one more phase, with nothing changed in the tables.       *)
LEMMA QuietStepFits ==
    ASSUME AdminInvariant, Fixed, NEW r \in Requests, NEW q,
           requests' = [requests EXCEPT ![r] = q], RequestFits(r)',
           UNCHANGED <<db, audit, boots>>
    PROVE  AdminInvariant'
<1>1. Carries(db, db')
  BY Unchanged DEF AdminInvariant, TypeOK, TablesAgree
<1>2. audit' \subseteq [kind : AuditedKinds, actor : Users] /\ boots' = boots
  BY DEF AdminInvariant, TypeOK
<1> QED
  BY <1>1, <1>2, OneRequestMoves

(* A request that is answered is over.                                     *)
LEMMA AnswerFits ==
    ASSUME AdminInvariant, NEW r \in Requests, NEW status, Answer(r, status), Fixed, boots' = boots
    PROVE  AdminInvariant'
<1>1. requests' = [requests EXCEPT ![r] = Over(r, status)] /\ UNCHANGED <<db, audit, boots>>
  BY DEF Answer, Put
<1>2. DOMAIN requests = Requests
  BY DEF AdminInvariant, TypeOK
<1>3. requests'[r] = NoRequest \/ requests'[r].phase = "failed"
  BY <1>1, <1>2 DEF Over
<1>4. RequestFits(r)'
  BY <1>3 DEF RequestFits
<1> QED
  BY <1>1, <1>4, QuietStepFits

(* Authentication adds the rank of a user who is there.                    *)
LEMMA AuthenticateFits ==
    ASSUME AdminInvariant, NEW r \in Requests, Authenticate(r), Fixed, boots' = boots
    PROVE  AdminInvariant'
<1> DEFINE u == requests[r].actor
           q == [phase |-> "authorize", op |-> requests[r].op, actor |-> u,
                 super |-> db.users[u].super]
<1>1. \/ Answer(r, 401) \/ Answer(r, 403)
      \/ IsActive(u) /\ requests' = [requests EXCEPT ![r] = q] /\ UNCHANGED <<db, audit, boots>>
  BY DEF Authenticate, Put
<1>2. DOMAIN requests = Requests /\ IsOperation(requests[r].op) /\ u \in Users
  BY DEF AdminInvariant, TypeOK, RequestFits, Authenticate, NoRequest
<1>3. ASSUME IsActive(u), requests' = [requests EXCEPT ![r] = q]
      PROVE  RequestFits(r)'
  <2>1. db.users[u] \in UserRow
    BY <1>2, <1>3, TableFields DEF IsActive, Rows, AdminInvariant, TypeOK
  <2>2. db.users[u].super \in BOOLEAN
    BY <2>1, UserRows
  <2>3. requests'[r] = q
    BY <1>2, <1>3
  <2>4. /\ requests'[r].phase = "authorize" /\ requests'[r].op = requests[r].op
        /\ requests'[r].actor = u
    BY <2>3
  <2>5. requests'[r].super \in BOOLEAN
    BY <2>2, <2>3
  <2> QED
    BY <1>2, <2>4, <2>5 DEF RequestFits, IsOperation
<1> HIDE DEF q
<1> QED
  BY <1>1, <1>3, AnswerFits, QuietStepFits

(* Authorization passes the request on as it is.                           *)
LEMMA AuthorizeFits ==
    ASSUME AdminInvariant, NEW r \in Requests, Authorize(r), Fixed, boots' = boots
    PROVE  AdminInvariant'
<1> DEFINE u == requests[r].actor
           q == [phase |-> "handle", op |-> requests[r].op, actor |-> u,
                 super |-> requests[r].super]
<1>1. \/ Answer(r, 500) \/ Answer(r, 403)
      \/ requests' = [requests EXCEPT ![r] = q] /\ UNCHANGED <<db, audit, boots>>
  BY DEF Authorize, Put
<1>2. /\ DOMAIN requests = Requests /\ IsOperation(requests[r].op) /\ u \in Users
      /\ requests[r].super \in BOOLEAN
  BY DEF AdminInvariant, TypeOK, RequestFits, Authorize, NoRequest
<1>3. ASSUME requests' = [requests EXCEPT ![r] = q]
      PROVE  RequestFits(r)'
  <2>1. requests'[r] = q
    BY <1>2, <1>3
  <2>2. /\ requests'[r].phase = "handle" /\ requests'[r].op = requests[r].op
        /\ requests'[r].actor = u
    BY <2>1
  <2>3. requests'[r].super \in BOOLEAN
    BY <1>2, <2>1
  <2> QED
    BY <1>2, <2>2, <2>3 DEF RequestFits, IsOperation
<1> HIDE DEF q
<1> QED
  BY <1>1, <1>3, AnswerFits, QuietStepFits

(* A handler of several processes reads the tables as they are.            *)
LEMMA ReadFits ==
    ASSUME AdminInvariant, NEW r \in Requests, Read(r), Fixed, boots' = boots
    PROVE  AdminInvariant'
<1> DEFINE q == [phase |-> "commit", op |-> requests[r].op, actor |-> requests[r].actor,
                 super |-> requests[r].super, seen |-> db]
<1>1. /\ requests' = [requests EXCEPT ![r] = q] /\ UNCHANGED <<db, audit, boots>>
      /\ processes' = "many"
  BY DEF Read, Put
<1>2. /\ DOMAIN requests = Requests /\ IsOperation(requests[r].op)
      /\ requests[r].actor \in Users /\ requests[r].super \in BOOLEAN
  BY DEF AdminInvariant, TypeOK, RequestFits, Read, NoRequest
<1>3. requests'[r] = q
  BY <1>1, <1>2
<1>4. /\ requests'[r].phase = "commit" /\ requests'[r].op = requests[r].op
      /\ requests'[r].actor = requests[r].actor /\ requests'[r].seen = db
  BY <1>3
<1>5. requests'[r].super \in BOOLEAN
  BY <1>2, <1>3
<1>6. IsOlder(db, db')
  BY <1>1 DEF AdminInvariant, TypeOK, IsOlder
<1>7. RequestFits(r)'
  BY <1>1, <1>2, <1>4, <1>5, <1>6 DEF RequestFits, IsOperation
<1> HIDE DEF q
<1> QED
  BY <1>1, <1>7, QuietStepFits

(* A handler leaves tables that agree and, where its kind is audited, an   *)
(* entry by its actor.                                                     *)
LEMMA HandleFits ==
    ASSUME AdminInvariant, NEW r \in Requests, Handle(r), Fixed, boots' = boots
    PROVE  AdminInvariant'
<1>1. Carries(db, db') /\ Concludes(r)
  BY HandleCarries, HandleConcludes
<1>2. PICK q : /\ q = NoRequest \/ q.phase = "failed"
               /\ requests' = [requests EXCEPT ![r] = q]
  BY <1>1 DEF Concludes
<1>3. DOMAIN requests = Requests
  BY DEF AdminInvariant, TypeOK
<1>4. RequestFits(r)'
  BY <1>2, <1>3 DEF RequestFits
<1>5. requests[r].actor \in Users
  BY KindsServed, Served DEF Handle, Serving
<1>6. audit' \subseteq [kind : AuditedKinds, actor : Users]
  <2>1. audit \subseteq [kind : AuditedKinds, actor : Users]
    BY DEF AdminInvariant, TypeOK
  <2>2. requests[r].op.kind \in AuditedKinds => Entry(r) \in [kind : AuditedKinds, actor : Users]
    BY <1>5 DEF Entry
  <2>3. CASE audit' = audit
    BY <2>1, <2>3
  <2>4. CASE audit' = RecordAction(r)
    BY <2>1, <2>2, <2>4 DEF RecordAction
  <2>5. CASE PurgeAudit(r)
    <3>1. requests[r].op.kind \in AuditedKinds
      BY <2>5 DEF PurgeAudit, Serves, AuditedKinds, SystemKinds, AuditRoutes
    <3> QED
      BY <2>1, <2>2, <2>5, <3>1 DEF PurgeAudit
  <2> QED
    BY <1>1, <2>3, <2>4, <2>5 DEF Concludes
<1> QED
  BY <1>1, <1>2, <1>4, <1>6, OneRequestMoves

(* So does a new password.                                                 *)
LEMMA ChangePasswordFits ==
    ASSUME AdminInvariant, NEW u \in Users, ChangePassword(u), Fixed, boots' = boots
    PROVE  AdminInvariant'
<1>1. /\ Carries(db, db') /\ db \in Tables /\ TypeOK /\ requests' = requests /\ audit' = audit
      /\ DOMAIN requests = Requests /\ DOMAIN boots = Starters /\ processes' = processes
  BY ChangePasswordCarries DEF AdminInvariant, TypeOK, TablesAgree, ChangePassword
<1>2. TypeOK'
  BY <1>1, TypesStay DEF Carries, TypeOK
<1>3. TablesAgree'
  BY <1>1 DEF TablesAgree, Carries
<1>4. \A r \in Requests : RequestFits(r)'
  BY <1>1, RequestStays DEF AdminInvariant
<1>5. \A b \in Starters : BootFits(b)'
  BY <1>1, BootStays DEF AdminInvariant
<1> QED
  BY <1>2, <1>3, <1>4, <1>5 DEF AdminInvariant

-----------------------------------------------------------------------------
(* Starts.  Where there are ids enough, each key gets one of its own.      *)
LEMMA IdsForAll ==
    ASSUME NEW S, NEW T, IsFiniteSet(S), IsFiniteSet(T), Cardinality(S) <= Cardinality(T)
    PROVE  \E at \in [S -> T] : IsInjective(at)
<1>1. PICK f \in Bijection(1 .. Cardinality(S), S) : TRUE
  BY FS_CardinalityType DEF ExistsBijection
<1>2. PICK g \in Bijection(1 .. Cardinality(T), T) : TRUE
  BY FS_CardinalityType DEF ExistsBijection
<1>3. Cardinality(S) \in Nat /\ Cardinality(T) \in Nat
  BY FS_CardinalityType
<1>4. /\ f \in [1 .. Cardinality(S) -> S]
      /\ \A x \in S : \E n \in 1 .. Cardinality(S) : f[n] = x
  BY <1>1 DEF Bijection, Surjection
<1>5. /\ g \in [1 .. Cardinality(T) -> T]
      /\ \A m, n \in 1 .. Cardinality(T) : g[m] = g[n] => m = n
  BY <1>2 DEF Bijection, Injection, IsInjective
<1> DEFINE number(x) == CHOOSE n \in 1 .. Cardinality(S) : f[n] = x
           at == [x \in S |-> g[number(x)]]
<1>6. ASSUME NEW x \in S
      PROVE  number(x) \in 1 .. Cardinality(T) /\ f[number(x)] = x
  BY <1>3, <1>4
<1> HIDE DEF number
<1>7. at \in [S -> T]
  BY <1>5, <1>6
<1>8. IsInjective(at)
  BY <1>5, <1>6 DEF IsInjective
<1> QED
  BY <1>7, <1>8

(* Ids that are numbered are fresh, and different for different keys.      *)
LEMMA FreshIds ==
    ASSUME NEW keys, NEW table, IsFiniteSet(keys), Cardinality(keys) <= Cardinality(Fresh(table))
    PROVE  /\ Numbered(keys, table) \in [keys -> Fresh(table)]
           /\ \A x, y \in keys : Numbered(keys, table)[x] = Numbered(keys, table)[y] => x = y
<1>1. IsFiniteSet(Fresh(table))
  BY FS_Subset, BootAssumption DEF Fresh
<1>2. \E at \in [keys -> Fresh(table)] : IsInjective(at)
  BY <1>1, IdsForAll
<1> QED
  BY <1>2 DEF Numbered, IsInjective

(* A start adds finitely many rows.                                        *)
LEMMA SeedsAreFinite ==
    /\ \A table : IsFiniteSet(Missing(table, SeedPermissions))
    /\ \A table : IsFiniteSet(Missing(table, SeedTemplates))
    /\ \A d : IsFiniteSet(Unplaced(d))
<1>1. ASSUME NEW table
      PROVE  /\ IsFiniteSet(Missing(table, SeedPermissions))
             /\ IsFiniteSet(Missing(table, SeedTemplates))
  BY FS_Subset, BootAssumption DEF Missing
<1>2. IsFiniteSet(SeedPaths)
  <2>1. DOMAIN SeedMenus = 1 .. Len(SeedMenus) /\ Len(SeedMenus) \in Nat
    BY BootAssumption
  <2>2. IsFiniteSet(DOMAIN SeedMenus)
    BY <2>1, FS_Interval
  <2>3. SeedMenus \in Surjection(DOMAIN SeedMenus, SeedPaths)
    BY BootAssumption DEF Surjection, SeedPaths, Range
  <2> QED
    BY <2>2, <2>3, FS_Surjection
<1>3. ASSUME NEW d PROVE IsFiniteSet(Unplaced(d))
  BY <1>2, FS_Subset DEF Unplaced
<1> QED
  BY <1>1, <1>3

(* The missing permissions come under ids of their own, and with codes that*)
(* nobody has.                                                             *)
LEMMA PermissionsAdded ==
    ASSUME NEW d, NEW now \in Tables, PermissionCodesAreUnique(now), HasIds(d, now),
           Missing(d.permissions, SeedPermissions) \subseteq Missing(now.permissions, SeedPermissions)
    PROVE  LET t == Added(now.permissions, Missing(d.permissions, SeedPermissions), SeededPermission)
           IN /\ t \in [Permissions -> PermissionRow \cup NoRow]
              /\ Rows(now.permissions) \subseteq Rows(t)
              /\ \A p, q \in Rows(t) : t[p].code = t[q].code => p = q
<1> DEFINE codes == Missing(d.permissions, SeedPermissions)
           table == now.permissions
           at == Numbered(codes, table)
           code(i) == CHOOSE c \in codes : at[c] = i
           t == Added(table, codes, SeededPermission)
<1>1. table \in [Permissions -> PermissionRow \cup NoRow]
  BY TableFields
<1>2. at \in [codes -> Fresh(table)]
  BY FreshIds, SeedsAreFinite DEF HasIds
<1>3. /\ codes \subseteq SeedPermissions /\ codes \subseteq PermissionCodes
      /\ \A c \in codes, i \in Rows(table) : table[i].code # c
  BY BootAssumption DEF Missing
<1>4. t = [i \in Permissions |-> IF i \in Range(at) THEN SeededPermission(code(i)) ELSE table[i]]
  BY <1>1 DEF Added
<1> HIDE DEF codes, table, at, t
<1>5. ASSUME NEW i \in Range(at)
      PROVE  /\ code(i) \in codes /\ at[code(i)] = i /\ i \in Permissions /\ table[i] = Unborn
  BY <1>1, <1>2 DEF Range, Fresh
<1> HIDE DEF code
<1>6. ASSUME NEW i \in Range(at)
      PROVE  t[i] \in PermissionRow /\ t[i].code = code(i)
  BY <1>3, <1>4, <1>5 DEF SeededPermission, PermissionRow
<1>7. ASSUME NEW i \in Permissions, i \notin Range(at)
      PROVE  t[i] = table[i]
  BY <1>4, <1>7
<1>8. t \in [Permissions -> PermissionRow \cup NoRow]
  <2>1. \A i \in Permissions : t[i] \in PermissionRow \cup NoRow
    BY <1>1, <1>6, <1>7
  <2> QED
    BY <1>4, <2>1
<1>9. Rows(table) \cap Range(at) = {}
  BY <1>5 DEF Rows, NoRow
<1>10. Rows(t) = Rows(table) \cup Range(at)
  BY <1>1, <1>5, <1>6, <1>7, <1>8, RowAssumption DEF Rows, NoRow
<1>11. ASSUME NEW p \in Rows(t), NEW q \in Rows(t), t[p].code = t[q].code
       PROVE  p = q
  <2>1. CASE p \in Range(at) /\ q \in Range(at)
    BY <1>5, <1>6, <1>11, <2>1
  <2>2. CASE p \in Range(at) /\ q \in Rows(table)
    BY <1>1, <1>3, <1>5, <1>6, <1>7, <1>9, <1>11, <2>2 DEF Rows
  <2>3. CASE p \in Rows(table) /\ q \in Range(at)
    BY <1>1, <1>3, <1>5, <1>6, <1>7, <1>9, <1>11, <2>3 DEF Rows
  <2>4. CASE p \in Rows(table) /\ q \in Rows(table)
    BY <1>1, <1>7, <1>9, <1>11, <2>4 DEF Rows, PermissionCodesAreUnique, table
  <2> QED
    BY <1>10, <2>1, <2>2, <2>3, <2>4
<1> QED
  BY <1>8, <1>10, <1>11 DEF t, table, codes

(* The missing templates come under ids of their own, and with codes that  *)
(* nobody has.                                                             *)
LEMMA TemplatesAdded ==
    ASSUME NEW d, NEW now \in Tables, TemplateCodesAreUnique(now), HasIds(d, now),
           Missing(d.templates, SeedTemplates) \subseteq Missing(now.templates, SeedTemplates)
    PROVE  LET t == Added(now.templates, Missing(d.templates, SeedTemplates), SeededTemplate)
           IN /\ t \in [Templates -> TemplateRow \cup NoRow]
              /\ Rows(now.templates) \subseteq Rows(t)
              /\ \A p, q \in Rows(t) : t[p].code = t[q].code => p = q
<1> DEFINE codes == Missing(d.templates, SeedTemplates)
           table == now.templates
           at == Numbered(codes, table)
           code(i) == CHOOSE c \in codes : at[c] = i
           t == Added(table, codes, SeededTemplate)
<1>1. table \in [Templates -> TemplateRow \cup NoRow]
  BY TableFields
<1>2. at \in [codes -> Fresh(table)]
  BY FreshIds, SeedsAreFinite DEF HasIds
<1>3. /\ codes \subseteq SeedTemplates /\ codes \subseteq TemplateCodes
      /\ \A c \in codes, i \in Rows(table) : table[i].code # c
  BY BootAssumption DEF Missing
<1>4. t = [i \in Templates |-> IF i \in Range(at) THEN SeededTemplate(code(i)) ELSE table[i]]
  BY <1>1 DEF Added
<1> HIDE DEF codes, table, at, t
<1>5. ASSUME NEW i \in Range(at)
      PROVE  /\ code(i) \in codes /\ at[code(i)] = i /\ i \in Templates /\ table[i] = Unborn
  BY <1>1, <1>2 DEF Range, Fresh
<1> HIDE DEF code
<1>6. ASSUME NEW i \in Range(at)
      PROVE  t[i] \in TemplateRow /\ t[i].code = code(i)
  BY <1>3, <1>4, <1>5 DEF SeededTemplate, TemplateRow
<1>7. ASSUME NEW i \in Templates, i \notin Range(at)
      PROVE  t[i] = table[i]
  BY <1>4, <1>7
<1>8. t \in [Templates -> TemplateRow \cup NoRow]
  <2>1. \A i \in Templates : t[i] \in TemplateRow \cup NoRow
    BY <1>1, <1>6, <1>7
  <2> QED
    BY <1>4, <2>1
<1>9. Rows(table) \cap Range(at) = {}
  BY <1>5 DEF Rows, NoRow
<1>10. Rows(t) = Rows(table) \cup Range(at)
  BY <1>1, <1>5, <1>6, <1>7, <1>8, RowAssumption DEF Rows, NoRow
<1>11. ASSUME NEW p \in Rows(t), NEW q \in Rows(t), t[p].code = t[q].code
       PROVE  p = q
  <2>1. CASE p \in Range(at) /\ q \in Range(at)
    BY <1>5, <1>6, <1>11, <2>1
  <2>2. CASE p \in Range(at) /\ q \in Rows(table)
    BY <1>1, <1>3, <1>5, <1>6, <1>7, <1>9, <1>11, <2>2 DEF Rows
  <2>3. CASE p \in Rows(table) /\ q \in Range(at)
    BY <1>1, <1>3, <1>5, <1>6, <1>7, <1>9, <1>11, <2>3 DEF Rows
  <2>4. CASE p \in Rows(table) /\ q \in Rows(table)
    BY <1>1, <1>7, <1>9, <1>11, <2>4 DEF Rows, TemplateCodesAreUnique, table
  <2> QED
    BY <1>10, <2>1, <2>2, <2>3, <2>4
<1> QED
  BY <1>8, <1>10, <1>11 DEF t, table, codes

(* Each seeded menu has one place: a menu with its path, or a fresh id.    *)
LEMMA SeedsHavePlaces ==
    ASSUME NEW d \in Tables, NEW now \in Tables, HasIds(d, now), NEW at \in Placements(d, now)
    PROVE  /\ at \in [SeedPaths -> Menus]
           /\ \A p \in SeedPaths :
                  /\ HasPath(d, p) => at[p] \in Rows(d.menus) /\ d.menus[at[p]].path = p
                  /\ ~HasPath(d, p) => now.menus[at[p]] = Unborn
<1>1. Numbered(Unplaced(d), now.menus) \in [Unplaced(d) -> Fresh(now.menus)]
  BY FreshIds, SeedsAreFinite DEF HasIds
<1>2. \A p \in SeedPaths : ~HasPath(d, p) => at[p] \in Fresh(now.menus)
  BY <1>1 DEF Placements, Unplaced
<1> QED
  BY <1>2 DEF Placements, Fresh

(* A start puts the seeded menus where they belong, and every parent is    *)
(* there: it was, or this start has just created it.                       *)
LEMMA MenusEnsured ==
    ASSUME NEW d \in Tables, NEW now \in Tables, BuildsMenuTree(Rows(now.menus), now),
           IsOlder(d, now), HasIds(d, now), NEW at \in Placements(d, now),
           \A k \in DOMAIN SeedMenus :
               Places(d, at, k) /\ HasPath(d, SeedParent[SeedMenus[k]]) =>
                   ParentOf(d, at, k) \in Rows(now.menus),
           \A k \in DOMAIN SeedMenus :
               HasPath(d, SeedMenus[k]) /\ Moves(d, at, k) => at[SeedMenus[k]] \in Rows(now.menus)
    PROVE  LET t == EnsuredMenus(d, now.menus, at)
           IN /\ t \in [Menus -> MenuRow \cup NoRow]
              /\ Rows(now.menus) \subseteq Rows(t)
              /\ \A m \in Rows(t) : t[m].parent \in Rows(t) \cup {None}
              /\ \A m \in Menus : t[m] = Unborn => now.menus[m] = Unborn
<1> DEFINE table == now.menus
           t == EnsuredMenus(d, table, at)
           K == DOMAIN SeedMenus
           created == {at[p] : p \in {q \in SeedPaths : ~HasPath(d, q)}}
           there == Rows(table) \cup created \cup {None}
           seedOf(m) == CHOOSE k \in K : at[SeedMenus[k]] = m
           isMoved(m) == \E k \in K : at[SeedMenus[k]] = m /\ Moves(d, at, k)
<1>1. /\ table \in [Menus -> MenuRow \cup NoRow] /\ d.menus \in [Menus -> MenuRow \cup NoRow]
      /\ at \in [SeedPaths -> Menus]
      /\ \A p \in SeedPaths :
             /\ HasPath(d, p) => at[p] \in Rows(d.menus)
             /\ ~HasPath(d, p) => table[at[p]] = Unborn
  BY TableFields, SeedsHavePlaces
<1>2. /\ \A k \in K : SeedMenus[k] \in SeedPaths /\ SeedMenus[k] \in Paths
      /\ \A p \in SeedPaths : \E k \in K : SeedMenus[k] = p
      /\ \A k \in K : \A j \in 1 .. k - 1 : j \in K
  BY BootAssumption DEF SeedPaths, Range
<1>3. ASSUME NEW k \in K, NEW l \in K, at[SeedMenus[k]] = at[SeedMenus[l]]
      PROVE  HasPath(d, SeedMenus[k]) <=> HasPath(d, SeedMenus[l])
  BY <1>1, <1>2, <1>3 DEF IsOlder, Rows, NoRow
<1>4. ASSUME NEW k \in K, Places(d, at, k)
      PROVE  ParentOf(d, at, k) \in there
  <2> DEFINE parent == SeedParent[SeedMenus[k]]
  <2>1. CASE HasPath(d, parent)
    BY <1>4, <2>1
  <2>2. CASE ~HasPath(d, parent) /\ \E j \in 1 .. k - 1 : SeedMenus[j] = parent
    <3>1. parent \in SeedPaths
      BY <1>2, <2>2
    <3> QED
      BY <2>2, <3>1 DEF ParentOf
  <2>3. CASE ~HasPath(d, parent) /\ ~ \E j \in 1 .. k - 1 : SeedMenus[j] = parent
    BY <2>3 DEF ParentOf
  <2> QED
    BY <2>1, <2>2, <2>3
<1>5. created \subseteq Menus /\ there \subseteq Menus \cup {None}
  BY <1>1 DEF Rows
<1>6. t = [m \in Menus |-> IF isMoved(m) THEN EnsuredMenu(d, table, at, seedOf(m)) ELSE table[m]]
  BY DEF EnsuredMenus
<1>7. ASSUME NEW m \in Menus, isMoved(m)
      PROVE  /\ seedOf(m) \in K /\ at[SeedMenus[seedOf(m)]] = m
             /\ HasPath(d, SeedMenus[seedOf(m)]) => m \in Rows(table)
  <2>1. PICK k \in K : at[SeedMenus[k]] = m /\ Moves(d, at, k)
    BY <1>7
  <2>2. seedOf(m) \in K /\ at[SeedMenus[seedOf(m)]] = m
    BY <2>1
  <2> HIDE DEF seedOf
  <2> QED
    BY <1>3, <2>1, <2>2
<1> HIDE DEF seedOf
<1>8. ASSUME NEW m \in Menus, isMoved(m)
      PROVE  t[m] \in MenuRow /\ t[m].parent \in there
  <2> DEFINE k == seedOf(m)
             parent == ParentOf(d, at, k)
  <2>1. t[m] = EnsuredMenu(d, table, at, k) /\ k \in K /\ at[SeedMenus[k]] = m
    BY <1>6, <1>7, <1>8
  <2>2. CASE ~HasPath(d, SeedMenus[k])
    <3>1. parent \in there
      BY <1>4, <2>1, <2>2 DEF Places
    <3>2. t[m] = [system |-> TRUE, parent |-> parent, path |-> SeedMenus[k]]
      BY <2>1, <2>2 DEF EnsuredMenu
    <3> QED
      BY <1>2, <1>5, <2>1, <3>1, <3>2 DEF MenuRow
  <2>3. CASE HasPath(d, SeedMenus[k])
    <3> DEFINE system == Written(d.menus[m].system, TRUE, table[m].system)
               placed == Written(d.menus[m].parent, parent, table[m].parent)
               marked == [table[m] EXCEPT !.system = system]
    <3>1. m \in Rows(table) /\ table[m] \in MenuRow
      BY <1>1, <1>7, <1>8, <2>3 DEF Rows
    <3>2. system \in BOOLEAN /\ table[m].parent \in there
      <4>1. table[m].system \in BOOLEAN
        BY <3>1 DEF MenuRow
      <4>2. table[m].parent \in Rows(table) \cup {None}
        BY <3>1 DEF BuildsMenuTree
      <4> QED
        BY <4>1, <4>2, WrittenIsEither
    <3>3. placed \in there
      BY <1>4, <2>1, <3>2 DEF Written, Places
    <3>4. marked \in MenuRow /\ marked.parent = table[m].parent
      <4> HIDE DEF system
      <4> QED
        BY <3>1, <3>2 DEF MenuRow
    <3>5. t[m] = [marked EXCEPT !.parent = placed]
      BY <2>1, <2>3, <3>4 DEF EnsuredMenu
    <3> HIDE DEF marked, placed
    <3> QED
      BY <1>5, <3>3, <3>4, <3>5, ChangedMenuRow
  <2> QED
    BY <2>2, <2>3
<1>9. ASSUME NEW m \in Menus, ~isMoved(m)
      PROVE  t[m] = table[m]
  BY <1>6, <1>9
<1>10. created \subseteq {m \in Menus : isMoved(m)}
  <2>1. ASSUME NEW p \in SeedPaths, ~HasPath(d, p)
        PROVE  isMoved(at[p])
    <3>1. PICK k \in K : SeedMenus[k] = p
      BY <1>2
    <3> QED
      BY <2>1, <3>1 DEF Moves, Places
  <2> QED
    BY <1>5, <2>1
<1> HIDE DEF isMoved, t, table
<1>11. t \in [Menus -> MenuRow \cup NoRow]
  <2>1. \A m \in Menus : t[m] \in MenuRow \cup NoRow
    BY <1>1, <1>8, <1>9
  <2> QED
    BY <1>6, <2>1
<1>12. DOMAIN t = Menus /\ DOMAIN table = Menus
  BY <1>1, <1>11
<1>13. Rows(table) \cup created \subseteq Rows(t)
  BY <1>8, <1>9, <1>10, <1>12, RowAssumption DEF Rows
<1>14. \A m \in Rows(t) : t[m].parent \in Rows(t) \cup {None}
  <2>1. ASSUME NEW m \in Rows(t) PROVE t[m].parent \in there
    <3>1. CASE isMoved(m)
      BY <1>8, <1>12, <3>1 DEF Rows
    <3>2. CASE ~isMoved(m)
      BY <1>9, <1>12, <3>2 DEF Rows, BuildsMenuTree, table
    <3> QED
      BY <3>1, <3>2
  <2> QED
    BY <1>13, <2>1
<1>15. \A m \in Menus : t[m] = Unborn => table[m] = Unborn
  BY <1>8, <1>9, RowAssumption DEF NoRow
<1> QED
  BY <1>11, <1>13, <1>14, <1>15 DEF t, table

(* A start that breaks no constraint leaves tables that agree, whatever    *)
(* was committed since it looked.                                          *)
LEMMA EnsuredCarries ==
    ASSUME NEW d \in Tables, NEW now \in Tables, Agree(now), IsOlder(d, now), HasIds(d, now),
           NEW plan \in Plans(d, now), ~Violates(d, now, plan), ~Misses(d, now, plan)
    PROVE  Carries(now, Ensured(d, now, plan))
<1> DEFINE e == Ensured(d, now, plan)
           u == plan.admin
           x == plan.role
           role == IF HasRole(d) THEN now.roles[x]
                   ELSE [system |-> TRUE, permissions |-> {}, menus |-> {}]
           admin == [active |-> TRUE, super |-> TRUE, must |-> TRUE, roles |-> {x}]
           bound == [now.users[u] EXCEPT !.roles = now.users[u].roles \cup {x}]
           user == CASE ~HasAdmin(d) -> admin
                     [] Binds(d, plan) -> bound
                     [] OTHER -> now.users[u]
           permissions == Added(now.permissions, Missing(d.permissions, SeedPermissions),
                                SeededPermission)
           templates == Added(now.templates, Missing(d.templates, SeedTemplates), SeededTemplate)
           menus == EnsuredMenus(d, now.menus, plan.menus)
<1>1. /\ u \in Users /\ UserName[u] = AdminName
      /\ x \in Roles /\ RoleCode[x] = SuperAdminCode
      /\ plan.menus \in Placements(d, now)
  BY DEF Plans, Admins, SuperAdminRoles
<1>2. /\ now.users \in [Users -> UserRow \cup NoRow] /\ now.roles \in [Roles -> RoleRow \cup NoRow]
      /\ now.permissions \in [Permissions -> PermissionRow \cup NoRow]
      /\ now.menus \in [Menus -> MenuRow \cup NoRow]
      /\ now.templates \in [Templates -> TemplateRow \cup NoRow]
  BY TableFields
<1>3. /\ permissions \in [Permissions -> PermissionRow \cup NoRow]
      /\ Rows(now.permissions) \subseteq Rows(permissions)
      /\ \A p, q \in Rows(permissions) : permissions[p].code = permissions[q].code => p = q
  BY PermissionsAdded DEF Agree, Violates
<1>4. /\ templates \in [Templates -> TemplateRow \cup NoRow]
      /\ Rows(now.templates) \subseteq Rows(templates)
      /\ \A p, q \in Rows(templates) : templates[p].code = templates[q].code => p = q
  BY TemplatesAdded DEF Agree, Violates
<1>5. /\ menus \in [Menus -> MenuRow \cup NoRow]
      /\ Rows(now.menus) \subseteq Rows(menus)
      /\ \A m \in Rows(menus) : menus[m].parent \in Rows(menus) \cup {None}
      /\ \A m \in Menus : menus[m] = Unborn => now.menus[m] = Unborn
  BY <1>1, MenusEnsured DEF Agree, Violates, Misses
<1>6. /\ role \in RoleRow \cup NoRow
      /\ ~HasRole(d) => role \in RoleRow /\ role.permissions = {} /\ role.menus = {}
  BY <1>1, <1>2, NewRoleRow
<1>7. ~HasAdmin(d) => u \notin Rows(now.users)
  BY <1>1 DEF Violates, HasAdmin
<1>8. HasRole(d) /\ (~HasAdmin(d) \/ Binds(d, plan)) => x \in Rows(now.roles)
  BY DEF Violates
<1>9. Binds(d, plan) => u \in Rows(now.users) /\ HasAdmin(d)
  BY DEF Violates, Binds
<1>10. ~HasAdmin(d) => user = admin
  BY DEF Binds
<1>11. Binds(d, plan) => user = bound
  BY <1>9
<1>12. HasAdmin(d) /\ ~Binds(d, plan) => user = now.users[u]
  OBVIOUS
<1>13. admin \in UserRow /\ admin.roles = {x}
  BY <1>1, NewUserRow
<1>14. ASSUME Binds(d, plan)
       PROVE  bound \in UserRow /\ bound.roles = now.users[u].roles \cup {x}
  <2>1. now.users[u] \in UserRow
    BY <1>1, <1>2, <1>9, <1>14 DEF Rows
  <2>2. now.users[u].roles \cup {x} \in SUBSET Roles
    BY <1>1, <2>1, UserRows
  <2> QED
    BY <2>1, <2>2, ChangedUserRoles
<1> HIDE DEF role, admin, bound, user, permissions, templates, menus
<1>15. user \in UserRow \cup NoRow
  BY <1>1, <1>2, <1>10, <1>11, <1>12, <1>13, <1>14
<1>16. e = [now EXCEPT !.roles[x] = role, !.users[u] = user, !.permissions = permissions,
                       !.templates = templates, !.menus = menus]
  BY DEF Ensured, role, admin, bound, user, permissions, templates, menus
<1> HIDE DEF e
<1>17. /\ e \in Tables
       /\ e.users = [now.users EXCEPT ![u] = user] /\ e.roles = [now.roles EXCEPT ![x] = role]
       /\ e.permissions = permissions /\ e.templates = templates /\ e.menus = menus
       /\ e.projects = now.projects /\ e.models = now.models /\ e.bots = now.bots
  BY <1>1, <1>2, <1>3, <1>4, <1>5, <1>6, <1>15, <1>16 DEF Tables
<1>18. Rows(e.roles) = Rows(now.roles) \cup (IF HasRole(d) THEN {} ELSE {x})
  BY <1>1, <1>2, <1>6, <1>17, RowAssumption DEF Rows, role
<1>19. /\ \A v \in Rows(e.users) : v # u => v \in Rows(now.users) /\ e.users[v] = now.users[v]
       /\ e.users[u] = user
  BY <1>1, <1>2, <1>17 DEF Rows
<1>20. NamesAreUnique(e)
  <2>1. ASSUME NEW v \in Rows(e.users), v # u, u \in Rows(e.users)
        PROVE  UserName[v] # UserName[u]
    <3>1. v \in Rows(now.users)
      BY <1>19, <2>1
    <3>2. CASE ~HasAdmin(d)
      BY <1>1, <3>1, <3>2 DEF Violates, HasAdmin
    <3>3. CASE Binds(d, plan)
      BY <1>9, <2>1, <3>1, <3>3 DEF Agree, NamesAreUnique
    <3>4. CASE HasAdmin(d) /\ ~Binds(d, plan)
      <4>1. u \in Rows(now.users)
        BY <1>1, <1>2, <1>12, <1>17, <1>19, <2>1, <3>4 DEF Rows
      <4> QED
        BY <2>1, <3>1, <4>1 DEF Agree, NamesAreUnique
    <3> QED
      BY <3>2, <3>3, <3>4
  <2>2. ASSUME NEW v \in Rows(e.users), NEW w \in Rows(e.users), v # u, w # u,
               UserName[v] = UserName[w]
        PROVE  v = w
    BY <1>19, <2>2 DEF Agree, NamesAreUnique
  <2> QED
    BY <2>1, <2>2 DEF NamesAreUnique
<1>21. UsersHaveRoles(e)
  <2>1. ASSUME NEW v \in Rows(e.users), v # u
        PROVE  e.users[v].roles \subseteq Rows(e.roles)
    BY <1>18, <1>19, <2>1 DEF Agree, UsersHaveRoles
  <2>2. ASSUME u \in Rows(e.users)
        PROVE  user.roles \subseteq Rows(e.roles)
    <3>1. CASE ~HasAdmin(d)
      BY <1>8, <1>10, <1>13, <1>18, <3>1
    <3>2. CASE Binds(d, plan)
      <4>1. now.users[u].roles \subseteq Rows(now.roles)
        BY <1>9, <3>2 DEF Agree, UsersHaveRoles
      <4> QED
        BY <1>8, <1>11, <1>14, <1>18, <3>2, <4>1
    <3>3. CASE HasAdmin(d) /\ ~Binds(d, plan)
      <4>1. u \in Rows(now.users)
        BY <1>1, <1>2, <1>12, <1>17, <1>19, <2>2, <3>3 DEF Rows
      <4> QED
        BY <1>12, <1>18, <3>3, <4>1 DEF Agree, UsersHaveRoles
    <3> QED
      BY <3>1, <3>2, <3>3
  <2> QED
    BY <1>19, <2>1, <2>2 DEF UsersHaveRoles
<1>22. RolesHaveRights(e)
  <2>1. ASSUME NEW y \in Rows(e.roles), y \in Rows(now.roles), y # x \/ HasRole(d)
        PROVE  e.roles[y] = now.roles[y]
    BY <1>1, <1>2, <1>17, <2>1 DEF Rows, role
  <2>2. ASSUME ~HasRole(d)
        PROVE  e.roles[x].permissions = {} /\ e.roles[x].menus = {}
    BY <1>1, <1>2, <1>6, <1>17, <2>2
  <2> QED
    BY <1>3, <1>5, <1>17, <1>18, <2>1, <2>2 DEF Agree, RolesHaveRights
<1>23. ProjectsHaveTemplates(e)
  BY <1>4, <1>17 DEF Agree, ProjectsHaveTemplates, IsMissing
<1>24. RoleCodesAreUnique(e)
  <2>1. ASSUME NEW y \in Rows(e.roles), y # x
        PROVE  y \in Rows(now.roles) /\ (x \in Rows(e.roles) => RoleCode[y] # RoleCode[x])
    <3>1. y \in Rows(now.roles)
      BY <1>18, <2>1
    <3>2. CASE ~HasRole(d)
      BY <1>1, <3>1, <3>2 DEF Violates, HasRole
    <3>3. CASE HasRole(d)
      BY <1>18, <2>1, <3>1, <3>3 DEF Agree, RoleCodesAreUnique
    <3> QED
      BY <3>1, <3>2, <3>3
  <2> QED
    BY <2>1 DEF Agree, RoleCodesAreUnique
<1>25. Agree(e)
  BY <1>3, <1>4, <1>5, <1>17, <1>20, <1>21, <1>22, <1>23, <1>24 DEF Agree,
     PermissionCodesAreUnique, TemplateCodesAreUnique, KeysAreUnique, OneDefault, Defaults,
     BuildsMenuTree
<1>26. Carries(now, e)
  BY <1>5, <1>17, <1>25 DEF Carries, IsOlder
<1> QED
  BY <1>26 DEF e

(* A start that nobody disturbs breaks nothing.                            *)
LEMMA LoneStartSucceeds ==
    ASSUME NEW d \in Tables, HasIds(d, d), NEW plan \in Plans(d, d)
    PROVE  ~Violates(d, d, plan) /\ ~Misses(d, d, plan)
<1>1. /\ plan.admin \in Admins(d) /\ plan.role \in SuperAdminRoles(d)
      /\ plan.menus \in Placements(d, d)
  BY DEF Plans
<1>2. HasAdmin(d) => plan.admin \in Rows(d.users)
  BY <1>1 DEF Admins
<1>3. HasRole(d) => plan.role \in Rows(d.roles)
  BY <1>1 DEF SuperAdminRoles
<1>4. \A k \in DOMAIN SeedMenus :
          HasPath(d, SeedMenus[k]) => plan.menus[SeedMenus[k]] \in Rows(d.menus)
  BY <1>1, SeedsHavePlaces DEF SeedPaths, Range
<1>5. ASSUME NEW k \in DOMAIN SeedMenus, HasPath(d, SeedParent[SeedMenus[k]])
      PROVE  ParentOf(d, plan.menus, k) \in Rows(d.menus)
  <2> DEFINE parent == SeedParent[SeedMenus[k]]
  <2>1. d.menus \in [Menus -> MenuRow \cup NoRow]
    BY TableFields
  <2>2. \A m \in Rows(d.menus) : d.menus[m].path \in Paths
    BY <2>1, MenuRows DEF Rows
  <2>3. parent \in SeedPaths
    BY <1>5, <2>2, BootAssumption DEF HasPath, SeedPaths, Range
  <2> QED
    BY <1>1, <1>5, <2>3, SeedsHavePlaces DEF ParentOf
<1>6. ~Violates(d, d, plan)
  BY <1>2, <1>3, <1>5 DEF Violates, Binds
<1> QED
  BY <1>4, <1>6 DEF Misses

(* A single process that starts anew serves nobody and breaks nothing.     *)
LEMMA RestartFits ==
    ASSUME AdminInvariant, Restart, agenda' = agenda
    PROVE  AdminInvariant'
<1>1. db \in Tables /\ Agree(db) /\ TypeOK /\ DOMAIN boots = Starters
  BY DEF AdminInvariant, TypeOK, TablesAgree
<1>2. PICK plan \in Plans(db, db) : db' = Ensured(db, db, plan)
  BY DEF Restart
<1>3. IsOlder(db, db) /\ HasIds(db, db)
  BY <1>1 DEF IsOlder, Restart
<1>4. Carries(db, db')
  BY <1>1, <1>2, <1>3, LoneStartSucceeds, EnsuredCarries
<1>5. /\ requests' = [r \in Requests |-> NoRequest] /\ audit' = audit
      /\ processes' = processes /\ boots' = boots
  BY DEF Restart
<1>6. TypeOK'
  BY <1>1, <1>4, <1>5, TypesStay DEF Carries, TypeOK, Fixed
<1>7. TablesAgree'
  BY <1>4 DEF TablesAgree, Carries
<1>8. \A r \in Requests : RequestFits(r)'
  BY <1>5 DEF RequestFits
<1>9. \A b \in Starters : BootFits(b)'
  BY <1>1, <1>4, <1>5, BootStays DEF AdminInvariant
<1> QED
  BY <1>6, <1>7, <1>8, <1>9 DEF AdminInvariant

(* A start of one process among several fits, whatever the others          *)
(* committed since it looked.                                              *)
LEMMA BootStepFits ==
    ASSUME AdminInvariant, NEW b \in Starters, BootStep(b), agenda' = agenda
    PROVE  AdminInvariant'
<1>1. db \in Tables /\ Agree(db) /\ TypeOK /\ DOMAIN boots = Starters /\ BootFits(b)
  BY DEF AdminInvariant, TypeOK, TablesAgree
<1>2. Carries(db, db)
  BY <1>1, Unchanged
<1>3. /\ audit' = audit /\ requests' = requests /\ processes' = processes
      /\ Carries(db, db')
  <2>1. CASE BeginBoot(b)
    BY <1>2, <2>1 DEF BeginBoot
  <2>2. CASE CommitBoot(b)
    <3>1. IsOlder(boots[b].seen, db)
      BY <1>1, <2>2 DEF BootFits, CommitBoot
    <3>2. PICK plan \in Plans(boots[b].seen, db) :
              /\ ~Violates(boots[b].seen, db, plan) /\ ~Misses(boots[b].seen, db, plan)
              /\ db' = Ensured(boots[b].seen, db, plan)
      BY <2>2 DEF CommitBoot
    <3>3. boots[b].seen \in Tables /\ HasIds(boots[b].seen, db)
      BY <2>2, <3>1 DEF CommitBoot, IsOlder
    <3>4. Carries(db, db')
      BY <1>1, <3>1, <3>2, <3>3, EnsuredCarries
    <3> QED
      BY <2>2, <3>4 DEF CommitBoot
  <2>3. CASE FailBoot(b)
    BY <1>2, <2>3 DEF FailBoot
  <2> QED
    BY <2>1, <2>2, <2>3 DEF BootStep
<1>4. PICK boot : /\ boots' = [boots EXCEPT ![b] = boot]
                  /\ boot.phase = "ensure" => boot.seen = db /\ db' = db /\ processes = "many"
  <2>1. CASE BeginBoot(b)
    <3> DEFINE boot == [phase |-> "ensure", attempt |-> boots[b].attempt + 1, seen |-> db]
    <3>1. boots' = [boots EXCEPT ![b] = boot] /\ db' = db /\ processes = "many"
      BY <2>1 DEF BeginBoot, SetBoot
    <3>2. boot.seen = db
      OBVIOUS
    <3> HIDE DEF boot
    <3> QED
      BY <3>1, <3>2
  <2>2. CASE CommitBoot(b) \/ FailBoot(b)
    <3>1. PICK n : boots' = [boots EXCEPT ![b] = Off(n)]
      BY <2>2 DEF CommitBoot, FailBoot, SetBoot
    <3>2. Off(n).phase # "ensure"
      BY DEF Off
    <3> QED
      BY <3>1, <3>2
  <2> QED
    BY <2>1, <2>2 DEF BootStep
<1>5. TypeOK'
  BY <1>1, <1>3, <1>4, TypesStay DEF Carries, TypeOK, Fixed
<1>6. TablesAgree'
  BY <1>3 DEF TablesAgree, Carries
<1>7. \A r \in Requests : RequestFits(r)'
  BY <1>1, <1>3, RequestStays DEF AdminInvariant
<1>8. ASSUME NEW x \in Starters PROVE BootFits(x)'
  <2>1. CASE x = b
    <3>1. boots'[b] = boot
      BY <1>1, <1>4
    <3>2. boot.phase = "ensure" => IsOlder(boot.seen, db') /\ processes = "many"
      BY <1>1, <1>4 DEF IsOlder
    <3> QED
      BY <1>3, <2>1, <3>1, <3>2 DEF BootFits
  <2>2. CASE x # b
    <3>1. boots'[x] = boots[x]
      BY <1>1, <1>4, <2>2
    <3> QED
      BY <1>1, <1>3, <3>1, BootStays DEF AdminInvariant
  <2> QED
    BY <2>1, <2>2
<1> QED
  BY <1>5, <1>6, <1>7, <1>8 DEF AdminInvariant

(* The tables a console starts with agree.                                 *)
LEMMA InitFits == Init => AdminInvariant
<1> SUFFICES ASSUME Init PROVE AdminInvariant
  OBVIOUS
<1>1. PICK a \in Agendas :
          /\ db = a.tables /\ processes = a.processes
          /\ agenda = [ops |-> a.ops, actors |-> a.actors, budget |-> a.budget,
                       starters |-> a.starters]
  BY DEF Init
<1>2. /\ a.tables \in Tables /\ Agree(a.tables) /\ a.processes \in {"one", "many"}
      /\ \A op \in a.ops : IsOperation(op)
      /\ a.actors \subseteq Users /\ a.starters \subseteq Starters
  BY AgendaAssumption
<1>3. /\ audit = {} /\ requests = [r \in Requests |-> NoRequest]
      /\ boots = [b \in Starters |-> Off(0)]
  BY DEF Init, BootInit
<1>4. TypeOK /\ TablesAgree
  BY <1>1, <1>2, <1>3 DEF TypeOK, TablesAgree
<1>5. \A r \in Requests : RequestFits(r)
  BY <1>3 DEF RequestFits
<1>6. \A b \in Starters : BootFits(b)
  BY <1>3 DEF BootFits, Off
<1> QED
  BY <1>4, <1>5, <1>6 DEF AdminInvariant

(* Every step keeps the invariant.                                         *)
LEMMA StepFits ==
    ASSUME AdminInvariant, [Next]_vars
    PROVE  AdminInvariant'
<1>1. ASSUME NEW r \in Requests, Ask(r) PROVE AdminInvariant'
  BY <1>1, AskFits
<1>2. ASSUME NEW r \in Requests, RequestStep(r), UNCHANGED <<boots, agenda>>
      PROVE  AdminInvariant'
  <2>1. Fixed /\ boots' = boots
    <3>1. processes' = processes
      BY <1>2, HandleConcludes DEF RequestStep, Concludes, Authenticate, Authorize, Read, Answer
    <3> QED
      BY <1>2, <3>1 DEF Fixed
  <2> QED
    BY <1>2, <2>1, AuthenticateFits, AuthorizeFits, ReadFits, HandleFits DEF RequestStep
<1>3. ASSUME NEW u \in Users, ChangePassword(u), UNCHANGED <<boots, agenda>>
      PROVE  AdminInvariant'
  BY <1>3, ChangePasswordFits DEF ChangePassword, Fixed
<1>4. ASSUME Restart, UNCHANGED agenda PROVE AdminInvariant'
  BY <1>4, RestartFits
<1>5. ASSUME NEW b \in agenda.starters, BootStep(b), UNCHANGED agenda
      PROVE  AdminInvariant'
  BY <1>5, BootStepFits DEF AdminInvariant, TypeOK
<1>6. CASE UNCHANGED vars
  BY <1>6 DEF vars, AdminInvariant, TypeOK, TablesAgree, RequestFits, BootFits, IsOver
<1> QED
  BY <1>1, <1>2, <1>3, <1>4, <1>5, <1>6 DEF Next

(* However requests and starts meet, the tables agree with one another:    *)
(* no name or code twice, one default model at most, no link to a row that *)
(* is gone.                                                                *)
THEOREM ConsoleAgrees == Spec => []AdminInvariant
<1>1. Init => AdminInvariant
  BY InitFits
<1>2. AdminInvariant /\ [Next]_vars => AdminInvariant'
  BY StepFits
<1> QED
  BY <1>1, <1>2, PTL DEF Spec
=============================================================================
