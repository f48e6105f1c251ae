-------------------------- MODULE AdminStaffProofs --------------------------
(* Theorems that follow from what AdminConsoleProofs shows of the tables:  *)
(* about a console of one process, which serves each request on the tables *)
(* as they are, about the audit log, and about a start that nobody         *)
(* disturbs, which leaves nothing to the next.                             *)
EXTENDS AdminConsoleProofs

(* What a request does to the users and the projects.                      *)
LeavesUsers == db'.users = db.users

LeavesProjects == db'.projects = db.projects

(* One process: what a handler saw is what is there.                       *)
LEMMA SeenIsThere ==
    ASSUME processes = "one", NEW r
    PROVE  Seen(r) = db
BY DEF Seen

(* Seven operations write users.                                           *)
LEMMA OthersLeaveUsers ==
    ASSUME db \in Tables, NEW r, Handle(r)
    PROVE  \/ LeavesUsers
           \/ CreateUser(r)
           \/ UpdateUser(r)
           \/ UpdateUserStatus(r)
           \/ ResetPassword(r)
           \/ AssignRoles(r)
           \/ DeleteUser(r)
           \/ DeleteRole(r)
<1>1. CreateRole(r) => LeavesUsers
  BY DEF CreateRole, Settle, Answer, Commit, Tables, LeavesUsers
<1>2. UpdateRole(r) => LeavesUsers
  BY DEF UpdateRole, Settle, Answer, Commit, Tables, LeavesUsers
<1>3. AssignPermissions(r) => LeavesUsers
  BY DEF AssignPermissions, Relink, Settle, Answer, Commit, Tables, LeavesUsers
<1>4. AssignMenus(r) => LeavesUsers
  BY DEF AssignMenus, Relink, Settle, Answer, Commit, Tables, LeavesUsers
<1>5. CreatePermission(r) => LeavesUsers
  BY DEF CreatePermission, Settle, Answer, Commit, Tables, LeavesUsers
<1>6. UpdatePermission(r) => LeavesUsers
  BY DEF UpdatePermission, Settle, Answer, Commit, Tables, LeavesUsers
<1>7. DeletePermission(r) => LeavesUsers
  BY DEF DeletePermission, Settle, Answer, Commit, Tables, LeavesUsers
<1>8. CreateMenu(r) => LeavesUsers
  BY DEF CreateMenu, Settle, Answer, Commit, Tables, LeavesUsers
<1>9. UpdateMenu(r) => LeavesUsers
  BY DEF UpdateMenu, Settle, Answer, Commit, Tables, LeavesUsers
<1>10. DeleteMenu(r) => LeavesUsers
  BY DEF DeleteMenu, Settle, Answer, Commit, Tables, LeavesUsers
<1>11. CreateProject(r) => LeavesUsers
  BY DEF CreateProject, Settle, Answer, Commit, Tables, LeavesUsers
<1>12. UpdateProject(r) => LeavesUsers
  BY DEF UpdateProject, Settle, Answer, Commit, Tables, LeavesUsers
<1>13. UpdateProjectStatus(r) => LeavesUsers
  BY DEF UpdateProjectStatus, Settle, Answer, Commit, Tables, LeavesUsers
<1>14. DeleteProject(r) => LeavesUsers
  BY DEF DeleteProject, Settle, Answer, Commit, Tables, LeavesUsers
<1>15. CreateTemplate(r) => LeavesUsers
  BY DEF CreateTemplate, Settle, Answer, Commit, Tables, LeavesUsers
<1>16. UpdateTemplate(r) => LeavesUsers
  BY DEF UpdateTemplate, Settle, Answer, Commit, Tables, LeavesUsers
<1>17. UpdateTemplateStatus(r) => LeavesUsers
  BY DEF UpdateTemplateStatus, Settle, Answer, Commit, Tables, LeavesUsers
<1>18. DeleteTemplate(r) => LeavesUsers
  BY DEF DeleteTemplate, Settle, Answer, Commit, Tables, LeavesUsers
<1>19. CreateModel(r) => LeavesUsers
  BY DEF CreateModel, Settle, Answer, Commit, Tables, LeavesUsers
<1>20. UpdateModel(r) => LeavesUsers
  BY DEF UpdateModel, Settle, Answer, Commit, Tables, LeavesUsers
<1>21. UpdateModelStatus(r) => LeavesUsers
  BY DEF UpdateModelStatus, Settle, Answer, Commit, Tables, LeavesUsers
<1>22. CreateBot(r) => LeavesUsers
  BY DEF CreateBot, Settle, Answer, Commit, Tables, LeavesUsers
<1>23. UpdateBot(r) => LeavesUsers
  BY DEF UpdateBot, Settle, Answer, Commit, Tables, LeavesUsers
<1>24. UpdateBotStatus(r) => LeavesUsers
  BY DEF UpdateBotStatus, Settle, Answer, Commit, Tables, LeavesUsers
<1>25. TestBot(r) => LeavesUsers
  BY DEF TestBot, Settle, Answer, Commit, Tables, LeavesUsers
<1>26. PurgeAudit(r) => LeavesUsers
  BY DEF PurgeAudit, LeavesUsers
<1> QED
  BY <1>1, <1>2, <1>3, <1>4, <1>5, <1>6, <1>7, <1>8, <1>9, <1>10, <1>11, <1>12, <1>13, <1>14,
     <1>15, <1>16, <1>17, <1>18, <1>19, <1>20, <1>21, <1>22, <1>23, <1>24, <1>25, <1>26 DEF Handle

(* Five operations write projects.                                         *)
LEMMA OthersLeaveProjects ==
    ASSUME db \in Tables, NEW r, Handle(r)
    PROVE  \/ LeavesProjects
           \/ CreateProject(r)
           \/ UpdateProject(r)
           \/ UpdateProjectStatus(r)
           \/ DeleteProject(r)
           \/ DeleteTemplate(r)
<1>1. CreateUser(r) => LeavesProjects
  BY DEF CreateUser, Settle, Answer, Commit, Tables, LeavesProjects
<1>2. UpdateUser(r) => LeavesProjects
  BY DEF UpdateUser, Settle, Answer, Commit, Tables, LeavesProjects
<1>3. UpdateUserStatus(r) => LeavesProjects
  BY DEF UpdateUserStatus, Settle, Answer, Commit, Tables, LeavesProjects
<1>4. ResetPassword(r) => LeavesProjects
  BY DEF ResetPassword, Settle, Answer, Commit, Tables, LeavesProjects
<1>5. AssignRoles(r) => LeavesProjects
  BY DEF AssignRoles, Relink, Settle, Answer, Commit, Tables, LeavesProjects
<1>6. DeleteUser(r) => LeavesProjects
  BY DEF DeleteUser, Settle, Answer, Commit, Tables, LeavesProjects
<1>7. CreateRole(r) => LeavesProjects
  BY DEF CreateRole, Settle, Answer, Commit, Tables, LeavesProjects
<1>8. UpdateRole(r) => LeavesProjects
  BY DEF UpdateRole, Settle, Answer, Commit, Tables, LeavesProjects
<1>9. DeleteRole(r) => LeavesProjects
  BY DEF DeleteRole, Settle, Answer, Commit, Tables, LeavesProjects
<1>10. AssignPermissions(r) => LeavesProjects
  BY DEF AssignPermissions, Relink, Settle, Answer, Commit, Tables, LeavesProjects
<1>11. AssignMenus(r) => LeavesProjects
  BY DEF AssignMenus, Relink, Settle, Answer, Commit, Tables, LeavesProjects
<1>12. CreatePermission(r) => LeavesProjects
  BY DEF CreatePermission, Settle, Answer, Commit, Tables, LeavesProjects
<1>13. UpdatePermission(r) => LeavesProjects
  BY DEF UpdatePermission, Settle, Answer, Commit, Tables, LeavesProjects
<1>14. DeletePermission(r) => LeavesProjects
  BY DEF DeletePermission, Settle, Answer, Commit, Tables, LeavesProjects
<1>15. CreateMenu(r) => LeavesProjects
  BY DEF CreateMenu, Settle, Answer, Commit, Tables, LeavesProjects
<1>16. UpdateMenu(r) => LeavesProjects
  BY DEF UpdateMenu, Settle, Answer, Commit, Tables, LeavesProjects
<1>17. DeleteMenu(r) => LeavesProjects
  BY DEF DeleteMenu, Settle, Answer, Commit, Tables, LeavesProjects
<1>18. CreateTemplate(r) => LeavesProjects
  BY DEF CreateTemplate, Settle, Answer, Commit, Tables, LeavesProjects
<1>19. UpdateTemplate(r) => LeavesProjects
  BY DEF UpdateTemplate, Settle, Answer, Commit, Tables, LeavesProjects
<1>20. UpdateTemplateStatus(r) => LeavesProjects
  BY DEF UpdateTemplateStatus, Settle, Answer, Commit, Tables, LeavesProjects
<1>21. CreateModel(r) => LeavesProjects
  BY DEF CreateModel, Settle, Answer, Commit, Tables, LeavesProjects
<1>22. UpdateModel(r) => LeavesProjects
  BY DEF UpdateModel, Settle, Answer, Commit, Tables, LeavesProjects
<1>23. UpdateModelStatus(r) => LeavesProjects
  BY DEF UpdateModelStatus, Settle, Answer, Commit, Tables, LeavesProjects
<1>24. CreateBot(r) => LeavesProjects
  BY DEF CreateBot, Settle, Answer, Commit, Tables, LeavesProjects
<1>25. UpdateBot(r) => LeavesProjects
  BY DEF UpdateBot, Settle, Answer, Commit, Tables, LeavesProjects
<1>26. UpdateBotStatus(r) => LeavesProjects
  BY DEF UpdateBotStatus, Settle, Answer, Commit, Tables, LeavesProjects
<1>27. TestBot(r) => LeavesProjects
  BY DEF TestBot, Settle, Answer, Commit, Tables, LeavesProjects
<1>28. PurgeAudit(r) => LeavesProjects
  BY DEF PurgeAudit, LeavesProjects
<1> QED
  BY <1>1, <1>2, <1>3, <1>4, <1>5, <1>6, <1>7, <1>8, <1>9, <1>10, <1>11, <1>12, <1>13, <1>14,
     <1>15, <1>16, <1>17, <1>18, <1>19, <1>20, <1>21, <1>22, <1>23, <1>24, <1>25, <1>26,
     <1>27, <1>28 DEF Handle

-----------------------------------------------------------------------------
(* No operation of a request gives out an id that was not given to it, and *)
(* none but the last superuser's own leaves the console without one.       *)
StaffKept ==
    /\ \A u \in Users : db.users[u] = Unborn => db'.users[u] = Unborn
    /\ ActiveSuperusers(db) # {} => ActiveSuperusers(db') # {}

(* What leaves the users alone keeps the staff.                            *)
LEMMA UsersLeft == LeavesUsers => StaffKept
BY DEF LeavesUsers, StaffKept, ActiveSuperusers

(* A finite set with more than one member has another.                     *)
LEMMA AnotherOne ==
    ASSUME NEW S, IsFiniteSet(S), ~(Cardinality(S) <= 1), NEW v \in S
    PROVE  \E w \in S : w # v
<1> SUFFICES ASSUME \A w \in S : w = v PROVE FALSE
  OBVIOUS
<1>1. S = {v}
  OBVIOUS
<1>2. Cardinality({v}) = 1
  BY FS_Singleton
<1> QED
  BY <1>1, <1>2

(* There are finitely many superusers, so they can be counted.             *)
LEMMA SuperusersAreFinite ==
    ASSUME NEW d \in Tables
    PROVE  IsFiniteSet(ActiveSuperusers(d)) /\ ActiveSuperusers(d) \subseteq Users
<1>1. ActiveSuperusers(d) \subseteq Users
  BY TableFields DEF ActiveSuperusers, Rows
<1> QED
  BY <1>1, FS_Subset, AdminAssumption

(* One row is written: enough if it stays a superuser's, was none, or is   *)
(* not the last.                                                           *)
LEMMA OneUserWritten ==
    ASSUME db \in Tables, NEW u \in Rows(db.users), NEW row,
           row # Unborn, db'.users = [db.users EXCEPT ![u] = row],
           u \in ActiveSuperusers(db) =>
               \/ row \notin NoRow /\ row.super /\ row.active
               \/ ~IsLastSuperuser(db, u)
    PROVE  StaffKept
<1>1. db.users \in [Users -> UserRow \cup NoRow] /\ u \in Users
  BY TableFields DEF Rows
<1>2. \A v \in Users : db.users[v] = Unborn => db'.users[v] = Unborn
  BY <1>1 DEF Rows, NoRow
<1>3. ASSUME NEW v \in ActiveSuperusers(db), v # u
      PROVE  v \in ActiveSuperusers(db')
  BY <1>1, <1>3 DEF ActiveSuperusers, Rows
<1>4. ASSUME NEW v \in ActiveSuperusers(db)
      PROVE  ActiveSuperusers(db') # {}
  <2>1. CASE v # u
    BY <1>3, <2>1
  <2>2. CASE v = u /\ row \notin NoRow /\ row.super /\ row.active
    <3>1. u \in DOMAIN db'.users /\ db'.users[u] = row
      BY <1>1
    <3>2. u \in ActiveSuperusers(db')
      BY <2>2, <3>1 DEF ActiveSuperusers, Rows
    <3> QED
      BY <3>2
  <2>3. CASE v = u /\ ~IsLastSuperuser(db, u)
    <3>1. ~(Cardinality(ActiveSuperusers(db)) <= 1)
      BY <1>4, <2>3 DEF IsLastSuperuser, ActiveSuperusers
    <3>2. PICK w \in ActiveSuperusers(db) : w # v
      BY <1>4, <3>1, AnotherOne, SuperusersAreFinite
    <3> QED
      BY <1>3, <2>3, <3>2
  <2> QED
    BY <1>4, <2>1, <2>2, <2>3
<1> QED
  BY <1>2, <1>4 DEF StaffKept

(* UserService.create_user uses the id that was given to its request.      *)
LEMMA CreateUserStaff ==
    ASSUME NEW r \in Requests, NEW o, Serving(r, o), CreateUser(r), db.users[o.user] = Unborn
    PROVE  /\ \A u \in Users \ {o.user} : db.users[u] = Unborn => db'.users[u] = Unborn
           /\ ActiveSuperusers(db) # {} => ActiveSuperusers(db') # {}
<1> DEFINE row == [active |-> TRUE, super |-> o.super, must |-> FALSE, roles |-> o.roles]
<1>1. o.kind = "create_user" /\ o = requests[r].op
  BY DEF Serves, Serving, CreateUser
<1>2. o.user \in Users /\ o.super \in BOOLEAN /\ o.roles \in SUBSET Roles
  BY <1>1 DEF Serving, IsOperation, UserRoutes
<1>3. row \in UserRow
  BY <1>2, NewUserRow
<1>4. db' = db \/ db' = [db EXCEPT !.users[o.user] = row]
  BY <1>1 DEF CreateUser, Settle, Answer, Commit
<1> HIDE DEF row
<1>5. db'.users = db.users \/ db'.users = [db.users EXCEPT ![o.user] = row]
  <2>1. [db EXCEPT !.users[o.user] = row].users = [db.users EXCEPT ![o.user] = row]
    BY <1>2, <1>3, UsersPut DEF Serving
  <2> QED
    BY <1>4, <2>1
<1>6. db.users \in [Users -> UserRow \cup NoRow]
  BY TableFields DEF Serving
<1>7. \A v \in ActiveSuperusers(db) : v \in ActiveSuperusers(db')
  BY <1>5, <1>6 DEF ActiveSuperusers, Rows, NoRow
<1> QED
  BY <1>2, <1>5, <1>6, <1>7

(* UserService.update_user: the last superuser is not demoted, and nobody  *)
(* demotes himself, on the rank read at the start of his request.          *)
LEMMA UpdateUserStaff ==
    ASSUME processes = "one", NEW r \in Requests, NEW o, Serving(r, o), UpdateUser(r)
    PROVE  StaffKept
<1> DEFINE self == o.user = requests[r].actor
           super == IF self THEN requests[r].super ELSE db.users[o.user].super
           now == db.users[o.user]
           flag == Written(super, o.super, now.super)
           row == [now EXCEPT !.super = flag]
<1>1. o.kind = "update_user" /\ o = requests[r].op
  BY DEF Serves, Serving, UpdateUser
<1>2. o.user \in Users /\ o.super \in BOOLEAN /\ requests[r].super \in BOOLEAN
  BY <1>1 DEF Serving, IsOperation, UserRoutes
<1>3. \/ db' = db
      \/ /\ o.user \in Rows(db.users)
         /\ ~(super /\ ~o.super /\ (self \/ IsLastSuperuser(db, o.user)))
         /\ db' = [db EXCEPT !.users[o.user] = row]
  <2>1. Seen(r) = db
    BY SeenIsThere
  <2> QED
    BY <1>1, <2>1 DEF UpdateUser, Settle, Answer, Commit
<1>4. CASE db' = db
  BY <1>4, UsersLeft DEF LeavesUsers
<1>5. CASE /\ o.user \in Rows(db.users)
           /\ ~(super /\ ~o.super /\ (self \/ IsLastSuperuser(db, o.user)))
           /\ db' = [db EXCEPT !.users[o.user] = row]
  <2>1. now \in UserRow
    BY <1>2, <1>5, TableFields DEF Rows, Serving
  <2>2. now.super \in BOOLEAN /\ now.active \in BOOLEAN /\ flag \in BOOLEAN
    BY <1>2, <2>1, UserRows, WrittenIsEither
  <2>3. row \in UserRow /\ row.super = flag /\ row.active = now.active
    BY <2>1, <2>2 DEF UserRow
  <2>4. db'.users = [db.users EXCEPT ![o.user] = row]
    <3>1. db \in Tables /\ row \in UserRow \cup NoRow
      BY <2>3 DEF Serving
    <3> HIDE DEF row
    <3> QED
      BY <1>2, <1>5, <3>1, UsersPut
  <2>5. row # Unborn /\ row \notin NoRow
    BY <2>3, RowAssumption DEF NoRow
  <2>6. ASSUME o.user \in ActiveSuperusers(db), IsLastSuperuser(db, o.user)
        PROVE  flag /\ now.active
    <3>1. now.super /\ now.active
      BY <2>6 DEF ActiveSuperusers
    <3>2. ~super \/ o.super
      BY <1>5, <2>6
    <3>3. flag
      BY <1>2, <3>1, <3>2 DEF Written
    <3> QED
      BY <3>1, <3>3
  <2> HIDE DEF row, flag
  <2> QED
    BY <1>5, <2>3, <2>4, <2>5, <2>6, OneUserWritten DEF Serving
<1> QED
  BY <1>3, <1>4, <1>5

(* UserService.update_status: the last superuser is not switched off,      *)
(* and nobody switches himself off.                                        *)
LEMMA UpdateUserStatusStaff ==
    ASSUME processes = "one", NEW r \in Requests, NEW o, Serving(r, o), UpdateUserStatus(r)
    PROVE  StaffKept
<1> DEFINE self == o.user = requests[r].actor
           now == db.users[o.user]
           flag == Written(self \/ now.active, o.active, now.active)
           row == [now EXCEPT !.active = flag]
<1>1. o.kind = "user_status" /\ o = requests[r].op
  BY DEF Serves, Serving, UpdateUserStatus
<1>2. o.user \in Users /\ o.active \in BOOLEAN
  BY <1>1 DEF Serving, IsOperation, UserRoutes
<1>3. \/ db' = db
      \/ /\ o.user \in Rows(db.users)
         /\ ~(~o.active /\ (self \/ IsLastSuperuser(db, o.user)))
         /\ db' = [db EXCEPT !.users[o.user] = row]
  <2>1. Seen(r) = db
    BY SeenIsThere
  <2> QED
    BY <1>1, <2>1 DEF UpdateUserStatus, Settle, Answer, Commit
<1>4. CASE db' = db
  BY <1>4, UsersLeft DEF LeavesUsers
<1>5. CASE /\ o.user \in Rows(db.users)
           /\ ~(~o.active /\ (self \/ IsLastSuperuser(db, o.user)))
           /\ db' = [db EXCEPT !.users[o.user] = row]
  <2>1. now \in UserRow
    BY <1>2, <1>5, TableFields DEF Rows, Serving
  <2>2. now.super \in BOOLEAN /\ now.active \in BOOLEAN /\ flag \in BOOLEAN
    BY <1>2, <2>1, UserRows, WrittenIsEither
  <2>3. row \in UserRow /\ row.active = flag /\ row.super = now.super
    BY <2>1, <2>2 DEF UserRow
  <2>4. db'.users = [db.users EXCEPT ![o.user] = row]
    <3>1. db \in Tables /\ row \in UserRow \cup NoRow
      BY <2>3 DEF Serving
    <3> HIDE DEF row
    <3> QED
      BY <1>2, <1>5, <3>1, UsersPut
  <2>5. row # Unborn /\ row \notin NoRow
    BY <2>3, RowAssumption DEF NoRow
  <2>6. ASSUME o.user \in ActiveSuperusers(db), IsLastSuperuser(db, o.user)
        PROVE  flag /\ now.super
    <3>1. now.super /\ now.active
      BY <2>6 DEF ActiveSuperusers
    <3>2. o.active
      BY <1>5, <2>6
    <3>3. flag
      BY <1>2, <3>1, <3>2 DEF Written
    <3> QED
      BY <3>1, <3>3
  <2> HIDE DEF row, flag
  <2> QED
    BY <1>5, <2>3, <2>4, <2>5, <2>6, OneUserWritten DEF Serving
<1> QED
  BY <1>3, <1>4, <1>5

(* A row that keeps its rank and its status.                               *)
LEMMA RankKept ==
    ASSUME db \in Tables, NEW u \in Rows(db.users), NEW row \in UserRow,
           row.super = db.users[u].super, row.active = db.users[u].active,
           db' = [db EXCEPT !.users[u] = row]
    PROVE  StaffKept
<1>1. u \in Users
  BY TableFields DEF Rows
<1>2. db'.users = [db.users EXCEPT ![u] = row]
  BY <1>1, UsersPut
<1>3. row # Unborn /\ row \notin NoRow
  BY RowAssumption DEF NoRow
<1>4. u \in ActiveSuperusers(db) => row.super /\ row.active
  BY DEF ActiveSuperusers
<1> QED
  BY <1>2, <1>3, <1>4, OneUserWritten

(* UserService.reset_password.                                             *)
LEMMA ResetPasswordStaff ==
    ASSUME NEW r \in Requests, NEW o, Serving(r, o), ResetPassword(r)
    PROVE  StaffKept
<1> DEFINE now == db.users[o.user]
           flag == Written(Seen(r).users[o.user].must, TRUE, now.must)
           row == [now EXCEPT !.must = flag]
<1>1. o.kind = "reset_password" /\ o = requests[r].op
  BY DEF Serves, Serving, ResetPassword
<1>2. o.user \in Users
  BY <1>1 DEF Serving, IsOperation, UserRoutes
<1>3. db' = db \/ (o.user \in Rows(db.users) /\ db' = [db EXCEPT !.users[o.user] = row])
  BY <1>1 DEF ResetPassword, Settle, Answer, Commit
<1>4. CASE db' = db
  BY <1>4, UsersLeft DEF LeavesUsers
<1>5. CASE o.user \in Rows(db.users) /\ db' = [db EXCEPT !.users[o.user] = row]
  <2>1. now \in UserRow
    BY <1>2, <1>5, TableFields DEF Rows, Serving
  <2>2. flag \in BOOLEAN
    BY <2>1, UserRows, WrittenIsEither
  <2>3. row \in UserRow /\ row.active = now.active /\ row.super = now.super
    BY <2>1, <2>2 DEF UserRow
  <2> HIDE DEF row
  <2> QED
    BY <1>5, <2>3, RankKept DEF Serving
<1> QED
  BY <1>3, <1>4, <1>5

(* A new password leaves rank and status.                                  *)
LEMMA ChangePasswordStaff ==
    ASSUME db \in Tables, NEW u \in Users, ChangePassword(u)
    PROVE  StaffKept
<1> DEFINE row == [db.users[u] EXCEPT !.must = FALSE]
<1>1. u \in Rows(db.users) /\ db' = [db EXCEPT !.users[u] = row]
  BY DEF ChangePassword, IsActive
<1>2. db.users[u] \in UserRow
  BY <1>1, TableFields DEF Rows
<1>3. row \in UserRow /\ row.active = db.users[u].active /\ row.super = db.users[u].super
  BY <1>2 DEF UserRow
<1> HIDE DEF row
<1> QED
  BY <1>1, <1>3, RankKept

(* UserService.assign_roles: roles do not make a superuser.                *)
LEMMA AssignRolesStaff ==
    ASSUME NEW r \in Requests, NEW o, Serving(r, o), AssignRoles(r)
    PROVE  StaffKept
<1> DEFINE saw == Seen(r).users[o.user].roles
           now == db.users[o.user]
           links == Relinked(saw, o.roles, now.roles)
           row == [now EXCEPT !.roles = links]
<1>1. o.kind = "assign_roles" /\ o = requests[r].op
  BY DEF Serves, Serving, AssignRoles
<1>2. o.user \in Users /\ o.roles \subseteq Roles
  BY <1>1 DEF Serving, IsOperation, UserRoutes
<1>3. db' = db \/ (o.user \in Rows(db.users) /\ db' = [db EXCEPT !.users[o.user] = row])
  BY <1>1 DEF AssignRoles, Relink, Settle, Answer, Commit
<1>4. CASE db' = db
  BY <1>4, UsersLeft DEF LeavesUsers
<1>5. CASE o.user \in Rows(db.users) /\ db' = [db EXCEPT !.users[o.user] = row]
  <2>1. now \in UserRow
    BY <1>2, <1>5, TableFields DEF Rows, Serving
  <2>2. links \in SUBSET Roles
    BY <1>2, <2>1, UserRows DEF Relinked
  <2> HIDE DEF links
  <2>3. row \in UserRow /\ row.active = now.active /\ row.super = now.super
    BY <2>1, <2>2 DEF UserRow
  <2> HIDE DEF row
  <2> QED
    BY <1>5, <2>3, RankKept DEF Serving
<1> QED
  BY <1>3, <1>4, <1>5

(* UserService.delete_user: the last superuser is not deleted.             *)
LEMMA DeleteUserStaff ==
    ASSUME processes = "one", NEW r \in Requests, NEW o, Serving(r, o), DeleteUser(r)
    PROVE  StaffKept
<1>1. o.kind = "delete_user" /\ o = requests[r].op
  BY DEF Serves, Serving, DeleteUser
<1>2. o.user \in Users
  BY <1>1 DEF Serving, IsOperation, UserRoutes
<1>3. \/ db' = db
      \/ /\ o.user \in Rows(db.users) /\ ~IsLastSuperuser(db, o.user)
         /\ db' = [db EXCEPT !.users[o.user] = Gone]
  BY <1>1, SeenIsThere DEF DeleteUser, Settle, Answer, Commit
<1>4. CASE db' = db
  BY <1>4, UsersLeft DEF LeavesUsers
<1>5. CASE /\ o.user \in Rows(db.users) /\ ~IsLastSuperuser(db, o.user)
           /\ db' = [db EXCEPT !.users[o.user] = Gone]
  <2>1. Gone \in UserRow \cup NoRow /\ Gone # Unborn
    BY RowAssumption DEF NoRow
  <2>2. db'.users = [db.users EXCEPT ![o.user] = Gone]
    BY <1>2, <1>5, <2>1, UsersPut DEF Serving
  <2> QED
    BY <1>5, <2>1, <2>2, OneUserWritten DEF Serving
<1> QED
  BY <1>3, <1>4, <1>5

(* RBACService.delete_role takes a role from users, not their rank.        *)
LEMMA DeleteRoleStaff ==
    ASSUME NEW r \in Requests, NEW o, Serving(r, o), DeleteRole(r)
    PROVE  StaffKept
<1>1. o.kind = "delete_role" /\ o = requests[r].op
  BY DEF Serves, Serving, DeleteRole
<1>2. \/ db' = db
      \/ db' = [db EXCEPT !.roles[o.role] = Gone, !.users = Dismissed(db.users, o.role)]
  BY <1>1 DEF DeleteRole, Settle, Answer, Commit
<1>3. CASE db' = db
  BY <1>3, UsersLeft DEF LeavesUsers
<1>4. CASE db' = [db EXCEPT !.roles[o.role] = Gone, !.users = Dismissed(db.users, o.role)]
  <2>1. db'.users = Dismissed(db.users, o.role)
    BY <1>4 DEF Serving, Tables
  <2>2. db.users \in [Users -> UserRow \cup NoRow]
    BY TableFields DEF Serving
  <2>3. ASSUME NEW u \in Users
        PROVE  db'.users[u] = IF db.users[u] \in NoRow THEN db.users[u]
                              ELSE [db.users[u] EXCEPT !.roles = db.users[u].roles \ {o.role}]
    BY <2>1 DEF Dismissed
  <2>4. ASSUME NEW u \in ActiveSuperusers(db)
        PROVE  u \in ActiveSuperusers(db')
    <3>1. u \in Users /\ db.users[u] \in UserRow /\ db.users[u].super /\ db.users[u].active
      BY <2>2 DEF ActiveSuperusers, Rows
    <3>2. u \in Rows(db'.users)
      BY <2>1, <2>2, DismissedUsers DEF ActiveSuperusers
    <3>3. db'.users[u] = [db.users[u] EXCEPT !.roles = db.users[u].roles \ {o.role}]
      BY <2>3, <3>1, RowAssumption
    <3>4. db'.users[u].super /\ db'.users[u].active
      BY <3>1, <3>3 DEF UserRow
    <3> QED
      BY <3>2, <3>4 DEF ActiveSuperusers
  <2> QED
    BY <2>3, <2>4 DEF StaffKept, NoRow
<1> QED
  BY <1>2, <1>3, <1>4

-----------------------------------------------------------------------------
(* The same of the projects: no id is given out that was not asked for,    *)
(* and a project keeps its template, or goes, unless it is edited.         *)
ProjectIdsKept == \A p \in Projects : db.projects[p] = Unborn => db'.projects[p] = Unborn

BindingKept(p) ==
    \/ p \notin Rows(db'.projects)
    \/ db.projects[p].template = None
    \/ db'.projects[p].template # None

CatalogKept == ProjectIdsKept /\ \A p \in Rows(db.projects) : BindingKept(p)

(* What leaves the projects alone keeps their ids and their templates.     *)
LEMMA ProjectsLeft == LeavesProjects => CatalogKept
BY DEF LeavesProjects, CatalogKept, ProjectIdsKept, BindingKept

(* One project is written: the others keep what they have.                 *)
LEMMA OneProjectWritten ==
    ASSUME db \in Tables, NEW p \in Rows(db.projects), NEW row, row # Unborn,
           db'.projects = [db.projects EXCEPT ![p] = row]
    PROVE  /\ ProjectIdsKept
           /\ \A q \in Rows(db.projects) \ {p} : BindingKept(q)
           /\ row \in NoRow \/ row.template = db.projects[p].template => BindingKept(p)
<1>1. db.projects \in [Projects -> ProjectRow \cup NoRow]
  BY TableFields
<1>2. p \in Projects
  BY <1>1 DEF Rows
<1>3. db'.projects[p] = row /\ \A q \in Projects \ {p} : db'.projects[q] = db.projects[q]
  BY <1>1, <1>2
<1>4. ProjectIdsKept
  BY <1>2, <1>3 DEF ProjectIdsKept, Rows, NoRow
<1>5. ASSUME NEW q \in Rows(db.projects) \ {p} PROVE BindingKept(q)
  BY <1>1, <1>3 DEF BindingKept, Rows
<1>6. row \in NoRow \/ row.template = db.projects[p].template => BindingKept(p)
  BY <1>3 DEF BindingKept, Rows
<1> QED
  BY <1>4, <1>5, <1>6

(* A new project takes the id that was given to its request.               *)
LEMMA CreateProjectKeeps ==
    ASSUME NEW r \in Requests, NEW o, Serving(r, o), CreateProject(r),
           db.projects[o.project] = Unborn
    PROVE  /\ \A p \in Projects \ {o.project} :
                  db.projects[p] = Unborn => db'.projects[p] = Unborn
           /\ \A p \in Rows(db.projects) : BindingKept(p)
<1> DEFINE row == [active |-> TRUE, template |-> o.template, key |-> o.key]
<1>1. o.kind = "create_project" /\ o = requests[r].op
  BY DEF Serves, Serving, CreateProject
<1>2. o.project \in Projects /\ o.template \in Templates \cup {None} /\ o.key \in ProjectKeys
  BY <1>1 DEF Serving, IsOperation, ProjectRoutes
<1>3. row \in ProjectRow
  BY <1>2, ProjectRows
<1>4. db' = db \/ db' = [db EXCEPT !.projects[o.project] = row]
  BY <1>1 DEF CreateProject, Settle, Answer, Commit
<1> HIDE DEF row
<1>5. db'.projects = db.projects \/ db'.projects = [db.projects EXCEPT ![o.project] = row]
  <2>1. [db EXCEPT !.projects[o.project] = row].projects
            = [db.projects EXCEPT ![o.project] = row]
    BY <1>2, <1>3, ProjectsPut DEF Serving
  <2> QED
    BY <1>4, <2>1
<1>6. db.projects \in [Projects -> ProjectRow \cup NoRow]
  BY TableFields DEF Serving
<1>7. o.project \notin Rows(db.projects)
  BY DEF Rows, NoRow
<1>8. \A p \in Projects \ {o.project} : db'.projects[p] = db.projects[p]
  BY <1>5, <1>6
<1>9. \A p \in Rows(db.projects) : BindingKept(p)
  BY <1>6, <1>7, <1>8 DEF BindingKept, Rows
<1> QED
  BY <1>8, <1>9

(* An edit concerns its own project.                                       *)
LEMMA UpdateProjectKeeps ==
    ASSUME NEW r \in Requests, NEW o, Serving(r, o), UpdateProject(r)
    PROVE  /\ ProjectIdsKept
           /\ \A p \in Rows(db.projects) \ {o.project} : BindingKept(p)
<1> DEFINE saw == Seen(r).projects[o.project]
           now == db.projects[o.project]
           template == Written(saw.template, o.template, now.template)
           key == Written(saw.key, o.key, now.key)
           bound == [now EXCEPT !.template = template]
           row == [bound EXCEPT !.key = key]
<1>1. o.kind = "update_project" /\ o = requests[r].op
  BY DEF Serves, Serving, UpdateProject
<1>2. o.project \in Projects /\ o.template \in Templates \cup {None} /\ o.key \in ProjectKeys
  BY <1>1 DEF Serving, IsOperation, ProjectRoutes
<1>3. \/ db' = db
      \/ /\ o.project \in Rows(db.projects)
         /\ db' = [db EXCEPT !.projects[o.project].template = Written(saw.template, o.template, @),
                             !.projects[o.project].key = Written(saw.key, o.key, @)]
  BY <1>1 DEF UpdateProject, Settle, Answer, Commit
<1>4. CASE db' = db
  BY <1>4, ProjectsLeft DEF LeavesProjects, CatalogKept
<1>5. CASE /\ o.project \in Rows(db.projects)
           /\ db' = [db EXCEPT !.projects[o.project].template = Written(saw.template, o.template, @),
                               !.projects[o.project].key = Written(saw.key, o.key, @)]
  <2>1. now \in ProjectRow
    BY <1>2, <1>5, TableFields DEF Rows, Serving
  <2>2. template \in Templates \cup {None} /\ key \in ProjectKeys
    BY <1>2, <2>1, ProjectFields, WrittenIsEither
  <2>3. bound \in ProjectRow /\ bound.key = now.key
    <3> HIDE DEF template
    <3> QED
      BY <2>1, <2>2, BoundProjectRow
  <2>4. row \in ProjectRow
    <3> HIDE DEF template, key, bound
    <3> QED
      BY <2>2, <2>3, RekeyedProjectRow
  <2>5. db' = [db EXCEPT !.projects[o.project] = row]
    <3>1. db \in Tables
      BY DEF Serving
    <3>2. "projects" \in DOMAIN db /\ o.project \in DOMAIN db.projects
      BY <1>2, <3>1 DEF Tables
    <3> QED
      BY <1>5, <2>1, <2>3, <3>2
  <2> HIDE DEF row
  <2>6. db'.projects = [db.projects EXCEPT ![o.project] = row]
    BY <1>2, <2>4, <2>5, ProjectsPut DEF Serving
  <2>7. row # Unborn
    BY <2>4, RowAssumption DEF NoRow
  <2> QED
    BY <1>5, <2>6, <2>7, OneProjectWritten DEF Serving
<1> QED
  BY <1>3, <1>4, <1>5

(* A project that is switched on or off keeps its template.                *)
LEMMA UpdateProjectStatusKeeps ==
    ASSUME NEW r \in Requests, NEW o, Serving(r, o), UpdateProjectStatus(r)
    PROVE  CatalogKept
<1> DEFINE now == db.projects[o.project]
           flag == Written(Seen(r).projects[o.project].active, o.active, now.active)
           row == [now EXCEPT !.active = flag]
<1>1. o.kind = "project_status" /\ o = requests[r].op
  BY DEF Serves, Serving, UpdateProjectStatus
<1>2. o.project \in Projects /\ o.active \in BOOLEAN
  BY <1>1 DEF Serving, IsOperation, ProjectRoutes
<1>3. \/ db' = db
      \/ o.project \in Rows(db.projects) /\ db' = [db EXCEPT !.projects[o.project] = row]
  BY <1>1 DEF UpdateProjectStatus, Settle, Answer, Commit
<1>4. CASE db' = db
  BY <1>4, ProjectsLeft DEF LeavesProjects
<1>5. CASE o.project \in Rows(db.projects) /\ db' = [db EXCEPT !.projects[o.project] = row]
  <2>1. now \in ProjectRow
    BY <1>2, <1>5, TableFields DEF Rows, Serving
  <2>2. flag \in BOOLEAN
    BY <1>2, <2>1, ProjectFields, WrittenIsEither
  <2>3. row \in ProjectRow /\ row.template = now.template
    <3> HIDE DEF flag
    <3> QED
      BY <2>1, <2>2, SwitchedProjectRow
  <2> HIDE DEF row
  <2>4. db'.projects = [db.projects EXCEPT ![o.project] = row]
    BY <1>2, <1>5, <2>3, ProjectsPut DEF Serving
  <2>5. row # Unborn
    BY <2>3, RowAssumption DEF NoRow
  <2> QED
    BY <1>5, <2>3, <2>4, <2>5, OneProjectWritten DEF Serving, CatalogKept
<1> QED
  BY <1>3, <1>4, <1>5

(* A project that is deleted in one process was there.                     *)
LEMMA DeleteProjectKeeps ==
    ASSUME processes = "one", NEW r \in Requests, NEW o, Serving(r, o), DeleteProject(r)
    PROVE  CatalogKept
<1>1. o.kind = "delete_project" /\ o = requests[r].op
  BY DEF Serves, Serving, DeleteProject
<1>2. o.project \in Projects
  BY <1>1 DEF Serving, IsOperation, ProjectRoutes
<1>3. \/ db' = db
      \/ o.project \in Rows(db.projects) /\ db' = [db EXCEPT !.projects[o.project] = Gone]
  BY <1>1, SeenIsThere DEF DeleteProject, Settle, Answer, Commit
<1>4. CASE db' = db
  BY <1>4, ProjectsLeft DEF LeavesProjects
<1>5. CASE o.project \in Rows(db.projects) /\ db' = [db EXCEPT !.projects[o.project] = Gone]
  <2>1. Gone \in ProjectRow \cup NoRow /\ Gone # Unborn /\ Gone \in NoRow
    BY RowAssumption DEF NoRow
  <2>2. db'.projects = [db.projects EXCEPT ![o.project] = Gone]
    BY <1>2, <1>5, <2>1, ProjectsPut DEF Serving
  <2> QED
    BY <1>5, <2>1, <2>2, OneProjectWritten DEF Serving, CatalogKept
<1> QED
  BY <1>3, <1>4, <1>5

(* A template that is deleted in one process is bound to no project.       *)
LEMMA DeleteTemplateKeeps ==
    ASSUME processes = "one", NEW r \in Requests, NEW o, Serving(r, o), DeleteTemplate(r)
    PROVE  CatalogKept
<1>1. o.kind = "delete_template" /\ o = requests[r].op
  BY DEF Serves, Serving, DeleteTemplate
<1>2. \/ db' = db
      \/ /\ BoundTo(db, o.template) = {}
         /\ db' = [db EXCEPT !.templates[o.template] = Gone,
                             !.projects = Unbound(db.projects, o.template)]
  BY <1>1, SeenIsThere DEF DeleteTemplate, Settle, Answer, Commit
<1>3. db.projects \in [Projects -> ProjectRow \cup NoRow]
  BY TableFields DEF Serving
<1>4. CASE db' = db
  BY <1>4, ProjectsLeft DEF LeavesProjects
<1>5. CASE /\ BoundTo(db, o.template) = {}
           /\ db' = [db EXCEPT !.templates[o.template] = Gone,
                               !.projects = Unbound(db.projects, o.template)]
  <2>1. db'.projects = Unbound(db.projects, o.template)
    BY <1>5 DEF Serving, Tables
  <2>2. \A p \in Projects : ~(db.projects[p] \notin NoRow /\ db.projects[p].template = o.template)
    BY <1>3, <1>5 DEF BoundTo, Rows
  <2>3. Unbound(db.projects, o.template) = db.projects
    BY <1>3, <2>2 DEF Unbound
  <2> QED
    BY <2>1, <2>3, ProjectsLeft DEF LeavesProjects
<1> QED
  BY <1>2, <1>4, <1>5

-----------------------------------------------------------------------------
(* What any handler does in one process: it uses up no id but its own,     *)
(* keeps a superuser, and takes no template from a project it does not     *)
(* edit.                                                                   *)
OwnId(r, kind, id) == requests[r].op.kind = kind /\ NewId(requests[r].op) = id

(* The id a request is given is the one its operation writes.              *)
LEMMA NewIdsOf ==
    ASSUME NEW op
    PROVE  /\ op.kind = "create_user" => NewId(op) = op.user
           /\ op.kind = "create_project" => NewId(op) = op.project
BY DEF NewId

(* The users after a handler.                                              *)
LEMMA HandleStaff ==
    ASSUME AdminInvariant, IdsAreFree, processes = "one", NEW r \in Requests, Handle(r)
    PROVE  /\ \A u \in Users : db.users[u] = Unborn =>
                  db'.users[u] = Unborn \/ OwnId(r, "create_user", u)
           /\ ActiveSuperusers(db) # {} => ActiveSuperusers(db') # {}
<1> DEFINE o == requests[r].op
<1>1. PICK kind : Serves(r, kind)
  BY KindsServed DEF Handle
<1>2. Serving(r, o)
  BY <1>1, Served
<1>3. ~IsOver(r)
  BY <1>1 DEF Serves, IsOver
<1>4. CASE CreateUser(r)
  <2>1. o.kind = "create_user"
    BY <1>4, KindsServed DEF Serves
  <2>2. db.users[o.user] = Unborn
    BY <1>3, <2>1 DEF IdsAreFree, IdIsFree
  <2>3. \A u \in Users \ {o.user} : db.users[u] = Unborn => db'.users[u] = Unborn
    <3> HIDE DEF o
    <3> QED
      BY <1>2, <1>4, <2>2, CreateUserStaff
  <2>4. ActiveSuperusers(db) # {} => ActiveSuperusers(db') # {}
    <3> HIDE DEF o
    <3> QED
      BY <1>2, <1>4, <2>2, CreateUserStaff
  <2>5. OwnId(r, "create_user", o.user)
    BY <2>1, NewIdsOf DEF OwnId
  <2> QED
    BY <2>3, <2>4, <2>5
<1>5. CASE ~CreateUser(r)
  <2>1. StaffKept
    <3>1. db \in Tables
      BY <1>2 DEF Serving
    <3> HIDE DEF o
    <3> QED
      BY <1>2, <1>5, <3>1, OthersLeaveUsers, UsersLeft, UpdateUserStaff, UpdateUserStatusStaff,
         ResetPasswordStaff, AssignRolesStaff, DeleteUserStaff, DeleteRoleStaff
  <2> QED
    BY <2>1 DEF StaffKept
<1> QED
  BY <1>4, <1>5

(* The projects after a handler.                                           *)
LEMMA HandleCatalog ==
    ASSUME AdminInvariant, IdsAreFree, processes = "one", NEW r \in Requests, Handle(r)
    PROVE  /\ \A p \in Projects : db.projects[p] = Unborn =>
                  db'.projects[p] = Unborn \/ OwnId(r, "create_project", p)
           /\ \A p \in Rows(db.projects) :
                  \/ BindingKept(p)
                  \/ Serves(r, "update_project") /\ requests[r].op.project = p
<1> DEFINE o == requests[r].op
<1>1. PICK kind : Serves(r, kind)
  BY KindsServed DEF Handle
<1>2. Serving(r, o) /\ db \in Tables
  BY <1>1, Served DEF Serving
<1>3. ~IsOver(r)
  BY <1>1 DEF Serves, IsOver
<1>4. CASE CreateProject(r)
  <2>1. o.kind = "create_project"
    BY <1>4, KindsServed DEF Serves
  <2>2. db.projects[o.project] = Unborn
    BY <1>3, <2>1 DEF IdsAreFree, IdIsFree
  <2>3. /\ \A p \in Projects \ {o.project} :
               db.projects[p] = Unborn => db'.projects[p] = Unborn
        /\ \A p \in Rows(db.projects) : BindingKept(p)
    <3> HIDE DEF o
    <3> QED
      BY <1>2, <1>4, <2>2, CreateProjectKeeps
  <2>4. OwnId(r, "create_project", o.project)
    BY <2>1, NewIdsOf DEF OwnId
  <2> QED
    BY <2>3, <2>4
<1>5. CASE UpdateProject(r)
  <2>1. /\ ProjectIdsKept
        /\ \A p \in Rows(db.projects) \ {o.project} : BindingKept(p)
    <3> HIDE DEF o
    <3> QED
      BY <1>2, <1>5, UpdateProjectKeeps
  <2>2. Serves(r, "update_project")
    BY <1>5, KindsServed
  <2> QED
    BY <2>1, <2>2 DEF ProjectIdsKept
<1>6. CASE ~CreateProject(r) /\ ~UpdateProject(r)
  <2>1. CatalogKept
    <3> HIDE DEF o
    <3> QED
      BY <1>2, <1>6, OthersLeaveProjects, ProjectsLeft, UpdateProjectStatusKeeps,
         DeleteProjectKeeps, DeleteTemplateKeeps
  <2> QED
    BY <2>1 DEF CatalogKept, ProjectIdsKept
<1> QED
  BY <1>4, <1>5, <1>6

-----------------------------------------------------------------------------
(* Ids on their way.                                                       *)

(* A request moves on, keeps its operation or is over; the free ids of the *)
(* others stay free.                                                       *)
LEMMA IdsStayFree ==
    ASSUME TypeOK, IdsAreFree, NEW r \in Requests, NEW q,
           requests' = [requests EXCEPT ![r] = q], processes' = processes,
           \/ q.phase \in {"idle", "failed"}
           \/ q.op = requests[r].op /\ ~IsOver(r) /\ db' = db,
           \A x \in Requests \ {r} : ~IsOver(x) =>
               LET op == requests[x].op IN
               /\ op.kind = "create_user" /\ db.users[op.user] = Unborn =>
                      db'.users[op.user] = Unborn
               /\ op.kind = "create_project" /\ db.projects[op.project] = Unborn =>
                      db'.projects[op.project] = Unborn
    PROVE  IdsAreFree'
<1> SUFFICES ASSUME processes' = "one", NEW x \in Requests PROVE IdIsFree(x)'
  BY DEF IdsAreFree
<1>1. processes = "one" /\ IdIsFree(x) /\ IdIsFree(r)
  BY DEF IdsAreFree
<1>2. requests'[r] = q /\ \A y \in Requests \ {r} : requests'[y] = requests[y]
  BY DEF TypeOK
<1>3. \A y \in Requests : ~IsOver(y)' => ~IsOver(y) /\ requests'[y].op = requests[y].op
  BY <1>2 DEF IsOver
<1>4. \A y \in Requests : ~IsOver(y)' => NewId(requests'[y].op) = NewId(requests[y].op)
  BY <1>3
<1>5. CASE IsOver(x)'
  BY <1>5 DEF IdIsFree
<1>6. CASE ~IsOver(x)'
  <2>1. ~IsOver(x) /\ requests'[x].op = requests[x].op
    BY <1>3, <1>6
  <2>2. \A y \in Requests \ {x} :
            NewId(requests'[x].op) # None /\ ~IsOver(y)' =>
                NewId(requests'[y].op) # NewId(requests'[x].op)
    BY <1>1, <1>3, <1>4, <1>6, <2>1 DEF IdIsFree
  <2>3. /\ requests[x].op.kind = "create_user" => db'.users[requests[x].op.user] = Unborn
        /\ requests[x].op.kind = "create_project" =>
               db'.projects[requests[x].op.project] = Unborn
    <3>1. CASE x = r
      BY <1>1, <1>2, <1>6, <2>1, <3>1 DEF IdIsFree, IsOver
    <3>2. CASE x # r
      BY <1>1, <2>1, <3>2 DEF IdIsFree
    <3> QED
      BY <3>1, <3>2
  <2> QED
    BY <2>1, <2>2, <2>3 DEF IdIsFree
<1> QED
  BY <1>5, <1>6

(* A request for a new row is given an id that nobody has.                 *)
LEMMA AskIdsFree ==
    ASSUME AdminInvariant, IdsAreFree, NEW r \in Requests, Ask(r)
    PROVE  IdsAreFree'
<1>1. PICK op \in agenda.ops, u \in agenda.actors :
          (NewId(op) # None => IsNew(NewId(op))) /\ Submit(r, op, u)
  BY DEF Ask
<1> DEFINE q == [phase |-> "authenticate", op |-> op, actor |-> u]
<1>2. /\ requests' = [requests EXCEPT ![r] = q] /\ IsOver(r)
      /\ db' = db /\ processes' = processes
  BY <1>1 DEF Submit, Put
<1>3. DOMAIN requests = Requests /\ IsOperation(op) /\ db \in Tables
  BY DEF AdminInvariant, TypeOK
<1>4. /\ requests'[r] = q /\ requests'[r].op = op
      /\ \A y \in Requests \ {r} : requests'[y] = requests[y]
  BY <1>2, <1>3
<1>5. \A y \in Requests \ {r} : IsOver(y)' = IsOver(y)
  BY <1>4 DEF IsOver
<1>6. op.kind = "create_user" => op.user \in Users /\ NewId(op) = op.user
  BY <1>3, NewIdsOf DEF IsOperation, UserRoutes
<1>7. op.kind = "create_project" => op.project \in Projects /\ NewId(op) = op.project
  BY <1>3, NewIdsOf DEF IsOperation, ProjectRoutes
<1>8. DOMAIN db.users = Users /\ DOMAIN db.projects = Projects
      /\ "users" \in DOMAIN db /\ "projects" \in DOMAIN db
      /\ db["users"] = db.users /\ db["projects"] = db.projects
  BY <1>3 DEF Tables
<1>9. op.kind = "create_user" => db.users[op.user] = Unborn
  BY <1>1, <1>6, <1>8, AdminAssumption DEF IsNew
<1>10. op.kind = "create_project" => db.projects[op.project] = Unborn
  BY <1>1, <1>7, <1>8, AdminAssumption DEF IsNew
<1>11. \A y \in Requests : NewId(op) # None /\ ~IsOver(y) => NewId(requests[y].op) # NewId(op)
  BY <1>1 DEF IsNew
<1> HIDE DEF q
<1> SUFFICES ASSUME processes' = "one", NEW x \in Requests PROVE IdIsFree(x)'
  BY DEF IdsAreFree
<1>12. CASE x = r
  <2>1. \A y \in Requests \ {r} :
            NewId(op) # None /\ ~IsOver(y)' => NewId(requests'[y].op) # NewId(op)
    BY <1>4, <1>5, <1>11
  <2>2. /\ op.kind = "create_user" => db'.users[op.user] = Unborn
        /\ op.kind = "create_project" => db'.projects[op.project] = Unborn
    BY <1>2, <1>9, <1>10
  <2> QED
    BY <1>4, <1>12, <2>1, <2>2 DEF IdIsFree
<1>13. CASE x # r /\ ~IsOver(x)
  <2>1. IdIsFree(x) /\ requests'[x] = requests[x]
    BY <1>2, <1>4, <1>13 DEF IdsAreFree
  <2>2. \A y \in Requests \ {x} :
            NewId(requests[x].op) # None /\ ~IsOver(y)' =>
                NewId(requests'[y].op) # NewId(requests[x].op)
    <3> SUFFICES ASSUME NEW y \in Requests \ {x}, NewId(requests[x].op) # None, ~IsOver(y)'
                 PROVE  NewId(requests'[y].op) # NewId(requests[x].op)
      OBVIOUS
    <3>1. CASE y = r
      BY <1>4, <1>11, <1>13, <3>1
    <3>2. CASE y # r
      BY <1>4, <1>5, <1>13, <2>1, <3>2 DEF IdIsFree
    <3> QED
      BY <3>1, <3>2
  <2> QED
    BY <1>2, <1>13, <2>1, <2>2 DEF IdIsFree
<1>14. CASE x # r /\ IsOver(x)
  BY <1>5, <1>14 DEF IdIsFree
<1> QED
  BY <1>12, <1>13, <1>14

(* A handler uses up the id of its own request, which is over.             *)
LEMMA HandleIdsFree ==
    ASSUME AdminInvariant, IdsAreFree, NEW r \in Requests, Handle(r)
    PROVE  IdsAreFree'
<1>1. PICK q : /\ q = NoRequest \/ q.phase = "failed"
               /\ requests' = [requests EXCEPT ![r] = q]
  BY HandleConcludes DEF Concludes
<1>2. q.phase \in {"idle", "failed"} /\ processes' = processes
  <2>1. NoRequest.phase = "idle"
    BY DEF NoRequest
  <2> QED
    BY <1>1, <2>1, HandleConcludes DEF Concludes
<1>3. CASE processes = "one"
  <2>1. ~IsOver(r)
    BY KindsServed DEF Handle, Serves, IsOver
  <2>2. ASSUME NEW x \in Requests \ {r}, ~IsOver(x)
        PROVE  LET op == requests[x].op IN
               /\ op.kind = "create_user" /\ db.users[op.user] = Unborn =>
                      db'.users[op.user] = Unborn
               /\ op.kind = "create_project" /\ db.projects[op.project] = Unborn =>
                      db'.projects[op.project] = Unborn
    <3> DEFINE op == requests[x].op
    <3>1. IsOperation(op)
      BY <2>2 DEF AdminInvariant, RequestFits, IsOver, NoRequest
    <3>2. NewId(op) # None => NewId(requests[r].op) # NewId(op)
      BY <1>3, <2>1, <2>2 DEF IdsAreFree, IdIsFree
    <3>3. op.kind = "create_user" => op.user \in Users /\ NewId(op) = op.user
      BY <3>1, NewIdsOf DEF IsOperation, UserRoutes
    <3>4. op.kind = "create_project" => op.project \in Projects /\ NewId(op) = op.project
      BY <3>1, NewIdsOf DEF IsOperation, ProjectRoutes
    <3>5. op.kind = "create_user" => ~OwnId(r, "create_user", op.user)
      BY <3>2, <3>3, AdminAssumption DEF OwnId
    <3>6. op.kind = "create_project" => ~OwnId(r, "create_project", op.project)
      BY <3>2, <3>4, AdminAssumption DEF OwnId
    <3> HIDE DEF op
    <3>7. op.kind = "create_user" /\ db.users[op.user] = Unborn => db'.users[op.user] = Unborn
      BY <1>3, <3>3, <3>5, HandleStaff
    <3>8. op.kind = "create_project" /\ db.projects[op.project] = Unborn =>
              db'.projects[op.project] = Unborn
      BY <1>3, <3>4, <3>6, HandleCatalog
    <3> QED
      BY <3>7, <3>8 DEF op
  <2>3. TypeOK
    BY DEF AdminInvariant
  <2> QED
    BY <1>1, <1>2, <2>2, <2>3, IdsStayFree
<1>4. CASE processes # "one"
  BY <1>2, <1>4 DEF IdsAreFree
<1> QED
  BY <1>3, <1>4

(* Before its handler a request changes nothing but itself.                *)
LEMMA QuietIdsFree ==
    ASSUME AdminInvariant, IdsAreFree, NEW r \in Requests,
           Authenticate(r) \/ Authorize(r) \/ Read(r)
    PROVE  IdsAreFree' /\ db' = db /\ processes' = processes
<1>1. ~IsOver(r) /\ db' = db /\ processes' = processes /\ TypeOK
  BY DEF Authenticate, Authorize, Read, IsOver, Answer, AdminInvariant
<1>2. PICK q : /\ requests' = [requests EXCEPT ![r] = q]
               /\ q.phase \in {"idle", "failed"} \/ q.op = requests[r].op
  <2>1. CASE \E status : Answer(r, status)
    <3>1. PICK status : requests' = [requests EXCEPT ![r] = Over(r, status)]
      BY <2>1 DEF Answer, Put
    <3>2. Over(r, status).phase \in {"idle", "failed"}
      BY DEF Over, NoRequest
    <3> QED
      BY <3>1, <3>2
  <2>2. CASE ~\E status : Answer(r, status)
    <3>1. CASE Authenticate(r)
      <4> DEFINE q == [phase |-> "authorize", op |-> requests[r].op, actor |-> requests[r].actor,
                       super |-> db.users[requests[r].actor].super]
      <4>1. requests' = [requests EXCEPT ![r] = q] /\ q.op = requests[r].op
        BY <2>2, <3>1 DEF Authenticate, Put
      <4> HIDE DEF q
      <4> QED
        BY <4>1
    <3>2. CASE Authorize(r)
      <4> DEFINE q == [phase |-> "handle", op |-> requests[r].op, actor |-> requests[r].actor,
                       super |-> requests[r].super]
      <4>1. requests' = [requests EXCEPT ![r] = q] /\ q.op = requests[r].op
        BY <2>2, <3>2 DEF Authorize, Put
      <4> HIDE DEF q
      <4> QED
        BY <4>1
    <3>3. CASE Read(r)
      <4> DEFINE q == [phase |-> "commit", op |-> requests[r].op, actor |-> requests[r].actor,
                       super |-> requests[r].super, seen |-> db]
      <4>1. requests' = [requests EXCEPT ![r] = q] /\ q.op = requests[r].op
        BY <3>3 DEF Read, Put
      <4> HIDE DEF q
      <4> QED
        BY <4>1
    <3> QED
      BY <3>1, <3>2, <3>3
  <2> QED
    BY <2>1, <2>2
<1> QED
  BY <1>1, <1>2, IdsStayFree

-----------------------------------------------------------------------------
(* The invariant, action by action.                                        *)

(* A single process that starts keeps the superusers and makes one where   *)
(* there is no bootstrap admin.                                            *)
LEMMA RestartStaff ==
    ASSUME AdminInvariant, SomeSuperuserRemains, Restart
    PROVE  ActiveSuperusers(db') # {} /\ db'.projects = db.projects
<1>1. db \in Tables /\ processes = "one"
  BY DEF AdminInvariant, TypeOK, Restart
<1>2. PICK plan \in Plans(db, db) : db' = Ensured(db, db, plan)
  BY DEF Restart
<1> DEFINE u == plan.admin
           new == [active |-> TRUE, super |-> TRUE, must |-> TRUE, roles |-> {plan.role}]
           bound == [db.users[u] EXCEPT !.roles = db.users[u].roles \cup {plan.role}]
           row == CASE ~HasAdmin(db) -> new
                    [] Binds(db, plan) -> bound
                    [] OTHER -> db.users[u]
           role == IF HasRole(db) THEN db.roles[plan.role]
                   ELSE [system |-> TRUE, permissions |-> {}, menus |-> {}]
           permissions == Added(db.permissions, Missing(db.permissions, SeedPermissions),
                                SeededPermission)
           templates == Added(db.templates, Missing(db.templates, SeedTemplates), SeededTemplate)
           menus == EnsuredMenus(db, db.menus, plan.menus)
<1>3. db'.users = [db.users EXCEPT ![u] = row] /\ db'.projects = db.projects
  <2>1. Ensured(db, db, plan) =
            [db EXCEPT !.roles[plan.role] = role, !.users[u] = row, !.permissions = permissions,
                       !.templates = templates, !.menus = menus]
    BY DEF Ensured
  <2> HIDE DEF row, role, permissions, templates, menus
  <2> QED
    BY <1>1, <1>2, <2>1 DEF Tables
<1>4. u \in Admins(db)
  BY <1>2 DEF Plans
<1>5. u \in Users /\ (HasAdmin(db) => u \in Rows(db.users))
  BY <1>4 DEF Admins
<1>6. db.users \in [Users -> UserRow \cup NoRow]
  BY <1>1, TableFields
<1>7. CASE ~HasAdmin(db)
  <2>1. row = new
    BY <1>7 DEF Binds
  <2>2. plan.role \in Roles
    BY <1>2 DEF Plans, SuperAdminRoles
  <2>3. new \in UserRow /\ new.super /\ new.active
    BY <2>2 DEF UserRow
  <2> HIDE DEF row, new
  <2>4. db'.users[u] = new /\ u \in Rows(db'.users)
    BY <1>3, <1>5, <1>6, <2>1, <2>3, RowAssumption DEF Rows
  <2>5. u \in ActiveSuperusers(db')
    BY <2>3, <2>4 DEF ActiveSuperusers
  <2> QED
    BY <1>3, <2>5
<1>8. CASE HasAdmin(db)
  <2>1. PICK v : v \in ActiveSuperusers(db)
    BY <1>1, <1>5, <1>8 DEF SomeSuperuserRemains
  <2>2. v \in Users /\ db.users[v] \in UserRow /\ db.users[v].super /\ db.users[v].active
    BY <1>6, <2>1 DEF ActiveSuperusers, Rows
  <2>3. row = bound \/ row = db.users[u]
    BY <1>8
  <2>4. db.users[u] \in UserRow
    BY <1>5, <1>6, <1>8 DEF Rows
  <2>5. row.super = db.users[u].super /\ row.active = db.users[u].active
    <3>1. bound.super = db.users[u].super /\ bound.active = db.users[u].active
      BY <2>4 DEF UserRow
    <3> HIDE DEF row, bound
    <3> QED
      BY <2>3, <3>1
  <2>6. row \notin NoRow
    <3>1. plan.role \in Roles
      BY <1>2 DEF Plans, SuperAdminRoles
    <3>2. db.users[u].roles \cup {plan.role} \in SUBSET Roles
      BY <2>4, <3>1, UserRows
    <3>3. bound \in UserRow
      BY <2>4, <3>2, ChangedUserRoles
    <3> HIDE DEF row, bound
    <3> QED
      BY <2>3, <2>4, <3>3, RowAssumption
  <2> HIDE DEF row
  <2>7. v \in ActiveSuperusers(db')
    BY <1>3, <1>5, <1>6, <2>1, <2>2, <2>5, <2>6 DEF ActiveSuperusers, Rows
  <2> QED
    BY <1>3, <2>7
<1> QED
  BY <1>7, <1>8

(* A new request brings an id that is free.                                *)
LEMMA AskStaff ==
    ASSUME AdminInvariant, StaffInvariant, NEW r \in Requests, Ask(r)
    PROVE  StaffInvariant'
<1>1. IdsAreFree'
  BY AskIdsFree DEF StaffInvariant
<1>2. PICK q : /\ requests' = [requests EXCEPT ![r] = q] /\ q.phase = "authenticate"
               /\ db' = db /\ processes' = processes
  <2>1. PICK op, u : Submit(r, op, u)
    BY DEF Ask
  <2> DEFINE q == [phase |-> "authenticate", op |-> op, actor |-> u]
  <2>2. q.phase = "authenticate" /\ requests' = [requests EXCEPT ![r] = q]
    BY <2>1 DEF Submit, Put
  <2> HIDE DEF q
  <2> QED
    BY <2>1, <2>2 DEF Submit
<1>3. DOMAIN requests = Requests
  BY DEF AdminInvariant, TypeOK
<1>4. AskedByUsers'
  BY <1>2, <1>3 DEF StaffInvariant, AskedByUsers
<1>5. SomeSuperuserRemains'
  BY <1>2 DEF StaffInvariant, SomeSuperuserRemains
<1> QED
  BY <1>1, <1>4, <1>5 DEF StaffInvariant

(* Who was found active has a row.                                         *)
LEMMA QuietStaff ==
    ASSUME AdminInvariant, StaffInvariant, NEW r \in Requests,
           Authenticate(r) \/ Authorize(r) \/ Read(r)
    PROVE  StaffInvariant'
<1>1. IdsAreFree' /\ db' = db /\ processes' = processes
  BY QuietIdsFree DEF StaffInvariant
<1>2. DOMAIN requests = Requests
  BY DEF AdminInvariant, TypeOK
<1>3. \A x \in Requests \ {r} : requests'[x] = requests[x]
  BY <1>2 DEF Authenticate, Authorize, Read, Answer, Put
<1>4. ASSUME processes = "one", requests'[r].phase \in {"authorize", "handle"}
      PROVE  Rows(db.users) # {}
  <2>1. CASE Authenticate(r)
    <3>1. requests'[r].phase # "idle" /\ requests'[r].phase # "failed"
      BY <1>4
    <3>2. ~Answer(r, 401) /\ ~Answer(r, 403)
      BY <1>2, <3>1 DEF Answer, Put, Over, NoRequest
    <3> QED
      BY <2>1, <3>2 DEF Authenticate, IsActive
  <2>2. CASE Authorize(r)
    BY <1>4, <2>2 DEF Authorize, StaffInvariant, AskedByUsers
  <2>3. CASE Read(r)
    BY <1>4, <2>3 DEF Read
  <2> QED
    BY <2>1, <2>2, <2>3
<1>5. AskedByUsers'
  BY <1>1, <1>3, <1>4 DEF StaffInvariant, AskedByUsers
<1>6. SomeSuperuserRemains'
  BY <1>1 DEF StaffInvariant, SomeSuperuserRemains
<1> QED
  BY <1>1, <1>5, <1>6 DEF StaffInvariant

(* The actor of a request that is handled was looked up: there are users,  *)
(* so there is a superuser, and the handler leaves one.                    *)
LEMMA HandleKeepsStaff ==
    ASSUME AdminInvariant, StaffInvariant, NEW r \in Requests, Handle(r)
    PROVE  StaffInvariant'
<1>1. IdsAreFree'
  BY HandleIdsFree DEF StaffInvariant
<1>2. DOMAIN requests = Requests /\ processes' = processes
  BY HandleConcludes DEF AdminInvariant, TypeOK, Concludes
<1>3. CASE processes = "one"
  <2>1. requests[r].phase = "handle"
    BY <1>3, KindsServed DEF Handle, Serves
  <2>2. ActiveSuperusers(db) # {}
    BY <1>3, <2>1 DEF StaffInvariant, AskedByUsers, SomeSuperuserRemains
  <2>3. ActiveSuperusers(db') # {}
    BY <1>3, <2>2, HandleStaff DEF StaffInvariant
  <2>4. Rows(db'.users) # {}
    BY <2>3 DEF ActiveSuperusers
  <2> QED
    BY <1>1, <2>3, <2>4 DEF StaffInvariant, AskedByUsers, SomeSuperuserRemains
<1>4. CASE processes # "one"
  BY <1>1, <1>2, <1>4 DEF StaffInvariant, AskedByUsers, SomeSuperuserRemains
<1> QED
  BY <1>3, <1>4

(* A new password changes nothing of this.                                 *)
LEMMA ChangePasswordKeepsStaff ==
    ASSUME AdminInvariant, StaffInvariant, NEW u \in Users, ChangePassword(u)
    PROVE  StaffInvariant'
<1>1. db \in Tables /\ requests' = requests /\ processes' = processes /\ u \in Rows(db.users)
  BY DEF AdminInvariant, TypeOK, ChangePassword, IsActive
<1>2. StaffKept
  BY <1>1, ChangePasswordStaff
<1>3. db'.projects = db.projects
  BY <1>1 DEF ChangePassword, Tables
<1>4. ASSUME processes = "one", NEW r \in Requests
      PROVE  IdIsFree(r)'
  <2>1. IdIsFree(r)
    BY <1>4 DEF StaffInvariant, IdsAreFree
  <2>2. ~IsOver(r) /\ requests[r].op.kind = "create_user" => requests[r].op.user \in Users
    BY DEF AdminInvariant, RequestFits, IsOver, NoRequest, IsOperation, UserRoutes
  <2> QED
    BY <1>1, <1>2, <1>3, <2>1, <2>2 DEF IdIsFree, IsOver, StaffKept
<1>5. IdsAreFree'
  BY <1>1, <1>4 DEF IdsAreFree
<1>6. processes = "one" => ActiveSuperusers(db') # {}
  BY <1>1, <1>2 DEF StaffInvariant, SomeSuperuserRemains, StaffKept
<1>7. AskedByUsers' /\ SomeSuperuserRemains'
  BY <1>1, <1>6 DEF AskedByUsers, SomeSuperuserRemains, ActiveSuperusers
<1> QED
  BY <1>5, <1>7 DEF StaffInvariant

(* Whoever is served by one process when it stops is not answered.         *)
LEMMA RestartKeepsStaff ==
    ASSUME AdminInvariant, StaffInvariant, Restart
    PROVE  StaffInvariant'
<1>1. requests' = [r \in Requests |-> NoRequest] /\ ActiveSuperusers(db') # {}
  BY RestartStaff DEF Restart, StaffInvariant
<1>2. \A r \in Requests : requests'[r].phase = "idle"
  BY <1>1 DEF NoRequest
<1>3. IdsAreFree'
  BY <1>2 DEF IdsAreFree, IdIsFree, IsOver
<1>4. AskedByUsers' /\ SomeSuperuserRemains'
  BY <1>1, <1>2 DEF AskedByUsers, SomeSuperuserRemains
<1> QED
  BY <1>3, <1>4 DEF StaffInvariant

(* The starts of one process among several are no steps of a single one.   *)
LEMMA BootKeepsStaff ==
    ASSUME AdminInvariant, NEW b \in Starters, BootStep(b)
    PROVE  processes = "many" /\ processes' = "many"
<1>1. BootFits(b)
  BY DEF AdminInvariant
<1> QED
  BY <1>1 DEF BootStep, BeginBoot, CommitBoot, FailBoot, BootFits

(* A console that starts with users has a superuser: the bootstrap made    *)
(* one.                                                                    *)
LEMMA InitStaff == Init => StaffInvariant
<1> SUFFICES ASSUME Init PROVE StaffInvariant
  OBVIOUS
<1>1. PICK a \in Agendas : db = a.tables
  BY DEF Init
<1>2. Rows(db.users) # {} => ActiveSuperusers(db) # {}
  BY <1>1, AgendaAssumption
<1>3. \A r \in Requests : requests[r].phase = "idle"
  BY DEF Init, NoRequest
<1> QED
  BY <1>2, <1>3 DEF StaffInvariant, IdsAreFree, IdIsFree, IsOver, AskedByUsers,
     SomeSuperuserRemains

(* Every step keeps the invariant.                                         *)
LEMMA StepKeepsStaff ==
    ASSUME AdminInvariant, StaffInvariant, [Next]_vars
    PROVE  StaffInvariant'
<1>1. ASSUME NEW r \in Requests, Ask(r) PROVE StaffInvariant'
  BY <1>1, AskStaff
<1>2. ASSUME NEW r \in Requests, RequestStep(r) PROVE StaffInvariant'
  BY <1>2, QuietStaff, HandleKeepsStaff DEF RequestStep
<1>3. ASSUME NEW u \in Users, ChangePassword(u) PROVE StaffInvariant'
  BY <1>3, ChangePasswordKeepsStaff
<1>4. CASE Restart
  BY <1>4, RestartKeepsStaff
<1>5. ASSUME NEW b \in agenda.starters, BootStep(b) PROVE StaffInvariant'
  <2>1. processes' = "many"
    BY <1>5, BootKeepsStaff DEF AdminInvariant, TypeOK
  <2> QED
    BY <2>1 DEF StaffInvariant, IdsAreFree, AskedByUsers, SomeSuperuserRemains
<1>6. CASE UNCHANGED vars
  BY <1>6 DEF vars, StaffInvariant, IdsAreFree, IdIsFree, IsOver, AskedByUsers,
     SomeSuperuserRemains
<1> QED
  BY <1>1, <1>2, <1>3, <1>4, <1>5, <1>6 DEF Next

(* One process: no sequence of demotions, disablings and deletions leaves  *)
(* the console without an active superuser, though each handler decides on *)
(* a rank of its actor read earlier and guards only the last one.          *)
THEOREM SuperuserRemains == Spec => []SomeSuperuserRemains
<1>1. Init => AdminInvariant /\ StaffInvariant
  BY InitFits, InitStaff
<1>2. AdminInvariant /\ StaffInvariant /\ [Next]_vars => (AdminInvariant /\ StaffInvariant)'
  BY StepFits, StepKeepsStaff
<1>3. StaffInvariant => SomeSuperuserRemains
  BY DEF StaffInvariant
<1> QED
  BY <1>1, <1>2, <1>3, PTL DEF Spec

(* One process: a project loses its template only to an edit of its own.   *)
(* Deleting a template is refused while any project is bound to it, and    *)
(* no start touches the projects, so that ON DELETE SET NULL finds nothing *)
(* to do.                                                                  *)
THEOREM BindingsKept == Spec => BindingsAreKept
<1> DEFINE Edited(p) == \E r \in Requests :
                            /\ requests'[r] # requests[r]
                            /\ Serves(r, "update_project")
                            /\ requests[r].op.project = p
<1>1. ASSUME AdminInvariant, StaffInvariant, Next, processes = "one"
      PROVE  \A p \in Rows(db.projects) : BindingKept(p) \/ Edited(p)
  <2> USE <1>1
  <2>1. \/ \E r \in Requests : Handle(r)
        \/ Restart
        \/ \E u \in Users : ChangePassword(u)
        \/ db' = db
    BY QuietIdsFree, BootKeepsStaff DEF Next, RequestStep, Ask, Submit, StaffInvariant,
       AdminInvariant, TypeOK
  <2>2. ASSUME NEW r \in Requests, Handle(r)
        PROVE  \A p \in Rows(db.projects) : BindingKept(p) \/ Edited(p)
    <3>1. \A p \in Rows(db.projects) :
              BindingKept(p) \/ (Serves(r, "update_project") /\ requests[r].op.project = p)
      BY <2>2, HandleCatalog DEF StaffInvariant
    <3>2. requests[r].phase = "handle"
      BY <2>2, KindsServed DEF Handle, Serves
    <3>3. requests'[r].phase # "handle"
      BY <2>2, HandleConcludes DEF Concludes, AdminInvariant, TypeOK, NoRequest
    <3> QED
      BY <3>1, <3>2, <3>3
  <2>3. CASE db'.projects = db.projects
    BY <2>3 DEF BindingKept
  <2>4. Restart => db'.projects = db.projects
    BY RestartStaff DEF StaffInvariant
  <2>5. ASSUME NEW u \in Users, ChangePassword(u) PROVE db'.projects = db.projects
    BY <2>5 DEF ChangePassword, AdminInvariant, TypeOK, Tables
  <2> QED
    BY <2>1, <2>2, <2>3, <2>4, <2>5
<1>2. AdminInvariant /\ StaffInvariant /\ [Next]_vars =>
          [processes = "one" =>
              \A p \in Rows(db.projects) :
                  \/ p \notin Rows(db'.projects)
                  \/ db.projects[p].template = None
                  \/ db'.projects[p].template # None
                  \/ \E r \in Requests :
                         /\ requests'[r] # requests[r]
                         /\ Serves(r, "update_project")
                         /\ requests[r].op.project = p]_vars
  BY <1>1 DEF BindingKept
<1>3. Init => AdminInvariant /\ StaffInvariant
  BY InitFits, InitStaff
<1>4. AdminInvariant /\ StaffInvariant /\ [Next]_vars => (AdminInvariant /\ StaffInvariant)'
  BY StepFits, StepKeepsStaff
<1> QED
  BY <1>2, <1>3, <1>4, PTL DEF Spec, BindingsAreKept

-----------------------------------------------------------------------------
(* The audit log.  What changes who may do what is an audited operation.   *)
LEMMA AccessIsAudited ==
    ASSUME db \in Tables, NEW r, Handle(r)
    PROVE  \/ requests[r].op.kind \in AuditedKinds
           \/ AccessTables(db') = AccessTables(db)
<1>1. \/ requests[r].op.kind \in AuditedKinds
      \/ CreateProject(r) \/ UpdateProject(r) \/ UpdateProjectStatus(r) \/ DeleteProject(r)
      \/ CreateTemplate(r) \/ UpdateTemplate(r) \/ UpdateTemplateStatus(r) \/ DeleteTemplate(r)
  BY KindsServed DEF Handle, Serves, AuditedKinds, SystemKinds, UserRoutes, RoleRoutes,
     PermissionRoutes, MenuRoutes, ModelRoutes, BotRoutes, AuditRoutes
<1>2. CreateProject(r) => AccessTables(db') = AccessTables(db)
  BY DEF CreateProject, Settle, Answer, Commit, Tables, AccessTables
<1>3. UpdateProject(r) => AccessTables(db') = AccessTables(db)
  BY DEF UpdateProject, Settle, Answer, Commit, Tables, AccessTables
<1>4. UpdateProjectStatus(r) => AccessTables(db') = AccessTables(db)
  BY DEF UpdateProjectStatus, Settle, Answer, Commit, Tables, AccessTables
<1>5. DeleteProject(r) => AccessTables(db') = AccessTables(db)
  BY DEF DeleteProject, Settle, Answer, Commit, Tables, AccessTables
<1>6. CreateTemplate(r) => AccessTables(db') = AccessTables(db)
  BY DEF CreateTemplate, Settle, Answer, Commit, Tables, AccessTables
<1>7. UpdateTemplate(r) => AccessTables(db') = AccessTables(db)
  BY DEF UpdateTemplate, Settle, Answer, Commit, Tables, AccessTables
<1>8. UpdateTemplateStatus(r) => AccessTables(db') = AccessTables(db)
  BY DEF UpdateTemplateStatus, Settle, Answer, Commit, Tables, AccessTables
<1>9. DeleteTemplate(r) => AccessTables(db') = AccessTables(db)
  BY DEF DeleteTemplate, Settle, Answer, Commit, Tables, AccessTables
<1> QED
  BY <1>1, <1>2, <1>3, <1>4, <1>5, <1>6, <1>7, <1>8, <1>9

(* A request that changes users, roles, permissions or menus commits its   *)
(* entry with the change, and no later step, a purge included, removes it. *)
THEOREM ChangesStayAudited == Spec => SystemChangesStayAudited
<1>1. ASSUME AdminInvariant, NEW r \in Requests, Handle(r),
             requests[r].op.kind \in Watched, AccessTables(db) # AccessTables(db')
      PROVE  Entry(r) \in audit'
  <2>1. requests[r].op.kind \in AuditedKinds
    BY <1>1, AccessIsAudited DEF AdminInvariant, TypeOK
  <2> QED
    BY <1>1, <2>1, HandleConcludes DEF Concludes, RecordAction, PurgeAudit
<1>2. ASSUME AdminInvariant, Next, NEW e \in audit, e.kind \in SystemKinds
      PROVE  e \in audit'
  <2>1. \/ audit' = audit
        \/ \E r \in Requests : Handle(r)
    BY <1>2 DEF Next, RequestStep, Ask, Submit, Authenticate, Authorize, Read, Answer,
       ChangePassword, Restart, BootStep, BeginBoot, CommitBoot, FailBoot
  <2> QED
    BY <1>2, <2>1, HandleConcludes DEF Concludes, RecordAction, PurgeAudit
<1>3. AdminInvariant /\ [Next]_vars =>
          [/\ \A e \in audit : e.kind \in SystemKinds => e \in audit'
           /\ \A r \in Requests :
                  /\ requests[r].phase \in {"handle", "commit"} /\ requests[r].op.kind \in Watched
                  /\ AccessTables(db) # AccessTables(db')
                  /\ Handle(r)
                  => Entry(r) \in audit']_vars
  BY <1>1, <1>2
<1> QED
  BY <1>3, ConsoleAgrees, PTL DEF Spec, SystemChangesStayAudited

-----------------------------------------------------------------------------
(* Nothing is added to a table for no codes.                               *)
LEMMA NothingToNumber ==
    ASSUME NEW table
    PROVE  Range(Numbered({}, table)) = {}
<1>1. \E at \in [{} -> Fresh(table)] : IsInjective(at)
  <2> DEFINE at == [i \in {} |-> i]
  <2>1. at \in [{} -> Fresh(table)] /\ IsInjective(at)
    BY DEF IsInjective
  <2> QED
    BY <2>1
<1>2. Numbered({}, table) \in [{} -> Fresh(table)]
  BY <1>1 DEF Numbered
<1> QED
  BY <1>2 DEF Range

(* A seeded permission has its code.                                       *)
LEMMA SeededPermissionRow ==
    ASSUME NEW c \in SeedPermissions
    PROVE  SeededPermission(c) \in PermissionRow /\ SeededPermission(c).code = c
BY BootAssumption DEF SeededPermission, PermissionRow

(* A second start finds every permission.                                  *)
LEMMA PermissionsSettle ==
    ASSUME NEW d \in Tables, PermissionCodesAreUnique(d), HasIds(d, d)
    PROVE  LET t == Added(d.permissions, Missing(d.permissions, SeedPermissions), SeededPermission)
           IN Added(t, Missing(t, SeedPermissions), SeededPermission) = t
<1> DEFINE table == d.permissions
           codes == Missing(table, SeedPermissions)
           at == Numbered(codes, table)
           t == Added(table, codes, SeededPermission)
<1>1. table \in [Permissions -> PermissionRow \cup NoRow]
  BY TableFields
<1>2. /\ at \in [codes -> Fresh(table)]
      /\ \A x, y \in codes : at[x] = at[y] => x = y
  BY FreshIds, SeedsAreFinite DEF HasIds
<1>3. t = [i \in Permissions |->
             IF i \in Range(at) THEN SeededPermission(CHOOSE c \in codes : at[c] = i) ELSE table[i]]
  BY <1>1 DEF Added
<1> HIDE DEF t
<1>4. ASSUME NEW c \in SeedPermissions
      PROVE  \E i \in Rows(t) : t[i].code = c
  <2>1. CASE c \in codes
    <3>1. at[c] \in Range(at) /\ at[c] \in Permissions
      BY <1>1, <1>2, <2>1 DEF Range, Fresh
    <3>2. c = CHOOSE k \in codes : at[k] = at[c]
      BY <1>2, <2>1
    <3>3. t[at[c]] = SeededPermission(c)
      BY <1>3, <3>1, <3>2
    <3>4. t[at[c]] \in PermissionRow /\ t[at[c]].code = c
      BY <3>3, SeededPermissionRow
    <3> QED
      BY <1>3, <3>1, <3>4, RowAssumption DEF Rows
  <2>2. CASE c \notin codes
    <3>1. PICK i \in Rows(table) : table[i].code = c
      BY <2>2 DEF Missing
    <3>2. i \in Permissions /\ i \notin Range(at)
      BY <1>1, <1>2 DEF Rows, Range, Fresh, NoRow
    <3> QED
      BY <1>3, <3>1, <3>2 DEF Rows
  <2> QED
    BY <2>1, <2>2
<1>5. Missing(t, SeedPermissions) = {}
  BY <1>4 DEF Missing
<1>6. Added(t, {}, SeededPermission) = [i \in Permissions |-> t[i]]
  BY <1>3, NothingToNumber DEF Added
<1> QED
  BY <1>3, <1>5, <1>6 DEF t

(* A seeded template has its code.                                       *)
LEMMA SeededTemplateRow ==
    ASSUME NEW c \in SeedTemplates
    PROVE  SeededTemplate(c) \in TemplateRow /\ SeededTemplate(c).code = c
BY BootAssumption DEF SeededTemplate, TemplateRow

(* A second start finds every template.                                    *)
LEMMA TemplatesSettle ==
    ASSUME NEW d \in Tables, TemplateCodesAreUnique(d), HasIds(d, d)
    PROVE  LET t == Added(d.templates, Missing(d.templates, SeedTemplates), SeededTemplate)
           IN Added(t, Missing(t, SeedTemplates), SeededTemplate) = t
<1> DEFINE table == d.templates
           codes == Missing(table, SeedTemplates)
           at == Numbered(codes, table)
           t == Added(table, codes, SeededTemplate)
<1>1. table \in [Templates -> TemplateRow \cup NoRow]
  BY TableFields
<1>2. /\ at \in [codes -> Fresh(table)]
      /\ \A x, y \in codes : at[x] = at[y] => x = y
  BY FreshIds, SeedsAreFinite DEF HasIds
<1>3. t = [i \in Templates |->
             IF i \in Range(at) THEN SeededTemplate(CHOOSE c \in codes : at[c] = i) ELSE table[i]]
  BY <1>1 DEF Added
<1> HIDE DEF t
<1>4. ASSUME NEW c \in SeedTemplates
      PROVE  \E i \in Rows(t) : t[i].code = c
  <2>1. CASE c \in codes
    <3>1. at[c] \in Range(at) /\ at[c] \in Templates
      BY <1>1, <1>2, <2>1 DEF Range, Fresh
    <3>2. c = CHOOSE k \in codes : at[k] = at[c]
      BY <1>2, <2>1
    <3>3. t[at[c]] = SeededTemplate(c)
      BY <1>3, <3>1, <3>2
    <3>4. t[at[c]] \in TemplateRow /\ t[at[c]].code = c
      BY <3>3, SeededTemplateRow
    <3> QED
      BY <1>3, <3>1, <3>4, RowAssumption DEF Rows
  <2>2. CASE c \notin codes
    <3>1. PICK i \in Rows(table) : table[i].code = c
      BY <2>2 DEF Missing
    <3>2. i \in Templates /\ i \notin Range(at)
      BY <1>1, <1>2 DEF Rows, Range, Fresh, NoRow
    <3> QED
      BY <1>3, <3>1, <3>2 DEF Rows
  <2> QED
    BY <2>1, <2>2
<1>5. Missing(t, SeedTemplates) = {}
  BY <1>4 DEF Missing
<1>6. Added(t, {}, SeededTemplate) = [i \in Templates |-> t[i]]
  BY <1>3, NothingToNumber DEF Added
<1> QED
  BY <1>3, <1>5, <1>6 DEF t

(* The parent that the seeds give to a menu.                               *)
StandsUnder(at, k) ==
    IF SeedParent[SeedMenus[k]] = None THEN None ELSE at[SeedParent[SeedMenus[k]]]

(* The seeded menus are there, each under its parent, and no two menus     *)
(* have the same path.                                                     *)
Stands(menus, at) ==
    /\ \A k \in DOMAIN SeedMenus :
           LET m == at[SeedMenus[k]] IN
           /\ m \in Rows(menus) /\ menus[m].path = SeedMenus[k]
           /\ menus[m].system /\ menus[m].parent = StandsUnder(at, k)
    /\ \A m, n \in Rows(menus) : menus[m].path = menus[n].path => m = n

(* What the seeds are: paths, and parents among them.                      *)
LEMMA SeedFacts ==
    ASSUME NEW k \in DOMAIN SeedMenus
    PROVE  /\ SeedMenus[k] \in SeedPaths /\ SeedMenus[k] \in Paths /\ SeedMenus[k] # None
           /\ SeedParent[SeedMenus[k]] \in SeedPaths \cup {None}
           /\ \A j \in 1 .. k - 1 : j \in DOMAIN SeedMenus
BY BootAssumption DEF SeedPaths, Range

(* The parent that a start finds is the one of the seeds.                  *)
LEMMA ParentsAreFound ==
    ASSUME NEW d \in Tables, NEW at, NEW k \in DOMAIN SeedMenus
    PROVE  ParentOf(d, at, k) = StandsUnder(at, k)
<1> DEFINE parent == SeedParent[SeedMenus[k]]
<1>1. CASE parent = None
  <2>1. ASSUME HasPath(d, None) PROVE FALSE
    <3>1. PICK m \in Rows(d.menus) : d.menus[m].path = None
      BY <2>1 DEF HasPath
    <3>2. d.menus[m] \in MenuRow
      BY TableFields DEF Rows
    <3> QED
      BY <3>1, <3>2, BootAssumption DEF MenuRow
  <2>2. \A j \in 1 .. k - 1 : SeedMenus[j] # None
    BY SeedFacts
  <2> QED
    BY <1>1, <2>1, <2>2 DEF ParentOf, StandsUnder
<1>2. CASE parent # None
  BY <1>2, SeedOrderAssumption DEF ParentOf, StandsUnder
<1> QED
  BY <1>1, <1>2

(* Each seeded menu has a place of its own.                                *)
LEMMA PlacesDiffer ==
    ASSUME NEW d \in Tables, HasIds(d, d), NEW at \in Placements(d, d),
           NEW p \in SeedPaths, NEW q \in SeedPaths, at[p] = at[q]
    PROVE  p = q
<1>1. \A s \in SeedPaths :
          /\ HasPath(d, s) => at[s] \in Rows(d.menus) /\ d.menus[at[s]].path = s
          /\ ~HasPath(d, s) => d.menus[at[s]] = Unborn
  BY SeedsHavePlaces
<1>2. CASE HasPath(d, p) /\ HasPath(d, q)
  BY <1>1, <1>2
<1>3. CASE ~HasPath(d, p) /\ ~HasPath(d, q)
  <2>1. p \in Unplaced(d) /\ q \in Unplaced(d)
    BY <1>3 DEF Unplaced
  <2>2. \A s \in Unplaced(d) : at[s] = Numbered(Unplaced(d), d.menus)[s]
    BY DEF Placements, Unplaced
  <2> QED
    BY <2>1, <2>2, FreshIds, SeedsAreFinite DEF HasIds
<1>4. CASE HasPath(d, p) /\ ~HasPath(d, q)
  BY <1>1, <1>4 DEF Rows, NoRow
<1>5. CASE ~HasPath(d, p) /\ HasPath(d, q)
  BY <1>1, <1>5 DEF Rows, NoRow
<1> QED
  BY <1>2, <1>3, <1>4, <1>5

(* A start that nobody disturbs puts every seeded menu under its parent,   *)
(* and keeps the paths unique.                                             *)
LEMMA SeedsStand ==
    ASSUME NEW d \in Tables, PathsAreUnique(d), HasIds(d, d), NEW at \in Placements(d, d)
    PROVE  Stands(EnsuredMenus(d, d.menus, at), at)
<1> DEFINE K == DOMAIN SeedMenus
           table == d.menus
           t == EnsuredMenus(d, table, at)
           seedOf(m) == CHOOSE k \in K : at[SeedMenus[k]] = m
           isMoved(m) == \E k \in K : at[SeedMenus[k]] = m /\ Moves(d, at, k)
<1>1. /\ table \in [Menus -> MenuRow \cup NoRow] /\ at \in [SeedPaths -> Menus]
      /\ \A p \in SeedPaths :
             /\ HasPath(d, p) => at[p] \in Rows(table) /\ table[at[p]].path = p
             /\ ~HasPath(d, p) => table[at[p]] = Unborn
  BY TableFields, SeedsHavePlaces
<1>2. t = [m \in Menus |-> IF isMoved(m) THEN EnsuredMenu(d, table, at, seedOf(m)) ELSE table[m]]
  BY DEF EnsuredMenus
<1>3. ASSUME NEW k \in K, NEW l \in K, at[SeedMenus[k]] = at[SeedMenus[l]]
      PROVE  SeedMenus[k] = SeedMenus[l]
  BY <1>3, SeedFacts, PlacesDiffer
<1>4. ASSUME NEW k \in K
      PROVE  LET m == at[SeedMenus[k]] IN
             /\ m \in Menus /\ t[m] \in MenuRow /\ t[m].path = SeedMenus[k]
             /\ t[m].system /\ t[m].parent = StandsUnder(at, k)
  <2> DEFINE m == at[SeedMenus[k]]
             l == seedOf(m)
             parent == StandsUnder(at, k)
  <2>1. l \in K /\ SeedMenus[l] = SeedMenus[k]
    BY <1>3, <1>4
  <2>2. m \in Menus /\ parent \in Menus \cup {None} /\ SeedMenus[k] \in SeedPaths
    BY <1>1, SeedFacts DEF StandsUnder
  <2>3. ParentOf(d, at, k) = parent /\ ParentOf(d, at, l) = parent
    BY <2>1, ParentsAreFound DEF StandsUnder
  <2> HIDE DEF l, m, parent
  <2>4. CASE ~HasPath(d, SeedMenus[k])
    <3>1. isMoved(m)
      BY <1>4, <2>4 DEF m, Moves, Places
    <3>2. EnsuredMenu(d, table, at, l) = [system |-> TRUE, parent |-> parent, path |-> SeedMenus[k]]
      BY <2>1, <2>3, <2>4 DEF EnsuredMenu
    <3>3. t[m] = [system |-> TRUE, parent |-> parent, path |-> SeedMenus[k]]
      BY <1>2, <2>2, <3>1, <3>2 DEF l
    <3> QED
      BY <2>2, <3>3, SeedFacts DEF MenuRow, m, parent
  <2>5. CASE HasPath(d, SeedMenus[k])
    <3>1. m \in Rows(table) /\ table[m] \in MenuRow /\ table[m].path = SeedMenus[k]
      BY <1>1, <2>2, <2>5 DEF m, Rows
    <3>2. CASE isMoved(m)
      <4>1. EnsuredMenu(d, table, at, l) = [table[m] EXCEPT !.system = TRUE, !.parent = parent]
        BY <2>1, <2>3, <2>5 DEF EnsuredMenu, Written, m
      <4>2. t[m] = [table[m] EXCEPT !.system = TRUE, !.parent = parent]
        BY <1>2, <2>2, <3>2, <4>1 DEF l
      <4> QED
        BY <2>2, <3>1, <4>2 DEF MenuRow, m, parent
    <3>3. CASE ~isMoved(m)
      <4>1. t[m] = table[m]
        BY <1>2, <2>2, <3>3
      <4>2. ~Moves(d, at, k)
        BY <1>4, <3>3 DEF m
      <4>3. table[m].system /\ table[m].parent = parent
        BY <2>3, <2>5, <4>2 DEF Moves, Places, m
      <4> QED
        BY <2>2, <3>1, <4>1, <4>3 DEF m, parent
    <3> QED
      BY <3>2, <3>3
  <2> QED
    BY <2>4, <2>5
<1>5. ASSUME NEW m \in Menus, \A k \in K : at[SeedMenus[k]] # m
      PROVE  t[m] = table[m]
  BY <1>2, <1>5
<1> HIDE DEF t, isMoved, seedOf, table
<1>6. DOMAIN t = Menus /\ DOMAIN table = Menus
  BY <1>1, <1>2
<1>7. ASSUME NEW m \in Rows(t), NEW k \in K, t[m].path = SeedMenus[k]
      PROVE  m = at[SeedMenus[k]]
  <2>1. CASE \E l \in K : at[SeedMenus[l]] = m
    BY <1>4, <1>7, <2>1
  <2>2. CASE \A l \in K : at[SeedMenus[l]] # m
    <3>1. m \in Rows(table) /\ table[m].path = SeedMenus[k]
      BY <1>5, <1>6, <1>7, <2>2 DEF Rows
    <3>2. HasPath(d, SeedMenus[k])
      BY <3>1 DEF HasPath, table
    <3> QED
      BY <1>1, <3>1, <3>2, SeedFacts DEF PathsAreUnique, table
  <2> QED
    BY <2>1, <2>2
<1>8. ASSUME NEW m \in Rows(t), NEW n \in Rows(t), t[m].path = t[n].path
      PROVE  m = n
  <2>1. CASE \E l \in K : at[SeedMenus[l]] = m
    BY <1>4, <1>7, <1>8, <2>1
  <2>2. CASE \E l \in K : at[SeedMenus[l]] = n
    BY <1>4, <1>7, <1>8, <2>2
  <2>3. CASE \A l \in K : at[SeedMenus[l]] # m /\ at[SeedMenus[l]] # n
    BY <1>5, <1>6, <1>8, <2>3 DEF Rows, PathsAreUnique, table
  <2> QED
    BY <2>1, <2>2, <2>3
<1>9. \A k \in K : at[SeedMenus[k]] \in Rows(t)
  BY <1>4, <1>6, RowAssumption DEF Rows
<1> QED
  BY <1>4, <1>8, <1>9 DEF Stands, t, table

(* When the seeded menus stand, another start finds them and moves none.   *)
LEMMA StandingMenusStay ==
    ASSUME NEW d \in Tables, NEW at, Stands(d.menus, at), NEW again \in Placements(d, d)
    PROVE  EnsuredMenus(d, d.menus, again) = d.menus
<1> DEFINE K == DOMAIN SeedMenus
<1>1. \A k \in K : HasPath(d, SeedMenus[k])
  BY DEF Stands, HasPath
<1>2. ASSUME NEW p \in SeedPaths
      PROVE  again[p] = at[p]
  <2>1. PICK k \in K : SeedMenus[k] = p
    BY DEF SeedPaths, Range
  <2>2. again[p] \in Rows(d.menus) /\ d.menus[again[p]].path = p
    BY <1>1, <2>1 DEF Placements
  <2> QED
    BY <2>1, <2>2 DEF Stands
<1>3. ASSUME NEW k \in K
      PROVE  ~Moves(d, again, k)
  <2>1. ParentOf(d, again, k) = StandsUnder(at, k) /\ again[SeedMenus[k]] = at[SeedMenus[k]]
    BY <1>2, ParentsAreFound, SeedFacts DEF StandsUnder
  <2> QED
    BY <1>1, <2>1 DEF Moves, Places, Stands
<1>4. d.menus \in [Menus -> MenuRow \cup NoRow]
  BY TableFields
<1> QED
  BY <1>3, <1>4 DEF EnsuredMenus

(* Two starts, one right after the other: the second changes nothing.      *)
LEMMA SecondStartIsIdle ==
    ASSUME NEW d \in Tables, Agree(d), PathsAreUnique(d), HasIds(d, d),
           NEW plan \in Plans(d, d), NEW again \in Plans(Ensured(d, d, plan), Ensured(d, d, plan))
    PROVE  LET once == Ensured(d, d, plan) IN Ensured(once, once, again) = once
<1> DEFINE once == Ensured(d, d, plan)
           u == plan.admin
           x == plan.role
           admin == [active |-> TRUE, super |-> TRUE, must |-> TRUE, roles |-> {x}]
           bound == [d.users[u] EXCEPT !.roles = d.users[u].roles \cup {x}]
           user == CASE ~HasAdmin(d) -> admin
                     [] Binds(d, plan) -> bound
                     [] OTHER -> d.users[u]
<1>1. once \in Tables /\ Agree(once)
  <2>1. IsOlder(d, d)
    BY DEF IsOlder
  <2> QED
    BY <2>1, LoneStartSucceeds, EnsuredCarries DEF Carries
<1>2. /\ u \in Users /\ UserName[u] = AdminName /\ (HasAdmin(d) => u \in Rows(d.users))
      /\ x \in Roles /\ RoleCode[x] = SuperAdminCode /\ (HasRole(d) => x \in Rows(d.roles))
      /\ plan.menus \in Placements(d, d)
  BY DEF Plans, Admins, SuperAdminRoles
<1>3. /\ d.users \in [Users -> UserRow \cup NoRow] /\ d.roles \in [Roles -> RoleRow \cup NoRow]
  BY TableFields
<1>4. /\ once.permissions = Added(d.permissions, Missing(d.permissions, SeedPermissions),
                                  SeededPermission)
      /\ once.templates = Added(d.templates, Missing(d.templates, SeedTemplates), SeededTemplate)
      /\ once.menus = EnsuredMenus(d, d.menus, plan.menus)
  BY DEF Ensured, Tables
<1>5. x \in Rows(once.roles)
  <2>1. once.roles[x] = IF HasRole(d) THEN d.roles[x]
                        ELSE [system |-> TRUE, permissions |-> {}, menus |-> {}]
    BY <1>2, <1>3 DEF Ensured, Tables
  <2>2. once.roles[x] \in RoleRow
    BY <1>2, <1>3, <2>1, NewRoleRow DEF Rows
  <2> QED
    BY <1>1, <1>2, <2>2, TableFields, RowAssumption DEF Rows
<1>6. u \in Rows(once.users) /\ x \in once.users[u].roles
  <2>1. once.users[u] = user
    <3> DEFINE role == IF HasRole(d) THEN d.roles[x]
                       ELSE [system |-> TRUE, permissions |-> {}, menus |-> {}]
               permissions == Added(d.permissions, Missing(d.permissions, SeedPermissions),
                                    SeededPermission)
               templates == Added(d.templates, Missing(d.templates, SeedTemplates), SeededTemplate)
               menus == EnsuredMenus(d, d.menus, plan.menus)
    <3> HIDE DEF role, admin, bound, user, permissions, templates, menus
    <3>1. once = [d EXCEPT !.roles[x] = role, !.users[u] = user, !.permissions = permissions,
                           !.templates = templates, !.menus = menus]
      BY DEF Ensured, role, admin, bound, user, permissions, templates, menus
    <3> HIDE DEF once
    <3>2. once.users = [d.users EXCEPT ![u] = user]
      BY <3>1 DEF Tables
    <3> QED
      BY <1>2, <1>3, <3>2
  <2>2. (~HasAdmin(d) => user = admin) /\ (Binds(d, plan) => user = bound)
    BY DEF Binds
  <2>3. HasAdmin(d) /\ ~Binds(d, plan) => user = d.users[u]
    OBVIOUS
  <2>4. admin \in UserRow /\ admin.roles = {x}
    BY <1>2, NewUserRow
  <2>5. ASSUME Binds(d, plan)
        PROVE  bound \in UserRow /\ x \in bound.roles
    <3>1. d.users[u] \in UserRow
      BY <1>2, <1>3, <2>5 DEF Binds, Rows
    <3>2. d.users[u].roles \cup {x} \in SUBSET Roles
      BY <1>2, <3>1, UserRows
    <3> QED
      BY <3>1, <3>2, ChangedUserRoles
  <2> HIDE DEF user, admin, bound
  <2>6. ASSUME HasAdmin(d), ~Binds(d, plan)
        PROVE  d.users[u] \in UserRow /\ x \in d.users[u].roles
    BY <1>2, <1>3, <2>6 DEF Binds, Rows
  <2>7. once.users[u] \in UserRow /\ x \in once.users[u].roles
    BY <2>1, <2>2, <2>3, <2>4, <2>5, <2>6
  <2>8. once.users \in [Users -> UserRow \cup NoRow]
    BY <1>1, TableFields
  <2> QED
    BY <1>2, <2>7, <2>8, RowAssumption DEF Rows
<1>7. Stands(once.menus, plan.menus)
  BY <1>2, <1>4, SeedsStand
<1>8. /\ Added(once.permissions, Missing(once.permissions, SeedPermissions), SeededPermission)
             = once.permissions
      /\ Added(once.templates, Missing(once.templates, SeedTemplates), SeededTemplate)
             = once.templates
  BY <1>4, PermissionsSettle, TemplatesSettle DEF Agree
<1> HIDE DEF once, u, x
<1>9. again \in Plans(once, once)
  BY DEF once
<1>10. HasRole(once) /\ HasAdmin(once)
  BY <1>2, <1>5, <1>6 DEF HasRole, HasAdmin
<1>11. again.admin = u /\ again.role = x /\ again.menus \in Placements(once, once)
  BY <1>1, <1>2, <1>5, <1>6, <1>9, <1>10
     DEF Plans, Admins, SuperAdminRoles, Agree, NamesAreUnique, RoleCodesAreUnique
<1>12. ~Binds(once, again)
  BY <1>6, <1>11 DEF Binds
<1>13. EnsuredMenus(once, once.menus, again.menus) = once.menus
  BY <1>1, <1>7, <1>11, StandingMenusStay
<1>14. Ensured(once, once, again) = once
  BY <1>1, <1>8, <1>10, <1>12, <1>13 DEF Ensured, Tables
<1> QED
  BY <1>14 DEF once

(* While paths are unique, a start repeats itself: after one that nobody   *)
(* disturbs, the next finds the seeds, the admin with his role and every   *)
(* menu under its parent, and writes nothing.                              *)
THEOREM StartsRepeat == Spec => []StartsSettle
<1>1. AdminInvariant => StartsSettle
  BY SecondStartIsIdle DEF AdminInvariant, TypeOK, TablesAgree, StartsSettle
<1> QED
  BY <1>1, ConsoleAgrees, PTL
=============================================================================
