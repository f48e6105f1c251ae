--------------------------- MODULE AdminBootstrap ---------------------------
(* What every start of an API process does before it serves: one           *)
(* transaction that adds what is missing of the super admin role, the      *)
(* bootstrap admin, the permissions and templates of the console, and that *)
(* puts its menus back where they belong; tried twice if a constraint      *)
(* breaks.  Menus have no unique path.  d is what the transaction has      *)
(* seen, now what is there when it is committed.                           *)
EXTENDS AdminStore, Sequences, Functions

CONSTANTS
    Starters,           \* processes that start
    AdminName,          \* the name of the bootstrap admin
    SuperAdminCode,     \* the code of the super admin role
    SeedPermissions, SeedTemplates,     \* codes
    SeedMenus,          \* the seeded paths in their order
    SeedParent,         \* the parent path of each, or None
    SeedIds,            \* the ids that the starts will give out
    MaxAttempts

ASSUME BootAssumption ==
    /\ IsFiniteSet(SeedIds)
    /\ IsFiniteSet(SeedPermissions) /\ SeedPermissions \subseteq PermissionCodes
    /\ IsFiniteSet(SeedTemplates) /\ SeedTemplates \subseteq TemplateCodes
    /\ SeedMenus \in Seq(Paths) /\ None \notin Paths
    /\ SeedParent \in [Range(SeedMenus) -> Range(SeedMenus) \cup {None}]

(* ADMIN_CONSOLE_MENU_SEEDS names a parent before its children.            *)
ASSUME SeedOrderAssumption ==
    \A k \in DOMAIN SeedMenus :
        LET parent == SeedParent[SeedMenus[k]] IN
        parent # None => \E j \in 1 .. k - 1 : SeedMenus[j] = parent

VARIABLE boots      \* each starter: the attempt it makes, what it has seen

Missing(table, codes) == {c \in codes : \A i \in Rows(table) : table[i].code # c}

HasPath(d, path) == \E m \in Rows(d.menus) : d.menus[m].path = path

SeedPaths == Range(SeedMenus)

Unplaced(d) == {p \in SeedPaths : ~HasPath(d, p)}

HasAdmin(d) == \E u \in Rows(d.users) : UserName[u] = AdminName

HasRole(d) == \E x \in Rows(d.roles) : RoleCode[x] = SuperAdminCode

Fresh(table) == {i \in DOMAIN table : i \in SeedIds /\ table[i] = Unborn}

Numbered(keys, table) == CHOOSE at \in [keys -> Fresh(table)] : IsInjective(at)

(* The bound of the model: ids do not run out.                             *)
HasIds(d, now) ==
    /\ Cardinality(Unplaced(d)) <= Cardinality(Fresh(now.menus))
    /\ Cardinality(Missing(d.permissions, SeedPermissions)) <= Cardinality(Fresh(now.permissions))
    /\ Cardinality(Missing(d.templates, SeedTemplates)) <= Cardinality(Fresh(now.templates))

(* Which menu stands for each seeded path: one of those with that path (no *)
(* order says which), or a new one.                                        *)
Placements(d, now) ==
    LET new == Numbered(Unplaced(d), now.menus) IN
    {at \in [SeedPaths -> Menus] :
        \A p \in SeedPaths :
            IF HasPath(d, p) THEN at[p] \in Rows(d.menus) /\ d.menus[at[p]].path = p
            ELSE at[p] = new[p]}

(* The admin and the role: those that are there, or new ones.              *)
Admins(d) ==
    {u \in Users : /\ UserName[u] = AdminName
                   /\ IF HasAdmin(d) THEN u \in Rows(d.users) ELSE d.users[u] = Unborn}

SuperAdminRoles(d) ==
    {x \in Roles : /\ RoleCode[x] = SuperAdminCode
                   /\ IF HasRole(d) THEN x \in Rows(d.roles) ELSE d.roles[x] = Unborn}

Plans(d, now) == [admin : Admins(d), role : SuperAdminRoles(d), menus : Placements(d, now)]

(* The admin was there without the role.                                   *)
Binds(d, plan) == HasAdmin(d) /\ plan.role \notin d.users[plan.admin].roles

(* Mutant: parents that this start creates are not found.                  *)
ParentAsFound(d, at, k) ==
    IF HasPath(d, SeedParent[SeedMenus[k]]) THEN at[SeedParent[SeedMenus[k]]] ELSE None

(* The parent of a seeded menu is looked up when its turn comes: it has to *)
(* be there by then.                                                       *)
ParentOf(d, at, k) ==
    LET parent == SeedParent[SeedMenus[k]] IN
    IF HasPath(d, parent) \/ \E j \in 1 .. k - 1 : SeedMenus[j] = parent
    THEN at[parent] ELSE None

(* A new menu, or one whose parent is written.                             *)
Places(d, at, k) ==
    HasPath(d, SeedMenus[k]) =>
        d.menus[at[SeedMenus[k]]].parent # ParentOf(d, at, k)

(* A new menu, or one whose fields differ from the seed.                   *)
Moves(d, at, k) == Places(d, at, k) \/ ~d.menus[at[SeedMenus[k]]].system

EnsuredMenu(d, menus, at, k) ==
    LET m == at[SeedMenus[k]]
        parent == ParentOf(d, at, k)
    IN IF HasPath(d, SeedMenus[k])
       THEN [menus[m] EXCEPT !.system = Written(d.menus[m].system, TRUE, @),
                             !.parent = Written(d.menus[m].parent, parent, @)]
       ELSE [system |-> TRUE, parent |-> parent, path |-> SeedMenus[k]]

EnsuredMenus(d, menus, at) ==
    [m \in Menus |->
        IF \E k \in DOMAIN SeedMenus : at[SeedMenus[k]] = m /\ Moves(d, at, k)
        THEN EnsuredMenu(d, menus, at, CHOOSE k \in DOMAIN SeedMenus : at[SeedMenus[k]] = m)
        ELSE menus[m]]

Added(table, codes, Row(_)) ==
    LET at == Numbered(codes, table) IN
    [i \in DOMAIN table |->
        IF i \in Range(at) THEN Row(CHOOSE c \in codes : at[c] = i) ELSE table[i]]

SeededPermission(c) == [system |-> TRUE, code |-> c]

SeededTemplate(c) == [system |-> TRUE, active |-> TRUE, code |-> c]

(* What the transaction leaves.                                            *)
Ensured(d, now, plan) ==
    [now EXCEPT
        !.roles[plan.role] =
            IF HasRole(d) THEN @ ELSE [system |-> TRUE, permissions |-> {}, menus |-> {}],
        !.users[plan.admin] =
            CASE ~HasAdmin(d) -> [active |-> TRUE, super |-> TRUE, must |-> TRUE,
                                  roles |-> {plan.role}]
              [] Binds(d, plan) -> [@ EXCEPT !.roles = @ \cup {plan.role}]
              [] OTHER -> @,
        !.permissions = Added(@, Missing(d.permissions, SeedPermissions), SeededPermission),
        !.templates = Added(@, Missing(d.templates, SeedTemplates), SeededTemplate),
        !.menus = EnsuredMenus(d, @, plan.menus)]

(* A unique name, code or link is there by now, or one end of a link is    *)
(* gone: an integrity error.                                               *)
Violates(d, now, plan) ==
    \/ ~HasRole(d) /\ HasRole(now)
    \/ ~HasAdmin(d) /\ HasAdmin(now)
    \/ ~(Missing(d.permissions, SeedPermissions) \subseteq Missing(now.permissions, SeedPermissions))
    \/ ~(Missing(d.templates, SeedTemplates) \subseteq Missing(now.templates, SeedTemplates))
    \/ Binds(d, plan) /\ plan.admin \notin Rows(now.users)
    \/ Binds(d, plan) /\ plan.role \in now.users[plan.admin].roles
    \/ /\ ~HasAdmin(d) \/ Binds(d, plan)
       /\ HasRole(d) /\ plan.role \notin Rows(now.roles)
    \/ \E k \in DOMAIN SeedMenus :
           /\ Places(d, plan.menus, k)
           /\ HasPath(d, SeedParent[SeedMenus[k]])
           /\ ParentOf(d, plan.menus, k) \notin Rows(now.menus)

(* A menu to be put right is gone: another error, and no second attempt.   *)
Misses(d, now, plan) ==
    \E k \in DOMAIN SeedMenus :
        /\ HasPath(d, SeedMenus[k]) /\ Moves(d, plan.menus, k)
        /\ plan.menus[SeedMenus[k]] \notin Rows(now.menus)

-----------------------------------------------------------------------------
SetBoot(b, boot) == boots' = [boots EXCEPT ![b] = boot]

Off(attempt) == [phase |-> "off", attempt |-> attempt]

BootInit == boots = [b \in Starters |-> Off(0)]

(* A single process serves nobody while it starts: what it was serving is  *)
(* lost with the process before.                                           *)
Restart ==
    /\ processes = "one"
    /\ HasIds(db, db)
    /\ \E plan \in Plans(db, db) : db' = Ensured(db, db, plan)
    /\ requests' = [r \in Requests |-> NoRequest]
    /\ UNCHANGED <<audit, processes, boots>>

BeginBoot(b) ==
    /\ processes = "many"
    /\ boots[b].phase = "off"
    /\ SetBoot(b, [phase |-> "ensure", attempt |-> boots[b].attempt + 1, seen |-> db])
    /\ UNCHANGED <<db, audit, requests, processes>>

(* Up, and it may be started anew.                                         *)
CommitBoot(b) ==
    /\ boots[b].phase = "ensure"
    /\ HasIds(boots[b].seen, db)
    /\ \E plan \in Plans(boots[b].seen, db) :
           /\ ~Violates(boots[b].seen, db, plan) /\ ~Misses(boots[b].seen, db, plan)
           /\ db' = Ensured(boots[b].seen, db, plan)
    /\ SetBoot(b, Off(0))
    /\ UNCHANGED <<audit, requests, processes>>

(* Another attempt in a new transaction, if there is one left; a process   *)
(* that cannot start is started anew by its operator.                      *)
FailBoot(b) ==
    /\ boots[b].phase = "ensure"
    /\ HasIds(boots[b].seen, db)
    /\ \E plan \in Plans(boots[b].seen, db) :
           LET violates == Violates(boots[b].seen, db, plan)
               misses == Misses(boots[b].seen, db, plan)
           IN \/ violates /\ boots[b].attempt < MaxAttempts /\ SetBoot(b, Off(boots[b].attempt))
              \/ violates /\ boots[b].attempt = MaxAttempts /\ SetBoot(b, Off(0))
              \/ misses /\ SetBoot(b, Off(0))
    /\ UNCHANGED <<db, audit, requests, processes>>
=============================================================================
