CONSTANTS
    a = a  b = b  c = c  superAdmin = superAdmin  dev = dev  dev2 = dev2
    seeded = seeded  custom = custom  custom2 = custom2  fresh1 = fresh1
    system = system  people = people  page = page  extra = extra  more = more
    t1 = t1  t2 = t2  t3 = t3  p1 = p1  p2 = p2  m1 = m1  m2 = m2  bot = bot  s1 = s1  s2 = s2
    Unborn = Unborn  Gone = Gone  None = None
    Users = {a, b, c}
    Roles = {superAdmin, dev, dev2}
    Permissions = {seeded, custom, custom2, fresh1}
    Menus = {system, people, page, extra, more}
    Templates = {t1, t2, t3}
    Projects = {p1, p2}
    Models = {m1, m2}
    Bots = {bot}
    UserNames = {"admin", "bea"}
    UserName <- Names
    RoleCodes = {"super_admin", "dev"}
    RoleCode <- Codes
    PermissionCodes = {"user:status", "custom", "other"}
    Paths = {"/system", "/system/users", "/page", "/extra"}
    ProjectKeys = {"one", "two"}
    TemplateCodes = {"seed", "own", "new"}
    Requests = {r1, r2}
    Watched = {"assign_permissions", "reset_password", "update_bot", "purge_audit"}
    Starters = {s1, s2}
    AdminName = "admin"
    SuperAdminCode = "super_admin"
    SeedPermissions = {"user:status"}
    SeedTemplates = {"seed"}
    SeedMenus <- MenuOrder
    SeedParent <- Parents
    SeedIds = {seeded, fresh1, system, people, more, t1}
    MaxAttempts = 2
    Agendas <- SomeAgendas
SPECIFICATION Spec
INVARIANTS AdminInvariant SomeSuperuserRemains StartsSettle
PROPERTIES BindingsAreKept SystemChangesStayAudited
CHECK_DEADLOCK FALSE
