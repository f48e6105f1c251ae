CONSTANTS
    l1 = l1  r1 = r1  r2 = r2  o1 = o1  v1 = v1
    e1 = e1  d1 = d1  p1 = p1  p2 = p2  NoToken = NoToken
    Logins = {l1}
    Refreshes = {r1, r2}
    Logouts = {}
    Revocations = {v1}
    Enablings = {e1}
    Deletions = {}
    Faults = {"redis", "database"}
    Kind <- Disabling
    Processes = {p1, p2}
    ProcessOf <- TwoProcesses
SPECIFICATION Spec
INVARIANTS AuthInvariant RotationIsFinal RevocationIsFinal SessionsLast
SYMMETRY AnyOrder
CHECK_DEADLOCK FALSE
