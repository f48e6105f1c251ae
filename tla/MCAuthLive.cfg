CONSTANTS
    l1 = l1  r1 = r1  r2 = r2  o1 = o1  v1 = v1
    e1 = e1  d1 = d1  p1 = p1  p2 = p2  NoToken = NoToken
    Logins = {l1}
    Refreshes = {r1}
    Logouts = {o1}
    Revocations = {}
    Enablings = {}
    Deletions = {d1}
    Faults = {"redis", "database", "api_crash"}
    Kind <- Disabling
    Processes = {l1, r1, o1, d1}
    ProcessOf <- OwnProcess
SPECIFICATION FairSpec
INVARIANTS LogoutIsFinal
 
CHECK_DEADLOCK FALSE
