CONSTANTS
    a = a  b = b  c = c  m = m  d = d  d2 = d2
    p1 = p1  p2 = p2  w1 = w1  w2 = w2
    e1 = e1  e2 = e2  em = em  mr = mr
    Nobody = Nobody  NoId = NoId  NoJob = NoJob
    Webhooks = {a, b}
    Manuals = {}
    Deletions = {d}
    Faults = {"redis", "api_crash"}
    Processes = {a, b, d}
    ProcessOf <- OwnProcess
    EventIds = {e1, e2, em}
    EventId <- DistinctEventId
    Subjects = {mr}
    Subject <- OneSubject
    Workers = {w1, w2}
SPECIFICATION FairSpec
INVARIANTS StrandedOnlyIfAbandoned
PROPERTIES  EveryTaskSettlesUnlessAbandoned
CHECK_DEADLOCK FALSE
