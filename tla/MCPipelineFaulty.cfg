CONSTANTS
    a = a  b = b  c = c  m = m  d = d  d2 = d2
    p1 = p1  p2 = p2  w1 = w1  w2 = w2
    e1 = e1  e2 = e2  em = em  mr = mr
    Nobody = Nobody  NoId = NoId  NoJob = NoJob
    Webhooks = {a, b}
    Manuals = {}
    Deletions = {d, d2}
    Faults = {"api_crash", "worker_crash", "database", "redis"}
    Processes = {p1, p2}
    ProcessOf <- TwoProcesses
    EventIds = {e1, e2, em}
    EventId <- SameEventId
    Subjects = {mr}
    Subject <- OneSubject
    Workers = {w1, w2}
SPECIFICATION Spec
INVARIANTS OneRecordPerEvent DeliveredMeansPublished PipelineInvariant
CHECK_DEADLOCK FALSE
