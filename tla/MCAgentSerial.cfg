CONSTANTS
    q1 = q1  q2 = q2  q3 = q3  s1 = s1  p1 = p1  p2 = p2
    Nobody = Nobody  NoRow = NoRow
    Questions = {q1, q2, q3}
    Streams = {s1}
    Processes = {p1}
    ProcessOf <- OneProcess
    LastEvent = 2
    DefaultIdle = 1
    ActiveIdle = 2
    Faults = {"exception"}
SPECIFICATION Spec
INVARIANTS NoEventIsSkipped
PROPERTIES ImplementsSerialConversation
SYMMETRY AnyOrder
CHECK_DEADLOCK FALSE
