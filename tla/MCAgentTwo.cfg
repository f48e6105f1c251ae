CONSTANTS
    q1 = q1  q2 = q2  q3 = q3  s1 = s1  p1 = p1  p2 = p2
    Nobody = Nobody  NoRow = NoRow
    Questions = {q1, q2}
    Streams = {s1}
    Processes = {p1, p2}
    ProcessOf <- TwoProcesses
    LastEvent = 2
    DefaultIdle = 1
    ActiveIdle = 2
    Faults = {"exception"}
SPECIFICATION FairSpec
INVARIANTS  NumbersStayFree  NoMessageIsSkipped
    CompleteStreamsShowAnswers
PROPERTIES EveryQuestionEnds EveryStreamEnds
CHECK_DEADLOCK FALSE
