SPECIFICATION FairSpec
CONSTANTS
    a1 = a1
    c1 = c1
    c2 = c2
    c3 = c3
    q1 = q1
    q2 = q2
    NoConn = NoConn
    Agents = {a1}
    Conns = {c1}
    AgentOf <- OneAgent
    Requests = {q1, q2}
    QueueCap = 1
    StaleAfter = 0
    MaxNow = 1
    MaxId = 3
CHECK_DEADLOCK FALSE
INVARIANTS
    AnswerIsOwn
PROPERTIES
    RequestEnds
    LeavesTheHub
