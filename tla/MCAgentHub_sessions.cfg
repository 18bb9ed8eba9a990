SPECIFICATION Spec
CONSTANTS
    a1 = a1
    c1 = c1
    c2 = c2
    c3 = c3
    q1 = q1
    q2 = q2
    NoConn = NoConn
    Agents = {a1}
    Conns = {c1, c2}
    AgentOf <- OneAgent
    Requests = {q1}
    QueueCap = 1
    StaleAfter = 0
    MaxNow = 1
    MaxId = 1
CHECK_DEADLOCK FALSE
INVARIANTS
    TypeOK
    RegisteredIsServed
    WaitersAreRequests
