\* The patterns that FSM writes.
SPECIFICATION Spec
CONSTANTS
    t1 = t1
    t2 = t2
    t3 = t3
    Threads = {t1, t2, t3}
    Nodes <- MCNodes
    Share <- MCShare
    Incoming <- MCIncoming
    MAXITER = 3
    Data <- MCData
    Broken = {"a|b"}
    SUPPORT_THRESHOLD = 2
    HIGHEST_DEGREE = 3
    MAX_PATTERNS = 3
    Slack = 0
INVARIANT WrittenIsWalk
