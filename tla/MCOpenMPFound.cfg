\* The patterns that FSM finds in a file with its lines in another order.
SPECIFICATION Spec
CONSTANTS
    t1 = t1
    t2 = t2
    t3 = t3
    Threads = {t1, t2, t3}
    Nodes <- MCNodes
    Share <- MCShare
    Incoming <- MCIncoming
    MAXITER = 3
    Data <- MCReversed
    Broken = {"a|b"}
    SUPPORT_THRESHOLD = 2
    HIGHEST_DEGREE = 3
    MAX_PATTERNS = 30
    Slack = 0
INVARIANT FrequentAreFound
