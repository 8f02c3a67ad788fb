\* Three iterations at most, so that the pointers are swapped an odd and an even
\* number of times; three candidates, and maps of more than two patterns are cut
\* to one.
SPECIFICATION FairSpec
CONSTANTS
    t1 = t1
    t2 = t2
    t3 = t3
    Threads = {t1, t2, t3}
    Nodes <- MCNodes
    Share <- MCShare
    Incoming <- MCIncoming
    MAXITER = 3
    Data <- MCData
    Broken = {"a|b"}
    SUPPORT_THRESHOLD = 2
    HIGHEST_DEGREE = 3
    MAX_PATTERNS = 3
    Slack = 0
INVARIANTS IterationComplete DiffComplete SolutionUniform CountsExact ReportedAreFrequent
PROPERTY Terminates
