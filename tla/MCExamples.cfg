\* Three workers in bfs, so that three edges can be between check and cas at once.
SPECIFICATION FairSpec
CONSTANTS
    Workers = {w1, w2}
    BfsWorkers = {v1, v2, v3}
    BfsGraph <- MCBfsGraph
    BfsVertices <- MCBfsVertices
    WccGraph <- MCWccGraph
    WccVertices <- MCWccVertices
    MisGraph <- MCMisGraph
    MisVertices <- MCMisVertices
    KCoresGraph <- MCKCoresGraph
    KCoresVertices <- MCKCoresVertices
    RadiiGraph <- MCRadiiGraph
    RadiiVertices <- MCRadiiVertices
    RankGraph <- MCRankGraph
    RankVertices <- MCRankVertices
    Ks = {2, 3}
    Budgets = {TRUE, FALSE}
    K = 2
    Weight <- MCWeight
    MaxIterations = 3
    Unit = 128000
INVARIANTS BfsInv WccInv MisInv ResultIsMIS
           KCoresInv RadiiInv StartsAreFarthest RankInv
PROPERTY Terminates
