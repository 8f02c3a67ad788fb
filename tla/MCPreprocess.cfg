\* Two workers, four buffers, reads of two edges: the last read is short.
SPECIFICATION FairSpec
CONSTANTS
    w1 = w1
    w2 = w2
    Workers <- MCWorkers
    Inputs <- MCInputs
    Vertices = 3
    Partitions = 2
    IOSIZE = 2
    GridBufferSize = 2
    NoEdge = NoEdge
    Nobody = Nobody
INVARIANTS TypeOK BufferOwnership EdgesConserved GridCorrect
PROPERTY Terminates

