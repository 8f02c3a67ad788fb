\* What the edge-cut prints.
SPECIFICATION Spec
CONSTANTS
    Vertices <- MCVertices
    Files <- MCFiles
    MaxEdges = 3
    p = 2
    threshold = 1
    Splits = {1, 2}
INVARIANT ReplicatedArePrinted
