SPECIFICATION Spec
CONSTANTS
    Vertices <- MCVertices
    Files <- MCFiles
    MaxEdges = 3
    p = 2
    threshold = 1
    Splits = {1, 2}
INVARIANTS PartitionsConsistent EdgesPlaced IncomingIsTranspose BinaryRoundTrips CsrCorrect
           OutDegreesAgree
