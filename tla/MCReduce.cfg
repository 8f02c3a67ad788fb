\* Two and four processes, which the assignment asks for, and three, five
\* and six, where some processes have no partner.
SPECIFICATION FairSpec
CONSTANTS
    Sizes = {1, 2, 3, 4, 5, 6}
    Rounds = 2
INVARIANTS Inv RootHasSum
PROPERTY Terminates
