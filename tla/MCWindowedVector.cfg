\* Every bitmap over these vertices; windows of all and half of
\* the partitions; pages of three entries.
SPECIFICATION FairVectorSpec
CONSTANTS
    Threads = {t1, t2}
    Sizes <- MCSizes
    WordBits = 3
    NoBitmap = NoBitmap
    Ratios = {1, 2}
    PageEntries = 3
    Zero = Zero
INVARIANTS Inv NoUpdateLost
PROPERTY Terminates
