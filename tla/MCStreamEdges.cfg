\* Windows of 3 and of 1 partitions (x = 1, 2), both update modes, every
\* bitmap that makes a difference, a task queue that can be full.
SPECIFICATION FairSpec
CONSTANTS
    w1 = w1
    w2 = w2
    Workers <- MCWorkers
    Graph <- MCGraph
    RowFile <- MCRowFile
    row_offset <- MCRowOffset
    ColumnFile <- MCColumnFile
    column_offset <- MCColumnOffset
    Bitmaps <- MCBitmaps
    Vertices = 5
    Partitions = 3
    WordBits = 3
    PAGESIZE = 2
    IOSIZE = 4
    TaskCapacity = 2
    NoBitmap = NoBitmap
    Ratios = {1, 2}
INVARIANT Inv
PROPERTIES ProcessesInWindow ImplementsPass Terminates
