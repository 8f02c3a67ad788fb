\* Two pushing and two popping threads, so that each side can starve or
\* overtake the other; two places.
SPECIFICATION FairSpec
CONSTANTS
    main = main
    w1 = w1
    w2 = w2
    w3 = w3
    a = a
    b = b
    Pushers <- MCPushers
    Poppers <- MCPoppers
    Items <- MCItems
    NoItem = NoItem
    Nobody = Nobody
    Capacity = 2
INVARIANTS TypeOK NoLostWakeup StallsForCause
PROPERTY ImplementsChannel
