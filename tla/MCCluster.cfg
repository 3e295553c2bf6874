CONSTANTS
    n1 = n1 n2 = n2 n3 = n3
    r1 = r1 r2 = r2
    BadLine = BadLine
    Nodes <- MCNodes
    Keys <- MCKeys
    CounterKeys <- MCCounterKeys
    Requests <- MCRequests
    Batches <- MCBatches
    At <- MCAt
    Body <- MCBody
    View <- MCView
    Cap = 1
SPECIFICATION FairSpec
INVARIANTS ToldIsQueued AtHome OneCopy
PROPERTY AlwaysAnswered
CHECK_DEADLOCK FALSE
