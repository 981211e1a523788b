\* A reorganisation, and the derived state it leaves.
SPECIFICATION Spec
CONSTANTS
    Genesis = G
    G = G
    A1 = A1
    A2 = A2
    A3 = A3
    X2 = X2
    B1 = B1
    B2 = B2
    B3 = B3
    B4 = B4
    NoBlock = NoBlock
    Block <- TwoBlocks
    Parent <- TwoParent
    Path <- TwoPath
    Work <- EqualWork
    TxCount <- OneTx
    Time <- MCTime
    Applies <- AllBlocks
    Own <- OwnB4
    MaxReorgDepth = 9
    MaxOrphans = 9
    CheckpointEvery = 2
    Certifiable <- NoBlocks
    VotesDuringReorg = FALSE
    MaxCopies = 1
    MaxFailures = 0
INVARIANTS
    DerivedStateMatchesChain
CHECK_DEADLOCK FALSE
