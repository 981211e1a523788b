\* A reorganisation begun inside the handling of a fork.
SPECIFICATION Spec
CONSTANTS
    Genesis = G
    G = G
    A1 = A1
    A2 = A2
    A3 = A3
    X2 = X2
    B1 = B1
    B2 = B2
    B3 = B3
    B4 = B4
    NoBlock = NoBlock
    Block <- NestedBlocks
    Parent <- NestedParent
    Path <- NestedPath
    Work <- HeavyA
    TxCount <- OneTx
    Time <- MCTime
    Applies <- ExceptX2
    Own <- NoBlocks
    MaxReorgDepth = 9
    MaxOrphans = 9
    CheckpointEvery = 2
    Certifiable <- NoBlocks
    VotesDuringReorg = FALSE
    MaxCopies = 1
    MaxFailures = 1
INVARIANTS
    TypeOK
    ChainLinked
PROPERTIES
    NeverShorterNorLighter
    UtxoFollowsChain
CHECK_DEADLOCK FALSE
