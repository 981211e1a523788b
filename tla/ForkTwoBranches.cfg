\* Two branches, orphans, own blocks, checkpoints and certificates, with fairness.
SPECIFICATION FairSpec
CONSTANTS
    Genesis = G
    G = G
    A1 = A1
    A2 = A2
    A3 = A3
    X2 = X2
    B1 = B1
    B2 = B2
    B3 = B3
    B4 = B4
    NoBlock = NoBlock
    Block <- TwoBlocks
    Parent <- TwoParent
    Path <- TwoPath
    Work <- EqualWork
    TxCount <- OneTx
    Time <- MCTime
    Applies <- AllBlocks
    Own <- OwnB4
    MaxReorgDepth = 1
    MaxOrphans = 2
    CheckpointEvery = 4
    Certifiable <- CertifiableBlocks
    VotesDuringReorg = FALSE
    MaxCopies = 1
    MaxFailures = 0
INVARIANTS
    AnchorsOnChain
PROPERTIES
    Converges
CHECK_DEADLOCK FALSE
