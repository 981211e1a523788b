\* Two branches, one of them mined in part, with crashes, write errors,
\* a fork that is saved and a checkpoint that is restored.
SPECIFICATION Spec
CONSTANTS
    G = G  A1 = A1  A2 = A2  B1 = B1  B2 = B2
    Genesis = G
    Block = {A1, A2, B1, B2}
    NoBlock = NoBlock
    Parent <- TwoParent
    Path <- TwoPath
    Own = {A1}
    CheckpointEvery = 1
    NumFiles = 2
    MaxCrashes = 2
    MaxFailures = 1
    MaxForks = 1
    MaxRestores = 1
INVARIANTS
    TypeOK
    CheckpointsStayOnChain
PROPERTIES
    StartsOnOneSave
    StartFindsLastSave
CHECK_DEADLOCK FALSE
