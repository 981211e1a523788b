\* The same without forks, write errors and restored checkpoints.
SPECIFICATION Spec
CONSTANTS
    G = G  A1 = A1  A2 = A2  B1 = B1  B2 = B2
    Genesis = G
    Block = {A1, A2, B1, B2}
    NoBlock = NoBlock
    Parent <- TwoParent
    Path <- TwoPath
    Own = {A1}
    CheckpointEvery = 1
    NumFiles = 2
    MaxCrashes = 1
    MaxFailures = 0
    MaxForks = 0
    MaxRestores = 0
INVARIANT CrashIsRecovered
CHECK_DEADLOCK FALSE
