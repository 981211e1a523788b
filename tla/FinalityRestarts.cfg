\* A Byzantine validator of power 2, restarts and rolled-back reorganisations.
SPECIFICATION Spec
CONSTANTS
    v1 = v1  v2 = v2  v3 = v3  v4 = v4
    A1 = A1  B1 = B1  A2 = A2
    Validator = {v1, v2, v3, v4}
    Byzantine = {v1}
    Block = {A1, B1}
    Height <- MCHeightOne
    Power <- MCPower
    Quorum = 4
    NoBlock = NoBlock
    MaxRestarts = 1
    MaxReorgs = 1
SYMMETRY Symmetric
INVARIANTS
    TypeOK
    CertificatesHaveQuorum
    OneCertificatePerHeight
    HonestNeverSlashed
