SPECIFICATION Spec
CONSTANTS
    None = None
    w1 = w1
    w2 = w2
    IRs = {i1}
    Workloads = {w1}
    KindOf <- MCDeployments
    UserLevels = {1, 2}
    MaxTries = 2
    FreshReads = FALSE
    MaxBackoff = 1
    MaxEnv = 2
    MaxFaults = 2
CHECK_DEADLOCK FALSE
INVARIANTS
    TypeOK
    NoLostRequest
    NoDeletionForgotten
PROPERTIES
    OperatorKeepsIntent
    QuietWrites
    IdleSavesReplicas
    ReleasedAtRemoval
    ImplementsContract
