SPECIFICATION LiveSpec
CONSTANTS
    None = None
    w1 = w1
    w2 = w2
    IRs = {i1}
    Workloads = {w1}
    KindOf <- MCStatefulSets
    UserLevels = {2}
    MaxTries = 2
    FreshReads = TRUE
    MaxBackoff = 1
    MaxEnv = 2
    MaxFaults = 2
CHECK_DEADLOCK FALSE
PROPERTIES
    WakeRestores
    DeletionCompletes
    Convergence
    ImplementsContract
