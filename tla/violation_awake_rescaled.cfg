SPECIFICATION Spec
CONSTANTS
    None = None
    w1 = w1
    w2 = w2
    IRs = {i1}
    Workloads = {w1}
    KindOf <- MCDeployments
    UserLevels = {2, 3}
    MaxTries = 2
    FreshReads = TRUE
    MaxBackoff = 1
    MaxEnv = 3
    MaxFaults = 0
CHECK_DEADLOCK FALSE
PROPERTY
    AwakeUntouched
