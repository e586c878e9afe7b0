SPECIFICATION LiveSpec
CONSTANTS
    None = None
    w1 = w1
    w2 = w2
    IRs = {i1}
    Workloads = {w1}
    KindOf <- MCLowerCase
    UserLevels = {1}
    MaxTries = 1
    FreshReads = FALSE
    MaxBackoff = 1
    MaxEnv = 1
    MaxFaults = 0
CHECK_DEADLOCK FALSE
PROPERTIES
    DeletionCompletes
