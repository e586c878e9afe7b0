SPECIFICATION Spec
CONSTANTS
    None = None
    w1 = w1
    w2 = w2
    IRs = {i1}
    Workloads = {w1, w2}
    KindOf <- MCMixed
    UserLevels = {1, 2}
    MaxTries = 2
    FreshReads = TRUE
    MaxBackoff = 1
    MaxEnv = 2
    MaxFaults = 1
CHECK_DEADLOCK FALSE
INVARIANTS
    SavedReplicasPositive
    AtRestAgrees
PROPERTIES
    WakeRestores
    WokenAtRemoval
