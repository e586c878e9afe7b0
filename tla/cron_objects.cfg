SPECIFICATION Spec
CONSTANTS
    None = None
    NoRules = NoRules
    Referents = {"workload"}
    Hashed = {}
    IRs = {i1}
    NameLength <- MCShort
    Common <- MCApart
    Schedules = {c1}
    Invalid = {}
    Strategies = {}
    Writes = {"CreateIR", "DeleteIR", "DeleteObject", "EditRole", "EmptyRole", "Resync"}
    MaxLag = 2
    MaxStale = 1
    MaxEnv = 2
    MaxFaults = 1
CHECK_DEADLOCK FALSE
INVARIANTS
    RBACAtRest
    NoDeletionForgotten
