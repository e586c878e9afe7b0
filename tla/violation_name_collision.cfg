SPECIFICATION Spec
CONSTANTS
    None = None
    NoRules = NoRules
    Referents = {"workload"}
    Hashed = {}
    IRs = {i1, i2}
    NameLength <- MCLong
    Common <- MCAlike
    Schedules = {c1}
    Invalid = {}
    Strategies = {}
    Writes = {}
    MaxLag = 2
    MaxStale = 1
    MaxEnv = 0
    MaxFaults = 0
CHECK_DEADLOCK FALSE
INVARIANTS
    RBACAtRest
