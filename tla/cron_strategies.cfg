SPECIFICATION Spec
CONSTANTS
    None = None
    NoRules = NoRules
    Referents = {"workload", "unknown"}
    Hashed = {}
    IRs = {i1}
    NameLength <- MCShort
    Common <- MCApart
    Schedules = {c1, c2}
    Invalid = {}
    Strategies = {"idle", "wakeup"}
    Writes = {"EditStrategy", "TouchJob"}
    MaxLag = 2
    MaxStale = 1
    MaxEnv = 2
    MaxFaults = 1
CHECK_DEADLOCK FALSE
INVARIANTS
    TypeOK
    JobsAtRest
PROPERTIES
    ImplementsContract
