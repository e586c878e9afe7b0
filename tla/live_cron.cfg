SPECIFICATION LiveSpec
CONSTANTS
    None = None
    NoRules = NoRules
    Referents = {"workload", "missing"}
    Hashed = {}
    IRs = {i1}
    NameLength <- MCShort
    Common <- MCApart
    Schedules = {c1}
    Invalid = {}
    Strategies = {"idle"}
    Writes = {"DeleteIR", "DeleteObject", "EditJob", "EditRole", "EmptyRole"}
    MaxLag = 2
    MaxStale = 0
    MaxEnv = 1
    MaxFaults = 0
CHECK_DEADLOCK FALSE
PROPERTIES
    Quiesces
    NothingLeftBehind
    DeletionCompletes
    ImplementsContract
