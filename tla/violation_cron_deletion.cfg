SPECIFICATION LiveSpec
CONSTANTS
    None = None
    NoRules = NoRules
    Referents = {"workload"}
    Hashed = {}
    IRs = {i1}
    NameLength <- MCShort
    Common <- MCApart
    Schedules = {c1}
    Invalid = {c1}
    Strategies = {"idle"}
    Writes = {"DeleteIR"}
    MaxLag = 2
    MaxStale = 1
    MaxEnv = 1
    MaxFaults = 0
CHECK_DEADLOCK FALSE
PROPERTIES
    DeletionCompletes
