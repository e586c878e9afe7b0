SPECIFICATION LiveSpec
CONSTANTS
    idle1 = idle1
    wakeup1 = wakeup1
    create1 = create1
    create2 = create2
    o1 = o1
    Nobody = Nobody
    Commands = {idle1, wakeup1, create1, create2}
    Wants <- MCWants
    Creates = {create1, create2}
    Refs <- MCRefs
    Contents <- MCContents
    Served <- MCServed
    Jobs = {idle1, wakeup1}
    Others = {o1, o2}
    MaxWrites = 2
CHECK_DEADLOCK FALSE
INVARIANTS
    TypeOK
    SuccessIsTrue
    LaterPhaseWins
PROPERTIES
    JobSucceeds
    OnlyTheFlag
    CommandsAreAtomic
