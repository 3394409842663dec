CONSTANTS
    FrameSize = 6
    Year <- MCYear
    Distress <- MCDistress
    InStatus <- MCInStatus
    Wanted <- MCWanted
    Designs = {"systematic", "permutation"}
    Orders <- MCOrders
    Register <- MCRegister
    Garbled <- MCGarbled
    Listed <- MCListed
    Acquired <- MCAcquired
    LeftOut = {}
    MaxFaults = 2
    Null = Null
SPECIFICATION FairSpec
INVARIANTS
    PiIsTheChance
    OutcomesAreTheRegisters
    GroupsKeepTheirWeight
PROPERTIES
    CandidatesSettle
CHECK_DEADLOCK FALSE
