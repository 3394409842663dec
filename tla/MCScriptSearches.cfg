CONSTANTS
    Companies <- MCCompanies
    Known = {2}
    Captured = {}
    LeftOut = {}
    Drawn <- MCDrawn
    Run = 2
    MinYears = 1
    MaxDay = 1
    MaxLines = 2
    MaxFaults = 1
    Null = Null
SPECIFICATION FairSpec
INVARIANTS
    CompleteMeansListed
PROPERTIES
    FilingsIndexed
    EveryCompanySearched
CHECK_DEADLOCK FALSE
