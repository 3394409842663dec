CONSTANTS
    MonthLength = 2
    Horizons = {1}
    GridStart = 0
    Launch = 4
    AliveLagMonths = 1
    PetitionExpiry = 2
    AdoptionWindow = 3
    Histories <- MCHistories
    FirstDay = 5
    MaxDay = 8
    MaxSets = 2
SPECIFICATION Spec
INVARIANTS
    TrainingLabelsKnown
