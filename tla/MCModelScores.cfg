SPECIFICATION Spec

CONSTANTS
    HorizonCount = 2
    Regressions = {1}
    Challengers = {2}
    TrainedOn <- Trained
    Companies = {"c"}
    Inputs = {1, 3}
    HighFlag = 3
    Level = 2
    MinIncrease = 2
    MinRatio = 2
    AlertHorizon = 1
    MaxMonth = 2
    MaxRevisions = 1
    MaxMoves = 4

INVARIANTS
    HorizonsScoredTogether
    ScoreAlertsStand
    IntervalsAreOfTheScore

PROPERTIES
    CrossingsAlerted
    IntervalsArrive

\* with the bounds reached nothing may be left to do
CHECK_DEADLOCK FALSE
