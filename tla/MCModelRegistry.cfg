SPECIFICATION Spec

CONSTANTS
    HorizonCount = 2
    Challengers = {"lightgbm", "catboost"}
    FeatureSets = 2
    MaxBacktests = 3
    MaxCrashes = 1

INVARIANT VerdictGoverns

\* with the bounds reached no backtest starts
CHECK_DEADLOCK FALSE
