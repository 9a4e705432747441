CONSTANTS
    MaxVersion = 5
    DiesEarly = {5}
    DiesLate = {3}
    Fails = {4}
    MaxAttempts = 2
    MaxUpdates = 2
    MaxStops = 2
SPECIFICATION FairSpec
INVARIANTS TypeOK UpdateCanBeUndone RollbackHasCause DataFits HistoryTruthful Startable
PROPERTY CrashLoopEnds
CHECK_DEADLOCK FALSE
