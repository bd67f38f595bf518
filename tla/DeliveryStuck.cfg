\* Workers may die, nothing else goes wrong.
SPECIFICATION FairSpec
CONSTANTS
    e1 = e1
    w1 = w1
    w2 = w2
    NoEmail = NoEmail
    NoWorker = NoWorker
    Emails <- OneEmail
    Workers <- TwoWorkers
    MaxRetry = 2
    MaxAsks = 2
    MaxStops = 1
    FaultSets <- CrashOnly
CHECK_DEADLOCK FALSE
PROPERTY NotLeftProcessing
