SPECIFICATION FairSpec
CONSTANTS
    Exec = {x1}
    NoExec = NoExec
    Task = {t1, t2}
    Sample = {s1}
    MaxAttempts = 2
    DrainLimit = 1
    MaxPushes = 2
    MaxTroubles = 1
INVARIANTS
    TypeOK
    ResultsKept
    SamplesAccount
    RowsTellTheTruth
    RetryLimit
PROPERTIES
    QueueDrains
