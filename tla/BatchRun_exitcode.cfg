\* Two workers; a worker whose btcrseed.main failed for one seed
\* and then ran the next one exits with status 0.
CONSTANTS
    p1 = p1
    p2 = p2
    s1 = s1
    s2 = s2
    s3 = s3
    Comment = Comment
    NoWorkers = NoWorkers
    Procs <- MCProcs
    Seeds <- MCSeeds
    BatchFile <- MCBatchFile
    ProcessReverse = FALSE
    SkipCompleted = TRUE
    Total = 2
    WorkerIds <- MCTwoWorkers
    Match <- MCMatch
    AppendMayFail = FALSE
    ReadMayFail = FALSE
    MaxLaunches = 3
    Tabbed = {}

SPECIFICATION Spec

INVARIANT ExitStatusReportsErrors







\* Every process eventually exits for good once its launches are used up.
CHECK_DEADLOCK FALSE
