\* Two workers sharing one progress file, both with --batch-reverse, killed
\* and restarted, with --batch-skip-completed, and writes to the progress
\* file that may fail.
CONSTANTS
    p1 = p1
    p2 = p2
    s1 = s1
    s2 = s2
    s3 = s3
    Comment = Comment
    NoWorkers = NoWorkers
    Procs <- MCProcs
    Seeds <- MCSeeds
    BatchFile <- MCBatchFile
    ProcessReverse = TRUE
    SkipCompleted = TRUE
    Total = 2
    WorkerIds <- MCTwoWorkers
    Match <- MCMatchReversed
    AppendMayFail = TRUE
    ReadMayFail = FALSE
    MaxLaunches = 2
    Tabbed = {}

SPECIFICATION Spec

INVARIANT TypeOK
INVARIANT OwnerRunsSeed
INVARIANT CoveredWhenOwnerFinished
INVARIANT LoadCompletedMatchesReference
INVARIANT ReportShowsFinishedBatch

PROPERTY ImplementsProgressLog

\* Every process eventually exits for good once its launches are used up.
CHECK_DEADLOCK FALSE
