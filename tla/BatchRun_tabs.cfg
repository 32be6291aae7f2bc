\* Expected to violate ImplementsProgressLog: the help of
\* --batch-skip-completed says it skips seeds already marked CHECKED or
\* MATCHED in the progress file.  s1's words are separated by tabs; its
\* CHECKED line is read back as its first word, so a restarted worker 1
\* runs s1 again and logs a second CHECKED line for it.
CONSTANTS
    p1 = p1
    p2 = p2
    s1 = s1
    s2 = s2
    s3 = s3
    Comment = Comment
    NoWorkers = NoWorkers
    Procs <- MCProcs
    Seeds <- MCSeeds
    BatchFile <- MCBatchFile
    ProcessReverse = FALSE
    SkipCompleted = TRUE
    Total = 2
    WorkerIds <- MCTwoWorkers
    Match <- MCMatch
    AppendMayFail = FALSE
    ReadMayFail = FALSE
    MaxLaunches = 2
    Tabbed <- MCTabbed

SPECIFICATION Spec

PROPERTY ImplementsProgressLog

\* Every process eventually exits for good once its launches are used up.
CHECK_DEADLOCK FALSE
