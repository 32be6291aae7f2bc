\* The two workers of BatchRun_workers on a batch file that lists s1 twice,
\* restarted with --batch-skip-completed,
\* where every read of the progress file may stop early with an OSError:
\* _load_completed_seeds then returns the seeds of the lines read so far and
\* _progress_contains_match returns False.  Writes succeed here, so that the
\* extra runs a failed read causes are all that differs.
CONSTANTS
    p1 = p1
    p2 = p2
    s1 = s1
    s2 = s2
    s3 = s3
    Comment = Comment
    NoWorkers = NoWorkers
    Procs <- MCProcs
    Seeds <- MCSeeds
    BatchFile <- MCBatchFileRepeat
    ProcessReverse = TRUE
    SkipCompleted = TRUE
    Total = 2
    WorkerIds <- MCTwoWorkers
    Match <- MCMatchRepeat
    AppendMayFail = FALSE
    ReadMayFail = TRUE
    MaxLaunches = 2
    Tabbed = {}

SPECIFICATION Spec

INVARIANT CoveredWhenOwnerFinished
INVARIANT ReportShowsFinishedBatch

PROPERTY ImplementsProgressLog

\* Every process eventually exits for good once its launches are used up.
CHECK_DEADLOCK FALSE
