\* Up to two beep threads and six calls by the main program.
CONSTANTS
    MaxStarts = 2
    MaxCalls = 6
    None = None

SPECIFICATION Spec

INVARIANT NoThreadOrphanedAfterStop

\* The program exits after its final stop_success_beep.
CHECK_DEADLOCK FALSE
