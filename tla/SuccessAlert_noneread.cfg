\* One start and one stop: the beep thread reads the cleared global.
CONSTANTS
    MaxStarts = 2
    MaxCalls = 6
    None = None

SPECIFICATION Spec


INVARIANT NoStopEventNoneRead

\* The program exits after its final stop_success_beep.
CHECK_DEADLOCK FALSE
