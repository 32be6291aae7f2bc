\* Start, stop, start again: the first thread adopts the second event.
CONSTANTS
    MaxStarts = 2
    MaxCalls = 6
    None = None

SPECIFICATION Spec


PROPERTY StoppedThreadStaysStopped

\* The program exits after its final stop_success_beep.
CHECK_DEADLOCK FALSE
