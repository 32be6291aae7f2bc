\* Two device paths in the default order (only the second opens), a
\* caller-supplied path that does not open, the beep utility installed.
\* The bounds end the behaviour: no deadlock check.
CONSTANTS
    c1 = c1
    c2 = c2
    c3 = c3
    None = None
    NoPaths = NoPaths
    DefaultPaths <- MCDefaultPaths
    EnvPaths <- MCEnvPaths
    PathChoices <- MCPathChoices
    Openable <- MCOpenable
    HasFcntl = TRUE
    BeepInstalled = TRUE
    Ttys <- MCTtys
    MaxBeeps = 3
    MaxConfigures = 3
SPECIFICATION Spec
CHECK_DEADLOCK FALSE
INVARIANT PreparedSpeakerIsTried
INVARIANT ConfigureFalseRestoresImportState
