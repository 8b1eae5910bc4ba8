SPECIFICATION Spec
CONSTANTS
    NPeriods = 1
    Duration = 1
    AnyClient = FALSE
    MaxTime = 1
    MaxEvents = 1
    MaxBacksteps = 0
PROPERTY TerminalGameTakesNoEvent
\* A finished game at the last instant has nothing left to do.
CHECK_DEADLOCK FALSE
