SPECIFICATION ConsoleSpec
CONSTANTS
    NPeriods = 2
    Duration = 1
    AnyClient = FALSE
    MaxTime = 1
    MaxEvents = 2
    MaxBacksteps = 0
    Ids = {i1, i2, i3}
    Handlers = {h1, h2}
    None = None
    Commands <- AllCommands
SYMMETRY Symmetry
INVARIANTS
    OkMeansApplied
    OneWinnerPerVersion
PROPERTIES
    AppliedOnce
    AppliedIsNeverRefused
    CancelledFixtureGetsNoResult
    SerialGame
\* A game that is over, with every request answered, has nothing left to do.
CHECK_DEADLOCK FALSE
