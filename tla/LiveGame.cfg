SPECIFICATION FairSpec
CONSTANTS
    NPeriods = 3
    Duration = 1
    AnyClient = FALSE
    MaxTime = 3
    MaxEvents = 2
    MaxBacksteps = 1
INVARIANTS
    TypeOK
    PeriodShape
    ClockCountsPlay
    EventsInPlayedPeriods
PROPERTIES
    EndedGameFrozen
    ImplementsPeriods
    ExpiredPeriodEnds
\* A finished game at the last instant has nothing left to do.
CHECK_DEADLOCK FALSE
