SPECIFICATION Spec
CONSTANTS
    Jobs = {j1, j2}
    Workers = {w1, w2}
    None = None
    MaxAttempts = 2
    MaxGenerations = 1
    MaxExits = 1
    MaxBeats = 1
    MaxSlips = 1
INVARIANTS
    EffectExactlyOnce
    PushAfterCommit
    HandlerKeepsClaim
PROPERTIES
    VersionFencesChange
    ImplementsLedger
SYMMETRY Interchangeable
