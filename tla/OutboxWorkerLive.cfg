SPECIFICATION FairSpec
CONSTANTS
    Jobs = {j1, j2}
    Workers = {w1, w2}
    None = None
    MaxAttempts = 1
    MaxGenerations = 1
    MaxExits = 1
    MaxBeats = 0
    MaxSlips = 1
PROPERTIES
    AbandonedClaimReturns
    EventSettles
