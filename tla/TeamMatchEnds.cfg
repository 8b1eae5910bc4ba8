SPECIFICATION FairSpec
CONSTANTS
    host = host
    a = a
    b = b
    u = u
    v = v
    Teams = {host, a}
    Users = {u}
    Creator = host
    Manages <- MCManagesOne
    Leavers = {host}
    Workers = {w1, w2}
    Plans <- MCPlans
    NoDeadline = NoDeadline
    MaxTime = 2
    None = None
PROPERTIES
    EndsWithoutOpponent
CHECK_DEADLOCK FALSE
