SPECIFICATION Spec
CONSTANTS
    host = host
    a = a
    b = b
    u = u
    v = v
    Teams = {host, a, b}
    Users = {u, v}
    Creator = host
    Manages <- MCManages
    Leavers = {host, a}
    Workers = {w1, w2}
    Plans <- MCPlans
    NoDeadline = NoDeadline
    MaxTime = 1
    None = None
SYMMETRY Symmetry
INVARIANTS
    DissolvedTeamHasNoMatch
CHECK_DEADLOCK FALSE
