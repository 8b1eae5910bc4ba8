SPECIFICATION Spec
CONSTANTS
    Requests = {r1, r2, r3, r4}
    Subjects = {s1, s2}
    NoGrant = NoGrant
    TTL = 1
    MaxTime = 2
SYMMETRY Symmetry
INVARIANTS
    OrderIsForgotten
PROPERTIES
    GrantsFollowArrival
\* When every request is over and the last grant is gone, nothing happens.
CHECK_DEADLOCK FALSE
