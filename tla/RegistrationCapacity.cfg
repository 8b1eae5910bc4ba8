SPECIFICATION Spec
CONSTANTS
    Teams = {a, b}
    Workers = {w1, w2}
    Limits = {1, 2}
    LeagueMinimum = 1
SYMMETRY Symmetry
PROPERTIES
    NeverOverbooked
    CancellationStands
    OutOfTheBracket
