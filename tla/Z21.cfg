SPECIFICATION Spec
CONSTANTS
    None = None
    Throttles = {t1, t2}
    Locos = {a, b}
    MaxLocos = 2
    Speeds = {0, 17, 126}
    ForeignSteps = {14, 28}
    Depth = 4
    MaxOps = 3
    MaxLosses = 1
    MaxForeign = 1
    MaxConnects = 1
SYMMETRY Symmetry
INVARIANTS  SpeedIsKept
CHECK_DEADLOCK FALSE
