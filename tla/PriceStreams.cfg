SPECIFICATION AllSpec
CONSTANTS
    Parts = {"overlap", "crowd", "settled"}
    p1 = p1
    p2 = p2
    c1 = c1
    c2 = c2
    Pairs = {p1, p2}
    UnitPairs = {}
    Tasks = {t1, t2, t3}
    Clients = {c1}
    Inits = {i1}
    DesiredSets <- EitherOrBoth
    MaxRefreshes = 2
    Overlap = TRUE
    Faults = TRUE
    None = None
SYMMETRY Symmetry
CHECK_DEADLOCK FALSE
INVARIANTS RegisteredOrCancelled OneStreamPerPair DefaultsStreamed
