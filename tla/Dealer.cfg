SPECIFICATION AllSpec
CONSTANTS
    Parts = {"calls", "shares"}
    Calls = {c1, c2, c3, c4, c5, c6}
    c1 = c1
    c2 = c2
    c3 = c3
    c4 = c4
    c5 = c5
    c6 = c6
    x = x
    y = y
    b1 = b1
    b2 = b2
    Request <- Requests
    HangUps = TRUE
    None = None
    P = 3
INVARIANTS DealtInPairs SharesCorrelated
PROPERTIES PairServed
CHECK_DEADLOCK FALSE
