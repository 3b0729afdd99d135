SPECIFICATION Spec
CONSTANTS
    Parts = {"book"}
    t1 = t1
    t2 = t2
    None = None
CHECK_DEADLOCK FALSE
PROPERTIES GapsReported
