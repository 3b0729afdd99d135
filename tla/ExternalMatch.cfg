SPECIFICATION AllSpec
CONSTANTS
    Parts = {"tokens", "cleanup", "quote", "rfq", "limited", "single", "batch"}
    Bundles = {b1, b2}
    Tasks = {t1, t2}
    Limit = 1
    Budget = 1
    Refund = 1
    MaxEvents = 2
    Faults = TRUE
    t1 = t1
    q1 = q1
    r1 = r1
    r2 = r2
    None = None
CHECK_DEADLOCK FALSE
INVARIANTS TokensCounted LimitsKept QuotedIsAssembled SettlementRecorded
PROPERTIES OneTokenPerBundle ContextCleanedUp
