SPECIFICATION Spec
SYMMETRY Symmetry
CONSTANTS
    Parts = {"keys", "fees", "limits", "serial", "overlapping", "gas", "routing", "refunds"}
    k1 = k1
    k2 = k2
    r1 = r1
    r2 = r2
    u1 = u1
    u2 = u2
    a1 = a1
    Keys = {k1, k2}
    Users = {u1, u2}
    Assets = {a1}
    Fees = {1, 2}
    DefaultFee = 1
    Limits = {10, 20}
    Requests = {r1, r2}
    None = None
    NotCached = NotCached
    NoKey = NoKey
    NoTtl = NoTtl
CHECK_DEADLOCK FALSE
INVARIANTS CachesAreCurrent RequestsGuarded RefundsCoverGas
PROPERTIES TokensAccounted
