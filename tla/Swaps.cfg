SPECIFICATION AllSpec
CONSTANTS
    Parts = {"pool", "manual", "owning", "doubled", "sell", "buy", "retry", "refill", "faulty", "cover", "onebyone", "overlapping",
             "patient", "broken"}
    r1 = r1
    r2 = r2
    None = None
    w2 = w2
    p1 = p1
    g1 = g1
    g2 = g2
    Wallets = {w1, w2}
    Peers = {p1, p2}
    Registers = {g1}
    Reports = {t1}
    Grace = 1
    NoPeer = NoPeer
    Admin = FALSE
CHECK_DEADLOCK FALSE
INVARIANTS
    SwapsAsAsked SponsorRefilled CostsAsSwapped
    OneWalletEach KeyOfOwner
PROPERTIES FailuresMoveOn SwapsEnd GraceKept
