SPECIFICATION Spec
CONSTANTS
    Parts = {"pooled", "doubled", "faulty", "roomy", "crowded", "scaled", "verdicts", "threads", "registering", "redelivered",
             "proving", "settling"}
    r1 = r1
    r2 = r2
    r3 = r3
    t1 = t1
    t2 = t2
    None = None
    Orders = {"o1"}
    Pools <- TwoPools
    Ticker <- TickerOf
    Values = {2, 3}
    Global = "global"
    Runners = {r1, r2}
    MaxDrops = 1
    MaxInbox = 2
    PoolFaults = TRUE
    Twice = FALSE
    Requests = {r1, r2}
    Wallets = {w1}
    Workers = 2
    PoolSize = 2
    Expiry = 1
    MaxTime = 2
    Calm = FALSE
    Groups = {"g1", "g2"}
    Sent <- Mixed
    Tasks = {t1, t2}
    MaxRecv = 2
    DbFails = TRUE
    DelFails = TRUE
    Slow = TRUE
    Calls = {r1}
    Routes = {"update", "fee", "validity", "bounded", "public", "only", "private"}
    Inputs = {"path", "method", "noheader", "header", "password", "media", "garbage", "invalid", "valid"}
    BlockingThreads = 2
    ProverFaults = TRUE
INVARIANTS PoolAssignment SolverPromises IndexedInOrder ProofsJustified
PROPERTIES AnswersJustified OrdersServed
CHECK_DEADLOCK FALSE
