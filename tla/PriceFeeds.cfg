SPECIFICATION Spec
CONSTANTS
    Parts = {"book", "rest", "websocket", "connection", "refused", "dead", "shutdown", "topic", "closing", "client", "stopping"}
    t1 = t1
    t2 = t2
    None = None
CHECK_DEADLOCK FALSE
INVARIANTS PricesOfExchange FreshOrNone
PROPERTIES FeedsRecover
