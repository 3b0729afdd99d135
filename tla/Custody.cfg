SPECIFICATION AllSpec
CONSTANTS
  Parts = {"limiter", "serial", "limited", "adverse", "scarce", "crowded", "lossy", "topups", "repeat"}
  Callers = {c1, c2}
  Capacity = 2
  InitialCooldown = 1
  MaxCooldown = 3
  MaxShift = 3
  Requests <- AllRequests
  Kind <- KindOf
  Amount <- AmountOf
  PriceKnown = {"w1"}
  ValidData = {"s1"}
  Funds <- SomeFunds
  Unit = 2
  MaxValue = 10
  MaxGas = 5
  MinDeposit = 4
  MaxRetries = 2
  Deadline = 1
  Overlap = TRUE
  Slow = TRUE
  Rejects = TRUE
  CustodyFaults = TRUE
  Swaps = {"s1", "s2"}
  Transfers = {"t1"}
  SellAmount <- Sold
  Allowances = {3}
  TxMaxRetries = 3
  Amplifier = 4
  LossyNode = TRUE
  Jobs = {"j1", "j2", "j3", "j4"}
  Wallets <- RefillOf
  FillTo <- FillOf
  MaxRefill = 8
  Tolerance = 3
  Fee = 1
  HotBalances = {5, 20}
  Balances = {0, 1, 7}
  MaxSpends = 1
  RefillFaults = TRUE
CHECK_DEADLOCK FALSE
INVARIANTS CallsPaced TransfersAsReported SwapTxAsReported GasRefilledToTarget OneAtATime
PROPERTIES CustodyRequestsEnd
