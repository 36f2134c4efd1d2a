\* A position and a withdrawal that cannot both be paid from the real balance
\* of 3.
CONSTANTS
  Positions = {p1}
  Closers = {loop}
  PositionStakes = {2}
  SpreadBps = 40
  FeeCap = 1
  InitialTreasury = 10
  ExposureCap = 4
  MaxAttempts = 2
  Requests = {w1}
  Refunders = {c1}
  Amounts = {2}
  MinWithdrawal = 1
  MaxWithdrawal = 2
  HoldTime = 1
  CancelWindow = 1
  FirstWindow = 1
  LoopRuns = TRUE
  MaxTime = 1
  InitialReal = 3
  InitialBonus = 1
  InitialCurrency = "INR"
SPECIFICATION Spec
INVARIANTS NoOverdraft
