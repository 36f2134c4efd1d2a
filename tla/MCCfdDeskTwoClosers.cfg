\* A manual close arrives while the tick loop closes the same position.
\* When every order is closed or refused, nothing more happens.
CONSTANTS
  Positions = {p1}
  Closers = {loop, manual}
  PositionStakes = {2, 3}
  SpreadBps = 40
  FeeCap = 1
  InitialTreasury = 10
  ExposureCap = 4
  InitialReal = 4
  InitialBonus = 2
  InitialCurrency = "INR"
CHECK_DEADLOCK FALSE
SPECIFICATION DeskSpec
INVARIANTS TreasuryMatchesTrades
