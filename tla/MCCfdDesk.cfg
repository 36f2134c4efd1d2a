\* The tick loop is the only closer: it closes positions one at a time.
\* The fee is 40 percent of the stake, rounded, and at most 1.
\* When every order is closed or refused, nothing more happens.
CONSTANTS
  Positions = {p1, p2, p3}
  Closers = {loop}
  PositionStakes = {2, 3}
  SpreadBps = 40
  FeeCap = 1
  InitialTreasury = 10
  ExposureCap = 4
  InitialReal = 4
  InitialBonus = 2
  InitialCurrency = "INR"
CHECK_DEADLOCK FALSE
SPECIFICATION DeskSpec
SYMMETRY Symmetric
INVARIANTS MoneyConserved TreasuryMatchesTrades
PROPERTIES CloseNeverDebits
