\* Leverage 10 for the 100 of the code: liquidation 10 percent and maximum
\* profit 20 percent away from the entry.  The market may gap past both.
CONSTANTS
  Prices = {700, 1000, 1300}
  Entry = 1000
  Levels = {950, 1050}
  TrailingPcts = {0, 5}
  Leverage = 10
  Stake = 1
SPECIFICATION FairSpec
INVARIANTS ResultMatchesExit
PROPERTIES GapLiquidates ExpiryCloses
