\* Two deposits, two payments, two credits and a reversal at once, one stake;
\* all by USDT or all by bank.
\* No deposit is open and no payment is left: nothing more happens.
CONSTANTS
  Deposits = {d1, d2}
  Payments = {p1, p2}
  Credits = {c1, c2}
  Reversals = {v1}
  Amounts = {2}
  Rate = 1
  MaxSpends = 1
  InitialReal = 0
  InitialBonus = 0
  InitialCurrency = "INR"
  BonusTiers <- Tiers
CHECK_DEADLOCK FALSE
SPECIFICATION Spec
SYMMETRY Symmetric
INVARIANTS PaymentCreditsOnce ReversalTakesBack CumulativeMatches LedgerAgrees
PROPERTIES BonusByNumber
