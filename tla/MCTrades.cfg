\* Two concurrent orders, two settlers, a bonus to stake, one retry.
CONSTANTS
  Orders = {o1, o2}
  Settlers = {s1, s2}
  Stakes = {2, 3}
  PayoutPct = 92
  MaxAttempts = 2
  InitialReal = 2
  InitialBonus = 3
  InitialCurrency = "INR"
SPECIFICATION Spec
SYMMETRY Symmetric
INVARIANTS NoOverdraft LedgerChain OneStakeOneCredit OneTradePerCall
PROPERTIES BonusStaysBonus TradesImplementEscrow
