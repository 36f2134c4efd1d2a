\* One trade and one withdrawal that cannot both be paid from the balance, a
\* settler and an administrator who may reject the withdrawal.
CONSTANTS
  Orders = {o1}
  Settlers = {s1}
  Stakes = {2, 3}
  PayoutPct = 92
  MaxAttempts = 2
  Requests = {w1}
  Refunders = {c1}
  Amounts = {1, 2}
  MinWithdrawal = 1
  MaxWithdrawal = 2
  HoldTime = 1
  CancelWindow = 1
  FirstWindow = 1
  LoopRuns = TRUE
  MaxTime = 1
  InitialReal = 2
  InitialBonus = 1
  InitialCurrency = "INR"
SPECIFICATION Spec
INVARIANTS NoOverdraft
PROPERTIES WalletImplementsEscrow
