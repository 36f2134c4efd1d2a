\* Two requests that may or may not both be paid from the balance, two refund
\* calls.  The clock runs to the end of every hold:
\* MaxTime >= FirstWindow + HoldTime.
CONSTANTS
  Requests = {w1, w2}
  Refunders = {c1, c2}
  Amounts = {1, 2}
  MinWithdrawal = 1
  MaxWithdrawal = 2
  HoldTime = 2
  CancelWindow = 1
  FirstWindow = 1
  MaxAttempts = 2
  LoopRuns = TRUE
  MaxTime = 3
  InitialReal = 2
  InitialBonus = 1
  InitialCurrency = "INR"
SPECIFICATION FairSpec
INVARIANTS DebitedOnceRefundedOnce OneHoldPerUser
PROPERTIES WithdrawalsImplementEscrow HoldEnds
