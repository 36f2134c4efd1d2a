----------------------------- MODULE CfdWallet -----------------------------
(***************************************************************************)
(* CfdDesk and Withdrawals on one account: the engine process debits and   *)
(* credits positions while the web process takes withdrawals.  The desk    *)
(* guards its debit by the balances it read and leaves the version alone;  *)
(* withdrawals guard theirs by the version.                                *)
(***************************************************************************)
EXTENDS AccountRow

CONSTANTS
  Positions, Closers, PositionStakes, SpreadBps, FeeCap, InitialTreasury, ExposureCap,
  MaxAttempts, Requests, Refunders, Amounts, MinWithdrawal, MaxWithdrawal,
  HoldTime, CancelWindow, FirstWindow, MaxTime, LoopRuns

VARIABLES
  ordering, position, closing, treasury,
  now, user, requesting, withdrawal, refunding

C == INSTANCE CfdDesk
W == INSTANCE Withdrawals

cfdVars == <<ordering, position, closing, treasury>>
withdrawalVars == <<now, user, requesting, withdrawal, refunding>>
vars == <<accountVars, cfdVars, withdrawalVars>>

Init == AccountInit /\ C!CfdInit /\ W!WithdrawalInit

Next ==
  \/ C!CfdNext /\ UNCHANGED withdrawalVars
  \/ W!WithdrawalNext /\ UNCHANGED cfdVars
  \/ \E st \in UserStatus : SetUserStatus(st) /\ UNCHANGED <<cfdVars, withdrawalVars>>

Spec == Init /\ [][Next]_vars
============================================================================
