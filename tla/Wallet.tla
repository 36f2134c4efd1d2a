------------------------------ MODULE Wallet ------------------------------
(***************************************************************************)
(* Trades and Withdrawals on one account.  The two repositories share the  *)
(* Account row and the ledger and know nothing of each other: the version  *)
(* guard alone keeps a stake and a payout from spending the same money.    *)
(***************************************************************************)
EXTENDS AccountRow

CONSTANTS
  Orders, Settlers, Stakes, PayoutPct, MaxAttempts,
  Requests, Refunders, Amounts, MinWithdrawal, MaxWithdrawal,
  HoldTime, CancelWindow, FirstWindow, MaxTime, LoopRuns

ASSUME WalletAssumption ==
  /\ Stakes \subseteq Nat \ {0} /\ PayoutPct \in Nat /\ Amounts \subseteq Nat \ {0}
  /\ HoldTime \in Nat /\ CancelWindow \in Nat
\* The id of a trade is never the id of a withdrawal.
ASSUME IdsAssumption == Orders \cap Requests = {}

VARIABLES
  opening, trade, settling,
  now, user, requesting, withdrawal, refunding

T == INSTANCE Trades
W == INSTANCE Withdrawals

tradeVars == <<opening, trade, settling>>
withdrawalVars == <<now, user, requesting, withdrawal, refunding>>
vars == <<accountVars, tradeVars, withdrawalVars>>

Init == AccountInit /\ T!TradeInit /\ W!WithdrawalInit

Next ==
  \/ T!TradeNext /\ UNCHANGED withdrawalVars
  \/ W!WithdrawalNext /\ UNCHANGED tradeVars
  \/ \E st \in UserStatus : SetUserStatus(st) /\ UNCHANGED <<tradeVars, withdrawalVars>>

Spec == Init /\ [][Next]_vars

----------------------------------------------------------------------------

(* Trades and withdrawals together are claims on one escrow: between them   *)
(* they never hold money that was not there.                                *)
WalletGrants(amount) == T!TradeGrants(amount) \cup W!AllOrNothing(amount)

Promise == INSTANCE Escrow WITH
  Claims <- Orders \cup Requests,
  Grants <- WalletGrants,
  free   <- Balance(account),
  claim  <- [c \in Orders \cup Requests |->
               IF c \in Orders THEN T!TradeClaim(c) ELSE W!WithdrawalClaim(c)]

WalletImplementsEscrow == Promise!Spec
============================================================================
