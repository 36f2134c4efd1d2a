---------------------------- MODULE AccountRow ----------------------------
(***************************************************************************)
(* One row of table "Account", the status of the User that owns it, and    *)
(* the Transaction rows (the ledger) written about that account.           *)
(*                                                                         *)
(* PostgreSQL runs every transaction of the repository layer at READ       *)
(* COMMITTED.  A transaction that reads the row and later writes it under  *)
(* the guard `version = the version read` is therefore two steps here: a   *)
(* read that takes a snapshot of the row, and a commit whose guard is      *)
(* evaluated against the row as it is at the commit.  A transaction whose  *)
(* writes are unconditional increments is one step for its writes.         *)
(***************************************************************************)
EXTENDS Integers, Sequences

CONSTANTS
  InitialReal,      \* realBalance of the account before the requests modelled
  InitialBonus,     \* bonusBalance before them
  InitialCurrency   \* "INR" or "USD"

ASSUME OpeningAssumption == InitialReal \in Nat /\ InitialBonus \in Nat
ASSUME CurrencyAssumption == InitialCurrency \in {"INR", "USD"}

VARIABLES
  account,      \* the Account row: real, bonus, version, currency
  ledger,       \* its Transaction rows, oldest first
  userStatus    \* User.status

accountVars == <<account, ledger, userStatus>>

AccountRecord == [real: Int, bonus: Int, version: Nat, currency: {"INR", "USD"}]
UserStatus    == {"ACTIVE", "FLAGGED", "FROZEN", "BANNED"}
Paused        == {"FROZEN", "BANNED"}   \* the statuses that refuse new trades and withdrawals

RowKind ==
  {"DEPOSIT", "WITHDRAWAL", "TRADE_STAKE", "TRADE_FEE",
   "TRADE_PAYOUT", "TRADE_REFUND", "BONUS_GRANT", "BONUS_CONVERT", "DEMO_RESET",
   "CURRENCY_CONVERT", "AFFILIATE_RESET"}

(* What a Transaction row says; ref names the Trade, Withdrawal or Deposit. *)
Row(kind, amount, after, ref) ==
  [kind |-> kind, amount |-> amount, after |-> after, ref |-> ref]

Balance(a) == a.real + a.bonus

MutNoVersionBump(a, dReal, dBonus) ==
  [real |-> a.real + dReal, bonus |-> a.bonus + dBonus, version |-> a.version,
   currency |-> a.currency]

(* The row after a guarded or an incremental balance update. *)
Moved(a, dReal, dBonus) ==
  [real |-> a.real + dReal, bonus |-> a.bonus + dBonus, version |-> a.version + 1,
   currency |-> a.currency]

AccountInit ==
  /\ account = [real |-> InitialReal, bonus |-> InitialBonus,
                version |-> 0, currency |-> InitialCurrency]
  /\ ledger = <<>>
  /\ userStatus = "ACTIVE"

(* setUserStatus: an administrator freezes, bans, flags or restores the     *)
(* user.  It writes the User row only: the account version is not bumped.   *)
SetUserStatus(s) ==
  /\ s # userStatus
  /\ userStatus' = s
  /\ UNCHANGED <<account, ledger>>

----------------------------------------------------------------------------
OpeningBalance == InitialReal + InitialBonus

(* The balance the ledger showed before its i-th row. *)
BalanceBefore(i) == IF i = 1 THEN OpeningBalance ELSE ledger[i - 1].after

(* Neither part of the balance is ever overdrawn, whatever the requests in  *)
(* flight: no two of them can spend the same money (trade.ts openTrade,     *)
(* withdrawal.ts requestWithdrawal).                                        *)
NoOverdraft == account.real >= 0 /\ account.bonus >= 0

(* The ledger is a running account: each row starts from the balance the    *)
(* row before it left, and the last row shows the balance of the account.   *)
(* A balance change that writes no row, or a row computed from a stale      *)
(* balance, breaks the chain.                                               *)
LedgerChain ==
  /\ \A i \in 1..Len(ledger) :
       ledger[i].after = BalanceBefore(i) + ledger[i].amount
  /\ Balance(account) = BalanceBefore(Len(ledger) + 1)
============================================================================
