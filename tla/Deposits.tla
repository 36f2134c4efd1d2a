------------------------------ MODULE Deposits ------------------------------
(***************************************************************************)
(* Deposits of one user, the incoming payments that pay for them, and what *)
(* crediting and reversing them does to the account:                       *)
(* packages/db/src/repositories/deposit.ts, with the matchers and the      *)
(* administrator's calls that lead to it.                                  *)
(*                                                                         *)
(* creditDepositToAccount and performDepositReversal are long transactions *)
(* that take row locks: every row a transaction has claimed is locked      *)
(* until it ends, and whoever wants to write the row waits.  What a        *)
(* transaction writes is applied when it commits.                          *)
(***************************************************************************)
EXTENDS AccountRow, FiniteSetsExt

CONSTANTS
  Deposits,       \* the deposits the user may create
  Payments,       \* incoming payments
  Credits,        \* concurrent calls of creditDepositToAccount
  Reversals,      \* concurrent calls of performDepositReversal
  Amounts,        \* amounts of deposits and payments, in USD cents
  Rate,           \* INR per USD
  BonusTiers,     \* bonus percentage of the n-th completed deposit
  MaxSpends       \* bound on other debits of the account

ASSUME DepositAssumption ==
  /\ IsFiniteSet(Deposits) /\ "none" \notin Deposits \cup Payments
  /\ Amounts \subseteq Nat \ {0} /\ Rate \in Nat \ {0}
  /\ BonusTiers \in Seq(0..100) /\ MaxSpends \in Nat

VARIABLES
  rail,         \* how the user pays: USDT (ChainCredit rows) or BANK (BankCredit rows)
  deposit,      \* deposit[d]: the Deposit row
  payment,      \* payment[p]: the BankCredit or ChainCredit row
  cumulative,   \* User.cumulativeDeposits
  crediting,    \* crediting[c]: where a call of creditDepositToAccount is
  reversing     \* reversing[v]: where a call of performDepositReversal is

depositVars == <<rail, deposit, payment, cumulative, crediting, reversing>>
vars == <<accountVars, depositVars>>

None == "none"
Live       == {"AWAITING_PAYMENT", "PENDING_CONFIRMATION"}
Reviewable == {"MANUAL_REVIEW", "UNMATCHED"}

Rails == {"USDT", "BANK"}

NoDeposit   == [status |-> "NONE", amount |-> 0, matched |-> None, credited |-> 0, shortfall |-> 0]
NoPayment   == [status |-> "NONE", amount |-> 0, consumed |-> FALSE]
NoCredit    == [pc |-> "idle"]
NoReversal  == [pc |-> "idle"]

DepositInit ==
  /\ rail \in Rails
  /\ deposit = [d \in Deposits |-> NoDeposit]
  /\ payment = [p \in Payments |-> NoPayment]
  /\ cumulative = 0
  /\ crediting = [c \in Credits |-> NoCredit]
  /\ reversing = [v \in Reversals |-> NoReversal]

Init == AccountInit /\ DepositInit

----------------------------------------------------------------------------
(* Amounts *)

(* depositCreditMinor: what a deposit is worth on an account.  Column       *)
(* amountInr of a USDT deposit holds a negative placeholder.                *)
CreditMinor(amount, currency) == IF currency = "INR" THEN amount * Rate ELSE amount

BonusPercent(n) == IF n \in 1..Len(BonusTiers) THEN BonusTiers[n] ELSE 0
Bonus(credit, n) == (credit * BonusPercent(n)) \div 100

Lower(a, b) == IF a < b THEN a ELSE b

Completed == {d \in Deposits : deposit[d].status = "COMPLETED"}

----------------------------------------------------------------------------
(* Row locks *)

InCredit(c)   == crediting[c].pc \in {"claimed", "consumed", "counted"}
InReversal(v) == reversing[v].pc = "claimed"

DepositFree(d) ==
  /\ \A c \in Credits : InCredit(c) => crediting[c].deposit # d
  /\ \A v \in Reversals : InReversal(v) => reversing[v].deposit # d

PaymentFree(p) ==
  \A c \in Credits : crediting[c].pc \in {"consumed", "counted"} => crediting[c].payment # p

MutNoLock == TRUE
AccountFree == \A c \in Credits : crediting[c].pc # "counted"

----------------------------------------------------------------------------
(* Deposits and payments outside a credit or a reversal *)

CreateDeposit(d, amount) ==
  /\ deposit[d] = NoDeposit
  /\ deposit' = [deposit EXCEPT ![d].status = "AWAITING_PAYMENT", ![d].amount = amount]
  /\ UNCHANGED <<accountVars, rail, payment, cumulative, crediting, reversing>>

Arrive(p, amount) ==
  /\ payment[p] = NoPayment
  /\ payment' = [payment EXCEPT ![p].status = "PENDING", ![p].amount = amount]
  /\ UNCHANGED <<accountVars, rail, deposit, cumulative, crediting, reversing>>

(* claimUtr, rejectDeposit, expireStaleUsdtDeposits: guarded single updates. *)
SetDepositStatus(d, from, to) ==
  /\ DepositFree(d) /\ deposit[d].status \in from
  /\ deposit' = [deposit EXCEPT ![d].status = to]
  /\ UNCHANGED <<accountVars, rail, payment, cumulative, crediting, reversing>>

ClaimUtr(d) == SetDepositStatus(d, {"AWAITING_PAYMENT"}, "PENDING_CONFIRMATION")
RejectDeposit(d) == SetDepositStatus(d, Live, "REJECTED")
Expire(d) == rail = "USDT" /\ SetDepositStatus(d, {"AWAITING_PAYMENT"}, "EXPIRED")

(* A matcher finds no deposit for a payment, or cannot decide. *)
SendToReview(p, status) ==
  /\ rail = "USDT" /\ status \in Reviewable
  /\ PaymentFree(p) /\ payment[p].status = "PENDING"
  /\ payment' = [payment EXCEPT ![p].status = status]
  /\ UNCHANGED <<accountVars, rail, deposit, cumulative, crediting, reversing>>

DismissChainCredit(p) ==
  /\ rail = "USDT" /\ PaymentFree(p)
  /\ ~payment[p].consumed /\ payment[p].status \in Reviewable
  /\ payment' = [payment EXCEPT ![p].status = "DISMISSED", ![p].consumed = TRUE]
  /\ UNCHANGED <<accountVars, rail, deposit, cumulative, crediting, reversing>>

----------------------------------------------------------------------------
(* creditDepositToAccount *)

(* Whom a caller pairs: a matcher a pending payment with a live deposit, an *)
(* administrator a payment in review with one that is open or expired, or   *)
(* a live deposit with no payment at all.                                   *)
Pairs(d, p, admin) ==
  IF p = None THEN ~admin /\ deposit[d].status \in Live
  ELSE IF admin
       THEN /\ rail = "USDT" /\ ~payment[p].consumed /\ payment[p].status \in Reviewable
            /\ deposit[d].status \in {"AWAITING_PAYMENT", "EXPIRED"}
       ELSE payment[p].status = "PENDING" /\ deposit[d].status \in Live

(* A USDT deposit is credited with what arrived. *)
Received(d, p) == IF rail = "USDT" /\ p # None THEN payment[p].amount ELSE deposit[d].amount

(* Outside the transaction: the currency of the account, and the credit. *)
BeginCredit(c, d, p, admin) ==
  /\ crediting[c].pc = "idle" /\ Pairs(d, p, admin)
  /\ crediting' = [crediting EXCEPT ![c] =
       [pc |-> "read", deposit |-> d, payment |-> p, admin |-> admin,
        amount |-> Received(d, p), credit |-> CreditMinor(Received(d, p), account.currency)]]
  /\ UNCHANGED <<accountVars, rail, deposit, payment, cumulative, reversing>>

Creditable(admin) == IF admin THEN Live \cup {"EXPIRED"} ELSE Live

(* matchedChainCreditId is unique: a second claim of the payment waits for  *)
(* the first, and fails if that one commits.                                *)
MatchFree(p) == rail = "USDT" /\ p # None =>
  \A c \in Credits : InCredit(c) => crediting[c].payment # p
MatchTaken(p) == rail = "USDT" /\ p # None /\ \E d \in Deposits : deposit[d].matched = p

ClaimDeposit(c) ==
  LET call == crediting[c]
  IN /\ call.pc = "read"
     /\ DepositFree(call.deposit) /\ MatchFree(call.payment)
     /\ crediting' = [crediting EXCEPT ![c] =
          IF deposit[call.deposit].status \in Creditable(call.admin) /\ ~MatchTaken(call.payment)
          THEN [call EXCEPT !.pc = "claimed"]
          ELSE NoCredit]
     /\ UNCHANGED <<accountVars, rail, deposit, payment, cumulative, reversing>>

MutConsumedTwice(p, admin) == TRUE
Consumable(p, admin) ==
  /\ ~payment[p].consumed
  /\ rail = "USDT" => payment[p].status \in {"PENDING"} \cup (IF admin THEN Reviewable ELSE {})

ConsumePayment(c) ==
  LET call == crediting[c]
  IN /\ call.pc = "claimed"
     /\ call.payment # None => PaymentFree(call.payment)
     /\ crediting' = [crediting EXCEPT ![c] =
          IF call.payment = None \/ Consumable(call.payment, call.admin)
          THEN [call EXCEPT !.pc = "consumed"]
          ELSE NoCredit]
     /\ UNCHANGED <<accountVars, rail, deposit, payment, cumulative, reversing>>

(* Lock the account, then count the completed deposits, this one included. *)
LockAndCount(c) ==
  LET call == crediting[c]
  IN /\ call.pc = "consumed"
     /\ AccountFree
     /\ crediting' = [crediting EXCEPT ![c] =
          [pc |-> "counted", deposit |-> call.deposit, payment |-> call.payment,
           admin |-> call.admin, amount |-> call.amount, credit |-> call.credit,
           number |-> Cardinality(Completed) + 1]]
     /\ UNCHANGED <<accountVars, rail, deposit, payment, cumulative, reversing>>

CommitCredit(c) ==
  LET call  == crediting[c]
      bonus == Bonus(call.credit, call.number)
      after == Balance(account) + call.credit + bonus
  IN /\ call.pc = "counted"
     /\ deposit' = [deposit EXCEPT ![call.deposit] =
          [@ EXCEPT !.status = "COMPLETED", !.matched = call.payment,
                    !.amount = call.amount, !.credited = call.credit]]
     /\ payment' = [p \in Payments |->
          IF p = call.payment THEN [payment[p] EXCEPT !.consumed = TRUE, !.status = "MATCHED"]
          ELSE payment[p]]
     /\ account' = Moved(account, call.credit, bonus)
     /\ ledger' = ledger \o <<Row("DEPOSIT", call.credit, after, call.deposit)>>
                         \o (IF bonus > 0 THEN <<Row("BONUS_GRANT", bonus, after, call.deposit)>>
                             ELSE <<>>)
     /\ cumulative' = cumulative + call.credit
     /\ crediting' = [crediting EXCEPT ![c] = NoCredit]
     /\ UNCHANGED <<userStatus, rail, reversing>>

(* The connection is lost, or the process stops: the transaction rolls back. *)
AbortCredit(c) ==
  /\ crediting[c].pc # "idle"
  /\ crediting' = [crediting EXCEPT ![c] = NoCredit]
  /\ UNCHANGED <<accountVars, rail, deposit, payment, cumulative, reversing>>

----------------------------------------------------------------------------
(* performDepositReversal *)

(* The bonus granted for d is read back from the ledger. *)
MutRecomputed(d, credit) == Bonus(credit, Cardinality(Completed))
GrantedBonus(d, credit) ==
  IF \E i \in DOMAIN ledger : ledger[i].kind = "BONUS_GRANT" /\ ledger[i].ref = d
  THEN (CHOOSE row \in {ledger[i] : i \in DOMAIN ledger} :
          row.kind = "BONUS_GRANT" /\ row.ref = d).amount
  ELSE 0

(* Outside the transaction.  requeue is reverseUsdtDepositAndRequeue. *)
BeginReversal(v, d, force, requeue) ==
  LET credit == CreditMinor(deposit[d].amount, account.currency)
  IN /\ reversing[v].pc = "idle"
     /\ deposit[d].status = "COMPLETED"
     /\ requeue => rail = "USDT" /\ deposit[d].matched # None
     /\ reversing' = [reversing EXCEPT ![v] =
          [pc |-> "read", deposit |-> d, force |-> force, requeue |-> requeue,
           credit |-> credit, bonus |-> GrantedBonus(d, credit)]]
     /\ UNCHANGED <<accountVars, rail, deposit, payment, cumulative, crediting>>

Short(call, a) == call.credit > a.real \/ call.bonus > a.bonus

(* The transaction reads the account. *)
ReadFresh(v) ==
  LET call == reversing[v]
  IN /\ call.pc = "read"
     /\ reversing' = [reversing EXCEPT ![v] =
          IF Short(call, account) /\ ~call.force THEN NoReversal
          ELSE [pc |-> "fresh", deposit |-> call.deposit, requeue |-> call.requeue,
                credit |-> call.credit, bonus |-> call.bonus, version |-> account.version,
                balance |-> Balance(account), realCap |-> Lower(call.credit, account.real),
                bonusCap |-> Lower(call.bonus, account.bonus)]]
     /\ UNCHANGED <<accountVars, rail, deposit, payment, cumulative, crediting>>

Reversible(d) == deposit[d].status = "COMPLETED"

ClaimReversal(v) ==
  LET call == reversing[v]
  IN /\ call.pc = "fresh"
     /\ DepositFree(call.deposit)
     /\ reversing' = [reversing EXCEPT ![v] =
          IF Reversible(call.deposit) THEN [call EXCEPT !.pc = "claimed"] ELSE NoReversal]
     /\ UNCHANGED <<accountVars, rail, deposit, payment, cumulative, crediting>>

MutAnyVersion(call) == TRUE
SameVersion(call) == account.version = call.version

Requeued(d) == [deposit[d] EXCEPT !.status = "REJECTED", !.matched = None]

MutByReclaimed(call) == call.realCap
CumulativeLoss(call) == call.credit

ReclaimedReal(call) == call.realCap

CommitReversal(v) ==
  LET call  == reversing[v]
      d     == call.deposit
      real  == ReclaimedReal(call)
      after == call.balance - real - call.bonusCap
      short == (call.credit - real) + (call.bonus - call.bonusCap)
      row   == IF call.requeue THEN Requeued(d) ELSE [deposit[d] EXCEPT !.status = "REJECTED"]
  IN /\ call.pc = "claimed"
     /\ AccountFree /\ SameVersion(call)
     /\ call.requeue =>
          PaymentFree(deposit[d].matched) /\ payment[deposit[d].matched].consumed
     /\ deposit' = [deposit EXCEPT ![d] = [row EXCEPT !.shortfall = short]]
     /\ payment' = [p \in Payments |->
          IF call.requeue /\ p = deposit[d].matched
          THEN [payment[p] EXCEPT !.consumed = FALSE, !.status = "MANUAL_REVIEW"]
          ELSE payment[p]]
     /\ account' = Moved(account, -real, -call.bonusCap)
     /\ ledger' = ledger \o <<Row("DEPOSIT", -real, after, d)>>
                         \o (IF call.bonusCap > 0
                             THEN <<Row("BONUS_CONVERT", -call.bonusCap, after, d)>>
                             ELSE <<>>)
     /\ cumulative' = cumulative - CumulativeLoss(call)
     /\ reversing' = [reversing EXCEPT ![v] = NoReversal]
     /\ UNCHANGED <<userStatus, rail, crediting>>

(* Refused under the lock, or rolled back. *)
AbortReversal(v) ==
  /\ reversing[v].pc # "idle"
  /\ reversing' = [reversing EXCEPT ![v] = NoReversal]
  /\ UNCHANGED <<accountVars, rail, deposit, payment, cumulative, crediting>>

----------------------------------------------------------------------------
(* What else happens to the account *)

RowsOf(kind) == {i \in DOMAIN ledger : ledger[i].kind = kind}

(* A stake: any other guarded debit. *)
Spend(real, bonus) ==
  /\ AccountFree /\ Cardinality(RowsOf("TRADE_STAKE")) < MaxSpends
  /\ real \in 0..account.real /\ bonus \in 0..account.bonus /\ real + bonus > 0
  /\ account' = Moved(account, -real, -bonus)
  /\ ledger' = Append(ledger, Row("TRADE_STAKE", -(real + bonus),
                                  Balance(account) - real - bonus, None))
  /\ UNCHANGED <<userStatus, depositVars>>

----------------------------------------------------------------------------
CreditStep(c) ==
  \/ \E d \in Deposits, p \in Payments \cup {None}, admin \in BOOLEAN : BeginCredit(c, d, p, admin)
  \/ ClaimDeposit(c) \/ ConsumePayment(c) \/ LockAndCount(c) \/ CommitCredit(c) \/ AbortCredit(c)

ReversalStep(v) ==
  \/ \E d \in Deposits, force \in BOOLEAN, requeue \in BOOLEAN : BeginReversal(v, d, force, requeue)
  \/ ReadFresh(v) \/ ClaimReversal(v) \/ CommitReversal(v) \/ AbortReversal(v)

DepositNext ==
  \/ \E d \in Deposits :
       ClaimUtr(d) \/ RejectDeposit(d) \/ Expire(d) \/ \E a \in Amounts : CreateDeposit(d, a)
  \/ \E p \in Payments :
       \/ DismissChainCredit(p)
       \/ \E a \in Amounts : Arrive(p, a)
       \/ \E s \in Reviewable : SendToReview(p, s)
  \/ \E c \in Credits : CreditStep(c)
  \/ \E v \in Reversals : ReversalStep(v)

Next ==
  \/ DepositNext
  \/ \E real \in 0..account.real, bonus \in 0..account.bonus : Spend(real, bonus)

Spec == Init /\ [][Next]_vars

----------------------------------------------------------------------------
DepositRecord == [status: {"NONE", "AWAITING_PAYMENT", "PENDING_CONFIRMATION", "COMPLETED",
                           "REJECTED", "EXPIRED"},
                  amount: {0} \cup Amounts, matched: Payments \cup {None},
                  credited: Nat, shortfall: Nat]
PaymentRecord == [status: {"NONE", "PENDING", "MATCHED", "DISMISSED"} \cup Reviewable,
                  amount: {0} \cup Amounts, consumed: BOOLEAN]

TypeOK ==
  /\ account \in AccountRecord /\ userStatus \in UserStatus
  /\ deposit \in [Deposits -> DepositRecord] /\ payment \in [Payments -> PaymentRecord]
  /\ cumulative \in Int
  /\ \A c \in Credits : crediting[c].pc \in {"idle", "read", "claimed", "consumed", "counted"}
  /\ \A v \in Reversals : reversing[v].pc \in {"idle", "read", "fresh", "claimed"}

(* A payment is consumed exactly when one deposit was credited with it and  *)
(* has not given it back, or an administrator dismissed it: no payment is   *)
(* credited twice, and none is lost.                                        *)
PaymentCreditsOnce ==
  /\ \A p \in Payments :
       payment[p].consumed =
         (payment[p].status = "DISMISSED" \/ \E d \in Deposits : deposit[d].matched = p)
  /\ \A d, e \in Deposits : deposit[d].matched = deposit[e].matched /\ d # e =>
       deposit[d].matched = None

(* Whatever credits and reversals run at once, the bonus of a deposit is    *)
(* that of its number among the completed ones.                             *)
BonusByNumber ==
  [][\A d \in Deposits :
       deposit[d].status # "COMPLETED" /\ deposit'[d].status = "COMPLETED" =>
         account'.bonus - account.bonus
           = Bonus(deposit'[d].credited, Cardinality(Completed) + 1)]_vars

RowAmounts == [i \in DOMAIN ledger |-> ledger[i].amount]
RowsFor(d) == {i \in DOMAIN ledger : ledger[i].ref = d}

(* The ledger rows of a reversed deposit cancel out but for the shortfall   *)
(* that the audit log records.                                              *)
ReversalTakesBack ==
  \A d \in Deposits :
    deposit[d].status = "REJECTED" =>
      SumFunctionOnSet(RowAmounts, RowsFor(d)) = deposit[d].shortfall

(* User.cumulativeDeposits is the sum of what the completed deposits were   *)
(* credited with: deposit.ts:908 says it is decremented by the same credit  *)
(* value that was added at approval.                                        *)
CumulativeMatches ==
  cumulative = SumFunctionOnSet([d \in Deposits |-> deposit[d].credited], Completed)

LastRowShowsBalance == ledger # <<>> => ledger[Len(ledger)].after = Balance(account)

(* Every change of the balance is in the ledger with its amount, and the    *)
(* last row shows the balance, though a reversal computes it from a read    *)
(* that other calls may have overtaken.                                     *)
LedgerAgrees ==
  /\ Balance(account) = OpeningBalance + SumFunction(RowAmounts)
  /\ LastRowShowsBalance

=============================================================================
