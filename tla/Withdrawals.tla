---------------------------- MODULE Withdrawals ----------------------------
(***************************************************************************)
(* The life of a withdrawal: packages/db/src/repositories/withdrawal.ts.   *)
(* The user requests and cancels, an administrator releases, rejects,      *)
(* approves and pays, the engine loop promotes the holds that have run out.*)
(* Requests and refunds run concurrently; each is a read and a commit      *)
(* guarded by the account version, retried at most MaxAttempts times.      *)
(* The row of an affiliate is for show: it takes no money and the console  *)
(* of the administrators does not list it.                                 *)
(* An administrator may change a role; here an account has one for life.   *)
(***************************************************************************)
EXTENDS AccountRow

CONSTANTS
  Requests,        \* calls of requestWithdrawal, each the would-be owner of a row
  Refunders,       \* concurrent callers of cancelHeldWithdrawal and rejectWithdrawal
  Amounts,         \* amounts a user may ask for
  MinWithdrawal, MaxWithdrawal,   \* the per-request limits
  HoldTime,        \* WITHDRAWAL_HOLD_HOURS
  CancelWindow,    \* WITHDRAWAL_CANCEL_WINDOW_HOURS
  FirstWindow,     \* FIRST_WITHDRAWAL_WINDOW_HOURS
  MaxAttempts,     \* MAX_ATTEMPTS
  LoopRuns,        \* the engine runs its tick loop: OTC_ORDER_BOOK_ENABLED is not "true"
  MaxTime          \* bound: the clock stops here

ASSUME AmountsAssumption == Amounts \subseteq Nat \ {0}
ASSUME LimitsAssumption == MinWithdrawal \in Nat /\ MaxWithdrawal \in Nat
ASSUME TimesAssumption ==
  HoldTime \in Nat \ {0} /\ CancelWindow \in Nat \ {0} /\ FirstWindow \in Nat \ {0}
ASSUME BoundsAssumption == MaxAttempts \in Nat \ {0} /\ MaxTime \in Nat
ASSUME ModeAssumption == LoopRuns \in BOOLEAN

VARIABLES
  now,             \* the clock
  user,            \* the User: role, and when the first deposit completed, or NoDeposit
  requesting,      \* requesting[w]: where the call of requestWithdrawal is
  withdrawal,      \* withdrawal[w]: the Withdrawal row, status "NONE" before it exists
  refunding        \* refunding[c]: the refund call of c, if one is running

withdrawalVars == <<now, user, requesting, withdrawal, refunding>>
vars == <<account, ledger, userStatus, now, user, requesting, withdrawal, refunding>>

NoDeposit == -1

UserRecord == [role: {"USER", "AFFILIATE"}, firstDepositAt: Int]

Refunded   == {"CANCELLED_BY_USER", "REJECTED"}
RowStatus  == {"NONE", "HELD", "REQUESTED", "APPROVED", "PAID"} \cup Refunded
MutRejectTwice == {"REQUESTED", "HELD", "APPROVED", "CANCELLED_BY_USER"}
MutRejectPaid  == {"REQUESTED", "HELD", "APPROVED", "PAID"}
Rejectable == {"REQUESTED", "HELD", "APPROVED"}

NoRow == [status |-> "NONE", amount |-> 0, holdUntil |-> 0, cancelableUntil |-> 0]
NotCalled == [pc |-> "idle", amount |-> 0, attempt |-> 0, real |-> 0, bonus |-> 0, version |-> 0]
Idle  == [pc |-> "idle"]

RequestRecord ==
  [pc: {"idle", "show", "begin", "read", "placed", "refused"},
   amount: Nat, attempt: 0..MaxAttempts, real: Int, bonus: Int, version: Nat]

RowRecord == [status: RowStatus, amount: Nat, holdUntil: Nat, cancelableUntil: Nat]

RefundRecord ==
  {Idle} \cup
  [pc: {"begin", "read"}, kind: Refunded, row: Requests, amount: Nat,
   attempt: 0..MaxAttempts, real: Int, bonus: Int, version: Nat]

WithdrawalInit ==
  /\ now = 0
  /\ user \in {[role |-> "USER", firstDepositAt |-> NoDeposit],
               [role |-> "USER", firstDepositAt |-> 0],
               [role |-> "AFFILIATE", firstDepositAt |-> NoDeposit]}
  /\ requesting = [w \in Requests |-> NotCalled]
  /\ withdrawal = [w \in Requests |-> NoRow]
  /\ refunding = [c \in Refunders |-> Idle]

Init == AccountInit /\ WithdrawalInit

----------------------------------------------------------------------------
(* requestWithdrawal: the status, the limits and, except for an affiliate,  *)
(* the KYC status are checked once, before the transaction.                 *)
Admitted(amount) ==
  userStatus \notin Paused /\ amount >= MinWithdrawal /\ amount <= MaxWithdrawal

IsAffiliate == user.role = "AFFILIATE"

Request(w, amount) ==
  /\ requesting[w].pc = "idle"
  /\ \E verified \in BOOLEAN :
       requesting' = [requesting EXCEPT ![w].amount = amount, ![w].pc =
         CASE ~Admitted(amount) -> "refused"
           [] Admitted(amount) /\ IsAffiliate -> "show"
           [] OTHER -> IF verified THEN "begin" ELSE "refused"]
  /\ UNCHANGED <<account, ledger, userStatus, now, user, withdrawal, refunding>>

(* The withdrawal of an affiliate: a row and nothing else. *)
ShowWithdrawal(w) ==
  /\ requesting[w].pc = "show"
  /\ withdrawal' = [withdrawal EXCEPT ![w] =
       [status |-> "REQUESTED", amount |-> requesting[w].amount,
        holdUntil |-> 0, cancelableUntil |-> 0]]
  /\ requesting' = [requesting EXCEPT ![w].pc = "placed"]
  /\ UNCHANGED <<account, ledger, userStatus, now, user, refunding>>

(* One attempt reads the balances; only real money can be withdrawn. *)
ReadBalance(w) ==
  /\ requesting[w].pc = "begin"
  /\ requesting' = [requesting EXCEPT ![w] =
       IF @.amount > account.real THEN [@ EXCEPT !.pc = "refused"]
       ELSE [@ EXCEPT !.pc = "read", !.real = account.real, !.bonus = account.bonus,
                      !.version = account.version]]
  /\ UNCHANGED <<account, ledger, userStatus, now, user, withdrawal, refunding>>

(* The user's first withdrawal, soon after the first completed deposit, is  *)
(* held.  The count of earlier rows is read under the lock of the debit.    *)
MutFirstPaid == \A w \in Requests : withdrawal[w].status # "PAID"
IsFirst == \A w \in Requests : withdrawal[w].status = "NONE"
Held == /\ IsFirst
        /\ user.firstDepositAt # NoDeposit
        /\ now - user.firstDepositAt <= FirstWindow

(* The debit matches the version read; the row and its ledger row commit    *)
(* with it.                                                                 *)
PlaceWithdrawal(w) ==
  LET c == requesting[w]
  IN /\ c.pc = "read"
     /\ account.version = c.version
     /\ account' = Moved(account, -c.amount, 0)
     /\ withdrawal' = [withdrawal EXCEPT ![w] =
          [status |-> IF Held THEN "HELD" ELSE "REQUESTED",
           amount |-> c.amount,
           holdUntil |-> IF Held THEN now + HoldTime ELSE 0,
           cancelableUntil |-> IF Held THEN now + CancelWindow ELSE 0]]
     /\ ledger' = Append(ledger,
          Row("WITHDRAWAL", -c.amount, c.real + c.bonus - c.amount, w))
     /\ requesting' = [requesting EXCEPT ![w].pc = "placed"]
     /\ UNCHANGED <<userStatus, now, user, refunding>>

TriesAgain(attempt) == attempt < MaxAttempts

PlaceConflict(w) ==
  LET attempt == requesting[w].attempt + 1
  IN /\ requesting[w].pc = "read"
     /\ account.version # requesting[w].version
     /\ requesting' = [requesting EXCEPT
          ![w].attempt = attempt,
          ![w].pc = IF TriesAgain(attempt) THEN "begin" ELSE "refused"]
     /\ UNCHANGED <<account, ledger, userStatus, now, user, withdrawal, refunding>>

----------------------------------------------------------------------------
(* cancelHeldWithdrawal and rejectWithdrawal share their shape: the row is  *)
(* claimed by its status (and, for the user, by the clock) and its amount   *)
(* goes back to the real balance under the version guard.                   *)
Claimable(kind, w) ==
  IF kind = "REJECTED" THEN withdrawal[w].status \in Rejectable
  ELSE withdrawal[w].status = "HELD" /\ now < withdrawal[w].cancelableUntil

(* The console gives the administrators no row of an affiliate to act on;   *)
(* the functions of the repository do not look at the role.                 *)
Listed == ~IsAffiliate

BeginRefund(c, kind, w) ==
  /\ refunding[c] = Idle
  /\ kind = "REJECTED" => Listed
  /\ Claimable(kind, w)
  /\ refunding' = [refunding EXCEPT ![c] =
       [pc |-> "begin", kind |-> kind, row |-> w, amount |-> withdrawal[w].amount,
        attempt |-> 0, real |-> 0, bonus |-> 0, version |-> 0]]
  /\ UNCHANGED <<account, ledger, userStatus, now, user, requesting, withdrawal>>

(* A transaction that has claimed a row holds its lock until it ends. *)
Locked(w) == \E c \in Refunders : refunding[c] # Idle /\ refunding[c].pc = "read"
                                 /\ refunding[c].row = w

(* Inside the transaction the claim is repeated and takes the row lock, and *)
(* the account is read.  A claim that finds nothing ends the call.          *)
ClaimRow(c) ==
  LET r == refunding[c]
  IN /\ r # Idle /\ r.pc = "begin"
     /\ ~Locked(r.row)
     /\ refunding' = [refunding EXCEPT ![c] =
          IF Claimable(r.kind, r.row)
          THEN [r EXCEPT !.pc = "read", !.real = account.real, !.bonus = account.bonus,
                         !.version = account.version]
          ELSE Idle]
     /\ UNCHANGED <<account, ledger, userStatus, now, user, requesting, withdrawal>>

CommitRefund(c) ==
  LET r == refunding[c]
  IN /\ r # Idle /\ r.pc = "read"
     /\ account.version = r.version
     /\ account' = Moved(account, r.amount, 0)
     /\ withdrawal' = [withdrawal EXCEPT ![r.row].status = r.kind]
     /\ ledger' = Append(ledger,
          Row("WITHDRAWAL", r.amount, r.real + r.bonus + r.amount, r.row))
     /\ refunding' = [refunding EXCEPT ![c] = Idle]
     /\ UNCHANGED <<userStatus, now, user, requesting>>

(* The account moved since the read: the claim rolls back with the          *)
(* transaction, which is tried again or given up.                           *)
RefundConflict(c) ==
  LET r == refunding[c]
      attempt == r.attempt + 1
  IN /\ r # Idle /\ r.pc = "read"
     /\ account.version # r.version
     /\ refunding' = [refunding EXCEPT ![c] =
          IF TriesAgain(attempt) THEN [r EXCEPT !.pc = "begin", !.attempt = attempt] ELSE Idle]
     /\ UNCHANGED <<account, ledger, userStatus, now, user, requesting, withdrawal>>

----------------------------------------------------------------------------
(* Single guarded updates of the row's status; no money moves. *)
SetRowStatus(w, from, to) ==
  /\ withdrawal[w].status = from
  /\ ~Locked(w)
  /\ withdrawal' = [withdrawal EXCEPT ![w].status = to]
  /\ UNCHANGED <<account, ledger, userStatus, now, user, requesting, refunding>>

ReleaseHeld(w) == SetRowStatus(w, "HELD", "REQUESTED")
Approve(w)     == SetRowStatus(w, "REQUESTED", "APPROVED")
MarkPaid(w)    == SetRowStatus(w, "APPROVED", "PAID")

MutExactly(w) == withdrawal[w].status = "HELD" /\ withdrawal[w].holdUntil = now
HoldIsOver(w) == withdrawal[w].status = "HELD" /\ withdrawal[w].holdUntil <= now

(* autoPromoteHeldWithdrawals, once a minute from the tick loop; the OTC    *)
(* engine runs without that loop and nobody else promotes.                  *)
AutoPromote ==
  /\ LoopRuns
  /\ \E w \in Requests : HoldIsOver(w)
  /\ \A w \in Requests : HoldIsOver(w) => ~Locked(w)
  /\ withdrawal' = [w \in Requests |->
       IF HoldIsOver(w) THEN [withdrawal[w] EXCEPT !.status = "REQUESTED"] ELSE withdrawal[w]]
  /\ UNCHANGED <<account, ledger, userStatus, now, user, requesting, refunding>>

Tick ==
  /\ now < MaxTime
  /\ now' = now + 1
  /\ UNCHANGED <<account, ledger, userStatus, user, requesting, withdrawal, refunding>>

RequestStep(w) ==
  ShowWithdrawal(w) \/ ReadBalance(w) \/ PlaceWithdrawal(w) \/ PlaceConflict(w)
RefundStep(c)  == ClaimRow(c) \/ CommitRefund(c) \/ RefundConflict(c)
ReviewStep(w)  == Listed /\ (ReleaseHeld(w) \/ Approve(w) \/ MarkPaid(w))

WithdrawalNext ==
  \/ \E w \in Requests :
       RequestStep(w) \/ ReviewStep(w) \/ \E amount \in Amounts : Request(w, amount)
  \/ \E c \in Refunders :
       RefundStep(c) \/ \E kind \in Refunded, w \in Requests : BeginRefund(c, kind, w)
  \/ AutoPromote
  \/ Tick

Next == WithdrawalNext
        \/ \E st \in UserStatus : SetUserStatus(st) /\ UNCHANGED withdrawalVars

Spec == Init /\ [][Next]_vars

(* Where the tick loop runs it keeps promoting; time keeps passing, and the *)
(* database answers a request or a refund that has started.                 *)
Fairness ==
  /\ WF_vars(AutoPromote)
  /\ WF_vars(Tick)
  /\ \A w \in Requests : WF_vars(RequestStep(w))
  /\ \A c \in Refunders : WF_vars(RefundStep(c))

FairSpec == Spec /\ Fairness

----------------------------------------------------------------------------
TypeOK ==
  /\ account \in AccountRecord
  /\ ledger \in Seq([kind: RowKind, amount: Int, after: Int, ref: Requests])
  /\ userStatus \in UserStatus
  /\ now \in Nat
  /\ user \in UserRecord
  /\ requesting \in [Requests -> RequestRecord]
  /\ withdrawal \in [Requests -> RowRecord]
  /\ refunding \in [Refunders -> RefundRecord]

(* The row has taken its money from the account. *)
Taken(w) == withdrawal[w].status # "NONE" /\ ~IsAffiliate

(* The money of a withdrawal leaves the account once, comes back at most    *)
(* once, and comes back exactly when the row says it was cancelled or       *)
(* rejected: never to a row an administrator has paid, and never to the     *)
(* row of an affiliate, whose money was not taken.                          *)
DebitedOnceRefundedOnce ==
  /\ \A i, j \in 1..Len(ledger) :
       ledger[i].ref = ledger[j].ref /\ (ledger[i].amount < 0 <=> ledger[j].amount < 0) => i = j
  /\ \A w \in Requests :
       /\ Taken(w) <=>
            \E i \in 1..Len(ledger) : ledger[i].ref = w /\ ledger[i].amount = -withdrawal[w].amount
       /\ withdrawal[w].status \in Refunded <=>
            \E i \in 1..Len(ledger) : ledger[i].ref = w /\ ledger[i].amount = withdrawal[w].amount
       /\ withdrawal[w].status \in Refunded => Taken(w)

(* Two concurrent first withdrawals cannot both pass the "first ever" test: *)
(* at most one of a user's withdrawals is ever held.                        *)
OneHoldPerUser ==
  \A v, w \in Requests : withdrawal[v].holdUntil > 0 /\ withdrawal[w].holdUntil > 0 => v = w

(* Seen from the real balance, withdrawals are claims on an escrow that     *)
(* give back their whole amount or nothing.  The row of an affiliate is no  *)
(* claim: it may come and stay, and the escrow does not notice.             *)
WithdrawalClaim(w) ==
  [phase  |-> CASE ~Taken(w) -> "none"
                [] Taken(w) /\ withdrawal[w].status \in Refunded \cup {"PAID"} -> "released"
                [] OTHER -> "held",
   amount |-> IF Taken(w) THEN withdrawal[w].amount ELSE 0]

AllOrNothing(amount) == {0, amount}

Promise == INSTANCE Escrow WITH
  Claims <- Requests,
  Grants <- AllOrNothing,
  free   <- account.real,
  claim  <- [w \in Requests |-> WithdrawalClaim(w)]

WithdrawalsImplementEscrow == Promise!Spec

(* Where the tick loop runs, nothing stays on hold forever: a held          *)
(* withdrawal is cancelled, rejected or comes to review, even if no         *)
(* administrator looks at it.  Under the OTC engine only the user and the   *)
(* administrators end a hold.                                               *)
HoldEnds ==
  \A w \in Requests :
    LoopRuns /\ withdrawal[w].status = "HELD" ~> withdrawal[w].status # "HELD"
============================================================================
