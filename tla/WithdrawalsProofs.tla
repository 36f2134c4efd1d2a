------------------------- MODULE WithdrawalsProofs -------------------------
(***************************************************************************)
(* For every number of requests and refund calls, all amounts, limits and  *)
(* windows: a withdrawal is debited once and refunded at most once, a user *)
(* has one hold at most, and the whole implements Escrow.                  *)
(***************************************************************************)
EXTENDS Withdrawals, SequenceTheorems, TLAPS

LedgerRow == [kind: RowKind, amount: Int, after: Int, ref: Requests]

(* A call has read what the account still is, if its version is still the   *)
(* account's, and its row is there once it is placed.  An affiliate's call  *)
(* reads no balance, and nobody moves an affiliate's row.                   *)
RequestOK(w) ==
  LET c == requesting[w]
  IN /\ c.pc \in {"idle", "begin", "read"} => c.attempt < MaxAttempts
     /\ c.pc \in {"show", "begin", "read"} => c.amount > 0
     /\ c.pc = "show" => IsAffiliate
     /\ c.pc \in {"begin", "read"} => ~IsAffiliate
     /\ IsAffiliate => withdrawal[w].status \in {"NONE", "REQUESTED"}
     /\ c.pc = "read" =>
          /\ c.version <= account.version
          /\ c.version = account.version => c.real = account.real
          /\ c.amount <= c.real
     /\ IF c.pc = "placed"
        THEN withdrawal[w].status # "NONE" /\ withdrawal[w].amount > 0
        ELSE withdrawal[w] = NoRow

(* A refund is of a row that took its amount; the one that holds its lock   *)
(* finds it refundable.                                                     *)
RefundOK(c) ==
  LET r == refunding[c]
  IN r # Idle =>
       /\ r.attempt < MaxAttempts
       /\ Taken(r.row)
       /\ r.amount = withdrawal[r.row].amount
       /\ r.pc = "read" => withdrawal[r.row].status \in Rejectable

Holds(c, w) == refunding[c] # Idle /\ refunding[c].pc = "read" /\ refunding[c].row = w

LockInv == \A b, c \in Refunders : \A w \in Requests : Holds(b, w) /\ Holds(c, w) => b = c

(* A ledger row is the debit of its withdrawal, or its refund if the        *)
(* withdrawal was refunded.                                                 *)
RowInv ==
  \A i \in 1..Len(ledger) :
    LET row == withdrawal[ledger[i].ref]
    IN /\ Taken(ledger[i].ref)
       /\ \/ ledger[i].amount = -row.amount
          \/ ledger[i].amount = row.amount /\ row.status \in Refunded

WithdrawalIInv ==
  /\ TypeOK
  /\ \A w \in Requests : RequestOK(w)
  /\ \A c \in Refunders : RefundOK(c)
  /\ LockInv
  /\ RowInv
  /\ OneHoldPerUser
  /\ DebitedOnceRefundedOnce

USE AmountsAssumption, TimesAssumption, BoundsAssumption DEF Taken, IsAffiliate

----------------------------------------------------------------------------
LEMMA InitWithdrawalIInv == Init => WithdrawalIInv
<1> SUFFICES ASSUME Init PROVE WithdrawalIInv
  OBVIOUS
<1> USE DEF Init, AccountInit, WithdrawalInit
<1>1. TypeOK
  <2>1. account \in AccountRecord /\ userStatus \in UserStatus
    BY OpeningAssumption, CurrencyAssumption DEF AccountRecord, UserStatus
  <2>2. NotCalled \in RequestRecord /\ NoRow \in RowRecord /\ Idle \in RefundRecord
    BY DEF NotCalled, RequestRecord, NoRow, RowRecord, RowStatus, RefundRecord
  <2>3. QED
    BY <2>1, <2>2 DEF TypeOK, NoDeposit, UserRecord
<1>2. \A w \in Requests : RequestOK(w)
  BY DEF RequestOK, NotCalled, NoRow
<1>3. (\A c \in Refunders : RefundOK(c)) /\ LockInv
  BY DEF RefundOK, LockInv, Holds
<1>4. RowInv /\ OneHoldPerUser /\ DebitedOnceRefundedOnce
  BY DEF RowInv, OneHoldPerUser, DebitedOnceRefundedOnce, NoRow, Refunded
<1>5. QED
  BY <1>1, <1>2, <1>3, <1>4 DEF WithdrawalIInv

----------------------------------------------------------------------------
(* Steps of the calls that touch neither the money nor a row. *)

LEMMA MoneyStandsStill ==
  ASSUME WithdrawalIInv, UNCHANGED <<account, ledger, user, withdrawal>>, TypeOK',
         \A w \in Requests : RequestOK(w)', \A c \in Refunders : RefundOK(c)', LockInv'
  PROVE  WithdrawalIInv'
<1>1. RowInv' /\ OneHoldPerUser'
  BY DEF WithdrawalIInv, RowInv, OneHoldPerUser
<1>2. DebitedOnceRefundedOnce'
  BY DEF WithdrawalIInv, DebitedOnceRefundedOnce
<1>3. QED
  BY <1>1, <1>2 DEF WithdrawalIInv

LEMMA RequestMoves ==
  ASSUME WithdrawalIInv, NEW w \in Requests, NEW r \in RequestRecord,
         requesting' = [requesting EXCEPT ![w] = r],
         UNCHANGED <<account, ledger, userStatus, now, user, withdrawal, refunding>>,
         requesting[w].pc # "placed", r.pc # "placed",
         r.pc \in {"begin", "read"} => r.attempt < MaxAttempts /\ ~IsAffiliate,
         r.pc = "show" => IsAffiliate,
         r.pc \in {"show", "begin", "read"} => r.amount > 0,
         r.pc = "read" =>
           r.version = account.version /\ r.real = account.real /\ r.amount <= account.real,
         r.pc # "idle"
  PROVE  WithdrawalIInv'
<1>1. /\ requesting' \in [Requests -> RequestRecord]
      /\ \A v \in Requests : requesting'[v] = IF v = w THEN r ELSE requesting[v]
  BY DEF WithdrawalIInv, TypeOK
<1>2. TypeOK'
  BY <1>1 DEF WithdrawalIInv, TypeOK
<1>3. ASSUME NEW v \in Requests PROVE RequestOK(v)'
  <2>1. CASE v = w
    <3>1. withdrawal[w] = NoRow /\ account.version \in Nat
      BY DEF WithdrawalIInv, RequestOK, TypeOK, AccountRecord
    <3>2. QED
      BY <1>1, <2>1, <3>1 DEF RequestOK, NoRow
  <2>2. CASE v # w
    <3>1. requesting'[v] = requesting[v] /\ withdrawal'[v] = withdrawal[v]
      BY <1>1, <2>2
    <3>2. QED
      BY <3>1 DEF WithdrawalIInv, RequestOK
  <2>3. QED
    BY <2>1, <2>2
<1>4. (\A c \in Refunders : RefundOK(c)') /\ LockInv'
  BY DEF WithdrawalIInv, RefundOK, LockInv, Holds
<1>5. QED
  BY <1>2, <1>3, <1>4, MoneyStandsStill

LEMMA RequestKeeps ==
  ASSUME WithdrawalIInv, NEW w \in Requests, NEW amount \in Amounts, Request(w, amount)
  PROVE  WithdrawalIInv'
<1>1. PICK x \in RequestRecord : x = requesting[w] /\ x.pc = "idle" /\ x.attempt < MaxAttempts
  BY DEF Request, WithdrawalIInv, TypeOK, RequestOK
<1>2. PICK pc \in {"show", "begin", "refused"} :
        /\ requesting' = [requesting EXCEPT ![w].amount = amount, ![w].pc = pc]
        /\ pc = "show" => IsAffiliate
        /\ pc = "begin" => ~IsAffiliate
  <2>1. PICK verified \in BOOLEAN :
          requesting' = [requesting EXCEPT ![w].amount = amount, ![w].pc =
            CASE ~Admitted(amount) -> "refused"
              [] Admitted(amount) /\ IsAffiliate -> "show"
              [] OTHER -> IF verified THEN "begin" ELSE "refused"]
    BY DEF Request
  <2>2. CASE ~Admitted(amount)
    BY <2>1, <2>2
  <2>3. CASE Admitted(amount) /\ IsAffiliate
    BY <2>1, <2>3
  <2>4. CASE Admitted(amount) /\ ~IsAffiliate
    BY <2>1, <2>4
  <2>5. QED
    BY <2>2, <2>3, <2>4
<1>3. PICK r : r = [x EXCEPT !.amount = amount, !.pc = pc]
  OBVIOUS
<1>4. requesting' = [requesting EXCEPT ![w] = r]
  BY <1>1, <1>2, <1>3 DEF WithdrawalIInv, TypeOK, RequestRecord
<1>5. r = [pc |-> pc, amount |-> amount, attempt |-> x.attempt, real |-> x.real,
           bonus |-> x.bonus, version |-> x.version]
  BY <1>3 DEF RequestRecord
<1>6. r \in RequestRecord /\ r.pc = pc /\ r.amount > 0 /\ r.attempt < MaxAttempts
  <2>1. amount \in Nat /\ amount > 0
    OBVIOUS
  <2>2. r \in RequestRecord
    BY <1>5, <2>1 DEF RequestRecord
  <2>3. QED
    BY <1>1, <1>5, <2>1, <2>2
<1>7. UNCHANGED <<account, ledger, userStatus, now, user, withdrawal, refunding>>
  BY DEF Request
<1>8. QED
  BY <1>1, <1>2, <1>4, <1>6, <1>7, RequestMoves

LEMMA ReadKeeps ==
  ASSUME WithdrawalIInv, NEW w \in Requests, ReadBalance(w)
  PROVE  WithdrawalIInv'
<1>1. PICK x \in RequestRecord :
        x = requesting[w] /\ x.pc = "begin" /\ x.attempt < MaxAttempts /\ x.amount > 0
        /\ ~IsAffiliate
  BY DEF ReadBalance, WithdrawalIInv, TypeOK, RequestOK
<1>2. account.real \in Int /\ account.bonus \in Int /\ account.version \in Nat
  BY DEF WithdrawalIInv, TypeOK, AccountRecord
<1>3. UNCHANGED <<account, ledger, userStatus, now, user, withdrawal, refunding>>
  BY DEF ReadBalance
<1>4. CASE x.amount > account.real
  <2>1. PICK r : r = [x EXCEPT !.pc = "refused"] /\ requesting' = [requesting EXCEPT ![w] = r]
    BY <1>1, <1>4 DEF ReadBalance
  <2>2. r \in RequestRecord /\ r.pc = "refused"
    BY <2>1 DEF RequestRecord
  <2>3. QED
    BY <1>1, <1>3, <2>1, <2>2, RequestMoves
<1>5. CASE ~(x.amount > account.real)
  <2>1. PICK r : /\ r = [x EXCEPT !.pc = "read", !.real = account.real, !.bonus = account.bonus,
                                  !.version = account.version]
                 /\ requesting' = [requesting EXCEPT ![w] = r]
    BY <1>1, <1>5 DEF ReadBalance
  <2>2. r = [pc |-> "read", amount |-> x.amount, attempt |-> x.attempt, real |-> account.real,
             bonus |-> account.bonus, version |-> account.version]
    BY <2>1 DEF RequestRecord
  <2>3. r \in RequestRecord /\ r.amount <= account.real
    BY <1>2, <1>5, <2>2 DEF RequestRecord
  <2>4. QED
    BY <1>1, <1>3, <2>1, <2>2, <2>3, RequestMoves
<1>6. QED
  BY <1>4, <1>5

LEMMA ConflictKeeps ==
  ASSUME WithdrawalIInv, NEW w \in Requests, PlaceConflict(w)
  PROVE  WithdrawalIInv'
<1>1. PICK x \in RequestRecord :
        x = requesting[w] /\ x.pc = "read" /\ x.attempt < MaxAttempts /\ x.amount > 0
        /\ ~IsAffiliate
  BY DEF PlaceConflict, WithdrawalIInv, TypeOK, RequestOK
<1>2. PICK attempt \in 0..MaxAttempts : attempt = x.attempt + 1
  BY <1>1 DEF RequestRecord
<1>3. PICK pc \in {"begin", "refused"} : pc = IF TriesAgain(attempt) THEN "begin" ELSE "refused"
  OBVIOUS
<1>4. requesting' = [requesting EXCEPT ![w].attempt = attempt, ![w].pc = pc]
  BY <1>1, <1>2, <1>3 DEF PlaceConflict
<1>5. PICK r : r = [x EXCEPT !.attempt = attempt, !.pc = pc]
  OBVIOUS
<1>6. requesting' = [requesting EXCEPT ![w] = r]
  BY <1>1, <1>4, <1>5 DEF WithdrawalIInv, TypeOK, RequestRecord
<1>7. r = [pc |-> pc, amount |-> x.amount, attempt |-> attempt, real |-> x.real,
           bonus |-> x.bonus, version |-> x.version]
  BY <1>5 DEF RequestRecord
<1>8. r \in RequestRecord /\ r.pc = pc /\ (pc = "begin" => attempt < MaxAttempts)
  BY <1>3, <1>7 DEF RequestRecord, TriesAgain
<1>9. UNCHANGED <<account, ledger, userStatus, now, user, withdrawal, refunding>>
  BY DEF PlaceConflict
<1>10. QED
  BY <1>1, <1>3, <1>6, <1>7, <1>8, <1>9, RequestMoves

(* A step of a refund that has not committed. *)
LEMMA RefundMoves ==
  ASSUME WithdrawalIInv, NEW c \in Refunders, NEW r \in RefundRecord,
         refunding' = [refunding EXCEPT ![c] = r],
         UNCHANGED <<account, ledger, userStatus, now, user, requesting, withdrawal>>,
         r # Idle =>
           /\ r.attempt < MaxAttempts
           /\ Taken(r.row) /\ r.amount = withdrawal[r.row].amount
           /\ r.pc = "read" => withdrawal[r.row].status \in Rejectable /\ ~Locked(r.row)
  PROVE  WithdrawalIInv'
<1>1. /\ refunding' \in [Refunders -> RefundRecord]
      /\ \A b \in Refunders : refunding'[b] = IF b = c THEN r ELSE refunding[b]
  BY DEF WithdrawalIInv, TypeOK
<1>2. TypeOK'
  BY <1>1 DEF WithdrawalIInv, TypeOK
<1>3. \A w \in Requests : RequestOK(w)'
  BY DEF WithdrawalIInv, RequestOK
<1>4. \A b \in Refunders : RefundOK(b)'
  BY <1>1 DEF WithdrawalIInv, RefundOK
<1>5. LockInv'
  BY <1>1 DEF WithdrawalIInv, LockInv, Holds, Locked
<1>6. QED
  BY <1>2, <1>3, <1>4, <1>5, MoneyStandsStill
LEMMA BeginRefundKeeps ==
  ASSUME WithdrawalIInv, NEW c \in Refunders, NEW kind \in Refunded, NEW w \in Requests,
         BeginRefund(c, kind, w)
  PROVE  WithdrawalIInv'
<1>1. withdrawal[w] \in RowRecord /\ Taken(w)
  <2>1. withdrawal[w].status # "NONE" /\ (kind = "REJECTED" \/ withdrawal[w].status = "HELD")
    BY DEF BeginRefund, Claimable, Rejectable
  <2>2. kind = "REJECTED" => ~IsAffiliate
    BY DEF BeginRefund, Listed
  <2>3. RequestOK(w) /\ withdrawal[w] \in RowRecord
    BY DEF WithdrawalIInv, TypeOK
  <2>4. QED
    BY <2>1, <2>2, <2>3 DEF RequestOK
<1>2. PICK r : /\ r = [pc |-> "begin", kind |-> kind, row |-> w, amount |-> withdrawal[w].amount,
                       attempt |-> 0, real |-> 0, bonus |-> 0, version |-> 0]
               /\ refunding' = [refunding EXCEPT ![c] = r]
  BY DEF BeginRefund
<1>3. r \in RefundRecord
  BY <1>1, <1>2 DEF RefundRecord, RowRecord
<1>4. UNCHANGED <<account, ledger, userStatus, now, user, requesting, withdrawal>>
  BY DEF BeginRefund
<1>5. r.pc = "begin" /\ r.row = w /\ r.amount = withdrawal[w].amount /\ r.attempt < MaxAttempts
  BY <1>2
<1>6. QED
  BY <1>1, <1>2, <1>3, <1>4, <1>5, RefundMoves

(* What a running refund is. *)
LEMMA RefundShape ==
  ASSUME WithdrawalIInv, NEW c \in Refunders, refunding[c] # Idle
  PROVE  \E x : /\ x = refunding[c] /\ x \in RefundRecord
                /\ x = [pc |-> x.pc, kind |-> x.kind, row |-> x.row, amount |-> x.amount,
                        attempt |-> x.attempt, real |-> x.real, bonus |-> x.bonus,
                        version |-> x.version]
                /\ x.pc \in {"begin", "read"} /\ x.kind \in Refunded /\ x.row \in Requests
                /\ x.amount \in Nat /\ x.attempt \in 0..MaxAttempts /\ x.real \in Int
                /\ x.bonus \in Int /\ x.version \in Nat
                /\ x.attempt < MaxAttempts
                /\ Taken(x.row) /\ x.amount = withdrawal[x.row].amount
                /\ x.pc = "read" => withdrawal[x.row].status \in Rejectable
<1>1. PICK x \in RefundRecord : x = refunding[c] /\ x # Idle
  BY DEF WithdrawalIInv, TypeOK
<1>2. RefundOK(c)
  BY DEF WithdrawalIInv
<1>3. x \in [pc: {"begin", "read"}, kind: Refunded, row: Requests, amount: Nat,
             attempt: 0..MaxAttempts, real: Int, bonus: Int, version: Nat]
  BY <1>1 DEF RefundRecord
<1>4. QED
  BY <1>1, <1>2, <1>3 DEF RefundOK

LEMMA IdleKeeps ==
  ASSUME WithdrawalIInv, NEW c \in Refunders, refunding' = [refunding EXCEPT ![c] = Idle],
         UNCHANGED <<account, ledger, userStatus, now, user, requesting, withdrawal>>
  PROVE  WithdrawalIInv'
<1>1. Idle \in RefundRecord
  BY DEF RefundRecord
<1>2. QED
  BY <1>1, RefundMoves

LEMMA ClaimKeeps ==
  ASSUME WithdrawalIInv, NEW c \in Refunders, ClaimRow(c)
  PROVE  WithdrawalIInv'
<1>1. refunding[c] # Idle
  BY DEF ClaimRow
<1>2. PICK x : /\ x = refunding[c] /\ x \in RefundRecord
               /\ x = [pc |-> x.pc, kind |-> x.kind, row |-> x.row, amount |-> x.amount,
                       attempt |-> x.attempt, real |-> x.real, bonus |-> x.bonus,
                       version |-> x.version]
               /\ x.kind \in Refunded /\ x.row \in Requests
               /\ x.amount \in Nat /\ x.attempt \in 0..MaxAttempts
               /\ x.attempt < MaxAttempts
               /\ Taken(x.row) /\ x.amount = withdrawal[x.row].amount
  BY <1>1, RefundShape
<1>3. /\ account.real \in Int /\ account.bonus \in Int /\ account.version \in Nat
      /\ UNCHANGED <<account, ledger, userStatus, now, user, requesting, withdrawal>>
  BY DEF ClaimRow, WithdrawalIInv, TypeOK, AccountRecord
<1>4. ~Locked(x.row)
  BY <1>2 DEF ClaimRow
<1>5. CASE Claimable(x.kind, x.row)
  <2>1. PICK r : /\ r = [x EXCEPT !.pc = "read", !.real = account.real, !.bonus = account.bonus,
                                  !.version = account.version]
                 /\ refunding' = [refunding EXCEPT ![c] = r]
    BY <1>2, <1>5 DEF ClaimRow
  <2>2. r = [pc |-> "read", kind |-> x.kind, row |-> x.row, amount |-> x.amount,
             attempt |-> x.attempt, real |-> account.real, bonus |-> account.bonus,
             version |-> account.version]
    BY <1>2, <2>1
  <2>3. r \in RefundRecord
    BY <1>2, <1>3, <2>2 DEF RefundRecord
  <2>4. withdrawal[x.row].status \in Rejectable
    BY <1>5 DEF Claimable, Rejectable
  <2>5. QED
    BY <1>2, <1>3, <1>4, <2>1, <2>2, <2>3, <2>4, RefundMoves
<1>6. CASE ~Claimable(x.kind, x.row)
  <2>1. refunding' = [refunding EXCEPT ![c] = Idle]
    BY <1>2, <1>6 DEF ClaimRow
  <2>2. QED
    BY <1>3, <2>1, IdleKeeps
<1>7. QED
  BY <1>5, <1>6

LEMMA RefundConflictKeeps ==
  ASSUME WithdrawalIInv, NEW c \in Refunders, RefundConflict(c)
  PROVE  WithdrawalIInv'
<1>1. refunding[c] # Idle
  BY DEF RefundConflict
<1>2. PICK x : /\ x = refunding[c] /\ x \in RefundRecord
               /\ x = [pc |-> x.pc, kind |-> x.kind, row |-> x.row, amount |-> x.amount,
                       attempt |-> x.attempt, real |-> x.real, bonus |-> x.bonus,
                       version |-> x.version]
               /\ x.kind \in Refunded /\ x.row \in Requests /\ x.real \in Int
               /\ x.bonus \in Int /\ x.version \in Nat
               /\ x.amount \in Nat /\ x.attempt \in 0..MaxAttempts
               /\ x.attempt < MaxAttempts
               /\ Taken(x.row) /\ x.amount = withdrawal[x.row].amount
  BY <1>1, RefundShape
<1>3. PICK attempt \in 0..MaxAttempts : attempt = x.attempt + 1
  BY <1>2
<1>4. UNCHANGED <<account, ledger, userStatus, now, user, requesting, withdrawal>>
  BY DEF RefundConflict
<1>5. CASE TriesAgain(attempt)
  <2>1. PICK r : /\ r = [x EXCEPT !.pc = "begin", !.attempt = attempt]
                 /\ refunding' = [refunding EXCEPT ![c] = r]
    BY <1>2, <1>3, <1>5 DEF RefundConflict
  <2>2. r = [pc |-> "begin", kind |-> x.kind, row |-> x.row, amount |-> x.amount,
             attempt |-> attempt, real |-> x.real, bonus |-> x.bonus, version |-> x.version]
    BY <1>2, <2>1
  <2>3. r \in RefundRecord /\ r.attempt < MaxAttempts
    BY <1>2, <1>5, <2>2 DEF RefundRecord, TriesAgain
  <2>4. QED
    BY <1>2, <1>4, <2>1, <2>2, <2>3, RefundMoves
<1>6. CASE ~TriesAgain(attempt)
  <2>1. refunding' = [refunding EXCEPT ![c] = Idle]
    BY <1>2, <1>3, <1>6 DEF RefundConflict
  <2>2. QED
    BY <1>4, <2>1, IdleKeeps
<1>7. QED
  BY <1>5, <1>6

----------------------------------------------------------------------------
(* An administrator's verdict or the engine's promotion: a row goes from    *)
(* one status to another, neither of them a refund, and not under the lock  *)
(* of a refund.                                                             *)
LEMMA RowsMove ==
  ASSUME WithdrawalIInv, withdrawal' \in [Requests -> RowRecord],
         UNCHANGED <<account, ledger, userStatus, now, user, requesting, refunding>>,
         \A w \in Requests :
           \/ withdrawal'[w] = withdrawal[w]
           \/ /\ ~Locked(w)
              /\ {withdrawal[w].status, withdrawal'[w].status} \cap (Refunded \cup {"NONE"}) = {}
              /\ withdrawal'[w].amount = withdrawal[w].amount
              /\ withdrawal'[w].holdUntil = withdrawal[w].holdUntil
              /\ ~IsAffiliate
  PROVE  WithdrawalIInv'
<1>1. TypeOK'
  BY DEF WithdrawalIInv, TypeOK
<1>2. \A w \in Requests :
        /\ withdrawal'[w].status = "NONE" <=> withdrawal[w].status = "NONE"
        /\ withdrawal'[w].status \in Refunded <=> withdrawal[w].status \in Refunded
        /\ withdrawal'[w].amount = withdrawal[w].amount
        /\ withdrawal'[w].holdUntil = withdrawal[w].holdUntil
        /\ withdrawal[w] = NoRow => withdrawal'[w] = NoRow
        /\ Locked(w) => withdrawal'[w] = withdrawal[w]
        /\ IsAffiliate => withdrawal'[w] = withdrawal[w]
  BY DEF NoRow
<1>3. \A w \in Requests : RequestOK(w)'
  BY <1>2 DEF WithdrawalIInv, RequestOK, NoRow
<1>4. ASSUME NEW c \in Refunders PROVE RefundOK(c)'
  <2>1. CASE refunding[c] = Idle
    BY <2>1 DEF RefundOK
  <2>2. CASE refunding[c] # Idle
    <3>1. refunding[c].row \in Requests
      BY <2>2, RefundShape
    <3>2. refunding[c].pc = "read" => Locked(refunding[c].row)
      BY <2>2 DEF Locked
    <3>3. QED
      BY <1>2, <3>1, <3>2 DEF WithdrawalIInv, RefundOK
  <2>3. QED
    BY <2>1, <2>2
<1>5. LockInv'
  BY DEF WithdrawalIInv, LockInv, Holds
<1>6. \A i \in 1..Len(ledger) : ledger[i].ref \in Requests
  <2>1. ledger \in Seq(LedgerRow)
    BY DEF WithdrawalIInv, TypeOK, LedgerRow
  <2>2. \A i \in 1..Len(ledger) : ledger[i] \in LedgerRow
    BY <2>1, ElementOfSeq
  <2>3. QED
    BY <2>2 DEF LedgerRow
<1>7. RowInv'
  BY <1>2, <1>6 DEF WithdrawalIInv, RowInv
<1>8. OneHoldPerUser'
  BY <1>2 DEF WithdrawalIInv, OneHoldPerUser
<1>9. DebitedOnceRefundedOnce'
  BY <1>2 DEF WithdrawalIInv, DebitedOnceRefundedOnce
<1>10. QED
  BY <1>1, <1>3, <1>4, <1>5, <1>7, <1>8, <1>9 DEF WithdrawalIInv

LEMMA ReviewKeeps ==
  ASSUME WithdrawalIInv, NEW w \in Requests, ReviewStep(w)
  PROVE  WithdrawalIInv'
<1>1. PICK from, to \in {"HELD", "REQUESTED", "APPROVED", "PAID"} : SetRowStatus(w, from, to)
  BY DEF ReviewStep, ReleaseHeld, Approve, MarkPaid
<1>2. PICK x \in RowRecord : x = withdrawal[w] /\ x.status = from /\ ~Locked(w)
  BY <1>1 DEF SetRowStatus, WithdrawalIInv, TypeOK
<1>3. PICK r : r = [x EXCEPT !.status = to] /\ withdrawal' = [withdrawal EXCEPT ![w] = r]
  BY <1>1, <1>2 DEF SetRowStatus, WithdrawalIInv, TypeOK
<1>4. r = [status |-> to, amount |-> x.amount, holdUntil |-> x.holdUntil,
           cancelableUntil |-> x.cancelableUntil]
  BY <1>3 DEF RowRecord
<1>5. r \in RowRecord
  BY <1>4 DEF RowRecord, RowStatus
<1>6. /\ withdrawal' \in [Requests -> RowRecord]
      /\ \A v \in Requests : withdrawal'[v] = IF v = w THEN r ELSE withdrawal[v]
  BY <1>3, <1>5 DEF WithdrawalIInv, TypeOK
<1>7. {x.status, r.status} \cap (Refunded \cup {"NONE"}) = {}
  BY <1>1, <1>2, <1>4 DEF Refunded
<1>8. UNCHANGED <<account, ledger, userStatus, now, user, requesting, refunding>>
  BY <1>1 DEF SetRowStatus
<1>9. ~IsAffiliate
  BY DEF ReviewStep, Listed
<1>10. QED
  BY <1>2, <1>4, <1>6, <1>7, <1>8, <1>9, RowsMove

LEMMA PromoteKeeps ==
  ASSUME WithdrawalIInv, AutoPromote
  PROVE  WithdrawalIInv'
<1>1. ASSUME NEW w \in Requests
      PROVE  /\ withdrawal'[w] \in RowRecord
             /\ \/ withdrawal'[w] = withdrawal[w]
                \/ /\ ~Locked(w)
                   /\ {withdrawal[w].status, withdrawal'[w].status}
                        \cap (Refunded \cup {"NONE"}) = {}
                   /\ withdrawal'[w].amount = withdrawal[w].amount
                   /\ withdrawal'[w].holdUntil = withdrawal[w].holdUntil
                   /\ ~IsAffiliate
  <2>1. PICK x \in RowRecord : x = withdrawal[w]
    BY DEF WithdrawalIInv, TypeOK
  <2>2. PICK r : r = [x EXCEPT !.status = "REQUESTED"]
    OBVIOUS
  <2>3. withdrawal'[w] = IF HoldIsOver(w) THEN r ELSE x
    BY <2>1, <2>2 DEF AutoPromote
  <2>4. r = [status |-> "REQUESTED", amount |-> x.amount, holdUntil |-> x.holdUntil,
             cancelableUntil |-> x.cancelableUntil]
    BY <2>2 DEF RowRecord
  <2>5. r \in RowRecord
    BY <2>4 DEF RowRecord, RowStatus
  <2>6. HoldIsOver(w) => x.status = "HELD" /\ ~Locked(w) /\ ~IsAffiliate
    BY <2>1 DEF HoldIsOver, AutoPromote, WithdrawalIInv, RequestOK
  <2>7. QED
    BY <2>1, <2>3, <2>4, <2>5, <2>6 DEF Refunded
<1>2. withdrawal' \in [Requests -> RowRecord]
  <2>1. PICK f : withdrawal' = f /\ f = [w \in Requests |-> f[w]]
    BY DEF AutoPromote
  <2>2. QED
    BY <1>1, <2>1
<1>3. UNCHANGED <<account, ledger, userStatus, now, user, requesting, refunding>>
  BY DEF AutoPromote
<1>4. QED
  BY <1>1, <1>2, <1>3, RowsMove
----------------------------------------------------------------------------
(* The two steps that move money. *)

LEMMA LedgerRows ==
  ASSUME WithdrawalIInv
  PROVE  /\ Len(ledger) \in Nat /\ ledger \in Seq(LedgerRow)
         /\ \A i \in 1..Len(ledger) : ledger[i].ref \in Requests /\ ledger[i].amount \in Int
<1>1. ledger \in Seq(LedgerRow)
  BY DEF WithdrawalIInv, TypeOK, LedgerRow
<1>2. \A i \in 1..Len(ledger) : ledger[i] \in LedgerRow
  BY <1>1, ElementOfSeq
<1>3. QED
  BY <1>1, <1>2 DEF LedgerRow

LEMMA LedgerGrows ==
  ASSUME WithdrawalIInv, NEW row \in LedgerRow, ledger' = Append(ledger, row)
  PROVE  /\ ledger' \in Seq([kind: RowKind, amount: Int, after: Int, ref: Requests])
         /\ Len(ledger') = Len(ledger) + 1 /\ ledger'[Len(ledger) + 1] = row
         /\ \A i \in 1..Len(ledger) : ledger'[i] = ledger[i]
<1>1. ledger \in Seq(LedgerRow)
  BY LedgerRows
<1>2. QED
  BY <1>1 DEF LedgerRow

LEMMA MovedAccount ==
  ASSUME NEW a \in AccountRecord, NEW dReal \in Int, NEW dBonus \in Int
  PROVE  /\ Moved(a, dReal, dBonus) \in AccountRecord
         /\ Moved(a, dReal, dBonus).real = a.real + dReal
         /\ Moved(a, dReal, dBonus).version = a.version + 1
  BY DEF Moved, AccountRecord

(* A call that has read an older account notices it at its commit. *)
LEMMA OldSnapshot ==
  ASSUME WithdrawalIInv, NEW w \in Requests, RequestOK(w),
         account' \in AccountRecord, account'.version = account.version + 1,
         requesting'[w] = requesting[w], user' = user,
         withdrawal'[w] = withdrawal[w]
           \/ /\ Taken(w) /\ withdrawal'[w].status # "NONE"
              /\ withdrawal'[w].amount = withdrawal[w].amount
  PROVE  RequestOK(w)'
<1>1. requesting[w] \in RequestRecord /\ account.version \in Nat
  BY DEF WithdrawalIInv, TypeOK, AccountRecord
<1>2. requesting[w].version \in Nat
  BY <1>1 DEF RequestRecord
<1>3. QED
  BY <1>1, <1>2 DEF RequestOK, NoRow

(* Whether a ledger row was written, once one more is. *)
LEMMA WrittenRows ==
  ASSUME WithdrawalIInv, NEW row \in LedgerRow, ledger' = Append(ledger, row),
         NEW v, NEW amount
  PROVE  (\E i \in 1..Len(ledger') : ledger'[i].ref = v /\ ledger'[i].amount = amount)
         <=> \/ \E i \in 1..Len(ledger) : ledger[i].ref = v /\ ledger[i].amount = amount
             \/ row.ref = v /\ row.amount = amount
<1>1. PICK N \in Nat : /\ N = Len(ledger) /\ Len(ledger') = N + 1 /\ ledger'[N + 1] = row
                       /\ \A i \in 1..N : ledger'[i] = ledger[i]
  BY LedgerGrows, LedgerRows
<1>2. 1..(N + 1) = 1..N \cup {N + 1}
  OBVIOUS
<1>3. QED
  BY <1>1, <1>2

(* The row written is the first of its sign for its withdrawal, and says    *)
(* what the withdrawal's status now says.                                   *)
LEMMA RowWritten ==
  ASSUME WithdrawalIInv, NEW w \in Requests, NEW row \in LedgerRow, row.ref = w,
         ledger' = Append(ledger, row), user' = user, ~IsAffiliate,
         \A v \in Requests : v # w => withdrawal'[v] = withdrawal[v],
         \A i \in 1..Len(ledger) :
           ledger[i].ref = w => ~(ledger[i].amount < 0 <=> row.amount < 0),
         withdrawal'[w].status # "NONE",
         \/ \E i \in 1..Len(ledger) :
              ledger[i].ref = w /\ ledger[i].amount = -withdrawal'[w].amount
         \/ row.amount = -withdrawal'[w].amount,
         withdrawal'[w].status \in Refunded <=> row.amount = withdrawal'[w].amount,
         \A i \in 1..Len(ledger) : ledger[i].ref = w => ledger[i].amount # withdrawal'[w].amount
  PROVE  DebitedOnceRefundedOnce'
<1>1. PICK N \in Nat : /\ N = Len(ledger) /\ Len(ledger') = N + 1 /\ ledger'[N + 1] = row
                       /\ \A i \in 1..N : ledger'[i] = ledger[i]
  BY LedgerGrows, LedgerRows
<1>2. 1..(N + 1) = 1..N \cup {N + 1}
  OBVIOUS
<1>3. ASSUME NEW i \in 1..N + 1, NEW j \in 1..N + 1, ledger'[i].ref = ledger'[j].ref,
             ledger'[i].amount < 0 <=> ledger'[j].amount < 0
      PROVE  i = j
  <2>1. CASE i \in 1..N /\ j \in 1..N
    BY <1>1, <1>3, <2>1 DEF WithdrawalIInv, DebitedOnceRefundedOnce
  <2>2. CASE i \in 1..N /\ j = N + 1
    BY <1>1, <1>3, <2>2
  <2>3. CASE i = N + 1 /\ j \in 1..N
    BY <1>1, <1>3, <2>3
  <2>4. QED
    BY <1>2, <2>1, <2>2, <2>3
<1>4. ASSUME NEW v \in Requests
      PROVE  /\ withdrawal'[v].status # "NONE" <=>
                  \E i \in 1..Len(ledger') :
                    ledger'[i].ref = v /\ ledger'[i].amount = -withdrawal'[v].amount
             /\ withdrawal'[v].status \in Refunded <=>
                  \E i \in 1..Len(ledger') :
                    ledger'[i].ref = v /\ ledger'[i].amount = withdrawal'[v].amount
             /\ withdrawal'[v].status \in Refunded => withdrawal'[v].status # "NONE"
  <2>1. PICK y : y = withdrawal'[v]
    OBVIOUS
  <2>2. /\ (\E i \in 1..Len(ledger') : ledger'[i].ref = v /\ ledger'[i].amount = -y.amount)
            <=> \/ \E i \in 1..Len(ledger) : ledger[i].ref = v /\ ledger[i].amount = -y.amount
                \/ w = v /\ row.amount = -y.amount
        /\ (\E i \in 1..Len(ledger') : ledger'[i].ref = v /\ ledger'[i].amount = y.amount)
            <=> \/ \E i \in 1..Len(ledger) : ledger[i].ref = v /\ ledger[i].amount = y.amount
                \/ w = v /\ row.amount = y.amount
    BY WrittenRows
  <2>3. CASE v = w
    BY <2>1, <2>2, <2>3 DEF Refunded
  <2>4. CASE v # w
    <3>1. y = withdrawal[v]
      BY <2>1, <2>4
    <3>2. /\ y.status # "NONE" <=>
               \E i \in 1..Len(ledger) : ledger[i].ref = v /\ ledger[i].amount = -y.amount
          /\ y.status \in Refunded <=>
               \E i \in 1..Len(ledger) : ledger[i].ref = v /\ ledger[i].amount = y.amount
      BY <3>1 DEF WithdrawalIInv, DebitedOnceRefundedOnce
    <3>3. QED
      BY <2>1, <2>2, <2>4, <3>2 DEF Refunded
  <2>5. QED
    BY <2>3, <2>4
<1>5. \A v \in Requests : Taken(v)' <=> withdrawal'[v].status # "NONE"
  OBVIOUS
<1>6. QED
  BY <1>1, <1>3, <1>4, <1>5 DEF DebitedOnceRefundedOnce

LEMMA PlaceKeeps ==
  ASSUME WithdrawalIInv, NEW w \in Requests, PlaceWithdrawal(w)
  PROVE  WithdrawalIInv'
<1>1. PICK x \in RequestRecord :
        /\ x = requesting[w] /\ x.pc = "read" /\ x.version = account.version
        /\ x.amount > 0 /\ x.amount <= x.real /\ ~IsAffiliate
  BY DEF PlaceWithdrawal, WithdrawalIInv, TypeOK, RequestOK
<1>2. /\ x.amount \in Nat /\ x.real \in Int /\ x.bonus \in Int
      /\ withdrawal[w] = NoRow /\ account \in AccountRecord /\ now \in Nat
  BY <1>1 DEF WithdrawalIInv, TypeOK, RequestOK, RequestRecord
<1>3. PICK new : new = [status |-> IF Held THEN "HELD" ELSE "REQUESTED",
                        amount |-> x.amount,
                        holdUntil |-> IF Held THEN now + HoldTime ELSE 0,
                        cancelableUntil |-> IF Held THEN now + CancelWindow ELSE 0]
  OBVIOUS
<1>4. PICK row : row = Row("WITHDRAWAL", -x.amount, x.real + x.bonus - x.amount, w)
  OBVIOUS
<1>5. /\ account' = Moved(account, -x.amount, 0)
      /\ withdrawal' = [withdrawal EXCEPT ![w] = new]
      /\ ledger' = Append(ledger, row)
      /\ requesting' = [requesting EXCEPT ![w].pc = "placed"]
      /\ UNCHANGED <<userStatus, now, user, refunding>>
  BY <1>1, <1>3, <1>4 DEF PlaceWithdrawal
<1>6. /\ new \in RowRecord /\ new.status \in {"HELD", "REQUESTED"} /\ new.amount = x.amount
      /\ new.holdUntil > 0 => Held
  <2>1. CASE Held
    BY <1>2, <1>3, <2>1 DEF RowRecord, RowStatus
  <2>2. CASE ~Held
    BY <1>2, <1>3, <2>2 DEF RowRecord, RowStatus
  <2>3. QED
    BY <2>1, <2>2
<1>7. row \in LedgerRow /\ row.ref = w /\ row.amount = -x.amount
  <2>1. -x.amount \in Int /\ x.real + x.bonus - x.amount \in Int
    BY <1>2
  <2>2. QED
    BY <1>4, <2>1 DEF Row, LedgerRow, RowKind
<1>8. PICK r : r = [x EXCEPT !.pc = "placed"] /\ requesting' = [requesting EXCEPT ![w] = r]
  BY <1>1, <1>5 DEF WithdrawalIInv, TypeOK
<1>9. r \in RequestRecord /\ r.pc = "placed"
  BY <1>8 DEF RequestRecord
<1>10. /\ requesting' \in [Requests -> RequestRecord]
       /\ withdrawal' \in [Requests -> RowRecord]
       /\ \A v \in Requests :
            /\ requesting'[v] = IF v = w THEN r ELSE requesting[v]
            /\ withdrawal'[v] = IF v = w THEN new ELSE withdrawal[v]
  BY <1>5, <1>6, <1>8, <1>9 DEF WithdrawalIInv, TypeOK
<1>11. /\ ledger' \in Seq([kind: RowKind, amount: Int, after: Int, ref: Requests])
       /\ Len(ledger') = Len(ledger) + 1 /\ ledger'[Len(ledger) + 1] = row
       /\ \A i \in 1..Len(ledger) : ledger'[i] = ledger[i]
       /\ Len(ledger) \in Nat
       /\ \A i \in 1..Len(ledger) : ledger[i].ref \in Requests /\ ledger[i].amount \in Int
  BY <1>5, <1>7, LedgerGrows, LedgerRows
<1>12. \A i \in 1..Len(ledger) : ledger[i].ref # w
  BY <1>2 DEF WithdrawalIInv, RowInv, NoRow
<1>13. account' \in AccountRecord /\ account'.version = account.version + 1
  <2>1. -x.amount \in Int /\ 0 \in Int
    BY <1>2
  <2>2. QED
    BY <1>2, <1>5, <2>1, MovedAccount
<1>14. TypeOK'
  BY <1>5, <1>10, <1>11, <1>13 DEF WithdrawalIInv, TypeOK
<1>15. ASSUME NEW v \in Requests PROVE RequestOK(v)'
  <2>1. CASE v = w
    BY <1>1, <1>5, <1>6, <1>9, <1>10, <2>1 DEF RequestOK
  <2>2. CASE v # w
    BY <1>5, <1>10, <1>13, <2>2, OldSnapshot DEF WithdrawalIInv
  <2>3. QED
    BY <2>1, <2>2
<1>16. ASSUME NEW c \in Refunders PROVE RefundOK(c)'
  <2>1. CASE refunding[c] = Idle
    BY <1>5, <2>1 DEF RefundOK
  <2>2. CASE refunding[c] # Idle
    <3>1. refunding[c].row \in Requests /\ refunding[c].row # w
      BY <1>2, <2>2, RefundShape DEF NoRow
    <3>2. QED
      BY <1>5, <1>10, <3>1 DEF WithdrawalIInv, RefundOK
  <2>3. QED
    BY <2>1, <2>2
<1>17. LockInv'
  BY <1>5 DEF WithdrawalIInv, LockInv, Holds
<1>18. RowInv'
  <2> SUFFICES ASSUME NEW i \in 1..Len(ledger) + 1
               PROVE  /\ withdrawal'[ledger'[i].ref].status # "NONE"
                      /\ \/ ledger'[i].amount = -withdrawal'[ledger'[i].ref].amount
                         \/ /\ ledger'[i].amount = withdrawal'[ledger'[i].ref].amount
                            /\ withdrawal'[ledger'[i].ref].status \in Refunded
    BY <1>1, <1>5, <1>11 DEF RowInv
  <2>1. CASE i \in 1..Len(ledger)
    BY <1>10, <1>11, <1>12, <2>1 DEF WithdrawalIInv, RowInv
  <2>2. CASE i = Len(ledger) + 1
    BY <1>6, <1>7, <1>10, <1>11, <2>2
  <2>3. QED
    BY <1>11, <2>1, <2>2
<1>19. OneHoldPerUser'
  <2>1. \A v \in Requests : withdrawal[v].status = "NONE" => withdrawal[v].holdUntil = 0
    BY DEF WithdrawalIInv, RequestOK, NoRow
  <2>2. new.holdUntil > 0 => \A v \in Requests : withdrawal[v].holdUntil = 0
    BY <1>6, <2>1 DEF Held, IsFirst
  <2>3. QED
    BY <1>10, <2>2 DEF WithdrawalIInv, OneHoldPerUser
<1>20. DebitedOnceRefundedOnce'
  <2>1. /\ withdrawal'[w].status # "NONE" /\ withdrawal'[w].status \notin Refunded
        /\ withdrawal'[w].amount = x.amount /\ row.amount # x.amount
    BY <1>1, <1>2, <1>6, <1>7, <1>10 DEF Refunded
  <2>2. \A v \in Requests : v # w => withdrawal'[v] = withdrawal[v]
    BY <1>10
  <2>3. QED
    BY <1>1, <1>5, <1>7, <1>12, <2>1, <2>2, RowWritten
<1>21. QED
  BY <1>14, <1>15, <1>16, <1>17, <1>18, <1>19, <1>20 DEF WithdrawalIInv

LEMMA CommitKeeps ==
  ASSUME WithdrawalIInv, NEW c \in Refunders, CommitRefund(c)
  PROVE  WithdrawalIInv'
<1>1. PICK x : /\ x = refunding[c] /\ x # Idle /\ x.pc = "read"
               /\ x.kind \in Refunded /\ x.row \in Requests
               /\ x.amount \in Nat /\ x.real \in Int /\ x.bonus \in Int
               /\ Taken(x.row)
               /\ withdrawal[x.row].status \in Rejectable /\ x.amount = withdrawal[x.row].amount
  BY RefundShape DEF CommitRefund
<1>2. PICK w \in Requests : w = x.row /\ Holds(c, w)
  BY <1>1 DEF Holds
<1>3. /\ withdrawal[w] \in RowRecord /\ account \in AccountRecord /\ Taken(w)
      /\ withdrawal[w].status \in Rejectable /\ x.amount = withdrawal[w].amount /\ x.amount > 0
  <2>1. withdrawal[w].status # "NONE"
    BY <1>1, <1>2 DEF Rejectable
  <2>2. withdrawal[w].amount > 0
    BY <2>1 DEF WithdrawalIInv, RequestOK, NoRow
  <2>3. QED
    BY <1>1, <1>2, <2>2 DEF WithdrawalIInv, TypeOK
<1>4. PICK row : row = Row("WITHDRAWAL", x.amount, x.real + x.bonus + x.amount, w)
  OBVIOUS
<1>5. /\ account' = Moved(account, x.amount, 0)
      /\ withdrawal' = [withdrawal EXCEPT ![w].status = x.kind]
      /\ ledger' = Append(ledger, row)
      /\ refunding' = [refunding EXCEPT ![c] = Idle]
      /\ UNCHANGED <<userStatus, now, user, requesting>>
  BY <1>1, <1>2, <1>4 DEF CommitRefund
<1>6. PICK new : /\ new = [withdrawal[w] EXCEPT !.status = x.kind]
                 /\ withdrawal' = [withdrawal EXCEPT ![w] = new]
  BY <1>5 DEF WithdrawalIInv, TypeOK
<1>7. /\ new \in RowRecord /\ new.status = x.kind /\ new.amount = x.amount
      /\ new.holdUntil = withdrawal[w].holdUntil
  <2>1. PICK y \in RowRecord : y = withdrawal[w]
    BY <1>3
  <2>2. new = [status |-> x.kind, amount |-> y.amount, holdUntil |-> y.holdUntil,
               cancelableUntil |-> y.cancelableUntil]
    BY <1>6, <2>1 DEF RowRecord
  <2>3. QED
    BY <1>1, <1>3, <2>1, <2>2 DEF RowRecord, RowStatus
<1>8. row \in LedgerRow /\ row.ref = w /\ row.amount = x.amount
  <2>1. x.amount \in Int /\ x.real + x.bonus + x.amount \in Int
    BY <1>1
  <2>2. QED
    BY <1>4, <2>1 DEF Row, LedgerRow, RowKind
<1>9. /\ withdrawal' \in [Requests -> RowRecord]
      /\ refunding' \in [Refunders -> RefundRecord]
      /\ \A v \in Requests : withdrawal'[v] = IF v = w THEN new ELSE withdrawal[v]
      /\ \A b \in Refunders : refunding'[b] = IF b = c THEN Idle ELSE refunding[b]
  BY <1>5, <1>6, <1>7 DEF WithdrawalIInv, TypeOK, RefundRecord
<1>10. /\ ledger' \in Seq([kind: RowKind, amount: Int, after: Int, ref: Requests])
       /\ Len(ledger') = Len(ledger) + 1 /\ ledger'[Len(ledger) + 1] = row
       /\ \A i \in 1..Len(ledger) : ledger'[i] = ledger[i]
       /\ Len(ledger) \in Nat
       /\ \A i \in 1..Len(ledger) : ledger[i].ref \in Requests /\ ledger[i].amount \in Int
  BY <1>5, <1>8, LedgerGrows, LedgerRows
<1>11. \A i \in 1..Len(ledger) : ledger[i].ref = w => ledger[i].amount = -x.amount
  BY <1>3 DEF WithdrawalIInv, RowInv, Rejectable, Refunded
<1>12. account' \in AccountRecord /\ account'.version = account.version + 1
  <2>1. x.amount \in Int /\ 0 \in Int
    BY <1>1
  <2>2. QED
    BY <1>3, <1>5, <2>1, MovedAccount
<1>13. new.status \in Refunded /\ new.status # "NONE" /\ withdrawal[w].status # "NONE"
  BY <1>1, <1>3, <1>7 DEF Refunded, Rejectable
<1>14. TypeOK'
  BY <1>5, <1>9, <1>10, <1>12 DEF WithdrawalIInv, TypeOK
<1>15. ASSUME NEW v \in Requests PROVE RequestOK(v)'
  <2>1. \/ withdrawal'[v] = withdrawal[v]
        \/ /\ Taken(v) /\ withdrawal'[v].status # "NONE"
           /\ withdrawal'[v].amount = withdrawal[v].amount
    BY <1>3, <1>7, <1>9, <1>13
  <2>2. QED
    BY <1>5, <1>12, <2>1, OldSnapshot DEF WithdrawalIInv
<1>16. ASSUME NEW b \in Refunders PROVE RefundOK(b)'
  <2>1. CASE b = c \/ refunding[b] = Idle
    BY <1>9, <2>1 DEF RefundOK
  <2>2. CASE b # c /\ refunding[b] # Idle
    <3>1. refunding[b].row \in Requests
      BY <2>2, RefundShape
    <3>2. refunding[b].pc = "read" => refunding[b].row # w
      BY <1>2, <2>2 DEF WithdrawalIInv, LockInv, Holds
    <3>3. QED
      BY <1>3, <1>5, <1>7, <1>9, <1>13, <2>2, <3>1, <3>2 DEF WithdrawalIInv, RefundOK
  <2>3. QED
    BY <2>1, <2>2
<1>17. LockInv'
  BY <1>9 DEF WithdrawalIInv, LockInv, Holds
<1>18. RowInv'
  <2> SUFFICES ASSUME NEW i \in 1..Len(ledger) + 1
               PROVE  /\ withdrawal'[ledger'[i].ref].status # "NONE"
                      /\ \/ ledger'[i].amount = -withdrawal'[ledger'[i].ref].amount
                         \/ /\ ledger'[i].amount = withdrawal'[ledger'[i].ref].amount
                            /\ withdrawal'[ledger'[i].ref].status \in Refunded
    BY <1>3, <1>5, <1>10 DEF RowInv
  <2>1. CASE i \in 1..Len(ledger) /\ ledger[i].ref # w
    <3>1. ledger'[i] = ledger[i] /\ withdrawal'[ledger[i].ref] = withdrawal[ledger[i].ref]
      BY <1>9, <1>10, <2>1
    <3>2. QED
      BY <2>1, <3>1 DEF WithdrawalIInv, RowInv
  <2>2. CASE i \in 1..Len(ledger) /\ ledger[i].ref = w
    <3>1. ledger'[i] = ledger[i] /\ ledger'[i].ref = w /\ ledger'[i].amount = -x.amount
      BY <1>10, <1>11, <2>2
    <3>2. PICK y : y = withdrawal'[ledger'[i].ref]
      OBVIOUS
    <3>3. y.status # "NONE" /\ y.amount = x.amount
      BY <1>7, <1>9, <1>13, <3>1, <3>2
    <3>4. ledger'[i].amount = -y.amount
      BY <3>1, <3>3
    <3>5. QED
      BY <3>2, <3>3, <3>4
  <2>3. CASE i = Len(ledger) + 1
    BY <1>7, <1>8, <1>9, <1>10, <1>13, <2>3
  <2>4. QED
    BY <1>10, <2>1, <2>2, <2>3
<1>19. OneHoldPerUser'
  BY <1>7, <1>9 DEF WithdrawalIInv, OneHoldPerUser
<1>20. DebitedOnceRefundedOnce'
  <2>1. /\ withdrawal'[w].status # "NONE" /\ withdrawal'[w].status \in Refunded
        /\ withdrawal'[w].amount = x.amount
    BY <1>7, <1>9, <1>13
  <2>2. \A v \in Requests : v # w => withdrawal'[v] = withdrawal[v]
    BY <1>9
  <2>3. PICK i \in 1..Len(ledger) : ledger[i].ref = w /\ ledger[i].amount = -x.amount
    BY <1>3, <1>13 DEF WithdrawalIInv, DebitedOnceRefundedOnce
  <2>4. \A j \in 1..Len(ledger) :
          ledger[j].ref = w => ledger[j].amount < 0 /\ ledger[j].amount # x.amount
    BY <1>1, <1>3, <1>11
  <2>5. ~(row.amount < 0)
    BY <1>1, <1>3, <1>8
  <2>6. QED
    BY <1>3, <1>5, <1>8, <2>1, <2>2, <2>3, <2>4, <2>5, RowWritten
<1>21. QED
  BY <1>14, <1>15, <1>16, <1>17, <1>18, <1>19, <1>20 DEF WithdrawalIInv

(* The row of an affiliate comes where no money has moved and none is on    *)
(* the way.                                                                 *)
LEMMA ShowKeeps ==
  ASSUME WithdrawalIInv, NEW w \in Requests, ShowWithdrawal(w)
  PROVE  WithdrawalIInv'
<1>1. PICK x \in RequestRecord :
        x = requesting[w] /\ x.pc = "show" /\ x.amount > 0 /\ IsAffiliate
  BY DEF ShowWithdrawal, WithdrawalIInv, TypeOK, RequestOK
<1>2. PICK new : /\ new = [status |-> "REQUESTED", amount |-> x.amount,
                          holdUntil |-> 0, cancelableUntil |-> 0]
                 /\ withdrawal' = [withdrawal EXCEPT ![w] = new]
  BY <1>1 DEF ShowWithdrawal
<1>3. new \in RowRecord
  BY <1>1, <1>2 DEF RequestRecord, RowRecord, RowStatus
<1>4. PICK r : r = [x EXCEPT !.pc = "placed"] /\ requesting' = [requesting EXCEPT ![w] = r]
  BY <1>1 DEF ShowWithdrawal, WithdrawalIInv, TypeOK
<1>5. r \in RequestRecord /\ r.pc = "placed"
  BY <1>4 DEF RequestRecord
<1>6. /\ requesting' \in [Requests -> RequestRecord]
      /\ withdrawal' \in [Requests -> RowRecord]
      /\ \A v \in Requests :
           /\ requesting'[v] = IF v = w THEN r ELSE requesting[v]
           /\ withdrawal'[v] = IF v = w THEN new ELSE withdrawal[v]
  BY <1>2, <1>3, <1>4, <1>5 DEF WithdrawalIInv, TypeOK
<1>7. UNCHANGED <<account, ledger, userStatus, now, user, refunding>>
  BY DEF ShowWithdrawal
<1>8. TypeOK'
  BY <1>6, <1>7 DEF WithdrawalIInv, TypeOK
<1>9. ASSUME NEW v \in Requests PROVE RequestOK(v)'
  <2>1. CASE v = w
    BY <1>1, <1>2, <1>5, <1>6, <1>7, <2>1 DEF RequestOK
  <2>2. CASE v # w
    <3>1. requesting'[v] = requesting[v] /\ withdrawal'[v] = withdrawal[v]
      BY <1>6, <2>2
    <3>2. QED
      BY <1>7, <3>1 DEF WithdrawalIInv, RequestOK
  <2>3. QED
    BY <2>1, <2>2
<1>10. \A c \in Refunders : refunding[c] = Idle
  BY <1>1 DEF WithdrawalIInv, RefundOK
<1>11. (\A c \in Refunders : RefundOK(c)') /\ LockInv'
  BY <1>7, <1>10 DEF RefundOK, LockInv, Holds
<1>12. \A i \in 1..Len(ledger) : FALSE
  BY <1>1 DEF WithdrawalIInv, RowInv
<1>13. RowInv'
  BY <1>7, <1>12 DEF RowInv
<1>14. OneHoldPerUser'
  BY <1>2, <1>6 DEF WithdrawalIInv, OneHoldPerUser
<1>15. DebitedOnceRefundedOnce'
  <2>1. \A v \in Requests : ~Taken(v)' /\ withdrawal'[v].status \notin Refunded
    BY <1>1, <1>7, <1>9 DEF RequestOK, Refunded
  <2>2. QED
    BY <1>7, <1>12, <2>1 DEF DebitedOnceRefundedOnce
<1>16. QED
  BY <1>8, <1>9, <1>11, <1>13, <1>14, <1>15 DEF WithdrawalIInv

LEMMA NextWithdrawalIInv == WithdrawalIInv /\ [Next]_vars => WithdrawalIInv'
<1> SUFFICES ASSUME WithdrawalIInv, [Next]_vars PROVE WithdrawalIInv'
  OBVIOUS
<1>1. ASSUME NEW w \in Requests, RequestStep(w) PROVE WithdrawalIInv'
  BY <1>1, ShowKeeps, ReadKeeps, PlaceKeeps, ConflictKeeps DEF RequestStep
<1>2. ASSUME NEW w \in Requests, ReviewStep(w) PROVE WithdrawalIInv'
  BY <1>2, ReviewKeeps
<1>3. ASSUME NEW w \in Requests, NEW amount \in Amounts, Request(w, amount)
      PROVE  WithdrawalIInv'
  BY <1>3, RequestKeeps
<1>4. ASSUME NEW c \in Refunders, RefundStep(c) PROVE WithdrawalIInv'
  BY <1>4, ClaimKeeps, CommitKeeps, RefundConflictKeeps DEF RefundStep
<1>5. ASSUME NEW c \in Refunders, NEW kind \in Refunded, NEW w \in Requests,
             BeginRefund(c, kind, w)
      PROVE  WithdrawalIInv'
  BY <1>5, BeginRefundKeeps
<1>6. CASE AutoPromote
  BY <1>6, PromoteKeeps
<1>7. CASE UNCHANGED <<account, ledger, user, requesting, withdrawal, refunding>> /\ TypeOK'
  <2>1. (\A w \in Requests : RequestOK(w)') /\ (\A c \in Refunders : RefundOK(c)') /\ LockInv'
    BY <1>7 DEF WithdrawalIInv, RequestOK, RefundOK, LockInv, Holds
  <2>2. QED
    BY <1>7, <2>1, MoneyStandsStill
<1>8. CASE Tick
  <2>1. TypeOK'
    BY <1>8 DEF Tick, WithdrawalIInv, TypeOK
  <2>2. QED
    BY <1>7, <1>8, <2>1 DEF Tick
<1>9. ASSUME NEW st \in UserStatus, SetUserStatus(st), UNCHANGED withdrawalVars
      PROVE  WithdrawalIInv'
  <2>1. TypeOK'
    BY <1>9 DEF SetUserStatus, withdrawalVars, WithdrawalIInv, TypeOK
  <2>2. QED
    BY <1>7, <1>9, <2>1 DEF SetUserStatus, withdrawalVars
<1>10. CASE UNCHANGED vars
  <2>1. TypeOK'
    BY <1>10 DEF vars, WithdrawalIInv, TypeOK
  <2>2. QED
    BY <1>7, <1>10, <2>1 DEF vars
<1>11. QED
  BY <1>1, <1>2, <1>3, <1>4, <1>5, <1>6, <1>8, <1>9, <1>10 DEF Next, WithdrawalNext

LEMMA SpecWithdrawalIInv == Spec => []WithdrawalIInv
<1>1. QED
  BY InitWithdrawalIInv, NextWithdrawalIInv, PTL DEF Spec

(* The money of a withdrawal leaves the account once and comes back at most *)
(* once, and only if the row says cancelled or rejected, whatever the race  *)
(* between the user, the administrators and the promotion.                  *)
THEOREM DebitedAndRefundedOnce == Spec => []DebitedOnceRefundedOnce
<1>1. WithdrawalIInv => DebitedOnceRefundedOnce
  BY DEF WithdrawalIInv
<1>2. QED
  BY <1>1, SpecWithdrawalIInv, PTL

(* However many first withdrawals race, one of them at most is held: the    *)
(* count of rows is read under the lock that the debit takes.               *)
THEOREM HeldAtMostOnce == Spec => []OneHoldPerUser
<1>1. WithdrawalIInv => OneHoldPerUser
  BY DEF WithdrawalIInv
<1>2. QED
  BY <1>1, SpecWithdrawalIInv, PTL

----------------------------------------------------------------------------
(* Refinement: a placed request holds the escrow, a refund and a payment    *)
(* release it, everything else leaves it alone.                             *)

LEMMA NothingClaimed ==
  ASSUME NEW w \in Requests, ~Taken(w)
  PROVE  WithdrawalClaim(w) = Promise!NoClaim
  BY DEF WithdrawalClaim, Promise!NoClaim

LEMMA WhatIsClaimed ==
  ASSUME NEW w \in Requests, Taken(w)
  PROVE  WithdrawalClaim(w) =
           [phase  |-> IF withdrawal[w].status \in Refunded \cup {"PAID"}
                       THEN "released" ELSE "held",
            amount |-> withdrawal[w].amount]
<1>1. CASE withdrawal[w].status \in Refunded \cup {"PAID"}
  BY <1>1 DEF WithdrawalClaim
<1>2. CASE withdrawal[w].status \notin Refunded \cup {"PAID"}
  BY <1>2 DEF WithdrawalClaim
<1>3. QED
  BY <1>1, <1>2

LEMMA PlaceHolds ==
  ASSUME WithdrawalIInv, NEW w \in Requests, PlaceWithdrawal(w)
  PROVE  Promise!Next
<1>1. PICK x \in RequestRecord :
        /\ x = requesting[w] /\ x.pc = "read" /\ x.version = account.version
        /\ x.amount > 0 /\ x.amount <= x.real /\ x.real = account.real /\ ~IsAffiliate
  BY DEF PlaceWithdrawal, WithdrawalIInv, TypeOK, RequestOK
<1>2. /\ x.amount \in Nat /\ x.real \in Int /\ account \in AccountRecord
      /\ withdrawal[w] = NoRow /\ withdrawal \in [Requests -> RowRecord]
  BY <1>1 DEF WithdrawalIInv, TypeOK, RequestOK, RequestRecord
<1>3. PICK new : /\ new = [status |-> IF Held THEN "HELD" ELSE "REQUESTED",
                           amount |-> x.amount,
                           holdUntil |-> IF Held THEN now + HoldTime ELSE 0,
                           cancelableUntil |-> IF Held THEN now + CancelWindow ELSE 0]
                 /\ withdrawal' = [withdrawal EXCEPT ![w] = new]
                 /\ account' = Moved(account, -x.amount, 0) /\ user' = user
  BY <1>1 DEF PlaceWithdrawal
<1>4. account'.real = account.real - x.amount
  <2>1. -x.amount \in Int /\ 0 \in Int
    BY <1>2
  <2>2. account'.real = account.real + (-x.amount)
    BY <1>2, <1>3, <2>1, MovedAccount
  <2>3. QED
    BY <1>2, <2>2 DEF AccountRecord
<1>5. WithdrawalClaim(w).phase = "none"
  BY <1>2, NothingClaimed DEF NoRow, Promise!NoClaim
<1>6. \A v \in Requests : WithdrawalClaim(v)' =
        IF v = w THEN [phase |-> "held", amount |-> x.amount] ELSE WithdrawalClaim(v)
  <2>1. \A v \in Requests \ {w} : withdrawal'[v] = withdrawal[v]
    BY <1>2, <1>3
  <2>2. withdrawal'[w].status \in {"HELD", "REQUESTED"} /\ withdrawal'[w].amount = x.amount
    BY <1>2, <1>3
  <2>3. WithdrawalClaim(w)' = [phase |-> "held", amount |-> x.amount]
    BY <1>1, <1>3, <2>2 DEF WithdrawalClaim, Refunded
  <2>4. \A v \in Requests \ {w} : WithdrawalClaim(v)' = WithdrawalClaim(v)
    BY <1>3, <2>1 DEF WithdrawalClaim
  <2>5. QED
    BY <2>3, <2>4
<1>7. Promise!Hold(w, x.amount)
  BY <1>4, <1>5, <1>6 DEF Promise!Hold
<1>8. x.amount \in 1..account.real
  BY <1>1, <1>2
<1>9. QED
  BY <1>7, <1>8 DEF Promise!Next

(* A row that goes from held to released, with its amount or without. *)
LEMMA RowReleases ==
  ASSUME WithdrawalIInv, NEW w \in Requests, NEW status \in Refunded \cup {"PAID"},
         NEW credit \in {0, withdrawal[w].amount},
         withdrawal[w].status \in Rejectable, Taken(w), user' = user,
         withdrawal' = [withdrawal EXCEPT ![w].status = status],
         account'.real = account.real + credit
  PROVE  Promise!Next
<1>1. withdrawal \in [Requests -> RowRecord]
  BY DEF WithdrawalIInv, TypeOK
<1>2. WithdrawalClaim(w) = [phase |-> "held", amount |-> withdrawal[w].amount]
  BY WhatIsClaimed DEF Rejectable, Refunded
<1>3. /\ \A v \in Requests \ {w} : withdrawal'[v] = withdrawal[v]
      /\ withdrawal'[w].status = status /\ withdrawal'[w].amount = withdrawal[w].amount
  BY <1>1 DEF RowRecord
<1>4. WithdrawalClaim(w)' = [phase |-> "released", amount |-> withdrawal[w].amount]
  BY <1>3 DEF WithdrawalClaim, Refunded
<1>5. [WithdrawalClaim(w) EXCEPT !.phase = "released"]
        = [phase |-> "released", amount |-> withdrawal[w].amount]
  BY <1>2
<1>6. \A v \in Requests : WithdrawalClaim(v)' =
        IF v = w THEN [WithdrawalClaim(w) EXCEPT !.phase = "released"] ELSE WithdrawalClaim(v)
  BY <1>3, <1>4, <1>5 DEF WithdrawalClaim
<1>7. Promise!Release(w, credit)
  <2>1. WithdrawalClaim(w).phase = "held"
    BY <1>2
  <2>2. QED
    BY <1>6, <2>1 DEF Promise!Release
<1>8. WithdrawalClaim(w).amount = withdrawal[w].amount
  BY <1>2
<1>9. QED
  BY <1>7, <1>8 DEF Promise!Next, AllOrNothing

LEMMA CommitReleases ==
  ASSUME WithdrawalIInv, NEW c \in Refunders, CommitRefund(c)
  PROVE  Promise!Next
<1>1. PICK x : /\ x = refunding[c] /\ x # Idle /\ x.pc = "read"
               /\ x.kind \in Refunded /\ x.row \in Requests /\ x.amount \in Nat
               /\ Taken(x.row)
               /\ withdrawal[x.row].status \in Rejectable /\ x.amount = withdrawal[x.row].amount
  BY RefundShape DEF CommitRefund
<1>2. /\ account' = Moved(account, x.amount, 0)
      /\ withdrawal' = [withdrawal EXCEPT ![x.row].status = x.kind] /\ user' = user
  BY <1>1 DEF CommitRefund
<1>3. account'.real = account.real + x.amount
  <2>1. account \in AccountRecord /\ x.amount \in Int /\ 0 \in Int
    BY <1>1 DEF WithdrawalIInv, TypeOK
  <2>2. QED
    BY <1>2, <2>1, MovedAccount
<1>4. QED
  BY <1>1, <1>2, <1>3, RowReleases

LEMMA PaidReleases ==
  ASSUME WithdrawalIInv, NEW w \in Requests, MarkPaid(w), ~IsAffiliate
  PROVE  Promise!Next
<1>1. /\ withdrawal[w].status \in Rejectable
      /\ withdrawal' = [withdrawal EXCEPT ![w].status = "PAID"]
      /\ UNCHANGED <<account, user>> /\ Taken(w)
  BY DEF MarkPaid, SetRowStatus, Rejectable
<1>2. account'.real = account.real + 0
  BY <1>1 DEF WithdrawalIInv, TypeOK, AccountRecord
<1>3. QED
  BY <1>1, <1>2, RowReleases

(* A move between the statuses an administrator can still reject, or of the *)
(* rows of an affiliate.                                                    *)
LEMMA SameClaims ==
  ASSUME UNCHANGED <<account, user>>,
         \/ UNCHANGED withdrawal
         \/ \A w \in Requests :
              \/ withdrawal'[w] = withdrawal[w]
              \/ /\ {withdrawal[w].status, withdrawal'[w].status} \subseteq Rejectable
                 /\ withdrawal'[w].amount = withdrawal[w].amount
              \/ IsAffiliate
  PROVE  UNCHANGED Promise!escrowVars
<1>1. \A w \in Requests : WithdrawalClaim(w)' = WithdrawalClaim(w)
  BY DEF WithdrawalClaim, Rejectable, Refunded
<1>2. QED
  BY <1>1 DEF Promise!escrowVars

LEMMA ReviewLeavesClaims ==
  ASSUME WithdrawalIInv, NEW w \in Requests, ReleaseHeld(w) \/ Approve(w)
  PROVE  UNCHANGED Promise!escrowVars
<1>1. PICK from, to \in Rejectable : SetRowStatus(w, from, to)
  BY DEF ReleaseHeld, Approve, Rejectable
<1>2. \A v \in Requests :
        \/ withdrawal'[v] = withdrawal[v]
        \/ /\ {withdrawal[v].status, withdrawal'[v].status} \subseteq Rejectable
           /\ withdrawal'[v].amount = withdrawal[v].amount
  BY <1>1 DEF SetRowStatus, WithdrawalIInv, TypeOK, RowRecord
<1>3. QED
  BY <1>1, <1>2, SameClaims DEF SetRowStatus

LEMMA PromoteLeavesClaims ==
  ASSUME WithdrawalIInv, AutoPromote
  PROVE  UNCHANGED Promise!escrowVars
<1>1. ASSUME NEW v \in Requests
      PROVE  \/ withdrawal'[v] = withdrawal[v]
             \/ /\ {withdrawal[v].status, withdrawal'[v].status} \subseteq Rejectable
                /\ withdrawal'[v].amount = withdrawal[v].amount
  <2>1. withdrawal[v] \in RowRecord
    BY DEF WithdrawalIInv, TypeOK
  <2>2. QED
    BY <2>1 DEF AutoPromote, HoldIsOver, Rejectable, RowRecord
<1>2. QED
  BY <1>1, SameClaims DEF AutoPromote

(* For every number of requests and refund calls, withdrawals keep the      *)
(* promise of Escrow: the amount is taken out of real money that is there,  *)
(* and comes back whole or not at all, once.                                *)
THEOREM WithdrawalsRefineEscrow == Spec => WithdrawalsImplementEscrow
<1>1. ASSUME Init PROVE Promise!Init
  <2>1. account.real \in Nat
    BY <1>1, OpeningAssumption DEF Init, AccountInit
  <2>2. \A w \in Requests : ~Taken(w)
    BY <1>1 DEF Init, WithdrawalInit, NoRow
  <2>3. QED
    BY <2>1, <2>2, NothingClaimed DEF Promise!Init
<1>2. WithdrawalIInv /\ [Next]_vars => [Promise!Next]_(Promise!escrowVars)
  <2> SUFFICES ASSUME WithdrawalIInv, [Next]_vars
               PROVE  [Promise!Next]_(Promise!escrowVars)
    OBVIOUS
  <2>1. ASSUME NEW w \in Requests, RequestStep(w) \/ ReviewStep(w)
        PROVE  Promise!Next \/ UNCHANGED Promise!escrowVars
    <3>1. CASE ReadBalance(w) \/ PlaceConflict(w)
      BY <3>1, SameClaims DEF ReadBalance, PlaceConflict
    <3>2. CASE ShowWithdrawal(w)
      <4>1. IsAffiliate
        BY <3>2 DEF ShowWithdrawal, WithdrawalIInv, RequestOK
      <4>2. QED
        BY <3>2, <4>1, SameClaims DEF ShowWithdrawal
    <3>3. QED
      BY <2>1, <3>1, <3>2, PlaceHolds, PaidReleases, ReviewLeavesClaims
         DEF RequestStep, ReviewStep, Listed
  <2>2. ASSUME NEW c \in Refunders, RefundStep(c)
        PROVE  Promise!Next \/ UNCHANGED Promise!escrowVars
    <3>1. CASE ClaimRow(c) \/ RefundConflict(c)
      BY <3>1, SameClaims DEF ClaimRow, RefundConflict
    <3>2. QED
      BY <2>2, <3>1, CommitReleases DEF RefundStep
  <2>3. CASE UNCHANGED <<account, user, withdrawal>>
    BY <2>3, SameClaims
  <2>4. \/ \E w \in Requests : RequestStep(w) \/ ReviewStep(w)
        \/ \E c \in Refunders : RefundStep(c)
        \/ AutoPromote
        \/ UNCHANGED <<account, user, withdrawal>>
    BY DEF Next, WithdrawalNext, Request, BeginRefund, Tick, SetUserStatus, withdrawalVars, vars
  <2>5. QED
    BY <2>1, <2>2, <2>3, <2>4, PromoteLeavesClaims
<1>3. QED
  BY <1>1, <1>2, SpecWithdrawalIInv, PTL DEF Spec, WithdrawalsImplementEscrow, Promise!Spec
=============================================================================
