------------------------------- MODULE Slots -------------------------------
(***************************************************************************)
(* Time-slot USDT deposits: how users get to pay the amount they like to   *)
(* an address they share with others, and how a payment finds its deposit. *)
(* packages/db/src/repositories/deposit.ts (createUsdtSlotDepositIntent)   *)
(* and chain-credit-matcher.ts.                                            *)
(*                                                                         *)
(* A deposit holds its receiving address alone for its window; a payment   *)
(* belongs to the slot whose window covers its block timestamp, whenever   *)
(* the watcher gets to it.  What the payer meant is not on the chain: it   *)
(* is kept here as asked, which no action of the program reads.            *)
(***************************************************************************)
EXTENDS Integers, FiniteSets, Functions

CONSTANTS
  Users,
  Named,        \* users who name the wallet they pay from
  Affiliates,   \* users of the role AFFILIATE, whom nothing is credited to
  Deposits,     \* Deposit rows, numbered in the order they are written
  Payments,     \* ChainCredit rows of one transfer each, numbered likewise
  Addresses,    \* USDT_RECEIVING_ADDRESSES, in configured order
  Amounts,      \* amounts users ask to deposit
  Strays,       \* amounts of transfers nobody was asked for
  MaxDeposit,   \* MAX_DEPOSIT_USDT_MINOR
  Ttl,          \* USDT_DEPOSIT_TTL_MINUTES
  Gap,          \* USDT_SLOT_GAP_MS
  Quarantine,   \* USDT_RESERVATION_QUARANTINE_MS
  MaxClock,     \* bound on the clock
  MaxMeddling,  \* bound on claims of a reference and rejections
  Nobody, NoDeposit, NoAddress

ASSUME SlotAssumption ==
  /\ Nobody \notin Users /\ NoDeposit \notin Deposits /\ NoAddress \notin Range(Addresses)
  /\ Named \subseteq Users /\ Affiliates \subseteq Users /\ Deposits \subseteq Nat /\ Payments \subseteq Nat
  /\ IsFiniteSet(Deposits)
  /\ MaxDeposit \in Nat /\ Amounts \subseteq 1..MaxDeposit /\ Strays \subseteq Nat
  /\ Ttl \in Nat \ {0} /\ Gap \in Nat \ {0} /\ Quarantine \in Nat

VARIABLES
  clock,
  deposit,      \* deposit[d]: the Deposit row
  payment,      \* payment[p]: the ChainCredit row, and what its payer meant
  request,      \* request[u]: what the user's request has read under the advisory lock
  deciding,     \* what the watcher is about to credit: <<p, d>>, or Nothing
  meddling      \* claims and rejections so far

slotVars == <<clock, deposit, payment, request, deciding, meddling>>

None    == [user |-> Nobody, status |-> "NONE", address |-> NoAddress, amount |-> 0,
            sender |-> Nobody, created |-> 0, expires |-> 0]
Unpaid  == [status |-> "NONE", at |-> 0, address |-> NoAddress, amount |-> 0,
            from |-> Nobody, to |-> NoDeposit, asked |-> NoDeposit]
NoRequest == [at |-> 0, address |-> NoAddress, own |-> {}]
Nothing == <<>>
Live    == {"AWAITING_PAYMENT", "PENDING_CONFIRMATION"}

SlotInit ==
  /\ clock = 0
  /\ deposit = [d \in Deposits |-> None]
  /\ payment = [p \in Payments |-> Unpaid]
  /\ request = [u \in Users |-> NoRequest]
  /\ deciding = Nothing
  /\ meddling = 0

----------------------------------------------------------------------------
(* createUsdtSlotDepositIntent: one transaction under an advisory lock. *)

MutNoGap(d, time) == deposit[d].status \notin {"NONE", "COMPLETED"} /\ deposit[d].expires > time
(* A slot that is not credited holds its address until Gap after its end. *)
Holds(d, time) ==
  deposit[d].status \notin {"NONE", "COMPLETED"} /\ deposit[d].expires > time - Gap

Others(u, time) ==
  {deposit[d].address : d \in {d \in Deposits : Holds(d, time) /\ deposit[d].user # u}}

(* The user's own open slots, closed when the next one opens. *)
Own(u, time) ==
  {d \in Deposits : /\ Holds(d, time) /\ deposit[d].user = u
                    /\ deposit[d].status = "AWAITING_PAYMENT" /\ deposit[d].expires > time}

(* The addresses the user may get: an own one first, else the first one     *)
(* nobody else holds.                                                       *)
Available(u, time) ==
  LET own  == {deposit[d].address : d \in Own(u, time)} \ Others(u, time)
      open == {i \in DOMAIN Addresses : Addresses[i] \notin Others(u, time)}
  IN IF own # {} THEN own
     ELSE {Addresses[i] : i \in {i \in open : \A j \in open : i <= j}}

MutNoLock == TRUE
LockFree == \A u \in Users : request[u] = NoRequest

NextRow(rows) == CHOOSE i \in rows : \A j \in rows : i <= j

Unused == {d \in Deposits : deposit[d] = None}

(* The lock is taken and the slots are read; without an address the request *)
(* fails with UsdtSlotBusy and leaves nothing behind.                       *)
Allocate(u) ==
  /\ LockFree
  /\ Unused # {}
  /\ \E a \in Available(u, clock) :
       request' = [request EXCEPT ![u] = [at |-> clock, address |-> a, own |-> Own(u, clock)]]
  /\ UNCHANGED <<clock, deposit, payment, deciding, meddling>>

(* The user's own slots are closed, the new one is written, the lock goes. *)
OpenSlot(u, amount) ==
  LET r == request[u]
  IN /\ r # NoRequest /\ Unused # {}
     /\ deposit' =
          [e \in Deposits |->
             IF e = NextRow(Unused)
             THEN [user |-> u, status |-> "AWAITING_PAYMENT", address |-> r.address,
                   amount |-> amount, sender |-> IF u \in Named THEN u ELSE Nobody,
                   created |-> r.at + 1, expires |-> r.at + Ttl]
             ELSE IF e \in r.own THEN [deposit[e] EXCEPT !.expires = r.at]
             ELSE deposit[e]]
     /\ request' = [request EXCEPT ![u] = NoRequest]
     /\ UNCHANGED <<clock, payment, deciding, meddling>>

(* claimUtr asks for no method: a slot, too, goes to PENDING_CONFIRMATION. *)
ClaimUtr(d) ==
  /\ meddling < MaxMeddling /\ meddling' = meddling + 1
  /\ deposit[d].status = "AWAITING_PAYMENT"
  /\ deposit' = [deposit EXCEPT ![d].status = "PENDING_CONFIRMATION"]
  /\ UNCHANGED <<clock, payment, request, deciding>>

(* rejectDeposit, by an administrator. *)
Reject(d) ==
  /\ meddling < MaxMeddling /\ meddling' = meddling + 1
  /\ deposit[d].status \in Live
  /\ deposit' = [deposit EXCEPT ![d].status = "REJECTED"]
  /\ UNCHANGED <<clock, payment, request, deciding>>

(* expireStaleUsdtDeposits, in the tick of a watcher. *)
Expire ==
  LET stale == {d \in Deposits : /\ deposit[d].status = "AWAITING_PAYMENT"
                                 /\ deposit[d].expires < clock - Quarantine}
  IN /\ stale # {}
     /\ deposit' = [d \in Deposits |->
          IF d \in stale THEN [deposit[d] EXCEPT !.status = "EXPIRED"] ELSE deposit[d]]
     /\ UNCHANGED <<clock, payment, request, deciding, meddling>>

----------------------------------------------------------------------------
(* The chain.  A payment is a final credit that waits for the matcher. *)

Unsent == {p \in Payments : payment[p] = Unpaid}

Arrives(p, address, amount, from, asked) ==
  /\ p = NextRow(Unsent)
  /\ payment' = [payment EXCEPT ![p] =
       [status |-> "PENDING", at |-> clock, address |-> address, amount |-> amount,
        from |-> from, to |-> NoDeposit, asked |-> asked]]
  /\ UNCHANGED <<clock, deposit, request, deciding, meddling>>

(* A user pays as the checkout page asks, in time or a little late, once or *)
(* twice: any amount from the wallet they named, the amount they entered    *)
(* from another one.                                                        *)
Pay(p, d) ==
  /\ Unsent # {}
  /\ deposit[d].status \in Live
  /\ deposit[d].created <= clock /\ clock < deposit[d].expires + Gap
  /\ IF deposit[d].sender = Nobody
     THEN Arrives(p, deposit[d].address, deposit[d].amount, Nobody, d)
     ELSE \E n \in Strays : Arrives(p, deposit[d].address, n, deposit[d].sender, d)

(* Somebody sends something else to an address. *)
Stray(p) ==
  /\ Unsent # {}
  /\ \E a \in Range(Addresses), n \in Strays : Arrives(p, a, n, Nobody, NoDeposit)

----------------------------------------------------------------------------
(* matchSlotDeposit and matchChainCreditToDeposit. *)

Tolerance == 3
Distance(a, b) == IF a < b THEN b - a ELSE a - b
Within(received, requested) == Distance(received, requested) * 100 <= requested * Tolerance

MutByArrival(d, p) ==
  /\ deposit[d].status \in Live /\ deposit[d].address = payment[p].address
  /\ deposit[d].created <= payment[p].at /\ clock < deposit[d].expires
(* The slot holds the address at the block timestamp of the payment.  The   *)
(* slots of affiliates are not looked at.                                   *)
Covers(d, p) ==
  /\ deposit[d].user \notin Affiliates
  /\ deposit[d].status \in Live /\ deposit[d].address = payment[p].address
  /\ deposit[d].created <= payment[p].at /\ payment[p].at < deposit[d].expires

Creditable == 1..MaxDeposit

Acceptable(d, p) ==
  /\ payment[p].amount \in Creditable
  /\ \/ deposit[d].sender # Nobody /\ deposit[d].sender = payment[p].from
     \/ Within(payment[p].amount, deposit[d].amount)

SlotsOf(p) == {d \in Deposits : Covers(d, p)}

(* The payment goes to the administrators' queues: without a slot to the    *)
(* unmatched, with two slots or an amount that is wrong or above the        *)
(* maximum to manual review.                                                *)
Leave(p) ==
  /\ deciding = Nothing /\ payment[p].status = "PENDING"
  /\ \/ Cardinality(SlotsOf(p)) # 1
     \/ \E d \in SlotsOf(p) : ~Acceptable(d, p)
  /\ payment' = [payment EXCEPT ![p].status =
                   IF SlotsOf(p) = {} THEN "UNMATCHED" ELSE "MANUAL_REVIEW"]
  /\ UNCHANGED <<clock, deposit, request, deciding, meddling>>

(* The matcher has found the slot, and goes on to credit it. *)
Decide(p, d) ==
  /\ payment[p].status = "PENDING" /\ SlotsOf(p) = {d} /\ Acceptable(d, p)
  /\ deciding = Nothing /\ deciding' = <<p, d>>
  /\ UNCHANGED <<clock, deposit, payment, request, meddling>>

(* creditDepositToAccount: if another call resolved either row in between,  *)
(* nothing is written and the payment is matched anew on the next tick.     *)
Credit(p, d) ==
  /\ deciding = <<p, d>> /\ deciding' = Nothing
  /\ IF deposit[d].status \in Live /\ payment[p].status = "PENDING"
     THEN /\ deposit' = [deposit EXCEPT ![d].status = "COMPLETED"]
          /\ payment' = [payment EXCEPT ![p].status = "MATCHED", ![p].to = d]
     ELSE UNCHANGED <<deposit, payment>>
  /\ UNCHANGED <<clock, request, meddling>>

TimePasses ==
  /\ clock < MaxClock
  /\ clock' = clock + 1
  /\ UNCHANGED <<deposit, payment, request, deciding, meddling>>

----------------------------------------------------------------------------
Match(p) == Leave(p) \/ \E d \in Deposits : Decide(p, d)

SlotNext ==
  \/ TimePasses \/ Expire
  \/ \E u \in Users : Allocate(u) \/ \E n \in Amounts : OpenSlot(u, n)
  \/ \E d \in Deposits :
       ClaimUtr(d) \/ Reject(d)
  \/ \E p \in Payments :
       \/ Stray(p) \/ Match(p)
       \/ \E d \in Deposits : Pay(p, d) \/ Credit(p, d)

SlotSpec == SlotInit /\ [][SlotNext]_slotVars

----------------------------------------------------------------------------
(* Properties. *)

SlotTypeOK ==
  /\ clock \in 0..MaxClock
  /\ \A d \in Deposits : /\ deposit[d].user \in Users \cup {Nobody}
                         /\ deposit[d].address \in Range(Addresses) \cup {NoAddress}
                         /\ deposit[d].status \in Live \cup {"NONE", "COMPLETED", "REJECTED", "EXPIRED"}
  /\ \A p \in Payments : /\ payment[p].to \in Deposits \cup {NoDeposit}
                         /\ payment[p].status \in {"NONE", "PENDING", "MATCHED", "UNMATCHED", "MANUAL_REVIEW"}
  /\ deciding \in {Nothing} \cup (Payments \X Deposits)

(* A payment a user was asked for, in time or up to Gap late, is never      *)
(* credited to another user, whatever was opened, closed, rejected or       *)
(* credited before the watcher got to it (deposit.ts, USDT_SLOT_GAP_MS).    *)
CreditedToItsPayer ==
  \A p \in Payments :
    payment[p].to # NoDeposit /\ payment[p].asked # NoDeposit =>
      deposit[payment[p].to].user = deposit[payment[p].asked].user

(* No instant of an address belongs to live slots of two users, nor do Gap  *)
(* instants after a slot that ended unpaid (deposit.ts,                     *)
(* createUsdtSlotDepositIntent).                                            *)
OneUserPerAddress ==
  \A d, e \in Deposits :
    /\ deposit[d].status \in Live /\ deposit[e].status \in Live
    /\ deposit[d].address = deposit[e].address
    /\ deposit[d].user # deposit[e].user
    => \/ deposit[d].expires + Gap < deposit[e].created
       \/ deposit[e].expires + Gap < deposit[d].created

(* A user who opened a second slot while the first was in                   *)
(* PENDING_CONFIRMATION, which does not close it, has two slots at once:    *)
(* see the README.                                                          *)
OpenedDuring(e, d) ==
  deposit[d].created <= deposit[e].created /\ deposit[e].created < deposit[d].expires
Twice(d) ==
  \E e \in Deposits \ {d} :
    /\ deposit[e].user = deposit[d].user /\ deposit[e].address = deposit[d].address
    /\ OpenedDuring(e, d) \/ OpenedDuring(d, e)

(* A payment sent in time for a slot is not left to the administrators,     *)
(* also when the user has closed the slot since, unless the user is an      *)
(* affiliate, the amount is above the maximum, the slot ended another way,  *)
(* paid by its user otherwise, rejected or expired, or the user has two at  *)
(* once (deposit.ts, "a payment already sent inside its window is still     *)
(* credited to it").                                                        *)
PaidInTimeIsCredited ==
  \A p \in Payments : LET d == payment[p].asked IN
    payment[p].status \in {"UNMATCHED", "MANUAL_REVIEW"} /\ d # NoDeposit =>
      \/ payment[p].at >= deposit[d].expires
      \/ payment[p].amount \notin Creditable \/ deposit[d].user \in Affiliates
      \/ deposit[d].status \in {"REJECTED", "EXPIRED"} \/ Twice(d)
      \/ \E q \in Payments \ {p} : payment[q].to = d /\ payment[q].asked # NoDeposit
=============================================================================
