------------------------------ MODULE Trades ------------------------------
(***************************************************************************)
(* Fixed-time trades against one account: openTrade, settleTrade and       *)
(* voidTrade of packages/db/src/repositories/trade.ts, run concurrently.   *)
(*                                                                         *)
(* An order is one call of openTrade.  A settler is a caller of settleTrade *)
(* or voidTrade (the settlement worker, the recovery pass, a second        *)
(* engine); it loads an open trade and then, in the same transaction,      *)
(* claims and credits it.  Nothing but the claim keeps two settlers of one *)
(* trade apart.                                                            *)
(***************************************************************************)
EXTENDS AccountRow

CONSTANTS
  Orders,        \* calls of openTrade, each the would-be owner of one Trade row
  Settlers,      \* concurrent callers of settleTrade and voidTrade
  Stakes,        \* stakes a client may ask for, in minor units
  PayoutPct,     \* payout percentage snapshotted on the trade
  MaxAttempts    \* MAX_ATTEMPTS of the optimistic retry loop

ASSUME OrdersAssumption == Stakes \subseteq Nat \ {0}
ASSUME PayoutAssumption == PayoutPct \in Nat
ASSUME AttemptsAssumption == MaxAttempts \in Nat \ {0}

VARIABLES
  opening,      \* opening[o]: where the call of openTrade is
  trade,        \* trade[o]: the Trade row, status "NONE" before it exists
  settling      \* settling[s]: the settlement transaction of s, if one is open

tradeVars == <<opening, trade, settling>>
vars == <<account, ledger, userStatus, opening, trade, settling>>

Outcomes    == {"WON", "LOST", "REFUNDED"}
TradeStatus == {"NONE", "OPEN"} \cup Outcomes

----------------------------------------------------------------------------
(* Settlement arithmetic, in integer minor units.                          *)

Profit(stake) == (stake * PayoutPct) \div 100

MutForgetStake(stake, outcome) ==
  CASE outcome = "WON"      -> Profit(stake)
    [] outcome = "REFUNDED" -> stake
    [] OTHER                -> 0

SettlementCredit(stake, outcome) ==
  CASE outcome = "WON"      -> stake + Profit(stake)
    [] outcome = "REFUNDED" -> stake
    [] OTHER                -> 0       \* LOST

SettlementPnl(stake, outcome) ==
  CASE outcome = "WON"      -> Profit(stake)
    [] outcome = "REFUNDED" -> 0
    [] OTHER                -> -stake  \* LOST

CeilDiv(a, b) == (a + b - 1) \div b

MutFloorToBonus(credit, stake, fromBonus) == (credit * fromBonus) \div stake

(* The share of a credit that goes back to the bonus balance: the share of  *)
(* the stake that came from it, rounded up.                                 *)
CreditToBonus(credit, stake, fromBonus) ==
  IF fromBonus = 0 \/ credit = 0 THEN 0 ELSE CeilDiv(credit * fromBonus, stake)


(* Real money is staked before bonus money. *)
StakeFromReal(real, stake) == IF real < stake THEN real ELSE stake

----------------------------------------------------------------------------
NoTrade   == [status |-> "NONE", stake |-> 0, fromBonus |-> 0, pnl |-> 0]
NotCalled == [pc |-> "idle", stake |-> 0, attempt |-> 0, real |-> 0, bonus |-> 0, version |-> 0]
Idle      == [pc |-> "idle"]

OpeningRecord ==
  [pc: {"idle", "begin", "read", "opened", "inactive", "insufficient", "conflict"},
   stake: Nat, attempt: 0..MaxAttempts, real: Int, bonus: Int, version: Nat]

TradeRecord == [status: TradeStatus, stake: Nat, fromBonus: Nat, pnl: Int]

SettlingRecord ==
  {Idle} \cup [pc: {"loaded"}, order: Orders, outcome: Outcomes, stake: Nat, fromBonus: Nat]

TradeInit ==
  /\ opening = [o \in Orders |-> NotCalled]
  /\ trade = [o \in Orders |-> NoTrade]
  /\ settling = [s \in Settlers |-> Idle]

Init == AccountInit /\ TradeInit

----------------------------------------------------------------------------
(* openTrade is called. *)
RequestTrade(o, stake) ==
  /\ opening[o].pc = "idle"
  /\ opening' = [opening EXCEPT ![o].pc = "begin", ![o].stake = stake]
  /\ UNCHANGED <<account, ledger, userStatus, trade, settling>>

(* One transaction attempt reads the account and its owner's status, and    *)
(* refuses there or goes on with the balances it saw.                       *)
ReadAccount(o) ==
  /\ opening[o].pc = "begin"
  /\ opening' = [opening EXCEPT ![o] =
       IF userStatus \in Paused THEN [@ EXCEPT !.pc = "inactive"]
       ELSE IF Balance(account) < @.stake THEN [@ EXCEPT !.pc = "insufficient"]
       ELSE [@ EXCEPT !.pc = "read", !.real = account.real, !.bonus = account.bonus,
                      !.version = account.version]]
  /\ UNCHANGED <<account, ledger, userStatus, trade, settling>>

(* The debit matches the version read: the trade and its ledger row are     *)
(* created, and the transaction commits.                                    *)
DebitStake(o) ==
  LET c == opening[o]
      fromReal  == StakeFromReal(c.real, c.stake)
      fromBonus == c.stake - fromReal
  IN /\ c.pc = "read"
     /\ account.version = c.version
     /\ account' = Moved(account, -fromReal, -fromBonus)
     /\ trade' = [trade EXCEPT ![o] =
          [status |-> "OPEN", stake |-> c.stake, fromBonus |-> fromBonus, pnl |-> 0]]
     /\ ledger' = Append(ledger,
          Row("TRADE_STAKE", -c.stake, c.real + c.bonus - c.stake, o))
     /\ opening' = [opening EXCEPT ![o].pc = "opened"]
     /\ UNCHANGED <<userStatus, settling>>

MutFallThrough(o) ==
  LET attempt == opening[o].attempt + 1
  IN /\ opening[o].pc = "read"
     /\ account.version # opening[o].version
     /\ opening' = [opening EXCEPT
          ![o].attempt = attempt,
          ![o].pc = IF attempt < MaxAttempts THEN "begin" ELSE "opened"]
     /\ UNCHANGED <<account, ledger, userStatus, trade, settling>>

(* The account moved since the read: the attempt rolls back and the call    *)
(* tries again, or gives up after MaxAttempts attempts.                     *)
DebitConflict(o) ==
  LET attempt == opening[o].attempt + 1
  IN /\ opening[o].pc = "read"
     /\ account.version # opening[o].version
     /\ opening' = [opening EXCEPT
          ![o].attempt = attempt,
          ![o].pc = IF attempt < MaxAttempts THEN "begin" ELSE "conflict"]
     /\ UNCHANGED <<account, ledger, userStatus, trade, settling>>

(* settleTrade or voidTrade loads the row of an open trade; the outcome is  *)
(* decided by the exit price (settle) or is REFUNDED (void).                *)
LoadOpenTrade(s, o, outcome) ==
  /\ settling[s] = Idle
  /\ trade[o].status = "OPEN"
  /\ settling' = [settling EXCEPT ![s] =
       [pc |-> "loaded", order |-> o, outcome |-> outcome,
        stake |-> trade[o].stake, fromBonus |-> trade[o].fromBonus]]
  /\ UNCHANGED <<account, ledger, userStatus, opening, trade>>

MutClaimAny(o) == trade[o].status # "NONE"

(* The claim is an update of the row where its status is still OPEN. *)
ClaimFinds(o) == trade[o].status = "OPEN"

(* applySettlement: the claim finds the trade still open, the credit, if    *)
(* any, returns to the two balances in the stake's proportion, and one      *)
(* ledger row records it.                                                   *)
ApplySettlement(s) ==
  LET t       == settling[s]
      credit  == SettlementCredit(t.stake, t.outcome)
      toBonus == CreditToBonus(credit, t.stake, t.fromBonus)
  IN /\ t # Idle
     /\ ClaimFinds(t.order)
     /\ trade' = [trade EXCEPT ![t.order].status = t.outcome,
                               ![t.order].pnl = SettlementPnl(t.stake, t.outcome)]
     /\ \/ /\ credit > 0
           /\ account' = Moved(account, credit - toBonus, toBonus)
           /\ ledger' = Append(ledger,
                Row(IF t.outcome = "REFUNDED" THEN "TRADE_REFUND" ELSE "TRADE_PAYOUT",
                    credit, Balance(account'), t.order))
        \/ credit = 0 /\ UNCHANGED <<account, ledger>>
     /\ settling' = [settling EXCEPT ![s] = Idle]
     /\ UNCHANGED <<userStatus, opening>>

(* The claim matches no row, AlreadySettled rolls the transaction back. *)
AlreadySettled(s) ==
  /\ settling[s] # Idle
  /\ ~ClaimFinds(settling[s].order)
  /\ settling' = [settling EXCEPT ![s] = Idle]
  /\ UNCHANGED <<account, ledger, userStatus, opening, trade>>

OpenStep(o) ==
  ReadAccount(o) \/ DebitStake(o) \/ DebitConflict(o)

SettleStep(s) == ApplySettlement(s) \/ AlreadySettled(s)

TradeNext ==
  \/ \E o \in Orders : OpenStep(o) \/ \E stake \in Stakes : RequestTrade(o, stake)
  \/ \E s \in Settlers :
       SettleStep(s) \/ \E o \in Orders, outcome \in Outcomes : LoadOpenTrade(s, o, outcome)

Next == TradeNext \/ \E st \in UserStatus : SetUserStatus(st) /\ UNCHANGED tradeVars

Spec == Init /\ [][Next]_vars

----------------------------------------------------------------------------
TypeOK ==
  /\ account \in AccountRecord
  /\ ledger \in Seq([kind: RowKind, amount: Int, after: Int, ref: Orders])
  /\ userStatus \in UserStatus
  /\ opening \in [Orders -> OpeningRecord]
  /\ trade \in [Orders -> TradeRecord]
  /\ settling \in [Settlers -> SettlingRecord]

IsCredit(i) == ledger[i].kind \in {"TRADE_PAYOUT", "TRADE_REFUND"}

(* A trade is paid for exactly once and paid out at most once, and only     *)
(* when it is settled: however many settlers race for it, the ledger holds  *)
(* one stake row per trade and never two credits for it.                    *)
OneStakeOneCredit ==
  /\ \A i, j \in 1..Len(ledger) :
       ledger[i].ref = ledger[j].ref /\ IsCredit(i) = IsCredit(j) => i = j
  /\ \A i \in 1..Len(ledger) :
       /\ trade[ledger[i].ref].status # "NONE"
       /\ IsCredit(i) => /\ trade[ledger[i].ref].status \in {"WON", "REFUNDED"}
                         /\ ledger[i].amount = trade[ledger[i].ref].stake + trade[ledger[i].ref].pnl

(* A call of openTrade that refuses leaves no trace, and one that succeeds  *)
(* leaves a trade with the stake asked for: a retry after a version         *)
(* conflict never opens a second trade and never keeps the first debit.     *)
OneTradePerCall ==
  \A o \in Orders :
    /\ trade[o].status # "NONE" <=> opening[o].pc = "opened"
    /\ trade[o].status # "NONE" => trade[o].stake = opening[o].stake
    /\ trade[o].status # "NONE" <=>
         \E i \in 1..Len(ledger) : ledger[i].ref = o /\ ledger[i].amount = -opening[o].stake

(* Bonus money never turns into withdrawable money: settling a trade gives  *)
(* the real balance at most its proportional share of the credit, and a     *)
(* refund gives both balances back exactly what they staked.                *)
BonusStaysBonus ==
  [][\A o \in Orders :
       trade[o].status = "OPEN" /\ trade'[o].status \in Outcomes =>
         LET t == trade[o]
             toReal  == account'.real - account.real
             toBonus == account'.bonus - account.bonus
         IN /\ toReal * t.stake <= (toReal + toBonus) * (t.stake - t.fromBonus)
            /\ trade'[o].status = "REFUNDED" =>
                 toReal = t.stake - t.fromBonus /\ toBonus = t.fromBonus]_vars

(* Seen from the balance, trades are claims on an escrow: every order takes *)
(* its stake once, out of money that is there, and gives back once either   *)
(* nothing, the stake, or the stake and its profit.                         *)
TradeClaim(o) ==
  [phase  |-> CASE trade[o].status = "NONE" -> "none"
                [] trade[o].status = "OPEN" -> "held"
                [] OTHER -> "released",
   amount |-> trade[o].stake]

TradeGrants(stake) == {0, stake, stake + Profit(stake)}

Promise == INSTANCE Escrow WITH
  Claims <- Orders,
  Grants <- TradeGrants,
  free   <- Balance(account),
  claim  <- [o \in Orders |-> TradeClaim(o)]

TradesImplementEscrow == Promise!Spec
============================================================================
