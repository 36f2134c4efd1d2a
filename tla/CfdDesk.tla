------------------------------ MODULE CfdDesk ------------------------------
(***************************************************************************)
(* Leveraged (CFD) positions on one LIVE account and the house treasury    *)
(* that takes the other side: apps/engine/src/trading/cfd-desk.ts and the  *)
(* risk limits it is given by internal-api.ts.                             *)
(*                                                                         *)
(* A closer is whatever calls closePosition: the scan of the tick loop, or *)
(* a manual close that arrives over HTTP.  Each loads the position, works  *)
(* out the result, and writes it in a later transaction.  How the price    *)
(* leads to the result is the subject of CfdTriggers; here a close may     *)
(* have any result the profit formula can return.                          *)
(***************************************************************************)
EXTENDS AccountRow, FiniteSetsExt

CONSTANTS
  Positions,       \* calls of open, each the would-be owner of a Trade row
  Closers,         \* concurrent callers of closePosition
  PositionStakes,  \* stakes a client may ask for
  SpreadBps,       \* spread of the asset, in basis points
  FeeCap,          \* CFD_SPREAD_FEE_CAP_MINOR
  InitialTreasury, \* treasuryMinor before the requests modelled
  ExposureCap      \* exposureCap(activeUsers)

ASSUME PositionStakesAssumption == PositionStakes \subseteq Nat \ {0}
ASSUME PositionsAssumption == IsFiniteSet(Positions)
ASSUME HouseAssumption ==
  SpreadBps \in Nat /\ FeeCap \in Nat /\ InitialTreasury \in Nat /\ ExposureCap \in Nat

VARIABLES
  ordering,    \* ordering[p]: where the call of open is
  position,    \* position[p]: the Trade row
  closing,     \* closing[c]: the result c is about to write
  treasury     \* HouseTreasury.treasuryMinor

cfdVars == <<ordering, position, closing, treasury>>
deskVars == <<account, ledger, userStatus, ordering, position, closing, treasury>>

Side == {"UP", "DOWN"}
MaxProfitMultiplier == 2       \* CFD_MAX_PROFIT_MULTIPLIER

(* Math.round of a fraction of naturals. *)
RoundDiv(a, b) == (2 * a + b) \div (2 * b)

Least(a, b) == IF a < b THEN a ELSE b

SpreadFee(stake) == Least(FeeCap, RoundDiv(stake * SpreadBps * 100, 10000))

(* What cfdProfitMinor can return: no loss beyond the stake, no profit      *)
(* beyond twice the stake.                                                  *)
MutNoFloor(stake) == (-2 * stake)..(MaxProfitMultiplier * stake)
ProfitRange(stake) == (-stake)..(MaxProfitMultiplier * stake)

NoPosition == [status |-> "NONE", side |-> "UP", stake |-> 0, fee |-> 0,
               fromBonus |-> 0, pnl |-> 0]
NotCalled == [pc |-> "idle", side |-> "UP", stake |-> 0, real |-> 0, bonus |-> 0]
Idle == [pc |-> "idle"]

CfdInit ==
  /\ ordering = [p \in Positions |-> NotCalled]
  /\ position = [p \in Positions |-> NoPosition]
  /\ closing = [c \in Closers |-> Idle]
  /\ treasury = InitialTreasury

DeskInit == AccountInit /\ CfdInit

OpenOn(side) == {p \in Positions : position[p].status = "OPEN" /\ position[p].side = side}
Staked(P)    == SumFunctionOnSet([p \in Positions |-> position[p].stake], P)
NetExposure  == Staked(OpenOn("UP")) - Staked(OpenOn("DOWN"))

Magnitude(n) == IF n < 0 THEN -n ELSE n

(* The exposure check of open, on the exposure the handler read for it. *)
WithinExposure(side, stake) ==
  Magnitude(NetExposure + (IF side = "UP" THEN stake ELSE -stake)) <= ExposureCap

----------------------------------------------------------------------------
(* The handler reads the risk limits and calls open, which checks them      *)
(* before its transaction.  The daily and treasury-based limits may refuse  *)
(* any order.                                                               *)
OpenPosition(p, side, stake) ==
  /\ ordering[p].pc = "idle"
  /\ \E pc \in {"begin", "refused"} :
       /\ pc = "begin" => WithinExposure(side, stake)
       /\ ordering' = [ordering EXCEPT ![p] =
            [pc |-> pc, side |-> side, stake |-> stake, real |-> 0, bonus |-> 0]]
  /\ UNCHANGED <<account, ledger, userStatus, position, closing, treasury>>

(* The transaction reads the two balances; the status of the user is not    *)
(* looked at.                                                               *)
ReadBalances(p) ==
  /\ ordering[p].pc = "begin"
  /\ ordering' = [ordering EXCEPT ![p] =
       IF Balance(account) < @.stake + SpreadFee(@.stake) THEN [@ EXCEPT !.pc = "refused"]
       ELSE [@ EXCEPT !.pc = "read", !.real = account.real, !.bonus = account.bonus]]
  /\ UNCHANGED <<account, ledger, userStatus, position, closing, treasury>>

(* An update of the two balances that leaves the version alone. *)
Incremented(a, dReal, dBonus) ==
  [real |-> a.real + dReal, bonus |-> a.bonus + dBonus, version |-> a.version,
   currency |-> a.currency]

(* The guard of the debit: the balances are the ones that were read.  The   *)
(* version of the row is neither compared nor incremented.                  *)
BalancesAsRead(p) ==
  account.real = ordering[p].real /\ account.bonus = ordering[p].bonus

(* Bonus money is staked before real money, and pays the fee first too. *)
DebitPosition(p) ==
  LET c            == ordering[p]
      fee          == SpreadFee(c.stake)
      fromBonus    == Least(c.bonus, c.stake)
      feeFromBonus == Least(c.bonus - fromBonus, fee)
      fromReal     == c.stake - fromBonus + fee - feeFromBonus
      total        == c.real + c.bonus
  IN /\ c.pc = "read"
     /\ BalancesAsRead(p)
     /\ account' = Incremented(account, -fromReal, -(fromBonus + feeFromBonus))
     /\ position' = [position EXCEPT ![p] =
          [status |-> "OPEN", side |-> c.side, stake |-> c.stake, fee |-> fee,
           fromBonus |-> fromBonus, pnl |-> 0]]
     /\ ledger' = ledger \o
          <<Row("TRADE_STAKE", -c.stake, total - c.stake, p),
            Row("TRADE_FEE", -fee, total - c.stake - fee, p)>>
     /\ treasury' = treasury + fee
     /\ ordering' = [ordering EXCEPT ![p].pc = "opened"]
     /\ UNCHANGED <<userStatus, closing>>

(* The balances moved since the read: the order is refused, not retried. *)
DebitRefused(p) ==
  /\ ordering[p].pc = "read"
  /\ ~BalancesAsRead(p)
  /\ ordering' = [ordering EXCEPT ![p].pc = "refused"]
  /\ UNCHANGED <<account, ledger, userStatus, position, closing, treasury>>

----------------------------------------------------------------------------
MutAnyStatus(p) == position[p].status # "NONE"

(* scanPositions selects the open rows; manualClose refuses any other. *)
IsOpen(p) == position[p].status = "OPEN"

LoadPosition(c, p, pnl) ==
  /\ closing[c] = Idle
  /\ IsOpen(p)
  /\ closing' = [closing EXCEPT ![c] = [pc |-> "loaded", position |-> p, pnl |-> pnl]]
  /\ UNCHANGED <<account, ledger, userStatus, ordering, position, treasury>>

NetReturn(p, pnl) == position[p].stake + pnl

MutBonusFirst(p, net) == position[p].fromBonus
BonusReturn(p, net) == RoundDiv(net * position[p].fromBonus, position[p].stake)

HouseGain(pnl) == -pnl

(* closePosition: the row is written whatever its status is by now, the     *)
(* return is credited, the house books the other side.  The account version *)
(* is not incremented and no ledger row is written.                         *)
ClosePosition(c) ==
  LET p       == closing[c].position
      net     == NetReturn(p, closing[c].pnl)
      toBonus == BonusReturn(p, net)
  IN /\ closing[c] # Idle
     /\ position' = [position EXCEPT ![p] = [@ EXCEPT !.status = "CLOSED", !.pnl = closing[c].pnl]]
     /\ account' = IF net > 0 THEN Incremented(account, net - toBonus, toBonus) ELSE account
     /\ treasury' = treasury + HouseGain(closing[c].pnl)
     /\ closing' = [closing EXCEPT ![c] = Idle]
     /\ UNCHANGED <<ledger, userStatus, ordering>>

(* The transaction fails: nothing is written, a later tick tries again. *)
CloseFails(c) ==
  /\ closing[c] # Idle
  /\ closing' = [closing EXCEPT ![c] = Idle]
  /\ UNCHANGED <<account, ledger, userStatus, ordering, position, treasury>>

OpenStep(p)  == ReadBalances(p) \/ DebitPosition(p) \/ DebitRefused(p)
CloseStep(c) == ClosePosition(c) \/ CloseFails(c)

CfdNext ==
  \/ \E p \in Positions :
       OpenStep(p) \/ \E side \in Side, stake \in PositionStakes : OpenPosition(p, side, stake)
  \/ \E c \in Closers :
       \/ CloseStep(c)
       \/ \E p \in Positions : \E pnl \in ProfitRange(position[p].stake) : LoadPosition(c, p, pnl)

DeskSpec == DeskInit /\ [][CfdNext]_deskVars

----------------------------------------------------------------------------
PositionRecord == [status: {"NONE", "OPEN", "CLOSED"}, side: Side, stake: Nat, fee: Nat,
                   fromBonus: Nat, pnl: Int]

OrderingRecord == [pc: {"idle", "begin", "read", "opened", "refused"}, side: Side,
                   stake: Nat, real: Int, bonus: Int]

DeskTypeOK ==
  /\ account \in AccountRecord
  /\ ledger \in Seq([kind: RowKind, amount: Int, after: Int, ref: Positions])
  /\ userStatus \in UserStatus
  /\ ordering \in [Positions -> OrderingRecord]
  /\ position \in [Positions -> PositionRecord]
  /\ closing \in [Closers -> {Idle} \cup [pc: {"loaded"}, position: Positions, pnl: Int]]
  /\ treasury \in Int
  /\ \A p \in Positions : position[p].fromBonus <= position[p].stake

(* Money is neither made nor lost between the account, the open positions   *)
(* and the treasury.                                                        *)
MoneyConserved ==
  Balance(account) + Staked({p \in Positions : position[p].status = "OPEN"}) + treasury
    = OpeningBalance + InitialTreasury

(* The treasury is what the trades say: the spread fees of all positions    *)
(* less the profit of the closed ones (cfd-tick-loop.test.ts:156).          *)
TreasuryMatchesTrades ==
  treasury = InitialTreasury
             + SumFunctionOnSet([p \in Positions |-> position[p].fee], Positions)
             - SumFunctionOnSet([p \in Positions |-> position[p].pnl], Positions)

(* What an account holder can lose on a position is the stake and the fee:  *)
(* a close never takes money from the account.                              *)
CloseNeverDebits ==
  [][\A p \in Positions :
       position[p].status = "OPEN" /\ position'[p].status = "CLOSED" =>
         account'.real >= account.real /\ account'.bonus >= account.bonus]_deskVars
============================================================================
