---------------------------- MODULE CfdTriggers ----------------------------
(***************************************************************************)
(* One CFD position and the price: what the scan of the tick loop, the     *)
(* user's change of stops and the user's close do to it                    *)
(* (apps/engine/src/trading/cfd-desk.ts, packages/contracts/src/cfd-math.ts). *)
(*                                                                         *)
(* Prices are integers in a unit in which the percentages of the instances *)
(* are exact.  The scan loads the row and the price, and writes the row    *)
(* after other awaits; so do the two user requests.                        *)
(***************************************************************************)
EXTENDS Integers

CONSTANTS
  Prices,        \* the prices the market may show
  Entry,         \* execution price of the position, one of Prices
  Levels,        \* prices a user may name as stop loss or take profit
  TrailingPcts,  \* trailing distances offered, 0 for none
  Leverage,      \* CFD_LEVERAGE
  Stake

ASSUME PriceAssumption ==
  Prices \subseteq Nat \ {0} /\ Entry \in Prices /\ Levels \subseteq Nat \ {0}
ASSUME TermsAssumption ==
  TrailingPcts \subseteq 0..50 /\ Leverage \in Nat \ {0} /\ Stake \in Nat \ {0}
(* The unit of the prices is fine enough for the liquidation price, which   *)
(* the code works out without rounding.                                     *)
ASSUME UnitAssumption == Entry % Leverage = 0

VARIABLES
  price,      \* the shown price
  expired,    \* expiryTs has passed
  row,        \* the Trade row
  scan,       \* what scanPositions has loaded, if it is processing the row
  modifying,  \* what modify has checked and is about to write
  manual      \* the price manualClose is about to close at

triggersVars == <<price, expired, row, scan, modifying, manual>>

Direction == {"UP", "DOWN"}
Unset == 0      \* no stop loss, no take profit
Keep  == -1     \* a level the user leaves as it is
Nothing == [pc |-> "idle"]

Greater(a, b) == IF a < b THEN b ELSE a
Lesser(a, b)  == IF a < b THEN a ELSE b

(* b is no better than a for the holder of a position on this side. *)
Worse(side, a, b) == IF side = "UP" THEN a <= b ELSE a >= b
BetterOf(side, a, b) == IF side = "UP" THEN Greater(a, b) ELSE Lesser(a, b)
WorseOf(side, a, b)  == IF side = "UP" THEN Lesser(a, b) ELSE Greater(a, b)
Shifted(side, p, by) == IF side = "UP" THEN p + by ELSE p - by

LiqPrice(side)       == Shifted(side, Entry, -(Entry \div Leverage))
MaxProfitPrice(side) == Shifted(side, Entry, (2 * Entry) \div Leverage)

(* cfdProfitMinor: the leveraged move, rounded, within -1 and 2 stakes. *)
LeveragedMove(side, exit) ==
  LET move == IF side = "UP" THEN exit - Entry ELSE Entry - exit
  IN (2 * move * Stake * Leverage + Entry) \div (2 * Entry)

Profit(side, exit)     == Lesser(2 * Stake, Greater(-Stake, LeveragedMove(side, exit)))

ValidStops(side, at, stop, target) ==
  /\ stop \in {Unset, Keep} \/ ~Worse(side, at, stop)
  /\ target \in {Unset, Keep} \/ ~Worse(side, target, at)

----------------------------------------------------------------------------
(* open: the stops are on the right side of the entry price. *)
TriggersInit ==
  /\ price = Entry
  /\ expired = FALSE
  /\ row \in [status: {"OPEN"}, side: Direction, stop: Levels \cup {Unset}, target: Levels \cup {Unset},
              trailing: TrailingPcts, peak: {0}, exit: {0}, pnl: {0}, reason: {"NONE"}]
  /\ ValidStops(row.side, Entry, row.stop, row.target)
  /\ scan = Nothing /\ modifying = Nothing /\ manual = Nothing

(* The market moves, and time passes. *)
Tick ==
  /\ price' \in Prices
  /\ expired' \in {expired, TRUE}
  /\ UNCHANGED <<row, scan, modifying, manual>>

(* The stop in force at a shown price: the trailed level follows the price  *)
(* of this very scan, not the best price seen.                              *)
EffectiveStop(t, at) ==
  IF t.trailing = 0 THEN t.stop
  ELSE BetterOf(t.side, t.stop, Shifted(t.side, at, -((at * t.trailing) \div 100)))

Target(t) ==
  IF t.target = Unset THEN MaxProfitPrice(t.side)
  ELSE WorseOf(t.side, t.target, MaxProfitPrice(t.side))

Hit(reason, exit) == [reason |-> reason, exit |-> exit]

MutStopFirst(t, at, over) ==
  CASE t.stop # Unset /\ Worse(t.side, at, EffectiveStop(t, at)) ->
         Hit(IF t.trailing > 0 THEN "TRAILING_STOP" ELSE "STOP_LOSS", EffectiveStop(t, at))
    [] Worse(t.side, at, LiqPrice(t.side)) -> Hit("LIQUIDATION", LiqPrice(t.side))
    [] Worse(t.side, Target(t), at) -> Hit("TAKE_PROFIT", Target(t))
    [] over -> Hit("DURATION", at)
    [] OTHER -> Hit("NONE", 0)

MutNoDuration(t, at, over) ==
  CASE Worse(t.side, at, LiqPrice(t.side)) -> Hit("LIQUIDATION", LiqPrice(t.side))
    [] Worse(t.side, Target(t), at) -> Hit("TAKE_PROFIT", Target(t))
    [] OTHER -> Hit("NONE", 0)

(* checkTriggers, in its order of priority. *)
CheckTriggers(t, at, over) ==
  LET liquidated == Worse(t.side, at, LiqPrice(t.side))
      stopped    == t.stop # Unset /\ Worse(t.side, at, EffectiveStop(t, at))
      taken      == Worse(t.side, Target(t), at)
  IN CASE liquidated -> Hit("LIQUIDATION", LiqPrice(t.side))
       [] ~liquidated /\ stopped ->
            Hit(IF t.trailing > 0 THEN "TRAILING_STOP" ELSE "STOP_LOSS", EffectiveStop(t, at))
       [] ~liquidated /\ ~stopped /\ taken -> Hit("TAKE_PROFIT", Target(t))
       [] ~liquidated /\ ~stopped /\ ~taken /\ over -> Hit("DURATION", at)
       [] OTHER -> Hit("NONE", 0)

MutUncapped(t, reason, at) ==
  [row EXCEPT !.status = "CLOSED", !.reason = reason, !.exit = at, !.pnl = Profit(t.side, at)]

(* closePosition caps the exit at the maximum profit and writes the row,    *)
(* whatever its status is by now.                                           *)
Closed(t, reason, at) ==
  LET exit == WorseOf(t.side, at, MaxProfitPrice(t.side))
  IN [row EXCEPT !.status = "CLOSED", !.reason = reason, !.exit = exit,
                 !.pnl = Profit(t.side, exit)]

(* The scan loads the row with the other open rows of the asset; what it    *)
(* will do to it follows from the row and the price it loaded.              *)
ScanLoad ==
  /\ scan = Nothing
  /\ row.status = "OPEN"
  /\ scan' = [pc |-> "loaded", at |-> price, hit |-> CheckTriggers(row, price, expired),
              peak |-> row.peak]
  /\ UNCHANGED <<price, expired, row, modifying, manual>>

ScanApply ==
  LET pnl == Profit(row.side, scan.at)
  IN /\ scan # Nothing
     /\ row' = IF scan.hit.reason # "NONE" THEN Closed(row, scan.hit.reason, scan.hit.exit)
               ELSE [row EXCEPT !.peak = IF pnl > scan.peak THEN pnl ELSE @]
     /\ scan' = Nothing
     /\ UNCHANGED <<price, expired, modifying, manual>>

----------------------------------------------------------------------------
(* modify: the row must be open and the levels named on the right side of   *)
(* the price; a level of Unset is removed.                                  *)
ModifyCheck(stop, target) ==
  /\ modifying = Nothing
  /\ row.status = "OPEN"
  /\ stop # Keep \/ target # Keep
  /\ ValidStops(row.side, price, stop, target)
  /\ modifying' = [pc |-> "checked", stop |-> stop, target |-> target]
  /\ UNCHANGED <<price, expired, row, scan, manual>>

RowStillOpen == row.status = "OPEN"

ModifyWrite ==
  /\ modifying # Nothing
  /\ row' = IF RowStillOpen
            THEN [row EXCEPT !.stop = IF modifying.stop = Keep THEN @ ELSE modifying.stop,
                             !.target = IF modifying.target = Keep THEN @ ELSE modifying.target]
            ELSE row
  /\ modifying' = Nothing
  /\ UNCHANGED <<price, expired, scan, manual>>

(* manualClose: refused within the lockout, which is over at a time the     *)
(* model leaves open.                                                       *)
ManualLoad ==
  /\ manual = Nothing
  /\ row.status = "OPEN"
  /\ manual' = [pc |-> "loaded", at |-> price]
  /\ UNCHANGED <<price, expired, row, scan, modifying>>

ManualClose ==
  /\ manual # Nothing
  /\ row' = Closed(row, "MANUAL", manual.at)
  /\ manual' = Nothing
  /\ UNCHANGED <<price, expired, scan, modifying>>

Modify == ModifyWrite \/ \E stop, target \in Levels \cup {Unset, Keep} : ModifyCheck(stop, target)

TriggersNext == Tick \/ ScanLoad \/ ScanApply \/ Modify \/ ManualLoad \/ ManualClose

TriggersSpec == TriggersInit /\ [][TriggersNext]_triggersVars

(* The tick loop scans every position on every tick. *)
FairSpec == TriggersSpec /\ WF_triggersVars(ScanLoad) /\ WF_triggersVars(ScanApply)

----------------------------------------------------------------------------
Reasons == {"NONE", "LIQUIDATION", "STOP_LOSS", "TRAILING_STOP", "TAKE_PROFIT", "DURATION", "MANUAL"}

RowRecord ==
  [status: {"OPEN", "CLOSED"}, side: Direction, stop: Levels \cup {Unset}, target: Levels \cup {Unset},
   trailing: TrailingPcts, peak: 0..(2 * Stake), exit: Int, pnl: (-Stake)..(2 * Stake),
   reason: Reasons]

TriggersTypeOK ==
  /\ price \in Prices
  /\ expired \in BOOLEAN
  /\ row \in RowRecord
  /\ scan \in {Nothing} \cup 
       [pc: {"loaded"}, at: Prices, hit: [reason: Reasons, exit: Int], peak: 0..(2 * Stake)]
  /\ modifying \in {Nothing} \cup
       [pc: {"checked"}, stop: Levels \cup {Unset, Keep}, target: Levels \cup {Unset, Keep}]
  /\ manual \in {Nothing} \cup [pc: {"loaded"}, at: Prices]

(* Whichever of the scan and the user closes, and in whatever order, the    *)
(* row shows one result: the profit of the exit price it records, and never *)
(* an exit beyond the mandatory profit cap.                                 *)
ResultMatchesExit ==
  row.status = "CLOSED" =>
    /\ row.reason # "NONE"
    /\ row.pnl = Profit(row.side, row.exit)
    /\ Worse(row.side, row.exit, MaxProfitPrice(row.side))

(* A gap through both the stop and the liquidation price liquidates: a      *)
(* scan that sees the margin exhausted always costs the whole stake.        *)
GapLiquidates ==
  [][scan # Nothing /\ scan' = Nothing /\ Worse(row.side, scan.at, LiqPrice(row.side)) =>
       row'.status = "CLOSED" /\ row'.pnl = -Stake]_triggersVars

(* An expired position is closed, whatever the price does and however often *)
(* its stops are changed (loop.ts: expiry must run even while quotes are    *)
(* frozen or the market is closed).                                         *)
ExpiryCloses == (expired /\ row.status = "OPEN") ~> row.status = "CLOSED"
============================================================================
