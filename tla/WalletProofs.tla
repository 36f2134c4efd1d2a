---------------------------- MODULE WalletProofs ----------------------------
(***************************************************************************)
(* Trades and withdrawals of one account, any number of each: together     *)
(* they never overdraw it, and together they implement Escrow.  Of the     *)
(* two components the proof uses what the money depends on and nothing of  *)
(* the ledger.                                                             *)
(***************************************************************************)
EXTENDS Wallet, TLAPS

OpeningShape ==
  [pc: {"idle", "begin", "read", "opened", "inactive", "insufficient", "conflict"},
   stake: Nat, attempt: Nat, real: Int, bonus: Int, version: Nat]
TradeShape == [status: T!TradeStatus, stake: Nat, fromBonus: Nat, pnl: Int]
SettlingShape ==
  {T!Idle} \cup
  [pc: {"loaded"}, order: Orders, outcome: T!Outcomes, stake: Nat, fromBonus: Nat]
RequestShape ==
  [pc: {"idle", "show", "begin", "read", "placed", "refused"},
   amount: Nat, attempt: Nat, real: Int, bonus: Int, version: Nat]
RowShape ==
  [status: W!RowStatus, amount: Nat, holdUntil: Nat, cancelableUntil: Nat]
RefundShape ==
  {W!Idle} \cup
  [pc: {"begin", "read"}, kind: W!Refunded, row: Requests, amount: Nat, attempt: Nat,
   real: Int, bonus: Int, version: Nat]

(* A call that has read the account knows its balances, if nobody has moved *)
(* it since: whoever does takes the next version, trade or withdrawal.      *)
OpeningOK(o) ==
  LET c == opening[o]
  IN /\ c.pc \in {"begin", "read"} => c.stake > 0
     /\ c.pc = "read" =>
          /\ c.version <= account.version
          /\ c.version = account.version => c.real = account.real /\ c.bonus = account.bonus
          /\ c.real + c.bonus >= c.stake
     /\ c.pc # "opened" => trade[o].status = "NONE"

TradeOK(o) ==
  trade[o].status # "NONE" => trade[o].stake > 0 /\ trade[o].fromBonus <= trade[o].stake

SettlingOK(s) ==
  LET t == settling[s]
  IN t # T!Idle => /\ trade[t.order].status # "NONE"
                   /\ t.stake = trade[t.order].stake
                   /\ t.fromBonus = trade[t.order].fromBonus

TradePart ==
  /\ opening \in [Orders -> OpeningShape]
  /\ trade \in [Orders -> TradeShape]
  /\ settling \in [Settlers -> SettlingShape]
  /\ \A o \in Orders : OpeningOK(o) /\ TradeOK(o)
  /\ \A s \in Settlers : SettlingOK(s)

(* A call of an affiliate reads no balance, and nobody moves the row.       *)
RequestOK(w) ==
  LET c == requesting[w]
  IN /\ c.pc \in {"show", "begin", "read"} => c.amount > 0
     /\ c.pc = "show" => W!IsAffiliate
     /\ c.pc \in {"begin", "read"} => ~W!IsAffiliate
     /\ W!IsAffiliate => withdrawal[w].status \in {"NONE", "REQUESTED"}
     /\ c.pc = "read" =>
          /\ c.version <= account.version
          /\ c.version = account.version => c.real = account.real
          /\ c.amount <= c.real
     /\ c.pc # "placed" => withdrawal[w].status = "NONE"

RefundOK(c) ==
  LET r == refunding[c]
  IN r # W!Idle =>
       /\ W!Taken(r.row)
       /\ r.amount = withdrawal[r.row].amount
       /\ r.pc = "read" => withdrawal[r.row].status \in W!Rejectable

Holds(c, w) == refunding[c] # W!Idle /\ refunding[c].pc = "read" /\ refunding[c].row = w

WithdrawalPart ==
  /\ now \in Nat
  /\ requesting \in [Requests -> RequestShape]
  /\ withdrawal \in [Requests -> RowShape]
  /\ refunding \in [Refunders -> RefundShape]
  /\ \A w \in Requests : RequestOK(w)
  /\ \A c \in Refunders : RefundOK(c)
  /\ \A b, c \in Refunders : \A w \in Requests : Holds(b, w) /\ Holds(c, w) => b = c

WalletIInv ==
  /\ account \in AccountRecord
  /\ NoOverdraft
  /\ TradePart
  /\ WithdrawalPart

USE WalletAssumption, IdsAssumption DEF W!Taken, W!IsAffiliate

----------------------------------------------------------------------------
LEMMA MovedAccount ==
  ASSUME NEW a \in AccountRecord, NEW dReal \in Int, NEW dBonus \in Int
  PROVE  /\ Moved(a, dReal, dBonus) \in AccountRecord
         /\ Moved(a, dReal, dBonus).real = a.real + dReal
         /\ Moved(a, dReal, dBonus).bonus = a.bonus + dBonus
         /\ Moved(a, dReal, dBonus).version = a.version + 1
  BY DEF Moved, AccountRecord

(* The share of a credit that returns to the bonus is within the credit. *)
LEMMA BonusShare ==
  ASSUME NEW credit \in Nat, NEW stake \in Nat \ {0}, NEW fromBonus \in 0..stake
  PROVE  T!CreditToBonus(credit, stake, fromBonus) \in 0..credit
<1>1. CASE fromBonus = 0 \/ credit = 0
  BY <1>1 DEF T!CreditToBonus
<1>2. CASE ~(fromBonus = 0 \/ credit = 0)
  <2>1. PICK a \in Nat : a = credit * fromBonus /\ a <= credit * stake
    OBVIOUS
  <2>2. PICK x : x = (a + stake - 1) \div stake
    OBVIOUS
  <2>3. x \in Nat /\ stake * x < a + stake
    BY <2>2
  <2>4. stake * x < credit * stake + stake
    BY <2>1, <2>3
  <2>5. x <= credit
    BY <2>3, <2>4
  <2>6. QED
    BY <1>2, <2>1, <2>2, <2>3, <2>5 DEF T!CreditToBonus, T!CeilDiv
<1>3. QED
  BY <1>1, <1>2

LEMMA CreditIsGranted ==
  ASSUME NEW stake \in Nat, NEW outcome \in T!Outcomes
  PROVE  /\ T!SettlementCredit(stake, outcome) \in Nat
         /\ T!SettlementCredit(stake, outcome) \in T!TradeGrants(stake)
         /\ T!SettlementPnl(stake, outcome) \in Int
<1>1. stake * PayoutPct \in Nat
  OBVIOUS
<1>2. T!Profit(stake) \in Nat
  BY <1>1 DEF T!Profit
<1>3. QED
  BY <1>2 DEF T!SettlementCredit, T!SettlementPnl, T!Outcomes, T!TradeGrants

----------------------------------------------------------------------------
(* What one component's step means to the other: the account moves on.      *)

Moves == \/ UNCHANGED account
         \/ account'.version = account.version + 1

LEMMA TradesRest ==
  ASSUME WalletIInv, UNCHANGED tradeVars, account' \in AccountRecord, Moves
  PROVE  TradePart'
<1>1. account.version \in Nat /\ account'.version \in Nat
  BY DEF WalletIInv, AccountRecord
<1>2. UNCHANGED opening /\ UNCHANGED trade /\ UNCHANGED settling
  BY DEF tradeVars
<1>3. ASSUME NEW o \in Orders PROVE (OpeningOK(o) /\ TradeOK(o))'
  <2>1. opening[o].version \in Nat
    BY DEF WalletIInv, TradePart, OpeningShape
  <2>2. QED
    BY <1>1, <1>2, <2>1 DEF WalletIInv, TradePart, OpeningOK, TradeOK, Moves
<1>4. \A s \in Settlers : SettlingOK(s)'
  BY <1>2 DEF WalletIInv, TradePart, SettlingOK
<1>5. QED
  BY <1>2, <1>3, <1>4 DEF WalletIInv, TradePart

LEMMA WithdrawalsRest ==
  ASSUME WalletIInv, UNCHANGED withdrawalVars, account' \in AccountRecord, Moves
  PROVE  WithdrawalPart'
<1>1. account.version \in Nat /\ account'.version \in Nat
  BY DEF WalletIInv, AccountRecord
<1>2. /\ UNCHANGED now /\ UNCHANGED user /\ UNCHANGED requesting /\ UNCHANGED withdrawal
      /\ UNCHANGED refunding
  BY DEF withdrawalVars
<1>3. ASSUME NEW w \in Requests PROVE RequestOK(w)'
  <2>1. requesting[w].version \in Nat
    BY DEF WalletIInv, WithdrawalPart, RequestShape
  <2>2. QED
    BY <1>1, <1>2, <2>1 DEF WalletIInv, WithdrawalPart, RequestOK, Moves
<1>4. \A c \in Refunders : RefundOK(c)'
  BY <1>2 DEF WalletIInv, WithdrawalPart, RefundOK
<1>5. \A b, c \in Refunders : \A w \in Requests : Holds(b, w)' /\ Holds(c, w)' => b = c
  BY <1>2 DEF WalletIInv, WithdrawalPart, Holds
<1>6. QED
  BY <1>2, <1>3, <1>4, <1>5 DEF WalletIInv, WithdrawalPart

(* Putting the two together. *)
LEMMA TradeStepKeeps ==
  ASSUME WalletIInv, UNCHANGED withdrawalVars, account' \in AccountRecord, Moves,
         NoOverdraft', TradePart'
  PROVE  WalletIInv'
  BY WithdrawalsRest DEF WalletIInv

LEMMA WithdrawalStepKeeps ==
  ASSUME WalletIInv, UNCHANGED tradeVars, account' \in AccountRecord, Moves,
         NoOverdraft', WithdrawalPart'
  PROVE  WalletIInv'
  BY TradesRest DEF WalletIInv

----------------------------------------------------------------------------
(* Steps of a trade. *)

LEMMA RequestTradeKeeps ==
  ASSUME WalletIInv, UNCHANGED withdrawalVars, NEW o \in Orders, NEW stake \in Stakes,
         T!RequestTrade(o, stake)
  PROVE  WalletIInv'
<1>1. PICK x \in OpeningShape : x = opening[o] /\ x.pc = "idle" /\ trade[o].status = "NONE"
  BY DEF T!RequestTrade, WalletIInv, TradePart, OpeningOK
<1>2. PICK r : r = [x EXCEPT !.pc = "begin", !.stake = stake]
  OBVIOUS
<1>3. opening' = [opening EXCEPT ![o] = r]
  BY <1>1, <1>2 DEF T!RequestTrade, WalletIInv, TradePart, OpeningShape
<1>4. UNCHANGED <<account, trade, settling>>
  BY DEF T!RequestTrade
<1>5. stake \in Nat /\ stake > 0
  OBVIOUS
<1>6. r \in OpeningShape /\ r.pc = "begin" /\ r.stake > 0
  BY <1>2, <1>5 DEF OpeningShape
<1>7. /\ opening' \in [Orders -> OpeningShape]
      /\ \A p \in Orders : opening'[p] = IF p = o THEN r ELSE opening[p]
  BY <1>3, <1>6 DEF WalletIInv, TradePart
<1>8. \A p \in Orders : (OpeningOK(p) /\ TradeOK(p))'
  BY <1>1, <1>4, <1>6, <1>7 DEF WalletIInv, TradePart, OpeningOK, TradeOK
<1>9. TradePart'
  BY <1>4, <1>7, <1>8 DEF WalletIInv, TradePart, SettlingOK
<1>10. QED
  BY <1>4, <1>9, TradeStepKeeps DEF WalletIInv, Moves, NoOverdraft

(* A step of openTrade that leaves no trade. *)
LEMMA OpeningMoves ==
  ASSUME WalletIInv, UNCHANGED withdrawalVars, NEW o \in Orders, NEW r \in OpeningShape,
         opening' = [opening EXCEPT ![o] = r], UNCHANGED <<account, trade, settling>>,
         opening[o].pc # "opened",
         r.pc \in {"begin", "read"} => r.stake > 0,
         r.pc = "read" =>
           /\ r.version = account.version /\ r.real = account.real /\ r.bonus = account.bonus
           /\ r.real + r.bonus >= r.stake
  PROVE  WalletIInv'
<1>1. /\ opening' \in [Orders -> OpeningShape]
      /\ \A p \in Orders : opening'[p] = IF p = o THEN r ELSE opening[p]
  BY DEF WalletIInv, TradePart
<1>2. trade[o].status = "NONE" /\ account.version \in Nat
  BY DEF WalletIInv, TradePart, OpeningOK, AccountRecord
<1>3. ASSUME NEW p \in Orders PROVE (OpeningOK(p) /\ TradeOK(p))'
  <2>1. CASE p = o
    BY <1>1, <1>2, <2>1 DEF OpeningOK, TradeOK
  <2>2. CASE p # o
    <3>1. opening'[p] = opening[p] /\ trade'[p] = trade[p]
      BY <1>1, <2>2
    <3>2. QED
      BY <3>1 DEF WalletIInv, TradePart, OpeningOK, TradeOK
  <2>3. QED
    BY <2>1, <2>2
<1>4. TradePart'
  BY <1>1, <1>3 DEF WalletIInv, TradePart, SettlingOK
<1>5. QED
  BY <1>4, TradeStepKeeps DEF WalletIInv, Moves, NoOverdraft

LEMMA ReadAccountKeeps ==
  ASSUME WalletIInv, UNCHANGED withdrawalVars, NEW o \in Orders, T!ReadAccount(o)
  PROVE  WalletIInv'
<1>1. PICK x \in OpeningShape : x = opening[o] /\ x.pc = "begin" /\ x.stake > 0
  BY DEF T!ReadAccount, WalletIInv, TradePart, OpeningOK
<1>2. account.real \in Int /\ account.bonus \in Int /\ account.version \in Nat
  BY DEF WalletIInv, AccountRecord
<1>3. UNCHANGED <<account, trade, settling>>
  BY DEF T!ReadAccount
<1>4. CASE userStatus \in T!Paused \/ T!Balance(account) < x.stake
  <2>1. PICK pc \in {"inactive", "insufficient"} :
          opening' = [opening EXCEPT ![o] = [x EXCEPT !.pc = pc]]
    BY <1>1, <1>4 DEF T!ReadAccount
  <2>2. PICK r : r = [x EXCEPT !.pc = pc]
    OBVIOUS
  <2>3. r \in OpeningShape /\ r.pc = pc
    BY <2>2 DEF OpeningShape
  <2>4. QED
    BY <1>1, <1>3, <2>1, <2>2, <2>3, OpeningMoves
<1>5. CASE ~(userStatus \in T!Paused \/ T!Balance(account) < x.stake)
  <2>1. PICK r : /\ r = [x EXCEPT !.pc = "read", !.real = account.real, !.bonus = account.bonus,
                                  !.version = account.version]
                 /\ opening' = [opening EXCEPT ![o] = r]
    BY <1>1, <1>5 DEF T!ReadAccount
  <2>2. r = [pc |-> "read", stake |-> x.stake, attempt |-> x.attempt, real |-> account.real,
             bonus |-> account.bonus, version |-> account.version]
    BY <2>1 DEF OpeningShape
  <2>3. x.stake \in Nat /\ ~(account.real + account.bonus < x.stake)
    BY <1>5 DEF T!Balance, OpeningShape
  <2>4. r \in OpeningShape /\ r.real + r.bonus >= r.stake
    BY <1>2, <2>2, <2>3 DEF OpeningShape
  <2>5. QED
    BY <1>1, <1>3, <2>1, <2>2, <2>4, OpeningMoves
<1>6. QED
  BY <1>4, <1>5

LEMMA DebitConflictKeeps ==
  ASSUME WalletIInv, UNCHANGED withdrawalVars, NEW o \in Orders, T!DebitConflict(o)
  PROVE  WalletIInv'
<1>1. PICK x \in OpeningShape : x = opening[o] /\ x.pc = "read" /\ x.stake > 0
  BY DEF T!DebitConflict, WalletIInv, TradePart, OpeningOK
<1>2. PICK attempt \in Nat : attempt = x.attempt + 1
  BY DEF OpeningShape
<1>3. PICK pc \in {"begin", "conflict"} :
        opening' = [opening EXCEPT ![o].attempt = attempt, ![o].pc = pc]
  BY <1>1, <1>2 DEF T!DebitConflict
<1>4. PICK r : r = [x EXCEPT !.attempt = attempt, !.pc = pc]
  OBVIOUS
<1>5. opening' = [opening EXCEPT ![o] = r]
  BY <1>1, <1>3, <1>4 DEF WalletIInv, TradePart, OpeningShape
<1>6. r \in OpeningShape /\ r.pc = pc /\ r.stake = x.stake
  BY <1>4 DEF OpeningShape
<1>7. UNCHANGED <<account, trade, settling>>
  BY DEF T!DebitConflict
<1>8. QED
  BY <1>1, <1>5, <1>6, <1>7, OpeningMoves

LEMMA SettlingMoves ==
  ASSUME WalletIInv, UNCHANGED withdrawalVars, NEW s \in Settlers, NEW r \in SettlingShape,
         settling' = [settling EXCEPT ![s] = r], UNCHANGED <<account, opening, trade>>,
         r # T!Idle => /\ trade[r.order].status # "NONE" /\ r.stake = trade[r.order].stake
                       /\ r.fromBonus = trade[r.order].fromBonus
  PROVE  WalletIInv'
<1>1. /\ settling' \in [Settlers -> SettlingShape]
      /\ \A u \in Settlers : settling'[u] = IF u = s THEN r ELSE settling[u]
  BY DEF WalletIInv, TradePart
<1>2. \A u \in Settlers : SettlingOK(u)'
  BY <1>1 DEF WalletIInv, TradePart, SettlingOK
<1>3. TradePart'
  BY <1>1, <1>2 DEF WalletIInv, TradePart, OpeningOK, TradeOK
<1>4. QED
  BY <1>3, TradeStepKeeps DEF WalletIInv, Moves, NoOverdraft

LEMMA LoadKeeps ==
  ASSUME WalletIInv, UNCHANGED withdrawalVars, NEW s \in Settlers, NEW o \in Orders,
         NEW outcome \in T!Outcomes, T!LoadOpenTrade(s, o, outcome)
  PROVE  WalletIInv'
<1>1. PICK r : /\ r = [pc |-> "loaded", order |-> o, outcome |-> outcome,
                       stake |-> trade[o].stake, fromBonus |-> trade[o].fromBonus]
               /\ settling' = [settling EXCEPT ![s] = r]
  BY DEF T!LoadOpenTrade
<1>2. r \in SettlingShape /\ r.order = o /\ r.stake = trade[o].stake
      /\ r.fromBonus = trade[o].fromBonus
  BY <1>1 DEF WalletIInv, TradePart, TradeShape, SettlingShape
<1>3. trade[o].status # "NONE" /\ UNCHANGED <<account, opening, trade>>
  BY DEF T!LoadOpenTrade
<1>4. QED
  BY <1>1, <1>2, <1>3, SettlingMoves

LEMMA AlreadyKeeps ==
  ASSUME WalletIInv, UNCHANGED withdrawalVars, NEW s \in Settlers, T!AlreadySettled(s)
  PROVE  WalletIInv'
<1>1. T!Idle \in SettlingShape
  BY DEF SettlingShape
<1>2. QED
  BY <1>1, SettlingMoves DEF T!AlreadySettled

(* What a debit is: a stake that the balances cover. *)
LEMMA DebitFacts ==
  ASSUME WalletIInv, NEW o \in Orders, T!DebitStake(o)
  PROVE  \E stake, fromReal, fromBonus \in Nat :
           /\ stake > 0 /\ fromReal + fromBonus = stake
           /\ fromReal <= account.real /\ fromBonus <= account.bonus
           /\ account' = Moved(account, -fromReal, -fromBonus)
           /\ trade' = [trade EXCEPT ![o] =
                [status |-> "OPEN", stake |-> stake, fromBonus |-> fromBonus, pnl |-> 0]]
           /\ opening' = [opening EXCEPT ![o].pc = "opened"]
           /\ trade[o].status = "NONE" /\ UNCHANGED settling
<1>1. PICK x \in OpeningShape :
        /\ x = opening[o] /\ x.pc = "read" /\ x.version = account.version /\ x.stake > 0
        /\ x.real = account.real /\ x.bonus = account.bonus /\ x.real + x.bonus >= x.stake
        /\ trade[o].status = "NONE"
  BY DEF T!DebitStake, WalletIInv, TradePart, OpeningOK
<1>2. x.stake \in Nat /\ x.real \in Nat /\ x.bonus \in Nat
  BY <1>1 DEF WalletIInv, NoOverdraft, OpeningShape
<1>3. PICK fromReal \in Nat :
        /\ fromReal = T!StakeFromReal(x.real, x.stake)
        /\ fromReal <= x.real /\ fromReal <= x.stake /\ x.stake - fromReal <= x.bonus
  BY <1>1, <1>2 DEF T!StakeFromReal
<1>4. PICK fromBonus \in Nat : fromBonus = x.stake - fromReal
  BY <1>2, <1>3
<1>5. /\ account' = Moved(account, -fromReal, -fromBonus)
      /\ trade' = [trade EXCEPT ![o] =
           [status |-> "OPEN", stake |-> x.stake, fromBonus |-> fromBonus, pnl |-> 0]]
      /\ opening' = [opening EXCEPT ![o].pc = "opened"] /\ UNCHANGED settling
  BY <1>1, <1>3, <1>4 DEF T!DebitStake, T!Moved, Moved
<1>6. fromReal + fromBonus = x.stake
  BY <1>2, <1>4
<1>7. QED
  BY <1>1, <1>2, <1>3, <1>4, <1>5, <1>6

LEMMA DebitKeeps ==
  ASSUME WalletIInv, UNCHANGED withdrawalVars, NEW o \in Orders, T!DebitStake(o)
  PROVE  WalletIInv'
<1>1. PICK stake, fromReal, fromBonus \in Nat :
        /\ stake > 0 /\ fromReal + fromBonus = stake
        /\ fromReal <= account.real /\ fromBonus <= account.bonus
        /\ account' = Moved(account, -fromReal, -fromBonus)
        /\ trade' = [trade EXCEPT ![o] =
             [status |-> "OPEN", stake |-> stake, fromBonus |-> fromBonus, pnl |-> 0]]
        /\ opening' = [opening EXCEPT ![o].pc = "opened"]
        /\ trade[o].status = "NONE" /\ UNCHANGED settling
  BY DebitFacts
<1>2. account \in AccountRecord /\ -fromReal \in Int /\ -fromBonus \in Int
  BY DEF WalletIInv
<1>3. /\ account' \in AccountRecord /\ account'.version = account.version + 1
      /\ account'.real = account.real + (-fromReal)
      /\ account'.bonus = account.bonus + (-fromBonus)
  <2>1. PICK dReal, dBonus \in Int : dReal = -fromReal /\ dBonus = -fromBonus
    BY <1>2
  <2>2. account' = Moved(account, dReal, dBonus)
    BY <1>1, <2>1
  <2>3. QED
    BY <1>2, <2>1, <2>2, MovedAccount
<1>4. NoOverdraft'
  BY <1>1, <1>2, <1>3 DEF NoOverdraft, AccountRecord
<1>5. PICK new : /\ new = [status |-> "OPEN", stake |-> stake, fromBonus |-> fromBonus, pnl |-> 0]
                 /\ trade' = [trade EXCEPT ![o] = new]
  BY <1>1
<1>6. new \in TradeShape
  BY <1>5 DEF TradeShape, T!TradeStatus
<1>7. PICK x \in OpeningShape : x = opening[o]
  BY DEF WalletIInv, TradePart
<1>8. PICK r : r = [x EXCEPT !.pc = "opened"] /\ opening' = [opening EXCEPT ![o] = r]
  BY <1>1, <1>7 DEF WalletIInv, TradePart
<1>9. r \in OpeningShape /\ r.pc = "opened"
  BY <1>8 DEF OpeningShape
<1>10. /\ trade' \in [Orders -> TradeShape] /\ opening' \in [Orders -> OpeningShape]
       /\ \A p \in Orders : /\ trade'[p] = IF p = o THEN new ELSE trade[p]
                            /\ opening'[p] = IF p = o THEN r ELSE opening[p]
  BY <1>5, <1>6, <1>8, <1>9 DEF WalletIInv, TradePart
<1>11. ASSUME NEW p \in Orders PROVE (OpeningOK(p) /\ TradeOK(p))'
  <2>1. CASE p = o
    BY <1>1, <1>5, <1>9, <1>10, <2>1 DEF OpeningOK, TradeOK
  <2>2. CASE p # o
    <3>1. opening'[p] = opening[p] /\ trade'[p] = trade[p]
      BY <1>10, <2>2
    <3>2. opening[p].version \in Nat /\ account.version \in Nat
      BY <1>2 DEF WalletIInv, TradePart, OpeningShape, AccountRecord
    <3>3. QED
      BY <1>3, <3>1, <3>2 DEF WalletIInv, TradePart, OpeningOK, TradeOK
  <2>3. QED
    BY <2>1, <2>2
<1>12. ASSUME NEW s \in Settlers PROVE SettlingOK(s)'
  <2>1. CASE settling[s] = T!Idle
    BY <1>1, <2>1 DEF SettlingOK
  <2>2. CASE settling[s] # T!Idle
    <3>1. settling[s].order \in Orders
      BY <2>2 DEF WalletIInv, TradePart, SettlingShape
    <3>2. settling[s].order # o
      BY <1>1, <2>2 DEF WalletIInv, TradePart, SettlingOK
    <3>3. QED
      BY <1>1, <1>10, <3>1, <3>2 DEF WalletIInv, TradePart, SettlingOK
  <2>3. QED
    BY <2>1, <2>2
<1>13. TradePart'
  BY <1>1, <1>10, <1>11, <1>12 DEF WalletIInv, TradePart
<1>14. QED
  BY <1>3, <1>4, <1>13, TradeStepKeeps DEF Moves

(* What a settlement is: the first of an open trade, with a credit its      *)
(* stake permits, split between the balances.                               *)
LEMMA ApplyFacts ==
  ASSUME WalletIInv, NEW s \in Settlers, T!ApplySettlement(s)
  PROVE  \E o \in Orders, outcome \in T!Outcomes, pnl \in Int, toReal, toBonus \in Nat :
           /\ trade[o].status = "OPEN"
           /\ toReal + toBonus \in T!TradeGrants(trade[o].stake)
           /\ trade' = [trade EXCEPT ![o].status = outcome, ![o].pnl = pnl]
           /\ \/ account' = Moved(account, toReal, toBonus)
              \/ toReal = 0 /\ toBonus = 0 /\ UNCHANGED account
           /\ settling' = [settling EXCEPT ![s] = T!Idle] /\ UNCHANGED opening
<1>1. PICK t : /\ t = settling[s] /\ t # T!Idle /\ t.order \in Orders /\ t.outcome \in T!Outcomes
               /\ trade[t.order].status = "OPEN" /\ t.stake = trade[t.order].stake
               /\ t.fromBonus = trade[t.order].fromBonus
  <2>1. settling[s] # T!Idle /\ trade[settling[s].order].status = "OPEN"
    BY DEF T!ApplySettlement, T!ClaimFinds
  <2>2. settling[s] \in [pc: {"loaded"}, order: Orders, outcome: T!Outcomes, stake: Nat,
                         fromBonus: Nat]
    BY <2>1 DEF WalletIInv, TradePart, SettlingShape
  <2>3. QED
    BY <2>1, <2>2 DEF WalletIInv, TradePart, SettlingOK
<1>2. PICK o \in Orders : o = t.order
  BY <1>1
<1>3. t.stake \in Nat \ {0} /\ t.fromBonus \in 0..t.stake
  BY <1>1, <1>2 DEF WalletIInv, TradePart, TradeOK, TradeShape
<1>4. PICK credit \in Nat : /\ credit = T!SettlementCredit(t.stake, t.outcome)
                            /\ credit \in T!TradeGrants(t.stake)
  BY <1>1, <1>3, CreditIsGranted
<1>5. PICK pnl \in Int : pnl = T!SettlementPnl(t.stake, t.outcome)
  BY <1>1, <1>3, CreditIsGranted
<1>6. PICK toBonus \in Nat :
        /\ toBonus = T!CreditToBonus(credit, t.stake, t.fromBonus) /\ toBonus <= credit
  BY <1>3, BonusShare
<1>7. /\ trade' = [trade EXCEPT ![o].status = t.outcome, ![o].pnl = pnl]
      /\ \/ account' = Moved(account, credit - toBonus, toBonus)
         \/ credit = 0 /\ UNCHANGED account
      /\ settling' = [settling EXCEPT ![s] = T!Idle] /\ UNCHANGED opening
  BY <1>1, <1>2, <1>4, <1>5, <1>6 DEF T!ApplySettlement, T!Moved, Moved
<1>8. PICK toReal \in Nat : /\ toReal = credit - toBonus /\ toReal + toBonus = credit
                            /\ credit = 0 => toReal = 0 /\ toBonus = 0
  BY <1>6
<1>9. PICK outcome \in T!Outcomes : outcome = t.outcome
  BY <1>1
<1>10. /\ trade[o].status = "OPEN"
       /\ toReal + toBonus \in T!TradeGrants(trade[o].stake)
       /\ trade' = [trade EXCEPT ![o].status = outcome, ![o].pnl = pnl]
       /\ \/ account' = Moved(account, toReal, toBonus)
          \/ toReal = 0 /\ toBonus = 0 /\ UNCHANGED account
       /\ settling' = [settling EXCEPT ![s] = T!Idle] /\ UNCHANGED opening
  BY <1>1, <1>2, <1>4, <1>7, <1>8, <1>9
<1>11. QED
  BY <1>10

LEMMA ApplyKeeps ==
  ASSUME WalletIInv, UNCHANGED withdrawalVars, NEW s \in Settlers, T!ApplySettlement(s)
  PROVE  WalletIInv'
<1>1. PICK o \in Orders, outcome \in T!Outcomes, pnl \in Int, toReal, toBonus \in Nat :
        /\ trade[o].status = "OPEN"
        /\ toReal + toBonus \in T!TradeGrants(trade[o].stake)
        /\ trade' = [trade EXCEPT ![o].status = outcome, ![o].pnl = pnl]
        /\ \/ account' = Moved(account, toReal, toBonus)
           \/ toReal = 0 /\ toBonus = 0 /\ UNCHANGED account
        /\ settling' = [settling EXCEPT ![s] = T!Idle] /\ UNCHANGED opening
  BY ApplyFacts
<1>2. account \in AccountRecord /\ toReal \in Int /\ toBonus \in Int
  BY DEF WalletIInv
<1>3. account' \in AccountRecord /\ Moves /\ NoOverdraft'
  <2>1. CASE UNCHANGED account
    BY <1>2, <2>1 DEF WalletIInv, Moves, NoOverdraft
  <2>2. CASE account' = Moved(account, toReal, toBonus)
    <3>1. /\ account' \in AccountRecord /\ account'.version = account.version + 1
          /\ account'.real = account.real + toReal /\ account'.bonus = account.bonus + toBonus
      BY <1>2, <2>2, MovedAccount
    <3>2. QED
      BY <1>2, <3>1 DEF WalletIInv, Moves, NoOverdraft, AccountRecord
  <2>3. QED
    BY <1>1, <2>1, <2>2
<1>4. PICK y \in TradeShape : y = trade[o]
  BY DEF WalletIInv, TradePart
<1>5. PICK new : /\ new = [y EXCEPT !.status = outcome, !.pnl = pnl]
                 /\ trade' = [trade EXCEPT ![o] = new]
  BY <1>1, <1>4 DEF WalletIInv, TradePart, TradeShape
<1>6. new = [status |-> outcome, stake |-> y.stake, fromBonus |-> y.fromBonus, pnl |-> pnl]
  BY <1>5 DEF TradeShape
<1>7. new \in TradeShape /\ new.status # "NONE"
  BY <1>6 DEF TradeShape, T!TradeStatus, T!Outcomes
<1>8. /\ trade' \in [Orders -> TradeShape] /\ settling' \in [Settlers -> SettlingShape]
      /\ \A p \in Orders : trade'[p] = IF p = o THEN new ELSE trade[p]
      /\ \A u \in Settlers : settling'[u] = IF u = s THEN T!Idle ELSE settling[u]
  <2>1. /\ trade \in [Orders -> TradeShape] /\ settling \in [Settlers -> SettlingShape]
    BY DEF WalletIInv, TradePart
  <2>2. /\ trade' \in [Orders -> TradeShape]
        /\ \A p \in Orders : trade'[p] = IF p = o THEN new ELSE trade[p]
    BY <1>5, <1>7, <2>1
  <2>3. \A u \in Settlers : settling'[u] = IF u = s THEN T!Idle ELSE settling[u]
    BY <1>1, <2>1
  <2>4. T!Idle \in SettlingShape
    BY DEF SettlingShape
  <2>5. settling' \in [Settlers -> SettlingShape]
    BY <1>1, <2>1, <2>4
  <2>6. QED
    BY <2>2, <2>3, <2>5
<1>9. \A p \in Orders :
        /\ trade'[p].status = "NONE" <=> trade[p].status = "NONE"
        /\ trade'[p].stake = trade[p].stake /\ trade'[p].fromBonus = trade[p].fromBonus
  BY <1>1, <1>4, <1>6, <1>7, <1>8
<1>10. ASSUME NEW p \in Orders PROVE (OpeningOK(p) /\ TradeOK(p))'
  <2>1. /\ opening[p].version \in Nat /\ account.version \in Nat
    BY <1>2 DEF WalletIInv, TradePart, OpeningShape, AccountRecord
  <2>2. QED
    BY <1>1, <1>3, <1>9, <2>1 DEF WalletIInv, TradePart, OpeningOK, TradeOK, Moves
<1>11. ASSUME NEW u \in Settlers PROVE SettlingOK(u)'
  <2>1. CASE settling'[u] = T!Idle
    BY <2>1 DEF SettlingOK
  <2>2. CASE settling'[u] # T!Idle
    <3>1. settling'[u] = settling[u] /\ settling[u].order \in Orders
      BY <1>8, <2>2 DEF WalletIInv, TradePart, SettlingShape
    <3>2. QED
      BY <1>9, <2>2, <3>1 DEF WalletIInv, TradePart, SettlingOK
  <2>3. QED
    BY <2>1, <2>2
<1>12. TradePart'
  BY <1>1, <1>8, <1>10, <1>11 DEF WalletIInv, TradePart
<1>13. QED
  BY <1>3, <1>12, TradeStepKeeps

----------------------------------------------------------------------------
(* Steps of a withdrawal. *)

(* A step of requestWithdrawal that places nothing. *)
LEMMA RequestMoves ==
  ASSUME WalletIInv, UNCHANGED tradeVars, NEW w \in Requests, NEW r \in RequestShape,
         requesting' = [requesting EXCEPT ![w] = r],
         UNCHANGED <<account, now, user, withdrawal, refunding>>,
         requesting[w].pc # "placed",
         r.pc \in {"show", "begin", "read"} => r.amount > 0,
         r.pc = "show" => W!IsAffiliate, r.pc \in {"begin", "read"} => ~W!IsAffiliate,
         r.pc = "read" =>
           r.version = account.version /\ r.real = account.real /\ r.amount <= account.real
  PROVE  WalletIInv'
<1>1. /\ requesting' \in [Requests -> RequestShape]
      /\ \A v \in Requests : requesting'[v] = IF v = w THEN r ELSE requesting[v]
  BY DEF WalletIInv, WithdrawalPart
<1>2. withdrawal[w].status = "NONE" /\ account.version \in Nat
  BY DEF WalletIInv, WithdrawalPart, RequestOK, AccountRecord
<1>3. ASSUME NEW v \in Requests PROVE RequestOK(v)'
  <2>1. CASE v = w
    BY <1>1, <1>2, <2>1 DEF RequestOK
  <2>2. CASE v # w
    <3>1. requesting'[v] = requesting[v] /\ withdrawal'[v] = withdrawal[v]
      BY <1>1, <2>2
    <3>2. QED
      BY <3>1 DEF WalletIInv, WithdrawalPart, RequestOK
  <2>3. QED
    BY <2>1, <2>2
<1>4. WithdrawalPart'
  BY <1>1, <1>3 DEF WalletIInv, WithdrawalPart, RefundOK, Holds
<1>5. QED
  BY <1>4, WithdrawalStepKeeps DEF WalletIInv, Moves, NoOverdraft

LEMMA RequestKeeps ==
  ASSUME WalletIInv, UNCHANGED tradeVars, NEW w \in Requests, NEW amount \in Amounts,
         W!Request(w, amount)
  PROVE  WalletIInv'
<1>1. PICK x \in RequestShape : x = requesting[w] /\ x.pc = "idle"
  BY DEF W!Request, WalletIInv, WithdrawalPart
<1>2. PICK pc \in {"show", "begin", "refused"} :
        /\ requesting' = [requesting EXCEPT ![w].amount = amount, ![w].pc = pc]
        /\ pc = "show" => W!IsAffiliate
        /\ pc = "begin" => ~W!IsAffiliate
  <2>1. PICK verified \in BOOLEAN :
          requesting' = [requesting EXCEPT ![w].amount = amount, ![w].pc =
            CASE ~W!Admitted(amount) -> "refused"
              [] W!Admitted(amount) /\ W!IsAffiliate -> "show"
              [] OTHER -> IF verified THEN "begin" ELSE "refused"]
    BY DEF W!Request
  <2>2. CASE ~W!Admitted(amount)
    BY <2>1, <2>2
  <2>3. CASE W!Admitted(amount) /\ W!IsAffiliate
    BY <2>1, <2>3
  <2>4. CASE W!Admitted(amount) /\ ~W!IsAffiliate
    BY <2>1, <2>4
  <2>5. QED
    BY <2>2, <2>3, <2>4
<1>3. PICK r : r = [x EXCEPT !.amount = amount, !.pc = pc]
  OBVIOUS
<1>4. requesting' = [requesting EXCEPT ![w] = r]
  BY <1>1, <1>2, <1>3 DEF WalletIInv, WithdrawalPart, RequestShape
<1>5. amount \in Nat /\ amount > 0
  OBVIOUS
<1>6. r \in RequestShape /\ r.pc = pc /\ r.amount > 0
  BY <1>3, <1>5 DEF RequestShape
<1>7. UNCHANGED <<account, now, user, withdrawal, refunding>>
  BY DEF W!Request
<1>8. QED
  BY <1>1, <1>2, <1>4, <1>6, <1>7, RequestMoves

LEMMA ReadBalanceKeeps ==
  ASSUME WalletIInv, UNCHANGED tradeVars, NEW w \in Requests, W!ReadBalance(w)
  PROVE  WalletIInv'
<1>1. PICK x \in RequestShape :
        x = requesting[w] /\ x.pc = "begin" /\ x.amount > 0 /\ ~W!IsAffiliate
  BY DEF W!ReadBalance, WalletIInv, WithdrawalPart, RequestOK
<1>2. account.real \in Int /\ account.bonus \in Int /\ account.version \in Nat
  BY DEF WalletIInv, AccountRecord
<1>3. UNCHANGED <<account, now, user, withdrawal, refunding>>
  BY DEF W!ReadBalance
<1>4. CASE x.amount > account.real
  <2>1. PICK r : r = [x EXCEPT !.pc = "refused"] /\ requesting' = [requesting EXCEPT ![w] = r]
    BY <1>1, <1>4 DEF W!ReadBalance
  <2>2. r \in RequestShape /\ r.pc = "refused"
    BY <2>1 DEF RequestShape
  <2>3. QED
    BY <1>1, <1>3, <2>1, <2>2, RequestMoves
<1>5. CASE ~(x.amount > account.real)
  <2>1. PICK r : /\ r = [x EXCEPT !.pc = "read", !.real = account.real, !.bonus = account.bonus,
                                  !.version = account.version]
                 /\ requesting' = [requesting EXCEPT ![w] = r]
    BY <1>1, <1>5 DEF W!ReadBalance
  <2>2. r = [pc |-> "read", amount |-> x.amount, attempt |-> x.attempt, real |-> account.real,
             bonus |-> account.bonus, version |-> account.version]
    BY <2>1 DEF RequestShape
  <2>3. r \in RequestShape /\ r.amount <= account.real
    BY <1>2, <1>5, <2>2 DEF RequestShape
  <2>4. QED
    BY <1>1, <1>3, <2>1, <2>2, <2>3, RequestMoves
<1>6. QED
  BY <1>4, <1>5

LEMMA PlaceConflictKeeps ==
  ASSUME WalletIInv, UNCHANGED tradeVars, NEW w \in Requests, W!PlaceConflict(w)
  PROVE  WalletIInv'
<1>1. PICK x \in RequestShape :
        x = requesting[w] /\ x.pc = "read" /\ x.amount > 0 /\ ~W!IsAffiliate
  BY DEF W!PlaceConflict, WalletIInv, WithdrawalPart, RequestOK
<1>2. PICK attempt \in Nat : attempt = x.attempt + 1
  BY DEF RequestShape
<1>3. PICK pc \in {"begin", "refused"} :
        requesting' = [requesting EXCEPT ![w].attempt = attempt, ![w].pc = pc]
  BY <1>1, <1>2 DEF W!PlaceConflict
<1>4. PICK r : r = [x EXCEPT !.attempt = attempt, !.pc = pc]
  OBVIOUS
<1>5. requesting' = [requesting EXCEPT ![w] = r]
  BY <1>1, <1>3, <1>4 DEF WalletIInv, WithdrawalPart, RequestShape
<1>6. r \in RequestShape /\ r.pc = pc /\ r.amount = x.amount
  BY <1>4 DEF RequestShape
<1>7. UNCHANGED <<account, now, user, withdrawal, refunding>>
  BY DEF W!PlaceConflict
<1>8. QED
  BY <1>1, <1>5, <1>6, <1>7, RequestMoves

(* What a placed withdrawal is: an amount that the real balance covers. *)
LEMMA PlaceFacts ==
  ASSUME WalletIInv, NEW w \in Requests, W!PlaceWithdrawal(w)
  PROVE  \E amount \in Nat, new \in RowShape :
           /\ amount > 0 /\ amount <= account.real
           /\ account' = Moved(account, -amount, 0)
           /\ new.status \in {"HELD", "REQUESTED"} /\ new.amount = amount
           /\ withdrawal' = [withdrawal EXCEPT ![w] = new]
           /\ requesting' = [requesting EXCEPT ![w].pc = "placed"]
           /\ withdrawal[w].status = "NONE" /\ ~W!IsAffiliate
           /\ UNCHANGED <<now, user, refunding>>
<1>1. PICK x \in RequestShape :
        /\ x = requesting[w] /\ x.pc = "read" /\ x.version = account.version /\ x.amount > 0
        /\ x.real = account.real /\ x.amount <= x.real /\ withdrawal[w].status = "NONE"
        /\ ~W!IsAffiliate
  BY DEF W!PlaceWithdrawal, WalletIInv, WithdrawalPart, RequestOK
<1>2. x.amount \in Nat /\ now \in Nat
  BY DEF WalletIInv, WithdrawalPart, RequestShape
<1>3. PICK held \in Nat : held = IF W!Held THEN now + HoldTime ELSE 0
  BY <1>2
<1>4. PICK cancelable \in Nat : cancelable = IF W!Held THEN now + CancelWindow ELSE 0
  BY <1>2
<1>5. PICK status \in {"HELD", "REQUESTED"} : status = IF W!Held THEN "HELD" ELSE "REQUESTED"
  OBVIOUS
<1>6. PICK new : new = [status |-> status, amount |-> x.amount, holdUntil |-> held,
                        cancelableUntil |-> cancelable]
  OBVIOUS
<1>7. new \in RowShape /\ new.status \in {"HELD", "REQUESTED"} /\ new.amount = x.amount
  BY <1>2, <1>6 DEF RowShape, W!RowStatus
<1>8. /\ account' = Moved(account, -x.amount, 0)
      /\ withdrawal' = [withdrawal EXCEPT ![w] = new]
      /\ requesting' = [requesting EXCEPT ![w].pc = "placed"] /\ UNCHANGED <<now, user, refunding>>
  BY <1>1, <1>3, <1>4, <1>5, <1>6 DEF W!PlaceWithdrawal, W!Moved, Moved
<1>9. QED
  BY <1>1, <1>2, <1>7, <1>8

LEMMA PlaceKeeps ==
  ASSUME WalletIInv, UNCHANGED tradeVars, NEW w \in Requests, W!PlaceWithdrawal(w)
  PROVE  WalletIInv'
<1>1. PICK amount \in Nat, new \in RowShape :
        /\ amount > 0 /\ amount <= account.real
        /\ account' = Moved(account, -amount, 0)
        /\ new.status \in {"HELD", "REQUESTED"} /\ new.amount = amount
        /\ withdrawal' = [withdrawal EXCEPT ![w] = new]
        /\ requesting' = [requesting EXCEPT ![w].pc = "placed"]
        /\ withdrawal[w].status = "NONE" /\ ~W!IsAffiliate
        /\ UNCHANGED <<now, user, refunding>>
  BY PlaceFacts
<1>2. /\ account' \in AccountRecord /\ account'.version = account.version + 1
      /\ account'.real = account.real - amount /\ account'.bonus = account.bonus
  <2>1. PICK dReal, dBonus \in Int : dReal = -amount /\ dBonus = 0
    OBVIOUS
  <2>2. account \in AccountRecord /\ account' = Moved(account, dReal, dBonus)
    BY <1>1, <2>1 DEF WalletIInv
  <2>3. QED
    BY <2>1, <2>2, MovedAccount DEF AccountRecord
<1>3. NoOverdraft'
  BY <1>1, <1>2 DEF WalletIInv, NoOverdraft, AccountRecord
<1>4. PICK x \in RequestShape : x = requesting[w]
  BY DEF WalletIInv, WithdrawalPart
<1>5. PICK r : r = [x EXCEPT !.pc = "placed"] /\ requesting' = [requesting EXCEPT ![w] = r]
  BY <1>1, <1>4 DEF WalletIInv, WithdrawalPart
<1>6. r \in RequestShape /\ r.pc = "placed"
  BY <1>5 DEF RequestShape
<1>7. /\ requesting' \in [Requests -> RequestShape] /\ withdrawal' \in [Requests -> RowShape]
      /\ \A v \in Requests : /\ requesting'[v] = IF v = w THEN r ELSE requesting[v]
                             /\ withdrawal'[v] = IF v = w THEN new ELSE withdrawal[v]
  BY <1>1, <1>5, <1>6 DEF WalletIInv, WithdrawalPart
<1>8. ASSUME NEW v \in Requests PROVE RequestOK(v)'
  <2>1. CASE v = w
    BY <1>1, <1>6, <1>7, <2>1 DEF RequestOK
  <2>2. CASE v # w
    <3>1. requesting'[v] = requesting[v] /\ withdrawal'[v] = withdrawal[v]
      BY <1>7, <2>2
    <3>2. requesting[v].version \in Nat /\ account.version \in Nat
      BY DEF WalletIInv, WithdrawalPart, RequestShape, AccountRecord
    <3>3. QED
      BY <1>1, <1>2, <3>1, <3>2 DEF WalletIInv, WithdrawalPart, RequestOK
  <2>3. QED
    BY <2>1, <2>2
<1>9. ASSUME NEW c \in Refunders PROVE RefundOK(c)'
  <2>1. CASE refunding[c] = W!Idle
    BY <1>1, <2>1 DEF RefundOK
  <2>2. CASE refunding[c] # W!Idle
    <3>1. refunding[c].row \in Requests
      BY <2>2 DEF WalletIInv, WithdrawalPart, RefundShape
    <3>2. refunding[c].row # w
      BY <1>1, <2>2 DEF WalletIInv, WithdrawalPart, RefundOK
    <3>3. QED
      BY <1>1, <1>7, <3>1, <3>2 DEF WalletIInv, WithdrawalPart, RefundOK
  <2>3. QED
    BY <2>1, <2>2
<1>10. WithdrawalPart'
  BY <1>1, <1>7, <1>8, <1>9 DEF WalletIInv, WithdrawalPart, Holds
<1>11. QED
  BY <1>2, <1>3, <1>10, WithdrawalStepKeeps DEF Moves

(* The row of an affiliate moves no money. *)
LEMMA ShowKeeps ==
  ASSUME WalletIInv, UNCHANGED tradeVars, NEW w \in Requests, W!ShowWithdrawal(w)
  PROVE  WalletIInv'
<1>1. PICK x \in RequestShape :
        x = requesting[w] /\ x.pc = "show" /\ x.amount > 0 /\ W!IsAffiliate
  BY DEF W!ShowWithdrawal, WalletIInv, WithdrawalPart, RequestOK
<1>2. PICK new : /\ new = [status |-> "REQUESTED", amount |-> x.amount,
                          holdUntil |-> 0, cancelableUntil |-> 0]
                 /\ withdrawal' = [withdrawal EXCEPT ![w] = new]
  BY <1>1 DEF W!ShowWithdrawal
<1>3. new \in RowShape
  BY <1>1, <1>2 DEF RequestShape, RowShape, W!RowStatus
<1>4. PICK r : r = [x EXCEPT !.pc = "placed"] /\ requesting' = [requesting EXCEPT ![w] = r]
  BY <1>1 DEF W!ShowWithdrawal, WalletIInv, WithdrawalPart
<1>5. r \in RequestShape /\ r.pc = "placed"
  BY <1>4 DEF RequestShape
<1>6. /\ requesting' \in [Requests -> RequestShape] /\ withdrawal' \in [Requests -> RowShape]
      /\ \A v \in Requests : /\ requesting'[v] = IF v = w THEN r ELSE requesting[v]
                             /\ withdrawal'[v] = IF v = w THEN new ELSE withdrawal[v]
  BY <1>2, <1>3, <1>4, <1>5 DEF WalletIInv, WithdrawalPart
<1>7. UNCHANGED <<account, now, user, refunding>>
  BY DEF W!ShowWithdrawal
<1>8. ASSUME NEW v \in Requests PROVE RequestOK(v)'
  <2>1. CASE v = w
    BY <1>1, <1>2, <1>5, <1>6, <1>7, <2>1 DEF RequestOK
  <2>2. CASE v # w
    <3>1. requesting'[v] = requesting[v] /\ withdrawal'[v] = withdrawal[v]
      BY <1>6, <2>2
    <3>2. QED
      BY <1>7, <3>1 DEF WalletIInv, WithdrawalPart, RequestOK
  <2>3. QED
    BY <2>1, <2>2
<1>9. \A c \in Refunders : refunding[c] = W!Idle
  BY <1>1 DEF WalletIInv, WithdrawalPart, RefundOK
<1>10. WithdrawalPart'
  BY <1>6, <1>7, <1>8, <1>9 DEF WalletIInv, WithdrawalPart, RefundOK, Holds
<1>11. QED
  BY <1>7, <1>10, WithdrawalStepKeeps DEF WalletIInv, Moves, NoOverdraft

(* A step of a refund that has not committed. *)
LEMMA RefundMoves ==
  ASSUME WalletIInv, UNCHANGED tradeVars, NEW c \in Refunders, NEW r \in RefundShape,
         refunding' = [refunding EXCEPT ![c] = r],
         UNCHANGED <<account, now, user, requesting, withdrawal>>,
         r # W!Idle =>
           /\ W!Taken(r.row) /\ r.amount = withdrawal[r.row].amount
           /\ r.pc = "read" => withdrawal[r.row].status \in W!Rejectable /\ ~W!Locked(r.row)
  PROVE  WalletIInv'
<1>1. /\ refunding' \in [Refunders -> RefundShape]
      /\ \A b \in Refunders : refunding'[b] = IF b = c THEN r ELSE refunding[b]
  BY DEF WalletIInv, WithdrawalPart
<1>2. \A b \in Refunders : RefundOK(b)'
  BY <1>1 DEF WalletIInv, WithdrawalPart, RefundOK
<1>3. \A a, b \in Refunders : \A w \in Requests : Holds(a, w)' /\ Holds(b, w)' => a = b
  BY <1>1 DEF WalletIInv, WithdrawalPart, Holds, W!Locked
<1>4. WithdrawalPart'
  BY <1>1, <1>2, <1>3 DEF WalletIInv, WithdrawalPart, RequestOK
<1>5. QED
  BY <1>4, WithdrawalStepKeeps DEF WalletIInv, Moves, NoOverdraft

(* What a running refund is. *)
LEMMA RefundIs ==
  ASSUME WalletIInv, NEW c \in Refunders, refunding[c] # W!Idle
  PROVE  \E x : /\ x = refunding[c]
                /\ x = [pc |-> x.pc, kind |-> x.kind, row |-> x.row, amount |-> x.amount,
                        attempt |-> x.attempt, real |-> x.real, bonus |-> x.bonus,
                        version |-> x.version]
                /\ x.pc \in {"begin", "read"} /\ x.kind \in W!Refunded /\ x.row \in Requests
                /\ x.amount \in Nat /\ x.attempt \in Nat /\ x.real \in Int
                /\ x.bonus \in Int /\ x.version \in Nat
                /\ W!Taken(x.row) /\ x.amount = withdrawal[x.row].amount
                /\ x.pc = "read" => withdrawal[x.row].status \in W!Rejectable
<1>1. PICK x \in RefundShape : x = refunding[c] /\ x # W!Idle
  BY DEF WalletIInv, WithdrawalPart
<1>2. RefundOK(c)
  BY DEF WalletIInv, WithdrawalPart
<1>3. x \in [pc: {"begin", "read"}, kind: W!Refunded, row: Requests, amount: Nat,
             attempt: Nat, real: Int, bonus: Int, version: Nat]
  BY <1>1 DEF RefundShape
<1>4. QED
  BY <1>1, <1>2, <1>3 DEF RefundOK

LEMMA IdleKeeps ==
  ASSUME WalletIInv, UNCHANGED tradeVars, NEW c \in Refunders,
         refunding' = [refunding EXCEPT ![c] = W!Idle],
         UNCHANGED <<account, now, user, requesting, withdrawal>>
  PROVE  WalletIInv'
<1>1. W!Idle \in RefundShape
  BY DEF RefundShape
<1>2. QED
  BY <1>1, RefundMoves

LEMMA BeginRefundKeeps ==
  ASSUME WalletIInv, UNCHANGED tradeVars, NEW c \in Refunders, NEW kind \in W!Refunded,
         NEW w \in Requests, W!BeginRefund(c, kind, w)
  PROVE  WalletIInv'
<1>1. withdrawal[w].amount \in Nat /\ W!Taken(w)
  <2>1. withdrawal[w].status # "NONE" /\ (kind = "REJECTED" \/ withdrawal[w].status = "HELD")
    BY DEF W!BeginRefund, W!Claimable, W!Rejectable
  <2>2. kind = "REJECTED" => ~W!IsAffiliate
    BY DEF W!BeginRefund, W!Listed
  <2>3. RequestOK(w) /\ withdrawal[w].amount \in Nat
    BY DEF WalletIInv, WithdrawalPart, RowShape
  <2>4. QED
    BY <2>1, <2>2, <2>3 DEF RequestOK
<1>2. PICK r : /\ r = [pc |-> "begin", kind |-> kind, row |-> w, amount |-> withdrawal[w].amount,
                       attempt |-> 0, real |-> 0, bonus |-> 0, version |-> 0]
               /\ refunding' = [refunding EXCEPT ![c] = r]
  BY DEF W!BeginRefund
<1>3. r \in RefundShape
  BY <1>1, <1>2 DEF RefundShape
<1>4. UNCHANGED <<account, now, user, requesting, withdrawal>>
  BY DEF W!BeginRefund
<1>5. r.pc = "begin" /\ r.row = w /\ r.amount = withdrawal[w].amount
  BY <1>2
<1>6. QED
  BY <1>1, <1>2, <1>3, <1>4, <1>5, RefundMoves

LEMMA ClaimKeeps ==
  ASSUME WalletIInv, UNCHANGED tradeVars, NEW c \in Refunders, W!ClaimRow(c)
  PROVE  WalletIInv'
<1>1. refunding[c] # W!Idle
  BY DEF W!ClaimRow
<1>2. PICK x : /\ x = refunding[c]
               /\ x = [pc |-> x.pc, kind |-> x.kind, row |-> x.row, amount |-> x.amount,
                       attempt |-> x.attempt, real |-> x.real, bonus |-> x.bonus,
                       version |-> x.version]
               /\ x.kind \in W!Refunded /\ x.row \in Requests
               /\ x.amount \in Nat /\ x.attempt \in Nat
               /\ W!Taken(x.row) /\ x.amount = withdrawal[x.row].amount
  BY <1>1, RefundIs
<1>3. /\ account.real \in Int /\ account.bonus \in Int /\ account.version \in Nat
      /\ UNCHANGED <<account, now, user, requesting, withdrawal>>
  BY DEF W!ClaimRow, WalletIInv, AccountRecord
<1>4. ~W!Locked(x.row)
  BY <1>2 DEF W!ClaimRow
<1>5. CASE W!Claimable(x.kind, x.row)
  <2>1. PICK r : /\ r = [x EXCEPT !.pc = "read", !.real = account.real, !.bonus = account.bonus,
                                  !.version = account.version]
                 /\ refunding' = [refunding EXCEPT ![c] = r]
    BY <1>2, <1>5 DEF W!ClaimRow
  <2>2. r = [pc |-> "read", kind |-> x.kind, row |-> x.row, amount |-> x.amount,
             attempt |-> x.attempt, real |-> account.real, bonus |-> account.bonus,
             version |-> account.version]
    BY <1>2, <2>1
  <2>3. r \in RefundShape
    BY <1>2, <1>3, <2>2 DEF RefundShape
  <2>4. withdrawal[x.row].status \in W!Rejectable
    BY <1>5 DEF W!Claimable, W!Rejectable
  <2>5. QED
    BY <1>2, <1>3, <1>4, <2>1, <2>2, <2>3, <2>4, RefundMoves
<1>6. CASE ~W!Claimable(x.kind, x.row)
  <2>1. refunding' = [refunding EXCEPT ![c] = W!Idle]
    BY <1>2, <1>6 DEF W!ClaimRow
  <2>2. QED
    BY <1>3, <2>1, IdleKeeps
<1>7. QED
  BY <1>5, <1>6

LEMMA RefundConflictKeeps ==
  ASSUME WalletIInv, UNCHANGED tradeVars, NEW c \in Refunders, W!RefundConflict(c)
  PROVE  WalletIInv'
<1>1. refunding[c] # W!Idle
  BY DEF W!RefundConflict
<1>2. PICK x : /\ x = refunding[c]
               /\ x = [pc |-> x.pc, kind |-> x.kind, row |-> x.row, amount |-> x.amount,
                       attempt |-> x.attempt, real |-> x.real, bonus |-> x.bonus,
                       version |-> x.version]
               /\ x.kind \in W!Refunded /\ x.row \in Requests /\ x.real \in Int
               /\ x.bonus \in Int /\ x.version \in Nat
               /\ x.amount \in Nat /\ x.attempt \in Nat
               /\ W!Taken(x.row) /\ x.amount = withdrawal[x.row].amount
  BY <1>1, RefundIs
<1>3. PICK attempt \in Nat : attempt = x.attempt + 1
  BY <1>2
<1>4. UNCHANGED <<account, now, user, requesting, withdrawal>>
  BY DEF W!RefundConflict
<1>5. CASE W!TriesAgain(attempt)
  <2>1. PICK r : /\ r = [x EXCEPT !.pc = "begin", !.attempt = attempt]
                 /\ refunding' = [refunding EXCEPT ![c] = r]
    BY <1>2, <1>3, <1>5 DEF W!RefundConflict
  <2>2. r = [pc |-> "begin", kind |-> x.kind, row |-> x.row, amount |-> x.amount,
             attempt |-> attempt, real |-> x.real, bonus |-> x.bonus, version |-> x.version]
    BY <1>2, <2>1
  <2>3. r \in RefundShape
    BY <1>2, <2>2 DEF RefundShape
  <2>4. QED
    BY <1>2, <1>4, <2>1, <2>2, <2>3, RefundMoves
<1>6. CASE ~W!TriesAgain(attempt)
  <2>1. refunding' = [refunding EXCEPT ![c] = W!Idle]
    BY <1>2, <1>3, <1>6 DEF W!RefundConflict
  <2>2. QED
    BY <1>4, <2>1, IdleKeeps
<1>7. QED
  BY <1>5, <1>6

(* The rows move on: those a refund holds the lock of stay refundable       *)
(* unless it is that refund that ends.                                      *)
LEMMA RowsMove ==
  ASSUME WalletIInv, UNCHANGED tradeVars, UNCHANGED <<now, user, requesting>>,
         account' \in AccountRecord, Moves, NoOverdraft',
         withdrawal' \in [Requests -> RowShape], refunding' \in [Refunders -> RefundShape],
         \A c \in Refunders : refunding'[c] = refunding[c] \/ refunding'[c] = W!Idle,
         \A w \in Requests :
           \/ withdrawal'[w] = withdrawal[w]
           \/ /\ W!Taken(w) /\ withdrawal'[w].status # "NONE"
              /\ withdrawal'[w].amount = withdrawal[w].amount
              /\ \A c \in Refunders : ~Holds(c, w)'
  PROVE  WalletIInv'
<1>1. \A w \in Requests : /\ withdrawal'[w].status = "NONE" <=> withdrawal[w].status = "NONE"
                          /\ withdrawal'[w].amount = withdrawal[w].amount
                          /\ W!IsAffiliate => withdrawal'[w] = withdrawal[w]
  OBVIOUS
<1>2. ASSUME NEW w \in Requests PROVE RequestOK(w)'
  <2>1. requesting[w].version \in Nat /\ account.version \in Nat
    BY DEF WalletIInv, WithdrawalPart, RequestShape, AccountRecord
  <2>2. QED
    BY <1>1, <2>1 DEF WalletIInv, WithdrawalPart, RequestOK, Moves
<1>3. ASSUME NEW c \in Refunders PROVE RefundOK(c)'
  <2>1. CASE refunding'[c] = W!Idle
    BY <2>1 DEF RefundOK
  <2>2. CASE refunding'[c] # W!Idle
    <3>1. refunding'[c] = refunding[c] /\ refunding[c].row \in Requests
      BY <2>2 DEF WalletIInv, WithdrawalPart, RefundShape
    <3>2. refunding[c].pc = "read" => Holds(c, refunding[c].row)'
      BY <2>2, <3>1 DEF Holds
    <3>3. QED
      BY <1>1, <2>2, <3>1, <3>2 DEF WalletIInv, WithdrawalPart, RefundOK
  <2>3. QED
    BY <2>1, <2>2
<1>4. \A b, c \in Refunders : \A w \in Requests : Holds(b, w)' /\ Holds(c, w)' => b = c
  BY DEF WalletIInv, WithdrawalPart, Holds
<1>5. WithdrawalPart'
  BY <1>2, <1>3, <1>4 DEF WalletIInv, WithdrawalPart
<1>6. QED
  BY <1>5, WithdrawalStepKeeps

LEMMA ReviewKeeps ==
  ASSUME WalletIInv, UNCHANGED tradeVars, NEW w \in Requests, W!ReviewStep(w)
  PROVE  WalletIInv'
<1>1. PICK from, to \in {"HELD", "REQUESTED", "APPROVED", "PAID"} : W!SetRowStatus(w, from, to)
  BY DEF W!ReviewStep, W!ReleaseHeld, W!Approve, W!MarkPaid
<1>2. PICK x \in RowShape : x = withdrawal[w] /\ x.status = from /\ ~W!Locked(w)
  BY <1>1 DEF W!SetRowStatus, WalletIInv, WithdrawalPart
<1>3. PICK r : r = [x EXCEPT !.status = to] /\ withdrawal' = [withdrawal EXCEPT ![w] = r]
  BY <1>1, <1>2 DEF W!SetRowStatus, WalletIInv, WithdrawalPart
<1>4. r \in RowShape /\ r.status = to /\ r.amount = x.amount
  BY <1>3 DEF RowShape, W!RowStatus
<1>5. /\ withdrawal' \in [Requests -> RowShape]
      /\ \A v \in Requests : withdrawal'[v] = IF v = w THEN r ELSE withdrawal[v]
  BY <1>3, <1>4 DEF WalletIInv, WithdrawalPart
<1>6. UNCHANGED <<account, now, user, requesting, refunding>>
  BY <1>1 DEF W!SetRowStatus
<1>7. \A c \in Refunders : ~Holds(c, w)'
  BY <1>2, <1>6 DEF Holds, W!Locked
<1>8. account' \in AccountRecord /\ Moves /\ NoOverdraft'
  BY <1>6 DEF WalletIInv, Moves, NoOverdraft
<1>9. refunding' \in [Refunders -> RefundShape]
  BY <1>6 DEF WalletIInv, WithdrawalPart
<1>10. ~W!IsAffiliate
  BY DEF W!ReviewStep, W!Listed
<1>11. QED
  BY <1>1, <1>2, <1>4, <1>5, <1>6, <1>7, <1>8, <1>9, <1>10, RowsMove

LEMMA PromoteKeeps ==
  ASSUME WalletIInv, UNCHANGED tradeVars, W!AutoPromote
  PROVE  WalletIInv'
<1>1. UNCHANGED <<account, now, user, requesting, refunding>>
  BY DEF W!AutoPromote
<1>2. ASSUME NEW w \in Requests
      PROVE  /\ withdrawal'[w] \in RowShape
             /\ \/ withdrawal'[w] = withdrawal[w]
                \/ /\ W!Taken(w) /\ withdrawal'[w].status # "NONE"
                   /\ withdrawal'[w].amount = withdrawal[w].amount
                   /\ \A c \in Refunders : ~Holds(c, w)'
  <2>1. PICK x \in RowShape : x = withdrawal[w]
    BY DEF WalletIInv, WithdrawalPart
  <2>2. PICK r : r = [x EXCEPT !.status = "REQUESTED"]
    OBVIOUS
  <2>3. withdrawal'[w] = IF W!HoldIsOver(w) THEN r ELSE x
    BY <2>1, <2>2 DEF W!AutoPromote
  <2>4. r \in RowShape /\ r.status = "REQUESTED" /\ r.amount = x.amount
    BY <2>2 DEF RowShape, W!RowStatus
  <2>5. W!HoldIsOver(w) => x.status = "HELD" /\ ~W!Locked(w) /\ ~W!IsAffiliate
    BY <2>1 DEF W!HoldIsOver, W!AutoPromote, WalletIInv, WithdrawalPart, RequestOK
  <2>6. ~W!Locked(w) => \A c \in Refunders : ~Holds(c, w)'
    BY <1>1 DEF Holds, W!Locked
  <2>7. QED
    BY <2>1, <2>3, <2>4, <2>5, <2>6
<1>3. withdrawal' \in [Requests -> RowShape]
  <2>1. PICK f : withdrawal' = f /\ f = [w \in Requests |-> f[w]]
    BY DEF W!AutoPromote
  <2>2. QED
    BY <1>2, <2>1
<1>4. account' \in AccountRecord /\ Moves /\ NoOverdraft'
  BY <1>1 DEF WalletIInv, Moves, NoOverdraft
<1>5. refunding' \in [Refunders -> RefundShape]
  BY <1>1 DEF WalletIInv, WithdrawalPart
<1>6. QED
  BY <1>1, <1>2, <1>3, <1>4, <1>5, RowsMove

(* What a refund is: the whole amount of a row that can still be refunded. *)
LEMMA RefundFacts ==
  ASSUME WalletIInv, NEW c \in Refunders, W!CommitRefund(c)
  PROVE  \E w \in Requests, amount \in Nat, kind \in W!Refunded :
           /\ Holds(c, w) /\ withdrawal[w].status \in W!Rejectable /\ W!Taken(w)
           /\ amount = withdrawal[w].amount
           /\ account' = Moved(account, amount, 0)
           /\ withdrawal' = [withdrawal EXCEPT ![w].status = kind]
           /\ refunding' = [refunding EXCEPT ![c] = W!Idle]
           /\ UNCHANGED <<now, user, requesting>>
<1>1. PICK x : /\ x = refunding[c] /\ x # W!Idle /\ x.pc = "read"
               /\ x.kind \in W!Refunded /\ x.row \in Requests /\ x.amount \in Nat
               /\ withdrawal[x.row].status \in W!Rejectable /\ W!Taken(x.row)
               /\ x.amount = withdrawal[x.row].amount
  BY RefundIs DEF W!CommitRefund
<1>2. /\ account' = Moved(account, x.amount, 0)
      /\ withdrawal' = [withdrawal EXCEPT ![x.row].status = x.kind]
      /\ refunding' = [refunding EXCEPT ![c] = W!Idle]
      /\ UNCHANGED <<now, user, requesting>>
  BY <1>1 DEF W!CommitRefund, W!Moved, Moved
<1>3. Holds(c, x.row)
  BY <1>1 DEF Holds
<1>4. QED
  BY <1>1, <1>2, <1>3

LEMMA CommitKeeps ==
  ASSUME WalletIInv, UNCHANGED tradeVars, NEW c \in Refunders, W!CommitRefund(c)
  PROVE  WalletIInv'
<1>1. PICK w \in Requests, amount \in Nat, kind \in W!Refunded :
        /\ Holds(c, w) /\ withdrawal[w].status \in W!Rejectable /\ W!Taken(w)
        /\ amount = withdrawal[w].amount
        /\ account' = Moved(account, amount, 0)
        /\ withdrawal' = [withdrawal EXCEPT ![w].status = kind]
        /\ refunding' = [refunding EXCEPT ![c] = W!Idle]
        /\ UNCHANGED <<now, user, requesting>>
  BY RefundFacts
<1>2. /\ account' \in AccountRecord /\ account'.version = account.version + 1
      /\ account'.real = account.real + amount /\ account'.bonus = account.bonus
  <2>1. PICK dReal, dBonus \in Int : dReal = amount /\ dBonus = 0
    OBVIOUS
  <2>2. account \in AccountRecord /\ account' = Moved(account, dReal, dBonus)
    BY <1>1, <2>1 DEF WalletIInv
  <2>3. QED
    BY <2>1, <2>2, MovedAccount DEF AccountRecord
<1>3. NoOverdraft'
  BY <1>2 DEF WalletIInv, NoOverdraft, AccountRecord
<1>4. PICK x \in RowShape : x = withdrawal[w] /\ x.status # "NONE"
  BY <1>1 DEF WalletIInv, WithdrawalPart, W!Rejectable
<1>5. PICK r : r = [x EXCEPT !.status = kind] /\ withdrawal' = [withdrawal EXCEPT ![w] = r]
  BY <1>1, <1>4 DEF WalletIInv, WithdrawalPart
<1>6. r \in RowShape /\ r.status # "NONE" /\ r.amount = x.amount
  BY <1>5 DEF RowShape, W!RowStatus, W!Refunded
<1>7. /\ withdrawal' \in [Requests -> RowShape] /\ refunding' \in [Refunders -> RefundShape]
      /\ \A v \in Requests : withdrawal'[v] = IF v = w THEN r ELSE withdrawal[v]
      /\ \A b \in Refunders : refunding'[b] = IF b = c THEN W!Idle ELSE refunding[b]
  <2>1. refunding' = [refunding EXCEPT ![c] = W!Idle]
    BY <1>1
  <2>2. QED
    BY <1>5, <1>6, <2>1 DEF WalletIInv, WithdrawalPart, RefundShape
<1>8. \A b \in Refunders : ~Holds(b, w)'
  BY <1>1, <1>7 DEF WalletIInv, WithdrawalPart, Holds
<1>9. Moves
  BY <1>2 DEF Moves
<1>10. QED
  BY <1>1, <1>2, <1>3, <1>4, <1>6, <1>7, <1>8, <1>9, RowsMove

----------------------------------------------------------------------------
LEMMA InitWalletIInv == Init => WalletIInv
<1> SUFFICES ASSUME Init PROVE WalletIInv
  OBVIOUS
<1> USE DEF Init, AccountInit, T!TradeInit, W!WithdrawalInit
<1>1. account \in AccountRecord /\ NoOverdraft
  BY OpeningAssumption, CurrencyAssumption DEF AccountRecord, NoOverdraft
<1>2. T!NotCalled \in OpeningShape /\ T!NoTrade \in TradeShape /\ T!Idle \in SettlingShape
  BY DEF OpeningShape, TradeShape, SettlingShape, T!NotCalled, T!NoTrade, T!TradeStatus
<1>3. TradePart
  <2>1. \A o \in Orders : OpeningOK(o) /\ TradeOK(o)
    BY DEF OpeningOK, TradeOK, T!NotCalled, T!NoTrade
  <2>2. QED
    BY <1>2, <2>1 DEF TradePart, SettlingOK
<1>4. W!NotCalled \in RequestShape /\ W!NoRow \in RowShape /\ W!Idle \in RefundShape
  BY DEF RequestShape, RowShape, RefundShape, W!NotCalled, W!NoRow, W!RowStatus
<1>5. WithdrawalPart
  <2>1. \A w \in Requests : RequestOK(w)
    BY DEF RequestOK, W!NotCalled, W!NoRow
  <2>2. QED
    BY <1>4, <2>1 DEF WithdrawalPart, RefundOK, Holds
<1>6. QED
  BY <1>1, <1>3, <1>5 DEF WalletIInv

LEMMA NextWalletIInv == WalletIInv /\ [Next]_vars => WalletIInv'
<1> SUFFICES ASSUME WalletIInv, [Next]_vars PROVE WalletIInv'
  OBVIOUS
<1>1. CASE T!TradeNext /\ UNCHANGED withdrawalVars
  <2>1. ASSUME NEW o \in Orders, T!OpenStep(o) PROVE WalletIInv'
    BY <1>1, <2>1, ReadAccountKeeps, DebitKeeps, DebitConflictKeeps DEF T!OpenStep
  <2>2. ASSUME NEW s \in Settlers, T!SettleStep(s) PROVE WalletIInv'
    BY <1>1, <2>2, ApplyKeeps, AlreadyKeeps DEF T!SettleStep
  <2>3. QED
    BY <1>1, <2>1, <2>2, RequestTradeKeeps, LoadKeeps DEF T!TradeNext
<1>2. CASE W!WithdrawalNext /\ UNCHANGED tradeVars
  <2>1. ASSUME NEW w \in Requests, W!RequestStep(w) PROVE WalletIInv'
    BY <1>2, <2>1, ShowKeeps, ReadBalanceKeeps, PlaceKeeps, PlaceConflictKeeps
       DEF W!RequestStep
  <2>2. ASSUME NEW c \in Refunders, W!RefundStep(c) PROVE WalletIInv'
    BY <1>2, <2>2, ClaimKeeps, CommitKeeps, RefundConflictKeeps DEF W!RefundStep
  <2>3. CASE W!Tick
    <3>1. now' \in Nat /\ UNCHANGED <<account, user, requesting, withdrawal, refunding>>
      BY <2>3 DEF W!Tick, WalletIInv, WithdrawalPart
    <3>2. WithdrawalPart'
      BY <3>1 DEF WalletIInv, WithdrawalPart, RequestOK, RefundOK, Holds
    <3>3. QED
      BY <1>2, <3>1, <3>2, WithdrawalStepKeeps DEF WalletIInv, Moves, NoOverdraft
  <2>4. QED
    BY <1>2, <2>1, <2>2, <2>3, ReviewKeeps, RequestKeeps, BeginRefundKeeps, PromoteKeeps
       DEF W!WithdrawalNext
<1>3. CASE UNCHANGED account /\ UNCHANGED tradeVars /\ UNCHANGED withdrawalVars
  <2>1. account' \in AccountRecord /\ Moves /\ NoOverdraft'
    BY <1>3 DEF WalletIInv, Moves, NoOverdraft
  <2>2. QED
    BY <1>3, <2>1, TradesRest, WithdrawalsRest DEF WalletIInv
<1>4. ASSUME NEW st \in UserStatus, SetUserStatus(st), UNCHANGED <<tradeVars, withdrawalVars>>
      PROVE  WalletIInv'
  BY <1>3, <1>4 DEF SetUserStatus
<1>5. CASE UNCHANGED vars
  BY <1>3, <1>5 DEF vars, accountVars
<1>6. QED
  BY <1>1, <1>2, <1>4, <1>5 DEF Next

LEMMA SpecWalletIInv == Spec => []WalletIInv
<1>1. QED
  BY InitWalletIInv, NextWalletIInv, PTL DEF Spec

(* No interleaving of stakes, settlements, withdrawals and refunds          *)
(* overdraws the account: the version guard is all the two share.           *)
THEOREM WalletNeverOverdrawn == Spec => []NoOverdraft
<1>1. WalletIInv => NoOverdraft
  BY DEF WalletIInv
<1>2. QED
  BY <1>1, SpecWalletIInv, PTL

----------------------------------------------------------------------------
(* Refinement: one claim moves at a time, a trade's or a withdrawal's.      *)

Claim(c) == IF c \in Orders THEN T!TradeClaim(c) ELSE W!WithdrawalClaim(c)

LEMMA NothingClaimed ==
  ASSUME NEW w \in Requests, ~W!Taken(w)
  PROVE  W!WithdrawalClaim(w) = [phase |-> "none", amount |-> 0]
  BY DEF W!WithdrawalClaim

LEMMA WhatIsClaimed ==
  ASSUME NEW w \in Requests, W!Taken(w)
  PROVE  W!WithdrawalClaim(w) =
           [phase  |-> IF withdrawal[w].status \in W!Refunded \cup {"PAID"}
                       THEN "released" ELSE "held",
            amount |-> withdrawal[w].amount]
<1>1. CASE withdrawal[w].status \in W!Refunded \cup {"PAID"}
  BY <1>1 DEF W!WithdrawalClaim
<1>2. CASE withdrawal[w].status \notin W!Refunded \cup {"PAID"}
  BY <1>2 DEF W!WithdrawalClaim
<1>3. QED
  BY <1>1, <1>2

LEMMA ClaimHolds ==
  ASSUME NEW c \in Orders \cup Requests, NEW amount \in 1..Balance(account),
         Claim(c).phase = "none",
         Balance(account') = Balance(account) - amount,
         \A d \in Orders \cup Requests :
           Claim(d)' = IF d = c THEN [phase |-> "held", amount |-> amount] ELSE Claim(d)
  PROVE  Promise!Next
<1>1. Promise!Hold(c, amount)
  BY DEF Promise!Hold, Claim
<1>2. QED
  BY <1>1 DEF Promise!Next

LEMMA ClaimReleases ==
  ASSUME NEW c \in Orders \cup Requests, NEW amount, NEW credit \in WalletGrants(amount),
         Claim(c) = [phase |-> "held", amount |-> amount],
         Balance(account') = Balance(account) + credit,
         \A d \in Orders \cup Requests :
           Claim(d)' = IF d = c THEN [phase |-> "released", amount |-> amount] ELSE Claim(d)
  PROVE  Promise!Next
<1>1. Claim(c).phase = "held" /\ Claim(c).amount = amount
  OBVIOUS
<1>2. [Claim(c) EXCEPT !.phase = "released"] = [phase |-> "released", amount |-> amount]
  OBVIOUS
<1>3. \A d \in Orders \cup Requests :
        Claim(d)' = IF d = c THEN [Claim(c) EXCEPT !.phase = "released"] ELSE Claim(d)
  BY <1>2
<1>4. Promise!Release(c, credit)
  BY <1>1, <1>3 DEF Promise!Release, Claim
<1>5. QED
  BY <1>1, <1>4 DEF Promise!Next, Claim

LEMMA ClaimsStay ==
  ASSUME UNCHANGED account, \A d \in Orders \cup Requests : Claim(d)' = Claim(d)
  PROVE  UNCHANGED Promise!escrowVars
  BY DEF Promise!escrowVars, Claim, Balance

LEMMA DebitHolds ==
  ASSUME WalletIInv, UNCHANGED withdrawalVars, NEW o \in Orders, T!DebitStake(o)
  PROVE  Promise!Next
<1>1. PICK stake, fromReal, fromBonus \in Nat :
        /\ stake > 0 /\ fromReal + fromBonus = stake
        /\ fromReal <= account.real /\ fromBonus <= account.bonus
        /\ account' = Moved(account, -fromReal, -fromBonus)
        /\ trade' = [trade EXCEPT ![o] =
             [status |-> "OPEN", stake |-> stake, fromBonus |-> fromBonus, pnl |-> 0]]
        /\ opening' = [opening EXCEPT ![o].pc = "opened"]
        /\ trade[o].status = "NONE" /\ UNCHANGED settling
  BY DebitFacts
<1>2. Balance(account') = Balance(account) - stake /\ stake \in 1..Balance(account)
  <2>1. account \in AccountRecord
    BY DEF WalletIInv
  <2>2. PICK dReal, dBonus \in Int : dReal = -fromReal /\ dBonus = -fromBonus
    OBVIOUS
  <2>3. account' = Moved(account, dReal, dBonus)
    BY <1>1, <2>2
  <2>4. account'.real = account.real + dReal /\ account'.bonus = account.bonus + dBonus
    BY <2>1, <2>3, MovedAccount
  <2>5. QED
    BY <1>1, <2>1, <2>2, <2>4 DEF Balance, AccountRecord
<1>3. /\ \A p \in Orders \ {o} : trade'[p] = trade[p]
      /\ trade'[o].status = "OPEN" /\ trade'[o].stake = stake
  BY <1>1 DEF WalletIInv, TradePart
<1>4. T!TradeClaim(o).phase = "none" /\ T!TradeClaim(o)' = [phase |-> "held", amount |-> stake]
  BY <1>1, <1>3 DEF T!TradeClaim
<1>5. \A p \in Orders \ {o} : T!TradeClaim(p)' = T!TradeClaim(p)
  BY <1>3 DEF T!TradeClaim
<1>6. \A w \in Requests : W!WithdrawalClaim(w)' = W!WithdrawalClaim(w)
  BY DEF W!WithdrawalClaim, withdrawalVars
<1>7. \A d \in Orders \cup Requests :
        Claim(d)' = IF d = o THEN [phase |-> "held", amount |-> stake] ELSE Claim(d)
  BY <1>4, <1>5, <1>6 DEF Claim
<1>8. Claim(o).phase = "none"
  BY <1>4 DEF Claim
<1>9. QED
  BY <1>2, <1>7, <1>8, ClaimHolds

LEMMA ApplyReleases ==
  ASSUME WalletIInv, UNCHANGED withdrawalVars, NEW s \in Settlers, T!ApplySettlement(s)
  PROVE  Promise!Next
<1>1. PICK o \in Orders, outcome \in T!Outcomes, pnl \in Int, toReal, toBonus \in Nat :
        /\ trade[o].status = "OPEN"
        /\ toReal + toBonus \in T!TradeGrants(trade[o].stake)
        /\ trade' = [trade EXCEPT ![o].status = outcome, ![o].pnl = pnl]
        /\ \/ account' = Moved(account, toReal, toBonus)
           \/ toReal = 0 /\ toBonus = 0 /\ UNCHANGED account
        /\ settling' = [settling EXCEPT ![s] = T!Idle] /\ UNCHANGED opening
  BY ApplyFacts
<1>2. Balance(account') = Balance(account) + (toReal + toBonus)
  <2>1. account \in AccountRecord /\ toReal \in Int /\ toBonus \in Int
    BY DEF WalletIInv
  <2>2. account'.real = account.real + toReal /\ account'.bonus = account.bonus + toBonus
    <3>1. CASE account' = Moved(account, toReal, toBonus)
      BY <2>1, <3>1, MovedAccount
    <3>2. CASE toReal = 0 /\ toBonus = 0 /\ UNCHANGED account
      BY <2>1, <3>2 DEF AccountRecord
    <3>3. QED
      BY <1>1, <3>1, <3>2
  <2>3. QED
    BY <2>1, <2>2 DEF Balance, AccountRecord
<1>3. /\ \A p \in Orders \ {o} : trade'[p] = trade[p]
      /\ trade'[o].status = outcome /\ trade'[o].stake = trade[o].stake
  BY <1>1 DEF WalletIInv, TradePart, TradeShape
<1>4. /\ T!TradeClaim(o) = [phase |-> "held", amount |-> trade[o].stake]
      /\ T!TradeClaim(o)' = [phase |-> "released", amount |-> trade[o].stake]
  <2>1. trade'[o].status # "NONE" /\ trade'[o].status # "OPEN"
    BY <1>3 DEF T!Outcomes
  <2>2. QED
    BY <1>1, <1>3, <2>1 DEF T!TradeClaim
<1>5. \A p \in Orders \ {o} : T!TradeClaim(p)' = T!TradeClaim(p)
  BY <1>3 DEF T!TradeClaim
<1>6. \A w \in Requests : W!WithdrawalClaim(w)' = W!WithdrawalClaim(w)
  BY DEF W!WithdrawalClaim, withdrawalVars
<1>7. \A d \in Orders \cup Requests :
        Claim(d)' = IF d = o THEN [phase |-> "released", amount |-> trade[o].stake]
                             ELSE Claim(d)
  BY <1>4, <1>5, <1>6 DEF Claim
<1>8. Claim(o) = [phase |-> "held", amount |-> trade[o].stake]
  BY <1>4 DEF Claim
<1>9. toReal + toBonus \in WalletGrants(trade[o].stake)
  BY <1>1 DEF WalletGrants
<1>10. QED
  BY <1>2, <1>7, <1>8, <1>9, ClaimReleases

LEMMA PlaceHolds ==
  ASSUME WalletIInv, UNCHANGED tradeVars, NEW w \in Requests, W!PlaceWithdrawal(w)
  PROVE  Promise!Next
<1>1. PICK amount \in Nat, new \in RowShape :
        /\ amount > 0 /\ amount <= account.real
        /\ account' = Moved(account, -amount, 0)
        /\ new.status \in {"HELD", "REQUESTED"} /\ new.amount = amount
        /\ withdrawal' = [withdrawal EXCEPT ![w] = new]
        /\ requesting' = [requesting EXCEPT ![w].pc = "placed"]
        /\ withdrawal[w].status = "NONE" /\ ~W!IsAffiliate
        /\ UNCHANGED <<now, user, refunding>>
  BY PlaceFacts
<1>2. Balance(account') = Balance(account) - amount /\ amount \in 1..Balance(account)
  <2>1. account \in AccountRecord /\ account.bonus >= 0
    BY DEF WalletIInv, NoOverdraft
  <2>2. PICK dReal, dBonus \in Int : dReal = -amount /\ dBonus = 0
    OBVIOUS
  <2>3. account' = Moved(account, dReal, dBonus)
    BY <1>1, <2>2
  <2>4. account'.real = account.real + dReal /\ account'.bonus = account.bonus + dBonus
    BY <2>1, <2>3, MovedAccount
  <2>5. QED
    BY <1>1, <2>1, <2>2, <2>4 DEF Balance, AccountRecord
<1>3. \A v \in Requests : withdrawal'[v] = IF v = w THEN new ELSE withdrawal[v]
  BY <1>1 DEF WalletIInv, WithdrawalPart
<1>4. /\ W!WithdrawalClaim(w).phase = "none"
      /\ W!WithdrawalClaim(w)' = [phase |-> "held", amount |-> amount]
  <2>1. withdrawal'[w].status \in {"HELD", "REQUESTED"} /\ withdrawal'[w].amount = amount
    BY <1>1, <1>3
  <2>2. W!WithdrawalClaim(w)' = [phase |-> "held", amount |-> amount]
    BY <1>1, <2>1 DEF W!WithdrawalClaim, W!Refunded
  <2>3. QED
    BY <1>1, <2>2, NothingClaimed
<1>5. \A v \in Requests \ {w} : W!WithdrawalClaim(v)' = W!WithdrawalClaim(v)
  BY <1>1, <1>3 DEF W!WithdrawalClaim
<1>6. \A o \in Orders : T!TradeClaim(o)' = T!TradeClaim(o)
  BY DEF T!TradeClaim, tradeVars
<1>7. w \notin Orders
  OBVIOUS
<1>8. \A d \in Orders \cup Requests :
        Claim(d)' = IF d = w THEN [phase |-> "held", amount |-> amount] ELSE Claim(d)
  BY <1>4, <1>5, <1>6, <1>7 DEF Claim
<1>9. Claim(w).phase = "none"
  BY <1>4, <1>7 DEF Claim
<1>10. QED
  BY <1>2, <1>8, <1>9, ClaimHolds

(* A row that goes from refundable to refunded or paid. *)
LEMMA RowReleases ==
  ASSUME WalletIInv, UNCHANGED tradeVars, NEW w \in Requests,
         NEW status \in W!Refunded \cup {"PAID"}, NEW credit \in {0, withdrawal[w].amount},
         withdrawal[w].status \in W!Rejectable, W!Taken(w), user' = user,
         withdrawal' = [withdrawal EXCEPT ![w].status = status],
         Balance(account') = Balance(account) + credit
  PROVE  Promise!Next
<1>1. /\ \A v \in Requests \ {w} : withdrawal'[v] = withdrawal[v]
      /\ withdrawal'[w].status = status /\ withdrawal'[w].amount = withdrawal[w].amount
  BY DEF WalletIInv, WithdrawalPart, RowShape
<1>2. W!WithdrawalClaim(w) = [phase |-> "held", amount |-> withdrawal[w].amount]
  BY WhatIsClaimed DEF W!Rejectable, W!Refunded
<1>3. W!WithdrawalClaim(w)' = [phase |-> "released", amount |-> withdrawal[w].amount]
  BY <1>1 DEF W!WithdrawalClaim, W!Refunded
<1>4. \A v \in Requests \ {w} : W!WithdrawalClaim(v)' = W!WithdrawalClaim(v)
  BY <1>1 DEF W!WithdrawalClaim
<1>5. \A o \in Orders : T!TradeClaim(o)' = T!TradeClaim(o)
  BY DEF T!TradeClaim, tradeVars
<1>6. w \notin Orders
  OBVIOUS
<1>7. \A d \in Orders \cup Requests :
        Claim(d)' = IF d = w THEN [phase |-> "released", amount |-> withdrawal[w].amount]
                             ELSE Claim(d)
  BY <1>3, <1>4, <1>5, <1>6 DEF Claim
<1>8. Claim(w) = [phase |-> "held", amount |-> withdrawal[w].amount]
  BY <1>2, <1>6 DEF Claim
<1>9. credit \in WalletGrants(withdrawal[w].amount)
  BY DEF WalletGrants, W!AllOrNothing
<1>10. QED
  BY <1>7, <1>8, <1>9, ClaimReleases

LEMMA CommitReleases ==
  ASSUME WalletIInv, UNCHANGED tradeVars, NEW c \in Refunders, W!CommitRefund(c)
  PROVE  Promise!Next
<1>1. PICK w \in Requests, amount \in Nat, kind \in W!Refunded :
        /\ Holds(c, w) /\ withdrawal[w].status \in W!Rejectable /\ W!Taken(w)
        /\ amount = withdrawal[w].amount
        /\ account' = Moved(account, amount, 0)
        /\ withdrawal' = [withdrawal EXCEPT ![w].status = kind]
        /\ refunding' = [refunding EXCEPT ![c] = W!Idle]
        /\ UNCHANGED <<now, user, requesting>>
  BY RefundFacts
<1>2. Balance(account') = Balance(account) + amount
  <2>1. PICK dReal, dBonus \in Int : dReal = amount /\ dBonus = 0
    OBVIOUS
  <2>2. account \in AccountRecord /\ account' = Moved(account, dReal, dBonus)
    BY <1>1, <2>1 DEF WalletIInv
  <2>3. account'.real = account.real + dReal /\ account'.bonus = account.bonus + dBonus
    BY <2>2, MovedAccount
  <2>4. QED
    BY <2>1, <2>2, <2>3 DEF Balance, AccountRecord
<1>3. QED
  BY <1>1, <1>2, RowReleases

LEMMA PaidReleases ==
  ASSUME WalletIInv, UNCHANGED tradeVars, NEW w \in Requests, W!MarkPaid(w), ~W!IsAffiliate
  PROVE  Promise!Next
<1>1. /\ withdrawal[w].status \in W!Rejectable /\ W!Taken(w) /\ UNCHANGED <<account, user>>
      /\ withdrawal' = [withdrawal EXCEPT ![w].status = "PAID"]
  BY DEF W!MarkPaid, W!SetRowStatus, W!Rejectable
<1>2. Balance(account') = Balance(account) + 0
  BY <1>1 DEF WalletIInv, Balance, AccountRecord
<1>3. QED
  BY <1>1, <1>2, RowReleases

(* Everything else: the trades' claims stay, and the withdrawals move       *)
(* between statuses that can still be refunded, or are an affiliate's.      *)
LEMMA TradesStay ==
  ASSUME UNCHANGED <<account, trade>>, UNCHANGED withdrawalVars
  PROVE  UNCHANGED Promise!escrowVars
<1>1. \A d \in Orders \cup Requests : Claim(d)' = Claim(d)
  BY DEF Claim, T!TradeClaim, W!WithdrawalClaim, withdrawalVars
<1>2. QED
  BY <1>1, ClaimsStay

LEMMA RowsStay ==
  ASSUME UNCHANGED <<account, user>>, UNCHANGED tradeVars,
         \/ UNCHANGED withdrawal
         \/ \A w \in Requests :
              \/ withdrawal'[w] = withdrawal[w]
              \/ /\ {withdrawal[w].status, withdrawal'[w].status} \subseteq W!Rejectable
                 /\ withdrawal'[w].amount = withdrawal[w].amount
              \/ W!IsAffiliate
  PROVE  UNCHANGED Promise!escrowVars
<1>1. \A w \in Requests : W!WithdrawalClaim(w)' = W!WithdrawalClaim(w)
  BY DEF W!WithdrawalClaim, W!Rejectable, W!Refunded
<1>2. \A o \in Orders : T!TradeClaim(o)' = T!TradeClaim(o)
  BY DEF T!TradeClaim, tradeVars
<1>3. \A d \in Orders \cup Requests : Claim(d)' = Claim(d)
  BY <1>1, <1>2 DEF Claim
<1>4. QED
  BY <1>3, ClaimsStay

LEMMA ReviewStays ==
  ASSUME WalletIInv, UNCHANGED tradeVars, NEW w \in Requests, W!ReleaseHeld(w) \/ W!Approve(w)
  PROVE  UNCHANGED Promise!escrowVars
<1>1. PICK from, to \in W!Rejectable : W!SetRowStatus(w, from, to)
  BY DEF W!ReleaseHeld, W!Approve, W!Rejectable
<1>2. \A v \in Requests :
        \/ withdrawal'[v] = withdrawal[v]
        \/ /\ {withdrawal[v].status, withdrawal'[v].status} \subseteq W!Rejectable
           /\ withdrawal'[v].amount = withdrawal[v].amount
  BY <1>1 DEF W!SetRowStatus, WalletIInv, WithdrawalPart, RowShape
<1>3. QED
  BY <1>1, <1>2, RowsStay DEF W!SetRowStatus

LEMMA PromoteStays ==
  ASSUME WalletIInv, UNCHANGED tradeVars, W!AutoPromote
  PROVE  UNCHANGED Promise!escrowVars
<1>1. ASSUME NEW v \in Requests
      PROVE  \/ withdrawal'[v] = withdrawal[v]
             \/ /\ {withdrawal[v].status, withdrawal'[v].status} \subseteq W!Rejectable
                /\ withdrawal'[v].amount = withdrawal[v].amount
  <2>1. withdrawal[v] \in RowShape
    BY DEF WalletIInv, WithdrawalPart
  <2>2. QED
    BY <2>1 DEF W!AutoPromote, W!HoldIsOver, W!Rejectable, RowShape
<1>2. QED
  BY <1>1, RowsStay DEF W!AutoPromote

(* Trades and withdrawals together are claims on one escrow, for every      *)
(* number of each: between them they never hold money that was not there.   *)
THEOREM WalletRefinesEscrow == Spec => WalletImplementsEscrow
<1>1. ASSUME Init PROVE Promise!Init
  <2>1. Balance(account) \in Nat
    BY <1>1, OpeningAssumption DEF Init, AccountInit, Balance
  <2>2. \A d \in Orders \cup Requests : Claim(d) = Promise!NoClaim
    BY <1>1, NothingClaimed
       DEF Init, T!TradeInit, W!WithdrawalInit, Claim, T!TradeClaim, T!NoTrade, W!NoRow,
           Promise!NoClaim
  <2>3. QED
    BY <2>1, <2>2 DEF Promise!Init, Claim
<1>2. WalletIInv /\ [Next]_vars => [Promise!Next]_(Promise!escrowVars)
  <2> SUFFICES ASSUME WalletIInv, [Next]_vars PROVE [Promise!Next]_(Promise!escrowVars)
    OBVIOUS
  <2>1. CASE T!TradeNext /\ UNCHANGED withdrawalVars
    <3>1. \/ UNCHANGED <<account, trade>>
          \/ \E o \in Orders : T!DebitStake(o)
          \/ \E s \in Settlers : T!ApplySettlement(s)
      BY <2>1 DEF T!TradeNext, T!OpenStep, T!SettleStep, T!RequestTrade, T!ReadAccount,
                  T!DebitConflict, T!LoadOpenTrade, T!AlreadySettled
    <3>2. QED
      BY <2>1, <3>1, TradesStay, DebitHolds, ApplyReleases
  <2>2. CASE W!WithdrawalNext /\ UNCHANGED tradeVars
    <3>1. \/ UNCHANGED <<account, user, withdrawal>>
          \/ \E w \in Requests : \/ W!ShowWithdrawal(w) \/ W!PlaceWithdrawal(w)
                                 \/ W!MarkPaid(w) /\ ~W!IsAffiliate
                                 \/ W!ReleaseHeld(w) \/ W!Approve(w)
          \/ \E c \in Refunders : W!CommitRefund(c)
          \/ W!AutoPromote
      BY <2>2 DEF W!WithdrawalNext, W!RequestStep, W!ReviewStep, W!RefundStep, W!Request,
                  W!ReadBalance, W!PlaceConflict, W!BeginRefund, W!ClaimRow,
                  W!RefundConflict, W!Tick, W!Listed
    <3>2. ASSUME NEW w \in Requests, W!ShowWithdrawal(w)
          PROVE  UNCHANGED Promise!escrowVars
      <4>1. W!IsAffiliate
        BY <3>2 DEF W!ShowWithdrawal, WalletIInv, WithdrawalPart, RequestOK
      <4>2. QED
        BY <2>2, <3>2, <4>1, RowsStay DEF W!ShowWithdrawal
    <3>3. QED
      BY <2>2, <3>1, <3>2, RowsStay, PlaceHolds, PaidReleases, ReviewStays, CommitReleases,
         PromoteStays
  <2>3. CASE UNCHANGED account /\ UNCHANGED tradeVars /\ UNCHANGED withdrawalVars
    BY <2>3, TradesStay DEF tradeVars
  <2>4. QED
    BY <2>1, <2>2, <2>3 DEF Next, vars, accountVars, SetUserStatus
<1>3. QED
  BY <1>1, <1>2, SpecWalletIInv, PTL DEF Spec, WalletImplementsEscrow, Promise!Spec
=============================================================================
