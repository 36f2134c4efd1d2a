------------------------------ MODULE OtcProofs ------------------------------
(***************************************************************************)
(* For every number of orders and writers, crashes, lost locks and saved   *)
(* markets: what the database holds is what one writer that never failed   *)
(* would have written, the checkpoint leaves nothing behind and never goes *)
(* back, and an order is a claim on an escrow.                             *)
(***************************************************************************)
EXTENDS Otc, SequenceTheorems, TLAPS

LogStatus   == {"ACCEPTED", "APPLIED", "REJECTED"}
LogResult   == [filled: BOOLEAN, entry: Seq(Nat)]
LogRow      == [kind: {"open", "advance"}, key: Keys, time: Nat, stake: Nat, fromBonus: Int,
                status: LogStatus, result: LogResult]
TradeRow    == [status: {"NONE", "OPEN"} \cup Settled, entry: Seq(Nat)]
Contract    == [status: {"NONE", "OPEN"} \cup Settled, entry: Seq(Nat), end: Nat]
World       == [time: Nat, fed: Seq(Nat), contracts: [Keys -> Contract]]
WriterState == [pc: {"down", "restored", "drain", "settle", "idle"}, world: World, mark: Nat]

Typed ==
  /\ account \in AccountRecord /\ wal \in Seq(LogRow) /\ trade \in [Keys -> TradeRow]
  /\ checkpoint \in [generation: Writers \cup {NoWriter}, sequence: Nat, world: World]
  /\ writer \in [Writers -> WriterState]
  /\ now \in Nat /\ fate \in [Keys -> Fates]

(* A row of the log says what one writer that never failed would have said: *)
(* it answers the order in its place, and its trade, if any, says the same. *)
AnswerAt(fates, k, i) ==
  IF fates[k].filled THEN [filled |-> TRUE, entry |-> UpTo(i - 1)] ELSE NoResult

OrderRow(row, t, fates, i) ==
  /\ row.stake > 0
  /\ row.status = "ACCEPTED" => t.status = "NONE" /\ ~row.result.filled
  /\ row.status # "ACCEPTED" => row.result = AnswerAt(fates, row.key, i)
  /\ row.status = "APPLIED" =>
       fates[row.key].filled /\ t.status # "NONE" /\ t.entry = UpTo(i - 1)
  /\ row.status = "REJECTED" => ~fates[row.key].filled /\ t.status = "NONE"

RightLog(log, trades, fates) ==
  /\ \A i, j \in 1..Len(log) :
       log[i].kind = "open" /\ log[j].kind = "open" /\ log[i].key = log[j].key => i = j
  /\ \A i \in 1..Len(log) : IF log[i].kind = "open"
                            THEN OrderRow(log[i], trades[log[i].key], fates, i)
                            ELSE ~log[i].result.filled
  /\ \A k \in Keys :
       /\ trades[k].status \in {"NONE", "OPEN", fates[k].status}
       /\ trades[k].status # "NONE" =>
            \E i \in 1..Len(log) : log[i].kind = "open" /\ log[i].key = k

LogInv == RightLog(wal, trade, fate)

(* A market that was fed the first n rows of the log: they are answered, it *)
(* remembers what is still open of them, and what it remembers is right.    *)
Remembers(log, trades, fates, world, n) ==
  /\ n \in 0..Len(log)
  /\ world.fed = UpTo(n)
  /\ \A i \in 1..n :
       /\ log[i].status # "ACCEPTED"
       /\ log[i].kind = "open" /\ trades[log[i].key].status = "OPEN" =>
            world.contracts[log[i].key].status # "NONE"
  /\ \A k \in Keys : world.contracts[k].status # "NONE" =>
       /\ trades[k].status # "NONE" /\ world.contracts[k].entry = trades[k].entry
       /\ world.contracts[k].status \in {"OPEN", fates[k].status}

Eaten(s) == IF s.pc = "settle" THEN s.mark + 1 ELSE s.mark

WriterInv ==
  \A w \in Writers :
    /\ Remembers(wal, trade, fate, writer[w].world, Eaten(writer[w]))
    /\ writer[w].pc = "idle" /\ HoldsFence(w) => writer[w].mark = Len(wal)

CheckpointInv == Remembers(wal, trade, fate, checkpoint.world, checkpoint.sequence)

OtcIInv ==
  /\ Typed
  /\ LogInv
  /\ WriterInv
  /\ CheckpointInv

USE WriterAssumption, FateAssumption, OrderAssumption

----------------------------------------------------------------------------
(* Rows and markets. *)

LEMMA UpToSeq ==
  ASSUME NEW n \in Nat
  PROVE  UpTo(n) \in Seq(Nat) /\ Len(UpTo(n)) = n /\ \A i \in 1..n : UpTo(n)[i] = i
<1>1. UpTo(n) \in [1..n -> Nat]
  BY DEF UpTo
<1>2. UpTo(n) \in Seq(Nat)
  BY <1>1, SeqDef
<1>3. DOMAIN UpTo(n) = 1..n /\ \A i \in 1..n : UpTo(n)[i] = i
  BY DEF UpTo
<1>4. Len(UpTo(n)) = n
  BY <1>2, <1>3, LenProperties
<1>5. QED
  BY <1>2, <1>3, <1>4

LEMMA UpToZero == UpTo(0) = <<>>
<1>1. UpTo(0) \in Seq(Nat) /\ Len(UpTo(0)) = 0
  BY UpToSeq
<1>2. QED
  BY <1>1, EmptySeq

LEMMA UpToNext ==
  ASSUME NEW n \in Nat
  PROVE  Append(UpTo(n), n + 1) = UpTo(n + 1)
<1>1. PICK s \in Seq(Nat) : s = UpTo(n)
  BY UpToSeq
<1>2. PICK t \in Seq(Nat) : t = UpTo(n + 1)
  BY UpToSeq
<1>3. Len(s) = n /\ \A i \in 1..n : s[i] = i
  BY <1>1, UpToSeq
<1>4. Len(t) = n + 1 /\ \A i \in 1..(n + 1) : t[i] = i
  BY <1>2, UpToSeq
<1>5. PICK u : u = Append(s, n + 1)
  OBVIOUS
<1>6. /\ u \in Seq(Nat) /\ Len(u) = n + 1
      /\ \A i \in 1..(n + 1) : u[i] = i
  BY <1>3, <1>5
<1>7. u = t
  BY <1>4, <1>6, SeqEqual
<1>8. QED
  BY <1>1, <1>2, <1>5, <1>7

LEMMA FateKinds ==
  ASSUME Typed, NEW k \in Keys
  PROVE  /\ fate[k].filled \in BOOLEAN /\ fate[k].status \in Settled /\ fate[k].life \in Nat
         /\ fate[k].status # "NONE" /\ fate[k].status # "OPEN"
<1>1. fate[k] \in [filled: BOOLEAN, status: {"WON", "LOST", "REFUNDED"}, life: 1..Duration]
  BY DEF Typed
<1>2. QED
  BY <1>1 DEF Settled

(* As time goes by, open contracts end as their fate says.                  *)
OnlyEnds(old, new, fates) ==
  \A k \in Keys :
    /\ new[k].entry = old[k].entry
    /\ new[k].status = old[k].status \/ (old[k].status = "OPEN" /\ new[k].status = fates[k].status)

LEMMA MarketMoves ==
  ASSUME Typed, NEW world \in World, NEW time \in Nat
  PROVE  /\ Advanced(world, time) \in World
         /\ Advanced(world, time).fed = world.fed
         /\ OnlyEnds(world.contracts, Advanced(world, time).contracts, fate)
<1>1. PICK later \in Nat : later = LaterOf(world.time, time)
  BY DEF LaterOf, World
<1>2. PICK old \in [Keys -> Contract] : old = world.contracts
  BY DEF World
<1>3. PICK new : new = [k \in Keys |-> IF old[k].status = "OPEN" /\ old[k].end <= later
                                       THEN [old[k] EXCEPT !.status = fate[k].status] ELSE old[k]]
  OBVIOUS
<1>4. PICK next : next = [world EXCEPT !.time = later, !.contracts = new]
  OBVIOUS
<1>5. Advanced(world, time) = next
  BY <1>1, <1>2, <1>3, <1>4 DEF Advanced
<1>6. ASSUME NEW k \in Keys
      PROVE  /\ new[k] \in Contract
             /\ new[k].entry = old[k].entry
             /\ new[k].status = old[k].status \/ (old[k].status = "OPEN" /\ new[k].status = fate[k].status)
  <2>1. PICK c \in Contract : c = old[k]
    BY <1>2
  <2>2. PICK d : d = [c EXCEPT !.status = fate[k].status]
    OBVIOUS
  <2>3. d \in Contract /\ d.entry = c.entry /\ d.status = fate[k].status
    BY <2>1, <2>2, FateKinds DEF Contract
  <2>4. new[k] = IF c.status = "OPEN" /\ c.end <= later THEN d ELSE c
    BY <1>3, <2>1, <2>2
  <2>5. QED
    BY <2>1, <2>3, <2>4
<1>7. new \in [Keys -> Contract]
  BY <1>3, <1>6
<1>8. next \in World /\ next.fed = world.fed /\ next.contracts = new /\ next.time = later
  BY <1>1, <1>4, <1>7 DEF World
<1>9. OnlyEnds(old, new, fate)
  BY <1>6 DEF OnlyEnds
<1>10. QED
  BY <1>2, <1>5, <1>8, <1>9

(* The contracts after an order for k, or a row of another kind, was fed.   *)
FedWith(world, fed, kind, k, fates) ==
  IF kind = "open" /\ fates[k].filled
  THEN /\ fed.contracts[k].status = "OPEN" /\ fed.contracts[k].entry = world.fed
       /\ \E old \in [Keys -> Contract] :
            /\ OnlyEnds(world.contracts, old, fates)
            /\ \A j \in Keys \ {k} : fed.contracts[j] = old[j]
  ELSE OnlyEnds(world.contracts, fed.contracts, fates)

LEMMA MarketFed ==
  ASSUME Typed, NEW world \in World, NEW i \in 1..Len(wal)
  PROVE  /\ wal[i].key \in Keys
         /\ Fed(world, i) \in World /\ Fed(world, i).fed = Append(world.fed, i)
         /\ FedWith(world, Fed(world, i), wal[i].kind, wal[i].key, fate)
<1>1. PICK row \in LogRow : row = wal[i]
  BY ElementOfSeq DEF Typed
<1>2. PICK k \in Keys : k = row.key
  BY <1>1 DEF LogRow
<1>3. i \in Nat /\ row.time \in Nat
  BY <1>1 DEF LogRow
<1>4. PICK moved \in World : moved = Advanced(world, row.time)
  BY <1>3, MarketMoves
<1>5. moved.fed = world.fed /\ OnlyEnds(world.contracts, moved.contracts, fate)
  BY <1>3, <1>4, MarketMoves
<1>6. PICK grown \in Seq(Nat) : grown = Append(world.fed, i)
  <2>1. PICK f \in Seq(Nat) : f = world.fed
    BY DEF World
  <2>2. Append(f, i) \in Seq(Nat)
    BY <1>3
  <2>3. QED
    BY <2>1, <2>2
<1>7. PICK c : c = [status |-> "OPEN", entry |-> moved.fed, end |-> moved.time + fate[k].life]
  OBVIOUS
<1>8. c \in Contract /\ c.status = "OPEN" /\ c.entry = moved.fed
  <2>1. moved.fed \in Seq(Nat) /\ moved.time + fate[k].life \in Nat
    BY <1>4, FateKinds DEF World
  <2>2. QED
    BY <1>7, <2>1 DEF Contract
<1>9. PICK old \in [Keys -> Contract] : old = moved.contracts
  BY <1>4 DEF World
<1>10. PICK held : held = [old EXCEPT ![k] = c]
  OBVIOUS
<1>11. held \in [Keys -> Contract] /\ held[k] = c /\ \A j \in Keys \ {k} : held[j] = old[j]
  BY <1>8, <1>9, <1>10
<1>12. PICK after : after = IF row.kind = "open" /\ fate[k].filled
                            THEN [moved EXCEPT !.contracts = held] ELSE moved
  OBVIOUS
<1>13. /\ after \in World /\ after.fed = moved.fed
       /\ after.contracts = IF row.kind = "open" /\ fate[k].filled THEN held ELSE old
  <2>1. CASE row.kind = "open" /\ fate[k].filled
    <3>1. after = [moved EXCEPT !.contracts = held]
      BY <1>12, <2>1
    <3>2. QED
      BY <1>4, <1>11, <2>1, <3>1 DEF World
  <2>2. CASE ~(row.kind = "open" /\ fate[k].filled)
    BY <1>9, <1>12, <2>2
  <2>3. QED
    BY <2>1, <2>2
<1>14. Fed(world, i) = [after EXCEPT !.fed = grown]
  <2>1. Opened(moved, k) = IF fate[k].filled THEN [moved EXCEPT !.contracts = held] ELSE moved
    BY <1>7, <1>9, <1>10 DEF Opened
  <2>2. after = IF row.kind = "open" THEN Opened(moved, k) ELSE moved
    BY <1>12, <2>1
  <2>3. after.fed = world.fed
    BY <1>5, <1>13
  <2>4. QED
    BY <1>1, <1>2, <1>4, <1>6, <2>2, <2>3 DEF Fed
<1>15. PICK fed : fed = [after EXCEPT !.fed = grown]
  OBVIOUS
<1>16. fed \in World /\ fed.fed = grown /\ fed.contracts = after.contracts
  BY <1>13, <1>15 DEF World
<1>17. CASE row.kind = "open" /\ fate[k].filled
  <2>1. fed.contracts = held
    BY <1>13, <1>16, <1>17
  <2>2. OnlyEnds(world.contracts, old, fate)
    BY <1>5, <1>9
  <2>3. fed.contracts[k].status = "OPEN" /\ fed.contracts[k].entry = world.fed
    BY <1>5, <1>8, <1>11, <2>1
  <2>4. \E o \in [Keys -> Contract] :
          /\ OnlyEnds(world.contracts, o, fate)
          /\ \A j \in Keys \ {k} : fed.contracts[j] = o[j]
    BY <1>11, <2>1, <2>2
  <2>5. fed = Fed(world, i) /\ k = wal[i].key /\ row = wal[i]
    BY <1>1, <1>2, <1>14, <1>15
  <2>6. k \in Keys /\ fed \in World /\ fed.fed = Append(world.fed, i)
    BY <1>6, <1>16
  <2>7. QED
    BY ONLY <1>17, <2>3, <2>4, <2>5, <2>6 DEF FedWith
<1>18. CASE ~(row.kind = "open" /\ fate[k].filled)
  <2>1. OnlyEnds(world.contracts, fed.contracts, fate)
    BY <1>5, <1>9, <1>13, <1>16, <1>18
  <2>2. QED
    BY <1>1, <1>2, <1>6, <1>14, <1>15, <1>16, <1>18, <2>1 DEF FedWith
<1>19. QED
  BY <1>17, <1>18

----------------------------------------------------------------------------
(* The log grows and its rows are answered, and nothing is taken back.      *)
Onward(log, log2, trades, trades2) ==
  /\ Len(log) <= Len(log2)
  /\ \A i \in 1..Len(log) :
       /\ log2[i].kind = log[i].kind /\ log2[i].key = log[i].key
       /\ log[i].status # "ACCEPTED" =>
            /\ log2[i].status # "ACCEPTED"
            /\ log[i].kind = "open" /\ trades2[log[i].key].status = "OPEN" =>
                 trades[log[i].key].status = "OPEN"
  /\ \A k \in Keys : trades[k].status # "NONE" =>
       trades2[k].status # "NONE" /\ trades2[k].entry = trades[k].entry

LEMMA RememberKept ==
  ASSUME NEW log \in Seq(LogRow), NEW log2 \in Seq(LogRow), NEW trades, NEW trades2, NEW fates,
         NEW world \in World, NEW n \in Nat,
         Onward(log, log2, trades, trades2), Remembers(log, trades, fates, world, n)
  PROVE  Remembers(log2, trades2, fates, world, n)
<1>1. Len(log) \in Nat /\ Len(log2) \in Nat /\ n \in 0..Len(log) /\ Len(log) <= Len(log2)
  BY DEF Remembers, Onward
<1>2. n \in 0..Len(log2) /\ \A i \in 1..n : i \in 1..Len(log)
  BY <1>1
<1>3. \A i \in 1..n :
        /\ log2[i].status # "ACCEPTED"
        /\ log2[i].kind = "open" /\ trades2[log2[i].key].status = "OPEN" =>
             world.contracts[log2[i].key].status # "NONE"
  BY <1>2 DEF Remembers, Onward
<1>4. \A k \in Keys : world.contracts[k].status # "NONE" =>
        /\ trades2[k].status # "NONE" /\ world.contracts[k].entry = trades2[k].entry
        /\ world.contracts[k].status \in {"OPEN", fates[k].status}
  BY DEF Remembers, Onward
<1>5. QED
  BY <1>2, <1>3, <1>4 DEF Remembers

(* A market that is fed a row that is answered, now or long ago.            *)
LEMMA FedRemembers ==
  ASSUME NEW log \in Seq(LogRow), NEW trades \in [Keys -> TradeRow], NEW fates \in [Keys -> Fates],
         RightLog(log, trades, fates), NEW world \in World, NEW n \in Nat,
         Remembers(log, trades, fates, world, n), n + 1 <= Len(log),
         log[n + 1].status # "ACCEPTED",
         NEW k \in Keys, k = log[n + 1].key,
         NEW fed \in World, fed.fed = Append(world.fed, n + 1),
         FedWith(world, fed, log[n + 1].kind, k, fates)
  PROVE  Remembers(log, trades, fates, fed, n + 1)
<1>1. Len(log) \in Nat /\ n + 1 \in 1..Len(log) /\ log[n + 1] \in LogRow
  BY ElementOfSeq
<1>2. fed.fed = UpTo(n + 1)
  BY UpToNext DEF Remembers
<1>3. ASSUME NEW j \in Keys PROVE fates[j].status # "NONE"
  <2>1. fates[j] \in [filled: BOOLEAN, status: {"WON", "LOST", "REFUNDED"}, life: 1..Duration]
    OBVIOUS
  <2>2. QED
    BY <2>1
<1>4. \A j \in Keys : IF log[n + 1].kind = "open" /\ fates[k].filled /\ j = k
        THEN fed.contracts[j].status = "OPEN" /\ fed.contracts[j].entry = world.fed
        ELSE /\ fed.contracts[j].entry = world.contracts[j].entry
             /\ \/ fed.contracts[j].status = world.contracts[j].status
                \/ world.contracts[j].status = "OPEN" /\ fed.contracts[j].status = fates[j].status
  BY DEF FedWith, OnlyEnds
<1>5. \A j \in Keys : world.contracts[j].status # "NONE" => fed.contracts[j].status # "NONE"
  BY <1>3, <1>4
<1>6. log[n + 1].kind = "open" =>
        /\ log[n + 1].status \in {"APPLIED", "REJECTED"}
        /\ OrderRow(log[n + 1], trades[k], fates, n + 1)
  BY <1>1 DEF RightLog, LogRow, LogStatus
<1>7. ASSUME NEW i \in 1..(n + 1)
      PROVE  /\ log[i].status # "ACCEPTED"
             /\ log[i].kind = "open" /\ trades[log[i].key].status = "OPEN" =>
                  fed.contracts[log[i].key].status # "NONE"
  <2>1. CASE i = n + 1
    BY <1>4, <1>6, <2>1 DEF OrderRow
  <2>2. CASE i \in 1..n
    <3>1. log[i].key \in Keys
      <4>1. i \in 1..Len(log)
        BY <1>1, <2>2
      <4>2. log[i] \in LogRow
        BY <4>1, ElementOfSeq
      <4>3. QED
        BY <4>2 DEF LogRow
    <3>2. QED
      BY <1>5, <2>2, <3>1 DEF Remembers
  <2>3. QED
    BY <2>1, <2>2
<1>8. ASSUME NEW j \in Keys, fed.contracts[j].status # "NONE"
      PROVE  /\ trades[j].status # "NONE" /\ fed.contracts[j].entry = trades[j].entry
             /\ fed.contracts[j].status \in {"OPEN", fates[j].status}
  <2>1. CASE log[n + 1].kind = "open" /\ fates[k].filled /\ j = k
    <3>1. log[n + 1].status = "APPLIED"
      BY <1>6, <2>1 DEF OrderRow
    <3>2. trades[k].status # "NONE" /\ trades[k].entry = UpTo(n + 1 - 1) /\ n + 1 - 1 = n
      BY <1>6, <2>1, <3>1 DEF OrderRow
    <3>3. world.fed = UpTo(n)
      BY DEF Remembers
    <3>4. QED
      BY <1>4, <2>1, <3>2, <3>3
  <2>2. CASE ~(log[n + 1].kind = "open" /\ fates[k].filled /\ j = k)
    <3>1. /\ fed.contracts[j].entry = world.contracts[j].entry
          /\ \/ fed.contracts[j].status = world.contracts[j].status
             \/ world.contracts[j].status = "OPEN" /\ fed.contracts[j].status = fates[j].status
      BY <1>4, <2>2
    <3>2. world.contracts[j].status # "NONE"
      BY <1>8, <3>1
    <3>3. QED
      BY <3>1, <3>2 DEF Remembers
  <2>3. QED
    BY <2>1, <2>2
<1>9. QED
  BY <1>1, <1>2, <1>7, <1>8 DEF Remembers

(* What answering row n, with key k, does to it and to its trade. *)
AnswerIs(row, row2, trades, trades2, fates, k, n) ==
  IF row.kind = "open"
  THEN /\ row2.result = AnswerAt(fates, k, n)
       /\ IF fates[k].filled
          THEN /\ row2.status = "APPLIED"
               /\ trades2[k].status = "OPEN" /\ trades2[k].entry = UpTo(n - 1)
               /\ \A j \in Keys : j # k => trades2[j] = trades[j]
          ELSE row2.status = "REJECTED" /\ trades2 = trades
  ELSE ~row2.result.filled /\ row2.status # "ACCEPTED" /\ trades2 = trades

LEMMA RowAnswered ==
  ASSUME NEW log \in Seq(LogRow), NEW trades \in [Keys -> TradeRow], NEW fates \in [Keys -> Fates],
         NEW log2 \in Seq(LogRow), NEW trades2 \in [Keys -> TradeRow],
         RightLog(log, trades, fates), NEW n \in 1..Len(log), Len(log2) = Len(log),
         \A i \in 1..Len(log) : i # n => log2[i] = log[i],
         NEW k \in Keys, k = log[n].key, log[n].status = "ACCEPTED",
         log2[n].kind = log[n].kind, log2[n].key = log[n].key, log2[n].stake = log[n].stake,
         AnswerIs(log[n], log2[n], trades, trades2, fates, k, n)
  PROVE  RightLog(log2, trades2, fates) /\ Onward(log, log2, trades, trades2)
<1>0. IF log[n].kind = "open"
      THEN /\ log2[n].result = AnswerAt(fates, k, n)
           /\ IF fates[k].filled
              THEN /\ log2[n].status = "APPLIED"
                   /\ trades2[k].status = "OPEN" /\ trades2[k].entry = UpTo(n - 1)
                   /\ \A j \in Keys : j # k => trades2[j] = trades[j]
              ELSE log2[n].status = "REJECTED" /\ trades2 = trades
      ELSE ~log2[n].result.filled /\ log2[n].status # "ACCEPTED" /\ trades2 = trades
  BY DEF AnswerIs
<1>1. ASSUME NEW i \in 1..Len(log)
      PROVE  log2[i].kind = log[i].kind /\ log2[i].key = log[i].key
  <2>1. CASE i = n
    BY <1>0, <2>1
  <2>2. CASE i # n
    BY <1>0, <2>2
  <2>3. QED
    BY <1>0, <2>1, <2>2
<1>2. ASSUME NEW i \in 1..Len(log)
      PROVE  log[i].key \in Keys
  <2>1. log[i] \in LogRow
    BY <1>0, ElementOfSeq
  <2>2. QED
    BY <1>0, <2>1 DEF LogRow
<1>3. log[n].kind = "open" => trades[k].status = "NONE"
  BY <1>0 DEF RightLog, OrderRow
<1>4. \A i \in 1..Len(log) : log[n].kind = "open" /\ log[i].kind = "open" /\ i # n => log[i].key # k
  BY <1>0 DEF RightLog
<1>5. \A i \in 1..Len(log) : log[i].kind = "open" /\ i # n => trades2[log[i].key] = trades[log[i].key]
  BY <1>0, <1>2, <1>4
<1>6. \A i, j \in 1..Len(log2) :
        log2[i].kind = "open" /\ log2[j].kind = "open" /\ log2[i].key = log2[j].key => i = j
  BY <1>0, <1>1 DEF RightLog
<1>7. ASSUME NEW i \in 1..Len(log2)
      PROVE  IF log2[i].kind = "open" THEN OrderRow(log2[i], trades2[log2[i].key], fates, i)
             ELSE ~log2[i].result.filled
  <2>1. CASE i # n
    <3>1. log2[i] = log[i] /\ i \in 1..Len(log)
      BY <1>0, <2>1
    <3>2. log[i].kind = "open" => trades2[log[i].key] = trades[log[i].key]
      BY <1>0, <1>5, <2>1, <3>1
    <3>3. QED
      BY <1>0, <3>1, <3>2 DEF RightLog
  <2>2. CASE i = n /\ log[n].kind = "open"
    <3>1. log[n].stake > 0
      BY <1>0, <2>2 DEF RightLog, OrderRow
    <3>2. CASE fates[k].filled
      BY <1>0, <2>2, <3>1, <3>2 DEF OrderRow
    <3>3. CASE ~fates[k].filled
      BY <1>0, <1>3, <2>2, <3>1, <3>3 DEF OrderRow
    <3>4. QED
      BY <1>0, <3>2, <3>3
  <2>3. CASE i = n /\ log[n].kind # "open"
    BY <1>0, <2>3
  <2>4. QED
    BY <1>0, <2>1, <2>2, <2>3
<1>8. ASSUME NEW j \in Keys
      PROVE  /\ trades2[j].status \in {"NONE", "OPEN", fates[j].status}
             /\ trades2[j].status # "NONE" =>
                  \E i \in 1..Len(log2) : log2[i].kind = "open" /\ log2[i].key = j
  <2>1. CASE j = k /\ log[n].kind = "open" /\ fates[k].filled
    <3>1. n \in 1..Len(log2) /\ log2[n].kind = "open" /\ log2[n].key = j
      BY <1>0, <2>1
    <3>2. trades2[j].status = "OPEN"
      BY <1>0, <2>1
    <3>3. QED
      BY <1>0, <3>1, <3>2
  <2>2. CASE ~(j = k /\ log[n].kind = "open" /\ fates[k].filled)
    <3>1. trades2[j] = trades[j]
      BY <1>0, <2>2
    <3>2. /\ trades[j].status \in {"NONE", "OPEN", fates[j].status}
          /\ trades[j].status # "NONE" =>
               \E i \in 1..Len(log) : log[i].kind = "open" /\ log[i].key = j
      BY <1>0 DEF RightLog
    <3>3. ASSUME trades[j].status # "NONE"
          PROVE  \E i \in 1..Len(log2) : log2[i].kind = "open" /\ log2[i].key = j
      <4>1. PICK i \in 1..Len(log) : log[i].kind = "open" /\ log[i].key = j
        BY <1>0, <3>2, <3>3
      <4>2. i \in 1..Len(log2) /\ log2[i].kind = "open" /\ log2[i].key = j
        BY <1>0, <1>1, <4>1
      <4>3. QED
        BY <1>0, <4>2
    <3>4. QED
      BY <1>0, <3>1, <3>2, <3>3
  <2>3. QED
    BY <1>0, <2>1, <2>2
<1>9. RightLog(log2, trades2, fates)
  BY <1>0, <1>6, <1>7, <1>8 DEF RightLog
<1>10. ASSUME NEW i \in 1..Len(log), log[i].status # "ACCEPTED"
       PROVE  /\ log2[i].status # "ACCEPTED"
              /\ log[i].kind = "open" /\ trades2[log[i].key].status = "OPEN" =>
                   trades[log[i].key].status = "OPEN"
  BY <1>0, <1>5, <1>10
<1>11. ASSUME NEW j \in Keys, trades[j].status # "NONE"
       PROVE  trades2[j].status # "NONE" /\ trades2[j].entry = trades[j].entry
  BY <1>0, <1>3, <1>11
<1>12. Onward(log, log2, trades, trades2)
  BY <1>0, <1>1, <1>10, <1>11 DEF Onward
<1>13. QED
  BY <1>0, <1>9, <1>12

LEMMA NothingChanges ==
  ASSUME NEW log \in Seq(LogRow), NEW trades
  PROVE  Onward(log, log, trades, trades)
  BY DEF Onward

(* A step of one writer. *)
LEMMA WriterMoves ==
  ASSUME OtcIInv, UNCHANGED fate, account' \in AccountRecord, wal' \in Seq(LogRow),
         trade' \in [Keys -> TradeRow], now' \in Nat, LogInv',
         checkpoint' \in [generation: Writers \cup {NoWriter}, sequence: Nat, world: World],
         Onward(wal, wal', trade, trade'), CheckpointInv',
         NEW w \in Writers, NEW new \in WriterState, writer' = [writer EXCEPT ![w] = new],
         Remembers(wal', trade', fate, new.world, Eaten(new)),
         new.pc = "idle" /\ checkpoint'.generation = w => new.mark = Len(wal'),
         \A u \in Writers : u # w /\ checkpoint'.generation = u =>
           checkpoint.generation = u /\ Len(wal') = Len(wal)
  PROVE  OtcIInv'
<1>1. /\ writer'[w] = new /\ writer' \in [Writers -> WriterState]
      /\ \A u \in Writers : u # w => writer'[u] = writer[u]
  BY DEF OtcIInv, Typed
<1>2. Typed'
  BY <1>1 DEF OtcIInv, Typed
<1>3. ASSUME NEW u \in Writers
      PROVE  /\ Remembers(wal', trade', fate, writer'[u].world, Eaten(writer'[u]))
             /\ writer'[u].pc = "idle" /\ checkpoint'.generation = u => writer'[u].mark = Len(wal')
  <2>1. CASE u = w
    BY <1>1, <2>1
  <2>2. CASE u # w
    <3>1. PICK s \in WriterState : s = writer[u] /\ s = writer'[u]
      BY <1>1, <2>2 DEF OtcIInv, Typed
    <3>2. PICK n \in Nat : n = Eaten(s)
      BY DEF WriterState, Eaten
    <3>3. PICK world \in World : world = s.world
      BY DEF WriterState
    <3>4. wal \in Seq(LogRow) /\ Remembers(wal, trade, fate, world, n)
      BY <3>1, <3>2, <3>3 DEF OtcIInv, Typed, WriterInv
    <3>5. Remembers(wal', trade', fate, world, n)
      BY <3>4, RememberKept
    <3>6. s.pc = "idle" /\ checkpoint'.generation = u => s.mark = Len(wal')
      BY <2>2, <3>1 DEF OtcIInv, WriterInv, HoldsFence
    <3>7. QED
      BY <3>1, <3>2, <3>3, <3>5, <3>6
  <2>3. QED
    BY <2>1, <2>2
<1>4. WriterInv'
  BY <1>3 DEF WriterInv, HoldsFence
<1>5. QED
  BY <1>2, <1>4 DEF OtcIInv

LEMMA WriterAlone ==
  ASSUME OtcIInv, UNCHANGED <<account, wal, trade, checkpoint, fate>>, now' \in Nat,
         NEW w \in Writers, NEW new \in WriterState, writer' = [writer EXCEPT ![w] = new],
         Remembers(wal, trade, fate, new.world, Eaten(new)),
         new.pc = "idle" /\ HoldsFence(w) => new.mark = Len(wal)
  PROVE  OtcIInv'
<1>1. /\ account' \in AccountRecord /\ wal' \in Seq(LogRow) /\ trade' \in [Keys -> TradeRow]
      /\ checkpoint' \in [generation: Writers \cup {NoWriter}, sequence: Nat, world: World]
  BY DEF OtcIInv, Typed
<1>2. LogInv' /\ CheckpointInv'
  BY DEF OtcIInv, LogInv, CheckpointInv
<1>3. Onward(wal, wal', trade, trade')
  BY <1>1, NothingChanges
<1>4. /\ Remembers(wal', trade', fate, new.world, Eaten(new))
      /\ new.pc = "idle" /\ checkpoint'.generation = w => new.mark = Len(wal')
      /\ \A u \in Writers : u # w /\ checkpoint'.generation = u =>
           checkpoint.generation = u /\ Len(wal') = Len(wal)
  BY DEF HoldsFence
<1>5. QED
  BY <1>1, <1>2, <1>3, <1>4, WriterMoves

LEMMA DownRemembers ==
  ASSUME NEW log \in Seq(LogRow), NEW trades, NEW fates
  PROVE  Down \in WriterState /\ Down.pc = "down" /\ Remembers(log, trades, fates, Down.world, Eaten(Down))
<1>1. NoContract \in Contract /\ NoContract.status = "NONE"
  BY DEF NoContract, Contract
<1>2. /\ Seeded \in World /\ Seeded.fed = <<>>
      /\ \A k \in Keys : Seeded.contracts[k].status = "NONE"
  BY <1>1 DEF Seeded, World
<1>3. /\ Down \in WriterState /\ Down.pc = "down" /\ Down.world = Seeded /\ Eaten(Down) = 0
  BY <1>2 DEF Down, WriterState, Eaten
<1>4. Len(log) \in Nat
  OBVIOUS
<1>5. Remembers(log, trades, fates, Seeded, 0)
  BY <1>2, <1>4, UpToZero DEF Remembers
<1>6. QED
  BY <1>3, <1>5

LEMMA StopStep ==
  ASSUME OtcIInv, NEW w \in Writers, Stopped(w), UNCHANGED <<account, wal, trade, checkpoint, now, fate>>
  PROVE  OtcIInv'
<1>1. wal \in Seq(LogRow) /\ now' \in Nat /\ writer' = [writer EXCEPT ![w] = Down]
  BY DEF OtcIInv, Typed, Stopped
<1>2. /\ Down \in WriterState /\ Down.pc = "down"
      /\ Remembers(wal, trade, fate, Down.world, Eaten(Down))
  BY <1>1, DownRemembers
<1>3. QED
  BY <1>1, <1>2, WriterAlone

LEMMA AcquireStep ==
  ASSUME OtcIInv, NEW w \in Writers, Acquire(w)
  PROVE  OtcIInv'
<1>1. PICK new : new = [pc |-> "restored", world |-> checkpoint.world, mark |-> checkpoint.sequence]
  OBVIOUS
<1>2. /\ new \in WriterState /\ new.pc = "restored" /\ new.world = checkpoint.world
      /\ Eaten(new) = checkpoint.sequence
  BY <1>1 DEF OtcIInv, Typed, WriterState, Eaten
<1>3. /\ writer' = [writer EXCEPT ![w] = new] /\ now' \in Nat
      /\ UNCHANGED <<account, wal, trade, checkpoint, fate>>
  BY <1>1 DEF Acquire, databaseVars, accountVars, OtcIInv, Typed
<1>4. Remembers(wal, trade, fate, new.world, Eaten(new))
  BY <1>2 DEF OtcIInv, CheckpointInv
<1>5. QED
  BY <1>2, <1>3, <1>4, WriterAlone

LEMMA TakeGenerationStep ==
  ASSUME OtcIInv, NEW w \in Writers, TakeGeneration(w)
  PROVE  OtcIInv'
<1>1. PICK s \in WriterState : s = writer[w]
  BY DEF OtcIInv, Typed
<1>2. PICK new : new = [s EXCEPT !.pc = "drain"]
  OBVIOUS
<1>3. /\ s.pc = "restored" /\ writer' = [writer EXCEPT ![w] = new]
      /\ checkpoint' = [checkpoint EXCEPT !.generation = w]
      /\ UNCHANGED <<account, wal, trade, now, fate>>
  BY <1>1, <1>2 DEF TakeGeneration, accountVars, OtcIInv, Typed
<1>4. /\ new \in WriterState /\ new.pc = "drain" /\ new.world = s.world
      /\ Eaten(new) = Eaten(s)
  BY <1>2, <1>3 DEF WriterState, Eaten
<1>5. /\ checkpoint' \in [generation: Writers \cup {NoWriter}, sequence: Nat, world: World]
      /\ checkpoint'.generation = w /\ checkpoint'.sequence = checkpoint.sequence
      /\ checkpoint'.world = checkpoint.world
  BY <1>3 DEF OtcIInv, Typed
<1>6. /\ account' \in AccountRecord /\ wal' \in Seq(LogRow) /\ trade' \in [Keys -> TradeRow]
      /\ now' \in Nat
  BY <1>3 DEF OtcIInv, Typed
<1>7. LogInv' /\ CheckpointInv'
  BY <1>3, <1>5 DEF OtcIInv, LogInv, CheckpointInv
<1>8. Onward(wal, wal', trade, trade')
  BY <1>3, <1>6, NothingChanges
<1>9. Remembers(wal', trade', fate, new.world, Eaten(new))
  BY <1>1, <1>3, <1>4 DEF OtcIInv, WriterInv
<1>10. \A u \in Writers : u # w /\ checkpoint'.generation = u =>
         checkpoint.generation = u /\ Len(wal') = Len(wal)
  BY <1>5
<1>11. QED
  BY <1>3, <1>4, <1>5, <1>6, <1>7, <1>8, <1>9, <1>10, WriterMoves

LEMMA PassRowStep ==
  ASSUME OtcIInv, NEW w \in Writers, PassRow(w)
  PROVE  OtcIInv'
<1>1. PICK s \in WriterState : s = writer[w]
  BY DEF OtcIInv, Typed
<1>0. PICK n \in Nat : n = s.mark + 1
  BY DEF WriterState
<1>2. PICK new : new = [s EXCEPT !.pc = "drain", !.mark = n]
  OBVIOUS
<1>3. /\ s.pc = "settle" /\ writer' = [writer EXCEPT ![w] = new] /\ now' \in Nat
      /\ UNCHANGED <<account, wal, trade, checkpoint, fate>>
  BY <1>0, <1>1, <1>2 DEF PassRow, databaseVars, accountVars, OtcIInv, Typed
<1>4. /\ new \in WriterState /\ new.pc = "drain" /\ new.world = s.world
      /\ Eaten(new) = Eaten(s)
  <2>1. new \in WriterState /\ new.pc = "drain" /\ new.world = s.world /\ new.mark = n
    BY <1>2 DEF WriterState
  <2>2. QED
    BY <1>0, <1>3, <2>1 DEF Eaten
<1>5. Remembers(wal, trade, fate, new.world, Eaten(new))
  BY <1>1, <1>4 DEF OtcIInv, WriterInv
<1>6. QED
  BY <1>3, <1>4, <1>5, WriterAlone

LEMMA DrainedStep ==
  ASSUME OtcIInv, NEW w \in Writers, Drained(w)
  PROVE  OtcIInv'
<1>1. PICK s \in WriterState : s = writer[w]
  BY DEF OtcIInv, Typed
<1>2. PICK new : new = [s EXCEPT !.pc = "idle"]
  OBVIOUS
<1>3. /\ s.pc = "drain" /\ ~(s.mark + 1 <= Len(wal))
      /\ writer' = [writer EXCEPT ![w] = new] /\ now' \in Nat
      /\ UNCHANGED <<account, wal, trade, checkpoint, fate>>
  BY <1>1, <1>2 DEF Drained, HasRow, NextRow, databaseVars, accountVars, OtcIInv, Typed
<1>4. /\ new \in WriterState /\ new.pc = "idle" /\ new.world = s.world
      /\ Eaten(new) = Eaten(s) /\ new.mark = s.mark /\ Eaten(s) = s.mark /\ s.mark \in Nat
  BY <1>2, <1>3 DEF WriterState, Eaten
<1>5. Remembers(wal, trade, fate, new.world, Eaten(new))
  BY <1>1, <1>4 DEF OtcIInv, WriterInv
<1>6. new.mark = Len(wal)
  <2>1. new.mark \in 0..Len(wal) /\ Len(wal) \in Nat
    BY <1>4, <1>5 DEF Remembers, OtcIInv, Typed
  <2>2. QED
    BY <1>3, <1>4, <2>1
<1>7. QED
  BY <1>3, <1>4, <1>5, <1>6, WriterAlone

LEMMA CheckpointStep ==
  ASSUME OtcIInv, NEW w \in Writers, Checkpoint(w)
  PROVE  OtcIInv'
<1>1. PICK s \in WriterState : s = writer[w]
  BY DEF OtcIInv, Typed
<1>2. PICK world \in World : world = s.world
  BY DEF WriterState
<1>3. Saved(world) = world
  BY DEF Saved, World
<1>4. /\ s.pc = "idle" /\ HoldsFence(w) /\ s.mark \in Nat /\ Eaten(s) = s.mark
      /\ checkpoint' = [checkpoint EXCEPT !.sequence = s.mark, !.world = world]
      /\ UNCHANGED <<account, wal, trade, writer, now, fate>>
  BY <1>1, <1>2, <1>3 DEF Checkpoint, accountVars, WriterState, Eaten
<1>5. /\ checkpoint' \in [generation: Writers \cup {NoWriter}, sequence: Nat, world: World]
      /\ checkpoint'.generation = checkpoint.generation /\ checkpoint'.sequence = s.mark
      /\ checkpoint'.world = world
  BY <1>4 DEF OtcIInv, Typed
<1>6. CheckpointInv'
  BY <1>1, <1>2, <1>4, <1>5 DEF OtcIInv, WriterInv, CheckpointInv
<1>7. Typed' /\ LogInv'
  BY <1>4, <1>5 DEF OtcIInv, Typed, LogInv
<1>8. WriterInv'
  BY <1>4, <1>5 DEF OtcIInv, WriterInv, HoldsFence
<1>9. QED
  BY <1>6, <1>7, <1>8 DEF OtcIInv

----------------------------------------------------------------------------
(* Money. *)

LEMMA MoneyMoves ==
  ASSUME NEW a \in AccountRecord, NEW dReal \in Int, NEW dBonus \in Int
  PROVE  /\ Moved(a, dReal, dBonus) \in AccountRecord
         /\ Balance(Moved(a, dReal, dBonus)) = Balance(a) + dReal + dBonus
  BY DEF Moved, AccountRecord, Balance

LEMMA PayMoves ==
  ASSUME account \in AccountRecord, NEW row \in LogRow, row.stake > 0, NEW kind, NEW k,
         NEW credit \in Int, Pay(kind, credit, row, k)
  PROVE  account' \in AccountRecord /\ Balance(account)' = Balance(account) + credit
<1>1. PICK a \in AccountRecord : a = account
  OBVIOUS
<1>2. row.stake \in Nat \ {0} /\ row.fromBonus \in Int
  BY DEF LogRow
<1>3. PICK toBonus \in Int : toBonus = ToBonus(credit, row.stake, row.fromBonus)
  <2>1. PICK x \in Int, y \in Nat \ {0} : x = credit * row.fromBonus /\ y = row.stake
    BY <1>2
  <2>2. (x + y - 1) \div y \in Int
    OBVIOUS
  <2>3. QED
    BY <2>1, <2>2 DEF ToBonus, CeilDiv
<1>4. PICK toReal \in Int : toReal = credit - toBonus
  OBVIOUS
<1>5. account' = Moved(a, toReal, toBonus)
  BY <1>1, <1>3, <1>4 DEF Pay
<1>6. Balance(a) \in Int
  BY DEF Balance, AccountRecord
<1>7. Balance(account)' = Balance(Moved(a, toReal, toBonus))
  BY <1>5 DEF Balance
<1>8. QED
  BY <1>1, <1>4, <1>5, <1>6, <1>7, MoneyMoves

----------------------------------------------------------------------------
(* The log. *)

LEMMA RowAppended ==
  ASSUME NEW log \in Seq(LogRow), NEW row \in LogRow, NEW log2, log2 = Append(log, row),
         NEW trades \in [Keys -> TradeRow], NEW fates, RightLog(log, trades, fates),
         row.status = "ACCEPTED", ~row.result.filled,
         row.kind = "open" =>
           /\ row.stake > 0 /\ trades[row.key].status = "NONE"
           /\ \A i \in 1..Len(log) : ~(log[i].kind = "open" /\ log[i].key = row.key)
  PROVE  /\ log2 \in Seq(LogRow) /\ Len(log2) = Len(log) + 1
         /\ RightLog(log2, trades, fates) /\ Onward(log, log2, trades, trades)
<1>1. /\ log2 \in Seq(LogRow) /\ Len(log2) = Len(log) + 1 /\ Len(log) \in Nat
      /\ log2[Len(log) + 1] = row
      /\ \A i \in 1..Len(log) : log2[i] = log[i]
  OBVIOUS
<1>2. \A i \in 1..Len(log2) : i \in 1..Len(log) \/ i = Len(log) + 1
  BY <1>1
<1>3. \A i, j \in 1..Len(log2) :
        log2[i].kind = "open" /\ log2[j].kind = "open" /\ log2[i].key = log2[j].key => i = j
  BY <1>1, <1>2 DEF RightLog
<1>4. ASSUME NEW i \in 1..Len(log2)
      PROVE  IF log2[i].kind = "open" THEN OrderRow(log2[i], trades[log2[i].key], fates, i)
             ELSE ~log2[i].result.filled
  <2>1. CASE i \in 1..Len(log)
    BY <1>1, <2>1 DEF RightLog
  <2>2. CASE i = Len(log) + 1
    BY <1>1, <2>2 DEF OrderRow
  <2>3. QED
    BY <1>2, <2>1, <2>2
<1>5. ASSUME NEW k \in Keys
      PROVE  /\ trades[k].status \in {"NONE", "OPEN", fates[k].status}
             /\ trades[k].status # "NONE" =>
                  \E i \in 1..Len(log2) : log2[i].kind = "open" /\ log2[i].key = k
  <2>1. \A i \in 1..Len(log) : i \in 1..Len(log2)
    BY <1>1
  <2>2. QED
    BY <1>1, <2>1 DEF RightLog
<1>6. RightLog(log2, trades, fates)
  BY <1>3, <1>4, <1>5 DEF RightLog
<1>7. Onward(log, log2, trades, trades)
  BY <1>1 DEF Onward
<1>8. QED
  BY <1>1, <1>6, <1>7

(* A writer that appends to the log holds the fence.                        *)
LEMMA AppendStep ==
  ASSUME OtcIInv, NEW w \in Writers, NEW row \in LogRow, HoldsFence(w), writer[w].pc = "idle",
         wal' = Append(wal, row), writer' = [writer EXCEPT ![w].pc = "drain"],
         account' \in AccountRecord, UNCHANGED <<trade, checkpoint, now, fate>>,
         row.status = "ACCEPTED", ~row.result.filled,
         row.kind = "open" =>
           /\ row.stake > 0 /\ trade[row.key].status = "NONE"
           /\ \A i \in 1..Len(wal) : ~(wal[i].kind = "open" /\ wal[i].key = row.key)
  PROVE  OtcIInv'
<1>1. PICK s \in WriterState : s = writer[w]
  BY DEF OtcIInv, Typed
<1>2. PICK new : new = [s EXCEPT !.pc = "drain"]
  OBVIOUS
<1>3. /\ new \in WriterState /\ new.pc = "drain" /\ new.world = s.world /\ new.mark = s.mark
      /\ writer' = [writer EXCEPT ![w] = new]
  BY <1>1, <1>2 DEF WriterState, OtcIInv, Typed
<1>4. Eaten(new) = s.mark /\ Eaten(s) = s.mark
  BY <1>1, <1>3 DEF Eaten
<1>5. PICK log \in Seq(LogRow) : log = wal
  BY DEF OtcIInv, Typed
<1>6. PICK trades \in [Keys -> TradeRow] : trades = trade
  BY DEF OtcIInv, Typed
<1>7. PICK log2 : log2 = Append(log, row)
  OBVIOUS
<1>8. RightLog(log, trades, fate)
  BY <1>5, <1>6 DEF OtcIInv, LogInv
<1>9. /\ log2 \in Seq(LogRow) /\ RightLog(log2, trades, fate)
      /\ Onward(log, log2, trades, trades)
  BY <1>5, <1>6, <1>7, <1>8, RowAppended
<1>10. wal' = log2 /\ trade' = trades
  BY <1>5, <1>6, <1>7
<1>11. LogInv' /\ Onward(wal, wal', trade, trade')
  BY <1>5, <1>6, <1>9, <1>10 DEF LogInv
<1>12. PICK n \in Nat : n = s.mark
  BY DEF WriterState
<1>13. PICK world \in World : world = s.world
  BY DEF WriterState
<1>14. Remembers(log, trades, fate, world, n)
  BY <1>1, <1>4, <1>5, <1>6, <1>12, <1>13 DEF OtcIInv, WriterInv
<1>15. Remembers(log2, trades, fate, world, n)
  BY <1>9, <1>14, RememberKept
<1>16. PICK saved \in World, upto \in Nat : saved = checkpoint.world /\ upto = checkpoint.sequence
  BY DEF OtcIInv, Typed
<1>17. Remembers(log, trades, fate, saved, upto)
  BY <1>5, <1>6, <1>16 DEF OtcIInv, CheckpointInv
<1>18. Remembers(log2, trades, fate, saved, upto)
  BY <1>9, <1>17, RememberKept
<1>19. CheckpointInv'
  BY <1>10, <1>16, <1>18 DEF CheckpointInv
<1>20. /\ checkpoint' \in [generation: Writers \cup {NoWriter}, sequence: Nat, world: World]
       /\ now' \in Nat /\ wal' \in Seq(LogRow) /\ trade' \in [Keys -> TradeRow]
       /\ UNCHANGED fate
  BY <1>9, <1>10 DEF OtcIInv, Typed
<1>21. Remembers(wal', trade', fate, new.world, Eaten(new))
  BY <1>3, <1>4, <1>10, <1>12, <1>13, <1>15
<1>22. \A u \in Writers : u # w /\ checkpoint'.generation = u =>
         checkpoint.generation = u /\ Len(wal') = Len(wal)
  BY DEF HoldsFence
<1>23. QED
  BY <1>3, <1>11, <1>19, <1>20, <1>21, <1>22, WriterMoves

LEMMA ReserveStep ==
  ASSUME OtcIInv, NEW w \in Writers, NEW k \in Keys, NEW stake \in Stakes, Reserve(w, k, stake)
  PROVE  OtcIInv' /\ Balance(account)' = Balance(account) - stake
<1>1. PICK a \in AccountRecord : a = account
  BY DEF OtcIInv, Typed
<1>2. stake \in Nat /\ stake > 0
  OBVIOUS
<1>3. PICK fromReal \in Int : fromReal = FromReal(stake)
  BY <1>1, <1>2 DEF FromReal, AccountRecord
<1>4. PICK x \in Int, b \in Int, rest \in Int : x = -fromReal /\ b = fromReal - stake /\ rest = stake - fromReal
  <2>1. -fromReal \in Int /\ fromReal - stake \in Int /\ stake - fromReal \in Int
    BY <1>2
  <2>2. QED
    BY ONLY <2>1, Zenon
<1>5. PICK row : row = [kind |-> "open", key |-> k, time |-> now, stake |-> stake,
                        fromBonus |-> rest, status |-> "ACCEPTED", result |-> NoResult]
  OBVIOUS
<1>6. NoResult \in LogResult /\ NoResult.filled = FALSE
  <2>1. <<>> \in Seq(Nat)
    OBVIOUS
  <2>2. QED
    BY <2>1 DEF NoResult, LogResult
<1>7. /\ row \in LogRow /\ row.kind = "open" /\ row.key = k /\ row.stake = stake
      /\ row.status = "ACCEPTED" /\ ~row.result.filled
  <2>1. now \in Nat
    BY DEF OtcIInv, Typed
  <2>2. QED
    BY <1>2, <1>5, <1>6, <2>1 DEF LogRow, LogStatus
<1>8. /\ HoldsFence(w) /\ writer[w].pc = "idle" /\ RowsOf(k) = {}
      /\ wal' = Append(wal, row) /\ writer' = [writer EXCEPT ![w].pc = "drain"]
      /\ UNCHANGED <<trade, checkpoint, now, fate>>
  BY <1>3, <1>4, <1>5 DEF Reserve
<1>9. account' = Moved(a, x, b)
  BY <1>1, <1>3, <1>4 DEF Reserve
<1>10. account' \in AccountRecord /\ Balance(account)' = Balance(account) - stake
  <2>1. /\ Moved(a, x, b) \in AccountRecord
        /\ Balance(Moved(a, x, b)) = Balance(a) + x + b
    BY MoneyMoves
  <2>2. Balance(a) \in Int
    BY DEF Balance, AccountRecord
  <2>3. Balance(account)' = Balance(Moved(a, x, b))
    BY <1>9 DEF Balance
  <2>4. QED
    BY <1>1, <1>2, <1>4, <1>9, <2>1, <2>2, <2>3
<1>11. \A i \in 1..Len(wal) : ~(wal[i].kind = "open" /\ wal[i].key = k)
  BY <1>8 DEF RowsOf
<1>12. trade[k].status = "NONE"
  BY <1>11 DEF OtcIInv, LogInv, RightLog
<1>13. OtcIInv'
  BY <1>2, <1>7, <1>8, <1>10, <1>11, <1>12, AppendStep
<1>14. QED
  BY <1>10, <1>13

LEMMA AppendAdvanceStep ==
  ASSUME OtcIInv, NEW w \in Writers, AppendAdvance(w)
  PROVE  OtcIInv'
<1>1. PICK k \in Keys : k = CHOOSE j \in Keys : TRUE
  OBVIOUS
<1>2. PICK row : row = [kind |-> "advance", key |-> k, time |-> now, stake |-> 0,
                        fromBonus |-> 0, status |-> "ACCEPTED", result |-> NoResult]
  OBVIOUS
<1>3. NoResult \in LogResult /\ NoResult.filled = FALSE
  <2>1. <<>> \in Seq(Nat)
    OBVIOUS
  <2>2. QED
    BY <2>1 DEF NoResult, LogResult
<1>4. /\ row \in LogRow /\ row.kind = "advance" /\ row.status = "ACCEPTED" /\ ~row.result.filled
  <2>1. now \in Nat
    BY DEF OtcIInv, Typed
  <2>2. QED
    BY <1>2, <1>3, <2>1 DEF LogRow, LogStatus
<1>5. /\ HoldsFence(w) /\ writer[w].pc = "idle"
      /\ wal' = Append(wal, row) /\ writer' = [writer EXCEPT ![w].pc = "drain"]
      /\ account' \in AccountRecord /\ UNCHANGED <<account, trade, checkpoint, now, fate>>
  BY <1>1, <1>2 DEF AppendAdvance, accountVars, OtcIInv, Typed
<1>6. QED
  BY <1>4, <1>5, AppendStep

----------------------------------------------------------------------------
(* What the market answers to the next row of a writer is what one writer   *)
(* that never failed would have been answered.                              *)
LEMMA RightAnswer ==
  ASSUME OtcIInv, NEW w \in Writers, HasRow(w)
  PROVE  /\ NextRow(w) \in 1..Len(wal) /\ writer[w].mark \in Nat
         /\ NextRow(w) = writer[w].mark + 1
         /\ Result(w) = AnswerAt(fate, wal[NextRow(w)].key, NextRow(w))
<1>1. PICK s \in WriterState : s = writer[w]
  BY DEF OtcIInv, Typed
<1>2. PICK n \in Nat : n = s.mark
  BY DEF WriterState
<1>3. PICK world \in World : world = s.world
  BY DEF WriterState
<1>4. s.pc = "drain" /\ n + 1 <= Len(wal) /\ NextRow(w) = n + 1
  BY <1>1, <1>2 DEF HasRow, NextRow
<1>5. Len(wal) \in Nat
  BY DEF OtcIInv, Typed
<1>6. n + 1 \in 1..Len(wal)
  BY <1>4, <1>5
<1>7. PICK row \in LogRow : row = wal[n + 1]
  BY <1>6, ElementOfSeq DEF OtcIInv, Typed
<1>8. Advanced(world, row.time).fed = world.fed
  BY MarketMoves DEF OtcIInv, Typed, LogRow
<1>9. world.fed = UpTo(n)
  BY <1>1, <1>2, <1>3, <1>4 DEF OtcIInv, WriterInv, Remembers, Eaten
<1>10. Result(w) = IF fate[row.key].filled THEN [filled |-> TRUE, entry |-> UpTo(n)] ELSE NoResult
  BY <1>1, <1>3, <1>4, <1>7, <1>8, <1>9 DEF Result, Answer
<1>11. PICK m \in 1..Len(wal) : m = n + 1
  BY <1>6
<1>12. m - 1 = n
  BY <1>11
<1>13. Result(w) = AnswerAt(fate, row.key, m)
  BY <1>10, <1>12 DEF AnswerAt
<1>14. NextRow(w) = m /\ row = wal[m] /\ NextRow(w) = writer[w].mark + 1 /\ writer[w].mark \in Nat
  BY <1>1, <1>2, <1>4, <1>7, <1>11
<1>15. QED
  BY <1>13, <1>14

(* What a writer that answers a row does to the database.                   *)
Answered(n, k) ==
  /\ n \in 1..Len(wal) /\ k \in Keys /\ k = wal[n].key /\ wal[n].status = "ACCEPTED"
  /\ wal[n].kind = "open" => wal[n].stake \in Nat
  /\ wal' \in Seq(LogRow) /\ Len(wal') = Len(wal)
  /\ \A i \in 1..Len(wal) : i # n => wal'[i] = wal[i]
  /\ wal'[n].kind = wal[n].kind /\ wal'[n].key = wal[n].key /\ wal'[n].stake = wal[n].stake
  /\ trade' \in [Keys -> TradeRow]
  /\ AnswerIs(wal[n], wal'[n], trade, trade', fate, k, n)
  /\ account' \in AccountRecord
  /\ Balance(account)' = IF wal[n].kind = "open" /\ ~fate[k].filled
                         THEN Balance(account) + wal[n].stake ELSE Balance(account)

LEMMA ProcessAnswers ==
  ASSUME OtcIInv, NEW w \in Writers, Process(w)
  PROVE  \/ wal[NextRow(w)].status # "ACCEPTED" /\ UNCHANGED <<account, wal, trade, checkpoint>>
         \/ UNCHANGED checkpoint /\ Answered(NextRow(w), wal[NextRow(w)].key)
<1>1. PICK n \in 1..Len(wal) : n = NextRow(w) /\ Result(w) = AnswerAt(fate, wal[n].key, n)
  BY RightAnswer DEF Process
<1>2. PICK log \in Seq(LogRow) : log = wal
  BY DEF OtcIInv, Typed
<1>3. PICK row \in LogRow : row = log[n]
  BY <1>2, ElementOfSeq
<1>4. PICK k \in Keys : k = row.key
  BY DEF LogRow
<1>5. PICK result : result = IF row.kind = "open" THEN AnswerAt(fate, k, n) ELSE NoResult
  OBVIOUS
<1>6. result \in LogResult /\ (row.kind # "open" => ~result.filled)
  <2>1. <<>> \in Seq(Nat)
    OBVIOUS
  <2>2. n - 1 \in Nat
    BY <1>2
  <2>3. UpTo(n - 1) \in Seq(Nat)
    BY <2>2, UpToSeq
  <2>4. NoResult \in LogResult /\ ~NoResult.filled
    BY <2>1 DEF NoResult, LogResult
  <2>5. AnswerAt(fate, k, n) \in LogResult
    BY <2>3, <2>4 DEF AnswerAt, LogResult
  <2>6. QED
    BY <1>5, <2>4, <2>5
<1>7. row.kind \in {"open", "advance"} /\ row.stake \in Nat
  BY DEF LogRow
<1>8. ASSUME row.status = "ACCEPTED", NEW status \in LogStatus, Finished(w, status)
      PROVE  /\ wal' \in Seq(LogRow) /\ Len(wal') = Len(wal)
             /\ \A i \in 1..Len(wal) : i # n => wal'[i] = wal[i]
             /\ wal'[n].kind = row.kind /\ wal'[n].key = row.key /\ wal'[n].stake = row.stake
             /\ wal'[n].status = status /\ wal'[n].result = result
  <2>1. PICK new : new = [row EXCEPT !.status = status, !.result = result]
    OBVIOUS
  <2>2. /\ new \in LogRow /\ new.kind = row.kind /\ new.key = row.key /\ new.stake = row.stake
        /\ new.status = status /\ new.result = result
    BY <1>6, <2>1 DEF LogRow
  <2>3. PICK log2 : log2 = [log EXCEPT ![n] = new]
    OBVIOUS
  <2>4. wal' = log2
    BY <1>1, <1>2, <1>3, <1>4, <1>5, <1>8, <2>1, <2>3 DEF Finished
  <2>5. n \in 1..Len(log)
    BY <1>2
  <2>6. /\ log2 \in Seq(LogRow) /\ Len(log2) = Len(log)
        /\ \A i \in 1..Len(log) : log2[i] = IF i = n THEN new ELSE log[i]
    BY <2>2, <2>3, <2>5, ExceptSeq
  <2>7. QED
    BY <1>2, <2>2, <2>4, <2>5, <2>6
<1>9. /\ row.status = "ACCEPTED" \/ UNCHANGED <<account, wal, trade, checkpoint>>
      /\ row.status = "ACCEPTED" => UNCHANGED checkpoint
  BY <1>1, <1>2, <1>3 DEF Process, Unfinished, databaseVars, accountVars
<1>10. ASSUME row.status = "ACCEPTED", row.kind = "advance"
       PROVE  Answered(n, k)
  <2>1. Finished(w, "APPLIED") /\ UNCHANGED <<account, trade>>
    BY <1>1, <1>2, <1>3, <1>10 DEF Process, Unfinished, accountVars
  <2>2. account' \in AccountRecord /\ Balance(account)' = Balance(account) /\ trade' \in [Keys -> TradeRow]
    BY <2>1 DEF Balance, OtcIInv, Typed
  <2>3. QED
    BY <1>2, <1>3, <1>4, <1>6, <1>7, <1>8, <1>10, <2>1, <2>2 DEF Answered, AnswerIs, LogStatus
<1>11. ASSUME row.status = "ACCEPTED", row.kind = "open", fate[k].filled
       PROVE  Answered(n, k)
  <2>1. result = [filled |-> TRUE, entry |-> UpTo(n - 1)] /\ Result(w) = result
    BY <1>1, <1>2, <1>3, <1>4, <1>5, <1>11 DEF AnswerAt
  <2>2. result.filled = TRUE /\ result.entry = UpTo(n - 1)
    BY <2>1
  <2>3. PICK entry \in Seq(Nat) : entry = UpTo(n - 1)
    BY <1>6, <2>2 DEF LogResult
  <2>4. /\ Finished(w, "APPLIED") /\ UNCHANGED account
        /\ trade' = [trade EXCEPT ![k] = [status |-> "OPEN", entry |-> entry]]
    BY <1>1, <1>2, <1>3, <1>4, <1>11, <2>1, <2>2, <2>3 DEF Process, Unfinished, accountVars
  <2>5. PICK opened : opened = [status |-> "OPEN", entry |-> entry]
    OBVIOUS
  <2>6. opened \in TradeRow /\ opened.status = "OPEN" /\ opened.entry = entry
    BY <2>5 DEF TradeRow
  <2>7. /\ trade' \in [Keys -> TradeRow] /\ trade'[k] = opened
        /\ \A j \in Keys : j # k => trade'[j] = trade[j]
    BY <2>4, <2>5, <2>6 DEF OtcIInv, Typed
  <2>8. account' \in AccountRecord /\ Balance(account)' = Balance(account)
    BY <2>4 DEF Balance, OtcIInv, Typed
  <2>9. QED
    BY <1>2, <1>3, <1>4, <1>5, <1>7, <1>8, <1>11, <2>3, <2>4, <2>6, <2>7, <2>8 DEF Answered, AnswerIs, LogStatus
<1>12. ASSUME row.status = "ACCEPTED", row.kind = "open", ~fate[k].filled
       PROVE  Answered(n, k)
  <2>1. Result(w).filled = FALSE
    BY <1>1, <1>2, <1>3, <1>4, <1>12 DEF AnswerAt, NoResult
  <2>2. /\ Finished(w, "REJECTED") /\ UNCHANGED trade
        /\ Pay("TRADE_REFUND", row.stake, row, k)
    BY <1>1, <1>2, <1>3, <1>4, <1>12, <2>1 DEF Process, Unfinished
  <2>3. row.stake > 0
    BY <1>2, <1>3, <1>12 DEF OtcIInv, LogInv, RightLog, OrderRow
  <2>4. account \in AccountRecord /\ row.stake \in Int
    BY <1>7 DEF OtcIInv, Typed
  <2>5. account' \in AccountRecord /\ Balance(account)' = Balance(account) + row.stake
    BY <2>2, <2>3, <2>4, PayMoves
  <2>6. trade' \in [Keys -> TradeRow]
    BY <2>2 DEF OtcIInv, Typed
  <2>7. QED
    BY <1>2, <1>3, <1>4, <1>5, <1>7, <1>8, <1>12, <2>2, <2>5, <2>6 DEF Answered, AnswerIs, LogStatus
<1>13. QED
  BY <1>1, <1>2, <1>3, <1>4, <1>7, <1>9, <1>10, <1>11, <1>12

LEMMA ProcessStep ==
  ASSUME OtcIInv, NEW w \in Writers, Process(w)
  PROVE  OtcIInv'
<1>1. PICK s \in WriterState : s = writer[w]
  BY DEF OtcIInv, Typed
<1>2. PICK mark \in Nat : mark = s.mark
  BY DEF WriterState
<1>3. PICK world \in World : world = s.world
  BY DEF WriterState
<1>4. PICK n : n = mark + 1
  OBVIOUS
<1>5. HasRow(w) /\ s.pc = "drain" /\ HoldsFence(w) /\ UNCHANGED <<now, fate>>
  BY <1>1 DEF Process, HasRow
<1>6. NextRow(w) = n /\ n \in 1..Len(wal)
  BY <1>1, <1>2, <1>4, <1>5, RightAnswer
<1>7. PICK log \in Seq(LogRow) : log = wal
  BY DEF OtcIInv, Typed
<1>8. PICK trades \in [Keys -> TradeRow] : trades = trade
  BY DEF OtcIInv, Typed
<1>9. PICK row \in LogRow : row = log[n]
  BY <1>6, <1>7, ElementOfSeq
<1>10. PICK k \in Keys : k = row.key
  BY DEF LogRow
<1>11. PICK fates \in [Keys -> Fates] : fates = fate
  BY DEF OtcIInv, Typed
<1>12. RightLog(log, trades, fates) /\ Remembers(log, trades, fates, world, mark)
  BY <1>1, <1>2, <1>3, <1>5, <1>7, <1>8, <1>11 DEF OtcIInv, LogInv, WriterInv, Eaten
<1>13. /\ Fed(world, n) \in World /\ Fed(world, n).fed = Append(world.fed, n)
       /\ FedWith(world, Fed(world, n), row.kind, k, fates)
  BY <1>6, <1>7, <1>9, <1>10, <1>11, MarketFed DEF OtcIInv
<1>14. PICK fed \in World : fed = Fed(world, n)
  BY <1>13
<1>15. PICK log2 : log2 = wal'
  OBVIOUS
<1>16. PICK trades2 : trades2 = trade'
  OBVIOUS
<1>17. /\ log2 \in Seq(LogRow) /\ trades2 \in [Keys -> TradeRow] /\ Len(log2) = Len(log)
       /\ RightLog(log2, trades2, fates) /\ Onward(log, log2, trades, trades2)
       /\ log2[n].kind = row.kind /\ log2[n].key = row.key /\ log2[n].status # "ACCEPTED"
       /\ account' \in AccountRecord /\ UNCHANGED checkpoint
  <2>1. CASE row.status # "ACCEPTED" /\ UNCHANGED <<account, wal, trade, checkpoint>>
    <3>1. Onward(log, log, trades, trades)
      BY NothingChanges
    <3>2. log2 = log /\ trades2 = trades
      BY <1>7, <1>8, <1>15, <1>16, <2>1
    <3>3. account' \in AccountRecord
      BY <2>1 DEF OtcIInv, Typed
    <3>4. QED
      BY <1>9, <1>12, <2>1, <3>1, <3>2, <3>3
  <2>2. CASE Answered(n, k) /\ UNCHANGED checkpoint
    <3>1. /\ log2 \in Seq(LogRow) /\ trades2 \in [Keys -> TradeRow] /\ Len(log2) = Len(log)
          /\ \A i \in 1..Len(log) : i # n => log2[i] = log[i]
          /\ log2[n].kind = log[n].kind /\ log2[n].key = log[n].key /\ log2[n].stake = log[n].stake
          /\ k = log[n].key /\ log[n].status = "ACCEPTED" /\ n \in 1..Len(log)
          /\ account' \in AccountRecord
      BY <1>7, <1>15, <1>16, <2>2 DEF Answered
    <3>2. AnswerIs(log[n], log2[n], trades, trades2, fates, k, n)
      BY <1>7, <1>8, <1>11, <1>15, <1>16, <2>2 DEF Answered
    <3>3. RightLog(log2, trades2, fates) /\ Onward(log, log2, trades, trades2)
      BY <1>12, <3>1, <3>2, RowAnswered
    <3>4. log2[n].status # "ACCEPTED"
      BY <3>2 DEF AnswerIs
    <3>5. QED
      BY <1>9, <2>2, <3>1, <3>3, <3>4
  <2>3. QED
    BY <1>6, <1>7, <1>9, <1>10, <2>1, <2>2, ProcessAnswers
<1>18. Remembers(log2, trades2, fates, world, mark)
  BY <1>12, <1>17, RememberKept
<1>19. Remembers(log2, trades2, fates, fed, mark + 1)
  <2>1. /\ mark + 1 <= Len(log2) /\ log2[mark + 1].status # "ACCEPTED" /\ k = log2[mark + 1].key
        /\ fed.fed = Append(world.fed, mark + 1)
        /\ FedWith(world, fed, log2[mark + 1].kind, k, fates)
    BY <1>4, <1>6, <1>7, <1>9, <1>10, <1>13, <1>14, <1>17
  <2>2. QED
    BY <1>17, <1>18, <2>1, FedRemembers
<1>20. PICK new : new = [s EXCEPT !.pc = "settle", !.world = fed]
  OBVIOUS
<1>21. /\ new \in WriterState /\ new.pc = "settle" /\ new.world = fed
       /\ Eaten(new) = mark + 1
  <2>1. /\ new \in WriterState /\ new.pc = "settle" /\ new.world = fed /\ new.mark = s.mark
    BY <1>20 DEF WriterState
  <2>2. QED
    BY <1>2, <2>1 DEF Eaten
<1>22. writer' = [writer EXCEPT ![w] = new]
  <2>1. writer' = [writer EXCEPT ![w].pc = "settle", ![w].world = Fed(@, n)]
    BY <1>6 DEF Process
  <2>2. QED
    BY <1>1, <1>3, <1>14, <1>20, <2>1
<1>23. LogInv' /\ Onward(wal, wal', trade, trade')
  BY <1>5, <1>7, <1>8, <1>11, <1>15, <1>16, <1>17 DEF LogInv
<1>24. CheckpointInv'
  <2>1. PICK saved \in World, upto \in Nat : saved = checkpoint.world /\ upto = checkpoint.sequence
    BY DEF OtcIInv, Typed
  <2>2. Remembers(log, trades, fates, saved, upto)
    BY <1>7, <1>8, <1>11, <2>1 DEF OtcIInv, CheckpointInv
  <2>3. Remembers(log2, trades2, fates, saved, upto)
    BY <1>17, <2>2, RememberKept
  <2>4. QED
    BY <1>5, <1>11, <1>15, <1>16, <1>17, <2>1, <2>3 DEF CheckpointInv
<1>25. /\ checkpoint' \in [generation: Writers \cup {NoWriter}, sequence: Nat, world: World]
       /\ now' \in Nat /\ wal' \in Seq(LogRow) /\ trade' \in [Keys -> TradeRow]
       /\ UNCHANGED fate /\ account' \in AccountRecord
  BY <1>5, <1>15, <1>16, <1>17 DEF OtcIInv, Typed
<1>26. Remembers(wal', trade', fate, new.world, Eaten(new))
  BY <1>11, <1>15, <1>16, <1>19, <1>21
<1>27. \A u \in Writers : u # w /\ checkpoint'.generation = u =>
         checkpoint.generation = u /\ Len(wal') = Len(wal)
  BY <1>7, <1>15, <1>17
<1>28. QED
  BY <1>21, <1>22, <1>23, <1>24, <1>25, <1>26, <1>27, WriterMoves

----------------------------------------------------------------------------
LEMMA RowOfOrder ==
  ASSUME OtcIInv, NEW k \in Keys, RowsOf(k) # {}
  PROVE  \E i \in 1..Len(wal) :
           RowsOf(k) = {i} /\ RowOf(k) = wal[i] /\ wal[i].kind = "open" /\ wal[i].key = k
<1>1. PICK i \in RowsOf(k) : i = CHOOSE j \in RowsOf(k) : TRUE
  OBVIOUS
<1>2. i \in 1..Len(wal) /\ wal[i].kind = "open" /\ wal[i].key = k
  BY <1>1 DEF RowsOf
<1>3. RowsOf(k) = {i}
  BY <1>2 DEF RowsOf, OtcIInv, LogInv, RightLog
<1>4. QED
  BY <1>1, <1>2, <1>3 DEF RowOf

LEMMA CreditType ==
  ASSUME NEW stake \in Nat, NEW status
  PROVE  Credit(stake, status) \in Nat
<1>1. (stake * 192) \div 100 \in Nat
  OBVIOUS
<1>2. QED
  BY <1>1 DEF Credit

(* What a writer that settles a contract does to the database. *)
Paid(k) ==
  /\ trade[k].status = "OPEN" /\ RowsOf(k) # {}
  /\ trade' \in [Keys -> TradeRow]
  /\ trade'[k].status = fate[k].status /\ trade'[k].entry = trade[k].entry
  /\ \A j \in Keys : j # k => trade'[j] = trade[j]
  /\ account' \in AccountRecord
  /\ Balance(account)' = Balance(account) + Credit(RowOf(k).stake, fate[k].status)

LEMMA SettlePays ==
  ASSUME OtcIInv, NEW w \in Writers, NEW k \in Keys, Settle(w, k)
  PROVE  (trade[k].status # "OPEN" /\ UNCHANGED <<account, trade>>) \/ Paid(k)
<1>1. CASE trade[k].status # "OPEN"
  BY <1>1 DEF Settle, StillOpen
<1>2. CASE trade[k].status = "OPEN"
  <2>1. writer[w].world.contracts[k].status = fate[k].status
    <3>1. /\ writer[w].world.contracts[k].status \in Settled
          /\ "OPEN" \notin Settled /\ "NONE" \notin Settled
      BY DEF Settle, Pending, Settled
    <3>2. QED
      BY <3>1 DEF OtcIInv, WriterInv, Remembers
  <2>2. \E i \in 1..Len(wal) : wal[i].kind = "open" /\ wal[i].key = k
    BY <1>2 DEF OtcIInv, LogInv, RightLog
  <2>3. RowsOf(k) # {}
    BY <2>2 DEF RowsOf
  <2>4. PICK i \in 1..Len(wal) : RowOf(k) = wal[i] /\ wal[i].kind = "open" /\ wal[i].key = k
    BY <2>3, RowOfOrder
  <2>5. PICK row \in LogRow : row = wal[i]
    BY ElementOfSeq DEF OtcIInv, Typed
  <2>6. row.stake > 0 /\ row.stake \in Nat
    BY <2>4, <2>5 DEF OtcIInv, LogInv, RightLog, OrderRow, LogRow
  <2>7. PICK credit \in Nat : credit = Credit(row.stake, fate[k].status)
    BY <2>6, CreditType
  <2>8. PICK a \in AccountRecord : a = account
    BY DEF OtcIInv, Typed
  <2>9. account' \in AccountRecord /\ Balance(account)' = Balance(account) + credit
    <3>1. CASE credit > 0
      <4>1. PICK kind : kind = IF fate[k].status = "REFUNDED" THEN "TRADE_REFUND" ELSE "TRADE_PAYOUT"
        OBVIOUS
      <4>2. Pay(kind, credit, row, k)
        BY <1>2, <2>1, <2>4, <2>5, <2>7, <3>1, <4>1 DEF Settle, StillOpen
      <4>3. account \in AccountRecord /\ credit \in Int
        BY <2>8
      <4>4. QED
        BY <2>6, <4>2, <4>3, PayMoves
    <3>2. CASE ~(credit > 0)
      <4>1. UNCHANGED account
        BY <1>2, <2>1, <2>4, <2>5, <2>7, <3>2 DEF Settle, StillOpen
      <4>2. Balance(a) \in Int /\ credit = 0
        BY <3>2 DEF Balance, AccountRecord
      <4>3. Balance(account)' = Balance(account)
        BY <4>1 DEF Balance
      <4>4. QED
        BY <2>8, <4>1, <4>2, <4>3
    <3>3. QED
      BY <3>1, <3>2
  <2>10. /\ trade' \in [Keys -> TradeRow]
         /\ trade'[k].status = fate[k].status /\ trade'[k].entry = trade[k].entry
         /\ \A j \in Keys : j # k => trade'[j] = trade[j]
    <3>1. PICK t \in TradeRow : t = trade[k]
      BY DEF OtcIInv, Typed
    <3>2. PICK new : new = [t EXCEPT !.status = fate[k].status]
      OBVIOUS
    <3>3. fate[k].status \in Settled
      BY FateKinds DEF OtcIInv
    <3>4. new \in TradeRow /\ new.status = fate[k].status /\ new.entry = t.entry
      BY <3>2, <3>3 DEF TradeRow
    <3>5. trade' = [trade EXCEPT ![k] = new]
      BY <1>2, <2>1, <3>1, <3>2 DEF Settle, StillOpen
    <3>6. QED
      BY <3>1, <3>4, <3>5 DEF OtcIInv, Typed
  <2>11. QED
    BY <1>2, <2>3, <2>4, <2>5, <2>7, <2>9, <2>10 DEF Paid
<1>3. QED
  BY <1>1, <1>2

(* A trade that is open becomes what its fate says. *)
LEMMA TradeEnds ==
  ASSUME NEW log \in Seq(LogRow), NEW trades \in [Keys -> TradeRow], NEW fates \in [Keys -> Fates],
         RightLog(log, trades, fates), NEW k \in Keys, trades[k].status = "OPEN",
         NEW trades2 \in [Keys -> TradeRow],
         trades2[k].status = fates[k].status, trades2[k].entry = trades[k].entry,
         \A j \in Keys : j # k => trades2[j] = trades[j]
  PROVE  /\ trades2[k].status # "OPEN"
         /\ RightLog(log, trades2, fates) /\ Onward(log, log, trades, trades2)
<1>1. fates[k].status \in Settled /\ fates[k].status # "OPEN" /\ fates[k].status # "NONE"
  <2>1. fates[k] \in [filled: BOOLEAN, status: {"WON", "LOST", "REFUNDED"}, life: 1..Duration]
    OBVIOUS
  <2>2. QED
    BY <2>1 DEF Settled
<1>2. \A j \in Keys : /\ trades2[j].entry = trades[j].entry
                      /\ trades2[j].status = "NONE" <=> trades[j].status = "NONE"
                      /\ trades2[j].status = "OPEN" => trades[j].status = "OPEN"
  BY <1>1
<1>3. ASSUME NEW i \in 1..Len(log) PROVE log[i].key \in Keys
  <2>1. log[i] \in LogRow
    BY ElementOfSeq
  <2>2. QED
    BY <2>1 DEF LogRow
<1>4. ASSUME NEW i \in 1..Len(log)
      PROVE  IF log[i].kind = "open" THEN OrderRow(log[i], trades2[log[i].key], fates, i)
             ELSE ~log[i].result.filled
  <2>1. IF log[i].kind = "open" THEN OrderRow(log[i], trades[log[i].key], fates, i)
        ELSE ~log[i].result.filled
    BY DEF RightLog
  <2>2. PICK j \in Keys : j = log[i].key
    BY <1>3
  <2>3. /\ trades2[j].entry = trades[j].entry
        /\ trades2[j].status = "NONE" <=> trades[j].status = "NONE"
    BY <1>2
  <2>4. QED
    BY <2>1, <2>2, <2>3 DEF OrderRow
<1>5. \A j \in Keys : trades2[j].status \in {"NONE", "OPEN", fates[j].status}
  BY DEF RightLog
<1>6. RightLog(log, trades2, fates)
  BY <1>2, <1>4, <1>5 DEF RightLog
<1>7. Onward(log, log, trades, trades2)
  BY <1>2, <1>3 DEF Onward
<1>8. QED
  BY <1>1, <1>6, <1>7

LEMMA SettleStep ==
  ASSUME OtcIInv, NEW w \in Writers, NEW k \in Keys, Settle(w, k)
  PROVE  OtcIInv'
<1>1. PICK s \in WriterState : s = writer[w]
  BY DEF OtcIInv, Typed
<1>2. PICK n \in Nat : n = Eaten(s)
  BY DEF WriterState, Eaten
<1>3. PICK world \in World : world = s.world
  BY DEF WriterState
<1>4. s.pc = "settle" /\ UNCHANGED <<wal, checkpoint, now, fate>>
  BY <1>1 DEF Settle
<1>5. PICK log \in Seq(LogRow) : log = wal
  BY DEF OtcIInv, Typed
<1>6. PICK trades \in [Keys -> TradeRow] : trades = trade
  BY DEF OtcIInv, Typed
<1>7. PICK fates \in [Keys -> Fates] : fates = fate
  BY DEF OtcIInv, Typed
<1>8. PICK trades2 : trades2 = trade'
  OBVIOUS
<1>9. RightLog(log, trades, fates) /\ Remembers(log, trades, fates, world, n)
  BY <1>1, <1>2, <1>3, <1>5, <1>6, <1>7 DEF OtcIInv, LogInv, WriterInv
<1>10. /\ trades2 \in [Keys -> TradeRow] /\ RightLog(log, trades2, fates)
       /\ Onward(log, log, trades, trades2) /\ trades2[k].status # "OPEN"
       /\ \A j \in Keys : j # k => trades2[j] = trades[j]
       /\ account' \in AccountRecord
  <2>1. CASE trade[k].status # "OPEN" /\ UNCHANGED <<account, trade>>
    <3>1. Onward(log, log, trades, trades)
      BY NothingChanges
    <3>2. trades2 = trades /\ trades[k].status # "OPEN"
      BY <1>6, <1>8, <2>1
    <3>3. account' \in AccountRecord
      BY <2>1 DEF OtcIInv, Typed
    <3>4. QED
      BY <1>9, <3>1, <3>2, <3>3
  <2>2. CASE Paid(k)
    <3>1. /\ trades2 \in [Keys -> TradeRow]
          /\ trades2[k].status = fates[k].status /\ trades2[k].entry = trades[k].entry
          /\ \A j \in Keys : j # k => trades2[j] = trades[j]
          /\ trades[k].status = "OPEN" /\ account' \in AccountRecord
      BY <1>6, <1>7, <1>8, <2>2 DEF Paid
    <3>2. QED
      BY <1>9, <3>1, TradeEnds
  <2>3. QED
    BY <2>1, <2>2, SettlePays
<1>11. PICK held : held = [world.contracts EXCEPT ![k] = NoContract]
  OBVIOUS
<1>12. /\ held \in [Keys -> Contract] /\ held[k].status = "NONE"
       /\ \A j \in Keys : j # k => held[j] = world.contracts[j]
  <2>1. NoContract \in Contract /\ NoContract.status = "NONE"
    BY DEF NoContract, Contract
  <2>2. PICK old \in [Keys -> Contract] : old = world.contracts
    BY DEF World
  <2>3. QED
    BY <1>11, <2>1, <2>2
<1>13. PICK left : left = [world EXCEPT !.contracts = held]
  OBVIOUS
<1>14. left \in World /\ left.fed = world.fed /\ left.contracts = held
  BY <1>12, <1>13 DEF World
<1>15. Remembers(log, trades2, fates, left, n)
  <2>1. \A i \in 1..n :
          /\ log[i].status # "ACCEPTED"
          /\ log[i].kind = "open" /\ trades2[log[i].key].status = "OPEN" =>
               left.contracts[log[i].key].status # "NONE"
    <3>1. SUFFICES ASSUME NEW i \in 1..n
                   PROVE  /\ log[i].status # "ACCEPTED"
                          /\ log[i].kind = "open" /\ trades2[log[i].key].status = "OPEN" =>
                               left.contracts[log[i].key].status # "NONE"
      OBVIOUS
    <3>2. log[i].key \in Keys
      <4>1. i \in 1..Len(log)
        BY <1>9 DEF Remembers
      <4>2. log[i] \in LogRow
        BY <4>1, ElementOfSeq
      <4>3. QED
        BY <4>2 DEF LogRow
    <3>3. CASE log[i].key = k
      BY <1>9, <1>10, <3>3 DEF Remembers
    <3>4. CASE log[i].key # k
      BY <1>9, <1>10, <1>12, <1>14, <3>2, <3>4 DEF Remembers
    <3>5. QED
      BY <3>3, <3>4
  <2>2. \A j \in Keys : left.contracts[j].status # "NONE" =>
          /\ trades2[j].status # "NONE" /\ left.contracts[j].entry = trades2[j].entry
          /\ left.contracts[j].status \in {"OPEN", fates[j].status}
    BY <1>9, <1>10, <1>12, <1>14 DEF Remembers
  <2>3. QED
    BY <1>9, <1>14, <2>1, <2>2 DEF Remembers
<1>16. PICK new : new = [s EXCEPT !.world = left]
  OBVIOUS
<1>17. /\ new \in WriterState /\ new.pc = "settle" /\ new.world = left /\ Eaten(new) = n
  <2>1. new \in WriterState /\ new.pc = s.pc /\ new.world = left /\ new.mark = s.mark
    BY <1>14, <1>16 DEF WriterState
  <2>2. QED
    BY <1>2, <1>4, <2>1 DEF Eaten
<1>18. writer' = [writer EXCEPT ![w] = new]
  BY <1>1, <1>3, <1>11, <1>13, <1>16 DEF Settle
<1>19. LogInv' /\ Onward(wal, wal', trade, trade')
  BY <1>4, <1>5, <1>6, <1>7, <1>8, <1>10 DEF LogInv
<1>20. CheckpointInv'
  <2>1. PICK saved \in World, upto \in Nat : saved = checkpoint.world /\ upto = checkpoint.sequence
    BY DEF OtcIInv, Typed
  <2>2. Remembers(log, trades, fates, saved, upto)
    BY <1>5, <1>6, <1>7, <2>1 DEF OtcIInv, CheckpointInv
  <2>3. Remembers(log, trades2, fates, saved, upto)
    BY <1>10, <2>2, RememberKept
  <2>4. QED
    BY <1>4, <1>5, <1>7, <1>8, <2>1, <2>3 DEF CheckpointInv
<1>21. /\ checkpoint' \in [generation: Writers \cup {NoWriter}, sequence: Nat, world: World]
       /\ now' \in Nat /\ wal' \in Seq(LogRow) /\ trade' \in [Keys -> TradeRow]
       /\ UNCHANGED fate /\ account' \in AccountRecord
  BY <1>4, <1>8, <1>10 DEF OtcIInv, Typed
<1>22. Remembers(wal', trade', fate, new.world, Eaten(new))
  BY <1>4, <1>5, <1>7, <1>8, <1>15, <1>17
<1>23. \A u \in Writers : u # w /\ checkpoint'.generation = u =>
         checkpoint.generation = u /\ Len(wal') = Len(wal)
  BY <1>4
<1>24. QED
  BY <1>17, <1>18, <1>19, <1>20, <1>21, <1>22, <1>23, WriterMoves

LEMMA NobodyMoves ==
  ASSUME OtcIInv, UNCHANGED <<account, wal, trade, checkpoint, writer, fate>>, now' \in Nat
  PROVE  OtcIInv'
<1>1. Typed'
  BY DEF OtcIInv, Typed
<1>2. LogInv' /\ WriterInv' /\ CheckpointInv'
  BY DEF OtcIInv, LogInv, WriterInv, CheckpointInv, HoldsFence
<1>3. QED
  BY <1>1, <1>2 DEF OtcIInv

----------------------------------------------------------------------------
LEMMA OtcInitial == Init => OtcIInv
<1>1. SUFFICES ASSUME Init PROVE OtcIInv
  OBVIOUS
<1>2. /\ account = [real |-> InitialReal, bonus |-> InitialBonus,
                    version |-> 0, currency |-> InitialCurrency]
      /\ wal = <<>> /\ trade = [k \in Keys |-> NoTrade] /\ now = 0
      /\ checkpoint = [generation |-> NoWriter, sequence |-> 0, world |-> Seeded]
      /\ writer = [w \in Writers |-> Down] /\ fate \in [Keys -> Fates]
  BY <1>1 DEF Init, AccountInit
<1>3. account \in AccountRecord /\ wal \in Seq(LogRow) /\ Len(wal) = 0
  BY <1>2, OpeningAssumption, CurrencyAssumption DEF AccountRecord
<1>4. NoTrade \in TradeRow /\ NoTrade.status = "NONE"
  BY DEF NoTrade, TradeRow
<1>5. /\ Down \in WriterState /\ Down.pc = "down"
      /\ Remembers(wal, trade, fate, Down.world, Eaten(Down))
  BY <1>3, DownRemembers
<1>6. Seeded \in World /\ Remembers(wal, trade, fate, Seeded, 0)
  <2>1. Down.world = Seeded /\ Eaten(Down) = 0
    BY DEF Down, Eaten
  <2>2. QED
    BY <1>5, <2>1 DEF WriterState
<1>7. Typed
  BY <1>2, <1>3, <1>4, <1>5, <1>6 DEF Typed
<1>8. LogInv
  BY <1>2, <1>3, <1>4 DEF LogInv, RightLog
<1>9. WriterInv
  BY <1>2, <1>5 DEF WriterInv
<1>10. CheckpointInv
  BY <1>2, <1>6 DEF CheckpointInv
<1>11. QED
  BY <1>7, <1>8, <1>9, <1>10 DEF OtcIInv

LEMMA OtcStep == OtcIInv /\ [Next]_vars => OtcIInv'
<1>1. SUFFICES ASSUME OtcIInv, [Next]_vars PROVE OtcIInv'
  OBVIOUS
<1>2. ASSUME NEW w \in Writers, Start(w) \/ Drain(w) \/ AppendAdvance(w) \/ Checkpoint(w)
      PROVE  OtcIInv'
  BY <1>1, <1>2, AcquireStep, TakeGenerationStep, ProcessStep, PassRowStep, DrainedStep, SettleStep,
     AppendAdvanceStep, CheckpointStep DEF Start, Drain
<1>3. ASSUME NEW w \in Writers, NEW k \in Keys, NEW stake \in Stakes, Reserve(w, k, stake)
      PROVE  OtcIInv'
  BY <1>1, <1>3, ReserveStep
<1>4. ASSUME NEW w \in Writers, FencedOut(w) \/ Crash(w) \/ NoticeLoss(w)
      PROVE  OtcIInv'
  <2>1. Stopped(w) /\ UNCHANGED <<account, wal, trade, checkpoint, now, fate>>
    BY <1>4 DEF FencedOut, Crash, NoticeLoss, databaseVars, accountVars
  <2>2. QED
    BY <1>1, <2>1, StopStep
<1>5. CASE LoseLock \/ Tick \/ UNCHANGED vars
  <2>1. UNCHANGED <<account, wal, trade, checkpoint, writer, fate>> /\ now' \in Nat
    BY <1>1, <1>5 DEF LoseLock, Tick, vars, databaseVars, accountVars, OtcIInv, Typed
  <2>2. QED
    BY <1>1, <2>1, NobodyMoves
<1>6. QED
  BY <1>1, <1>2, <1>3, <1>4, <1>5 DEF Next

THEOREM OtcInvariant == Spec => []OtcIInv
<1>1. QED
  BY OtcInitial, OtcStep, PTL DEF Spec

(* However often writers crash, lose their lock and replay the log, the     *)
(* rows and the trades are what one writer that never failed would have     *)
(* written, so that neither "OTC replay result differs" (runtime.ts) nor    *)
(* "Settlement identity mismatch" (otc-trade.ts) is ever thrown.            *)
THEOREM LogOfOneRun == Spec => []OneRun
<1>1. ASSUME OtcIInv, NEW i \in 1..Len(wal), wal[i].result.filled
      PROVE  /\ wal[i].result.entry = UpTo(i - 1)
             /\ trade[wal[i].key].status # "NONE"
             /\ trade[wal[i].key].entry = UpTo(i - 1)
  <2>1. PICK row \in LogRow : row = wal[i]
    BY <1>1, ElementOfSeq DEF OtcIInv, Typed
  <2>2. row.kind = "open" /\ OrderRow(row, trade[row.key], fate, i)
    BY <1>1, <2>1 DEF OtcIInv, LogInv, RightLog
  <2>3. row.status \in {"APPLIED", "REJECTED"} /\ row.result = AnswerAt(fate, row.key, i)
    BY <1>1, <2>1, <2>2 DEF OrderRow, LogRow, LogStatus
  <2>4. fate[row.key].filled
    BY <1>1, <2>1, <2>3 DEF AnswerAt, NoResult
  <2>5. row.status = "APPLIED" /\ row.result = [filled |-> TRUE, entry |-> UpTo(i - 1)]
    BY <2>2, <2>3, <2>4 DEF OrderRow, AnswerAt
  <2>6. row.result.entry = UpTo(i - 1)
    BY <2>5
  <2>7. QED
    BY <2>1, <2>2, <2>5, <2>6 DEF OrderRow
<1>2. ASSUME OtcIInv, NEW w \in Writers, HasRow(w), wal[NextRow(w)].kind = "open",
             ~Unfinished(wal[NextRow(w)])
      PROVE  wal[NextRow(w)].result = Result(w)
  <2>1. NextRow(w) \in 1..Len(wal) /\ Result(w) = AnswerAt(fate, wal[NextRow(w)].key, NextRow(w))
    BY <1>2, RightAnswer
  <2>2. QED
    BY <1>2, <2>1 DEF Unfinished, OtcIInv, LogInv, RightLog, OrderRow
<1>3. ASSUME OtcIInv, NEW w \in Writers, NEW k \in Pending(writer[w].world)
      PROVE  /\ trade[k].entry = writer[w].world.contracts[k].entry
             /\ trade[k].status \in {"OPEN", writer[w].world.contracts[k].status}
  <2>1. k \in Keys /\ writer[w].world.contracts[k].status \in Settled
    BY DEF Pending
  <2>2. "OPEN" \notin Settled /\ "NONE" \notin Settled
    BY DEF Settled
  <2>3. /\ trade[k].status # "NONE" /\ writer[w].world.contracts[k].entry = trade[k].entry
        /\ writer[w].world.contracts[k].status = fate[k].status
    BY <1>3, <2>1, <2>2 DEF OtcIInv, WriterInv, Remembers
  <2>4. trade[k].status \in {"OPEN", fate[k].status}
    BY <1>3, <2>1, <2>3 DEF OtcIInv, LogInv, RightLog
  <2>5. QED
    BY <2>3, <2>4
<1>4. OtcIInv => OneRun
  BY <1>1, <1>2, <1>3 DEF OneRun
<1>5. QED
  BY <1>4, OtcInvariant, PTL

(* A writer that starts from the checkpoint and looks at later rows only    *)
(* misses nothing: what is open of the rows before it is in the saved       *)
(* market (runtime.ts start and checkpoint).                                *)
THEOREM CheckpointCoversItsRows == Spec => []CheckpointCovers
<1>1. OtcIInv => CheckpointCovers
  BY DEF OtcIInv, CheckpointInv, Remembers, CheckpointCovers
<1>2. QED
  BY <1>1, OtcInvariant, PTL

(* A writer that saves has read the log to its end, so that a writer which  *)
(* read an old checkpoint before another one saved cannot turn it back      *)
(* (archive.ts may have deleted the rows before it).                        *)
THEOREM CheckpointOnlyAdvances == Spec => CheckpointNeverBack
<1>1. ASSUME OtcIInv, [Next]_vars
      PROVE  checkpoint'.sequence >= checkpoint.sequence
  <2>1. checkpoint.sequence \in 0..Len(wal) /\ checkpoint.sequence \in Nat
    BY <1>1 DEF OtcIInv, CheckpointInv, Remembers, Typed
  <2>2. ASSUME NEW w \in Writers, Checkpoint(w)
        PROVE  checkpoint'.sequence >= checkpoint.sequence
    <3>1. writer[w].mark = Len(wal)
      BY <1>1, <2>2 DEF Checkpoint, OtcIInv, WriterInv
    <3>2. checkpoint'.sequence = writer[w].mark
      BY <1>1, <2>2 DEF Checkpoint, OtcIInv, Typed
    <3>3. QED
      BY <1>1, <2>1, <3>1, <3>2 DEF OtcIInv, Typed
  <2>3. ASSUME NEW w \in Writers, TakeGeneration(w)
        PROVE  checkpoint'.sequence >= checkpoint.sequence
    <3>1. checkpoint'.sequence = checkpoint.sequence
      BY <1>1, <2>3 DEF TakeGeneration, OtcIInv, Typed
    <3>2. QED
      BY <2>1, <3>1
  <2>4. CASE UNCHANGED checkpoint
    BY <2>1, <2>4
  <2>5. ASSUME NEW w \in Writers, Process(w)
        PROVE  UNCHANGED checkpoint
    BY <2>5 DEF Process, databaseVars
  <2>6. ASSUME NEW w \in Writers, NEW k \in Keys, Settle(w, k)
        PROVE  UNCHANGED checkpoint
    BY <2>6 DEF Settle
  <2>7. QED
    BY <1>1, <2>2, <2>3, <2>4, <2>5, <2>6 DEF Next, Start, Drain, Acquire, AppendAdvance, Reserve,
       PassRow, Drained, FencedOut, Crash, NoticeLoss, LoseLock, Tick, databaseVars, vars
<1>2. OtcIInv /\ [Next]_vars => [checkpoint'.sequence >= checkpoint.sequence]_vars
  BY <1>1
<1>3. QED
  BY <1>2, OtcInvariant, PTL DEF Spec, CheckpointNeverBack

----------------------------------------------------------------------------
(* An order is a claim on an escrow. *)

RowsIn(log, k) == {i \in 1..Len(log) : log[i].kind = "open" /\ log[i].key = k}
RowIn(log, k)  == log[CHOOSE i \in RowsIn(log, k) : TRUE]

ClaimIn(log, trades, k) ==
  [phase  |-> IF RowsIn(log, k) = {} THEN "none"
              ELSE IF RowIn(log, k).status = "REJECTED" \/ trades[k].status \in Settled
                   THEN "released" ELSE "held",
   amount |-> IF RowsIn(log, k) = {} THEN 0 ELSE RowIn(log, k).stake]

LEMMA ClaimIsIn ==
  ASSUME NEW k \in Keys
  PROVE  /\ OrderClaim(k) = ClaimIn(wal, trade, k)
         /\ OrderClaim(k)' = ClaimIn(wal', trade', k)
  BY DEF OrderClaim, ClaimIn, RowsOf, RowOf, RowsIn, RowIn

(* The order of a key has the same row in two logs, as far as a claim can   *)
(* tell.                                                                    *)
SameOrder(log, log2, k) ==
  /\ \A i \in 1..Len(log2) : log2[i].kind = "open" /\ log2[i].key = k =>
       i \in 1..Len(log) /\ log[i].kind = "open" /\ log[i].key = k
  /\ \A i \in 1..Len(log) : log[i].kind = "open" /\ log[i].key = k =>
       /\ i \in 1..Len(log2) /\ log2[i].kind = "open" /\ log2[i].key = k
       /\ log2[i].stake = log[i].stake
       /\ log2[i].status = "REJECTED" <=> log[i].status = "REJECTED"

SameEnd(t, t2) == t2.status \in Settled <=> t.status \in Settled

LEMMA ClaimKept ==
  ASSUME NEW log, NEW log2, NEW trades, NEW trades2, NEW fates, NEW k \in Keys,
         RightLog(log, trades, fates), RightLog(log2, trades2, fates),
         SameOrder(log, log2, k), SameEnd(trades[k], trades2[k])
  PROVE  ClaimIn(log2, trades2, k) = ClaimIn(log, trades, k)
<1>1. CASE \E i \in 1..Len(log) : log[i].kind = "open" /\ log[i].key = k
  <2>1. PICK i \in 1..Len(log) : log[i].kind = "open" /\ log[i].key = k
    BY <1>1
  <2>2. i \in 1..Len(log2) /\ log2[i].kind = "open" /\ log2[i].key = k
    BY <2>1 DEF SameOrder
  <2>3. RowsIn(log, k) = {i} /\ RowIn(log, k) = log[i]
    <3>1. RowsIn(log, k) = {i}
      BY <2>1 DEF RowsIn, RightLog
    <3>2. QED
      BY <3>1 DEF RowIn
  <2>4. RowsIn(log2, k) = {i} /\ RowIn(log2, k) = log2[i]
    <3>1. RowsIn(log2, k) = {i}
      BY <2>2 DEF RowsIn, RightLog
    <3>2. QED
      BY <3>1 DEF RowIn
  <2>5. /\ log2[i].stake = log[i].stake
        /\ log2[i].status = "REJECTED" <=> log[i].status = "REJECTED"
    BY <2>1 DEF SameOrder
  <2>6. QED
    BY <2>3, <2>4, <2>5 DEF ClaimIn, SameEnd
<1>2. CASE \A i \in 1..Len(log) : ~(log[i].kind = "open" /\ log[i].key = k)
  <2>1. RowsIn(log, k) = {}
    BY <1>2 DEF RowsIn
  <2>2. RowsIn(log2, k) = {}
    BY <1>2 DEF RowsIn, SameOrder
  <2>3. QED
    BY <2>1, <2>2 DEF ClaimIn
<1>3. QED
  BY <1>1, <1>2

LEMMA OrderKept ==
  ASSUME OtcIInv, OtcIInv', UNCHANGED fate, NEW k \in Keys,
         SameOrder(wal, wal', k), SameEnd(trade[k], trade'[k])
  PROVE  OrderClaim(k)' = OrderClaim(k)
<1>1. PICK log, log2, trades, trades2, fates :
        log = wal /\ log2 = wal' /\ trades = trade /\ trades2 = trade' /\ fates = fate
  OBVIOUS
<1>2. RightLog(log, trades, fates) /\ RightLog(log2, trades2, fates)
  BY <1>1 DEF OtcIInv, LogInv
<1>3. SameOrder(log, log2, k) /\ SameEnd(trades[k], trades2[k])
  BY <1>1
<1>4. ClaimIn(log2, trades2, k) = ClaimIn(log, trades, k)
  BY <1>2, <1>3, ClaimKept
<1>5. QED
  BY <1>1, <1>4, ClaimIsIn

(* The claim of an order whose row is the i-th of the log. *)
LEMMA OrderOfRow ==
  ASSUME OtcIInv, NEW i \in 1..Len(wal), NEW k \in Keys, wal[i].kind = "open", wal[i].key = k
  PROVE  OrderClaim(k) = [phase  |-> IF wal[i].status = "REJECTED" \/ trade[k].status \in Settled
                                     THEN "released" ELSE "held",
                          amount |-> wal[i].stake]
<1>1. RowsOf(k) = {i}
  BY DEF RowsOf, OtcIInv, LogInv, RightLog
<1>2. RowOf(k) = wal[i]
  BY <1>1 DEF RowOf
<1>3. QED
  BY <1>1, <1>2 DEF OrderClaim

LEMMA OrderOfRowNext ==
  ASSUME OtcIInv', NEW i, i \in 1..Len(wal'), NEW k \in Keys, wal'[i].kind = "open", wal'[i].key = k
  PROVE  OrderClaim(k)' = [phase  |-> IF wal'[i].status = "REJECTED" \/ trade'[k].status \in Settled
                                      THEN "released" ELSE "held",
                           amount |-> wal'[i].stake]
<1>1. RowsOf(k)' = {i}
  BY DEF RowsOf, OtcIInv, LogInv, RightLog
<1>2. RowOf(k)' = wal'[i]
  BY <1>1 DEF RowOf
<1>3. QED
  BY <1>1, <1>2 DEF OrderClaim

(* The promise is kept if one order moves as it may and the others stay. *)
LEMMA OneHolds ==
  ASSUME NEW k \in Keys, NEW stake, stake \in 1..Balance(account),
         OrderClaim(k).phase = "none", Balance(account)' = Balance(account) - stake,
         OrderClaim(k)' = [phase |-> "held", amount |-> stake],
         \A j \in Keys : j # k => OrderClaim(j)' = OrderClaim(j)
  PROVE  Promise!Next
<1>1. Promise!Hold(k, stake)
  BY DEF Promise!Hold
<1>2. QED
  BY <1>1 DEF Promise!Next

LEMMA OneReleases ==
  ASSUME NEW k \in Keys, NEW stake, NEW credit, credit \in OrderGrants(stake),
         OrderClaim(k) = [phase |-> "held", amount |-> stake],
         OrderClaim(k)' = [phase |-> "released", amount |-> stake],
         Balance(account)' = Balance(account) + credit,
         \A j \in Keys : j # k => OrderClaim(j)' = OrderClaim(j)
  PROVE  Promise!Next
<1>1. [OrderClaim(k) EXCEPT !.phase = "released"] = [phase |-> "released", amount |-> stake]
  OBVIOUS
<1>2. \A j \in Keys : OrderClaim(j)' =
        IF j = k THEN [OrderClaim(k) EXCEPT !.phase = "released"] ELSE OrderClaim(j)
  BY <1>1
<1>3. OrderClaim(k).phase = "held" /\ OrderClaim(k).amount = stake
  OBVIOUS
<1>4. Promise!Release(k, credit)
  BY <1>2, <1>3 DEF Promise!Release
<1>5. QED
  BY <1>3, <1>4 DEF Promise!Next

LEMMA NoneMoves ==
  ASSUME Balance(account)' = Balance(account), \A k \in Keys : OrderClaim(k)' = OrderClaim(k)
  PROVE  UNCHANGED Promise!escrowVars
BY DEF Promise!escrowVars

LEMMA ReserveHolds ==
  ASSUME OtcIInv, NEW w \in Writers, NEW k \in Keys, NEW stake \in Stakes, Reserve(w, k, stake)
  PROVE  Promise!Next
<1>1. OtcIInv' /\ Balance(account)' = Balance(account) - stake
  BY ReserveStep
<1>2. /\ RowsOf(k) = {} /\ Balance(account) >= stake /\ UNCHANGED <<trade, fate>>
  BY DEF Reserve
<1>3. stake \in 1..Balance(account)
  <2>1. PICK a \in AccountRecord : a = account
    BY DEF OtcIInv, Typed
  <2>2. Balance(a) \in Int
    BY DEF Balance, AccountRecord
  <2>3. stake \in Nat /\ stake > 0
    OBVIOUS
  <2>4. QED
    BY <1>2, <2>1, <2>2, <2>3
<1>4. PICK row : /\ wal' = Append(wal, row) /\ row.kind = "open" /\ row.key = k
                 /\ row.stake = stake /\ row.status = "ACCEPTED"
  <2>1. PICK row : row = [kind |-> "open", key |-> k, time |-> now, stake |-> stake,
                          fromBonus |-> stake - FromReal(stake), status |-> "ACCEPTED",
                          result |-> NoResult]
    OBVIOUS
  <2>2. wal' = Append(wal, row)
    BY <2>1 DEF Reserve
  <2>3. QED
    BY <2>1, <2>2
<1>5. PICK n \in Nat : n = Len(wal)
  BY DEF OtcIInv, Typed
<1>6. /\ Len(wal') = n + 1 /\ wal'[n + 1] = row
      /\ \A i \in 1..n : wal'[i] = wal[i]
  BY <1>4, <1>5 DEF OtcIInv, Typed
<1>7. trade'[k].status = "NONE"
  <2>1. \A i \in 1..Len(wal) : ~(wal[i].kind = "open" /\ wal[i].key = k)
    BY <1>2 DEF RowsOf
  <2>2. QED
    BY <1>2, <2>1 DEF OtcIInv, LogInv, RightLog
<1>8. OrderClaim(k)' = [phase |-> "held", amount |-> stake]
  <2>1. PICK m : m = n + 1 /\ m \in 1..Len(wal')
    BY <1>5, <1>6
  <2>2. wal'[m] = row
    BY <1>6, <2>1
  <2>3. wal'[m].kind = "open" /\ wal'[m].key = k
    BY <1>4, <2>2
  <2>4. OrderClaim(k)' = [phase  |-> IF wal'[m].status = "REJECTED" \/ trade'[k].status \in Settled
                                     THEN "released" ELSE "held",
                          amount |-> wal'[m].stake]
    BY <1>1, <2>1, <2>3, OrderOfRowNext
  <2>5. "NONE" \notin Settled
    BY DEF Settled
  <2>6. QED
    BY <1>4, <1>7, <2>2, <2>4, <2>5
<1>9. OrderClaim(k).phase = "none"
  BY <1>2 DEF OrderClaim
<1>10. ASSUME NEW j \in Keys, j # k PROVE OrderClaim(j)' = OrderClaim(j)
  <2>1. SameOrder(wal, wal', j)
    BY <1>4, <1>5, <1>6, <1>10 DEF SameOrder
  <2>2. SameEnd(trade[j], trade'[j])
    BY <1>2 DEF SameEnd
  <2>3. QED
    BY <1>1, <1>2, <2>1, <2>2, OrderKept
<1>11. QED
  BY <1>1, <1>3, <1>8, <1>9, <1>10, OneHolds

LEMMA AdvanceLeavesOrders ==
  ASSUME OtcIInv, NEW w \in Writers, AppendAdvance(w)
  PROVE  UNCHANGED Promise!escrowVars
<1>1. OtcIInv'
  BY AppendAdvanceStep
<1>2. PICK row : /\ wal' = Append(wal, row) /\ row.kind = "advance"
                 /\ UNCHANGED <<account, trade, fate>>
  <2>1. PICK row : row = [kind |-> "advance", key |-> CHOOSE k \in Keys : TRUE, time |-> now,
                         stake |-> 0, fromBonus |-> 0, status |-> "ACCEPTED",
                         result |-> NoResult]
    OBVIOUS
  <2>2. wal' = Append(wal, row) /\ UNCHANGED <<account, trade, fate>>
    BY <2>1 DEF AppendAdvance, accountVars
  <2>3. QED
    BY <2>1, <2>2
<1>3. PICK n \in Nat : n = Len(wal)
  BY DEF OtcIInv, Typed
<1>4. /\ Len(wal') = n + 1 /\ wal'[n + 1] = row
      /\ \A i \in 1..n : wal'[i] = wal[i]
  BY <1>2, <1>3 DEF OtcIInv, Typed
<1>5. ASSUME NEW k \in Keys PROVE OrderClaim(k)' = OrderClaim(k)
  <2>1. SameOrder(wal, wal', k)
    BY <1>2, <1>3, <1>4 DEF SameOrder
  <2>2. SameEnd(trade[k], trade'[k])
    BY <1>2 DEF SameEnd
  <2>3. QED
    BY <1>1, <1>2, <2>1, <2>2, OrderKept
<1>6. QED
  BY <1>2, <1>5, NoneMoves DEF Balance

LEMMA ProcessReleases ==
  ASSUME OtcIInv, NEW w \in Writers, Process(w)
  PROVE  Promise!Next \/ UNCHANGED Promise!escrowVars
<1>1. OtcIInv' /\ UNCHANGED fate
  BY ProcessStep DEF Process
<1>2. CASE UNCHANGED <<account, wal, trade, checkpoint>>
  BY <1>2, NoneMoves DEF Balance, OrderClaim, RowsOf, RowOf
<1>3. ASSUME NEW n, NEW k, Answered(n, k)
      PROVE  Promise!Next \/ UNCHANGED Promise!escrowVars
  <2>1. /\ n \in 1..Len(wal) /\ k \in Keys /\ k = wal[n].key /\ wal[n].status = "ACCEPTED"
        /\ Len(wal') = Len(wal) /\ \A i \in 1..Len(wal) : i # n => wal'[i] = wal[i]
        /\ wal'[n].kind = wal[n].kind /\ wal'[n].key = wal[n].key
        /\ wal'[n].stake = wal[n].stake
        /\ AnswerIs(wal[n], wal'[n], trade, trade', fate, k, n)
    BY <1>3 DEF Answered
  <2>2. ASSUME NEW j \in Keys, wal[n].kind # "open" \/ fate[k].filled \/ j # k
        PROVE  OrderClaim(j)' = OrderClaim(j)
    <3>1. SameOrder(wal, wal', j)
      BY <2>1, <2>2 DEF SameOrder, AnswerIs
    <3>2. SameEnd(trade[j], trade'[j])
      <4>1. "NONE" \notin Settled /\ "OPEN" \notin Settled
        BY DEF Settled
      <4>2. wal[n].kind = "open" => trade[k].status = "NONE"
        BY <2>1 DEF OtcIInv, LogInv, RightLog, OrderRow
      <4>3. QED
        BY <2>1, <4>1, <4>2 DEF SameEnd, AnswerIs
    <3>3. QED
      BY <1>1, <3>1, <3>2, OrderKept
  <2>3. CASE wal[n].kind = "open" /\ ~fate[k].filled
    <3>1. /\ wal'[n].status = "REJECTED" /\ trade[k].status = "NONE" /\ "NONE" \notin Settled
      BY <2>1, <2>3 DEF AnswerIs, OtcIInv, LogInv, RightLog, OrderRow, Settled
    <3>2. OrderClaim(k) = [phase |-> "held", amount |-> wal[n].stake]
      BY <2>1, <2>3, <3>1, OrderOfRow
    <3>3. n \in 1..Len(wal') /\ wal'[n].kind = "open" /\ wal'[n].key = k
      BY <2>1, <2>3
    <3>4. OrderClaim(k)' = [phase |-> "released", amount |-> wal[n].stake]
      BY <1>1, <2>1, <3>1, <3>3, OrderOfRowNext
    <3>5. Balance(account)' = Balance(account) + wal[n].stake
      BY <1>3, <2>3 DEF Answered
    <3>6. wal[n].stake \in OrderGrants(wal[n].stake)
      BY DEF OrderGrants
    <3>7. PICK stake : stake = wal[n].stake
      OBVIOUS
    <3>8. QED
      BY <2>1, <2>2, <3>2, <3>4, <3>5, <3>6, <3>7, OneReleases
  <2>4. CASE ~(wal[n].kind = "open" /\ ~fate[k].filled)
    <3>1. Balance(account)' = Balance(account)
      BY <1>3, <2>4 DEF Answered
    <3>2. \A j \in Keys : OrderClaim(j)' = OrderClaim(j)
      BY <2>2, <2>4
    <3>3. QED
      BY <3>1, <3>2, NoneMoves
  <2>5. QED
    BY <2>3, <2>4
<1>4. QED
  BY <1>2, <1>3, ProcessAnswers

LEMMA SettleReleases ==
  ASSUME OtcIInv, NEW w \in Writers, NEW k \in Keys, Settle(w, k)
  PROVE  Promise!Next \/ UNCHANGED Promise!escrowVars
<1>1. OtcIInv' /\ UNCHANGED <<wal, fate>>
  BY SettleStep DEF Settle
<1>2. CASE UNCHANGED <<account, trade>>
  BY <1>1, <1>2, NoneMoves DEF Balance, OrderClaim, RowsOf, RowOf
<1>3. CASE Paid(k)
  <2>1. PICK i \in 1..Len(wal) : RowOf(k) = wal[i] /\ wal[i].kind = "open" /\ wal[i].key = k
    BY <1>3, RowOfOrder DEF Paid
  <2>2. /\ trade[k].status = "OPEN" /\ trade'[k].status = fate[k].status
        /\ "OPEN" \notin Settled
        /\ \A j \in Keys : j # k => trade'[j] = trade[j]
    BY <1>3 DEF Paid, Settled
  <2>3. fate[k].status \in Settled
    BY FateKinds DEF OtcIInv
  <2>4. wal[i].status # "REJECTED"
    BY <2>1, <2>2 DEF OtcIInv, LogInv, RightLog, OrderRow
  <2>5. OrderClaim(k) = [phase |-> "held", amount |-> wal[i].stake]
    BY <2>1, <2>2, <2>4, OrderOfRow
  <2>6. i \in 1..Len(wal') /\ wal'[i].kind = "open" /\ wal'[i].key = k /\ wal'[i].stake = wal[i].stake
    BY <1>1, <2>1
  <2>7. OrderClaim(k)' = [phase |-> "released", amount |-> wal[i].stake]
    BY <1>1, <2>2, <2>3, <2>6, OrderOfRowNext
  <2>8. PICK credit : credit = Credit(wal[i].stake, fate[k].status)
    OBVIOUS
  <2>9. Balance(account)' = Balance(account) + credit
    BY <1>3, <2>1, <2>8 DEF Paid
  <2>10. credit \in OrderGrants(wal[i].stake)
    BY <2>8 DEF OrderGrants, Credit
  <2>11. ASSUME NEW j \in Keys, j # k PROVE OrderClaim(j)' = OrderClaim(j)
    <3>1. SameOrder(wal, wal', j)
      BY <1>1 DEF SameOrder
    <3>2. SameEnd(trade[j], trade'[j])
      BY <2>2, <2>11 DEF SameEnd
    <3>3. QED
      BY <1>1, <3>1, <3>2, OrderKept
  <2>12. PICK stake : stake = wal[i].stake
    OBVIOUS
  <2>13. QED
    BY <2>5, <2>7, <2>9, <2>10, <2>11, <2>12, OneReleases
<1>4. QED
  BY <1>2, <1>3, SettlePays

(* For every number of orders, writers, crashes and lost locks: an order    *)
(* takes its stake out of money that is there, and gives it back once, by   *)
(* its rejection or by its settlement, with a credit the stake permits.     *)
THEOREM OtcRefinesEscrow == Spec => OtcImplementsEscrow
<1>1. ASSUME Init PROVE Promise!Init
  <2>1. Balance(account) \in Nat
    BY <1>1, OpeningAssumption DEF Init, AccountInit, Balance
  <2>2. wal = <<>>
    BY <1>1 DEF Init
  <2>3. \A k \in Keys : RowsOf(k) = {}
    BY <2>2 DEF RowsOf
  <2>4. \A k \in Keys : OrderClaim(k) = Promise!NoClaim
    BY <2>3 DEF OrderClaim, Promise!NoClaim
  <2>5. QED
    BY <2>1, <2>4 DEF Promise!Init
<1>2. OtcIInv /\ [Next]_vars => [Promise!Next]_(Promise!escrowVars)
  <2> SUFFICES ASSUME OtcIInv, [Next]_vars
               PROVE  [Promise!Next]_(Promise!escrowVars)
    OBVIOUS
  <2>1. ASSUME NEW w \in Writers, Drain(w)
        PROVE  Promise!Next \/ UNCHANGED Promise!escrowVars \/ UNCHANGED <<account, wal, trade>>
    BY <2>1, ProcessReleases, SettleReleases DEF Drain, PassRow, Drained, databaseVars, accountVars
  <2>2. ASSUME NEW w \in Writers, NEW k \in Keys, NEW stake \in Stakes, Reserve(w, k, stake)
        PROVE  Promise!Next
    BY <2>2, ReserveHolds
  <2>3. ASSUME NEW w \in Writers, AppendAdvance(w)
        PROVE  UNCHANGED Promise!escrowVars
    BY <2>3, AdvanceLeavesOrders
  <2>4. ASSUME UNCHANGED <<account, wal, trade>>
        PROVE  UNCHANGED Promise!escrowVars
    BY <2>4, NoneMoves DEF Balance, OrderClaim, RowsOf, RowOf
  <2>5. \/ \E w \in Writers :
             \/ Drain(w) \/ AppendAdvance(w)
             \/ \E k \in Keys, stake \in Stakes : Reserve(w, k, stake)
        \/ UNCHANGED <<account, wal, trade>>
    BY DEF Next, Start, Acquire, TakeGeneration, Checkpoint, FencedOut, Crash, NoticeLoss,
       LoseLock, Tick, databaseVars, accountVars, vars
  <2>6. QED
    BY <2>1, <2>2, <2>3, <2>4, <2>5
<1>3. QED
  BY <1>1, <1>2, OtcInvariant, PTL DEF Spec, OtcImplementsEscrow, Promise!Spec
==============================================================================
