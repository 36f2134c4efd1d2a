--------------------------- MODULE TradeDeskProofs ---------------------------
(***************************************************************************)
(* For every set of trades, prices and durations, and any number of late   *)
(* ticks, failed writes, retries, crashes and restarts: the engine keeps   *)
(* every open trade in exactly one place, the ledgers of the house count   *)
(* it once, and all trades of one second are settled at one price.         *)
(***************************************************************************)
EXTENDS TradeDesk, FiniteSetTheorems, SequenceTheorems, TLAPS

(* A call writes a trade that is not there yet, and remembers its expiry. *)
CallInv ==
  \A t \in Trades :
    /\ call[t].pc = "writing" => row[t].status = "NONE"
    /\ InCall(t) => row[t].status # "NONE" /\ row[t].expiry = call[t].expiry

(* The book, the queue, the calls and the trades still to hydrate have no   *)
(* trade in common, and only trades that are in the database; a trade whose *)
(* open lost its answer is in none of them.                                 *)
PlaceInv ==
  /\ \A t \in Trades :
       /\ row[t].status = "NONE" => t \notin book /\ ~InQueue(t) /\ ~ToHydrate(t)
       /\ t \in book => ~InQueue(t) /\ ~InCall(t) /\ ~ToHydrate(t)
       /\ InCall(t) => ~InQueue(t)
       /\ LostReply(t) => t \notin book /\ ~InQueue(t) /\ ~ToHydrate(t)
  /\ \A i, j \in DOMAIN pending : pending[i].trade = pending[j].trade => i = j

(* An engine that is not up has nothing in its queue and no call running. *)
QuietInv ==
  /\ engine = Down => starts < MaxStarts
  /\ engine \notin Up => pending = <<>> /\ settled = {} /\ \A t \in Trades : call[t] = NoCall
  /\ engine.pc = "hydrating" => engine.now <= clock

KnownInv ==
  engine # Down =>
    \A t \in Trades : IsOpen(t) /\ t \notin reported =>
      t \in book \/ InQueue(t) \/ InCall(t) \/ ToHydrate(t) \/ LostReply(t)

(* A settlement whose ledgers are being written is not in them yet. *)
LedgerInv ==
  \A t \in Trades :
    /\ booked[t] \in 0..1
    /\ booked[t] = 1 => row[t].status = "SETTLED"
    /\ t \in settled => row[t].status = "SETTLED" /\ booked[t] = 0

ExitPrices == {0} \cup Prices

(* The price a trade was captured at, in the queue or in the database. *)
WaitsAt(t, p) == \E i \in DOMAIN pending : pending[i].trade = t /\ pending[i].exit = p
HasPrice(t, p) == WaitsAt(t, p) \/ (row[t].status = "SETTLED" /\ row[t].exit = p)

(* A second is captured at one price; it is over then, and it is over for   *)
(* the book: no trade of that second is captured later.                     *)
PriceInv ==
  \A t \in Trades, p \in ExitPrices : HasPrice(t, p) =>
    /\ row[t].expiry <= clock
    /\ engine.pc = "hydrating" => row[t].expiry <= engine.now
    /\ \A u \in book : row[u].expiry # row[t].expiry
    /\ \A u \in Trades, q \in ExitPrices :
         HasPrice(u, q) /\ row[u].expiry = row[t].expiry => p = q

DeskIInv ==
  /\ TypeOK
  /\ CallInv
  /\ PlaceInv
  /\ QuietInv
  /\ KnownInv
  /\ LedgerInv
  /\ PriceInv

USE SettingAssumption

----------------------------------------------------------------------------
(* The queue. *)

LEMMA QueueItems ==
  ASSUME pending \in Seq(ItemRecord)
  PROVE  /\ Len(pending) \in Nat /\ DOMAIN pending = 1..Len(pending)
         /\ \A i \in DOMAIN pending : /\ pending[i] \in ItemRecord
                                      /\ pending[i].trade \in Trades /\ pending[i].exit \in Prices
<1>1. Len(pending) \in Nat /\ DOMAIN pending = 1..Len(pending)
  OBVIOUS
<1>2. \A i \in DOMAIN pending : pending[i] \in ItemRecord
  BY <1>1, ElementOfSeq
<1>3. QED
  BY <1>1, <1>2 DEF ItemRecord

(* The head leaves the queue. *)
LEMMA QueueShrinks ==
  ASSUME pending \in Seq(ItemRecord), pending # <<>>, pending' = Tail(pending),
         \A i, j \in DOMAIN pending : pending[i].trade = pending[j].trade => i = j
  PROVE  /\ pending' \in Seq(ItemRecord)
         /\ \A i, j \in DOMAIN pending' : pending'[i].trade = pending'[j].trade => i = j
         /\ \A t : InQueue(t)' <=> InQueue(t) /\ t # Head(pending).trade
         /\ \A t, p : WaitsAt(t, p)' => WaitsAt(t, p)
<1>0. Len(pending) \in Nat \ {0}
  BY EmptySeq
<1>1. PICK N \in Nat : N = Len(pending) /\ N > 0 /\ DOMAIN pending = 1..N
  <2>1. Len(pending) > 0 /\ DOMAIN pending = 1..Len(pending)
    BY <1>0, QueueItems
  <2>2. QED
    BY <1>0, <2>1
<1>2. /\ pending' \in Seq(ItemRecord) /\ DOMAIN pending' = 1..(N - 1)
      /\ \A j \in 1..(N - 1) : pending'[j] = pending[j + 1]
      /\ Head(pending) = pending[1]
  BY <1>1
<1>3. \A j \in 1..(N - 1) : j + 1 \in 1..N /\ j + 1 # 1
  BY <1>1
<1>4. \A i \in 1..N : i = 1 \/ (i - 1 \in 1..(N - 1) /\ (i - 1) + 1 = i)
  BY <1>1
<1>5. \A i, j \in DOMAIN pending' : pending'[i].trade = pending'[j].trade => i = j
  BY <1>1, <1>2, <1>3
<1>6. ASSUME NEW t PROVE InQueue(t)' <=> InQueue(t) /\ t # Head(pending).trade
  <2>1. ASSUME NEW j \in DOMAIN pending', pending'[j].trade = t
        PROVE  InQueue(t) /\ t # Head(pending).trade
    <3>1. j + 1 \in DOMAIN pending /\ pending[j + 1].trade = t /\ j + 1 # 1 /\ 1 \in DOMAIN pending
      BY <1>1, <1>2, <1>3, <2>1
    <3>2. QED
      BY <1>2, <3>1 DEF InQueue
  <2>2. ASSUME NEW i \in DOMAIN pending, pending[i].trade = t, t # Head(pending).trade
        PROVE  InQueue(t)'
    <3>1. i - 1 \in DOMAIN pending' /\ pending'[i - 1] = pending[i]
      BY <1>1, <1>2, <1>4, <2>2
    <3>2. QED
      BY <2>2, <3>1 DEF InQueue
  <2>3. QED
    BY <2>1, <2>2 DEF InQueue
<1>7. ASSUME NEW t, NEW p, WaitsAt(t, p)' PROVE WaitsAt(t, p)
  <2>1. PICK j \in DOMAIN pending' : pending'[j].trade = t /\ pending'[j].exit = p
    BY <1>7 DEF WaitsAt
  <2>2. j + 1 \in DOMAIN pending /\ pending[j + 1] = pending'[j]
    BY <1>1, <1>2, <1>3
  <2>3. QED
    BY <2>1, <2>2 DEF WaitsAt
<1>8. QED
  BY <1>2, <1>5, <1>6, <1>7

(* The head stays, with one more attempt. *)
LEMMA QueueRetries ==
  ASSUME pending \in Seq(ItemRecord), pending # <<>>, ~LastAttempt(Head(pending)),
         pending' = [pending EXCEPT ![1].attempts = @ + 1],
         \A i, j \in DOMAIN pending : pending[i].trade = pending[j].trade => i = j
  PROVE  /\ pending' \in Seq(ItemRecord)
         /\ \A i, j \in DOMAIN pending' : pending'[i].trade = pending'[j].trade => i = j
         /\ \A t : InQueue(t)' <=> InQueue(t)
         /\ \A t, p : WaitsAt(t, p)' => WaitsAt(t, p)
<1>1. PICK N \in Nat : /\ N = Len(pending) /\ N > 0 /\ DOMAIN pending = 1..N
                       /\ \A i \in 1..N : pending[i] \in ItemRecord
  BY QueueItems, EmptySeq
<1>2. PICK x \in ItemRecord : x = pending[1] /\ Head(pending) = x
  BY <1>1
<1>3. PICK n \in 0..(MaxAttempts - 1) : n = x.attempts + 1
  <2>1. x.attempts \in 0..(MaxAttempts - 1) /\ x.attempts + 1 # MaxAttempts
    BY <1>2 DEF ItemRecord, LastAttempt
  <2>2. QED
    BY <2>1
<1>4. PICK y : y = [x EXCEPT !.attempts = n] /\ pending' = [pending EXCEPT ![1] = y]
  BY <1>1, <1>2, <1>3
<1>5. y \in ItemRecord /\ y.trade = x.trade /\ y.exit = x.exit
  BY <1>4 DEF ItemRecord
<1>6. /\ DOMAIN pending' = 1..N
      /\ \A i \in 1..N : /\ pending'[i] \in ItemRecord
                         /\ pending'[i].trade = pending[i].trade
                         /\ pending'[i].exit = pending[i].exit
  BY <1>1, <1>2, <1>4, <1>5
<1>7. pending' \in Seq(ItemRecord)
  BY <1>1, <1>4, <1>5, ExceptSeq
<1>8. QED
  BY <1>1, <1>6, <1>7 DEF InQueue, WaitsAt

(* An order of capture names every due trade exactly once. *)
LEMMA CaptureOrder ==
  ASSUME NEW S \in SUBSET Trades, NEW order \in [1..Cardinality(S) -> S],
         \A t \in S : \E i \in DOMAIN order : order[i] = t
  PROVE  \E n \in Nat :
           /\ order \in [1..n -> S]
           /\ \A t \in S : \E i \in 1..n : order[i] = t
           /\ \A i, j \in 1..n : order[i] = order[j] => i = j
<1>1. IsFiniteSet(S)
  BY FS_Subset
<1>2. PICK n \in Nat : n = Cardinality(S)
  BY <1>1, FS_CardinalityType
<1>3. order \in [1..n -> S] /\ \A t \in S : \E i \in 1..n : order[i] = t
  BY <1>2
<1>4. IsFiniteSet(1..n) /\ Cardinality(1..n) = Cardinality(S)
  BY <1>2, FS_Interval
<1>5. order \in Surjection(1..n, S)
  BY <1>3 DEF Surjection
<1>6. order \in Injection(1..n, S)
  BY <1>4, <1>5, FS_SurjSameCardinalityImpliesInj
<1>7. \A i, j \in 1..n : order[i] = order[j] => i = j
  BY <1>3, <1>6 DEF Injection, IsInjective
<1>8. QED
  BY <1>3, <1>7

(* The due trades join the queue, all at the price of this tick. *)
LEMMA QueueGrows ==
  ASSUME pending \in Seq(ItemRecord), price' \in Prices,
         NEW D \in SUBSET Trades, NEW ranks \in Captured(D),
         \A t \in D : ~InQueue(t),
         \A i, j \in DOMAIN pending : pending[i].trade = pending[j].trade => i = j,
         pending' = pending \o [i \in DOMAIN ranks |->
                       [trade |-> ranks[i], exit |-> price', attempts |-> 0]]
  PROVE  /\ pending' \in Seq(ItemRecord)
         /\ \A i, j \in DOMAIN pending' : pending'[i].trade = pending'[j].trade => i = j
         /\ \A t : InQueue(t)' <=> InQueue(t) \/ t \in D
         /\ \A t, p : WaitsAt(t, p)' => WaitsAt(t, p) \/ (t \in D /\ p = price')
<1>1. PICK n \in Nat : /\ ranks \in [1..n -> D]
                       /\ \A t \in D : \E i \in 1..n : ranks[i] = t
                       /\ \A i, j \in 1..n : ranks[i] = ranks[j] => i = j
  <2>1. /\ D \in SUBSET Trades /\ ranks \in [1..Cardinality(D) -> D]
        /\ \A t \in D : \E i \in DOMAIN ranks : ranks[i] = t
    BY DEF Captured
  <2>2. QED
    BY ONLY <2>1, CaptureOrder
<1>2. PICK N \in Nat : N = Len(pending) /\ DOMAIN pending = 1..N
  BY QueueItems
<1>3. PICK more : /\ more = [i \in 1..n |-> [trade |-> ranks[i], exit |-> price', attempts |-> 0]]
                  /\ pending' = pending \o more
  BY <1>1
<1>4. \A i \in 1..n : more[i] \in ItemRecord /\ more[i].trade = ranks[i] /\ more[i].exit = price'
  BY <1>1, <1>3 DEF ItemRecord
<1>5. more \in Seq(ItemRecord) /\ Len(more) = n
  <2>1. more \in [1..n -> ItemRecord]
    BY <1>3, <1>4
  <2>2. QED
    BY <2>1
<1>6. /\ pending' \in Seq(ItemRecord) /\ DOMAIN pending' = 1..(N + n)
      /\ \A i \in 1..(N + n) : pending'[i] = IF i <= N THEN pending[i] ELSE more[i - N]
  <2>1. /\ pending' \in Seq(ItemRecord) /\ Len(pending') = N + n
        /\ \A i \in 1..(N + n) : pending'[i] = IF i <= N THEN pending[i] ELSE more[i - N]
    <3>1. PICK front \in Seq(ItemRecord) : front = pending
      OBVIOUS
    <3>2. /\ front \o more \in Seq(ItemRecord)
          /\ Len(front \o more) = Len(front) + Len(more)
          /\ \A i \in 1..(Len(front) + Len(more)) :
               (front \o more)[i] = IF i <= Len(front) THEN front[i] ELSE more[i - Len(front)]
      BY ONLY <1>5, <3>1, ConcatProperties
    <3>3. QED
      BY <1>2, <1>3, <1>5, <3>1, <3>2
  <2>2. DOMAIN pending' = 1..Len(pending')
    BY <2>1
  <2>3. QED
    BY <2>1, <2>2
<1>7. \A i \in 1..N : i \in 1..(N + n) /\ i <= N
  OBVIOUS
<1>8. \A i \in 1..n : N + i \in 1..(N + n) /\ ~(N + i <= N) /\ (N + i) - N = i
  OBVIOUS
<1>9. \A i \in 1..(N + n) : i \in 1..N \/ (~(i <= N) /\ i - N \in 1..n /\ N + (i - N) = i)
  OBVIOUS
<1>10. \A i \in 1..(N + n) :
         \/ i \in DOMAIN pending /\ pending'[i] = pending[i]
         \/ /\ i - N \in 1..n /\ N + (i - N) = i
            /\ pending'[i].trade = ranks[i - N] /\ pending'[i].exit = price'
            /\ pending'[i].trade \in D
  BY <1>1, <1>2, <1>4, <1>6, <1>7, <1>9
<1>11. ASSUME NEW i \in DOMAIN pending', NEW j \in DOMAIN pending',
              pending'[i].trade = pending'[j].trade
       PROVE  i = j
  <2>1. CASE i \in DOMAIN pending /\ pending'[i] = pending[i]
    <3>1. pending'[i].trade \notin D
      BY <2>1 DEF InQueue
    <3>2. j \in DOMAIN pending /\ pending'[j] = pending[j]
      BY <1>6, <1>10, <1>11, <3>1
    <3>3. QED
      BY <1>11, <2>1, <3>2
  <2>2. CASE /\ i - N \in 1..n /\ N + (i - N) = i
             /\ pending'[i].trade = ranks[i - N] /\ pending'[i].trade \in D
    <3>1. /\ j - N \in 1..n /\ N + (j - N) = j
          /\ pending'[j].trade = ranks[j - N]
      BY <1>6, <1>10, <1>11, <2>2 DEF InQueue
    <3>2. i - N = j - N
      BY <1>1, <1>11, <2>2, <3>1
    <3>3. QED
      BY <2>2, <3>1, <3>2
  <2>3. QED
    BY <1>6, <1>10, <2>1, <2>2
<1>12. ASSUME NEW t, InQueue(t) PROVE InQueue(t)'
  <2>1. PICK i \in 1..N : pending[i].trade = t
    BY <1>2, <1>12 DEF InQueue
  <2>2. i \in DOMAIN pending' /\ pending'[i] = pending[i]
    BY <1>6, <1>7
  <2>3. QED
    BY <2>1, <2>2 DEF InQueue
<1>13. ASSUME NEW t \in D PROVE InQueue(t)'
  <2>1. PICK i \in 1..n : ranks[i] = t
    BY <1>1
  <2>2. N + i \in DOMAIN pending' /\ pending'[N + i] = more[i]
    BY <1>6, <1>8
  <2>3. QED
    BY <1>4, <2>1, <2>2 DEF InQueue
<1>14. ASSUME NEW t, InQueue(t)' PROVE InQueue(t) \/ t \in D
  <2>1. PICK i \in DOMAIN pending' : pending'[i].trade = t
    BY <1>14 DEF InQueue
  <2>2. QED
    BY <1>6, <1>10, <2>1 DEF InQueue
<1>15. ASSUME NEW t, NEW p, WaitsAt(t, p)' PROVE WaitsAt(t, p) \/ (t \in D /\ p = price')
  <2>1. PICK i \in DOMAIN pending' : pending'[i].trade = t /\ pending'[i].exit = p
    BY <1>15 DEF WaitsAt
  <2>2. QED
    BY <1>6, <1>10, <2>1 DEF WaitsAt
<1>16. QED
  BY <1>6, <1>11, <1>12, <1>13, <1>14, <1>15

----------------------------------------------------------------------------
(* What each part of the invariant needs of a step. *)

LEMMA EngineKinds ==
  ASSUME TypeOK
  PROVE  /\ engine \in Up => engine # Down /\ engine.pc # "hydrating"
         /\ engine.pc = "hydrating" =>
              /\ engine \notin Up /\ engine # Down
              /\ engine.now \in 0..MaxClock /\ engine.todo \in SUBSET Trades
         /\ Running.pc # "hydrating" /\ Moving.pc # "hydrating" /\ Down.pc # "hydrating"
         /\ Running # Down /\ Moving # Down
         /\ Running \in Up /\ Moving \in Up /\ Down \notin Up
  BY DEF TypeOK, Up, Running, Moving, Down

(* No step but one that adds to a place can break the disjointness of them. *)
LEMMA PlacesKept ==
  ASSUME PlaceInv,
         \A t \in Trades :
           /\ row'[t].status = "NONE" => row[t].status = "NONE"
           /\ t \in book' => t \in book
           /\ InQueue(t)' => InQueue(t)
           /\ InCall(t)' => InCall(t)
           /\ LostReply(t)' => LostReply(t)
           /\ ToHydrate(t)' => ToHydrate(t),
         \A i, j \in DOMAIN pending' : pending'[i].trade = pending'[j].trade => i = j
  PROVE  PlaceInv'
  BY DEF PlaceInv

(* A step that captures no price, and adds nothing to the book of a second  *)
(* that was captured, keeps the prices.                                     *)
LEMMA PriceKept ==
  ASSUME TypeOK, PriceInv, clock' \in Nat, clock <= clock',
         \A t \in Trades, p \in ExitPrices : HasPrice(t, p)' => HasPrice(t, p),
         \A t \in Trades, p \in ExitPrices : HasPrice(t, p) => row'[t].expiry = row[t].expiry,
         \A u \in book' :
           \/ u \in book /\ row'[u].expiry = row[u].expiry
           \/ \A t \in Trades, p \in ExitPrices :
                HasPrice(t, p) => row'[u].expiry # row[t].expiry,
         engine'.pc = "hydrating" =>
           \A t \in Trades, p \in ExitPrices : HasPrice(t, p) => row[t].expiry <= engine'.now
  PROVE  PriceInv'
<1>1. SUFFICES ASSUME NEW t \in Trades, NEW p \in ExitPrices, HasPrice(t, p)'
               PROVE  /\ row'[t].expiry <= clock'
                      /\ engine'.pc = "hydrating" => row'[t].expiry <= engine'.now
                      /\ \A u \in book' : row'[u].expiry # row'[t].expiry
                      /\ \A u \in Trades, q \in ExitPrices :
                           HasPrice(u, q)' /\ row'[u].expiry = row'[t].expiry => p = q
  BY DEF PriceInv, ExitPrices
<1>2. HasPrice(t, p) /\ row'[t].expiry = row[t].expiry
  BY <1>1
<1>3. row'[t].expiry <= clock'
  <2>1. row[t].expiry \in Nat /\ clock \in Nat /\ row[t].expiry <= clock
    BY <1>2 DEF TypeOK, RowRecord, PriceInv
  <2>2. QED
    BY <1>2, <2>1
<1>4. engine'.pc = "hydrating" => row'[t].expiry <= engine'.now
  BY <1>2
<1>5. \A u \in book' : row'[u].expiry # row'[t].expiry
  BY <1>2 DEF PriceInv
<1>6. \A u \in Trades, q \in ExitPrices :
        HasPrice(u, q)' /\ row'[u].expiry = row'[t].expiry => p = q
  BY <1>2 DEF PriceInv
<1>7. QED
  BY <1>3, <1>4, <1>5, <1>6

----------------------------------------------------------------------------
LEMMA ClockStep ==
  ASSUME DeskIInv, Clock
  PROVE  DeskIInv'
<1>1. TypeOK'
  BY DEF DeskIInv, Clock, TypeOK, database, process, memory
<1>2. /\ UNCHANGED <<row, booked, engine, starts, loaded, price, call, book, pending, settled, reported>>
      /\ clock' = clock + 1 /\ clock \in 0..MaxClock /\ clock' \in 0..MaxClock
  BY DEF DeskIInv, Clock, TypeOK, database, process, memory
<1>3. CallInv' /\ PlaceInv' /\ KnownInv' /\ LedgerInv'
  BY <1>2 DEF DeskIInv, CallInv, PlaceInv, KnownInv, LedgerInv, InCall, LostReply, InQueue, ToHydrate, IsOpen
<1>4. QuietInv'
  <2>1. engine.pc = "hydrating" => engine.now \in 0..MaxClock /\ engine.now <= clock
    BY EngineKinds DEF DeskIInv, QuietInv
  <2>2. QED
    BY <1>2, <2>1 DEF DeskIInv, QuietInv
<1>5. PriceInv'
  <2>1. \A t, p : HasPrice(t, p)' <=> HasPrice(t, p)
    BY <1>2 DEF HasPrice, WaitsAt
  <2>2. \A t \in Trades, p \in ExitPrices : HasPrice(t, p) /\ engine.pc = "hydrating" =>
          row[t].expiry <= engine.now
    BY DEF DeskIInv, PriceInv
  <2>3. QED
    BY <1>2, <2>1, <2>2, PriceKept DEF DeskIInv
<1>6. QED
  BY <1>1, <1>3, <1>4, <1>5 DEF DeskIInv

LEMMA OpenTradeStep ==
  ASSUME DeskIInv, NEW t \in Trades, NEW d \in Durations, Open(t, d)
  PROVE  DeskIInv'
<1>1. /\ UNCHANGED <<clock, row, booked, engine, starts, loaded, price, book, pending, settled, reported>>
      /\ engine \in Up /\ engine # Down /\ engine.pc # "hydrating"
      /\ row[t].status = "NONE" /\ call[t].pc = "idle"
      /\ call' = [call EXCEPT ![t] = [pc |-> "writing", expiry |-> clock + d]]
      /\ call \in [Trades -> CallRecord] /\ clock \in Nat /\ d \in Nat /\ clock + d \in Nat
  BY EngineKinds DEF DeskIInv, TypeOK, Open, database, process, NoRow
<1>2. TypeOK'
  <2>1. [pc |-> "writing", expiry |-> clock + d] \in CallRecord
    BY <1>1 DEF CallRecord
  <2>2. call' \in [Trades -> CallRecord]
    BY <1>1, <2>1
  <2>3. QED
    BY <1>1, <2>2 DEF DeskIInv, TypeOK
<1>3. \A u \in Trades : /\ u # t => call'[u] = call[u]
                        /\ InCall(u)' <=> InCall(u)
                        /\ LostReply(u)' <=> LostReply(u)
  BY <1>1 DEF InCall, LostReply
<1>4. CallInv'
  <2>1. call'[t].pc = "writing" /\ ~InCall(t)'
    BY <1>1 DEF InCall, LostReply
  <2>2. QED
    BY <1>1, <1>3, <2>1 DEF DeskIInv, CallInv
<1>5. PlaceInv'
  BY <1>1, <1>3, PlacesKept DEF DeskIInv, PlaceInv, InQueue, ToHydrate
<1>6. QuietInv' /\ LedgerInv'
  BY <1>1 DEF DeskIInv, QuietInv, LedgerInv
<1>7. KnownInv'
  BY <1>1, <1>3 DEF DeskIInv, KnownInv, IsOpen, InQueue, ToHydrate
<1>8. PriceInv'
  BY <1>1 DEF DeskIInv, PriceInv, HasPrice, WaitsAt
<1>9. QED
  BY <1>2, <1>4, <1>5, <1>6, <1>7, <1>8 DEF DeskIInv

LEMMA WriteTradeStep ==
  ASSUME DeskIInv, NEW t \in Trades, WriteTrade(t)
  PROVE  DeskIInv'
<1>1. /\ UNCHANGED <<clock, booked, engine, starts, loaded, price, book, pending, settled, reported>>
      /\ engine \in Up /\ engine # Down /\ engine.pc # "hydrating"
      /\ row[t].status = "NONE" /\ call[t].pc = "writing"
      /\ call \in [Trades -> CallRecord] /\ row \in [Trades -> RowRecord]
  BY EngineKinds DEF DeskIInv, CallInv, TypeOK, WriteTrade, process
<1>2. call[t] \in CallRecord /\ call[t].expiry \in Nat
  BY <1>1 DEF CallRecord
<1>3. t \notin book /\ ~InQueue(t) /\ ~ToHydrate(t) /\ ~InCall(t)
  BY <1>1 DEF DeskIInv, PlaceInv, InCall, LostReply
<1>4. ASSUME row' = [row EXCEPT ![t] = [status |-> "OPEN", expiry |-> call[t].expiry, exit |-> 0]],
             NEW pc \in {"written", "lost"}, call' = [call EXCEPT ![t].pc = pc]
      PROVE  DeskIInv'
  <2>1. TypeOK'
    <3>1. [status |-> "OPEN", expiry |-> call[t].expiry, exit |-> 0] \in RowRecord
      BY <1>2 DEF RowRecord
    <3>2. row' \in [Trades -> RowRecord]
      BY <1>1, <1>4, <3>1
    <3>3. call' \in [Trades -> CallRecord]
      BY <1>1, <1>2, <1>4 DEF CallRecord
    <3>4. QED
      BY <1>1, <3>2, <3>3 DEF DeskIInv, TypeOK
  <2>2. /\ \A u \in Trades : u # t => row'[u] = row[u] /\ call'[u] = call[u]
        /\ row'[t].status = "OPEN" /\ row'[t].expiry = call[t].expiry
        /\ call'[t].pc = pc /\ call'[t].expiry = call[t].expiry
    BY <1>1, <1>2, <1>4 DEF CallRecord
  <2>3. \A u \in Trades : (InQueue(u)' <=> InQueue(u)) /\ (ToHydrate(u)' <=> ToHydrate(u))
    BY <1>1 DEF InQueue, ToHydrate
  <2>4. /\ InCall(t)' \/ LostReply(t)'
        /\ ~(InCall(t)' /\ LostReply(t)')
        /\ \A u \in Trades : u # t => (InCall(u)' <=> InCall(u)) /\ (LostReply(u)' <=> LostReply(u))
    BY <2>2 DEF InCall, LostReply
  <2>5. CallInv'
    BY <2>2, <2>4 DEF DeskIInv, CallInv
  <2>6. PlaceInv'
    BY <1>1, <1>3, <2>2, <2>3, <2>4 DEF DeskIInv, PlaceInv
  <2>7. QuietInv'
    BY <1>1 DEF DeskIInv, QuietInv
  <2>8. LedgerInv'
    BY <1>1, <2>2 DEF DeskIInv, LedgerInv
  <2>9. KnownInv'
    BY <1>1, <2>2, <2>3, <2>4 DEF DeskIInv, KnownInv, IsOpen
  <2>10. PriceInv'
    <3>1. \A p : ~HasPrice(t, p) /\ ~HasPrice(t, p)'
      BY <1>1, <1>3, <2>2 DEF HasPrice, WaitsAt, InQueue
    <3>2. \A u \in Trades : \A p : u # t => (HasPrice(u, p)' <=> HasPrice(u, p))
      BY <1>1, <2>2 DEF HasPrice, WaitsAt
    <3>3. \A u \in book' : u \in book /\ u \in Trades /\ u # t /\ row'[u].expiry = row[u].expiry
      BY <1>1, <1>3, <2>2 DEF DeskIInv, TypeOK
    <3>4. clock \in Nat
      BY DEF DeskIInv, TypeOK
    <3>5. QED
      BY <1>1, <2>2, <3>1, <3>2, <3>3, <3>4, PriceKept DEF DeskIInv
  <2>11. QED
    BY <2>1, <2>5, <2>6, <2>7, <2>8, <2>9, <2>10 DEF DeskIInv
<1>5. CASE call' = [call EXCEPT ![t].pc = "done"] /\ UNCHANGED row
  <2>1. call' \in [Trades -> CallRecord]
    BY <1>1, <1>2, <1>5 DEF CallRecord
  <2>2. \A u \in Trades : /\ u # t => call'[u] = call[u]
                          /\ InCall(u)' <=> InCall(u)
                          /\ LostReply(u)' <=> LostReply(u)
    BY <1>1, <1>5 DEF InCall, LostReply
  <2>3. TypeOK'
    BY <1>1, <1>5, <2>1 DEF DeskIInv, TypeOK
  <2>4. CallInv'
    <3>1. call'[t].pc = "done"
      BY <1>1, <1>5
    <3>2. QED
      BY <1>3, <1>5, <2>2, <3>1 DEF DeskIInv, CallInv
  <2>5. PlaceInv'
    BY <1>1, <1>5, <2>2, PlacesKept DEF DeskIInv, PlaceInv, InQueue, ToHydrate
  <2>6. QuietInv' /\ LedgerInv'
    BY <1>1, <1>5 DEF DeskIInv, QuietInv, LedgerInv
  <2>7. KnownInv'
    BY <1>1, <1>5, <2>2 DEF DeskIInv, KnownInv, IsOpen, InQueue, ToHydrate
  <2>8. PriceInv'
    BY <1>1, <1>5 DEF DeskIInv, PriceInv, HasPrice, WaitsAt
  <2>9. QED
    BY <2>3, <2>4, <2>5, <2>6, <2>7, <2>8 DEF DeskIInv
<1>6. QED
  BY <1>4, <1>5 DEF WriteTrade

LEMMA BookTradeStep ==
  ASSUME DeskIInv, NEW t \in Trades, BookTrade(t)
  PROVE  DeskIInv'
<1>1. /\ UNCHANGED <<clock, row, booked, engine, starts, loaded, price, pending, settled, reported>>
      /\ engine \in Up /\ engine # Down /\ engine.pc # "hydrating"
      /\ call[t].pc = "written" /\ InCall(t) /\ ~LostReply(t)
      /\ call \in [Trades -> CallRecord] /\ row \in [Trades -> RowRecord] /\ book \subseteq Trades
  BY EngineKinds DEF DeskIInv, TypeOK, BookTrade, database, process, InCall, LostReply
<1>2. /\ call[t] \in CallRecord /\ row[t].status # "NONE" /\ row[t].expiry = call[t].expiry
      /\ t \notin book /\ ~InQueue(t) /\ ~ToHydrate(t)
  BY <1>1 DEF DeskIInv, CallInv, PlaceInv, ToHydrate
<1>3. QuietInv' /\ LedgerInv'
  BY <1>1 DEF DeskIInv, QuietInv, LedgerInv
<1>4. \A u \in Trades : (InQueue(u)' <=> InQueue(u)) /\ (ToHydrate(u)' <=> ToHydrate(u))
  BY <1>1 DEF InQueue, ToHydrate
<1>5. CASE IsOver(call[t].expiry)
  <2>1. call' = [call EXCEPT ![t].pc = "late"] /\ book' = book
    BY <1>5 DEF BookTrade
  <2>2. call' \in [Trades -> CallRecord]
    BY <1>1, <1>2, <2>1 DEF CallRecord
  <2>3. /\ \A u \in Trades : u # t => call'[u] = call[u]
        /\ call'[t].pc = "late" /\ call'[t].expiry = call[t].expiry
        /\ \A u \in Trades : (InCall(u)' <=> InCall(u)) /\ (LostReply(u)' <=> LostReply(u))
    BY <1>1, <1>2, <2>1 DEF InCall, LostReply, CallRecord
  <2>4. TypeOK'
    BY <1>1, <2>1, <2>2 DEF DeskIInv, TypeOK
  <2>5. CallInv'
    BY <1>1, <1>2, <2>3 DEF DeskIInv, CallInv
  <2>6. PlaceInv'
    BY <1>1, <1>4, <2>1, <2>3, PlacesKept DEF DeskIInv, PlaceInv
  <2>7. KnownInv'
    BY <1>1, <1>4, <2>1, <2>3 DEF DeskIInv, KnownInv, IsOpen
  <2>8. PriceInv'
    BY <1>1, <2>1 DEF DeskIInv, PriceInv, HasPrice, WaitsAt
  <2>9. QED
    BY <1>3, <2>4, <2>5, <2>6, <2>7, <2>8 DEF DeskIInv
<1>6. CASE ~IsOver(call[t].expiry)
  <2>1. call' = [call EXCEPT ![t].pc = "done"] /\ book' = book \cup {t}
    BY <1>6 DEF BookTrade
  <2>2. call' \in [Trades -> CallRecord]
    BY <1>1, <1>2, <2>1 DEF CallRecord
  <2>3. /\ \A u \in Trades : u # t => /\ call'[u] = call[u]
                                      /\ (InCall(u)' <=> InCall(u)) /\ (LostReply(u)' <=> LostReply(u))
        /\ call'[t].pc = "done" /\ ~InCall(t)' /\ ~LostReply(t)'
    BY <1>1, <1>2, <2>1 DEF InCall, LostReply
  <2>4. TypeOK'
    BY <1>1, <2>1, <2>2 DEF DeskIInv, TypeOK
  <2>5. CallInv'
    BY <1>1, <2>3 DEF DeskIInv, CallInv
  <2>6. PlaceInv'
    BY <1>1, <1>2, <1>4, <2>1, <2>3 DEF DeskIInv, PlaceInv
  <2>7. KnownInv'
    BY <1>1, <1>4, <2>1, <2>3 DEF DeskIInv, KnownInv, IsOpen
  <2>8. PriceInv'
    <3>1. \A u, p : HasPrice(u, p)' <=> HasPrice(u, p)
      BY <1>1 DEF HasPrice, WaitsAt
    <3>2. ~(row[t].expiry <= clock)
      BY <1>2, <1>6 DEF IsOver
    <3>3. \A u \in Trades, p \in ExitPrices : HasPrice(u, p) => row[u].expiry # row[t].expiry
      BY <3>2 DEF DeskIInv, PriceInv
    <3>4. \A u \in book' : u \in book \/ u = t
      BY <2>1
    <3>5. clock \in Nat
      BY DEF DeskIInv, TypeOK
    <3>6. QED
      BY <1>1, <3>1, <3>3, <3>4, <3>5, PriceKept DEF DeskIInv
  <2>9. QED
    BY <1>3, <2>4, <2>5, <2>6, <2>7, <2>8 DEF DeskIInv
<1>7. QED
  BY <1>5, <1>6

(* Voiding a trade settles none, moves no expiry, and reports the trade if it leaves it open. *)
LEMMA VoidFacts ==
  ASSUME row \in [Trades -> RowRecord], reported \subseteq Trades, NEW t \in Trades, Void(t)
  PROVE  /\ row' \in [Trades -> RowRecord] /\ reported' \subseteq Trades
         /\ reported \subseteq reported'
         /\ \A u \in Trades : /\ u # t => row'[u] = row[u]
                              /\ row'[u].expiry = row[u].expiry /\ row'[u].exit = row[u].exit
                              /\ row'[u].status = "SETTLED" <=> row[u].status = "SETTLED"
                              /\ row'[u].status = "NONE" <=> row[u].status = "NONE"
                              /\ row'[u].status = "OPEN" => row[u].status = "OPEN"
         /\ row'[t].status = "OPEN" => t \in reported'
<1>1. PICK x \in RowRecord : x = row[t]
  OBVIOUS
<1>2. CASE row' = row
  BY <1>2 DEF Void
<1>3. CASE row' # row
  <2>1. row' = [row EXCEPT ![t] = Voided(row[t])] /\ row[t].status = "OPEN"
        /\ reported' \in {reported, reported \cup {t}}
    BY <1>3 DEF Void, IsOpen
  <2>2. PICK y : y = Voided(x)
    OBVIOUS
  <2>3. y \in RowRecord /\ y.status = "VOID" /\ y.expiry = x.expiry /\ y.exit = x.exit
    BY <2>2 DEF Voided, RowRecord
  <2>4. row' = [row EXCEPT ![t] = y]
    BY <1>1, <2>1, <2>2
  <2>5. QED
    BY <1>1, <2>1, <2>3, <2>4
<1>4. QED
  BY <1>2, <1>3

LEMMA VoidLateTradeStep ==
  ASSUME DeskIInv, NEW t \in Trades, VoidLateTrade(t)
  PROVE  DeskIInv'
<1>1. /\ UNCHANGED <<clock, booked, engine, starts, loaded, price, book, pending, settled>>
      /\ engine \in Up /\ engine # Down /\ engine.pc # "hydrating"
      /\ call[t].pc = "late" /\ Void(t)
      /\ call' = [call EXCEPT ![t].pc = "done"]
      /\ call \in [Trades -> CallRecord] /\ row \in [Trades -> RowRecord]
      /\ book \subseteq Trades /\ reported \subseteq Trades /\ settled \subseteq Trades
  BY EngineKinds DEF DeskIInv, TypeOK, VoidLateTrade, process
<1>2. /\ row' \in [Trades -> RowRecord] /\ reported' \subseteq Trades
      /\ reported \subseteq reported'
      /\ \A u \in Trades : /\ u # t => row'[u] = row[u]
                           /\ row'[u].expiry = row[u].expiry /\ row'[u].exit = row[u].exit
                           /\ row'[u].status = "SETTLED" <=> row[u].status = "SETTLED"
                           /\ row'[u].status = "NONE" <=> row[u].status = "NONE"
                           /\ row'[u].status = "OPEN" => row[u].status = "OPEN"
      /\ row'[t].status = "OPEN" => t \in reported'
  BY <1>1, VoidFacts
<1>3. call' \in [Trades -> CallRecord]
  <2>1. call[t] \in CallRecord
    BY <1>1
  <2>2. QED
    BY <1>1, <2>1 DEF CallRecord
<1>4. /\ \A u \in Trades : u # t => /\ call'[u] = call[u]
                                    /\ (InCall(u)' <=> InCall(u)) /\ (LostReply(u)' <=> LostReply(u))
      /\ call'[t].pc = "done" /\ ~InCall(t)' /\ ~LostReply(t)'
  BY <1>1 DEF InCall, LostReply
<1>5. \A u \in Trades : (InQueue(u)' <=> InQueue(u)) /\ (ToHydrate(u)' <=> ToHydrate(u))
  BY <1>1 DEF InQueue, ToHydrate
<1>6. TypeOK'
  BY <1>1, <1>2, <1>3 DEF DeskIInv, TypeOK
<1>7. CallInv'
  BY <1>2, <1>4 DEF DeskIInv, CallInv
<1>8. PlaceInv'
  BY <1>1, <1>2, <1>4, <1>5, PlacesKept DEF DeskIInv, PlaceInv
<1>9. QuietInv'
  BY <1>1 DEF DeskIInv, QuietInv
<1>10. LedgerInv'
  BY <1>1, <1>2 DEF DeskIInv, LedgerInv
<1>11. KnownInv'
  BY <1>1, <1>2, <1>4, <1>5 DEF DeskIInv, KnownInv, IsOpen
<1>12. PriceInv'
  <2>1. \A u \in Trades : \A p : HasPrice(u, p)' <=> HasPrice(u, p)
    BY <1>1, <1>2 DEF HasPrice, WaitsAt
  <2>2. clock \in Nat
    BY DEF DeskIInv, TypeOK
  <2>3. \A u \in book' : u \in book /\ row'[u].expiry = row[u].expiry
    BY <1>1, <1>2
  <2>4. QED
    BY <1>1, <1>2, <2>1, <2>2, <2>3, PriceKept DEF DeskIInv
<1>13. QED
  BY <1>6, <1>7, <1>8, <1>9, <1>10, <1>11, <1>12 DEF DeskIInv

----------------------------------------------------------------------------
LEMMA CollectDueStep ==
  ASSUME DeskIInv, CollectDue
  PROVE  DeskIInv'
<1>1. /\ UNCHANGED <<clock, row, booked, starts, loaded, call, settled>>
      /\ engine = Running /\ engine' = Moving
      /\ engine \in Up /\ engine # Down /\ engine.pc # "hydrating"
      /\ engine' \in Up /\ engine' # Down /\ engine'.pc # "hydrating"
      /\ row \in [Trades -> RowRecord] /\ book \subseteq Trades /\ reported \subseteq Trades
      /\ clock \in Nat /\ pending \in Seq(ItemRecord)
  BY EngineKinds DEF DeskIInv, TypeOK, CollectDue, database
<1>2. price' \in Prices
  BY DEF CollectDue, PreSettled, DeskIInv, TypeOK
<1>3. PICK D \in SUBSET Trades : D = Due
  BY <1>1 DEF Due
<1>4. /\ D \subseteq book /\ book' = book \ D
      /\ \A u \in Trades : /\ u \in D <=> u \in book /\ row[u].expiry <= clock
                           /\ u \in book' <=> u \in book /\ ~(row[u].expiry <= clock)
  BY <1>1, <1>3 DEF CollectDue, NotDue, Due
<1>5. /\ \A u \in D : ~InQueue(u) /\ ~InCall(u)
      /\ \A u \in Trades : (InCall(u)' <=> InCall(u)) /\ (LostReply(u)' <=> LostReply(u)) /\ ~ToHydrate(u) /\ ~ToHydrate(u)'
  BY <1>1, <1>4 DEF DeskIInv, PlaceInv, InCall, LostReply, ToHydrate
<1>6. CallInv' /\ LedgerInv' /\ QuietInv'
  BY <1>1, <1>5 DEF DeskIInv, CallInv, LedgerInv, QuietInv
<1>7. CASE loaded
  <2>1. PICK order \in Captured(D) :
          pending' = pending \o [i \in DOMAIN order |->
                       [trade |-> order[i], exit |-> price', attempts |-> 0]]
    BY <1>3, <1>7 DEF CollectDue
  <2>2. reported' = reported
    BY <1>7 DEF CollectDue
  <2>3. \A i, j \in DOMAIN pending : pending[i].trade = pending[j].trade => i = j
    BY DEF DeskIInv, PlaceInv
  <2>4. /\ pending' \in Seq(ItemRecord)
        /\ \A i, j \in DOMAIN pending' : pending'[i].trade = pending'[j].trade => i = j
        /\ \A t : InQueue(t)' <=> InQueue(t) \/ t \in D
        /\ \A t, p : WaitsAt(t, p)' => WaitsAt(t, p) \/ (t \in D /\ p = price')
    BY <1>1, <1>2, <1>5, <2>1, <2>3, QueueGrows
  <2>5. TypeOK'
    BY <1>1, <1>2, <1>4, <2>2, <2>4 DEF DeskIInv, TypeOK
  <2>6. PlaceInv'
    <3>1. \A t \in D : row[t].status # "NONE"
      BY <1>4 DEF DeskIInv, PlaceInv
    <3>2. QED
      BY <1>1, <1>4, <1>5, <2>4, <3>1 DEF DeskIInv, PlaceInv
  <2>7. KnownInv'
    BY <1>1, <1>4, <1>5, <2>2, <2>4 DEF DeskIInv, KnownInv, IsOpen
  <2>8. PriceInv'
    <3>1. \A t \in Trades : \A p : HasPrice(t, p)' => HasPrice(t, p) \/ (t \in D /\ p = price')
      BY <1>1, <2>4 DEF HasPrice
    <3>2. ASSUME NEW t \in Trades, NEW p \in ExitPrices, HasPrice(t, p)'
          PROVE  /\ row[t].expiry <= clock
                 /\ \A u \in book' : row[u].expiry # row[t].expiry
      <4>1. row[t].expiry <= clock
        BY <1>4, <3>1, <3>2 DEF DeskIInv, PriceInv
      <4>2. QED
        BY <1>1, <1>4, <4>1
    <3>3. ASSUME NEW t \in Trades, NEW p \in ExitPrices, HasPrice(t, p)',
                 NEW u \in Trades, NEW q \in ExitPrices, HasPrice(u, q)',
                 row[u].expiry = row[t].expiry
          PROVE  p = q
      <4>1. \A x \in Trades, y \in Trades, r \in ExitPrices :
              HasPrice(x, r) /\ y \in D => row[y].expiry # row[x].expiry
        BY <1>4 DEF DeskIInv, PriceInv
      <4>2. CASE HasPrice(t, p) /\ HasPrice(u, q)
        BY <3>3, <4>2 DEF DeskIInv, PriceInv
      <4>3. CASE ~(HasPrice(t, p) /\ HasPrice(u, q))
        BY <3>1, <3>3, <4>1, <4>3
      <4>4. QED
        BY <4>2, <4>3
    <3>4. QED
      BY <1>1, <3>2, <3>3 DEF PriceInv, ExitPrices
  <2>9. QED
    BY <1>6, <2>5, <2>6, <2>7, <2>8 DEF DeskIInv
<1>8. CASE ~loaded
  <2>1. pending' = pending /\ reported' = reported \cup D
    BY <1>3, <1>8 DEF CollectDue
  <2>2. TypeOK'
    BY <1>1, <1>2, <1>4, <2>1 DEF DeskIInv, TypeOK
  <2>3. PlaceInv'
    BY <1>1, <1>4, <1>5, <2>1, PlacesKept DEF DeskIInv, PlaceInv, InQueue
  <2>4. KnownInv'
    BY <1>1, <1>4, <1>5, <2>1 DEF DeskIInv, KnownInv, IsOpen, InQueue
  <2>5. PriceInv'
    <3>1. \A t, p : HasPrice(t, p)' <=> HasPrice(t, p)
      BY <1>1, <2>1 DEF HasPrice, WaitsAt
    <3>2. \A u \in book' : u \in book /\ row'[u].expiry = row[u].expiry
      BY <1>1, <1>4
    <3>3. QED
      BY <1>1, <3>1, <3>2, PriceKept DEF DeskIInv
  <2>6. QED
    BY <1>6, <2>2, <2>3, <2>4, <2>5 DEF DeskIInv
<1>9. QED
  BY <1>7, <1>8

LEMMA MovePriceStep ==
  ASSUME DeskIInv, MovePrice
  PROVE  DeskIInv'
<1>1. /\ UNCHANGED <<clock, row, booked, starts, loaded, call, book, pending, settled, reported>>
      /\ engine = Moving /\ engine' = Running /\ price' \in Prices
      /\ engine \in Up /\ engine # Down /\ engine.pc # "hydrating"
      /\ engine' \in Up /\ engine' # Down /\ engine'.pc # "hydrating"
  BY EngineKinds DEF DeskIInv, MovePrice, database
<1>2. TypeOK'
  BY <1>1 DEF DeskIInv, TypeOK
<1>3. CallInv' /\ LedgerInv' /\ QuietInv'
  BY <1>1 DEF DeskIInv, CallInv, LedgerInv, QuietInv, InCall, LostReply
<1>4. PlaceInv' /\ KnownInv'
  BY <1>1 DEF DeskIInv, PlaceInv, KnownInv, IsOpen, InQueue, InCall, LostReply, ToHydrate
<1>5. PriceInv'
  BY <1>1 DEF DeskIInv, PriceInv, HasPrice, WaitsAt
<1>6. QED
  BY <1>2, <1>3, <1>4, <1>5 DEF DeskIInv

LEMMA SkipHeadStep ==
  ASSUME DeskIInv, SkipHead
  PROVE  DeskIInv'
<1>1. /\ UNCHANGED <<clock, row, booked, engine, starts, loaded, price, call, book, settled, reported>>
      /\ engine \in Up /\ engine # Down /\ engine.pc # "hydrating"
      /\ pending \in Seq(ItemRecord) /\ pending # <<>> /\ pending' = Tail(pending)
      /\ ~IsOpen(Head(pending).trade)
      /\ clock \in Nat /\ row \in [Trades -> RowRecord] /\ book \subseteq Trades
  BY EngineKinds DEF DeskIInv, TypeOK, SkipHead, database, process
<1>2. \A i, j \in DOMAIN pending : pending[i].trade = pending[j].trade => i = j
  BY DEF DeskIInv, PlaceInv
<1>3. /\ pending' \in Seq(ItemRecord)
      /\ \A i, j \in DOMAIN pending' : pending'[i].trade = pending'[j].trade => i = j
      /\ \A t : InQueue(t)' <=> InQueue(t) /\ t # Head(pending).trade
      /\ \A t, p : WaitsAt(t, p)' => WaitsAt(t, p)
  BY <1>1, <1>2, QueueShrinks
<1>4. \A t \in Trades : (InCall(t)' <=> InCall(t)) /\ (LostReply(t)' <=> LostReply(t)) /\ (ToHydrate(t)' <=> ToHydrate(t))
  BY <1>1 DEF InCall, LostReply, ToHydrate
<1>5. TypeOK'
  BY <1>1, <1>3 DEF DeskIInv, TypeOK
<1>6. CallInv' /\ LedgerInv' /\ QuietInv'
  BY <1>1, <1>4 DEF DeskIInv, CallInv, LedgerInv, QuietInv
<1>7. PlaceInv'
  BY <1>1, <1>3, <1>4, PlacesKept DEF DeskIInv
<1>8. KnownInv'
  BY <1>1, <1>3, <1>4 DEF DeskIInv, KnownInv, IsOpen
<1>9. PriceInv'
  <2>1. \A t \in Trades : \A p : HasPrice(t, p)' => HasPrice(t, p)
    BY <1>1, <1>3 DEF HasPrice
  <2>2. QED
    BY <1>1, <2>1, PriceKept DEF DeskIInv
<1>10. QED
  BY <1>5, <1>6, <1>7, <1>8, <1>9 DEF DeskIInv

(* A settlement moves the head of the queue into the database, at its price. *)
LEMMA SettleHeadStep ==
  ASSUME DeskIInv, NEW reply \in Reply, SettleHead(reply)
  PROVE  DeskIInv'
<1>1. /\ UNCHANGED <<clock, booked, engine, starts, loaded, price, call, book>>
      /\ engine \in Up /\ engine # Down /\ engine.pc # "hydrating"
      /\ pending \in Seq(ItemRecord) /\ pending # <<>> /\ settled = {}
      /\ clock \in Nat /\ row \in [Trades -> RowRecord] /\ book \subseteq Trades
      /\ reported \subseteq Trades
  BY EngineKinds DEF DeskIInv, TypeOK, SettleHead, process
<1>2. PICK item \in ItemRecord : item = Head(pending) /\ 1 \in DOMAIN pending /\ pending[1] = item
  <2>1. Len(pending) \in Nat \ {0}
    BY <1>1, EmptySeq
  <2>2. 1 \in DOMAIN pending /\ Head(pending) = pending[1]
    BY <1>1, <2>1
  <2>3. QED
    BY <1>1, <2>2, QueueItems
<1>3. PICK t \in Trades : t = item.trade /\ InQueue(t) /\ WaitsAt(t, item.exit)
  BY <1>2 DEF ItemRecord, InQueue, WaitsAt
<1>4. /\ row[t].status = "OPEN"
      /\ row' = IF reply = "failed" THEN row ELSE [row EXCEPT ![t] = Settled(row[t], item.exit)]
      /\ settled' = IF reply = "ok" THEN {t} ELSE {}
      /\ pending' = IF reply = "ok" \/ LastAttempt(item) THEN Tail(pending)
                    ELSE [pending EXCEPT ![1].attempts = @ + 1]
      /\ reported' = IF reply # "ok" /\ LastAttempt(item) THEN reported \cup {t} ELSE reported
  BY <1>2, <1>3 DEF SettleHead, IsOpen, ToBook, ExitPrice
<1>5. \A i, j \in DOMAIN pending : pending[i].trade = pending[j].trade => i = j
  BY DEF DeskIInv, PlaceInv
<1>6. /\ pending' \in Seq(ItemRecord)
      /\ \A i, j \in DOMAIN pending' : pending'[i].trade = pending'[j].trade => i = j
      /\ \A u : InQueue(u)' => InQueue(u)
      /\ \A u : InQueue(u) /\ ~InQueue(u)' => u = t /\ (reply = "ok" \/ LastAttempt(item))
      /\ \A u, p : WaitsAt(u, p)' => WaitsAt(u, p)
  <2>1. CASE reply = "ok" \/ LastAttempt(item)
    BY <1>1, <1>2, <1>3, <1>4, <1>5, <2>1, QueueShrinks
  <2>2. CASE ~(reply = "ok" \/ LastAttempt(item))
    BY <1>1, <1>2, <1>4, <1>5, <2>2, QueueRetries
  <2>3. QED
    BY <2>1, <2>2
<1>7. PICK x \in RowRecord : x = row[t]
  BY <1>1
<1>8. PICK y : y = Settled(x, item.exit)
  OBVIOUS
<1>9. y \in RowRecord /\ y.status = "SETTLED" /\ y.expiry = x.expiry /\ y.exit = item.exit
  BY <1>8 DEF Settled, RowRecord, ItemRecord
<1>10. /\ row' \in [Trades -> RowRecord]
       /\ \A u \in Trades : /\ u # t => row'[u] = row[u]
                            /\ row'[u].expiry = row[u].expiry
                            /\ row'[u].status = "NONE" <=> row[u].status = "NONE"
                            /\ row'[u].status = "OPEN" => row[u].status = "OPEN"
                            /\ row[u].status = "SETTLED" => row'[u].status = "SETTLED"
       /\ row'[t].status = "SETTLED" => row'[t].exit = item.exit
       /\ reply = "ok" => row'[t].status = "SETTLED"
  <2>1. CASE reply = "failed"
    BY <1>1, <1>4, <2>1
  <2>2. CASE reply # "failed"
    <3>1. row' = [row EXCEPT ![t] = y]
      BY <1>4, <1>7, <1>8, <2>2
    <3>2. QED
      BY <1>1, <1>4, <1>7, <1>9, <3>1
  <2>3. QED
    BY <2>1, <2>2
<1>11. \A u \in Trades : (InCall(u)' <=> InCall(u)) /\ (LostReply(u)' <=> LostReply(u)) /\ (ToHydrate(u)' <=> ToHydrate(u))
  BY <1>1 DEF InCall, LostReply, ToHydrate
<1>12. TypeOK'
  <2>1. settled' \subseteq Trades /\ reported' \subseteq Trades
    BY <1>1, <1>4
  <2>2. QED
    BY <1>1, <1>6, <1>10, <2>1 DEF DeskIInv, TypeOK
<1>13. CallInv'
  BY <1>1, <1>10, <1>11 DEF DeskIInv, CallInv
<1>14. PlaceInv'
  BY <1>1, <1>6, <1>10, <1>11, PlacesKept DEF DeskIInv
<1>15. QuietInv'
  BY <1>1 DEF DeskIInv, QuietInv
<1>16. LedgerInv'
  BY <1>1, <1>4, <1>10 DEF DeskIInv, LedgerInv
<1>17. KnownInv'
  BY <1>1, <1>4, <1>6, <1>10, <1>11 DEF DeskIInv, KnownInv, IsOpen
<1>18. PriceInv'
  <2>1. \A u \in Trades : \A p : HasPrice(u, p)' => HasPrice(u, p)
    BY <1>3, <1>6, <1>10 DEF HasPrice
  <2>2. \A u \in book' : u \in book /\ row'[u].expiry = row[u].expiry
    BY <1>1, <1>10
  <2>3. QED
    BY <1>1, <1>10, <2>1, <2>2, PriceKept DEF DeskIInv
<1>19. QED
  BY <1>12, <1>13, <1>14, <1>15, <1>16, <1>17, <1>18 DEF DeskIInv

LEMMA BookLedgersStep ==
  ASSUME DeskIInv, BookLedgers
  PROVE  DeskIInv'
<1>1. /\ UNCHANGED <<clock, row, engine, starts, loaded, price, call, book, pending, reported>>
      /\ engine \in Up /\ settled' = {} /\ settled \subseteq Trades
      /\ booked \in [Trades -> Nat]
      /\ \/ booked' = booked
         \/ booked' = [t \in Trades |-> IF t \in settled THEN booked[t] + 1 ELSE booked[t]]
  BY DEF DeskIInv, TypeOK, BookLedgers, process
<1>2. /\ booked' \in [Trades -> Nat]
      /\ \A t \in Trades : \/ booked'[t] = booked[t]
                           \/ t \in settled /\ booked'[t] = booked[t] + 1
  BY <1>1
<1>3. TypeOK'
  BY <1>1, <1>2 DEF DeskIInv, TypeOK
<1>4. CallInv' /\ PlaceInv' /\ KnownInv'
  BY <1>1 DEF DeskIInv, CallInv, PlaceInv, KnownInv, IsOpen, InQueue, InCall, LostReply, ToHydrate
<1>5. QuietInv'
  BY <1>1 DEF DeskIInv, QuietInv
<1>6. LedgerInv'
  BY <1>1, <1>2 DEF DeskIInv, LedgerInv
<1>7. PriceInv'
  BY <1>1 DEF DeskIInv, PriceInv, HasPrice, WaitsAt
<1>8. QED
  BY <1>3, <1>4, <1>5, <1>6, <1>7 DEF DeskIInv

----------------------------------------------------------------------------
(* What the memory of a new engine holds. *)
LEMMA EmptiedFacts ==
  ASSUME NEW p \in Prices, Emptied(p)
  PROVE  /\ price' \in Prices /\ call' \in [Trades -> CallRecord]
         /\ book' = {} /\ pending' = <<>> /\ settled' = {} /\ reported' = {}
         /\ pending' \in Seq(ItemRecord) /\ DOMAIN pending' = {}
         /\ \A t \in Trades : call'[t] = NoCall /\ call'[t].pc = "idle"
         /\ \A t \in Trades : ~InCall(t)' /\ ~LostReply(t)' /\ ~InQueue(t)'
         /\ \A t, q : ~WaitsAt(t, q)'
<1>1. /\ price' = p /\ call' = [t \in Trades |-> NoCall]
      /\ book' = {} /\ pending' = <<>> /\ settled' = {} /\ reported' = {}
  BY DEF Emptied
<1>2. NoCall \in CallRecord /\ NoCall.pc = "idle"
  BY DEF NoCall, CallRecord
<1>3. DOMAIN pending' = {} /\ pending' \in Seq(ItemRecord)
  BY <1>1, EmptySeq
<1>4. \A t \in Trades : call'[t] = NoCall /\ call'[t].pc = "idle"
  BY <1>1, <1>2
<1>5. \A t \in Trades : ~InCall(t)' /\ ~LostReply(t)' /\ ~InQueue(t)'
  BY <1>3, <1>4 DEF InCall, LostReply, InQueue
<1>6. \A t, q : ~WaitsAt(t, q)'
  BY <1>3 DEF WaitsAt
<1>7. QED
  BY <1>1, <1>2, <1>3, <1>4, <1>5, <1>6

LEMMA CrashStep ==
  ASSUME DeskIInv, Crash
  PROVE  DeskIInv'
<1>1. /\ UNCHANGED <<clock, row, booked, starts, loaded>>
      /\ engine' = Down /\ starts < MaxStarts
      /\ engine' \notin Up /\ engine'.pc # "hydrating"
      /\ clock \in Nat /\ price \in Prices
  BY EngineKinds DEF DeskIInv, TypeOK, Crash, database
<1>2. PICK p \in Prices : Emptied(p)
  BY <1>1 DEF Crash
<1>3. /\ price' \in Prices /\ call' \in [Trades -> CallRecord]
      /\ book' = {} /\ pending' = <<>> /\ settled' = {} /\ reported' = {}
      /\ pending' \in Seq(ItemRecord) /\ DOMAIN pending' = {}
      /\ \A t \in Trades : call'[t] = NoCall /\ call'[t].pc = "idle"
      /\ \A t \in Trades : ~InCall(t)' /\ ~LostReply(t)' /\ ~InQueue(t)' /\ ~ToHydrate(t)'
      /\ \A t, q : ~WaitsAt(t, q)'
  BY <1>1, <1>2, EmptiedFacts DEF ToHydrate
<1>4. TypeOK'
  BY <1>1, <1>3 DEF DeskIInv, TypeOK
<1>5. CallInv' /\ KnownInv'
  BY <1>1, <1>3 DEF CallInv, KnownInv
<1>6. PlaceInv'
  BY <1>1, <1>3 DEF PlaceInv
<1>7. QuietInv'
  BY <1>1, <1>3 DEF QuietInv
<1>8. LedgerInv'
  BY <1>1, <1>3 DEF DeskIInv, LedgerInv
<1>9. PriceInv'
  <2>1. \A t \in Trades : \A q : HasPrice(t, q)' => HasPrice(t, q)
    BY <1>1, <1>3 DEF HasPrice
  <2>2. QED
    BY <1>1, <1>3, <2>1, PriceKept DEF DeskIInv
<1>10. QED
  BY <1>4, <1>5, <1>6, <1>7, <1>8, <1>9 DEF DeskIInv

LEMMA StartStep ==
  ASSUME DeskIInv, Start
  PROVE  DeskIInv'
<1>1. /\ UNCHANGED <<clock, row, booked>>
      /\ engine = Down /\ starts' = starts + 1 /\ loaded' \in BOOLEAN
      /\ engine' = [pc |-> "hydrating", now |-> clock, todo |-> {t \in Trades : IsOpen(t)}]
      /\ clock \in 0..MaxClock
  BY DEF DeskIInv, TypeOK, Start, database
<1>2. /\ engine' \in [pc: {"hydrating"}, now: 0..MaxClock, todo: SUBSET Trades]
      /\ engine'.pc = "hydrating" /\ engine'.now = clock
      /\ engine'.todo = {t \in Trades : IsOpen(t)}
  BY <1>1
<1>3. starts' \in 1..MaxStarts
  BY <1>1 DEF DeskIInv, QuietInv, TypeOK
<1>4. PICK p \in Prices : Emptied(p)
  BY DEF Start
<1>5. /\ price' \in Prices /\ call' \in [Trades -> CallRecord]
      /\ book' = {} /\ pending' = <<>> /\ settled' = {} /\ reported' = {}
      /\ pending' \in Seq(ItemRecord) /\ DOMAIN pending' = {}
      /\ \A t \in Trades : call'[t] = NoCall /\ call'[t].pc = "idle"
      /\ \A t \in Trades : ~InCall(t)' /\ ~LostReply(t)' /\ ~InQueue(t)'
      /\ \A t, q : ~WaitsAt(t, q)'
  BY <1>4, EmptiedFacts
<1>6. TypeOK'
  BY <1>1, <1>2, <1>3, <1>5 DEF DeskIInv, TypeOK
<1>7. engine' \notin Up /\ engine' # Down
  BY <1>2, <1>6 DEF Up, Running, Moving, Down
<1>8. \A t \in Trades : ToHydrate(t)' <=> row[t].status = "OPEN"
  BY <1>2 DEF ToHydrate, IsOpen
<1>9. CallInv'
  BY <1>5 DEF CallInv
<1>10. PlaceInv'
  BY <1>1, <1>5, <1>8 DEF PlaceInv
<1>11. QuietInv'
  BY <1>1, <1>2, <1>5, <1>7 DEF QuietInv
<1>12. KnownInv'
  BY <1>1, <1>8 DEF KnownInv, IsOpen
<1>13. LedgerInv'
  BY <1>1, <1>5 DEF DeskIInv, LedgerInv
<1>14. PriceInv'
  <2>1. \A t \in Trades : \A q : HasPrice(t, q)' => HasPrice(t, q)
    BY <1>1, <1>5 DEF HasPrice
  <2>2. \A t \in Trades, q \in ExitPrices : HasPrice(t, q) => row[t].expiry <= engine'.now
    BY <1>2 DEF DeskIInv, PriceInv
  <2>3. QED
    BY <1>1, <1>5, <2>1, <2>2, PriceKept DEF DeskIInv
<1>15. QED
  BY <1>6, <1>9, <1>10, <1>11, <1>12, <1>13, <1>14 DEF DeskIInv

LEMMA HydrateStep ==
  ASSUME DeskIInv, NEW t \in Trades, Hydrate(t)
  PROVE  DeskIInv'
<1>1. /\ UNCHANGED <<clock, booked, starts, loaded, price, call, pending, settled>>
      /\ engine.pc = "hydrating" /\ t \in engine.todo /\ ToHydrate(t)
      /\ engine' = [engine EXCEPT !.todo = @ \ {t}]
      /\ engine \notin Up /\ engine # Down
      /\ engine \in [pc: {"hydrating"}, now: 0..MaxClock, todo: SUBSET Trades]
      /\ clock \in Nat /\ row \in [Trades -> RowRecord]
      /\ book \subseteq Trades /\ reported \subseteq Trades
  BY EngineKinds DEF DeskIInv, TypeOK, Hydrate, ToHydrate, Up, Running, Moving, Down
<1>2. /\ engine' \in [pc: {"hydrating"}, now: 0..MaxClock, todo: SUBSET Trades]
      /\ engine'.pc = "hydrating" /\ engine'.now = engine.now /\ engine'.todo = engine.todo \ {t}
      /\ engine.now <= clock
  BY <1>1 DEF DeskIInv, QuietInv
<1>3. engine' \notin Up /\ engine' # Down
  BY <1>2 DEF Up, Running, Moving, Down
<1>4. /\ pending = <<>> /\ settled = {}
      /\ \A u \in Trades : call[u] = NoCall
  BY <1>1 DEF DeskIInv, QuietInv
<1>5. \A u \in Trades : /\ InCall(u)' <=> InCall(u)
                        /\ LostReply(u)' <=> LostReply(u)
                        /\ InQueue(u)' <=> InQueue(u)
                        /\ ToHydrate(u)' <=> ToHydrate(u) /\ u # t
                        /\ ~InCall(u) /\ ~LostReply(u) /\ ~LostReply(u)' /\ ~InQueue(u)
  <2>1. NoCall.pc = "idle"
    BY DEF NoCall
  <2>2. DOMAIN pending = {}
    BY <1>4
  <2>3. QED
    BY <1>1, <1>2, <1>4, <2>1, <2>2 DEF InCall, LostReply, InQueue, ToHydrate
<1>6. QuietInv'
  BY <1>1, <1>2, <1>3, <1>4 DEF QuietInv
<1>7. \A i, j \in DOMAIN pending' : pending'[i].trade = pending'[j].trade => i = j
  BY <1>1 DEF DeskIInv, PlaceInv
<1>8. \A u \in Trades, p \in ExitPrices : HasPrice(u, p) => row[u].expiry <= engine.now
  BY <1>1 DEF DeskIInv, PriceInv
<1>9. CASE Missed(t)
  <2>1. Void(t) /\ book' = book
    BY <1>9 DEF Hydrate
  <2>2. /\ row' \in [Trades -> RowRecord] /\ reported' \subseteq Trades
        /\ reported \subseteq reported'
        /\ \A u \in Trades : /\ u # t => row'[u] = row[u]
                             /\ row'[u].expiry = row[u].expiry /\ row'[u].exit = row[u].exit
                             /\ row'[u].status = "SETTLED" <=> row[u].status = "SETTLED"
                             /\ row'[u].status = "NONE" <=> row[u].status = "NONE"
                             /\ row'[u].status = "OPEN" => row[u].status = "OPEN"
        /\ row'[t].status = "OPEN" => t \in reported'
    BY <1>1, <2>1, VoidFacts
  <2>3. TypeOK'
    BY <1>1, <1>2, <2>1, <2>2 DEF DeskIInv, TypeOK
  <2>4. CallInv'
    BY <1>1, <1>5, <2>2 DEF DeskIInv, CallInv
  <2>5. PlaceInv'
    BY <1>5, <1>7, <2>1, <2>2, PlacesKept DEF DeskIInv
  <2>6. KnownInv'
    BY <1>1, <1>5, <2>1, <2>2 DEF DeskIInv, KnownInv, IsOpen
  <2>7. LedgerInv'
    BY <1>1, <2>2 DEF DeskIInv, LedgerInv
  <2>8. PriceInv'
    <3>1. \A u \in Trades : \A p : HasPrice(u, p)' <=> HasPrice(u, p)
      BY <1>1, <2>2 DEF HasPrice, WaitsAt
    <3>2. \A u \in book' : u \in book /\ row'[u].expiry = row[u].expiry
      BY <1>1, <2>1, <2>2
    <3>3. QED
      BY <1>1, <1>2, <1>8, <2>2, <3>1, <3>2, PriceKept DEF DeskIInv
  <2>9. QED
    BY <1>6, <2>3, <2>4, <2>5, <2>6, <2>7, <2>8 DEF DeskIInv
<1>10. CASE ~Missed(t)
  <2>1. book' = book \cup {t} /\ row' = row /\ reported' = reported
    BY <1>10 DEF Hydrate
  <2>2. TypeOK'
    BY <1>1, <1>2, <2>1 DEF DeskIInv, TypeOK
  <2>3. CallInv'
    BY <1>1, <1>5, <2>1 DEF DeskIInv, CallInv
  <2>4. PlaceInv'
    BY <1>1, <1>5, <1>7, <2>1 DEF DeskIInv, PlaceInv
  <2>5. KnownInv'
    BY <1>1, <1>5, <2>1 DEF DeskIInv, KnownInv, IsOpen
  <2>6. LedgerInv'
    BY <1>1, <2>1 DEF DeskIInv, LedgerInv
  <2>7. PriceInv'
    <3>1. \A u \in Trades : \A p : HasPrice(u, p)' <=> HasPrice(u, p)
      BY <1>1, <2>1 DEF HasPrice, WaitsAt
    <3>2. ~(row[t].expiry <= engine.now)
      BY <1>10 DEF Missed
    <3>3. \A u \in Trades, p \in ExitPrices : HasPrice(u, p) => row[u].expiry # row[t].expiry
      BY <1>8, <3>2
    <3>4. \A u \in book' : u \in book \/ u = t
      BY <2>1
    <3>5. QED
      BY <1>1, <1>2, <1>8, <2>1, <3>1, <3>3, <3>4, PriceKept DEF DeskIInv
  <2>8. QED
    BY <1>6, <2>2, <2>3, <2>4, <2>5, <2>6, <2>7 DEF DeskIInv
<1>11. QED
  BY <1>9, <1>10

LEMMA HydratedStep ==
  ASSUME DeskIInv, Hydrated
  PROVE  DeskIInv'
<1>1. /\ UNCHANGED <<clock, row, booked, starts, loaded, price, call, book, pending, settled, reported>>
      /\ engine.pc = "hydrating" /\ engine.todo = {} /\ engine' = Running
      /\ engine # Down
      /\ engine' \in Up /\ engine' # Down /\ engine'.pc # "hydrating"
  BY EngineKinds DEF DeskIInv, Hydrated, database, memory
<1>2. TypeOK'
  BY <1>1 DEF DeskIInv, TypeOK
<1>3. \A t \in Trades : ~ToHydrate(t) /\ ~ToHydrate(t)'
  BY <1>1 DEF ToHydrate
<1>4. CallInv' /\ LedgerInv' /\ QuietInv'
  BY <1>1 DEF DeskIInv, CallInv, LedgerInv, QuietInv, InCall, LostReply
<1>5. PlaceInv' /\ KnownInv'
  BY <1>1, <1>3 DEF DeskIInv, PlaceInv, KnownInv, IsOpen, InQueue, InCall, LostReply
<1>6. PriceInv'
  BY <1>1 DEF DeskIInv, PriceInv, HasPrice, WaitsAt
<1>7. QED
  BY <1>2, <1>4, <1>5, <1>6 DEF DeskIInv

----------------------------------------------------------------------------
LEMMA DeskInit == Init => DeskIInv
<1>1. SUFFICES ASSUME Init PROVE DeskIInv
  OBVIOUS
<1>2. /\ clock = 0 /\ starts = 1 /\ loaded = TRUE /\ price \in Prices
      /\ row = [t \in Trades |-> NoRow] /\ booked = [t \in Trades |-> 0]
      /\ call = [t \in Trades |-> NoCall]
      /\ book = {} /\ pending = <<>> /\ settled = {} /\ reported = {}
  BY <1>1 DEF Init
<1>3. NoRow \in RowRecord /\ NoCall \in CallRecord /\ NoRow.status = "NONE" /\ NoCall.pc = "idle"
  BY DEF NoRow, NoCall, RowRecord, CallRecord
<1>4. engine = Running /\ engine \in Up /\ engine # Down /\ engine.pc # "hydrating"
  BY <1>1 DEF Init, Running, Up, Down
<1>5. pending \in Seq(ItemRecord) /\ DOMAIN pending = {}
  BY <1>2, EmptySeq
<1>6. TypeOK
  BY <1>2, <1>3, <1>4, <1>5 DEF TypeOK
<1>7. \A t \in Trades : ~InQueue(t) /\ ~InCall(t) /\ ~LostReply(t) /\ ~ToHydrate(t) /\ \A p : ~HasPrice(t, p)
  BY <1>2, <1>3, <1>4, <1>5 DEF InQueue, InCall, LostReply, ToHydrate, HasPrice, WaitsAt
<1>8. CallInv /\ KnownInv /\ LedgerInv /\ QuietInv /\ PriceInv
  BY <1>2, <1>3, <1>4, <1>7 DEF CallInv, KnownInv, LedgerInv, QuietInv, PriceInv, IsOpen
<1>9. PlaceInv
  BY <1>2, <1>5, <1>7 DEF PlaceInv
<1>10. QED
  BY <1>6, <1>8, <1>9 DEF DeskIInv

LEMMA DeskNext == DeskIInv /\ [Next]_vars => DeskIInv'
<1>1. SUFFICES ASSUME DeskIInv, [Next]_vars PROVE DeskIInv'
  OBVIOUS
<1>2. CASE Clock \/ CollectDue \/ MovePrice
  BY <1>1, <1>2, ClockStep, CollectDueStep, MovePriceStep
<1>3. CASE Drain
  BY <1>1, <1>3, SettleHeadStep, SkipHeadStep, BookLedgersStep DEF Drain, Settle
<1>4. CASE Crash \/ Boot
  BY <1>1, <1>4, CrashStep, StartStep, HydrateStep, HydratedStep DEF Boot
<1>5. CASE \E t \in Trades : OpenStep(t) \/ \E d \in Durations : Open(t, d)
  BY <1>1, <1>5, OpenTradeStep, WriteTradeStep, BookTradeStep, VoidLateTradeStep DEF OpenStep
<1>6. CASE UNCHANGED vars
  <2>1. UNCHANGED <<clock, row, booked, engine, starts, loaded, price, call, book, pending, settled, reported>>
    BY <1>6 DEF vars, database, process, memory
  <2>2. TypeOK' /\ CallInv' /\ QuietInv' /\ LedgerInv'
    BY <1>1, <2>1 DEF DeskIInv, TypeOK, CallInv, QuietInv, LedgerInv, InCall, LostReply
  <2>3. PlaceInv' /\ KnownInv'
    BY <1>1, <2>1 DEF DeskIInv, PlaceInv, KnownInv, IsOpen, InQueue, InCall, LostReply, ToHydrate
  <2>4. PriceInv'
    BY <1>1, <2>1 DEF DeskIInv, PriceInv, HasPrice, WaitsAt
  <2>5. QED
    BY <2>2, <2>3, <2>4 DEF DeskIInv
<1>7. QED
  BY <1>1, <1>2, <1>3, <1>4, <1>5, <1>6 DEF Next

THEOREM DeskInvariant == Spec => []DeskIInv
<1>1. QED
  BY DeskInit, DeskNext, PTL DEF Spec

(* A running engine of trade-desk.ts knows every open trade from exactly    *)
(* one place, through crashes, restarts, late ticks, failed and lost writes *)
(* and retries, unless it has logged that it leaves the trade or the answer *)
(* to the trade's open was lost; such a trade it knows from nowhere.        *)
THEOREM KnownInOnePlace == Spec => []KnownOnce
<1>1. DeskIInv => KnownOnce
  BY DEF DeskIInv, KnownInv, PlaceInv, KnownOnce, InCall, LostReply
<1>2. QED
  BY <1>1, DeskInvariant, PTL

(* However often a settlement is retried or found done already, the ledgers *)
(* of the house (recordSettledTrade in trade-desk.ts) count it at most once.     *)
THEOREM BookedAtMostOnce == Spec => []BookedOnce
<1>1. DeskIInv => BookedOnce
  BY DEF DeskIInv, LedgerInv, BookedOnce
<1>2. QED
  BY <1>1, DeskInvariant, PTL

(* All trades that expire in one second are settled at one price: the       *)
(* price collectDue captured for that second, whoever settled it, and when. *)
THEOREM OnePricePerSecond == Spec => []OnePricePerBucket
<1>1. DeskIInv => OnePricePerBucket
  <2>1. SUFFICES ASSUME DeskIInv, NEW t \in Trades, NEW u \in Trades,
                        row[t].status = "SETTLED", row[u].status = "SETTLED",
                        row[t].expiry = row[u].expiry
                 PROVE  row[t].exit = row[u].exit
    BY DEF OnePricePerBucket
  <2>2. row[t].exit \in ExitPrices /\ row[u].exit \in ExitPrices
    BY <2>1 DEF DeskIInv, TypeOK, RowRecord, ExitPrices
  <2>3. HasPrice(t, row[t].exit) /\ HasPrice(u, row[u].exit)
    BY <2>1 DEF HasPrice
  <2>4. QED
    BY <2>1, <2>2, <2>3 DEF DeskIInv, PriceInv
<1>2. QED
  BY <1>1, DeskInvariant, PTL
==============================================================================
