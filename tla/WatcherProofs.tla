--------------------------- MODULE WatcherProofs ---------------------------
(***************************************************************************)
(* The chain watchers.  TRON (Finality, ChainScan), for every number of    *)
(* transfers, watchers and pollers: no transfer that is on the chain is    *)
(* given up, and the checkpoint leaves no transfer behind that the         *)
(* provider could have shown.  BSC (EvmScan), for every number of          *)
(* transfers, scanners, checkers and reorganisations, and all sizes of     *)
(* chunks and ticks: the cursor leaves no transfer behind, and a row comes *)
(* to what became of its transfer.  The slots of addresses that the stored *)
(* transfers are matched with (Slots), for every number of users, deposits *)
(* and payments and all lengths of a slot: no address is held by two users *)
(* and no payment credits another user than the one who made it.           *)
(***************************************************************************)
EXTENDS EvmScan, ChainScan, Finality, Slots, FiniteSetTheorems, WellFoundedInduction, TLAPS

----------------------------------------------------------------------------
(* Finality. *)

CreditState == {"DETECTED", "CONFIRMING", "FINAL", "FAILED_ON_CHAIN", "REORGED"}
CreditRow == [state: CreditState, attempts: Int, missing: Nat \cup {NoMiss}]
ListOfRows == UNION {[D -> CreditRow] : D \in SUBSET Credits}
PollerRecord == [at: Nat \cup {NoMiss}, rows: ListOfRows]

FinalityTypeOK ==
  /\ time \in Nat
  /\ nature \in [Credits -> Natures]
  /\ misses \in [Credits -> Nat]
  /\ credit \in [Credits -> CreditRow]
  /\ poller \in [Pollers -> PollerRecord]

(* A row of a flaky transfer counts no more misses than there were. *)
Counted(c, row) == nature[c] = "flaky" => row.attempts <= misses[c]

(* What is listed was true when the tick began: a streak counted on from it *)
(* is as old as the row says, and the tick is not in the future.            *)
FinalityIInv ==
  /\ FinalityTypeOK
  /\ \A c \in Credits : Counted(c, credit[c])
  /\ \A p \in Pollers :
       /\ poller[p].at <= time
       /\ \A c \in DOMAIN poller[p].rows : Counted(c, poller[p].rows[c])
  /\ ReorgedOnlyIfGone

LEMMA ListLess ==
  ASSUME NEW rows \in ListOfRows, NEW c
  PROVE  /\ [d \in DOMAIN rows \ {c} |-> rows[d]] \in ListOfRows
         /\ DOMAIN rows \subseteq Credits
         /\ \A d \in DOMAIN rows : rows[d] \in CreditRow
<1>1. PICK D \in SUBSET Credits : rows \in [D -> CreditRow]
  BY DEF ListOfRows
<1>2. [d \in DOMAIN rows \ {c} |-> rows[d]] \in [D \ {c} -> CreditRow]
  BY <1>1
<1>3. QED
  BY <1>1, <1>2 DEF ListOfRows

LEMMA IdlePoller == Idle \in PollerRecord /\ DOMAIN Idle.rows = {} /\ Idle.at = NoMiss
<1>1. PICK none : none = [c \in {} |-> Detected]
  OBVIOUS
<1>2. none \in [{} -> CreditRow] /\ DOMAIN none = {}
  BY <1>1
<1>3. none \in ListOfRows
  BY <1>2 DEF ListOfRows
<1>4. QED
  BY <1>1, <1>2, <1>3 DEF Idle, PollerRecord

LEMMA InitFinalityIInv == FinalityInit => FinalityIInv
<1> SUFFICES ASSUME FinalityInit PROVE FinalityIInv
  OBVIOUS
<1>1. Detected \in CreditRow /\ Detected.attempts = 0 /\ Detected.state = "DETECTED"
  BY DEF Detected, CreditRow, CreditState
<1>2. FinalityTypeOK
  BY <1>1, IdlePoller DEF FinalityInit, FinalityTypeOK
<1>3. QED
  BY <1>1, <1>2, IdlePoller DEF FinalityInit, FinalityIInv, Counted, ReorgedOnlyIfGone, NoMiss

(* A poller moves on, and the rows stand still. *)
LEMMA PollerMoves ==
  ASSUME FinalityIInv, UNCHANGED <<time, nature, misses, credit>>,
         NEW p \in Pollers, NEW r \in PollerRecord, poller' = [poller EXCEPT ![p] = r],
         r.at <= time, \A c \in DOMAIN r.rows : Counted(c, r.rows[c])
  PROVE  FinalityIInv'
  BY DEF FinalityIInv, FinalityTypeOK, Counted, ReorgedOnlyIfGone, OnChain

(* What is left of the list of a poller after a row of it. *)
LEMMA RowsLeft ==
  ASSUME FinalityIInv, NEW p \in Pollers, NEW c,
         NEW r, r = Without(p, c)
  PROVE  /\ r \in PollerRecord /\ r.at <= time
         /\ \A d \in DOMAIN r.rows : d \in Credits /\ Counted(d, r.rows[d])
<1>1. PICK x \in PollerRecord : x = poller[p]
  BY DEF FinalityIInv, FinalityTypeOK
<1>2. PICK left : left = [d \in DOMAIN x.rows \ {c} |-> x.rows[d]]
  OBVIOUS
<1>3. /\ left \in ListOfRows /\ DOMAIN left \subseteq DOMAIN x.rows /\ DOMAIN left \subseteq Credits
      /\ \A d \in DOMAIN left : left[d] = x.rows[d]
  BY <1>2, ListLess DEF PollerRecord
<1>4. CASE DOMAIN x.rows = {c}
  BY <1>1, <1>4, IdlePoller DEF Without, FinalityIInv, FinalityTypeOK, NoMiss
<1>5. CASE DOMAIN x.rows # {c}
  <2>1. r = [x EXCEPT !.rows = left]
    BY <1>1, <1>2, <1>5 DEF Without
  <2>2. r = [at |-> x.at, rows |-> left]
    BY <2>1 DEF PollerRecord
  <2>3. r \in PollerRecord
    BY <1>3, <2>2 DEF PollerRecord
  <2>4. QED
    BY <1>1, <1>3, <2>2, <2>3 DEF FinalityIInv
<1>6. QED
  BY <1>4, <1>5

LEMMA ListPendingKeeps ==
  ASSUME FinalityIInv, NEW p \in Pollers, ListPending(p)
  PROVE  FinalityIInv'
<1>1. PICK D \in SUBSET Credits : D = {c \in Credits : Pending(c)}
  OBVIOUS
<1>2. PICK rows : rows = [c \in D |-> credit[c]]
  OBVIOUS
<1>3. poller' = [poller EXCEPT ![p] = [at |-> time, rows |-> rows]]
  BY <1>1, <1>2 DEF ListPending
<1>4. rows \in ListOfRows /\ \A c \in DOMAIN rows : c \in Credits /\ rows[c] = credit[c]
  <2>1. rows \in [D -> CreditRow]
    BY <1>2 DEF FinalityIInv, FinalityTypeOK
  <2>2. QED
    BY <1>2, <2>1 DEF ListOfRows
<1>5. PICK r : r = [at |-> time, rows |-> rows]
  OBVIOUS
<1>6. r \in PollerRecord /\ r.at <= time
  BY <1>4, <1>5 DEF PollerRecord, FinalityIInv, FinalityTypeOK
<1>7. \A c \in DOMAIN r.rows : Counted(c, r.rows[c])
  BY <1>4, <1>5 DEF FinalityIInv
<1>8. UNCHANGED <<time, nature, misses, credit>>
  BY DEF ListPending
<1>9. QED
  BY <1>3, <1>5, <1>6, <1>7, <1>8, PollerMoves

(* One more missing answer of a transfer that is on the chain: either it is *)
(* too early to give it up, or too few answers have missed it.              *)
LEMMA MissedRow ==
  ASSUME FinalityIInv, NEW c \in Credits, MayMiss(c), NEW row \in CreditRow, Counted(c, row),
         NEW state \in CreditState, NEW at \in Nat \cup {NoMiss}, at <= time
  PROVE  /\ Missed(row, state, at) \in CreditRow
         /\ Missed(row, state, at).state = "REORGED" => state = "REORGED" \/ ~OnChain(c)
         /\ nature[c] = "flaky" => Missed(row, state, at).attempts <= misses[c] + 1
<1>1. /\ time \in Nat /\ misses[c] \in Nat /\ nature[c] \in AllNatures
      /\ MinChecks \in Nat /\ MinElapsed \in Nat /\ Settling \in Nat /\ Settling <= MinElapsed
  BY GraceAssumption, FinalityAssumption DEF FinalityIInv, FinalityTypeOK
<1>2. row.attempts \in Int /\ row.missing \in Nat \cup {NoMiss}
  BY DEF CreditRow
<1>3. PICK attempts \in Int :
        attempts = IF row.attempts < MinChecks THEN row.attempts + 1 ELSE MinChecks
  BY <1>1, <1>2
<1>4. PICK missing \in Nat \cup {NoMiss} :
        missing = IF row.missing = NoMiss THEN at ELSE row.missing
  BY <1>2
<1>5. Missed(row, state, at) =
        [state |-> IF GivenUp(attempts, missing, at) THEN "REORGED" ELSE state,
         attempts |-> attempts, missing |-> missing]
  BY <1>3, <1>4 DEF Missed
<1>6. attempts <= row.attempts + 1
  BY <1>1, <1>2, <1>3
<1>7. ASSUME OnChain(c) PROVE ~GivenUp(attempts, missing, at)
  <2>1. CASE nature[c] = "flaky"
    BY <1>1, <1>2, <1>6, <2>1 DEF GivenUp, MayMiss, Counted
  <2>2. CASE nature[c] # "flaky"
    <3>1. time < Settling
      BY <1>7, <2>2 DEF MayMiss, OnChain
    <3>2. QED
      BY <1>1, <1>2, <1>4, <3>1 DEF GivenUp, NoMiss
  <2>3. QED
    BY <2>1, <2>2
<1>8. Missed(row, state, at) \in CreditRow
  BY <1>5 DEF CreditRow, CreditState
<1>9. QED
  BY <1>1, <1>2, <1>5, <1>6, <1>7, <1>8 DEF Counted

LEMMA CheckKeeps ==
  ASSUME FinalityIInv, NEW p \in Pollers, NEW c \in Credits,
         NEW answer \in {"error", "visible", "solidified", "missing"}, Check(p, c, answer)
  PROVE  FinalityIInv'
<1>1. PICK x \in PollerRecord : x = poller[p]
  BY DEF FinalityIInv, FinalityTypeOK
<1>2. /\ c \in DOMAIN x.rows /\ x.rows[c] \in CreditRow /\ Counted(c, x.rows[c])
      /\ x.at \in Nat \cup {NoMiss} /\ x.at <= time
  BY <1>1, ListLess DEF Check, FinalityIInv, PollerRecord
<1>3. /\ time' = time /\ nature' = nature
      /\ misses' \in [Credits -> Nat]
      /\ \A d \in Credits : misses[d] <= misses'[d]
      /\ answer = "missing" /\ nature[c] = "flaky" => misses'[c] = misses[c] + 1
  BY DEF Check, FinalityIInv, FinalityTypeOK
<1>4. PICK r : r = Without(p, c) /\ poller' = [poller EXCEPT ![p] = r]
  BY DEF Check
<1>5. /\ r \in PollerRecord /\ r.at <= time
      /\ \A d \in DOMAIN r.rows : d \in Credits /\ Counted(d, r.rows[d])
  BY <1>4, RowsLeft
<1>6. /\ credit' \in [Credits -> CreditRow]
      /\ \A d \in Credits : d # c => credit'[d] = credit[d]
      /\ Counted(c, credit[c])'
      /\ credit'[c].state = "REORGED" => ~OnChain(c)
  <2>1. CASE answer = "error" \/ ~Pending(c)
    <3>1. credit' = credit
      BY <2>1 DEF Check
    <3>2. Counted(c, credit[c])'
      BY <1>3, <3>1 DEF FinalityIInv, FinalityTypeOK, CreditRow, Counted
    <3>3. QED
      BY <3>1, <3>2 DEF FinalityIInv, FinalityTypeOK, ReorgedOnlyIfGone
  <2>2. CASE answer # "error" /\ Pending(c)
    <3>1. PICK row : /\ row = Answered(x.rows[c], c, answer, x.at)
                     /\ credit' = [credit EXCEPT ![c] = row]
      BY <1>1, <2>2 DEF Check
    <3>2. /\ row \in CreditRow
          /\ nature[c] = "flaky" => row.attempts <= misses'[c]
          /\ row.state = "REORGED" => ~OnChain(c)
      <4>1. misses'[c] \in Nat
        BY <1>3
      <4>2. CASE answer = "solidified"
        <5>1. row = [state |-> IF nature[c] = "failed" THEN "FAILED_ON_CHAIN" ELSE "FINAL",
                     attempts |-> 0, missing |-> NoMiss]
          BY <3>1, <4>2 DEF Answered, Detected
        <5>2. QED
          BY <4>1, <5>1 DEF CreditRow, CreditState
      <4>3. CASE answer = "visible"
        <5>1. row = [state |-> "CONFIRMING", attempts |-> 0, missing |-> NoMiss]
          BY <3>1, <4>3 DEF Answered, Detected
        <5>2. QED
          BY <4>1, <5>1 DEF CreditRow, CreditState
      <4>4. CASE answer = "missing"
        <5>1. MayMiss(c)
          BY <4>4 DEF Check, Answers
        <5>2. credit[c].state \in CreditState /\ credit[c].state # "REORGED"
          BY <2>2 DEF Pending, Waiting, CreditState
        <5>3. row = Missed(x.rows[c], credit[c].state, x.at)
          BY <3>1, <4>4 DEF Answered
        <5>4. QED
          BY <1>2, <1>3, <4>4, <5>1, <5>2, <5>3, MissedRow
      <4>5. QED
        BY <2>2, <4>2, <4>3, <4>4
    <3>3. QED
      BY <1>3, <3>1, <3>2 DEF FinalityIInv, FinalityTypeOK, Counted
  <2>3. QED
    BY <2>1, <2>2
<1>7. /\ poller' \in [Pollers -> PollerRecord]
      /\ \A q \in Pollers : poller'[q] = IF q = p THEN r ELSE poller[q]
  BY <1>4, <1>5 DEF FinalityIInv, FinalityTypeOK
<1>8. FinalityTypeOK'
  BY <1>3, <1>6, <1>7 DEF FinalityIInv, FinalityTypeOK
<1>9. ASSUME NEW d \in Credits, NEW row \in CreditRow, Counted(d, row)
      PROVE  Counted(d, row)'
  BY <1>3, <1>9 DEF Counted, CreditRow, FinalityIInv, FinalityTypeOK
<1>10. \A d \in Credits : Counted(d, credit[d])'
  <2>1. ASSUME NEW d \in Credits, d # c PROVE Counted(d, credit[d])'
    <3>1. PICK row \in CreditRow : row = credit[d] /\ credit'[d] = row /\ Counted(d, row)
      BY <1>6, <2>1 DEF FinalityIInv, FinalityTypeOK
    <3>2. QED
      BY <1>9, <3>1
  <2>2. QED
    BY <1>6, <2>1
<1>11. ASSUME NEW q \in Pollers
       PROVE  /\ poller'[q].at <= time'
              /\ \A d \in DOMAIN poller'[q].rows : Counted(d, poller[q].rows[d])'
  <2>1. PICK y \in PollerRecord : /\ y = poller'[q] /\ y.at <= time
                                  /\ \A d \in DOMAIN y.rows : Counted(d, y.rows[d])
    BY <1>5, <1>7 DEF FinalityIInv, FinalityTypeOK
  <2>2. \A d \in DOMAIN y.rows : d \in Credits /\ y.rows[d] \in CreditRow
    BY ListLess DEF PollerRecord
  <2>3. \A d \in DOMAIN y.rows : Counted(d, y.rows[d])'
    BY <1>9, <2>1, <2>2
  <2>4. QED
    BY <1>3, <2>1, <2>3
<1>12. ReorgedOnlyIfGone'
  BY <1>3, <1>6 DEF FinalityIInv, ReorgedOnlyIfGone, OnChain
<1>13. QED
  BY <1>8, <1>10, <1>11, <1>12 DEF FinalityIInv

LEMMA NextFinalityIInv == FinalityIInv /\ [FinalityNext]_finalityVars => FinalityIInv'
<1> SUFFICES ASSUME FinalityIInv, [FinalityNext]_finalityVars PROVE FinalityIInv'
  OBVIOUS
<1>1. CASE UNCHANGED finalityVars
  BY <1>1 DEF finalityVars, FinalityIInv, FinalityTypeOK, Counted, ReorgedOnlyIfGone, OnChain
<1>2. CASE PassTime
  <2>1. time' = time + 1 /\ UNCHANGED <<nature, misses, credit, poller>> /\ time \in Nat
    BY <1>2 DEF PassTime, FinalityIInv, FinalityTypeOK
  <2>2. \A p \in Pollers : poller[p].at \in Int
    BY DEF FinalityIInv, FinalityTypeOK, PollerRecord, NoMiss
  <2>3. QED
    BY <2>1, <2>2 DEF FinalityIInv, FinalityTypeOK, Counted, ReorgedOnlyIfGone, OnChain
<1>3. ASSUME NEW p \in Pollers, ListPending(p) PROVE FinalityIInv'
  BY <1>3, ListPendingKeeps
<1>4. ASSUME NEW p \in Pollers, StopPoller(p) PROVE FinalityIInv'
  <2>1. NoMiss <= time
    BY DEF FinalityIInv, FinalityTypeOK, NoMiss
  <2>2. QED
    BY <1>4, <2>1, IdlePoller, PollerMoves DEF StopPoller
<1>5. ASSUME NEW p \in Pollers, NEW c \in Credits,
             NEW a \in {"error", "visible", "solidified", "missing"}, Check(p, c, a)
      PROVE  FinalityIInv'
  BY <1>5, CheckKeeps
<1>6. QED
  BY <1>1, <1>2, <1>3, <1>4, <1>5 DEF FinalityNext

(* No transfer that is on the chain is given up, however long its nodes     *)
(* miss it before it has settled, and however many pollers count the same   *)
(* streak (finality.ts, runFinalityTick).                                   *)
THEOREM OnlyTheGoneAreReorged == FinalitySpec => []ReorgedOnlyIfGone
<1>1. FinalityInit => FinalityIInv
  BY InitFinalityIInv
<1>2. FinalityIInv /\ [FinalityNext]_finalityVars => FinalityIInv'
  BY NextFinalityIInv
<1>3. FinalityIInv => ReorgedOnlyIfGone
  BY DEF FinalityIInv
<1>4. QED
  BY <1>1, <1>2, <1>3, PTL DEF FinalitySpec
----------------------------------------------------------------------------
(* Ingestion. *)

Session == [min: Nat \cup {NoTime}, max: Nat \cup {NoTime}, after: {0} \cup Transfers]
WatcherRecord ==
  [pc: {"asleep", "reading", "opening", "rereading", "scanning", "storing"},
   at: Nat, floor: Nat, session: Session, rows: SUBSET Transfers, more: BOOLEAN, pages: Nat]

ScanTypeOK ==
  /\ now \in Nat
  /\ blockTime \in [Transfers -> BlockTimes]
  /\ listed \subseteq Transfers /\ credits \subseteq Transfers
  /\ cursor \in [floor: Nat, session: Session]
  /\ upToDate \subseteq Watchers
  /\ watcher \in [Watchers -> WatcherRecord]
  /\ crashes \in Nat

(* The provider lists what it has had the time to list. *)
ListedInv == \A t \in Transfers : Known(t) => t \in listed

(* A session must find these: the provider knew them when it was opened. *)
Due(t, s) == s.min <= blockTime[t] /\ blockTime[t] + Lag <= s.max

(* Behind its fingerprint a session leaves nothing out. *)
Behind(s, stored) ==
  s.after # 0 => \A t \in Transfers : Due(t, s) /\ ~Before(s.after, t) => t \in stored

(* An open session ends in the past, and begins where everything is stored. *)
SessionOK(s) ==
  /\ s.max \in Nat /\ s.max <= now
  /\ \A t \in Transfers : blockTime[t] < s.min /\ blockTime[t] + Lag <= s.max => t \in credits
  /\ Behind(s, credits)

(* What a watcher knows that has the version of the cursor. *)
Follows(r) ==
  /\ r.pc = "opening" => r.floor = cursor.floor
  /\ r.pc = "scanning" => cursor.session # NoSession /\ r.session = cursor.session
  /\ r.pc = "storing" =>
       /\ cursor.session # NoSession
       /\ r.session.min = cursor.session.min /\ r.session.max = cursor.session.max
       /\ Behind(r.session, credits \cup r.rows)
       /\ ~r.more => \A t \in Transfers : Due(t, r.session) => t \in credits \cup r.rows

ScanIInv ==
  /\ ScanTypeOK
  /\ ListedInv
  /\ NothingBehindTheFloor
  /\ cursor.session # NoSession => SessionOK(cursor.session)
  /\ \A w \in Watchers : watcher[w].at <= now
  /\ \A w \in upToDate : Follows(watcher[w])

----------------------------------------------------------------------------
(* The pages of a listing. *)

LEMMA BeforeOrder ==
  ASSUME ScanTypeOK
  PROVE  /\ \A t, u \in Transfers : t = u \/ Before(t, u) \/ Before(u, t)
         /\ \A t, u \in Transfers : ~(Before(t, u) /\ Before(u, t))
         /\ \A t, u, v \in Transfers : Before(t, u) /\ Before(u, v) => Before(t, v)
         /\ \A t \in Transfers : ~Before(t, t)
<1>1. \A t \in Transfers : t \in Nat /\ blockTime[t] \in Nat
  BY ScanAssumption DEF ScanTypeOK
<1>2. QED
  BY <1>1 DEF Before

(* Some row of a page is its last: of the sets of rows behind a row, a      *)
(* smallest one is empty.                                                   *)
LEMMA LastRow ==
  ASSUME ScanTypeOK, NEW rows \in SUBSET Transfers, rows # {}
  PROVE  Last(rows) \in rows /\ \A u \in rows : u = Last(rows) \/ Before(u, Last(rows))
<1>1. PICK R : R = StrictSubsetOrdering(Transfers)
  OBVIOUS
<1>2. IsWellFoundedOn(R, SUBSET Transfers)
  BY <1>1, ScanAssumption, FS_StrictSubsetOrderingWellFounded, FS_FiniteSubsetsOfFinite
<1>3. PICK After \in [rows -> SUBSET Transfers] :
        \A t \in rows : After[t] = {u \in rows : Before(t, u)}
  <2>1. [t \in rows |-> {u \in rows : Before(t, u)}] \in [rows -> SUBSET Transfers]
    OBVIOUS
  <2>2. QED
    BY <2>1
<1>4. PICK tails \in SUBSET SUBSET Transfers : tails = {After[t] : t \in rows}
  BY <1>3
<1>5. tails # {}
  BY <1>4
<1>6. PICK tail \in tails : \A other \in tails : ~(<<other, tail>> \in R)
  BY <1>2, <1>5, WFMin
<1>7. PICK last \in rows : tail = After[last]
  BY <1>4, <1>6
<1>8. ASSUME NEW u \in rows, Before(last, u) PROVE FALSE
  <2>1. After[u] \subseteq After[last] /\ u \in After[last] /\ u \notin After[u]
    BY <1>3, <1>8, BeforeOrder
  <2>2. <<After[u], After[last]>> \in R
    BY <1>1, <1>3, <2>1 DEF StrictSubsetOrdering
  <2>3. QED
    BY <1>4, <1>6, <1>7, <2>2
<1>9. \A u \in rows : u = last \/ Before(u, last)
  BY <1>8, BeforeOrder
<1>10. QED
  BY <1>9 DEF Last

(* A page is the beginning of what remains. *)
LEMMA PageIsFirst ==
  ASSUME ScanTypeOK, NEW s, NEW t \in Page(s), NEW u \in Remaining(s), Before(u, t)
  PROVE  u \in Page(s)
<1>1. Remaining(s) \in SUBSET Transfers /\ t \in Remaining(s)
  BY DEF Remaining, Page, ScanTypeOK
<1>2. PICK T, U : /\ T = {v \in Remaining(s) : Before(v, t)}
                  /\ U = {v \in Remaining(s) : Before(v, u)}
  OBVIOUS
<1>3. U \in SUBSET T /\ T \in SUBSET Transfers
  BY <1>1, <1>2, BeforeOrder
<1>4. IsFiniteSet(T) /\ IsFiniteSet(U) /\ Cardinality(U) <= Cardinality(T)
  BY <1>3, ScanAssumption, FS_Subset
<1>5. Cardinality(T) \in Nat /\ Cardinality(U) \in Nat /\ Cardinality(T) < PageSize
  BY <1>2, <1>4, FS_CardinalityType DEF Page
<1>6. QED
  BY <1>2, <1>4, <1>5, ScanAssumption DEF Page

(* Nothing a session must find is left out between two fingerprints, or     *)
(* behind the last page.                                                    *)
LEMMA PageLeavesNothingOut ==
  ASSUME ScanIInv, NEW s \in Session, SessionOK(s), NEW after,
         after = IF Page(s) = {} THEN s.after ELSE Last(Page(s))
  PROVE  /\ Page(s) \in SUBSET Transfers /\ after \in {0} \cup Transfers
         /\ after # 0 =>
              \A t \in Transfers : Due(t, s) /\ ~Before(after, t) => t \in credits \cup Page(s)
         /\ Page(s) = Remaining(s) =>
              \A t \in Transfers : Due(t, s) => t \in credits \cup Page(s)
<1>1. ScanTypeOK /\ Page(s) \in SUBSET Transfers /\ s.after \in {0} \cup Transfers
  BY DEF Page, Remaining, ScanIInv, ScanTypeOK, Session
<1>2. Page(s) # {} => /\ Last(Page(s)) \in Page(s)
                      /\ \A u \in Page(s) : u = Last(Page(s)) \/ Before(u, Last(Page(s)))
  BY <1>1, LastRow
<1>3. ASSUME NEW t \in Transfers, Due(t, s) PROVE t \in credits \/ t \in Remaining(s)
  <2>1. /\ now \in Nat /\ blockTime[t] \in Nat /\ Lag \in Nat
        /\ s.max \in Nat /\ s.max <= now /\ s.min <= blockTime[t] /\ blockTime[t] + Lag <= s.max
    BY <1>3, ScanAssumption DEF Due, SessionOK, ScanIInv, ScanTypeOK
  <2>2. t \in listed
    BY <2>1 DEF ScanIInv, ListedInv, Known
  <2>3. blockTime[t] <= s.max
    BY <2>1
  <2>4. s.after # 0 /\ ~Before(s.after, t) => t \in credits
    BY <1>3 DEF SessionOK, Behind
  <2>5. QED
    BY <2>1, <2>2, <2>3, <2>4 DEF Remaining
<1>4. ASSUME Page(s) # {}, NEW t \in Transfers, Due(t, s), ~Before(Last(Page(s)), t)
      PROVE  t \in credits \cup Page(s)
  <2>1. t = Last(Page(s)) \/ Before(t, Last(Page(s)))
    BY <1>1, <1>2, <1>4, BeforeOrder
  <2>2. QED
    BY <1>1, <1>2, <1>3, <1>4, <2>1, PageIsFirst
<1>5. ASSUME Page(s) = {}, s.after # 0, NEW t \in Transfers, Due(t, s), ~Before(s.after, t)
      PROVE  t \in credits
  BY <1>5 DEF SessionOK, Behind
<1>6. QED
  BY <1>1, <1>2, <1>3, <1>4, <1>5
----------------------------------------------------------------------------
(* The steps of runIngestTick. *)

LEMMA InitScanIInv == Init => ScanIInv
<1> SUFFICES ASSUME Init PROVE ScanIInv
  OBVIOUS
<1>1. NoSession \in Session /\ Asleep \in WatcherRecord /\ Asleep.at = 0
  BY DEF NoSession, Session, Asleep, WatcherRecord
<1>2. ScanTypeOK
  BY <1>1 DEF Init, ScanTypeOK
<1>3. \A t \in Transfers : blockTime[t] \in Nat /\ Lag \in Nat \ {0}
  BY <1>2, ScanAssumption DEF ScanTypeOK
<1>4. ListedInv /\ NothingBehindTheFloor
  BY <1>3 DEF Init, ListedInv, Known, NothingBehindTheFloor
<1>5. QED
  BY <1>1, <1>2, <1>4 DEF Init, ScanIInv

(* While the cursor stands still a watcher may move and store a row. *)
LEMMA WatcherMoves ==
  ASSUME ScanIInv, UNCHANGED <<chainVars, cursor>>,
         credits \subseteq credits', credits' \subseteq Transfers, crashes' \in Nat,
         NEW w \in Watchers, NEW r \in WatcherRecord, Goes(w, r), r.at <= now,
         upToDate' \subseteq upToDate \cup {w},
         w \in upToDate' => Follows(r)'
  PROVE  ScanIInv'
<1>1. /\ watcher' \in [Watchers -> WatcherRecord]
      /\ \A q \in Watchers : watcher'[q] = IF q = w THEN r ELSE watcher[q]
  BY DEF Goes, ScanIInv, ScanTypeOK
<1>2. UNCHANGED <<now, blockTime, listed, cursor>>
  BY DEF chainVars
<1>3. ScanTypeOK'
  BY <1>1, <1>2 DEF ScanIInv, ScanTypeOK
<1>4. ListedInv' /\ NothingBehindTheFloor'
  BY <1>2 DEF ScanIInv, ListedInv, Known, NothingBehindTheFloor
<1>5. (cursor.session # NoSession => SessionOK(cursor.session))'
  BY <1>2 DEF ScanIInv, SessionOK, Behind, Due, Before
<1>6. (\A q \in Watchers : watcher[q].at <= now)'
  BY <1>1, <1>2 DEF ScanIInv
<1>7. ASSUME NEW x, Follows(x) PROVE Follows(x)'
  BY <1>2, <1>7 DEF Follows, Behind, Due, Before
<1>8. ASSUME NEW q \in upToDate' PROVE Follows(watcher[q])'
  <2>1. CASE q = w
    BY <1>1, <2>1
  <2>2. CASE q # w
    <3>1. PICK x : x = watcher[q] /\ Follows(x)
      BY <2>2 DEF ScanIInv
    <3>2. x = watcher'[q]
      BY <1>1, <2>2, <3>1 DEF ScanIInv, ScanTypeOK
    <3>3. QED
      BY <1>7, <3>1, <3>2
  <2>3. QED
    BY <2>1, <2>2
<1>9. QED
  BY <1>3, <1>4, <1>5, <1>6, <1>8 DEF ScanIInv

(* The one that writes the cursor knows what it wrote, and no one else.     *)
LEMMA CursorMoves ==
  ASSUME ScanIInv, UNCHANGED <<chainVars, credits, crashes>>,
         NEW w \in Watchers, NEW row \in [floor: Nat, session: Session], Rewritten(row, w),
         NEW r \in WatcherRecord, Goes(w, r), r.at <= now,
         NothingBehindTheFloor',
         row.session # NoSession => SessionOK(row.session),
         Follows(r)'
  PROVE  ScanIInv'
<1>1. /\ watcher' \in [Watchers -> WatcherRecord]
      /\ \A q \in Watchers : watcher'[q] = IF q = w THEN r ELSE watcher[q]
  BY DEF Goes, ScanIInv, ScanTypeOK
<1>2. UNCHANGED <<now, blockTime, listed, credits, crashes>> /\ cursor' = row /\ upToDate' = {w}
  BY DEF chainVars, Rewritten
<1>3. ScanTypeOK'
  BY <1>1, <1>2 DEF ScanIInv, ScanTypeOK
<1>4. ListedInv'
  BY <1>2 DEF ScanIInv, ListedInv, Known
<1>5. (cursor.session # NoSession => SessionOK(cursor.session))'
  BY <1>2 DEF SessionOK, Behind, Due, Before
<1>6. (\A q \in Watchers : watcher[q].at <= now)'
  BY <1>1, <1>2 DEF ScanIInv
<1>7. (\A q \in upToDate : Follows(watcher[q]))'
  BY <1>1, <1>2
<1>8. QED
  BY <1>3, <1>4, <1>5, <1>6, <1>7 DEF ScanIInv

(* Where a tick begins, is resumed or ends. *)
LEMMA AsleepFollows ==
  ASSUME ScanIInv
  PROVE  Asleep \in WatcherRecord /\ Asleep.at <= now /\ Follows(Asleep)'
<1>1. NoSession \in Session
  BY DEF NoSession, Session
<1>2. QED
  BY <1>1 DEF Asleep, WatcherRecord, Follows, ScanIInv, ScanTypeOK

LEMMA EndsKeeps ==
  ASSUME ScanIInv, NEW w \in Watchers, Ends(w), UNCHANGED <<chainVars, cursor, credits>>,
         upToDate' \subseteq upToDate \cup {w}, crashes' \in Nat
  PROVE  ScanIInv'
<1>1. Goes(w, Asleep) /\ credits \subseteq Transfers /\ credits' = credits
  BY DEF Ends, ScanIInv, ScanTypeOK
<1>2. QED
  BY <1>1, AsleepFollows, WatcherMoves

LEMMA WakeKeeps ==
  ASSUME ScanIInv, NEW w \in Watchers, Wake(w)
  PROVE  ScanIInv'
<1>1. PICK r : r = [Asleep EXCEPT !.pc = "reading", !.at = now] /\ Goes(w, r)
  BY DEF Wake
<1>2. r = [pc |-> "reading", at |-> now, floor |-> 0, session |-> NoSession, rows |-> {},
           more |-> FALSE, pages |-> 0]
  BY <1>1 DEF Asleep
<1>3. r \in WatcherRecord /\ r.at <= now /\ Follows(r)'
  BY <1>2 DEF WatcherRecord, Session, NoSession, Follows, ScanIInv, ScanTypeOK
<1>4. /\ UNCHANGED <<chainVars, cursor>>
      /\ credits' = credits /\ credits \subseteq Transfers
      /\ upToDate' \subseteq upToDate /\ crashes' \in Nat
  BY DEF Wake, ScanIInv, ScanTypeOK
<1>5. QED
  BY <1>1, <1>3, <1>4, WatcherMoves

(* A session in progress is resumed from the cursor. *)
LEMMA ResumeKeeps ==
  ASSUME ScanIInv, NEW w \in Watchers, UNCHANGED <<chainVars, cursor, credits, crashes>>,
         upToDate' = upToDate \cup {w}, cursor.session # NoSession,
         Goes(w, [Asleep EXCEPT !.pc = "scanning", !.session = cursor.session])
  PROVE  ScanIInv'
<1>1. PICK r : /\ r = [Asleep EXCEPT !.pc = "scanning", !.session = cursor.session]
               /\ Goes(w, r)
  OBVIOUS
<1>2. r = [pc |-> "scanning", at |-> 0, floor |-> 0, session |-> cursor.session, rows |-> {},
           more |-> FALSE, pages |-> 0]
  BY <1>1 DEF Asleep
<1>3. r \in WatcherRecord /\ r.at <= now
  BY <1>2 DEF WatcherRecord, ScanIInv, ScanTypeOK
<1>4. Follows(r)'
  BY <1>2 DEF Follows
<1>5. credits' = credits /\ credits \subseteq Transfers /\ crashes' \in Nat
  BY DEF ScanIInv, ScanTypeOK
<1>6. QED
  BY <1>1, <1>3, <1>4, <1>5, WatcherMoves

LEMMA ReadKeeps ==
  ASSUME ScanIInv, NEW w \in Watchers, Read(w)
  PROVE  ScanIInv'
<1>1. CASE cursor.session # NoSession
  BY <1>1, ResumeKeeps DEF Read
<1>2. CASE cursor.session = NoSession
  <2>1. PICK x \in WatcherRecord : x = watcher[w] /\ x.at <= now
    BY DEF ScanIInv, ScanTypeOK
  <2>2. PICK r : r = [x EXCEPT !.pc = "opening", !.floor = cursor.floor] /\ Goes(w, r)
    BY <1>2, <2>1 DEF Read
  <2>3. r = [pc |-> "opening", at |-> x.at, floor |-> cursor.floor, session |-> x.session,
             rows |-> x.rows, more |-> x.more, pages |-> x.pages]
    BY <2>2 DEF WatcherRecord
  <2>4. r \in WatcherRecord /\ r.at <= now
    BY <2>1, <2>3 DEF WatcherRecord, ScanIInv, ScanTypeOK
  <2>5. Follows(r)'
    BY <2>3 DEF Follows, Read
  <2>6. /\ UNCHANGED <<chainVars, cursor>> /\ upToDate' = upToDate \cup {w}
        /\ credits' = credits /\ credits \subseteq Transfers /\ crashes' \in Nat
    BY DEF Read, ScanIInv, ScanTypeOK
  <2>7. QED
    BY <2>2, <2>4, <2>5, <2>6, WatcherMoves
<1>3. QED
  BY <1>1, <1>2

LEMMA RereadKeeps ==
  ASSUME ScanIInv, NEW w \in Watchers, Reread(w)
  PROVE  ScanIInv'
<1>1. CASE cursor.session # NoSession
  BY <1>1, ResumeKeeps DEF Reread
<1>2. CASE cursor.session = NoSession
  <2>1. /\ Ends(w) /\ UNCHANGED <<chainVars, cursor, credits>>
        /\ upToDate' = upToDate \cup {w} /\ crashes' \in Nat
    BY <1>2 DEF Reread, ScanIInv, ScanTypeOK
  <2>2. QED
    BY <2>1, EndsKeeps
<1>3. QED
  BY <1>1, <1>2
(* A new session reaches back behind the floor by at least Lag: what is     *)
(* earlier than that was known when the floor was set.                      *)
LEMMA OpenKeeps ==
  ASSUME ScanIInv, NEW w \in Watchers, Open(w)
  PROVE  ScanIInv'
<1>1. PICK x \in WatcherRecord : x = watcher[w] /\ x.at <= now /\ x.pc = "opening"
  BY DEF Open, At, ScanIInv, ScanTypeOK
<1>2. PICK r : r = [Asleep EXCEPT !.pc = "rereading"] /\ Goes(w, r)
  BY DEF Open
<1>3. r = [pc |-> "rereading", at |-> 0, floor |-> 0, session |-> NoSession, rows |-> {},
           more |-> FALSE, pages |-> 0]
  BY <1>2 DEF Asleep
<1>4. r \in WatcherRecord /\ r.at <= now /\ Follows(r)'
  BY <1>3 DEF WatcherRecord, Session, NoSession, Follows, ScanIInv, ScanTypeOK
<1>5. UNCHANGED <<chainVars, credits, crashes>>
  BY DEF Open
<1>6. CASE SameVersion(w) /\ cursor.session = NoSession
  <2>1. x.floor = cursor.floor
    BY <1>1, <1>6 DEF SameVersion, ScanIInv, Follows
  <2>2. PICK s : s = [min |-> FirstOf(x.floor), max |-> x.at, after |-> 0]
    OBVIOUS
  <2>3. PICK row : row = [cursor EXCEPT !.session = s] /\ Rewritten(row, w)
    BY <1>1, <1>6, <2>2 DEF Open
  <2>4. row = [floor |-> cursor.floor, session |-> s]
    BY <2>3 DEF ScanIInv, ScanTypeOK
  <2>5. /\ x.floor \in Nat /\ x.at \in Nat /\ Overlap \in Nat /\ Lag \in Nat /\ Lag <= Overlap
        /\ s.min \in Nat /\ s.min = (IF x.floor < Overlap THEN 0 ELSE x.floor - Overlap)
        /\ s.max = x.at /\ s.after = 0
    BY <2>2, ScanAssumption DEF WatcherRecord, FirstOf
  <2>6. row \in [floor: Nat, session: Session]
    BY <2>2, <2>4, <2>5 DEF Session, ScanIInv, ScanTypeOK
  <2>7. ASSUME NEW t \in Transfers, blockTime[t] < s.min PROVE t \in credits
    <3>1. blockTime[t] \in Nat
      BY ScanAssumption DEF ScanIInv, ScanTypeOK
    <3>2. cursor.floor >= blockTime[t] + Lag
      BY <2>1, <2>5, <2>7, <3>1
    <3>3. QED
      BY <3>2 DEF ScanIInv, NothingBehindTheFloor
  <2>8. SessionOK(s)
    BY <1>1, <2>5, <2>7 DEF SessionOK, Behind
  <2>9. NothingBehindTheFloor'
    BY <1>5, <2>3, <2>4 DEF Rewritten, chainVars, ScanIInv, NothingBehindTheFloor
  <2>10. QED
    BY <1>2, <1>4, <1>5, <2>3, <2>4, <2>6, <2>8, <2>9, CursorMoves
<1>7. CASE ~(SameVersion(w) /\ cursor.session = NoSession)
  <2>1. /\ UNCHANGED <<cursor, upToDate>>
        /\ credits' = credits /\ credits \subseteq Transfers /\ crashes' \in Nat
    BY <1>5, <1>7 DEF Open, ScanIInv, ScanTypeOK
  <2>2. QED
    BY <1>2, <1>4, <1>5, <2>1, WatcherMoves
<1>8. QED
  BY <1>6, <1>7

LEMMA FetchKeeps ==
  ASSUME ScanIInv, NEW w \in Watchers, Fetch(w)
  PROVE  ScanIInv'
<1>1. PICK x \in WatcherRecord : x = watcher[w] /\ x.at <= now /\ x.pc = "scanning"
  BY DEF Fetch, At, ScanIInv, ScanTypeOK
<1>2. PICK s \in Session : s = x.session
  BY DEF WatcherRecord
<1>3. PICK rows \in SUBSET Transfers : rows = Page(s)
  BY DEF Page, Remaining, ScanIInv, ScanTypeOK
<1>4. PICK more \in BOOLEAN : more = (Page(s) # Remaining(s))
  OBVIOUS
<1>5. PICK after : after = IF rows = {} THEN s.after ELSE Last(rows)
  OBVIOUS
<1>6. after \in {0} \cup Transfers
  BY <1>3, <1>5, LastRow DEF Session, ScanIInv
<1>7. PICK r : /\ Goes(w, r)
               /\ r = [x EXCEPT !.pc = "storing", !.rows = rows, !.more = more,
                                !.session.after = after, !.pages = @ + 1]
  BY <1>1, <1>2, <1>3, <1>4, <1>5 DEF Fetch
<1>8. PICK next : next = [s EXCEPT !.after = after]
  OBVIOUS
<1>9. next = [min |-> s.min, max |-> s.max, after |-> after]
  BY <1>8 DEF Session
<1>10. r = [x EXCEPT !.pc = "storing", !.rows = rows, !.more = more, !.session = next,
                     !.pages = @ + 1]
  BY <1>2, <1>7, <1>8 DEF WatcherRecord
<1>11. r = [pc |-> "storing", at |-> x.at, floor |-> x.floor, session |-> next,
            rows |-> rows, more |-> more, pages |-> x.pages + 1]
  BY <1>10 DEF WatcherRecord
<1>12. r \in WatcherRecord /\ r.at <= now
  BY <1>1, <1>6, <1>9, <1>11 DEF WatcherRecord, Session
<1>13. UNCHANGED <<chainVars, cursor, credits, upToDate, crashes>>
  BY DEF Fetch
<1>14. ASSUME w \in upToDate PROVE Follows(r)'
  <2>1. cursor.session # NoSession /\ s = cursor.session /\ SessionOK(s)
    BY <1>1, <1>2, <1>14 DEF ScanIInv, Follows
  <2>2. /\ after # 0 =>
             \A t \in Transfers : Due(t, s) /\ ~Before(after, t) => t \in credits \cup rows
        /\ ~more => \A t \in Transfers : Due(t, s) => t \in credits \cup rows
    BY <1>3, <1>4, <1>5, <2>1, PageLeavesNothingOut
  <2>3. \A t : Due(t, next) <=> Due(t, s)
    BY <1>9 DEF Due
  <2>4. Follows(r)
    BY <1>9, <1>11, <2>1, <2>2, <2>3 DEF Follows, Behind
  <2>5. QED
    BY <1>13, <2>4 DEF Follows, Behind, Due, Before, chainVars
<1>15. /\ credits' = credits /\ credits \subseteq Transfers
       /\ upToDate' = upToDate /\ crashes' \in Nat
  BY <1>13 DEF ScanIInv, ScanTypeOK
<1>16. QED
  BY <1>7, <1>12, <1>13, <1>14, <1>15, WatcherMoves

(* A row that is left out is not due yet. *)
LEMMA RowKeeps ==
  ASSUME ScanIInv, NEW w \in Watchers, NEW t \in Transfers, Store(w, t) \/ Skip(w, t)
  PROVE  ScanIInv'
<1>1. PICK x \in WatcherRecord : x = watcher[w] /\ x.at <= now /\ x.pc = "storing"
  BY DEF Store, Skip, At, ScanIInv, ScanTypeOK
<1>2. PICK rows \in SUBSET Transfers : rows = x.rows \ {t}
  BY DEF WatcherRecord
<1>3. PICK r : r = [x EXCEPT !.rows = rows] /\ Goes(w, r)
  BY <1>1, <1>2 DEF Store, Skip
<1>4. r = [pc |-> x.pc, at |-> x.at, floor |-> x.floor, session |-> x.session,
           rows |-> rows, more |-> x.more, pages |-> x.pages]
  BY <1>3 DEF WatcherRecord
<1>5. r \in WatcherRecord /\ r.at <= now
  BY <1>1, <1>4 DEF WatcherRecord
<1>6. /\ UNCHANGED <<chainVars, cursor, upToDate, crashes>>
      /\ credits \subseteq credits' /\ credits' \subseteq Transfers /\ crashes' \in Nat
      /\ t \in credits' \/ ~Known(t)
  BY DEF Store, Skip, ScanIInv, ScanTypeOK
<1>7. ASSUME w \in upToDate PROVE Follows(r)'
  <2>1. /\ cursor.session # NoSession /\ SessionOK(cursor.session)
        /\ x.session.min = cursor.session.min /\ x.session.max = cursor.session.max
        /\ Behind(x.session, credits \cup x.rows)
        /\ ~x.more => \A u \in Transfers : Due(u, x.session) => u \in credits \cup x.rows
    BY <1>1, <1>7 DEF ScanIInv, Follows
  <2>2. Due(t, x.session) => Known(t)
    <3>1. /\ x.session.max \in Nat /\ x.session.max <= now /\ now \in Nat
          /\ blockTime[t] \in Nat /\ Lag \in Nat
      BY <2>1, ScanAssumption DEF SessionOK, ScanIInv, ScanTypeOK
    <3>2. QED
      BY <3>1 DEF Due, Known
  <2>3. \A u \in Transfers :
          Due(u, x.session) /\ u \in credits \cup x.rows => u \in credits' \cup rows
    BY <1>2, <1>6, <2>2
  <2>4. \A u \in Transfers :
          /\ Due(u, x.session)' <=> Due(u, x.session)
          /\ Before(x.session.after, u)' <=> Before(x.session.after, u)
    BY <1>6 DEF chainVars, Due, Before
  <2>5. QED
    BY <1>1, <1>4, <1>6, <2>1, <2>3, <2>4 DEF Follows, Behind
<1>8. QED
  BY <1>3, <1>5, <1>6, <1>7, WatcherMoves
(* The checkpoint moves to the fingerprint of a page that is stored. *)
LEMMA NextPageKeeps ==
  ASSUME ScanIInv, NEW w \in Watchers, NextPage(w)
  PROVE  ScanIInv'
<1>1. PICK x \in WatcherRecord : /\ x = watcher[w] /\ x.at <= now /\ x.pc = "storing"
                                 /\ x.rows = {}
  BY DEF NextPage, At, ScanIInv, ScanTypeOK
<1>2. UNCHANGED <<chainVars, credits, crashes>>
  BY DEF NextPage
<1>3. CASE SameVersion(w)
  <2>1. /\ cursor.session # NoSession /\ SessionOK(cursor.session)
        /\ x.session.min = cursor.session.min /\ x.session.max = cursor.session.max
        /\ Behind(x.session, credits \cup x.rows)
    BY <1>1, <1>3 DEF SameVersion, ScanIInv, Follows
  <2>2. PICK row : /\ row = [cursor EXCEPT !.session.after = x.session.after]
                   /\ Rewritten(row, w)
    BY <1>1, <1>3 DEF NextPage
  <2>3. row.floor = cursor.floor /\ row.session = x.session
        /\ row = [floor |-> cursor.floor, session |-> x.session]
    <3>1. /\ x.session = [min |-> x.session.min, max |-> x.session.max, after |-> x.session.after]
          /\ cursor = [floor |-> cursor.floor, session |-> cursor.session]
          /\ cursor.session = [min |-> cursor.session.min, max |-> cursor.session.max,
                               after |-> cursor.session.after]
      BY DEF WatcherRecord, Session, ScanIInv, ScanTypeOK
    <3>2. row = [floor |-> cursor.floor,
                 session |-> [min |-> cursor.session.min, max |-> cursor.session.max,
                              after |-> x.session.after]]
      BY <2>2, <3>1
    <3>3. QED
      BY <2>1, <3>1, <3>2
  <2>4. row \in [floor: Nat, session: Session]
    BY <2>3 DEF WatcherRecord, ScanIInv, ScanTypeOK
  <2>5. SessionOK(row.session)
    BY <1>1, <2>1, <2>3 DEF SessionOK
  <2>6. NothingBehindTheFloor'
    BY <1>2, <2>2, <2>3 DEF Rewritten, chainVars, ScanIInv, NothingBehindTheFloor
  <2>7. CASE Ends(w)
    BY <1>2, <2>2, <2>4, <2>5, <2>6, <2>7, AsleepFollows, CursorMoves DEF Ends
  <2>8. CASE Goes(w, [watcher[w] EXCEPT !.pc = "scanning"])
    <3>1. PICK r : r = [x EXCEPT !.pc = "scanning"] /\ Goes(w, r)
      BY <1>1, <2>8
    <3>2. r = [pc |-> "scanning", at |-> x.at, floor |-> x.floor, session |-> x.session,
               rows |-> x.rows, more |-> x.more, pages |-> x.pages]
      BY <3>1 DEF WatcherRecord
    <3>3. r \in WatcherRecord /\ r.at <= now
      BY <1>1, <3>2 DEF WatcherRecord
    <3>4. row.session # NoSession
      BY <2>5 DEF SessionOK, NoSession, NoTime
    <3>5. Follows(r)'
      BY <2>2, <2>3, <3>2, <3>4 DEF Follows, Rewritten
    <3>6. QED
      BY <1>2, <2>2, <2>4, <2>5, <2>6, <3>1, <3>3, <3>5, CursorMoves
  <2>9. QED
    BY <1>3, <2>7, <2>8 DEF NextPage
<1>4. CASE ~SameVersion(w)
  <2>1. /\ Ends(w) /\ UNCHANGED <<chainVars, cursor, credits>>
        /\ upToDate' = upToDate /\ crashes' \in Nat
    BY <1>4 DEF NextPage, ScanIInv, ScanTypeOK
  <2>2. QED
    BY <2>1, EndsKeeps
<1>5. QED
  BY <1>3, <1>4

(* The last page is stored, and with it all that was due. *)
LEMMA CloseKeeps ==
  ASSUME ScanIInv, NEW w \in Watchers, Close(w)
  PROVE  ScanIInv'
<1>1. PICK x \in WatcherRecord : /\ x = watcher[w] /\ x.at <= now /\ x.pc = "storing"
                                 /\ x.rows = {} /\ ~x.more
  BY DEF Close, At, ScanIInv, ScanTypeOK
<1>2. UNCHANGED <<chainVars, credits, crashes>> /\ Goes(w, Asleep)
  BY DEF Close, Ends
<1>3. CASE SameVersion(w)
  <2>1. /\ cursor.session # NoSession /\ SessionOK(cursor.session)
        /\ x.session.min = cursor.session.min /\ x.session.max = cursor.session.max
        /\ \A t \in Transfers : Due(t, x.session) => t \in credits
    BY <1>1, <1>3 DEF SameVersion, ScanIInv, Follows
  <2>2. PICK row : row = [floor |-> x.session.max, session |-> NoSession] /\ Rewritten(row, w)
    BY <1>1, <1>3 DEF Close, NewFloor
  <2>3. row \in [floor: Nat, session: Session]
    BY <2>1, <2>2 DEF SessionOK, Session, NoSession
  <2>4. ASSUME NEW t \in Transfers, x.session.max >= blockTime[t] + Lag PROVE t \in credits
    <3>1. /\ blockTime[t] \in Nat /\ Lag \in Nat /\ cursor.session.max \in Nat
          /\ cursor.session.min \in Int
      <4>1. cursor.session \in Session /\ blockTime \in [Transfers -> BlockTimes]
        BY DEF ScanIInv, ScanTypeOK
      <4>2. blockTime[t] \in Nat /\ Lag \in Nat
        BY <4>1, ScanAssumption
      <4>3. cursor.session.min \in Int /\ cursor.session.max \in Nat
        BY <2>1, <4>1 DEF SessionOK, Session, NoTime
      <4>4. QED
        BY <4>2, <4>3
    <3>2. CASE blockTime[t] < cursor.session.min
      BY <2>1, <2>4, <3>1, <3>2 DEF SessionOK
    <3>3. CASE cursor.session.min <= blockTime[t]
      BY <2>1, <2>4, <3>1, <3>3 DEF Due
    <3>4. QED
      BY <3>1, <3>2, <3>3
  <2>5. NothingBehindTheFloor'
    BY <1>2, <2>2, <2>4 DEF Rewritten, chainVars, NothingBehindTheFloor
  <2>6. row.session = NoSession
    BY <2>2
  <2>7. QED
    BY <1>2, <2>2, <2>3, <2>5, <2>6, AsleepFollows, CursorMoves
<1>4. CASE ~SameVersion(w)
  <2>1. /\ Ends(w) /\ UNCHANGED <<chainVars, cursor, credits>>
        /\ upToDate' = upToDate /\ crashes' \in Nat
    BY <1>4 DEF Close, ScanIInv, ScanTypeOK
  <2>2. QED
    BY <2>1, EndsKeeps
<1>5. QED
  BY <1>3, <1>4

(* The chain and its provider. *)
LEMMA ProviderKeeps ==
  ASSUME ScanIInv, Advance \/ \E t \in Transfers : List(t)
  PROVE  ScanIInv'
<1>1. /\ UNCHANGED <<blockTime, cursor, credits, upToDate, watcher, crashes>>
      /\ now' \in Nat /\ now <= now' /\ now \in Nat
      /\ listed' \subseteq Transfers
  BY DEF Advance, List, ScanIInv, ScanTypeOK
<1>2. ScanTypeOK'
  BY <1>1 DEF ScanIInv, ScanTypeOK
<1>3. ListedInv'
  <2>1. CASE Advance
    BY <2>1 DEF Advance, ListedInv, Known
  <2>2. CASE \E t \in Transfers : List(t)
    BY <2>2 DEF List, ScanIInv, ListedInv, Known
  <2>3. QED
    BY <2>1, <2>2
<1>4. NothingBehindTheFloor'
  BY <1>1 DEF ScanIInv, NothingBehindTheFloor
<1>5. (cursor.session # NoSession => SessionOK(cursor.session))'
  BY <1>1 DEF ScanIInv, SessionOK, Behind, Due, Before
<1>6. (\A w \in Watchers : watcher[w].at <= now)'
  <2>1. \A w \in Watchers : watcher[w].at \in Nat /\ watcher[w].at <= now
    BY DEF ScanIInv, ScanTypeOK, WatcherRecord
  <2>2. QED
    BY <1>1, <2>1
<1>7. (\A w \in upToDate : Follows(watcher[w]))'
  BY <1>1 DEF ScanIInv, Follows, Behind, Due, Before
<1>8. QED
  BY <1>2, <1>3, <1>4, <1>5, <1>6, <1>7 DEF ScanIInv

LEMMA NextScanIInv == ScanIInv /\ [Next]_vars => ScanIInv'
<1> SUFFICES ASSUME ScanIInv, [Next]_vars PROVE ScanIInv'
  OBVIOUS
<1>1. CASE UNCHANGED vars
  <2>1. UNCHANGED <<now, blockTime, listed, cursor, credits, upToDate, watcher, crashes>>
    BY <1>1 DEF vars
  <2>2. ScanTypeOK' /\ ListedInv' /\ NothingBehindTheFloor'
    BY <2>1 DEF ScanIInv, ScanTypeOK, ListedInv, Known, NothingBehindTheFloor
  <2>3. (cursor.session # NoSession => SessionOK(cursor.session))'
    BY <2>1 DEF ScanIInv, SessionOK, Behind, Due, Before
  <2>4. (\A w \in upToDate : Follows(watcher[w]))'
    BY <2>1 DEF ScanIInv, Follows, Behind, Due, Before
  <2>5. QED
    BY <2>1, <2>2, <2>3, <2>4 DEF ScanIInv
<1>2. CASE Advance \/ \E t \in Transfers : List(t)
  BY <1>2, ProviderKeeps
<1>3. ASSUME NEW w \in Watchers, Scan(w) PROVE ScanIInv'
  BY <1>3, WakeKeeps, ReadKeeps, OpenKeeps, RereadKeeps, RowKeeps, NextPageKeeps, CloseKeeps
     DEF Scan
<1>4. ASSUME NEW w \in Watchers, Fetch(w) PROVE ScanIInv'
  BY <1>4, FetchKeeps
<1>5. ASSUME NEW w \in Watchers, FetchFails(w) \/ Crash(w) PROVE ScanIInv'
  <2>1. /\ Ends(w) /\ UNCHANGED <<chainVars, cursor, credits>>
        /\ upToDate' = upToDate /\ crashes' \in Nat
    BY <1>5 DEF FetchFails, Crash, Ends, ScanIInv, ScanTypeOK
  <2>2. QED
    BY <2>1, EndsKeeps
<1>6. QED
  BY <1>1, <1>2, <1>3, <1>4, <1>5 DEF Next

(* No crash, failed page, slow provider or second watcher makes the         *)
(* checkpoint pass a transfer that is not stored (ingest.ts, runIngestTick; *)
(* chain-scan-cursor.ts, closeSession).                                     *)
THEOREM CheckpointLeavesNothingBehind == Spec => []NothingBehindTheFloor
<1>1. Init => ScanIInv
  BY InitScanIInv
<1>2. ScanIInv /\ [Next]_vars => ScanIInv'
  BY NextScanIInv
<1>3. ScanIInv => NothingBehindTheFloor
  BY DEF ScanIInv
<1>4. QED
  BY <1>1, <1>2, <1>3, PTL DEF Spec

----------------------------------------------------------------------------
(* EvmScan.  The argument rests on two facts about the chain.  A block up   *)
(* to the finalized one never changes, so what was read of it stays true    *)
(* however late it is used.  And a transaction that has been without a      *)
(* block for longer than Absence never has one again: a row is given up     *)
(* after MinElapsed at the least, counted from the beginning of the tick    *)
(* that missed it first, which is at most stall before the miss.            *)

State == {"ABSENT", "DETECTED", "CONFIRMING", "FINAL", "FAILED_ON_CHAIN", "REORGED"}
Instant == Nat \cup {NoMiss}
EvmRow == [state: State, attempts: Int, missing: Instant]
Listed == UNION {[D -> EvmRow] : D \in SUBSET Keys}

ScannerRecord ==
  [pc: {"resting", "latest", "heads", "scanning", "persisting"},
   upTo: Int, final: Int, from: Int, to: Int, logs: SUBSET Keys]
CheckerRecord ==
  [pc: {"resting", "listed", "checking"}, at: Nat, final: Nat, rows: Listed,
   asked: SUBSET Keys,
   verdict: {"none", "missing", "CONFIRMING", "FAILED_ON_CHAIN", "FINAL", "REORGED"}]

(* Every variable keeps the shape the program and the schema give it. *)
EvmTypeOK ==
  /\ head \in Nat /\ finalHead \in Nat /\ stall \in Nat /\ reorgs \in Nat
  /\ place \in [Sent -> Places \cup {Nowhere}]
  /\ offSince \in [Sent -> Instant]
  /\ blockCursor \in Nat /\ current \subseteq Scanners
  /\ scanner \in [Scanners -> ScannerRecord]
  /\ evmCredit \in [Keys -> EvmRow]
  /\ checker \in [Checkers -> CheckerRecord]

(* The heads and the cursor are in order, and a reorganisation is not in    *)
(* the future.                                                              *)
HeadsInv ==
  /\ blockCursor <= finalHead /\ finalHead <= head /\ stall < MinElapsed
  /\ \A t \in Sent : place[t].block <= head /\ offSince[t] <= head

HasRow(c) == evmCredit[c].state # "ABSENT"
On(c)    == place[c[1]].log = c[2]

(* A transaction somebody has seen is on the chain, or was dropped. *)
Seen(t) == Mined(t) \/ offSince[t] # NoMiss

SeenInv ==
  /\ \A c \in Keys : IF HasRow(c) THEN Seen(c[1]) ELSE evmCredit[c] = Absent
  /\ \A s \in Scanners : \A c \in scanner[s].logs : Seen(c[1])
  /\ \A k \in Checkers : \A c \in DOMAIN checker[k].rows : HasRow(c)

(* What a scanner has behind it is stored, as far as it is final. *)
Stored(upTo) == \A c \in Keys : place[c[1]].block \in 1..upTo /\ On(c) => HasRow(c)

Scanned(r) ==
  /\ r.pc \in {"heads", "scanning", "persisting"} => r.final <= finalHead
  /\ r.pc \in {"scanning", "persisting"} => Stored(Lower(r.from - 1, r.final))
  /\ r.pc = "persisting" =>
       \A c \in Keys :
         place[c[1]].block \in r.from..Lower(r.to, r.final) /\ On(c) => HasRow(c) \/ c \in r.logs

ScannedInv == Stored(blockCursor) /\ \A s \in Scanners : Scanned(scanner[s])

(* A streak of missing answers begins at most one tick before the           *)
(* transaction was dropped.                                                 *)
Streak(row, t) ==
  row.missing # NoMiss => offSince[t] # NoMiss /\ offSince[t] - stall <= row.missing

StreakInv ==
  /\ \A c \in Keys : Streak(evmCredit[c], c[1])
  /\ \A k \in Checkers : \A c \in DOMAIN checker[k].rows : Streak(checker[k].rows[c], c[1])

(* A transaction that will never be back. *)
Lost(t) == place[t] = Nowhere /\ offSince[t] # NoMiss /\ head - offSince[t] > Absence

(* What a transaction has come to, for good. *)
Final(c, verdict) ==
  /\ verdict = "FINAL" => place[c[1]].block \in 1..finalHead /\ On(c)
  /\ verdict = "FAILED_ON_CHAIN" => place[c[1]].block \in 1..finalHead /\ place[c[1]].log = Failed
  /\ verdict = "REORGED" =>
       Lost(c[1]) \/ (place[c[1]].block \in 1..finalHead /\ ~On(c))

(* A checker's tick is no longer than stall, and its verdict stays true     *)
(* until it is written.                                                     *)
Checked(r) ==
  /\ r.at <= head
  /\ r # Done => head - r.at <= stall
  /\ r.pc = "checking" => r.final <= finalHead
  /\ r.asked \subseteq DOMAIN r.rows
  /\ r.asked # {} => r.pc = "checking"
  /\ \A c \in r.asked :
       /\ r.verdict # "none" /\ Final(c, r.verdict)
       /\ r.verdict = "missing" =>
            /\ offSince[c[1]] # NoMiss
            /\ r.rows[c].missing # NoMiss /\ r.at - r.rows[c].missing >= MinElapsed =>
                 Lost(c[1])

FinalInv == \A c \in Keys : Final(c, evmCredit[c].state)
CheckedInv == \A k \in Checkers : Checked(checker[k])

EvmIInv ==
  /\ EvmTypeOK /\ HeadsInv /\ SeenInv /\ ScannedInv
  /\ StreakInv /\ FinalInv /\ CheckedInv

----------------------------------------------------------------------------
USE EvmAssumption, GraceAssumption

LEMMA InitEvmIInv == EvmInit => EvmIInv
<1> SUFFICES ASSUME EvmInit PROVE EvmIInv
  OBVIOUS
<1> USE DEF EvmInit, Nowhere, Absent, Detected, Resting, Done, NoRows, NoMiss, Keys
<1>1. NoRows \in Listed /\ DOMAIN NoRows = {}
  <2>1. NoRows \in [{} -> EvmRow]
    OBVIOUS
  <2>2. QED
    BY <2>1 DEF Listed
<1>2. EvmTypeOK
  BY <1>1 DEF EvmTypeOK, Instant, ScannerRecord, CheckerRecord, EvmRow, State
<1>3. HeadsInv
  BY DEF HeadsInv
<1>4. SeenInv
  BY <1>1 DEF SeenInv, HasRow
<1>5. ScannedInv
  BY DEF ScannedInv, Scanned, Stored
<1>6. StreakInv
  BY <1>1 DEF StreakInv, Streak
<1>7. FinalInv /\ CheckedInv
  BY <1>1 DEF FinalInv, CheckedInv, Checked, Final
<1>8. QED
  BY <1>2, <1>3, <1>4, <1>5, <1>6, <1>7 DEF EvmIInv

----------------------------------------------------------------------------
(* The chain. *)

ChainStep == Grow \/ Reorganise \/ Finalize

(* What no step of the chain takes back. *)
Keeps(t) ==
  /\ place[t].block \in 1..finalHead \/ place'[t].block \in 1..finalHead => place'[t] = place[t]
  /\ Seen(t) => Seen(t)'
  /\ Lost(t) => Lost(t)'
  /\ offSince[t] # NoMiss => offSince'[t] = offSince[t]

LEMMA RebuiltKeeps ==
  ASSUME EvmTypeOK, HeadsInv, NEW from \in finalHead + 1..head + 1, NEW to \in Nat,
         from <= to, place' \in Rebuilt(from, to)
  PROVE  /\ place' \in [Sent -> Places \cup {Nowhere}]
         /\ \A t \in Sent :
              /\ place[t].block \in 1..finalHead \/ place'[t].block \in 1..finalHead
                   => place'[t] = place[t]
              /\ place'[t].block <= to \/ place'[t] = place[t]
              /\ place[t] = Nowhere /\ offSince[t] # NoMiss /\ to - offSince[t] > Absence
                   => place'[t] = Nowhere
<1>1. place' \in [Sent -> Places \cup {Nowhere}]
  BY DEF Rebuilt
<1>2. ASSUME NEW t \in Sent
      PROVE  /\ place[t].block \in 1..finalHead \/ place'[t].block \in 1..finalHead
                  => place'[t] = place[t]
             /\ place'[t].block <= to \/ place'[t] = place[t]
             /\ place[t] = Nowhere /\ offSince[t] # NoMiss /\ to - offSince[t] > Absence
                  => place'[t] = Nowhere
  <2> USE DEF EvmTypeOK, HeadsInv, Places, Nowhere, Mined, Instant, NoMiss
  <2>1. place[t] = Nowhere \/ place[t].block \in 1..head
    BY <1>2
  <2>2. IF Mined(t) /\ place[t].block < from
        THEN place'[t] = place[t]
        ELSE \/ place'[t] = Nowhere
             \/ /\ place'[t].block \in from..to
                /\ offSince[t] = NoMiss \/ to - offSince[t] <= Absence
    BY <1>2 DEF Rebuilt
  <2>3. Absence \in Int
    BY DEF Absence
  <2>4. QED
    BY <2>1, <2>2, <2>3
<1>3. QED
  BY <1>1, <1>2

LEMMA ChainStepKeeps ==
  ASSUME EvmTypeOK, HeadsInv, ChainStep
  PROVE  /\ EvmTypeOK' /\ HeadsInv'
         /\ finalHead <= finalHead' /\ head <= head' /\ stall' = stall
         /\ \A t \in Sent : Keeps(t)
<1> USE DEF EvmTypeOK, HeadsInv, Instant, NoMiss
<1>a. Absence \in Nat /\ (stall' = stall => Absence' = Absence)
  BY DEF Absence
<1>1. CASE Grow
  <2>1. /\ head' = head + 1 /\ finalHead' = finalHead /\ offSince' = offSince /\ stall' = stall
        /\ UNCHANGED <<reorgs, blockCursor, current, scanner, evmCredit, checker>>
        /\ place' \in Rebuilt(head + 1, head + 1)
    BY <1>1 DEF Grow
  <2>2. /\ place' \in [Sent -> Places \cup {Nowhere}]
        /\ \A t \in Sent :
             /\ place[t].block \in 1..finalHead \/ place'[t].block \in 1..finalHead
                  => place'[t] = place[t]
             /\ place'[t].block <= head + 1 \/ place'[t] = place[t]
             /\ place[t] = Nowhere /\ offSince[t] # NoMiss /\ head + 1 - offSince[t] > Absence
                  => place'[t] = Nowhere
    BY <2>1, RebuiltKeeps
  <2>3. \A t \in Sent : Mined(t) => place'[t] = place[t]
    BY <2>1 DEF Rebuilt, Mined, Places, Nowhere
  <2>4. EvmTypeOK'
    BY <2>1, <2>2
  <2>5. HeadsInv'
    BY <2>1, <2>2 DEF Places, Nowhere
  <2>6. \A t \in Sent : Keeps(t)
    BY <1>a, <2>1, <2>2, <2>3 DEF Keeps, Seen, Lost, Mined
  <2>7. QED
    BY <2>1, <2>4, <2>5, <2>6
<1>2. CASE Reorganise
  <2>1. PICK b \in finalHead + 1..head : place' \in Rebuilt(b, head)
    BY <1>2 DEF Reorganise
  <2>2. /\ head' = head /\ finalHead' = finalHead /\ stall' = stall /\ reorgs' = reorgs + 1
        /\ UNCHANGED <<blockCursor, current, scanner, evmCredit, checker>>
        /\ offSince' = [t \in Sent |->
             IF Mined(t) /\ place'[t] = Nowhere /\ offSince[t] = NoMiss
             THEN head ELSE offSince[t]]
    BY <1>2 DEF Reorganise
  <2>3. /\ place' \in [Sent -> Places \cup {Nowhere}]
        /\ \A t \in Sent :
             /\ place[t].block \in 1..finalHead \/ place'[t].block \in 1..finalHead
                  => place'[t] = place[t]
             /\ place'[t].block <= head \/ place'[t] = place[t]
             /\ place[t] = Nowhere /\ offSince[t] # NoMiss /\ head - offSince[t] > Absence
                  => place'[t] = Nowhere
    BY <2>1, RebuiltKeeps
  <2>4. EvmTypeOK' /\ HeadsInv'
    BY <2>2, <2>3
  <2>5. \A t \in Sent : Keeps(t)
    BY <1>a, <2>2, <2>3 DEF Keeps, Seen, Lost, Mined
  <2>6. QED
    BY <2>2, <2>4, <2>5
<1>3. CASE Finalize
  BY <1>a, <1>3 DEF Finalize, Keeps, Seen, Lost, Mined
<1>4. QED
  BY <1>1, <1>2, <1>3 DEF ChainStep

(* Rows and heads only grow, so what the scanners and the checkers know of  *)
(* them stays true.                                                         *)
LEMMA ChainStepIInv ==
  ASSUME EvmIInv, ChainStep
  PROVE  EvmIInv'
<1>1. /\ EvmTypeOK /\ HeadsInv /\ EvmTypeOK' /\ HeadsInv'
      /\ finalHead <= finalHead' /\ head <= head' /\ stall' = stall
      /\ \A t \in Sent : Keeps(t)
  BY ChainStepKeeps DEF EvmIInv
<1>2. UNCHANGED <<blockCursor, scanner, evmCredit, checker>>
  BY DEF ChainStep, Grow, Reorganise, Finalize
<1>3. \A c \in Keys : Keeps(c[1])
  BY <1>1 DEF Keys
<1>4. \A c \in Keys : HasRow(c)' = HasRow(c)
  BY <1>2 DEF HasRow
<1>5. \A c \in Keys, upTo \in Int :
        upTo <= finalHead /\ place'[c[1]].block \in 1..upTo => place'[c[1]] = place[c[1]]
  BY <1>1, <1>3 DEF Keeps, EvmTypeOK, Places, Nowhere, Keys
<1>6. SeenInv'
  <2>1. \A s \in Scanners : scanner[s].logs \subseteq Keys
    BY <1>1 DEF EvmTypeOK, ScannerRecord
  <2>2. \A k \in Checkers : DOMAIN checker[k].rows \subseteq Keys
    BY <1>1 DEF EvmTypeOK, CheckerRecord, Listed
  <2>3. QED
    BY <1>2, <1>3, <1>4, <2>1, <2>2 DEF EvmIInv, SeenInv, Keeps
<1>7. ScannedInv'
  <2>1. ASSUME NEW upTo \in Int, upTo <= finalHead, Stored(upTo)
        PROVE  Stored(upTo)'
    BY <1>4, <1>5, <2>1 DEF Stored, On
  <2>2. Stored(blockCursor)'
    BY <1>1, <1>2, <2>1 DEF EvmIInv, ScannedInv, HeadsInv, EvmTypeOK
  <2>3. ASSUME NEW s \in Scanners PROVE Scanned(scanner[s])'
    <3>1. scanner[s] \in ScannerRecord /\ Scanned(scanner[s])
      BY <1>1 DEF EvmIInv, ScannedInv, EvmTypeOK
    <3>2. PICK r \in ScannerRecord : r = scanner[s]
      BY <3>1
    <3>3. r.final \in Int /\ r.from \in Int /\ r.to \in Int
      BY <3>2 DEF ScannerRecord
    <3>4. r.pc \in {"heads", "scanning", "persisting"} => r.final <= finalHead'
      BY <1>1, <3>1, <3>2, <3>3 DEF Scanned, EvmTypeOK
    <3>5. ASSUME r.pc \in {"scanning", "persisting"}
          PROVE  Stored(Lower(r.from - 1, r.final))'
      <4>1. PICK upTo \in Int : upTo = Lower(r.from - 1, r.final)
        BY <3>3 DEF Lower
      <4>2. upTo <= finalHead /\ Stored(upTo)
        BY <1>1, <3>1, <3>2, <3>3, <3>5, <4>1 DEF Scanned, EvmTypeOK, Lower
      <4>3. Stored(upTo)'
        BY <2>1, <4>2
      <4>4. QED
        BY <4>1, <4>3
    <3>6. ASSUME r.pc = "persisting", NEW c \in Keys,
                 place'[c[1]].block \in r.from..Lower(r.to, r.final), On(c)'
          PROVE  HasRow(c)' \/ c \in r.logs
      <4>1. place'[c[1]].block \in 1..finalHead
        BY <1>1, <3>1, <3>2, <3>3, <3>6
           DEF Scanned, EvmTypeOK, Lower, On, Places, Nowhere, Keys, Failed
      <4>2. place'[c[1]] = place[c[1]]
        BY <1>1, <1>5, <4>1 DEF EvmTypeOK
      <4>3. QED
        BY <1>4, <3>1, <3>2, <3>6, <4>2 DEF Scanned, On
    <3>7. QED
      BY <1>2, <3>2, <3>4, <3>5, <3>6 DEF Scanned
  <2>4. QED
    BY <2>2, <2>3 DEF ScannedInv
<1>8. StreakInv'
  <2>1. \A c \in Keys : offSince[c[1]] # NoMiss => offSince'[c[1]] = offSince[c[1]]
    BY <1>3 DEF Keeps
  <2>2. \A k \in Checkers : DOMAIN checker[k].rows \subseteq Keys
    BY <1>1 DEF EvmTypeOK, CheckerRecord, Listed
  <2>3. QED
    BY <1>1, <1>2, <2>1, <2>2 DEF EvmIInv, StreakInv, Streak
<1>9. ASSUME NEW c \in Keys, NEW verdict, Final(c, verdict)
      PROVE  Final(c, verdict)'
  <2>1. place[c[1]].block \in 1..finalHead =>
          place'[c[1]] = place[c[1]] /\ place'[c[1]].block \in 1..finalHead'
    BY <1>1, <1>3 DEF Keeps, EvmTypeOK
  <2>2. Lost(c[1]) => Lost(c[1])'
    BY <1>3 DEF Keeps
  <2>3. QED
    BY <1>9, <2>1, <2>2 DEF Final, On
<1>10. FinalInv'
  BY <1>2, <1>9 DEF EvmIInv, FinalInv
<1>11. CheckedInv'
  <2>1. ASSUME NEW k \in Checkers PROVE Checked(checker[k])'
    <3>1. checker[k] \in CheckerRecord /\ Checked(checker[k])
      BY <1>1 DEF EvmIInv, CheckedInv, EvmTypeOK
    <3>2. PICK r \in CheckerRecord : r = checker[k]
      BY <3>1
    <3>3. r.at \in Nat /\ r.final \in Nat /\ r.asked \subseteq Keys
      BY <3>2 DEF CheckerRecord
    <3>4. r.at <= head' /\ (r.pc = "checking" => r.final <= finalHead')
      BY <1>1, <3>1, <3>2, <3>3 DEF Checked, EvmTypeOK
    <3>5. r # Done => head' - r.at <= stall'
      BY <1>1, <3>1, <3>2, <3>3
         DEF Checked, EvmTypeOK, ChainStep, Grow, Reorganise, Finalize
    <3>6. ASSUME NEW c \in r.asked
          PROVE  /\ Final(c, r.verdict)'
                 /\ r.verdict = "missing" =>
                      /\ offSince'[c[1]] # NoMiss
                      /\ r.rows[c].missing # NoMiss /\ r.at - r.rows[c].missing >= MinElapsed =>
                           Lost(c[1])'
      BY <1>3, <1>9, <3>1, <3>2, <3>3 DEF Checked, Keeps
    <3>7. QED
      BY <1>2, <3>1, <3>2, <3>4, <3>5, <3>6 DEF Checked
  <2>2. QED
    BY <2>1 DEF CheckedInv
<1>12. QED
  BY <1>1, <1>6, <1>7, <1>8, <1>10, <1>11 DEF EvmIInv

----------------------------------------------------------------------------
(* The rows.  While the chain stands still a row may come, and one that is  *)
(* there may change, to something that is true of its transfer.             *)
CreditsKept ==
  /\ evmCredit' \in [Keys -> EvmRow]
  /\ \A c \in Keys :
       /\ HasRow(c) => HasRow(c)'
       /\ IF HasRow(c)' THEN Seen(c[1]) ELSE evmCredit'[c] = Absent
       /\ Streak(evmCredit'[c], c[1])
       /\ Final(c, evmCredit'[c].state)

LEMMA SameCredits ==
  ASSUME EvmIInv, UNCHANGED evmCredit
  PROVE  CreditsKept
  BY DEF CreditsKept, EvmIInv, EvmTypeOK, SeenInv, StreakInv, FinalInv, HasRow

LEMMA OneCredit ==
  ASSUME EvmIInv, NEW c \in Keys, NEW row \in EvmRow,
         evmCredit' = [evmCredit EXCEPT ![c] = row],
         row.state # "ABSENT", Seen(c[1]), Streak(row, c[1]), Final(c, row.state)
  PROVE  CreditsKept
  BY DEF CreditsKept, EvmIInv, EvmTypeOK, SeenInv, StreakInv, FinalInv, HasRow

(* What the chain says, while it stands still. *)
LEMMA SameChain ==
  ASSUME UNCHANGED chain
  PROVE  /\ HeadsInv /\ blockCursor' <= finalHead => HeadsInv'
         /\ \A t : (Seen(t)' <=> Seen(t)) /\ (Lost(t)' <=> Lost(t))
         /\ \A c, verdict : Final(c, verdict)' <=> Final(c, verdict)
         /\ \A c : On(c)' <=> On(c)
         /\ \A row, t : Streak(row, t)' <=> Streak(row, t)
  BY DEF chain, HeadsInv, Seen, Mined, Lost, Absence, Final, On, Streak

LEMMA StoredKept ==
  ASSUME UNCHANGED chain, CreditsKept, NEW upTo, Stored(upTo)
  PROVE  Stored(upTo)'
  BY DEF chain, CreditsKept, Stored, On

LEMMA ScannedKept ==
  ASSUME UNCHANGED chain, CreditsKept, NEW r \in ScannerRecord, Scanned(r)
  PROVE  Scanned(r)'
<1>1. Stored(Lower(r.from - 1, r.final)) => Stored(Lower(r.from - 1, r.final))'
  <2>1. PICK upTo : upTo = Lower(r.from - 1, r.final)
    OBVIOUS
  <2>2. QED
    BY <2>1, StoredKept
<1>2. QED
  BY <1>1 DEF chain, CreditsKept, Scanned, On

LEMMA CheckedKept ==
  ASSUME UNCHANGED chain, NEW r, Checked(r)
  PROVE  Checked(r)'
<1>1. /\ head' = head /\ finalHead' = finalHead /\ stall' = stall /\ offSince' = offSince
      /\ \A t : Lost(t)' <=> Lost(t)
      /\ \A c, verdict : Final(c, verdict)' <=> Final(c, verdict)
  BY SameChain DEF chain
<1>2. QED
  BY <1>1 DEF Checked

(* A step of one scanner. *)
LEMMA ScannerMoves ==
  ASSUME EvmIInv, UNCHANGED <<chain, checker>>, CreditsKept,
         blockCursor' \in Nat, blockCursor' <= finalHead, Stored(blockCursor'),
         current' \subseteq Scanners,
         NEW s \in Scanners, NEW r \in ScannerRecord, ScannerTo(s, r),
         Scanned(r)', \A c \in r.logs : Seen(c[1])
  PROVE  EvmIInv'
<1>1. /\ scanner' \in [Scanners -> ScannerRecord]
      /\ \A q \in Scanners : scanner'[q] = IF q = s THEN r ELSE scanner[q]
  BY DEF EvmIInv, EvmTypeOK, ScannerTo
<1>2. EvmTypeOK'
  BY <1>1 DEF EvmIInv, EvmTypeOK, chain, CreditsKept
<1>3. HeadsInv'
  BY SameChain DEF EvmIInv
<1>4. SeenInv'
  <2>1. \A c \in Keys : IF HasRow(c)' THEN Seen(c[1])' ELSE evmCredit'[c] = Absent
    BY SameChain DEF CreditsKept
  <2>2. \A q \in Scanners : \A c \in scanner'[q].logs : Seen(c[1])'
    BY <1>1, SameChain DEF EvmIInv, SeenInv
  <2>3. \A k \in Checkers : \A c \in DOMAIN checker'[k].rows : HasRow(c)'
    BY DEF EvmIInv, EvmTypeOK, CheckerRecord, Listed, SeenInv, CreditsKept
  <2>4. QED
    BY <2>1, <2>2, <2>3 DEF SeenInv
<1>5. ScannedInv'
  <2>1. Stored(blockCursor)'
    <3>1. PICK n : n = blockCursor'
      OBVIOUS
    <3>2. Stored(n)'
      BY <3>1, StoredKept
    <3>3. QED
      BY <3>1, <3>2 DEF Stored
  <2>2. ASSUME NEW q \in Scanners PROVE Scanned(scanner[q])'
    <3>1. PICK x \in ScannerRecord : x = scanner'[q]
      BY <1>1
    <3>2. Scanned(x)'
      BY <1>1, <3>1, ScannedKept DEF EvmIInv, ScannedInv
    <3>3. QED
      BY <3>1, <3>2 DEF Scanned
  <2>3. QED
    BY <2>1, <2>2 DEF ScannedInv
<1>6. StreakInv'
  BY SameChain DEF EvmIInv, StreakInv, CreditsKept
<1>7. FinalInv'
  BY SameChain DEF FinalInv, CreditsKept
<1>8. CheckedInv'
  <2>1. ASSUME NEW k \in Checkers PROVE Checked(checker[k])'
    <3>1. PICK x : x = checker[k]
      OBVIOUS
    <3>2. Checked(x)'
      BY <3>1, CheckedKept DEF EvmIInv, CheckedInv
    <3>3. QED
      BY <3>1, <3>2
  <2>2. QED
    BY <2>1 DEF CheckedInv
<1>9. QED
  BY <1>2, <1>3, <1>4, <1>5, <1>6, <1>7, <1>8 DEF EvmIInv

(* A step of one checker. *)
LEMMA CheckerMoves ==
  ASSUME EvmIInv, UNCHANGED <<chain, blockCursor, current, scanner>>, CreditsKept,
         NEW k \in Checkers, NEW r \in CheckerRecord, CheckerTo(k, r),
         Checked(r), \A c \in DOMAIN r.rows : HasRow(c) /\ Streak(r.rows[c], c[1])
  PROVE  EvmIInv'
<1>1. /\ checker' \in [Checkers -> CheckerRecord]
      /\ \A q \in Checkers : checker'[q] = IF q = k THEN r ELSE checker[q]
  BY DEF EvmIInv, EvmTypeOK, CheckerTo
<1>2. EvmTypeOK'
  BY <1>1 DEF EvmIInv, EvmTypeOK, chain, CreditsKept
<1>3. HeadsInv'
  BY SameChain DEF EvmIInv, HeadsInv
<1>4. \A q \in Checkers : DOMAIN checker[q].rows \subseteq Keys /\ DOMAIN r.rows \subseteq Keys
  BY DEF EvmIInv, EvmTypeOK, CheckerRecord, Listed
<1>5. SeenInv'
  <2>1. \A c \in Keys : IF HasRow(c)' THEN Seen(c[1])' ELSE evmCredit'[c] = Absent
    BY SameChain DEF CreditsKept
  <2>2. \A q \in Scanners : \A c \in scanner'[q].logs : Seen(c[1])'
    BY SameChain DEF EvmIInv, SeenInv
  <2>3. \A q \in Checkers : \A c \in DOMAIN checker'[q].rows : HasRow(c)'
    BY <1>1, <1>4 DEF EvmIInv, SeenInv, CreditsKept
  <2>4. QED
    BY <2>1, <2>2, <2>3 DEF SeenInv
<1>6. ScannedInv'
  <2>1. Stored(blockCursor)'
    BY StoredKept DEF EvmIInv, ScannedInv, Stored
  <2>2. ASSUME NEW q \in Scanners PROVE Scanned(scanner[q])'
    <3>1. PICK x \in ScannerRecord : x = scanner[q]
      BY DEF EvmIInv, EvmTypeOK
    <3>2. Scanned(x)'
      BY <3>1, ScannedKept DEF EvmIInv, ScannedInv
    <3>3. QED
      BY <3>1, <3>2 DEF Scanned
  <2>3. QED
    BY <2>1, <2>2 DEF ScannedInv
<1>7. StreakInv'
  BY <1>1, SameChain DEF EvmIInv, StreakInv, CreditsKept
<1>8. FinalInv'
  BY SameChain DEF FinalInv, CreditsKept
<1>9. CheckedInv'
  <2>1. ASSUME NEW q \in Checkers PROVE Checked(checker[q])'
    <3>1. PICK x : x = checker'[q]
      OBVIOUS
    <3>2. Checked(x)'
      BY <1>1, <3>1, CheckedKept DEF EvmIInv, CheckedInv
    <3>3. QED
      BY <3>1, <3>2
  <2>2. QED
    BY <2>1 DEF CheckedInv
<1>10. QED
  BY <1>2, <1>3, <1>5, <1>6, <1>7, <1>8, <1>9 DEF EvmIInv

----------------------------------------------------------------------------
(* runEvmIngestTick. *)

LEMMA ReadsKeep ==
  ASSUME EvmIInv, NEW s \in Scanners,
         ReadLatest(s) \/ ReadFinalized(s) \/ StopScanner(s)
  PROVE  EvmIInv'
<1>1. /\ UNCHANGED <<chain, checker, blockCursor, evmCredit>>
      /\ current' \subseteq Scanners
  BY DEF ReadLatest, ReadFinalized, StopScanner, EvmIInv, EvmTypeOK
<1>2. scanner[s] \in ScannerRecord /\ head \in Nat /\ finalHead \in Nat
  BY DEF EvmIInv, EvmTypeOK
<1>3. PICK x \in ScannerRecord : x = scanner[s]
  BY <1>2
<1>4. PICK r : /\ ScannerTo(s, r)
               /\ \/ r = [Resting EXCEPT !.pc = "latest", !.upTo = head]
                  \/ r = [x EXCEPT !.pc = "heads", !.final = Lower(finalHead, x.upTo)]
                  \/ r = Resting
  BY <1>3 DEF ReadLatest, ReadFinalized, StopScanner
<1>5. /\ r \in ScannerRecord /\ r.pc \in {"resting", "latest", "heads"}
      /\ r.pc = "heads" => r.final <= finalHead
      /\ r.logs \subseteq x.logs
  <2>1. PICK n \in Int : n = Lower(finalHead, x.upTo) /\ n <= finalHead
    BY <1>2 DEF Lower, ScannerRecord
  <2>2. CASE r = [x EXCEPT !.pc = "heads", !.final = n]
    BY <2>1, <2>2 DEF ScannerRecord
  <2>3. CASE r = [Resting EXCEPT !.pc = "latest", !.upTo = head]
    <3>1. r = [pc |-> "latest", upTo |-> head, final |-> 0, from |-> 0, to |-> 0, logs |-> {}]
      BY <2>3 DEF Resting
    <3>2. QED
      BY <1>2, <3>1 DEF ScannerRecord
  <2>4. CASE r = Resting
    BY <2>4 DEF Resting, ScannerRecord
  <2>5. QED
    BY <1>4, <2>1, <2>2, <2>3, <2>4
<1>6. Scanned(r)'
  BY <1>1, <1>5 DEF Scanned, chain
<1>7. \A c \in r.logs : Seen(c[1])
  BY <1>3, <1>5 DEF EvmIInv, SeenInv
<1>8. Stored(blockCursor') /\ blockCursor' \in Nat /\ blockCursor' <= finalHead
  BY <1>1 DEF EvmIInv, ScannedInv, HeadsInv, EvmTypeOK
<1>9. QED
  BY <1>1, <1>4, <1>5, <1>6, <1>7, <1>8, SameCredits, ScannerMoves

LEMMA ReadCursorKeeps ==
  ASSUME EvmIInv, NEW s \in Scanners, ReadCursor(s)
  PROVE  EvmIInv'
<1>1. /\ UNCHANGED <<chain, checker, blockCursor, evmCredit>>
      /\ current' \subseteq Scanners
  BY DEF ReadCursor, EvmIInv, EvmTypeOK
<1>2. /\ scanner[s] \in ScannerRecord /\ scanner[s].pc = "heads" /\ blockCursor \in Nat
      /\ Scanned(scanner[s]) /\ scanner[s].final <= finalHead /\ finalHead \in Nat
  BY DEF ReadCursor, ScannerAt, EvmIInv, EvmTypeOK, ScannedInv, Scanned
<1>3. ChunkRange * MaxChunks \in Nat
  OBVIOUS
<1>4. PICK r : /\ ScannerTo(s, r)
               /\ r = [scanner[s] EXCEPT
                    !.pc = "scanning", !.from = blockCursor + 1,
                    !.upTo  = Lower(@, blockCursor + ChunkRange * MaxChunks),
                    !.final = Lower(@, blockCursor + ChunkRange * MaxChunks)]
  BY DEF ReadCursor
<1>5. /\ r \in ScannerRecord /\ r.pc = "scanning" /\ r.from = blockCursor + 1
      /\ r.final \in Int /\ r.final <= scanner[s].final /\ r.logs = scanner[s].logs
  <2>1. PICK x \in ScannerRecord : x = scanner[s]
    BY <1>2
  <2>2. PICK m \in Int : m = Lower(x.upTo, blockCursor + ChunkRange * MaxChunks)
    BY <1>2, <1>3, <2>1 DEF ScannerRecord, Lower
  <2>3. PICK n \in Int : n = Lower(x.final, blockCursor + ChunkRange * MaxChunks) /\ n <= x.final
    BY <1>2, <1>3, <2>1 DEF ScannerRecord, Lower
  <2>4. r = [x EXCEPT !.pc = "scanning", !.from = blockCursor + 1, !.upTo = m, !.final = n]
    BY <1>4, <2>1, <2>2, <2>3
  <2>5. r = [pc |-> "scanning", upTo |-> m, final |-> n, from |-> blockCursor + 1,
              to |-> x.to, logs |-> x.logs]
    BY <2>4 DEF ScannerRecord
  <2>6. QED
    BY <1>2, <2>1, <2>3, <2>5 DEF ScannerRecord
<1>6. Scanned(r)
  <2>1. Lower(r.from - 1, r.final) <= blockCursor /\ Lower(r.from - 1, r.final) \in Int
    BY <1>2, <1>5 DEF Lower
  <2>2. Stored(Lower(r.from - 1, r.final))
    BY <1>2, <2>1 DEF EvmIInv, EvmTypeOK, ScannedInv, Stored, Places, Nowhere, Keys
  <2>3. QED
    BY <1>2, <1>5, <2>2 DEF Scanned, ScannerRecord
<1>7. Scanned(r)'
  BY <1>1, <1>5, <1>6, ScannedKept, SameCredits
<1>8. \A c \in r.logs : Seen(c[1])
  BY <1>5 DEF EvmIInv, SeenInv
<1>9. Stored(blockCursor') /\ blockCursor' \in Nat /\ blockCursor' <= finalHead
  BY <1>1 DEF EvmIInv, ScannedInv, HeadsInv, EvmTypeOK
<1>10. QED
  BY <1>1, <1>4, <1>5, <1>7, <1>8, <1>9, SameCredits, ScannerMoves

LEMMA GetLogsKeeps ==
  ASSUME EvmIInv, NEW s \in Scanners, GetLogs(s)
  PROVE  EvmIInv'
<1> DEFINE to   == Lower(scanner[s].from + ChunkRange - 1, scanner[s].upTo)
           logs == {c \in Keys : /\ place[c[1]].block \in scanner[s].from..to
                                 /\ place[c[1]].log = c[2]}
<1>1. UNCHANGED <<chain, checker, blockCursor, current, evmCredit>>
  BY DEF GetLogs
<1>2. /\ scanner[s] \in ScannerRecord /\ scanner[s].pc = "scanning" /\ Scanned(scanner[s])
      /\ scanner[s].from <= scanner[s].upTo
  BY DEF GetLogs, ScannerAt, GoesOn, EvmIInv, EvmTypeOK, ScannedInv
<1>3. PICK r : /\ ScannerTo(s, r)
               /\ r = IF logs = {} THEN [scanner[s] EXCEPT !.from = to + 1]
                      ELSE [scanner[s] EXCEPT !.pc = "persisting", !.to = to, !.logs = logs]
  BY DEF GetLogs
<1>4. PICK x \in ScannerRecord : x = scanner[s]
  BY <1>2
<1>5. to \in Int /\ x.from <= to /\ to = Lower(x.from + ChunkRange - 1, x.upTo)
  BY <1>2, <1>4 DEF Lower, ScannerRecord
<1>6. \A c \in logs : c \in Keys /\ Seen(c[1])
  BY <1>2 DEF Seen, Mined, Nowhere, Keys, Failed
<1>7. r \in ScannerRecord /\ \A c \in r.logs : Seen(c[1])
  <2>1. r \in ScannerRecord /\ (r.logs = x.logs \/ r.logs = logs)
    <3>1. PICK n \in Int : n = to
      BY <1>5
    <3>2. PICK found \in SUBSET Keys : found = logs
      OBVIOUS
    <3>3. CASE r = [x EXCEPT !.from = n + 1]
      BY <3>3 DEF ScannerRecord
    <3>4. CASE r = [x EXCEPT !.pc = "persisting", !.to = n, !.logs = found]
      <4>1. r = [pc |-> "persisting", upTo |-> x.upTo, final |-> x.final, from |-> x.from,
                 to |-> n, logs |-> found]
        BY <3>4 DEF ScannerRecord
      <4>2. QED
        BY <3>2, <4>1 DEF ScannerRecord
    <3>5. QED
      BY <1>3, <1>4, <3>1, <3>2, <3>3, <3>4
  <2>2. QED
    BY <1>4, <1>6, <2>1 DEF EvmIInv, SeenInv
<1>8. Scanned(r)
  <2>1. \A c \in Keys : place[c[1]].block \in Int
    BY DEF EvmIInv, EvmTypeOK, Places, Nowhere, Keys
  <2>2. CASE logs = {}
    <3>1. /\ r.pc = "scanning" /\ r.final = x.final /\ r.final \in Int /\ r.from = to + 1
          /\ x.from \in Int
      BY <1>2, <1>3, <1>4, <1>5, <2>2 DEF ScannerRecord
    <3>2. Stored(Lower(x.from - 1, x.final)) /\ x.final <= finalHead
      BY <1>2, <1>4 DEF Scanned
    <3>3. Stored(Lower(to, r.final))
      BY <1>4, <1>5, <2>1, <2>2, <3>1, <3>2 DEF Stored, On, Lower
    <3>4. Lower(r.from - 1, r.final) = Lower(to, r.final)
      BY <1>5, <3>1
    <3>5. QED
      BY <3>1, <3>2, <3>3, <3>4 DEF Scanned
  <2>3. CASE logs # {}
    <3>1. /\ r.pc = "persisting" /\ r.final = x.final /\ r.final \in Int /\ r.from = x.from
          /\ r.to = to /\ r.logs = logs /\ x.from \in Int
      BY <1>2, <1>3, <1>4, <1>5, <2>3 DEF ScannerRecord
    <3>2. Stored(Lower(x.from - 1, x.final)) /\ x.final <= finalHead
      BY <1>2, <1>4 DEF Scanned
    <3>3. \A c \in Keys :
            place[c[1]].block \in r.from..Lower(r.to, r.final) /\ On(c) => c \in r.logs
      BY <1>4, <1>5, <2>1, <3>1 DEF On, Lower
    <3>4. QED
      BY <3>1, <3>2, <3>3 DEF Scanned
  <2>4. QED
    BY <2>2, <2>3
<1>9. Scanned(r)'
  BY <1>1, <1>7, <1>8, ScannedKept, SameCredits
<1>10. Stored(blockCursor') /\ blockCursor' \in Nat /\ blockCursor' <= finalHead
  BY <1>1 DEF EvmIInv, ScannedInv, HeadsInv, EvmTypeOK
<1>11. current' \subseteq Scanners
  BY <1>1 DEF EvmIInv, EvmTypeOK
<1>12. QED
  BY <1>1, <1>3, <1>7, <1>9, <1>10, <1>11, SameCredits, ScannerMoves

LEMMA PersistKeeps ==
  ASSUME EvmIInv, NEW s \in Scanners, NEW c \in Keys, Persist(s, c)
  PROVE  EvmIInv'
<1>1. UNCHANGED <<chain, checker, blockCursor, current>>
  BY DEF Persist
<1>2. PICK x \in ScannerRecord : x = scanner[s] /\ Scanned(x)
  BY DEF EvmIInv, EvmTypeOK, ScannedInv
<1>3. x.pc = "persisting" /\ c \in x.logs /\ Seen(c[1])
  BY <1>2 DEF Persist, ScannerAt, EvmIInv, SeenInv
<1>4. CreditsKept /\ HasRow(c)'
  <2>1. PICK row : row = IF evmCredit[c] = Absent THEN Detected ELSE evmCredit[c]
    OBVIOUS
  <2>2. evmCredit' = [evmCredit EXCEPT ![c] = row]
    BY <2>1 DEF Persist
  <2>3. CASE evmCredit[c] = Absent
    <3>1. /\ row \in EvmRow /\ row.state # "ABSENT" /\ Streak(row, c[1])
          /\ Final(c, row.state)
      BY <2>1, <2>3 DEF Detected, EvmRow, State, Instant, Streak, Final, NoMiss
    <3>2. QED
      BY <1>3, <2>2, <3>1, OneCredit DEF HasRow, EvmIInv, EvmTypeOK
  <2>4. CASE evmCredit[c] # Absent
    <3>1. evmCredit' = evmCredit
      BY <2>1, <2>2, <2>4 DEF EvmIInv, EvmTypeOK
    <3>2. HasRow(c)
      BY <2>4 DEF EvmIInv, SeenInv
    <3>3. QED
      BY <3>1, <3>2, SameCredits DEF HasRow
  <2>5. QED
    BY <2>3, <2>4
<1>5. PICK r : /\ ScannerTo(s, r)
               /\ r = IF x.logs = {c}
                      THEN [x EXCEPT !.pc = "scanning", !.from = x.to + 1, !.to = 0, !.logs = {}]
                      ELSE [x EXCEPT !.logs = @ \ {c}]
  BY <1>2 DEF Persist
<1>6. /\ r \in ScannerRecord /\ r.logs \subseteq x.logs /\ r.final = x.final
      /\ \/ x.logs = {c} /\ r.pc = "scanning" /\ r.from = x.to + 1
         \/ r.pc = "persisting" /\ r.from = x.from /\ r.to = x.to /\ r.logs = x.logs \ {c}
  <2>1. CASE x.logs = {c}
    <3>1. r = [pc |-> "scanning", upTo |-> x.upTo, final |-> x.final, from |-> x.to + 1,
               to |-> 0, logs |-> {}]
      BY <1>5, <2>1 DEF ScannerRecord
    <3>2. QED
      BY <2>1, <3>1 DEF ScannerRecord
  <2>2. CASE x.logs # {c}
    <3>1. PICK left \in SUBSET Keys : left = x.logs \ {c}
      BY DEF ScannerRecord
    <3>2. r = [x EXCEPT !.logs = left]
      BY <1>5, <2>2, <3>1 DEF ScannerRecord
    <3>3. QED
      BY <1>3, <3>1, <3>2 DEF ScannerRecord
  <2>3. QED
    BY <2>1, <2>2
<1>7. Scanned(x)'
  BY <1>1, <1>2, <1>4, ScannedKept
<1>8. Scanned(r)'
  <2>1. r.final \in Int /\ x.from \in Int /\ x.to \in Int /\ x.final <= finalHead'
    BY <1>1, <1>2, <1>3, <1>6 DEF Scanned, ScannerRecord, chain
  <2>2. \A d \in Keys : place'[d[1]].block \in Int
    BY <1>1 DEF EvmIInv, EvmTypeOK, Places, Nowhere, Keys, chain
  <2>3. Stored(Lower(x.from - 1, x.final))'
    BY <1>3, <1>7 DEF Scanned
  <2>4. \A d \in Keys :
          place'[d[1]].block \in x.from..Lower(x.to, x.final) /\ On(d)' =>
            HasRow(d)' \/ d \in x.logs \ {c}
    BY <1>3, <1>4, <1>7 DEF Scanned
  <2>5. CASE x.logs = {c} /\ r.pc = "scanning" /\ r.from = x.to + 1
    <3>1. Stored(Lower(r.from - 1, r.final))'
      BY <1>6, <2>1, <2>2, <2>3, <2>4, <2>5 DEF Stored, Lower
    <3>2. QED
      BY <1>6, <2>1, <2>5, <3>1 DEF Scanned
  <2>6. CASE r.pc = "persisting" /\ r.from = x.from /\ r.to = x.to /\ r.logs = x.logs \ {c}
    BY <1>6, <2>1, <2>3, <2>4, <2>6 DEF Scanned
  <2>7. QED
    BY <1>6, <2>5, <2>6
<1>9. \A d \in r.logs : Seen(d[1])
  BY <1>2, <1>6 DEF EvmIInv, SeenInv
<1>10. Stored(blockCursor') /\ blockCursor' \in Nat /\ blockCursor' <= finalHead
  BY <1>1 DEF EvmIInv, ScannedInv, HeadsInv, EvmTypeOK
<1>11. current' \subseteq Scanners
  BY <1>1 DEF EvmIInv, EvmTypeOK
<1>12. QED
  BY <1>1, <1>4, <1>5, <1>6, <1>8, <1>9, <1>10, <1>11, ScannerMoves

(* The cursor moves over finalized blocks that are stored. *)
LEMMA MoveCursorKeeps ==
  ASSUME EvmIInv, NEW s \in Scanners, MoveCursor(s)
  PROVE  EvmIInv'
<1>1. UNCHANGED <<chain, checker, evmCredit>> /\ ScannerTo(s, Resting)
  BY DEF MoveCursor
<1>2. PICK x \in ScannerRecord : x = scanner[s] /\ Scanned(x)
  BY DEF EvmIInv, EvmTypeOK, ScannedInv
<1>3. PICK n \in Int : n = Lower(x.from - 1, x.final) /\ n = CursorTarget(s) /\ n <= x.final
  BY <1>2 DEF CursorTarget, Lower, ScannerRecord
<1>4. Stored(n) /\ n <= finalHead
  <2>1. x.pc \in {"scanning", "persisting"}
    BY <1>2 DEF MoveCursor, ScannerAt
  <2>2. Stored(n) /\ x.final <= finalHead /\ x.final \in Int /\ finalHead \in Int
    BY <1>2, <1>3, <2>1 DEF Scanned, ScannerRecord, EvmIInv, EvmTypeOK
  <2>3. QED
    BY <1>3, <2>2
<1>5. Stored(blockCursor') /\ blockCursor' \in Nat /\ blockCursor' <= finalHead
  <2>1. (blockCursor' = n /\ n > blockCursor) \/ blockCursor' = blockCursor
    BY <1>3 DEF MoveCursor
  <2>2. QED
    BY <1>3, <1>4, <2>1 DEF EvmIInv, ScannedInv, HeadsInv, EvmTypeOK
<1>6. current' \subseteq Scanners
  BY DEF MoveCursor, EvmIInv, EvmTypeOK
<1>7. Resting \in ScannerRecord /\ Scanned(Resting)' /\ \A c \in Resting.logs : Seen(c[1])
  BY DEF Resting, ScannerRecord, Scanned
<1>8. QED
  BY <1>1, <1>5, <1>6, <1>7, SameCredits, ScannerMoves

----------------------------------------------------------------------------
(* runEvmFinalityTick. *)

(* The rows a checker has left are rows it had listed. *)
LEMMA EvmRowsLeft ==
  ASSUME NEW rows \in Listed, NEW c
  PROVE  /\ [d \in DOMAIN rows \ {c} |-> rows[d]] \in Listed
         /\ DOMAIN rows \subseteq Keys
         /\ \A d \in DOMAIN rows : rows[d] \in EvmRow
<1>1. PICK D \in SUBSET Keys : rows \in [D -> EvmRow]
  BY DEF Listed
<1>2. [d \in DOMAIN rows \ {c} |-> rows[d]] \in [D \ {c} -> EvmRow]
  BY <1>1
<1>3. QED
  BY <1>1, <1>2 DEF Listed

LEMMA DoneIsChecked ==
  ASSUME EvmIInv
  PROVE  /\ Done \in CheckerRecord /\ Checked(Done)
         /\ DOMAIN Done.rows = {}
<1>1. NoRows \in Listed /\ DOMAIN NoRows = {}
  <2>1. NoRows \in [{} -> EvmRow]
    BY DEF NoRows
  <2>2. QED
    BY <2>1 DEF Listed
<1>2. QED
  BY <1>1 DEF Done, CheckerRecord, Checked, EvmIInv, EvmTypeOK

(* A checker that drops a row of its list, the question about it answered   *)
(* or not.                                                                  *)
LEMMA UnlistedIsChecked ==
  ASSUME EvmIInv, NEW k \in Checkers, NEW c, checker[k].pc = "checking"
  PROVE  /\ Unlisted(k, c) \in CheckerRecord /\ Checked(Unlisted(k, c))
         /\ \A d \in DOMAIN Unlisted(k, c).rows :
              HasRow(d) /\ Streak(Unlisted(k, c).rows[d], d[1])
<1>1. PICK x \in CheckerRecord : x = checker[k] /\ Checked(x)
  BY DEF EvmIInv, EvmTypeOK, CheckedInv
<1>2. PICK left : left = [d \in DOMAIN x.rows \ {c} |-> x.rows[d]]
  OBVIOUS
<1>3. /\ left \in Listed /\ DOMAIN left \subseteq DOMAIN x.rows
      /\ \A d \in DOMAIN left : left[d] = x.rows[d]
  BY <1>2, EvmRowsLeft DEF CheckerRecord
<1>4. CASE DOMAIN x.rows = {c}
  BY <1>1, <1>4, DoneIsChecked DEF Unlisted
<1>5. CASE DOMAIN x.rows # {c}
  <2>1. PICK r : r = Unlisted(k, c)
    OBVIOUS
  <2>2. r = [x EXCEPT !.asked = {}, !.verdict = "none", !.rows = left]
    BY <1>1, <1>2, <1>5, <2>1 DEF Unlisted
  <2>3. r = [pc |-> x.pc, at |-> x.at, final |-> x.final, rows |-> left,
             asked |-> {}, verdict |-> "none"]
    BY <2>2 DEF CheckerRecord
  <2>4. r \in CheckerRecord
    BY <1>3, <2>3 DEF CheckerRecord
  <2>5. x # Done
    BY <1>1 DEF Done
  <2>6. Checked(r)
    BY <1>1, <2>3, <2>5 DEF Checked
  <2>7. \A d \in DOMAIN r.rows : HasRow(d) /\ Streak(r.rows[d], d[1])
    BY <1>1, <1>3, <2>3 DEF EvmIInv, SeenInv, StreakInv
  <2>8. QED
    BY <2>1, <2>4, <2>6, <2>7
<1>6. QED
  BY <1>4, <1>5

LEMMA ListRowsKeeps ==
  ASSUME EvmIInv, NEW k \in Checkers, ListRows(k)
  PROVE  EvmIInv'
<1>1. PICK rows : rows = [c \in Unresolved |-> evmCredit[c]]
  OBVIOUS
<1>2. /\ rows \in Listed /\ DOMAIN rows = Unresolved
      /\ \A c \in Unresolved : c \in Keys /\ rows[c] = evmCredit[c] /\ HasRow(c)
  <2>1. Unresolved \in SUBSET Keys /\ rows \in [Unresolved -> EvmRow]
    BY <1>1 DEF Unresolved, EvmIInv, EvmTypeOK
  <2>2. QED
    BY <1>1, <2>1 DEF Listed, Unresolved, Waiting, HasRow
<1>3. PICK r : r = [Done EXCEPT !.pc = "listed", !.at = head, !.rows = rows] /\ CheckerTo(k, r)
  BY <1>1 DEF ListRows
<1>4. r = [pc |-> "listed", at |-> head, final |-> 0, rows |-> rows, asked |-> {},
           verdict |-> "none"]
  BY <1>3 DEF Done
<1>5. r \in CheckerRecord
  BY <1>2, <1>4 DEF CheckerRecord, EvmIInv, EvmTypeOK
<1>6. Checked(r)
  BY <1>4 DEF Checked, EvmIInv, EvmTypeOK
<1>7. \A c \in DOMAIN r.rows : HasRow(c) /\ Streak(r.rows[c], c[1])
  BY <1>2, <1>4 DEF EvmIInv, StreakInv
<1>8. UNCHANGED <<chain, blockCursor, current, scanner, evmCredit>>
  BY DEF ListRows
<1>9. QED
  BY <1>3, <1>5, <1>6, <1>7, <1>8, SameCredits, CheckerMoves

LEMMA ReadFinalHeadKeeps ==
  ASSUME EvmIInv, NEW k \in Checkers, ReadFinalHead(k)
  PROVE  EvmIInv'
<1>1. PICK x \in CheckerRecord : x = checker[k] /\ Checked(x)
  BY DEF EvmIInv, EvmTypeOK, CheckedInv
<1>2. PICK r : r = [x EXCEPT !.pc = "checking", !.final = finalHead] /\ CheckerTo(k, r)
  BY <1>1 DEF ReadFinalHead
<1>3. x.pc = "listed" /\ x.asked = {} /\ x # Done
  BY <1>1 DEF ReadFinalHead, Checked, Done, CheckerRecord
<1>4. r = [pc |-> "checking", at |-> x.at, final |-> finalHead, rows |-> x.rows, asked |-> {},
           verdict |-> x.verdict]
  BY <1>2, <1>3 DEF CheckerRecord
<1>5. r \in CheckerRecord
  BY <1>4 DEF CheckerRecord, EvmIInv, EvmTypeOK
<1>6. Checked(r)
  BY <1>1, <1>3, <1>4 DEF Checked, EvmIInv, EvmTypeOK
<1>7. \A c \in DOMAIN r.rows : HasRow(c) /\ Streak(r.rows[c], c[1])
  BY <1>1, <1>4 DEF EvmIInv, SeenInv, StreakInv
<1>8. UNCHANGED <<chain, blockCursor, current, scanner, evmCredit>>
  BY DEF ReadFinalHead
<1>9. QED
  BY <1>2, <1>5, <1>6, <1>7, <1>8, SameCredits, CheckerMoves

(* The answer of a node about a row: what it says of a finalized block is   *)
(* final, and a miss that ends a streak of MinElapsed is a transaction that *)
(* is lost.                                                                 *)
LEMMA GetReceiptKeeps ==
  ASSUME EvmIInv, NEW k \in Checkers, NEW c \in Keys, GetReceipt(k, c)
  PROVE  EvmIInv'
<1>1. PICK x \in CheckerRecord : x = checker[k] /\ Checked(x)
  BY DEF EvmIInv, EvmTypeOK, CheckedInv
<1>2. PICK v : v = Verdict(place[c[1]], c, x.final)
  OBVIOUS
<1>3. PICK r : r = [x EXCEPT !.asked = {c}, !.verdict = v] /\ CheckerTo(k, r)
  BY <1>1, <1>2 DEF GetReceipt
<1>4. x.pc = "checking" /\ c \in DOMAIN x.rows /\ x # Done
  BY <1>1 DEF GetReceipt, Done
<1>5. r = [pc |-> "checking", at |-> x.at, final |-> x.final, rows |-> x.rows, asked |-> {c},
           verdict |-> v]
  BY <1>3, <1>4 DEF CheckerRecord
<1>6. r \in CheckerRecord
  BY <1>2, <1>5 DEF CheckerRecord, Verdict
<1>7. \A d \in DOMAIN r.rows : HasRow(d) /\ Streak(r.rows[d], d[1])
  BY <1>1, <1>5 DEF EvmIInv, SeenInv, StreakInv
<1>8. /\ head \in Nat /\ finalHead \in Nat /\ stall \in Nat /\ x.at \in Nat /\ x.final \in Nat
      /\ x.final <= finalHead /\ x.at <= head /\ head - x.at <= stall
  BY <1>1, <1>4 DEF EvmIInv, EvmTypeOK, CheckerRecord, Checked
<1>9. place[c[1]] \in Places \cup {Nowhere} /\ offSince[c[1]] \in Instant
  BY DEF EvmIInv, EvmTypeOK, Keys
<1>10. v # "none" /\ Final(c, v)
  BY <1>2, <1>8, <1>9 DEF Final, Verdict, Matches, On, Places, Nowhere
<1>11. ASSUME v = "missing"
       PROVE  /\ offSince[c[1]] # NoMiss
              /\ x.rows[c].missing # NoMiss /\ x.at - x.rows[c].missing >= MinElapsed =>
                   Lost(c[1])
  <2>1. place[c[1]] = Nowhere
    BY <1>2, <1>11 DEF Verdict
  <2>2. offSince[c[1]] # NoMiss
    BY <1>4, <1>5, <1>7, <2>1 DEF EvmIInv, SeenInv, Seen, Mined
  <2>3. x.rows[c] \in EvmRow /\ Streak(x.rows[c], c[1])
    BY <1>4, <1>5, <1>7, EvmRowsLeft DEF CheckerRecord
  <2>4. x.rows[c].missing \in Instant
    BY <2>3 DEF EvmRow
  <2>5. QED
    BY <1>8, <1>9, <2>1, <2>2, <2>3, <2>4 DEF Streak, Lost, Absence, Instant, NoMiss
<1>12. Checked(r)
  BY <1>1, <1>4, <1>5, <1>8, <1>10, <1>11 DEF Checked
<1>13. UNCHANGED <<chain, blockCursor, current, scanner, evmCredit>>
  BY DEF GetReceipt
<1>14. QED
  BY <1>3, <1>6, <1>7, <1>12, <1>13, SameCredits, CheckerMoves

(* A row is written with what is true of its transfer. *)
LEMMA JudgeKeeps ==
  ASSUME EvmIInv, NEW k \in Checkers, NEW c \in Keys, Judge(k, c)
  PROVE  EvmIInv'
<1>1. PICK x \in CheckerRecord : x = checker[k] /\ Checked(x)
  BY DEF EvmIInv, EvmTypeOK, CheckedInv
<1>2. x.asked = {c} /\ x.pc = "checking" /\ c \in DOMAIN x.rows /\ x # Done
  BY <1>1 DEF Judge, Checked, Done
<1>3. /\ HasRow(c) /\ x.rows[c] \in EvmRow /\ Streak(x.rows[c], c[1])
  BY <1>1, <1>2, EvmRowsLeft DEF EvmIInv, SeenInv, StreakInv, CheckerRecord
<1>4. CreditsKept
  <2>1. CASE c \notin Unresolved
    BY <2>1, SameCredits DEF Judge
  <2>2. CASE c \in Unresolved
    <3>1. PICK row : row = Judged(k, c) /\ evmCredit' = [evmCredit EXCEPT ![c] = row]
      BY <2>2 DEF Judge
    <3>2. Seen(c[1]) /\ evmCredit[c].state \in Waiting
      BY <1>3, <2>2 DEF EvmIInv, SeenInv, Unresolved
    <3>3. CASE x.verdict = "missing"
      <4>1. row = Missed(x.rows[c], evmCredit[c].state, x.at)
        BY <1>1, <3>1, <3>3 DEF Judged
      <4>2. /\ x.at \in Nat /\ head \in Nat /\ stall \in Nat /\ head - x.at <= stall
            /\ offSince[c[1]] \in Instant /\ offSince[c[1]] <= head
        BY <1>1, <1>2 DEF EvmIInv, EvmTypeOK, HeadsInv, CheckerRecord, Checked, Keys
      <4>3. /\ x.rows[c].attempts \in Int /\ x.rows[c].missing \in Instant
            /\ offSince[c[1]] # NoMiss
            /\ x.rows[c].missing # NoMiss /\ x.at - x.rows[c].missing >= MinElapsed =>
                 Lost(c[1])
        BY <1>1, <1>2, <1>3, <3>3 DEF Checked, EvmRow
      <4>4. PICK attempts \in Int, missing \in Nat :
              /\ missing = IF x.rows[c].missing = NoMiss THEN x.at ELSE x.rows[c].missing
              /\ row = [state |-> IF GivenUp(attempts, missing, x.at) THEN "REORGED"
                                  ELSE evmCredit[c].state,
                        attempts |-> attempts, missing |-> missing]
        <5>1. PICK attempts \in Int :
                attempts = IF x.rows[c].attempts < MinChecks THEN x.rows[c].attempts + 1
                           ELSE MinChecks
          BY <4>3
        <5>2. PICK missing \in Nat :
                missing = IF x.rows[c].missing = NoMiss THEN x.at ELSE x.rows[c].missing
          BY <4>2, <4>3 DEF Instant
        <5>3. QED
          BY <4>1, <5>1, <5>2 DEF Missed
      <4>5. row \in EvmRow /\ row.state # "ABSENT"
        BY <3>2, <4>4 DEF EvmRow, State, Instant, Waiting
      <4>6. Streak(row, c[1])
        BY <1>3, <4>2, <4>3, <4>4 DEF Streak, Instant, NoMiss
      <4>7. Final(c, row.state)
        <5>1. ASSUME row.state = "REORGED" PROVE Lost(c[1])
          <6>1. GivenUp(attempts, missing, x.at)
            BY <3>2, <4>4, <5>1 DEF Waiting
          <6>2. x.at - missing >= MinElapsed
            BY <6>1 DEF GivenUp
          <6>3. x.rows[c].missing # NoMiss /\ missing = x.rows[c].missing
            BY <4>2, <4>4, <6>2
          <6>4. QED
            BY <4>3, <6>2, <6>3
        <5>2. row.state \in Waiting \cup {"REORGED"}
          BY <3>2, <4>4
        <5>3. QED
          BY <5>1, <5>2 DEF Final, Waiting
      <4>8. QED
        BY <3>1, <3>2, <4>5, <4>6, <4>7, OneCredit
    <3>4. CASE x.verdict # "missing"
      <4>1. row = [state |-> x.verdict, attempts |-> 0, missing |-> NoMiss]
        BY <1>1, <3>1, <3>4 DEF Judged, Detected
      <4>2. Final(c, x.verdict) /\ x.verdict # "none"
        BY <1>1, <1>2 DEF Checked
      <4>3. row \in EvmRow /\ row.state # "ABSENT"
        BY <3>4, <4>1, <4>2 DEF CheckerRecord, EvmRow, State, Instant
      <4>4. Streak(row, c[1]) /\ Final(c, row.state)
        BY <4>1, <4>2 DEF Streak
      <4>5. QED
        BY <3>1, <3>2, <4>3, <4>4, OneCredit
    <3>5. QED
      BY <3>3, <3>4
  <2>3. QED
    BY <2>1, <2>2
<1>5. PICK r : r = Unlisted(k, c) /\ CheckerTo(k, r)
  BY DEF Judge
<1>6. /\ r \in CheckerRecord /\ Checked(r)
      /\ \A d \in DOMAIN r.rows : HasRow(d) /\ Streak(r.rows[d], d[1])
  BY <1>1, <1>2, <1>5, UnlistedIsChecked
<1>7. UNCHANGED <<chain, blockCursor, current, scanner>>
  BY DEF Judge
<1>8. QED
  BY <1>4, <1>5, <1>6, <1>7, CheckerMoves

LEMMA GiveUpsKeep ==
  ASSUME EvmIInv, NEW k \in Checkers, NEW c, ReceiptFails(k, c) \/ StopChecker(k)
  PROVE  EvmIInv'
<1>1. PICK r : /\ CheckerTo(k, r)
               /\ \/ r = Done
                  \/ r = Unlisted(k, c) /\ checker[k].pc = "checking"
  BY DEF ReceiptFails, StopChecker
<1>2. /\ r \in CheckerRecord /\ Checked(r)
      /\ \A d \in DOMAIN r.rows : HasRow(d) /\ Streak(r.rows[d], d[1])
  BY <1>1, DoneIsChecked, UnlistedIsChecked
<1>3. UNCHANGED <<chain, blockCursor, current, scanner, evmCredit>>
  BY DEF ReceiptFails, StopChecker
<1>4. QED
  BY <1>1, <1>2, <1>3, SameCredits, CheckerMoves

----------------------------------------------------------------------------
LEMMA NextEvmIInv == EvmIInv /\ [EvmNext]_evmVars => EvmIInv'
<1> SUFFICES ASSUME EvmIInv, [EvmNext]_evmVars PROVE EvmIInv'
  OBVIOUS
<1>1. CASE UNCHANGED evmVars
  <2>1. /\ UNCHANGED <<head, finalHead, place, offSince, reorgs, stall>>
        /\ UNCHANGED <<blockCursor, current, scanner, evmCredit, checker>>
    BY <1>1 DEF evmVars, chain
  <2>2. EvmTypeOK' /\ HeadsInv'
    BY <2>1 DEF EvmIInv, EvmTypeOK, HeadsInv
  <2>3. SeenInv'
    BY <2>1 DEF EvmIInv, SeenInv, HasRow, Seen, Mined
  <2>4. ScannedInv'
    BY <2>1 DEF EvmIInv, ScannedInv, Scanned, Stored, HasRow, On
  <2>5. StreakInv'
    BY <2>1 DEF EvmIInv, StreakInv, Streak
  <2>6. FinalInv'
    BY <2>1 DEF EvmIInv, FinalInv, Final, Lost, Absence, On
  <2>7. CheckedInv'
    BY <2>1 DEF EvmIInv, CheckedInv, Checked, Final, Lost, Absence, On
  <2>8. QED
    BY <2>2, <2>3, <2>4, <2>5, <2>6, <2>7 DEF EvmIInv
<1>2. CASE ChainStep
  BY <1>2, ChainStepIInv
<1>3. ASSUME NEW s \in Scanners,
             \/ ReadLatest(s) \/ ReadFinalized(s) \/ ReadCursor(s) \/ GetLogs(s)
             \/ \E c \in Keys : Persist(s, c)
             \/ MoveCursor(s) \/ StopScanner(s)
      PROVE  EvmIInv'
  BY <1>3, ReadsKeep, ReadCursorKeeps, GetLogsKeeps, PersistKeeps, MoveCursorKeeps
<1>4. ASSUME NEW k \in Checkers,
             \/ ListRows(k) \/ ReadFinalHead(k) \/ StopChecker(k)
             \/ \E c \in Keys : GetReceipt(k, c) \/ Judge(k, c) \/ ReceiptFails(k, c)
      PROVE  EvmIInv'
  BY <1>4, ListRowsKeeps, ReadFinalHeadKeeps, GetReceiptKeeps, JudgeKeeps, GiveUpsKeep
<1>5. QED
  BY <1>1, <1>2, <1>3, <1>4 DEF EvmNext, ChainStep

LEMMA SpecEvmIInv == EvmSpec => []EvmIInv
<1>1. EvmInit => EvmIInv
  BY InitEvmIInv
<1>2. EvmIInv /\ [EvmNext]_evmVars => EvmIInv'
  BY NextEvmIInv
<1>3. QED
  BY <1>1, <1>2, PTL DEF EvmSpec

(* No transfer is left behind the cursor, whatever is dropped and built     *)
(* anew, and whichever chunks and scanners fail (evm-ingest.ts,             *)
(* runEvmIngestTick).                                                       *)
THEOREM CursorLeavesNothingBehind == EvmSpec => []NothingBehindTheCursor
<1>1. ASSUME EvmIInv PROVE NothingBehindTheCursor
  <2>1. \A c \in Keys : HasRow(c) => evmCredit[c] # Absent
    BY DEF HasRow, Absent, Detected
  <2>2. QED
    BY <1>1, <2>1 DEF EvmIInv, ScannedInv, Stored, On, NothingBehindTheCursor
<1>2. QED
  BY <1>1, SpecEvmIInv, PTL

(* A row that is resolved says what became of its transfer (evm-finality.ts,*)
(* runEvmFinalityTick).                                                     *)
THEOREM ResolvedAsTheChainSays == EvmSpec => []ResolvedByTheChain
<1>1. ASSUME EvmIInv PROVE ResolvedByTheChain
  BY <1>1 DEF EvmIInv, FinalInv, Final, Lost, On, ResolvedByTheChain
<1>2. QED
  BY <1>1, SpecEvmIInv, PTL

----------------------------------------------------------------------------
(* Slots: who holds an address, and whose a payment is. *)
SlotStates     == {"NONE", "COMPLETED", "REJECTED", "EXPIRED"} \cup Live
TransferStates == {"NONE", "PENDING", "MATCHED", "UNMATCHED", "MANUAL_REVIEW"}
HeldPlaces     == Range(Addresses) \cup {NoAddress}

SlotRow == [user: Users \cup {Nobody}, status: SlotStates, address: HeldPlaces, amount: Nat,
            sender: Users \cup {Nobody}, created: Nat, expires: Nat]
TransferRow == [status: TransferStates, at: Nat, address: HeldPlaces, amount: Nat,
                from: Users \cup {Nobody}, to: Deposits \cup {NoDeposit},
                asked: Deposits \cup {NoDeposit}]
RequestRecord == [at: Nat, address: HeldPlaces, own: SUBSET Deposits]

SlotTyped ==
  /\ clock \in Nat
  /\ deposit \in [Deposits -> SlotRow]
  /\ payment \in [Payments -> TransferRow]
  /\ request \in [Users -> RequestRecord]
  /\ deciding \in {Nothing} \cup (Payments \X Deposits)

Opened(d) == deposit[d].status # "NONE"

(* No slot begins later than the instant after now, no payment is of later  *)
(* than now.                                                                *)
Begun ==
  /\ \A d \in Deposits : Opened(d) => deposit[d].amount \in Amounts /\ deposit[d].created <= clock + 1
  /\ \A p \in Payments : payment[p].at <= clock

(* What the holder of the advisory lock has read still holds, but for slots *)
(* that have ended since: nobody else has the address, all slots of its own *)
(* are in its list, and whoever paid to the address since was its user.     *)
ReadHolds(u, r) ==
  /\ r.at <= clock
  /\ \A v \in Users \ {u} : request[v] = NoRequest
  /\ \A d \in Deposits : Opened(d) => deposit[d].created <= r.at + 1
  /\ \A d \in r.own : Opened(d) /\ deposit[d].user = u /\ r.at <= deposit[d].expires
  /\ \A d \in Deposits :
       deposit[d].status = "AWAITING_PAYMENT" /\ deposit[d].user = u /\ r.at < deposit[d].expires
       => d \in r.own
  /\ \A d \in Deposits :
       deposit[d].status \in Live /\ deposit[d].address = r.address /\ deposit[d].user # u
       => deposit[d].expires + Gap <= r.at
  /\ \A p \in Payments :
       payment[p].asked # NoDeposit /\ payment[p].address = r.address /\ r.at < payment[p].at
       => deposit[payment[p].asked].user = u

LockHolds == \A u \in Users : request[u] # NoRequest => ReadHolds(u, request[u])

(* A slot of a user that outlives the beginning of their next one is not    *)
(* one that the next closes.                                                *)
Outlives(e, d) ==
  /\ Opened(d) /\ Opened(e) /\ deposit[e].user = deposit[d].user
  /\ deposit[e].created < deposit[d].created /\ deposit[d].created < deposit[e].expires

LeftOpen ==
  \A d, e \in Deposits :
    Outlives(e, d) => deposit[e].status # "AWAITING_PAYMENT" /\ \A u \in Users : e \notin request[u].own

(* Who pays to a slot pays as it says. *)
PaysAsAsked(t, d) ==
  /\ Opened(d) /\ t.address = deposit[d].address /\ deposit[d].created <= t.at
  /\ IF deposit[d].sender = Nobody THEN t.amount = deposit[d].amount ELSE t.from = deposit[d].sender

PaymentsAsAsked ==
  \A p \in Payments :
    /\ payment[p].asked # NoDeposit => PaysAsAsked(payment[p], payment[p].asked)
    /\ payment[p].asked = NoDeposit /\ payment[p].status # "NONE" =>
         payment[p].from = Nobody /\ payment[p].amount \in Strays

SameUser(p, d) == payment[p].asked # NoDeposit => deposit[d].user = deposit[payment[p].asked].user

CoveredByPayer == \A p \in Payments, d \in Deposits : Covers(d, p) => SameUser(p, d)

DecidedForPayer ==
  \A p \in Payments, d \in Deposits :
    deciding = <<p, d>> => SameUser(p, d) /\ Opened(d) /\ payment[p].status # "NONE"

CreditedForPayer ==
  \A p \in Payments : payment[p].to # NoDeposit => Opened(payment[p].to) /\ SameUser(p, payment[p].to)

SlotIInv ==
  /\ SlotTyped
  /\ Begun
  /\ LockHolds
  /\ OneUserPerAddress
  /\ LeftOpen
  /\ PaymentsAsAsked
  /\ CoveredByPayer
  /\ DecidedForPayer
  /\ CreditedForPayer

(* No stray is near an amount that is asked for. *)
StraysAreOff == \A n \in Strays, amount \in Amounts : ~Within(n, amount)

(* Under StraysAreOff: only what its user paid completes a slot. *)
PaidByUser(d) == \E q \in Payments : payment[q].to = d /\ payment[q].asked # NoDeposit

CompletedByUser == \A d \in Deposits : deposit[d].status = "COMPLETED" => PaidByUser(d)

DecidedOnPayers ==
  \A p \in Payments, d \in Deposits : deciding = <<p, d>> => payment[p].asked # NoDeposit

(* A payment in time that was left is one that nothing is credited for, or  *)
(* it met another slot of its user.                                         *)
Meets(t, d, e) ==
  /\ e # d /\ Opened(e) /\ deposit[e].user = deposit[d].user
  /\ deposit[e].address = deposit[d].address /\ deposit[e].created <= t.at
  /\ deposit[d].created <= deposit[e].created \/ Outlives(e, d)

HasReason(p, d) ==
  \/ payment[p].at >= deposit[d].expires
  \/ payment[p].amount \notin Creditable
  \/ deposit[d].user \in Affiliates
  \/ deposit[d].status \in {"REJECTED", "EXPIRED"}
  \/ PaidByUser(d)
  \/ \E e \in Deposits : Meets(payment[p], d, e)

Left == {"UNMATCHED", "MANUAL_REVIEW"}

LeftWithReason ==
  \A p \in Payments, d \in Deposits :
    payment[p].status \in Left /\ payment[p].asked = d => HasReason(p, d)

PaidIsMatched == \A p \in Payments : payment[p].to # NoDeposit => payment[p].status = "MATCHED"

LEMMA FirstRow ==
  ASSUME NEW rows \in SUBSET Nat, rows # {}
  PROVE  NextRow(rows) \in rows
<1>1. PICK i \in rows : \A j \in rows : ~(<<j, i>> \in OpToRel(<, Nat))
  BY NatLessThanWellFounded, WFMin
<1>2. ASSUME NEW j \in rows, ~(i <= j) PROVE FALSE
  <2>1. j \in Nat /\ i \in Nat
    OBVIOUS
  <2>2. j < i
    BY <1>2, <2>1
  <2>3. <<j, i>> \in OpToRel(<, Nat)
    BY <2>1, <2>2 DEF OpToRel
  <2>4. QED
    BY <1>1, <2>3
<1>3. QED
  BY <1>2 DEF NextRow

LEMMA SlotInitial == SlotInit => SlotIInv
<1>1. SUFFICES ASSUME SlotInit PROVE SlotIInv
  OBVIOUS
<1>2. \A d \in Deposits : deposit[d] = None
  BY <1>1 DEF SlotInit
<1>3. \A p \in Payments : payment[p] = Unpaid
  BY <1>1 DEF SlotInit
<1>4. \A d \in Deposits : deposit[d].status = "NONE"
  BY <1>2 DEF None
<1>5. \A p \in Payments : payment[p].to = NoDeposit /\ payment[p].asked = NoDeposit /\ payment[p].status = "NONE"
  BY <1>3 DEF Unpaid
<1>6. SlotTyped
  BY <1>1 DEF SlotInit, SlotTyped, None, Unpaid, NoRequest, SlotRow, TransferRow, RequestRecord,
              SlotStates, TransferStates, HeldPlaces
<1>7. LockHolds
  BY <1>1 DEF SlotInit, LockHolds
<1>8. Begun /\ OneUserPerAddress /\ LeftOpen
  BY <1>1, <1>3, <1>4 DEF Unpaid, SlotInit, Begun, OneUserPerAddress, LeftOpen, Outlives, Opened, Live
<1>9. PaymentsAsAsked /\ CoveredByPayer /\ CreditedForPayer
  BY <1>4, <1>5 DEF PaymentsAsAsked, CoveredByPayer, CreditedForPayer, Covers, SameUser
<1>10. DecidedForPayer
  BY <1>1 DEF SlotInit, DecidedForPayer, Nothing
<1>11. QED
  BY <1>6, <1>7, <1>8, <1>9, <1>10 DEF SlotIInv

----------------------------------------------------------------------------
(* Rows are resolved: no slot changes its terms, and none opens again.      *)
Settles(r, s) ==
  /\ s.user = r.user /\ s.status \in {r.status} \cup (SlotStates \ {"NONE", "AWAITING_PAYMENT"})
  /\ s.address = r.address /\ s.amount = r.amount /\ s.sender = r.sender
  /\ s.created = r.created /\ s.expires = r.expires
  /\ s.status # r.status => r.status \in Live

Resolves(t, s) ==
  /\ s.at = t.at /\ s.address = t.address /\ s.amount = t.amount /\ s.from = t.from
  /\ s.asked = t.asked
  /\ s.status # t.status => t.status = "PENDING" /\ s.status # "NONE"

Pays(p, d) ==
  /\ d # NoDeposit /\ deciding = <<p, d>>
  /\ payment[p].status = "PENDING" /\ payment'[p].status = "MATCHED"

Resolution ==
  /\ UNCHANGED <<clock, request>>
  /\ deciding' \in {deciding, Nothing}
  /\ deposit' \in [Deposits -> SlotRow] /\ payment' \in [Payments -> TransferRow]
  /\ \A d \in Deposits : Settles(deposit[d], deposit'[d])
  /\ \A p \in Payments :
       /\ Resolves(payment[p], payment'[p])
       /\ payment'[p].to # payment[p].to => Pays(p, payment'[p].to)
       /\ payment'[p].status # payment[p].status => payment'[p].status = "MATCHED" \/ Leave(p)
  /\ \A d \in Deposits :
       deposit'[d].status = "COMPLETED" /\ deposit[d].status # "COMPLETED" =>
         \E p \in Payments : deciding = <<p, d>> /\ payment'[p].to = d

LEMMA SettledRow ==
  ASSUME NEW r \in SlotRow, NEW s \in SlotRow, Settles(r, s)
  PROVE  /\ r.status # "NONE" <=> s.status # "NONE"
         /\ s.status \in Live => r.status \in Live
         /\ s.status = "AWAITING_PAYMENT" => r.status = "AWAITING_PAYMENT"
BY DEF Settles, SlotRow, SlotStates, Live

LEMMA ResolutionKeeps ==
  ASSUME SlotIInv, Resolution
  PROVE  SlotIInv'
<1>1. /\ SlotTyped /\ Begun /\ LockHolds /\ OneUserPerAddress /\ LeftOpen /\ PaymentsAsAsked
      /\ CoveredByPayer /\ DecidedForPayer /\ CreditedForPayer
  BY DEF SlotIInv
<1>2. UNCHANGED <<clock, request>> /\ deciding' \in {deciding, Nothing}
  BY DEF Resolution
<1>3. ASSUME NEW d \in Deposits
      PROVE  /\ deposit'[d].user = deposit[d].user /\ deposit'[d].address = deposit[d].address
             /\ deposit'[d].amount = deposit[d].amount /\ deposit'[d].sender = deposit[d].sender
             /\ deposit'[d].created = deposit[d].created /\ deposit'[d].expires = deposit[d].expires
             /\ Opened(d)' <=> Opened(d)
             /\ deposit'[d].status \in Live => deposit[d].status \in Live
             /\ deposit'[d].status = "AWAITING_PAYMENT" => deposit[d].status = "AWAITING_PAYMENT"
  <2>1. deposit[d] \in SlotRow /\ deposit'[d] \in SlotRow /\ Settles(deposit[d], deposit'[d])
    BY <1>1 DEF SlotTyped, Resolution
  <2>2. QED
    BY <2>1, SettledRow DEF Opened, Settles
<1>4. ASSUME NEW p \in Payments
      PROVE  /\ payment'[p].at = payment[p].at /\ payment'[p].address = payment[p].address
             /\ payment'[p].amount = payment[p].amount /\ payment'[p].from = payment[p].from
             /\ payment'[p].asked = payment[p].asked
             /\ payment[p].asked \in Deposits \cup {NoDeposit}
             /\ payment'[p].status = "NONE" <=> payment[p].status = "NONE"
             /\ payment'[p].to # payment[p].to =>
                  payment'[p].to # NoDeposit /\ deciding = <<p, payment'[p].to>>
             /\ payment'[p].to \in Deposits \cup {NoDeposit}
  <2>1. PICK t, s : t = payment[p] /\ s = payment'[p]
    OBVIOUS
  <2>2. /\ t \in TransferRow /\ s \in TransferRow /\ Resolves(t, s)
        /\ s.to # t.to => s.to # NoDeposit /\ deciding = <<p, s.to>>
    BY <1>1, <2>1 DEF SlotTyped, Resolution, Pays
  <2>3. /\ t.asked \in Deposits \cup {NoDeposit} /\ s.to \in Deposits \cup {NoDeposit}
        /\ s.status = "NONE" <=> t.status = "NONE"
    BY <2>2 DEF TransferRow, Resolves
  <2>4. QED
    BY <2>1, <2>2, <2>3 DEF Resolves
<1>5. SlotTyped'
  BY <1>1, <1>2 DEF SlotTyped, Resolution
<1>6. Begun'
  BY <1>1, <1>2, <1>3, <1>4 DEF Begun
<1>7. \A p \in Payments, d \in Deposits : SameUser(p, d) => SameUser(p, d)'
  BY <1>3, <1>4 DEF SameUser
<1>8. LockHolds'
  <2>1. SUFFICES ASSUME NEW u \in Users, request[u] # NoRequest PROVE ReadHolds(u, request[u])'
    BY <1>2 DEF LockHolds
  <2>2. PICK r : r = request[u] /\ ReadHolds(u, r) /\ r \in RequestRecord
    BY <1>1, <2>1 DEF LockHolds, SlotTyped
  <2>3. r.own \subseteq Deposits
    BY <2>2 DEF RequestRecord
  <2>4. /\ r.at <= clock' /\ \A v \in Users \ {u} : request'[v] = NoRequest
        /\ \A d \in Deposits : Opened(d)' => deposit'[d].created <= r.at + 1
    BY <1>2, <1>3, <2>2 DEF ReadHolds
  <2>5. \A d \in r.own : Opened(d)' /\ deposit'[d].user = u /\ r.at <= deposit'[d].expires
    BY <1>3, <2>2, <2>3 DEF ReadHolds
  <2>6. \A d \in Deposits :
          deposit'[d].status = "AWAITING_PAYMENT" /\ deposit'[d].user = u /\ r.at < deposit'[d].expires
          => d \in r.own
    BY <1>3, <2>2 DEF ReadHolds
  <2>7. \A d \in Deposits :
          deposit'[d].status \in Live /\ deposit'[d].address = r.address /\ deposit'[d].user # u
          => deposit'[d].expires + Gap <= r.at
    BY <1>3, <2>2 DEF ReadHolds
  <2>8. \A p \in Payments :
          payment'[p].asked # NoDeposit /\ payment'[p].address = r.address /\ r.at < payment'[p].at
          => deposit'[payment'[p].asked].user = u
    BY <1>3, <1>4, <2>2 DEF ReadHolds
  <2>9. request'[u] = r
    BY <1>2, <2>2
  <2>10. QED
    BY <2>4, <2>5, <2>6, <2>7, <2>8, <2>9 DEF ReadHolds
<1>9. OneUserPerAddress'
  BY <1>1, <1>3 DEF OneUserPerAddress
<1>10. LeftOpen'
  BY <1>1, <1>2, <1>3 DEF LeftOpen, Outlives
<1>11. PaymentsAsAsked'
  <2>1. SUFFICES ASSUME NEW p \in Payments
                 PROVE  /\ payment'[p].asked # NoDeposit => PaysAsAsked(payment[p], payment[p].asked)'
                        /\ payment'[p].asked = NoDeposit /\ payment'[p].status # "NONE" =>
                             payment'[p].from = Nobody /\ payment'[p].amount \in Strays
    BY DEF PaymentsAsAsked
  <2>2. ASSUME payment'[p].asked # NoDeposit PROVE PaysAsAsked(payment[p], payment[p].asked)'
    <3>1. PICK d \in Deposits : d = payment[p].asked /\ d = payment'[p].asked
      BY <1>4, <2>2
    <3>2. PaysAsAsked(payment[p], d)
      BY <1>1, <1>4, <2>2, <3>1 DEF PaymentsAsAsked
    <3>3. QED
      BY <1>3, <1>4, <3>1, <3>2 DEF PaysAsAsked
  <2>3. QED
    BY <1>1, <1>4, <2>2 DEF PaymentsAsAsked
<1>12. CoveredByPayer'
  <2>1. \A p \in Payments, d \in Deposits : Covers(d, p)' => Covers(d, p)
    BY <1>3, <1>4 DEF Covers
  <2>2. QED
    BY <1>1, <1>7, <2>1 DEF CoveredByPayer
<1>13. DecidedForPayer'
  <2>1. SUFFICES ASSUME NEW p \in Payments, NEW d \in Deposits, deciding' = <<p, d>>
                 PROVE  SameUser(p, d)' /\ Opened(d)' /\ payment'[p].status # "NONE"
    BY DEF DecidedForPayer
  <2>2. deciding = <<p, d>>
    BY <1>2, <2>1 DEF Nothing
  <2>3. QED
    BY <1>1, <1>3, <1>4, <1>7, <2>2 DEF DecidedForPayer
<1>14. CreditedForPayer'
  <2>1. SUFFICES ASSUME NEW p \in Payments, payment'[p].to # NoDeposit
                 PROVE  Opened(payment[p].to)' /\ SameUser(p, payment[p].to)'
    BY DEF CreditedForPayer
  <2>2. PICK d \in Deposits : d = payment'[p].to
    BY <1>4, <2>1
  <2>3. Opened(d) /\ SameUser(p, d)
    BY <1>1, <1>4, <2>1, <2>2 DEF CreditedForPayer, DecidedForPayer
  <2>4. Opened(d)' /\ SameUser(p, d)'
    BY <1>3, <1>7, <2>3
  <2>5. QED
    BY <2>2, <2>4 DEF Opened, SameUser
<1>15. QED
  BY <1>5, <1>6, <1>8, <1>9, <1>10, <1>11, <1>12, <1>13, <1>14 DEF SlotIInv

(* The steps that resolve. *)
LEMMA ClaimResolves ==
  ASSUME SlotTyped, NEW d \in Deposits, ClaimUtr(d) \/ Reject(d)
  PROVE  Resolution
<1>1. PICK status \in {"PENDING_CONFIRMATION", "REJECTED"} :
        /\ deposit[d].status \in Live /\ status # "COMPLETED"
        /\ deposit' = [deposit EXCEPT ![d].status = status]
        /\ UNCHANGED <<clock, payment, request, deciding>>
  BY DEF ClaimUtr, Reject, Live
<1>2. deposit \in [Deposits -> SlotRow] /\ payment \in [Payments -> TransferRow]
  BY DEF SlotTyped
<1>3. /\ deposit' \in [Deposits -> SlotRow] /\ \A e \in Deposits : Settles(deposit[e], deposit'[e])
      /\ \A e \in Deposits : deposit'[e].status = "COMPLETED" => deposit[e].status = "COMPLETED"
  BY <1>1, <1>2 DEF SlotRow, SlotStates, Live, Settles
<1>4. QED
  BY <1>1, <1>2, <1>3 DEF Resolution, Resolves

LEMMA ExpireResolves ==
  ASSUME SlotTyped, Expire
  PROVE  Resolution
<1>1. PICK stale : stale = {d \in Deposits : /\ deposit[d].status = "AWAITING_PAYMENT"
                                             /\ deposit[d].expires < clock - Quarantine}
  OBVIOUS
<1>2. /\ deposit' = [d \in Deposits |->
           IF d \in stale THEN [deposit[d] EXCEPT !.status = "EXPIRED"] ELSE deposit[d]]
      /\ UNCHANGED <<clock, payment, request, deciding>>
  BY <1>1 DEF Expire
<1>3. deposit \in [Deposits -> SlotRow] /\ payment \in [Payments -> TransferRow]
  BY DEF SlotTyped
<1>4. \A d \in stale : d \in Deposits /\ deposit[d].status \in Live
  BY <1>1 DEF Live
<1>5. ASSUME NEW d \in Deposits
      PROVE  /\ deposit'[d] \in SlotRow /\ Settles(deposit[d], deposit'[d])
             /\ deposit'[d].status = "COMPLETED" => deposit[d].status = "COMPLETED"
  <2>1. deposit[d] \in SlotRow
    BY <1>3
  <2>2. CASE d \in stale
    BY <1>2, <1>4, <2>1, <2>2 DEF SlotRow, SlotStates, Settles
  <2>3. CASE d \notin stale
    BY <1>2, <2>1, <2>3 DEF Settles
  <2>4. QED
    BY <2>2, <2>3
<1>6. deposit' \in [Deposits -> SlotRow]
  BY <1>2, <1>5
<1>7. QED
  BY <1>2, <1>3, <1>5, <1>6 DEF Resolution, Resolves

LEMMA LeaveResolves ==
  ASSUME SlotTyped, NEW p \in Payments, Leave(p)
  PROVE  Resolution
<1>1. PICK status \in {"UNMATCHED", "MANUAL_REVIEW"} :
        /\ payment[p].status = "PENDING"
        /\ payment' = [payment EXCEPT ![p].status = status]
        /\ UNCHANGED <<clock, deposit, request, deciding>>
  BY DEF Leave
<1>2. deposit \in [Deposits -> SlotRow] /\ payment \in [Payments -> TransferRow]
  BY DEF SlotTyped
<1>3. /\ payment' \in [Payments -> TransferRow]
      /\ \A q \in Payments : Resolves(payment[q], payment'[q]) /\ payment'[q].to = payment[q].to
      /\ \A q \in Payments : payment'[q].status # payment[q].status => q = p
  BY <1>1, <1>2 DEF TransferRow, TransferStates, Resolves
<1>4. QED
  BY <1>1, <1>2, <1>3 DEF Resolution, Settles

LEMMA CreditResolves ==
  ASSUME SlotTyped, NEW p \in Payments, NEW d \in Deposits, Credit(p, d)
  PROVE  Resolution
<1>1. /\ deciding = <<p, d>> /\ deciding' = Nothing
      /\ UNCHANGED <<clock, request>>
      /\ deposit \in [Deposits -> SlotRow] /\ payment \in [Payments -> TransferRow]
  BY DEF Credit, SlotTyped
<1>2. CASE deposit[d].status \in Live /\ payment[p].status = "PENDING"
  <2>1. deposit' = [deposit EXCEPT ![d].status = "COMPLETED"]
        /\ payment' = [payment EXCEPT ![p].status = "MATCHED", ![p].to = d]
    BY <1>2 DEF Credit
  <2>2. /\ deposit' \in [Deposits -> SlotRow] /\ \A e \in Deposits : Settles(deposit[e], deposit'[e])
        /\ \A e \in Deposits : deposit'[e].status = "COMPLETED" => deposit[e].status = "COMPLETED" \/ e = d
    BY <1>1, <1>2, <2>1 DEF SlotRow, SlotStates, Settles
  <2>3. payment' = [payment EXCEPT ![p] = [payment[p] EXCEPT !.status = "MATCHED", !.to = d]]
    BY <1>1, <2>1
  <2>4. PICK t : t = [payment[p] EXCEPT !.status = "MATCHED", !.to = d]
    OBVIOUS
  <2>5. t \in TransferRow /\ Resolves(payment[p], t) /\ t.to = d /\ t.status = "MATCHED"
    BY <1>1, <1>2, <2>4 DEF TransferRow, TransferStates, Resolves
  <2>6. \A q \in Payments : payment'[q] = IF q = p THEN t ELSE payment[q]
    BY <1>1, <2>3, <2>4
  <2>7. payment' \in [Payments -> TransferRow]
    BY <1>1, <2>3, <2>4, <2>5
  <2>8. d # NoDeposit
    BY SlotAssumption
  <2>9. \A q \in Payments :
          /\ Resolves(payment[q], payment'[q])
          /\ payment'[q].to # payment[q].to => Pays(q, payment'[q].to)
          /\ payment'[q].status # payment[q].status => payment'[q].status = "MATCHED"
    BY <1>1, <1>2, <2>5, <2>6, <2>8 DEF Resolves, Pays
  <2>10. payment'[p].to = d
    BY <2>5, <2>6
  <2>11. QED
    BY <1>1, <2>2, <2>7, <2>9, <2>10 DEF Resolution
<1>3. CASE ~(deposit[d].status \in Live /\ payment[p].status = "PENDING")
  <2>1. UNCHANGED <<deposit, payment>>
    BY <1>3 DEF Credit
  <2>2. QED
    BY <1>1, <2>1 DEF Resolution, Settles, Resolves
<1>4. QED
  BY <1>2, <1>3

----------------------------------------------------------------------------
(* Time passes, payments arrive, the matcher decides. *)
LEMMA TimePassesKeeps ==
  ASSUME SlotIInv, TimePasses
  PROVE  SlotIInv'
<1>1. /\ SlotTyped /\ Begun /\ LockHolds /\ OneUserPerAddress /\ LeftOpen /\ PaymentsAsAsked
      /\ CoveredByPayer /\ DecidedForPayer /\ CreditedForPayer
  BY DEF SlotIInv
<1>2. clock' = clock + 1 /\ UNCHANGED <<deposit, payment, request, deciding, meddling>>
  BY DEF TimePasses
<1>3. SlotTyped'
  BY <1>1, <1>2 DEF SlotTyped
<1>4. Begun'
  <2>1. /\ \A d \in Deposits : deposit[d].created \in Nat
        /\ \A p \in Payments : payment[p].at \in Nat
    BY <1>1 DEF SlotTyped, SlotRow, TransferRow
  <2>2. QED
    BY <1>1, <1>2, <2>1 DEF Begun, Opened, SlotTyped
<1>5. LockHolds'
  <2>1. SUFFICES ASSUME NEW u \in Users, request[u] # NoRequest PROVE ReadHolds(u, request[u])'
    BY <1>2 DEF LockHolds
  <2>2. PICK r : r = request[u] /\ ReadHolds(u, r) /\ r.at \in Nat
    BY <1>1, <2>1 DEF LockHolds, SlotTyped, RequestRecord
  <2>3. r.at <= clock'
    BY <1>1, <1>2, <2>2 DEF ReadHolds, SlotTyped
  <2>4. QED
    BY <1>2, <2>2, <2>3 DEF ReadHolds, Opened
<1>6. OneUserPerAddress' /\ LeftOpen' /\ PaymentsAsAsked'
  BY <1>1, <1>2 DEF OneUserPerAddress, LeftOpen, Outlives, Opened, PaymentsAsAsked, PaysAsAsked
<1>7. CoveredByPayer' /\ DecidedForPayer' /\ CreditedForPayer'
  BY <1>1, <1>2 DEF CoveredByPayer, DecidedForPayer, CreditedForPayer, Covers, SameUser, Opened
<1>8. QED
  BY <1>3, <1>4, <1>5, <1>6, <1>7 DEF SlotIInv

(* One new payment, now; if a live slot asked for it, it is in the slot's   *)
(* window or up to Gap late, and as it says.                                *)
Arrival(p, t) ==
  /\ payment[p] = Unpaid /\ payment' = [payment EXCEPT ![p] = t]
  /\ UNCHANGED <<clock, deposit, request, deciding, meddling>>
  /\ t \in TransferRow /\ t.status = "PENDING" /\ t.at = clock /\ t.to = NoDeposit
  /\ IF t.asked = NoDeposit THEN t.from = Nobody /\ t.amount \in Strays
     ELSE /\ deposit[t.asked].status \in Live /\ PaysAsAsked(t, t.asked)
          /\ t.at < deposit[t.asked].expires + Gap

LEMMA ArrivalKeeps ==
  ASSUME SlotIInv, NEW p \in Payments, NEW t, Arrival(p, t)
  PROVE  SlotIInv'
<1>1. /\ SlotTyped /\ Begun /\ LockHolds /\ OneUserPerAddress /\ LeftOpen /\ PaymentsAsAsked
      /\ CoveredByPayer /\ DecidedForPayer /\ CreditedForPayer
  BY DEF SlotIInv
<1>2. /\ payment[p] = Unpaid
      /\ UNCHANGED <<clock, deposit, request, deciding>>
      /\ t \in TransferRow /\ t.status = "PENDING" /\ t.at = clock /\ t.to = NoDeposit
      /\ payment' = [payment EXCEPT ![p] = t]
  BY DEF Arrival
<1>3. /\ payment'[p] = t /\ payment[p].status = "NONE"
      /\ \A q \in Payments \ {p} : payment'[q] = payment[q]
  BY <1>1, <1>2 DEF SlotTyped, Unpaid
<1>4. SlotTyped'
  BY <1>1, <1>2 DEF SlotTyped
<1>5. Begun' /\ OneUserPerAddress' /\ LeftOpen'
  BY <1>1, <1>2, <1>3 DEF SlotTyped, Begun, OneUserPerAddress, LeftOpen, Outlives, Opened
<1>6. ASSUME t.asked # NoDeposit
      PROVE  /\ t.asked \in Deposits /\ deposit[t.asked].status \in Live /\ PaysAsAsked(t, t.asked)
             /\ t.at < deposit[t.asked].expires + Gap
  BY <1>2, <1>6 DEF Arrival, TransferRow
<1>7. \A d \in Deposits : /\ deposit[d].created \in Nat /\ deposit[d].expires \in Nat
  BY <1>1 DEF SlotTyped, SlotRow
<1>8. Gap \in Nat /\ clock \in Nat
  BY <1>1, SlotAssumption DEF SlotTyped
<1>9. LockHolds'
  <2>1. SUFFICES ASSUME NEW u \in Users, request[u] # NoRequest PROVE ReadHolds(u, request[u])'
    BY <1>2 DEF LockHolds
  <2>2. PICK r : r = request[u] /\ ReadHolds(u, r) /\ r.at \in Nat
    BY <1>1, <2>1 DEF LockHolds, SlotTyped, RequestRecord
  <2>3. ASSUME t.asked # NoDeposit, t.address = r.address, r.at < t.at
        PROVE  deposit[t.asked].user = u
    <3>1. PICK d \in Deposits : d = t.asked
      BY <1>6, <2>3
    <3>2. SUFFICES ASSUME deposit[d].user # u PROVE FALSE
      BY <3>1
    <3>3. deposit[d].status \in Live /\ deposit[d].address = r.address
      BY <1>6, <2>3, <3>1 DEF PaysAsAsked
    <3>4. deposit[d].expires + Gap <= r.at
      BY <2>2, <3>2, <3>3 DEF ReadHolds
    <3>5. t.at < deposit[d].expires + Gap
      BY <1>6, <2>3, <3>1
    <3>6. QED
      BY <1>2, <1>7, <1>8, <2>2, <2>3, <3>4, <3>5
  <2>4. \A q \in Payments :
          payment'[q].asked # NoDeposit /\ payment'[q].address = r.address /\ r.at < payment'[q].at
          => deposit[payment'[q].asked].user = u
    <3>1. ASSUME NEW q \in Payments, payment'[q].asked # NoDeposit,
                 payment'[q].address = r.address, r.at < payment'[q].at
          PROVE  deposit[payment'[q].asked].user = u
      <4>1. CASE q = p
        BY <1>3, <2>3, <3>1, <4>1
      <4>2. CASE q # p
        BY <1>3, <2>2, <3>1, <4>2 DEF ReadHolds
      <4>3. QED
        BY <4>1, <4>2
    <3>2. QED
      BY <3>1
  <2>5. QED
    BY <1>2, <2>2, <2>4 DEF ReadHolds, Opened
<1>10. PaymentsAsAsked'
  <2>1. SUFFICES ASSUME NEW q \in Payments
                 PROVE  /\ payment'[q].asked # NoDeposit => PaysAsAsked(payment[q], payment[q].asked)'
                        /\ payment'[q].asked = NoDeposit /\ payment'[q].status # "NONE" =>
                             payment'[q].from = Nobody /\ payment'[q].amount \in Strays
    BY DEF PaymentsAsAsked
  <2>2. CASE q = p
    <3>1. t.asked # NoDeposit => PaysAsAsked(t, t.asked)'
      BY <1>2, <1>6 DEF PaysAsAsked, Opened
    <3>2. t.asked = NoDeposit => t.from = Nobody /\ t.amount \in Strays
      BY DEF Arrival
    <3>3. QED
      BY <1>3, <2>2, <3>1, <3>2 DEF PaysAsAsked
  <2>3. CASE q # p
    BY <1>1, <1>2, <1>3, <2>3 DEF PaymentsAsAsked, PaysAsAsked, Opened
  <2>4. QED
    BY <2>2, <2>3
<1>11. ASSUME NEW q \in Payments \ {p}, NEW d, SameUser(q, d) PROVE SameUser(q, d)'
  BY <1>2, <1>3, <1>11 DEF SameUser
<1>12. CoveredByPayer'
  <2>1. SUFFICES ASSUME NEW q \in Payments, NEW d \in Deposits, Covers(d, q)'
                 PROVE  SameUser(q, d)'
    BY DEF CoveredByPayer
  <2>2. CASE q # p
    <3>1. Covers(d, q)
      BY <1>2, <1>3, <2>1, <2>2 DEF Covers
    <3>2. QED
      BY <1>1, <1>11, <2>2, <3>1 DEF CoveredByPayer
  <2>3. CASE q = p
    <3>1. /\ deposit[d].status \in Live /\ deposit[d].address = t.address
          /\ deposit[d].created <= t.at /\ t.at < deposit[d].expires
      BY <1>2, <1>3, <2>1, <2>3 DEF Covers
    <3>2. SUFFICES ASSUME t.asked # NoDeposit PROVE deposit[d].user = deposit[t.asked].user
      BY <1>2, <1>3, <2>3 DEF SameUser
    <3>3. PICK e \in Deposits : e = t.asked
      BY <1>6, <3>2
    <3>4. /\ deposit[e].status \in Live /\ deposit[e].address = t.address
          /\ deposit[e].created <= t.at /\ t.at < deposit[e].expires + Gap
      BY <1>6, <3>2, <3>3 DEF PaysAsAsked
    <3>5. SUFFICES ASSUME deposit[d].user # deposit[e].user PROVE FALSE
      BY <3>3
    <3>6. \/ deposit[d].expires + Gap < deposit[e].created
          \/ deposit[e].expires + Gap < deposit[d].created
      BY <1>1, <3>1, <3>4, <3>5 DEF OneUserPerAddress
    <3>7. QED
      BY <1>2, <1>7, <1>8, <3>1, <3>4, <3>6
  <2>4. QED
    BY <2>2, <2>3
<1>13. DecidedForPayer'
  <2>1. SUFFICES ASSUME NEW q \in Payments, NEW d \in Deposits, deciding = <<q, d>>
                 PROVE  SameUser(q, d)' /\ Opened(d)' /\ payment'[q].status # "NONE"
    BY <1>2 DEF DecidedForPayer
  <2>2. SameUser(q, d) /\ Opened(d) /\ payment[q].status # "NONE"
    BY <1>1, <2>1 DEF DecidedForPayer
  <2>3. q # p
    BY <1>3, <2>2
  <2>4. QED
    BY <1>2, <1>3, <1>11, <2>2, <2>3 DEF Opened
<1>14. CreditedForPayer'
  <2>1. SUFFICES ASSUME NEW q \in Payments, payment'[q].to # NoDeposit
                 PROVE  Opened(payment[q].to)' /\ SameUser(q, payment[q].to)'
    BY DEF CreditedForPayer
  <2>2. q # p
    BY <1>2, <1>3, <2>1
  <2>3. payment'[q] = payment[q] /\ Opened(payment[q].to) /\ SameUser(q, payment[q].to)
    BY <1>1, <1>3, <2>1, <2>2 DEF CreditedForPayer
  <2>4. QED
    BY <1>2, <2>3 DEF Opened, SameUser
<1>15. QED
  BY <1>4, <1>5, <1>9, <1>10, <1>12, <1>13, <1>14 DEF SlotIInv

(* Users who pay, and strays, arrive. *)
LEMMA UnsentIsUnpaid ==
  ASSUME Unsent # {}, NEW p, p = NextRow(Unsent)
  PROVE  p \in Payments /\ payment[p] = Unpaid
<1>1. Unsent \in SUBSET Nat
  BY SlotAssumption DEF Unsent
<1>2. p \in Unsent
  BY <1>1, FirstRow
<1>3. QED
  BY <1>2 DEF Unsent

LEMMA PayArrives ==
  ASSUME SlotIInv, NEW p \in Payments, NEW d \in Deposits, Pay(p, d)
  PROVE  \E t : Arrival(p, t)
<1>1. /\ deposit[d] \in SlotRow /\ clock \in Nat
      /\ Unsent # {} /\ deposit[d].status \in Live
      /\ deposit[d].created <= clock /\ clock < deposit[d].expires + Gap
  BY DEF Pay, SlotIInv, SlotTyped
<1>2. PICK amount, from :
        /\ Arrives(p, deposit[d].address, amount, from, d)
        /\ amount \in Nat /\ from \in Users \cup {Nobody}
        /\ IF deposit[d].sender = Nobody THEN amount = deposit[d].amount ELSE from = deposit[d].sender
  <2>1. CASE deposit[d].sender = Nobody
    BY <1>1, <2>1 DEF Pay, SlotRow
  <2>2. CASE deposit[d].sender # Nobody
    <3>1. PICK n \in Strays : Arrives(p, deposit[d].address, n, deposit[d].sender, d)
      BY <2>2 DEF Pay
    <3>2. n \in Nat /\ deposit[d].sender \in Users \cup {Nobody}
      BY <1>1, SlotAssumption DEF SlotRow
    <3>3. QED
      BY <2>2, <3>1, <3>2
  <2>3. QED
    BY <2>1, <2>2
<1>3. PICK t : t = [status |-> "PENDING", at |-> clock, address |-> deposit[d].address, amount |-> amount,
                    from |-> from, to |-> NoDeposit, asked |-> d]
  OBVIOUS
<1>4. p = NextRow(Unsent) /\ payment' = [payment EXCEPT ![p] = t]
      /\ UNCHANGED <<clock, deposit, request, deciding, meddling>>
  BY <1>2, <1>3 DEF Arrives
<1>5. payment[p] = Unpaid
  BY <1>1, <1>4, UnsentIsUnpaid
<1>6. deposit[d].address \in HeldPlaces
  BY <1>1 DEF SlotRow
<1>7. t \in TransferRow
  BY <1>1, <1>2, <1>3, <1>6 DEF TransferRow, TransferStates
<1>8. t.asked = d /\ t.at = clock /\ t.address = deposit[d].address /\ t.amount = amount /\ t.from = from
      /\ t.to = NoDeposit /\ t.status = "PENDING"
  BY <1>3
<1>9. PaysAsAsked(t, d)
  BY <1>1, <1>2, <1>8 DEF PaysAsAsked, Opened, Live
<1>10. d # NoDeposit
  BY SlotAssumption
<1>11. Arrival(p, t)
  BY <1>1, <1>4, <1>5, <1>7, <1>8, <1>9, <1>10 DEF Arrival
<1>12. QED
  BY <1>11

LEMMA StrayArrives ==
  ASSUME SlotIInv, NEW p \in Payments, Stray(p)
  PROVE  \E t : Arrival(p, t)
<1>1. clock \in Nat /\ Unsent # {}
  BY DEF Stray, SlotIInv, SlotTyped
<1>2. PICK a \in Range(Addresses), n \in Strays : Arrives(p, a, n, Nobody, NoDeposit)
  BY DEF Stray
<1>3. PICK t : t = [status |-> "PENDING", at |-> clock, address |-> a, amount |-> n,
                    from |-> Nobody, to |-> NoDeposit, asked |-> NoDeposit]
  OBVIOUS
<1>4. p = NextRow(Unsent) /\ payment' = [payment EXCEPT ![p] = t]
      /\ UNCHANGED <<clock, deposit, request, deciding, meddling>>
  BY <1>2, <1>3 DEF Arrives
<1>5. payment[p] = Unpaid
  BY <1>1, <1>4, UnsentIsUnpaid
<1>6. n \in Nat
  BY <1>2, SlotAssumption
<1>7. t \in TransferRow
  BY <1>1, <1>2, <1>3, <1>6 DEF TransferRow, TransferStates, HeldPlaces
<1>8. Arrival(p, t)
  BY <1>2, <1>3, <1>4, <1>5, <1>7 DEF Arrival
<1>9. QED
  BY <1>8

LEMMA DecideKeeps ==
  ASSUME SlotIInv, NEW p \in Payments, NEW d \in Deposits, Decide(p, d)
  PROVE  SlotIInv'
<1>1. /\ SlotTyped /\ Begun /\ LockHolds /\ OneUserPerAddress /\ LeftOpen /\ PaymentsAsAsked
      /\ CoveredByPayer /\ DecidedForPayer /\ CreditedForPayer
  BY DEF SlotIInv
<1>2. /\ payment[p].status = "PENDING" /\ SlotsOf(p) = {d} /\ deciding' = <<p, d>>
      /\ UNCHANGED <<clock, deposit, payment, request, meddling>>
  BY DEF Decide
<1>3. Covers(d, p)
  BY <1>2 DEF SlotsOf
<1>4. SameUser(p, d) /\ Opened(d)
  BY <1>1, <1>3 DEF CoveredByPayer, Covers, Opened, Live
<1>5. DecidedForPayer'
  <2>1. SUFFICES ASSUME NEW q \in Payments, NEW e \in Deposits, deciding' = <<q, e>>
                 PROVE  SameUser(q, e)' /\ Opened(e)' /\ payment'[q].status # "NONE"
    BY DEF DecidedForPayer
  <2>2. q = p /\ e = d
    BY <1>2, <2>1
  <2>3. QED
    BY <1>2, <1>4, <2>2 DEF SameUser, Opened
<1>6. SlotTyped'
  BY <1>1, <1>2 DEF SlotTyped
<1>7. Begun' /\ LockHolds' /\ OneUserPerAddress' /\ LeftOpen'
  BY <1>1, <1>2 DEF Begun, LockHolds, ReadHolds, OneUserPerAddress, LeftOpen, Outlives, Opened
<1>8. PaymentsAsAsked' /\ CoveredByPayer' /\ CreditedForPayer'
  BY <1>1, <1>2 DEF PaymentsAsAsked, PaysAsAsked, CoveredByPayer, CreditedForPayer, Covers, SameUser, Opened
<1>9. QED
  BY <1>5, <1>6, <1>7, <1>8 DEF SlotIInv

----------------------------------------------------------------------------
(* A request reads under the lock, and writes. *)
LEMMA FreeAddress ==
  ASSUME SlotTyped, NEW u \in Users, NEW when \in Nat, NEW a \in Available(u, when)
  PROVE  a \in HeldPlaces /\ a \notin Others(u, when)
<1>1. PICK own : own = {deposit[d].address : d \in Own(u, when)} \ Others(u, when)
  OBVIOUS
<1>2. PICK open : open = {i \in DOMAIN Addresses : Addresses[i] \notin Others(u, when)}
  OBVIOUS
<1>3. a \in IF own # {} THEN own
            ELSE {Addresses[i] : i \in {i \in open : \A j \in open : i <= j}}
  BY <1>1, <1>2 DEF Available
<1>4. CASE own # {}
  <2>1. PICK d \in Own(u, when) : a = deposit[d].address /\ a \notin Others(u, when)
    BY <1>1, <1>3, <1>4
  <2>2. QED
    BY <2>1 DEF Own, SlotTyped, SlotRow
<1>5. CASE own = {}
  <2>1. PICK i \in open : a = Addresses[i]
    BY <1>3, <1>5
  <2>2. QED
    BY <1>2, <2>1 DEF HeldPlaces, Range
<1>6. QED
  BY <1>4, <1>5

LEMMA AllocateKeeps ==
  ASSUME SlotIInv, NEW u \in Users, Allocate(u)
  PROVE  SlotIInv'
<1>1. /\ SlotTyped /\ Begun /\ LockHolds /\ OneUserPerAddress /\ LeftOpen /\ PaymentsAsAsked
      /\ CoveredByPayer /\ DecidedForPayer /\ CreditedForPayer
  BY DEF SlotIInv
<1>2. PICK a \in Available(u, clock) :
        request' = [request EXCEPT ![u] = [at |-> clock, address |-> a, own |-> Own(u, clock)]]
  BY DEF Allocate
<1>3. UNCHANGED <<clock, deposit, payment, deciding, meddling>> /\ \A v \in Users : request[v] = NoRequest
  BY DEF Allocate, LockFree
<1>4. clock \in Nat /\ request \in [Users -> RequestRecord] /\ Gap \in Nat \ {0}
  BY <1>1, SlotAssumption DEF SlotTyped
<1>5. a \in HeldPlaces /\ a \notin Others(u, clock)
  BY <1>1, <1>2, <1>4, FreeAddress
<1>6. PICK r : r = [at |-> clock, address |-> a, own |-> Own(u, clock)]
  OBVIOUS
<1>7. r \in RequestRecord /\ r.at = clock /\ r.address = a /\ r.own = Own(u, clock)
  BY <1>4, <1>5, <1>6 DEF RequestRecord, Own
<1>8. request' \in [Users -> RequestRecord] /\ request'[u] = r
      /\ \A v \in Users \ {u} : request'[v] = NoRequest
  BY <1>2, <1>3, <1>4, <1>6, <1>7
<1>9. \A d \in Deposits : deposit[d].created \in Nat /\ deposit[d].expires \in Nat
                          /\ deposit[d].status \in SlotStates
  BY <1>1 DEF SlotTyped, SlotRow
<1>10. SlotTyped'
  BY <1>1, <1>3, <1>8 DEF SlotTyped
<1>11. ReadHolds(u, r)'
  <2>1. /\ r.at <= clock' /\ \A v \in Users \ {u} : request'[v] = NoRequest
        /\ \A d \in Deposits : Opened(d) => deposit[d].created <= r.at + 1
    BY <1>1, <1>3, <1>4, <1>7, <1>8 DEF Begun
  <2>2. \A d \in r.own : Opened(d) /\ deposit[d].user = u /\ r.at <= deposit[d].expires
    BY <1>4, <1>7, <1>9 DEF Own, Opened
  <2>3. \A d \in Deposits :
          deposit[d].status = "AWAITING_PAYMENT" /\ deposit[d].user = u /\ r.at < deposit[d].expires
          => d \in r.own
    BY <1>4, <1>7, <1>9 DEF Own, Holds
  <2>4. ASSUME NEW d \in Deposits, deposit[d].status \in Live, deposit[d].address = r.address,
               deposit[d].user # u
        PROVE  deposit[d].expires + Gap <= r.at
    <3>1. ~Holds(d, clock)
      BY <1>5, <1>7, <2>4 DEF Others
    <3>2. ~(deposit[d].expires > clock - Gap)
      BY <2>4, <3>1 DEF Holds, Live
    <3>3. QED
      BY <1>4, <1>7, <1>9, <3>2
  <2>5. \A p \in Payments : ~(r.at < payment[p].at)
    <3>1. \A p \in Payments : payment[p].at \in Nat /\ payment[p].at <= clock
      BY <1>1 DEF Begun, SlotTyped, TransferRow
    <3>2. QED
      BY <1>4, <1>7, <3>1
  <2>6. QED
    BY <1>3, <2>1, <2>2, <2>3, <2>4, <2>5 DEF ReadHolds, Opened
<1>12. LockHolds'
  BY <1>8, <1>11 DEF LockHolds
<1>13. LeftOpen'
  <2>1. SUFFICES ASSUME NEW d \in Deposits, NEW e \in Deposits, Outlives(e, d)'
                 PROVE  deposit'[e].status # "AWAITING_PAYMENT" /\ \A v \in Users : e \notin request'[v].own
    BY DEF LeftOpen
  <2>2. deposit[e].status # "AWAITING_PAYMENT"
    BY <1>1, <1>3, <2>1 DEF LeftOpen, Outlives, Opened
  <2>3. e \notin r.own
    BY <1>7, <2>2 DEF Own
  <2>4. QED
    BY <1>3, <1>8, <2>2, <2>3 DEF NoRequest
<1>14. Begun' /\ OneUserPerAddress'
  BY <1>1, <1>3 DEF Begun, OneUserPerAddress, Opened
<1>15. PaymentsAsAsked' /\ CoveredByPayer' /\ DecidedForPayer' /\ CreditedForPayer'
  BY <1>1, <1>3 DEF PaymentsAsAsked, PaysAsAsked, CoveredByPayer, DecidedForPayer, CreditedForPayer,
                    Covers, SameUser, Opened
<1>16. QED
  BY <1>10, <1>12, <1>13, <1>14, <1>15 DEF SlotIInv

(* What the write of a request does to the rows: the new one begins the     *)
(* instant after the read, and those in its list end at the read.           *)
Written(u, r, n) ==
  /\ n \in Deposits /\ ~Opened(n) /\ deposit' \in [Deposits -> SlotRow]
  /\ deposit'[n].status = "AWAITING_PAYMENT"
  /\ Opened(n)' /\ deposit'[n].user = u /\ deposit'[n].address = r.address
  /\ deposit'[n].amount \in Amounts /\ deposit'[n].created = r.at + 1
  /\ \A e \in Deposits \ {n} :
       /\ deposit'[e].user = deposit[e].user /\ deposit'[e].status = deposit[e].status
       /\ deposit'[e].address = deposit[e].address /\ deposit'[e].amount = deposit[e].amount
       /\ deposit'[e].sender = deposit[e].sender /\ deposit'[e].created = deposit[e].created
       /\ deposit'[e].expires = IF e \in r.own THEN r.at ELSE deposit[e].expires
       /\ deposit'[e].expires <= deposit[e].expires

LEMMA OpenWrites ==
  ASSUME SlotIInv, NEW u \in Users, NEW amount \in Amounts, OpenSlot(u, amount)
  PROVE  \E n : Written(u, request[u], n)
<1>1. PICK r : r = request[u] /\ r # NoRequest /\ r \in RequestRecord /\ ReadHolds(u, r)
  BY DEF OpenSlot, SlotIInv, SlotTyped, LockHolds
<1>2. PICK n : n = NextRow(Unused) /\ n \in Unused
  <2>1. Unused \in SUBSET Nat /\ Unused # {}
    BY SlotAssumption DEF OpenSlot, Unused
  <2>2. QED
    BY <2>1, FirstRow
<1>3. n \in Deposits /\ ~Opened(n)
  BY <1>2 DEF Unused, Opened, None
<1>4. PICK new : new = [user |-> u, status |-> "AWAITING_PAYMENT", address |-> r.address,
                        amount |-> amount, sender |-> IF u \in Named THEN u ELSE Nobody,
                        created |-> r.at + 1, expires |-> r.at + Ttl]
  OBVIOUS
<1>5. deposit' = [e \in Deposits |->
                    IF e = n THEN new
                    ELSE IF e \in r.own THEN [deposit[e] EXCEPT !.expires = r.at]
                    ELSE deposit[e]]
  BY <1>1, <1>2, <1>4 DEF OpenSlot
<1>6. deposit \in [Deposits -> SlotRow] /\ r.at \in Nat /\ r.address \in HeldPlaces /\ r.own \subseteq Deposits
  BY <1>1 DEF SlotIInv, SlotTyped, RequestRecord
<1>7. new \in SlotRow
  <2>1. r.at + 1 \in Nat /\ r.at + Ttl \in Nat /\ amount \in Nat
    BY <1>6, SlotAssumption
  <2>2. QED
    BY <1>4, <1>6, <2>1 DEF SlotRow, SlotStates, Live
<1>8. ASSUME NEW e \in Deposits \ {n}
      PROVE  /\ deposit'[e] \in SlotRow
             /\ deposit'[e].user = deposit[e].user /\ deposit'[e].status = deposit[e].status
             /\ deposit'[e].address = deposit[e].address /\ deposit'[e].amount = deposit[e].amount
             /\ deposit'[e].sender = deposit[e].sender /\ deposit'[e].created = deposit[e].created
             /\ deposit'[e].expires = IF e \in r.own THEN r.at ELSE deposit[e].expires
             /\ deposit'[e].expires <= deposit[e].expires
  <2>1. PICK row : row = deposit[e] /\ row \in SlotRow
    BY <1>6
  <2>2. CASE e \in r.own
    <3>1. deposit'[e] = [row EXCEPT !.expires = r.at]
      BY <1>5, <2>1, <2>2
    <3>2. r.at <= row.expires
      BY <1>1, <2>1, <2>2 DEF ReadHolds
    <3>3. QED
      BY <1>6, <2>1, <2>2, <3>1, <3>2 DEF SlotRow
  <2>3. CASE e \notin r.own
    <3>1. deposit'[e] = row
      BY <1>5, <2>1, <2>3
    <3>2. QED
      BY <2>1, <2>3, <3>1 DEF SlotRow
  <2>4. QED
    BY <2>2, <2>3
<1>9. deposit'[n] = new
  BY <1>3, <1>5
<1>10. deposit' \in [Deposits -> SlotRow]
  BY <1>5, <1>7, <1>8, <1>9
<1>11. /\ deposit'[n].status = "AWAITING_PAYMENT"
       /\ Opened(n)' /\ deposit'[n].user = u /\ deposit'[n].address = r.address
       /\ deposit'[n].amount \in Amounts /\ deposit'[n].created = r.at + 1
  BY <1>4, <1>9 DEF Opened
<1>12. Written(u, r, n)
  BY <1>3, <1>8, <1>10, <1>11 DEF Written
<1>13. QED
  BY <1>1, <1>12

LEMMA OpenSlotKeeps ==
  ASSUME SlotIInv, NEW u \in Users, NEW amount \in Amounts, OpenSlot(u, amount)
  PROVE  SlotIInv'
<1>1. /\ SlotTyped /\ Begun /\ LockHolds /\ OneUserPerAddress /\ LeftOpen /\ PaymentsAsAsked
      /\ CoveredByPayer /\ DecidedForPayer /\ CreditedForPayer
  BY DEF SlotIInv
<1>2. PICK r, n : r = request[u] /\ Written(u, r, n)
  BY OpenWrites
<1>3. ReadHolds(u, r) /\ r \in RequestRecord
  BY <1>1, <1>2 DEF OpenSlot, LockHolds, SlotTyped
<1>4. UNCHANGED <<clock, payment, deciding, meddling>> /\ request' = [request EXCEPT ![u] = NoRequest]
  BY DEF OpenSlot
<1>5. \A v \in Users : request'[v] = NoRequest
  BY <1>1, <1>3, <1>4 DEF SlotTyped, ReadHolds
<1>6. r.at \in Nat /\ r.own \subseteq Deposits /\ clock \in Nat /\ Gap \in Nat
  BY <1>1, <1>3, SlotAssumption DEF RequestRecord, SlotTyped
<1>7. \A d \in Deposits : /\ deposit[d].created \in Nat /\ deposit[d].expires \in Nat
                          /\ deposit'[d].created \in Nat /\ deposit'[d].expires \in Nat
  BY <1>1, <1>2 DEF SlotTyped, SlotRow, Written
<1>8. /\ n \in Deposits /\ ~Opened(n) /\ Opened(n)' /\ deposit'[n].user = u
      /\ deposit'[n].address = r.address /\ deposit'[n].amount \in Amounts
      /\ deposit'[n].created = r.at + 1
  BY <1>2 DEF Written
<1>9. ASSUME NEW e \in Deposits \ {n}
      PROVE  /\ deposit'[e].user = deposit[e].user /\ deposit'[e].status = deposit[e].status
             /\ deposit'[e].address = deposit[e].address /\ deposit'[e].amount = deposit[e].amount
             /\ deposit'[e].sender = deposit[e].sender /\ deposit'[e].created = deposit[e].created
             /\ deposit'[e].expires = IF e \in r.own THEN r.at ELSE deposit[e].expires
             /\ deposit'[e].expires <= deposit[e].expires
             /\ Opened(e)' <=> Opened(e)
  BY <1>2 DEF Written, Opened
<1>10. SlotTyped'
  <2>1. NoRequest \in RequestRecord
    BY DEF NoRequest, RequestRecord, HeldPlaces
  <2>2. QED
    BY <1>1, <1>2, <1>4, <2>1 DEF SlotTyped, Written
<1>11. Begun'
  <2>1. ASSUME NEW d \in Deposits, Opened(d)'
        PROVE  deposit'[d].amount \in Amounts /\ deposit'[d].created <= clock + 1
    <3>1. CASE d = n
      BY <1>3, <1>6, <1>8, <3>1 DEF ReadHolds
    <3>2. CASE d # n
      BY <1>1, <1>9, <2>1, <3>2 DEF Begun
    <3>3. QED
      BY <3>1, <3>2
  <2>2. QED
    BY <1>1, <1>4, <2>1 DEF Begun
<1>12. LockHolds'
  BY <1>5 DEF LockHolds
<1>13. ASSUME NEW d \in Deposits, NEW e \in Deposits, d # n,
              deposit'[d].status \in Live, deposit'[e].status \in Live,
              deposit'[d].address = deposit'[e].address, deposit'[d].user # deposit'[e].user
       PROVE  \/ deposit'[d].expires + Gap < deposit'[e].created
              \/ deposit'[e].expires + Gap < deposit'[d].created
  <2>1. CASE e = n
    <3>1. deposit[d].status \in Live /\ deposit[d].address = r.address /\ deposit[d].user # u
      BY <1>8, <1>9, <1>13, <2>1
    <3>2. deposit[d].expires + Gap <= r.at
      BY <1>3, <3>1 DEF ReadHolds
    <3>3. deposit'[d].expires <= deposit[d].expires /\ deposit'[e].created = r.at + 1
      BY <1>8, <1>9, <1>13, <2>1
    <3>4. QED
      BY <1>6, <1>7, <3>2, <3>3
  <2>2. CASE e # n
    <3>1. \/ deposit[d].expires + Gap < deposit[e].created
          \/ deposit[e].expires + Gap < deposit[d].created
      BY <1>1, <1>9, <1>13, <2>2 DEF OneUserPerAddress
    <3>2. /\ deposit'[d].expires <= deposit[d].expires /\ deposit'[e].created = deposit[e].created
          /\ deposit'[e].expires <= deposit[e].expires /\ deposit'[d].created = deposit[d].created
      BY <1>9, <1>13, <2>2
    <3>3. QED
      BY <1>6, <1>7, <3>1, <3>2
  <2>3. QED
    BY <2>1, <2>2
<1>14. OneUserPerAddress'
  <2>1. SUFFICES ASSUME NEW d \in Deposits, NEW e \in Deposits,
                        deposit'[d].status \in Live, deposit'[e].status \in Live,
                        deposit'[d].address = deposit'[e].address, deposit'[d].user # deposit'[e].user
                 PROVE  \/ deposit'[d].expires + Gap < deposit'[e].created
                        \/ deposit'[e].expires + Gap < deposit'[d].created
    BY DEF OneUserPerAddress
  <2>2. CASE d # n
    BY <1>13, <2>1, <2>2
  <2>3. CASE d = n
    <3>1. e # n
      BY <2>1, <2>3
    <3>2. QED
      BY <1>13, <2>1, <3>1
  <2>4. QED
    BY <2>2, <2>3
<1>15. LeftOpen'
  <2>1. SUFFICES ASSUME NEW d \in Deposits, NEW e \in Deposits, Outlives(e, d)'
                 PROVE  deposit'[e].status # "AWAITING_PAYMENT"
    BY <1>5 DEF LeftOpen, NoRequest
  <2>2. /\ Opened(d)' /\ Opened(e)' /\ deposit'[e].user = deposit'[d].user
        /\ deposit'[e].created < deposit'[d].created /\ deposit'[d].created < deposit'[e].expires
    BY <2>1 DEF Outlives
  <2>3. e # n
    <3>1. SUFFICES ASSUME e = n PROVE FALSE
      OBVIOUS
    <3>2. d # n
      BY <1>7, <2>2, <3>1
    <3>3. deposit[d].created <= r.at + 1 /\ deposit'[d].created = deposit[d].created
      BY <1>3, <1>9, <2>2, <3>2 DEF ReadHolds
    <3>4. QED
      BY <1>6, <1>7, <1>8, <2>2, <3>1, <3>3
  <2>4. CASE d = n
    <3>1. SUFFICES ASSUME deposit[e].status = "AWAITING_PAYMENT" PROVE FALSE
      BY <1>9, <2>3
    <3>2. r.at < deposit'[e].expires
      BY <1>6, <1>7, <1>8, <2>2, <2>4
    <3>3. e \notin r.own
      BY <1>6, <1>9, <2>3, <3>2
    <3>4. r.at < deposit[e].expires /\ deposit[e].user = u
      BY <1>8, <1>9, <2>2, <2>3, <2>4, <3>2, <3>3
    <3>5. QED
      BY <1>3, <3>1, <3>3, <3>4 DEF ReadHolds
  <2>5. CASE d # n
    <3>1. deposit[d].created < deposit[e].expires
      BY <1>7, <1>9, <2>2, <2>3, <2>5
    <3>2. Outlives(e, d)
      BY <1>9, <2>2, <2>3, <2>5, <3>1 DEF Outlives
    <3>3. QED
      BY <1>1, <1>9, <2>3, <3>2 DEF LeftOpen
  <2>6. QED
    BY <2>4, <2>5
<1>16. ASSUME NEW p \in Payments, payment[p].asked # NoDeposit
       PROVE  payment[p].asked \in Deposits \ {n} /\ PaysAsAsked(payment[p], payment[p].asked)
  <2>1. payment[p].asked \in Deposits
    BY <1>1, <1>16 DEF SlotTyped, TransferRow
  <2>2. PaysAsAsked(payment[p], payment[p].asked)
    BY <1>1, <1>16 DEF PaymentsAsAsked
  <2>3. QED
    BY <1>8, <2>1, <2>2 DEF PaysAsAsked
<1>17. PaymentsAsAsked'
  BY <1>1, <1>4, <1>9, <1>16 DEF PaymentsAsAsked, PaysAsAsked
<1>18. ASSUME NEW p \in Payments, NEW d \in Deposits \ {n}, SameUser(p, d) PROVE SameUser(p, d)'
  BY <1>4, <1>9, <1>16, <1>18 DEF SameUser
<1>19. CoveredByPayer'
  <2>1. SUFFICES ASSUME NEW p \in Payments, NEW d \in Deposits, Covers(d, p)'
                 PROVE  SameUser(p, d)'
    BY DEF CoveredByPayer
  <2>2. /\ deposit'[d].status \in Live /\ deposit'[d].address = payment[p].address
        /\ deposit'[d].created <= payment[p].at /\ payment[p].at < deposit'[d].expires
        /\ deposit'[d].user \notin Affiliates
    BY <1>4, <2>1 DEF Covers
  <2>3. payment[p].at \in Nat
    BY <1>1 DEF SlotTyped, TransferRow
  <2>4. CASE d = n
    <3>1. SUFFICES ASSUME payment[p].asked # NoDeposit PROVE deposit'[d].user = deposit'[payment[p].asked].user
      BY <1>4 DEF SameUser
    <3>2. r.at < payment[p].at /\ payment[p].address = r.address
      BY <1>6, <1>8, <2>2, <2>3, <2>4
    <3>3. deposit[payment[p].asked].user = u
      BY <1>3, <3>1, <3>2 DEF ReadHolds
    <3>4. QED
      BY <1>8, <1>9, <1>16, <2>4, <3>1, <3>3
  <2>5. CASE d # n
    <3>1. payment[p].at < deposit[d].expires
      BY <1>7, <1>9, <2>2, <2>3, <2>5
    <3>2. Covers(d, p)
      BY <1>9, <2>2, <2>5, <3>1 DEF Covers
    <3>3. QED
      BY <1>1, <1>18, <2>5, <3>2 DEF CoveredByPayer
  <2>6. QED
    BY <2>4, <2>5
<1>20. DecidedForPayer'
  <2>1. SUFFICES ASSUME NEW p \in Payments, NEW d \in Deposits, deciding = <<p, d>>
                 PROVE  SameUser(p, d)' /\ Opened(d)' /\ payment[p].status # "NONE"
    BY <1>4 DEF DecidedForPayer
  <2>2. SameUser(p, d) /\ Opened(d) /\ payment[p].status # "NONE"
    BY <1>1, <2>1 DEF DecidedForPayer
  <2>3. d # n
    BY <1>8, <2>2
  <2>4. QED
    BY <1>9, <1>18, <2>2, <2>3
<1>21. CreditedForPayer'
  <2>1. SUFFICES ASSUME NEW p \in Payments, payment[p].to # NoDeposit
                 PROVE  Opened(payment[p].to)' /\ SameUser(p, payment[p].to)'
    BY <1>4 DEF CreditedForPayer
  <2>2. PICK d \in Deposits : d = payment[p].to
    BY <1>1, <2>1 DEF SlotTyped, TransferRow
  <2>3. SameUser(p, d) /\ Opened(d)
    BY <1>1, <2>1, <2>2 DEF CreditedForPayer
  <2>4. d # n
    BY <1>8, <2>3
  <2>5. SameUser(p, d)' /\ Opened(d)'
    BY <1>9, <1>18, <2>3, <2>4
  <2>6. QED
    BY <1>4, <2>2, <2>5 DEF Opened, SameUser
<1>22. QED
  BY <1>10, <1>11, <1>12, <1>14, <1>15, <1>17, <1>19, <1>20, <1>21 DEF SlotIInv

----------------------------------------------------------------------------
LEMMA SlotStep ==
  ASSUME SlotIInv, SlotNext
  PROVE  \/ TimePasses \/ Resolution
         \/ \E u \in Users : Allocate(u) \/ \E n \in Amounts : OpenSlot(u, n)
         \/ \E p \in Payments : (\E t : Arrival(p, t)) \/ \E d \in Deposits : Decide(p, d)
<1>1. SlotTyped
  BY DEF SlotIInv
<1>2. ASSUME NEW d \in Deposits, ClaimUtr(d) \/ Reject(d) PROVE Resolution
  BY <1>1, <1>2, ClaimResolves
<1>3. ASSUME NEW p \in Payments, Leave(p) PROVE Resolution
  BY <1>1, <1>3, LeaveResolves
<1>4. ASSUME NEW p \in Payments, NEW d \in Deposits, Credit(p, d) PROVE Resolution
  BY <1>1, <1>4, CreditResolves
<1>5. ASSUME NEW p \in Payments, NEW d \in Deposits, Pay(p, d) PROVE \E t : Arrival(p, t)
  BY <1>5, PayArrives
<1>6. ASSUME NEW p \in Payments, Stray(p) PROVE \E t : Arrival(p, t)
  BY <1>6, StrayArrives
<1>7. Expire => Resolution
  BY <1>1, ExpireResolves
<1>8. QED
  BY <1>2, <1>3, <1>4, <1>5, <1>6, <1>7 DEF SlotNext, Match

LEMMA SlotStands == SlotIInv /\ UNCHANGED slotVars => SlotIInv'
<1>1. SUFFICES ASSUME SlotIInv, UNCHANGED slotVars PROVE SlotIInv'
  OBVIOUS
<1>2. UNCHANGED <<clock, deposit, payment, request, deciding>>
  BY <1>1 DEF slotVars
<1>3. SlotTyped' /\ Begun' /\ LockHolds' /\ OneUserPerAddress' /\ LeftOpen'
  BY <1>1, <1>2 DEF SlotIInv, SlotTyped, Begun, LockHolds, ReadHolds, OneUserPerAddress, LeftOpen,
                    Outlives, Opened
<1>4. PaymentsAsAsked' /\ CoveredByPayer' /\ DecidedForPayer' /\ CreditedForPayer'
  BY <1>1, <1>2 DEF SlotIInv, PaymentsAsAsked, PaysAsAsked, CoveredByPayer, DecidedForPayer,
                    CreditedForPayer, Covers, SameUser, Opened
<1>5. QED
  BY <1>3, <1>4 DEF SlotIInv

LEMMA SlotNextKeeps == SlotIInv /\ [SlotNext]_slotVars => SlotIInv'
<1>1. SUFFICES ASSUME SlotIInv, SlotNext PROVE SlotIInv'
  BY SlotStands
<1>2. TimePasses => SlotIInv'
  BY <1>1, TimePassesKeeps
<1>3. Resolution => SlotIInv'
  BY <1>1, ResolutionKeeps
<1>4. ASSUME NEW u \in Users, Allocate(u) PROVE SlotIInv'
  BY <1>1, <1>4, AllocateKeeps
<1>5. ASSUME NEW u \in Users, NEW n \in Amounts, OpenSlot(u, n) PROVE SlotIInv'
  BY <1>1, <1>5, OpenSlotKeeps
<1>6. ASSUME NEW p \in Payments, NEW t, Arrival(p, t) PROVE SlotIInv'
  BY <1>1, <1>6, ArrivalKeeps
<1>7. ASSUME NEW p \in Payments, NEW d \in Deposits, Decide(p, d) PROVE SlotIInv'
  BY <1>1, <1>7, DecideKeeps
<1>8. QED
  BY <1>1, <1>2, <1>3, <1>4, <1>5, <1>6, <1>7, SlotStep

LEMMA SlotInvariant == SlotSpec => []SlotIInv
<1>1. QED
  BY SlotInitial, SlotNextKeeps, PTL DEF SlotSpec

(* For any number of users, addresses and slots, whatever is claimed,       *)
(* rejected or expires: no instant of an address, nor the Gap after it,     *)
(* belongs to live slots of two users (createUsdtSlotDepositIntent).        *)
THEOREM AddressHeldByOne == SlotSpec => []OneUserPerAddress
<1>1. SlotIInv => OneUserPerAddress
  BY DEF SlotIInv
<1>2. QED
  BY <1>1, SlotInvariant, PTL

(* A payment that a user was asked for is credited to that user if at all,  *)
(* however late the watcher gets to it and whatever happened to the slots   *)
(* since (matchSlotDeposit, creditDepositToAccount).                        *)
THEOREM PaymentGoesToItsPayer == SlotSpec => []CreditedToItsPayer
<1>1. SlotIInv => CreditedToItsPayer
  BY DEF SlotIInv, CreditedForPayer, SameUser, CreditedToItsPayer
<1>2. QED
  BY <1>1, SlotInvariant, PTL

----------------------------------------------------------------------------
(* What was paid in time. *)
LeftIInv == SlotIInv /\ PaidIsMatched /\ CompletedByUser /\ DecidedOnPayers /\ LeftWithReason

LEMMA WithinItself ==
  ASSUME NEW n \in Nat
  PROVE  Within(n, n)
BY DEF Within, Distance, Tolerance

(* Nobody but a payer meets a slot. *)
LEMMA OnlyPayersMeet ==
  ASSUME StraysAreOff, SlotIInv, NEW p \in Payments, NEW d \in Deposits, Covers(d, p),
         Acceptable(d, p), payment[p].status # "NONE"
  PROVE  payment[p].asked # NoDeposit
<1>1. SUFFICES ASSUME payment[p].asked = NoDeposit PROVE FALSE
  OBVIOUS
<1>2. payment[p].from = Nobody /\ payment[p].amount \in Strays
  BY <1>1 DEF SlotIInv, PaymentsAsAsked
<1>3. Opened(d)
  BY DEF Covers, Opened, Live
<1>4. deposit[d].amount \in Amounts
  BY <1>3 DEF SlotIInv, Begun
<1>5. ~Within(payment[p].amount, deposit[d].amount)
  BY <1>2, <1>4 DEF StraysAreOff
<1>6. QED
  BY <1>2, <1>5 DEF Acceptable

(* A slot accepts what its user paid, up to the maximum.                    *)
LEMMA AcceptsItsOwn ==
  ASSUME SlotIInv, NEW p \in Payments, NEW d \in Deposits, payment[p].asked = d,
         payment[p].amount \in Creditable
  PROVE  Acceptable(d, p)
<1>1. PaysAsAsked(payment[p], d)
  BY SlotAssumption DEF SlotIInv, PaymentsAsAsked
<1>2. CASE deposit[d].sender = Nobody
  <2>1. payment[p].amount = deposit[d].amount /\ deposit[d].amount \in Nat
    BY <1>1, <1>2 DEF PaysAsAsked, SlotIInv, SlotTyped, SlotRow
  <2>2. QED
    BY <2>1, WithinItself DEF Acceptable
<1>3. CASE deposit[d].sender # Nobody
  BY <1>1, <1>3 DEF PaysAsAsked, Acceptable
<1>4. QED
  BY <1>2, <1>3

(* Two slots of one payment.                                                *)
LEMMA AnotherCovers ==
  ASSUME SlotTyped, NEW p \in Payments, NEW d \in Deposits, Covers(d, p),
         Cardinality(SlotsOf(p)) # 1
  PROVE  \E e \in Deposits : e # d /\ Covers(e, p)
<1>1. SUFFICES ASSUME \A e \in Deposits : Covers(e, p) => e = d PROVE FALSE
  OBVIOUS
<1>2. SlotsOf(p) = {d}
  BY <1>1 DEF SlotsOf
<1>3. QED
  BY <1>2, FS_Singleton

(* A payment that is left has its reason when it is left.                   *)
LEMMA LeavesWithReason ==
  ASSUME SlotIInv, CompletedByUser, NEW p \in Payments, NEW d \in Deposits, Leave(p),
         payment[p].asked = d
  PROVE  HasReason(p, d)
<1>1. SUFFICES ASSUME ~(payment[p].at >= deposit[d].expires),
                      payment[p].amount \in Creditable, deposit[d].user \notin Affiliates,
                      deposit[d].status \notin {"REJECTED", "EXPIRED"}, ~PaidByUser(d)
               PROVE  \E e \in Deposits : Meets(payment[p], d, e)
  BY DEF HasReason
<1>2. SlotTyped /\ CoveredByPayer
  BY DEF SlotIInv
<1>3. d # NoDeposit
  BY SlotAssumption
<1>4. PaysAsAsked(payment[p], d)
  BY <1>3 DEF SlotIInv, PaymentsAsAsked
<1>5. /\ deposit[d].status \in SlotStates /\ deposit[d].expires \in Nat /\ payment[p].at \in Nat
      /\ \A e \in Deposits : deposit[e].created \in Nat /\ deposit[e].expires \in Nat
  BY <1>2 DEF SlotTyped, SlotRow, TransferRow
<1>6. deposit[d].status \in Live
  BY <1>1, <1>4, <1>5 DEF CompletedByUser, PaysAsAsked, Opened, SlotStates, Live
<1>7. Covers(d, p)
  BY <1>1, <1>4, <1>5, <1>6 DEF Covers, PaysAsAsked
<1>8. Cardinality(SlotsOf(p)) # 1
  <2>1. SUFFICES ASSUME Cardinality(SlotsOf(p)) = 1 PROVE FALSE
    OBVIOUS
  <2>2. PICK e \in SlotsOf(p) : ~Acceptable(e, p)
    BY <2>1 DEF Leave
  <2>3. d \in SlotsOf(p)
    BY <1>7 DEF SlotsOf
  <2>4. PICK x : SlotsOf(p) = {x}
    <3>1. IsFiniteSet(SlotsOf(p))
      BY SlotAssumption, FS_Subset DEF SlotsOf
    <3>2. QED
      BY <2>1, <3>1, FS_Singleton
  <2>5. e = d
    BY <2>2, <2>3, <2>4
  <2>6. QED
    BY <1>1, <2>2, <2>5, AcceptsItsOwn
<1>9. PICK e \in Deposits : e # d /\ Covers(e, p)
  BY <1>2, <1>7, <1>8, AnotherCovers
<1>10. /\ Opened(e) /\ Opened(d) /\ deposit[e].user = deposit[d].user
       /\ deposit[e].address = deposit[d].address
       /\ deposit[e].created <= payment[p].at /\ payment[p].at < deposit[e].expires
       /\ deposit[d].created <= payment[p].at
  BY <1>2, <1>3, <1>4, <1>9 DEF CoveredByPayer, Covers, SameUser, PaysAsAsked, Opened, Live
<1>11. CASE deposit[d].created <= deposit[e].created
  BY <1>9, <1>10, <1>11 DEF Meets
<1>12. CASE ~(deposit[d].created <= deposit[e].created)
  <2>1. deposit[e].created < deposit[d].created /\ deposit[d].created < deposit[e].expires
    BY <1>5, <1>10, <1>12
  <2>2. Outlives(e, d)
    BY <1>10, <2>1 DEF Outlives
  <2>3. QED
    BY <1>9, <1>10, <2>2 DEF Meets
<1>13. QED
  BY <1>11, <1>12

----------------------------------------------------------------------------
(* What no step takes back: the terms of a slot, but that it may end        *)
(* sooner, unless it has outlived the beginning of another; what a payment  *)
(* is of and what it was matched with.                                      *)
SlotGoesOn(d) ==
  /\ Opened(d)' /\ deposit'[d].user = deposit[d].user /\ deposit'[d].address = deposit[d].address
  /\ deposit'[d].created = deposit[d].created /\ deposit'[d].expires <= deposit[d].expires
  /\ deposit[d].status \in {"REJECTED", "EXPIRED"} => deposit'[d].status = deposit[d].status

PaymentGoesOn(p) ==
  /\ payment'[p].at = payment[p].at /\ payment'[p].asked = payment[p].asked
  /\ payment'[p].amount = payment[p].amount
  /\ payment[p].to # NoDeposit => payment'[p].to = payment[p].to

AllGoOn ==
  /\ \A d \in Deposits : Opened(d) => SlotGoesOn(d)
  /\ \A d, e \in Deposits : Outlives(e, d) => deposit'[e].expires = deposit[e].expires
  /\ \A p \in Payments : payment[p].status # "NONE" => PaymentGoesOn(p)

LEMMA ResolutionGoesOn ==
  ASSUME SlotIInv, PaidIsMatched, Resolution
  PROVE  AllGoOn
<1>1. ASSUME NEW d \in Deposits
      PROVE  deposit'[d].expires = deposit[d].expires /\ (Opened(d) => SlotGoesOn(d))
  <2>1. deposit[d] \in SlotRow /\ deposit'[d] \in SlotRow /\ Settles(deposit[d], deposit'[d])
    BY DEF SlotIInv, SlotTyped, Resolution
  <2>2. deposit[d].expires \in Nat /\ (Opened(d)' <=> Opened(d))
    BY <2>1, SettledRow DEF SlotRow, Opened
  <2>3. deposit[d].status \in {"REJECTED", "EXPIRED"} => deposit'[d].status = deposit[d].status
    BY <2>1 DEF Settles, Live
  <2>4. QED
    BY <2>1, <2>2, <2>3 DEF Settles, SlotGoesOn
<1>2. ASSUME NEW p \in Payments PROVE PaymentGoesOn(p)
  <2>1. /\ Resolves(payment[p], payment'[p])
        /\ payment'[p].to # payment[p].to => payment[p].status = "PENDING"
    BY DEF Resolution, Pays
  <2>2. payment[p].to # NoDeposit => payment[p].status = "MATCHED"
    BY DEF PaidIsMatched
  <2>3. QED
    BY <2>1, <2>2 DEF Resolves, PaymentGoesOn
<1>3. QED
  BY <1>1, <1>2 DEF AllGoOn

LEMMA OpenGoesOn ==
  ASSUME SlotIInv, NEW u \in Users, NEW amount \in Amounts, OpenSlot(u, amount)
  PROVE  AllGoOn /\ \A d \in Deposits : deposit'[d].status = "COMPLETED" => deposit[d].status = "COMPLETED"
<1>1. PICK r, n : r = request[u] /\ Written(u, r, n)
  BY OpenWrites
<1>2. UNCHANGED payment
  BY DEF OpenSlot
<1>3. ASSUME NEW d \in Deposits, Opened(d) PROVE SlotGoesOn(d) /\ d # n
  BY <1>1, <1>3 DEF Written, SlotGoesOn, Opened
<1>4. ASSUME NEW d \in Deposits, NEW e \in Deposits, Outlives(e, d)
      PROVE  deposit'[e].expires = deposit[e].expires
  <2>1. e \notin r.own /\ Opened(e)
    BY <1>1, <1>4 DEF SlotIInv, LeftOpen, Outlives
  <2>2. QED
    BY <1>1, <1>3, <2>1 DEF Written
<1>5. \A p \in Payments : PaymentGoesOn(p)
  BY <1>2 DEF PaymentGoesOn
<1>6. \A d \in Deposits : deposit'[d].status = "COMPLETED" => deposit[d].status = "COMPLETED"
  BY <1>1 DEF Written
<1>7. QED
  BY <1>3, <1>4, <1>5, <1>6 DEF AllGoOn

LEMMA SameDepositsGoOn ==
  ASSUME SlotIInv, UNCHANGED deposit,
         \A p \in Payments : payment[p].status # "NONE" => payment'[p] = payment[p]
  PROVE  AllGoOn
<1>1. \A d \in Deposits : deposit[d].expires \in Nat
  BY DEF SlotIInv, SlotTyped, SlotRow
<1>2. QED
  BY <1>1 DEF AllGoOn, SlotGoesOn, PaymentGoesOn, Opened

LEMMA PaidStays ==
  ASSUME PaidIsMatched, AllGoOn, NEW d \in Deposits, PaidByUser(d)
  PROVE  PaidByUser(d)'
<1>1. PICK q \in Payments : payment[q].to = d /\ payment[q].asked # NoDeposit
  BY DEF PaidByUser
<1>2. d # NoDeposit
  BY SlotAssumption
<1>3. payment[q].status # "NONE"
  BY <1>1, <1>2 DEF PaidIsMatched
<1>4. payment'[q].to = d /\ payment'[q].asked # NoDeposit
  BY <1>1, <1>2, <1>3 DEF AllGoOn, PaymentGoesOn
<1>5. QED
  BY <1>4 DEF PaidByUser

LEMMA ReasonsStay ==
  ASSUME SlotIInv, PaidIsMatched, AllGoOn, NEW p \in Payments, NEW d \in Deposits, Opened(d),
         payment[p].status # "NONE", HasReason(p, d), SlotTyped'
  PROVE  HasReason(p, d)'
<1>1. SlotGoesOn(d) /\ PaymentGoesOn(p)
  BY DEF AllGoOn
<1>2. /\ payment[p].at \in Nat
      /\ \A e \in Deposits : deposit[e].expires \in Nat /\ deposit'[e].expires \in Nat
  BY DEF SlotIInv, SlotTyped, TransferRow, SlotRow
<1>3. CASE payment[p].at >= deposit[d].expires
  BY <1>1, <1>2, <1>3 DEF HasReason, SlotGoesOn, PaymentGoesOn
<1>4. CASE \/ payment[p].amount \notin Creditable
           \/ deposit[d].user \in Affiliates
           \/ deposit[d].status \in {"REJECTED", "EXPIRED"}
  BY <1>1, <1>4 DEF HasReason, SlotGoesOn, PaymentGoesOn, Creditable
<1>5. CASE PaidByUser(d)
  BY <1>5, PaidStays DEF HasReason
<1>6. ASSUME NEW e \in Deposits, Meets(payment[p], d, e) PROVE HasReason(p, d)'
  <2>1. SlotGoesOn(e)
    BY <1>6 DEF Meets, AllGoOn
  <2>2. Outlives(e, d) => Outlives(e, d)'
    <3>1. SUFFICES ASSUME Outlives(e, d) PROVE Outlives(e, d)'
      OBVIOUS
    <3>2. deposit'[e].expires = deposit[e].expires
      BY <3>1 DEF AllGoOn
    <3>3. QED
      BY <1>1, <2>1, <3>1, <3>2 DEF Outlives, SlotGoesOn
  <2>3. Meets(payment[p], d, e)'
    BY <1>1, <1>6, <2>1, <2>2 DEF Meets, SlotGoesOn, PaymentGoesOn
  <2>4. QED
    BY <2>3 DEF HasReason
<1>7. QED
  BY <1>3, <1>4, <1>5, <1>6 DEF HasReason

LEMMA StepKeepsLeft ==
  ASSUME StraysAreOff, LeftIInv, SlotIInv', AllGoOn, PaidIsMatched',
         \A p \in Payments : payment'[p].status \in Left => payment[p].status \in Left \/ Leave(p),
         \A d \in Deposits :
           deposit'[d].status = "COMPLETED" =>
             \/ deposit[d].status = "COMPLETED"
             \/ \E p \in Payments : deciding = <<p, d>> /\ payment'[p].to = d,
         \/ deciding' \in {deciding, Nothing}
         \/ \E p \in Payments, d \in Deposits : Decide(p, d)
  PROVE  LeftIInv'
<1>1. SlotIInv /\ PaidIsMatched /\ CompletedByUser /\ DecidedOnPayers /\ LeftWithReason
  BY DEF LeftIInv
<1>2. SlotTyped' /\ \A p \in Payments : payment[p].status # "NONE" => payment'[p].asked = payment[p].asked
  BY DEF SlotIInv, AllGoOn, PaymentGoesOn
<1>3. \A p \in Payments, d \in Deposits : deciding = <<p, d>> => payment[p].status # "NONE"
  BY <1>1 DEF SlotIInv, DecidedForPayer
<1>4. CompletedByUser'
  <2>1. SUFFICES ASSUME NEW d \in Deposits, deposit'[d].status = "COMPLETED" PROVE PaidByUser(d)'
    BY DEF CompletedByUser
  <2>2. CASE deposit[d].status = "COMPLETED"
    BY <1>1, <2>2, PaidStays DEF CompletedByUser
  <2>3. ASSUME NEW p \in Payments, deciding = <<p, d>>, payment'[p].to = d PROVE PaidByUser(d)'
    BY <1>1, <1>2, <1>3, <2>3 DEF DecidedOnPayers, PaidByUser
  <2>4. QED
    BY <2>1, <2>2, <2>3
<1>5. DecidedOnPayers'
  <2>1. SUFFICES ASSUME NEW p \in Payments, NEW d \in Deposits, deciding' = <<p, d>>
                 PROVE  payment'[p].asked # NoDeposit
    BY DEF DecidedOnPayers
  <2>2. CASE deciding' \in {deciding, Nothing}
    <3>1. deciding = <<p, d>>
      BY <2>1, <2>2 DEF Nothing
    <3>2. QED
      BY <1>1, <1>2, <1>3, <3>1 DEF DecidedOnPayers
  <2>3. ASSUME NEW q \in Payments, NEW e \in Deposits, Decide(q, e) PROVE payment'[p].asked # NoDeposit
    <3>1. p = q /\ UNCHANGED payment
      BY <2>1, <2>3 DEF Decide
    <3>2. SlotsOf(q) = {e} /\ Acceptable(e, q) /\ payment[q].status # "NONE"
      BY <2>3 DEF Decide
    <3>3. Covers(e, q)
      BY <3>2 DEF SlotsOf
    <3>4. payment[q].asked # NoDeposit
      BY <1>1, <3>2, <3>3, OnlyPayersMeet
    <3>5. QED
      BY <3>1, <3>4
  <2>4. QED
    BY <2>2, <2>3
<1>6. LeftWithReason'
  <2>1. SUFFICES ASSUME NEW p \in Payments, NEW d \in Deposits,
                        payment'[p].status \in Left, payment'[p].asked = d
                 PROVE  HasReason(p, d)'
    BY DEF LeftWithReason, Left
  <2>2. payment[p].status # "NONE"
    BY <2>1 DEF Left, Leave
  <2>3. payment[p].asked = d
    BY <1>2, <2>1, <2>2
  <2>4. d # NoDeposit
    BY SlotAssumption
  <2>5. Opened(d)
    BY <1>1, <2>3, <2>4 DEF SlotIInv, PaymentsAsAsked, PaysAsAsked
  <2>6. HasReason(p, d)
    BY <1>1, <2>1, <2>3, LeavesWithReason DEF LeftWithReason
  <2>7. QED
    BY <1>1, <1>2, <2>2, <2>5, <2>6, ReasonsStay
<1>7. QED
  BY <1>4, <1>5, <1>6 DEF LeftIInv

LEMMA LeftInitial == SlotInit => LeftIInv
<1>1. SUFFICES ASSUME SlotInit PROVE LeftIInv
  OBVIOUS
<1>2. /\ \A d \in Deposits : deposit[d].status = "NONE"
      /\ \A p \in Payments : payment[p].status = "NONE" /\ payment[p].to = NoDeposit
  BY <1>1 DEF SlotInit, None, Unpaid
<1>3. SlotIInv
  BY <1>1, SlotInitial
<1>4. QED
  BY <1>1, <1>2, <1>3
  DEF LeftIInv, PaidIsMatched, CompletedByUser, DecidedOnPayers, LeftWithReason, Left, SlotInit, Nothing

(* Where the slots stand still and no payment is left.                      *)
LEMMA QuietKeepsLeft ==
  ASSUME StraysAreOff, LeftIInv, SlotIInv', UNCHANGED deposit,
         \A p \in Payments : payment[p].status # "NONE" => payment'[p] = payment[p],
         \A p \in Payments :
           payment[p].status = "NONE" => payment'[p].to = NoDeposit /\ payment'[p].status \notin Left,
         \/ deciding' \in {deciding, Nothing}
         \/ \E p \in Payments, d \in Deposits : Decide(p, d)
  PROVE  LeftIInv'
<1>1. SlotIInv /\ PaidIsMatched
  BY DEF LeftIInv
<1>2. AllGoOn
  BY <1>1, SameDepositsGoOn
<1>3. PaidIsMatched'
  BY <1>1 DEF PaidIsMatched
<1>4. \A p \in Payments : payment'[p].status \in Left => payment[p].status \in Left
  OBVIOUS
<1>5. \A d \in Deposits : deposit'[d].status = "COMPLETED" => deposit[d].status = "COMPLETED"
  OBVIOUS
<1>6. QED
  BY <1>2, <1>3, <1>4, <1>5, StepKeepsLeft

LEMMA LeftNext == StraysAreOff /\ LeftIInv /\ [SlotNext]_slotVars => LeftIInv'
<1>1. SUFFICES ASSUME StraysAreOff, LeftIInv, [SlotNext]_slotVars PROVE LeftIInv'
  OBVIOUS
<1>2. SlotIInv /\ PaidIsMatched /\ SlotIInv'
  BY <1>1, SlotNextKeeps DEF LeftIInv
<1>3. \A p \in Payments : payment[p].status = "NONE" => payment[p].to = NoDeposit
  BY <1>2 DEF PaidIsMatched
<1>4. ASSUME UNCHANGED <<deposit, payment>>,
             \/ deciding' \in {deciding, Nothing}
             \/ \E p \in Payments, d \in Deposits : Decide(p, d)
      PROVE  LeftIInv'
  BY <1>1, <1>2, <1>3, <1>4, QuietKeepsLeft DEF Left
<1>5. CASE UNCHANGED slotVars \/ TimePasses
  BY <1>4, <1>5 DEF slotVars, TimePasses
<1>6. ASSUME NEW u \in Users, Allocate(u) PROVE LeftIInv'
  BY <1>4, <1>6 DEF Allocate
<1>7. ASSUME NEW p \in Payments, NEW d \in Deposits, Decide(p, d) PROVE LeftIInv'
  <2>1. UNCHANGED <<deposit, payment>>
    BY <1>7 DEF Decide
  <2>2. QED
    BY <1>4, <1>7, <2>1
<1>8. ASSUME NEW p \in Payments, NEW t, Arrival(p, t) PROVE LeftIInv'
  <2>1. /\ payment[p].status = "NONE" /\ payment'[p] = t /\ t.to = NoDeposit /\ t.status = "PENDING"
        /\ \A q \in Payments \ {p} : payment'[q] = payment[q]
        /\ UNCHANGED <<deposit, deciding>>
    BY <1>2, <1>8 DEF Arrival, SlotIInv, SlotTyped, Unpaid
  <2>2. \A q \in Payments : payment[q].status # "NONE" => payment'[q] = payment[q]
    BY <2>1
  <2>3. \A q \in Payments :
          payment[q].status = "NONE" => payment'[q].to = NoDeposit /\ payment'[q].status \notin Left
    BY <1>3, <2>1 DEF Left
  <2>4. QED
    BY <1>1, <1>2, <2>1, <2>2, <2>3, QuietKeepsLeft
<1>9. ASSUME NEW u \in Users, NEW n \in Amounts, OpenSlot(u, n) PROVE LeftIInv'
  <2>1. AllGoOn /\ \A d \in Deposits : deposit'[d].status = "COMPLETED" => deposit[d].status = "COMPLETED"
    BY <1>2, <1>9, OpenGoesOn
  <2>2. UNCHANGED <<payment, deciding>>
    BY <1>9 DEF OpenSlot
  <2>3. PaidIsMatched'
    BY <1>2, <2>2 DEF PaidIsMatched
  <2>4. QED
    BY <1>1, <1>2, <2>1, <2>2, <2>3, StepKeepsLeft
<1>10. CASE Resolution
  <2>1. AllGoOn
    BY <1>2, <1>10, ResolutionGoesOn
  <2>2. PaidIsMatched'
    <3>1. SUFFICES ASSUME NEW p \in Payments, payment'[p].to # NoDeposit PROVE payment'[p].status = "MATCHED"
      BY DEF PaidIsMatched
    <3>2. CASE payment'[p].to # payment[p].to
      BY <1>10, <3>2 DEF Resolution, Pays
    <3>3. CASE payment'[p].to = payment[p].to
      BY <1>2, <1>10, <3>1, <3>3 DEF PaidIsMatched, Resolution, Resolves
    <3>4. QED
      BY <3>2, <3>3
  <2>3. \A p \in Payments : payment'[p].status \in Left => payment[p].status \in Left \/ Leave(p)
    BY <1>10 DEF Resolution, Left
  <2>4. \A d \in Deposits :
          deposit'[d].status = "COMPLETED" =>
            \/ deposit[d].status = "COMPLETED"
            \/ \E p \in Payments : deciding = <<p, d>> /\ payment'[p].to = d
    BY <1>10 DEF Resolution
  <2>5. deciding' \in {deciding, Nothing}
    BY <1>10 DEF Resolution
  <2>6. QED
    BY <1>1, <1>2, <2>1, <2>2, <2>3, <2>4, <2>5, StepKeepsLeft
<1>11. QED
  BY <1>1, <1>2, <1>5, <1>6, <1>7, <1>8, <1>9, <1>10, SlotStep

(* A payment that was sent in time is left to the administrators only where *)
(* it is above the maximum or an affiliate's, its slot ended another way or *)
(* its user had two at once, provided no stray amount is near one that is   *)
(* asked for (deposit.ts, createUsdtSlotDepositIntent, and                  *)
(* chain-credit-matcher.ts, matchSlotDeposit).                              *)
THEOREM PaidInTimeIsNotLeft ==
  ASSUME StraysAreOff
  PROVE  SlotSpec => []PaidInTimeIsCredited
<1>1. LeftIInv => PaidInTimeIsCredited
  <2>1. SUFFICES ASSUME LeftIInv, NEW p \in Payments, NEW d, d = payment[p].asked,
                        payment[p].status \in Left, d # NoDeposit, ~(payment[p].at >= deposit[d].expires),
                        payment[p].amount \in Creditable, deposit[d].user \notin Affiliates,
                        deposit[d].status \notin {"REJECTED", "EXPIRED"}, ~Twice(d)
                 PROVE  \E q \in Payments \ {p} : payment[q].to = d /\ payment[q].asked # NoDeposit
    BY DEF PaidInTimeIsCredited, Left
  <2>2. SlotIInv /\ PaidIsMatched /\ LeftWithReason
    BY <2>1 DEF LeftIInv
  <2>3. d \in Deposits
    BY <2>1, <2>2 DEF SlotIInv, SlotTyped, TransferRow
  <2>4. HasReason(p, d)
    BY <2>1, <2>2, <2>3 DEF LeftWithReason
  <2>5. CASE PaidByUser(d)
    <3>1. PICK q \in Payments : payment[q].to = d /\ payment[q].asked # NoDeposit
      BY <2>5 DEF PaidByUser
    <3>2. q # p
      BY <2>1, <2>2, <3>1 DEF PaidIsMatched, Left
    <3>3. QED
      BY <3>1, <3>2
  <2>6. ASSUME NEW e \in Deposits, Meets(payment[p], d, e) PROVE FALSE
    <3>1. /\ e # d /\ deposit[e].user = deposit[d].user /\ deposit[e].address = deposit[d].address
          /\ deposit[e].created <= payment[p].at
          /\ deposit[d].created <= deposit[e].created \/ Outlives(e, d)
      BY <2>6 DEF Meets
    <3>2. /\ payment[p].at \in Nat /\ deposit[d].expires \in Nat /\ deposit[d].created \in Nat
          /\ deposit[e].created \in Nat /\ deposit[e].expires \in Nat
      BY <2>2, <2>3 DEF SlotIInv, SlotTyped, SlotRow, TransferRow
    <3>3. ~OpenedDuring(e, d) /\ ~OpenedDuring(d, e)
      BY <2>1, <2>3, <3>1 DEF Twice
    <3>4. CASE deposit[d].created <= deposit[e].created
      BY <2>1, <3>1, <3>2, <3>3, <3>4 DEF OpenedDuring
    <3>5. CASE Outlives(e, d)
      BY <3>2, <3>3, <3>5 DEF OpenedDuring, Outlives
    <3>6. QED
      BY <3>1, <3>4, <3>5
  <2>7. QED
    BY <2>1, <2>4, <2>5, <2>6 DEF HasReason
<1>2. LeftIInv /\ [SlotNext]_slotVars => LeftIInv'
  BY LeftNext
<1>3. QED
  BY <1>1, <1>2, LeftInitial, PTL DEF SlotSpec

============================================================================
