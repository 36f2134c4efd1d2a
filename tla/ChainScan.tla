----------------------------- MODULE ChainScan -----------------------------
(***************************************************************************)
(* How the USDT watcher finds the transfers to one receiving address on    *)
(* TRON: the ingestion stage of its tick,                                  *)
(* apps/engine/src/chain-watcher/ingest.ts, over                           *)
(* packages/db/src/repositories/chain-scan-cursor.ts.                      *)
(*                                                                         *)
(* A watcher is an engine process; several may share the cursor row.  A    *)
(* scan session has fixed bounds, goes through the listing of the provider *)
(* one page after the other and outlives the process that opened it; the   *)
(* floor moves to the upper bound of the session once its last page is     *)
(* stored.  The provider lists a transfer, and resolves its event, some    *)
(* time after its block only: the next session reaches back behind the     *)
(* floor to find those.                                                    *)
(*                                                                         *)
(* The version of the cursor is a counter that is only ever compared with  *)
(* the version somebody read, so the model keeps the comparison: upToDate  *)
(* holds the watchers whose version is the cursor's.                       *)
(***************************************************************************)
EXTENDS Integers, FiniteSets

CONSTANTS
  Transfers,    \* transfers to the address, numbers: the order within a block
  Watchers,
  BlockTimes,   \* block times a transfer may have
  Overlap,      \* overlapMs
  Lag,          \* the provider lists and resolves a transfer this long after its block
  PageSize,     \* rows of a page
  MaxPages,     \* maxPagesPerTick
  MaxTime,      \* bound on the clock
  MaxCrashes    \* bound on crashes

ASSUME ScanAssumption ==
  /\ Transfers \subseteq Nat \ {0} /\ IsFiniteSet(Transfers)
  /\ BlockTimes \subseteq Nat
  /\ Overlap \in Nat /\ Lag \in Nat \ {0} /\ Lag <= Overlap
  /\ PageSize \in Nat \ {0} /\ MaxPages \in Nat \ {0}

VARIABLES
  now,
  blockTime,    \* blockTime[t]: block_timestamp of the transfer
  listed,       \* transfers the provider lists so far
  cursor,       \* the ChainScanCursor row
  credits,      \* transfers with a ChainCredit row
  upToDate,     \* watchers whose version of the cursor is the row's
  watcher,      \* watcher[w]: where its tick is and what it has read
  crashes

chainVars == <<now, blockTime, listed>>
vars == <<now, blockTime, listed, cursor, credits, upToDate, watcher, crashes>>

NoTime    == -1
NoSession == [min |-> NoTime, max |-> NoTime, after |-> 0]
Asleep == [pc |-> "asleep", at |-> 0, floor |-> 0, session |-> NoSession,
           rows |-> {}, more |-> FALSE, pages |-> 0]

(* The first tick creates the cursor at its own time, 0. *)
Init ==
  /\ now = 0
  /\ blockTime \in [Transfers -> BlockTimes]
  /\ listed = {}
  /\ cursor = [floor |-> 0, session |-> NoSession]
  /\ credits = {}
  /\ upToDate = {}
  /\ watcher = [w \in Watchers |-> Asleep]
  /\ crashes = 0

----------------------------------------------------------------------------
(* The chain and its provider. *)

Known(t) == now >= blockTime[t] + Lag

Advance ==
  /\ now < MaxTime
  /\ \A t \in Transfers : now + 1 >= blockTime[t] + Lag => t \in listed
  /\ now' = now + 1
  /\ UNCHANGED <<blockTime, listed, cursor, credits, upToDate, watcher, crashes>>

List(t) ==
  /\ t \notin listed /\ now >= blockTime[t]
  /\ listed' = listed \cup {t}
  /\ UNCHANGED <<now, blockTime, cursor, credits, upToDate, watcher, crashes>>

Before(t, u) ==
  \/ blockTime[t] < blockTime[u]
  \/ blockTime[t] = blockTime[u] /\ t < u

(* What the listing holds of a session behind its fingerprint, oldest       *)
(* first: a fingerprint is the last row of the page it came with.           *)
Remaining(s) ==
  {t \in listed : /\ s.min <= blockTime[t] /\ blockTime[t] <= s.max
                  /\ s.after # 0 => Before(s.after, t)}
Page(s) ==
  {t \in Remaining(s) : Cardinality({u \in Remaining(s) : Before(u, t)}) < PageSize}
Last(rows) == CHOOSE t \in rows : \A u \in rows : u = t \/ Before(u, t)

----------------------------------------------------------------------------
(* The cursor row.  Each write demands the version that was read.           *)

SameVersion(w) == w \in upToDate

(* The row changes: its version moves on, and only the writer knows it. *)
Rewritten(row, w) == cursor' = row /\ upToDate' = {w}

MutNoOverlap(floor) == floor
FirstOf(floor) == IF floor < Overlap THEN 0 ELSE floor - Overlap

At(w, pc) == watcher[w].pc = pc

Goes(w, fields) == watcher' = [watcher EXCEPT ![w] = fields]

(* The ingestion stage is over; the next tick begins anew. *)
Ends(w) == Goes(w, Asleep)

----------------------------------------------------------------------------
(* runIngestTick. *)

(* nowMs is taken as the tick begins. *)
Wake(w) ==
  /\ At(w, "asleep")
  /\ Goes(w, [Asleep EXCEPT !.pc = "reading", !.at = now])
  /\ UNCHANGED <<chainVars, cursor, credits, upToDate, crashes>>

(* ensureSessionOpen, its first read: a session in progress is resumed. *)
Read(w) ==
  /\ At(w, "reading")
  /\ upToDate' = upToDate \cup {w}
  /\ IF cursor.session # NoSession
     THEN Goes(w, [Asleep EXCEPT !.pc = "scanning", !.session = cursor.session])
     ELSE Goes(w, [watcher[w] EXCEPT !.pc = "opening", !.floor = cursor.floor])
  /\ UNCHANGED <<chainVars, cursor, credits, crashes>>

(* ensureSessionOpen, its guarded write, won or lost. *)
Open(w) ==
  /\ At(w, "opening")
  /\ IF SameVersion(w) /\ cursor.session = NoSession
     THEN Rewritten([cursor EXCEPT !.session =
            [min |-> FirstOf(watcher[w].floor), max |-> watcher[w].at, after |-> 0]], w)
     ELSE UNCHANGED <<cursor, upToDate>>
  /\ Goes(w, [Asleep EXCEPT !.pc = "rereading"])
  /\ UNCHANGED <<chainVars, credits, crashes>>

(* ensureSessionOpen, its second read.  Without a session any more the      *)
(* page asked for is empty and the tick gives the scan up.                  *)
Reread(w) ==
  /\ At(w, "rereading")
  /\ upToDate' = upToDate \cup {w}
  /\ IF cursor.session # NoSession
     THEN Goes(w, [Asleep EXCEPT !.pc = "scanning", !.session = cursor.session])
     ELSE Ends(w)
  /\ UNCHANGED <<chainVars, cursor, credits, crashes>>

(* fetchTransferPage: a page, and a fingerprint if the listing goes on. *)
Fetch(w) ==
  LET s == watcher[w].session
  IN /\ At(w, "scanning")
     /\ Goes(w, [watcher[w] EXCEPT
                   !.pc = "storing", !.rows = Page(s), !.more = Page(s) # Remaining(s),
                   !.session.after = IF Page(s) = {} THEN @ ELSE Last(Page(s)),
                   !.pages = @ + 1])
     /\ UNCHANGED <<chainVars, cursor, credits, upToDate, crashes>>

(* fetchTransferPage fails: the checkpoint stays where it is. *)
FetchFails(w) ==
  /\ At(w, "scanning")
  /\ Ends(w)
  /\ UNCHANGED <<chainVars, cursor, credits, upToDate, crashes>>

(* persistRow and createChainCreditIfNew: one row, once. *)
Store(w, t) ==
  /\ At(w, "storing") /\ t \in watcher[w].rows
  /\ credits' = credits \cup {t}
  /\ Goes(w, [watcher[w] EXCEPT !.rows = @ \ {t}])
  /\ UNCHANGED <<chainVars, cursor, upToDate, crashes>>

(* persistRow: the event does not resolve yet, the row is left out. *)
Skip(w, t) ==
  /\ At(w, "storing") /\ t \in watcher[w].rows
  /\ ~Known(t)
  /\ Goes(w, [watcher[w] EXCEPT !.rows = @ \ {t}])
  /\ UNCHANGED <<chainVars, cursor, credits, upToDate, crashes>>

(* advanceSessionPage, while the listing goes on; the tick ends when its    *)
(* pages are spent or the race is lost.                                     *)
NextPage(w) ==
  /\ At(w, "storing") /\ watcher[w].rows = {} /\ watcher[w].more
  /\ IF SameVersion(w)
     THEN /\ Rewritten([cursor EXCEPT !.session.after = watcher[w].session.after], w)
          /\ IF watcher[w].pages < MaxPages
             THEN Goes(w, [watcher[w] EXCEPT !.pc = "scanning"])
             ELSE Ends(w)
     ELSE Ends(w) /\ UNCHANGED <<cursor, upToDate>>
  /\ UNCHANGED <<chainVars, credits, crashes>>

MutFloorNow(w) == now
(* The floor a drained session leaves: its own upper bound. *)
NewFloor(w) == watcher[w].session.max

(* closeSession, after the last page. *)
Close(w) ==
  /\ At(w, "storing") /\ watcher[w].rows = {} /\ ~watcher[w].more
  /\ IF SameVersion(w)
     THEN Rewritten([floor |-> NewFloor(w), session |-> NoSession], w)
     ELSE UNCHANGED <<cursor, upToDate>>
  /\ Ends(w)
  /\ UNCHANGED <<chainVars, credits, crashes>>

Crash(w) ==
  /\ crashes < MaxCrashes /\ ~At(w, "asleep")
  /\ crashes' = crashes + 1
  /\ Goes(w, Asleep)
  /\ UNCHANGED <<chainVars, cursor, credits, upToDate>>

----------------------------------------------------------------------------
Scan(w) ==
  \/ Wake(w) \/ Read(w) \/ Open(w) \/ Reread(w)
  \/ \E t \in Transfers : Store(w, t) \/ Skip(w, t)
  \/ NextPage(w) \/ Close(w)

Next ==
  \/ Advance
  \/ \E t \in Transfers : List(t)
  \/ \E w \in Watchers :
       Scan(w) \/ Fetch(w) \/ FetchFails(w) \/ Crash(w)

Spec == Init /\ [][Next]_vars

(* The loop arms its timer again after every tick, and the provider answers *)
(* now and then.                                                            *)
Fairness ==
  /\ WF_vars(Advance)
  /\ \A t \in Transfers : WF_vars(List(t))
  /\ \A w \in Watchers : WF_vars(Scan(w)) /\ SF_vars(Fetch(w))

FairSpec == Spec /\ Fairness

----------------------------------------------------------------------------
(* Properties. *)

TypeOK ==
  /\ now \in 0..MaxTime /\ listed \subseteq Transfers
  /\ credits \subseteq listed /\ upToDate \subseteq Watchers
  /\ cursor \in [floor : 0..MaxTime,
                 session : [min : {NoTime} \cup 0..MaxTime, max : {NoTime} \cup 0..MaxTime,
                            after : {0} \cup Transfers]]

(* The checkpoint never moves past data that is not stored: every transfer  *)
(* the provider has known since before the floor is a ChainCredit row,      *)
(* whatever crashes, failures and watchers came between                     *)
(* (chain-scan-cursor.ts, closeSession).                                    *)
NothingBehindTheFloor ==
  \A t \in Transfers : cursor.floor >= blockTime[t] + Lag => t \in credits

(* Every transfer is found, although watchers fail, crash and take the      *)
(* session from each other (ingest.ts, runIngestTick).                      *)
EveryTransferFound == \A t \in Transfers : <>(t \in credits)
=============================================================================
