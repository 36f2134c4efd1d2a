\* Ingestion: two transfers of one block, two watchers, pages of one row, a
\* crash.  Finality: one credit, two pollers.
\* A poller with nothing left to ask about waits for the next credit.
CONSTANTS
  Transfers = {1, 2}
  Watchers = {w1, w2}
  BlockTimes = {1}
  Overlap = 2
  Lag = 2
  PageSize = 1
  MaxPages = 2
  MaxTime = 4
  MaxCrashes = 1
  Credits = {1}
  Pollers = {p1, p2}
  Natures = {"slow", "flaky", "failed", "gone"}
  Settling = 2
  MinChecks = 3
  MinElapsed = 2
  LastTime = 4
CHECK_DEADLOCK FALSE
SPECIFICATION BothSpec
INVARIANTS NothingBehindTheFloor ReorgedOnlyIfGone
PROPERTIES EveryTransferFound
