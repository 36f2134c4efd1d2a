\* Two trades that may share a bucket, two crashes, one retry.
CONSTANTS
  Trades = {t1, t2}
  Stamped = {t1, t2}
  Prices = {1, 2}
  Durations = {1, 2}
  MaxAttempts = 2
  MaxClock = 3
  MaxStarts = 3
SPECIFICATION FairSpec
INVARIANTS OnePricePerBucket KnownOnce BookedOnce
PROPERTIES EveryTradeEnds
