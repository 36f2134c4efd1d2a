\* Two orders, two writers, two crashes or lost lock connections.
CONSTANTS
  Keys = {k1, k2}
  Stakes = {3}
  Fates <- Fortunes
  Writers = {w1, w2}
  NoWriter = NoWriter
  Duration = 1
  MaxTime = 1
  MaxFailures = 2
  InitialReal = 4
  InitialBonus = 2
  InitialCurrency = "INR"
SPECIFICATION FairSpec
INVARIANTS OneRun CheckpointCovers
PROPERTIES CheckpointNeverBack OtcImplementsEscrow OrdersEnd
