\* Matching: two users, one of whom names a wallet, on one address; three
\* deposits and a payment or two and two, or one less and a
\* claim or rejection.
\* Limits: the user who names a wallet and an affiliate, payments above the
\* maximum; one row less.
\* Scanning: one transfer that one reorganisation may move, fail or drop;
\* chunks of one block, two of them to a tick.
\* With no row and no payment left, or on a chain of full height, nothing more
\* happens.
CONSTANTS
  Users = {u1, u2, u3}
  Named = {u1}
  Affiliates = {u3}
  Deposits = {1, 2, 3}
  Payments = {1, 2}
  Addresses <- Rotation
  Amounts = {100}
  Strays = {110, 120}
  MaxDeposit = 115
  Ttl = 3
  Gap = 2
  Quarantine = 2
  MaxClock = 5
  MaxMeddling = 1
  MaxRows = 4
  Nobody = Nobody
  NoDeposit = NoDeposit
  NoAddress = NoAddress
  Sent = {1}
  LogIndexes = {1, 2}
  Scanners = {s1, s2}
  Checkers = {k1}
  ChunkRange = 1
  MaxChunks = 2
  MaxHeight = 3
  MaxReorgs = 1
  ScanHeight = 2
  MinChecks = 2
  MinElapsed = 2
CHECK_DEADLOCK FALSE
SPECIFICATION BothSpec
INVARIANTS CreditedToItsPayer OneUserPerAddress PaidInTimeIsCredited
  NothingBehindTheCursor ResolvedByTheChain
