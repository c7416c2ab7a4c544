\* Three samples on two threads, sent as capacity permits; a budget of three
\* requests for five, and a user who may stop it at any time.
CONSTANTS
  c1 = c1
  c2 = c2
  c3 = c3
  c4 = c4
  Puller = puller
  Calls = {c1, c2, c3, c4}
  Samples = {1, 2, 3}
  Asks <- Requests
  MayRaise = TRUE
  Cost <- BatchCost
  NumRequests = 3
  MaxDuration <- Unlimited
  Workers = 2
  ConcurrencyLimit <- Unlimited
  Strategy = "immediate"
  Gaps = {1}
  TraceOffset <- NoTrace
  TraceIndex <- NoTrace
  ReplaySpeed = 1
  Malformed = {}
  EmitMayFail = FALSE
  MaxTime = 0
SPECIFICATION FairSessionSpec
INVARIANTS
  CollectionDrains
  RowsHonest
  WindowHonest
PROPERTIES
  CollectionEnds
