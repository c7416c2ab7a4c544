\* Four trace records for one slot; the plan of the last one raises, and any
\* other may never come.  max_duration is the only limit.
CONSTANTS
  c1 = c1
  c2 = c2
  c3 = c3
  c4 = c4
  Puller = puller
  Calls = {c1, c2, c3, c4}
  Cost <- UnitCost
  NumRequests <- Unlimited
  MaxDuration = 2
  Workers = 3
  ConcurrencyLimit = 1
  Strategy = "replay"
  Gaps = {1}
  TraceOffset <- Offsets
  TraceIndex <- Orders
  ReplaySpeed = 2
  Malformed = {c4}
  EmitMayFail = FALSE
  MaxTime = 2
SPECIFICATION FairSpec
INVARIANTS
  ReplayInTraceOrder
PROPERTIES
  EveryCallEnds
