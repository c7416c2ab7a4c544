\* Three calls arrive one per time unit at a single slot; nothing but the
\* user ends the phase.
CONSTANTS
  c1 = c1
  c2 = c2
  c3 = c3
  c4 = c4
  Puller = puller
  Calls = {c1, c2, c3}
  Cost <- UnitCost
  NumRequests <- Unlimited
  MaxDuration <- Unlimited
  Workers = 2
  ConcurrencyLimit = 1
  Strategy = "interval"
  Gaps = {1}
  TraceOffset <- NoTrace
  TraceIndex <- NoTrace
  ReplaySpeed = 1
  Malformed = {}
  EmitMayFail = FALSE
  MaxTime = 2
SPECIFICATION FairSpec
PROPERTIES
  EveryCallEnds
