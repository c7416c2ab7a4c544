\* Four calls, one of them a batch of two, for two slots and a budget of four,
\* as fast as the slots allow; events may fail to be written.
CONSTANTS
  c1 = c1
  c2 = c2
  c3 = c3
  c4 = c4
  Puller = puller
  Calls = {c1, c2, c3, c4}
  Cost <- BatchCost
  NumRequests = 4
  MaxDuration = 1
  Workers = 2
  ConcurrencyLimit <- Unlimited
  Strategy = "immediate"
  Gaps = {1}
  TraceOffset <- NoTrace
  TraceIndex <- NoTrace
  ReplaySpeed = 1
  Malformed = {}
  EmitMayFail = TRUE
  MaxTime = 1
SYMMETRY Alike
SPECIFICATION Spec
INVARIANTS
  SlotAccounting
  BudgetKept
  IdentitiesDisjoint
  AtMostOneStraggler
  ReasonTruthful
  RecordedOverlapBounded
PROPERTIES
  ImplementsRoom
