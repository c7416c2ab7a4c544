\* Two sessions of up to three turns, one budget for both.
CONSTANTS
  Sessions <- MCSessions
  MaxTurns = 3
  Streams <- MCStreams
  Hits <- MCHits
  OutputBudget = 2
  ModelLimit = 7
  Capacity = 2
  RequestBudget = 3
  Slo <- MCSlo
  Threshold = 4
  BreakerSamples = 2
SPECIFICATION Spec
INVARIANTS
  SessionAccounting
  CacheCeiling
  ReportAddsUp
