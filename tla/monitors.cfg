\* Two series, a restart, and up to four samples.
CONSTANTS
  Series = {s1, s2}
  MaxServed = 3
  MaxRestarts = 1
  MaxSamples = 3
SPECIFICATION FairSpec
INVARIANTS
  DifferencesTrue
  SamplesSettle
PROPERTIES
  MonitorStops
