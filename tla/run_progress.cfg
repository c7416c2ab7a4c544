\* Two tasks of two Cases, two inodes (so that one comes back), reads that end
\* inside records.
CONSTANTS
  NumTasks = 2
  NumCases = 2
  FailFast = TRUE
  MaxEvents = 2
  OversizedCases = {2}
  LineLimit = 1
  ReadLimit = 3
  Inodes = {1, 2}
SPECIFICATION Spec
INVARIANTS
  CountsTrue
  LastWordTrue
  RunReportTrue
