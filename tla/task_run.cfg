\* Two Cases, one resource, two interrupts: the second kills the worker.
CONSTANTS
  NumCases = 2
  NumResources = 1
  MaxInterrupts = 2
SPECIFICATION FairSpec
INVARIANTS
  ReportMatchesDisk
  SuccessMeansAll
  WorkerDeadFirst
PROPERTIES
  CommittedKept
  ImplementsCommitment
  TaskEnds
