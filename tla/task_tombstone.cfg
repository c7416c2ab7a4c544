\* One Case, killed by a second interrupt or a timeout while it is discarded.
CONSTANTS
  NumCases = 1
  NumResources = 0
  MaxInterrupts = 2
SPECIFICATION Spec
INVARIANTS
  TombstoneKept
