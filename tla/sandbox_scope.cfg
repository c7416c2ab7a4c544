\* Two sandboxes at a time, a daemon that may answer late or never, and a
\* worker that may be killed at any step.
CONSTANTS
  Executions = {e1, e2}
SPECIFICATION FairSpec
INVARIANTS
  RegistryCovers
  CleanupHonest
PROPERTIES
  CleanupEnds
