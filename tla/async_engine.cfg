\* Two calls with up to two outputs waiting each: one may be aborted while the other
\* streams.
CONSTANTS
  Calls = {c1, c2}
  MaxReady = 2
SPECIFICATION FairSpec
INVARIANTS
  EngineLoadBounded
  SuccessWhole
PROPERTIES
  CloseEnds
