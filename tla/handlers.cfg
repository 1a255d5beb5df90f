SPECIFICATION FairSpec
CONSTANTS
  Cores = {c1}
  Handlers = {h1, h2, h3}
  Null = null
  Limit = 3
  MaxOps = 5
  EndAfterSub = FALSE
INVARIANTS PassCallsAll KilledOnlyUnhandled ListMatchesSlots
PROPERTIES DispatchEnds
CHECK_DEADLOCK FALSE
