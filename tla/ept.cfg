SPECIFICATION FairSpec
CONSTANTS
  Const = const
  Vice = vice
  Target = target
  Fanout = 2
  MaxTables = 16
  MaxCalls = 3
INVARIANTS OwnTables
PROPERTIES ImplementsViews ConstFrozen SetPteReturns
CHECK_DEADLOCK FALSE
