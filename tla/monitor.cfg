SPECIFICATION FairSpec
CONSTANTS
  Cores = {c1, c2}
  LastPage = 1
  MaxSets = 2
INVARIANTS TypeOK NeverKilled OnlyTargetsUnderTarget ReportsMatchView CallersCoreMonitored
PROPERTIES ViolationResolved
