SPECIFICATION Spec
CONSTANTS
  Cores = {c1, c2}
  LastPage = 1
  MaxSets = 2
INVARIANT EveryCoreMonitored
