SPECIFICATION Spec
CONSTANTS
  k1 = k1
  k2 = k2
  k3 = k3
  Cores = {k1, k2, k3}
  PageSize = 4
  PoolSize = 20
  Requests = {1, 3, 4, 5}
  MaxRequests = 2
SYMMETRY MCSymmetry
INVARIANTS TypeOK GrantsDisjoint PagesAligned KilledOnlyWhenExhausted
CHECK_DEADLOCK FALSE
