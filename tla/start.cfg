SPECIFICATION Spec
CONSTANTS
  CoreCount = 2
  MaxCores = 128
  ApicSize = 4
  ApicOf <- MCApicOf
  CpuTypes = {"intel", "amd", "other"}
  Fanout = 4
  Half = 1
  MapTables = 2
  Frames = 20
  System = 0
  GuestMems <- MCGuestMems
  GuestFrames = {0, 1, 2, 3}
  Pool = 4
  DriverVa = 64
  DriverSize = 2
  PoolSize = 3
  VarCount = 2
  MtrrChoices <- MCMtrrs
  RegionSize = 4
  MaxChanges = 1
INVARIANTS
  TypeOK
  StartedMeansAll
  FailureConfined
  HostKnown
  HostAnswerNeedsMove
  PhysReachable
  HostFollowsGuest
  EptTypesSafe
PROPERTIES
  GuestTablesUntouched
CHECK_DEADLOCK FALSE
