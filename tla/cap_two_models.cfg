SPECIFICATION Spec
CONSTANTS
  d1 = d1
  d2 = d2
  Device = {d1, d2, d3}
  d3 = d3
  Model <- ThreeScanners
  a1 = a1
  a2 = a2
  a3 = a3
  a4 = a4
  Addr <- Addresses
  StableSelector = TRUE
  Libusb = TRUE
  TotalBudget <- MCTotalBudget
  HostCeiling <- MCHostCeiling
  PerCallCeiling = 2
  MinimumUsefulCall = 1
  TimeoutGrace = 1
  RetryDelay = 1
CONSTRAINTS
  MostAreOn
  FewMissing
SYMMETRY Symmetry
INVARIANTS
  CeilingKept
  OpensExpectedModel
  CacheIsLive
  TokenMatchesDump
  DetectHeedsStop
  OpensOnlyTarget
PROPERTIES
  EveryStepAdvances
