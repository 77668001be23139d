SPECIFICATION Spec
CONSTANTS
  d1 = d1
  d2 = d2
  d3 = d3
  Device = {d1}
  Model <- OneDevice
  a1 = a1
  a2 = a2
  a3 = a3
  a4 = a4
  Addr = {a1, a2}
  StableSelector = TRUE
  Libusb = TRUE
  TotalBudget <- MCTotalBudget
  HostCeiling <- MCHostCeiling
  PerCallCeiling = 2
  MinimumUsefulCall = 1
  TimeoutGrace = 1
  RetryDelay = 1
INVARIANTS
  CancelIsReported
