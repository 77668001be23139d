SPECIFICATION Spec
CONSTANTS
  d1 = d1
  d2 = d2
  Device = {d1}
  Model <- OneDevice
  a1 = a1
  a2 = a2
  a3 = a3
  Addr = {a1, a2}
  StableSelector = TRUE
  Libusb = TRUE
  Backend = "genesys"
  KeepSamples = FALSE
  Samples <- Bracketing
  TotalBudget <- MCTotalBudget
  HostCeiling <- MCHostCeiling
  PerCallCeiling = 3
  MinimumUsefulCall = 1
  TimeoutGrace = 1
  RetryDelay = 1
PROPERTIES
  InfraredFailureKeepsScan
