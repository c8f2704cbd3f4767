SPECIFICATION LimiterSpec
CONSTANTS
  Keys = {"ip", "hour"}
  Limit <- MCLimit
  Window <- MCWindow
  Processes = {"app"}
  SweepEvery = 1
  MaxTime = 4
  MaxLosses = 1
INVARIANTS WithinAllowance
