SPECIFICATION HistorySpec
CONSTANTS
  NThreads = 4
  Policies = {"RR", "RMS"}
  Priority = {1}
  Capacity <- FullCapacity
  Period <- FullPeriod
  Delays = {2}
  Services = {"suspend", "end_period"}
  Quantum = 1
  MaxTime = 5
INVARIANTS  BudgetBoundsRun BoundedWait
CHECK_DEADLOCK FALSE
