SPECIFICATION ThreadSpec
CONSTANTS
  NThreads = 3
  Policies = {"STATIC"}
  Priority = {1, 2}
  Capacity <- SmallCapacity
  Period <- SmallPeriod
  Delays = {2}
  Services = {"suspend", "resume", "set_priority", "suspend_target"}
  Quantum = 2
  MaxTime = 2
INVARIANTS NoIdleWhileReady HighestPriorityRuns NoOversleep
PROPERTY NoEarlyWakeup
CHECK_DEADLOCK FALSE
