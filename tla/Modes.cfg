SPECIFICATION MCSpec
CONSTANTS
  NThreads = 4
  Policies = {"RR", "STATIC"}
  PriorityOf <- MCPriorityOf
  PeriodOf <- MCPeriodOf
  Delays = {1}
  MajorFrame = 1
  MaxLives = 1
  MaxTime = 2
INVARIANTS ModeRuns ReadyRuns DelayHonoured FromScratch
PROPERTY ErrorKeepsProcessor
CHECK_DEADLOCK FALSE
