SPECIFICATION MCSpec
CONSTANTS
  NThreads = 4
  Policies = {"STATIC"}
  Priority = {1, 2}
  Capacity <- Unlimited
  Period <- Unlimited
  Delays = {1}
  Services = {}
  Quantum = 1
  MaxTime = 2
  Object <- MCObject
  Kind <- MCKind
  Discipline <- MCDiscipline
  InitialValue <- MCInitialValue
  MaxValue <- MCMaxValue
  Timeouts = {0, 1}
  OwnerReleases = {"event"}
INVARIANTS MutualExclusion Conservation BlockedIsQueued
PROPERTY GrantOrder
CHECK_DEADLOCK FALSE
