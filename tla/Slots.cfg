SPECIFICATION Spec
CONSTANTS
  Partition = {"a", "b"}
  Tables <- AllTables
  Increment = 2
  Quantum = 3
  MaxTime = 48
  MaxSuspended = 2
INVARIANTS OnGrid FlushedOnTime
PROPERTY ImplementsSchedule
CHECK_DEADLOCK FALSE
