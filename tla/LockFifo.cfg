SPECIFICATION Spec
CONSTANTS
  Thread = {t1, t2, t3}
  Priority = {1, 2}
  NbThreads = 5
INVARIANT NeverFull
PROPERTY ImplementsQueue
