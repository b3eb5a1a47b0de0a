SPECIFICATION MCSpec
CONSTANTS
  Sender = t1
  Receiver = t2
  Thread = {t1, t2, t3}
  Priority <- MCPriority
  Kinds = {"buffer", "blackboard"}
  Message = {1, 2}
  Blank = 0
  MsgSize = 2
  MaxMessages = 2
  Lengths = {2}
  Polls = {"send"}
INVARIANTS NoMissedWakeup BoardReadWhole
PROPERTIES ImplementsBuffer LockServed
