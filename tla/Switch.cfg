SPECIFICATION SwitchSpec
CONSTANTS
  Processor = {p1, p2, p3}
  Boot = p1
  Callers = {p1}
  Services = {TRUE, FALSE}
  Partition = {r1, r2}
  FirstPartition = r1
  Background = {r1, r2}
  IdleThread = idle
  p1 = p1
  p2 = p2
  p3 = p3
  r1 = r1
  r2 = r2
  idle = idle
INVARIANTS RendezvousInOrder OnePartitionAtATime ScheduledIsEnabled
PROPERTY SwitchesComplete
