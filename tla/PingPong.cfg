\* A client whose mailbox is full while it waits for the lock of the forwarder.
CONSTANTS
  Conns = {c1, c2}
  Sessions = {s1}
  Kinds = {"ping", "prompt"}
  Capacity = 1
  PriorityCapacity = 1
  MaxFrames = 2
  MaxOutputs = 2
  None = None
SPECIFICATION FairSpec
PROPERTIES PingAnswered
CHECK_DEADLOCK FALSE
