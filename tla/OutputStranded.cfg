SPECIFICATION MigratingSpec
CONSTANTS
  o1 = o1
  o2 = o2
  o3 = o3
  Outputs = {o1, o2, o3}
  Packets <- Lengths
  Window = 3
  MaxTimeouts = 0
  MaxMoves = 1
  None = None
INVARIANTS QueueHasTrigger
CHECK_DEADLOCK FALSE
