SPECIFICATION SettledSpec
CONSTANTS
  o1 = o1
  o2 = o2
  o3 = o3
  Outputs = {o1, o2, o3}
  Packets <- Lengths
  Window = 3
  MaxTimeouts = 2
  MaxMoves = 0
  None = None
INVARIANTS TypeOK QueueHasTrigger ExitMeansDelivered
PROPERTY ImplementsService
CHECK_DEADLOCK FALSE
