CONSTANTS
  p1 = p1
  p2 = p2
  t1 = t1
  t2 = t2
  t3 = t3
  Nowhere = Nowhere
  Tasks = {t1, t2, t3}
  Providers = {p1, p2}
  Cores <- MCCores
  Host <- MCHost
  MemSlots <- MCSlots
  Scripts <- MCScripts
SPECIFICATION Spec
INVARIANTS
  TypeOK
  NoFailedOnCore
  ListsFollowCorePointer
  MemoryConserved
  ExecutesWhereReserved
  MemoryHeldOnlyByExecuting
  FailuresCountedOnce
  InFlyEmptyBetweenEvents
PROPERTIES
  ImplementsTaskService
  EverySubmissionSettles
CHECK_DEADLOCK FALSE
