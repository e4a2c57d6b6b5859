CONSTANTS
  t1 = t1
  t2 = t2
  t3 = t3
  t4 = t4
  Tasks = {t1, t2, t3, t4}
  Cores <- MCCores
  Avail <- MCAvail
  Work <- MCWork
  Duration <- MCDuration
  Scripts <- MCScripts
  Tolerance = 1
  Grid = 2
  Horizon = 14
  Never = 100
SPECIFICATION Spec
INVARIANTS
  TypeOK
  AdmittedMeetDeadline
  SharesWithinRate
  WakeupCoversCompletions
PROPERTIES
  BilledBeforeChange
CHECK_DEADLOCK FALSE
