SPECIFICATION Spec
CONSTANTS
  Base = 3
  PortPower = 2
  MaxSlots = 2
  DNS = {TRUE, FALSE}
  Delay = 2
  End = 4
  Finish = 6
  Never = Never
INVARIANTS EnergyIsIntegral
PROPERTIES StopSettles SleepsAfterDelay
CHECK_DEADLOCK FALSE
