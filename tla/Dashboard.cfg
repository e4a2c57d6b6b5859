CONSTANTS
  Tabs = 2
  Pages <- MCShipped
  Results <- MCResults
  MaxOpen = 2
SPECIFICATION Spec
INVARIANTS
  IdsUnique
  SeriesBelong
  PiesAreWhole
  ShownWhole
PROPERTIES
  PageAppears
CHECK_DEADLOCK FALSE
