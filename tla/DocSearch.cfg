SPECIFICATION Spec
CONSTANTS
  Kids <- MCKids
  Matches <- MCMatches
  Words <- MCWords
  Label <- MCLabel
  Squeezed <- MCSame
  Trimmed <- MCSame
  Filters = 2
  MaxStrays = 1
INVARIANTS
  PanelConsistent
  LastIsOnDisplay
  PointedStaysOpen
  FocusOnVisible
  UpUndoesDown
PROPERTIES
  DueIsAnswered
