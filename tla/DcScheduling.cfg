SPECIFICATION DecisionSpec
CONSTANTS
  NProviders = 3
  Scores = {1, 2}
  Ties = {1, 2}
  RandMax = 6
  NoPick = NoPick
  Thrown = Thrown
INVARIANTS PicksBest DrawFallsOnProvider
CHECK_DEADLOCK FALSE
