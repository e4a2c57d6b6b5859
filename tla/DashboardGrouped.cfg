CONSTANTS
  Tabs = 2
  Pages <- MCGrouped
  Results <- MCGroupedResults
  MaxOpen = 1
SPECIFICATION Spec
INVARIANTS
  GroupsShareAGraph
CHECK_DEADLOCK FALSE
