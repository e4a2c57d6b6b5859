SPECIFICATION Spec
CONSTANTS
  h1 = h1
  h2 = h2
  v1 = v1
  v2 = v2
  k1 = k1
  k2 = k2
  Hosts = {h1, h2}
  Vms = {v1, v2}
  Tasks = {k1, k2}
  Migrations = {1, 2, 3}
  DemandOrder <- Order
  Computing = "Computing"
  Memory = "Memory"
  HostCapacity <- HostCap
  Demand <- VmDemand
  TaskDemand <- TaskMem
  Null = Null
INVARIANTS CapacityConserved VmKeepsHome VcoresFollowVm NextFitMissesNothing AgentsMatchMigrations
CHECK_DEADLOCK FALSE
