SPECIFICATION Spec
CONSTANTS
  c1 = c1  c2 = c2  c3 = c3  w1 = w1  pg = pg  my = my  one = one
  Nodes <- Cluster
  ControlPlanes <- Controls
  Plan <- PlanOfThree
  Databases = {pg, my, one}
  On <- Placement
  Maria = {my}
  Playbooks = {"talos-reboot", "talos-update"}
  Faults = {"call", "timeout", "unreachable"}
  MaxFailures = 1
INVARIANTS TypeOK OneOutAtATime HandedBackWhole NoWaitForALaterStep
PROPERTIES QuorumSurvivesTheReboot DrainSparesDatabases RunEnds
CHECK_DEADLOCK FALSE
