SPECIFICATION Spec
CONSTANTS
  r1 = r1  r2 = r2
  Runs = {r1, r2}
  Playbook <- BothTalos
  Units = 2
  Faults = {"read", "work", "lost", "resume", "unreachable", "kill"}
  MaxByHand = 2
INVARIANTS TypeOK HoldEndsWithTheRun
PROPERTIES LiftsOnlyItsOwn NothingDeploysMidUnit
CHECK_DEADLOCK FALSE
