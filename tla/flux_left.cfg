SPECIFICATION Spec
CONSTANTS
  r1 = r1  r2 = r2
  Runs = {r1}
  Playbook <- OneProxmox
  Units = 2
  Faults = {"read"}
  MaxByHand = 0
INVARIANT HoldEndsWithTheRun
CHECK_DEADLOCK FALSE
