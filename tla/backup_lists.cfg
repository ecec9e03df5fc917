SPECIFICATION Spec
CONSTANTS
  n1 = n1  a1 = a1  a2 = a2  svc = svc  cm = cm  sec = sec
  Namespaces = {n1}
  Apps = {a1, a2}
  Things = {svc, cm, sec}
  NsOf <- Owner
  KindOf <- KindsOf
  Redacted = {cm}
  Faults = {"unlisted", "stop"}
  MaxFaults = 0
  MaxChanges = 2

PROPERTIES ListsNothingMissing
