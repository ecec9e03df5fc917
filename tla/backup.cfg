SPECIFICATION Spec
CONSTANTS
  n1 = n1  a1 = a1  a2 = a2  svc = svc  cm = cm  sec = sec
  Namespaces = {n1}
  Apps = {a1, a2}
  Things = {svc, cm, sec}
  NsOf <- Owner
  KindOf <- KindsOf
  Redacted = {cm}
  Faults = {"unlisted", "stop"}
  MaxFaults = 1
  MaxChanges = 2
  Credentials = {"AKIA"}
  Entropic = {"x8Kq"}
  Binary = {"raw"}
  Suspicious = {"password", "passwordRef", "DB_PASSWORD"}
  Safe = {"passwordRef"}
  ClusterSecrets <- MCClusterSecrets
  Settings <- MCSettings
  LocalFile <- MCLocalFile
  Identities <- MCIdentities
  Ingresses <- MCIngresses
  Clusters <- MCClusters
  Holds <- MCHolds
INVARIANTS TypeOK SettledTreeIsWhole WhatIsWrittenComesBack NothingPrivateInTheTree
PROPERTIES KeepsWhatLives HandWrittenUntouched SettledRunChangesNothing
