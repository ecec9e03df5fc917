---------------------------- MODULE MCBackupTree ----------------------------
(* A small cluster for BackupTree: one namespace, two apps, two objects of  *)
(* different kinds and a Secret.                                            *)
EXTENDS BackupTree, TLC

CONSTANTS n1, a1, a2, svc, cm, sec

Owner == svc :> n1 @@ cm :> n1 @@ sec :> n1
KindsOf == svc :> "service" @@ cm :> "configmap" @@ sec :> "secret"
=============================================================================
