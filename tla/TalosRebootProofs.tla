------------------------- MODULE TalosRebootProofs -------------------------
(***************************************************************************)
(* Theorems of TalosReboot, for any nodes, databases, plan and faults: its *)
(* types, that a reboot leaves etcd its quorum, that a drain spares the    *)
(* databases, that at most one node is out of service, and that a node is  *)
(* handed back whole.                                                      *)
(*                                                                         *)
(* The argument: what a visit has looked at stays so until it acts on it,  *)
(* but for the nodes that failed since (lately).  The inductive invariant  *)
(* IInv says, step by step of the visit, what is known to hold.            *)
(***************************************************************************)
EXTENDS TalosReboot, FiniteSetTheorems, TLAPS

-----------------------------------------------------------------------------
(* The visit's steps, and what each knows.                                 *)

Looking == {"nodes", "databases", "etcd", "before", "cordon"}
Freeing == {"cnpg", "cnpg_switch", "cnpg_switched", "window",
            "maria", "maria_switch", "maria_switched", "drain"}
Closing == {"close", "whole", "static", "etcd_again", "nodes_again", "handback"}
Steps == Looking \cup Freeing \cup {"reboot", "return", "uncordon"} \cup Closing

\* The nodes still to visit.
Left == {left[i] : i \in DOMAIN left}

\* A visit has its node, and only the visit's node is cordoned, from its
\* cordon to its uncordon; a failed visit is the last one.
Visit ==
    /\ pc \in Steps => left # <<>> /\ stopped = FALSE
    /\ pc \in Looking \cup Closing => cordoned = {}
    /\ pc \in Freeing \cup {"reboot", "return", "uncordon"} => cordoned = {Here}
    /\ pc \in {"next", "done"} => stopped = TRUE \/ cordoned = {}
    /\ pc = "done" => stopped = TRUE \/ left = <<>>
    /\ cordoned = {} \/ \E n \in Nodes : cordoned = {n}

\* What the API says of a node that did not fail since the visit looked.
SeenTruly ==
    /\ \A n \in Nodes \ (cordoned \cup lately) : seen[n].ready => n \in running
    /\ pc = "nodes" => \A n \in Nodes \ lately : seen[n].ready => SeenAsItIs(n)
    /\ pc \in (Looking \cup Freeing \cup {"reboot"}) \ {"nodes"} =>
          \A n \in Nodes \ lately : seen[n].ready /\ SeenAsItIs(n)

\* A boot ID that is not the one read before is the node's new boot.
NewBoot ==
    /\ \A n \in Nodes : seen[n].boot <= boots[n]
    /\ pc \in Freeing \cup {"cordon", "reboot", "return"} => before <= seen[Here].boot
    /\ pc \in Freeing \cup {"cordon", "reboot"} /\ Here \notin lately => before = seen[Here].boot
    /\ pc = "return" /\ Here \notin lately =>
          /\ Here \notin running => boots[Here] = before
          /\ seen[Here].boot \in {before, boots[Here]}
    /\ pc \in Closing \cup {"uncordon"} =>
          /\ boots[Here] > 0
          /\ Here \notin lately => seen[Here].ready /\ SeenAsItIs(Here)

\* etcd was whole when the visit of a reboot looked.
QuorumSeen ==
    pc \in (Looking \cup Freeing \cup {"reboot"}) \ {"nodes", "databases", "etcd"} /\ ~Upgrading =>
        lately \cap ControlPlanes # {} \/ caughtUp = ControlPlanes

\* The databases were whole when the visit looked; their primaries have left
\* the node when the switchovers are waited for.
Placed ==
    /\ \A d \in Databases : primary[d] \in On[d] /\ target[d] \in On[d]
    /\ \A m \in moves : m.to \in On[m.db]
Switching == {"cnpg_switch", "cnpg_switched", "maria_switch", "maria_switched"}
Freed ==
    CASE pc \in {"cnpg_switch", "cnpg_switched", "window", "maria"} -> Replicated \ Maria
      [] pc \in {"maria_switch", "maria_switched", "drain"} -> Replicated
      [] OTHER -> {}
DatabasesSeen ==
    pc \in (Looking \cup Freeing) \ {"nodes", "databases"} /\ lately = {} =>
        /\ ready = Instances
        /\ pc \in Switching => \A m \in moves : m.to # Here
        /\ \A d \in Databases :
              \/ pc \in Switching /\ \E m \in moves : m.db = d
              \/ primary[d] = target[d] /\ (d \in Freed => primary[d] # Here)

\* What a visit that is about to end has seen come back.
WindowsOpened ==
    /\ pc \in Looking \cup {"cnpg", "cnpg_switch", "cnpg_switched"} => window = {}
    /\ pc \in Freeing \cup {"reboot", "return", "uncordon", "close"} => window \subseteq opened
    /\ pc \in Closing \ {"close"} => window = {}
    /\ pc = "next" => stopped = TRUE \/ window = {}
    /\ pc \in (Freeing \ {"cnpg"}) \cup {"reboot", "return", "uncordon", "close"} =>
          opened \subseteq {d \in Databases \ Replicated : Here \in On[d]}

\* What is back on the visit's node while the visit ends.
BackHere ==
    /\ pc \in {"static", "etcd_again", "nodes_again", "handback"} /\ Here \notin lately =>
          \A d \in Databases : Here \in On[d] => <<d, Here>> \in ready
    /\ pc \in {"etcd_again", "nodes_again", "handback"} /\ Here \notin lately /\ ~Upgrading =>
          (Here \in ControlPlanes => Here \in serving)
    /\ pc \in {"nodes_again", "handback"} /\ Here \notin lately /\ ~Upgrading =>
          (Here \in ControlPlanes => Here \in caughtUp)

\* What a node handed back is, until it fails.
Whole(n) ==
    /\ seen[n].ready /\ SeenAsItIs(n) /\ n \notin cordoned
    /\ \A d \in Databases : n \in On[d] => <<d, n>> \in ready /\ d \notin window
    /\ (n \in ControlPlanes /\ ~Upgrading) => (n \in serving /\ n \in caughtUp)

ComesBack == \A n \in returned : Whole(n)

\* Every planned node is either still to visit or was restarted, once.
Progress ==
    /\ \A i, j \in DOMAIN left : left[i] = left[j] => i = j
    /\ returned \cap Left = {}
    /\ \A n \in Planned : n \in Left \/ boots[n] > 0
-----------------------------------------------------------------------------
(* What the steps are.                                                     *)

\* The order of a visit, step by step.
LEMMA Order ==
    /\ DOMAIN Following = Steps /\ (DOMAIN Following)' = Steps
    /\ Following["nodes"] = "databases"
    /\ Following["databases"] = IF Upgrading THEN "before" ELSE "etcd"
    /\ Following["etcd"] = "before" /\ Following["before"] = "cordon"
    /\ Following["cordon"] = "cnpg"
    /\ Following["cnpg"] = "cnpg_switch" /\ Following["cnpg_switch"] = "cnpg_switched"
    /\ Following["cnpg_switched"] = "window" /\ Following["window"] = "maria"
    /\ Following["maria"] = "maria_switch" /\ Following["maria_switch"] = "maria_switched"
    /\ Following["maria_switched"] = "drain" /\ Following["drain"] = "reboot"
    /\ Following["reboot"] = "return" /\ Following["return"] = "uncordon"
    /\ Following["uncordon"] = "close" /\ Following["close"] = "whole"
    /\ Following["whole"] = IF Upgrading THEN "handback" ELSE "static"
    /\ Following["static"] = "etcd_again" /\ Following["etcd_again"] = "nodes_again"
    /\ Following["nodes_again"] = "handback" /\ Following["handback"] = "next"
BY DEF Following, VisitOrder, Steps, Looking, Freeing, Closing

\* A step that only looks, from where and to where.
LEMMA Looked ==
    ASSUME Look
    PROVE  \/ pc = "nodes" /\ pc' = "databases" /\ NodesReady
           \/ /\ pc = "databases" /\ pc' = (IF Upgrading THEN "before" ELSE "etcd")
              /\ \A d \in Databases : Healthy(d)
           \/ pc = "etcd" /\ pc' = "before" /\ EtcdWhole
           \/ pc = "cnpg_switched" /\ pc' = "window" /\ Switched
           \/ pc = "maria_switched" /\ pc' = "drain" /\ Switched
           \/ pc = "return" /\ pc' = "uncordon" /\ BackOnANewBoot
           \/ /\ pc = "whole" /\ pc' = (IF Upgrading THEN "handback" ELSE "static")
              /\ \A d \in Databases : Healthy(d)
           \/ pc = "static" /\ pc' = "etcd_again" /\ (Here \in ControlPlanes => Here \in serving)
           \/ pc = "etcd_again" /\ pc' = "nodes_again" /\ (Here \in ControlPlanes => EtcdWhole)
           \/ pc = "nodes_again" /\ pc' = "handback"
BY Order, SMTT(60) DEF Look, Go, Met, Checks, Waits

\* A failure ends the visit, and so the run.
LEMMA Stopped ==
    ASSUME Stop \/ CallFails \/ Abort
    PROVE  /\ \/ pc' = "next" /\ stopped' = TRUE
              \/ pc' = "aborted" /\ stopped' = stopped
           /\ UNCHANGED <<cluster, window, cordoned, left, before, moves, todo, opened, lately, returned>>
BY DEF Stop, CallFails, Rescue, Abort

\* The cluster by itself leaves the run alone.
ByItself == Recovery \/ (\E n \in Nodes : NodeFails(n)) \/ UNCHANGED vars

LEMMA RunLeftAlone ==
    ASSUME ByItself
    PROVE  UNCHANGED <<run, window, cordoned, playbook>>
<1>1. ASSUME NEW n \in Nodes, NodeBoots(n) \/ NodeIsSeen(n) \/ MemberCatchesUp(n) \/ StaticPodsStart(n)
      PROVE  UNCHANGED <<run, window, cordoned, playbook>>
  BY <1>1 DEF NodeBoots, NodeIsSeen, MemberCatchesUp, StaticPodsStart
<1>2. ASSUME NEW i \in Instances, InstanceReturns(i)
      PROVE  UNCHANGED <<run, window, cordoned, playbook>>
  BY <1>2 DEF InstanceReturns
<1>3. ASSUME NEW d \in Databases, PrimaryMoves(d)
      PROVE  UNCHANGED <<run, window, cordoned, playbook>>
  BY <1>3 DEF PrimaryMoves
<1>4. ASSUME NEW n \in Nodes, NodeFails(n)
      PROVE  UNCHANGED <<run, window, cordoned, playbook>>
  BY <1>4 DEF NodeFails
<1>5. CASE UNCHANGED vars
  BY <1>5 DEF vars, cluster
<1>. QED
  BY <1>1, <1>2, <1>3, <1>4, <1>5 DEF ByItself, Recovery

\* The steps a proof goes through.
Planning == \E step \in {"cnpg", "maria"} : PlanMoves(step)
Patching == \E step \in {"cnpg_switch", "maria_switch"} : SwitchPrimary(step)
Failing == Stop \/ CallFails \/ Abort

LEMMA Cases ==
    ASSUME [Next]_vars
    PROVE  \/ NextVM \/ Look \/ ReadBefore \/ Cordon \/ Planning \/ Patching
           \/ OpenWindow \/ Drain \/ Reboot \/ Uncordon \/ CloseWindow \/ HandBack
           \/ Failing \/ ByItself
BY DEF Next, Run, GoOn, Planning, Patching, Failing, ByItself

\* A database of one instance has no other.
LEMMA OnlyInstance ==
    ASSUME NEW d \in Databases, d \notin Replicated,
           NEW m \in On[d], NEW n \in On[d]
    PROVE  m = n
<1>1. IsFiniteSet(On[d]) /\ Cardinality(On[d]) \in Nat
  BY ClusterAssumption, FS_Subset, FS_CardinalityType
<1>2. Cardinality(On[d]) <= 1
  BY <1>1 DEF Replicated
<1>3. IsFiniteSet(On[d] \ {m}) /\ Cardinality(On[d] \ {m}) = Cardinality(On[d]) - 1
  BY <1>1, FS_RemoveElement
<1>4. Cardinality(On[d] \ {m}) \in Nat
  BY <1>3, FS_CardinalityType
<1>5. Cardinality(On[d] \ {m}) = 0
  BY <1>1, <1>2, <1>3, <1>4
<1>6. On[d] \ {m} = {}
  BY <1>3, <1>5, FS_EmptySet
<1>. QED
  BY <1>6
-----------------------------------------------------------------------------
(* The types, and where the run is.                                        *)

LEMMA HereIsANode ==
    ASSUME TypeOK, Visit, pc \in Steps
    PROVE  /\ left # <<>> /\ Here \in Nodes /\ Here \in Left
           /\ Tail(left) \in Seq(Nodes)
BY DEF TypeOK, Visit, Here, Left

LEMMA VisitInit == Init => TypeOK /\ Visit
<1> SUFFICES ASSUME Init PROVE TypeOK /\ Visit
  OBVIOUS
<1> USE ClusterAssumption DEF Init
<1>1. running \subseteq Nodes /\ boots \in [Nodes -> Nat] /\ seen \in [Nodes -> [ready : BOOLEAN, boot : Nat]]
  OBVIOUS
<1>2. /\ caughtUp \subseteq ControlPlanes \cap running /\ serving \subseteq ControlPlanes \cap running
      /\ ready \subseteq Instances
  OBVIOUS
<1>3. primary \in [Databases -> Nodes] /\ failures \in 0..MaxFailures /\ left \in Seq(Nodes)
  OBVIOUS
<1>4. TypeOK
  BY <1>1, <1>2, <1>3 DEF TypeOK
<1>5. Visit
  BY DEF Visit, Steps, Looking, Freeing, Closing
<1>. QED
  BY <1>4, <1>5

\* Where the run is, step by step.
LEMMA VisitNext == TypeOK /\ Visit /\ [Next]_vars => Visit'
<1> SUFFICES ASSUME TypeOK, Visit, [Next]_vars PROVE Visit'
  OBVIOUS
<1> USE DEF Visit, Steps, Looking, Freeing, Closing, Here, cluster, run
<1>1. CASE NextVM
  BY <1>1 DEF NextVM, TypeOK
<1>2. CASE Look
  <2>1. UNCHANGED <<left, stopped, cordoned>>
    BY <1>2 DEF Look
  <2>. QED
    BY <1>2, <2>1, Looked
<1>3. CASE ReadBefore
  BY <1>3, Order DEF ReadBefore, Go
<1>12. CASE Cordon
  <2>1. pc = "cordon" /\ pc' = "cnpg" /\ cordoned = {} /\ Here \in Nodes
    BY <1>12, Order, HereIsANode DEF Cordon, Go
  <2>2. cordoned' = {Here} /\ left' = left /\ stopped' = stopped
    BY <1>12, <2>1 DEF Cordon
  <2>. QED
    BY <2>1, <2>2
<1>4. CASE Planning
  BY <1>4, Order DEF Planning, PlanMoves, Go
<1>5. CASE Patching
  BY <1>5, Order DEF Patching, SwitchPrimary, Go
<1>6. CASE OpenWindow \/ CloseWindow
  BY <1>6, Order DEF OpenWindow, CloseWindow, Go
<1>7. CASE Drain \/ Reboot
  BY <1>7, Order DEF Drain, Reboot, Go
<1>8. CASE Uncordon
  BY <1>8, Order DEF Uncordon, Go
<1>9. CASE HandBack
  BY <1>9, Order DEF HandBack, Go
<1>10. CASE Failing
  BY <1>10, Stopped DEF Failing
<1>11. CASE ByItself
  BY <1>11, RunLeftAlone
<1>. QED
  BY <1>1, <1>2, <1>3, <1>4, <1>5, <1>6, <1>7, <1>8, <1>9, <1>10, <1>11, <1>12, Cases

\* What a step of the cluster by itself does to it.
LEMMA ClusterTyped ==
    ASSUME TypeOK, ByItself
    PROVE  /\ running' \subseteq Nodes /\ boots' \in [Nodes -> Nat]
           /\ seen' \in [Nodes -> [ready : BOOLEAN, boot : Nat]]
           /\ caughtUp' \subseteq ControlPlanes \cap running'
           /\ serving' \subseteq ControlPlanes \cap running'
           /\ ready' \subseteq Instances
           /\ primary' \in [Databases -> Nodes] /\ target' \in [Databases -> Nodes]
           /\ failures' \in 0..MaxFailures
           /\ lately' \subseteq Nodes /\ returned' \subseteq Nodes
<1> USE ClusterAssumption DEF TypeOK
<1>1. ASSUME NEW n \in Nodes, NodeFails(n)
      PROVE  /\ running' \subseteq Nodes /\ failures' \in 0..MaxFailures
             /\ caughtUp' \subseteq ControlPlanes \cap running'
             /\ serving' \subseteq ControlPlanes \cap running'
             /\ lately' \subseteq Nodes /\ returned' \subseteq Nodes
             /\ UNCHANGED <<boots, seen, ready, primary, target>>
  BY <1>1 DEF NodeFails
<1>6. ASSUME NEW n \in Nodes, NodeBoots(n)
      PROVE  /\ running' \subseteq Nodes /\ boots' \in [Nodes -> Nat]
             /\ caughtUp' \subseteq ControlPlanes \cap running'
             /\ serving' \subseteq ControlPlanes \cap running'
             /\ UNCHANGED <<seen, ready, primary, target, failures, lately, returned>>
  BY <1>6 DEF NodeBoots
<1>7. ASSUME NEW n \in Nodes, MemberCatchesUp(n) \/ StaticPodsStart(n)
      PROVE  /\ caughtUp' \subseteq ControlPlanes \cap running'
             /\ serving' \subseteq ControlPlanes \cap running'
             /\ UNCHANGED <<running, boots, seen, ready, primary, target, failures, lately, returned>>
  BY <1>7 DEF MemberCatchesUp, StaticPodsStart
<1>2. ASSUME NEW n \in Nodes, NodeIsSeen(n)
      PROVE  /\ seen' \in [Nodes -> [ready : BOOLEAN, boot : Nat]] /\ ready' \subseteq Instances
             /\ UNCHANGED <<running, boots, caughtUp, serving, primary, target, failures, lately, returned>>
  BY <1>2 DEF NodeIsSeen
<1>3. ASSUME NEW i \in Instances, InstanceReturns(i)
      PROVE  /\ ready' \subseteq Instances
             /\ UNCHANGED <<running, boots, seen, caughtUp, serving, primary, target, failures, lately, returned>>
  BY <1>3 DEF InstanceReturns
<1>4. ASSUME NEW d \in Databases, PrimaryMoves(d)
      PROVE  /\ primary' \in [Databases -> Nodes] /\ target' \in [Databases -> Nodes]
             /\ UNCHANGED <<running, boots, seen, caughtUp, serving, ready, failures, lately, returned>>
  <2>1. On[d] \subseteq Nodes
    OBVIOUS
  <2>. QED
    BY <1>4, <2>1 DEF PrimaryMoves
<1>5. CASE UNCHANGED vars
  BY <1>5 DEF vars, cluster, run
<1>. QED
  BY <1>1, <1>2, <1>3, <1>4, <1>5, <1>6, <1>7 DEF ByItself, Recovery

LEMMA TypesNext == TypeOK /\ Visit /\ [Next]_vars => TypeOK'
<1> SUFFICES ASSUME TypeOK, Visit, [Next]_vars PROVE TypeOK'
  OBVIOUS
<1> USE Order DEF TypeOK, Go, cluster, run
<1>0. /\ "nodes" \in Steps /\ pc \in Steps \cup {"next", "done", "aborted"}
      /\ \A step \in Steps : Following[step] \in Steps \cup {"next"}
  BY DEF Steps, Looking, Freeing, Closing
<1>1. CASE NextVM
  BY <1>0, <1>1 DEF NextVM
<1>2. CASE Look
  BY <1>0, <1>2, Looked DEF Look, Steps, Looking, Freeing, Closing
<1>3. CASE ReadBefore \/ Cordon \/ Uncordon
  <2>1. pc \in Steps
    BY <1>3 DEF ReadBefore, Cordon, Uncordon, Steps, Looking, Freeing, Closing
  <2>. QED
    <3>1. CASE ReadBefore
      BY <1>0, <3>1, <2>1, HereIsANode DEF ReadBefore
    <3>2. CASE Cordon \/ Uncordon
      BY <1>0, <3>2, <2>1, HereIsANode DEF Cordon, Uncordon
    <3>. QED
      BY <1>3, <3>1, <3>2
<1>4. CASE Planning
  <2>1. PICK step \in {"cnpg", "maria"} : PlanMoves(step)
    BY <1>4 DEF Planning
  <2>2. step \in Steps /\ pc = step
    BY <2>1 DEF PlanMoves, Steps, Looking, Freeing, Closing
  <2>3. moves' \subseteq [db : Databases, to : Nodes] /\ todo' = moves'
    BY <2>1 DEF PlanMoves, Leaving, Replicated
  <2>4. opened' \subseteq Databases
    BY <2>1 DEF PlanMoves
  <2>5. pc' \in Steps \cup {"next"}
    BY <1>0, <2>1, <2>2 DEF PlanMoves
  <2>. QED
    BY <2>1, <2>3, <2>4, <2>5 DEF PlanMoves
<1>5. CASE Patching
  <2>1. PICK step \in {"cnpg_switch", "maria_switch"} : SwitchPrimary(step)
    BY <1>5 DEF Patching
  <2>2. step \in Steps /\ pc = step
    BY <2>1 DEF SwitchPrimary, Steps, Looking, Freeing, Closing
  <2>3. pc' \in Steps \cup {"next"}
    BY <1>0, <2>1, <2>2 DEF SwitchPrimary
  <2>4. target' \in [Databases -> Nodes] /\ todo' \subseteq moves
    BY <2>1 DEF SwitchPrimary
  <2>. QED
    BY <2>1, <2>3, <2>4 DEF SwitchPrimary
<1>6. CASE OpenWindow \/ CloseWindow
  BY <1>0, <1>6 DEF OpenWindow, CloseWindow
<1>7. CASE Drain
  BY <1>0, <1>7 DEF Drain
<1>8. CASE Reboot
  BY <1>0, <1>8 DEF Reboot
<1>9. CASE HandBack
  <2>1. pc \in Steps
    BY <1>9 DEF HandBack, Steps, Looking, Freeing, Closing
  <2>. QED
    BY <1>9, <2>1, HereIsANode DEF HandBack
<1>10. CASE Failing
  BY <1>10, Stopped DEF Failing
<1>11. CASE ByItself
  BY <1>11, RunLeftAlone, ClusterTyped
<1>. QED
  BY <1>1, <1>2, <1>3, <1>4, <1>5, <1>6, <1>7, <1>8, <1>9, <1>10, <1>11, Cases
-----------------------------------------------------------------------------
(* What the visit has seen of the nodes.                                   *)

\* A step of the run that changes nothing of the nodes.
Quiet == Look \/ Planning \/ Patching \/ OpenWindow \/ CloseWindow \/ Drain

LEMMA QuietStep ==
    ASSUME Quiet
    PROVE  /\ UNCHANGED <<running, boots, seen, caughtUp, serving, playbook, primary, cordoned, left,
                          stopped, before, lately, returned>>
           /\ \/ pc' = pc
              \/ pc = "nodes" /\ pc' = "databases" /\ NodesReady
              \/ pc = "databases" /\ pc' \in {"etcd", "before"} /\ (pc' = "before" => Upgrading)
              \/ pc = "etcd" /\ pc' = "before" /\ EtcdWhole
              \/ pc \in Freeing /\ pc' \in Freeing \cup {"reboot"}
              \/ pc = "return" /\ pc' = "uncordon" /\ BackOnANewBoot
              \/ pc \in Closing \ {"handback"} /\ pc' \in Closing
<1> USE Order DEF Freeing, Closing, cluster, run, Go
<1>1. CASE Look
  BY <1>1, Looked DEF Look
<1>2. CASE Planning
  BY <1>2 DEF Planning, PlanMoves
<1>3. CASE Patching
  BY <1>3 DEF Patching, SwitchPrimary
<1>4. CASE OpenWindow \/ CloseWindow
  BY <1>4 DEF OpenWindow, CloseWindow
<1>5. CASE Drain
  BY <1>5 DEF Drain
<1>. QED
  BY <1>1, <1>2, <1>3, <1>4, <1>5 DEF Quiet

\* What a step of the cluster by itself does to a node.
LEMMA NodeByItself ==
    ASSUME TypeOK, ByItself, NEW n \in Nodes
    PROVE  /\ lately \subseteq lately'
           /\ n \in running /\ n \notin running' => n \in lately' /\ n \notin returned'
           /\ n \notin running /\ n \in running' => boots'[n] = boots[n] + 1
           /\ boots'[n] = boots[n] \/ (n \notin running /\ n \in running')
           /\ \/ seen'[n] = seen[n]
              \/ /\ ~SeenAsItIs(n) /\ running' = running /\ boots' = boots
                 /\ seen'[n].ready <=> n \in running
                 /\ seen'[n].boot = IF n \in running THEN boots[n] ELSE seen[n].boot
<1> USE DEF TypeOK
<1>1. ASSUME NEW m \in Nodes, NodeFails(m)
      PROVE  /\ running' = running \ {m} /\ lately' = lately \cup {m} /\ returned' = returned \ {m}
             /\ UNCHANGED <<boots, seen>>
  BY <1>1 DEF NodeFails
<1>2. ASSUME NEW m \in Nodes, NodeBoots(m)
      PROVE  /\ m \notin running /\ running' = running \cup {m}
             /\ boots' = [boots EXCEPT ![m] = @ + 1]
             /\ UNCHANGED <<seen, lately>>
  BY <1>2 DEF NodeBoots
<1>3. ASSUME NEW m \in Nodes, NodeIsSeen(m)
      PROVE  /\ ~SeenAsItIs(m) /\ UNCHANGED <<running, boots, lately>>
             /\ seen' = [seen EXCEPT ![m] = [ready |-> m \in running,
                                    boot |-> IF m \in running THEN boots[m] ELSE seen[m].boot]]
  BY <1>3 DEF NodeIsSeen
<1>4. \/ \E m \in Nodes : NodeFails(m) \/ NodeBoots(m) \/ NodeIsSeen(m)
      \/ UNCHANGED <<running, boots, seen, lately>>
  <2>1. ASSUME NEW m \in Nodes, MemberCatchesUp(m) \/ StaticPodsStart(m)
        PROVE  UNCHANGED <<running, boots, seen, lately>>
    BY <2>1 DEF MemberCatchesUp, StaticPodsStart
  <2>2. ASSUME NEW i \in Instances, InstanceReturns(i)
        PROVE  UNCHANGED <<running, boots, seen, lately>>
    BY <2>2 DEF InstanceReturns
  <2>3. ASSUME NEW d \in Databases, PrimaryMoves(d)
        PROVE  UNCHANGED <<running, boots, seen, lately>>
    BY <2>3 DEF PrimaryMoves
  <2>4. UNCHANGED vars => UNCHANGED <<running, boots, seen, lately>>
    BY DEF vars, cluster
  <2>. QED
    BY <2>1, <2>2, <2>3, <2>4 DEF ByItself, Recovery
<1>5. CASE \E m \in Nodes : NodeFails(m)
  BY <1>1, <1>5
<1>6. CASE \E m \in Nodes : NodeBoots(m)
  BY <1>2, <1>6
<1>7. CASE \E m \in Nodes : NodeIsSeen(m)
  <2>1. PICK m \in Nodes : NodeIsSeen(m)
    BY <1>7
  <2>2. /\ ~SeenAsItIs(m) /\ UNCHANGED <<running, boots, lately>>
        /\ seen' = [seen EXCEPT ![m] = [ready |-> m \in running,
                                    boot |-> IF m \in running THEN boots[m] ELSE seen[m].boot]]
    BY <1>3, <2>1
  <2>3. CASE m = n
    <3>1. seen'[n] = [ready |-> n \in running,
                      boot |-> IF n \in running THEN boots[n] ELSE seen[n].boot]
      BY <2>2, <2>3
    <3>. QED
      BY <2>2, <2>3, <3>1
  <2>4. CASE m # n
    BY <2>2, <2>4
  <2>. QED
    BY <2>3, <2>4
<1>. QED
  BY <1>4, <1>5, <1>6, <1>7
LEMMA SeenNext == TypeOK /\ Visit /\ SeenTruly /\ NewBoot /\ [Next]_vars => SeenTruly'
<1> SUFFICES ASSUME TypeOK, Visit, SeenTruly, NewBoot, [Next]_vars PROVE SeenTruly'
  OBVIOUS
<1> USE DEF SeenTruly, SeenAsItIs, Looking, Freeing
<1>1. CASE NextVM
  BY <1>1 DEF NextVM, cluster
<1>2. CASE Quiet
  BY <1>2, QuietStep DEF NodesReady, Closing
<1>3. CASE ReadBefore
  BY <1>3, Order DEF ReadBefore, Go, cluster
<1>4. CASE Cordon
  BY <1>4, Order DEF Cordon, Go, cluster
<1>5. CASE Reboot
  <2>1. pc = "reboot" /\ pc' = "return" /\ running' = running \ {Here} /\ cordoned = {Here}
    BY <1>5, Order DEF Reboot, Go, Visit
  <2>. QED
    BY <1>5, <2>1 DEF Reboot
<1>6. CASE Uncordon
  <2>1. pc = "uncordon" /\ pc' = "close" /\ Here \in Nodes
    BY <1>6, Order, HereIsANode DEF Uncordon, Go, Steps
  <2>2. Here \notin lately => Here \in running
    BY <2>1 DEF NewBoot, Closing
  <2>. QED
    BY <1>6, <2>1, <2>2 DEF Uncordon, cluster
<1>7. CASE HandBack \/ Failing
  BY <1>7, Order, Stopped DEF HandBack, Go, Failing, cluster
<1>8. CASE ByItself
  <2>1. UNCHANGED <<pc, cordoned>>
    BY <1>8, RunLeftAlone DEF run
  <2>2. \A n \in Nodes \ (cordoned' \cup lately') : seen'[n].ready => n \in running'
    BY <1>8, <2>1, NodeByItself
  <2>3. pc' = "nodes" => \A n \in Nodes \ lately' : seen'[n].ready => SeenAsItIs(n)'
    BY <1>8, <2>1, NodeByItself
  <2>4. pc' \in (Looking \cup Freeing \cup {"reboot"}) \ {"nodes"} =>
            \A n \in Nodes \ lately' : seen'[n].ready /\ SeenAsItIs(n)'
    BY <1>8, <2>1, NodeByItself
  <2>. QED
    BY <2>2, <2>3, <2>4
<1>. QED
  BY <1>1, <1>2, <1>3, <1>4, <1>5, <1>6, <1>7, <1>8, Cases DEF Quiet

LEMMA NewBootNext == TypeOK /\ Visit /\ SeenTruly /\ NewBoot /\ [Next]_vars => NewBoot'
<1> SUFFICES ASSUME TypeOK, Visit, SeenTruly, NewBoot, [Next]_vars PROVE NewBoot'
  OBVIOUS
<1> USE DEF NewBoot, Looking, Freeing, Closing
<1>1. CASE NextVM
  BY <1>1 DEF NextVM, cluster
<1>2. CASE Quiet
  <2>1. UNCHANGED <<running, boots, seen, Here, before, lately>>
    BY <1>2, QuietStep DEF Here
  <2>2. \A n \in Nodes : seen'[n].boot <= boots'[n]
    BY <2>1
  <2>3. CASE pc = "return" /\ pc' = "uncordon" /\ BackOnANewBoot
    <3>1. Here \in Nodes /\ boots[Here] \in Nat /\ before \in Nat /\ seen[Here].boot \in Nat
      BY <2>3, HereIsANode DEF TypeOK, Steps
    <3>2. before # seen[Here].boot /\ seen[Here].ready
      BY <2>3 DEF BackOnANewBoot
    <3>3. boots[Here] > 0
      BY <2>3, <3>1, <3>2
    <3>4. Here \notin lately => SeenAsItIs(Here)
      BY <2>3, <3>1, <3>2 DEF SeenAsItIs
    <3>. QED
      BY <2>1, <2>2, <2>3, <3>2, <3>3, <3>4 DEF SeenAsItIs
  <2>4. CASE ~(pc = "return" /\ pc' = "uncordon" /\ BackOnANewBoot)
    BY <1>2, <2>1, <2>2, <2>4, QuietStep DEF SeenAsItIs
  <2>. QED
    BY <2>3, <2>4
<1>3. CASE ReadBefore
  BY <1>3, Order DEF ReadBefore, Go, cluster, Here, TypeOK
<1>4. CASE Cordon
  BY <1>4, Order DEF Cordon, Go, cluster, Here
<1>5. CASE Reboot
  <2>1. pc = "reboot" /\ pc' = "return" /\ running' = running \ {Here} /\ Here \in Nodes
    BY <1>5, Order, HereIsANode DEF Reboot, Go, Steps
  <2>2. UNCHANGED <<boots, seen, Here, before, lately>>
    BY <1>5 DEF Reboot, Here
  <2>3. Here \notin lately => before = seen[Here].boot /\ Here \in running /\ SeenAsItIs(Here)
    BY <1>5, <2>1 DEF SeenTruly, Reboot
  <2>4. Here \notin lately => boots[Here] = before
    BY <2>3 DEF SeenAsItIs
  <2>. QED
    BY <2>1, <2>2, <2>3, <2>4
<1>6. CASE Uncordon
  BY <1>6, Order DEF Uncordon, Go, cluster, Here, SeenAsItIs
<1>7. CASE HandBack \/ Failing
  BY <1>7, Order, Stopped DEF HandBack, Go, Failing, cluster
<1>8. CASE ByItself
  <2>1. UNCHANGED <<pc, Here, before>>
    BY <1>8, RunLeftAlone DEF run, Here
  <2>2. \A n \in Nodes : seen'[n].boot <= boots'[n] /\ seen[n].boot <= seen'[n].boot
                         /\ boots[n] <= boots'[n]
    <3> TAKE n \in Nodes
    <3>1. boots[n] \in Nat /\ seen[n].boot \in Nat /\ seen[n].boot <= boots[n]
      BY DEF TypeOK
    <3>2. /\ boots'[n] \in {boots[n], boots[n] + 1}
          /\ \/ seen'[n].boot = seen[n].boot
             \/ boots' = boots /\ seen'[n].boot \in {boots[n], seen[n].boot}
      BY <1>8, NodeByItself
    <3>. QED
      BY <3>1, <3>2
  <2>3. pc \in Steps => Here \in Nodes
    BY HereIsANode
  <2>4. CASE pc \in Freeing \cup {"cordon", "reboot"}
    <3>1. before \in Nat /\ seen[Here].boot \in Nat /\ seen'[Here].boot \in Nat /\ Here \in Nodes
      BY <1>8, <2>3, <2>4, ClusterTyped DEF TypeOK, Steps
    <3>2. before <= seen'[Here].boot
      BY <2>2, <2>4, <3>1
    <3>3. Here \notin lately' => seen'[Here] = seen[Here]
      BY <1>8, <2>4, <3>1, NodeByItself DEF SeenTruly
    <3>4. Here \notin lately' => Here \notin lately
      BY <1>8, <3>1, NodeByItself
    <3>. QED
      BY <2>1, <2>2, <2>4, <3>2, <3>3, <3>4
  <2>5. CASE pc = "return"
    <3>1. before \in Nat /\ seen[Here].boot \in Nat /\ seen'[Here].boot \in Nat /\ Here \in Nodes
      BY <1>8, <2>3, <2>5, ClusterTyped DEF TypeOK, Steps
    <3>2. before <= seen'[Here].boot
      BY <2>2, <2>5, <3>1
    <3>3. Here \notin lately' =>
              /\ Here \notin running' => boots'[Here] = before
              /\ seen'[Here].boot \in {before, boots'[Here]}
      <4>1. Here \notin lately' => Here \notin lately
        BY <1>8, <3>1, NodeByItself
      <4>2. /\ boots'[Here] = boots[Here] \/ Here \in running'
            /\ Here \notin lately' /\ Here \notin running' => Here \notin running
        BY <1>8, <3>1, NodeByItself
      <4>3. \/ seen'[Here].boot = seen[Here].boot /\ (boots'[Here] = boots[Here] \/ Here \notin running)
            \/ boots'[Here] = boots[Here] /\ seen'[Here].boot \in {seen[Here].boot, boots[Here]}
        BY <1>8, <3>1, NodeByItself
      <4>. QED
        BY <2>5, <4>1, <4>2, <4>3
    <3>. QED
      BY <2>1, <2>2, <2>5, <3>2, <3>3
  <2>6. CASE pc \in Closing \cup {"uncordon"}
    <3>1. boots[Here] \in Nat /\ boots'[Here] \in Nat /\ Here \in Nodes
      BY <1>8, <2>3, <2>6, ClusterTyped DEF TypeOK, Steps
    <3>2. boots'[Here] > 0
      BY <2>2, <2>6, <3>1
    <3>3. Here \notin lately' => seen'[Here].ready /\ SeenAsItIs(Here)'
      BY <1>8, <2>1, <2>6, <3>1, NodeByItself DEF SeenAsItIs
    <3>. QED
      BY <2>1, <2>2, <2>6, <3>2, <3>3
  <2>. QED
    BY <2>1, <2>2, <2>4, <2>5, <2>6
<1>. QED
  BY <1>1, <1>2, <1>3, <1>4, <1>5, <1>6, <1>7, <1>8, Cases DEF Quiet

\* etcd, once seen whole, stays so but for a control plane that fails.
LEMMA QuorumNext == TypeOK /\ Visit /\ QuorumSeen /\ [Next]_vars => QuorumSeen'
<1> SUFFICES ASSUME TypeOK, Visit, QuorumSeen, [Next]_vars PROVE QuorumSeen'
  OBVIOUS
<1> USE DEF QuorumSeen, Looking, Freeing, Upgrading
<1>1. CASE NextVM
  BY <1>1 DEF NextVM
<1>2. CASE Quiet
  BY <1>2, QuietStep DEF EtcdWhole, Closing
<1>3. CASE ReadBefore \/ Cordon
  BY <1>3, Order DEF ReadBefore, Cordon, Go, cluster
<1>4. CASE Reboot \/ Uncordon \/ HandBack
  BY <1>4, Order DEF Reboot, Uncordon, HandBack, Go
<1>5. CASE Failing
  BY <1>5, Stopped DEF Failing
<1>6. CASE ByItself
  <2>1. UNCHANGED <<pc, playbook>>
    BY <1>6, RunLeftAlone DEF run
  <2>2. \/ UNCHANGED <<caughtUp, lately>>
        \/ \E n \in Nodes : caughtUp' = caughtUp \ {n} /\ lately' = lately \cup {n}
        \/ \E n \in ControlPlanes : caughtUp' = caughtUp \cup {n} /\ lately' = lately
    <3>1. ASSUME NEW n \in Nodes, NodeBoots(n) \/ NodeIsSeen(n) \/ StaticPodsStart(n)
          PROVE  UNCHANGED <<caughtUp, lately>>
      BY <3>1 DEF NodeBoots, NodeIsSeen, StaticPodsStart
    <3>2. ASSUME NEW i \in Instances, InstanceReturns(i)
          PROVE  UNCHANGED <<caughtUp, lately>>
      BY <3>2 DEF InstanceReturns
    <3>3. ASSUME NEW d \in Databases, PrimaryMoves(d)
          PROVE  UNCHANGED <<caughtUp, lately>>
      BY <3>3 DEF PrimaryMoves
    <3>4. ASSUME NEW n \in Nodes, NodeFails(n)
          PROVE  caughtUp' = caughtUp \ {n} /\ lately' = lately \cup {n}
      BY <3>4 DEF NodeFails
    <3>5. ASSUME NEW n \in Nodes, MemberCatchesUp(n)
          PROVE  n \in ControlPlanes /\ caughtUp' = caughtUp \cup {n} /\ lately' = lately
      BY <3>5 DEF MemberCatchesUp
    <3>6. UNCHANGED vars => UNCHANGED <<caughtUp, lately>>
      BY DEF vars, cluster
    <3>. QED
      BY <1>6, <3>1, <3>2, <3>3, <3>4, <3>5, <3>6 DEF ByItself, Recovery
  <2>. QED
    BY <2>1, <2>2 DEF TypeOK
<1>. QED
  BY <1>1, <1>2, <1>3, <1>4, <1>5, <1>6, Cases DEF Quiet
-----------------------------------------------------------------------------
(* What the visit has seen of the databases.                               *)

\* A step that touches no database.
LEMMA DatabasesLeftAlone ==
    ASSUME NextVM \/ Look \/ ReadBefore \/ Cordon \/ OpenWindow \/ Reboot \/ Uncordon
           \/ CloseWindow \/ HandBack \/ Failing
    PROVE  /\ UNCHANGED <<ready, primary, target>>
           /\ moves' = moves \/ (moves' = {} /\ pc' \in {"nodes", "done"})
           /\ lately' = lately \/ pc' \in {"nodes", "done"}
BY Stopped DEF NextVM, Look, ReadBefore, Cordon, OpenWindow, Reboot, Uncordon, CloseWindow,
               HandBack, Failing, cluster

\* The switchovers asked for.
LEMMA MovesPlanned ==
    ASSUME TypeOK, Visit, NEW step \in {"cnpg", "maria"}, PlanMoves(step)
    PROVE  /\ \A m \in moves' : m.db \in Leaving(step) /\ m.to \in ReadyElsewhere(m.db)
           /\ \A d \in Leaving(step) : \E m \in moves' : m.db = d
<1>1. PICK to \in [Leaving(step) -> Nodes] :
          /\ \A d \in Leaving(step) : to[d] \in ReadyElsewhere(d)
          /\ moves' = {[db |-> d, to |-> to[d]] : d \in Leaving(step)}
  BY DEF PlanMoves
<1>2. ASSUME NEW m \in moves'
      PROVE  m.db \in Leaving(step) /\ m.to \in ReadyElsewhere(m.db)
  <2>1. PICK d \in Leaving(step) : m = [db |-> d, to |-> to[d]]
    BY <1>1
  <2>. QED
    BY <1>1, <2>1
<1>3. ASSUME NEW d \in Leaving(step)
      PROVE  \E m \in moves' : m.db = d
  <2>1. [db |-> d, to |-> to[d]] \in moves'
    BY <1>1
  <2>. QED
    BY <2>1
<1>. QED
  BY <1>2, <1>3

LEMMA PlacedNext == TypeOK /\ Visit /\ Placed /\ [Next]_vars => Placed'
<1> SUFFICES ASSUME TypeOK, Visit, Placed, [Next]_vars PROVE Placed'
  OBVIOUS
<1> USE DEF Placed
<1>1. CASE Planning
  <2>1. PICK step \in {"cnpg", "maria"} : PlanMoves(step)
    BY <1>1 DEF Planning
  <2>2. \A m \in moves' : m.to \in On[m.db]
    BY <2>1, MovesPlanned DEF ReadyElsewhere
  <2>. QED
    BY <2>1, <2>2 DEF PlanMoves, cluster
<1>2. CASE Patching
  <2>1. PICK step \in {"cnpg_switch", "maria_switch"} : SwitchPrimary(step)
    BY <1>2 DEF Patching
  <2>2. UNCHANGED <<primary, moves>>
    BY <2>1 DEF SwitchPrimary
  <2>3. target' = target \/ \E m \in moves : target' = [target EXCEPT ![m.db] = m.to]
    BY <2>1 DEF SwitchPrimary, TypeOK
  <2>. QED
    BY <2>2, <2>3 DEF TypeOK
<1>3. CASE Drain
  BY <1>3 DEF Drain
<1>4. CASE ByItself
  <2>1. moves' = moves
    BY <1>4, RunLeftAlone DEF run
  <2>2. \/ UNCHANGED <<primary, target>>
        \/ \E d \in Databases : PrimaryMoves(d)
    BY <1>4 DEF ByItself, Recovery, NodeFails, NodeBoots, NodeIsSeen, MemberCatchesUp,
                StaticPodsStart, InstanceReturns, vars, cluster
  <2>3. ASSUME NEW d \in Databases, PrimaryMoves(d)
        PROVE  \E n \in On[d] : /\ primary' = [primary EXCEPT ![d] = n]
                                /\ target' = target \/ target' = [target EXCEPT ![d] = n]
    BY <2>3 DEF PrimaryMoves
  <2>. QED
    BY <2>1, <2>2, <2>3 DEF TypeOK
<1>. QED
  BY <1>1, <1>2, <1>3, <1>4, Cases, DatabasesLeftAlone

LEMMA DatabasesNext ==
    TypeOK /\ Visit /\ SeenTruly /\ Placed /\ DatabasesSeen /\ [Next]_vars => DatabasesSeen'
<1> SUFFICES ASSUME TypeOK, Visit, SeenTruly, Placed, DatabasesSeen, [Next]_vars,
                    pc' \in (Looking \cup Freeing) \ {"nodes", "databases"}, lately' = {}
             PROVE  /\ ready' = Instances
                    /\ pc' \in Switching => \A m \in moves' : m.to # Here'
                    /\ \A d \in Databases :
                          \/ pc' \in Switching /\ \E m \in moves' : m.db = d
                          \/ primary'[d] = target'[d] /\ (d \in Freed' => primary'[d] # Here')
  BY DEF DatabasesSeen
<1> USE DEF Looking, Freeing, Switching, Freed
<1>0. /\ pc \in (Looking \cup Freeing) \ {"nodes", "databases"} /\ lately = {} =>
            /\ ready = Instances
            /\ pc \in Switching => \A m \in moves : m.to # Here
            /\ \A d \in Databases :
                  \/ pc \in Switching /\ \E m \in moves : m.db = d
                  \/ primary[d] = target[d] /\ (d \in Freed => primary[d] # Here)
  BY DEF DatabasesSeen
<1>1. CASE Look
  <2>1. UNCHANGED <<ready, primary, target, moves, Here, lately>>
    BY <1>1 DEF Look, cluster, Here
  <2>2. CASE pc = "databases"
    <3>1. pc' \in {"before", "etcd"} /\ \A d \in Databases : Healthy(d)
      BY <1>1, <2>2, Looked
    <3>2. ready = Instances
      BY <3>1 DEF Healthy, Instances, TypeOK
    <3>. QED
      BY <2>1, <3>1, <3>2 DEF Healthy
  <2>3. CASE pc = "etcd"
    BY <1>0, <1>1, <2>1, <2>3, Looked
  <2>4. CASE pc \in {"cnpg_switched", "maria_switched"}
    <3>1. Switched /\ pc' = IF pc = "cnpg_switched" THEN "window" ELSE "drain"
      BY <1>1, <2>4, Looked
    <3>. QED
      BY <1>0, <2>1, <2>4, <3>1 DEF Switched
  <2>. QED
    BY <1>1, <2>2, <2>3, <2>4, Looked
<1>2. CASE ReadBefore \/ Cordon
  BY <1>0, <1>2, Order DEF ReadBefore, Cordon, Go, cluster, Here
<1>3. CASE Planning
  <2>1. PICK step \in {"cnpg", "maria"} : PlanMoves(step)
    BY <1>3 DEF Planning
  <2>2. /\ pc = step /\ pc' = IF step = "cnpg" THEN "cnpg_switch" ELSE "maria_switch"
        /\ UNCHANGED <<ready, primary, target, Here, lately>>
    BY <2>1, Order DEF PlanMoves, Go, cluster, Here
  <2>3. /\ ready = Instances
        /\ \A d \in Databases : primary[d] = target[d] /\ (d \in Freed => primary[d] # Here)
    BY <1>0, <2>2
  <2>4. \A m \in moves' : m.to # Here
    BY <2>1, MovesPlanned DEF ReadyElsewhere
  <2>5. \A d \in Freed' : primary[d] = Here => \E m \in moves' : m.db = d
    <3>1. CASE step = "cnpg"
      <4>1. Freed' = Replicated \ Maria
        BY <2>2, <3>1
      <4>. QED
        BY <2>1, <3>1, <4>1, MovesPlanned DEF Leaving
    <3>2. CASE step = "maria"
      <4>1. Freed' = Replicated /\ Freed = Replicated \ Maria
        BY <2>2, <3>2
      <4>2. \A d \in Replicated \ Maria : primary[d] # Here
        BY <2>3, <4>1 DEF Replicated
      <4>. QED
        BY <2>1, <3>2, <4>1, <4>2, MovesPlanned DEF Leaving
    <3>. QED
      BY <3>1, <3>2
  <2>. QED
    BY <2>2, <2>3, <2>4, <2>5
<1>4. CASE Patching
  <2>1. PICK step \in {"cnpg_switch", "maria_switch"} : SwitchPrimary(step)
    BY <1>4 DEF Patching
  <2>2. /\ pc = step /\ UNCHANGED <<ready, primary, moves, Here, lately>>
        /\ pc' \in {pc, IF step = "cnpg_switch" THEN "cnpg_switched" ELSE "maria_switched"}
    BY <2>1, Order DEF SwitchPrimary, Go, Here
  <2>3. Freed' = Freed /\ pc' \in Switching
    BY <2>1, <2>2, <1>0
  <2>4. target' = target \/ \E m \in moves : target' = [target EXCEPT ![m.db] = m.to]
    BY <2>1 DEF SwitchPrimary, TypeOK
  <2>5. \A d \in Databases : target'[d] = target[d] \/ \E m \in moves : m.db = d
    BY <2>4 DEF TypeOK
  <2>. QED
    BY <1>0, <2>2, <2>3, <2>5
<1>5. CASE OpenWindow
  BY <1>0, <1>5, Order DEF OpenWindow, Go, cluster, Here
<1>6. CASE Drain \/ Reboot \/ Uncordon \/ CloseWindow \/ HandBack \/ NextVM \/ Failing
  BY <1>6, Order, Stopped DEF Drain, Reboot, Uncordon, CloseWindow, HandBack, NextVM, Failing, Go
<1>7. CASE ByItself
  <2>1. UNCHANGED <<pc, moves, Here>>
    BY <1>7, RunLeftAlone DEF run, Here
  <2>2. lately = {}
    BY <1>7, NodeByItself, ClusterTyped DEF TypeOK
  <2>3. \A n \in Nodes : SeenAsItIs(n)
    BY <2>1, <2>2 DEF SeenTruly
  <2>4. /\ ready = Instances
        /\ pc \in Switching => \A m \in moves : m.to # Here
        /\ \A d \in Databases :
              \/ pc \in Switching /\ \E m \in moves : m.db = d
              \/ primary[d] = target[d] /\ (d \in Freed => primary[d] # Here)
    BY <1>0, <2>1, <2>2
  <2>5. ready' = ready
    BY <1>7, <2>3, <2>4 DEF ByItself, Recovery, NodeFails, NodeBoots, NodeIsSeen, MemberCatchesUp,
                StaticPodsStart, InstanceReturns, PrimaryMoves, vars, cluster
  <2>6. \/ UNCHANGED <<primary, target>>
        \/ \E d \in Databases : PrimaryMoves(d)
    BY <1>7 DEF ByItself, Recovery, NodeFails, NodeBoots, NodeIsSeen, MemberCatchesUp,
                StaticPodsStart, InstanceReturns, vars, cluster
  <2>7. ASSUME NEW d \in Databases, PrimaryMoves(d)
        PROVE  /\ primary[d] # target[d] /\ primary' = [primary EXCEPT ![d] = target[d]]
               /\ target' = target
    <3>1. <<d, primary[d]>> \in ready
      BY <2>4 DEF Placed, Instances, TypeOK
    <3>. QED
      BY <2>7, <3>1 DEF PrimaryMoves
  <2>8. Freed' = Freed
    BY <2>1
  <2>. QED
    BY <2>1, <2>4, <2>5, <2>6, <2>7, <2>8 DEF TypeOK
<1>. QED
  BY <1>1, <1>2, <1>3, <1>4, <1>5, <1>6, <1>7, Cases
-----------------------------------------------------------------------------
(* What a visit has seen come back.                                        *)

LEMMA WindowsNext == TypeOK /\ Visit /\ WindowsOpened /\ [Next]_vars => WindowsOpened'
<1> SUFFICES ASSUME TypeOK, Visit, WindowsOpened, [Next]_vars PROVE WindowsOpened'
  OBVIOUS
<1> USE DEF WindowsOpened, Looking, Freeing, Closing
<1>1. CASE NextVM
  BY <1>1 DEF NextVM, Visit
<1>2. CASE Look
  <2>1. UNCHANGED <<window, opened, Here, stopped>>
    BY <1>2 DEF Look, Here
  <2>. QED
    BY <1>2, <2>1, Looked
<1>3. CASE ReadBefore \/ Cordon \/ Drain \/ Reboot \/ Uncordon
  BY <1>3, Order DEF ReadBefore, Cordon, Drain, Reboot, Uncordon, Go, Here
<1>4. CASE Planning
  <2>1. PICK step \in {"cnpg", "maria"} : PlanMoves(step)
    BY <1>4 DEF Planning
  <2>2. UNCHANGED <<window, Here>>
    BY <2>1 DEF PlanMoves, Here
  <2>3. CASE step = "cnpg"
    <3>1. /\ pc = "cnpg" /\ pc' = "cnpg_switch"
          /\ opened' = {d \in Databases \ (Maria \cup Replicated) : Here \in On[d]}
      BY <2>1, <2>3, Order DEF PlanMoves, Go
    <3>. QED
      BY <2>2, <3>1
  <2>4. CASE step = "maria"
    <3>1. pc = "maria" /\ pc' = "maria_switch" /\ opened' = opened
      BY <2>1, <2>4, Order DEF PlanMoves, Go
    <3>. QED
      BY <2>2, <3>1
  <2>. QED
    BY <2>3, <2>4
<1>5. CASE Patching
  BY <1>5, Order DEF Patching, SwitchPrimary, Go, Here
<1>6. CASE OpenWindow
  BY <1>6, Order DEF OpenWindow, Go, Here
<1>7. CASE CloseWindow
  BY <1>7, Order DEF CloseWindow, Go, Here
<1>8. CASE HandBack
  BY <1>8, Order DEF HandBack, Go
<1>9. CASE Failing
  BY <1>9, Stopped DEF Failing
<1>10. CASE ByItself
  BY <1>10, RunLeftAlone DEF run, Here
<1>. QED
  BY <1>1, <1>2, <1>3, <1>4, <1>5, <1>6, <1>7, <1>8, <1>9, <1>10, Cases

\* What is back on a node stays, until the node fails.
LEMMA StaysBack ==
    ASSUME TypeOK, ByItself, NEW n \in Nodes, n \notin lately' \/ n \in returned',
           seen[n].ready, SeenAsItIs(n)
    PROVE  /\ seen'[n].ready /\ SeenAsItIs(n)'
           /\ \A d \in Databases : <<d, n>> \in ready => <<d, n>> \in ready'
           /\ n \in serving => n \in serving'
           /\ n \in caughtUp => n \in caughtUp'
<1>1. seen'[n].ready /\ SeenAsItIs(n)'
  BY NodeByItself DEF SeenAsItIs
<1>2. \/ ready \subseteq ready'
      \/ \E m \in Nodes : ~SeenAsItIs(m) /\ ready' = {i \in ready : i[2] # m}
  BY DEF ByItself, Recovery, NodeFails, NodeBoots, NodeIsSeen, MemberCatchesUp,
         StaticPodsStart, InstanceReturns, PrimaryMoves, vars, cluster
<1>3. \A d \in Databases : <<d, n>> \in ready => <<d, n>> \in ready'
  BY <1>2
<1>4. \/ serving \subseteq serving' /\ caughtUp \subseteq caughtUp'
      \/ \E m \in Nodes : NodeFails(m)
  BY DEF ByItself, Recovery, NodeBoots, NodeIsSeen, MemberCatchesUp,
         StaticPodsStart, InstanceReturns, PrimaryMoves, vars, cluster
<1>5. ASSUME NEW m \in Nodes, NodeFails(m)
      PROVE  m # n /\ serving' = serving \ {m} /\ caughtUp' = caughtUp \ {m}
  BY <1>5 DEF NodeFails
<1>. QED
  BY <1>1, <1>3, <1>4, <1>5

LEMMA BackHereNext == TypeOK /\ Visit /\ NewBoot /\ BackHere /\ [Next]_vars => BackHere'
<1> SUFFICES ASSUME TypeOK, Visit, NewBoot, BackHere, [Next]_vars PROVE BackHere'
  OBVIOUS
<1> USE DEF BackHere, Upgrading
<1>1. CASE Look
  <2>1. UNCHANGED <<cluster, Here, lately>>
    BY <1>1 DEF Look, Here
  <2>2. CASE pc \in {"whole", "static", "etcd_again", "nodes_again"}
    BY <1>1, <2>1, <2>2, Looked DEF cluster, Healthy, EtcdWhole
  <2>3. CASE pc \notin {"whole", "static", "etcd_again", "nodes_again"}
    BY <1>1, <2>3, Looked
  <2>. QED
    BY <2>2, <2>3
<1>2. CASE NextVM \/ HandBack \/ Failing
  BY <1>2, Order, Stopped DEF NextVM, HandBack, Failing, Go
<1>3. CASE ReadBefore \/ Cordon \/ Planning \/ Patching \/ OpenWindow
  BY <1>3, Order DEF ReadBefore, Cordon, Planning, PlanMoves, Patching, SwitchPrimary, OpenWindow, Go
<1>4. CASE Drain \/ Reboot \/ Uncordon \/ CloseWindow
  BY <1>4, Order DEF Drain, Reboot, Uncordon, CloseWindow, Go
<1>5. CASE ByItself
  <2>1. UNCHANGED <<pc, Here, playbook>>
    BY <1>5, RunLeftAlone DEF run, Here
  <2>2. CASE pc \in {"static", "etcd_again", "nodes_again", "handback"} /\ Here \notin lately'
    <3>1. Here \in Nodes /\ Here \notin lately
      BY <1>5, <2>2, HereIsANode, NodeByItself DEF Steps, Closing
    <3>2. seen[Here].ready /\ SeenAsItIs(Here)
      BY <2>2, <3>1 DEF NewBoot, Closing
    <3>3. /\ \A d \in Databases : <<d, Here>> \in ready => <<d, Here>> \in ready'
          /\ Here \in serving => Here \in serving'
          /\ Here \in caughtUp => Here \in caughtUp'
      BY <1>5, <2>2, <3>1, <3>2, StaysBack
    <3>. QED
      BY <2>1, <2>2, <3>1, <3>3
  <2>3. CASE ~(pc \in {"static", "etcd_again", "nodes_again", "handback"} /\ Here \notin lately')
    BY <2>1, <2>3
  <2>. QED
    BY <2>2, <2>3
<1>. QED
  BY <1>1, <1>2, <1>3, <1>4, <1>5, Cases
LEMMA ComesBackNext ==
    /\ TypeOK /\ Visit /\ NewBoot /\ WindowsOpened /\ BackHere /\ ComesBack /\ Progress
    /\ [Next]_vars
    => ComesBack'
<1> SUFFICES ASSUME TypeOK, Visit, NewBoot, WindowsOpened, BackHere, ComesBack, Progress, [Next]_vars,
                    NEW n \in returned'
             PROVE  Whole(n)'
  BY DEF ComesBack
<1> USE DEF Whole, SeenAsItIs, Upgrading
<1>0. ASSUME pc \in Steps
      PROVE  Here \in Nodes /\ Here \notin returned
  BY <1>0, HereIsANode DEF Progress
<1>1. CASE NextVM \/ Look \/ ReadBefore \/ Planning
  BY <1>1 DEF NextVM, Look, ReadBefore, Planning, PlanMoves, cluster, ComesBack
<1>2. CASE Patching
  BY <1>2 DEF Patching, SwitchPrimary, ComesBack
<1>3. CASE Cordon
  <2>1. n \in returned /\ n # Here /\ cordoned' = cordoned \cup {Here}
    BY <1>0, <1>3 DEF Cordon, Go, Steps, Looking
  <2>. QED
    BY <1>3, <2>1 DEF Cordon, cluster, ComesBack
<1>4. CASE OpenWindow
  <2>1. n \in returned /\ n \in Nodes /\ n # Here
    BY <1>0, <1>4 DEF OpenWindow, Steps, Freeing, TypeOK
  <2>2. \A d \in window' \ window : d \in Databases \ Replicated /\ Here \in On[d]
    BY <1>4 DEF OpenWindow, WindowsOpened, Freeing
  <2>3. \A d \in window' \ window : n \notin On[d]
    BY <2>1, <2>2, OnlyInstance
  <2>. QED
    BY <1>4, <2>1, <2>3 DEF OpenWindow, cluster, ComesBack
<1>5. CASE Drain \/ Reboot
  <2>1. n \in returned /\ n # Here
    BY <1>0, <1>5 DEF Drain, Reboot, Go, Steps, Freeing
  <2>. QED
    BY <1>5, <2>1 DEF Drain, Reboot, ComesBack
<1>6. CASE Uncordon \/ CloseWindow
  BY <1>6 DEF Uncordon, CloseWindow, cluster, ComesBack
<1>7. CASE HandBack
  <2>1. UNCHANGED <<cluster, window, cordoned>> /\ pc = "handback"
    BY <1>7 DEF HandBack, Go
  <2>2. CASE n \in returned
    BY <2>1, <2>2 DEF ComesBack, cluster
  <2>3. CASE n \notin returned
    <3>1. n = Here /\ Here \notin lately
      BY <1>7, <2>3 DEF HandBack
    <3>2. seen[n].ready /\ SeenAsItIs(n) /\ cordoned = {} /\ window = {}
      BY <2>1, <3>1 DEF NewBoot, Visit, WindowsOpened, Closing
    <3>3. \A d \in Databases : n \in On[d] => <<d, n>> \in ready
      BY <2>1, <3>1 DEF BackHere
    <3>4. (n \in ControlPlanes /\ ~Upgrading) => (n \in serving /\ n \in caughtUp)
      BY <2>1, <3>1 DEF BackHere
    <3>. QED
      BY <2>1, <3>2, <3>3, <3>4 DEF cluster
  <2>. QED
    BY <2>2, <2>3
<1>8. CASE Failing
  BY <1>8, Stopped DEF Failing, cluster, ComesBack
<1>9. CASE ByItself
  <2>1. UNCHANGED <<window, cordoned, playbook>>
    BY <1>9, RunLeftAlone
  <2>2. returned' \subseteq returned /\ n \in Nodes
    BY <1>9, ClusterTyped DEF ByItself, Recovery, NodeFails, NodeBoots, NodeIsSeen, MemberCatchesUp,
           StaticPodsStart, InstanceReturns, PrimaryMoves, vars, TypeOK
  <2>3. Whole(n)
    BY <2>2 DEF ComesBack
  <2>4. /\ seen'[n].ready /\ SeenAsItIs(n)'
        /\ \A d \in Databases : <<d, n>> \in ready => <<d, n>> \in ready'
        /\ n \in serving => n \in serving'
        /\ n \in caughtUp => n \in caughtUp'
    BY <1>9, <2>2, <2>3, StaysBack
  <2>. QED
    BY <2>1, <2>3, <2>4
<1>. QED
  BY <1>1, <1>2, <1>3, <1>4, <1>5, <1>6, <1>7, <1>8, <1>9, Cases

\* The visited node is one of those left, and only that one is taken off.
LEMMA TakenOff ==
    ASSUME left \in Seq(Nodes), left # <<>>,
           \A i, j \in DOMAIN left : left[i] = left[j] => i = j
    PROVE  /\ \A i, j \in DOMAIN Tail(left) : Tail(left)[i] = Tail(left)[j] => i = j
           /\ {Tail(left)[i] : i \in DOMAIN Tail(left)} = Left \ {Here}
<1>1. /\ Len(left) \in Nat \ {0} /\ DOMAIN left = 1..Len(left)
      /\ DOMAIN Tail(left) = 1..(Len(left) - 1)
      /\ \A i \in 1..(Len(left) - 1) : Tail(left)[i] = left[i + 1]
      /\ Here = left[1]
  BY DEF Here
<1>2. \A i, j \in DOMAIN Tail(left) : Tail(left)[i] = Tail(left)[j] => i = j
  BY <1>1
<1>3. ASSUME NEW i \in DOMAIN Tail(left)
      PROVE  Tail(left)[i] \in Left \ {Here}
  BY <1>1, <1>3 DEF Left
<1>4. ASSUME NEW n \in Left \ {Here}
      PROVE  \E i \in DOMAIN Tail(left) : n = Tail(left)[i]
  <2>1. PICK i \in DOMAIN left : n = left[i]
    BY <1>4 DEF Left
  <2>2. i - 1 \in DOMAIN Tail(left) /\ Tail(left)[i - 1] = n
    BY <1>1, <1>4, <2>1
  <2>. QED
    BY <2>2
<1>. QED
  BY <1>2, <1>3, <1>4

LEMMA ProgressNext == TypeOK /\ Visit /\ NewBoot /\ Progress /\ [Next]_vars => Progress'
<1> SUFFICES ASSUME TypeOK, Visit, NewBoot, Progress, [Next]_vars PROVE Progress'
  OBVIOUS
<1> USE DEF Progress
<1>1. CASE HandBack
  <2>1. pc = "handback" /\ left # <<>> /\ left \in Seq(Nodes) /\ Here \in Left
    BY <1>1, HereIsANode DEF HandBack, Go, TypeOK, Steps, Closing
  <2>2. left' = Tail(left) /\ returned' \subseteq returned \cup {Here} /\ boots' = boots
    BY <1>1 DEF HandBack, cluster
  <2>3. /\ \A i, j \in DOMAIN left' : left'[i] = left'[j] => i = j
        /\ Left' = Left \ {Here}
    BY <2>1, <2>2, TakenOff DEF Left
  <2>4. boots[Here] > 0
    BY <2>1 DEF NewBoot, Closing
  <2>. QED
    BY <2>2, <2>3, <2>4
<1>2. CASE ByItself
  <2>1. left' = left /\ Left' = Left
    BY <1>2, RunLeftAlone DEF run, Left
  <2>2. returned' \subseteq returned
    BY <1>2 DEF ByItself, Recovery, NodeFails, NodeBoots, NodeIsSeen, MemberCatchesUp,
           StaticPodsStart, InstanceReturns, PrimaryMoves, vars
  <2>3. \A n \in Nodes : boots[n] > 0 => boots'[n] > 0
    <3> TAKE n \in Nodes
    <3>1. boots[n] \in Nat /\ boots'[n] \in {boots[n], boots[n] + 1}
      BY <1>2, NodeByItself DEF TypeOK
    <3>. QED
      BY <3>1
  <2>4. Planned \subseteq Nodes
    BY ClusterAssumption DEF Planned
  <2>. QED
    BY <2>1, <2>2, <2>3, <2>4
<1>3. CASE ~HandBack /\ ~ByItself
  <2>1. UNCHANGED <<left, returned, boots>>
    <3>1. CASE NextVM \/ Look \/ ReadBefore \/ Cordon \/ Planning \/ Patching \/ OpenWindow
      BY <3>1 DEF NextVM, Look, ReadBefore, Cordon, Planning, PlanMoves, Patching, SwitchPrimary,
                  OpenWindow, cluster
    <3>2. CASE Drain \/ Reboot \/ Uncordon \/ CloseWindow \/ Failing
      BY <3>2, Stopped DEF Drain, Reboot, Uncordon, CloseWindow, Failing, cluster
    <3>. QED
      BY <1>3, <3>1, <3>2, Cases
  <2>. QED
    BY <2>1 DEF Left
<1>. QED
  BY <1>1, <1>2, <1>3

-----------------------------------------------------------------------------
(* The inductive invariant, and what follows from it.                      *)

IInv ==
    /\ TypeOK /\ Visit /\ SeenTruly /\ NewBoot /\ QuorumSeen /\ Placed /\ DatabasesSeen
    /\ WindowsOpened /\ BackHere /\ ComesBack /\ Progress

LEMMA InitIInv == Init => IInv
<1> SUFFICES ASSUME Init PROVE IInv
  OBVIOUS
<1>1. TypeOK /\ Visit
  BY VisitInit
<1> USE ClusterAssumption DEF Init
<1>2. SeenTruly /\ NewBoot /\ QuorumSeen
  BY DEF SeenTruly, NewBoot, QuorumSeen, SeenAsItIs, Looking, Freeing, Closing
<1>3. Placed /\ DatabasesSeen
  BY DEF Placed, DatabasesSeen, Looking, Freeing
<1>4. WindowsOpened /\ BackHere /\ ComesBack
  BY DEF WindowsOpened, BackHere, ComesBack, Looking, Freeing, Closing
<1>5. Progress
  BY DEF Progress, Left, Planned
<1>. QED
  BY <1>1, <1>2, <1>3, <1>4, <1>5 DEF IInv

LEMMA NextIInv == IInv /\ [Next]_vars => IInv'
BY VisitNext, TypesNext, SeenNext, NewBootNext, QuorumNext, PlacedNext, DatabasesNext,
   WindowsNext, BackHereNext, ComesBackNext, ProgressNext DEF IInv

\* The invariant holds in every state of every behaviour.
THEOREM Invariance == Spec => []IInv
BY InitIInv, NextIInv, PTL DEF Spec

\* The variables keep their types.
THEOREM TypesHold == Spec => []TypeOK
BY Invariance, PTL DEF IInv

\* At most one node is out of service by the run's hand, and a node takes pods
\* again only when it really is back.
THEOREM OneOut == Spec => []OneOutAtATime
<1>1. IInv => OneOutAtATime
  <2>1. ASSUME Visit PROVE Cardinality(cordoned) <= 1
    <3>1. cordoned = {} \/ \E n \in Nodes : cordoned = {n}
      BY <2>1 DEF Visit
    <3>2. Cardinality({}) = 0 /\ \A n \in Nodes : Cardinality({n}) = 1
      BY FS_EmptySet, FS_Singleton
    <3>. QED
      BY <3>1, <3>2
  <2>. QED
    BY <2>1 DEF IInv, SeenTruly, OneOutAtATime
<1>. QED
  BY <1>1, Invariance, PTL

\* A node a visit handed back is whole until it fails by itself, and a run
\* that says every node was done restarted every one of them.
THEOREM HandedBack == Spec => []HandedBackWhole
<1>1. IInv => HandedBackWhole
  <2> SUFFICES ASSUME IInv PROVE HandedBackWhole
    OBVIOUS
  <2>1. ASSUME NEW n \in returned
        PROVE  /\ n \in running \ cordoned
               /\ \A d \in Databases : n \in On[d] => <<d, n>> \in ready /\ d \notin window
               /\ (n \in ControlPlanes /\ ~Upgrading) => (n \in serving /\ n \in caughtUp)
    BY <2>1 DEF IInv, ComesBack, Whole, SeenAsItIs
  <2>2. ASSUME pc = "done", ~stopped
        PROVE  cordoned = {} /\ \A n \in Planned : boots[n] > 0
    <3>1. cordoned = {} /\ left = <<>>
      BY <2>2 DEF IInv, Visit
    <3>2. Left = {}
      BY <3>1 DEF Left
    <3>. QED
      BY <3>1, <3>2 DEF IInv, Progress
  <2>. QED
    BY <2>1, <2>2 DEF HandedBackWhole
<1>. QED
  BY <1>1, Invariance, PTL

\* A reboot leaves the caught-up members a majority, in a cluster of three
\* control planes or more: of two, one is none.
THEOREM QuorumSurvives ==
    ASSUME Cardinality(ControlPlanes) > 2
    PROVE  Spec => QuorumSurvivesTheReboot
<1>1. IInv /\ [Next]_vars =>
          ((pc = "reboot" /\ pc' = "return" /\ Here \in ControlPlanes /\ ~Upgrading) =>
              \/ lately \cap ControlPlanes # {}
              \/ 2 * Cardinality(caughtUp') > Cardinality(ControlPlanes))
  <2> SUFFICES ASSUME IInv, [Next]_vars, pc = "reboot", pc' = "return",
                      Here \in ControlPlanes, ~Upgrading, lately \cap ControlPlanes = {}
               PROVE  2 * Cardinality(caughtUp') > Cardinality(ControlPlanes)
    OBVIOUS
  <2>1. Reboot
    <3>1. ~(NextVM \/ ReadBefore \/ Cordon \/ Planning \/ Patching \/ OpenWindow
            \/ Drain \/ Uncordon \/ CloseWindow \/ HandBack)
      BY DEF NextVM, ReadBefore, Cordon, Planning, PlanMoves, Patching, SwitchPrimary, OpenWindow,
             Drain, Uncordon, CloseWindow, HandBack, Go
    <3>2. ~(Look \/ Failing \/ ByItself)
      BY Looked, Stopped, RunLeftAlone DEF Failing, run
    <3>. QED
      BY <3>1, <3>2, Cases
  <2>2. caughtUp' = ControlPlanes \ {Here}
    BY <2>1 DEF Reboot, IInv, QuorumSeen
  <2>3. IsFiniteSet(ControlPlanes) /\ Cardinality(ControlPlanes) \in Nat
    BY ClusterAssumption, FS_Subset, FS_CardinalityType
  <2>4. Cardinality(caughtUp') = Cardinality(ControlPlanes) - 1
    BY <2>2, <2>3, FS_RemoveElement
  <2>. QED
    BY <2>3, <2>4
<1>. QED
  BY <1>1, Invariance, PTL DEF Spec, QuorumSurvivesTheReboot

\* The drain of a node takes neither a primary nor the last ready instance.
THEOREM DrainSpares == Spec => DrainSparesDatabases
<1>1. IInv /\ [Next]_vars =>
          ((pc = "drain" /\ pc' = "reboot") =>
              \/ lately # {}
              \/ \A d \in Replicated : /\ primary[d] # Here
                                       /\ \E n \in On[d] : <<d, n>> \in ready')
  <2> SUFFICES ASSUME IInv, [Next]_vars, pc = "drain", pc' = "reboot", lately = {},
                      NEW d \in Replicated
               PROVE  primary[d] # Here /\ \E n \in On[d] : <<d, n>> \in ready'
    OBVIOUS
  <2>1. Drain
    <3>1. ~(NextVM \/ ReadBefore \/ Cordon \/ Planning \/ Patching \/ OpenWindow
            \/ Reboot \/ Uncordon \/ CloseWindow \/ HandBack)
      BY DEF NextVM, ReadBefore, Cordon, Planning, PlanMoves, Patching, SwitchPrimary, OpenWindow,
             Reboot, Uncordon, CloseWindow, HandBack, Go
    <3>2. ~(Look \/ Failing \/ ByItself)
      BY Looked, Stopped, RunLeftAlone DEF Failing, run
    <3>. QED
      BY <3>1, <3>2, Cases
  <2>2. d \in Databases /\ primary[d] \in On[d] /\ ready = Instances /\ primary[d] # Here
    BY DEF IInv, Placed, DatabasesSeen, Switching, Freed, Freeing, Replicated
  <2>3. <<d, primary[d]>> \in ready /\ primary[d] \in Nodes
    BY <2>2 DEF Instances, IInv, TypeOK
  <2>4. <<d, primary[d]>> \in ready'
    BY <2>1, <2>2, <2>3 DEF Drain
  <2>. QED
    BY <2>2, <2>4
<1>. QED
  BY <1>1, Invariance, PTL DEF Spec, DrainSparesDatabases
=============================================================================
