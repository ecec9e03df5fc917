----------------------------- MODULE TalosReboot -----------------------------
(***************************************************************************)
(* The rolling visits of the Talos nodes: ansible/talos-reboot.yml with    *)
(* tasks/talos-vm-reboot.yml, and ansible/talos-update.yml with            *)
(* tasks/talos-node-upgrade.yml.                                           *)
(*                                                                         *)
(* One run takes the nodes of Plan one at a time.  A visit is a fixed      *)
(* order of steps (Following): checks, the drain, the reboot, waits until  *)
(* everything is back.  A step that fails, or waits too long, stops the    *)
(* run, and the nodes after it are left alone.  Meanwhile the cluster      *)
(* moves by itself: a node fails and comes back, its etcd member and its   *)
(* static pods take their time, databases switch and fail over.            *)
(*                                                                         *)
(* What the API says of a node (seen) lags behind the node: a node that    *)
(* went down still reads as Ready until its status is marked stale, and    *)
(* its new boot ID is read only once it reports again.  etcd is asked      *)
(* directly, each member for itself, so its answers do not lag.            *)
(*                                                                         *)
(* Abstractions.  A database is where its instances live and which         *)
(* operator runs it; the other pods of a node, the capacity warning, the   *)
(* pending changes of the VM and the messages are left out, and every      *)
(* way in which such a step can fail is one fault, "call".  check mode     *)
(* changes nothing and is left out.                                        *)
(***************************************************************************)
EXTENDS Naturals, FiniteSets, Sequences

CONSTANTS
    Nodes,          \* the Kubernetes nodes
    ControlPlanes,  \* those with an etcd member and the static pods
    Plan,           \* the nodes to visit, in order
    Databases,      \* CloudNativePG clusters and MariaDBs
    On,             \* On[d]: the nodes that hold an instance of d
    Maria,          \* the databases mariadb-operator runs
    Playbooks,      \* which of the two may be run: subset of PlaybookNames
    Faults,         \* what may go wrong in a run: subset of FaultKinds
    MaxFailures     \* how often a node fails by itself

PlaybookNames == {"talos-reboot", "talos-update"}
FaultKinds == {"call", "timeout", "unreachable"}
Planned == {Plan[i] : i \in DOMAIN Plan}
Instances == {i \in Databases \X Nodes : i[2] \in On[i[1]]}
Replicated == {d \in Databases : Cardinality(On[d]) > 1}

ASSUME ClusterAssumption ==
    /\ IsFiniteSet(Nodes) /\ ControlPlanes \subseteq Nodes
    /\ Plan \in Seq(Nodes)
    /\ \A i, j \in DOMAIN Plan : Plan[i] = Plan[j] => i = j
    /\ On \in [Databases -> SUBSET Nodes] /\ \A d \in Databases : On[d] # {}
    /\ Maria \subseteq Databases
    /\ Playbooks \subseteq PlaybookNames
    /\ Faults \subseteq FaultKinds /\ MaxFailures \in Nat

VARIABLES
    \* the cluster
    running,    \* the nodes that are up
    boots,      \* boots[n]: which boot n is on
    seen,       \* seen[n]: what the API says of n, [ready, boot]
    caughtUp,   \* control planes whose etcd member answers and is caught up
    serving,    \* control planes whose three static pods are Ready
    ready,      \* the database instances that are Ready
    primary,    \* primary[d]: the node of d's primary
    target,     \* target[d]: the node d's primary is to be on
    window,     \* single-instance databases with a maintenance window open
    cordoned,   \* nodes that take no pods
    failures,   \* nodes that failed by themselves, counted
    \* the run
    playbook,   \* the playbook it is a run of
    left,       \* the nodes still to visit, the one being visited first
    pc,         \* the step the run is at
    stopped,    \* talos_stopped_at is set
    before,     \* the boot ID read before the reboot
    moves,      \* the primaries to switch: [db, to]
    todo,       \* those of them not yet asked for
    opened,     \* cnpg_maintenance: the windows this visit opens
    \* what the properties look back on
    lately,     \* nodes that failed by themselves, unseen by this visit's checks
    returned    \* nodes handed back by a visit, and not failed since

cluster == <<running, boots, seen, caughtUp, serving, ready, primary, target, failures, playbook>>
run == <<left, pc, stopped, before, moves, todo, opened>>
vars == <<cluster, window, cordoned, run, lately, returned>>

Here == Head(left)
Upgrading == playbook = "talos-update"

\* What the API says of a node is what the node is.
SeenAsItIs(n) == (seen[n].ready <=> n \in running) /\ (n \in running => seen[n].boot = boots[n])

-----------------------------------------------------------------------------
(* The order of a visit.                                                   *)

\* The upgrade looks at neither etcd nor the static pods, and does not wait for
\* the other nodes again.
VisitOrder ==
    [nodes |-> "databases", databases |-> IF Upgrading THEN "before" ELSE "etcd",
     etcd |-> "before", before |-> "cordon", cordon |-> "cnpg",
     cnpg |-> "cnpg_switch", cnpg_switch |-> "cnpg_switched", cnpg_switched |-> "window",
     window |-> "maria", maria |-> "maria_switch", maria_switch |-> "maria_switched",
     maria_switched |-> "drain", drain |-> "reboot", reboot |-> "return",
     return |-> "uncordon", uncordon |-> "close", close |-> "whole",
     whole |-> IF Upgrading THEN "handback" ELSE "static", static |-> "etcd_again",
     etcd_again |-> "nodes_again", nodes_again |-> "handback", handback |-> "next"]

\* The databases awaited before the node takes pods again: their instances
\* on it cannot return.
Following_WholeFirst ==
    [VisitOrder EXCEPT !["return"] = "whole", !["whole"] = "uncordon", !["close"] = "static"]
\* No look at etcd before the drain.
Following_NoEtcdCheck == [VisitOrder EXCEPT !["databases"] = "before"]
\* The drain right after the switchovers are asked for.
Following_NoSwitchWait == [VisitOrder EXCEPT !["maria_switch"] = "drain"]
\* The maintenance windows are left open.
Following_WindowsStayOpen == [VisitOrder EXCEPT !["uncordon"] = "whole"]

\* The step after each step.
Following == VisitOrder

Checks == {"nodes", "databases", "etcd"}          \* looked at once
Waits == {"cnpg_switched", "maria_switched", "drain", "return", "whole", "static",
          "etcd_again", "nodes_again"}            \* looked at until they hold
ProxmoxCalls == {"before", "reboot", "return"}    \* delegated to pve_api_host

-----------------------------------------------------------------------------
(* What the checks and the waits look at.                                  *)

NodesReady == \A n \in Nodes : seen[n].ready
EtcdWhole == caughtUp = ControlPlanes
Healthy(d) == primary[d] = target[d] /\ \A n \in On[d] : <<d, n>> \in ready
Switched == \A m \in moves : primary[m.db] = m.to /\ target[m.db] = m.to

\* Ready on a boot that is not the one read before.
BackOnANewBoot_AnyBoot == seen[Here].ready
BackOnANewBoot == seen[Here].ready /\ seen[Here].boot # before

\* The disruption budgets let the node's CloudNativePG instances go.
MayEvict ==
    \A d \in Databases \ Maria : <<d, Here>> \in ready =>
        IF d \in Replicated THEN primary[d] # Here ELSE d \in window

Met(step) ==
    CASE step \in {"nodes", "nodes_again"} -> NodesReady
      [] step \in {"databases", "whole"} -> \A d \in Databases : Healthy(d)
      [] step = "etcd" -> EtcdWhole
      [] step \in {"cnpg_switched", "maria_switched"} -> Switched
      [] step = "drain" -> MayEvict
      [] step = "return" -> BackOnANewBoot
      [] step = "static" -> Here \in ControlPlanes => Here \in serving
      [] step = "etcd_again" -> Here \in ControlPlanes => EtcdWhole
      [] OTHER -> TRUE

-----------------------------------------------------------------------------
Init ==
    /\ running = Nodes /\ boots = [n \in Nodes |-> 0]
    /\ seen = [n \in Nodes |-> [ready |-> TRUE, boot |-> 0]]
    /\ caughtUp = ControlPlanes /\ serving = ControlPlanes
    /\ ready = Instances
    /\ primary \in {p \in [Databases -> Nodes] : \A d \in Databases : p[d] \in On[d]}
    /\ target = primary
    /\ window = {} /\ cordoned = {} /\ failures = 0
    /\ playbook \in Playbooks
    /\ left = Plan /\ pc = "next" /\ stopped = FALSE
    /\ before = 0 /\ moves = {} /\ todo = {} /\ opened = {}
    /\ lately = {} /\ returned = {}

-----------------------------------------------------------------------------
(* The run.                                                                *)

Go(step) == pc = step /\ pc' = Following[step]

\* The next node, unless one before it failed or none is left.
NextVM ==
    /\ pc = "next"
    /\ pc' = IF stopped \/ left = <<>> THEN "done" ELSE "nodes"
    /\ moves' = {} /\ todo' = {} /\ opened' = {}
    /\ lately' = {n \in Nodes : seen[n].ready /\ ~SeenAsItIs(n)}
    /\ UNCHANGED <<cluster, window, cordoned, left, stopped, before, returned>>

\* A step that only looks, and goes on when what it looks for holds.
Look ==
    /\ pc \in (Checks \cup Waits) \ {"drain"}
    /\ Met(pc)
    /\ Go(pc)
    /\ UNCHANGED <<cluster, window, cordoned, left, stopped, before, moves, todo, opened,
                   lately, returned>>

ReadBefore ==
    /\ Go("before")
    /\ before' = seen[Here].boot
    /\ UNCHANGED <<cluster, window, cordoned, left, stopped, moves, todo, opened, lately, returned>>

Cordon ==
    /\ Go("cordon")
    /\ cordoned' = cordoned \cup {Here}
    /\ UNCHANGED <<cluster, window, left, stopped, before, moves, todo, opened, lately, returned>>

\* cnpg-free-node.yml, then mariadb-free-node.yml: the databases of its kind
\* whose primary is here, and a ready instance on another node for each.
Leaving(step) ==
    {d \in Replicated : primary[d] = Here /\ (d \in Maria <=> step = "maria")}
ReadyElsewhere(d) == {n \in On[d] \ {Here} : <<d, n>> \in ready}
CanMove(step) ==
    \A d \in Leaving(step) : ReadyElsewhere(d) # {} /\ (d \in Maria => Healthy(d))

\* The switchovers worked out and gone on with, with no replica to name.
PlanMoves_NotAsserted(step) ==
    /\ Go(step)
    /\ moves' = {[db |-> d, to |-> IF ReadyElsewhere(d) = {} THEN ""
                                   ELSE CHOOSE n \in ReadyElsewhere(d) : TRUE] : d \in Leaving(step)}
    /\ todo' = moves'
    /\ opened' = {}
    /\ UNCHANGED <<cluster, window, cordoned, left, stopped, before, lately, returned>>

PlanMoves(step) ==
    /\ Go(step)
    /\ CanMove(step)
    /\ \E to \in [Leaving(step) -> Nodes] :
          /\ \A d \in Leaving(step) : to[d] \in ReadyElsewhere(d)
          /\ moves' = {[db |-> d, to |-> to[d]] : d \in Leaving(step)}
    /\ todo' = moves'
    /\ opened' = IF step = "cnpg"
                 THEN {d \in Databases \ (Maria \cup Replicated) : Here \in On[d]}
                 ELSE opened
    /\ UNCHANGED <<cluster, window, cordoned, left, stopped, before, lately, returned>>

\* One status patch, or the end of the loop.
SwitchPrimary(step) ==
    /\ pc = step
    /\ \/ /\ todo = {}
          /\ Go(step)
          /\ UNCHANGED <<target, todo>>
       \/ \E m \in todo :
             /\ target' = [target EXCEPT ![m.db] = m.to]
             /\ todo' = todo \ {m}
             /\ pc' = pc
    /\ UNCHANGED <<running, boots, seen, caughtUp, serving, ready, primary, failures, playbook, window,
                   cordoned, left, stopped, before, moves, opened, lately, returned>>

\* One window opened or closed, or the end of the loop.
OpenWindow ==
    /\ pc = "window"
    /\ \/ opened \subseteq window /\ Go("window") /\ UNCHANGED window
       \/ \E d \in opened \ window : window' = window \cup {d} /\ pc' = pc
    /\ UNCHANGED <<cluster, cordoned, left, stopped, before, moves, todo, opened, lately, returned>>

CloseWindow ==
    /\ pc = "close"
    /\ \/ opened \cap window = {} /\ Go("close") /\ UNCHANGED window
       \/ \E d \in opened \cap window : window' = window \ {d} /\ pc' = pc
    /\ UNCHANGED <<cluster, cordoned, left, stopped, before, moves, todo, opened, lately, returned>>

Drain ==
    /\ Go("drain")
    /\ MayEvict
    /\ ready' = {i \in ready : i[2] # Here}
    /\ UNCHANGED <<running, boots, seen, caughtUp, serving, primary, target, failures, playbook, window,
                   cordoned, left, stopped, before, moves, todo, opened, lately, returned>>

\* Proxmox stops the VM; it starts again by itself (NodeBoots).
Reboot ==
    /\ Go("reboot")
    /\ Here \in running
    /\ running' = running \ {Here}
    /\ caughtUp' = caughtUp \ {Here}
    /\ serving' = serving \ {Here}
    /\ UNCHANGED <<boots, seen, ready, primary, target, failures, playbook, window, cordoned, left,
                   stopped, before, moves, todo, opened, lately, returned>>

Uncordon ==
    /\ Go("uncordon")
    /\ cordoned' = cordoned \ {Here}
    /\ UNCHANGED <<cluster, window, left, stopped, before, moves, todo, opened, lately, returned>>

\* The visit ended well: the next one.
HandBack ==
    /\ Go("handback")
    /\ left' = Tail(left)
    /\ returned' = returned \cup ({Here} \ lately)
    /\ UNCHANGED <<cluster, window, cordoned, stopped, before, moves, todo, opened, lately>>

Visiting == pc \notin {"next", "done", "aborted"}

\* A switchover is waited for without end.
FailsNow_NoRetriesLimit ==
    \/ pc \in Checks /\ ~Met(pc)
    \/ pc \in {"cnpg", "maria"} /\ ~CanMove(pc)
    \/ pc = "reboot" /\ Here \notin running
    \/ pc \in Waits \ {"cnpg_switched"} /\ ~Met(pc) /\ "timeout" \in Faults

\* A check or an assertion that does not hold, a wait that is given up.
FailsNow ==
    \/ pc \in Checks /\ ~Met(pc)
    \/ pc \in {"cnpg", "maria"} /\ ~CanMove(pc)
    \/ pc = "reboot" /\ Here \notin running
    \/ pc \in Waits /\ ~Met(pc) /\ "timeout" \in Faults

\* The rescue says what is left, and talos_stopped_at is set.
Rescue ==
    /\ stopped' = TRUE
    /\ pc' = "next"
    /\ UNCHANGED <<cluster, window, cordoned, left, before, moves, todo, opened, lately, returned>>

Stop == FailsNow /\ Rescue
CallFails == "call" \in Faults /\ Visiting /\ pc # "handback" /\ Rescue

\* The Proxmox host the calls are delegated to cannot be reached: that skips
\* the rescue, and the batch being all unreachable ends the run.
Abort ==
    /\ "unreachable" \in Faults /\ pc \in ProxmoxCalls
    /\ pc' = "aborted"
    /\ UNCHANGED <<cluster, window, cordoned, left, stopped, before, moves, todo, opened,
                   lately, returned>>

GoOn ==
    \/ NextVM \/ Look \/ ReadBefore \/ Cordon
    \/ \E step \in {"cnpg", "maria"} : PlanMoves(step)
    \/ \E step \in {"cnpg_switch", "maria_switch"} : SwitchPrimary(step)
    \/ OpenWindow \/ Drain \/ Reboot \/ Uncordon \/ CloseWindow \/ HandBack
    \/ Stop

Run == GoOn \/ CallFails \/ Abort

-----------------------------------------------------------------------------
(* The cluster by itself.                                                  *)

NodeFails(n) ==
    /\ failures < MaxFailures /\ n \in running
    /\ failures' = failures + 1
    /\ running' = running \ {n}
    /\ caughtUp' = caughtUp \ {n}
    /\ serving' = serving \ {n}
    /\ lately' = lately \cup {n}
    /\ returned' = returned \ {n}
    /\ UNCHANGED <<boots, seen, ready, primary, target, playbook, window, cordoned, run>>

NodeBoots(n) ==
    /\ n \notin running
    /\ running' = running \cup {n}
    /\ boots' = [boots EXCEPT ![n] = @ + 1]
    /\ UNCHANGED <<seen, caughtUp, serving, ready, primary, target, failures, playbook, window, cordoned,
                   run, lately, returned>>

\* The API learns that a node is gone, or hears from it again.  Either way
\* the instances it held are not Ready until they have started again.
NodeIsSeen(n) ==
    /\ ~SeenAsItIs(n)
    /\ seen' = [seen EXCEPT ![n] = [ready |-> n \in running,
                                    boot |-> IF n \in running THEN boots[n] ELSE @.boot]]
    /\ ready' = {i \in ready : i[2] # n}
    /\ UNCHANGED <<running, boots, caughtUp, serving, primary, target, failures, playbook, window, cordoned,
                   run, lately, returned>>

\* A member catches up once a majority of members is running.
MemberCatchesUp(n) ==
    /\ n \in (ControlPlanes \cap running) \ caughtUp
    /\ 2 * Cardinality(ControlPlanes \cap running) > Cardinality(ControlPlanes)
    /\ caughtUp' = caughtUp \cup {n}
    /\ UNCHANGED <<running, boots, seen, serving, ready, primary, target, failures, playbook, window,
                   cordoned, run, lately, returned>>

StaticPodsStart(n) ==
    /\ n \in (ControlPlanes \cap running) \ serving
    /\ seen[n].ready
    /\ serving' = serving \cup {n}
    /\ UNCHANGED <<running, boots, seen, caughtUp, ready, primary, target, failures, playbook, window,
                   cordoned, run, lately, returned>>

\* An instance's disk is its node's, so it starts there, once the node takes
\* pods.
InstanceReturns(i) ==
    /\ i \in Instances \ ready
    /\ i[2] \in running \ cordoned /\ SeenAsItIs(i[2])
    /\ ready' = ready \cup {i}
    /\ UNCHANGED <<running, boots, seen, caughtUp, serving, primary, target, failures, playbook, window,
                   cordoned, run, lately, returned>>

\* The operator does the switchover asked for, or fails over from a primary
\* that is not Ready.
PrimaryMoves(d) ==
    /\ \/ primary[d] # target[d] /\ <<d, target[d]>> \in ready
          /\ primary' = [primary EXCEPT ![d] = target[d]]
          /\ UNCHANGED target
       \/ <<d, primary[d]>> \notin ready /\ \E n \in On[d] :
             /\ <<d, n>> \in ready
             /\ primary' = [primary EXCEPT ![d] = n]
             /\ target' = [target EXCEPT ![d] = n]
    /\ UNCHANGED <<running, boots, seen, caughtUp, serving, ready, failures, playbook, window, cordoned,
                   run, lately, returned>>

Recovery ==
    \/ \E n \in Nodes : NodeBoots(n) \/ NodeIsSeen(n) \/ MemberCatchesUp(n) \/ StaticPodsStart(n)
    \/ \E i \in Instances : InstanceReturns(i)
    \/ \E d \in Databases : PrimaryMoves(d)

Next == Run \/ Recovery \/ \E n \in Nodes : NodeFails(n)

\* Ansible goes from task to task and gives up a wait in the end; what was
\* started or broken comes back.  No call has to fail.
Fairness ==
    /\ WF_vars(GoOn)
    /\ \A n \in Nodes : /\ WF_vars(NodeBoots(n)) /\ WF_vars(NodeIsSeen(n))
                        /\ WF_vars(MemberCatchesUp(n)) /\ WF_vars(StaticPodsStart(n))
    /\ \A i \in Instances : WF_vars(InstanceReturns(i))
    /\ \A d \in Databases : WF_vars(PrimaryMoves(d))

Spec == Init /\ [][Next]_vars /\ Fairness

-----------------------------------------------------------------------------
(* Properties.                                                             *)

\* The variables keep their types.
TypeOK ==
    /\ running \subseteq Nodes /\ boots \in [Nodes -> Nat]
    /\ seen \in [Nodes -> [ready : BOOLEAN, boot : Nat]]
    /\ caughtUp \subseteq ControlPlanes \cap running
    /\ serving \subseteq ControlPlanes \cap running
    /\ ready \subseteq Instances
    /\ primary \in [Databases -> Nodes] /\ target \in [Databases -> Nodes]
    /\ window \subseteq Databases /\ cordoned \subseteq Nodes /\ failures \in 0..MaxFailures
    /\ left \in Seq(Nodes) /\ pc \in DOMAIN Following \cup {"next", "done", "aborted"}
    /\ playbook \in Playbooks /\ stopped \in BOOLEAN /\ before \in Nat
    /\ moves \subseteq [db : Databases, to : Nodes] /\ todo \subseteq moves
    /\ opened \subseteq Databases
    /\ lately \subseteq Nodes /\ returned \subseteq Nodes

\* "A control plane goes alone, so etcd keeps its quorum": when a reboot takes
\* a control plane, the caught-up members it leaves are a majority, unless a
\* control plane failed by itself after this visit looked.  (Before an upgrade
\* it is talosctl that asks etcd.)
QuorumSurvivesTheReboot ==
    [][(pc = "reboot" /\ pc' = "return" /\ Here \in ControlPlanes /\ ~Upgrading) =>
          \/ lately \cap ControlPlanes # {}
          \/ 2 * Cardinality(caughtUp') > Cardinality(ControlPlanes)]_vars

\* The drain of a node takes neither the primary of a replicated database nor
\* its last ready instance, unless a node failed by itself after this visit
\* looked.
DrainSparesDatabases ==
    [][(pc = "drain" /\ pc' = "reboot") =>
          \/ lately # {}
          \/ \A d \in Replicated : /\ primary[d] # Here
                                   /\ \E n \in On[d] : <<d, n>> \in ready']_vars

\* At most one node is out of service by the run's hand, also after a failed
\* visit left its node cordoned; and a node takes pods again only when it
\* really is back: whatever the API still says of the boot that went down, a
\* node that reads Ready and is not cordoned is up, unless it failed by itself.
OneOutAtATime ==
    /\ Cardinality(cordoned) <= 1
    /\ \A n \in Nodes \ (cordoned \cup lately) : seen[n].ready => n \in running

\* A node a visit handed back is whole until it fails by itself: it takes
\* pods, its database instances are Ready with no maintenance window left open
\* on them, and after a reboot of a control plane its static pods are Ready and
\* its etcd member is caught up.  A run that says every node was done restarted
\* every one of them and left none cordoned.
HandedBackWhole ==
    /\ \A n \in returned :
          /\ n \in running \ cordoned
          /\ \A d \in Databases : n \in On[d] => <<d, n>> \in ready /\ d \notin window
          /\ (n \in ControlPlanes /\ ~Upgrading) => (n \in serving /\ n \in caughtUp)
    /\ (pc = "done" /\ ~stopped) => cordoned = {} /\ \A n \in Planned : boots[n] > 0

\* No step of a visit waits for what only a later step brings: once the
\* cluster has come to rest, and no node failed by itself, what the run waits
\* for holds, so that a visit in a healthy cluster gets to its end.
NoWaitForALaterStep ==
    (pc \in Waits /\ failures = 0 /\ ~ENABLED Recovery) => Met(pc)

\* Whatever fails meanwhile, the run ends: what a failure undid again, a
\* switchover taken back for one, is not waited for without end.
RunEnds == <>(pc \in {"done", "aborted"})

=============================================================================
