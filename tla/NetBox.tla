------------------------------- MODULE NetBox -------------------------------
(***************************************************************************)
(* NetBox's tables, as the jobs that keep them and read them see them, the *)
(* live sources behind them (Proxmox, Kea, the cluster's LoadBalancers),   *)
(* and what the owner changes by hand.  NetboxSeed, NetboxGuests and       *)
(* TermixSync extend this module; NetBoxHub runs them side by side.        *)
(*                                                                         *)
(* Abstractions.  An object is a host named once: a Proxmox guest (a VM of *)
(* NetBox), a Proxmox node (a device) or a thing of the IoT network (a     *)
(* device).  A guest or a node has one address.  A MetalLB pool's range is *)
(* one more entry of the address table, since it comes and goes by the     *)
(* rule of the addresses the Services hold.  What the seed only sets once  *)
(* and for all (site, VLANs, roles, tags, custom fields) is left out.      *)
(***************************************************************************)
EXTENDS Naturals, Sequences, FiniteSets

CONSTANTS
    Guests, Nodes, Things,  \* the objects, by kind
    Addrs,        \* addresses
    AddrOf,       \* each guest's and node's own address
    Pool,         \* the addresses MetalLB gives out
    Reservable,   \* the addresses Kea may reserve
    Zoned,        \* the addresses in a prefix that names a DNS zone
    Ifaces,       \* the nodes' interfaces
    NodeOf,       \* the node each is on
    Uses,         \* Uses[i]: those i has as its parent, bridge or LAG
    Pinned,       \* those with an address or a cable
    Nobody, Other, \* no object; a host that is no object here (model values)
    Jobs, Starts,    \* the jobs; how a behaviour may begin (see below)
    StartLive,       \* the live sources a behaviour may begin with
    EditedStatuses,  \* the statuses the owner may set by hand
    MaxEvents        \* edits by the owner, changes in the sources, calls that fail

Hosts == Guests \cup Nodes
Objects == Hosts \cup Things
Statuses == {"absent", "planned", "active", "offline", "staged", "failed", "decommissioning", "inventory"}
UseStatuses == {"active", "staged"}
Shapes == {"lacking", "small", "large"}
Logins == {"none", "key", "unset", "named", "rdp"}

\* One row of each table; "absent" is a row NetBox does not have.
ObjRow == [status : Statuses,
           mark : BOOLEAN,   \* described as a Kea reservation's device
           role : BOOLEAN,   \* its role is one whose shape NetBox owns
           shape : Shapes,   \* vCPUs and memory; "lacking" is without one
           login : Logins]   \* its login tag, and the credential it names
AddrRow == [status : {"absent", "active", "dhcp", "deprecated"},
            vip : BOOLEAN,   \* role VIP
            desc : {"none", "lb", "resv", "hand"},
            on : Objects \cup {Nobody},
            dns : {"none", "name", "hand"}] \* "name": its object's, in its zone

\* The live sources: each guest's state in Proxmox, the nodes online, each
\* reserved address and who for, the addresses the Services hold, the
\* interfaces the nodes have, and those of them that are active.
Live == {l \in [guest : [Guests -> {"gone", "stopped", "running"}],
                online : SUBSET Nodes,
                lease : [Addrs -> Things \cup {Other, Nobody}],
                lb : SUBSET Addrs,
                ifaces : SUBSET Ifaces,
                up : SUBSET Ifaces] : l.up \subseteq l.ifaces}

NoAddress == [status |-> "absent", vip |-> FALSE, desc |-> "none", on |-> Nobody, dns |-> "none"]

\* A row of the addresses as the jobs and the owner leave it.  A VIP is a
\* LoadBalancer's and in the pool, a reservation's record is not; a host has no
\* address but its own, and that active; a thing has one only of a reservation,
\* and is then there and this script's; one nothing has says what it is for.
TidyRow(os, a, row) ==
    /\ row.status = "absent" => row = NoAddress
    /\ row.vip <=> row.desc = "lb"
    /\ row.vip => a \in Pool
    /\ row.desc = "resv" \/ row.on # Nobody => a \notin Pool
    /\ row.status = "dhcp" => row.desc = "resv"
    /\ row.on \in Hosts => a = AddrOf[row.on] /\ row.status = "active"
    /\ row.on \in Things => row.desc = "resv" /\ os[row.on].status # "absent" /\ os[row.on].mark
    /\ row.on = Nobody => row.status = "absent" \/ row.desc # "none"
Tidy(os, as) == \A a \in Addrs : TidyRow(os, a, as[a])

\* No LoadBalancer takes an address Kea reserves.
Apart(l) == l.lb \subseteq Pool /\ \A a \in Pool : l.lease[a] = Nobody

\* Hosts' addresses are all different and none of them is in the pool.
ASSUME NetBoxAssumption ==
    /\ IsFiniteSet(Objects) /\ IsFiniteSet(Addrs) /\ IsFiniteSet(Ifaces)
    /\ Guests \cap Nodes = {} /\ Hosts \cap Things = {} /\ Nobody \notin Objects
    /\ AddrOf \in [Hosts -> Addrs]
    /\ \A g, h \in Hosts : AddrOf[g] = AddrOf[h] => g = h
    /\ \A h \in Hosts : AddrOf[h] \notin Pool
    /\ Pool \subseteq Addrs /\ Reservable \subseteq Addrs \ Pool /\ Zoned \subseteq Addrs
    /\ NodeOf \in [Ifaces -> Nodes]
    /\ Uses \in [Ifaces -> SUBSET Ifaces] /\ Pinned \subseteq Ifaces
    /\ \A s \in Starts : /\ s.obj \in [Objects -> ObjRow] /\ s.addr \in [Addrs -> AddrRow]
                         /\ Tidy(s.obj, s.addr) /\ s.ifaces \subseteq Ifaces
                         /\ s.jobs \subseteq Jobs /\ s.events \in 0..MaxEvents
    /\ StartLive \subseteq Live /\ \A l \in StartLive : Apart(l)
    /\ EditedStatuses \subseteq Statuses \ {"absent"}
    /\ MaxEvents \in Nat

VARIABLES
    obj,     \* devices and virtual machines
    addr,    \* addresses
    ifaces,  \* the nodes' interfaces NetBox has
    live,
    jobs,    \* the jobs of this behaviour, to bound the states
    events   \* how many of MaxEvents have happened

tables == <<obj, addr, ifaces>>
outside == <<live, jobs, events>>
netboxVars == <<tables, outside>>

NetBoxInit ==
    /\ \E s \in Starts :
          obj = s.obj /\ addr = s.addr /\ ifaces = s.ifaces /\ jobs = s.jobs /\ events = s.events
    /\ live \in StartLive

NetBoxTypeOK ==
    /\ obj \in [Objects -> ObjRow]
    /\ addr \in [Addrs -> AddrRow]
    /\ ifaces \subseteq Ifaces
    /\ live \in Live /\ jobs \subseteq Jobs
    /\ events \in 0..MaxEvents

-----------------------------------------------------------------------------
\* A start is NetBox's tables, the jobs there are, and the events already used.
Event == events < MaxEvents /\ events' = events + 1 /\ UNCHANGED jobs

(* What the owner does by hand.                                            *)

There(o) == obj[o].status # "absent"

Edit == Event /\ UNCHANGED live

OwnerSetsStatus(o) ==
    /\ Edit /\ There(o)
    /\ \E s \in EditedStatuses \ {obj[o].status} : obj' = [obj EXCEPT ![o].status = s]
    /\ UNCHANGED <<addr, ifaces>>

OwnerGivesRole(g) ==
    /\ Edit /\ There(g) /\ g \in Guests
    /\ \E sh \in Shapes : obj' = [obj EXCEPT ![g].role = TRUE, ![g].shape = sh]
    /\ obj' # obj
    /\ UNCHANGED <<addr, ifaces>>

OwnerSetsLogin(o) ==
    /\ Edit /\ There(o)
    /\ \E l \in Logins \ {obj[o].login} : obj' = [obj EXCEPT ![o].login = l]
    /\ UNCHANGED <<addr, ifaces>>

\* The last step of a removal by hand (Decommissioning first).  NetBox
\* deletes an object's interfaces and their addresses with it.
OwnerDeletes(o) ==
    /\ Edit /\ obj[o].status = "decommissioning"
    /\ obj' = [obj EXCEPT ![o].status = "absent", ![o].mark = FALSE,
                          ![o].role = FALSE, ![o].login = "none"]
    /\ addr' = [a \in Addrs |-> IF addr[a].on = o THEN NoAddress ELSE addr[a]]
    /\ ifaces' = {i \in ifaces : NodeOf[i] # o}

\* An address recorded by hand, or a name set by hand.
OwnerRecords(a) ==
    /\ Edit /\ addr[a].status = "absent"
    /\ addr' = [addr EXCEPT ![a] = [status |-> "active", vip |-> FALSE, desc |-> "hand",
                                    on |-> Nobody, dns |-> "none"]]
    /\ UNCHANGED <<obj, ifaces>>

OwnerNames(a) ==
    /\ Edit /\ addr[a].on # Nobody /\ addr[a].dns # "hand"
    /\ addr' = [addr EXCEPT ![a].dns = "hand"]
    /\ UNCHANGED <<obj, ifaces>>

OwnerEdits ==
    \/ \E o \in Objects : OwnerSetsStatus(o) \/ OwnerGivesRole(o) \/ OwnerDeletes(o)
    \/ "termix" \in jobs /\ \E o \in Objects : OwnerSetsLogin(o)
    \/ \E a \in Addrs : OwnerRecords(a) \/ OwnerNames(a)

-----------------------------------------------------------------------------
(* What changes in Proxmox, in Kea and in the cluster.                     *)

Move == Event /\ UNCHANGED tables

GuestChanges(g) == Move /\ \E s \in {"gone", "stopped", "running"} \ {live.guest[g]} : live' = [live EXCEPT !.guest[g] = s]
NodeChanges(n) == Move /\ live' = [live EXCEPT !.online = IF n \in @ THEN @ \ {n} ELSE @ \cup {n}]
InterfaceGone(i) == Move /\ i \in live.ifaces /\ live' = [live EXCEPT !.ifaces = @ \ {i}, !.up = @ \ {i}]
InterfaceDown(i) == Move /\ i \in live.up /\ live' = [live EXCEPT !.up = @ \ {i}]
ServiceChanges(a) == Move /\ a \in Pool /\ live' = [live EXCEPT !.lb = IF a \in @ THEN @ \ {a} ELSE @ \cup {a}]

\* A thing has at most one reservation; a plain host's is Other's.
ReservationChanges(a) ==
    /\ Move /\ a \in Reservable
    /\ \E w \in {Other, Nobody} \cup {t \in Things : \A b \in Addrs \ {a} : live.lease[b] # t} :
          w # live.lease[a] /\ live' = [live EXCEPT !.lease[a] = w]

SourcesMove == "seed" \in jobs /\
    \/ \E g \in Guests : GuestChanges(g)
    \/ \E n \in Nodes : NodeChanges(n)
    \/ \E i \in Ifaces : InterfaceGone(i) \/ InterfaceDown(i)
    \/ \E a \in Addrs : ServiceChanges(a) \/ ReservationChanges(a)
=============================================================================
