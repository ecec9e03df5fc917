----------------------------- MODULE NetboxSeed -----------------------------
(***************************************************************************)
(* netbox_seed.py --apply: the nightly job that makes NetBox match the     *)
(* live sources.  It reads all of them first, then goes through NetBox     *)
(* section by section.  A section lists what it needs, plans, and writes   *)
(* one object at a time; between any two calls the owner may edit, and any *)
(* refused call ends the run with everything before it written.            *)
(*                                                                         *)
(* A section's plan is a sequence of items: [act, on, set], where act      *)
(* "obj" or "addr" writes the fields of set on that row (a POST when the   *)
(* row is absent, else a PATCH of what differs), "old_obj" or "old_addr"   *)
(* on a row the section listed, "prune" deletes an interface, and "look"   *)
(* finds the object on and plans its writes from what it finds.  A dry run *)
(* is the same without the writes and is left out.                         *)
(***************************************************************************)
EXTENDS NetBox, SequencesExt

CONSTANT Prune   \* prune_node_interfaces

Sections == <<"lbs", "nodes", "interfaces", "vms", "reservations", "iot", "dns">>

VARIABLES
    seed,    \* the run: see SeedTypeOK
    quiet,   \* nothing outside changed since the run read the sources
    settled  \* the last complete run was quiet, and nothing changed since

seedVars == <<seed, quiet, settled>>

\* No run: the sources as read, the names of the VMs being retired, and the
\* reserved addresses that are this script's to record, all forgotten.
NoRun == [on |-> FALSE, section |-> 0, todo |-> <<>>, seen |-> <<>>, retiring |-> {}, record |-> {}]

SeedInit == seed = NoRun /\ quiet = FALSE /\ settled = FALSE

Running == seed.on
In(name) == seed.section # 0 /\ Sections[seed.section] = name
seen == seed.seen

-----------------------------------------------------------------------------
(* The writes an item stands for, and the plan of each section.            *)

Item(act, on, set) == [act |-> act, on |-> on, set |-> set]
Writes(act, ons, set) == SetToSeq({Item(act, o, set) : o \in ons})
Looks(os) == Writes("look", os, <<>>)

\* (Definitions named <operator>_<fault> are the mutants: what the operator
\* after them would be with a plausible bug.)
Patched_Put(row, fields) == fields

\* NetBox.ensure: a new row has NetBox's defaults for what is not given.
Patched(row, fields) ==
    [f \in DOMAIN row |-> IF f \in DOMAIN fields THEN fields[f]
                          ELSE IF f = "status" /\ row.status = "absent" THEN "active" ELSE row[f]]

SyncStatuses == {"planned", "active", "offline"}

\* The status written for something seen running or not: none for one the
\* owner's status keeps.
SyncedStatus(have, running) ==
    IF \/ have \notin SyncStatuses \cup {"absent"}
       \/ have = "planned" /\ ~running
    THEN <<>>
    ELSE [status |-> IF running THEN "active" ELSE "offline"]

LbPlan_NeverRetires(s) == Writes("addr", s.lb, [status |-> "active", vip |-> TRUE, desc |-> "lb"])

\* Load balancers: this script's records the cluster no longer has are
\* deprecated; each address a Service holds is a VIP.
LbPlan(s) ==
    Writes("old_addr", {a \in Addrs \ s.lb : addr[a].vip /\ addr[a].desc = "lb" /\ addr[a].status # "deprecated"},
           [status |-> "deprecated"])
    \o Writes("addr", s.lb, [status |-> "active", vip |-> TRUE, desc |-> "lb"])

Address(h) == Item("addr", AddrOf[h], [status |-> "active", on |-> h])

\* A node's active interfaces are made; one that is only known is not, and
\* is not pruned either.
NodeWrites(n) ==
    <<Item("obj", n, SyncedStatus(obj[n].status, n \in seen.online)), Address(n)>>
        \o Writes("iface", {i \in seen.up : NodeOf[i] = n}, <<>>)

\* An interface is kept that has an address or a cable, or that one that
\* stays still uses, through any number of others.
Closed(kept, have) == \A i \in kept : Uses[i] \cap have \subseteq kept
KeptInterfaces(have, names) ==
    {i \in have : \A kept \in SUBSET have :
        have \cap (names \cup Pinned) \subseteq kept /\ Closed(kept, have) => i \in kept}

\* Those to delete, each before any it points at.
InterfacePlans(s) ==
    LET doomed == IF Prune THEN ifaces \ KeptInterfaces(ifaces, s.ifaces) ELSE {}
        orders == {q \in SetToSeqs(doomed) : \A j, k \in DOMAIN q : q[j] \in Uses[q[k]] => k < j}
    IN  {[k \in DOMAIN q |-> Item("prune", q[k], <<>>)] : q \in orders}

Retiring_None == {}
Retiring == {g \in Guests : obj[g].status = "decommissioning"}

VmPlan(s, retiring) == Looks({g \in Guests : s.guest[g] # "gone"} \ retiring)

\* The vCPUs and memory of a VM whose role NetBox owns are not written.
VmFields(status, role) ==
    [f \in DOMAIN status \cup (IF role THEN {} ELSE {"shape"}) |-> IF f = "shape" THEN "small" ELSE status[f]]

VmWrites(g) ==
    <<Item("obj", g, VmFields(SyncedStatus(obj[g].status, seen.guest[g] = "running"), obj[g].role)), Address(g)>>

OwnThings == {t \in Things : There(t) /\ obj[t].mark}

HeldElsewhere_OnlyVip(a) == addr[a].status # "absent" /\ addr[a].vip

\* What a reservation may not touch: an address on an interface (but one of
\* this script's on a thing of its own), a VIP, or one recorded otherwise.
HeldElsewhere(a) ==
    /\ addr[a].status # "absent"
    /\ IF addr[a].on # Nobody
       THEN ~(addr[a].on \in OwnThings /\ addr[a].desc = "resv")
       ELSE addr[a].vip \/ addr[a].desc # "resv"

Recordable(s) == {a \in Addrs : s.lease[a] # Nobody /\ ~HeldElsewhere(a)}

ReservationPlan(s) ==
    Writes("old_addr", {a \in Addrs : /\ s.lease[a] = Nobody /\ addr[a].status \notin {"absent", "deprecated"}
                                      /\ ~HeldElsewhere(a)}, [status |-> "deprecated"])
    \o Writes("addr", Recordable(s), [status |-> "dhcp", desc |-> "resv"])

\* The things reserved become devices; one no longer reserved is Offline.
IotPlan(s) ==
    LET reserved == {t \in Things : \E a \in Addrs : s.lease[a] = t} IN
        Writes("old_obj", {t \in OwnThings \ reserved : obj[t].status \notin {"offline", "decommissioning"}},
               [status |-> "offline"])
        \o Looks(reserved)

\* A device the look did not find is given the type and role of its kind; to
\* one it found they are NetBox's, and not sent.
ThingFields(found) ==
    [f \in {"status", "mark"} \cup (IF found THEN {} ELSE {"kind"}) |-> IF f = "status" THEN "active" ELSE TRUE]

\* Nothing for a device of that name that is not this script's, or that is
\* being removed by hand; the address only when it was listed as recordable.
ThingWrites(t) ==
    IF There(t) /\ (~obj[t].mark \/ obj[t].status = "decommissioning") THEN <<>>
    ELSE <<Item("obj", t, ThingFields(There(t)))>>
         \o Writes("addr", {a \in seed.record : seen.lease[a] = t},
                   [status |-> "dhcp", desc |-> "resv", on |-> t])

\* A host in use has its name; one not in use loses the name this job gave
\* it.  Decommissioning and this script's own things are left as they are.
DnsPlan ==
    LET on(a) == addr[a].on
        ours == {a \in Zoned : /\ on(a) \in Objects \ OwnThings
                               /\ obj[on(a)].status # "decommissioning"}
        used == {a \in ours : obj[on(a)].status \in UseStatuses}
    IN  Writes("old_addr", {a \in used : addr[a].dns # "name"}, [dns |-> "name"])
        \o Writes("old_addr", {a \in ours \ used : addr[a].dns = "name"}, [dns |-> "none"])

\* The plans a section may begin with.
Plans(name) ==
    CASE name = "lbs" -> {LbPlan(seen)}
      [] name = "nodes" -> {Looks(Nodes)}
      [] name = "interfaces" -> InterfacePlans(seen)
      [] name = "vms" -> {VmPlan(seen, Retiring)}
      [] name = "reservations" -> {ReservationPlan(seen)}
      [] name = "iot" -> {IotPlan(seen)}
      [] name = "dns" -> {DnsPlan}

LookWrites(o) ==
    CASE o \in Nodes -> NodeWrites(o) [] o \in Guests -> VmWrites(o) [] OTHER -> ThingWrites(o)

-----------------------------------------------------------------------------
(* The run.                                                                *)

\* Kea, Proxmox and the cluster are read in full, or the run ends here.
SeedReads ==
    /\ ~Running
    /\ seed' = [NoRun EXCEPT !.on = TRUE, !.seen = live]
    /\ quiet' = TRUE
    /\ UNCHANGED <<tables, outside, settled>>

\* The next section begins with what it lists.
SeedLists ==
    /\ Running /\ seed.todo = <<>> /\ seed.section < Len(Sections)
    /\ LET name == Sections[seed.section + 1] IN
        \E plan \in Plans(name) :
            seed' = [seed EXCEPT !.section = @ + 1, !.todo = plan,
                !.retiring = IF name = "vms" THEN Retiring ELSE @,
                !.record = IF name = "reservations" THEN Recordable(seen) ELSE @]
    /\ UNCHANGED <<tables, outside, quiet, settled>>

SeedLooks ==
    /\ seed.todo # <<>> /\ Head(seed.todo).act = "look"
    /\ seed' = [seed EXCEPT !.todo = LookWrites(Head(@).on) \o Tail(@)]
    /\ UNCHANGED <<tables, outside, quiet, settled>>

\* What NetBox has no row for (any more): a listed row deleted since, a device
\* it would have to make without a type, or what an address or an interface
\* is for.
Refused(i) ==
    \/ i.act = "old_obj" /\ ~There(i.on)
    \/ i.act = "obj" /\ i.on \in Things /\ ~There(i.on) /\ "kind" \notin DOMAIN i.set
    \/ i.act = "old_addr" /\ addr[i.on].status = "absent"
    \/ i.act = "addr" /\ "on" \in DOMAIN i.set /\ ~There(i.set.on)
    \/ i.act = "iface" /\ ~There(NodeOf[i.on])
    \/ i.act = "prune" /\ i.on \notin ifaces

SeedWrites ==
    /\ seed.todo # <<>> /\ Head(seed.todo).act # "look" /\ ~Refused(Head(seed.todo))
    /\ LET i == Head(seed.todo) IN
        /\ obj' = IF i.act \in {"obj", "old_obj"} THEN [obj EXCEPT ![i.on] = Patched(@, i.set)] ELSE obj
        /\ addr' = IF i.act \in {"addr", "old_addr"} THEN [addr EXCEPT ![i.on] = Patched(@, i.set)] ELSE addr
        /\ ifaces' = CASE i.act = "iface" -> ifaces \cup {i.on}
                       [] i.act = "prune" -> ifaces \ {i.on}
                       [] OTHER -> ifaces
    /\ seed' = [seed EXCEPT !.todo = Tail(@)]
    /\ UNCHANGED <<outside, quiet, settled>>

SeedEnds ==
    /\ Running /\ seed.todo = <<>> /\ seed.section = Len(Sections)
    /\ seed' = NoRun
    /\ settled' = quiet
    /\ UNCHANGED <<tables, outside, quiet>>

\* NetBox refuses a call or does not answer: SystemExit.
SeedStops ==
    /\ Running /\ Event
    /\ seed' = NoRun /\ settled' = FALSE
    /\ UNCHANGED <<tables, live, quiet>>

SeedIsRefused ==
    /\ seed.todo # <<>> /\ Refused(Head(seed.todo))
    /\ seed' = NoRun /\ settled' = FALSE
    /\ UNCHANGED <<tables, outside, quiet>>

SeedRuns == SeedLists \/ SeedLooks \/ SeedWrites \/ SeedIsRefused \/ SeedEnds
SeedSteps == SeedReads \/ SeedRuns \/ SeedStops

\* What the seed's flags make of a change it did not make.
SeedMissed == quiet' = FALSE /\ settled' = FALSE /\ UNCHANGED seed

-----------------------------------------------------------------------------
(* Properties.                                                             *)

SeedTypeOK ==
    /\ seed.section \in 0..Len(Sections) /\ seed.on \in BOOLEAN
    /\ Running => seen \in Live
    /\ seed.retiring \subseteq Guests /\ seed.record \subseteq Addrs
    /\ \A k \in 1..Len(seed.todo) :
          LET i == seed.todo[k] IN
             \/ i.act \in {"look", "obj", "old_obj"} /\ i.on \in Objects
             \/ i.act \in {"addr", "old_addr"} /\ i.on \in Addrs
             \/ i.act \in {"iface", "prune"} /\ i.on \in Ifaces
    /\ quiet \in BOOLEAN /\ settled \in BOOLEAN

\* A status is the sync's only while it is one of its three; the others are
\* the owner's, and nothing is asked of them here.
StatusAgrees(o, running) ==
    obj[o].status \in SyncStatuses =>
        IF running THEN obj[o].status = "active" ELSE obj[o].status \in {"planned", "offline"}

\* Of the guests Proxmox has: one that is gone is left as NetBox has it.
GuestsAgree ==
    \A g \in Guests : live.guest[g] # "gone" /\ obj[g].status # "decommissioning" =>
        /\ There(g) /\ StatusAgrees(g, live.guest[g] = "running")
        /\ addr[AddrOf[g]].status = "active" /\ addr[AddrOf[g]].on = g

NodesAgree ==
    \A n \in Nodes : There(n) /\ StatusAgrees(n, n \in live.online) /\ addr[AddrOf[n]].on = n

AddressesAgree ==
    \A a \in Addrs :
        /\ a \in live.lb => addr[a].status = "active" /\ addr[a].vip /\ addr[a].desc = "lb"
        /\ addr[a].desc = "lb" /\ a \notin live.lb => addr[a].status = "deprecated"
        /\ live.lease[a] # Nobody =>
              \/ addr[a].status = "dhcp" /\ addr[a].desc = "resv"
              \/ addr[a].on \in Objects \ OwnThings \/ addr[a].vip \/ addr[a].desc = "hand"
        /\ addr[a].desc = "resv" /\ addr[a].on \notin Hosts /\ live.lease[a] = Nobody =>
              addr[a].status = "deprecated"

ThingsAgree ==
    \A t \in OwnThings : obj[t].status # "decommissioning" =>
        /\ StatusAgrees(t, \E a \in Addrs : live.lease[a] = t)
        /\ \A a \in Addrs : live.lease[a] = t /\ addr[a].status = "dhcp" => addr[a].on = t

\* A name is served for a host exactly while it is in use.
NamesAgree ==
    \A a \in Zoned : addr[a].on \in Hosts =>
        LET now == obj[addr[a].on].status IN
            /\ now \in UseStatuses => addr[a].dns = "name"
            /\ now \notin UseStatuses \cup {"decommissioning"} => addr[a].dns # "name"

\* After a complete run nothing disturbed, and until something changes,
\* NetBox says of every guest Proxmox has, every node, Service's address,
\* reservation, thing, name and interface what the live sources say, where
\* the status is one the sync moves: the sections, written one after another
\* from one reading, do not undo each other's work.
SettledRunAgrees ==
    settled /\ ~Running =>
        /\ GuestsAgree /\ NodesAgree /\ AddressesAgree /\ ThingsAgree /\ NamesAgree
        /\ live.up \subseteq ifaces
        /\ Prune => \A i \in ifaces \ (live.ifaces \cup Pinned) : \E j \in ifaces : i \in Uses[j]

\* "Safe to run again": after such a run the next one, as long as nothing
\* else changes, writes nothing at all.
SecondRunWritesNothing == [][settled /\ settled' => UNCHANGED tables]_<<netboxVars, seedVars>>

OthersAddress(a) ==
    \/ addr[a].on \in Hosts
    \/ addr[a].on \in Things /\ ~obj[addr[a].on].mark
    \/ addr[a].vip
    \/ addr[a].desc = "hand"

NamedByHand(a) ==
    addr[a].dns = "hand" /\ addr[a].on \in Objects /\ obj[addr[a].on].status \notin UseStatuses

\* "Moves a status only between Planned, Active and Offline, and never touches
\* the others": no write of the seed changes a status of the owner's, as long
\* as he does not edit during the run.
OwnersStatusKept ==
    [][Running /\ quiet /\ events' = events =>
          \A o \in Objects : There(o) /\ obj[o].status \notin SyncStatuses => obj'[o].status = obj[o].status
      ]_<<netboxVars, seedVars>>

\* What a write of the seed may never touch, as long as the owner does not
\* edit during the run: the status of a host the owner holds (of a thing of
\* its own it is kept only for Decommissioning: OwnersStatusKept; a VM that was
\* Decommissioning when the section began keeps its row and addresses even
\* then); a device of a thing's name that is not its own or is being removed;
\* after the VMs, an address a host, a Service or the owner holds; a name set
\* by hand while its host is not in use; an interface Proxmox has, one with
\* an address or a cable, or one another still uses.
LeavesOthersAlone ==
    [][Running /\ events' = events /\ tables' # tables =>
        /\ \A g \in Guests : obj[g].status = "decommissioning" /\ (quiet \/ g \in seed.retiring) =>
              obj'[g] = obj[g] /\ \A a \in Addrs : addr[a].on = g /\ quiet => addr'[a] = addr[a]
        /\ quiet =>
             /\ \A h \in Hosts : obj[h].status \notin SyncStatuses \cup {"absent"} => obj'[h].status = obj[h].status
             /\ \A t \in Things : There(t) /\ (~obj[t].mark \/ obj[t].status = "decommissioning") => obj'[t] = obj[t]
             /\ In("reservations") \/ In("iot") => \A a \in Addrs : OthersAddress(a) => addr'[a] = addr[a]
             /\ \A a \in Addrs : NamedByHand(a) => addr'[a].dns = "hand"
             /\ \A i \in ifaces \ ifaces' : i \notin live.ifaces \cup Pinned /\ \A j \in ifaces : i \notin Uses[j]
      ]_<<netboxVars, seedVars>>
=============================================================================
