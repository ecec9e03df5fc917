-------------------------- MODULE NetBoxHubProofs --------------------------
(***************************************************************************)
(* Theorems of NetBoxHub, for any objects, addresses, sources, starts and  *)
(* edits: its types, that a complete run of the seed nobody disturbed      *)
(* makes NetBox say what the live sources say, that the next one then      *)
(* writes nothing, and that neither the seed nor the Termix job touches    *)
(* what is not its own.                                                    *)
(*                                                                         *)
(* The invariant is of four parts.  SafeInv: what holds whatever the owner *)
(* does beside a run (tidy tables; each section's items are of its kinds;  *)
(* Careful).  QuietInv: of a run nobody disturbs, that each item is still  *)
(* meant, that whatever is not yet as the sources have it is still to be   *)
(* written, and that no later section undoes what an earlier one left.     *)
(* SettledInv: after such a run everything agrees, and no item of the next *)
(* one changes anything.  OtherInv: the same of the other two jobs.        *)
(***************************************************************************)
EXTENDS NetBoxHub, FiniteSetTheorems, TLAPS

-----------------------------------------------------------------------------
(* Sequences of items.                                                     *)

\* The sequence of a finite set has its members and none twice.
LEMMA SeqOfSet ==
    ASSUME NEW S, IsFiniteSet(S)
    PROVE  /\ SetToSeq(S) \in Seq(S) /\ Range(SetToSeq(S)) = S
           /\ IsInjective(SetToSeq(S))
<1> DEFINE n == Cardinality(S)
<1>1. n \in Nat /\ ExistsBijection(1..n, S)
  BY FS_CardinalityType
<1>2. PICK f \in Bijection(1..n, S) : TRUE
  BY <1>1 DEF ExistsBijection
<1>3. f \in [1..n -> S] /\ IsInjective(f)
  BY <1>2 DEF Bijection, Injection
<1>4. SetToSeq(S) \in [1..n -> S] /\ IsInjective(SetToSeq(S))
  BY <1>3 DEF SetToSeq
<1>5. SetToSeq(S) \in Injection(1..n, S)
  BY <1>4 DEF Injection
<1>6. IsFiniteSet(1..n) /\ Cardinality(1..n) = n
  BY <1>1, FS_Interval
<1>7. SetToSeq(S) \in Surjection(1..n, S)
  BY <1>5, <1>6, FS_Injection
<1>8. Range(SetToSeq(S)) = S
  BY <1>4, <1>7 DEF Surjection, Range
<1> QED
  BY <1>1, <1>4, <1>8

LEMMA RangeOfConcat ==
    ASSUME NEW S, NEW p \in Seq(S), NEW q \in Seq(S)
    PROVE  p \o q \in Seq(S) /\ Range(p \o q) = Range(p) \cup Range(q)
<1>1. p \o q \in Seq(S) /\ DOMAIN (p \o q) = 1..(Len(p) + Len(q)) /\ DOMAIN p = 1..Len(p) /\ DOMAIN q = 1..Len(q)
  OBVIOUS
<1>2. \A k \in 1..Len(p) : (p \o q)[k] = p[k]
  OBVIOUS
<1>3. \A k \in 1..Len(q) : (p \o q)[Len(p) + k] = q[k] /\ Len(p) + k \in DOMAIN (p \o q)
  BY <1>1
<1>4. \A k \in DOMAIN (p \o q) : k \in 1..Len(p) \/ k - Len(p) \in 1..Len(q)
  BY <1>1
<1>5. \A k \in DOMAIN (p \o q) : (p \o q)[k] \in Range(p) \cup Range(q)
  BY <1>1, <1>2, <1>3, <1>4 DEF Range
<1>6. \A k \in DOMAIN p : p[k] \in Range(p \o q)
  BY <1>1, <1>2 DEF Range
<1>7. \A k \in DOMAIN q : q[k] \in Range(p \o q)
  BY <1>1, <1>3 DEF Range
<1> QED
  BY <1>1, <1>5, <1>6, <1>7 DEF Range

LEMMA HeadAndTail ==
    ASSUME NEW S, NEW q \in Seq(S), q # <<>>
    PROVE  /\ Head(q) \in S /\ Head(q) \in Range(q) /\ Tail(q) \in Seq(S)
           /\ Range(q) = {Head(q)} \cup Range(Tail(q))
<1>1. Len(q) > 0 /\ DOMAIN q = 1..Len(q) /\ Head(q) = q[1] /\ Tail(q) \in Seq(S)
      /\ DOMAIN Tail(q) = 1..(Len(q) - 1) /\ \A k \in 1..(Len(q) - 1) : Tail(q)[k] = q[k + 1]
  OBVIOUS
<1>2. \A k \in 1..Len(q) : k = 1 \/ (k - 1 \in 1..(Len(q) - 1) /\ q[k] = Tail(q)[k - 1])
  <2>1. ASSUME NEW k \in 1..Len(q), k # 1 PROVE k - 1 \in 1..(Len(q) - 1) /\ (k - 1) + 1 = k
    BY <1>1, <2>1
  <2> QED
    BY <1>1, <2>1
<1>3. ASSUME NEW k \in DOMAIN q PROVE q[k] \in {Head(q)} \cup Range(Tail(q))
  <2>1. \A j \in DOMAIN Tail(q) : Tail(q)[j] \in Range(Tail(q))
    BY DEF Range
  <2>2. k \in 1..Len(q)
    BY <1>1
  <2> QED
    BY <1>1, <1>2, <2>1, <2>2
<1>4. \A k \in DOMAIN Tail(q) : Tail(q)[k] \in Range(q)
  BY <1>1 DEF Range
<1>5. Head(q) \in Range(q)
  BY <1>1 DEF Range
<1> QED
  BY <1>1, <1>3, <1>4, <1>5 DEF Range

LEMMA NothingInEmpty == Range(<<>>) = {} /\ \A S : <<>> \in Seq(S)
  BY DEF Range

\* The items that do act to each of ons.
All(act, ons, set) == {Item(act, o, set) : o \in ons}

\* The items Writes lists are those and no other.
LEMMA WritesAre ==
    ASSUME NEW act, NEW ons, NEW set, IsFiniteSet(ons)
    PROVE  /\ Range(Writes(act, ons, set)) = All(act, ons, set)
           /\ Writes(act, ons, set) \in Seq(All(act, ons, set))
<1> DEFINE items == {Item(act, o, set) : o \in ons}
           f == [o \in ons |-> Item(act, o, set)]
<1>1. f \in Surjection(ons, items)
  BY DEF Surjection
<1>2. IsFiniteSet(items)
  BY <1>1, FS_Surjection
<1>3. Writes(act, ons, set) = SetToSeq(items) /\ All(act, ons, set) = items
  BY DEF Writes, All
<1> HIDE DEF items
<1>4. Range(SetToSeq(items)) = items /\ SetToSeq(items) \in Seq(items)
  BY <1>2, SeqOfSet
<1> QED
  BY <1>3, <1>4

-----------------------------------------------------------------------------
(* What a section's items can be: the fields they write, and on what.      *)

Todo == Range(seed.todo)

LbFields == [status |-> "active", vip |-> TRUE, desc |-> "lb"]
Deprecated == [status |-> "deprecated"]
StatusFields == {<<>>, [status |-> "active"], [status |-> "offline"]}
Reserved == [status |-> "dhcp", desc |-> "resv"]
ThingSets == {ThingFields(found) : found \in BOOLEAN}
ReservedFor(t) == [status |-> "dhcp", desc |-> "resv", on |-> t]

Items(act, ons, sets) == [act : {act}, on : ons, set : sets]

LbItems == Items("addr", Pool, {LbFields}) \cup Items("old_addr", Pool, {Deprecated})
NodeItems ==
    Items("look", Nodes, {<<>>}) \cup Items("obj", Nodes, StatusFields) \cup {Address(n) : n \in Nodes}
        \cup Items("iface", Ifaces, {<<>>})
InterfaceItems == Items("prune", Ifaces, {<<>>})
VmItems ==
    Items("look", Guests, {<<>>}) \cup Items("obj", Guests, {VmFields(f, r) : f \in StatusFields, r \in BOOLEAN})
        \cup {Address(g) : g \in Guests}
ReservationItems == Items("old_addr", Addrs, {Deprecated}) \cup Items("addr", Addrs, {Reserved})
IotItems ==
    Items("old_obj", Things, {[status |-> "offline"]}) \cup Items("look", Things, {<<>>})
        \cup Items("obj", Things, ThingSets) \cup Items("addr", Addrs, {ReservedFor(t) : t \in Things})
DnsItems == Items("old_addr", Addrs, [dns : {"name", "none"}])

\* The object an item of the VMs' or the things' section is about.
Whose(i) == IF i.act = "addr" THEN i.set.on ELSE i.on

TodoFits ==
    /\ seed.section = 0 => seed.todo = <<>>
    /\ seed.section = 1 => seed.todo \in Seq(LbItems)
    /\ seed.section = 2 => seed.todo \in Seq(NodeItems)
    /\ seed.section = 3 => seed.todo \in Seq(InterfaceItems)
    /\ seed.section = 4 => seed.todo \in Seq(VmItems)
    /\ seed.section = 5 => seed.todo \in Seq(ReservationItems)
    /\ seed.section = 6 => seed.todo \in Seq(IotItems)
    /\ seed.section = 7 => seed.todo \in Seq(DnsItems)

SeedFits ==
    /\ seed \in [on : BOOLEAN, section : 0..7, todo : {seed.todo}, seen : Live \cup {<<>>},
                 retiring : SUBSET Guests, record : SUBSET Addrs]
    /\ IF Running THEN seen \in Live /\ Apart(seen) ELSE seed = NoRun
    /\ quiet \in BOOLEAN /\ settled \in BOOLEAN
    /\ TodoFits

\* Whatever the owner does beside the run: a VM that was being removed is not
\* written, an address a host has is not taken for a reservation, a device
\* that is not this script's is not made into one.
Careful ==
    /\ seed.section < 4 => seed.retiring = {}
    /\ seed.section = 4 => \A i \in Todo : Whose(i) \notin seed.retiring
    /\ seed.section \in {5, 6} => \A a \in seed.record : seen.lease[a] # Nobody /\ addr[a].on \notin Hosts
    /\ seed.section = 5 => \A i \in Todo : addr[i.on].on \notin Hosts /\ (i.act = "addr" => i.on \in seed.record)
    /\ seed.section = 6 => \A i \in Todo :
          /\ i.act = "addr" => i.on \in seed.record
          /\ i.act \in {"obj", "addr"} => ~There(Whose(i)) \/ obj[Whose(i)].mark

TablesInv == NetBoxTypeOK /\ Tidy(obj, addr) /\ Apart(live)
SafeInv == TablesInv /\ SeedFits /\ Careful

-----------------------------------------------------------------------------
(* A row that is as the live sources have it, or as the owner keeps it.    *)

\* The status an object's fields leave it with, from the one it had.
Becomes(have, f) == IF "status" \in DOMAIN f THEN f.status ELSE IF have = "absent" THEN "active" ELSE have
Synced(o, running) == Becomes(obj[o].status, SyncedStatus(obj[o].status, running)) = obj[o].status
Addressed(h) == addr[AddrOf[h]].status = "active" /\ addr[AddrOf[h]].on = h
Reserves(t) == \E a \in Addrs : live.lease[a] = t
\* Held elsewhere, said of the row alone.
Taken(a) ==
    /\ addr[a].status # "absent"
    /\ addr[a].on \in Hosts \/ (addr[a].on = Nobody /\ addr[a].desc # "resv")

LbAgrees(a) ==
    /\ a \in live.lb => addr[a].status = "active" /\ addr[a].vip /\ addr[a].desc = "lb"
    /\ addr[a].desc = "lb" /\ a \notin live.lb => addr[a].status = "deprecated"
NodeAgrees(n) == There(n) /\ Synced(n, n \in live.online)
GuestAgrees(g) ==
    live.guest[g] # "gone" /\ obj[g].status # "decommissioning" =>
        /\ There(g) /\ Synced(g, live.guest[g] = "running")
        /\ obj[g].role \/ obj[g].shape = "small"
GuestAddressed(g) == live.guest[g] # "gone" /\ obj[g].status # "decommissioning" => Addressed(g)
LeaseAgrees(a) ==
    ~Taken(a) => IF live.lease[a] = Nobody THEN addr[a].status \in {"absent", "deprecated"}
                                           ELSE addr[a].status = "dhcp" /\ addr[a].desc = "resv"
ThingGone(t) == t \in OwnThings /\ ~Reserves(t) => obj[t].status \in {"offline", "decommissioning"}
Kept(t) == There(t) /\ (~obj[t].mark \/ obj[t].status = "decommissioning")
ThingAgrees(t) == Reserves(t) /\ ~Kept(t) => There(t) /\ obj[t].mark /\ obj[t].status = "active"
ThingAddressed(a) ==
    LET t == live.lease[a] IN t \in Things /\ ~Kept(t) /\ ~Taken(a) => addr[a].on = t
NameAgrees(a) ==
    LET h == addr[a].on IN
        a \in Zoned /\ h \in Hosts /\ obj[h].status # "decommissioning" =>
            (obj[h].status \in UseStatuses <=> addr[a].dns = "name")

\* Every interface is needed: nothing but all of them holds the live and the
\* pinned ones and what its members use.
Needed(have) ==
    \A kept \in SUBSET have : have \cap (live.ifaces \cup Pinned) \subseteq kept /\ Closed(kept, have) => kept = have

LbsAgree == \A a \in Addrs : LbAgrees(a)
NodesFit == \A n \in Nodes : NodeAgrees(n) /\ Addressed(n)
IfacesThere == live.up \subseteq ifaces
IfacesNeeded == Prune => Needed(ifaces)
GuestsFit == \A g \in Guests : GuestAgrees(g) /\ GuestAddressed(g)
LeasesAgree == \A a \in Addrs : LeaseAgrees(a)
ThingsFit == (\A t \in Things : ThingGone(t) /\ ThingAgrees(t)) /\ \A a \in Addrs : ThingAddressed(a)
NamesFit == \A a \in Addrs : NameAgrees(a)

Agreed ==
    /\ LbsAgree /\ NodesFit /\ IfacesThere /\ IfacesNeeded
    /\ GuestsFit /\ LeasesAgree /\ ThingsFit /\ NamesFit

-----------------------------------------------------------------------------
(* A run nobody disturbs: what is known of its items, what the sections    *)
(* before this one leave, and that what is not yet so is still to be done. *)

\* What an item was planned from is still so.
MeantLb(i) == IF i.act = "addr" THEN i.on \in live.lb ELSE i.on \notin live.lb
MeantNode(i) == i.act = "obj" => i.set = SyncedStatus(obj[i.on].status, i.on \in live.online)
MeantVm(i) ==
    /\ live.guest[Whose(i)] # "gone" /\ obj[Whose(i)].status # "decommissioning"
    /\ i.act = "obj" =>
          i.set = VmFields(SyncedStatus(obj[i.on].status, live.guest[i.on] = "running"), obj[i.on].role)
MeantLease(i) == ~Taken(i.on) /\ (IF i.act = "addr" THEN live.lease[i.on] # Nobody ELSE live.lease[i.on] = Nobody)
MeantThing(i) ==
    IF i.act = "old_obj" THEN i.on \in OwnThings /\ ~Reserves(i.on) /\ obj[i.on].status # "decommissioning"
    ELSE /\ Reserves(Whose(i))
         /\ i.act # "look" => ~Kept(Whose(i))
         /\ i.act = "addr" => i.on \in seed.record /\ live.lease[i.on] = i.set.on
MeantName(i) ==
    /\ i.on \in Zoned /\ addr[i.on].on \in Hosts
    /\ obj[addr[i.on].on].status # "decommissioning"
    /\ obj[addr[i.on].on].status \in UseStatuses <=> i.set.dns = "name"
    /\ i.set.dns = "none" => addr[i.on].dns # "hand"

Meant ==
    \A i \in Todo :
        /\ seed.section = 1 => MeantLb(i)
        /\ seed.section = 2 => MeantNode(i)
        /\ seed.section = 4 => MeantVm(i)
        /\ seed.section = 5 => MeantLease(i)
        /\ seed.section = 6 => MeantThing(i)
        /\ seed.section = 7 => MeantName(i)

Looked(o) == Item("look", o, <<>>) \in Todo
ToWrite(act, on) == \E i \in Todo : i.act = act /\ i.on = on
Removing == {i \in Ifaces : Item("prune", i, <<>>) \in Todo}

\* What is not yet as it should be is still to be written.
LbsCovered == \A a \in Addrs : LbAgrees(a) \/ ToWrite("addr", a) \/ ToWrite("old_addr", a)
NodesCovered ==
    \A n \in Nodes : /\ NodeAgrees(n) \/ Looked(n) \/ ToWrite("obj", n)
                     /\ Addressed(n) \/ Looked(n) \/ ToWrite("addr", AddrOf[n])
IfacesCovered == \A i \in live.up : i \in ifaces \/ ToWrite("iface", i) \/ Looked(NodeOf[i])
PruneCovered == Prune => Needed(ifaces \ Removing)
GuestsCovered ==
    \A g \in Guests : /\ GuestAgrees(g) \/ Looked(g) \/ ToWrite("obj", g)
                      /\ GuestAddressed(g) \/ Looked(g) \/ ToWrite("addr", AddrOf[g])
LeasesCovered == \A a \in Addrs : LeaseAgrees(a) \/ ToWrite("old_addr", a) \/ ToWrite("addr", a)
ThingsCovered ==
    /\ \A t \in Things : /\ ThingGone(t) \/ ToWrite("old_obj", t)
                         /\ ThingAgrees(t) \/ Looked(t) \/ ToWrite("obj", t)
    /\ \A a \in Addrs : ThingAddressed(a) \/ Looked(live.lease[a]) \/ ToWrite("addr", a)
NamesCovered == \A a \in Addrs : NameAgrees(a) \/ ToWrite("old_addr", a)

Covered ==
    /\ seed.section = 1 => LbsCovered
    /\ seed.section = 2 => NodesCovered /\ IfacesCovered
    /\ seed.section = 3 => PruneCovered
    /\ seed.section = 4 => GuestsCovered
    /\ seed.section = 5 => LeasesCovered
    /\ seed.section = 6 => ThingsCovered
    /\ seed.section = 7 => NamesCovered

\* The sections before this one leave their part as it should be, and those
\* after them do not undo it.
Finished ==
    /\ seed.section > 1 => LbsAgree
    /\ seed.section > 2 => NodesFit /\ IfacesThere
    /\ seed.section > 3 => IfacesNeeded
    /\ seed.section > 4 => GuestsFit
    /\ seed.section > 5 => LeasesAgree
    /\ seed.section > 6 => ThingsFit

\* None before one that uses it.
InOrder(todo) == \A j, k \in DOMAIN todo : todo[j].on \in Uses[todo[k].on] => k < j

\* The interfaces to delete: none that is live or pinned, each before what it
\* uses, and none used by one that stays.
Pruning ==
    seed.section = 3 =>
        /\ Removing \cap (live.ifaces \cup Pinned) = {}
        /\ Closed(ifaces \ Removing, ifaces)
        /\ InOrder(seed.todo)

\* What was listed as recordable is what nothing holds.
RecordKept == seed.section >= 5 => seed.record = {a \in Addrs : live.lease[a] # Nobody /\ ~Taken(a)}

OnCourse == seen = live /\ Meant /\ Covered /\ Finished /\ Pruning /\ RecordKept

QuietInv == quiet /\ Running => OnCourse

-----------------------------------------------------------------------------
(* A run after such a run.                                                 *)

WritesNothing(i) ==
    /\ i.act \in {"obj", "old_obj"} => There(i.on) /\ Patched(obj[i.on], i.set) = obj[i.on]
    /\ i.act \in {"addr", "old_addr"} => addr[i.on].status # "absent" /\ Patched(addr[i.on], i.set) = addr[i.on]
    /\ i.act = "iface" => i.on \in ifaces
    /\ i.act = "prune" => i.on \notin ifaces

SettledInv ==
    settled => /\ quiet /\ Agreed
               /\ \A i \in Todo : WritesNothing(i)

IInv == SafeInv /\ QuietInv /\ SettledInv

-----------------------------------------------------------------------------
(* What a write makes of a row.                                            *)

ARow(status, vip, desc, on, dns) == [status |-> status, vip |-> vip, desc |-> desc, on |-> on, dns |-> dns]
ORow(status, mark, role, shape, login) ==
    [status |-> status, mark |-> mark, role |-> role, shape |-> shape, login |-> login]

\* What NetBox.ensure makes of the row of an address, by the fields.
LEMMA PatchedAddress ==
    ASSUME NEW row \in AddrRow
    PROVE  /\ Patched(row, LbFields) = ARow("active", TRUE, "lb", row.on, row.dns)
           /\ Patched(row, Deprecated) = ARow("deprecated", row.vip, row.desc, row.on, row.dns)
           /\ Patched(row, Reserved) = ARow("dhcp", row.vip, "resv", row.on, row.dns)
           /\ \A t : Patched(row, ReservedFor(t)) = ARow("dhcp", row.vip, "resv", t, row.dns)
           /\ \A h : Patched(row, Address(h).set) = ARow("active", row.vip, row.desc, h, row.dns)
           /\ row.status # "absent" =>
                 \A d : Patched(row, [dns |-> d]) = ARow(row.status, row.vip, row.desc, row.on, d)
<1>1. DOMAIN row = {"status", "vip", "desc", "on", "dns"}
  BY DEF AddrRow
<1>2. Patched(row, LbFields) = ARow("active", TRUE, "lb", row.on, row.dns)
  <2>1. ASSUME NEW v
        PROVE  Patched(row, [status |-> "active", vip |-> v, desc |-> "lb"]) = ARow("active", v, "lb", row.on, row.dns)
    BY <1>1 DEF Patched, ARow
  <2> QED
    BY <2>1 DEF LbFields
<1>3. Patched(row, Deprecated) = ARow("deprecated", row.vip, row.desc, row.on, row.dns)
  BY <1>1 DEF Patched, Deprecated, ARow
<1>4. Patched(row, Reserved) = ARow("dhcp", row.vip, "resv", row.on, row.dns)
  BY <1>1 DEF Patched, Reserved, ARow
<1>5. ASSUME NEW t PROVE Patched(row, ReservedFor(t)) = ARow("dhcp", row.vip, "resv", t, row.dns)
  BY <1>1 DEF Patched, ReservedFor, ARow
<1>6. ASSUME NEW h PROVE Patched(row, Address(h).set) = ARow("active", row.vip, row.desc, h, row.dns)
  BY <1>1 DEF Patched, Address, Item, ARow
<1>7. ASSUME row.status # "absent", NEW d
      PROVE  Patched(row, [dns |-> d]) = ARow(row.status, row.vip, row.desc, row.on, d)
  BY <1>1, <1>7 DEF Patched, ARow
<1> QED
  BY <1>2, <1>3, <1>4, <1>5, <1>6, <1>7

\* What NetBox.ensure makes of the row of an object, by the fields.
LEMMA PatchedObject ==
    ASSUME NEW row \in ObjRow
    PROVE  /\ \A found \in BOOLEAN :
                 Patched(row, ThingFields(found)) = ORow("active", TRUE, row.role, row.shape, row.login)
           /\ Patched(row, [status |-> "offline"]) = ORow("offline", row.mark, row.role, row.shape, row.login)
           /\ \A f \in StatusFields :
                 /\ Patched(row, f) = ORow(Becomes(row.status, f), row.mark, row.role, row.shape, row.login)
                 /\ \A role \in BOOLEAN : Patched(row, VmFields(f, role)) =
                       ORow(Becomes(row.status, f), row.mark, row.role, IF role THEN row.shape ELSE "small", row.login)
<1>1. DOMAIN row = {"status", "mark", "role", "shape", "login"}
  BY DEF ObjRow
<1>2. ASSUME NEW found \in BOOLEAN
      PROVE  Patched(row, ThingFields(found)) = ORow("active", TRUE, row.role, row.shape, row.login)
  <2>1. ASSUME NEW v, NEW more \in SUBSET {"kind"}
        PROVE  Patched(row, [f \in {"status", "mark"} \cup more |-> IF f = "status" THEN "active" ELSE v])
                  = ORow("active", v, row.role, row.shape, row.login)
    BY <1>1 DEF Patched, ORow
  <2>2. (IF found THEN {} ELSE {"kind"}) \in SUBSET {"kind"}
    OBVIOUS
  <2> QED
    BY <2>1, <2>2 DEF ThingFields
<1>3. Patched(row, [status |-> "offline"]) = ORow("offline", row.mark, row.role, row.shape, row.login)
  BY <1>1 DEF Patched, ORow
<1>4. \A f \in StatusFields : DOMAIN f \subseteq {"status"}
  BY DEF StatusFields
<1>5. ASSUME NEW f \in StatusFields
      PROVE  Patched(row, f) = ORow(Becomes(row.status, f), row.mark, row.role, row.shape, row.login)
  BY <1>1, <1>4 DEF Patched, ORow, Becomes
<1>6. ASSUME NEW f \in StatusFields, NEW role \in BOOLEAN
      PROVE  Patched(row, VmFields(f, role)) =
                ORow(Becomes(row.status, f), row.mark, row.role, IF role THEN row.shape ELSE "small", row.login)
  BY <1>1, <1>4 DEF Patched, ORow, Becomes, VmFields
<1> QED
  BY <1>2, <1>3, <1>5, <1>6

\* A thing's device is written with one of the two sets of fields.
LEMMA ThingSetsAre == \A found : found \in BOOLEAN => ThingFields(found) \in ThingSets
  BY DEF ThingSets

-----------------------------------------------------------------------------
(* The tables.                                                             *)

\* The tables stay tidy when a tidy row is put for an address.
LEMMA PutAddress ==
    ASSUME TablesInv, NEW a \in Addrs, NEW row \in AddrRow, TidyRow(obj, a, row),
           obj' = obj, ifaces' = ifaces, addr' = [addr EXCEPT ![a] = row], UNCHANGED <<live, jobs>>,
           events' \in 0..MaxEvents
    PROVE  TablesInv'
<1>1. addr' \in [Addrs -> AddrRow] /\ \A b \in Addrs : addr'[b] = IF b = a THEN row ELSE addr[b]
  BY DEF TablesInv, NetBoxTypeOK
<1>2. NetBoxTypeOK'
  BY <1>1 DEF TablesInv, NetBoxTypeOK
<1>3. \A b \in Addrs : TidyRow(obj, b, addr'[b])
  BY <1>1 DEF TablesInv, Tidy
<1> QED
  BY <1>2, <1>3 DEF TablesInv, Tidy

\* The tables stay tidy when an object is written, but for a thing its
\* addresses need.
LEMMA PutObject ==
    ASSUME TablesInv, NEW o \in Objects, NEW row \in ObjRow,
           o \in Things => (row.status # "absent" /\ row.mark) \/ \A a \in Addrs : addr[a].on # o,
           addr' = addr, ifaces' = ifaces, obj' = [obj EXCEPT ![o] = row], UNCHANGED <<live, jobs>>,
           events' \in 0..MaxEvents
    PROVE  TablesInv'
<1>1. obj' \in [Objects -> ObjRow] /\ \A b \in Objects : obj'[b] = IF b = o THEN row ELSE obj[b]
  BY DEF TablesInv, NetBoxTypeOK
<1>2. NetBoxTypeOK'
  BY <1>1 DEF TablesInv, NetBoxTypeOK
<1>3. ASSUME NEW a \in Addrs PROVE TidyRow(obj', a, addr[a])
  <2>1. TidyRow(obj, a, addr[a])
    BY DEF TablesInv, Tidy
  <2>2. addr[a].on \in Things => obj'[addr[a].on].status # "absent" /\ obj'[addr[a].on].mark
    BY <1>1, <2>1 DEF TidyRow, Objects
  <2> QED
    BY <2>1, <2>2 DEF TidyRow
<1> QED
  BY <1>2, <1>3 DEF TablesInv, Tidy

\* What the tables say of an address.
LEMMA AddressIs ==
    ASSUME TablesInv, NEW a \in Addrs
    PROVE  /\ addr[a] \in AddrRow /\ TidyRow(obj, a, addr[a])
           /\ addr[a].status \in {"absent", "active", "dhcp", "deprecated"} /\ addr[a].vip \in BOOLEAN
           /\ addr[a].desc \in {"none", "lb", "resv", "hand"} /\ addr[a].on \in Objects \cup {Nobody}
           /\ addr[a].dns \in {"none", "name", "hand"}
           /\ addr[a] = ARow(addr[a].status, addr[a].vip, addr[a].desc, addr[a].on, addr[a].dns)
           /\ addr[a].status = "absent" => addr[a].on = Nobody /\ addr[a].desc = "none" /\ ~addr[a].vip /\ addr[a].dns = "none"
           /\ HeldElsewhere(a) <=> Taken(a)
<1>1. addr[a] \in AddrRow /\ TidyRow(obj, a, addr[a])
  BY DEF TablesInv, NetBoxTypeOK, Tidy
<1>2. /\ addr[a].status \in {"absent", "active", "dhcp", "deprecated"} /\ addr[a].vip \in BOOLEAN
      /\ addr[a].desc \in {"none", "lb", "resv", "hand"} /\ addr[a].on \in Objects \cup {Nobody}
      /\ addr[a].dns \in {"none", "name", "hand"}
      /\ addr[a] = ARow(addr[a].status, addr[a].vip, addr[a].desc, addr[a].on, addr[a].dns)
  BY <1>1 DEF AddrRow, ARow
<1>3. addr[a].status = "absent" => addr[a].on = Nobody /\ addr[a].desc = "none" /\ ~addr[a].vip /\ addr[a].dns = "none"
  BY <1>1 DEF TidyRow, NoAddress
<1>4. HeldElsewhere(a) <=> Taken(a)
  <2>1. CASE addr[a].on = Nobody
    <3>1. Nobody \notin Hosts
      BY NetBoxAssumption DEF Objects
    <3> QED
      BY <1>1, <1>2, <2>1, <3>1 DEF HeldElsewhere, Taken, TidyRow
  <2>2. CASE addr[a].on \in Hosts
    <3>1. addr[a].on \notin OwnThings /\ addr[a].on # Nobody
      BY <2>2, NetBoxAssumption DEF OwnThings, Objects
    <3> QED
      BY <2>2, <3>1 DEF HeldElsewhere, Taken
  <2>3. CASE addr[a].on \in Things
    <3>1. addr[a].on \in OwnThings /\ addr[a].desc = "resv"
      BY <1>1, <2>3 DEF OwnThings, There, TidyRow
    <3>2. addr[a].on \notin Hosts /\ addr[a].on # Nobody
      BY <2>3, NetBoxAssumption DEF Objects
    <3> QED
      BY <3>1, <3>2 DEF HeldElsewhere, Taken
  <2> QED
    BY <1>2, <2>1, <2>2, <2>3 DEF Objects
<1> QED
  BY <1>1, <1>2, <1>3, <1>4

LEMMA ObjectIs ==
    ASSUME TablesInv, NEW o \in Objects
    PROVE  /\ obj[o] \in ObjRow /\ obj[o].status \in Statuses /\ obj[o].mark \in BOOLEAN /\ obj[o].role \in BOOLEAN
           /\ obj[o].shape \in Shapes /\ obj[o].login \in Logins
           /\ obj[o] = ORow(obj[o].status, obj[o].mark, obj[o].role, obj[o].shape, obj[o].login)
  BY DEF TablesInv, NetBoxTypeOK, ObjRow, ORow

-----------------------------------------------------------------------------
(* The run's next item.                                                    *)

LEMMA Names ==
    /\ Len(Sections) = 7
    /\ Sections[1] = "lbs" /\ Sections[2] = "nodes" /\ Sections[3] = "interfaces" /\ Sections[4] = "vms"
    /\ Sections[5] = "reservations" /\ Sections[6] = "iot" /\ Sections[7] = "dns"
  BY DEF Sections

\* A run with items has its sources read, and the next item is one of its
\* section's.
LEMMA NextItem ==
    ASSUME SeedFits, seed.todo # <<>>
    PROVE  /\ Running /\ seed.section \in 1..7 /\ seen \in Live /\ Apart(seen)
           /\ Todo = {Head(seed.todo)} \cup Range(Tail(seed.todo))
           /\ Head(seed.todo) \in Todo
           /\ seed.section = 1 => Head(seed.todo) \in LbItems
           /\ seed.section = 2 => Head(seed.todo) \in NodeItems
           /\ seed.section = 3 => Head(seed.todo) \in InterfaceItems
           /\ seed.section = 4 => Head(seed.todo) \in VmItems
           /\ seed.section = 5 => Head(seed.todo) \in ReservationItems
           /\ seed.section = 6 => Head(seed.todo) \in IotItems
           /\ seed.section = 7 => Head(seed.todo) \in DnsItems
<1>1. Running /\ seen \in Live /\ Apart(seen)
  BY DEF SeedFits, NoRun, Running
<1>2. seed.section \in 1..7
  BY DEF SeedFits, TodoFits
<1>3. ASSUME NEW S, seed.todo \in Seq(S)
      PROVE  /\ Todo = {Head(seed.todo)} \cup Range(Tail(seed.todo)) /\ Head(seed.todo) \in Todo
             /\ Head(seed.todo) \in S
  BY <1>3, HeadAndTail DEF Todo
<1>4. TodoFits
  BY DEF SeedFits
<1>5. PICK S : seed.todo \in Seq(S)
  BY <1>2, <1>4 DEF TodoFits
<1> QED
  BY <1>1, <1>2, <1>3, <1>4, <1>5 DEF TodoFits

\* The run after a call for its next item.
LEMMA ItemDone ==
    ASSUME SeedFits, SeedWrites
    PROVE  /\ seed.todo # <<>> /\ Head(seed.todo).act # "look" /\ ~Refused(Head(seed.todo))
           /\ seed'.on = seed.on /\ seed'.section = seed.section /\ seed'.seen = seed.seen
           /\ seed'.retiring = seed.retiring /\ seed'.record = seed.record
           /\ seed'.todo = Tail(seed.todo)
           /\ Todo = {Head(seed.todo)} \cup Todo' /\ Todo' \subseteq Todo
           /\ UNCHANGED <<live, jobs, events, quiet, settled>>
           /\ SeedFits'
<1>1. /\ seed.todo # <<>> /\ Head(seed.todo).act # "look" /\ ~Refused(Head(seed.todo))
      /\ UNCHANGED <<live, jobs, events, quiet, settled>>
      /\ seed' = [seed EXCEPT !.todo = Tail(@)]
  BY DEF SeedWrites, outside
<1>2. /\ seed'.on = seed.on /\ seed'.section = seed.section /\ seed'.seen = seed.seen
      /\ seed'.retiring = seed.retiring /\ seed'.record = seed.record
      /\ seed'.todo = Tail(seed.todo)
      /\ seed' \in [on : BOOLEAN, section : 0..7, todo : {seed'.todo}, seen : Live \cup {<<>>},
                 retiring : SUBSET Guests, record : SUBSET Addrs]
  BY <1>1 DEF SeedFits
<1>3. Todo = {Head(seed.todo)} \cup Todo' /\ Todo' \subseteq Todo
  BY <1>1, <1>2, NextItem DEF Todo
<1>4. TodoFits'
  <2>1. ASSUME NEW S, seed.todo \in Seq(S) PROVE seed'.todo \in Seq(S)
    BY <1>1, <1>2, <2>1, HeadAndTail
  <2>2. seed.section # 0
    BY <1>1, NextItem
  <2> QED
    BY <1>2, <2>1, <2>2 DEF TodoFits, SeedFits
<1>5. Running' /\ seed'.seen \in Live /\ Apart(seed'.seen)
  BY <1>1, <1>2, NextItem DEF Running, seen
<1>6. quiet' \in BOOLEAN /\ settled' \in BOOLEAN
  BY <1>1 DEF SeedFits
<1> QED
  BY <1>1, <1>2, <1>3, <1>4, <1>5, <1>6 DEF SeedFits, seen

-----------------------------------------------------------------------------
(* What the write of an item does to the tables, section by section.       *)

PutsAddr(a, row) == obj' = obj /\ ifaces' = ifaces /\ addr' = [addr EXCEPT ![a] = row]
PutsObj(o, row) == addr' = addr /\ ifaces' = ifaces /\ obj' = [obj EXCEPT ![o] = row]
Now(o, f, shape) == ORow(Becomes(obj[o].status, f), obj[o].mark, obj[o].role, shape, obj[o].login)

\* The row a write changes, by what the item does.
LEMMA WriteIs ==
    ASSUME SeedWrites, NEW i, i = Head(seed.todo)
    PROVE  /\ i.act \in {"obj", "old_obj"} => PutsObj(i.on, Patched(obj[i.on], i.set))
           /\ i.act \in {"addr", "old_addr"} => PutsAddr(i.on, Patched(addr[i.on], i.set))
           /\ i.act = "iface" => obj' = obj /\ addr' = addr /\ ifaces' = ifaces \cup {i.on}
           /\ i.act = "prune" => obj' = obj /\ addr' = addr /\ ifaces' = ifaces \ {i.on}
  BY DEF SeedWrites, PutsObj, PutsAddr

\* The load balancers' section writes addresses of the pool only.
LEMMA LbWrite ==
    ASSUME TablesInv, SeedFits, SeedWrites, seed.section = 1, NEW i, i = Head(seed.todo)
    PROVE  /\ i.on \in Pool
           /\ \/ i.act = "addr" /\ PutsAddr(i.on, ARow("active", TRUE, "lb", addr[i.on].on, addr[i.on].dns))
              \/ /\ i.act = "old_addr" /\ addr[i.on].status # "absent"
                 /\ PutsAddr(i.on, ARow("deprecated", addr[i.on].vip, addr[i.on].desc, addr[i.on].on, addr[i.on].dns))
<1>1. i \in LbItems /\ ~Refused(i) /\ i \in Todo
  BY ItemDone, NextItem
<1>2. i.on \in Pool /\ i.on \in Addrs
  BY <1>1, NetBoxAssumption DEF LbItems, Items
<1>3. addr[i.on] \in AddrRow
  BY <1>2, AddressIs
<1>4. CASE i.act = "addr"
  <2>1. i.act = "addr" /\ i.set = LbFields
    BY <1>1, <1>4 DEF LbItems, Items
  <2>2. Patched(addr[i.on], LbFields) = ARow("active", TRUE, "lb", addr[i.on].on, addr[i.on].dns)
    BY <1>3, PatchedAddress
  <2>3. PutsAddr(i.on, Patched(addr[i.on], i.set))
    BY <2>1, WriteIs
  <2> QED
    BY <2>1, <2>2, <2>3, <1>2
<1>5. CASE i.act = "old_addr"
  <2>1. i.act = "old_addr" /\ i.set = Deprecated /\ addr[i.on].status # "absent"
    BY <1>1, <1>5 DEF LbItems, Items, Refused
  <2>2. Patched(addr[i.on], Deprecated) = ARow("deprecated", addr[i.on].vip, addr[i.on].desc, addr[i.on].on, addr[i.on].dns)
    BY <1>3, PatchedAddress
  <2>3. PutsAddr(i.on, Patched(addr[i.on], i.set))
    BY <2>1, WriteIs
  <2> QED
    BY <2>1, <2>2, <2>3, <1>2
<1> QED
  BY <1>1, <1>2, <1>4, <1>5 DEF LbItems, Items

\* The write of a host's own address, for the host.
LEMMA AddressItem ==
    ASSUME TablesInv, SeedWrites, NEW h \in Hosts, Head(seed.todo) = Address(h), ~Refused(Address(h))
    PROVE  /\ There(h) /\ AddrOf[h] \in Addrs \ Pool
           /\ LET a == AddrOf[h] IN PutsAddr(a, ARow("active", addr[a].vip, addr[a].desc, h, addr[a].dns))
<1>1. AddrOf[h] \in Addrs \ Pool
  BY NetBoxAssumption
<1>2. addr[AddrOf[h]] \in AddrRow
  BY <1>1, AddressIs
<1>3. Address(h).act = "addr" /\ Address(h).on = AddrOf[h] /\ Address(h).set.on = h /\ "on" \in DOMAIN Address(h).set
  BY DEF Address, Item
<1> QED
  BY <1>1, <1>2, <1>3, WriteIs, PatchedAddress DEF Refused

\* The nodes' section writes a node, its address, or an interface.
LEMMA NodeWrite ==
    ASSUME TablesInv, SeedFits, SeedWrites, seed.section = 2, NEW i, i = Head(seed.todo)
    PROVE  \/ /\ i.act = "obj" /\ i.on \in Nodes /\ i.set \in StatusFields
              /\ PutsObj(i.on, Now(i.on, i.set, obj[i.on].shape))
           \/ \E n \in Nodes :
                 /\ i = Address(n) /\ i.act = "addr" /\ i.on = AddrOf[n] /\ There(n)
                 /\ PutsAddr(i.on, ARow("active", addr[i.on].vip, addr[i.on].desc, n, addr[i.on].dns))
           \/ i.act = "iface" /\ i.on \in Ifaces /\ obj' = obj /\ addr' = addr /\ ifaces' = ifaces \cup {i.on}
<1>1. i \in NodeItems /\ ~Refused(i) /\ i \in Todo /\ i.act # "look"
  BY ItemDone, NextItem
<1>2. CASE i \in Items("obj", Nodes, StatusFields)
  <2>1. i.act = "obj" /\ i.on \in Nodes /\ i.set \in StatusFields /\ obj[i.on] \in ObjRow
    BY <1>2, ObjectIs DEF Items, Objects, Hosts
  <2> QED
    BY <2>1, WriteIs, PatchedObject DEF Now
<1>3. CASE \E n \in Nodes : i = Address(n)
  BY <1>1, <1>3, AddressItem DEF Hosts, Address, Item
<1>4. CASE i \in Items("iface", Ifaces, {<<>>})
  BY <1>4, WriteIs DEF Items
<1>5. i \notin Items("look", Nodes, {<<>>})
  BY <1>1 DEF Items
<1> QED
  BY <1>1, <1>2, <1>3, <1>4, <1>5 DEF NodeItems

\* The interfaces' section deletes one interface.
LEMMA InterfaceWrite ==
    ASSUME TablesInv, SeedFits, SeedWrites, seed.section = 3, NEW i, i = Head(seed.todo)
    PROVE  /\ i.act = "prune" /\ i.on \in Ifaces /\ i = Item("prune", i.on, <<>>)
           /\ obj' = obj /\ addr' = addr /\ ifaces' = ifaces \ {i.on}
<1>1. i \in InterfaceItems
  BY ItemDone, NextItem
<1>2. i.act = "prune" /\ i.on \in Ifaces /\ i = Item("prune", i.on, <<>>)
  BY <1>1 DEF InterfaceItems, Items, Item
<1> QED
  BY <1>2, WriteIs

\* The VMs' section writes a VM or its address.
LEMMA VmWrite ==
    ASSUME TablesInv, SeedFits, SeedWrites, seed.section = 4, NEW i, i = Head(seed.todo)
    PROVE  \/ /\ i.act = "obj" /\ i.on \in Guests
              /\ \E f \in StatusFields, role \in BOOLEAN :
                    /\ i.set = VmFields(f, role)
                    /\ PutsObj(i.on, Now(i.on, f, IF role THEN obj[i.on].shape ELSE "small"))
           \/ \E g \in Guests :
                 /\ i = Address(g) /\ i.act = "addr" /\ i.on = AddrOf[g] /\ There(g)
                 /\ PutsAddr(i.on, ARow("active", addr[i.on].vip, addr[i.on].desc, g, addr[i.on].dns))
<1>1. i \in VmItems /\ ~Refused(i) /\ i \in Todo /\ i.act # "look"
  BY ItemDone, NextItem
<1>2. CASE i \in Items("obj", Guests, {VmFields(f, r) : f \in StatusFields, r \in BOOLEAN})
  <2>1. i.act = "obj" /\ i.on \in Guests /\ obj[i.on] \in ObjRow
    BY <1>2, ObjectIs DEF Items, Objects, Hosts
  <2>2. PICK f \in StatusFields, role \in BOOLEAN : i.set = VmFields(f, role)
    BY <1>2 DEF Items
  <2>3. PutsObj(i.on, Patched(obj[i.on], i.set))
    BY <2>1, WriteIs
  <2>4. Patched(obj[i.on], i.set) = Now(i.on, f, IF role THEN obj[i.on].shape ELSE "small")
    BY <2>1, <2>2, PatchedObject DEF Now
  <2> QED
    BY <2>1, <2>2, <2>3, <2>4
<1>3. CASE \E g \in Guests : i = Address(g)
  BY <1>1, <1>3, AddressItem DEF Hosts, Address, Item
<1>4. i \notin Items("look", Guests, {<<>>})
  BY <1>1 DEF Items
<1> QED
  BY <1>1, <1>2, <1>3, <1>4 DEF VmItems

\* The reservations' section records an address or deprecates its record.
LEMMA ReservationWrite ==
    ASSUME TablesInv, SeedFits, SeedWrites, seed.section = 5, NEW i, i = Head(seed.todo)
    PROVE  /\ i.on \in Addrs
           /\ \/ i.act = "addr" /\ PutsAddr(i.on, ARow("dhcp", addr[i.on].vip, "resv", addr[i.on].on, addr[i.on].dns))
              \/ /\ i.act = "old_addr" /\ addr[i.on].status # "absent"
                 /\ PutsAddr(i.on, ARow("deprecated", addr[i.on].vip, addr[i.on].desc, addr[i.on].on, addr[i.on].dns))
<1>1. i \in ReservationItems /\ ~Refused(i)
  BY ItemDone, NextItem
<1>2. i.on \in Addrs /\ addr[i.on] \in AddrRow
  BY <1>1, AddressIs DEF ReservationItems, Items
<1>3. CASE i.act = "addr"
  <2>1. i.act = "addr" /\ i.set = Reserved
    BY <1>1, <1>3 DEF ReservationItems, Items
  <2>2. Patched(addr[i.on], Reserved) = ARow("dhcp", addr[i.on].vip, "resv", addr[i.on].on, addr[i.on].dns)
    BY <1>2, PatchedAddress
  <2>3. PutsAddr(i.on, Patched(addr[i.on], i.set))
    BY <2>1, WriteIs
  <2> QED
    BY <2>1, <2>2, <2>3, <1>2
<1>4. CASE i.act = "old_addr"
  <2>1. i.act = "old_addr" /\ i.set = Deprecated /\ addr[i.on].status # "absent"
    BY <1>1, <1>4 DEF ReservationItems, Items, Refused
  <2>2. Patched(addr[i.on], Deprecated) = ARow("deprecated", addr[i.on].vip, addr[i.on].desc, addr[i.on].on, addr[i.on].dns)
    BY <1>2, PatchedAddress
  <2>3. PutsAddr(i.on, Patched(addr[i.on], i.set))
    BY <2>1, WriteIs
  <2> QED
    BY <2>1, <2>2, <2>3, <1>2
<1> QED
  BY <1>1, <1>2, <1>3, <1>4 DEF ReservationItems, Items

\* The IoT section writes a thing or its address.
LEMMA ThingWrite ==
    ASSUME TablesInv, SeedFits, SeedWrites, seed.section = 6, NEW i, i = Head(seed.todo)
    PROVE  \/ /\ i.act = "old_obj" /\ i.on \in Things /\ There(i.on)
              /\ PutsObj(i.on, ORow("offline", obj[i.on].mark, obj[i.on].role, obj[i.on].shape, obj[i.on].login))
           \/ /\ i.act = "obj" /\ i.on \in Things
              /\ PutsObj(i.on, ORow("active", TRUE, obj[i.on].role, obj[i.on].shape, obj[i.on].login))
           \/ /\ i.act = "addr" /\ i.on \in Addrs /\ i.set.on \in Things /\ There(i.set.on)
              /\ i.set = ReservedFor(i.set.on)
              /\ PutsAddr(i.on, ARow("dhcp", addr[i.on].vip, "resv", i.set.on, addr[i.on].dns))
<1>1. i \in IotItems /\ ~Refused(i) /\ i.act # "look"
  BY ItemDone, NextItem
<1>2. CASE i \in Items("old_obj", Things, {[status |-> "offline"]})
  <2>1. i.act = "old_obj" /\ i.on \in Things /\ i.set = [status |-> "offline"] /\ obj[i.on] \in ObjRow
    BY <1>2, ObjectIs DEF Items, Objects
  <2>2. Patched(obj[i.on], [status |-> "offline"])
           = ORow("offline", obj[i.on].mark, obj[i.on].role, obj[i.on].shape, obj[i.on].login)
    BY <2>1, PatchedObject
  <2>3. PutsObj(i.on, Patched(obj[i.on], i.set)) /\ There(i.on)
    BY <1>1, <2>1, WriteIs DEF Refused
  <2> QED
    BY <2>1, <2>2, <2>3
<1>3. CASE i \in Items("obj", Things, ThingSets)
  <2>1. i.act = "obj" /\ i.on \in Things /\ i.set \in ThingSets /\ obj[i.on] \in ObjRow
    BY <1>3, ObjectIs DEF Items, Objects
  <2>2. Patched(obj[i.on], i.set)
           = ORow("active", TRUE, obj[i.on].role, obj[i.on].shape, obj[i.on].login)
    BY <2>1, PatchedObject DEF ThingSets
  <2>3. PutsObj(i.on, Patched(obj[i.on], i.set))
    BY <2>1, WriteIs
  <2> QED
    BY <2>1, <2>2, <2>3
<1>4. CASE i \in Items("addr", Addrs, {ReservedFor(t) : t \in Things})
  <2>1. /\ i.act = "addr" /\ i.on \in Addrs /\ i.set = ReservedFor(i.set.on) /\ i.set.on \in Things
        /\ "on" \in DOMAIN i.set /\ addr[i.on] \in AddrRow
    BY <1>4, AddressIs DEF Items, ReservedFor
  <2>2. Patched(addr[i.on], ReservedFor(i.set.on)) = ARow("dhcp", addr[i.on].vip, "resv", i.set.on, addr[i.on].dns)
    BY <2>1, PatchedAddress
  <2>3. PutsAddr(i.on, Patched(addr[i.on], i.set)) /\ There(i.set.on)
    BY <1>1, <2>1, WriteIs DEF Refused
  <2> QED
    BY <2>1, <2>2, <2>3
<1>5. i \notin Items("look", Things, {<<>>})
  BY <1>1 DEF Items
<1> QED
  BY <1>1, <1>2, <1>3, <1>4, <1>5 DEF IotItems

\* The last section writes the name of an address and nothing else of it.
LEMMA NameWrite ==
    ASSUME TablesInv, SeedFits, SeedWrites, seed.section = 7, NEW i, i = Head(seed.todo)
    PROVE  /\ i.on \in Addrs /\ i.act = "old_addr" /\ addr[i.on].status # "absent"
           /\ i.set.dns \in {"name", "none"} /\ i.set = [dns |-> i.set.dns]
           /\ PutsAddr(i.on, ARow(addr[i.on].status, addr[i.on].vip, addr[i.on].desc, addr[i.on].on, i.set.dns))
<1>1. i \in DnsItems /\ ~Refused(i)
  BY ItemDone, NextItem
<1>2. /\ i.on \in Addrs /\ i.act = "old_addr" /\ i.set.dns \in {"name", "none"} /\ i.set = [dns |-> i.set.dns]
      /\ addr[i.on] \in AddrRow
  BY <1>1, AddressIs DEF DnsItems, Items
<1>3. addr[i.on].status # "absent"
  BY <1>1, <1>2 DEF Refused
<1>4. Patched(addr[i.on], [dns |-> i.set.dns])
         = ARow(addr[i.on].status, addr[i.on].vip, addr[i.on].desc, addr[i.on].on, i.set.dns)
  BY <1>2, <1>3, PatchedAddress
<1>5. PutsAddr(i.on, Patched(addr[i.on], i.set))
  BY <1>2, WriteIs
<1> QED
  BY <1>2, <1>3, <1>4, <1>5

-----------------------------------------------------------------------------
(* What holds whatever the owner does beside the run.                      *)

LEMMA PutAddressOf ==
    ASSUME TablesInv, SeedFits, SeedWrites, NEW a \in Addrs, NEW row \in AddrRow, TidyRow(obj, a, row), PutsAddr(a, row)
    PROVE  TablesInv'
<1>1. UNCHANGED <<live, jobs>> /\ events' \in 0..MaxEvents
  BY ItemDone DEF TablesInv, NetBoxTypeOK
<1> QED
  BY <1>1, PutAddress DEF PutsAddr

LEMMA PutObjectOf ==
    ASSUME TablesInv, SeedFits, SeedWrites, NEW o \in Objects, NEW row \in ObjRow, PutsObj(o, row),
           o \in Things => (row.status # "absent" /\ row.mark) \/ \A a \in Addrs : addr[a].on # o
    PROVE  TablesInv'
<1>1. UNCHANGED <<live, jobs>> /\ events' \in 0..MaxEvents
  BY ItemDone DEF TablesInv, NetBoxTypeOK
<1> QED
  BY <1>1, PutObject DEF PutsObj

\* A status a run gives is one of NetBox's.
LEMMA BecomesOne ==
    ASSUME NEW have \in Statuses, NEW f \in StatusFields
    PROVE  Becomes(have, f) \in Statuses \ {"absent"}
  BY DEF Becomes, StatusFields, Statuses

\* The address of a node or a guest, written for it.
LEMMA HostAddressKeeps ==
    ASSUME TablesInv, SeedFits, SeedWrites, NEW h \in Hosts,
           PutsAddr(AddrOf[h], ARow("active", addr[AddrOf[h]].vip, addr[AddrOf[h]].desc, h, addr[AddrOf[h]].dns))
    PROVE  TablesInv'
<1> DEFINE a == AddrOf[h]
           row == ARow("active", addr[a].vip, addr[a].desc, h, addr[a].dns)
<1>1. a \in Addrs \ Pool /\ h \in Objects /\ h \notin Things /\ h # Nobody
  BY NetBoxAssumption DEF Objects
<1>2. /\ TidyRow(obj, a, addr[a]) /\ addr[a].vip \in BOOLEAN
      /\ addr[a].desc \in {"none", "lb", "resv", "hand"} /\ addr[a].dns \in {"none", "name", "hand"}
  BY <1>1, AddressIs
<1>3. row \in AddrRow
  BY <1>1, <1>2 DEF ARow, AddrRow
<1>4. TidyRow(obj, a, row)
  BY <1>1, <1>2 DEF TidyRow, ARow
<1> HIDE DEF a, row
<1>5. PutsAddr(a, row)
  BY DEF a, row
<1> QED
  BY <1>1, <1>3, <1>4, <1>5, PutAddressOf

\* Whatever the owner did since, no write leaves the tables untidy: each
\* section writes rows of its own kind, and a refused one writes nothing.
LEMMA WriteKeepsTables ==
    ASSUME TablesInv, SeedFits, Careful, SeedWrites
    PROVE  TablesInv'
<1> DEFINE i == Head(seed.todo)
<1>0. seed.section \in 1..7 /\ i \in Todo /\ Running /\ seen \in Live /\ Apart(seen)
  BY ItemDone, NextItem
<1>1. CASE seed.section = 1
  <2>1. i.on \in Pool /\ i.on \in Addrs
    BY <1>1, LbWrite, NetBoxAssumption
  <2> DEFINE a == i.on
             new == ARow("active", TRUE, "lb", addr[a].on, addr[a].dns)
             old == ARow("deprecated", addr[a].vip, addr[a].desc, addr[a].on, addr[a].dns)
  <2>2. PutsAddr(a, new) \/ (addr[a].status # "absent" /\ PutsAddr(a, old))
    BY <1>1, LbWrite
  <2>3. /\ TidyRow(obj, a, addr[a]) /\ addr[a].vip \in BOOLEAN /\ addr[a].on \in Objects \cup {Nobody}
        /\ addr[a].desc \in {"none", "lb", "resv", "hand"} /\ addr[a].dns \in {"none", "name", "hand"}
        /\ addr[a].status \in {"absent", "active", "dhcp", "deprecated"}
    BY <2>1, AddressIs
  <2>4. Nobody \notin Objects /\ Hosts \subseteq Objects /\ Things \subseteq Objects
    BY NetBoxAssumption DEF Objects
  <2>5. addr[a].on = Nobody
    BY <2>1, <2>3 DEF TidyRow
  <2>6. new \in AddrRow /\ old \in AddrRow
    BY <2>3 DEF ARow, AddrRow
  <2>7. TidyRow(obj, a, new) /\ (addr[a].status # "absent" => TidyRow(obj, a, old))
    BY <2>1, <2>3, <2>4, <2>5 DEF TidyRow, ARow
  <2> HIDE DEF new, old, a
  <2> QED
    BY <2>1, <2>2, <2>6, <2>7, PutAddressOf DEF a
<1>2. CASE seed.section = 2
  <2>1. CASE /\ i.on \in Nodes /\ i.set \in StatusFields
             /\ PutsObj(i.on, Now(i.on, i.set, obj[i.on].shape))
    <3>1. i.on \in Objects /\ i.on \notin Things
      BY <2>1, NetBoxAssumption DEF Objects, Hosts
    <3>2. Now(i.on, i.set, obj[i.on].shape) \in ObjRow
      BY <2>1, <3>1, ObjectIs, BecomesOne DEF Now, ORow, ObjRow
    <3> QED
      BY <2>1, <3>1, <3>2, PutObjectOf
  <2>2. CASE \E n \in Nodes : i.on = AddrOf[n] /\ PutsAddr(i.on, ARow("active", addr[i.on].vip, addr[i.on].desc, n, addr[i.on].dns))
    BY <2>2, HostAddressKeeps DEF Hosts
  <2>3. CASE i.on \in Ifaces /\ obj' = obj /\ addr' = addr /\ ifaces' = ifaces \cup {i.on}
    <3>1. UNCHANGED <<live, jobs, events>>
      BY ItemDone
    <3> QED
      BY <2>3, <3>1 DEF TablesInv, NetBoxTypeOK, Tidy, Apart
  <2> QED
    BY <1>2, <2>1, <2>2, <2>3, NodeWrite
<1>3. CASE seed.section = 3
  <2>1. obj' = obj /\ addr' = addr /\ ifaces' = ifaces \ {i.on} /\ UNCHANGED <<live, jobs, events>>
    BY <1>3, InterfaceWrite, ItemDone
  <2> QED
    BY <2>1 DEF TablesInv, NetBoxTypeOK, Tidy, Apart
<1>4. CASE seed.section = 4
  <2>1. ASSUME i.on \in Guests, NEW f \in StatusFields, NEW role \in BOOLEAN,
               PutsObj(i.on, Now(i.on, f, IF role THEN obj[i.on].shape ELSE "small"))
        PROVE  TablesInv'
    <3>1. i.on \in Objects /\ i.on \notin Things
      BY <2>1, NetBoxAssumption DEF Objects, Hosts
    <3>2. (IF role THEN obj[i.on].shape ELSE "small") \in Shapes
      BY <3>1, ObjectIs DEF Shapes
    <3>3. Now(i.on, f, IF role THEN obj[i.on].shape ELSE "small") \in ObjRow
      BY <3>1, <3>2, ObjectIs, BecomesOne DEF Now, ORow, ObjRow
    <3> QED
      BY <2>1, <3>1, <3>3, PutObjectOf
  <2>2. CASE \E g \in Guests : i.on = AddrOf[g] /\ PutsAddr(i.on, ARow("active", addr[i.on].vip, addr[i.on].desc, g, addr[i.on].dns))
    BY <2>2, HostAddressKeeps DEF Hosts
  <2> QED
    BY <1>4, <2>1, <2>2, VmWrite
<1>5. CASE seed.section = 5
  <2> DEFINE a == i.on
             new == ARow("dhcp", addr[a].vip, "resv", addr[a].on, addr[a].dns)
             old == ARow("deprecated", addr[a].vip, addr[a].desc, addr[a].on, addr[a].dns)
  <2>1. a \in Addrs /\ ((i.act = "addr" /\ PutsAddr(a, new)) \/ (addr[a].status # "absent" /\ PutsAddr(a, old)))
    BY <1>5, ReservationWrite
  <2>2. addr[a].on \notin Hosts /\ (i.act = "addr" => a \in seed.record /\ seen.lease[a] # Nobody)
    BY <1>0, <1>5 DEF Careful
  <2>3. i.act = "addr" => a \notin Pool
    BY <1>0, <2>2 DEF Apart
  <2>4. /\ TidyRow(obj, a, addr[a]) /\ addr[a].vip \in BOOLEAN /\ addr[a].on \in Objects \cup {Nobody}
        /\ addr[a].desc \in {"none", "lb", "resv", "hand"} /\ addr[a].dns \in {"none", "name", "hand"}
        /\ addr[a].status \in {"absent", "active", "dhcp", "deprecated"}
    BY <2>1, AddressIs
  <2>5. new \in AddrRow /\ old \in AddrRow
    BY <2>4 DEF ARow, AddrRow
  <2>6. i.act = "addr" => TidyRow(obj, a, new)
    BY <2>2, <2>3, <2>4 DEF TidyRow, ARow
  <2>7. addr[a].status # "absent" => TidyRow(obj, a, old)
    BY <2>2, <2>4 DEF TidyRow, ARow
  <2> HIDE DEF new, old, a
  <2> QED
    BY <2>1, <2>5, <2>6, <2>7, PutAddressOf
<1>6. CASE seed.section = 6
  <2>1. CASE /\ i.on \in Things /\ There(i.on)
             /\ PutsObj(i.on, ORow("offline", obj[i.on].mark, obj[i.on].role, obj[i.on].shape, obj[i.on].login))
    <3> DEFINE row == ORow("offline", obj[i.on].mark, obj[i.on].role, obj[i.on].shape, obj[i.on].login)
    <3>1. i.on \in Objects
      BY <2>1 DEF Objects
    <3>2. row \in ObjRow
      BY <3>1, ObjectIs DEF ORow, ObjRow, Statuses
    <3>3. row.status # "absent" /\ (row.mark <=> obj[i.on].mark)
      BY <3>1, ObjectIs DEF ORow
    <3>4. ASSUME NEW b \in Addrs, addr[b].on = i.on PROVE obj[i.on].mark
      BY <2>1, <3>4, AddressIs DEF TidyRow
    <3>5. PutsObj(i.on, row)
      BY <2>1
    <3> HIDE DEF row
    <3> QED
      BY <3>1, <3>2, <3>3, <3>4, <3>5, PutObjectOf
  <2>2. CASE i.on \in Things /\ PutsObj(i.on, ORow("active", TRUE, obj[i.on].role, obj[i.on].shape, obj[i.on].login))
    <3> DEFINE row == ORow("active", TRUE, obj[i.on].role, obj[i.on].shape, obj[i.on].login)
    <3>1. i.on \in Objects
      BY <2>2 DEF Objects
    <3>2. row \in ObjRow
      BY <3>1, ObjectIs DEF ORow, ObjRow, Statuses
    <3>3. row.status # "absent" /\ row.mark
      BY DEF ORow
    <3>4. PutsObj(i.on, row)
      BY <2>2
    <3> HIDE DEF row
    <3> QED
      BY <3>1, <3>2, <3>3, <3>4, PutObjectOf
  <2>3. CASE /\ i.act = "addr" /\ i.on \in Addrs /\ i.set.on \in Things /\ There(i.set.on)
             /\ PutsAddr(i.on, ARow("dhcp", addr[i.on].vip, "resv", i.set.on, addr[i.on].dns))
    <3> DEFINE a == i.on
               t == i.set.on
               row == ARow("dhcp", addr[a].vip, "resv", t, addr[a].dns)
    <3>1. a \in seed.record /\ seen.lease[a] # Nobody /\ obj[t].mark
      BY <1>0, <1>6, <2>3 DEF Careful, Whose
    <3>2. a \notin Pool
      BY <1>0, <3>1 DEF Apart
    <3>3. TidyRow(obj, a, addr[a]) /\ addr[a].vip \in BOOLEAN /\ addr[a].dns \in {"none", "name", "hand"}
      BY <2>3, AddressIs
    <3>4. t \in Objects /\ t \notin Hosts /\ t # Nobody
      BY <2>3, NetBoxAssumption DEF Objects
    <3>5. row \in AddrRow
      BY <3>3, <3>4 DEF ARow, AddrRow
    <3>6. TidyRow(obj, a, row)
      BY <2>3, <3>1, <3>2, <3>3, <3>4 DEF TidyRow, ARow, There
    <3>7. PutsAddr(a, row) /\ a \in Addrs
      BY <2>3
    <3> HIDE DEF row, a
    <3> QED
      BY <3>5, <3>6, <3>7, PutAddressOf
  <2> QED
    BY <1>6, <2>1, <2>2, <2>3, ThingWrite
<1>7. CASE seed.section = 7
  <2> DEFINE a == i.on
             row == ARow(addr[a].status, addr[a].vip, addr[a].desc, addr[a].on, i.set.dns)
  <2>1. a \in Addrs /\ addr[a].status # "absent" /\ i.set.dns \in {"name", "none"} /\ PutsAddr(a, row)
    BY <1>7, NameWrite
  <2>2. /\ TidyRow(obj, a, addr[a]) /\ addr[a].vip \in BOOLEAN /\ addr[a].on \in Objects \cup {Nobody}
        /\ addr[a].desc \in {"none", "lb", "resv", "hand"}
        /\ addr[a].status \in {"absent", "active", "dhcp", "deprecated"}
    BY <2>1, AddressIs
  <2>3. row \in AddrRow
    BY <2>1, <2>2 DEF ARow, AddrRow
  <2>4. TidyRow(obj, a, row)
    BY <2>1, <2>2 DEF TidyRow, ARow
  <2> HIDE DEF row, a
  <2> QED
    BY <2>1, <2>3, <2>4, PutAddressOf
<1> QED
  BY <1>0, <1>1, <1>2, <1>3, <1>4, <1>5, <1>6, <1>7

\* A write takes no address from a host and no mark from a thing.
LEMMA WriteKeepsCareful ==
    ASSUME TablesInv, SeedFits, Careful, SeedWrites
    PROVE  Careful'
<1> DEFINE i == Head(seed.todo)
<1>0. /\ seed'.section = seed.section /\ seed'.seen = seed.seen /\ seed'.retiring = seed.retiring
      /\ seed'.record = seed.record /\ Todo' \subseteq Todo /\ i \in Todo /\ seed.section \in 1..7
  BY ItemDone, NextItem
<1>1. CASE seed.section \notin {5, 6}
  BY <1>0, <1>1 DEF Careful, Whose
<1>2. CASE seed.section = 5
  <2>1. i.on \in Addrs /\ obj' = obj /\ \A a \in Addrs : addr'[a].on = addr[a].on
    <3>1. i.on \in Addrs /\ \E st, v, d, n : PutsAddr(i.on, ARow(st, v, d, addr[i.on].on, n))
      BY <1>2, ReservationWrite
    <3> QED
      BY <3>1 DEF PutsAddr, ARow, TablesInv, NetBoxTypeOK
  <2>2. seed.record \subseteq Addrs
    BY DEF SeedFits
  <2>3. \A j \in Todo : j.on \in Addrs
    <3>1. seed.todo \in Seq(ReservationItems)
      BY <1>2 DEF SeedFits, TodoFits
    <3>2. \A k \in DOMAIN seed.todo : seed.todo[k] \in ReservationItems
      BY <3>1
    <3>3. \A j \in ReservationItems : j.on \in Addrs
      BY DEF ReservationItems, Items
    <3> QED
      BY <3>2, <3>3 DEF Todo, Range
  <2> QED
    BY <1>0, <1>2, <2>1, <2>2, <2>3 DEF Careful, seen
<1>3. CASE seed.section = 6
  <2>1. seed.record \subseteq Addrs
    BY DEF SeedFits
  <2>2. \A a \in Addrs : addr'[a].on \in Hosts => addr[a].on \in Hosts
    <3>1. CASE addr' = addr
      BY <3>1
    <3>2. CASE i.on \in Addrs /\ i.set.on \in Things
               /\ PutsAddr(i.on, ARow("dhcp", addr[i.on].vip, "resv", i.set.on, addr[i.on].dns))
      BY <3>2, NetBoxAssumption DEF PutsAddr, ARow, TablesInv, NetBoxTypeOK
    <3> QED
      BY <1>3, <3>1, <3>2, ThingWrite DEF PutsObj
  <2>3. ASSUME NEW t \in Objects, ~There(t) \/ obj[t].mark
        PROVE  (~There(t) \/ obj[t].mark)'
    <3>1. CASE /\ i.on \in Things /\ There(i.on)
               /\ PutsObj(i.on, ORow("offline", obj[i.on].mark, obj[i.on].role, obj[i.on].shape, obj[i.on].login))
      BY <2>3, <3>1 DEF PutsObj, ORow, There, TablesInv, NetBoxTypeOK
    <3>2. CASE i.on \in Things /\ PutsObj(i.on, ORow("active", TRUE, obj[i.on].role, obj[i.on].shape, obj[i.on].login))
      BY <2>3, <3>2 DEF PutsObj, ORow, There, TablesInv, NetBoxTypeOK
    <3>3. CASE obj' = obj
      BY <2>3, <3>3 DEF There
    <3> QED
      BY <1>3, <3>1, <3>2, <3>3, ThingWrite DEF PutsAddr
  <2>4. \A j \in Todo : j.act \in {"obj", "addr"} => Whose(j) \in Objects
    <3>1. seed.todo \in Seq(IotItems)
      BY <1>3 DEF SeedFits, TodoFits
    <3>2. \A k \in DOMAIN seed.todo : seed.todo[k] \in IotItems
      BY <3>1
    <3>3. ASSUME NEW j \in IotItems, j.act \in {"obj", "addr"} PROVE Whose(j) \in Objects
      <4>1. CASE j.act = "obj"
        BY <3>3, <4>1 DEF IotItems, Items, Whose, Objects
      <4>2. CASE j.act = "addr"
        <5>1. PICK t \in Things : j.set = ReservedFor(t)
          BY <4>2 DEF IotItems, Items
        <5> QED
          BY <4>2, <5>1 DEF Whose, Objects, ReservedFor
      <4> QED
        BY <3>3, <4>1, <4>2
    <3> QED
      BY <3>2, <3>3 DEF Todo, Range
  <2>5. \A a \in seed.record : seen.lease[a] # Nobody /\ addr[a].on \notin Hosts
    BY <1>3 DEF Careful
  <2>6. \A a \in seed'.record : seed'.seen.lease[a] # Nobody /\ addr'[a].on \notin Hosts
    BY <1>0, <2>1, <2>2, <2>5 DEF seen
  <2>7. ASSUME NEW j \in Todo'
        PROVE  /\ j.act = "addr" => j.on \in seed'.record
               /\ j.act \in {"obj", "addr"} => (~There(Whose(j)))' \/ obj'[Whose(j)].mark
    <3>1. j \in Todo
      BY <1>0, <2>7
    <3>2. /\ j.act = "addr" => j.on \in seed.record
          /\ j.act \in {"obj", "addr"} => ~There(Whose(j)) \/ obj[Whose(j)].mark
      BY <1>3, <3>1 DEF Careful
    <3> QED
      BY <1>0, <2>3, <2>4, <3>1, <3>2 DEF There
  <2> QED
    BY <1>0, <1>3, <2>6, <2>7 DEF Careful, seen, There, Whose
<1> QED
  BY <1>0, <1>1, <1>2, <1>3

-----------------------------------------------------------------------------
(* The plans, as sets of items.                                            *)

\* A sequence of the members of S and nothing else.
Lists(q, S) == q \in Seq(S) /\ Range(q) = S

LEMMA WritesList == ASSUME NEW act, NEW ons, NEW set, IsFiniteSet(ons) PROVE Lists(Writes(act, ons, set), All(act, ons, set))
  BY WritesAre DEF Lists

LEMMA ConcatLists == ASSUME NEW p, NEW P, Lists(p, P), NEW q, NEW Q, Lists(q, Q) PROVE Lists(p \o q, P \cup Q)
<1>1. p \in Seq(P \cup Q) /\ q \in Seq(P \cup Q)
  BY DEF Lists
<1>2. p \o q \in Seq(P \cup Q) /\ Range(p \o q) = Range(p) \cup Range(q)
  BY <1>1, RangeOfConcat
<1> QED
  BY <1>2 DEF Lists

LEMMA ListsWider == ASSUME NEW q, NEW S, Lists(q, S), NEW T, S \subseteq T PROVE q \in Seq(T) /\ Range(q) = S
  BY DEF Lists

LEMMA OneItem == ASSUME NEW x PROVE Lists(<<x>>, {x})
  BY DEF Range, Lists

LEMMA TwoItems == ASSUME NEW x, NEW y PROVE Lists(<<x, y>>, {x, y})
<1>1. <<x, y>> \in Seq({x, y}) /\ DOMAIN <<x, y>> = 1..2 /\ <<x, y>>[1] = x /\ <<x, y>>[2] = y
  OBVIOUS
<1>2. \A z : z \in Range(<<x, y>>) <=> z = x \/ z = y
  BY <1>1 DEF Range
<1> QED
  BY <1>1, <1>2 DEF Lists

LEMMA AllAre ==
    ASSUME NEW act, NEW ons, NEW set, NEW os, NEW sets, ons \subseteq os, set \in sets
    PROVE  All(act, ons, set) \subseteq Items(act, os, sets)
  BY DEF All, Items, Item

LEMMA TwoWrites ==
    ASSUME NEW x, NEW A, NEW f, IsFiniteSet(A), NEW y, NEW B, NEW g, IsFiniteSet(B)
    PROVE  Lists(Writes(x, A, f) \o Writes(y, B, g), All(x, A, f) \cup All(y, B, g))
  BY WritesList, ConcatLists

LEMMA Finite ==
    /\ \A S : S \subseteq Objects \/ S \subseteq Addrs \/ S \subseteq Ifaces => IsFiniteSet(S)
    /\ \A s \in Live : /\ IsFiniteSet(s.up) /\ IsFiniteSet(s.ifaces) /\ IsFiniteSet(s.lb)
                       /\ s.up \subseteq s.ifaces /\ s.ifaces \subseteq Ifaces /\ s.lb \subseteq Addrs
<1>1. \A S : S \subseteq Objects \/ S \subseteq Addrs \/ S \subseteq Ifaces => IsFiniteSet(S)
  BY NetBoxAssumption, FS_Subset
<1>2. \A s \in Live : s.up \subseteq s.ifaces /\ s.ifaces \subseteq Ifaces /\ s.lb \subseteq Addrs
  BY DEF Live
<1> QED
  BY <1>1, <1>2

\* The VIPs no Service holds.
StaleVips(s) == {a \in Addrs \ s.lb : addr[a].vip /\ addr[a].desc = "lb" /\ addr[a].status # "deprecated"}

\* The plans, one by one: what the section lists is what its items are on.
LEMMA LbPlanIs ==
    ASSUME TablesInv, NEW s \in Live, Apart(s)
    PROVE  /\ LbPlan(s) \in Seq(LbItems)
           /\ Range(LbPlan(s)) = All("old_addr", StaleVips(s), Deprecated) \cup All("addr", s.lb, LbFields)
<1>1. StaleVips(s) \subseteq Pool /\ s.lb \subseteq Pool
  BY AddressIs DEF TidyRow, Apart, StaleVips
<1>2. IsFiniteSet(StaleVips(s)) /\ IsFiniteSet(s.lb)
  BY Finite DEF StaleVips
<1>3. LbPlan(s) = Writes("old_addr", StaleVips(s), Deprecated) \o Writes("addr", s.lb, LbFields)
  BY DEF LbPlan, Deprecated, LbFields, StaleVips
<1>4. Lists(Writes("old_addr", StaleVips(s), Deprecated) \o Writes("addr", s.lb, LbFields),
            All("old_addr", StaleVips(s), Deprecated) \cup All("addr", s.lb, LbFields))
  BY <1>2, TwoWrites
<1>5. All("old_addr", StaleVips(s), Deprecated) \cup All("addr", s.lb, LbFields) \subseteq LbItems
  BY <1>1, AllAre DEF LbItems
<1> QED
  BY <1>3, <1>4, <1>5, ListsWider

LEMMA LooksAre == ASSUME NEW S, IsFiniteSet(S) PROVE Lists(Looks(S), All("look", S, <<>>))
  BY WritesList DEF Looks

LEMMA SyncedStatusIs ==
    ASSUME NEW have, NEW running
    PROVE  SyncedStatus(have, running) \in StatusFields
  BY DEF SyncedStatus, StatusFields

\* The active interfaces of a node.
UpOn(s, n) == {i \in s.up : NodeOf[i] = n}

LEMMA NodeWritesAre ==
    ASSUME SeedFits, Running, NEW n \in Nodes
    PROVE  /\ NodeWrites(n) \in Seq(NodeItems)
           /\ Range(NodeWrites(n)) = {Item("obj", n, SyncedStatus(obj[n].status, n \in seen.online)), Address(n)}
                                        \cup All("iface", UpOn(seen, n), <<>>)
<1> DEFINE x == Item("obj", n, SyncedStatus(obj[n].status, n \in seen.online))
           y == Address(n)
           S == {x, y} \cup All("iface", UpOn(seen, n), <<>>)
<1>1. IsFiniteSet(UpOn(seen, n)) /\ UpOn(seen, n) \subseteq Ifaces
  BY Finite DEF SeedFits, UpOn
<1>2. x \in NodeItems
  BY SyncedStatusIs DEF NodeItems, Items, Item
<1>3. All("iface", UpOn(seen, n), <<>>) \subseteq NodeItems
  BY <1>1, AllAre DEF NodeItems
<1>4. S \subseteq NodeItems
  BY <1>2, <1>3 DEF NodeItems
<1>5. NodeWrites(n) = <<x, y>> \o Writes("iface", UpOn(seen, n), <<>>)
  BY DEF NodeWrites, UpOn
<1> HIDE DEF x, y
<1>6. Lists(<<x, y>>, {x, y}) /\ Lists(Writes("iface", UpOn(seen, n), <<>>), All("iface", UpOn(seen, n), <<>>))
  BY <1>1, TwoItems, WritesList
<1>7. Lists(<<x, y>> \o Writes("iface", UpOn(seen, n), <<>>), S)
  BY <1>6, ConcatLists
<1>8. NodeWrites(n) \in Seq(NodeItems) /\ Range(NodeWrites(n)) = S
  BY <1>4, <1>5, <1>7, ListsWider
<1> QED
  BY <1>8 DEF x, y

LEMMA VmWritesAre ==
    ASSUME TablesInv, NEW g \in Guests
    PROVE  LET x == Item("obj", g, VmFields(SyncedStatus(obj[g].status, seen.guest[g] = "running"), obj[g].role))
           IN  VmWrites(g) \in Seq(VmItems) /\ Range(VmWrites(g)) = {x, Address(g)}
<1> DEFINE x == Item("obj", g, VmFields(SyncedStatus(obj[g].status, seen.guest[g] = "running"), obj[g].role))
<1>1. Lists(VmWrites(g), {x, Address(g)})
  BY TwoItems DEF VmWrites
<1>2. obj[g].role \in BOOLEAN
  BY ObjectIs DEF Objects, Hosts
<1>3. x \in VmItems
  BY <1>2, SyncedStatusIs DEF VmItems, Items, Item
<1>4. {x, Address(g)} \subseteq VmItems
  BY <1>3 DEF VmItems
<1> QED
  BY <1>1, <1>4, ListsWider

\* What the reservations' section finds stale, and what it records.
Stale(s) ==
    {a \in Addrs : s.lease[a] = Nobody /\ addr[a].status \notin {"absent", "deprecated"} /\ ~Taken(a)}
Free(s) == {a \in Addrs : s.lease[a] # Nobody /\ ~Taken(a)}

LEMMA ReservationPlanIs ==
    ASSUME TablesInv, NEW s
    PROVE  /\ ReservationPlan(s) \in Seq(ReservationItems)
           /\ Range(ReservationPlan(s)) = All("old_addr", Stale(s), Deprecated) \cup All("addr", Free(s), Reserved)
           /\ Recordable(s) = Free(s)
<1>1. Recordable(s) = Free(s)
  BY AddressIs DEF Recordable, Free
<1>2. {a \in Addrs : /\ s.lease[a] = Nobody /\ addr[a].status \notin {"absent", "deprecated"}
                     /\ ~HeldElsewhere(a)} = Stale(s)
  BY AddressIs DEF Stale
<1>3. IsFiniteSet(Stale(s)) /\ IsFiniteSet(Free(s)) /\ Stale(s) \subseteq Addrs /\ Free(s) \subseteq Addrs
  BY Finite DEF Stale, Free
<1>4. ReservationPlan(s) = Writes("old_addr", Stale(s), Deprecated) \o Writes("addr", Free(s), Reserved)
  BY <1>1, <1>2 DEF ReservationPlan, Deprecated, Reserved
<1>5. Lists(Writes("old_addr", Stale(s), Deprecated) \o Writes("addr", Free(s), Reserved),
            All("old_addr", Stale(s), Deprecated) \cup All("addr", Free(s), Reserved))
  BY <1>3, TwoWrites
<1>6. All("old_addr", Stale(s), Deprecated) \cup All("addr", Free(s), Reserved) \subseteq ReservationItems
  BY <1>3, AllAre DEF ReservationItems
<1> QED
  BY <1>1, <1>4, <1>5, <1>6, ListsWider

Offline == [status |-> "offline"]
ReservedIn(s) == {t \in Things : \E a \in Addrs : s.lease[a] = t}
Unreserved(s) == {t \in OwnThings \ ReservedIn(s) : obj[t].status \notin {"offline", "decommissioning"}}

LEMMA IotPlanIs ==
    ASSUME NEW s
    PROVE  /\ IotPlan(s) \in Seq(IotItems)
           /\ Range(IotPlan(s)) = All("old_obj", Unreserved(s), Offline) \cup All("look", ReservedIn(s), <<>>)
<1>1. Unreserved(s) \subseteq Things /\ ReservedIn(s) \subseteq Things
  BY DEF Unreserved, ReservedIn, OwnThings
<1>2. IsFiniteSet(Unreserved(s)) /\ IsFiniteSet(ReservedIn(s))
  BY <1>1, Finite DEF Objects
<1>3. IotPlan(s) = Writes("old_obj", Unreserved(s), Offline) \o Writes("look", ReservedIn(s), <<>>)
  BY DEF IotPlan, Unreserved, ReservedIn, Looks, Offline
<1>4. Lists(Writes("old_obj", Unreserved(s), Offline) \o Writes("look", ReservedIn(s), <<>>),
            All("old_obj", Unreserved(s), Offline) \cup All("look", ReservedIn(s), <<>>))
  BY <1>2, TwoWrites
<1>5. All("old_obj", Unreserved(s), Offline) \cup All("look", ReservedIn(s), <<>>) \subseteq IotItems
  BY <1>1, AllAre DEF IotItems, Offline
<1> QED
  BY <1>3, <1>4, <1>5, ListsWider

\* The addresses that are the thing's to have.
LeasesOf(t) == {a \in seed.record : seen.lease[a] = t}

LEMMA ThingWritesAre ==
    ASSUME SeedFits, NEW t \in Things
    PROVE  /\ ThingWrites(t) \in Seq(IotItems)
           /\ Kept(t) => Range(ThingWrites(t)) = {}
           /\ ~Kept(t) => Range(ThingWrites(t)) = {Item("obj", t, ThingFields(There(t)))} \cup All("addr", LeasesOf(t), ReservedFor(t))
<1> DEFINE x == Item("obj", t, ThingFields(There(t)))
<1>1. CASE Kept(t)
  BY <1>1, NothingInEmpty DEF ThingWrites, Kept
<1>2. CASE ~Kept(t)
  <2>1. ThingWrites(t) = <<x>> \o Writes("addr", LeasesOf(t), ReservedFor(t))
    BY <1>2 DEF ThingWrites, Kept, ReservedFor, LeasesOf
  <2>2. LeasesOf(t) \subseteq Addrs /\ IsFiniteSet(LeasesOf(t))
    BY Finite DEF SeedFits, LeasesOf
  <2>3. All("addr", LeasesOf(t), ReservedFor(t)) \subseteq IotItems
    BY <2>2, AllAre DEF IotItems
  <2>4. x \in IotItems
    BY ThingSetsAre DEF There, IotItems, Items, Item
  <2> HIDE DEF x
  <2>5. Lists(<<x>>, {x}) /\ Lists(Writes("addr", LeasesOf(t), ReservedFor(t)), All("addr", LeasesOf(t), ReservedFor(t)))
    BY <2>2, OneItem, WritesList
  <2>6. Lists(<<x>> \o Writes("addr", LeasesOf(t), ReservedFor(t)), {x} \cup All("addr", LeasesOf(t), ReservedFor(t)))
    BY <2>5, ConcatLists
  <2>7. {x} \cup All("addr", LeasesOf(t), ReservedFor(t)) \subseteq IotItems
    BY <2>3, <2>4
  <2>8. /\ ThingWrites(t) \in Seq(IotItems)
        /\ Range(ThingWrites(t)) = {x} \cup All("addr", LeasesOf(t), ReservedFor(t))
    BY <2>1, <2>6, <2>7, ListsWider
  <2> QED
    BY <1>2, <2>8 DEF x
<1> QED
  BY <1>1, <1>2

\* The addresses whose name is to be set, and to be taken away.
Ours == {a \in Zoned : addr[a].on \in Hosts /\ obj[addr[a].on].status # "decommissioning"}
ToName == {a \in Ours : obj[addr[a].on].status \in UseStatuses /\ addr[a].dns # "name"}
ToUnname == {a \in Ours : obj[addr[a].on].status \notin UseStatuses /\ addr[a].dns = "name"}
NameSet == [dns |-> "name"]
NameTaken == [dns |-> "none"]

LEMMA DnsPlanIs ==
    ASSUME TablesInv
    PROVE  /\ DnsPlan \in Seq(DnsItems)
           /\ Range(DnsPlan) = All("old_addr", ToName, NameSet) \cup All("old_addr", ToUnname, NameTaken)
<1> DEFINE ours == {a \in Zoned : addr[a].on \in Objects \ OwnThings /\ obj[addr[a].on].status # "decommissioning"}
<1>1. ours = Ours
  <2>1. ASSUME NEW a \in Zoned PROVE addr[a].on \in Objects \ OwnThings <=> addr[a].on \in Hosts
    <3>1. TidyRow(obj, a, addr[a])
      BY AddressIs, NetBoxAssumption
    <3>2. addr[a].on \in Things => addr[a].on \in OwnThings
      BY <3>1 DEF TidyRow, OwnThings, There
    <3> QED
      BY <3>2, NetBoxAssumption DEF Objects, OwnThings
  <2> QED
    BY <2>1 DEF Ours
<1> DEFINE used == {a \in Ours : obj[addr[a].on].status \in UseStatuses}
<1>2. {a \in used : addr[a].dns # "name"} = ToName /\ {a \in Ours \ used : addr[a].dns = "name"} = ToUnname
  BY DEF ToName, ToUnname
<1>3. DnsPlan = Writes("old_addr", ToName, NameSet) \o Writes("old_addr", ToUnname, NameTaken)
  <2>1. DnsPlan = LET u == {a \in ours : obj[addr[a].on].status \in UseStatuses}
                  IN  Writes("old_addr", {a \in u : addr[a].dns # "name"}, NameSet)
                      \o Writes("old_addr", {a \in ours \ u : addr[a].dns = "name"}, NameTaken)
    BY DEF DnsPlan, NameSet, NameTaken
  <2> QED
    BY <1>1, <1>2, <2>1
<1>4. ToName \subseteq Addrs /\ ToUnname \subseteq Addrs
  BY NetBoxAssumption DEF ToName, ToUnname, Ours
<1>5. IsFiniteSet(ToName) /\ IsFiniteSet(ToUnname)
  BY <1>4, Finite
<1>6. Lists(Writes("old_addr", ToName, NameSet) \o Writes("old_addr", ToUnname, NameTaken),
            All("old_addr", ToName, NameSet) \cup All("old_addr", ToUnname, NameTaken))
  BY <1>5, TwoWrites
<1>7. NameSet \in [dns : {"name", "none"}] /\ NameTaken \in [dns : {"name", "none"}]
  BY DEF NameSet, NameTaken
<1>8. All("old_addr", ToName, NameSet) \cup All("old_addr", ToUnname, NameTaken) \subseteq DnsItems
  BY <1>4, <1>7, AllAre DEF DnsItems
<1> QED
  BY <1>3, <1>6, <1>8, ListsWider

\* The interfaces kept: the least set of them that is closed.
LEMMA KeptIs ==
    ASSUME NEW have, NEW names
    PROVE  LET kept == KeptInterfaces(have, names)
           IN  kept \subseteq have /\ have \cap (names \cup Pinned) \subseteq kept /\ Closed(kept, have)
<1> DEFINE kept == KeptInterfaces(have, names)
<1>1. kept \subseteq have /\ have \cap (names \cup Pinned) \subseteq kept
  BY DEF KeptInterfaces
<1>2. ASSUME NEW i \in kept, NEW u \in Uses[i] \cap have PROVE u \in kept
  <2>1. ASSUME NEW k \in SUBSET have, have \cap (names \cup Pinned) \subseteq k, Closed(k, have) PROVE u \in k
    <3>1. i \in k
      BY <2>1 DEF KeptInterfaces
    <3> QED
      BY <2>1, <3>1 DEF Closed
  <2> QED
    BY <2>1 DEF KeptInterfaces
<1> QED
  BY <1>1, <1>2 DEF Closed

\* What is kept is needed: of it nothing more would be deleted.
LEMMA KeptIsNeeded ==
    ASSUME NEW have PROVE Needed(KeptInterfaces(have, live.ifaces))
<1> DEFINE kept == KeptInterfaces(have, live.ifaces)
<1>1. kept \subseteq have /\ have \cap (live.ifaces \cup Pinned) \subseteq kept /\ Closed(kept, have)
  BY KeptIs
<1>2. ASSUME NEW k \in SUBSET kept, kept \cap (live.ifaces \cup Pinned) \subseteq k, Closed(k, kept) PROVE k = kept
  <2>1. have \cap (live.ifaces \cup Pinned) \subseteq k /\ k \in SUBSET have
    BY <1>1, <1>2
  <2>2. Closed(k, have)
    BY <1>1, <1>2 DEF Closed
  <2>3. kept \subseteq k
    BY <2>1, <2>2 DEF KeptInterfaces
  <2> QED
    BY <2>3
<1> HIDE DEF kept
<1>3. Needed(kept)
  BY <1>2 DEF Needed
<1> QED
  BY <1>3 DEF kept

LEMMA NeededIsKept ==
    ASSUME NEW have, Needed(have) PROVE KeptInterfaces(have, live.ifaces) = have
<1>1. \A k \in SUBSET have : have \cap (live.ifaces \cup Pinned) \subseteq k /\ Closed(k, have) => k = have
  BY DEF Needed
<1> QED
  BY <1>1 DEF KeptInterfaces

Doomed(s) == IF Prune THEN ifaces \ KeptInterfaces(ifaces, s.ifaces) ELSE {}

\* A plan of the interfaces' section: those no one needs, each before any it
\* uses.
LEMMA InterfacePlanIs ==
    ASSUME ifaces \subseteq Ifaces, NEW s, NEW plan \in InterfacePlans(s)
    PROVE  plan \in Seq(InterfaceItems) /\ Range(plan) = All("prune", Doomed(s), <<>>) /\ InOrder(plan)
<1> DEFINE doomed == Doomed(s)
           n == Cardinality(doomed)
<1>1. doomed \subseteq Ifaces /\ IsFiniteSet(doomed)
  BY Finite DEF Doomed
<1>2. n \in Nat
  BY <1>1, FS_CardinalityType
<1>3. PICK q \in SetToSeqs(doomed) : /\ \A j, k \in DOMAIN q : q[j] \in Uses[q[k]] => k < j
                                     /\ plan = [k \in DOMAIN q |-> Item("prune", q[k], <<>>)]
  BY DEF InterfacePlans, Doomed
<1> HIDE DEF doomed
<1>4. q \in [1..n -> doomed] /\ \A i, j \in 1..n : i # j => q[i] # q[j]
  BY <1>3 DEF SetToSeqs
<1>5. q \in Injection(1..n, doomed)
  BY <1>4 DEF Injection, IsInjective
<1>6. IsFiniteSet(1..n) /\ Cardinality(1..n) = n
  BY <1>2, FS_Interval
<1>7. q \in Surjection(1..n, doomed)
  BY <1>1, <1>5, <1>6, FS_Injection
<1>8. DOMAIN plan = 1..n /\ \A k \in 1..n : plan[k] = Item("prune", q[k], <<>>)
  BY <1>3, <1>4
<1>9. plan \in Seq(InterfaceItems)
  <2>1. \A k \in 1..n : q[k] \in Ifaces
    BY <1>1, <1>4
  <2>2. \A k \in 1..n : plan[k] \in InterfaceItems
    BY <1>8, <2>1 DEF InterfaceItems, Items, Item
  <2>3. plan \in [1..n -> InterfaceItems]
    BY <1>3, <1>8, <2>2
  <2> QED
    BY <1>2, <2>3
<1>10. Range(plan) = All("prune", doomed, <<>>)
  <2>1. \A k \in 1..n : plan[k] \in All("prune", doomed, <<>>)
    BY <1>4, <1>8 DEF All
  <2>2. ASSUME NEW d \in doomed PROVE Item("prune", d, <<>>) \in Range(plan)
    <3>1. PICK k \in 1..n : q[k] = d
      BY <1>7 DEF Surjection
    <3> QED
      BY <1>8, <3>1 DEF Range
  <2> QED
    BY <1>8, <2>1, <2>2 DEF All, Range
<1>11. InOrder(plan)
  <2>1. \A k \in 1..n : plan[k].on = q[k]
    BY <1>8 DEF Item
  <2> QED
    BY <1>3, <1>4, <1>8, <2>1 DEF InOrder
<1> QED
  BY <1>9, <1>10, <1>11 DEF doomed

-----------------------------------------------------------------------------
(* A section begins, and an object is looked at.                           *)

\* The section that begins, and its plan.
LEMMA Begins ==
    ASSUME SeedFits, SeedLists
    PROVE  /\ Running /\ seed.todo = <<>> /\ seed.section \in 0..6 /\ seen \in Live /\ Apart(seen)
           /\ seed'.on = seed.on /\ seed'.section = seed.section + 1 /\ seed'.seen = seed.seen
           /\ seed'.retiring = IF seed.section = 3 THEN Retiring ELSE seed.retiring
           /\ seed'.record = IF seed.section = 4 THEN Recordable(seen) ELSE seed.record
           /\ seed' \in [on : BOOLEAN, section : {seed'.section}, todo : {seed'.todo}, seen : Live \cup {<<>>},
                         retiring : {seed'.retiring}, record : {seed'.record}]
           /\ UNCHANGED <<obj, addr, ifaces, live, jobs, events, quiet, settled>>
           /\ seed.section = 0 => seed'.todo = LbPlan(seen)
           /\ seed.section = 1 => seed'.todo = Looks(Nodes)
           /\ seed.section = 2 => seed'.todo \in InterfacePlans(seen)
           /\ seed.section = 3 => seed'.todo = VmPlan(seen, Retiring)
           /\ seed.section = 4 => seed'.todo = ReservationPlan(seen)
           /\ seed.section = 5 => seed'.todo = IotPlan(seen)
           /\ seed.section = 6 => seed'.todo = DnsPlan
<1>1. Running /\ seed.todo = <<>> /\ seed.section \in 0..6 /\ seen \in Live /\ Apart(seen)
  BY Names DEF SeedLists, SeedFits
<1>2. UNCHANGED <<obj, addr, ifaces, live, jobs, events, quiet, settled>>
  BY DEF SeedLists, tables, outside
<1> DEFINE name == Sections[seed.section + 1]
<1>3. PICK plan \in Plans(name) :
         seed' = [seed EXCEPT !.section = @ + 1, !.todo = plan,
                !.retiring = IF name = "vms" THEN Retiring ELSE @,
                !.record = IF name = "reservations" THEN Recordable(seen) ELSE @]
  BY DEF SeedLists
<1>4. name = "vms" <=> seed.section = 3
  BY <1>1, Names
<1>5. name = "reservations" <=> seed.section = 4
  BY <1>1, Names
<1>6. /\ seed'.on = seed.on /\ seed'.section = seed.section + 1 /\ seed'.seen = seed.seen /\ seed'.todo = plan
      /\ seed'.retiring = IF name = "vms" THEN Retiring ELSE seed.retiring
      /\ seed'.record = IF name = "reservations" THEN Recordable(seen) ELSE seed.record
  BY <1>3 DEF SeedFits
<1>7. /\ seed.section = 0 => plan = LbPlan(seen)
      /\ seed.section = 1 => plan = Looks(Nodes)
      /\ seed.section = 2 => plan \in InterfacePlans(seen)
      /\ seed.section = 3 => plan = VmPlan(seen, Retiring)
      /\ seed.section = 4 => plan = ReservationPlan(seen)
      /\ seed.section = 5 => plan = IotPlan(seen)
      /\ seed.section = 6 => plan = DnsPlan
  BY <1>3, Names DEF Plans
<1>8. seed' \in [on : BOOLEAN, section : {seed'.section}, todo : {seed'.todo}, seen : Live \cup {<<>>},
                 retiring : {seed'.retiring}, record : {seed'.record}]
  BY <1>3, <1>6 DEF SeedFits
<1> QED
  BY <1>1, <1>2, <1>4, <1>5, <1>6, <1>7, <1>8

LEMMA RetiringIs == Retiring \subseteq Guests
  BY DEF Retiring

\* The guests gone through.
ToSee(s, retiring) == {g \in Guests : s.guest[g] # "gone"} \ retiring

LEMMA InAll ==
    ASSUME NEW act, NEW ons, NEW set, NEW i \in All(act, ons, set)
    PROVE  i = Item(act, i.on, set) /\ i.act = act /\ i.on \in ons /\ i.set = set
  BY DEF All, Item

LEMMA LooksFit ==
    /\ Looks(Nodes) \in Seq(NodeItems) /\ Range(Looks(Nodes)) = All("look", Nodes, <<>>)
    /\ \A s, r : /\ VmPlan(s, r) \in Seq(VmItems)
                 /\ Range(VmPlan(s, r)) = All("look", ToSee(s, r), <<>>)
<1>1. Lists(Looks(Nodes), All("look", Nodes, <<>>)) /\ All("look", Nodes, <<>>) \subseteq NodeItems
  BY Finite, LooksAre, AllAre DEF NodeItems, Objects, Hosts
<1>2. ASSUME NEW s, NEW r
      PROVE  Lists(VmPlan(s, r), All("look", ToSee(s, r), <<>>)) /\ All("look", ToSee(s, r), <<>>) \subseteq VmItems
  <2>1. ToSee(s, r) \subseteq Guests /\ IsFiniteSet(ToSee(s, r)) /\ VmPlan(s, r) = Looks(ToSee(s, r))
    BY Finite DEF ToSee, Objects, Hosts, VmPlan
  <2> QED
    BY <2>1, LooksAre, AllAre DEF VmItems
<1> QED
  BY <1>1, <1>2, ListsWider

\* The next section begins with items of its kinds.
LEMMA ListsKeep ==
    ASSUME TablesInv, SeedFits, Careful, SeedLists
    PROVE  TablesInv' /\ SeedFits' /\ Careful'
<1>1. TablesInv'
  BY Begins DEF TablesInv, NetBoxTypeOK, Tidy, TidyRow, Apart
<1>2. /\ seed.section = 0 => seed'.todo \in Seq(LbItems)
      /\ seed.section = 1 => seed'.todo \in Seq(NodeItems)
      /\ seed.section = 2 => seed'.todo \in Seq(InterfaceItems)
      /\ seed.section = 3 => seed'.todo \in Seq(VmItems)
      /\ seed.section = 4 => seed'.todo \in Seq(ReservationItems)
      /\ seed.section = 5 => seed'.todo \in Seq(IotItems)
      /\ seed.section = 6 => seed'.todo \in Seq(DnsItems)
  <2>1. ifaces \subseteq Ifaces
    BY DEF TablesInv, NetBoxTypeOK
  <2>2. seed.section = 0 => seed'.todo \in Seq(LbItems)
    BY Begins, LbPlanIs
  <2>3. seed.section = 1 => seed'.todo \in Seq(NodeItems)
    BY Begins, LooksFit
  <2>4. seed.section = 2 => seed'.todo \in Seq(InterfaceItems)
    BY <2>1, Begins, InterfacePlanIs
  <2>5. seed.section = 3 => seed'.todo \in Seq(VmItems)
    BY Begins, LooksFit
  <2>6. seed.section = 4 => seed'.todo \in Seq(ReservationItems)
    BY Begins, ReservationPlanIs
  <2>7. seed.section = 5 => seed'.todo \in Seq(IotItems)
    BY Begins, IotPlanIs
  <2>8. seed.section = 6 => seed'.todo \in Seq(DnsItems)
    BY Begins, DnsPlanIs
  <2> QED
    BY <2>2, <2>3, <2>4, <2>5, <2>6, <2>7, <2>8
<1>3. TodoFits'
  BY <1>2, Begins DEF TodoFits
<1>4. seed' \in [on : BOOLEAN, section : 0..7, todo : {seed'.todo}, seen : Live \cup {<<>>},
                 retiring : SUBSET Guests, record : SUBSET Addrs]
  <2>1. Recordable(seen) \subseteq Addrs
    BY DEF Recordable
  <2>2. seed'.section \in 0..7 /\ seed'.retiring \in SUBSET Guests /\ seed'.record \in SUBSET Addrs
    BY <2>1, Begins, RetiringIs DEF SeedFits
  <2>3. seed' \in [on : BOOLEAN, section : {seed'.section}, todo : {seed'.todo}, seen : Live \cup {<<>>},
                 retiring : {seed'.retiring}, record : {seed'.record}]
    BY Begins
  <2> QED
    BY <2>2, <2>3
<1>5. SeedFits'
  BY <1>3, <1>4, Begins DEF SeedFits, Running, seen
<1>6. Careful'
  <2>1. CASE seed.section = 3
    <3>1. Todo' = All("look", ToSee(seen, Retiring), <<>>) /\ seed'.retiring = Retiring
      BY <2>1, Begins, LooksFit DEF Todo
    <3>2. \A i \in Todo' : Whose(i) \notin Retiring
      BY <3>1, InAll DEF ToSee, Whose
    <3> QED
      BY <2>1, <3>1, <3>2, Begins DEF Careful, seen, Whose, There
  <2>2. CASE seed.section = 4
    <3>1. seed'.record = Free(seen) /\ Todo' = All("old_addr", Stale(seen), Deprecated) \cup All("addr", Free(seen), Reserved)
      BY <2>2, Begins, ReservationPlanIs DEF Todo
    <3>2. \A a \in Free(seen) \cup Stale(seen) : addr[a].on \notin Hosts
      BY AddressIs, NetBoxAssumption DEF Free, Stale, Taken, Objects
    <3>3. \A a \in Free(seen) : seen.lease[a] # Nobody
      BY DEF Free
    <3>4. ASSUME NEW i \in Todo' PROVE i.on \in Free(seen) \cup Stale(seen) /\ (i.act = "addr" => i.on \in Free(seen))
      <4>1. CASE i \in All("old_addr", Stale(seen), Deprecated)
        <5>1. i.act = "old_addr" /\ i.on \in Stale(seen)
          BY <4>1, InAll
        <5> QED
          BY <5>1
      <4>2. CASE i \in All("addr", Free(seen), Reserved)
        <5>1. i.act = "addr" /\ i.on \in Free(seen)
          BY <4>2, InAll
        <5> QED
          BY <5>1
      <4> QED
        BY <3>1, <4>1, <4>2
    <3>5. seed'.section = 5 /\ seed'.seen = seed.seen /\ UNCHANGED <<addr, obj>>
      BY <2>2, Begins
    <3>6. \A a \in seed'.record : seed.seen.lease[a] # Nobody /\ addr[a].on \notin Hosts
      BY <3>1, <3>2, <3>3 DEF seen
    <3>7. \A i \in Todo' : addr[i.on].on \notin Hosts /\ (i.act = "addr" => i.on \in seed'.record)
      BY <3>1, <3>2, <3>4
    <3> QED
      BY <3>5, <3>6, <3>7 DEF Careful, seen, Whose, There
  <2>3. CASE seed.section = 5
    <3>1. Todo' = All("old_obj", Unreserved(seen), Offline) \cup All("look", ReservedIn(seen), <<>>)
      BY <2>3, Begins, IotPlanIs DEF Todo
    <3>2. \A i \in Todo' : i.act \notin {"addr", "obj"}
      BY <3>1, InAll
    <3> QED
      BY <2>3, <3>2, Begins DEF Careful, seen, Whose, There
  <2>4. CASE seed.section \in {0, 1, 2, 6}
    BY <2>4, Begins DEF Careful, seen, Whose, There
  <2> QED
    BY <2>1, <2>2, <2>3, <2>4, Begins
<1> QED
  BY <1>1, <1>5, <1>6

\* The item looked at and the run after it.
LEMMA LookIs ==
    ASSUME TablesInv, SeedFits, SeedLooks
    PROVE  LET o == Head(seed.todo).on IN
           /\ seed.todo # <<>> /\ Head(seed.todo) = Item("look", o, <<>>)
           /\ seed'.on = seed.on /\ seed'.section = seed.section /\ seed'.seen = seed.seen
           /\ seed'.retiring = seed.retiring /\ seed'.record = seed.record
           /\ UNCHANGED <<obj, addr, ifaces, live, jobs, events, quiet, settled>>
           /\ Todo = {Head(seed.todo)} \cup Range(Tail(seed.todo))
           /\ Todo' = Range(LookWrites(o)) \cup Range(Tail(seed.todo))
           /\ \/ seed.section = 2 /\ o \in Nodes /\ LookWrites(o) = NodeWrites(o)
              \/ seed.section = 4 /\ o \in Guests /\ LookWrites(o) = VmWrites(o)
              \/ seed.section = 6 /\ o \in Things /\ LookWrites(o) = ThingWrites(o)
           /\ SeedFits'
<1> DEFINE i == Head(seed.todo)
           o == i.on
<1>1. seed.todo # <<>> /\ i.act = "look" /\ seed' = [seed EXCEPT !.todo = LookWrites(o) \o Tail(@)]
      /\ UNCHANGED <<obj, addr, ifaces, live, jobs, events, quiet, settled>>
  BY DEF SeedLooks, tables, outside
<1>2. /\ seed'.on = seed.on /\ seed'.section = seed.section /\ seed'.seen = seed.seen
      /\ seed'.retiring = seed.retiring /\ seed'.record = seed.record
      /\ seed'.todo = LookWrites(o) \o Tail(seed.todo)
      /\ seed' \in [on : BOOLEAN, section : 0..7, todo : {seed'.todo}, seen : Live \cup {<<>>},
                 retiring : SUBSET Guests, record : SUBSET Addrs]
  BY <1>1 DEF SeedFits
<1>3. /\ seed.section \in 1..7 /\ Todo = {i} \cup Range(Tail(seed.todo))
      /\ Running /\ seen \in Live /\ Apart(seen)
  BY <1>1, NextItem
<1>4. seed.section \in {2, 4, 6} /\ i = Item("look", o, <<>>)
  <2>1. \A j \in LbItems \cup InterfaceItems \cup ReservationItems \cup DnsItems : j.act # "look"
    BY DEF LbItems, InterfaceItems, ReservationItems, DnsItems, Items
  <2>2. \A j, S : j \in Items("look", S, {<<>>}) => j = Item("look", j.on, <<>>)
    BY DEF Items, Item
  <2>3. \A j \in NodeItems : j.act = "look" => j \in Items("look", Nodes, {<<>>})
    BY DEF NodeItems, Items, Item, Address
  <2>4. \A j \in VmItems : j.act = "look" => j \in Items("look", Guests, {<<>>})
    BY DEF VmItems, Items, Item, Address
  <2>5. \A j \in IotItems : j.act = "look" => j \in Items("look", Things, {<<>>})
    BY DEF IotItems, Items
  <2> QED
    BY <1>1, <1>3, <2>1, <2>2, <2>3, <2>4, <2>5, NextItem
<1>5. /\ seed.section = 2 => o \in Nodes
      /\ seed.section = 4 => o \in Guests
      /\ seed.section = 6 => o \in Things
  <2>1. \A j \in NodeItems : j.act = "look" => j.on \in Nodes
    BY DEF NodeItems, Items, Address, Item
  <2>2. \A j \in VmItems : j.act = "look" => j.on \in Guests
    BY DEF VmItems, Items, Address, Item
  <2>3. \A j \in IotItems : j.act = "look" => j.on \in Things
    BY DEF IotItems, Items
  <2> QED
    BY <1>1, <2>1, <2>2, <2>3, NextItem
<1>6. \/ seed.section = 2 /\ o \in Nodes /\ LookWrites(o) = NodeWrites(o)
      \/ seed.section = 4 /\ o \in Guests /\ LookWrites(o) = VmWrites(o)
      \/ seed.section = 6 /\ o \in Things /\ LookWrites(o) = ThingWrites(o)
  BY <1>4, <1>5, NetBoxAssumption DEF LookWrites, Hosts
<1>7. ASSUME NEW S, seed.todo \in Seq(S), LookWrites(o) \in Seq(S)
      PROVE  seed'.todo \in Seq(S) /\ Todo' = Range(LookWrites(o)) \cup Range(Tail(seed.todo))
  <2>1. Tail(seed.todo) \in Seq(S)
    BY <1>1, <1>7, HeadAndTail
  <2> DEFINE p == LookWrites(o)
             q == Tail(seed.todo)
  <2> HIDE DEF p, q
  <2>2. p \o q \in Seq(S) /\ Range(p \o q) = Range(p) \cup Range(q)
    BY <1>7, <2>1, RangeOfConcat DEF p, q
  <2> QED
    BY <1>2, <2>2 DEF Todo, p, q
<1>8. /\ seed.section = 2 => LookWrites(o) \in Seq(NodeItems) /\ seed.todo \in Seq(NodeItems)
      /\ seed.section = 4 => LookWrites(o) \in Seq(VmItems) /\ seed.todo \in Seq(VmItems)
      /\ seed.section = 6 => LookWrites(o) \in Seq(IotItems) /\ seed.todo \in Seq(IotItems)
  <2>1. TodoFits
    BY DEF SeedFits
  <2>2. seed.section = 2 => LookWrites(o) \in Seq(NodeItems)
    BY <1>3, <1>6, NodeWritesAre
  <2>3. seed.section = 4 => LookWrites(o) \in Seq(VmItems)
    BY <1>6, VmWritesAre
  <2>4. seed.section = 6 => LookWrites(o) \in Seq(IotItems)
    BY <1>6, ThingWritesAre
  <2> QED
    BY <2>1, <2>2, <2>3, <2>4 DEF TodoFits
<1>9. Todo' = Range(LookWrites(o)) \cup Range(Tail(seed.todo))
  BY <1>4, <1>7, <1>8
<1>10. TodoFits'
  BY <1>2, <1>4, <1>7, <1>8 DEF TodoFits
<1>11. SeedFits'
  BY <1>1, <1>2, <1>3, <1>10 DEF SeedFits, Running, seen
<1> QED
  BY <1>1, <1>2, <1>3, <1>4, <1>6, <1>9, <1>11

\* An object is looked up, and its writes planned.
LEMMA LooksKeep ==
    ASSUME TablesInv, SeedFits, Careful, SeedLooks
    PROVE  TablesInv' /\ SeedFits' /\ Careful'
<1> DEFINE o == Head(seed.todo).on
           i == Head(seed.todo)
<1>0. SeedFits'
  BY LookIs
<1>1. TablesInv'
  BY LookIs DEF TablesInv, NetBoxTypeOK, Tidy, TidyRow, Apart
<1>2. /\ i = Item("look", o, <<>>) /\ i \in Todo /\ Range(Tail(seed.todo)) \subseteq Todo
      /\ seed'.section = seed.section /\ seed'.retiring = seed.retiring /\ seed'.record = seed.record
      /\ seed'.seen = seed.seen /\ Todo' = Range(LookWrites(o)) \cup Range(Tail(seed.todo))
      /\ UNCHANGED <<obj, addr>>
  BY LookIs
<1>3. CASE seed.section = 2
  BY <1>0, <1>1, <1>2, <1>3 DEF Careful, Whose, seen, There
<1>4. CASE seed.section = 4
  <2>1. o \in Guests /\ LookWrites(o) = VmWrites(o)
    BY <1>4, LookIs
  <2>2. o \notin seed.retiring
    BY <1>2, <1>4 DEF Careful, Whose, Item
  <2>3. \A j \in Range(VmWrites(o)) : Whose(j) = o
    BY <2>1, VmWritesAre DEF Whose, Item, Address
  <2> QED
    BY <1>0, <1>1, <1>2, <1>4, <2>1, <2>2, <2>3 DEF Careful, Whose, seen, There
<1>5. CASE seed.section = 6
  <2>1. o \in Things /\ LookWrites(o) = ThingWrites(o)
    BY <1>5, LookIs
  <2>2. ASSUME NEW j \in Range(ThingWrites(o))
        PROVE  /\ j.act = "addr" => j.on \in seed.record
               /\ j.act \in {"obj", "addr"} => ~There(Whose(j)) \/ obj[Whose(j)].mark
    <3>1. ~Kept(o) /\ (j = Item("obj", o, ThingFields(There(o))) \/ j \in All("addr", LeasesOf(o), ReservedFor(o)))
      BY <2>1, <2>2, ThingWritesAre
    <3>2. Whose(j) = o /\ (j.act = "addr" => j.on \in seed.record)
      <4>1. CASE j = Item("obj", o, ThingFields(There(o)))
        BY <4>1 DEF Item, Whose
      <4>2. CASE j \in All("addr", LeasesOf(o), ReservedFor(o))
        <5>1. j.act = "addr" /\ j.on \in LeasesOf(o) /\ j.set = ReservedFor(o)
          BY <4>2, InAll
        <5> QED
          BY <5>1 DEF LeasesOf, Whose, ReservedFor
      <4> QED
        BY <3>1, <4>1, <4>2
    <3> QED
      BY <3>1, <3>2 DEF Kept
  <2>3. /\ \A a \in seed.record : seen.lease[a] # Nobody /\ addr[a].on \notin Hosts
        /\ \A j \in Todo : /\ j.act = "addr" => j.on \in seed.record
                           /\ j.act \in {"obj", "addr"} => ~There(Whose(j)) \/ obj[Whose(j)].mark
    BY <1>5 DEF Careful
  <2>4. ASSUME NEW j \in Todo'
        PROVE  /\ j.act = "addr" => j.on \in seed.record
               /\ j.act \in {"obj", "addr"} => ~There(Whose(j)) \/ obj[Whose(j)].mark
    BY <1>2, <2>1, <2>2, <2>3
  <2> QED
    BY <1>0, <1>1, <1>2, <1>5, <2>3, <2>4 DEF Careful, seen, There, Whose
<1> QED
  BY <1>1, <1>3, <1>4, <1>5, LookIs

-----------------------------------------------------------------------------
(* The owner and the sources.                                              *)

LEMMA ItemsOn ==
    ASSUME SeedFits
    PROVE  /\ seed.record \subseteq Addrs
           /\ seed.section = 5 => \A i \in Todo : i.on \in Addrs
           /\ seed.section = 6 => \A i \in Todo : i.act \in {"obj", "addr"} => Whose(i) \in Objects
<1>1. seed.record \subseteq Addrs
  BY DEF SeedFits
<1>2. ASSUME seed.section = 5, NEW i \in Todo PROVE i.on \in Addrs
  <2>1. seed.todo \in Seq(ReservationItems)
    BY <1>2 DEF SeedFits, TodoFits
  <2>2. \A k \in DOMAIN seed.todo : seed.todo[k] \in ReservationItems
    BY <2>1
  <2>3. i \in ReservationItems
    BY <1>2, <2>2 DEF Todo, Range
  <2> QED
    BY <2>3 DEF ReservationItems, Items
<1>3. ASSUME seed.section = 6, NEW i \in Todo, i.act \in {"obj", "addr"} PROVE Whose(i) \in Objects
  <2>1. seed.todo \in Seq(IotItems)
    BY <1>3 DEF SeedFits, TodoFits
  <2>2. \A k \in DOMAIN seed.todo : seed.todo[k] \in IotItems
    BY <2>1
  <2>3. i \in IotItems
    BY <1>3, <2>2 DEF Todo, Range
  <2>4. CASE i.act = "obj"
    BY <2>3, <2>4 DEF IotItems, Items, Whose, Objects
  <2>5. CASE i.act = "addr"
    <3>1. PICK t \in Things : i.set = ReservedFor(t)
      BY <2>3, <2>5 DEF IotItems, Items
    <3> QED
      BY <2>5, <3>1 DEF Whose, Objects, ReservedFor
  <2> QED
    BY <1>3, <2>4, <2>5
<1> QED
  BY <1>1, <1>2, <1>3

\* No change that gives no host an address and takes no mark breaks it.
LEMMA CarefulStays ==
    ASSUME SeedFits, Careful, UNCHANGED seed,
           \A a \in Addrs : addr'[a].on \in Hosts => addr[a].on \in Hosts,
           \A o \in Objects : ~There(o) \/ obj[o].mark => obj'[o].status = "absent" \/ obj'[o].mark
    PROVE  Careful'
<1>1. ASSUME seed.section \in {5, 6}, NEW a \in seed.record PROVE seen.lease[a] # Nobody /\ addr'[a].on \notin Hosts
  BY <1>1, ItemsOn DEF Careful
<1>2. ASSUME seed.section = 5, NEW i \in Todo PROVE addr'[i.on].on \notin Hosts /\ (i.act = "addr" => i.on \in seed.record)
  BY <1>2, ItemsOn DEF Careful
<1>3. ASSUME seed.section = 6, NEW i \in Todo
      PROVE  /\ i.act = "addr" => i.on \in seed.record
             /\ i.act \in {"obj", "addr"} => obj'[Whose(i)].status = "absent" \/ obj'[Whose(i)].mark
  BY <1>3, ItemsOn DEF Careful
<1>4. seed.section = 4 => \A i \in Todo : Whose(i) \notin seed.retiring
  BY DEF Careful
<1>5. Todo' = Todo /\ seed'.section = seed.section /\ seed'.record = seed.record /\ seed'.retiring = seed.retiring
      /\ seed'.seen = seed.seen
  BY DEF Todo
<1>6. seed.section < 4 => seed.retiring = {}
  BY DEF Careful
<1> QED
  BY <1>1, <1>2, <1>3, <1>4, <1>5, <1>6 DEF Careful, There, Whose, seen

\* The owner's edits, beside a run or not.
LEMMA OwnerKeeps ==
    ASSUME TablesInv, SeedFits, Careful, OwnerEdits, SeedMissed
    PROVE  TablesInv' /\ SeedFits' /\ Careful'
<1>1. SeedFits'
  BY DEF SeedMissed, SeedFits, TodoFits, Running, seen
<1>2. SUFFICES TablesInv' /\ Careful'
  BY <1>1
<1>3. MaxEvents \in Nat /\ events \in 0..MaxEvents
  BY NetBoxAssumption DEF TablesInv, NetBoxTypeOK
<1>4. ASSUME Event PROVE events' \in 0..MaxEvents /\ UNCHANGED jobs
  BY <1>3, <1>4 DEF Event
<1>5. UNCHANGED seed
  BY DEF SeedMissed
<1>6. ASSUME NEW o \in Objects, There(o), Edit, UNCHANGED <<addr, ifaces>>, NEW row \in ObjRow, obj' = [obj EXCEPT ![o] = row],
             row.status # "absent", row.mark = obj[o].mark
      PROVE  TablesInv' /\ Careful'
  <2>1. Event /\ UNCHANGED <<addr, live, ifaces>>
    BY <1>6 DEF Edit
  <2>2. ASSUME NEW a \in Addrs, addr[a].on = o, o \in Things PROVE row.mark
    BY <1>6, <2>2, AddressIs DEF TidyRow
  <2>3. TablesInv'
    BY <1>4, <1>6, <2>1, <2>2, PutObject
  <2>4. \A p \in Objects : obj'[p] = IF p = o THEN row ELSE obj[p]
    BY <1>6 DEF TablesInv, NetBoxTypeOK
  <2>5. Careful'
    BY <1>5, <1>6, <2>4, CarefulStays DEF There
  <2> QED
    BY <2>3, <2>5
<1>7. ASSUME NEW o \in Objects, OwnerSetsStatus(o) PROVE TablesInv' /\ Careful'
  <2>1. PICK s \in EditedStatuses : obj' = [obj EXCEPT ![o].status = s]
    BY <1>7 DEF OwnerSetsStatus
  <2> DEFINE row == [obj[o] EXCEPT !.status = s]
  <2>2. obj' = [obj EXCEPT ![o] = row]
    BY <2>1
  <2>3. row \in ObjRow /\ row.status # "absent" /\ row.mark = obj[o].mark
    BY NetBoxAssumption, ObjectIs DEF ObjRow
  <2> HIDE DEF row
  <2> QED
    BY <1>6, <1>7, <2>2, <2>3 DEF OwnerSetsStatus
<1>8. ASSUME NEW o \in Objects, OwnerGivesRole(o) PROVE TablesInv' /\ Careful'
  <2>1. PICK sh \in Shapes : obj' = [obj EXCEPT ![o].role = TRUE, ![o].shape = sh]
    BY <1>8 DEF OwnerGivesRole
  <2> DEFINE row == [obj[o] EXCEPT !.role = TRUE, !.shape = sh]
  <2>2. obj' = [obj EXCEPT ![o] = row]
    BY <2>1
  <2>3. row \in ObjRow /\ row.status = obj[o].status /\ row.mark = obj[o].mark
    BY ObjectIs DEF ObjRow
  <2> HIDE DEF row
  <2> QED
    BY <1>6, <1>8, <2>2, <2>3 DEF OwnerGivesRole, There
<1>9. ASSUME NEW o \in Objects, OwnerSetsLogin(o) PROVE TablesInv' /\ Careful'
  <2>1. PICK l \in Logins : obj' = [obj EXCEPT ![o].login = l]
    BY <1>9 DEF OwnerSetsLogin
  <2> DEFINE row == [obj[o] EXCEPT !.login = l]
  <2>2. obj' = [obj EXCEPT ![o] = row]
    BY <2>1
  <2>3. row \in ObjRow /\ row.status = obj[o].status /\ row.mark = obj[o].mark
    BY ObjectIs DEF ObjRow
  <2> HIDE DEF row
  <2> QED
    BY <1>6, <1>9, <2>2, <2>3 DEF OwnerSetsLogin, There
<1>10. ASSUME NEW o \in Objects, OwnerDeletes(o) PROVE TablesInv' /\ Careful'
  <2>1. /\ Edit
        /\ obj' = [obj EXCEPT ![o].status = "absent", ![o].mark = FALSE, ![o].role = FALSE, ![o].login = "none"]
        /\ addr' = [a \in Addrs |-> IF addr[a].on = o THEN NoAddress ELSE addr[a]]
        /\ ifaces' \subseteq ifaces
    BY <1>10 DEF OwnerDeletes
  <2> DEFINE row == [obj[o] EXCEPT !.status = "absent", !.mark = FALSE, !.role = FALSE, !.login = "none"]
  <2>2. obj' = [obj EXCEPT ![o] = row]
    BY <2>1
  <2>3. row \in ObjRow /\ row.status = "absent"
    BY ObjectIs DEF ObjRow, Statuses, Logins
  <2> HIDE DEF row
  <2>4. obj' \in [Objects -> ObjRow] /\ \A p \in Objects : obj'[p] = IF p = o THEN row ELSE obj[p]
    BY <2>2, <2>3 DEF TablesInv, NetBoxTypeOK
  <2>5. NoAddress \in AddrRow /\ NoAddress.on = Nobody /\ NoAddress.status = "absent" /\ ~NoAddress.vip
        /\ NoAddress.desc = "none"
    BY DEF NoAddress, AddrRow
  <2>6. addr' \in [Addrs -> AddrRow] /\ \A a \in Addrs : addr'[a] = IF addr[a].on = o THEN NoAddress ELSE addr[a]
    BY <2>1, <2>5 DEF TablesInv, NetBoxTypeOK
  <2>7. ASSUME NEW a \in Addrs PROVE TidyRow(obj', a, addr'[a])
    <3>1. CASE addr[a].on = o
      BY <2>5, <2>6, <3>1, NetBoxAssumption DEF TidyRow, Objects
    <3>2. CASE addr[a].on # o
      <4>1. addr'[a] = addr[a] /\ TidyRow(obj, a, addr[a]) /\ Things \subseteq Objects
        BY <2>6, <3>2, AddressIs DEF Objects
      <4>2. addr[a].on \in Things => obj'[addr[a].on] = obj[addr[a].on]
        BY <2>4, <3>2, <4>1
      <4> QED
        BY <4>1, <4>2 DEF TidyRow
    <3> QED
      BY <3>1, <3>2
  <2>8. TablesInv'
    BY <1>4, <2>1, <2>4, <2>6, <2>7 DEF TablesInv, NetBoxTypeOK, Tidy, Edit, Apart
  <2>9. \A a \in Addrs : addr'[a].on \in Hosts => addr[a].on \in Hosts
    BY <2>5, <2>6, NetBoxAssumption DEF Objects
  <2>10. Careful'
    BY <1>5, <2>3, <2>4, <2>9, CarefulStays DEF There
  <2> QED
    BY <2>8, <2>10
<1>11. ASSUME NEW a \in Addrs, OwnerRecords(a) PROVE TablesInv' /\ Careful'
  <2> DEFINE row == ARow("active", FALSE, "hand", Nobody, "none")
  <2>1. Edit /\ UNCHANGED <<obj, ifaces>> /\ addr' = [addr EXCEPT ![a] = row]
    BY <1>11 DEF OwnerRecords, ARow
  <2>2. row \in AddrRow
    BY DEF ARow, AddrRow
  <2>3. TidyRow(obj, a, row) /\ row.on \notin Hosts
    BY NetBoxAssumption DEF TidyRow, ARow, Objects
  <2> HIDE DEF row
  <2>4. TablesInv'
    BY <1>4, <2>1, <2>2, <2>3, PutAddress DEF Edit
  <2>5. \A b \in Addrs : addr'[b].on \in Hosts => addr[b].on \in Hosts
    BY <2>1, <2>3 DEF TablesInv, NetBoxTypeOK
  <2>6. Careful'
    BY <1>5, <2>1, <2>5, CarefulStays DEF There
  <2> QED
    BY <2>4, <2>6
<1>12. ASSUME NEW a \in Addrs, OwnerNames(a) PROVE TablesInv' /\ Careful'
  <2> DEFINE row == [addr[a] EXCEPT !.dns = "hand"]
  <2>0. addr[a].on # Nobody /\ Edit /\ UNCHANGED <<obj, ifaces>> /\ addr' = [addr EXCEPT ![a].dns = "hand"]
    BY <1>12 DEF OwnerNames
  <2>1. addr' = [addr EXCEPT ![a] = row]
    BY <2>0
  <2>2. row \in AddrRow
    BY AddressIs DEF AddrRow
  <2>3. TidyRow(obj, a, row) /\ row.on = addr[a].on
    BY <2>0, AddressIs DEF TidyRow, AddrRow
  <2> HIDE DEF row
  <2>4. TablesInv'
    BY <1>4, <2>0, <2>1, <2>2, <2>3, PutAddress DEF Edit
  <2>5. \A b \in Addrs : addr'[b].on \in Hosts => addr[b].on \in Hosts
    BY <2>1, <2>3 DEF TablesInv, NetBoxTypeOK
  <2>6. Careful'
    BY <1>5, <2>0, <2>5, CarefulStays DEF There
  <2> QED
    BY <2>4, <2>6
<1> QED
  BY <1>7, <1>8, <1>9, <1>10, <1>11, <1>12 DEF OwnerEdits

\* What changes in Proxmox, in Kea and in the cluster.
LEMMA SourcesKeep ==
    ASSUME TablesInv, SeedFits, Careful, SourcesMove, SeedMissed
    PROVE  TablesInv' /\ SeedFits' /\ Careful'
<1>1. SeedFits'
  BY DEF SeedMissed, SeedFits, TodoFits, Running, seen
<1>2. live \in Live /\ Apart(live) /\ MaxEvents \in Nat /\ events \in 0..MaxEvents
  BY NetBoxAssumption DEF TablesInv, NetBoxTypeOK
<1>3. ASSUME Move, live' \in Live, Apart(live') PROVE TablesInv' /\ Careful'
  <2>1. UNCHANGED <<obj, addr, ifaces, jobs>> /\ events' \in 0..MaxEvents
    BY <1>2, <1>3 DEF Move, Event, tables
  <2>2. TablesInv'
    BY <1>3, <2>1 DEF TablesInv, NetBoxTypeOK, Tidy, TidyRow
  <2>3. Careful'
    BY <2>1, CarefulStays DEF SeedMissed, There
  <2> QED
    BY <2>2, <2>3
<1>4. ASSUME NEW g \in Guests, GuestChanges(g) PROVE TablesInv' /\ Careful'
  <2>1. PICK s \in {"gone", "stopped", "running"} : live' = [live EXCEPT !.guest[g] = s]
    BY <1>4 DEF GuestChanges
  <2>2. live' \in Live /\ Apart(live')
    BY <1>2, <2>1 DEF Live, Apart
  <2> QED
    BY <1>3, <1>4, <2>2 DEF GuestChanges
<1>5. ASSUME NEW n \in Nodes, NodeChanges(n) PROVE TablesInv' /\ Careful'
  <2>1. live' \in Live /\ Apart(live')
    BY <1>2, <1>5 DEF NodeChanges, Live, Apart
  <2> QED
    BY <1>3, <1>5, <2>1 DEF NodeChanges
<1>6. ASSUME NEW i \in Ifaces, InterfaceGone(i) PROVE TablesInv' /\ Careful'
  <2>1. live' \in Live /\ Apart(live')
    BY <1>2, <1>6 DEF InterfaceGone, Live, Apart
  <2> QED
    BY <1>3, <1>6, <2>1 DEF InterfaceGone
<1>7. ASSUME NEW i \in Ifaces, InterfaceDown(i) PROVE TablesInv' /\ Careful'
  <2>1. live' \in Live /\ Apart(live')
    BY <1>2, <1>7 DEF InterfaceDown, Live, Apart
  <2> QED
    BY <1>3, <1>7, <2>1 DEF InterfaceDown
<1>8. ASSUME NEW a \in Addrs, ServiceChanges(a) PROVE TablesInv' /\ Careful'
  <2>1. live' \in Live /\ Apart(live')
    BY <1>2, <1>8 DEF ServiceChanges, Live, Apart
  <2> QED
    BY <1>3, <1>8, <2>1 DEF ServiceChanges
<1>9. ASSUME NEW a \in Addrs, ReservationChanges(a) PROVE TablesInv' /\ Careful'
  <2>1. PICK w \in Things \cup {Other, Nobody} : live' = [live EXCEPT !.lease[a] = w]
    BY <1>9 DEF ReservationChanges
  <2>2. a \notin Pool
    BY <1>9, NetBoxAssumption DEF ReservationChanges
  <2>3. live' \in Live /\ Apart(live')
    BY <1>2, <2>1, <2>2 DEF Live, Apart
  <2> QED
    BY <1>3, <1>9, <2>3 DEF ReservationChanges
<1> QED
  BY <1>1, <1>4, <1>5, <1>6, <1>7, <1>8, <1>9 DEF SourcesMove

-----------------------------------------------------------------------------
(* The run's other steps, and the other two jobs.                          *)

LEMMA NoRunFits ==
    ASSUME seed = NoRun, quiet \in BOOLEAN, settled \in BOOLEAN
    PROVE  SeedFits /\ Careful
<1>1. /\ seed.on = FALSE /\ seed.section = 0 /\ seed.todo = <<>> /\ seed.seen = <<>>
      /\ seed.retiring = {} /\ seed.record = {}
  BY DEF NoRun
<1>2. seed \in [on : BOOLEAN, section : 0..7, todo : {seed.todo}, seen : Live \cup {<<>>},
                retiring : SUBSET Guests, record : SUBSET Addrs]
  BY <1>1 DEF NoRun
<1> QED
  BY <1>1, <1>2 DEF SeedFits, Careful, TodoFits, Running

\* Nothing but the event count and the other jobs' variables changes.
LEMMA NothingKeeps ==
    ASSUME SafeInv, UNCHANGED <<obj, addr, ifaces, live, jobs, seed>>, events' \in 0..MaxEvents,
           quiet' \in BOOLEAN, settled' \in BOOLEAN
    PROVE  SafeInv'
<1>1. TablesInv'
  BY DEF SafeInv, TablesInv, NetBoxTypeOK, Tidy, TidyRow, Apart
<1>2. SeedFits'
  BY DEF SafeInv, SeedFits, TodoFits, Running, seen
<1>3. Careful'
  BY CarefulStays DEF SafeInv, There
<1> QED
  BY <1>1, <1>2, <1>3 DEF SafeInv

LEMMA EventIs == ASSUME SafeInv, Event PROVE events' \in 0..MaxEvents /\ UNCHANGED jobs
<1>1. MaxEvents \in Nat /\ events \in 0..MaxEvents
  BY NetBoxAssumption DEF SafeInv, TablesInv, NetBoxTypeOK
<1> QED
  BY <1>1 DEF Event

\* A run ends, complete or not.
LEMMA RunEndsKeeps ==
    ASSUME SafeInv, seed' = NoRun, UNCHANGED <<obj, addr, ifaces, live, jobs>>, events' \in 0..MaxEvents,
           quiet' \in BOOLEAN, settled' \in BOOLEAN
    PROVE  SafeInv'
<1>1. TablesInv'
  BY DEF SafeInv, TablesInv, NetBoxTypeOK, Tidy, TidyRow, Apart
<1>3. /\ NoRun.on = FALSE /\ NoRun.section = 0 /\ NoRun.todo = <<>> /\ NoRun.seen = <<>>
      /\ NoRun.retiring = {} /\ NoRun.record = {}
  BY DEF NoRun
<1>4. NoRun \in [on : BOOLEAN, section : 0..7, todo : {NoRun.todo}, seen : Live \cup {<<>>},
                retiring : SUBSET Guests, record : SUBSET Addrs]
  BY <1>3 DEF NoRun
<1>5. SeedFits'
  BY <1>3, <1>4 DEF SeedFits, TodoFits, Running
<1>6. Careful'
  BY <1>3 DEF Careful
<1> QED
  BY <1>1, <1>5, <1>6 DEF SafeInv

\* A run begins.
LEMMA ReadsKeep ==
    ASSUME SafeInv, SeedReads
    PROVE  SafeInv'
<1>1. TablesInv'
  BY DEF SafeInv, SeedReads, tables, outside, TablesInv, NetBoxTypeOK, Tidy, TidyRow, Apart
<1>2. /\ seed'.on = TRUE /\ seed'.section = 0 /\ seed'.todo = <<>> /\ seed'.seen = live
      /\ seed'.retiring = {} /\ seed'.record = {}
      /\ seed' \in [on : BOOLEAN, section : 0..7, todo : {seed'.todo}, seen : Live \cup {<<>>},
                    retiring : SUBSET Guests, record : SUBSET Addrs]
  <2>1. seed' = [NoRun EXCEPT !.on = TRUE, !.seen = live] /\ live \in Live
    BY DEF SeedReads, SafeInv, TablesInv, NetBoxTypeOK
  <2>2. /\ seed'.on = TRUE /\ seed'.section = 0 /\ seed'.todo = <<>> /\ seed'.seen = live
        /\ seed'.retiring = {} /\ seed'.record = {}
    BY <2>1 DEF NoRun
  <2>3. seed' = [on |-> seed'.on, section |-> seed'.section, todo |-> seed'.todo, seen |-> seed'.seen,
                 retiring |-> seed'.retiring, record |-> seed'.record]
    BY <2>1 DEF NoRun
  <2>4. /\ seed'.on \in BOOLEAN /\ seed'.section \in 0..7 /\ seed'.seen \in Live \cup {<<>>}
        /\ seed'.retiring \in SUBSET Guests /\ seed'.record \in SUBSET Addrs
    BY <2>1, <2>2
  <2> QED
    BY <2>2, <2>3, <2>4
<1>3. live \in Live /\ Apart(live)
  BY DEF SafeInv, TablesInv, NetBoxTypeOK
<1>4. SeedFits'
  BY <1>2, <1>3 DEF SeedReads, SafeInv, SeedFits, TodoFits, Running, seen
<1>5. Careful'
  BY <1>2 DEF Careful
<1> QED
  BY <1>1, <1>4, <1>5 DEF SafeInv

LEMMA SeedKeepsSafe ==
    ASSUME SafeInv, SeedSteps
    PROVE  SafeInv'
<1>0. events \in 0..MaxEvents /\ quiet \in BOOLEAN /\ settled \in BOOLEAN
  BY DEF SafeInv, TablesInv, NetBoxTypeOK, SeedFits
<1>1. CASE SeedReads
  BY <1>1, ReadsKeep
<1>2. CASE SeedLists
  BY <1>2, ListsKeep DEF SafeInv
<1>3. CASE SeedLooks
  BY <1>3, LooksKeep DEF SafeInv
<1>4. CASE SeedWrites
  BY <1>4, WriteKeepsTables, WriteKeepsCareful, ItemDone DEF SafeInv
<1>5. CASE SeedIsRefused
  BY <1>0, <1>5, RunEndsKeeps DEF SeedIsRefused, tables, outside
<1>6. CASE SeedEnds
  BY <1>0, <1>6, RunEndsKeeps DEF SeedEnds, tables, outside
<1>7. CASE SeedStops
  BY <1>0, <1>7, EventIs, RunEndsKeeps DEF SeedStops, tables
<1> QED
  BY <1>1, <1>2, <1>3, <1>4, <1>5, <1>6, <1>7 DEF SeedSteps, SeedRuns

\* No step breaks what holds whatever happens beside the run.
LEMMA NextKeepsSafe ==
    ASSUME SafeInv, [Next]_vars
    PROVE  SafeInv'
<1>0. events \in 0..MaxEvents /\ quiet \in BOOLEAN /\ settled \in BOOLEAN
  BY DEF SafeInv, TablesInv, NetBoxTypeOK, SeedFits
<1>1. CASE Seed
  BY <1>1, SeedKeepsSafe DEF Seed
<1>2. CASE GuestsJob
  <2>1. CASE UNCHANGED netboxVars
    BY <1>0, <1>2, <2>1, NothingKeeps DEF GuestsJob, netboxVars, tables, outside, seedVars
  <2>2. CASE GuestsRefused
    BY <1>0, <1>2, <2>2, EventIs, NothingKeeps DEF GuestsJob, GuestsRefused, tables, seedVars
  <2> QED
    BY <1>2, <2>1, <2>2 DEF GuestsJob
<1>3. CASE Termix
  <2>1. CASE UNCHANGED netboxVars
    BY <1>0, <1>3, <2>1, NothingKeeps DEF Termix, netboxVars, tables, outside, seedVars
  <2>2. CASE TxWriteFails \/ TxStops
    BY <1>0, <1>3, <2>2, EventIs, NothingKeeps DEF Termix, TxWriteFails, TxStops, tables, seedVars
  <2> QED
    BY <1>3, <2>1, <2>2 DEF Termix
<1>4. CASE Sources
  BY <1>4, SourcesKeep DEF Sources, SafeInv
<1>5. CASE Owner
  BY <1>5, OwnerKeeps DEF Owner, SafeInv
<1>6. CASE User
  BY <1>0, <1>6, EventIs, NothingKeeps DEF User, UserEdits, tables, seedVars
<1>7. CASE UNCHANGED vars
  BY <1>0, <1>7, NothingKeeps DEF vars, netboxVars, tables, outside, seedVars
<1> QED
  BY <1>1, <1>2, <1>3, <1>4, <1>5, <1>6, <1>7 DEF Next

LEMMA InitIsSafe == Init => SafeInv
<1> SUFFICES ASSUME Init PROVE SafeInv
  OBVIOUS
<1>1. PICK s \in Starts : obj = s.obj /\ addr = s.addr /\ ifaces = s.ifaces /\ jobs = s.jobs /\ events = s.events
  BY DEF Init, NetBoxInit
<1>2. live \in StartLive
  BY DEF Init, NetBoxInit
<1>3. TablesInv
  BY <1>1, <1>2, NetBoxAssumption DEF TablesInv, NetBoxTypeOK
<1>4. seed = NoRun /\ quiet = FALSE /\ settled = FALSE
  BY DEF Init, SeedInit
<1>5. SeedFits /\ Careful
  BY <1>4, NoRunFits
<1> QED
  BY <1>3, <1>5 DEF SafeInv

-----------------------------------------------------------------------------
(* The other two jobs' own state.                                          *)

GuestsInv ==
    /\ main \in Files /\ branch \in Files /\ pr \in BOOLEAN
    /\ maker \in [at : {"idle", "netbox", "compare", "put", "open"}, previous : {maker.previous}, text : {maker.text}]
    /\ maker.at # "idle" => maker.previous \in Files
    /\ maker.at \in {"compare", "put", "open"} => maker.text \in Files

LEMMA ShapeIs == ASSUME TablesInv, NEW previous \in Files PROVE Shape(previous) \in Files
<1>1. \A g \in Guests : obj[g].shape \in Shapes
  BY ObjectIs DEF Objects, Hosts
<1> QED
  BY <1>1 DEF Shape, Files

\* The job of the guests' file keeps its own types.
LEMMA GuestsKeep ==
    ASSUME TablesInv, GuestsInv, [Next]_vars
    PROVE  GuestsInv'
<1>1. CASE UNCHANGED guestsVars
  BY <1>1 DEF guestsVars, GuestsInv
<1>2. CASE GuestsReadMain
  BY <1>2 DEF GuestsReadMain, Resting, GuestsInv
<1>3. CASE GuestsReadNetBox
  <2>1. maker.previous \in Files /\ Shape(maker.previous) \in Files
    BY <1>3, ShapeIs DEF GuestsReadNetBox, GuestsInv
  <2> QED
    BY <1>3, <2>1 DEF GuestsReadNetBox, Resting, GuestsInv
<1>4. CASE GuestsCompare
  BY <1>4 DEF GuestsCompare, Resting, GuestsInv
<1>5. CASE GuestsPut
  BY <1>5 DEF GuestsPut, GuestsInv
<1>6. CASE GuestsOpen
  BY <1>6 DEF GuestsOpen, Resting, GuestsInv
<1>7. CASE Merge
  BY <1>7 DEF Merge, GuestsInv
<1>8. CASE GuestsRefused
  BY <1>8 DEF GuestsRefused, Resting, GuestsInv
<1> QED
  BY <1>1, <1>2, <1>3, <1>4, <1>5, <1>6, <1>7, <1>8
     DEF Next, Seed, GuestsJob, GuestsRun, Termix, Sources, Owner, User, vars

LEMMA GuestsStart == Init => GuestsInv
<1> SUFFICES ASSUME Init PROVE GuestsInv
  OBVIOUS
<1>1. TablesInv
  BY InitIsSafe DEF SafeInv
<1>2. \A g \in Guests : obj[g].shape \in Shapes
  BY <1>1, ObjectIs DEF Objects, Hosts
<1>3. main \in Files
  BY <1>2 DEF Init, GuestsInit, Files
<1> QED
  BY <1>3 DEF Init, GuestsInit, GuestsInv, Resting

Verbs == {"POST", "PUT", "DELETE"}
Keeping(wanted) == {"POST", "PUT"} \X DOMAIN wanted
TxItems(wanted) == Keeping(wanted) \cup ({"DELETE"} \X Objects)

WantedRow == [proto : {"ssh", "rdp"}, at : {"name", "ip"}, cred : Credentials]

TermixInv ==
    /\ synced \in [Objects -> TxHost] /\ byHand \subseteq Objects /\ creds \subseteq Credentials
    /\ undisturbed \in BOOLEAN
    /\ tx \in [at : {"idle", "termix", "write", "verify"}, wanted : {tx.wanted}, have : {tx.have},
               held : SUBSET Objects, clash : SUBSET Objects, todo : {tx.todo}]
    /\ tx.at # "idle" => \E os \in SUBSET Objects : tx.wanted \in [os -> WantedRow]
    /\ tx.at \in {"write", "verify"} => tx.have \in [Objects -> TxHost]
    /\ IF tx.at \in {"idle", "termix"} THEN tx.todo = <<>> ELSE tx.todo \in Seq(TxItems(tx.wanted))

LEMMA WantedIs == DOMAIN WantedHosts = Named /\ Named \subseteq Objects /\ WantedHosts \in [Named -> WantedRow]
<1>1. \A o \in Named : Reached(o) \in {"name", "ip"}
  BY DEF Reached
<1> QED
  BY <1>1 DEF WantedHosts, Named, WantedRow, Credentials

LEMMA ThreeSeqs ==
    ASSUME NEW A, IsFiniteSet(A), NEW B, IsFiniteSet(B), NEW C, IsFiniteSet(C)
    PROVE  Lists(SetToSeq(A) \o SetToSeq(B) \o SetToSeq(C), A \cup B \cup C)
<1>1. Lists(SetToSeq(A), A) /\ Lists(SetToSeq(B), B) /\ Lists(SetToSeq(C), C)
  BY SeqOfSet DEF Lists
<1>2. Lists(SetToSeq(A) \o SetToSeq(B), A \cup B)
  BY <1>1, ConcatLists
<1> DEFINE p == SetToSeq(A) \o SetToSeq(B)
           q == A \cup B
<1>3. Lists(p, q)
  BY <1>2
<1> HIDE DEF p, q
<1>4. Lists(p \o SetToSeq(C), q \cup C)
  BY <1>1, <1>3, ConcatLists
<1> QED
  BY <1>4 DEF p, q

Each(verb, os) == {<<verb, o>> : o \in os}

LEMMA EachFinite == ASSUME NEW verb, NEW os \in SUBSET Objects PROVE IsFiniteSet(Each(verb, os))
<1> DEFINE f == [o \in os |-> <<verb, o>>]
<1>1. f \in Surjection(os, Each(verb, os))
  BY DEF Surjection, Each
<1>2. IsFiniteSet(os)
  BY Finite
<1> QED
  BY <1>1, <1>2, FS_Surjection

Mine == {o \in Objects : Have(o)}

\* The Termix job's plan: the hosts to write or make, and those to delete.
LEMMA TxPlanIs ==
    ASSUME NEW wanted, DOMAIN wanted \subseteq Objects, NEW held
    PROVE  LET sync == (DOMAIN wanted \ held) \ byHand
               differ == {n \in sync \cap Mine : Differs(synced[n], wanted[n])}
           IN  Lists(TxPlan(wanted, held), Each("POST", sync \ Mine) \cup Each("PUT", differ) \cup Each("DELETE", Mine \ DOMAIN wanted))
<1> DEFINE sync == (DOMAIN wanted \ held) \ byHand
           differ == {n \in sync \cap Mine : Differs(synced[n], wanted[n])}
<1>1. sync \ Mine \in SUBSET Objects /\ differ \in SUBSET Objects /\ Mine \ DOMAIN wanted \in SUBSET Objects
  BY DEF Mine
<1>2. TxPlan(wanted, held) = SetToSeq(Each("POST", sync \ Mine)) \o SetToSeq(Each("PUT", differ))
                                \o SetToSeq(Each("DELETE", Mine \ DOMAIN wanted))
  BY DEF TxPlan, Each, Mine, Have
<1> HIDE DEF sync, differ
<1>3. IsFiniteSet(Each("POST", sync \ Mine)) /\ IsFiniteSet(Each("PUT", differ))
      /\ IsFiniteSet(Each("DELETE", Mine \ DOMAIN wanted))
  BY <1>1, EachFinite
<1> DEFINE A == Each("POST", sync \ Mine)
           B == Each("PUT", differ)
           C == Each("DELETE", Mine \ DOMAIN wanted)
<1>5. TxPlan(wanted, held) = SetToSeq(A) \o SetToSeq(B) \o SetToSeq(C)
      /\ IsFiniteSet(A) /\ IsFiniteSet(B) /\ IsFiniteSet(C)
  BY <1>2, <1>3
<1> HIDE DEF A, B, C
<1>6. Lists(SetToSeq(A) \o SetToSeq(B) \o SetToSeq(C), A \cup B \cup C)
  BY <1>5, ThreeSeqs
<1>7. Lists(TxPlan(wanted, held), A \cup B \cup C)
  BY <1>5, <1>6
<1> QED
  BY <1>7 DEF sync, differ, A, B, C

\* A run nobody disturbs does nothing to a host but what NetBox asks of it, and
\* keeps what the user set on it.
TxTodo == Range(tx.todo)
TermixCourse ==
    undisturbed /\ tx.at # "idle" =>
        /\ tx.wanted = WantedHosts
        /\ tx.at \in {"write", "verify"} =>
              /\ tx.held = Held(WantedHosts) /\ tx.clash = byHand
              /\ \A x \in TxTodo :
                    IF x[1] = "DELETE" THEN x[2] \notin Named
                    ELSE /\ x[2] \in (Named \ tx.held) \ tx.clash
                         /\ Have(x[2]) => synced[x[2]].pin = tx.have[x[2]].pin

Spares ==
    undisturbed /\ undisturbed' =>
        \A o \in Objects : Have(o) =>
            /\ o \in Named /\ (o \in byHand \/ WantedHosts[o].cred \notin creds) => synced'[o] = synced[o]
            /\ o \in Named => Have(o)'
            /\ Have(o)' => synced'[o].pin = synced[o].pin

LEMMA WantedStays == ASSUME UNCHANGED <<obj, addr>> PROVE Named' = Named /\ WantedHosts' = WantedHosts
<1>1. Named' = Named
  BY DEF Named
<1>2. ASSUME NEW o PROVE Reached(o)' = Reached(o)
  BY DEF Reached
<1> QED
  BY <1>1, <1>2 DEF WantedHosts

\* A step that leaves Termix and the hosts alone.
LEMMA TermixStays ==
    ASSUME TermixInv, TermixCourse, UNCHANGED termixVars, UNCHANGED <<obj, addr>>
    PROVE  TermixInv' /\ TermixCourse' /\ Spares
<1>1. Named' = Named /\ WantedHosts' = WantedHosts /\ Held(WantedHosts)' = Held(WantedHosts)
  BY WantedStays DEF termixVars, Held
<1>2. UNCHANGED <<synced, byHand, creds, tx, undisturbed>>
  BY DEF termixVars
<1>3. TermixInv'
  BY <1>2 DEF TermixInv
<1>4. TermixCourse'
  BY <1>1, <1>2 DEF TermixCourse, TxTodo, Have, Held
<1>5. Spares
  BY <1>2 DEF Spares, Have
<1> QED
  BY <1>3, <1>4, <1>5

LEMMA TermixIsTold ==
    ASSUME TermixInv, TermixMissed
    PROVE  TermixInv' /\ TermixCourse' /\ Spares
  BY DEF TermixInv, TermixMissed, TermixCourse, Spares

\* The user's changes in Termix end what is said of an undisturbed run.
LEMMA UserKeepsTermix ==
    ASSUME TermixInv, UserEdits
    PROVE  TermixInv' /\ TermixCourse' /\ Spares
<1>1. UNCHANGED tx /\ undisturbed' = FALSE
  BY DEF UserEdits
<1>2. synced' \in [Objects -> TxHost] /\ byHand' \subseteq Objects /\ creds' \subseteq Credentials
  <2>1. CASE UserChangesCredentials
    BY <2>1 DEF UserChangesCredentials, TermixInv
  <2>2. ASSUME NEW o \in Objects, UserPins(o)
        PROVE  synced' \in [Objects -> TxHost] /\ byHand' \subseteq Objects /\ creds' \subseteq Credentials
    <3>1. PICK v \in BOOLEAN : synced' = [synced EXCEPT ![o].pin = v]
      BY <2>2 DEF UserPins
    <3> QED
      BY <2>2, <3>1 DEF UserPins, TermixInv, TxHost
  <2>3. ASSUME NEW o \in Objects, UserMakes(o)
        PROVE  synced' \in [Objects -> TxHost] /\ byHand' \subseteq Objects /\ creds' \subseteq Credentials
    BY <2>3 DEF UserMakes, TermixInv
  <2> QED
    BY <2>1, <2>2, <2>3 DEF UserEdits
<1> QED
  BY <1>1, <1>2 DEF TermixInv, TermixCourse, Spares

\* The steps of a Termix run: it wants what NetBox names,
LEMMA TxReadsNetBoxKeeps ==
    ASSUME TermixInv, TxReadsNetBox, UNCHANGED <<obj, addr>>
    PROVE  TermixInv' /\ TermixCourse' /\ Spares
<1>1. Named' = Named /\ WantedHosts' = WantedHosts
  BY WantedStays
<1>2. UNCHANGED <<synced, byHand, creds>> /\ undisturbed' = TRUE /\ tx.at = "idle" /\ tx.todo = <<>>
  BY DEF TxReadsNetBox, TermixInv
<1>3. CASE tx' = tx
  BY <1>2, <1>3 DEF TermixInv, TermixCourse, Spares, Have
<1>4. CASE tx' = [TxResting EXCEPT !.at = "termix", !.wanted = WantedHosts]
  <2>1. /\ tx'.at = "termix" /\ tx'.wanted = WantedHosts /\ tx'.todo = <<>> /\ tx'.held = {} /\ tx'.clash = {}
    BY <1>4 DEF TxResting
  <2>2. tx' = [at |-> tx'.at, wanted |-> tx'.wanted, have |-> tx'.have, held |-> tx'.held, clash |-> tx'.clash, todo |-> tx'.todo]
    BY <1>4 DEF TxResting
  <2>3. tx' \in [at : {"idle", "termix", "write", "verify"}, wanted : {tx'.wanted}, have : {tx'.have},
                 held : SUBSET Objects, clash : SUBSET Objects, todo : {tx'.todo}]
    BY <2>1, <2>2
  <2>4. tx'.wanted \in [Named -> WantedRow] /\ Named \in SUBSET Objects
    BY <2>1, WantedIs
  <2>5. TermixInv'
    BY <1>2, <2>1, <2>3, <2>4 DEF TermixInv
  <2> QED
    BY <1>1, <1>2, <2>1, <2>5 DEF TermixCourse, Spares, Have
<1> QED
  BY <1>3, <1>4 DEF TxReadsNetBox

LEMMA TxRestKeeps ==
    ASSUME TermixInv, tx' = TxResting, UNCHANGED <<synced, byHand, creds, undisturbed>>
    PROVE  TermixInv' /\ TermixCourse' /\ Spares
<1>1. tx'.at = "idle" /\ tx'.todo = <<>>
  BY DEF TxResting
<1>2. tx' \in [at : {"idle", "termix", "write", "verify"}, wanted : {tx'.wanted}, have : {tx'.have},
               held : SUBSET Objects, clash : SUBSET Objects, todo : {tx'.todo}]
  BY DEF TxResting
<1> QED
  BY <1>1, <1>2 DEF TermixInv, TermixCourse, Spares, Have

\* plans from what Termix has,
LEMMA TxReadsTermixKeeps ==
    ASSUME TermixInv, TermixCourse, TxReadsTermix, UNCHANGED <<obj, addr>>
    PROVE  TermixInv' /\ TermixCourse' /\ Spares
<1> DEFINE held == Held(tx.wanted)
           plan == TxPlan(tx.wanted, held)
           sync == (DOMAIN tx.wanted \ held) \ byHand
           differ == {n \in sync \cap Mine : Differs(synced[n], tx.wanted[n])}
<1>1. UNCHANGED <<synced, byHand, creds, undisturbed>> /\ tx.at = "termix"
  BY DEF TxReadsTermix
<1>2. CASE tx' = TxResting
  BY <1>1, <1>2, TxRestKeeps
<1>3. CASE tx' = [tx EXCEPT !.at = "write", !.have = synced, !.held = held, !.clash = byHand, !.todo = plan]
  <2>1. PICK os \in SUBSET Objects : tx.wanted \in [os -> WantedRow]
    BY <1>1 DEF TermixInv
  <2>2. DOMAIN tx.wanted \subseteq Objects /\ held \subseteq DOMAIN tx.wanted
    BY <2>1 DEF Held
  <2>3. Lists(plan, Each("POST", sync \ Mine) \cup Each("PUT", differ) \cup Each("DELETE", Mine \ DOMAIN tx.wanted))
    BY <2>2, TxPlanIs
  <2>4. /\ tx'.at = "write" /\ tx'.have = synced /\ tx'.held = held /\ tx'.clash = byHand /\ tx'.todo = plan
        /\ tx'.wanted = tx.wanted
    BY <1>3 DEF TermixInv
  <2>5. tx' \in [at : {"idle", "termix", "write", "verify"}, wanted : {tx'.wanted}, have : {tx'.have},
                 held : SUBSET Objects, clash : SUBSET Objects, todo : {tx'.todo}]
    <3>1. tx' = [at |-> tx'.at, wanted |-> tx'.wanted, have |-> tx'.have, held |-> tx'.held, clash |-> tx'.clash, todo |-> tx'.todo]
      BY <1>3 DEF TermixInv
    <3>2. tx'.at \in {"idle", "termix", "write", "verify"} /\ tx'.held \in SUBSET Objects /\ tx'.clash \in SUBSET Objects
      BY <2>2, <2>4 DEF TermixInv
    <3> QED
      BY <3>1, <3>2
  <2>6. Each("POST", sync \ Mine) \cup Each("PUT", differ) \cup Each("DELETE", Mine \ DOMAIN tx.wanted) \subseteq TxItems(tx.wanted)
    BY DEF Each, TxItems, Keeping, Mine
  <2>7. /\ plan \in Seq(TxItems(tx.wanted))
        /\ Range(plan) = Each("POST", sync \ Mine) \cup Each("PUT", differ) \cup Each("DELETE", Mine \ DOMAIN tx.wanted)
    BY <2>3, <2>6, ListsWider
  <2>8. \A x \in Range(plan) : \/ x[1] = "POST" /\ x[2] \in sync \ Mine
                               \/ x[1] = "PUT" /\ x[2] \in sync \cap Mine
                               \/ x[1] = "DELETE" /\ x[2] \in Mine \ DOMAIN tx.wanted
    BY <2>7 DEF Each
  <2> HIDE DEF held, plan, sync, differ
  <2>9. TermixInv'
    BY <1>1, <2>1, <2>4, <2>5, <2>7 DEF TermixInv
  <2>10. ASSUME undisturbed PROVE tx.wanted = WantedHosts /\ DOMAIN tx.wanted = Named
    BY <1>1, <2>10, WantedIs DEF TermixCourse
  <2>11. ASSUME undisturbed, NEW x \in Range(plan)
         PROVE  IF x[1] = "DELETE" THEN x[2] \notin Named
                ELSE /\ x[2] \in (Named \ held) \ byHand
                     /\ Have(x[2]) => synced[x[2]].pin = synced[x[2]].pin
    BY <2>8, <2>10, <2>11 DEF sync, Mine
  <2>12. TermixCourse'
    <3>1. Named' = Named /\ WantedHosts' = WantedHosts
      BY WantedStays
    <3>2. ASSUME undisturbed PROVE Held(WantedHosts)' = held
      BY <1>1, <2>10, <3>1, <3>2 DEF Held, held
    <3>3. TxTodo' = Range(plan)
      BY <2>4 DEF TxTodo
    <3> QED
      BY <1>1, <2>4, <2>10, <2>11, <3>1, <3>2, <3>3 DEF TermixCourse, Have
  <2> QED
    BY <1>1, <2>9, <2>12 DEF Spares, Have
<1> QED
  BY <1>2, <1>3 DEF TxReadsTermix

LEMMA TxNext ==
    ASSUME TermixInv, tx.at = "write", tx.todo # <<>>, tx' = [tx EXCEPT !.todo = Tail(@)]
    PROVE  /\ tx'.at = tx.at /\ tx'.wanted = tx.wanted /\ tx'.have = tx.have /\ tx'.held = tx.held /\ tx'.clash = tx.clash
           /\ tx' \in [at : {"idle", "termix", "write", "verify"}, wanted : {tx'.wanted}, have : {tx'.have},
                       held : SUBSET Objects, clash : SUBSET Objects, todo : {tx'.todo}]
           /\ tx'.todo \in Seq(TxItems(tx.wanted)) /\ TxTodo = {Head(tx.todo)} \cup TxTodo'
           /\ Head(tx.todo) \in TxItems(tx.wanted)
<1>1. tx.todo \in Seq(TxItems(tx.wanted))
  BY DEF TermixInv
<1>2. /\ tx'.at = tx.at /\ tx'.wanted = tx.wanted /\ tx'.have = tx.have /\ tx'.held = tx.held /\ tx'.clash = tx.clash
      /\ tx'.todo = Tail(tx.todo)
      /\ tx' \in [at : {"idle", "termix", "write", "verify"}, wanted : {tx'.wanted}, have : {tx'.have},
                  held : SUBSET Objects, clash : SUBSET Objects, todo : {tx'.todo}]
  BY DEF TermixInv
<1>3. /\ Tail(tx.todo) \in Seq(TxItems(tx.wanted)) /\ Range(tx.todo) = {Head(tx.todo)} \cup Range(Tail(tx.todo))
      /\ Head(tx.todo) \in TxItems(tx.wanted)
  BY <1>1, HeadAndTail
<1> QED
  BY <1>2, <1>3 DEF TxTodo

LEMMA TxWriteFailsKeeps ==
    ASSUME TermixInv, TermixCourse, TxWriteFails
    PROVE  TermixInv' /\ TermixCourse' /\ Spares
<1>1. /\ tx.at = "write" /\ tx.todo # <<>> /\ tx' = [tx EXCEPT !.todo = Tail(@)]
      /\ UNCHANGED <<synced, byHand, creds, undisturbed, obj, addr>>
  BY DEF TxWriteFails, tables
<1>2. TermixInv'
  BY <1>1, TxNext DEF TermixInv
<1>3. Named' = Named /\ WantedHosts' = WantedHosts /\ Held(WantedHosts)' = Held(WantedHosts)
  BY <1>1, WantedStays DEF Held
<1>4. TermixCourse'
  BY <1>1, <1>3, TxNext DEF TermixCourse, Have
<1> QED
  BY <1>1, <1>2, <1>4 DEF Spares, Have

LEMMA TxBodyIs ==
    ASSUME TermixInv, tx.at = "write", NEW o \in DOMAIN tx.wanted, NEW r \in BOOLEAN
    PROVE  o \in Objects /\ TxBody(o, r) \in TxHost /\ TxBody(o, r).proto # "absent" /\ TxBody(o, r).pin = tx.have[o].pin
<1>1. PICK os \in SUBSET Objects : tx.wanted \in [os -> WantedRow]
  BY DEF TermixInv
<1>2. o \in Objects /\ tx.wanted[o] \in WantedRow
  BY <1>1
<1>3. tx.have[o] \in TxHost
  BY <1>2 DEF TermixInv
<1>4. /\ tx.wanted[o].proto \in {"ssh", "rdp"} /\ tx.wanted[o].at \in {"name", "ip"} /\ tx.wanted[o].cred \in Credentials
      /\ tx.have[o].pin \in BOOLEAN
  BY <1>2, <1>3 DEF WantedRow, TxHost
<1> QED
  BY <1>2, <1>4 DEF TxBody, TxHost

\* makes, replaces or deletes one host, none made by hand and none held back,
LEMMA TxWritesKeeps ==
    ASSUME TermixInv, TermixCourse, TxWrites, UNCHANGED <<obj, addr>>
    PROVE  TermixInv' /\ TermixCourse' /\ Spares
<1> DEFINE verb == Head(tx.todo)[1]
           o == Head(tx.todo)[2]
<1>1. /\ tx.at = "write" /\ tx.todo # <<>> /\ tx' = [tx EXCEPT !.todo = Tail(@)]
      /\ UNCHANGED <<byHand, creds, undisturbed>>
      /\ synced' = [synced EXCEPT ![o] = CASE verb = "DELETE" -> NoHost
                                             [] verb = "POST" -> TxBody(o, tx.have[o].rdpOn)
                                             [] verb = "PUT" -> TxBody(o, @.rdpOn)]
  BY DEF TxWrites
<1>2. Head(tx.todo) \in TxItems(tx.wanted) /\ Head(tx.todo) \in TxTodo /\ TxTodo' \subseteq TxTodo
  BY <1>1, TxNext
<1>3. \/ verb = "DELETE" /\ o \in Objects
      \/ verb \in {"POST", "PUT"} /\ o \in DOMAIN tx.wanted
  BY <1>2 DEF TxItems, Keeping
<1>4. PICK row \in TxHost :
         /\ synced' = [synced EXCEPT ![o] = row] /\ o \in Objects
         /\ verb = "DELETE" => row.proto = "absent"
         /\ verb # "DELETE" => row.proto # "absent" /\ row.pin = tx.have[o].pin
  <2>1. CASE verb = "DELETE"
    <3>1. synced' = [synced EXCEPT ![o] = NoHost]
      BY <1>1, <2>1
    <3>2. NoHost \in TxHost /\ NoHost.proto = "absent"
      BY DEF NoHost, TxHost, Credentials
    <3> QED
      BY <1>3, <2>1, <3>1, <3>2
  <2>2. CASE verb \in {"POST", "PUT"} /\ o \in DOMAIN tx.wanted
    <3>0. o \in Objects
      BY <1>1, <2>2, TxBodyIs
    <3>1. synced[o].rdpOn \in BOOLEAN /\ tx.have[o].rdpOn \in BOOLEAN
      BY <1>1, <3>0 DEF TermixInv, TxHost
    <3>2. PICK r \in BOOLEAN : synced' = [synced EXCEPT ![o] = TxBody(o, r)]
      <4>1. CASE verb = "POST"
        <5>1. synced' = [synced EXCEPT ![o] = TxBody(o, tx.have[o].rdpOn)]
          BY <1>1, <4>1
        <5> QED
          BY <3>1, <5>1
      <4>2. CASE verb = "PUT"
        <5>1. synced' = [synced EXCEPT ![o] = TxBody(o, synced[o].rdpOn)]
          BY <1>1, <4>2
        <5> QED
          BY <3>1, <5>1
      <4> QED
        BY <2>2, <4>1, <4>2
    <3>3. TxBody(o, r) \in TxHost /\ TxBody(o, r).proto # "absent" /\ TxBody(o, r).pin = tx.have[o].pin
      BY <1>1, <2>2, TxBodyIs
    <3> QED
      BY <2>2, <3>0, <3>2, <3>3
  <2> QED
    BY <1>3, <2>1, <2>2
<1>5. synced' \in [Objects -> TxHost] /\ \A p \in Objects : synced'[p] = IF p = o THEN row ELSE synced[p]
  BY <1>4 DEF TermixInv
<1>6. TermixInv'
  BY <1>1, <1>5, TxNext DEF TermixInv
<1>7. Named' = Named /\ WantedHosts' = WantedHosts /\ Held(WantedHosts)' = Held(WantedHosts) /\ Named \subseteq Objects
  BY <1>1, WantedStays, WantedIs DEF Held
<1>8. TermixCourse'
  <2>1. ASSUME undisturbed, NEW x \in TxTodo', x[1] # "DELETE"
        PROVE  synced'[x[2]].proto # "absent" => synced'[x[2]].pin = tx.have[x[2]].pin
    <3>1. x \in TxTodo /\ x[2] \in Named /\ (Have(x[2]) => synced[x[2]].pin = tx.have[x[2]].pin)
      BY <1>1, <1>2, <2>1 DEF TermixCourse
    <3> QED
      BY <1>4, <1>5, <1>7, <3>1 DEF Have
  <2>2. /\ tx'.at = "write" /\ tx'.wanted = tx.wanted /\ tx'.have = tx.have /\ tx'.held = tx.held /\ tx'.clash = tx.clash
        /\ undisturbed' = undisturbed /\ byHand' = byHand
    BY <1>1, TxNext
  <2>3. ASSUME undisturbed
        PROVE  /\ tx.wanted = WantedHosts /\ tx.held = Held(WantedHosts) /\ tx.clash = byHand
               /\ \A x \in TxTodo : IF x[1] = "DELETE" THEN x[2] \notin Named ELSE x[2] \in (Named \ tx.held) \ tx.clash
    BY <1>1, <2>3 DEF TermixCourse
  <2>4. ASSUME undisturbed, NEW x \in TxTodo'
        PROVE  IF x[1] = "DELETE" THEN x[2] \notin Named'
               ELSE /\ x[2] \in (Named' \ tx'.held) \ tx'.clash
                    /\ synced'[x[2]].proto # "absent" => synced'[x[2]].pin = tx'.have[x[2]].pin
    BY <1>2, <1>7, <2>1, <2>2, <2>3, <2>4
  <2> QED
    BY <1>7, <2>2, <2>3, <2>4 DEF TermixCourse, Have
<1>9. Spares
  <2>1. ASSUME undisturbed
        PROVE  IF verb = "DELETE" THEN o \notin Named
               ELSE /\ o \in Named /\ o \notin Held(WantedHosts) /\ o \notin byHand
                    /\ Have(o) => synced[o].pin = tx.have[o].pin
    BY <1>1, <1>2, <2>1 DEF TermixCourse
  <2>2. \A p \in Named : WantedHosts[p].cred \notin creds => p \in Held(WantedHosts)
    BY WantedIs DEF Held
  <2> QED
    BY <1>4, <1>5, <2>1, <2>2 DEF Spares, Have
<1> QED
  BY <1>6, <1>8, <1>9

\* and turns RDP on for one.
LEMMA TxTurnsRdpOnKeeps ==
    ASSUME TermixInv, TermixCourse, TxTurnsRdpOn, UNCHANGED <<obj, addr>>
    PROVE  TermixInv' /\ TermixCourse' /\ Spares
<1> DEFINE S == SettingsToDo(tx.held, tx.clash)
<1>1. /\ tx.at = "write" /\ tx.todo = <<>> /\ tx' = [tx EXCEPT !.at = "verify"]
      /\ UNCHANGED <<byHand, creds, undisturbed>>
      /\ synced' = [o \in Objects |-> IF o \in S /\ synced[o].proto # "absent" THEN [synced[o] EXCEPT !.rdpOn = TRUE]
                                      ELSE synced[o]]
  BY DEF TxTurnsRdpOn
<1>2. S \subseteq (DOMAIN tx.wanted \ tx.held) \ tx.clash
  BY DEF SettingsToDo
<1> HIDE DEF S
<1>3. ASSUME NEW o \in Objects
      PROVE  /\ synced'[o] \in TxHost /\ synced'[o].proto = synced[o].proto /\ synced'[o].pin = synced[o].pin
             /\ o \notin S => synced'[o] = synced[o]
  <2>1. synced[o] \in TxHost
    BY DEF TermixInv
  <2>2. PICK v \in BOOLEAN : synced'[o] = [synced[o] EXCEPT !.rdpOn = v] /\ (o \notin S => synced'[o] = synced[o])
    <3>1. synced[o] = [synced[o] EXCEPT !.rdpOn = synced[o].rdpOn] /\ synced[o].rdpOn \in BOOLEAN
      BY <2>1 DEF TxHost
    <3> QED
      BY <1>1, <3>1
  <2> QED
    BY <2>1, <2>2 DEF TxHost
<1>4. synced' \in [Objects -> TxHost]
  BY <1>1, <1>3
<1>5. /\ tx'.at = "verify" /\ tx'.wanted = tx.wanted /\ tx'.have = tx.have /\ tx'.held = tx.held /\ tx'.clash = tx.clash
      /\ tx'.todo = tx.todo
      /\ tx' \in [at : {"idle", "termix", "write", "verify"}, wanted : {tx'.wanted}, have : {tx'.have},
                  held : SUBSET Objects, clash : SUBSET Objects, todo : {tx'.todo}]
  BY <1>1 DEF TermixInv
<1>6. TermixInv'
  BY <1>1, <1>4, <1>5 DEF TermixInv
<1>7. Named' = Named /\ WantedHosts' = WantedHosts /\ Held(WantedHosts)' = Held(WantedHosts) /\ Named \subseteq Objects
  BY <1>1, WantedStays, WantedIs DEF Held
<1>8. TermixCourse'
  <2>1. TxTodo' = {}
    BY <1>1, <1>5, NothingInEmpty DEF TxTodo
  <2> QED
    BY <1>1, <1>5, <1>7, <2>1 DEF TermixCourse
<1>9. Spares
  <2>1. ASSUME undisturbed, NEW o \in S PROVE o \notin byHand /\ o \notin Held(WantedHosts)
    BY <1>1, <1>2, <2>1 DEF TermixCourse
  <2>2. \A p \in Named : WantedHosts[p].cred \notin creds => p \in Held(WantedHosts)
    BY WantedIs DEF Held
  <2> QED
    BY <1>3, <2>1, <2>2 DEF Spares, Have
<1> QED
  BY <1>6, <1>8, <1>9

\* No step breaks the Termix job's invariant, nor its promise.
LEMMA TermixKeeps ==
    ASSUME TermixInv, TermixCourse, [Next]_vars
    PROVE  TermixInv' /\ TermixCourse' /\ Spares
<1>1. CASE Seed
  <2>1. CASE tables' = tables /\ UNCHANGED termixVars
    BY <2>1, TermixStays DEF tables
  <2>2. CASE TermixMissed
    BY <2>2, TermixIsTold
  <2> QED
    BY <1>1, <2>1, <2>2 DEF Seed
<1>2. CASE GuestsJob
  <2>1. UNCHANGED <<obj, addr>> /\ UNCHANGED termixVars
    BY <1>2 DEF GuestsJob, netboxVars, tables, GuestsRefused
  <2> QED
    BY <2>1, TermixStays
<1>3. CASE Termix
  <2>1. UNCHANGED <<obj, addr>>
    BY <1>3 DEF Termix, netboxVars, tables, TxWriteFails, TxStops
  <2>2. CASE TxReadsNetBox
    BY <2>1, <2>2, TxReadsNetBoxKeeps
  <2>3. CASE TxReadsTermix
    BY <2>1, <2>3, TxReadsTermixKeeps
  <2>4. CASE TxWrites
    BY <2>1, <2>4, TxWritesKeeps
  <2>5. CASE TxTurnsRdpOn
    BY <2>1, <2>5, TxTurnsRdpOnKeeps
  <2>6. CASE TxReadsBack
    BY <2>6, TxRestKeeps DEF TxReadsBack
  <2>7. CASE TxWriteFails
    BY <2>7, TxWriteFailsKeeps
  <2>8. CASE TxStops
    BY <2>8, TxRestKeeps DEF TxStops
  <2> QED
    BY <1>3, <2>2, <2>3, <2>4, <2>5, <2>6, <2>7, <2>8 DEF Termix, TxRun
<1>4. CASE Sources
  <2>1. UNCHANGED <<obj, addr>> /\ UNCHANGED termixVars
    BY <1>4 DEF Sources, SourcesMove, GuestChanges, NodeChanges, InterfaceGone, InterfaceDown,
                ServiceChanges, ReservationChanges, Move, tables
  <2> QED
    BY <2>1, TermixStays
<1>5. CASE Owner
  BY <1>5, TermixIsTold DEF Owner
<1>6. CASE User
  BY <1>6, UserKeepsTermix DEF User
<1>7. CASE UNCHANGED vars
  BY <1>7, TermixStays DEF vars, netboxVars, tables
<1> QED
  BY <1>1, <1>2, <1>3, <1>4, <1>5, <1>6, <1>7 DEF Next

LEMMA TermixStart == Init => TermixInv /\ TermixCourse
<1> SUFFICES ASSUME Init PROVE TermixInv /\ TermixCourse
  OBVIOUS
<1>1. tx = TxResting /\ undisturbed = FALSE /\ creds = Credentials /\ synced \in StartSynced /\ byHand \in StartByHand
  BY DEF Init, TermixInit
<1>2. synced \in [Objects -> TxHost] /\ byHand \subseteq Objects
  BY <1>1, TermixAssumption
<1>3. tx \in [at : {"idle", "termix", "write", "verify"}, wanted : {tx.wanted}, have : {tx.have},
              held : SUBSET Objects, clash : SUBSET Objects, todo : {tx.todo}]
      /\ tx.at = "idle" /\ tx.todo = <<>>
  BY <1>1 DEF TxResting
<1> QED
  BY <1>1, <1>2, <1>3 DEF TermixInv, TermixCourse

OtherInv == GuestsInv /\ TermixInv /\ TermixCourse

\* What holds whatever happens beside the runs.
LEMMA SafeHolds == Spec => [](SafeInv /\ OtherInv)
<1>1. Init => SafeInv /\ OtherInv
  BY InitIsSafe, GuestsStart, TermixStart DEF OtherInv
<1>2. SafeInv /\ OtherInv /\ [Next]_vars => SafeInv' /\ OtherInv'
  BY NextKeepsSafe, GuestsKeep, TermixKeeps DEF OtherInv, SafeInv
<1> QED
  BY <1>1, <1>2, PTL DEF Spec

LEMMA TxItemsIn ==
    ASSUME TermixInv
    PROVE  tx.todo \in Seq(Verbs \X Objects)
<1>1. CASE tx.at \in {"idle", "termix"}
  BY <1>1, NothingInEmpty DEF TermixInv
<1>2. CASE tx.at \in {"write", "verify"}
  <2>1. PICK os \in SUBSET Objects : tx.wanted \in [os -> WantedRow]
    BY <1>2 DEF TermixInv
  <2>2. TxItems(tx.wanted) \subseteq Verbs \X Objects
    BY <2>1 DEF TxItems, Keeping, Verbs
  <2>3. tx.todo \in Seq(TxItems(tx.wanted))
    BY <1>2 DEF TermixInv
  <2> QED
    BY <2>2, <2>3
<1> QED
  BY <1>1, <1>2 DEF TermixInv

LEMMA SeedItemsIn ==
    ASSUME SeedFits, NEW k \in 1..Len(seed.todo)
    PROVE  LET i == seed.todo[k] IN
             \/ i.act \in {"look", "obj", "old_obj"} /\ i.on \in Objects
             \/ i.act \in {"addr", "old_addr"} /\ i.on \in Addrs
             \/ i.act \in {"iface", "prune"} /\ i.on \in Ifaces
<1> DEFINE Fits(i) == \/ i.act \in {"look", "obj", "old_obj"} /\ i.on \in Objects
                      \/ i.act \in {"addr", "old_addr"} /\ i.on \in Addrs
                      \/ i.act \in {"iface", "prune"} /\ i.on \in Ifaces
<1>1. Pool \subseteq Addrs /\ \A h \in Hosts : AddrOf[h] \in Addrs
  BY NetBoxAssumption
<1>2. \A i \in LbItems \cup InterfaceItems \cup ReservationItems \cup DnsItems : Fits(i)
  BY <1>1 DEF LbItems, InterfaceItems, ReservationItems, DnsItems, Items
<1>3. \A i \in NodeItems : Fits(i)
  BY <1>1 DEF NodeItems, Items, Address, Item, Objects, Hosts
<1>4. \A i \in VmItems : Fits(i)
  BY <1>1 DEF VmItems, Items, Address, Item, Objects, Hosts
<1>5. \A i \in IotItems : Fits(i)
  BY DEF IotItems, Items, Objects
<1> HIDE DEF Fits
<1>6. ASSUME NEW S, seed.todo \in Seq(S), \A i \in S : Fits(i) PROVE Fits(seed.todo[k])
  BY <1>6
<1>7. seed.section \in 1..7 /\ TodoFits
  BY DEF SeedFits, TodoFits
<1>8. Fits(seed.todo[k])
  BY <1>2, <1>3, <1>4, <1>5, <1>6, <1>7 DEF TodoFits
<1> QED
  BY <1>8 DEF Fits

\* Whatever the jobs, the owner, the user and the sources do and whichever call
\* is refused, the tables keep the shape the seed's code relies on and every item
\* a run has still to write is one its section writes.
THEOREM TypesHold == Spec => []TypeOK
<1>1. SafeInv /\ OtherInv => TypeOK
  <2> SUFFICES ASSUME SafeInv, OtherInv PROVE TypeOK
    OBVIOUS
  <2>1. NetBoxTypeOK
    BY DEF SafeInv, TablesInv
  <2>2. SeedTypeOK
    <3>1. seed.section \in 0..7 /\ seed.on \in BOOLEAN /\ (Running => seen \in Live)
          /\ seed.retiring \subseteq Guests /\ seed.record \subseteq Addrs
          /\ quiet \in BOOLEAN /\ settled \in BOOLEAN
      BY DEF SafeInv, SeedFits
    <3> QED
      BY <3>1, SeedItemsIn, Names DEF SeedTypeOK, SafeInv
  <2>3. GuestsTypeOK
    BY DEF OtherInv, GuestsInv, GuestsTypeOK
  <2>4. TermixTypeOK
    <3>1. \A k \in 1..Len(tx.todo) : tx.todo[k] \in Verbs \X Objects
      BY TxItemsIn DEF OtherInv
    <3> QED
      BY <3>1 DEF OtherInv, TermixInv, TermixTypeOK, Verbs
  <2> QED
    BY <2>1, <2>2, <2>3, <2>4 DEF TypeOK
<1> QED
  BY <1>1, SafeHolds, PTL

-----------------------------------------------------------------------------
(* A run nobody disturbs: its sections begin.                              *)

\* What a run makes of a status it would make of it again.
LEMMA SyncTwice ==
    ASSUME NEW have \in Statuses, NEW running \in BOOLEAN
    PROVE  LET f == SyncedStatus(have, running)
               now == Becomes(have, f)
           IN  /\ now \in Statuses \ {"absent"} /\ SyncedStatus(now, running) = f /\ Becomes(now, f) = now
               /\ have # "decommissioning" => now # "decommissioning"
               /\ have \notin SyncStatuses \cup {"absent"} => now = have
<1> DEFINE f == SyncedStatus(have, running)
           now == Becomes(have, f)
<1>1. CASE have \notin SyncStatuses \cup {"absent"} \/ (have = "planned" /\ ~running)
  <2>1. f = <<>> /\ have # "absent"
    BY <1>1 DEF SyncedStatus
  <2>2. "status" \notin DOMAIN f
    BY <2>1
  <2>3. now = have
    BY <2>1, <2>2 DEF Becomes
  <2> HIDE DEF f, now
  <2>4. SyncedStatus(now, running) = f
    BY <2>3 DEF f
  <2>5. Becomes(now, f) = now
    BY <2>3 DEF now
  <2>6. /\ now \in Statuses \ {"absent"} /\ SyncedStatus(now, running) = f /\ Becomes(now, f) = now
        /\ have # "decommissioning" => now # "decommissioning"
        /\ have \notin SyncStatuses \cup {"absent"} => now = have
    BY <2>1, <2>3, <2>4, <2>5
  <2> QED
    BY <2>6 DEF f, now
<1>2. CASE have \in SyncStatuses \cup {"absent"} /\ ~(have = "planned" /\ ~running)
  <2>1. f = [status |-> IF running THEN "active" ELSE "offline"]
    BY <1>2 DEF SyncedStatus
  <2>2. now = IF running THEN "active" ELSE "offline"
    BY <2>1 DEF Becomes
  <2>3. SyncedStatus(now, running) = f
    BY <2>1, <2>2 DEF SyncedStatus, SyncStatuses
  <2>4. Becomes(now, f) = now
    BY <2>1, <2>2 DEF Becomes
  <2> QED
    BY <1>2, <2>2, <2>3, <2>4 DEF Statuses
<1> QED
  BY <1>1, <1>2

\* What each part of NetBox agrees with stays so while nothing changes.
LEMMA RowsStay ==
    ASSUME UNCHANGED <<obj, addr, live>>
    PROVE  /\ \A a : (LbAgrees(a)' <=> LbAgrees(a)) /\ (LeaseAgrees(a)' <=> LeaseAgrees(a))
                     /\ (ThingAddressed(a)' <=> ThingAddressed(a)) /\ (NameAgrees(a)' <=> NameAgrees(a))
                     /\ (Taken(a)' <=> Taken(a)) /\ (Addressed(a)' <=> Addressed(a))
           /\ \A o : (NodeAgrees(o)' <=> NodeAgrees(o)) /\ (GuestAgrees(o)' <=> GuestAgrees(o))
                     /\ (GuestAddressed(o)' <=> GuestAddressed(o)) /\ (ThingGone(o)' <=> ThingGone(o))
                     /\ (ThingAgrees(o)' <=> ThingAgrees(o)) /\ (Kept(o)' <=> Kept(o)) /\ (Reserves(o)' <=> Reserves(o))
<1>1. \A a : (LbAgrees(a)' <=> LbAgrees(a)) /\ (Taken(a)' <=> Taken(a)) /\ (Addressed(a)' <=> Addressed(a))
  BY DEF LbAgrees, Taken, Addressed
<1>2. \A a : (LeaseAgrees(a)' <=> LeaseAgrees(a)) /\ (NameAgrees(a)' <=> NameAgrees(a))
  BY <1>1 DEF LeaseAgrees, NameAgrees
<1>3. \A o : (Kept(o)' <=> Kept(o)) /\ (Reserves(o)' <=> Reserves(o)) /\ (There(o)' <=> There(o))
  BY DEF Kept, Reserves, There
<1>4. \A a : ThingAddressed(a)' <=> ThingAddressed(a)
  BY <1>1, <1>3 DEF ThingAddressed
<1>5. \A o : (NodeAgrees(o)' <=> NodeAgrees(o)) /\ (GuestAgrees(o)' <=> GuestAgrees(o))
  BY <1>3 DEF NodeAgrees, GuestAgrees, Synced
<1>6. \A o : GuestAddressed(o)' <=> GuestAddressed(o)
  BY <1>1 DEF GuestAddressed
<1>7. \A o : (ThingGone(o)' <=> ThingGone(o)) /\ (ThingAgrees(o)' <=> ThingAgrees(o))
  BY <1>3 DEF ThingGone, ThingAgrees, OwnThings
<1> QED
  BY <1>1, <1>2, <1>3, <1>4, <1>5, <1>6, <1>7

\* The parts stay while the tables and the sources do.
LEMMA PartsStay ==
    ASSUME UNCHANGED <<obj, addr, ifaces, live>>
    PROVE  /\ LbsAgree' <=> LbsAgree
           /\ NodesFit' <=> NodesFit
           /\ IfacesThere' <=> IfacesThere
           /\ IfacesNeeded' <=> IfacesNeeded
           /\ GuestsFit' <=> GuestsFit
           /\ LeasesAgree' <=> LeasesAgree
           /\ ThingsFit' <=> ThingsFit
           /\ NamesFit' <=> NamesFit
           /\ Agreed' <=> Agreed
<1>1. (LbsAgree' <=> LbsAgree) /\ (LeasesAgree' <=> LeasesAgree) /\ (NamesFit' <=> NamesFit)
  BY RowsStay DEF LbsAgree, LeasesAgree, NamesFit
<1>2. (NodesFit' <=> NodesFit) /\ (GuestsFit' <=> GuestsFit)
  BY RowsStay DEF NodesFit, GuestsFit
<1>3. ThingsFit' <=> ThingsFit
  BY RowsStay DEF ThingsFit
<1>4. (IfacesThere' <=> IfacesThere) /\ (IfacesNeeded' <=> IfacesNeeded)
  BY DEF IfacesThere, IfacesNeeded, Needed, Closed
<1> QED
  BY <1>1, <1>2, <1>3, <1>4 DEF Agreed

\* A section with nothing left to do has left its part as it should be.
LEMMA SectionDone ==
    ASSUME SeedFits, OnCourse, seed.todo = <<>>
    PROVE  /\ Todo = {}
           /\ seed.section >= 1 => LbsAgree
           /\ seed.section >= 2 => NodesFit /\ IfacesThere
           /\ seed.section >= 3 => IfacesNeeded
           /\ seed.section >= 4 => GuestsFit
           /\ seed.section >= 5 => LeasesAgree
           /\ seed.section >= 6 => ThingsFit
           /\ seed.section >= 7 => NamesFit
<1>1. Todo = {}
  BY NothingInEmpty DEF Todo
<1>2. (\A act, on : ~ToWrite(act, on)) /\ (\A o : ~Looked(o)) /\ Removing = {}
  BY <1>1 DEF ToWrite, Looked, Removing
<1>3. Covered /\ Finished /\ seed.section \in 0..7
  BY DEF OnCourse, SeedFits
<1>4. seed.section = 1 => LbsAgree
  BY <1>2, <1>3 DEF Covered, LbsCovered, LbsAgree
<1>5. seed.section = 2 => NodesFit /\ IfacesThere
  BY <1>2, <1>3 DEF Covered, NodesCovered, IfacesCovered, NodesFit, IfacesThere
<1>6. seed.section = 3 => IfacesNeeded
  <2>1. ifaces \ Removing = ifaces
    BY <1>2
  <2> QED
    BY <1>3, <2>1 DEF Covered, PruneCovered, IfacesNeeded
<1>7. seed.section = 4 => GuestsFit
  BY <1>2, <1>3 DEF Covered, GuestsCovered, GuestsFit
<1>8. seed.section = 5 => LeasesAgree
  BY <1>2, <1>3 DEF Covered, LeasesCovered, LeasesAgree
<1>9. seed.section = 6 => ThingsFit
  BY <1>2, <1>3 DEF Covered, ThingsCovered, ThingsFit
<1>10. seed.section = 7 => NamesFit
  BY <1>2, <1>3 DEF Covered, NamesCovered, NamesFit
<1> QED
  BY <1>1, <1>3, <1>4, <1>5, <1>6, <1>7, <1>8, <1>9, <1>10 DEF Finished

LEMMA AllHas ==
    ASSUME NEW act, NEW ons, NEW set, NEW o \in ons
    PROVE  Item(act, o, set) \in All(act, ons, set) /\ Item(act, o, set).act = act /\ Item(act, o, set).on = o
           /\ Item(act, o, set).set = set
  BY DEF All, Item

\* What a plan's items do is planned for what is not yet as it should be.
LEMMA ListsToWrite ==
    ASSUME NEW act, NEW ons, NEW set, All(act, ons, set) \subseteq Todo', NEW o \in ons
    PROVE  ToWrite(act, o)' /\ (act = "look" /\ set = <<>> => Looked(o)')
<1>1. Item(act, o, set) \in Todo' /\ Item(act, o, set).act = act /\ Item(act, o, set).on = o
  BY AllHas
<1> QED
  BY <1>1 DEF ToWrite, Looked

\* When a section begins, what it does not list is already so.
LEMMA LbsBegin ==
    ASSUME TablesInv, SeedFits, SeedLists, seen = live, seed.section = 0
    PROVE  /\ \A i \in Todo' : MeantLb(i)'
           /\ LbsCovered'
<1>1. Todo' = All("old_addr", StaleVips(live), Deprecated) \cup All("addr", live.lb, LbFields)
  BY Begins, LbPlanIs DEF Todo
<1>2. UNCHANGED <<obj, addr, ifaces, live>>
  BY Begins
<1>3. ASSUME NEW i \in Todo' PROVE MeantLb(i)'
  <2>1. CASE i \in All("old_addr", StaleVips(live), Deprecated)
    <3>1. i.act = "old_addr" /\ i.on \in StaleVips(live)
      BY <2>1, InAll
    <3> QED
      BY <1>2, <3>1 DEF MeantLb, StaleVips
  <2>2. CASE i \in All("addr", live.lb, LbFields)
    <3>1. i.act = "addr" /\ i.on \in live.lb
      BY <2>2, InAll
    <3> QED
      BY <1>2, <3>1 DEF MeantLb
  <2> QED
    BY <1>1, <1>3, <2>1, <2>2
<1>4. ASSUME NEW a \in Addrs PROVE LbAgrees(a)' \/ ToWrite("addr", a)' \/ ToWrite("old_addr", a)'
  <2>1. a \in live.lb => ToWrite("addr", a)'
    BY <1>1, ListsToWrite
  <2>2. a \in StaleVips(live) => ToWrite("old_addr", a)'
    BY <1>1, ListsToWrite
  <2>3. a \notin live.lb /\ a \notin StaleVips(live) => LbAgrees(a)
    BY AddressIs DEF StaleVips, LbAgrees, TidyRow
  <2> QED
    BY <1>2, <2>1, <2>2, <2>3, RowsStay
<1> QED
  BY <1>3, <1>4 DEF LbsCovered

LEMMA NodesBegin ==
    ASSUME TablesInv, SeedFits, SeedLists, seed.section = 1
    PROVE  /\ \A i \in Todo' : MeantNode(i)'
           /\ NodesCovered' /\ IfacesCovered'
<1>1. Todo' = All("look", Nodes, <<>>)
  BY Begins, LooksFit DEF Todo
<1>2. \A n \in Nodes : Looked(n)'
  BY <1>1, ListsToWrite
<1>3. \A i \in Todo' : i.act = "look"
  BY <1>1, InAll
<1>4. \A i \in Todo' : MeantNode(i)'
  BY <1>3 DEF MeantNode
<1>5. NodesCovered'
  BY <1>2 DEF NodesCovered
<1>6. IfacesCovered'
  <2>1. live' = live /\ live \in Live
    BY Begins DEF TablesInv, NetBoxTypeOK
  <2>2. \A i \in live.up : NodeOf[i] \in Nodes
    BY <2>1, Finite, NetBoxAssumption
  <2> QED
    BY <1>2, <2>1, <2>2 DEF IfacesCovered
<1> QED
  BY <1>4, <1>5, <1>6

LEMMA PruneBegins ==
    ASSUME TablesInv, SeedFits, SeedLists, seen = live, seed.section = 2
    PROVE  PruneCovered' /\ Pruning'
<1>0. ifaces \subseteq Ifaces
  BY DEF TablesInv, NetBoxTypeOK
<1>1. Todo' = All("prune", Doomed(live), <<>>) /\ InOrder(seed'.todo)
  BY <1>0, Begins, InterfacePlanIs DEF Todo
<1>2. UNCHANGED <<obj, addr, ifaces, live>>
  BY Begins
<1>3. Doomed(live) \subseteq ifaces
  BY DEF Doomed
<1>4. Removing' = Doomed(live)
  <2>1. ASSUME NEW i \in Ifaces, Item("prune", i, <<>>) \in All("prune", Doomed(live), <<>>) PROVE i \in Doomed(live)
    BY <2>1, InAll DEF Item
  <2>2. ASSUME NEW i \in Doomed(live) PROVE Item("prune", i, <<>>) \in Todo'
    BY <1>1, AllHas
  <2> QED
    BY <1>0, <1>1, <1>3, <2>1, <2>2 DEF Removing
<1> DEFINE kept == KeptInterfaces(ifaces, live.ifaces)
<1>5. kept \subseteq ifaces /\ ifaces \cap (live.ifaces \cup Pinned) \subseteq kept /\ Closed(kept, ifaces) /\ Needed(kept)
  BY KeptIs, KeptIsNeeded
<1>6. Doomed(live) = IF Prune THEN ifaces \ kept ELSE {}
  BY DEF Doomed
<1> HIDE DEF kept
<1>7. Prune => ifaces \ Doomed(live) = kept
  BY <1>5, <1>6
<1>8. Doomed(live) \cap (live.ifaces \cup Pinned) = {}
  BY <1>5, <1>6
<1>9. Closed(ifaces \ Doomed(live), ifaces)
  BY <1>5, <1>6, <1>7 DEF Closed
<1>10. PruneCovered'
  <2>1. Prune => Needed(ifaces \ Doomed(live))
    BY <1>5, <1>7
  <2>3. ifaces' \ Removing' = ifaces \ Doomed(live)
    BY <1>2, <1>4
  <2> QED
    BY <1>2, <2>1, <2>3 DEF PruneCovered, Needed, Closed
<1>11. Pruning'
  BY <1>1, <1>2, <1>4, <1>8, <1>9 DEF Pruning, InOrder, Closed
<1> QED
  BY <1>10, <1>11

LEMMA GuestsBegin ==
    ASSUME SeedFits, SeedLists, seen = live, seed.section = 3
    PROVE  /\ \A i \in Todo' : MeantVm(i)'
           /\ GuestsCovered'
<1>1. Todo' = All("look", ToSee(live, Retiring), <<>>)
  BY Begins, LooksFit DEF Todo
<1>2. UNCHANGED <<obj, addr, ifaces, live>>
  BY Begins
<1>3. ASSUME NEW i \in Todo' PROVE MeantVm(i)'
  <2>1. i.act = "look" /\ i.on \in ToSee(live, Retiring)
    BY <1>1, <1>3, InAll
  <2> QED
    BY <1>2, <2>1 DEF MeantVm, Whose, ToSee, Retiring
<1>4. ASSUME NEW g \in Guests PROVE (GuestAgrees(g)' /\ GuestAddressed(g)') \/ Looked(g)'
  <2>1. CASE g \in ToSee(live, Retiring)
    BY <1>1, <2>1, ListsToWrite
  <2>2. CASE g \notin ToSee(live, Retiring)
    <3>1. live.guest[g] = "gone" \/ obj[g].status = "decommissioning"
      BY <2>2 DEF ToSee, Retiring
    <3> QED
      BY <1>2, <3>1 DEF GuestAgrees, GuestAddressed
  <2> QED
    BY <2>1, <2>2
<1> QED
  BY <1>3, <1>4 DEF GuestsCovered

LEMMA LeasesBegin ==
    ASSUME TablesInv, SeedFits, SeedLists, seen = live, seed.section = 4
    PROVE  /\ \A i \in Todo' : MeantLease(i)'
           /\ LeasesCovered' /\ RecordKept'
<1>1. /\ Todo' = All("old_addr", Stale(live), Deprecated) \cup All("addr", Free(live), Reserved)
      /\ seed'.record = Free(live)
  BY Begins, ReservationPlanIs DEF Todo
<1>2. UNCHANGED <<obj, addr, ifaces, live>>
  BY Begins
<1>3. ASSUME NEW i \in Todo' PROVE MeantLease(i)'
  <2>1. CASE i \in All("old_addr", Stale(live), Deprecated)
    <3>1. i.act = "old_addr" /\ i.on \in Stale(live)
      BY <2>1, InAll
    <3> QED
      BY <1>2, <3>1, RowsStay DEF MeantLease, Stale
  <2>2. CASE i \in All("addr", Free(live), Reserved)
    <3>1. i.act = "addr" /\ i.on \in Free(live)
      BY <2>2, InAll
    <3> QED
      BY <1>2, <3>1, RowsStay DEF MeantLease, Free
  <2> QED
    BY <1>1, <1>3, <2>1, <2>2
<1>4. ASSUME NEW a \in Addrs PROVE LeaseAgrees(a)' \/ ToWrite("old_addr", a)' \/ ToWrite("addr", a)'
  <2>1. a \in Free(live) => ToWrite("addr", a)'
    BY <1>1, ListsToWrite
  <2>2. a \in Stale(live) => ToWrite("old_addr", a)'
    BY <1>1, ListsToWrite
  <2>3. a \notin Free(live) /\ a \notin Stale(live) => LeaseAgrees(a)
    BY DEF Stale, Free, LeaseAgrees
  <2> QED
    BY <1>2, <2>1, <2>2, <2>3, RowsStay
<1>5. RecordKept'
  BY <1>1, <1>2, RowsStay DEF RecordKept, Free
<1> QED
  BY <1>3, <1>4, <1>5 DEF LeasesCovered

LEMMA ThingsBegin ==
    ASSUME SeedFits, SeedLists, seen = live, seed.section = 5
    PROVE  /\ \A i \in Todo' : MeantThing(i)'
           /\ ThingsCovered'
<1>1. Todo' = All("old_obj", Unreserved(live), Offline) \cup All("look", ReservedIn(live), <<>>)
  BY Begins, IotPlanIs DEF Todo
<1>2. UNCHANGED <<obj, addr, ifaces, live>>
  BY Begins
<1>3. \A t \in Things : t \in ReservedIn(live) <=> Reserves(t)
  BY DEF ReservedIn, Reserves
<1>4. ASSUME NEW i \in Todo' PROVE MeantThing(i)'
  <2>1. CASE i \in All("old_obj", Unreserved(live), Offline)
    <3>1. i.act = "old_obj" /\ i.on \in Unreserved(live)
      BY <2>1, InAll
    <3>2. i.on \in OwnThings /\ ~Reserves(i.on) /\ obj[i.on].status # "decommissioning"
      BY <1>3, <3>1 DEF Unreserved, OwnThings
    <3> QED
      BY <1>2, <3>1, <3>2, RowsStay DEF MeantThing, OwnThings, There
  <2>2. CASE i \in All("look", ReservedIn(live), <<>>)
    <3>1. i.act = "look" /\ i.on \in ReservedIn(live)
      BY <2>2, InAll
    <3>2. Reserves(i.on)
      BY <1>3, <3>1 DEF ReservedIn
    <3> QED
      BY <1>2, <3>1, <3>2, RowsStay DEF MeantThing, Whose
  <2> QED
    BY <1>1, <1>4, <2>1, <2>2
<1>5. \A t \in Things : Reserves(t) => Looked(t)'
  BY <1>1, <1>3, ListsToWrite
<1>6. ASSUME NEW t \in Things PROVE ThingGone(t)' \/ ToWrite("old_obj", t)'
  <2>1. t \in Unreserved(live) => ToWrite("old_obj", t)'
    BY <1>1, ListsToWrite
  <2>2. t \notin Unreserved(live) => ThingGone(t)
    BY <1>3 DEF Unreserved, ThingGone
  <2> QED
    BY <1>2, <2>1, <2>2, RowsStay
<1>7. ASSUME NEW t \in Things PROVE ThingAgrees(t)' \/ Looked(t)'
  <2>1. ~Reserves(t) => ThingAgrees(t)
    BY DEF ThingAgrees
  <2> QED
    BY <1>2, <1>5, <2>1, RowsStay
<1>8. ASSUME NEW a \in Addrs PROVE ThingAddressed(a)' \/ Looked(live.lease[a])'
  <2>1. live.lease[a] \notin Things => ThingAddressed(a)
    BY DEF ThingAddressed
  <2>2. live.lease[a] \in Things => Reserves(live.lease[a])
    BY DEF Reserves
  <2> QED
    BY <1>2, <1>5, <2>1, <2>2, RowsStay
<1> QED
  BY <1>2, <1>4, <1>6, <1>7, <1>8 DEF ThingsCovered, Looked

LEMMA NamesBegin ==
    ASSUME TablesInv, SeedFits, SeedLists, seed.section = 6
    PROVE  /\ \A i \in Todo' : MeantName(i)'
           /\ NamesCovered'
<1>1. Todo' = All("old_addr", ToName, NameSet) \cup All("old_addr", ToUnname, NameTaken)
  BY Begins, DnsPlanIs DEF Todo
<1>2. UNCHANGED <<obj, addr, ifaces, live>>
  BY Begins
<1>3. ASSUME NEW i \in Todo' PROVE MeantName(i)'
  <2>1. CASE i \in All("old_addr", ToName, NameSet)
    <3>1. i.on \in ToName /\ i.set = NameSet
      BY <2>1, InAll
    <3> QED
      BY <1>2, <3>1 DEF MeantName, ToName, Ours, NameSet
  <2>2. CASE i \in All("old_addr", ToUnname, NameTaken)
    <3>1. i.on \in ToUnname /\ i.set = NameTaken
      BY <2>2, InAll
    <3> QED
      BY <1>2, <3>1 DEF MeantName, ToUnname, Ours, NameTaken
  <2> QED
    BY <1>1, <1>3, <2>1, <2>2
<1>4. ASSUME NEW a \in Addrs PROVE NameAgrees(a)' \/ ToWrite("old_addr", a)'
  <2>1. a \in ToName \cup ToUnname => ToWrite("old_addr", a)'
    BY <1>1, ListsToWrite
  <2>2. a \notin ToName \cup ToUnname => NameAgrees(a)
    BY DEF ToName, ToUnname, Ours, NameAgrees
  <2> QED
    BY <1>2, <2>1, <2>2, RowsStay
<1> QED
  BY <1>3, <1>4 DEF NamesCovered

\* A section begins: each item is meant, and what does not agree is listed.
LEMMA ListsOnCourse ==
    ASSUME TablesInv, SeedFits, OnCourse, SeedLists
    PROVE  OnCourse'
<1>0. /\ seen = live /\ seed.todo = <<>> /\ seed.section \in 0..6 /\ seed'.section = seed.section + 1
      /\ UNCHANGED <<obj, addr, ifaces, live>>
      /\ seed'.seen = seed.seen
  BY Begins DEF OnCourse
<1>1. seen' = live'
  BY <1>0 DEF seen
<1>2. Finished'
  <2>1. /\ seed.section >= 1 => LbsAgree'
        /\ seed.section >= 2 => NodesFit' /\ IfacesThere'
        /\ seed.section >= 3 => IfacesNeeded'
        /\ seed.section >= 4 => GuestsFit'
        /\ seed.section >= 5 => LeasesAgree'
        /\ seed.section >= 6 => ThingsFit'
    BY <1>0, SectionDone, PartsStay
  <2> QED
    BY <1>0, <2>1 DEF Finished
<1>3. RecordKept'
  <2>1. CASE seed.section = 4
    BY <1>0, <2>1, LeasesBegin
  <2>2. CASE seed.section \in {5, 6}
    <3>1. seed'.record = seed.record
      BY <2>2, Begins
    <3>2. seed.record = {a \in Addrs : live.lease[a] # Nobody /\ ~Taken(a)}
      BY <2>2 DEF OnCourse, RecordKept
    <3> QED
      BY <1>0, <3>1, <3>2, RowsStay DEF RecordKept
  <2>3. CASE seed.section < 4
    BY <1>0, <2>3 DEF RecordKept
  <2> QED
    BY <1>0, <2>1, <2>2, <2>3
<1>4. Meant' /\ Covered' /\ Pruning'
  <2>1. CASE seed.section = 0
    BY <1>0, <2>1, LbsBegin DEF Meant, Covered, Pruning
  <2>2. CASE seed.section = 1
    BY <1>0, <2>2, NodesBegin DEF Meant, Covered, Pruning
  <2>3. CASE seed.section = 2
    BY <1>0, <2>3, PruneBegins DEF Meant, Covered
  <2>4. CASE seed.section = 3
    BY <1>0, <2>4, GuestsBegin DEF Meant, Covered, Pruning
  <2>5. CASE seed.section = 4
    BY <1>0, <2>5, LeasesBegin DEF Meant, Covered, Pruning
  <2>6. CASE seed.section = 5
    BY <1>0, <2>6, ThingsBegin DEF Meant, Covered, Pruning
  <2>7. CASE seed.section = 6
    BY <1>0, <2>7, NamesBegin DEF Meant, Covered, Pruning
  <2> QED
    BY <1>0, <2>1, <2>2, <2>3, <2>4, <2>5, <2>6, <2>7
<1> QED
  BY <1>1, <1>2, <1>3, <1>4 DEF OnCourse

-----------------------------------------------------------------------------
(* An object is looked at.                                                 *)

\* What was covered by an item other than the look still is.
LEMMA StillToDo ==
    ASSUME NEW rest, NEW o, Todo = {Item("look", o, <<>>)} \cup rest, rest \subseteq Todo'
    PROVE  /\ \A act, on : act # "look" /\ ToWrite(act, on) => ToWrite(act, on)'
           /\ \A p : p # o /\ Looked(p) => Looked(p)'
<1>1. ASSUME NEW act, NEW on, act # "look", ToWrite(act, on) PROVE ToWrite(act, on)'
  <2>1. PICK i \in Todo : i.act = act /\ i.on = on
    BY <1>1 DEF ToWrite
  <2>2. i # Item("look", o, <<>>)
    BY <1>1, <2>1 DEF Item
  <2> QED
    BY <2>1, <2>2 DEF ToWrite
<1>2. ASSUME NEW p, p # o, Looked(p) PROVE Looked(p)'
  <2>1. Item("look", p, <<>>) \in Todo /\ Item("look", p, <<>>) # Item("look", o, <<>>)
    BY <1>2 DEF Looked, Item
  <2> QED
    BY <2>1 DEF Looked
<1> QED
  BY <1>1, <1>2

LEMMA ItemIs == \A act, on, set : Item(act, on, set).act = act /\ Item(act, on, set).on = on /\ Item(act, on, set).set = set
  BY DEF Item

LEMMA AddressHas == \A h : Address(h).act = "addr" /\ Address(h).on = AddrOf[h] /\ Address(h).set.on = h
  BY DEF Address, Item

\* An object is looked up: what it is not is now to be written.
LEMMA NodeLooked ==
    ASSUME TablesInv, SeedFits, OnCourse, SeedLooks, NEW o, o = Head(seed.todo).on, seed.section = 2
    PROVE  /\ \A i \in Todo' : MeantNode(i)'
           /\ NodesCovered' /\ IfacesCovered'
<1> DEFINE rest == Range(Tail(seed.todo))
<1>0. /\ o \in Nodes /\ Head(seed.todo) = Item("look", o, <<>>) /\ seen = live /\ Running
      /\ UNCHANGED <<obj, addr, ifaces, live>>
  BY LookIs, NextItem DEF OnCourse
<1>1. /\ Todo = {Item("look", o, <<>>)} \cup rest
      /\ Todo' = {Item("obj", o, SyncedStatus(obj[o].status, o \in live.online)), Address(o)}
                    \cup All("iface", UpOn(live, o), <<>>) \cup rest
  BY <1>0, LookIs, NodeWritesAre
<1> HIDE DEF rest
<1>2. ToWrite("obj", o)' /\ ToWrite("addr", AddrOf[o])'
  <2>1. Item("obj", o, SyncedStatus(obj[o].status, o \in live.online)) \in Todo' /\ Address(o) \in Todo'
    BY <1>1
  <2> QED
    BY <2>1, ItemIs, AddressHas DEF ToWrite
<1>3. \A j \in UpOn(live, o) : ToWrite("iface", j)'
  BY <1>1, ListsToWrite
<1>4. /\ \A act, on : act # "look" /\ ToWrite(act, on) => ToWrite(act, on)'
      /\ \A p : p # o /\ Looked(p) => Looked(p)'
  BY <1>1, StillToDo
<1>5. ASSUME NEW i \in Todo' PROVE MeantNode(i)'
  <2>1. CASE i \in rest
    <3>1. MeantNode(i)
      BY <1>1, <2>1 DEF OnCourse, Meant
    <3> QED
      BY <1>0, <3>1 DEF MeantNode
  <2>2. CASE i \in All("iface", UpOn(live, o), <<>>)
    BY <2>2, InAll DEF MeantNode
  <2>3. CASE i = Address(o)
    BY <2>3 DEF MeantNode, Address, Item
  <2>4. CASE i = Item("obj", o, SyncedStatus(obj[o].status, o \in live.online))
    BY <1>0, <2>4 DEF MeantNode, Item
  <2> QED
    BY <1>1, <1>5, <2>1, <2>2, <2>3, <2>4
<1>6. NodesCovered /\ IfacesCovered
  BY DEF OnCourse, Covered
<1>7. NodesCovered'
  <2>1. ASSUME NEW n \in Nodes
        PROVE  /\ NodeAgrees(n)' \/ Looked(n)' \/ ToWrite("obj", n)'
               /\ Addressed(n)' \/ Looked(n)' \/ ToWrite("addr", AddrOf[n])'
    <3>1. (NodeAgrees(n)' <=> NodeAgrees(n)) /\ (Addressed(n)' <=> Addressed(n))
      BY <1>0, RowsStay
    <3>2. /\ NodeAgrees(n) \/ Looked(n) \/ ToWrite("obj", n)
          /\ Addressed(n) \/ Looked(n) \/ ToWrite("addr", AddrOf[n])
      BY <1>6 DEF NodesCovered
    <3>3. (ToWrite("obj", n) => ToWrite("obj", n)') /\ (ToWrite("addr", AddrOf[n]) => ToWrite("addr", AddrOf[n])')
      BY <1>4
    <3>4. n # o /\ Looked(n) => Looked(n)'
      BY <1>4
    <3> QED
      BY <1>2, <3>1, <3>2, <3>3, <3>4 DEF ToWrite
  <2> QED
    BY <2>1 DEF NodesCovered
<1>8. IfacesCovered'
  <2>1. ASSUME NEW j \in live.up PROVE j \in ifaces \/ ToWrite("iface", j)' \/ Looked(NodeOf[j])'
    <3>1. CASE NodeOf[j] = o
      BY <1>3, <3>1 DEF UpOn
    <3>2. CASE NodeOf[j] # o
      BY <1>4, <1>6, <3>2 DEF IfacesCovered
    <3> QED
      BY <3>1, <3>2
  <2> QED
    BY <1>0, <2>1 DEF IfacesCovered
<1> QED
  BY <1>5, <1>7, <1>8

LEMMA GuestLooked ==
    ASSUME TablesInv, SeedFits, OnCourse, SeedLooks, NEW o, o = Head(seed.todo).on, seed.section = 4
    PROVE  /\ \A i \in Todo' : MeantVm(i)'
           /\ GuestsCovered'
<1> DEFINE rest == Range(Tail(seed.todo))
           x == Item("obj", o, VmFields(SyncedStatus(obj[o].status, live.guest[o] = "running"), obj[o].role))
<1>0. /\ o \in Guests /\ Head(seed.todo) = Item("look", o, <<>>) /\ seen = live
      /\ UNCHANGED <<obj, addr, ifaces, live>> /\ Head(seed.todo) \in Todo
  BY LookIs, NextItem DEF OnCourse
<1>1. Todo = {Item("look", o, <<>>)} \cup rest /\ Todo' = {x, Address(o)} \cup rest
  BY <1>0, LookIs, VmWritesAre
<1> HIDE DEF rest
<1>2. ToWrite("obj", o)' /\ ToWrite("addr", AddrOf[o])'
  <2>1. x \in Todo' /\ Address(o) \in Todo'
    BY <1>1
  <2> QED
    BY <2>1, ItemIs, AddressHas DEF ToWrite
<1>3. /\ \A act, on : act # "look" /\ ToWrite(act, on) => ToWrite(act, on)'
      /\ \A p : p # o /\ Looked(p) => Looked(p)'
  BY <1>1, StillToDo
<1>4. live.guest[o] # "gone" /\ obj[o].status # "decommissioning"
  BY <1>0 DEF OnCourse, Meant, MeantVm, Whose, Item
<1>5. ASSUME NEW i \in Todo' PROVE MeantVm(i)'
  <2>1. CASE i \in rest
    <3>1. MeantVm(i)
      BY <1>1, <2>1 DEF OnCourse, Meant
    <3> QED
      BY <1>0, <3>1 DEF MeantVm, Whose
  <2>2. CASE i = Address(o)
    BY <1>0, <1>4, <2>2 DEF MeantVm, Address, Item, Whose
  <2>3. CASE i = x
    BY <1>0, <1>4, <2>3 DEF MeantVm, Item, Whose
  <2> QED
    BY <1>1, <1>5, <2>1, <2>2, <2>3
<1>6. GuestsCovered
  BY DEF OnCourse, Covered
<1>7. GuestsCovered'
  <2>1. ASSUME NEW g \in Guests
        PROVE  /\ GuestAgrees(g)' \/ Looked(g)' \/ ToWrite("obj", g)'
               /\ GuestAddressed(g)' \/ Looked(g)' \/ ToWrite("addr", AddrOf[g])'
    <3>1. (GuestAgrees(g)' <=> GuestAgrees(g)) /\ (GuestAddressed(g)' <=> GuestAddressed(g))
      BY <1>0, RowsStay
    <3>2. /\ GuestAgrees(g) \/ Looked(g) \/ ToWrite("obj", g)
          /\ GuestAddressed(g) \/ Looked(g) \/ ToWrite("addr", AddrOf[g])
      BY <1>6 DEF GuestsCovered
    <3>3. (ToWrite("obj", g) => ToWrite("obj", g)') /\ (ToWrite("addr", AddrOf[g]) => ToWrite("addr", AddrOf[g])')
      BY <1>3
    <3>4. g # o /\ Looked(g) => Looked(g)'
      BY <1>3
    <3> QED
      BY <1>2, <3>1, <3>2, <3>3, <3>4 DEF ToWrite
  <2> QED
    BY <2>1 DEF GuestsCovered
<1> QED
  BY <1>5, <1>7

LEMMA ThingLooked ==
    ASSUME TablesInv, SeedFits, OnCourse, SeedLooks, NEW o, o = Head(seed.todo).on, seed.section = 6
    PROVE  /\ \A i \in Todo' : MeantThing(i)'
           /\ ThingsCovered'
<1> DEFINE rest == Range(Tail(seed.todo))
           x == Item("obj", o, ThingFields(There(o)))
           xs == All("addr", LeasesOf(o), ReservedFor(o))
<1>0. /\ o \in Things /\ Head(seed.todo) = Item("look", o, <<>>) /\ seen = live
      /\ UNCHANGED <<obj, addr, ifaces, live>> /\ Head(seed.todo) \in Todo /\ seed'.record = seed.record
  BY LookIs, NextItem DEF OnCourse
<1>1. /\ Todo = {Item("look", o, <<>>)} \cup rest
      /\ Kept(o) => Todo' = rest
      /\ ~Kept(o) => Todo' = {x} \cup xs \cup rest
  <2>1. /\ Todo = {Item("look", o, <<>>)} \cup rest
        /\ Todo' = Range(ThingWrites(o)) \cup rest
    BY <1>0, LookIs
  <2>2. /\ Kept(o) => Range(ThingWrites(o)) = {}
        /\ ~Kept(o) => Range(ThingWrites(o)) = {x} \cup xs
    BY <1>0, ThingWritesAre
  <2> QED
    BY <2>1, <2>2
<1> HIDE DEF rest, x, xs
<1>2. /\ \A act, on : act # "look" /\ ToWrite(act, on) => ToWrite(act, on)'
      /\ \A p : p # o /\ Looked(p) => Looked(p)'
  BY <1>1, StillToDo
<1>3. Reserves(o)
  BY <1>0 DEF OnCourse, Meant, MeantThing, Whose, Item
<1>4. ~Kept(o) => ToWrite("obj", o)'
  <2>1. x.act = "obj" /\ x.on = o
    BY DEF x, Item
  <2> QED
    BY <1>1, <2>1 DEF ToWrite
<1>5. ~Kept(o) => \A a \in LeasesOf(o) : ToWrite("addr", a)'
  BY <1>1, ListsToWrite DEF xs
<1>6. ASSUME NEW i \in Todo' PROVE MeantThing(i)'
  <2>1. CASE i \in rest
    <3>1. MeantThing(i)
      BY <1>1, <2>1 DEF OnCourse, Meant
    <3> QED
      BY <1>0, <3>1, RowsStay DEF MeantThing, Whose, OwnThings, There
  <2>2. CASE ~Kept(o) /\ i = x
    BY <1>0, <1>3, <2>2, RowsStay DEF MeantThing, Item, Whose, x
  <2>3. CASE ~Kept(o) /\ i \in xs
    <3>1. i.act = "addr" /\ i.on \in LeasesOf(o) /\ i.set = ReservedFor(o)
      BY <2>3, InAll DEF xs
    <3>2. i.set.on = o /\ i.on \in seed.record /\ live.lease[i.on] = o
      BY <1>0, <3>1 DEF ReservedFor, LeasesOf
    <3> QED
      BY <1>0, <1>3, <2>3, <3>1, <3>2, RowsStay DEF MeantThing, Whose
  <2> QED
    BY <1>1, <1>6, <2>1, <2>2, <2>3
<1>7. ThingsCovered
  BY DEF OnCourse, Covered
<1>8. ASSUME NEW t \in Things PROVE ThingAgrees(t) \/ Looked(t)' \/ ToWrite("obj", t)'
  <2>1. t = o /\ Kept(o) => ThingAgrees(t)
    BY DEF ThingAgrees
  <2>2. ThingAgrees(t) \/ Looked(t) \/ ToWrite("obj", t)
    BY <1>7 DEF ThingsCovered
  <2>3. (ToWrite("obj", t) => ToWrite("obj", t)') /\ (t # o /\ Looked(t) => Looked(t)')
    BY <1>2
  <2> QED
    BY <1>4, <2>1, <2>2, <2>3 DEF ToWrite
<1>9. ASSUME NEW a \in Addrs PROVE ThingAddressed(a) \/ Looked(live.lease[a])' \/ ToWrite("addr", a)'
  <2>1. CASE live.lease[a] # o
    <3>1. ThingAddressed(a) \/ Looked(live.lease[a]) \/ ToWrite("addr", a)
      BY <1>7 DEF ThingsCovered
    <3>2. (ToWrite("addr", a) => ToWrite("addr", a)') /\ (Looked(live.lease[a]) => Looked(live.lease[a])')
      <4>1. ToWrite("addr", a) => ToWrite("addr", a)'
        BY <1>2
      <4>2. Item("look", live.lease[a], <<>>) # Item("look", o, <<>>)
        BY <2>1 DEF Item
      <4> QED
        BY <1>0, <1>1, <4>1, <4>2 DEF Looked
    <3> QED
      BY <3>1, <3>2
  <2>2. CASE live.lease[a] = o /\ (Kept(o) \/ Taken(a))
    BY <2>2 DEF ThingAddressed
  <2>3. CASE live.lease[a] = o /\ ~Kept(o) /\ ~Taken(a)
    <3>1. o # Nobody
      BY <1>0, NetBoxAssumption DEF Objects
    <3>2. a \in seed.record
      BY <2>3, <3>1 DEF OnCourse, RecordKept
    <3>3. a \in LeasesOf(o)
      BY <1>0, <2>3, <3>2 DEF LeasesOf
    <3> QED
      BY <1>5, <2>3, <3>3
  <2> QED
    BY <2>1, <2>2, <2>3
<1>10. ASSUME NEW t \in Things PROVE ThingGone(t) \/ ToWrite("old_obj", t)'
  BY <1>2, <1>7 DEF ThingsCovered
<1>11. ThingsCovered'
  BY <1>0, <1>8, <1>9, <1>10, RowsStay DEF ThingsCovered, Looked
<1> QED
  BY <1>6, <1>11

\* A look leaves the run on its course.
LEMMA LooksOnCourse ==
    ASSUME TablesInv, SeedFits, OnCourse, SeedLooks
    PROVE  OnCourse'
<1>0. /\ seen = live /\ seed.section \in {2, 4, 6} /\ seed'.section = seed.section
      /\ UNCHANGED <<obj, addr, ifaces, live>>
      /\ seed'.seen = seed.seen /\ seed'.record = seed.record
  BY LookIs DEF OnCourse
<1>1. seen' = live'
  BY <1>0 DEF seen
<1>2. Finished'
  BY <1>0, PartsStay DEF Finished, OnCourse
<1>3. RecordKept'
  <2>1. seed.section >= 5 => seed.record = {a \in Addrs : live.lease[a] # Nobody /\ ~Taken(a)}
    BY DEF OnCourse, RecordKept
  <2> QED
    BY <1>0, <2>1, RowsStay DEF RecordKept
<1>4. Pruning'
  BY <1>0 DEF Pruning
<1>5. Meant' /\ Covered'
  <2>1. CASE seed.section = 2
    BY <1>0, <2>1, NodeLooked DEF Meant, Covered
  <2>2. CASE seed.section = 4
    BY <1>0, <2>2, GuestLooked DEF Meant, Covered
  <2>3. CASE seed.section = 6
    BY <1>0, <2>3, ThingLooked DEF Meant, Covered
  <2> QED
    BY <1>0, <2>1, <2>2, <2>3
<1> QED
  BY <1>1, <1>2, <1>3, <1>4, <1>5 DEF OnCourse

-----------------------------------------------------------------------------
(* An item is written.                                                     *)

\* The rows a write does not write stay.
LEMMA AddrRows ==
    ASSUME TablesInv, NEW a \in Addrs, NEW row, PutsAddr(a, row)
    PROVE  obj' = obj /\ ifaces' = ifaces /\ addr'[a] = row /\ \A b \in Addrs : b # a => addr'[b] = addr[b]
  BY DEF PutsAddr, TablesInv, NetBoxTypeOK

LEMMA ObjRows ==
    ASSUME TablesInv, NEW o \in Objects, NEW row, PutsObj(o, row)
    PROVE  addr' = addr /\ ifaces' = ifaces /\ obj'[o] = row /\ \A p \in Objects : p # o => obj'[p] = obj[p]
  BY DEF PutsObj, TablesInv, NetBoxTypeOK

\* What a write does not write is still to be written.
LEMMA OthersToDo ==
    ASSUME SeedFits, SeedWrites, NEW i, i = Head(seed.todo)
    PROVE  /\ \A act, on : ToWrite(act, on) => ToWrite(act, on)' \/ (i.act = act /\ i.on = on)
           /\ \A p : Looked(p) => Looked(p)'
           /\ Todo = {i} \cup Todo' /\ Todo' \subseteq Todo /\ i \in Todo /\ i.act # "look"
<1>1. Todo = {i} \cup Todo' /\ i.act # "look"
  BY ItemDone
<1>2. \A p : Looked(p) => Looked(p)'
  <2>1. \A p : Item("look", p, <<>>) # i
    BY <1>1 DEF Item
  <2> QED
    BY <1>1, <2>1 DEF Looked
<1>3. \A act, on : ToWrite(act, on) => ToWrite(act, on)' \/ (i.act = act /\ i.on = on)
  BY <1>1 DEF ToWrite
<1> QED
  BY <1>1, <1>2, <1>3

\* A row that stays says the same.
LEMMA SameAddress ==
    ASSUME NEW a, addr'[a] = addr[a], live' = live
    PROVE  (LbAgrees(a)' <=> LbAgrees(a)) /\ (Taken(a)' <=> Taken(a)) /\ (LeaseAgrees(a)' <=> LeaseAgrees(a))
  BY DEF LbAgrees, Taken, LeaseAgrees

LEMMA SameObject ==
    ASSUME NEW o, obj'[o] = obj[o], live' = live
    PROVE  /\ NodeAgrees(o)' <=> NodeAgrees(o)
           /\ GuestAgrees(o)' <=> GuestAgrees(o)
           /\ Kept(o)' <=> Kept(o)
           /\ Reserves(o)' <=> Reserves(o)
           /\ ThingGone(o)' <=> ThingGone(o)
           /\ ThingAgrees(o)' <=> ThingAgrees(o)
<1>1. (There(o)' <=> There(o)) /\ (Reserves(o)' <=> Reserves(o))
  BY DEF There, Reserves
<1>2. Kept(o)' <=> Kept(o)
  BY <1>1 DEF Kept
<1>3. (NodeAgrees(o)' <=> NodeAgrees(o)) /\ (GuestAgrees(o)' <=> GuestAgrees(o))
  BY <1>1 DEF NodeAgrees, GuestAgrees, Synced
<1>4. (ThingGone(o)' <=> ThingGone(o)) /\ (ThingAgrees(o)' <=> ThingAgrees(o))
  BY <1>1, <1>2 DEF ThingGone, ThingAgrees, OwnThings, There
<1> QED
  BY <1>1, <1>2, <1>3, <1>4

LEMMA SameAddressed ==
    ASSUME NEW h, addr'[AddrOf[h]] = addr[AddrOf[h]], live' = live, obj' = obj
    PROVE  (Addressed(h)' <=> Addressed(h)) /\ (GuestAddressed(h)' <=> GuestAddressed(h))
  BY DEF Addressed, GuestAddressed

\* The address of a Service is written: it agrees, and nothing else is undone.
LEMMA LbWritten ==
    ASSUME TablesInv, SeedFits, OnCourse, SeedWrites, NEW i, i = Head(seed.todo), seed.section = 1
    PROVE  /\ \A j \in Todo' : MeantLb(j)'
           /\ LbsCovered'
<1>1. /\ live' = live /\ Todo' \subseteq Todo /\ i \in Todo
      /\ \A act, on : ToWrite(act, on) => ToWrite(act, on)' \/ (i.act = act /\ i.on = on)
  BY ItemDone, OthersToDo
<1>2. (\A j \in Todo : MeantLb(j)) /\ LbsCovered
  BY DEF OnCourse, Meant, Covered
<1>3. \A j \in Todo' : MeantLb(j)'
  BY <1>1, <1>2 DEF MeantLb
<1>4. i.on \in Addrs /\ \E row : PutsAddr(i.on, row)
  BY LbWrite, NetBoxAssumption
<1>5. \A b \in Addrs : b # i.on => addr'[b] = addr[b]
  BY <1>4, AddrRows
<1>6. LbAgrees(i.on)'
  <2>1. CASE i.act = "addr" /\ PutsAddr(i.on, ARow("active", TRUE, "lb", addr[i.on].on, addr[i.on].dns))
    <3>1. i.on \in live.lb /\ addr'[i.on] = ARow("active", TRUE, "lb", addr[i.on].on, addr[i.on].dns)
      BY <1>1, <1>2, <1>4, <2>1, AddrRows DEF MeantLb
    <3> QED
      BY <1>1, <3>1 DEF LbAgrees, ARow
  <2>2. CASE /\ i.act = "old_addr"
             /\ PutsAddr(i.on, ARow("deprecated", addr[i.on].vip, addr[i.on].desc, addr[i.on].on, addr[i.on].dns))
    <3>1. /\ i.on \notin live.lb
          /\ addr'[i.on] = ARow("deprecated", addr[i.on].vip, addr[i.on].desc, addr[i.on].on, addr[i.on].dns)
      BY <1>1, <1>2, <1>4, <2>2, AddrRows DEF MeantLb
    <3> QED
      BY <1>1, <3>1 DEF LbAgrees, ARow
  <2> QED
    BY <2>1, <2>2, LbWrite
<1>7. ASSUME NEW a \in Addrs PROVE LbAgrees(a)' \/ ToWrite("addr", a)' \/ ToWrite("old_addr", a)'
  <2>1. CASE a = i.on
    BY <1>6, <2>1
  <2>2. CASE a # i.on
    <3>1. LbAgrees(a) \/ ToWrite("addr", a) \/ ToWrite("old_addr", a)
      BY <1>2 DEF LbsCovered
    <3>2. LbAgrees(a)' <=> LbAgrees(a)
      BY <1>1, <1>5, <2>2, SameAddress
    <3>3. (ToWrite("addr", a) => ToWrite("addr", a)') /\ (ToWrite("old_addr", a) => ToWrite("old_addr", a)')
      BY <1>1, <2>2
    <3> QED
      BY <3>1, <3>2, <3>3
  <2> QED
    BY <2>1, <2>2
<1> QED
  BY <1>3, <1>7 DEF LbsCovered

\* A host's own address is written: only its row changes.
LEMMA HostAddressed ==
    ASSUME TablesInv, live' = live, NEW h \in Hosts, LbsAgree,
           PutsAddr(AddrOf[h], ARow("active", addr[AddrOf[h]].vip, addr[AddrOf[h]].desc, h, addr[AddrOf[h]].dns))
    PROVE  /\ obj' = obj /\ ifaces' = ifaces /\ LbsAgree' /\ Addressed(h)' /\ GuestAddressed(h)'
           /\ \A g \in Hosts : g # h => (Addressed(g)' <=> Addressed(g)) /\ (GuestAddressed(g)' <=> GuestAddressed(g))
<1> DEFINE a == AddrOf[h]
<1>1. a \in Addrs /\ a \notin Pool /\ \A g \in Hosts : AddrOf[g] \in Addrs /\ (g # h => AddrOf[g] # a)
  BY NetBoxAssumption
<1>2. /\ obj' = obj /\ ifaces' = ifaces /\ addr'[a] = ARow("active", addr[a].vip, addr[a].desc, h, addr[a].dns)
      /\ \A b \in Addrs : b # a => addr'[b] = addr[b]
  BY <1>1, AddrRows
<1>3. Addressed(h)'
  BY <1>2 DEF Addressed, ARow
<1>4. \A g \in Hosts : g # h => (Addressed(g)' <=> Addressed(g)) /\ (GuestAddressed(g)' <=> GuestAddressed(g))
  <2>1. \A g \in Hosts : g # h => addr'[AddrOf[g]] = addr[AddrOf[g]]
    BY <1>1, <1>2
  <2> QED
    BY <1>2, <2>1, SameAddressed
<1>5. LbAgrees(a)'
  <2>1. a \notin live.lb
    BY <1>1 DEF TablesInv, Apart
  <2>2. addr[a].desc # "lb"
    BY <1>1, AddressIs DEF TidyRow
  <2>3. addr'[a].desc = addr[a].desc
    BY <1>2 DEF ARow
  <2> QED
    BY <2>1, <2>2, <2>3 DEF LbAgrees
<1>6. LbsAgree'
  <2>1. ASSUME NEW b \in Addrs, b # a PROVE LbAgrees(b)'
    BY <1>2, <2>1, SameAddress DEF LbsAgree
  <2> QED
    BY <1>5, <2>1 DEF LbsAgree
<1>7. GuestAddressed(h)'
  BY <1>3 DEF GuestAddressed
<1> QED
  BY <1>2, <1>3, <1>4, <1>6, <1>7

\* The address of a node is written.
LEMMA NodeAddressed ==
    ASSUME TablesInv, SeedFits, OnCourse, SeedWrites, NEW i, i = Head(seed.todo), seed.section = 2,
           NEW n \in Nodes, i = Address(n),
           PutsAddr(i.on, ARow("active", addr[i.on].vip, addr[i.on].desc, n, addr[i.on].dns))
    PROVE  (\A j \in Todo' : MeantNode(j)') /\ NodesCovered' /\ IfacesCovered' /\ LbsAgree'
<1>1. /\ live' = live /\ Todo' \subseteq Todo
      /\ \A act, on : ToWrite(act, on) => ToWrite(act, on)' \/ (i.act = act /\ i.on = on)
      /\ \A p : Looked(p) => Looked(p)'
  BY ItemDone, OthersToDo
<1>2. (\A j \in Todo : MeantNode(j)) /\ NodesCovered /\ IfacesCovered /\ LbsAgree
  BY DEF OnCourse, Meant, Covered, Finished
<1>3. i.act = "addr" /\ i.on = AddrOf[n] /\ n \in Hosts
  BY DEF Address, Item, Hosts
<1>4. /\ obj' = obj /\ ifaces' = ifaces /\ LbsAgree' /\ Addressed(n)'
      /\ \A g \in Hosts : g # n => (Addressed(g)' <=> Addressed(g))
  BY <1>1, <1>2, <1>3, HostAddressed
<1>5. \A j \in Todo' : MeantNode(j)'
  BY <1>1, <1>2, <1>4 DEF MeantNode
<1>6. NodesCovered'
  <2>1. ASSUME NEW m \in Nodes
        PROVE  /\ NodeAgrees(m)' \/ Looked(m)' \/ ToWrite("obj", m)'
               /\ Addressed(m)' \/ Looked(m)' \/ ToWrite("addr", AddrOf[m])'
    <3>1. /\ NodeAgrees(m) \/ Looked(m) \/ ToWrite("obj", m)
          /\ Addressed(m) \/ Looked(m) \/ ToWrite("addr", AddrOf[m])
      BY <1>2 DEF NodesCovered
    <3>2. (NodeAgrees(m)' <=> NodeAgrees(m)) /\ (Looked(m) => Looked(m)')
      BY <1>1, <1>4, SameObject
    <3>3. ToWrite("obj", m) => ToWrite("obj", m)'
      BY <1>1, <1>3
    <3>4. m = n \/ (Addressed(m)' <=> Addressed(m))
      BY <1>4 DEF Hosts
    <3>5. m = n \/ (ToWrite("addr", AddrOf[m]) => ToWrite("addr", AddrOf[m])')
      BY <1>1, <1>3, NetBoxAssumption DEF Hosts
    <3>6. NodeAgrees(m)' \/ Looked(m)' \/ ToWrite("obj", m)'
      BY <3>1, <3>2, <3>3
    <3>7. Addressed(m)' \/ Looked(m)' \/ ToWrite("addr", AddrOf[m])'
      BY <1>4, <3>1, <3>2, <3>4, <3>5
    <3> QED
      BY <3>6, <3>7
  <2> QED
    BY <2>1 DEF NodesCovered
<1>7. IfacesCovered'
  <2>1. \A on : ToWrite("iface", on) => ToWrite("iface", on)'
    BY <1>1, <1>3
  <2> QED
    BY <1>1, <1>2, <1>4, <2>1 DEF IfacesCovered
<1> QED
  BY <1>4, <1>5, <1>6, <1>7

\* The row of a node is written.
LEMMA NodeStatus ==
    ASSUME TablesInv, SeedFits, OnCourse, SeedWrites, NEW i, i = Head(seed.todo), seed.section = 2,
           i.act = "obj", i.on \in Nodes, i.set \in StatusFields,
           PutsObj(i.on, Now(i.on, i.set, obj[i.on].shape))
    PROVE  (\A j \in Todo' : MeantNode(j)') /\ NodesCovered' /\ IfacesCovered' /\ LbsAgree'
<1> DEFINE n == i.on
           f == SyncedStatus(obj[n].status, n \in live.online)
           now == Becomes(obj[n].status, f)
<1>1. /\ live' = live /\ Todo' \subseteq Todo /\ i \in Todo
      /\ \A act, on : ToWrite(act, on) => ToWrite(act, on)' \/ (i.act = act /\ i.on = on)
      /\ \A p : Looked(p) => Looked(p)'
  BY ItemDone, OthersToDo
<1>2. (\A j \in Todo : MeantNode(j)) /\ NodesCovered /\ IfacesCovered /\ LbsAgree
  BY DEF OnCourse, Meant, Covered, Finished
<1>3. n \in Objects /\ i.set = f
  BY <1>1, <1>2 DEF MeantNode, Objects, Hosts
<1>4. /\ addr' = addr /\ ifaces' = ifaces /\ obj'[n].status = now
      /\ \A p \in Objects : p # n => obj'[p] = obj[p]
  <2>1. obj'[n] = Now(n, i.set, obj[n].shape) /\ addr' = addr /\ ifaces' = ifaces
        /\ \A p \in Objects : p # n => obj'[p] = obj[p]
    BY <1>3, ObjRows
  <2> QED
    BY <1>3, <2>1 DEF Now, ORow
<1>5. now \in Statuses \ {"absent"} /\ SyncedStatus(now, n \in live.online) = f /\ Becomes(now, f) = now
  <2>1. obj[n].status \in Statuses
    BY <1>3, ObjectIs
  <2>2. ASSUME NEW st \in Statuses, NEW r \in BOOLEAN
        PROVE  /\ Becomes(st, SyncedStatus(st, r)) \in Statuses \ {"absent"}
               /\ SyncedStatus(Becomes(st, SyncedStatus(st, r)), r) = SyncedStatus(st, r)
               /\ Becomes(Becomes(st, SyncedStatus(st, r)), SyncedStatus(st, r)) = Becomes(st, SyncedStatus(st, r))
    BY SyncTwice
  <2>3. (n \in live.online) \in BOOLEAN
    OBVIOUS
  <2> QED
    BY <2>1, <2>2, <2>3
<1> HIDE DEF now, f
<1>6. NodeAgrees(n)'
  BY <1>1, <1>4, <1>5 DEF NodeAgrees, There, Synced
<1>7. ASSUME NEW j \in Todo' PROVE MeantNode(j)'
  <2>1. MeantNode(j) /\ j \in Todo
    BY <1>1, <1>2
  <2>2. CASE j.on = n
    BY <1>1, <1>4, <1>5, <2>1, <2>2 DEF MeantNode, f
  <2>3. CASE j.on # n /\ j.act = "obj"
    <3>1. seed.todo \in Seq(NodeItems)
      BY DEF SeedFits, TodoFits
    <3>2. j \in NodeItems
      BY <2>1, <3>1 DEF Todo, Range
    <3>3. j.on \in Objects
      BY <2>3, <3>2 DEF NodeItems, Items, Address, Item, Objects, Hosts
    <3> QED
      BY <1>1, <1>4, <2>1, <2>3, <3>3 DEF MeantNode
  <2>4. CASE j.act # "obj"
    BY <2>4 DEF MeantNode
  <2> QED
    BY <2>2, <2>3, <2>4
<1>8. NodesCovered'
  <2>1. ASSUME NEW m \in Nodes
        PROVE  /\ NodeAgrees(m)' \/ Looked(m)' \/ ToWrite("obj", m)'
               /\ Addressed(m)' \/ Looked(m)' \/ ToWrite("addr", AddrOf[m])'
    <3>1. /\ NodeAgrees(m) \/ Looked(m) \/ ToWrite("obj", m)
          /\ Addressed(m) \/ Looked(m) \/ ToWrite("addr", AddrOf[m])
      BY <1>2 DEF NodesCovered
    <3>2. m = n \/ (NodeAgrees(m)' <=> NodeAgrees(m))
      BY <1>1, <1>4, SameObject DEF Objects, Hosts
    <3>3. (Looked(m) => Looked(m)') /\ (m = n \/ (ToWrite("obj", m) => ToWrite("obj", m)'))
      BY <1>1
    <3>4. Addressed(m)' <=> Addressed(m)
      BY <1>4 DEF Addressed
    <3>5. ToWrite("addr", AddrOf[m]) => ToWrite("addr", AddrOf[m])'
      BY <1>1
    <3>6. NodeAgrees(m)' \/ Looked(m)' \/ ToWrite("obj", m)'
      BY <1>6, <3>1, <3>2, <3>3
    <3>7. Addressed(m)' \/ Looked(m)' \/ ToWrite("addr", AddrOf[m])'
      BY <3>1, <3>3, <3>4, <3>5
    <3> QED
      BY <3>6, <3>7
  <2> QED
    BY <2>1 DEF NodesCovered
<1>9. IfacesCovered'
  <2>1. \A on : ToWrite("iface", on) => ToWrite("iface", on)'
    BY <1>1
  <2> QED
    BY <1>1, <1>2, <1>4, <2>1 DEF IfacesCovered
<1>10. LbsAgree'
  BY <1>1, <1>2, <1>4, SameAddress DEF LbsAgree
<1> QED
  BY <1>7, <1>8, <1>9, <1>10

LEMMA NodeWritten ==
    ASSUME TablesInv, SeedFits, OnCourse, SeedWrites, NEW i, i = Head(seed.todo), seed.section = 2
    PROVE  (\A j \in Todo' : MeantNode(j)') /\ NodesCovered' /\ IfacesCovered' /\ LbsAgree'
<1>1. CASE /\ i.act = "obj" /\ i.on \in Nodes /\ i.set \in StatusFields
           /\ PutsObj(i.on, Now(i.on, i.set, obj[i.on].shape))
  BY <1>1, NodeStatus
<1>2. CASE \E n \in Nodes :
              /\ i = Address(n)
              /\ PutsAddr(i.on, ARow("active", addr[i.on].vip, addr[i.on].desc, n, addr[i.on].dns))
  BY <1>2, NodeAddressed
<1>3. CASE i.act = "iface" /\ i.on \in Ifaces /\ obj' = obj /\ addr' = addr /\ ifaces' = ifaces \cup {i.on}
  <2>1. /\ live' = live /\ Todo' \subseteq Todo
        /\ \A act, on : ToWrite(act, on) => ToWrite(act, on)' \/ (i.act = act /\ i.on = on)
        /\ \A p : Looked(p) => Looked(p)'
    BY ItemDone, OthersToDo
  <2>2. (\A j \in Todo : MeantNode(j)) /\ NodesCovered /\ IfacesCovered /\ LbsAgree
    BY DEF OnCourse, Meant, Covered, Finished
  <2>3. \A j \in Todo' : MeantNode(j)'
    BY <1>3, <2>1, <2>2 DEF MeantNode
  <2>4. NodesCovered'
    <3>1. ASSUME NEW m \in Nodes
          PROVE  /\ NodeAgrees(m)' \/ Looked(m)' \/ ToWrite("obj", m)'
                 /\ Addressed(m)' \/ Looked(m)' \/ ToWrite("addr", AddrOf[m])'
      <4>1. /\ NodeAgrees(m) \/ Looked(m) \/ ToWrite("obj", m)
            /\ Addressed(m) \/ Looked(m) \/ ToWrite("addr", AddrOf[m])
        BY <2>2 DEF NodesCovered
      <4>2. (NodeAgrees(m)' <=> NodeAgrees(m)) /\ (Addressed(m)' <=> Addressed(m))
        BY <1>3, <2>1, RowsStay
      <4>3. ToWrite("obj", m) => ToWrite("obj", m)'
        BY <1>3, <2>1
      <4>4. ToWrite("addr", AddrOf[m]) => ToWrite("addr", AddrOf[m])'
        BY <1>3, <2>1
      <4> QED
        BY <2>1, <4>1, <4>2, <4>3, <4>4
    <3> QED
      BY <3>1 DEF NodesCovered
  <2>5. IfacesCovered'
    <3>1. ASSUME NEW x \in live.up
          PROVE  x \in ifaces' \/ ToWrite("iface", x)' \/ Looked(NodeOf[x])'
      <4>1. x \in ifaces \/ ToWrite("iface", x) \/ Looked(NodeOf[x])
        BY <2>2, <3>1 DEF IfacesCovered
      <4>2. x = i.on \/ (ToWrite("iface", x) => ToWrite("iface", x)')
        BY <2>1
      <4>3. x = i.on => x \in ifaces'
        BY <1>3
      <4>4. x \in ifaces => x \in ifaces'
        BY <1>3
      <4> QED
        BY <2>1, <4>1, <4>2, <4>3, <4>4
    <3> QED
      BY <2>1, <3>1 DEF IfacesCovered
  <2>6. LbsAgree'
    BY <1>3, <2>1, <2>2, RowsStay DEF LbsAgree
  <2> QED
    BY <2>3, <2>4, <2>5, <2>6
<1> QED
  BY <1>1, <1>2, <1>3, NodeWrite

\* The address of a VM is written.
LEMMA GuestAddressWritten ==
    ASSUME TablesInv, SeedFits, OnCourse, SeedWrites, NEW i, i = Head(seed.todo), seed.section = 4,
           NEW g \in Guests, i = Address(g),
           PutsAddr(i.on, ARow("active", addr[i.on].vip, addr[i.on].desc, g, addr[i.on].dns))
    PROVE  (\A j \in Todo' : MeantVm(j)') /\ GuestsCovered' /\ LbsAgree' /\ NodesFit' /\ IfacesThere' /\ IfacesNeeded'
<1>1. /\ live' = live /\ Todo' \subseteq Todo
      /\ \A act, on : ToWrite(act, on) => ToWrite(act, on)' \/ (i.act = act /\ i.on = on)
      /\ \A p : Looked(p) => Looked(p)'
  BY ItemDone, OthersToDo
<1>2. (\A j \in Todo : MeantVm(j)) /\ GuestsCovered /\ LbsAgree /\ NodesFit /\ IfacesThere /\ IfacesNeeded
  BY DEF OnCourse, Meant, Covered, Finished
<1>3. i.act = "addr" /\ i.on = AddrOf[g] /\ g \in Hosts
  BY DEF Address, Item, Hosts
<1>4. /\ obj' = obj /\ ifaces' = ifaces /\ LbsAgree' /\ GuestAddressed(g)'
      /\ \A h \in Hosts : h # g => (Addressed(h)' <=> Addressed(h)) /\ (GuestAddressed(h)' <=> GuestAddressed(h))
  BY <1>1, <1>2, <1>3, HostAddressed
<1>5. \A j \in Todo' : MeantVm(j)'
  BY <1>1, <1>2, <1>4 DEF MeantVm, Whose
<1>6. GuestsCovered'
  <2>1. ASSUME NEW m \in Guests
        PROVE  /\ GuestAgrees(m)' \/ Looked(m)' \/ ToWrite("obj", m)'
               /\ GuestAddressed(m)' \/ Looked(m)' \/ ToWrite("addr", AddrOf[m])'
    <3>1. /\ GuestAgrees(m) \/ Looked(m) \/ ToWrite("obj", m)
          /\ GuestAddressed(m) \/ Looked(m) \/ ToWrite("addr", AddrOf[m])
      BY <1>2 DEF GuestsCovered
    <3>2. (GuestAgrees(m)' <=> GuestAgrees(m)) /\ (Looked(m) => Looked(m)')
      BY <1>1, <1>4, SameObject
    <3>3. ToWrite("obj", m) => ToWrite("obj", m)'
      BY <1>1, <1>3
    <3>4. m = g \/ (GuestAddressed(m)' <=> GuestAddressed(m))
      BY <1>4 DEF Hosts
    <3>5. m = g \/ (ToWrite("addr", AddrOf[m]) => ToWrite("addr", AddrOf[m])')
      BY <1>1, <1>3, NetBoxAssumption DEF Hosts
    <3>6. GuestAgrees(m)' \/ Looked(m)' \/ ToWrite("obj", m)'
      BY <3>1, <3>2, <3>3
    <3>7. GuestAddressed(m)' \/ Looked(m)' \/ ToWrite("addr", AddrOf[m])'
      BY <1>4, <3>1, <3>2, <3>4, <3>5
    <3> QED
      BY <3>6, <3>7
  <2> QED
    BY <2>1 DEF GuestsCovered
<1>7. NodesFit'
  <2>1. ASSUME NEW n \in Nodes PROVE NodeAgrees(n)' /\ Addressed(n)'
    <3>1. n \in Hosts /\ n # g
      BY NetBoxAssumption DEF Hosts
    <3>2. NodeAgrees(n) /\ Addressed(n)
      BY <1>2 DEF NodesFit
    <3>3. NodeAgrees(n)' <=> NodeAgrees(n)
      BY <1>1, <1>4, SameObject
    <3> QED
      BY <1>4, <3>1, <3>2, <3>3
  <2> QED
    BY <2>1 DEF NodesFit
<1>8. IfacesThere' /\ IfacesNeeded'
  BY <1>1, <1>2, <1>4 DEF IfacesThere, IfacesNeeded, Needed, Closed
<1> QED
  BY <1>4, <1>5, <1>6, <1>7, <1>8

\* What a run writes of a VM is so, and would be written again.
LEMMA GuestPatched ==
    ASSUME TablesInv, SeedFits, OnCourse, SeedWrites, NEW i, i = Head(seed.todo), seed.section = 4, i.act = "obj"
    PROVE  LET g == i.on
               f == SyncedStatus(obj[g].status, live.guest[g] = "running")
           IN  /\ g \in Guests /\ g \in Objects /\ addr' = addr /\ ifaces' = ifaces /\ live' = live
               /\ \A p \in Objects : p # g => obj'[p] = obj[p]
               /\ obj[g].status # "decommissioning" /\ live.guest[g] # "gone"
               /\ obj'[g].status = Becomes(obj[g].status, f) /\ obj'[g].status \notin {"absent", "decommissioning"}
               /\ SyncedStatus(obj'[g].status, live.guest[g] = "running") = f
               /\ Becomes(obj'[g].status, f) = obj'[g].status
               /\ obj'[g].role = obj[g].role
               /\ obj'[g].role \/ obj'[g].shape = "small"
<1> DEFINE g == i.on
           f == SyncedStatus(obj[g].status, live.guest[g] = "running")
           now == Becomes(obj[g].status, f)
<1>1. i \in Todo /\ i \in VmItems /\ live' = live
  BY ItemDone, NextItem
<1>2. g \in Guests
  <2>1. i \notin {Address(h) : h \in Guests}
    BY DEF Address, Item
  <2> QED
    BY <1>1, <2>1 DEF VmItems, Items
<1>3. g \in Objects
  BY <1>2 DEF Objects, Hosts
<1>4. /\ live.guest[g] # "gone" /\ obj[g].status # "decommissioning"
      /\ i.set = VmFields(f, obj[g].role)
  BY <1>1 DEF OnCourse, Meant, MeantVm, Whose
<1>5. obj[g] \in ObjRow /\ obj[g].role \in BOOLEAN /\ obj[g].status \in Statuses
  BY <1>3, ObjectIs
<1>6. f \in StatusFields
  <2>1. \A st, r : SyncedStatus(st, r) \in StatusFields
    BY DEF SyncedStatus, StatusFields
  <2> QED
    BY <2>1
<1>7. now \in Statuses \ {"absent", "decommissioning"} /\ SyncedStatus(now, live.guest[g] = "running") = f /\ Becomes(now, f) = now
  <2>1. ASSUME NEW st \in Statuses, st # "decommissioning", NEW r \in BOOLEAN
        PROVE  /\ Becomes(st, SyncedStatus(st, r)) \in Statuses \ {"absent", "decommissioning"}
               /\ SyncedStatus(Becomes(st, SyncedStatus(st, r)), r) = SyncedStatus(st, r)
               /\ Becomes(Becomes(st, SyncedStatus(st, r)), SyncedStatus(st, r)) = Becomes(st, SyncedStatus(st, r))
    BY <2>1, SyncTwice
  <2>2. (live.guest[g] = "running") \in BOOLEAN
    OBVIOUS
  <2> QED
    BY <1>4, <1>5, <2>1, <2>2
<1> HIDE DEF f, now
<1>8. Patched(obj[g], VmFields(f, obj[g].role))
        = ORow(now, obj[g].mark, obj[g].role, IF obj[g].role THEN obj[g].shape ELSE "small", obj[g].login)
  BY <1>5, <1>6, PatchedObject DEF now
<1>9. PutsObj(g, Patched(obj[g], i.set))
  BY WriteIs
<1>10. /\ addr' = addr /\ ifaces' = ifaces /\ \A p \in Objects : p # g => obj'[p] = obj[p]
       /\ obj'[g] = Patched(obj[g], i.set)
  BY <1>3, <1>9, ObjRows
<1>11. /\ obj'[g].status = now /\ obj'[g].role = obj[g].role
       /\ obj'[g].shape = IF obj[g].role THEN obj[g].shape ELSE "small"
  BY <1>4, <1>8, <1>10 DEF ORow
<1>12. obj'[g].role \/ obj'[g].shape = "small"
  BY <1>5, <1>11
<1>13. /\ obj'[g].status = Becomes(obj[g].status, f) /\ obj'[g].status \notin {"absent", "decommissioning"}
       /\ SyncedStatus(obj'[g].status, live.guest[g] = "running") = f
       /\ Becomes(obj'[g].status, f) = obj'[g].status
  <2>1. now = Becomes(obj[g].status, f)
    BY DEF now
  <2> QED
    BY <1>7, <1>11, <2>1
<1>14. /\ g \in Guests /\ g \in Objects /\ addr' = addr /\ ifaces' = ifaces /\ live' = live
       /\ \A p \in Objects : p # g => obj'[p] = obj[p]
       /\ obj[g].status # "decommissioning" /\ live.guest[g] # "gone"
       /\ obj'[g].role = obj[g].role
       /\ obj'[g].role \/ obj'[g].shape = "small"
  BY <1>1, <1>2, <1>3, <1>4, <1>10, <1>11, <1>12
<1> QED
  BY <1>13, <1>14 DEF f

LEMMA VmItemsOn ==
    ASSUME SeedFits, seed.section = 4, NEW j \in Todo
    PROVE  Whose(j) \in Guests /\ (j.act = "obj" => j.on = Whose(j))
<1>1. seed.todo \in Seq(VmItems)
  BY DEF SeedFits, TodoFits
<1>2. j \in VmItems
  BY <1>1 DEF Todo, Range
<1>3. CASE \E h \in Guests : j = Address(h)
  BY <1>3 DEF Address, Item, Whose
<1>4. CASE j \in Items("look", Guests, {<<>>}) \cup Items("obj", Guests, {VmFields(f, r) : f \in StatusFields, r \in BOOLEAN})
  BY <1>4 DEF Items, Whose
<1> QED
  BY <1>2, <1>3, <1>4 DEF VmItems

\* The row of a VM is written.
LEMMA GuestStatusWritten ==
    ASSUME TablesInv, SeedFits, OnCourse, SeedWrites, NEW i, i = Head(seed.todo), seed.section = 4, i.act = "obj"
    PROVE  (\A j \in Todo' : MeantVm(j)') /\ GuestsCovered' /\ LbsAgree' /\ NodesFit' /\ IfacesThere' /\ IfacesNeeded'
<1> DEFINE run(g) == live.guest[g] = "running"
           f(g) == SyncedStatus(obj[g].status, run(g))
<1>0. PICK g \in Guests : g = i.on
  BY GuestPatched
<1>1. /\ live' = live /\ Todo' \subseteq Todo
      /\ \A act, on : ToWrite(act, on) => ToWrite(act, on)' \/ (i.act = act /\ i.on = on)
      /\ \A p : Looked(p) => Looked(p)'
  BY ItemDone, OthersToDo
<1>2. (\A j \in Todo : MeantVm(j)) /\ GuestsCovered /\ LbsAgree /\ NodesFit /\ IfacesThere /\ IfacesNeeded
  BY DEF OnCourse, Meant, Covered, Finished
<1>3. /\ addr' = addr /\ ifaces' = ifaces /\ \A p \in Objects : p # g => obj'[p] = obj[p]
      /\ obj[g].status # "decommissioning" /\ live.guest[g] # "gone"
      /\ obj'[g].status \notin {"absent", "decommissioning"}
      /\ SyncedStatus(obj'[g].status, run(g)) = SyncedStatus(obj[g].status, run(g))
      /\ Becomes(obj'[g].status, SyncedStatus(obj[g].status, run(g))) = obj'[g].status
      /\ obj'[g].role = obj[g].role
      /\ obj'[g].role \/ obj'[g].shape = "small"
  BY <1>0, GuestPatched
<1> HIDE DEF f
<1>4. GuestAgrees(g)'
  BY <1>1, <1>3 DEF GuestAgrees, There, Synced
<1>5. ASSUME NEW j \in Todo' PROVE MeantVm(j)'
  <2>1. MeantVm(j) /\ j \in Todo /\ Whose(j) \in Guests /\ (j.act = "obj" => j.on = Whose(j))
    BY <1>1, <1>2, VmItemsOn
  <2>2. CASE Whose(j) = g
    <3>1. live.guest[Whose(j)] # "gone" /\ obj'[Whose(j)].status # "decommissioning"
      BY <1>3, <2>2
    <3>2. ASSUME j.act = "obj"
          PROVE  j.set = VmFields(SyncedStatus(obj'[g].status, run(g)), obj'[g].role)
      BY <1>3, <2>1, <2>2, <3>2 DEF MeantVm
    <3> QED
      BY <1>1, <2>1, <2>2, <3>1, <3>2 DEF MeantVm, Whose
  <2>3. CASE Whose(j) # g
    <3>1. obj'[Whose(j)] = obj[Whose(j)]
      BY <1>3, <2>1, <2>3 DEF Objects, Hosts
    <3> QED
      BY <1>1, <2>1, <3>1 DEF MeantVm, Whose
  <2> QED
    BY <2>2, <2>3
<1>6. GuestsCovered'
  <2>1. ASSUME NEW m \in Guests
        PROVE  /\ GuestAgrees(m)' \/ Looked(m)' \/ ToWrite("obj", m)'
               /\ GuestAddressed(m)' \/ Looked(m)' \/ ToWrite("addr", AddrOf[m])'
    <3>1. /\ GuestAgrees(m) \/ Looked(m) \/ ToWrite("obj", m)
          /\ GuestAddressed(m) \/ Looked(m) \/ ToWrite("addr", AddrOf[m])
      BY <1>2 DEF GuestsCovered
    <3>2. m # g => obj'[m] = obj[m]
      BY <1>3 DEF Objects, Hosts
    <3>3. m = g \/ (GuestAgrees(m)' <=> GuestAgrees(m))
      BY <1>1, <3>2, SameObject
    <3>4. (Looked(m) => Looked(m)') /\ (m = g \/ (ToWrite("obj", m) => ToWrite("obj", m)'))
      BY <1>0, <1>1
    <3>5. GuestAddressed(m)' <=> GuestAddressed(m)
      BY <1>1, <1>3, <3>2 DEF GuestAddressed, Addressed
    <3>6. ToWrite("addr", AddrOf[m]) => ToWrite("addr", AddrOf[m])'
      BY <1>1
    <3>7. GuestAgrees(m)' \/ Looked(m)' \/ ToWrite("obj", m)'
      BY <1>4, <3>1, <3>3, <3>4
    <3>8. GuestAddressed(m)' \/ Looked(m)' \/ ToWrite("addr", AddrOf[m])'
      BY <3>1, <3>4, <3>5, <3>6
    <3> QED
      BY <3>7, <3>8
  <2> QED
    BY <2>1 DEF GuestsCovered
<1>7. NodesFit'
  <2>1. ASSUME NEW n \in Nodes PROVE NodeAgrees(n)' /\ Addressed(n)'
    <3>1. n \in Objects /\ n # g
      BY NetBoxAssumption DEF Hosts, Objects
    <3>2. NodeAgrees(n) /\ Addressed(n)
      BY <1>2 DEF NodesFit
    <3>3. obj'[n] = obj[n]
      BY <1>3, <3>1
    <3>4. NodeAgrees(n)' <=> NodeAgrees(n)
      BY <1>1, <3>3, SameObject
    <3> QED
      BY <1>3, <3>2, <3>4 DEF Addressed
  <2> QED
    BY <2>1 DEF NodesFit
<1>8. IfacesThere' /\ IfacesNeeded'
  BY <1>1, <1>2, <1>3 DEF IfacesThere, IfacesNeeded, Needed, Closed
<1>9. LbsAgree'
  BY <1>1, <1>2, <1>3, SameAddress DEF LbsAgree
<1> QED
  BY <1>5, <1>6, <1>7, <1>8, <1>9

LEMMA VmWritten ==
    ASSUME TablesInv, SeedFits, OnCourse, SeedWrites, NEW i, i = Head(seed.todo), seed.section = 4
    PROVE  (\A j \in Todo' : MeantVm(j)') /\ GuestsCovered' /\ LbsAgree' /\ NodesFit' /\ IfacesThere' /\ IfacesNeeded'
  BY VmWrite, GuestAddressWritten, GuestStatusWritten

\* An interface is deleted: what stays is still needed and closed.
LEMMA InterfaceWritten ==
    ASSUME TablesInv, SeedFits, OnCourse, SeedWrites, NEW i, i = Head(seed.todo), seed.section = 3
    PROVE  PruneCovered' /\ Pruning' /\ LbsAgree' /\ NodesFit' /\ IfacesThere'
<1> DEFINE x == i.on
<1>1. /\ live' = live /\ Todo = {i} \cup Todo' /\ seed'.section = seed.section /\ seed'.todo = Tail(seed.todo)
      /\ seed.todo # <<>>
  BY ItemDone
<1>2. x \in Ifaces /\ i = Item("prune", x, <<>>) /\ obj' = obj /\ addr' = addr /\ ifaces' = ifaces \ {x}
  BY InterfaceWrite
<1>3. PruneCovered /\ Pruning /\ LbsAgree /\ NodesFit /\ IfacesThere
  BY DEF OnCourse, Covered, Finished
<1>4. Removing = {x} \cup Removing'
  BY <1>1, <1>2 DEF Removing, Item
<1>5. ifaces' \ Removing' = ifaces \ Removing
  BY <1>2, <1>4
<1>6. Removing \cap (live.ifaces \cup Pinned) = {} /\ Closed(ifaces \ Removing, ifaces) /\ InOrder(seed.todo)
  BY <1>3 DEF Pruning
<1>7. PruneCovered'
  <2>1. Prune => Needed(ifaces \ Removing)
    BY <1>3 DEF PruneCovered
  <2>2. \A have : Needed(have) => Needed(have)'
    BY <1>1 DEF Needed, Closed
  <2> QED
    BY <1>5, <2>1, <2>2 DEF PruneCovered, Needed
<1>8. Pruning'
  <2>1. Removing' \cap (live'.ifaces \cup Pinned) = {}
    BY <1>1, <1>4, <1>6
  <2>2. Closed(ifaces' \ Removing', ifaces')
    BY <1>2, <1>5, <1>6 DEF Closed
  <2>3. InOrder(Tail(seed.todo))
    <3>1. seed.todo \in Seq(InterfaceItems)
      BY DEF SeedFits, TodoFits
    <3>2. /\ Len(seed.todo) > 0 /\ DOMAIN seed.todo = 1..Len(seed.todo)
          /\ DOMAIN Tail(seed.todo) = 1..(Len(seed.todo) - 1)
          /\ \A k \in 1..(Len(seed.todo) - 1) : Tail(seed.todo)[k] = seed.todo[k + 1]
      BY <1>1, <3>1
    <3>3. ASSUME NEW j \in DOMAIN Tail(seed.todo), NEW k \in DOMAIN Tail(seed.todo),
                 Tail(seed.todo)[j].on \in Uses[Tail(seed.todo)[k].on]
          PROVE  k < j
      <4>1. j + 1 \in DOMAIN seed.todo /\ k + 1 \in DOMAIN seed.todo /\ j \in Int /\ k \in Int
        BY <3>1, <3>2
      <4>2. seed.todo[j + 1].on \in Uses[seed.todo[k + 1].on]
        <5>1. Tail(seed.todo)[j] = seed.todo[j + 1] /\ Tail(seed.todo)[k] = seed.todo[k + 1]
          BY <3>2
        <5> QED
          BY <3>3, <5>1
      <4>3. k + 1 < j + 1
        BY <1>6, <4>1, <4>2 DEF InOrder
      <4> QED
        BY <4>1, <4>3
    <3> QED
      BY <3>3 DEF InOrder
  <2> QED
    BY <1>1, <2>1, <2>2, <2>3 DEF Pruning
<1>9. LbsAgree' /\ NodesFit'
  BY <1>1, <1>2, <1>3, RowsStay DEF LbsAgree, NodesFit
<1>10. IfacesThere'
  <2>1. live.up \subseteq live.ifaces
    BY Finite DEF TablesInv, NetBoxTypeOK
  <2> QED
    BY <1>1, <1>2, <1>3, <1>4, <1>6, <2>1 DEF IfacesThere
<1> QED
  BY <1>7, <1>8, <1>9, <1>10

\* The row of an address no host has is written.
LEMMA HostsStay ==
    ASSUME TablesInv, live' = live, NEW a \in Addrs, addr[a].on \notin Hosts, NEW row, PutsAddr(a, row),
           NodesFit, GuestsFit, IfacesThere, IfacesNeeded
    PROVE  NodesFit' /\ GuestsFit' /\ IfacesThere' /\ IfacesNeeded'
<1>1. obj' = obj /\ ifaces' = ifaces /\ \A b \in Addrs : b # a => addr'[b] = addr[b]
  BY AddrRows
<1>2. ASSUME NEW h \in Hosts, Addressed(h) PROVE Addressed(h)'
  <2>1. AddrOf[h] # a /\ AddrOf[h] \in Addrs
    BY <1>2, NetBoxAssumption DEF Addressed
  <2> QED
    BY <1>1, <1>2, <2>1, SameAddressed
<1>3. NodesFit'
  <2>1. ASSUME NEW n \in Nodes PROVE NodeAgrees(n)' /\ Addressed(n)'
    BY <1>1, <1>2, SameObject DEF NodesFit, Hosts
  <2> QED
    BY <2>1 DEF NodesFit
<1>4. GuestsFit'
  <2>1. ASSUME NEW g \in Guests PROVE GuestAgrees(g)' /\ GuestAddressed(g)'
    <3>1. GuestAgrees(g) /\ GuestAddressed(g) /\ g \in Hosts
      BY DEF GuestsFit, Hosts
    <3>2. GuestAgrees(g)'
      BY <1>1, <3>1, SameObject
    <3>3. CASE live.guest[g] # "gone" /\ obj[g].status # "decommissioning"
      <4>1. Addressed(g)'
        BY <1>2, <3>1, <3>3 DEF GuestAddressed
      <4> QED
        BY <3>2, <4>1 DEF GuestAddressed
    <3>4. CASE ~(live.guest[g] # "gone" /\ obj[g].status # "decommissioning")
      BY <1>1, <3>2, <3>4 DEF GuestAddressed
    <3> QED
      BY <3>3, <3>4
  <2> QED
    BY <2>1 DEF GuestsFit
<1>5. IfacesThere' /\ IfacesNeeded'
  BY <1>1 DEF IfacesThere, IfacesNeeded, Needed, Closed
<1> QED
  BY <1>3, <1>4, <1>5

\* What is no one else's is no host's, and its record says what it is for.
LEMMA NotTaken ==
    ASSUME TablesInv, NEW a \in Addrs, ~Taken(a)
    PROVE  addr[a].on \notin Hosts /\ (addr[a].status # "absent" => addr[a].desc = "resv" /\ a \notin Pool)
<1>1. /\ TidyRow(obj, a, addr[a]) /\ addr[a].on \in Objects \cup {Nobody}
      /\ addr[a].status = "absent" => addr[a].on = Nobody
  BY AddressIs
<1>2. Nobody \notin Hosts
  BY NetBoxAssumption DEF Objects
<1> QED
  BY <1>1, <1>2 DEF Taken, TidyRow, Objects

LEMMA LeaseItemsOn ==
    ASSUME SeedFits, seed.section \in {5, 7}, NEW j \in Todo
    PROVE  j.on \in Addrs
<1>1. seed.todo \in Seq(ReservationItems \cup DnsItems)
  BY DEF SeedFits, TodoFits
<1>2. j \in ReservationItems \cup DnsItems
  BY <1>1 DEF Todo, Range
<1> QED
  BY <1>2 DEF ReservationItems, DnsItems, Items

\* The record of a reservation is written or deprecated.
LEMMA LeaseWritten ==
    ASSUME TablesInv, SeedFits, OnCourse, SeedWrites, NEW i, i = Head(seed.todo), seed.section = 5
    PROVE  /\ \A j \in Todo' : MeantLease(j)'
           /\ LeasesCovered' /\ LbsAgree' /\ NodesFit' /\ IfacesThere' /\ IfacesNeeded' /\ GuestsFit' /\ RecordKept'
<1> DEFINE a == i.on
<1>1. /\ live' = live /\ Todo' \subseteq Todo /\ i \in Todo /\ seed'.record = seed.record
      /\ \A act, on : ToWrite(act, on) => ToWrite(act, on)' \/ (i.act = act /\ i.on = on)
  BY ItemDone, OthersToDo
<1>2. /\ (\A j \in Todo : MeantLease(j)) /\ LeasesCovered /\ LbsAgree /\ NodesFit /\ IfacesThere /\ IfacesNeeded
      /\ GuestsFit /\ RecordKept
  BY DEF OnCourse, Meant, Covered, Finished
<1>3. /\ a \in Addrs
      /\ ~Taken(a) /\ (IF i.act = "addr" THEN live.lease[a] # Nobody ELSE live.lease[a] = Nobody)
  BY <1>1, <1>2, LeaseItemsOn DEF MeantLease
<1>4. i.act # "addr" => addr[a].status # "absent"
  BY ReservationWrite
<1>5. addr[a].on \notin Hosts /\ a \notin Pool /\ (i.act # "addr" => addr[a].desc = "resv")
  <2>1. live.lease[a] # Nobody => a \notin Pool
    BY DEF TablesInv, Apart
  <2>2. a \in Addrs /\ ~Taken(a)
    BY <1>3
  <2>3. addr[a].on \notin Hosts /\ (addr[a].status # "absent" => addr[a].desc = "resv" /\ a \notin Pool)
    BY <2>2, NotTaken
  <2>4. CASE i.act = "addr"
    BY <1>3, <2>1, <2>3, <2>4
  <2>5. CASE i.act # "addr"
    BY <1>4, <2>3, <2>5
  <2> QED
    BY <2>4, <2>5
<1>6. PICK row : /\ PutsAddr(a, row) /\ row.desc = "resv" /\ row.on = addr[a].on
                 /\ i.act = "addr" => row.status = "dhcp"
                 /\ i.act # "addr" => row.status = "deprecated"
  <2>1. CASE i.act = "addr"
    <3>1. PutsAddr(a, ARow("dhcp", addr[a].vip, "resv", addr[a].on, addr[a].dns))
      BY <2>1, ReservationWrite
    <3>2. \A s, v, d, o, n : LET r == ARow(s, v, d, o, n) IN r.status = s /\ r.desc = d /\ r.on = o
      BY DEF ARow
    <3> QED
      BY <2>1, <3>1, <3>2
  <2>2. CASE i.act # "addr"
    <3>1. PutsAddr(a, ARow("deprecated", addr[a].vip, addr[a].desc, addr[a].on, addr[a].dns))
      BY <2>2, ReservationWrite
    <3>2. \A s, v, d, o, n : LET r == ARow(s, v, d, o, n) IN r.status = s /\ r.desc = d /\ r.on = o
      BY DEF ARow
    <3> QED
      BY <1>5, <2>2, <3>1, <3>2
  <2> QED
    BY <2>1, <2>2
<1>7. obj' = obj /\ ifaces' = ifaces /\ addr'[a] = row /\ \A b \in Addrs : b # a => addr'[b] = addr[b]
  BY <1>3, <1>6, AddrRows
<1>8. LbAgrees(a)' /\ ~Taken(a)' /\ LeaseAgrees(a)'
  <2>1. a \notin live.lb
    BY <1>5 DEF TablesInv, Apart
  <2>2. LbAgrees(a)' /\ ~Taken(a)'
    BY <1>1, <1>5, <1>6, <1>7, <2>1 DEF LbAgrees, Taken
  <2>3. LeaseAgrees(a)'
    BY <1>1, <1>3, <1>6, <1>7 DEF LeaseAgrees
  <2> QED
    BY <2>2, <2>3
<1>9. \A b \in Addrs : b # a => /\ (LbAgrees(b)' <=> LbAgrees(b)) /\ (Taken(b)' <=> Taken(b))
                               /\ (LeaseAgrees(b)' <=> LeaseAgrees(b))
  BY <1>1, <1>7, SameAddress
<1>10. \A b \in Addrs : Taken(b)' <=> Taken(b)
  BY <1>3, <1>8, <1>9
<1>11. \A j \in Todo' : MeantLease(j)'
  BY <1>1, <1>2, <1>10, LeaseItemsOn DEF MeantLease
<1>12. LeasesCovered'
  <2>1. ASSUME NEW b \in Addrs PROVE LeaseAgrees(b)' \/ ToWrite("old_addr", b)' \/ ToWrite("addr", b)'
    <3>1. LeaseAgrees(b) \/ ToWrite("old_addr", b) \/ ToWrite("addr", b)
      BY <1>2 DEF LeasesCovered
    <3>2. b # a => /\ ToWrite("old_addr", b) => ToWrite("old_addr", b)'
                   /\ ToWrite("addr", b) => ToWrite("addr", b)'
      BY <1>1
    <3> QED
      BY <1>8, <1>9, <3>1, <3>2
  <2> QED
    BY <2>1 DEF LeasesCovered
<1>13. LbsAgree'
  BY <1>2, <1>8, <1>9 DEF LbsAgree
<1>14. NodesFit' /\ GuestsFit' /\ IfacesThere' /\ IfacesNeeded'
  BY <1>1, <1>2, <1>3, <1>5, <1>6, HostsStay
<1>15. RecordKept'
  <2>1. seed.record = {b \in Addrs : live.lease[b] # Nobody /\ ~Taken(b)}
    BY <1>2 DEF RecordKept
  <2>2. seed'.record = {b \in Addrs : live'.lease[b] # Nobody /\ ~Taken(b)'}
    BY <1>1, <1>10, <2>1
  <2> QED
    BY <2>2 DEF RecordKept
<1> QED
  BY <1>11, <1>12, <1>13, <1>14, <1>15

\* What the earlier sections leave, and the list of what is recordable.
EarlierParts == LbsAgree /\ NodesFit /\ IfacesThere /\ IfacesNeeded /\ GuestsFit

\* The row of a thing says nothing of hosts and of addresses.
LEMMA ThingRow ==
    ASSUME TablesInv, live' = live, NEW t \in Things, NEW row, PutsObj(t, row), EarlierParts
    PROVE  /\ EarlierParts'
           /\ \A a \in Addrs : (Taken(a)' <=> Taken(a)) /\ (LeaseAgrees(a)' <=> LeaseAgrees(a))
<1>1. t \in Objects /\ \A h \in Hosts : h # t /\ h \in Objects
  BY NetBoxAssumption DEF Objects
<1>2. addr' = addr /\ ifaces' = ifaces /\ \A p \in Objects : p # t => obj'[p] = obj[p]
  BY <1>1, ObjRows
<1>3. \A a : (LbAgrees(a)' <=> LbAgrees(a)) /\ (Taken(a)' <=> Taken(a)) /\ (LeaseAgrees(a)' <=> LeaseAgrees(a))
  BY <1>2, SameAddress
<1>4. \A h \in Hosts : obj'[h] = obj[h]
  BY <1>1, <1>2
<1>5. \A h \in Hosts : /\ (NodeAgrees(h)' <=> NodeAgrees(h)) /\ (GuestAgrees(h)' <=> GuestAgrees(h))
                       /\ (Addressed(h)' <=> Addressed(h))
  BY <1>2, <1>4, SameObject DEF Addressed
<1>6. NodesFit' /\ GuestsFit'
  <2>1. NodesFit'
    BY <1>5 DEF NodesFit, Hosts, EarlierParts
  <2>2. ASSUME NEW g \in Guests PROVE GuestAgrees(g)' /\ GuestAddressed(g)'
    <3>1. g \in Hosts /\ GuestAgrees(g) /\ GuestAddressed(g)
      BY DEF Hosts, GuestsFit, EarlierParts
    <3>2. GuestAddressed(g)' <=> GuestAddressed(g)
      BY <1>4, <1>5, <3>1 DEF GuestAddressed
    <3> QED
      BY <1>5, <3>1, <3>2
  <2> QED
    BY <2>1, <2>2 DEF GuestsFit
<1>7. LbsAgree'
  BY <1>3 DEF LbsAgree, EarlierParts
<1>8. IfacesThere' /\ IfacesNeeded'
  BY <1>2 DEF IfacesThere, IfacesNeeded, Needed, Closed, EarlierParts
<1> QED
  BY <1>3, <1>6, <1>7, <1>8 DEF EarlierParts

LEMMA ThingItemsOn ==
    ASSUME SeedFits, seed.section = 6, NEW j \in Todo
    PROVE  /\ Whose(j) \in Things /\ (j.act # "addr" => j.on = Whose(j))
           /\ j.act = "addr" => j.on \in Addrs
<1>1. seed.todo \in Seq(IotItems)
  BY DEF SeedFits, TodoFits
<1>2. j \in IotItems
  BY <1>1 DEF Todo, Range
<1>3. CASE j \in Items("addr", Addrs, {ReservedFor(t) : t \in Things})
  BY <1>3 DEF Items, Whose, ReservedFor
<1>4. CASE j \notin Items("addr", Addrs, {ReservedFor(t) : t \in Things})
  BY <1>2, <1>4 DEF IotItems, Items, Whose
<1> QED
  BY <1>3, <1>4

LEMMA RecordStays ==
    ASSUME seed'.record = seed.record, live' = live, RecordKept, seed.section >= 5,
           \A a \in Addrs : Taken(a)' <=> Taken(a)
    PROVE  RecordKept'
<1>1. seed.record = {b \in Addrs : live.lease[b] # Nobody /\ ~Taken(b)}
  BY DEF RecordKept
<1>2. seed'.record = {b \in Addrs : live'.lease[b] # Nobody /\ ~Taken(b)'}
  BY <1>1
<1> QED
  BY <1>2 DEF RecordKept

\* A thing's row is written: it is then as it should be, and what is said of
\* the others stays.
LEMMA ThingWritten ==
    ASSUME TablesInv, SeedFits, OnCourse, SeedWrites, NEW i, i = Head(seed.todo), seed.section = 6, i.act # "addr"
    PROVE  /\ \A j \in Todo' : MeantThing(j)'
           /\ ThingsCovered' /\ EarlierParts' /\ LeasesAgree' /\ RecordKept'
<1> DEFINE t == i.on
<1>1. /\ live' = live /\ Todo' \subseteq Todo /\ i \in Todo /\ seed'.record = seed.record
      /\ \A act, on : ToWrite(act, on) => ToWrite(act, on)' \/ (i.act = act /\ i.on = on)
      /\ \A p : Looked(p) => Looked(p)'
  BY ItemDone, OthersToDo
<1>2. (\A j \in Todo : MeantThing(j)) /\ ThingsCovered /\ EarlierParts /\ LeasesAgree /\ RecordKept
  BY DEF OnCourse, Meant, Covered, Finished, EarlierParts
<1>3. t \in Things /\ t \in Objects /\ Whose(i) = t /\ MeantThing(i)
  BY <1>1, <1>2, ThingItemsOn DEF Objects
<1>4. PICK row :
         /\ PutsObj(t, row) /\ row.mark /\ row.status \in {"active", "offline"}
         /\ \/ i.act = "old_obj" /\ row.status = "offline" /\ There(t) /\ obj[t].mark /\ ~Reserves(t)
            \/ i.act = "obj" /\ row.status = "active" /\ Reserves(t) /\ ~Kept(t)
  <2>2. CASE i.act = "old_obj"
    <3> DEFINE row == ORow("offline", obj[t].mark, obj[t].role, obj[t].shape, obj[t].login)
    <3>1. PutsObj(t, row) /\ row.status = "offline" /\ row.mark = obj[t].mark
      BY <2>2, ThingWrite DEF ORow
    <3>2. There(t) /\ obj[t].mark /\ ~Reserves(t)
      BY <1>3, <2>2 DEF MeantThing, OwnThings
    <3> HIDE DEF row
    <3> QED
      BY <2>2, <3>1, <3>2
  <2>3. CASE i.act = "obj"
    <3> DEFINE row == ORow("active", TRUE, obj[t].role, obj[t].shape, obj[t].login)
    <3>1. PutsObj(t, row) /\ row.status = "active" /\ row.mark
      BY <2>3, ThingWrite DEF ORow
    <3>2. Reserves(t) /\ ~Kept(t)
      BY <1>3, <2>3 DEF MeantThing
    <3> HIDE DEF row
    <3> QED
      BY <2>3, <3>1, <3>2
  <2> QED
    BY <2>2, <2>3, ThingWrite
<1>5. /\ addr' = addr /\ ifaces' = ifaces /\ obj'[t] = row
      /\ \A p \in Objects : p # t => obj'[p] = obj[p]
  BY <1>3, <1>4, ObjRows
<1>6. EarlierParts' /\ \A a \in Addrs : (Taken(a)' <=> Taken(a)) /\ (LeaseAgrees(a)' <=> LeaseAgrees(a))
  BY <1>1, <1>2, <1>3, <1>4, ThingRow
<1>7. \A p : Reserves(p)' <=> Reserves(p)
  BY <1>1 DEF Reserves
<1>8. There(t)' /\ ~Kept(t)' /\ ThingGone(t)' /\ ThingAgrees(t)'
  <2>1. There(t)' /\ ~Kept(t)'
    BY <1>4, <1>5 DEF There, Kept
  <2>2. ThingGone(t)'
    BY <1>4, <1>5, <1>7 DEF ThingGone
  <2>3. ThingAgrees(t)'
    BY <1>4, <1>5, <1>7, <2>1 DEF ThingAgrees
  <2> QED
    BY <2>1, <2>2, <2>3
<1>9. \A p \in Things : p # t => /\ (Kept(p)' <=> Kept(p)) /\ (ThingGone(p)' <=> ThingGone(p))
                                /\ (ThingAgrees(p)' <=> ThingAgrees(p)) /\ (p \in OwnThings' <=> p \in OwnThings)
  <2>1. ASSUME NEW p \in Things, p # t PROVE obj'[p] = obj[p]
    BY <1>5, <2>1 DEF Objects
  <2>2. ASSUME NEW p \in Things, p # t PROVE p \in OwnThings' <=> p \in OwnThings
    BY <2>1, <2>2 DEF OwnThings, There
  <2> QED
    BY <1>1, <2>1, <2>2, SameObject
<1>10. ASSUME NEW j \in Todo' PROVE MeantThing(j)'
  <2>1. j \in Todo /\ MeantThing(j) /\ Whose(j) \in Things /\ (j.act # "addr" => j.on = Whose(j))
    BY <1>1, <1>2, ThingItemsOn
  <2>2. CASE j.act = "old_obj"
    <3>1. j.on \in OwnThings' /\ obj'[j.on].status # "decommissioning"
      <4>1. CASE j.on = t
        BY <1>3, <1>4, <1>5, <1>8, <4>1 DEF OwnThings
      <4>2. CASE j.on # t
        <5>1. j.on \in OwnThings /\ obj[j.on].status # "decommissioning" /\ j.on \in Things /\ j.on \in Objects
          BY <2>1, <2>2 DEF MeantThing, Objects
        <5> QED
          BY <1>5, <1>9, <4>2, <5>1
      <4> QED
        BY <4>1, <4>2
    <3>2. ~Reserves(j.on)'
      BY <1>7, <2>1, <2>2 DEF MeantThing
    <3> QED
      BY <2>2, <3>1, <3>2 DEF MeantThing
  <2>3. CASE j.act # "old_obj"
    <3>1. Reserves(Whose(j))' /\ (j.act # "look" => ~Kept(Whose(j))')
      <4>1. Reserves(Whose(j)) /\ (j.act # "look" => ~Kept(Whose(j)))
        BY <2>1, <2>3 DEF MeantThing
      <4>2. CASE Whose(j) = t
        BY <1>7, <1>8, <4>1, <4>2
      <4>3. CASE Whose(j) # t
        BY <1>7, <1>9, <2>1, <4>1, <4>3
      <4> QED
        BY <4>2, <4>3
    <3>2. j.act = "addr" => j.on \in seed'.record /\ live'.lease[j.on] = j.set.on
      BY <1>1, <2>1, <2>3 DEF MeantThing
    <3> QED
      BY <2>3, <3>1, <3>2 DEF MeantThing, Whose
  <2> QED
    BY <2>2, <2>3
<1>11. ASSUME NEW p \in Things
       PROVE  /\ ThingGone(p)' \/ ToWrite("old_obj", p)'
              /\ ThingAgrees(p)' \/ Looked(p)' \/ ToWrite("obj", p)'
  <2>1. /\ ThingGone(p) \/ ToWrite("old_obj", p)
        /\ ThingAgrees(p) \/ Looked(p) \/ ToWrite("obj", p)
    BY <1>2 DEF ThingsCovered
  <2>2. p # t => (ToWrite("old_obj", p) => ToWrite("old_obj", p)') /\ (ToWrite("obj", p) => ToWrite("obj", p)')
    BY <1>1
  <2>3. Looked(p) => Looked(p)'
    BY <1>1
  <2>4. CASE p = t
    BY <1>8, <2>4
  <2>5. CASE p # t
    <3>1. (ThingGone(p)' <=> ThingGone(p)) /\ (ThingAgrees(p)' <=> ThingAgrees(p))
      BY <1>9, <2>5
    <3> QED
      BY <2>1, <2>2, <2>3, <2>5, <3>1
  <2> QED
    BY <2>4, <2>5
<1>12. ASSUME NEW a \in Addrs PROVE ThingAddressed(a)' \/ Looked(live.lease[a])' \/ ToWrite("addr", a)'
  <2>1. ThingAddressed(a) \/ Looked(live.lease[a]) \/ ToWrite("addr", a)
    BY <1>2 DEF ThingsCovered
  <2>2. ToWrite("addr", a) => ToWrite("addr", a)'
    BY <1>1
  <2>3. Looked(live.lease[a]) => Looked(live.lease[a])'
    BY <1>1 DEF Looked
  <2>4. ThingAddressed(a) => ThingAddressed(a)'
    <3>1. ASSUME ThingAddressed(a), NEW p, p = live.lease[a], p \in Things, ~Kept(p)', ~Taken(a)'
          PROVE  addr'[a].on = p
      <4>1. Reserves(p)
        BY <3>1 DEF Reserves
      <4>2. ~Kept(p)
        BY <1>4, <1>9, <3>1, <4>1
      <4> QED
        BY <1>5, <1>6, <3>1, <4>2 DEF ThingAddressed
    <3> QED
      BY <1>1, <3>1 DEF ThingAddressed
  <2> QED
    BY <2>1, <2>2, <2>3, <2>4
<1>13. ThingsCovered'
  BY <1>11, <1>12 DEF ThingsCovered
<1>14. LeasesAgree' /\ RecordKept'
  BY <1>1, <1>2, <1>6, RecordStays DEF LeasesAgree
<1> QED
  BY <1>6, <1>10, <1>13, <1>14

\* The address of a thing is written.
LEMMA ReservedWritten ==
    ASSUME TablesInv, SeedFits, OnCourse, SeedWrites, NEW i, i = Head(seed.todo), seed.section = 6, i.act = "addr"
    PROVE  /\ \A j \in Todo' : MeantThing(j)'
           /\ ThingsCovered' /\ EarlierParts' /\ LeasesAgree' /\ RecordKept'
<1> DEFINE a == i.on
           t == i.set.on
<1>1. /\ live' = live /\ Todo' \subseteq Todo /\ i \in Todo /\ seed'.record = seed.record
      /\ \A act, on : ToWrite(act, on) => ToWrite(act, on)' \/ (i.act = act /\ i.on = on)
      /\ \A p : Looked(p) => Looked(p)'
  BY ItemDone, OthersToDo
<1>2. (\A j \in Todo : MeantThing(j)) /\ ThingsCovered /\ EarlierParts /\ LeasesAgree /\ RecordKept
  BY DEF OnCourse, Meant, Covered, Finished, EarlierParts
<1>3. /\ a \in Addrs /\ t \in Things /\ a \in seed.record /\ live.lease[a] = t
  <2>1. MeantThing(i) /\ a \in Addrs /\ Whose(i) \in Things
    BY <1>1, <1>2, ThingItemsOn
  <2> QED
    BY <2>1 DEF MeantThing, Whose
<1>4. ~Taken(a) /\ live.lease[a] # Nobody /\ t \notin Hosts /\ t # Nobody /\ a \notin Pool
  <2>1. ~Taken(a) /\ live.lease[a] # Nobody
    BY <1>2, <1>3 DEF RecordKept
  <2>2. a \notin Pool
    BY <2>1 DEF TablesInv, Apart
  <2> QED
    BY <1>3, <2>1, <2>2, NetBoxAssumption DEF Objects
<1>5. PICK row : PutsAddr(a, row) /\ row.status = "dhcp" /\ row.desc = "resv" /\ row.on = t
  <2>1. PutsAddr(a, ARow("dhcp", addr[a].vip, "resv", t, addr[a].dns))
    BY ThingWrite
  <2>2. \A s, v, d, o, n : ARow(s, v, d, o, n).status = s /\ ARow(s, v, d, o, n).desc = d /\ ARow(s, v, d, o, n).on = o
    BY DEF ARow
  <2> QED
    BY <2>1, <2>2
<1>6. obj' = obj /\ ifaces' = ifaces /\ addr'[a] = row /\ \A b \in Addrs : b # a => addr'[b] = addr[b]
  BY <1>3, <1>5, AddrRows
<1>7. LbAgrees(a)' /\ ~Taken(a)' /\ LeaseAgrees(a)'
  <2>1. a \notin live.lb
    BY <1>4 DEF TablesInv, Apart
  <2>2. LbAgrees(a)' /\ ~Taken(a)'
    BY <1>1, <1>4, <1>5, <1>6, <2>1 DEF LbAgrees, Taken
  <2>3. LeaseAgrees(a)'
    BY <1>1, <1>4, <1>5, <1>6 DEF LeaseAgrees
  <2> QED
    BY <2>2, <2>3
<1>8. \A b \in Addrs : b # a => /\ (LbAgrees(b)' <=> LbAgrees(b)) /\ (Taken(b)' <=> Taken(b))
                               /\ (LeaseAgrees(b)' <=> LeaseAgrees(b))
  BY <1>1, <1>6, SameAddress
<1>9. \A b \in Addrs : Taken(b)' <=> Taken(b)
  BY <1>4, <1>7, <1>8
<1>10. EarlierParts'
  <2>1. addr[a].on \notin Hosts
    BY <1>3, <1>4, NotTaken
  <2>2. NodesFit /\ GuestsFit /\ IfacesThere /\ IfacesNeeded /\ LbsAgree
    BY <1>2 DEF EarlierParts
  <2>3. NodesFit' /\ GuestsFit' /\ IfacesThere' /\ IfacesNeeded'
    BY <1>1, <1>3, <1>5, <2>1, <2>2, HostsStay
  <2>4. LbsAgree'
    BY <1>7, <1>8, <2>2 DEF LbsAgree
  <2> QED
    BY <2>3, <2>4 DEF EarlierParts
<1>11. \A o : /\ (Kept(o)' <=> Kept(o)) /\ (ThingGone(o)' <=> ThingGone(o)) /\ (ThingAgrees(o)' <=> ThingAgrees(o))
              /\ (Reserves(o)' <=> Reserves(o))
  BY <1>1, <1>6, SameObject
<1>12. \A j \in Todo' : MeantThing(j)'
  BY <1>1, <1>2, <1>6, <1>11 DEF MeantThing, Whose, OwnThings, There
<1>13. ASSUME NEW b \in Addrs PROVE ThingAddressed(b)' \/ Looked(live.lease[b])' \/ ToWrite("addr", b)'
  <2>1. ThingAddressed(b) \/ Looked(live.lease[b]) \/ ToWrite("addr", b)
    BY <1>2 DEF ThingsCovered
  <2>2. b = a \/ (ToWrite("addr", b) => ToWrite("addr", b)')
    BY <1>1
  <2>3. Looked(live.lease[b]) => Looked(live.lease[b])'
    BY <1>1 DEF Looked
  <2>4. b = a => ThingAddressed(b)'
    BY <1>1, <1>3, <1>5, <1>6 DEF ThingAddressed
  <2>5. b # a => (ThingAddressed(b)' <=> ThingAddressed(b))
    BY <1>1, <1>6, <1>8, <1>11 DEF ThingAddressed
  <2> QED
    BY <2>1, <2>2, <2>3, <2>4, <2>5
<1>14. ThingsCovered'
  <2>1. ASSUME NEW p \in Things
        PROVE  /\ ThingGone(p)' \/ ToWrite("old_obj", p)'
               /\ ThingAgrees(p)' \/ Looked(p)' \/ ToWrite("obj", p)'
    <3>1. /\ ThingGone(p) \/ ToWrite("old_obj", p)
          /\ ThingAgrees(p) \/ Looked(p) \/ ToWrite("obj", p)
      BY <1>2 DEF ThingsCovered
    <3>2. (ToWrite("old_obj", p) => ToWrite("old_obj", p)') /\ (ToWrite("obj", p) => ToWrite("obj", p)')
      BY <1>1
    <3>3. Looked(p) => Looked(p)'
      BY <1>1
    <3> QED
      BY <1>11, <3>1, <3>2, <3>3
  <2> QED
    BY <1>13, <2>1 DEF ThingsCovered
<1>15. LeasesAgree' /\ RecordKept'
  <2>1. LeasesAgree'
    BY <1>2, <1>7, <1>8 DEF LeasesAgree
  <2>2. RecordKept'
    BY <1>1, <1>2, <1>9, RecordStays
  <2> QED
    BY <2>1, <2>2
<1> QED
  BY <1>10, <1>12, <1>14, <1>15

\* A name is written or taken.
LEMMA NameWritten ==
    ASSUME TablesInv, SeedFits, OnCourse, SeedWrites, NEW i, i = Head(seed.todo), seed.section = 7
    PROVE  /\ \A j \in Todo' : MeantName(j)'
           /\ NamesCovered' /\ EarlierParts' /\ LeasesAgree' /\ ThingsFit' /\ RecordKept'
<1> DEFINE a == i.on
<1>1. /\ live' = live /\ Todo' \subseteq Todo /\ i \in Todo /\ seed'.record = seed.record
      /\ \A act, on : ToWrite(act, on) => ToWrite(act, on)' \/ (i.act = act /\ i.on = on)
  BY ItemDone, OthersToDo
<1>2. /\ (\A j \in Todo : MeantName(j)) /\ NamesCovered /\ EarlierParts /\ LeasesAgree /\ ThingsFit /\ RecordKept
  BY DEF OnCourse, Meant, Covered, Finished, EarlierParts
<1>3. /\ a \in Addrs /\ addr[a].status # "absent" /\ i.set.dns \in {"name", "none"} /\ i.act = "old_addr"
      /\ PutsAddr(a, ARow(addr[a].status, addr[a].vip, addr[a].desc, addr[a].on, i.set.dns))
  BY NameWrite
<1>4. /\ obj' = obj /\ ifaces' = ifaces /\ \A b \in Addrs : b # a => addr'[b] = addr[b]
      /\ addr'[a] = ARow(addr[a].status, addr[a].vip, addr[a].desc, addr[a].on, i.set.dns)
  BY <1>3, AddrRows
<1>5. /\ addr'[a].status = addr[a].status /\ addr'[a].vip = addr[a].vip /\ addr'[a].desc = addr[a].desc
      /\ addr'[a].on = addr[a].on /\ addr'[a].dns = i.set.dns
  BY <1>4 DEF ARow
<1>6. \A b \in Addrs : /\ addr'[b].status = addr[b].status /\ addr'[b].vip = addr[b].vip /\ addr'[b].desc = addr[b].desc
                       /\ addr'[b].on = addr[b].on
                       /\ addr'[b].dns = IF b = a THEN i.set.dns ELSE addr[b].dns
  BY <1>4, <1>5
<1>7. \A b \in Addrs : /\ (LbAgrees(b)' <=> LbAgrees(b)) /\ (Taken(b)' <=> Taken(b))
                       /\ (LeaseAgrees(b)' <=> LeaseAgrees(b))
  BY <1>1, <1>6 DEF LbAgrees, Taken, LeaseAgrees
<1>8. \A o : /\ (Kept(o)' <=> Kept(o)) /\ (ThingGone(o)' <=> ThingGone(o)) /\ (ThingAgrees(o)' <=> ThingAgrees(o))
             /\ (NodeAgrees(o)' <=> NodeAgrees(o)) /\ (GuestAgrees(o)' <=> GuestAgrees(o))
  BY <1>1, <1>4, SameObject
<1>9. \A h \in Hosts : (Addressed(h)' <=> Addressed(h)) /\ (GuestAddressed(h)' <=> GuestAddressed(h))
  <2>1. \A h \in Hosts : AddrOf[h] \in Addrs
    BY NetBoxAssumption
  <2>2. \A h \in Hosts : Addressed(h)' <=> Addressed(h)
    BY <1>6, <2>1 DEF Addressed
  <2> QED
    BY <1>1, <1>4, <2>2 DEF GuestAddressed
<1>10. EarlierParts'
  <2>1. LbsAgree'
    BY <1>2, <1>7 DEF LbsAgree, EarlierParts
  <2>2. NodesFit' /\ GuestsFit'
    BY <1>2, <1>8, <1>9 DEF NodesFit, GuestsFit, EarlierParts, Hosts
  <2>3. IfacesThere' /\ IfacesNeeded'
    BY <1>1, <1>2, <1>4 DEF IfacesThere, IfacesNeeded, Needed, Closed, EarlierParts
  <2> QED
    BY <2>1, <2>2, <2>3 DEF EarlierParts
<1>11. ThingsFit'
  <2>1. ASSUME NEW b \in Addrs, ThingAddressed(b) PROVE ThingAddressed(b)'
    BY <1>1, <1>6, <1>7, <1>8, <2>1 DEF ThingAddressed
  <2>2. (\A t \in Things : ThingGone(t) /\ ThingAgrees(t)) /\ \A b \in Addrs : ThingAddressed(b)
    BY <1>2 DEF ThingsFit
  <2>3. \A t \in Things : ThingGone(t)' /\ ThingAgrees(t)'
    BY <1>8, <2>2
  <2>4. \A b \in Addrs : ThingAddressed(b)'
    BY <2>1, <2>2
  <2> QED
    BY <2>3, <2>4 DEF ThingsFit
<1>12. LeasesAgree' /\ RecordKept'
  BY <1>1, <1>2, <1>7, RecordStays DEF LeasesAgree
<1>13. ASSUME NEW j \in Todo' PROVE MeantName(j)'
  <2>1. MeantName(j) /\ j.on \in Addrs
    BY <1>1, <1>2, LeaseItemsOn
  <2>2. addr'[j.on].on = addr[j.on].on /\ obj' = obj
    BY <1>4, <1>6, <2>1
  <2>3. addr[j.on].dns # "hand" => addr'[j.on].dns # "hand"
    BY <1>3, <1>6, <2>1
  <2> QED
    BY <2>1, <2>2, <2>3 DEF MeantName
<1>14. MeantName(i)
  BY <1>1, <1>2
<1>15. NameAgrees(a)'
  BY <1>4, <1>5, <1>14 DEF NameAgrees, MeantName
<1>16. ASSUME NEW b \in Addrs PROVE NameAgrees(b)' \/ ToWrite("old_addr", b)'
  <2>1. NameAgrees(b) \/ ToWrite("old_addr", b)
    BY <1>2 DEF NamesCovered
  <2>2. b # a => (ToWrite("old_addr", b) => ToWrite("old_addr", b)')
    BY <1>1
  <2>3. b # a => (NameAgrees(b)' <=> NameAgrees(b))
    BY <1>4 DEF NameAgrees
  <2> QED
    BY <1>15, <2>1, <2>2, <2>3
<1> QED
  BY <1>10, <1>11, <1>12, <1>13, <1>16 DEF NamesCovered

\* A write leaves the run on its course.
LEMMA WritesOnCourse ==
    ASSUME TablesInv, SeedFits, OnCourse, SeedWrites
    PROVE  OnCourse'
<1>1. /\ seen = live /\ seed'.section = seed.section /\ seed'.seen = seed.seen /\ live' = live
      /\ seed.section \in 1..7
  BY ItemDone, NextItem DEF OnCourse
<1>2. seen' = live'
  BY <1>1 DEF seen
<1>3. CASE seed.section = 1
  BY <1>1, <1>2, <1>3, LbWritten DEF OnCourse, Meant, Covered, Finished, Pruning, RecordKept
<1>4. CASE seed.section = 2
  BY <1>1, <1>2, <1>4, NodeWritten DEF OnCourse, Meant, Covered, Finished, Pruning, RecordKept
<1>5. CASE seed.section = 3
  BY <1>1, <1>2, <1>5, InterfaceWritten DEF OnCourse, Meant, Covered, Finished, RecordKept
<1>6. CASE seed.section = 4
  BY <1>1, <1>2, <1>6, VmWritten DEF OnCourse, Meant, Covered, Finished, Pruning, RecordKept
<1>7. CASE seed.section = 5
  BY <1>1, <1>2, <1>7, LeaseWritten DEF OnCourse, Meant, Covered, Finished, Pruning
<1>8. CASE seed.section = 6
  <2>1. (\A j \in Todo' : MeantThing(j)') /\ ThingsCovered' /\ EarlierParts' /\ LeasesAgree' /\ RecordKept'
    BY <1>8, ThingWritten, ReservedWritten
  <2> QED
    BY <1>1, <1>2, <1>8, <2>1 DEF OnCourse, Meant, Covered, Finished, Pruning, EarlierParts
<1>9. CASE seed.section = 7
  BY <1>1, <1>2, <1>9, NameWritten DEF OnCourse, Meant, Covered, Finished, Pruning, EarlierParts
<1> QED
  BY <1>1, <1>3, <1>4, <1>5, <1>6, <1>7, <1>8, <1>9

-----------------------------------------------------------------------------
(* The invariant of an undisturbed run is kept.                            *)

\* So does a step that changes nothing the run sees.
LEMMA CourseStays ==
    ASSUME OnCourse, UNCHANGED <<obj, addr, ifaces, live, seed>>
    PROVE  OnCourse'
<1>1. seen' = live'
  BY DEF OnCourse, seen
<1>2. Todo' = Todo
  BY DEF Todo
<1>3. \A a : Taken(a)' <=> Taken(a)
  BY RowsStay
<1>4. Meant'
  <2>1. ASSUME NEW i \in Todo
        PROVE  /\ (MeantLb(i)' <=> MeantLb(i)) /\ (MeantNode(i)' <=> MeantNode(i)) /\ (MeantVm(i)' <=> MeantVm(i))
               /\ (MeantName(i)' <=> MeantName(i))
    BY DEF MeantLb, MeantNode, MeantVm, MeantName, Whose
  <2>2. ASSUME NEW i \in Todo PROVE MeantLease(i)' <=> MeantLease(i)
    BY <1>3 DEF MeantLease
  <2>3. ASSUME NEW i \in Todo PROVE MeantThing(i)' <=> MeantThing(i)
    BY DEF MeantThing, Whose, Kept, Reserves, OwnThings, There
  <2> QED
    BY <1>2, <2>1, <2>2, <2>3 DEF Meant, OnCourse
<1>5. /\ \A act, on : ToWrite(act, on)' <=> ToWrite(act, on)
      /\ \A o : Looked(o)' <=> Looked(o)
      /\ Removing' = Removing
  BY <1>2 DEF ToWrite, Looked, Removing
<1>6. LbsCovered' <=> LbsCovered
  BY <1>5, RowsStay DEF LbsCovered
<1>7. (NodesCovered' <=> NodesCovered) /\ (IfacesCovered' <=> IfacesCovered)
  BY <1>5, RowsStay DEF NodesCovered, IfacesCovered
<1>8. PruneCovered' <=> PruneCovered
  BY <1>5 DEF PruneCovered, Needed, Closed
<1>9. (GuestsCovered' <=> GuestsCovered) /\ (LeasesCovered' <=> LeasesCovered) /\ (NamesCovered' <=> NamesCovered)
  BY <1>5, RowsStay DEF GuestsCovered, LeasesCovered, NamesCovered
<1>10. ThingsCovered' <=> ThingsCovered
  <2>1. \A a \in Addrs : Looked(live.lease[a])' <=> Looked(live.lease[a])
    BY <1>2 DEF Looked
  <2> QED
    BY <1>5, <2>1, RowsStay DEF ThingsCovered
<1>11. Covered'
  BY <1>6, <1>7, <1>8, <1>9, <1>10 DEF Covered, OnCourse
<1>12. Finished'
  BY PartsStay DEF Finished, OnCourse
<1>13. Pruning'
  BY <1>5 DEF Pruning, OnCourse, Closed
<1>14. RecordKept'
  <2>1. seed.section >= 5 => seed.record = {a \in Addrs : live.lease[a] # Nobody /\ ~Taken(a)}
    BY DEF OnCourse, RecordKept
  <2>2. seed'.section >= 5 => seed'.record = {a \in Addrs : live'.lease[a] # Nobody /\ ~Taken(a)'}
    BY <1>3, <2>1
  <2> QED
    BY <2>2 DEF RecordKept
<1> QED
  BY <1>1, <1>4, <1>11, <1>12, <1>13, <1>14 DEF OnCourse

\* A run that has just read the sources is on its course.
LEMMA ReadsOnCourse ==
    ASSUME SeedReads
    PROVE  OnCourse'
<1>1. seed'.section = 0 /\ seed'.todo = <<>> /\ seed'.seen = live /\ live' = live
  BY DEF SeedReads, NoRun, outside
<1>2. Todo' = {}
  BY <1>1, NothingInEmpty DEF Todo
<1> QED
  BY <1>1, <1>2 DEF OnCourse, seen, Meant, Covered, Finished, Pruning, RecordKept

\* No step breaks the invariant of an undisturbed run: a step from outside
\* that changes what it sees ends the quiet.
LEMMA QuietKeeps ==
    ASSUME SafeInv, QuietInv, [Next]_vars
    PROVE  QuietInv'
<1>1. CASE UNCHANGED <<obj, addr, ifaces, live, seed, quiet>>
  <2>1. quiet' /\ Running' => quiet /\ Running
    BY <1>1 DEF Running
  <2> QED
    BY <1>1, <2>1, CourseStays DEF QuietInv
<1>2. CASE seed' = NoRun \/ quiet' = FALSE
  BY <1>2 DEF QuietInv, Running, NoRun
<1>3. CASE SeedSteps
  <2>1. CASE SeedReads
    BY <2>1, ReadsOnCourse DEF QuietInv
  <2>2. CASE SeedLists
    BY <2>2, Begins, ListsOnCourse DEF QuietInv, SafeInv, Running
  <2>3. CASE SeedLooks
    <3>1. quiet' = quiet /\ Running
      BY <2>3, NextItem DEF SeedLooks, SafeInv
    <3> QED
      BY <2>3, <3>1, LooksOnCourse DEF QuietInv, SafeInv
  <2>4. CASE SeedWrites
    <3>1. quiet' = quiet /\ Running
      BY <2>4, NextItem DEF SeedWrites, SafeInv
    <3> QED
      BY <2>4, <3>1, WritesOnCourse DEF QuietInv, SafeInv
  <2>5. CASE SeedIsRefused \/ SeedEnds \/ SeedStops
    BY <1>2, <2>5 DEF SeedIsRefused, SeedEnds, SeedStops
  <2> QED
    BY <1>3, <2>1, <2>2, <2>3, <2>4, <2>5 DEF SeedSteps, SeedRuns
<1>4. CASE GuestsJob
  BY <1>1, <1>4 DEF GuestsJob, GuestsRefused, netboxVars, tables, outside, seedVars
<1>5. CASE Termix
  BY <1>1, <1>5 DEF Termix, TxWriteFails, TxStops, netboxVars, tables, outside, seedVars
<1>6. CASE Sources \/ Owner
  <2>1. SeedMissed
    BY <1>6 DEF Sources, Owner
  <2>2. quiet' = FALSE
    BY <2>1 DEF SeedMissed
  <2> QED
    BY <2>2 DEF QuietInv
<1>7. CASE User
  BY <1>1, <1>7 DEF User, UserEdits, tables, seedVars
<1>8. CASE UNCHANGED vars
  BY <1>1, <1>8 DEF vars, netboxVars, tables, outside, seedVars
<1> QED
  BY <1>3, <1>4, <1>5, <1>6, <1>7, <1>8 DEF Next, Seed

-----------------------------------------------------------------------------
(* A run after an undisturbed one finds everything as it should be.        *)

\* A row that has what an item sets stays as it is.
LEMMA AddressWrittenAgain ==
    ASSUME TablesInv, NEW a \in Addrs
    PROVE  /\ addr[a].status = "active" /\ addr[a].vip /\ addr[a].desc = "lb"
                 => Patched(addr[a], LbFields) = addr[a]
           /\ addr[a].status = "dhcp" /\ addr[a].desc = "resv" => Patched(addr[a], Reserved) = addr[a]
           /\ \A t : addr[a].status = "dhcp" /\ addr[a].desc = "resv" /\ addr[a].on = t
                        => Patched(addr[a], ReservedFor(t)) = addr[a]
           /\ \A h : addr[a].status = "active" /\ addr[a].on = h => Patched(addr[a], Address(h).set) = addr[a]
<1>1. addr[a] \in AddrRow /\ addr[a].vip \in BOOLEAN
  BY AddressIs
<1>2. addr[a] = ARow(addr[a].status, addr[a].vip, addr[a].desc, addr[a].on, addr[a].dns)
  BY AddressIs
<1>3. addr[a].status = "active" /\ addr[a].vip /\ addr[a].desc = "lb" => Patched(addr[a], LbFields) = addr[a]
  <2>1. Patched(addr[a], LbFields) = ARow("active", TRUE, "lb", addr[a].on, addr[a].dns)
    BY <1>1, PatchedAddress
  <2>2. addr[a].vip => addr[a].vip = TRUE
    BY <1>1
  <2> QED
    BY <1>2, <2>1, <2>2
<1>4. addr[a].status = "dhcp" /\ addr[a].desc = "resv" => Patched(addr[a], Reserved) = addr[a]
  <2>1. Patched(addr[a], Reserved) = ARow("dhcp", addr[a].vip, "resv", addr[a].on, addr[a].dns)
    BY <1>1, PatchedAddress
  <2> QED
    BY <1>2, <2>1
<1>5. ASSUME NEW t, addr[a].status = "dhcp", addr[a].desc = "resv", addr[a].on = t
      PROVE  Patched(addr[a], ReservedFor(t)) = addr[a]
  <2>1. Patched(addr[a], ReservedFor(t)) = ARow("dhcp", addr[a].vip, "resv", t, addr[a].dns)
    BY <1>1, PatchedAddress
  <2> QED
    BY <1>2, <1>5, <2>1
<1>6. ASSUME NEW h, addr[a].status = "active", addr[a].on = h PROVE Patched(addr[a], Address(h).set) = addr[a]
  <2>1. Patched(addr[a], Address(h).set) = ARow("active", addr[a].vip, addr[a].desc, h, addr[a].dns)
    BY <1>1, PatchedAddress
  <2> QED
    BY <1>2, <1>6, <2>1
<1> QED
  BY <1>3, <1>4, <1>5, <1>6

\* A row that agrees is written as it is.
LEMMA ObjectWrittenAgain ==
    ASSUME TablesInv, NEW o \in Objects
    PROVE  /\ obj[o].status = "active" /\ obj[o].mark => (\A found \in BOOLEAN : Patched(obj[o], ThingFields(found)) = obj[o])
           /\ \A f \in StatusFields : Becomes(obj[o].status, f) = obj[o].status =>
                 /\ Patched(obj[o], f) = obj[o]
                 /\ obj[o].role \/ obj[o].shape = "small" => Patched(obj[o], VmFields(f, obj[o].role)) = obj[o]
<1>1. obj[o] \in ObjRow /\ obj[o].mark \in BOOLEAN /\ obj[o].role \in BOOLEAN
  BY ObjectIs
<1>2. obj[o] = ORow(obj[o].status, obj[o].mark, obj[o].role, obj[o].shape, obj[o].login)
  BY ObjectIs
<1>3. ASSUME obj[o].status = "active", obj[o].mark, NEW found \in BOOLEAN
      PROVE  Patched(obj[o], ThingFields(found)) = obj[o]
  <2>1. Patched(obj[o], ThingFields(found)) = ORow("active", TRUE, obj[o].role, obj[o].shape, obj[o].login)
    BY <1>1, PatchedObject
  <2>2. obj[o].mark = TRUE
    BY <1>1, <1>3
  <2> QED
    BY <1>2, <1>3, <2>1, <2>2
<1>4. ASSUME NEW f \in StatusFields, Becomes(obj[o].status, f) = obj[o].status
      PROVE  /\ Patched(obj[o], f) = obj[o]
             /\ obj[o].role \/ obj[o].shape = "small" => Patched(obj[o], VmFields(f, obj[o].role)) = obj[o]
  <2>1. Patched(obj[o], f) = ORow(Becomes(obj[o].status, f), obj[o].mark, obj[o].role, obj[o].shape, obj[o].login)
    BY <1>1, PatchedObject
  <2>2. Patched(obj[o], VmFields(f, obj[o].role))
          = ORow(Becomes(obj[o].status, f), obj[o].mark, obj[o].role,
                 IF obj[o].role THEN obj[o].shape ELSE "small", obj[o].login)
    BY <1>1, PatchedObject
  <2>3. obj[o].role \/ obj[o].shape = "small" => (IF obj[o].role THEN obj[o].shape ELSE "small") = obj[o].shape
    OBVIOUS
  <2> QED
    BY <1>2, <1>4, <2>1, <2>2, <2>3
<1> QED
  BY <1>3, <1>4

LEMMA HostWrittenAgain ==
    ASSUME TablesInv, NEW h \in Hosts, Addressed(h)
    PROVE  WritesNothing(Address(h))
<1>1. AddrOf[h] \in Addrs /\ addr[AddrOf[h]].status = "active" /\ addr[AddrOf[h]].on = h
  BY NetBoxAssumption DEF Addressed
<1>2. Patched(addr[AddrOf[h]], Address(h).set) = addr[AddrOf[h]]
  BY <1>1, AddressWrittenAgain
<1>3. Address(h).act = "addr" /\ Address(h).on = AddrOf[h]
  BY AddressHas
<1> QED
  BY <1>1, <1>2, <1>3 DEF WritesNothing

\* A look writes nothing.
LEMMA LooksWriteNothing == ASSUME NEW ons, NEW i \in All("look", ons, <<>>) PROVE WritesNothing(i)
  BY InAll DEF WritesNothing

\* Where everything agrees, no section plans a change,
LEMMA AgreedPlansWriteNothing ==
    ASSUME TablesInv, SeedFits, OnCourse, Agreed, SeedLists
    PROVE  \A i \in Todo' : WritesNothing(i)
<1>1. seen = live /\ live \in Live /\ Apart(live) /\ ifaces \subseteq Ifaces
  BY DEF OnCourse, TablesInv, NetBoxTypeOK
<1>2. /\ seed.section \in 0..6 /\ seed'.todo = seed'.todo
      /\ seed.section = 0 => seed'.todo = LbPlan(live)
      /\ seed.section = 1 => seed'.todo = Looks(Nodes)
      /\ seed.section = 2 => seed'.todo \in InterfacePlans(live)
      /\ seed.section = 3 => seed'.todo = VmPlan(live, Retiring)
      /\ seed.section = 4 => seed'.todo = ReservationPlan(live)
      /\ seed.section = 5 => seed'.todo = IotPlan(live)
      /\ seed.section = 6 => seed'.todo = DnsPlan
  BY <1>1, Begins
<1>3. \A act, set : All(act, {}, set) = {}
  BY DEF All
<1>4. CASE seed.section = 0
  <2>1. StaleVips(live) = {}
    BY DEF Agreed, LbsAgree, LbAgrees, StaleVips
  <2>2. Todo' = All("addr", live.lb, LbFields)
    BY <1>1, <1>2, <1>3, <1>4, <2>1, LbPlanIs DEF Todo
  <2>3. ASSUME NEW i \in All("addr", live.lb, LbFields) PROVE WritesNothing(i)
    <3>1. i.act = "addr" /\ i.on \in live.lb /\ i.set = LbFields
      BY InAll
    <3>2. i.on \in Addrs
      BY <1>1, <3>1 DEF Live
    <3>3. addr[i.on].status = "active" /\ addr[i.on].vip /\ addr[i.on].desc = "lb"
      BY <3>1, <3>2 DEF Agreed, LbsAgree, LbAgrees
    <3>4. Patched(addr[i.on], LbFields) = addr[i.on]
      BY <3>2, <3>3, AddressWrittenAgain
    <3> QED
      BY <3>1, <3>3, <3>4 DEF WritesNothing
  <2> QED
    BY <2>2, <2>3
<1>5. CASE seed.section = 1
  BY <1>2, <1>5, LooksFit, LooksWriteNothing DEF Todo
<1>6. CASE seed.section = 2
  <2>1. Doomed(live) = {}
    BY NeededIsKept DEF Doomed, Agreed, IfacesNeeded
  <2>2. Todo' = All("prune", Doomed(live), <<>>)
    BY <1>1, <1>2, <1>6, InterfacePlanIs DEF Todo
  <2> QED
    BY <1>3, <2>1, <2>2
<1>7. CASE seed.section = 3
  <2>1. Todo' = All("look", ToSee(live, Retiring), <<>>)
    BY <1>2, <1>7, LooksFit DEF Todo
  <2> QED
    BY <2>1, LooksWriteNothing
<1>8. CASE seed.section = 4
  <2>1. Stale(live) = {}
    BY DEF Agreed, LeasesAgree, LeaseAgrees, Stale
  <2>2. Todo' = All("addr", Free(live), Reserved)
    BY <1>2, <1>3, <1>8, <2>1, ReservationPlanIs DEF Todo
  <2>3. ASSUME NEW i \in All("addr", Free(live), Reserved) PROVE WritesNothing(i)
    <3>1. i.act = "addr" /\ i.on \in Free(live) /\ i.set = Reserved
      BY InAll
    <3>2. i.on \in Addrs /\ ~Taken(i.on) /\ live.lease[i.on] # Nobody
      BY <3>1 DEF Free
    <3>3. addr[i.on].status = "dhcp" /\ addr[i.on].desc = "resv"
      BY <3>2 DEF Agreed, LeasesAgree, LeaseAgrees
    <3>4. Patched(addr[i.on], Reserved) = addr[i.on]
      BY <3>2, <3>3, AddressWrittenAgain
    <3> QED
      BY <3>1, <3>3, <3>4 DEF WritesNothing
  <2> QED
    BY <2>2, <2>3
<1>9. CASE seed.section = 5
  <2>1. Unreserved(live) = {}
    BY DEF Agreed, ThingsFit, ThingGone, Unreserved, ReservedIn, Reserves, OwnThings
  <2>2. Todo' = All("look", ReservedIn(live), <<>>)
    BY <1>2, <1>3, <1>9, <2>1, IotPlanIs DEF Todo
  <2> QED
    BY <2>2, LooksWriteNothing
<1>10. CASE seed.section = 6
  <2>1. ToName = {} /\ ToUnname = {}
    BY NetBoxAssumption DEF Agreed, NamesFit, NameAgrees, ToName, ToUnname, Ours
  <2>2. Todo' = {}
    BY <1>2, <1>3, <1>10, <2>1, DnsPlanIs DEF Todo
  <2> QED
    BY <2>2
<1> QED
  BY <1>2, <1>4, <1>5, <1>6, <1>7, <1>8, <1>9, <1>10

\* nor does a look,
LEMMA AgreedLooksWriteNothing ==
    ASSUME TablesInv, SeedFits, OnCourse, Agreed, SeedLooks, NEW o, o = Head(seed.todo).on
    PROVE  \A i \in Range(LookWrites(o)) : WritesNothing(i)
<1>1. /\ seen = live /\ live \in Live /\ Running /\ Head(seed.todo) \in Todo
      /\ Head(seed.todo) = Item("look", o, <<>>)
  BY LookIs, NextItem DEF OnCourse, TablesInv, NetBoxTypeOK
<1>2. CASE seed.section = 2 /\ o \in Nodes /\ LookWrites(o) = NodeWrites(o)
  <2> DEFINE f == SyncedStatus(obj[o].status, o \in live.online)
  <2>1. Range(LookWrites(o)) = {Item("obj", o, f), Address(o)} \cup All("iface", UpOn(live, o), <<>>)
    BY <1>1, <1>2, NodeWritesAre
  <2>2. NodeAgrees(o) /\ Addressed(o) /\ o \in Objects /\ o \in Hosts
    BY <1>2 DEF Agreed, NodesFit, Objects, Hosts
  <2>3. There(o) /\ f \in StatusFields /\ Becomes(obj[o].status, f) = obj[o].status
    BY <2>2, SyncedStatusIs DEF NodeAgrees, Synced
  <2> HIDE DEF f
  <2>4. WritesNothing(Item("obj", o, f))
    <3>1. Patched(obj[o], f) = obj[o]
      BY <2>2, <2>3, ObjectWrittenAgain
    <3> QED
      BY <2>3, <3>1, ItemIs DEF WritesNothing
  <2>5. WritesNothing(Address(o))
    BY <2>2, HostWrittenAgain
  <2>6. ASSUME NEW i \in All("iface", UpOn(live, o), <<>>) PROVE WritesNothing(i)
    <3>1. i.act = "iface" /\ i.on \in live.up
      BY InAll DEF UpOn
    <3>2. i.on \in ifaces
      BY <1>2, <3>1 DEF Agreed, IfacesThere
    <3> QED
      BY <3>1, <3>2 DEF WritesNothing
  <2> QED
    BY <2>1, <2>4, <2>5, <2>6
<1>3. CASE seed.section = 4 /\ o \in Guests /\ LookWrites(o) = VmWrites(o)
  <2> DEFINE f == SyncedStatus(obj[o].status, live.guest[o] = "running")
             x == Item("obj", o, VmFields(f, obj[o].role))
  <2>1. Range(LookWrites(o)) = {x, Address(o)}
    BY <1>1, <1>3, VmWritesAre
  <2>2. live.guest[o] # "gone" /\ obj[o].status # "decommissioning"
    BY <1>1, <1>3 DEF OnCourse, Meant, MeantVm, Whose, Item
  <2>3. GuestAgrees(o) /\ GuestAddressed(o) /\ o \in Objects /\ o \in Hosts
    BY <1>3 DEF Agreed, GuestsFit, Objects, Hosts
  <2>4. /\ There(o) /\ f \in StatusFields /\ Becomes(obj[o].status, f) = obj[o].status
        /\ obj[o].role \/ obj[o].shape = "small"
    BY <2>2, <2>3, SyncedStatusIs DEF GuestAgrees, Synced
  <2> HIDE DEF f
  <2>5. WritesNothing(x)
    <3>1. Patched(obj[o], VmFields(f, obj[o].role)) = obj[o]
      BY <2>3, <2>4, ObjectWrittenAgain
    <3>2. x.act = "obj" /\ x.on = o /\ x.set = VmFields(f, obj[o].role)
      BY DEF Item
    <3> HIDE DEF x
    <3> QED
      BY <2>4, <3>1, <3>2 DEF WritesNothing
  <2>6. WritesNothing(Address(o))
    BY <2>2, <2>3, HostWrittenAgain DEF GuestAddressed
  <2> QED
    BY <2>1, <2>5, <2>6
<1>4. CASE seed.section = 6 /\ o \in Things /\ LookWrites(o) = ThingWrites(o)
  <2>1. Reserves(o)
    BY <1>1, <1>4 DEF OnCourse, Meant, MeantThing, Whose, Item
  <2>2. CASE Kept(o)
    BY <1>4, <2>2, ThingWritesAre
  <2>3. CASE ~Kept(o)
    <3>1. Range(LookWrites(o)) = {Item("obj", o, ThingFields(There(o)))} \cup All("addr", LeasesOf(o), ReservedFor(o))
      BY <1>4, <2>3, ThingWritesAre
    <3>2. o \in Objects /\ There(o) /\ obj[o].mark /\ obj[o].status = "active"
      BY <1>4, <2>1, <2>3 DEF Agreed, ThingsFit, ThingAgrees, Objects
    <3>3. WritesNothing(Item("obj", o, ThingFields(There(o))))
      <4>1. Patched(obj[o], ThingFields(There(o))) = obj[o]
        BY <3>2, ObjectWrittenAgain DEF There
      <4> QED
        BY <3>2, <4>1, ItemIs DEF WritesNothing
    <3>4. ASSUME NEW i \in All("addr", LeasesOf(o), ReservedFor(o)) PROVE WritesNothing(i)
      <4>1. i.act = "addr" /\ i.on \in LeasesOf(o) /\ i.set = ReservedFor(o)
        BY InAll
      <4>2. i.on \in Addrs /\ ~Taken(i.on) /\ live.lease[i.on] # Nobody /\ live.lease[i.on] = o
        BY <1>1, <1>4, <4>1 DEF LeasesOf, OnCourse, RecordKept
      <4>3. addr[i.on].status = "dhcp" /\ addr[i.on].desc = "resv"
        BY <4>2 DEF Agreed, LeasesAgree, LeaseAgrees
      <4>4. addr[i.on].on = o
        BY <1>4, <2>3, <4>2 DEF Agreed, ThingsFit, ThingAddressed
      <4>5. Patched(addr[i.on], ReservedFor(o)) = addr[i.on]
        BY <4>2, <4>3, <4>4, AddressWrittenAgain
      <4> QED
        BY <4>1, <4>3, <4>5 DEF WritesNothing
    <3> QED
      BY <3>1, <3>3, <3>4
  <2> QED
    BY <2>2, <2>3
<1> QED
  BY <1>2, <1>3, <1>4, LookIs

\* and so nothing is written.
LEMMA NothingIsWritten ==
    ASSUME TablesInv, SeedFits, SeedWrites, NEW i, i = Head(seed.todo), WritesNothing(i)
    PROVE  UNCHANGED <<obj, addr, ifaces>>
<1>1. obj \in [Objects -> ObjRow] /\ addr \in [Addrs -> AddrRow]
  BY DEF TablesInv, NetBoxTypeOK
<1>2. /\ obj' = IF i.act \in {"obj", "old_obj"} THEN [obj EXCEPT ![i.on] = Patched(obj[i.on], i.set)] ELSE obj
      /\ addr' = IF i.act \in {"addr", "old_addr"} THEN [addr EXCEPT ![i.on] = Patched(addr[i.on], i.set)] ELSE addr
      /\ ifaces' = CASE i.act = "iface" -> ifaces \cup {i.on}
                     [] i.act = "prune" -> ifaces \ {i.on}
                     [] OTHER -> ifaces
  BY DEF SeedWrites
<1>3. obj' = obj
  BY <1>1, <1>2 DEF WritesNothing
<1>4. addr' = addr
  BY <1>1, <1>2 DEF WritesNothing
<1>5. ifaces' = ifaces
  <2>1. i.act = "iface" => i.on \in ifaces
    BY DEF WritesNothing
  <2>2. i.act = "prune" => i.on \notin ifaces
    BY DEF WritesNothing
  <2> QED
    BY <1>2, <2>1, <2>2
<1> QED
  BY <1>3, <1>4, <1>5

\* Why a settled NetBox stays so: nothing was written since.
LEMMA SettledStays ==
    ASSUME SettledInv, UNCHANGED <<obj, addr, ifaces, live>>, settled' => settled /\ quiet',
           \A i \in Todo' : i \in Todo \/ WritesNothing(i)
    PROVE  SettledInv'
<1>1. Agreed' <=> Agreed
  BY PartsStay
<1>2. ASSUME NEW i \in Todo', settled PROVE WritesNothing(i)'
  <2>1. WritesNothing(i)
    BY <1>2 DEF SettledInv
  <2> QED
    BY <2>1 DEF WritesNothing, There
<1> QED
  BY <1>1, <1>2 DEF SettledInv

\* The end of an undisturbed run settles; the next run changes nothing.
LEMMA SeedKeepsSettled ==
    ASSUME SafeInv, QuietInv, SettledInv, SeedSteps
    PROVE  SettledInv' /\ (settled /\ settled' => UNCHANGED <<obj, addr, ifaces>>)
<1>0. settled => quiet /\ Agreed /\ (Running => OnCourse)
  BY DEF SettledInv, QuietInv
<1>1. CASE SeedReads
  <2>1. UNCHANGED <<obj, addr, ifaces, live, settled>> /\ quiet' = TRUE /\ seed'.todo = <<>>
    BY <1>1 DEF SeedReads, NoRun, tables, outside
  <2>2. Todo' = {}
    BY <2>1, NothingInEmpty DEF Todo
  <2> QED
    BY <2>1, <2>2, SettledStays
<1>2. CASE SeedLists
  <2>1. UNCHANGED <<obj, addr, ifaces, live, settled, quiet>> /\ Running
    BY <1>2, Begins DEF SafeInv
  <2>2. ASSUME settled PROVE \A i \in Todo' : WritesNothing(i)
    BY <1>0, <1>2, <2>1, <2>2, AgreedPlansWriteNothing DEF SafeInv
  <2>3. CASE settled
    BY <1>0, <2>1, <2>2, <2>3, SettledStays
  <2>4. CASE ~settled
    BY <2>1, <2>4 DEF SettledInv
  <2> QED
    BY <2>1, <2>3, <2>4
<1>3. CASE SeedLooks
  <2>1. /\ UNCHANGED <<obj, addr, ifaces, live, settled, quiet>> /\ Running
        /\ Todo' = Range(LookWrites(Head(seed.todo).on)) \cup Range(Tail(seed.todo))
        /\ Range(Tail(seed.todo)) \subseteq Todo
    BY <1>3, LookIs, NextItem DEF SafeInv
  <2>2. ASSUME settled PROVE \A i \in Range(LookWrites(Head(seed.todo).on)) : WritesNothing(i)
    BY <1>0, <1>3, <2>1, <2>2, AgreedLooksWriteNothing DEF SafeInv
  <2>3. CASE settled
    BY <1>0, <2>1, <2>2, <2>3, SettledStays
  <2>4. CASE ~settled
    BY <2>1, <2>4 DEF SettledInv
  <2> QED
    BY <2>1, <2>3, <2>4
<1>4. CASE SeedWrites
  <2>1. live' = live /\ settled' = settled /\ quiet' = quiet /\ Head(seed.todo) \in Todo /\ Todo' \subseteq Todo
    BY <1>4, ItemDone, NextItem DEF SafeInv
  <2>2. CASE settled
    <3>1. WritesNothing(Head(seed.todo))
      BY <2>1, <2>2 DEF SettledInv
    <3>2. UNCHANGED <<obj, addr, ifaces>>
      BY <1>4, <3>1, NothingIsWritten DEF SafeInv
    <3> QED
      BY <1>0, <2>1, <2>2, <3>2, SettledStays
  <2>3. CASE ~settled
    BY <2>1, <2>3 DEF SettledInv
  <2> QED
    BY <2>2, <2>3
<1>5. CASE SeedIsRefused \/ SeedStops
  BY <1>5 DEF SeedIsRefused, SeedStops, SettledInv
<1>6. CASE SeedEnds
  <2>1. /\ UNCHANGED <<obj, addr, ifaces, live, quiet>> /\ settled' = quiet /\ seed' = NoRun
        /\ Running /\ seed.todo = <<>> /\ seed.section = 7
    BY <1>6, Names DEF SeedEnds, tables, outside
  <2>2. Todo' = {}
    BY <2>1, NothingInEmpty DEF Todo, NoRun
  <2>3. ASSUME quiet PROVE Agreed'
    <3>1. OnCourse
      BY <2>1, <2>3 DEF QuietInv
    <3>2. Agreed
      BY <2>1, <3>1, SectionDone DEF Agreed, SafeInv
    <3> QED
      BY <2>1, <3>2, PartsStay
  <2> QED
    BY <2>1, <2>2, <2>3 DEF SettledInv
<1> QED
  BY <1>1, <1>2, <1>3, <1>4, <1>5, <1>6 DEF SeedSteps, SeedRuns

\* No step of anyone breaks it, but for what unsettles.
LEMMA SettledKeeps ==
    ASSUME SafeInv, QuietInv, SettledInv, [Next]_vars
    PROVE  SettledInv' /\ (settled /\ settled' => UNCHANGED <<obj, addr, ifaces>>)
<1>1. CASE UNCHANGED <<obj, addr, ifaces, live, seed, quiet, settled>>
  <2>1. Todo' = Todo
    BY <1>1 DEF Todo
  <2> QED
    BY <1>1, <2>1, SettledStays DEF SettledInv
<1>2. CASE Seed
  BY <1>2, SeedKeepsSettled DEF Seed
<1>3. CASE GuestsJob
  BY <1>1, <1>3 DEF GuestsJob, GuestsRefused, netboxVars, tables, outside, seedVars
<1>4. CASE Termix
  BY <1>1, <1>4 DEF Termix, TxWriteFails, TxStops, netboxVars, tables, outside, seedVars
<1>5. CASE Sources \/ Owner
  <2>1. SeedMissed
    BY <1>5 DEF Sources, Owner
  <2>2. ~settled'
    BY <2>1 DEF SeedMissed
  <2> QED
    BY <2>2 DEF SettledInv
<1>6. CASE User
  BY <1>1, <1>6 DEF User, UserEdits, tables, seedVars
<1>7. CASE UNCHANGED vars
  BY <1>1, <1>7 DEF vars, netboxVars, tables, outside, seedVars
<1> QED
  BY <1>2, <1>3, <1>4, <1>5, <1>6, <1>7 DEF Next

-----------------------------------------------------------------------------
(* What the invariant says.                                                *)

\* What a host's status is when a run would write none but it.
LEMMA SyncedIs ==
    ASSUME NEW st \in Statuses \ {"absent"}, NEW running \in BOOLEAN, Becomes(st, SyncedStatus(st, running)) = st
    PROVE  st \in SyncStatuses => IF running THEN st = "active" ELSE st \in {"planned", "offline"}
<1>1. CASE st \notin SyncStatuses
  BY <1>1 DEF SyncStatuses
<1>2. CASE st = "planned" /\ ~running
  BY <1>2
<1>3. CASE st \in SyncStatuses /\ ~(st = "planned" /\ ~running)
  <2>1. SyncedStatus(st, running) = [status |-> IF running THEN "active" ELSE "offline"]
    BY <1>3 DEF SyncedStatus
  <2>2. st = IF running THEN "active" ELSE "offline"
    BY <2>1 DEF Becomes
  <2> QED
    BY <2>2
<1> QED
  BY <1>1, <1>2, <1>3

LEMMA SyncedMeans ==
    ASSUME NEW o \in Objects, NEW r \in BOOLEAN, There(o), Synced(o, r), TablesInv
    PROVE  StatusAgrees(o, r)
<1>1. obj[o].status \in Statuses \ {"absent"}
  BY ObjectIs DEF There
<1> QED
  BY <1>1, SyncedIs DEF Synced, StatusAgrees

\* What agrees is what SettledRunAgrees says.
LEMMA AgreedMeans ==
    ASSUME TablesInv, Agreed
    PROVE  /\ GuestsAgree /\ NodesAgree /\ AddressesAgree /\ ThingsAgree /\ NamesAgree
           /\ live.up \subseteq ifaces
           /\ Prune => \A i \in ifaces \ (live.ifaces \cup Pinned) : \E j \in ifaces : i \in Uses[j]
<1>1. ASSUME NEW g \in Guests, live.guest[g] # "gone", obj[g].status # "decommissioning"
      PROVE  /\ There(g) /\ StatusAgrees(g, live.guest[g] = "running")
             /\ addr[AddrOf[g]].status = "active" /\ addr[AddrOf[g]].on = g
  <2>1. GuestAgrees(g) /\ GuestAddressed(g) /\ g \in Objects
    BY DEF Agreed, GuestsFit, Objects, Hosts
  <2>2. There(g) /\ Synced(g, live.guest[g] = "running") /\ Addressed(g)
    BY <1>1, <2>1 DEF GuestAgrees, GuestAddressed
  <2>3. (live.guest[g] = "running") \in BOOLEAN
    OBVIOUS
  <2>4. StatusAgrees(g, live.guest[g] = "running")
    BY <2>1, <2>2, <2>3, SyncedMeans
  <2> QED
    BY <2>2, <2>4 DEF Addressed
<1>2. ASSUME NEW n \in Nodes
      PROVE  There(n) /\ StatusAgrees(n, n \in live.online) /\ addr[AddrOf[n]].on = n
  <2>1. NodeAgrees(n) /\ Addressed(n) /\ n \in Objects
    BY DEF Agreed, NodesFit, Objects, Hosts
  <2>2. There(n) /\ Synced(n, n \in live.online)
    BY <2>1 DEF NodeAgrees
  <2>3. (n \in live.online) \in BOOLEAN
    OBVIOUS
  <2>4. StatusAgrees(n, n \in live.online)
    BY <2>1, <2>2, <2>3, SyncedMeans
  <2> QED
    BY <2>1, <2>2, <2>4 DEF Addressed
<1>3. ASSUME NEW a \in Addrs
      PROVE  /\ live.lease[a] # Nobody =>
                   \/ addr[a].status = "dhcp" /\ addr[a].desc = "resv"
                   \/ addr[a].on \in Objects \ OwnThings \/ addr[a].vip \/ addr[a].desc = "hand"
             /\ addr[a].desc = "resv" /\ addr[a].on \notin Hosts /\ live.lease[a] = Nobody =>
                   addr[a].status = "deprecated"
  <2>1. LeaseAgrees(a)
    BY DEF Agreed, LeasesAgree
  <2>2. /\ TidyRow(obj, a, addr[a]) /\ addr[a].desc \in {"none", "lb", "resv", "hand"}
        /\ addr[a].status = "absent" => addr[a].desc = "none"
    BY AddressIs
  <2>3. CASE ~Taken(a)
    <3>1. live.lease[a] # Nobody => addr[a].status = "dhcp" /\ addr[a].desc = "resv"
      BY <2>1, <2>3 DEF LeaseAgrees
    <3>2. live.lease[a] = Nobody => addr[a].status \in {"absent", "deprecated"}
      BY <2>1, <2>3 DEF LeaseAgrees
    <3> QED
      BY <2>2, <3>1, <3>2
  <2>4. CASE Taken(a)
    <3>1. addr[a].on \in Hosts => addr[a].on \in Objects \ OwnThings
      BY NetBoxAssumption DEF Objects, OwnThings
    <3>2. addr[a].on \in Hosts \/ addr[a].vip \/ addr[a].desc = "hand"
      BY <2>2, <2>4 DEF Taken, TidyRow
    <3>3. ~(addr[a].desc = "resv" /\ addr[a].on \notin Hosts)
      BY <2>4 DEF Taken
    <3> QED
      BY <3>1, <3>2, <3>3
  <2> QED
    BY <2>3, <2>4
<1>4. AddressesAgree
  BY <1>3 DEF AddressesAgree, Agreed, LbsAgree, LbAgrees
<1>5. ASSUME NEW t \in OwnThings, obj[t].status # "decommissioning"
      PROVE  /\ StatusAgrees(t, \E a \in Addrs : live.lease[a] = t)
             /\ \A a \in Addrs : live.lease[a] = t /\ addr[a].status = "dhcp" => addr[a].on = t
  <2>1. t \in Things /\ ThingGone(t) /\ ThingAgrees(t) /\ ~Kept(t)
    BY <1>5 DEF OwnThings, Agreed, ThingsFit, Kept
  <2>2. Reserves(t) => obj[t].status = "active"
    BY <2>1 DEF ThingAgrees
  <2>3. ~Reserves(t) => obj[t].status = "offline"
    BY <1>5, <2>1 DEF ThingGone
  <2>4. ASSUME NEW a \in Addrs, live.lease[a] = t, addr[a].status = "dhcp" PROVE addr[a].on = t
    <3>1. TidyRow(obj, a, addr[a])
      BY AddressIs
    <3>2. ~Taken(a)
      BY <2>4, <3>1 DEF Taken, TidyRow
    <3>3. ThingAddressed(a)
      BY DEF Agreed, ThingsFit
    <3> QED
      BY <2>1, <2>4, <3>2, <3>3 DEF ThingAddressed
  <2> QED
    BY <2>2, <2>3, <2>4 DEF Reserves, StatusAgrees
<1>6. NamesAgree
  <2>1. ASSUME NEW a \in Zoned, addr[a].on \in Hosts
        PROVE  /\ obj[addr[a].on].status \in UseStatuses => addr[a].dns = "name"
               /\ obj[addr[a].on].status \notin UseStatuses \cup {"decommissioning"} => addr[a].dns # "name"
    <3>1. NameAgrees(a)
      BY NetBoxAssumption DEF Agreed, NamesFit
    <3> QED
      BY <2>1, <3>1 DEF NameAgrees, UseStatuses
  <2> QED
    BY <2>1 DEF NamesAgree
<1>7. ASSUME Prune, NEW i \in ifaces \ (live.ifaces \cup Pinned) PROVE \E j \in ifaces : i \in Uses[j]
  <2> SUFFICES ASSUME \A j \in ifaces : i \notin Uses[j] PROVE FALSE
    OBVIOUS
  <2> DEFINE kept == ifaces \ {i}
  <2>1. kept \in SUBSET ifaces /\ ifaces \cap (live.ifaces \cup Pinned) \subseteq kept /\ kept # ifaces
    BY <1>7
  <2>2. Closed(kept, ifaces)
    BY DEF Closed
  <2>3. Needed(ifaces)
    BY <1>7 DEF Agreed, IfacesNeeded
  <2> QED
    BY <2>1, <2>2, <2>3 DEF Needed
<1>8. GuestsAgree
  BY <1>1 DEF GuestsAgree
<1>9. NodesAgree
  BY <1>2 DEF NodesAgree
<1>10. ThingsAgree
  BY <1>5 DEF ThingsAgree
<1>11. live.up \subseteq ifaces
  BY DEF Agreed, IfacesThere
<1> QED
  BY <1>4, <1>6, <1>7, <1>8, <1>9, <1>10, <1>11

LEMMA StartsQuiet == Init => QuietInv /\ SettledInv
  BY DEF Init, SeedInit, QuietInv, SettledInv

\* The inductive invariant.
LEMMA InvHolds == Spec => []IInv
<1>1. Init => IInv
  BY InitIsSafe, StartsQuiet DEF IInv
<1>2. IInv /\ [Next]_vars => IInv'
  BY NextKeepsSafe, QuietKeeps, SettledKeeps DEF IInv
<1> QED
  BY <1>1, <1>2, PTL DEF Spec

\* After a complete run nothing disturbed, and until something changes, NetBox
\* says of every guest Proxmox has, every node, Service's address, reservation,
\* thing, name and interface what the live sources say, where the status is one
\* the sync moves: for any number of them, and whatever NetBox said before.
THEOREM RunMakesNetBoxAgree == Spec => []SettledRunAgrees
<1>1. IInv => SettledRunAgrees
  <2> SUFFICES ASSUME IInv PROVE SettledRunAgrees
    OBVIOUS
  <2>1. settled => Agreed
    BY DEF IInv, SettledInv
  <2>2. TablesInv
    BY DEF IInv, SafeInv
  <2> QED
    BY <2>1, <2>2, AgreedMeans DEF SettledRunAgrees
<1> QED
  BY <1>1, InvHolds, PTL

\* "Safe to run again": the run after such a run writes nothing.
THEOREM SecondRunIsIdle == Spec => SecondRunWritesNothing
<1>1. IInv /\ [Next]_vars =>
         [settled /\ settled' => UNCHANGED tables]_<<netboxVars, seedVars>>
  BY SettledKeeps DEF tables, IInv
<1> QED
  BY <1>1, InvHolds, PTL DEF Spec, SecondRunWritesNothing

-----------------------------------------------------------------------------
(* What a write leaves alone: the parts of LeavesOthersAlone.              *)

LeavesRemoved ==
    \A g \in Guests : obj[g].status = "decommissioning" /\ (quiet \/ g \in seed.retiring) =>
        obj'[g] = obj[g] /\ \A a \in Addrs : addr[a].on = g /\ quiet => addr'[a] = addr[a]
LeavesStatuses == \A h \in Hosts : obj[h].status \notin SyncStatuses \cup {"absent"} => obj'[h].status = obj[h].status
LeavesThings == \A t \in Things : Kept(t) => obj'[t] = obj[t]
LeavesAddresses == In("reservations") \/ In("iot") => \A a \in Addrs : OthersAddress(a) => addr'[a] = addr[a]
LeavesNames == \A a \in Addrs : NamedByHand(a) => addr'[a].dns = "hand"
LeavesIfaces == \A i \in ifaces \ ifaces' : i \notin live.ifaces \cup Pinned /\ \A j \in ifaces : i \notin Uses[j]

LeavesOthers ==
    LeavesRemoved /\ (quiet => LeavesStatuses /\ LeavesThings /\ LeavesAddresses /\ LeavesNames /\ LeavesIfaces)

\* The write of an address.
LEMMA AddressSpares ==
    ASSUME TablesInv, NEW a \in Addrs, NEW row, PutsAddr(a, row),
           quiet => /\ addr[a].on \in Guests => obj[addr[a].on].status # "decommissioning"
                    /\ In("reservations") \/ In("iot") => ~OthersAddress(a)
                    /\ NamedByHand(a) => row.dns = "hand"
    PROVE  LeavesOthers
<1>1. obj' = obj /\ ifaces' = ifaces /\ addr'[a] = row /\ \A b \in Addrs : b # a => addr'[b] = addr[b]
  BY AddrRows
<1>2. LeavesRemoved
  BY <1>1 DEF LeavesRemoved
<1>3. LeavesStatuses /\ LeavesThings /\ LeavesIfaces
  BY <1>1 DEF LeavesStatuses, LeavesThings, LeavesIfaces
<1>4. ASSUME quiet PROVE LeavesAddresses /\ LeavesNames
  <2>1. LeavesAddresses
    BY <1>1, <1>4 DEF LeavesAddresses
  <2>2. ASSUME NEW b \in Addrs, NamedByHand(b) PROVE addr'[b].dns = "hand"
    <3>1. addr[b].dns = "hand"
      BY <2>2 DEF NamedByHand
    <3> QED
      BY <1>1, <1>4, <2>2, <3>1
  <2> QED
    BY <2>1, <2>2 DEF LeavesNames
<1> QED
  BY <1>2, <1>3, <1>4 DEF LeavesOthers

\* The write of an object.
LEMMA ObjectSpares ==
    ASSUME TablesInv, NEW o \in Objects, NEW row, PutsObj(o, row),
           o \in Guests /\ obj[o].status = "decommissioning" => ~quiet /\ o \notin seed.retiring,
           quiet => /\ o \in Hosts /\ obj[o].status \notin SyncStatuses \cup {"absent"} => row.status = obj[o].status
                    /\ o \in Things => ~Kept(o)
    PROVE  LeavesOthers
<1>1. addr' = addr /\ ifaces' = ifaces /\ obj'[o] = row /\ \A p \in Objects : p # o => obj'[p] = obj[p]
  BY ObjRows
<1>2. Guests \subseteq Objects /\ Hosts \subseteq Objects /\ Things \subseteq Objects
  BY DEF Objects, Hosts
<1>3. LeavesRemoved
  BY <1>1, <1>2 DEF LeavesRemoved
<1>4. quiet => LeavesStatuses /\ LeavesThings
  BY <1>1, <1>2 DEF LeavesStatuses, LeavesThings
<1>5. LeavesAddresses /\ LeavesNames /\ LeavesIfaces
  BY <1>1 DEF LeavesAddresses, LeavesNames, NamedByHand, LeavesIfaces
<1> QED
  BY <1>3, <1>4, <1>5 DEF LeavesOthers

\* The write of an interface.
LEMMA InterfaceSpares ==
    ASSUME UNCHANGED <<obj, addr>>, quiet => LeavesIfaces
    PROVE  LeavesOthers
  BY DEF LeavesOthers, LeavesRemoved, LeavesStatuses, LeavesThings, LeavesAddresses, LeavesNames, NamedByHand

\* A host has one address, its own.
LEMMA OnlyItsOwn ==
    ASSUME TablesInv, NEW h \in Hosts, addr[AddrOf[h]].on \in Hosts
    PROVE  addr[AddrOf[h]].on = h
<1>1. AddrOf[h] \in Addrs
  BY NetBoxAssumption
<1>2. TidyRow(obj, AddrOf[h], addr[AddrOf[h]])
  BY <1>1, AddressIs
<1> QED
  BY <1>2, NetBoxAssumption DEF TidyRow

\* What nothing holds is no one else's.
LEMMA NotOthers ==
    ASSUME TablesInv, NEW a \in Addrs, ~Taken(a)
    PROVE  ~OthersAddress(a) /\ addr[a].on \notin Guests
<1>1. /\ TidyRow(obj, a, addr[a]) /\ addr[a].on \in Objects \cup {Nobody}
      /\ addr[a].status = "absent" => addr[a].on = Nobody /\ addr[a].desc = "none" /\ ~addr[a].vip
  BY AddressIs
<1>2. addr[a].on \notin Hosts /\ (addr[a].status # "absent" => addr[a].desc = "resv")
  BY NotTaken
<1>3. addr[a].desc # "hand" /\ ~addr[a].vip
  BY <1>1, <1>2 DEF TidyRow
<1>4. addr[a].on \in Things => obj[addr[a].on].mark
  BY <1>1 DEF TidyRow
<1> QED
  BY <1>2, <1>3, <1>4 DEF OthersAddress, Hosts

LEMMA InSection ==
    ASSUME seed.section \in 1..7
    PROVE  /\ In("reservations") => seed.section = 5
           /\ In("iot") => seed.section = 6
<1>1. seed.section \in {1, 2, 3, 4, 5, 6, 7}
  OBVIOUS
<1> QED
  BY <1>1, Names DEF In

\* The sections, one by one: the addresses of the pool are no one's,
LEMMA LbSpares ==
    ASSUME TablesInv, SeedFits, SeedWrites, NEW i, i = Head(seed.todo), seed.section = 1
    PROVE  LeavesOthers
<1> DEFINE a == i.on
<1>1. PICK row : PutsAddr(a, row) /\ row.dns = addr[a].dns
  <2>1. \A s, v, d, o, n : ARow(s, v, d, o, n).dns = n
    BY DEF ARow
  <2>2. CASE i.act = "addr"
    <3> DEFINE new == ARow("active", TRUE, "lb", addr[a].on, addr[a].dns)
    <3>1. PutsAddr(a, new)
      BY <2>2, LbWrite
    <3>2. new.dns = addr[a].dns
      BY DEF ARow
    <3> HIDE DEF new
    <3> QED
      BY <3>1, <3>2
  <2>3. CASE i.act # "addr"
    <3>1. PutsAddr(a, ARow("deprecated", addr[a].vip, addr[a].desc, addr[a].on, addr[a].dns))
      BY <2>3, LbWrite
    <3> QED
      BY <2>1, <3>1
  <2> QED
    BY <2>2, <2>3
<1>2. a \in Pool /\ a \in Addrs
  BY LbWrite, NetBoxAssumption
<1>3. addr[a].on = Nobody
  <2>1. TidyRow(obj, a, addr[a])
    BY <1>2, AddressIs
  <2> QED
    BY <1>2, <2>1 DEF TidyRow
<1>4. addr[a].on \notin Guests
  BY <1>3, NetBoxAssumption DEF Objects, Hosts
<1>5. ~In("reservations") /\ ~In("iot")
  BY InSection
<1>6. NamedByHand(a) => row.dns = "hand"
  BY <1>1 DEF NamedByHand
<1> QED
  BY <1>1, <1>2, <1>4, <1>5, <1>6, AddressSpares

\* The address of a node, or of a VM not being removed.
LEMMA HostAddressSpares ==
    ASSUME TablesInv, NEW h \in Hosts, seed.section \in {2, 4}, quiet /\ h \in Guests => obj[h].status # "decommissioning",
           PutsAddr(AddrOf[h], ARow("active", addr[AddrOf[h]].vip, addr[AddrOf[h]].desc, h, addr[AddrOf[h]].dns))
    PROVE  LeavesOthers
<1> DEFINE a == AddrOf[h]
<1>1. PICK row : PutsAddr(a, row) /\ row.dns = addr[a].dns
  <2>1. \A s, v, d, o, n : ARow(s, v, d, o, n).dns = n
    BY DEF ARow
  <2> QED
    BY <2>1
<1>2. a \in Addrs
  BY NetBoxAssumption
<1>3. addr[a].on \in Guests => addr[a].on = h
  BY OnlyItsOwn DEF Hosts
<1>4. ~In("reservations") /\ ~In("iot")
  BY InSection
<1>5. NamedByHand(a) => row.dns = "hand"
  BY <1>1 DEF NamedByHand
<1> QED
  BY <1>1, <1>2, <1>3, <1>4, <1>5, AddressSpares

\* a node keeps the status the owner holds it in,
LEMMA NodeSpares ==
    ASSUME TablesInv, SeedFits, quiet => OnCourse, SeedWrites, NEW i, i = Head(seed.todo), seed.section = 2
    PROVE  LeavesOthers
<1>0. i \in Todo /\ \A n \in Nodes : n \in Hosts /\ n \in Objects /\ n \notin Guests /\ n \notin Things
  BY ItemDone, NextItem, NetBoxAssumption DEF Hosts, Objects
<1>1. CASE i.act = "obj"
  <2>1. i.on \in Nodes /\ PutsObj(i.on, Now(i.on, i.set, obj[i.on].shape))
    BY <1>1, NodeWrite DEF Address, Item
  <2>2. ASSUME quiet, obj[i.on].status \notin SyncStatuses \cup {"absent"}
        PROVE  Becomes(obj[i.on].status, i.set) = obj[i.on].status
    <3>1. i.set = SyncedStatus(obj[i.on].status, i.on \in live.online)
      BY <1>0, <1>1, <2>2 DEF OnCourse, Meant, MeantNode
    <3>2. ASSUME NEW st \in Statuses, st \notin SyncStatuses \cup {"absent"}, NEW r \in BOOLEAN
          PROVE  Becomes(st, SyncedStatus(st, r)) = st
      BY <3>2, SyncTwice
    <3>3. (i.on \in live.online) \in BOOLEAN /\ obj[i.on].status \in Statuses
      BY <1>0, <2>1, ObjectIs
    <3> QED
      BY <2>2, <3>1, <3>2, <3>3
  <2>3. \A p, f, s : Now(p, f, s).status = Becomes(obj[p].status, f)
    BY DEF Now, ORow
  <2> QED
    BY <1>0, <2>1, <2>2, <2>3, ObjectSpares
<1>2. CASE i.act = "addr"
  <2>1. PICK n \in Nodes : /\ i.on = AddrOf[n]
                           /\ PutsAddr(i.on, ARow("active", addr[i.on].vip, addr[i.on].desc, n, addr[i.on].dns))
    BY <1>2, NodeWrite
  <2> QED
    BY <1>0, <2>1, HostAddressSpares
<1>3. CASE i.act = "iface"
  <2>1. UNCHANGED <<obj, addr>> /\ ifaces' = ifaces \cup {i.on}
    BY <1>3, NodeWrite
  <2> QED
    BY <2>1, InterfaceSpares DEF LeavesIfaces
<1> QED
  BY <1>1, <1>2, <1>3, NodeWrite

\* The next interface to go is none that is live or pinned, and every other
\* still there that uses it would have gone before it.
LEMMA PruneSpares ==
    ASSUME TablesInv, SeedFits, quiet => OnCourse, SeedWrites, NEW i, i = Head(seed.todo), seed.section = 3
    PROVE  LeavesOthers
<1> DEFINE x == i.on
<1>1. /\ i = Item("prune", x, <<>>) /\ x \in Ifaces /\ obj' = obj /\ addr' = addr /\ ifaces' = ifaces \ {x}
      /\ i \in Todo /\ seed.todo # <<>>
  BY InterfaceWrite, ItemDone, NextItem
<1>2. ASSUME quiet, x \in ifaces PROVE x \notin live.ifaces \cup Pinned /\ \A j \in ifaces : x \notin Uses[j]
  <2>1. Removing \cap (live.ifaces \cup Pinned) = {} /\ Closed(ifaces \ Removing, ifaces) /\ InOrder(seed.todo)
    BY <1>2 DEF OnCourse, Pruning
  <2>2. x \in Removing
    BY <1>1 DEF Removing
  <2>3. ASSUME NEW j \in ifaces, x \in Uses[j] PROVE FALSE
    <3>1. j \in Removing
      BY <1>2, <2>1, <2>2, <2>3 DEF Closed
    <3>2. seed.todo \in Seq(InterfaceItems)
      BY DEF SeedFits, TodoFits
    <3>3. PICK k \in DOMAIN seed.todo : seed.todo[k] = Item("prune", j, <<>>)
      BY <3>1, <3>2 DEF Removing, Todo, Range
    <3>4. 1 \in DOMAIN seed.todo /\ seed.todo[1] = i /\ k \in Nat /\ k >= 1
      BY <1>1, <3>2, <3>3
    <3>5. seed.todo[1].on = x /\ seed.todo[k].on = j
      BY <3>3, <3>4 DEF Item
    <3>6. k < 1
      BY <2>1, <2>3, <3>3, <3>4, <3>5 DEF InOrder
    <3> QED
      BY <3>4, <3>6
  <2> QED
    BY <2>1, <2>2, <2>3
<1>3. quiet => LeavesIfaces
  BY <1>1, <1>2 DEF LeavesIfaces
<1> QED
  BY <1>1, <1>3, InterfaceSpares

\* a VM being removed is not written,
LEMMA VmSpares ==
    ASSUME TablesInv, SeedFits, Careful, quiet => OnCourse, SeedWrites, NEW i, i = Head(seed.todo), seed.section = 4
    PROVE  LeavesOthers
<1>0. i \in Todo /\ Whose(i) \notin seed.retiring
  BY ItemDone, NextItem DEF Careful
<1>1. quiet => obj[Whose(i)].status # "decommissioning"
  BY <1>0 DEF OnCourse, Meant, MeantVm
<1>2. CASE i.act = "obj"
  <2>1. i.on \in Guests /\ i.on \in Hosts /\ i.on \in Objects /\ i.on \notin Things /\ Whose(i) = i.on
    BY <1>2, VmWrite, NetBoxAssumption DEF Hosts, Objects, Whose
  <2>2. PICK row : PutsObj(i.on, row)
    BY <1>2, VmWrite
  <2>3. ASSUME quiet, obj[i.on].status \notin SyncStatuses \cup {"absent"} PROVE row.status = obj[i.on].status
    <3>1. obj'[i.on].status = Becomes(obj[i.on].status, SyncedStatus(obj[i.on].status, live.guest[i.on] = "running"))
      BY <1>2, <2>3, GuestPatched
    <3>2. obj'[i.on] = row
      BY <2>1, <2>2, ObjRows
    <3>3. ASSUME NEW st \in Statuses, st \notin SyncStatuses \cup {"absent"}, NEW r \in BOOLEAN
          PROVE  Becomes(st, SyncedStatus(st, r)) = st
      BY <3>3, SyncTwice
    <3>4. (live.guest[i.on] = "running") \in BOOLEAN /\ obj[i.on].status \in Statuses
      BY <2>1, ObjectIs
    <3> QED
      BY <2>3, <3>1, <3>2, <3>3, <3>4
  <2> QED
    BY <1>0, <1>1, <2>1, <2>2, <2>3, ObjectSpares
<1>3. CASE i.act = "addr"
  <2>1. PICK g \in Guests :
            /\ i = Address(g) /\ i.on = AddrOf[g]
            /\ PutsAddr(i.on, ARow("active", addr[i.on].vip, addr[i.on].desc, g, addr[i.on].dns))
    BY <1>3, VmWrite
  <2>2. Whose(i) = g /\ g \in Hosts
    BY <1>3, <2>1, AddressHas DEF Whose, Hosts
  <2> QED
    BY <1>1, <2>1, <2>2, HostAddressSpares
<1> QED
  BY <1>2, <1>3, VmWrite

\* an address someone else holds is not recorded,
LEMMA LeaseSpares ==
    ASSUME TablesInv, SeedFits, quiet => OnCourse, SeedWrites, NEW i, i = Head(seed.todo), seed.section = 5
    PROVE  LeavesOthers
<1> DEFINE a == i.on
<1>1. PICK row : PutsAddr(a, row) /\ row.dns = addr[a].dns
  <2>1. \A s, v, d, o, n : ARow(s, v, d, o, n).dns = n
    BY DEF ARow
  <2> QED
    BY <2>1, ReservationWrite
<1>2. a \in Addrs /\ i \in Todo
  BY ReservationWrite, ItemDone, NextItem
<1>3. quiet => ~Taken(a)
  BY <1>2 DEF OnCourse, Meant, MeantLease
<1>4. NamedByHand(a) => row.dns = "hand"
  BY <1>1 DEF NamedByHand
<1> QED
  BY <1>1, <1>2, <1>3, <1>4, NotOthers, AddressSpares

\* a device not this script's, or being removed, is not written,
LEMMA ThingSpares ==
    ASSUME TablesInv, SeedFits, quiet => OnCourse, SeedWrites, NEW i, i = Head(seed.todo), seed.section = 6
    PROVE  LeavesOthers
<1>0. i \in Todo /\ (quiet => MeantThing(i))
  BY ItemDone, NextItem DEF OnCourse, Meant
<1>1. CASE i.act = "addr"
  <2> DEFINE a == i.on
  <2>1. PICK row : PutsAddr(a, row) /\ row.dns = addr[a].dns
    <3>1. \A s, v, d, o, n : ARow(s, v, d, o, n).dns = n
      BY DEF ARow
    <3>2. PutsAddr(a, ARow("dhcp", addr[a].vip, "resv", i.set.on, addr[a].dns))
      BY <1>1, ThingWrite
    <3> QED
      BY <3>1, <3>2
  <2>2. a \in Addrs
    BY <1>1, ThingWrite
  <2>3. quiet => ~Taken(a)
    BY <1>0, <1>1 DEF OnCourse, MeantThing, RecordKept
  <2>4. NamedByHand(a) => row.dns = "hand"
    BY <2>1 DEF NamedByHand
  <2> QED
    BY <2>1, <2>2, <2>3, <2>4, NotOthers, AddressSpares
<1>2. CASE i.act # "addr"
  <2>1. i.on \in Things /\ i.act \in {"old_obj", "obj"}
    BY <1>2, ThingWrite
  <2>2. PICK row : PutsObj(i.on, row)
    BY <1>2, ThingWrite
  <2>3. i.on \in Objects /\ i.on \notin Hosts /\ i.on \notin Guests
    BY <2>1, NetBoxAssumption DEF Objects, Hosts
  <2>4. quiet => ~Kept(i.on)
    BY <1>0, <2>1 DEF MeantThing, Whose, OwnThings, Kept
  <2> QED
    BY <2>2, <2>3, <2>4, ObjectSpares
<1> QED
  BY <1>1, <1>2

\* and a name set by hand is not taken.
LEMMA NameSpares ==
    ASSUME TablesInv, SeedFits, quiet => OnCourse, SeedWrites, NEW i, i = Head(seed.todo), seed.section = 7
    PROVE  LeavesOthers
<1> DEFINE a == i.on
<1>1. a \in Addrs /\ i \in Todo /\ i.set.dns \in {"name", "none"}
  BY NameWrite, ItemDone, NextItem
<1>2. PICK row : PutsAddr(a, row) /\ row.dns = i.set.dns
  <2>1. \A s, v, d, o, n : ARow(s, v, d, o, n).dns = n
    BY DEF ARow
  <2>2. PutsAddr(a, ARow(addr[a].status, addr[a].vip, addr[a].desc, addr[a].on, i.set.dns))
    BY NameWrite
  <2> QED
    BY <2>1, <2>2
<1>3. quiet => MeantName(i)
  BY <1>1 DEF OnCourse, Meant
<1>4. ~In("reservations") /\ ~In("iot")
  BY InSection
<1>5. quiet => /\ addr[a].on \in Guests => obj[addr[a].on].status # "decommissioning"
               /\ ~NamedByHand(a)
  BY <1>1, <1>3 DEF MeantName, NamedByHand
<1> QED
  BY <1>1, <1>2, <1>4, <1>5, AddressSpares

\* No write touches what is not this script's.
LEMMA WritesSpare ==
    ASSUME SafeInv, QuietInv, SeedWrites
    PROVE  LeavesOthers
<1>1. /\ TablesInv /\ SeedFits /\ Careful /\ (quiet => OnCourse)
      /\ seed.section \in 1..7
  BY ItemDone, NextItem DEF SafeInv, QuietInv
<1>2. seed.section \in {1, 2, 3, 4, 5, 6, 7}
  BY <1>1
<1> QED
  BY <1>1, <1>2, LbSpares, NodeSpares, PruneSpares, VmSpares, LeaseSpares, ThingSpares, NameSpares

\* Only the writes of the run change the tables without being an event.
LEMMA OnlyWritesChange ==
    ASSUME SafeInv, Next, events' = events, tables' # tables
    PROVE  SeedWrites
<1>0. events \in Nat
  BY NetBoxAssumption DEF SafeInv, TablesInv, NetBoxTypeOK
<1>1. ~Event
  BY <1>0 DEF Event
<1>2. CASE Seed
  <2>1. SeedReads \/ SeedLists \/ SeedLooks \/ SeedIsRefused \/ SeedEnds \/ SeedStops => UNCHANGED tables
    BY DEF SeedReads, SeedLists, SeedLooks, SeedIsRefused, SeedEnds, SeedStops
  <2>2. SeedSteps
    BY <1>2 DEF Seed
  <2> QED
    BY <2>1, <2>2 DEF SeedSteps, SeedRuns
<1>3. CASE GuestsJob
  BY <1>3 DEF GuestsJob, GuestsRefused, netboxVars
<1>4. CASE Termix
  BY <1>4 DEF Termix, TxWriteFails, TxStops, netboxVars
<1>5. CASE Sources
  BY <1>1, <1>5 DEF Sources, SourcesMove, GuestChanges, NodeChanges, InterfaceGone, InterfaceDown,
                    ServiceChanges, ReservationChanges, Move
<1>6. CASE Owner
  BY <1>1, <1>6 DEF Owner, OwnerEdits, OwnerSetsStatus, OwnerGivesRole, OwnerSetsLogin, OwnerDeletes, OwnerRecords,
                    OwnerNames, Edit
<1>7. CASE User
  BY <1>7 DEF User, UserEdits
<1> QED
  BY <1>2, <1>3, <1>4, <1>5, <1>6, <1>7 DEF Next

\* Neither program that writes by itself touches what is not its own: the seed
\* in NetBox, and the Termix job in Termix.
THEOREM EachSparesTheOthers == Spec => EachLeavesOthersAlone
<1>1. IInv /\ [Next]_vars =>
         [events' = events /\ tables' # tables => LeavesOthers]_<<netboxVars, seedVars>>
  <2> SUFFICES ASSUME IInv, [Next]_vars, events' = events, tables' # tables
               PROVE  LeavesOthers
    OBVIOUS
  <2>1. Next
    BY DEF vars, netboxVars
  <2> QED
    BY <2>1, OnlyWritesChange, WritesSpare DEF IInv
<1>2. LeavesOthers =>
        /\ \A g \in Guests : obj[g].status = "decommissioning" /\ (quiet \/ g \in seed.retiring) =>
              obj'[g] = obj[g] /\ \A a \in Addrs : addr[a].on = g /\ quiet => addr'[a] = addr[a]
        /\ quiet =>
             /\ \A h \in Hosts : obj[h].status \notin SyncStatuses \cup {"absent"} => obj'[h].status = obj[h].status
             /\ \A t \in Things : There(t) /\ (~obj[t].mark \/ obj[t].status = "decommissioning") => obj'[t] = obj[t]
             /\ In("reservations") \/ In("iot") => \A a \in Addrs : OthersAddress(a) => addr'[a] = addr[a]
             /\ \A a \in Addrs : NamedByHand(a) => addr'[a].dns = "hand"
             /\ \A i \in ifaces \ ifaces' : i \notin live.ifaces \cup Pinned /\ \A j \in ifaces : i \notin Uses[j]
  BY DEF LeavesOthers, LeavesRemoved, LeavesStatuses, LeavesThings, Kept, LeavesAddresses, LeavesNames, LeavesIfaces
<1>3. Spec => LeavesOthersAlone
  BY <1>1, <1>2, InvHolds, PTL DEF Spec, LeavesOthersAlone
<1>4. OtherInv /\ [Next]_vars => [Spares]_termixVars
  BY TermixKeeps DEF OtherInv
<1>5. Spec => TermixSpares
  BY <1>4, SafeHolds, PTL DEF Spec, TermixSpares, Spares
<1> QED
  BY <1>3, <1>5 DEF EachLeavesOthersAlone
=============================================================================
