----------------------------- MODULE DnsWebhook -----------------------------
(***************************************************************************)
(* netbox-dns-webhook.py: the provider through which ExternalDNS keeps the *)
(* Ingress hostnames as records in NetBox DNS.                             *)
(*                                                                         *)
(* ExternalDNS (external) lists what the provider owns, compares it with   *)
(* the hostnames the Ingresses ask for and posts the difference; it gives  *)
(* up on an answer that takes too long while the webhook's thread carries  *)
(* on, so that two applies can overlap (ThreadingHTTPServer).  Every call  *)
(* to NetBox is a step, each of which may fail, or be carried out with its *)
(* answer lost; the owner edits records and zones in NetBox meanwhile.     *)
(*                                                                         *)
(* Abstractions.  A name stands for a name and record type together, since *)
(* the code keys everything by the pair.  A new record's id is one that no *)
(* record has and no thread remembers: NetBox never gives an id twice, and *)
(* nothing depends on which one it gives.  Ids bounds how many there are.  *)
(***************************************************************************)
EXTENDS Naturals, FiniteSets

CONSTANTS
    Names,       \* name and type pairs
    Values,      \* record values
    Ttls,        \* TTLs an endpoint may ask for; 0: none
    Zones,       \* zones of the default view there may be
    ZonesOf,     \* ZonesOf[n]: the zones n is inside, by label
    Labels,      \* Labels[z]: how many labels z has
    OtherViews,  \* NetBox has zones outside the default view
    Ids, Threads,
    StartRecs,   \* what NetBox may hold at the start: functions from ids to records
    Faults,      \* subset of FaultKinds
    Edits,       \* subset of EditKinds
    MaxFaults, MaxEdits,
    MayOverlap   \* ExternalDNS may give up on an answer

FaultKinds == {"failed", "late", "crash"}
EditKinds == {"ingress", "create", "delete", "adopt", "zone"}

ASSUME ConstantsAssumption ==
    /\ Ttls \subseteq Nat /\ 0 \in Ttls
    /\ ZonesOf \in [Names -> SUBSET Zones]
    /\ Labels \in [Zones -> Nat]
    /\ \A n \in Names : \A y, z \in ZonesOf[n] : Labels[y] = Labels[z] => y = z
    /\ OtherViews \in BOOLEAN /\ MayOverlap \in BOOLEAN
    /\ Faults \subseteq FaultKinds /\ Edits \subseteq EditKinds
    /\ MaxFaults \in Nat /\ MaxEdits \in Nat

\* OWNER_MARK; any other description, of a record made by hand or of one the
\* webhook made and the owner described anew.
Marks == {"external-dns", "hand", "adopted"}
Record == [name : Names, value : Values, ttl : Ttls, mark : Marks, zone : Zones]
\* What is asked of one name: no target means the name is not asked for.
Endpoint == [targets : SUBSET Values, ttl : Ttls]
Nothing == [targets |-> {}, ttl |-> 0]

ASSUME StartAssumption ==
    \A rs \in StartRecs : DOMAIN rs \subseteq Ids /\ rs \in [DOMAIN rs -> Record]

VARIABLES
    recs,     \* NetBox's records, by id
    zones,    \* NetBox's zones in the default view
    desired,  \* what the Ingresses ask for, by name
    waits,    \* the thread ExternalDNS waits for, {} when it waits for none
    threads,  \* the webhook's threads
    faults, edits

netboxVars == <<recs, zones>>
budgets == <<faults, edits>>
vars == <<netboxVars, desired, waits, threads, budgets>>

Free == [pc |-> "free", get |-> FALSE, want |-> [n \in Names |-> Nothing],
         drop |-> {}, zones |-> {}, creates |-> {}, deletes |-> {}]

Thread == [pc : {"free", "zones", "records", "changes"}, get : BOOLEAN,
           want : [Names -> Endpoint], drop : SUBSET Names, zones : SUBSET Zones,
           creates : SUBSET Record, deletes : SUBSET Ids]

-----------------------------------------------------------------------------
(* Pure functions of what was read.                                        *)

\* The zone that is the longest suffix of n, as a set of at most one.
ZoneFor(n, zs) ==
    {z \in zs \cap ZonesOf[n] : \A y \in zs \cap ZonesOf[n] : Labels[y] <= Labels[z]}

\* local_view: the ids of the records in the zones read.
InView(rs, zs) == {i \in DOMAIN rs : rs[i].zone \in zs}

OwnedOf(n, rs, ids) == {i \in ids : rs[i].name = n /\ rs[i].mark = "external-dns"}

\* endpoints: the owned records of each name, with the TTL of one of them.
Endpoints(rs, ids) ==
    {e \in [Names -> Endpoint] :
        \A n \in Names : LET mine == OwnedOf(n, rs, ids) IN
            /\ e[n].targets = {rs[i].value : i \in mine}
            /\ IF mine = {} THEN e[n].ttl = 0
                            ELSE \E i \in mine : e[n].ttl = rs[i].ttl}

\* plan, for one wanted endpoint: skipped when no zone holds the name or when
\* a record of that name is not owned.
Acts(n, rs, ids, zs) ==
    /\ ZoneFor(n, zs) # {}
    /\ \A i \in ids : rs[i].name = n => rs[i].mark = "external-dns"

\* (Definitions named <operator>_<fault> are the mutants the README lists:
\* what the operator after them would be with a plausible bug.)
PlanCreates_WholeZone(want, rs, ids, zs) ==
    {[name |-> nv[1], value |-> nv[2], ttl |-> want[nv[1]].ttl, mark |-> "external-dns",
      zone |-> ZoneFor(nv[1], zs)] :
        nv \in {p \in Names \X Values :
            p[2] \in want[p[1]].targets /\ Acts(p[1], rs, ids, zs)}}

PlanCreates(want, rs, ids, zs) ==
    {[name |-> nv[1], value |-> nv[2], ttl |-> want[nv[1]].ttl, mark |-> "external-dns",
      zone |-> CHOOSE z \in Zones : z \in ZoneFor(nv[1], zs)] :
        nv \in {p \in Names \X Values :
            /\ p[2] \in want[p[1]].targets
            /\ Acts(p[1], rs, ids, zs)
            /\ \A i \in ids : rs[i].name = p[1] => rs[i].value # p[2]}}

PlanDeletes_DropsAnyMark(want, drop, rs, ids, zs) ==
    {i \in ids : LET n == rs[i].name IN
        \/ /\ want[n].targets # {}
           /\ Acts(n, rs, ids, zs)
           /\ rs[i].value \notin want[n].targets
        \/ n \in drop}

PlanDeletes_LeavesStale(want, drop, rs, ids, zs) ==
    {i \in ids : rs[i].name \in drop /\ rs[i].mark = "external-dns"}

PlanDeletes(want, drop, rs, ids, zs) ==
    {i \in ids : LET n == rs[i].name IN
        \/ /\ want[n].targets # {}
           /\ Acts(n, rs, ids, zs)
           /\ rs[i].value \notin want[n].targets
        \/ n \in drop /\ rs[i].mark = "external-dns"}

-----------------------------------------------------------------------------
Init ==
    /\ zones \in SUBSET Zones
    /\ recs \in StartRecs
    /\ \A i \in DOMAIN recs : recs[i].zone \in zones \cap ZonesOf[recs[i].name]
    /\ desired \in [Names -> Endpoint]
    /\ \A n \in Names : desired[n].targets = {} => desired[n] = Nothing
    /\ waits = {}
    /\ threads = [t \in Threads |-> Free]
    /\ faults = 0 /\ edits = 0

Fault(kind) ==
    kind \in Faults /\ faults < MaxFaults /\ faults' = faults + 1 /\ UNCHANGED edits
Edit(kind) ==
    kind \in Edits /\ edits < MaxEdits /\ edits' = edits + 1 /\ UNCHANGED faults
NoFault == UNCHANGED budgets

\* NetBox (external): a new record takes an id no thread remembers, and a
\* record of the name and value of another is refused (enforce_unique_records).
FreeIds == Ids \ (DOMAIN recs \cup UNION {threads[t].deletes : t \in Threads})
FreshId == CHOOSE i \in FreeIds : TRUE
Taken(n, v) == \E i \in DOMAIN recs : recs[i].name = n /\ recs[i].value = v
WithRecord(r) == [j \in DOMAIN recs \cup {FreshId} |-> IF j = FreshId THEN r ELSE recs[j]]
Without(ids) == [j \in DOMAIN recs \ ids |-> recs[j]]

-----------------------------------------------------------------------------
(* The Ingresses and the owner.                                            *)

IngressChanges ==
    /\ Edit("ingress")
    /\ \E n \in Names, e \in Endpoint :
          /\ e.targets = {} => e = Nothing
          /\ desired' = [desired EXCEPT ![n] = e]
    /\ UNCHANGED <<netboxVars, waits, threads>>

OwnerCreates ==
    /\ Edit("create") /\ FreeIds # {}
    /\ \E n \in Names, v \in Values, z \in zones :
          /\ z \in ZonesOf[n] /\ ~Taken(n, v)
          /\ recs' = WithRecord([name |-> n, value |-> v, ttl |-> 0,
                                 mark |-> "hand", zone |-> z])
    /\ UNCHANGED <<zones, desired, waits, threads>>

OwnerDeletes ==
    /\ Edit("delete")
    /\ \E i \in DOMAIN recs : recs' = Without({i})
    /\ UNCHANGED <<zones, desired, waits, threads>>

\* The owner describes an owned record as something else: it is now hand-made.
OwnerAdopts ==
    /\ Edit("adopt")
    /\ \E i \in DOMAIN recs :
          /\ recs[i].mark = "external-dns"
          /\ recs' = [recs EXCEPT ![i].mark = "adopted"]
    /\ UNCHANGED <<zones, desired, waits, threads>>

\* A zone is made, or removed with its records.
OwnerEditsZone ==
    /\ Edit("zone")
    /\ \E z \in Zones :
          IF z \in zones
          THEN /\ zones' = zones \ {z}
               /\ recs' = Without({i \in DOMAIN recs : recs[i].zone = z})
          ELSE zones' = zones \cup {z} /\ UNCHANGED recs
    /\ UNCHANGED <<desired, waits, threads>>

-----------------------------------------------------------------------------
(* ExternalDNS (external): list, compare, apply, one request at a time.    *)

Request(t, r) ==
    /\ threads[t].pc = "free"
    /\ threads' = [threads EXCEPT ![t] = [r EXCEPT !.pc = "zones"]]
    /\ waits' = {t}

List ==
    /\ waits = {}
    /\ \E t \in Threads : Request(t, [Free EXCEPT !.get = TRUE])
    /\ NoFault
    /\ UNCHANGED <<netboxVars, desired>>

\* Its TTL counts only when one is asked for.
Differs(w, h) == w.targets # h.targets \/ (w.ttl # 0 /\ w.ttl # h.ttl)

\* What ExternalDNS posts, having been told have (policy sync, registry noop):
\* the lists create and updateNew as want, and delete as drop.
ChangesFor(have) ==
    [Free EXCEPT
        !.want = [n \in Names |->
                    IF desired[n].targets # {} /\ Differs(desired[n], have[n])
                    THEN desired[n] ELSE Nothing],
        !.drop = {n \in Names : have[n].targets # {} /\ desired[n].targets = {}}]

GivesUp ==
    /\ MayOverlap /\ waits # {}
    /\ \A t \in waits : \E s \in Threads : threads[s].pc = "free"
    /\ waits' = {}
    /\ Fault("late")
    /\ UNCHANGED <<netboxVars, desired, threads>>

-----------------------------------------------------------------------------
(* The webhook's threads: do_GET and do_POST on /records.                  *)

Done(t) ==
    /\ threads' = [threads EXCEPT ![t] = Free]
    /\ waits' = waits \ {t}

ReadZones(t) ==
    /\ threads[t].pc = "zones"
    /\ threads' = [threads EXCEPT ![t].pc = "records", ![t].zones = zones]
    /\ NoFault
    /\ UNCHANGED <<netboxVars, desired, waits>>

\* Zones in other views only: an error, not an empty view.
ViewRefused(t) == threads[t].zones = {} /\ OtherViews

\* GET's answer, and the apply ExternalDNS posts for it if it still listens
\* and anything differs (handed to the thread that becomes free).
AnswerList(t) ==
    /\ threads[t].pc = "records" /\ threads[t].get /\ ~ViewRefused(t)
    /\ \E have \in Endpoints(recs, InView(recs, threads[t].zones)) :
          LET asked == ChangesFor(have) IN
          IF t \in waits /\ asked # Free
          THEN threads' = [threads EXCEPT ![t] = [asked EXCEPT !.pc = "zones"]]
               /\ UNCHANGED waits
          ELSE Done(t)
    /\ NoFault
    /\ UNCHANGED <<netboxVars, desired>>

ReadAndPlan(t) ==
    /\ threads[t].pc = "records" /\ ~threads[t].get /\ ~ViewRefused(t)
    /\ LET me == threads[t]  ids == InView(recs, me.zones) IN
          threads' = [threads EXCEPT
              ![t].pc = "changes",
              ![t].creates = PlanCreates(me.want, recs, ids, me.zones),
              ![t].deletes = PlanDeletes(me.want, me.drop, recs, ids, me.zones)]
    /\ NoFault
    /\ UNCHANGED <<netboxVars, desired, waits>>

\* Deletes by id first, all of them; a record already gone is a 404.
DeleteRecord(t, i) ==
    /\ threads[t].pc = "changes" /\ i \in threads[t].deletes
    /\ i \in DOMAIN recs
    /\ recs' = Without({i})
    /\ threads' = [threads EXCEPT ![t].deletes = @ \ {i}]
    /\ NoFault
    /\ UNCHANGED <<zones, desired, waits>>

\* What NetBox does with a create: refused where the zone is gone or the
\* record is there already.
Accepts(r) == r.zone \in zones /\ ~Taken(r.name, r.value)

CreateRecord(t, r) ==
    /\ threads[t].pc = "changes" /\ threads[t].deletes = {} /\ r \in threads[t].creates
    /\ Accepts(r) /\ FreeIds # {}
    /\ recs' = WithRecord(r)
    /\ threads' = [threads EXCEPT ![t].creates = @ \ {r}]
    /\ NoFault
    /\ UNCHANGED <<zones, desired, waits>>

Applied(t) ==
    /\ threads[t].pc = "changes"
    /\ threads[t].deletes = {} /\ threads[t].creates = {}
    /\ Done(t)
    /\ NoFault
    /\ UNCHANGED <<netboxVars, desired>>

\* NetBox refuses a call for what is now in it: the rest is given up (500).
Refused(t) ==
    /\ \/ threads[t].pc = "records" /\ ViewRefused(t)
       \/ /\ threads[t].pc = "changes"
          /\ \/ \E i \in threads[t].deletes : i \notin DOMAIN recs
             \/ threads[t].deletes = {} /\ \E r \in threads[t].creates : ~Accepts(r)
    /\ Done(t)
    /\ NoFault
    /\ UNCHANGED <<netboxVars, desired>>

\* A call is refused or not answered: 500, whichever the request was, with
\* what was done already left done.  A call carried out with its answer lost
\* is its own step and then this.
CallFails(t) ==
    /\ threads[t].pc # "free"
    /\ Fault("failed")
    /\ Done(t)
    /\ UNCHANGED <<netboxVars, desired>>

Crash ==
    /\ Fault("crash")
    /\ threads' = [t \in Threads |-> Free]
    /\ waits' = {}
    /\ UNCHANGED <<netboxVars, desired>>

Work(t) ==
    \/ ReadZones(t) \/ AnswerList(t) \/ ReadAndPlan(t)
    \/ (\E i \in Ids : DeleteRecord(t, i)) \/ (\E r \in Record : CreateRecord(t, r))
    \/ Applied(t) \/ Refused(t)

Owner == OwnerCreates \/ OwnerDeletes \/ OwnerAdopts \/ OwnerEditsZone

Next ==
    \/ IngressChanges \/ Owner \/ List \/ GivesUp \/ Crash
    \/ \E t \in Threads : Work(t) \/ CallFails(t)

\* ExternalDNS loops every minute, and every call ends within its timeout.
Fairness == WF_vars(List) /\ \A t \in Threads : WF_vars(Work(t))

Spec == Init /\ [][Next]_vars
FairSpec == Spec /\ Fairness

-----------------------------------------------------------------------------
TypeOK ==
    /\ DOMAIN recs \subseteq Ids /\ \A i \in DOMAIN recs : recs[i] \in Record
    /\ zones \subseteq Zones
    /\ desired \in [Names -> Endpoint]
    /\ waits \subseteq Threads
    /\ threads \in [Threads -> Thread]
    /\ faults \in 0..MaxFaults /\ edits \in 0..MaxEdits

ByOwner == edits' # edits

\* A record with another description is never touched: only the owner's own
\* steps change or remove it, whatever handlers overlap, fail half-way or act
\* on lists read before other edits.  The one exception is a record the owner
\* describes anew while a handler already means to delete it.
HandMadeKept ==
    [][ByOwner \/ \A i \in DOMAIN recs :
          \/ recs[i].mark = "external-dns"
          \/ recs[i].mark = "adopted" /\ \E t \in Threads : i \in threads[t].deletes
          \/ i \in DOMAIN recs' /\ recs'[i] = recs[i]]_vars

\* An update replaces only the targets that changed: the record a handler
\* deletes holds no value that the same handler was asked to have.
KeepsWhatIsAsked ==
    [][\A t \in Threads : \A i \in threads[t].deletes :
          (i \in DOMAIN recs /\ i \notin DOMAIN recs' /\ i \notin threads'[t].deletes /\ ~ByOwner) =>
              recs[i].value \notin threads[t].want[recs[i].name].targets]_vars

\* Whatever handlers overlap, neither what is others' nor what is still asked
\* for is lost to a delete planned from an earlier read.
DeletesSpare == HandMadeKept /\ KeepsWhatIsAsked

HandMade(n) == \E i \in DOMAIN recs : recs[i].name = n /\ recs[i].mark # "external-dns"
Owned(n) == {recs[i] : i \in OwnedOf(n, recs, DOMAIN recs)}
ValuesOf(rs) == {r.value : r \in rs}

\* NetBox comes to hold the Ingress hostnames and stays so, once the edits and
\* the faults are over: the owned records of a name inside a zone, with no
\* hand-made one, are exactly what is asked, though handlers overlapped and
\* were cut short, and an earlier handler's answer came after a later request.
Settled ==
    \A n \in Names :
        HandMade(n) \/ ZoneFor(n, zones) = {} \/ ValuesOf(Owned(n)) = desired[n].targets

Converges == <>[]Settled

=============================================================================
