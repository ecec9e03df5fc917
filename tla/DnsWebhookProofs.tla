-------------------------- MODULE DnsWebhookProofs --------------------------
(***************************************************************************)
(* Theorems of DnsWebhook, for any names, values, zones, threads, edits    *)
(* and faults: its types, and that no delete planned from an earlier read  *)
(* takes what is others' or what its handler was asked to have.            *)
(*                                                                         *)
(* The argument: a record a thread means to delete was the webhook's own,  *)
(* and not asked for, when the thread read it.  Between that and the       *)
(* delete the record keeps its name and value, nobody but the owner can    *)
(* take it over, and its id is given to no other record.                   *)
(***************************************************************************)
EXTENDS DnsWebhook, TLAPS

\* A thread is asked to have some names and to drop others.
HaveOrDrop ==
    \A t \in Threads : \A n \in threads[t].drop : threads[t].want[n].targets = {}

\* What a thread means to delete is, or was until the owner took it over, the
\* webhook's own, and not what the thread was asked to have.
DeletesJustified ==
    \A t \in Threads : \A i \in threads[t].deletes \cap DOMAIN recs :
        /\ recs[i].mark \in {"external-dns", "adopted"}
        /\ recs[i].value \notin threads[t].want[recs[i].name].targets

IInv == TypeOK /\ HaveOrDrop /\ DeletesJustified

-----------------------------------------------------------------------------
(* The operators.                                                          *)

LEMMA ZoneForIn == ASSUME NEW n, NEW zs PROVE ZoneFor(n, zs) \subseteq zs
BY DEF ZoneFor

LEMMA CreatesTyped ==
    ASSUME NEW want \in [Names -> Endpoint], NEW rs, NEW ids, NEW zs \in SUBSET Zones
    PROVE  PlanCreates(want, rs, ids, zs) \subseteq Record
<1> SUFFICES ASSUME NEW r \in PlanCreates(want, rs, ids, zs) PROVE r \in Record
  OBVIOUS
<1>1. PICK nv \in Names \X Values :
          /\ nv[2] \in want[nv[1]].targets /\ Acts(nv[1], rs, ids, zs)
          /\ r = [name |-> nv[1], value |-> nv[2], ttl |-> want[nv[1]].ttl, mark |-> "external-dns",
                  zone |-> CHOOSE z \in Zones : z \in ZoneFor(nv[1], zs)]
  BY DEF PlanCreates
<1>2. \E z \in Zones : z \in ZoneFor(nv[1], zs)
  BY <1>1, ZoneForIn DEF Acts
<1>3. (CHOOSE z \in Zones : z \in ZoneFor(nv[1], zs)) \in Zones
  BY <1>2
<1>4. want[nv[1]].ttl \in Ttls
  BY DEF Endpoint
<1>. QED
  BY <1>1, <1>3, <1>4 DEF Record, Marks

\* A planned delete is of the webhook's own record, and not of a value asked.
LEMMA DeletesPlanned ==
    ASSUME NEW want \in [Names -> Endpoint], NEW drop \in SUBSET Names, NEW rs, NEW ids, NEW zs,
           \A n \in drop : want[n].targets = {},
           NEW i \in PlanDeletes(want, drop, rs, ids, zs)
    PROVE  /\ i \in ids /\ rs[i].mark = "external-dns"
           /\ rs[i].value \notin want[rs[i].name].targets
BY DEF PlanDeletes, Acts

\* What ExternalDNS posts.
LEMMA PostTyped ==
    ASSUME TypeOK, NEW have \in [Names -> Endpoint]
    PROVE  /\ [ChangesFor(have) EXCEPT !.pc = "zones"] \in Thread
           /\ \A n \in ChangesFor(have).drop : ChangesFor(have).want[n].targets = {}
           /\ ChangesFor(have).deletes = {}
<1>1. Nothing \in Endpoint
  BY ConstantsAssumption DEF Nothing, Endpoint
<1> DEFINE want == [n \in Names |->
                      IF desired[n].targets # {} /\ Differs(desired[n], have[n])
                      THEN desired[n] ELSE Nothing]
           drop == {n \in Names : have[n].targets # {} /\ desired[n].targets = {}}
<1>2. ChangesFor(have) = [Free EXCEPT !.want = want, !.drop = drop]
  BY DEF ChangesFor
<1>3. want \in [Names -> Endpoint]
  BY <1>1 DEF TypeOK
<1>4. \A n \in drop : want[n].targets = {}
  BY DEF Nothing
<1>5. drop \in SUBSET Names
  OBVIOUS
<1> HIDE DEF want, drop
<1>6. ChangesFor(have) = [pc |-> "free", get |-> FALSE, want |-> want, drop |-> drop,
                          zones |-> {}, creates |-> {}, deletes |-> {}]
  BY <1>2, Zenon DEF Free
<1>7. /\ ChangesFor(have).want = want /\ ChangesFor(have).drop = drop
      /\ ChangesFor(have).deletes = {}
  BY <1>6
<1>8. ChangesFor(have) \in Thread
  BY <1>3, <1>5, <1>6 DEF Thread
<1>9. [ChangesFor(have) EXCEPT !.pc = "zones"] \in Thread
  BY <1>8 DEF Thread
<1>. QED
  BY <1>4, <1>7, <1>9

LEMMA FreeTyped ==
    /\ Free \in Thread /\ [[Free EXCEPT !.get = TRUE] EXCEPT !.pc = "zones"] \in Thread
    /\ Free.drop = {} /\ Free.deletes = {}
BY ConstantsAssumption DEF Free, Thread, Nothing, Endpoint

\* NetBox gives an id that no thread means to delete.
LEMMA FreshIdIsNew ==
    ASSUME FreeIds # {}
    PROVE  /\ FreshId \in Ids /\ FreshId \notin DOMAIN recs
           /\ \A t \in Threads : FreshId \notin threads[t].deletes
BY DEF FreshId, FreeIds

-----------------------------------------------------------------------------
(* What a step does to a record that is there.                             *)

\* How the records may change: one is added under a new id, some go, or the
\* owner takes one over.
Added == \E r \in Record : FreeIds # {} /\ recs' = WithRecord(r)
Removed == \E ids : recs' = Without(ids)
TakenOver == \E i \in DOMAIN recs : recs' = [recs EXCEPT ![i].mark = "adopted"]

LEMMA RecordsStep ==
    ASSUME TypeOK, Added \/ Removed \/ TakenOver \/ recs' = recs
    PROVE  /\ DOMAIN recs' \subseteq Ids /\ \A i \in DOMAIN recs' : recs'[i] \in Record
           /\ \A t \in Threads : \A i \in threads[t].deletes \cap DOMAIN recs' :
                 /\ i \in DOMAIN recs
                 /\ recs'[i].name = recs[i].name /\ recs'[i].value = recs[i].value
                 /\ recs'[i].mark \in {recs[i].mark, "adopted"}
<1> USE DEF TypeOK
<1>1. CASE Added
  <2>1. PICK r \in Record : FreeIds # {} /\ recs' = WithRecord(r)
    BY <1>1 DEF Added
  <2>. QED
    BY <2>1, FreshIdIsNew DEF WithRecord
<1>2. CASE Removed
  BY <1>2 DEF Removed, Without
<1>3. CASE TakenOver
  <2>1. PICK i \in DOMAIN recs : recs' = [recs EXCEPT ![i].mark = "adopted"]
    BY <1>3 DEF TakenOver
  <2>2. /\ DOMAIN recs' = DOMAIN recs
        /\ \A j \in DOMAIN recs \ {i} : recs'[j] = recs[j]
        /\ recs'[i] = [recs[i] EXCEPT !.mark = "adopted"]
    BY <2>1
  <2>3. recs'[i] \in Record /\ recs'[i].mark = "adopted"
        /\ recs'[i].name = recs[i].name /\ recs'[i].value = recs[i].value
    BY <2>2 DEF Record, Marks
  <2>. QED
    BY <2>2, <2>3
<1>. QED
  BY <1>1, <1>2, <1>3

-----------------------------------------------------------------------------
(* The invariant is inductive.                                             *)

LEMMA InitIInv == Init => IInv
<1> SUFFICES ASSUME Init PROVE IInv
  OBVIOUS
<1> USE ConstantsAssumption DEF Init
<1>1. DOMAIN recs \subseteq Ids /\ \A i \in DOMAIN recs : recs[i] \in Record
  BY StartAssumption
<1>2. threads \in [Threads -> Thread]
  BY FreeTyped
<1>3. TypeOK
  BY <1>1, <1>2 DEF TypeOK
<1>4. HaveOrDrop /\ DeletesJustified
  BY FreeTyped DEF HaveOrDrop, DeletesJustified
<1>. QED
  BY <1>3, <1>4 DEF IInv

\* A thread keeps what it was asked, and may have less to delete, or starts
\* anew with nothing to delete.
Lessened(t) ==
    \/ /\ threads'[t].want = threads[t].want /\ threads'[t].drop = threads[t].drop
       /\ threads'[t].deletes \subseteq threads[t].deletes
    \/ /\ \A n \in threads'[t].drop : threads'[t].want[n].targets = {}
       /\ threads'[t].deletes = {}

LEMMA StillJustified ==
    ASSUME IInv, Added \/ Removed \/ TakenOver \/ recs' = recs,
           \A t \in Threads : Lessened(t)
    PROVE  HaveOrDrop' /\ DeletesJustified'
<1>1. \A t \in Threads : \A n \in threads'[t].drop : threads'[t].want[n].targets = {}
  BY DEF IInv, HaveOrDrop, Lessened
<1>2. ASSUME NEW t \in Threads, NEW i \in threads'[t].deletes \cap DOMAIN recs'
      PROVE  /\ recs'[i].mark \in {"external-dns", "adopted"}
             /\ recs'[i].value \notin threads'[t].want[recs'[i].name].targets
  <2>1. i \in threads[t].deletes /\ threads'[t].want = threads[t].want
    BY <1>2 DEF Lessened
  <2>2. /\ i \in DOMAIN recs /\ recs'[i].name = recs[i].name /\ recs'[i].value = recs[i].value
        /\ recs'[i].mark \in {recs[i].mark, "adopted"}
    BY <1>2, <2>1, RecordsStep DEF IInv
  <2>. QED
    BY <2>1, <2>2 DEF IInv, DeletesJustified
<1>. QED
  BY <1>1, <1>2 DEF HaveOrDrop, DeletesJustified
\* The types of what a step of the owner or of ExternalDNS leaves.
LEMMA NextIInv == IInv /\ [Next]_vars => IInv'
<1> SUFFICES ASSUME IInv, [Next]_vars PROVE IInv'
  OBVIOUS
<1>0. TypeOK /\ HaveOrDrop /\ DeletesJustified
  BY DEF IInv
<1> USE ConstantsAssumption DEF TypeOK, netboxVars, budgets
<1>1. CASE UNCHANGED vars
  BY <1>0, <1>1 DEF vars, IInv, HaveOrDrop, DeletesJustified
<1>2. CASE IngressChanges
  <2>1. desired' \in [Names -> Endpoint] /\ edits' \in 0..MaxEdits /\ faults' = faults
    BY <1>0, <1>2 DEF IngressChanges, Edit
  <2>2. UNCHANGED <<netboxVars, waits, threads>>
    BY <1>2 DEF IngressChanges
  <2>. QED
    BY <1>0, <2>1, <2>2 DEF IInv, HaveOrDrop, DeletesJustified
<1>3. CASE Owner
  <2>1. /\ UNCHANGED <<desired, waits, threads>> /\ faults' = faults
        /\ edits' \in 0..MaxEdits
    BY <1>0, <1>3 DEF Owner, OwnerCreates, OwnerDeletes, OwnerAdopts, OwnerEditsZone, Edit
  <2>2. zones' \subseteq Zones
    BY <1>0, <1>3 DEF Owner, OwnerCreates, OwnerDeletes, OwnerAdopts, OwnerEditsZone
  <2>3. Added \/ Removed \/ TakenOver \/ recs' = recs
    <3>1. CASE OwnerCreates
      <4>1. PICK n \in Names, v \in Values, z \in zones :
                recs' = WithRecord([name |-> n, value |-> v, ttl |-> 0, mark |-> "hand", zone |-> z])
        BY <3>1 DEF OwnerCreates
      <4>2. [name |-> n, value |-> v, ttl |-> 0, mark |-> "hand", zone |-> z] \in Record
        BY <1>0 DEF Record, Marks
      <4>. QED
        BY <3>1, <4>1, <4>2 DEF Added, OwnerCreates
    <3>2. CASE OwnerDeletes \/ OwnerEditsZone
      BY <3>2 DEF OwnerDeletes, OwnerEditsZone, Removed
    <3>3. CASE OwnerAdopts
      BY <3>3 DEF OwnerAdopts, TakenOver
    <3>. QED
      BY <1>3, <3>1, <3>2, <3>3 DEF Owner
  <2>4. HaveOrDrop' /\ DeletesJustified'
    BY <2>1, <2>3, StillJustified DEF Lessened
  <2>. QED
    BY <1>0, <2>1, <2>2, <2>3, <2>4, RecordsStep DEF IInv
<1>4. CASE List
  <2>1. PICK t \in Threads : Request(t, [Free EXCEPT !.get = TRUE])
    BY <1>4 DEF List
  <2>2. threads' = [threads EXCEPT ![t] = [[Free EXCEPT !.get = TRUE] EXCEPT !.pc = "zones"]]
        /\ waits' = {t}
    BY <2>1 DEF Request
  <2>3. UNCHANGED <<netboxVars, desired, budgets>>
    BY <1>4 DEF List, NoFault
  <2>4. /\ [[Free EXCEPT !.get = TRUE] EXCEPT !.pc = "zones"].drop = {}
        /\ [[Free EXCEPT !.get = TRUE] EXCEPT !.pc = "zones"].deletes = {}
    BY DEF Free
  <2>5. threads' \in [Threads -> Thread]
    BY <1>0, <2>2, FreeTyped
  <2>6. \A s \in Threads : Lessened(s)
    BY <1>0, <2>2, <2>4 DEF Lessened
  <2>. QED
    BY <1>0, <2>2, <2>3, <2>5, <2>6, StillJustified DEF IInv
<1>5. CASE GivesUp
  BY <1>0, <1>5 DEF GivesUp, Fault, IInv, HaveOrDrop, DeletesJustified
<1>6. CASE Crash
  <2>1. threads' = [t \in Threads |-> Free] /\ waits' = {}
        /\ UNCHANGED <<netboxVars, desired, edits>> /\ faults' \in 0..MaxFaults
    BY <1>0, <1>6 DEF Crash, Fault
  <2>2. threads' \in [Threads -> Thread] /\ \A t \in Threads : Lessened(t)
    BY <2>1, FreeTyped DEF Lessened
  <2>. QED
    BY <1>0, <2>1, <2>2, StillJustified DEF IInv
<1>7. ASSUME NEW t \in Threads, Work(t) \/ CallFails(t)
      PROVE  IInv'
  <2>0. threads[t] \in Thread
    BY <1>0
  <2>1. CASE ReadZones(t)
    <3>1. /\ threads' = [threads EXCEPT ![t] = [[threads[t] EXCEPT !.pc = "records"] EXCEPT !.zones = zones]]
          /\ UNCHANGED <<netboxVars, desired, waits, budgets>>
      BY <1>0, <2>1 DEF ReadZones, NoFault
    <3>2. /\ threads' \in [Threads -> Thread]
          /\ \A s \in Threads : Lessened(s)
      BY <1>0, <2>0, <3>1 DEF Lessened, Thread
    <3>. QED
      BY <1>0, <3>1, <3>2, StillJustified DEF IInv
  <2>2. CASE AnswerList(t)
    <3>1. UNCHANGED <<netboxVars, desired, budgets>>
      BY <2>2 DEF AnswerList, NoFault
    <3>2. PICK have \in Endpoints(recs, InView(recs, threads[t].zones)) :
              \/ /\ threads' = [threads EXCEPT ![t] = [ChangesFor(have) EXCEPT !.pc = "zones"]]
                 /\ waits' = waits
              \/ threads' = [threads EXCEPT ![t] = Free] /\ waits' = waits \ {t}
      BY <2>2 DEF AnswerList, Done
    <3>3. have \in [Names -> Endpoint]
      BY DEF Endpoints
    <3>4. /\ [ChangesFor(have) EXCEPT !.pc = "zones"] \in Thread
          /\ \A n \in ChangesFor(have).drop : ChangesFor(have).want[n].targets = {}
          /\ ChangesFor(have).deletes = {}
      BY <1>0, <3>3, PostTyped
    <3>5. /\ [ChangesFor(have) EXCEPT !.pc = "zones"].drop = ChangesFor(have).drop
          /\ [ChangesFor(have) EXCEPT !.pc = "zones"].want = ChangesFor(have).want
          /\ [ChangesFor(have) EXCEPT !.pc = "zones"].deletes = ChangesFor(have).deletes
      BY DEF ChangesFor, Free
    <3>6. threads' \in [Threads -> Thread] /\ waits' \subseteq Threads
      BY <1>0, <3>2, <3>4, FreeTyped
    <3>7. \A s \in Threads : Lessened(s)
      BY <1>0, <3>2, <3>4, <3>5, FreeTyped DEF Lessened
    <3>. QED
      BY <1>0, <3>1, <3>6, <3>7, StillJustified DEF IInv
  <2>3. CASE ReadAndPlan(t)
    <3> DEFINE me == threads[t]
               ids == InView(recs, me.zones)
               new == [[[me EXCEPT !.pc = "changes"]
                            EXCEPT !.creates = PlanCreates(me.want, recs, ids, me.zones)]
                            EXCEPT !.deletes = PlanDeletes(me.want, me.drop, recs, ids, me.zones)]
    <3>1. threads' = [threads EXCEPT ![t] = new] /\ UNCHANGED <<netboxVars, desired, waits, budgets>>
      BY <1>0, <2>3 DEF ReadAndPlan, NoFault
    <3>2. /\ me.want \in [Names -> Endpoint] /\ me.drop \in SUBSET Names /\ me.zones \in SUBSET Zones
          /\ ids \subseteq DOMAIN recs /\ ids \subseteq Ids
      BY <1>0, <2>0 DEF Thread, InView
    <3>3. PlanCreates(me.want, recs, ids, me.zones) \subseteq Record
      BY <3>2, CreatesTyped
    <3>4. \A i \in PlanDeletes(me.want, me.drop, recs, ids, me.zones) :
              /\ i \in ids /\ recs[i].mark = "external-dns"
              /\ recs[i].value \notin me.want[recs[i].name].targets
      BY <1>0, <3>2, DeletesPlanned DEF HaveOrDrop
    <3>5. /\ new.want = me.want /\ new.drop = me.drop
          /\ new.deletes = PlanDeletes(me.want, me.drop, recs, ids, me.zones)
          /\ new \in Thread
      BY <2>0, <3>2, <3>3, <3>4 DEF Thread
    <3> HIDE DEF me, ids, new
    <3>6. threads' \in [Threads -> Thread]
      BY <1>0, <3>1, <3>5
    <3>7. HaveOrDrop'
      BY <1>0, <3>1, <3>5 DEF HaveOrDrop, me
    <3>8. DeletesJustified'
      BY <1>0, <3>1, <3>4, <3>5 DEF DeletesJustified, me
    <3>. QED
      BY <1>0, <3>1, <3>6, <3>7, <3>8 DEF IInv
  <2>4. CASE \E i \in Ids : DeleteRecord(t, i)
    <3>1. PICK i \in Ids : DeleteRecord(t, i)
      BY <2>4
    <3>2. /\ recs' = Without({i})
          /\ threads' = [threads EXCEPT ![t] = [threads[t] EXCEPT !.deletes = threads[t].deletes \ {i}]]
          /\ UNCHANGED <<zones, desired, waits, budgets>>
      BY <1>0, <3>1 DEF DeleteRecord, NoFault
    <3>3. threads' \in [Threads -> Thread] /\ \A s \in Threads : Lessened(s)
      BY <1>0, <2>0, <3>2 DEF Lessened, Thread
    <3>4. Removed
      BY <3>2 DEF Removed
    <3>. QED
      BY <1>0, <3>2, <3>3, <3>4, StillJustified, RecordsStep DEF IInv
  <2>5. CASE \E r \in Record : CreateRecord(t, r)
    <3>1. PICK r \in Record : CreateRecord(t, r)
      BY <2>5
    <3>2. /\ recs' = WithRecord(r) /\ FreeIds # {}
          /\ threads' = [threads EXCEPT ![t] = [threads[t] EXCEPT !.creates = threads[t].creates \ {r}]]
          /\ UNCHANGED <<zones, desired, waits, budgets>>
      BY <1>0, <3>1 DEF CreateRecord, NoFault
    <3>3. threads' \in [Threads -> Thread] /\ \A s \in Threads : Lessened(s)
      BY <1>0, <2>0, <3>2 DEF Lessened, Thread
    <3>4. Added
      BY <3>2 DEF Added
    <3>. QED
      BY <1>0, <3>2, <3>3, <3>4, StillJustified, RecordsStep DEF IInv
  <2>6. CASE Applied(t) \/ Refused(t) \/ CallFails(t)
    <3>1. /\ threads' = [threads EXCEPT ![t] = Free] /\ waits' = waits \ {t}
          /\ UNCHANGED <<netboxVars, desired>> /\ faults' \in 0..MaxFaults /\ edits' = edits
      BY <1>0, <2>6 DEF Applied, Refused, CallFails, Done, NoFault, Fault
    <3>2. threads' \in [Threads -> Thread] /\ \A s \in Threads : Lessened(s)
      BY <1>0, <3>1, FreeTyped DEF Lessened
    <3>. QED
      BY <1>0, <3>1, <3>2, StillJustified DEF IInv
  <2>. QED
    BY <1>7, <2>1, <2>2, <2>3, <2>4, <2>5, <2>6 DEF Work
<1>. QED
  BY <1>1, <1>2, <1>3, <1>4, <1>5, <1>6, <1>7 DEF Next

-----------------------------------------------------------------------------
(* The theorems.                                                           *)

\* The invariant holds in every state of every behaviour.
THEOREM Invariance == Spec => []IInv
BY InitIInv, NextIInv, PTL DEF Spec

\* The variables keep their types.
THEOREM TypesHold == Spec => []TypeOK
BY Invariance, PTL DEF IInv
\* The record a delete takes was the thread's to delete.
LEMMA DeleteTakes ==
    ASSUME IInv, NEW t \in Threads, NEW i \in Ids, DeleteRecord(t, i)
    PROVE  /\ recs' = Without({i}) /\ i \in threads[t].deletes \cap DOMAIN recs
           /\ recs[i].mark \in {"external-dns", "adopted"}
           /\ recs[i].value \notin threads[t].want[recs[i].name].targets
           /\ \A s \in Threads \ {t} : threads'[s] = threads[s]
BY DEF IInv, DeletesJustified, DeleteRecord, TypeOK

\* Without the owner a record goes, or changes, by a delete alone.
LEMMA GoesByDelete ==
    ASSUME IInv, [Next]_vars, ~ByOwner, NEW i \in DOMAIN recs
    PROVE  \/ i \in DOMAIN recs' /\ recs'[i] = recs[i]
           \/ \E t \in Threads : DeleteRecord(t, i)
<1>1. recs' = recs \/ Added \/ \E t \in Threads : \E j \in Ids : DeleteRecord(t, j)
  <2>1. CASE UNCHANGED vars
    BY <2>1 DEF vars, netboxVars
  <2>2. CASE IngressChanges \/ List \/ GivesUp \/ Crash
    BY <2>2 DEF IngressChanges, List, GivesUp, Crash, netboxVars
  <2>3. ~Owner
    BY DEF Owner, OwnerCreates, OwnerDeletes, OwnerAdopts, OwnerEditsZone, Edit, ByOwner,
           IInv, TypeOK
  <2>4. ASSUME NEW t \in Threads, Work(t) \/ CallFails(t),
               ~\E j \in Ids : DeleteRecord(t, j)
        PROVE  recs' = recs \/ Added
    BY <2>4 DEF Work, CallFails, ReadZones, AnswerList, ReadAndPlan, CreateRecord, Applied, Refused,
                netboxVars, Added
  <2>. QED
    BY <2>1, <2>2, <2>3, <2>4 DEF Next
<1>2. CASE Added
  BY <1>2, FreshIdIsNew DEF Added, WithRecord
<1>3. ASSUME NEW t \in Threads, NEW j \in Ids, DeleteRecord(t, j)
      PROVE  j = i \/ (i \in DOMAIN recs' /\ recs'[i] = recs[i])
  BY <1>3 DEF DeleteRecord, Without
<1>. QED
  BY <1>1, <1>2, <1>3

\* A record with another description is never touched but by the owner.
THEOREM HandMadeStays == Spec => HandMadeKept
<1>1. IInv /\ [Next]_vars =>
        (ByOwner \/ \A i \in DOMAIN recs :
            \/ recs[i].mark = "external-dns"
            \/ recs[i].mark = "adopted" /\ \E t \in Threads : i \in threads[t].deletes
            \/ i \in DOMAIN recs' /\ recs'[i] = recs[i])
  <2> SUFFICES ASSUME IInv, [Next]_vars, ~ByOwner, NEW i \in DOMAIN recs,
                      NEW t \in Threads, DeleteRecord(t, i)
               PROVE  recs[i].mark = "external-dns" \/ (recs[i].mark = "adopted" /\ i \in threads[t].deletes)
    BY GoesByDelete
  <2>. QED
    BY DeleteTakes DEF IInv, TypeOK
<1>. QED
  BY <1>1, Invariance, PTL DEF Spec, HandMadeKept

\* The record a handler deletes holds no value it was asked to have.
THEOREM AskedStays == Spec => KeepsWhatIsAsked
<1>1. IInv /\ [Next]_vars =>
        (\A t \in Threads : \A i \in threads[t].deletes :
            (i \in DOMAIN recs /\ i \notin DOMAIN recs' /\ i \notin threads'[t].deletes /\ ~ByOwner) =>
                recs[i].value \notin threads[t].want[recs[i].name].targets)
  BY DEF IInv, DeletesJustified
<1>. QED
  BY <1>1, Invariance, PTL DEF Spec, KeepsWhatIsAsked

\* Whatever handlers overlap, neither is lost to a delete.
THEOREM DeletesAreSparing == Spec => DeletesSpare
BY HandMadeStays, AskedStays, PTL DEF DeletesSpare
=============================================================================
