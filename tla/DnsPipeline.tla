---------------------------- MODULE DnsPipeline ----------------------------
(***************************************************************************)
(* The two halves of local DNS together: ExternalDNS's webhook writes the  *)
(* Ingress hostnames into NetBox DNS (DnsWebhook) while the sync copies    *)
(* NetBox DNS to the Pi-holes (PiholeSync).  Neither knows of the other:   *)
(* they meet only in NetBox's zones and records, which one changes record  *)
(* by record, deletes before creates, while the other reads zones and      *)
(* records in two calls.                                                   *)
(*                                                                         *)
(* A webhook record is an active record of the hosts list.                 *)
(***************************************************************************)
EXTENDS Naturals, FiniteSets

CONSTANTS
    Names, Values, Zones, ZonesOf, Labels, Ids, Threads, StartRecs,
    NPiholes, StartLines, Delete,
    Faults, Edits, SyncFaults, MaxFaults, MaxEdits, MaxSessions

VARIABLES
    recs, zones, desired, waits, threads,
    lines, sessions, pc, at, seen, wanted, read, rm, add, ok,
    faults, edits

webhookOnly == <<desired, waits, threads>>
syncOnly == <<lines, sessions, pc, at, seen, wanted, read, rm, add, ok>>
vars == <<recs, zones, webhookOnly, syncOnly, faults, edits>>

W == INSTANCE DnsWebhook WITH
    Ttls <- {0}, OtherViews <- FALSE, MayOverlap <- FALSE

\* What a record of NetBox DNS is to the sync.
AsRead(r) == [zone |-> r.zone, list |-> "hosts", name |-> r.name, value |-> r.value]

P == INSTANCE PiholeSync WITH
    Records <- {AsRead(r) : r \in {q \in W!Record : q.zone \in ZonesOf[q.name]}},
    records <- {AsRead(recs[i]) : i \in DOMAIN recs},
    Apply <- TRUE,
    Faults <- SyncFaults

ASSUME ConstantsAssumption ==
    W!ConstantsAssumption /\ W!StartAssumption /\ P!ConstantsAssumption

Init ==
    /\ W!Init
    /\ lines \in [P!Piholes -> StartLines]
    /\ sessions = [p \in P!Piholes |-> 0]
    /\ pc = "zones" /\ at = 1 /\ seen = {} /\ wanted = {}
    /\ read = {} /\ rm = {} /\ add = {} /\ ok = FALSE

WebhookStep == W!Next /\ UNCHANGED syncOnly

SyncStep ==
    /\ UNCHANGED <<recs, webhookOnly>>
    /\ P!Sync \/ \E p \in P!Piholes : P!SessionLapses(p)

Next == WebhookStep \/ SyncStep

\* Each half runs on its own schedule, as in its own module.
Fairness ==
    /\ WF_vars(W!List /\ UNCHANGED syncOnly)
    /\ \A t \in Threads : WF_vars(W!Work(t) /\ UNCHANGED syncOnly)
    /\ \A step \in {"zones", "records", "login", "change", "close"} :
          WF_vars(pc = step /\ UNCHANGED <<recs, webhookOnly, faults>> /\ P!Sync)
    /\ \A p \in P!Piholes :
          WF_vars(UNCHANGED <<recs, webhookOnly>> /\ P!SessionLapses(p))

Spec == Init /\ [][Next]_vars
FairSpec == Spec /\ Fairness

-----------------------------------------------------------------------------
\* What the owner's Ingresses ask for and NetBox lets the webhook serve.
Served == {n \in Names : W!ZoneFor(n, zones) # {} /\ ~W!HandMade(n)}

Answered(p, n) == {a.value : a \in {b \in P!AnswersOf(lines[p]) : b.name = n}}

\* An Ingress hostname comes to be answered by every Pi-hole, with the
\* Ingress's targets and with deletes on no other, and stays so, once edits and
\* faults are over, however the two programs' steps interleaved; unless NetBox
\* holds no record at all, which the sync refuses to read as "nothing".
IngressesAnswered ==
    <>[](recs = <<>> \/
         \A p \in P!Piholes, n \in Served :
            IF Delete THEN Answered(p, n) = desired[n].targets
                      ELSE desired[n].targets \subseteq Answered(p, n))
=============================================================================
