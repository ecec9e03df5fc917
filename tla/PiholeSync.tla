----------------------------- MODULE PiholeSync -----------------------------
(***************************************************************************)
(* netbox_pihole_sync.py: the loop that copies NetBox DNS's active records *)
(* to every Pi-hole (docker/netbox/dns-sync).                              *)
(*                                                                         *)
(* One process visits the Pi-holes in order, each round from a fresh read  *)
(* of NetBox.  Every HTTP call is a step of its own, because the records   *)
(* may be edited in NetBox between two calls and because a call may be     *)
(* refused, may be carried out with its answer lost, or may be the last    *)
(* one before the container restarts.                                      *)
(*                                                                         *)
(* Abstractions.  A name is a model value with the set of zones whose name *)
(* is a label suffix of it (ZonesOf).  Pi-hole's two lists, dns.hosts and  *)
(* dns.cnameRecords, hold lines of one shape: the list, the line's names   *)
(* and its value (an address or a CNAME's target); only a hosts line can   *)
(* have several names.  A and AAAA differ by the shape of the address and  *)
(* so are one kind here.  The lists are sets: the order of lines is used   *)
(* for nothing but the order of the calls, which is left open within each  *)
(* of the code's stages.                                                   *)
(***************************************************************************)
EXTENDS Naturals, FiniteSets

CONSTANTS
    NPiholes,     \* how many are numbered without a gap
    Names,        \* host names
    Zones,        \* zones of NetBox DNS's default view
    ZonesOf,      \* ZonesOf[n]: the zones n is inside, by label
    Values,       \* addresses and CNAME targets
    Records,      \* the records NetBox may hold: [zone, list, name, value]
    StartLines,   \* the sets of lines a Pi-hole may start with
    Apply,        \* SYNC_APPLY, or --apply
    Delete,       \* SYNC_DELETE
    Faults,       \* which faults happen: subset of FaultKinds
    MaxFaults,    \* how many of them
    MaxEdits,     \* how many edits are made in NetBox
    MaxSessions   \* sessions a Pi-hole lets live at once

Lists == {"hosts", "cnameRecords"}
FaultKinds == {"refused", "lost", "crash", "unclosed"}
Piholes == 1..NPiholes

\* One name of one line: what a Pi-hole answers.  NetBox's wanted records
\* are of this form too.
Answer == [list : Lists, name : Names, value : Values]

Line == {l \in [list : Lists, names : SUBSET Names, value : Values] :
            /\ l.names # {}
            /\ l.list = "cnameRecords" => \E n \in Names : l.names = {n}}

ASSUME ConstantsAssumption ==
    /\ NPiholes \in Nat \ {0}
    /\ ZonesOf \in [Names -> SUBSET Zones]
    /\ Records \subseteq [zone : Zones, list : Lists, name : Names, value : Values]
    /\ \A r \in Records : r.zone \in ZonesOf[r.name]
    /\ StartLines \subseteq SUBSET Line
    /\ Apply \in BOOLEAN /\ Delete \in BOOLEAN
    /\ Faults \subseteq FaultKinds
    /\ MaxFaults \in Nat /\ MaxEdits \in Nat /\ MaxSessions \in Nat \ {0}

VARIABLES
    zones,     \* NetBox: the zones that are active
    records,   \* NetBox: the records that are active
    lines,     \* each Pi-hole's lines
    sessions,  \* each Pi-hole's open sessions
    pc,        \* the round's next call
    at,        \* the Pi-hole being visited
    seen,      \* the zones this round read
    wanted,    \* the answers this round wants everywhere
    read,      \* the lines this visit read
    rm, add,   \* the lines this visit has still to remove and to add
    ok,        \* no Pi-hole of this round failed; between rounds, the last one's end
    edits, faults

netboxVars == <<zones, records, edits>>
piholeVars == <<lines, sessions>>
visitVars == <<read, rm, add>>
roundVars == <<at, seen, wanted, ok>>
vars == <<netboxVars, piholeVars, visitVars, roundVars, pc, faults>>

-----------------------------------------------------------------------------
(* The plan: pure functions of the lines read and the records wanted.      *)

InZone(n, zs) == ZonesOf[n] \cap zs # {}

Answers(l) == {[list |-> l.list, name |-> n, value |-> l.value] : n \in l.names}
LineFor(a) == [list |-> a.list, names |-> {a.name}, value |-> a.value]
AnswersOf(ls) == UNION {Answers(l) : l \in ls}

\* (Definitions named <operator>_<fault> are the mutants the README lists:
\* what the operator after them would be with a plausible bug.)
Mine_AnyLine(ls, zs) == ls

\* A line with no name inside a zone is not this program's.
Mine(ls, zs) == {l \in ls : \E n \in l.names : InZone(n, zs)}
OneName(ls) == {l \in ls : \E n \in l.names : l.names = {n}}

ToRemove(ls, zs, ws) ==
    LET mine == Mine(ls, zs) IN
        (mine \ OneName(mine))
            \cup {l \in OneName(mine) : Delete /\ ~(Answers(l) \subseteq ws)}

ToReadd_OnlyWanted(ls, zs, ws) ==
    AnswersOf(Mine(ls, zs) \ OneName(ls)) \cap ws

\* The names of a removed line that come back, one per line.
ToReadd(ls, zs, ws) ==
    LET mine == Mine(ls, zs) IN
        {a \in AnswersOf(mine \ OneName(mine)) :
            InZone(a.name, zs) /\ Delete => a \in ws}

ToAdd(ls, zs, ws) ==
    LET have == AnswersOf(OneName(Mine(ls, zs))) \cap ws IN
        {LineFor(a) : a \in (ws \cup ToReadd(ls, zs, ws)) \ have}

NothingToDo(ls, zs, ws) == ToRemove(ls, zs, ws) = {} /\ ToAdd(ls, zs, ws) = {}

RecordAnswer(r) == [list |-> r.list, name |-> r.name, value |-> r.value]

\* The records of the zones zs as answers: what netbox_wanted returns.
WantedFrom(rs, zs) ==
    {RecordAnswer(r) : r \in {q \in rs : q.zone \in zs}}

-----------------------------------------------------------------------------
Init ==
    /\ zones \in SUBSET Zones
    /\ records \in SUBSET Records
    /\ lines \in [Piholes -> StartLines]
    /\ sessions = [p \in Piholes |-> 0]
    /\ pc = "zones" /\ at = 1 /\ seen = {} /\ wanted = {}
    /\ read = {} /\ rm = {} /\ add = {}
    /\ ok = FALSE
    /\ edits = 0 /\ faults = 0

(* NetBox's own changes: a record made, removed or changed in status, a    *)
(* zone activated or retired.                                              *)
EditRecord ==
    /\ edits < MaxEdits
    /\ \E r \in Records :
          records' = IF r \in records THEN records \ {r} ELSE records \cup {r}
    /\ edits' = edits + 1
    /\ UNCHANGED <<zones, piholeVars, visitVars, roundVars, pc, faults>>

EditZone ==
    /\ edits < MaxEdits
    /\ \E z \in Zones :
          zones' = IF z \in zones THEN zones \ {z} ELSE zones \cup {z}
    /\ edits' = edits + 1
    /\ UNCHANGED <<records, piholeVars, visitVars, roundVars, pc, faults>>

-----------------------------------------------------------------------------
(* Reading NetBox.  The zones come first, the records after them; no zone  *)
(* and no record both refuse the round, and so does no answer.             *)

Fault(kind) == kind \in Faults /\ faults < MaxFaults /\ faults' = faults + 1
NoFault == UNCHANGED faults

ReadZones ==
    /\ pc = "zones"
    /\ seen' = zones
    /\ ok' = FALSE
    /\ pc' = IF zones = {} THEN "zones" ELSE "records"
    /\ NoFault
    /\ UNCHANGED <<netboxVars, piholeVars, visitVars, at, wanted>>

ReadRecords ==
    /\ pc = "records"
    /\ LET found == WantedFrom(records, seen) IN
          /\ wanted' = found
          /\ ok' = (found # {})
          /\ pc' = IF found = {} THEN "zones" ELSE "login"
    /\ at' = 1
    /\ NoFault
    /\ UNCHANGED <<netboxVars, piholeVars, visitVars, seen>>

NetBoxRefuses ==
    /\ pc \in {"zones", "records"}
    /\ Fault("refused")
    /\ ok' = FALSE
    /\ pc' = "zones"
    /\ UNCHANGED <<netboxVars, piholeVars, visitVars, at, seen, wanted>>

-----------------------------------------------------------------------------
(* One Pi-hole's visit: log in, read its lists, remove, add, read back,    *)
(* log out.  A refusal anywhere ends the visit, never the round.           *)

EndVisit_LastDecides(clean) == ok' = clean /\ pc' = "close"

EndVisit(clean) == ok' = (ok /\ clean) /\ pc' = "close"

ReadLists ==
    /\ pc = "login"
    /\ sessions[at] < MaxSessions
    /\ sessions' = [sessions EXCEPT ![at] = @ + 1]
    /\ read' = lines[at]
    /\ rm' = ToRemove(lines[at], seen, wanted)
    /\ add' = ToAdd(lines[at], seen, wanted)
    /\ IF Apply /\ ~NothingToDo(lines[at], seen, wanted)
       THEN pc' = "change" /\ UNCHANGED ok
       ELSE EndVisit(TRUE)
    /\ NoFault
    /\ UNCHANGED <<netboxVars, lines, at, seen, wanted>>

NextPihole_SkipsLast ==
    /\ pc' = IF at + 1 < NPiholes THEN "login" ELSE "zones"
    /\ at' = IF at + 1 < NPiholes THEN at + 1 ELSE at

NextPihole_OnePastLast ==
    /\ pc' = IF at <= NPiholes THEN "login" ELSE "zones"
    /\ at' = IF at <= NPiholes THEN at + 1 ELSE at

\* The next Pi-hole, or the end of the round after the last one.
NextPihole ==
    /\ pc' = IF at < NPiholes THEN "login" ELSE "zones"
    /\ at' = IF at < NPiholes THEN at + 1 ELSE at

\* A refused login leaves no session to close: a wrong password, no answer, or
\* a Pi-hole at its limit of sessions.  One whose answer is lost leaves a
\* session open that nobody can close.
LoginRefused ==
    /\ pc = "login"
    /\ \/ sessions[at] = MaxSessions /\ NoFault /\ UNCHANGED sessions
       \/ Fault("refused") /\ UNCHANGED sessions
       \/ /\ Fault("lost") /\ sessions[at] < MaxSessions
          /\ sessions' = [sessions EXCEPT ![at] = @ + 1]
    /\ ok' = FALSE
    /\ NextPihole
    /\ UNCHANGED <<netboxVars, lines, visitVars, seen, wanted>>

\* Hosts lines before CNAMEs, within the removals and within the additions.
NextOf(todo) == {l \in todo : l.list = "hosts" \/ \A m \in todo : m.list # "hosts"}

Remove(l) ==
    /\ l \in NextOf(rm)
    /\ lines' = [lines EXCEPT ![at] = @ \ {l}]
    /\ rm' = rm \ {l}
    /\ UNCHANGED add

Add(l) ==
    /\ rm = {}
    /\ l \in NextOf(add)
    /\ lines' = [lines EXCEPT ![at] = @ \cup {l}]
    /\ add' = add \ {l}
    /\ UNCHANGED rm

Change ==
    /\ pc = "change"
    /\ \E l \in rm \cup add : Remove(l) \/ Add(l)
    /\ NoFault
    /\ UNCHANGED <<netboxVars, sessions, roundVars, pc, read>>

\* The call is refused or not answered: that raises, and what was still to
\* change is forgotten with the visit.  A change that is carried out and its
\* answer lost is Change and then this; so is a read-back that fails.
ChangeFails ==
    /\ pc = "change"
    /\ Fault("refused")
    /\ EndVisit(FALSE)
    /\ rm' = {} /\ add' = {}
    /\ UNCHANGED <<netboxVars, piholeVars, at, seen, wanted, read>>

ReadBack ==
    /\ pc = "change" /\ rm = {} /\ add = {}
    /\ EndVisit(NothingToDo(lines[at], seen, wanted))
    /\ NoFault
    /\ UNCHANGED <<netboxVars, piholeVars, visitVars, at, seen, wanted>>

Close_NoLogout ==
    /\ pc = "close"
    /\ NextPihole
    /\ read' = {} /\ rm' = {} /\ add' = {}
    /\ UNCHANGED <<netboxVars, lines, sessions, seen, wanted, ok, faults>>

\* The finally clause.  A logout nobody confirms leaves its session to lapse.
Close ==
    /\ pc = "close"
    /\ \/ sessions' = [sessions EXCEPT ![at] = @ - 1] /\ NoFault
       \/ UNCHANGED sessions /\ Fault("unclosed")
    /\ NextPihole
    /\ read' = {} /\ rm' = {} /\ add' = {}
    /\ UNCHANGED <<netboxVars, lines, seen, wanted, ok>>

\* The container stops, or an exception that is not Refused ends the
\* process (an answer that is not JSON); Docker starts it again.
Crash ==
    /\ Fault("crash")
    /\ pc' = "zones" /\ ok' = FALSE
    /\ read' = {} /\ rm' = {} /\ add' = {}
    /\ UNCHANGED <<netboxVars, piholeVars, at, seen, wanted>>

InUse(p) == IF pc \in {"change", "close"} /\ p = at THEN 1 ELSE 0

SessionLapses(p) ==
    /\ sessions[p] > InUse(p)
    /\ sessions' = [sessions EXCEPT ![p] = @ - 1]
    /\ UNCHANGED <<netboxVars, lines, visitVars, roundVars, pc, faults>>

Sync == \/ ReadZones \/ ReadRecords \/ NetBoxRefuses \/ ReadLists \/ LoginRefused
        \/ Change \/ ChangeFails \/ ReadBack \/ Close \/ Crash

Next == Sync \/ EditRecord \/ EditZone \/ \E p \in Piholes : SessionLapses(p)

\* The loop runs for ever (--every, restart: unless-stopped), each call
\* answers or times out, and an idle session expires on the Pi-hole.
Fairness ==
    /\ WF_vars(ReadZones) /\ WF_vars(ReadRecords) /\ WF_vars(ReadLists)
    /\ WF_vars(LoginRefused) /\ WF_vars(Change) /\ WF_vars(ReadBack)
    /\ WF_vars(Close)
    /\ \A p \in Piholes : WF_vars(SessionLapses(p))

Spec == Init /\ [][Next]_vars
FairSpec == Spec /\ Fairness

-----------------------------------------------------------------------------
TypeOK ==
    /\ zones \subseteq Zones /\ records \subseteq Records
    /\ lines \in [Piholes -> SUBSET Line]
    /\ sessions \in [Piholes -> 0..MaxSessions]
    /\ pc \in {"zones", "records", "login", "change", "close"}
    /\ at \in Piholes
    /\ seen \subseteq Zones /\ wanted \subseteq Answer
    /\ read \subseteq Line /\ rm \subseteq Line /\ add \subseteq Line
    /\ ok \in BOOLEAN
    /\ edits \in 0..MaxEdits /\ faults \in 0..MaxFaults

\* What a visit may take off a Pi-hole: with deletes on, a name inside a zone
\* that NetBox does not have.
MayDrop(a) == Delete /\ InZone(a.name, seen) /\ a \notin wanted

\* During a visit no name is forgotten: every name the visit read that it may
\* not drop is on a line of the Pi-hole, or is a line still to be added back,
\* however many of a split line's names are done (the removals of sync_one
\* run before its additions).
NothingForgotten ==
    pc = "change" =>
        \A a \in AnswersOf(read) :
            \/ MayDrop(a)
            \/ a \in AnswersOf(lines[at])
            \/ LineFor(a) \in add

\* When a visit ends, however it ends, the Pi-hole still answers every name
\* the visit read that it may not drop: a name outside NetBox's zones, a name
\* NetBox has, and with deletes off every name.
VisitDropsNothing ==
    [][(pc = "change" /\ pc' # "change") =>
          \A a \in AnswersOf(read) : MayDrop(a) \/ a \in AnswersOf(lines'[at])]_vars

\* A line with no name in a zone, and a one-name line NetBox has, is on the
\* Pi-hole for good: no step of the sync removes it, in any round, whatever
\* failed before.
ForeignLinesUntouched ==
    [][\A p \in Piholes : \A l \in lines[p] \ lines'[p] :
          /\ \E n \in l.names : InZone(n, seen)
          /\ l \in OneName(lines[p]) => Delete /\ ~(Answers(l) \subseteq wanted)]_vars

\* What a Pi-hole in step with NetBox looks like, stated without the plan: it
\* answers all that is wanted; with deletes on nothing else inside a zone; and
\* no line of several names has one inside a zone.
InStep(p, zs, ws) ==
    LET answered == AnswersOf(lines[p]) IN
        /\ ws \subseteq answered
        /\ \A a \in answered : InZone(a.name, zs) /\ Delete => a \in ws
        /\ \A l \in lines[p] :
              (\E n \in l.names : InZone(n, zs)) => \E n \in Names : l.names = {n}

\* A round reported clean (the one that touches the health file) left every
\* Pi-hole, not only the last one visited, with nothing to change for the
\* records the round read, however many calls failed on the way.
CleanMeansMirrored ==
    (pc = "zones" /\ ok /\ Apply) =>
        \A p \in Piholes : InStep(p, seen, wanted)

\* Sessions are given back: outside a visit the sync holds none open beyond
\* those whose logout failed or whose run was cut short, so that it cannot
\* lock itself out of a Pi-hole by its own rounds.
SessionsGivenBack ==
    \A p \in Piholes : sessions[p] <= InUse(p) + faults

\* Every Pi-hole comes to answer exactly what NetBox holds in its zones (with
\* deletes off, at least that) and stays so, once the edits and the faults
\* are over, unless NetBox holds nothing, which is refused.
EventuallyMirrored ==
    <>[](LET ws == WantedFrom(records, zones) IN
            ws = {} \/ \A p \in Piholes : InStep(p, zones, ws))

-----------------------------------------------------------------------------
(* The sync implements what it promises, visits cut short included: a      *)
(* split line's names that are off the Pi-hole for the moment and still to *)
(* be added back are owed.                                                 *)

Owed(p) ==
    IF pc = "change" /\ p = at
    THEN (AnswersOf(read) \cap AnswersOf(add)) \ AnswersOf(lines[p]) ELSE {}

Mirror == INSTANCE DnsMirror WITH
    answers <- [p \in Piholes |-> AnswersOf(lines[p])],
    owed <- [p \in Piholes |-> Owed(p)],
    source <- wanted,
    scope <- {n \in Names : InZone(n, seen)}

\* Each step of the sync is a step DnsMirror allows: in no interleaving of
\* calls, failures and edits does a Pi-hole come to answer what neither NetBox
\* nor a split line has, or stop answering for good what is not stale, except
\* for what a visit that is cut short still owed.
ImplementsMirror == Mirror!Spec

=============================================================================
