----------------------------- MODULE DnsMirror -----------------------------
(***************************************************************************)
(* What the DNS sync promises (the docstring and the comments of           *)
(* netbox_pihole_sync.py): it owns every name inside a NetBox zone on each *)
(* Pi-hole and nothing outside them.  A Pi-hole comes to answer only what  *)
(* NetBox has, beside what it answered before, and stops answering for     *)
(* good only what is inside a zone and not NetBox's, with deletes on.  A   *)
(* name taken off to be put back on a line of its own is owed meanwhile,   *)
(* and only a visit cut short forgets what it owes.                        *)
(***************************************************************************)
CONSTANTS Piholes, Answer, Names, Delete

VARIABLES
    answers,  \* what each Pi-hole answers
    owed,     \* what it answered and is to answer again
    source,   \* what NetBox had when it was last read
    scope     \* the names inside NetBox's zones then

Stale(a) == Delete /\ a.name \in scope /\ a \notin source

Init ==
    /\ answers \in [Piholes -> SUBSET Answer]
    /\ owed = [p \in Piholes |-> {}]
    /\ source = {} /\ scope = {}

\* NetBox is read between visits, when nothing is owed.
Take ==
    /\ owed = [p \in Piholes |-> {}]
    /\ source' \subseteq Answer /\ scope' \subseteq Names
    /\ UNCHANGED <<answers, owed>>

Others(p) ==
    \A q \in Piholes \ {p} : answers'[q] = answers[q] /\ owed'[q] = owed[q]

Mirror(p) ==
    /\ Others(p)
    /\ answers'[p] \ answers[p] \subseteq source \cup owed[p]
    /\ owed'[p] \subseteq (answers[p] \cup owed[p]) \ answers'[p]
    /\ \A a \in (answers[p] \cup owed[p]) \ (answers'[p] \cup owed'[p]) : Stale(a)
    /\ UNCHANGED <<source, scope>>

CutShort(p) ==
    /\ Others(p)
    /\ owed'[p] = {}
    /\ UNCHANGED <<answers, source, scope>>

Next == Take \/ \E p \in Piholes : Mirror(p) \/ CutShort(p)

Spec == Init /\ [][Next]_<<answers, owed, source, scope>>
=============================================================================
