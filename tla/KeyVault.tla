------------------------------ MODULE KeyVault ------------------------------
(***************************************************************************)
(* Azure Key Vault, as the jobs that write and read it see it, and what    *)
(* the owner does to it with keyvault-secrets.ps1 or by hand.  KeyVault-   *)
(* Facts, SemaphoreGroups and KeyVaultCopies extend this module;           *)
(* KeyVaultHub runs them side by side.                                     *)
(*                                                                         *)
(* Abstractions.  A value is the set of texts it is made of and the way    *)
(* it is written: a template's fixed text, a format or a list's separator  *)
(* changes nothing in that.  Of a secret's tags only the fingerprint is    *)
(* kept, and of its versions the current one: a call that names a version  *)
(* needs to know only whether that is still the current one.               *)
(***************************************************************************)
EXTENDS Naturals, FiniteSets

CONSTANTS
    Names,        \* the secrets
    Texts,        \* what values are made of
    Keys,         \* the keys fingerprints are made with
    NoKey, NoTag, Missing,  \* no such secret, no fingerprint, no value (model values)
    Jobs, Starts, \* the jobs; how a behaviour may begin (see below)
    OwnerValues,  \* OwnerValues[n]: the values the owner may set by hand
    MaxEvents     \* edits by the owner, changes in NetBox, calls that fail, copies run

\* How a value is written: as it is, as the same JSON data in other words,
\* as base64 of it, or as base64 of that.
Value == [parts : SUBSET Texts, as : {"plain", "reworded", "base64", "twice"}]
Plain(parts) == [parts |-> parts, as |-> "plain"]

\* A keyed hash of the value: nothing but the same key and value gives it.
Mark == [key : Keys, of : Value]

\* The current version; a deleted secret is kept, to be recovered.
Row == [state : {"absent", "held", "disabled", "deleted"},
        val : Value, tag : Mark \cup {NoTag}]
NoRow == [state |-> "absent", val |-> Plain({}), tag |-> NoTag]

\* Names whose values are JSON, compared as data.
CONSTANT Data

Same(n, a, b) ==
    \/ a = b
    \/ n \in Data /\ a.parts = b.parts /\ {a.as, b.as} \subseteq {"plain", "reworded"}

ASSUME KeyVaultAssumption ==
    /\ NoKey \notin Keys /\ NoTag \notin Mark /\ Missing \notin Value
    /\ Data \subseteq Names
    /\ OwnerValues \in [Names -> SUBSET Value]
    /\ \A s \in Starts : /\ s.vault \in [Names -> Row] /\ s.fkey \in Keys \cup {NoKey}
                         /\ s.jobs \subseteq Jobs /\ s.events \in 0..MaxEvents
                         /\ \A n \in Names : s.vault[n].tag # NoTag => Same(n, s.vault[n].tag.of, s.vault[n].val)
    /\ MaxEvents \in Nat

VARIABLES
    vault,   \* [Names -> Row]
    fkey,    \* KEYVAULT-FACTS-FINGERPRINT-KEY's value
    saved,   \* the owner's last export of every secret
    jobs,    \* the jobs of this behaviour, to bound the states
    events   \* how many of MaxEvents have happened

outside == <<jobs, events>>
keyvaultVars == <<vault, fkey, saved, outside>>

KeyVaultInit ==
    /\ \E s \in Starts : vault = s.vault /\ fkey = s.fkey /\ jobs = s.jobs /\ events = s.events
    /\ saved = vault

Event == events < MaxEvents /\ events' = events + 1 /\ UNCHANGED jobs

Held(n) == vault[n].state = "held"
Read(n) == IF Held(n) THEN vault[n].val ELSE Missing

\* A PUT of a value and tags makes a new version, enabled; one of a deleted
\* secret is refused (409).
Put(n, v, tag) ==
    IF vault[n].state = "deleted" THEN vault
    ELSE [vault EXCEPT ![n] = [state |-> "held", val |-> v, tag |-> tag]]

-----------------------------------------------------------------------------
(* What the owner does to the vault.                                       *)

\* A new version set by hand carries no fingerprint.
OwnerSets(n) ==
    /\ \E v \in OwnerValues[n] : v # Read(n) /\ vault' = Put(n, v, NoTag)
    /\ UNCHANGED <<fkey, saved>>

\* An import writes the values and the tags of the export.
OwnerRestores(n) ==
    /\ saved[n].state = "held" /\ saved[n] # vault[n]
    /\ vault' = Put(n, saved[n].val, saved[n].tag)
    /\ UNCHANGED <<fkey, saved>>

OwnerDeletes(n) ==
    /\ Held(n) /\ vault' = [vault EXCEPT ![n].state = "deleted"]
    /\ UNCHANGED <<fkey, saved>>

OwnerRecovers(n) ==
    /\ vault[n].state \in {"deleted", "disabled"} /\ vault' = [vault EXCEPT ![n].state = "held"]
    /\ UNCHANGED <<fkey, saved>>

OwnerDisables(n) ==
    /\ Held(n) /\ vault' = [vault EXCEPT ![n].state = "disabled"]
    /\ UNCHANGED <<fkey, saved>>

OwnerExports == saved' = vault /\ saved' # saved /\ UNCHANGED <<vault, fkey>>

OwnerChangesKey ==
    /\ \E k \in (Keys \cup {NoKey}) \ {fkey} : fkey' = k
    /\ UNCHANGED <<vault, saved>>

OwnerEdits ==
    /\ Event
    /\ \/ \E n \in Names : OwnerSets(n) \/ OwnerRestores(n) \/ OwnerDeletes(n) \/ OwnerRecovers(n) \/ OwnerDisables(n)
       \/ OwnerExports
       \/ "facts" \in jobs /\ OwnerChangesKey

-----------------------------------------------------------------------------
(* Properties.                                                             *)

KeyVaultTypeOK ==
    /\ vault \in [Names -> Row] /\ saved \in [Names -> Row]
    /\ fkey \in Keys \cup {NoKey}
    /\ jobs \subseteq Jobs /\ events \in 0..MaxEvents

TrueIn(rows) == \A n \in Names : rows[n].tag # NoTag => Same(n, rows[n].tag.of, rows[n].val)

\* The fingerprint on a secret's current version is one of the value it
\* holds (for JSON, of the same data): a run that finds the fingerprint it
\* looks for may leave the value unread.
FingerprintTrue == TrueIn(vault)
=============================================================================
