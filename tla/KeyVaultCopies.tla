--------------------------- MODULE KeyVaultCopies ---------------------------
(***************************************************************************)
(* keyvault_copy.py --apply, from the Secret the cluster-secrets External- *)
(* Secret keeps into Key Vault, and dockhand_keyvault_copy.py --apply,     *)
(* from Dockhand's export; both run by the owner.  With them the           *)
(* ExternalSecret (external), and the owner's rewriting of a value held as *)
(* base64 to plain, which its template then encodes                        *)
(* (old-queues/QUEUE-secret-names.md:74-140).                              *)
(***************************************************************************)
EXTENDS KeyVault

CONSTANTS
    Mapped,      \* the secrets the ExternalSecret maps
    Exported,    \* the secrets Dockhand's export fills
    Export,      \* Export[n]: the value it gives
    Built        \* the built forms: [names, value]

ASSUME CopiesAssumption ==
    /\ Mapped \subseteq Names \ Data /\ Exported \subseteq Names
    /\ Export \in [Exported -> Value]
    /\ \A b \in Built : b.names \subseteq Names /\ b.value \in Value
    /\ \A s \in Starts : s.encodes \subseteq Mapped /\ s.hold \in BOOLEAN

VARIABLES
    es,      \* the ExternalSecret and its Secret, an ESState
    copy     \* the run of either script, a CopyRun

copiesVars == <<es, copy>>

Encoded(v) == [v EXCEPT !.as = IF @ = "plain" THEN "base64" ELSE "twice"]
Decodes(v) == v.as \in {"base64", "twice"}
Decoded(v) == [v EXCEPT !.as = IF @ = "twice" THEN "base64" ELSE "plain"]

Rendered(encodes) == [n \in Mapped |-> IF n \in encodes THEN Encoded(vault[n].val) ELSE vault[n].val]

\* The names its template encodes; whether the owner holds its refreshes
\* off, and one is due all the same; the names rewritten to plain.
ESState ==
    [encodes : SUBSET Mapped, hold : BOOLEAN, due : BOOLEAN, ready : BOOLEAN,
     secret : [Mapped -> Value], rewritten : SUBSET Mapped]

\* The value to write for each name, and the names still to look at and to write.
CopyRun ==
    [at : {"idle", "secret", "look", "write", "add"}, encodes : SUBSET Mapped, todo : SUBSET Mapped,
     source : [Names -> Value \cup {Missing}], write : SUBSET Names]

CopyResting ==
    [at |-> "idle", encodes |-> {}, todo |-> {}, source |-> [n \in Names |-> Missing], write |-> {}]

CopiesInit ==
    /\ \E s \in Starts : s.jobs = jobs /\ s.vault = vault
          /\ es = [encodes |-> s.encodes, hold |-> s.hold, due |-> FALSE, ready |-> TRUE,
                   secret |-> Rendered(s.encodes), rewritten |-> {}]
    /\ copy = CopyResting

-----------------------------------------------------------------------------
(* The ExternalSecret, and the rewriting to plain.                         *)

\* Every 15 minutes, or under refreshPolicy: OnChange after a change only.
\* A mapped name that can't be read keeps the Secret as it is.
ESRefresh ==
    /\ es.due \/ ~es.hold
    /\ LET all == \A n \in Mapped : Held(n) IN
          es' = [es EXCEPT !.due = FALSE, !.ready = all, !.secret = IF all THEN Rendered(es.encodes) ELSE @]
    /\ es' # es
    /\ UNCHANGED <<keyvaultVars, copy>>

\* During the hold, and only a value the Secret holds too: no sync.
OwnerRewrites(n) ==
    /\ Event /\ es.hold /\ ~es.due /\ copy.at = "idle"
    /\ n \in Mapped \ (es.encodes \cup es.rewritten)
    /\ Held(n) /\ vault[n].val = es.secret[n] /\ vault[n].val.as = "base64"
    /\ vault' = Put(n, Decoded(vault[n].val), NoTag)
    /\ es' = [es EXCEPT !.rewritten = @ \cup {n}]
    /\ UNCHANGED <<fkey, saved, copy>>

\* The pull request with {{ .NAME | b64enc }}, merged once the value is seen plain.
TemplateGoesLive(n) ==
    /\ Event /\ n \in es.rewritten \ es.encodes /\ vault[n].val.as = "plain"
    /\ es' = [es EXCEPT !.encodes = @ \cup {n}, !.due = TRUE]
    /\ UNCHANGED <<vault, fkey, saved, copy>>

\* The owner gives a name that was rewritten a plain value only, leaves it
\* alone until its template is live, and while a copy of his is running.  A
\* set through the tool syncs.
OwnerIsCareful ==
    \A n \in es.rewritten :
        \/ vault'[n] = vault[n]
        \/ copy.at = "idle" /\ n \in es.encodes /\ vault'[n].val.as = "plain"

CopiesNotices == es' = [es EXCEPT !.due = @ \/ \E n \in Mapped : vault'[n] # vault[n]] /\ UNCHANGED copy

-----------------------------------------------------------------------------
(* keyvault_copy.py.  No answer to a call, or a state it can't act on,     *)
(* before the first write ends it with nothing written.                    *)

CopyReadsTemplate ==
    /\ copy.at = "idle" /\ Event /\ es.ready
    /\ copy' = [CopyResting EXCEPT !.at = "secret", !.encodes = es.encodes]
    /\ UNCHANGED <<vault, fkey, saved, es>>

CopyReadsSecret ==
    /\ copy.at = "secret"
    /\ LET bad == \E n \in copy.encodes : ~Decodes(es.secret[n]) IN
          copy' = IF bad THEN CopyResting
                  ELSE [copy EXCEPT !.at = "look", !.todo = Mapped,
                           !.source = [n \in Names |->
                              IF n \notin Mapped THEN Missing
                              ELSE IF n \in copy.encodes THEN Decoded(es.secret[n]) ELSE es.secret[n]]]
    /\ UNCHANGED <<keyvaultVars, es>>

\* What Key Vault holds of a name against its source (add and update are
\* "write").
CopyState_NoPlain(n) == IF Held(n) /\ vault[n].val = copy.source[n] THEN "same" ELSE "write"

\* Held plain ahead of its template: writing the Secret's base64 back would
\* have the template encode it twice.
CopyState(n) ==
    IF Held(n) /\ vault[n].val = copy.source[n] THEN "same"
    ELSE IF Held(n) /\ n \notin copy.encodes /\ Decodes(copy.source[n]) /\ vault[n].val = Decoded(copy.source[n]) THEN "plain"
    ELSE "write"

CopyLooks(n) ==
    /\ copy.at = "look" /\ n \in copy.todo
    /\ copy' = IF vault[n].state = "disabled" THEN CopyResting
               ELSE [copy EXCEPT !.todo = @ \ {n},
                        !.write = IF CopyState(n) = "write" THEN @ \cup {n} ELSE @,
                        !.at = IF copy.todo = {n} THEN "write" ELSE "look"]
    /\ UNCHANGED <<keyvaultVars, es>>

\* The value, and the copy's own tags for all of the secret's.
CopyWrites(n) ==
    /\ copy.at \in {"write", "add"} /\ n \in copy.write
    /\ vault' = Put(n, copy.source[n], NoTag)
    /\ copy' = [copy EXCEPT !.write = @ \ {n}]
    /\ UNCHANGED <<fkey, saved, es, outside>>

\* Every name is read back, and what doesn't match is only reported.
CopyEnds ==
    /\ copy.at \in {"write", "add"} /\ copy.write = {}
    /\ copy' = CopyResting
    /\ UNCHANGED <<keyvaultVars, es>>

\* No answer to a write stops the writing, whether it was carried out or not.
CopyStops ==
    /\ Event /\ copy.at # "idle"
    /\ \/ UNCHANGED vault
       \/ copy.at \in {"write", "add"} /\ \E n \in copy.write : vault' = Put(n, copy.source[n], NoTag)
    /\ copy' = CopyResting
    /\ UNCHANGED <<fkey, saved, es>>

-----------------------------------------------------------------------------
(* dockhand_keyvault_copy.py: only names Key Vault lacks are written, and  *)
(* none when anything is in conflict.  Its reads are one after another;    *)
(* that a name changes between two of them is left out.                    *)

\* A deleted secret is not in the list, as one that never was.
DockhandConflict(n) ==
    \/ vault[n].state = "disabled"
    \/ Held(n) /\ vault[n].val # Export[n] /\ ~(Decodes(vault[n].val) /\ Decoded(vault[n].val) = Export[n])

\* A built form reads Key Vault, or this run's value for a name it lacks.
BuiltFrom(n) == IF Held(n) THEN vault[n].val ELSE IF n \in Exported THEN Export[n] ELSE Missing
BuiltWrong(b) ==
    \/ \E n \in b.names : BuiltFrom(n) = Missing
    \/ b.value # Plain(UNION {BuiltFrom(n).parts : n \in b.names})

DockhandLooks ==
    /\ copy.at = "idle" /\ Event
    /\ ~\E n \in Exported : DockhandConflict(n)
    /\ ~\E b \in Built : BuiltWrong(b)
    /\ copy' = [CopyResting EXCEPT !.at = "add", !.source = [n \in Names |-> IF n \in Exported THEN Export[n] ELSE Missing],
                   !.write = {n \in Exported : ~Held(n)}]
    /\ UNCHANGED <<vault, fkey, saved, es>>

CopiesRun ==
    \/ CopyReadsSecret \/ CopyEnds
    \/ \E n \in Names : CopyLooks(n) \/ CopyWrites(n)

-----------------------------------------------------------------------------
(* Properties.                                                             *)

CopiesTypeOK ==
    /\ es \in ESState
    /\ copy \in CopyRun
    /\ \A n \in copy.write : copy.source[n] # Missing
    /\ copy.at = "secret" => copy.write = {}
    /\ copy.at = "look" => \A n \in Mapped : copy.source[n] # Missing

\* The Secret never holds a value encoded twice: whatever copies run while
\* the owner rewrites a value to plain, none puts the base64 back for the
\* template to encode.
NeverEncodedTwice == \A n \in Mapped : es.secret[n].as # "twice"
=============================================================================
