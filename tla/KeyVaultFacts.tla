--------------------------- MODULE KeyVaultFacts ---------------------------
(***************************************************************************)
(* keyvault_facts.py --write, every night: the values NetBox gives written *)
(* into Key Vault.  A run lists the secrets' tags once, reads the          *)
(* fingerprint key and NetBox, and goes through the mapped names; a value  *)
(* is read only where the fingerprint listed is not that of the value      *)
(* NetBox gives.  The runs that write nothing (check, --find, --full) are  *)
(* left out; of an order of the names only "templates last" is kept.       *)
(***************************************************************************)
EXTENDS KeyVault

CONSTANTS
    Facts,     \* the names keyvault_facts.yaml may map
    Way,       \* how each is made: "take", "collect", "template", "view"
    Refs,      \* the names its template or view reads
    Objects    \* NetBox's objects

\* An object's text, whether its status lets a job use it, and its claims.
NetBoxObject == [text : Texts, usable : BOOLEAN, claims : SUBSET Facts]

ASSUME FactsAssumption ==
    /\ Facts \subseteq Names /\ Missing \notin Facts /\ Missing \notin [Objects -> NetBoxObject]
    /\ Way \in [Facts -> {"take", "collect", "template", "view"}]
    /\ Refs \in [Facts -> SUBSET Names]
    /\ \A n \in Facts : Way[n] = "template" => \A r \in Refs[n] \cap Facts : Way[r] # "template"
    /\ \A s \in Starts : s.netbox \in [Objects -> NetBoxObject] /\ s.mapped \subseteq Facts

VARIABLES
    netbox,  \* [Objects -> NetBoxObject]
    mapped,  \* the names of the map in this behaviour, to bound the states
    facts,   \* the run, a FactsState
    report   \* the names the last run's "changed:" line gives

factsVars == <<netbox, mapped, facts, report>>

\* The names left to do, and the one at hand; fresh says that the version
\* read of it is still its current one.
FactsState ==
    [at : {"idle", "key", "netbox", "make", "read", "tag", "set", "check"},
     tags : [Names -> Mark \cup {NoTag}], key : Keys \cup {NoKey}, seen : [Objects -> NetBoxObject] \cup {Missing},
     todo : SUBSET Facts, made : [Facts -> Value \cup {Missing}], cache : [Names -> Value \cup {Missing}],
     name : Facts \cup {Missing}, fresh : BOOLEAN, changed : SUBSET Facts]

FactsResting ==
    [at |-> "idle", tags |-> [n \in Names |-> NoTag], key |-> NoKey, seen |-> Missing,
     todo |-> {}, made |-> [n \in Facts |-> Missing], cache |-> [n \in Names |-> Missing],
     name |-> Missing, fresh |-> FALSE, changed |-> {}]

FactsInit ==
    /\ \E s \in Starts : s.jobs = jobs /\ s.vault = vault
                         /\ netbox = s.netbox /\ mapped = s.mapped
    /\ facts = FactsResting
    /\ report = {}

-----------------------------------------------------------------------------
(* How a value is made (make): Missing when it is left alone or failed.    *)

Claiming(n, objects) == {o \in Objects : n \in objects[o].claims}
Usable(n, objects) == {o \in Claiming(n, objects) : objects[o].usable}
TextsOf(n, objects) == {objects[o].text : o \in Usable(n, objects)}

\* values[r] is what a template or a view reads under the name r.
Made(n, objects, values) ==
    LET read == UNION {values[r].parts : r \in Refs[n]} IN
    IF \/ Way[n] = "take" /\ Cardinality(Claiming(n, objects)) # 1
       \/ Way[n] # "template" /\ Usable(n, objects) = {}
       \/ Way[n] \in {"template", "view"} /\ \E r \in Refs[n] : values[r] = Missing
    THEN Missing
    ELSE Plain(CASE Way[n] = "template" -> read
                 [] Way[n] = "view" -> TextsOf(n, objects) \cup read
                 [] OTHER -> TextsOf(n, objects))

\* A mapped name gives a template the value made for it; any other name, and
\* all of a view's, is Key Vault's, read once in a run.
ReadBy(n) ==
    [r \in Refs[n] |-> IF Way[n] = "template" /\ r \in mapped THEN facts.made[r]
                       ELSE IF facts.cache[r] # Missing THEN facts.cache[r] ELSE Read(r)]

\* The names it reads in Key Vault.
Asked(n) == {r \in Refs[n] : Way[n] = "template" => r \notin mapped}

MarkOf(v) == IF facts.key = NoKey THEN NoTag ELSE [key |-> facts.key, of |-> v]

-----------------------------------------------------------------------------
(* The run.                                                                *)

FactsLists ==
    /\ facts.at = "idle"
    /\ facts' = [FactsResting EXCEPT !.at = "key",
                    !.tags = [n \in Names |-> IF Held(n) THEN vault[n].tag ELSE NoTag]]
    /\ UNCHANGED <<keyvaultVars, netbox, mapped, report>>

\* Without the key every value is read.
FactsReadsKey ==
    /\ facts.at = "key"
    /\ facts' = [facts EXCEPT !.at = "netbox", !.key = fkey]
    /\ UNCHANGED <<keyvaultVars, netbox, mapped, report>>

FactsReadsNetBox ==
    /\ facts.at = "netbox"
    /\ facts' = [facts EXCEPT !.at = "make", !.seen = netbox, !.todo = mapped]
    /\ UNCHANGED <<keyvaultVars, netbox, mapped, report>>

ByFingerprint_AnyMark(n, v) == facts.key # NoKey /\ facts.tags[n] # NoTag
ByFingerprint(n, v) == facts.key # NoKey /\ facts.tags[n] = MarkOf(v)

\* Templates last.
Turn(n) ==
    /\ facts.at = "make" /\ n \in facts.todo
    /\ Way[n] = "template" => \A m \in facts.todo : Way[m] = "template"

\* The next name made, and left if it can't be or agrees by its fingerprint.
FactsMakes(n) ==
    /\ Turn(n)
    /\ LET v == Made(n, facts.seen, ReadBy(n))
           done == v = Missing \/ ByFingerprint(n, v)
       IN  facts' = [facts EXCEPT !.todo = @ \ {n}, !.made[n] = v,
                        !.cache = [m \in Names |-> IF m \in Asked(n) THEN ReadBy(n)[m] ELSE @[m]],
                        !.at = IF done THEN "make" ELSE "read", !.name = n]
    /\ UNCHANGED <<keyvaultVars, netbox, mapped, report>>

\* A disabled secret can't be read: the name is left, and the run fails.  An
\* agreeing value whose fingerprint is missing is tagged, a differing one set.
FactsReads ==
    /\ facts.at = "read"
    /\ LET n == facts.name
           v == facts.made[n]
           agrees == Held(n) /\ Same(n, v, vault[n].val)
       IN  facts' = [facts EXCEPT !.fresh = TRUE, !.cache[n] = IF Held(n) THEN vault[n].val ELSE @,
                        !.at = CASE vault[n].state = "disabled" -> "make"
                                 [] agrees -> IF facts.key # NoKey /\ vault[n].tag # MarkOf(v) THEN "tag" ELSE "make"
                                 [] OTHER -> "set"]
    /\ UNCHANGED <<keyvaultVars, netbox, mapped, report>>

\* A PATCH of the tags of the version read, which may be an old one by now.
FactsTags ==
    /\ facts.at = "tag"
    /\ LET n == facts.name IN
          vault' = IF facts.fresh /\ vault[n].state # "deleted"
                   THEN [vault EXCEPT ![n].tag = MarkOf(facts.made[n])] ELSE vault
    /\ facts' = [facts EXCEPT !.at = "make"]
    /\ UNCHANGED <<fkey, saved, outside, netbox, mapped, report>>

FactsSets_KeepsTag ==
    /\ facts.at = "set"
    /\ LET n == facts.name
           v == facts.made[n]
       IN  vault' = Put(n, v, IF facts.key = NoKey THEN vault[n].tag ELSE MarkOf(v))
    /\ facts' = [facts EXCEPT !.at = "check"]
    /\ UNCHANGED <<fkey, saved, outside, netbox, mapped, report>>

\* A new version, with its fingerprint, or with none when there is no key.
FactsSets ==
    /\ facts.at = "set"
    /\ LET v == facts.made[facts.name] IN vault' = Put(facts.name, v, MarkOf(v))
    /\ facts' = [facts EXCEPT !.at = "check"]
    /\ UNCHANGED <<fkey, saved, outside, netbox, mapped, report>>

\* The read-back decides what the run reports as changed.  The writer has a
\* cache of its own: a later view is given what the reader read before.
FactsChecks ==
    /\ facts.at = "check"
    /\ LET n == facts.name
           v == facts.made[n]
           took == Read(n) = v /\ (facts.key = NoKey \/ vault[n].tag = MarkOf(v))
       IN  facts' = [facts EXCEPT !.at = "make", !.changed = IF took THEN @ \cup {n} ELSE @]
    /\ UNCHANGED <<keyvaultVars, netbox, mapped, report>>

FactsEnds ==
    /\ facts.at = "make" /\ facts.todo = {}
    /\ facts' = FactsResting
    /\ report' = facts.changed
    /\ UNCHANGED <<keyvaultVars, netbox, mapped>>

\* A read that fails, or a write Key Vault refuses, leaves the name at hand,
\* and the run goes on to the next.
FactsLeaves ==
    /\ Event
    /\ \/ /\ facts.at \in {"read", "tag", "set", "check"}
          /\ facts' = [facts EXCEPT !.at = "make"]
       \/ \E n \in Facts :
            /\ Turn(n) /\ \E r \in Asked(n) : facts.cache[r] = Missing
            /\ facts' = [facts EXCEPT !.todo = @ \ {n}, !.made[n] = Missing, !.name = n]
    /\ UNCHANGED <<vault, fkey, saved, netbox, mapped, report>>

\* A call of the writer without an answer ends the run, and what it set so
\* far is not reported; a PUT may have been carried out all the same.
FactsStops ==
    /\ facts.at # "idle" /\ Event
    /\ \/ UNCHANGED vault
       \/ facts.at = "set" /\ LET v == facts.made[facts.name] IN vault' = Put(facts.name, v, MarkOf(v))
    /\ facts' = FactsResting /\ report' = {}
    /\ UNCHANGED <<fkey, saved, netbox, mapped>>

FactsRun ==
    \/ FactsReadsKey \/ FactsReadsNetBox \/ FactsReads \/ FactsTags \/ FactsSets \/ FactsChecks \/ FactsEnds
    \/ \E n \in Facts : FactsMakes(n)

\* What NetBox's owner and its own jobs change of an object.
NetBoxChanges(o) ==
    /\ Event
    /\ \E new \in NetBoxObject : /\ new # netbox[o]
                                 /\ Cardinality({f \in DOMAIN new : new[f] # netbox[o][f]}) = 1
                                 /\ new.claims \subseteq {n \in mapped : Way[n] # "template"}
                                 /\ netbox' = [netbox EXCEPT ![o] = new]
    /\ UNCHANGED <<vault, fkey, saved, mapped, facts, report>>

\* What the run makes of a change of the vault it did not make: the version
\* it read may be no longer the current one.
FactsMissed ==
    facts' = IF /\ facts.fresh
                /\ \/ vault'[facts.name].val # vault[facts.name].val
                   \/ vault'[facts.name].tag # vault[facts.name].tag
             THEN [facts EXCEPT !.fresh = FALSE] ELSE facts

-----------------------------------------------------------------------------
(* Properties.                                                             *)

FactsTypeOK ==
    /\ netbox \in [Objects -> NetBoxObject]
    /\ mapped \subseteq Facts /\ report \subseteq Facts
    /\ facts \in FactsState
    /\ facts.at \notin {"idle", "key", "netbox"} => facts.seen # Missing
    /\ facts.at \in {"read", "tag", "set", "check"} => facts.name # Missing /\ facts.made[facts.name] # Missing

\* What NetBox gives for each mapped name now.
Given ==
    LET direct == [n \in Facts |-> IF n \notin mapped \/ Way[n] = "template" THEN Missing
                                   ELSE Made(n, netbox, [r \in Refs[n] |-> Read(r)])]
    IN  [n \in Facts |-> IF n \in mapped /\ Way[n] = "template"
                         THEN Made(n, netbox, [r \in Refs[n] |-> IF r \in mapped THEN direct[r] ELSE Read(r)])
                         ELSE direct[n]]

\* A name NetBox can't give, or whose secret is disabled or deleted, is left.
FactFollows(n) ==
    \/ n \notin mapped \/ Given[n] = Missing
    \/ vault[n].state \in {"disabled", "deleted"}
    \/ Held(n) /\ Same(n, Given[n], vault[n].val)
=============================================================================
