--------------------------- MODULE KeyVaultProofs ---------------------------
(***************************************************************************)
(* Proofs about KeyVaultHub: its state is well typed, and the fingerprint  *)
(* on a secret's current version is always one of the value it holds,      *)
(* whatever the jobs, the secrets, the groups and the owner's edits are.   *)
(***************************************************************************)
EXTENDS KeyVaultHub, TLAPS

-----------------------------------------------------------------------------
(* A version written.                                                      *)

\* Writing a value and a tag keeps the vault typed.
LEMMA PutTyped ==
    ASSUME vault \in [Names -> Row], NEW n \in Names, NEW v \in Value, NEW t \in Mark \cup {NoTag}
    PROVE  Put(n, v, t) \in [Names -> Row]
<1> DEFINE new == [state |-> "held", val |-> v, tag |-> t]
<1>1. new \in Row
  BY DEF Row
<1> HIDE DEF new
<1>2. [vault EXCEPT ![n] = new] \in [Names -> Row]
  BY <1>1
<1> QED
  BY <1>2 DEF Put, new

\* Writing a value with no fingerprint, or with one of that value, keeps
\* every fingerprint true.
LEMMA PutTrue ==
    ASSUME vault \in [Names -> Row], TrueIn(vault), NEW n \in Names, NEW v, NEW t,
           t # NoTag => Same(n, t.of, v)
    PROVE  TrueIn(Put(n, v, t))
<1> DEFINE new == [state |-> "held", val |-> v, tag |-> t]
<1>1. new.tag = t /\ new.val = v
  OBVIOUS
<1> HIDE DEF new
<1>2. ASSUME NEW m \in Names PROVE [vault EXCEPT ![n] = new][m] = IF m = n THEN new ELSE vault[m]
  OBVIOUS
<1>3. TrueIn([vault EXCEPT ![n] = new])
  <2> SUFFICES ASSUME NEW m \in Names, [vault EXCEPT ![n] = new][m].tag # NoTag
               PROVE  Same(m, [vault EXCEPT ![n] = new][m].tag.of, [vault EXCEPT ![n] = new][m].val)
    BY DEF TrueIn
  <2>1. CASE m = n
    BY <2>1, <1>1, <1>2
  <2>2. CASE m # n
    BY <2>2, <1>2 DEF TrueIn
  <2> QED
    BY <2>1, <2>2
<1> QED
  BY <1>3 DEF Put, new

\* Changing a row's state alone keeps the vault typed and its fingerprints true.
LEMMA StateChange ==
    ASSUME vault \in [Names -> Row], TrueIn(vault), NEW n \in Names,
           NEW s \in {"absent", "held", "disabled", "deleted"}
    PROVE  /\ [vault EXCEPT ![n].state = s] \in [Names -> Row]
           /\ TrueIn([vault EXCEPT ![n].state = s])
           /\ \A m \in Names : [vault EXCEPT ![n].state = s][m].val = vault[m].val
<1> DEFINE new == [vault[n] EXCEPT !.state = s]
<1>1. vault[n] \in Row
  OBVIOUS
<1>2. new \in Row /\ new.val = vault[n].val /\ new.tag = vault[n].tag
  BY <1>1 DEF Row
<1>3. [vault EXCEPT ![n].state = s] = [vault EXCEPT ![n] = new]
  OBVIOUS
<1> HIDE DEF new
<1>4. [vault EXCEPT ![n] = new] \in [Names -> Row]
  BY <1>2
<1>5. \A m \in Names : [vault EXCEPT ![n] = new][m].val = vault[m].val /\ [vault EXCEPT ![n] = new][m].tag = vault[m].tag
  BY <1>2
<1>6. TrueIn([vault EXCEPT ![n] = new])
  BY <1>5 DEF TrueIn
<1> QED
  BY <1>3, <1>4, <1>5, <1>6

-----------------------------------------------------------------------------
(* The inductive invariant: beside the types and the vault's fingerprints, *)
(* those of the owner's export, which an import puts back, and what a run  *)
(* about to tag a version knows of it.                                     *)

Agreeing ==
    facts.at = "tag" =>
        /\ facts.key # NoKey
        /\ facts.fresh => Same(facts.name, facts.made[facts.name], vault[facts.name].val)

IInv == KeyVaultTypeOK /\ FactsTypeOK /\ TrueIn(vault) /\ TrueIn(saved) /\ Agreeing

\* What facts is made for can be written.
LEMMA AtHand ==
    ASSUME FactsTypeOK, facts.at \in {"read", "tag", "set", "check"}
    PROVE  /\ facts.name \in Facts /\ facts.name \in Names
           /\ facts.made[facts.name] \in Value
           /\ MarkOf(facts.made[facts.name]) \in Mark \cup {NoTag}
           /\ MarkOf(facts.made[facts.name]) # NoTag => MarkOf(facts.made[facts.name]).of = facts.made[facts.name]
<1>1. facts.name \in Facts
  BY DEF FactsTypeOK, FactsState
<1>2. facts.name \in Names
  BY <1>1, FactsAssumption
<1>3. facts.made[facts.name] \in Value
  BY <1>1 DEF FactsTypeOK, FactsState
<1>4. facts.key \in Keys \cup {NoKey}
  BY DEF FactsTypeOK, FactsState
<1>5. ASSUME NEW v \in Value PROVE MarkOf(v) \in Mark \cup {NoTag} /\ (MarkOf(v) # NoTag => MarkOf(v).of = v)
  BY <1>4 DEF MarkOf, Mark
<1> QED
  BY <1>1, <1>2, <1>3, <1>5

-----------------------------------------------------------------------------
(* How a value is made.                                                    *)

\* Made from NetBox's objects and typed values, a value is typed.
LEMMA MadeTyped ==
    ASSUME NEW n \in Facts, NEW objects \in [Objects -> NetBoxObject],
           NEW values \in [Refs[n] -> Value \cup {Missing}]
    PROVE  Made(n, objects, values) \in Value \cup {Missing}
<1> DEFINE read == UNION {values[r].parts : r \in Refs[n]}
<1>1. ASSUME NEW parts \in SUBSET Texts PROVE Plain(parts) \in Value
  BY DEF Plain, Value
<1>2. TextsOf(n, objects) \in SUBSET Texts
  BY DEF TextsOf, Usable, Claiming, NetBoxObject
<1>3. Way[n] \in {"take", "collect", "template", "view"}
  BY FactsAssumption
<1>4. CASE \E r \in Refs[n] : values[r] = Missing
  <2>1. CASE Way[n] \in {"template", "view"}
    BY <1>4, <2>1 DEF Made
  <2>2. CASE Way[n] \notin {"template", "view"}
    <3>1. Made(n, objects, values) \in {Missing, Plain(TextsOf(n, objects))}
      BY <2>2, <1>3 DEF Made
    <3> QED
      BY <3>1, <1>1, <1>2
  <2> QED
    BY <2>1, <2>2
<1>5. CASE \A r \in Refs[n] : values[r] # Missing
  <2>1. \A r \in Refs[n] : values[r] \in Value
    BY <1>5
  <2>2. read \in SUBSET Texts
    BY <2>1 DEF Value
  <2> HIDE DEF read
  <2>3. Made(n, objects, values) \in
           {Missing, Plain(read), Plain(TextsOf(n, objects) \cup read), Plain(TextsOf(n, objects))}
    BY <1>3 DEF Made, read
  <2> QED
    BY <2>2, <2>3, <1>1, <1>2
<1> QED
  BY <1>4, <1>5

\* What a template or a view is given is typed.
LEMMA ReadByTyped ==
    ASSUME KeyVaultTypeOK, FactsTypeOK, NEW n \in Facts
    PROVE  ReadBy(n) \in [Refs[n] -> Value \cup {Missing}]
<1>1. \A r \in Refs[n] : r \in Names
  BY FactsAssumption
<1>2. \A r \in Names : Read(r) \in Value \cup {Missing} /\ facts.cache[r] \in Value \cup {Missing}
  BY DEF KeyVaultTypeOK, FactsTypeOK, FactsState, Read, Row
<1>3. \A r \in mapped : facts.made[r] \in Value \cup {Missing}
  BY DEF FactsTypeOK, FactsState
<1> QED
  BY <1>1, <1>2, <1>3 DEF ReadBy

-----------------------------------------------------------------------------
(* The facts run.                                                          *)

LEMMA FactsInitially == KeyVaultInit /\ FactsInit => IInv
<1> SUFFICES ASSUME KeyVaultInit, FactsInit PROVE IInv
  OBVIOUS
<1>1. KeyVaultTypeOK /\ TrueIn(vault)
  BY KeyVaultAssumption DEF KeyVaultInit, KeyVaultTypeOK, TrueIn
<1>2. TrueIn(saved) /\ saved \in [Names -> Row]
  BY <1>1 DEF KeyVaultInit, KeyVaultTypeOK
<1>3. FactsResting \in FactsState /\ FactsResting.at = "idle"
  BY DEF FactsResting, FactsState
<1>4. facts = FactsResting /\ netbox \in [Objects -> NetBoxObject] /\ mapped \subseteq Facts /\ report = {}
  BY FactsAssumption DEF FactsInit
<1> QED
  BY <1>1, <1>2, <1>3, <1>4 DEF IInv, FactsTypeOK, Agreeing

LEMMA FactsPreserve ==
    ASSUME IInv, FactsLists \/ FactsRun \/ FactsLeaves \/ FactsStops
    PROVE  IInv'
<1> USE DEF IInv
<1>t. facts \in FactsState /\ vault \in [Names -> Row] /\ saved \in [Names -> Row] /\ fkey \in Keys \cup {NoKey}
  BY DEF FactsTypeOK, KeyVaultTypeOK
<1>1. CASE FactsLists
  <2>1. [n \in Names |-> IF Held(n) THEN vault[n].tag ELSE NoTag] \in [Names -> Mark \cup {NoTag}]
    BY <1>t DEF Row
  <2>2. facts' \in FactsState /\ facts'.at = "key"
    BY <1>1, <2>1 DEF FactsLists, FactsResting, FactsState
  <2> QED
    BY <1>1, <2>2 DEF FactsLists, keyvaultVars, outside, KeyVaultTypeOK, FactsTypeOK, TrueIn, Agreeing
<1>2. CASE FactsReadsKey
  <2>1. facts' \in FactsState /\ facts'.at = "netbox"
    BY <1>2, <1>t DEF FactsReadsKey, FactsState
  <2> QED
    BY <1>2, <2>1 DEF FactsReadsKey, keyvaultVars, outside, KeyVaultTypeOK, FactsTypeOK, TrueIn, Agreeing
<1>3. CASE FactsReadsNetBox
  <2>1. netbox \in [Objects -> NetBoxObject] /\ mapped \subseteq Facts /\ netbox # Missing
    BY FactsAssumption DEF FactsTypeOK
  <2>2. facts' \in FactsState /\ facts'.at = "make" /\ facts'.seen = netbox
    BY <1>3, <1>t, <2>1 DEF FactsReadsNetBox, FactsState
  <2> QED
    BY <1>3, <2>1, <2>2 DEF FactsReadsNetBox, keyvaultVars, outside, KeyVaultTypeOK, FactsTypeOK, TrueIn, Agreeing
<1>4. ASSUME NEW n \in Facts, FactsMakes(n) PROVE IInv'
  <2> DEFINE v == Made(n, facts.seen, ReadBy(n))
             cache == [m \in Names |-> IF m \in Asked(n) THEN ReadBy(n)[m] ELSE facts.cache[m]]
             done == v = Missing \/ ByFingerprint(n, v)
  <2>1. facts.at = "make" /\ facts.seen \in [Objects -> NetBoxObject]
    BY <1>4, <1>t DEF FactsMakes, Turn, FactsTypeOK, FactsState
  <2>2. ReadBy(n) \in [Refs[n] -> Value \cup {Missing}]
    BY ReadByTyped
  <2>3. v \in Value \cup {Missing}
    BY <2>1, <2>2, MadeTyped
  <2>4. cache \in [Names -> Value \cup {Missing}]
    BY <1>t, <2>2 DEF FactsState, Asked
  <2>5. facts' = [facts EXCEPT !.todo = @ \ {n}, !.made[n] = v, !.cache = cache,
                     !.at = IF done THEN "make" ELSE "read", !.name = n]
    BY <1>4 DEF FactsMakes
  <2> HIDE DEF v, cache
  <2>6. [facts.made EXCEPT ![n] = v] \in [Facts -> Value \cup {Missing}] /\ [facts.made EXCEPT ![n] = v][n] = v
    BY <1>t, <2>3 DEF FactsState
  <2>7. /\ facts' \in FactsState /\ facts'.at \in {"make", "read"} /\ facts'.seen = facts.seen
        /\ facts'.at = "read" => facts'.name = n /\ facts'.made[n] = v /\ v # Missing
    BY <1>t, <2>4, <2>5, <2>6 DEF FactsState
  <2>8. facts'.at = "read" => facts'.name # Missing /\ facts'.made[facts'.name] # Missing
    BY <2>7, FactsAssumption
  <2>9. facts.seen # Missing
    BY <2>1 DEF FactsTypeOK
  <2> QED
    BY <1>4, <2>7, <2>8, <2>9 DEF FactsMakes, keyvaultVars, outside, KeyVaultTypeOK, FactsTypeOK, TrueIn, Agreeing
<1>5. CASE FactsReads
  <2> DEFINE n == facts.name
             cache == [facts.cache EXCEPT ![n] = IF Held(n) THEN vault[n].val ELSE @]
             agrees == Held(n) /\ Same(n, facts.made[n], vault[n].val)
             next == CASE vault[n].state = "disabled" -> "make"
                       [] agrees -> IF facts.key # NoKey /\ vault[n].tag # MarkOf(facts.made[n]) THEN "tag" ELSE "make"
                       [] OTHER -> "set"
  <2>1. facts.at = "read"
    BY <1>5 DEF FactsReads
  <2>2. n \in Names /\ n # Missing /\ facts.made[n] # Missing /\ facts.seen # Missing
    BY <2>1, AtHand DEF FactsTypeOK
  <2>3. vault[n].val \in Value
    BY <1>t, <2>2 DEF Row
  <2>4. cache \in [Names -> Value \cup {Missing}]
    BY <1>t, <2>2, <2>3 DEF FactsState
  <2>5. next \in {"make", "tag", "set"} /\ (next = "tag" => agrees /\ facts.key # NoKey)
    OBVIOUS
  <2>6. facts' = [facts EXCEPT !.fresh = TRUE, !.cache = cache, !.at = next]
    BY <1>5, <1>t DEF FactsReads, FactsState
  <2>7. /\ vault' = vault /\ saved' = saved /\ fkey' = fkey /\ jobs' = jobs /\ events' = events
        /\ netbox' = netbox /\ mapped' = mapped /\ report' = report
    BY <1>5 DEF FactsReads, keyvaultVars, outside
  <2> HIDE DEF cache, next
  <2>8. /\ facts' \in FactsState /\ facts'.at = next /\ facts'.key = facts.key /\ facts'.name = n
        /\ facts'.made = facts.made /\ facts'.seen = facts.seen
    BY <1>t, <2>4, <2>5, <2>6 DEF FactsState
  <2> QED
    BY <2>2, <2>5, <2>7, <2>8 DEF KeyVaultTypeOK, FactsTypeOK, TrueIn, Agreeing
<1>6. CASE FactsTags
  <2> DEFINE n == facts.name
             mark == MarkOf(facts.made[n])
             new == [vault[n] EXCEPT !.tag = mark]
  <2>1. facts.at = "tag"
    BY <1>6 DEF FactsTags
  <2>2. n \in Names /\ mark \in Mark \cup {NoTag} /\ vault[n] \in Row /\ facts.seen # Missing
    BY <2>1, <1>t, AtHand DEF FactsTypeOK
  <2>3. mark # NoTag => mark.of = facts.made[n]
    BY <2>1, AtHand
  <2>4. facts.fresh => Same(n, facts.made[n], vault[n].val)
    BY <2>1 DEF Agreeing
  <2> HIDE DEF n, mark
  <2>5. new \in Row /\ new.val = vault[n].val /\ new.tag = mark
    BY <2>2 DEF Row
  <2>6. vault' \in {vault, [vault EXCEPT ![n] = new]} /\ (vault' # vault => facts.fresh)
    BY <1>6 DEF FactsTags, n, mark
  <2> HIDE DEF new
  <2>7. vault' \in [Names -> Row]
    BY <2>5, <2>6, <1>t
  <2>8. TrueIn(vault')
    <3>1. CASE vault' = vault
      BY <3>1 DEF TrueIn
    <3>2. CASE vault' # vault
      <4>1. \A m \in Names : vault'[m] = IF m = n THEN new ELSE vault[m]
        BY <3>2, <2>6, <1>t
      <4>2. Same(n, facts.made[n], new.val)
        BY <3>2, <2>4, <2>5, <2>6
      <4> QED
        BY <4>1, <4>2, <2>3, <2>5 DEF TrueIn
    <3> QED
      BY <3>1, <3>2
  <2>9. facts' \in FactsState /\ facts'.at = "make" /\ facts'.seen = facts.seen
    BY <1>6, <1>t DEF FactsTags, FactsState
  <2> QED
    BY <1>6, <2>2, <2>7, <2>8, <2>9 DEF FactsTags, outside, KeyVaultTypeOK, FactsTypeOK, TrueIn, Agreeing
<1>7. ASSUME facts.at = "set"
      PROVE  LET new == Put(facts.name, facts.made[facts.name], MarkOf(facts.made[facts.name]))
             IN  new \in [Names -> Row] /\ TrueIn(new)
  <2> DEFINE v == facts.made[facts.name]
  <2>1. /\ facts.name \in Names /\ v \in Value /\ MarkOf(v) \in Mark \cup {NoTag}
        /\ MarkOf(v) # NoTag => MarkOf(v).of = v
    BY <1>7, AtHand
  <2>2. MarkOf(v) # NoTag => Same(facts.name, MarkOf(v).of, v)
    BY <2>1 DEF Same
  <2> HIDE DEF v
  <2>3. Put(facts.name, v, MarkOf(v)) \in [Names -> Row]
    BY <1>t, <2>1, PutTyped
  <2>4. TrueIn(Put(facts.name, v, MarkOf(v)))
    BY <1>t, <2>1, <2>2, PutTrue
  <2> QED
    BY <2>3, <2>4 DEF v
<1>8. CASE FactsSets
  <2>1. vault' \in [Names -> Row] /\ TrueIn(vault')
    BY <1>7, <1>8 DEF FactsSets
  <2>2. facts.at = "set" /\ facts.name # Missing /\ facts.made[facts.name] # Missing /\ facts.seen # Missing
    BY <1>8 DEF FactsSets, FactsTypeOK
  <2>3. /\ facts' \in FactsState /\ facts'.at = "check" /\ facts'.seen = facts.seen
        /\ facts'.name = facts.name /\ facts'.made = facts.made
    BY <1>8, <1>t DEF FactsSets, FactsState
  <2> QED
    BY <1>8, <2>1, <2>2, <2>3 DEF FactsSets, outside, KeyVaultTypeOK, FactsTypeOK, TrueIn, Agreeing
<1>9. CASE FactsChecks
  <2> DEFINE n == facts.name
             took == Read(n) = facts.made[n] /\ (facts.key = NoKey \/ vault[n].tag = MarkOf(facts.made[n]))
             changed == IF took THEN facts.changed \cup {n} ELSE facts.changed
  <2>1. facts.at = "check"
    BY <1>9 DEF FactsChecks
  <2>2. n \in Names /\ n \in Facts /\ facts.seen # Missing
    BY <2>1, AtHand DEF FactsTypeOK
  <2>3. changed \in SUBSET Facts
    BY <1>t, <2>2 DEF FactsState
  <2>4. facts' = [facts EXCEPT !.at = "make", !.changed = changed]
    BY <1>9, <1>t DEF FactsChecks, FactsState
  <2> HIDE DEF changed
  <2>5. facts' \in FactsState /\ facts'.at = "make" /\ facts'.seen = facts.seen
    BY <1>t, <2>3, <2>4 DEF FactsState
  <2> QED
    BY <1>9, <2>2, <2>5 DEF FactsChecks, keyvaultVars, outside, KeyVaultTypeOK, FactsTypeOK, TrueIn, Agreeing
<1>10. FactsResting \in FactsState /\ FactsResting.at = "idle"
  BY DEF FactsResting, FactsState
<1>11. CASE FactsEnds
  <2>1. report' \subseteq Facts
    BY <1>11, <1>t DEF FactsEnds, FactsState
  <2> QED
    BY <1>10, <1>11, <2>1 DEF FactsEnds, keyvaultVars, outside, KeyVaultTypeOK, FactsTypeOK, TrueIn, Agreeing
<1>12. CASE FactsStops
  <2>1. vault' \in [Names -> Row] /\ TrueIn(vault')
    BY <1>7, <1>12, <1>t DEF FactsStops, TrueIn
  <2>2. jobs' = jobs /\ events' \in 0..MaxEvents
    BY <1>12, KeyVaultAssumption DEF FactsStops, Event, KeyVaultTypeOK
  <2> QED
    BY <1>10, <1>12, <2>1, <2>2 DEF FactsStops, KeyVaultTypeOK, FactsTypeOK, TrueIn, Agreeing
<1>13. CASE FactsLeaves
  <2>1. UNCHANGED <<vault, fkey, saved, netbox, mapped, report>> /\ Event
    BY <1>13 DEF FactsLeaves
  <2>2. facts'.seen = facts.seen /\ facts'.at = "make" /\ facts.at \notin {"idle", "key", "netbox"} /\ facts' \in FactsState
    <3>1. CASE facts.at \in {"read", "tag", "set", "check"} /\ facts' = [facts EXCEPT !.at = "make"]
      BY <1>t, <3>1 DEF FactsState
    <3>2. ASSUME NEW n \in Facts, Turn(n),
                 facts' = [facts EXCEPT !.todo = @ \ {n}, !.made[n] = Missing, !.name = n]
          PROVE  facts'.seen = facts.seen /\ facts'.at = "make" /\ facts.at = "make" /\ facts' \in FactsState
      BY <1>t, <3>2 DEF FactsState, Turn
    <3> QED
      BY <1>13, <3>1, <3>2 DEF FactsLeaves
  <2>3. facts.seen # Missing
    BY <2>2 DEF FactsTypeOK
  <2>4. jobs' = jobs /\ events' \in 0..MaxEvents
    BY <2>1, KeyVaultAssumption DEF Event, KeyVaultTypeOK
  <2> QED
    BY <2>1, <2>2, <2>3, <2>4 DEF KeyVaultTypeOK, FactsTypeOK, TrueIn, Agreeing
<1> QED
  BY <1>1, <1>2, <1>3, <1>4, <1>5, <1>6, <1>8, <1>9, <1>11, <1>12, <1>13 DEF FactsRun

-----------------------------------------------------------------------------
(* The other actors: whatever they write, they write no fingerprint but    *)
(* one that was exported with its value, and the run notices.              *)

LEMMA Noticed ==
    ASSUME IInv, FactsMissed, UNCHANGED <<netbox, mapped, report>>,
           vault' \in [Names -> Row], TrueIn(vault'), saved' \in [Names -> Row], TrueIn(saved'),
           fkey' \in Keys \cup {NoKey}, jobs' = jobs, events' \in 0..MaxEvents
    PROVE  IInv'
<1>1. facts \in FactsState
  BY DEF IInv, FactsTypeOK
<1>2. facts' \in {facts, [facts EXCEPT !.fresh = FALSE]}
  BY DEF FactsMissed
<1>3. /\ facts' \in FactsState /\ facts'.at = facts.at /\ facts'.seen = facts.seen /\ facts'.key = facts.key
      /\ facts'.name = facts.name /\ facts'.made = facts.made
  BY <1>1, <1>2 DEF FactsState
<1>4. facts'.fresh => facts.fresh /\ vault'[facts.name].val = vault[facts.name].val
  BY <1>1 DEF FactsMissed, FactsState
<1> QED
  BY <1>3, <1>4 DEF IInv, KeyVaultTypeOK, FactsTypeOK, TrueIn, Agreeing

LEMMA UnchangedPreserves ==
    ASSUME IInv, UNCHANGED <<vault, fkey, saved, jobs, netbox, mapped, facts, report>>, events' \in 0..MaxEvents
    PROVE  IInv'
  BY DEF IInv, KeyVaultTypeOK, FactsTypeOK, TrueIn, Agreeing

LEMMA EventTyped ==
    ASSUME KeyVaultTypeOK, Event
    PROVE  events' \in 0..MaxEvents /\ jobs' = jobs
  BY KeyVaultAssumption DEF Event, KeyVaultTypeOK

LEMMA NetBoxPreserves ==
    ASSUME IInv, NEW o \in Objects, NetBoxChanges(o)
    PROVE  IInv'
<1>1. events' \in 0..MaxEvents /\ jobs' = jobs
  BY EventTyped DEF IInv, NetBoxChanges
<1>2. netbox' \in [Objects -> NetBoxObject]
  BY DEF NetBoxChanges, IInv, FactsTypeOK
<1> QED
  BY <1>1, <1>2 DEF NetBoxChanges, IInv, KeyVaultTypeOK, FactsTypeOK, TrueIn, Agreeing

LEMMA OwnerPreserves ==
    ASSUME IInv, OwnerEdits, FactsMissed, UNCHANGED <<netbox, mapped, report>>
    PROVE  IInv'
<1>1. events' \in 0..MaxEvents /\ jobs' = jobs
  BY EventTyped DEF IInv, OwnerEdits
<1>t. vault \in [Names -> Row] /\ TrueIn(vault) /\ saved \in [Names -> Row] /\ TrueIn(saved) /\ fkey \in Keys \cup {NoKey}
  BY DEF IInv, KeyVaultTypeOK
<1>2. ASSUME NEW n \in Names,
             OwnerSets(n) \/ OwnerRestores(n) \/ OwnerDeletes(n) \/ OwnerRecovers(n) \/ OwnerDisables(n)
      PROVE  /\ vault' \in [Names -> Row] /\ TrueIn(vault')
             /\ UNCHANGED <<fkey, saved>>
  <2>1. CASE OwnerSets(n)
    <3>1. PICK v \in OwnerValues[n] : vault' = Put(n, v, NoTag)
      BY <2>1 DEF OwnerSets
    <3>2. v \in Value
      BY KeyVaultAssumption
    <3> QED
      BY <2>1, <3>1, <3>2, <1>t, PutTyped, PutTrue DEF OwnerSets
  <2>2. CASE OwnerRestores(n)
    <3>1. saved[n].val \in Value /\ saved[n].tag \in Mark \cup {NoTag}
      BY <1>t DEF Row
    <3>2. saved[n].tag # NoTag => Same(n, saved[n].tag.of, saved[n].val)
      BY <1>t DEF TrueIn
    <3>3. vault' = Put(n, saved[n].val, saved[n].tag) /\ UNCHANGED <<fkey, saved>>
      BY <2>2 DEF OwnerRestores
    <3>4. Put(n, saved[n].val, saved[n].tag) \in [Names -> Row]
      BY <3>1, <1>t, PutTyped
    <3>5. TrueIn(Put(n, saved[n].val, saved[n].tag))
      BY <3>2, <1>t, PutTrue
    <3> QED
      BY <3>3, <3>4, <3>5
  <2>3. CASE OwnerDeletes(n) \/ OwnerRecovers(n) \/ OwnerDisables(n)
    <3>1. PICK s \in {"absent", "held", "disabled", "deleted"} : vault' = [vault EXCEPT ![n].state = s]
      BY <2>3 DEF OwnerDeletes, OwnerRecovers, OwnerDisables
    <3> QED
      BY <2>3, <3>1, <1>t, StateChange DEF OwnerDeletes, OwnerRecovers, OwnerDisables
  <2> QED
    BY <1>2, <2>1, <2>2, <2>3
<1>3. CASE \E n \in Names : OwnerSets(n) \/ OwnerRestores(n) \/ OwnerDeletes(n) \/ OwnerRecovers(n) \/ OwnerDisables(n)
  <2>1. vault' \in [Names -> Row] /\ TrueIn(vault') /\ UNCHANGED <<fkey, saved>>
    BY <1>2, <1>3
  <2>2. saved' \in [Names -> Row] /\ TrueIn(saved') /\ fkey' \in Keys \cup {NoKey}
    BY <2>1, <1>t DEF TrueIn
  <2> QED
    BY <1>1, <2>1, <2>2, Noticed
<1>4. CASE OwnerExports
  <2>1. vault' \in [Names -> Row] /\ TrueIn(vault') /\ saved' \in [Names -> Row] /\ TrueIn(saved') /\ fkey' \in Keys \cup {NoKey}
    BY <1>4, <1>t DEF OwnerExports, TrueIn
  <2> QED
    BY <1>1, <2>1, Noticed
<1>5. CASE OwnerChangesKey
  <2>1. vault' \in [Names -> Row] /\ TrueIn(vault') /\ saved' \in [Names -> Row] /\ TrueIn(saved') /\ fkey' \in Keys \cup {NoKey}
    BY <1>5, <1>t DEF OwnerChangesKey, TrueIn
  <2> QED
    BY <1>1, <2>1, Noticed
<1> QED
  BY <1>3, <1>4, <1>5 DEF OwnerEdits

-----------------------------------------------------------------------------
(* The copies and the ExternalSecret.                                      *)

LEMMA CodecTyped ==
    ASSUME NEW v \in Value
    PROVE  Encoded(v) \in Value /\ Decoded(v) \in Value
  BY DEF Encoded, Decoded, Value

LEMMA RenderedTyped ==
    ASSUME vault \in [Names -> Row], NEW encodes
    PROVE  Rendered(encodes) \in [Mapped -> Value]
<1>1. \A n \in Mapped : n \in Names
  BY CopiesAssumption
<1>2. \A n \in Mapped : vault[n].val \in Value
  BY <1>1 DEF Row
<1>3. \A n \in Mapped : Encoded(vault[n].val) \in Value
  BY <1>2, CodecTyped
<1> QED
  BY <1>2, <1>3 DEF Rendered

LEMMA CopiesInitially == KeyVaultTypeOK /\ CopiesInit => CopiesTypeOK
<1> SUFFICES ASSUME KeyVaultTypeOK, CopiesInit PROVE CopiesTypeOK
  OBVIOUS
<1>1. CopyResting \in CopyRun /\ CopyResting.at = "idle" /\ CopyResting.write = {}
  BY DEF CopyResting, CopyRun
<1>2. PICK s \in Starts : es = [encodes |-> s.encodes, hold |-> s.hold, due |-> FALSE, ready |-> TRUE,
                                secret |-> Rendered(s.encodes), rewritten |-> {}]
  BY DEF CopiesInit
<1>3. s.encodes \subseteq Mapped /\ s.hold \in BOOLEAN
  BY CopiesAssumption
<1>4. Rendered(s.encodes) \in [Mapped -> Value]
  BY RenderedTyped DEF KeyVaultTypeOK
<1>5. es \in ESState
  BY <1>2, <1>3, <1>4 DEF ESState
<1> QED
  BY <1>1, <1>5 DEF CopiesInit, CopiesTypeOK

\* A step of the copies or of the ExternalSecret keeps their state typed,
\* and what it writes into the vault is a typed value without a fingerprint.
LEMMA CopiesPreserve ==
    ASSUME IInv, CopiesTypeOK,
           \/ CopyReadsTemplate \/ ESRefresh \/ DockhandLooks \/ CopiesRun \/ CopyStops
           \/ \E n \in Names : OwnerRewrites(n) \/ TemplateGoesLive(n)
    PROVE  /\ CopiesTypeOK'
           /\ vault' \in [Names -> Row] /\ TrueIn(vault')
           /\ UNCHANGED <<fkey, saved, jobs>> /\ events' \in 0..MaxEvents
<1>t. /\ vault \in [Names -> Row] /\ TrueIn(vault) /\ KeyVaultTypeOK
      /\ es \in ESState /\ copy \in CopyRun
  BY DEF IInv, KeyVaultTypeOK, CopiesTypeOK
<1>e. events \in 0..MaxEvents /\ (Event => events' \in 0..MaxEvents /\ jobs' = jobs)
  BY <1>t, EventTyped DEF KeyVaultTypeOK
<1>r. CopyResting \in CopyRun /\ CopyResting.at = "idle" /\ CopyResting.write = {}
  BY DEF CopyResting, CopyRun
<1>v. ASSUME UNCHANGED vault PROVE vault' \in [Names -> Row] /\ TrueIn(vault')
  BY <1>t, <1>v DEF TrueIn
<1>w. ASSUME NEW n \in Names, NEW v \in Value
      PROVE  Put(n, v, NoTag) \in [Names -> Row] /\ TrueIn(Put(n, v, NoTag))
  BY <1>t, PutTyped, PutTrue
<1>m. \A n \in Mapped : n \in Names
  BY CopiesAssumption
<1>1. CASE CopyReadsTemplate
  <2>1. copy' \in CopyRun /\ copy'.at = "secret" /\ copy'.write = {}
    BY <1>1, <1>t DEF CopyReadsTemplate, CopyResting, CopyRun, ESState
  <2> QED
    BY <1>1, <1>e, <1>v, <2>1 DEF CopyReadsTemplate, CopiesTypeOK
<1>2. CASE ESRefresh
  <2>1. Rendered(es.encodes) \in [Mapped -> Value]
    BY <1>t, RenderedTyped
  <2>2. es' \in ESState
    BY <1>2, <1>t, <2>1 DEF ESRefresh, ESState
  <2> QED
    BY <1>2, <1>e, <1>v, <2>2 DEF ESRefresh, CopiesTypeOK, keyvaultVars, outside
<1>3. ASSUME NEW n \in Names, OwnerRewrites(n)
      PROVE  CopiesTypeOK' /\ vault' \in [Names -> Row] /\ TrueIn(vault') /\ UNCHANGED <<fkey, saved, jobs>> /\ events' \in 0..MaxEvents
  <2>1. Decoded(vault[n].val) \in Value
    BY <1>t, CodecTyped DEF Row
  <2>2. vault' \in [Names -> Row] /\ TrueIn(vault')
    BY <1>3, <1>w, <2>1 DEF OwnerRewrites
  <2>3. es' \in ESState
    BY <1>3, <1>t DEF OwnerRewrites, ESState
  <2> QED
    BY <1>3, <1>e, <2>2, <2>3 DEF OwnerRewrites, CopiesTypeOK
<1>4. ASSUME NEW n \in Names, TemplateGoesLive(n)
      PROVE  CopiesTypeOK' /\ vault' \in [Names -> Row] /\ TrueIn(vault') /\ UNCHANGED <<fkey, saved, jobs>> /\ events' \in 0..MaxEvents
  <2>1. es' \in ESState
    BY <1>4, <1>t DEF TemplateGoesLive, ESState
  <2> QED
    BY <1>4, <1>e, <1>v, <2>1 DEF TemplateGoesLive, CopiesTypeOK
<1>5. CASE CopyReadsSecret
  <2> DEFINE source == [n \in Names |-> IF n \notin Mapped THEN Missing
                          ELSE IF n \in copy.encodes THEN Decoded(es.secret[n]) ELSE es.secret[n]]
  <2>1. \A n \in Mapped : es.secret[n] \in Value
    BY <1>t DEF ESState
  <2>2. \A n \in Mapped : source[n] \in Value
    BY <2>1, <1>m, CodecTyped
  <2>3. source \in [Names -> Value \cup {Missing}] /\ \A n \in Mapped : source[n] # Missing
    BY <2>2, KeyVaultAssumption
  <2> HIDE DEF source
  <2>4. copy.at = "secret" /\ copy' \in {CopyResting, [copy EXCEPT !.at = "look", !.todo = Mapped, !.source = source]}
    BY <1>5 DEF CopyReadsSecret, source
  <2>5. CASE copy' = CopyResting
    BY <2>5, <1>5, <1>e, <1>r, <1>v DEF CopyReadsSecret, CopiesTypeOK, keyvaultVars, outside
  <2>6. CASE copy' = [copy EXCEPT !.at = "look", !.todo = Mapped, !.source = source]
    <3>1. /\ copy' \in CopyRun /\ copy'.source = source /\ copy'.write = copy.write
      BY <2>3, <2>6, <1>t DEF CopyRun
    <3>2. copy.write = {} /\ copy'.at = "look"
      BY <2>4, <2>6, <1>t DEF CopiesTypeOK, CopyRun
    <3> QED
      BY <3>1, <3>2, <2>3, <1>5, <1>e, <1>v DEF CopyReadsSecret, CopiesTypeOK, keyvaultVars, outside
  <2> QED
    BY <2>4, <2>5, <2>6
<1>6. ASSUME NEW n \in Names, CopyLooks(n)
      PROVE  CopiesTypeOK' /\ vault' \in [Names -> Row] /\ TrueIn(vault') /\ UNCHANGED <<fkey, saved, jobs>> /\ events' \in 0..MaxEvents
  <2> DEFINE write == IF CopyState(n) = "write" THEN copy.write \cup {n} ELSE copy.write
             at == IF copy.todo = {n} THEN "write" ELSE "look"
  <2>1. /\ copy.at = "look" /\ n \in copy.todo
        /\ copy' \in {CopyResting, [copy EXCEPT !.todo = @ \ {n}, !.write = write, !.at = at]}
    BY <1>6, <1>t DEF CopyLooks, CopyRun
  <2>2. n \in Mapped /\ \A m \in Mapped : copy.source[m] # Missing
    BY <2>1, <1>t DEF CopyRun, CopiesTypeOK
  <2>3. write \in SUBSET Names /\ (\A m \in write : copy.source[m] # Missing) /\ at \in {"write", "look"}
    BY <2>2, <1>t DEF CopyRun, CopiesTypeOK
  <2> HIDE DEF write, at
  <2>4. CASE copy' = CopyResting
    BY <2>4, <1>6, <1>e, <1>r, <1>v DEF CopyLooks, CopiesTypeOK, keyvaultVars, outside
  <2>5. CASE copy' = [copy EXCEPT !.todo = @ \ {n}, !.write = write, !.at = at]
    <3>1. copy' \in CopyRun /\ copy'.source = copy.source /\ copy'.write = write /\ copy'.at = at
      BY <2>3, <2>5, <1>t DEF CopyRun
    <3> QED
      BY <3>1, <2>2, <2>3, <1>6, <1>e, <1>v DEF CopyLooks, CopiesTypeOK, keyvaultVars, outside
  <2> QED
    BY <2>1, <2>4, <2>5
<1>p. ASSUME NEW n \in copy.write
      PROVE  n \in Names /\ Put(n, copy.source[n], NoTag) \in [Names -> Row] /\ TrueIn(Put(n, copy.source[n], NoTag))
  <2>1. n \in Names /\ copy.source[n] \in Value
    BY <1>t DEF CopyRun, CopiesTypeOK
  <2> QED
    BY <2>1, <1>w
<1>7. ASSUME NEW n \in Names, CopyWrites(n)
      PROVE  CopiesTypeOK' /\ vault' \in [Names -> Row] /\ TrueIn(vault') /\ UNCHANGED <<fkey, saved, jobs>> /\ events' \in 0..MaxEvents
  <2>1. vault' \in [Names -> Row] /\ TrueIn(vault')
    BY <1>7, <1>p DEF CopyWrites
  <2>2. /\ copy' \in CopyRun /\ copy'.source = copy.source /\ copy'.write = copy.write \ {n}
        /\ copy'.at = copy.at /\ copy.at \in {"write", "add"}
    BY <1>7, <1>t DEF CopyWrites, CopyRun
  <2> QED
    BY <1>7, <1>e, <2>1, <2>2 DEF CopyWrites, CopiesTypeOK, outside
<1>8. CASE CopyEnds
  BY <1>8, <1>e, <1>r, <1>v DEF CopyEnds, CopiesTypeOK, keyvaultVars, outside
<1>9. CASE CopyStops
  <2>1. vault' \in [Names -> Row] /\ TrueIn(vault')
    BY <1>9, <1>p, <1>t DEF CopyStops, TrueIn
  <2> QED
    BY <1>9, <1>e, <1>r, <2>1 DEF CopyStops, CopiesTypeOK
<1>10. CASE DockhandLooks
  <2> DEFINE source == [n \in Names |-> IF n \in Exported THEN Export[n] ELSE Missing]
             write == {n \in Exported : ~Held(n)}
  <2>1. source \in [Names -> Value \cup {Missing}] /\ write \in SUBSET Names
    BY CopiesAssumption
  <2>2. \A n \in write : source[n] # Missing
    BY CopiesAssumption, KeyVaultAssumption
  <2> HIDE DEF source, write
  <2>3. copy' = [CopyResting EXCEPT !.at = "add", !.source = source, !.write = write]
    BY <1>10 DEF DockhandLooks, source, write
  <2>4. copy' \in CopyRun /\ copy'.at = "add" /\ copy'.source = source /\ copy'.write = write
    BY <2>1, <2>3 DEF CopyResting, CopyRun
  <2> QED
    BY <1>10, <1>e, <1>v, <2>2, <2>4 DEF DockhandLooks, CopiesTypeOK
<1> QED
  BY <1>1, <1>2, <1>3, <1>4, <1>5, <1>6, <1>7, <1>8, <1>9, <1>10 DEF CopiesRun

-----------------------------------------------------------------------------
(* Semaphore's groups.                                                     *)

LEMMA RestingTyped ==
    /\ NoGroup \in GroupRow
    /\ SyncResting \in SyncState /\ SyncResting.at = "idle"
  BY DEF NoGroup, GroupRow, SyncResting, SyncState

LEMMA GroupsInitially == GroupsInit => GroupsTypeOK
<1> SUFFICES ASSUME GroupsInit PROVE GroupsTypeOK
  OBVIOUS
<1>1. PICK s \in Starts : groups = [g \in Groups |-> [NoGroup EXCEPT !.copies = IF g \in s.groups THEN 1 ELSE 0]]
  BY DEF GroupsInit
<1>2. \A c \in {0, 1} : [NoGroup EXCEPT !.copies = c] \in GroupRow
  BY RestingTyped DEF GroupRow
<1>3. \A g \in Groups : (IF g \in s.groups THEN 1 ELSE 0) \in {0, 1}
  OBVIOUS
<1>4. groups \in [Groups -> GroupRow]
  BY <1>1, <1>2, <1>3
<1> QED
  BY <1>4, RestingTyped DEF GroupsInit, GroupsTypeOK

LEMMA WrittenTyped ==
    ASSUME GroupsTypeOK, NEW g \in Groups, NEW c \in 0..2
    PROVE  Written(g, c) \in [Groups -> GroupRow]
<1>1. Declared(g) \in [Names -> Value \cup {Missing}]
  BY DEF Declared, GroupsTypeOK, SyncState
<1>2. [copies |-> c, holds |-> Declared(g), extra |-> FALSE] \in GroupRow
  BY <1>1 DEF GroupRow
<1> QED
  BY <1>2 DEF Written, GroupsTypeOK

LEMMA GroupsPreserve ==
    ASSUME KeyVaultTypeOK, GroupsTypeOK,
           \/ GroupsRun \/ GroupsCallFails \/ GroupsStops \/ GroupsStarts({}) \/ GroupsStarts(report)
           \/ \E g \in Groups : UserEditsGroup(g),
           report \subseteq Names
    PROVE  GroupsTypeOK'
<1>t. groups \in [Groups -> GroupRow] /\ sync \in SyncState /\ \A g \in Groups : groups[g].copies \in 0..2
  BY DEF GroupsTypeOK, GroupRow
<1>r. \A g \in Groups : Reads(g) \subseteq Names
  BY GroupsAssumption DEF Reads
<1>1. ASSUME NEW named \in SUBSET Names, GroupsStarts(named) PROVE GroupsTypeOK'
  <2>1. [g \in Groups |-> groups[g].copies] \in [Groups -> 0..2]
    BY <1>t
  <2>2. (IF named = {} THEN Groups ELSE {g \in Groups : Uses(g) \cap named # {}}) \in SUBSET Groups
        /\ (IF named = {} THEN Names ELSE named) \in SUBSET Names
    OBVIOUS
  <2>3. sync' \in SyncState /\ sync'.at = "group"
    BY <1>1, <2>1, <2>2 DEF GroupsStarts, SyncResting, SyncState
  <2> QED
    BY <1>1, <2>3, <1>t DEF GroupsStarts, GroupsTypeOK
<1>2. ASSUME NEW g \in Groups, GroupsTakes(g) PROVE GroupsTypeOK'
  <2>1. {n \in Reads(g) : sync.cache[n] = Missing} \in SUBSET Names /\ g # Missing
    BY <1>r, GroupsAssumption
  <2>2. sync' \in SyncState /\ (sync'.at = "read" => sync'.group = g)
    BY <1>2, <1>t, <2>1 DEF GroupsTakes, SyncState
  <2> QED
    BY <1>2, <2>1, <2>2, <1>t DEF GroupsTakes, GroupsTypeOK
<1>3. ASSUME NEW n \in Names, GroupsReads(n) PROVE GroupsTypeOK'
  <2>1. Read(n) \in Value \cup {Missing}
    BY DEF Read, KeyVaultTypeOK, Row
  <2>2. sync' \in SyncState /\ sync'.group = sync.group /\ sync.at = "read"
    BY <1>3, <1>t, <2>1 DEF GroupsReads, SyncState
  <2> QED
    BY <1>3, <2>2, <1>t DEF GroupsReads, GroupsTypeOK
<1>4. CASE GroupsLeaves
  <2>1. sync' \in SyncState /\ sync'.at = "group"
    BY <1>4, <1>t DEF GroupsLeaves, SyncState
  <2> QED
    BY <1>4, <2>1, <1>t DEF GroupsLeaves, GroupsTypeOK
<1>g. sync.at = "read" => sync.group \in Groups
  BY <1>t DEF GroupsTypeOK, SyncState
<1>5. CASE GroupsWrites
  <2> DEFINE g == sync.group
             posted == IF groups[g].copies = 2 THEN 2 ELSE groups[g].copies + 1
  <2>1. g \in Groups /\ groups[g].copies \in 0..2
    BY <1>5, <1>g, <1>t DEF GroupsWrites
  <2>2. posted \in 0..2
    BY <2>1
  <2> HIDE DEF posted
  <2>3. groups' \in {Written(g, posted), Written(g, groups[g].copies), groups}
    BY <1>5 DEF GroupsWrites, posted
  <2>4. groups' \in [Groups -> GroupRow]
    BY <1>t, <2>1, <2>2, <2>3, WrittenTyped
  <2>5. sync' \in SyncState /\ sync'.at = "group"
    BY <1>5, <1>t DEF GroupsWrites, SyncState
  <2> QED
    BY <2>4, <2>5 DEF GroupsTypeOK
<1>6. CASE GroupsEnds
  BY <1>6, <1>t, RestingTyped DEF GroupsEnds, GroupsTypeOK
<1>7. CASE GroupsCallFails
  <2> DEFINE c == IF groups[sync.group].copies = 0 THEN 1 ELSE groups[sync.group].copies
  <2>1. sync.at = "read" /\ groups' \in {groups, Written(sync.group, c)}
    BY <1>7 DEF GroupsCallFails
  <2>2. c \in 0..2
    BY <2>1, <1>g, <1>t
  <2> HIDE DEF c
  <2>3. groups' \in [Groups -> GroupRow]
    BY <1>g, <1>t, <2>1, <2>2, WrittenTyped
  <2>4. sync' \in SyncState /\ sync'.at = "group"
    BY <1>7, <1>t DEF GroupsCallFails, SyncState
  <2> QED
    BY <2>3, <2>4 DEF GroupsTypeOK
<1>8. CASE GroupsStops
  BY <1>8, <1>t, RestingTyped DEF GroupsStops, GroupsTypeOK
<1>9. ASSUME NEW g \in Groups, UserEditsGroup(g) PROVE GroupsTypeOK'
  <2>1. ASSUME NEW c \in 0..2 PROVE [groups EXCEPT ![g].copies = c] \in [Groups -> GroupRow]
    BY <1>t DEF GroupRow
  <2>2. [groups EXCEPT ![g].extra = TRUE, ![g].holds = NoGroup.holds] \in [Groups -> GroupRow]
    <3>1. NoGroup.holds \in [Names -> Value \cup {Missing}] /\ groups[g] \in GroupRow
      BY <1>t, RestingTyped DEF GroupRow
    <3> DEFINE h == NoGroup.holds
    <3> HIDE DEF h
    <3>2. [groups[g] EXCEPT !.extra = TRUE, !.holds = h] \in GroupRow
      BY <3>1 DEF GroupRow, h
    <3>3. [groups EXCEPT ![g].extra = TRUE, ![g].holds = h] = [groups EXCEPT ![g] = [groups[g] EXCEPT !.extra = TRUE, !.holds = h]]
      BY <1>t
    <3> QED
      BY <3>2, <3>3, <1>t DEF h
  <2>3. groups[g].copies < 2 => groups[g].copies + 1 \in 0..2
    BY <1>t
  <2>4. groups' \in [Groups -> GroupRow]
    <3>1. CASE groups' = [groups EXCEPT ![g] = NoGroup]
      BY <3>1, <1>t, RestingTyped
    <3>2. CASE groups[g].copies < 2 /\ groups' = [groups EXCEPT ![g].copies = @ + 1]
      <4>1. groups' = [groups EXCEPT ![g].copies = groups[g].copies + 1]
        BY <3>2, <1>t
      <4> QED
        BY <4>1, <3>2, <2>1, <2>3
    <3>3. CASE groups' = [groups EXCEPT ![g].copies = 1]
      BY <3>3, <2>1
    <3>4. CASE groups' = [groups EXCEPT ![g].extra = TRUE, ![g].holds = NoGroup.holds]
      BY <3>4, <2>2
    <3> QED
      BY <1>9, <3>1, <3>2, <3>3, <3>4 DEF UserEditsGroup
  <2>5. sync' \in SyncState /\ sync'.at = sync.at /\ sync'.group = sync.group
    BY <1>9, <1>t DEF UserEditsGroup, SyncState
  <2> QED
    BY <2>4, <2>5 DEF GroupsTypeOK
<1> QED
  BY <1>1, <1>2, <1>3, <1>4, <1>5, <1>6, <1>7, <1>8, <1>9 DEF GroupsRun

-----------------------------------------------------------------------------
(* The theorems.                                                           *)

HubInv == IInv /\ GroupsTypeOK /\ CopiesTypeOK

LEMMA HubInitially == Init => HubInv
  BY FactsInitially, GroupsInitially, CopiesInitially DEF Init, HubInv, IInv

LEMMA HubStep == HubInv /\ [Next]_vars => HubInv'
<1> SUFFICES ASSUME HubInv, [Next]_vars PROVE HubInv'
  OBVIOUS
<1>t. IInv /\ GroupsTypeOK /\ CopiesTypeOK /\ KeyVaultTypeOK /\ FactsTypeOK
  BY DEF HubInv, IInv
<1>g. UNCHANGED groupsVars => GroupsTypeOK'
  BY <1>t DEF groupsVars, GroupsTypeOK
<1>c. UNCHANGED copiesVars => CopiesTypeOK'
  BY <1>t DEF copiesVars, CopiesTypeOK
<1>e. events \in 0..MaxEvents
  BY <1>t DEF KeyVaultTypeOK
<1>1. CASE FactsStep
  BY <1>1, <1>t, <1>g, <1>c, FactsPreserve DEF FactsStep, HubInv
<1>2. CASE NetBoxStep
  BY <1>2, <1>t, <1>g, <1>c, NetBoxPreserves DEF NetBoxStep, HubInv
<1>r. report \subseteq Names
  BY <1>t, FactsAssumption DEF FactsTypeOK
<1>3. CASE GroupsDaily
  <2>1. GroupsTypeOK'
    BY <1>3, <1>t, <1>r, GroupsPreserve DEF GroupsDaily
  <2>2. IInv'
    BY <1>3, <1>t, <1>e, UnchangedPreserves DEF GroupsDaily, GroupsStarts, outside, factsVars
  <2> QED
    BY <1>3, <1>c, <2>1, <2>2 DEF GroupsDaily, HubInv
<1>4. CASE GroupsByHand
  <2>1. GroupsTypeOK'
    BY <1>4, <1>t, <1>r, GroupsPreserve DEF GroupsByHand
  <2>2. events' \in 0..MaxEvents /\ jobs' = jobs
    BY <1>4, <1>t, EventTyped DEF GroupsByHand
  <2>3. IInv'
    BY <1>4, <1>t, <2>2, UnchangedPreserves DEF GroupsByHand, GroupsStarts, factsVars
  <2> QED
    BY <1>4, <1>c, <2>1, <2>3 DEF GroupsByHand, HubInv
<1>5. CASE GroupsStep
  <2>1. GroupsTypeOK'
    BY <1>5, <1>t, <1>r, GroupsPreserve DEF GroupsStep
  <2>2. UNCHANGED <<vault, fkey, saved, jobs>> /\ events' \in 0..MaxEvents
    BY <1>5, <1>t, <1>e, EventTyped
    DEF GroupsStep, GroupsRun, GroupsTakes, GroupsReads, GroupsLeaves, GroupsWrites, GroupsEnds,
        GroupsCallFails, GroupsStops, UserEditsGroup, keyvaultVars, outside
  <2>3. IInv'
    BY <1>5, <1>t, <2>2, UnchangedPreserves DEF GroupsStep, factsVars
  <2> QED
    BY <1>5, <1>c, <2>1, <2>3 DEF GroupsStep, HubInv
<1>6. CASE CopiesStep
  <2>1. /\ CopiesTypeOK' /\ vault' \in [Names -> Row] /\ TrueIn(vault')
        /\ UNCHANGED <<fkey, saved, jobs>> /\ events' \in 0..MaxEvents
    BY <1>6, <1>t, CopiesPreserve DEF CopiesStep
  <2>2. saved' \in [Names -> Row] /\ TrueIn(saved') /\ fkey' \in Keys \cup {NoKey}
    BY <2>1, <1>t DEF IInv, KeyVaultTypeOK, TrueIn
  <2>3. IInv'
    BY <1>6, <1>t, <2>1, <2>2, Noticed DEF CopiesStep
  <2> QED
    BY <1>6, <1>g, <2>1, <2>3 DEF CopiesStep, HubInv
<1>7. CASE OwnerStep
  <2>1. IInv'
    BY <1>7, <1>t, OwnerPreserves DEF OwnerStep
  <2>2. es' \in ESState
    BY <1>7, <1>t DEF OwnerStep, CopiesNotices, CopiesTypeOK, ESState
  <2>3. CopiesTypeOK'
    BY <1>7, <1>t, <2>2 DEF OwnerStep, CopiesNotices, CopiesTypeOK
  <2> QED
    BY <1>7, <1>g, <2>1, <2>3 DEF OwnerStep, HubInv
<1>8. CASE UNCHANGED vars
  <2>1. IInv'
    BY <1>8, <1>t, <1>e, UnchangedPreserves DEF vars, keyvaultVars, outside, factsVars
  <2> QED
    BY <1>8, <1>g, <1>c, <2>1 DEF vars, HubInv
<1> QED
  BY <1>1, <1>2, <1>3, <1>4, <1>5, <1>6, <1>7, <1>8 DEF Next

\* The vault, the runs over it, Semaphore's groups and the ExternalSecret
\* keep to their types, for any secrets, groups and edits.
THEOREM TypesHold == Spec => []TypeOK
<1>1. HubInv => TypeOK
  BY DEF HubInv, IInv, TypeOK
<1> QED
  BY <1>1, HubInitially, HubStep, PTL DEF Spec

\* The fingerprint on a secret's current version is one of the value it
\* holds, so that a facts run may leave a value unread where the fingerprint
\* is the one it looks for (keyvault_facts.py:573-578).
THEOREM FingerprintsTrue == Spec => []FingerprintTrue
<1>1. HubInv => FingerprintTrue
  BY DEF HubInv, IInv, FingerprintTrue
<1> QED
  BY <1>1, HubInitially, HubStep, PTL DEF Spec
=============================================================================
