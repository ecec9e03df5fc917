------------------------- MODULE KeyVaultRunsProofs -------------------------
(***************************************************************************)
(* Proofs about KeyVaultHub, on top of KeyVaultProofs: what a run of       *)
(* Semaphore's groups leaves in the groups, and that no value comes to be  *)
(* encoded twice while the owner rewrites values to plain, for any         *)
(* secrets, groups, edits and interleavings of the programs.               *)
(***************************************************************************)
EXTENDS KeyVaultProofs

-----------------------------------------------------------------------------
(* Semaphore's groups.                                                     *)

\* While a run nobody has disturbed goes on, each managed group it is done
\* with holds, of each secret the run is for, what the run has read of it.
DoneAsRead ==
    sync.at # "idle" /\ ~sync.failed /\ sync.alone =>
        \A g \in Managed : \A n \in sync.scope \cap Reads(g) :
            \/ g \in sync.left
            \/ sync.at = "read" /\ g = sync.group
            \/ sync.cache[n] # Missing /\ groups[g].holds[n] = sync.cache[n]

\* What the group at hand still reads was not read before, and it is one group.
ReadOnce ==
    sync.at = "read" =>
        /\ \A n \in sync.toread : sync.cache[n] = Missing
        /\ sync.live[sync.group] <= 1

RunInv == DoneAsRead /\ ReadOnce
\* Whether a managed group is done with for a secret of the run.
Done(g, n) ==
    \/ g \in sync.left
    \/ sync.at = "read" /\ g = sync.group
    \/ sync.cache[n] # Missing /\ groups[g].holds[n] = sync.cache[n]

LEMMA RunInitially == GroupsInit => RunInv
  BY RestingTyped DEF GroupsInit, RunInv, DoneAsRead, ReadOnce

\* A step after which the run is not counted on any more.
LEMMA NotCounted ==
    ASSUME sync'.at # "read", sync'.at = "idle" \/ sync'.failed = TRUE
    PROVE  RunInv'
  BY DEF RunInv, DoneAsRead, ReadOnce

LEMMA RunPreserves ==
    ASSUME GroupsTypeOK, RunInv,
           \/ GroupsRun \/ GroupsCallFails \/ GroupsStops \/ GroupsStarts({}) \/ GroupsStarts(report)
           \/ \E g \in Groups : UserEditsGroup(g),
           report \subseteq Names
    PROVE  RunInv'
<1>t. groups \in [Groups -> GroupRow] /\ sync \in SyncState
  BY DEF GroupsTypeOK
<1>m. Managed \subseteq Groups /\ \A g \in Groups : Reads(g) \subseteq Names /\ Uses(g) = Reads(g)
  BY GroupsAssumption DEF Reads, Uses
<1>d. sync.at # "idle" /\ sync.failed = FALSE /\ sync.alone = TRUE
        => \A g \in Managed : \A n \in sync.scope \cap Reads(g) : Done(g, n)
  BY DEF RunInv, DoneAsRead, Done
<1>1. ASSUME NEW named \in SUBSET Names, GroupsStarts(named) PROVE RunInv'
  <2>1. /\ sync'.at = "group"
        /\ sync'.scope = IF named = {} THEN Names ELSE named
        /\ sync'.left = IF named = {} THEN Groups ELSE {g \in Groups : Uses(g) \cap named # {}}
    BY <1>1 DEF GroupsStarts, SyncResting
  <2>2. \A g \in Managed : \A n \in sync'.scope \cap Reads(g) : g \in sync'.left
    BY <1>m, <2>1
  <2> QED
    BY <2>1, <2>2 DEF RunInv, DoneAsRead, ReadOnce
<1>2. ASSUME NEW g \in Groups, GroupsTakes(g) PROVE RunInv'
  <2>1. CASE sync'.failed = TRUE /\ sync'.at = "group"
    BY <2>1, NotCounted
  <2>2. CASE ~(sync.live[g] > 1) /\ sync' = [sync EXCEPT !.left = @ \ {g}, !.group = g, !.at = "read",
                           !.toread = {n \in Reads(g) : sync.cache[n] = Missing}]
    <3>1. /\ sync'.left = sync.left \ {g} /\ sync'.group = g /\ sync'.at = "read"
          /\ sync'.toread = {n \in Reads(g) : sync.cache[n] = Missing}
          /\ sync'.cache = sync.cache /\ sync'.live = sync.live /\ sync'.scope = sync.scope
          /\ sync'.failed = sync.failed /\ sync'.alone = sync.alone
      BY <2>2, <1>t DEF SyncState
    <3>2. sync.at = "group" /\ groups' = groups
      BY <1>2 DEF GroupsTakes
    <3>3. sync.live[g] \in 0..2
      BY <1>t DEF SyncState
    <3>4. ReadOnce'
      BY <2>2, <3>1, <3>3 DEF ReadOnce
    <3>5. DoneAsRead'
      BY <3>1, <3>2 DEF RunInv, DoneAsRead
    <3> QED
      BY <3>4, <3>5 DEF RunInv
  <2>3. \/ sync'.failed = TRUE /\ sync'.at = "group"
        \/ ~(sync.live[g] > 1) /\ sync' = [sync EXCEPT !.left = @ \ {g}, !.group = g, !.at = "read",
                           !.toread = {n \in Reads(g) : sync.cache[n] = Missing}]
    BY <1>2, <1>t DEF GroupsTakes, SyncState
  <2> QED
    BY <2>1, <2>2, <2>3
<1>3. ASSUME NEW n \in Names, GroupsReads(n) PROVE RunInv'
  <2>1. /\ sync.at = "read" /\ sync'.at = "read" /\ n \in sync.toread /\ groups' = groups
        /\ sync'.toread = sync.toread \ {n} /\ sync'.cache = [sync.cache EXCEPT ![n] = Read(n)]
        /\ sync'.left = sync.left /\ sync'.group = sync.group /\ sync'.live = sync.live
        /\ sync'.scope = sync.scope /\ sync'.failed = sync.failed /\ sync'.alone = sync.alone
    BY <1>3, <1>t DEF GroupsReads, SyncState
  <2>2. \A m \in Names \ {n} : sync'.cache[m] = sync.cache[m]
    BY <2>1, <1>t DEF SyncState
  <2>3. sync.cache[n] = Missing /\ sync.toread \subseteq Names
    BY <2>1, <1>t DEF RunInv, ReadOnce, SyncState
  <2>4. ReadOnce'
    BY <2>1, <2>2, <2>3 DEF RunInv, ReadOnce
  <2>5. DoneAsRead'
    BY <2>1, <2>2, <2>3, <1>m DEF RunInv, DoneAsRead
  <2> QED
    BY <2>4, <2>5 DEF RunInv
<1>4. CASE GroupsLeaves
  <2>1. /\ sync.at = "read" /\ sync'.at = "group" /\ groups' = groups
        /\ sync'.cache = sync.cache /\ sync'.left = sync.left /\ sync'.group = sync.group
        /\ sync'.scope = sync.scope /\ sync'.alone = sync.alone
        /\ sync'.failed = (sync.failed \/ Unread(sync.group))
    BY <1>4, <1>t DEF GroupsLeaves, SyncState
  <2>2. CASE Unread(sync.group)
    BY <2>1, <2>2, NotCounted
  <2>3. CASE ~Unread(sync.group)
    <3>1. sync.group \notin Managed
      BY <1>4, <2>3 DEF GroupsLeaves
    <3>2. sync'.failed = TRUE \/ sync.failed = FALSE
      BY <2>1, <1>t DEF SyncState
    <3>3. sync.failed = FALSE /\ sync.alone = TRUE => DoneAsRead'
      BY <2>1, <3>1, <1>d DEF Done, DoneAsRead
    <3> QED
      BY <2>1, <3>2, <3>3, <1>t DEF RunInv, DoneAsRead, ReadOnce, SyncState
  <2> QED
    BY <2>2, <2>3
<1>5. CASE GroupsWrites
  <2> DEFINE g == sync.group
             posted == IF groups[g].copies = 2 THEN 2 ELSE groups[g].copies + 1
  <2>1. /\ sync.at = "read" /\ sync'.at = "group" /\ sync.toread = {} /\ g \in Groups
        /\ sync'.cache = sync.cache /\ sync'.left = sync.left /\ sync'.group = sync.group
        /\ sync'.scope = sync.scope /\ sync'.alone = sync.alone /\ ~Unread(g)
        /\ sync'.failed = (sync.failed \/ (sync.live[g] = 1 /\ groups[g].copies = 0))
    BY <1>5, <1>t, <1>m DEF GroupsWrites, SyncState, GroupsTypeOK
  <2>2. sync.live[g] \in {0, 1} /\ groups[g].copies \in 0..2
    BY <2>1, <1>t DEF RunInv, ReadOnce, SyncState, GroupRow
  <2>3. CASE sync.live[g] = 1 /\ groups[g].copies = 0
    BY <2>1, <2>3, NotCounted
  <2>4. CASE ~(sync.live[g] = 1 /\ groups[g].copies = 0)
    <3>1. groups' \in {Written(g, posted), Written(g, groups[g].copies)}
      BY <1>5, <2>2, <2>4 DEF GroupsWrites
    <3>2. /\ groups'[g].holds = Declared(g)
          /\ \A h \in Groups \ {g} : groups'[h] = groups[h]
      <4> HIDE DEF posted
      <4> QED
        BY <3>1, <2>1, <1>t DEF Written
    <3>3. \A n \in Reads(g) : sync.cache[n] # Missing /\ groups'[g].holds[n] = sync.cache[n]
      BY <3>2, <2>1, <1>m DEF Declared, Unread
    <3>4. sync.failed = FALSE /\ sync.alone = TRUE => DoneAsRead'
      <4> HIDE DEF g
      <4> QED
        BY <2>1, <3>2, <3>3, <1>d, <1>m DEF Done, DoneAsRead, g
    <3>5. sync'.failed = sync.failed
      BY <2>1, <2>4, <1>t DEF SyncState
    <3> QED
      BY <2>1, <3>4, <3>5, <1>t DEF RunInv, DoneAsRead, ReadOnce, SyncState
  <2> QED
    BY <2>3, <2>4
<1>6. CASE GroupsEnds \/ GroupsStops
  BY <1>6, RestingTyped, NotCounted DEF GroupsEnds, GroupsStops
<1>7. CASE GroupsCallFails
  <2>1. sync'.at = "group" /\ sync'.failed = TRUE
    BY <1>7, <1>t DEF GroupsCallFails, SyncState
  <2> QED
    BY <2>1, NotCounted
<1>8. ASSUME NEW g \in Groups, UserEditsGroup(g) PROVE RunInv'
  <2>1. /\ sync'.alone = FALSE /\ sync'.at = sync.at /\ sync'.toread = sync.toread
        /\ sync'.cache = sync.cache /\ sync'.live = sync.live /\ sync'.group = sync.group
    BY <1>8, <1>t DEF UserEditsGroup, SyncState
  <2> QED
    BY <2>1 DEF RunInv, DoneAsRead, ReadOnce
<1> QED
  BY <1>1, <1>2, <1>3, <1>4, <1>5, <1>6, <1>7, <1>8 DEF GroupsRun

\* The other programs leave the groups and their run alone.
LEMMA RunHolds == Spec => []RunInv
<1>1. Init => RunInv
  BY RunInitially DEF Init
<1>2. HubInv /\ RunInv /\ [Next]_vars => RunInv'
  <2> SUFFICES ASSUME HubInv, RunInv, [Next]_vars PROVE RunInv'
    OBVIOUS
  <2>1. GroupsTypeOK /\ report \subseteq Names
    BY FactsAssumption DEF HubInv, IInv, FactsTypeOK
  <2>2. CASE UNCHANGED groupsVars
    BY <2>2 DEF groupsVars, RunInv, DoneAsRead, ReadOnce
  <2>3. CASE GroupsDaily \/ GroupsByHand \/ GroupsStep
    BY <2>1, <2>3, RunPreserves DEF GroupsDaily, GroupsByHand, GroupsStep
  <2> QED
    BY <2>2, <2>3 DEF Next, FactsStep, NetBoxStep, CopiesStep, OwnerStep, vars
<1> QED
  BY <1>1, <1>2, HubInitially, HubStep, PTL DEF Spec

\* A run that went through every group it chose without a failure leaves all
\* managed groups with the same value of each secret it was for, whatever was
\* written into Key Vault meanwhile (semaphore_variable_groups.py:411-428).
THEOREM GroupsAgree == Spec => []SharedSecretsAgree
<1>1. RunInv => SharedSecretsAgree
  <2> SUFFICES ASSUME RunInv, sync.at = "group", sync.left = {}, ~sync.failed, sync.alone,
                      NEW n \in sync.scope, NEW g \in Managed, NEW h \in Managed, n \in Reads(g), n \in Reads(h)
               PROVE  groups[g].holds[n] = groups[h].holds[n]
    BY DEF SharedSecretsAgree
  <2>1. groups[g].holds[n] = sync.cache[n] /\ groups[h].holds[n] = sync.cache[n]
    BY DEF RunInv, DoneAsRead
  <2> QED
    BY <2>1
<1> QED
  BY <1>1, RunHolds, PTL
-----------------------------------------------------------------------------
(* What is encoded where.                                                  *)

\* What a mapped name may be given in Key Vault.
Fits(n, v) ==
    /\ v.as # "twice"
    /\ n \in es.encodes => v.as = "plain"
    /\ "copy" \in jobs /\ n \in mapped => v.as # "base64"

\* The names rewritten ahead of the template encodes, and v is their value or
\* the base64 of it.
Ahead(encodes) == es.rewritten \ encodes
Tied(n, v) == Held(n) /\ vault[n].val.as = "plain" /\ v \in {vault[n].val, Encoded(vault[n].val)}

\* The owner's values, what Key Vault holds and the export fit.
VaultFits ==
    \A n \in Mapped :
        /\ Fits(n, vault[n].val)
        /\ n \notin es.rewritten => Fits(n, saved[n].val) /\ \A v \in OwnerValues[n] : Fits(n, v)

\* The Secret is of these values; a name that is ahead is tied to it.
SecretFits ==
    /\ \A n \in Mapped : /\ es.secret[n].as # "twice"
                         /\ n \notin es.encodes => Fits(n, es.secret[n])
    /\ \A n \in Ahead(es.encodes) : Tied(n, es.secret[n])

\* The facts run writes plain text, and no name that was rewritten.
FactsPlain ==
    /\ es.rewritten \cap mapped = {}
    /\ facts.todo \subseteq mapped
    /\ facts.at \in {"read", "tag", "set", "check"} => facts.name \in mapped
    /\ \A n \in Facts : facts.made[n] # Missing => facts.made[n].as = "plain"

\* A copy knows a template that is live, or its name was rewritten and the
\* copy is tied to it; what it writes fits.
CopyFits ==
    /\ copy.at \in {"secret", "look", "write"} =>
          copy.encodes \subseteq es.encodes /\ es.encodes \subseteq copy.encodes \cup es.rewritten
    /\ copy.at = "secret" => \A n \in Ahead(copy.encodes) : Tied(n, es.secret[n])
    /\ copy.at = "look" => \A n \in Mapped :
          IF n \in Ahead(copy.encodes) THEN Tied(n, copy.source[n]) ELSE Fits(n, copy.source[n])
    /\ copy.at = "write" => \A n \in Ahead(copy.encodes) : Held(n) /\ vault[n].val.as = "plain"
    /\ copy.at = "idle" => copy.write = {}
    /\ \A n \in copy.write \cap Mapped :
          /\ Fits(n, copy.source[n])
          /\ n \notin Ahead(es.encodes)
          /\ copy.at # "add" => n \notin Ahead(copy.encodes)

EncodingInv == VaultFits /\ SecretFits /\ FactsPlain /\ CopyFits
\* Base64 and back.
LEMMA Codec ==
    ASSUME NEW v \in Value
    PROVE  /\ Encoded(v) \in Value /\ Decoded(v) \in Value
           /\ v.as = "plain" => Encoded(v).as = "base64" /\ Decodes(Encoded(v)) /\ Decoded(Encoded(v)) = v
           /\ v.as = "base64" => Decoded(v).as = "plain" /\ Encoded(Decoded(v)) = v
           /\ v.as # "twice" => Decoded(v).as = "plain"
<1>1. v = [parts |-> v.parts, as |-> v.as]
  BY DEF Value
<1>2. Encoded(v) = [parts |-> v.parts, as |-> IF v.as = "plain" THEN "base64" ELSE "twice"]
  BY <1>1 DEF Encoded
<1>4. Decoded(v) = [parts |-> v.parts, as |-> IF v.as = "twice" THEN "base64" ELSE "plain"]
  BY <1>1 DEF Decoded
<1>5. Encoded(v) \in Value /\ Decoded(v) \in Value
  BY <1>2, <1>4 DEF Value
<1>6. ASSUME v.as = "plain"
      PROVE  Encoded(v).as = "base64" /\ Decodes(Encoded(v)) /\ Decoded(Encoded(v)) = v
  <2>1. Encoded(v) = [parts |-> v.parts, as |-> "base64"]
    BY <1>2, <1>6
  <2>2. Decoded(Encoded(v)) = [parts |-> v.parts, as |-> "plain"]
    BY <2>1 DEF Decoded
  <2> QED
    BY <1>1, <1>6, <2>1, <2>2 DEF Decodes
<1>7. ASSUME v.as = "base64" PROVE Decoded(v).as = "plain" /\ Encoded(Decoded(v)) = v
  <2>1. Decoded(v) = [parts |-> v.parts, as |-> "plain"]
    BY <1>4, <1>7
  <2>2. Encoded(Decoded(v)) = [parts |-> v.parts, as |-> "base64"]
    BY <2>1 DEF Encoded
  <2> QED
    BY <1>1, <1>7, <2>1, <2>2
<1> QED
  BY <1>4, <1>5, <1>6, <1>7

\* A value put into Key Vault is there, or the secret is deleted; no other
\* name changes.
LEMMA PutValue ==
    ASSUME vault \in [Names -> Row], NEW n \in Names, NEW v, NEW t, vault' = Put(n, v, t)
    PROVE  /\ \A m \in Names \ {n} : vault'[m] = vault[m]
           /\ vault'[n].val = v \/ vault'[n] = vault[n]
           /\ vault[n].state # "deleted" => vault'[n].state = "held" /\ vault'[n].val = v
<1> DEFINE new == [state |-> "held", val |-> v, tag |-> t]
<1>1. new.state = "held" /\ new.val = v
  OBVIOUS
<1> HIDE DEF new
<1>2. vault' = IF vault[n].state = "deleted" THEN vault ELSE [vault EXCEPT ![n] = new]
  BY DEF Put, new
<1> QED
  BY <1>1, <1>2

\* A name that neither the template nor a copy under way counts on.
Free(n) ==
    /\ n \notin Ahead(es.encodes)
    /\ copy.at \in {"secret", "look", "write"} => n \notin Ahead(copy.encodes)

\* A step that writes only what fits, and only under free names, disturbs
\* neither the Secret nor a copy.
LEMMA VaultStep ==
    ASSUME VaultFits, SecretFits, CopyFits, es.rewritten \subseteq Mapped,
           UNCHANGED <<jobs, mapped>>, saved' = saved \/ (saved' = vault /\ vault' = vault),
           es'.encodes = es.encodes, es'.secret = es.secret, es'.rewritten = es.rewritten,
           \A n \in Mapped : \/ vault'[n] = vault[n]
                             \/ (vault'[n].val = vault[n].val \/ Fits(n, vault'[n].val)) /\ Free(n),
           \/ copy' = copy
           \/ copy'.at = "idle" /\ copy'.write = {}
           \/ /\ copy'.at = copy.at /\ copy.at \in {"write", "add"} /\ copy'.write \subseteq copy.write
              /\ copy'.source = copy.source /\ copy'.encodes = copy.encodes
    PROVE  VaultFits' /\ SecretFits' /\ CopyFits'
<1>1. VaultFits'
  BY DEF VaultFits, Fits
<1>2. SecretFits'
  <2>1. \A n \in Mapped : /\ es'.secret[n].as # "twice"
                          /\ (n \notin es.encodes => Fits(n, es.secret[n]))'
    BY DEF SecretFits, Fits
  <2>2. \A n \in Ahead(es.encodes) \cap Mapped : vault'[n] = vault[n]
    BY DEF Free
  <2>3. \A n \in Ahead(es.encodes) \cap Mapped : Tied(n, es.secret[n])'
    BY <2>2 DEF SecretFits, Tied, Held
  <2> QED
    BY <2>1, <2>3 DEF SecretFits, Ahead
<1>3. CopyFits'
  <2>1. CASE copy' = copy
    <3>1. ASSUME copy.at \in {"secret", "look", "write"}
          PROVE  \A n \in Ahead(copy.encodes) \cap Mapped : vault'[n] = vault[n]
      BY <3>1 DEF Free
    <3> QED
      BY <2>1, <3>1 DEF CopyFits, Tied, Held, Fits, Ahead
  <2>2. CASE copy'.at = "idle" /\ copy'.write = {}
    BY <2>2 DEF CopyFits
  <2>3. CASE /\ copy'.at = copy.at /\ copy.at \in {"write", "add"} /\ copy'.write \subseteq copy.write
             /\ copy'.source = copy.source /\ copy'.encodes = copy.encodes
    <3>1. copy.at = "write" => \A n \in Ahead(copy.encodes) \cap Mapped : vault'[n] = vault[n]
      BY DEF Free
    <3> QED
      BY <2>3, <3>1 DEF CopyFits, Held, Fits, Ahead
  <2> QED
    BY <2>1, <2>2, <2>3
<1> QED
  BY <1>1, <1>2, <1>3
\* The facts run: it goes through mapped names and makes plain values of them.
LEMMA FactsStayPlain ==
    ASSUME FactsTypeOK, FactsPlain, FactsLists \/ FactsRun \/ FactsLeaves \/ FactsStops \/ (FactsMissed /\ mapped' = mapped),
           es'.rewritten \cap mapped = {}
    PROVE  FactsPlain'
<1>t. facts \in FactsState
  BY DEF FactsTypeOK
<1>m. mapped' = mapped
  BY DEF FactsLists, FactsRun, FactsLeaves, FactsStops, FactsReadsKey, FactsReadsNetBox, FactsReads, FactsTags, FactsSets,
         FactsChecks, FactsEnds, FactsMakes
<1>r. /\ FactsResting.todo = {} /\ FactsResting.at = "idle" /\ FactsResting.made = [n \in Facts |-> Missing]
      /\ FactsResting \in FactsState
  BY FactsAssumption DEF FactsResting, FactsState
<1>1. CASE /\ facts'.todo = {} /\ facts'.at \in {"idle", "key"}
           /\ \A n \in Facts : facts'.made[n] = Missing
  BY <1>1, <1>m DEF FactsPlain
<1>2. CASE FactsLists \/ FactsEnds \/ FactsStops
  BY <1>2, <1>1, <1>r DEF FactsLists, FactsEnds, FactsStops, FactsState, FactsResting
<1>3. CASE FactsReadsKey \/ FactsReadsNetBox
  <2>1. facts'.made = facts.made /\ facts'.at \in {"netbox", "make"} /\ facts'.todo \in {facts.todo, mapped}
    BY <1>3, <1>t DEF FactsReadsKey, FactsReadsNetBox, FactsState
  <2> QED
    BY <2>1, <1>m DEF FactsPlain
<1>4. ASSUME NEW n \in Facts, FactsMakes(n) PROVE FactsPlain'
  <2> DEFINE v == Made(n, facts.seen, ReadBy(n))
  <2>1. v = Missing \/ v.as = "plain"
    BY DEF Made, Plain
  <2>2. n \in facts.todo /\ facts'.name = n
    BY <1>4, <1>t DEF FactsMakes, Turn, FactsState
  <2>3. facts'.todo = facts.todo \ {n} /\ facts'.made = [facts.made EXCEPT ![n] = v]
    BY <1>4, <1>t DEF FactsMakes, FactsState
  <2>4. facts.made \in [Facts -> Value \cup {Missing}]
    BY <1>t DEF FactsState
  <2> HIDE DEF v
  <2>5. \A m \in Facts : facts'.made[m] # Missing => facts'.made[m].as = "plain"
    BY <2>1, <2>3, <2>4 DEF FactsPlain
  <2> QED
    BY <2>2, <2>3, <2>5, <1>m DEF FactsPlain
<1>5. CASE FactsReads \/ FactsTags \/ FactsSets \/ FactsChecks
  <2>1. facts.at \in {"read", "tag", "set", "check"}
    BY <1>5 DEF FactsReads, FactsTags, FactsSets, FactsChecks
  <2>2. facts'.name = facts.name /\ facts'.todo = facts.todo /\ facts'.made = facts.made
    BY <1>5, <1>t DEF FactsReads, FactsTags, FactsSets, FactsChecks, FactsState
  <2> QED
    BY <2>1, <2>2, <1>m DEF FactsPlain
<1>6. CASE FactsMissed
  <2>1. /\ facts'.name = facts.name /\ facts'.todo = facts.todo /\ facts'.made = facts.made
        /\ facts'.at = facts.at
    BY <1>6, <1>t DEF FactsMissed, FactsState
  <2> QED
    BY <2>1, <1>m DEF FactsPlain
<1>7. CASE FactsLeaves
  <2>1. CASE facts' = [facts EXCEPT !.at = "make"] /\ facts.at \in {"read", "tag", "set", "check"}
    <3>1. facts'.name = facts.name /\ facts'.todo = facts.todo /\ facts'.made = facts.made /\ facts'.at = "make"
      BY <2>1, <1>t DEF FactsState
    <3> QED
      BY <3>1, <1>m, <2>1 DEF FactsPlain
  <2>2. ASSUME NEW n \in Facts, Turn(n), facts' = [facts EXCEPT !.todo = @ \ {n}, !.made[n] = Missing, !.name = n]
        PROVE  FactsPlain'
    <3>1. /\ n \in facts.todo /\ facts'.name = n /\ facts'.todo \subseteq facts.todo /\ facts'.at = facts.at
          /\ \A m \in Facts : facts'.made[m] \in {facts.made[m], Missing}
      BY <2>2, <1>t DEF Turn, FactsState
    <3> QED
      BY <3>1, <1>m, <2>2 DEF FactsPlain, Turn
  <2> QED
    BY <1>7, <2>1, <2>2 DEF FactsLeaves
<1> QED
  BY <1>2, <1>3, <1>4, <1>5, <1>6, <1>7 DEF FactsRun

\* What the facts run writes fits, under names that are free.
LEMMA FactsEncode ==
    ASSUME HubInv, EncodingInv, FactsLists \/ FactsRun \/ FactsLeaves \/ FactsStops, UNCHANGED copiesVars
    PROVE  EncodingInv'
<1>t. /\ FactsTypeOK /\ vault \in [Names -> Row] /\ es.rewritten \subseteq Mapped
      /\ VaultFits /\ SecretFits /\ CopyFits /\ FactsPlain
  BY DEF HubInv, IInv, KeyVaultTypeOK, CopiesTypeOK, ESState, EncodingInv
<1>e. es' = es /\ copy' = copy
  BY DEF copiesVars
<1>f. es'.rewritten \cap mapped = {}
  BY <1>t, <1>e DEF FactsPlain
<1>1. FactsPlain'
  BY <1>t, <1>f, FactsStayPlain
<1>2. UNCHANGED <<jobs, mapped, saved>>
  BY DEF FactsLists, FactsRun, FactsLeaves, FactsStops, FactsReadsKey, FactsReadsNetBox, FactsReads, FactsTags, FactsSets,
         FactsChecks, FactsEnds, FactsMakes, keyvaultVars, outside, Event
<1> DEFINE n == facts.name
<1>3. ASSUME facts.at \in {"tag", "set"}
      PROVE  n \in Names /\ facts.made[n].as = "plain" /\ Free(n)
  BY <1>3, <1>t, FactsAssumption DEF FactsPlain, FactsTypeOK, Free, Ahead
<1>4. \/ vault' = vault
      \/ facts.at = "set" /\ vault' = Put(n, facts.made[n], MarkOf(facts.made[n]))
      \/ facts.at = "tag" /\ vault' = [vault EXCEPT ![n].tag = MarkOf(facts.made[n])]
  BY DEF FactsLists, FactsRun, FactsLeaves, FactsStops, FactsReadsKey, FactsReadsNetBox, FactsReads, FactsTags, FactsSets,
         FactsChecks, FactsEnds, FactsMakes, keyvaultVars
<1> HIDE DEF n
<1>5. \A m \in Mapped : \/ vault'[m] = vault[m]
                        \/ (vault'[m].val = vault[m].val \/ Fits(m, vault'[m].val)) /\ Free(m)
  <2>1. CASE vault' = vault
    BY <2>1
  <2>2. CASE facts.at = "set" /\ vault' = Put(n, facts.made[n], MarkOf(facts.made[n]))
    <3>1. n \in Names /\ facts.made[n].as = "plain" /\ Free(n)
      BY <1>3, <2>2
    <3>2. Fits(n, facts.made[n])
      BY <3>1 DEF Fits
    <3> QED
      BY <1>t, <2>2, <3>1, <3>2, PutValue, CopiesAssumption
  <2>3. CASE facts.at = "tag" /\ vault' = [vault EXCEPT ![n].tag = MarkOf(facts.made[n])]
    <3>1. n \in Names /\ Free(n)
      BY <1>3, <2>3
    <3>2. \A m \in Names : m # n => vault'[m] = vault[m]
      BY <2>3, <1>t
    <3>3. vault'[n].val = vault[n].val
      BY <2>3, <3>1, <1>t DEF Row
    <3> QED
      BY <3>1, <3>2, <3>3, CopiesAssumption
  <2> QED
    BY <1>4, <2>1, <2>2, <2>3
<1>6. VaultFits' /\ SecretFits' /\ CopyFits'
  BY <1>t, <1>e, <1>2, <1>5, VaultStep
<1> QED
  BY <1>1, <1>6 DEF EncodingInv
\* Plain text fits anywhere.
LEMMA PlainFits == ASSUME NEW n, NEW v, v.as = "plain" PROVE Fits(n, v)
  BY DEF Fits

\* The owner, who gives a rewritten name plain text only, and nothing while
\* its template is not live or a copy of his is running.
LEMMA OwnerEncodes ==
    ASSUME HubInv, EncodingInv, OwnerStep
    PROVE  EncodingInv'
<1>t. /\ FactsTypeOK /\ vault \in [Names -> Row] /\ saved \in [Names -> Row]
      /\ es \in ESState /\ es.rewritten \subseteq Mapped
      /\ VaultFits /\ SecretFits /\ CopyFits /\ FactsPlain
  BY DEF HubInv, IInv, KeyVaultTypeOK, CopiesTypeOK, ESState, EncodingInv
<1>e. es'.encodes = es.encodes /\ es'.secret = es.secret /\ es'.rewritten = es.rewritten /\ copy' = copy
  BY <1>t DEF OwnerStep, CopiesNotices, ESState
<1>f. es'.rewritten \cap mapped = {} /\ mapped' = mapped /\ FactsMissed
  BY <1>t, <1>e DEF FactsPlain, OwnerStep
<1>1. FactsPlain'
  BY <1>t, <1>f, FactsStayPlain
<1>2. jobs' = jobs /\ mapped' = mapped /\ (saved' = saved \/ (saved' = vault /\ vault' = vault))
  BY <1>f DEF OwnerStep, OwnerEdits, Event, OwnerSets, OwnerRestores, OwnerDeletes, OwnerRecovers, OwnerDisables,
              OwnerExports, OwnerChangesKey
<1>3. ASSUME NEW m \in Mapped, m \notin es.rewritten
      PROVE  vault'[m] = vault[m] \/ vault'[m].val = vault[m].val \/ Fits(m, vault'[m].val)
  <2>1. m \in Names
    BY CopiesAssumption
  <2>2. ASSUME NEW n \in Names, OwnerSets(n)
        PROVE  vault'[m] = vault[m] \/ Fits(m, vault'[m].val)
    <3>1. PICK v \in OwnerValues[n] : vault' = Put(n, v, NoTag)
      BY <2>2 DEF OwnerSets
    <3>2. m = n => Fits(m, v)
      BY <3>1, <1>t, <1>3 DEF VaultFits
    <3> QED
      BY <3>1, <3>2, <2>1, <1>t, PutValue
  <2>3. ASSUME NEW n \in Names, OwnerRestores(n)
        PROVE  vault'[m] = vault[m] \/ Fits(m, vault'[m].val)
    <3>1. vault' = Put(n, saved[n].val, saved[n].tag)
      BY <2>3 DEF OwnerRestores
    <3>2. Fits(m, saved[m].val)
      BY <1>t, <1>3 DEF VaultFits
    <3> QED
      BY <3>1, <3>2, <2>1, <1>t, PutValue
  <2>4. ASSUME NEW n \in Names, OwnerDeletes(n) \/ OwnerRecovers(n) \/ OwnerDisables(n)
        PROVE  vault'[m].val = vault[m].val
    <3>1. PICK s \in {"held", "disabled", "deleted"} : vault' = [vault EXCEPT ![n].state = s]
      BY <2>4 DEF OwnerDeletes, OwnerRecovers, OwnerDisables
    <3> QED
      BY <3>1, <2>1, <1>t DEF Row
  <2>5. CASE UNCHANGED vault
    BY <2>5
  <2> QED
    BY <2>2, <2>3, <2>4, <2>5 DEF OwnerStep, OwnerEdits, OwnerExports, OwnerChangesKey
<1>4. \A m \in Mapped : \/ vault'[m] = vault[m]
                        \/ (vault'[m].val = vault[m].val \/ Fits(m, vault'[m].val)) /\ Free(m)
  <2> SUFFICES ASSUME NEW m \in Mapped, vault'[m] # vault[m]
               PROVE  (vault'[m].val = vault[m].val \/ Fits(m, vault'[m].val)) /\ Free(m)
    OBVIOUS
  <2>1. CASE m \in es.rewritten
    <3>1. copy.at = "idle" /\ m \in es.encodes /\ vault'[m].val.as = "plain"
      BY <2>1 DEF OwnerStep, OwnerIsCareful
    <3> QED
      BY <3>1, PlainFits DEF Free, Ahead
  <2>2. CASE m \notin es.rewritten
    BY <2>2, <1>3 DEF Free, Ahead
  <2> QED
    BY <2>1, <2>2
<1>6. VaultFits' /\ SecretFits' /\ CopyFits'
  BY <1>t, <1>e, <1>2, <1>4, VaultStep
<1> QED
  BY <1>1, <1>6 DEF EncodingInv

\* A copy's writes fit, under names that are free.
LEMMA CopyWritesFit ==
    ASSUME HubInv, EncodingInv, mapped' = mapped,
           (\E n \in Names : CopyWrites(n)) \/ CopyStops \/ CopyEnds
    PROVE  VaultFits' /\ SecretFits' /\ CopyFits'
<1>t. /\ vault \in [Names -> Row] /\ copy \in CopyRun /\ es.rewritten \subseteq Mapped
      /\ VaultFits /\ SecretFits /\ CopyFits
  BY DEF HubInv, IInv, KeyVaultTypeOK, CopiesTypeOK, ESState, EncodingInv
<1>r. CopyResting.at = "idle" /\ CopyResting.write = {}
  BY DEF CopyResting
<1>1. /\ jobs' = jobs /\ saved' = saved /\ es' = es
      /\ \/ vault' = vault
         \/ copy.at \in {"write", "add"} /\ \E n \in copy.write : vault' = Put(n, copy.source[n], NoTag)
  BY DEF CopyWrites, CopyStops, CopyEnds, Event, outside, keyvaultVars
<1>2. \/ copy'.at = "idle" /\ copy'.write = {}
      \/ /\ copy'.at = copy.at /\ copy.at \in {"write", "add"} /\ copy'.write \subseteq copy.write
         /\ copy'.source = copy.source /\ copy'.encodes = copy.encodes
  BY <1>r, <1>t DEF CopyWrites, CopyStops, CopyEnds, CopyRun
<1>3. \A m \in Mapped : \/ vault'[m] = vault[m]
                        \/ (vault'[m].val = vault[m].val \/ Fits(m, vault'[m].val)) /\ Free(m)
  <2>1. CASE vault' = vault
    BY <2>1
  <2>2. CASE copy.at \in {"write", "add"} /\ \E n \in copy.write : vault' = Put(n, copy.source[n], NoTag)
    <3>1. PICK n \in copy.write : vault' = Put(n, copy.source[n], NoTag)
      BY <2>2
    <3>2. n \in Names /\ Mapped \subseteq Names
      BY <1>t, CopiesAssumption DEF CopyRun
    <3>3. n \in Mapped => Fits(n, copy.source[n]) /\ Free(n)
      BY <2>2, <1>t DEF CopyFits, Free
    <3> QED
      BY <3>1, <3>2, <3>3, <1>t, PutValue
  <2> QED
    BY <1>1, <2>1, <2>2
<1> QED
  BY <1>t, <1>1, <1>2, <1>3, VaultStep
\* The other steps of a copy: it knows the templates live when it read them,
\* and takes the Secret's values of them.
LEMMA CopyLooksFit ==
    ASSUME HubInv, EncodingInv, mapped' = mapped,
           CopyReadsTemplate \/ CopyReadsSecret \/ DockhandLooks \/ \E n \in Names : CopyLooks(n)
    PROVE  VaultFits' /\ SecretFits' /\ CopyFits'
<1>t. /\ vault \in [Names -> Row] /\ copy \in CopyRun /\ es \in ESState /\ es.rewritten \subseteq Mapped
      /\ VaultFits /\ SecretFits /\ CopyFits /\ Mapped \subseteq Names
  BY CopiesAssumption DEF HubInv, IInv, KeyVaultTypeOK, CopiesTypeOK, ESState, EncodingInv
<1>1. vault' = vault /\ jobs' = jobs /\ saved' = saved /\ es' = es /\ mapped' = mapped
  BY DEF CopyReadsTemplate, CopyReadsSecret, DockhandLooks, CopyLooks, Event, outside, keyvaultVars
<1>2. VaultFits' /\ SecretFits'
  BY <1>t, <1>1 DEF VaultFits, SecretFits, Fits, Ahead, Tied, Held
<1>r. CopyResting.at = "idle" /\ CopyResting.write = {}
  BY DEF CopyResting
<1>3. CASE copy' = CopyResting
  BY <1>2, <1>3, <1>r DEF CopyFits
<1>4. CASE CopyReadsTemplate
  <2>1. copy'.at = "secret" /\ copy'.encodes = es.encodes /\ copy'.write = {}
    BY <1>4 DEF CopyReadsTemplate, CopyResting
  <2>2. \A n \in Ahead(es.encodes) : Tied(n, es.secret[n])
    BY <1>t DEF SecretFits
  <2>3. \A n \in Ahead(es.encodes) : Tied(n, es.secret[n])'
    BY <2>2, <1>1 DEF Tied, Held
  <2>4. CopyFits'
    BY <1>1, <2>1, <2>3 DEF CopyFits, Ahead
  <2> QED
    BY <1>2, <2>4
<1>5. CASE CopyReadsSecret /\ copy' # CopyResting
  <2> DEFINE source == [n \in Names |-> IF n \notin Mapped THEN Missing
                          ELSE IF n \in copy.encodes THEN Decoded(es.secret[n]) ELSE es.secret[n]]
  <2>1. copy.at = "secret" /\ copy' = [copy EXCEPT !.at = "look", !.todo = Mapped, !.source = source]
    BY <1>5 DEF CopyReadsSecret
  <2>2. /\ copy'.at = "look" /\ copy'.source = source /\ copy'.encodes = copy.encodes /\ copy'.write = {}
    <3> HIDE DEF source
    <3>1. copy.write = {}
      BY <2>1 DEF HubInv, CopiesTypeOK
    <3> QED
      BY <2>1, <3>1, <1>t DEF CopyRun
  <2>3. copy.encodes \subseteq es.encodes /\ es.encodes \subseteq copy.encodes \cup es.rewritten
    BY <2>1, <1>t DEF CopyFits
  <2>4. ASSUME NEW n \in Mapped
        PROVE  IF n \in Ahead(copy.encodes) THEN Tied(n, source[n]) ELSE Fits(n, source[n])
    <3>1. es.secret[n] \in Value /\ es.secret[n].as # "twice"
      BY <1>t DEF ESState, SecretFits
    <3>2. CASE n \in copy.encodes
      <4>1. source[n] = Decoded(es.secret[n])
        BY <3>2, <1>t
      <4>2. source[n].as = "plain"
        BY <4>1, <3>1, Codec
      <4> QED
        BY <4>2, <3>2, PlainFits DEF Ahead
    <3>3. CASE n \notin copy.encodes
      <4>1. source[n] = es.secret[n]
        BY <3>3, <1>t
      <4>2. n \in Ahead(copy.encodes) => Tied(n, es.secret[n])
        BY <2>1, <1>t DEF CopyFits
      <4>3. n \notin Ahead(copy.encodes) => Fits(n, es.secret[n])
        BY <2>3, <3>3, <1>t DEF SecretFits, Ahead
      <4> QED
        BY <4>1, <4>2, <4>3
    <3> QED
      BY <3>2, <3>3
  <2> HIDE DEF source
  <2>5. CopyFits'
    BY <1>1, <2>2, <2>3, <2>4 DEF CopyFits, Ahead, Tied, Fits, Held
  <2> QED
    BY <1>2, <2>5
<1>6. ASSUME NEW n \in Names, CopyLooks(n), copy' # CopyResting PROVE CopyFits'
  <2> DEFINE write == IF CopyState(n) = "write" THEN copy.write \cup {n} ELSE copy.write
             at == IF copy.todo = {n} THEN "write" ELSE "look"
  <2>1. /\ copy.at = "look" /\ n \in copy.todo
        /\ copy' = [copy EXCEPT !.todo = @ \ {n}, !.write = write, !.at = at]
    BY <1>6, <1>t DEF CopyLooks, CopyRun
  <2>2. n \in Mapped
    BY <2>1, <1>t DEF CopyRun
  <2>3. copy'.write = write /\ copy'.at = at /\ copy'.source = copy.source /\ copy'.encodes = copy.encodes
    <3> HIDE DEF write, at
    <3> QED
      BY <2>1, <1>t DEF CopyRun
  <2>4. CopyState(n) = "write" =>
          /\ Fits(n, copy.source[n]) /\ n \notin Ahead(es.encodes) /\ n \notin Ahead(copy.encodes)
    <3>1. CASE n \in Ahead(copy.encodes)
      <4>1. Tied(n, copy.source[n]) /\ n \notin copy.encodes /\ vault[n].val \in Value
        BY <2>1, <2>2, <3>1, <1>t DEF CopyFits, Ahead, Row
      <4>2. CASE copy.source[n] = vault[n].val
        BY <4>1, <4>2 DEF CopyState, Tied
      <4>3. CASE copy.source[n] = Encoded(vault[n].val)
        <5>1. Decodes(copy.source[n]) /\ Decoded(copy.source[n]) = vault[n].val
          BY <4>1, <4>3, Codec DEF Tied
        <5> QED
          BY <4>1, <5>1 DEF CopyState, Tied
      <4> QED
        BY <4>1, <4>2, <4>3 DEF Tied
    <3>2. CASE n \notin Ahead(copy.encodes)
      <4>1. Fits(n, copy.source[n])
        BY <2>1, <2>2, <3>2, <1>t DEF CopyFits
      <4>2. copy.encodes \subseteq es.encodes
        BY <2>1, <1>t DEF CopyFits
      <4> QED
        BY <3>2, <4>1, <4>2 DEF Ahead
    <3> QED
      BY <3>1, <3>2
  <2>5. \A m \in write \cap Mapped :
          Fits(m, copy.source[m]) /\ m \notin Ahead(es.encodes) /\ m \notin Ahead(copy.encodes)
    BY <2>1, <2>4, <1>t DEF CopyFits
  <2>6. \A m \in Ahead(copy.encodes) : Held(m) /\ vault[m].val.as = "plain"
    BY <2>1, <1>t DEF CopyFits, Tied, Ahead
  <2>7. at \in {"write", "look"}
    OBVIOUS
  <2> HIDE DEF write, at
  <2>8. /\ copy.encodes \subseteq es.encodes /\ es.encodes \subseteq copy.encodes \cup es.rewritten
        /\ \A m \in Mapped : IF m \in Ahead(copy.encodes) THEN Tied(m, copy.source[m]) ELSE Fits(m, copy.source[m])
    BY <2>1, <1>t DEF CopyFits
  <2> QED
    BY <1>1, <2>3, <2>5, <2>6, <2>7, <2>8 DEF CopyFits, Ahead, Tied, Fits, Held
<1>7. CASE DockhandLooks
  <2>1. /\ copy'.at = "add" /\ copy'.write = {n \in Exported : ~Held(n)}
        /\ copy'.source = [n \in Names |-> IF n \in Exported THEN Export[n] ELSE Missing]
    BY <1>7 DEF DockhandLooks, CopyResting
  <2>2. \A n \in Ahead(es.encodes) : Held(n)
    BY <1>t DEF SecretFits, Tied
  <2>3. \A n \in copy'.write \cap Mapped : copy'.source[n].as = "plain" /\ n \notin Ahead(es.encodes)
    BY <2>1, <2>2, <1>t, HubAssumption
  <2>4. \A n \in copy'.write \cap Mapped : Fits(n, copy'.source[n])
    BY <2>3, PlainFits
  <2>5. CopyFits'
    BY <1>1, <2>1, <2>3, <2>4 DEF CopyFits, Ahead, Fits
  <2> QED
    BY <1>2, <2>5
<1> QED
  BY <1>2, <1>3, <1>4, <1>5, <1>6, <1>7
\* A refresh renders what Key Vault holds.
LEMMA RefreshEncodes ==
    ASSUME HubInv, EncodingInv, ESRefresh, mapped' = mapped
    PROVE  VaultFits' /\ SecretFits' /\ CopyFits'
<1>t. /\ vault \in [Names -> Row] /\ es \in ESState /\ es.rewritten \subseteq Mapped
      /\ VaultFits /\ SecretFits /\ CopyFits /\ Mapped \subseteq Names
  BY CopiesAssumption DEF HubInv, IInv, KeyVaultTypeOK, CopiesTypeOK, ESState, EncodingInv
<1>1. /\ vault' = vault /\ jobs' = jobs /\ saved' = saved /\ copy' = copy
      /\ es'.encodes = es.encodes /\ es'.rewritten = es.rewritten
      /\ es'.secret = es.secret \/ es'.secret = Rendered(es.encodes)
  BY <1>t DEF ESRefresh, ESState, keyvaultVars, outside
<1>2. ASSUME NEW n \in Mapped
      PROVE  /\ Rendered(es.encodes)[n].as # "twice"
             /\ n \notin es.encodes => Fits(n, Rendered(es.encodes)[n])
             /\ vault[n].val.as = "plain" => Rendered(es.encodes)[n] \in {vault[n].val, Encoded(vault[n].val)}
  <2>1. vault[n].val \in Value /\ Fits(n, vault[n].val)
    BY <1>t DEF Row, VaultFits
  <2>2. Rendered(es.encodes)[n] = IF n \in es.encodes THEN Encoded(vault[n].val) ELSE vault[n].val
    BY DEF Rendered
  <2>3. n \in es.encodes => Encoded(vault[n].val).as = "base64"
    BY <2>1, Codec DEF Fits
  <2> QED
    BY <2>1, <2>2, <2>3 DEF Fits
<1>3. VaultFits'
  BY <1>t, <1>1 DEF VaultFits, Fits
<1>4. \A n \in Ahead(es.encodes) : Tied(n, es'.secret[n])
  BY <1>t, <1>1, <1>2 DEF SecretFits, Tied, Ahead
<1>5. SecretFits'
  <2>1. \A n \in Mapped : es'.secret[n].as # "twice" /\ (n \notin es.encodes => Fits(n, es'.secret[n]))
    BY <1>t, <1>1, <1>2 DEF SecretFits
  <2> QED
    BY <1>1, <1>4, <2>1 DEF SecretFits, Tied, Fits, Ahead, Held
<1>6. CopyFits'
  <2>1. copy.at = "secret" => \A n \in Ahead(copy.encodes) : Tied(n, es'.secret[n])
    BY <1>t, <1>1, <1>2 DEF CopyFits, Tied, Ahead
  <2> QED
    BY <1>t, <1>1, <2>1 DEF CopyFits, Tied, Fits, Ahead, Held
<1> QED
  BY <1>3, <1>5, <1>6

\* The owner's rewriting: the Secret holds the base64 of the new value.
LEMMA RewriteEncodes ==
    ASSUME HubInv, EncodingInv, "copy" \in jobs, NEW n \in Names, OwnerRewrites(n), mapped' = mapped
    PROVE  /\ VaultFits' /\ SecretFits' /\ CopyFits'
           /\ es'.rewritten \cap mapped = {}
<1>t. /\ vault \in [Names -> Row] /\ es \in ESState /\ es.rewritten \subseteq Mapped
      /\ VaultFits /\ SecretFits /\ CopyFits /\ FactsPlain /\ Mapped \subseteq Names
  BY CopiesAssumption DEF HubInv, IInv, KeyVaultTypeOK, CopiesTypeOK, ESState, EncodingInv
<1>1. /\ n \in Mapped /\ n \notin es.encodes /\ n \notin es.rewritten
      /\ copy.at = "idle" /\ copy' = copy /\ jobs' = jobs /\ saved' = saved
      /\ Held(n) /\ vault[n].val = es.secret[n] /\ vault[n].val.as = "base64"
      /\ vault' = Put(n, Decoded(vault[n].val), NoTag)
  BY DEF OwnerRewrites, Event
<1>2. es'.encodes = es.encodes /\ es'.secret = es.secret /\ es'.rewritten = es.rewritten \cup {n}
  BY <1>t DEF OwnerRewrites, ESState
<1>3. vault[n].val \in Value
  BY <1>t DEF Row
<1>4. Decoded(vault[n].val).as = "plain" /\ Encoded(Decoded(vault[n].val)) = es.secret[n]
  BY <1>1, <1>3, Codec
<1>5. /\ \A m \in Names \ {n} : vault'[m] = vault[m]
      /\ vault'[n].state = "held" /\ vault'[n].val = Decoded(vault[n].val)
  BY <1>1, <1>t, PutValue DEF Held
<1>6. n \notin mapped
  BY <1>1, <1>t DEF VaultFits, Fits
<1>7. VaultFits'
  <2>1. \A m \in Mapped \ {n} : Fits(m, vault'[m].val)
    BY <1>5, <1>t DEF VaultFits
  <2>2. Fits(n, vault'[n].val)
    BY <1>4, <1>5, PlainFits
  <2>3. \A m \in Mapped : Fits(m, vault'[m].val)
    BY <2>1, <2>2
  <2> QED
    BY <1>1, <1>2, <2>3, <1>t DEF VaultFits, Fits
<1>8. SecretFits'
  <2>1. \A m \in Ahead(es.encodes) : /\ vault'[m].state = "held" /\ vault'[m].val.as = "plain"
                                     /\ es.secret[m] \in {vault'[m].val, Encoded(vault'[m].val)}
    BY <1>1, <1>5, <1>t DEF SecretFits, Tied, Ahead, Held
  <2>2. /\ vault'[n].state = "held" /\ vault'[n].val.as = "plain"
        /\ es.secret[n] \in {vault'[n].val, Encoded(vault'[n].val)}
    BY <1>4, <1>5
  <2> QED
    BY <1>1, <1>2, <2>1, <2>2, <1>t DEF SecretFits, Tied, Fits, Ahead, Held
<1>9. CopyFits'
  <2>1. copy.write = {}
    BY <1>1, <1>t DEF CopyFits
  <2> QED
    BY <1>1, <1>2, <2>1, <1>t DEF CopyFits, Fits, Ahead
<1> QED
  BY <1>2, <1>6, <1>7, <1>8, <1>9, <1>t DEF FactsPlain
\* The template of a rewritten name goes live: the Secret rendered from it
\* will be what it was.
LEMMA TemplateEncodes ==
    ASSUME HubInv, EncodingInv, NEW n \in Names, TemplateGoesLive(n), mapped' = mapped
    PROVE  VaultFits' /\ SecretFits' /\ CopyFits'
<1>t. /\ es \in ESState /\ es.rewritten \subseteq Mapped
      /\ VaultFits /\ SecretFits /\ CopyFits /\ FactsPlain
  BY DEF HubInv, IInv, KeyVaultTypeOK, CopiesTypeOK, ESState, EncodingInv
<1>1. /\ vault' = vault /\ jobs' = jobs /\ saved' = saved /\ copy' = copy
      /\ n \in es.rewritten /\ n \notin es.encodes /\ vault[n].val.as = "plain"
      /\ es'.secret = es.secret /\ es'.rewritten = es.rewritten /\ es'.encodes = es.encodes \cup {n}
  BY <1>t DEF TemplateGoesLive, Event, ESState
<1>2. VaultFits'
  <2>1. \A m \in Mapped : vault[m].val.as # "base64" \/ ~("copy" \in jobs /\ m \in mapped)
    BY <1>t DEF VaultFits, Fits
  <2> QED
    BY <1>1, <1>t DEF VaultFits, Fits
<1>3. SecretFits'
  BY <1>1, <1>t DEF SecretFits, Fits, Ahead, Tied, Held
<1>4. CopyFits'
  <2>1. copy.at \in {"secret", "look", "write"} => copy.encodes \subseteq es.encodes
    BY <1>t DEF CopyFits
  <2>2. copy.at \in {"secret", "look", "write"} => n \in Ahead(copy.encodes)
    BY <1>1, <2>1 DEF Ahead
  <2>3. n \notin copy.write
    BY <1>1, <1>t DEF CopyFits, Ahead
  <2> QED
    BY <1>1, <2>2, <2>3, <1>t DEF CopyFits, Fits, Ahead, Tied, Held
<1> QED
  BY <1>2, <1>3, <1>4

LEMMA EncodesInitially == Init => EncodingInv
<1> SUFFICES ASSUME Init PROVE EncodingInv
  OBVIOUS
<1>t. HubInv /\ vault \in [Names -> Row] /\ Mapped \subseteq Names
  BY HubInitially, CopiesAssumption DEF HubInv, IInv, KeyVaultTypeOK
<1>1. PICK s \in Starts : /\ s.jobs = jobs /\ s.vault = vault
                          /\ es = [encodes |-> s.encodes, hold |-> s.hold, due |-> FALSE, ready |-> TRUE,
                                   secret |-> Rendered(s.encodes), rewritten |-> {}]
  BY DEF Init, CopiesInit
<1>2. PICK f \in Starts : f.jobs = jobs /\ f.vault = vault /\ mapped = f.mapped
  BY DEF Init, FactsInit
<1>3. facts = FactsResting /\ copy = CopyResting /\ saved = vault
  BY DEF Init, FactsInit, CopiesInit, KeyVaultInit
<1>4. es.encodes = s.encodes /\ es.rewritten = {} /\ es.secret = Rendered(s.encodes)
  BY <1>1
<1>5. \A n \in Mapped : Fits(n, vault[n].val) /\ \A v \in OwnerValues[n] : Fits(n, v)
  BY <1>1, <1>2, <1>4, HubAssumption DEF Fits
<1>6. VaultFits
  BY <1>3, <1>5 DEF VaultFits
<1>7. SecretFits
  <2> SUFFICES ASSUME NEW n \in Mapped
               PROVE  es.secret[n].as # "twice" /\ (n \notin es.encodes => Fits(n, es.secret[n]))
    BY <1>4 DEF SecretFits, Ahead
  <2>1. vault[n].val \in Value /\ Fits(n, vault[n].val)
    BY <1>5, <1>t DEF Row
  <2>2. es.secret[n] = IF n \in es.encodes THEN Encoded(vault[n].val) ELSE vault[n].val
    BY <1>4 DEF Rendered
  <2>3. n \in es.encodes => Encoded(vault[n].val).as = "base64"
    BY <2>1, Codec DEF Fits
  <2> QED
    BY <2>1, <2>2, <2>3 DEF Fits
<1>8. FactsPlain
  BY <1>3, <1>4 DEF FactsPlain, FactsResting
<1>9. CopyFits
  BY <1>3 DEF CopyFits, CopyResting
<1> QED
  BY <1>6, <1>7, <1>8, <1>9 DEF EncodingInv

LEMMA EncodesStep == HubInv /\ EncodingInv /\ [Next]_vars => EncodingInv'
<1> SUFFICES ASSUME HubInv, EncodingInv, [Next]_vars PROVE EncodingInv'
  OBVIOUS
<1>t. FactsTypeOK /\ FactsPlain /\ VaultFits /\ SecretFits /\ CopyFits
  BY DEF HubInv, IInv, EncodingInv
<1>1. CASE FactsStep
  BY <1>1, FactsEncode DEF FactsStep
<1>2. CASE UNCHANGED <<vault, saved, jobs, mapped, copiesVars>> /\ UNCHANGED facts
  BY <1>2, <1>t DEF copiesVars, EncodingInv, VaultFits, SecretFits, CopyFits, FactsPlain, Fits, Ahead, Tied, Held
<1>3. CASE OwnerStep
  BY <1>3, OwnerEncodes
<1>4. CASE CopiesStep
  <2>1. mapped' = mapped /\ FactsMissed
    BY <1>4 DEF CopiesStep
  <2>2. ASSUME es'.rewritten = es.rewritten \/ es'.rewritten \cap mapped = {}
        PROVE  FactsPlain'
    <3>1. es'.rewritten \cap mapped = {}
      BY <1>t, <2>2 DEF FactsPlain
    <3> QED
      BY <1>t, <2>1, <3>1, FactsStayPlain
  <2>3. es \in ESState
    BY DEF HubInv, CopiesTypeOK
  <2>4. CASE ESRefresh
    <3>1. es'.rewritten = es.rewritten
      BY <2>3, <2>4 DEF ESRefresh, ESState
    <3> QED
      BY <2>1, <2>2, <2>4, <3>1, RefreshEncodes DEF EncodingInv
  <2>5. CASE "copy" \in jobs /\ \E n \in Names : OwnerRewrites(n)
    BY <2>1, <2>2, <2>5, RewriteEncodes DEF EncodingInv
  <2>6. CASE \E n \in Names : TemplateGoesLive(n)
    <3>1. es'.rewritten = es.rewritten
      BY <2>3, <2>6 DEF TemplateGoesLive, ESState
    <3> QED
      BY <2>1, <2>2, <2>6, <3>1, TemplateEncodes DEF EncodingInv
  <2>7. CASE CopyReadsTemplate \/ CopyReadsSecret \/ DockhandLooks \/ \E n \in Names : CopyLooks(n)
    <3>1. es' = es
      BY <2>7 DEF CopyReadsTemplate, CopyReadsSecret, DockhandLooks, CopyLooks
    <3> QED
      BY <2>1, <2>2, <2>7, <3>1, CopyLooksFit DEF EncodingInv
  <2>8. CASE (\E n \in Names : CopyWrites(n)) \/ CopyStops \/ CopyEnds
    <3>1. es' = es
      BY <2>8 DEF CopyWrites, CopyStops, CopyEnds
    <3> QED
      BY <2>1, <2>2, <2>8, <3>1, CopyWritesFit DEF EncodingInv
  <2> QED
    BY <1>4, <2>4, <2>5, <2>6, <2>7, <2>8 DEF CopiesStep, CopiesRun
<1> QED
  BY <1>1, <1>2, <1>3, <1>4
  DEF Next, NetBoxStep, NetBoxChanges, GroupsDaily, GroupsByHand, GroupsStarts, GroupsStep, GroupsRun, GroupsTakes,
      GroupsReads, GroupsLeaves, GroupsWrites, GroupsEnds, GroupsCallFails, GroupsStops, UserEditsGroup,
      Event, vars, keyvaultVars, factsVars, outside

\* The Secret never holds a value encoded twice, whatever copies run, facts
\* are written and calls fail while the owner rewrites values to plain
\* (keyvault_copy.py:300-305).
THEOREM NoneEncodedTwice == Spec => []NeverEncodedTwice
<1>1. EncodingInv => NeverEncodedTwice
  BY DEF EncodingInv, SecretFits, NeverEncodedTwice
<1> QED
  BY <1>1, EncodesInitially, EncodesStep, HubInitially, HubStep, PTL DEF Spec
=============================================================================
