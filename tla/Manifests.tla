------------------------------ MODULE Manifests ------------------------------
(***************************************************************************)
(* scripts/k8s_backup: what capture writes into a file.  An object of the  *)
(* cluster is cleaned of what the cluster put there (neat.py), stripped of *)
(* what looks like a credential (secretscan.py), its private values become *)
(* ${NAME} (varsub.py), and a promoted one is made ready to be applied by  *)
(* Flux, on this cluster or a new one (promote.py).                        *)
(*                                                                         *)
(* A text is a sequence of words; ${NAME} and $${NAME} are words of their  *)
(* own, so a placeholder holds no other text, and a literal is a sequence  *)
(* of words: one can be part of another, as a domain is of an address.  An *)
(* object is its kind, its strings (leaves, each under a key and perhaps   *)
(* in a list of named entries) and the fields a cluster fills in.          *)
(***************************************************************************)
EXTENDS Naturals, Sequences, FiniteSets

CONSTANTS
    Credentials,    \* words that are a credential wherever they stand
    Entropic,       \* words that alone look like a random secret
    Binary,         \* words of a Secret that are no text
    Suspicious,     \* keys that speak of a password
    Safe,           \* those of them that only name or locate one
    ClusterSecrets, \* [name -> text]: what cluster-secrets holds
    Settings,       \* [name -> text]: cluster-settings
    LocalFile,      \* entries of the older, local file: [name, literal, replace]
    Identities,     \* sequence of [literal, base]: account mails, NFS servers
    Ingresses,      \* sequence of the Ingresses' hosts; a word is a label
    Clusters        \* what the labels of a namespace are worked out from

\* Words.  A name is <<base, n>>, for BASE and BASE_2, BASE_3 ...
Word(v) == <<"word", v, 0>>
Base64(v) == <<"base64", v, 0>>
Ref(name) == <<"${}", name[1], name[2]>>
Escaped(name) == <<"$${}", name[1], name[2]>>
IsRef(w) == w[1] = "${}"
NameIn(w) == <<w[2], w[3]>>
Encoded(w) == IF w[1] = "word" THEN Base64(w[2]) ELSE <<"base64 of base64", w[2], 0>>
Redacted_ == <<"REDACTED", "", 0>>

Occurs(lit, text) ==
    \E i \in 1..Len(text) + 1 - Len(lit) : SubSeq(text, i, i + Len(lit) - 1) = lit

Absent == ""
Fields == {"runtime", "fluxLabel", "finalizers", "bookkeeping", "restartedAt", "clusterIP",
           "nodePort", "volume", "prune"}
Dynamic == {"pvc-1"}   \* volumes a provisioner named
NoFile == [kind |-> "none", leaves |-> <<>>, fields |-> [x \in Fields |-> Absent]]

OnLeaves(o, F(_)) == [o EXCEPT !.leaves = [i \in DOMAIN @ |-> F(@[i])]]
OnTexts(o, F(_)) ==
    LET G(l) == [l EXCEPT !.text = F(l.text)] IN OnLeaves(o, G)
Drop(o, xs) == [o EXCEPT !.fields = [x \in Fields |-> IF x \in xs THEN Absent ELSE @[x]]]
Set(o, x, v) == [o EXCEPT !.fields[x] = v]

-----------------------------------------------------------------------------
(* neat.py, secretscan.py                                                  *)

Neat(o) == Drop(o, {"runtime", "fluxLabel"})

LooksLikeCredential(text) ==
    \/ \E i \in 1..Len(text) : text[i] \in {Word(v) : v \in Credentials}
    \/ \E v \in Entropic : text = <<Word(v)>>

SuspiciousKey(k) == k \in Suspicious \ Safe

NotACredential == {<<>>, <<Word("false")>>, <<Word("true")>>}

Flagged(l) ==
    \/ LooksLikeCredential(l.text)
    \/ l.key = "value" /\ SuspiciousKey(l.env) /\ l.text \notin NotACredential
    \/ SuspiciousKey(l.key) /\ l.text # <<>>

RedactLeaf(l) ==
    IF Flagged(l) THEN [l EXCEPT !.text = <<Redacted_>>] ELSE l

RedactCredentials(o) == OnLeaves(o, RedactLeaf)
NeedsRedaction(o) == \E i \in DOMAIN o.leaves : Flagged(o.leaves[i])

-----------------------------------------------------------------------------
(* varsub.py                                                               *)

\* Every private value that is not empty is searched for, no setting is.
FromLive ==
    {[name |-> n, literal |-> ClusterSecrets[n], replace |-> ClusterSecrets[n] # <<>>,
      secretData |-> FALSE] : n \in DOMAIN ClusterSecrets}
    \cup {[name |-> n, literal |-> Settings[n], replace |-> FALSE, secretData |-> FALSE] :
             n \in DOMAIN Settings}

\* A cluster without cluster-secrets: the local file, but for an entry with
\* nothing to search for.
LoadSubstitutions ==
    {[name |-> e.name, literal |-> e.literal, replace |-> e.replace, secretData |-> FALSE] :
        e \in {raw \in LocalFile : raw.replace => raw.literal # <<>>}}

\* What is loaded, and what Flux then knows.
Loads == {FromLive, LoadSubstitutions}

RegistrableDomain(host) == IF Len(host) < 2 THEN host ELSE SubSeq(host, Len(host) - 1, Len(host))

\* A domain two hosts have, in the order they are found.
DominantDomains ==
    LET Domain(i) == RegistrableDomain(Ingresses[i])
        Dominant(i) ==
            /\ \A j \in 1..i - 1 : Domain(j) # Domain(i)
            /\ \E j \in i..Len(Ingresses) : Domain(j) = Domain(i) /\ Ingresses[j] # Ingresses[i]
        found == SelectSeq([i \in DOMAIN Ingresses |-> i], Dominant)
    IN [i \in DOMAIN found |-> [literal |-> Domain(found[i]), base |-> "BASE_DOMAIN"]]

Candidates == Identities \o DominantDomains

NextPlaceholder(base, taken) ==
    CHOOSE name \in {base} \X (1..Cardinality(taken) + 1) :
        /\ name \notin taken
        /\ \A i \in 1..name[2] - 1 : <<base, i>> \in taken

\* What is found and not known yet gets a free name each, in turn.
AutoSeedCandidates(live) ==
    LET seeded[i \in 0..Len(Candidates)] ==
            IF i = 0 THEN {}
            ELSE LET found == seeded[i - 1]
                     taken == live \cup found
                     new == Candidates[i] IN
                 IF new.literal \in {e.literal : e \in taken} THEN found
                 ELSE found \cup
                        {[name |-> NextPlaceholder(new.base, {e.name : e \in taken}),
                          literal |-> new.literal, replace |-> TRUE, secretData |-> FALSE]}
    IN seeded[Len(Candidates)]

Replaced(text, lit, by) ==
    LET from[i \in 1..Len(text) + 1] ==
            IF i > Len(text) THEN <<>>
            ELSE IF i + Len(lit) <= Len(text) + 1 /\ SubSeq(text, i, i + Len(lit) - 1) = lit
                 THEN <<by>> \o from[i + Len(lit)]
                 ELSE <<text[i]>> \o from[i + 1]
    IN from[1]

\* The longest literal first: an address before the domain in it.
ApplySubstitutions(text, entries) ==
    LET done[es \in SUBSET entries] ==
            IF es = {} THEN text
            ELSE LET e == CHOOSE x \in es : \A y \in es : Len(y.literal) >= Len(x.literal) IN
                 Replaced(done[es \ {e}], e.literal, Ref(e.name))
    IN done[entries]

Substitute(o, entries) ==
    LET F(text) == ApplySubstitutions(text, {e \in entries : e.replace}) IN OnTexts(o, F)

\* What the operator is told to add to Key Vault, and whether with a template
\* entry that encodes it: a Secret's value is held plain there.
PendingRow(e) ==
    IF e.secretData /\ e.literal[1][2] \notin Binary
    THEN [name |-> e.name, value |-> <<Word(e.literal[1][2])>>, template |-> TRUE]
    ELSE [name |-> e.name, value |-> e.literal, template |-> FALSE]

-----------------------------------------------------------------------------
(* promote.py                                                              *)

PruneDisabledKinds == {"PersistentVolumeClaim", "Cluster", "Secret"}
Templated == {"Deployment"}   \* kinds with a pod template

\* What the cluster assigned, and would break or pin a rebuild.  A headless
\* Service's address and a static volume's name are declared.
CleanForGitops(o) ==
    LET assigned ==
            {"finalizers", "bookkeeping"}
            \cup {x \in {"nodePort", "clusterIP"} : o.kind = "Service" /\ o.fields[x] # "None"}
            \cup {x \in {"volume"} : o.kind = "PersistentVolumeClaim" /\ o.fields[x] \in Dynamic}
    IN IF o.kind \in PruneDisabledKinds THEN Set(Drop(o, assigned), "prune", "disabled")
       ELSE Drop(o, assigned)

\* A restart's mark is as git has it, or absent as there.
FreezeRestartedAt(o, previous) ==
    IF previous.kind # o.kind \/ o.kind \notin Templated THEN o
    ELSE Set(o, "restartedAt", previous.fields["restartedAt"])

EscapeForeignVariables_OnlyLive(o, names) ==
    LET F(text) == [i \in DOMAIN text |->
                      IF IsRef(text[i]) /\ NameIn(text[i]) \notin {e.name : e \in UNION Loads}
                      THEN Escaped(NameIn(text[i])) ELSE text[i]]
    IN OnTexts(o, F)
EscapeForeignVariables(o, names) ==
    LET F(text) == [i \in DOMAIN text |->
                      IF IsRef(text[i]) /\ NameIn(text[i]) \notin names
                      THEN Escaped(NameIn(text[i])) ELSE text[i]]
    IN OnTexts(o, F)

SecretPlaceholder(l) == <<l.key, 1>>

\* A Secret's values: each that is not empty is a variable.
TemplatedSecret(o) ==
    LET F(l) == IF l.text = <<>> THEN l ELSE [l EXCEPT !.text = <<Ref(SecretPlaceholder(l))>>]
    IN Set(Drop(OnLeaves(o, F), {"finalizers"}), "prune", "disabled")

\* The values of a promoted Secret that are not among the live ones.
PendingSecrets(o, live) ==
    {e \in {[name |-> SecretPlaceholder(l), literal |-> l.text, replace |-> TRUE,
             secretData |-> TRUE] : l \in {o.leaves[i] : i \in DOMAIN o.leaves}} :
        /\ e.literal # <<>>
        /\ ~\E row \in live : row.name = e.name /\ row.literal = e.literal}

-----------------------------------------------------------------------------
(* capture.py                                                              *)

\* What a run replaces, where the promoted namespace's Secret is s: the live
\* values, and at once those still to be added to Key Vault.
Substitutions_OnlyLive(s, live) == live
Substitutions(s, live) == live \cup AutoSeedCandidates(live) \cup PendingSecrets(s, live)

NeatAndRedact(o, entries) == Substitute(RedactCredentials(Neat(o)), entries)

\* An object's manifest in a promoted folder.
PromotedFile(o, previous, entries) ==
    EscapeForeignVariables(
        IF o.kind = "Secret" THEN TemplatedSecret(Neat(o))
        ELSE FreezeRestartedAt(CleanForGitops(NeatAndRedact(o, entries)), previous),
        {e.name : e \in entries})

-----------------------------------------------------------------------------
(* derived.py: what a namespace.yaml says of the cluster, a record of the  *)
(* namespaces with claims and with databases, and the Ingresses, each      *)
(* [ns, class, hosts].                                                     *)

DataClass(n, c) ==
    IF n \in c.databases THEN "database" ELSE IF n \in c.claims THEN "files" ELSE "stateless"

\* An Ingress of the internet may lend its host to one elsewhere.
Exposure(n, c) ==
    LET tunnelHosts == UNION {i.hosts : i \in {j \in c.ingresses : j.class = "tunnel"}}
        own == {i \in c.ingresses : i.ns = n}
    IN IF \E i \in own : i.class = "tunnel" \/ (i.class = "traefik" /\ i.hosts \cap tunnelHosts # {})
       THEN "internet"
       ELSE IF \E i \in own : i.class = "traefik" THEN "lan" ELSE "cluster"

\* The labels of the namespace.yaml written from the live namespace, when the
\* lists in failed could not be read: what depends on one stays as it was.
DerivedLabels(n, live, c, failed) ==
    [data |-> IF failed \cap {"claims", "databases"} = {} THEN DataClass(n, c) ELSE live.data,
     exposure |-> IF "ingresses" \in failed THEN live.exposure ELSE Exposure(n, c)]

-----------------------------------------------------------------------------
(* Flux, external-secrets and the cluster                                  *)

\* The variables, once the operator has added what he was told to.
Variables(entries, live) ==
    [n \in {e.name : e \in entries} |->
        LET pending == {e \in entries : e.name = n /\ e \notin live} IN
        IF pending = {} THEN (CHOOSE e \in entries : e.name = n).literal
        ELSE LET row == PendingRow(CHOOSE e \in pending : TRUE) IN
             IF row.template THEN <<Encoded(row.value[1])>> ELSE row.value]

\* Flux's substitution: $${X} becomes ${X}.
Expanded(text, vars_) ==
    LET Meant(w) == IF IsRef(w) /\ NameIn(w) \in DOMAIN vars_ THEN vars_[NameIn(w)]
                    ELSE IF w[1] = "$${}" THEN <<Ref(NameIn(w))>> ELSE <<w>>
        upTo[i \in 0..Len(text)] == IF i = 0 THEN <<>> ELSE upTo[i - 1] \o Meant(text[i])
    IN upTo[Len(text)]

\* A file applied over the live object.  What it does not say stays as it is,
\* but in the pod template of an object Flux takes over: what is missing there
\* goes.  A restart's mark made since is left alone.
Applied(file, live, vars_) ==
    LET F(text) == Expanded(text, vars_)
        adopted == live.fields["fluxLabel"] # Absent IN
    [OnTexts(file, F) EXCEPT !.fields =
        [x \in Fields |->
            CASE x = "fluxLabel" -> "set"
              [] x = "restartedAt" -> IF adopted THEN live.fields[x] ELSE file.fields[x]
              [] OTHER -> IF file.fields[x] = Absent THEN live.fields[x] ELSE file.fields[x]]]

\* What the cluster may make of an object later: new addresses where it
\* assigns them, a restart, its own bookkeeping.
Later(o) ==
    LET IPs == IF o.kind = "Service" /\ o.fields["clusterIP"] # "None"
               THEN {"10.0.0.1", "10.0.0.2"} ELSE {o.fields["clusterIP"]}
        Restarts == IF o.kind \in Templated THEN {o.fields["restartedAt"], "later"}
                    ELSE {o.fields["restartedAt"]}
        Kept == IF o.kind = "Secret" THEN {Absent} ELSE {Absent, "2"}
    IN {Set(Set(Set(Set(o, "runtime", "2"), "bookkeeping", b), "clusterIP", ip), "restartedAt", r) :
           b \in Kept, ip \in IPs, r \in Restarts}

\* An object of that kind of which a new cluster has filled in nothing yet.
Fresh(o) == [o EXCEPT !.leaves = <<>>, !.fields = [x \in Fields |-> Absent]]

-----------------------------------------------------------------------------
(* What a file has to be                                                   *)

\* Text Flux gives back: no $${X}, and no ${X} of a name Flux knows.
PlainTo(entries, o) ==
    \A i \in DOMAIN o.leaves : \A j \in DOMAIN o.leaves[i].text :
        LET w == o.leaves[i].text[j] IN
            w[1] # "$${}" /\ ~(IsRef(w) /\ NameIn(w) \in {e.name : e \in entries})

\* Flux applying the file changes nothing that was written by somebody: no
\* text, and no pod is restarted; a new cluster gets the same, with what is
\* declared and nothing the old cluster assigned; and what capture finds
\* after that, whatever the cluster has filled in since, is the same file.
ComesBack(o, entries, live) ==
    LET vars_ == Variables(entries, live)
        file == PromotedFile(o, NoFile, entries)
        applied == Applied(file, o, vars_)
        rebuilt == Applied(file, Fresh(o), vars_)
    IN
        /\ applied.leaves = o.leaves /\ rebuilt.leaves = o.leaves
        /\ \A x \in {"restartedAt", "clusterIP", "nodePort", "volume"} :
              applied.fields[x] = o.fields[x]
        /\ rebuilt.fields["clusterIP"] =
              IF o.fields["clusterIP"] = "None" THEN "None" ELSE Absent
        /\ rebuilt.fields["volume"] =
              IF o.fields["volume"] \in Dynamic THEN Absent ELSE o.fields["volume"]
        /\ \A later \in Later(applied) : PromotedFile(later, file, entries) = file

\* What nobody but the operator may read, whatever a run knows of it.
PrivateTexts ==
    {ClusterSecrets[n] : n \in DOMAIN ClusterSecrets} \cup {Candidates[i].literal : i \in DOMAIN Candidates}

\* No private value, in Key Vault or not yet, no value of a Secret, and nothing
\* that looks like a credential.
HoldsNothingPrivate(file) ==
    \A i \in DOMAIN file.leaves : LET l == file.leaves[i] IN
        /\ \A t \in PrivateTexts \ {<<>>} : ~Occurs(t, l.text)
        /\ \A j \in DOMAIN l.text : l.text[j][1] # "base64"
        /\ ~LooksLikeCredential(l.text)
        /\ Flagged(l) => l.text = <<Redacted_>> \/ \A j \in DOMAIN l.text : IsRef(l.text[j])

\* Once its labels are applied, the labels a run works out in a cluster that
\* has changed are the new ones, and one it could not list for is the old one.
LabelsFollow(n, c, next) ==
    LET labels == DerivedLabels(n, [data |-> Absent, exposure |-> Absent], c, {})
        after == DerivedLabels(n, labels, next, {})
    IN \A failed \in SUBSET {"claims", "databases", "ingresses"} :
          LET l == DerivedLabels(n, labels, next, failed) IN
              /\ l.data \in {labels.data, after.data} /\ l.exposure \in {labels.exposure, after.exposure}
              /\ failed \cap {"claims", "databases"} # {} => l.data = labels.data
              /\ "ingresses" \in failed => l.exposure = labels.exposure
              /\ failed = {} => l = after
=============================================================================
