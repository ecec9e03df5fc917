---------------------------- MODULE BackupContents ----------------------------
(***************************************************************************)
(* BackupTree with what is in the files: which manifests a run writes,     *)
(* keeps and sweeps, and what capture puts into each (Manifests).  Every   *)
(* object holds one of Holds[x]; of an object that needs a redaction all   *)
(* of them do, so BackupTree's Redacted follows from them.                 *)
(***************************************************************************)
EXTENDS BackupTree, Manifests

CONSTANT Holds   \* Holds[x]: what the object x may hold

ASSUME HoldsAssumption ==
    /\ DOMAIN Holds = Things
    /\ \A x \in Objects : \A o \in Holds[x] : NeedsRedaction(o) <=> x \in Redacted
    /\ \A x \in Secrets : \A o \in Holds[x] : o.kind = "Secret"

\* The Secrets there may be in its namespace, or none, when an object holds o.
\* A Secret's manifest is written by the runs that read that Secret.
BesideIt(o) == IF o.kind = "Secret" THEN {o} ELSE {NoFile} \cup UNION {Holds[x] : x \in Secrets}

GoodManifests ==
    {x \in Things : \A o \in Holds[x] : \A live \in Loads : \A s \in BesideIt(o) :
        LET entries == Substitutions(s, live) IN PlainTo(entries, o) => ComesBack(o, entries, live)}

PrivateManifests ==
    {x \in Things : \E o \in Holds[x] : \E live \in Loads : \E s \in BesideIt(o) :
        ~HoldsNothingPrivate(PromotedFile(o, NoFile, Substitutions(s, live)))}

GoodNamespaces == {n \in Namespaces : \A c \in Clusters, next \in Clusters : LabelsFollow(n, c, next)}

PromotedOnDisk == {x \in Things : \E d \in Folders : Manifest(d, x) \in files}

\* Whatever a run finds, fails to list or stops at, every manifest Flux applies
\* gives back what its object held: nothing of it is a redaction, no text is
\* changed by Flux's substitution, once Key Vault holds what the operator is
\* told to add, no pod is restarted, a new cluster can take it, and the next
\* run writes the same.  Excepted: a text with $${X} or with a ${X} Flux knows
\* (Flux takes the one for an escape and the other for its variable).  And a
\* namespace.yaml never says of its namespace what no list showed.
WhatIsWrittenComesBack ==
    /\ PromotedOnDisk \subseteq GoodManifests
    /\ \A n \in Namespaces : NamespaceYaml(n) \in files => n \in GoodNamespaces

\* No manifest Flux applies holds a private value, be it in Key Vault or seen
\* in this run for the first time, nor what looks like a credential.  (capture
\* looks for new ones in three lists; that these could be read is assumed, as
\* it does not look at their errors.)
NothingPrivateInTheTree == PromotedOnDisk \cap PrivateManifests = {}
=============================================================================
