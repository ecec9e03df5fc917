----------------------------- MODULE BackupTree -----------------------------
(***************************************************************************)
(* scripts/k8s_backup: the tool that keeps kubernetes/ in step with the    *)
(* live cluster.  capture writes a file for every live release, namespace  *)
(* and object it finds; generate writes the Flux files that deploy them,   *)
(* from the disk alone.  Each phase then removes the files it owns that it *)
(* neither wrote nor was told to keep: what Flux reads as "uninstall".     *)
(*                                                                         *)
(* capture reads the cluster in several calls.  Between them the cluster   *)
(* may change, a listing may fail, and the run may stop.  A repository is  *)
(* edited by its operator between runs only.                               *)
(*                                                                         *)
(* Abstractions.  A file is its place; of what a file says only the        *)
(* entries of the kustomization.yaml files are kept (lists).  An object is *)
(* one that passes the skip filters.  Namespaces carry a valid category    *)
(* label: one that does not stops the run as a missing one does.  Left     *)
(* out: values, redaction and substitution (but for whether they hold a    *)
(* manifest back), the Helm repositories, the cluster-scoped kinds other   *)
(* than Namespace (they are treated like it), the kustomizations above the *)
(* namespaces', docs/, --dry-run, and what other Kustomizations apply      *)
(* (other_app_reason): no object here is a hand-written folder's.          *)
(***************************************************************************)
EXTENDS Naturals, FiniteSets

CONSTANTS
    Namespaces,  \* namespaces there may be
    Apps,        \* names of Helm releases and of app folders
    Things,      \* namespaced objects there may be
    NsOf,        \* NsOf[x]: the namespace of x
    KindOf,      \* KindOf[x]: its kind, a string
    Redacted,    \* objects that need a credential redacted
    Faults,      \* what may go wrong: subset of FaultKinds
    MaxFaults,   \* how often
    MaxChanges   \* changes of the cluster and of the markers

FaultKinds == {"unlisted", "stop"}
Secrets == {x \in Things : KindOf[x] = "secret"}
Objects == Things \ Secrets
Kinds == {KindOf[x] : x \in Objects}
Folders == Namespaces \X Apps

ASSUME TreeAssumption ==
    /\ IsFiniteSet(Namespaces) /\ IsFiniteSet(Apps)
    /\ NsOf \in [Things -> Namespaces]
    /\ Redacted \subseteq Objects
    /\ Faults \subseteq FaultKinds /\ MaxFaults \in Nat /\ MaxChanges \in Nat

\* The files, by place; d is a release folder, <<namespace, app>>.
NamespaceYaml(n) == <<"namespace.yaml", n>>
ClusterNs(n) == <<"cluster/namespace", n>>
NsKust(n) == <<"kustomization.yaml", n>>
Release(d) == <<"release.yaml", d>>
Values(d) == <<"app/values.yaml", d>>
HelmRelease(d) == <<"app/helmrelease.yaml", d>>
AppKust(d) == <<"app/kustomization.yaml", d>>
Ks(d) == <<"ks.yaml", d>>
Manifest(d, x) == <<"app/manifest", d, x>>
Raw(x) == <<"raw", x>>

Manifests(d) == {Manifest(d, x) : x \in {y \in Things : NsOf[y] = d[1]}}
\* Every .yaml of app/ but its kustomization.yaml.
AppFiles(d) == {Values(d), HelmRelease(d)} \cup Manifests(d)
InFolder(d) == {Release(d), AppKust(d), Ks(d)} \cup AppFiles(d)
File == (UNION {InFolder(d) : d \in Folders})
            \cup (UNION {{NamespaceYaml(n), ClusterNs(n), NsKust(n)} : n \in Namespaces})
            \cup {Raw(x) : x \in Objects}

VARIABLES
    \* the cluster
    nss,       \* the namespaces that exist
    helm,      \* the Helm releases, each the folder it belongs in
    things,    \* the objects and Secrets that exist
    known,     \* the Secrets whose values cluster-secrets holds
    \* the repository
    files,     \* the files on disk
    lists,     \* <<kustomization file, file it lists>>
    hand,      \* folders with a .handwritten marker
    promote,   \* folders with a .promote marker
    \* a run
    pc,        \* the next step; "captured" when generate is next
    before,    \* the owned files capture found on disk
    written,   \* the files it wrote or keeps
    selected,  \* the Helm releases it listed
    secrets,   \* the Secrets it listed, of promoted namespaces
    writable,  \* those of them whose values cluster-secrets held
    unlisted,  \* promoted namespaces whose Secrets could not be listed
    \* what the properties look back on
    absent,    \* what was missing at some moment since the run started
    held,      \* namespaces whose objects this run writes nowhere
    calm,      \* nothing changed or failed since the run started
    settled,   \* such runs in a row, up to three
    faults, changes

cluster == <<nss, helm, things, known>>
repo == <<files, lists, hand, promote>>
reads == <<selected, secrets, writable, unlisted>>
ghosts == <<absent, held, calm, settled>>
bounds == <<faults, changes>>
vars == <<cluster, repo, pc, before, written, reads, ghosts, bounds>>

Idle == pc \in {"idle", "captured"}

-----------------------------------------------------------------------------
(* ownership.py and layout.py                                              *)

Promoted == promote \ hand
PromotedIn(n) == {d \in Promoted : d[1] = n}
\* A namespace promoted into one folder; and one with several markers, which
\* is promoted into none.
PromotedNs == {n \in Namespaces : Cardinality(PromotedIn(n)) = 1}
Ambiguous == {n \in Namespaces : Cardinality(PromotedIn(n)) > 1}
FolderOf(n) == CHOOSE d \in PromotedIn(n) : TRUE

\* What a hand-written release depends on.
Protected == UNION {InFolder(d) \cup {NamespaceYaml(d[1])} : d \in hand}

CaptureOwns_Kustomizations ==
    ((UNION {{NamespaceYaml(n), ClusterNs(n), NsKust(n)} : n \in Namespaces})
        \cup (UNION {{Release(d), Values(d)} : d \in Folders})
        \cup {Raw(x) : x \in Objects}
        \cup UNION {AppFiles(d) : d \in Promoted})
    \ Protected

CaptureOwns_NoManifests ==
    ((UNION {{NamespaceYaml(n), ClusterNs(n)} : n \in Namespaces})
        \cup (UNION {{Release(d), Values(d)} : d \in Folders})
        \cup {Raw(x) : x \in Objects})
    \ Protected

CaptureOwns ==
    ((UNION {{NamespaceYaml(n), ClusterNs(n)} : n \in Namespaces})
        \cup (UNION {{Release(d), Values(d)} : d \in Folders})
        \cup {Raw(x) : x \in Objects}
        \cup UNION {AppFiles(d) : d \in Promoted})
    \ Protected

GenerateOwns ==
    ((UNION {{HelmRelease(d), AppKust(d), Ks(d)} : d \in Folders})
        \cup {NsKust(n) : n \in Namespaces})
    \ Protected

\* The namespace has a folder under kubernetes/prod/.
HasFolder(n) ==
    \/ {NamespaceYaml(n), NsKust(n)} \cap files # {}
    \/ \E d \in Folders : d[1] = n /\ (InFolder(d) \cap files # {} \/ d \in hand \cup promote)

-----------------------------------------------------------------------------
Init ==
    /\ nss \in SUBSET Namespaces
    /\ helm \in SUBSET {d \in Folders : d[1] \in nss}
    /\ things \in SUBSET {x \in Things : NsOf[x] \in nss}
    /\ known \in SUBSET (Secrets \cap things)
    /\ files = {} /\ lists = {} /\ hand = {} /\ promote = {}
    /\ pc = "idle" /\ before = {} /\ written = {}
    /\ selected = {} /\ secrets = {} /\ writable = {} /\ unlisted = {}
    /\ absent = {} /\ held = {} /\ calm = FALSE /\ settled = 0
    /\ faults = 0 /\ changes = 0

-----------------------------------------------------------------------------
(* The cluster, and the operator between runs.                             *)

Changes ==
    /\ changes < MaxChanges /\ changes' = changes + 1
    /\ calm' = FALSE /\ settled' = 0
    /\ UNCHANGED <<pc, before, written, reads, held, faults>>
Missed(xs) == absent' = IF Idle THEN absent ELSE absent \cup xs

\* helm install --create-namespace; a release is not named for a folder of
\* promoted objects.
Install(d) ==
    /\ d \notin helm \cup promote
    /\ helm' = helm \cup {d} /\ nss' = nss \cup {d[1]}
    /\ Changes
    /\ UNCHANGED <<things, known, repo, absent>>

Uninstall(d) ==
    /\ d \in helm
    /\ helm' = helm \ {d} /\ Missed({d})
    /\ Changes
    /\ UNCHANGED <<nss, things, known, repo>>

Create(x) ==
    /\ x \notin things /\ NsOf[x] \in nss
    /\ things' = things \cup {x}
    /\ Changes
    /\ UNCHANGED <<nss, helm, known, repo, absent>>

Delete(x) ==
    /\ x \in things
    /\ things' = things \ {x} /\ known' = known \ {x} /\ Missed({x})
    /\ Changes
    /\ UNCHANGED <<nss, helm, repo>>

\* With everything in it.
DeleteNamespace(n) ==
    LET gone == {d \in helm : d[1] = n} \cup {x \in things : NsOf[x] = n} IN
        /\ n \in nss
        /\ nss' = nss \ {n} /\ helm' = helm \ gone /\ things' = things \ gone
        /\ known' = known \ gone
        /\ Missed(gone \cup {n})
        /\ Changes
        /\ UNCHANGED repo

\* A Secret's values reach Key Vault and cluster-secrets, or are rotated.
Rotate(x) ==
    /\ x \in Secrets \cap things
    /\ known' = IF x \in known THEN known \ {x} ELSE known \cup {x}
    /\ Changes
    /\ UNCHANGED <<nss, helm, things, repo, absent>>

\* A folder is marked as promoted.
MarkPromote(d) ==
    /\ Idle /\ d \notin hand \cup promote \cup helm
    /\ promote' = promote \cup {d}
    /\ Changes
    /\ UNCHANGED <<cluster, files, lists, hand, absent>>

\* A folder is written by hand, with its namespace.yaml.
MarkHand(d) ==
    /\ Idle /\ d \notin hand \cup promote
    /\ hand' = hand \cup {d}
    /\ files' = files \cup {Ks(d), AppKust(d), HelmRelease(d), NamespaceYaml(d[1])}
    /\ lists' = {l \in lists : l[1] # AppKust(d)} \cup {<<AppKust(d), HelmRelease(d)>>}
    /\ Changes
    /\ UNCHANGED <<cluster, promote, absent>>

\* git rm -r of a marked folder.
RemoveFolder(d) ==
    /\ Idle /\ d \in hand \cup promote
    /\ hand' = hand \ {d} /\ promote' = promote \ {d}
    /\ files' = files \ InFolder(d)
    /\ lists' = {l \in lists : l[1] # AppKust(d)}
    /\ Changes
    /\ UNCHANGED <<cluster, absent>>

Change ==
    \/ \E d \in Folders : \/ Install(d) \/ Uninstall(d) \/ MarkPromote(d)
                          \/ MarkHand(d) \/ RemoveFolder(d)
    \/ \E x \in Things : Create(x) \/ Delete(x) \/ Rotate(x)
    \/ \E n \in Namespaces : DeleteNamespace(n)

-----------------------------------------------------------------------------
(* capture.run                                                             *)

Write(fs) == files' = files \cup fs /\ written' = written \cup fs
Keep_NotOnDisk(fs) == fs
\* keep_existing: only what was on disk when the run started.
Keep(fs) == fs \cap before
WriteAndKeep(fs, kept) == files' = files \cup fs /\ written' = written \cup fs \cup Keep(kept)

Fault(kind) ==
    /\ kind \in Faults /\ faults < MaxFaults /\ faults' = faults + 1
    /\ calm' = FALSE /\ settled' = 0
NoFault == UNCHANGED <<faults, calm, settled>>

\* The run's own variables, when it is over.
Forget ==
    /\ before' = {} /\ written' = {} /\ selected' = {} /\ secrets' = {} /\ writable' = {}
    /\ unlisted' = {}

\* The Secrets a promoted namespace gives cluster-secrets and its folder.
SecretsOf(n) == {x \in Secrets \cap things : NsOf[x] = n}

\* The tracker's look at the disk; then Flux's Kustomizations and
\* cluster-secrets, without which the run stops, and the Secrets of the
\* promoted namespaces.  (One step: the values are read first, so a Secret
\* that changes in between is one whose values are not held.)
Start ==
    /\ Idle
    /\ before' = files \cap CaptureOwns
    /\ written' = {} /\ selected' = {}
    /\ \E failed \in SUBSET PromotedNs :
          /\ unlisted' = failed
          /\ secrets' = UNION {SecretsOf(n) : n \in PromotedNs \ failed}
          /\ writable' = secrets' \cap known
          /\ IF failed = {} THEN calm' = TRUE /\ UNCHANGED <<faults, settled>>
             ELSE Fault("unlisted")
    /\ absent' = (Namespaces \ nss) \cup (Folders \ helm) \cup (Things \ things)
    /\ held' = {}
    /\ pc' = "list"
    /\ UNCHANGED <<cluster, repo, changes>>

\* ToolError, or Ctrl-C: the run ends, with what it wrote and no sweep.
Stopped(fs) ==
    /\ pc' = "idle"
    /\ files' = files \cup fs
    /\ calm' = FALSE /\ settled' = 0
    /\ Forget /\ absent' = {} /\ held' = {}
    /\ UNCHANGED <<cluster, lists, hand, promote, changes>>

\* helm list, and every namespace this run writes into looked up before a file
\* of it is written.
ListReleases ==
    /\ pc = "list"
    /\ selected' = helm
    /\ {d[1] : d \in Promoted} \subseteq nss
    /\ pc' = "releases"
    /\ NoFault
    /\ UNCHANGED <<cluster, repo, before, written, secrets, writable, unlisted, absent, held,
                   changes>>

NamespaceIsGone ==
    /\ pc = "list"
    /\ ~({d[1] : d \in Promoted} \subseteq nss)
    /\ Stopped({}) /\ UNCHANGED faults

ReleaseFiles(ds) == {Release(d) : d \in ds \ hand} \cup {Values(d) : d \in ds \ hand}

\* A hand-written release is looked at and not written.
WriteReleases_HandToo ==
    /\ pc = "releases" /\ selected \subseteq helm
    /\ Write({Release(d) : d \in selected} \cup {Values(d) : d \in selected})
    /\ pc' = "namespaces"
    /\ NoFault
    /\ UNCHANGED <<cluster, lists, hand, promote, before, reads, absent, held, changes>>

WriteReleases ==
    /\ pc = "releases" /\ selected \subseteq helm
    /\ Write(ReleaseFiles(selected))
    /\ pc' = "namespaces"
    /\ NoFault
    /\ UNCHANGED <<cluster, lists, hand, promote, before, reads, absent, held, changes>>

\* helm get fails for a release uninstalled since the list, after the ones
\* before it were written, and perhaps its own values.
ReleaseIsGone ==
    /\ pc = "releases" /\ ~(selected \subseteq helm)
    /\ \E d \in selected \ helm : \E done \in SUBSET (selected \ {d}) : \E begun \in SUBSET {d} :
          Stopped(ReleaseFiles(done) \cup {Values(e) : e \in begun \ hand})
    /\ UNCHANGED faults

WriteNamespaces ==
    /\ pc = "namespaces"
    /\ Write({NamespaceYaml(n) : n \in {d[1] : d \in selected} \cap nss} \ Protected)
    /\ pc' = "cluster"
    /\ NoFault
    /\ UNCHANGED <<cluster, lists, hand, promote, before, reads, absent, held, changes>>

\* The cluster-scoped kinds; a namespace with a folder is written there.
WriteClusterKinds ==
    /\ pc = "cluster"
    /\ \/ /\ Write({ClusterNs(n) : n \in {m \in nss : ~HasFolder(m)}})
          /\ NoFault
       \/ /\ Fault("unlisted")
          /\ WriteAndKeep({}, {ClusterNs(n) : n \in Namespaces})
    /\ pc' = "objects"
    /\ UNCHANGED <<cluster, lists, hand, promote, before, reads, absent, held, changes>>

\* A promoted folder is held when a kind could not be listed, or an object of
\* its namespace needs a redaction.
HeldNs(listed, failed) ==
    {n \in PromotedNs : failed # {} \/ \E x \in listed \cap Redacted : NsOf[x] = n}

WrittenSecrets(n) == {x \in writable : NsOf[x] = n}

\* Of a promoted namespace that is not held: its objects, and the Secrets
\* whose values cluster-secrets holds; the others' manifests are kept.
PromotedManifests(n, listed) ==
    {Manifest(FolderOf(n), x) : x \in {y \in listed : NsOf[y] = n} \cup WrittenSecrets(n)}
SecretsKept(n) ==
    {Manifest(FolderOf(n), x) : x \in {y \in Secrets : NsOf[y] = n
                                          /\ (n \in unlisted \/ y \in secrets \ writable)}}

KeptInDoubt_FailedKindsSwept(listed, failed) ==
    (UNION {AppFiles(FolderOf(n)) : n \in HeldNs(listed, failed)})
        \cup (UNION {SecretsKept(n) : n \in PromotedNs \ HeldNs(listed, failed)})
        \cup (UNION {AppFiles(d) \cup {NamespaceYaml(d[1])} : d \in {e \in Promoted : e[1] \in Ambiguous}})
        \cup {NamespaceYaml(n) : n \in PromotedNs \ nss}

\* What is held as it is, because this run cannot tell.
KeptInDoubt(listed, failed) ==
    (UNION {AppFiles(FolderOf(n)) : n \in HeldNs(listed, failed)})
        \cup (UNION {SecretsKept(n) : n \in PromotedNs \ HeldNs(listed, failed)})
        \cup (UNION {AppFiles(d) \cup {NamespaceYaml(d[1])} : d \in {e \in Promoted : e[1] \in Ambiguous}})
        \cup {NamespaceYaml(n) : n \in PromotedNs \ nss}
        \cup {Raw(x) : x \in {y \in Objects : KindOf[y] \in failed}}

\* Every namespaced kind is listed, or fails to; a failed one is not an empty
\* one.
WriteObjects ==
    /\ pc = "objects"
    /\ \E failed \in SUBSET Kinds :
          LET listed == {x \in Objects \cap things : KindOf[x] \notin failed}
              holds == HeldNs(listed, failed) IN
            /\ WriteAndKeep(
                  {Raw(x) : x \in {y \in listed : NsOf[y] \notin PromotedNs \cup Ambiguous}}
                     \cup ({NamespaceYaml(n) : n \in PromotedNs \cap nss} \ Protected)
                     \cup UNION {PromotedManifests(n, listed) : n \in PromotedNs \ holds},
                  KeptInDoubt(listed, failed))
            /\ held' = holds \cup Ambiguous
            /\ IF failed = {} THEN NoFault ELSE Fault("unlisted")
    /\ pc' = "sweep"
    /\ UNCHANGED <<cluster, lists, hand, promote, before, reads, absent, changes>>

\* sweep_orphans
Sweep ==
    /\ pc = "sweep"
    /\ files' = files \ (before \ written)
    /\ pc' = "captured"
    /\ NoFault /\ Forget
    /\ UNCHANGED <<cluster, lists, hand, promote, absent, held, changes>>

Stop == ~Idle /\ "stop" \in Faults /\ faults < MaxFaults /\ faults' = faults + 1 /\ Stopped({})

-----------------------------------------------------------------------------
(* generate.run                                                            *)

\* The captured releases and the promoted folders that get ks.yaml and
\* app/kustomization.yaml.
HelmFolders == {d \in Folders \ (hand \cup promote) : {Release(d), Values(d)} \subseteq files}
PromotedFolders == {d \in Promoted : AppFiles(d) \cap files # {}}

Scaffolding ==
    {HelmRelease(d) : d \in HelmFolders}
        \cup UNION {{AppKust(d), Ks(d)} : d \in HelmFolders \cup PromotedFolders}

\* What app/kustomization.yaml lists, from the files fs then on disk.
AppEntries(fs) ==
    (UNION {{<<AppKust(d), f>> : f \in (AppFiles(d) \ {Values(d)}) \cap fs} : d \in HelmFolders})
        \cup UNION {{<<AppKust(d), f>> : f \in AppFiles(d) \cap fs} : d \in PromotedFolders}

NamespacesWritten == {n \in Namespaces : NamespaceYaml(n) \in files}

\* Every ks.yaml then on disk.
NsEntries(fs) ==
    UNION {{<<NsKust(n), f>> :
              f \in {NamespaceYaml(n)} \cup ({Ks(d) : d \in {e \in Folders : e[1] = n}} \cap fs)}
           : n \in NamespacesWritten}

Generate ==
    LET new == Scaffolding \cup {NsKust(n) : n \in NamespacesWritten}
        fs == files \cup Scaffolding
        swept == (files \cap GenerateOwns) \ new
    IN
        /\ Idle
        /\ files' = (files \cup new) \ swept
        /\ lists' = {l \in lists : l[1] \notin new \cup swept} \cup AppEntries(fs) \cup NsEntries(fs)
        /\ settled' = IF pc # "captured" THEN settled
                      ELSE IF ~calm THEN 0 ELSE IF settled = 3 THEN 3 ELSE settled + 1
        /\ pc' = "idle"
        /\ absent' = {} /\ held' = {}
        /\ UNCHANGED <<cluster, hand, promote, before, written, reads, calm, bounds>>

Run ==
    \/ Start \/ ListReleases \/ NamespaceIsGone \/ WriteReleases \/ ReleaseIsGone \/ WriteNamespaces
    \/ WriteClusterKinds \/ WriteObjects \/ Sweep \/ Stop \/ Generate

Next == Run \/ Change

Spec == Init /\ [][Next]_vars

-----------------------------------------------------------------------------
(* Properties.                                                             *)

\* The variables keep their types; a run writes what it then finds on disk,
\* and keeps nothing that is not there.
TypeOK ==
    /\ nss \subseteq Namespaces /\ helm \subseteq Folders /\ things \subseteq Things
    /\ known \subseteq Secrets \cap things
    /\ files \subseteq File /\ lists \subseteq File \X File
    /\ hand \subseteq Folders /\ promote \subseteq Folders
    /\ pc \in {"idle", "list", "releases", "namespaces", "cluster", "objects", "sweep", "captured"}
    /\ before \subseteq files /\ written \subseteq files
    /\ selected \subseteq Folders /\ writable \subseteq secrets /\ secrets \subseteq Secrets
    /\ unlisted \subseteq Namespaces /\ held \subseteq Namespaces
    /\ absent \subseteq Namespaces \cup Folders \cup Things
    /\ calm \in BOOLEAN /\ settled \in 0..3
    /\ faults \in 0..MaxFaults /\ changes \in 0..MaxChanges

Swept == pc = "sweep" /\ pc' = "captured"
Generated == pc = "captured" /\ pc' = "idle"

Copies(x, fs) == ({Raw(x)} \cup {Manifest(d, x) : d \in Folders}) \cap fs

\* What lived through the whole of a run, whatever of it could be listed, has
\* its files after the run if it had them before: its release.yaml, its copy
\* and its ks.yaml, which Flux would take as an uninstall.  Excepted: the raw
\* copy of an object whose namespace was marked for promotion and is held.
KeepsWhatLives ==
    [][/\ Swept =>
            /\ \A d \in Folders \ absent : Release(d) \in files => Release(d) \in files'
            /\ \A x \in Things \ absent : Copies(x, files) # {} =>
                  \/ Copies(x, files') # {}
                  \/ NsOf[x] \in held /\ Copies(x, files) = {Raw(x)}
       /\ Generated =>
            \A d \in Folders : Ks(d) \in files \ files' =>
                \/ d \in absent
                \/ d \in Promoted /\ \A x \in Things : Copies(x, files) \cap InFolder(d) = {}]_vars

\* No step of a run writes, removes or relists a file of a hand-written folder
\* or its namespace.yaml.
HandWrittenUntouched ==
    [][changes' = changes =>
          /\ files' \cap Protected = files \cap Protected
          /\ {l \in lists' : l[1] \in Protected} = {l \in lists : l[1] \in Protected}]_vars

AppsOf(n) == {d \in helm \cup hand \cup Promoted : d[1] = n}

\* What the tree is to be, stated from the cluster and the markers alone.
NamespaceIsRight(n) ==
    /\ n \in nss /\ n \notin Ambiguous =>
          /\ NamespaceYaml(n) \in files <=> AppsOf(n) # {}
          /\ ClusterNs(n) \in files <=> AppsOf(n) = {}
    /\ n \notin nss /\ AppsOf(n) = {} => {NamespaceYaml(n), ClusterNs(n), NsKust(n)} \cap files = {}
    /\ NamespaceYaml(n) \in files <=> NsKust(n) \in files

FolderIsRight(d) ==
    LET there == InFolder(d) \cap files
        live == {x \in things : NsOf[x] = d[1] /\ x \in Objects \cup known}
        waiting == {x \in (Secrets \cap things) \ known : NsOf[x] = d[1]}
    IN
        /\ d \in helm \ hand => there = {Release(d), Values(d), HelmRelease(d), AppKust(d), Ks(d)}
        /\ d \notin helm \cup hand \cup Promoted => there = {}
        /\ (d \in Promoted /\ d[1] \in PromotedNs /\ live \cap Redacted = {}) =>
              /\ {Manifest(d, x) : x \in live} \subseteq there
              /\ there \subseteq {Manifest(d, x) : x \in live \cup waiting} \cup {AppKust(d), Ks(d)}

ThingIsRight(x) ==
    x \in Objects =>
        (Raw(x) \in files <=> x \in things /\ NsOf[x] \notin PromotedNs \cup Ambiguous)

ListsAreRight ==
    /\ \A l \in lists : l[2] \in files
    /\ \A d \in Folders : {Ks(d), NamespaceYaml(d[1])} \subseteq files =>
          <<NsKust(d[1]), Ks(d)>> \in lists
    /\ \A d \in Folders \ hand : \A f \in (AppFiles(d) \cap files) \ {Values(d)} :
          <<AppKust(d), f>> \in lists

\* Three whole runs in a row, with nothing changing in between, leave the tree
\* the cluster and the markers call for, whatever runs were cut short before,
\* whatever was left behind, promoted, written by hand or removed.  (Three: what
\* is swept last was still listed, and its folder still there, in the run
\* before.)
SettledTreeIsWhole ==
    settled = 3 =>
        /\ \A n \in Namespaces : NamespaceIsRight(n)
        /\ \A d \in Folders : FolderIsRight(d)
        /\ \A x \in Things : ThingIsRight(x)
        /\ ListsAreRight

\* "On an unchanged cluster there's nothing to review": from then on no step
\* of a run changes the tree, not for a moment.
SettledRunChangesNothing ==
    [][(settled = 3 /\ changes' = changes) => UNCHANGED <<files, lists>>]_vars

\* After a run every kustomization.yaml lists files there are.
ListsNothingMissing ==
    [][Generated => \A l \in lists' : l[2] \in files']_vars

=============================================================================
