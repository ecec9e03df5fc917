-------------------------- MODULE BackupTreeProofs --------------------------
(***************************************************************************)
(* Theorems of BackupTree, for any namespaces, apps, objects, faults and   *)
(* changes: its types, that no run touches what is written by hand, that   *)
(* what lives through a run keeps the files Flux deploys it by, and that   *)
(* three undisturbed runs leave the tree the cluster and the markers call  *)
(* for, which the next such run leaves as it is.                           *)
(*                                                                         *)
(* The argument of the third (KeepInv): what a run may remove is what it   *)
(* owned at its start and neither wrote nor kept since.  Step by step of   *)
(* the run the invariant says what of the living is written or kept by     *)
(* then.  Of the last two (TreeInv): a run that nothing disturbs writes or *)
(* keeps all that is called for (Must) and nothing that is not allowed     *)
(* (May), so its sweep leaves capture's files right; its generate then     *)
(* leaves the Flux files right but for what still had left-overs, which    *)
(* the second run clears up and the third no longer lists.                 *)
(***************************************************************************)
EXTENDS BackupTree, FiniteSetTheorems, TLAPS

-----------------------------------------------------------------------------
(* The places.  Two files are the same only if they are of one kind and of *)
(* one owner.                                                              *)

LEMMA InFolderIs ==
    ASSUME NEW d, NEW f
    PROVE  f \in InFolder(d) <=>
              \/ f \in {Release(d), AppKust(d), Ks(d), Values(d), HelmRelease(d)}
              \/ \E x \in Things : NsOf[x] = d[1] /\ f = Manifest(d, x)
BY DEF InFolder, AppFiles, Manifests

\* The folder a file is in, if it is in one.
LEMMA OneFolder ==
    ASSUME NEW d, NEW e, NEW f, f \in InFolder(d), f \in InFolder(e)
    PROVE  d = e
BY InFolderIs DEF Release, AppKust, Ks, Values, HelmRelease, Manifest

LEMMA NotInAFolder ==
    ASSUME NEW d
    PROVE  /\ \A n : {NamespaceYaml(n), ClusterNs(n), NsKust(n)} \cap InFolder(d) = {}
           /\ \A x : Raw(x) \notin InFolder(d)
BY InFolderIs DEF Release, AppKust, Ks, Values, HelmRelease, Manifest, NamespaceYaml, ClusterNs, NsKust, Raw

\* Places of different kinds, and of one kind for different things.
LEMMA Places ==
    /\ \A d, e : /\ Release(d) = Release(e) => d = e
                 /\ Values(d) = Values(e) => d = e
                 /\ HelmRelease(d) = HelmRelease(e) => d = e
                 /\ AppKust(d) = AppKust(e) => d = e
                 /\ Ks(d) = Ks(e) => d = e
    /\ \A m, n : /\ NamespaceYaml(m) = NamespaceYaml(n) => m = n
                 /\ ClusterNs(m) = ClusterNs(n) => m = n
                 /\ NsKust(m) = NsKust(n) => m = n
    /\ \A x, y : Raw(x) = Raw(y) => x = y
    /\ \A d, e, x, y : Manifest(d, x) = Manifest(e, y) => d = e /\ x = y
BY DEF Release, AppKust, Ks, Values, HelmRelease, Manifest, NamespaceYaml, ClusterNs, NsKust, Raw

LEMMA Members ==
    ASSUME NEW d
    PROVE  /\ {Release(d), AppKust(d), Ks(d), Values(d), HelmRelease(d)} \subseteq InFolder(d)
           /\ AppFiles(d) \subseteq InFolder(d)
           /\ \A x \in Things : NsOf[x] = d[1] => Manifest(d, x) \in AppFiles(d)
           /\ {Values(d), HelmRelease(d)} \subseteq AppFiles(d)
           /\ {Release(d), AppKust(d), Ks(d)} \cap AppFiles(d) = {}
BY DEF InFolder, AppFiles, Manifests, Release, AppKust, Ks, Values, HelmRelease, Manifest

LEMMA FileIs ==
    /\ \A d \in Folders : InFolder(d) \subseteq File
    /\ \A n \in Namespaces : {NamespaceYaml(n), ClusterNs(n), NsKust(n)} \subseteq File
    /\ \A x \in Objects : Raw(x) \in File
<1> DEFINE fs == {InFolder(d) : d \in Folders}
           ns == {{NamespaceYaml(n), ClusterNs(n), NsKust(n)} : n \in Namespaces}
           rs == {Raw(x) : x \in Objects}
<1>0. (UNION fs) \cup (UNION ns) \cup rs \subseteq File
  BY DEF File
<1>1. \A d \in Folders : InFolder(d) \subseteq File
  <2>1. \A d \in Folders : InFolder(d) \in fs
    OBVIOUS
  <2> HIDE DEF fs, ns, rs
  <2>. QED
    BY <1>0, <2>1
<1>2. \A n \in Namespaces : {NamespaceYaml(n), ClusterNs(n), NsKust(n)} \subseteq File
  <2> TAKE n \in Namespaces
  <2> DEFINE three == {NamespaceYaml(n), ClusterNs(n), NsKust(n)}
  <2>1. three \in ns
    OBVIOUS
  <2> HIDE DEF fs, ns, rs, three
  <2>2. three \subseteq File
    BY <1>0, <2>1
  <2>. QED
    BY <2>2 DEF three
<1>3. \A x \in Objects : Raw(x) \in File
  <2>1. \A x \in Objects : Raw(x) \in rs
    OBVIOUS
  <2> HIDE DEF fs, ns, rs
  <2>. QED
    BY <1>0, <2>1
<1>. QED
  BY <1>1, <1>2, <1>3

\* A file of a hand-written folder is protected, and of no other folder.
LEMMA ProtectedIs ==
    /\ \A d \in hand : InFolder(d) \subseteq Protected
    /\ \A d : d \notin hand => InFolder(d) \cap Protected = {}
    /\ \A n : ClusterNs(n) \notin Protected /\ NsKust(n) \notin Protected
    /\ \A x : Raw(x) \notin Protected
<1>1. \A d \in hand : InFolder(d) \subseteq Protected
  BY DEF Protected
<1>2. ASSUME NEW d, d \notin hand, NEW f \in InFolder(d), f \in Protected
      PROVE  FALSE
  <2>1. PICK e \in hand : f \in InFolder(e) \cup {NamespaceYaml(e[1])}
    BY <1>2 DEF Protected
  <2>. QED
    BY <1>2, <2>1, OneFolder, NotInAFolder
<1>3. \A n, d : ClusterNs(n) # NamespaceYaml(d[1]) /\ NsKust(n) # NamespaceYaml(d[1])
  BY DEF ClusterNs, NsKust, NamespaceYaml
<1>4. \A x, d : Raw(x) # NamespaceYaml(d[1])
  BY DEF Raw, NamespaceYaml
<1>5. \A n : ClusterNs(n) \notin Protected /\ NsKust(n) \notin Protected
  BY <1>3, NotInAFolder DEF Protected
<1>6. \A x : Raw(x) \notin Protected
  BY <1>4, NotInAFolder DEF Protected
<1>. QED
  BY <1>1, <1>2, <1>5, <1>6

-----------------------------------------------------------------------------
(* Promotion.                                                              *)

LEMMA PromotedInFinite ==
    ASSUME promote \subseteq Folders, NEW n
    PROVE  IsFiniteSet(PromotedIn(n))
<1>1. IsFiniteSet(Folders)
  BY TreeAssumption, FS_Product DEF Folders
<1>2. PromotedIn(n) \subseteq Folders
  BY DEF PromotedIn, Promoted
<1>. QED
  BY <1>1, <1>2, FS_Subset

\* A promoted namespace has its one folder.
LEMMA ItsFolder ==
    ASSUME promote \subseteq Folders, NEW n \in PromotedNs
    PROVE  /\ n \in Namespaces
           /\ FolderOf(n) \in Promoted /\ FolderOf(n) \in Folders /\ FolderOf(n)[1] = n
           /\ \A d \in Promoted : d[1] = n => d = FolderOf(n)
<1>1. PICK d : PromotedIn(n) = {d}
  BY PromotedInFinite, FS_Singleton DEF PromotedNs
<1>2. FolderOf(n) \in PromotedIn(n)
  BY <1>1 DEF FolderOf
<1>. QED
  BY <1>1, <1>2 DEF PromotedIn, Promoted, PromotedNs

\* A promoted folder's namespace is promoted, or in doubt.
LEMMA ItsNamespace ==
    ASSUME promote \subseteq Folders, NEW d \in Promoted
    PROVE  d[1] \in PromotedNs \cup Ambiguous
<1>1. d[1] \in Namespaces /\ d \in PromotedIn(d[1])
  BY DEF Promoted, PromotedIn, Folders
<1>2. Cardinality(PromotedIn(d[1])) \in Nat /\ Cardinality(PromotedIn(d[1])) # 0
  BY <1>1, PromotedInFinite, FS_CardinalityType, FS_EmptySet
<1>. QED
  BY <1>1, <1>2 DEF PromotedNs, Ambiguous

-----------------------------------------------------------------------------
(* What the phases write is files, and none of a hand-written folder's.    *)

LEMMA ReleaseFilesFree ==
    ASSUME NEW ds \in SUBSET Folders
    PROVE  ReleaseFiles(ds) \subseteq File \ Protected
BY Members, FileIs, ProtectedIs DEF ReleaseFiles

LEMMA ManifestsFree ==
    ASSUME promote \subseteq Folders, writable \subseteq Things,
           NEW n \in PromotedNs, NEW listed \in SUBSET Things
    PROVE  PromotedManifests(n, listed) \subseteq AppFiles(FolderOf(n)) \cap (File \ Protected)
<1>1. FolderOf(n) \in Folders /\ FolderOf(n) \notin hand /\ FolderOf(n)[1] = n
  BY ItsFolder DEF Promoted
<1>2. PromotedManifests(n, listed) \subseteq AppFiles(FolderOf(n))
  BY <1>1, Members DEF PromotedManifests, WrittenSecrets
<1>. QED
  BY <1>1, <1>2, Members, FileIs, ProtectedIs

LEMMA NamespaceFiles ==
    ASSUME NEW ns \in SUBSET Namespaces
    PROVE  /\ {NamespaceYaml(n) : n \in ns} \subseteq File
           /\ {ClusterNs(n) : n \in ns} \subseteq File \ Protected
           /\ {NsKust(n) : n \in ns} \subseteq File \ Protected
BY FileIs, ProtectedIs
-----------------------------------------------------------------------------
(* The steps of a run.                                                     *)

\* What a run may sweep is what capture owned at its start: the markers stay
\* during a run.
Ownership ==
    /\ before \subseteq CaptureOwns
    /\ Idle => before = {} /\ written = {}

\* What a step of capture before the sweep writes.
LEMMA Writes ==
    ASSUME TypeOK, WriteReleases \/ WriteNamespaces \/ WriteClusterKinds \/ WriteObjects
    PROVE  \E W \in SUBSET (File \ Protected) : \E K :
               /\ files' = files \cup W /\ written' = written \cup W \cup (K \cap before)
               /\ UNCHANGED <<cluster, lists, hand, promote, before, reads, absent, changes>>
<1> USE TreeAssumption DEF TypeOK
<1>1. CASE WriteReleases
  <2>1. ReleaseFiles(selected) \in SUBSET (File \ Protected)
    BY ReleaseFilesFree
  <2>2. files' = files \cup ReleaseFiles(selected)
        /\ written' = written \cup ReleaseFiles(selected) \cup ({} \cap before)
    BY <1>1 DEF WriteReleases, Write
  <2>. QED
    BY <1>1, <2>1, <2>2 DEF WriteReleases
<1>2. CASE WriteNamespaces
  <2> DEFINE ns == {d[1] : d \in selected} \cap nss
             W == {NamespaceYaml(n) : n \in ns} \ Protected
  <2>1. W \in SUBSET (File \ Protected)
    BY NamespaceFiles
  <2>2. files' = files \cup W /\ written' = written \cup W \cup ({} \cap before)
    BY <1>2 DEF WriteNamespaces, Write
  <2>3. UNCHANGED <<cluster, lists, hand, promote, before, reads, absent, changes>>
    BY <1>2 DEF WriteNamespaces
  <2> HIDE DEF W
  <2>. QED
    BY <2>1, <2>2, <2>3
<1>3. CASE WriteClusterKinds
  <2> DEFINE W == {ClusterNs(n) : n \in {m \in nss : ~HasFolder(m)}}
             K == {ClusterNs(n) : n \in Namespaces}
  <2>1. W \in SUBSET (File \ Protected)
    BY NamespaceFiles
  <2>2. \/ files' = files \cup W /\ written' = written \cup W \cup ({} \cap before)
        \/ files' = files \cup {} /\ written' = written \cup {} \cup (K \cap before)
    BY <1>3 DEF WriteClusterKinds, Write, WriteAndKeep, Keep
  <2>3. UNCHANGED <<cluster, lists, hand, promote, before, reads, absent, changes>>
    BY <1>3 DEF WriteClusterKinds
  <2>4. {} \in SUBSET (File \ Protected)
    OBVIOUS
  <2> HIDE DEF W, K
  <2>. QED
    BY <2>1, <2>2, <2>3, <2>4
<1>4. CASE WriteObjects
  <2> DEFINE listed(failed) == {x \in Objects \cap things : KindOf[x] \notin failed}
             W(failed) == {Raw(x) : x \in {y \in listed(failed) : NsOf[y] \notin PromotedNs \cup Ambiguous}}
                     \cup ({NamespaceYaml(n) : n \in PromotedNs \cap nss} \ Protected)
                     \cup UNION {PromotedManifests(n, listed(failed)) :
                                    n \in PromotedNs \ HeldNs(listed(failed), failed)}
  <2>1. PICK failed \in SUBSET Kinds :
            WriteAndKeep(W(failed), KeptInDoubt(listed(failed), failed))
    BY <1>4 DEF WriteObjects
  <2>2. {Raw(x) : x \in {y \in listed(failed) : NsOf[y] \notin PromotedNs \cup Ambiguous}}
            \subseteq File \ Protected
    BY FileIs, ProtectedIs
  <2>3. {NamespaceYaml(n) : n \in PromotedNs \cap nss} \ Protected \subseteq File \ Protected
    BY NamespaceFiles
  <2>4. UNION {PromotedManifests(n, listed(failed)) :
                   n \in PromotedNs \ HeldNs(listed(failed), failed)} \subseteq File \ Protected
    <3>1. \A n \in PromotedNs : PromotedManifests(n, listed(failed)) \subseteq File \ Protected
      BY ManifestsFree DEF Objects, Secrets
    <3>. QED
      BY <3>1
  <2>5. W(failed) \in SUBSET (File \ Protected)
    BY <2>2, <2>3, <2>4
  <2>6. /\ files' = files \cup W(failed)
        /\ written' = written \cup W(failed) \cup (KeptInDoubt(listed(failed), failed) \cap before)
    BY <2>1 DEF WriteAndKeep, Keep
  <2>7. UNCHANGED <<cluster, lists, hand, promote, before, reads, absent, changes>>
    BY <1>4 DEF WriteObjects
  <2> HIDE DEF W, listed
  <2>. QED
    BY <2>5, <2>6, <2>7
<1>. QED
  BY <1>1, <1>2, <1>3, <1>4

\* What a run that stops has still written.
LEMMA StopsWith ==
    ASSUME TypeOK, NamespaceIsGone \/ ReleaseIsGone \/ Stop
    PROVE  \E W \in SUBSET (File \ Protected) : Stopped(W)
<1>1. CASE NamespaceIsGone \/ Stop
  BY <1>1 DEF NamespaceIsGone, Stop
<1>2. CASE ReleaseIsGone
  <2>1. PICK d \in selected \ helm : \E done \in SUBSET (selected \ {d}) : \E begun \in SUBSET {d} :
            Stopped(ReleaseFiles(done) \cup {Values(e) : e \in begun \ hand})
    BY <1>2 DEF ReleaseIsGone
  <2>2. PICK done \in SUBSET (selected \ {d}), begun \in SUBSET {d} :
            Stopped(ReleaseFiles(done) \cup {Values(e) : e \in begun \ hand})
    BY <2>1
  <2>3. done \in SUBSET Folders /\ begun \in SUBSET Folders
    BY DEF TypeOK
  <2>4. {Values(e) : e \in begun \ hand} \subseteq ReleaseFiles(begun)
    BY DEF ReleaseFiles
  <2>5. ReleaseFiles(done) \cup {Values(e) : e \in begun \ hand} \in SUBSET (File \ Protected)
    BY <2>3, <2>4, ReleaseFilesFree
  <2>. QED
    BY <2>2, <2>5
<1>. QED
  BY <1>1, <1>2

\* What generate writes, and what it lists.
NewFiles == Scaffolding \cup {NsKust(n) : n \in NamespacesWritten}
SweptFiles == (files \cap GenerateOwns) \ NewFiles
NewLists ==
    {l \in lists : l[1] \notin NewFiles \cup SweptFiles}
        \cup AppEntries(files \cup Scaffolding) \cup NsEntries(files \cup Scaffolding)

LEMMA GenerateDoes ==
    ASSUME Generate
    PROVE  /\ Idle /\ files' = (files \cup NewFiles) \ SweptFiles /\ lists' = NewLists /\ pc' = "idle"
           /\ UNCHANGED <<cluster, hand, promote, before, written, reads, calm, bounds>>
           /\ absent' = {} /\ held' = {}
BY DEF Generate, NewFiles, SweptFiles, NewLists

LEMMA GenerateWrites ==
    ASSUME TypeOK
    PROVE  /\ NewFiles \subseteq File \ Protected /\ SweptFiles \cap Protected = {}
           /\ AppEntries(files \cup Scaffolding) \cup NsEntries(files \cup Scaffolding)
                 \subseteq (NewFiles \X File)
<1>1. HelmFolders \subseteq Folders \ hand /\ PromotedFolders \subseteq Folders \ hand
  BY DEF HelmFolders, PromotedFolders, Promoted, TypeOK
<1>2. \A d \in HelmFolders : HelmRelease(d) \in File \ Protected
  BY <1>1, Members, FileIs, ProtectedIs
<1>3. \A d \in HelmFolders \cup PromotedFolders : {AppKust(d), Ks(d)} \subseteq File \ Protected
  BY <1>1, Members, FileIs, ProtectedIs
<1>4. {NsKust(n) : n \in NamespacesWritten} \subseteq File \ Protected
  BY NamespaceFiles DEF NamespacesWritten
<1>5. {HelmRelease(d) : d \in HelmFolders} \subseteq File \ Protected
  BY <1>2
<1>6. UNION {{AppKust(d), Ks(d)} : d \in HelmFolders \cup PromotedFolders} \subseteq File \ Protected
  <2>1. ASSUME NEW S \in {{AppKust(d), Ks(d)} : d \in HelmFolders \cup PromotedFolders}
        PROVE  S \subseteq File \ Protected
    BY <1>3
  <2> DEFINE all == {{AppKust(d), Ks(d)} : d \in HelmFolders \cup PromotedFolders}
  <2>2. \A S \in all : S \subseteq File \ Protected
    BY <2>1
  <2> HIDE DEF all
  <2>3. UNION all \subseteq File \ Protected
    BY <2>2
  <2>. QED
    BY <2>3 DEF all
<1>7. Scaffolding \subseteq File \ Protected
  BY <1>5, <1>6 DEF Scaffolding
<1>8. \A d \in HelmFolders \cup PromotedFolders : {AppKust(d), Ks(d)} \subseteq Scaffolding
  <2> DEFINE all == {{AppKust(d), Ks(d)} : d \in HelmFolders \cup PromotedFolders}
  <2>1. UNION all \subseteq Scaffolding
    BY DEF Scaffolding
  <2> TAKE d \in HelmFolders \cup PromotedFolders
  <2> DEFINE two == {AppKust(d), Ks(d)}
  <2>2. two \in all
    OBVIOUS
  <2> HIDE DEF all, two
  <2>3. two \subseteq Scaffolding
    BY <2>1, <2>2
  <2>. QED
    BY <2>3 DEF two
<1>9. AppEntries(files \cup Scaffolding) \subseteq NewFiles \X File
  <2> SUFFICES ASSUME NEW l \in AppEntries(files \cup Scaffolding) PROVE l \in NewFiles \X File
    OBVIOUS
  <2>1. \E d \in HelmFolders \cup PromotedFolders : \E f \in files \cup Scaffolding : l = <<AppKust(d), f>>
    BY DEF AppEntries
  <2>. QED
    BY <2>1, <1>7, <1>8 DEF NewFiles, TypeOK
<1>10. NsEntries(files \cup Scaffolding) \subseteq NewFiles \X File
  <2> SUFFICES ASSUME NEW l \in NsEntries(files \cup Scaffolding) PROVE l \in NewFiles \X File
    OBVIOUS
  <2>1. PICK n \in NamespacesWritten :
            \E f \in {NamespaceYaml(n)} \cup (files \cup Scaffolding) : l = <<NsKust(n), f>>
    BY DEF NsEntries
  <2>2. NsKust(n) \in NewFiles /\ NamespaceYaml(n) \in File
    BY FileIs DEF NewFiles, NamespacesWritten
  <2>. QED
    BY <2>1, <2>2, <1>7 DEF TypeOK
<1>. QED
  BY <1>4, <1>7, <1>9, <1>10 DEF NewFiles, SweptFiles, GenerateOwns
-----------------------------------------------------------------------------
(* The types, and what a run may sweep.                                    *)

TypesInv == TypeOK /\ Ownership

LEMMA InitTypes == Init => TypesInv
<1> SUFFICES ASSUME Init PROVE TypesInv
  OBVIOUS
<1>1. TypeOK
  <2>1. 0 \in 0..MaxFaults /\ 0 \in 0..MaxChanges /\ 0 \in 0..3
    BY TreeAssumption
  <2>2. nss \subseteq Namespaces /\ helm \subseteq Folders /\ things \subseteq Things
    BY DEF Init
  <2>3. known \subseteq Secrets \cap things
    BY DEF Init
  <2>. QED
    BY <2>1, <2>2, <2>3 DEF Init, TypeOK
<1>2. Ownership
  BY DEF Init, Ownership, Idle
<1>. QED
  BY <1>1, <1>2 DEF TypesInv

\* What the owner's and the cluster's own steps leave of a run.
LEMMA ChangeTypes == TypesInv /\ Change => TypesInv'
<1> SUFFICES ASSUME TypesInv, Change PROVE TypesInv'
  OBVIOUS
<1>0. TypeOK /\ Ownership
  BY DEF TypesInv
<1>c. Changes => /\ changes' \in 0..MaxChanges /\ calm' \in BOOLEAN /\ settled' \in 0..3
                 /\ pc' = pc /\ before' = before /\ written' = written /\ selected' = selected
                 /\ secrets' = secrets /\ writable' = writable /\ unlisted' = unlisted
                 /\ held' = held /\ faults' = faults
  <2> SUFFICES ASSUME Changes
               PROVE  /\ changes' \in 0..MaxChanges /\ calm' \in BOOLEAN /\ settled' \in 0..3
                      /\ pc' = pc /\ before' = before /\ written' = written /\ selected' = selected
                      /\ secrets' = secrets /\ writable' = writable /\ unlisted' = unlisted
                      /\ held' = held /\ faults' = faults
    OBVIOUS
  <2>1. calm' \in BOOLEAN
    BY DEF Changes
  <2>2. changes' \in 0..MaxChanges /\ settled' \in 0..3
    BY <1>0, TreeAssumption DEF Changes, TypeOK
  <2>. QED
    BY <2>1, <2>2 DEF Changes, reads
<1>m. \A xs \in SUBSET (Namespaces \cup Folders \cup Things) :
          Missed(xs) => absent' \subseteq Namespaces \cup Folders \cup Things
  BY <1>0 DEF Missed, TypeOK
<1>1. ASSUME NEW d \in Folders, Install(d) \/ Uninstall(d)
      PROVE  TypesInv'
  <2>1. d[1] \in Namespaces
    BY DEF Folders
  <2>2. UNCHANGED <<repo, things, known>> /\ nss' \subseteq Namespaces /\ helm' \subseteq Folders /\ Changes
    BY <1>0, <1>1, <2>1 DEF Install, Uninstall, TypeOK
  <2>3. absent' \subseteq Namespaces \cup Folders \cup Things
    BY <1>0, <1>1, <1>m DEF Install, Uninstall, TypeOK
  <2>4. CaptureOwns' = CaptureOwns /\ Idle' = Idle
    BY <1>c, <2>2 DEF CaptureOwns, Promoted, Protected, Idle, repo
  <2>5. TypeOK'
    BY <1>0, <1>c, <2>2, <2>3 DEF TypeOK, repo
  <2>. QED
    BY <1>0, <1>c, <2>2, <2>4, <2>5 DEF TypesInv, Ownership
<1>2. ASSUME NEW x \in Things, Create(x) \/ Delete(x) \/ Rotate(x)
      PROVE  TypesInv'
  <2>2. /\ UNCHANGED <<repo, nss, helm>> /\ things' \subseteq Things /\ known' \subseteq Secrets \cap things'
        /\ Changes
    BY <1>0, <1>2 DEF Create, Delete, Rotate, TypeOK
  <2>3. absent' \subseteq Namespaces \cup Folders \cup Things
    BY <1>0, <1>2, <1>m DEF Create, Delete, Rotate, TypeOK
  <2>4. CaptureOwns' = CaptureOwns /\ Idle' = Idle
    BY <1>c, <2>2 DEF CaptureOwns, Promoted, Protected, Idle, repo
  <2>5. TypeOK'
    BY <1>0, <1>c, <2>2, <2>3 DEF TypeOK, repo
  <2>. QED
    BY <1>0, <1>c, <2>2, <2>4, <2>5 DEF TypesInv, Ownership
<1>3. ASSUME NEW n \in Namespaces, DeleteNamespace(n)
      PROVE  TypesInv'
  <2>2. /\ UNCHANGED repo /\ nss' \subseteq Namespaces /\ helm' \subseteq Folders
        /\ things' \subseteq Things /\ known' \subseteq Secrets \cap things' /\ Changes
    BY <1>0, <1>3 DEF DeleteNamespace, TypeOK
  <2>3. absent' \subseteq Namespaces \cup Folders \cup Things
    <3>1. {d \in helm : d[1] = n} \cup {x \in things : NsOf[x] = n} \cup {n}
              \in SUBSET (Namespaces \cup Folders \cup Things)
      BY <1>0 DEF TypeOK
    <3>. QED
      BY <1>3, <1>m, <3>1 DEF DeleteNamespace
  <2>4. CaptureOwns' = CaptureOwns /\ Idle' = Idle
    BY <1>c, <2>2 DEF CaptureOwns, Promoted, Protected, Idle, repo
  <2>5. TypeOK'
    BY <1>0, <1>c, <2>2, <2>3 DEF TypeOK, repo
  <2>. QED
    BY <1>0, <1>c, <2>2, <2>4, <2>5 DEF TypesInv, Ownership
<1>4. ASSUME NEW d \in Folders, MarkPromote(d) \/ MarkHand(d) \/ RemoveFolder(d)
      PROVE  TypesInv'
  <2>1. /\ Idle /\ UNCHANGED <<cluster, absent>> /\ hand' \subseteq Folders /\ promote' \subseteq Folders
        /\ Changes
    BY <1>0, <1>4 DEF MarkPromote, MarkHand, RemoveFolder, TypeOK
  <2>2. {Ks(d), AppKust(d), HelmRelease(d), NamespaceYaml(d[1])} \subseteq File
    BY Members, FileIs DEF Folders
  <2>3. files' \subseteq File /\ lists' \subseteq File \X File
    <3>1. CASE MarkPromote(d) \/ RemoveFolder(d)
      BY <1>0, <3>1 DEF MarkPromote, RemoveFolder, TypeOK
    <3>2. CASE MarkHand(d)
      BY <1>0, <2>2, <3>2 DEF MarkHand, TypeOK
    <3>. QED
      BY <1>4, <3>1, <3>2
  <2>4. before' = {} /\ written' = {}
    BY <1>0, <1>c, <2>1 DEF Ownership
  <2>5. TypeOK'
    BY <1>0, <1>c, <2>1, <2>3, <2>4 DEF TypeOK, cluster
  <2>. QED
    BY <2>4, <2>5 DEF TypesInv, Ownership
<1>. QED
  BY <1>1, <1>2, <1>3, <1>4 DEF Change

LEMMA RunTypes == TypesInv /\ Run => TypesInv'
<1> SUFFICES ASSUME TypesInv, Run PROVE TypesInv'
  OBVIOUS
<1>0. TypeOK /\ Ownership
  BY DEF TypesInv
<1>f. \A kind : Fault(kind) => faults' \in 0..MaxFaults /\ calm' \in BOOLEAN /\ settled' \in 0..3
  <2> SUFFICES ASSUME NEW kind, Fault(kind)
               PROVE  faults' \in 0..MaxFaults /\ calm' \in BOOLEAN /\ settled' \in 0..3
    OBVIOUS
  <2>1. calm' \in BOOLEAN
    BY DEF Fault
  <2>2. faults' \in 0..MaxFaults /\ settled' \in 0..3
    BY <1>0, TreeAssumption DEF Fault, TypeOK
  <2>. QED
    BY <2>1, <2>2
<1>n. NoFault => faults' \in 0..MaxFaults /\ calm' \in BOOLEAN /\ settled' \in 0..3
  <2>1. NoFault => calm' \in BOOLEAN
    BY <1>0 DEF NoFault, TypeOK
  <2>2. NoFault => faults' \in 0..MaxFaults /\ settled' \in 0..3
    BY <1>0 DEF NoFault, TypeOK
  <2>. QED
    BY <2>1, <2>2
<1>o. UNCHANGED <<hand, promote>> => CaptureOwns' = CaptureOwns
  BY DEF CaptureOwns, Promoted, Protected
<1>1. CASE Start
  <2>1. PICK failed \in SUBSET PromotedNs :
            /\ unlisted' = failed
            /\ secrets' = UNION {SecretsOf(n) : n \in PromotedNs \ failed}
            /\ writable' = secrets' \cap known
            /\ IF failed = {} THEN calm' = TRUE /\ UNCHANGED <<faults, settled>>
               ELSE Fault("unlisted")
    BY <1>1 DEF Start
  <2>2. /\ UNCHANGED <<cluster, repo, changes>> /\ before' = files \cap CaptureOwns
        /\ written' = {} /\ selected' = {} /\ held' = {} /\ pc' = "list"
        /\ absent' \subseteq Namespaces \cup Folders \cup Things
    BY <1>1 DEF Start
  <2>3. unlisted' \subseteq Namespaces /\ secrets' \subseteq Secrets /\ writable' \subseteq secrets'
    BY <2>1 DEF PromotedNs, SecretsOf
  <2>4. calm' \in BOOLEAN /\ settled' \in 0..3 /\ faults' \in 0..MaxFaults
    <3>1. CASE failed = {}
      <4>1. calm' \in BOOLEAN
        BY <2>1, <3>1
      <4>. QED
        BY <1>0, <2>1, <3>1, <4>1 DEF TypeOK
    <3>2. CASE failed # {}
      BY <1>f, <2>1, <3>2
    <3>. QED
      BY <3>1, <3>2
  <2>5. before' \subseteq CaptureOwns'
    BY <1>o, <2>2 DEF repo
  <2>. QED
    BY <1>0, <2>2, <2>3, <2>4, <2>5 DEF TypesInv, TypeOK, Ownership, Idle, cluster, repo
<1>2. CASE ListReleases
  <2>1. TypeOK'
    BY <1>0, <1>2, <1>n DEF ListReleases, TypeOK, cluster, repo
  <2>2. Ownership'
    BY <1>0, <1>2, <1>o DEF ListReleases, Ownership, Idle, repo
  <2>. QED
    BY <2>1, <2>2 DEF TypesInv
<1>3. CASE NamespaceIsGone \/ ReleaseIsGone \/ Stop
  <2>1. PICK W \in SUBSET (File \ Protected) : Stopped(W)
    BY <1>0, <1>3, StopsWith
  <2>2. faults' \in 0..MaxFaults
    BY <1>0, <1>3, TreeAssumption DEF NamespaceIsGone, ReleaseIsGone, Stop, TypeOK
  <2>3. calm' \in BOOLEAN /\ settled' \in 0..3
    <3>1. calm' = FALSE /\ settled' = 0
      BY <2>1, Zenon DEF Stopped
    <3>2. calm' \in BOOLEAN
      BY <3>1
    <3>3. settled' \in 0..3
      BY <3>1
    <3>. QED
      BY <3>2, <3>3
  <2>5. /\ UNCHANGED <<cluster, lists, hand, promote, changes>> /\ pc' = "idle" /\ files' = files \cup W
        /\ Forget /\ absent' = {} /\ held' = {}
    BY <2>1 DEF Stopped
  <2>4. TypeOK'
    BY <1>0, <2>5, <2>2, <2>3 DEF Forget, TypeOK, cluster
  <2>. QED
    <3>1. before' = {} /\ written' = {}
      BY <2>1 DEF Stopped, Forget
    <3>. QED
      BY <2>4, <3>1 DEF TypesInv, Ownership
<1>4. CASE WriteReleases \/ WriteNamespaces \/ WriteClusterKinds \/ WriteObjects
  <2>1. PICK W \in SUBSET (File \ Protected) : \E K :
            /\ files' = files \cup W /\ written' = written \cup W \cup (K \cap before)
            /\ UNCHANGED <<cluster, lists, hand, promote, before, reads, absent, changes>>
    BY <1>0, <1>4, Writes
  <2>2. /\ pc' \in {"namespaces", "cluster", "objects", "sweep"}
        /\ calm' \in BOOLEAN /\ settled' \in 0..3 /\ faults' \in 0..MaxFaults
    <3>1. NoFault \/ \E kind : Fault(kind)
      BY <1>4 DEF WriteReleases, WriteNamespaces, WriteClusterKinds, WriteObjects
    <3>2. pc' \in {"namespaces", "cluster", "objects", "sweep"}
      BY <1>4 DEF WriteReleases, WriteNamespaces, WriteClusterKinds, WriteObjects
    <3>. QED
      BY <1>f, <1>n, <3>1, <3>2
  <2>3. held' \subseteq Namespaces
    <3>1. UNCHANGED held \/ \E listed, failed : held' = HeldNs(listed, failed) \cup Ambiguous
      BY <1>4 DEF WriteReleases, WriteNamespaces, WriteClusterKinds, WriteObjects
    <3>. QED
      BY <1>0, <3>1 DEF HeldNs, PromotedNs, Ambiguous, TypeOK
  <2>4. TypeOK'
    BY <1>0, <2>1, <2>2, <2>3 DEF TypeOK, cluster, reads
  <2>. QED
    BY <1>0, <1>o, <2>1, <2>2, <2>4 DEF TypesInv, Ownership, Idle
<1>5. CASE Sweep
  <2>1. TypeOK'
    BY <1>0, <1>5, <1>n DEF Sweep, Forget, TypeOK, cluster
  <2>. QED
    BY <1>5, <2>1 DEF Sweep, Forget, TypesInv, Ownership
<1>6. CASE Generate
  <2>1. files' \subseteq File /\ lists' \subseteq File \X File
    BY <1>0, <1>6, GenerateDoes, GenerateWrites DEF NewLists, TypeOK
  <2>2. before' = {} /\ written' = {}
    BY <1>0, <1>6, GenerateDoes DEF Ownership
  <2>3. settled' \in 0..3
    BY <1>0, <1>6 DEF Generate, TypeOK
  <2>. QED
    <3>1. TypeOK'
      BY <1>0, <1>6, <2>1, <2>2, <2>3, GenerateDoes DEF TypeOK, cluster, reads, bounds
    <3>. QED
      BY <2>2, <3>1 DEF TypesInv, Ownership
<1>. QED
  BY <1>1, <1>2, <1>3, <1>4, <1>5, <1>6 DEF Run

LEMMA NextTypes == TypesInv /\ [Next]_vars => TypesInv'
<1>1. TypesInv /\ UNCHANGED vars => TypesInv'
  <2> SUFFICES ASSUME TypesInv, UNCHANGED vars PROVE TypesInv'
    OBVIOUS
  <2>1. TypeOK'
    BY DEF vars, cluster, repo, reads, ghosts, bounds, TypesInv, TypeOK
  <2>2. Ownership'
    BY DEF vars, repo, TypesInv, Ownership, Idle, CaptureOwns, Promoted, Protected
  <2>. QED
    BY <2>1, <2>2 DEF TypesInv
<1>. QED
  BY <1>1, RunTypes, ChangeTypes DEF Next

LEMMA TypesInvariance == Spec => []TypesInv
BY InitTypes, NextTypes, PTL DEF Spec

\* The variables keep their types.
THEOREM TypesHold == Spec => []TypeOK
BY TypesInvariance, PTL DEF TypesInv

-----------------------------------------------------------------------------
(* What is written by hand.                                                *)

\* No step of a run writes, removes or relists a file of a hand-written folder.
THEOREM HandWrittenStays == Spec => HandWrittenUntouched
<1>1. TypesInv /\ [Next]_vars =>
        (changes' = changes =>
            /\ files' \cap Protected = files \cap Protected
            /\ {l \in lists' : l[1] \in Protected} = {l \in lists : l[1] \in Protected})
  <2> SUFFICES ASSUME TypesInv, [Next]_vars, changes' = changes
               PROVE  /\ files' \cap Protected = files \cap Protected
                      /\ {l \in lists' : l[1] \in Protected} = {l \in lists : l[1] \in Protected}
    OBVIOUS
  <2>0. TypeOK /\ Ownership
    BY DEF TypesInv
  <2>1. CASE Run
    <3>1. CASE Start \/ ListReleases
      BY <3>1 DEF Start, ListReleases, repo
    <3>2. CASE NamespaceIsGone \/ ReleaseIsGone \/ Stop
      BY <2>0, <3>2, StopsWith DEF Stopped
    <3>3. CASE WriteReleases \/ WriteNamespaces \/ WriteClusterKinds \/ WriteObjects
      BY <2>0, <3>3, Writes
    <3>4. CASE Sweep
      BY <2>0, <3>4 DEF Sweep, Ownership, CaptureOwns
    <3>5. CASE Generate
      <4>1. files' \cap Protected = files \cap Protected
        BY <2>0, <3>5, GenerateDoes, GenerateWrites
      <4>2. \A l \in AppEntries(files \cup Scaffolding) \cup NsEntries(files \cup Scaffolding) :
                l[1] \notin Protected
        BY <2>0, GenerateWrites
      <4>3. \A l \in lists : l[1] \in Protected => l[1] \notin NewFiles \cup SweptFiles
        BY <2>0, GenerateWrites
      <4>. QED
        BY <3>5, <4>1, <4>2, <4>3, GenerateDoes DEF NewLists
    <3>. QED
      BY <2>1, <3>1, <3>2, <3>3, <3>4, <3>5 DEF Run
  <2>2. ~Change
    <3>1. Change => Changes
      BY DEF Change, Install, Uninstall, Create, Delete, Rotate, DeleteNamespace, MarkPromote,
             MarkHand, RemoveFolder
    <3>2. Changes => changes' # changes
      BY <2>0 DEF Changes, TypeOK
    <3>. QED
      BY <3>1, <3>2
  <2>3. CASE UNCHANGED vars
    BY <2>3 DEF vars, repo
  <2>. QED
    BY <2>1, <2>2, <2>3 DEF Next
<1>. QED
  BY <1>1, TypesInvariance, PTL DEF Spec, HandWrittenUntouched

-----------------------------------------------------------------------------
(* What lives is kept.                                                     *)

\* What a run has not seen go is still there.
StillThere ==
    ~Idle => /\ Namespaces \ absent \subseteq nss
             /\ Folders \ absent \subseteq helm
             /\ Things \ absent \subseteq things

\* Of what is still there, the run has listed each release and each Secret it
\* asked for.
Listed ==
    /\ pc \in {"releases", "namespaces", "cluster", "objects", "sweep"} => Folders \ absent \subseteq selected
    /\ ~Idle => \A x \in Secrets \ absent : NsOf[x] \in PromotedNs \ unlisted => x \in secrets

\* A release it listed has its files written, unless by hand.
ReleasesWritten ==
    pc \in {"namespaces", "cluster", "objects", "sweep"} =>
        \A d \in selected \ hand : {Release(d), Values(d)} \subseteq written

\* Of what is still there a copy outlives the sweep.
CopyOutlives ==
    pc = "sweep" =>
        \A x \in Things \ absent : Copies(x, files) # {} =>
            \/ Copies(x, files \ (before \ written)) # {}
            \/ NsOf[x] \in held /\ Copies(x, files) = {Raw(x)}

\* After the sweep a folder that is still a release's has all of it, or is not
\* deployed.
FoldersWhole ==
    pc = "captured" =>
        \A d \in Folders \ (absent \cup hand \cup promote) :
            Ks(d) \in files => {Release(d), Values(d)} \subseteq files

KeepInv ==
    /\ TypesInv
    /\ StillThere /\ Listed /\ ReleasesWritten /\ CopyOutlives /\ FoldersWhole

LEMMA FilesOf ==
    ASSUME NEW x
    PROVE  /\ Raw(x) \in File => x \in Objects
           /\ \A d : Manifest(d, x) \in File => NsOf[x] = d[1]
<1>1. \A d, e : InFolder(d) \cap {Manifest(e, x)} # {} => d = e /\ NsOf[x] = d[1]
  <2> SUFFICES ASSUME NEW d, NEW e, Manifest(e, x) \in InFolder(d)
               PROVE  d = e /\ NsOf[x] = d[1]
    OBVIOUS
  <2>1. Manifest(e, x) \notin {Release(d), AppKust(d), Ks(d), Values(d), HelmRelease(d)}
    BY DEF Release, AppKust, Ks, Values, HelmRelease, Manifest
  <2>. QED
    BY <2>1, InFolderIs, Places
<1>2. \A n, e : Manifest(e, x) \notin {NamespaceYaml(n), ClusterNs(n), NsKust(n)}
  BY DEF Manifest, NamespaceYaml, ClusterNs, NsKust
<1>3. \A n : Raw(x) \notin {NamespaceYaml(n), ClusterNs(n), NsKust(n)}
  BY DEF Raw, NamespaceYaml, ClusterNs, NsKust
<1>4. \A y, e : Manifest(e, x) # Raw(y)
  BY DEF Raw, Manifest
<1>5. ASSUME Raw(x) \in File PROVE x \in Objects
  BY <1>3, <1>5, NotInAFolder, Places DEF File
<1>6. ASSUME NEW e, Manifest(e, x) \in File PROVE NsOf[x] = e[1]
  BY <1>1, <1>2, <1>4, <1>6 DEF File
<1>. QED
  BY <1>5, <1>6

\* A manifest capture may sweep is a promoted folder's.
LEMMA OwnedManifest ==
    ASSUME NEW d, NEW x, Manifest(d, x) \in CaptureOwns
    PROVE  d \in Promoted
<1>1. \A n : Manifest(d, x) \notin {NamespaceYaml(n), ClusterNs(n)}
  BY DEF Manifest, NamespaceYaml, ClusterNs
<1>2. \A e : Manifest(d, x) \notin {Release(e), Values(e), HelmRelease(e)}
  BY DEF Manifest, Release, Values, HelmRelease
<1>3. \A y : Manifest(d, x) # Raw(y)
  BY DEF Manifest, Raw
<1>4. PICK e \in Promoted : Manifest(d, x) \in AppFiles(e)
  BY <1>1, <1>2, <1>3 DEF CaptureOwns
<1>5. Manifest(d, x) \in Manifests(e)
  BY <1>2, <1>4 DEF AppFiles
<1>6. PICK y : Manifest(d, x) = Manifest(e, y)
  BY <1>5 DEF Manifests
<1>. QED
  BY <1>4, <1>6, Places

\* What WriteObjects holds as it is.
LEMMA HeldInDoubt ==
    ASSUME NEW listed, NEW failed
    PROVE  /\ \A n \in HeldNs(listed, failed) : AppFiles(FolderOf(n)) \subseteq KeptInDoubt(listed, failed)
           /\ \A n \in PromotedNs \ HeldNs(listed, failed) : SecretsKept(n) \subseteq KeptInDoubt(listed, failed)
           /\ \A d \in Promoted : d[1] \in Ambiguous => AppFiles(d) \subseteq KeptInDoubt(listed, failed)
           /\ \A x \in Objects : KindOf[x] \in failed => Raw(x) \in KeptInDoubt(listed, failed)
<1> DEFINE holds == {AppFiles(FolderOf(n)) : n \in HeldNs(listed, failed)}
           kept == {SecretsKept(n) : n \in PromotedNs \ HeldNs(listed, failed)}
           several == {AppFiles(d) \cup {NamespaceYaml(d[1])} : d \in {e \in Promoted : e[1] \in Ambiguous}}
           gone == {NamespaceYaml(n) : n \in PromotedNs \ nss}
           raws == {Raw(x) : x \in {y \in Objects : KindOf[y] \in failed}}
<1>0. KeptInDoubt(listed, failed) = (UNION holds) \cup (UNION kept) \cup (UNION several) \cup gone \cup raws
  BY DEF KeptInDoubt
<1>1. \A n \in HeldNs(listed, failed) : AppFiles(FolderOf(n)) \in holds
  OBVIOUS
<1>2. \A n \in PromotedNs \ HeldNs(listed, failed) : SecretsKept(n) \in kept
  OBVIOUS
<1>3. \A d \in Promoted : d[1] \in Ambiguous => AppFiles(d) \cup {NamespaceYaml(d[1])} \in several
  OBVIOUS
<1>4. \A x \in Objects : KindOf[x] \in failed => Raw(x) \in raws
  OBVIOUS
<1> HIDE DEF holds, kept, several, gone, raws
<1>5. \A n \in HeldNs(listed, failed) : AppFiles(FolderOf(n)) \subseteq KeptInDoubt(listed, failed)
  BY <1>0, <1>1
<1>6. \A n \in PromotedNs \ HeldNs(listed, failed) : SecretsKept(n) \subseteq KeptInDoubt(listed, failed)
  BY <1>0, <1>2
<1>7. \A d \in Promoted : d[1] \in Ambiguous => AppFiles(d) \subseteq KeptInDoubt(listed, failed)
  <2> SUFFICES ASSUME NEW d \in Promoted, d[1] \in Ambiguous, NEW f \in AppFiles(d)
               PROVE  f \in KeptInDoubt(listed, failed)
    OBVIOUS
  <2> DEFINE its == AppFiles(d) \cup {NamespaceYaml(d[1])}
  <2>1. its \in several /\ f \in its
    BY <1>3
  <2> HIDE DEF its
  <2>. QED
    BY <1>0, <2>1
<1>8. \A x \in Objects : KindOf[x] \in failed => Raw(x) \in KeptInDoubt(listed, failed)
  BY <1>0, <1>4
<1>. QED
  BY <1>5, <1>6, <1>7, <1>8

\* A manifest of a promoted folder, of an object the run listed or a Secret it
\* asked for and could list, is written or kept.
LEMMA ManifestStays ==
    ASSUME KeepInv, pc = "objects", NEW x \in Things \ absent, NEW d \in Promoted, NsOf[x] = d[1],
           NEW failed \in SUBSET Kinds, NEW listed,
           listed = {y \in Objects \cap things : KindOf[y] \notin failed}
    PROVE  Manifest(d, x) \in
              (UNION {PromotedManifests(n, listed) : n \in PromotedNs \ HeldNs(listed, failed)})
                 \cup KeptInDoubt(listed, failed)
<1> DEFINE n == d[1]
           sets == {PromotedManifests(m, listed) : m \in PromotedNs \ HeldNs(listed, failed)}
           kept == KeptInDoubt(listed, failed)
<1>0. TypeOK /\ StillThere /\ Listed /\ ~Idle
  BY DEF KeepInv, TypesInv, Idle
<1>1. Manifest(d, x) \in AppFiles(d)
  BY Members
<1>2. n \in PromotedNs \cup Ambiguous
  BY <1>0, ItsNamespace DEF TypeOK
<1>3. CASE n \in Ambiguous
  BY <1>1, <1>3, HeldInDoubt
<1>4. CASE n \in HeldNs(listed, failed)
  <2>1. n \in PromotedNs
    BY <1>4 DEF HeldNs
  <2>2. d = FolderOf(n)
    BY <1>0, <2>1, ItsFolder DEF TypeOK
  <2>. QED
    BY <1>1, <1>4, <2>2, HeldInDoubt
<1>5. CASE n \in PromotedNs \ HeldNs(listed, failed)
  <2>1. d = FolderOf(n)
    BY <1>0, <1>5, ItsFolder DEF TypeOK
  <2>2. failed = {}
    BY <1>5 DEF HeldNs
  <2>3. PromotedManifests(n, listed) \in sets
    BY <1>5
  <2>4. x \in things
    BY <1>0 DEF StillThere
  <2>5. CASE x \in Objects
    <3>1. x \in listed
      BY <2>2, <2>4, <2>5
    <3>2. Manifest(d, x) \in PromotedManifests(n, listed)
      BY <2>1, <3>1 DEF PromotedManifests
    <3> HIDE DEF sets
    <3>3. Manifest(d, x) \in UNION sets
      BY <2>3, <3>2
    <3>. QED
      BY <3>3 DEF sets
  <2>6. CASE x \in writable
    <3>2. Manifest(d, x) \in PromotedManifests(n, listed)
      BY <2>1, <2>6 DEF PromotedManifests, WrittenSecrets
    <3> HIDE DEF sets
    <3>3. Manifest(d, x) \in UNION sets
      BY <2>3, <3>2
    <3>. QED
      BY <3>3 DEF sets
  <2>7. CASE x \in Secrets \ writable
    <3>1. n \in unlisted \/ x \in secrets
      BY <1>0, <1>5, <2>7 DEF Listed
    <3>2. Manifest(d, x) \in SecretsKept(n)
      BY <2>1, <2>7, <3>1 DEF SecretsKept
    <3>. QED
      BY <1>5, <3>2, HeldInDoubt
  <2>. QED
    BY <2>5, <2>6, <2>7 DEF Objects
<1>. QED
  BY <1>2, <1>3, <1>4, <1>5

LEMMA WriteObjectsKeeps ==
    ASSUME KeepInv, WriteObjects
    PROVE  CopyOutlives'
<1> DEFINE listed(failed) == {x \in Objects \cap things : KindOf[x] \notin failed}
           raws(failed) == {Raw(x) : x \in {y \in listed(failed) : NsOf[y] \notin PromotedNs \cup Ambiguous}}
           yamls == {NamespaceYaml(n) : n \in PromotedNs \cap nss} \ Protected
           manifests(failed) == UNION {PromotedManifests(n, listed(failed)) :
                                          n \in PromotedNs \ HeldNs(listed(failed), failed)}
<1>1. PICK failed \in SUBSET Kinds :
          /\ WriteAndKeep(raws(failed) \cup yamls \cup manifests(failed), KeptInDoubt(listed(failed), failed))
          /\ held' = HeldNs(listed(failed), failed) \cup Ambiguous
  BY DEF WriteObjects
<1>2. pc = "objects" /\ UNCHANGED <<cluster, lists, hand, promote, before, reads, absent, changes>>
  BY DEF WriteObjects
<1>3. TypeOK /\ Ownership /\ StillThere /\ Listed /\ ~Idle
  BY <1>2 DEF KeepInv, TypesInv, Idle
<1> DEFINE L == listed(failed)
           W == raws(failed) \cup yamls \cup manifests(failed)
           K == KeptInDoubt(L, failed)
<1>4. files' = files \cup W /\ written' = written \cup W \cup (K \cap before)
  BY <1>1 DEF WriteAndKeep, Keep
<1>5. \A f \in W \cup K : f \notin before' \ written'
  BY <1>2, <1>4
<1>6. ASSUME NEW x \in Things \ absent, NEW d \in Folders, Manifest(d, x) \in files'
      PROVE  Manifest(d, x) \notin before' \ written'
  <2>1. CASE d \in Promoted
    <3>1. NsOf[x] = d[1]
      <4>1. Manifest(d, x) \in File
        BY <1>6, <1>2, <1>3, RunTypes DEF Run, TypesInv, KeepInv, TypeOK
      <4>. QED
        BY <4>1, FilesOf
    <3>2. Manifest(d, x) \in manifests(failed) \cup K
      BY <1>2, <2>1, <3>1, ManifestStays
    <3>. QED
      BY <1>5, <3>2
  <2>2. CASE d \notin Promoted
    BY <1>2, <1>3, <2>2, OwnedManifest DEF Ownership
  <2>. QED
    BY <2>1, <2>2
<1>7. ASSUME NEW x \in Things \ absent, Raw(x) \in files'
      PROVE  \/ Raw(x) \notin before' \ written'
             \/ NsOf[x] \in held'
             \/ \E d \in Folders : Manifest(d, x) \in files'
  <2> DEFINE n == NsOf[x]
  <2>1. Raw(x) \in File
    BY <1>7, <1>2, <1>3, RunTypes DEF Run, TypesInv, KeepInv, TypeOK
  <2>2. x \in Objects /\ x \in things
    BY <1>3, <2>1, FilesOf DEF StillThere
  <2>3. CASE n \in HeldNs(L, failed) \cup Ambiguous
    BY <1>1, <2>3
  <2>4. CASE KindOf[x] \in failed
    BY <1>5, <2>2, <2>4, HeldInDoubt
  <2>5. CASE n \notin PromotedNs \cup Ambiguous /\ KindOf[x] \notin failed
    <3>1. Raw(x) \in raws(failed)
      BY <2>2, <2>5
    <3>. QED
      BY <1>5, <3>1
  <2>6. CASE n \in PromotedNs \ HeldNs(L, failed) /\ KindOf[x] \notin failed
    <3>1. FolderOf(n) \in Folders
      BY <1>3, <2>6, ItsFolder DEF TypeOK
    <3>2. Manifest(FolderOf(n), x) \in PromotedManifests(n, L)
      BY <2>2, <2>6 DEF PromotedManifests
    <3> DEFINE sets == {PromotedManifests(m, L) : m \in PromotedNs \ HeldNs(L, failed)}
    <3>3. PromotedManifests(n, L) \in sets
      BY <2>6
    <3>4. manifests(failed) = UNION sets
      OBVIOUS
    <3> HIDE DEF sets, manifests
    <3>5. Manifest(FolderOf(n), x) \in manifests(failed)
      BY <3>2, <3>3, <3>4
    <3>. QED
      BY <1>4, <3>1, <3>5
  <2>. QED
    BY <2>3, <2>4, <2>5, <2>6
<1> SUFFICES ASSUME NEW x \in Things \ absent', Copies(x, files') # {}
             PROVE  \/ Copies(x, files' \ (before' \ written')) # {}
                    \/ NsOf[x] \in held' /\ Copies(x, files') = {Raw(x)}
  BY DEF CopyOutlives
<1> HIDE DEF W, K, L
<1>8. x \in Things \ absent
  BY <1>2
<1>9. CASE \E d \in Folders : Manifest(d, x) \in files'
  BY <1>6, <1>8, <1>9 DEF Copies
<1>10. CASE \A d \in Folders : Manifest(d, x) \notin files'
  <2>1. Copies(x, files') = {Raw(x)}
    BY <1>10 DEF Copies
  <2>2. Raw(x) \in files'
    BY <2>1 DEF Copies
  <2>. QED
    BY <1>7, <1>8, <1>10, <2>1, <2>2 DEF Copies
<1>. QED
  BY <1>9, <1>10

LEMMA InitKeeps == Init => KeepInv
<1> SUFFICES ASSUME Init PROVE KeepInv
  OBVIOUS
<1>1. TypesInv
  BY InitTypes
<1>2. pc = "idle"
  BY DEF Init
<1>. QED
  BY <1>1, <1>2 DEF KeepInv, StillThere, Listed, ReleasesWritten, CopyOutlives, FoldersWhole, Idle

\* The cluster's own steps: what goes during a run is missed.
LEMMA ClusterKeeps ==
    ASSUME KeepInv,
           \/ \E d \in Folders : Install(d) \/ Uninstall(d)
           \/ \E x \in Things : Create(x) \/ Delete(x) \/ Rotate(x)
           \/ \E n \in Namespaces : DeleteNamespace(n)
    PROVE  KeepInv'
<1>0. StillThere
  BY DEF KeepInv
<1>1. UNCHANGED repo /\ Changes
  BY DEF Install, Uninstall, Create, Delete, Rotate, DeleteNamespace
<1>2. absent \subseteq absent'
  BY DEF Install, Uninstall, Create, Delete, Rotate, DeleteNamespace, Missed
<1>3. ~Idle => /\ Namespaces \ absent' \subseteq nss'
               /\ Folders \ absent' \subseteq helm'
               /\ Things \ absent' \subseteq things'
  <2> SUFFICES ASSUME ~Idle
               PROVE  /\ Namespaces \ absent' \subseteq nss'
                      /\ Folders \ absent' \subseteq helm'
                      /\ Things \ absent' \subseteq things'
    OBVIOUS
  <2>1. CASE \E d \in Folders : Install(d) \/ Uninstall(d)
    BY <1>0, <2>1 DEF StillThere, Install, Uninstall, Missed
  <2>2. CASE \E x \in Things : Create(x) \/ Delete(x) \/ Rotate(x)
    BY <1>0, <2>2 DEF StillThere, Create, Delete, Rotate, Missed
  <2>3. CASE \E n \in Namespaces : DeleteNamespace(n)
    BY <1>0, <2>3 DEF StillThere, DeleteNamespace, Missed
  <2>. QED
    BY <2>1, <2>2, <2>3
<1>4. /\ pc' = pc /\ before' = before /\ written' = written /\ held' = held /\ selected' = selected
      /\ secrets' = secrets /\ unlisted' = unlisted
  BY <1>1 DEF Changes, reads
<1>5. files' = files /\ hand' = hand /\ promote' = promote /\ PromotedNs' = PromotedNs
  BY <1>1 DEF repo, PromotedNs, PromotedIn, Promoted
<1>6. TypesInv'
  BY ChangeTypes DEF KeepInv, Change
<1>7. StillThere'
  BY <1>3, <1>4 DEF StillThere, Idle
<1>8. Listed' /\ ReleasesWritten'
  BY <1>2, <1>4, <1>5 DEF KeepInv, Listed, ReleasesWritten, Idle
<1>9. CopyOutlives' /\ FoldersWhole'
  BY <1>2, <1>4, <1>5 DEF KeepInv, CopyOutlives, FoldersWhole, Copies
<1>. QED
  BY <1>6, <1>7, <1>8, <1>9 DEF KeepInv

\* The operator's: a marked folder has its own files, a removed one none.
LEMMA MarkersKeep ==
    ASSUME KeepInv, NEW d \in Folders, MarkPromote(d) \/ MarkHand(d) \/ RemoveFolder(d)
    PROVE  KeepInv'
<1>1. /\ Idle /\ pc' = pc /\ absent' = absent
  BY DEF MarkPromote, MarkHand, RemoveFolder, Changes
<1>2. TypesInv'
  BY ChangeTypes DEF KeepInv, Change
<1>3. StillThere' /\ Listed' /\ ReleasesWritten' /\ CopyOutlives'
  BY <1>1 DEF Idle, StillThere, Listed, ReleasesWritten, CopyOutlives
<1>4. FoldersWhole'
  <2> SUFFICES ASSUME pc = "captured", NEW e \in Folders, e \notin absent \cup hand' \cup promote',
                      Ks(e) \in files'
               PROVE  {Release(e), Values(e)} \subseteq files'
    BY <1>1 DEF FoldersWhole
  <2>1. FoldersWhole
    BY DEF KeepInv
  <2>2. CASE MarkPromote(d)
    BY <2>1, <2>2 DEF MarkPromote, FoldersWhole
  <2>3. CASE MarkHand(d)
    <3>1. e # d /\ e \notin absent \cup hand \cup promote
      BY <2>3 DEF MarkHand
    <3>2. Ks(e) \in files
      BY <2>3, <3>1, Places DEF MarkHand, Ks, AppKust, HelmRelease, NamespaceYaml
    <3>. QED
      BY <2>1, <2>3, <3>1, <3>2 DEF MarkHand, FoldersWhole
  <2>4. CASE RemoveFolder(d)
    <3>1. Ks(e) \in files /\ Ks(e) \notin InFolder(d)
      BY <2>4 DEF RemoveFolder
    <3>2. e # d
      BY <3>1, Members
    <3>3. e \notin absent \cup hand \cup promote
      BY <2>4, <3>2 DEF RemoveFolder
    <3>4. {Release(e), Values(e)} \subseteq files
      BY <2>1, <3>1, <3>3 DEF FoldersWhole
    <3>5. Release(e) \notin InFolder(d) /\ Values(e) \notin InFolder(d)
      BY <3>2, Members, OneFolder
    <3>. QED
      BY <2>4, <3>4, <3>5 DEF RemoveFolder
  <2>. QED
    BY <2>2, <2>3, <2>4
<1>. QED
  BY <1>2, <1>3, <1>4 DEF KeepInv

LEMMA RunKeeps == KeepInv /\ Run => KeepInv'
<1> SUFFICES ASSUME KeepInv, Run PROVE KeepInv'
  OBVIOUS
<1>0. TypesInv /\ TypeOK /\ Ownership /\ StillThere /\ Listed /\ ReleasesWritten
  BY DEF KeepInv, TypesInv
<1>t. TypesInv'
  BY <1>0, RunTypes
<1>p. UNCHANGED <<hand, promote>> => PromotedNs' = PromotedNs
  BY DEF PromotedNs, PromotedIn, Promoted
<1>1. CASE Start
  <2>1. /\ pc' = "list" /\ UNCHANGED <<cluster, repo>>
        /\ absent' = (Namespaces \ nss) \cup (Folders \ helm) \cup (Things \ things)
    BY <1>1 DEF Start
  <2>2. PICK failed \in SUBSET PromotedNs :
            unlisted' = failed /\ secrets' = UNION {SecretsOf(n) : n \in PromotedNs \ failed}
    BY <1>1 DEF Start
  <2>3. StillThere'
    BY <2>1 DEF StillThere, cluster
  <2>4. ASSUME NEW x \in Secrets \ absent', NsOf[x] \in PromotedNs' \ unlisted'
        PROVE  x \in secrets'
    <3> DEFINE sets == {SecretsOf(n) : n \in PromotedNs \ failed}
    <3>1. NsOf[x] \in PromotedNs \ failed
      BY <1>p, <2>1, <2>2, <2>4 DEF repo
    <3>2. x \in SecretsOf(NsOf[x])
      BY <2>1, <2>4 DEF SecretsOf, Secrets
    <3>3. SecretsOf(NsOf[x]) \in sets
      BY <3>1
    <3>4. secrets' = UNION sets
      BY <2>2
    <3> HIDE DEF sets
    <3>. QED
      BY <3>2, <3>3, <3>4
  <2>5. Listed'
    BY <2>1, <2>4 DEF Listed, Idle
  <2>. QED
    BY <1>t, <2>1, <2>3, <2>5 DEF KeepInv, ReleasesWritten, CopyOutlives, FoldersWhole
<1>2. CASE ListReleases
  <2>1. /\ pc = "list" /\ pc' = "releases" /\ selected' = helm
        /\ UNCHANGED <<cluster, repo, secrets, unlisted, absent>>
    BY <1>2 DEF ListReleases
  <2>2. StillThere'
    BY <1>0, <2>1 DEF StillThere, Idle, cluster
  <2>3. Listed'
    BY <1>0, <1>p, <2>1 DEF Listed, StillThere, Idle, repo
  <2>. QED
    BY <1>t, <2>1, <2>2, <2>3 DEF KeepInv, ReleasesWritten, CopyOutlives, FoldersWhole
<1>3. CASE NamespaceIsGone \/ ReleaseIsGone \/ Stop
  <2>1. pc' = "idle"
    BY <1>0, <1>3, StopsWith DEF Stopped
  <2>. QED
    BY <1>t, <2>1 DEF KeepInv, StillThere, Listed, ReleasesWritten, CopyOutlives, FoldersWhole, Idle
<1>4. CASE WriteReleases \/ WriteNamespaces \/ WriteClusterKinds \/ WriteObjects
  <2>1. UNCHANGED <<cluster, lists, hand, promote, before, reads, absent, changes>> /\ written \subseteq written'
    BY <1>0, <1>4, Writes
  <2>2. /\ pc \in {"releases", "namespaces", "cluster", "objects"}
        /\ pc' \in {"namespaces", "cluster", "objects", "sweep"}
        /\ pc = "releases" => WriteReleases
    BY <1>4 DEF WriteReleases, WriteNamespaces, WriteClusterKinds, WriteObjects
  <2>3. StillThere'
    BY <1>0, <2>1, <2>2 DEF StillThere, Idle, cluster
  <2>4. Listed'
    BY <1>0, <1>p, <2>1, <2>2 DEF Listed, Idle, reads
  <2>5. ReleasesWritten'
    <3>1. CASE pc = "releases"
      <4>1. written' = written \cup ReleaseFiles(selected)
        BY <2>2, <3>1 DEF WriteReleases, Write
      <4>2. \A d \in selected \ hand : {Release(d), Values(d)} \subseteq written'
        BY <4>1 DEF ReleaseFiles
      <4>. QED
        BY <2>1, <4>2 DEF ReleasesWritten, reads
    <3>2. CASE pc # "releases"
      BY <1>0, <2>1, <2>2, <3>2 DEF ReleasesWritten, reads
    <3>. QED
      BY <3>1, <3>2
  <2>6. CopyOutlives'
    <3>1. CASE WriteObjects
      BY <3>1, WriteObjectsKeeps
    <3>2. CASE WriteReleases \/ WriteNamespaces \/ WriteClusterKinds
      BY <3>2 DEF WriteReleases, WriteNamespaces, WriteClusterKinds, CopyOutlives
    <3>. QED
      BY <1>4, <3>1, <3>2
  <2>7. FoldersWhole'
    BY <2>2 DEF FoldersWhole
  <2>. QED
    BY <1>t, <2>3, <2>4, <2>5, <2>6, <2>7 DEF KeepInv
<1>5. CASE Sweep
  <2>1. /\ pc = "sweep" /\ pc' = "captured" /\ files' = files \ (before \ written)
        /\ UNCHANGED <<hand, promote, absent>>
    BY <1>5 DEF Sweep
  <2>2. \A d \in Folders \ (absent \cup hand) : {Release(d), Values(d)} \subseteq written
    BY <1>0, <2>1 DEF Listed, ReleasesWritten
  <2>3. \A d \in Folders \ (absent \cup hand) : {Release(d), Values(d)} \subseteq files'
    BY <1>0, <2>1, <2>2 DEF TypeOK
  <2>4. FoldersWhole'
    BY <2>1, <2>3 DEF FoldersWhole
  <2>. QED
    BY <1>t, <2>1, <2>4 DEF KeepInv, StillThere, Listed, ReleasesWritten, CopyOutlives, Idle
<1>6. CASE Generate
  <2>1. pc' = "idle"
    BY <1>6, GenerateDoes
  <2>. QED
    BY <1>t, <2>1 DEF KeepInv, StillThere, Listed, ReleasesWritten, CopyOutlives, FoldersWhole, Idle
<1>. QED
  BY <1>1, <1>2, <1>3, <1>4, <1>5, <1>6 DEF Run

LEMMA KeepInvariance == Spec => []KeepInv
<1>1. KeepInv /\ UNCHANGED vars => KeepInv'
  <2> SUFFICES ASSUME KeepInv, UNCHANGED vars PROVE KeepInv'
    OBVIOUS
  <2>1. TypesInv'
    BY NextTypes DEF KeepInv
  <2>2. StillThere' /\ Listed' /\ ReleasesWritten'
    BY DEF KeepInv, StillThere, Listed, ReleasesWritten, Idle, PromotedNs, PromotedIn, Promoted,
           vars, cluster, repo, reads, ghosts
  <2>3. CopyOutlives' /\ FoldersWhole'
    BY DEF KeepInv, CopyOutlives, FoldersWhole, Copies, vars, repo, ghosts
  <2>. QED
    BY <2>1, <2>2, <2>3 DEF KeepInv
<1>2. KeepInv /\ Change => KeepInv'
  BY ClusterKeeps, MarkersKeep DEF Change
<1>. QED
  BY <1>1, <1>2, InitKeeps, RunKeeps, PTL DEF Spec, Next

\* What lived through the whole of a run keeps, after the sweep and after
\* generate, the files it had: those Flux would take as an uninstall.
THEOREM LivingKept == Spec => KeepsWhatLives
<1>1. ASSUME KeepInv, [Next]_vars, Swept
      PROVE  /\ \A d \in Folders \ absent : Release(d) \in files => Release(d) \in files'
             /\ \A x \in Things \ absent : Copies(x, files) # {} =>
                  \/ Copies(x, files') # {}
                  \/ NsOf[x] \in held /\ Copies(x, files) = {Raw(x)}
  <2>1. Sweep
    <3>1. ~Change /\ ~UNCHANGED vars
      BY <1>1 DEF Swept, Change, Install, Uninstall, Create, Delete, Rotate, DeleteNamespace, MarkPromote,
                  MarkHand, RemoveFolder, Changes, vars
    <3>2. ~Start /\ ~ListReleases /\ ~NamespaceIsGone /\ ~ReleaseIsGone /\ ~Stop /\ ~Generate
      BY <1>1 DEF Swept, Start, ListReleases, NamespaceIsGone, ReleaseIsGone, Stop, Stopped, Generate
    <3>3. ~WriteReleases /\ ~WriteNamespaces /\ ~WriteClusterKinds /\ ~WriteObjects
      BY <1>1 DEF Swept, WriteReleases, WriteNamespaces, WriteClusterKinds, WriteObjects
    <3>. QED
      BY <1>1, <3>1, <3>2, <3>3 DEF Next, Run
  <2>2. pc = "sweep" /\ files' = files \ (before \ written)
    BY <2>1 DEF Sweep
  <2>3. ASSUME NEW d \in Folders \ absent, Release(d) \in files
        PROVE  Release(d) \in files'
    <3>1. CASE d \in hand
      <4>1. Release(d) \notin before
        BY <1>1, <3>1, Members, ProtectedIs DEF KeepInv, TypesInv, Ownership, CaptureOwns
      <4>. QED
        BY <2>2, <2>3, <4>1
    <3>2. CASE d \notin hand
      <4>1. Release(d) \in written
        BY <1>1, <2>2, <2>3, <3>2 DEF KeepInv, Listed, ReleasesWritten
      <4>. QED
        BY <2>2, <2>3, <4>1
    <3>. QED
      BY <3>1, <3>2
  <2>4. ASSUME NEW x \in Things \ absent, Copies(x, files) # {}
        PROVE  \/ Copies(x, files') # {}
               \/ NsOf[x] \in held /\ Copies(x, files) = {Raw(x)}
    BY <1>1, <2>2, <2>4 DEF KeepInv, CopyOutlives
  <2>. QED
    BY <2>3, <2>4
<1>2. ASSUME KeepInv, [Next]_vars, Generated, NEW d \in Folders, Ks(d) \in files \ files'
      PROVE  \/ d \in absent
             \/ d \in Promoted /\ \A x \in Things : Copies(x, files) \cap InFolder(d) = {}
  <2>1. Generate
    <3>1. ~Change /\ ~UNCHANGED vars
      BY <1>2 DEF Generated, Change, Install, Uninstall, Create, Delete, Rotate, DeleteNamespace, MarkPromote,
                  MarkHand, RemoveFolder, Changes, vars
    <3>2. ~Start /\ ~ListReleases /\ ~NamespaceIsGone /\ ~ReleaseIsGone /\ ~Stop /\ ~Sweep
      BY <1>2 DEF Generated, Idle, Start, ListReleases, NamespaceIsGone, ReleaseIsGone, Stop, Stopped, Sweep
    <3>3. ~WriteReleases /\ ~WriteNamespaces /\ ~WriteClusterKinds /\ ~WriteObjects
      BY <1>2 DEF Generated, WriteReleases, WriteNamespaces, WriteClusterKinds, WriteObjects
    <3>. QED
      BY <1>2, <3>1, <3>2, <3>3 DEF Next, Run
  <2>2. Ks(d) \in SweptFiles
    BY <1>2, <2>1, GenerateDoes
  <2>3. d \notin hand
    BY <1>2, <2>2, GenerateWrites, Members, ProtectedIs DEF KeepInv, TypesInv
  <2>4. d \notin HelmFolders \cup PromotedFolders
    <3> DEFINE all == {{AppKust(e), Ks(e)} : e \in HelmFolders \cup PromotedFolders}
               two == {AppKust(d), Ks(d)}
    <3>1. SUFFICES ASSUME d \in HelmFolders \cup PromotedFolders PROVE FALSE
      OBVIOUS
    <3>2. two \in all /\ Ks(d) \in two
      BY <3>1
    <3>3. UNION all \subseteq NewFiles
      BY DEF NewFiles, Scaffolding
    <3> HIDE DEF all, two
    <3>. QED
      BY <2>2, <3>2, <3>3 DEF SweptFiles
  <2>5. CASE d \in promote
    <3>1. d \in Promoted /\ AppFiles(d) \cap files = {}
      BY <2>3, <2>4, <2>5 DEF Promoted, PromotedFolders
    <3>2. ASSUME NEW x \in Things, NEW f \in Copies(x, files), f \in InFolder(d) PROVE FALSE
      <4>1. f \in files /\ f \notin AppFiles(d)
        BY <3>1, <3>2 DEF Copies
      <4>2. f # Raw(x)
        BY <3>2, NotInAFolder
      <4>3. PICK e \in Folders : f = Manifest(e, x)
        BY <3>2, <4>2 DEF Copies
      <4>4. f \notin {Release(d), AppKust(d), Ks(d), Values(d), HelmRelease(d)}
        BY <4>3 DEF Release, AppKust, Ks, Values, HelmRelease, Manifest
      <4>. QED
        BY <3>2, <4>1, <4>4, InFolderIs, Members
    <3>. QED
      BY <3>1, <3>2
  <2>6. CASE d \notin promote
    <3>1. ~({Release(d), Values(d)} \subseteq files)
      BY <2>3, <2>4, <2>6 DEF HelmFolders
    <3>. QED
      BY <1>2, <2>3, <2>6, <3>1 DEF KeepInv, FoldersWhole, Generated
  <2>. QED
    BY <2>5, <2>6
<1>3. KeepInv /\ [Next]_vars =>
         /\ Swept =>
               /\ \A d \in Folders \ absent : Release(d) \in files => Release(d) \in files'
               /\ \A x \in Things \ absent : Copies(x, files) # {} =>
                     \/ Copies(x, files') # {}
                     \/ NsOf[x] \in held /\ Copies(x, files) = {Raw(x)}
         /\ Generated =>
               \A d \in Folders : Ks(d) \in files \ files' =>
                   \/ d \in absent
                   \/ d \in Promoted /\ \A x \in Things : Copies(x, files) \cap InFolder(d) = {}
  BY <1>1, <1>2
<1>. QED
  BY <1>3, KeepInvariance, PTL DEF Spec, KeepsWhatLives
-----------------------------------------------------------------------------
(* What the tree comes to be.                                              *)

\* Whatever a run, the cluster and the operator do: a marker is of one kind, a
\* hand-written folder has its files, a manifest is in a promoted folder, and
\* what a run finds or writes of its own it has in before or in written.
MarkersApart == hand \cap promote = {} /\ helm \cap promote = {}
InNamespaces == (\A d \in helm : d[1] \in nss) /\ (\A x \in things : NsOf[x] \in nss)
HandHasFiles == \A d \in hand : {NamespaceYaml(d[1]), Ks(d), AppKust(d), HelmRelease(d)} \subseteq files
ManifestsPromoted == \A d \in Folders, x \in Things : Manifest(d, x) \in files => d \in promote
ListedByFiles == \A l \in lists :
    /\ l[1] \in files
    /\ \/ \E d \in Folders : l[1] = AppKust(d) /\ (d \in hand => l[2] = HelmRelease(d))
       \/ \E n \in Namespaces : l[1] = NsKust(n)
Tracked == ~Idle => files \cap CaptureOwns \subseteq before \cup written
SettledIsCalm == settled > 0 => calm

BaseInv == /\ MarkersApart /\ InNamespaces /\ HandHasFiles /\ ManifestsPromoted
           /\ ListedByFiles /\ Tracked /\ SettledIsCalm

\* A promoted folder a run leaves as it is, and what else is in n.
Doubtful(d) == d[1] \in Ambiguous \/ \E x \in things \cap Redacted : NsOf[x] = d[1]
Deployed(n) == \E d \in helm \cup hand \cup promote : d[1] = n

\* What the cluster and the markers allow capture's files to be.
MayRelease(fs) ==
    /\ \A d \in Folders \ hand : Release(d) \in fs => d \in helm
    /\ \A d \in Folders \ (hand \cup promote) : Values(d) \in fs => d \in helm
MayPromoted(fs) ==
    \A d \in promote : ~Doubtful(d) =>
        \A f \in AppFiles(d) \cap fs : \E x \in things : NsOf[x] = d[1] /\ f = Manifest(d, x)
MayRaw(fs) == \A x \in Objects : Raw(x) \in fs => x \in things /\ NsOf[x] \notin PromotedNs \cup Ambiguous
MayNamespace(fs) ==
    \A n \in Namespaces : /\ NamespaceYaml(n) \in fs => Deployed(n)
                          /\ ClusterNs(n) \in fs => n \in nss /\ ~Deployed(n)
May(fs) == MayRelease(fs) /\ MayPromoted(fs) /\ MayRaw(fs) /\ MayNamespace(fs)

\* What they call for.
MustRelease(fs) == \A d \in helm \ hand : {Release(d), Values(d)} \subseteq fs
MustNamespace(fs, ns) == \A n \in ns : NamespaceYaml(n) \in fs \cup Protected
MustRaw(fs) == \A x \in Objects \cap things : NsOf[x] \notin PromotedNs \cup Ambiguous => Raw(x) \in fs
MustPromoted(fs) ==
    \A d \in promote, x \in things : NsOf[x] = d[1] /\ ~Doubtful(d) /\ x \in Objects \cup known => Manifest(d, x) \in fs
HelmNs == {d[1] : d \in helm}
Must(fs) == MustRelease(fs) /\ MustNamespace(fs, HelmNs \cup PromotedNs) /\ MustRaw(fs) /\ MustPromoted(fs)

PromotedThere == {d[1] : d \in Promoted} \subseteq nss

ObjectsThere == Objects \cap things

\* Of a run that nothing has disturbed yet: what it has read is so, what it has
\* written or keeps is allowed, and what is called for is written step by step.
ReadsRight ==
    /\ unlisted = {} /\ secrets = {x \in Secrets \cap things : NsOf[x] \in PromotedNs}
    /\ writable = secrets \cap known
    /\ pc # "list" => selected = helm /\ PromotedThere
SoFar ==
    /\ pc \in {"namespaces", "cluster", "objects", "sweep"} => MustRelease(written)
    /\ pc \in {"cluster", "objects", "sweep"} => MustNamespace(written, HelmNs)
    /\ pc = "sweep" => Must(written) /\ KeptInDoubt(ObjectsThere, {}) \cap before \subseteq written
CourseInv == calm /\ ~Idle => ReadsRight /\ May(written) /\ SoFar

\* After the sweep of such a run capture's part of the tree is right but for
\* namespaces that had left-overs.
CapturedInv == calm /\ (Idle \/ settled > 0) => PromotedThere /\ May(files) /\ Must(files)

\* After its generate the rest is, but for promoted folders that had left-overs.
Scaffolded ==
    /\ \A d \in Folders \ hand : /\ HelmRelease(d) \in files <=> d \in helm
                                 /\ {AppKust(d), Ks(d)} \cap files # {} => d \in helm \cup promote
    /\ \A d \in helm \ hand : {AppKust(d), Ks(d)} \subseteq files
    /\ \A d \in promote : AppFiles(d) \cap files # {} => {AppKust(d), Ks(d)} \subseteq files
    /\ \A n \in Namespaces : NsKust(n) \in files <=> NamespaceYaml(n) \in files
DeployedInv == settled > 0 => Scaffolded

\* The second run clears those up,
BareNamespaces(fs) == \A n \in nss : ~Deployed(n) => ClusterNs(n) \in fs
NoEmptyFolder == \A d \in promote : {AppKust(d), Ks(d)} \cap files # {} => AppFiles(d) \cap files # {}
ClearedInv ==
    /\ settled > 0 /\ pc \in {"objects", "sweep"} => BareNamespaces(written)
    /\ settled > 0 /\ pc = "captured" => BareNamespaces(files)
    /\ settled > 1 => BareNamespaces(files) /\ NoEmptyFolder

\* and the third lists what there is.
ListedInv == settled = 3 => {l \in lists : l[1] \in NewFiles} = AppEntries(files) \cup NsEntries(files)

TreeInv == BaseInv /\ CourseInv /\ CapturedInv /\ DeployedInv /\ ClearedInv /\ ListedInv
-----------------------------------------------------------------------------
(* What the phases own and write, place by place.                          *)

LEMMA KindsDiffer ==
    /\ \A d, e : /\ Release(d) \notin {AppKust(e), Ks(e), Values(e), HelmRelease(e)}
                 /\ Values(d) \notin {AppKust(e), Ks(e), HelmRelease(e)}
                 /\ HelmRelease(d) \notin {AppKust(e), Ks(e)}
                 /\ AppKust(d) # Ks(e)
    /\ \A d, n : /\ Release(d) \notin {NamespaceYaml(n), ClusterNs(n), NsKust(n), Raw(n)}
                 /\ Values(d) \notin {NamespaceYaml(n), ClusterNs(n), NsKust(n), Raw(n)}
                 /\ HelmRelease(d) \notin {NamespaceYaml(n), ClusterNs(n), NsKust(n), Raw(n)}
                 /\ AppKust(d) \notin {NamespaceYaml(n), ClusterNs(n), NsKust(n), Raw(n)}
                 /\ Ks(d) \notin {NamespaceYaml(n), ClusterNs(n), NsKust(n), Raw(n)}
    /\ \A d, e, x : Manifest(e, x) \notin {Release(d), AppKust(d), Ks(d), Values(d), HelmRelease(d)}
    /\ \A e, x, n : Manifest(e, x) \notin {NamespaceYaml(n), ClusterNs(n), NsKust(n), Raw(n)}
    /\ \A m, n : /\ NamespaceYaml(m) \notin {ClusterNs(n), NsKust(n), Raw(n)}
                 /\ ClusterNs(m) \notin {NsKust(n), Raw(n)}
                 /\ NsKust(m) # Raw(n)
BY DEF Release, AppKust, Ks, Values, HelmRelease, Manifest, NamespaceYaml, ClusterNs, NsKust, Raw

LEMMA AppFilesAre ==
    ASSUME NEW d, NEW f
    PROVE  f \in AppFiles(d) <=>
              \/ f \in {Values(d), HelmRelease(d)}
              \/ \E x \in Things : NsOf[x] = d[1] /\ f = Manifest(d, x)
BY DEF AppFiles, Manifests

LEMMA CaptureOwnsIs ==
    ASSUME NEW f
    PROVE  f \in CaptureOwns <=>
              /\ f \notin Protected
              /\ \/ \E n \in Namespaces : f \in {NamespaceYaml(n), ClusterNs(n)}
                 \/ \E d \in Folders : f \in {Release(d), Values(d)}
                 \/ \E x \in Objects : f = Raw(x)
                 \/ \E d \in Promoted : f \in AppFiles(d)
<1> DEFINE A == {{NamespaceYaml(n), ClusterNs(n)} : n \in Namespaces}
           B == {{Release(d), Values(d)} : d \in Folders}
           C == {Raw(x) : x \in Objects}
           D == {AppFiles(d) : d \in Promoted}
<1>1. CaptureOwns = ((UNION A) \cup (UNION B) \cup C \cup UNION D) \ Protected
  BY DEF CaptureOwns
<1>2. f \in UNION A <=> \E n \in Namespaces : f \in {NamespaceYaml(n), ClusterNs(n)}
  BY Zenon
<1>3. f \in UNION B <=> \E d \in Folders : f \in {Release(d), Values(d)}
  BY Zenon
<1>4. f \in C <=> \E x \in Objects : f = Raw(x)
  BY Zenon
<1>5. f \in UNION D <=> \E d \in Promoted : f \in AppFiles(d)
  BY Zenon
<1> HIDE DEF A, B, C, D
<1>. QED
  BY <1>1, <1>2, <1>3, <1>4, <1>5

LEMMA CaptureOwnsWhat ==
    /\ \A d \in Folders \ hand : {Release(d), Values(d)} \subseteq CaptureOwns
    /\ \A d \in Promoted : AppFiles(d) \subseteq CaptureOwns
    /\ \A x \in Objects : Raw(x) \in CaptureOwns
    /\ \A n \in Namespaces : /\ ClusterNs(n) \in CaptureOwns
                             /\ NamespaceYaml(n) \in CaptureOwns <=> NamespaceYaml(n) \notin Protected
    /\ \A d : AppKust(d) \notin CaptureOwns /\ Ks(d) \notin CaptureOwns
    /\ \A d : HelmRelease(d) \in CaptureOwns => d \in Promoted
    /\ \A n : NsKust(n) \notin CaptureOwns
<1>1. ASSUME NEW d \in Folders \ hand PROVE {Release(d), Values(d)} \subseteq CaptureOwns
  BY CaptureOwnsIs, ProtectedIs, Members
<1>2. ASSUME NEW d \in Promoted PROVE AppFiles(d) \subseteq CaptureOwns
  BY CaptureOwnsIs, ProtectedIs, Members DEF Promoted
<1>3. ASSUME NEW x \in Objects PROVE Raw(x) \in CaptureOwns
  BY CaptureOwnsIs, ProtectedIs
<1>4. ASSUME NEW n \in Namespaces
      PROVE  /\ ClusterNs(n) \in CaptureOwns
             /\ NamespaceYaml(n) \in CaptureOwns <=> NamespaceYaml(n) \notin Protected
  BY CaptureOwnsIs, ProtectedIs
<1>5. ASSUME NEW d PROVE AppKust(d) \notin CaptureOwns /\ Ks(d) \notin CaptureOwns
  <2>1. \A e : AppKust(d) \notin AppFiles(e) /\ Ks(d) \notin AppFiles(e)
    BY AppFilesAre, KindsDiffer
  <2>. QED
    BY <2>1, CaptureOwnsIs, KindsDiffer
<1>6. ASSUME NEW d, HelmRelease(d) \in CaptureOwns PROVE d \in Promoted
  <2>1. \A e : HelmRelease(d) \in AppFiles(e) => d = e
    BY AppFilesAre, KindsDiffer, Places
  <2>. QED
    BY <1>6, <2>1, CaptureOwnsIs, KindsDiffer
<1>7. ASSUME NEW n PROVE NsKust(n) \notin CaptureOwns
  <2>1. \A e : NsKust(n) \notin AppFiles(e)
    BY AppFilesAre, KindsDiffer
  <2>. QED
    BY <2>1, CaptureOwnsIs, KindsDiffer
<1>. QED
  BY <1>1, <1>2, <1>3, <1>4, <1>5, <1>6, <1>7

LEMMA ProtectedNamespace ==
    ASSUME NEW n
    PROVE  NamespaceYaml(n) \in Protected <=> \E d \in hand : d[1] = n
<1> DEFINE A == {InFolder(d) \cup {NamespaceYaml(d[1])} : d \in hand}
<1>1. NamespaceYaml(n) \in UNION A <=> \E d \in hand : NamespaceYaml(n) \in InFolder(d) \cup {NamespaceYaml(d[1])}
  BY Zenon
<1>. QED
  BY <1>1, NotInAFolder, Places DEF Protected

LEMMA GenerateOwnsIs ==
    ASSUME NEW f
    PROVE  f \in GenerateOwns <=>
              /\ f \notin Protected
              /\ \/ \E d \in Folders : f \in {HelmRelease(d), AppKust(d), Ks(d)}
                 \/ \E n \in Namespaces : f = NsKust(n)
<1> DEFINE A == {{HelmRelease(d), AppKust(d), Ks(d)} : d \in Folders}
           B == {NsKust(n) : n \in Namespaces}
<1>1. GenerateOwns = ((UNION A) \cup B) \ Protected
  BY DEF GenerateOwns
<1>2. f \in UNION A <=> \E d \in Folders : f \in {HelmRelease(d), AppKust(d), Ks(d)}
  BY Zenon
<1>3. f \in B <=> \E n \in Namespaces : f = NsKust(n)
  BY Zenon
<1> HIDE DEF A, B
<1>. QED
  BY <1>1, <1>2, <1>3

LEMMA NewFilesAre ==
    ASSUME NEW f
    PROVE  f \in NewFiles <=>
              \/ \E d \in HelmFolders : f = HelmRelease(d)
              \/ \E d \in HelmFolders \cup PromotedFolders : f \in {AppKust(d), Ks(d)}
              \/ \E n \in NamespacesWritten : f = NsKust(n)
<1> DEFINE A == {HelmRelease(d) : d \in HelmFolders}
           B == {{AppKust(d), Ks(d)} : d \in HelmFolders \cup PromotedFolders}
           C == {NsKust(n) : n \in NamespacesWritten}
<1>1. NewFiles = A \cup (UNION B) \cup C
  BY DEF NewFiles, Scaffolding
<1>2. f \in A <=> \E d \in HelmFolders : f = HelmRelease(d)
  BY Zenon
<1>3. f \in UNION B <=> \E d \in HelmFolders \cup PromotedFolders : f \in {AppKust(d), Ks(d)}
  BY Zenon
<1>4. f \in C <=> \E n \in NamespacesWritten : f = NsKust(n)
  BY Zenon
<1> HIDE DEF A, B, C
<1>. QED
  BY <1>1, <1>2, <1>3, <1>4

LEMMA NewFilesWhat ==
    /\ \A d : HelmRelease(d) \in NewFiles <=> d \in HelmFolders
    /\ \A d : AppKust(d) \in NewFiles <=> d \in HelmFolders \cup PromotedFolders
    /\ \A d : Ks(d) \in NewFiles <=> d \in HelmFolders \cup PromotedFolders
    /\ \A n : NsKust(n) \in NewFiles <=> n \in NamespacesWritten
    /\ \A d : Release(d) \notin NewFiles /\ Values(d) \notin NewFiles
    /\ \A d, x : Manifest(d, x) \notin NewFiles
    /\ \A n : NamespaceYaml(n) \notin NewFiles /\ ClusterNs(n) \notin NewFiles
    /\ \A x : Raw(x) \notin NewFiles
<1>1. \A d : HelmRelease(d) \in NewFiles <=> d \in HelmFolders
  BY NewFilesAre, KindsDiffer, Places
<1>2. \A d : AppKust(d) \in NewFiles <=> d \in HelmFolders \cup PromotedFolders
  BY NewFilesAre, KindsDiffer, Places
<1>3. \A d : Ks(d) \in NewFiles <=> d \in HelmFolders \cup PromotedFolders
  BY NewFilesAre, KindsDiffer, Places
<1>4. \A n : NsKust(n) \in NewFiles <=> n \in NamespacesWritten
  BY NewFilesAre, KindsDiffer, Places
<1>5. /\ \A d : Release(d) \notin NewFiles /\ Values(d) \notin NewFiles
      /\ \A d, x : Manifest(d, x) \notin NewFiles
  BY NewFilesAre, KindsDiffer
<1>6. \A n : NamespaceYaml(n) \notin NewFiles /\ ClusterNs(n) \notin NewFiles
  BY NewFilesAre, KindsDiffer
<1>7. \A x : Raw(x) \notin NewFiles
  BY NewFilesAre, KindsDiffer
<1>. QED
  BY <1>1, <1>2, <1>3, <1>4, <1>5, <1>6, <1>7

\* A file generate sweeps is one it owns and does not write.
LEMMA SweptWhat ==
    /\ \A d \in Folders \ hand : \A f \in {HelmRelease(d), AppKust(d), Ks(d)} : f \in files \ NewFiles => f \in SweptFiles
    /\ \A n \in Namespaces : NsKust(n) \in files \ NewFiles => NsKust(n) \in SweptFiles
    /\ \A d : Release(d) \notin SweptFiles /\ Values(d) \notin SweptFiles
    /\ \A d, x : Manifest(d, x) \notin SweptFiles
    /\ \A n : NamespaceYaml(n) \notin SweptFiles /\ ClusterNs(n) \notin SweptFiles
    /\ \A x : Raw(x) \notin SweptFiles
    /\ SweptFiles \cap Protected = {}
<1>1. ASSUME NEW d \in Folders \ hand, NEW f \in {HelmRelease(d), AppKust(d), Ks(d)}, f \in files \ NewFiles
      PROVE  f \in SweptFiles
  BY <1>1, GenerateOwnsIs, ProtectedIs, Members DEF SweptFiles
<1>2. ASSUME NEW n \in Namespaces, NsKust(n) \in files \ NewFiles PROVE NsKust(n) \in SweptFiles
  BY <1>2, GenerateOwnsIs, ProtectedIs DEF SweptFiles
<1>3. \A f \in SweptFiles : f \in GenerateOwns
  BY DEF SweptFiles
<1>4. /\ \A d : Release(d) \notin GenerateOwns /\ Values(d) \notin GenerateOwns
      /\ \A d, x : Manifest(d, x) \notin GenerateOwns
  BY GenerateOwnsIs, KindsDiffer
<1>5. /\ \A n : NamespaceYaml(n) \notin GenerateOwns /\ ClusterNs(n) \notin GenerateOwns
      /\ \A x : Raw(x) \notin GenerateOwns
  BY GenerateOwnsIs, KindsDiffer
<1>6. GenerateOwns \cap Protected = {}
  BY GenerateOwnsIs
<1>. QED
  BY <1>1, <1>2, <1>3, <1>4, <1>5, <1>6
-----------------------------------------------------------------------------
(* BaseInv.                                                                *)

\* What capture writes it owns, and tracks.
LEMMA WritesOwn ==
    ASSUME TypeOK, WriteReleases \/ WriteNamespaces \/ WriteClusterKinds \/ WriteObjects
    PROVE  \A f \in files' \ files : f \in CaptureOwns /\ f \in written'
<1> SUFFICES ASSUME NEW f \in files' \ files PROVE f \in CaptureOwns /\ f \in written'
  OBVIOUS
<1> USE DEF Write, WriteAndKeep
<1>1. CASE WriteReleases
  <2>1. f \in ReleaseFiles(selected) /\ f \in written'
    BY <1>1 DEF WriteReleases
  <2>2. PICK d \in selected \ hand : f \in {Release(d), Values(d)}
    BY <2>1 DEF ReleaseFiles
  <2>. QED
    BY <2>1, <2>2, CaptureOwnsWhat DEF TypeOK
<1>2. CASE WriteNamespaces
  BY <1>2, CaptureOwnsWhat DEF WriteNamespaces, TypeOK
<1>3. CASE WriteClusterKinds
  BY <1>3, CaptureOwnsWhat DEF WriteClusterKinds, TypeOK
<1>4. CASE WriteObjects
  <2> DEFINE listed(failed) == {x \in Objects \cap things : KindOf[x] \notin failed}
             R(failed) == {Raw(x) : x \in {y \in listed(failed) : NsOf[y] \notin PromotedNs \cup Ambiguous}}
             N == {NamespaceYaml(n) : n \in PromotedNs \cap nss} \ Protected
             M(failed) == {PromotedManifests(n, listed(failed)) : n \in PromotedNs \ HeldNs(listed(failed), failed)}
  <2>1. PICK failed \in SUBSET Kinds :
            WriteAndKeep(R(failed) \cup N \cup UNION M(failed), KeptInDoubt(listed(failed), failed))
    BY <1>4 DEF WriteObjects
  <2>2. f \in R(failed) \cup N \cup UNION M(failed) /\ f \in written'
    BY <2>1
  <2>3. CASE f \in R(failed)
    BY <2>2, <2>3, CaptureOwnsWhat
  <2>4. CASE f \in N
    BY <2>2, <2>4, CaptureOwnsWhat DEF PromotedNs
  <2>5. CASE f \in UNION M(failed)
    <3>1. PICK n \in PromotedNs : f \in PromotedManifests(n, listed(failed))
      BY <2>5, Zenon
    <3>2. listed(failed) \in SUBSET Things
      BY DEF TypeOK
    <3>3. promote \subseteq Folders /\ writable \subseteq Things
      BY DEF TypeOK, Secrets
    <3> HIDE DEF listed, R, M, N
    <3>4. f \in AppFiles(FolderOf(n)) /\ FolderOf(n) \in Promoted
      BY <3>1, <3>2, <3>3, ManifestsFree, ItsFolder
    <3>. QED
      BY <2>2, <3>4, CaptureOwnsWhat
  <2> HIDE DEF R, N, M
  <2>. QED
    BY <2>2, <2>3, <2>4, <2>5
<1>. QED
  BY <1>1, <1>2, <1>3, <1>4

\* What a run that stops has still written are releases' files.
LEMMA StopsOwn ==
    ASSUME TypeOK, NamespaceIsGone \/ ReleaseIsGone \/ Stop
    PROVE  \A f \in files' \ files : f \in CaptureOwns
<1> SUFFICES ASSUME NEW f \in files' \ files PROVE f \in CaptureOwns
  OBVIOUS
<1>1. ReleaseIsGone
  BY DEF NamespaceIsGone, Stop, Stopped
<1>2. \E d \in selected \ helm : \E done \in SUBSET (selected \ {d}) : \E begun \in SUBSET {d} :
          Stopped(ReleaseFiles(done) \cup {Values(e) : e \in begun \ hand})
  BY <1>1 DEF ReleaseIsGone
<1>3. \E ds \in SUBSET selected : f \in ReleaseFiles(ds)
  <2>0. PICK d \in selected \ helm : \E done \in SUBSET (selected \ {d}) : \E begun \in SUBSET {d} :
            Stopped(ReleaseFiles(done) \cup {Values(e) : e \in begun \ hand})
    BY <1>2
  <2>1. PICK done \in SUBSET (selected \ {d}), begun \in SUBSET {d} :
            files' = files \cup ReleaseFiles(done) \cup {Values(e) : e \in begun \ hand}
    BY <2>0 DEF Stopped
  <2>2. f \in ReleaseFiles(done) \/ f \in ReleaseFiles(begun)
    BY <2>1 DEF ReleaseFiles
  <2>. QED
    BY <2>2
<1>4. PICK d \in selected \ hand : f \in {Release(d), Values(d)}
  BY <1>3 DEF ReleaseFiles
<1>. QED
  BY <1>4, CaptureOwnsWhat DEF TypeOK

\* Of a file that is protected, or generate's, capture removes and adds none.
LEMMA CaptureFiles ==
    ASSUME TypesInv, Run, ~Generate
    PROVE  /\ \A f \in files' \ files : f \in CaptureOwns
           /\ \A f \in files \ files' : f \in CaptureOwns
           /\ UNCHANGED <<cluster, lists, hand, promote>>
<1>0. TypeOK /\ Ownership
  BY DEF TypesInv
<1>1. CASE Start \/ ListReleases
  BY <1>1 DEF Start, ListReleases, repo
<1>2. CASE NamespaceIsGone \/ ReleaseIsGone \/ Stop
  BY <1>0, <1>2, StopsOwn, StopsWith DEF Stopped
<1>3. CASE WriteReleases \/ WriteNamespaces \/ WriteClusterKinds \/ WriteObjects
  BY <1>0, <1>3, Writes, WritesOwn
<1>4. CASE Sweep
  BY <1>0, <1>4 DEF Sweep, Ownership
<1>. QED
  BY <1>1, <1>2, <1>3, <1>4 DEF Run

LEMMA BaseOfCapture ==
    ASSUME BaseInv, TypesInv, Run, ~Generate
    PROVE  BaseInv'
<1>0. /\ TypeOK /\ Ownership /\ MarkersApart /\ InNamespaces /\ HandHasFiles /\ ManifestsPromoted
      /\ ListedByFiles /\ Tracked /\ SettledIsCalm
  BY DEF BaseInv, TypesInv
<1>1. UNCHANGED <<nss, helm, things, known, lists, hand, promote>>
  BY CaptureFiles DEF cluster
<1>2. CaptureOwns' = CaptureOwns
  BY <1>1 DEF CaptureOwns, Promoted, Protected
<1>3. MarkersApart' /\ InNamespaces'
  BY <1>0, <1>1 DEF MarkersApart, InNamespaces
<1>4. HandHasFiles'
  <2>1. ASSUME NEW d \in hand, NEW f \in {NamespaceYaml(d[1]), Ks(d), AppKust(d), HelmRelease(d)}
        PROVE  f \in files'
    <3>1. f \in files
      BY <1>0 DEF HandHasFiles
    <3>2. f \in Protected
      BY Members, ProtectedIs, ProtectedNamespace
    <3>3. f \notin CaptureOwns
      BY <3>2, CaptureOwnsIs
    <3>. QED
      BY <3>1, <3>3, CaptureFiles
  <2>. QED
    BY <1>1, <2>1 DEF HandHasFiles
<1>5. ManifestsPromoted'
  <2>1. \A d \in Folders, x \in Things : Manifest(d, x) \in files' => d \in promote
    BY <1>0, CaptureFiles, OwnedManifest DEF ManifestsPromoted, Promoted
  <2>. QED
    BY <1>1, <2>1 DEF ManifestsPromoted
<1>6. ListedByFiles'
  <2>1. ASSUME NEW l \in lists PROVE l[1] \in files'
    BY <1>0, CaptureFiles, CaptureOwnsWhat DEF ListedByFiles
  <2>. QED
    BY <1>0, <1>1, <2>1 DEF ListedByFiles
<1>7. Tracked'
  <2>1. CASE Start
    BY <1>2, <2>1 DEF Start, Tracked, repo
  <2>2. CASE ListReleases
    BY <1>0, <1>2, <2>2 DEF ListReleases, Tracked, Idle, repo
  <2>3. CASE NamespaceIsGone \/ ReleaseIsGone \/ Stop
    BY <1>0, <2>3, StopsWith DEF Stopped, Tracked, Idle
  <2>4. CASE WriteReleases \/ WriteNamespaces \/ WriteClusterKinds \/ WriteObjects
    <3>1. ~Idle
      BY <2>4 DEF WriteReleases, WriteNamespaces, WriteClusterKinds, WriteObjects, Idle
    <3>2. written \subseteq written' /\ before' = before
      BY <1>0, <2>4, Writes
    <3>3. files' \cap CaptureOwns \subseteq before' \cup written'
      BY <1>0, <2>4, <3>1, <3>2, WritesOwn DEF Tracked
    <3>. QED
      BY <1>2, <3>3 DEF Tracked
  <2>5. CASE Sweep
    BY <2>5 DEF Sweep, Tracked, Idle
  <2>. QED
    BY <2>1, <2>2, <2>3, <2>4, <2>5 DEF Run
<1>8. SettledIsCalm'
  <2>1. CASE Start
    <3>1. PICK failed \in SUBSET PromotedNs :
              IF failed = {} THEN calm' = TRUE /\ UNCHANGED <<faults, settled>> ELSE Fault("unlisted")
      BY <2>1 DEF Start
    <3>. QED
      BY <3>1 DEF SettledIsCalm, Fault
  <2>2. CASE NamespaceIsGone \/ ReleaseIsGone \/ Stop
    <3>1. \E W : Stopped(W)
      BY <1>0, <2>2, StopsWith
    <3>2. settled' = 0
      BY <3>1 DEF Stopped
    <3>. QED
      BY <3>2 DEF SettledIsCalm
  <2>3. CASE ~Start /\ ~(NamespaceIsGone \/ ReleaseIsGone \/ Stop)
    <3>1. NoFault \/ \E kind : Fault(kind)
      BY <2>3 DEF Run, ListReleases, WriteReleases, WriteNamespaces, WriteClusterKinds, WriteObjects, Sweep
    <3>. QED
      BY <1>0, <3>1 DEF NoFault, Fault, SettledIsCalm
  <2>. QED
    BY <2>1, <2>2, <2>3
<1>. QED
  BY <1>3, <1>4, <1>5, <1>6, <1>7, <1>8 DEF BaseInv

\* The entries generate makes are of files it writes.
LEMMA EntriesAre ==
    ASSUME NEW fs, NEW l \in AppEntries(fs) \cup NsEntries(fs)
    PROVE  \/ \E d \in HelmFolders \cup PromotedFolders : l[1] = AppKust(d)
           \/ \E n \in NamespacesWritten : l[1] = NsKust(n)
<1>1. CASE l \in AppEntries(fs)
  BY <1>1 DEF AppEntries
<1>2. CASE l \in NsEntries(fs)
  BY <1>2 DEF NsEntries
<1>. QED
  BY <1>1, <1>2

LEMMA BaseOfGenerate ==
    ASSUME BaseInv, TypesInv, Generate
    PROVE  BaseInv'
<1>0. /\ TypeOK /\ Ownership /\ MarkersApart /\ InNamespaces /\ HandHasFiles /\ ManifestsPromoted
      /\ ListedByFiles /\ Tracked /\ SettledIsCalm
  BY DEF BaseInv, TypesInv
<1>1. /\ UNCHANGED <<nss, helm, things, known, hand, promote>> /\ pc' = "idle"
      /\ files' = (files \cup NewFiles) \ SweptFiles /\ lists' = NewLists
  BY GenerateDoes DEF cluster
<1>3. MarkersApart' /\ InNamespaces'
  BY <1>0, <1>1 DEF MarkersApart, InNamespaces
<1>4. HandHasFiles'
  <2>1. ASSUME NEW d \in hand, NEW f \in {NamespaceYaml(d[1]), Ks(d), AppKust(d), HelmRelease(d)}
        PROVE  f \in files'
    <3>1. f \in files
      BY <1>0 DEF HandHasFiles
    <3>2. f \in Protected
      BY Members, ProtectedIs, ProtectedNamespace
    <3>. QED
      BY <1>1, <3>1, <3>2, SweptWhat
  <2>. QED
    BY <1>1, <2>1 DEF HandHasFiles
<1>5. ManifestsPromoted'
  BY <1>0, <1>1, NewFilesWhat DEF ManifestsPromoted
<1>6. ListedByFiles'
  <2>1. ASSUME NEW l \in lists, l[1] \notin NewFiles \cup SweptFiles
        PROVE  l[1] \in files'
    BY <1>0, <1>1, <2>1 DEF ListedByFiles
  <2>2. ASSUME NEW l \in AppEntries(files \cup Scaffolding) \cup NsEntries(files \cup Scaffolding)
        PROVE  /\ l[1] \in files'
               /\ \/ \E d \in Folders : l[1] = AppKust(d) /\ (d \in hand => l[2] = HelmRelease(d))
                  \/ \E n \in Namespaces : l[1] = NsKust(n)
    <3>1. \/ \E d \in HelmFolders \cup PromotedFolders : l[1] = AppKust(d)
          \/ \E n \in NamespacesWritten : l[1] = NsKust(n)
      BY <2>2, EntriesAre
    <3>2. l[1] \in NewFiles
      BY <3>1, NewFilesWhat
    <3>3. HelmFolders \cup PromotedFolders \subseteq Folders \ hand /\ NamespacesWritten \subseteq Namespaces
      BY <1>0 DEF HelmFolders, PromotedFolders, Promoted, NamespacesWritten, TypeOK
    <3>. QED
      BY <1>1, <3>1, <3>2, <3>3 DEF SweptFiles
  <2>. QED
    BY <1>0, <1>1, <2>1, <2>2 DEF ListedByFiles, NewLists
<1>7. Tracked'
  BY <1>1 DEF Tracked, Idle
<1>8. SettledIsCalm'
  BY <1>0 DEF Generate, SettledIsCalm, TypeOK
<1>. QED
  BY <1>3, <1>4, <1>5, <1>6, <1>7, <1>8 DEF BaseInv

\* What changes between the calls ends the calm.
LEMMA ChangeEndsCalm ==
    ASSUME Change
    PROVE  calm' = FALSE /\ settled' = 0 /\ pc' = pc /\ changes' = changes + 1 /\ UNCHANGED <<before, written, reads>>
BY DEF Change, Changes, Install, Uninstall, Create, Delete, Rotate, DeleteNamespace, MarkPromote, MarkHand, RemoveFolder

LEMMA BaseOfChange ==
    ASSUME BaseInv, TypesInv, Change
    PROVE  BaseInv'
<1>0. /\ TypeOK /\ Ownership /\ MarkersApart /\ InNamespaces /\ HandHasFiles /\ ManifestsPromoted
      /\ ListedByFiles /\ Tracked
  BY DEF BaseInv, TypesInv
<1>1. SettledIsCalm'
  BY ChangeEndsCalm DEF SettledIsCalm
<1>2. /\ pc' = pc /\ before' = before /\ written' = written
  BY ChangeEndsCalm
<1>3. ASSUME UNCHANGED repo, MarkersApart', InNamespaces'
      PROVE  BaseInv'
  <2>1. CaptureOwns' = CaptureOwns
    BY <1>3 DEF CaptureOwns, Promoted, Protected, repo
  <2>2. Tracked'
    BY <1>0, <1>2, <1>3, <2>1 DEF Tracked, Idle, repo
  <2>3. HandHasFiles' /\ ManifestsPromoted' /\ ListedByFiles'
    BY <1>0, <1>3 DEF HandHasFiles, ManifestsPromoted, ListedByFiles, repo
  <2>. QED
    BY <1>1, <1>3, <2>2, <2>3 DEF BaseInv
<1>4. ASSUME NEW d \in Folders, Install(d) \/ Uninstall(d)
      PROVE  BaseInv'
  <2>1. UNCHANGED repo /\ MarkersApart'
    BY <1>0, <1>4 DEF Install, Uninstall, MarkersApart, repo
  <2>2. InNamespaces'
    BY <1>0, <1>4 DEF Install, Uninstall, InNamespaces
  <2>. QED
    BY <1>3, <2>1, <2>2
<1>5. ASSUME NEW x \in Things, Create(x) \/ Delete(x) \/ Rotate(x)
      PROVE  BaseInv'
  <2>1. UNCHANGED repo /\ MarkersApart'
    BY <1>0, <1>5 DEF Create, Delete, Rotate, MarkersApart, repo
  <2>2. InNamespaces'
    BY <1>0, <1>5 DEF Create, Delete, Rotate, InNamespaces
  <2>. QED
    BY <1>3, <2>1, <2>2
<1>6. ASSUME NEW n \in Namespaces, DeleteNamespace(n)
      PROVE  BaseInv'
  <2>1. UNCHANGED repo /\ MarkersApart'
    BY <1>0, <1>6 DEF DeleteNamespace, MarkersApart, repo
  <2>2. /\ \A d \in helm' : d \in helm /\ d[1] # n
        /\ \A x \in things' : x \in things /\ NsOf[x] # n
        /\ nss' = nss \ {n}
    BY <1>6 DEF DeleteNamespace
  <2>3. InNamespaces'
    BY <1>0, <2>2 DEF InNamespaces
  <2>. QED
    BY <1>3, <2>1, <2>3
<1>7. ASSUME NEW d \in Folders, MarkPromote(d) \/ MarkHand(d) \/ RemoveFolder(d)
      PROVE  BaseInv'
  <2>1. Idle' /\ UNCHANGED <<nss, helm, things>>
    BY <1>2, <1>7 DEF MarkPromote, MarkHand, RemoveFolder, Idle, cluster
  <2>2. MarkersApart' /\ InNamespaces' /\ Tracked'
    <3>1. MarkersApart'
      BY <1>0, <1>7, <2>1 DEF MarkPromote, MarkHand, RemoveFolder, MarkersApart
    <3>2. InNamespaces' /\ Tracked'
      BY <1>0, <2>1 DEF InNamespaces, Tracked
    <3>. QED
      BY <3>1, <3>2
  <2>3. CASE MarkPromote(d)
    <3>1. UNCHANGED <<files, lists, hand>> /\ promote' = promote \cup {d}
      BY <2>3 DEF MarkPromote
    <3>2. HandHasFiles' /\ ManifestsPromoted' /\ ListedByFiles'
      BY <1>0, <3>1 DEF HandHasFiles, ManifestsPromoted, ListedByFiles
    <3>. QED
      BY <1>1, <2>2, <3>2 DEF BaseInv
  <2>4. CASE MarkHand(d)
    <3>1. /\ hand' = hand \cup {d} /\ promote' = promote
          /\ files' = files \cup {Ks(d), AppKust(d), HelmRelease(d), NamespaceYaml(d[1])}
          /\ lists' = {l \in lists : l[1] # AppKust(d)} \cup {<<AppKust(d), HelmRelease(d)>>}
      BY <2>4 DEF MarkHand
    <3>2. HandHasFiles'
      BY <1>0, <3>1 DEF HandHasFiles
    <3>3. ManifestsPromoted'
      BY <1>0, <3>1, KindsDiffer DEF ManifestsPromoted
    <3>4. ASSUME NEW l \in lists, l[1] # AppKust(d)
          PROVE  /\ l[1] \in files'
                 /\ \/ \E e \in Folders : l[1] = AppKust(e) /\ (e \in hand' => l[2] = HelmRelease(e))
                    \/ \E n \in Namespaces : l[1] = NsKust(n)
      BY <1>0, <3>1, <3>4 DEF ListedByFiles
    <3>5. ListedByFiles'
      BY <3>1, <3>4 DEF ListedByFiles
    <3>. QED
      BY <1>1, <2>2, <3>2, <3>3, <3>5 DEF BaseInv
  <2>5. CASE RemoveFolder(d)
    <3>1. /\ hand' = hand \ {d} /\ promote' = promote \ {d} /\ files' = files \ InFolder(d)
          /\ lists' = {l \in lists : l[1] # AppKust(d)}
      BY <2>5 DEF RemoveFolder
    <3>2. HandHasFiles'
      <4>1. ASSUME NEW e \in hand, e # d, NEW f \in {NamespaceYaml(e[1]), Ks(e), AppKust(e), HelmRelease(e)}
            PROVE  f \in files'
        BY <1>0, <3>1, <4>1, Members, OneFolder, NotInAFolder DEF HandHasFiles
      <4>. QED
        BY <3>1, <4>1 DEF HandHasFiles
    <3>3. ManifestsPromoted'
      <4>1. ASSUME NEW e \in Folders, NEW x \in Things, Manifest(e, x) \in files'
            PROVE  e \in promote'
        <5>1. Manifest(e, x) \in files /\ Manifest(e, x) \notin InFolder(d)
          BY <3>1, <4>1
        <5>2. NsOf[x] = e[1]
          BY <1>0, <5>1, FilesOf DEF TypeOK
        <5>3. e # d
          BY <5>1, <5>2, Members
        <5>. QED
          BY <1>0, <3>1, <5>1, <5>3 DEF ManifestsPromoted
      <4>. QED
        BY <4>1 DEF ManifestsPromoted
    <3>4. ASSUME NEW l \in lists, l[1] # AppKust(d)
          PROVE  l[1] \in files'
      <4>1. l[1] \in files
        BY <1>0 DEF ListedByFiles
      <4>2. CASE \E e \in Folders : l[1] = AppKust(e)
        BY <3>1, <3>4, <4>1, <4>2, Members, OneFolder
      <4>3. CASE \E n \in Namespaces : l[1] = NsKust(n)
        BY <3>1, <4>1, <4>3, NotInAFolder
      <4>. QED
        BY <1>0, <4>2, <4>3 DEF ListedByFiles
    <3>5. ListedByFiles'
      BY <1>0, <3>1, <3>4 DEF ListedByFiles
    <3>. QED
      BY <1>1, <2>2, <3>2, <3>3, <3>5 DEF BaseInv
  <2>. QED
    BY <1>7, <2>3, <2>4, <2>5
<1>. QED
  BY <1>4, <1>5, <1>6, <1>7 DEF Change

-----------------------------------------------------------------------------
(* What is allowed and what is called for.                                 *)

LEMMA MayOfUnion ==
    ASSUME NEW fs, NEW gs, May(fs), May(gs)
    PROVE  May(fs \cup gs)
<1>1. MayRelease(fs \cup gs) /\ MayRaw(fs \cup gs) /\ MayNamespace(fs \cup gs)
  BY DEF May, MayRelease, MayRaw, MayNamespace
<1>2. MayPromoted(fs \cup gs)
  BY DEF May, MayPromoted
<1>. QED
  BY <1>1, <1>2 DEF May

LEMMA MayOfPart ==
    ASSUME NEW fs, NEW gs \in SUBSET fs, May(fs)
    PROVE  May(gs)
<1>1. MayRelease(gs) /\ MayRaw(gs) /\ MayNamespace(gs)
  BY DEF May, MayRelease, MayRaw, MayNamespace
<1>2. MayPromoted(gs)
  BY DEF May, MayPromoted
<1>. QED
  BY <1>1, <1>2 DEF May

LEMMA MustOfMore ==
    ASSUME NEW fs, NEW gs, fs \subseteq gs
    PROVE  /\ MustRelease(fs) => MustRelease(gs)
           /\ \A ns : MustNamespace(fs, ns) => MustNamespace(gs, ns)
           /\ Must(fs) => Must(gs)
<1>1. MustRelease(fs) => MustRelease(gs)
  BY DEF MustRelease
<1>2. \A ns : MustNamespace(fs, ns) => MustNamespace(gs, ns)
  BY DEF MustNamespace
<1>3. MustRaw(fs) => MustRaw(gs)
  BY DEF MustRaw
<1>4. MustPromoted(fs) => MustPromoted(gs)
  BY DEF MustPromoted
<1>. QED
  BY <1>1, <1>2, <1>3, <1>4 DEF Must

\* While the cluster and the markers stay, so does what they call for.
LEMMA NamesStay ==
    ASSUME UNCHANGED <<nss, helm, things, known, hand, promote>>
    PROVE  /\ Promoted' = Promoted /\ PromotedNs' = PromotedNs /\ Ambiguous' = Ambiguous /\ HelmNs' = HelmNs
           /\ Protected' = Protected
           /\ \A d : Doubtful(d)' <=> Doubtful(d)
           /\ \A n : Deployed(n)' <=> Deployed(n)
           /\ PromotedThere' <=> PromotedThere
<1>1. Promoted' = Promoted /\ PromotedNs' = PromotedNs /\ Ambiguous' = Ambiguous
  BY DEF PromotedNs, Ambiguous, PromotedIn, Promoted
<1>2. HelmNs' = HelmNs /\ Protected' = Protected
  BY DEF HelmNs, Protected
<1>3. \A d : Doubtful(d)' <=> Doubtful(d)
  BY <1>1 DEF Doubtful
<1>4. \A n : Deployed(n)' <=> Deployed(n)
  BY DEF Deployed
<1>5. PromotedThere' <=> PromotedThere
  BY <1>1 DEF PromotedThere
<1>. QED
  BY <1>1, <1>2, <1>3, <1>4, <1>5

LEMMA AllowedStays ==
    ASSUME UNCHANGED <<nss, helm, things, known, hand, promote>>
    PROVE  /\ May(files') => May(files)'
           /\ May(written') => May(written)'
           /\ Must(files') => Must(files)'
           /\ Must(written') => Must(written)'
           /\ MustRelease(written') => MustRelease(written)'
           /\ MustNamespace(written', HelmNs) => MustNamespace(written, HelmNs)'
           /\ BareNamespaces(files') => BareNamespaces(files)'
           /\ BareNamespaces(written') => BareNamespaces(written)'
<1>1. May(files') => May(files)'
  BY NamesStay DEF May, MayRelease, MayRaw, MayNamespace, MayPromoted
<1>2. May(written') => May(written)'
  BY NamesStay DEF May, MayRelease, MayRaw, MayNamespace, MayPromoted
<1>3. Must(files') => Must(files)'
  BY NamesStay DEF Must, MustRelease, MustRaw, MustNamespace, MustPromoted
<1>4. Must(written') => Must(written)'
  BY NamesStay DEF Must, MustRelease, MustRaw, MustNamespace, MustPromoted
<1>5. /\ MustRelease(written') => MustRelease(written)'
      /\ MustNamespace(written', HelmNs) => MustNamespace(written, HelmNs)'
  BY NamesStay DEF MustRelease, MustNamespace
<1>6. /\ BareNamespaces(files') => BareNamespaces(files)'
      /\ BareNamespaces(written') => BareNamespaces(written)'
  BY NamesStay DEF BareNamespaces
<1>. QED
  BY <1>1, <1>2, <1>3, <1>4, <1>5, <1>6
-----------------------------------------------------------------------------
(* The steps of a run nothing disturbs.                                    *)

LEMMA EntriesStay ==
    ASSUME UNCHANGED <<files, hand, promote>>
    PROVE  /\ HelmFolders' = HelmFolders /\ PromotedFolders' = PromotedFolders /\ NewFiles' = NewFiles
           /\ AppEntries(files)' = AppEntries(files) /\ NsEntries(files)' = NsEntries(files)
<1>1. HelmFolders' = HelmFolders /\ PromotedFolders' = PromotedFolders /\ NamespacesWritten' = NamespacesWritten
  BY DEF HelmFolders, PromotedFolders, Promoted, NamespacesWritten
<1>2. Scaffolding' = Scaffolding
  BY <1>1 DEF Scaffolding
<1>3. AppEntries(files)' = AppEntries(files)
  BY <1>1 DEF AppEntries
<1>4. NsEntries(files)' = NsEntries(files)
  BY <1>1 DEF NsEntries
<1>. QED
  BY <1>1, <1>2, <1>3, <1>4 DEF NewFiles

\* With the files as they were, so is all that is said of the tree.
LEMMA TreeStays ==
    ASSUME UNCHANGED <<nss, helm, things, known, files, lists, hand, promote, settled>>,
           SettledIsCalm, CapturedInv, DeployedInv, ListedInv, settled > 1 => BareNamespaces(files) /\ NoEmptyFolder
    PROVE  /\ settled' > 0 => PromotedThere' /\ May(files)' /\ Must(files)'
           /\ DeployedInv' /\ ListedInv'
           /\ settled' > 1 => BareNamespaces(files)' /\ NoEmptyFolder'
<1>1. settled' > 0 => PromotedThere' /\ May(files)' /\ Must(files)'
  <2>1. settled > 0 => PromotedThere /\ May(files') /\ Must(files')
    BY DEF SettledIsCalm, CapturedInv
  <2>. QED
    BY <2>1, NamesStay, AllowedStays
<1>2. DeployedInv'
  BY DEF DeployedInv, Scaffolded
<1>3. ListedInv'
  BY EntriesStay DEF ListedInv
<1>4. settled' > 1 => BareNamespaces(files)' /\ NoEmptyFolder'
  BY AllowedStays DEF NoEmptyFolder
<1>. QED
  BY <1>1, <1>2, <1>3, <1>4

\* A step that writes nothing new but a bare namespace's file leaves what was
\* settled before; once those are there it leaves the tree as it is.
LEMMA CalmWrite ==
    ASSUME UNCHANGED <<nss, helm, things, known, lists, hand, promote, settled>>, settled \in Nat,
           SettledIsCalm, CapturedInv, DeployedInv, ListedInv, settled > 1 => BareNamespaces(files) /\ NoEmptyFolder,
           NEW W, files' = files \cup W, May(W),
           settled > 0 => \A f \in W : f \in files \/ \E n \in Namespaces : f = ClusterNs(n)
    PROVE  /\ settled' > 0 => PromotedThere' /\ May(files)' /\ Must(files)'
           /\ DeployedInv' /\ ListedInv'
           /\ settled' > 1 => BareNamespaces(files)' /\ NoEmptyFolder'
           /\ settled > 1 => files' = files
<1>1. ASSUME settled > 1 PROVE files' = files
  <2>1. ASSUME NEW f \in W PROVE f \in files
    <3>1. CASE \E n \in Namespaces : f = ClusterNs(n)
      BY <1>1, <3>1 DEF May, MayNamespace, BareNamespaces
    <3>. QED
      BY <1>1, <3>1
  <2>. QED
    BY <2>1
<1>2. settled' > 0 => PromotedThere' /\ May(files)' /\ Must(files)'
  <2> SUFFICES ASSUME settled > 0 PROVE PromotedThere' /\ May(files)' /\ Must(files)'
    OBVIOUS
  <2>1. PromotedThere /\ May(files) /\ Must(files)
    BY DEF SettledIsCalm, CapturedInv
  <2>2. May(files \cup W)
    BY <2>1, MayOfUnion
  <2>3. Must(files \cup W)
    BY <2>1, MustOfMore
  <2>. QED
    BY <2>1, <2>2, <2>3, NamesStay, AllowedStays
<1>3. DeployedInv'
  <2> SUFFICES ASSUME settled > 0 PROVE Scaffolded'
    BY DEF DeployedInv
  <2>1. Scaffolded
    BY DEF DeployedInv
  <2>2. /\ \A d, f : f \in AppFiles(d) \cup {HelmRelease(d), AppKust(d), Ks(d)} => (f \in files' <=> f \in files)
        /\ \A n : NsKust(n) \in files' <=> NsKust(n) \in files
        /\ \A n : NamespaceYaml(n) \in files' <=> NamespaceYaml(n) \in files
    BY AppFilesAre, KindsDiffer
  <2>3. \A d : AppFiles(d) \cap files' = AppFiles(d) \cap files
    BY <2>2
  <2> HIDE DEF Scaffolded
  <2>4. /\ \A d \in Folders \ hand : /\ HelmRelease(d) \in files' <=> d \in helm
                                     /\ {AppKust(d), Ks(d)} \cap files' # {} => d \in helm \cup promote
        /\ \A d \in helm \ hand : {AppKust(d), Ks(d)} \subseteq files'
    BY <2>1, <2>2 DEF Scaffolded
  <2>5. \A d \in promote : AppFiles(d) \cap files' # {} => {AppKust(d), Ks(d)} \subseteq files'
    BY <2>1, <2>2, <2>3 DEF Scaffolded
  <2>6. \A n \in Namespaces : NsKust(n) \in files' <=> NamespaceYaml(n) \in files'
    BY <2>1, <2>2 DEF Scaffolded
  <2>. QED
    BY <2>4, <2>5, <2>6 DEF Scaffolded
<1>4. settled' > 1 => BareNamespaces(files)' /\ NoEmptyFolder'
  BY <1>1, AllowedStays DEF NoEmptyFolder
<1>5. ListedInv'
  <2>1. settled = 3 => files' = files
    BY <1>1
  <2>. QED
    BY <2>1, EntriesStay DEF ListedInv
<1>. QED
  BY <1>1, <1>2, <1>3, <1>4, <1>5

\* What such a step writes or keeps.
LEMMA ReleasesMay ==
    ASSUME TypeOK, BaseInv
    PROVE  May(ReleaseFiles(helm)) /\ MustRelease(ReleaseFiles(helm))
<1>1. \A f : f \in ReleaseFiles(helm) <=> \E d \in helm \ hand : f \in {Release(d), Values(d)}
  BY DEF ReleaseFiles
<1>2. MustRelease(ReleaseFiles(helm))
  BY <1>1 DEF MustRelease
<1>3. MayRelease(ReleaseFiles(helm))
  BY <1>1, KindsDiffer, Places DEF MayRelease
<1>4. MayRaw(ReleaseFiles(helm)) /\ MayNamespace(ReleaseFiles(helm))
  BY <1>1, KindsDiffer DEF MayRaw, MayNamespace
<1>5. MayPromoted(ReleaseFiles(helm))
  <2>1. ASSUME NEW d \in promote, NEW f \in AppFiles(d), f \in ReleaseFiles(helm) PROVE FALSE
    <3>1. PICK e \in helm \ hand : f \in {Release(e), Values(e)}
      BY <1>1, <2>1
    <3>2. e = d
      BY <3>1, Members, OneFolder
    <3>. QED
      BY <3>1, <3>2 DEF BaseInv, MarkersApart
  <2>. QED
    BY <2>1 DEF MayPromoted
<1>. QED
  BY <1>2, <1>3, <1>4, <1>5 DEF May

\* Namespaces' files, and raw ones: nothing else is said of them.
LEMMA NamespacesMay ==
    ASSUME NEW fs, \A f \in fs : \E n \in Namespaces : f = NamespaceYaml(n) /\ Deployed(n)
    PROVE  May(fs)
<1>1. MayRelease(fs) /\ MayRaw(fs) /\ MayNamespace(fs)
  BY KindsDiffer, Places DEF MayRelease, MayRaw, MayNamespace
<1>2. MayPromoted(fs)
  BY NotInAFolder, Members DEF MayPromoted
<1>. QED
  BY <1>1, <1>2 DEF May

LEMMA ClustersMay ==
    ASSUME NEW fs, \A f \in fs : \E n \in nss : f = ClusterNs(n) /\ ~Deployed(n)
    PROVE  May(fs)
<1>1. MayRelease(fs) /\ MayRaw(fs) /\ MayNamespace(fs)
  BY KindsDiffer, Places DEF MayRelease, MayRaw, MayNamespace
<1>2. MayPromoted(fs)
  BY NotInAFolder, Members DEF MayPromoted
<1>. QED
  BY <1>1, <1>2 DEF May

LEMMA RawsMay ==
    ASSUME NEW fs, \A f \in fs : \E x \in things : f = Raw(x) /\ NsOf[x] \notin PromotedNs \cup Ambiguous
    PROVE  May(fs)
<1>1. MayRelease(fs) /\ MayRaw(fs) /\ MayNamespace(fs)
  BY KindsDiffer, Places DEF MayRelease, MayRaw, MayNamespace
<1>2. MayPromoted(fs)
  BY NotInAFolder, Members DEF MayPromoted
<1>. QED
  BY <1>1, <1>2 DEF May

\* A promoted folder's: of one in no doubt, the manifests of what is there.
LEMMA ManifestsMay ==
    ASSUME TypeOK, NEW fs,
           \A f \in fs : \E d \in Promoted :
               /\ f \in AppFiles(d)
               /\ Doubtful(d) \/ \E x \in things : NsOf[x] = d[1] /\ f = Manifest(d, x)
    PROVE  May(fs)
<1>1. \A f \in fs : \E d \in Promoted : f \in {Values(d), HelmRelease(d)} \/ \E x : f = Manifest(d, x)
  BY AppFilesAre
<1>2. MayRelease(fs)
  BY <1>1, KindsDiffer, Places DEF MayRelease, Promoted
<1>3. MayRaw(fs)
  BY <1>1, KindsDiffer DEF MayRaw
<1>4. MayNamespace(fs)
  BY <1>1, KindsDiffer DEF MayNamespace
<1>5. MayPromoted(fs)
  <2>1. ASSUME NEW d \in promote, ~Doubtful(d), NEW f \in AppFiles(d), f \in fs
        PROVE  \E x \in things : NsOf[x] = d[1] /\ f = Manifest(d, x)
    <3>1. PICK e \in Promoted : /\ f \in AppFiles(e)
                                /\ Doubtful(e) \/ \E x \in things : NsOf[x] = e[1] /\ f = Manifest(e, x)
      BY <2>1
    <3>2. e = d
      BY <2>1, <3>1, Members, OneFolder
    <3>. QED
      BY <2>1, <3>1, <3>2
  <2>. QED
    BY <2>1 DEF MayPromoted
<1>. QED
  BY <1>2, <1>3, <1>4, <1>5 DEF May
-----------------------------------------------------------------------------
\* What WriteObjects writes and holds as it is when every kind was listed.
ObjectFiles ==
    {Raw(x) : x \in {y \in ObjectsThere : NsOf[y] \notin PromotedNs \cup Ambiguous}}
        \cup ({NamespaceYaml(n) : n \in PromotedNs \cap nss} \ Protected)
        \cup UNION {PromotedManifests(n, ObjectsThere) : n \in PromotedNs \ HeldNs(ObjectsThere, {})}

LEMMA ObjectFilesAre ==
    ASSUME NEW f
    PROVE  f \in ObjectFiles <=>
              \/ \E x \in ObjectsThere : NsOf[x] \notin PromotedNs \cup Ambiguous /\ f = Raw(x)
              \/ f \notin Protected /\ \E n \in PromotedNs \cap nss : f = NamespaceYaml(n)
              \/ \E n \in PromotedNs \ HeldNs(ObjectsThere, {}) : \E x \in ObjectsThere \cup writable :
                    NsOf[x] = n /\ f = Manifest(FolderOf(n), x)
<1> DEFINE M == {PromotedManifests(n, ObjectsThere) : n \in PromotedNs \ HeldNs(ObjectsThere, {})}
<1>1. f \in UNION M <=> \E n \in PromotedNs \ HeldNs(ObjectsThere, {}) : f \in PromotedManifests(n, ObjectsThere)
  BY Zenon
<1>2. \A n : f \in PromotedManifests(n, ObjectsThere) <=>
                 \E x \in ObjectsThere \cup writable : NsOf[x] = n /\ f = Manifest(FolderOf(n), x)
  BY DEF PromotedManifests, WrittenSecrets
<1> HIDE DEF M
<1>. QED
  BY <1>1, <1>2 DEF ObjectFiles, M

LEMMA DoubtIs ==
    ASSUME NEW f, NEW listed
    PROVE  f \in KeptInDoubt(listed, {}) <=>
              \/ \E n \in HeldNs(listed, {}) : f \in AppFiles(FolderOf(n))
              \/ \E n \in PromotedNs \ HeldNs(listed, {}) : f \in SecretsKept(n)
              \/ \E d \in Promoted : d[1] \in Ambiguous /\ f \in AppFiles(d) \cup {NamespaceYaml(d[1])}
              \/ \E n \in PromotedNs \ nss : f = NamespaceYaml(n)
<1> DEFINE A == {AppFiles(FolderOf(n)) : n \in HeldNs(listed, {})}
           B == {SecretsKept(n) : n \in PromotedNs \ HeldNs(listed, {})}
           C == {AppFiles(d) \cup {NamespaceYaml(d[1])} : d \in {e \in Promoted : e[1] \in Ambiguous}}
           D == {NamespaceYaml(n) : n \in PromotedNs \ nss}
<1>1. KeptInDoubt(listed, {}) = (UNION A) \cup (UNION B) \cup (UNION C) \cup D
  BY DEF KeptInDoubt
<1>2. f \in UNION A <=> \E n \in HeldNs(listed, {}) : f \in AppFiles(FolderOf(n))
  BY Zenon
<1>3. f \in UNION B <=> \E n \in PromotedNs \ HeldNs(listed, {}) : f \in SecretsKept(n)
  BY Zenon
<1>4. f \in UNION C <=> \E d \in Promoted : d[1] \in Ambiguous /\ f \in AppFiles(d) \cup {NamespaceYaml(d[1])}
  <2>1. f \in UNION C <=> \E d \in {e \in Promoted : e[1] \in Ambiguous} : f \in AppFiles(d) \cup {NamespaceYaml(d[1])}
    BY Zenon
  <2>. QED
    BY <2>1
<1>5. f \in D <=> \E n \in PromotedNs \ nss : f = NamespaceYaml(n)
  BY Zenon
<1> HIDE DEF A, B, C, D
<1>. QED
  BY <1>1, <1>2, <1>3, <1>4, <1>5

\* A promoted namespace is held when its folder is in doubt.
LEMMA HeldIsDoubtful ==
    ASSUME TypeOK, NEW n \in PromotedNs
    PROVE  /\ n \notin Ambiguous
           /\ n \in HeldNs(ObjectsThere, {}) <=> Doubtful(FolderOf(n))
<1>1. FolderOf(n)[1] = n
  BY ItsFolder DEF TypeOK
<1>2. n \notin Ambiguous
  BY DEF PromotedNs, Ambiguous
<1>3. Redacted \subseteq Objects
  BY TreeAssumption
<1>. QED
  BY <1>1, <1>2, <1>3 DEF HeldNs, ObjectsThere, Doubtful

\* A promoted folder that is in no doubt is its namespace's.
LEMMA InNoDoubt ==
    ASSUME TypeOK, MarkersApart, NEW d \in promote, ~Doubtful(d)
    PROVE  /\ d \in Promoted /\ d[1] \in PromotedNs /\ FolderOf(d[1]) = d
           /\ d[1] \notin HeldNs(ObjectsThere, {})
<1>1. d \in Promoted
  BY DEF MarkersApart, Promoted
<1>2. d[1] \in PromotedNs
  BY <1>1, ItsNamespace DEF Doubtful, TypeOK
<1>3. FolderOf(d[1]) = d
  BY <1>1, <1>2, ItsFolder DEF TypeOK
<1>. QED
  BY <1>1, <1>2, <1>3, HeldIsDoubtful

LEMMA ObjectFilesMay ==
    ASSUME TypeOK, BaseInv, writable = {x \in Secrets \cap known : NsOf[x] \in PromotedNs}
    PROVE  May(ObjectFiles)
<1>0. promote \subseteq Folders /\ MarkersApart /\ known \subseteq things
  BY DEF TypeOK, BaseInv
<1> DEFINE R == {f \in ObjectFiles : \E x \in things : f = Raw(x) /\ NsOf[x] \notin PromotedNs \cup Ambiguous}
           N == {f \in ObjectFiles : \E n \in Namespaces : f = NamespaceYaml(n) /\ Deployed(n)}
           M == {f \in ObjectFiles : \E d \in Promoted :
                     /\ f \in AppFiles(d)
                     /\ Doubtful(d) \/ \E x \in things : NsOf[x] = d[1] /\ f = Manifest(d, x)}
<1>1. May(R) /\ May(N) /\ May(M)
  <2>1. May(R)
    BY RawsMay
  <2>2. May(N)
    BY NamespacesMay
  <2>3. \A f \in M : \E d \in Promoted :
            /\ f \in AppFiles(d)
            /\ Doubtful(d) \/ \E x \in things : NsOf[x] = d[1] /\ f = Manifest(d, x)
    OBVIOUS
  <2>4. May(M)
    <3> HIDE DEF M
    <3>. QED
      BY <2>3, ManifestsMay
  <2>. QED
    BY <2>1, <2>2, <2>4
<1>2. ASSUME NEW f \in ObjectFiles PROVE f \in R \cup N \cup M
  <2>1. CASE \E x \in ObjectsThere : NsOf[x] \notin PromotedNs \cup Ambiguous /\ f = Raw(x)
    BY <2>1 DEF ObjectsThere
  <2>2. CASE \E n \in PromotedNs \cap nss : f = NamespaceYaml(n)
    <3>1. PICK n \in PromotedNs : f = NamespaceYaml(n)
      BY <2>2
    <3>2. n \in Namespaces /\ FolderOf(n) \in promote /\ FolderOf(n)[1] = n
      BY <1>0, ItsFolder DEF Promoted
    <3>. QED
      BY <3>1, <3>2 DEF Deployed
  <2>3. CASE \E n \in PromotedNs \ HeldNs(ObjectsThere, {}) : \E x \in ObjectsThere \cup writable :
                 NsOf[x] = n /\ f = Manifest(FolderOf(n), x)
    <3>1. PICK n \in PromotedNs, x \in ObjectsThere \cup writable : NsOf[x] = n /\ f = Manifest(FolderOf(n), x)
      BY <2>3
    <3>2. x \in things /\ x \in Things
      BY <1>0 DEF ObjectsThere, TypeOK
    <3>3. FolderOf(n) \in Promoted /\ FolderOf(n)[1] = n
      BY <1>0, ItsFolder
    <3>4. f \in AppFiles(FolderOf(n))
      BY <3>1, <3>2, <3>3, Members
    <3>. QED
      BY <3>1, <3>2, <3>3, <3>4
  <2>. QED
    BY <2>1, <2>2, <2>3, ObjectFilesAre
<1> HIDE DEF R, N, M
<1>3. May(R \cup N \cup M)
  BY <1>1, MayOfUnion
<1>4. ObjectFiles \in SUBSET (R \cup N \cup M)
  BY <1>2
<1>. QED
  BY <1>3, <1>4, MayOfPart

LEMMA DoubtMay ==
    ASSUME TypeOK, BaseInv, PromotedThere, unlisted = {},
           secrets \subseteq things, NEW K \in SUBSET KeptInDoubt(ObjectsThere, {})
    PROVE  May(K)
<1>0. promote \subseteq Folders /\ MarkersApart
  BY DEF TypeOK, BaseInv
<1> DEFINE N == {f \in K : \E n \in Namespaces : f = NamespaceYaml(n) /\ Deployed(n)}
           M == {f \in K : \E d \in Promoted :
                     /\ f \in AppFiles(d)
                     /\ Doubtful(d) \/ \E x \in things : NsOf[x] = d[1] /\ f = Manifest(d, x)}
<1>1. May(N) /\ May(M)
  <2>2. May(N)
    BY NamespacesMay
  <2>3. \A f \in M : \E d \in Promoted :
            /\ f \in AppFiles(d)
            /\ Doubtful(d) \/ \E x \in things : NsOf[x] = d[1] /\ f = Manifest(d, x)
    OBVIOUS
  <2>4. May(M)
    <3> HIDE DEF M
    <3>. QED
      BY <2>3, ManifestsMay
  <2>. QED
    BY <2>2, <2>4
<1>2. ASSUME NEW f \in K PROVE f \in N \cup M
  <2>1. CASE \E n \in HeldNs(ObjectsThere, {}) : f \in AppFiles(FolderOf(n))
    <3>1. PICK n \in HeldNs(ObjectsThere, {}) : f \in AppFiles(FolderOf(n))
      BY <2>1
    <3>2. n \in PromotedNs
      BY DEF HeldNs
    <3>. QED
      BY <1>0, <3>1, <3>2, HeldIsDoubtful, ItsFolder
  <2>2. CASE \E n \in PromotedNs \ HeldNs(ObjectsThere, {}) : f \in SecretsKept(n)
    <3>1. PICK n \in PromotedNs : f \in SecretsKept(n)
      BY <2>2
    <3>2. PICK x \in Secrets : NsOf[x] = n /\ x \in secrets /\ f = Manifest(FolderOf(n), x)
      BY <3>1 DEF SecretsKept
    <3>3. FolderOf(n) \in Promoted /\ FolderOf(n)[1] = n
      BY <1>0, <3>1, ItsFolder
    <3>4. f \in AppFiles(FolderOf(n))
      BY <3>2, <3>3, Members DEF Secrets
    <3>. QED
      BY <3>2, <3>3, <3>4
  <2>3. CASE \E d \in Promoted : d[1] \in Ambiguous /\ f \in AppFiles(d) \cup {NamespaceYaml(d[1])}
    <3>1. PICK d \in Promoted : d[1] \in Ambiguous /\ f \in AppFiles(d) \cup {NamespaceYaml(d[1])}
      BY <2>3
    <3>2. d[1] \in Namespaces /\ Deployed(d[1]) /\ Doubtful(d)
      BY <1>0, <3>1 DEF Promoted, Folders, Deployed, Doubtful
    <3>. QED
      BY <3>1, <3>2
  <2>4. CASE \E n \in PromotedNs \ nss : f = NamespaceYaml(n)
    <3>1. PICK n \in PromotedNs : n \notin nss
      BY <2>4
    <3>2. FolderOf(n) \in Promoted /\ FolderOf(n)[1] = n
      BY <1>0, ItsFolder
    <3>. QED
      BY <3>1, <3>2 DEF PromotedThere
  <2>. QED
    BY <2>1, <2>2, <2>3, <2>4, DoubtIs
<1> HIDE DEF N, M
<1>3. May(N \cup M)
  BY <1>1, MayOfUnion
<1>4. K \in SUBSET (N \cup M)
  BY <1>2
<1>. QED
  BY <1>3, <1>4, MayOfPart

LEMMA ObjectFilesMust ==
    ASSUME TypeOK, BaseInv, PromotedThere, writable = {x \in Secrets \cap known : NsOf[x] \in PromotedNs}
    PROVE  MustNamespace(ObjectFiles, PromotedNs) /\ MustRaw(ObjectFiles) /\ MustPromoted(ObjectFiles)
<1>0. promote \subseteq Folders /\ MarkersApart /\ known \subseteq things
  BY DEF TypeOK, BaseInv
<1>1. MustNamespace(ObjectFiles, PromotedNs)
  <2>1. ASSUME NEW n \in PromotedNs PROVE n \in nss
    BY <1>0, ItsFolder DEF PromotedThere
  <2>. QED
    BY <2>1, ObjectFilesAre DEF MustNamespace
<1>2. MustRaw(ObjectFiles)
  BY ObjectFilesAre DEF MustRaw, ObjectsThere
<1>3. MustPromoted(ObjectFiles)
  <2>1. ASSUME NEW d \in promote, NEW x \in things, NsOf[x] = d[1], ~Doubtful(d), x \in Objects \cup known
        PROVE  Manifest(d, x) \in ObjectFiles
    <3>1. d[1] \in PromotedNs \ HeldNs(ObjectsThere, {}) /\ FolderOf(d[1]) = d
      BY <1>0, <2>1, InNoDoubt
    <3>2. x \in ObjectsThere \cup writable
      BY <2>1, <3>1 DEF ObjectsThere, TypeOK
    <3>. QED
      BY <2>1, <3>1, <3>2, ObjectFilesAre
  <2>. QED
    BY <2>1 DEF MustPromoted
<1>. QED
  BY <1>1, <1>2, <1>3

\* A tree that has all that is called for has what WriteObjects writes.
LEMMA ObjectFilesCalledFor ==
    ASSUME TypeOK, BaseInv, Must(files), writable = {x \in Secrets \cap known : NsOf[x] \in PromotedNs}
    PROVE  ObjectFiles \subseteq files
<1>0. promote \subseteq Folders /\ MarkersApart /\ known \subseteq things
  BY DEF TypeOK, BaseInv
<1> SUFFICES ASSUME NEW f \in ObjectFiles PROVE f \in files
  OBVIOUS
<1>1. CASE \E x \in ObjectsThere : NsOf[x] \notin PromotedNs \cup Ambiguous /\ f = Raw(x)
  BY <1>1 DEF ObjectsThere, Must, MustRaw
<1>2. CASE f \notin Protected /\ \E n \in PromotedNs \cap nss : f = NamespaceYaml(n)
  BY <1>2 DEF Must, MustNamespace
<1>3. CASE \E n \in PromotedNs \ HeldNs(ObjectsThere, {}) : \E x \in ObjectsThere \cup writable :
               NsOf[x] = n /\ f = Manifest(FolderOf(n), x)
  <2>1. PICK n \in PromotedNs \ HeldNs(ObjectsThere, {}), x \in ObjectsThere \cup writable :
            NsOf[x] = n /\ f = Manifest(FolderOf(n), x)
    BY <1>3
  <2>2. FolderOf(n) \in promote /\ FolderOf(n)[1] = n /\ ~Doubtful(FolderOf(n))
    BY <1>0, ItsFolder, HeldIsDoubtful DEF Promoted
  <2>3. x \in things /\ x \in Objects \cup known
    BY <1>0 DEF ObjectsThere
  <2>. QED
    BY <2>1, <2>2, <2>3 DEF Must, MustPromoted
<1>. QED
  BY <1>1, <1>2, <1>3, ObjectFilesAre

\* Once something is disturbed nothing is said until the next run.
LEMMA DisturbedTree ==
    ASSUME BaseInv', calm' = FALSE, settled' = 0
    PROVE  TreeInv'
<1>1. CourseInv' /\ CapturedInv'
  BY DEF CourseInv, CapturedInv
<1>2. DeployedInv' /\ ClearedInv' /\ ListedInv'
  BY DEF DeployedInv, ClearedInv, ListedInv
<1>. QED
  BY <1>1, <1>2 DEF TreeInv

LEMMA FaultDisturbs ==
    ASSUME NEW kind, Fault(kind), BaseInv'
    PROVE  TreeInv'
<1>1. calm' = FALSE /\ settled' = 0
  BY Zenon DEF Fault
<1>. QED
  BY <1>1, DisturbedTree

LEMMA StartTree ==
    ASSUME TypesInv, TreeInv, Start, BaseInv'
    PROVE  TreeInv'
<1>0. /\ TypeOK /\ SettledIsCalm /\ CapturedInv /\ DeployedInv /\ ClearedInv /\ ListedInv /\ BaseInv
  BY DEF TypesInv, TreeInv, BaseInv
<1>1. PICK failed \in SUBSET PromotedNs :
          /\ unlisted' = failed
          /\ secrets' = UNION {SecretsOf(n) : n \in PromotedNs \ failed}
          /\ writable' = secrets' \cap known
          /\ IF failed = {} THEN calm' = TRUE /\ UNCHANGED <<faults, settled>> ELSE Fault("unlisted")
  BY DEF Start
<1>2. CASE failed # {}
  BY <1>1, <1>2, FaultDisturbs
<1>3. CASE failed = {}
  <2>1. /\ UNCHANGED <<nss, helm, things, known, files, lists, hand, promote, settled>>
        /\ pc' = "list" /\ written' = {} /\ unlisted' = {} /\ secrets' = UNION {SecretsOf(n) : n \in PromotedNs}
        /\ writable' = secrets' \cap known
    BY <1>1, <1>3 DEF Start, cluster, repo
  <2>2. secrets' = {x \in Secrets \cap things : NsOf[x] \in PromotedNs}
    <3> DEFINE A == {SecretsOf(n) : n \in PromotedNs}
    <3>1. ASSUME NEW x PROVE x \in UNION A <=> \E n \in PromotedNs : x \in SecretsOf(n)
      BY Zenon
    <3> HIDE DEF A
    <3>2. secrets' = UNION A
      BY <2>1 DEF A
    <3>. QED
      BY <3>1, <3>2 DEF SecretsOf
  <2>3. May({})
    BY DEF May, MayRelease, MayPromoted, MayRaw, MayNamespace
  <2>4. CourseInv'
    <3>1. ReadsRight'
      BY <2>1, <2>2, NamesStay DEF ReadsRight
    <3>2. May(written)'
      BY <2>1, <2>3, AllowedStays
    <3>3. SoFar'
      BY <2>1 DEF SoFar
    <3>. QED
      BY <3>1, <3>2, <3>3 DEF CourseInv
  <2>5. settled > 1 => BareNamespaces(files) /\ NoEmptyFolder
    BY <1>0 DEF ClearedInv
  <2>6. /\ settled' > 0 => PromotedThere' /\ May(files)' /\ Must(files)'
        /\ DeployedInv' /\ ListedInv'
        /\ settled' > 1 => BareNamespaces(files)' /\ NoEmptyFolder'
    BY <1>0, <2>1, <2>5, TreeStays
  <2>7. CapturedInv' /\ ClearedInv'
    BY <2>1, <2>6 DEF CapturedInv, ClearedInv, Idle
  <2>. QED
    BY <2>4, <2>6, <2>7 DEF TreeInv
<1>. QED
  BY <1>2, <1>3

LEMMA ListTree ==
    ASSUME TypesInv, TreeInv, ListReleases, BaseInv'
    PROVE  TreeInv'
<1>0. /\ TypeOK /\ SettledIsCalm /\ CapturedInv /\ DeployedInv /\ ClearedInv /\ ListedInv /\ BaseInv /\ CourseInv
  BY DEF TypesInv, TreeInv, BaseInv
<1>1. /\ UNCHANGED <<nss, helm, things, known, files, lists, hand, promote, settled, calm>>
      /\ UNCHANGED <<before, written, secrets, writable, unlisted>>
      /\ pc = "list" /\ pc' = "releases" /\ selected' = helm /\ PromotedThere
  BY DEF ListReleases, NoFault, cluster, repo, PromotedThere
<1>2. CourseInv'
  <2> SUFFICES ASSUME calm PROVE ReadsRight' /\ May(written)' /\ SoFar'
    BY <1>1 DEF CourseInv
  <2>1. ReadsRight /\ May(written)
    BY <1>0, <1>1 DEF CourseInv, Idle
  <2>2. ReadsRight'
    BY <1>1, <2>1, NamesStay DEF ReadsRight
  <2>3. May(written)'
    BY <1>1, <2>1, AllowedStays
  <2>4. SoFar'
    BY <1>1 DEF SoFar
  <2>. QED
    BY <2>2, <2>3, <2>4
<1>5. settled > 1 => BareNamespaces(files) /\ NoEmptyFolder
  BY <1>0 DEF ClearedInv
<1>6. /\ settled' > 0 => PromotedThere' /\ May(files)' /\ Must(files)'
      /\ DeployedInv' /\ ListedInv'
      /\ settled' > 1 => BareNamespaces(files)' /\ NoEmptyFolder'
  BY <1>0, <1>1, <1>5, TreeStays
<1>7. CapturedInv' /\ ClearedInv'
  BY <1>1, <1>6 DEF CapturedInv, ClearedInv, Idle
<1>. QED
  BY <1>2, <1>6, <1>7 DEF TreeInv

\* What is common to the four steps that write.
LEMMA WriteTree ==
    ASSUME TypesInv, TreeInv, BaseInv', calm,
           pc \in {"releases", "namespaces", "cluster", "objects"},
           pc' \in {"namespaces", "cluster", "objects", "sweep"},
           UNCHANGED <<nss, helm, things, known, lists, hand, promote, settled, calm>>,
           UNCHANGED <<before, selected, secrets, writable, unlisted>>,
           NEW W, NEW K, May(W), May(K), files' = files \cup W, written' = written \cup W \cup K,
           settled > 0 => \A f \in W : f \in files \/ \E n \in Namespaces : f = ClusterNs(n),
           pc' = "sweep" => Must(written') /\ KeptInDoubt(ObjectsThere, {}) \cap before \subseteq written',
           MustRelease(written'), pc' # "namespaces" => MustNamespace(written', HelmNs),
           settled > 0 /\ pc' \in {"objects", "sweep"} => BareNamespaces(written')
    PROVE  TreeInv'
<1>0. /\ TypeOK /\ SettledIsCalm /\ CapturedInv /\ DeployedInv /\ ClearedInv /\ ListedInv /\ BaseInv /\ CourseInv
  BY DEF TypesInv, TreeInv, BaseInv
<1>1. ~Idle /\ ReadsRight /\ May(written)
  BY <1>0 DEF CourseInv, Idle
<1>2. CourseInv'
  <2>1. ReadsRight'
    BY <1>1, NamesStay DEF ReadsRight
  <2>2. May(written)'
    <3>1. May(written \cup W)
      BY <1>1, MayOfUnion
    <3>2. May(written')
      BY <3>1, MayOfUnion
    <3>. QED
      BY <3>2, AllowedStays
  <2>3. SoFar'
    <3>1. MustRelease(written)'
      BY AllowedStays
    <3>2. pc' # "namespaces" => MustNamespace(written, HelmNs)'
      BY AllowedStays
    <3>3. pc' = "sweep" => Must(written)'
      BY AllowedStays
    <3>4. KeptInDoubt(ObjectsThere, {})' = KeptInDoubt(ObjectsThere, {})
      BY NamesStay DEF KeptInDoubt, HeldNs, FolderOf, PromotedIn, SecretsKept, ObjectsThere
    <3>. QED
      BY <3>1, <3>2, <3>3, <3>4 DEF SoFar, ObjectsThere
  <2>. QED
    BY <2>1, <2>2, <2>3 DEF CourseInv
<1>5. settled > 1 => BareNamespaces(files) /\ NoEmptyFolder
  BY <1>0 DEF ClearedInv
<1>5a. settled \in Nat
  BY <1>0 DEF TypeOK
<1>6. /\ settled' > 0 => PromotedThere' /\ May(files)' /\ Must(files)'
      /\ DeployedInv' /\ ListedInv'
      /\ settled' > 1 => BareNamespaces(files)' /\ NoEmptyFolder'
  BY <1>0, <1>5, <1>5a, CalmWrite
<1>7. CapturedInv' /\ ClearedInv'
  <2>1. settled' > 0 /\ pc' \in {"objects", "sweep"} => BareNamespaces(written)'
    BY AllowedStays
  <2>. QED
    BY <1>6, <2>1 DEF CapturedInv, ClearedInv, Idle
<1>. QED
  BY <1>2, <1>6, <1>7 DEF TreeInv

\* What writes nothing writes what is allowed.
LEMMA NothingMay == May({})
BY DEF May, MayRelease, MayPromoted, MayRaw, MayNamespace

\* A step of a run that is disturbed already.
LEMMA StaysDisturbed ==
    ASSUME TypeOK, SettledIsCalm, ~calm, NoFault, BaseInv'
    PROVE  TreeInv'
<1>1. settled' = 0
  BY DEF TypeOK, SettledIsCalm, NoFault
<1>2. calm' = FALSE
  BY DEF TypeOK, NoFault
<1>. QED
  BY <1>1, <1>2, DisturbedTree

LEMMA WriteReleasesTree ==
    ASSUME TypesInv, TreeInv, WriteReleases, BaseInv'
    PROVE  TreeInv'
<1>0. TypeOK /\ SettledIsCalm /\ CapturedInv /\ BaseInv /\ CourseInv
  BY DEF TypesInv, TreeInv, BaseInv
<1>1. /\ UNCHANGED <<nss, helm, things, known, lists, hand, promote, settled, calm>>
      /\ UNCHANGED <<before, selected, secrets, writable, unlisted>>
      /\ pc = "releases" /\ pc' = "namespaces" /\ NoFault
      /\ files' = files \cup ReleaseFiles(selected) /\ written' = written \cup ReleaseFiles(selected)
  BY DEF WriteReleases, NoFault, Write, cluster, reads
<1>2. CASE calm
  <2>1. selected = helm /\ May(ReleaseFiles(helm)) /\ MustRelease(ReleaseFiles(helm))
    BY <1>0, <1>1, <1>2, ReleasesMay DEF CourseInv, Idle, ReadsRight
  <2>2. settled > 0 => ReleaseFiles(helm) \subseteq files
    <3>1. settled > 0 => MustRelease(files)
      BY <1>0, <1>2 DEF CapturedInv, Must
    <3>. QED
      BY <3>1 DEF MustRelease, ReleaseFiles
  <2>3. MustRelease(written')
    <3>1. ReleaseFiles(helm) \subseteq written'
      BY <1>1, <2>1
    <3>. QED
      BY <2>1, <3>1, MustOfMore
  <2>4. written' = written \cup ReleaseFiles(helm) \cup {} /\ files' = files \cup ReleaseFiles(helm)
    BY <1>1, <2>1
  <2>. QED
    BY <1>1, <1>2, <2>1, <2>2, <2>3, <2>4, NothingMay, WriteTree
<1>3. CASE ~calm
  BY <1>0, <1>1, <1>3, StaysDisturbed
<1>. QED
  BY <1>2, <1>3

LEMMA WriteNamespacesTree ==
    ASSUME TypesInv, TreeInv, WriteNamespaces, BaseInv'
    PROVE  TreeInv'
<1>0. TypeOK /\ SettledIsCalm /\ CapturedInv /\ BaseInv /\ CourseInv
  BY DEF TypesInv, TreeInv, BaseInv
<1> DEFINE W == {NamespaceYaml(n) : n \in {d[1] : d \in selected} \cap nss} \ Protected
<1>1. /\ UNCHANGED <<nss, helm, things, known, lists, hand, promote, settled, calm>>
      /\ UNCHANGED <<before, selected, secrets, writable, unlisted>>
      /\ pc = "namespaces" /\ pc' = "cluster" /\ NoFault
      /\ files' = files \cup W /\ written' = written \cup W \cup {}
  BY DEF WriteNamespaces, NoFault, Write, cluster, reads
<1>2. CASE calm
  <2>1. selected = helm /\ MustRelease(written)
    BY <1>0, <1>1, <1>2 DEF CourseInv, Idle, ReadsRight, SoFar
  <2>2. HelmNs \subseteq nss /\ nss \subseteq Namespaces
    BY <1>0 DEF BaseInv, InNamespaces, HelmNs, TypeOK
  <2>3. W = {NamespaceYaml(n) : n \in HelmNs} \ Protected
    BY <2>1, <2>2 DEF HelmNs
  <2> HIDE DEF W
  <2>4. May(W)
    <3>1. \A n \in HelmNs : n \in Namespaces /\ Deployed(n)
      BY <2>2 DEF HelmNs, Deployed
    <3>. QED
      BY <2>3, <3>1, NamespacesMay
  <2>5. settled > 0 => W \subseteq files
    BY <1>0, <1>2, <2>3 DEF CapturedInv, Must, MustNamespace
  <2>6. MustRelease(written') /\ MustNamespace(written', HelmNs)
    <3>1. MustNamespace(W, HelmNs)
      BY <2>3 DEF MustNamespace
    <3>2. written \subseteq written' /\ W \subseteq written'
      BY <1>1
    <3>. QED
      BY <2>1, <3>1, <3>2, MustOfMore
  <2>. QED
    BY <1>1, <1>2, <2>4, <2>5, <2>6, NothingMay, WriteTree
<1>3. CASE ~calm
  BY <1>0, <1>1, <1>3, StaysDisturbed
<1>. QED
  BY <1>2, <1>3

\* A namespace nothing is deployed in has, after a settled run, no folder; one
\* something is deployed in has one by the time the cluster's kinds are written.
LEMMA FolderWhenDeployed ==
    ASSUME TypeOK, BaseInv, MustRelease(files), NEW n \in Namespaces, Deployed(n)
    PROVE  HasFolder(n)
<1>1. PICK d \in helm \cup hand \cup promote : d[1] = n
  BY DEF Deployed
<1>2. d \in Folders
  BY DEF TypeOK
<1>3. CASE d \in hand \cup promote
  BY <1>1, <1>2, <1>3 DEF HasFolder
<1>4. CASE d \in helm \ hand
  BY <1>1, <1>2, <1>4, Members DEF HasFolder, MustRelease
<1>. QED
  BY <1>1, <1>3, <1>4

LEMMA NoFolderWhenBare ==
    ASSUME TypeOK, BaseInv, May(files), Scaffolded, NEW n \in Namespaces, ~Deployed(n)
    PROVE  ~HasFolder(n)
<1>1. NamespaceYaml(n) \notin files /\ NsKust(n) \notin files
  BY DEF May, MayNamespace, Scaffolded
<1>2. ASSUME NEW d \in Folders, d[1] = n PROVE InFolder(d) \cap files = {} /\ d \notin hand \cup promote
  <2>1. d \notin helm \cup hand \cup promote
    BY <1>2 DEF Deployed
  <2>2. {Release(d), Values(d), HelmRelease(d), AppKust(d), Ks(d)} \cap files = {}
    BY <1>2, <2>1 DEF May, MayRelease, Scaffolded
  <2>3. \A x \in Things : Manifest(d, x) \notin files
    BY <1>2, <2>1 DEF BaseInv, ManifestsPromoted
  <2>. QED
    BY <2>1, <2>2, <2>3, InFolderIs
<1>. QED
  BY <1>1, <1>2 DEF HasFolder

LEMMA WriteClusterTree ==
    ASSUME TypesInv, TreeInv, WriteClusterKinds, BaseInv'
    PROVE  TreeInv'
<1>0. TypeOK /\ SettledIsCalm /\ CapturedInv /\ BaseInv /\ CourseInv /\ DeployedInv
  BY DEF TypesInv, TreeInv, BaseInv
<1> DEFINE W == {ClusterNs(n) : n \in {m \in nss : ~HasFolder(m)}}
<1>1. CASE \E kind : Fault(kind)
  BY <1>1, FaultDisturbs
<1>2. CASE ~\E kind : Fault(kind)
  <2>1. /\ UNCHANGED <<nss, helm, things, known, lists, hand, promote, settled, calm>>
        /\ UNCHANGED <<before, selected, secrets, writable, unlisted>>
        /\ pc = "cluster" /\ pc' = "objects" /\ NoFault
        /\ files' = files \cup W /\ written' = written \cup W \cup {}
    BY <1>2 DEF WriteClusterKinds, NoFault, Write, cluster, reads
  <2>2. CASE calm
    <3>1. MustRelease(written) /\ MustNamespace(written, HelmNs)
      BY <1>0, <2>1, <2>2 DEF CourseInv, Idle, SoFar
    <3>2. MustRelease(files)
      BY <1>0, <3>1, MustOfMore DEF TypeOK
    <3>3. \A f \in W : \E n \in nss : f = ClusterNs(n) /\ ~Deployed(n)
      BY <1>0, <3>2, FolderWhenDeployed DEF TypeOK
    <3>4. settled > 0 => BareNamespaces(W)
      BY <1>0, <2>2, NoFolderWhenBare DEF CapturedInv, DeployedInv, BareNamespaces, TypeOK
    <3> HIDE DEF W
    <3>5. May(W)
      BY <3>3, ClustersMay
    <3>6. settled > 0 => \A f \in W : f \in files \/ \E n \in Namespaces : f = ClusterNs(n)
      BY <1>0, <3>3 DEF TypeOK
    <3>7. written \subseteq written' /\ W \subseteq written'
      BY <2>1
    <3>8. MustRelease(written') /\ MustNamespace(written', HelmNs)
      BY <3>1, <3>7, MustOfMore
    <3>9. settled > 0 => BareNamespaces(written')
      BY <3>4, <3>7 DEF BareNamespaces
    <3>. QED
      BY <2>1, <2>2, <3>5, <3>6, <3>8, <3>9, NothingMay, WriteTree
  <2>3. CASE ~calm
    BY <1>0, <2>1, <2>3, StaysDisturbed
  <2>. QED
    BY <2>2, <2>3
<1>. QED
  BY <1>1, <1>2

LEMMA WriteObjectsTree ==
    ASSUME TypesInv, TreeInv, WriteObjects, BaseInv'
    PROVE  TreeInv'
<1>0. TypeOK /\ SettledIsCalm /\ CapturedInv /\ BaseInv /\ CourseInv /\ ClearedInv
  BY DEF TypesInv, TreeInv, BaseInv
<1>1. CASE \E kind : Fault(kind)
  BY <1>1, FaultDisturbs
<1>2. CASE ~\E kind : Fault(kind)
  <2> DEFINE K == KeptInDoubt(ObjectsThere, {}) \cap before
  <2>1. /\ NoFault /\ WriteAndKeep(ObjectFiles, KeptInDoubt(ObjectsThere, {}))
    <3> DEFINE listed(failed) == {x \in Objects \cap things : KindOf[x] \notin failed}
               W(failed) == {Raw(x) : x \in {y \in listed(failed) : NsOf[y] \notin PromotedNs \cup Ambiguous}}
                   \cup ({NamespaceYaml(n) : n \in PromotedNs \cap nss} \ Protected)
                   \cup UNION {PromotedManifests(n, listed(failed)) : n \in PromotedNs \ HeldNs(listed(failed), failed)}
    <3>1. PICK failed \in SUBSET Kinds :
              /\ WriteAndKeep(W(failed), KeptInDoubt(listed(failed), failed))
              /\ IF failed = {} THEN NoFault ELSE Fault("unlisted")
      BY DEF WriteObjects
    <3>2. listed({}) = ObjectsThere
      BY DEF ObjectsThere
    <3>3. W({}) = ObjectFiles
      BY <3>2 DEF ObjectFiles
    <3> HIDE DEF listed, W
    <3>4. failed = {}
      BY <1>2, <3>1
    <3>. QED
      BY <3>1, <3>2, <3>3, <3>4
  <2>2. /\ UNCHANGED <<nss, helm, things, known, lists, hand, promote, settled, calm>>
        /\ UNCHANGED <<before, selected, secrets, writable, unlisted>>
        /\ pc = "objects" /\ pc' = "sweep"
        /\ files' = files \cup ObjectFiles /\ written' = written \cup ObjectFiles \cup K
    <3>1. /\ UNCHANGED <<nss, helm, things, known, lists, hand, promote>>
          /\ UNCHANGED <<before, selected, secrets, writable, unlisted>>
          /\ pc = "objects" /\ pc' = "sweep"
      BY DEF WriteObjects, cluster, reads
    <3>. QED
      BY <2>1, <3>1 DEF NoFault, WriteAndKeep, Keep
  <2>3. CASE calm
    <3>1. /\ ReadsRight /\ MustRelease(written) /\ MustNamespace(written, HelmNs)
          /\ selected = helm /\ PromotedThere
      BY <1>0, <2>2, <2>3 DEF CourseInv, Idle, SoFar, ReadsRight
    <3>2. /\ unlisted = {} /\ secrets \subseteq things
          /\ writable = {x \in Secrets \cap known : NsOf[x] \in PromotedNs}
      BY <1>0, <3>1 DEF ReadsRight, TypeOK
    <3>3. May(ObjectFiles) /\ May(K)
      BY <1>0, <3>1, <3>2, ObjectFilesMay, DoubtMay
    <3>4. settled > 0 => ObjectFiles \subseteq files
      BY <1>0, <2>3, <3>2, ObjectFilesCalledFor DEF CapturedInv
    <3>5. written \subseteq written' /\ ObjectFiles \subseteq written' /\ K \subseteq written'
      BY <2>2
    <3>6. MustRelease(written') /\ MustNamespace(written', HelmNs)
      BY <3>1, <3>5, MustOfMore
    <3>7. Must(written')
      <4>1. MustNamespace(ObjectFiles, PromotedNs) /\ MustRaw(ObjectFiles) /\ MustPromoted(ObjectFiles)
        BY <1>0, <3>1, <3>2, ObjectFilesMust
      <4>2. MustNamespace(written', HelmNs \cup PromotedNs)
        BY <3>5, <3>6, <4>1 DEF MustNamespace
      <4>3. MustRaw(written') /\ MustPromoted(written')
        BY <3>5, <4>1 DEF MustRaw, MustPromoted
      <4>. QED
        BY <3>6, <4>2, <4>3 DEF Must
    <3>8. settled > 0 => BareNamespaces(written')
      BY <1>0, <2>2, <3>5 DEF ClearedInv, BareNamespaces
    <3> HIDE DEF K
    <3>9. KeptInDoubt(ObjectsThere, {}) \cap before \subseteq written'
      BY <3>5 DEF K
    <3>. QED
      BY <2>2, <2>3, <3>3, <3>4, <3>6, <3>7, <3>8, <3>9, WriteTree
  <2>4. CASE ~calm
    BY <1>0, <2>1, <2>4, StaysDisturbed
  <2>. QED
    BY <2>3, <2>4
<1>. QED
  BY <1>1, <1>2

\* What a sweep leaves of capture's own files the run wrote or keeps.
LEMMA SweptIsAllowed ==
    ASSUME TypeOK, BaseInv, May(written), NEW fs, \A f \in fs : f \in CaptureOwns => f \in written
    PROVE  May(fs)
<1>0. MarkersApart /\ promote \subseteq Folders
  BY DEF BaseInv, TypeOK
<1>1. MayRelease(fs)
  BY CaptureOwnsWhat DEF May, MayRelease
<1>2. MayRaw(fs)
  BY CaptureOwnsWhat DEF May, MayRaw
<1>3. MayNamespace(fs)
  <2> SUFFICES ASSUME NEW n \in Namespaces
               PROVE  /\ NamespaceYaml(n) \in fs => Deployed(n)
                      /\ ClusterNs(n) \in fs => n \in nss /\ ~Deployed(n)
    BY DEF MayNamespace
  <2>1. NamespaceYaml(n) \in Protected => Deployed(n)
    BY ProtectedNamespace DEF Deployed
  <2>. QED
    BY <2>1, CaptureOwnsWhat DEF May, MayNamespace
<1>4. MayPromoted(fs)
  <2>1. \A d \in promote : AppFiles(d) \subseteq CaptureOwns
    BY <1>0, CaptureOwnsWhat DEF MarkersApart, Promoted
  <2>. QED
    BY <2>1 DEF May, MayPromoted
<1>. QED
  BY <1>1, <1>2, <1>3, <1>4 DEF May

\* In a tree that a settled run left, such a run finds nothing to remove.
LEMMA NothingToSweep ==
    ASSUME TypeOK, Ownership, BaseInv, ReadsRight, pc = "sweep", May(files), Must(written), BareNamespaces(written),
           KeptInDoubt(ObjectsThere, {}) \cap before \subseteq written
    PROVE  before \subseteq written
<1>0. /\ MarkersApart /\ promote \subseteq Folders /\ helm \subseteq Folders
      /\ unlisted = {} /\ secrets = {x \in Secrets \cap things : NsOf[x] \in PromotedNs} /\ writable = secrets \cap known
  BY DEF BaseInv, TypeOK, ReadsRight
<1> SUFFICES ASSUME NEW f \in before PROVE f \in written
  OBVIOUS
<1>1. f \in files /\ f \in CaptureOwns /\ f \notin Protected
  BY CaptureOwnsIs DEF TypeOK, Ownership
<1>2. f \in KeptInDoubt(ObjectsThere, {}) => f \in written
  OBVIOUS
<1>3. CASE \E n \in Namespaces : f = NamespaceYaml(n)
  <2>1. PICK n \in Namespaces : f = NamespaceYaml(n)
    BY <1>3
  <2>2. PICK d \in helm \cup hand \cup promote : d[1] = n
    BY <1>1, <2>1 DEF May, MayNamespace, Deployed
  <2>3. d \notin hand
    BY <1>1, <2>1, <2>2, ProtectedNamespace
  <2>4. CASE d \in helm
    <3>1. n \in HelmNs
      BY <2>2, <2>4 DEF HelmNs
    <3>. QED
      BY <1>1, <2>1, <3>1 DEF Must, MustNamespace
  <2>5. CASE d \in Promoted
    <3>1. CASE n \in PromotedNs
      BY <1>1, <2>1, <3>1 DEF Must, MustNamespace
    <3>2. CASE n \in Ambiguous
      <4>1. f \in AppFiles(d) \cup {NamespaceYaml(d[1])} /\ d[1] \in Ambiguous
        BY <2>1, <2>2, <3>2
      <4>2. f \in KeptInDoubt(ObjectsThere, {})
        BY <2>5, <4>1, DoubtIs
      <4>. QED
        BY <1>2, <4>2
    <3>. QED
      BY <1>0, <2>2, <2>5, <3>1, <3>2, ItsNamespace
  <2>. QED
    BY <2>3, <2>4, <2>5 DEF Promoted
<1>4. CASE \E n \in Namespaces : f = ClusterNs(n)
  BY <1>1, <1>4 DEF May, MayNamespace, BareNamespaces
<1>5. CASE \E x \in Objects : f = Raw(x)
  BY <1>1, <1>5 DEF May, MayRaw, Must, MustRaw
<1>6. CASE \E d \in Promoted : f \in AppFiles(d)
  <2>1. PICK d \in Promoted : f \in AppFiles(d)
    BY <1>6
  <2>2. d \in promote /\ d \in Folders
    BY <1>0 DEF Promoted
  <2>3. CASE d[1] \in Ambiguous
    <3>1. f \in KeptInDoubt(ObjectsThere, {})
      BY <2>1, <2>3, DoubtIs
    <3>. QED
      BY <1>2, <3>1
  <2>4. CASE d[1] \notin Ambiguous /\ Doubtful(d)
    <3>1. d[1] \in PromotedNs
      BY <1>0, <2>4, ItsNamespace
    <3>2. FolderOf(d[1]) = d
      BY <1>0, <3>1, ItsFolder
    <3>3. d[1] \in HeldNs(ObjectsThere, {})
      BY <2>4, <3>1, <3>2, HeldIsDoubtful
    <3>4. f \in KeptInDoubt(ObjectsThere, {})
      BY <2>1, <3>2, <3>3, DoubtIs
    <3>. QED
      BY <1>2, <3>4
  <2>5. CASE ~Doubtful(d)
    <3>1. PICK x \in things : NsOf[x] = d[1] /\ f = Manifest(d, x)
      BY <1>1, <2>1, <2>2, <2>5 DEF May, MayPromoted
    <3>2. CASE x \in Objects \cup known
      BY <2>2, <2>5, <3>1, <3>2 DEF Must, MustPromoted
    <3>3. CASE x \notin Objects \cup known
      <4>1. x \in Secrets
        BY <3>3 DEF Objects, TypeOK
      <4>2. d[1] \in PromotedNs \ HeldNs(ObjectsThere, {}) /\ FolderOf(d[1]) = d
        BY <1>0, <2>2, <2>5, InNoDoubt
      <4>3. x \in secrets \ writable
        BY <1>0, <3>1, <3>3, <4>1, <4>2
      <4>4. f \in SecretsKept(d[1])
        BY <3>1, <4>1, <4>2, <4>3 DEF SecretsKept
      <4>5. f \in KeptInDoubt(ObjectsThere, {})
        BY <4>2, <4>4, DoubtIs
      <4>. QED
        BY <1>2, <4>5
    <3>. QED
      BY <3>2, <3>3
  <2>. QED
    BY <2>3, <2>4, <2>5
<1>7. CASE \E d \in Folders : f \in {Release(d), Values(d)}
  <2>1. PICK d \in Folders : f \in {Release(d), Values(d)}
    BY <1>7
  <2>2. d \notin hand
    BY <1>1, <2>1, Members, ProtectedIs
  <2>3. CASE f = Release(d) \/ d \notin promote
    <3>1. d \in helm
      BY <1>1, <2>1, <2>2, <2>3 DEF May, MayRelease
    <3>. QED
      BY <2>1, <2>2, <3>1 DEF Must, MustRelease
  <2>4. CASE f = Values(d) /\ d \in promote
    BY <1>6, <2>2, <2>4, Members DEF Promoted
  <2>. QED
    BY <2>1, <2>3, <2>4
<1>. QED
  BY <1>1, <1>3, <1>4, <1>5, <1>6, <1>7, CaptureOwnsIs

LEMMA SweepTree ==
    ASSUME TypesInv, TreeInv, Sweep, BaseInv'
    PROVE  TreeInv'
<1>0. /\ TypeOK /\ Ownership /\ SettledIsCalm /\ CapturedInv /\ DeployedInv /\ ClearedInv /\ ListedInv
      /\ BaseInv /\ CourseInv /\ Tracked
  BY DEF TypesInv, TreeInv, BaseInv
<1>1. /\ UNCHANGED <<nss, helm, things, known, lists, hand, promote, settled, calm>>
      /\ pc = "sweep" /\ pc' = "captured" /\ NoFault /\ ~Idle
      /\ files' = files \ (before \ written)
  BY DEF Sweep, NoFault, cluster, Idle
<1>2. CASE calm
  <2>1. /\ ReadsRight /\ May(written) /\ Must(written) /\ PromotedThere
        /\ KeptInDoubt(ObjectsThere, {}) \cap before \subseteq written
    BY <1>0, <1>1, <1>2 DEF CourseInv, ReadsRight, SoFar, ObjectsThere
  <2>2. written \subseteq files'
    BY <1>0, <1>1 DEF TypeOK
  <2>3. May(files')
    BY <1>0, <1>1, <2>1, SweptIsAllowed DEF Tracked
  <2>4. Must(files')
    BY <2>1, <2>2, MustOfMore
  <2>5. PromotedThere' /\ May(files)' /\ Must(files)'
    BY <1>1, <2>1, <2>3, <2>4, NamesStay, AllowedStays
  <2>6. CourseInv' /\ CapturedInv'
    BY <1>1, <2>5 DEF CourseInv, CapturedInv, Idle
  <2>7. CASE settled > 0
    <3>1. BareNamespaces(written) /\ May(files)
      BY <1>0, <1>1, <1>2, <2>7 DEF ClearedInv, CapturedInv
    <3>2. before \subseteq written
      BY <1>0, <1>1, <2>1, <3>1, NothingToSweep
    <3>3. files' = files
      BY <1>1, <3>2
    <3>4. settled > 1 => BareNamespaces(files) /\ NoEmptyFolder
      BY <1>0 DEF ClearedInv
    <3>5. /\ DeployedInv' /\ ListedInv'
          /\ settled' > 1 => BareNamespaces(files)' /\ NoEmptyFolder'
      BY <1>0, <1>1, <3>3, <3>4, TreeStays
    <3>6. BareNamespaces(files')
      BY <2>2, <3>1 DEF BareNamespaces
    <3>7. BareNamespaces(files)'
      BY <1>1, <3>6, AllowedStays
    <3>8. ClearedInv'
      BY <1>1, <3>5, <3>7 DEF ClearedInv
    <3>. QED
      BY <2>6, <3>5, <3>8 DEF TreeInv
  <2>8. CASE ~(settled > 0)
    <3>1. ~(settled' > 0) /\ ~(settled' > 1) /\ settled' # 3
      BY <1>0, <1>1, <2>8 DEF TypeOK
    <3>2. DeployedInv' /\ ListedInv' /\ ClearedInv'
      BY <3>1 DEF DeployedInv, ListedInv, ClearedInv
    <3>. QED
      BY <2>6, <3>2 DEF TreeInv
  <2>. QED
    BY <2>7, <2>8
<1>3. CASE ~calm
  BY <1>0, <1>1, <1>3, StaysDisturbed
<1>. QED
  BY <1>2, <1>3
-----------------------------------------------------------------------------
(* generate in such a tree.                                                *)

LEMMA HelmFoldersAre ==
    ASSUME TypeOK, BaseInv, May(files), Must(files)
    PROVE  HelmFolders = helm \ hand
<1>1. helm \subseteq Folders /\ helm \cap promote = {}
  BY DEF TypeOK, BaseInv, MarkersApart
<1>2. \A d \in Folders \ hand : Release(d) \in files => d \in helm
  BY DEF May, MayRelease
<1>3. \A d \in helm \ hand : {Release(d), Values(d)} \subseteq files
  BY DEF Must, MustRelease
<1>. QED
  BY <1>1, <1>2, <1>3 DEF HelmFolders

LEMMA PromotedFoldersAre ==
    ASSUME TypeOK, BaseInv
    PROVE  PromotedFolders = {d \in promote : AppFiles(d) \cap files # {}}
BY DEF PromotedFolders, Promoted, BaseInv, MarkersApart

\* What generate leaves alone: capture's files but a promoted folder's
\* app/helmrelease.yaml.
LEMMA GenerateLeaves ==
    ASSUME TypeOK, BaseInv, files' = (files \cup NewFiles) \ SweptFiles
    PROVE  /\ \A d : /\ Release(d) \in files' <=> Release(d) \in files
                     /\ Values(d) \in files' <=> Values(d) \in files
           /\ \A d, x : Manifest(d, x) \in files' <=> Manifest(d, x) \in files
           /\ \A n : /\ NamespaceYaml(n) \in files' <=> NamespaceYaml(n) \in files
                     /\ ClusterNs(n) \in files' <=> ClusterNs(n) \in files
           /\ \A x : Raw(x) \in files' <=> Raw(x) \in files
           /\ \A d \in promote : AppFiles(d) \cap files' \subseteq files
<1>1. ASSUME NEW d PROVE /\ Release(d) \in files' <=> Release(d) \in files
                         /\ Values(d) \in files' <=> Values(d) \in files
  BY NewFilesWhat, SweptWhat
<1>2. ASSUME NEW d, NEW x PROVE Manifest(d, x) \in files' <=> Manifest(d, x) \in files
  BY NewFilesWhat, SweptWhat
<1>3. ASSUME NEW n PROVE /\ NamespaceYaml(n) \in files' <=> NamespaceYaml(n) \in files
                         /\ ClusterNs(n) \in files' <=> ClusterNs(n) \in files
  BY NewFilesWhat, SweptWhat
<1>4. ASSUME NEW x PROVE Raw(x) \in files' <=> Raw(x) \in files
  BY NewFilesWhat, SweptWhat
<1>5. ASSUME NEW d \in promote, NEW f \in AppFiles(d), f \in files' PROVE f \in files
  <2>1. d \notin HelmFolders
    BY DEF HelmFolders
  <2>2. f \notin NewFiles
    BY <2>1, AppFilesAre, NewFilesWhat
  <2>. QED
    BY <1>5, <2>2
<1>. QED
  BY <1>1, <1>2, <1>3, <1>4, <1>5

LEMMA GenerateAllowed ==
    ASSUME TypeOK, BaseInv, files' = (files \cup NewFiles) \ SweptFiles, May(files), Must(files)
    PROVE  May(files') /\ Must(files')
<1>1. MayRelease(files') /\ MayRaw(files') /\ MayNamespace(files')
  BY GenerateLeaves DEF May, MayRelease, MayRaw, MayNamespace
<1>2. MayPromoted(files')
  BY GenerateLeaves DEF May, MayPromoted
<1>3. MustRelease(files') /\ MustRaw(files') /\ MustNamespace(files', HelmNs \cup PromotedNs)
  BY GenerateLeaves DEF Must, MustRelease, MustRaw, MustNamespace
<1>4. MustPromoted(files')
  BY GenerateLeaves DEF Must, MustPromoted
<1>. QED
  BY <1>1, <1>2, <1>3, <1>4 DEF May, Must

LEMMA GenerateScaffolds ==
    ASSUME TypeOK, BaseInv, UNCHANGED <<helm, hand, promote>>,
           files' = (files \cup NewFiles) \ SweptFiles, May(files), Must(files)
    PROVE  Scaffolded'
<1>0. /\ HelmFolders = helm \ hand /\ PromotedFolders = {d \in promote : AppFiles(d) \cap files # {}}
      /\ NewFiles \cap SweptFiles = {}
  BY HelmFoldersAre, PromotedFoldersAre DEF SweptFiles
<1>1. ASSUME NEW d \in Folders \ hand, NEW f \in {HelmRelease(d), AppKust(d), Ks(d)}
      PROVE  f \in files' <=> f \in NewFiles
  BY <1>0, SweptWhat
<1>2. ASSUME NEW d \in Folders \ hand
      PROVE  /\ HelmRelease(d) \in files' <=> d \in helm
             /\ {AppKust(d), Ks(d)} \cap files' # {} => d \in helm \cup promote
  BY <1>0, <1>1, NewFilesWhat
<1>3. ASSUME NEW d \in helm \ hand PROVE {AppKust(d), Ks(d)} \subseteq files'
  BY <1>0, <1>1, NewFilesWhat DEF TypeOK
<1>4. ASSUME NEW d \in promote, AppFiles(d) \cap files' # {} PROVE {AppKust(d), Ks(d)} \subseteq files'
  <2>1. d \in PromotedFolders
    BY <1>0, <1>4, GenerateLeaves
  <2>2. d \in Folders \ hand
    BY DEF TypeOK, BaseInv, MarkersApart
  <2>. QED
    BY <1>1, <2>1, <2>2, NewFilesWhat
<1>5. ASSUME NEW n \in Namespaces PROVE NsKust(n) \in files' <=> NamespaceYaml(n) \in files'
  <2>1. NsKust(n) \in files' <=> NsKust(n) \in NewFiles
    BY <1>0, SweptWhat
  <2>. QED
    BY <2>1, NewFilesWhat, GenerateLeaves DEF NamespacesWritten
<1>. QED
  BY <1>2, <1>3, <1>4, <1>5 DEF Scaffolded

\* In a tree generate left, no promoted folder is given Flux files for
\* nothing.
LEMMA GenerateEmptiesFolders ==
    ASSUME TypeOK, BaseInv, UNCHANGED <<hand, promote>>,
           files' = (files \cup NewFiles) \ SweptFiles, May(files), Must(files), Scaffolded
    PROVE  NoEmptyFolder'
<1> SUFFICES ASSUME NEW d \in promote, {AppKust(d), Ks(d)} \cap files' # {}
             PROVE  AppFiles(d) \cap files' # {}
  BY DEF NoEmptyFolder
<1>1. d \in Folders \ hand /\ d \notin helm
  BY DEF TypeOK, BaseInv, MarkersApart
<1>2. d \notin HelmFolders
  BY DEF HelmFolders
<1>3. {AppKust(d), Ks(d)} \cap NewFiles # {}
  BY <1>1, SweptWhat
<1>4. d \in PromotedFolders
  BY <1>2, <1>3, NewFilesWhat
<1>5. PICK f \in AppFiles(d) : f \in files
  BY <1>4 DEF PromotedFolders
<1>6. HelmRelease(d) \notin files
  BY <1>1 DEF Scaffolded
<1>7. f \in files'
  BY <1>5, <1>6, AppFilesAre, GenerateLeaves
<1>. QED
  BY <1>5, <1>7

\* A tree that has settled already it leaves as it is.
LEMMA NothingToGenerate ==
    ASSUME TypeOK, BaseInv, May(files), Must(files), Scaffolded, NoEmptyFolder
    PROVE  NewFiles \subseteq files /\ SweptFiles = {}
<1>0. /\ HelmFolders = helm \ hand /\ PromotedFolders = {d \in promote : AppFiles(d) \cap files # {}}
      /\ helm \subseteq Folders
  BY HelmFoldersAre, PromotedFoldersAre DEF TypeOK
<1>1. ASSUME NEW f \in NewFiles PROVE f \in files
  <2>1. CASE \E d \in HelmFolders : f = HelmRelease(d)
    BY <1>0, <2>1 DEF Scaffolded
  <2>2. CASE \E d \in HelmFolders \cup PromotedFolders : f \in {AppKust(d), Ks(d)}
    BY <1>0, <2>2 DEF Scaffolded
  <2>3. CASE \E n \in NamespacesWritten : f = NsKust(n)
    BY <2>3 DEF Scaffolded, NamespacesWritten
  <2>. QED
    BY <2>1, <2>2, <2>3, NewFilesAre
<1>2. ASSUME NEW f \in SweptFiles PROVE FALSE
  <2>1. f \in files /\ f \notin NewFiles /\ f \in GenerateOwns
    BY DEF SweptFiles
  <2>2. CASE \E n \in Namespaces : f = NsKust(n)
    BY <2>1, <2>2, NewFilesWhat DEF Scaffolded, NamespacesWritten
  <2>3. CASE \E d \in Folders : f \in {HelmRelease(d), AppKust(d), Ks(d)}
    <3>1. PICK d \in Folders : f \in {HelmRelease(d), AppKust(d), Ks(d)}
      BY <2>3
    <3>2. d \notin hand
      BY <2>1, <3>1, GenerateOwnsIs, Members, ProtectedIs
    <3>3. f = HelmRelease(d) => d \in HelmFolders
      BY <1>0, <2>1, <3>1, <3>2 DEF Scaffolded
    <3>4. ASSUME f \in {AppKust(d), Ks(d)} PROVE d \in HelmFolders \cup PromotedFolders
      <4>1. {AppKust(d), Ks(d)} \cap files # {}
        BY <2>1, <3>4
      <4>2. d \in helm \cup promote
        BY <3>1, <3>2, <4>1 DEF Scaffolded
      <4>3. d \in promote => AppFiles(d) \cap files # {}
        BY <4>1 DEF NoEmptyFolder
      <4>. QED
        BY <1>0, <3>2, <4>2, <4>3
    <3>. QED
      BY <2>1, <3>1, <3>3, <3>4, NewFilesWhat
  <2>. QED
    BY <2>1, <2>2, <2>3, GenerateOwnsIs
<1>. QED
  BY <1>1, <1>2

LEMMA NewEntries ==
    ASSUME NEW fs, NEW l \in AppEntries(fs) \cup NsEntries(fs)
    PROVE  l[1] \in NewFiles
BY EntriesAre, NewFilesWhat

\* And lists what there is.
LEMMA GenerateLists ==
    ASSUME TypeOK, BaseInv, Generate, May(files), Must(files), Scaffolded, NoEmptyFolder
    PROVE  /\ files' = files
           /\ {l \in lists' : l[1] \in NewFiles} = AppEntries(files) \cup NsEntries(files)
           /\ {l \in lists : l[1] \in NewFiles} = AppEntries(files) \cup NsEntries(files) => lists' = lists
<1>1. NewFiles \subseteq files /\ SweptFiles = {}
  BY NothingToGenerate
<1>2. files' = files
  BY <1>1, GenerateDoes
<1>3. files \cup Scaffolding = files
  BY <1>1 DEF NewFiles
<1> DEFINE E == AppEntries(files) \cup NsEntries(files)
<1>4. lists' = {l \in lists : l[1] \notin NewFiles} \cup E
  BY <1>1, <1>3, GenerateDoes DEF NewLists
<1>5. \A l \in E : l[1] \in NewFiles
  BY NewEntries
<1> HIDE DEF E
<1>6. {l \in lists' : l[1] \in NewFiles} = E
  BY <1>4, <1>5
<1>7. {l \in lists : l[1] \in NewFiles} = E => lists' = lists
  BY <1>4
<1>. QED
  BY <1>2, <1>6, <1>7 DEF E

LEMMA GenerateTree ==
    ASSUME TypesInv, TreeInv, Generate, BaseInv'
    PROVE  TreeInv'
<1>0. /\ TypeOK /\ SettledIsCalm /\ CapturedInv /\ DeployedInv /\ ClearedInv /\ ListedInv /\ BaseInv
  BY DEF TypesInv, TreeInv, BaseInv
<1>1. /\ UNCHANGED <<nss, helm, things, known, hand, promote, calm>> /\ Idle /\ pc' = "idle"
      /\ files' = (files \cup NewFiles) \ SweptFiles
  BY GenerateDoes DEF cluster
<1>2. /\ pc # "captured" => settled' = settled
      /\ pc = "captured" => settled' = IF ~calm THEN 0 ELSE IF settled = 3 THEN 3 ELSE settled + 1
      /\ settled \in 0..3
  BY <1>0 DEF Generate, TypeOK
<1>3. CASE calm
  <2>1. PromotedThere /\ May(files) /\ Must(files)
    BY <1>0, <1>1, <1>3 DEF CapturedInv
  <2>2. May(files') /\ Must(files')
    BY <1>0, <1>1, <2>1, GenerateAllowed
  <2>3. CourseInv' /\ CapturedInv'
    <3>1. PromotedThere' /\ May(files)' /\ Must(files)'
      BY <1>1, <2>1, <2>2, NamesStay, AllowedStays
    <3>. QED
      BY <1>1, <3>1 DEF CourseInv, CapturedInv, Idle
  <2>4. DeployedInv'
    BY <1>0, <1>1, <2>1, GenerateScaffolds DEF DeployedInv
  <2>5. ClearedInv'
    <3> SUFFICES ASSUME settled' > 1 PROVE BareNamespaces(files)' /\ NoEmptyFolder'
      BY <1>1 DEF ClearedInv
    <3>1. settled > 0 /\ (pc = "captured" \/ settled > 1)
      BY <1>2, <1>3
    <3>2. Scaffolded /\ BareNamespaces(files)
      BY <1>0, <3>1 DEF DeployedInv, ClearedInv
    <3>3. BareNamespaces(files')
      BY <1>0, <1>1, <3>2, GenerateLeaves DEF BareNamespaces
    <3>4. BareNamespaces(files)'
      BY <1>1, <3>3, AllowedStays
    <3>5. NoEmptyFolder'
      BY <1>0, <1>1, <2>1, <3>2, GenerateEmptiesFolders
    <3>. QED
      BY <3>4, <3>5
  <2>6. ListedInv'
    <3> SUFFICES ASSUME settled' = 3 PROVE ({l \in lists : l[1] \in NewFiles} = AppEntries(files) \cup NsEntries(files))'
      BY DEF ListedInv
    <3>1. settled > 1
      BY <1>2, <1>3
    <3>2. Scaffolded /\ NoEmptyFolder
      BY <1>0, <1>2, <3>1 DEF DeployedInv, ClearedInv
    <3>3. files' = files /\ {l \in lists' : l[1] \in NewFiles} = AppEntries(files) \cup NsEntries(files)
      BY <1>0, <2>1, <3>2, GenerateLists
    <3>4. NewFiles' = NewFiles /\ AppEntries(files)' = AppEntries(files) /\ NsEntries(files)' = NsEntries(files)
      BY <1>1, <3>3, EntriesStay
    <3>. QED
      BY <3>3, <3>4
  <2>. QED
    BY <2>3, <2>4, <2>5, <2>6 DEF TreeInv
<1>4. CASE ~calm
  <2>1. settled' = 0
    BY <1>0, <1>2, <1>4 DEF SettledIsCalm
  <2>2. calm' = FALSE
    BY <1>0, <1>1, <1>4 DEF TypeOK
  <2>. QED
    BY <2>1, <2>2, DisturbedTree
<1>. QED
  BY <1>3, <1>4
-----------------------------------------------------------------------------

LEMMA InitTree == Init => TreeInv
<1> SUFFICES ASSUME Init PROVE TreeInv
  OBVIOUS
<1>1. MarkersApart /\ InNamespaces /\ HandHasFiles /\ ManifestsPromoted /\ ListedByFiles /\ Tracked /\ SettledIsCalm
  BY DEF Init, MarkersApart, InNamespaces, HandHasFiles, ManifestsPromoted, ListedByFiles, Tracked, SettledIsCalm, Idle
<1>2. CourseInv /\ CapturedInv /\ DeployedInv /\ ClearedInv /\ ListedInv
  BY DEF Init, CourseInv, CapturedInv, DeployedInv, ClearedInv, ListedInv
<1>. QED
  BY <1>1, <1>2 DEF TreeInv, BaseInv

LEMMA StutterTree == TreeInv /\ UNCHANGED vars => TreeInv'
<1> SUFFICES ASSUME TreeInv, UNCHANGED vars PROVE TreeInv'
  OBVIOUS
<1>1. /\ UNCHANGED <<nss, helm, things, known, files, lists, hand, promote, pc, before, written>>
      /\ UNCHANGED <<selected, secrets, writable, unlisted, absent, held, calm, settled>>
  BY DEF vars, cluster, repo, reads, ghosts
<1>2. BaseInv'
  <2>1. MarkersApart' /\ InNamespaces' /\ HandHasFiles' /\ ManifestsPromoted' /\ ListedByFiles' /\ SettledIsCalm'
    BY <1>1 DEF TreeInv, BaseInv, MarkersApart, InNamespaces, HandHasFiles, ManifestsPromoted, ListedByFiles,
                SettledIsCalm
  <2>2. CaptureOwns' = CaptureOwns
    BY <1>1 DEF CaptureOwns, Promoted, Protected
  <2>3. Tracked'
    BY <1>1, <2>2 DEF TreeInv, BaseInv, Tracked, Idle
  <2>. QED
    BY <2>1, <2>3 DEF BaseInv
<1>3. /\ KeptInDoubt(ObjectsThere, {})' = KeptInDoubt(ObjectsThere, {})
      /\ HelmNs' = HelmNs /\ (Idle' <=> Idle) /\ ObjectsThere' = ObjectsThere
  BY <1>1, NamesStay DEF KeptInDoubt, HeldNs, FolderOf, PromotedIn, SecretsKept, ObjectsThere, Idle
<1>4. CourseInv'
  <2> SUFFICES ASSUME calm, ~Idle PROVE (ReadsRight /\ May(written) /\ SoFar)'
    BY <1>1, <1>3 DEF CourseInv
  <2>1. ReadsRight /\ May(written') /\ SoFar
    BY <1>1 DEF TreeInv, CourseInv
  <2>2. ReadsRight'
    BY <1>1, <2>1, NamesStay DEF ReadsRight
  <2>3. May(written)'
    BY <1>1, <2>1, AllowedStays
  <2>4. SoFar'
    <3>1. /\ MustRelease(written') => MustRelease(written)'
          /\ MustNamespace(written', HelmNs) => MustNamespace(written, HelmNs)'
          /\ Must(written') => Must(written)'
      BY <1>1, AllowedStays
    <3>. QED
      BY <1>1, <1>3, <2>1, <3>1 DEF SoFar, ObjectsThere
  <2>. QED
    BY <2>2, <2>3, <2>4
<1>5. CapturedInv'
  BY <1>1, <1>3, NamesStay, AllowedStays DEF TreeInv, CapturedInv
<1>6. DeployedInv'
  BY <1>1 DEF TreeInv, DeployedInv, Scaffolded
<1>7. ClearedInv'
  BY <1>1, AllowedStays DEF TreeInv, ClearedInv, NoEmptyFolder
<1>8. ListedInv'
  BY <1>1, EntriesStay DEF TreeInv, ListedInv
<1>. QED
  BY <1>2, <1>4, <1>5, <1>6, <1>7, <1>8 DEF TreeInv

LEMMA NextTree == TypesInv /\ TreeInv /\ [Next]_vars => TreeInv'
<1> SUFFICES ASSUME TypesInv, TreeInv, [Next]_vars PROVE TreeInv'
  OBVIOUS
<1>0. BaseInv /\ TypeOK
  BY DEF TreeInv, TypesInv
<1>1. CASE Change
  BY <1>0, <1>1, BaseOfChange, ChangeEndsCalm, DisturbedTree
<1>2. CASE Generate
  BY <1>0, <1>2, BaseOfGenerate, GenerateTree
<1>3. CASE Run /\ ~Generate
  <2>1. BaseInv'
    BY <1>0, <1>3, BaseOfCapture
  <2>2. CASE NamespaceIsGone \/ ReleaseIsGone \/ Stop
    <3>1. calm' = FALSE /\ settled' = 0
      BY <1>0, <2>2, StopsWith DEF Stopped
    <3>. QED
      BY <2>1, <3>1, DisturbedTree
  <2>3. CASE Start
    BY <2>1, <2>3, StartTree
  <2>4. CASE ListReleases
    BY <2>1, <2>4, ListTree
  <2>5. CASE WriteReleases
    BY <2>1, <2>5, WriteReleasesTree
  <2>6. CASE WriteNamespaces
    BY <2>1, <2>6, WriteNamespacesTree
  <2>7. CASE WriteClusterKinds
    BY <2>1, <2>7, WriteClusterTree
  <2>8. CASE WriteObjects
    BY <2>1, <2>8, WriteObjectsTree
  <2>9. CASE Sweep
    BY <2>1, <2>9, SweepTree
  <2>. QED
    BY <1>3, <2>2, <2>3, <2>4, <2>5, <2>6, <2>7, <2>8, <2>9 DEF Run
<1>4. CASE UNCHANGED vars
  BY <1>4, StutterTree
<1>. QED
  BY <1>1, <1>2, <1>3, <1>4 DEF Next

LEMMA TreeInvariance == Spec => [](TypesInv /\ TreeInv)
<1>1. Init => TypesInv /\ TreeInv
  BY InitTypes, InitTree
<1>2. TypesInv /\ TreeInv /\ [Next]_vars => (TypesInv /\ TreeInv)'
  BY NextTypes, NextTree
<1>. QED
  BY <1>1, <1>2, PTL DEF Spec

\* Whatever kinds could not be listed, WriteObjects writes nothing more than
\* with all of them listed.
LEMMA ObjectsWritten ==
    ASSUME WriteObjects
    PROVE  files \subseteq files' /\ files' \subseteq files \cup ObjectFiles
<1> DEFINE listed(failed) == {x \in Objects \cap things : KindOf[x] \notin failed}
           R(failed) == {Raw(x) : x \in {y \in listed(failed) : NsOf[y] \notin PromotedNs \cup Ambiguous}}
           N == {NamespaceYaml(n) : n \in PromotedNs \cap nss} \ Protected
           M(failed) == {PromotedManifests(n, listed(failed)) : n \in PromotedNs \ HeldNs(listed(failed), failed)}
<1>1. PICK failed \in SUBSET Kinds : files' = files \cup (R(failed) \cup N \cup UNION M(failed))
  BY DEF WriteObjects, WriteAndKeep
<1>2. R(failed) \cup N \subseteq ObjectFiles
  BY DEF ObjectFiles, ObjectsThere
<1>3. CASE failed = {}
  <2>1. listed({}) = ObjectsThere
    BY DEF ObjectsThere
  <2>2. R({}) \cup N \cup UNION M({}) = ObjectFiles
    BY <2>1 DEF ObjectFiles
  <2> HIDE DEF R, N, M
  <2>. QED
    BY <1>1, <1>3, <2>2
<1>4. CASE failed # {}
  <2>1. M(failed) = {}
    BY <1>4 DEF HeldNs
  <2> HIDE DEF R, N, M
  <2>. QED
    BY <1>1, <1>2, <2>1
<1>. QED
  BY <1>3, <1>4
-----------------------------------------------------------------------------
(* The tree of a settled run.                                              *)

LEMMA AppEntriesAre ==
    ASSUME NEW fs, NEW l
    PROVE  l \in AppEntries(fs) <=>
              \/ \E d \in HelmFolders : \E f \in (AppFiles(d) \ {Values(d)}) \cap fs : l = <<AppKust(d), f>>
              \/ \E d \in PromotedFolders : \E f \in AppFiles(d) \cap fs : l = <<AppKust(d), f>>
<1> DEFINE ofHelm(d) == {<<AppKust(d), f>> : f \in (AppFiles(d) \ {Values(d)}) \cap fs}
           ofPromoted(d) == {<<AppKust(d), f>> : f \in AppFiles(d) \cap fs}
           A == {ofHelm(d) : d \in HelmFolders}
           B == {ofPromoted(d) : d \in PromotedFolders}
<1>1. AppEntries(fs) = (UNION A) \cup UNION B
  BY DEF AppEntries
<1>2. \A d : l \in ofHelm(d) <=> \E f \in (AppFiles(d) \ {Values(d)}) \cap fs : l = <<AppKust(d), f>>
  OBVIOUS
<1>3. \A d : l \in ofPromoted(d) <=> \E f \in AppFiles(d) \cap fs : l = <<AppKust(d), f>>
  OBVIOUS
<1> HIDE DEF ofHelm, ofPromoted
<1>4. l \in UNION A <=> \E d \in HelmFolders : l \in ofHelm(d)
  BY Zenon
<1>5. l \in UNION B <=> \E d \in PromotedFolders : l \in ofPromoted(d)
  BY Zenon
<1> HIDE DEF A, B
<1>. QED
  BY <1>1, <1>2, <1>3, <1>4, <1>5

LEMMA NsEntriesAre ==
    ASSUME NEW fs, NEW l
    PROVE  l \in NsEntries(fs) <=>
              \E n \in NamespacesWritten :
                  \/ l = <<NsKust(n), NamespaceYaml(n)>>
                  \/ \E d \in Folders : d[1] = n /\ Ks(d) \in fs /\ l = <<NsKust(n), Ks(d)>>
<1> DEFINE listed(n) == {NamespaceYaml(n)} \cup ({Ks(d) : d \in {e \in Folders : e[1] = n}} \cap fs)
           of(n) == {<<NsKust(n), f>> : f \in listed(n)}
           A == {of(n) : n \in NamespacesWritten}
<1>1. NsEntries(fs) = UNION A
  BY DEF NsEntries
<1>2. ASSUME NEW n, NEW f
      PROVE  f \in listed(n) <=> f = NamespaceYaml(n) \/ \E d \in Folders : d[1] = n /\ f \in fs /\ f = Ks(d)
  OBVIOUS
<1> HIDE DEF listed
<1>3. \A n : l \in of(n) <=> \E f \in listed(n) : l = <<NsKust(n), f>>
  OBVIOUS
<1> HIDE DEF of
<1>4. l \in UNION A <=> \E n \in NamespacesWritten : l \in of(n)
  BY Zenon
<1> HIDE DEF A
<1>. QED
  BY <1>1, <1>2, <1>3, <1>4

\* What is known of the tree when three undisturbed runs are over.
LEMMA SettledIs ==
    ASSUME TypesInv, TreeInv, settled = 3
    PROVE  /\ TypeOK /\ BaseInv /\ calm /\ PromotedThere /\ May(files) /\ Must(files)
           /\ Scaffolded /\ NoEmptyFolder /\ BareNamespaces(files)
           /\ {l \in lists : l[1] \in NewFiles} = AppEntries(files) \cup NsEntries(files)
<1>1. TypeOK /\ BaseInv /\ calm
  BY DEF TypesInv, TreeInv, BaseInv, SettledIsCalm
<1>2. PromotedThere /\ May(files) /\ Must(files)
  BY <1>1 DEF TreeInv, CapturedInv
<1>3. Scaffolded /\ NoEmptyFolder /\ BareNamespaces(files)
  BY DEF TreeInv, DeployedInv, ClearedInv
<1>4. {l \in lists : l[1] \in NewFiles} = AppEntries(files) \cup NsEntries(files)
  BY DEF TreeInv, ListedInv
<1>. QED
  BY <1>1, <1>2, <1>3, <1>4

LEMMA SettledNamespace ==
    ASSUME TypesInv, TreeInv, settled = 3, NEW n \in Namespaces
    PROVE  NamespaceIsRight(n)
<1>0. /\ TypeOK /\ BaseInv /\ MarkersApart /\ HandHasFiles /\ PromotedThere /\ May(files) /\ Must(files)
      /\ Scaffolded /\ BareNamespaces(files)
  BY SettledIs DEF BaseInv
<1>1. AppsOf(n) # {} <=> Deployed(n)
  BY <1>0 DEF AppsOf, Deployed, Promoted, MarkersApart
<1>2. NamespaceYaml(n) \in Protected => NamespaceYaml(n) \in files
  BY <1>0, ProtectedNamespace DEF HandHasFiles
<1>3. ASSUME n \notin Ambiguous, Deployed(n) PROVE NamespaceYaml(n) \in files
  <2>1. PICK d \in helm \cup hand \cup promote : d[1] = n
    BY <1>3 DEF Deployed
  <2>2. CASE d \in hand
    BY <1>0, <2>1, <2>2 DEF HandHasFiles
  <2>3. CASE d \in helm
    <3>1. n \in HelmNs
      BY <2>1, <2>3 DEF HelmNs
    <3>. QED
      BY <1>0, <1>2, <3>1 DEF Must, MustNamespace
  <2>4. CASE d \in promote
    <3>1. d \in Promoted
      BY <1>0, <2>4 DEF Promoted, MarkersApart
    <3>2. n \in PromotedNs
      BY <1>0, <1>3, <2>1, <3>1, ItsNamespace DEF TypeOK
    <3>. QED
      BY <1>0, <1>2, <3>2 DEF Must, MustNamespace
  <2>. QED
    BY <2>1, <2>2, <2>3, <2>4
<1>4. /\ NamespaceYaml(n) \in files => Deployed(n)
      /\ ClusterNs(n) \in files => n \in nss /\ ~Deployed(n)
  BY <1>0 DEF May, MayNamespace
<1>5. n \in nss /\ ~Deployed(n) => ClusterNs(n) \in files
  BY <1>0 DEF BareNamespaces
<1>6. NsKust(n) \in files <=> NamespaceYaml(n) \in files
  BY <1>0 DEF Scaffolded
<1>. QED
  BY <1>1, <1>3, <1>4, <1>5, <1>6 DEF NamespaceIsRight

LEMMA SettledFolder ==
    ASSUME TypesInv, TreeInv, settled = 3, NEW d \in Folders
    PROVE  FolderIsRight(d)
<1>0. /\ TypeOK /\ BaseInv /\ MarkersApart /\ ManifestsPromoted /\ May(files) /\ Must(files) /\ Scaffolded
  BY SettledIs DEF BaseInv
<1> DEFINE there == InFolder(d) \cap files
           live == {x \in things : NsOf[x] = d[1] /\ x \in Objects \cup known}
           waiting == {x \in (Secrets \cap things) \ known : NsOf[x] = d[1]}
<1>1. \A x \in Things : Manifest(d, x) \in files => d \in promote
  BY <1>0 DEF ManifestsPromoted
<1>2. ASSUME d \in helm \ hand
      PROVE  there = {Release(d), Values(d), HelmRelease(d), AppKust(d), Ks(d)}
  <2>1. {Release(d), Values(d), HelmRelease(d), AppKust(d), Ks(d)} \subseteq files
    BY <1>0, <1>2 DEF Must, MustRelease, Scaffolded
  <2>2. \A x \in Things : Manifest(d, x) \notin files
    BY <1>0, <1>1, <1>2 DEF MarkersApart
  <2>. QED
    BY <2>1, <2>2, InFolderIs
<1>3. ASSUME d \notin helm \cup hand \cup Promoted
      PROVE  there = {}
  <2>1. d \notin promote
    BY <1>3 DEF Promoted
  <2>2. Release(d) \notin files /\ Values(d) \notin files
    BY <1>0, <1>3, <2>1 DEF May, MayRelease
  <2>3. HelmRelease(d) \notin files /\ AppKust(d) \notin files /\ Ks(d) \notin files
    BY <1>0, <1>3, <2>1 DEF Scaffolded
  <2>4. \A x \in Things : Manifest(d, x) \notin files
    BY <1>1, <2>1
  <2>. QED
    BY <2>2, <2>3, <2>4, InFolderIs
<1>4. ASSUME d \in Promoted, d[1] \in PromotedNs, live \cap Redacted = {}
      PROVE  /\ {Manifest(d, x) : x \in live} \subseteq there
             /\ there \subseteq {Manifest(d, x) : x \in live \cup waiting} \cup {AppKust(d), Ks(d)}
  <2>1. d \in promote /\ d \notin hand /\ d \notin helm
    BY <1>0, <1>4 DEF Promoted, MarkersApart
  <2>2. ~Doubtful(d)
    <3>1. d[1] \notin Ambiguous
      BY <1>0, <1>4, HeldIsDoubtful
    <3>2. \A x \in things \cap Redacted : NsOf[x] # d[1]
      BY <1>4, TreeAssumption
    <3>. QED
      BY <3>1, <3>2 DEF Doubtful
  <2>3. ASSUME NEW x \in live PROVE Manifest(d, x) \in there
    <3>1. Manifest(d, x) \in files
      BY <1>0, <2>1, <2>2 DEF Must, MustPromoted
    <3>2. Manifest(d, x) \in InFolder(d)
      BY <1>0, Members DEF TypeOK
    <3>. QED
      BY <3>1, <3>2
  <2>4. ASSUME NEW f \in there PROVE f \in {Manifest(d, x) : x \in live \cup waiting} \cup {AppKust(d), Ks(d)}
    <3>1. f # Release(d)
      BY <1>0, <2>1 DEF May, MayRelease
    <3>2. CASE f \in AppFiles(d)
      <4>1. PICK x \in things : NsOf[x] = d[1] /\ f = Manifest(d, x)
        BY <1>0, <2>1, <2>2, <3>2 DEF May, MayPromoted
      <4>2. x \in live \cup waiting
        BY <1>0, <4>1 DEF TypeOK, Objects
      <4> HIDE DEF live, waiting
      <4>. QED
        BY <4>1, <4>2
    <3>3. f \in AppFiles(d) \/ f \in {Release(d), AppKust(d), Ks(d)}
      BY InFolderIs, AppFilesAre
    <3>. QED
      BY <3>1, <3>2, <3>3
  <2> HIDE DEF live, waiting, there
  <2>. QED
    BY <2>3, <2>4
<1>. QED
  BY <1>2, <1>3, <1>4 DEF FolderIsRight

LEMMA SettledLists ==
    ASSUME TypesInv, TreeInv, settled = 3
    PROVE  ListsAreRight
<1>0. /\ TypeOK /\ BaseInv /\ MarkersApart /\ ManifestsPromoted /\ HandHasFiles /\ ListedByFiles
      /\ May(files) /\ Must(files) /\ Scaffolded /\ NoEmptyFolder
  BY SettledIs DEF BaseInv
<1>1. {l \in lists : l[1] \in NewFiles} = AppEntries(files) \cup NsEntries(files)
  BY SettledIs
<1>2. SweptFiles = {}
  BY <1>0, NothingToGenerate
<1>3. ASSUME NEW l \in lists PROVE l[2] \in files
  <2>1. CASE l \in AppEntries(files)
    BY <2>1, AppEntriesAre
  <2>2. CASE l \in NsEntries(files)
    BY <2>2, NsEntriesAre DEF NamespacesWritten
  <2>3. CASE l[1] \notin NewFiles
    <3>1. l[1] \in files \ NewFiles
      BY <1>0, <2>3 DEF ListedByFiles
    <3>2. \A n \in Namespaces : l[1] # NsKust(n)
      BY <1>2, <3>1, SweptWhat
    <3>3. PICK d \in Folders : l[1] = AppKust(d) /\ (d \in hand => l[2] = HelmRelease(d))
      BY <1>0, <3>2 DEF ListedByFiles
    <3>4. d \in hand
      BY <1>2, <3>1, <3>3, SweptWhat
    <3>. QED
      BY <1>0, <3>3, <3>4 DEF HandHasFiles
  <2>. QED
    BY <1>1, <2>1, <2>2, <2>3
<1>4. ASSUME NEW d \in Folders, {Ks(d), NamespaceYaml(d[1])} \subseteq files
      PROVE  <<NsKust(d[1]), Ks(d)>> \in lists
  <2>1. d[1] \in NamespacesWritten
    BY <1>4 DEF Folders, NamespacesWritten
  <2>2. <<NsKust(d[1]), Ks(d)>> \in NsEntries(files)
    BY <1>4, <2>1, NsEntriesAre
  <2>. QED
    BY <1>1, <2>2
<1>5. ASSUME NEW d \in Folders \ hand, NEW f \in (AppFiles(d) \cap files) \ {Values(d)}
      PROVE  <<AppKust(d), f>> \in lists
  <2>1. CASE f = HelmRelease(d)
    <3>1. d \in HelmFolders
      BY <1>0, <2>1, HelmFoldersAre DEF Scaffolded
    <3>2. <<AppKust(d), f>> \in AppEntries(files)
      BY <3>1, AppEntriesAre
    <3>. QED
      BY <1>1, <3>2
  <2>2. CASE f # HelmRelease(d)
    <3>1. PICK x \in Things : f = Manifest(d, x)
      BY <2>2, AppFilesAre
    <3>2. d \in PromotedFolders
      BY <1>0, <3>1, PromotedFoldersAre DEF ManifestsPromoted
    <3>3. <<AppKust(d), f>> \in AppEntries(files)
      BY <3>2, AppEntriesAre
    <3>. QED
      BY <1>1, <3>3
  <2>. QED
    BY <2>1, <2>2
<1>. QED
  BY <1>3, <1>4, <1>5 DEF ListsAreRight

\* Three whole runs of capture and generate in a row with nothing changing
\* leave the tree the cluster and the markers call for, for any namespaces,
\* apps, objects and faults.
THEOREM SettledTreeWhole == Spec => []SettledTreeIsWhole
<1>1. TypesInv /\ TreeInv => SettledTreeIsWhole
  <2> SUFFICES ASSUME TypesInv, TreeInv, settled = 3
               PROVE  /\ \A n \in Namespaces : NamespaceIsRight(n)
                      /\ \A d \in Folders : FolderIsRight(d)
                      /\ \A x \in Things : ThingIsRight(x)
                      /\ ListsAreRight
    BY DEF SettledTreeIsWhole
  <2>1. \A x \in Things : ThingIsRight(x)
    BY SettledIs DEF ThingIsRight, May, MayRaw, Must, MustRaw
  <2>. QED
    BY <2>1, SettledNamespace, SettledFolder, SettledLists
<1>. QED
  BY <1>1, TreeInvariance, PTL

\* From then on no step of a run changes a file or a list, not for a moment:
\* what capture then writes is there, what it may sweep it wrote, and generate
\* writes what there is.
THEOREM SettledRunIdle == Spec => SettledRunChangesNothing
<1>1. ASSUME TypesInv, TreeInv, [Next]_vars, settled = 3, changes' = changes
      PROVE  UNCHANGED <<files, lists>>
  <2>0. /\ TypeOK /\ BaseInv /\ calm /\ PromotedThere /\ May(files) /\ Must(files)
        /\ Scaffolded /\ NoEmptyFolder /\ BareNamespaces(files)
        /\ {l \in lists : l[1] \in NewFiles} = AppEntries(files) \cup NsEntries(files)
    BY <1>1, SettledIs
  <2>1. ~Change
    <3>1. changes \in Nat
      BY <2>0, TreeAssumption DEF TypeOK
    <3>2. Change => changes' = changes + 1
      BY ChangeEndsCalm, Zenon
    <3>. QED
      BY <1>1, <3>1, <3>2
  <2>2. ASSUME ~Idle PROVE /\ ReadsRight /\ SoFar
                           /\ pc # "list" => selected = helm
    BY <1>1, <2>0, <2>2 DEF TreeInv, CourseInv, ReadsRight
  <2>3. CASE UNCHANGED vars
    BY <2>3 DEF vars, repo
  <2>4. CASE Generate
    BY <2>0, <2>4, GenerateLists
  <2>5. CASE Run /\ ~Generate
    <3>1. lists' = lists
      BY <1>1, <2>5, CaptureFiles
    <3>2. CASE Start \/ ListReleases
      BY <3>2 DEF Start, ListReleases, repo
    <3>3. CASE NamespaceIsGone \/ Stop
      BY <3>1, <3>3 DEF NamespaceIsGone, Stop, Stopped
    <3>4. ~ReleaseIsGone
      BY <2>0, <2>2 DEF ReleaseIsGone, Idle
    <3>5. CASE WriteReleases
      <4>1. files' = files \cup ReleaseFiles(helm)
        BY <2>2, <3>5 DEF WriteReleases, Write, Idle
      <4>2. ReleaseFiles(helm) \subseteq files
        BY <2>0 DEF Must, MustRelease, ReleaseFiles
      <4>. QED
        BY <3>1, <4>1, <4>2
    <3>6. CASE WriteNamespaces
      <4>1. files' = files \cup ({NamespaceYaml(n) : n \in HelmNs \cap nss} \ Protected)
        BY <2>2, <3>6 DEF WriteNamespaces, Write, Idle, HelmNs
      <4>2. {NamespaceYaml(n) : n \in HelmNs \cap nss} \ Protected \subseteq files
        BY <2>0 DEF Must, MustNamespace
      <4>. QED
        BY <3>1, <4>1, <4>2
    <3>7. CASE WriteClusterKinds
      <4>1. files' = files \/ files' = files \cup {ClusterNs(n) : n \in {m \in nss : ~HasFolder(m)}}
        BY <3>7 DEF WriteClusterKinds, Write, WriteAndKeep
      <4>2. \A n \in nss : ~HasFolder(n) => ClusterNs(n) \in files
        BY <2>0, FolderWhenDeployed DEF Must, BareNamespaces, TypeOK
      <4>. QED
        BY <3>1, <4>1, <4>2
    <3>8. CASE WriteObjects
      <4>1. writable = {x \in Secrets \cap known : NsOf[x] \in PromotedNs}
        BY <2>0, <2>2, <3>8 DEF WriteObjects, Idle, ReadsRight, TypeOK
      <4>2. ObjectFiles \subseteq files
        BY <2>0, <4>1, ObjectFilesCalledFor
      <4>3. files' \subseteq files \cup ObjectFiles /\ files \subseteq files'
        BY <3>8, ObjectsWritten
      <4>. QED
        BY <3>1, <4>2, <4>3
    <3>9. CASE Sweep
      <4>1. pc = "sweep" /\ ~Idle /\ files' = files \ (before \ written)
        BY <3>9 DEF Sweep, Idle
      <4>2. /\ Must(written) /\ BareNamespaces(written)
            /\ KeptInDoubt(ObjectsThere, {}) \cap before \subseteq written
        <5>1. BareNamespaces(written)
          BY <1>1, <4>1 DEF TreeInv, ClearedInv
        <5>2. Must(written) /\ KeptInDoubt(ObjectsThere, {}) \cap before \subseteq written
          BY <2>2, <4>1 DEF SoFar, ObjectsThere
        <5>. QED
          BY <5>1, <5>2
      <4>3. before \subseteq written
        BY <1>1, <2>0, <2>2, <4>1, <4>2, NothingToSweep DEF TypesInv
      <4>. QED
        BY <3>1, <4>1, <4>3
    <3>. QED
      BY <2>5, <3>2, <3>3, <3>4, <3>5, <3>6, <3>7, <3>8, <3>9 DEF Run
  <2>. QED
    BY <1>1, <2>1, <2>3, <2>4, <2>5 DEF Next
<1>2. TypesInv /\ TreeInv /\ [Next]_vars => ((settled = 3 /\ changes' = changes) => UNCHANGED <<files, lists>>)
  BY <1>1
<1>. QED
  BY <1>2, TreeInvariance, PTL DEF Spec, SettledRunChangesNothing
=============================================================================
