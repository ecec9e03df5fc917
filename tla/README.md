# Models and proofs of the homelab's automation

This directory holds TLA+ models of the programs in this repository that run by themselves or that
change something hard to undo: the local DNS pipeline, the rolling maintenance of the Kubernetes
nodes, the hold on Flux that goes with it, the tool that writes `kubernetes/` from the live
cluster, the jobs that keep NetBox and follow it, and those that write and read Key Vault. TLC checks
each model on small instances; TLAPS proves for all instances what matters most of the DNS sync (its refinement
included) and of the webhook, of the Talos visits and the hold on Flux, of k8s_backup's tree, of the jobs around
NetBox, and of Key Vault. `PROJECT.json` is the index: the components, the runs, the source lines behind every
definition, the hazards, the findings and the theorems.

Most of the repository is declarative (Kubernetes manifests, Compose files, OpenTofu, Ansible
settings). There is nothing to model there that is not Kubernetes' or Docker's own behaviour. What
is modelled is the code that decides, over several calls, what to do next.

## Inventory

Paths are from the repository's root.

### Local DNS

*Parts.* ExternalDNS (external) reads the Ingresses and talks to the webhook
`kubernetes/prod/system/external-dns/external-dns/app/netbox-dns-webhook.py`, which writes records
into NetBox DNS. The owner edits zones and records in NetBox by hand. The loop
`docker/netbox/dns-sync/netbox_pihole_sync.py`, a container beside NetBox
(`docker/netbox/compose.yaml`), copies NetBox's active records to every Pi-hole.

*State.* NetBox: zones (with a view and a status) and records (with a description that says who owns
them). Each Pi-hole: `dns.hosts` lines, which may name several hosts, `dns.cnameRecords`, and a limited
number of sessions. The programs keep nothing between rounds or requests.

*Operations.* Sync: read zones, read records, then per Pi-hole log in, read, plan, remove, add, read
back, log out. Webhook: `GET /records` and `POST /records`, each a read of zones and records, then
deletes, then creates, one HTTP call each. They interact only through NetBox.

*Hard.* Every call may be refused, or done with its answer lost; the container may restart at any
point; zones and records are read in two calls; ExternalDNS gives up on a slow answer and posts again
while the first thread still works; the owner edits meanwhile; one Pi-hole may fail in a round where
another succeeds.

*Correct means.* A Pi-hole comes to answer what NetBox has; names outside NetBox's zones stay; nothing
is forgotten while a shared line is split; a clean round is clean for every Pi-hole; hand-made records
are never touched by the webhook; a 204 is the truth.

### Rolling maintenance

*Parts.* `ansible/talos-reboot.yml` and `ansible/talos-update.yml` visit the Talos nodes one at a time
(`tasks/talos-vm-reboot.yml`, `tasks/talos-node-upgrade.yml`), each visit through the drain
(`tasks/k8s-node-drain.yml`), which moves CloudNativePG and MariaDB primaries first
(`tasks/cnpg-free-node.yml`, `tasks/mariadb-free-node.yml`), and through the checks
(`kubernetes-healthy`, `databases-healthy`, `talos-etcd-healthy`). `ansible/proxmox-reboot.yml` does
the same for hosts (`tasks/proxmox-host-reboot.yml`). Runs over everything hold Flux
(`tasks/flux-freeze.yml`, `flux-held.yml`, `flux-thaw.yml`).

*State.* The cluster's (nodes, boot IDs, Ready, cordons, etcd members, static pods, database instances
and primaries, maintenance windows, the GitRepository's `spec.suspend`) and the run's (the nodes left,
the task, registered results, `flux_frozen`).

*Hard.* What the API says lags behind the nodes; etcd catches up later than the node is Ready;
switchovers can be undone by failovers; waits may wait for what only a later task brings; a failed task
goes to a rescue, an unreachable host does not; the owner and other runs patch the same source.

*Correct means.* etcd keeps its quorum; no drain evicts a primary or a last ready instance; one node at
a time, also after a failure; a node is uncordoned when it is really back; the run ends; the hold ends
with its run and is lifted only by its maker; nothing is deployed in the middle of a unit of work.

### k8s_backup

*Parts.* `scripts/k8s_backup`: `capture` (cluster to files), `generate` (files to Flux files),
`filetracker` and `ownership` (which files a phase owns, keeps and sweeps). On the way into a file an
object is cleaned (`neat.py`), redacted (`secretscan.py`), its private values become `${NAME}`
(`varsub.py`), and a promoted one is made ready to be applied (`promote.py`, `derived.py`).

*State.* The tree under `kubernetes/` with `.handwritten` and `.promote` markers; the tracker of a run
(what was there, what was seen). Flux deploys the tree, so a file swept by mistake is an uninstall.

*Hard.* The cluster changes between the reads of one run; a listing may fail, which must not read as
empty; a run may stop before its sweep; both phases read back what earlier runs wrote; the operator
marks, unmarks and writes folders in between. What is written goes back into the cluster through Flux's
substitution, with values that may be in Key Vault, about to be, or base64 there.

*Correct means.* What lives keeps its files; a namespace is in one place; hand-written folders are
never touched; once the cluster is quiet the tree becomes what the cluster and the markers call for,
and stays; what Flux applies is what the object held, and no file in git holds a private value.

### NetBox and what follows it

*Parts.* `scripts/netbox_seed.py --apply`, nightly, writes NetBox from Proxmox, Kea and the cluster's
Services. `scripts/netbox_guests.py --pr`, nightly, turns the shape NetBox holds for some VMs into a
file that OpenTofu reads, by a pull request. `termix-netbox-sync.py`, a CronJob, keeps Termix's hosts as NetBox
names them. The owner edits NetBox by hand: statuses, roles, names, logins, addresses.

*State.* NetBox's objects (status, mark, shape, login), addresses (status, description, holder, DNS
name) and interfaces; the file on main and on the branch, the pull request; Termix's hosts and
credentials. Each job keeps nothing from run to run.

*Operations.* The seed reads every source, then goes through seven sections; each lists, plans and
writes object by object. The other two read, compare and write.

*Hard.* Sections write the same rows one after another from lists of different moments; the owner edits
between any two calls; a refused call ends the seed with half of it written; the pull request stays open while
main and NetBox change; a user and two jobs change Termix's hosts and what they are made from.

*Correct means.* After an undisturbed run NetBox says what the sources say, with a status of the owner's left as it
is, and the next run has nothing to write; what is not a job's own is left alone; the file and Termix come to
follow NetBox.

### Key Vault and what reads it

*Parts.* `keyvault_facts.py --write`, nightly, writes the values NetBox gives, and tags each with a keyed
fingerprint so that later runs need not read it. `semaphore_variable_groups.py` writes Semaphore's variable
groups from Key Vault, daily for all and by hand for the secrets a facts run changed. `keyvault_copy.py` and
`dockhand_keyvault_copy.py` copy a Secret of the cluster and Dockhand's export into it. The owner sets,
deletes, recovers, exports and imports secrets with `keyvault-secrets.ps1`, and rewrites a value held as
base64 to plain once a template encodes it. External Secrets (external) builds the Secret.

*State.* Each secret's value, tags, version and whether it is enabled or deleted; the fingerprint key; the
groups; the ExternalSecret's template and the Secret.

*Hard.* Listing, reading and writing are separate calls, with the owner and other jobs between any two; a
tag speaks of a value somebody else may replace; a list of changes may get lost; a copy reads a template
and a Secret that are about to change.

*Correct means.* A fingerprint never vouches for another value; two groups filled by one run agree; no
value is encoded twice; what NetBox says arrives.

### The rest

| Part | What it is | Status |
|---|---|---|
| `tasks/proxmox-host-reboot.yml`, `proxmox-update.yml`, `migrate`, `evacuate-*`, `dns-*` | a Proxmox host's visit: evacuation, HA maintenance, DNS guests | planned |
| `tasks/cnpg-spread-primaries.yml` | primaries spread over hosts after a rolling run | planned |
| `organizr-sync`, `media-sync`, `grimmory-*`, `rreading-glasses-repair` | CronJobs that write one service's differences into another, as `termix-netbox-sync` does | candidate |
| exporters (`ha_exporter.py`, `garage-backup-exporter.py`, ...) | read-only metrics | not modelled: no state to get wrong |
| `yamlio`, `flux`, `scaffold`, `inventory` of k8s_backup; `secret_words*` | text in, text out | not modelled: the strings are the point, unit tests do better |
| `dnsmasq_to_kea.py`, `import_leases.py`, `ha_iot_*`, `gen-config.py` | one-off or generating tools | not modelled |
| other playbooks (settings, baselines, updates of single hosts) | idempotent settings, or sequences with nothing concurrent | not modelled |
| manifests, Compose files, OpenTofu, n8n exports | declarative | not modelled |

`PROJECT.json` lists each with its files and reason.

## Modules

| Module | Models | Used by |
|---|---|---|
| `PiholeSync` | `netbox_pihole_sync.py` | `MCPiholeSync`, `DnsPipeline` |
| `DnsMirror` | what the sync promises, abstractly | `PiholeSync` (refinement) |
| `DnsWebhook` | `netbox-dns-webhook.py` and ExternalDNS's loop | `MCDnsWebhook`, `DnsPipeline` |
| `DnsPipeline` | both halves over one NetBox | `MCDnsPipeline` |
| `TalosReboot` | the Talos visits and the cluster under them | `MCTalosReboot` |
| `FluxHold` | the hold, its runs and everybody else | `MCFluxHold` |
| `BackupTree` | capture and generate over a changing cluster: which files | `MCBackupTree`, `BackupContents` |
| `Manifests` | what capture writes into a file, and what Flux makes of it | `BackupContents` |
| `BackupContents` | both: every file a run writes, with what is in it | `MCBackupContents` |
| `NetBox` | NetBox's tables, its sources, the owner's edits | the next three |
| `NetboxSeed` | `netbox_seed.py` | `NetBoxHub` |
| `NetboxGuests` | `netbox_guests.py` and its pull request | `NetBoxHub` |
| `TermixSync` | `termix-netbox-sync.py`, Termix and its user | `NetBoxHub` |
| `NetBoxHub` | the three jobs, the sources and the owner over one NetBox | `MCNetBoxHub` |
| `KeyVault` | Key Vault and the owner's edits | the next three |
| `KeyVaultFacts` | `keyvault_facts.py` | `KeyVaultHub` |
| `SemaphoreGroups` | `semaphore_variable_groups.py` | `KeyVaultHub` |
| `KeyVaultCopies` | `keyvault_copy.py`, `dockhand_keyvault_copy.py`, the ExternalSecret | `KeyVaultHub` |
| `KeyVaultHub` | all of them over one Key Vault | `MCKeyVaultHub` |
| `PiholeSyncProofs`, `DnsWebhookProofs`, `TalosRebootProofs`, `FluxHoldProofs`, `BackupTreeProofs`, `NetBoxHubProofs` | theorems about the module in the name | |
| `KeyVaultProofs`, `KeyVaultRunsProofs` | theorems about `KeyVaultHub`: types and fingerprints; groups and copies | |

The `MC` modules only name model values and small instances. A definition named
`<Operator>_<Fault>` is the operator with a plausible bug in it: no specification uses it. For every
property of a passing run there is one such mutant with which the property fails, listed in
`PROJECT.json` under `mutants`; it shows that the property can notice something.

### PiholeSync and DnsMirror

`pc` is the next HTTP call. `ReadZones`, `ReadRecords` are `netbox_wanted`; `ReadLists` is the login,
the read of both lists and `plan` (they follow each other with nothing in between that the sync
could notice but a refusal); `Change` is one `PiHole.change`; `ReadBack` the second read; `Close` the `finally`.
`ChangeFails` after `Change` is a call that was carried out and whose answer was lost. `Crash` ends the
process anywhere; the loop starts again. `EditRecord`, `EditZone` are the owner's, `SessionLapses`
Pi-hole's own. The plan (`ToRemove`, `ToReadd`, `ToAdd`) follows `plan()` line by line, over sets:
a line is its list, its names and its value. A name is a model value with the zones whose name is a
suffix of it, so nested zones are there without strings.

`DnsMirror` says what the Pi-holes may come to answer, with no calls, sessions or plans: new answers
come from NetBox or from what is owed, what goes for good is stale, and only a visit that is cut short
forgets what it owes. `ImplementsMirror` substitutes the answers of the lines, the names between their
removal and their re-addition (`Owed`), and what the round read.

### DnsWebhook and DnsPipeline

`List` is ExternalDNS's loop, `IngressChanges` the cluster's part; a request occupies a thread, whose
record holds what it read and has still to do. `ReadZones`, `ReadAndPlan`, `DeleteRecord`,
`CreateRecord`, `Applied` are the calls of `do_POST`, `AnswerList` ends a `do_GET`; `Refused` and
`CallFails` are its `except`. `GivesUp` leaves a thread working that nobody waits for. The owner's four
edits include describing an owned record anew, which the code takes as "no longer mine".

`DnsPipeline` instantiates both modules over the same zones and records: a webhook record is an active
record of the hosts list. Each half keeps its own fairness.

### TalosReboot

A visit is the map `Following` from each step to the next, in the order of the two task files; `Go`
walks it. What must hold at a step is `Met`. The cluster's actions (`NodeBoots`, `NodeIsSeen`,
`MemberCatchesUp`, `StaticPodsStart`, `InstanceReturns`, `PrimaryMoves`) are external, and `seen` is
what the API says, which only `NodeIsSeen` brings in step with the nodes. A failure goes to `Rescue`
(the visit's `rescue`, then the next VM's skip), an unreachable host to `Abort`. `Look` records the
start of a visit: what fails by itself after it is in `lately`.

### FluxHold

The source is one bit and a history of who set it. Each run goes through read, patch, read back, held,
work, thaw, read back; `OnFailure` says where a failed task goes, which is where the two playbooks
differ. `SuspendLost` is a patch done with its answer lost, `Killed` and `Unreachable` the two ways no
rescue runs. `Merge` and `Deploy` are GitHub and Flux.

### BackupTree

A file is its place in the tree; of the contents only the `resources:` of `kustomization.yaml` files are
kept (`lists`). `Start` is the tracker's scan and the reads that stop a run, `ListReleases` to
`WriteObjects` are the stages of `capture.run` in order, `Sweep` its end, `Generate` all of
`generate.run`, which reads nothing but the disk. `before` and `written` are the tracker's `_before`
and `_seen`. The cluster may change between any two stages. `absent`, `held`, `calm` and
`settled` are history for the properties.

### Manifests and BackupContents

A text is a sequence of words, and `${NAME}` is a word, so a literal can be part of another text or of
another literal, as a domain is of an address, without spelling either. An object is its strings, each
under a key, and the fields a cluster fills in. `Neat`, `RedactCredentials`, `ApplySubstitutions`,
`EscapeForeignVariables` and the cleaning of a promoted object are the functions of the same names in the
code, in `capture`'s order. `LoadSubstitutions` is the older local file beside cluster-secrets,
`DominantDomains` and the seeding the search for new private values, `PendingRow` what
the operator is told to add to Key Vault, `Applied` (external) Flux's substitution on the way back.
`DerivedLabels` are the labels `derived.py` works out for a `namespace.yaml`.

`BackupContents` extends `BackupTree`: every object holds any of the contents `Holds` gives it, so a
manifest in the tree stands for all of what a run could have put into it.

### NetBoxHub and its parts

An object is a host named once, an address has a row or none. A section's plan is a sequence of items; `SeedLists`
makes the first items of a section, a `look` item is the `find` of one object and becomes the writes
planned from what it found, and `SeedWrites` carries out one item, so the owner's edits fall between
any two calls. `SeedStops` is a call that fails anywhere, `SeedIsRefused` one NetBox has no row for: a listed row the
owner deleted since, an IoT device the look found and that is gone (the request has no type to make it with), the object
an address is for, the node of an interface. `live.ifaces` are the interfaces Proxmox names, which are not pruned,
`live.up` those of them that are active, which are made. Interfaces are deleted in any order that has each before
those it uses, which is all `stale_interfaces` promises of its order. The pull request is `main`, `branch` and `pr`;
`GuestsPut` and `GuestsOpen` are its commit and its opening, `Merge` the owner's. `TermixSync` plans
once and writes host by host; a write may fail and is counted; turning RDP on is a call of its own.
`quiet`, `settled` and `undisturbed` are history for the properties.

### KeyVaultHub and its parts

A value is the set of texts it is made of and the way it is written (plain, reworded JSON, base64,
base64 twice); a fingerprint is the key and the value it was made from, which is all a keyed hash tells. The
facts run goes list, key, NetBox, and then name by name through make, read, tag or set, and check; the
groups' run lists, then takes a group, reads its secrets and writes it; the copies read the template, the
Secret, every name's state, and then write. Each arrow is a call, and the owner's edits come between any
two. `FactsMissed` keeps for the next call whether the version it names is still the current one. `FactsLeaves` is a call
that fails for one name, after which the run goes on, `FactsStops` one that ends it. The run reads with one client and
writes with another, each with its own cache: what it has set and read back is not what a later view is given.

## Runs

| Run | Question | Bounds |
|---|---|---|
| `pihole` | types; names kept; clean rounds; sessions; foreign lines; refinement of `DnsMirror`; convergence | 2 Pi-holes, 3 names, 2 nested zones, 3 start states, one fault of any kind, one edit, deletes on |
| `pihole_cut_short` | *violation:* does a visit that is cut short drop nothing? | the same, deletes off |
| `webhook` | types; hand-made records; no needless delete; convergence | 1 name in 2 zones, 2 values, 2 TTLs, 2 threads, 2 faults of any kind, 1 edit of any sort |
| `pipeline` | an Ingress hostname is answered by the Pi-hole in the end | 2 names, 2 values, 1 Pi-hole, 1 fault, 1 edit |
| `talos` | quorum, databases, one at a time, whole when handed back, no hopeless wait, the run ends | 3 control planes and a worker, 3 visits, 3 databases, one node failure, every call may fail |
| `flux` | the hold ends with the run, is lifted by its maker, nothing deploys mid-unit | 2 runs, 2 units each, 2 patches by hand, every fault |
| `flux_left` | *violation:* the same for `proxmox-reboot.yml` | 1 run, a failed read |
| `backup` | nothing that lives is swept; hand-written files; the settled tree; what is written comes back, and holds nothing private | 1 namespace, 2 folders, 2 objects and a Secret, 2 changes, 1 failed list or stop; about 200 contents |
| `backup_lists` | *violation:* does every kustomization list files there are? | the same, no fault, no contents |
| `netbox` | NetBox agrees with the sources; a second run writes nothing; others' rows stay; the file and Termix follow | 2 guests, a node, an IoT device, 6 addresses, 3 interfaces, 4 start tables, 2 events |
| `netbox_iot` | *violation:* does the seed leave the owner's statuses? | the same, only the seed, on NetBox as runs left it, one edit |
| `keyvault` | fingerprints are true; groups agree; nothing encoded twice; NetBox reaches the groups | 5 secrets, 2 texts, 2 objects, 3 groups, 7 starts, 5 events in all, of which a start leaves up to 5 |

`flux`, `flux_left` and `talos` say `CHECK_DEADLOCK FALSE`: their runs end. So does `keyvault`: the copies
are run by hand, and in a start with nothing else no more happens once the events are used up. In the
others something can always happen.

**Why these bounds.** They were chosen so that each hazard in `PROJECT.json` can occur, and the
mutants confirm that it does.

- *DNS.* Two Pi-holes are what "one fails, the next succeeds" needs; the start states hold a line shared
  by two local names, one shared with a foreign name, a stale line, a foreign line, and none. Two zones are
  needed for a name in a nested zone, so that retiring the inner one moves it. One fault and one
  edit at any of the calls cut short any single visit, and the rounds after it go on from what it left.
  Two threads are what overlap needs: ExternalDNS waits for at most one, so one more is behind it.
- *Talos.* Three members are the smallest quorum a visit can lose. The databases are one of each shape:
  a replicated PostgreSQL and a MariaDB with a leg on the worker, and a single instance. The plan
  visits two control planes in a row, which is where a member that is not caught up matters, and the
  worker, where the databases are. One failure by itself, at any moment, beside any failing call.
- *Flux.* Two runs and an owner are all the kinds of patcher there are; two units so that the hold can go
  between them.
- *Backup.* Two folders in a namespace are what a release beside a promoted or hand-written folder, and two
  markers, need. One object needs a redaction and one does not. Two changes and a fault are enough to
  put any two of install, uninstall, create, delete, mark and unmark anywhere in a run; three changes
  were checked once (3.1 million states) with the same result. Runs repeat without bound, so the settled tree is
  reached from every state a cut-short run may leave. One namespace: capture treats namespaces
  independently but for the two things that reach across them, a run that stops and a kind that fails to list.
  The contents pair every text that meets a rule of its own (known, part of a known one, a domain, a variable
  of Flux's, of a script's, an escaped one) with every kind of object that has a rule.
- *NetBox.* Two guests are one the owner retires and one that stays; a node brings the interfaces, three of them so
  that one uses another that uses a third, and one Proxmox no longer has, or has and is not active; the addresses are one of each sort of holder, and one Kea gives to a host that
  is no object here. The start tables are NetBox empty, as the jobs left it, behind the sources, and with a VM and
  a device being removed. An event is an edit, a change in a source or a refused call; the jobs are checked alone
  and the seed together with Termix, which are the two that race.
- *Key Vault.* The five names are made in the four ways a fact can be, and one is the owner's. Two events are
  what a tag that lies needs (a value set by one, a tag left by another); the starts differ in which jobs run,
  so that each race has its own.

**Fairness.** Safety properties use none. `pihole`, `webhook` and `pipeline` assume that each program
goes on: the sync runs `--every` so many seconds with `restart: unless-stopped`, ExternalDNS loops
every minute, every HTTP call has a timeout, and an idle session lapses at Pi-hole. Edits, faults and
restarts are not fair, and are bounded, so "in the end" means once they stop. Weak fairness is
enough: no step of a program is disabled again and again by somebody else's. `talos` assumes that Ansible goes from task to
task and gives a wait up after its `retries`, and that a node that is down boots, is seen, catches up and
starts its instances; it does not assume that a call fails or succeeds. `netbox` assumes that each job
is started again by its schedule and goes on, and that the owner merges a pull request some day; the
latter is strong fairness, since every nightly run moves the branch back to main for a moment.
`keyvault` assumes the two schedules (facts, groups) and that a run goes on; nothing by hand is
fair. `flux` and `backup` have no liveness
property under fairness: `SettledTreeIsWhole` is stated as an invariant over runs in a row (`settled`) instead.

### What the properties say

*PiholeSync.* `NothingForgotten`: at every point of a visit each name read is on the Pi-hole, may be dropped, or
is still to be added. `CleanMeansMirrored`: the round that touches the health file left every Pi-hole in
step. `ForeignLinesUntouched`: what a step may never remove, over all
rounds and failures. `SessionsGivenBack`: the sync does not lock itself out. `ImplementsMirror`,
`EventuallyMirrored`: as above, and convergence.

*DnsWebhook.* `DeletesSpare` is `HandMadeKept`, except a record adopted while its delete is already
planned (the window is real, and the exception names it), and `KeepsWhatIsAsked`: a delete never takes a
value still wanted. `Converges`.
`IngressesAnswered` is the pipeline's.

*TalosReboot.* `QuorumSurvivesTheReboot` and `DrainSparesDatabases` except what fails by itself
after the visit's checks; `OneOutAtATime` also after a failed visit, and a node takes pods again only when it is
really back, whatever the API says; `HandedBackWhole`, and a run that reports success did every node;
`NoWaitForALaterStep`: once the cluster is at rest, a wait is satisfied, so the order of tasks has no
wait for what a later task brings; `RunEnds`.

*FluxHold.* `HoldEndsWithTheRun`, `LiftsOnlyItsOwn`, `NothingDeploysMidUnit`, each with the exceptions its
comment names.

*BackupTree.* `KeepsWhatLives`: what existed throughout a run keeps its files, through both sweeps.
`HandWrittenUntouched`. `SettledTreeIsWhole`: after three quiet runs in a row the
tree is the one stated from the cluster and markers alone (three, because what is swept
last is still listed, and its folder still there, in the run before). `SettledRunChangesNothing`:
"on an unchanged cluster there's nothing to review", at no moment of a run.

*BackupContents.* `WhatIsWrittenComesBack`: what Flux makes of a manifest is what the object held,
whichever of its private values are in Key Vault, pending, or in the older file; and a `namespace.yaml`
says no more than the lists showed. `NothingPrivateInTheTree`.

*NetBoxHub.* `SettledRunAgrees` and `SecondRunWritesNothing` are about sections that undo each other. The first says nothing
of a guest that is gone from Proxmox, which the seed leaves as it is, and of a status only where it is one the sync moves;
`OwnersStatusKept` says of the others that they stay, which the code does for nodes and VMs (that part is in
`LeavesOthersAlone`) and not for IoT devices.
`EachLeavesOthersAlone` is `LeavesOthersAlone` of the seed and `TermixSpares` of the Termix job.
`FileFollowsNetBox` and `TermixFollowsNetBox` are convergence, through open pull requests, refused calls and
the user's own changes.

*KeyVaultHub.* `FingerprintTrue`, also for a disabled or deleted secret, which can come back.
`SharedSecretsAgree`: a run without failure leaves no two managed groups with different values of a secret it
was for, even when it changes during the run. `NeverEncodedTwice`, for an owner who follows
`old-queues/QUEUE-secret-names.md` (`OwnerIsCareful`: he writes only a plain value for a rewritten name, once its
template is live and no copy of his is running, and imports no older base64 export). `NetBoxReachesTheGroups`.

## Findings

Each has a run whose counterexample shows it.

1. **A split line's names can be lost** (`pihole_cut_short`, `VisitDropsNothing`). The sync removes a
   line of several names and then adds the names back one by one. If a call in between fails or the
   container restarts, the next round does not see the line any more, so a name outside
   NetBox's zones, or with deletes off any name NetBox lacks, is gone. The comment at
   `netbox_pihole_sync.py:137-138` says the split never drops one. Adding the
   single-name lines before removing the shared one would close it.
2. **The seed writes over the owner's statuses of IoT devices** (`netbox_iot`, `OwnersStatusKept`). A device it made
   is set to active while its reservation is there and to offline when it is gone, whatever its status was but
   Decommissioning (`netbox_seed.py:1103`, `641-647`). `src/README.md:100-101` says the sync moves a status only between
   Planned, Active and Offline, and `netbox_seed.py:50-52` leaves Staged, Failed and Inventory to the owner, as
   `synced_status` does for nodes and VMs.
3. **`proxmox-reboot.yml` can leave Flux held** (`flux_left`, `HoldEndsWithTheRun`). It takes the hold in a
   play without a rescue; if the read back fails nothing lifts it, though its header says "however it ends".
4. **generate lists a file it then removes** (`backup_lists`, `ListsNothingMissing`). After an
   uninstall in a namespace that keeps another app, the namespace's `kustomization.yaml` lists the gone
   release's `ks.yaml`, which the same run sweeps. A second `generate` repairs it;
   `tests/test_structure.py` notices if it is run on the tree.

Smaller divergences, with no run of their own: a change of TTL alone is never applied (`netbox-dns-webhook.py:156`: `plan`
compares values only and answers 204, so ExternalDNS asks again every loop; `Converges` is stated for the values); a live namespace whose last
app went is written nowhere for one run; a namespace newly marked for promotion and held loses its raw copies; after a
failed listing of the namespaces one may be in both places; a Pi-hole that refuses a line it already has would end a
visit (`netbox_pihole_sync.py:147`); the errors of capture's three listings for new private values are dropped
(`capture.py:93-97`), so a run with one failed writes a new literal as it is; an edit between the seed's read of a row and its PATCH is written over, and a
pin set in Termix between the job's read and its PUT is lost; `--secrets` with one name no group reads refuses
all of them (`semaphore_variable_groups.py:411-416`); a copy that read the ExternalSecret's template just
before it went live takes base64 for the value of a name rewritten meanwhile and, should the owner set that name while it
runs, writes the base64 over it, to be encoded twice (`keyvault_copy.py:296-305`; `OwnerIsCareful` excepts it, and
the proof of `NeverEncodedTwice` is what showed it).

## Proofs

Each theorem holds for every value of the constants that satisfies the named assumptions of its module; TLC
evaluates those in the runs. Each rests on an inductive invariant, with a lemma for every action, and a step for each
conjunct the action can disturb. Those of `TalosReboot` and `BackupTree` were model-checked before they were proved.

| Module | Theorem | Establishes | Beyond the module's assumptions |
|---|---|---|---|
| `PiholeSyncProofs` | `TypeCorrect` | `TypeOK` | |
| | `NoNameForgotten` | `NothingForgotten` | |
| | `ForeignLinesStay` | `ForeignLinesUntouched` | |
| | `SessionsAreGivenBack` | `SessionsGivenBack` | |
| | `CleanIsMirrored` | `CleanMeansMirrored` | |
| | `SyncImplementsMirror` | `ImplementsMirror` | |
| `DnsWebhookProofs` | `TypesHold` | `TypeOK` | |
| | `HandMadeStays`, `AskedStays`, `DeletesAreSparing` | `HandMadeKept`, `KeepsWhatIsAsked`, both (`DeletesSpare`) | |
| `TalosRebootProofs` | `TypesHold` | `TypeOK` | |
| | `OneOut`, `HandedBack` | `OneOutAtATime`, `HandedBackWhole` | |
| | `QuorumSurvives` | `QuorumSurvivesTheReboot` | more than two control planes |
| | `DrainSpares` | `DrainSparesDatabases` | |
| `FluxHoldProofs` | `TypesHold` | `TypeOK` | |
| | `HoldEnds` | `HoldEndsWithTheRun` | every run is `talos-reboot.yml`'s |
| | `TalosHoldEnds`, `ProxmoxHoldEnds` | the same, for each such run among others, and for a Proxmox run that did a unit | |
| | `OnlyItsOwnLifted`, `NoDeployMidUnit` | `LiftsOnlyItsOwn`, `NothingDeploysMidUnit` | |
| `BackupTreeProofs` | `TypesHold` | `TypeOK` | |
| | `HandWrittenStays` | `HandWrittenUntouched` | |
| | `LivingKept` | `KeepsWhatLives` | |
| | `SettledTreeWhole` | `SettledTreeIsWhole` | |
| | `SettledRunIdle` | `SettledRunChangesNothing` | |
| `NetBoxHubProofs` | `TypesHold` | `TypeOK` | |
| | `RunMakesNetBoxAgree` | `SettledRunAgrees` | |
| | `SecondRunIsIdle` | `SecondRunWritesNothing` | |
| | `EachSparesTheOthers` | `EachLeavesOthersAlone` | |
| `KeyVaultProofs` | `TypesHold`, `FingerprintsTrue` | `TypeOK`, `FingerprintTrue` | |
| `KeyVaultRunsProofs` | `GroupsAgree`, `NoneEncodedTwice` | `SharedSecretsAgree`, `NeverEncodedTwice` | |

*Assumptions.* They say of the constants what the code or the world gives: which sets are finite (nodes, namespaces,
apps), that a plan names a VM once and a database has an instance (`ClusterAssumption`), that NetBox starts with records
under ids of its own (`StartAssumption`), that hosts' addresses differ and are in no LoadBalancer pool, Kea reserves no address of
a pool, and NetBox starts with tables the jobs and the owner can leave behind (`NetBoxAssumption`: a row in `Tidy` shape, such
as that a VIP is in the pool and a thing's address is of a reservation), that what is given to a variable the ExternalSecret maps is in the form its
template expects (`HubAssumption`). `QuorumSurvives` needs more than two control planes, as of two members neither may go; this
cluster has three (`README.md:17`). `HoldEnds` leaves `proxmox-reboot.yml` out since `flux_left` shows it false
there; `ProxmoxHoldEnds` says how far it goes.

### The sync

The first lemmas are about the plan as a function: `PlanType`, `PlanForgetsNothing` (each
answer of the lines read may be dropped, stays on a line not removed, or is on a line added) and
`PlanRemovesOwnOnly` (what is removed has a name in a zone, and a line of one name goes only with deletes
on and NetBox lacking it). The invariant carries them across the calls of a visit:

    IInv == TypeOK /\ SessionHeld /\ KeptByThePlan /\ RemovesOwnOnly

`NothingForgotten` alone is not inductive. It speaks of the lines on the Pi-hole now, and a removal that is still to
come could take a name's last line; nothing in `NothingForgotten` says it will not. `KeptByThePlan` speaks
of the lines that will be left once the removals are done (`lines[at] \ rm`), so a removal does not
disturb it and an addition only moves a name from `add` to the lines; it implies
`NothingForgotten`. `RemovesOwnOnly` says of each line in `rm` what `ForeignLinesUntouched` asks of its
removal. `SessionHeld` (a visit in progress has an open session) is what typing needs: without it `Close` could
take a counter below zero. A clean round is one during which each visited Pi-hole was read back in step
(`MirroredSoFar`). For the refinement `PlanFromRead` ties the plan to what the visit read, so every addition
answers what NetBox said or what a removal owes: the initial states map to `DnsMirror`'s, and each step to one of its steps or
to none, with the names between removal and re-addition as what is owed.

### The webhook

    IInv == TypeOK /\ HaveOrDrop /\ DeletesJustified

A record a thread means to delete was the webhook's own and not asked for when the thread read it. `DeletesJustified` keeps
that until the delete: what is planned for deletion may be removed or taken over by the owner, and nothing else, because no
call changes a record's name or value and NetBox gives an id to one record only (`FreshId`). That a handler
asked to have a name is not also asked to drop it (`HaveOrDrop`) comes with the request.

### The Talos visits

    IInv == TypeOK /\ Visit /\ SeenTruly /\ NewBoot /\ QuorumSeen /\ Placed /\ DatabasesSeen
               /\ WindowsOpened /\ BackHere /\ ComesBack /\ Progress

What a visit has looked at stays so until it acts on it, but for the nodes that failed since (`lately`). `Visit` ties
the step to the cordon, `SeenTruly` the API's picture to the nodes, `NewBoot` the boot ID read before to the node's boots:
from these `OneOutAtATime`, since the wait for the return is satisfied by a new boot only. `QuorumSeen` carries "every member
has caught up" from the look to the reboot, `DatabasesSeen` "every instance is ready, and the primary is where it is wanted" to
the drain, with the switchovers under way as an exception that ends step by step (`Freed`). `BackHere` collects what the
closing checks have seen, which is what `ComesBack` says of a node handed back; `Progress` that each planned
node is left or was restarted.

### The hold on Flux

    IInv == TypeOK /\ behind \in [Runs -> BOOLEAN]
               /\ WorkLeft /\ HoldIsLookedAfter /\ MarkedByItsPatch /\ OwnUnlessBehind /\ HeldMidUnit

What a run may conclude from what it read holds until somebody else patches the source, and such a patch leaves its
trace (`behind`, `lifted`, the holder). `HoldIsLookedAfter` says that whoever holds the source is on the way to its thaw,
is excused, or is a Proxmox run that failed before its hosts' play.

### k8s_backup's tree

    TypesInv == TypeOK /\ Ownership
    KeepInv == TypesInv /\ StillThere /\ Listed /\ ReleasesWritten /\ CopyOutlives /\ FoldersWhole

What a run may remove is what capture owned at its start and neither wrote nor kept since. `Ownership` is the former (the
markers change between runs only), and with it hand-written files are safe: every phase writes outside `Protected` (`Writes`,
`StopsWith`, `GenerateWrites`). For what lives, the invariant goes with the run: what it has not seen go is still there
(`StillThere`), so it is in the lists read from then on (`Listed`), so its files are written (`ReleasesWritten`) and a copy of each
object is written, kept, or none of capture's (`CopyOutlives`, by `WriteObjectsKeeps` over listed and failed kinds, held,
ambiguous and unlisted namespaces, Secrets with and without values). After the sweep a release's folder is whole
(`FoldersWhole`), and generate, which reads the disk alone, deploys it.

    TreeInv == BaseInv /\ CourseInv /\ CapturedInv /\ DeployedInv /\ ClearedInv /\ ListedInv

`SettledTreeIsWhole` says nothing until three runs are over, so the invariant says what each of them adds. `BaseInv` holds whatever
happens: the markers are apart, a hand-written folder has its files, a manifest is in a promoted folder, and what there is of
capture's own during a run is in `before` or `written` (`Tracked`). From the cluster and the markers alone come two bounds on capture's files: `Must`,
what they call for, and `May`, what they allow. In a run nothing disturbs all of `written` is allowed and more and more of what is called for is in it
(`CourseInv`), so what the sweep leaves is between the two (`CapturedInv`, by `SweptIsAllowed`). generate then makes the Flux files
those call for (`DeployedInv`). Two things still show what was there before: a namespace whose folder was emptied has no
`cluster/namespace` file yet, as capture saw its folder, and a promoted folder may have been given Flux files for one that
the same generate swept. The second run puts both right (`ClearedInv`), the third lists what there then is (`ListedInv`). The tree is then a fixed
point: what capture writes is there (`FolderWhenDeployed`, `ObjectFilesCalledFor`), what it may sweep it wrote (`NothingToSweep`), and
generate neither writes nor sweeps (`NothingToGenerate`), also in a run that a failed listing or a stop disturbs, which is
`SettledRunChangesNothing`.

### NetBox and what follows it

    IInv == SafeInv /\ QuietInv /\ SettledInv
    SafeInv == TablesInv /\ SeedFits /\ Careful
    OtherInv == GuestsInv /\ TermixInv /\ TermixCourse

`SettledRunAgrees` speaks of the end of a run, after up to seven sections with a write for every object, so the invariant
says at each point of an undisturbed run where it stands (`QuietInv`). What it read is what is live still. Each item to do is meant:
it writes what the sources call for (`Meant`). Each object that is not yet as they have it is in a section to come, or still to be
looked at, or has its write in the list (`Covered`); of the sections that are over everything agrees (`Finished`), so the lemma of
each write also shows that it undoes nothing of another section. That is where the proof needs the tables' shape: a host's address is nobody else's, a VIP's is no reservation's. Two sections need more: what is deleted of a node's
interfaces is used by none that stays, and comes before what it uses (`Pruning`); the addresses the reservations' section
may record are kept for the things' (`RecordKept`). At the end nothing is left to cover, so everything agrees, and of a state in which
everything agrees every item of every section's plan writes nothing, which is `SettledInv` and carries the second run.

`EachLeavesOthersAlone` is about the runs that *are* disturbed: of the seed, that a VM being removed, a device not its own and
a host's address stay out of its lists whatever the owner does after they were made (`Careful`); of the Termix job, that
until something changes what it wrote down of NetBox and Termix is so (`TermixCourse`). It was the attempt
at this proof that brought the refused writes (`Refused`) into the model: without them the seed wrote a row the owner had deleted since
it was listed, which NetBox's API does not do.

### Key Vault

    IInv == KeyVaultTypeOK /\ FactsTypeOK /\ TrueIn(vault) /\ TrueIn(saved) /\ Agreeing

`FingerprintTrue` is `TrueIn(vault)`. It is not inductive: an import puts back the rows of an export, so the export has to be
true as well (`TrueIn(saved)`), and the facts run tags a version it read earlier, so whenever it is about to,
and that version is still the current one (`facts.fresh`), the value there must agree with the one the tag is of
(`Agreeing`). Everybody else who writes a value keeps the tag out; the lemma for each action shows that, and
that `facts.fresh` falls with the version. The groups and the copies add only their types (`HubInv`), which the
copies' writes need: what a copy writes is a value.

    RunInv == DoneAsRead /\ ReadOnce
    EncodingInv == VaultFits /\ SecretFits /\ FactsPlain /\ CopyFits

Two groups agree because each group a run is done with holds what the run read of a secret, and it reads a secret once
(`sync.cache`). No value is encoded twice because every place a value passes through (Key Vault, the Secret, what a copy read)
holds one that fits its template, or, for a name rewritten ahead of its template, the new value or the base64 of it (`Tied`). That
is where the attempt failed first: a copy may know an older template than the live one, and then only the
owner's leaving the name alone saves it, which is now part of `OwnerIsCareful`.

*Only model-checked.* Liveness (`EventuallyMirrored`, `Converges`, `IngressesAnswered`, `RunEnds`, `FileFollowsNetBox`,
`TermixFollowsNetBox`, `NetBoxReachesTheGroups`) and `NoWaitForALaterStep` (it uses `ENABLED`) are out of the proof
system's reach. So is induction over data: `Manifests` computes with recursive functions, so what `BackupContents` says is
checked over the contents given.

## Not modelled

Left out of the modules above, and why:

- `netbox_seed.py`: VLANs, subnets, MAC addresses and device types go through the same find and ensure as what is
  modelled, with no rule of their own. So do disks, with one: of a VM whose shape NetBox owns, a disk it lacks is still made
  (`netbox_seed.py:1013-1019`), where no other part of the shape is written. Assumed: a MetalLB pool's addresses are no guest's, guests' addresses are distinct, and
  an address does not move from one object to another. A Proxmox node that does not answer stops the seed before it writes.
- `keyvault_facts.py --find`, `--full` and check mode, the report modes of `semaphore_variable_groups.py` and its read back: nothing
  is written. What NetBox gives a facts run is read in one step, where the code lists six kinds of object, and reads each
  host's status when it first needs it (`keyvault_facts.py:152-194`); so are Dockhand's secrets (`dockhand_keyvault_copy.py`).
- `termix-netbox-sync.py`: RDP is turned on for all the hosts that need it in one step, where the code calls Termix host by
  host (`358-369`).
- `Manifests`: two keys of one Secret that differ only in punctuation, a literal inside a placeholder's name, a Secret's value
  that is no text ("no supported form yet"), a live text that already reads `$${X}` or `${X}` of a name Flux
  knows. Raw copies and a release's values go through the same cleaning and are not compared with the cluster. Helm values
  are neither escaped nor held when redacted.
- The Proxmox host's visit and the spread of primaries; the parts of the table under "The rest".

## Plan

1. **`ProxmoxVisit`** (`tasks/proxmox-host-reboot.yml` with evacuation, HA maintenance, quorum, DNS guests), reusing the
   cluster's part of `TalosReboot`, and **`SpreadPrimaries`** (`cnpg-spread-primaries.yml`): one host at
   a time, a DNS server always answering, no two control planes down, guests back where they were; the
   greedy spread against a reference definition. The project keeps to a dozen runs and forty checked properties, so
   these would take the place of shallower ones.
2. The other sync jobs, where a partial failure loses something.
3. **Proofs** of what those add. Of the modules there are, every checked property that is within the proof system's reach is
   proved.

## Running

    tlc -workers 2 -config pihole.cfg MCPiholeSync.tla
    tlapm PiholeSyncProofs.tla

`PROJECT.json` gives each run's module and configuration. A run takes from a second to about two minutes, a
proof module up to ten.
