---------------------------- MODULE KeyVaultHub ----------------------------
(***************************************************************************)
(* What writes and reads Key Vault, side by side: the nightly facts run,   *)
(* the daily run over Semaphore's variable groups and the one by hand for  *)
(* the secrets a facts run changed, the two copy scripts, the External-    *)
(* Secret, and the owner.  In a behaviour only the jobs of its start run.  *)
(***************************************************************************)
EXTENDS KeyVaultFacts, SemaphoreGroups, KeyVaultCopies

\* What is given to a variable the ExternalSecret maps: nothing encoded
\* twice, plain text where its template encodes it or Dockhand exports it, and
\* no base64 where the facts run, which writes plain text, has the name too.
ASSUME HubAssumption ==
    /\ \A n \in Mapped \cap Exported : Export[n].as = "plain"
    /\ \A s \in Starts : \A n \in Mapped : \A v \in OwnerValues[n] \cup {s.vault[n].val} :
          /\ v.as # "twice"
          /\ n \in s.encodes => v.as = "plain"
          /\ "copy" \in s.jobs /\ n \in s.mapped => v.as # "base64"

vars == <<keyvaultVars, factsVars, groupsVars, copiesVars>>

Init == KeyVaultInit /\ FactsInit /\ GroupsInit /\ CopiesInit

FactsStep ==
    /\ "facts" \in jobs
    /\ FactsLists \/ FactsRun \/ FactsLeaves \/ FactsStops
    /\ UNCHANGED <<groupsVars, copiesVars>>

NetBoxStep == "facts" \in jobs /\ (\E o \in Objects : NetBoxChanges(o)) /\ UNCHANGED <<groupsVars, copiesVars>>

\* Every day for all of the groups; for the secrets a facts run says it
\* changed when the owner starts it so.
GroupsDaily == "groups" \in jobs /\ GroupsStarts({}) /\ UNCHANGED <<outside, factsVars, copiesVars>>
GroupsByHand == "groups" \in jobs /\ report # {} /\ Event /\ GroupsStarts(report) /\ UNCHANGED <<factsVars, copiesVars>>

GroupsStep ==
    /\ "groups" \in jobs
    /\ GroupsRun \/ GroupsCallFails \/ GroupsStops \/ \E g \in Groups : UserEditsGroup(g)
    /\ UNCHANGED <<factsVars, copiesVars>>

CopiesStep ==
    /\ \/ "copy" \in jobs /\ \/ CopyReadsTemplate \/ ESRefresh
                             \/ \E n \in Names : OwnerRewrites(n) \/ TemplateGoesLive(n)
       \/ "dockhand" \in jobs /\ DockhandLooks
       \/ CopiesRun \/ CopyStops
    /\ FactsMissed
    /\ UNCHANGED <<netbox, mapped, report, groupsVars>>

OwnerStep ==
    /\ OwnerEdits /\ OwnerIsCareful
    /\ CopiesNotices /\ FactsMissed
    /\ UNCHANGED <<netbox, mapped, report, groupsVars>>

Next == FactsStep \/ NetBoxStep \/ GroupsDaily \/ GroupsByHand \/ GroupsStep \/ CopiesStep \/ OwnerStep

\* Both schedules come round, and a run that isn't stopped goes on.
Fairness ==
    /\ WF_vars("facts" \in jobs /\ (FactsLists \/ FactsRun) /\ UNCHANGED <<groupsVars, copiesVars>>)
    /\ WF_vars(GroupsDaily)
    /\ WF_vars("groups" \in jobs /\ GroupsRun /\ UNCHANGED <<factsVars, copiesVars>>)

Spec == Init /\ [][Next]_vars /\ Fairness

-----------------------------------------------------------------------------
(* Properties.                                                             *)

TypeOK == KeyVaultTypeOK /\ FactsTypeOK /\ GroupsTypeOK /\ CopiesTypeOK

\* Once nobody changes anything more and no call fails, each mapped secret
\* comes to hold what NetBox gives for it, and each managed group what its
\* secrets hold, whatever fingerprints, keys and exports there were before.
NetBoxReachesTheGroups ==
    ("facts" \in jobs => <>[](\A n \in Facts : FactFollows(n)))
    /\ ("groups" \in jobs => <>[](\A g \in Managed : GroupUpToDate(g)))
=============================================================================
