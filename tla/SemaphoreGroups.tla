-------------------------- MODULE SemaphoreGroups --------------------------
(***************************************************************************)
(* semaphore_variable_groups.py: Semaphore's variable groups made exactly  *)
(* as its yaml declares them, from Key Vault; every day for all of them,   *)
(* and by hand for those reading the secrets --secrets names.  A run lists *)
(* the groups once, reads each secret at most once, and leaves a group     *)
(* that it can't make or write as it is.  What the run reports about the   *)
(* undeclared groups and of the secrets compared is left out.              *)
(***************************************************************************)
EXTENDS KeyVault

CONSTANTS
    Groups, Managed,    \* the declared groups, and those with managed: true
    Direct, Templated   \* the secrets a group's variables are, or are built from

ASSUME GroupsAssumption ==
    /\ Managed \subseteq Groups /\ Missing \notin Groups
    /\ Direct \in [Groups -> SUBSET Names] /\ Templated \in [Groups -> SUBSET Names]
    /\ \A s \in Starts : s.groups \subseteq Groups

VARIABLES
    groups,  \* [Groups -> GroupRow]: in Semaphore, how many have the name, and what it holds
    sync     \* the run, a SyncState

groupsVars == <<groups, sync>>

Reads(g) == Direct[g] \cup Templated[g]

\* holds[n] is the value n had when the group was written; extra, whether
\* it has a variable nobody declared.
GroupRow == [copies : 0..2, holds : [Names -> Value \cup {Missing}], extra : BOOLEAN]
NoGroup == [copies |-> 0, holds |-> [n \in Names |-> Missing], extra |-> FALSE]

\* A run: what it is for, the groups left to do, how many of each there were
\* when it started, the secrets it has read; alone says that nobody has
\* edited a group since.
SyncState ==
    [at : {"idle", "group", "read"}, scope : SUBSET Names, left : SUBSET Groups, live : [Groups -> 0..2],
     cache : [Names -> Value \cup {Missing}], group : Groups \cup {Missing}, toread : SUBSET Names,
     failed : BOOLEAN, alone : BOOLEAN]

SyncResting ==
    [at |-> "idle", scope |-> {}, left |-> {}, live |-> [g \in Groups |-> 0], cache |-> [n \in Names |-> Missing],
     group |-> Missing, toread |-> {}, failed |-> FALSE, alone |-> FALSE]

\* The groups there are at the start hold none of the vault's values.
GroupsInit ==
    /\ \E s \in Starts : s.jobs = jobs /\ groups = [g \in Groups |-> [NoGroup EXCEPT !.copies = IF g \in s.groups THEN 1 ELSE 0]]
    /\ sync = SyncResting

-----------------------------------------------------------------------------
(* A run.                                                                  *)

\* Every secret a group's values read, directly or through a template.
Uses_DirectOnly(g) == Direct[g]
Uses(g) == Direct[g] \cup Templated[g]

\* named is what --secrets gives, {} without it.  A name no group reads
\* refuses the whole run, without any group written.
GroupsStarts(named) ==
    /\ sync.at = "idle"
    /\ named \subseteq UNION {Uses(g) : g \in Groups}
    /\ sync' = [SyncResting EXCEPT !.at = "group", !.alone = TRUE,
                   !.scope = IF named = {} THEN Names ELSE named,
                   !.left = IF named = {} THEN Groups ELSE {g \in Groups : Uses(g) \cap named # {}},
                   !.live = [g \in Groups |-> groups[g].copies]]
    /\ UNCHANGED <<vault, fkey, saved, groups>>

\* Two groups of one name, or one that went since the list, are left.
GroupsTakes(g) ==
    /\ sync.at = "group" /\ g \in sync.left
    /\ LET gone == sync.live[g] > 1 \/ (sync.live[g] = 1 /\ groups[g].copies = 0) IN
          sync' = IF gone THEN [sync EXCEPT !.left = @ \ {g}, !.failed = TRUE]
                  ELSE [sync EXCEPT !.left = @ \ {g}, !.group = g, !.at = "read",
                           !.toread = {n \in Reads(g) : sync.cache[n] = Missing}]
    /\ UNCHANGED <<keyvaultVars, groups>>

GroupsReads(n) ==
    /\ sync.at = "read" /\ n \in sync.toread
    /\ sync' = [sync EXCEPT !.toread = @ \ {n}, !.cache[n] = Read(n)]
    /\ UNCHANGED <<keyvaultVars, groups>>

\* The group as declared: what its secrets hold, and nothing else.
Declared(g) == [n \in Names |-> IF n \in Reads(g) THEN sync.cache[n] ELSE Missing]
Unread(g) == \E n \in Reads(g) : sync.cache[n] = Missing

\* A value missing leaves the group; one not managed is only reported.
GroupsLeaves ==
    /\ sync.at = "read" /\ sync.toread = {}
    /\ Unread(sync.group) \/ sync.group \notin Managed
    /\ sync' = [sync EXCEPT !.at = "group", !.failed = @ \/ Unread(sync.group)]
    /\ UNCHANGED <<keyvaultVars, groups>>

Written(g, copies) == [groups EXCEPT ![g] = [copies |-> copies, holds |-> Declared(g), extra |-> FALSE]]

GroupsWrites_AlwaysPosts ==
    /\ sync.at = "read" /\ sync.toread = {} /\ ~Unread(sync.group) /\ sync.group \in Managed
    /\ groups' = Written(sync.group, groups[sync.group].copies + 1)
    /\ sync' = [sync EXCEPT !.at = "group"]
    /\ UNCHANGED keyvaultVars

\* A group listed is PUT, by its id; any other is POSTed, a second one if
\* somebody made it since the list.
GroupsWrites ==
    /\ sync.at = "read" /\ sync.toread = {} /\ ~Unread(sync.group) /\ sync.group \in Managed
    /\ LET g == sync.group IN
          /\ groups' = IF sync.live[g] = 0 THEN Written(g, IF groups[g].copies = 2 THEN 2 ELSE groups[g].copies + 1)
                       ELSE IF groups[g].copies > 0 THEN Written(g, groups[g].copies) ELSE groups
          /\ sync' = [sync EXCEPT !.at = "group", !.failed = @ \/ (sync.live[g] = 1 /\ groups[g].copies = 0)]
    /\ UNCHANGED keyvaultVars

GroupsEnds ==
    /\ sync.at = "group" /\ sync.left = {}
    /\ sync' = SyncResting
    /\ UNCHANGED <<keyvaultVars, groups>>

\* A call without an answer fails its group, carried out or not; a read's
\* leaves its value missing.
GroupsCallFails ==
    /\ Event
    /\ \/ /\ sync.at = "read" /\ sync.toread # {}
          /\ sync' = [sync EXCEPT !.at = "group", !.failed = TRUE]
          /\ UNCHANGED groups
       \/ /\ sync.at = "read" /\ sync.toread = {} /\ ~Unread(sync.group) /\ sync.group \in Managed
          /\ groups' \in {groups, Written(sync.group, IF groups[sync.group].copies = 0 THEN 1 ELSE groups[sync.group].copies)}
          /\ sync' = [sync EXCEPT !.at = "group", !.failed = TRUE]
    /\ UNCHANGED <<vault, fkey, saved>>

\* The task is killed between two calls, or a first call isn't answered.
GroupsStops ==
    /\ Event /\ sync.at # "idle"
    /\ sync' = SyncResting
    /\ UNCHANGED <<vault, fkey, saved, groups>>

GroupsRun ==
    \/ \E g \in Groups : GroupsTakes(g)
    \/ \E n \in Names : GroupsReads(n)
    \/ GroupsLeaves \/ GroupsWrites \/ GroupsEnds

\* Somebody in Semaphore deletes, copies or edits a group.
UserEditsGroup(g) ==
    /\ Event
    /\ \/ groups[g].copies > 0 /\ groups' = [groups EXCEPT ![g] = NoGroup]
       \/ groups[g].copies < 2 /\ groups' = [groups EXCEPT ![g].copies = @ + 1]
       \/ groups[g].copies = 2 /\ groups' = [groups EXCEPT ![g].copies = 1]
       \/ groups[g].copies > 0 /\ ~groups[g].extra
          /\ groups' = [groups EXCEPT ![g].extra = TRUE, ![g].holds = NoGroup.holds]
    /\ sync' = [sync EXCEPT !.alone = FALSE]
    /\ UNCHANGED <<vault, fkey, saved>>

-----------------------------------------------------------------------------
(* Properties.                                                             *)

GroupsTypeOK ==
    /\ groups \in [Groups -> GroupRow]
    /\ sync \in SyncState
    /\ sync.at = "read" => sync.group # Missing

\* A run that went through every group it chose without a failure, while
\* nobody edited a group, leaves all managed groups with the same value of
\* each secret the run was for, even when the secret changed during the run.
SharedSecretsAgree ==
    sync.at = "group" /\ sync.left = {} /\ ~sync.failed /\ sync.alone =>
        \A n \in sync.scope : \A g, h \in {m \in Managed : n \in Reads(m)} :
            groups[g].holds[n] = groups[h].holds[n]

\* A managed group holds what its secrets hold now.
GroupUpToDate(g) ==
    \/ groups[g].copies > 1
    \/ \E n \in Reads(g) : Read(n) = Missing
    \/ groups[g].copies = 1 /\ ~groups[g].extra /\ \A n \in Reads(g) : groups[g].holds[n] = Read(n)
=============================================================================
