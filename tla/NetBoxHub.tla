----------------------------- MODULE NetBoxHub -----------------------------
(***************************************************************************)
(* NetBox as the hub: the seed that writes it from the live sources, and   *)
(* the two jobs that read it, side by side with the owner.  The jobs run   *)
(* on schedules of their own (Semaphore's, and a CronJob) and know nothing *)
(* of each other.                                                          *)
(***************************************************************************)
EXTENDS NetboxSeed, NetboxGuests, TermixSync

vars == <<netboxVars, seedVars, guestsVars, termixVars>>

Init == NetBoxInit /\ SeedInit /\ GuestsInit /\ TermixInit

Seed ==
    /\ "seed" \in jobs /\ SeedSteps
    /\ IF tables' = tables THEN UNCHANGED termixVars ELSE TermixMissed
    /\ UNCHANGED guestsVars

GuestsJob ==
    /\ "guests" \in jobs
    /\ \/ (GuestsReadMain \/ GuestsRun \/ Merge) /\ UNCHANGED netboxVars
       \/ GuestsRefused
    /\ UNCHANGED <<seedVars, termixVars>>

Termix ==
    /\ "termix" \in jobs
    /\ \/ (TxReadsNetBox \/ TxRun) /\ UNCHANGED netboxVars
       \/ TxWriteFails \/ TxStops
    /\ UNCHANGED <<seedVars, guestsVars>>

Sources == SourcesMove /\ SeedMissed /\ UNCHANGED <<guestsVars, termixVars>>
Owner == OwnerEdits /\ SeedMissed /\ TermixMissed /\ UNCHANGED guestsVars
User == "termix" \in jobs /\ UserEdits /\ UNCHANGED <<seedVars, guestsVars>>

Next == Seed \/ GuestsJob \/ Termix \/ Sources \/ Owner \/ User

\* Every job is started again and again and a started run goes on; the owner
\* merges a pull request some day, though every run moves its branch back to
\* main for a moment.
Fairness ==
    /\ WF_vars("seed" \in jobs /\ (SeedReads \/ SeedRuns) /\ Seed)
    /\ WF_vars("guests" \in jobs /\ (GuestsReadMain \/ GuestsRun) /\ GuestsJob)
    /\ SF_vars(Merge /\ GuestsJob)
    /\ WF_vars((TxReadsNetBox \/ TxRun) /\ Termix)

Spec == Init /\ [][Next]_vars
FairSpec == Spec /\ Fairness

TypeOK == NetBoxTypeOK /\ SeedTypeOK /\ GuestsTypeOK /\ TermixTypeOK

\* Neither program that writes by itself touches what is not its own: the seed
\* in NetBox, while the owner edits, and the Termix job in Termix.
EachLeavesOthersAlone == LeavesOthersAlone /\ TermixSpares

\* The file on main follows NetBox: whatever the edits, the pull requests
\* left open and the refused calls, once NetBox is left alone the file ends
\* as NetBox has it, unless NetBox lacks what the file needs.
FileFollowsNetBox ==
    "guests" \in jobs => <>[](FileFollows \/ Lacking # {} \/ DropsAllTalos(Shape(main)))

\* Once NetBox and Termix are left alone, Termix ends with exactly the hosts
\* NetBox names, each by its name or address and with its credential; unless
\* NetBox names none, or Termix lacks the bastion credential.  With the seed
\* running too, that is what the live sources make NetBox name.
TermixFollowsNetBox ==
    "termix" \in jobs => <>[](Named = {} \/ "bastion" \notin creds \/ \A o \in Objects : HostFollows(o))
=============================================================================
