------------------------------- MODULE FluxHold -------------------------------
(***************************************************************************)
(* The hold on Flux of a run that reboots everything: tasks/flux-freeze,   *)
(* flux-held and flux-thaw.yml as ansible/talos-reboot.yml and             *)
(* ansible/proxmox-reboot.yml call them.                                   *)
(*                                                                         *)
(* The flux-system GitRepository is one bit, suspended, that anybody may   *)
(* patch: the runs, and the cluster's owner by hand.  While it is set,     *)
(* what is merged is not deployed.  A run reads the bit, sets it, marks    *)
(* the hold its own (flux_frozen), reads it back, looks at it again before *)
(* each unit of work (a VM, a host), and clears it at its end.             *)
(*                                                                         *)
(* The two playbooks differ in where a failure goes: talos-reboot.yml      *)
(* takes the hold inside a block whose rescue lifts it; proxmox-reboot.yml *)
(* takes it in a play without one, and a failed host is in no later play.  *)
(***************************************************************************)
EXTENDS Naturals

CONSTANTS
    Runs,      \* runs of the two playbooks that take the hold
    Playbook,  \* Playbook[r]: "talos" or "proxmox"
    Units,     \* how many units of work a run has
    Faults,    \* what may go wrong: subset of FaultKinds
    MaxByHand  \* how often the owner suspends or resumes by hand

\* A read fails or answers late; a unit fails; the suspending patch is
\* carried out and its answer lost; the resuming patch is refused; the
\* Proxmox host cannot be reached; the run is killed.
FaultKinds == {"read", "work", "lost", "resume", "unreachable", "kill"}
Nobody == "nobody"
Owner == "owner"

ASSUME HoldAssumption ==
    /\ Playbook \in [Runs -> {"talos", "proxmox"}]
    /\ Nobody \notin Runs /\ Owner \notin Runs
    /\ Units \in Nat \ {0} /\ MaxByHand \in Nat
    /\ Faults \subseteq FaultKinds

VARIABLES
    suspended,  \* the GitRepository's spec.suspend
    holder,     \* who last turned it on, while it is on
    waiting,    \* something is merged and not yet deployed
    pc,         \* pc[r]: the step run r is at
    frozen,     \* frozen[r]: flux_frozen
    worked,     \* worked[r]: units of work done
    byHand,     \* how often the owner patched it
    \* what the properties look back on
    excused,    \* excused[r]: r was cut off, or excused that it could not lift its hold
    lifted,     \* lifted[r]: somebody else resumed the source during r's unit
    behind      \* behind[r]: somebody else patched it after r read it

source == <<suspended, holder, lifted, behind>>
vars == <<source, waiting, pc, frozen, worked, excused, byHand>>

Steps == {"idle", "read", "suspend", "readback", "held", "work", "thaw", "lifted", "ended"}
UnderWay(r) == pc[r] \notin {"idle", "ended"}

Init ==
    /\ suspended = FALSE /\ holder = Nobody /\ waiting = FALSE
    /\ pc = [r \in Runs |-> "idle"]
    /\ frozen = [r \in Runs |-> FALSE] /\ worked = [r \in Runs |-> 0]
    /\ excused = [r \in Runs |-> FALSE] /\ byHand = 0
    /\ lifted = [r \in Runs |-> FALSE] /\ behind = [r \in Runs |-> FALSE]

-----------------------------------------------------------------------------
\* One patch of spec.suspend; a hold that is there keeps its holder.
Patch(by, on) ==
    /\ suspended' = on
    /\ holder' = IF ~on THEN Nobody ELSE IF suspended THEN holder ELSE by
    /\ lifted' = [o \in Runs |-> lifted[o] \/ (~on /\ o # by)]
    /\ behind' = [o \in Runs |->
                    behind[o] \/ (o # by /\ pc[o] \notin {"idle", "read", "ended"})]

At(r, step, then) == pc[r] = step /\ pc' = [pc EXCEPT ![r] = then]

\* Where a failure goes.  In proxmox-reboot.yml one before the hosts' play
\* leaves the play, and the clean-up play has no host left.
OnFailure_NoRescue(r) == "ended"
OnFailure(r) ==
    IF Playbook[r] = "proxmox" /\ pc[r] # "held" /\ pc[r] # "work" THEN "ended" ELSE "thaw"

Start(r) ==
    /\ At(r, "idle", "read")
    /\ UNCHANGED <<source, waiting, frozen, worked, excused, byHand>>

\* Already suspended stops the run: that hold is someone else's to lift.
ReadSource(r) ==
    /\ At(r, "read", IF suspended THEN OnFailure(r) ELSE "suspend")
    /\ UNCHANGED <<source, waiting, frozen, worked, excused, byHand>>

\* The patch, and the mark right after it.
Suspend(r) ==
    /\ At(r, "suspend", "readback")
    /\ Patch(r, TRUE)
    /\ frozen' = [frozen EXCEPT ![r] = TRUE]
    /\ UNCHANGED <<waiting, worked, excused, byHand>>

\* Carried out, but the task failed: no mark.
SuspendLost(r) ==
    /\ "lost" \in Faults
    /\ At(r, "suspend", OnFailure(r))
    /\ Patch(r, TRUE)
    /\ excused' = [excused EXCEPT ![r] = TRUE]
    /\ UNCHANGED <<waiting, frozen, worked, byHand>>

ReadBack(r) ==
    /\ At(r, "readback", IF suspended THEN "held" ELSE OnFailure(r))
    /\ UNCHANGED <<source, waiting, frozen, worked, excused, byHand>>

\* Before each unit: no longer held stops the run.
StillHeld_NotRead(r) ==
    /\ At(r, "held", "work")
    /\ lifted' = [lifted EXCEPT ![r] = FALSE]
    /\ UNCHANGED <<suspended, holder, behind, waiting, frozen, worked, excused, byHand>>

StillHeld(r) ==
    /\ At(r, "held", IF suspended THEN "work" ELSE OnFailure(r))
    /\ lifted' = [lifted EXCEPT ![r] = FALSE]
    /\ UNCHANGED <<suspended, holder, behind, waiting, frozen, worked, excused, byHand>>

\* One unit too many.
Work_OneMore(r) ==
    /\ At(r, "work", IF worked[r] = Units THEN "thaw" ELSE "held")
    /\ worked' = [worked EXCEPT ![r] = @ + 1]
    /\ UNCHANGED <<source, waiting, frozen, excused, byHand>>

Work(r) ==
    /\ At(r, "work", IF worked[r] + 1 = Units THEN "thaw" ELSE "held")
    /\ worked' = [worked EXCEPT ![r] = @ + 1]
    /\ UNCHANGED <<source, waiting, frozen, excused, byHand>>

\* A read or a unit that fails.
StepFails(r) ==
    /\ \/ "read" \in Faults /\ pc[r] \in {"read", "readback", "held"}
       \/ "work" \in Faults /\ pc[r] = "work"
    /\ pc' = [pc EXCEPT ![r] = OnFailure(r)]
    /\ UNCHANGED <<source, waiting, frozen, worked, excused, byHand>>

\* The Proxmox host cannot be reached in the middle of a unit: no rescue, and
\* no later play.
Unreachable(r) ==
    /\ "unreachable" \in Faults
    /\ At(r, "work", "ended")
    /\ excused' = [excused EXCEPT ![r] = TRUE]
    /\ UNCHANGED <<source, waiting, frozen, worked, byHand>>

\* Lifted only if this run made it.
Thaw_Regardless(r) ==
    /\ At(r, "thaw", "lifted")
    /\ Patch(r, FALSE)
    /\ UNCHANGED <<waiting, frozen, worked, excused, byHand>>

Thaw(r) ==
    /\ At(r, "thaw", "lifted")
    /\ IF frozen[r] THEN Patch(r, FALSE) ELSE UNCHANGED source
    /\ UNCHANGED <<waiting, frozen, worked, excused, byHand>>

ThawRefused(r) ==
    /\ "resume" \in Faults /\ frozen[r]
    /\ At(r, "thaw", "ended")
    /\ excused' = [excused EXCEPT ![r] = TRUE]
    /\ UNCHANGED <<source, waiting, frozen, worked, byHand>>

\* The read back; one that finds it suspended fails the run, and says so.
ReadLifted(r) ==
    /\ At(r, "lifted", "ended")
    /\ excused' = [excused EXCEPT ![r] = @ \/ (frozen[r] /\ suspended)]
    /\ UNCHANGED <<source, waiting, frozen, worked, byHand>>

Killed(r) ==
    /\ "kill" \in Faults /\ UnderWay(r)
    /\ pc' = [pc EXCEPT ![r] = "ended"]
    /\ excused' = [excused EXCEPT ![r] = TRUE]
    /\ UNCHANGED <<source, waiting, frozen, worked, byHand>>

RunStep(r) ==
    \/ Start(r) \/ ReadSource(r) \/ Suspend(r) \/ SuspendLost(r) \/ ReadBack(r)
    \/ StillHeld(r) \/ Work(r) \/ StepFails(r) \/ Unreachable(r)
    \/ Thaw(r) \/ ThawRefused(r) \/ ReadLifted(r) \/ Killed(r)

-----------------------------------------------------------------------------
(* The owner, and Flux.                                                    *)

OwnerSuspends ==
    /\ byHand < MaxByHand /\ ~suspended
    /\ byHand' = byHand + 1
    /\ Patch(Owner, TRUE)
    /\ UNCHANGED <<waiting, pc, frozen, worked, excused>>

OwnerResumes ==
    /\ suspended
    /\ byHand < MaxByHand
    /\ byHand' = byHand + 1
    /\ Patch(Owner, FALSE)
    /\ UNCHANGED <<waiting, pc, frozen, worked, excused>>

Merge ==
    /\ waiting' = TRUE
    /\ UNCHANGED <<source, pc, frozen, worked, excused, byHand>>

Deploy ==
    /\ waiting /\ ~suspended
    /\ waiting' = FALSE
    /\ UNCHANGED <<source, pc, frozen, worked, excused, byHand>>

Next == (\E r \in Runs : RunStep(r)) \/ OwnerSuspends \/ OwnerResumes \/ Merge \/ Deploy

Spec == Init /\ [][Next]_vars

-----------------------------------------------------------------------------
(* Properties.                                                             *)

\* The variables keep their types, and a hold has a holder.
TypeOK ==
    /\ suspended \in BOOLEAN /\ waiting \in BOOLEAN
    /\ holder \in Runs \cup {Owner, Nobody} /\ (suspended <=> holder # Nobody)
    /\ pc \in [Runs -> Steps] /\ frozen \in [Runs -> BOOLEAN]
    /\ worked \in [Runs -> 0..Units] /\ excused \in [Runs -> BOOLEAN]
    /\ byHand \in 0..MaxByHand /\ lifted \in [Runs -> BOOLEAN]

\* flux-thaw.yml lifts the hold "only if this run made it": a run never
\* resumes a source that the owner, another run or a run that died suspended
\* before it read the source.  A hold that changes hands after that is taken
\* for the run's own: flux_frozen says only that this run patched the source.
LiftsOnlyItsOwn ==
    [][\A r \in Runs : (pc[r] = "thaw" /\ pc'[r] = "lifted" /\ suspended /\ ~suspended') =>
           holder = r \/ behind[r]]_vars

\* "Until the run ends, however it ends": no hold outlives its run, whichever
\* step failed and whatever others did to the source meanwhile, unless the run
\* was cut off, lost the answer to its own patch, or said that it could not
\* lift the hold.
HoldEndsWithTheRun ==
    \A r \in Runs : (pc[r] = "ended" /\ ~excused[r]) => holder # r

\* Nothing is deployed in the middle of a unit of a run that holds Flux,
\* unless somebody else lifted the hold during that unit.
NothingDeploysMidUnit ==
    [][(waiting /\ ~waiting') => \A r \in Runs : pc[r] = "work" => lifted[r]]_vars

=============================================================================
