--------------------------- MODULE FluxHoldProofs ---------------------------
(***************************************************************************)
(* Theorems of FluxHold, for any runs of the two playbooks, any number of  *)
(* units, any faults and any patches by hand.                              *)
(*                                                                         *)
(* The argument: what a run may still conclude from what it read holds     *)
(* until somebody else patches the source, and each such patch leaves its  *)
(* trace (behind, lifted, the holder).  The invariants say so step by step *)
(* of the run; the theorems are what they mean at its end.                 *)
(***************************************************************************)
EXTENDS FluxHold, TLAPS

\* The units done so far leave one to do where a unit is to begin, and a run
\* that has not got past its read back has done none.
WorkLeft ==
    \A r \in Runs : /\ pc[r] \in {"held", "work"} => worked[r] < Units
                    /\ pc[r] \in {"idle", "read", "suspend", "readback"} => worked[r] = 0

\* A hold's maker is still to lift it, or was excused, or is a Proxmox run
\* that failed before its hosts' play.
HoldIsLookedAfter ==
    \A r \in Runs : holder = r =>
        \/ excused[r]
        \/ frozen[r] /\ pc[r] \in {"readback", "held", "work", "thaw"}
        \/ Playbook[r] = "proxmox" /\ pc[r] = "ended" /\ worked[r] = 0

\* A run marks the hold its own with its patch, not before.
MarkedByItsPatch == \A r \in Runs : frozen[r] => pc[r] \notin {"idle", "read", "suspend"}

\* A source nobody else patched since the run read it is as the run left it.
OwnUnlessBehind ==
    \A r \in Runs : ~behind[r] =>
        /\ pc[r] = "suspend" => ~suspended
        /\ (frozen[r] /\ pc[r] \in {"readback", "held", "work", "thaw"}) => holder = r

\* A unit is under a hold, unless somebody else lifted it during the unit.
HeldMidUnit == \A r \in Runs : pc[r] = "work" => suspended \/ lifted[r]

IInv ==
    /\ TypeOK /\ behind \in [Runs -> BOOLEAN]
    /\ WorkLeft /\ HoldIsLookedAfter /\ MarkedByItsPatch /\ OwnUnlessBehind /\ HeldMidUnit

-----------------------------------------------------------------------------
(* The invariant is inductive.                                             *)

\* What one patch does, for whoever makes it.
LEMMA PatchTyped ==
    ASSUME TypeOK, behind \in [Runs -> BOOLEAN],
           NEW by \in Runs \cup {Owner}, NEW on \in BOOLEAN, Patch(by, on)
    PROVE  /\ suspended' = on /\ holder' \in Runs \cup {Owner, Nobody}
           /\ suspended' <=> holder' # Nobody
           /\ on => holder' = IF suspended THEN holder ELSE by
           /\ ~on => holder' = Nobody
           /\ lifted' \in [Runs -> BOOLEAN] /\ behind' \in [Runs -> BOOLEAN]
           /\ \A o \in Runs : lifted'[o] <=> (lifted[o] \/ (~on /\ o # by))
           /\ \A o \in Runs : behind'[o] <=> (behind[o] \/ (o # by /\ pc[o] \notin {"idle", "read", "ended"}))
BY HoldAssumption DEF Patch, TypeOK, Nobody, Owner

\* Where a failure leads.
LEMMA FailureLeads ==
    ASSUME NEW r \in Runs
    PROVE  /\ OnFailure(r) \in {"ended", "thaw"}
           /\ OnFailure(r) = "ended" => Playbook[r] = "proxmox" /\ pc[r] \notin {"held", "work"}
BY DEF OnFailure

LEMMA InitIInv == Init => IInv
<1> SUFFICES ASSUME Init PROVE IInv
  OBVIOUS
<1> USE HoldAssumption DEF Init
<1>1. TypeOK /\ behind \in [Runs -> BOOLEAN]
  <2>1. /\ frozen \in [Runs -> BOOLEAN] /\ excused \in [Runs -> BOOLEAN]
        /\ lifted \in [Runs -> BOOLEAN] /\ behind \in [Runs -> BOOLEAN]
    BY Zenon
  <2>2. pc \in [Runs -> Steps] /\ worked \in [Runs -> 0..Units] /\ byHand \in 0..MaxByHand
    BY DEF Steps
  <2> QED
    BY <2>1, <2>2 DEF TypeOK
<1>2. WorkLeft /\ HoldIsLookedAfter /\ MarkedByItsPatch /\ OwnUnlessBehind /\ HeldMidUnit
  BY DEF Nobody, WorkLeft, HoldIsLookedAfter, MarkedByItsPatch, OwnUnlessBehind, HeldMidUnit
<1> QED
  BY <1>1, <1>2 DEF IInv

\* The steps of a run that patch nothing.
LEMMA LookingStepsIInv ==
    ASSUME IInv, NEW r \in Runs,
           \/ Start(r) \/ ReadSource(r) \/ ReadBack(r) \/ StillHeld(r) \/ Work(r)
           \/ StepFails(r) \/ Unreachable(r) \/ ThawRefused(r) \/ ReadLifted(r) \/ Killed(r)
    PROVE  IInv'
<1> USE HoldAssumption
<1>0. UNCHANGED <<suspended, holder, behind, waiting, frozen, byHand>>
  BY DEF Start, ReadSource, ReadBack, StillHeld, Work, StepFails, Unreachable, ThawRefused,
         ReadLifted, Killed, source
<1>1. CASE Start(r)
  BY <1>0, <1>1, FailureLeads DEF Start, At, source, IInv, TypeOK, Steps, WorkLeft, HoldIsLookedAfter, MarkedByItsPatch, OwnUnlessBehind, HeldMidUnit
<1>2. CASE ReadSource(r)
  <2>1. PICK then \in {"suspend", "ended", "thaw"} :
            /\ pc' = [pc EXCEPT ![r] = then]
            /\ UNCHANGED <<lifted, worked, excused>>
            /\ then = "suspend" => pc[r] = "read" /\ ~suspended
            /\ then # "suspend" => then = OnFailure(r) /\ pc[r] \in {"read", "readback", "held", "work"}
    BY <1>2, FailureLeads DEF ReadSource, At, source
  <2>2. then = "ended" => Playbook[r] = "proxmox" /\ pc[r] \notin {"held", "work"}
    BY <2>1, FailureLeads
  <2> QED
    BY <1>0, <2>1, <2>2 DEF IInv, TypeOK, Steps, WorkLeft, HoldIsLookedAfter, MarkedByItsPatch, OwnUnlessBehind, HeldMidUnit
<1>3. CASE ReadBack(r)
  BY <1>0, <1>3, FailureLeads DEF ReadBack, At, source, IInv, TypeOK, Steps, WorkLeft, HoldIsLookedAfter, MarkedByItsPatch, OwnUnlessBehind, HeldMidUnit
<1>4. CASE StillHeld(r)
  BY <1>0, <1>4, FailureLeads DEF StillHeld, At, source, IInv, TypeOK, Steps, WorkLeft, HoldIsLookedAfter, MarkedByItsPatch, OwnUnlessBehind, HeldMidUnit
<1>5. CASE Work(r)
  BY <1>0, <1>5, FailureLeads DEF Work, At, source, IInv, TypeOK, Steps, WorkLeft, HoldIsLookedAfter, MarkedByItsPatch, OwnUnlessBehind, HeldMidUnit
<1>6. CASE StepFails(r)
  <2>1. PICK then \in {"suspend", "ended", "thaw"} :
            /\ pc' = [pc EXCEPT ![r] = then]
            /\ UNCHANGED <<lifted, worked, excused>>
            /\ then = "suspend" => pc[r] = "read" /\ ~suspended
            /\ then # "suspend" => then = OnFailure(r) /\ pc[r] \in {"read", "readback", "held", "work"}
    BY <1>6, FailureLeads DEF StepFails, At, source
  <2>2. then = "ended" => Playbook[r] = "proxmox" /\ pc[r] \notin {"held", "work"}
    BY <2>1, FailureLeads
  <2> QED
    BY <1>0, <2>1, <2>2 DEF IInv, TypeOK, Steps, WorkLeft, HoldIsLookedAfter, MarkedByItsPatch, OwnUnlessBehind, HeldMidUnit
<1>7. CASE Unreachable(r)
  BY <1>0, <1>7, FailureLeads DEF Unreachable, At, source, IInv, TypeOK, Steps, WorkLeft, HoldIsLookedAfter, MarkedByItsPatch, OwnUnlessBehind, HeldMidUnit
<1>8. CASE ThawRefused(r)
  BY <1>0, <1>8, FailureLeads DEF ThawRefused, At, source, IInv, TypeOK, Steps, WorkLeft, HoldIsLookedAfter, MarkedByItsPatch, OwnUnlessBehind, HeldMidUnit
<1>9. CASE ReadLifted(r)
  BY <1>0, <1>9, FailureLeads DEF ReadLifted, At, source, IInv, TypeOK, Steps, WorkLeft, HoldIsLookedAfter, MarkedByItsPatch, OwnUnlessBehind, HeldMidUnit
<1>10. CASE Killed(r)
  BY <1>0, <1>10, FailureLeads DEF Killed, At, UnderWay, source, IInv, TypeOK, Steps, WorkLeft, HoldIsLookedAfter, MarkedByItsPatch, OwnUnlessBehind, HeldMidUnit
<1> QED
  BY <1>1, <1>2, <1>3, <1>4, <1>5, <1>6, <1>7, <1>8, <1>9, <1>10

\* The steps of a run that patch the source.
LEMMA PatchingStepsIInv ==
    ASSUME IInv, NEW r \in Runs, Suspend(r) \/ SuspendLost(r) \/ Thaw(r)
    PROVE  IInv'
<1> USE HoldAssumption
<1>0. TypeOK /\ behind \in [Runs -> BOOLEAN] /\ r # Owner /\ r # Nobody
  BY DEF IInv
<1>1. CASE Suspend(r)
  <2>1. Patch(r, TRUE)
    BY <1>1 DEF Suspend
  <2>2. /\ suspended' = TRUE /\ holder' \in Runs \cup {Owner, Nobody} /\ holder' # Nobody
        /\ holder' = IF suspended THEN holder ELSE r
        /\ lifted' \in [Runs -> BOOLEAN] /\ behind' \in [Runs -> BOOLEAN]
        /\ \A o \in Runs : lifted'[o] <=> lifted[o]
        /\ \A o \in Runs : behind'[o] <=> (behind[o] \/ (o # r /\ pc[o] \notin {"idle", "read", "ended"}))
    BY <1>0, <2>1, PatchTyped
  <2>3. /\ pc[r] = "suspend" /\ pc' = [pc EXCEPT ![r] = "readback"]
        /\ frozen' = [frozen EXCEPT ![r] = TRUE]
        /\ UNCHANGED <<waiting, worked, excused, byHand>>
    BY <1>1 DEF Suspend, At
  <2> QED
    BY <2>2, <2>3 DEF IInv, TypeOK, Steps, WorkLeft, HoldIsLookedAfter, MarkedByItsPatch, OwnUnlessBehind, HeldMidUnit
<1>2. CASE SuspendLost(r)
  <2>1. Patch(r, TRUE)
    BY <1>2 DEF SuspendLost
  <2>2. /\ suspended' = TRUE /\ holder' \in Runs \cup {Owner, Nobody} /\ holder' # Nobody
        /\ holder' = IF suspended THEN holder ELSE r
        /\ lifted' \in [Runs -> BOOLEAN] /\ behind' \in [Runs -> BOOLEAN]
        /\ \A o \in Runs : lifted'[o] <=> lifted[o]
        /\ \A o \in Runs : behind'[o] <=> (behind[o] \/ (o # r /\ pc[o] \notin {"idle", "read", "ended"}))
    BY <1>0, <2>1, PatchTyped
  <2>3. PICK then \in {"ended", "thaw"} : pc[r] = "suspend" /\ pc' = [pc EXCEPT ![r] = then]
    BY <1>2, FailureLeads DEF SuspendLost, At
  <2>4. excused' = [excused EXCEPT ![r] = TRUE] /\ UNCHANGED <<waiting, frozen, worked, byHand>>
    BY <1>2 DEF SuspendLost
  <2> QED
    BY <2>2, <2>3, <2>4 DEF IInv, TypeOK, Steps, WorkLeft, HoldIsLookedAfter, MarkedByItsPatch, OwnUnlessBehind, HeldMidUnit
<1>3. CASE Thaw(r)
  <2>1. /\ pc[r] = "thaw" /\ pc' = [pc EXCEPT ![r] = "lifted"]
        /\ UNCHANGED <<waiting, frozen, worked, excused, byHand>>
    BY <1>3 DEF Thaw, At
  <2>2. CASE frozen[r]
    <3>1. Patch(r, FALSE)
      BY <1>3, <2>2 DEF Thaw
    <3>2. /\ suspended' = FALSE /\ holder' = Nobody
          /\ lifted' \in [Runs -> BOOLEAN] /\ behind' \in [Runs -> BOOLEAN]
          /\ \A o \in Runs : lifted'[o] <=> (lifted[o] \/ o # r)
          /\ \A o \in Runs : behind'[o] <=> (behind[o] \/ (o # r /\ pc[o] \notin {"idle", "read", "ended"}))
      BY <1>0, <3>1, PatchTyped
    <3>3. TypeOK' /\ behind' \in [Runs -> BOOLEAN]
      BY <2>1, <3>2 DEF IInv, TypeOK, Steps
    <3>4. WorkLeft' /\ HoldIsLookedAfter' /\ MarkedByItsPatch'
      BY <2>1, <3>2 DEF IInv, TypeOK, WorkLeft, HoldIsLookedAfter, MarkedByItsPatch
    <3>5. OwnUnlessBehind'
      BY <2>1, <3>2 DEF IInv, TypeOK, OwnUnlessBehind
    <3>6. HeldMidUnit'
      BY <2>1, <3>2 DEF IInv, TypeOK, HeldMidUnit
    <3> QED
      BY <3>3, <3>4, <3>5, <3>6 DEF IInv
  <2>3. CASE ~frozen[r]
    <3>1. UNCHANGED <<suspended, holder, lifted, behind>>
      BY <1>3, <2>3 DEF Thaw, source
    <3> QED
      BY <2>1, <2>3, <3>1 DEF IInv, TypeOK, Steps, WorkLeft, HoldIsLookedAfter, MarkedByItsPatch, OwnUnlessBehind, HeldMidUnit
  <2> QED
    BY <2>2, <2>3
<1> QED
  BY <1>1, <1>2, <1>3

\* The owner's patches, and what Flux does.
LEMMA EnvironmentIInv ==
    ASSUME IInv, OwnerSuspends \/ OwnerResumes \/ Merge \/ Deploy
    PROVE  IInv'
<1> USE HoldAssumption
<1>0. TypeOK /\ behind \in [Runs -> BOOLEAN] /\ Owner \notin Runs /\ Owner # Nobody
  BY DEF IInv, Owner, Nobody
<1>1. ASSUME NEW on \in BOOLEAN, Patch(Owner, on), byHand' \in 0..MaxByHand,
             UNCHANGED <<waiting, pc, frozen, worked, excused>>, on = ~suspended
      PROVE  IInv'
  <2>1. /\ suspended' = on /\ holder' = IF on THEN Owner ELSE Nobody
        /\ lifted' \in [Runs -> BOOLEAN] /\ behind' \in [Runs -> BOOLEAN]
        /\ \A o \in Runs : lifted'[o] <=> (lifted[o] \/ ~on)
        /\ \A o \in Runs : behind'[o] <=> (behind[o] \/ pc[o] \notin {"idle", "read", "ended"})
    BY <1>0, <1>1, PatchTyped
  <2> QED
    BY <1>0, <1>1, <2>1 DEF IInv, TypeOK, Steps, WorkLeft, HoldIsLookedAfter, MarkedByItsPatch, OwnUnlessBehind, HeldMidUnit
<1>2. CASE OwnerSuspends
  <2>1. /\ Patch(Owner, TRUE) /\ suspended = FALSE
        /\ UNCHANGED <<waiting, pc, frozen, worked, excused>>
    BY <1>2, <1>0 DEF OwnerSuspends, TypeOK
  <2>2. byHand' \in 0..MaxByHand
    BY <1>2, <1>0 DEF OwnerSuspends, TypeOK
  <2> QED
    BY <1>1, <2>1, <2>2, Zenon
<1>3. CASE OwnerResumes
  <2>1. /\ Patch(Owner, FALSE) /\ suspended = TRUE
        /\ UNCHANGED <<waiting, pc, frozen, worked, excused>>
    BY <1>3, <1>0 DEF OwnerResumes, TypeOK
  <2>2. byHand' \in 0..MaxByHand
    BY <1>3, <1>0 DEF OwnerResumes, TypeOK
  <2> QED
    BY <1>1, <2>1, <2>2, Zenon
<1>4. CASE Merge \/ Deploy
  <2>1. waiting' \in BOOLEAN /\ UNCHANGED <<source, pc, frozen, worked, excused, byHand>>
    BY <1>4 DEF Merge, Deploy
  <2> QED
    BY <2>1 DEF source, IInv, TypeOK, Steps, WorkLeft, HoldIsLookedAfter, MarkedByItsPatch, OwnUnlessBehind, HeldMidUnit
<1> QED
  BY <1>2, <1>3, <1>4

LEMMA NextIInv == IInv /\ [Next]_vars => IInv'
<1> SUFFICES ASSUME IInv, [Next]_vars PROVE IInv'
  OBVIOUS
<1>1. ASSUME NEW r \in Runs, RunStep(r) PROVE IInv'
  BY <1>1, LookingStepsIInv, PatchingStepsIInv DEF RunStep
<1>2. CASE UNCHANGED vars
  BY <1>2 DEF vars, source, IInv, TypeOK, Steps, WorkLeft, HoldIsLookedAfter, MarkedByItsPatch, OwnUnlessBehind, HeldMidUnit
<1> QED
  BY <1>1, <1>2, EnvironmentIInv DEF Next

LEMMA Invariance == Spec => []IInv
BY InitIInv, NextIInv, PTL DEF Spec

-----------------------------------------------------------------------------
(* The theorems.                                                           *)

\* The source, the runs and what they look back on keep their types, and a
\* suspended source always has a holder: the bookkeeping of flux-freeze.yml
\* and flux-thaw.yml never loses whose hold it is.
THEOREM TypesHold == Spec => []TypeOK
<1>1. IInv => TypeOK
  BY DEF IInv
<1> QED
  BY <1>1, Invariance, PTL

\* A run whose failures all reach the clean-up (talos-reboot.yml's rescue)
\* leaves no hold of its own behind when it ends, whichever step failed and
\* whatever the owner and other runs of either playbook patched meanwhile,
\* unless it was cut off, lost its own patch's answer or said so.
THEOREM TalosHoldEnds ==
    Spec => [](\A r \in Runs :
                  (Playbook[r] = "talos" /\ pc[r] = "ended" /\ ~excused[r]) => holder # r)
<1>1. IInv => \A r \in Runs :
                  (Playbook[r] = "talos" /\ pc[r] = "ended" /\ ~excused[r]) => holder # r
  BY DEF IInv, HoldIsLookedAfter
<1> QED
  BY <1>1, Invariance, PTL

\* A Proxmox run that did a unit of work leaves none behind either: only a
\* failure before its hosts' play, which nothing rescues, does.
THEOREM ProxmoxHoldEnds ==
    Spec => [](\A r \in Runs :
                  (worked[r] > 0 /\ pc[r] = "ended" /\ ~excused[r]) => holder # r)
<1>1. IInv => \A r \in Runs :
                  (worked[r] > 0 /\ pc[r] = "ended" /\ ~excused[r]) => holder # r
  BY DEF IInv, HoldIsLookedAfter
<1> QED
  BY <1>1, Invariance, PTL

\* HoldEndsWithTheRun itself, where every run is talos-reboot.yml's.
THEOREM HoldEnds ==
    ASSUME \A r \in Runs : Playbook[r] = "talos"
    PROVE  Spec => []HoldEndsWithTheRun
<1>1. IInv => HoldEndsWithTheRun
  BY DEF IInv, HoldIsLookedAfter, HoldEndsWithTheRun
<1> QED
  BY <1>1, Invariance, PTL

\* A run that resumes a suspended source resumes a hold of its own, or one
\* that somebody else patched after the run had read the source.
THEOREM OnlyItsOwnLifted == Spec => LiftsOnlyItsOwn
<1> DEFINE Own == \A r \in Runs : (pc[r] = "thaw" /\ pc'[r] = "lifted" /\ suspended /\ ~suspended') =>
                                     holder = r \/ behind[r]
<1>1. IInv /\ [Next]_vars => [Own]_vars
  <2> SUFFICES ASSUME IInv, Next, NEW r \in Runs,
                      pc[r] = "thaw", pc'[r] = "lifted", suspended, ~suspended'
               PROVE  holder = r \/ behind[r]
    BY Zenon
  <2>1. PICK q \in Runs : Thaw(q) /\ frozen[q]
    BY DEF Next, RunStep, Start, ReadSource, Suspend, SuspendLost, ReadBack, StillHeld, Work, StepFails,
       Unreachable, Thaw, ThawRefused, ReadLifted, Killed, OwnerSuspends, OwnerResumes, Merge, Deploy,
       Patch, source
  <2>2. q = r
    BY <2>1 DEF Thaw, At, IInv, TypeOK
  <2> QED
    BY <2>1, <2>2 DEF IInv, OwnUnlessBehind
<1>2. Spec => [][Own]_vars
  BY <1>1, Invariance, PTL DEF Spec
<1> QED
  BY <1>2 DEF LiftsOnlyItsOwn

\* Nothing that is merged is deployed while a run is in the middle of a unit,
\* unless somebody else resumed the source during that unit: the look before
\* each unit (flux-held.yml) is enough.
THEOREM NoDeployMidUnit == Spec => NothingDeploysMidUnit
<1> DEFINE Quiet == (waiting /\ ~waiting') => \A r \in Runs : pc[r] = "work" => lifted[r]
<1>1. IInv /\ [Next]_vars => [Quiet]_vars
  <2> SUFFICES ASSUME IInv, Next, waiting, ~waiting', NEW r \in Runs, pc[r] = "work"
               PROVE  lifted[r]
    BY Zenon
  <2>1. ~suspended
    BY DEF Next, RunStep, Start, ReadSource, Suspend, SuspendLost, ReadBack, StillHeld, Work, StepFails,
       Unreachable, Thaw, ThawRefused, ReadLifted, Killed, OwnerSuspends, OwnerResumes, Merge, Deploy
  <2> QED
    BY <2>1 DEF IInv, HeldMidUnit
<1>2. Spec => [][Quiet]_vars
  BY <1>1, Invariance, PTL DEF Spec
<1> QED
  BY <1>2 DEF NothingDeploysMidUnit
=============================================================================
