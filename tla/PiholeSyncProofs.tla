------------------------- MODULE PiholeSyncProofs -------------------------
(***************************************************************************)
(* Theorems of PiholeSync, for any names, zones, records, Pi-holes and     *)
(* faults: its types, that no name is forgotten during a visit, that       *)
(* foreign lines are left alone, that sessions are given back, that a      *)
(* clean round left every Pi-hole in step, and that the sync implements    *)
(* DnsMirror.                                                              *)
(*                                                                         *)
(* The argument: the lemmas say what plan() answers for any lines; the     *)
(* inductive invariant IInv carries that over the calls of a visit, in     *)
(* terms of the lines that will be left when the removals are done.        *)
(***************************************************************************)
EXTENDS PiholeSync, TLAPS

-----------------------------------------------------------------------------
(* Lines and answers.                                                      *)

\* The line plan() adds for an answer is well formed and gives that answer
\* and no other.
LEMMA LineForAnswer ==
    ASSUME NEW a \in Answer
    PROVE  LineFor(a) \in Line /\ Answers(LineFor(a)) = {a}
<1>1. LineFor(a) \in Line
  BY DEF LineFor, Line, Answer
<1>2. Answers(LineFor(a)) = {[list |-> a.list, name |-> a.name, value |-> a.value]}
  BY DEF Answers, LineFor
<1>3. a = [list |-> a.list, name |-> a.name, value |-> a.value]
  BY DEF Answer
<1> QED
  BY <1>1, <1>2, <1>3

\* What a set of well-formed lines answers is well formed.
LEMMA AnswersType ==
    ASSUME NEW ls \in SUBSET Line
    PROVE  AnswersOf(ls) \in SUBSET Answer
BY DEF AnswersOf, Answers, Line, Answer

\* What the plan removes is some of the lines read; what it adds is well formed.
LEMMA PlanType ==
    ASSUME NEW ls \in SUBSET Line, NEW zs, NEW ws \in SUBSET Answer
    PROVE  /\ ToRemove(ls, zs, ws) \in SUBSET ls
           /\ ToAdd(ls, zs, ws) \in SUBSET Line
<1>1. ToRemove(ls, zs, ws) \subseteq ls
  BY DEF ToRemove, Mine, OneName
<1>2. ToReadd(ls, zs, ws) \subseteq Answer
  BY AnswersType, Mine(ls, zs) \ OneName(Mine(ls, zs)) \in SUBSET Line
     DEF ToReadd, Mine
<1>3. \A a \in ws \cup ToReadd(ls, zs, ws) : LineFor(a) \in Line
  BY <1>2, LineForAnswer
<1> QED
  BY <1>1, <1>3 DEF ToAdd

\* Every answer of the lines read may be dropped, stays on a line the plan
\* does not remove, or is on a line the plan adds.
LEMMA PlanForgetsNothing ==
    ASSUME NEW ls \in SUBSET Line, NEW zs, NEW ws \in SUBSET Answer,
           NEW a \in AnswersOf(ls)
    PROVE  \/ Delete /\ InZone(a.name, zs) /\ a \notin ws
           \/ a \in AnswersOf(ls \ ToRemove(ls, zs, ws))
           \/ LineFor(a) \in ToAdd(ls, zs, ws)
<1> DEFINE mine == Mine(ls, zs)
           shared == mine \ OneName(mine)
           have == AnswersOf(OneName(mine)) \cap ws
<1>1. PICK l \in ls : a \in Answers(l)
  BY DEF AnswersOf
<1>2. CASE l \notin ToRemove(ls, zs, ws)
  BY <1>1, <1>2 DEF AnswersOf
<1>3. CASE l \in OneName(mine) /\ Delete /\ ~(Answers(l) \subseteq ws)
  <2>1. PICK n \in Names : l.names = {n}
    <3>1. PICK n \in l.names : l.names = {n}
      BY <1>3 DEF OneName
    <3> QED
      BY <3>1 DEF Line
  <2>2. Answers(l) = {a} /\ a.name = n
    BY <1>1, <2>1 DEF Answers
  <2>3. InZone(n, zs)
    BY <1>3, <2>1 DEF OneName, Mine
  <2> QED
    BY <1>3, <2>2, <2>3
<1>4. CASE l \in shared
  <2>1. a \in AnswersOf(shared)
    BY <1>1, <1>4 DEF AnswersOf
  <2>2. CASE a \in ToReadd(ls, zs, ws) /\ a \notin have
    BY <2>2 DEF ToAdd
  <2>3. CASE a \in have
    <3>1. PICK m \in OneName(mine) : a \in Answers(m)
      BY <2>3 DEF AnswersOf
    <3>2. m.names = {a.name}
      BY <3>1 DEF OneName, Answers
    <3>3. Answers(m) = {a}
      BY <3>1, <3>2 DEF Answers
    <3>4. m \in ls \ ToRemove(ls, zs, ws)
      BY <2>3, <3>1, <3>3 DEF ToRemove, OneName, Mine
    <3> QED
      BY <3>1, <3>4 DEF AnswersOf
  <2>4. CASE a \notin ToReadd(ls, zs, ws)
    BY <2>1, <2>4 DEF ToReadd
  <2> QED
    BY <2>2, <2>3, <2>4
<1> QED
  BY <1>2, <1>3, <1>4 DEF ToRemove

\* What the plan removes has a name in a zone, and when it has one name only
\* NetBox lacks it and deletes are on.
LEMMA PlanRemovesOwnOnly ==
    ASSUME NEW ls, NEW zs, NEW ws, NEW l \in ToRemove(ls, zs, ws)
    PROVE  /\ \E n \in l.names : InZone(n, zs)
           /\ l \in OneName({l}) => Delete /\ ~(Answers(l) \subseteq ws)
BY DEF ToRemove, Mine, OneName

-----------------------------------------------------------------------------
(* The inductive invariant.                                                *)

\* A visit that got past its login holds a session.
SessionHeld == pc \in {"change", "close"} => sessions[at] >= 1

\* NothingForgotten, told of the lines that will be left when every removal
\* is done: what makes it hold after each of them.
KeptByThePlan ==
    pc = "change" =>
        \A a \in AnswersOf(read) :
            \/ MayDrop(a)
            \/ a \in AnswersOf(lines[at] \ rm)
            \/ LineFor(a) \in add

\* What is left to remove is in a zone, and if of one name not NetBox's.
RemovesOwnOnly ==
    pc = "change" =>
        \A l \in rm :
            /\ \E n \in l.names : InZone(n, seen)
            /\ l \in OneName({l}) => Delete /\ ~(Answers(l) \subseteq wanted)

IInv == TypeOK /\ SessionHeld /\ KeptByThePlan /\ RemovesOwnOnly

\* The invariant holds before the first call.
LEMMA InitIInv == Init => IInv
<1> SUFFICES ASSUME Init PROVE IInv
  OBVIOUS
<1> USE ConstantsAssumption
<1>1. lines \in [Piholes -> SUBSET Line]
  BY DEF Init
<1>2. sessions \in [Piholes -> 0..MaxSessions] /\ at \in Piholes
  BY DEF Init, Piholes
<1>3. edits \in 0..MaxEdits /\ faults \in 0..MaxFaults
  BY DEF Init
<1>4. ok \in BOOLEAN
  BY DEF Init
<1>5. TypeOK
  BY <1>1, <1>2, <1>3, <1>4 DEF Init, TypeOK
<1> QED
  BY <1>5 DEF Init, IInv, SessionHeld, KeptByThePlan, RemovesOwnOnly

\* The plan made by ReadLists establishes the parts about a visit.
LEMMA ReadListsIInv == IInv /\ ReadLists => IInv'
<1> SUFFICES ASSUME IInv, ReadLists PROVE IInv'
  OBVIOUS
<1> USE ConstantsAssumption
<1> DEFINE ls == lines[at]
<1>1. ls \in SUBSET Line /\ wanted \in SUBSET Answer
  BY DEF IInv, TypeOK
<1>2. read' = ls /\ rm' = ToRemove(ls, seen, wanted) /\ add' = ToAdd(ls, seen, wanted)
  BY DEF ReadLists
<1>3. rm' \subseteq ls /\ add' \subseteq Line
  BY <1>1, <1>2, PlanType
<1>4. sessions' \in [Piholes -> 0..MaxSessions] /\ sessions'[at] >= 1
  BY DEF IInv, TypeOK, ReadLists
<1>5. pc' \in {"change", "close"} /\ ok' \in BOOLEAN
  BY DEF IInv, TypeOK, ReadLists, EndVisit
<1>6. UNCHANGED <<zones, records, lines, at, seen, wanted, edits, faults>>
  BY DEF ReadLists, netboxVars, NoFault
<1>7. TypeOK'
  BY <1>1, <1>2, <1>3, <1>4, <1>5, <1>6 DEF IInv, TypeOK
<1>8. SessionHeld'
  BY <1>4, <1>6 DEF SessionHeld
<1>9. KeptByThePlan'
  BY <1>1, <1>2, <1>6, PlanForgetsNothing DEF KeptByThePlan, MayDrop
<1>10. RemovesOwnOnly'
  BY <1>2, <1>6, PlanRemovesOwnOnly DEF RemovesOwnOnly
<1> QED
  BY <1>7, <1>8, <1>9, <1>10 DEF IInv

\* A removal leaves what will be left unchanged; an addition, made when all
\* removals are done, puts a missing answer on the Pi-hole.
LEMMA ChangeIInv == IInv /\ Change => IInv'
<1> SUFFICES ASSUME IInv, Change PROVE IInv'
  OBVIOUS
<1>1. PICK l \in rm \cup add : Remove(l) \/ Add(l)
  BY DEF Change
<1>2. UNCHANGED <<zones, records, edits, faults, sessions, at, seen, wanted, ok, pc, read>>
  BY DEF Change, netboxVars, roundVars, NoFault
<1>3. pc = "change" /\ l \in Line
  BY <1>1 DEF Change, IInv, TypeOK
<1>4. lines \in [Piholes -> SUBSET Line] /\ at \in Piholes
  BY DEF IInv, TypeOK
<1>5. CASE Remove(l)
  <2>1. l \in rm /\ rm' = rm \ {l} /\ add' = add /\ lines' = [lines EXCEPT ![at] = @ \ {l}]
    BY <1>5 DEF Remove, NextOf
  <2>2. TypeOK'
    BY <1>2, <1>4, <2>1 DEF IInv, TypeOK
  <2>3. lines'[at] \ rm' = lines[at] \ rm
    BY <1>4, <2>1
  <2>4. KeptByThePlan'
    BY <1>2, <1>3, <2>1, <2>3 DEF IInv, KeptByThePlan, MayDrop
  <2>5. RemovesOwnOnly'
    BY <1>2, <1>3, <2>1 DEF IInv, RemovesOwnOnly
  <2> QED
    BY <1>2, <2>2, <2>4, <2>5 DEF IInv, SessionHeld
<1>6. CASE Add(l)
  <2>1. /\ l \in add /\ rm = {} /\ rm' = rm /\ add' = add \ {l}
        /\ lines' = [lines EXCEPT ![at] = @ \cup {l}]
    BY <1>6 DEF Add, NextOf
  <2>2. TypeOK'
    BY <1>2, <1>3, <1>4, <2>1 DEF IInv, TypeOK
  <2>3. lines'[at] \ rm' = lines[at] \cup {l}
    BY <1>4, <2>1
  <2>4. ASSUME NEW a \in AnswersOf(read)
        PROVE  MayDrop(a) \/ a \in AnswersOf(lines[at] \cup {l}) \/ LineFor(a) \in add \ {l}
    <3>1. a \in Answer
      BY AnswersType DEF IInv, TypeOK
    <3>2. MayDrop(a) \/ a \in AnswersOf(lines[at] \ rm) \/ LineFor(a) \in add
      BY <1>3 DEF IInv, KeptByThePlan
    <3>3. ASSUME LineFor(a) = l PROVE a \in AnswersOf(lines[at] \cup {l})
      BY <3>1, <3>3, LineForAnswer DEF AnswersOf
    <3> QED
      BY <3>2, <3>3 DEF AnswersOf
  <2>5. KeptByThePlan'
    BY <1>2, <2>1, <2>3, <2>4 DEF KeptByThePlan, MayDrop
  <2>6. RemovesOwnOnly'
    BY <2>1 DEF RemovesOwnOnly
  <2> QED
    BY <1>2, <2>2, <2>5, <2>6 DEF IInv, SessionHeld
<1> QED
  BY <1>1, <1>5, <1>6

\* A change that fails ends the visit, whose plan is dropped.
LEMMA ChangeFailsIInv == IInv /\ ChangeFails => IInv'
<1> SUFFICES ASSUME IInv, ChangeFails PROVE IInv'
  OBVIOUS
<1> USE ConstantsAssumption
<1>1. faults' \in 0..MaxFaults
  BY DEF ChangeFails, Fault, IInv, TypeOK
<1>2. pc = "change" /\ pc' = "close" /\ ok' \in BOOLEAN /\ rm' = {} /\ add' = {}
  BY DEF ChangeFails, EndVisit, IInv, TypeOK
<1>3. UNCHANGED <<zones, records, edits, lines, sessions, at, seen, wanted, read>>
  BY DEF ChangeFails, netboxVars, piholeVars
<1>4. TypeOK'
  BY <1>1, <1>2, <1>3 DEF IInv, TypeOK
<1> QED
  BY <1>2, <1>3, <1>4 DEF IInv, SessionHeld, KeptByThePlan, RemovesOwnOnly

\* Leaving a visit, or never getting into it, goes to a Pi-hole there is.
LEMMA NextPiholeType ==
    ASSUME TypeOK, NextPihole
    PROVE  at' \in Piholes /\ pc' \in {"login", "zones"}
BY ConstantsAssumption DEF TypeOK, NextPihole, Piholes

\* The remaining steps start no visit and change no line.
LEMMA OtherStepsIInv ==
    ASSUME IInv,
           \/ ReadZones \/ ReadRecords \/ NetBoxRefuses \/ LoginRefused
           \/ ReadBack \/ Close \/ Crash
    PROVE  IInv'
<1> USE ConstantsAssumption
<1>1. CASE ReadZones
  BY <1>1 DEF ReadZones, NoFault, netboxVars, piholeVars, visitVars,
     IInv, TypeOK, SessionHeld, KeptByThePlan, RemovesOwnOnly
<1>2. CASE ReadRecords
  <2>1. wanted' \subseteq Answer
    BY <1>2 DEF ReadRecords, WantedFrom, RecordAnswer, Answer, IInv, TypeOK
  <2>2. at' \in Piholes
    BY <1>2 DEF ReadRecords, Piholes
  <2>3. ok' \in BOOLEAN /\ pc' \in {"zones", "login"}
    BY <1>2 DEF ReadRecords
  <2>4. UNCHANGED <<zones, records, edits, lines, sessions, read, rm, add, seen, faults>>
    BY <1>2 DEF ReadRecords, NoFault, netboxVars, piholeVars, visitVars
  <2> QED
    BY <2>1, <2>2, <2>3, <2>4
       DEF IInv, TypeOK, SessionHeld, KeptByThePlan, RemovesOwnOnly
<1>3. CASE NetBoxRefuses
  <2>1. faults' \in 0..MaxFaults
    BY <1>3 DEF NetBoxRefuses, Fault, IInv, TypeOK
  <2>2. ok' \in BOOLEAN /\ pc' = "zones"
    BY <1>3 DEF NetBoxRefuses
  <2>3. UNCHANGED <<zones, records, edits, lines, sessions, read, rm, add, at, seen, wanted>>
    BY <1>3 DEF NetBoxRefuses, netboxVars, piholeVars, visitVars
  <2> QED
    BY <2>1, <2>2, <2>3 DEF IInv, TypeOK, SessionHeld, KeptByThePlan, RemovesOwnOnly
<1>4. CASE LoginRefused
  <2>1. at' \in Piholes /\ pc' \in {"login", "zones"}
    BY <1>4, NextPiholeType DEF LoginRefused, IInv
  <2>2. sessions' \in [Piholes -> 0..MaxSessions] /\ faults' \in 0..MaxFaults
    BY <1>4 DEF LoginRefused, Fault, NoFault, IInv, TypeOK
  <2>3. ok' \in BOOLEAN /\ UNCHANGED <<zones, records, edits, lines, read, rm, add, seen, wanted>>
    BY <1>4 DEF LoginRefused, netboxVars, visitVars
  <2> QED
    BY <2>1, <2>2, <2>3 DEF IInv, TypeOK, SessionHeld, KeptByThePlan, RemovesOwnOnly
<1>5. CASE ReadBack
  BY <1>5 DEF ReadBack, EndVisit, NoFault, netboxVars, piholeVars, visitVars,
     IInv, TypeOK, SessionHeld, KeptByThePlan, RemovesOwnOnly
<1>6. CASE Close
  <2>1. at' \in Piholes /\ pc' \in {"login", "zones"}
    BY <1>6, NextPiholeType DEF Close, IInv
  <2>2. sessions' \in [Piholes -> 0..MaxSessions] /\ faults' \in 0..MaxFaults
    BY <1>6 DEF Close, Fault, NoFault, IInv, TypeOK, SessionHeld
  <2>3. /\ read' = {} /\ rm' = {} /\ add' = {}
        /\ UNCHANGED <<zones, records, edits, lines, seen, wanted, ok>>
    BY <1>6 DEF Close, netboxVars
  <2> QED
    BY <2>1, <2>2, <2>3 DEF IInv, TypeOK, SessionHeld, KeptByThePlan, RemovesOwnOnly
<1>7. CASE Crash
  <2>1. faults' \in 0..MaxFaults
    BY <1>7 DEF Crash, Fault, IInv, TypeOK
  <2>2. ok' \in BOOLEAN /\ pc' = "zones" /\ read' = {} /\ rm' = {} /\ add' = {}
    BY <1>7 DEF Crash
  <2>3. UNCHANGED <<zones, records, edits, lines, sessions, at, seen, wanted>>
    BY <1>7 DEF Crash, netboxVars, piholeVars
  <2> QED
    BY <2>1, <2>2, <2>3 DEF IInv, TypeOK, SessionHeld, KeptByThePlan, RemovesOwnOnly
<1> QED
  BY <1>1, <1>2, <1>3, <1>4, <1>5, <1>6, <1>7

\* NetBox's owner and the Pi-holes' own timeouts do not disturb a visit.
LEMMA EnvironmentIInv ==
    ASSUME IInv, EditRecord \/ EditZone \/ \E p \in Piholes : SessionLapses(p)
    PROVE  IInv'
<1> USE ConstantsAssumption
<1>1. CASE EditRecord
  <2>1. edits' \in 0..MaxEdits
    BY <1>1 DEF EditRecord, IInv, TypeOK
  <2>2. records' \subseteq Records
    BY <1>1 DEF EditRecord, IInv, TypeOK
  <2>3. UNCHANGED <<zones, lines, sessions, read, rm, add, at, seen, wanted, ok, pc, faults>>
    BY <1>1 DEF EditRecord, piholeVars, visitVars, roundVars
  <2>4. TypeOK'
    BY <2>1, <2>2, <2>3 DEF IInv, TypeOK
  <2> QED
    BY <2>3, <2>4 DEF IInv, SessionHeld, KeptByThePlan, RemovesOwnOnly, MayDrop
<1>2. CASE EditZone
  <2>1. edits' \in 0..MaxEdits
    BY <1>2 DEF EditZone, IInv, TypeOK
  <2>2. zones' \subseteq Zones
    BY <1>2 DEF EditZone, IInv, TypeOK
  <2>3. UNCHANGED <<records, lines, sessions, read, rm, add, at, seen, wanted, ok, pc, faults>>
    BY <1>2 DEF EditZone, piholeVars, visitVars, roundVars
  <2>4. TypeOK'
    BY <2>1, <2>2, <2>3 DEF IInv, TypeOK
  <2> QED
    BY <2>3, <2>4 DEF IInv, SessionHeld, KeptByThePlan, RemovesOwnOnly, MayDrop
<1>3. ASSUME NEW p \in Piholes, SessionLapses(p) PROVE IInv'
  <2>1. /\ sessions[p] \in 0..MaxSessions /\ sessions[p] > InUse(p)
        /\ sessions' = [sessions EXCEPT ![p] = @ - 1]
    BY <1>3 DEF SessionLapses, IInv, TypeOK
  <2>2. sessions[p] - 1 \in 0..MaxSessions
    BY <2>1 DEF InUse
  <2>3. UNCHANGED <<zones, records, edits, lines, read, rm, add, at, seen, wanted, ok, pc, faults>>
    BY <1>3 DEF SessionLapses, netboxVars, visitVars, roundVars
  <2>4. TypeOK'
    BY <2>1, <2>2, <2>3 DEF IInv, TypeOK
  <2>5. SessionHeld'
    <3>1. SUFFICES ASSUME pc \in {"change", "close"} PROVE sessions'[at] >= 1
      BY <2>3 DEF SessionHeld
    <3>2. sessions \in [Piholes -> 0..MaxSessions] /\ at \in Piholes
      BY DEF IInv, TypeOK
    <3>3. CASE p = at
      <4>1. sessions[at] > 1
        BY <2>1, <3>1, <3>3 DEF InUse
      <4>2. sessions'[at] = sessions[at] - 1
        BY <2>1, <3>2, <3>3
      <4> QED
        BY <3>2, <4>1, <4>2
    <3>4. CASE p # at
      BY <2>1, <3>1, <3>2, <3>4 DEF IInv, SessionHeld
    <3> QED
      BY <3>3, <3>4
  <2> QED
    BY <2>3, <2>4, <2>5 DEF IInv, KeptByThePlan, RemovesOwnOnly, MayDrop
<1> QED
  BY <1>1, <1>2, <1>3

\* Every step keeps the invariant.
LEMMA NextIInv == IInv /\ [Next]_vars => IInv'
<1> SUFFICES ASSUME IInv, [Next]_vars PROVE IInv'
  OBVIOUS
<1>1. CASE Sync
  BY <1>1, ReadListsIInv, ChangeIInv, ChangeFailsIInv, OtherStepsIInv DEF Sync
<1>2. CASE EditRecord \/ EditZone \/ \E p \in Piholes : SessionLapses(p)
  BY <1>2, EnvironmentIInv
<1>3. CASE UNCHANGED vars
  BY <1>3 DEF vars, netboxVars, piholeVars, visitVars, roundVars,
     IInv, TypeOK, SessionHeld, KeptByThePlan, RemovesOwnOnly, MayDrop
<1> QED
  BY <1>1, <1>2, <1>3 DEF Next

\* The invariant holds in every state of the sync.
THEOREM Invariance == Spec => []IInv
BY InitIInv, NextIInv, PTL DEF Spec

\* The state of the sync is well formed, whatever is edited and whatever
\* fails: a visit is always to a Pi-hole there is, no more sessions are open
\* than a Pi-hole allows and none is given back twice.
THEOREM TypeCorrect == Spec => []TypeOK
<1>1. IInv => TypeOK
  BY DEF IInv
<1> QED
  BY <1>1, Invariance, PTL

\* During a visit of sync_one no name is forgotten.
THEOREM NoNameForgotten == Spec => []NothingForgotten
<1>1. IInv => NothingForgotten
  BY DEF IInv, KeptByThePlan, NothingForgotten, AnswersOf
<1> QED
  BY <1>1, Invariance, PTL

\* Lines that are not the sync's stay on every Pi-hole in every round,
\* whatever fails.
THEOREM ForeignLinesStay == Spec => ForeignLinesUntouched
<1> DEFINE Foreign ==
        \A p \in Piholes : \A l \in lines[p] \ lines'[p] :
           /\ \E n \in l.names : InZone(n, seen)
           /\ l \in OneName(lines[p]) => Delete /\ ~(Answers(l) \subseteq wanted)
<1>1. IInv /\ [Next]_vars => [Foreign]_vars
  <2> SUFFICES ASSUME IInv, Next, NEW p \in Piholes, NEW l \in lines[p] \ lines'[p]
               PROVE  /\ \E n \in l.names : InZone(n, seen)
                      /\ l \in OneName(lines[p]) => Delete /\ ~(Answers(l) \subseteq wanted)
    BY Zenon
  <2>1. lines \in [Piholes -> SUBSET Line] /\ at \in Piholes
    BY DEF IInv, TypeOK
  <2>2. lines' # lines
    OBVIOUS
  <2>3. Change
    BY <2>2 DEF Next, Sync, ReadZones, ReadRecords, NetBoxRefuses, ReadLists, LoginRefused,
       ReadBack, ChangeFails, Close, Crash, EditRecord, EditZone, SessionLapses,
       piholeVars
  <2>4. pc = "change" /\ l \in rm
    BY <2>1, <2>3 DEF Change, Remove, Add, NextOf
  <2>5. l \in OneName(lines[p]) => l \in OneName({l})
    BY DEF OneName
  <2> QED
    BY <2>4, <2>5 DEF IInv, RemovesOwnOnly
<1>2. Spec => [][Foreign]_vars
  BY <1>1, Invariance, PTL DEF Spec
<1> QED
  BY <1>2 DEF ForeignLinesUntouched

-----------------------------------------------------------------------------
(* Sessions.                                                               *)

\* A login that succeeds is in use until its visit ends, and every session
\* that stays open after that was paid for by a fault.
LEMMA SessionsStep == IInv /\ SessionsGivenBack /\ [Next]_vars => SessionsGivenBack'
<1> SUFFICES ASSUME IInv, SessionsGivenBack, [Next]_vars, NEW p \in Piholes
             PROVE  sessions'[p] <= InUse(p)' + faults'
  BY DEF SessionsGivenBack
<1>t. /\ sessions \in [Piholes -> 0..MaxSessions] /\ at \in Piholes /\ faults \in Nat
      /\ sessions[p] <= InUse(p) + faults /\ InUse(p) \in {0, 1} /\ InUse(p)' \in {0, 1}
  BY ConstantsAssumption DEF IInv, TypeOK, SessionsGivenBack, InUse
<1>1. CASE ReadZones \/ ReadRecords \/ NetBoxRefuses \/ EditRecord \/ EditZone
  <2>1. sessions' = sessions /\ InUse(p)' = InUse(p) /\ faults' >= faults /\ faults' \in Nat
    BY <1>1, <1>t DEF ReadZones, ReadRecords, NetBoxRefuses, EditRecord, EditZone, NoFault, Fault,
       piholeVars, roundVars, InUse
  <2> QED
    BY <1>t, <2>1
<1>2. CASE ReadLists
  <2>1. /\ sessions' = [sessions EXCEPT ![at] = @ + 1] /\ faults' = faults /\ at' = at
        /\ pc = "login" /\ pc' \in {"change", "close"}
    BY <1>2 DEF ReadLists, EndVisit, NoFault
  <2> QED
    BY <1>t, <2>1 DEF InUse
<1>3. CASE LoginRefused
  <2>1. pc = "login" /\ pc' \in {"login", "zones"}
    BY <1>3, NextPiholeType DEF LoginRefused, IInv
  <2>2. \/ sessions' = sessions /\ faults' = faults
        \/ sessions' = sessions /\ faults' = faults + 1
        \/ sessions' = [sessions EXCEPT ![at] = @ + 1] /\ faults' = faults + 1
    BY <1>3 DEF LoginRefused, Fault, NoFault
  <2> QED
    BY <1>t, <2>1, <2>2 DEF InUse
<1>4. CASE Change
  <2>1. sessions' = sessions /\ pc' = pc /\ at' = at /\ faults' = faults
    BY <1>4 DEF Change, roundVars, NoFault
  <2> QED
    BY <1>t, <2>1 DEF InUse
<1>5. CASE ChangeFails \/ ReadBack
  <2>1. /\ sessions' = sessions /\ at' = at /\ faults' >= faults /\ faults' \in Nat
        /\ pc = "change" /\ pc' = "close"
    BY <1>5, <1>t DEF ChangeFails, ReadBack, EndVisit, piholeVars, Fault, NoFault
  <2> QED
    BY <1>t, <2>1 DEF InUse
<1>6. CASE Close
  <2>1. pc = "close" /\ pc' \in {"login", "zones"}
    BY <1>6, NextPiholeType DEF Close, IInv
  <2>2. \/ sessions' = [sessions EXCEPT ![at] = @ - 1] /\ faults' = faults
        \/ sessions' = sessions /\ faults' = faults + 1
    BY <1>6 DEF Close, Fault, NoFault
  <2> QED
    BY <1>t, <2>1, <2>2 DEF InUse
<1>7. CASE Crash
  <2>1. sessions' = sessions /\ faults' = faults + 1
    BY <1>7 DEF Crash, Fault, piholeVars
  <2> QED
    BY <1>t, <2>1
<1>8. ASSUME NEW q \in Piholes, SessionLapses(q) PROVE sessions'[p] <= InUse(p)' + faults'
  <2>1. sessions' = [sessions EXCEPT ![q] = @ - 1] /\ UNCHANGED <<pc, at, faults>>
    BY <1>8 DEF SessionLapses, roundVars
  <2> QED
    BY <1>t, <2>1 DEF InUse
<1>9. CASE UNCHANGED vars
  BY <1>9, <1>t DEF vars, piholeVars, roundVars, InUse
<1> QED
  BY <1>1, <1>2, <1>3, <1>4, <1>5, <1>6, <1>7, <1>8, <1>9 DEF Next, Sync

\* The sync gives back the sessions it takes: no Pi-hole keeps more of them
\* open than there were faults, beside the one in use, in any round.
THEOREM SessionsAreGivenBack == Spec => []SessionsGivenBack
<1>1. Init => SessionsGivenBack
  BY DEF Init, SessionsGivenBack, InUse
<1> QED
  BY <1>1, SessionsStep, Invariance, PTL DEF Spec

-----------------------------------------------------------------------------
(* Clean rounds.                                                           *)

\* Lines the plan has nothing to do for answer what InStep says: all that is
\* wanted, with deletes on nothing else inside a zone, each from a line of its
\* own.
LEMMA NothingToDoIsInStep ==
    ASSUME NEW ls \in SUBSET Line, NEW zs, NEW ws \in SUBSET Answer, NothingToDo(ls, zs, ws)
    PROVE  /\ ws \subseteq AnswersOf(ls)
           /\ \A a \in AnswersOf(ls) : InZone(a.name, zs) /\ Delete => a \in ws
           /\ \A l \in ls : (\E n \in l.names : InZone(n, zs)) => \E n \in Names : l.names = {n}
<1> DEFINE mine == Mine(ls, zs)
           have == AnswersOf(OneName(mine)) \cap ws
<1>1. mine \ OneName(mine) = {} /\ \A l \in OneName(mine) : Delete => Answers(l) \subseteq ws
  BY DEF NothingToDo, ToRemove
<1>2. (ws \cup ToReadd(ls, zs, ws)) \ have = {}
  BY DEF NothingToDo, ToAdd
<1>3. ws \subseteq AnswersOf(ls)
  BY <1>2 DEF AnswersOf, OneName, Mine
<1>4. ASSUME NEW a \in AnswersOf(ls), InZone(a.name, zs), Delete PROVE a \in ws
  <2>1. PICK l \in ls : a \in Answers(l)
    BY DEF AnswersOf
  <2>2. a.name \in l.names
    BY <2>1 DEF Answers
  <2> QED
    BY <1>1, <1>4, <2>1, <2>2 DEF Mine
<1>5. ASSUME NEW l \in ls, \E n \in l.names : InZone(n, zs) PROVE \E n \in Names : l.names = {n}
  <2>1. l \in OneName(mine)
    BY <1>1, <1>5 DEF Mine
  <2>2. l.names \subseteq Names
    BY DEF Line
  <2> QED
    BY <2>1, <2>2 DEF OneName
<1> QED
  BY <1>3, <1>4, <1>5

\* A round that is clean so far left the Pi-holes it has visited in step with
\* the records it read.
MirroredSoFar ==
    ok /\ Apply =>
        /\ pc # "records"
        /\ pc \in {"login", "change"} => \A p \in Piholes : p < at => InStep(p, seen, wanted)
        /\ pc = "close" => \A p \in Piholes : p <= at => InStep(p, seen, wanted)
        /\ pc = "zones" => \A p \in Piholes : InStep(p, seen, wanted)

\* The next Pi-hole is one further, and after the last one all are visited.
LEMMA NextPiholeCovers ==
    ASSUME TypeOK, NextPihole
    PROVE  \/ pc' = "login" /\ at' = at + 1
           \/ pc' = "zones" /\ \A p \in Piholes : p <= at
BY ConstantsAssumption DEF TypeOK, NextPihole, Piholes

LEMMA MirroredStep == IInv /\ MirroredSoFar /\ [Next]_vars => MirroredSoFar'
<1> SUFFICES ASSUME IInv, MirroredSoFar, [Next]_vars, ok', Apply
             PROVE  MirroredSoFar'
  BY DEF MirroredSoFar
<1>t. /\ lines \in [Piholes -> SUBSET Line] /\ at \in Piholes /\ wanted \in SUBSET Answer
      /\ Piholes \subseteq Nat
      /\ pc \in {"zones", "records", "login", "change", "close"}
  BY DEF IInv, TypeOK, Piholes
<1>1. CASE ReadZones \/ NetBoxRefuses \/ LoginRefused \/ ChangeFails \/ Crash
  BY <1>1 DEF ReadZones, NetBoxRefuses, LoginRefused, ChangeFails, EndVisit, Crash
<1>2. CASE ReadRecords
  <2>1. pc' = "login" /\ at' = 1
    BY <1>2 DEF ReadRecords
  <2>2. ~\E p \in Piholes : p < 1
    BY DEF Piholes
  <2> QED
    BY <2>1, <2>2 DEF MirroredSoFar
<1>3. CASE ReadLists
  <2>1. pc = "login" /\ ok /\ UNCHANGED <<lines, at, seen, wanted>>
    BY <1>3 DEF ReadLists, EndVisit
  <2>2. CASE pc' = "change"
    BY <2>1, <2>2 DEF MirroredSoFar, InStep
  <2>3. CASE pc' # "change"
    <3>1. pc' = "close" /\ NothingToDo(lines[at], seen, wanted)
      BY <1>3, <2>3 DEF ReadLists, EndVisit
    <3>2. InStep(at, seen, wanted)
      BY <1>t, <3>1, NothingToDoIsInStep, lines[at] \in SUBSET Line DEF InStep
    <3> QED
      BY <1>t, <2>1, <3>1, <3>2 DEF MirroredSoFar, InStep
  <2> QED
    BY <2>2, <2>3
<1>4. CASE Change
  <2>1. pc = "change" /\ UNCHANGED <<pc, at, seen, wanted, ok>>
    BY <1>4 DEF Change, roundVars
  <2>2. \A p \in Piholes : p # at => lines'[p] = lines[p]
    BY <1>4, <1>t DEF Change, Remove, Add
  <2> QED
    BY <1>t, <2>1, <2>2 DEF MirroredSoFar, InStep
<1>5. CASE ReadBack
  <2>1. /\ pc = "change" /\ pc' = "close" /\ ok /\ NothingToDo(lines[at], seen, wanted)
        /\ UNCHANGED <<lines, at, seen, wanted>>
    BY <1>5 DEF ReadBack, EndVisit, piholeVars
  <2>2. InStep(at, seen, wanted)
    BY <1>t, <2>1, NothingToDoIsInStep, lines[at] \in SUBSET Line DEF InStep
  <2> QED
    BY <1>t, <2>1, <2>2 DEF MirroredSoFar, InStep
<1>6. CASE Close
  <2>1. pc = "close" /\ ok /\ UNCHANGED <<lines, seen, wanted>>
    BY <1>6 DEF Close
  <2>2. \/ pc' = "login" /\ at' = at + 1
        \/ pc' = "zones" /\ \A p \in Piholes : p <= at
    BY <1>6, NextPiholeCovers DEF Close, IInv
  <2>3. \A p \in Piholes : p < at + 1 => p <= at
    BY <1>t
  <2> QED
    BY <1>t, <2>1, <2>2, <2>3 DEF MirroredSoFar, InStep
<1>7. CASE EditRecord \/ EditZone \/ (\E p \in Piholes : SessionLapses(p)) \/ UNCHANGED vars
  <2>1. UNCHANGED <<lines, seen, wanted, at, ok, pc>>
    BY <1>7 DEF EditRecord, EditZone, SessionLapses, vars, piholeVars, roundVars
  <2> QED
    BY <2>1 DEF MirroredSoFar, InStep
<1> QED
  BY <1>1, <1>2, <1>3, <1>4, <1>5, <1>6, <1>7 DEF Next, Sync

\* A round that ends clean (and touches the health file) left every Pi-hole,
\* whichever was visited last and whatever failed before, answering exactly
\* what the round read.
THEOREM CleanIsMirrored == Spec => []CleanMeansMirrored
<1>1. Init => MirroredSoFar
  BY DEF Init, MirroredSoFar
<1>2. MirroredSoFar => CleanMeansMirrored
  BY DEF MirroredSoFar, CleanMeansMirrored
<1> QED
  BY <1>1, <1>2, MirroredStep, Invariance, PTL DEF Spec

-----------------------------------------------------------------------------
(* The sync implements DnsMirror.                                          *)

\* What is left to remove was read, and what is left to add is wanted or was
\* read, one answer a line.
PlanFromRead ==
    pc = "change" =>
        /\ rm \subseteq read
        /\ \A l \in add : \E a \in Answer : l = LineFor(a) /\ a \in wanted \cup AnswersOf(read)

\* What the plan adds answers what is wanted or what the lines read answered.
LEMMA PlanAddsFromRead ==
    ASSUME NEW ls \in SUBSET Line, NEW zs, NEW ws \in SUBSET Answer
    PROVE  \A l \in ToAdd(ls, zs, ws) : \E a \in Answer : l = LineFor(a) /\ a \in ws \cup AnswersOf(ls)
<1>1. ToReadd(ls, zs, ws) \subseteq AnswersOf(ls)
  BY DEF ToReadd, Mine, OneName, AnswersOf
<1>2. AnswersOf(ls) \subseteq Answer
  BY AnswersType
<1> QED
  BY <1>1, <1>2 DEF ToAdd

LEMMA PlanFromReadStep == IInv /\ PlanFromRead /\ [Next]_vars => PlanFromRead'
<1> SUFFICES ASSUME IInv, PlanFromRead, [Next]_vars, pc' = "change" PROVE PlanFromRead'
  BY DEF PlanFromRead
<1>1. CASE ReadLists
  <2>1. /\ read' = lines[at] /\ rm' = ToRemove(lines[at], seen, wanted)
        /\ add' = ToAdd(lines[at], seen, wanted) /\ wanted' = wanted
    BY <1>1 DEF ReadLists
  <2>2. lines[at] \in SUBSET Line /\ wanted \in SUBSET Answer
    BY DEF IInv, TypeOK
  <2> QED
    BY <2>1, <2>2, PlanType, PlanAddsFromRead DEF PlanFromRead
<1>2. CASE Change
  <2>1. pc = "change" /\ rm' \subseteq rm /\ add' \subseteq add /\ UNCHANGED <<read, wanted>>
    BY <1>2 DEF Change, Remove, Add, roundVars
  <2> QED
    BY <2>1 DEF PlanFromRead
<1>3. CASE ReadZones \/ ReadRecords \/ NetBoxRefuses \/ LoginRefused \/ ChangeFails \/ ReadBack
           \/ Close \/ Crash
  BY <1>3, NextPiholeType DEF ReadZones, ReadRecords, NetBoxRefuses, LoginRefused, ChangeFails,
     ReadBack, EndVisit, Close, Crash, IInv
<1>4. CASE EditRecord \/ EditZone \/ (\E p \in Piholes : SessionLapses(p)) \/ UNCHANGED vars
  <2>1. UNCHANGED <<pc, rm, add, read, wanted>>
    BY <1>4 DEF EditRecord, EditZone, SessionLapses, vars, visitVars, roundVars
  <2> QED
    BY <2>1 DEF PlanFromRead
<1> QED
  BY <1>1, <1>2, <1>3, <1>4 DEF Next, Sync

LEMMA PlanFromReadHolds == Spec => []PlanFromRead
<1>1. Init => PlanFromRead
  BY DEF Init, PlanFromRead
<1> QED
  BY <1>1, PlanFromReadStep, Invariance, PTL DEF Spec

\* What an added line answers.
LEMMA AddedAnswers ==
    ASSUME IInv, PlanFromRead, pc = "change", NEW l \in add
    PROVE  Answers(l) \subseteq wanted \cup (AnswersOf(read) \cap AnswersOf(add))
<1>1. PICK a \in Answer : l = LineFor(a) /\ a \in wanted \cup AnswersOf(read)
  BY DEF PlanFromRead
<1>2. Answers(l) = {a}
  BY <1>1, LineForAnswer
<1> QED
  BY <1>1, <1>2 DEF AnswersOf

\* What is on the Pi-hole visited, and owed to it, after an addition: an owed
\* answer becomes one given, and what is new is wanted or was owed.
LEMMA AddMirrors ==
    ASSUME IInv, PlanFromRead, pc = "change", NEW l \in add, Add(l),
           UNCHANGED <<pc, at, read, seen, wanted>>
    PROVE  LET have == AnswersOf(lines[at])  has == AnswersOf(lines'[at]) IN
           /\ has \ have \subseteq wanted \cup Owed(at)
           /\ Owed(at)' \subseteq (have \cup Owed(at)) \ has
           /\ (have \cup Owed(at)) \subseteq has \cup Owed(at)'
<1> DEFINE have == AnswersOf(lines[at])
           has == AnswersOf(lines'[at])
<1>1. at \in Piholes /\ lines \in [Piholes -> SUBSET Line]
  BY DEF IInv, TypeOK
<1>2. lines'[at] = lines[at] \cup {l} /\ add' = add \ {l}
  BY <1>1 DEF Add
<1>3. has = have \cup Answers(l)
  BY <1>2 DEF AnswersOf
<1>4. AnswersOf(add) = AnswersOf(add') \cup Answers(l)
  BY <1>2 DEF AnswersOf
<1>5. Owed(at) = (AnswersOf(read) \cap AnswersOf(add)) \ have
  BY DEF Owed
<1>6. Owed(at)' = (AnswersOf(read) \cap AnswersOf(add')) \ has
  BY DEF Owed
<1>7. Answers(l) \subseteq wanted \cup (AnswersOf(read) \cap AnswersOf(add))
  BY AddedAnswers
<1> HIDE DEF have, has
<1>8. has \ have \subseteq wanted \cup Owed(at)
  BY <1>3, <1>5, <1>7
<1>9. Owed(at)' \subseteq (have \cup Owed(at)) \ has
  BY <1>3, <1>4, <1>5, <1>6
<1>10. have \cup Owed(at) \subseteq has \cup Owed(at)'
  BY <1>3, <1>4, <1>5, <1>6
<1> QED
  BY <1>8, <1>9, <1>10 DEF have, has

\* After a removal: what is gone is owed from then on, or may be dropped.
LEMMA RemoveMirrors ==
    ASSUME IInv, IInv', PlanFromRead, pc = "change", NEW l \in rm, Remove(l),
           UNCHANGED <<pc, at, read, seen, wanted>>
    PROVE  LET have == AnswersOf(lines[at])  has == AnswersOf(lines'[at]) IN
           /\ has \subseteq have
           /\ Owed(at)' \subseteq (have \cup Owed(at)) \ has
           /\ \A a \in (have \cup Owed(at)) \ (has \cup Owed(at)') : a \in Answer /\ MayDrop(a)
<1> DEFINE have == AnswersOf(lines[at])
           has == AnswersOf(lines'[at])
<1>1. at \in Piholes /\ lines \in [Piholes -> SUBSET Line]
  BY DEF IInv, TypeOK
<1>2. lines'[at] = lines[at] \ {l} /\ add' = add
  BY <1>1 DEF Remove
<1>3. has \subseteq have /\ have \subseteq has \cup Answers(l)
  BY <1>2 DEF AnswersOf
<1>4. Owed(at) = (AnswersOf(read) \cap AnswersOf(add)) \ have
  BY DEF Owed
<1>5. Owed(at)' = (AnswersOf(read) \cap AnswersOf(add)) \ has
  BY <1>2 DEF Owed
<1>6. Answers(l) \subseteq AnswersOf(read) /\ AnswersOf(read) \subseteq Answer
  BY AnswersType DEF PlanFromRead, AnswersOf, IInv, TypeOK
<1>7. ASSUME NEW a \in AnswersOf(read), ~MayDrop(a) PROVE a \in has \/ a \in AnswersOf(add)
  <2>1. a \in AnswersOf(lines'[at] \ rm') \/ LineFor(a) \in add
    BY <1>2, <1>7 DEF IInv, KeptByThePlan, MayDrop
  <2>2. a \in Answers(LineFor(a))
    BY <1>6, LineForAnswer
  <2> QED
    BY <2>1, <2>2 DEF AnswersOf
<1> HIDE DEF have, has
<1>8. Owed(at)' \subseteq (have \cup Owed(at)) \ has
  BY <1>3, <1>4, <1>5
<1>9. ASSUME NEW a \in (have \cup Owed(at)) \ (has \cup Owed(at)') PROVE a \in Answer /\ MayDrop(a)
  <2>1. a \in AnswersOf(read)
    BY <1>3, <1>4, <1>6
  <2> QED
    BY <1>5, <1>6, <1>7, <2>1
<1> QED
  BY <1>3, <1>8, <1>9 DEF have, has

\* DnsMirror's variables as the sync has them (the substitution of Mirror).
answersBar == [p \in Piholes |-> AnswersOf(lines[p])]
owedBar == [p \in Piholes |-> Owed(p)]
scopeBar == {n \in Names : InZone(n, seen)}

LEMMA NobodyIsOwed ==
    ASSUME pc # "change" PROVE owedBar = [p \in Piholes |-> {}]
BY DEF owedBar, Owed

LEMMA MirrorInit == Init => Mirror!Init
<1> SUFFICES ASSUME Init PROVE Mirror!Init
  OBVIOUS
<1>1. lines \in [Piholes -> SUBSET Line]
  BY ConstantsAssumption DEF Init
<1>2. answersBar \in [Piholes -> SUBSET Answer]
  BY <1>1, AnswersType DEF answersBar
<1>3. owedBar = [p \in Piholes |-> {}] /\ wanted = {} /\ scopeBar = {}
  BY NobodyIsOwed DEF Init, scopeBar, InZone
<1> QED
  BY <1>2, <1>3 DEF Mirror!Init, answersBar, owedBar, scopeBar

\* A step that leaves the lines and what is owed, and reads nothing of
\* NetBox, is none of DnsMirror's.
LEMMA MirrorStutters ==
    ASSUME UNCHANGED <<lines, seen, wanted>>, owedBar' = owedBar
    PROVE  UNCHANGED <<answersBar, owedBar, wanted, scopeBar>>
BY DEF answersBar, scopeBar, InZone

\* Each call and each edit is a step that DnsMirror allows, or none.
LEMMA MirrorStep ==
    IInv /\ IInv' /\ PlanFromRead /\ [Next]_vars
        => \/ Mirror!Next
           \/ UNCHANGED <<answersBar, owedBar, wanted, scopeBar>>
<1> SUFFICES ASSUME IInv, IInv', PlanFromRead, [Next]_vars
             PROVE  Mirror!Next \/ UNCHANGED <<answersBar, owedBar, wanted, scopeBar>>
  OBVIOUS
<1>t. /\ lines \in [Piholes -> SUBSET Line] /\ at \in Piholes
      /\ wanted' \in SUBSET Answer /\ scopeBar' \in SUBSET Names
  BY DEF IInv, TypeOK, scopeBar
<1>1. CASE ReadZones \/ ReadRecords
  <2>1. pc # "change" /\ pc' # "change" /\ lines' = lines
    BY <1>1 DEF ReadZones, ReadRecords, piholeVars
  <2>2. owedBar = [p \in Piholes |-> {}] /\ owedBar' = [p \in Piholes |-> {}]
    BY <2>1 DEF owedBar, Owed
  <2>3. answersBar' = answersBar
    BY <2>1 DEF answersBar
  <2>4. Mirror!Take
    BY <1>t, <2>2, <2>3 DEF Mirror!Take, answersBar, owedBar, scopeBar
  <2> QED
    BY <2>4 DEF Mirror!Next
<1>2. CASE NetBoxRefuses \/ LoginRefused \/ Close
  <2>1. pc # "change" /\ pc' # "change" /\ UNCHANGED <<lines, seen, wanted>>
    BY <1>2, NextPiholeType DEF NetBoxRefuses, LoginRefused, Close, piholeVars, IInv
  <2>2. owedBar' = owedBar
    BY <2>1 DEF owedBar, Owed
  <2> QED
    BY <2>1, <2>2, MirrorStutters
<1>3. CASE ReadLists
  <2>1. pc = "login" /\ at' = at /\ read' = lines[at] /\ UNCHANGED <<lines, seen, wanted>>
    BY <1>3 DEF ReadLists
  <2>2. \A p \in Piholes : Owed(p) = {} /\ Owed(p)' = {}
    BY <2>1 DEF Owed
  <2>3. owedBar' = owedBar
    BY <2>2 DEF owedBar
  <2> QED
    BY <2>1, <2>3, MirrorStutters
<1>4. CASE Change
  <2>1. PICK l \in rm \cup add : Remove(l) \/ Add(l)
    BY <1>4 DEF Change
  <2>2. pc = "change" /\ UNCHANGED <<pc, at, read, seen, wanted>>
    BY <1>4 DEF Change, roundVars
  <2>3. \A q \in Piholes \ {at} : lines'[q] = lines[q]
    BY <1>t, <2>1 DEF Remove, Add
  <2>4. Mirror!Others(at)
    BY <2>2, <2>3 DEF Mirror!Others, Owed
  <2>5. wanted' = wanted /\ scopeBar' = scopeBar
    BY <2>2 DEF scopeBar, InZone
  <2> DEFINE have == AnswersOf(lines[at])
             has == AnswersOf(lines'[at])
  <2>6. /\ has \ have \subseteq wanted \cup Owed(at)
        /\ Owed(at)' \subseteq (have \cup Owed(at)) \ has
        /\ \A a \in (have \cup Owed(at)) \ (has \cup Owed(at)') : a \in Answer /\ MayDrop(a)
    <3>1. CASE l \in rm /\ Remove(l)
      BY <2>2, <3>1, RemoveMirrors
    <3>2. CASE l \in add /\ Add(l)
      BY <2>2, <3>2, AddMirrors
    <3> QED
      BY <2>1, <3>1, <3>2 DEF Remove, Add, NextOf
  <2>7. \A a \in Answer : MayDrop(a) => Mirror!Stale(a)
    BY DEF MayDrop, Mirror!Stale, Answer
  <2>8. /\ answersBar[at] = have /\ answersBar'[at] = has
        /\ owedBar[at] = Owed(at) /\ owedBar'[at] = Owed(at)'
    BY <1>t, <2>2 DEF answersBar, owedBar
  <2>9. /\ answersBar'[at] \ answersBar[at] \subseteq wanted \cup owedBar[at]
        /\ owedBar'[at] \subseteq (answersBar[at] \cup owedBar[at]) \ answersBar'[at]
        /\ \A a \in (answersBar[at] \cup owedBar[at]) \ (answersBar'[at] \cup owedBar'[at]) :
              Mirror!Stale(a)
    <3> HIDE DEF have, has
    <3> QED
      BY <2>6, <2>7, <2>8
  <2>10. Mirror!Mirror(at)
    BY <2>4, <2>5, <2>9 DEF Mirror!Mirror, answersBar, owedBar, scopeBar
  <2> QED
    BY <1>t, <2>10 DEF Mirror!Next
<1>5. CASE ReadBack
  <2>1. /\ add = {} /\ add' = {} /\ at' = at /\ UNCHANGED <<lines, seen, wanted>>
    BY <1>5 DEF ReadBack, piholeVars, visitVars
  <2>2. AnswersOf(add) = {} /\ AnswersOf(add)' = {}
    BY <2>1 DEF AnswersOf
  <2>3. \A p \in Piholes : Owed(p) = {} /\ Owed(p)' = {}
    BY <2>2 DEF Owed
  <2>4. owedBar' = owedBar
    BY <2>3 DEF owedBar
  <2> QED
    BY <2>1, <2>4, MirrorStutters
<1>6. CASE ChangeFails \/ Crash
  <2>1. pc' # "change" /\ at' = at /\ UNCHANGED <<lines, seen, wanted>>
    BY <1>6 DEF ChangeFails, EndVisit, Crash, piholeVars
  <2>2. \A p \in Piholes : Owed(p)' = {} /\ (p # at => Owed(p) = {})
    BY <2>1 DEF Owed
  <2>3. Mirror!Others(at)
    BY <2>1, <2>2 DEF Mirror!Others
  <2>4. answersBar' = answersBar /\ scopeBar' = scopeBar
    BY <2>1 DEF answersBar, scopeBar, InZone
  <2>5. Mirror!CutShort(at)
    BY <1>t, <2>1, <2>2, <2>3, <2>4 DEF Mirror!CutShort, answersBar, scopeBar
  <2> QED
    BY <1>t, <2>5 DEF Mirror!Next
<1>7. CASE EditRecord \/ EditZone \/ (\E p \in Piholes : SessionLapses(p)) \/ UNCHANGED vars
  <2>1. UNCHANGED <<lines, seen, wanted, pc, at, read, add>>
    BY <1>7 DEF EditRecord, EditZone, SessionLapses, vars, piholeVars, visitVars, roundVars
  <2>2. owedBar' = owedBar
    BY <2>1 DEF owedBar, Owed
  <2> QED
    BY <2>1, <2>2, MirrorStutters
<1> QED
  BY <1>1, <1>2, <1>3, <1>4, <1>5, <1>6, <1>7 DEF Next, Sync

\* The sync implements what it promises: whatever is edited, refused, lost or
\* cut short, a Pi-hole comes to answer only what NetBox has or a split line
\* had, and stops answering for good only what is stale, or what a visit that
\* was cut short owed.
THEOREM SyncImplementsMirror == Spec => ImplementsMirror
<1>1. IInv /\ IInv' /\ PlanFromRead /\ [Next]_vars
        => [Mirror!Next]_<<[p \in Piholes |-> AnswersOf(lines[p])],
                           [p \in Piholes |-> Owed(p)],
                           wanted, {n \in Names : InZone(n, seen)}>>
  BY MirrorStep DEF answersBar, owedBar, scopeBar
<1> QED
  BY <1>1, MirrorInit, Invariance, PlanFromReadHolds, PTL
  DEF Spec, ImplementsMirror, Mirror!Spec
=============================================================================
