-------------------------- MODULE UsageLedgerProofs --------------------------
(***************************************************************************)
(* What the usage ledger keeps for any processes, events and faults.  The   *)
(* invariant says what an index knows, and that an event about to be        *)
(* appended is not in it.                                                   *)
(***************************************************************************)
EXTENDS UsageLedger, TLAPS

-----------------------------------------------------------------------------
\* What a process about to append has in its hands.
Ready ==
  \A p \in Process : pc[p] = "append" =>
    ev[p] \in Event /\ index[p] \in SUBSET Event /\ ev[p] \notin index[p]

-----------------------------------------------------------------------------
(* Types                                                                   *)

LEMMA InitTypes == Init => TypeOK
<1>1. Init => faults \in 0..MaxFaults /\ lines \in [Event -> [Process -> 0..2]]
  BY LedgerAssumption, SMT DEF Init
<1>2. QED
  BY <1>1, Zenon DEF Init, TypeOK, Stages

LEMMA OneMoreTyped ==
  ASSUME TypeOK, NEW e \in Event, NEW p \in Process
  PROVE  OneMore(e, p) \in [Event -> [Process -> 0..2]]
<1>1. lines \in [Event -> [Process -> 0..2]]
  BY Zenon DEF TypeOK
<1>2. QED
  BY <1>1, SMT DEF OneMore

LEMMA LockStepTypes ==
  ASSUME TypeOK, NEW p \in Process,
         Call(p) \/ Create(p) \/ Exists(p) \/ Stat(p) \/ Break(p) \/ Wait(p)
           \/ Release(p) \/ Restart(p) \/ Age
  PROVE  TypeOK'
<1>1. CASE Call(p)
  BY <1>1, Zenon DEF Call, Goes, TypeOK, Stages, file, disk, history
<1>2. CASE Create(p)
  BY <1>2, Zenon DEF Create, Goes, TypeOK, Stages, disk, history
<1>3. CASE Exists(p)
  BY <1>3, Zenon DEF Exists, Goes, TypeOK, Stages, file, disk, history
<1>4. CASE Stat(p)
  BY <1>4, Zenon DEF Stat, Goes, TypeOK, Stages, file, disk, history
<1>5. CASE Break(p)
  BY <1>5, Zenon DEF Break, RemoveLock, Goes, TypeOK, Stages, disk, history
<1>6. CASE Wait(p)
  BY <1>6, Zenon DEF Wait, Goes, TypeOK, Stages, file, disk, history
<1>7. CASE Release(p)
  BY <1>7, Zenon DEF Release, RemoveLock, Goes, TypeOK, Stages, disk, history
<1>8. CASE Restart(p)
  BY <1>8, Zenon DEF Restart, Goes, TypeOK, Stages, file, disk, history
<1>9. CASE Age
  BY <1>9, Zenon DEF Age, TypeOK, disk, history
<1>10. QED
  BY <1>1, <1>2, <1>3, <1>4, <1>5, <1>6, <1>7, <1>8, <1>9

LEMMA WorkStepTypes ==
  ASSUME TypeOK, Ready, NEW p \in Process,
         Look(p) \/ LookFails(p) \/ Append(p) \/ Prune(p)
  PROVE  TypeOK'
<1>1. /\ lines \in [Event -> [Process -> 0..2]]
      /\ index \in [Process -> (SUBSET Event) \cup {None}]
      /\ ev \in [Process -> Event \cup {None}]
      /\ pc \in [Process -> Stages]
      /\ recorded \subseteq Event
      /\ broken \subseteq {"expired", "recent"}
  BY Zenon DEF TypeOK
<1>2. OnDisk \subseteq Event /\ Partial \subseteq Event
  BY Zenon DEF OnDisk, Partial
<1>3. /\ pc' \in [Process -> Stages]
      /\ index' \in [Process -> (SUBSET Event) \cup {None}]
      /\ lines' \in [Event -> [Process -> 0..2]]
      /\ broken' \subseteq {"expired", "recent"}
      /\ recorded' \subseteq Event
  <2>1. CASE Look(p)
    <3>1. IndexOf(p) \in (SUBSET Event) \cup {None}
      BY <1>1, <1>2, Zenon DEF IndexOf
    <3>2. QED
      BY <1>1, <2>1, <3>1, Zenon DEF Look, Goes, Accepted, Stages, disk
  <2>2. CASE LookFails(p)
    BY <1>1, <1>2, <2>2, Zenon DEF LookFails, Goes, Stages, disk, history
  <2>3. CASE Append(p)
    <3>1. ev[p] \in Event /\ index[p] \in SUBSET Event
      BY <2>3, Zenon DEF Append, Ready
    <3>2. lines' \in [Event -> [Process -> 0..2]]
      BY <2>3, <3>1, OneMoreTyped, Zenon DEF Append
    <3>3. Indexed(p) \in [Process -> (SUBSET Event) \cup {None}]
      BY <1>1, <3>1, SMT DEF Indexed
    <3>4. QED
      BY <1>1, <2>3, <3>1, <3>2, <3>3, Zenon DEF Append, Goes, Accepted, Stages
  <2>4. CASE Prune(p)
    <3>1. lines' \in [Event -> [Process -> 0..2]]
      BY <1>1, <2>4, SMT DEF Prune
    <3>2. QED
      BY <1>1, <2>4, <3>1, Zenon DEF Prune, Goes, Stages, history
  <2>5. QED
    BY <2>1, <2>2, <2>3, <2>4
<1>4. UNCHANGED <<file, ev, spoilt, faults>>
  BY Zenon DEF Look, LookFails, Append, Prune, history
<1>5. QED
  BY <1>3, <1>4, Zenon DEF TypeOK, file

\* A fault that is counted.
LEMMA FaultTyped ==
  ASSUME faults \in 0..MaxFaults, Fault
  PROVE  faults' \in 0..MaxFaults
BY LedgerAssumption, SMT DEF Fault

LEMMA FaultStepTypes ==
  ASSUME TypeOK, Ready, NEW p \in Process,
         AppendThrows(p) \/ AppendShort(p) \/ Crash(p)
  PROVE  TypeOK'
<1>1. /\ lines \in [Event -> [Process -> 0..2]]
      /\ index \in [Process -> (SUBSET Event) \cup {None}]
      /\ ev \in [Process -> Event \cup {None}]
      /\ pc \in [Process -> Stages]
      /\ recorded \subseteq Event /\ spoilt \subseteq Event
      /\ broken \subseteq {"expired", "recent"}
      /\ faults \in 0..MaxFaults
      /\ holds \subseteq Process
  BY Zenon DEF TypeOK
<1>2. faults' \in 0..MaxFaults
  BY <1>1, FaultTyped, Zenon DEF AppendThrows, AppendShort, Crash
<1>3. pc[p] = "append" =>
        /\ ev[p] \in Event
        /\ OneMore(ev[p], p) \in [Event -> [Process -> 0..2]]
        /\ Indexed(p) \in [Process -> (SUBSET Event) \cup {None}]
  <2>1. SUFFICES ASSUME pc[p] = "append"
                 PROVE  /\ ev[p] \in Event
                        /\ OneMore(ev[p], p) \in [Event -> [Process -> 0..2]]
                        /\ Indexed(p) \in [Process -> (SUBSET Event) \cup {None}]
    OBVIOUS
  <2>2. ev[p] \in Event /\ index[p] \in SUBSET Event
    BY <2>1, Zenon DEF Ready
  <2>3. OneMore(ev[p], p) \in [Event -> [Process -> 0..2]]
    BY <2>2, OneMoreTyped, Zenon
  <2>4. Indexed(p) \in [Process -> (SUBSET Event) \cup {None}]
    BY <1>1, <2>2, SMT DEF Indexed
  <2>5. QED
    BY <2>2, <2>3, <2>4
<1>4. \A e \in Event : CutShort(e) =>
        broken' \subseteq {"expired", "recent"} /\ spoilt' \subseteq Event
  BY <1>1, Zenon DEF CutShort, Shard
<1>5. CASE AppendThrows(p)
  <2>1. lines' \in [Event -> [Process -> 0..2]] /\ spoilt' \subseteq Event
    BY <1>1, <1>3, <1>5, Zenon DEF AppendThrows
  <2>2. index' = index /\ pc' \in [Process -> Stages]
    BY <1>1, <1>5, Zenon DEF AppendThrows, AfterFailure, Goes, Stages
  <2>3. QED
    BY <1>1, <1>2, <1>5, <2>1, <2>2, Zenon DEF AppendThrows, TypeOK, file
<1>6. CASE AppendShort(p)
  <2>1. broken' \subseteq {"expired", "recent"} /\ spoilt' \subseteq Event
    BY <1>3, <1>4, <1>6, Zenon DEF AppendShort
  <2>2. /\ index' \in [Process -> (SUBSET Event) \cup {None}]
        /\ pc' \in [Process -> Stages]
        /\ recorded' \subseteq Event
    BY <1>1, <1>3, <1>6, Zenon DEF AppendShort, Accepted, Goes, Stages
  <2>3. QED
    BY <1>1, <1>2, <1>6, <2>1, <2>2, Zenon DEF AppendShort, TypeOK, file
<1>7. CASE Crash(p)
  <2>1. /\ broken' \subseteq {"expired", "recent"} /\ spoilt' \subseteq Event
        /\ lines' \in [Event -> [Process -> 0..2]]
    BY <1>1, <1>3, <1>4, <1>7, Zenon DEF Crash, disk
  <2>2. /\ index' \in [Process -> (SUBSET Event) \cup {None}]
        /\ ev' \in [Process -> Event \cup {None}]
        /\ pc' \in [Process -> Stages]
        /\ holds' \subseteq Process
        /\ lock' = lock /\ recorded' = recorded
    BY <1>1, <1>7, Zenon DEF Crash, Goes, Stages
  <2>3. orphaned' \in BOOLEAN
    BY <1>7, Zenon DEF Crash, TypeOK
  <2>4. QED
    BY <1>1, <1>2, <2>1, <2>2, <2>3, Zenon DEF TypeOK
<1>8. QED
  BY <1>5, <1>6, <1>7

LEMMA ReadyStep ==
  ASSUME TypeOK, Ready, Next
  PROVE  Ready'
<1>1. /\ index \in [Process -> (SUBSET Event) \cup {None}]
      /\ ev \in [Process -> Event \cup {None}]
      /\ pc \in [Process -> Stages]
  BY Zenon DEF TypeOK
<1>2. CASE Age
  BY <1>2, Zenon DEF Age, Ready
<1>3. ASSUME NEW p \in Process, Call(p) \/ Step(p) \/ Crash(p) \/ Restart(p)
      PROVE  Ready'
  <2>1. /\ \A q \in Process \ {p} : pc'[q] = pc[q] /\ ev'[q] = ev[q] /\ index'[q] = index[q]
        /\ ~Look(p) => pc'[p] # "append"
    <3>1. CASE Call(p) \/ Crash(p) \/ Restart(p)
      BY <1>1, <3>1, SMT DEF Call, Crash, Restart, Goes
    <3>2. CASE Create(p) \/ Exists(p) \/ Stat(p) \/ Break(p) \/ Wait(p) \/ Release(p)
      BY <1>1, <3>2, SMT DEF Create, Exists, Stat, Break, Wait, Release, Goes
    <3>3. CASE Look(p) \/ LookFails(p) \/ Prune(p)
      BY <1>1, <3>3, SMT DEF Look, LookFails, Prune, Goes
    <3>4. CASE Append(p) \/ AppendThrows(p) \/ AppendShort(p)
      BY <1>1, <3>4, SMT DEF Append, AppendThrows, AppendShort, Indexed, AfterFailure, Goes
    <3>5. QED
      BY <1>3, <3>1, <3>2, <3>3, <3>4, Zenon DEF Step
  <2>2. CASE Look(p)
    <3>1. ASSUME pc'[p] = "append"
          PROVE  ev'[p] \in Event /\ index'[p] \in SUBSET Event /\ ev'[p] \notin index'[p]
      <4>1. IndexOf(p) \in SUBSET Event
        BY <1>1, <2>2, LedgerAssumption, Zenon DEF Look, IndexOf, OnDisk
      <4>2. index'[p] = IndexOf(p) /\ ev' = ev /\ ev[p] # None
        BY <1>1, <2>2, Zenon DEF Look
      <4>3. ev[p] \notin IndexOf(p)
        BY <1>1, <2>2, <3>1, SMT DEF Look, Goes
      <4>4. QED
        BY <1>1, <4>1, <4>2, <4>3
    <3>2. QED
      BY <2>1, <3>1, Zenon DEF Ready
  <2>3. CASE ~Look(p)
    BY <2>1, <2>3, Zenon DEF Ready
  <2>4. QED
    BY <2>2, <2>3
<1>4. QED
  BY <1>2, <1>3, Zenon DEF Next

\* The types of a ledger hold in every reachable state, for any processes,
\* events and number of faults (createUsageLedger).
THEOREM LedgerTypes == Spec => []TypeOK
<1>1. Init => TypeOK /\ Ready
  <2>1. Init => Ready
    BY Zenon DEF Init, Ready
  <2>2. QED
    BY <2>1, InitTypes
<1>2. TypeOK /\ Ready /\ [Next]_vars => TypeOK' /\ Ready'
  <2>1. CASE UNCHANGED vars
    BY <2>1, Zenon DEF vars, file, disk, history, TypeOK, Ready
  <2>2. ASSUME TypeOK, Ready, Next
        PROVE  TypeOK'
    <3>1. CASE Age
      BY <2>2, <3>1, Zenon DEF Age, TypeOK, disk, history
    <3>2. ASSUME NEW p \in Process, Call(p) \/ Step(p) \/ Crash(p) \/ Restart(p)
          PROVE  TypeOK'
      BY <2>2, <3>2, LockStepTypes, WorkStepTypes, FaultStepTypes, Zenon DEF Step
    <3>3. QED
      BY <2>2, <3>1, <3>2, Zenon DEF Next
  <2>3. QED
    BY <2>1, <2>2, ReadyStep
<1>3. QED
  BY <1>1, <1>2, PTL DEF Spec

LEMMA ReadyAlways == Spec => [](TypeOK /\ Ready)
<1>1. Init => Ready
  BY Zenon DEF Init, Ready
<1>2. TypeOK /\ Ready /\ [Next]_vars => Ready'
  <2>1. CASE UNCHANGED vars
    BY <2>1, Zenon DEF vars, Ready
  <2>2. QED
    BY <2>1, ReadyStep
<1>3. QED
  BY <1>1, <1>2, LedgerTypes, PTL DEF Spec

-----------------------------------------------------------------------------
(* Once per process                                                        *)

\* An index that has been read holds the events of its process; a shard that
\* cannot be read spoils them all.
KnowsOwn ==
  \A p \in Process : index[p] # None =>
    \A e \in Event \ spoilt : lines[e][p] # 0 => e \in index[p]

BrokenSpoils == broken # {} => spoilt = Event

OnceInv == OncePerProcess /\ KnowsOwn /\ BrokenSpoils

\* What a process reads when nothing is broken.
LEMMA IndexKnowsOwn ==
  ASSUME TypeOK, KnowsOwn, NEW p \in Process
  PROVE  \A e \in Event \ spoilt : lines[e][p] # 0 => e \in IndexOf(p)
<1>1. lines \in [Event -> [Process -> 0..2]]
  BY Zenon DEF TypeOK
<1>2. CASE index[p] = None
  <2>1. \A e \in Event : lines[e][p] # 0 => lines[e][p] > 0
    BY <1>1, SMT
  <2>2. QED
    BY <1>2, <2>1, Zenon DEF IndexOf, OnDisk
<1>3. CASE index[p] # None
  BY <1>3, Zenon DEF IndexOf, KnowsOwn
<1>4. QED
  BY <1>2, <1>3

\* One more line of an event of which there is none leaves one.
LEMMA OneMoreLine ==
  ASSUME TypeOK, NEW p \in Process, NEW e \in Event
  PROVE  /\ OneMore(e, p)[e][p] = IF lines[e][p] = 0 THEN 1 ELSE 2
         /\ \A x \in Event, q \in Process :
              x # e \/ q # p => OneMore(e, p)[x][q] = lines[x][q]
<1>1. lines \in [Event -> [Process -> 0..2]]
  BY Zenon DEF TypeOK
<1>2. QED
  BY <1>1, SMT DEF OneMore

\* A line of the event that its process does not know yet keeps the invariant,
\* if the process then knows it, forgets everything, or the event is spoilt.
LEMMA OnceWritten ==
  ASSUME TypeOK, Ready, OnceInv, NEW p \in Process, pc[p] = "append",
         lines' = OneMore(ev[p], p), spoilt \subseteq spoilt', UNCHANGED broken,
         \A q \in Process \ {p} : index'[q] = index[q],
         \/ index' = Indexed(p)
         \/ index'[p] = None
         \/ index' = index /\ ev[p] \in spoilt',
         spoilt' \subseteq Event
  PROVE  OnceInv'
<1> DEFINE e == ev[p]
<1>1. /\ e \in Event /\ index[p] \in SUBSET Event /\ e \notin index[p]
      /\ index \in [Process -> (SUBSET Event) \cup {None}]
  BY Zenon DEF Ready, TypeOK
<1>2. index[p] # None
  BY <1>1, LedgerAssumption, Zenon
<1>3. e \notin spoilt => lines[e][p] = 0
  BY <1>1, <1>2, Zenon DEF OnceInv, KnowsOwn
<1>4. \A x \in Event, q \in Process : x # e \/ q # p => lines'[x][q] = lines[x][q]
  <2>1. \A x \in Event, q \in Process : x # e \/ q # p => OneMore(e, p)[x][q] = lines[x][q]
    BY <1>1, OneMoreLine
  <2>2. lines' = OneMore(e, p)
    OBVIOUS
  <2>3. QED
    BY <2>1, <2>2
<1>5. e \notin spoilt => lines'[e][p] = 1
  BY <1>1, <1>3, OneMoreLine, Zenon
<1>6. OncePerProcess'
  <2>1. SUFFICES ASSUME NEW x \in Event \ spoilt', NEW q \in Process
                 PROVE  lines'[x][q] <= 1
    BY Zenon DEF OncePerProcess
  <2>2. CASE x = e /\ q = p
    <3>1. lines'[x][q] = 1
      BY <1>5, <2>2, Zenon
    <3>2. QED
      BY <3>1, SMT
  <2>3. CASE ~(x = e /\ q = p)
    BY <1>4, <2>3, Zenon DEF OnceInv, OncePerProcess
  <2>4. QED
    BY <2>2, <2>3
<1>7. KnowsOwn'
  <2>1. SUFFICES ASSUME NEW q \in Process, index'[q] # None,
                        NEW x \in Event \ spoilt', lines'[x][q] # 0
                 PROVE  x \in index'[q]
    BY Zenon DEF KnowsOwn
  <2>2. CASE q # p
    <3>1. lines'[x][q] = lines[x][q] /\ index'[q] = index[q]
      BY <1>4, <2>2, Zenon
    <3>2. QED
      BY <2>1, <3>1, Zenon DEF OnceInv, KnowsOwn
  <2>3. CASE q = p /\ x # e
    <3>1. x \in index[p]
      BY <1>2, <1>4, <2>1, <2>3, Zenon DEF OnceInv, KnowsOwn
    <3>2. index' = Indexed(p) => index'[p] = index[p] \cup {e}
      BY <1>1, Zenon DEF Indexed
    <3>3. QED
      BY <2>1, <2>3, <3>1, <3>2, Zenon
  <2>4. CASE q = p /\ x = e
    <3>1. index' = Indexed(p)
      BY <2>1, <2>4, Zenon
    <3>2. index'[p] = index[p] \cup {e}
      BY <1>1, <3>1, Zenon DEF Indexed
    <3>3. QED
      BY <2>4, <3>2, Zenon
  <2>5. QED
    BY <2>2, <2>3, <2>4
<1>8. BrokenSpoils'
  BY Zenon DEF OnceInv, BrokenSpoils
<1>9. QED
  BY <1>6, <1>7, <1>8, Zenon DEF OnceInv

\* A shard that is cut short spoils everything.
LEMMA OnceCutShort ==
  ASSUME NEW e \in Event, CutShort(e)
  PROVE  OnceInv'
BY Zenon DEF CutShort, OnceInv, OncePerProcess, KnowsOwn, BrokenSpoils

LEMMA OnceStep ==
  ASSUME TypeOK, Ready, OnceInv, Next
  PROVE  OnceInv'
<1>1. /\ index \in [Process -> (SUBSET Event) \cup {None}]
      /\ spoilt \subseteq Event
      /\ lines \in [Event -> [Process -> 0..2]]
  BY Zenon DEF TypeOK
<1>2. CASE Age
  BY <1>2, Zenon DEF Age, disk, history, OnceInv, OncePerProcess, KnowsOwn, BrokenSpoils
<1>3. ASSUME NEW p \in Process, UNCHANGED <<lines, broken, index, spoilt>>
      PROVE  OnceInv'
  BY <1>3, Zenon DEF OnceInv, OncePerProcess, KnowsOwn, BrokenSpoils
<1>4. ASSUME NEW p \in Process, Call(p) \/ Restart(p) \/ Create(p) \/ Exists(p)
                \/ Stat(p) \/ Break(p) \/ Wait(p) \/ Release(p)
      PROVE  OnceInv'
  BY <1>3, <1>4, Zenon DEF Call, Restart, Create, Exists, Stat, Break, Wait, Release,
                           disk, history
<1>5. ASSUME NEW p \in Process, Look(p)
      PROVE  OnceInv'
  <2>1. UNCHANGED <<lines, broken, spoilt>> /\ index' = [index EXCEPT ![p] = IndexOf(p)]
    BY <1>5, Zenon DEF Look, disk
  <2>2. KnowsOwn'
    <3>1. index'[p] = IndexOf(p) /\ \A q \in Process \ {p} : index'[q] = index[q]
      BY <1>1, <2>1, SMT
    <3>2. \A x \in Event \ spoilt : lines[x][p] # 0 => x \in IndexOf(p)
      BY IndexKnowsOwn, Zenon DEF OnceInv
    <3>3. QED
      BY <2>1, <3>1, <3>2, Zenon DEF OnceInv, KnowsOwn
  <2>3. QED
    BY <2>1, <2>2, Zenon DEF OnceInv, OncePerProcess, BrokenSpoils
<1>6. ASSUME NEW p \in Process, LookFails(p)
      PROVE  OnceInv'
  <2>1. UNCHANGED <<lines, broken, spoilt>> /\ broken # {}
    BY <1>6, Zenon DEF LookFails, Reads, disk, history
  <2>2. spoilt = Event /\ spoilt' = Event
    BY <2>1, Zenon DEF OnceInv, BrokenSpoils
  <2>3. QED
    BY <2>2, Zenon DEF OnceInv, OncePerProcess, KnowsOwn, BrokenSpoils
<1>7. ASSUME NEW p \in Process, Append(p)
      PROVE  OnceInv'
  <2>1. \A q \in Process \ {p} : index'[q] = index[q]
    BY <1>1, <1>7, SMT DEF Append, Indexed
  <2>2. /\ pc[p] = "append" /\ lines' = OneMore(ev[p], p) /\ index' = Indexed(p)
        /\ UNCHANGED <<broken, spoilt>>
    BY <1>7, Zenon DEF Append
  <2>3. QED
    BY <1>1, <2>1, <2>2, OnceWritten
<1>8. ASSUME NEW p \in Process, AppendThrows(p)
      PROVE  OnceInv'
  <2>1. UNCHANGED <<broken, index>> /\ pc[p] = "append"
    BY <1>8, Zenon DEF AppendThrows, AfterFailure
  <2>2. CASE UNCHANGED <<lines, spoilt>>
    BY <1>3, <2>1, <2>2, Zenon
  <2>3. CASE lines' = OneMore(ev[p], p) /\ spoilt' = spoilt \cup {ev[p]}
    <3>1. ev[p] \in Event
      BY <2>1, Zenon DEF Ready
    <3>2. spoilt \subseteq spoilt' /\ spoilt' \subseteq Event /\ ev[p] \in spoilt'
      BY <1>1, <2>3, <3>1, Zenon
    <3>3. QED
      BY <2>1, <2>3, <3>2, OnceWritten
  <2>4. QED
    BY <1>8, <2>2, <2>3, Zenon DEF AppendThrows
<1>9. ASSUME NEW p \in Process, AppendShort(p)
      PROVE  OnceInv'
  <2>1. CutShort(ev[p]) /\ ev[p] \in Event
    BY <1>9, Zenon DEF AppendShort, Ready
  <2>2. QED
    BY <2>1, OnceCutShort
<1>10. ASSUME NEW p \in Process, Prune(p)
       PROVE  OnceInv'
  <2>1. spoilt' = spoilt /\ broken' \subseteq broken
    BY <1>10, Zenon DEF Prune, history
  <2>2. \A x \in Event, q \in Process :
          lines'[x][q] = lines[x][q] \/ lines'[x][q] = 0
    BY <1>1, <1>10, SMT DEF Prune
  <2>3. \A q \in Process : index'[q] = index[q] \/ index'[q] = None
    BY <1>1, <1>10, SMT DEF Prune
  <2>4. OncePerProcess'
    <3>1. SUFFICES ASSUME NEW x \in Event \ spoilt', NEW q \in Process
                   PROVE  lines'[x][q] <= 1
      BY Zenon DEF OncePerProcess
    <3>2. lines[x][q] <= 1
      BY <2>1, Zenon DEF OnceInv, OncePerProcess
    <3>3. QED
      BY <2>2, <3>2, SMT
  <2>5. KnowsOwn'
    BY <2>1, <2>2, <2>3, Zenon DEF OnceInv, KnowsOwn
  <2>6. BrokenSpoils'
    BY <2>1, Zenon DEF OnceInv, BrokenSpoils
  <2>7. QED
    BY <2>4, <2>5, <2>6, Zenon DEF OnceInv
<1>11. ASSUME NEW p \in Process, Crash(p)
       PROVE  OnceInv'
  <2>1. index'[p] = None /\ \A q \in Process \ {p} : index'[q] = index[q]
    BY <1>1, <1>11, SMT DEF Crash
  <2>2. CASE UNCHANGED <<lines, broken, spoilt>>
    BY <2>1, <2>2, Zenon DEF OnceInv, OncePerProcess, KnowsOwn, BrokenSpoils
  <2>3. CASE pc[p] = "append" /\ lines' = OneMore(ev[p], p) /\ UNCHANGED <<broken, spoilt>>
    BY <1>1, <2>1, <2>3, OnceWritten
  <2>4. CASE pc[p] = "append" /\ CutShort(ev[p])
    <3>1. ev[p] \in Event
      BY <2>4, Zenon DEF Ready
    <3>2. QED
      BY <2>4, <3>1, OnceCutShort
  <2>5. QED
    BY <1>11, <2>2, <2>3, <2>4, Zenon DEF Crash, disk
<1>12. QED
  BY <1>2, <1>4, <1>5, <1>6, <1>7, <1>8, <1>9, <1>10, <1>11, Zenon DEF Next, Step

\* An event is appended once by a process, whatever the others do and whoever
\* holds the lock (append, ensureEventIndex).
THEOREM LedgerOnce == Spec => []OncePerProcess
<1>1. Init => OnceInv
  <2>1. SUFFICES ASSUME Init PROVE OnceInv
    OBVIOUS
  <2>2. \A e \in Event, p \in Process : lines[e][p] = 0
    BY <2>1, Zenon DEF Init
  <2>3. OncePerProcess
    BY <2>2, SMT DEF OncePerProcess
  <2>4. KnowsOwn /\ BrokenSpoils
    BY <2>1, <2>2, Zenon DEF Init, KnowsOwn, BrokenSpoils
  <2>5. QED
    BY <2>3, <2>4 DEF OnceInv
<1>2. TypeOK /\ Ready /\ OnceInv /\ [Next]_vars => OnceInv'
  <2>1. CASE UNCHANGED vars
    BY <2>1, Zenon DEF vars, disk, history, OnceInv, OncePerProcess, KnowsOwn, BrokenSpoils
  <2>2. QED
    BY <2>1, OnceStep
<1>3. OnceInv => OncePerProcess
  BY DEF OnceInv
<1>4. QED
  BY <1>1, <1>2, <1>3, ReadyAlways, PTL DEF Spec

-----------------------------------------------------------------------------
(* Nothing recorded is lost                                                *)

\* The recent events of an index are on disk.
KnowsTrue ==
  \/ "recent" \in broken
  \/ \A p \in Process : index[p] # None => index[p] \ Expired \subseteq OnDisk

RecordedInv == Recorded /\ KnowsTrue /\ recorded \cap Expired = {}

\* A step that removes no recent line and repairs no recent shard keeps the
\* invariant, if what one process knows and has recorded since is on disk.
LEMMA RecordedKept ==
  ASSUME TypeOK, RecordedInv, NEW p \in Process,
         "recent" \in broken => "recent" \in broken',
         OnDisk \ Expired \subseteq OnDisk',
         \A q \in Process \ {p} : index'[q] = index[q],
         NEW known \in SUBSET (Event \ Expired),
         known \subseteq OnDisk' \/ "recent" \in broken',
         recorded' \subseteq recorded \cup known,
         index'[p] = None \/ index'[p] \ Expired \subseteq known \cup OnDisk'
           \/ (index[p] # None /\ index'[p] \ Expired \subseteq index[p] \cup known)
  PROVE  RecordedInv'
<1>1. recorded' \cap Expired = {}
  <2>1. recorded \cap Expired = {}
    BY Zenon DEF RecordedInv
  <2>2. QED
    BY <2>1
<1>2. CASE "recent" \in broken'
  BY <1>1, <1>2, Zenon DEF RecordedInv, Recorded, KnowsTrue
<1>3. CASE "recent" \notin broken'
  <2>1. known \subseteq OnDisk' /\ "recent" \notin broken
    BY <1>3
  <2>2. \A q \in Process : index[q] # None => index[q] \ Expired \subseteq OnDisk
    BY <2>1, Zenon DEF RecordedInv, KnowsTrue
  <2>3. \A q \in Process : index'[q] # None => index'[q] \ Expired \subseteq OnDisk'
    <3>1. \A q \in Process : q # p /\ index'[q] # None => index'[q] \ Expired \subseteq OnDisk'
      BY <2>2
    <3>2. index'[p] # None => index'[p] \ Expired \subseteq OnDisk'
      BY <2>1, <2>2
    <3>3. QED
      BY <3>1, <3>2
  <2>4. recorded \subseteq OnDisk
    BY <2>1, Zenon DEF RecordedInv, Recorded
  <2>5. recorded' \subseteq OnDisk'
    <3>1. recorded \cap Expired = {}
      BY Zenon DEF RecordedInv
    <3>2. recorded \subseteq OnDisk'
      BY <2>4, <3>1
    <3>3. QED
      BY <2>1, <3>2
  <2>6. QED
    BY <1>1, <2>3, <2>5, Zenon DEF RecordedInv, Recorded, KnowsTrue
<1>4. QED
  BY <1>2, <1>3

\* The same with nothing more recorded or known.
LEMMA RecordedStays ==
  ASSUME TypeOK, RecordedInv, NEW p \in Process,
         "recent" \in broken => "recent" \in broken',
         OnDisk \ Expired \subseteq OnDisk',
         \A q \in Process \ {p} : index'[q] = index[q],
         recorded' = recorded,
         index'[p] = None \/ index'[p] = index[p]
  PROVE  RecordedInv'
<1> DEFINE known == {}
<1>1. known \in SUBSET (Event \ Expired) /\ known \subseteq OnDisk'
  OBVIOUS
<1>2. recorded' \subseteq recorded \cup known
  OBVIOUS
<1>3. index'[p] = None \/ (index[p] # None /\ index'[p] \ Expired \subseteq index[p] \cup known)
  OBVIOUS
<1> HIDE DEF known
<1>4. QED
  BY <1>1, <1>2, <1>3, RecordedKept

\* A line more is a line on disk, and takes none away.
LEMMA OneMoreOnDisk ==
  ASSUME TypeOK, NEW p \in Process, NEW e \in Event, lines' = OneMore(e, p)
  PROVE  e \in OnDisk' /\ OnDisk \subseteq OnDisk'
<1>1. lines \in [Event -> [Process -> 0..2]]
  BY Zenon DEF TypeOK
<1>2. lines'[e][p] > 0
  <2>1. lines'[e][p] = IF lines[e][p] = 0 THEN 1 ELSE 2
    BY OneMoreLine, Zenon
  <2>2. QED
    BY <2>1, SMT
<1>3. \A x \in Event, q \in Process : lines[x][q] > 0 => lines'[x][q] > 0
  <2>1. SUFFICES ASSUME NEW x \in Event, NEW q \in Process, lines[x][q] > 0
                 PROVE  lines'[x][q] > 0
    OBVIOUS
  <2>2. CASE x # e \/ q # p
    <3>1. lines'[x][q] = lines[x][q]
      BY <2>2, OneMoreLine, Zenon
    <3>2. QED
      BY <2>1, <3>1
  <2>3. CASE x = e /\ q = p
    BY <1>2, <2>3
  <2>4. QED
    BY <2>2, <2>3
<1>4. QED
  BY <1>2, <1>3, Zenon DEF OnDisk

\* A shard cut short under a recent event is the recent one.
LEMMA CutShortRecent ==
  ASSUME NEW e \in Event, CutShort(e)
  PROVE  /\ "recent" \in broken => "recent" \in broken'
         /\ e \notin Expired => "recent" \in broken'
BY Zenon DEF CutShort, Shard

LEMMA RecordedStep ==
  ASSUME TypeOK, Ready, RecordedInv, Next
  PROVE  RecordedInv'
<1>1. /\ index \in [Process -> (SUBSET Event) \cup {None}]
      /\ ev \in [Process -> Event \cup {None}]
      /\ lines \in [Event -> [Process -> 0..2]]
      /\ recorded \subseteq Event
  BY Zenon DEF TypeOK
<1>2. ASSUME UNCHANGED <<lines, broken, index, recorded>>
      PROVE  RecordedInv'
  BY <1>2, Zenon DEF RecordedInv, Recorded, KnowsTrue, OnDisk
<1>3. CASE Age
  BY <1>2, <1>3, Zenon DEF Age, disk, history
<1>4. ASSUME NEW p \in Process, Call(p) \/ Restart(p) \/ Create(p) \/ Exists(p)
                \/ Stat(p) \/ Break(p) \/ Wait(p) \/ Release(p)
      PROVE  RecordedInv'
  BY <1>2, <1>4, Zenon DEF Call, Restart, Create, Exists, Stat, Break, Wait, Release,
                           disk, history
<1>5. ASSUME NEW p \in Process, Look(p)
      PROVE  RecordedInv'
  <2>1. /\ UNCHANGED <<lines, broken>>
        /\ index' = [index EXCEPT ![p] = IndexOf(p)]
        /\ ev[p] \in Event
        /\ recorded' = recorded
             \/ (ev[p] \in IndexOf(p) /\ recorded' = recorded \cup ({ev[p]} \ Expired))
    BY <1>1, <1>5, Zenon DEF Look, Accepted, disk
  <2>2. OnDisk' = OnDisk
    BY <2>1, Zenon DEF OnDisk
  <2>3. index'[p] = IndexOf(p) /\ \A q \in Process \ {p} : index'[q] = index[q]
    BY <1>1, <2>1, SMT
  <2>4. "recent" \in broken \/ IndexOf(p) \ Expired \subseteq OnDisk
    BY Zenon DEF IndexOf, RecordedInv, KnowsTrue
  <2>5. index'[p] \ Expired \subseteq OnDisk' \/ (index[p] # None /\ index'[p] = index[p])
    BY <2>2, <2>3, Zenon DEF IndexOf
  <2> DEFINE known == IF recorded' = recorded THEN {} ELSE {ev[p]} \ Expired
  <2>6. known \in SUBSET (Event \ Expired) /\ recorded' \subseteq recorded \cup known
    BY <2>1
  <2>7. known \subseteq OnDisk' \/ "recent" \in broken'
    BY <2>1, <2>2, <2>4
  <2>8. QED
    BY <2>1, <2>2, <2>3, <2>5, <2>6, <2>7, RecordedKept
<1>6. ASSUME NEW p \in Process, LookFails(p)
      PROVE  RecordedInv'
  <2>1. /\ UNCHANGED <<lines, broken, recorded>>
        /\ index' = [index EXCEPT ![p] = Partial]
    BY <1>6, Zenon DEF LookFails, disk, history
  <2>2. /\ OnDisk' = OnDisk
        /\ Partial \ Expired = {}
    BY <2>1, Zenon DEF OnDisk, Partial
  <2>3. index'[p] = Partial /\ \A q \in Process \ {p} : index'[q] = index[q]
    BY <1>1, <2>1, SMT
  <2>4. QED
    BY <2>1, <2>2, <2>3, RecordedKept
<1>7. ASSUME NEW p \in Process, pc[p] = "append"
      PROVE  ev[p] \in Event /\ index[p] \in SUBSET Event /\ index[p] # None
  <2>1. ev[p] \in Event /\ index[p] \in SUBSET Event
    BY <1>7, Zenon DEF Ready
  <2>2. QED
    BY <2>1, LedgerAssumption, Zenon
<1>8. ASSUME NEW p \in Process, Append(p)
      PROVE  RecordedInv'
  <2> DEFINE known == {ev[p]} \ Expired
  <2>1. /\ pc[p] = "append" /\ lines' = OneMore(ev[p], p) /\ broken' = broken
        /\ index' = Indexed(p) /\ recorded' = recorded \cup known
    BY <1>8, Zenon DEF Append, Accepted
  <2>2. ev[p] \in Event /\ index[p] \in SUBSET Event /\ index[p] # None
    BY <1>7, <2>1
  <2>3. ev[p] \in OnDisk' /\ OnDisk \subseteq OnDisk'
    BY <2>1, <2>2, OneMoreOnDisk
  <2>4. index'[p] = index[p] \cup {ev[p]} /\ \A q \in Process \ {p} : index'[q] = index[q]
    BY <1>1, <2>1, SMT DEF Indexed
  <2>5. known \in SUBSET (Event \ Expired) /\ known \subseteq OnDisk'
    BY <2>2, <2>3
  <2>6. index'[p] \ Expired \subseteq index[p] \cup known
    BY <2>4
  <2> HIDE DEF known
  <2>7. QED
    BY <2>1, <2>2, <2>3, <2>4, <2>5, <2>6, RecordedKept
<1>9. ASSUME NEW p \in Process, AppendThrows(p)
      PROVE  RecordedInv'
  <2>1. /\ pc[p] = "append" /\ UNCHANGED <<broken, recorded, index>>
        /\ lines' = lines \/ lines' = OneMore(ev[p], p)
    BY <1>9, Zenon DEF AppendThrows, AfterFailure
  <2>2. CASE lines' = lines
    BY <1>2, <2>1, <2>2, Zenon
  <2>3. CASE lines' = OneMore(ev[p], p)
    <3>1. OnDisk \subseteq OnDisk'
      BY <1>7, <2>1, <2>3, OneMoreOnDisk
    <3>2. QED
      BY <2>1, <3>1, Zenon DEF RecordedInv, Recorded, KnowsTrue
  <2>4. QED
    BY <2>1, <2>2, <2>3
<1>10. ASSUME NEW p \in Process, AppendShort(p)
       PROVE  RecordedInv'
  <2> DEFINE known == {ev[p]} \ Expired
  <2>1. /\ pc[p] = "append" /\ lines' = lines /\ CutShort(ev[p])
        /\ index' = Indexed(p) /\ recorded' = recorded \cup known
    BY <1>10, Zenon DEF AppendShort, Accepted
  <2>2. ev[p] \in Event /\ index[p] \in SUBSET Event /\ index[p] # None
    BY <1>7, <2>1
  <2>3. /\ "recent" \in broken => "recent" \in broken'
        /\ ev[p] \notin Expired => "recent" \in broken'
    BY <2>1, <2>2, CutShortRecent
  <2>4. index'[p] = index[p] \cup {ev[p]} /\ \A q \in Process \ {p} : index'[q] = index[q]
    BY <1>1, <2>1, <2>2, SMT DEF Indexed
  <2>5. /\ known \in SUBSET (Event \ Expired)
        /\ known \subseteq OnDisk' \/ "recent" \in broken'
    BY <2>2, <2>3
  <2>6. index'[p] \ Expired \subseteq index[p] \cup known
    BY <2>4
  <2>7. OnDisk' = OnDisk
    BY <2>1, Zenon DEF OnDisk
  <2> HIDE DEF known
  <2>8. QED
    BY <2>1, <2>2, <2>3, <2>4, <2>5, <2>6, <2>7, RecordedKept
<1>11. ASSUME NEW p \in Process, Prune(p)
       PROVE  RecordedInv'
  <2>1. recorded' = recorded /\ ("recent" \in broken => "recent" \in broken')
    BY <1>11 DEF Prune, history
  <2>2. \A x \in Event \ Expired : lines'[x] = lines[x]
    BY <1>11, Zenon DEF Prune
  <2>3. OnDisk \ Expired \subseteq OnDisk'
    BY <2>2, Zenon DEF OnDisk
  <2>4. /\ index'[p] = index[p] \/ index'[p] = None
        /\ \A q \in Process \ {p} : index'[q] = index[q]
    BY <1>1, <1>11, SMT DEF Prune
  <2>5. CASE index'[p] = None
    BY <2>1, <2>3, <2>4, <2>5, RecordedStays
  <2>6. CASE index'[p] = index[p] /\ index[p] # None
    BY <2>1, <2>3, <2>4, <2>6, RecordedStays
  <2>7. QED
    BY <2>4, <2>5, <2>6
<1>12. ASSUME NEW p \in Process, Crash(p)
       PROVE  RecordedInv'
  <2>1. /\ recorded' = recorded /\ index'[p] = None
        /\ \A q \in Process \ {p} : index'[q] = index[q]
    BY <1>1, <1>12, SMT DEF Crash
  <2>2. OnDisk \subseteq OnDisk' /\ ("recent" \in broken => "recent" \in broken')
    <3>1. CASE UNCHANGED disk
      BY <3>1, Zenon DEF disk, OnDisk
    <3>2. CASE pc[p] = "append" /\ lines' = OneMore(ev[p], p) /\ broken' = broken
      BY <1>7, <3>2, OneMoreOnDisk
    <3>3. CASE pc[p] = "append" /\ CutShort(ev[p]) /\ lines' = lines
      BY <1>7, <3>3, CutShortRecent, Zenon DEF OnDisk
    <3>4. QED
      BY <1>12, <3>1, <3>2, <3>3, Zenon DEF Crash
  <2>3. QED
    BY <2>1, <2>2, RecordedStays
<1>13. QED
  BY <1>3, <1>4, <1>5, <1>6, <1>8, <1>9, <1>10, <1>11, <1>12, Zenon DEF Next, Step

\* A recent event that was accepted stays on disk, for any processes and any
\* number of faults, as long as its shard can be read (append, prune).
THEOREM LedgerKeeps == Spec => []Recorded
<1>1. Init => RecordedInv
  BY Zenon DEF Init, RecordedInv, Recorded, KnowsTrue
<1>2. TypeOK /\ Ready /\ RecordedInv /\ [Next]_vars => RecordedInv'
  <2>1. CASE UNCHANGED vars
    BY <2>1, Zenon DEF vars, disk, history, RecordedInv, Recorded, KnowsTrue, OnDisk
  <2>2. QED
    BY <2>1, RecordedStep
<1>3. RecordedInv => Recorded
  BY DEF RecordedInv
<1>4. QED
  BY <1>1, <1>2, <1>3, ReadyAlways, PTL DEF Spec
=============================================================================
