----------------------- MODULE ServiceLifecycleProofs -----------------------
(***************************************************************************)
(* What holds of the service and of fullRestore for any processes,          *)
(* terminals and bounds.                                                    *)
(***************************************************************************)
EXTENDS ServiceLifecycle, TLAPS

-----------------------------------------------------------------------------
(* Types                                                                   *)

Terminals ==
  \A c \in Commander :
    ctl[c].at \in {"note", "record", "await", "wait", "kill", "clean"} => ctl[c].pid \in Pid

Held == full \notin {"idle", "prepared"} => displaced # None

ControlStages == {"idle", "check", "spawn", "note", "record", "await", "wait", "kill", "clean"}

ControlOK == ctl \in [Commander -> Control] /\ Terminals

Types == TypeOK /\ Terminals /\ Held

LEMMA TypeFacts ==
  ASSUME Types
  PROVE  /\ db \in Database \cup {None} /\ wal \in (0..MaxRestores) \cup {None}
         /\ rollback \in Database \cup {None} /\ displaced \in Saved \cup {None}
         /\ taken \subseteq Urls /\ source \in Urls /\ full \in Stages /\ phase \in Phases
         /\ botched \in BOOLEAN /\ restores \in 0..MaxRestores /\ faults \in 0..MaxFaults
         /\ life \in [Pid -> Running \cup {"unborn", "ended"}]
         /\ recorded \in (0..MaxRestores) \cup {None} /\ req \in Request \cup {None}
         /\ term \subseteq {i \in Pid : life[i] \in {"up", "closing"}}
         /\ pidFile \in Pid \cup {None} /\ statePid \in Pid \cup {None}
         /\ ControlOK /\ commands \in 0..MaxCommands
         /\ raced \subseteq Pid /\ stranded \subseteq Pid /\ disowned \subseteq Pid
         /\ crowded \in BOOLEAN
BY Zenon DEF Types, TypeOK, DisasterTypeOK, ControlOK

\* What runs in the terminals.
LEMMA GoesTo ==
  ASSUME ControlOK, NEW c \in Commander, NEW stage \in ControlStages, NEW pid \in Pid \cup {None},
         stage \in {"note", "record", "await", "wait", "kill", "clean"} => pid \in Pid,
         To(c, stage, pid)
  PROVE  /\ ControlOK'
         /\ ctl'[c].at = stage /\ ctl'[c].pid = pid /\ ctl'[c].cmd = ctl[c].cmd
         /\ \A d \in Commander \ {c} : ctl'[d] = ctl[d]
<1> DEFINE e == [cmd |-> ctl[c].cmd, at |-> stage, pid |-> pid]
<1>1. ctl[c] \in Control /\ ctl \in [Commander -> Control]
  BY DEF ControlOK
<1>2. ctl' = [ctl EXCEPT ![c] = e]
  BY DEF To
<1>3. e \in Control /\ e.at = stage /\ e.pid = pid /\ e.cmd = ctl[c].cmd
  BY <1>1 DEF Control, ControlStages
<1> HIDE DEF e
<1>4. ctl' \in [Commander -> Control] /\ ctl'[c] = e /\ \A d \in Commander \ {c} : ctl'[d] = ctl[d]
  BY <1>1, <1>2, <1>3
<1>5. Terminals'
  BY <1>3, <1>4 DEF ControlOK, Terminals
<1>6. QED
  BY <1>3, <1>4, <1>5 DEF ControlOK

LEMMA Becomes ==
  ASSUME ControlOK, NEW c \in Commander, NEW e \in Control, 
         e.at \in {"note", "record", "await", "wait", "kill", "clean"} => e.pid \in Pid,
         ctl' = [ctl EXCEPT ![c] = e]
  PROVE  /\ ControlOK'
         /\ ctl'[c] = e
         /\ \A d \in Commander \ {c} : ctl'[d] = ctl[d]
BY DEF ControlOK, Terminals

LEMMA Prompts ==
  AtPrompt \in Control /\ AtPrompt.at = "idle"
  /\ [AtPrompt EXCEPT !.at = "check"] \in Control /\ [AtPrompt EXCEPT !.at = "check"].at = "check"
BY DEF AtPrompt, Control

LEMMA Ends ==
  ASSUME ControlOK, NEW c \in Commander, Return(c)
  PROVE  /\ ControlOK'
         /\ ctl'[c] = AtPrompt
         /\ \A d \in Commander \ {c} : ctl'[d] = ctl[d]
BY Prompts, Becomes DEF Return

-----------------------------------------------------------------------------
LEMMA InitTypes == Init => Types
<1> SUFFICES ASSUME Init PROVE Types
  OBVIOUS
<1>1. faults \in 0..MaxFaults /\ restores \in 0..MaxRestores /\ commands \in 0..MaxCommands
      /\ 0 \in 0..MaxRestores
  BY DisasterAssumption, ServiceAssumption DEF Init, DisasterInit
<1>2. db \in Database
  BY <1>1 DEF Init, DisasterInit, Database, Urls
<1>w. wal \in (0..MaxRestores) \cup {None}
  BY <1>1, DisasterAssumption, Zenon DEF Init, DisasterInit
<1>3. DisasterTypeOK
  BY <1>1, <1>2, <1>w, Zenon DEF Init, DisasterInit, DisasterTypeOK, Urls, Stages, Phases
<1>4. ctl \in [Commander -> Control] /\ Terminals
  BY Prompts, SMT DEF Init, Terminals
<1>5. life \in [Pid -> Running \cup {"unborn", "ended"}]
  BY SMT DEF Init
<1>6. TypeOK
  BY <1>1, <1>3, <1>4, <1>5, Zenon DEF Init, TypeOK
<1>7. QED
  BY <1>4, <1>6, Zenon DEF Types, Held, Init, DisasterInit


\* The takeover's record is written.
LEMMA Written ==
  ASSUME Types, NEW p \in Phases, Writes(p)
  PROVE  phase' \in Phases /\ raced' \subseteq Pid
<1>1. raced \subseteq Pid /\ Doomed \subseteq Pid
  BY TypeFacts, Zenon DEF Doomed
<1>2. QED
  BY <1>1, Zenon DEF Writes

\* An apply or restore goes on, with the request it is about.
LEMMA Going ==
  ASSUME Types, NEW i, NEW stage, NEW next \in RequestStages, Executes(i, stage)
  PROVE  /\ req \in Request /\ req.db \in 0..MaxRestores /\ req.by = i /\ i \in Pid /\ req.at = stage
         /\ [req EXCEPT !.at = next] \in Request
         /\ [req EXCEPT !.at = next].at = next /\ [req EXCEPT !.at = next].db = req.db
         /\ [req EXCEPT !.at = next].by = i
<1>1. req \in Request /\ req.by = i /\ req.at = stage
  BY TypeFacts DEF Executes
<1>2. QED
  BY <1>1 DEF Request

\* The commands and the other processes leave the database files alone.
LEMMA DatabaseKept ==
  ASSUME Types, UNCHANGED disaster, phase' \in Phases, faults' \in 0..MaxFaults
  PROVE  DisasterTypeOK' /\ Held'
BY Zenon DEF Types, TypeOK, DisasterTypeOK, Held, disaster

\* What a fault leaves of the count.
LEMMA Counted == ASSUME Types, Fault \/ UNCHANGED faults PROVE faults' \in 0..MaxFaults
<1>1. faults \in 0..MaxFaults
  BY TypeFacts
<1>2. QED
  BY <1>1, DisasterAssumption DEF Fault

LEMMA Repointed ==
  ASSUME Types, NEW u \in Urls, db # None
  PROVE  [db EXCEPT !.urls = u] \in Database /\ [db EXCEPT !.urls = u].urls = u
         /\ [db EXCEPT !.urls = u].id = db.id
<1>1. db \in Database
  BY TypeFacts
<1>2. QED
  BY <1>1 DEF Database

\* A process that ends, and one that is signalled.
Process == /\ life' \in [Pid -> Running \cup {"unborn", "ended"}]
           /\ term' \subseteq {i \in Pid : life'[i] \in {"up", "closing"}}

LEMMA Ending ==
  ASSUME Types, NEW i \in Pid, Ended(i)
  PROVE  Process /\ req' \in Request \cup {None}
         /\ life'[i] = "ended" /\ \A j \in Pid \ {i} : life'[j] = life[j]
<1>1. /\ life \in [Pid -> Running \cup {"unborn", "ended"}]
      /\ req \in Request \cup {None}
      /\ term \subseteq {j \in Pid : life[j] \in {"up", "closing"}}
  BY TypeFacts
<1>2. life' = [life EXCEPT ![i] = "ended"] /\ term' = term \ {i}
  BY DEF Ended
<1>3. life' \in [Pid -> Running \cup {"unborn", "ended"}] /\ life'[i] = "ended"
      /\ \A j \in Pid \ {i} : life'[j] = life[j]
  BY <1>1, <1>2
<1>4. term' \subseteq {j \in Pid : life'[j] \in {"up", "closing"}}
  BY <1>1, <1>2, <1>3
<1>5. req' \in Request \cup {None}
  BY <1>1 DEF Ended
<1>6. QED
  BY <1>3, <1>4, <1>5 DEF Process

LEMMA Terminating ==
  ASSUME Types, NEW i \in Pid, Terminate(i)
  PROVE  Process /\ life'[i] \in {life[i], "ended"} /\ \A j \in Pid \ {i} : life'[j] = life[j]
<1>1. /\ life \in [Pid -> Running \cup {"unborn", "ended"}]
      /\ term \subseteq {j \in Pid : life[j] \in {"up", "closing"}}
  BY TypeFacts
<1>2. CASE life[i] = "starting"
  <2>1. life' = [life EXCEPT ![i] = "ended"] /\ term' = term
    BY <1>2 DEF Terminate
  <2>2. i \notin term
    BY <1>1, <1>2
  <2>3. life' \in [Pid -> Running \cup {"unborn", "ended"}] /\ life'[i] = "ended"
        /\ \A j \in Pid \ {i} : life'[j] = life[j]
    BY <1>1, <2>1
  <2>4. QED
    BY <1>1, <2>1, <2>2, <2>3 DEF Process
<1>3. CASE life[i] # "starting"
  <2>1. life' = life /\ term' = IF Alive(i) THEN term \cup {i} ELSE term
    BY <1>3 DEF Terminate
  <2>2. Alive(i) => life[i] \in {"up", "closing"}
    BY <1>3 DEF Alive, Running
  <2>3. QED
    BY <1>1, <2>1, <2>2 DEF Process
<1>4. QED
  BY <1>2, <1>3

LEMMA Combined ==
  ASSUME DisasterTypeOK', Held', Process,
         recorded' \in (0..MaxRestores) \cup {None}, req' \in Request \cup {None},
         pidFile' \in Pid \cup {None}, statePid' \in Pid \cup {None},
         ControlOK', commands' \in 0..MaxCommands,
         raced' \subseteq Pid, stranded' \subseteq Pid, disowned' \subseteq Pid,
         crowded' \in BOOLEAN
  PROVE  Types'
BY Zenon DEF Types, TypeOK, ControlOK, Process

LEMMA ProcessKept == ASSUME Types, UNCHANGED <<life, term>> PROVE Process
BY TypeFacts, Zenon DEF Process

LEMMA ControlKept == ASSUME Types, UNCHANGED ctl PROVE ControlOK'
BY TypeFacts, Zenon DEF ControlOK, Terminals

-----------------------------------------------------------------------------
LEMMA ServeTypes == ASSUME Types, NEW i \in Pid, Serve(i) PROVE Types'
<1>1. UNCHANGED disaster /\ phase' = phase /\ phase' \in Phases /\ faults' \in 0..MaxFaults
      /\ DisasterTypeOK' /\ Held' /\ ControlOK'
      /\ UNCHANGED <<recorded, commands, raced, disowned, crowded>>
  <2>1. UNCHANGED disaster /\ phase' = phase /\ (Fault \/ UNCHANGED faults) /\ UNCHANGED ctl
        /\ UNCHANGED <<recorded, commands, raced, disowned, crowded>>
    BY Zenon DEF Serve, Boot, HandleTerm, CloseDone, Crash, Signal, takeover, history
  <2>2. phase' \in Phases /\ faults' \in 0..MaxFaults
    BY <2>1, TypeFacts, Counted
  <2>3. QED
    BY <2>1, <2>2, DatabaseKept, ControlKept
<1>2. Process
  <2>1. /\ life \in [Pid -> Running \cup {"unborn", "ended"}]
        /\ term \subseteq {j \in Pid : life[j] \in {"up", "closing"}}
    BY TypeFacts
  <2>2. CASE Boot(i)
    <3>1. life[i] = "starting" /\ term' = term
          /\ (life' = [life EXCEPT ![i] = "ended"] \/ life' = [life EXCEPT ![i] = "up"])
      BY <2>2 DEF Boot
    <3>2. i \notin term
      BY <2>1, <3>1
    <3>3. life' \in [Pid -> Running \cup {"unborn", "ended"}]
          /\ \A j \in Pid \ {i} : life'[j] = life[j]
      BY <2>1, <3>1 DEF Running
    <3>4. QED
      BY <2>1, <3>1, <3>2, <3>3 DEF Process
  <2>3. CASE HandleTerm(i)
    <3>1. term' = term \ {i}
          /\ (life' = [life EXCEPT ![i] = "closing"] \/ life' = life)
      BY <2>3 DEF HandleTerm
    <3>2. life' \in [Pid -> Running \cup {"unborn", "ended"}]
          /\ \A j \in Pid \ {i} : life'[j] = life[j]
      BY <2>1, <3>1 DEF Running
    <3>3. QED
      BY <2>1, <3>1, <3>2 DEF Process
  <2>4. CASE CloseDone(i) \/ Crash(i)
    BY <2>4, Ending DEF CloseDone, Crash, Stopped
  <2>5. CASE Signal(i)
    BY <2>5, Terminating DEF Signal
  <2>6. QED
    BY <2>2, <2>3, <2>4, <2>5 DEF Serve
<1>3. req' \in Request \cup {None}
  <2>1. CASE CloseDone(i) \/ Crash(i)
    BY <2>1, Ending DEF CloseDone, Crash, Stopped
  <2>2. CASE ~ (CloseDone(i) \/ Crash(i))
    BY <2>2, TypeFacts, Zenon DEF Serve, Boot, HandleTerm, Signal, takeover
  <2>3. QED
    BY <2>1, <2>2
<1>4. pidFile' \in Pid \cup {None} /\ statePid' \in Pid \cup {None}
  BY TypeFacts, Zenon DEF Serve, Boot, HandleTerm, CloseDone, Crash, Signal
<1>5. stranded' \subseteq Pid
  BY TypeFacts, Zenon DEF Serve, Boot, HandleTerm, CloseDone, Crash, Signal, Stopped, history
<1>6. QED
  BY <1>1, <1>2, <1>3, <1>4, <1>5, TypeFacts, Combined, Zenon

\* Applying and restoring touch the endpoints and the record, not the processes.
LEMMA ExecuteTypes == ASSUME Types, NEW i \in Pid, Execute(i) PROVE Types'
<1>1. UNCHANGED <<wal, rollback, restoring, life, term, pidFile, statePid, ctl, commands, history>>
      /\ (Fault \/ UNCHANGED faults)
  BY Zenon DEF Execute, ReceiveApply, Recover, ApplyRecord, ApplyCommit, ApplyVerify,
               ReceiveRestore, RestoreCommit, RestoreVerify, Snapshot,
               onlyTakeover, disaster, database, restoring, service, takeover
<1>2. Process /\ ControlOK' /\ faults' \in 0..MaxFaults
  BY <1>1, ProcessKept, ControlKept, Counted
<1>3. (UNCHANGED <<phase, raced>> \/ \E p \in Phases : Writes(p))
  BY Zenon DEF Execute, ReceiveApply, Recover, ApplyRecord, ApplyCommit, ApplyVerify,
               ReceiveRestore, RestoreCommit, RestoreVerify, Snapshot, ApplyFailed, RestoreFailed,
               Phases, ActivePhases
<1>4. phase' \in Phases /\ raced' \subseteq Pid
  BY <1>3, TypeFacts, Written
<1>5. db' \in Database \cup {None}
  <2>1. UNCHANGED db \/ (db # None /\ \E u \in Urls : db' = [db EXCEPT !.urls = u])
    BY Zenon DEF Execute, ReceiveApply, Recover, ApplyRecord, ApplyCommit, ApplyVerify,
                 ReceiveRestore, RestoreCommit, RestoreVerify, Snapshot,
                 onlyTakeover, disaster, database, Urls
  <2>2. QED
    BY <2>1, TypeFacts, Repointed
<1>6. taken' \subseteq Urls
  <2>1. taken' \in {taken, taken \cup {db.urls}} /\ (taken' # taken => db # None)
    BY Zenon DEF Execute, ReceiveApply, Recover, ApplyRecord, ApplyCommit, ApplyVerify,
                 ReceiveRestore, RestoreCommit, RestoreVerify, Snapshot,
                 onlyTakeover, disaster
  <2>2. db # None => db.urls \in Urls
    BY TypeFacts DEF Database
  <2>3. QED
    BY <2>1, <2>2, TypeFacts
<1>7. DisasterTypeOK'
  BY <1>1, <1>2, <1>4, <1>5, <1>6, TypeFacts, Zenon DEF DisasterTypeOK, restoring
<1>8. Held'
  BY <1>1, Zenon DEF Types, Held, restoring
<1>9. req' \in Request \cup {None} /\ recorded' \in (0..MaxRestores) \cup {None}
  <2>1. CASE ReceiveApply(i) \/ ReceiveRestore(i)
    <3>1. db # None /\ recorded' = recorded
          /\ (req' = [by |-> i, at |-> "backup", db |-> db.id]
              \/ req' = [by |-> i, at |-> "restore", db |-> db.id])
      BY <2>1 DEF ReceiveApply, ReceiveRestore
    <3>2. db.id \in 0..MaxRestores
      BY <3>1, TypeFacts DEF Database
    <3>3. QED
      BY <3>1, <3>2, TypeFacts DEF Request, RequestStages
  <2>2. CASE ApplyRecord(i)
    BY <2>2, Going, TypeFacts DEF ApplyRecord, Goes, RequestStages
  <2>3. CASE ApplyCommit(i) \/ RestoreCommit(i)
    BY <2>3, Going, TypeFacts DEF ApplyCommit, RestoreCommit, Goes, RequestStages
  <2>4. CASE ApplyVerify(i) \/ RestoreVerify(i) \/ Recover(i) \/ Snapshot(i)
    BY <2>4, TypeFacts, Zenon DEF ApplyVerify, RestoreVerify, Recover, Snapshot, takeover
  <2>5. QED
    BY <2>1, <2>2, <2>3, <2>4 DEF Execute
<1>10. QED
  BY <1>1, <1>2, <1>4, <1>7, <1>8, <1>9, TypeFacts, Combined, Zenon DEF history

-----------------------------------------------------------------------------
LEMMA CommandTypes == ASSUME Types, NEW c \in Commander, Command(c) PROVE Types'
<1>1. UNCHANGED disaster /\ phase' = phase /\ (Fault \/ UNCHANGED faults)
      /\ UNCHANGED <<recorded, raced>>
  BY Zenon DEF Command, StartBegin, StartCheck, StartSpawn, StartNote, StartRecord,
               StartDone, StartGivesUp, StopBegin,
               StopWaited, StopDeadline, StopKill, StopClean, CommandDies, outside
<1>2. DisasterTypeOK' /\ Held'
  BY <1>1, Counted, DatabaseKept, TypeFacts
<1>3. commands' \in 0..MaxCommands
  <2>1. commands' = commands \/ (commands < MaxCommands /\ commands' = commands + 1)
    BY Zenon DEF Command, StartBegin, StartCheck, StartSpawn, StartNote, StartRecord,
               StartDone, StartGivesUp, StopBegin,
                 StopWaited, StopDeadline, StopKill, StopClean, CommandDies
  <2>2. QED
    BY <2>1, TypeFacts, ServiceAssumption
<1>4. Known \in Pid \cup {None} /\ (Alive(Known) => Known \in Pid)
  BY TypeFacts, ServiceAssumption DEF Known, Alive
<1>5. ctl[c] \in Control /\ ctl[c].pid \in Pid \cup {None} /\ None \notin Pid
      /\ (ctl[c].at \in {"note", "record", "await", "wait", "kill", "clean"} => ctl[c].pid \in Pid)
  BY TypeFacts, ServiceAssumption DEF ControlOK, Terminals, Control
<1>6. ControlOK'
  <2>1. CASE StartBegin(c)
    <3> DEFINE e == [ctl[c] EXCEPT !.at = "check"]
    <3>1. e \in Control /\ e.at = "check"
      BY <1>5 DEF Control
    <3>2. ctl' = [ctl EXCEPT ![c] = e]
      BY <2>1, <1>5 DEF StartBegin
    <3> HIDE DEF e
    <3>3. QED
      BY <3>1, <3>2, TypeFacts, Becomes
  <2>2. CASE StartCheck(c)
    BY <2>2, TypeFacts, Ends, GoesTo DEF StartCheck, ControlStages
  <2>3. CASE \E i \in Pid : StartSpawn(c, i)
    BY <2>3, TypeFacts, GoesTo DEF StartSpawn, ControlStages
  <2>n. CASE StartNote(c) \/ StartRecord(c)
    BY <2>n, <1>5, TypeFacts, GoesTo DEF StartNote, StartRecord, At, ControlStages
  <2>4. CASE StartDone(c) \/ StartGivesUp(c) \/ CommandDies(c)
    BY <2>4, TypeFacts, Ends DEF StartDone, StartGivesUp, CommandDies
  <2>5. ASSUME NEW cmd \in {"stop", "restart"}, StopBegin(c, cmd) PROVE ControlOK'
    <3>1. CASE Alive(Known)
      <4> DEFINE e == [cmd |-> cmd, at |-> "wait", pid |-> Known]
      <4>1. e \in Control /\ e.pid \in Pid
        BY <1>4, <3>1 DEF Control
      <4>2. ctl' = [ctl EXCEPT ![c] = e]
        BY <2>5, <3>1 DEF StopBegin
      <4> HIDE DEF e
      <4>3. QED
        BY <4>1, <4>2, TypeFacts, Becomes
    <3>2. CASE ~ Alive(Known)
      <4> DEFINE e == IF cmd = "restart" THEN [AtPrompt EXCEPT !.at = "check"] ELSE AtPrompt
      <4>1. e \in Control /\ e.at \in {"idle", "check"}
        BY Prompts
      <4>2. ctl' = [ctl EXCEPT ![c] = e]
        BY <2>5, <3>2 DEF StopBegin
      <4> HIDE DEF e
      <4>3. QED
        BY <4>1, <4>2, TypeFacts, Becomes
    <3>3. QED
      BY <3>1, <3>2
  <2>6. CASE StopWaited(c)
    BY <2>6, <1>5, TypeFacts, GoesTo DEF StopWaited, At, ControlStages
  <2>7. CASE StopDeadline(c)
    BY <2>7, <1>5, TypeFacts, GoesTo, Ends DEF StopDeadline, At, Refused, ControlStages
  <2>8. CASE StopKill(c)
    BY <2>8, <1>5, TypeFacts, GoesTo DEF StopKill, At, ControlStages
  <2>9. CASE StopClean(c)
    BY <2>9, TypeFacts, GoesTo, Ends DEF StopClean, AfterStop, ControlStages
  <2>10. QED
    BY <2>1, <2>2, <2>3, <2>n, <2>4, <2>5, <2>6, <2>7, <2>8, <2>9 DEF Command
<1>7. Process
  <2>1. CASE \E i \in Pid : StartSpawn(c, i)
    <3>1. PICK i \in Pid : life[i] = "unborn" /\ life' = [life EXCEPT ![i] = "starting"] /\ term' = term
      BY <2>1 DEF StartSpawn
    <3>2. /\ life \in [Pid -> Running \cup {"unborn", "ended"}]
          /\ term \subseteq {j \in Pid : life[j] \in {"up", "closing"}}
      BY TypeFacts
    <3>3. life' \in [Pid -> Running \cup {"unborn", "ended"}] /\ \A j \in Pid \ {i} : life'[j] = life[j]
          /\ i \notin term
      BY <3>1, <3>2 DEF Running
    <3>4. QED
      BY <3>1, <3>2, <3>3 DEF Process
  <2>2. CASE StartGivesUp(c)
    BY <2>2, <1>5, Terminating DEF StartGivesUp, At
  <2>3. CASE \E cmd \in {"stop", "restart"} : StopBegin(c, cmd)
    BY <2>3, <1>4, Terminating, ProcessKept DEF StopBegin
  <2>4. CASE StopKill(c)
    BY <2>4, <1>5, Ending, ProcessKept DEF StopKill, Stopped, At
  <2>5. CASE ~ ((\E i \in Pid : StartSpawn(c, i)) \/ StartGivesUp(c) \/ StopKill(c)
                \/ (\E cmd \in {"stop", "restart"} : StopBegin(c, cmd)))
    BY <2>5, ProcessKept, Zenon DEF Command, StartBegin, StartCheck, StartNote, StartRecord,
         StartDone, StopWaited,
                                    StopDeadline, StopClean, CommandDies, service
  <2>6. QED
    BY <2>1, <2>2, <2>3, <2>4, <2>5
<1>8. req' \in Request \cup {None}
  <2>1. CASE StopKill(c)
    BY <2>1, <1>5, Ending, TypeFacts DEF StopKill, Stopped, At
  <2>2. CASE ~ StopKill(c)
    BY <2>2, TypeFacts, Zenon DEF Command, StartBegin, StartCheck, StartSpawn, StartNote, StartRecord,
         StartDone, StartGivesUp, StopBegin, StopWaited, StopDeadline, StopClean, CommandDies
  <2>3. QED
    BY <2>1, <2>2
<1>9. pidFile' \in Pid \cup {None} /\ statePid' \in Pid \cup {None}
  BY <1>5, TypeFacts, Zenon DEF Command, StartBegin, StartCheck, StartSpawn, StartNote, StartRecord,
       StartDone, StartGivesUp, StopBegin, StopWaited, StopDeadline, StopKill, StopClean,
       CommandDies, service
<1>10. stranded' \subseteq Pid /\ disowned' \subseteq Pid
  <2>1. CASE StopKill(c) \/ StartGivesUp(c) \/ CommandDies(c)
    BY <2>1, <1>5, TypeFacts, Zenon DEF StopKill, StartGivesUp, CommandDies, Stopped, At
  <2>2. CASE ~ (StopKill(c) \/ StartGivesUp(c) \/ CommandDies(c))
    BY <2>2, TypeFacts, Zenon DEF Command, StartBegin, StartCheck, StartSpawn, StartNote, StartRecord,
         StartDone, StopBegin, StopWaited, StopDeadline, StopClean, history
  <2>3. QED
    BY <2>1, <2>2
<1>c. crowded' \in BOOLEAN
  <2>1. crowded' = crowded \/ Crowds(c)
    BY Zenon DEF Command, StartBegin, StartCheck, StartSpawn, StartNote, StartRecord,
       StartDone, StartGivesUp, StopBegin, StopWaited, StopDeadline, StopKill, StopClean,
       CommandDies, history
  <2>2. QED
    BY <2>1, TypeFacts, Zenon DEF Crowds
<1>11. QED
  BY <1>1, <1>2, <1>3, <1>6, <1>7, <1>8, <1>9, <1>10, <1>c, TypeFacts, Combined, Zenon

-----------------------------------------------------------------------------
LEMMA RestoreTypes == ASSUME Types, HostRestores PROVE Types'
<1>1. FullStep /\ UNCHANGED <<service, takeover, ctl, commands, raced, history>>
  BY DEF HostRestores
<1>2. Process /\ ControlOK'
  BY <1>1, ProcessKept, ControlKept DEF service
<1>3. DisasterTypeOK' /\ Held'
  <2>1. FullPrepare => DisasterTypeOK' /\ Held'
    <3> SUFFICES ASSUME FullPrepare PROVE DisasterTypeOK' /\ Held'
      OBVIOUS
    <3>1. db.urls \in Urls
      BY TypeFacts DEF FullPrepare, Database
    <3>2. restores' \in 0..MaxRestores
      BY TypeFacts, DisasterAssumption DEF FullPrepare
    <3>3. source' \in Urls /\ taken' \subseteq Urls /\ full' = "prepared"
      BY <3>1, TypeFacts DEF FullPrepare
    <3>4. QED
      BY <3>2, <3>3, TypeFacts, Zenon DEF FullPrepare, DisasterTypeOK, Held, database, Stages
  <2>2. Displace => DisasterTypeOK' /\ Held'
    <3> SUFFICES ASSUME Displace PROVE DisasterTypeOK' /\ Held'
      OBVIOUS
    <3>1. displaced' \in Saved
      BY TypeFacts DEF Displace, Saved
    <3>2. displaced' # None
      BY <3>1, NoneAssumption
    <3>3. QED
      BY <3>1, <3>2, TypeFacts, Zenon DEF Displace, DisasterTypeOK, Held, database, Stages
  <2>3. MoveIn => DisasterTypeOK' /\ Held'
    <3> SUFFICES ASSUME MoveIn PROVE DisasterTypeOK' /\ Held'
      OBVIOUS
    <3>1. db' \in Database
      BY TypeFacts DEF MoveIn, Database
    <3>2. QED
      BY <3>1, TypeFacts, Zenon DEF MoveIn, DisasterTypeOK, Types, Held, Stages
  <2>o. Opened => wal' \in (0..MaxRestores) \cup {None}
    BY TypeFacts, Zenon DEF Opened
  <2>v. Verify => DisasterTypeOK' /\ Held'
    BY <2>o, TypeFacts, Zenon DEF Verify, DisasterTypeOK, Types, Held, Stages
  <2>4. MoveOut \/ DropSideFiles \/ DropRollback \/ FullRecord => DisasterTypeOK' /\ Held'
    BY TypeFacts, Zenon DEF MoveOut, DropSideFiles, DropRollback, FullRecord, Over, SetAside,
         SideFiles, DisasterTypeOK, Types, Held, Stages, Phases, Urls, database
  <2>5. FullFails \/ FullDies => DisasterTypeOK' /\ Held'
    <3> SUFFICES ASSUME FullFails \/ FullDies PROVE DisasterTypeOK' /\ Held'
      OBVIOUS
    <3>1. faults' \in 0..MaxFaults
      BY Counted DEF FullFails, FullDies
    <3>2. botched' \in BOOLEAN
      BY TypeFacts, Zenon DEF FullFails, FullDies
    <3>3. QED
      BY <2>o, <3>1, <3>2, TypeFacts, Zenon DEF FullFails, FullDies, Over, DisasterTypeOK, Types, Held,
           Stages, Urls, database
  <2>6. UndoRemove \/ UndoMove \/ UndoSideFiles => DisasterTypeOK' /\ Held'
    <3> SUFFICES ASSUME UndoRemove \/ UndoMove \/ UndoSideFiles PROVE DisasterTypeOK' /\ Held'
      OBVIOUS
    <3>1. faults' \in 0..MaxFaults
      BY Counted, Zenon DEF UndoRemove, UndoMove, UndoSideFiles, Undo
    <3>2. full = "undo-wal" => displaced.wal \in (0..MaxRestores) \cup {None}
      BY TypeFacts DEF Types, Held, Saved
    <3>3. db' \in Database \cup {None} /\ rollback' \in Database \cup {None}
          /\ wal' \in (0..MaxRestores) \cup {None}
      BY <3>2, TypeFacts, Zenon DEF UndoRemove, UndoMove, UndoSideFiles, Undo, MovedBack, SideFilesBack,
           database
    <3>4. QED
      BY <3>1, <3>3, TypeFacts, Zenon DEF UndoRemove, UndoMove, UndoSideFiles, Undo, DisasterTypeOK,
           Types, Held, Stages
  <2>7. QED
    BY <1>1, <2>1, <2>2, <2>3, <2>v, <2>4, <2>5, <2>6, Zenon DEF FullStep
<1>4. QED
  BY <1>1, <1>2, <1>3, TypeFacts, Combined, Zenon DEF service, takeover, history

LEMMA KeptTypes == ASSUME Types, UNCHANGED vars PROVE Types'
<1>1. UNCHANGED disaster /\ UNCHANGED <<phase, faults, raced>>
      /\ UNCHANGED <<service, takeover, ctl, commands, history>>
  BY Zenon DEF vars
<1>2. DisasterTypeOK' /\ Held'
  BY <1>1, Zenon DEF Types, TypeOK, DisasterTypeOK, Held, disaster
<1>3. Terminals'
  BY <1>1, Zenon DEF Types, Terminals
<1>4. QED
  BY <1>1, <1>2, <1>3, Zenon DEF Types, TypeOK, disaster, service, takeover, history

LEMMA StepTypes == Types /\ [Next]_vars => Types'
<1> SUFFICES ASSUME Types, [Next]_vars PROVE Types'
  OBVIOUS
<1>1. ASSUME NEW i \in Pid, Serve(i) \/ Execute(i) PROVE Types'
  BY <1>1, ServeTypes, ExecuteTypes
<1>2. ASSUME NEW c \in Commander, Command(c) PROVE Types'
  BY <1>2, CommandTypes
<1>3. QED
  BY <1>1, <1>2, RestoreTypes, KeptTypes DEF Next

\* Every value the service, the takeover and fullRestore keep is of its kind,
\* and a SIGTERM is pending only at a process that has its handler for it.
THEOREM ServiceTypes == Spec => []TypeOK
<1>1. Types => TypeOK
  BY DEF Types
<1>2. QED
  BY InitTypes, StepTypes, <1>1, PTL DEF Spec

-----------------------------------------------------------------------------
(* Stopping under a takeover                                               *)

\* Whoever is being closed or killed under a takeover was so when it began.
Raced == (InForce => Doomed \subseteq raced) /\ stranded \subseteq raced

\* Nobody is newly doomed while a takeover is in force.
LEMMA RacedKept ==
  ASSUME Raced, UNCHANGED <<phase, raced, stranded>>, InForce => Doomed' \subseteq Doomed
  PROVE  Raced'
BY Zenon DEF Raced, InForce

\* One who is ended is one who was doomed.
LEMMA RacedStop ==
  ASSUME Raced, NEW i \in Doomed, UNCHANGED <<phase, raced>>, Doomed' \subseteq Doomed,
         stranded' = IF InForce THEN stranded \cup {i} ELSE stranded
  PROVE  Raced'
BY Zenon DEF Raced, InForce

LEMMA RacedWritten ==
  ASSUME Raced, NEW p \in Phases, Writes(p), UNCHANGED <<life, ctl, stranded>>
  PROVE  Raced'
<1>1. Doomed' = Doomed
  BY Zenon DEF Doomed
<1>2. QED
  BY <1>1, Zenon DEF Raced, Writes, InForce

\* A process that is not closing afterwards is doomed only by a kill.
LEMMA DoomedBy ==
  ASSUME \A j \in Pid : life'[j] = "closing" => life[j] = "closing",
         \A c \in Commander : ctl'[c].at = "kill" => ctl'[c] = ctl[c]
  PROVE  Doomed' \subseteq Doomed
BY Zenon DEF Doomed

LEMMA ServeRaced == ASSUME Types, Raced, NEW i \in Pid, Serve(i) PROVE Raced'
<1>1. life \in [Pid -> Running \cup {"unborn", "ended"}]
  BY TypeFacts
<1>2. CASE HandleTerm(i)
  <2>1. InForce => life' = life
    BY <1>2 DEF HandleTerm, MayStop
  <2>2. InForce => Doomed' \subseteq Doomed
    BY <1>2, <2>1, Zenon DEF Doomed, HandleTerm
  <2>3. QED
    BY <1>2, <2>2, RacedKept DEF HandleTerm, history
<1>3. CASE Boot(i)
  <2>1. \A j \in Pid : life'[j] = "closing" => life[j] = "closing"
    BY <1>1, <1>3 DEF Boot
  <2>2. Doomed' \subseteq Doomed
    BY <1>3, <2>1, DoomedBy DEF Boot
  <2>3. QED
    BY <1>3, <2>2, RacedKept DEF Boot, history
<1>4. CASE CloseDone(i)
  <2>1. i \in Doomed
    BY <1>4 DEF CloseDone, Doomed
  <2>2. Ended(i) /\ stranded' = IF InForce THEN stranded \cup {i} ELSE stranded
    BY <1>4 DEF CloseDone, Stopped
  <2>3. Doomed' \subseteq Doomed
    BY <1>4, <2>2, Ending, DoomedBy DEF CloseDone
  <2>4. QED
    BY <1>4, <2>1, <2>2, <2>3, RacedStop DEF CloseDone
<1>5. CASE Crash(i)
  <2>1. Doomed' \subseteq Doomed
    BY <1>5, Ending, DoomedBy DEF Crash
  <2>2. QED
    BY <1>5, <2>1, RacedKept DEF Crash, history
<1>6. CASE Signal(i)
  <2>1. Doomed' \subseteq Doomed
    BY <1>6, Terminating, DoomedBy DEF Signal
  <2>2. QED
    BY <1>6, <2>1, RacedKept DEF Signal, history
<1>7. QED
  BY <1>2, <1>3, <1>4, <1>5, <1>6 DEF Serve

LEMMA ExecuteRaced == ASSUME Raced, NEW i \in Pid, Execute(i) PROVE Raced'
<1>1. UNCHANGED <<life, ctl, stranded>>
  BY Zenon DEF Execute, ReceiveApply, Recover, ApplyRecord, ApplyCommit, ApplyVerify,
               ReceiveRestore, RestoreCommit, RestoreVerify, Snapshot,
               onlyTakeover, service, history
<1>2. UNCHANGED <<phase, raced>> \/ \E p \in Phases : Writes(p)
  BY Zenon DEF Execute, ReceiveApply, Recover, ApplyRecord, ApplyCommit, ApplyVerify,
               ReceiveRestore, RestoreCommit, RestoreVerify, Snapshot, ApplyFailed, RestoreFailed,
               Phases, ActivePhases
<1>3. CASE UNCHANGED <<phase, raced>>
  <2>1. Doomed' = Doomed
    BY <1>1, Zenon DEF Doomed
  <2>2. QED
    BY <1>1, <1>3, <2>1, RacedKept
<1>4. QED
  BY <1>1, <1>2, <1>3, RacedWritten

LEMMA CommandRaced == ASSUME Types, Raced, NEW c \in Commander, Command(c) PROVE Raced'
<1>1. UNCHANGED <<phase, raced>>
  BY Zenon DEF Command, StartBegin, StartCheck, StartSpawn, StartNote, StartRecord,
               StartDone, StartGivesUp, StopBegin,
               StopWaited, StopDeadline, StopKill, StopClean, CommandDies, outside
<1>2. /\ life \in [Pid -> Running \cup {"unborn", "ended"}]
      /\ ControlOK /\ ctl[c] \in Control /\ None \notin Pid
      /\ (ctl[c].at \in {"note", "record", "await", "wait", "kill", "clean"} => ctl[c].pid \in Pid)
  BY TypeFacts, ServiceAssumption DEF ControlOK, Terminals
<1>3. CASE StopKill(c)
  <2>1. ctl[c].at = "kill" /\ ctl[c].pid \in Pid /\ ctl[c].pid \in Doomed
    BY <1>2, <1>3 DEF StopKill, At, Doomed
  <2>2. \A d \in Commander : ctl'[d].at = "kill" => ctl'[d] = ctl[d]
    BY <1>2, <1>3, <2>1, GoesTo DEF StopKill, ControlStages
  <2>3. CASE Alive(ctl[c].pid)
    <3>1. Stopped(ctl[c].pid)
      BY <1>3, <2>3 DEF StopKill
    <3>2. Doomed' \subseteq Doomed
      BY <2>1, <2>2, <3>1, Ending, DoomedBy DEF Stopped
    <3>3. QED
      BY <1>1, <2>1, <3>1, <3>2, RacedStop DEF Stopped
  <2>4. CASE ~ Alive(ctl[c].pid)
    <3>1. UNCHANGED <<life, stranded>>
      BY <1>3, <2>4 DEF StopKill
    <3>2. QED
      BY <1>1, <2>2, <3>1, DoomedBy, RacedKept
  <2>5. QED
    BY <2>3, <2>4
<1>4. CASE StopDeadline(c)
  <2>1. UNCHANGED <<life, stranded>>
    BY <1>4 DEF StopDeadline, service, history
  <2>2. InForce => Return(c)
    BY <1>4 DEF StopDeadline, MayStop, Refused
  <2>3. InForce => Doomed' \subseteq Doomed
    BY <1>2, <2>1, <2>2, Ends, Prompts, DoomedBy
  <2>4. QED
    BY <1>1, <2>1, <2>3, RacedKept
<1>5. CASE ~ (StopKill(c) \/ StopDeadline(c))
  <2>1. UNCHANGED stranded
    BY <1>5, Zenon DEF Command, StartBegin, StartCheck, StartSpawn, StartNote, StartRecord, StartDone,
                       StartGivesUp, StopBegin, StopWaited, StopClean, CommandDies, history
  <2>2. \A j \in Pid : life'[j] = "closing" => life[j] = "closing"
    <3>1. CASE StartGivesUp(c)
      BY <1>2, <3>1, Terminating DEF StartGivesUp, At
    <3>2. CASE \E i \in Pid : StartSpawn(c, i)
      BY <1>2, <3>2 DEF StartSpawn
    <3>3. CASE \E cmd \in {"stop", "restart"} : StopBegin(c, cmd)
      <4>1. Alive(Known) => Known \in Pid
        BY TypeFacts DEF Known, Alive
      <4>2. (Alive(Known) /\ Terminate(Known)) \/ UNCHANGED life
        BY <3>3 DEF StopBegin
      <4>3. QED
        BY <4>1, <4>2, Terminating
    <3>4. QED
      BY <1>5, <3>1, <3>2, <3>3, Zenon DEF Command, StartBegin, StartCheck, StartNote,
           StartRecord, StartDone,
           StopWaited, StopClean, CommandDies, service
  <2>3. \A d \in Commander : ctl'[d].at = "kill" => ctl'[d] = ctl[d]
    <3>1. ControlOK
      BY <1>2
    <3>2. CASE StartBegin(c)
      BY <1>2, <3>2 DEF StartBegin, ControlOK, Control
    <3>3. CASE StartCheck(c) \/ StartDone(c) \/ StartGivesUp(c) \/ CommandDies(c) \/ StopClean(c)
      <4>1. Return(c) \/ (\E stage \in {"check", "spawn"} : To(c, stage, None))
        BY <3>3, Zenon DEF StartCheck, StartNote, StartRecord, StartDone, StartGivesUp,
             CommandDies, StopClean, AfterStop
      <4>2. QED
        BY <1>2, <4>1, Ends, Prompts, GoesTo DEF ControlStages
    <3>4. CASE \E i \in Pid : StartSpawn(c, i)
      BY <1>2, <3>4, GoesTo DEF StartSpawn, ControlStages
    <3>n. CASE StartNote(c) \/ StartRecord(c)
      BY <1>2, <3>n, GoesTo DEF StartNote, StartRecord, At, ControlStages
    <3>5. CASE StopWaited(c)
      BY <1>2, <3>5, GoesTo DEF StopWaited, At, ControlStages
    <3>6. CASE \E cmd \in {"stop", "restart"} : StopBegin(c, cmd)
      <4>1. PICK e : ctl' = [ctl EXCEPT ![c] = e] /\ e.at # "kill"
        <5>1. PICK cmd \in {"stop", "restart"} : StopBegin(c, cmd)
          BY <3>6
        <5>2. CASE Alive(Known)
          <6>1. ctl' = [ctl EXCEPT ![c] = [cmd |-> cmd, at |-> "wait", pid |-> Known]]
            BY <5>1, <5>2 DEF StopBegin
          <6>2. [cmd |-> cmd, at |-> "wait", pid |-> Known].at # "kill"
            OBVIOUS
          <6>3. QED
            BY <6>1, <6>2, Zenon
        <5>3. CASE ~ Alive(Known)
          <6>1. ctl' = [ctl EXCEPT ![c] = [AtPrompt EXCEPT !.at = "check"]]
                \/ ctl' = [ctl EXCEPT ![c] = AtPrompt]
            BY <5>1, <5>3 DEF StopBegin
          <6>2. QED
            BY <6>1, Prompts
        <5>4. QED
          BY <5>2, <5>3
      <4>2. QED
        BY <1>2, <4>1 DEF ControlOK
    <3>7. QED
      BY <1>5, <3>2, <3>3, <3>4, <3>n, <3>5, <3>6, Zenon DEF Command
  <2>4. QED
    BY <1>1, <2>1, <2>2, <2>3, DoomedBy, RacedKept
<1>6. QED
  BY <1>3, <1>4, <1>5

LEMMA RestoreRaced == ASSUME Raced, HostRestores PROVE Raced'
<1>1. UNCHANGED <<service, takeover, ctl, commands, raced, history>>
      /\ (phase' = phase \/ phase' = "full-restored")
  BY Zenon DEF HostRestores, FullStep, FullPrepare, Displace, MoveOut, DropSideFiles, MoveIn, Verify,
     DropRollback, FullRecord, FullFails, UndoRemove, UndoMove, UndoSideFiles, Undo, FullDies
<1>2. Doomed' = Doomed
  BY <1>1, Zenon DEF Doomed, service
<1>3. QED
  BY <1>1, <1>2 DEF Raced, InForce, ActivePhases, history

LEMMA StepRaced == Types /\ Raced /\ [Next]_vars => Raced'
<1> SUFFICES ASSUME Types, Raced, [Next]_vars PROVE Raced'
  OBVIOUS
<1>1. CASE UNCHANGED vars
  BY <1>1, Zenon DEF Raced, InForce, Doomed, vars, service, history
<1>2. QED
  BY <1>1, ServeRaced, ExecuteRaced, CommandRaced, RestoreRaced DEF Next

\* A service is stopped under a takeover only when the takeover began after
\* the last check of the one who stops it, whatever the number of terminals and
\* service processes (proxy-server.js:142, service.js:127).
THEOREM StopsRacedOnly == Spec => []StrandsOnlyRaced
<1>1. Init => Raced
  BY DEF Init, DisasterInit, Raced, InForce, ActivePhases
<1>2. Raced => StrandsOnlyRaced
  BY DEF Raced, StrandsOnlyRaced
<1>3. QED
  BY InitTypes, StepTypes, <1>1, StepRaced, <1>2, PTL DEF Spec

-----------------------------------------------------------------------------
(* The database during a full restore                                      *)

\* Where fullRestore is, as long as no rename and no undoing has failed: the
\* database that was there is under one name or the other, and its copy knows
\* which one it is.
Placed ==
  ~ botched =>
    /\ db = None => rollback # None
    /\ full \in {"prepared", "displaced", "in", "verified", "failed"} => db # None
    /\ full \in {"out", "bare"} => db = None
    /\ full \in {"out", "bare", "in", "verified", "undo", "undo-move"} =>
         rollback # None /\ rollback.id = displaced.db.id
    /\ full \in {"displaced", "undo-wal", "failed"} => db # None /\ db.id = displaced.db.id

\* Whose the side files are.
SideFilesPlaced ==
  ~ botched =>
    /\ db # None /\ wal # None /\ full # "undo-wal" => wal = db.id
    /\ full \in {"bare", "in"} => wal = None
    /\ full = "in" => db.id = restores
    /\ full = "displaced" => wal = displaced.wal
    /\ full \notin {"idle", "prepared"} /\ displaced.wal # None => displaced.wal = displaced.db.id
    /\ full = "failed" => wal = displaced.wal

LEMMA PlacedStep == ASSUME Types, Placed, FullStep PROVE Placed'
<1>1. /\ db \in Database \cup {None} /\ rollback \in Database \cup {None}
      /\ None \notin Database
  BY TypeFacts, NoneAssumption
<1>2. CASE FullPrepare
  BY <1>2 DEF FullPrepare, Placed, database
<1>3. CASE Displace
  BY <1>3 DEF Displace, Placed, database
<1>4. CASE MoveOut
  BY <1>4 DEF MoveOut, SetAside, Placed
<1>5. CASE DropSideFiles
  BY <1>5 DEF DropSideFiles, Placed
<1>6. CASE MoveIn
  <2>1. db' \in Database
    BY <1>6, TypeFacts DEF MoveIn, Database
  <2>2. QED
    BY <1>1, <1>6, <2>1 DEF MoveIn, Placed
<1>7. CASE Verify
  BY <1>7 DEF Verify, Placed
<1>8. CASE DropRollback
  BY <1>8 DEF DropRollback, Placed
<1>9. CASE FullRecord
  BY <1>9 DEF FullRecord, Over, Placed, database
<1>10. CASE FullFails
  BY <1>10 DEF FullFails, Placed
<1>11. CASE UndoRemove
  BY <1>11 DEF UndoRemove, Undo, Placed, database
<1>12. CASE UndoMove
  BY <1>12 DEF UndoMove, Undo, MovedBack, Placed, database
<1>13. CASE UndoSideFiles
  BY <1>13 DEF UndoSideFiles, Undo, Placed, database
<1>14. CASE FullDies
  BY <1>14 DEF FullDies, Over, Placed, database
<1>15. QED
  BY <1>2, <1>3, <1>4, <1>5, <1>6, <1>7, <1>8, <1>9, <1>10, <1>11, <1>12, <1>13, <1>14 DEF FullStep

LEMMA SideFilesStep == ASSUME Types, Placed, SideFilesPlaced, FullStep PROVE SideFilesPlaced'
<1>1. /\ db \in Database \cup {None} /\ rollback \in Database \cup {None}
      /\ displaced \in Saved \cup {None} /\ None \notin Database
  BY TypeFacts, NoneAssumption
<1>2. CASE FullPrepare
  BY <1>2 DEF FullPrepare, SideFilesPlaced, database
<1>3. CASE Displace
  <2>1. displaced'.wal = wal /\ displaced'.db = db
    BY <1>3 DEF Displace
  <2>2. QED
    BY <1>3, <2>1 DEF Displace, SideFilesPlaced, database
<1>4. CASE MoveOut
  BY <1>4 DEF MoveOut, SideFilesPlaced
<1>5. CASE DropSideFiles
  BY <1>5 DEF DropSideFiles, SideFiles, SideFilesPlaced
<1>6. CASE MoveIn
  <2>1. db'.id = restores' /\ wal' = wal /\ full = "bare" /\ full' = "in" /\ UNCHANGED <<displaced, botched>>
    BY <1>6 DEF MoveIn
  <2>2. QED
    BY <2>1 DEF SideFilesPlaced
<1>7. CASE Verify
  BY <1>7 DEF Verify, Opened, SideFilesPlaced
<1>8. CASE DropRollback
  BY <1>8 DEF DropRollback, SideFilesPlaced
<1>9. CASE FullRecord
  BY <1>9 DEF FullRecord, Over, SideFilesPlaced, database
<1>10. CASE FullFails
  BY <1>10 DEF FullFails, Opened, SideFilesPlaced
<1>11. CASE UndoRemove
  BY <1>11 DEF UndoRemove, Undo, SideFilesPlaced, database
<1>12. CASE UndoMove
  BY <1>12 DEF UndoMove, Undo, MovedBack, SideFilesPlaced, Placed, database
<1>13. CASE UndoSideFiles
  BY <1>13 DEF UndoSideFiles, Undo, SideFilesBack, SideFilesPlaced, Placed, database
<1>14. CASE FullDies
  BY <1>14 DEF FullDies, Over, SideFilesPlaced, database
<1>15. QED
  BY <1>2, <1>3, <1>4, <1>5, <1>6, <1>7, <1>8, <1>9, <1>10, <1>11, <1>12, <1>13, <1>14 DEF FullStep

\* The service changes at most the endpoints of the database that is there.
LEMMA OutsideDatabase ==
  ASSUME Types, Placed, SideFilesPlaced,
         UNCHANGED <<wal, rollback, displaced, full, botched, restores>>,
         UNCHANGED db \/ (db # None /\ \E u \in Urls : db' = [db EXCEPT !.urls = u])
  PROVE  Placed' /\ SideFilesPlaced'
<1>1. (db' = None <=> db = None) /\ (db # None => db'.id = db.id)
  <2>1. CASE UNCHANGED db
    BY <2>1
  <2>2. ASSUME db # None, NEW u \in Urls, db' = [db EXCEPT !.urls = u]
        PROVE  (db' = None <=> db = None) /\ (db # None => db'.id = db.id)
    BY <2>2, Repointed, NoneAssumption
  <2>3. QED
    BY <2>1, <2>2
<1>2. Placed'
  BY <1>1 DEF Placed
<1>3. SideFilesPlaced'
  BY <1>1 DEF SideFilesPlaced
<1>4. QED
  BY <1>2, <1>3

DatabaseInv == Types /\ Placed /\ SideFilesPlaced

LEMMA StepPlaced == DatabaseInv /\ [Next]_vars => Placed' /\ SideFilesPlaced'
<1> SUFFICES ASSUME DatabaseInv, [Next]_vars PROVE Placed' /\ SideFilesPlaced'
  OBVIOUS
<1>1. CASE HostRestores
  BY <1>1, PlacedStep, SideFilesStep DEF HostRestores, DatabaseInv
<1>2. ASSUME NEW i \in Pid, Serve(i) PROVE Placed' /\ SideFilesPlaced'
  <2>1. UNCHANGED disaster
    BY <1>2, Zenon DEF Serve, Boot, HandleTerm, CloseDone, Crash, Signal
  <2>2. QED
    BY <2>1, OutsideDatabase DEF disaster, DatabaseInv
<1>3. ASSUME NEW i \in Pid, Execute(i) PROVE Placed' /\ SideFilesPlaced'
  <2>1. UNCHANGED <<wal, rollback, displaced, full, botched, restores>>
        /\ (UNCHANGED db \/ (db # None /\ \E u \in Urls : db' = [db EXCEPT !.urls = u]))
    BY <1>3, Zenon DEF Execute, ReceiveApply, Recover, ApplyRecord, ApplyCommit, ApplyVerify,
                 ReceiveRestore, RestoreCommit, RestoreVerify, Snapshot,
                 onlyTakeover, disaster, database, restoring, Urls
  <2>2. QED
    BY <2>1, OutsideDatabase DEF DatabaseInv
<1>4. ASSUME NEW c \in Commander, Command(c) PROVE Placed' /\ SideFilesPlaced'
  <2>1. UNCHANGED disaster
    BY <1>4, Zenon DEF Command, StartBegin, StartCheck, StartSpawn, StartNote, StartRecord,
               StartDone, StartGivesUp, StopBegin,
               StopWaited, StopDeadline, StopKill, StopClean, CommandDies, outside
  <2>2. QED
    BY <2>1, OutsideDatabase DEF disaster, DatabaseInv
<1>5. CASE UNCHANGED vars
  BY <1>5, OutsideDatabase DEF vars, disaster, DatabaseInv
<1>6. QED
  BY <1>1, <1>2, <1>3, <1>4, <1>5 DEF Next

LEMMA InitPlaced == Init => Placed /\ SideFilesPlaced
<1> SUFFICES ASSUME Init PROVE Placed /\ SideFilesPlaced
  OBVIOUS
<1>1. db = [id |-> 0, urls |-> "own"] /\ full = "idle" /\ wal \in {0, None}
  BY DisasterAssumption DEF Init, DisasterInit
<1>2. db # None /\ db.id = 0
  <2>1. [id |-> 0, urls |-> "own"] \in Database
    BY DisasterAssumption DEF Database, Urls
  <2>2. QED
    BY <1>1, <2>1, NoneAssumption
<1>3. QED
  BY <1>1, <1>2 DEF Placed, SideFilesPlaced

LEMMA DatabaseSpec == Spec => []DatabaseInv
<1>1. Init => DatabaseInv
  BY InitTypes, InitPlaced DEF DatabaseInv
<1>2. DatabaseInv /\ [Next]_vars => DatabaseInv'
  BY StepTypes, StepPlaced DEF DatabaseInv
<1>3. QED
  BY <1>1, <1>2, PTL DEF Spec

\* Wherever fullRestore is, fails or dies, a database that is not under its
\* name is set aside, as long as no rename and no undoing failed.
THEOREM DatabaseNeverGone == Spec => []NeverGone
<1>1. DatabaseInv => NeverGone
  BY DEF DatabaseInv, Placed, NeverGone
<1>2. QED
  BY DatabaseSpec, <1>1, PTL

\* Side files never lie beside a database they do not belong to, but for those
\* of the verification while the undoing puts the old database back.
THEOREM SideFilesBelong == Spec => []NoForeignSideFiles
<1>1. DatabaseInv => NoForeignSideFiles
  BY DEF DatabaseInv, SideFilesPlaced, NoForeignSideFiles
<1>2. QED
  BY DatabaseSpec, <1>1, PTL

\* A full restore that reports a failure has left the database and its side
\* files as they were.
THEOREM FailedRestoreUndone == Spec => []FailureUndone
<1>1. DatabaseInv => FailureUndone
  BY DEF DatabaseInv, Placed, SideFilesPlaced, FailureUndone
<1>2. QED
  BY DatabaseSpec, <1>1, PTL

-----------------------------------------------------------------------------
(* No endpoint of CPR without a takeover                                   *)

\* Before the first full restore there is one database, the record of a
\* takeover in force speaks of it, and an apply or restore past its first write
\* executes under such a record.
Covered ==
  restores = 0 =>
    /\ full = "idle" /\ db # None /\ db.id = 0
    /\ InForce => recorded = 0
    /\ req # None => req.db = 0
    /\ req # None /\ req.at # "backup" => InForce
    /\ db.urls = "cpr" => InForce

LEMMA CoveredKept ==
  ASSUME Covered, UNCHANGED <<db, full, phase, restores, recorded>>, req' \in {req, None}
  PROVE  Covered'
BY Zenon DEF Covered, InForce

LEMMA ExecuteCovered == ASSUME Types, Covered, NEW i \in Pid, Execute(i) PROVE Covered'
<1>1. UNCHANGED <<full, restores>>
  BY Zenon DEF Execute, ReceiveApply, Recover, ApplyRecord, ApplyCommit, ApplyVerify,
               ReceiveRestore, RestoreCommit, RestoreVerify, Snapshot,
               onlyTakeover, disaster, restoring
<1> SUFFICES ASSUME restores = 0 PROVE Covered'
  BY <1>1 DEF Covered
<1>2. /\ full = "idle" /\ db # None /\ db.id = 0
      /\ (InForce => recorded = 0) /\ (req # None => req.db = 0)
      /\ (req # None /\ req.at # "backup" => InForce) /\ (db.urls = "cpr" => InForce)
  BY DEF Covered
<1>3. "applying" \in ActivePhases /\ "active" \in ActivePhases /\ "restoring" \in ActivePhases
      /\ ApplyFailed \in ActivePhases /\ RestoreFailed \in ActivePhases
  BY DEF ActivePhases, ApplyFailed, RestoreFailed
<1>4. CASE ReceiveApply(i)
  <2>1. req' = [by |-> i, at |-> "backup", db |-> db.id] /\ UNCHANGED <<db, phase, recorded>>
    BY <1>4 DEF ReceiveApply, onlyTakeover, disaster, database
  <2>2. req'.db = 0 /\ req'.at = "backup"
    BY <1>2, <2>1
  <2>3. QED
    BY <1>1, <1>2, <2>1, <2>2 DEF Covered, InForce
<1>5. CASE ReceiveRestore(i)
  <2>1. /\ req' = [by |-> i, at |-> "restore", db |-> db.id] /\ UNCHANGED <<db, recorded>>
        /\ phase' = "restoring" /\ InForce
    BY <1>5 DEF ReceiveRestore, onlyTakeover, disaster, database, Writes
  <2>2. req'.db = 0
    BY <1>2, <2>1
  <2>3. QED
    BY <1>1, <1>2, <1>3, <2>1, <2>2 DEF Covered, InForce
<1>6. CASE Recover(i)
  <2>1. UNCHANGED <<db, recorded, req>> /\ phase' = "active" /\ InForce
    BY <1>6 DEF Recover, onlyTakeover, disaster, database, takeover, Writes
  <2>2. QED
    BY <1>1, <1>2, <1>3, <2>1 DEF Covered, InForce
<1>7. CASE ApplyRecord(i)
  <2>1. req # None /\ req.db = 0 /\ [req EXCEPT !.at = "commit"].db = req.db /\ db' = db
    BY <1>2, <1>7, Going DEF ApplyRecord, Executes, RequestStages, database
  <2>2. CASE db # None /\ db.urls = "own"
    <3>1. phase' = "applying" /\ recorded' = 0 /\ req' = [req EXCEPT !.at = "commit"]
      BY <1>7, <2>1, <2>2 DEF ApplyRecord, Writes, Goes
    <3>2. QED
      BY <1>1, <1>2, <1>3, <2>1, <3>1 DEF Covered, InForce
  <2>3. CASE ~ (db # None /\ db.urls = "own")
    BY <1>1, <1>2, <1>7, <2>1, <2>3 DEF ApplyRecord, Covered, InForce
  <2>4. QED
    BY <2>2, <2>3
<1>8. CASE ApplyCommit(i) \/ RestoreCommit(i)
  <2>1. /\ req # None /\ InForce /\ recorded' = recorded
        /\ [req EXCEPT !.at = "verify"].db = 0 /\ [req EXCEPT !.at = "restored"].db = 0
    BY <1>2, <1>8, Going DEF ApplyCommit, RestoreCommit, Executes, RequestStages
  <2>2. CASE UNCHANGED phase /\ req' \in {[req EXCEPT !.at = "verify"], [req EXCEPT !.at = "restored"]}
             /\ \E u \in Urls : db' = [db EXCEPT !.urls = u]
    <3>1. db' # None /\ db'.id = 0
      BY <1>2, <2>2, Repointed, NoneAssumption
    <3>2. req'.db = 0
      BY <2>1, <2>2
    <3>3. QED
      BY <1>1, <1>2, <2>1, <2>2, <3>1, <3>2 DEF Covered, InForce
  <2>3. CASE UNCHANGED db /\ req' = None /\ (phase' = phase \/ phase' \in ActivePhases)
    BY <1>1, <1>2, <2>1, <2>3 DEF Covered, InForce
  <2>4. QED
    BY <1>2, <1>3, <1>8, <2>2, <2>3, Zenon DEF ApplyCommit, RestoreCommit, Goes, Writes, Urls
<1>9. CASE ApplyVerify(i) \/ RestoreVerify(i)
  <2>1. /\ req # None /\ InForce /\ UNCHANGED <<db, recorded>> /\ req' = None
        /\ (phase' \in ActivePhases \/ db.urls = "own")
    BY <1>2, <1>3, <1>9 DEF ApplyVerify, RestoreVerify, Executes, Writes,
                            onlyTakeover, disaster, database
  <2>2. QED
    BY <1>1, <1>2, <2>1 DEF Covered, InForce
<1>10. CASE Snapshot(i)
  BY <1>1, <1>10, CoveredKept DEF Snapshot, database, takeover
<1>11. QED
  BY <1>4, <1>5, <1>6, <1>7, <1>8, <1>9, <1>10 DEF Execute

LEMMA StepCovered == Types /\ Covered /\ [Next]_vars => Covered'
<1> SUFFICES ASSUME Types, Covered, [Next]_vars PROVE Covered'
  OBVIOUS
<1>1. ASSUME NEW i \in Pid, Serve(i) PROVE Covered'
  <2>1. UNCHANGED <<db, full, phase, restores, recorded>> /\ req' \in {req, None}
    BY <1>1, Zenon DEF Serve, Boot, HandleTerm, CloseDone, Crash, Signal, Stopped, Ended,
         disaster, database, restoring, takeover
  <2>2. QED
    BY <2>1, CoveredKept
<1>2. ASSUME NEW c \in Commander, Command(c) PROVE Covered'
  <2>1. UNCHANGED <<db, full, phase, restores, recorded>> /\ req' \in {req, None}
    BY <1>2, Zenon DEF Command, StartBegin, StartCheck, StartSpawn, StartNote, StartRecord,
               StartDone, StartGivesUp, StopBegin,
         StopWaited, StopDeadline, StopKill, StopClean, CommandDies, outside, Stopped, Ended,
         disaster, database, restoring
  <2>2. QED
    BY <2>1, CoveredKept
<1>3. CASE HostRestores
  <2>1. CASE restores # 0
    <3>1. restores' \in {restores, restores + 1} /\ restores \in Nat
      BY <1>3, TypeFacts DEF HostRestores, FullStep, FullPrepare, Displace, MoveOut, DropSideFiles,
         MoveIn, Verify, DropRollback, FullRecord, FullFails, UndoRemove, UndoMove, UndoSideFiles,
         Undo, FullDies
    <3>2. QED
      BY <2>1, <3>1 DEF Covered
  <2>2. CASE restores = 0
    <3>1. full = "idle"
      BY <2>2 DEF Covered
    <3>2. FullPrepare
      BY <1>3, <3>1 DEF HostRestores, FullStep, Displace, MoveOut, DropSideFiles,
         MoveIn, Verify, DropRollback, FullRecord, FullFails, UndoRemove, UndoMove, UndoSideFiles,
         Undo, FullDies
    <3>3. QED
      BY <2>2, <3>2 DEF FullPrepare, Covered
  <2>3. QED
    BY <2>1, <2>2
<1>4. CASE UNCHANGED vars
  BY <1>4, CoveredKept DEF vars, disaster, database, restoring, takeover
<1>5. QED
  BY <1>1, <1>2, <1>3, <1>4, ExecuteCovered DEF Next

LEMMA InitCovered == Init => Covered
<1> SUFFICES ASSUME Init PROVE Covered
  OBVIOUS
<1>1. db = [id |-> 0, urls |-> "own"] /\ full = "idle" /\ req = None /\ phase = "inactive"
  BY DEF Init, DisasterInit
<1>2. [id |-> 0, urls |-> "own"] \in Database
  BY DisasterAssumption DEF Database, Urls
<1>3. QED
  BY <1>1, <1>2, NoneAssumption DEF Covered, InForce, ActivePhases

\* As long as no full restore has begun, endpoints that point at CPR are those
\* of a takeover in force, over any crashes, stops, signals and restarts of the
\* service.
THEOREM EndpointsCovered == Spec => []NoOrphan
<1>1. Covered => NoOrphan
  BY DEF Covered, NoOrphan
<1>2. QED
  BY InitTypes, StepTypes, InitCovered, StepCovered, <1>1, PTL DEF Spec


-----------------------------------------------------------------------------
(* Which process a command knows                                           *)

\* Until commands of two terminals overlap, one runs at a time.
Exclusive ==
  ~ crowded => \A c, d \in Commander : ctl[c].at # "idle" /\ ctl[d].at # "idle" => c = d

LEMMA OneTerminalMoves ==
  ASSUME Types, NEW c \in Commander, Command(c)
  PROVE  \A d \in Commander \ {c} : ctl'[d] = ctl[d]
<1>1. ctl \in [Commander -> Control]
  BY TypeFacts DEF ControlOK
<1>2. \E e : ctl' = [ctl EXCEPT ![c] = e]
  <2>1. CASE StartBegin(c)
    BY <2>1, <1>1 DEF StartBegin
  <2>2. CASE StartCheck(c) \/ (\E i \in Pid : StartSpawn(c, i)) \/ StartNote(c) \/ StartRecord(c)
             \/ StartDone(c) \/ StartGivesUp(c)
    BY <2>2, Zenon DEF StartCheck, StartSpawn, StartNote, StartRecord, StartDone,
         StartGivesUp, To, Return
  <2>3. CASE \E cmd \in {"stop", "restart"} : StopBegin(c, cmd)
    BY <2>3, Zenon DEF StopBegin
  <2>4. CASE StopWaited(c) \/ StopDeadline(c) \/ StopKill(c) \/ StopClean(c) \/ CommandDies(c)
    BY <2>4, Zenon DEF StopWaited, StopDeadline, StopKill, StopClean, CommandDies, AfterStop, Refused,
       To, Return
  <2>5. QED
    BY <2>1, <2>2, <2>3, <2>4 DEF Command
<1>3. QED
  BY <1>1, <1>2

\* Whoever runs a command before any have overlapped is alone.
LEMMA Lone ==
  ASSUME Types, Exclusive, NEW c \in Commander, Command(c), ~ crowded'
  PROVE  /\ ~ crowded
         /\ \A d \in Commander \ {c} : ctl[d].at = "idle" /\ ctl'[d] = ctl[d]
<1>1. (crowded' = crowded /\ ctl[c].at # "idle") \/ Crowds(c)
  <2>1. CASE StartBegin(c) \/ \E cmd \in {"stop", "restart"} : StopBegin(c, cmd)
    BY <2>1 DEF StartBegin, StopBegin
  <2>2. CASE StartCheck(c) \/ (\E i \in Pid : StartSpawn(c, i)) \/ StartNote(c) \/ StartRecord(c)
             \/ StartDone(c) \/ StartGivesUp(c)
    BY <2>2 DEF StartCheck, StartSpawn, StartNote, StartRecord, StartDone, StartGivesUp, history, At
  <2>3. CASE StopWaited(c) \/ StopDeadline(c) \/ StopKill(c) \/ StopClean(c) \/ CommandDies(c)
    BY <2>3 DEF StopWaited, StopDeadline, StopKill, StopClean, CommandDies, history, At
  <2>4. QED
    BY <2>1, <2>2, <2>3 DEF Command
<1>2. ~ crowded /\ \A d \in Commander \ {c} : ctl[d].at = "idle"
  <2>1. CASE crowded' = crowded /\ ctl[c].at # "idle"
    BY <2>1 DEF Exclusive
  <2>2. CASE Crowds(c)
    BY <2>2 DEF Crowds, At
  <2>3. QED
    BY <1>1, <2>1, <2>2
<1>3. QED
  BY <1>2, OneTerminalMoves

LEMMA StepExclusive == Types /\ Exclusive /\ [Next]_vars => Exclusive'
<1> SUFFICES ASSUME Types, Exclusive, [Next]_vars PROVE Exclusive'
  OBVIOUS
<1>1. ASSUME UNCHANGED <<ctl, crowded>> PROVE Exclusive'
  BY <1>1 DEF Exclusive
<1>2. ASSUME NEW c \in Commander, Command(c) PROVE Exclusive'
  BY <1>2, Lone DEF Exclusive
<1>3. ASSUME NEW i \in Pid, Serve(i) \/ Execute(i) PROVE Exclusive'
  <2>1. UNCHANGED <<ctl, crowded>>
    BY <1>3, Zenon DEF Serve, Boot, HandleTerm, CloseDone, Crash, Signal,
       Execute, ReceiveApply, Recover, ApplyRecord, ApplyCommit, ApplyVerify,
       ReceiveRestore, RestoreCommit, RestoreVerify, Snapshot, onlyTakeover, history
  <2>2. QED
    BY <1>1, <2>1
<1>4. HostRestores \/ UNCHANGED vars => Exclusive'
  BY <1>1 DEF HostRestores, vars, history
<1>5. QED
  BY <1>2, <1>3, <1>4 DEF Next

NoneRuns == \A i \in Pid : life[i] \notin Running

\* Whatever runs is what the files name, or a child whose pid the command that
\* spawned it has yet to note.
Found(i) ==
  \/ Known = i
  \/ life[i] = "starting" /\ \E c \in Commander : ctl[c].at = "note" /\ ctl[c].pid = i

\* It is what the command that spawned it, waits for it or stops it means; and
\* none runs where a command is about to spawn or to clean up.
Followed(c) ==
  /\ ctl[c].at \in {"spawn", "clean"} => NoneRuns
  /\ ctl[c].at \in {"note", "record", "await", "wait", "kill"} =>
       \A i \in Pid : life[i] \in Running => ctl[c].pid = i

Tracking ==
  disowned = {} /\ ~ crowded =>
    /\ \A i, j \in Pid : life[i] \in Running /\ life[j] \in Running => i = j
    /\ \A i \in Pid : life[i] \in Running => Found(i)
    /\ \A c \in Commander : Followed(c)

LEMMA NothingRuns == NoneRuns' => Tracking'
BY DEF NoneRuns, Tracking, Followed

\* The files and the commands stay, and nothing is born.
LEMMA FewerRun ==
  ASSUME Tracking, UNCHANGED <<pidFile, statePid, ctl, crowded>>, disowned \subseteq disowned',
         \A i \in Pid : life'[i] \in Running =>
           life[i] \in Running /\ (life[i] = "starting" => life'[i] = "starting")
  PROVE  Tracking'
<1>1. Known' = Known
  BY DEF Known
<1>2. SUFFICES ASSUME disowned = {}, ~ crowded PROVE Tracking'
  BY DEF Tracking
<1>3. ASSUME NEW i \in Pid, life'[i] \in Running PROVE Found(i)'
  BY <1>1, <1>2, <1>3 DEF Tracking, Found
<1>4. QED
  BY <1>2, <1>3 DEF Tracking, Followed, NoneRuns

LEMMA ServeTracked == ASSUME Types, Tracking, NEW i \in Pid, Serve(i) PROVE Tracking'
<1>1. life \in [Pid -> Running \cup {"unborn", "ended"}] /\ i # None
  BY TypeFacts, ServiceAssumption
<1>2. CASE Boot(i)
  <2>1. life[i] = "starting" /\ UNCHANGED <<ctl, disowned, crowded>>
    BY <1>2 DEF Boot, history
  <2>2. CASE \E j \in Pid : life[j] = "up"
    <3>1. life' = [life EXCEPT ![i] = "ended"] /\ UNCHANGED <<pidFile, statePid>>
      BY <1>2, <2>2 DEF Boot
    <3>2. \A j \in Pid : life'[j] \in Running => life'[j] = life[j]
      BY <1>1, <3>1 DEF Running
    <3>3. QED
      BY <2>1, <3>1, <3>2, FewerRun
  <2>3. CASE ~ \E j \in Pid : life[j] = "up"
    <3>1. life' = [life EXCEPT ![i] = "up"] /\ pidFile' = i
      BY <1>2, <2>3 DEF Boot
    <3>2. \A j \in Pid : life'[j] \in Running => life[j] \in Running
      BY <1>1, <2>1, <3>1 DEF Running
    <3>3. Known' = i
      BY <1>1, <3>1 DEF Known
    <3>4. ASSUME disowned = {}, ~ crowded, NEW j \in Pid, life'[j] \in Running PROVE j = i
      BY <2>1, <3>2, <3>4 DEF Tracking, Running
    <3>5. ASSUME disowned = {}, ~ crowded, NEW c \in Commander PROVE Followed(c)'
      BY <2>1, <3>2, <3>5 DEF Tracking, Followed, NoneRuns
    <3>6. QED
      BY <2>1, <3>3, <3>4, <3>5 DEF Tracking, Found
  <2>4. QED
    BY <2>2, <2>3
<1>3. CASE HandleTerm(i)
  <2>1. /\ life' = life \/ life' = [life EXCEPT ![i] = "closing"]
        /\ i \in term /\ UNCHANGED <<pidFile, statePid, ctl, disowned, crowded>>
    BY <1>3 DEF HandleTerm, history
  <2>2. life[i] \in {"up", "closing"}
    BY <2>1, TypeFacts
  <2>3. \A j \in Pid : life'[j] \in Running =>
          life[j] \in Running /\ (life[j] = "starting" => life'[j] = "starting")
    BY <1>1, <2>1, <2>2 DEF Running
  <2>4. QED
    BY <2>1, <2>3, FewerRun
<1>4. CASE CloseDone(i)
  <2>1. /\ life[i] = "closing" /\ UNCHANGED <<disowned, crowded>>
        /\ life'[i] = "ended" /\ \A j \in Pid \ {i} : life'[j] = life[j]
    BY <1>4, Ending DEF CloseDone, Stopped
  <2>2. ASSUME disowned = {}, ~ crowded PROVE NoneRuns'
    <3>1. \A j \in Pid : life[j] \in Running => j = i
      BY <2>1, <2>2 DEF Tracking, Running
    <3>2. QED
      BY <2>1, <3>1 DEF NoneRuns, Running
  <2>3. QED
    BY <2>1, <2>2, NothingRuns DEF Tracking
<1>5. CASE Crash(i)
  <2>1. life'[i] = "ended" /\ \A j \in Pid \ {i} : life'[j] = life[j]
    BY <1>5, Ending DEF Crash
  <2>2. QED
    BY <1>5, <2>1, FewerRun DEF Crash, history, Running
<1>6. CASE Signal(i)
  <2>1. life'[i] \in {life[i], "ended"} /\ \A j \in Pid \ {i} : life'[j] = life[j]
    BY <1>6, Terminating DEF Signal
  <2>2. QED
    BY <1>6, <2>1, FewerRun DEF Signal, history, Running
<1>7. QED
  BY <1>2, <1>3, <1>4, <1>5, <1>6 DEF Serve

LEMMA CommandTracked ==
  ASSUME Types, Tracking, Exclusive, NEW c \in Commander, Command(c)
  PROVE  Tracking'
<1>1. /\ life \in [Pid -> Running \cup {"unborn", "ended"}] /\ None \notin Pid
      /\ ControlOK /\ ctl \in [Commander -> Control]
  BY TypeFacts, ServiceAssumption DEF ControlOK
<1>2. disowned \subseteq disowned'
  BY Zenon DEF Command, StartBegin, StartCheck, StartSpawn, StartNote, StartRecord,
               StartDone, StartGivesUp, StopBegin,
     StopWaited, StopDeadline, StopKill, StopClean, CommandDies, history
<1>3. SUFFICES ASSUME disowned = {}, disowned' = {}, ~ crowded, ~ crowded' PROVE Tracking'
  BY <1>2, Lone DEF Tracking
<1>o. \A d \in Commander \ {c} : ctl[d].at = "idle" /\ ctl'[d] = ctl[d]
  BY <1>3, Lone
<1>4. /\ Followed(c) /\ \A i, j \in Pid : life[i] \in Running /\ life[j] \in Running => i = j
      /\ ctl[c].at # "note" => \A i \in Pid : life[i] \in Running => Known = i
  <2>1. Followed(c) /\ \A i, j \in Pid : life[i] \in Running /\ life[j] \in Running => i = j
    BY <1>3 DEF Tracking
  <2>2. \A i \in Pid : life[i] \in Running => Found(i)
    BY <1>3 DEF Tracking
  <2>3. QED
    BY <1>o, <2>1, <2>2 DEF Found
\* The other terminals are at their prompts.
<1>t. ASSUME \A i, j \in Pid : life'[i] \in Running /\ life'[j] \in Running => i = j,
             \A i \in Pid : life'[i] \in Running => Found(i)',
             Followed(c)'
      PROVE  Tracking'
  <2>1. \A d \in Commander \ {c} : Followed(d)'
    BY <1>o DEF Followed
  <2>2. QED
    BY <1>t, <2>1 DEF Tracking
\* The command says nothing of the processes any more.
<1>5. ASSUME ctl'[c].at \in {"idle", "check"}, ctl[c].at # "note", UNCHANGED <<pidFile, statePid, life>>
      PROVE  Tracking'
  <2>1. Known' = Known /\ Followed(c)'
    BY <1>5 DEF Known, Followed
  <2>2. \A i \in Pid : life'[i] \in Running => Found(i)'
    BY <1>4, <1>5, <2>1 DEF Found
  <2>3. QED
    BY <1>4, <1>5, <1>t, <2>1, <2>2
<1>6. UNCHANGED <<pidFile, statePid, life>> /\ Return(c) /\ ctl[c].at # "note" => Tracking'
  BY <1>1, <1>5, Ends, Prompts
\* Nothing ran, and nothing is born.
<1>7. NoneRuns /\ UNCHANGED life => Tracking'
  BY NothingRuns DEF NoneRuns
<1>8. ~ Alive(Known) /\ ctl[c].at # "note" => NoneRuns
  BY <1>1, <1>4 DEF Alive, NoneRuns
<1>9. CASE StartBegin(c)
  <2>1. ctl'[c].at = "check" /\ ctl[c].at # "note" /\ UNCHANGED <<pidFile, statePid, life>>
    BY <1>1, <1>9 DEF StartBegin, service, Control, At
  <2>2. QED
    BY <1>5, <2>1
<1>10. CASE StartCheck(c)
  <2>1. CASE Alive(Known)
    BY <1>6, <1>10, <2>1 DEF StartCheck, At
  <2>2. CASE ~ Alive(Known)
    BY <1>7, <1>8, <1>10, <2>2 DEF StartCheck, At
  <2>3. QED
    BY <2>1, <2>2
<1>11. ASSUME NEW i \in Pid, StartSpawn(c, i) PROVE Tracking'
  <2>1. life' = [life EXCEPT ![i] = "starting"] /\ NoneRuns /\ To(c, "note", i)
    BY <1>4, <1>11 DEF StartSpawn, Followed, At
  <2>2. ctl'[c].at = "note" /\ ctl'[c].pid = i
    BY <1>1, <2>1, GoesTo DEF ControlStages
  <2>3. life'[i] = "starting" /\ \A j \in Pid : life'[j] \in Running => j = i
    BY <1>1, <2>1 DEF NoneRuns
  <2>4. \A j \in Pid : life'[j] \in Running => Found(j)'
    BY <2>2, <2>3 DEF Found
  <2>5. QED
    BY <1>t, <2>2, <2>3, <2>4 DEF Followed
<1>n. CASE StartNote(c) \/ StartRecord(c)
  <2>1. /\ ctl[c].at \in {"note", "record"} /\ UNCHANGED life
        /\ \/ ctl[c].at = "note" /\ pidFile' = ctl[c].pid
           \/ ctl[c].at = "record" /\ pidFile' = pidFile /\ statePid' = ctl[c].pid
    BY <1>n DEF StartNote, StartRecord, At
  <2>2. ctl[c].pid \in Pid
    BY <1>1, <2>1 DEF ControlOK, Terminals
  <2>3. /\ ctl'[c].at \in {"record", "await"} /\ ctl'[c].pid = ctl[c].pid
    BY <1>1, <1>n, <2>2, GoesTo DEF StartNote, StartRecord, ControlStages
  <2>4. \A i \in Pid : life'[i] \in Running => ctl[c].pid = i
    BY <1>4, <2>1 DEF Followed
  <2>5. ASSUME NEW i \in Pid, life'[i] \in Running PROVE Known' = i
    <3>1. ctl[c].pid = i /\ i # None
      BY <1>1, <2>4, <2>5
    <3>2. CASE ctl[c].at = "note"
      BY <2>1, <3>1, <3>2 DEF Known
    <3>3. CASE ctl[c].at = "record"
      <4>1. Known = i
        BY <1>4, <2>1, <2>5, <3>3
      <4>2. QED
        BY <2>1, <3>1, <3>3, <4>1 DEF Known
    <3>4. QED
      BY <2>1, <3>2, <3>3
  <2>6. QED
    BY <1>4, <1>t, <2>1, <2>3, <2>4, <2>5 DEF Followed, Found
<1>12. CASE StartDone(c)
  BY <1>6, <1>12 DEF StartDone, service, At
<1>13. CASE StartGivesUp(c)
  <2>1. /\ ctl[c].at = "await" /\ Terminate(ctl[c].pid)
        /\ disowned' = IF life'[ctl[c].pid] \in Running THEN disowned \cup {ctl[c].pid} ELSE disowned
    BY <1>13 DEF StartGivesUp, At
  <2>2. ctl[c].pid \in Pid
    BY <1>1, <2>1 DEF ControlOK, Terminals
  <2>3. life'[ctl[c].pid] \notin Running
    BY <1>3, <2>1
  <2>4. \A j \in Pid \ {ctl[c].pid} : life'[j] = life[j]
    BY <2>1, <2>2, Terminating
  <2>5. NoneRuns'
    BY <1>4, <2>1, <2>3, <2>4 DEF Followed, NoneRuns
  <2>6. QED
    BY <2>5, NothingRuns
<1>14. ASSUME NEW cmd \in {"stop", "restart"}, StopBegin(c, cmd) PROVE Tracking'
  <2>1. CASE Alive(Known)
    <3>1. /\ Terminate(Known) /\ UNCHANGED <<pidFile, statePid>>
          /\ ctl' = [ctl EXCEPT ![c] = [cmd |-> cmd, at |-> "wait", pid |-> Known]]
      BY <1>14, <2>1 DEF StopBegin
    <3>2. Known \in Pid
      BY <2>1, TypeFacts DEF Known, Alive
    <3>3. \A j \in Pid : life'[j] \in Running => life[j] \in Running
      BY <3>1, <3>2, Terminating DEF Running
    <3>4. Known' = Known
      BY <3>1 DEF Known
    <3>5. ctl'[c].at = "wait" /\ ctl'[c].pid = Known /\ ctl[c].at # "note"
      BY <1>1, <1>14, <3>1 DEF StopBegin, At
    <3>6. QED
      BY <1>4, <1>t, <3>3, <3>4, <3>5 DEF Followed, Found
  <2>2. CASE ~ Alive(Known)
    BY <1>7, <1>8, <1>14, <2>2 DEF StopBegin, At
  <2>3. QED
    BY <2>1, <2>2
<1>15. ctl[c].at \in {"wait", "kill"} /\ ~ Alive(ctl[c].pid) => NoneRuns
  BY <1>1, <1>4 DEF Alive, NoneRuns, Followed
<1>16. CASE StopWaited(c)
  BY <1>7, <1>15, <1>16 DEF StopWaited, At, service
<1>17. CASE StopDeadline(c)
  <2>1. ctl[c].at = "wait" /\ UNCHANGED <<pidFile, statePid, life>>
    BY <1>17 DEF StopDeadline, At, service
  <2>2. CASE MayStop
    <3>1. To(c, "kill", ctl[c].pid) /\ ctl[c].pid \in Pid
      BY <1>1, <1>17, <2>1, <2>2 DEF StopDeadline, ControlOK, Terminals
    <3>2. ctl'[c].at = "kill" /\ ctl'[c].pid = ctl[c].pid
      BY <1>1, <3>1, GoesTo DEF ControlStages
    <3>3. Known' = Known
      BY <2>1 DEF Known
    <3>4. QED
      BY <1>4, <1>t, <2>1, <3>2, <3>3 DEF Followed, Found
  <2>3. CASE ~ MayStop
    BY <1>6, <1>17, <2>1, <2>3 DEF StopDeadline, Refused
  <2>4. QED
    BY <2>2, <2>3
<1>18. CASE StopKill(c)
  <2>1. CASE Alive(ctl[c].pid)
    <3>1. ctl[c].at = "kill" /\ Ended(ctl[c].pid) /\ ctl[c].pid \in Pid
      BY <1>1, <1>18, <2>1 DEF StopKill, Stopped, At, ControlOK, Terminals
    <3>2. life'[ctl[c].pid] = "ended" /\ \A j \in Pid \ {ctl[c].pid} : life'[j] = life[j]
      BY <3>1, Ending
    <3>3. NoneRuns'
      BY <1>4, <3>1, <3>2 DEF Followed, NoneRuns, Running
    <3>4. QED
      BY <3>3, NothingRuns
  <2>2. CASE ~ Alive(ctl[c].pid)
    BY <1>7, <1>15, <1>18, <2>2 DEF StopKill, At
  <2>3. QED
    BY <2>1, <2>2
<1>19. CASE StopClean(c)
  BY <1>4, <1>7, <1>19 DEF StopClean, At, Followed
<1>20. CASE CommandDies(c)
  <2>1. /\ UNCHANGED <<pidFile, statePid, life>> /\ Return(c)
        /\ ctl[c].at = "note" => ~ Alive(ctl[c].pid)
    BY <1>3, <1>20 DEF CommandDies, service, At
  <2>2. ctl[c].at = "note" => NoneRuns
    BY <1>1, <1>4, <2>1 DEF Alive, NoneRuns, Followed
  <2>3. QED
    BY <1>6, <1>7, <2>1, <2>2
<1>21. QED
  BY <1>9, <1>10, <1>11, <1>n, <1>12, <1>13, <1>14, <1>16, <1>17, <1>18, <1>19, <1>20 DEF Command

LEMMA StepTracked == Types /\ Exclusive /\ Tracking /\ [Next]_vars => Tracking'
<1>1. SUFFICES ASSUME Types, Exclusive, Tracking, [Next]_vars PROVE Tracking'
  OBVIOUS
<1>2. ASSUME UNCHANGED <<life, pidFile, statePid, ctl, disowned, crowded>> PROVE Tracking'
  BY <1>1, <1>2, FewerRun
<1>3. ASSUME NEW i \in Pid, Execute(i) PROVE Tracking'
  <2>1. UNCHANGED <<life, pidFile, statePid, ctl, disowned, crowded>>
    BY <1>3, Zenon DEF Execute, ReceiveApply, Recover, ApplyRecord, ApplyCommit, ApplyVerify,
       ReceiveRestore, RestoreCommit, RestoreVerify, Snapshot, onlyTakeover, service, history
  <2>2. QED
    BY <1>2, <2>1
<1>4. HostRestores \/ UNCHANGED vars => Tracking'
  BY <1>2 DEF HostRestores, vars, service, history
<1>5. QED
  BY <1>1, <1>3, <1>4, ServeTracked, CommandTracked DEF Next

\* A service that is up is found by the next command, whatever commands,
\* signals, crashes, deaths of commands and restarts came before, from any
\* number of terminals: until two of their commands overlap, or a start leaves
\* a child alive without a word of it in the files.
THEOREM ServiceTracked == Spec => []Tracked
<1>1. Init => Tracking /\ Exclusive
  BY DEF Init, Tracking, Exclusive, Followed, Running, AtPrompt
<1>2. Tracking => Tracked
  BY DEF Tracking, Tracked, Found, Running
<1>3. QED
  BY InitTypes, StepTypes, <1>1, <1>2, StepExclusive, StepTracked, PTL DEF Spec

=============================================================================
