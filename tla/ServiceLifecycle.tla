------------------------- MODULE ServiceLifecycle -------------------------
(***************************************************************************)
(* The CPR service as a process: started, stopped and restarted by `cpr`    *)
(* commands (lib/service.js), which find it by its pid file and its state   *)
(* file, told to end by signals that it refuses while a takeover is in      *)
(* force (cli/proxy-server.js), and serving the takeover's apply and        *)
(* restore, while a process of the host may run fullRestore                 *)
(* (DisasterRestore) on the same database.                                  *)
(*                                                                         *)
(* Code between two awaits is one step for the other code of its process,   *)
(* signal handlers included, and several steps for other processes, for     *)
(* SIGKILL and for a crash.  The endpoints a takeover rewrites move         *)
(* together here; CcSwitchTakeover has them one by one.                     *)
(***************************************************************************)
EXTENDS DisasterRestore

CONSTANTS
  Pid,              \* service processes that may ever be spawned
  Commander,        \* terminals in which `cpr` is run
  MaxCommands       \* bound on commands

ASSUME ServiceAssumption ==
  /\ MaxCommands \in Nat
  /\ None \notin Pid

VARIABLES
  life,             \* what each service process is doing
  recorded,         \* the database a takeover record speaks of
  req,              \* the apply or restore being executed
  term,             \* processes with a SIGTERM they have not handled
  pidFile,          \* service.pid
  statePid,         \* the pid in service.json
  ctl,              \* what runs in each terminal
  commands,
  raced,            \* history: still running when a takeover began after the last check
  stranded,         \* history: ended by a stop while a takeover was in force
  disowned,         \* history: running when their start ended without a word of them
  crowded           \* history: commands of two terminals have run at the same time

service == <<life, term, pidFile, statePid>>
takeover == <<recorded, req>>
history == <<stranded, disowned, crowded>>
disaster == <<db, wal, rollback, displaced, taken, source, full, botched, restores>>

vars == <<disaster, phase, faults, service, takeover, ctl, commands, raced, history>>

Running == {"starting", "up", "closing"}
RequestStages == {"backup", "commit", "verify", "restore", "restored"}
Request == [by : Pid, at : RequestStages, db : 0..MaxRestores]
Control == [cmd : {"start", "stop", "restart"},
            at : {"idle", "check", "spawn", "note", "record", "await", "wait", "kill", "clean"},
            pid : Pid \cup {None}]

TypeOK ==
  /\ DisasterTypeOK
  /\ life \in [Pid -> Running \cup {"unborn", "ended"}]
  /\ recorded \in (0..MaxRestores) \cup {None}
  /\ req \in Request \cup {None}
  /\ term \subseteq {i \in Pid : life[i] \in {"up", "closing"}}
  /\ pidFile \in Pid \cup {None} /\ statePid \in Pid \cup {None}
  /\ ctl \in [Commander -> Control]
  /\ commands \in 0..MaxCommands
  /\ raced \subseteq Pid /\ stranded \subseteq Pid /\ disowned \subseteq Pid
  /\ crowded \in BOOLEAN

AtPrompt == [cmd |-> "start", at |-> "idle", pid |-> None]

Init ==
  /\ DisasterInit
  /\ life = [i \in Pid |-> "unborn"]
  /\ recorded = None /\ req = None /\ term = {}
  /\ pidFile = None /\ statePid = None
  /\ ctl = [c \in Commander |-> AtPrompt] /\ commands = 0
  /\ raced = {} /\ stranded = {} /\ disowned = {} /\ crowded = FALSE

-----------------------------------------------------------------------------
(* The service process                                                     *)

\* takeover-state.js, isActiveState
InForce == phase \in ActivePhases

Alive(i) == i # None /\ life[i] \in Running

\* The process ends, and an apply or restore it was executing with it.
Ended(i) ==
  /\ life' = [life EXCEPT ![i] = "ended"]
  /\ term' = term \ {i}
  /\ req' = IF req # None /\ req.by = i THEN None ELSE req

\* It ends because it was told to.
Stopped(i) == Ended(i) /\ stranded' = IF InForce THEN stranded \cup {i} ELSE stranded

\* SIGTERM, whose handler is there once the server is up.
Terminate(i) ==
  IF life[i] = "starting"
    THEN life' = [life EXCEPT ![i] = "ended"] /\ UNCHANGED term
    ELSE term' = (IF Alive(i) THEN term \cup {i} ELSE term) /\ UNCHANGED life

\* startServer: the port may be taken.
Boot(i) ==
  /\ life[i] = "starting"
  /\ IF \E j \in Pid : life[j] = "up"
       THEN life' = [life EXCEPT ![i] = "ended"] /\ UNCHANGED <<pidFile, statePid>>
       ELSE life' = [life EXCEPT ![i] = "up"] /\ pidFile' = i /\ statePid' = i
  /\ UNCHANGED <<disaster, phase, faults, takeover, term, ctl, commands, raced, history>>

\* Its own thread is at an await.
Attentive(i) == ~(req # None /\ req.by = i /\ req.at # "backup")

\* Mutant of MayStop: the handler does not look at the takeover state.
MayAlwaysStop == TRUE

\* assertCanStop
MayStop == ~InForce

HandleTerm(i) ==
  /\ i \in term /\ Attentive(i)
  /\ term' = term \ {i}
  /\ life' = IF MayStop THEN [life EXCEPT ![i] = "closing"] ELSE life
  /\ UNCHANGED <<disaster, phase, faults, takeover, pidFile, statePid, ctl, commands, raced, history>>

\* The requests in flight have been answered.
CloseDone(i) ==
  /\ life[i] = "closing" /\ (req # None => req.by # i)
  /\ Stopped(i)
  /\ pidFile' = None /\ statePid' = None
  /\ UNCHANGED <<disaster, phase, faults, recorded, ctl, commands, raced, disowned, crowded>>

Crash(i) ==
  /\ Alive(i) /\ Fault
  /\ Ended(i)
  /\ UNCHANGED <<disaster, phase, recorded, pidFile, statePid, ctl, commands, raced, history>>

\* The operator sends a SIGTERM or SIGINT of their own.
Signal(i) ==
  /\ life[i] = "up"
  /\ Terminate(i)
  /\ UNCHANGED <<disaster, phase, faults, takeover, pidFile, statePid, ctl, commands, raced, history>>

-----------------------------------------------------------------------------
(* The takeover, as the web API of the service executes it                 *)

Executes(i, stage) == req # None /\ req.by = i /\ req.at = stage

Goes(stage) == req' = [req EXCEPT !.at = stage]

\* Those whom the last check can no longer save.
Doomed == {i \in Pid : \/ life[i] = "closing"
                       \/ \E c \in Commander : ctl[c].at = "kill" /\ ctl[c].pid = i}

\* The state record is written.
Writes(p) ==
  /\ phase' = p
  /\ raced' = IF p \in ActivePhases /\ ~InForce THEN raced \cup Doomed ELSE raced

onlyTakeover == <<disaster, faults, service, ctl, commands, history>>

\* Up to the await of the backup.
ReceiveApply(i) ==
  /\ req = None /\ db # None /\ ~InForce /\ life[i] = "up"
  /\ req' = [by |-> i, at |-> "backup", db |-> db.id]
  /\ UNCHANGED <<onlyTakeover, phase, recorded, raced>>

\* apply finds that an unfinished one has done its work.
Recover(i) ==
  /\ req = None /\ life[i] = "up"
  /\ InForce /\ phase # "active"
  /\ db # None /\ db.id = recorded /\ db.urls = "cpr"
  /\ Writes("active")
  /\ UNCHANGED <<onlyTakeover, takeover>>

\* The backup is there: plan, preflight and record.  A snapshot with endpoints
\* of CPR in it is refused.
ApplyRecord(i) ==
  /\ Executes(i, "backup")
  /\ IF db # None /\ db.urls = "own"
       THEN Writes("applying") /\ recorded' = req.db /\ Goes("commit")
       ELSE req' = None /\ UNCHANGED <<phase, recorded, raced>>
  /\ taken' = IF db = None THEN taken ELSE taken \cup {db.urls}
  /\ UNCHANGED <<database, restoring, faults, service, ctl, commands, history>>

ApplyFailed == "rollback-required"

\* Endpoints that are CPR's already are left as they are.  A database that is
\* not there fails the opening, which is outside the try.
ApplyCommit(i) ==
  /\ Executes(i, "commit")
  /\ \/ db = None /\ req' = None /\ UNCHANGED <<db, phase, faults, raced>>
     \/ db # None /\ db' = [db EXCEPT !.urls = "cpr"] /\ Goes("verify")
        /\ UNCHANGED <<phase, faults, raced>>
     \/ db # None /\ Fault /\ Writes(ApplyFailed) /\ req' = None /\ UNCHANGED db
  /\ UNCHANGED <<wal, rollback, restoring, taken, service, recorded, ctl, commands, history>>

ApplyVerify(i) ==
  /\ Executes(i, "verify")
  /\ req' = None
  /\ IF db = None THEN UNCHANGED <<phase, raced>>
                 ELSE Writes(IF db.urls = "cpr" THEN "active" ELSE ApplyFailed)
  /\ UNCHANGED <<onlyTakeover, recorded>>

\* Mutant of RestoreFailed: a failed restore ends the takeover.
RestoreFailedQuietly == "restored"

RestoreFailed == "conflict"

ReceiveRestore(i) ==
  /\ req = None /\ life[i] = "up"
  /\ InForce /\ db # None /\ db.id = recorded
  /\ Writes("restoring")
  /\ req' = [by |-> i, at |-> "restore", db |-> db.id]
  /\ UNCHANGED <<onlyTakeover, recorded>>

RestoreCommit(i) ==
  /\ Executes(i, "restore")
  /\ \/ db = None /\ req' = None /\ UNCHANGED <<db, phase, faults, raced>>
     \/ db # None /\ db' = [db EXCEPT !.urls = "own"] /\ Goes("restored")
        /\ UNCHANGED <<phase, faults, raced>>
     \/ db # None /\ Fault /\ Writes(RestoreFailed) /\ req' = None /\ UNCHANGED db
  /\ UNCHANGED <<wal, rollback, restoring, taken, service, recorded, ctl, commands, history>>

RestoreVerify(i) ==
  /\ Executes(i, "restored")
  /\ req' = None
  /\ IF db = None THEN UNCHANGED <<phase, raced>>
                 ELSE Writes(IF db.urls = "own" THEN "restored" ELSE RestoreFailed)
  /\ UNCHANGED <<onlyTakeover, recorded>>

\* A snapshot asked for by itself.
Snapshot(i) ==
  /\ life[i] = "up" /\ db # None
  /\ taken' = taken \cup {db.urls}
  /\ UNCHANGED <<database, restoring, phase, faults, service, takeover, ctl, commands, raced, history>>

-----------------------------------------------------------------------------
(* The commands                                                            *)

Known == IF pidFile # None THEN pidFile ELSE statePid

At(c, stage) == ctl[c].at = stage

To(c, stage, pid) == ctl' = [ctl EXCEPT ![c] = [cmd |-> ctl[c].cmd, at |-> stage, pid |-> pid]]

Return(c) == ctl' = [ctl EXCEPT ![c] = AtPrompt]

\* A restart goes on to its start.
AfterStop(c) == IF ctl[c].cmd = "restart" THEN To(c, "check", None) ELSE Return(c)

outside == <<disaster, phase, recorded, raced>>

\* Nothing keeps the commands of two terminals apart.
Crowds(c) == crowded' = (crowded \/ \E d \in Commander \ {c} : ~At(d, "idle"))

StartBegin(c) ==
  /\ At(c, "idle") /\ commands < MaxCommands /\ Crowds(c)
  /\ ctl' = [ctl EXCEPT ![c].at = "check"]
  /\ commands' = commands + 1
  /\ UNCHANGED <<outside, faults, service, req, stranded, disowned>>

\* status: a process that runs ends the start, with success or, when it does
\* not answer, with an error.
StartCheck(c) ==
  /\ At(c, "check")
  /\ IF Alive(Known)
       THEN Return(c) /\ UNCHANGED pidFile
       ELSE To(c, "spawn", None) /\ pidFile' = None
  /\ UNCHANGED <<outside, faults, life, term, statePid, req, commands, history>>

StartSpawn(c, i) ==
  /\ At(c, "spawn") /\ life[i] = "unborn"
  /\ life' = [life EXCEPT ![i] = "starting"]
  /\ To(c, "note", i)
  /\ UNCHANGED <<outside, faults, term, pidFile, statePid, req, commands, history>>

StartNote(c) ==
  /\ At(c, "note")
  /\ pidFile' = ctl[c].pid
  /\ To(c, "record", ctl[c].pid)
  /\ UNCHANGED <<outside, faults, life, term, statePid, req, commands, history>>

StartRecord(c) ==
  /\ At(c, "record")
  /\ statePid' = ctl[c].pid
  /\ To(c, "await", ctl[c].pid)
  /\ UNCHANGED <<outside, faults, life, term, pidFile, req, commands, history>>

StartDone(c) ==
  /\ At(c, "await") /\ life[ctl[c].pid] = "up"
  /\ Return(c)
  /\ UNCHANGED <<outside, faults, service, req, commands, history>>

\* The child has died, or the deadline passes.
StartGivesUp(c) ==
  /\ At(c, "await")
  /\ Terminate(ctl[c].pid)
  /\ disowned' = IF life'[ctl[c].pid] \in Running THEN disowned \cup {ctl[c].pid} ELSE disowned
  /\ pidFile' = None /\ statePid' = None
  /\ Return(c)
  /\ UNCHANGED <<outside, faults, req, commands, stranded, crowded>>

StopBegin(c, cmd) ==
  /\ At(c, "idle") /\ commands < MaxCommands /\ ~InForce /\ Crowds(c)
  /\ commands' = commands + 1
  /\ \/ Alive(Known) /\ Terminate(Known) /\ UNCHANGED pidFile
        /\ ctl' = [ctl EXCEPT ![c] = [cmd |-> cmd, at |-> "wait", pid |-> Known]]
     \/ ~Alive(Known) /\ pidFile' = None /\ UNCHANGED <<life, term>>
        /\ ctl' = [ctl EXCEPT ![c] = IF cmd = "restart" THEN [AtPrompt EXCEPT !.at = "check"]
                                                        ELSE AtPrompt]
  /\ UNCHANGED <<outside, faults, statePid, req, stranded, disowned>>

StopWaited(c) ==
  /\ At(c, "wait") /\ ~Alive(ctl[c].pid)
  /\ To(c, "clean", ctl[c].pid)
  /\ UNCHANGED <<outside, faults, service, req, commands, history>>

\* Mutant of Refused: a refused escalation cleans up all the same.
RefusedCleaning(c) == To(c, "clean", ctl[c].pid)

\* The error leaves the files alone.
Refused(c) == Return(c)

StopDeadline(c) ==
  /\ At(c, "wait") /\ Alive(ctl[c].pid)
  /\ IF MayStop THEN To(c, "kill", ctl[c].pid) ELSE Refused(c)
  /\ UNCHANGED <<outside, faults, service, req, commands, history>>

\* SIGKILL
StopKill(c) ==
  /\ At(c, "kill")
  /\ IF Alive(ctl[c].pid) THEN Stopped(ctl[c].pid) ELSE UNCHANGED <<life, term, req, stranded>>
  /\ To(c, "clean", ctl[c].pid)
  /\ UNCHANGED <<outside, faults, pidFile, statePid, commands, disowned, crowded>>

StopClean(c) ==
  /\ At(c, "clean")
  /\ pidFile' = None /\ statePid' = None
  /\ AfterStop(c)
  /\ UNCHANGED <<outside, faults, life, term, req, commands, history>>

\* The terminal is closed, or a file cannot be written: a child whose pid is
\* not in service.pid yet is nobody's.
CommandDies(c) ==
  /\ ~At(c, "idle") /\ Fault
  /\ disowned' = IF At(c, "note") /\ Alive(ctl[c].pid) THEN disowned \cup {ctl[c].pid} ELSE disowned
  /\ Return(c)
  /\ UNCHANGED <<outside, service, req, commands, stranded, crowded>>

-----------------------------------------------------------------------------
\* fullRestore runs in a process of its own.
HostRestores ==
  /\ FullStep
  /\ UNCHANGED <<service, takeover, ctl, commands, raced, history>>

Serve(i) == Boot(i) \/ HandleTerm(i) \/ CloseDone(i) \/ Crash(i) \/ Signal(i)

Execute(i) ==
  \/ ReceiveApply(i) \/ Recover(i) \/ ApplyRecord(i) \/ ApplyCommit(i) \/ ApplyVerify(i)
  \/ ReceiveRestore(i) \/ RestoreCommit(i) \/ RestoreVerify(i) \/ Snapshot(i)

Command(c) ==
  \/ StartBegin(c) \/ StartCheck(c) \/ (\E i \in Pid : StartSpawn(c, i))
  \/ StartNote(c) \/ StartRecord(c) \/ StartDone(c) \/ StartGivesUp(c)
  \/ (\E cmd \in {"stop", "restart"} : StopBegin(c, cmd))
  \/ StopWaited(c) \/ StopDeadline(c) \/ StopKill(c) \/ StopClean(c)
  \/ CommandDies(c)

Next ==
  \/ \E i \in Pid : Serve(i) \/ Execute(i)
  \/ \E c \in Commander : Command(c)
  \/ HostRestores

Spec == Init /\ [][Next]_vars

-----------------------------------------------------------------------------
(* Properties                                                              *)

\* A service is stopped under a takeover only when the takeover began after
\* the last check of the one who stops it: while the server closed, or between
\* the check before SIGKILL and the signal (proxy-server.js:142, service.js:127).
StrandsOnlyRaced == stranded \subseteq raced

\* A service that is up is found by the next command through service.pid or
\* service.json, whichever commands, signals and crashes came before: until
\* commands of two terminals overlap, or a start gives up on a child that is
\* alive (service.js:98) or dies before it has noted its pid (:72, :87).
Tracked == disowned = {} /\ ~crowded => \A i \in Pid : life[i] = "up" => Known = i

\* As long as no full restore has begun, endpoints that point at CPR are those
\* of a takeover in force, over crashes, stops and restarts.
NoOrphan == restores = 0 /\ db.urls = "cpr" => InForce /\ recorded = db.id

\* "an apply racing with stop can never turn a refused SIGTERM into a
\* stranding SIGKILL" (service.js:125); "The daemon must refuse SIGINT,
\* SIGTERM, normal stop, restart, or force-stop escalation that would strand an
\* active CC-Switch or native CLI takeover" (docs/ccswitch-safety.md:89).
NeverStranded == stranded = {}
=============================================================================
