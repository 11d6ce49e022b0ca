-------------------------- MODULE DisasterRestore --------------------------
(***************************************************************************)
(* fullRestore (lib/ccswitch/restore.js): the whole CC-Switch database is   *)
(* replaced by the copy in a snapshot, by a process of the host, through    *)
(* two renames with the old database aside, verified, and put back if       *)
(* anything fails.                                                          *)
(*                                                                         *)
(* Of a database this module keeps which one it is, and whether its         *)
(* endpoints are the user's own or CPR's; of its side files (-wal, -shm),   *)
(* which database they belong to.  The takeover that changes endpoints is   *)
(* in ServiceLifecycle, which extends this module.                          *)
(***************************************************************************)
EXTENDS Naturals

CONSTANTS
  MaxRestores, MaxFaults,   \* bounds: full restores; failures, and deaths of others
  FirstSideFiles,           \* 0 for a database that has them at first, None for one without
  None

ASSUME DisasterAssumption ==
  MaxRestores \in Nat /\ MaxFaults \in Nat /\ FirstSideFiles \subseteq {0, None}

VARIABLES
  db, wal,      \* the live database and its side files
  rollback,     \* the old database, set aside
  displaced,    \* the private copy of the old one and its side files, taken first
  taken,        \* what snapshots hold: endpoints of either kind
  source,       \* what the snapshot being restored holds
  full,         \* where fullRestore is
  phase,        \* ccswitch/state.json
  botched,      \* history: the first rename failed, or an operation of the undoing,
                \* or it ended before the side files were back
  restores, faults

database == <<db, wal, rollback>>
restoring == <<displaced, source, full, botched, restores>>

Urls == {"own", "cpr"}
Database == [id : 0..MaxRestores, urls : Urls]
Saved == [db : Database, wal : (0..MaxRestores) \cup {None}]

ASSUME NoneAssumption == None \notin Database \cup Saved

ActivePhases == {"applying", "active", "restoring", "conflict", "rollback-required"}
Phases == ActivePhases \cup {"inactive", "restored", "full-restored"}

Stages == {"idle", "prepared", "displaced", "out", "bare", "in", "verified", "record",
           "undo", "undo-move", "undo-wal", "failed"}

DisasterTypeOK ==
  /\ db \in Database \cup {None}
  /\ wal \in (0..MaxRestores) \cup {None}
  /\ rollback \in Database \cup {None}
  /\ displaced \in Saved \cup {None}
  /\ taken \subseteq Urls /\ source \in Urls
  /\ full \in Stages /\ phase \in Phases
  /\ botched \in BOOLEAN
  /\ restores \in 0..MaxRestores /\ faults \in 0..MaxFaults

\* One snapshot of the user's own configuration is there.
DisasterInit ==
  /\ db = [id |-> 0, urls |-> "own"]
  /\ wal \in FirstSideFiles
  /\ rollback = None /\ displaced = None
  /\ taken = {"own"} /\ source = "own"
  /\ full = "idle" /\ phase = "inactive"
  /\ botched = FALSE
  /\ restores = 0 /\ faults = 0

-----------------------------------------------------------------------------

Fault == faults < MaxFaults /\ faults' = faults + 1

\* Checks, safety snapshot and temporary copy, with the awaits among them.
FullPrepare ==
  /\ full \in {"idle", "failed"} /\ db # None /\ restores < MaxRestores
  /\ source' \in taken
  /\ taken' = taken \cup {db.urls}
  /\ full' = "prepared"
  /\ restores' = restores + 1
  /\ UNCHANGED <<database, displaced, phase, botched, faults>>

Displace ==
  /\ full = "prepared" /\ db # None
  /\ displaced' = [db |-> db, wal |-> wal]
  /\ full' = "displaced"
  /\ UNCHANGED <<database, taken, source, phase, botched, restores, faults>>

\* Mutant of SetAside: the old database is removed, the private copy being there.
SetAsideNot == None

\* rename(db, rollback)
SetAside == db

MoveOut ==
  /\ full = "displaced" /\ db # None
  /\ rollback' = SetAside /\ db' = None
  /\ full' = "out"
  /\ UNCHANGED <<wal, displaced, taken, source, phase, botched, restores, faults>>

\* Mutant of SideFiles: they stay.
SideFilesStay == wal

\* What is left of the side files before the snapshot's database comes in.
SideFiles == None

DropSideFiles ==
  /\ full = "out"
  /\ wal' = SideFiles
  /\ full' = "bare"
  /\ UNCHANGED <<db, rollback, displaced, taken, source, phase, botched, restores, faults>>

\* rename(temp, db)
MoveIn ==
  /\ full = "bare"
  /\ db' = [id |-> restores, urls |-> source]
  /\ full' = "in"
  /\ UNCHANGED <<wal, rollback, displaced, taken, source, phase, botched, restores, faults>>

\* The read-only connection of the verification may leave side files of its
\* own beside the database it has opened.
Opened == IF full = "in" THEN wal' \in {wal, restores} ELSE UNCHANGED wal

Verify ==
  /\ full = "in"
  /\ Opened
  /\ full' = "verified"
  /\ UNCHANGED <<db, rollback, displaced, taken, source, phase, botched, restores, faults>>

DropRollback ==
  /\ full = "verified"
  /\ rollback' = None
  /\ full' = "record"
  /\ UNCHANGED <<db, wal, displaced, taken, source, phase, botched, restores, faults>>

\* The process ends.
Over == full' = "idle" /\ displaced' = None /\ source' = "own"

\* The record of a takeover is replaced: there is nothing to restore.
FullRecord ==
  /\ full = "record"
  /\ phase' = "full-restored"
  /\ Over
  /\ UNCHANGED <<database, taken, botched, restores, faults>>

-----------------------------------------------------------------------------
(* Failures                                                                *)

\* An operation between the displacement and the record fails, or the
\* verification does.
FullFails ==
  /\ full \in {"displaced", "out", "bare", "in", "verified"} /\ Fault
  /\ Opened
  /\ full' = "undo"
  /\ botched' = (botched \/ full = "displaced")
  /\ UNCHANGED <<db, rollback, displaced, taken, source, phase, restores>>

\* An operation of the undoing may fail as well, which is not looked at.  Such
\* failures, and the death of the process, are bounded by the full restores.
Undo(stage, next, Done) ==
  /\ full = stage
  /\ full' = next
  /\ \/ Done /\ UNCHANGED botched
     \/ botched' = TRUE /\ UNCHANGED database
  /\ UNCHANGED <<displaced, taken, source, phase, restores, faults>>

UndoRemove == Undo("undo", "undo-move", db' = None /\ UNCHANGED <<wal, rollback>>)

MovedBack ==
  IF rollback = None THEN UNCHANGED <<db, rollback>> ELSE db' = rollback /\ rollback' = None

UndoMove == Undo("undo-move", "undo-wal", MovedBack /\ UNCHANGED wal)

\* Mutant of SideFilesBack: the side files are not put back.
NoSideFilesBack == wal

SideFilesBack == displaced.wal

UndoSideFiles == Undo("undo-wal", "failed", wal' = SideFilesBack /\ UNCHANGED <<db, rollback>>)

\* The process dies; once the old database is back, without its side files.
FullDies ==
  /\ full \notin {"idle", "failed"}
  /\ botched' = (botched \/ full = "undo-wal")
  /\ Over
  /\ UNCHANGED <<database, taken, phase, restores, faults>>

FullStep ==
  \/ FullPrepare \/ Displace \/ MoveOut \/ DropSideFiles \/ MoveIn \/ Verify \/ DropRollback
  \/ FullRecord \/ FullFails \/ UndoRemove \/ UndoMove \/ UndoSideFiles \/ FullDies

-----------------------------------------------------------------------------
(* Properties                                                              *)

\* A missing database is set aside, wherever fullRestore is or has died, unless
\* the rename that sets it aside failed (the undoing then removes what was
\* never moved) or the undoing itself did.
NeverGone == db = None /\ ~botched => rollback # None

\* Side files never lie beside a database they do not belong to, which SQLite
\* would replay into it, except that the undoing puts the old database back
\* before it removes those that the verification left (restore.js:144, :150).
NoForeignSideFiles ==
  db # None /\ wal # None /\ ~botched /\ full # "undo-wal" => wal = db.id

\* A full restore that reports a failure has left the database as it was, with
\* the side files that hold its latest commits.
FailureUndone ==
  full = "failed" /\ ~botched => db # None /\ db.id = displaced.db.id /\ wal = displaced.wal
=============================================================================
