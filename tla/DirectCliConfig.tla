-------------------------- MODULE DirectCliConfig --------------------------
(***************************************************************************)
(* The direct takeover of one native CLI (lib/direct-cli-config): its      *)
(* configuration files are captured in a snapshot, replaced one by one by  *)
(* content that points at CPR, and later put back; the token the content   *)
(* carries is issued and revoked in the hop credential store               *)
(* (lib/proxy/hop-credentials.js).                                         *)
(*                                                                         *)
(* apply and restore are synchronous, but the web service and every        *)
(* `cpr cli-config` command are processes of their own and no lock is      *)
(* taken: a step is one access to a shared file.                           *)
(***************************************************************************)
EXTENDS Naturals, Sequences, FiniteSets

CONSTANTS
  Procs,          \* processes that run commands
  Files,          \* native files some plan writes
  Main,           \* the one that selects the provider and carries the token
  Plans,          \* contents of the route profile
  FilesOf,        \* plan |-> the files it writes, in that order
  RoutesOf,       \* plan |-> the routes its token is good for
  TextsOf,        \* file |-> what a user may have in it
  Malformed,      \* texts that do not parse
  CredIds, SnapIds,
  MaxEnv,         \* bound: edits, expiries, forced snapshots
  MaxFail,        \* bound: failures and deaths of commands
  MaxRestoreFail, \* bound: files a restore cannot put back
  None

ASSUME PlanAssumption ==
  /\ FilesOf \in [Plans -> Seq(Files)]
  /\ \A plan \in Plans :
       /\ FilesOf[plan] # <<>> /\ FilesOf[plan][1] = Main
       /\ \A i, j \in DOMAIN FilesOf[plan] : FilesOf[plan][i] = FilesOf[plan][j] => i = j
  /\ None \notin Plans \cup (UNION {TextsOf[f] : f \in Files}) \cup CredIds \cup SnapIds

ASSUME BoundAssumption == {MaxEnv, MaxFail, MaxRestoreFail} \subseteq Nat

VARIABLES
  disk,     \* the native files
  state,    \* state/<cli>.json: the takeover in force, or None
  snaps,    \* snapshot manifests
  creds,    \* hop-credentials.json
  issued,   \* credential ids given out so far
  profile,  \* the route profile now
  job,      \* the command a process is running
  edited,   \* history: files whose content is an edit or a forced restore
  overlapped, \* history: two processes have run commands at the same time
  insisted,   \* history: force has left routing fields where no snapshot undoes them
  misread,    \* history: tokens the last revocation of which did not find them
  env, fails, restoreFails

budget == <<env, fails, restoreFails>>
history == <<overlapped, insisted, misread>>
vars == <<disk, state, snaps, creds, issued, profile, job, edited, history, budget>>

\* A file: the user's own part, and the routing fields CPR manages.
Texts == UNION {TextsOf[f] : f \in Files}
Value == [text : Texts \cup {None}, plan : Plans \cup {None}, cred : CredIds \cup {None}]
Absent == [text |-> None, plan |-> None, cred |-> None]
Natives(f) == [text : TextsOf[f], plan : {None}, cred : {None}] \cup {Absent}
Managed(value) == value.plan # None

FileSet(plan) == {FilesOf[plan][i] : i \in DOMAIN FilesOf[plan]}
Pictures == UNION {[FileSet(plan) -> Value] : plan \in Plans}

Snapshot == [plan : Plans, files : Pictures]
Credential == [plan : Plans, live : SUBSET UNION {RoutesOf[plan] : plan \in Plans}, expired : BOOLEAN]
Record == [phase : {"applying", "active", "restoring", "rollback-required"},
           plan : Plans, snap : SnapIds, cred : CredIds, applied : Pictures]
CredStore == [CredIds -> Credential \cup {None}]
NoCreds == [c \in CredIds |-> None]

Busy == {"capture", "check", "issue", "intend", "write", "disown", "undo",
         "mark", "files", "forward", "revoke", "remove"}
Job == [at : Busy \cup {"idle"}, plan : Plans \cup {None}, snap : SnapIds \cup {None},
        cred : CredIds \cup {None}, rec : Record \cup {None}, creds : CredStore \cup {None},
        i : Nat, wrong : BOOLEAN, force : BOOLEAN, touched : SUBSET Files]
Idle == [at |-> "idle", plan |-> None, snap |-> None, cred |-> None, rec |-> None, creds |-> None,
         i |-> 0, wrong |-> FALSE, force |-> FALSE, touched |-> {}]

ASSUME DistinctAssumption == None \notin Record \cup Snapshot \cup Credential \cup CredStore

TypeOK ==
  /\ disk \in [Files -> Value]
  /\ state \in Record \cup {None}
  /\ snaps \in [SnapIds -> Snapshot \cup {None}]
  /\ creds \in CredStore
  /\ issued \subseteq CredIds
  /\ profile \in Plans
  /\ job \in [Procs -> Job]
  /\ edited \subseteq Files
  /\ overlapped \in BOOLEAN /\ insisted \in BOOLEAN /\ misread \subseteq CredIds
  /\ env \in 0..MaxEnv /\ fails \in 0..MaxFail /\ restoreFails \in 0..MaxRestoreFail

Init ==
  /\ disk \in [Files -> Value] /\ \A f \in Files : disk[f] \in Natives(f)
  /\ state = None
  /\ snaps = [s \in SnapIds |-> None]
  /\ creds = NoCreds
  /\ issued = {}
  /\ profile \in Plans
  /\ job = [p \in Procs |-> Idle]
  /\ edited = {}
  /\ overlapped = FALSE /\ insisted = FALSE /\ misread = {}
  /\ env = 0 /\ fails = 0 /\ restoreFails = 0

-----------------------------------------------------------------------------
(* What the steps read and write                                           *)

At(p, label) == job[p].at = label
Finish(p) == job' = [job EXCEPT ![p] = Idle]
Overlaps(p) == overlapped \/ \E q \in Procs \ {p} : ~ At(q, "idle")
Goto(p, label) == job' = [job EXCEPT ![p].at = label]

\* readFileRecord of every target file, with the profile's hash.
Picture == [plan |-> profile, files |-> [f \in FileSet(profile) |-> disk[f]]]

\* buildClaude, buildCodex: the main file keeps the user's part and gets the
\* token, the agent files are written whole.
Content(plan, cred) ==
  [f \in FileSet(plan) |->
     IF f = Main THEN [text |-> disk[Main].text, plan |-> plan, cred |-> cred]
     ELSE [text |-> None, plan |-> plan, cred |-> None]]

\* verify: the routes of the bundle are all neither revoked nor expired.
Usable(cred) == creds[cred] # None /\ creds[cred].live = RoutesOf[creds[cred].plan] /\ ~ creds[cred].expired

\* issueBundle: older tokens for the same routes are revoked.
Rotated(store, new, plan) ==
  [c \in CredIds |->
     IF c = new THEN [plan |-> plan, live |-> RoutesOf[plan], expired |-> FALSE]
     ELSE IF store[c] = None THEN None
     ELSE [store[c] EXCEPT !.live = @ \ RoutesOf[plan]]]

\* revoke: nothing is saved unless something was live.
Revoked(store, cred) ==
  IF store[cred] = None \/ store[cred].live = {} THEN creds ELSE [store EXCEPT ![cred].live = {}]
Overlooked(store, cred) == IF store[cred] = None THEN misread \cup {cred} ELSE misread \ {cred}

\* status: what makes a normal restore refuse, and what lets it recover.
FilesDrifted == \E f \in DOMAIN state.applied : disk[f] # state.applied[f]
Drifted == profile # state.plan \/ FilesDrifted \/ ~ Usable(state.cred)
\* Mutant of Recovering: files already put back count as drifted.
NotYetUndone == state.phase # "active" /\ ~ FilesDrifted

Recovering ==
  /\ state.phase # "active"
  /\ \A f \in DOMAIN state.applied : disk[f] \in {state.applied[f], snaps[state.snap].files[f]}

\* restoreRecord, atomicWriteFile of one file by process p.
Put(f, value) ==
  /\ disk' = [disk EXCEPT ![f] = value]
  /\ edited' = edited \ {f}

-----------------------------------------------------------------------------
(* apply                                                                   *)

\* `cpr cli-config snapshot`; a program that embeds the library may force it
\* under a takeover, which counts as an edit does.
TakeSnapshot(s, force) ==
  /\ IF state = None THEN UNCHANGED env ELSE force /\ env < MaxEnv /\ env' = env + 1
  /\ snaps[s] = None
  /\ snaps' = [snaps EXCEPT ![s] = Picture]
  /\ overlapped' = (overlapped \/ \E p \in Procs : ~ At(p, "idle"))
  /\ insisted' = (insisted \/ state # None)
  /\ UNCHANGED <<disk, state, creds, issued, profile, job, edited, misread, fails, restoreFails>>

\* A second apply answers "idempotent" or throws and changes nothing.
StartApply(p, given) ==
  /\ At(p, "idle")
  /\ state = None
  /\ given # None => snaps[given] # None
  /\ job' = [job EXCEPT ![p] = [Idle EXCEPT !.at = IF given = None THEN "capture" ELSE "check",
                                            !.plan = profile, !.snap = given]]
  /\ overlapped' = Overlaps(p)
  /\ UNCHANGED <<disk, state, snaps, creds, issued, profile, edited, insisted, misread, budget>>

Capture(p, s) ==
  /\ At(p, "capture")
  /\ snaps[s] = None
  /\ IF state # None
     THEN Finish(p) /\ UNCHANGED snaps
     ELSE /\ snaps' = [snaps EXCEPT ![s] = Picture]
          /\ job' = [job EXCEPT ![p].snap = s, ![p].at = "check"]
  /\ UNCHANGED <<disk, state, creds, issued, profile, edited, budget, history>>

\* Mutant of SameAs: only the profile is compared.
SamePlan(snap, plan) == snap.plan = plan

\* Nothing has changed since the snapshot.
SameAs(snap, plan) ==
  /\ snap.plan = plan
  /\ \A f \in DOMAIN snap.files : disk[f] = snap.files[f]

Check(p) ==
  /\ At(p, "check")
  /\ IF SameAs(snaps[job[p].snap], job[p].plan) THEN Goto(p, "issue") ELSE Finish(p)
  /\ UNCHANGED <<disk, state, snaps, creds, issued, profile, edited, budget, history>>

\* The credential file is loaded, then saved as a whole.
Loading(p) == job[p].at \in {"issue", "disown", "revoke"} /\ job[p].creds = None

LoadCreds(p) ==
  /\ Loading(p)
  /\ job' = [job EXCEPT ![p].creds = creds]
  /\ UNCHANGED <<disk, state, snaps, creds, issued, profile, edited, budget, history>>

\* readJson takes a file it cannot read, or parse, for an empty one.
MisreadCreds(p) ==
  /\ Loading(p)
  /\ fails < MaxFail /\ fails' = fails + 1
  /\ job' = [job EXCEPT ![p].creds = NoCreds]
  /\ UNCHANGED <<disk, state, snaps, creds, issued, profile, edited, env, restoreFails, history>>

Issue(p, c) ==
  /\ At(p, "issue") /\ job[p].creds # None
  /\ c \notin issued
  /\ issued' = issued \cup {c}
  /\ creds' = Rotated(job[p].creds, c, job[p].plan)
  /\ job' = [job EXCEPT ![p].at = "intend", ![p].cred = c, ![p].creds = None]
  /\ UNCHANGED <<disk, state, snaps, profile, edited, budget, history>>

\* planned() throws on a file that does not parse; the token stays live, but
\* is in no file.
BuildFails(p) ==
  /\ At(p, "intend")
  /\ disk[Main].text \in Malformed
  /\ Finish(p)
  /\ UNCHANGED <<disk, state, snaps, creds, issued, profile, edited, budget, history>>

\* The write-ahead record, with everything needed to go either way.
Intend(p) ==
  /\ At(p, "intend")
  /\ disk[Main].text \notin Malformed
  /\ LET rec == [phase |-> "applying", plan |-> job[p].plan, snap |-> job[p].snap,
                 cred |-> job[p].cred, applied |-> Content(job[p].plan, job[p].cred)]
     IN  /\ state' = rec
         /\ job' = [job EXCEPT ![p].at = "write", ![p].rec = rec, ![p].i = 1]
  /\ UNCHANGED <<disk, snaps, creds, issued, profile, edited, budget, history>>

IntendFails(p) ==
  /\ At(p, "intend")
  /\ fails < MaxFail /\ fails' = fails + 1
  /\ Goto(p, "disown")
  /\ UNCHANGED <<disk, state, snaps, creds, issued, profile, edited, env, restoreFails, history>>

Written(p) == job[p].i > Len(FilesOf[job[p].rec.plan])

WriteFile(p) ==
  /\ At(p, "write") /\ ~ Written(p)
  /\ LET f == FilesOf[job[p].rec.plan][job[p].i]
     IN  Put(f, job[p].rec.applied[f])
  /\ job' = [job EXCEPT ![p].i = @ + 1]
  /\ UNCHANGED <<state, snaps, creds, issued, profile, budget, history>>

Activate(p) ==
  /\ At(p, "write") /\ Written(p)
  /\ state' = [job[p].rec EXCEPT !.phase = "active"]
  /\ Finish(p)
  /\ UNCHANGED <<disk, snaps, creds, issued, profile, edited, budget, history>>

\* Mutant of WriteFails: the failure of one file is ignored.
WriteSkips(p) ==
  /\ At(p, "write") /\ ~ Written(p)
  /\ fails < MaxFail /\ fails' = fails + 1
  /\ job' = [job EXCEPT ![p].i = @ + 1]
  /\ UNCHANGED <<disk, state, snaps, creds, issued, profile, edited, env, restoreFails, history>>

\* A file, or the final record, cannot be written.
WriteFails(p) ==
  /\ At(p, "write")
  /\ fails < MaxFail /\ fails' = fails + 1
  /\ Goto(p, "disown")
  /\ UNCHANGED <<disk, state, snaps, creds, issued, profile, edited, env, restoreFails, history>>

\* The token of a failed apply is revoked, then its files are undone: the
\* snapshot's, last first.
Disown(p) ==
  /\ At(p, "disown") /\ job[p].creds # None
  /\ creds' = Revoked(job[p].creds, job[p].cred)
  /\ misread' = Overlooked(job[p].creds, job[p].cred)
  /\ IF job[p].rec = None
     THEN Finish(p)
     ELSE job' = [job EXCEPT ![p].at = "undo", ![p].creds = None,
                             ![p].i = Len(FilesOf[job[p].rec.plan])]
  /\ UNCHANGED <<disk, state, snaps, issued, profile, edited, overlapped, insisted, budget>>

Undo(p) ==
  /\ At(p, "undo") /\ job[p].i > 0
  /\ LET f == FilesOf[job[p].rec.plan][job[p].i]
     IN  Put(f, snaps[job[p].snap].files[f])
  /\ job' = [job EXCEPT ![p].i = @ - 1]
  /\ UNCHANGED <<state, snaps, creds, issued, profile, budget, history>>

UndoFails(p) ==
  /\ At(p, "undo") /\ job[p].i > 0
  /\ fails < MaxFail /\ fails' = fails + 1
  /\ job' = [job EXCEPT ![p].i = @ - 1, ![p].wrong = TRUE]
  /\ UNCHANGED <<disk, state, snaps, creds, issued, profile, edited, env, restoreFails, history>>

\* Mutant of Undone: the record goes whether or not every file is undone.
UndoneAnyway(p) ==
  /\ At(p, "undo") /\ job[p].i = 0
  /\ Goto(p, "remove")
  /\ UNCHANGED <<disk, state, snaps, creds, issued, profile, edited, budget, history>>

Undone(p) ==
  /\ At(p, "undo") /\ job[p].i = 0
  /\ IF job[p].wrong
     THEN state' = [job[p].rec EXCEPT !.phase = "rollback-required"] /\ Finish(p)
     ELSE Goto(p, "remove") /\ UNCHANGED state
  /\ UNCHANGED <<disk, snaps, creds, issued, profile, edited, budget, history>>

-----------------------------------------------------------------------------
(* restore                                                                 *)

\* Without force: the active takeover's own snapshot, and nothing drifted
\* unless an interrupted command left it so.
MayRestore(s, force) ==
  \/ force
  \/ /\ state # None
     /\ s = state.snap
     /\ Drifted => Recovering

\* Every file the takeover has written is one the snapshot puts back: so it is
\* unless another snapshot than the takeover's is forced on it.
Covers(s) == state # None => DOMAIN state.applied \subseteq DOMAIN snaps[s].files

StartRestore(p, s, force) ==
  /\ At(p, "idle")
  /\ snaps[s] # None
  /\ MayRestore(s, force)
  /\ job' = [job EXCEPT ![p] = [Idle EXCEPT !.at = IF state = None THEN "files" ELSE "mark",
                                            !.snap = s, !.rec = state, !.force = force,
                                            !.i = Len(FilesOf[snaps[s].plan])]]
  /\ overlapped' = Overlaps(p)
  /\ insisted' = (insisted \/ ~ Covers(s))
  /\ UNCHANGED <<disk, state, snaps, creds, issued, profile, edited, misread, budget>>

Mark(p) ==
  /\ At(p, "mark")
  /\ state' = [job[p].rec EXCEPT !.phase = "restoring"]
  /\ Goto(p, "files")
  /\ UNCHANGED <<disk, snaps, creds, issued, profile, edited, budget, history>>

RestoreFile(p) ==
  /\ At(p, "files") /\ job[p].i > 0
  /\ LET f == FilesOf[snaps[job[p].snap].plan][job[p].i]
     IN  /\ disk' = [disk EXCEPT ![f] = snaps[job[p].snap].files[f]]
         /\ edited' = IF job[p].force THEN edited \cup {f} ELSE edited \ {f}
  /\ job' = [job EXCEPT ![p].i = @ - 1]
  /\ UNCHANGED <<state, snaps, creds, issued, profile, budget, history>>

RestoreFails(p) ==
  /\ At(p, "files") /\ job[p].i > 0
  /\ restoreFails < MaxRestoreFail /\ restoreFails' = restoreFails + 1
  /\ IF job[p].rec = None THEN Finish(p)
     ELSE job' = [job EXCEPT ![p].at = "forward", ![p].i = 1]
  /\ UNCHANGED <<disk, state, snaps, creds, issued, profile, edited, env, fails, history>>

\* Roll forward to the applied contents.
Forward(p) ==
  /\ At(p, "forward") /\ ~ Written(p)
  /\ LET f == FilesOf[job[p].rec.plan][job[p].i]
     IN  Put(f, job[p].rec.applied[f])
  /\ job' = [job EXCEPT ![p].i = @ + 1]
  /\ UNCHANGED <<state, snaps, creds, issued, profile, budget, history>>

ForwardFails(p) ==
  /\ At(p, "forward") /\ ~ Written(p)
  /\ fails < MaxFail /\ fails' = fails + 1
  /\ job' = [job EXCEPT ![p].i = @ + 1, ![p].wrong = TRUE]
  /\ UNCHANGED <<disk, state, snaps, creds, issued, profile, edited, env, restoreFails, history>>

Forwarded(p) ==
  /\ At(p, "forward") /\ Written(p)
  /\ state' = [job[p].rec EXCEPT !.phase = IF job[p].wrong THEN "rollback-required" ELSE "active"]
  /\ Finish(p)
  /\ UNCHANGED <<disk, snaps, creds, issued, profile, edited, budget, history>>

\* Mutant of Restored: the token is left alive.
RestoredOnly(p) ==
  /\ At(p, "files") /\ job[p].i = 0
  /\ IF job[p].rec = None THEN Finish(p) ELSE Goto(p, "remove")
  /\ UNCHANGED <<disk, state, snaps, creds, issued, profile, edited, budget, history>>

Restored(p) ==
  /\ At(p, "files") /\ job[p].i = 0
  /\ IF job[p].rec = None THEN Finish(p) ELSE Goto(p, "revoke")
  /\ UNCHANGED <<disk, state, snaps, creds, issued, profile, edited, budget, history>>

Revoke(p) ==
  /\ At(p, "revoke") /\ job[p].creds # None
  /\ creds' = Revoked(job[p].creds, job[p].rec.cred)
  /\ misread' = Overlooked(job[p].creds, job[p].rec.cred)
  /\ job' = [job EXCEPT ![p].at = "remove", ![p].creds = None]
  /\ UNCHANGED <<disk, state, snaps, issued, profile, edited, overlapped, insisted, budget>>

\* removeDirect: a failure to remove the record goes unnoticed.
Remove(p) ==
  /\ At(p, "remove")
  /\ state' = None
  /\ Finish(p)
  /\ UNCHANGED <<disk, snaps, creds, issued, profile, edited, budget, history>>

-----------------------------------------------------------------------------
(* The environment                                                         *)

\* A process dies, or a failure ends its command with no handler left.
Quit(p) ==
  /\ job[p].at \in Busy
  /\ fails < MaxFail /\ fails' = fails + 1
  /\ Finish(p)
  /\ UNCHANGED <<disk, state, snaps, creds, issued, profile, edited, env, restoreFails, history>>

\* The user or the CLI rewrites a file, or the user's part of it.
Rewritings(f) == (Natives(f) \cup {[disk[f] EXCEPT !.text = t] : t \in TextsOf[f]}) \ {disk[f]}

Edit(f, value) ==
  /\ env < MaxEnv /\ env' = env + 1
  /\ disk' = [disk EXCEPT ![f] = value]
  /\ edited' = edited \cup {f}
  /\ job' = [p \in Procs |-> IF At(p, "idle") THEN job[p]
                             ELSE [job[p] EXCEPT !.touched = @ \cup {f}]]
  /\ UNCHANGED <<state, snaps, creds, issued, profile, fails, restoreFails, history>>

\* The routes of a profile in use cannot be changed.
EditProfile(plan) ==
  /\ state = None
  /\ plan # profile
  /\ env < MaxEnv /\ env' = env + 1
  /\ profile' = plan
  /\ UNCHANGED <<disk, state, snaps, creds, issued, job, edited, fails, restoreFails, history>>

\* Thirty days have passed: no command lasts that long.
Expire(c) ==
  /\ \A p \in Procs : At(p, "idle")
  /\ creds[c] # None /\ ~ creds[c].expired
  /\ env < MaxEnv /\ env' = env + 1
  /\ creds' = [creds EXCEPT ![c].expired = TRUE]
  /\ UNCHANGED <<disk, state, snaps, issued, profile, job, edited, fails, restoreFails, history>>

Applying(p) ==
  \/ \E s \in SnapIds : Capture(p, s)
  \/ Check(p) \/ LoadCreds(p)
  \/ \E c \in CredIds : Issue(p, c)
  \/ BuildFails(p) \/ Intend(p) \/ WriteFile(p) \/ Activate(p)
  \/ Disown(p) \/ Undo(p) \/ Undone(p)

Restoring(p) ==
  \/ Mark(p) \/ RestoreFile(p) \/ Restored(p) \/ Forward(p) \/ Forwarded(p)
  \/ Revoke(p) \/ Remove(p)

Failing(p) ==
  \/ MisreadCreds(p) \/ IntendFails(p) \/ WriteFails(p) \/ UndoFails(p) \/ RestoreFails(p) \/ ForwardFails(p)
  \/ Quit(p)

Environment ==
  \/ \E f \in Files : \E value \in Rewritings(f) : Edit(f, value)
  \/ \E plan \in Plans : EditProfile(plan)
  \/ \E c \in CredIds : Expire(c)

Next ==
  \/ \E s \in SnapIds, force \in BOOLEAN : TakeSnapshot(s, force)
  \/ \E p \in Procs :
       \/ \E s \in SnapIds \cup {None} : StartApply(p, s)
       \/ \E s \in SnapIds, force \in BOOLEAN : StartRestore(p, s, force)
       \/ Applying(p) \/ Restoring(p) \/ Failing(p)
  \/ Environment

Spec == Init /\ [][Next]_vars

\* A command that has started runs on; and, when nothing else keeps it from
\* working, the user sooner or later asks for a normal restore.
FairSpec ==
  /\ Spec
  /\ \A p \in Procs : WF_vars(Applying(p) \/ Restoring(p))
  /\ WF_vars(\E p \in Procs, s \in SnapIds : StartRestore(p, s, FALSE))

-----------------------------------------------------------------------------
(* Properties                                                              *)

\* Whatever fails or dies: a file that points at CPR is one the takeover in
\* force accounts for, whose snapshot holds what was there before.  That is so
\* until two processes run commands at the same time (no lock keeps them
\* apart), or force leaves a file behind: a snapshot taken under a takeover, or
\* one put back that lacks a file of it.
Recoverable ==
  ~ overlapped /\ ~ insisted => \A f \in Files : Managed(disk[f]) =>
    /\ state # None
    /\ f \in DOMAIN state.applied
    /\ ~ Managed(snaps[state.snap].files[f])

\* A takeover that says it is active is complete: each of its files is as
\* apply wrote it, unless somebody else has written it since, until commands of
\* two processes overlap.
ActiveComplete ==
  ~ overlapped /\ state # None /\ state.phase = "active" =>
    \A f \in DOMAIN state.applied : disk[f] = state.applied[f] \/ f \in edited

\* What p may overwrite: what the snapshot holds, what it wrote itself, what
\* changed under its hands, and anything once it was told to force.
Replaceable(p, f) ==
  \/ job[p].force
  \/ f \in job[p].touched
  \/ disk[f] = snaps[job[p].snap].files[f]
  \/ job[p].rec # None /\ f \in DOMAIN job[p].rec.applied /\ disk[f] = job[p].rec.applied[f]

\* A change made to a native file before a command began is never lost to it
\* without force, until commands of two processes overlap.
NoSilentLoss ==
  [][~ overlapped => \A p \in Procs, f \in Files :
       disk'[f] # disk[f] /\ f \notin edited' /\ job'[p] # job[p] => Replaceable(p, f)]_vars

\* The record of a takeover goes only after its token has died, until commands
\* of two processes overlap, or unless the credential file could not be read
\* when the token was to be revoked.
TokenDiesFirst ==
  [][~ overlapped /\ state # None /\ state' = None /\ state.cred \notin misread =>
       creds[state.cred] # None /\ creds[state.cred].live = {}]_vars

\* A takeover nobody interferes with can be ended by a normal restore, in
\* whatever phase a failed or dead command has left it, if no restore fails.
Disturbed ==
  \/ profile # state.plan
  \/ \E f \in DOMAIN state.applied : f \in edited
  \/ creds[state.cred] # None /\ creds[state.cred].expired
Ends == state # None ~> state = None \/ Disturbed \/ restoreFails > 0
=============================================================================
