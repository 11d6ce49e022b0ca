-------------------------- MODULE CcSwitchTakeover --------------------------
(***************************************************************************)
(* The reversible CC-Switch takeover (lib/ccswitch, lib/takeover-state.js).*)
(*                                                                         *)
(* CPR rewrites endpoint fields of another program's SQLite database so    *)
(* that they point at CPR's own gateway, and must be able to put every one *)
(* of them back.  What it wrote is recorded in one state file; what was    *)
(* there before, in immutable snapshots.                                   *)
(*                                                                         *)
(* The service is one JavaScript thread.  A request gives the thread up    *)
(* only at its two macro-task awaits, the health probe and the SQLite      *)
(* backup; between them its steps exclude every other request (variable    *)
(* job) but not CC-Switch, which is another process, nor a crash.          *)
(***************************************************************************)
EXTENDS Naturals

CONSTANTS
  Fields,       \* endpoint fields: a claude env URL, a codex base_url line,
                \* a provider_endpoints row
  TomlFields,   \* those that are base_url lines of a TOML text
  Occurrence,   \* position of a field among those of its provider
  Providers, ProviderOf,
  Routes, RouteOf,      \* /ccswitch/app/provider[/endpoint/row] of a field
  Urls,         \* upstream URLs that users configure
  LoopbackUrls, \* those whose host is a loopback address
  Bases,        \* proxyBaseUrl values (ports) the service may listen on
  DbIds,        \* database identities (device, inode, schema)
  SnapIds,      \* supply of snapshot identifiers
  Requests,     \* web requests that may be in flight at once
  Appliers,     \* those of them that may be POST /api/ccswitch/apply
  MaxEnv,       \* bound: external edits, replacements, lock failures, crashes
  Gone,         \* row deleted, settings unparsable or TOML line removed
  Blank,        \* the settings are there but hold no URL
  None

LocalUrl(b, rt) == [base |-> b, route |-> rt]
LocalUrls == [base : Bases, route : Routes]
Endpoints == Urls \cup LocalUrls
Values == Endpoints \cup {Gone, Blank}

ASSUME ShapeAssumption ==
  /\ TomlFields \subseteq Fields
  /\ Occurrence \in [Fields -> Nat]
  /\ ProviderOf \in [Fields -> Providers]
  /\ RouteOf \in [Fields -> Routes]
  /\ LoopbackUrls \subseteq Urls
  /\ Appliers \subseteq Requests
  /\ MaxEnv \in Nat

ASSUME DistinctAssumption ==
  /\ Urls \cap LocalUrls = {}
  /\ Gone \notin Endpoints
  /\ Blank \notin Endpoints
  /\ Gone # Blank
  /\ None \notin SnapIds \cup Requests \cup Endpoints
  /\ None \notin [value : [Fields -> Values], id : DbIds]

VARIABLES
  db,       \* live value of every endpoint field
  dbId,     \* identity of the live database file
  file,     \* CPR_HOME/ccswitch/state.json
  snaps,    \* snapshot directories with a manifest
  base,     \* proxyBaseUrl of the running service
  req,      \* in-flight web requests
  job,      \* the synchronous section that holds the thread
  env,      \* environment events left
  raced     \* history: an apply has recorded its takeover over an unsettled
            \* one, which another apply had begun behind its check

vars == <<db, dbId, file, snaps, base, req, job, env, raced>>

\* lib/takeover-state.js: phases that must never be left behind.
ActivePhases == {"applying", "active", "restoring", "conflict", "rollback-required"}

\* Mutant of Settled: a conflict counts as finished.
SettledOrConflicted == {"none", "restored", "full-restored", "conflict"}

\* Phases in which apply may start afresh and restore has nothing to do.
Settled == {"none", "restored", "full-restored"}

Statuses == ActivePhases \cup Settled

Snapshot == [value : [Fields -> Values], id : DbIds]

NoState == [status |-> "none", fields |-> {}, snap |-> None, base |-> None, id |-> None]
NoRequest == [pc |-> "idle", sel |-> {}, snap |-> None, id |-> None,
              source |-> None, frozen |-> None]
NoJob == [op |-> "idle", step |-> "none", who |-> None, snap |-> None,
          force |-> FALSE, todo |-> {}]

StateRecord ==
  [status : Statuses, fields : SUBSET Fields, snap : SnapIds \cup {None},
   base : Bases \cup {None}, id : DbIds \cup {None}]

\* pc says which await a request is in; id is the identity that apply
\* discovered, source that of the file its backup opened, frozen the last
\* content of that file once another one has replaced it.
RequestRecord ==
  [pc : {"idle", "health", "backup", "plan"}, sel : SUBSET Providers,
   snap : SnapIds \cup {None}, id : DbIds \cup {None},
   source : DbIds \cup {None}, frozen : [Fields -> Values] \cup {None}]

JobRecord ==
  [op : {"idle", "apply", "restore"},
   step : {"none", "plan", "inspect", "commit", "verify"},
   who : Requests \cup {None}, snap : SnapIds \cup {None},
   force : BOOLEAN, todo : SUBSET Fields]

TypeOK ==
  /\ db \in [Fields -> Values]
  /\ dbId \in DbIds
  /\ file \in StateRecord
  /\ snaps \in [SnapIds -> Snapshot \cup {None}]
  /\ base \in Bases
  /\ req \in [Requests -> RequestRecord]
  /\ job \in JobRecord
  /\ env \in 0..MaxEnv
  /\ raced \in BOOLEAN

Init ==
  /\ db \in [Fields -> Urls]
  /\ dbId \in DbIds
  /\ file = NoState
  /\ snaps = [s \in SnapIds |-> None]
  /\ base \in Bases
  /\ req = [r \in Requests |-> NoRequest]
  /\ job = NoJob
  /\ env = MaxEnv
  /\ raced = FALSE

-----------------------------------------------------------------------------
(* The changes recorded in the state file and their live condition.        *)

\* change.original: copied from the snapshot the takeover was planned on,
\* and snapshots are never rewritten.
Original(f) == snaps[file.snap].value[f]

\* change.applied
Applied(f) == LocalUrl(file.base, RouteOf[f])

ConditionOf(v, original, applied) ==
  IF v = Gone THEN "missing"
  ELSE IF v = applied THEN "applied"
  ELSE IF v = original THEN "original"
  ELSE "drift"

Condition(f) == ConditionOf(db[f], Original(f), Applied(f))

Expected(op) == IF op = "restore" THEN "applied" ELSE "original"
Target(op) == IF op = "restore" THEN "original" ELSE "applied"
ExpectedValue(op, f) == IF op = "restore" THEN Applied(f) ELSE Original(f)
Replacement(op, f) == IF op = "restore" THEN Original(f) ELSE Applied(f)

\* What a failed or unverified section leaves in the state file, and what a
\* verified one does.
Failed(op) == IF op = "restore" THEN "conflict" ELSE "rollback-required"
Succeeded(op) == IF op = "restore" THEN "restored" ELSE "active"

\* status(): the live verdict on a recorded takeover.
LiveTakeover ==
  IF file.id # dbId THEN "conflict"
  ELSE IF \A f \in file.fields : Condition(f) = "original" THEN "restored"
  ELSE IF \A f \in file.fields : Condition(f) = "applied" THEN "active"
  ELSE "conflict"

-----------------------------------------------------------------------------
(* apply, up to the write-ahead state.                                     *)

Free == job.op = "idle"

\* POST /api/ccswitch/apply: discover the database, start the health probe.
\* A refusal at this point (unsupported schema, CC-Switch's own routing on)
\* leaves no trace and is the absence of this step.
ApplyStart(r, sel, s) ==
  /\ Free
  /\ r \in Appliers
  /\ req[r].pc = "idle"
  /\ req' = [req EXCEPT ![r] = [NoRequest EXCEPT !.pc = "health", !.sel = sel,
                                                 !.snap = s, !.id = dbId]]
  /\ UNCHANGED <<db, dbId, file, snaps, base, job, env, raced>>

\* The health probe fails or its nonce does not match.
ApplyUnhealthy(r) ==
  /\ Free
  /\ req[r].pc = "health"
  /\ req' = [req EXCEPT ![r] = NoRequest]
  /\ UNCHANGED <<db, dbId, file, snaps, base, job, env, raced>>

\* An earlier takeover is not settled.  If the live database shows it fully
\* applied under the same base it is confirmed (or recovered), else refused.
ApplyExisting(r) ==
  /\ Free
  /\ req[r].pc = "health"
  /\ file.status \notin Settled
  /\ file' = IF LiveTakeover = "active" /\ file.base = base
             THEN [file EXCEPT !.status = "active"]
             ELSE file
  /\ req' = [req EXCEPT ![r] = NoRequest]
  /\ UNCHANGED <<db, dbId, snaps, base, job, env, raced>>

\* No takeover: go on with the named snapshot, if it can be read.
ApplyOnSnapshot(r) ==
  /\ Free
  /\ req[r].pc = "health"
  /\ file.status \in Settled
  /\ req[r].snap # None
  /\ IF snaps[req[r].snap] = None
     THEN /\ req' = [req EXCEPT ![r] = NoRequest]
          /\ UNCHANGED job
     ELSE /\ req' = [req EXCEPT ![r].pc = "plan"]
          /\ job' = [NoJob EXCEPT !.op = "apply", !.step = "plan", !.who = r,
                                  !.snap = req[r].snap]
  /\ UNCHANGED <<db, dbId, file, snaps, base, env, raced>>

\* No takeover and no snapshot named: discover again, open the database
\* and await its backup.
ApplyBackup(r) ==
  /\ Free
  /\ req[r].pc = "health"
  /\ file.status \in Settled
  /\ req[r].snap = None
  /\ req' = [req EXCEPT ![r].pc = "backup", ![r].source = dbId]
  /\ UNCHANGED <<db, dbId, file, snaps, base, job, env, raced>>

\* POST /api/ccswitch/snapshot: the same backup, with nothing to apply.
SnapshotStart(r) ==
  /\ Free
  /\ req[r].pc = "idle"
  /\ req' = [req EXCEPT ![r] = [NoRequest EXCEPT !.pc = "backup", !.source = dbId]]
  /\ UNCHANGED <<db, dbId, file, snaps, base, job, env, raced>>

\* The last pages are copied and the continuation runs: endpoint map and
\* manifest are written under a fresh id.  The copy is of the file that was
\* opened, even if another one has taken its place.
BackupDone(r, s) ==
  /\ Free
  /\ req[r].pc = "backup"
  /\ snaps[s] = None
  /\ snaps' = [snaps EXCEPT ![s] =
                 [value |-> IF req[r].frozen = None THEN db ELSE req[r].frozen,
                  id    |-> req[r].source]]
  /\ IF req[r].sel = {}
     THEN /\ req' = [req EXCEPT ![r] = NoRequest]
          /\ UNCHANGED job
     ELSE /\ req' = [req EXCEPT ![r].pc = "plan"]
          /\ job' = [NoJob EXCEPT !.op = "apply", !.step = "plan", !.who = r, !.snap = s]
  /\ UNCHANGED <<db, dbId, file, base, env, raced>>

\* The backup rejects (disk full, id taken): the request ends.
BackupFails(r) ==
  /\ Free
  /\ req[r].pc = "backup"
  /\ req' = [req EXCEPT ![r] = NoRequest]
  /\ UNCHANGED <<db, dbId, file, snaps, base, job, env, raced>>

\* collectTargets: endpoint fields of the selected providers in the snapshot.
Planned(sel, snap) ==
  {f \in Fields : ProviderOf[f] \in sel /\ snap.value[f] \in Endpoints}

LoopsBack(v) == v \in LocalUrls /\ v.base = base

\* Every precondition between the snapshot and the first write.
PlanAccepted(sel, snap, id) ==
  LET planned == Planned(sel, snap) IN
  /\ snap.id = id
  /\ \A f \in planned : ~ LoopsBack(snap.value[f])
  /\ planned # {}
  /\ \A f \in planned :
       ConditionOf(db[f], snap.value[f], LocalUrl(base, RouteOf[f])) = "original"

\* Write-ahead: the state file names every field before one is touched.  The
\* check for an earlier takeover was made before the backup was awaited; it
\* is not made again.
JobPlan ==
  /\ job.op = "apply" /\ job.step = "plan"
  /\ LET q == req[job.who]
         snap == snaps[job.snap]
     IN IF PlanAccepted(q.sel, snap, q.id)
        THEN /\ file' = [status |-> "applying", fields |-> Planned(q.sel, snap),
                         snap |-> job.snap, base |-> base, id |-> q.id]
             /\ job' = [NoJob EXCEPT !.op = "apply", !.step = "inspect"]
             /\ raced' = (raced \/ file.status \notin Settled)
        ELSE /\ job' = NoJob
             /\ UNCHANGED <<file, raced>>
  /\ req' = [req EXCEPT ![job.who] = NoRequest]
  /\ UNCHANGED <<db, dbId, snaps, base, env>>

-----------------------------------------------------------------------------
(* restore, and the mutation that apply and restore share.                 *)

\* POST /api/ccswitch/restore.  Refused, without a trace, for a settled
\* state or another database identity.
RestoreStart(force) ==
  /\ Free
  /\ file.status \notin Settled
  /\ file.id = dbId
  /\ file' = [file EXCEPT !.status = "restoring"]
  /\ job' = [NoJob EXCEPT !.op = "restore", !.step = "inspect", !.force = force]
  /\ UNCHANGED <<db, dbId, snaps, base, req, env, raced>>

\* Mutant of Actionable: changes already at their target are not skipped.
EveryChange(op) == file.fields

\* mutate(): the changes not yet at their target ...
Actionable(op) == {f \in file.fields : Condition(f) # Target(op)}

\* ... must be where this direction expects them (assertMutable).
Mutable(op, force, todo) ==
  \A f \in todo : \/ Condition(f) = Expected(op)
                  \/ force /\ Condition(f) # "missing"

JobInspect ==
  /\ job.step = "inspect"
  /\ LET todo == Actionable(job.op) IN
     IF Mutable(job.op, job.force, todo)
     THEN /\ job' = [job EXCEPT !.step = "commit", !.todo = todo]
          /\ UNCHANGED file
     ELSE /\ job' = NoJob
          /\ file' = [file EXCEPT !.status = Failed(job.op)]
  /\ UNCHANGED <<db, dbId, snaps, base, req, env, raced>>

\* Mutant of StillExpected: no comparison inside the transaction.
StillThere(op, force, f) == db[f] # Gone

\* The comparison made inside the transaction.
StillExpected(op, force, f) ==
  \/ force /\ db[f] # Gone
  \/ db[f] = ExpectedValue(op, f)
  \/ f \in TomlFields /\ db[f] = Replacement(op, f)

\* One SQLite transaction over all actionable fields, or none of them.
JobCommit ==
  /\ job.step = "commit"
  /\ IF \A f \in job.todo : StillExpected(job.op, job.force, f)
     THEN /\ db' = [f \in Fields |-> IF f \in job.todo THEN Replacement(job.op, f) ELSE db[f]]
          /\ job' = [job EXCEPT !.step = "verify", !.todo = {}]
          /\ UNCHANGED file
     ELSE /\ job' = NoJob
          /\ file' = [file EXCEPT !.status = Failed(job.op)]
          /\ UNCHANGED db
  /\ UNCHANGED <<dbId, snaps, base, req, env, raced>>

\* The transaction throws for a reason of its own (writer lock, I/O).
JobCommitThrows ==
  /\ job.step = "commit"
  /\ env > 0
  /\ env' = env - 1
  /\ job' = NoJob
  /\ file' = [file EXCEPT !.status = Failed(job.op)]
  /\ UNCHANGED <<db, dbId, snaps, base, req, raced>>

\* Mutant of Verified: the commit is trusted.
AssumeVerified(op) == TRUE

\* The committed rows, read again through a new connection.
Verified(op) == \A f \in file.fields : Condition(f) = Target(op)

JobVerify ==
  /\ job.step = "verify"
  /\ file' = [file EXCEPT !.status =
                IF Verified(job.op) THEN Succeeded(job.op) ELSE Failed(job.op)]
  /\ job' = NoJob
  /\ UNCHANGED <<db, dbId, snaps, base, req, env, raced>>

-----------------------------------------------------------------------------
(* The environment: CC-Switch and its user, and crashes of the service.    *)

\* CC-Switch edits, clears, deletes or re-creates an endpoint.  It never
\* writes a CPR URL by itself, nor an empty base_url line.
ExternalEdit(f, v) ==
  /\ env > 0
  /\ v = Blank => f \notin TomlFields
  /\ v # db[f]
  /\ db' = [db EXCEPT ![f] = v]
  /\ env' = env - 1
  /\ UNCHANGED <<dbId, file, snaps, base, req, job, raced>>

\* The database file is replaced by a copy; backups keep the old file open.
ExternalReplace(id) ==
  /\ env > 0
  /\ id # dbId
  /\ dbId' = id
  /\ req' = [r \in Requests |->
               IF req[r].pc = "backup" /\ req[r].frozen = None
               THEN [req[r] EXCEPT !.frozen = db] ELSE req[r]]
  /\ env' = env - 1
  /\ UNCHANGED <<db, file, snaps, base, job, raced>>

\* The service dies at any point and comes up again, perhaps on another port.
Crash ==
  /\ env > 0
  /\ base' \in Bases
  /\ req' = [r \in Requests |-> NoRequest]
  /\ job' = NoJob
  /\ env' = env - 1
  /\ UNCHANGED <<db, dbId, file, snaps, raced>>

-----------------------------------------------------------------------------

Request(r) ==
  \/ \E sel \in (SUBSET Providers) \ {{}}, s \in SnapIds \cup {None} : ApplyStart(r, sel, s)
  \/ ApplyUnhealthy(r) \/ ApplyExisting(r) \/ ApplyOnSnapshot(r) \/ ApplyBackup(r)
  \/ SnapshotStart(r)
  \/ \E s \in SnapIds : BackupDone(r, s)
  \/ BackupFails(r)

Job == JobPlan \/ JobInspect \/ JobCommit \/ JobVerify

External ==
  \/ \E f \in Fields, v \in Urls \cup {Gone, Blank} : ExternalEdit(f, v)
  \/ \E id \in DbIds : ExternalReplace(id)
  \/ Crash
  \/ JobCommitThrows

Next ==
  \/ \E r \in Requests : Request(r)
  \/ \E force \in BOOLEAN : RestoreStart(force)
  \/ Job
  \/ External

Spec == Init /\ [][Next]_vars

-----------------------------------------------------------------------------
(* The gateway (lib/ccswitch/gateway.js, upstream.js).                     *)

\* Mutant of MapUpstream: the upstream is read from the rewritten rows.
LiveUpstream(s, f) == db[f]

\* Upstream of a field in the endpoint map of a snapshot.
MapUpstream(s, f) == snaps[s].value[f]

MapEntries(s, rt) == {f \in Fields : RouteOf[f] = rt /\ MapUpstream(s, f) \in Endpoints}

\* The map is searched in order: the first entry of the route answers.
FirstEntry(s, rt) ==
  CHOOSE f \in MapEntries(s, rt) :
    \A g \in MapEntries(s, rt) : Occurrence[f] <= Occurrence[g]

\* Where a request on route rt is sent; None if it is refused.
GatewayTarget(rt) ==
  IF file.status # "active" \/ MapEntries(file.snap, rt) = {} THEN None
  ELSE LET v == MapUpstream(file.snap, FirstEntry(file.snap, rt))
       IN IF v \in LocalUrls \cup LoopbackUrls THEN None ELSE v

-----------------------------------------------------------------------------
(* Properties.                                                             *)

\* No endpoint is ever left pointing at CPR without a record to restore it
\* from: a field that holds a local URL belongs to an unsettled takeover that
\* wrote exactly that URL and knows a real upstream for it.  Crashes,
\* concurrent edits by CC-Switch and failed transactions included, and
\* overlapping applies until one has recorded its takeover over another's.
NoOrphan ==
  ~ raced => \A f \in Fields : db[f] \in LocalUrls =>
    /\ file.status \in ActivePhases
    /\ f \in file.fields
    /\ db[f] = Applied(f)
    /\ Original(f) \in Urls

\* An apply does not go ahead while another operation of CPR is unfinished
\* (docs/ccswitch-safety.md, requirement 3 before any write): the record of
\* an unsettled takeover is not replaced by that of another.
NeverDisplaced ==
  [][file'.snap # file.snap => file.status \in Settled]_vars

\* Unless the user forces it, no step of CPR overwrites a value that CC-Switch
\* put there: it only swaps the recorded original with the value it applied.
\* Even a forced restore leaves deleted records and unmanaged fields alone.
NeverOverwriteDrift ==
  [][\A f \in Fields : (job' # job /\ db'[f] # db[f]) =>
       /\ f \in file.fields
       /\ IF job.force THEN db[f] # Gone /\ db'[f] = Original(f)
          ELSE {db[f], db'[f]} = {Original(f), Applied(f)}]_vars

\* The state file says active, or restored, only if every managed field was
\* read back as applied, or as original, after the last write.
HonestStatus ==
  [][file'.status # file.status =>
       /\ file'.status = "active" => \A f \in file'.fields : db[f] = Applied(f)
       /\ file'.status = "restored" => \A f \in file'.fields : db[f] = Original(f)]_vars

\* Two base_url lines of one TOML text get the same route.
SharesRoute(f) == \E g \in Fields \ {f} : RouteOf[g] = RouteOf[f]

\* A taken-over field with a route of its own is served by its own recorded
\* upstream, whatever has happened to the live rows since (loopback upstreams
\* are refused by design).
GatewayOwnUpstream ==
  ~ raced /\ file.status = "active" =>
    \A f \in file.fields :
      db[f] = Applied(f) /\ ~ SharesRoute(f) /\ Original(f) \notin LoopbackUrls =>
        GatewayTarget(RouteOf[f]) = Original(f)

\* A restore reports a conflict only for a cause: its transaction threw, a
\* field holds neither of its two values, or one was edited between the
\* inspection and the transaction.  A mixture of applied and original fields,
\* which a repair by the user or a failed restore leaves, is none
\* (operations.js, actionable).
ConflictHasCause ==
  [][file.status = "restoring" /\ file'.status = "conflict" =>
       \/ env' # env
       \/ \E f \in file.fields : Condition(f) \in {"missing", "drift"}
       \/ \E f \in job.todo : Condition(f) # "applied"]_vars

=============================================================================
