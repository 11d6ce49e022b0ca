---------------------- MODULE CcSwitchTakeoverProofs ----------------------
(***************************************************************************)
(* Proofs about CcSwitchTakeover for any number of fields, providers,      *)
(* snapshots, overlapping requests and environment events.                 *)
(***************************************************************************)
EXTENDS CcSwitchTakeover, TLAPS

\* What the thread is doing agrees with the state file and the request that
\* holds it.
JobShape ==
  /\ job.op = "idle" => job = NoJob
  /\ job.step = "plan" =>
       /\ job.op = "apply" /\ job.who \in Requests
       /\ job.snap \in SnapIds /\ snaps[job.snap] # None
       /\ req[job.who].pc = "plan"
  /\ job.step \in {"inspect", "commit", "verify"} =>
       \/ job.op = "apply" /\ file.status = "applying"
       \/ job.op = "restore" /\ file.status = "restoring"
  /\ job.todo \subseteq file.fields
  /\ job.force => job.op = "restore"

\* A recorded takeover names a snapshot that exists.
FileShape ==
  /\ file.status = "none" => file.fields = {}
  /\ file.status # "none" =>
       /\ file.snap \in SnapIds /\ snaps[file.snap] # None
       /\ file.base \in Bases

\* Requests carry what they discovered; only appliers select providers.
ReqShape ==
  \A r \in Requests :
    /\ req[r].sel # {} => r \in Appliers
    /\ req[r].pc \in {"health", "plan"} => req[r].sel # {}
    /\ req[r].sel # {} => req[r].id \in DbIds
    /\ req[r].pc = "backup" => req[r].source \in DbIds

ShapeInv == TypeOK /\ JobShape /\ FileShape /\ ReqShape

LEMMA ShapeInit == Init => ShapeInv
  <1> SUFFICES ASSUME Init PROVE ShapeInv
    OBVIOUS
  <1> USE ShapeAssumption DEF Init, NoState, NoRequest, NoJob
  <1>1. TypeOK
    <2>1. db \in [Fields -> Values]
      BY DEF Values, Endpoints
    <2>2. file \in StateRecord /\ req \in [Requests -> RequestRecord] /\ job \in JobRecord
      BY DEF StateRecord, RequestRecord, JobRecord, Statuses, Settled
    <2>3. raced \in BOOLEAN
      OBVIOUS
    <2>4. dbId \in DbIds /\ snaps \in [SnapIds -> Snapshot \cup {None}] /\ base \in Bases
      OBVIOUS
    <2>5. env \in 0..MaxEnv
      OBVIOUS
    <2> HIDE DEF Init
    <2> QED
      BY <2>1, <2>2, <2>3, <2>4, <2>5, Zenon DEF TypeOK
  <1>2. JobShape /\ FileShape /\ ReqShape
    BY DEF JobShape, FileShape, ReqShape
  <1> QED
    BY <1>1, <1>2 DEF ShapeInv

\* Both ends of a recorded change are values a field can hold.
LEMMA ChangeTypes ==
  ASSUME ShapeInv, file.status # "none", NEW f \in Fields
  PROVE  /\ Original(f) \in Values
         /\ Applied(f) \in LocalUrls
         /\ Applied(f) \in Values
  <1>1. snaps[file.snap] \in Snapshot
    BY DEF ShapeInv, TypeOK, FileShape
  <1>2. Original(f) \in Values
    BY <1>1 DEF Original, Snapshot
  <1>3. Applied(f) \in LocalUrls
    BY ShapeAssumption DEF ShapeInv, FileShape, Applied, LocalUrl, LocalUrls
  <1> QED
    BY <1>2, <1>3 DEF Values, Endpoints

\* Updates of one request keep its type.
LEMMA PcType ==
  ASSUME TypeOK, NEW r \in Requests
  PROVE  [req EXCEPT ![r].pc = "plan"] \in [Requests -> RequestRecord]
  <1>1. req[r] \in RequestRecord
    BY DEF TypeOK
  <1>2. [req[r] EXCEPT !.pc = "plan"] \in RequestRecord
    BY <1>1 DEF RequestRecord
  <1> QED
    BY <1>2 DEF TypeOK

LEMMA SourceType ==
  ASSUME TypeOK, NEW r \in Requests
  PROVE  [req EXCEPT ![r].pc = "backup", ![r].source = dbId] \in [Requests -> RequestRecord]
  <1>1. req[r] \in RequestRecord /\ dbId \in DbIds
    BY DEF TypeOK
  <1>2. [req[r] EXCEPT !.pc = "backup", !.source = dbId] \in RequestRecord
    BY <1>1 DEF RequestRecord
  <1> QED
    BY <1>2 DEF TypeOK

LEMMA ShapeStep == ShapeInv /\ [Next]_vars => ShapeInv'
  <1> SUFFICES ASSUME ShapeInv, [Next]_vars PROVE ShapeInv'
    OBVIOUS
  <1> USE ShapeAssumption, DistinctAssumption
  <1> USE DEF ShapeInv, TypeOK, JobShape, FileShape, ReqShape, Free, NoRequest, NoJob,
              StateRecord, RequestRecord, JobRecord
  <1>1. ASSUME NEW r \in Requests, Request(r) PROVE ShapeInv'
    <2>1. ASSUME NEW sel \in (SUBSET Providers) \ {{}}, NEW s \in SnapIds \cup {None},
                 ApplyStart(r, sel, s)
          PROVE  ShapeInv'
      BY <2>1 DEF ApplyStart
    <2>2. CASE ApplyUnhealthy(r)
      BY <2>2 DEF ApplyUnhealthy
    <2>3. CASE ApplyExisting(r)
      BY <2>3 DEF ApplyExisting, Settled, Statuses, ActivePhases
    <2>4. CASE ApplyOnSnapshot(r)
      <3>1. CASE snaps[req[r].snap] = None
        <4>1. /\ req' = [req EXCEPT ![r] = NoRequest]
              /\ UNCHANGED <<db, dbId, file, snaps, base, job, env, raced>>
          BY <2>4, <3>1 DEF ApplyOnSnapshot
        <4> QED
          BY <2>4, <4>1 DEF ApplyOnSnapshot
      <3>2. CASE snaps[req[r].snap] # None
        <4>1. /\ req[r].snap \in SnapIds
              /\ req' = [req EXCEPT ![r].pc = "plan"]
              /\ job' = [NoJob EXCEPT !.op = "apply", !.step = "plan", !.who = r,
                                      !.snap = req[r].snap]
              /\ UNCHANGED <<db, dbId, file, snaps, base, env, raced>>
              /\ req[r].pc = "health"
          BY <2>4, <3>2 DEF ApplyOnSnapshot
        <4>2. TypeOK'
          BY <4>1, PcType
        <4>3. JobShape'
          BY <3>2, <4>1
        <4>4. FileShape' /\ ReqShape'
          BY <4>1
        <4> QED
          BY <4>2, <4>3, <4>4
      <3> QED
        BY <3>1, <3>2
    <2>5. CASE ApplyBackup(r)
      <3>1. TypeOK'
        BY <2>5, SourceType DEF ApplyBackup
      <3>2. JobShape' /\ FileShape'
        BY <2>5 DEF ApplyBackup
      <3>3. ReqShape'
        BY <2>5 DEF ApplyBackup
      <3> QED
        BY <3>1, <3>2, <3>3
    <2>6. CASE SnapshotStart(r)
      BY <2>6 DEF SnapshotStart
    <2>7. ASSUME NEW s \in SnapIds, BackupDone(r, s) PROVE ShapeInv'
      <3>1. snaps' \in [SnapIds -> Snapshot \cup {None}]
        BY <2>7 DEF BackupDone, Snapshot
      <3>2. snaps[s] = None /\ snaps'[s] # None
        BY <2>7 DEF BackupDone, Snapshot
      <3>3. \A t \in SnapIds \ {s} : snaps'[t] = snaps[t]
        BY <2>7 DEF BackupDone
      <3>4. UNCHANGED <<db, dbId, file, base, env, raced>> /\ job = NoJob
        BY <2>7 DEF BackupDone
      <3>5. FileShape'
        BY <3>2, <3>3, <3>4
      <3>6. CASE req[r].sel = {}
        <4>1. req' = [req EXCEPT ![r] = NoRequest] /\ job' = NoJob
          BY <2>7, <3>4, <3>6 DEF BackupDone
        <4> QED
          BY <3>1, <3>4, <3>5, <4>1
      <3>7. CASE req[r].sel # {}
        <4>1. /\ req' = [req EXCEPT ![r].pc = "plan"]
              /\ job' = [NoJob EXCEPT !.op = "apply", !.step = "plan", !.who = r, !.snap = s]
          BY <2>7, <3>7 DEF BackupDone
        <4>2. TypeOK'
          BY <3>1, <3>4, <4>1, PcType
        <4>3. JobShape'
          BY <3>2, <3>4, <4>1
        <4>4. ReqShape'
          BY <3>7, <4>1
        <4> QED
          BY <3>5, <4>2, <4>3, <4>4
      <3> QED
        BY <3>6, <3>7
    <2>8. CASE BackupFails(r)
      BY <2>8 DEF BackupFails
    <2> QED
      BY <1>1, <2>1, <2>2, <2>3, <2>4, <2>5, <2>6, <2>7, <2>8 DEF Request
  <1>2. ASSUME NEW force \in BOOLEAN, RestoreStart(force) PROVE ShapeInv'
    BY <1>2 DEF RestoreStart, Settled, Statuses, ActivePhases
  <1>3. CASE JobPlan
    <2> DEFINE q == req[job.who]
               snap == snaps[job.snap]
    <2>1. job.who \in Requests /\ job.snap \in SnapIds /\ snap # None
          /\ q.id \in DbIds
      BY <1>3 DEF JobPlan
    <2>2. req' = [req EXCEPT ![job.who] = NoRequest] /\ UNCHANGED <<db, dbId, snaps, base, env>>
      BY <1>3 DEF JobPlan
    <2>3. ReqShape'
      BY <2>1, <2>2
    <2>4. CASE PlanAccepted(q.sel, snap, q.id)
      <3>1. /\ file' = [status |-> "applying", fields |-> Planned(q.sel, snap),
                        snap |-> job.snap, base |-> base, id |-> q.id]
            /\ job' = [NoJob EXCEPT !.op = "apply", !.step = "inspect"]
        BY <1>3, <2>4 DEF JobPlan
      <3>2. Planned(q.sel, snap) \subseteq Fields
        BY DEF Planned
      <3>3. raced' \in BOOLEAN
        BY <1>3, <2>4 DEF JobPlan
      <3>4. TypeOK'
        BY <2>1, <2>2, <3>1, <3>2, <3>3 DEF Statuses, ActivePhases
      <3>5. JobShape' /\ FileShape'
        BY <2>1, <2>2, <3>1
      <3> QED
        BY <2>3, <3>4, <3>5
    <2>5. CASE ~ PlanAccepted(q.sel, snap, q.id)
      <3>1. job' = NoJob /\ UNCHANGED <<file, raced>>
        BY <1>3, <2>5 DEF JobPlan
      <3> QED
        BY <2>2, <2>3, <3>1
    <2> QED
      BY <2>4, <2>5
  <1>4. CASE JobInspect
    <2> DEFINE todo == Actionable(job.op)
    <2>1. todo \subseteq file.fields /\ UNCHANGED <<db, dbId, snaps, base, req, env, raced>>
      BY <1>4 DEF JobInspect, Actionable
    <2> HIDE DEF todo
    <2>2. CASE job' = [job EXCEPT !.step = "commit", !.todo = todo] /\ UNCHANGED file
      <3>1. TypeOK'
        BY <2>1, <2>2
      <3>2. JobShape' /\ FileShape' /\ ReqShape'
        BY <1>4, <2>1, <2>2 DEF JobInspect
      <3> QED
        BY <3>1, <3>2
    <2>3. CASE job' = NoJob /\ file' = [file EXCEPT !.status = Failed(job.op)]
      <3>1. Failed(job.op) \in ActivePhases /\ Failed(job.op) # "none"
        BY DEF Failed, ActivePhases
      <3>2. file.status # "none"
        BY <1>4 DEF JobInspect
      <3> QED
        BY <2>1, <2>3, <3>1, <3>2 DEF Statuses
    <2> QED
      BY <1>4, <2>2, <2>3 DEF JobInspect, todo
  <1>5. CASE JobCommit
    <2>1. file.status # "none" /\ UNCHANGED <<dbId, snaps, base, req, env, raced>>
      BY <1>5 DEF JobCommit
    <2>2. CASE /\ db' = [f \in Fields |->
                           IF f \in job.todo THEN Replacement(job.op, f) ELSE db[f]]
               /\ job' = [job EXCEPT !.step = "verify", !.todo = {}]
               /\ UNCHANGED file
      <3>1. db' \in [Fields -> Values]
        BY <2>1, <2>2, ChangeTypes DEF Replacement
      <3>2. TypeOK'
        BY <2>1, <2>2, <3>1
      <3>3. JobShape' /\ FileShape' /\ ReqShape'
        BY <1>5, <2>1, <2>2 DEF JobCommit
      <3> QED
        BY <3>2, <3>3
    <2>3. CASE /\ job' = NoJob
               /\ file' = [file EXCEPT !.status = Failed(job.op)]
               /\ UNCHANGED db
      <3>1. Failed(job.op) \in ActivePhases /\ Failed(job.op) # "none"
        BY DEF Failed, ActivePhases
      <3> QED
        BY <2>1, <2>3, <3>1 DEF Statuses
    <2> QED
      BY <1>5, <2>2, <2>3 DEF JobCommit
  <1>6. CASE JobVerify
    BY <1>6 DEF JobVerify, Failed, Succeeded, Statuses, ActivePhases, Settled
  <1>7. CASE JobCommitThrows
    BY <1>7 DEF JobCommitThrows, Failed, Statuses, ActivePhases
  <1>8. ASSUME NEW f \in Fields, NEW v \in Urls \cup {Gone, Blank}, ExternalEdit(f, v)
        PROVE  ShapeInv'
    BY <1>8 DEF ExternalEdit, Values, Endpoints
  <1>9. ASSUME NEW id \in DbIds, ExternalReplace(id) PROVE ShapeInv'
    <2>1. \A r \in Requests : [req[r] EXCEPT !.frozen = db] \in RequestRecord
      OBVIOUS
    <2>2. req' \in [Requests -> RequestRecord]
      BY <1>9, <2>1 DEF ExternalReplace
    <2>3. \A r \in Requests : /\ req'[r].sel = req[r].sel /\ req'[r].pc = req[r].pc
                               /\ req'[r].id = req[r].id /\ req'[r].source = req[r].source
      BY <1>9 DEF ExternalReplace
    <2>4. UNCHANGED <<db, file, snaps, base, job, raced>> /\ dbId' \in DbIds /\ env' \in 0..MaxEnv
      BY <1>9 DEF ExternalReplace
    <2> QED
      BY <2>2, <2>3, <2>4
  <1>10. CASE Crash
    BY <1>10 DEF Crash
  <1>11. CASE UNCHANGED vars
    BY <1>11 DEF vars
  <1> QED
    BY <1>1, <1>2, <1>3, <1>4, <1>5, <1>6, <1>7, <1>8, <1>9, <1>10, <1>11
       DEF Next, Job, External

\* Every record in the state file, the requests and the thread keeps its
\* shape in every reachable state, for any number of concurrent requests.
THEOREM TypeCorrect == Spec => []TypeOK
  <1>1. Spec => []ShapeInv
    BY ShapeInit, ShapeStep, PTL DEF Spec
  <1>2. ShapeInv => TypeOK
    BY DEF ShapeInv
  <1> QED
    BY <1>1, <1>2, PTL

LEMMA ShapeAlways == Spec => []ShapeInv
  BY ShapeInit, ShapeStep, PTL DEF Spec

-----------------------------------------------------------------------------
(* No step of CPR overwrites what CC-Switch wrote.                         *)

\* Which steps touch the live rows at all.
LEMMA RowsStep ==
  ASSUME ShapeInv, Next, job' # job, db' # db
  PROVE  JobCommit /\ db' = [f \in Fields |->
                               IF f \in job.todo THEN Replacement(job.op, f) ELSE db[f]]
                   /\ \A f \in job.todo : StillExpected(job.op, job.force, f)
  <1>1. ~ \E r \in Requests : Request(r)
    BY DEF Request, ApplyStart, ApplyUnhealthy, ApplyExisting, ApplyOnSnapshot,
           ApplyBackup, SnapshotStart, BackupDone, BackupFails
  <1>2. ~ \E force \in BOOLEAN : RestoreStart(force)
    BY DEF RestoreStart
  <1>3. ~ (JobPlan \/ JobInspect \/ JobVerify \/ External)
    BY DEF JobPlan, JobInspect, JobVerify, External, ExternalEdit, ExternalReplace,
           Crash, JobCommitThrows
  <1>4. JobCommit
    BY <1>1, <1>2, <1>3 DEF Next, Job
  <1> QED
    BY <1>4 DEF JobCommit

\* For any number of concurrent applies, restores and outside edits: unless
\* forced, CPR only swaps a recorded original with the value it applied.
THEOREM DriftSafe == Spec => NeverOverwriteDrift
  <1> DEFINE Step ==
        \A f \in Fields : (job' # job /\ db'[f] # db[f]) =>
          /\ f \in file.fields
          /\ IF job.force THEN db[f] # Gone /\ db'[f] = Original(f)
             ELSE {db[f], db'[f]} = {Original(f), Applied(f)}
  <1>1. ShapeInv /\ [Next]_vars => [Step]_vars
    <2> SUFFICES ASSUME ShapeInv, Next, NEW f \in Fields, job' # job, db'[f] # db[f]
                 PROVE  /\ f \in file.fields
                        /\ IF job.force THEN db[f] # Gone /\ db'[f] = Original(f)
                           ELSE {db[f], db'[f]} = {Original(f), Applied(f)}
      BY DEF vars
    <2>1. JobCommit /\ f \in job.todo /\ db'[f] = Replacement(job.op, f)
          /\ StillExpected(job.op, job.force, f)
      BY RowsStep
    <2>2. f \in file.fields
      BY <2>1 DEF ShapeInv, JobShape
    <2>3. job.op = "apply" \/ job.op = "restore"
      BY <2>1 DEF JobCommit, ShapeInv, JobShape
    <2>4. CASE ~ job.force
      BY <2>1, <2>2, <2>3, <2>4 DEF StillExpected, ExpectedValue, Replacement
    <2>5. CASE job.force
      <3>1. job.op = "restore"
        BY <2>5 DEF ShapeInv, JobShape
      <3>2. db[f] # Gone
        <4>1. Applied(f) \in LocalUrls
          BY <2>1, ChangeTypes DEF JobCommit, ShapeInv, JobShape
        <4>2. Applied(f) # Gone
          BY <4>1, DistinctAssumption DEF Endpoints
        <4> QED
          BY <2>1, <4>2, <3>1 DEF StillExpected, ExpectedValue, Replacement
      <3> QED
        BY <2>1, <2>2, <2>5, <3>1, <3>2 DEF Replacement
    <2> QED
      BY <2>4, <2>5
  <1> QED
    BY <1>1, ShapeAlways, PTL DEF Spec, NeverOverwriteDrift

LEMMA ConditionMeans ==
  ASSUME NEW f
  PROVE  /\ Condition(f) = "applied" => db[f] = Applied(f)
         /\ Condition(f) = "original" => db[f] = Original(f)
  BY DEF Condition, ConditionOf

\* The verdicts active and restored are read off the rows, never assumed.
THEOREM VerdictsHonest == Spec => HonestStatus
  <1> DEFINE Step ==
        file'.status # file.status =>
          /\ file'.status = "active" => \A f \in file'.fields : db[f] = Applied(f)
          /\ file'.status = "restored" => \A f \in file'.fields : db[f] = Original(f)
  <1>1. ShapeInv /\ [Next]_vars => [Step]_vars
    <2> SUFFICES ASSUME ShapeInv, Next, file'.status # file.status,
                        file'.status \in {"active", "restored"}
                 PROVE  Step
      BY DEF vars
    <2>1. ASSUME NEW r \in Requests, ApplyExisting(r) PROVE Step
      <3>1. file' = [file EXCEPT !.status = "active"] /\ LiveTakeover = "active"
        BY <2>1 DEF ApplyExisting
      <3>2. \A f \in file.fields : Condition(f) = "applied"
        BY <3>1 DEF LiveTakeover
      <3>3. file'.status = "active" /\ file'.fields = file.fields
        BY <3>1 DEF ShapeInv, TypeOK, StateRecord
      <3> QED
        BY <3>2, <3>3, ConditionMeans
    <2>2. CASE JobVerify
      <3>1. file' = [file EXCEPT !.status =
                       IF Verified(job.op) THEN Succeeded(job.op) ELSE Failed(job.op)]
        BY <2>2 DEF JobVerify
      <3>2. file'.fields = file.fields
            /\ file'.status = IF Verified(job.op) THEN Succeeded(job.op) ELSE Failed(job.op)
        BY <3>1 DEF ShapeInv, TypeOK, StateRecord
      <3>3. Verified(job.op) /\ file'.status = Succeeded(job.op)
        BY <3>2 DEF Failed
      <3>4. \A f \in file.fields : Condition(f) = Target(job.op)
        BY <3>3 DEF Verified
      <3>5. file'.status = "active" => Target(job.op) = "applied"
        BY <3>3 DEF Succeeded, Target
      <3>6. file'.status = "restored" => Target(job.op) = "original"
        BY <3>3 DEF Succeeded, Target
      <3> QED
        BY <3>2, <3>4, <3>5, <3>6, ConditionMeans
    <2>3. ASSUME NEW r \in Requests, Request(r), ~ ApplyExisting(r) PROVE FALSE
      BY <2>3 DEF Request, ApplyStart, ApplyUnhealthy, ApplyOnSnapshot, ApplyBackup,
                  SnapshotStart, BackupDone, BackupFails
    <2>4. ASSUME NEW force \in BOOLEAN, RestoreStart(force) PROVE FALSE
      BY <2>4 DEF RestoreStart, ShapeInv, TypeOK, StateRecord
    <2>5. CASE JobPlan
      <3>1. file' = file \/ file'.status = "applying"
        BY <2>5 DEF JobPlan
      <3> QED
        BY <3>1
    <2>6. CASE JobInspect \/ JobCommit \/ JobCommitThrows
      <3>1. file' = file \/ file' = [file EXCEPT !.status = Failed(job.op)]
        BY <2>6 DEF JobInspect, JobCommit, JobCommitThrows
      <3>2. file' = file \/ file'.status = Failed(job.op)
        BY <3>1 DEF ShapeInv, TypeOK, StateRecord
      <3> QED
        BY <3>2 DEF Failed
    <2>7. ~ (Crash \/ (\E f \in Fields, v \in Urls \cup {Gone, Blank} : ExternalEdit(f, v))
               \/ (\E id \in DbIds : ExternalReplace(id)))
      BY DEF Crash, ExternalEdit, ExternalReplace
    <2> QED
      BY <2>1, <2>2, <2>3, <2>4, <2>5, <2>6, <2>7 DEF Next, Job, External
  <1> QED
    BY <1>1, ShapeAlways, PTL DEF Spec, HonestStatus

-----------------------------------------------------------------------------
(* No endpoint is orphaned, until an apply displaces another takeover.     *)

\* The upstreams a takeover would restore are real ones.
UpstreamInv == ~ raced => \A f \in file.fields : Original(f) \in Urls

OrphanInv == ShapeInv /\ UpstreamInv /\ NoOrphan

\* Once a takeover has been displaced, nothing is claimed any more.
LEMMA NothingClaimed ==
  ASSUME raced, UNCHANGED raced
  PROVE  UpstreamInv' /\ NoOrphan'
  BY DEF UpstreamInv, NoOrphan

\* Writing a state that keeps the recorded changes keeps the rows covered.
LEMMA SameRecord ==
  ASSUME OrphanInv,
         file'.fields = file.fields, file'.snap = file.snap, file'.base = file.base,
         file'.status \in ActivePhases, UNCHANGED <<snaps, raced>>,
         \A f \in Fields : db'[f] \in LocalUrls =>
            \/ db'[f] = db[f]
            \/ f \in file.fields /\ db'[f] = Applied(f)
  PROVE  UpstreamInv' /\ NoOrphan'
  <1>1. \A f : Original(f)' = Original(f) /\ Applied(f)' = Applied(f)
    BY DEF Original, Applied
  <1> QED
    BY <1>1 DEF OrphanInv, UpstreamInv, NoOrphan

\* Nothing recorded, no row of the database and no snapshot in use changes.
LEMMA QuietRecord ==
  ASSUME OrphanInv, UNCHANGED <<file, db, raced>>,
         file.snap \in SnapIds => snaps'[file.snap] = snaps[file.snap]
  PROVE  UpstreamInv' /\ NoOrphan'
  <1>1. \A f \in file.fields : Original(f)' = Original(f) /\ Applied(f)' = Applied(f)
    BY DEF Original, Applied, OrphanInv, ShapeInv, FileShape
  <1> QED
    BY <1>1 DEF OrphanInv, UpstreamInv, NoOrphan

LEMMA OrphanInit == Init => OrphanInv
  <1> SUFFICES ASSUME Init PROVE OrphanInv
    OBVIOUS
  <1>1. ShapeInv
    BY ShapeInit
  <1>2. UpstreamInv
    BY DEF Init, UpstreamInv, NoState
  <1>3. NoOrphan
    BY DistinctAssumption DEF Init, NoOrphan
  <1> QED
    BY <1>1, <1>2, <1>3 DEF OrphanInv

\* The mutation and its verdict, apply and restore alike, keep rows covered.
LEMMA JobKeepsCover ==
  ASSUME OrphanInv, JobInspect \/ JobCommit \/ JobCommitThrows \/ JobVerify
  PROVE  UpstreamInv' /\ NoOrphan'
  <1> USE DEF OrphanInv, ShapeInv
  <1> SUFFICES ASSUME ~ raced PROVE UpstreamInv' /\ NoOrphan'
    <2>1. UNCHANGED raced
      BY DEF JobInspect, JobCommit, JobCommitThrows, JobVerify
    <2> QED
      BY <2>1, NothingClaimed
  <1>1. file.status # "none" /\ UNCHANGED <<snaps, raced>>
        /\ (job.op = "apply" \/ job.op = "restore")
    BY DEF JobInspect, JobCommit, JobCommitThrows, JobVerify, JobShape
  <1>2. ASSUME file' = file \/ file' = [file EXCEPT !.status = Failed(job.op)]
        PROVE  /\ file'.fields = file.fields /\ file'.snap = file.snap
               /\ file'.base = file.base
               /\ file.status \in ActivePhases => file'.status \in ActivePhases
    BY <1>2 DEF Failed, ActivePhases, TypeOK, StateRecord
  <1>3. file.status \in ActivePhases
    BY DEF JobInspect, JobCommit, JobCommitThrows, JobVerify, JobShape, ActivePhases
  <1>4. CASE JobInspect \/ JobCommitThrows
    <2>1. UNCHANGED db /\ (file' = file \/ file' = [file EXCEPT !.status = Failed(job.op)])
      BY <1>4 DEF JobInspect, JobCommitThrows
    <2> QED
      BY <1>1, <1>2, <1>3, <2>1, SameRecord
  <1>5. CASE JobCommit
    <2>1. \/ UNCHANGED db /\ file' = [file EXCEPT !.status = Failed(job.op)]
          \/ /\ file' = file
             /\ db' = [f \in Fields |-> IF f \in job.todo THEN Replacement(job.op, f) ELSE db[f]]
      BY <1>5 DEF JobCommit
    <2>2. \A f \in file.fields : Original(f) \notin LocalUrls
      BY DistinctAssumption DEF UpstreamInv
    <2>3. \A f \in Fields : db'[f] \in LocalUrls =>
            \/ db'[f] = db[f]
            \/ f \in file.fields /\ db'[f] = Applied(f)
      BY <1>1, <2>1, <2>2 DEF Replacement, JobShape
    <2> QED
      BY <1>1, <1>2, <1>3, <2>1, <2>3, SameRecord
  <1>6. CASE JobVerify
    <2>1. UNCHANGED db /\ file' = [file EXCEPT !.status =
                       IF Verified(job.op) THEN Succeeded(job.op) ELSE Failed(job.op)]
      BY <1>6 DEF JobVerify
    <2>2. /\ file'.fields = file.fields /\ file'.snap = file.snap /\ file'.base = file.base
          /\ file'.status = IF Verified(job.op) THEN Succeeded(job.op) ELSE Failed(job.op)
      BY <2>1 DEF TypeOK, StateRecord
    <2>3. CASE job.op = "restore" /\ Verified(job.op)
      <3>1. \A f \in file.fields : db[f] = Original(f)
        BY <2>3, ConditionMeans DEF Verified, Target
      <3>2. \A f \in Fields : db[f] \notin LocalUrls
        BY <3>1, DistinctAssumption DEF UpstreamInv, NoOrphan
      <3>3. \A f \in file.fields : Original(f)' = Original(f)
        BY <1>1, <2>2 DEF Original
      <3> QED
        BY <2>1, <2>2, <3>2, <3>3 DEF UpstreamInv, NoOrphan
    <2>4. CASE ~ (job.op = "restore" /\ Verified(job.op))
      <3>1. file'.status \in ActivePhases
        BY <1>1, <2>2, <2>4 DEF Succeeded, Failed, ActivePhases
      <3> QED
        BY <1>1, <2>1, <2>2, <3>1, SameRecord
    <2> QED
      BY <2>3, <2>4
  <1> QED
    BY <1>4, <1>5, <1>6

\* The write-ahead step: with no takeover, no row holds a local URL, so what
\* the preflight found unchanged is a real upstream.
LEMMA PlanKeepsCover ==
  ASSUME OrphanInv, JobPlan
  PROVE  UpstreamInv' /\ NoOrphan'
  <1> USE DEF OrphanInv, ShapeInv
  <1> DEFINE q == req[job.who]
             snap == snaps[job.snap]
  <1>1. UNCHANGED <<db, snaps>>
    BY DEF JobPlan
  <1>2. CASE UNCHANGED <<file, raced>>
    BY <1>1, <1>2, QuietRecord
  <1>3. CASE PlanAccepted(q.sel, snap, q.id)
    <2>1. file' = [status |-> "applying", fields |-> Planned(q.sel, snap),
                   snap |-> job.snap, base |-> base, id |-> q.id]
          /\ raced' = (raced \/ file.status \notin Settled)
      BY <1>3 DEF JobPlan
    <2> SUFFICES ASSUME ~ raced' PROVE UpstreamInv' /\ NoOrphan'
      BY DEF UpstreamInv, NoOrphan
    <2>2. \A f \in Fields : db[f] \notin LocalUrls
      BY <2>1 DEF NoOrphan, Settled, ActivePhases
    <2>3. ASSUME NEW f \in Planned(q.sel, snap) PROVE snap.value[f] \in Urls
      <3>1. ConditionOf(db[f], snap.value[f], LocalUrl(base, RouteOf[f])) = "original"
        BY <1>3 DEF PlanAccepted
      <3>2. db[f] = snap.value[f]
        BY <3>1 DEF ConditionOf
      <3>3. f \in Fields /\ snap.value[f] \in Endpoints
        BY DEF Planned
      <3> QED
        BY <2>2, <3>2, <3>3 DEF Endpoints
    <2>4. UpstreamInv'
      BY <1>1, <2>1, <2>3 DEF UpstreamInv, Original
    <2> QED
      BY <1>1, <2>2, <2>4 DEF NoOrphan
  <1> QED
    BY <1>2, <1>3 DEF JobPlan

LEMMA OrphanStep ==
  ASSUME OrphanInv, [Next]_vars
  PROVE  OrphanInv'
  <1>1. ShapeInv'
    BY ShapeStep DEF OrphanInv
  <1>2. UpstreamInv' /\ NoOrphan'
    <2>1. ASSUME NEW r \in Requests, Request(r), ~ ApplyExisting(r),
                 \A s \in SnapIds : ~ BackupDone(r, s)
          PROVE  UpstreamInv' /\ NoOrphan'
      <3>1. UNCHANGED <<db, file, snaps, raced>>
        BY <2>1 DEF Request, ApplyStart, ApplyUnhealthy, ApplyOnSnapshot, ApplyBackup,
                    SnapshotStart, BackupFails
      <3> QED
        BY <3>1, QuietRecord
    <2>2. ASSUME NEW r \in Requests, ApplyExisting(r) PROVE UpstreamInv' /\ NoOrphan'
      <3>1. UNCHANGED <<db, snaps, raced>> /\ (file' = file \/ file' = [file EXCEPT !.status = "active"])
        BY <2>2 DEF ApplyExisting
      <3>2. CASE file' = file
        BY <3>1, <3>2, QuietRecord
      <3>3. CASE file' = [file EXCEPT !.status = "active"]
        <4>1. /\ file'.fields = file.fields /\ file'.snap = file.snap
              /\ file'.base = file.base /\ file'.status \in ActivePhases
          BY <3>3 DEF OrphanInv, ShapeInv, TypeOK, StateRecord, ActivePhases
        <4> QED
          BY <3>1, <4>1, SameRecord
      <3> QED
        BY <3>1, <3>2, <3>3
    <2>3. ASSUME NEW r \in Requests, NEW s \in SnapIds, BackupDone(r, s)
          PROVE  UpstreamInv' /\ NoOrphan'
      <3>1. UNCHANGED <<db, file, raced>> /\ snaps[s] = None
            /\ \A t \in SnapIds \ {s} : snaps'[t] = snaps[t]
        BY <2>3 DEF BackupDone, OrphanInv, ShapeInv, TypeOK
      <3>2. CASE file.status = "none"
        <4>1. file.fields = {}
          BY <3>2 DEF OrphanInv, ShapeInv, FileShape
        <4> QED
          BY <3>1, <4>1 DEF OrphanInv, UpstreamInv, NoOrphan
      <3>3. CASE file.status # "none"
        <4>1. file.snap # s
          BY <3>1, <3>3 DEF OrphanInv, ShapeInv, FileShape
        <4> QED
          BY <3>1, <4>1, QuietRecord
      <3> QED
        BY <3>2, <3>3
    <2>4. ASSUME NEW force \in BOOLEAN, RestoreStart(force) PROVE UpstreamInv' /\ NoOrphan'
      <3>1. UNCHANGED <<db, snaps, raced>> /\ file' = [file EXCEPT !.status = "restoring"]
        BY <2>4 DEF RestoreStart
      <3>2. /\ file'.fields = file.fields /\ file'.snap = file.snap
            /\ file'.base = file.base /\ file'.status \in ActivePhases
        BY <3>1 DEF OrphanInv, ShapeInv, TypeOK, StateRecord, ActivePhases
      <3> QED
        BY <3>1, <3>2, SameRecord
    <2>5. ASSUME NEW f \in Fields, NEW v \in Urls \cup {Gone, Blank}, ExternalEdit(f, v)
          PROVE  UpstreamInv' /\ NoOrphan'
      <3>1. UNCHANGED <<file, snaps, raced>> /\ v \notin LocalUrls
        BY <2>5, DistinctAssumption DEF ExternalEdit, Endpoints
      <3>2. \A g \in Fields : db'[g] \in LocalUrls => db'[g] = db[g]
        BY <2>5, <3>1 DEF ExternalEdit, OrphanInv, ShapeInv, TypeOK
      <3>3. \A g : Original(g)' = Original(g) /\ Applied(g)' = Applied(g)
        BY <3>1 DEF Original, Applied
      <3> QED
        BY <3>1, <3>2, <3>3 DEF OrphanInv, UpstreamInv, NoOrphan
    <2>6. ASSUME Crash \/ (\E id \in DbIds : ExternalReplace(id)) \/ UNCHANGED vars
          PROVE  UpstreamInv' /\ NoOrphan'
      <3>1. UNCHANGED <<db, file, snaps, raced>>
        BY <2>6 DEF Crash, ExternalReplace, vars
      <3> QED
        BY <3>1, QuietRecord
    <2> QED
      BY <2>1, <2>2, <2>3, <2>4, <2>5, <2>6, JobKeepsCover, PlanKeepsCover
         DEF Next, Job, External
  <1> QED
    BY <1>1, <1>2 DEF OrphanInv

\* However many requests overlap: until an apply records its takeover over one
\* that another began behind its check, no endpoint is left pointing at CPR
\* without a record that can restore it.
THEOREM NeverOrphaned == Spec => []NoOrphan
  <1>1. OrphanInv /\ [Next]_vars => OrphanInv'
    BY OrphanStep
  <1>2. OrphanInv => NoOrphan
    BY DEF OrphanInv
  <1> QED
    BY OrphanInit, <1>1, <1>2, PTL DEF Spec

\* A request that reaches the gateway over a rewritten field with a route of
\* its own goes to the upstream that field had, for any fields, routes and
\* overlapping requests, until a takeover is displaced.
THEOREM GatewayServes == Spec => []GatewayOwnUpstream
  <1>1. OrphanInv /\ [Next]_vars => OrphanInv'
    BY OrphanStep
  <1>2. OrphanInv => GatewayOwnUpstream
    <2> SUFFICES ASSUME OrphanInv, ~ raced, file.status = "active", NEW f \in file.fields,
                        ~ SharesRoute(f), Original(f) \notin LoopbackUrls
                 PROVE  GatewayTarget(RouteOf[f]) = Original(f)
      BY DEF GatewayOwnUpstream
    <2>1. f \in Fields /\ Original(f) \in Urls
      BY DEF OrphanInv, ShapeInv, TypeOK, StateRecord, UpstreamInv
    <2>2. MapEntries(file.snap, RouteOf[f]) = {f}
      BY <2>1 DEF MapEntries, MapUpstream, Original, Endpoints, SharesRoute
    <2>3. Occurrence[f] <= Occurrence[f]
      BY <2>1, ShapeAssumption
    <2>4. FirstEntry(file.snap, RouteOf[f]) = f
      BY <2>2, <2>3 DEF FirstEntry
    <2>5. Original(f) \notin LocalUrls \cup LoopbackUrls
      BY <2>1, DistinctAssumption
    <2> QED
      BY <2>2, <2>4, <2>5 DEF GatewayTarget, MapUpstream, Original
  <1> QED
    BY OrphanInit, <1>1, <1>2, PTL DEF Spec
-----------------------------------------------------------------------------
(* A restore reports a conflict only for a cause.                          *)

\* Both ends of every recorded change differ, and while a restore is at its
\* transaction no field but those it puts back is still as CPR wrote it.
MixtureInv ==
  /\ \A f \in file.fields : Original(f) # Applied(f)
  /\ job.op = "restore" /\ job.step = "commit" =>
       \A f \in file.fields \ job.todo : db[f] # Applied(f)
  /\ job.op = "restore" /\ job.step = "verify" =>
       \A f \in file.fields : db[f] # Applied(f)

CauseInv == ShapeInv /\ MixtureInv

\* The changes recorded stay what they are, and the rows and the thread do
\* nothing that concerns a restore in progress.
LEMMA SameMixture ==
  ASSUME CauseInv,
         file'.fields = file.fields, file'.snap = file.snap, file'.base = file.base,
         file.snap \in SnapIds => snaps'[file.snap] = snaps[file.snap],
         \A f \in file.fields : db'[f] = db[f] \/ db'[f] \notin LocalUrls,
         \/ job' = job
         \/ ~ (job'.op = "restore" /\ job'.step \in {"commit", "verify"})
  PROVE  MixtureInv'
  <1>1. \A f \in file.fields : /\ Original(f)' = Original(f) /\ Applied(f)' = Applied(f)
                               /\ Applied(f) \in LocalUrls
    BY ChangeTypes DEF Original, Applied, CauseInv, ShapeInv, FileShape, TypeOK, StateRecord
  <1> QED
    BY <1>1 DEF CauseInv, MixtureInv

LEMMA CauseStep ==
  ASSUME CauseInv, [Next]_vars
  PROVE  CauseInv'
  <1>1. ShapeInv'
    BY ShapeStep DEF CauseInv
  <1>2. ASSUME file' = file \/ \E x : file' = [file EXCEPT !.status = x]
        PROVE  file'.fields = file.fields /\ file'.snap = file.snap /\ file'.base = file.base
    BY <1>2 DEF CauseInv, ShapeInv, TypeOK, StateRecord
  <1>2a. ASSUME job' = NoJob PROVE job'.op # "restore"
    BY <1>2a DEF NoJob
  <1>3. ASSUME NEW r \in Requests, Request(r) PROVE MixtureInv'
    <2>1. UNCHANGED db /\ (file' = file \/ \E x : file' = [file EXCEPT !.status = x])
      BY <1>3 DEF Request, ApplyStart, ApplyUnhealthy, ApplyExisting, ApplyOnSnapshot,
                  ApplyBackup, SnapshotStart, BackupDone, BackupFails
    <2>2. job' = job \/ job'.op = "apply"
      BY <1>3 DEF Request, ApplyStart, ApplyUnhealthy, ApplyExisting, ApplyOnSnapshot,
                  ApplyBackup, SnapshotStart, BackupDone, BackupFails, NoJob
    <2>3. CASE \E s \in SnapIds : BackupDone(r, s)
      <3>1. PICK s \in SnapIds : BackupDone(r, s)
        BY <2>3
      <3>2. file' = file /\ snaps[s] = None /\ \A t \in SnapIds \ {s} : snaps'[t] = snaps[t]
        BY <3>1 DEF CauseInv, ShapeInv, BackupDone, TypeOK
      <3>3. CASE file.status = "none"
        BY <2>1, <2>2, <3>2, <3>3 DEF CauseInv, ShapeInv, FileShape, MixtureInv
      <3>4. CASE file.status # "none"
        <4>1. snaps'[file.snap] = snaps[file.snap]
          BY <3>2, <3>4 DEF CauseInv, ShapeInv, FileShape
        <4> QED
          BY <2>1, <2>2, <3>2, <4>1, SameMixture
      <3> QED
        BY <3>3, <3>4
    <2>4. CASE ~ \E s \in SnapIds : BackupDone(r, s)
      <3>1. UNCHANGED snaps
        BY <1>3, <2>4 DEF Request, ApplyStart, ApplyUnhealthy, ApplyExisting,
                          ApplyOnSnapshot, ApplyBackup, SnapshotStart, BackupFails
      <3> QED
        BY <1>2, <2>1, <2>2, <3>1, SameMixture
    <2> QED
      BY <2>3, <2>4
  <1>4. ASSUME NEW force \in BOOLEAN, RestoreStart(force) PROVE MixtureInv'
    <2>1. UNCHANGED <<db, snaps>> /\ (\E x : file' = [file EXCEPT !.status = x])
          /\ job'.step = "inspect"
      BY <1>4 DEF RestoreStart, NoJob
    <2> QED
      BY <1>2, <2>1, SameMixture
  <1>5. ASSUME JobPlan PROVE MixtureInv'
    <2>1. /\ UNCHANGED <<db, snaps>>
          /\ job' = NoJob \/ job' = [NoJob EXCEPT !.op = "apply", !.step = "inspect"]
      BY <1>5 DEF JobPlan
    <2>1a. job'.op # "restore"
      <3>1. CASE job' = NoJob
        BY <3>1, <1>2a
      <3>2. CASE job' = [NoJob EXCEPT !.op = "apply", !.step = "inspect"]
        BY <3>2 DEF NoJob
      <3> QED
        BY <2>1, <3>1, <3>2
    <2>2. CASE UNCHANGED file
      BY <2>1, <2>1a, <2>2, SameMixture
    <2>3. CASE ~ UNCHANGED file
      <3> DEFINE q == req[job.who]
                 snap == snaps[job.snap]
      <3>1. /\ file' = [status |-> "applying", fields |-> Planned(q.sel, snap),
                        snap |-> job.snap, base |-> base, id |-> q.id]
            /\ PlanAccepted(q.sel, snap, q.id)
        BY <1>5, <2>3 DEF JobPlan
      <3>2. ASSUME NEW f \in Planned(q.sel, snap)
            PROVE  snap.value[f] # LocalUrl(base, RouteOf[f])
        <4>1. ~ LoopsBack(snap.value[f])
          BY <3>1 DEF PlanAccepted
        <4>2. LocalUrl(base, RouteOf[f]) \in LocalUrls /\ LocalUrl(base, RouteOf[f]).base = base
          BY ShapeAssumption DEF CauseInv, ShapeInv, Planned, LocalUrl, LocalUrls, TypeOK
        <4> QED
          BY <4>1, <4>2 DEF LoopsBack
      <3>3. \A f \in file'.fields : Original(f)' # Applied(f)'
        BY <2>1, <3>1, <3>2 DEF Original, Applied
      <3> QED
        BY <2>1a, <3>3 DEF MixtureInv
    <2> QED
      BY <2>2, <2>3
  <1>6. ASSUME JobInspect PROVE MixtureInv'
    <2>1. UNCHANGED <<db, snaps>>
          /\ (file' = file \/ \E x : file' = [file EXCEPT !.status = x])
      BY <1>6 DEF JobInspect
    <2>2. CASE job' = NoJob
      BY <1>2, <2>1, <2>2, <1>2a, SameMixture
    <2>3. CASE job' # NoJob
      <3>1. file' = file /\ job' = [job EXCEPT !.step = "commit", !.todo = Actionable(job.op)]
        BY <1>6, <2>3 DEF JobInspect
      <3>2. job'.op = job.op /\ job'.step = "commit" /\ job'.todo = Actionable(job.op)
        BY <3>1 DEF CauseInv, ShapeInv, TypeOK, JobRecord
      <3>3. \A f \in file.fields : Original(f)' = Original(f) /\ Applied(f)' = Applied(f)
        BY <2>1, <3>1 DEF Original, Applied
      <3>4. job.op = "restore" => \A f \in file.fields \ job'.todo : db[f] # Applied(f)
        BY <3>2 DEF Actionable, Target, Condition, ConditionOf
      <3>5. \A f \in file'.fields : Original(f)' # Applied(f)'
        BY <3>1, <3>3 DEF CauseInv, MixtureInv
      <3>6. job'.op = "restore" => \A f \in file'.fields \ job'.todo : db'[f] # Applied(f)'
        BY <2>1, <3>1, <3>2, <3>3, <3>4
      <3> QED
        BY <3>2, <3>5, <3>6 DEF MixtureInv
    <2> QED
      BY <2>2, <2>3
  <1>7. ASSUME JobCommit PROVE MixtureInv'
    <2>1. CASE job' = NoJob
      <3>1. UNCHANGED <<db, snaps>> /\ (\E x : file' = [file EXCEPT !.status = x])
        BY <1>7, <2>1 DEF JobCommit, NoJob
      <3> QED
        BY <1>2, <2>1, <3>1, <1>2a, SameMixture
    <2>2. CASE job' # NoJob
      <3>1. /\ UNCHANGED <<file, snaps>> /\ job.step = "commit"
            /\ job' = [job EXCEPT !.step = "verify", !.todo = {}]
            /\ db' = [f \in Fields |-> IF f \in job.todo THEN Replacement(job.op, f) ELSE db[f]]
        BY <1>7, <2>2 DEF JobCommit
      <3>2. job'.op = job.op /\ job'.step = "verify"
        BY <3>1 DEF CauseInv, ShapeInv, TypeOK, JobRecord
      <3>3. \A f \in file.fields : Original(f)' = Original(f) /\ Applied(f)' = Applied(f)
        BY <3>1 DEF Original, Applied
      <3>4. job.op = "restore" => \A f \in file.fields : db'[f] # Applied(f)
        BY <3>1 DEF CauseInv, ShapeInv, MixtureInv, Replacement, TypeOK, StateRecord
      <3> QED
        BY <3>1, <3>2, <3>3, <3>4 DEF CauseInv, MixtureInv
    <2> QED
      BY <2>1, <2>2
  <1>8. ASSUME JobCommitThrows \/ JobVerify PROVE MixtureInv'
    <2>1. UNCHANGED <<db, snaps>> /\ (\E x : file' = [file EXCEPT !.status = x])
          /\ job' = NoJob
      BY <1>8 DEF JobCommitThrows, JobVerify
    <2> QED
      BY <1>2, <2>1, <1>2a, SameMixture
  <1>9. ASSUME NEW g \in Fields, NEW v \in Urls \cup {Gone, Blank}, ExternalEdit(g, v)
        PROVE  MixtureInv'
    <2>1. UNCHANGED <<file, snaps, job>> /\ v \notin LocalUrls
      BY <1>9, DistinctAssumption DEF ExternalEdit, Endpoints
    <2>2. \A f \in file.fields : db'[f] = db[f] \/ db'[f] \notin LocalUrls
      BY <1>9, <2>1 DEF CauseInv, ShapeInv, ExternalEdit, TypeOK, StateRecord
    <2> QED
      BY <2>1, <2>2, SameMixture
  <1>10. ASSUME Crash \/ (\E id \in DbIds : ExternalReplace(id)) \/ UNCHANGED vars
         PROVE  MixtureInv'
    <2>1. UNCHANGED <<db, file, snaps>> /\ (job' = job \/ job' = NoJob)
      BY <1>10 DEF Crash, ExternalReplace, vars
    <2> QED
      BY <2>1, <1>2a, SameMixture
  <1> QED
    BY <1>1, <1>3, <1>4, <1>5, <1>6, <1>7, <1>8, <1>9, <1>10
       DEF CauseInv, Next, Job, External

\* For any number of requests and fields, a restore that reports a conflict
\* has met one: no mixture of original and applied fields, however it came
\* about, makes it fail.
THEOREM ConflictsCaused == Spec => ConflictHasCause
  <1> DEFINE Cause == \/ env' # env
                      \/ \E f \in file.fields : Condition(f) \in {"missing", "drift"}
                      \/ \E f \in job.todo : Condition(f) # "applied"
             Step == file.status = "restoring" /\ file'.status = "conflict" => Cause
  <1>1. CauseInv /\ [Next]_vars => [Step]_vars
    <2> SUFFICES ASSUME CauseInv, Next, file.status = "restoring", file'.status = "conflict"
                 PROVE  Cause
      BY DEF vars
    <2> USE DEF CauseInv, ShapeInv
    <2>1. \A f : Condition(f) \in {"missing", "drift", "applied", "original"}
      BY DEF Condition, ConditionOf
    <2>2. CASE JobInspect
      <3>1. job.op = "restore" /\ ~ Mutable("restore", job.force, Actionable("restore"))
        BY <2>2 DEF JobInspect, JobShape, Failed, TypeOK, StateRecord
      <3> QED
        BY <2>1, <3>1 DEF Mutable, Actionable, Expected, Target
    <2>3. CASE JobCommit
      <3>1. job.op = "restore" /\ \E f \in job.todo : ~ StillExpected("restore", job.force, f)
        BY <2>3 DEF JobCommit, JobShape, Failed, TypeOK, StateRecord
      <3>2. PICK f \in job.todo : ~ StillExpected("restore", job.force, f)
        BY <3>1
      <3>3. db[f] # Applied(f)
        BY <3>2 DEF StillExpected, ExpectedValue
      <3> QED
        BY <3>3, ConditionMeans
    <2>4. CASE JobCommitThrows
      BY <2>4 DEF JobCommitThrows, TypeOK
    <2>5. CASE JobVerify
      <3>1. job.op = "restore" /\ job.step = "verify" /\ ~ Verified("restore")
        BY <2>5 DEF JobVerify, JobShape, Succeeded, TypeOK, StateRecord
      <3>2. PICK f \in file.fields : Condition(f) # "original"
        BY <3>1 DEF Verified, Target
      <3>3. Condition(f) # "applied"
        BY <3>1, ConditionMeans DEF MixtureInv
      <3> QED
        BY <2>1, <3>2, <3>3
    <2>6. ~ \E r \in Requests : Request(r)
      BY DEF Request, ApplyStart, ApplyUnhealthy, ApplyExisting, ApplyOnSnapshot, ApplyBackup,
             SnapshotStart, BackupDone, BackupFails, TypeOK, StateRecord
    <2>7. ~ JobPlan
      BY DEF JobPlan
    <2>7a. ~ \E force \in BOOLEAN : RestoreStart(force)
      BY DEF RestoreStart, TypeOK, StateRecord
    <2>8. ~ (Crash \/ (\E f \in Fields, v \in Urls \cup {Gone, Blank} : ExternalEdit(f, v))
               \/ (\E id \in DbIds : ExternalReplace(id)))
      BY DEF Crash, ExternalEdit, ExternalReplace
    <2> QED
      BY <2>2, <2>3, <2>4, <2>5, <2>6, <2>7, <2>7a, <2>8 DEF Next, Job, External
  <1>2. Init => CauseInv
    BY ShapeInit DEF Init, NoState, NoJob, CauseInv, MixtureInv
  <1>3. CauseInv /\ [Next]_vars => CauseInv'
    BY CauseStep
  <1> QED
    BY <1>1, <1>2, <1>3, PTL DEF Spec, ConflictHasCause
=============================================================================
