------------------------ MODULE DirectCliConfigProofs ------------------------
(***************************************************************************)
(* Proofs about DirectCliConfig for any number of files, plans, snapshots, *)
(* credentials, failures and edits.                                        *)
(***************************************************************************)
EXTENDS DirectCliConfig, TLAPS

\* A picture of the files of a plan.
Fits(picture, plan) == picture \in [FileSet(plan) -> Value]

\* A takeover record, and the snapshot it names, are about the same files.
RecordShape(rec) ==
  /\ Fits(rec.applied, rec.plan)
  /\ snaps[rec.snap] # None /\ snaps[rec.snap].plan = rec.plan

SnapShape == \A s \in SnapIds : snaps[s] # None => Fits(snaps[s].files, snaps[s].plan)

StateShape == state # None => RecordShape(state)

\* What a command holds at each point.
JobShape(p) ==
  /\ job[p].rec # None => RecordShape(job[p].rec)
  /\ job[p].at \in {"capture", "check"} => job[p].plan # None
  /\ job[p].at \in {"capture", "check", "issue", "intend"} => job[p].rec = None
  /\ job[p].at \notin {"idle", "capture"} => job[p].snap # None /\ snaps[job[p].snap] # None
  /\ job[p].at \in {"issue", "intend", "write", "disown", "undo"} =>
       job[p].plan = snaps[job[p].snap].plan
  /\ job[p].at \in {"intend", "write", "disown", "undo"} => job[p].cred # None
  /\ job[p].at \in {"write", "undo", "mark", "forward", "revoke"} => job[p].rec # None
  /\ job[p].at \in {"write", "disown", "undo"} /\ job[p].rec # None =>
       job[p].rec.snap = job[p].snap
  /\ job[p].at \in {"write", "forward"} => job[p].i > 0
  /\ job[p].at = "undo" => job[p].i <= Len(FilesOf[job[p].rec.plan])
  /\ job[p].at \in {"mark", "files"} => job[p].i <= Len(FilesOf[snaps[job[p].snap].plan])

ShapeInv == TypeOK /\ SnapShape /\ StateShape /\ \A p \in Procs : JobShape(p)

-----------------------------------------------------------------------------
(* Facts about the operators                                               *)

LEMMA FilesOfPlan ==
  ASSUME NEW plan \in Plans
  PROVE  /\ FilesOf[plan] \in Seq(Files)
         /\ DOMAIN FilesOf[plan] = 1..Len(FilesOf[plan])
         /\ Len(FilesOf[plan]) \in Nat
         /\ FileSet(plan) \subseteq Files
         /\ \A i \in 1..Len(FilesOf[plan]) : FilesOf[plan][i] \in FileSet(plan)
         /\ Main \in Files
  <1>1. FilesOf[plan] \in Seq(Files) /\ FilesOf[plan] # <<>> /\ FilesOf[plan][1] = Main
    BY PlanAssumption
  <1>2. Len(FilesOf[plan]) \in Nat /\ DOMAIN FilesOf[plan] = 1..Len(FilesOf[plan])
    BY <1>1
  <1>3. \A i \in 1..Len(FilesOf[plan]) : FilesOf[plan][i] \in Files
    BY <1>1
  <1>4. 1 \in 1..Len(FilesOf[plan])
    BY <1>1, <1>2
  <1> QED
    BY <1>1, <1>2, <1>3, <1>4 DEF FileSet

LEMMA ContentFits ==
  ASSUME TypeOK, NEW plan \in Plans, NEW cred \in CredIds
  PROVE  Fits(Content(plan, cred), plan) /\ Content(plan, cred) \in Pictures
  <1>1. disk[Main].text \in Texts \cup {None}
    BY FilesOfPlan DEF TypeOK, Value
  <1>2. [text |-> disk[Main].text, plan |-> plan, cred |-> cred] \in Value
    BY <1>1 DEF Value
  <1>3. [text |-> None, plan |-> plan, cred |-> None] \in Value
    BY DEF Value
  <1>4. Fits(Content(plan, cred), plan)
    BY <1>2, <1>3 DEF Fits, Content
  <1> QED
    BY <1>4 DEF Fits, Pictures

LEMMA PictureFits ==
  ASSUME TypeOK
  PROVE  Picture \in Snapshot /\ Fits(Picture.files, Picture.plan) /\ Picture # None
  <1>1. profile \in Plans /\ FileSet(profile) \subseteq Files
    BY FilesOfPlan DEF TypeOK
  <1>2. [f \in FileSet(profile) |-> disk[f]] \in [FileSet(profile) -> Value]
    BY <1>1 DEF TypeOK
  <1>3. Picture \in Snapshot /\ Fits(Picture.files, Picture.plan)
    BY <1>1, <1>2 DEF Picture, Snapshot, Pictures, Fits
  <1> QED
    BY <1>3, DistinctAssumption

LEMMA IdleJob == Idle \in Job /\ Idle.at = "idle" /\ Idle.rec = None
  BY DEF Idle, Job

\* The stores issue and revoke write are stores.
LEMMA RotatedStore ==
  ASSUME NEW store \in CredStore, NEW new \in CredIds, NEW plan \in Plans
  PROVE  Rotated(store, new, plan) \in CredStore
  <1> SUFFICES ASSUME NEW c \in CredIds
               PROVE  Rotated(store, new, plan)[c] \in Credential \cup {None}
    BY DEF Rotated, CredStore
  <1>1. CASE c = new
    BY <1>1 DEF Rotated, Credential
  <1>2. CASE c # new /\ store[c] = None
    BY <1>2 DEF Rotated
  <1>3. CASE c # new /\ store[c] # None
    <2>1. store[c] \in Credential
      BY <1>3 DEF CredStore
    <2>2. [store[c] EXCEPT !.live = @ \ RoutesOf[plan]] \in Credential
      BY <2>1 DEF Credential
    <2> QED
      BY <1>3, <2>2 DEF Rotated
  <1> QED
    BY <1>1, <1>2, <1>3

LEMMA RevokedStore ==
  ASSUME TypeOK, NEW store \in CredStore, NEW cred \in CredIds
  PROVE  Revoked(store, cred) \in CredStore
  <1>1. CASE store[cred] = None \/ store[cred].live = {}
    BY <1>1 DEF Revoked, TypeOK
  <1>2. CASE store[cred] # None /\ store[cred].live # {}
    <2>1. store[cred] \in Credential
      BY <1>2 DEF CredStore
    <2>2. [store[cred] EXCEPT !.live = {}] \in Credential
      BY <2>1 DEF Credential
    <2>3. Revoked(store, cred) = [store EXCEPT ![cred] = [store[cred] EXCEPT !.live = {}]]
      BY <1>2 DEF Revoked
    <2> QED
      BY <2>2, <2>3 DEF CredStore
  <1> QED
    BY <1>1, <1>2

\* Snapshots are never rewritten: what was said of a record stays true.
LEMMA ShapeKept ==
  ASSUME \A s \in SnapIds : snaps[s] # None => snaps'[s] = snaps[s],
         NEW rec, rec.snap \in SnapIds, RecordShape(rec)
  PROVE  RecordShape(rec)'
  BY DEF RecordShape, Fits

LEMMA OthersKept ==
  ASSUME ShapeInv, NEW p \in Procs,
         \A s \in SnapIds : snaps[s] # None => snaps'[s] = snaps[s],
         \A q \in Procs \ {p} : job'[q] = job[q],
         JobShape(p)'
  PROVE  \A q \in Procs : JobShape(q)'
  <1> SUFFICES ASSUME NEW q \in Procs \ {p} PROVE JobShape(q)'
    OBVIOUS
  <1>1. job'[q] = job[q] /\ JobShape(q) /\ job[q] \in Job
    BY DEF ShapeInv, TypeOK
  <1>2. job[q].rec # None => RecordShape(job[q].rec)'
    <2> SUFFICES ASSUME job[q].rec # None PROVE RecordShape(job[q].rec)'
      OBVIOUS
    <2>1. job[q].rec \in Record /\ RecordShape(job[q].rec)
      BY <1>1 DEF Job, JobShape
    <2> QED
      BY <2>1, ShapeKept DEF Record
  <1>3. job[q].snap # None /\ snaps[job[q].snap] # None =>
          snaps'[job[q].snap] = snaps[job[q].snap]
    BY <1>1 DEF Job
  <1> QED
    BY <1>1, <1>2, <1>3 DEF JobShape

LEMMA StateKept ==
  ASSUME ShapeInv, UNCHANGED state,
         \A s \in SnapIds : snaps[s] # None => snaps'[s] = snaps[s]
  PROVE  StateShape'
  <1> SUFFICES ASSUME state # None PROVE RecordShape(state)'
    BY DEF StateShape
  <1>1. state \in Record /\ RecordShape(state)
    BY DEF ShapeInv, TypeOK, StateShape
  <1> QED
    BY <1>1, ShapeKept DEF Record

\* A step of one command that leaves the snapshots alone.
LEMMA CommandStep ==
  ASSUME ShapeInv, NEW p \in Procs, NEW j \in Job, job' = [job EXCEPT ![p] = j],
         UNCHANGED snaps, TypeOK', StateShape',
         JobShape(p)'
  PROVE  ShapeInv'
  <1>1. \A q \in Procs \ {p} : job'[q] = job[q]
    BY DEF ShapeInv, TypeOK
  <1>2. \A q \in Procs : JobShape(q)'
    BY <1>1, OthersKept
  <1>3. SnapShape'
    BY DEF ShapeInv, SnapShape, Fits
  <1> QED
    BY <1>2, <1>3 DEF ShapeInv

\* A command that ends leaves nothing to say.
LEMMA FinishShape ==
  ASSUME ShapeInv, NEW p \in Procs, Finish(p)
  PROVE  JobShape(p)' /\ job' \in [Procs -> Job]
  <1>1. job'[p] = Idle /\ job' = [job EXCEPT ![p] = Idle]
    BY DEF Finish, ShapeInv, TypeOK
  <1>2. Idle \in Job /\ Idle.at = "idle" /\ Idle.rec = None
    BY IdleJob
  <1> QED
    BY <1>1, <1>2 DEF JobShape, ShapeInv, TypeOK

LEMMA FinishStep ==
  ASSUME ShapeInv, NEW p \in Procs, Finish(p), UNCHANGED snaps, TypeOK', StateShape'
  PROVE  ShapeInv'
  BY FinishShape, IdleJob, CommandStep DEF Finish

LEMMA ShapeInit == Init => ShapeInv
  <1> SUFFICES ASSUME Init PROVE ShapeInv
    OBVIOUS
  <1>0. NoCreds \in CredStore
    BY DEF NoCreds, CredStore
  <1>1. TypeOK
    <2>1. /\ snaps \in [SnapIds -> Snapshot \cup {None}] /\ job \in [Procs -> Job]
          /\ creds \in CredStore
      BY <1>0, IdleJob DEF Init
    <2>2. env \in 0..MaxEnv /\ fails \in 0..MaxFail /\ restoreFails \in 0..MaxRestoreFail
      BY BoundAssumption DEF Init
    <2> QED
      BY <2>1, <2>2 DEF Init, TypeOK
  <1>2. \A p \in Procs : JobShape(p)
    BY IdleJob DEF Init, JobShape
  <1> QED
    BY <1>1, <1>2 DEF Init, ShapeInv, SnapShape, StateShape

\* The steps of apply.
LEMMA ApplyingShape ==
  ASSUME ShapeInv, NEW p \in Procs, Applying(p)
  PROVE  ShapeInv'
  <1> USE DEF At, Goto, budget, history
  <1>j. job[p] \in Job /\ JobShape(p) /\ TypeOK /\ job \in [Procs -> Job]
    BY DEF ShapeInv, TypeOK
  <1>1. ASSUME NEW s \in SnapIds, Capture(p, s) PROVE ShapeInv'
    <2>1. CASE state # None
      <3>1. Finish(p) /\ UNCHANGED <<disk, state, snaps, creds, issued, profile, edited, budget, history>>
        BY <1>1, <2>1 DEF Capture
      <3>2. TypeOK'
        BY <3>1, <1>j, FinishShape DEF TypeOK
      <3> QED
        BY <3>1, <3>2, FinishStep, StateKept
    <2>2. CASE state = None
      <3>1. /\ snaps[s] = None
            /\ snaps' = [snaps EXCEPT ![s] = Picture]
            /\ job' = [job EXCEPT ![p] = [job[p] EXCEPT !.snap = s, !.at = "check"]]
            /\ UNCHANGED <<disk, state, creds, issued, profile, edited, budget, history>>
            /\ job[p].at = "capture"
        BY <1>1, <2>2 DEF Capture
      <3>2. [job[p] EXCEPT !.snap = s, !.at = "check"] \in Job
        BY <1>j DEF Job, Busy
      <3>3. TypeOK'
        BY <3>1, <3>2, <1>j, PictureFits DEF TypeOK
      <3>4. \A t \in SnapIds : snaps[t] # None => snaps'[t] = snaps[t]
        BY <3>1, <1>j DEF TypeOK
      <3>5. SnapShape'
        BY <3>1, <1>j, PictureFits DEF ShapeInv, TypeOK, SnapShape, Fits
      <3>6. StateShape'
        BY <3>1, <3>4, StateKept
      <3>7. /\ job'[p] = [job[p] EXCEPT !.snap = s, !.at = "check"]
            /\ \A q \in Procs \ {p} : job'[q] = job[q]
            /\ snaps'[s] # None
        BY <3>1, <1>j, PictureFits DEF TypeOK
      <3>8. job'[p].rec = job[p].rec /\ job'[p].at = "check" /\ job'[p].snap = s
            /\ job'[p].plan = job[p].plan
        BY <3>7, <1>j DEF Job
      <3>9. job[p].rec # None => RecordShape(job[p].rec)'
        <4> SUFFICES ASSUME job[p].rec # None PROVE RecordShape(job[p].rec)'
          OBVIOUS
        <4>1. job[p].rec \in Record /\ RecordShape(job[p].rec)
          BY <1>j DEF Job, JobShape
        <4> QED
          BY <3>4, <3>8, <4>1, ShapeKept DEF Record
      <3>10. JobShape(p)'
        <4>1. s # None
          BY PlanAssumption
        <4> QED
          BY <3>1, <3>7, <3>8, <3>9, <4>1, <1>j DEF JobShape
      <3> QED
        BY <3>3, <3>4, <3>5, <3>6, <3>7, <3>10, OthersKept DEF ShapeInv
    <2> QED
      BY <2>1, <2>2
  <1>2. CASE Check(p)
    <2>1. CASE SameAs(snaps[job[p].snap], job[p].plan)
      <3>1. job' = [job EXCEPT ![p] = [job[p] EXCEPT !.at = "issue"]]
        BY <1>2, <2>1 DEF Check
      <3>2. [job[p] EXCEPT !.at = "issue"] \in Job
        BY <1>j DEF Job, Busy
      <3>3. TypeOK'
        BY <1>2, <3>1, <3>2, <1>j DEF Check, TypeOK
      <3>4. JobShape(p)'
        BY <1>2, <3>1, <2>1, <1>j DEF Check, JobShape, Job, SameAs, RecordShape, Fits
      <3> QED
        BY <1>2, <3>1, <3>2, <3>3, <3>4, CommandStep, StateKept DEF Check
    <2>2. CASE ~ SameAs(snaps[job[p].snap], job[p].plan)
      <3>1. Finish(p) /\ UNCHANGED <<disk, state, snaps, creds, issued, profile, edited, budget, history>>
        BY <1>2, <2>2 DEF Check
      <3>2. TypeOK'
        BY <3>1, <1>j, FinishShape DEF TypeOK
      <3> QED
        BY <3>1, <3>2, FinishStep, StateKept
    <2> QED
      BY <2>1, <2>2
  <1>3. CASE LoadCreds(p)
    <2>1. job' = [job EXCEPT ![p] = [job[p] EXCEPT !.creds = creds]]
      BY <1>3 DEF LoadCreds
    <2>2. [job[p] EXCEPT !.creds = creds] \in Job
      BY <1>j DEF Job, TypeOK
    <2>3. TypeOK'
      BY <1>3, <2>1, <2>2, <1>j DEF LoadCreds, TypeOK
    <2>4. JobShape(p)'
      BY <1>3, <2>1, <1>j DEF LoadCreds, JobShape, Job, RecordShape, Fits
    <2> QED
      BY <1>3, <2>1, <2>2, <2>3, <2>4, CommandStep, StateKept DEF LoadCreds
  <1>4. ASSUME NEW c \in CredIds, Issue(p, c) PROVE ShapeInv'
    <2>1. job' = [job EXCEPT ![p] = [job[p] EXCEPT !.at = "intend", !.cred = c, !.creds = None]]
      BY <1>4 DEF Issue
    <2>2. [job[p] EXCEPT !.at = "intend", !.cred = c, !.creds = None] \in Job
      BY <1>j DEF Job, Busy
    <2>3. job[p].plan \in Plans /\ job[p].creds \in CredStore
      <3>1. job[p].snap \in SnapIds /\ snaps[job[p].snap] # None
            /\ job[p].plan = snaps[job[p].snap].plan
        BY <1>4, <1>j DEF Issue, JobShape, Job
      <3>2. snaps[job[p].snap] \in Snapshot
        BY <3>1, <1>j DEF TypeOK
      <3> QED
        BY <1>4, <1>j, <3>1, <3>2 DEF Issue, Job, Snapshot
    <2>4. TypeOK'
      BY <1>4, <2>1, <2>2, <2>3, <1>j, RotatedStore DEF Issue, TypeOK
    <2>5. c # None
      BY PlanAssumption
    <2>6. JobShape(p)'
      BY <1>4, <2>1, <2>5, <1>j DEF Issue, JobShape, Job, RecordShape, Fits
    <2> QED
      BY <1>4, <2>1, <2>2, <2>4, <2>6, CommandStep, StateKept DEF Issue
  <1>5. CASE BuildFails(p)
    <2>1. TypeOK'
      BY <1>5, <1>j, FinishShape DEF BuildFails, TypeOK
    <2> QED
      BY <1>5, <2>1, FinishStep, StateKept DEF BuildFails
  <1>6. CASE Intend(p)
    <2> DEFINE rec == [phase |-> "applying", plan |-> job[p].plan, snap |-> job[p].snap,
                       cred |-> job[p].cred, applied |-> Content(job[p].plan, job[p].cred)]
    <2>1. /\ job' = [job EXCEPT ![p] = [job[p] EXCEPT !.at = "write", !.rec = rec, !.i = 1]]
          /\ state' = rec
      BY <1>6 DEF Intend
    <2>2. /\ job[p].snap \in SnapIds /\ snaps[job[p].snap] # None
          /\ job[p].plan = snaps[job[p].snap].plan
          /\ job[p].cred \in CredIds
      BY <1>6, <1>j DEF Intend, JobShape, Job
    <2>3. job[p].plan \in Plans
      <3>1. snaps[job[p].snap] \in Snapshot
        BY <2>2, <1>j DEF TypeOK
      <3> QED
        BY <2>2, <3>1 DEF Snapshot
    <2>4. rec \in Record
      BY <2>2, <2>3, <1>j, ContentFits DEF Record
    <2>5. rec # None /\ RecordShape(rec) /\ rec.snap = job[p].snap
      BY <2>2, <2>3, <2>4, <1>j, ContentFits, DistinctAssumption DEF RecordShape
    <2> HIDE DEF rec
    <2>6. [job[p] EXCEPT !.at = "write", !.rec = rec, !.i = 1] \in Job
      BY <2>4, <1>j DEF Job, Busy
    <2>7. TypeOK'
      BY <1>6, <2>1, <2>4, <2>6, <1>j DEF Intend, TypeOK
    <2>8. UNCHANGED snaps
      BY <1>6 DEF Intend
    <2>9. JobShape(p)' /\ StateShape'
      BY <1>6, <2>1, <2>5, <2>8, <1>j DEF Intend, JobShape, StateShape, Job, RecordShape, Fits
    <2> QED
      BY <2>1, <2>6, <2>7, <2>8, <2>9, CommandStep
  <1>7. CASE WriteFile(p)
    <2> DEFINE f == FilesOf[job[p].rec.plan][job[p].i]
    <2>1. job[p].rec \in Record /\ RecordShape(job[p].rec) /\ job[p].i \in 1..Len(FilesOf[job[p].rec.plan])
      <3>1. job[p].rec \in Record /\ RecordShape(job[p].rec) /\ job[p].rec.plan \in Plans
        BY <1>7, <1>j DEF WriteFile, JobShape, Job, Record
      <3> QED
        BY <1>7, <1>j, <3>1, FilesOfPlan DEF WriteFile, Written, JobShape, Job
    <2>2. f \in Files /\ job[p].rec.applied[f] \in Value
      BY <2>1, FilesOfPlan DEF Record, RecordShape, Fits
    <2>3. job' = [job EXCEPT ![p] = [job[p] EXCEPT !.i = @ + 1]]
      BY <1>7 DEF WriteFile
    <2>4. [job[p] EXCEPT !.i = @ + 1] \in Job
      BY <1>j DEF Job
    <2>5. TypeOK'
      BY <1>7, <2>2, <2>3, <2>4, <1>j DEF WriteFile, Put, TypeOK
    <2>6. JobShape(p)'
      <3>1. job'[p] = [job[p] EXCEPT !.i = @ + 1] /\ job[p].i + 1 > 0
        BY <2>1, <2>3, <1>j
      <3>2. job[p].at = "write" /\ UNCHANGED snaps
        BY <1>7 DEF WriteFile
      <3> QED
        BY <3>1, <3>2, <1>j DEF JobShape, Job, RecordShape, Fits
    <2> QED
      BY <1>7, <2>3, <2>4, <2>5, <2>6, CommandStep, StateKept DEF WriteFile
  <1>8. CASE Activate(p)
    <2>1. job[p].rec \in Record /\ RecordShape(job[p].rec)
      BY <1>8, <1>j DEF Activate, JobShape, Job
    <2>2. [job[p].rec EXCEPT !.phase = "active"] \in Record
      BY <2>1 DEF Record
    <2>3. TypeOK'
      BY <1>8, <2>2, <1>j, FinishShape DEF Activate, TypeOK
    <2>4. StateShape'
      BY <1>8, <2>1 DEF Activate, StateShape, RecordShape, Fits, Record
    <2> QED
      BY <1>8, <2>3, <2>4, FinishStep DEF Activate
  <1>9. CASE Disown(p)
    <2>1. job[p].cred \in CredIds /\ job[p].creds \in CredStore
      BY <1>9, <1>j DEF Disown, JobShape, Job
    <2>2. creds' \in CredStore /\ misread' \subseteq CredIds
      BY <1>9, <2>1, <1>j, RevokedStore DEF Disown, Overlooked, TypeOK
    <2>3. CASE job[p].rec = None
      <3>1. Finish(p)
        BY <1>9, <2>3 DEF Disown
      <3>2. TypeOK'
        BY <1>9, <2>2, <3>1, <1>j, FinishShape DEF Disown, TypeOK
      <3> QED
        BY <1>9, <3>1, <3>2, FinishStep, StateKept DEF Disown
    <2>4. CASE job[p].rec # None
      <3>1. job' = [job EXCEPT ![p] = [job[p] EXCEPT !.at = "undo", !.creds = None,
                                          !.i = Len(FilesOf[job[p].rec.plan])]]
        BY <1>9, <2>4 DEF Disown
      <3>2. Len(FilesOf[job[p].rec.plan]) \in Nat
        BY <2>4, <1>j, FilesOfPlan DEF Job, Record
      <3>3. [job[p] EXCEPT !.at = "undo", !.creds = None, !.i = Len(FilesOf[job[p].rec.plan])] \in Job
        BY <3>2, <1>j DEF Job, Busy
      <3>4. TypeOK'
        BY <1>9, <2>2, <3>1, <3>3, <1>j DEF Disown, TypeOK
      <3>5. JobShape(p)'
        BY <1>9, <2>4, <3>1, <3>2, <1>j DEF Disown, JobShape, Job, RecordShape, Fits
      <3> QED
        BY <1>9, <3>1, <3>3, <3>4, <3>5, CommandStep, StateKept DEF Disown
    <2> QED
      BY <2>3, <2>4
  <1>10. CASE Undo(p)
    <2> DEFINE f == FilesOf[job[p].rec.plan][job[p].i]
    <2>1. /\ job[p].rec \in Record /\ RecordShape(job[p].rec)
          /\ job[p].rec.snap = job[p].snap
          /\ job[p].i \in 1..Len(FilesOf[job[p].rec.plan])
      <3>1. /\ job[p].rec \in Record /\ RecordShape(job[p].rec) /\ job[p].rec.plan \in Plans
            /\ job[p].rec.snap = job[p].snap
        BY <1>10, <1>j DEF Undo, JobShape, Job, Record
      <3>2. job[p].i \in Nat /\ job[p].i > 0 /\ job[p].i <= Len(FilesOf[job[p].rec.plan])
        BY <1>10, <1>j DEF Undo, JobShape, Job
      <3>3. Len(FilesOf[job[p].rec.plan]) \in Nat
        BY <3>1, FilesOfPlan
      <3> QED
        BY <3>1, <3>2, <3>3
    <2>2. Fits(snaps[job[p].snap].files, job[p].rec.plan)
      BY <2>1 DEF Record, RecordShape, ShapeInv, SnapShape
    <2>3. f \in Files /\ snaps[job[p].snap].files[f] \in Value
      BY <2>1, <2>2, FilesOfPlan DEF Record, Fits
    <2>4. job' = [job EXCEPT ![p] = [job[p] EXCEPT !.i = @ - 1]]
      BY <1>10 DEF Undo
    <2>5. [job[p] EXCEPT !.i = @ - 1] \in Job
      <3>1. job[p].i - 1 \in Nat
        BY <2>1
      <3> QED
        BY <3>1, <1>j DEF Job
    <2>6. TypeOK'
      BY <1>10, <2>3, <2>4, <2>5, <1>j DEF Undo, Put, TypeOK
    <2>7. JobShape(p)'
      <3>1. job'[p] = [job[p] EXCEPT !.i = @ - 1]
        BY <2>4, <1>j
      <3>2. job[p].at = "undo" /\ UNCHANGED snaps
        BY <1>10 DEF Undo
      <3>3. job[p].i - 1 <= Len(FilesOf[job[p].rec.plan])
        BY <2>1, FilesOfPlan DEF Record
      <3> QED
        BY <3>1, <3>2, <3>3, <1>j DEF JobShape, Job, RecordShape, Fits
    <2> QED
      BY <1>10, <2>4, <2>5, <2>6, <2>7, CommandStep, StateKept DEF Undo
  <1>11. CASE Undone(p)
    <2>1. job[p].rec \in Record /\ RecordShape(job[p].rec)
      BY <1>11, <1>j DEF Undone, JobShape, Job
    <2>2. CASE job[p].wrong
      <3>1. state' = [job[p].rec EXCEPT !.phase = "rollback-required"] /\ Finish(p)
        BY <1>11, <2>2 DEF Undone
      <3>2. [job[p].rec EXCEPT !.phase = "rollback-required"] \in Record
        BY <2>1 DEF Record
      <3>3. TypeOK'
        BY <1>11, <3>1, <3>2, <1>j, FinishShape DEF Undone, TypeOK
      <3>4. StateShape'
        BY <1>11, <2>1, <3>1 DEF Undone, StateShape, RecordShape, Fits, Record
      <3> QED
        BY <1>11, <3>1, <3>3, <3>4, FinishStep DEF Undone
    <2>3. CASE ~ job[p].wrong
      <3>1. job' = [job EXCEPT ![p] = [job[p] EXCEPT !.at = "remove"]] /\ UNCHANGED state
        BY <1>11, <2>3 DEF Undone
      <3>2. [job[p] EXCEPT !.at = "remove"] \in Job
        BY <1>j DEF Job, Busy
      <3>3. TypeOK'
        BY <1>11, <3>1, <3>2, <1>j DEF Undone, TypeOK
      <3>4. JobShape(p)'
        BY <1>11, <3>1, <1>j DEF Undone, JobShape, Job, RecordShape, Fits
      <3> QED
        BY <1>11, <3>1, <3>2, <3>3, <3>4, CommandStep, StateKept DEF Undone
    <2> QED
      BY <2>2, <2>3
  <1> QED
    BY <1>1, <1>2, <1>3, <1>4, <1>5, <1>6, <1>7, <1>8, <1>9, <1>10, <1>11 DEF Applying

\* The steps of restore.
LEMMA RestoringShape ==
  ASSUME ShapeInv, NEW p \in Procs, Restoring(p)
  PROVE  ShapeInv'
  <1> USE DEF At, Goto, budget, history
  <1>j. job[p] \in Job /\ JobShape(p) /\ TypeOK /\ job \in [Procs -> Job]
    BY DEF ShapeInv, TypeOK
  <1>1. CASE Mark(p)
    <2>1. job[p].rec \in Record /\ RecordShape(job[p].rec)
      BY <1>1, <1>j DEF Mark, JobShape, Job
    <2>2. [job[p].rec EXCEPT !.phase = "restoring"] \in Record
      BY <2>1 DEF Record
    <2>3. /\ job' = [job EXCEPT ![p] = [job[p] EXCEPT !.at = "files"]]
          /\ job'[p] = [job[p] EXCEPT !.at = "files"]
      BY <1>1, <1>j DEF Mark
    <2>4. [job[p] EXCEPT !.at = "files"] \in Job
      BY <1>j DEF Job, Busy
    <2>5. TypeOK'
      BY <1>1, <2>2, <2>3, <2>4, <1>j DEF Mark, TypeOK
    <2>6. StateShape'
      BY <1>1, <2>1 DEF Mark, StateShape, RecordShape, Fits, Record
    <2>7. JobShape(p)'
      BY <1>1, <2>3, <1>j DEF Mark, JobShape, Job, RecordShape, Fits
    <2> QED
      BY <1>1, <2>3, <2>4, <2>5, <2>6, <2>7, CommandStep DEF Mark
  <1>2. CASE RestoreFile(p)
    <2> DEFINE f == FilesOf[snaps[job[p].snap].plan][job[p].i]
    <2>1. /\ job[p].snap \in SnapIds /\ snaps[job[p].snap] \in Snapshot
          /\ Fits(snaps[job[p].snap].files, snaps[job[p].snap].plan)
          /\ job[p].i \in Nat /\ job[p].i > 0
          /\ job[p].i <= Len(FilesOf[snaps[job[p].snap].plan])
      BY <1>2, <1>j DEF RestoreFile, JobShape, Job, TypeOK, ShapeInv, SnapShape
    <2>2. f \in Files /\ snaps[job[p].snap].files[f] \in Value
      BY <2>1, FilesOfPlan DEF Snapshot, Fits
    <2>3. /\ job' = [job EXCEPT ![p] = [job[p] EXCEPT !.i = @ - 1]]
          /\ job'[p] = [job[p] EXCEPT !.i = @ - 1]
          /\ UNCHANGED <<state, snaps, creds, issued, profile, budget, history>>
          /\ job[p].at = "files"
      BY <1>2, <1>j DEF RestoreFile
    <2>4. [job[p] EXCEPT !.i = @ - 1] \in Job
      BY <2>1, <1>j DEF Job
    <2>5. TypeOK'
      BY <1>2, <2>2, <2>3, <2>4, <1>j DEF RestoreFile, TypeOK
    <2>6. job[p].i - 1 <= Len(FilesOf[snaps[job[p].snap].plan])
      BY <2>1, FilesOfPlan DEF Snapshot
    <2>7. JobShape(p)'
      BY <2>3, <2>6, <1>j DEF JobShape, Job, RecordShape, Fits
    <2> QED
      BY <2>3, <2>4, <2>5, <2>7, CommandStep, StateKept
  <1>3. CASE Restored(p)
    <2>1. UNCHANGED <<disk, state, snaps, creds, issued, profile, edited, budget, history>>
      BY <1>3 DEF Restored
    <2>2. CASE job[p].rec = None
      <3>1. Finish(p)
        BY <1>3, <2>2 DEF Restored
      <3>2. TypeOK'
        BY <2>1, <3>1, <1>j, FinishShape DEF TypeOK
      <3> QED
        BY <2>1, <3>1, <3>2, FinishStep, StateKept
    <2>3. CASE job[p].rec # None
      <3>1. /\ job' = [job EXCEPT ![p] = [job[p] EXCEPT !.at = "revoke"]]
            /\ job'[p] = [job[p] EXCEPT !.at = "revoke"] /\ job[p].at = "files"
        BY <1>3, <2>3, <1>j DEF Restored
      <3>2. [job[p] EXCEPT !.at = "revoke"] \in Job
        BY <1>j DEF Job, Busy
      <3>3. TypeOK'
        BY <2>1, <3>1, <3>2, <1>j DEF TypeOK
      <3>4. JobShape(p)'
        BY <2>1, <2>3, <3>1, <1>j DEF JobShape, Job, RecordShape, Fits
      <3> QED
        BY <2>1, <3>1, <3>2, <3>3, <3>4, CommandStep, StateKept
    <2> QED
      BY <2>2, <2>3
  <1>4. CASE Forward(p)
    <2> DEFINE f == FilesOf[job[p].rec.plan][job[p].i]
    <2>1. /\ job[p].rec \in Record /\ RecordShape(job[p].rec)
          /\ job[p].i \in 1..Len(FilesOf[job[p].rec.plan])
      <3>1. job[p].rec \in Record /\ RecordShape(job[p].rec) /\ job[p].rec.plan \in Plans
        BY <1>4, <1>j DEF Forward, JobShape, Job, Record
      <3>2. job[p].i \in Nat /\ job[p].i > 0 /\ ~ (job[p].i > Len(FilesOf[job[p].rec.plan]))
        BY <1>4, <1>j DEF Forward, Written, JobShape, Job
      <3>3. Len(FilesOf[job[p].rec.plan]) \in Nat
        BY <3>1, FilesOfPlan
      <3> QED
        BY <3>1, <3>2, <3>3
    <2>2. f \in Files /\ job[p].rec.applied[f] \in Value
      BY <2>1, FilesOfPlan DEF Record, RecordShape, Fits
    <2>3. /\ job' = [job EXCEPT ![p] = [job[p] EXCEPT !.i = @ + 1]]
          /\ job'[p] = [job[p] EXCEPT !.i = @ + 1] /\ job[p].i + 1 > 0
          /\ UNCHANGED <<state, snaps, creds, issued, profile, budget, history>>
          /\ job[p].at = "forward"
      BY <1>4, <2>1, <1>j DEF Forward
    <2>4. [job[p] EXCEPT !.i = @ + 1] \in Job
      BY <1>j DEF Job
    <2>5. TypeOK'
      BY <1>4, <2>2, <2>3, <2>4, <1>j DEF Forward, Put, TypeOK
    <2>6. JobShape(p)'
      BY <2>3, <1>j DEF JobShape, Job, RecordShape, Fits
    <2> QED
      BY <2>3, <2>4, <2>5, <2>6, CommandStep, StateKept
  <1>5. CASE Forwarded(p)
    <2> DEFINE phase == IF job[p].wrong THEN "rollback-required" ELSE "active"
    <2>1. job[p].rec \in Record /\ RecordShape(job[p].rec)
      BY <1>5, <1>j DEF Forwarded, JobShape, Job
    <2>2. [job[p].rec EXCEPT !.phase = phase] \in Record
      BY <2>1 DEF Record
    <2>3. TypeOK'
      BY <1>5, <2>2, <1>j, FinishShape DEF Forwarded, TypeOK
    <2>4. StateShape'
      BY <1>5, <2>1 DEF Forwarded, StateShape, RecordShape, Fits, Record
    <2> QED
      BY <1>5, <2>3, <2>4, FinishStep DEF Forwarded
  <1>6. CASE Revoke(p)
    <2>1. /\ job[p].rec \in Record /\ job[p].creds \in CredStore
          /\ UNCHANGED <<disk, state, snaps, issued, profile, edited, overlapped, insisted, budget>>
          /\ job[p].at = "revoke"
      BY <1>6, <1>j DEF Revoke, JobShape, Job
    <2>m. misread' \subseteq CredIds
      BY <1>6, <2>1, <1>j DEF Revoke, Overlooked, TypeOK, Record
    <2>2. creds' \in CredStore
      BY <1>6, <2>1, <1>j, RevokedStore DEF Revoke, Record
    <2>3. /\ job' = [job EXCEPT ![p] = [job[p] EXCEPT !.at = "remove", !.creds = None]]
          /\ job'[p] = [job[p] EXCEPT !.at = "remove", !.creds = None]
      BY <1>6, <1>j DEF Revoke
    <2>4. [job[p] EXCEPT !.at = "remove", !.creds = None] \in Job
      BY <1>j DEF Job, Busy
    <2>5. TypeOK'
      BY <2>1, <2>m, <2>2, <2>3, <2>4, <1>j DEF TypeOK
    <2>6. JobShape(p)'
      BY <2>1, <2>3, <1>j DEF JobShape, Job, RecordShape, Fits
    <2> QED
      BY <2>1, <2>3, <2>4, <2>5, <2>6, CommandStep, StateKept
  <1>7. CASE Remove(p)
    <2>1. TypeOK'
      BY <1>7, <1>j, FinishShape DEF Remove, TypeOK
    <2> QED
      BY <1>7, <2>1, FinishStep DEF Remove, StateShape
  <1> QED
    BY <1>1, <1>2, <1>3, <1>4, <1>5, <1>6, <1>7 DEF Restoring

\* The steps that fail.
LEMMA FailingShape ==
  ASSUME ShapeInv, NEW p \in Procs, Failing(p)
  PROVE  ShapeInv'
  <1> USE DEF At, Goto, budget, history
  <1>j. job[p] \in Job /\ JobShape(p) /\ TypeOK /\ job \in [Procs -> Job]
    BY DEF ShapeInv, TypeOK
  <1>b. fails < MaxFail => fails + 1 \in 0..MaxFail
    BY <1>j, BoundAssumption DEF TypeOK
  <1>r. restoreFails < MaxRestoreFail => restoreFails + 1 \in 0..MaxRestoreFail
    BY <1>j, BoundAssumption DEF TypeOK
  <1>1. CASE IntendFails(p) \/ WriteFails(p)
    <2>1. /\ job' = [job EXCEPT ![p] = [job[p] EXCEPT !.at = "disown"]]
          /\ job'[p] = [job[p] EXCEPT !.at = "disown"]
          /\ fails < MaxFail /\ fails' = fails + 1
          /\ UNCHANGED <<disk, state, snaps, creds, issued, profile, edited, env, restoreFails, history>>
          /\ job[p].at \in {"intend", "write"}
      BY <1>1, <1>j DEF IntendFails, WriteFails
    <2>2. [job[p] EXCEPT !.at = "disown"] \in Job
      BY <1>j DEF Job, Busy
    <2>3. TypeOK'
      BY <2>1, <2>2, <1>j, <1>b DEF TypeOK
    <2>4. JobShape(p)'
      BY <2>1, <1>j, <1>1 DEF JobShape, Job, RecordShape, Fits
    <2> QED
      BY <2>1, <2>2, <2>3, <2>4, CommandStep, StateKept
  <1>2. CASE UndoFails(p)
    <2>1. /\ job[p].rec \in Record /\ job[p].i \in Nat /\ job[p].i > 0
          /\ job[p].i <= Len(FilesOf[job[p].rec.plan])
          /\ job[p].at = "undo" /\ fails < MaxFail /\ fails' = fails + 1
          /\ UNCHANGED <<disk, state, snaps, creds, issued, profile, edited, env, restoreFails, history>>
      BY <1>2, <1>j DEF UndoFails, JobShape, Job
    <2>2. /\ job' = [job EXCEPT ![p] = [job[p] EXCEPT !.i = @ - 1, !.wrong = TRUE]]
          /\ job'[p] = [job[p] EXCEPT !.i = @ - 1, !.wrong = TRUE]
      BY <1>2, <1>j DEF UndoFails
    <2>3. [job[p] EXCEPT !.i = @ - 1, !.wrong = TRUE] \in Job
      <3>1. job[p].i - 1 \in Nat
        BY <2>1
      <3> QED
        BY <3>1, <1>j DEF Job
    <2>4. TypeOK'
      BY <2>1, <2>2, <2>3, <1>j, <1>b DEF TypeOK
    <2>5. job[p].i - 1 <= Len(FilesOf[job[p].rec.plan])
      BY <2>1, FilesOfPlan DEF Record
    <2>6. JobShape(p)'
      BY <2>1, <2>2, <2>5, <1>j DEF JobShape, Job, RecordShape, Fits
    <2> QED
      BY <2>1, <2>2, <2>3, <2>4, <2>6, CommandStep, StateKept
  <1>3. CASE RestoreFails(p)
    <2>1. /\ UNCHANGED <<disk, state, snaps, creds, issued, profile, edited, env, fails, history>>
          /\ restoreFails' \in 0..MaxRestoreFail /\ job[p].at = "files"
      BY <1>3, <1>r DEF RestoreFails
    <2>2. CASE job[p].rec = None
      <3>1. Finish(p)
        BY <1>3, <2>2 DEF RestoreFails
      <3>2. TypeOK'
        BY <2>1, <3>1, <1>j, FinishShape DEF TypeOK
      <3> QED
        BY <2>1, <3>1, <3>2, FinishStep, StateKept
    <2>3. CASE job[p].rec # None
      <3>1. /\ job' = [job EXCEPT ![p] = [job[p] EXCEPT !.at = "forward", !.i = 1]]
            /\ job'[p] = [job[p] EXCEPT !.at = "forward", !.i = 1]
        BY <1>3, <2>3, <1>j DEF RestoreFails
      <3>2. [job[p] EXCEPT !.at = "forward", !.i = 1] \in Job
        BY <1>j DEF Job, Busy
      <3>3. TypeOK'
        BY <2>1, <3>1, <3>2, <1>j DEF TypeOK
      <3>4. JobShape(p)'
        BY <2>1, <2>3, <3>1, <1>j DEF JobShape, Job, RecordShape, Fits
      <3> QED
        BY <2>1, <3>1, <3>2, <3>3, <3>4, CommandStep, StateKept
    <2> QED
      BY <2>2, <2>3
  <1>4. CASE ForwardFails(p)
    <2>1. /\ job' = [job EXCEPT ![p] = [job[p] EXCEPT !.i = @ + 1, !.wrong = TRUE]]
          /\ job'[p] = [job[p] EXCEPT !.i = @ + 1, !.wrong = TRUE] /\ job[p].i + 1 > 0
          /\ job[p].at = "forward" /\ fails < MaxFail /\ fails' = fails + 1
          /\ UNCHANGED <<disk, state, snaps, creds, issued, profile, edited, env, restoreFails, history>>
      <3>1. job[p].i \in Nat /\ job[p].i > 0 /\ job[p].at = "forward"
        BY <1>4, <1>j DEF ForwardFails, JobShape, Job
      <3>2. job[p].i + 1 > 0
        BY <3>1
      <3> QED
        BY <1>4, <3>1, <3>2, <1>j DEF ForwardFails
    <2>2. [job[p] EXCEPT !.i = @ + 1, !.wrong = TRUE] \in Job
      <3>1. job[p].i + 1 \in Nat
        BY <1>j DEF Job
      <3> QED
        BY <3>1, <1>j DEF Job
    <2>3. TypeOK'
      BY <2>1, <2>2, <1>j, <1>b DEF TypeOK
    <2>4. JobShape(p)'
      BY <2>1, <1>j DEF JobShape, Job, RecordShape, Fits
    <2> QED
      BY <2>1, <2>2, <2>3, <2>4, CommandStep, StateKept
  <1>5. CASE Quit(p)
    <2>1. TypeOK'
      BY <1>5, <1>j, <1>b, FinishShape DEF Quit, TypeOK
    <2> QED
      BY <1>5, <2>1, FinishStep, StateKept DEF Quit
  <1>6. CASE MisreadCreds(p)
    <2>1. /\ job' = [job EXCEPT ![p] = [job[p] EXCEPT !.creds = NoCreds]]
          /\ job'[p] = [job[p] EXCEPT !.creds = NoCreds]
          /\ fails < MaxFail /\ fails' = fails + 1
          /\ UNCHANGED <<disk, state, snaps, creds, issued, profile, edited, env, restoreFails, history>>
      BY <1>6, <1>j DEF MisreadCreds
    <2>2. [job[p] EXCEPT !.creds = NoCreds] \in Job
      BY <1>j DEF Job, CredStore, NoCreds
    <2>3. TypeOK'
      BY <2>1, <2>2, <1>j, <1>b DEF TypeOK
    <2>4. JobShape(p)'
      BY <2>1, <1>j DEF JobShape, Job, RecordShape, Fits
    <2> QED
      BY <2>1, <2>2, <2>3, <2>4, CommandStep, StateKept
  <1> QED
    BY <1>1, <1>2, <1>3, <1>4, <1>5, <1>6 DEF Failing

\* Starting a command.
LEMMA StartApplyShape ==
  ASSUME ShapeInv, NEW p \in Procs, NEW given \in SnapIds \cup {None}, StartApply(p, given)
  PROVE  ShapeInv'
  <1> DEFINE at == IF given = None THEN "capture" ELSE "check"
  <1> DEFINE j == [Idle EXCEPT !.at = at, !.plan = profile, !.snap = given]
  <1>1. /\ job' = [job EXCEPT ![p] = j]
        /\ UNCHANGED <<disk, state, snaps, creds, issued, profile, edited, insisted, misread, budget>>
        /\ given # None => snaps[given] # None
    BY DEF StartApply
  <1>o. overlapped' \in BOOLEAN
    BY DEF StartApply, Overlaps
  <1>2. TypeOK /\ job \in [Procs -> Job] /\ profile # None
    BY PlanAssumption DEF ShapeInv, TypeOK
  <1>3. j \in Job
    BY <1>2 DEF TypeOK, Idle, Job, Busy
  <1>4. TypeOK'
    BY <1>1, <1>o, <1>2, <1>3 DEF TypeOK, budget
  <1>5. JobShape(p)'
    <2>1. job'[p] = j /\ j.rec = None /\ j.plan # None /\ j.snap = given
          /\ j.at \in {"capture", "check"} /\ (j.at = "check" => given # None)
      BY <1>1, <1>2 DEF Idle
    <2> QED
      BY <1>1, <2>1 DEF JobShape
  <1> QED
    BY <1>1, <1>3, <1>4, <1>5, CommandStep, StateKept

LEMMA StartRestoreShape ==
  ASSUME ShapeInv, NEW p \in Procs, NEW s \in SnapIds, NEW force \in BOOLEAN,
         StartRestore(p, s, force)
  PROVE  ShapeInv'
  <1> DEFINE at == IF state = None THEN "files" ELSE "mark"
  <1> DEFINE last == Len(FilesOf[snaps[s].plan])
  <1> DEFINE j == [Idle EXCEPT !.at = at, !.snap = s, !.rec = state, !.force = force, !.i = last]
  <1>1. /\ job' = [job EXCEPT ![p] = j]
        /\ UNCHANGED <<disk, state, snaps, creds, issued, profile, edited, misread, budget>>
        /\ snaps[s] # None
    BY DEF StartRestore
  <1>o. overlapped' \in BOOLEAN /\ insisted' \in BOOLEAN
    BY DEF StartRestore, Overlaps
  <1>2. TypeOK /\ job \in [Procs -> Job] /\ s # None /\ state \in Record \cup {None}
    BY PlanAssumption DEF ShapeInv, TypeOK
  <1>3. snaps[s] \in Snapshot
    BY <1>1, <1>2 DEF TypeOK
  <1>4. last \in Nat
    BY <1>3, FilesOfPlan DEF Snapshot
  <1>5. j \in Job
    BY <1>2, <1>4 DEF Idle, Job, Busy
  <1>6. TypeOK'
    BY <1>1, <1>o, <1>2, <1>5 DEF TypeOK, budget
  <1>7. JobShape(p)'
    <2>1. /\ job'[p] = j /\ j.rec = state /\ j.snap = s /\ j.i = last
          /\ j.at \in {"files", "mark"} /\ (j.at = "mark" => state # None)
      BY <1>1, <1>2 DEF Idle
    <2>2. state # None => RecordShape(state)'
      BY <1>1, StateKept DEF StateShape
    <2>3. state' = state /\ snaps' = snaps
      BY <1>1
    <2>4. last <= Len(FilesOf[snaps[s].plan])
      BY <1>4
    <2> HIDE DEF last, j
    <2> QED
      BY <1>1, <1>2, <2>1, <2>2, <2>3, <2>4 DEF JobShape, RecordShape, Fits
  <1> QED
    BY <1>1, <1>5, <1>6, <1>7, CommandStep, StateKept

\* Steps no command takes.
LEMMA TakeSnapshotShape ==
  ASSUME ShapeInv, NEW s \in SnapIds, NEW force \in BOOLEAN, TakeSnapshot(s, force)
  PROVE  ShapeInv'
  <1>1. /\ snaps[s] = None
        /\ snaps' = [snaps EXCEPT ![s] = Picture]
        /\ UNCHANGED <<disk, state, creds, issued, profile, job, edited, misread, fails, restoreFails>>
    BY DEF TakeSnapshot
  <1>2. TypeOK
    BY DEF ShapeInv
  <1>o. overlapped' \in BOOLEAN /\ insisted' \in BOOLEAN
    BY DEF TakeSnapshot
  <1>e. env' \in 0..MaxEnv
    <2>1. CASE env < MaxEnv
      BY <1>2, <2>1, BoundAssumption DEF TakeSnapshot, TypeOK
    <2>2. CASE ~ (env < MaxEnv)
      BY <1>2, <2>2 DEF TakeSnapshot, TypeOK
    <2> QED
      BY <2>1, <2>2
  <1>3. TypeOK'
    BY <1>1, <1>o, <1>e, <1>2, PictureFits DEF TypeOK
  <1>4. \A t \in SnapIds : snaps[t] # None => snaps'[t] = snaps[t]
    BY <1>1, <1>2 DEF TypeOK
  <1>5. SnapShape'
    BY <1>1, <1>2, PictureFits DEF ShapeInv, TypeOK, SnapShape, Fits
  <1>6. StateShape'
    BY <1>1, <1>4, StateKept
  <1>7. ASSUME NEW p \in Procs PROVE JobShape(p)'
    <2>1. job'[p] = job[p] /\ JobShape(p) /\ job[p] \in Job
      BY <1>1, <1>2 DEF ShapeInv, TypeOK
    <2>2. job[p].rec # None => RecordShape(job[p].rec)'
      <3> SUFFICES ASSUME job[p].rec # None PROVE RecordShape(job[p].rec)'
        OBVIOUS
      <3>1. job[p].rec \in Record /\ RecordShape(job[p].rec)
        BY <2>1 DEF Job, JobShape
      <3> QED
        BY <1>4, <2>1, <3>1, ShapeKept DEF Record
    <2>3. job[p].snap # None /\ snaps[job[p].snap] # None =>
            snaps'[job[p].snap] = snaps[job[p].snap]
      BY <1>4, <2>1 DEF Job
    <2> QED
      BY <2>1, <2>2, <2>3 DEF JobShape
  <1> QED
    BY <1>3, <1>5, <1>6, <1>7 DEF ShapeInv

\* What keeps records, snapshots and the points the commands are at.
LEMMA BystanderShape ==
  ASSUME ShapeInv, TypeOK', UNCHANGED <<snaps, state>>,
         \A p \in Procs : \E t : job'[p] = [job[p] EXCEPT !.touched = t]
  PROVE  ShapeInv'
  <1>1. ASSUME NEW p \in Procs PROVE JobShape(p)'
    <2>1. PICK t : job'[p] = [job[p] EXCEPT !.touched = t]
      OBVIOUS
    <2>2. job[p] \in Job /\ JobShape(p)
      BY DEF ShapeInv, TypeOK
    <2> QED
      BY <2>1, <2>2 DEF JobShape, Job, RecordShape, Fits
  <1> QED
    BY <1>1 DEF ShapeInv, SnapShape, StateShape, RecordShape, Fits

LEMMA EnvironmentShape ==
  ASSUME ShapeInv, Environment
  PROVE  ShapeInv'
  <1>j. TypeOK /\ job \in [Procs -> Job]
    BY DEF ShapeInv, TypeOK
  <1>b. env < MaxEnv => env + 1 \in 0..MaxEnv
    BY <1>j, BoundAssumption DEF TypeOK
  <1>s. \A p \in Procs : job[p] = [job[p] EXCEPT !.touched = job[p].touched]
    BY <1>j DEF Job
  <1>1. ASSUME NEW f \in Files, NEW value \in Rewritings(f), Edit(f, value) PROVE ShapeInv'
    <2>1. disk[f] \in Value /\ value \in Value
      <3>1. disk[f] \in Value
        BY <1>j DEF TypeOK
      <3>2. Natives(f) \subseteq Value
        BY DEF Natives, Value, Texts, Absent
      <3>3. \A t \in TextsOf[f] : [disk[f] EXCEPT !.text = t] \in Value
        BY <3>1 DEF Value, Texts
      <3> QED
        BY <3>1, <3>2, <3>3 DEF Rewritings
    <2>2. ASSUME NEW p \in Procs
          PROVE  job'[p] \in Job /\ \E t : job'[p] = [job[p] EXCEPT !.touched = t]
      <3>1. CASE At(p, "idle")
        BY <3>1, <1>1, <1>s, <1>j DEF Edit
      <3>2. CASE ~ At(p, "idle")
        <4>1. job'[p] = [job[p] EXCEPT !.touched = @ \cup {f}]
          BY <3>2, <1>1 DEF Edit
        <4>2. [job[p] EXCEPT !.touched = @ \cup {f}] \in Job
          BY <1>j DEF Job
        <4> QED
          BY <4>1, <4>2
      <3> QED
        BY <3>1, <3>2
    <2>3. job' \in [Procs -> Job]
      BY <1>1, <2>2 DEF Edit
    <2>4. TypeOK'
      BY <1>1, <1>j, <1>b, <2>1, <2>3 DEF Edit, TypeOK, history
    <2> QED
      BY <1>1, <2>2, <2>4, BystanderShape DEF Edit
  <1>2. ASSUME NEW plan \in Plans, EditProfile(plan) PROVE ShapeInv'
    <2>1. TypeOK'
      BY <1>2, <1>j, <1>b DEF EditProfile, TypeOK, history
    <2> QED
      BY <1>2, <2>1, <1>s, BystanderShape DEF EditProfile
  <1>3. ASSUME NEW c \in CredIds, Expire(c) PROVE ShapeInv'
    <2>1. [creds[c] EXCEPT !.expired = TRUE] \in Credential
      BY <1>3, <1>j DEF Expire, TypeOK, CredStore, Credential
    <2>2. TypeOK'
      BY <1>3, <2>1, <1>j, <1>b DEF Expire, TypeOK, CredStore, history
    <2> QED
      BY <1>3, <2>2, <1>s, BystanderShape DEF Expire
  <1> QED
    BY <1>1, <1>2, <1>3 DEF Environment

LEMMA ShapeStep == ShapeInv /\ [Next]_vars => ShapeInv'
  <1> SUFFICES ASSUME ShapeInv, [Next]_vars PROVE ShapeInv'
    OBVIOUS
  <1>1. CASE Next
    <2>1. ASSUME NEW p \in Procs, Applying(p) \/ Restoring(p) \/ Failing(p) PROVE ShapeInv'
      BY <2>1, ApplyingShape, RestoringShape, FailingShape
    <2>2. ASSUME NEW p \in Procs, NEW s \in SnapIds \cup {None}, StartApply(p, s) PROVE ShapeInv'
      BY <2>2, StartApplyShape
    <2>3. ASSUME NEW p \in Procs, NEW s \in SnapIds, NEW force \in BOOLEAN,
                 StartRestore(p, s, force)
          PROVE  ShapeInv'
      BY <2>3, StartRestoreShape
    <2>4. ASSUME NEW s \in SnapIds, NEW force \in BOOLEAN, TakeSnapshot(s, force) PROVE ShapeInv'
      BY <2>4, TakeSnapshotShape
    <2> QED
      BY <1>1, <2>1, <2>2, <2>3, <2>4, EnvironmentShape DEF Next
  <1>2. CASE UNCHANGED vars
    BY <1>2 DEF vars, budget, history, ShapeInv, TypeOK, SnapShape, StateShape, JobShape, RecordShape, Fits
  <1> QED
    BY <1>1, <1>2

\* Everything a command holds and writes has its type: in particular each
\* file it puts back or writes is in the picture it takes the content from.
THEOREM DirectTypeCorrect == Spec => []TypeOK
  <1>1. ShapeInv => TypeOK
    BY DEF ShapeInv
  <1> QED
    BY ShapeInit, ShapeStep, <1>1, PTL DEF Spec

-----------------------------------------------------------------------------
(* One command at a time, as long as none has overlapped another           *)

Acts(p) == Applying(p) \/ Restoring(p) \/ Failing(p)
Starts(p) ==
  \/ \E s \in SnapIds \cup {None} : StartApply(p, s)
  \/ \E s \in SnapIds, force \in BOOLEAN : StartRestore(p, s, force)

\* Nobody but p runs a command.
Alone(p) == \A q \in Procs \ {p} : job[q] = Idle

Apart ==
  /\ \A p \in Procs : job[p].at = "idle" => job[p] = Idle
  /\ ~ overlapped => \A p \in Procs : job[p].at # "idle" => Alone(p)

Settles(p) == job'[p] = Idle \/ job'[p].at # "idle"

LEMMA ApplyingActs ==
  ASSUME ShapeInv, NEW p \in Procs, Applying(p)
  PROVE  /\ \A q \in Procs \ {p} : job'[q] = job[q]
         /\ job[p].at # "idle" /\ Settles(p)
         /\ overlapped' = overlapped /\ insisted' = insisted
  <1> USE DEF At, Goto, Finish, budget, history, Settles
  <1>j. job[p] \in Job /\ job \in [Procs -> Job]
    BY DEF ShapeInv, TypeOK
  <1>1. ASSUME NEW s \in SnapIds, Capture(p, s)
        PROVE  /\ \A q \in Procs \ {p} : job'[q] = job[q]
               /\ job[p].at # "idle" /\ Settles(p)
               /\ overlapped' = overlapped /\ insisted' = insisted
    BY <1>1, <1>j DEF Capture, Job
  <1>2. ASSUME NEW c \in CredIds, Issue(p, c)
        PROVE  /\ \A q \in Procs \ {p} : job'[q] = job[q]
               /\ job[p].at # "idle" /\ Settles(p)
               /\ overlapped' = overlapped /\ insisted' = insisted
    BY <1>2, <1>j DEF Issue, Job
  <1>3. CASE Check(p) \/ BuildFails(p) \/ Activate(p) \/ Undone(p) \/ Disown(p)
    BY <1>3, <1>j DEF Check, BuildFails, Activate, Undone, Disown, Job
  <1>4. CASE LoadCreds(p) \/ Intend(p) \/ WriteFile(p) \/ Undo(p)
    BY <1>4, <1>j DEF LoadCreds, Loading, Intend, WriteFile, Undo, Job
  <1> QED
    BY <1>1, <1>2, <1>3, <1>4 DEF Applying

LEMMA RestoringActs ==
  ASSUME ShapeInv, NEW p \in Procs, Restoring(p)
  PROVE  /\ \A q \in Procs \ {p} : job'[q] = job[q]
         /\ job[p].at # "idle" /\ Settles(p)
         /\ overlapped' = overlapped /\ insisted' = insisted
  <1> USE DEF At, Goto, Finish, budget, history, Settles
  <1>j. job[p] \in Job /\ job \in [Procs -> Job]
    BY DEF ShapeInv, TypeOK
  <1>1. CASE Mark(p) \/ Restored(p)
    BY <1>1, <1>j DEF Mark, Restored, Job
  <1>2. CASE RestoreFile(p)
    BY <1>2, <1>j DEF RestoreFile, Job
  <1>3. CASE Forward(p)
    BY <1>3, <1>j DEF Forward, Job
  <1>4. CASE Forwarded(p) \/ Revoke(p) \/ Remove(p)
    BY <1>4, <1>j DEF Forwarded, Revoke, Remove, Job
  <1> QED
    BY <1>1, <1>2, <1>3, <1>4 DEF Restoring

LEMMA FailingActs ==
  ASSUME ShapeInv, NEW p \in Procs, Failing(p)
  PROVE  /\ \A q \in Procs \ {p} : job'[q] = job[q]
         /\ job[p].at # "idle" /\ Settles(p)
         /\ overlapped' = overlapped /\ insisted' = insisted
  <1> USE DEF At, Goto, Finish, budget, history, Settles
  <1>j. job[p] \in Job /\ job \in [Procs -> Job]
    BY DEF ShapeInv, TypeOK
  <1>1. CASE MisreadCreds(p) \/ IntendFails(p) \/ WriteFails(p) \/ UndoFails(p)
    BY <1>1, <1>j DEF MisreadCreds, Loading, IntendFails, WriteFails, UndoFails, Job
  <1>2. CASE RestoreFails(p) \/ ForwardFails(p) \/ Quit(p)
    BY <1>2, <1>j DEF RestoreFails, ForwardFails, Quit, Busy, Job
  <1> QED
    BY <1>1, <1>2 DEF Failing

LEMMA StartActs ==
  ASSUME ShapeInv, NEW p \in Procs, Starts(p)
  PROVE  /\ \A q \in Procs \ {p} : job'[q] = job[q]
         /\ job'[p].at # "idle"
         /\ overlapped' = Overlaps(p) /\ (insisted => insisted')
  <1>j. job \in [Procs -> Job]
    BY DEF ShapeInv, TypeOK
  <1>1. ASSUME NEW s \in SnapIds \cup {None}, StartApply(p, s)
        PROVE  /\ \A q \in Procs \ {p} : job'[q] = job[q]
               /\ job'[p].at # "idle"
               /\ overlapped' = Overlaps(p) /\ insisted' = insisted
    BY <1>1, <1>j DEF StartApply, Idle
  <1>2. ASSUME NEW s \in SnapIds, NEW force \in BOOLEAN, StartRestore(p, s, force)
        PROVE  /\ \A q \in Procs \ {p} : job'[q] = job[q]
               /\ job'[p].at # "idle"
               /\ overlapped' = Overlaps(p) /\ (insisted => insisted')
    BY <1>2, <1>j DEF StartRestore, Idle
  <1> QED
    BY <1>1, <1>2 DEF Starts

\* Whoever takes a step before commands have overlapped is alone.
LEMMA LoneStep ==
  ASSUME ShapeInv, Apart, ~ overlapped', NEW p \in Procs, Acts(p) \/ Starts(p)
  PROVE  Alone(p) /\ Alone(p)'
  <1>1. \A q \in Procs \ {p} : job'[q] = job[q]
    BY ApplyingActs, RestoringActs, FailingActs, StartActs DEF Acts
  <1>2. Alone(p)
    <2>1. CASE Acts(p)
      BY <2>1, ApplyingActs, RestoringActs, FailingActs DEF Acts, Apart
    <2>2. CASE Starts(p)
      BY <2>2, StartActs DEF Overlaps, At, Apart, Alone
    <2> QED
      BY <2>1, <2>2
  <1> QED
    BY <1>1, <1>2 DEF Alone

LEMMA ApartInit == Init => Apart
  BY DEF Init, Apart, Alone

LEMMA ApartStep ==
  ASSUME ShapeInv, Apart, [Next]_vars
  PROVE  Apart' /\ (overlapped => overlapped') /\ (insisted => insisted')
  <1>j. job \in [Procs -> Job]
    BY DEF ShapeInv, TypeOK
  <1>1. ASSUME NEW p \in Procs, Acts(p) \/ Starts(p)
        PROVE  Apart' /\ (overlapped => overlapped') /\ (insisted => insisted')
    <2>1. /\ \A q \in Procs \ {p} : job'[q] = job[q]
          /\ Settles(p)
          /\ (overlapped => overlapped') /\ (insisted => insisted')
      BY <1>1, ApplyingActs, RestoringActs, FailingActs, StartActs DEF Acts, Overlaps, Settles
    <2>2. \A q \in Procs : job'[q].at = "idle" => job'[q] = Idle
      BY <2>1 DEF Apart, Settles
    <2>3. ~ overlapped' => \A q \in Procs : job'[q].at # "idle" => Alone(q)'
      <3>1. SUFFICES ASSUME ~ overlapped', NEW q \in Procs, job'[q].at # "idle"
                     PROVE  Alone(q)'
        OBVIOUS
      <3>2. Alone(p) /\ Alone(p)'
        BY <1>1, <3>1, LoneStep
      <3>3. q = p
        BY <3>1, <3>2, IdleJob DEF Alone
      <3> QED
        BY <3>2, <3>3
    <2> QED
      BY <2>1, <2>2, <2>3 DEF Apart
  <1>2. ASSUME \A p \in Procs : job'[p] = job[p]
                  \/ (job[p].at # "idle" /\ \E t : job'[p] = [job[p] EXCEPT !.touched = t]),
               overlapped => overlapped', insisted => insisted'
        PROVE  Apart'
    <2>1. \A p \in Procs : job'[p].at = job[p].at /\ (job[p].at = "idle" => job'[p] = job[p])
      BY <1>2, <1>j DEF Job
    <2> QED
      BY <1>2, <2>1, IdleJob DEF Apart, Alone
  <1>3. ASSUME NEW s \in SnapIds, NEW force \in BOOLEAN, TakeSnapshot(s, force)
        PROVE  Apart' /\ (overlapped => overlapped') /\ (insisted => insisted')
    BY <1>2, <1>3 DEF TakeSnapshot
  <1>4. CASE Environment
    <2>1. UNCHANGED <<overlapped, insisted>>
      BY <1>4 DEF Environment, Edit, EditProfile, Expire, history
    <2>2. ASSUME NEW p \in Procs
          PROVE  job'[p] = job[p]
                   \/ (job[p].at # "idle" /\ \E t : job'[p] = [job[p] EXCEPT !.touched = t])
      BY <1>4, <1>j DEF Environment, Edit, EditProfile, Expire, At
    <2> QED
      BY <1>2, <2>1, <2>2
  <1>5. CASE UNCHANGED vars
    BY <1>2, <1>5 DEF vars, history
  <1> QED
    BY <1>1, <1>3, <1>4, <1>5 DEF Next, Acts, Starts

-----------------------------------------------------------------------------
(* What points at CPR can be taken back                                    *)

\* Only the takeover in force has files that point at CPR.
AccountedFor ==
  \A f \in Files : Managed(disk[f]) => state # None /\ f \in FileSet(state.plan)

SnapsClean ==
  \A s \in SnapIds : snaps[s] # None =>
    \A f \in FileSet(snaps[s].plan) : ~ Managed(snaps[s].files[f])

NoneManaged == \A f \in Files : ~ Managed(disk[f])

\* The files of a plan after the i-th no longer point at CPR.
ClearAfter(plan, i) ==
  \A j \in 1..Len(FilesOf[plan]) : j > i => ~ Managed(disk[FilesOf[plan][j]])

\* What a command knows of the record, and of the files it has put back.
JobSafe(p) ==
  /\ job[p].at \in {"capture", "check", "issue", "intend"} => state = None
  /\ job[p].at \in {"write", "disown", "undo", "mark"} => state = job[p].rec
  /\ job[p].at \in {"forward", "revoke", "files"} =>
       IF job[p].rec = None THEN state = None
       ELSE state = [job[p].rec EXCEPT !.phase = "restoring"]
  /\ job[p].at = "undo" /\ ~ job[p].wrong => ClearAfter(job[p].rec.plan, job[p].i)
  /\ job[p].at = "mark" => job[p].i = Len(FilesOf[snaps[job[p].snap].plan])
  /\ job[p].at = "files" => ClearAfter(snaps[job[p].snap].plan, job[p].i)
  /\ job[p].at \in {"mark", "files"} /\ job[p].rec # None =>
       FileSet(job[p].rec.plan) \subseteq FileSet(snaps[job[p].snap].plan)
  /\ job[p].at \in {"revoke", "remove"} => NoneManaged

SafeInv == ShapeInv /\ AccountedFor /\ SnapsClean /\ \A p \in Procs : JobSafe(p)

LEMMA SafeInit == Init => SafeInv
  <1> SUFFICES ASSUME Init PROVE SafeInv
    OBVIOUS
  <1>1. NoneManaged
    BY DEF Init, Natives, Absent, Managed, NoneManaged
  <1>2. \A p \in Procs : JobSafe(p)
    BY IdleJob DEF Init, JobSafe
  <1> QED
    BY <1>1, <1>2, ShapeInit DEF Init, SafeInv, AccountedFor, SnapsClean, NoneManaged

LEMMA OneJob ==
  ASSUME NEW p \in Procs, Alone(p)', ShapeInv', AccountedFor', SnapsClean', JobSafe(p)'
  PROVE  SafeInv'
  BY IdleJob DEF SafeInv, Alone, JobSafe

LEMMA FinishSafe ==
  ASSUME ShapeInv, NEW p \in Procs, Finish(p)
  PROVE  JobSafe(p)'
  <1>1. job'[p] = Idle
    BY DEF Finish, ShapeInv, TypeOK
  <1> QED
    BY <1>1, IdleJob DEF JobSafe

LEMMA CleanKept ==
  ASSUME SafeInv, UNCHANGED snaps
  PROVE  SnapsClean'
  BY DEF SafeInv, SnapsClean

\* Without a takeover in force nothing points at CPR, and a picture is clean.
LEMMA PictureClean ==
  ASSUME SafeInv, state = None
  PROVE  NoneManaged /\ \A f \in FileSet(Picture.plan) : ~ Managed(Picture.files[f])
  <1>1. NoneManaged
    BY DEF SafeInv, AccountedFor, NoneManaged
  <1>2. FileSet(profile) \subseteq Files
    BY FilesOfPlan DEF SafeInv, ShapeInv, TypeOK
  <1> QED
    BY <1>1, <1>2 DEF Picture, NoneManaged

LEMMA NewSnapClean ==
  ASSUME SafeInv, state = None, NEW s \in SnapIds, snaps' = [snaps EXCEPT ![s] = Picture]
  PROVE  SnapsClean'
  <1> SUFFICES ASSUME NEW t \in SnapIds, snaps'[t] # None
               PROVE  \A f \in FileSet(snaps'[t].plan) : ~ Managed(snaps'[t].files[f])
    BY DEF SnapsClean, Managed, FileSet
  <1>1. CASE t = s
    BY <1>1, PictureClean DEF SafeInv, ShapeInv, TypeOK
  <1>2. CASE t # s
    BY <1>2 DEF SafeInv, ShapeInv, TypeOK, SnapsClean
  <1> QED
    BY <1>1, <1>2

\* Putting back one more file, from the last to the first.
LEMMA OneLess ==
  ASSUME TypeOK, NEW plan \in Plans, NEW i \in 1..Len(FilesOf[plan]), NEW value,
         ~ Managed(value), ClearAfter(plan, i),
         disk' = [disk EXCEPT ![FilesOf[plan][i]] = value]
  PROVE  /\ \A j \in 1..Len(FilesOf[plan]) : j > i - 1 => ~ Managed(disk'[FilesOf[plan][j]])
         /\ \A f \in Files : Managed(disk'[f]) => Managed(disk[f])
  <1>1. \A j \in 1..Len(FilesOf[plan]) : FilesOf[plan][j] \in Files
    BY FilesOfPlan
  <1>2. ASSUME NEW j \in 1..Len(FilesOf[plan]), j > i - 1
        PROVE  ~ Managed(disk'[FilesOf[plan][j]])
    <2>1. CASE FilesOf[plan][j] = FilesOf[plan][i]
      BY <1>1, <2>1 DEF TypeOK
    <2>2. CASE FilesOf[plan][j] # FilesOf[plan][i]
      <3>1. j > i
        BY <1>2, <2>2, FilesOfPlan
      <3> QED
        BY <1>1, <2>2, <3>1 DEF TypeOK, ClearAfter
    <2> QED
      BY <2>1, <2>2
  <1>3. \A f \in Files : Managed(disk'[f]) => Managed(disk[f])
    BY DEF TypeOK
  <1> QED
    BY <1>2, <1>3

\* Once all are put back, nothing is left of a takeover of the same files.
LEMMA AllClear ==
  ASSUME ShapeInv, AccountedFor, NEW plan \in Plans, ClearAfter(plan, 0),
         state # None => FileSet(state.plan) \subseteq FileSet(plan)
  PROVE  NoneManaged
  <1>1. ASSUME NEW f \in FileSet(plan) PROVE ~ Managed(disk[f])
    <2>1. PICK i \in DOMAIN FilesOf[plan] : f = FilesOf[plan][i]
      BY DEF FileSet
    <2>2. i \in 1..Len(FilesOf[plan]) /\ i > 0
      BY <2>1, FilesOfPlan
    <2> QED
      BY <2>1, <2>2 DEF ClearAfter
  <1> QED
    BY <1>1 DEF AccountedFor, NoneManaged

LEMMA ApplyingSafe ==
  ASSUME SafeInv, NEW p \in Procs, Alone(p), Alone(p)', Applying(p)
  PROVE  SafeInv'
  <1> USE DEF At, Goto, budget, history
  <1>j. /\ job[p] \in Job /\ JobShape(p) /\ JobSafe(p) /\ TypeOK /\ job \in [Procs -> Job]
        /\ ShapeInv /\ AccountedFor /\ ShapeInv'
    BY ApplyingShape DEF SafeInv, ShapeInv, TypeOK
  <1>u. UNCHANGED <<disk, state>> => AccountedFor'
    BY <1>j DEF AccountedFor
  <1>1. ASSUME NEW s \in SnapIds, Capture(p, s) PROVE SafeInv'
    <2>1. UNCHANGED <<disk, state>> /\ state = None /\ job[p].at = "capture"
          /\ snaps' = [snaps EXCEPT ![s] = Picture]
          /\ job'[p] = [job[p] EXCEPT !.snap = s, !.at = "check"]
      BY <1>1, <1>j DEF Capture, JobSafe
    <2>2. SnapsClean'
      BY <2>1, NewSnapClean
    <2>3. JobSafe(p)'
      BY <2>1, <1>j DEF JobSafe, Job
    <2> QED
      BY <1>j, <1>u, <2>1, <2>2, <2>3, OneJob
  <1>2. CASE Check(p)
    <2>1. UNCHANGED <<disk, state, snaps>> /\ job[p].at = "check"
      BY <1>2 DEF Check
    <2>2. JobSafe(p)'
      <3>1. CASE Finish(p)
        BY <3>1, <1>j, FinishSafe
      <3>2. CASE job' = [job EXCEPT ![p].at = "issue"]
        BY <3>2, <2>1, <1>j DEF JobSafe, Job
      <3> QED
        BY <1>2, <3>1, <3>2 DEF Check
    <2> QED
      BY <1>j, <1>u, <2>1, <2>2, CleanKept, OneJob
  <1>3. CASE LoadCreds(p)
    <2>1. UNCHANGED <<disk, state, snaps>> /\ job'[p] = [job[p] EXCEPT !.creds = creds]
          /\ job[p].at \in {"issue", "disown", "revoke"}
      BY <1>3, <1>j DEF LoadCreds, Loading
    <2>2. JobSafe(p)'
      BY <2>1, <1>j DEF JobSafe, Job, NoneManaged
    <2> QED
      BY <1>j, <1>u, <2>1, <2>2, CleanKept, OneJob
  <1>4. ASSUME NEW c \in CredIds, Issue(p, c) PROVE SafeInv'
    <2>1. UNCHANGED <<disk, state, snaps>> /\ job[p].at = "issue"
          /\ job'[p] = [job[p] EXCEPT !.at = "intend", !.cred = c, !.creds = None]
      BY <1>4, <1>j DEF Issue
    <2>2. JobSafe(p)'
      BY <2>1, <1>j DEF JobSafe, Job
    <2> QED
      BY <1>j, <1>u, <2>1, <2>2, CleanKept, OneJob
  <1>5. CASE BuildFails(p)
    BY <1>5, <1>j, <1>u, FinishSafe, CleanKept, OneJob DEF BuildFails
  <1>6. CASE Intend(p)
    <2> DEFINE rec == [phase |-> "applying", plan |-> job[p].plan, snap |-> job[p].snap,
                       cred |-> job[p].cred, applied |-> Content(job[p].plan, job[p].cred)]
    <2>1. /\ UNCHANGED <<disk, snaps>> /\ state' = rec /\ job[p].at = "intend"
          /\ job'[p] = [job[p] EXCEPT !.at = "write", !.rec = rec, !.i = 1]
      BY <1>6, <1>j DEF Intend
    <2> HIDE DEF rec
    <2>2. state = None
      BY <2>1, <1>j DEF JobSafe
    <2>3. AccountedFor'
      BY <2>1, <2>2, <1>j DEF AccountedFor
    <2>4. JobSafe(p)'
      BY <2>1, <1>j DEF JobSafe, Job
    <2> QED
      BY <1>j, <2>1, <2>3, <2>4, CleanKept, OneJob
  <1>7. CASE WriteFile(p)
    <2> DEFINE f == FilesOf[job[p].rec.plan][job[p].i]
    <2>1. /\ job[p].at = "write" /\ state = job[p].rec
          /\ job[p].rec \in Record /\ job[p].rec # None
          /\ job[p].i \in Nat /\ job[p].i > 0 /\ ~ (job[p].i > Len(FilesOf[job[p].rec.plan]))
      BY <1>7, <1>j DEF WriteFile, Written, JobShape, JobSafe, Job
    <2>2. f \in FileSet(state.plan)
      BY <2>1, FilesOfPlan DEF Record
    <2>3. /\ UNCHANGED <<state, snaps>> /\ job'[p] = [job[p] EXCEPT !.i = @ + 1]
          /\ disk' = [disk EXCEPT ![f] = job[p].rec.applied[f]]
      BY <1>7, <1>j DEF WriteFile, Put
    <2> HIDE DEF f
    <2>4. AccountedFor'
      <3>1. state' = state /\ state # None
        BY <2>1, <2>3
      <3>2. ASSUME NEW g \in Files, Managed(disk'[g]) PROVE g \in FileSet(state.plan)
        <4>1. CASE g = f
          BY <4>1, <2>2
        <4>2. CASE g # f
          BY <4>2, <3>2, <2>3, <1>j DEF AccountedFor, TypeOK
        <4> QED
          BY <4>1, <4>2
      <3> QED
        BY <3>1, <3>2 DEF AccountedFor, FileSet, Managed
    <2>5. JobSafe(p)'
      BY <2>1, <2>3, <1>j DEF JobSafe, Job
    <2> QED
      BY <1>j, <2>3, <2>4, <2>5, CleanKept, OneJob
  <1>8. CASE Activate(p)
    <2>1. /\ UNCHANGED <<disk, snaps>> /\ Finish(p)
          /\ state = job[p].rec /\ job[p].rec \in Record /\ job[p].rec # None
          /\ state' = [job[p].rec EXCEPT !.phase = "active"]
      BY <1>8, <1>j DEF Activate, JobShape, JobSafe, Job
    <2>2. state' # None /\ state'.plan = state.plan
      BY <2>1, <1>j, DistinctAssumption DEF Record
    <2>3. AccountedFor'
      BY <2>1, <2>2, <1>j DEF AccountedFor, FileSet
    <2> QED
      BY <1>j, <2>1, <2>3, FinishSafe, CleanKept, OneJob
  <1>9. CASE Disown(p)
    <2>1. UNCHANGED <<disk, state, snaps>> /\ job[p].at = "disown"
      BY <1>9 DEF Disown
    <2>2. CASE Finish(p)
      BY <1>j, <1>u, <2>1, <2>2, FinishSafe, CleanKept, OneJob
    <2>3. CASE /\ job[p].rec # None
               /\ job' = [job EXCEPT ![p].at = "undo", ![p].creds = None,
                                     ![p].i = Len(FilesOf[job[p].rec.plan])]
      <3>1. job'[p] = [job[p] EXCEPT !.at = "undo", !.creds = None,
                                     !.i = Len(FilesOf[job[p].rec.plan])]
        BY <2>3, <1>j
      <3>2. Len(FilesOf[job[p].rec.plan]) \in Nat
        BY <2>3, <1>j, FilesOfPlan DEF Job, Record
      <3>3. JobSafe(p)'
        BY <2>1, <3>1, <3>2, <1>j DEF JobSafe, Job, ClearAfter
      <3> QED
        BY <1>j, <1>u, <2>1, <3>3, CleanKept, OneJob
    <2> QED
      BY <1>9, <2>2, <2>3 DEF Disown
  <1>10. CASE Undo(p)
    <2> DEFINE plan == job[p].rec.plan
               value == snaps[job[p].snap].files[FilesOf[plan][job[p].i]]
    <2>1. /\ job[p].at = "undo" /\ state = job[p].rec /\ job[p].rec \in Record
          /\ RecordShape(job[p].rec) /\ job[p].rec.snap = job[p].snap
          /\ job[p].i \in Nat /\ job[p].i > 0 /\ job[p].i <= Len(FilesOf[plan])
          /\ ~ job[p].wrong => ClearAfter(plan, job[p].i)
      BY <1>10, <1>j DEF Undo, JobShape, JobSafe, Job
    <2>2. plan \in Plans /\ Len(FilesOf[plan]) \in Nat /\ job[p].i \in 1..Len(FilesOf[plan])
      BY <2>1, FilesOfPlan DEF Record
    <2>3. FilesOf[plan][job[p].i] \in FileSet(plan) /\ FilesOf[plan][job[p].i] \in Files
      BY <2>2, FilesOfPlan
    <2>4. ~ Managed(value)
      BY <2>1, <2>3, <1>j DEF RecordShape, Record, SafeInv, SnapsClean
    <2>5. /\ UNCHANGED <<state, snaps>> /\ job'[p] = [job[p] EXCEPT !.i = @ - 1]
          /\ disk' = [disk EXCEPT ![FilesOf[plan][job[p].i]] = value]
      BY <1>10, <1>j DEF Undo, Put
    <2> HIDE DEF value
    <2>6. \A f \in Files : Managed(disk'[f]) => Managed(disk[f])
      BY <2>4, <2>5, <1>j DEF TypeOK
    <2>7. AccountedFor'
      BY <2>5, <2>6, <1>j DEF AccountedFor, Managed, FileSet
    <2>8. ~ job[p].wrong =>
            \A j \in 1..Len(FilesOf[plan]) : j > job[p].i - 1 => ~ Managed(disk'[FilesOf[plan][j]])
      BY <2>1, <2>2, <2>4, <2>5, <1>j, OneLess
    <2>9. JobSafe(p)'
      <3>1. /\ job'[p].at = "undo" /\ job'[p].rec = job[p].rec /\ job'[p].i = job[p].i - 1
            /\ job'[p].wrong = job[p].wrong /\ job'[p].snap = job[p].snap
        BY <2>1, <2>5, <1>j DEF Job
      <3>2. ~ job'[p].wrong => ClearAfter(job[p].rec.plan, job[p].i)'
        BY <2>8, <3>1 DEF ClearAfter, Managed
      <3> QED
        BY <2>1, <2>5, <3>1, <3>2 DEF JobSafe
    <2> QED
      BY <1>j, <2>5, <2>7, <2>9, CleanKept, OneJob
  <1>11. CASE Undone(p)
    <2>1. /\ job[p].at = "undo" /\ job[p].i = 0 /\ UNCHANGED <<disk, snaps>>
          /\ state = job[p].rec /\ job[p].rec \in Record /\ job[p].rec # None
          /\ ~ job[p].wrong => ClearAfter(job[p].rec.plan, 0)
      BY <1>11, <1>j DEF Undone, JobShape, JobSafe, Job
    <2>2. CASE job[p].wrong
      <3>1. state' = [job[p].rec EXCEPT !.phase = "rollback-required"] /\ Finish(p)
        BY <1>11, <2>2 DEF Undone
      <3>2. state' # None /\ state'.plan = state.plan
        BY <2>1, <3>1, <1>j, DistinctAssumption DEF Record
      <3>3. AccountedFor'
        BY <2>1, <3>2, <1>j DEF AccountedFor, FileSet
      <3> QED
        BY <1>j, <2>1, <3>1, <3>3, FinishSafe, CleanKept, OneJob
    <2>3. CASE ~ job[p].wrong
      <3>1. UNCHANGED state /\ job'[p] = [job[p] EXCEPT !.at = "remove"]
        BY <1>11, <2>3, <1>j DEF Undone
      <3>2. NoneManaged
        BY <2>1, <2>3, <1>j, AllClear DEF Record
      <3>3. JobSafe(p)'
        BY <2>1, <3>1, <3>2, <1>j DEF JobSafe, Job, NoneManaged
      <3> QED
        BY <1>j, <1>u, <2>1, <3>1, <3>3, CleanKept, OneJob
    <2> QED
      BY <2>2, <2>3
  <1> QED
    BY <1>1, <1>2, <1>3, <1>4, <1>5, <1>6, <1>7, <1>8, <1>9, <1>10, <1>11 DEF Applying

LEMMA RestoringSafe ==
  ASSUME SafeInv, NEW p \in Procs, Alone(p), Alone(p)', Restoring(p)
  PROVE  SafeInv'
  <1> USE DEF At, Goto, budget, history
  <1>j. /\ job[p] \in Job /\ JobShape(p) /\ JobSafe(p) /\ TypeOK /\ job \in [Procs -> Job]
        /\ ShapeInv /\ AccountedFor /\ ShapeInv'
    BY RestoringShape DEF SafeInv, ShapeInv, TypeOK
  <1>u. UNCHANGED <<disk, state>> => AccountedFor'
    BY <1>j DEF AccountedFor
  <1>1. CASE Mark(p)
    <2>1. /\ UNCHANGED <<disk, snaps>> /\ job[p].at = "mark"
          /\ state = job[p].rec /\ job[p].rec \in Record /\ job[p].rec # None
          /\ state' = [job[p].rec EXCEPT !.phase = "restoring"]
          /\ job'[p] = [job[p] EXCEPT !.at = "files"]
          /\ job[p].i <= Len(FilesOf[snaps[job[p].snap].plan])
          /\ job[p].i \in Nat /\ snaps[job[p].snap] \in Snapshot
      BY <1>1, <1>j DEF Mark, JobShape, JobSafe, Job, TypeOK
    <2>2. state' # None /\ state'.plan = state.plan
      BY <2>1, <1>j, DistinctAssumption DEF Record
    <2>3. AccountedFor'
      BY <2>1, <2>2, <1>j DEF AccountedFor, FileSet
    <2>4. job[p].i = Len(FilesOf[snaps[job[p].snap].plan])
      BY <1>1, <1>j DEF Mark, JobSafe
    <2>5. ClearAfter(snaps[job[p].snap].plan, job[p].i)
      BY <2>1, <2>4, FilesOfPlan DEF ClearAfter, Snapshot
    <2>6. JobSafe(p)'
      <3>1. /\ job'[p].at = "files" /\ job'[p].rec = job[p].rec /\ job'[p].i = job[p].i
            /\ job'[p].snap = job[p].snap
        BY <2>1, <1>j DEF Job
      <3>2. ClearAfter(snaps[job[p].snap].plan, job[p].i)'
        BY <2>1, <2>5, <3>1 DEF ClearAfter, Managed
      <3>3. FileSet(job[p].rec.plan) \subseteq FileSet(snaps[job[p].snap].plan)
        BY <2>1, <1>j DEF JobSafe
      <3>4. FileSet(job[p].rec.plan)' = FileSet(job[p].rec.plan)
            /\ FileSet(snaps[job[p].snap].plan)' = FileSet(snaps[job[p].snap].plan)
        BY <2>1, <3>1 DEF FileSet
      <3> QED
        BY <2>1, <3>1, <3>2, <3>3, <3>4 DEF JobSafe
    <2> QED
      BY <1>j, <2>1, <2>3, <2>6, CleanKept, OneJob
  <1>2. CASE RestoreFile(p)
    <2> DEFINE plan == snaps[job[p].snap].plan
               value == snaps[job[p].snap].files[FilesOf[plan][job[p].i]]
    <2>1. /\ job[p].at = "files" /\ job[p].snap \in SnapIds
          /\ snaps[job[p].snap] # None /\ snaps[job[p].snap] \in Snapshot
          /\ job[p].i \in Nat /\ job[p].i > 0 /\ job[p].i <= Len(FilesOf[plan])
          /\ ClearAfter(plan, job[p].i)
      BY <1>2, <1>j DEF RestoreFile, JobShape, JobSafe, Job, TypeOK
    <2>2. plan \in Plans /\ Len(FilesOf[plan]) \in Nat /\ job[p].i \in 1..Len(FilesOf[plan])
      BY <2>1, FilesOfPlan DEF Snapshot
    <2>3. FilesOf[plan][job[p].i] \in FileSet(plan) /\ FilesOf[plan][job[p].i] \in Files
      BY <2>2, FilesOfPlan
    <2>4. ~ Managed(value)
      BY <2>1, <2>3 DEF SafeInv, SnapsClean
    <2>5. /\ UNCHANGED <<state, snaps>> /\ job'[p] = [job[p] EXCEPT !.i = @ - 1]
          /\ disk' = [disk EXCEPT ![FilesOf[plan][job[p].i]] = value]
      BY <1>2, <1>j DEF RestoreFile
    <2> HIDE DEF value
    <2>6. \A j \in 1..Len(FilesOf[plan]) : j > job[p].i - 1 => ~ Managed(disk'[FilesOf[plan][j]])
      BY <2>1, <2>2, <2>4, <2>5, <1>j, OneLess
    <2>7. AccountedFor'
      <3>1. \A f \in Files : Managed(disk'[f]) => Managed(disk[f])
        BY <2>4, <2>5, <1>j DEF TypeOK
      <3> QED
        BY <2>5, <3>1, <1>j DEF AccountedFor, Managed, FileSet
    <2>8. JobSafe(p)'
      <3>1. /\ job'[p].at = "files" /\ job'[p].rec = job[p].rec /\ job'[p].i = job[p].i - 1
            /\ job'[p].snap = job[p].snap
        BY <2>1, <2>5, <1>j DEF Job
      <3>2. ClearAfter(snaps[job[p].snap].plan, job[p].i)'
        BY <2>5, <2>6, <3>1 DEF ClearAfter, Managed
      <3> QED
        BY <2>1, <2>5, <3>1, <3>2, <1>j DEF JobSafe
    <2> QED
      BY <1>j, <2>5, <2>7, <2>8, CleanKept, OneJob
  <1>3. CASE Restored(p)
    <2>1. /\ UNCHANGED <<disk, state, snaps>> /\ job[p].at = "files" /\ job[p].i = 0
          /\ snaps[job[p].snap] \in Snapshot
          /\ ClearAfter(snaps[job[p].snap].plan, 0)
      BY <1>3, <1>j DEF Restored, JobSafe, JobShape, Job, TypeOK
    <2>2. CASE job[p].rec = None
      BY <1>3, <2>1, <2>2, <1>j, <1>u, FinishSafe, CleanKept, OneJob DEF Restored
    <2>3. CASE job[p].rec # None
      <3>1. job'[p] = [job[p] EXCEPT !.at = "revoke"]
        BY <1>3, <2>3, <1>j DEF Restored
      <3>2. NoneManaged
        BY <2>1, <1>j, AllClear DEF JobSafe, Snapshot, TypeOK, Record
      <3>3. JobSafe(p)'
        BY <2>1, <3>1, <3>2, <1>j DEF JobSafe, Job, NoneManaged
      <3> QED
        BY <1>j, <1>u, <2>1, <3>3, CleanKept, OneJob
    <2> QED
      BY <2>2, <2>3
  <1>4. CASE Forward(p)
    <2> DEFINE f == FilesOf[job[p].rec.plan][job[p].i]
    <2>1. /\ job[p].at = "forward" /\ job[p].rec \in Record /\ job[p].rec # None
          /\ state = [job[p].rec EXCEPT !.phase = "restoring"]
          /\ job[p].i \in Nat /\ job[p].i > 0 /\ ~ (job[p].i > Len(FilesOf[job[p].rec.plan]))
      BY <1>4, <1>j DEF Forward, Written, JobShape, JobSafe, Job
    <2>2. state # None /\ f \in FileSet(state.plan)
      <3>1. state \in Record /\ state.plan = job[p].rec.plan
        BY <2>1 DEF Record
      <3>2. state # None
        BY <3>1, DistinctAssumption
      <3> QED
        BY <2>1, <3>1, <3>2, FilesOfPlan DEF Record
    <2>3. /\ UNCHANGED <<state, snaps>> /\ job'[p] = [job[p] EXCEPT !.i = @ + 1]
          /\ disk' = [disk EXCEPT ![f] = job[p].rec.applied[f]]
      BY <1>4, <1>j DEF Forward, Put
    <2> HIDE DEF f
    <2>4. AccountedFor'
      <3>1. ASSUME NEW g \in Files, Managed(disk'[g]) PROVE g \in FileSet(state.plan)
        <4>1. CASE g = f
          BY <4>1, <2>2
        <4>2. CASE g # f
          BY <4>2, <3>1, <2>3, <1>j DEF AccountedFor, TypeOK
        <4> QED
          BY <4>1, <4>2
      <3> QED
        BY <2>2, <2>3, <3>1 DEF AccountedFor, FileSet, Managed
    <2>5. JobSafe(p)'
      BY <2>1, <2>3, <1>j DEF JobSafe, Job
    <2> QED
      BY <1>j, <2>3, <2>4, <2>5, CleanKept, OneJob
  <1>5. CASE Forwarded(p)
    <2> DEFINE phase == IF job[p].wrong THEN "rollback-required" ELSE "active"
    <2>1. /\ UNCHANGED <<disk, snaps>> /\ Finish(p)
          /\ job[p].rec \in Record /\ job[p].rec # None
          /\ state = [job[p].rec EXCEPT !.phase = "restoring"]
          /\ state' = [job[p].rec EXCEPT !.phase = phase]
      BY <1>5, <1>j DEF Forwarded, JobShape, JobSafe, Job
    <2> HIDE DEF phase
    <2>2. state'.plan = state.plan /\ state' # None
      <3>1. state'.plan = state.plan
        BY <2>1 DEF Record
      <3>2. state' \in Record \cup {None} /\ state'.applied = job[p].rec.applied
        BY <2>1, <1>j DEF ShapeInv, TypeOK, Record
      <3>3. phase \in {"rollback-required", "active"}
        BY DEF phase
      <3>4. state' \in Record
        BY <2>1, <3>3 DEF Record
      <3> QED
        BY <3>1, <3>4, DistinctAssumption
    <2>3. AccountedFor'
      BY <2>1, <2>2, <1>j DEF AccountedFor, FileSet
    <2> QED
      BY <1>j, <2>1, <2>3, FinishSafe, CleanKept, OneJob
  <1>6. CASE Revoke(p)
    <2>1. UNCHANGED <<disk, state, snaps>> /\ NoneManaged
          /\ job'[p] = [job[p] EXCEPT !.at = "remove", !.creds = None]
      BY <1>6, <1>j DEF Revoke, JobSafe
    <2>2. JobSafe(p)'
      BY <2>1, <1>j DEF JobSafe, Job, NoneManaged
    <2> QED
      BY <1>j, <1>u, <2>1, <2>2, CleanKept, OneJob
  <1>7. CASE Remove(p)
    <2>1. UNCHANGED <<disk, snaps>> /\ NoneManaged /\ Finish(p)
      BY <1>7, <1>j DEF Remove, JobSafe
    <2>2. AccountedFor'
      BY <2>1 DEF AccountedFor, NoneManaged
    <2> QED
      BY <1>j, <2>1, <2>2, FinishSafe, CleanKept, OneJob
  <1> QED
    BY <1>1, <1>2, <1>3, <1>4, <1>5, <1>6, <1>7 DEF Restoring

LEMMA FailingSafe ==
  ASSUME SafeInv, NEW p \in Procs, Alone(p), Alone(p)', Failing(p)
  PROVE  SafeInv'
  <1> USE DEF At, Goto, budget, history
  <1>j. /\ job[p] \in Job /\ JobShape(p) /\ JobSafe(p) /\ TypeOK /\ job \in [Procs -> Job]
        /\ ShapeInv /\ AccountedFor /\ ShapeInv'
    BY FailingShape DEF SafeInv, ShapeInv, TypeOK
  <1>u. UNCHANGED <<disk, state>> => AccountedFor'
    BY <1>j DEF AccountedFor
  <1>1. CASE IntendFails(p) \/ WriteFails(p)
    <2>1. /\ UNCHANGED <<disk, state, snaps>> /\ job[p].at \in {"intend", "write"}
          /\ job'[p] = [job[p] EXCEPT !.at = "disown"]
      BY <1>1, <1>j DEF IntendFails, WriteFails
    <2>2. JobSafe(p)'
      BY <2>1, <1>j DEF JobSafe, JobShape, Job
    <2> QED
      BY <1>j, <1>u, <2>1, <2>2, CleanKept, OneJob
  <1>2. CASE UndoFails(p)
    <2>1. /\ UNCHANGED <<disk, state, snaps>> /\ job[p].at = "undo"
          /\ job'[p] = [job[p] EXCEPT !.i = @ - 1, !.wrong = TRUE]
      BY <1>2, <1>j DEF UndoFails
    <2>2. JobSafe(p)'
      BY <2>1, <1>j DEF JobSafe, Job
    <2> QED
      BY <1>j, <1>u, <2>1, <2>2, CleanKept, OneJob
  <1>3. CASE RestoreFails(p)
    <2>1. UNCHANGED <<disk, state, snaps>> /\ job[p].at = "files"
      BY <1>3 DEF RestoreFails
    <2>2. CASE job[p].rec = None
      BY <1>3, <2>1, <2>2, <1>j, <1>u, FinishSafe, CleanKept, OneJob DEF RestoreFails
    <2>3. CASE job[p].rec # None
      <3>1. job'[p] = [job[p] EXCEPT !.at = "forward", !.i = 1]
        BY <1>3, <2>3, <1>j DEF RestoreFails
      <3>2. JobSafe(p)'
        BY <2>1, <3>1, <1>j DEF JobSafe, Job
      <3> QED
        BY <1>j, <1>u, <2>1, <3>2, CleanKept, OneJob
    <2> QED
      BY <2>2, <2>3
  <1>4. CASE ForwardFails(p)
    <2>1. /\ UNCHANGED <<disk, state, snaps>> /\ job[p].at = "forward"
          /\ job'[p] = [job[p] EXCEPT !.i = @ + 1, !.wrong = TRUE]
      BY <1>4, <1>j DEF ForwardFails
    <2>2. JobSafe(p)'
      BY <2>1, <1>j DEF JobSafe, Job
    <2> QED
      BY <1>j, <1>u, <2>1, <2>2, CleanKept, OneJob
  <1>5. CASE Quit(p)
    BY <1>5, <1>j, <1>u, FinishSafe, CleanKept, OneJob DEF Quit
  <1>6. CASE MisreadCreds(p)
    <2>1. /\ UNCHANGED <<disk, state, snaps>> /\ job[p].at \in {"issue", "disown", "revoke"}
          /\ job'[p] = [job[p] EXCEPT !.creds = NoCreds]
      BY <1>6, <1>j DEF MisreadCreds, Loading
    <2>2. JobSafe(p)'
      BY <2>1, <1>j DEF JobSafe, Job, NoneManaged
    <2> QED
      BY <1>j, <1>u, <2>1, <2>2, CleanKept, OneJob
  <1> QED
    BY <1>1, <1>2, <1>3, <1>4, <1>5, <1>6 DEF Failing

LEMMA StartSafe ==
  ASSUME SafeInv, NEW p \in Procs, Alone(p), Alone(p)', ~ insisted',
         \/ \E s \in SnapIds \cup {None} : StartApply(p, s)
         \/ \E s \in SnapIds, force \in BOOLEAN : StartRestore(p, s, force)
  PROVE  SafeInv'
  <1>j. /\ job \in [Procs -> Job] /\ ShapeInv /\ AccountedFor /\ TypeOK
        /\ ShapeInv'
    BY StartApplyShape, StartRestoreShape DEF SafeInv, ShapeInv, TypeOK
  <1>1. UNCHANGED <<disk, state, snaps>>
    BY DEF StartApply, StartRestore
  <1>2. AccountedFor'
    BY <1>1, <1>j DEF AccountedFor
  <1>3. CASE \E s \in SnapIds \cup {None} : StartApply(p, s)
    <2>1. PICK s \in SnapIds \cup {None} : StartApply(p, s)
      BY <1>3
    <2>2. job'[p].at \in {"capture", "check"} /\ state = None
      BY <2>1, <1>j DEF StartApply, Idle
    <2>3. JobSafe(p)'
      BY <1>1, <2>2 DEF JobSafe
    <2> QED
      BY <1>j, <1>1, <1>2, <2>3, CleanKept, OneJob
  <1>4. CASE \E s \in SnapIds, force \in BOOLEAN : StartRestore(p, s, force)
    <2>1. PICK s \in SnapIds, force \in BOOLEAN : StartRestore(p, s, force)
      BY <1>4
    <2>2. /\ job'[p].at = IF state = None THEN "files" ELSE "mark"
          /\ job'[p].rec = state /\ job'[p].snap = s
          /\ job'[p].i = Len(FilesOf[snaps[s].plan])
      BY <2>1, <1>j DEF StartRestore, Idle
    <2>3. Len(FilesOf[snaps[s].plan]) \in Nat
      BY <2>1, <1>j, FilesOfPlan DEF StartRestore, TypeOK, Snapshot
    <2>c. state # None => FileSet(state.plan) \subseteq FileSet(snaps[s].plan)
      <3>1. Covers(s) /\ snaps[s] # None
        BY <2>1 DEF StartRestore
      <3> QED
        BY <3>1, <1>j DEF Covers, ShapeInv, StateShape, SnapShape, RecordShape, Fits
    <2>4. job'[p].rec # None => FileSet(job[p].rec.plan)' \subseteq FileSet(snaps[job[p].snap].plan)'
      <3>1. /\ FileSet(job[p].rec.plan)' = FileSet(state.plan)
            /\ FileSet(snaps[job[p].snap].plan)' = FileSet(snaps[s].plan)
        BY <1>1, <2>2 DEF FileSet
      <3> QED
        BY <2>2, <2>c, <3>1
    <2>5. ClearAfter(snaps[job[p].snap].plan, job[p].i)'
      BY <1>1, <2>2, <2>3 DEF ClearAfter
    <2>6. JobSafe(p)'
      BY <1>1, <2>2, <2>4, <2>5 DEF JobSafe
    <2> QED
      BY <1>j, <1>1, <1>2, <2>6, CleanKept, OneJob
  <1> QED
    BY <1>3, <1>4

LEMMA TakeSnapshotSafe ==
  ASSUME SafeInv, ~ insisted', NEW s \in SnapIds, NEW force \in BOOLEAN, TakeSnapshot(s, force)
  PROVE  SafeInv'
  <1>1. /\ state = None /\ snaps[s] = None
        /\ snaps' = [snaps EXCEPT ![s] = Picture]
        /\ UNCHANGED <<disk, state, job>> /\ ShapeInv'
    BY TakeSnapshotShape DEF TakeSnapshot, SafeInv
  <1>2. SnapsClean'
    BY <1>1, NewSnapClean
  <1>3. AccountedFor'
    BY <1>1 DEF SafeInv, AccountedFor
  <1>4. ASSUME NEW p \in Procs PROVE JobSafe(p)'
    <2>1. /\ JobSafe(p) /\ JobShape(p) /\ job[p] \in Job
          /\ job'[p] = job[p] /\ state' = state /\ disk' = disk
      BY <1>1 DEF SafeInv, ShapeInv, TypeOK
    <2>2. job[p].at \in {"mark", "files"} => snaps'[job[p].snap] = snaps[job[p].snap]
      BY <1>1, <2>1 DEF JobShape, Job, SafeInv, ShapeInv, TypeOK
    <2> QED
      BY <2>1, <2>2 DEF JobSafe, ClearAfter, NoneManaged, Managed
  <1> QED
    BY <1>1, <1>2, <1>3, <1>4 DEF SafeInv

\* Nobody but CPR makes a file point at CPR.
LEMMA EnvironmentSafe ==
  ASSUME SafeInv, Environment
  PROVE  SafeInv'
  <1>j. job \in [Procs -> Job] /\ disk \in [Files -> Value] /\ ShapeInv'
    BY EnvironmentShape DEF SafeInv, ShapeInv, TypeOK
  <1>1. /\ UNCHANGED <<state, snaps>>
        /\ \A f \in Files : Managed(disk'[f]) => Managed(disk[f])
        /\ \A p \in Procs : \E t : job'[p] = [job[p] EXCEPT !.touched = t]
    <2>s. \A p \in Procs : job[p] = [job[p] EXCEPT !.touched = job[p].touched]
      BY <1>j DEF Job
    <2>1. ASSUME NEW f \in Files, NEW value \in Rewritings(f), Edit(f, value)
          PROVE  /\ \A g \in Files : Managed(disk'[g]) => Managed(disk[g])
                 /\ \A p \in Procs : \E t : job'[p] = [job[p] EXCEPT !.touched = t]
                 /\ UNCHANGED <<state, snaps>>
      <3>1. Managed(value) => Managed(disk[f])
        <4>1. CASE value \in Natives(f)
          BY <4>1 DEF Natives, Absent, Managed
        <4>2. CASE \E t \in TextsOf[f] : value = [disk[f] EXCEPT !.text = t]
          BY <4>2, <1>j DEF Managed, Value
        <4> QED
          BY <2>1, <4>1, <4>2 DEF Rewritings
      <3>2. disk' = [disk EXCEPT ![f] = value]
        BY <2>1 DEF Edit
      <3>3. \A p \in Procs : \E t : job'[p] = [job[p] EXCEPT !.touched = t]
        BY <2>1, <2>s, <1>j DEF Edit
      <3> QED
        BY <2>1, <3>1, <3>2, <3>3, <1>j DEF Edit
    <2>2. ASSUME NEW plan \in Plans, EditProfile(plan) PROVE UNCHANGED <<disk, state, snaps, job>>
      BY <2>2 DEF EditProfile
    <2>3. ASSUME NEW c \in CredIds, Expire(c) PROVE UNCHANGED <<disk, state, snaps, job>>
      BY <2>3 DEF Expire
    <2> QED
      BY <2>s, <2>1, <2>2, <2>3 DEF Environment
  <1>2. AccountedFor'
    BY <1>1 DEF SafeInv, AccountedFor, FileSet, Managed
  <1>3. ASSUME NEW p \in Procs PROVE JobSafe(p)'
    <2>1. PICK t : job'[p] = [job[p] EXCEPT !.touched = t]
      BY <1>1
    <2>2. /\ job'[p].at = job[p].at /\ job'[p].rec = job[p].rec /\ job'[p].i = job[p].i
          /\ job'[p].snap = job[p].snap /\ job'[p].wrong = job[p].wrong
          /\ job[p] \in Job /\ JobShape(p) /\ JobSafe(p)
      BY <2>1, <1>j DEF Job, SafeInv, ShapeInv
    <2>3. /\ NoneManaged => NoneManaged'
          /\ \A plan \in Plans, i \in Nat :
               ClearAfter(plan, i) =>
                 \A k \in 1..Len(FilesOf[plan]) : k > i => ~ Managed(disk'[FilesOf[plan][k]])
      <3>1. \A plan \in Plans : \A k \in 1..Len(FilesOf[plan]) : FilesOf[plan][k] \in Files
        BY FilesOfPlan
      <3> QED
        BY <1>1, <3>1 DEF NoneManaged, ClearAfter
    <2>4. job[p].at = "undo" => job[p].rec.plan \in Plans
      BY <2>2 DEF Job, JobShape, Record
    <2>5. job[p].at = "files" => snaps[job[p].snap].plan \in Plans
      BY <2>2 DEF Job, JobShape, SafeInv, ShapeInv, TypeOK, Snapshot
    <2>6. job[p].i \in Nat
      BY <2>2 DEF Job
    <2>7. job[p].at = "undo" /\ ~ job[p].wrong => ClearAfter(job[p].rec.plan, job[p].i)'
      BY <2>2, <2>3, <2>4, <2>6 DEF JobSafe, ClearAfter, Managed
    <2>8. job[p].at = "files" => ClearAfter(snaps[job[p].snap].plan, job[p].i)'
      <3> SUFFICES ASSUME job[p].at = "files"
                   PROVE  ClearAfter(snaps[job[p].snap].plan, job[p].i)'
        OBVIOUS
      <3>1. ClearAfter(snaps[job[p].snap].plan, job[p].i)
        BY <2>2 DEF JobSafe
      <3>2. \A k \in 1..Len(FilesOf[snaps[job[p].snap].plan]) :
              k > job[p].i => ~ Managed(disk'[FilesOf[snaps[job[p].snap].plan][k]])
        BY <2>3, <2>5, <2>6, <3>1
      <3>3. snaps'[job'[p].snap].plan = snaps[job[p].snap].plan /\ job'[p].i = job[p].i
        BY <1>1, <2>2
      <3> QED
        BY <3>2, <3>3 DEF ClearAfter, Managed
    <2> QED
      BY <1>1, <2>2, <2>3, <2>7, <2>8 DEF JobSafe
  <1> QED
    BY <1>1, <1>2, <1>3, <1>j, CleanKept DEF SafeInv

LEMMA SafeStep ==
  ASSUME SafeInv, Apart, [Next]_vars, ~ overlapped', ~ insisted'
  PROVE  SafeInv'
  <1>1. CASE Next
    <2>1. ASSUME NEW p \in Procs, Acts(p) PROVE SafeInv'
      BY <2>1, LoneStep, ApplyingSafe, RestoringSafe, FailingSafe DEF Acts, SafeInv
    <2>2. ASSUME NEW p \in Procs, Starts(p) PROVE SafeInv'
      BY <2>2, LoneStep, StartSafe DEF Starts, SafeInv
    <2>3. ASSUME NEW s \in SnapIds, NEW force \in BOOLEAN, TakeSnapshot(s, force) PROVE SafeInv'
      BY <2>3, TakeSnapshotSafe
    <2> QED
      BY <1>1, <2>1, <2>2, <2>3, EnvironmentSafe DEF Next, Acts, Starts
  <1>2. CASE UNCHANGED vars
    <2>1. UNCHANGED <<disk, state, snaps, job>>
      BY <1>2 DEF vars
    <2>2. ShapeInv'
      BY <1>2, ShapeStep DEF SafeInv
    <2> QED
      BY <2>1, <2>2 DEF SafeInv, AccountedFor, SnapsClean, JobSafe, ClearAfter, NoneManaged, Managed
  <1> QED
    BY <1>1, <1>2

LEMMA SafeMeansRecoverable == SafeInv => Recoverable
  <1> SUFFICES ASSUME SafeInv, NEW f \in Files, Managed(disk[f])
               PROVE  /\ state # None
                      /\ f \in DOMAIN state.applied
                      /\ ~ Managed(snaps[state.snap].files[f])
    BY DEF Recoverable
  <1>1. state # None /\ f \in FileSet(state.plan)
    BY DEF SafeInv, AccountedFor
  <1>2. RecordShape(state) /\ state \in Record
    BY <1>1 DEF SafeInv, ShapeInv, StateShape, TypeOK
  <1> QED
    BY <1>1, <1>2 DEF RecordShape, Fits, Record, SafeInv, SnapsClean

UntilInsisted == ShapeInv /\ Apart /\ (overlapped \/ insisted \/ SafeInv)

\* Whatever fails or dies, a native file that points at CPR is accounted for
\* by a takeover whose snapshot can undo it: for any number of processes, until
\* two run commands at the same time, and for any profiles, until force leaves
\* a file behind.
THEOREM DirectRecoverable == Spec => []Recoverable
  <1>1. Init => UntilInsisted
    BY ShapeInit, ApartInit, SafeInit DEF UntilInsisted
  <1>2. UntilInsisted /\ [Next]_vars => UntilInsisted'
    BY ShapeStep, ApartStep, SafeStep DEF UntilInsisted
  <1>3. UntilInsisted => Recoverable
    BY SafeMeansRecoverable DEF UntilInsisted, Recoverable
  <1> QED
    BY <1>1, <1>2, <1>3, PTL DEF Spec

-----------------------------------------------------------------------------
(* An active takeover is complete                                          *)

\* The files a command has come past are as its record wants them.
Settled(applied, f) == disk[f] = applied[f] \/ f \in edited
Progress(p) ==
  \A j \in 1..(job[p].i - 1) : Settled(job[p].rec.applied, FilesOf[job[p].rec.plan][j])

AllApplied ==
  state # None /\ state.phase = "active" =>
    \A f \in DOMAIN state.applied : disk[f] = state.applied[f] \/ f \in edited

\* Whoever has begun to write has taken the word "active" from the record
\* first, and gives it back only after the last file.
Midway(p) ==
  /\ job[p].at \notin {"idle", "mark"} => state = None \/ state.phase # "active"
  /\ job[p].at = "write" \/ (job[p].at = "forward" /\ ~ job[p].wrong) => Progress(p)

ActiveInv == ShapeInv /\ AllApplied /\ \A p \in Procs : Midway(p)

LEMMA ActiveInit == Init => ActiveInv
  <1> SUFFICES ASSUME Init PROVE ActiveInv
    OBVIOUS
  <1>1. \A p \in Procs : Midway(p)
    BY IdleJob DEF Init, Midway
  <1> QED
    BY <1>1, ShapeInit DEF Init, ActiveInv, AllApplied

LEMMA OneMidway ==
  ASSUME NEW p \in Procs, Alone(p)', ShapeInv', AllApplied', Midway(p)'
  PROVE  ActiveInv'
  BY IdleJob DEF ActiveInv, Alone, Midway

LEMMA FinishMidway ==
  ASSUME ShapeInv, NEW p \in Procs, Finish(p)
  PROVE  Midway(p)'
  <1>1. job'[p] = Idle
    BY DEF Finish, ShapeInv, TypeOK
  <1> QED
    BY <1>1, IdleJob DEF Midway

\* One more file is as the record wants it.
LEMMA OneMore ==
  ASSUME ShapeInv, NEW p \in Procs, job[p].at \in {"write", "forward"}, ~ Written(p), Progress(p),
         Put(FilesOf[job[p].rec.plan][job[p].i], job[p].rec.applied[FilesOf[job[p].rec.plan][job[p].i]]),
         job' = [job EXCEPT ![p].i = @ + 1]
  PROVE  Progress(p)'
  <1> DEFINE plan == job[p].rec.plan
             i == job[p].i
             applied == job[p].rec.applied
  <1>1. /\ job[p] \in Job /\ job[p].rec \in Record /\ i \in Nat /\ i > 0
        /\ disk \in [Files -> Value] /\ job \in [Procs -> Job]
    BY DEF ShapeInv, TypeOK, JobShape, Job
  <1>2. plan \in Plans
    BY <1>1 DEF Record
  <1>3. \A j \in 1..i : FilesOf[plan][j] \in Files
    BY <1>1, <1>2, FilesOfPlan DEF Written
  <1>4. job'[p].rec = job[p].rec /\ job'[p].i = i + 1
    BY <1>1 DEF Job
  <1>5. /\ disk' = [disk EXCEPT ![FilesOf[plan][i]] = applied[FilesOf[plan][i]]]
        /\ edited' = edited \ {FilesOf[plan][i]}
    BY DEF Put
  <1>6. \A j \in 1..(i - 1) : Settled(applied, FilesOf[plan][j])
    BY Zenon DEF Progress
  <1> HIDE DEF plan, i, applied
  <1>7. ASSUME NEW j \in 1..i
        PROVE  disk'[FilesOf[plan][j]] = applied[FilesOf[plan][j]] \/ FilesOf[plan][j] \in edited'
    <2>1. CASE FilesOf[plan][j] = FilesOf[plan][i]
      BY <1>1, <1>3, <1>5, <2>1
    <2>2. CASE FilesOf[plan][j] # FilesOf[plan][i]
      <3>1. j \in 1..(i - 1)
        BY <1>1, <2>2
      <3> QED
        BY <1>1, <1>3, <1>5, <1>6, <2>2, <3>1 DEF Settled
    <2> QED
      BY <2>1, <2>2
  <1>8. 1..(job'[p].i - 1) = 1..i
    BY <1>1, <1>4
  <1>9. job'[p].rec.applied = applied /\ job'[p].rec.plan = plan
    BY <1>4 DEF plan, applied
  <1> QED
    BY <1>7, <1>8, <1>9, Zenon DEF Progress, Settled

\* After the last file the record may say "active".
LEMMA AllWritten ==
  ASSUME ShapeInv, NEW p \in Procs, job[p].at \in {"write", "forward"}, Written(p), Progress(p),
         UNCHANGED <<disk, edited>>, state' = [job[p].rec EXCEPT !.phase = "active"]
  PROVE  AllApplied'
  <1>1. /\ job[p] \in Job /\ job[p].rec \in Record /\ RecordShape(job[p].rec) /\ job[p].i \in Nat
    BY DEF ShapeInv, TypeOK, JobShape, Job
  <1>2. job[p].rec.plan \in Plans /\ DOMAIN job[p].rec.applied = FileSet(job[p].rec.plan)
    BY <1>1 DEF Record, RecordShape, Fits
  <1>3. state'.applied = job[p].rec.applied
    BY <1>1 DEF Record
  <1>4. ASSUME NEW f \in FileSet(job[p].rec.plan)
        PROVE  disk[f] = job[p].rec.applied[f] \/ f \in edited
    <2>1. PICK j \in DOMAIN FilesOf[job[p].rec.plan] : f = FilesOf[job[p].rec.plan][j]
      BY DEF FileSet
    <2>2. j \in 1..(job[p].i - 1)
      BY <1>1, <1>2, <2>1, FilesOfPlan DEF Written
    <2> QED
      BY <2>1, <2>2 DEF Progress, Settled
  <1> QED
    BY <1>2, <1>3, <1>4 DEF AllApplied

LEMMA ApplyingComplete ==
  ASSUME ActiveInv, NEW p \in Procs, Alone(p), Alone(p)', Applying(p)
  PROVE  ActiveInv'
  <1> USE DEF At, Goto, budget, history
  <1>j. /\ job[p] \in Job /\ JobShape(p) /\ Midway(p) /\ TypeOK /\ job \in [Procs -> Job]
        /\ ShapeInv /\ AllApplied /\ ShapeInv'
    BY ApplyingShape DEF ActiveInv, ShapeInv, TypeOK
  <1>u. UNCHANGED <<disk, state, edited>> => AllApplied'
    BY <1>j DEF AllApplied
  <1>v. UNCHANGED state /\ job[p].at \notin {"idle", "mark"} => AllApplied'
    BY <1>j DEF AllApplied, Midway
  <1>f. UNCHANGED <<disk, state, edited>> /\ Finish(p) => ActiveInv'
    BY <1>j, <1>u, FinishMidway, OneMidway
  <1>1. ASSUME NEW s \in SnapIds, Capture(p, s) PROVE ActiveInv'
    <2>1. UNCHANGED <<disk, state, edited>> /\ job[p].at = "capture"
      BY <1>1 DEF Capture
    <2>2. CASE Finish(p)
      BY <1>f, <2>1, <2>2
    <2>3. CASE job' = [job EXCEPT ![p].snap = s, ![p].at = "check"]
      <3>1. job'[p] = [job[p] EXCEPT !.snap = s, !.at = "check"]
        BY <2>3, <1>j
      <3>2. Midway(p)'
        BY <2>1, <3>1, <1>j DEF Midway, Job
      <3> QED
        BY <1>j, <1>u, <2>1, <3>2, OneMidway
    <2> QED
      BY <1>1, <2>2, <2>3 DEF Capture
  <1>2. CASE Check(p)
    <2>1. UNCHANGED <<disk, state, edited>> /\ job[p].at = "check"
      BY <1>2 DEF Check
    <2>2. CASE Finish(p)
      BY <1>f, <2>1, <2>2
    <2>3. CASE job' = [job EXCEPT ![p].at = "issue"]
      <3>1. Midway(p)'
        BY <2>1, <2>3, <1>j DEF Midway, Job
      <3> QED
        BY <1>j, <1>u, <2>1, <3>1, OneMidway
    <2> QED
      BY <1>2, <2>2, <2>3 DEF Check
  <1>3. CASE LoadCreds(p)
    <2>1. UNCHANGED <<disk, state, edited>> /\ job'[p] = [job[p] EXCEPT !.creds = creds]
          /\ job[p].at \in {"issue", "disown", "revoke"}
      BY <1>3, <1>j DEF LoadCreds, Loading
    <2>2. Midway(p)'
      BY <2>1, <1>j DEF Midway, Job
    <2> QED
      BY <1>j, <1>u, <2>1, <2>2, OneMidway
  <1>4. ASSUME NEW c \in CredIds, Issue(p, c) PROVE ActiveInv'
    <2>1. UNCHANGED <<disk, state, edited>> /\ job[p].at = "issue"
          /\ job'[p] = [job[p] EXCEPT !.at = "intend", !.cred = c, !.creds = None]
      BY <1>4, <1>j DEF Issue
    <2>2. Midway(p)'
      BY <2>1, <1>j DEF Midway, Job
    <2> QED
      BY <1>j, <1>u, <2>1, <2>2, OneMidway
  <1>5. CASE BuildFails(p)
    BY <1>5, <1>f DEF BuildFails
  <1>6. CASE Intend(p)
    <2> DEFINE rec == [phase |-> "applying", plan |-> job[p].plan, snap |-> job[p].snap,
                       cred |-> job[p].cred, applied |-> Content(job[p].plan, job[p].cred)]
    <2>1. /\ state' = rec /\ job'[p] = [job[p] EXCEPT !.at = "write", !.rec = rec, !.i = 1]
      BY <1>6, <1>j DEF Intend
    <2>2. state'.phase = "applying"
      BY <2>1
    <2> HIDE DEF rec
    <2>3. job'[p].at = "write" /\ 1..(job'[p].i - 1) = {}
      BY <2>1, <1>j DEF Job
    <2>4. AllApplied' /\ Midway(p)'
      BY <2>2, <2>3 DEF AllApplied, Midway, Progress
    <2> QED
      BY <1>j, <2>4, OneMidway
  <1>7. CASE WriteFile(p)
    <2>1. UNCHANGED state /\ job[p].at = "write" /\ job'[p].at = "write"
      BY <1>7, <1>j DEF WriteFile, Job
    <2>2. /\ Put(FilesOf[job[p].rec.plan][job[p].i],
                job[p].rec.applied[FilesOf[job[p].rec.plan][job[p].i]])
          /\ job' = [job EXCEPT ![p].i = @ + 1] /\ ~ Written(p)
      BY <1>7, Zenon DEF WriteFile
    <2>3. Progress(p)'
      <3>1. job[p].at \in {"write", "forward"} /\ Progress(p)
        BY <2>1, <1>j DEF Midway
      <3> QED
        BY <2>2, <3>1, <1>j, OneMore, Zenon
    <2>4. Midway(p)'
      BY <2>1, <2>3, <1>j DEF Midway
    <2> QED
      BY <1>j, <1>v, <2>1, <2>4, OneMidway
  <1>8. CASE Activate(p)
    <2>1. AllApplied'
      BY <1>8, <1>j, AllWritten DEF Activate, Midway
    <2> QED
      BY <1>8, <1>j, <2>1, FinishMidway, OneMidway DEF Activate
  <1>9. CASE Disown(p)
    <2>1. UNCHANGED <<disk, state, edited>> /\ job[p].at = "disown"
      BY <1>9 DEF Disown
    <2>2. CASE Finish(p)
      BY <1>f, <2>1, <2>2
    <2>3. CASE job' = [job EXCEPT ![p].at = "undo", ![p].creds = None,
                                  ![p].i = Len(FilesOf[job[p].rec.plan])]
      <3>1. job'[p] = [job[p] EXCEPT !.at = "undo", !.creds = None,
                                     !.i = Len(FilesOf[job[p].rec.plan])]
        BY <2>3, <1>j
      <3>2. Midway(p)'
        BY <2>1, <3>1, <1>j DEF Midway, Job
      <3> QED
        BY <1>j, <1>u, <2>1, <3>2, OneMidway
    <2> QED
      BY <1>9, <2>2, <2>3 DEF Disown
  <1>10. CASE Undo(p)
    <2>1. UNCHANGED state /\ job[p].at = "undo" /\ job'[p].at = "undo"
      BY <1>10, <1>j DEF Undo, Job
    <2>2. Midway(p)'
      BY <2>1, <1>j DEF Midway
    <2> QED
      BY <1>j, <1>v, <2>1, <2>2, OneMidway
  <1>11. CASE Undone(p)
    <2>1. /\ UNCHANGED <<disk, edited>> /\ job[p].at = "undo" /\ job[p].rec \in Record
      BY <1>11, <1>j DEF Undone, JobShape, Job
    <2>2. CASE job[p].wrong
      <3>1. state' = [job[p].rec EXCEPT !.phase = "rollback-required"] /\ Finish(p)
        BY <1>11, <2>2 DEF Undone
      <3>2. AllApplied'
        BY <2>1, <3>1 DEF AllApplied, Record
      <3> QED
        BY <1>j, <3>1, <3>2, FinishMidway, OneMidway
    <2>3. CASE ~ job[p].wrong
      <3>1. UNCHANGED state /\ job'[p].at = "remove"
        BY <1>11, <2>3, <1>j DEF Undone, Job
      <3>2. Midway(p)'
        BY <2>1, <3>1, <1>j DEF Midway
      <3> QED
        BY <1>j, <1>u, <2>1, <3>1, <3>2, OneMidway
    <2> QED
      BY <2>2, <2>3
  <1> QED
    BY <1>1, <1>2, <1>3, <1>4, <1>5, <1>6, <1>7, <1>8, <1>9, <1>10, <1>11 DEF Applying

LEMMA RestoringComplete ==
  ASSUME ActiveInv, NEW p \in Procs, Alone(p), Alone(p)', Restoring(p)
  PROVE  ActiveInv'
  <1> USE DEF At, Goto, budget, history
  <1>j. /\ job[p] \in Job /\ JobShape(p) /\ Midway(p) /\ TypeOK /\ job \in [Procs -> Job]
        /\ ShapeInv /\ AllApplied /\ ShapeInv'
    BY RestoringShape DEF ActiveInv, ShapeInv, TypeOK
  <1>u. UNCHANGED <<disk, state, edited>> => AllApplied'
    BY <1>j DEF AllApplied
  <1>v. UNCHANGED state /\ job[p].at \notin {"idle", "mark"} => AllApplied'
    BY <1>j DEF AllApplied, Midway
  <1>f. UNCHANGED <<disk, state, edited>> /\ Finish(p) => ActiveInv'
    BY <1>j, <1>u, FinishMidway, OneMidway
  <1>1. CASE Mark(p)
    <2>1. /\ job[p].rec \in Record /\ state' = [job[p].rec EXCEPT !.phase = "restoring"]
          /\ job'[p].at = "files"
      BY <1>1, <1>j DEF Mark, JobShape, Job
    <2>2. state'.phase = "restoring"
      BY <2>1 DEF Record
    <2>3. AllApplied' /\ Midway(p)'
      BY <2>1, <2>2 DEF AllApplied, Midway
    <2> QED
      BY <1>j, <2>3, OneMidway
  <1>2. CASE RestoreFile(p)
    <2>1. UNCHANGED state /\ job[p].at = "files" /\ job'[p].at = "files"
      BY <1>2, <1>j DEF RestoreFile, Job
    <2>2. Midway(p)'
      BY <2>1, <1>j DEF Midway
    <2> QED
      BY <1>j, <1>v, <2>1, <2>2, OneMidway
  <1>3. CASE Restored(p)
    <2>1. UNCHANGED <<disk, state, edited>> /\ job[p].at = "files"
      BY <1>3 DEF Restored
    <2>2. CASE Finish(p)
      BY <1>f, <2>1, <2>2
    <2>3. CASE job' = [job EXCEPT ![p].at = "revoke"]
      <3>1. Midway(p)'
        BY <2>1, <2>3, <1>j DEF Midway, Job
      <3> QED
        BY <1>j, <1>u, <2>1, <3>1, OneMidway
    <2> QED
      BY <1>3, <2>2, <2>3 DEF Restored
  <1>4. CASE Forward(p)
    <2>1. /\ UNCHANGED state /\ job[p].at = "forward"
          /\ job'[p].at = "forward" /\ job'[p].wrong = job[p].wrong
      BY <1>4, <1>j DEF Forward, Job
    <2>2. /\ Put(FilesOf[job[p].rec.plan][job[p].i],
                job[p].rec.applied[FilesOf[job[p].rec.plan][job[p].i]])
          /\ job' = [job EXCEPT ![p].i = @ + 1] /\ ~ Written(p)
      BY <1>4, Zenon DEF Forward
    <2>3. ASSUME ~ job[p].wrong PROVE Progress(p)'
      <3>1. job[p].at \in {"write", "forward"} /\ Progress(p)
        BY <2>1, <2>3, <1>j DEF Midway
      <3> QED
        BY <2>2, <3>1, <1>j, OneMore, Zenon
    <2>4. Midway(p)'
      BY <2>1, <2>3, <1>j DEF Midway
    <2> QED
      BY <1>j, <1>v, <2>1, <2>4, OneMidway
  <1>5. CASE Forwarded(p)
    <2>1. AllApplied'
      <3>1. CASE job[p].wrong
        <4>1. state' = [job[p].rec EXCEPT !.phase = "rollback-required"] /\ job[p].rec \in Record
          BY <1>5, <3>1, <1>j DEF Forwarded, JobShape, Job
        <4> QED
          BY <4>1 DEF AllApplied, Record
      <3>2. CASE ~ job[p].wrong
        BY <1>5, <3>2, <1>j, AllWritten DEF Forwarded, Midway
      <3> QED
        BY <3>1, <3>2
    <2> QED
      BY <1>5, <1>j, <2>1, FinishMidway, OneMidway DEF Forwarded
  <1>6. CASE Revoke(p)
    <2>1. UNCHANGED <<disk, state, edited>> /\ job[p].at = "revoke"
          /\ job'[p] = [job[p] EXCEPT !.at = "remove", !.creds = None]
      BY <1>6, <1>j DEF Revoke
    <2>2. Midway(p)'
      BY <2>1, <1>j DEF Midway, Job
    <2> QED
      BY <1>j, <1>u, <2>1, <2>2, OneMidway
  <1>7. CASE Remove(p)
    <2>1. AllApplied'
      BY <1>7 DEF Remove, AllApplied
    <2> QED
      BY <1>7, <1>j, <2>1, FinishMidway, OneMidway DEF Remove
  <1> QED
    BY <1>1, <1>2, <1>3, <1>4, <1>5, <1>6, <1>7 DEF Restoring

LEMMA FailingComplete ==
  ASSUME ActiveInv, NEW p \in Procs, Alone(p), Alone(p)', Failing(p)
  PROVE  ActiveInv'
  <1> USE DEF At, Goto, budget, history
  <1>j. /\ job[p] \in Job /\ JobShape(p) /\ Midway(p) /\ TypeOK /\ job \in [Procs -> Job]
        /\ ShapeInv /\ AllApplied /\ ShapeInv'
    BY FailingShape DEF ActiveInv, ShapeInv, TypeOK
  <1>u. UNCHANGED <<disk, state, edited>> /\ AllApplied'
    BY <1>j DEF Failing, MisreadCreds, IntendFails, WriteFails, UndoFails, RestoreFails, ForwardFails, Quit,
                AllApplied
  <1>f. Finish(p) => ActiveInv'
    BY <1>j, <1>u, FinishMidway, OneMidway
  <1>1. CASE IntendFails(p) \/ WriteFails(p)
    <2>1. job[p].at \in {"intend", "write"} /\ job'[p].at = "disown"
      BY <1>1, <1>j DEF IntendFails, WriteFails, Job
    <2>2. Midway(p)'
      BY <1>u, <2>1, <1>j DEF Midway
    <2> QED
      BY <1>j, <1>u, <2>2, OneMidway
  <1>2. CASE UndoFails(p)
    <2>1. /\ job[p].at = "undo" /\ job'[p] = [job[p] EXCEPT !.i = @ - 1, !.wrong = TRUE]
      BY <1>2, <1>j DEF UndoFails
    <2>2. Midway(p)'
      BY <1>u, <2>1, <1>j DEF Midway, Job
    <2> QED
      BY <1>j, <1>u, <2>2, OneMidway
  <1>3. CASE RestoreFails(p)
    <2>1. job[p].at = "files"
      BY <1>3 DEF RestoreFails
    <2>2. CASE job[p].rec = None
      BY <1>3, <1>f, <2>2 DEF RestoreFails
    <2>3. CASE job[p].rec # None
      <3>1. job'[p] = [job[p] EXCEPT !.at = "forward", !.i = 1]
        BY <1>3, <2>3, <1>j DEF RestoreFails
      <3>2. job'[p].at = "forward" /\ 1..(job'[p].i - 1) = {}
        BY <3>1, <1>j DEF Job
      <3>3. Midway(p)'
        BY <1>u, <2>1, <3>2, <1>j DEF Midway, Progress
      <3> QED
        BY <1>j, <1>u, <3>3, OneMidway
    <2> QED
      BY <2>2, <2>3
  <1>4. CASE ForwardFails(p)
    <2>1. /\ job[p].at = "forward" /\ job'[p] = [job[p] EXCEPT !.i = @ + 1, !.wrong = TRUE]
      BY <1>4, <1>j DEF ForwardFails
    <2>2. Midway(p)'
      BY <1>u, <2>1, <1>j DEF Midway, Job
    <2> QED
      BY <1>j, <1>u, <2>2, OneMidway
  <1>5. CASE Quit(p)
    BY <1>5, <1>f DEF Quit
  <1>6. CASE MisreadCreds(p)
    <2>1. job'[p] = [job[p] EXCEPT !.creds = NoCreds]
      BY <1>6, <1>j DEF MisreadCreds
    <2>2. Midway(p)'
      BY <1>u, <2>1, <1>j DEF Midway, Job, Progress, Settled
    <2> QED
      BY <1>j, <1>u, <2>2, OneMidway
  <1> QED
    BY <1>1, <1>2, <1>3, <1>4, <1>5, <1>6 DEF Failing

LEMMA StartsApply ==
  ASSUME ShapeInv, NEW p \in Procs, NEW s \in SnapIds \cup {None}, StartApply(p, s)
  PROVE  job'[p].at \in {"capture", "check"} /\ state = None
  BY DEF ShapeInv, TypeOK, StartApply, Idle

LEMMA StartsRestore ==
  ASSUME ShapeInv, NEW p \in Procs, NEW s \in SnapIds, NEW force \in BOOLEAN,
         StartRestore(p, s, force)
  PROVE  job'[p].at = IF state = None THEN "files" ELSE "mark"
  BY DEF ShapeInv, TypeOK, StartRestore, Idle

LEMMA StartComplete ==
  ASSUME ActiveInv, NEW p \in Procs, Alone(p), Alone(p)',
         \/ \E s \in SnapIds \cup {None} : StartApply(p, s)
         \/ \E s \in SnapIds, force \in BOOLEAN : StartRestore(p, s, force)
  PROVE  ActiveInv'
  <1>j. job \in [Procs -> Job] /\ ShapeInv /\ AllApplied /\ ShapeInv'
    BY StartApplyShape, StartRestoreShape DEF ActiveInv, ShapeInv, TypeOK
  <1>1. UNCHANGED <<disk, state, edited>>
    BY Zenon DEF StartApply, StartRestore
  <1>a. AllApplied'
    BY <1>1, <1>j DEF AllApplied
  <1>2. \/ job'[p].at \in {"capture", "check", "files"} /\ state = None
        \/ job'[p].at = "mark"
    <2>1. CASE \E s \in SnapIds \cup {None} : StartApply(p, s)
      <3>1. PICK s \in SnapIds \cup {None} : StartApply(p, s)
        BY <2>1
      <3>2. job'[p].at \in {"capture", "check"} /\ state = None
        BY <3>1, <1>j, StartsApply
      <3> QED
        BY <3>2
    <2>2. CASE \E s \in SnapIds, force \in BOOLEAN : StartRestore(p, s, force)
      <3>1. PICK s \in SnapIds, force \in BOOLEAN : StartRestore(p, s, force)
        BY <2>2
      <3>2. job'[p].at = IF state = None THEN "files" ELSE "mark"
        BY <3>1, <1>j, StartsRestore
      <3> QED
        BY <3>2
    <2> QED
      BY <2>1, <2>2
  <1>3. Midway(p)'
    BY <1>1, <1>2 DEF Midway
  <1> QED
    BY <1>j, <1>a, <1>3, OneMidway

LEMMA TakeSnapshotComplete ==
  ASSUME ActiveInv, NEW s \in SnapIds, NEW force \in BOOLEAN, TakeSnapshot(s, force)
  PROVE  ActiveInv'
  <1>1. UNCHANGED <<disk, state, edited, job>> /\ ShapeInv'
    BY TakeSnapshotShape DEF TakeSnapshot, ActiveInv
  <1> QED
    BY <1>1 DEF ActiveInv, AllApplied, Midway, Progress, Settled

\* Whatever somebody else writes counts as edited from then on.
LEMMA EnvironmentComplete ==
  ASSUME ActiveInv, Environment
  PROVE  ActiveInv'
  <1>j. job \in [Procs -> Job] /\ disk \in [Files -> Value] /\ ShapeInv'
    BY EnvironmentShape DEF ActiveInv, ShapeInv, TypeOK
  <1>1. /\ UNCHANGED state
        /\ \A f : disk'[f] = disk[f] \/ f \in edited'
        /\ edited \subseteq edited'
        /\ \A p \in Procs : \E t : job'[p] = [job[p] EXCEPT !.touched = t]
    <2>s. \A p \in Procs : job[p] = [job[p] EXCEPT !.touched = job[p].touched]
      BY <1>j DEF Job
    <2>1. ASSUME NEW f \in Files, NEW value \in Rewritings(f), Edit(f, value)
          PROVE  /\ UNCHANGED state /\ edited \subseteq edited'
                 /\ \A g : disk'[g] = disk[g] \/ g \in edited'
                 /\ \A p \in Procs : \E t : job'[p] = [job[p] EXCEPT !.touched = t]
      <3>1. \A g : disk'[g] = disk[g] \/ g \in edited'
        BY <2>1, <1>j DEF Edit
      <3>2. \A p \in Procs : \E t : job'[p] = [job[p] EXCEPT !.touched = t]
        BY <2>1, <2>s, <1>j DEF Edit
      <3> QED
        BY <2>1, <3>1, <3>2 DEF Edit
    <2>2. ASSUME NEW plan \in Plans, EditProfile(plan) PROVE UNCHANGED <<disk, state, edited, job>>
      BY <2>2 DEF EditProfile
    <2>3. ASSUME NEW c \in CredIds, Expire(c) PROVE UNCHANGED <<disk, state, edited, job>>
      BY <2>3 DEF Expire
    <2> QED
      BY <2>s, <2>1, <2>2, <2>3 DEF Environment
  <1>2. AllApplied'
    BY <1>1 DEF ActiveInv, AllApplied
  <1>3. ASSUME NEW p \in Procs PROVE Midway(p)'
    <2>1. PICK t : job'[p] = [job[p] EXCEPT !.touched = t]
      BY <1>1
    <2>2. /\ job'[p].at = job[p].at /\ job'[p].rec = job[p].rec /\ job'[p].i = job[p].i
          /\ job'[p].wrong = job[p].wrong /\ Midway(p)
      BY <2>1, <1>j DEF Job, ActiveInv
    <2>3. Progress(p) => Progress(p)'
      BY <1>1, <2>2 DEF Progress, Settled
    <2> QED
      BY <1>1, <2>2, <2>3 DEF Midway
  <1> QED
    BY <1>j, <1>2, <1>3 DEF ActiveInv

LEMMA ActiveStep ==
  ASSUME ActiveInv, Apart, [Next]_vars, ~ overlapped'
  PROVE  ActiveInv'
  <1>1. CASE Next
    <2>1. ASSUME NEW p \in Procs, Acts(p) PROVE ActiveInv'
      BY <2>1, LoneStep, ApplyingComplete, RestoringComplete, FailingComplete DEF Acts, ActiveInv
    <2>2. ASSUME NEW p \in Procs, Starts(p) PROVE ActiveInv'
      BY <2>2, LoneStep, StartComplete DEF Starts, ActiveInv
    <2>3. ASSUME NEW s \in SnapIds, NEW force \in BOOLEAN, TakeSnapshot(s, force) PROVE ActiveInv'
      BY <2>3, TakeSnapshotComplete
    <2> QED
      BY <1>1, <2>1, <2>2, <2>3, EnvironmentComplete DEF Next, Acts, Starts
  <1>2. CASE UNCHANGED vars
    <2>1. UNCHANGED <<disk, state, edited, job>>
      BY <1>2 DEF vars
    <2>2. ShapeInv'
      BY <1>2, ShapeStep DEF ActiveInv
    <2> QED
      BY <2>1, <2>2 DEF ActiveInv, AllApplied, Midway, Progress, Settled
  <1> QED
    BY <1>1, <1>2

UntilOverlap == ShapeInv /\ Apart /\ (overlapped \/ ActiveInv)

\* A takeover whose record says active has written every one of its files,
\* whichever command left it so: an apply, or a restore that failed and rolled
\* forward.  For any number of processes, until two run commands at once.
THEOREM DirectActiveComplete == Spec => []ActiveComplete
  <1>1. Init => UntilOverlap
    BY ShapeInit, ApartInit, ActiveInit DEF UntilOverlap
  <1>2. UntilOverlap /\ [Next]_vars => UntilOverlap'
    BY ShapeStep, ApartStep, ActiveStep DEF UntilOverlap
  <1>3. UntilOverlap => ActiveComplete
    BY DEF UntilOverlap, ActiveInv, AllApplied, ActiveComplete
  <1> QED
    BY <1>1, <1>2, <1>3, PTL DEF Spec

-----------------------------------------------------------------------------
(* The record goes after its token                                         *)

Issued(cred) == creds[cred] # None
Dead(cred) == Issued(cred) /\ creds[cred].live = {}
Gone(cred) == Dead(cred) \/ cred \in misread

\* What a command knows of the record in force, of the credential file it has
\* loaded, and of the token it has issued or revoked.
Informed(p) ==
  /\ job[p].at = "idle" => job[p].creds = None
  /\ job[p].creds # None => job[p].creds \in {creds, NoCreds}
  /\ job[p].at \in {"capture", "check", "issue", "intend"} => state = None
  /\ job[p].at \in {"write", "disown", "undo", "mark"} => state = job[p].rec
  /\ job[p].at \in {"forward", "revoke", "files"} =>
       IF job[p].rec = None THEN state = None
       ELSE state = [job[p].rec EXCEPT !.phase = "restoring"]
  /\ job[p].at \in {"intend", "write", "disown", "undo"} => Issued(job[p].cred)
  /\ job[p].at \in {"write", "disown", "undo"} /\ job[p].rec # None =>
       job[p].rec.cred = job[p].cred
  /\ job[p].at = "undo" => Gone(job[p].cred)
  /\ job[p].at = "remove" => state # None /\ Gone(state.cred)

TokenInv ==
  /\ ShapeInv
  /\ state # None => Issued(state.cred)
  /\ \A p \in Procs : Informed(p)

\* Nobody else has loaded, or changes, the credential file meanwhile.
LEMMA OneInformed ==
  ASSUME NEW p \in Procs, Alone(p)', ShapeInv', (state # None => Issued(state.cred))', Informed(p)'
  PROVE  TokenInv'
  BY DEF TokenInv, Alone, Idle, Informed

LEMMA FinishInformed ==
  ASSUME ShapeInv, NEW p \in Procs, Finish(p)
  PROVE  Informed(p)'
  <1>1. job'[p] = Idle
    BY DEF Finish, ShapeInv, TypeOK
  <1> QED
    BY <1>1 DEF Idle, Informed

\* What issue and revoke save, made from the file as it is.
LEMMA RotatedIssues ==
  ASSUME NEW store \in CredStore, NEW new \in CredIds, NEW plan \in Plans, NEW c \in CredIds,
         c = new \/ store[c] # None
  PROVE  Rotated(store, new, plan)[c] # None
  <1>1. CASE c = new
    <2>1. Rotated(store, new, plan)[c] = [plan |-> plan, live |-> RoutesOf[plan], expired |-> FALSE]
      BY <1>1 DEF Rotated
    <2>2. Rotated(store, new, plan)[c].expired = FALSE /\ Rotated(store, new, plan) \in CredStore
      BY <2>1, RotatedStore
    <2>3. Rotated(store, new, plan)[c] \in Credential
      BY <2>1 DEF Credential
    <2> QED
      BY <2>3, DistinctAssumption
  <1>2. CASE c # new
    <2>1. store[c] \in Credential
      BY <1>2 DEF CredStore
    <2>2. [store[c] EXCEPT !.live = @ \ RoutesOf[plan]] \in Credential
      BY <2>1 DEF Credential
    <2>3. Rotated(store, new, plan)[c] = [store[c] EXCEPT !.live = @ \ RoutesOf[plan]]
      BY <1>2 DEF Rotated
    <2> QED
      BY <2>2, <2>3, DistinctAssumption
  <1> QED
    BY <1>1, <1>2

\* A revocation kills the token it finds.
LEMMA RevokedKills ==
  ASSUME TypeOK, NEW cred \in CredIds, Issued(cred), NEW store \in {creds, NoCreds},
         creds' = Revoked(store, cred), misread' = Overlooked(store, cred)
  PROVE  /\ Gone(cred)'
         /\ \A c \in CredIds : Issued(c) => Issued(c)'
  <1>1. creds \in CredStore /\ creds[cred] \in Credential
    BY DEF TypeOK, Issued, CredStore
  <1>2. CASE store[cred] = None
    BY <1>2 DEF Revoked, Overlooked, Gone, Issued
  <1>3. CASE store[cred] # None
    <2>0. store = creds
      BY <1>3 DEF NoCreds
    <2>1. CASE creds[cred].live = {}
      BY <1>1, <2>0, <2>1 DEF Revoked, Gone, Dead, Issued
    <2>2. CASE creds[cred].live # {}
      <3>1. creds' = [creds EXCEPT ![cred] = [creds[cred] EXCEPT !.live = {}]]
        BY <2>0, <2>2 DEF Revoked, Issued
      <3>2. [creds[cred] EXCEPT !.live = {}] \in Credential
        BY <1>1 DEF Credential
      <3>3. creds'[cred] = [creds[cred] EXCEPT !.live = {}] /\ creds'[cred] # None
        BY <1>1, <3>1, <3>2, DistinctAssumption DEF CredStore
      <3>4. creds'[cred].live = {}
        BY <1>1, <3>3 DEF Credential
      <3>5. \A c \in CredIds : creds[c] # None => creds'[c] # None
        BY <1>1, <3>1, <3>3 DEF CredStore
      <3> QED
        BY <3>3, <3>4, <3>5 DEF Gone, Dead, Issued
    <2> QED
      BY <2>1, <2>2
  <1> QED
    BY <1>2, <1>3

LEMMA TokenInit == Init => TokenInv
  <1> SUFFICES ASSUME Init PROVE TokenInv
    OBVIOUS
  <1>1. \A p \in Procs : Informed(p)
    BY DEF Init, Informed, Idle
  <1> QED
    BY <1>1, ShapeInit DEF Init, TokenInv

\* A step that leaves the record and the credentials alone, and after which the
\* command knows as much.
LEMMA StillInformed ==
  ASSUME TokenInv, ShapeInv', NEW p \in Procs, Alone(p), Alone(p)', UNCHANGED <<state, creds, misread>>,
         Informed(p)'
  PROVE  TokenInv'
  BY OneInformed DEF TokenInv, Issued

LEMMA ApplyingToken ==
  ASSUME TokenInv, NEW p \in Procs, Alone(p), Alone(p)', Applying(p)
  PROVE  TokenInv'
  <1> USE DEF At, Goto, budget, history
  <1>j. /\ job[p] \in Job /\ JobShape(p) /\ Informed(p) /\ TypeOK /\ job \in [Procs -> Job]
        /\ ShapeInv /\ ShapeInv' /\ (state # None => Issued(state.cred))
    BY ApplyingShape DEF TokenInv, ShapeInv, TypeOK
  <1>f. UNCHANGED <<state, creds, misread>> /\ Finish(p) => TokenInv'
    BY <1>j, FinishInformed, StillInformed
  <1>1. ASSUME NEW s \in SnapIds, Capture(p, s) PROVE TokenInv'
    <2>1. CASE Finish(p)
      BY <1>1, <1>f, <2>1 DEF Capture
    <2>2. CASE job' = [job EXCEPT ![p].snap = s, ![p].at = "check"]
      <3>1. /\ job'[p] = [job[p] EXCEPT !.snap = s, !.at = "check"] /\ job[p].at = "capture"
            /\ UNCHANGED <<state, creds, misread>>
        BY <1>1, <2>2, <1>j DEF Capture
      <3>2. Informed(p)'
        BY <3>1, <1>j DEF Informed, Job
      <3> QED
        BY <1>j, <3>1, <3>2, StillInformed
    <2> QED
      BY <1>1, <2>1, <2>2 DEF Capture
  <1>2. CASE Check(p)
    <2>1. CASE Finish(p)
      BY <1>2, <1>f, <2>1 DEF Check
    <2>2. CASE job' = [job EXCEPT ![p].at = "issue"]
      <3>1. /\ job'[p] = [job[p] EXCEPT !.at = "issue"] /\ job[p].at = "check"
            /\ UNCHANGED <<state, creds, misread>>
        BY <1>2, <2>2, <1>j DEF Check
      <3>2. Informed(p)'
        BY <3>1, <1>j DEF Informed, Job
      <3> QED
        BY <1>j, <3>1, <3>2, StillInformed
    <2> QED
      BY <1>2, <2>1, <2>2 DEF Check
  <1>3. CASE LoadCreds(p)
    <2>1. /\ job'[p] = [job[p] EXCEPT !.creds = creds] /\ job[p].at \in {"issue", "disown", "revoke"}
          /\ UNCHANGED <<state, creds, misread>>
      BY <1>3, <1>j DEF LoadCreds, Loading
    <2>2. Informed(p)'
      BY <2>1, <1>j DEF Informed, Job, Issued, Dead, Gone
    <2> QED
      BY <1>j, <2>1, <2>2, StillInformed
  <1>4. ASSUME NEW c \in CredIds, Issue(p, c) PROVE TokenInv'
    <2>1. /\ job[p].at = "issue" /\ state = None /\ job[p].rec = None
          /\ UNCHANGED state
          /\ job'[p] = [job[p] EXCEPT !.at = "intend", !.cred = c, !.creds = None]
          /\ job[p].creds \in CredStore /\ job[p].snap \in SnapIds /\ snaps[job[p].snap] # None
          /\ job[p].plan = snaps[job[p].snap].plan
      BY <1>4, <1>j DEF Issue, Informed, Job, JobShape
    <2>2. job[p].plan \in Plans
      <3>1. snaps[job[p].snap] \in Snapshot
        BY <2>1, <1>j DEF TypeOK
      <3> QED
        BY <2>1, <3>1 DEF Snapshot
    <2>3. creds'[c] # None
      BY <1>4, <2>1, <2>2, RotatedIssues DEF Issue
    <2>4. Informed(p)'
      BY <2>1, <2>3, <1>j DEF Informed, Job, Issued
    <2> QED
      BY <1>j, <2>1, <2>4, OneInformed
  <1>5. CASE BuildFails(p)
    BY <1>5, <1>f DEF BuildFails
  <1>6. CASE Intend(p)
    <2> DEFINE rec == [phase |-> "applying", plan |-> job[p].plan, snap |-> job[p].snap,
                       cred |-> job[p].cred, applied |-> Content(job[p].plan, job[p].cred)]
    <2>1. /\ job'[p] = [job[p] EXCEPT !.at = "write", !.rec = rec, !.i = 1]
          /\ state' = rec /\ UNCHANGED <<creds, misread>> /\ job[p].at = "intend"
      BY <1>6, <1>j DEF Intend
    <2>2. rec.cred = job[p].cred
      OBVIOUS
    <2> HIDE DEF rec
    <2>3. Informed(p)'
      BY <2>1, <2>2, <1>j DEF Informed, Job, Issued
    <2>4. (state # None => Issued(state.cred))'
      BY <2>1, <2>2, <1>j DEF Informed, Issued
    <2> QED
      BY <1>j, <2>3, <2>4, OneInformed
  <1>7. CASE WriteFile(p)
    <2>1. /\ job'[p] = [job[p] EXCEPT !.i = @ + 1] /\ UNCHANGED <<state, creds, misread>>
      BY <1>7, <1>j DEF WriteFile
    <2>2. Informed(p)'
      BY <2>1, <1>j DEF Informed, Job, Issued, Dead, Gone
    <2> QED
      BY <1>j, <2>1, <2>2, StillInformed
  <1>8. CASE Activate(p)
    <2>1. /\ job[p].at = "write" /\ state = job[p].rec /\ job[p].rec # None
          /\ job[p].rec \in Record /\ UNCHANGED <<creds, misread>>
          /\ state' = [job[p].rec EXCEPT !.phase = "active"]
      BY <1>8, <1>j DEF Activate, Informed, JobShape, Job
    <2>2. state'.cred = state.cred /\ Issued(state.cred)
      BY <2>1, <1>j DEF Record
    <2> QED
      BY <1>8, <1>j, <2>1, <2>2, FinishInformed, OneInformed DEF Activate, Issued
  <1>9. CASE Disown(p)
    <2>1. /\ job[p].at = "disown" /\ state = job[p].rec /\ UNCHANGED state
          /\ job[p].cred \in CredIds /\ Issued(job[p].cred)
          /\ job[p].creds \in {creds, NoCreds}
          /\ creds' = Revoked(job[p].creds, job[p].cred)
          /\ misread' = Overlooked(job[p].creds, job[p].cred)
          /\ job[p].rec # None => job[p].rec.cred = job[p].cred
      BY <1>9, <1>j DEF Disown, Informed, JobShape, Job
    <2>2. /\ \A c \in CredIds : c = job[p].cred => Gone(c)'
          /\ \A c \in CredIds : Issued(c) => Issued(c)'
      BY <2>1, <1>j, RevokedKills
    <2>3. (state # None => Issued(state.cred))'
      BY <2>1, <2>2, <1>j DEF TypeOK, Record, Issued
    <2>4. CASE job[p].rec = None
      BY <1>9, <1>j, <2>3, <2>4, FinishInformed, OneInformed DEF Disown
    <2>5. CASE job[p].rec # None
      <3>1. job'[p] = [job[p] EXCEPT !.at = "undo", !.creds = None,
                                     !.i = Len(FilesOf[job[p].rec.plan])]
        BY <1>9, <2>5, <1>j DEF Disown
      <3>2. Informed(p)'
        BY <2>1, <2>2, <3>1, <1>j DEF Informed, Job, Dead, Issued, Gone
      <3> QED
        BY <1>j, <2>3, <3>2, OneInformed
    <2> QED
      BY <2>4, <2>5
  <1>10. CASE Undo(p)
    <2>1. /\ job'[p] = [job[p] EXCEPT !.i = @ - 1] /\ UNCHANGED <<state, creds, misread>>
      BY <1>10, <1>j DEF Undo
    <2>2. Informed(p)'
      BY <2>1, <1>j DEF Informed, Job, Issued, Dead, Gone
    <2> QED
      BY <1>j, <2>1, <2>2, StillInformed
  <1>11. CASE Undone(p)
    <2>1. /\ job[p].at = "undo" /\ state = job[p].rec /\ job[p].rec # None
          /\ job[p].rec \in Record /\ UNCHANGED <<creds, misread>> /\ Gone(job[p].cred)
          /\ job[p].rec.cred = job[p].cred
      BY <1>11, <1>j DEF Undone, Informed, JobShape, Job
    <2>2. CASE job[p].wrong
      <3>1. state' = [job[p].rec EXCEPT !.phase = "rollback-required"] /\ Finish(p)
        BY <1>11, <2>2 DEF Undone
      <3>2. state'.cred = state.cred /\ Issued(state.cred)
        BY <2>1, <3>1, <1>j DEF Record
      <3> QED
        BY <1>j, <2>1, <3>1, <3>2, FinishInformed, OneInformed DEF Issued
    <2>3. CASE ~ job[p].wrong
      <3>1. job'[p] = [job[p] EXCEPT !.at = "remove"] /\ UNCHANGED state
        BY <1>11, <2>3, <1>j DEF Undone
      <3>2. Informed(p)'
        BY <2>1, <3>1, <1>j DEF Informed, Job, Dead, Issued, Gone
      <3> QED
        BY <1>j, <2>1, <3>1, <3>2, StillInformed
    <2> QED
      BY <2>2, <2>3
  <1> QED
    BY <1>1, <1>2, <1>3, <1>4, <1>5, <1>6, <1>7, <1>8, <1>9, <1>10, <1>11 DEF Applying

LEMMA RestoringToken ==
  ASSUME TokenInv, NEW p \in Procs, Alone(p), Alone(p)', Restoring(p)
  PROVE  TokenInv'
  <1> USE DEF At, Goto, budget, history
  <1>j. /\ job[p] \in Job /\ JobShape(p) /\ Informed(p) /\ TypeOK /\ job \in [Procs -> Job]
        /\ ShapeInv /\ ShapeInv' /\ (state # None => Issued(state.cred))
    BY RestoringShape DEF TokenInv, ShapeInv, TypeOK
  <1>f. UNCHANGED <<state, creds, misread>> /\ Finish(p) => TokenInv'
    BY <1>j, FinishInformed, StillInformed
  <1>1. CASE Mark(p)
    <2>1. /\ job[p].at = "mark" /\ state = job[p].rec /\ job[p].rec # None
          /\ job[p].rec \in Record /\ UNCHANGED <<creds, misread>>
          /\ state' = [job[p].rec EXCEPT !.phase = "restoring"]
          /\ job'[p] = [job[p] EXCEPT !.at = "files"]
      BY <1>1, <1>j DEF Mark, Informed, JobShape, Job
    <2>2. state'.cred = state.cred /\ Issued(state.cred)
      BY <2>1, <1>j DEF Record
    <2>3. Informed(p)'
      BY <2>1, <1>j DEF Informed, Job
    <2> QED
      BY <1>j, <2>1, <2>2, <2>3, OneInformed DEF Issued
  <1>2. CASE RestoreFile(p)
    <2>1. /\ job'[p] = [job[p] EXCEPT !.i = @ - 1] /\ UNCHANGED <<state, creds, misread>>
      BY <1>2, <1>j DEF RestoreFile
    <2>2. Informed(p)'
      BY <2>1, <1>j DEF Informed, Job, Issued, Dead, Gone
    <2> QED
      BY <1>j, <2>1, <2>2, StillInformed
  <1>3. CASE Restored(p)
    <2>1. CASE Finish(p)
      BY <1>3, <1>f, <2>1 DEF Restored
    <2>2. CASE job' = [job EXCEPT ![p].at = "revoke"]
      <3>1. /\ job'[p] = [job[p] EXCEPT !.at = "revoke"] /\ job[p].at = "files"
            /\ UNCHANGED <<state, creds, misread>>
        BY <1>3, <2>2, <1>j DEF Restored
      <3>2. Informed(p)'
        BY <3>1, <1>j DEF Informed, Job
      <3> QED
        BY <1>j, <3>1, <3>2, StillInformed
    <2> QED
      BY <1>3, <2>1, <2>2 DEF Restored
  <1>4. CASE Forward(p)
    <2>1. /\ job'[p] = [job[p] EXCEPT !.i = @ + 1] /\ UNCHANGED <<state, creds, misread>>
      BY <1>4, <1>j DEF Forward
    <2>2. Informed(p)'
      BY <2>1, <1>j DEF Informed, Job, Issued, Dead, Gone
    <2> QED
      BY <1>j, <2>1, <2>2, StillInformed
  <1>5. CASE Forwarded(p)
    <2>1. /\ job[p].at = "forward" /\ state = [job[p].rec EXCEPT !.phase = "restoring"]
          /\ job[p].rec \in Record /\ UNCHANGED <<creds, misread>>
          /\ state' = [job[p].rec EXCEPT !.phase = IF job[p].wrong THEN "rollback-required"
                                                                  ELSE "active"]
      BY <1>5, <1>j DEF Forwarded, Informed, JobShape, Job
    <2>2. state \in Record
      BY <2>1 DEF Record
    <2>3. state'.cred = state.cred /\ Issued(state.cred)
      BY <2>1, <2>2, <1>j, DistinctAssumption DEF Record
    <2> QED
      BY <1>5, <1>j, <2>1, <2>3, FinishInformed, OneInformed DEF Forwarded, Issued
  <1>6. CASE Revoke(p)
    <2>1. /\ job[p].at = "revoke" /\ state = [job[p].rec EXCEPT !.phase = "restoring"]
          /\ job[p].rec \in Record /\ UNCHANGED state
          /\ job[p].creds \in {creds, NoCreds}
          /\ creds' = Revoked(job[p].creds, job[p].rec.cred)
          /\ misread' = Overlooked(job[p].creds, job[p].rec.cred)
          /\ job'[p] = [job[p] EXCEPT !.at = "remove", !.creds = None]
      BY <1>6, <1>j DEF Revoke, Informed, JobShape, Job
    <2>2. state \in Record /\ state.cred = job[p].rec.cred /\ job[p].rec.cred \in CredIds
      BY <2>1 DEF Record
    <2>3. state # None /\ Issued(job[p].rec.cred)
      BY <2>2, <1>j, DistinctAssumption
    <2>4. Gone(job[p].rec.cred)' /\ Issued(job[p].rec.cred)'
      BY <2>1, <2>2, <2>3, <1>j, RevokedKills
    <2>5. Gone(state.cred)' /\ Issued(state.cred)'
      BY <2>1, <2>2, <2>4 DEF Dead, Issued, Gone
    <2>6. Informed(p)'
      BY <2>1, <2>3, <2>5, <1>j DEF Informed, Job
    <2> QED
      BY <1>j, <2>1, <2>5, <2>6, OneInformed
  <1>7. CASE Remove(p)
    BY <1>7, <1>j, FinishInformed, OneInformed DEF Remove
  <1> QED
    BY <1>1, <1>2, <1>3, <1>4, <1>5, <1>6, <1>7 DEF Restoring

LEMMA FailingToken ==
  ASSUME TokenInv, NEW p \in Procs, Alone(p), Alone(p)', Failing(p)
  PROVE  TokenInv'
  <1> USE DEF At, Goto, budget, history
  <1>j. /\ job[p] \in Job /\ JobShape(p) /\ Informed(p) /\ TypeOK /\ job \in [Procs -> Job]
        /\ ShapeInv /\ ShapeInv'
    BY FailingShape DEF TokenInv, ShapeInv, TypeOK
  <1>u. UNCHANGED <<state, creds, misread>>
    BY DEF Failing, MisreadCreds, IntendFails, WriteFails, UndoFails, RestoreFails, ForwardFails, Quit
  <1>f. Finish(p) => TokenInv'
    BY <1>j, <1>u, FinishInformed, StillInformed
  <1>1. CASE IntendFails(p) \/ WriteFails(p)
    <2>1. job'[p] = [job[p] EXCEPT !.at = "disown"] /\ job[p].at \in {"intend", "write"}
      BY <1>1, <1>j DEF IntendFails, WriteFails
    <2>2. Informed(p)'
      BY <1>u, <2>1, <1>j DEF Informed, Job, Issued, JobShape
    <2> QED
      BY <1>j, <1>u, <2>2, StillInformed
  <1>2. CASE UndoFails(p)
    <2>1. job'[p] = [job[p] EXCEPT !.i = @ - 1, !.wrong = TRUE]
      BY <1>2, <1>j DEF UndoFails
    <2>2. Informed(p)'
      BY <1>u, <2>1, <1>j DEF Informed, Job, Issued, Dead, Gone
    <2> QED
      BY <1>j, <1>u, <2>2, StillInformed
  <1>3. CASE RestoreFails(p)
    <2>1. CASE job[p].rec = None
      BY <1>3, <1>f, <2>1 DEF RestoreFails
    <2>2. CASE job[p].rec # None
      <3>1. job'[p] = [job[p] EXCEPT !.at = "forward", !.i = 1] /\ job[p].at = "files"
        BY <1>3, <2>2, <1>j DEF RestoreFails
      <3>2. Informed(p)'
        BY <1>u, <3>1, <1>j DEF Informed, Job
      <3> QED
        BY <1>j, <1>u, <3>2, StillInformed
    <2> QED
      BY <2>1, <2>2
  <1>4. CASE ForwardFails(p)
    <2>1. job'[p] = [job[p] EXCEPT !.i = @ + 1, !.wrong = TRUE]
      BY <1>4, <1>j DEF ForwardFails
    <2>2. Informed(p)'
      BY <1>u, <2>1, <1>j DEF Informed, Job, Issued, Dead, Gone
    <2> QED
      BY <1>j, <1>u, <2>2, StillInformed
  <1>5. CASE Quit(p)
    BY <1>5, <1>f DEF Quit
  <1>6. CASE MisreadCreds(p)
    <2>1. job'[p] = [job[p] EXCEPT !.creds = NoCreds] /\ job[p].at \in {"issue", "disown", "revoke"}
      BY <1>6, <1>j DEF MisreadCreds, Loading
    <2>2. Informed(p)'
      BY <1>u, <2>1, <1>j DEF Informed, Job, Issued, Dead, Gone
    <2> QED
      BY <1>j, <1>u, <2>2, StillInformed
  <1> QED
    BY <1>1, <1>2, <1>3, <1>4, <1>5, <1>6 DEF Failing

LEMMA StartToken ==
  ASSUME TokenInv, NEW p \in Procs, Alone(p), Alone(p)',
         \/ \E s \in SnapIds \cup {None} : StartApply(p, s)
         \/ \E s \in SnapIds, force \in BOOLEAN : StartRestore(p, s, force)
  PROVE  TokenInv'
  <1>j. job \in [Procs -> Job] /\ ShapeInv /\ ShapeInv'
    BY StartApplyShape, StartRestoreShape DEF TokenInv, ShapeInv, TypeOK
  <1>1. CASE \E s \in SnapIds \cup {None} : StartApply(p, s)
    <2>1. PICK s \in SnapIds \cup {None} : StartApply(p, s)
      BY <1>1
    <2>2. /\ job'[p].at \in {"capture", "check"} /\ job'[p].creds = None
          /\ state = None /\ UNCHANGED <<state, creds, misread>>
      BY <2>1, <1>j DEF StartApply, Idle
    <2>3. Informed(p)'
      BY <2>2 DEF Informed
    <2> QED
      BY <1>j, <2>2, <2>3, StillInformed
  <1>2. CASE \E s \in SnapIds, force \in BOOLEAN : StartRestore(p, s, force)
    <2>1. PICK s \in SnapIds, force \in BOOLEAN : StartRestore(p, s, force)
      BY <1>2
    <2>2. /\ job'[p].at = IF state = None THEN "files" ELSE "mark"
          /\ job'[p].rec = state /\ job'[p].creds = None
          /\ UNCHANGED <<state, creds, misread>>
      BY <2>1, <1>j DEF StartRestore, Idle
    <2>3. Informed(p)'
      BY <2>2 DEF Informed
    <2> QED
      BY <1>j, <2>2, <2>3, StillInformed
  <1> QED
    BY <1>1, <1>2

\* No token ages while a command runs.
LEMMA EnvironmentToken ==
  ASSUME TokenInv, Environment \/ \E s \in SnapIds, force \in BOOLEAN : TakeSnapshot(s, force)
  PROVE  TokenInv'
  <1>j. job \in [Procs -> Job] /\ TypeOK /\ ShapeInv'
    BY EnvironmentShape, TakeSnapshotShape DEF TokenInv, ShapeInv, TypeOK
  <1>1. ASSUME NEW s \in SnapIds, NEW force \in BOOLEAN, TakeSnapshot(s, force) PROVE TokenInv'
    <2>1. UNCHANGED <<state, creds, misread, job>>
      BY <1>1 DEF TakeSnapshot, history
    <2> QED
      BY <2>1, <1>j DEF TokenInv, Informed, Issued, Dead, Gone
  <1>2. ASSUME NEW f \in Files, NEW value \in Rewritings(f), Edit(f, value) PROVE TokenInv'
    <2>1. UNCHANGED <<state, creds, misread>>
      BY <1>2 DEF Edit, history
    <2>2. ASSUME NEW p \in Procs PROVE Informed(p)'
      <3>0. Informed(p) /\ job[p] \in Job
        BY <1>j DEF TokenInv
      <3>1. job'[p] = job[p] \/ job'[p] = [job[p] EXCEPT !.touched = @ \cup {f}]
        BY <1>2 DEF Edit, history
      <3>2. /\ job'[p].at = job[p].at /\ job'[p].creds = job[p].creds
            /\ job'[p].rec = job[p].rec /\ job'[p].cred = job[p].cred
        BY <3>0, <3>1 DEF Job
      <3> QED
        BY <2>1, <3>0, <3>2 DEF Informed, Issued, Dead, Gone
    <2> QED
      BY <2>1, <2>2, <1>j DEF TokenInv, Issued
  <1>3. ASSUME NEW plan \in Plans, EditProfile(plan) PROVE TokenInv'
    <2>1. UNCHANGED <<state, creds, misread, job>>
      BY <1>3 DEF EditProfile, history
    <2> QED
      BY <2>1, <1>j DEF TokenInv, Informed, Issued, Dead, Gone
  <1>4. ASSUME NEW c \in CredIds, Expire(c) PROVE TokenInv'
    <2>1. /\ UNCHANGED <<state, job>> /\ \A p \in Procs : job[p].at = "idle"
          /\ creds' = [creds EXCEPT ![c] = [creds[c] EXCEPT !.expired = TRUE]]
          /\ creds[c] \in Credential /\ creds \in CredStore
      BY <1>4, <1>j DEF Expire, At, TypeOK, CredStore, history
    <2>2. [creds[c] EXCEPT !.expired = TRUE] # None
      <3>1. [creds[c] EXCEPT !.expired = TRUE] \in Credential
        BY <2>1 DEF Credential
      <3> QED
        BY <3>1, DistinctAssumption
    <2>3. \A d \in CredIds : Issued(d) => Issued(d)'
      BY <2>1, <2>2 DEF Issued, CredStore
    <2>4. \A p \in Procs : Informed(p)'
      BY <2>1 DEF TokenInv, Informed
    <2>5. state # None => state.cred \in CredIds
      BY <1>j DEF TypeOK, Record
    <2> QED
      BY <2>1, <2>3, <2>4, <2>5, <1>j DEF TokenInv, Issued
  <1> QED
    BY <1>1, <1>2, <1>3, <1>4 DEF Environment

LEMMA TokenStep ==
  ASSUME TokenInv, Apart, [Next]_vars, ~ overlapped'
  PROVE  TokenInv'
  <1>1. CASE Next
    <2>1. ASSUME NEW p \in Procs, Acts(p) PROVE TokenInv'
      BY <2>1, LoneStep, ApplyingToken, RestoringToken, FailingToken DEF Acts, TokenInv
    <2>2. ASSUME NEW p \in Procs, Starts(p) PROVE TokenInv'
      BY <2>2, LoneStep, StartToken DEF Starts, TokenInv
    <2>3. Environment \/ (\E s \in SnapIds, force \in BOOLEAN : TakeSnapshot(s, force)) => TokenInv'
      BY EnvironmentToken
    <2> QED
      BY <1>1, <2>1, <2>2, <2>3, Zenon DEF Next, Acts, Starts
  <1>2. CASE UNCHANGED vars
    <2>1. UNCHANGED <<state, creds, misread, job>>
      BY <1>2 DEF vars, history
    <2>2. ShapeInv'
      BY <1>2, ShapeStep DEF TokenInv
    <2> QED
      BY <2>1, <2>2 DEF TokenInv, Informed, Issued, Dead, Gone
  <1> QED
    BY <1>1, <1>2

\* What a step that takes the record away is.
LEMMA OnlyRemoveRemoves ==
  ASSUME TokenInv, [Next]_vars, state # None, state' = None
  PROVE  \E p \in Procs : job[p].at = "remove"
  <1> USE DEF At, Goto, budget, history
  <1>j. job \in [Procs -> Job] /\ TypeOK /\ state' # state
    BY DEF TokenInv, ShapeInv, TypeOK
  <1>1. ASSUME NEW p \in Procs, Applying(p) PROVE FALSE
    <2>1. state' # None
      <3>1. CASE Intend(p)
        <4>1. ShapeInv' /\ state'.phase = "applying"
          BY <1>1, <3>1, ApplyingShape DEF TokenInv, Intend
        <4>2. Informed(p) /\ job[p].at = "intend"
          BY <3>1 DEF TokenInv, Intend
        <4> QED
          BY <4>2 DEF Informed
      <3>2. CASE Activate(p) \/ (Undone(p) /\ job[p].wrong)
        <4>1. /\ job[p].rec \in Record
              /\ \E phase \in {"active", "rollback-required"} :
                   state' = [job[p].rec EXCEPT !.phase = phase]
          <5>1. job[p].rec # None /\ job[p] \in Job
            BY <3>2, <1>j DEF TokenInv, ShapeInv, JobShape, Activate, Undone
          <5> QED
            BY <3>2, <5>1 DEF Activate, Undone, Job
        <4>2. state' \in Record
          BY <4>1 DEF Record
        <4> QED
          BY <4>2, DistinctAssumption
      <3> QED
        BY <1>1, <1>j, <3>1, <3>2 DEF Applying, Capture, Check, LoadCreds, Issue, BuildFails,
             WriteFile, Disown, Undo, Undone
    <2> QED
      BY <2>1
  <1>2. ASSUME NEW p \in Procs, Restoring(p), ~ Remove(p) PROVE FALSE
    <2>1. state' # None
      <3>1. CASE Mark(p) \/ Forwarded(p)
        <4>1. /\ job[p].rec \in Record
              /\ \E phase \in {"active", "rollback-required", "restoring"} :
                   state' = [job[p].rec EXCEPT !.phase = phase]
          <5>1. job[p].rec # None /\ job[p] \in Job
            BY <3>1, <1>j DEF TokenInv, ShapeInv, JobShape, Mark, Forwarded
          <5> QED
            BY <3>1, <5>1 DEF Mark, Forwarded, Job
        <4>2. state' \in Record
          BY <4>1 DEF Record
        <4> QED
          BY <4>2, DistinctAssumption
      <3> QED
        BY <1>2, <1>j, <3>1 DEF Restoring, RestoreFile, Restored, Forward, Revoke
    <2> QED
      BY <2>1
  <1>3. ASSUME NEW p \in Procs, Failing(p) PROVE FALSE
    BY <1>3, <1>j DEF Failing, MisreadCreds, IntendFails, WriteFails, UndoFails, RestoreFails, ForwardFails, Quit
  <1>4. ASSUME NEW p \in Procs,
               \/ \E s \in SnapIds \cup {None} : StartApply(p, s)
               \/ \E s \in SnapIds, force \in BOOLEAN : StartRestore(p, s, force)
        PROVE  FALSE
    BY <1>4, <1>j DEF StartApply, StartRestore
  <1>5. ASSUME Environment \/ \E s \in SnapIds, force \in BOOLEAN : TakeSnapshot(s, force) PROVE FALSE
    BY <1>5, <1>j DEF Environment, Edit, EditProfile, Expire, TakeSnapshot
  <1>6. \E p \in Procs : Remove(p)
    BY <1>1, <1>2, <1>3, <1>4, <1>5, <1>j, Zenon DEF Next, vars
  <1> QED
    BY <1>6 DEF Remove

TokenUntilOverlap == ShapeInv /\ Apart /\ (overlapped \/ TokenInv)

\* The record of a takeover goes only after its token has died, whatever fails
\* in between, unless the credential file could not be read when the token was
\* to be revoked.  For any number of processes, until two run commands at once.
THEOREM DirectTokenDiesFirst == Spec => TokenDiesFirst
  <1>1. Init => TokenUntilOverlap
    BY ShapeInit, ApartInit, TokenInit DEF TokenUntilOverlap
  <1>2. TokenUntilOverlap /\ [Next]_vars => TokenUntilOverlap'
    BY ShapeStep, ApartStep, TokenStep DEF TokenUntilOverlap
  <1>3. TokenUntilOverlap /\ [Next]_vars =>
          [~ overlapped /\ state # None /\ state' = None /\ state.cred \notin misread =>
             creds[state.cred] # None /\ creds[state.cred].live = {}]_vars
    <2> SUFFICES ASSUME TokenInv, [Next]_vars, state # None, state' = None, state.cred \notin misread
                 PROVE  creds[state.cred] # None /\ creds[state.cred].live = {}
      BY DEF TokenUntilOverlap
    <2>1. PICK p \in Procs : job[p].at = "remove"
      BY OnlyRemoveRemoves
    <2> QED
      BY <2>1 DEF TokenInv, Informed, Dead, Issued, Gone
  <1> QED
    BY <1>1, <1>2, <1>3, PTL DEF Spec, TokenDiesFirst

-----------------------------------------------------------------------------
(* Nothing is overwritten that a command does not know                     *)

Working == {"issue", "intend", "write", "disown", "undo", "mark", "files", "forward"}

\* Each file a command may go on to write is one it may overwrite.
Secured(p) ==
  /\ job[p].at \in Working =>
       \A f \in FileSet(snaps[job[p].snap].plan) : Replaceable(p, f)
  /\ job[p].at \in {"mark", "files", "forward"} /\ ~ job[p].force =>
       job[p].rec # None /\ job[p].rec.snap = job[p].snap

LossInv == ShapeInv /\ \A p \in Procs : Secured(p)

\* A file stays one p may overwrite while p writes only what it knows.
LEMMA StaysReplaceable ==
  ASSUME NEW p \in Procs, NEW f, Replaceable(p, f),
         job'[p].force = job[p].force, job'[p].snap = job[p].snap,
         job[p].touched \subseteq job'[p].touched,
         job[p].rec # None => job'[p].rec = job[p].rec,
         snaps'[job[p].snap] = snaps[job[p].snap],
         \/ disk'[f] = disk[f]
         \/ disk'[f] = snaps[job[p].snap].files[f]
         \/ job[p].rec # None /\ f \in DOMAIN job[p].rec.applied /\ disk'[f] = job[p].rec.applied[f]
         \/ f \in job'[p].touched
  PROVE  Replaceable(p, f)'
  BY DEF Replaceable

\* A step of p that keeps what p holds.
LEMMA StaysSecured ==
  ASSUME LossInv, NEW p \in Procs,
         job'[p].force = job[p].force, job'[p].snap = job[p].snap,
         job[p].touched \subseteq job'[p].touched,
         job[p].rec # None => job'[p].rec = job[p].rec,
         job[p].at \in Working,
         job'[p].at \in {"mark", "files", "forward"} => job[p].at \in {"mark", "files", "forward"},
         UNCHANGED snaps,
         \A f \in FileSet(snaps[job[p].snap].plan) :
           \/ disk'[f] = disk[f]
           \/ disk'[f] = snaps[job[p].snap].files[f]
           \/ job[p].rec # None /\ f \in DOMAIN job[p].rec.applied /\ disk'[f] = job[p].rec.applied[f]
           \/ f \in job'[p].touched
  PROVE  Secured(p)'
  <1>1. \A f \in FileSet(snaps[job[p].snap].plan) : Replaceable(p, f)
    BY DEF LossInv, Secured
  <1>2. \A f \in FileSet(snaps[job[p].snap].plan) : Replaceable(p, f)'
    BY <1>1, StaysReplaceable
  <1>3. FileSet(snaps[job[p].snap].plan)' = FileSet(snaps[job[p].snap].plan)
    BY DEF FileSet
  <1>4. job'[p].at \in {"mark", "files", "forward"} /\ ~ job'[p].force =>
          job'[p].rec # None /\ job'[p].rec.snap = job'[p].snap
    BY DEF LossInv, Secured
  <1> QED
    BY <1>2, <1>3, <1>4 DEF Secured

LEMMA OneSecured ==
  ASSUME NEW p \in Procs, Alone(p)', ShapeInv', Secured(p)'
  PROVE  LossInv'
  BY IdleJob DEF LossInv, Alone, Secured, Working

LEMMA NotWorking ==
  ASSUME NEW p \in Procs, job'[p].at \notin Working
  PROVE  Secured(p)'
  BY DEF Secured, Working

LEMMA FinishSecured ==
  ASSUME ShapeInv, NEW p \in Procs, Finish(p)
  PROVE  Secured(p)'
  <1>1. job'[p] = Idle
    BY DEF Finish, ShapeInv, TypeOK
  <1> QED
    BY <1>1, NotWorking DEF Idle, Working

LEMMA LossInit == Init => LossInv
  BY ShapeInit DEF Init, LossInv, Secured, Idle, Working

\* The files a command writes are those of its snapshot.
LEMMA WritesItsFiles ==
  ASSUME ShapeInv, NEW p \in Procs, job[p].rec # None, job[p].rec.snap = job[p].snap
  PROVE  FileSet(snaps[job[p].snap].plan) = FileSet(job[p].rec.plan)
  <1>1. RecordShape(job[p].rec)
    BY DEF ShapeInv, JobShape
  <1> QED
    BY <1>1 DEF RecordShape

LEMMA ApplyingSecured ==
  ASSUME LossInv, NEW p \in Procs, Alone(p), Alone(p)', Applying(p)
  PROVE  LossInv'
  <1> USE DEF At, Goto, budget, history
  <1>j. /\ job[p] \in Job /\ JobShape(p) /\ TypeOK /\ job \in [Procs -> Job]
        /\ ShapeInv /\ ShapeInv'
    BY ApplyingShape DEF LossInv, ShapeInv, TypeOK
  <1>f. Finish(p) => LossInv'
    BY <1>j, FinishSecured, OneSecured
  <1>1. ASSUME NEW s \in SnapIds, Capture(p, s) PROVE LossInv'
    <2>1. CASE Finish(p)
      BY <1>f, <2>1
    <2>2. CASE job' = [job EXCEPT ![p].snap = s, ![p].at = "check"]
      <3>1. job'[p].at = "check"
        BY <2>2, <1>j DEF Job
      <3> QED
        BY <1>j, <3>1, NotWorking, OneSecured DEF Working
    <2> QED
      BY <1>1, <2>1, <2>2 DEF Capture
  <1>2. CASE Check(p)
    <2>1. CASE Finish(p)
      BY <1>f, <2>1
    <2>2. CASE ~ Finish(p)
      <3>1. /\ job'[p] = [job[p] EXCEPT !.at = "issue"] /\ job[p].at = "check"
            /\ SameAs(snaps[job[p].snap], job[p].plan) /\ UNCHANGED <<disk, snaps>>
        BY <1>2, <2>2, <1>j DEF Check
      <3>2. /\ job'[p].at = "issue" /\ job'[p].snap = job[p].snap
            /\ job[p].snap \in SnapIds /\ snaps[job[p].snap] # None
        BY <3>1, <1>j DEF Job, JobShape
      <3>3. DOMAIN snaps[job[p].snap].files = FileSet(snaps[job[p].snap].plan)
        BY <3>2, <1>j DEF ShapeInv, SnapShape, Fits
      <3>4. \A f \in FileSet(snaps[job[p].snap].plan) : disk[f] = snaps[job[p].snap].files[f]
        BY <3>1, <3>3 DEF SameAs
      <3>5. FileSet(snaps[job[p].snap].plan)' = FileSet(snaps[job[p].snap].plan)
        BY <3>1, <3>2 DEF FileSet
      <3>6. Secured(p)'
        BY <3>1, <3>2, <3>4, <3>5 DEF Secured, Replaceable
      <3> QED
        BY <1>j, <3>6, OneSecured
    <2> QED
      BY <2>1, <2>2
  <1>3. CASE LoadCreds(p)
    <2>1. /\ job'[p] = [job[p] EXCEPT !.creds = creds] /\ job[p].at \in {"issue", "disown", "revoke"}
          /\ UNCHANGED <<disk, snaps>>
      BY <1>3, <1>j DEF LoadCreds, Loading
    <2>2. Secured(p)'
      <3>1. CASE job[p].at = "revoke"
        BY <2>1, <3>1, <1>j, NotWorking DEF Working, Job
      <3>2. CASE job[p].at # "revoke"
        <4>1. /\ job'[p].at = job[p].at /\ job'[p].force = job[p].force /\ job'[p].snap = job[p].snap
              /\ job'[p].touched = job[p].touched /\ job'[p].rec = job[p].rec
          BY <2>1, <1>j DEF Job
        <4> QED
          BY <2>1, <3>2, <4>1, StaysSecured DEF Working
      <3> QED
        BY <3>1, <3>2
    <2> QED
      BY <1>j, <2>2, OneSecured
  <1>4. ASSUME NEW c \in CredIds, Issue(p, c) PROVE LossInv'
    <2>1. /\ job'[p] = [job[p] EXCEPT !.at = "intend", !.cred = c, !.creds = None]
          /\ job[p].at = "issue" /\ UNCHANGED <<disk, snaps>>
      BY <1>4, <1>j DEF Issue
    <2>2. /\ job'[p].at = "intend" /\ job'[p].force = job[p].force /\ job'[p].snap = job[p].snap
          /\ job'[p].touched = job[p].touched /\ job'[p].rec = job[p].rec
      BY <2>1, <1>j DEF Job
    <2>3. Secured(p)'
      BY <2>1, <2>2, StaysSecured DEF Working
    <2> QED
      BY <1>j, <2>3, OneSecured
  <1>5. CASE BuildFails(p)
    BY <1>5, <1>f DEF BuildFails
  <1>6. CASE Intend(p)
    <2> DEFINE rec == [phase |-> "applying", plan |-> job[p].plan, snap |-> job[p].snap,
                       cred |-> job[p].cred, applied |-> Content(job[p].plan, job[p].cred)]
    <2>1. /\ job'[p] = [job[p] EXCEPT !.at = "write", !.rec = rec, !.i = 1]
          /\ job[p].at = "intend" /\ job[p].rec = None /\ UNCHANGED <<disk, snaps>>
      BY <1>6, <1>j DEF Intend, JobShape
    <2> HIDE DEF rec
    <2>2. /\ job'[p].at = "write" /\ job'[p].force = job[p].force /\ job'[p].snap = job[p].snap
          /\ job'[p].touched = job[p].touched
      BY <2>1, <1>j DEF Job
    <2>3. Secured(p)'
      BY <2>1, <2>2, StaysSecured DEF Working
    <2> QED
      BY <1>j, <2>3, OneSecured
  <1>7. CASE WriteFile(p)
    <2>1. /\ job'[p] = [job[p] EXCEPT !.i = @ + 1] /\ job[p].at = "write" /\ UNCHANGED snaps
          /\ Put(FilesOf[job[p].rec.plan][job[p].i],
                 job[p].rec.applied[FilesOf[job[p].rec.plan][job[p].i]])
          /\ job[p].rec # None /\ job[p].rec.snap = job[p].snap
      BY <1>7, <1>j DEF WriteFile, JobShape
    <2>2. /\ job'[p].at = job[p].at /\ job'[p].force = job[p].force /\ job'[p].snap = job[p].snap
          /\ job'[p].touched = job[p].touched /\ job'[p].rec = job[p].rec
      BY <2>1, <1>j DEF Job
    <2>3. FileSet(snaps[job[p].snap].plan) = DOMAIN job[p].rec.applied
      BY <2>1, <1>j, WritesItsFiles DEF JobShape, RecordShape, Fits
    <2>4. \A f \in FileSet(snaps[job[p].snap].plan) :
            disk'[f] = disk[f] \/ disk'[f] = job[p].rec.applied[f]
      BY <2>1, <1>j DEF Put, TypeOK
    <2>5. Secured(p)'
      BY <2>1, <2>2, <2>3, <2>4, StaysSecured DEF Working
    <2> QED
      BY <1>j, <2>5, OneSecured
  <1>8. CASE Activate(p)
    BY <1>8, <1>f DEF Activate
  <1>9. CASE Disown(p)
    <2>1. CASE Finish(p)
      BY <1>f, <2>1
    <2>2. CASE job' = [job EXCEPT ![p].at = "undo", ![p].creds = None,
                                  ![p].i = Len(FilesOf[job[p].rec.plan])]
      <3>1. /\ job'[p] = [job[p] EXCEPT !.at = "undo", !.creds = None,
                                        !.i = Len(FilesOf[job[p].rec.plan])]
            /\ job[p].at = "disown" /\ UNCHANGED <<disk, snaps>>
        BY <1>9, <2>2, <1>j DEF Disown
      <3>2. /\ job'[p].at = "undo" /\ job'[p].force = job[p].force /\ job'[p].snap = job[p].snap
            /\ job'[p].touched = job[p].touched /\ job'[p].rec = job[p].rec
        BY <3>1, <1>j DEF Job
      <3>3. Secured(p)'
        BY <3>1, <3>2, StaysSecured DEF Working
      <3> QED
        BY <1>j, <3>3, OneSecured
    <2> QED
      BY <1>9, <2>1, <2>2 DEF Disown
  <1>10. CASE Undo(p)
    <2>1. /\ job'[p] = [job[p] EXCEPT !.i = @ - 1] /\ job[p].at = "undo" /\ UNCHANGED snaps
          /\ Put(FilesOf[job[p].rec.plan][job[p].i],
                 snaps[job[p].snap].files[FilesOf[job[p].rec.plan][job[p].i]])
      BY <1>10, <1>j DEF Undo
    <2>2. /\ job'[p].at = job[p].at /\ job'[p].force = job[p].force /\ job'[p].snap = job[p].snap
          /\ job'[p].touched = job[p].touched /\ job'[p].rec = job[p].rec
      BY <2>1, <1>j DEF Job
    <2>3. ASSUME NEW f \in FileSet(snaps[job[p].snap].plan)
          PROVE  disk'[f] = disk[f] \/ disk'[f] = snaps[job[p].snap].files[f]
      <3>1. f \in Files
        <4>1. snaps[job[p].snap] \in Snapshot
          BY <2>1, <1>j DEF JobShape, Job, TypeOK
        <4> QED
          BY <4>1, FilesOfPlan DEF Snapshot
      <3>2. CASE f = FilesOf[job[p].rec.plan][job[p].i]
        BY <2>1, <3>1, <3>2, <1>j DEF Put, TypeOK
      <3>3. CASE f # FilesOf[job[p].rec.plan][job[p].i]
        BY <2>1, <3>1, <3>3, <1>j DEF Put, TypeOK
      <3> QED
        BY <3>2, <3>3
    <2>4. Secured(p)'
      BY <2>1, <2>2, <2>3, StaysSecured DEF Working
    <2> QED
      BY <1>j, <2>4, OneSecured
  <1>11. CASE Undone(p)
    <2>1. CASE job[p].wrong
      BY <1>11, <1>f, <2>1 DEF Undone
    <2>2. CASE ~ job[p].wrong
      <3>1. job'[p].at = "remove"
        BY <1>11, <2>2, <1>j DEF Undone, Job
      <3> QED
        BY <1>j, <3>1, NotWorking, OneSecured DEF Working
    <2> QED
      BY <2>1, <2>2
  <1> QED
    BY <1>1, <1>2, <1>3, <1>4, <1>5, <1>6, <1>7, <1>8, <1>9, <1>10, <1>11 DEF Applying

LEMMA RestoringSecured ==
  ASSUME LossInv, NEW p \in Procs, Alone(p), Alone(p)', Restoring(p)
  PROVE  LossInv'
  <1> USE DEF At, Goto, budget, history
  <1>j. /\ job[p] \in Job /\ JobShape(p) /\ TypeOK /\ job \in [Procs -> Job]
        /\ ShapeInv /\ ShapeInv'
    BY RestoringShape DEF LossInv, ShapeInv, TypeOK
  <1>f. Finish(p) => LossInv'
    BY <1>j, FinishSecured, OneSecured
  <1>1. CASE Mark(p)
    <2>1. /\ job'[p] = [job[p] EXCEPT !.at = "files"] /\ job[p].at = "mark"
          /\ UNCHANGED <<disk, snaps>>
      BY <1>1, <1>j DEF Mark
    <2>2. /\ job'[p].at = "files" /\ job'[p].force = job[p].force /\ job'[p].snap = job[p].snap
          /\ job'[p].touched = job[p].touched /\ job'[p].rec = job[p].rec
      BY <2>1, <1>j DEF Job
    <2>3. Secured(p)'
      BY <2>1, <2>2, StaysSecured DEF Working
    <2> QED
      BY <1>j, <2>3, OneSecured
  <1>2. CASE RestoreFile(p)
    <2> DEFINE g == FilesOf[snaps[job[p].snap].plan][job[p].i]
    <2>1. /\ job'[p] = [job[p] EXCEPT !.i = @ - 1] /\ job[p].at = "files" /\ UNCHANGED snaps
          /\ disk' = [disk EXCEPT ![g] = snaps[job[p].snap].files[g]]
      BY <1>2, <1>j DEF RestoreFile
    <2> HIDE DEF g
    <2>2. /\ job'[p].at = job[p].at /\ job'[p].force = job[p].force /\ job'[p].snap = job[p].snap
          /\ job'[p].touched = job[p].touched /\ job'[p].rec = job[p].rec
      BY <2>1, <1>j DEF Job
    <2>3. ASSUME NEW f \in FileSet(snaps[job[p].snap].plan)
          PROVE  disk'[f] = disk[f] \/ disk'[f] = snaps[job[p].snap].files[f]
      <3>1. f \in Files
        <4>1. snaps[job[p].snap] \in Snapshot
          BY <2>1, <1>j DEF JobShape, Job, TypeOK
        <4> QED
          BY <4>1, FilesOfPlan DEF Snapshot
      <3>2. CASE f = g
        BY <2>1, <3>1, <3>2, <1>j DEF TypeOK
      <3>3. CASE f # g
        BY <2>1, <3>1, <3>3, <1>j DEF TypeOK
      <3> QED
        BY <3>2, <3>3
    <2>4. Secured(p)'
      BY <2>1, <2>2, <2>3, StaysSecured DEF Working
    <2> QED
      BY <1>j, <2>4, OneSecured
  <1>3. CASE Restored(p)
    <2>1. CASE Finish(p)
      BY <1>f, <2>1
    <2>2. CASE job' = [job EXCEPT ![p].at = "revoke"]
      <3>1. job'[p].at = "revoke"
        BY <2>2, <1>j DEF Job
      <3> QED
        BY <1>j, <3>1, NotWorking, OneSecured DEF Working
    <2> QED
      BY <1>3, <2>1, <2>2 DEF Restored
  <1>4. CASE Forward(p)
    <2>1. /\ job'[p] = [job[p] EXCEPT !.i = @ + 1] /\ job[p].at = "forward" /\ UNCHANGED snaps
          /\ Put(FilesOf[job[p].rec.plan][job[p].i],
                 job[p].rec.applied[FilesOf[job[p].rec.plan][job[p].i]])
          /\ job[p].rec # None
      BY <1>4, <1>j DEF Forward, JobShape
    <2>2. /\ job'[p].at = job[p].at /\ job'[p].force = job[p].force /\ job'[p].snap = job[p].snap
          /\ job'[p].touched = job[p].touched /\ job'[p].rec = job[p].rec
      BY <2>1, <1>j DEF Job
    <2>3. CASE job[p].force
      <3>1. Secured(p)'
        BY <2>2, <2>3 DEF Secured, Replaceable
      <3> QED
        BY <1>j, <3>1, OneSecured
    <2>4. CASE ~ job[p].force
      <3>1. job[p].rec.snap = job[p].snap
        BY <2>1, <2>4 DEF LossInv, Secured
      <3>2. FileSet(snaps[job[p].snap].plan) = DOMAIN job[p].rec.applied
        BY <2>1, <3>1, <1>j, WritesItsFiles DEF JobShape, RecordShape, Fits
      <3>3. \A f \in FileSet(snaps[job[p].snap].plan) :
              disk'[f] = disk[f] \/ disk'[f] = job[p].rec.applied[f]
        BY <2>1, <1>j DEF Put, TypeOK
      <3>4. Secured(p)'
        BY <2>1, <2>2, <3>2, <3>3, StaysSecured DEF Working
      <3> QED
        BY <1>j, <3>4, OneSecured
    <2> QED
      BY <2>3, <2>4
  <1>5. CASE Forwarded(p)
    BY <1>5, <1>f DEF Forwarded
  <1>6. CASE Revoke(p)
    <2>1. job'[p].at = "remove"
      BY <1>6, <1>j DEF Revoke, Job
    <2> QED
      BY <1>j, <2>1, NotWorking, OneSecured DEF Working
  <1>7. CASE Remove(p)
    BY <1>7, <1>f DEF Remove
  <1> QED
    BY <1>1, <1>2, <1>3, <1>4, <1>5, <1>6, <1>7 DEF Restoring

LEMMA FailingSecured ==
  ASSUME LossInv, NEW p \in Procs, Alone(p), Alone(p)', Failing(p)
  PROVE  LossInv'
  <1> USE DEF At, Goto, budget, history
  <1>j. /\ job[p] \in Job /\ JobShape(p) /\ TypeOK /\ job \in [Procs -> Job]
        /\ ShapeInv /\ ShapeInv'
    BY FailingShape DEF LossInv, ShapeInv, TypeOK
  <1>u. UNCHANGED <<disk, snaps>>
    BY DEF Failing, MisreadCreds, IntendFails, WriteFails, UndoFails, RestoreFails, ForwardFails, Quit
  <1>f. Finish(p) => LossInv'
    BY <1>j, FinishSecured, OneSecured
  <1>1. CASE IntendFails(p) \/ WriteFails(p)
    <2>1. job'[p] = [job[p] EXCEPT !.at = "disown"] /\ job[p].at \in {"intend", "write"}
      BY <1>1, <1>j DEF IntendFails, WriteFails
    <2>2. /\ job'[p].at = "disown" /\ job'[p].force = job[p].force /\ job'[p].snap = job[p].snap
          /\ job'[p].touched = job[p].touched /\ job'[p].rec = job[p].rec
      BY <2>1, <1>j DEF Job
    <2>3. Secured(p)'
      BY <1>u, <2>1, <2>2, StaysSecured DEF Working
    <2> QED
      BY <1>j, <2>3, OneSecured
  <1>2. CASE UndoFails(p) \/ ForwardFails(p)
    <2>1. /\ \/ job'[p] = [job[p] EXCEPT !.i = @ - 1, !.wrong = TRUE]
             \/ job'[p] = [job[p] EXCEPT !.i = @ + 1, !.wrong = TRUE]
          /\ job[p].at \in {"undo", "forward"}
      BY <1>2, <1>j DEF UndoFails, ForwardFails
    <2>2. /\ job'[p].at = job[p].at /\ job'[p].force = job[p].force /\ job'[p].snap = job[p].snap
          /\ job'[p].touched = job[p].touched /\ job'[p].rec = job[p].rec
      BY <2>1, <1>j DEF Job
    <2>3. Secured(p)'
      BY <1>u, <2>1, <2>2, StaysSecured DEF Working
    <2> QED
      BY <1>j, <2>3, OneSecured
  <1>3. CASE RestoreFails(p)
    <2>1. CASE job[p].rec = None
      BY <1>3, <1>f, <2>1 DEF RestoreFails
    <2>2. CASE job[p].rec # None
      <3>1. job'[p] = [job[p] EXCEPT !.at = "forward", !.i = 1] /\ job[p].at = "files"
        BY <1>3, <2>2, <1>j DEF RestoreFails
      <3>2. /\ job'[p].at = "forward" /\ job'[p].force = job[p].force /\ job'[p].snap = job[p].snap
            /\ job'[p].touched = job[p].touched /\ job'[p].rec = job[p].rec
        BY <3>1, <1>j DEF Job
      <3>3. Secured(p)'
        BY <1>u, <3>1, <3>2, StaysSecured DEF Working
      <3> QED
        BY <1>j, <3>3, OneSecured
    <2> QED
      BY <2>1, <2>2
  <1>4. CASE Quit(p)
    BY <1>4, <1>f DEF Quit
  <1>5. CASE MisreadCreds(p)
    <2>1. job'[p] = [job[p] EXCEPT !.creds = NoCreds] /\ job[p].at \in {"issue", "disown", "revoke"}
      BY <1>5, <1>j DEF MisreadCreds, Loading
    <2>2. /\ job'[p].at = job[p].at /\ job'[p].force = job[p].force /\ job'[p].snap = job[p].snap
          /\ job'[p].touched = job[p].touched /\ job'[p].rec = job[p].rec
      BY <2>1, <1>j DEF Job
    <2>3. CASE job[p].at = "revoke"
      BY <2>2, <2>3, NotWorking, OneSecured, <1>j DEF Working
    <2>4. CASE job[p].at # "revoke"
      <3>1. Secured(p)'
        BY <1>u, <2>1, <2>2, <2>4, StaysSecured DEF Working
      <3> QED
        BY <1>j, <3>1, OneSecured
    <2> QED
      BY <2>3, <2>4
  <1> QED
    BY <1>1, <1>2, <1>3, <1>4, <1>5 DEF Failing

\* A normal restore starts only where each file is as the takeover or its
\* snapshot has it.
LEMMA StartSecured ==
  ASSUME LossInv, NEW p \in Procs, Alone(p), Alone(p)', NEW s \in SnapIds, NEW force \in BOOLEAN,
         StartRestore(p, s, force)
  PROVE  LossInv'
  <1>1. /\ ShapeInv /\ ShapeInv' /\ TypeOK /\ job \in [Procs -> Job]
        /\ UNCHANGED <<disk, snaps, state>> /\ snaps[s] # None /\ MayRestore(s, force)
    BY StartRestoreShape DEF LossInv, StartRestore, ShapeInv, TypeOK
  <1>2. job'[p].force = force /\ job'[p].snap = s /\ job'[p].rec = state
    BY <1>1 DEF StartRestore, Idle
  <1>3. CASE force
    <2>1. Secured(p)'
      BY <1>2, <1>3 DEF Secured, Replaceable
    <2> QED
      BY <1>1, <2>1, OneSecured
  <1>4. CASE ~ force
    <2>1. state # None /\ s = state.snap /\ (Drifted => Recovering)
      BY <1>1, <1>4 DEF MayRestore
    <2>2. RecordShape(state)
      BY <1>1, <2>1 DEF ShapeInv, StateShape
    <2>3. DOMAIN state.applied = FileSet(snaps[s].plan)
      BY <2>1, <2>2 DEF RecordShape, Fits
    <2>4. \A f \in FileSet(snaps[s].plan) : disk[f] \in {state.applied[f], snaps[s].files[f]}
      BY <2>1, <2>3 DEF Drifted, FilesDrifted, Recovering
    <2>5. \A f \in FileSet(snaps[s].plan) : Replaceable(p, f)'
      BY <1>1, <1>2, <2>1, <2>3, <2>4 DEF Replaceable
    <2>6. FileSet(snaps[s].plan)' = FileSet(snaps[s].plan)
      BY <1>1 DEF FileSet
    <2>7. Secured(p)'
      BY <1>2, <2>1, <2>5, <2>6 DEF Secured, FileSet
    <2> QED
      BY <1>1, <2>7, OneSecured
  <1> QED
    BY <1>3, <1>4

LEMMA StartApplySecured ==
  ASSUME LossInv, NEW p \in Procs, Alone(p), Alone(p)', NEW s \in SnapIds \cup {None}, StartApply(p, s)
  PROVE  LossInv'
  <1>1. ShapeInv /\ ShapeInv'
    BY StartApplyShape DEF LossInv
  <1>2. job'[p].at \notin Working
    BY <1>1, StartsApply DEF Working
  <1> QED
    BY <1>1, <1>2, NotWorking, OneSecured

\* What somebody else rewrites while a command runs has changed under its hands.
LEMMA EnvironmentSecured ==
  ASSUME LossInv, Environment \/ \E s \in SnapIds, force \in BOOLEAN : TakeSnapshot(s, force)
  PROVE  LossInv'
  <1>j. job \in [Procs -> Job] /\ TypeOK /\ ShapeInv /\ ShapeInv'
    BY EnvironmentShape, TakeSnapshotShape DEF LossInv, ShapeInv, TypeOK
  <1>1. ASSUME NEW s \in SnapIds, NEW force \in BOOLEAN, TakeSnapshot(s, force) PROVE LossInv'
    <2>1. /\ UNCHANGED <<disk, job>>
          /\ \A t \in SnapIds : snaps[t] # None => snaps'[t] = snaps[t]
      BY <1>1, <1>j DEF TakeSnapshot, TypeOK
    <2>2. ASSUME NEW p \in Procs PROVE Secured(p)'
      <3>1. job[p].at \in Working => snaps'[job[p].snap] = snaps[job[p].snap]
        BY <2>1, <1>j DEF ShapeInv, JobShape, Working, Job
      <3>2. Secured(p)
        BY DEF LossInv
      <3> QED
        BY <2>1, <3>1, <3>2 DEF Secured, Replaceable, FileSet
    <2> QED
      BY <1>j, <2>2 DEF LossInv
  <1>2. ASSUME NEW f \in Files, NEW value \in Rewritings(f), Edit(f, value) PROVE LossInv'
    <2>1. UNCHANGED snaps /\ disk' = [disk EXCEPT ![f] = value]
      BY <1>2 DEF Edit
    <2>2. ASSUME NEW p \in Procs PROVE Secured(p)'
      <3>1. CASE job[p].at = "idle"
        BY <1>2, <3>1, NotWorking DEF Edit, At, Working
      <3>2. CASE job[p].at # "idle"
        <4>1. job'[p] = [job[p] EXCEPT !.touched = @ \cup {f}]
          BY <1>2, <3>2 DEF Edit, At
        <4>2. /\ job'[p].at = job[p].at /\ job'[p].force = job[p].force
              /\ job'[p].snap = job[p].snap /\ job'[p].rec = job[p].rec
              /\ job'[p].touched = job[p].touched \cup {f}
          BY <4>1, <1>j DEF Job
        <4>3. \A g \in Files : disk'[g] = disk[g] \/ g \in job'[p].touched
          BY <2>1, <4>2, <1>j DEF TypeOK
        <4>4. CASE job[p].at \in Working
          <5>1. snaps[job[p].snap] \in Snapshot
            BY <4>4, <1>j DEF ShapeInv, JobShape, Working, Job, TypeOK
          <5>2. FileSet(snaps[job[p].snap].plan) \subseteq Files
            BY <5>1, FilesOfPlan DEF Snapshot
          <5> QED
            BY <2>1, <4>2, <4>3, <4>4, <5>2, StaysSecured
        <4>5. CASE job[p].at \notin Working
          BY <4>2, <4>5, NotWorking
        <4> QED
          BY <4>4, <4>5
      <3> QED
        BY <3>1, <3>2
    <2> QED
      BY <1>j, <2>2 DEF LossInv
  <1>3. ASSUME UNCHANGED <<disk, snaps, job>> PROVE LossInv'
    BY <1>3, <1>j DEF LossInv, Secured, Replaceable, FileSet
  <1>4. ASSUME NEW plan \in Plans, EditProfile(plan) PROVE LossInv'
    BY <1>3, <1>4 DEF EditProfile
  <1>5. ASSUME NEW c \in CredIds, Expire(c) PROVE LossInv'
    BY <1>3, <1>5 DEF Expire
  <1> QED
    BY <1>1, <1>2, <1>4, <1>5 DEF Environment

LEMMA LossStep ==
  ASSUME LossInv, Apart, [Next]_vars, ~ overlapped'
  PROVE  LossInv'
  <1>1. CASE Next
    <2>1. ASSUME NEW p \in Procs, Acts(p) PROVE LossInv'
      BY <2>1, LoneStep, ApplyingSecured, RestoringSecured, FailingSecured DEF Acts, LossInv
    <2>2. ASSUME NEW p \in Procs, NEW s \in SnapIds \cup {None}, StartApply(p, s) PROVE LossInv'
      <3>1. Alone(p) /\ Alone(p)'
        BY <2>2, LoneStep DEF Starts, LossInv
      <3> QED
        BY <2>2, <3>1, StartApplySecured
    <2>3. ASSUME NEW p \in Procs, NEW s \in SnapIds, NEW force \in BOOLEAN, StartRestore(p, s, force)
          PROVE  LossInv'
      <3>1. Alone(p) /\ Alone(p)'
        BY <2>3, LoneStep DEF Starts, LossInv
      <3> QED
        BY <2>3, <3>1, StartSecured
    <2>4. Environment \/ (\E s \in SnapIds, force \in BOOLEAN : TakeSnapshot(s, force)) => LossInv'
      BY EnvironmentSecured
    <2> QED
      BY <1>1, <2>1, <2>2, <2>3, <2>4, Zenon DEF Next, Acts
  <1>2. CASE UNCHANGED vars
    <2>1. UNCHANGED <<disk, snaps, job>>
      BY <1>2 DEF vars
    <2>2. ShapeInv'
      BY <1>2, ShapeStep DEF LossInv
    <2> QED
      BY <2>1, <2>2 DEF LossInv, Secured, Replaceable, FileSet
  <1> QED
    BY <1>1, <1>2

\* The file a command writes is one of those it secured.
LEMMA WritesSecured ==
  ASSUME LossInv, NEW p \in Procs, Applying(p) \/ Restoring(p), NEW f \in Files, disk'[f] # disk[f]
  PROVE  Replaceable(p, f)
  <1> USE DEF At, Goto, budget, history
  <1>j. /\ job[p] \in Job /\ JobShape(p) /\ Secured(p) /\ TypeOK /\ job \in [Procs -> Job]
        /\ ShapeInv
    BY DEF LossInv, ShapeInv, TypeOK
  <1>p. job[p].at \in Working => snaps[job[p].snap] \in Snapshot
    BY <1>j DEF JobShape, Working, Job, TypeOK
  <1>1. CASE WriteFile(p) \/ Forward(p)
    <2>1. /\ job[p].at \in {"write", "forward"} /\ job[p].rec \in Record
          /\ f = FilesOf[job[p].rec.plan][job[p].i]
          /\ job[p].i \in Nat /\ job[p].i > 0 /\ ~ (job[p].i > Len(FilesOf[job[p].rec.plan]))
      BY <1>1, <1>j DEF WriteFile, Forward, Put, Written, TypeOK, JobShape, Job
    <2>2. f \in FileSet(job[p].rec.plan)
      <3>1. job[p].rec.plan \in Plans
        BY <2>1 DEF Record
      <3> QED
        BY <2>1, <3>1, FilesOfPlan
    <2>3. job[p].force \/ job[p].rec.snap = job[p].snap
      BY <1>j, <2>1, DistinctAssumption DEF JobShape, Secured
    <2> QED
      BY <1>j, <2>1, <2>2, <2>3, WritesItsFiles, DistinctAssumption DEF Secured, Working, Replaceable
  <1>2. CASE Undo(p)
    <2>1. /\ job[p].at = "undo" /\ job[p].rec \in Record /\ job[p].rec.snap = job[p].snap
          /\ f = FilesOf[job[p].rec.plan][job[p].i]
          /\ job[p].i \in Nat /\ job[p].i > 0 /\ job[p].i <= Len(FilesOf[job[p].rec.plan])
      BY <1>2, <1>j DEF Undo, Put, TypeOK, JobShape, Job
    <2>2. f \in FileSet(job[p].rec.plan)
      <3>1. job[p].rec.plan \in Plans
        BY <2>1 DEF Record
      <3> QED
        BY <2>1, <3>1, FilesOfPlan
    <2> QED
      BY <1>j, <2>1, <2>2, WritesItsFiles, DistinctAssumption DEF Secured, Working
  <1>3. CASE RestoreFile(p)
    <2>1. /\ job[p].at = "files" /\ f = FilesOf[snaps[job[p].snap].plan][job[p].i]
          /\ job[p].i \in Nat /\ job[p].i > 0
          /\ job[p].i <= Len(FilesOf[snaps[job[p].snap].plan])
      BY <1>3, <1>j DEF RestoreFile, TypeOK, JobShape, Job
    <2>2. f \in FileSet(snaps[job[p].snap].plan)
      <3>1. snaps[job[p].snap].plan \in Plans
        BY <2>1, <1>p DEF Working, Snapshot
      <3> QED
        BY <2>1, <3>1, FilesOfPlan
    <2> QED
      BY <1>j, <2>1, <2>2 DEF Secured, Working
  <1>4. CASE UNCHANGED disk
    BY <1>4
  <1> QED
    BY <1>1, <1>2, <1>3, <1>4 DEF Applying, Restoring, Capture, Check, LoadCreds, Issue, BuildFails,
       Intend, Activate, Disown, Undone, Mark, Restored, Forwarded, Revoke, Remove

LossUntilOverlap == ShapeInv /\ Apart /\ (overlapped \/ LossInv)

\* A change made to a native file before a command began is never lost to it
\* without force: neither to an apply, which compares the files with its
\* snapshot first, nor to the undoing of a failed one, nor to a restore or the
\* rolling forward of a failed one.  For any number of processes, until two run
\* commands at once.
THEOREM DirectNoSilentLoss == Spec => NoSilentLoss
  <1>1. Init => LossUntilOverlap
    BY ShapeInit, ApartInit, LossInit DEF LossUntilOverlap
  <1>2. LossUntilOverlap /\ [Next]_vars => LossUntilOverlap'
    BY ShapeStep, ApartStep, LossStep DEF LossUntilOverlap
  <1>3. LossUntilOverlap /\ [Next]_vars =>
          [~ overlapped => \A p \in Procs, f \in Files :
             disk'[f] # disk[f] /\ f \notin edited' /\ job'[p] # job[p] => Replaceable(p, f)]_vars
    <2> SUFFICES ASSUME LossInv, Next, NEW p \in Procs, NEW f \in Files,
                        disk'[f] # disk[f], f \notin edited', job'[p] # job[p]
                 PROVE  Replaceable(p, f)
      BY DEF LossUntilOverlap, vars
    <2>j. disk \in [Files -> Value] /\ ShapeInv
      BY DEF LossInv, ShapeInv, TypeOK
    <2>1. ASSUME NEW q \in Procs, Applying(q) \/ Restoring(q) PROVE Replaceable(p, f)
      <3>1. p = q
        BY <2>1, <2>j, ApplyingActs, RestoringActs
      <3> QED
        BY <2>1, <3>1, WritesSecured
    <2>2. ASSUME NEW q \in Procs, Failing(q) PROVE UNCHANGED disk
      BY <2>2 DEF Failing, MisreadCreds, IntendFails, WriteFails, UndoFails, RestoreFails, ForwardFails, Quit
    <2>3. ASSUME NEW q \in Procs, Starts(q) PROVE UNCHANGED disk
      BY <2>3 DEF Starts, StartApply, StartRestore
    <2>4. ASSUME Environment \/ \E s \in SnapIds, force \in BOOLEAN : TakeSnapshot(s, force) PROVE FALSE
      BY <2>4, <2>j DEF Environment, Edit, EditProfile, Expire, TakeSnapshot
    <2> QED
      BY <2>1, <2>2, <2>3, <2>4, Zenon DEF Next, Starts
  <1> QED
    BY <1>1, <1>2, <1>3, PTL DEF Spec, NoSilentLoss
=============================================================================
