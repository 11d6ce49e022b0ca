---------------------------- MODULE StoreProofs ----------------------------
(***************************************************************************)
(* Proofs about the durable store: its lock and revisions (DurableStore)   *)
(* for any processes, operations, deaths and failures, and its backups      *)
(* (BackupRotation) for any number of them, of loads, writes and damages.   *)
(***************************************************************************)
EXTENDS DurableStore, BackupRotation, FiniteSetTheorems, TLAPS

\* A process between the creation of its lock file and its removal.
Holding == {"stamp", "load", "write", "owner", "unlink"}

\* A process that has not created the lock file of its operation yet.
Trying == {"open", "holder", "judge", "recheck", "break"}

\* An acquisition that is under way or over: no lock file of its name is
\* created any more.
Spent(t) == t[2] < op[t[1]].n \/ (t[2] = op[t[1]].n /\ at[t[1]] \notin Trying)

Live(t) == t = Mine(t[1]) /\ at[t[1]] \in Holding

\* The lock file is that of whoever is between creation and removal.
Locked ==
  /\ \A p \in Procs : at[p] \in Holding => lock # None /\ lock.token = Mine(p)
  /\ lock # None => Spent(lock.token)
  /\ old => lock # None /\ ~Live(lock.token)

\* A holder found stale is nobody alive; a lock file found unreadable and
\* stale, or about to be broken, is that of nobody alive.
Judgement ==
  \A p \in Procs :
    /\ at[p] \in {"judge", "recheck"} /\ op[p].seen # None => Spent(op[p].seen)
    /\ at[p] = "recheck" /\ op[p].seen # None => ~Live(op[p].seen)
    /\ judged[p] # None =>
         /\ Spent(judged[p])
         /\ at[p] = "break" \/ (at[p] = "recheck" /\ op[p].seen = None) => ~Live(judged[p])

\* A revision names one content, and what is about to be written is based on
\* the document there is, unless it is to overwrite it.
Based ==
  \A p \in Procs :
    /\ op[p].read.rev <= doc.rev
    /\ op[p].kind # "overwrite" /\ op[p].read.rev = doc.rev => op[p].read.has = doc.has
    /\ at[p] = "write" => op[p].read.rev = doc.rev

\* No revision counts more writes than there were.
Counted ==
  /\ doc.rev <= Cardinality(committed)
  /\ \A p \in Procs : op[p].read.rev <= Cardinality(committed)
  /\ \A t \in committed :
       t[2] <= op[t[1]].n /\ (at[t[1]] \in Trying \cup {"stamp", "load", "write"} => t[2] < op[t[1]].n)

Kept == committed \ replaced \subseteq doc.has

Exclusive == ~overtaken => Locked /\ Judgement /\ Based /\ Kept

\* An operation has a number.
Numbered == \A p \in Procs : at[p] \notin {"idle", "dead"} => op[p].n > 0

StoreInv == TypeOK /\ Numbered /\ Counted /\ Exclusive

-----------------------------------------------------------------------------
(* Types and revisions                                                     *)

USE DEF Critical

LEMMA UpdatesFinite == IsFiniteSet(Updates) /\ Cardinality(Updates) \in Nat
<1>1. IsFiniteSet(1..MaxOps)
  BY BoundAssumption, FS_Interval
<1>2. IsFiniteSet(Updates)
  BY <1>1, BoundAssumption, FS_Product DEF Updates
<1>3. QED
  BY <1>2, FS_CardinalityType

LEMMA CommittedFinite ==
  ASSUME NEW S, S \subseteq Updates
  PROVE  IsFiniteSet(S) /\ Cardinality(S) \in Nat /\ Cardinality(S) <= Cardinality(Updates)
BY UpdatesFinite, FS_Subset, FS_CardinalityType

\* An operation of a process, and the update it makes.
LEMMA OperationType ==
  ASSUME TypeOK, NEW p \in Procs
  PROVE  /\ op[p] \in Operation /\ op[p].n \in 0..MaxOps /\ op[p].read \in Document
         /\ op[p].read.rev \in Nat
         /\ op[p].seen \in Updates \cup {None}
<1>1. op[p] \in Operation
  BY DEF TypeOK
<1>2. op[p].read \in Document
  BY <1>1 DEF Operation
<1>3. QED
  BY <1>1, <1>2, UpdatesFinite DEF Operation, Document

Control == {"idle", "open", "stamp", "holder", "judge", "recheck",
            "break", "owner", "unlink", "dead"} \cup Critical

\* What no step of a process but the one that takes it changes.
LEMMA ControlStep ==
  ASSUME TypeOK, Next
  PROVE  /\ at' \in [Procs -> Control]
         /\ old' \in BOOLEAN
         /\ overtaken' \in BOOLEAN
         /\ fails' \in 0..MaxFail
<1> USE BoundAssumption
<1>1. at' \in [Procs -> Control]
  BY DEF TypeOK, Control, Next, Step, Begin, Open, Stamp, StampFails, ReadHolder, Judge, TimeOut, Recheck, Break,
     Load, Write, ReadOwner, Unlink, Crash, Age
<1>2. old' \in BOOLEAN
  BY DEF TypeOK, Next, Step, Begin, Open, Stamp, StampFails, ReadHolder, Judge, TimeOut, Recheck, Break,
     Load, Write, ReadOwner, Unlink, Crash, Age
<1>3. overtaken' \in BOOLEAN
  BY DEF TypeOK, history, breaking, Next, Step, Begin, Open, Stamp, StampFails, ReadHolder, Judge, TimeOut, Recheck, Break,
     Load, Write, ReadOwner, Unlink, Crash, Age
<1>4. fails' \in 0..MaxFail
  BY DEF TypeOK, Next, Step, Begin, Open, Stamp, StampFails, ReadHolder, Judge, TimeOut, Recheck, Break,
     Load, Write, ReadOwner, Unlink, Crash, Age
<1>5. QED
  BY <1>1, <1>2, <1>3, <1>4

LEMMA MineType ==
  ASSUME TypeOK, Numbered, NEW p \in Procs, at[p] \notin {"idle", "dead"}
  PROVE  Mine(p) \in Updates /\ Mine(p)[1] = p /\ Mine(p)[2] = op[p].n
BY OperationType, BoundAssumption DEF Mine, Updates, Numbered

\* An operation gets its number when it begins, and keeps it.
LEMMA NumberStep ==
  ASSUME TypeOK, Next, NEW q \in Procs
  PROVE  \/ op'[q].n = op[q].n /\ (at[q] = "idle" => at'[q] = "idle")
         \/ at[q] = "idle" /\ at'[q] = "open" /\ op'[q].n = op[q].n + 1
<1> DEFINE Moved == \/ op'[q].n = op[q].n /\ (at[q] = "idle" => at'[q] = "idle")
                    \/ at[q] = "idle" /\ at'[q] = "open" /\ op'[q].n = op[q].n + 1
<1>1. ASSUME NEW p \in Procs, NEW kind \in Kinds, Begin(p, kind)
      PROVE  Moved
  BY <1>1, OperationType DEF Begin, TypeOK
<1>2. ASSUME NEW p \in Procs, ReadHolder(p)
      PROVE  Moved
  BY <1>2, OperationType DEF ReadHolder, TypeOK, Operation
<1>3. ASSUME NEW p \in Procs, Load(p)
      PROVE  Moved
  <2>1. at'[q] = "idle" <=> at[q] = "idle"
    BY <1>3 DEF Load, TypeOK
  <2>2. op'[q].n = op[q].n
    BY <1>3, OperationType DEF Load, TypeOK, Operation
  <2>3. QED
    BY <2>1, <2>2
<1>4. ASSUME NEW p \in Procs,
             (Step(p) /\ ~ReadHolder(p) /\ ~Load(p)) \/ TimeOut(p) \/ StampFails(p) \/ Crash(p)
      PROVE  Moved
  BY <1>4 DEF TypeOK, Step, Open, Stamp, StampFails, Judge, TimeOut, Recheck, Break, Write, ReadOwner, Unlink, Crash
<1>5. Age => Moved
  BY DEF Age
<1>6. QED
  BY <1>1, <1>2, <1>3, <1>4, <1>5 DEF Next

\* The operation record of a process changes when it begins, when it reads
\* whose the lock is, and when it loads.
LEMMA OperationStep ==
  ASSUME TypeOK, Numbered, Next
  PROVE  /\ op' \in [Procs -> Operation]
         /\ Numbered'
         /\ judged' \in [Procs -> Updates \cup {None}]
<1> USE BoundAssumption
<1>a. doc \in Document /\ (lock # None => lock.token \in Updates)
  BY DEF TypeOK, LockFile
<1>b. \A p \in Procs : op[p] \in Operation
  BY DEF TypeOK
<1>1. op' \in [Procs -> Operation]
  <2>1. ASSUME NEW p \in Procs, NEW kind \in Kinds, Begin(p, kind)
        PROVE  op' \in [Procs -> Operation]
    <3>1. [n |-> op[p].n + 1, kind |-> kind, read |-> doc, seen |-> None] \in Operation
      BY <2>1, <1>a, OperationType DEF Begin, Operation
    <3>2. QED
      BY <2>1, <3>1 DEF Begin, TypeOK
  <2>2. ASSUME NEW p \in Procs, ReadHolder(p)
        PROVE  op' \in [Procs -> Operation]
    <3>1. Info \in Updates \cup {None}
      BY <1>a DEF Info
    <3>2. [op[p] EXCEPT !.seen = Info] \in Operation
      BY <1>b, <3>1 DEF Operation
    <3>3. QED
      BY <2>2, <3>2 DEF ReadHolder, TypeOK
  <2>3. ASSUME NEW p \in Procs, Load(p)
        PROVE  op' \in [Procs -> Operation]
    <3>1. [op[p] EXCEPT !.read = doc] \in Operation
      BY <1>a, <1>b DEF Operation
    <3>2. [op[p].read EXCEPT !.rev = doc.rev] \in Document
      BY <1>a, OperationType DEF Document
    <3>3. [op[p] EXCEPT !.read = [op[p].read EXCEPT !.rev = doc.rev]] \in Operation
      BY <1>b, <3>2 DEF Operation
    <3>4. [op EXCEPT ![p].read.rev = doc.rev] = [op EXCEPT ![p] = [op[p] EXCEPT !.read = [op[p].read EXCEPT !.rev = doc.rev]]]
      BY DEF TypeOK
    <3>5. op' \in {op, [op EXCEPT ![p] = [op[p] EXCEPT !.read = doc]],
                   [op EXCEPT ![p] = [op[p] EXCEPT !.read = [op[p].read EXCEPT !.rev = doc.rev]]]}
      BY <2>3, <3>4 DEF Load
    <3>6. QED
      BY <3>1, <3>3, <3>5 DEF TypeOK
  <2>4. ASSUME NEW p \in Procs,
               (Step(p) /\ ~ReadHolder(p) /\ ~Load(p)) \/ TimeOut(p) \/ StampFails(p) \/ Crash(p)
        PROVE  op' = op
    BY <2>4 DEF Step, Open, Stamp, StampFails, Judge, TimeOut, Recheck, Break, Write, ReadOwner, Unlink, Crash
  <2>5. Age => op' = op
    BY DEF Age
  <2>6. QED
    BY <2>1, <2>2, <2>3, <2>4, <2>5 DEF Next, TypeOK
<1>2. Numbered'
  <2>1. ASSUME NEW q \in Procs, at'[q] \notin {"idle", "dead"}
        PROVE  op'[q].n > 0
    <3>1. at[q] # "dead"
      BY <2>1 DEF TypeOK, Next, Step, Begin, Open, Stamp, StampFails, ReadHolder, Judge, TimeOut, Recheck, Break,
         Load, Write, ReadOwner, Unlink, Crash, Age
    <3>2. QED
      BY <2>1, <3>1, NumberStep, OperationType DEF Numbered
  <2>2. QED
    BY <2>1 DEF Numbered
<1>3. judged' \in [Procs -> Updates \cup {None}]
  <2>1. Found \in Updates \cup {None}
    BY <1>a DEF Found
  <2>2. QED
    BY <2>1 DEF TypeOK, history, breaking, Next, Step, Begin, Open, Stamp, StampFails, ReadHolder, Judge, TimeOut, Recheck, Break,
     Load, Write, ReadOwner, Unlink, Crash, Age
<1>4. QED
  BY <1>1, <1>2, <1>3


\* What an operation is based on is the document it has last seen, and what it
\* writes is based on the revision its load found.
LEMMA ReadStep ==
  ASSUME TypeOK, Next, NEW q \in Procs
  PROVE  /\ op'[q].read.rev \in {op[q].read.rev, doc.rev}
         /\ op'[q].kind # "overwrite" =>
              op'[q].read = doc \/ (op'[q].read = op[q].read /\ op[q].kind # "overwrite")
         /\ at'[q] = "write" => (at[q] = "write" /\ op'[q].read = op[q].read) \/ op'[q].read.rev = doc.rev
<1> DEFINE Based1 == /\ op'[q].read.rev \in {op[q].read.rev, doc.rev}
                     /\ op'[q].kind # "overwrite" =>
                          op'[q].read = doc \/ (op'[q].read = op[q].read /\ op[q].kind # "overwrite")
                     /\ at'[q] = "write" => (at[q] = "write" /\ op'[q].read = op[q].read) \/ op'[q].read.rev = doc.rev
<1>1. ASSUME NEW p \in Procs, NEW kind \in Kinds, Begin(p, kind)
      PROVE  Based1
  BY <1>1, OperationType DEF Begin, TypeOK
<1>2. ASSUME NEW p \in Procs, ReadHolder(p)
      PROVE  Based1
  BY <1>2, OperationType DEF ReadHolder, TypeOK, Operation
<1>3. ASSUME NEW p \in Procs, Load(p)
      PROVE  Based1
  <2>1. CASE q # p \/ Conflicts(p)
    BY <1>3, <2>1, OperationType DEF Load, TypeOK, Operation
  <2>2. CASE q = p /\ ~Conflicts(p) /\ op[p].kind = "mutate"
    BY <1>3, <2>2, OperationType DEF Load, TypeOK, Operation
  <2>3. CASE q = p /\ ~Conflicts(p) /\ op[p].kind # "mutate"
    <3>1. /\ op'[p].read = [op[p].read EXCEPT !.rev = doc.rev] /\ op'[p].kind = op[p].kind
          /\ op[p].read \in Document
      BY <1>3, <2>3, OperationType DEF Load, TypeOK, Operation
    <3>2. op'[p].read.rev = doc.rev
      BY <3>1 DEF Document
    <3>3. op[p].kind # "overwrite" => op'[p].read = op[p].read
      <4>1. op[p].kind # "overwrite" => op[p].read.rev = doc.rev
        BY <2>3, OperationType DEF Conflicts, Operation, Kinds
      <4>2. QED
        BY <3>1, <4>1 DEF Document
    <3>4. QED
      BY <2>3, <3>1, <3>2, <3>3
  <2>4. QED
    BY <2>1, <2>2, <2>3
<1>4. ASSUME NEW p \in Procs,
             (Step(p) /\ ~ReadHolder(p) /\ ~Load(p)) \/ TimeOut(p) \/ StampFails(p) \/ Crash(p)
      PROVE  Based1
  BY <1>4 DEF TypeOK, Step, Open, Stamp, StampFails, Judge, TimeOut, Recheck, Break, Write, ReadOwner, Unlink, Crash
<1>5. Age => Based1
  BY DEF Age
<1>6. QED
  BY <1>1, <1>2, <1>3, <1>4, <1>5 DEF Next

\* Nobody but a writer at its write changes the document.
LEMMA Unwritten ==
  ASSUME TypeOK, Next
  PROVE  (\E p \in Procs : Write(p)) \/ (doc' = doc /\ committed' = committed /\ replaced' = replaced)
BY DEF history, Next, Step, Begin, Open, Stamp, StampFails, ReadHolder, Judge, TimeOut, Recheck, Break,
   Load, ReadOwner, Unlink, Crash, Age

Before == Trying \cup {"stamp", "load", "write"}

LEMMA CommitStep ==
  ASSUME TypeOK, Numbered, Counted, Next
  PROVE  /\ committed' \subseteq Updates /\ doc' \in Document /\ Counted'
         /\ replaced' \subseteq Updates
<1>a. committed \subseteq Updates /\ doc \in Document /\ doc.rev \in Nat
  BY UpdatesFinite DEF TypeOK, Document
<1>b. /\ IsFiniteSet(committed) /\ Cardinality(committed) \in Nat
      /\ Cardinality(committed) <= Cardinality(Updates)
  BY <1>a, CommittedFinite
<1>1. ASSUME NEW p \in Procs, Write(p)
      PROVE  committed' \subseteq Updates /\ doc' \in Document /\ Counted'
  <2>1. /\ Mine(p) \in Updates /\ Mine(p)[1] = p /\ Mine(p)[2] = op[p].n
        /\ at[p] = "write" /\ at' = [at EXCEPT ![p] = "owner"] /\ op' = op
        /\ committed' = committed \cup {Mine(p)}
    BY <1>1, MineType DEF Write
  <2>2. Mine(p) \notin committed
    BY <2>1, OperationType DEF Counted
  <2>3. /\ committed' \subseteq Updates
        /\ Cardinality(committed') = Cardinality(committed) + 1
    BY <1>a, <1>b, <2>1, <2>2, FS_AddElement
  <2>4. Cardinality(committed') \in Nat /\ Cardinality(committed') <= Cardinality(Updates)
    BY <2>3, CommittedFinite
  <2>5. doc'.rev = op[p].read.rev + 1 /\ doc'.has = op[p].read.has \cup {Mine(p)}
        /\ doc' = [rev |-> op[p].read.rev + 1, has |-> op[p].read.has \cup {Mine(p)}]
    BY <1>1 DEF Write, NextRevision
  <2>6. doc'.rev <= Cardinality(committed')
    BY <1>b, <2>3, <2>5, OperationType DEF Counted
  <2>7. doc' \in Document
    BY <2>1, <2>4, <2>5, <2>6, UpdatesFinite, OperationType DEF Document
  <2>8. \A q \in Procs : op'[q].read.rev <= Cardinality(committed')
    BY <1>b, <2>1, <2>3, OperationType DEF Counted
  <2>9. ASSUME NEW t \in committed'
        PROVE  t[2] <= op'[t[1]].n /\ (at'[t[1]] \in Before => t[2] < op'[t[1]].n)
    <3>1. CASE t = Mine(p)
      BY <2>1, <3>1, OperationType DEF Before, Trying, TypeOK
    <3>2. CASE t # Mine(p)
      BY <2>1, <3>2 DEF Counted, Before, Trying, TypeOK
    <3>3. QED
      BY <3>1, <3>2
  <2>10. QED
    BY <2>3, <2>6, <2>7, <2>8, <2>9 DEF Counted, Before
<1>2. ASSUME doc' = doc /\ committed' = committed
      PROVE  Counted'
  <2>1. \A q \in Procs : op'[q].read.rev <= Cardinality(committed')
    BY <1>2, ReadStep DEF Counted
  <2>2. ASSUME NEW t \in committed'
        PROVE  t[2] <= op'[t[1]].n /\ (at'[t[1]] \in Before => t[2] < op'[t[1]].n)
    <3>1. t \in committed /\ t \in Updates /\ t[1] \in Procs /\ t[2] \in Nat /\ op[t[1]].n \in Nat
      BY <1>2, <1>a, OperationType, BoundAssumption DEF Updates
    <3>2. at[t[1]] \in Before => t[2] < op[t[1]].n
      BY <3>1 DEF Counted, Before
    <3>3. at'[t[1]] \in Before => at[t[1]] \in Before \/ at[t[1]] = "idle"
      BY <3>1 DEF Before, Trying, TypeOK, Next, Step, Begin, Open, Stamp, StampFails, ReadHolder, Judge, TimeOut, Recheck, Break,
         Load, Write, ReadOwner, Unlink, Crash, Age
    <3>4. t[2] <= op[t[1]].n
      BY <3>1 DEF Counted
    <3>5. \/ op'[t[1]].n = op[t[1]].n /\ (at[t[1]] = "idle" => at'[t[1]] = "idle")
          \/ op'[t[1]].n = op[t[1]].n + 1
      BY <3>1, NumberStep
    <3>6. QED
      BY <3>1, <3>2, <3>3, <3>4, <3>5 DEF Before, Trying
  <2>3. QED
    BY <1>2, <2>1, <2>2 DEF Counted, Before
<1>3. replaced' \subseteq Updates
  <2>1. ASSUME NEW p \in Procs, Write(p)
        PROVE  replaced' \subseteq Updates
    BY <2>1, <1>a DEF Write, TypeOK, Document
  <2>2. QED
    BY <2>1, Unwritten DEF TypeOK
<1>4. QED
  BY <1>a, <1>1, <1>2, <1>3, Unwritten

LEMMA TypeStep ==
  ASSUME TypeOK, Numbered, Counted, Next
  PROVE  TypeOK'
<1>1. lock' \in LockFile \cup {None}
  <2>1. ASSUME NEW p \in Procs, Open(p)
        PROVE  lock' \in LockFile \cup {None}
    <3>1. Mine(p) \in Updates
      BY <2>1, MineType DEF Open
    <3>2. lock' \in {lock, [token |-> Mine(p), stamped |-> FALSE]}
      BY <2>1 DEF Open
    <3>3. [token |-> Mine(p), stamped |-> FALSE] \in LockFile
      BY <3>1 DEF LockFile
    <3>4. QED
      BY <3>2, <3>3 DEF TypeOK
  <2>2. ASSUME NEW p \in Procs, Stamp(p)
        PROVE  lock' \in LockFile \cup {None}
    BY <2>2 DEF Stamp, TypeOK, LockFile
  <2>3. ASSUME NEW p \in Procs,
               (Step(p) /\ ~Open(p) /\ ~Stamp(p)) \/ TimeOut(p) \/ StampFails(p) \/ Crash(p)
                 \/ (\E kind \in Kinds : Begin(p, kind)) \/ Age
        PROVE  lock' \in {lock, None}
    BY <2>3 DEF Step, Begin, StampFails, ReadHolder, Judge, TimeOut, Recheck, Break, Load, Write, ReadOwner,
       Unlink, Crash, Age
  <2>4. Age => lock' = lock
    BY DEF Age
  <2>5. QED
    BY <2>1, <2>2, <2>3, <2>4 DEF Next, TypeOK
<1>2. QED
  BY <1>1, ControlStep, OperationStep, CommitStep DEF TypeOK, Control

-----------------------------------------------------------------------------
(* One holder                                                              *)

\* The lock file a process creates bears its name.
LEMMA Creation ==
  ASSUME TypeOK, Numbered, NEW p \in Procs, Open(p), lock = None
  PROVE  /\ at[p] = "open" /\ at'[p] = "stamp" /\ op' = op
         /\ lock' # None /\ lock'.token = Mine(p) /\ ~old'
<1>1. Mine(p) \in Updates
  BY MineType DEF Open
<1>2. [token |-> Mine(p), stamped |-> FALSE] \in LockFile
  BY <1>1 DEF LockFile
<1>3. lock' = [token |-> Mine(p), stamped |-> FALSE] /\ at[p] = "open" /\ at'[p] = "stamp" /\ op' = op /\ ~old'
  BY DEF Open, TypeOK
<1>4. lock'.token = Mine(p)
  BY <1>3
<1>5. QED
  BY <1>2, <1>3, <1>4, BoundAssumption

\* How a process comes to try, to hold and to judge.
LEMMA PathStep ==
  ASSUME TypeOK, Numbered, Next, NEW q \in Procs
  PROVE  /\ at[q] = "dead" => at'[q] = "dead"
         /\ at'[q] \in Trying => at[q] \in Trying \cup {"idle"}
         /\ at'[q] \in Holding => at[q] \in Holding \/ (at[q] = "open" /\ lock = None /\ lock' # None)
         /\ at'[q] = "judge" => at[q] = "judge" \/ ReadHolder(q)
         /\ at'[q] = "recheck" => at[q] = "recheck" \/ Judge(q)
         /\ at'[q] = "break" => at[q] = "break" \/ Recheck(q)
<1>1. at[q] = "dead" => at'[q] = "dead"
  BY DEF TypeOK, Next, Step, Begin, Open, Stamp, StampFails, ReadHolder, Judge, TimeOut, Recheck, Break,
     Load, Write, ReadOwner, Unlink, Crash, Age
<1>2. at'[q] \in Trying => at[q] \in Trying \cup {"idle"}
  BY DEF Trying, TypeOK, Next, Step, Begin, Open, Stamp, StampFails, ReadHolder, Judge, TimeOut, Recheck, Break,
     Load, Write, ReadOwner, Unlink, Crash, Age
<1>3. at'[q] \in Holding => at[q] \in Holding \/ (at[q] = "open" /\ lock = None /\ lock' # None)
  <2>1. ASSUME NEW p \in Procs, p # q, \/ Step(p) \/ TimeOut(p) \/ StampFails(p) \/ Crash(p)
                                         \/ \E kind \in Kinds : Begin(p, kind)
        PROVE  at'[q] = at[q]
    BY <2>1 DEF TypeOK, Step, Begin, Open, Stamp, StampFails, ReadHolder, Judge, TimeOut, Recheck, Break,
       Load, Write, ReadOwner, Unlink, Crash
  <2>2. Age => at' = at
    BY DEF Age
  <2>4. at'[q] \in Holding => at[q] \in Holding \/ at[q] = "open"
    BY DEF Holding, TypeOK, Next, Step, Begin, Open, Stamp, StampFails, ReadHolder, Judge, TimeOut, Recheck, Break,
       Load, Write, ReadOwner, Unlink, Crash, Age
  <2>5. ASSUME \/ Step(q) \/ TimeOut(q) \/ StampFails(q) \/ Crash(q)
               \/ \E kind \in Kinds : Begin(q, kind),
               at[q] = "open", at'[q] \in Holding
        PROVE  Open(q) /\ lock = None
    <3>1. Open(q)
      BY <2>5 DEF Holding, TypeOK, Step, Begin, Stamp, StampFails, ReadHolder, Judge, TimeOut, Recheck, Break,
         Load, Write, ReadOwner, Unlink, Crash
    <3>2. lock = None
      BY <2>5, <3>1 DEF Holding, TypeOK, Open
    <3>3. QED
      BY <3>1, <3>2
  <2>6. at[q] = "open" /\ at'[q] \in Holding => lock = None /\ lock' # None
    <3>1. SUFFICES ASSUME at[q] = "open", at'[q] \in Holding
                   PROVE  lock = None /\ lock' # None
      OBVIOUS
    <3>2. \/ Step(q) \/ TimeOut(q) \/ StampFails(q) \/ Crash(q)
          \/ \E kind \in Kinds : Begin(q, kind)
      <4>1. at'[q] # at[q]
        BY <3>1 DEF Holding
      <4>2. QED
        BY <2>1, <2>2, <4>1 DEF Next
    <3>3. QED
      BY <2>5, <3>1, <3>2, Creation
  <2>7. QED
    BY <2>4, <2>6
<1>4. at'[q] = "recheck" => at[q] = "recheck" \/ Judge(q)
  BY DEF TypeOK, Next, Step, Begin, Open, Stamp, StampFails, ReadHolder, Judge, TimeOut, Recheck, Break,
     Load, Write, ReadOwner, Unlink, Crash, Age
<1>5. at'[q] = "break" => at[q] = "break" \/ Recheck(q)
  BY DEF TypeOK, Next, Step, Begin, Open, Stamp, StampFails, ReadHolder, Judge, TimeOut, Recheck, Break,
     Load, Write, ReadOwner, Unlink, Crash, Age
<1>6. at'[q] = "judge" => at[q] = "judge" \/ ReadHolder(q)
  BY DEF TypeOK, Next, Step, Begin, Open, Stamp, StampFails, ReadHolder, Judge, TimeOut, Recheck, Break,
     Load, Write, ReadOwner, Unlink, Crash, Age
<1>7. QED
  BY <1>1, <1>2, <1>3, <1>4, <1>5, <1>6

\* Two processes do not create the lock file in one step.
LEMMA OneOpens ==
  ASSUME TypeOK, Next, NEW p \in Procs, NEW q \in Procs,
         at[p] = "open", at[q] = "open", at'[p] # "open", at'[q] # "open"
  PROVE  p = q
BY DEF TypeOK, Next, Step, Begin, Open, Stamp, StampFails, ReadHolder, Judge, TimeOut, Recheck, Break,
   Load, Write, ReadOwner, Unlink, Crash, Age

\* What a process has read of the holder stays until it reads again.
LEMMA SeenStep ==
  ASSUME TypeOK, Next, NEW q \in Procs, at[q] \in {"judge", "recheck"}
  PROVE  op'[q].seen = op[q].seen
<1>1. ASSUME NEW p \in Procs, p # q, \/ Step(p) \/ TimeOut(p) \/ StampFails(p) \/ Crash(p)
                                       \/ \E kind \in Kinds : Begin(p, kind)
      PROVE  op'[q] = op[q]
  BY <1>1 DEF TypeOK, Step, Begin, Open, Stamp, StampFails, ReadHolder, Judge, TimeOut, Recheck, Break,
     Load, Write, ReadOwner, Unlink, Crash
<1>2. ASSUME \/ Step(q) \/ TimeOut(q) \/ StampFails(q) \/ Crash(q)
             \/ \E kind \in Kinds : Begin(q, kind)
      PROVE  op' = op
  BY <1>2 DEF Step, Begin, Open, Stamp, StampFails, ReadHolder, Judge, TimeOut, Recheck, Break,
     Load, Write, ReadOwner, Unlink, Crash
<1>3. Age => op' = op
  BY DEF Age
<1>4. QED
  BY <1>1, <1>2, <1>3 DEF Next

\* A spent acquisition stays spent, and one that is over is never live again.
LEMMA SpentStep ==
  ASSUME TypeOK, Numbered, Next, NEW t \in Updates, Spent(t)
  PROVE  Spent(t)' /\ (Live(t)' => Live(t))
<1>1. t[1] \in Procs /\ t[2] \in Nat /\ op[t[1]].n \in Nat /\ at[t[1]] \in Control
  BY OperationType, BoundAssumption DEF Updates, TypeOK, Control
<1>2. \/ op'[t[1]].n = op[t[1]].n /\ (at[t[1]] = "idle" => at'[t[1]] = "idle")
      \/ at[t[1]] = "idle" /\ at'[t[1]] = "open" /\ op'[t[1]].n = op[t[1]].n + 1
  BY <1>1, NumberStep
<1>3. /\ at'[t[1]] \in Trying => at[t[1]] \in Trying \cup {"idle"}
      /\ at'[t[1]] \in Holding => at[t[1]] \in Holding \/ at[t[1]] = "open"
  BY <1>1, PathStep
<1>4. Spent(t)'
  BY <1>1, <1>2, <1>3 DEF Spent, Trying
<1>5. t = <<t[1], t[2]>>
  BY DEF Updates
<1>6. Live(t)' => Live(t)
  BY <1>1, <1>2, <1>3, <1>5 DEF Spent, Live, Mine, Trying, Holding
<1>7. QED
  BY <1>4, <1>6

\* Two processes do not hold one lock file, nor does one while it tries.
LEMMA OneOwner ==
  ASSUME TypeOK, Locked, NEW p \in Procs, NEW q \in Procs, at[p] \in Holding, at[q] \in Holding
  PROVE  p = q
BY DEF Locked, Mine

\* The acquisition of a process that holds the lock keeps its name.
LEMMA MineStep ==
  ASSUME TypeOK, Numbered, Next, NEW q \in Procs, at[q] # "idle"
  PROVE  Mine(q)' = Mine(q)
BY NumberStep DEF Mine

LEMMA LockFileType ==
  ASSUME TypeOK, lock # None
  PROVE  lock.token \in Updates
BY DEF TypeOK, LockFile

\* What happens to the lock file, unless another than the judged is broken.
LEMMA LockStep ==
  ASSUME TypeOK, Numbered, Next, ~overtaken', Locked, Judgement
  PROVE  \/ /\ lock' # None /\ lock # None /\ lock'.token = lock.token
            /\ old' => old \/ Age
         \/ /\ lock' = None /\ ~old'
            /\ \A q \in Procs : at'[q] \notin Holding
         \/ /\ lock = None /\ ~old' /\ \E p \in Procs : lock' # None /\ lock'.token = Mine(p) /\ op' = op /\ at'[p] = "stamp"
<1> DEFINE Keeps == lock' # None /\ lock # None /\ lock'.token = lock.token /\ (old' => old \/ Age)
           Frees == lock' = None /\ ~old' /\ \A q \in Procs : at'[q] \notin Holding
           Takes == lock = None /\ ~old' /\ \E p \in Procs : lock' # None /\ lock'.token = Mine(p) /\ op' = op /\ at'[p] = "stamp"
<1>a. lock = None => ~old /\ \A q \in Procs : at[q] \notin Holding
  BY DEF Locked
<1>1. ASSUME NEW p \in Procs, Open(p)
      PROVE  Keeps \/ Takes
  <2>1. CASE lock # None
    BY <1>1, <2>1 DEF Open
  <2>2. CASE lock = None
    BY <1>1, <2>2, Creation
  <2>3. QED
    BY <2>1, <2>2
<1>2. ASSUME lock' = lock, old' = old \/ Age
      PROVE  Keeps \/ Frees
  <2>1. CASE lock # None
    BY <1>2, <2>1
  <2>2. CASE lock = None
    <3>1. ~Age
      BY <2>2 DEF Age
    <3>2. \A q \in Procs : at'[q] \notin Holding
      BY <1>a, <1>2, <2>2, PathStep
    <3>3. QED
      BY <1>a, <1>2, <2>2, <3>1, <3>2
  <2>3. QED
    BY <2>1, <2>2
<1>3. ASSUME NEW p \in Procs, Stamp(p)
      PROVE  Keeps \/ Frees
  <2>1. CASE lock = None \/ lock.token # Mine(p)
    BY <1>2, <1>3, <2>1 DEF Stamp
  <2>2. CASE lock # None /\ lock.token = Mine(p)
    <3>1. lock' = [lock EXCEPT !.stamped = TRUE] /\ old' = old
      BY <1>3, <2>2 DEF Stamp
    <3>2. lock \in LockFile
      BY <2>2 DEF TypeOK
    <3>3. lock' \in LockFile /\ lock'.token = lock.token
      BY <3>1, <3>2 DEF LockFile
    <3>4. lock' # None
      BY <2>2, <3>3, BoundAssumption DEF LockFile
    <3>5. QED
      BY <2>2, <3>1, <3>3, <3>4
  <2>3. QED
    BY <2>1, <2>2
<1>4. ASSUME NEW p \in Procs, Break(p)
      PROVE  Frees
  <2>1. at[p] = "break" /\ at' = [at EXCEPT ![p] = "open"] /\ lock' = None /\ ~old' /\ Found \in {None, judged[p]}
    BY <1>4 DEF Break
  <2>2. ASSUME NEW q \in Procs, at[q] \in Holding
        PROVE  FALSE
    <3>1. lock # None /\ lock.token = Mine(q)
      BY <2>2 DEF Locked
    <3>2. lock.token \in Updates /\ lock.token # None
      BY <3>1, LockFileType, BoundAssumption DEF Updates
    <3>3. judged[p] = Mine(q) /\ judged[p] # None
      BY <2>1, <3>1, <3>2 DEF Found
    <3>4. ~Live(Mine(q))
      BY <2>1, <3>3 DEF Judgement
    <3>5. QED
      BY <2>2, <3>4 DEF Live, Mine
  <2>3. QED
    BY <2>1, <2>2 DEF TypeOK, Holding
<1>5. ASSUME NEW p \in Procs, Unlink(p)
      PROVE  Frees
  <2>1. at[p] = "unlink" /\ at' = [at EXCEPT ![p] = "idle"] /\ lock' = None /\ ~old'
    BY <1>5 DEF Unlink
  <2>2. \A q \in Procs : at[q] \in Holding => q = p
    BY <2>1, OneOwner DEF Holding
  <2>3. QED
    BY <2>1, <2>2 DEF TypeOK, Holding
<1>6. ASSUME NEW p \in Procs,
             (Step(p) /\ ~Open(p) /\ ~Stamp(p) /\ ~Break(p) /\ ~Unlink(p)) \/ TimeOut(p) \/ StampFails(p)
               \/ Crash(p) \/ (\E kind \in Kinds : Begin(p, kind))
      PROVE  lock' = lock /\ old' = old
  BY <1>6 DEF Step, Begin, StampFails, ReadHolder, Judge, TimeOut, Recheck, Load, Write, ReadOwner, Crash
<1>7. Age => lock' = lock
  BY DEF Age
<1>8. QED
  BY <1>1, <1>2, <1>3, <1>4, <1>5, <1>6, <1>7 DEF Next

LEMMA LockedStep ==
  ASSUME TypeOK, Numbered, Next, ~overtaken', Locked, Judgement
  PROVE  Locked'
<1>1. ASSUME NEW q \in Procs, at'[q] \in Holding
      PROVE  lock' # None /\ lock'.token = Mine(q)'
  <2>1. CASE at[q] \in Holding
    <3>1. lock # None /\ lock.token = Mine(q) /\ Mine(q)' = Mine(q)
      BY <2>1, MineStep DEF Locked, Holding
    <3>2. QED
      BY <1>1, <3>1, LockStep
  <2>2. CASE at[q] \notin Holding
    <3>1. at[q] = "open" /\ lock = None /\ lock' # None
      BY <1>1, <2>2, PathStep
    <3>2. PICK p \in Procs : lock'.token = Mine(p) /\ op' = op /\ at'[p] = "stamp"
      BY <3>1, LockStep
    <3>3. at[p] \notin Holding
      BY <3>1 DEF Locked
    <3>4. at[p] = "open"
      BY <3>2, <3>3, PathStep DEF Holding
    <3>5. p = q
      BY <1>1, <3>1, <3>2, <3>4, OneOpens DEF Holding
    <3>6. QED
      BY <3>1, <3>2, <3>5 DEF Mine
  <2>3. QED
    BY <2>1, <2>2
<1>2. (lock # None => Spent(lock.token))'
  <2>1. ASSUME lock' # None, lock # None, lock'.token = lock.token
        PROVE  Spent(lock.token)'
    <3>1. lock.token \in Updates /\ Spent(lock.token)
      BY <2>1, LockFileType DEF Locked
    <3>2. PICK t \in Updates : t = lock.token
      BY <3>1
    <3>3. Spent(t)'
      BY <3>1, <3>2, SpentStep
    <3>4. QED
      BY <2>1, <3>2, <3>3 DEF Spent
  <2>2. ASSUME NEW p \in Procs, lock'.token = Mine(p), op' = op, at'[p] = "stamp"
        PROVE  Spent(lock.token)'
    <3>1. lock'.token[1] = p /\ lock'.token[2] = op'[p].n
      BY <2>2 DEF Mine
    <3>2. QED
      BY <2>2, <3>1 DEF Spent, Trying
  <2>3. QED
    BY <2>1, <2>2, LockStep
<1>3. (old => lock # None /\ ~Live(lock.token))'
  <2>1. SUFFICES ASSUME old', lock' # None, lock # None, lock'.token = lock.token, old \/ Age
                 PROVE  ~Live(lock.token)'
    BY LockStep
  <2>2. PICK t \in Updates : t = lock.token
    BY <2>1, LockFileType
  <2>3. ~Live(t)
    <3>1. CASE old
      BY <2>2, <3>1 DEF Locked
    <3>2. CASE Age
      BY <2>2, <3>2 DEF Age, Abandoned, Live, Holding
    <3>3. QED
      BY <2>1, <3>1, <3>2
  <2>4. ~Live(t)'
    BY <2>1, <2>2, <2>3, SpentStep DEF Locked
  <2>5. QED
    BY <2>1, <2>2, <2>4 DEF Live, Mine
<1>4. QED
  BY <1>1, <1>2, <1>3 DEF Locked

\* What a process reads of a holder is an acquisition that has been made.
LEMMA InfoType ==
  ASSUME TypeOK, Locked, Info # None
  PROVE  Info \in Updates /\ Spent(Info) /\ Info = lock.token /\ Found = Info
BY LockFileType DEF Info, Found, Locked

LEMMA SeenJudged ==
  ASSUME TypeOK, Numbered, Next, Locked, Judgement, NEW q \in Procs,
         at'[q] \in {"judge", "recheck"}, op'[q].seen # None
  PROVE  Spent(op[q].seen)' /\ (at'[q] = "recheck" => ~Live(op[q].seen)')
<1>1. \/ at[q] \in {"judge", "recheck"} /\ op'[q].seen = op[q].seen
      \/ ReadHolder(q)
  <2>1. CASE at'[q] = "judge"
    BY <2>1, SeenStep, PathStep
  <2>2. CASE at'[q] = "recheck"
    <3>1. at[q] = "recheck" \/ Judge(q)
      BY <2>2, PathStep
    <3>2. at[q] \in {"judge", "recheck"}
      BY <3>1 DEF Judge
    <3>3. QED
      BY <3>2, SeenStep
  <2>3. QED
    BY <2>1, <2>2
<1>2. CASE ReadHolder(q)
  <2>1. at[q] = "holder" /\ at'[q] = "judge" /\ op'[q].seen = Info
    BY <1>2, OperationType DEF ReadHolder, TypeOK, Operation
  <2>2. PICK t \in Updates : t = Info /\ Spent(t)
    BY <2>1, InfoType
  <2>3. Spent(t)'
    BY <2>2, SpentStep
  <2>4. QED
    BY <2>1, <2>2, <2>3 DEF Spent
<1>3. CASE at[q] \in {"judge", "recheck"} /\ op'[q].seen = op[q].seen
  <2>1. PICK t \in Updates : t = op[q].seen
    BY <1>3, OperationType
  <2>2. Spent(t)
    BY <1>3, <2>1 DEF Judgement
  <2>3. Spent(t)' /\ (Live(t)' => Live(t))
    BY <2>2, SpentStep
  <2>4. ASSUME at'[q] = "recheck", Live(t)
        PROVE  FALSE
    <3>1. at[q] # "recheck"
      BY <1>3, <2>1, <2>4 DEF Judgement
    <3>2. Stale(t)
      BY <2>1, <2>4, <3>1, PathStep DEF Judge, TypeOK
    <3>3. t[1] \in Procs /\ at[t[1]] \in Holding /\ t = Mine(t[1])
      BY <2>4 DEF Live, Updates
    <3>4. lock # None /\ lock.token = t
      BY <3>3 DEF Locked
    <3>5. ~old
      BY <2>4, <3>4 DEF Locked
    <3>6. at[t[1]] = "dead"
      BY <3>2, <3>4, <3>5 DEF Stale
    <3>7. QED
      BY <3>3, <3>6 DEF Holding
  <2>5. QED
    BY <1>3, <2>1, <2>3, <2>4 DEF Live, Spent, Mine
<1>4. QED
  BY <1>1, <1>2, <1>3

LEMMA JudgementStep ==
  ASSUME TypeOK, Numbered, Next, ~overtaken', Locked, Judgement
  PROVE  Judgement'
<1>1. SUFFICES ASSUME NEW q \in Procs, judged'[q] # None
               PROVE  (/\ Spent(judged[q])
                       /\ at[q] = "break" \/ (at[q] = "recheck" /\ op[q].seen = None) => ~Live(judged[q]))'
  BY SeenJudged DEF Judgement
<1>2. \/ judged'[q] = judged[q]
      \/ Judge(q) /\ Stale(op[q].seen) /\ judged'[q] = Found
      \/ Recheck(q) /\ Info = op[q].seen /\ Info # None /\ judged'[q] = Found
  BY <1>1 DEF TypeOK, history, breaking, Next, Step, Begin, Open, Stamp, StampFails, ReadHolder, Judge, TimeOut,
     Recheck, Unchanged, Break, Load, Write, ReadOwner, Unlink, Crash, Age
<1>3. PICK t \in Updates : t = judged'[q]
  BY <1>1, OperationStep
<1>4. Spent(t)
  BY <1>1, <1>2, <1>3 DEF Found, Locked, Judgement
<1>5. Spent(t)' /\ (Live(t)' => Live(t))
  BY <1>4, SpentStep
<1>6. at'[q] = "break" => ~Live(t)
  <2>1. CASE at[q] = "break" /\ judged'[q] = judged[q]
    BY <1>1, <1>3, <2>1 DEF Judgement
  <2>2. CASE Judge(q)
    BY <2>2 DEF Judge, TypeOK
  <2>3. CASE Recheck(q) /\ at'[q] = "break"
    <3>1. at[q] = "recheck" /\ Info = op[q].seen
      BY <2>3 DEF Recheck, Unchanged, TypeOK
    <3>2. CASE Info = None
      <4>1. judged'[q] = judged[q]
        BY <2>3, <3>1, <3>2 DEF Recheck, Unchanged, TypeOK
      <4>2. QED
        BY <1>1, <1>3, <3>1, <3>2, <4>1 DEF Judgement
    <3>3. CASE Info # None
      <4>1. t = Info
        BY <1>3, <2>3, <3>1, <3>3, InfoType DEF Recheck, Unchanged, TypeOK
      <4>2. QED
        BY <3>1, <3>3, <4>1 DEF Judgement
    <3>4. QED
      BY <3>2, <3>3
  <2>4. CASE at[q] = "break" /\ judged'[q] # judged[q]
    BY <1>2, <2>4 DEF Judge, Recheck
  <2>5. QED
    BY <2>1, <2>3, <2>4, PathStep
<1>7. ASSUME at'[q] = "recheck", op'[q].seen = None
      PROVE  ~Live(t)
  <2>1. CASE at[q] = "recheck"
    <3>1. op[q].seen = None
      BY <1>7, <2>1, SeenStep
    <3>2. judged'[q] = judged[q]
      BY <1>2, <1>7, <2>1, <3>1 DEF Judge, Recheck, Unchanged, TypeOK
    <3>3. QED
      BY <1>1, <1>3, <2>1, <3>1, <3>2 DEF Judgement
  <2>2. CASE Judge(q)
    <3>1. Stale(None) /\ t = Found
      BY <1>3, <1>7, <2>2 DEF Judge, TypeOK
    <3>2. lock # None /\ t = lock.token
      BY <1>1, <1>3, <3>1 DEF Found
    <3>3. old
      BY <3>1, <3>2 DEF Stale
    <3>4. QED
      BY <3>2, <3>3 DEF Locked
  <2>3. QED
    BY <1>7, <2>1, <2>2, PathStep
<1>8. QED
  BY <1>3, <1>5, <1>6, <1>7 DEF Live, Spent, Mine

-----------------------------------------------------------------------------
(* No update is lost                                                       *)

\* A write is based on the document it replaces: it adds to it.
LEMMA KeptStep ==
  ASSUME TypeOK, Numbered, Next, Locked, Based, Kept
  PROVE  Based' /\ Kept'
<1>a. doc.rev \in Nat
  BY UpdatesFinite DEF TypeOK, Document
<1>1. ASSUME NEW p \in Procs, Write(p)
      PROVE  Based' /\ Kept'
  <2>1. /\ at[p] = "write" /\ at' = [at EXCEPT ![p] = "owner"] /\ op' = op
        /\ committed' = committed \cup {Mine(p)}
        /\ doc'.rev = op[p].read.rev + 1 /\ doc'.has = op[p].read.has \cup {Mine(p)}
    BY <1>1 DEF Write, NextRevision
  <2>2. op[p].read.rev = doc.rev
    BY <2>1 DEF Based
  <2>3. Kept'
    <3>1. CASE op[p].kind = "overwrite"
      <4>1. replaced' = replaced \cup (doc.has \ op[p].read.has)
        BY <1>1, <3>1 DEF Write
      <4>2. QED
        BY <2>1, <4>1 DEF Kept
    <3>2. CASE op[p].kind # "overwrite"
      <4>1. replaced' = replaced /\ op[p].read.has = doc.has
        BY <1>1, <2>2, <3>2 DEF Write, Based
      <4>2. QED
        BY <2>1, <4>1 DEF Kept
    <3>3. QED
      BY <3>1, <3>2
  <2>4. ASSUME NEW q \in Procs
        PROVE  /\ op'[q].read.rev <= doc'.rev /\ op'[q].read.rev # doc'.rev
               /\ at'[q] # "write"
    <3>1. op[q].read.rev \in Nat /\ op[q].read.rev <= doc.rev
      BY OperationType DEF Based
    <3>2. at[q] = "write" => q = p
      BY <2>1, OneOwner DEF Holding
    <3>3. QED
      BY <1>a, <2>1, <2>2, <3>1, <3>2 DEF TypeOK
  <2>5. QED
    BY <2>3, <2>4 DEF Based
<1>2. ASSUME doc' = doc, committed' = committed, replaced' = replaced
      PROVE  Based' /\ Kept'
  <2>1. ASSUME NEW q \in Procs
        PROVE  /\ op'[q].read.rev <= doc.rev
               /\ op'[q].kind # "overwrite" /\ op'[q].read.rev = doc.rev => op'[q].read.has = doc.has
               /\ at'[q] = "write" => op'[q].read.rev = doc.rev
    BY <1>a, ReadStep DEF Based
  <2>2. QED
    BY <1>2, <2>1 DEF Based, Kept
<1>3. QED
  BY <1>1, <1>2, Unwritten

-----------------------------------------------------------------------------
(* The theorems of DurableStore                                            *)

LEMMA StoreStarts == Init => StoreInv
<1> SUFFICES ASSUME Init PROVE StoreInv
  OBVIOUS
<1>1. Cardinality({}) = 0 /\ Cardinality(Updates) \in Nat
  BY FS_EmptySet, UpdatesFinite
<1>2. doc \in Document
  BY <1>1 DEF Init, Document
<1>3. TypeOK
  <2>1. [n |-> 0, kind |-> "mutate", read |-> doc, seen |-> None] \in Operation
    BY <1>2, BoundAssumption DEF Operation, Kinds
  <2>2. op \in [Procs -> Operation]
    BY <2>1 DEF Init
  <2>3. at \in [Procs -> Control] /\ judged \in [Procs -> Updates \cup {None}]
    BY DEF Init, Control
  <2>4. /\ lock = None /\ old = FALSE /\ committed = {} /\ replaced = {} /\ overtaken = FALSE /\ fails \in 0..MaxFail
    BY BoundAssumption DEF Init
  <2>5. QED
    BY <1>2, <2>2, <2>3, <2>4 DEF TypeOK, Control
<1>4. Numbered /\ Counted
  BY <1>1 DEF Init, Numbered, Counted
<1>5. Exclusive
  BY DEF Init, Exclusive, Locked, Judgement, Based, Kept, Holding
<1>6. QED
  BY <1>3, <1>4, <1>5 DEF StoreInv

LEMMA StoreStep == StoreInv /\ [Next]_vars => StoreInv'
<1>1. ASSUME StoreInv, Next
      PROVE  StoreInv'
  <2>1. TypeOK' /\ Numbered' /\ Counted'
    BY <1>1, TypeStep, OperationStep, CommitStep DEF StoreInv
  <2>2. ~overtaken' => ~overtaken
    BY <1>1 DEF StoreInv, TypeOK, history, breaking, Next, Step, Begin, Open, Stamp, StampFails, ReadHolder, Judge, TimeOut,
       Recheck, Break, Load, Write, ReadOwner, Unlink, Crash, Age
  <2>3. ASSUME ~overtaken'
        PROVE  Locked' /\ Judgement' /\ Based' /\ Kept'
    BY <1>1, <2>2, <2>3, LockedStep, JudgementStep, KeptStep DEF StoreInv, Exclusive
  <2>4. QED
    BY <2>1, <2>3 DEF StoreInv, Exclusive
<1>2. StoreInv /\ UNCHANGED vars => StoreInv'
  BY DEF StoreInv, vars, history, breaking, TypeOK, Numbered, Counted, Exclusive, Locked, Judgement, Based, Kept,
     Spent, Live, Mine
<1>3. QED
  BY <1>1, <1>2

LEMMA StoreHolds == Spec => []StoreInv
BY StoreStarts, StoreStep, PTL DEF Spec

\* Every variable of the store and of the processes that contend for it stays
\* in its range: the revision never runs ahead of the writes, whatever races.
THEOREM StoreTypes == Spec => []TypeOK
<1>1. StoreInv => TypeOK
  BY DEF StoreInv
<1>2. QED
  BY <1>1, StoreHolds, PTL

\* Until a process breaks another lock file than the one it has judged, no
\* update that was written is ever missing from the document, unless a save
\* that expects no revision has replaced it, for any number of processes,
\* operations, deaths and failed stamps.
THEOREM StoreKeepsUpdates == Spec => []NoLostUpdate
<1>1. StoreInv => NoLostUpdate
  BY DEF StoreInv, Exclusive, Kept, NoLostUpdate
<1>2. QED
  BY <1>1, StoreHolds, PTL

\* Nor do two live processes read and write the document under the lock.
THEOREM StoreOneHolder == Spec => []SoleHolder
<1>1. StoreInv => SoleHolder
  <2>1. SUFFICES ASSUME StoreInv, ~overtaken
                 PROVE  Cardinality({p \in Procs : at[p] \in Critical}) <= 1
    BY DEF SoleHolder
  <2>2. CASE {p \in Procs : at[p] \in Critical} = {}
    BY <2>2, FS_EmptySet
  <2>3. CASE {p \in Procs : at[p] \in Critical} # {}
    <3>1. PICK p \in Procs : at[p] \in Critical
      BY <2>3
    <3>2. \A q \in Procs : at[q] \in Critical => q = p
      BY <2>1, <3>1, OneOwner DEF StoreInv, Exclusive, Holding
    <3>3. {q \in Procs : at[q] \in Critical} = {p}
      BY <3>1, <3>2
    <3>4. Cardinality({p}) = 1
      BY FS_Singleton
    <3>5. QED
      BY <3>3, <3>4
  <2>4. QED
    BY <2>2, <2>3
<1>2. QED
  BY <1>1, StoreHolds, PTL

-----------------------------------------------------------------------------
(* BackupRotation: what its files and its processes keep                   *)

\* The j-th backup of b is good, and none before it is, from the i-th on.
Claim(b, i, j) == Good(b[j]) /\ \A k \in i..j-1 : ~Good(b[k])

\* The backups up to the n-th that cannot be loaded.
Holes(b, n) == {i \in 1..n : ~Good(b[i])}

\* A process has found the document damaged, and no write has ended since.
Recovering(p) == stage[p] \in {"probe", "put"} /\ seen[p] = writes

\* A damage has not been made good yet, so one is left over for it.
Hurt == primary = Torn \/ \E p \in Process : Recovering(p)

\* What has happened to the files, and what of it may have cost a backup.
Harm == faults + corruptions
Spare == IF Hurt THEN Harm - 1 ELSE Harm

\* What a process knows at the stage it is at.
Stages ==
  /\ \A p \in Process :
       /\ stage[p] \in {"drop", "shift", "copy", "copying", "replace"} => p = Writer
       /\ stage[p] = "probe" => probe[p] \in 1..Keep
       /\ stage[p] = "put" => Good(got[p])
       /\ stage[p] \in {"probe", "put"} => seen[p] > 0
       /\ seen[p] <= writes
  /\ stage[Writer] = "shift" => probe[Writer] \in 1..Keep-1 /\ bak[probe[Writer] + 1] = Missing
  /\ stage[Writer] = "copy" => bak[1] = Missing
  /\ stage[Writer] = "copying" => bak[1] = Torn
  /\ stage[Writer] # "idle" => writes < MaxWrites
  /\ stage[Writer] \in {"drop", "shift", "copy", "copying"} => writes > 0
  /\ primary = Missing <=> writes = 0
  /\ Hurt => corruptions > 0

\* The rotation under way has been at the n-th backup.
Passed(n) == \/ stage[Writer] \in {"copy", "copying"}
             \/ stage[Writer] = "shift" /\ n > probe[Writer]

\* Below a backup that there should be by now, or that can be loaded, there
\* are no more holes than damages, deaths and failed copies account for, and
\* the one that the rotation under way has made and will fill.
Spread(n) ==
  /\ stage[Writer] = "replace" /\ (n <= writes \/ Good(bak[n])) => Cardinality(Holes(bak, n)) <= Harm
  /\ Passed(n) /\ (n <= writes \/ Good(bak[n])) => Cardinality(Holes(bak, n)) <= Spare + 1
  /\ ~Passed(n) /\ stage[Writer] # "replace" /\ (n < writes \/ Good(bak[n]))
       => Cardinality(Holes(bak, n)) <= Spare

Spreads == \A n \in 1..Keep : Spread(n)

\* The document x is older than the last write by what has happened at most.
Near(x) == x + Harm >= writes

\* The document, the first good backup, and what a recovery has read or will
\* read next.
Recent ==
  /\ Good(primary) => Near(primary)
  /\ \A j \in 1..Keep : Claim(bak, 1, j) =>
       /\ Near(bak[j] + 1)
       /\ primary = Torn \/ stage[Writer] = "replace" => Near(bak[j])
  /\ \A p \in Process : Recovering(p) =>
       /\ stage[p] = "put" => Near(got[p])
       /\ stage[p] = "probe" => \A j \in 1..Keep : Claim(bak, probe[p], j) => Near(bak[j])

\* A load returns x, or would if the document were damaged.
Newest(x) ==
  /\ primary \in {Torn, x}
  /\ \A j \in 1..Keep : Claim(bak, 1, j) => bak[j] = x

\* All that recover the document put the same one in its place.
Agreed ==
  \A p \in Process : Recovering(p) =>
    /\ stage[p] = "put" => Newest(got[p]) /\ \E j \in 1..Keep : Good(bak[j])
    /\ stage[p] = "probe" => \A j \in 1..Keep : Claim(bak, probe[p], j) => Newest(bak[j])

RecentInv == ~reverted => Recent
AgreedInv == Few /\ ~reverted => Agreed

RotationInv == RotationTypeOK /\ Stages /\ Spreads /\ RecentInv /\ AgreedInv

-----------------------------------------------------------------------------
(* Types, and where a process goes                                         *)

LEMMA Updated ==
  ASSUME NEW D, NEW S, NEW f \in [D -> S], NEW d, NEW x \in S
  PROVE  [f EXCEPT ![d] = x] \in [D -> S]
OBVIOUS

LEMMA GoesType ==
  ASSUME NEW p, NEW s, NEW i \in 0..Keep, probe \in [Process -> 0..Keep], Goes(p, s, i)
  PROVE  probe' \in [Process -> 0..Keep]
BY Updated DEF Goes

LEMMA FileStep ==
  ASSUME RotationTypeOK, Stages, [RotationNext]_rotationVars
  PROVE  /\ primary' \in Contents
         /\ bak' \in [1..Keep -> Contents]
         /\ writes' \in 0..MaxWrites
<1> USE RotationAssumption DEF Contents, Missing, Torn
<1>1. primary' \in Contents
  BY DEF RotationTypeOK, Stages, RotationNext, rotationVars, files, procs, past, Process, Loading, Access, Read,
    Probe, Put, Saving, Drop, Shift, CopyBegins, CopyEnds, Replace, CopyFails, Dies, Corrupt,
    CopySource
<1>2. bak' \in [1..Keep -> Contents]
  <2>1. CASE Shift
    <3>1. bak[probe[Writer]] \in Contents /\ Missing \in Contents
      BY <2>1 DEF Shift, Stages, RotationTypeOK
    <3>2. [bak EXCEPT ![probe[Writer] + 1] = bak[probe[Writer]]] \in [1..Keep -> Contents]
      BY <3>1, Updated DEF RotationTypeOK
    <3>3. [bak EXCEPT ![probe[Writer] + 1] = bak[probe[Writer]], ![probe[Writer]] = Missing] \in [1..Keep -> Contents]
      BY <3>1, <3>2, Updated
    <3> QED
      BY <2>1, <3>3 DEF Shift, Shifted, RotationTypeOK
  <2>2. CASE Drop \/ CopyBegins \/ CopyEnds
    <3>1. Missing \in Contents /\ Torn \in Contents /\ primary \in Contents
      BY DEF RotationTypeOK
    <3>2. \A i : \A c \in Contents : [bak EXCEPT ![i] = c] \in [1..Keep -> Contents]
      BY Updated DEF RotationTypeOK
    <3>3. \/ bak' = [bak EXCEPT ![Keep] = Missing]
          \/ bak' = [bak EXCEPT ![1] = Torn]
          \/ bak' = [bak EXCEPT ![1] = primary]
      BY <2>2 DEF Drop, CopyBegins, CopyEnds
    <3> HIDE DEF Contents, Missing, Torn
    <3> QED
      BY <3>1, <3>2, <3>3
  <2>3. CASE bak' = bak
    BY <2>3 DEF RotationTypeOK
  <2> QED
    BY <2>1, <2>2, <2>3 DEF RotationNext, rotationVars, files, Loading, Access, Read,
      Probe, Put, Saving, Replace, CopyFails, Dies, Corrupt
<1>3. writes' \in 0..MaxWrites
  BY DEF RotationTypeOK, Stages, RotationNext, rotationVars, files, procs, past, Process, Loading, Access, Read,
    Probe, Put, Saving, Drop, Shift, CopyBegins, CopyEnds, Replace, CopyFails, Dies, Corrupt
<1> QED
  BY <1>1, <1>2, <1>3

LEMMA ProcessStep ==
  ASSUME RotationTypeOK, Stages, [RotationNext]_rotationVars
  PROVE  /\ stage' \in [Process -> {"idle", "read", "probe", "put", "drop", "shift", "copy",
                                    "copying", "replace"}]
         /\ probe' \in [Process -> 0..Keep]
         /\ got' \in [Process -> 0..MaxWrites]
         /\ seen' \in [Process -> 0..MaxWrites] /\ reverted' \in BOOLEAN
         /\ faults' \in 0..MaxFaults /\ corruptions' \in 0..MaxCorrupt
<1> USE RotationAssumption
<1>0. Writer \in Process
  BY DEF Process
<1>1. stage' \in [Process -> {"idle", "read", "probe", "put", "drop", "shift", "copy",
                              "copying", "replace"}]
  BY <1>0 DEF RotationTypeOK, RotationNext, rotationVars, files, procs, past, Loading, Access, Read,
    Probe, Put, Saving, Drop, Shift, CopyBegins, CopyEnds, Replace, CopyFails, Dies, Corrupt,
    HasLoaded, Ends, Goes
<1>2. probe' \in [Process -> 0..Keep]
  <2>1. 0 \in 0..Keep /\ 1 \in 0..Keep /\ Keep \in 0..Keep /\ Keep - 1 \in 0..Keep
    OBVIOUS
  <2>2. probe \in [Process -> 0..Keep]
    BY DEF RotationTypeOK
  <2>3. ASSUME NEW p \in Process, Loading(p) \/ Dies(p) PROVE probe' \in [Process -> 0..Keep]
    <3>1. CASE Probe(p)
      <4>1. probe[p] < Keep => probe[p] + 1 \in 0..Keep
        BY <2>2
      <4> QED
        BY <2>1, <2>2, <3>1, <4>1, GoesType DEF Probe, Ends
    <3>2. CASE ~Probe(p)
      BY <2>1, <2>2, <2>3, <3>2, GoesType DEF Loading, Access, Dies, Read, Put, HasLoaded, Ends
    <3> QED
      BY <3>1, <3>2
  <2>4. CASE Shift
    <3>1. probe[Writer] # 1 => probe[Writer] - 1 \in 0..Keep
      BY <1>0, <2>2, <2>4 DEF Shift, Stages
    <3> QED
      BY <2>1, <2>2, <2>4, <3>1, GoesType DEF Shift
  <2>5. CASE (Saving \/ CopyFails) /\ ~Shift
    BY <2>1, <2>2, <2>5, GoesType DEF Saving, Drop, CopyBegins, CopyEnds, Replace, CopyFails, Ends
  <2>6. CASE probe' = probe
    BY <2>2, <2>6
  <2> QED
    BY <2>3, <2>4, <2>5, <2>6 DEF RotationNext, Corrupt, procs, rotationVars
<1>3. got' \in [Process -> 0..MaxWrites]
  <2>1. ASSUME NEW p \in Process, Probe(p) PROVE got' \in [Process -> 0..MaxWrites]
    BY <2>1 DEF Probe, Ends, Usable, Good, RotationTypeOK
  <2>2. ASSUME NEW p \in Process, got' = [got EXCEPT ![p] = 0] PROVE got' \in [Process -> 0..MaxWrites]
    BY <2>2 DEF RotationTypeOK
  <2>3. CASE got' = got
    BY <2>3 DEF RotationTypeOK
  <2> QED
    BY <1>0, <2>1, <2>2, <2>3 DEF RotationNext, rotationVars, procs, Loading, Access, Read, Put, Saving, Drop,
      Shift, CopyBegins, CopyEnds, Replace, CopyFails, Dies, Corrupt, HasLoaded, Ends
<1>4. seen' \in [Process -> 0..MaxWrites] /\ reverted' \in BOOLEAN
  BY <1>0 DEF RotationTypeOK, RotationNext, rotationVars, files, procs, past, Loading, Access, Read,
    Probe, Put, Saving, Drop, Shift, CopyBegins, CopyEnds, Replace, CopyFails, Dies, Corrupt
<1>5. faults' \in 0..MaxFaults /\ corruptions' \in 0..MaxCorrupt
  BY DEF RotationTypeOK, RotationNext, rotationVars, files, procs, past, Loading, Access, Read,
    Probe, Put, Saving, Drop, Shift, CopyBegins, CopyEnds, Replace, CopyFails, Dies, Corrupt, Fault
<1> QED
  BY <1>1, <1>2, <1>3, <1>4, <1>5

\* What a step of a process does to it, and that it does nothing to another.
LEMMA GoesTo ==
  ASSUME RotationTypeOK, NEW p \in Process, NEW s, NEW i, Goes(p, s, i)
  PROVE  /\ stage'[p] = s /\ probe'[p] = i
         /\ \A q \in Process : q # p => stage'[q] = stage[q] /\ probe'[q] = probe[q]
BY DEF Goes, RotationTypeOK

LEMMA OthersStay ==
  ASSUME RotationTypeOK, NEW p \in Process, NEW q \in Process, q # p
  PROVE  /\ Loading(p) \/ Dies(p) =>
              stage'[q] = stage[q] /\ probe'[q] = probe[q] /\ got'[q] = got[q] /\ seen'[q] = seen[q]
         /\ p = Writer /\ (Saving \/ CopyFails) =>
              stage'[q] = stage[q] /\ probe'[q] = probe[q] /\ got'[q] = got[q] /\ seen'[q] = seen[q]
<1>1. Loading(p) \/ Dies(p) => stage'[q] = stage[q] /\ probe'[q] = probe[q]
  BY GoesTo DEF Loading, Access, Read, Probe, Put, HasLoaded, Dies, Ends
<1>2. Loading(p) \/ Dies(p) => got'[q] = got[q] /\ seen'[q] = seen[q]
  BY DEF Loading, Access, Read, Probe, Put, HasLoaded, Dies, Ends, RotationTypeOK, past
<1>3. p = Writer /\ (Saving \/ CopyFails) => stage'[q] = stage[q] /\ probe'[q] = probe[q]
  BY GoesTo DEF Saving, Drop, Shift, CopyBegins, CopyEnds, Replace, CopyFails, Ends
<1>4. p = Writer /\ (Saving \/ CopyFails) => got'[q] = got[q] /\ seen'[q] = seen[q]
  BY DEF Saving, Drop, Shift, CopyBegins, CopyEnds, Replace, CopyFails, Ends, RotationTypeOK, past
<1> QED
  BY <1>1, <1>2, <1>3, <1>4

LEMMA LoadingMoves ==
  ASSUME RotationTypeOK, Stages, NEW p \in Process
  PROVE  /\ Access(p) => stage'[p] = "read" /\ (p = Writer => writes < MaxWrites)
         /\ Read(p) /\ primary = Torn => stage'[p] = "probe" /\ probe'[p] = 1 /\ seen'[p] = writes
         /\ Read(p) /\ primary # Torn =>
              stage'[p] = IF p = Writer THEN IF primary = Missing THEN "replace" ELSE "drop" ELSE "idle"
         /\ Probe(p) /\ Good(bak[probe[p]]) => stage'[p] = "put" /\ got'[p] = bak[probe[p]]
         /\ Probe(p) /\ ~Good(bak[probe[p]]) /\ probe[p] < Keep =>
              stage'[p] = "probe" /\ probe'[p] = probe[p] + 1
         /\ Probe(p) /\ ~Good(bak[probe[p]]) /\ ~(probe[p] < Keep) => stage'[p] = "idle"
         /\ Put(p) => stage'[p] = IF p = Writer THEN "drop" ELSE "idle"
         /\ Dies(p) => stage'[p] = "idle"
         /\ ~Read(p) /\ (Loading(p) \/ Dies(p)) => seen' = seen
<1>1. Access(p) => stage'[p] = "read" /\ (p = Writer => writes < MaxWrites)
  BY GoesTo DEF Access
<1>2. Read(p) /\ primary = Torn => stage'[p] = "probe" /\ probe'[p] = 1 /\ seen'[p] = writes
  BY GoesTo DEF Read, RotationTypeOK
<1>3. Read(p) /\ primary # Torn =>
        stage'[p] = IF p = Writer THEN IF primary = Missing THEN "replace" ELSE "drop" ELSE "idle"
  BY GoesTo DEF Read, HasLoaded, Ends, files
<1>4. Probe(p) /\ Good(bak[probe[p]]) => stage'[p] = "put" /\ got'[p] = bak[probe[p]]
  BY GoesTo DEF Probe, Usable, Candidate, RotationTypeOK
<1>5. Probe(p) /\ ~Good(bak[probe[p]]) /\ probe[p] < Keep =>
        stage'[p] = "probe" /\ probe'[p] = probe[p] + 1
  <2>1. Probe(p) => probe[p] \in 1..Keep
    BY DEF Probe, Stages
  <2> QED
    BY <2>1, GoesTo, RotationAssumption DEF Probe, Usable, Candidate
<1>6. Probe(p) /\ ~Good(bak[probe[p]]) /\ ~(probe[p] < Keep) => stage'[p] = "idle"
  BY GoesTo DEF Probe, Usable, Candidate, Ends
<1>7. Put(p) => stage'[p] = IF p = Writer THEN "drop" ELSE "idle"
  <2>1. Put(p) => primary' # Missing
    BY DEF Put, Stages, Good, Missing
  <2> QED
    BY <2>1, GoesTo DEF Put, HasLoaded, Ends
<1>8. Dies(p) => stage'[p] = "idle"
  BY GoesTo DEF Dies, Ends
<1>9. ~Read(p) /\ (Loading(p) \/ Dies(p)) => seen' = seen
  BY DEF Loading, Access, Read, Probe, Put, Dies, past
<1> QED
  BY <1>1, <1>2, <1>3, <1>4, <1>5, <1>6, <1>7, <1>8, <1>9

LEMMA SavingMoves ==
  ASSUME RotationTypeOK, Stages
  PROVE  /\ Writer \in Process
         /\ Drop => stage'[Writer] = IF Keep = 1 THEN "copy" ELSE "shift"
         /\ Drop /\ Keep # 1 => probe'[Writer] = Keep - 1
         /\ Shift => stage'[Writer] = IF probe[Writer] = 1 THEN "copy" ELSE "shift"
         /\ Shift /\ probe[Writer] # 1 => probe'[Writer] = probe[Writer] - 1
         /\ CopyBegins => stage'[Writer] = "copying"
         /\ CopyEnds \/ CopyFails => stage'[Writer] = "replace"
         /\ Replace => stage'[Writer] = "idle"
         /\ Saving \/ CopyFails => seen' = seen
<1>1. Writer \in Process
  BY DEF Process
<1>2. /\ Drop => stage'[Writer] = IF Keep = 1 THEN "copy" ELSE "shift"
      /\ Drop /\ Keep # 1 => probe'[Writer] = Keep - 1
      /\ Shift => stage'[Writer] = IF probe[Writer] = 1 THEN "copy" ELSE "shift"
      /\ Shift /\ probe[Writer] # 1 => probe'[Writer] = probe[Writer] - 1
  BY <1>1, GoesTo DEF Drop, Shift
<1>3. /\ CopyBegins => stage'[Writer] = "copying"
      /\ CopyEnds \/ CopyFails => stage'[Writer] = "replace"
      /\ Replace => stage'[Writer] = "idle"
  BY <1>1, GoesTo DEF CopyBegins, CopyEnds, CopyFails, Replace, Ends
<1>4. Saving \/ CopyFails => seen' = seen
  BY DEF Saving, Drop, Shift, CopyBegins, CopyEnds, Replace, CopyFails, past
<1> QED
  BY <1>1, <1>2, <1>3, <1>4

-----------------------------------------------------------------------------
(* Stages                                                                  *)

LEMMA OneProcess ==
  ASSUME [RotationNext]_rotationVars
  PROVE  \/ \E p \in Process : Access(p) \/ Read(p) \/ Probe(p) \/ Put(p) \/ Dies(p)
         \/ Drop \/ Shift \/ CopyBegins \/ CopyEnds \/ Replace \/ CopyFails
         \/ Corrupt
         \/ UNCHANGED rotationVars
BY DEF RotationNext, Loading, Saving

LEMMA ReaderStep ==
  ASSUME RotationTypeOK, Stages, [RotationNext]_rotationVars, NEW q \in Process
  PROVE  /\ stage'[q] \in {"drop", "shift", "copy", "copying", "replace"} => q = Writer
         /\ stage'[q] = "probe" => probe'[q] \in 1..Keep
         /\ stage'[q] = "put" => Good(got'[q])
         /\ stage'[q] \in {"probe", "put"} => seen'[q] > 0
         /\ seen'[q] <= writes'
<1> DEFINE Held == /\ stage'[q] = stage[q] /\ probe'[q] = probe[q] /\ got'[q] = got[q] /\ seen'[q] = seen[q]
<1>1. CASE Held
  <2>1. writes' >= writes
    BY <1>1, OneProcess, RotationAssumption DEF Access, Read, Probe, Put, Dies, Drop, Shift, CopyBegins, CopyEnds,
      Replace, CopyFails, Corrupt, rotationVars, RotationTypeOK
  <2>2. writes \in Nat /\ writes' \in Nat /\ seen[q] \in Nat
    BY FileStep, RotationAssumption DEF RotationTypeOK
  <2> QED
    BY <1>1, <2>1, <2>2 DEF Stages
<1>2. CASE Loading(q) \/ Dies(q)
  <2>1. stage'[q] \in {"drop", "shift", "copy", "copying", "replace"} => q = Writer
    BY <1>2, LoadingMoves DEF Loading
  <2>2. stage'[q] = "probe" => probe'[q] \in 1..Keep
    <3>1. Probe(q) => probe[q] \in 1..Keep
      BY DEF Probe, Stages
    <3> QED
      BY <1>2, <3>1, LoadingMoves, RotationAssumption DEF Loading
  <2>3. stage'[q] = "put" => Good(got'[q])
    BY <1>2, LoadingMoves DEF Loading
  <2>4. writes' = writes /\ seen'[q] \in {seen[q], writes}
    BY <1>2, LoadingMoves DEF Loading, Access, Read, Probe, Put, Dies
  <2>5. writes \in Nat /\ seen[q] \in Nat
    BY RotationAssumption DEF RotationTypeOK
  <2>6. stage'[q] \in {"probe", "put"} => seen'[q] > 0
    <3>1. Read(q) => (stage'[q] \in {"probe", "put"} => seen'[q] = writes /\ writes # 0)
      BY LoadingMoves, RotationAssumption DEF Stages, Missing, Torn
    <3>2. Probe(q) => stage[q] = "probe" /\ seen' = seen
      BY DEF Probe, past
    <3>3. Access(q) \/ Put(q) \/ Dies(q) => stage'[q] \notin {"probe", "put"}
      BY LoadingMoves
    <3> QED
      BY <1>2, <2>5, <3>1, <3>2, <3>3 DEF Stages, Loading
  <2> QED
    BY <2>1, <2>2, <2>3, <2>4, <2>5, <2>6 DEF Stages
<1>3. CASE q = Writer /\ (Saving \/ CopyFails)
  <2>1. stage'[q] \notin {"probe", "put"} /\ seen' = seen
    BY <1>3, SavingMoves DEF Saving
  <2>2. writes' \in {writes, writes + 1}
    BY <1>3 DEF Saving, Drop, Shift, CopyBegins, CopyEnds, Replace, CopyFails
  <2>3. writes \in Nat /\ seen[q] \in Nat
    BY RotationAssumption DEF RotationTypeOK
  <2> QED
    BY <1>3, <2>1, <2>2, <2>3 DEF Stages
<1>4. CASE Corrupt \/ UNCHANGED rotationVars
  BY <1>1, <1>4 DEF Corrupt, procs, past, rotationVars
<1>5. Writer \in Process
  BY DEF Process
<1>6. ASSUME NEW p \in Process, Loading(p) \/ Dies(p) PROVE Held \/ Loading(q) \/ Dies(q)
  BY <1>6, OthersStay
<1>7. Saving \/ CopyFails => Held \/ q = Writer
  BY <1>5, OthersStay
<1> QED
  BY <1>1, <1>2, <1>3, <1>4, <1>6, <1>7 DEF RotationNext

LEMMA WriterStep ==
  ASSUME RotationTypeOK, Stages, [RotationNext]_rotationVars
  PROVE  /\ (primary = Missing <=> writes = 0)'
         /\ stage'[Writer] # "idle" => writes' < MaxWrites
         /\ stage'[Writer] \in {"drop", "shift", "copy", "copying"} => writes' > 0
<1>1. Writer \in Process
  BY DEF Process
<1>2. writes \in Nat /\ MaxWrites \in Nat /\ Missing = 0 /\ Torn # Missing
  BY RotationAssumption DEF RotationTypeOK, Missing, Torn
<1>3. (primary = Missing <=> writes = 0)'
  <2>1. ASSUME NEW p \in Process, Put(p) PROVE primary' # Missing /\ writes' = writes /\ writes # 0
    <3>1. primary' # Missing /\ writes' = writes
      BY <2>1, <1>2 DEF Put, Stages, Good
    <3>2. writes # 0
      BY <1>2, <2>1 DEF Put, Stages, RotationTypeOK
    <3> QED
      BY <3>1, <3>2
  <2>2. Replace => primary' = writes' /\ writes' # 0
    BY <1>2 DEF Replace
  <2>3. Corrupt => primary' # Missing /\ primary # Missing /\ writes' = writes
    BY <1>2 DEF Corrupt, Good
  <2>4. ASSUME ~Replace, ~Corrupt, \A p \in Process : ~Put(p)
        PROVE  primary' = primary /\ writes' = writes
    BY <2>4, OneProcess DEF Access, Read, HasLoaded, Probe, Dies, Drop, Shift, CopyBegins, CopySource, CopyEnds,
      CopyFails, files, rotationVars
  <2> QED
    BY <1>2, <2>1, <2>2, <2>3, <2>4 DEF Stages
<1>4. stage'[Writer] # "idle" => writes' < MaxWrites
  <2>1. CASE Loading(Writer) \/ Dies(Writer)
    <3>1. Access(Writer) => writes < MaxWrites
      BY <1>1, LoadingMoves
    <3>2. ~Access(Writer) /\ ~Dies(Writer) => stage[Writer] # "idle"
      BY <2>1 DEF Loading, Read, Probe, Put
    <3>3. writes' = writes
      BY <2>1 DEF Loading, Access, Read, Probe, Put, Dies
    <3> QED
      BY <1>1, <2>1, <3>1, <3>2, <3>3, LoadingMoves DEF Stages
  <2>2. CASE Saving \/ CopyFails
    <3>1. Replace => stage'[Writer] = "idle"
      BY SavingMoves
    <3>2. ~Replace => writes' = writes /\ stage[Writer] # "idle"
      BY <2>2 DEF Saving, Drop, Shift, CopyBegins, CopyEnds, CopyFails
    <3> QED
      BY <3>1, <3>2 DEF Stages
  <2>3. CASE stage'[Writer] = stage[Writer] /\ writes' = writes
    BY <2>3 DEF Stages
  <2>4. ASSUME NEW p \in Process, p # Writer, Loading(p) \/ Dies(p)
        PROVE  stage'[Writer] = stage[Writer] /\ writes' = writes
    <3>1. writes' = writes
      BY <2>4 DEF Loading, Access, Read, Probe, Put, Dies
    <3> QED
      BY <1>1, <2>4, <3>1, OthersStay
  <2>5. Corrupt \/ UNCHANGED rotationVars => stage'[Writer] = stage[Writer] /\ writes' = writes
    BY DEF Corrupt, procs, rotationVars
  <2> QED
    BY <2>1, <2>2, <2>3, <2>4, <2>5 DEF RotationNext
<1>5. stage'[Writer] \in {"drop", "shift", "copy", "copying"} => writes' > 0
  <2>1. CASE Loading(Writer) \/ Dies(Writer)
    <3>1. Read(Writer) => (stage'[Writer] \in {"drop", "shift", "copy", "copying"} => writes # 0)
      BY <1>1, <1>2, LoadingMoves DEF Stages
    <3>2. Put(Writer) => writes # 0
      BY <1>1, <1>2 DEF Put, Stages, RotationTypeOK
    <3>3. ~Read(Writer) /\ ~Put(Writer) => stage'[Writer] \notin {"drop", "shift", "copy", "copying"}
      BY <1>1, <2>1, LoadingMoves DEF Loading
    <3>4. writes' = writes
      BY <2>1 DEF Loading, Access, Read, Probe, Put, Dies
    <3> QED
      BY <1>2, <3>1, <3>2, <3>3, <3>4
  <2>2. CASE Saving \/ CopyFails
    <3>1. Replace \/ CopyEnds \/ CopyFails => stage'[Writer] \in {"idle", "replace"}
      BY SavingMoves
    <3>2. Drop \/ Shift \/ CopyBegins => writes' = writes /\ stage[Writer] \in {"drop", "shift", "copy"}
      BY DEF Drop, Shift, CopyBegins
    <3> QED
      BY <2>2, <3>1, <3>2 DEF Stages, Saving
  <2>3. CASE stage'[Writer] = stage[Writer] /\ writes' = writes
    BY <2>3 DEF Stages
  <2>4. ASSUME NEW p \in Process, p # Writer, Loading(p) \/ Dies(p)
        PROVE  stage'[Writer] = stage[Writer] /\ writes' = writes
    <3>1. writes' = writes
      BY <2>4 DEF Loading, Access, Read, Probe, Put, Dies
    <3> QED
      BY <1>1, <2>4, <3>1, OthersStay
  <2>5. Corrupt \/ UNCHANGED rotationVars => stage'[Writer] = stage[Writer] /\ writes' = writes
    BY DEF Corrupt, procs, rotationVars
  <2> QED
    BY <2>1, <2>2, <2>3, <2>4, <2>5 DEF RotationNext
<1> QED
  BY <1>3, <1>4, <1>5

\* Who recovers after a step has begun just now, or was at it before; no write
\* has ended.
LEMMA RecoveringStep ==
  ASSUME RotationTypeOK, Stages, [RotationNext]_rotationVars, NEW q \in Process, Recovering(q)'
  PROVE  /\ writes' = writes
         /\ \/ Read(q) /\ primary = Torn /\ stage'[q] = "probe" /\ probe'[q] = 1
            \/ Probe(q) /\ Recovering(q) /\ stage[q] = "probe"
            \/ Recovering(q) /\ stage'[q] = stage[q] /\ probe'[q] = probe[q] /\ got'[q] = got[q]
<1>1. writes \in Nat /\ seen[q] \in Nat /\ seen[q] <= writes
  BY RotationAssumption DEF RotationTypeOK, Stages
<1>2. seen'[q] = writes' /\ stage'[q] \in {"probe", "put"}
  BY DEF Recovering
<1>3. CASE Loading(q) \/ Dies(q)
  <2>1. writes' = writes
    BY <1>3 DEF Loading, Access, Read, Probe, Put, Dies
  <2>2. CASE Read(q)
    <3>1. primary = Torn
      BY <1>2, <2>2, LoadingMoves
    <3>2. stage'[q] = "probe" /\ probe'[q] = 1
      BY <2>2, <3>1, LoadingMoves
    <3> QED
      BY <2>1, <2>2, <3>1, <3>2
  <2>3. CASE Probe(q)
    <3>1. stage[q] = "probe" /\ seen' = seen
      BY <2>3 DEF Probe, past
    <3>2. Recovering(q)
      BY <1>2, <2>1, <3>1 DEF Recovering
    <3> QED
      BY <2>1, <2>3, <3>1, <3>2
  <2>4. Read(q) \/ Probe(q)
    BY <1>2, <1>3, LoadingMoves DEF Loading
  <2> QED
    BY <2>1, <2>2, <2>3, <2>4
<1>4. CASE stage'[q] = stage[q] /\ probe'[q] = probe[q] /\ got'[q] = got[q] /\ seen'[q] = seen[q]
  <2>1. ~Replace
    BY <1>1, <1>2, <1>4 DEF Replace
  <2>2. writes' = writes
    BY <2>1, OneProcess DEF Access, Read, Probe, Put, Dies, Drop, Shift, CopyBegins, CopyEnds, CopyFails, Corrupt,
      rotationVars
  <2> QED
    BY <1>2, <1>4, <2>2 DEF Recovering
<1>5. Writer \in Process
  BY DEF Process
<1>6. q = Writer /\ (Saving \/ CopyFails) => stage'[q] \notin {"probe", "put"}
  BY SavingMoves DEF Saving
<1>7. Corrupt \/ UNCHANGED rotationVars =>
        stage'[q] = stage[q] /\ probe'[q] = probe[q] /\ got'[q] = got[q] /\ seen'[q] = seen[q]
  BY DEF Corrupt, procs, past, rotationVars
<1> QED
  BY <1>2, <1>3, <1>4, <1>5, <1>6, <1>7, OthersStay DEF RotationNext

LEMMA HurtStep ==
  ASSUME RotationTypeOK, Stages, [RotationNext]_rotationVars
  PROVE  /\ primary' = Torn => primary = Torn \/ Corrupt
         /\ Hurt' => Hurt \/ Corrupt
         /\ Hurt' => corruptions' > 0
<1>1. writes \in Nat /\ MaxWrites \in Nat /\ corruptions \in Nat
  BY RotationAssumption DEF RotationTypeOK
<1>2. primary' = Torn => primary = Torn \/ Corrupt
  <2>1. ASSUME NEW p \in Process, Put(p) PROVE primary' # Torn
    BY <1>1, <2>1 DEF Put, Stages, Good, Torn
  <2>2. Replace => primary' # Torn
    BY <1>1 DEF Replace, Stages, Torn
  <2>3. (\A p \in Process : ~Put(p)) /\ ~Replace /\ ~Corrupt => primary' = primary
    BY OneProcess DEF Access, Read, HasLoaded, Probe, Dies, Drop, Shift, CopyBegins, CopySource, CopyEnds,
      CopyFails, files, rotationVars
  <2> QED
    BY <2>1, <2>2, <2>3
<1>3. ASSUME NEW q \in Process, Recovering(q)' PROVE Hurt
  BY <1>3, RecoveringStep DEF Hurt
<1>4. Hurt' => Hurt \/ Corrupt
  BY <1>2, <1>3 DEF Hurt
<1>5. Corrupt => corruptions' = corruptions + 1
  BY DEF Corrupt
<1>6. ~Corrupt => corruptions' = corruptions
  BY OneProcess DEF Access, Read, Probe, Put, Dies, Drop, Shift, CopyBegins, CopyEnds, Replace, CopyFails, rotationVars
<1> QED
  BY <1>1, <1>2, <1>4, <1>5, <1>6 DEF Stages

LEMMA RotatingStays ==
  ASSUME RotationTypeOK, Stages, [RotationNext]_rotationVars, ~Saving, ~CopyFails,
         stage'[Writer] \in {"shift", "copy", "copying"}
  PROVE  /\ stage'[Writer] = stage[Writer] /\ probe'[Writer] = probe[Writer]
         /\ bak' = bak /\ writes' = writes
<1>1. Writer \in Process
  BY DEF Process
<1>2. ~(Loading(Writer) \/ Dies(Writer))
  BY <1>1, LoadingMoves DEF Loading
<1>3. stage'[Writer] = stage[Writer] /\ probe'[Writer] = probe[Writer]
  BY <1>1, <1>2, OthersStay DEF RotationNext, Corrupt, procs, rotationVars
<1>4. bak' = bak /\ writes' = writes
  BY OneProcess DEF Saving, Access, Read, HasLoaded, Probe, Put, Dies, Corrupt, files, rotationVars
<1> QED
  BY <1>3, <1>4

LEMMA ShiftStep ==
  ASSUME RotationTypeOK, Stages, [RotationNext]_rotationVars
  PROVE  /\ stage'[Writer] = "shift" => probe'[Writer] \in 1..Keep-1 /\ bak'[probe'[Writer] + 1] = Missing
         /\ stage'[Writer] = "copy" => bak'[1] = Missing
         /\ stage'[Writer] = "copying" => bak'[1] = Torn
<1>1. Keep \in Nat \ {0}
  BY RotationAssumption
<1>2. CASE Drop
  <2>1. bak'[Keep] = Missing
    BY <1>1, <1>2 DEF Drop, RotationTypeOK
  <2>2. stage'[Writer] = IF Keep = 1 THEN "copy" ELSE "shift"
    BY <1>2, SavingMoves
  <2>3. Keep # 1 => probe'[Writer] = Keep - 1
    BY <1>2, SavingMoves
  <2> QED
    BY <1>1, <2>1, <2>2, <2>3
<1>3. CASE Shift
  <2>1. probe[Writer] \in 1..Keep-1
    BY <1>3 DEF Shift, Stages
  <2>2. bak'[probe[Writer]] = Missing
    BY <1>1, <1>3, <2>1 DEF Shift, Shifted, RotationTypeOK
  <2>3. stage'[Writer] = IF probe[Writer] = 1 THEN "copy" ELSE "shift"
    BY <1>3, SavingMoves
  <2>4. probe[Writer] # 1 => probe'[Writer] = probe[Writer] - 1
    BY <1>3, SavingMoves
  <2> QED
    BY <1>1, <2>1, <2>2, <2>3, <2>4
<1>4. CASE CopyBegins
  BY <1>1, <1>4, SavingMoves DEF CopyBegins, RotationTypeOK
<1>5. CASE CopyEnds \/ Replace \/ CopyFails
  BY <1>5, SavingMoves
<1>6. CASE ~Saving /\ ~CopyFails
  BY <1>6, RotatingStays DEF Stages
<1> QED
  BY <1>2, <1>3, <1>4, <1>5, <1>6 DEF Saving

LEMMA StagesStep ==
  ASSUME RotationTypeOK, Stages, [RotationNext]_rotationVars
  PROVE  RotationTypeOK' /\ Stages'
<1>1. RotationTypeOK'
  BY FileStep, ProcessStep DEF RotationTypeOK
<1>2. Stages'
  BY ReaderStep, WriterStep, HurtStep, ShiftStep DEF Stages
<1> QED
  BY <1>1, <1>2

-----------------------------------------------------------------------------
(* Holes                                                                   *)

LEMMA HolesType ==
  ASSUME NEW b, NEW n \in Nat
  PROVE  IsFiniteSet(Holes(b, n)) /\ Cardinality(Holes(b, n)) \in Nat
<1>1. IsFiniteSet(1..n) /\ Holes(b, n) \subseteq 1..n
  BY FS_Interval DEF Holes
<1> QED
  BY <1>1, FS_Subset, FS_CardinalityType

LEMMA NoHoles ==
  ASSUME NEW b
  PROVE  Cardinality(Holes(b, 0)) = 0
<1>1. Holes(b, 0) = {}
  BY DEF Holes
<1> QED
  BY <1>1, FS_EmptySet

LEMMA HolesNext ==
  ASSUME NEW b, NEW n \in Nat
  PROVE  Cardinality(Holes(b, n + 1)) = Cardinality(Holes(b, n)) + (IF Good(b[n + 1]) THEN 0 ELSE 1)
<1>1. n + 1 \notin Holes(b, n)
  BY DEF Holes
<1>2. Holes(b, n + 1) = IF Good(b[n + 1]) THEN Holes(b, n) ELSE Holes(b, n) \cup {n + 1}
  BY DEF Holes
<1>3. IsFiniteSet(Holes(b, n)) /\ Cardinality(Holes(b, n)) \in Nat
  BY HolesType
<1>4. Cardinality(Holes(b, n) \cup {n + 1}) = Cardinality(Holes(b, n)) + 1
  BY <1>1, <1>3, FS_AddElement
<1> QED
  BY <1>2, <1>3, <1>4

LEMMA HolesSame ==
  ASSUME NEW b, NEW c, NEW n \in Nat, \A i \in 1..n : Good(b[i]) <=> Good(c[i])
  PROVE  Holes(b, n) = Holes(c, n)
BY DEF Holes

\* A shift moves a hole, and a copy fills one.
LEMMA HolesSwap ==
  ASSUME NEW b, NEW c, NEW n \in Nat, NEW i \in 1..n, i + 1 <= n,
         ~Good(b[i + 1]), Good(c[i + 1]) <=> Good(b[i]), ~Good(c[i]),
         \A j \in 1..n : j # i /\ j # i + 1 => (Good(b[j]) <=> Good(c[j]))
  PROVE  Cardinality(Holes(b, n)) = Cardinality(Holes(c, n))
<1>1. CASE ~Good(b[i])
  BY <1>1, HolesSame
<1>2. CASE Good(b[i])
  <2> DEFINE Rest == Holes(b, n) \ {i + 1}
  <2>1. IsFiniteSet(Holes(b, n)) /\ i + 1 \in Holes(b, n) /\ Cardinality(Holes(b, n)) \in Nat
    BY HolesType DEF Holes
  <2>2. IsFiniteSet(Rest) /\ Cardinality(Rest) = Cardinality(Holes(b, n)) - 1
    BY <2>1, FS_RemoveElement
  <2>3. i \notin Rest
    BY <1>2 DEF Holes
  <2>4. Holes(c, n) = Rest \cup {i}
    BY <1>2 DEF Holes
  <2>5. Cardinality(Rest \cup {i}) = Cardinality(Rest) + 1
    BY <2>2, <2>3, FS_AddElement
  <2> QED
    BY <2>1, <2>2, <2>4, <2>5
<1> QED
  BY <1>1, <1>2

LEMMA HolesFill ==
  ASSUME NEW b, NEW c, NEW n \in Nat \ {0}, ~Good(b[1]), Good(c[1]),
         \A j \in 2..n : Good(b[j]) <=> Good(c[j])
  PROVE  Cardinality(Holes(c, n)) = Cardinality(Holes(b, n)) - 1
<1>1. IsFiniteSet(Holes(b, n)) /\ 1 \in Holes(b, n)
  BY HolesType DEF Holes
<1>2. Holes(c, n) = Holes(b, n) \ {1}
  BY DEF Holes
<1> QED
  BY <1>1, <1>2, FS_RemoveElement

\* What has happened only grows, and so does what it may have cost.
LEMMA HarmType ==
  ASSUME RotationTypeOK, Stages
  PROVE  /\ Harm \in Nat /\ Spare \in Nat /\ Spare <= Harm /\ Harm <= Spare + 1
         /\ primary = Torn => Harm = Spare + 1
<1>1. faults \in Nat /\ corruptions \in Nat /\ (Hurt => corruptions > 0)
  BY RotationAssumption DEF RotationTypeOK, Stages
<1>2. primary = Torn => Hurt
  BY DEF Hurt
<1> QED
  BY <1>1, <1>2 DEF Harm, Spare

LEMMA HarmStep ==
  ASSUME RotationTypeOK, Stages, [RotationNext]_rotationVars
  PROVE  /\ Harm' \in Nat /\ Spare' \in Nat /\ Spare' <= Harm' /\ Harm' <= Spare' + 1
         /\ Harm' >= Harm /\ Spare' >= Spare
         /\ \A p \in Process : Dies(p) => Harm' = Harm + 1 /\ Spare' >= Spare + 1
         /\ CopyFails => Harm' = Harm + 1
         /\ Corrupt => Harm' = Harm + 1
<1>1. faults \in Nat /\ corruptions \in Nat /\ faults' \in Nat /\ corruptions' \in Nat
  BY StagesStep, RotationAssumption DEF RotationTypeOK
<1>2. (Hurt => corruptions > 0) /\ (Hurt' => corruptions' > 0) /\ (Hurt' => Hurt \/ Corrupt)
  BY HurtStep DEF Stages
<1>3. Corrupt => corruptions' = corruptions + 1 /\ faults' = faults
  BY DEF Corrupt
<1>4. \A p \in Process : Dies(p) => corruptions' = corruptions /\ faults' = faults + 1 /\ ~Corrupt
  BY <1>1, <1>3 DEF Dies, Fault
<1>5. CopyFails => corruptions' = corruptions /\ faults' = faults + 1 /\ ~Corrupt
  BY <1>1, <1>3 DEF CopyFails, Fault
<1>6. ~Corrupt /\ ~CopyFails /\ (\A p \in Process : ~Dies(p)) => corruptions' = corruptions /\ faults' = faults
  BY OneProcess DEF Access, Read, Probe, Put, Drop, Shift, CopyBegins, CopyEnds, Replace, rotationVars
<1>7. Harm = faults + corruptions /\ Spare = IF Hurt THEN Harm - 1 ELSE Harm
  BY DEF Harm, Spare
<1>8. Harm' = faults' + corruptions' /\ Spare' = IF Hurt' THEN Harm' - 1 ELSE Harm'
  BY DEF Harm, Spare
<1>10. Corrupt => Harm' = Harm + 1 /\ Spare' >= Spare
  BY <1>1, <1>2, <1>3, <1>7, <1>8
<1>11. CopyFails => Harm' = Harm + 1 /\ Spare' >= Spare
  BY <1>1, <1>2, <1>5, <1>7, <1>8
<1>12. ASSUME NEW p \in Process, Dies(p) PROVE Harm' = Harm + 1 /\ Spare' >= Spare + 1
  <2>1. corruptions' = corruptions /\ faults' = faults + 1 /\ ~Corrupt
    BY <1>4, <1>12
  <2> QED
    BY <1>1, <1>2, <2>1, <1>7, <1>8
<1>13. ~Corrupt /\ ~CopyFails /\ (\A p \in Process : ~Dies(p)) => Harm' = Harm /\ Spare' >= Spare
  <2> SUFFICES ASSUME ~Corrupt, ~CopyFails, \A p \in Process : ~Dies(p) PROVE Harm' = Harm /\ Spare' >= Spare
    OBVIOUS
  <2>1. corruptions' = corruptions /\ faults' = faults /\ (Hurt' => Hurt)
    BY <1>2, <1>6
  <2> QED
    BY <1>1, <1>2, <2>1, <1>7, <1>8
<1>14. Harm \in Nat /\ Spare \in Nat
  BY HarmType
<1>15. (\E p \in Process : Dies(p)) => Harm' = Harm + 1 /\ Spare' >= Spare + 1
  BY <1>12
<1>16. Harm' = Harm \/ Harm' = Harm + 1
  BY <1>10, <1>11, <1>13, <1>15
<1>17. Spare' >= Spare
  <2>1. PICK s : s = Spare'
    OBVIOUS
  <2>2. Spare' >= Spare + 1 => Spare' >= Spare
    <3>1. s \in Int \/ ~(s >= Spare + 1)
      BY <1>8, <1>14, <1>16, <2>1
    <3> QED
      BY <1>14, <2>1, <3>1
  <2> QED
    BY <1>10, <1>11, <1>13, <1>15, <2>2
<1>18. Harm' >= Harm /\ Harm' \in Nat
  BY <1>14, <1>16
<1>19. Spare' \in Nat /\ Spare' <= Harm' /\ Harm' <= Spare' + 1
  <2>1. Spare' = Harm' \/ Spare' = Harm' - 1
    BY <1>8
  <2> QED
    BY <1>14, <1>17, <1>18, <2>1
<1>20. \A p \in Process : Dies(p) => Harm' = Harm + 1 /\ Spare' >= Spare + 1
  BY <1>12
<1> QED
  BY <1>10, <1>11, <1>17, <1>18, <1>19, <1>20

LEMMA SpareGrows ==
  ASSUME RotationTypeOK, Stages, [RotationNext]_rotationVars, NEW k \in Nat, k <= Spare + 1
  PROVE  k <= Spare' + 1
<1>1. Spare \in Nat /\ Spare' \in Nat /\ Spare' >= Spare
  BY HarmType, HarmStep
<1>2. PICK s \in Nat : s = Spare' /\ s >= Spare
  BY <1>1
<1>3. PICK r \in Nat : r = Spare
  BY <1>1
<1>4. k <= r + 1 /\ s >= r
  BY <1>2, <1>3
<1>5. k <= s + 1
  BY <1>4
<1> QED
  BY <1>2, <1>5

-----------------------------------------------------------------------------
(* Spread                                                                  *)

LEMMA SpreadStays ==
  ASSUME RotationTypeOK, Stages, [RotationNext]_rotationVars, NEW n \in 1..Keep, Spread(n),
         bak' = bak, writes' = writes,
         \/ stage'[Writer] = stage[Writer] /\ probe'[Writer] = probe[Writer]
         \/ /\ stage[Writer] \in {"idle", "read", "probe", "put", "drop"}
            /\ stage'[Writer] \in {"idle", "read", "probe", "put", "drop"}
  PROVE  Spread(n)'
<1>1. Harm \in Nat /\ Spare \in Nat /\ Harm' \in Nat /\ Spare' \in Nat /\ Harm' >= Harm /\ Spare' >= Spare
  BY HarmType, HarmStep
<1>2. PICK h \in Nat : h = Cardinality(Holes(bak, n))
  BY HolesType, RotationAssumption
<1>3. Cardinality(Holes(bak', n)) = h /\ (Passed(n)' <=> Passed(n)) /\ (stage'[Writer] = "replace" <=> stage[Writer] = "replace")
  BY <1>2 DEF Passed
<1>4. Passed(n) => stage[Writer] # "replace"
  BY DEF Passed
<1>5. stage[Writer] = "replace" /\ (n <= writes \/ Good(bak[n])) => h <= Harm
  BY <1>2 DEF Spread
<1>6. Passed(n) /\ (n <= writes \/ Good(bak[n])) => h <= Spare + 1
  BY <1>2 DEF Spread
<1>7. ~Passed(n) /\ stage[Writer] # "replace" /\ (n < writes \/ Good(bak[n])) => h <= Spare
  BY <1>2 DEF Spread
<1>8. stage[Writer] = "replace" /\ (n <= writes \/ Good(bak[n])) => h <= Harm'
  BY <1>1, <1>5
<1>9. Passed(n) /\ (n <= writes \/ Good(bak[n])) => h <= Spare' + 1
  BY <1>6, SpareGrows
<1>10. ~Passed(n) /\ stage[Writer] # "replace" /\ (n < writes \/ Good(bak[n])) => h <= Spare'
  BY <1>1, <1>7
<1> QED
  BY <1>3, <1>8, <1>9, <1>10 DEF Spread

LEMMA SpreadEnds ==
  ASSUME RotationTypeOK, Stages, [RotationNext]_rotationVars, NEW n \in 1..Keep, Spread(n),
         Dies(Writer) \/ CopyFails
  PROVE  Spread(n)'
<1>1. Harm \in Nat /\ Spare \in Nat /\ Harm' \in Nat /\ Spare' \in Nat /\ Harm <= Spare + 1 /\ Spare <= Harm
  BY HarmType, HarmStep
<1>2. PICK h \in Nat : h = Cardinality(Holes(bak, n))
  BY HolesType, RotationAssumption
<1>3. bak' = bak /\ writes' = writes /\ writes \in Nat /\ n \in Nat
  BY RotationAssumption DEF Dies, CopyFails, files, RotationTypeOK
<1>4. Cardinality(Holes(bak', n)) = h
  BY <1>2, <1>3
<1>5. Passed(n) => stage[Writer] # "replace"
  BY DEF Passed
<1>6. stage[Writer] = "replace" /\ (n <= writes \/ Good(bak[n])) => h <= Harm
  BY <1>2 DEF Spread
<1>7. Passed(n) /\ (n <= writes \/ Good(bak[n])) => h <= Spare + 1
  BY <1>2 DEF Spread
<1>8. ~Passed(n) /\ stage[Writer] # "replace" /\ (n < writes \/ Good(bak[n])) => h <= Spare
  BY <1>2 DEF Spread
<1>9. CASE Dies(Writer)
  <2>1. stage'[Writer] = "idle" /\ Writer \in Process /\ Spare' >= Spare + 1
    BY <1>9, LoadingMoves, HarmStep DEF Process
  <2>2. n < writes \/ Good(bak[n]) => h <= Spare'
    BY <1>1, <1>3, <1>5, <1>6, <1>7, <1>8, <2>1
  <2>3. ~Passed(n)'
    BY <2>1 DEF Passed
  <2> QED
    BY <1>3, <1>4, <2>1, <2>2, <2>3 DEF Spread
<1>10. CASE CopyFails
  <2>1. stage'[Writer] = "replace" /\ Passed(n) /\ Harm' = Harm + 1
    BY <1>10, SavingMoves, HarmStep DEF CopyFails, Passed
  <2>2. n <= writes \/ Good(bak[n]) => h <= Harm'
    BY <1>1, <1>7, <2>1
  <2>3. ~Passed(n)'
    BY <2>1 DEF Passed
  <2> QED
    BY <1>3, <1>4, <2>1, <2>2, <2>3 DEF Spread
<1> QED
  BY <1>9, <1>10

LEMMA SpreadDrop ==
  ASSUME RotationTypeOK, Stages, Spreads, [RotationNext]_rotationVars, NEW n \in 1..Keep, Drop
  PROVE  Spread(n)'
<1> USE RotationAssumption
<1>1. Spare \in Nat /\ Spare' \in Nat /\ Spare' >= Spare
  BY HarmType, HarmStep
<1>2. stage[Writer] = "drop" /\ writes' = writes /\ writes \in Nat
  BY DEF Drop, RotationTypeOK
<1>3. stage'[Writer] = (IF Keep = 1 THEN "copy" ELSE "shift") /\ (Keep # 1 => probe'[Writer] = Keep - 1)
  BY SavingMoves
<1>4. \A i \in 1..Keep-1 : bak'[i] = bak[i]
  BY DEF Drop, RotationTypeOK
<1>5. ~Good(bak'[Keep])
  BY DEF Drop, RotationTypeOK, Good, Missing
<1>6. ASSUME NEW i \in 1..Keep-1, i < writes \/ Good(bak[i]) PROVE Cardinality(Holes(bak', i)) <= Spare
  <2>1. Holes(bak', i) = Holes(bak, i)
    BY <1>4, HolesSame
  <2>2. Spread(i) /\ ~Passed(i)
    BY <1>2 DEF Spreads, Passed
  <2> QED
    BY <1>2, <1>6, <2>1, <2>2 DEF Spread
<1>7. CASE n < Keep
  <2>1. ~Passed(n)' /\ stage'[Writer] # "replace"
    BY <1>3, <1>7 DEF Passed
  <2>2. Cardinality(Holes(bak', n)) \in Nat
    BY HolesType
  <2>3. n < writes \/ Good(bak'[n]) => Cardinality(Holes(bak', n)) <= Spare'
    BY <1>1, <1>4, <1>6, <1>7, <2>2
  <2> QED
    BY <1>2, <2>1, <2>3 DEF Spread
<1>8. CASE n = Keep
  <2>1. Passed(n)' /\ stage'[Writer] # "replace"
    BY <1>3, <1>8 DEF Passed
  <2>2. Keep <= writes => Cardinality(Holes(bak', Keep - 1)) <= Spare
    <3>1. CASE Keep = 1
      BY <1>1, <3>1, NoHoles
    <3>2. CASE Keep # 1
      BY <1>2, <1>6, <3>2
    <3> QED
      BY <3>1, <3>2
  <2>3. PICK h \in Nat : h = Cardinality(Holes(bak', Keep - 1))
    BY HolesType
  <2>4. Cardinality(Holes(bak', Keep)) = h + 1
    <3>1. Keep - 1 \in Nat /\ (Keep - 1) + 1 = Keep
      OBVIOUS
    <3> QED
      BY <1>5, <2>3, <3>1, HolesNext
  <2>5. Keep <= writes => h + 1 <= Spare' + 1
    BY <1>1, <1>2, <2>2, <2>3
  <2> QED
    BY <1>2, <1>5, <1>8, <2>1, <2>4, <2>5 DEF Spread
<1> QED
  BY <1>7, <1>8

LEMMA ShiftedFiles ==
  ASSUME RotationTypeOK, Stages, Shift
  PROVE  /\ probe[Writer] \in 1..Keep-1 /\ bak[probe[Writer] + 1] = Missing
         /\ bak'[probe[Writer] + 1] = bak[probe[Writer]] /\ bak'[probe[Writer]] = Missing
         /\ \A j \in 1..Keep : j # probe[Writer] /\ j # probe[Writer] + 1 => bak'[j] = bak[j]
         /\ primary' = primary /\ writes' = writes
<1>1. probe[Writer] \in 1..Keep-1 /\ bak[probe[Writer] + 1] = Missing
  BY DEF Shift, Stages
<1>2. bak' = Shifted(probe[Writer])
  BY DEF Shift
<1>3. CASE bak[probe[Writer]] = Missing
  BY <1>1, <1>2, <1>3 DEF Shift, Shifted
<1>4. CASE bak[probe[Writer]] # Missing
  BY <1>1, <1>2, <1>4, RotationAssumption DEF Shift, Shifted, RotationTypeOK
<1> QED
  BY <1>3, <1>4

LEMMA SpreadShift ==
  ASSUME RotationTypeOK, Stages, Spreads, [RotationNext]_rotationVars, NEW n \in 1..Keep, Shift
  PROVE  Spread(n)'
<1> USE RotationAssumption
<1>1. Spare \in Nat /\ Spare' \in Nat /\ Spare' >= Spare
  BY HarmType, HarmStep
<1>2. stage[Writer] = "shift" /\ writes' = writes /\ writes \in Nat
  BY DEF Shift, RotationTypeOK
<1>3. PICK i \in 1..Keep-1 : i = probe[Writer]
  BY ShiftedFiles
<1>4. /\ bak[i + 1] = Missing /\ bak'[i + 1] = bak[i] /\ bak'[i] = Missing
      /\ \A j \in 1..Keep : j # i /\ j # i + 1 => bak'[j] = bak[j]
  BY <1>3, ShiftedFiles
<1>5. stage'[Writer] = (IF i = 1 THEN "copy" ELSE "shift") /\ (i # 1 => probe'[Writer] = i - 1)
  BY <1>3, SavingMoves
<1>6. ~Good(Missing)
  BY DEF Good, Missing
<1>7. \A k \in 1..i : k < writes \/ Good(bak[k]) => Cardinality(Holes(bak, k)) <= Spare
  BY <1>2, <1>3 DEF Spreads, Spread, Passed
<1>8. \A k \in i+1..Keep : k <= writes \/ Good(bak[k]) => Cardinality(Holes(bak, k)) <= Spare + 1
  BY <1>2, <1>3 DEF Spreads, Spread, Passed
<1>9. CASE n < i
  <2>1. ~Passed(n)' /\ stage'[Writer] # "replace"
    BY <1>3, <1>5, <1>9 DEF Passed
  <2>2. Holes(bak', n) = Holes(bak, n)
    BY <1>4, <1>9, HolesSame
  <2>3. Cardinality(Holes(bak, n)) \in Nat
    BY HolesType
  <2>4. n < writes \/ Good(bak'[n]) => Cardinality(Holes(bak, n)) <= Spare'
    BY <1>1, <1>4, <1>7, <1>9, <2>3
  <2> QED
    BY <1>2, <2>1, <2>2, <2>4 DEF Spread
<1>10. CASE n >= i
  <2>1. Passed(n)' /\ stage'[Writer] # "replace"
    BY <1>3, <1>5, <1>10 DEF Passed
  <2>2. PICK h \in Nat : h = Cardinality(Holes(bak', i - 1))
    BY HolesType
  <2>3. h = Cardinality(Holes(bak, i - 1))
    BY <1>4, <2>2, HolesSame
  <2>4. Cardinality(Holes(bak', i)) = h + 1
    <3>1. i - 1 \in Nat /\ (i - 1) + 1 = i
      OBVIOUS
    <3> QED
      BY <1>4, <1>6, <2>2, <3>1, HolesNext
  <2>5. ASSUME n = i, n <= writes PROVE h <= Spare
    <3>1. CASE i = 1
      BY <1>1, <2>3, <3>1, NoHoles
    <3>2. CASE i # 1
      BY <1>2, <1>7, <2>3, <2>5, <3>2
    <3> QED
      BY <3>1, <3>2
  <2>6. CASE n = i
    <3>1. n <= writes => h + 1 <= Spare + 1
      BY <1>1, <2>2, <2>5, <2>6
    <3>2. n <= writes => Cardinality(Holes(bak', n)) <= Spare' + 1
      BY <2>2, <2>4, <2>6, <3>1, SpareGrows
    <3> QED
      BY <1>2, <1>4, <1>6, <2>1, <2>6, <3>2 DEF Spread
  <2>7. ASSUME n = i + 1, Good(bak'[n]) PROVE Cardinality(Holes(bak', n)) <= Spare + 1
    <3>1. Cardinality(Holes(bak', i + 1)) = h + 1
      BY <2>4, <2>7, HolesNext
    <3>2. Cardinality(Holes(bak, i)) = h
      <4>1. i - 1 \in Nat /\ (i - 1) + 1 = i
        OBVIOUS
      <4> QED
        BY <1>4, <2>3, <2>7, <4>1, HolesNext, HolesType
    <3>3. h <= Spare
      BY <1>4, <1>7, <2>7, <3>2
    <3> QED
      BY <1>1, <2>7, <3>1, <3>3
  <2>8. ASSUME n > i PROVE Cardinality(Holes(bak', n)) = Cardinality(Holes(bak, n))
    BY <1>4, <1>6, <2>8, HolesSwap
  <2>9. CASE n > i
    <3>1. PICK m \in Nat : m = Cardinality(Holes(bak, n))
      BY HolesType
    <3>2. n <= writes => m <= Spare + 1
      BY <1>8, <2>9, <3>1
    <3>3. Good(bak'[n]) => m <= Spare + 1
      <4>1. CASE n = i + 1
        BY <2>7, <2>8, <2>9, <3>1, <4>1
      <4>2. CASE n # i + 1
        BY <1>4, <1>8, <2>9, <3>1, <4>2
      <4> QED
        BY <4>1, <4>2
    <3>4. n <= writes \/ Good(bak'[n]) => m <= Spare' + 1
      BY <3>1, <3>2, <3>3, SpareGrows
    <3> QED
      BY <1>2, <2>1, <2>8, <2>9, <3>1, <3>4 DEF Spread
  <2> QED
    BY <1>10, <2>6, <2>9
<1> QED
  BY <1>9, <1>10

LEMMA SpreadCopy ==
  ASSUME RotationTypeOK, Stages, Spreads, [RotationNext]_rotationVars, NEW n \in 1..Keep,
         CopyBegins \/ CopyEnds
  PROVE  Spread(n)'
<1> USE RotationAssumption
<1>1. /\ Harm \in Nat /\ Spare \in Nat /\ Harm' \in Nat /\ Spare' \in Nat /\ Harm' >= Harm /\ Spare' >= Spare
      /\ Spare <= Harm /\ (primary = Torn => Harm = Spare + 1)
  BY HarmType, HarmStep
<1>2. Passed(n) /\ writes' = writes /\ writes \in Nat
  BY DEF CopyBegins, CopyEnds, Passed, RotationTypeOK
<1>3. \A j \in 2..Keep : bak'[j] = bak[j]
  BY DEF CopyBegins, CopyEnds, RotationTypeOK
<1>4. ~Good(bak[1]) /\ ~Good(Torn) /\ ~Good(Missing)
  BY DEF CopyBegins, CopyEnds, Stages, Good, Missing, Torn
<1>5. PICK h \in Nat : h = Cardinality(Holes(bak, n))
  BY HolesType
<1>6. n <= writes \/ Good(bak[n]) => h <= Spare + 1
  BY <1>2, <1>5 DEF Spreads, Spread
<1>7. CASE CopyBegins
  <2>1. Passed(n)' /\ stage'[Writer] = "copying"
    BY <1>7, SavingMoves DEF Passed
  <2>2. bak'[1] = Torn
    BY <1>7 DEF CopyBegins, RotationTypeOK
  <2>3. Cardinality(Holes(bak', n)) = h
    BY <1>3, <1>4, <1>5, <2>2, HolesSame
  <2>4. n <= writes \/ Good(bak'[n]) => h <= Spare + 1
    BY <1>3, <1>4, <1>6, <2>2
  <2>5. n <= writes \/ Good(bak'[n]) => h <= Spare' + 1
    BY <1>5, <2>4, SpareGrows
  <2> QED
    BY <1>2, <2>1, <2>3, <2>5 DEF Spread
<1>8. CASE CopyEnds
  <2>1. ~Passed(n)' /\ stage'[Writer] = "replace"
    BY <1>8, SavingMoves DEF Passed
  <2>2. bak'[1] = primary
    BY <1>8 DEF CopyEnds, RotationTypeOK
  <2>3. primary = Torn \/ Good(primary)
    BY <1>8 DEF CopyEnds, Stages, RotationTypeOK, Contents, Missing, Torn, Good
  <2>4. CASE primary = Torn
    <3>1. Cardinality(Holes(bak', n)) = h
      BY <1>3, <1>4, <1>5, <2>2, <2>4, HolesSame
    <3>2. n <= writes \/ Good(bak'[n]) => h <= Harm'
      BY <1>1, <1>3, <1>4, <1>6, <2>2, <2>4
    <3> QED
      BY <1>2, <2>1, <3>1, <3>2 DEF Spread
  <2>5. CASE Good(primary)
    <3>1. Cardinality(Holes(bak', n)) = h - 1
      BY <1>3, <1>4, <1>5, <2>2, <2>5, HolesFill
    <3>2. n # 1 => (n <= writes \/ Good(bak'[n]) => h - 1 <= Harm')
      BY <1>1, <1>3, <1>6
    <3>3. n = 1 => h - 1 <= Harm'
      <4>1. Cardinality(Holes(bak, 1)) <= 1
        <5>1. 0 \in Nat /\ 0 + 1 = 1
          OBVIOUS
        <5> QED
          BY <5>1, NoHoles, HolesNext
      <4> QED
        BY <1>1, <1>5, <4>1
    <3> QED
      BY <1>2, <2>1, <3>1, <3>2, <3>3 DEF Spread
  <2> QED
    BY <2>3, <2>4, <2>5
<1> QED
  BY <1>7, <1>8

LEMMA SpreadReplace ==
  ASSUME RotationTypeOK, Stages, Spreads, [RotationNext]_rotationVars, NEW n \in 1..Keep, Replace
  PROVE  Spread(n)'
<1>1. Harm \in Nat /\ Harm' \in Nat /\ Harm' >= Harm
  BY HarmType, HarmStep
<1>2. /\ stage[Writer] = "replace" /\ bak' = bak /\ writes' = writes + 1 /\ writes \in Nat /\ n \in Nat
      /\ stage'[Writer] = "idle"
  BY SavingMoves, RotationAssumption DEF Replace, RotationTypeOK
<1>3. ~Hurt'
  <2>1. ASSUME NEW p \in Process, Recovering(p)' PROVE FALSE
    <3>1. writes' = writes
      BY <2>1, RecoveringStep
    <3> QED
      BY <1>2, <3>1
  <2>2. primary' # Torn
    BY <1>2, RotationAssumption DEF Replace, Stages, Torn
  <2> QED
    BY <2>1, <2>2 DEF Hurt
<1>4. Spare' = Harm'
  BY <1>3 DEF Spare
<1>5. PICK h \in Nat : h = Cardinality(Holes(bak, n))
  BY HolesType, RotationAssumption
<1>6. n <= writes \/ Good(bak[n]) => h <= Harm
  BY <1>2, <1>5 DEF Spreads, Spread
<1>7. n < writes' \/ Good(bak[n]) => h <= Spare'
  BY <1>1, <1>2, <1>4, <1>6
<1>8. ~Passed(n)'
  BY <1>2 DEF Passed
<1> QED
  BY <1>2, <1>5, <1>7, <1>8 DEF Spread

LEMMA SpreadFirst ==
  ASSUME RotationTypeOK, Stages, Spreads, [RotationNext]_rotationVars, NEW n \in 1..Keep,
         Read(Writer), primary = Missing
  PROVE  Spread(n)'
<1>1. Harm \in Nat /\ Spare \in Nat /\ Harm' \in Nat /\ Harm' >= Harm /\ Spare <= Harm
  BY HarmType, HarmStep
<1>2. stage'[Writer] = "replace" /\ Missing # Torn
  BY LoadingMoves, RotationAssumption DEF Process, Missing, Torn
<1>3. stage[Writer] = "read" /\ bak' = bak /\ writes' = writes /\ writes = 0
  BY <1>2 DEF Read, files, Stages
<1>4. PICK h \in Nat : h = Cardinality(Holes(bak, n))
  BY HolesType, RotationAssumption
<1>5. Good(bak[n]) => h <= Spare
  BY <1>3, <1>4 DEF Spreads, Spread, Passed
<1>6. n <= writes' \/ Good(bak[n]) => h <= Harm'
  BY <1>1, <1>3, <1>5
<1>7. ~Passed(n)'
  BY <1>2 DEF Passed
<1> QED
  BY <1>2, <1>3, <1>4, <1>6, <1>7 DEF Spread

LEMMA SpreadsStep ==
  ASSUME RotationTypeOK, Stages, Spreads, [RotationNext]_rotationVars
  PROVE  Spreads'
<1> SUFFICES ASSUME NEW n \in 1..Keep PROVE Spread(n)'
  BY DEF Spreads
<1>1. Spread(n) /\ Writer \in Process
  BY DEF Spreads, Process
<1>2. CASE Saving \/ CopyFails
  BY <1>1, <1>2, SpreadDrop, SpreadShift, SpreadCopy, SpreadReplace, SpreadEnds DEF Saving
<1>3. ASSUME NEW p \in Process, Loading(p) \/ Dies(p) PROVE bak' = bak /\ writes' = writes
  BY <1>3 DEF Loading, Access, Read, HasLoaded, Probe, Put, Dies, files
<1>4. ASSUME NEW p \in Process, Loading(p) \/ Dies(p), p # Writer PROVE Spread(n)'
  BY <1>1, <1>3, <1>4, OthersStay, SpreadStays
<1>5. CASE Loading(Writer)
  <2>1. CASE Read(Writer) /\ primary = Missing
    BY <2>1, SpreadFirst
  <2>2. CASE ~(Read(Writer) /\ primary = Missing)
    <3>1. stage[Writer] \in {"idle", "read", "probe", "put"}
      BY <1>5 DEF Loading, Access, Read, Probe, Put
    <3>2. stage'[Writer] \in {"idle", "read", "probe", "put", "drop"}
      BY <1>1, <1>5, <2>2, LoadingMoves DEF Loading
    <3> QED
      BY <1>1, <1>3, <1>5, <3>1, <3>2, SpreadStays
  <2> QED
    BY <2>1, <2>2
<1>6. CASE Dies(Writer)
  BY <1>1, <1>6, SpreadEnds
<1>7. CASE Corrupt \/ UNCHANGED rotationVars
  BY <1>1, <1>7, SpreadStays DEF Corrupt, procs, files, rotationVars
<1> QED
  BY <1>2, <1>4, <1>5, <1>6, <1>7 DEF RotationNext
-----------------------------------------------------------------------------
(* The first good backup                                                   *)

\* Sets of positive numbers have a least element: the intervals up to their
\* elements are well-founded under inclusion.
LEMMA Least ==
  ASSUME NEW n \in Nat, NEW S \in SUBSET (1..n), S # {}
  PROVE  \E i \in S : \A j \in S : i <= j
<1> DEFINE T == {1..i : i \in S}
<1>1. T \subseteq FiniteSubsetsOf(1..n)
  <2> SUFFICES ASSUME NEW i \in S PROVE 1..i \in FiniteSubsetsOf(1..n)
    OBVIOUS
  <2>1. i \in Nat /\ 1..i \subseteq 1..n
    OBVIOUS
  <2>2. IsFiniteSet(1..i)
    BY <2>1, FS_Interval
  <2> QED
    BY <2>1, <2>2 DEF FiniteSubsetsOf
<1>2. IsWellFoundedOn(StrictSubsetOrdering(1..n), FiniteSubsetsOf(1..n))
  BY FS_StrictSubsetOrderingWellFounded
<1>3. T # {}
  OBVIOUS
<1>4. PICK x \in T : \A y \in T : ~ (<<y, x>> \in StrictSubsetOrdering(1..n))
  BY <1>1, <1>2, <1>3, WFMin
<1>5. PICK i \in S : x = 1..i
  OBVIOUS
<1>6. ASSUME NEW j \in S PROVE i <= j
  <2>1. <<1..j, 1..i>> \notin StrictSubsetOrdering(1..n)
    BY <1>4, <1>5
  <2>2. CASE j < i
    BY <2>1, <2>2 DEF StrictSubsetOrdering
  <2> QED
    BY <2>2
<1> QED
  BY <1>6

LEMMA FirstGood ==
  ASSUME NEW b, NEW j \in 1..Keep, Good(b[j])
  PROVE  \E k \in 1..Keep : Claim(b, 1, k)
<1> DEFINE S == {i \in 1..Keep : Good(b[i])}
<1>1. S \in SUBSET (1..Keep) /\ S # {}
  OBVIOUS
<1>2. PICK i \in S : \A k \in S : i <= k
  BY <1>1, Least, RotationAssumption
<1>3. \A k \in 1..i-1 : k \in 1..Keep /\ ~(i <= k)
  BY RotationAssumption
<1> QED
  BY <1>2, <1>3 DEF Claim

LEMMA ClaimOne ==
  ASSUME NEW b, NEW j \in 1..Keep, NEW k \in 1..Keep, Claim(b, 1, j), Claim(b, 1, k)
  PROVE  j = k
BY RotationAssumption DEF Claim

\* c is b with its i-th entry in place of the next.
Shifts(b, c, i) ==
  /\ ~Good(b[i + 1]) /\ c[i + 1] = b[i] /\ ~Good(c[i])
  /\ \A k \in 1..Keep : k # i /\ k # i + 1 => c[k] = b[k]

LEMMA ClaimShift ==
  ASSUME NEW b, NEW c, NEW i \in 1..Keep-1, NEW m \in 1..Keep, NEW j \in 1..Keep,
         Shifts(b, c, i), Claim(c, m, j)
  PROVE  \E k \in 1..Keep : Claim(b, m, k) /\ b[k] = c[j]
<1> USE RotationAssumption DEF Shifts
<1>1. CASE j = i + 1
  <2>1. Good(b[i]) /\ \A l \in m..i-1 : ~Good(b[l])
    BY <1>1 DEF Claim
  <2> QED
    BY <1>1, <2>1 DEF Claim
<1>2. CASE j < i
  BY <1>2 DEF Claim
<1>3. j # i
  BY DEF Claim
<1>4. CASE j > i + 1
  <2>1. ASSUME NEW l \in m..j-1 PROVE ~Good(b[l])
    <3>1. ~Good(c[l])
      BY DEF Claim
    <3>2. CASE l = i
      <4>1. i + 1 \in m..j-1
        BY <1>4, <3>2
      <4> QED
        BY <3>2, <4>1 DEF Claim
    <3> QED
      BY <3>1, <3>2
  <2>2. Good(b[j]) /\ b[j] = c[j]
    BY <1>4 DEF Claim
  <2> QED
    BY <2>1, <2>2 DEF Claim
<1> QED
  BY <1>1, <1>2, <1>3, <1>4

\* The first good backup after a step was there before, or is the copy made.
LEMMA ClaimStep ==
  ASSUME RotationTypeOK, Stages, [RotationNext]_rotationVars, NEW m \in 1..Keep, NEW j \in 1..Keep,
         Claim(bak', m, j)
  PROVE  \/ \E k \in 1..Keep : Claim(bak, m, k) /\ bak[k] = bak'[j]
         \/ CopyEnds /\ j = 1 /\ bak'[j] = primary /\ Good(primary)
<1> USE RotationAssumption
<1>0. ~Good(Missing) /\ ~Good(Torn)
  BY DEF Good, Missing, Torn
<1>1. CASE Shift
  <2>1. PICK i \in 1..Keep-1 : i = probe[Writer]
    BY <1>1, ShiftedFiles
  <2>2. Shifts(bak, bak', i)
    BY <1>0, <1>1, <2>1, ShiftedFiles DEF Shifts
  <2> QED
    BY <2>2, ClaimShift
<1>2. CASE Drop
  <2>1. bak'[Keep] = Missing /\ \A k \in 1..Keep : k # Keep => bak'[k] = bak[k]
    BY <1>2 DEF Drop, RotationTypeOK
  <2>2. j # Keep
    BY <1>0, <2>1 DEF Claim
  <2>3. Good(bak[j]) /\ \A k \in m..j-1 : ~Good(bak[k])
    BY <2>1, <2>2 DEF Claim
  <2> QED
    BY <2>1, <2>2, <2>3 DEF Claim
<1>3. CASE CopyBegins \/ CopyEnds
  <2>1. ~Good(bak[1]) /\ \A k \in 1..Keep : k # 1 => bak'[k] = bak[k]
    BY <1>0, <1>3 DEF CopyBegins, CopyEnds, Stages, RotationTypeOK
  <2>2. CASE j # 1
    <3>1. Good(bak[j]) /\ \A k \in m..j-1 : ~Good(bak[k])
      BY <2>1, <2>2 DEF Claim
    <3> QED
      BY <2>1, <2>2, <3>1 DEF Claim
  <2>3. CASE j = 1
    <3>1. Good(bak'[1])
      BY <2>3 DEF Claim
    <3>2. CopyBegins => bak'[1] = Torn
      BY DEF CopyBegins, RotationTypeOK
    <3>3. CopyEnds => bak'[1] = primary
      BY DEF CopyEnds, RotationTypeOK
    <3>4. ~CopyBegins
      BY <1>0, <3>1, <3>2
    <3>5. CopyEnds
      BY <1>3, <3>4
    <3>6. bak'[j] = primary /\ Good(primary)
      BY <2>3, <3>1, <3>3, <3>5
    <3> QED
      BY <2>3, <3>5, <3>6
  <2> QED
    BY <2>2, <2>3
<1>4. CASE bak' = bak
  BY <1>4
<1>5. bak' = bak \/ Drop \/ Shift \/ CopyBegins \/ CopyEnds
  BY OneProcess DEF Access, Read, HasLoaded, Probe, Put, Dies, Replace, CopyFails, Corrupt, files, rotationVars
<1> QED
  BY <1>1, <1>2, <1>3, <1>4, <1>5

-----------------------------------------------------------------------------
(* Recent                                                                  *)

LEMMA NearLater ==
  ASSUME RotationTypeOK, Stages, [RotationNext]_rotationVars, NEW x \in Nat, writes' = writes
  PROVE  /\ Near(x) => Near(x)' /\ Near(x + 1)'
         /\ Near(x + 1) /\ Harm' = Harm + 1 => Near(x)'
         /\ writes = 0 => Near(x)'
<1>1. Harm \in Nat /\ Harm' \in Nat /\ Harm' >= Harm /\ writes \in Nat
  BY HarmType, HarmStep, RotationAssumption DEF RotationTypeOK
<1>2. PICK h \in Nat : h = Harm
  BY <1>1
<1>3. PICK i \in Nat : i = Harm'
  BY <1>1
<1>4. i >= h
  BY <1>1, <1>2, <1>3
<1>5. x + h >= writes => x + i >= writes /\ x + 1 + i >= writes
  BY <1>1, <1>4
<1>6. x + 1 + h >= writes /\ i = h + 1 => x + i >= writes
  BY <1>1
<1>7. writes = 0 => x + i >= writes
  BY <1>1
<1> QED
  BY <1>2, <1>3, <1>5, <1>6, <1>7 DEF Near

LEMMA NearPrimary ==
  ASSUME RotationTypeOK, Stages, Recent, [RotationNext]_rotationVars, ~reverted', Good(primary')
  PROVE  Near(primary)'
<1> USE RotationAssumption
<1>1. CASE Replace
  <2>1. primary' = writes' /\ writes' \in Nat /\ Harm' \in Nat
    BY <1>1, StagesStep, HarmStep DEF Replace, RotationTypeOK
  <2>2. PICK w, h \in Nat : w = writes' /\ h = Harm'
    BY <2>1
  <2>3. w + h >= w
    OBVIOUS
  <2> QED
    BY <2>1, <2>2, <2>3 DEF Near
<1>2. CASE ~Replace
  <2>1. writes' = writes
    BY <1>2, OneProcess DEF Access, Read, Probe, Put, Dies, Drop, Shift, CopyBegins, CopyEnds, CopyFails, Corrupt,
      rotationVars
  <2>2. PICK x \in Nat : x = primary'
    BY DEF Good
  <2>3. ASSUME NEW p \in Process, Put(p) PROVE Near(x)
    <3>1. Recovering(p) /\ stage[p] = "put" /\ primary' = got[p]
      BY <2>3 DEF Put, Recovering
    <3> QED
      BY <2>2, <3>1 DEF Recent
  <2>4. ~Corrupt
    BY DEF Corrupt, Good, Torn
  <2>5. ASSUME \A p \in Process : ~Put(p) PROVE primary' = primary
    BY <1>2, <2>4, <2>5, OneProcess DEF Access, Read, HasLoaded, Probe, Dies, Drop, Shift, CopyBegins, CopySource,
      CopyEnds, CopyFails, files, rotationVars
  <2>6. Near(x)
    BY <2>2, <2>3, <2>5 DEF Recent
  <2>7. Near(x)'
    BY <2>1, <2>6, NearLater
  <2> QED
    BY <2>2, <2>7 DEF Near
<1> QED
  BY <1>1, <1>2

LEMMA BecomesReplace ==
  ASSUME RotationTypeOK, Stages, [RotationNext]_rotationVars,
         stage[Writer] # "replace", stage'[Writer] = "replace"
  PROVE  CopyFails \/ CopyEnds \/ (Read(Writer) /\ primary = Missing)
<1>1. Writer \in Process
  BY DEF Process
<1>2. CASE Loading(Writer) \/ Dies(Writer)
  BY <1>1, <1>2, LoadingMoves DEF Loading
<1>3. CASE Saving
  BY <1>3, SavingMoves DEF Saving
<1> QED
  BY <1>1, <1>2, <1>3, OthersStay DEF RotationNext, Corrupt, procs, rotationVars

LEMMA NearBackup ==
  ASSUME RotationTypeOK, Stages, Recent, [RotationNext]_rotationVars, ~reverted',
         NEW j \in 1..Keep, Claim(bak', 1, j)
  PROVE  /\ Near(bak[j] + 1)'
         /\ primary' = Torn \/ stage'[Writer] = "replace" => Near(bak[j])'
<1> USE RotationAssumption
<1>0. 1 \in 1..Keep
  OBVIOUS
<1>1. PICK x \in Nat : x = bak'[j]
  BY DEF Claim, Good
<1>2. CASE Replace
  <2>1. /\ stage[Writer] = "replace" /\ bak' = bak /\ writes' = writes + 1 /\ writes \in Nat
        /\ Harm' \in Nat /\ Harm \in Nat /\ Harm' >= Harm
    BY <1>2, HarmType, HarmStep DEF Replace, RotationTypeOK
  <2>2. primary' # Torn /\ stage'[Writer] # "replace"
    BY <1>2, <2>1, SavingMoves DEF Replace, Stages, Torn
  <2>3. Near(x)
    BY <1>1, <2>1 DEF Recent
  <2>4. PICK h \in Nat : h = Harm
    BY <2>1
  <2>5. PICK i \in Nat : i = Harm'
    BY <2>1
  <2>6. i >= h
    BY <2>1, <2>4, <2>5
  <2>7. x + h >= writes
    BY <2>3, <2>4 DEF Near
  <2>8. x + 1 + i >= writes + 1
    BY <2>1, <2>6, <2>7
  <2>9. Near(x + 1)'
    BY <2>1, <2>5, <2>8 DEF Near
  <2> QED
    BY <1>1, <2>2, <2>9 DEF Near
<1>3. CASE ~Replace
  <2>1. writes' = writes
    BY <1>3, OneProcess DEF Access, Read, Probe, Put, Dies, Drop, Shift, CopyBegins, CopyEnds, CopyFails, Corrupt,
      rotationVars
  <2>2. CASE (\E k \in 1..Keep : Claim(bak, 1, k) /\ bak[k] = bak'[j]) /\ ~(CopyEnds /\ Good(primary))
    <3>1. Near(x + 1) /\ (primary = Torn \/ stage[Writer] = "replace" => Near(x))
      BY <1>1, <2>2 DEF Recent
    <3>2. Near(x + 1)'
      BY <2>1, <3>1, NearLater
    <3>3. CASE primary = Torn \/ stage[Writer] = "replace"
      <4>1. Near(x)'
        BY <2>1, <3>1, <3>3, NearLater
      <4> QED
        BY <1>1, <3>2, <4>1 DEF Near
    <3>4. CASE primary # Torn /\ stage[Writer] # "replace" /\ primary' = Torn
      <4>1. Harm' = Harm + 1
        BY <3>4, HurtStep, HarmStep
      <4>2. Near(x)'
        BY <2>1, <3>1, <4>1, NearLater
      <4> QED
        BY <1>1, <3>2, <4>2 DEF Near
    <3>5. CASE primary # Torn /\ stage[Writer] # "replace" /\ primary' # Torn /\ stage'[Writer] = "replace"
      <4>1. CopyFails \/ CopyEnds \/ (Read(Writer) /\ primary = Missing)
        BY <3>5, BecomesReplace
      <4>2. CASE CopyFails
        <5>1. Near(x)'
          BY <2>1, <3>1, <4>2, HarmStep, NearLater
        <5> QED
          BY <1>1, <3>2, <5>1 DEF Near
      <4>3. CASE Read(Writer) /\ primary = Missing
        <5>1. Near(x)'
          BY <2>1, <4>3, NearLater DEF Stages
        <5> QED
          BY <1>1, <3>2, <5>1 DEF Near
      <4>4. CASE CopyEnds
        <5>1. primary \in Contents /\ primary # Missing
          BY <4>4 DEF CopyEnds, Stages, RotationTypeOK
        <5>2. Good(primary)
          BY <3>5, <5>1 DEF Contents, Good, Missing, Torn
        <5> QED
          BY <2>2, <4>4, <5>2
      <4> QED
        BY <4>1, <4>2, <4>3, <4>4
    <3> QED
      BY <1>1, <3>2, <3>3, <3>4, <3>5 DEF Near
  <2>3. CASE CopyEnds /\ Good(primary)
    <3>1. bak'[1] = primary
      BY <2>3 DEF CopyEnds, RotationTypeOK
    <3>2. j = 1
      BY <2>3, <3>1 DEF Claim
    <3>3. Near(x)
      BY <1>1, <2>3, <3>1, <3>2 DEF Recent
    <3>4. Near(x)' /\ Near(x + 1)'
      BY <2>1, <3>3, NearLater
    <3> QED
      BY <1>1, <3>4 DEF Near
  <2> QED
    BY <1>0, <2>2, <2>3, ClaimStep
<1> QED
  BY <1>2, <1>3

LEMMA NearReader ==
  ASSUME RotationTypeOK, Stages, Recent, [RotationNext]_rotationVars, NEW p \in Process, Recovering(p)'
  PROVE  /\ stage'[p] = "put" => Near(got[p])'
         /\ stage'[p] = "probe" => \A j \in 1..Keep : Claim(bak', probe'[p], j) => Near(bak[j])'
<1> USE RotationAssumption
<1>1. writes' = writes
  BY RecoveringStep
<1>2. CASE Read(p) /\ primary = Torn /\ stage'[p] = "probe" /\ probe'[p] = 1
  <2> SUFFICES ASSUME NEW j \in 1..Keep, Claim(bak', 1, j) PROVE Near(bak[j])'
    BY <1>2
  <2>1. bak' = bak
    BY <1>2 DEF Read, files
  <2>2. PICK x \in Nat : x = bak[j]
    BY <2>1 DEF Claim, Good
  <2>3. Near(x)
    BY <1>2, <2>1, <2>2 DEF Recent
  <2>4. Near(x)'
    BY <1>1, <2>3, NearLater
  <2> QED
    BY <2>1, <2>2, <2>4 DEF Near
<1>3. CASE Probe(p) /\ Recovering(p) /\ stage[p] = "probe"
  <2>1. PICK i \in 1..Keep : i = probe[p]
    BY <1>3 DEF Stages
  <2>2. \A j \in 1..Keep : Claim(bak, i, j) => Near(bak[j])
    BY <1>3, <2>1 DEF Recent
  <2>3. bak' = bak
    BY <1>3 DEF Probe, files
  <2>4. CASE Good(bak[i])
    <3>1. stage'[p] = "put" /\ got'[p] = bak[i]
      BY <1>3, <2>1, <2>4, LoadingMoves
    <3>2. PICK x \in Nat : x = bak[i]
      BY <2>4 DEF Good
    <3>3. Claim(bak, i, i)
      BY <2>4 DEF Claim
    <3>4. Near(x)'
      BY <1>1, <2>2, <3>2, <3>3, NearLater
    <3> QED
      BY <3>1, <3>2, <3>4 DEF Near
  <2>5. CASE ~Good(bak[i])
    <3>1. stage'[p] # "put" /\ (stage'[p] = "probe" => probe'[p] = i + 1)
      BY <1>3, <2>1, <2>5, LoadingMoves
    <3>2. ASSUME NEW j \in 1..Keep, Claim(bak, i + 1, j) PROVE Near(bak[j])'
      <4>1. Claim(bak, i, j)
        BY <2>5, <3>2 DEF Claim
      <4>2. PICK x \in Nat : x = bak[j]
        BY <3>2 DEF Claim, Good
      <4>3. Near(x)'
        BY <1>1, <2>2, <4>1, <4>2, NearLater
      <4> QED
        BY <2>3, <4>2, <4>3 DEF Near
    <3> QED
      BY <2>3, <3>1, <3>2
  <2> QED
    BY <2>4, <2>5
<1>4. CASE Recovering(p) /\ stage'[p] = stage[p] /\ probe'[p] = probe[p] /\ got'[p] = got[p]
  <2>1. ASSUME stage[p] = "put" PROVE Near(got[p])'
    <3>1. PICK x \in Nat : x = got[p]
      BY DEF RotationTypeOK
    <3>2. Near(x)'
      BY <1>1, <1>4, <2>1, <3>1, NearLater DEF Recent
    <3> QED
      BY <1>4, <3>1, <3>2 DEF Near
  <2>2. ASSUME stage[p] = "probe", NEW j \in 1..Keep, Claim(bak', probe[p], j) PROVE Near(bak[j])'
    <3>1. PICK x \in Nat : x = bak'[j]
      BY <2>2 DEF Claim, Good
    <3>2. probe[p] \in 1..Keep
      BY <2>2 DEF Stages
    <3>3. Near(x)
      <4>1. CASE CopyEnds /\ j = 1 /\ bak'[j] = primary /\ Good(primary)
        BY <3>1, <4>1 DEF Recent
      <4>2. CASE \E k \in 1..Keep : Claim(bak, probe[p], k) /\ bak[k] = bak'[j]
        BY <1>4, <2>2, <3>1, <4>2 DEF Recent
      <4> QED
        BY <2>2, <3>2, <4>1, <4>2, ClaimStep
    <3>4. Near(x)'
      BY <1>1, <3>3, NearLater
    <3> QED
      BY <3>1, <3>4 DEF Near
  <2> QED
    BY <1>4, <2>1, <2>2
<1> QED
  BY <1>2, <1>3, <1>4, RecoveringStep

LEMMA RecentStep ==
  ASSUME RotationTypeOK, Stages, RecentInv, [RotationNext]_rotationVars
  PROVE  RecentInv'
<1> SUFFICES ASSUME ~reverted' PROVE Recent'
  BY DEF RecentInv
<1>1. reverted => reverted'
  BY OneProcess DEF Access, Read, Probe, Put, Dies, Drop, Shift, CopyBegins, CopyEnds, Replace, CopyFails, Corrupt,
    past, rotationVars
<1>2. Recent
  BY <1>1 DEF RecentInv
<1>3. Good(primary') => Near(primary)'
  BY <1>2, NearPrimary
<1>4. ASSUME NEW j \in 1..Keep, Claim(bak', 1, j)
      PROVE  /\ Near(bak[j] + 1)'
             /\ primary' = Torn \/ stage'[Writer] = "replace" => Near(bak[j])'
  BY <1>2, <1>4, NearBackup
<1>5. ASSUME NEW p \in Process, Recovering(p)'
      PROVE  /\ stage'[p] = "put" => Near(got[p])'
             /\ stage'[p] = "probe" => \A j \in 1..Keep : Claim(bak', probe'[p], j) => Near(bak[j])'
  BY <1>2, <1>5, NearReader
<1> QED
  BY <1>3, <1>4, <1>5 DEF Recent

-----------------------------------------------------------------------------
(* Agreed                                                                  *)

LEMMA FewStep ==
  ASSUME RotationTypeOK, Stages, [RotationNext]_rotationVars, Few'
  PROVE  Few
<1>1. Harm \in Nat /\ Harm' \in Nat /\ Harm' >= Harm
  BY HarmType, HarmStep
<1>2. Harm' < Keep
  BY DEF Few, Harm
<1>3. Harm < Keep
  BY <1>1, <1>2, RotationAssumption
<1> QED
  BY <1>3 DEF Few, Harm

\* A rotation never drops the only good backup while the document is damaged,
\* or somebody is about to put it back.
LEMMA GoodStays ==
  ASSUME RotationTypeOK, Stages, Spreads, [RotationNext]_rotationVars, Few, Hurt,
         NEW j \in 1..Keep, Good(bak[j])
  PROVE  \E k \in 1..Keep : Good(bak'[k])
<1> USE RotationAssumption
<1>1. CASE Drop
  <2>1. \A k \in 1..Keep : k # Keep => bak'[k] = bak[k]
    BY <1>1 DEF Drop, RotationTypeOK
  <2>2. CASE \E k \in 1..Keep-1 : Good(bak[k])
    BY <2>1, <2>2
  <2>3. CASE \A k \in 1..Keep-1 : ~Good(bak[k])
    <3>1. Good(bak[Keep]) /\ Keep - 1 \in Nat
      BY <2>3
    <3>2. Holes(bak, Keep) = 1..Keep-1
      BY <2>3, <3>1 DEF Holes
    <3>3. Cardinality(Holes(bak, Keep)) = Keep - 1
      BY <3>1, <3>2, FS_Interval
    <3>4. Cardinality(Holes(bak, Keep)) <= Spare
      BY <1>1, <3>1 DEF Drop, Spreads, Spread, Passed
    <3>5. Spare = Harm - 1 /\ Harm < Keep /\ Harm \in Nat
      BY HarmType DEF Spare, Few, Harm
    <3> QED
      BY <3>3, <3>4, <3>5
  <2> QED
    BY <2>2, <2>3
<1>2. CASE Shift
  <2>1. PICK i \in 1..Keep-1 : i = probe[Writer]
    BY <1>2, ShiftedFiles
  <2>2. /\ bak[i + 1] = Missing /\ bak'[i + 1] = bak[i]
        /\ \A k \in 1..Keep : k # i /\ k # i + 1 => bak'[k] = bak[k]
    BY <1>2, <2>1, ShiftedFiles
  <2>3. j # i + 1
    BY <2>2 DEF Good, Missing
  <2> QED
    BY <2>2, <2>3
<1>3. CASE CopyBegins \/ CopyEnds
  <2>1. ~Good(bak[1])
    BY <1>3 DEF CopyBegins, CopyEnds, Stages, Good, Missing, Torn
  <2>2. \A k \in 1..Keep : k # 1 => bak'[k] = bak[k]
    BY <1>3 DEF CopyBegins, CopyEnds, RotationTypeOK
  <2> QED
    BY <2>1, <2>2
<1>4. CASE bak' = bak
  BY <1>4
<1>5. bak' = bak \/ Drop \/ Shift \/ CopyBegins \/ CopyEnds
  BY OneProcess DEF Access, Read, HasLoaded, Probe, Put, Dies, Replace, CopyFails, Corrupt, files, rotationVars
<1> QED
  BY <1>1, <1>2, <1>3, <1>4, <1>5

LEMMA NewestStep ==
  ASSUME RotationTypeOK, Stages, Agreed, [RotationNext]_rotationVars, ~reverted', writes' = writes,
         NEW x, Newest(x), Good(x)
  PROVE  Newest(x)'
<1> USE RotationAssumption
<1>0. 1 \in 1..Keep
  OBVIOUS
<1>1. primary' \in {Torn, x}
  <2>1. ASSUME NEW p \in Process, Put(p) PROVE primary' = x
    <3>1. Recovering(p) /\ stage[p] = "put" /\ primary' = got[p]
      BY <2>1 DEF Put, Recovering
    <3>2. Newest(got[p]) /\ \E j \in 1..Keep : Good(bak[j])
      BY <3>1 DEF Agreed
    <3>3. PICK k \in 1..Keep : Claim(bak, 1, k)
      BY <3>2, FirstGood
    <3> QED
      BY <3>1, <3>2, <3>3 DEF Newest
  <2>2. ~Replace
    BY DEF Replace, RotationTypeOK
  <2>3. Corrupt => primary' = Torn
    BY DEF Corrupt
  <2>4. ~Corrupt /\ (\A p \in Process : ~Put(p)) => primary' = primary
    BY <2>2, OneProcess DEF Access, Read, HasLoaded, Probe, Dies, Drop, Shift, CopyBegins, CopySource,
      CopyEnds, CopyFails, files, rotationVars
  <2> QED
    BY <2>1, <2>3, <2>4 DEF Newest
<1>2. ASSUME NEW j \in 1..Keep, Claim(bak', 1, j) PROVE bak'[j] = x
  <2>1. CASE CopyEnds /\ j = 1 /\ bak'[j] = primary /\ Good(primary)
    BY <2>1 DEF Newest, Good, Torn
  <2>2. CASE \E k \in 1..Keep : Claim(bak, 1, k) /\ bak[k] = bak'[j]
    BY <2>2 DEF Newest
  <2> QED
    BY <1>0, <1>2, <2>1, <2>2, ClaimStep
<1> QED
  BY <1>1, <1>2 DEF Newest

LEMMA AgreedReader ==
  ASSUME RotationTypeOK, Stages, Spreads, Agreed, [RotationNext]_rotationVars, ~reverted', Few,
         NEW p \in Process, Recovering(p)'
  PROVE  /\ stage'[p] = "put" => Newest(got[p])' /\ \E j \in 1..Keep : Good(bak'[j])
         /\ stage'[p] = "probe" => \A j \in 1..Keep : Claim(bak', probe'[p], j) => Newest(bak[j])'
<1> USE RotationAssumption
<1>1. writes' = writes
  BY RecoveringStep
<1>2. CASE Read(p) /\ primary = Torn /\ stage'[p] = "probe" /\ probe'[p] = 1
  <2> SUFFICES ASSUME NEW j \in 1..Keep, Claim(bak', 1, j) PROVE Newest(bak[j])'
    BY <1>2
  <2>1. bak' = bak /\ primary' = primary
    BY <1>2 DEF Read, files
  <2>2. \A k \in 1..Keep : Claim(bak, 1, k) => bak[k] = bak[j]
    BY <2>1, ClaimOne
  <2>3. Newest(bak[j])
    BY <1>2, <2>2 DEF Newest
  <2> QED
    BY <2>1, <2>3 DEF Newest
<1>3. CASE Probe(p) /\ Recovering(p) /\ stage[p] = "probe"
  <2>1. PICK i \in 1..Keep : i = probe[p]
    BY <1>3 DEF Stages
  <2>2. \A j \in 1..Keep : Claim(bak, i, j) => Newest(bak[j])
    BY <1>3, <2>1 DEF Agreed
  <2>3. bak' = bak /\ primary' = primary
    BY <1>3 DEF Probe, files
  <2>4. CASE Good(bak[i])
    <3>1. stage'[p] = "put" /\ got'[p] = bak[i]
      BY <1>3, <2>1, <2>4, LoadingMoves
    <3>2. Claim(bak, i, i)
      BY <2>4 DEF Claim
    <3>3. Newest(bak[i])
      BY <2>2, <3>2
    <3>4. Newest(got[p])'
      BY <2>3, <3>1, <3>3 DEF Newest
    <3> QED
      BY <2>3, <2>4, <3>1, <3>4
  <2>5. CASE ~Good(bak[i])
    <3>1. stage'[p] # "put" /\ (stage'[p] = "probe" => probe'[p] = i + 1)
      BY <1>3, <2>1, <2>5, LoadingMoves
    <3>2. ASSUME NEW j \in 1..Keep, Claim(bak, i + 1, j) PROVE Newest(bak[j])'
      <4>1. Claim(bak, i, j)
        BY <2>5, <3>2 DEF Claim
      <4>2. Newest(bak[j])
        BY <2>2, <4>1
      <4> QED
        BY <2>3, <4>2 DEF Newest
    <3> QED
      BY <2>3, <3>1, <3>2
  <2> QED
    BY <2>4, <2>5
<1>4. CASE Recovering(p) /\ stage'[p] = stage[p] /\ probe'[p] = probe[p] /\ got'[p] = got[p]
  <2>1. ASSUME stage[p] = "put" PROVE Newest(got[p])' /\ \E j \in 1..Keep : Good(bak'[j])
    <3>1. PICK x : x = got[p]
      OBVIOUS
    <3>2. Newest(x) /\ Good(x) /\ \E j \in 1..Keep : Good(bak[j])
      BY <1>4, <2>1, <3>1 DEF Agreed, Stages
    <3>3. Newest(x)'
      BY <1>1, <3>2, NewestStep
    <3>4. Hurt
      BY <1>4 DEF Hurt
    <3>5. \E j \in 1..Keep : Good(bak'[j])
      BY <3>2, <3>4, GoodStays
    <3> QED
      BY <1>4, <3>1, <3>3, <3>5 DEF Newest
  <2>2. ASSUME stage[p] = "probe", NEW j \in 1..Keep, Claim(bak', probe[p], j) PROVE Newest(bak[j])'
    <3>1. PICK x : x = bak'[j]
      OBVIOUS
    <3>2. probe[p] \in 1..Keep
      BY <2>2 DEF Stages
    <3>3. CASE CopyEnds /\ j = 1 /\ bak'[j] = primary /\ Good(primary)
      <4>1. primary' = x /\ bak'[1] = x
        BY <3>1, <3>3 DEF CopyEnds
      <4>2. Claim(bak', 1, 1)
        BY <3>3 DEF Claim
      <4>3. \A k \in 1..Keep : Claim(bak', 1, k) => bak'[k] = x
        BY <4>1, <4>2, ClaimOne
      <4> QED
        BY <3>1, <4>1, <4>3 DEF Newest
    <3>4. CASE \E k \in 1..Keep : Claim(bak, probe[p], k) /\ bak[k] = bak'[j]
      <4>1. Newest(x)
        BY <1>4, <2>2, <3>1, <3>4 DEF Agreed
      <4>2. Good(x)
        BY <2>2, <3>1 DEF Claim
      <4>3. Newest(x)'
        BY <1>1, <4>1, <4>2, NewestStep
      <4> QED
        BY <3>1, <4>3 DEF Newest
    <3> QED
      BY <2>2, <3>2, <3>3, <3>4, ClaimStep
  <2> QED
    BY <1>4, <2>1, <2>2
<1> QED
  BY <1>2, <1>3, <1>4, RecoveringStep

LEMMA RevertedStep ==
  ASSUME [RotationNext]_rotationVars, ~reverted'
  PROVE  ~reverted
BY OneProcess DEF Access, Read, Probe, Put, Dies, Drop, Shift, CopyBegins, CopyEnds, Replace, CopyFails, Corrupt,
  past, rotationVars

LEMMA AgreedStep ==
  ASSUME RotationTypeOK, Stages, Spreads, AgreedInv, [RotationNext]_rotationVars
  PROVE  AgreedInv'
<1> SUFFICES ASSUME Few', ~reverted' PROVE Agreed'
  BY DEF AgreedInv
<1>1. Few /\ Agreed
  BY FewStep, RevertedStep DEF AgreedInv
<1>2. ASSUME NEW p \in Process, Recovering(p)'
      PROVE  /\ stage'[p] = "put" => Newest(got[p])' /\ \E j \in 1..Keep : Good(bak'[j])
             /\ stage'[p] = "probe" => \A j \in 1..Keep : Claim(bak', probe'[p], j) => Newest(bak[j])'
  BY <1>1, <1>2, AgreedReader
<1> QED
  BY <1>2 DEF Agreed

-----------------------------------------------------------------------------
(* The invariant                                                           *)

LEMMA RotationStarts == RotationInit => RotationInv
<1> SUFFICES ASSUME RotationInit PROVE RotationInv
  OBVIOUS
<1> USE RotationAssumption
<1>0. ~Good(Missing) /\ Missing # Torn /\ Missing = 0
  BY DEF Good, Missing, Torn
<1>1. RotationTypeOK
  <2>1. primary \in Contents /\ bak \in [1..Keep -> Contents]
    BY DEF RotationInit, Contents, Missing
  <2>2. writes \in 0..MaxWrites /\ faults \in 0..MaxFaults /\ corruptions \in 0..MaxCorrupt
    BY DEF RotationInit
  <2>3. 0 \in 0..Keep /\ 0 \in 0..MaxWrites
    OBVIOUS
  <2> QED
    BY <2>1, <2>2, <2>3 DEF RotationInit, RotationTypeOK
<1>2. \A p \in Process : ~Recovering(p)
  BY DEF RotationInit, Recovering
<1>3. ~Hurt
  BY <1>0, <1>2 DEF Hurt, RotationInit
<1>4. Stages
  BY <1>0, <1>3 DEF Stages, RotationInit, Process
<1>5. \A j \in 1..Keep : ~Good(bak[j])
  BY <1>0 DEF RotationInit
<1>6. Spreads
  BY <1>5 DEF Spreads, Spread, Passed, RotationInit, Process
<1>7. RecentInv
  BY <1>0, <1>2, <1>5 DEF RecentInv, Recent, Claim, RotationInit
<1>8. AgreedInv
  BY <1>2 DEF AgreedInv, Agreed
<1> QED
  BY <1>1, <1>4, <1>6, <1>7, <1>8 DEF RotationInv

LEMMA RotationStep == RotationInv /\ [RotationNext]_rotationVars => RotationInv'
BY StagesStep, SpreadsStep, RecentStep, AgreedStep DEF RotationInv

LEMMA RotationHolds == RotationSpec => []RotationInv
BY RotationStarts, RotationStep, PTL DEF RotationSpec

-----------------------------------------------------------------------------
(* What a load returns                                                     *)

\* Loaded, of any document and backups.
LoadedOf(d, b) ==
  IF d # Torn THEN d
  ELSE IF \E i \in 1..Keep : Good(b[i]) THEN b[CHOOSE i \in 1..Keep : Claim(b, 1, i)] ELSE Torn

LEMMA LoadedBackup ==
  ASSUME NEW b, NEW k \in 1..Keep, Claim(b, 1, k)
  PROVE  LoadedOf(Torn, b) = b[k]
<1> DEFINE c == CHOOSE i \in 1..Keep : Claim(b, 1, i)
<1>1. c \in 1..Keep /\ Claim(b, 1, c)
  OBVIOUS
<1>2. Good(b[k])
  BY DEF Claim
<1>3. LoadedOf(Torn, b) = b[c]
  BY <1>2 DEF LoadedOf
<1> HIDE DEF c
<1>4. c = k
  BY <1>1, ClaimOne
<1> QED
  BY <1>3, <1>4

LEMMA LoadedState == Loaded = LoadedOf(primary, bak) /\ Loaded' = LoadedOf(primary', bak')
BY DEF Loaded, LoadedOf, Claim

LEMMA GoodLeft ==
  ASSUME RotationInv, Few, writes > Harm, primary = Torn
  PROVE  \E k \in 1..Keep : Good(bak[k])
<1> SUFFICES ASSUME \A k \in 1..Keep : ~Good(bak[k]) PROVE FALSE
  OBVIOUS
<1> USE RotationAssumption DEF RotationInv
<1>1. /\ Harm \in Nat /\ Spare \in Nat /\ Harm = Spare + 1 /\ Harm < Keep /\ writes \in Nat
  BY HarmType DEF Few, Harm, RotationTypeOK
<1>2. ASSUME NEW n \in 1..Keep PROVE Cardinality(Holes(bak, n)) = n
  <2>1. Holes(bak, n) = 1..n
    BY DEF Holes
  <2> QED
    BY <2>1, FS_Interval
<1>3. PICK h \in 1..Keep : h = Harm /\ h + 1 \in 1..Keep
  BY <1>1
<1>4. Spread(h) /\ Spread(h + 1)
  BY <1>3 DEF Spreads
<1>5. CASE stage[Writer] = "replace"
  BY <1>1, <1>2, <1>3, <1>4, <1>5 DEF Spread
<1>6. CASE Passed(h + 1)
  BY <1>1, <1>2, <1>3, <1>4, <1>6 DEF Spread
<1>7. CASE stage[Writer] # "replace" /\ ~Passed(h + 1)
  <2>1. ~Passed(h)
    BY <1>7 DEF Passed, RotationTypeOK, Stages
  <2> QED
    BY <1>1, <1>2, <1>3, <1>4, <1>7, <2>1 DEF Spread
<1> QED
  BY <1>5, <1>6, <1>7

LEMMA FewLost == RotationInv => LosesFew
<1> SUFFICES ASSUME RotationInv, Few PROVE
      /\ writes > faults + corruptions => Loaded # Torn
      /\ ~reverted /\ Good(Loaded) => Loaded + faults + corruptions >= writes
  BY DEF LosesFew
<1> USE RotationAssumption
<1>1. Harm = faults + corruptions
  BY DEF Harm
<1>2. ASSUME writes > Harm PROVE Loaded # Torn
  <2>1. CASE primary # Torn
    BY <2>1, LoadedState DEF LoadedOf
  <2>2. CASE primary = Torn
    <3>1. PICK k \in 1..Keep : Claim(bak, 1, k)
      BY <1>2, <2>2, GoodLeft, FirstGood
    <3>2. Loaded = bak[k]
      BY <2>2, <3>1, LoadedBackup, LoadedState
    <3> QED
      BY <3>1, <3>2 DEF Claim, Good, Torn
  <2> QED
    BY <2>1, <2>2
<1>3. ASSUME ~reverted, Good(Loaded) PROVE Near(Loaded)
  <2>1. Recent
    BY <1>3 DEF RotationInv, RecentInv
  <2>2. CASE primary # Torn
    BY <1>3, <2>1, <2>2, LoadedState DEF LoadedOf, Recent
  <2>3. CASE primary = Torn
    <3>1. \E k \in 1..Keep : Good(bak[k])
      BY <1>3, <2>3, LoadedState DEF LoadedOf, Good, Torn
    <3>2. PICK k \in 1..Keep : Claim(bak, 1, k)
      BY <3>1, FirstGood
    <3>3. Loaded = bak[k]
      BY <2>3, <3>2, LoadedBackup, LoadedState
    <3> QED
      BY <2>1, <2>3, <3>2, <3>3 DEF Recent
  <2> QED
    BY <2>2, <2>3
<1>4. Good(Loaded) /\ Near(Loaded) => Loaded + faults + corruptions >= writes
  <2>1. faults \in Nat /\ corruptions \in Nat /\ writes \in Nat
    BY DEF RotationInv, RotationTypeOK
  <2> QED
    BY <1>1, <2>1 DEF Near, Good
<1> QED
  BY <1>1, <1>2, <1>3, <1>4

LEMMA LoadedSame ==
  ASSUME RotationInv, [RotationNext]_rotationVars, Few, primary = Torn, primary' = primary
  PROVE  Loaded' = Loaded
<1> USE RotationAssumption DEF RotationInv
<1>0. 1 \in 1..Keep /\ ~Good(Torn) /\ Hurt
  BY DEF Good, Torn, Hurt
<1>1. ASSUME NEW j \in 1..Keep, Claim(bak', 1, j) PROVE \E k \in 1..Keep : Claim(bak, 1, k) /\ bak[k] = bak'[j]
  BY <1>0, <1>1, ClaimStep
<1>2. CASE \E k \in 1..Keep : Good(bak[k])
  <2>1. PICK j \in 1..Keep : Claim(bak', 1, j)
    BY <1>0, <1>2, GoodStays, FirstGood
  <2>2. PICK k \in 1..Keep : Claim(bak, 1, k) /\ bak[k] = bak'[j]
    BY <1>1, <2>1
  <2>3. LoadedOf(Torn, bak') = bak'[j] /\ LoadedOf(Torn, bak) = bak[k]
    BY <2>1, <2>2, LoadedBackup
  <2> QED
    BY <2>2, <2>3, LoadedState
<1>3. CASE \A k \in 1..Keep : ~Good(bak[k])
  <2>1. ASSUME NEW j \in 1..Keep, Good(bak'[j]) PROVE FALSE
    <3>1. PICK i \in 1..Keep : Claim(bak', 1, i)
      BY <2>1, FirstGood
    <3>2. PICK k \in 1..Keep : Claim(bak, 1, k)
      BY <1>1, <3>1
    <3> QED
      BY <1>3, <3>2 DEF Claim
  <2> QED
    BY <1>3, <2>1, LoadedState DEF LoadedOf
<1> QED
  BY <1>2, <1>3

LEMMA OneStepOnly ==
  ASSUME RotationInv, [RotationNext]_rotationVars, Few', ~reverted'
  PROVE  OneStep
<1> USE RotationAssumption DEF RotationInv
<1>1. Few /\ ~reverted /\ Agreed
  BY FewStep, RevertedStep DEF AgreedInv
<1>2. CASE Replace
  <2>1. primary' = writes' /\ writes' = writes + 1 /\ writes \in Nat /\ writes < MaxWrites
    BY <1>2 DEF Replace, Stages, RotationTypeOK
  <2>2. primary' # Torn
    BY <2>1 DEF Torn
  <2>3. Loaded' = writes'
    BY <2>1, <2>2, LoadedState DEF LoadedOf
  <2> QED
    BY <2>1, <2>3 DEF OneStep
<1>3. CASE Corrupt
  BY <1>3 DEF Corrupt, OneStep, RotationTypeOK
<1>4. ASSUME NEW p \in Process, Put(p) PROVE Loaded' = Loaded
  <2>1. Recovering(p) /\ stage[p] = "put" /\ primary' = got[p]
    BY <1>4 DEF Put, Recovering
  <2>2. Newest(got[p]) /\ (\E j \in 1..Keep : Good(bak[j])) /\ got[p] # Torn
    BY <1>1, <2>1 DEF Agreed, Stages, Good, Torn
  <2>3. Loaded' = got[p]
    BY <2>1, <2>2, LoadedState DEF LoadedOf
  <2>4. CASE primary = Torn
    <3>1. PICK k \in 1..Keep : Claim(bak, 1, k)
      BY <2>2, FirstGood
    <3>2. Loaded = bak[k]
      BY <2>4, <3>1, LoadedBackup, LoadedState
    <3> QED
      BY <2>2, <2>3, <3>1, <3>2 DEF Newest
  <2>5. CASE primary # Torn
    BY <2>2, <2>3, <2>5, LoadedState DEF LoadedOf, Newest
  <2> QED
    BY <2>4, <2>5
<1>5. CASE primary' = primary
  <2>1. CASE primary = Torn
    BY <1>1, <1>5, <2>1, LoadedSame DEF OneStep
  <2>2. CASE primary # Torn
    BY <1>5, <2>2, LoadedState DEF LoadedOf, OneStep
  <2> QED
    BY <2>1, <2>2
<1>6. ~Replace /\ ~Corrupt /\ (\A p \in Process : ~Put(p)) => primary' = primary
  BY OneProcess DEF Access, Read, HasLoaded, Probe, Dies, Drop, Shift, CopyBegins, CopySource,
    CopyEnds, CopyFails, files, rotationVars
<1> QED
  BY <1>2, <1>3, <1>4, <1>5, <1>6 DEF OneStep

-----------------------------------------------------------------------------
(* The theorems of BackupRotation                                          *)

\* The document and the backups hold what was written, or what a damage or an
\* unfinished copy left; only good ones are put back.
THEOREM RotationTypes == RotationSpec => []RotationTypeOK
<1>1. RotationInv => RotationTypeOK
  BY DEF RotationInv
<1> QED
  BY <1>1, RotationHolds, PTL

\* Once written, the document is never missing: whatever rotates, recovers or
\* dies, in any order and number, no load falls back to the defaults.
THEOREM DocumentNeverForgotten == RotationSpec => []NeverForgotten
<1>1. RotationInv => NeverForgotten
  BY RotationAssumption DEF RotationInv, Stages, NeverForgotten, RotationTypeOK
<1> QED
  BY <1>1, RotationHolds, PTL

\* With fewer deaths, failed copies and damages than backups, for any number of
\* backups, a document written more often than that can be loaded at every
\* step, and what is loaded misses no more writes than there were of them.
THEOREM RotationLosesFew == RotationSpec => []LosesFew
BY FewLost, RotationHolds, PTL

\* Then a load returns the old document at every step of a rotation or of a
\* recovery, also of several at once, until the new one is in place.
THEOREM RotationAtomic == RotationSpec => Atomic
<1>1. RotationInv /\ [RotationNext]_rotationVars => [Few' /\ ~reverted' => OneStep]_rotationVars
  BY OneStepOnly
<1> QED
  BY <1>1, RotationHolds, PTL DEF RotationSpec, Atomic
=============================================================================
