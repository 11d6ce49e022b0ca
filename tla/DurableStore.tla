---------------------------- MODULE DurableStore ----------------------------
(***************************************************************************)
(* The cross-process store of providers, route profiles and settings       *)
(* (lib/durable-store.js): an advisory lock file created with O_EXCL, with *)
(* recovery of stale locks, around read-modify-write of one JSON document  *)
(* that is replaced by rename (lib/atomic-json.js).                        *)
(*                                                                         *)
(* The web service and every `cpr` command are processes of their own, so  *)
(* each system call on the lock file is a step.                            *)
(***************************************************************************)
EXTENDS Naturals, FiniteSets

CONSTANTS
  Procs,        \* writer processes
  MaxOps,       \* bound: operations per process
  MaxFail,      \* bound: processes killed, stamps not written
  None

\* The token of an acquisition and the update it protects have one name.
Updates == Procs \X (1..MaxOps)

LockFile == [token : Updates, stamped : BOOLEAN]

ASSUME BoundAssumption ==
  /\ IsFiniteSet(Procs) /\ None \notin Updates \cup LockFile
  /\ MaxOps \in Nat /\ MaxFail \in Nat

VARIABLES
  lock,     \* the lock file: None, or who created it and whether it is stamped
  old,      \* the lock file's mtime is more than staleMs ago
  doc,      \* the document: its revision and the updates it contains
  committed,  \* updates whose write has returned
  at,       \* program counter of a process
  op,       \* its current operation
  judged,   \* history: the acquisition whose lock file a process found stale
  overtaken,  \* history: a lock file has been broken in another's place
  replaced,   \* history: updates an unconditional save has written over
  fails

breaking == <<judged, overtaken>>
history == <<breaking, replaced>>
vars == <<lock, old, doc, committed, at, op, history, fails>>

Document == [rev : 0..Cardinality(Updates), has : SUBSET Updates]

\* mutate loads under the lock; save brings a payload built on an earlier
\* unlocked load, with that load's revision as expectedRevision or, to
\* overwrite (saveStore of lib/store.js), with none.
Kinds == {"mutate", "save", "overwrite"}

Operation == [n : 0..MaxOps, kind : Kinds, read : Document,
              seen : Updates \cup {None}]

Critical == {"load", "write"}

TypeOK ==
  /\ lock \in LockFile \cup {None}
  /\ old \in BOOLEAN
  /\ doc \in Document
  /\ committed \subseteq Updates
  /\ at \in [Procs -> {"idle", "open", "stamp", "holder", "judge", "recheck",
                       "break", "owner", "unlink", "dead"} \cup Critical]
  /\ op \in [Procs -> Operation]
  /\ judged \in [Procs -> Updates \cup {None}] /\ overtaken \in BOOLEAN
  /\ replaced \subseteq Updates
  /\ fails \in 0..MaxFail

Init ==
  /\ lock = None
  /\ old = FALSE
  /\ doc = [rev |-> 0, has |-> {}]
  /\ committed = {}
  /\ at = [p \in Procs |-> "idle"]
  /\ op = [p \in Procs |-> [n |-> 0, kind |-> "mutate", read |-> doc, seen |-> None]]
  /\ judged = [p \in Procs |-> None] /\ overtaken = FALSE /\ replaced = {}
  /\ fails = 0

Mine(p) == <<p, op[p].n>>

\* readLockInfo: None if the file is missing or not yet written.
Info == IF lock = None \/ ~ lock.stamped THEN None ELSE lock.token

\* Whose lock file it is, written or not.
Found == IF lock = None THEN None ELSE lock.token

-----------------------------------------------------------------------------

\* A caller starts an operation; for save it has read the document before.
Begin(p, kind) ==
  /\ at[p] = "idle" /\ op[p].n < MaxOps
  /\ op' = [op EXCEPT ![p] = [n |-> @.n + 1, kind |-> kind, read |-> doc, seen |-> None]]
  /\ at' = [at EXCEPT ![p] = "open"]
  /\ UNCHANGED <<lock, old, doc, committed, history, fails>>

\* open(lockFile, 'wx').
Open(p) ==
  /\ at[p] = "open"
  /\ IF lock = None
     THEN /\ lock' = [token |-> Mine(p), stamped |-> FALSE]
          /\ old' = FALSE
          /\ at' = [at EXCEPT ![p] = "stamp"]
     ELSE /\ at' = [at EXCEPT ![p] = "holder"]
          /\ UNCHANGED <<lock, old>>
  /\ UNCHANGED <<doc, committed, op, history, fails>>

\* The owner record is written into the descriptor: nobody sees it if the
\* name has been removed, or taken by another file, in between.
Stamp(p) ==
  /\ at[p] = "stamp"
  /\ lock' = IF lock # None /\ lock.token = Mine(p) THEN [lock EXCEPT !.stamped = TRUE] ELSE lock
  /\ at' = [at EXCEPT ![p] = "load"]
  /\ UNCHANGED <<old, doc, committed, op, history, fails>>

\* The owner record cannot be written (disk full): the operation throws, and
\* the empty lock file stays behind.
StampFails(p) ==
  /\ at[p] = "stamp"
  /\ fails < MaxFail
  /\ fails' = fails + 1
  /\ at' = [at EXCEPT ![p] = "idle"]
  /\ UNCHANGED <<lock, old, doc, committed, op, history>>

\* EEXIST: read who holds the lock.
ReadHolder(p) ==
  /\ at[p] = "holder"
  /\ op' = [op EXCEPT ![p].seen = Info]
  /\ at' = [at EXCEPT ![p] = "judge"]
  /\ UNCHANGED <<lock, old, doc, committed, history, fails>>

\* Mutant of Stale: the age of an unreadable lock is not looked at.
NeverAged(seen) == (seen # None /\ at[seen[1]] = "dead") \/ lock = None

\* lockIsStale: the holder's process is gone, or the file is old, or missing.
Stale(seen) ==
  \/ seen # None /\ at[seen[1]] = "dead"
  \/ lock = None
  \/ old

\* A live lock is waited for (sleep, try again) until the deadline.
Judge(p) ==
  /\ at[p] = "judge"
  /\ \/ /\ Stale(op[p].seen)
        /\ at' = [at EXCEPT ![p] = "recheck"]
        /\ judged' = [judged EXCEPT ![p] = Found]
     \/ /\ ~ Stale(op[p].seen)
        /\ at' = [at EXCEPT ![p] = "open"]
        /\ UNCHANGED judged
  /\ UNCHANGED <<lock, old, doc, committed, op, overtaken, replaced, fails>>

\* LockTimeoutError.
TimeOut(p) ==
  /\ at[p] = "judge" /\ ~ Stale(op[p].seen)
  /\ at' = [at EXCEPT ![p] = "idle"]
  /\ UNCHANGED <<lock, old, doc, committed, op, history, fails>>

\* Mutant of Unchanged: the lock is not read again.
NotReread(p) == TRUE

\* The lock is broken only if it still is what was judged stale, as far as its
\* content tells: one unreadable file is not told from another.
Unchanged(p) == Info = op[p].seen

Recheck(p) ==
  /\ at[p] = "recheck"
  /\ IF Unchanged(p)
     THEN /\ at' = [at EXCEPT ![p] = "break"]
          /\ judged' = [judged EXCEPT ![p] = IF Info = None THEN judged[p] ELSE Found]
     ELSE at' = [at EXCEPT ![p] = "open"] /\ judged' = [judged EXCEPT ![p] = None]
  /\ UNCHANGED <<lock, old, doc, committed, op, overtaken, replaced, fails>>

\* rm(lockFile), whatever it is by now.
Break(p) ==
  /\ at[p] = "break"
  /\ lock' = None
  /\ old' = FALSE
  /\ at' = [at EXCEPT ![p] = "open"]
  /\ overtaken' = (overtaken \/ Found \notin {None, judged[p]})
  /\ judged' = [judged EXCEPT ![p] = None]
  /\ UNCHANGED <<doc, committed, op, replaced, fails>>

-----------------------------------------------------------------------------

\* Mutant of Conflicts: save does not look at the caller's revision.
NeverConflicts(p) == FALSE

\* RevisionConflictError: only where a revision is expected.
Conflicts(p) == op[p].kind = "save" /\ op[p].read.rev # doc.rev

Load(p) ==
  /\ at[p] = "load"
  /\ IF Conflicts(p)
     THEN at' = [at EXCEPT ![p] = "owner"] /\ UNCHANGED op
     ELSE /\ at' = [at EXCEPT ![p] = "write"]
          /\ op' = IF op[p].kind = "mutate" THEN [op EXCEPT ![p].read = doc]
                   ELSE [op EXCEPT ![p].read.rev = doc.rev]
  /\ UNCHANGED <<lock, old, doc, committed, history, fails>>

\* Mutant of NextRevision: load and write both count.
SkipRevision(rev) == rev + 2

NextRevision(rev) == rev + 1

\* writeEnvelope: the document is replaced by what was read plus the update,
\* by an overwrite whatever has been written since.
Write(p) ==
  /\ at[p] = "write"
  /\ doc' = [rev |-> NextRevision(op[p].read.rev), has |-> op[p].read.has \cup {Mine(p)}]
  /\ committed' = committed \cup {Mine(p)}
  /\ replaced' = IF op[p].kind = "overwrite" THEN replaced \cup (doc.has \ op[p].read.has) ELSE replaced
  /\ at' = [at EXCEPT ![p] = "owner"]
  /\ UNCHANGED <<lock, old, op, breaking, fails>>

\* release: leave a lock alone that carries another's token ...
ReadOwner(p) ==
  /\ at[p] = "owner"
  /\ at' = [at EXCEPT ![p] = IF Info \in {None, Mine(p)} THEN "unlink" ELSE "idle"]
  /\ UNCHANGED <<lock, old, doc, committed, op, history, fails>>

Unlink(p) ==
  /\ at[p] = "unlink"
  /\ lock' = None
  /\ old' = FALSE
  /\ at' = [at EXCEPT ![p] = "idle"]
  /\ UNCHANGED <<doc, committed, op, history, fails>>

-----------------------------------------------------------------------------

\* A process is killed; its successor has another pid.
Crash(p) ==
  /\ fails < MaxFail
  /\ at[p] \notin {"idle", "dead"}
  /\ at' = [at EXCEPT ![p] = "dead"]
  /\ fails' = fails + 1
  /\ UNCHANGED <<lock, old, doc, committed, op, history>>

\* The creator of the lock file will not come back to it.
Abandoned == at[lock.token[1]] \in {"dead", "idle"} \/ lock.token # Mine(lock.token[1])

\* Time passes.  A live process is assumed to finish its few system calls
\* well within staleMs, so only an abandoned lock gets old.
Age ==
  /\ lock # None /\ ~ old
  /\ Abandoned
  /\ old' = TRUE
  /\ UNCHANGED <<lock, doc, committed, at, op, history, fails>>

Step(p) ==
  \/ Open(p) \/ Stamp(p) \/ ReadHolder(p) \/ Judge(p) \/ Recheck(p) \/ Break(p)
  \/ Load(p) \/ Write(p) \/ ReadOwner(p) \/ Unlink(p)

Next ==
  \/ \E p \in Procs :
       \/ \E kind \in Kinds : Begin(p, kind)
       \/ Step(p) \/ TimeOut(p) \/ StampFails(p) \/ Crash(p)
  \/ Age

Spec == Init /\ [][Next]_vars

\* The operating system runs every process, and time passes.  Nothing is
\* assumed of the deadline: NeverWedged may not rely on giving up.
FairSpec == Spec /\ (\A p \in Procs : WF_vars(Step(p))) /\ WF_vars(Age)

-----------------------------------------------------------------------------
(* Properties.                                                             *)

\* A Web service and concurrent cpr commands never lose each other's updates:
\* what was written stays in the document unless a save without an expected
\* revision has replaced it, and a save based on an outdated revision is
\* refused instead of clobbering it.  That is so until a process breaks
\* another lock file than it has judged: one created between its last look and
\* the removal, or one as unreadable as the judged.
NoLostUpdate == ~overtaken => committed \ replaced \subseteq doc.has

\* lib/store.js and CHANGELOG.md say so without that premise.  Two processes
\* that only release and take locks break it, so no run checks it (README,
\* section 10).
UpdatesKept == committed \ replaced \subseteq doc.has

\* At most one live process reads and writes the document under the lock,
\* whoever was killed with a lock and whoever broke it, up to then.
SoleHolder == ~overtaken => Cardinality({p \in Procs : at[p] \in Critical}) <= 1

\* A crashed owner, even one that died before it stamped its lock, never
\* wedges the others: whoever tries for the lock gets it, is killed or gives
\* up at its deadline.
NeverWedged ==
  \A p \in Procs : (at[p] = "open") ~> (at[p] \in {"load", "idle", "dead"})

=============================================================================
