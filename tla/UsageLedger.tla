----------------------------- MODULE UsageLedger -----------------------------
(***************************************************************************)
(* The usage ledger (lib/usage-ledger.js): day shards of JSON lines that     *)
(* several processes append to and prune, each with an index of its own of  *)
(* the event ids it knows, and a lock file between them.  A process may die *)
(* at any step and be started again, a write may fail or be cut short, and  *)
(* a lock may grow old while its holder lives.                              *)
(*                                                                         *)
(* Only the kind of day matters of an event: one that prune would remove,   *)
(* or a recent one.                                                         *)
(***************************************************************************)
EXTENDS Naturals

CONSTANTS
  Process,
  Event,
  Expired,      \* the events of the expired days
  MaxFaults,    \* bound: deaths and bad writes
  None

ASSUME LedgerAssumption ==
  /\ Expired \subseteq Event
  /\ None \notin Event
  /\ \A known \in SUBSET Event : known # None
  /\ MaxFaults \in Nat

VARIABLES
  lock,        \* the lock file: "none", "new", or "old" (above 30 s)
  orphaned,    \* the process that made the lock file is dead
  lines,       \* the lines of an event, by the process that wrote them
  broken,      \* the shards, "expired" and "recent", with a line cut short
  index,       \* eventIds, None until it is read
  pc, ev,      \* a process, and the event it appends, None if it prunes
  holds,       \* the processes whose lock file is the one on disk
  recorded,    \* history: recent events that append has accepted or known
  spoilt,      \* history: events with a line that its writer does not know of,
               \* or all of them, once a shard could not be read
  faults

disk == <<lines, broken>>
file == <<lock, orphaned, holds>>
history == <<recorded, spoilt>>
vars == <<file, disk, index, pc, ev, history, faults>>

Stages == {"idle", "try", "stat", "break", "wait", "held", "append", "release", "dead"}

TypeOK ==
  /\ lock \in {"none", "new", "old"}
  /\ orphaned \in BOOLEAN
  /\ lines \in [Event -> [Process -> 0..2]]
  /\ broken \subseteq {"expired", "recent"}
  /\ index \in [Process -> (SUBSET Event) \cup {None}]
  /\ pc \in [Process -> Stages]
  /\ ev \in [Process -> Event \cup {None}]
  /\ holds \subseteq Process
  /\ recorded \subseteq Event /\ spoilt \subseteq Event
  /\ faults \in 0..MaxFaults

Init ==
  /\ lock = "none" /\ orphaned = FALSE /\ holds = {}
  /\ lines = [e \in Event |-> [p \in Process |-> 0]]
  /\ broken = {}
  /\ index = [p \in Process |-> None]
  /\ pc = [p \in Process |-> "idle"]
  /\ ev = [p \in Process |-> None]
  /\ recorded = {} /\ spoilt = {}
  /\ faults = 0

-----------------------------------------------------------------------------

Goes(p, stage) == pc' = [pc EXCEPT ![p] = stage]

Shard(e) == IF e \in Expired THEN "expired" ELSE "recent"

OnDisk == {e \in Event : \E p \in Process : lines[e][p] > 0}

\* append of event e, or prune.
Call(p) ==
  /\ pc[p] = "idle"
  /\ Goes(p, "try")
  /\ \E e \in Event \cup {None} : ev' = [ev EXCEPT ![p] = e]
  /\ UNCHANGED <<file, disk, index, history, faults>>

-----------------------------------------------------------------------------
(* acquireLock                                                             *)

\* open(lockFile, 'wx')
Create(p) ==
  /\ pc[p] = "try" /\ lock = "none"
  /\ lock' = "new" /\ orphaned' = FALSE /\ holds' = {p}
  /\ Goes(p, "held")
  /\ UNCHANGED <<disk, index, ev, history, faults>>

Exists(p) ==
  /\ pc[p] = "try" /\ lock # "none"
  /\ Goes(p, "stat")
  /\ UNCHANGED <<file, disk, index, ev, history, faults>>

\* Mutant of Stale: locks do not grow stale.
StaleNever == FALSE

Stale == lock = "old"

\* The lock is looked at, and removed in a step of its own.
Stat(p) ==
  /\ pc[p] = "stat"
  /\ Goes(p, IF Stale THEN "break" ELSE "wait")
  /\ UNCHANGED <<file, disk, index, ev, history, faults>>

RemoveLock == lock' = "none" /\ orphaned' = FALSE /\ holds' = {}

Break(p) ==
  /\ pc[p] = "break"
  /\ RemoveLock
  /\ Goes(p, "wait")
  /\ UNCHANGED <<disk, index, ev, history, faults>>

\* 20 ms later the loop goes on, or its five seconds are over: "busy".
Wait(p) ==
  /\ pc[p] = "wait"
  /\ \E stage \in {"try", "idle"} : Goes(p, stage)
  /\ UNCHANGED <<file, disk, index, ev, history, faults>>

-----------------------------------------------------------------------------
(* Under the lock                                                          *)

\* ensureEventIndex reads every shard unless it has done so before.
IndexOf(p) == IF index[p] = None THEN OnDisk ELSE index[p]

\* readShard throws on a line it cannot parse.
Reads(p) == index[p] # None \/ broken = {}

\* The index that a failed reading leaves behind: the shards before the first
\* that cannot be parsed are in it.
Partial == IF "expired" \in broken THEN {} ELSE OnDisk \cap Expired

Accepted(p) == recorded' = recorded \cup ({ev[p]} \ Expired)

\* The event is known, or is to be appended.
Look(p) ==
  /\ pc[p] = "held" /\ ev[p] # None /\ Reads(p)
  /\ index' = [index EXCEPT ![p] = IndexOf(p)]
  /\ IF ev[p] \in IndexOf(p)
     THEN Goes(p, "release") /\ Accepted(p)
     ELSE Goes(p, "append") /\ UNCHANGED recorded
  /\ UNCHANGED <<file, disk, ev, spoilt, faults>>

LookFails(p) ==
  /\ pc[p] = "held" /\ ev[p] # None /\ ~Reads(p)
  /\ index' = [index EXCEPT ![p] = Partial]
  /\ Goes(p, "release")
  /\ UNCHANGED <<file, disk, ev, history, faults>>

\* "2" stands for two and more.
OneMore(e, p) == [lines EXCEPT ![e][p] = IF @ = 0 THEN 1 ELSE 2]

\* Mutant of Indexed: a line is written, and not remembered.
IndexedNever(p) == index

Indexed(p) == [index EXCEPT ![p] = @ \cup {ev[p]}]

Append(p) ==
  /\ pc[p] = "append"
  /\ lines' = OneMore(ev[p], p)
  /\ index' = Indexed(p)
  /\ Accepted(p)
  /\ Goes(p, "release")
  /\ UNCHANGED <<file, broken, ev, spoilt, faults>>

\* Mutant of AfterFailure: the event is known before it is written.
AfterFailureKnown(p) == Indexed(p)

\* The index after a write that threw: the event is not added.
AfterFailure(p) == index

Fault == faults < MaxFaults /\ faults' = faults + 1

\* open, write or fsync throws: with the line on disk if it is fsync.
AppendThrows(p) ==
  /\ pc[p] = "append" /\ Fault
  /\ \/ UNCHANGED <<lines, spoilt>>
     \/ lines' = OneMore(ev[p], p) /\ spoilt' = spoilt \cup {ev[p]}
  /\ index' = AfterFailure(p)
  /\ Goes(p, "release")
  /\ UNCHANGED <<file, broken, ev, recorded>>

\* The shard ends in the beginning of a line.
CutShort(e) == broken' = broken \cup {Shard(e)} /\ spoilt' = Event

\* write takes a part of the line, and its result is not looked at.
AppendShort(p) ==
  /\ pc[p] = "append" /\ Fault
  /\ CutShort(ev[p])
  /\ index' = Indexed(p)
  /\ Accepted(p)
  /\ Goes(p, "release")
  /\ UNCHANGED <<file, lines, ev>>

\* prune removes the shards of the expired days, and forgets the index.
Prune(p) ==
  /\ pc[p] = "held" /\ ev[p] = None
  /\ lines' = [e \in Event |-> IF e \in Expired THEN [q \in Process |-> 0] ELSE lines[e]]
  /\ broken' = broken \ {"expired"}
  /\ index' = IF lines' # lines \/ broken' # broken
              THEN [index EXCEPT ![p] = None] ELSE index
  /\ Goes(p, "release")
  /\ UNCHANGED <<file, ev, history, faults>>

\* Whoever's lock file it is by now.
Release(p) ==
  /\ pc[p] = "release"
  /\ RemoveLock
  /\ Goes(p, "idle")
  /\ ev' = [ev EXCEPT ![p] = None]
  /\ UNCHANGED <<disk, index, history, faults>>

-----------------------------------------------------------------------------
(* Environment                                                             *)

\* A process dies; in an append the line may be written, or half of it.
Crash(p) ==
  /\ pc[p] \notin {"idle", "dead"} /\ Fault
  /\ \/ UNCHANGED <<disk, spoilt>>
     \/ pc[p] = "append" /\ lines' = OneMore(ev[p], p) /\ UNCHANGED <<broken, spoilt>>
     \/ pc[p] = "append" /\ CutShort(ev[p]) /\ UNCHANGED lines
  /\ orphaned' = (orphaned \/ p \in holds)
  /\ holds' = holds \ {p}
  /\ index' = [index EXCEPT ![p] = None]
  /\ ev' = [ev EXCEPT ![p] = None]
  /\ Goes(p, "dead")
  /\ UNCHANGED <<lock, recorded>>

Restart(p) ==
  /\ pc[p] = "dead"
  /\ Goes(p, "idle")
  /\ UNCHANGED <<file, disk, index, ev, history, faults>>

\* Thirty seconds pass; the holder may be alive.
Age ==
  /\ lock = "new" /\ lock' = "old"
  /\ UNCHANGED <<orphaned, holds, disk, index, pc, ev, history, faults>>

-----------------------------------------------------------------------------

Step(p) ==
  \/ Create(p) \/ Exists(p) \/ Stat(p) \/ Break(p) \/ Wait(p)
  \/ Look(p) \/ LookFails(p) \/ Append(p) \/ AppendThrows(p) \/ AppendShort(p)
  \/ Prune(p) \/ Release(p)

Next ==
  \/ \E p \in Process : Call(p) \/ Step(p) \/ Crash(p) \/ Restart(p)
  \/ Age

Spec == Init /\ [][Next]_vars

\* Processes go on, services are started again, clocks run, and there is
\* always something to record.
FairSpec ==
  /\ Spec
  /\ \A p \in Process : WF_vars(Step(p)) /\ WF_vars(Restart(p)) /\ WF_vars(Call(p))
  /\ WF_vars(Age)

-----------------------------------------------------------------------------
(* Properties                                                              *)

\* A process appends an event once, however often it is recorded, whatever
\* other processes append and remove at the same time, with or without the
\* lock, and through prunes and restarts; short of a line that it was told had
\* failed, and of shards that cannot be read.
OncePerProcess ==
  \A e \in Event \ spoilt, p \in Process : lines[e][p] <= 1

\* A recent event that append has accepted, or called known, is on disk, unless
\* its shard cannot be read: no interleaving of appends and prunes loses it.
Recorded ==
  recorded \subseteq OnDisk \/ "recent" \in broken

\* The lock of a dead process is removed while others have something to record.
NeverStuck == orphaned ~> ~orphaned
=============================================================================
