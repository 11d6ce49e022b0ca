--------------------------- MODULE BackupRotation ---------------------------
(***************************************************************************)
(* How a document of a store survives (lib/atomic-json.js, and load, save   *)
(* and mutate of lib/durable-store.js): before a write the backups are      *)
(* shifted and the document is copied to the first of them; the document is *)
(* replaced by rename; a load that cannot read it takes the newest backup   *)
(* that it can read, and puts that in the document's place.                 *)
(*                                                                         *)
(* Writers hold the store's lock (module DurableStore), so there is one at  *)
(* a time; load takes no lock.  Every file operation is a step.             *)
(***************************************************************************)
EXTENDS Naturals, FiniteSets

CONSTANTS
  Keep,        \* backups
  Loader,      \* processes that load without the lock
  Writer,      \* whoever holds it
  MaxWrites, MaxFaults, MaxCorrupt   \* bounds

ASSUME RotationAssumption ==
  /\ Keep \in Nat \ {0}
  /\ Writer \notin Loader
  /\ MaxWrites \in Nat /\ MaxFaults \in Nat /\ MaxCorrupt \in Nat

VARIABLES
  primary, bak,   \* the document, and its backups
  writes,         \* completed writes
  stage, probe, got,  \* a process: where it is, the backup it looks at or
                  \* shifts, and the document it has read
  seen,           \* history: writes when a process found the document damaged
  reverted,       \* history: a load has put back a document after a later write
  faults, corruptions

files == <<primary, bak>>
procs == <<stage, probe, got>>
past == <<seen, reverted>>
rotationVars == <<files, writes, procs, past, faults, corruptions>>

Process == Loader \cup {Writer}

\* A document is named by the number of the write that made it; 0 stands for
\* no file, and Torn for bytes that do not parse.
Missing == 0
Torn == MaxWrites + 1
Contents == 0..MaxWrites + 1
Good(content) == content \in 1..MaxWrites

RotationTypeOK ==
  /\ primary \in Contents
  /\ bak \in [1..Keep -> Contents]
  /\ writes \in 0..MaxWrites
  /\ stage \in [Process -> {"idle", "read", "probe", "put", "drop", "shift", "copy",
                         "copying", "replace"}]
  /\ probe \in [Process -> 0..Keep]
  /\ got \in [Process -> 0..MaxWrites]
  /\ seen \in [Process -> 0..MaxWrites] /\ reverted \in BOOLEAN
  /\ faults \in 0..MaxFaults /\ corruptions \in 0..MaxCorrupt

RotationInit ==
  /\ primary = Missing /\ bak = [i \in 1..Keep |-> Missing]
  /\ writes = 0
  /\ stage = [p \in Process |-> "idle"]
  /\ probe = [p \in Process |-> 0]
  /\ got = [p \in Process |-> 0]
  /\ seen = [p \in Process |-> 0] /\ reverted = FALSE
  /\ faults = 0 /\ corruptions = 0

-----------------------------------------------------------------------------

Goes(p, s, i) == stage' = [stage EXCEPT ![p] = s] /\ probe' = [probe EXCEPT ![p] = i]

Ends(p) == Goes(p, "idle", 0) /\ got' = [got EXCEPT ![p] = 0]

\* What a load that nobody disturbs returns: the document, or the newest
\* backup in its stead.
Loaded ==
  IF primary # Torn THEN primary
  ELSE IF \E i \in 1..Keep : Good(bak[i])
       THEN bak[CHOOSE i \in 1..Keep : Good(bak[i]) /\ \A j \in 1..i-1 : ~Good(bak[j])]
       ELSE Torn

\* load, save or mutate.
Access(p) ==
  /\ stage[p] = "idle"
  /\ p = Writer => writes < MaxWrites
  /\ Goes(p, "read", 0)
  /\ UNCHANGED <<files, writes, got, past, faults, corruptions>>

-----------------------------------------------------------------------------
(* loadOrRecover                                                           *)

\* A writer goes on to its write, which rotates only what exists.
HasLoaded(p) ==
  IF p = Writer THEN Goes(p, IF primary' = Missing THEN "replace" ELSE "drop", Keep) /\ UNCHANGED got
                ELSE Ends(p)

Read(p) ==
  /\ stage[p] = "read"
  /\ IF primary = Torn
     THEN /\ Goes(p, "probe", 1)
          /\ seen' = [seen EXCEPT ![p] = writes]
          /\ UNCHANGED <<files, got>>
     ELSE UNCHANGED <<files, seen>> /\ HasLoaded(p)
  /\ UNCHANGED <<writes, reverted, faults, corruptions>>

\* Mutant of Candidate: the oldest backup first.
OldestCandidate(i) == bak[Keep + 1 - i]

\* The newest backup first.
Candidate(i) == bak[i]

\* Mutant of Usable: the first backup is taken as it is.
UsableAny(content) == content # Missing

Usable(content) == Good(content)

\* The next backup; without one the corruption is reported, never defaults.
Probe(p) ==
  /\ stage[p] = "probe"
  /\ \/ /\ Usable(Candidate(probe[p]))
        /\ got' = [got EXCEPT ![p] = Candidate(probe[p])]
        /\ Goes(p, "put", 0)
     \/ /\ ~Usable(Candidate(probe[p])) /\ probe[p] < Keep
        /\ Goes(p, "probe", probe[p] + 1) /\ UNCHANGED got
     \/ /\ ~Usable(Candidate(probe[p])) /\ probe[p] = Keep
        /\ Ends(p)
  /\ UNCHANGED <<files, writes, past, faults, corruptions>>

\* The backup takes the place of the document, whatever that is by now; the
\* bytes that were there are kept beside it.
Put(p) ==
  /\ stage[p] = "put"
  /\ primary' = got[p]
  /\ reverted' = (reverted \/ seen[p] # writes)
  /\ HasLoaded(p)
  /\ UNCHANGED <<bak, writes, seen, faults, corruptions>>

-----------------------------------------------------------------------------
(* writeJsonAtomic: rotateJsonBackups, atomicWriteFile                     *)

Drop ==
  /\ stage[Writer] = "drop"
  /\ bak' = [bak EXCEPT ![Keep] = Missing]
  /\ IF Keep = 1 THEN Goes(Writer, "copy", 0) ELSE Goes(Writer, "shift", Keep - 1)
  /\ UNCHANGED <<primary, writes, got, past, faults, corruptions>>

\* Mutant of Shifted: a backup is shifted over the one before it.
ShiftedDown(i) == [bak EXCEPT ![i] = bak[i + 1], ![i + 1] = Missing]

\* rename(bak i, bak i+1), which fails if there is none.
Shifted(i) == IF bak[i] = Missing THEN bak ELSE [bak EXCEPT ![i + 1] = bak[i], ![i] = Missing]

Shift ==
  /\ stage[Writer] = "shift"
  /\ LET i == probe[Writer] IN
       /\ bak' = Shifted(i)
       /\ IF i = 1 THEN Goes(Writer, "copy", 0) ELSE Goes(Writer, "shift", i - 1)
  /\ UNCHANGED <<primary, writes, got, past, faults, corruptions>>

\* Mutant of CopySource: the document is moved to the backup.
MovedSource == Missing

\* The document stays where it is while it is copied.
CopySource == primary

\* copyFile truncates its destination, and then fills it.
CopyBegins ==
  /\ stage[Writer] = "copy"
  /\ bak' = [bak EXCEPT ![1] = Torn]
  /\ primary' = CopySource
  /\ Goes(Writer, "copying", 0)
  /\ UNCHANGED <<writes, got, past, faults, corruptions>>

CopyEnds ==
  /\ stage[Writer] = "copying"
  /\ bak' = [bak EXCEPT ![1] = primary]
  /\ Goes(Writer, "replace", 0)
  /\ UNCHANGED <<primary, writes, got, past, faults, corruptions>>

\* rename(tmp, file)
Replace ==
  /\ stage[Writer] = "replace"
  /\ writes' = writes + 1
  /\ primary' = writes + 1
  /\ Ends(Writer)
  /\ UNCHANGED <<bak, past, faults, corruptions>>

-----------------------------------------------------------------------------
(* Faults                                                                  *)

Fault == faults < MaxFaults /\ faults' = faults + 1

\* A copy that fails is not retried, and does not stop the write.
CopyFails ==
  /\ stage[Writer] \in {"copy", "copying"} /\ Fault
  /\ Goes(Writer, "replace", 0)
  /\ UNCHANGED <<files, writes, got, past, corruptions>>

\* A process dies, or its write throws (disk full), at any step.
Dies(p) ==
  /\ stage[p] # "idle" /\ Fault
  /\ Ends(p)
  /\ UNCHANGED <<files, writes, past, corruptions>>

\* The document is damaged: a bad block, an editor.
Corrupt ==
  /\ corruptions < MaxCorrupt /\ corruptions' = corruptions + 1
  /\ Good(primary)
  /\ primary' = Torn
  /\ UNCHANGED <<bak, writes, procs, past, faults>>

-----------------------------------------------------------------------------

Saving == Drop \/ Shift \/ CopyBegins \/ CopyEnds \/ Replace

Loading(p) == Access(p) \/ Read(p) \/ Probe(p) \/ Put(p)

RotationNext ==
  \/ \E p \in Process : Loading(p) \/ Dies(p)
  \/ Saving \/ CopyFails \/ Corrupt

RotationSpec == RotationInit /\ [][RotationNext]_rotationVars

-----------------------------------------------------------------------------
(* Properties                                                              *)

\* Only a file that was never written is missing: no interleaving of writes,
\* recoveries and deaths makes a load fall back to the defaults.
NeverForgotten == writes > 0 => primary # Missing

\* Deaths, failed copies and damages together are fewer than the backups.
Few == faults + corruptions < Keep

\* Then a document written more often than that can always be loaded, also in
\* the middle of a rotation and after rotations that stopped; and a write is
\* lost for each of them at most: a recovery takes the newest document there
\* is, not just any that parses.
LosesFew ==
  Few =>
    /\ writes > faults + corruptions => Loaded # Torn
    /\ ~reverted /\ Good(Loaded) => Loaded + faults + corruptions >= writes

\* Until a load overtakes a writer, what a load returns changes in one step,
\* from the old document to the new, however far a rotation has come and
\* whatever stopped it, unless the document is damaged.
OneStep ==
  \/ Loaded' = Loaded
  \/ Loaded' = writes' /\ writes' > writes
  \/ corruptions' > corruptions

Atomic == [][Few' /\ ~reverted' => OneStep]_rotationVars
=============================================================================
