----------------------------- MODULE AtomicFile -----------------------------
(***************************************************************************)
(* securefs.Store.AtomicWrite: one managed file, its group of backups, and *)
(* a program that may fail, be cancelled or crash between any two steps.   *)
(*                                                                         *)
(* A version stands for the content of one write or edit; versions are     *)
(* numbered in the order in which they were made.  A backup has a version  *)
(* and the modification time by which histories are sorted.  Backups that  *)
(* older releases left elsewhere (in a group with a hashed name, or beside *)
(* the file) join the group on the way.                                    *)
(*                                                                         *)
(* Writers of the same file are kept apart by writeMu (TaskLocks), other   *)
(* programs are not.                                                       *)
(***************************************************************************)
EXTENDS Integers, FiniteSets, Sequences

CONSTANTS Absent,      \* no file
          MaxVersion,  \* bound: contents made during a behaviour
          MaxClock,    \* bound: backups made during a behaviour
          Settings,    \* values of the retention setting
          OldHashed,   \* backups of earlier releases, in the hashed group
          OldBeside,   \* and beside the file
          None

Versions == 0 .. MaxVersion
Times    == -MaxClock .. MaxClock
Backup   == [id: Times, time: Times, version: Versions, whole: BOOLEAN]

\* The past is negative: backups of earlier releases have times before 0.  In a
\* directory, no two files have one name.
ASSUME FileAssumption ==
  /\ MaxVersion \in Nat /\ MaxClock \in Nat
  /\ Settings \subseteq Int /\ Settings # {}
  /\ Absent \notin Int /\ None \notin Int /\ None \notin Backup
  /\ None \notin [want: Versions, published: BOOLEAN]
  /\ OldHashed \subseteq Backup /\ OldBeside \subseteq Backup
  /\ \A b \in OldHashed \cup OldBeside : b.time < 0 /\ b.id = b.time
  /\ \A b, c \in OldHashed : b.id = c.id => b = c

VARIABLES file,     \* the version in the file, or Absent
          group,    \* the regular backup-* files of the managed group
          hashed,   \* backups in the group with the hashed name
          beside,   \* backups beside the file
          pc,       \* the next step of the write
          want,     \* the version being written
          copied,   \* the version the write backed up, or None
          moving,   \* the backup beside the file that is being copied, or None
          plan,     \* backups listed to be migrated, then to be pruned
          result,   \* what the last write returned, "none" when nobody was told
          setting,  \* the retention setting
          fresh,    \* the next version
          clock,    \* the next backup, and its time
          replaced  \* history: what writes backed up since the setting changed, in
                    \* order; None for a copy whose write did not return success

vars == <<file, group, hashed, beside, pc, want, copied, moving, plan, result, setting,
          fresh, clock, replaced>>

Copies == Versions \cup {None}

Steps == {"idle", "inspect", "save", "copying", "temporary", "ready", "cleanup",
          "migrate", "moving", "moved", "prune"}

TypeOK == /\ file \in Versions \cup {Absent}
          /\ group \subseteq Backup /\ hashed \subseteq OldHashed /\ beside \subseteq OldBeside
          /\ pc \in Steps
          /\ want \in Versions
          /\ copied \in Versions \cup {None}
          /\ moving \in OldBeside \cup {None} /\ (pc \in {"moving", "moved"} => moving # None)
          /\ plan \subseteq Backup /\ (pc \in {"migrate", "moving", "moved"} => plan \subseteq OldBeside)
          /\ result \in {"none", "ok", "failed"}
          /\ setting \in Settings
          /\ fresh \in 1 .. MaxVersion + 1 /\ clock \in 0 .. MaxClock + 1
          /\ replaced \in Seq(Copies)

Init == /\ file \in {0, Absent}
        /\ group = {} /\ hashed = OldHashed /\ beside = OldBeside
        /\ pc = "idle" /\ want = 0 /\ copied = None /\ moving = None /\ plan = {}
        /\ result = "none"
        /\ setting \in Settings
        /\ fresh = 1 /\ clock = 0
        /\ replaced = << >>

files   == <<group, hashed, beside>>
working == <<want, copied, moving, plan>>
outside == <<setting, fresh, clock, replaced>>

-----------------------------------------------------------------------------
(* Histories, newest first: by time, then by name. *)

BackupRetention == IF setting < 1 THEN 3 ELSE IF setting > 100 THEN 100 ELSE setting

Newer(b, S) == {c \in S : c.time > b.time \/ (c.time = b.time /\ c.id > b.id)}

\* The newest of S, as many as the setting says.
Newest(S) == {b \in S : Cardinality(Newer(b, S)) < BackupRetention}

\* Plausible bug: the excess cut from a list sorted the other way.
ExcessFromTheFront(S) ==
  {b \in S : Cardinality(Newer(b, S)) < Cardinality(S) - BackupRetention}

\* The others.
Excess(S) == S \ Newest(S)

\* What copyFile creates: a new name, the present time, nothing in it yet.
NewBackup(v) == [id |-> clock, time |-> clock, version |-> v, whole |-> FALSE]

\* The file that was created last, and what it is when all of the content is in it.
Filling   == {b \in group : b.id = clock - 1}
Filled(b) == [b EXCEPT !.whole = TRUE]

-----------------------------------------------------------------------------
(* AtomicWrite, and the Backup it begins with. *)

Ask == /\ pc = "idle"
       /\ fresh =< MaxVersion
       /\ pc' = "inspect" /\ want' = fresh /\ fresh' = fresh + 1
       /\ copied' = None /\ result' = "none"
       /\ UNCHANGED <<file, files, moving, plan, setting, clock, replaced>>

\* A file that does not exist needs no backup.
Inspect == /\ pc = "inspect"
           /\ pc' = IF file = Absent THEN "temporary" ELSE "save"
           /\ UNCHANGED <<file, files, working, result, outside>>

\* migrateHashedBackupGroup renames one backup after the other.
MoveHashed == /\ pc = "save"
              /\ \E b \in hashed : hashed' = hashed \ {b} /\ group' = group \cup {b}
              /\ UNCHANGED <<file, beside, pc, working, result, outside>>

StartCopy == /\ pc = "save" /\ hashed = {}
             /\ file # Absent \* or copyFile does not open it, and fails
             /\ clock =< MaxClock
             /\ group' = group \cup {NewBackup(file)}
             /\ copied' = file /\ clock' = clock + 1
             /\ pc' = "copying"
             /\ UNCHANGED <<file, hashed, beside, want, moving, plan, result, setting, fresh,
                            replaced>>

EndCopy == /\ pc = "copying"
           /\ group' = (group \ Filling) \cup {Filled(b) : b \in Filling}
           /\ pc' = "temporary"
           /\ UNCHANGED <<file, hashed, beside, working, result, outside>>

\* Plausible bug: the content is written to the target itself.
PrepareInPlace == /\ pc = "temporary"
                  /\ file' = want
                  /\ pc' = "ready"
                  /\ UNCHANGED <<files, working, result, outside>>

\* The temporary file beside the target: written, flushed, closed, secured.
Prepare == /\ pc = "temporary"
           /\ pc' = "ready"
           /\ UNCHANGED <<file, files, working, result, outside>>

Rename == /\ pc = "ready"
          /\ file' = want
          /\ pc' = "cleanup"
          /\ UNCHANGED <<files, working, result, outside>>

-----------------------------------------------------------------------------
(* cleanupBackups, which begins with migrateLegacyBackups. *)

\* The newest backups beside the file will move to the group, the others go.
Cleanup == /\ pc = "cleanup"
           /\ plan' = Newest(beside)
           /\ pc' = "migrate"
           /\ UNCHANGED <<file, files, want, copied, moving, result, outside>>

\* Oldest first.
StartMove == /\ pc = "migrate"
             /\ clock =< MaxClock
             /\ \E b \in plan : /\ Newer(b, plan) = plan \ {b}
                                /\ moving' = b
                                /\ group' = group \cup {NewBackup(b.version)}
             /\ clock' = clock + 1
             /\ pc' = "moving"
             /\ UNCHANGED <<file, hashed, beside, want, copied, plan, result, setting, fresh,
                            replaced>>

\* Plausible bug: the copy keeps its own time.
EndMoveUndated == /\ pc = "moving"
                  /\ group' = (group \ Filling) \cup {Filled(b) : b \in Filling}
                  /\ pc' = "moved"
                  /\ UNCHANGED <<file, hashed, beside, working, result, outside>>

\* The copy gets the time of its source by Chtimes.
EndMove == /\ pc = "moving"
           /\ group' = (group \ Filling) \cup
                         {[Filled(b) EXCEPT !.time = moving.time] : b \in Filling}
           /\ pc' = "moved"
           /\ UNCHANGED <<file, hashed, beside, working, result, outside>>

RemoveSource == /\ pc = "moved"
                /\ beside' = beside \ {moving} /\ plan' = plan \ {moving} /\ moving' = None
                /\ pc' = "migrate"
                /\ UNCHANGED <<file, group, hashed, want, copied, result, outside>>

DropOld == /\ pc = "migrate" /\ plan = {}
           /\ \E b \in beside : beside' = beside \ {b}
           /\ UNCHANGED <<file, group, hashed, pc, working, result, outside>>

List == /\ pc = "migrate" /\ plan = {} /\ beside = {}
        /\ plan' = Excess(group)
        /\ pc' = "prune"
        /\ UNCHANGED <<file, files, want, copied, moving, result, outside>>

\* The newest of the excess goes first.
Prune == /\ pc = "prune"
         /\ \E b \in plan : /\ Newer(b, plan) = {}
                            /\ plan' = plan \ {b} /\ group' = group \ {b}
         /\ UNCHANGED <<file, hashed, beside, pc, want, copied, moving, result, outside>>

Return == /\ pc = "prune" /\ plan = {}
          /\ pc' = "idle" /\ result' = "ok"
          /\ replaced' = IF copied = None THEN replaced ELSE Append(replaced, copied)
          /\ UNCHANGED <<file, files, working, setting, fresh, clock>>

-----------------------------------------------------------------------------
(* Interruptions. *)

\* A copy was begun whose completion, attributes or permissions may yet fail.
Unsettled == \/ pc \in {"copying", "moving", "moved"}
             \/ pc = "temporary" /\ copied # None

\* The write ends: at an error or a cancelled context ("failed"), or because the
\* program did ("none").  An unsettled copy may stay as it is, be complete, or be
\* removed; whatever the write did before stays done.
Stop(how) == /\ pc # "idle"
             /\ \/ UNCHANGED group
                \/ /\ Unsettled
                   /\ group' \in {group \ Filling,
                                  (group \ Filling) \cup {Filled(b) : b \in Filling}}
             /\ pc' = "idle" /\ result' = how
             /\ moving' = None /\ plan' = {}
             /\ replaced' = replaced \o (IF copied = None THEN << >> ELSE <<None>>)
                                    \o (IF moving = None THEN << >> ELSE <<None>>)
             /\ UNCHANGED <<file, hashed, beside, want, copied, setting, fresh, clock>>

Fail  == Stop("failed")
Crash == Stop("none")

\* Another program, the Agent itself for one, replaces or removes the file.
Edit == /\ \/ fresh =< MaxVersion /\ file' = fresh /\ fresh' = fresh + 1
           \/ file' = Absent /\ UNCHANGED fresh
        /\ UNCHANGED <<files, pc, working, result, setting, clock, replaced>>

\* SaveSettings holds writeMu, as the write does.  The few files with a mutex of their
\* own (task history, capability cache) are not meant here.
SetRetention == /\ pc = "idle"
                /\ setting' \in Settings
                /\ result' = "none" /\ replaced' = << >>
                /\ UNCHANGED <<file, files, pc, working, fresh, clock>>

Next == \/ Ask \/ Inspect \/ MoveHashed \/ StartCopy \/ EndCopy \/ Prepare \/ Rename
        \/ Cleanup \/ StartMove \/ EndMove \/ RemoveSource \/ DropOld \/ List \/ Prune
        \/ Return \/ Fail \/ Crash \/ Edit \/ SetRetention

Spec == Init /\ [][Next]_vars

-----------------------------------------------------------------------------
(* Properties. *)

\* What a successful write replaced can be restored: the newest backup of the group
\* is a complete copy of it, whatever earlier writes left behind when they failed or
\* crashed, and whatever migration brought in (Backup, cleanupBackups).
PreviousKept ==
  result = "ok" /\ copied # None =>
    \E b \in group : b.whole /\ b.version = copied /\ Newer(b, group) = {}

\* "The latest three historical versions are kept" (src/README.md:133), and no more:
\* the last contents that successful writes replaced, as many as the setting says, can
\* be restored, and nothing older is left in the group or beside the file.  A write that
\* failed or crashed after its copy costs one place, and one more if a migration was
\* under way (securefs.go:214, 380-384).
LatestVersionsKept ==
  result = "ok" =>
    /\ Cardinality(group) =< BackupRetention /\ beside = {}
    /\ \A i \in DOMAIN replaced : replaced[i] # None /\ Len(replaced) - i < BackupRetention =>
         \E b \in group : b.whole /\ b.version = replaced[i]

\* What every reachable state keeps: types, and a backup of what was replaced last.
HistorySafe == TypeOK /\ PreviousKept

\* AtomicWrite is a write to an atomic register: the content appears in one step, at
\* most once, and before success is reported; backups never show in the file.
Register == INSTANCE AtomicRegister WITH
              Values <- Versions \cup {Absent}, NoCall <- None, value <- file,
              call <- IF pc = "idle" THEN None
                      ELSE [want |-> want,
                            published |-> pc \in {"cleanup", "migrate", "moving", "moved",
                                                  "prune"}]
AtomicSpec == Register!Spec
=============================================================================
