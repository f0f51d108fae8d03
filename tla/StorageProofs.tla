---------------------------- MODULE StorageProofs ----------------------------
(***************************************************************************)
(* What BootAgent keeps on disk.  First AtomicFile: of every number of     *)
(* versions, backups and retention setting, and of whatever earlier        *)
(* releases left, it keeps what a successful write replaced and the        *)
(* versions before it, and implements AtomicRegister.  Then SkillLibrary:  *)
(* of every number of Agents, variants and backups, registry, library and  *)
(* directories agree, and nothing the registry knows is lost.              *)
(***************************************************************************)
EXTENDS AtomicFile, SkillLibrary, FiniteSetTheorems, WellFoundedInduction, TLAPS

\* Copies are named by the clock, and no backup is younger than its name.
Dated == \A b \in group : b.time =< b.id /\ b.id < clock

\* The steps at which the copy of the old content is complete.
CopyDone == pc \in {"temporary", "ready", "cleanup", "migrate", "moving", "moved", "prune"}

\* b is that copy: the newest backup but for one that is being filled, and not among
\* those to be pruned.
IsCopy(b) == /\ b.whole /\ b.version = copied
             /\ b.id = b.time /\ b.time >= 0
             /\ pc = "moving" => b.id < clock - 1
             /\ \A c \in group : c # b => \/ c.time < b.time
                                          \/ pc = "moving" /\ c.id = clock - 1
             /\ pc = "prune" => b \notin plan

\* The copy under way, before and after it is complete.
Copying == pc = "copying" =>
             \E b \in group : /\ b.version = copied
                              /\ b.id = clock - 1 /\ b.time = clock - 1 /\ b.time >= 0
                              /\ \A c \in group : c # b => c.id < clock - 1
Saved   == copied # None /\ (CopyDone \/ result = "ok") => \E b \in group : IsCopy(b)

Inv == /\ TypeOK
       /\ want < fresh
       /\ pc # "idle" => result = "none"
       /\ pc \in {"inspect", "save"} => copied = None
       /\ Dated /\ Copying /\ Saved

-----------------------------------------------------------------------------
(* Types. *)

\* What copyFile creates is a backup.
LEMMA NewIsBackup ==
  ASSUME TypeOK, clock =< MaxClock, NEW v \in Versions
  PROVE  NewBackup(v) \in Backup
BY FileAssumption DEF TypeOK, NewBackup, Backup, Times, Versions

\* So is a copy that is complete, and one that has the time of its source.
LEMMA FilledIsBackup ==
  ASSUME TypeOK, NEW b \in group
  PROVE  /\ Filled(b) \in Backup
         /\ Filled(b).id = b.id /\ Filled(b).time = b.time
         /\ Filled(b).version = b.version /\ Filled(b).whole
         /\ moving # None => /\ [Filled(b) EXCEPT !.time = moving.time] \in Backup
                             /\ [Filled(b) EXCEPT !.time = moving.time].id = b.id
                             /\ [Filled(b) EXCEPT !.time = moving.time].time = moving.time
<1>1. b \in Backup
  BY FileAssumption DEF TypeOK
<1>2. ASSUME moving # None PROVE moving.time \in Times
  <2>1. moving \in OldBeside
    BY <1>2 DEF TypeOK
  <2>2. moving \in Backup
    BY <2>1, FileAssumption
  <2> QED
    BY ONLY <2>2 DEF Backup
<1> QED
  BY <1>1, <1>2 DEF Filled, Backup

\* The migration plan is a part of what lies beside the file.
LEMMA NewestInside == ASSUME NEW S PROVE Newest(S) \subseteq S /\ Excess(S) \subseteq S
BY DEF Newest, Excess

\* The setting is read as a number from 1 to 100.
LEMMA RetentionPositive == ASSUME TypeOK PROVE BackupRetention \in 1 .. 100
BY FileAssumption DEF TypeOK, BackupRetention

\* Who has nothing newer above it is not in excess.
LEMMA NewestStays ==
  ASSUME TypeOK, NEW S, NEW b \in S, Newer(b, S) = {}
  PROVE  b \notin Excess(S)
<1>1. Cardinality(Newer(b, S)) = 0
  BY FS_EmptySet
<1>2. QED
  BY <1>1, RetentionPositive DEF Excess, Newest

\* No step leaves the types.
LEMMA TypeKept == ASSUME TypeOK, Next PROVE TypeOK'
<1> USE DEF TypeOK, files, working, outside, Steps
<1>1. CASE Ask \/ Inspect \/ Prepare \/ Rename \/ Edit
  <2>1. CASE Ask
    BY <2>1, FileAssumption DEF Ask, Versions
  <2>2. CASE Inspect
    BY <2>2 DEF Inspect
  <2>3. CASE Prepare
    BY <2>3 DEF Prepare
  <2>4. CASE Rename
    BY <2>4 DEF Rename
  <2>5. CASE Edit
    BY <2>5, FileAssumption DEF Edit, Versions
  <2>6. QED
    BY <1>1, <2>1, <2>2, <2>3, <2>4, <2>5
<1>13. CASE SetRetention
  BY <1>13 DEF SetRetention
<1>12. CASE Return
  <2>1. replaced' \in Seq(Copies)
    <3>0. copied \in Copies
      BY DEF Copies
    <3>1. CASE copied = None
      BY <1>12, <3>1 DEF Return
    <3>2. CASE copied # None
      BY <1>12, <3>0, <3>2 DEF Return
    <3>3. QED
      BY <3>1, <3>2
  <2>2. QED
    BY <1>12, <2>1 DEF Return
<1>2. CASE MoveHashed
  BY <1>2, FileAssumption DEF MoveHashed
<1>3. CASE StartCopy
  <2>1. file \in Versions /\ NewBackup(file) \in Backup
    BY <1>3, NewIsBackup DEF StartCopy
  <2>2. QED
    BY <1>3, <2>1, FileAssumption DEF StartCopy
<1>4. CASE EndCopy
  BY <1>4, FilledIsBackup DEF EndCopy, Filling
<1>5. CASE Cleanup
  BY <1>5, NewestInside, FileAssumption DEF Cleanup
<1>6. CASE StartMove
  <2>1. PICK b \in plan : moving' = b /\ group' = group \cup {NewBackup(b.version)}
    BY <1>6 DEF StartMove
  <2>2. b \in OldBeside /\ b # None /\ b.version \in Versions
    BY <1>6, FileAssumption DEF StartMove, Backup
  <2>3. NewBackup(b.version) \in Backup
    BY <1>6, <2>2, NewIsBackup DEF StartMove
  <2>4. QED
    BY <1>6, <2>1, <2>2, <2>3, FileAssumption DEF StartMove
<1>7. CASE EndMove
  BY <1>7, FilledIsBackup DEF EndMove, Filling
<1>8. CASE RemoveSource \/ DropOld \/ Prune
  <2>1. group' \subseteq group /\ beside' \subseteq beside /\ plan' \subseteq plan
    BY <1>8 DEF RemoveSource, DropOld, Prune
  <2>2. QED
    BY <1>8, <2>1 DEF RemoveSource, DropOld, Prune
<1>9. CASE List
  BY <1>9, NewestInside DEF List
<1>10. CASE Fail \/ Crash
  <2>1. PICK how \in {"failed", "none"} : Stop(how)
    BY <1>10 DEF Fail, Crash
  <2>2. group' \subseteq Backup
    <3>1. \A b \in Filling : b \in group /\ Filled(b) \in Backup
      BY FilledIsBackup DEF Filling
    <3>2. \/ group' = group \/ group' = group \ Filling
          \/ group' = (group \ Filling) \cup {Filled(b) : b \in Filling}
      BY <2>1 DEF Stop
    <3>3. QED
      BY <3>1, <3>2
  <2>3. replaced' \in Seq(Copies)
    <3> DEFINE first == IF copied = None THEN << >> ELSE <<None>>
               second == IF moving = None THEN << >> ELSE <<None>>
    <3>1. None \in Copies
      BY DEF Copies
    <3>2. first \in Seq(Copies) /\ second \in Seq(Copies)
      BY <3>1
    <3>3. replaced' = (replaced \o first) \o second
      BY <2>1 DEF Stop
    <3> HIDE DEF first, second
    <3>4. QED
      BY <3>2, <3>3
  <2>4. QED
    BY <2>1, <2>2, <2>3 DEF Stop
<1>11. QED
  BY <1>1, <1>2, <1>3, <1>4, <1>5, <1>6, <1>7, <1>8, <1>9, <1>10, <1>12, <1>13 DEF Next

-----------------------------------------------------------------------------
(* The copy of the old content. *)

\* No backup gets a name that is still to come, or a time after its name.
LEMMA DatedKept == ASSUME Inv, Next PROVE Dated'
<1> USE DEF Inv, Dated, files, working, outside
<1>1. CASE \/ Ask \/ Inspect \/ Prepare \/ Rename \/ Return \/ SetRetention \/ Edit
           \/ Cleanup \/ RemoveSource \/ DropOld \/ List \/ Prune
  BY <1>1 DEF Ask, Inspect, Prepare, Rename, Return, SetRetention, Edit, Cleanup, RemoveSource,
              DropOld, List, Prune
<1>2. CASE MoveHashed
  <2>1. \A b \in hashed : b.time =< b.id /\ b.id < clock
    BY FileAssumption DEF TypeOK, Backup, Times
  <2>2. QED
    BY <1>2, <2>1 DEF MoveHashed
<1>3. CASE StartCopy \/ StartMove
  <2>1. \E v : group' = group \cup {NewBackup(v)}
    BY <1>3 DEF StartCopy, StartMove
  <2>2. clock' = clock + 1 /\ clock \in Int
    BY <1>3 DEF StartCopy, StartMove, TypeOK
  <2>3. \A b \in group : b.id \in Int
    BY DEF TypeOK, Backup, Times
  <2>4. QED
    BY <2>1, <2>2, <2>3 DEF NewBackup
<1>4. CASE EndCopy
  <2>1. \A b \in Filling : b \in group /\ Filled(b).id = b.id /\ Filled(b).time = b.time
    BY FilledIsBackup DEF Filling
  <2>2. clock' = clock /\ group' = (group \ Filling) \cup {Filled(b) : b \in Filling}
    BY <1>4 DEF EndCopy
  <2>3. QED
    BY <2>1, <2>2
<1>5. CASE EndMove
  <2>1. moving.time \in Int /\ moving.time < 0 /\ clock \in Nat /\ moving # None
    BY <1>5, FileAssumption DEF EndMove, TypeOK, Backup, Times
  <2>2. \A b \in Filling : /\ [Filled(b) EXCEPT !.time = moving.time].id = clock - 1
                           /\ [Filled(b) EXCEPT !.time = moving.time].time = moving.time
    BY <2>1, FilledIsBackup DEF Filling
  <2>3. \A c \in Filling : c \in group /\ c.id = clock - 1 /\ clock - 1 < clock
    BY <2>1 DEF Filling
  <2>4. moving.time =< clock - 1
    BY <2>1
  <2>5. /\ clock' = clock
        /\ group' = (group \ Filling) \cup
                      {[Filled(b) EXCEPT !.time = moving.time] : b \in Filling}
    BY <1>5 DEF EndMove
  <2>6. QED
    BY <2>2, <2>3, <2>4, <2>5
<1>6. CASE Fail \/ Crash
  <2>1. PICK how : Stop(how)
    BY <1>6 DEF Fail, Crash
  <2>2. \A b \in Filling : b \in group /\ Filled(b).id = b.id /\ Filled(b).time = b.time
    BY FilledIsBackup DEF Filling
  <2>3. /\ clock' = clock
        /\ \/ group' = group \/ group' = group \ Filling
           \/ group' = (group \ Filling) \cup {Filled(b) : b \in Filling}
    BY <2>1 DEF Stop
  <2>4. QED
    BY <2>2, <2>3
<1>7. QED
  BY <1>1, <1>2, <1>3, <1>4, <1>5, <1>6 DEF Next

\* A copy that begins has a name and a time of its own.
LEMMA CopyingKept == ASSUME Inv, Next PROVE Copying'
<1>1. CASE StartCopy
  <2>1. /\ NewBackup(file) \in group' /\ group' = group \cup {NewBackup(file)}
        /\ copied' = file /\ clock' = clock + 1 /\ clock \in Nat
    BY <1>1 DEF StartCopy, Inv, TypeOK
  <2>2. /\ NewBackup(file).version = file
        /\ NewBackup(file).id = clock /\ NewBackup(file).time = clock
    BY DEF NewBackup
  <2>3. \A c \in group : c.id < clock
    BY DEF Inv, Dated
  <2>4. QED
    BY <2>1, <2>2, <2>3 DEF Copying
<1>2. CASE Edit
  BY <1>2 DEF Edit, Inv, Copying, files, working
<1>3. CASE ~StartCopy /\ ~Edit
  BY <1>3 DEF Copying, Next, Ask, Inspect, MoveHashed, EndCopy, Prepare, Rename, Cleanup,
     StartMove, EndMove, RemoveSource, DropOld, List, Prune, Return, Fail, Crash, Stop,
     SetRetention
<1>4. QED
  BY <1>1, <1>2, <1>3

\* Once complete it stays the newest, and stays.
LEMMA SavedKept == ASSUME Inv, Next PROVE Saved'
<1> SUFFICES ASSUME copied' # None, CopyDone' \/ result' = "ok"
             PROVE  \E b \in group' : IsCopy(b)'
  BY DEF Saved
<1> USE DEF files, working, outside
<1>0. \A b \in group : b.id \in Int /\ b.time \in Int
  BY DEF Inv, TypeOK, Backup, Times
<1>1. CASE Ask \/ MoveHashed \/ StartCopy \/ Fail \/ Crash \/ SetRetention
  BY <1>1 DEF Ask, MoveHashed, StartCopy, Fail, Crash, Stop, SetRetention, CopyDone, Inv
<1>2. CASE Inspect
  BY <1>2 DEF Inspect, Inv, CopyDone
<1>3. CASE EndCopy
  <2>1. PICK b \in group : /\ b.version = copied
                           /\ b.id = clock - 1 /\ b.time = clock - 1 /\ b.time >= 0
                           /\ \A c \in group : c # b => c.id < clock - 1
    BY <1>3 DEF EndCopy, Inv, Copying
  <2>2. Filling = {b}
    BY <2>1, <1>0 DEF Filling
  <2>3. /\ Filled(b).id = b.id /\ Filled(b).time = b.time
        /\ Filled(b).version = b.version /\ Filled(b).whole
    BY FilledIsBackup DEF Inv
  <2>4. /\ group' = (group \ {b}) \cup {Filled(b)}
        /\ pc' = "temporary" /\ copied' = copied /\ clock' = clock
    BY <1>3, <2>2 DEF EndCopy
  <2>5. \A c \in group \ {b} : c.time < b.time
    BY <2>1, <1>0 DEF Inv, Dated, TypeOK
  <2>6. IsCopy(Filled(b))'
    BY <2>1, <2>3, <2>4, <2>5 DEF IsCopy
  <2>7. QED
    BY <2>4, <2>6
<1>4. CASE Prepare \/ Rename \/ Cleanup \/ RemoveSource \/ DropOld \/ Return \/ Edit
  <2>1. /\ group' = group /\ copied' = copied /\ clock' = clock
        /\ pc' = pc \/ (pc # "moving" /\ pc' \notin {"moving", "prune"})
        /\ plan' = plan \/ pc' # "prune"
    BY <1>4 DEF Prepare, Rename, Cleanup, RemoveSource, DropOld, Return, Edit
  <2>2. CopyDone \/ result = "ok"
    BY <1>4 DEF Prepare, Rename, Cleanup, RemoveSource, DropOld, Return, Edit, CopyDone
  <2>3. PICK b \in group : IsCopy(b)
    BY <2>1, <2>2 DEF Inv, Saved
  <2>4. IsCopy(b)'
    BY <2>1, <2>3 DEF IsCopy
  <2>5. QED
    BY <2>1, <2>4
<1>5. CASE StartMove
  <2>1. PICK b \in group : IsCopy(b)
    BY <1>5 DEF StartMove, Inv, Saved, CopyDone
  <2>2. PICK v : group' = group \cup {NewBackup(v)}
    BY <1>5 DEF StartMove
  <2>3. /\ pc = "migrate" /\ pc' = "moving" /\ copied' = copied /\ clock' = clock + 1
        /\ clock \in Nat
    BY <1>5 DEF StartMove, Inv, TypeOK
  <2>4. NewBackup(v).id = clock' - 1 /\ b.id < clock' - 1
    BY <2>3, <1>0 DEF NewBackup, Inv, Dated
  <2>5. IsCopy(b)'
    BY <2>1, <2>2, <2>3, <2>4 DEF IsCopy
  <2>6. QED
    BY <2>2, <2>5
<1>6. CASE EndMove
  <2>1. PICK b \in group : IsCopy(b)
    BY <1>6 DEF EndMove, Inv, Saved, CopyDone
  <2>2. /\ pc = "moving" /\ pc' = "moved" /\ copied' = copied /\ clock' = clock
        /\ group' = (group \ Filling) \cup
                      {[Filled(c) EXCEPT !.time = moving.time] : c \in Filling}
        /\ moving # None /\ moving.time < 0 /\ moving.time \in Int /\ clock \in Nat
    BY <1>6, FileAssumption DEF EndMove, Inv, TypeOK, Backup, Times
  <2>3. b \notin Filling
    BY <2>1, <2>2, <1>0 DEF IsCopy, Filling
  <2>4. \A c \in Filling : [Filled(c) EXCEPT !.time = moving.time].time < b.time
    BY <2>1, <2>2, <1>0, FilledIsBackup DEF IsCopy, Filling, Inv
  <2>5. \A c \in group \ Filling : c # b => c.time < b.time
    BY <2>1 DEF IsCopy, Filling
  <2>6. IsCopy(b)'
    BY <2>1, <2>2, <2>4, <2>5 DEF IsCopy
  <2>7. QED
    BY <2>2, <2>3, <2>6
<1>7. CASE List
  <2>1. PICK b \in group : IsCopy(b)
    BY <1>7 DEF List, Inv, Saved, CopyDone
  <2>2. pc = "migrate" /\ pc' = "prune" /\ group' = group /\ copied' = copied
        /\ clock' = clock /\ plan' = Excess(group)
    BY <1>7 DEF List
  <2>3. Newer(b, group) = {}
    BY <2>1, <2>2, <1>0 DEF IsCopy, Newer
  <2>4. b \notin plan'
    BY <2>2, <2>3, NewestStays DEF Inv
  <2>5. IsCopy(b)'
    BY <2>1, <2>2, <2>4 DEF IsCopy
  <2>6. QED
    BY <2>2, <2>5
<1>8. CASE Prune
  <2>1. PICK b \in group : IsCopy(b)
    BY <1>8 DEF Prune, Inv, Saved, CopyDone
  <2>2. PICK d \in plan : plan' = plan \ {d} /\ group' = group \ {d}
    BY <1>8 DEF Prune
  <2>3. pc = "prune" /\ pc' = "prune" /\ copied' = copied /\ clock' = clock
    BY <1>8 DEF Prune
  <2>4. b # d
    BY <2>1, <2>3 DEF IsCopy
  <2>5. IsCopy(b)'
    BY <2>1, <2>2, <2>3 DEF IsCopy
  <2>6. QED
    BY <2>2, <2>4, <2>5
<1>9. QED
  BY <1>1, <1>2, <1>3, <1>4, <1>5, <1>6, <1>7, <1>8 DEF Next

-----------------------------------------------------------------------------

\* The facts about a write under way hold at the start and are kept by every step.
THEOREM Invariance == Spec => []Inv
<1>1. Init => Inv
  <2>1. << >> \in Seq(Copies)
    OBVIOUS
  <2>2. QED
    BY <2>1, FileAssumption DEF Init, Inv, TypeOK, Versions, Steps, Dated, Copying, Saved, CopyDone
<1>2. ASSUME Inv, Next PROVE Inv'
  <2> USE DEF Next, Ask, Inspect, MoveHashed, StartCopy, EndCopy, Prepare, Rename, Cleanup,
     StartMove, EndMove, RemoveSource, DropOld, List, Prune, Return, Fail, Crash, Stop, Edit,
     SetRetention, files, working, outside
  <2>1. (want < fresh)'
    <3>1. want \in Int /\ fresh \in Int /\ want < fresh
      BY <1>2, FileAssumption DEF Inv, TypeOK, Versions
    <3>2. \/ want' = want /\ fresh' = fresh
          \/ want' = want /\ fresh' = fresh + 1
          \/ want' = fresh /\ fresh' = fresh + 1
      BY <1>2
    <3>3. QED
      BY <3>1, <3>2
  <2>2. (pc # "idle" => result = "none")'
    BY <1>2 DEF Inv
  <2>3. (pc \in {"inspect", "save"} => copied = None)'
    BY <1>2 DEF Inv
  <2> HIDE DEF Next
  <2>4. TypeOK'
    BY <1>2, TypeKept DEF Inv
  <2>5. QED
    BY <1>2, <2>1, <2>2, <2>3, <2>4, DatedKept, CopyingKept, SavedKept DEF Inv
<1>3. ASSUME Inv, UNCHANGED vars PROVE Inv'
  BY <1>3 DEF Inv, vars, TypeOK, Dated, Copying, Filling, Saved, CopyDone, IsCopy
<1>4. QED
  BY <1>1, <1>2, <1>3, PTL DEF Spec

\* The state of a write has its types.
THEOREM TypeCorrect == Spec => []TypeOK
<1>1. Inv => TypeOK
  BY DEF Inv
<1>2. QED
  BY <1>1, Invariance, PTL

\* What a successful write replaced is the newest backup, complete.
THEOREM PreviousVersionKept == Spec => []PreviousKept
<1>1. ASSUME Inv PROVE PreviousKept
  <2>1. SUFFICES ASSUME result = "ok", copied # None
                 PROVE  \E b \in group : /\ b.whole /\ b.version = copied
                                         /\ Newer(b, group) = {}
    BY DEF PreviousKept
  <2>2. PICK b \in group : IsCopy(b)
    BY <1>1, <2>1 DEF Inv, Saved
  <2>3. \A c \in group : c.id \in Int /\ c.time \in Int
    BY <1>1 DEF Inv, TypeOK, Backup, Times
  <2>4. Newer(b, group) = {}
    BY <1>1, <2>1, <2>2, <2>3 DEF Inv, IsCopy, Newer
  <2>5. QED
    BY <2>2, <2>4 DEF IsCopy
<1>2. QED
  BY <1>1, Invariance, PTL

\* Types, and the backup of what was replaced last, together.
THEOREM HistoryStaysSafe == Spec => []HistorySafe
BY TypeCorrect, PreviousVersionKept, PTL DEF HistorySafe

\* AtomicWrite implements a write to an atomic register, failures and crashes included.
THEOREM WritesAreAtomic == Spec => AtomicSpec
<1>1. Init => Register!Init
  BY FileAssumption DEF Init, Register!Init, Versions
<1>2. ASSUME Inv, Next PROVE [Register!Next]_Register!vars
  <2> USE DEF Register!Next, Register!vars, files, working, outside
  <2>0. \A b \in BOOLEAN : [want |-> want, published |-> b] # None
    BY <1>2, FileAssumption DEF Inv, TypeOK
  <2> DEFINE published == pc \in {"cleanup", "migrate", "moving", "moved", "prune"}
             asked == IF pc = "idle" THEN None ELSE [want |-> want, published |-> published]
  <2>1. CASE Ask
    <3>1. /\ pc = "idle" /\ pc' = "inspect" /\ want' = fresh /\ result' = "none"
          /\ file' = file /\ fresh \in Versions
      BY <1>2, <2>1 DEF Ask, Inv, TypeOK, Versions
    <3>2. published' = FALSE
      BY <3>1
    <3>3. asked = None /\ asked' = [want |-> fresh, published |-> FALSE]
      BY <3>1, <3>2
    <3>4. Register!Ask
      BY <3>1, <3>3 DEF Register!Ask
    <3>5. QED
      BY <3>4
  <2>2. CASE Inspect \/ MoveHashed \/ StartCopy \/ EndCopy \/ Prepare
    BY <2>2 DEF Inspect, MoveHashed, StartCopy, EndCopy, Prepare
  <2>3. CASE Rename
    <3>1. pc = "ready" /\ pc' = "cleanup" /\ want' = want /\ result' = result /\ file' = want
      BY <2>3 DEF Rename
    <3>2. published = FALSE /\ published' = TRUE
      BY <3>1
    <3>3. asked = [want |-> want, published |-> FALSE]
      BY <3>1, <3>2
    <3>4. asked' = [want |-> want, published |-> TRUE]
      BY <3>1, <3>2
    <3>5. asked # None /\ asked.want = want /\ asked.published = FALSE
      BY <2>0, <3>3
    <3>6. Register!Publish
      BY <3>1, <3>4, <3>5 DEF Register!Publish
    <3>7. QED
      BY <3>6
  <2>4. CASE Cleanup \/ StartMove \/ EndMove \/ RemoveSource \/ DropOld \/ List \/ Prune
    BY <2>4 DEF Cleanup, StartMove, EndMove, RemoveSource, DropOld, List, Prune
  <2>5. CASE Return \/ Fail \/ Crash
    <3>1. /\ pc # "idle" /\ pc' = "idle" /\ file' = file
          /\ (pc = "prune" /\ result' = "ok") \/ result' \in {"failed", "none"}
      BY <2>5 DEF Return, Fail, Crash, Stop
    <3>2. published \in BOOLEAN /\ (pc = "prune" => published)
      OBVIOUS
    <3>3. asked # None /\ asked.published = published /\ asked' = None
      BY <2>0, <3>1, <3>2
    <3>4. Register!Return
      BY <3>1, <3>2, <3>3 DEF Register!Return
    <3>5. QED
      BY <3>4
  <2>6. CASE Edit
    <3>1. /\ file' \in {fresh, Absent} \cap (Versions \cup {Absent})
          /\ pc' = pc /\ want' = want /\ result' = result
      BY <1>2, <2>6 DEF Edit, Inv, TypeOK, Versions
    <3>2. file' # want
      BY <1>2, <3>1, FileAssumption DEF Inv, TypeOK, Versions
    <3>3. asked' = asked /\ (asked # None => asked.want = want)
      BY <3>1
    <3>4. Register!Edit
      BY <3>1, <3>2, <3>3 DEF Register!Edit
    <3>5. QED
      BY <3>4
  <2>7. CASE SetRetention
    BY <2>7 DEF SetRetention, Register!Forget
  <2>8. QED
    BY <1>2, <2>0, <2>1, <2>2, <2>3, <2>4, <2>5, <2>6, <2>7 DEF Next
<1>3. ASSUME UNCHANGED vars PROVE UNCHANGED Register!vars
  BY <1>3 DEF vars, Register!vars
<1>4. QED
  BY <1>1, <1>2, <1>3, Invariance, PTL DEF Spec, AtomicSpec, Register!Spec

-----------------------------------------------------------------------------
(* The versions that were replaced before. *)

\* Backups have names of their own, and only those of earlier releases have old ones.
Numbered == /\ IsFiniteSet(group)
            /\ \A b, c \in group : b.id = c.id => b = c
            /\ \A b \in group : b.id < 0 => b \in OldHashed
            /\ moving # None => pc \in {"moving", "moved"}
            /\ Unsettled => clock > 0

\* What is pruned leaves as many as the setting says, and nothing beside the file.
Pruning == /\ pc = "prune" => /\ beside = {} /\ plan \subseteq group
                              /\ Cardinality(group \ plan) =< BackupRetention
           /\ result = "ok" => beside = {} /\ Cardinality(group) =< BackupRetention

\* The backups, but for one of a migration that does not have its old time yet.
Placed  == IF pc = "moving" THEN group \ Filling ELSE group

\* The backup of the write under way, which replaced will tell when the write ends.
Pending == IF pc # "idle" /\ copied # None THEN 1 ELSE 0

\* b is the version that the i-th write replaced, and no more backups are newer than
\* writes ended since; an interruption does not take it for its own copy.
Keeps(i, b) == /\ b.whole /\ b.version = replaced[i] /\ b.time >= 0
               /\ Pending = 1 \/ moving # None => b.id < clock - 1
               /\ Cardinality(Newer(b, Placed)) =< Len(replaced) - i + Pending
               /\ pc = "prune" => b \notin plan

Kept == \A i \in DOMAIN replaced :
          replaced[i] # None /\ Len(replaced) - i + Pending < BackupRetention => \E b \in group : Keeps(i, b)

HistoryInv == Inv /\ Numbered /\ Pruning /\ Kept

-----------------------------------------------------------------------------
(* Counting what is newer. *)

LEMMA NewerFinite ==
  ASSUME NEW b, NEW S, IsFiniteSet(S)
  PROVE  Newer(b, S) \subseteq S /\ IsFiniteSet(Newer(b, S)) /\ Cardinality(Newer(b, S)) \in Nat
<1>1. Newer(b, S) \subseteq S
  BY DEF Newer
<1> QED
  BY <1>1, FS_Subset, FS_CardinalityType

\* A part of S has no more.
LEMMA NewerFewer ==
  ASSUME NEW b, NEW S, IsFiniteSet(S), NEW T, T \subseteq S
  PROVE  Cardinality(Newer(b, T)) =< Cardinality(Newer(b, S))
<1>1. Newer(b, T) \subseteq Newer(b, S)
  BY DEF Newer
<1> QED
  BY <1>1, NewerFinite, FS_Subset

\* One more is at most one more.
LEMMA OneMore ==
  ASSUME NEW S, IsFiniteSet(S), NEW e
  PROVE  /\ IsFiniteSet(S \cup {e}) /\ Cardinality(S \cup {e}) \in Nat
         /\ Cardinality(S \cup {e}) =< Cardinality(S) + 1
<1>1. Cardinality(S) \in Nat
  BY FS_CardinalityType
<1>2. /\ IsFiniteSet(S \cup {e})
      /\ Cardinality(S \cup {e}) = Cardinality(S) \/ Cardinality(S \cup {e}) = Cardinality(S) + 1
  BY FS_AddElement
<1> QED
  BY <1>1, <1>2

\* One more element counts once, if it is newer.
LEMMA NewerAdded ==
  ASSUME NEW b, NEW S, IsFiniteSet(S), NEW e, NEW T, T \subseteq S \cup {e}
  PROVE  /\ Cardinality(Newer(b, T)) =< Cardinality(Newer(b, S)) + 1
         /\ e.time < b.time /\ e.time \in Int /\ b.time \in Int =>
              Cardinality(Newer(b, T)) =< Cardinality(Newer(b, S))
<1> DEFINE N == Newer(b, S)
           M == Newer(b, T)
<1>1. IsFiniteSet(N) /\ Cardinality(N) \in Nat
  BY NewerFinite
<1>2. M \subseteq N \cup {e}
  BY DEF Newer
<1>3. e.time < b.time /\ e.time \in Int /\ b.time \in Int => M \subseteq N
  BY DEF Newer
<1> HIDE DEF N, M
<1>4. IsFiniteSet(N \cup {e}) /\ Cardinality(N \cup {e}) \in Nat /\ Cardinality(N \cup {e}) =< Cardinality(N) + 1
  BY <1>1, OneMore
<1>5. Cardinality(M) \in Nat /\ Cardinality(M) =< Cardinality(N \cup {e})
  BY <1>2, <1>4, FS_Subset, FS_CardinalityType
<1>6. M \subseteq N => Cardinality(M) =< Cardinality(N)
  BY <1>1, FS_Subset
<1> QED
  BY <1>1, <1>3, <1>4, <1>5, <1>6 DEF N, M

\* An element that takes the place of another, name and time, counts as that did.
LEMMA NewerSwapped ==
  ASSUME NEW b, NEW S, IsFiniteSet(S), NEW f \in S, NEW e, e.time = f.time, e.id = f.id
  PROVE  Cardinality(Newer(b, (S \ {f}) \cup {e})) =< Cardinality(Newer(b, S))
<1> DEFINE N == Newer(b, S)
           M == Newer(b, (S \ {f}) \cup {e})
<1>1. IsFiniteSet(N) /\ Cardinality(N) \in Nat
  BY NewerFinite
<1>2. CASE f \in N
  <2>1. M \subseteq (N \ {f}) \cup {e}
    BY DEF Newer
  <2> HIDE DEF N, M
  <2>2. IsFiniteSet(N \ {f}) /\ Cardinality(N \ {f}) = Cardinality(N) - 1
    BY <1>1, <1>2, FS_RemoveElement
  <2> DEFINE rest == N \ {f}
  <2> HIDE DEF rest
  <2>3. /\ IsFiniteSet(rest \cup {e}) /\ Cardinality(rest \cup {e}) \in Nat
        /\ Cardinality(rest \cup {e}) =< Cardinality(rest) + 1
    BY <2>2, OneMore DEF rest
  <2>4. M \subseteq rest \cup {e} /\ Cardinality(rest) = Cardinality(N) - 1
    BY <2>1, <2>2 DEF rest
  <2>5. Cardinality(M) =< Cardinality(rest \cup {e}) /\ Cardinality(M) \in Nat
    BY <2>3, <2>4, FS_Subset, FS_CardinalityType
  <2> QED
    BY <1>1, <2>3, <2>4, <2>5 DEF N, M
<1>3. CASE f \notin N
  <2>1. M \subseteq N
    BY <1>3 DEF Newer
  <2> HIDE DEF N, M
  <2> QED
    BY <1>1, <2>1, FS_Subset DEF N, M
<1> QED
  BY <1>2, <1>3

\* A set of integers that is bounded below has a least one.
LEMMA LeastOf ==
  ASSUME NEW S, S # {}, NEW d \in Int, \A s \in S : s \in Int /\ s >= d
  PROVE  \E m \in S : \A s \in S : m =< s
<1> DEFINE N == {s - d : s \in S}
<1>1. N \subseteq Nat /\ N # {}
  OBVIOUS
<1> HIDE DEF N
<1>2. PICK n \in N : \A k \in N : ~(<<k, n>> \in OpToRel(<, Nat))
  BY <1>1, WFMin, NatLessThanWellFounded
<1>3. ASSUME NEW k \in N
      PROVE  n =< k
  <2>1. <<k, n>> \in Nat \X Nat /\ <<k, n>>[1] = k /\ <<k, n>>[2] = n
    BY <1>1
  <2>2. OpToRel(<, Nat) = {p \in Nat \X Nat : p[1] < p[2]}
    BY DEF OpToRel
  <2>3. ~(k < n)
    BY <1>2, <2>1, <2>2
  <2> QED
    BY <1>1, <2>3
<1>4. PICK m \in S : n = m - d
  BY DEF N
<1>5. ASSUME NEW s \in S
      PROVE  m =< s
  <2>1. s - d \in N
    BY DEF N
  <2> QED
    BY <1>3, <1>4, <2>1
<1> QED
  BY <1>5

\* Of backups with names of their own, one is older than all others.
LEMMA OldestOf ==
  ASSUME NEW T, T # {}, T \subseteq Backup, \A b, c \in T : b.id = c.id => b = c
  PROVE  \E m \in T : T \ {m} \subseteq Newer(m, T)
<1>1. MaxClock \in Nat /\ \A b \in T : b.id \in Int /\ b.time \in Int /\ b.id >= -MaxClock /\ b.time >= -MaxClock
  BY FileAssumption DEF Backup, Times
<1> DEFINE dates == {b.time : b \in T}
<1>2. dates # {} /\ -MaxClock \in Int /\ \A s \in dates : s \in Int /\ s >= -MaxClock
  BY <1>1
<1> HIDE DEF dates
<1>3. PICK t \in dates : \A s \in dates : t =< s
  BY <1>2, LeastOf
<1> DEFINE ids == {b.id : b \in {c \in T : c.time = t}}
<1>4. ids # {} /\ -MaxClock \in Int /\ \A s \in ids : s \in Int /\ s >= -MaxClock
  BY <1>1 DEF dates
<1> HIDE DEF ids
<1>5. PICK least \in ids : \A s \in ids : least =< s
  BY <1>4, LeastOf
<1>6. PICK m \in T : m.time = t /\ m.id = least
  BY DEF ids
<1>7. ASSUME NEW c \in T, c # m
      PROVE  c.time > m.time \/ (c.time = m.time /\ c.id > m.id)
  <2>1. c.time >= m.time
    BY <1>1, <1>3, <1>6 DEF dates
  <2>2. c.time = m.time => c.id >= m.id
    BY <1>1, <1>5, <1>6 DEF ids
  <2>3. c.id # m.id
    BY <1>7
  <2> QED
    BY <1>1, <2>1, <2>2, <2>3
<1> QED
  BY <1>7 DEF Newer

\* The newest are not more than the setting says.
LEMMA NewestFew ==
  ASSUME TypeOK, NEW S, IsFiniteSet(S), S \subseteq Backup, \A b, c \in S : b.id = c.id => b = c
  PROVE  Cardinality(Newest(S)) =< BackupRetention
<1> DEFINE T == Newest(S)
<1>1. T \subseteq S /\ IsFiniteSet(T) /\ Cardinality(T) \in Nat /\ BackupRetention \in 1 .. 100
  BY NewestInside, FS_Subset, FS_CardinalityType, RetentionPositive
<1>2. ASSUME Cardinality(T) > BackupRetention
      PROVE  FALSE
  <2>1. T # {}
    BY <1>1, <1>2, FS_EmptySet
  <2>2. \A b, c \in T : b.id = c.id => b = c
    BY <1>1
  <2> HIDE DEF T
  <2>3. PICK m \in T : T \ {m} \subseteq Newer(m, T)
    BY <1>1, <2>1, <2>2, OldestOf
  <2>4. Cardinality(Newer(m, S)) < BackupRetention
    BY DEF T, Newest
  <2>5. T \ {m} \subseteq Newer(m, S)
    BY <1>1, <2>3 DEF Newer
  <2>6. Cardinality(T \ {m}) = Cardinality(T) - 1
    BY <1>1, FS_RemoveElement
  <2>7. Cardinality(T \ {m}) =< Cardinality(Newer(m, S)) /\ Cardinality(Newer(m, S)) \in Nat
    BY <2>5, NewerFinite, FS_Subset
  <2> QED
    BY <1>1, <1>2, <2>4, <2>6, <2>7
<1> QED
  BY <1>1, <1>2

-----------------------------------------------------------------------------
(* Steps. *)

\* At most one backup is being filled; what happens to it changes no name.
LEMMA FillingOne ==
  ASSUME Numbered
  PROVE  /\ \/ Filling = {}
            \/ \E f \in group : f.id = clock - 1 /\ Filling = {f}
         /\ \A b \in group : b.id < clock - 1 /\ clock \in Int => b \notin Filling
BY DEF Filling, Numbered

LEMMA NamesKept ==
  ASSUME Inv, Numbered, Next
  PROVE  /\ IsFiniteSet(group')
         /\ \A b, c \in group' : b.id = c.id => b = c
         /\ \A b \in group' : b.id < 0 => b \in OldHashed
<1> USE DEF files, working, outside
<1>0. /\ IsFiniteSet(group) /\ group \subseteq Backup /\ clock \in Nat
      /\ \A b, c \in group : b.id = c.id => b = c
      /\ \A b \in group : b.id \in Int /\ b.id < clock /\ (b.id < 0 => b \in OldHashed)
  BY DEF Inv, TypeOK, Dated, Numbered, Backup, Times
<1>1. ASSUME group' \subseteq group
      PROVE  /\ IsFiniteSet(group')
             /\ \A b, c \in group' : b.id = c.id => b = c
             /\ \A b \in group' : b.id < 0 => b \in OldHashed
  BY <1>0, <1>1, FS_Subset
\* A new element whose name is new, or that of an element that goes.
<1>2. ASSUME NEW e, NEW S, S \subseteq group, group' = S \cup {e}, \A b \in S : b.id # e.id \/ b = e,
             e.id \in Int, e.id < 0 => e \in OldHashed
      PROVE  /\ IsFiniteSet(group')
             /\ \A b, c \in group' : b.id = c.id => b = c
             /\ \A b \in group' : b.id < 0 => b \in OldHashed
  <2>1. IsFiniteSet(group')
    BY <1>0, <1>2, FS_Subset, FS_AddElement
  <2> QED
    BY <1>0, <1>2, <2>1
<1>3. ASSUME NEW f \in group, Filling = {f}, f.id = clock - 1, clock > 0, NEW e, e.id = f.id,
             group' = (group \ Filling) \cup {e}
      PROVE  /\ IsFiniteSet(group')
             /\ \A b, c \in group' : b.id = c.id => b = c
             /\ \A b \in group' : b.id < 0 => b \in OldHashed
  <2> DEFINE S == group \ {f}
  <2>1. S \subseteq group /\ group' = S \cup {e} /\ \A b \in S : b.id # e.id
    BY <1>0, <1>3
  <2>2. e.id \in Int /\ ~(e.id < 0)
    BY <1>0, <1>3
  <2> HIDE DEF S
  <2> QED
    BY <1>2, <2>1, <2>2
<1>4. CASE \/ Ask \/ Inspect \/ Prepare \/ Rename \/ Return \/ SetRetention \/ Edit
           \/ Cleanup \/ RemoveSource \/ DropOld \/ List \/ Prune
  BY <1>1, <1>4 DEF Ask, Inspect, Prepare, Rename, Return, SetRetention, Edit, Cleanup, RemoveSource,
                    DropOld, List, Prune
<1>5. CASE MoveHashed
  <2>1. PICK e \in hashed : group' = group \cup {e}
    BY <1>5 DEF MoveHashed
  <2>2. e \in OldHashed /\ e.id \in Int /\ e.id < 0 /\ \A b \in OldHashed : b.id = e.id => b = e
    BY FileAssumption DEF Inv, TypeOK, Backup, Times
  <2> QED
    BY <1>0, <1>2, <2>1, <2>2
<1>6. CASE StartCopy \/ StartMove
  <2>1. PICK v : group' = group \cup {NewBackup(v)}
    BY <1>6 DEF StartCopy, StartMove
  <2> DEFINE e == NewBackup(v)
  <2>2. e.id = clock
    BY DEF NewBackup
  <2> HIDE DEF e
  <2>3. group' = group \cup {e} /\ \A b \in group : b.id # e.id
    BY <1>0, <2>1, <2>2 DEF e
  <2>4. e.id \in Int /\ ~(e.id < 0) /\ group \subseteq group
    BY <1>0, <2>2
  <2> QED
    BY <1>2, <2>3, <2>4
<1>7. CASE EndCopy \/ EndMove \/ Fail \/ Crash
  <2>1. \/ group' \subseteq group
        \/ Unsettled /\ group' = (group \ Filling) \cup {Filled(b) : b \in Filling}
        \/ /\ Unsettled /\ moving # None
           /\ group' = (group \ Filling) \cup {[Filled(b) EXCEPT !.time = moving.time] : b \in Filling}
    BY <1>7 DEF EndCopy, EndMove, Fail, Crash, Stop, Unsettled, Inv, TypeOK
  <2>2. CASE group' \subseteq group
    BY <1>1, <2>2
  <2>3. CASE Filling = {}
    BY <1>1, <2>1, <2>3
  <2>4. CASE Filling # {} /\ ~(group' \subseteq group)
    <3>1. PICK f \in group : f.id = clock - 1 /\ Filling = {f}
      BY <2>4, FillingOne
    <3>2. /\ Filled(f).id = f.id
          /\ moving # None => [Filled(f) EXCEPT !.time = moving.time].id = f.id
      BY FilledIsBackup DEF Inv
    <3>3. clock > 0
      BY <2>1, <2>4 DEF Numbered
    <3>4. CASE group' = (group \ Filling) \cup {Filled(f)}
      BY <1>3, <3>1, <3>2, <3>3, <3>4
    <3>5. CASE moving # None /\ group' = (group \ Filling) \cup {[Filled(f) EXCEPT !.time = moving.time]}
      <4> DEFINE e == [Filled(f) EXCEPT !.time = moving.time]
      <4>1. e.id = f.id /\ group' = (group \ Filling) \cup {e}
        BY <3>2, <3>5
      <4> HIDE DEF e
      <4> QED
        BY <1>3, <3>1, <3>3, <4>1
    <3> QED
      BY <2>1, <2>4, <3>1, <3>4, <3>5
  <2> QED
    BY <2>2, <2>3, <2>4
<1> QED
  BY <1>4, <1>5, <1>6, <1>7 DEF Next

LEMMA NumberedKept == ASSUME Inv, Numbered, Next PROVE Numbered'
<1> USE DEF files, working, outside
<1>1. (moving # None => pc \in {"moving", "moved"})'
  BY DEF Numbered, Next, Ask, Inspect, MoveHashed, StartCopy, EndCopy, Prepare, Rename, Cleanup,
     StartMove, EndMove, RemoveSource, DropOld, List, Prune, Return, Fail, Crash, Stop, Edit, SetRetention
<1>2. clock \in Nat /\ (pc = "copying" => clock > 0)
  BY DEF Inv, TypeOK, Numbered, Unsettled
<1>3. (Unsettled => clock > 0)'
  <2>1. CASE StartCopy \/ StartMove
    BY <1>2, <2>1 DEF StartCopy, StartMove
  <2>2. CASE ~StartCopy /\ ~StartMove
    <3>1. clock' = clock
      BY <2>2 DEF Next, Ask, Inspect, MoveHashed, EndCopy, Prepare, Rename, Cleanup, EndMove, RemoveSource, DropOld,
         List, Prune, Return, Fail, Crash, Stop, Edit, SetRetention
    <3>2. Unsettled' => Unsettled
      BY <2>2 DEF Unsettled, Inv, Next, Ask, Inspect, MoveHashed, EndCopy, Prepare, Rename, Cleanup, EndMove,
         RemoveSource, DropOld, List, Prune, Return, Fail, Crash, Stop, Edit, SetRetention
    <3> QED
      BY <3>1, <3>2 DEF Numbered
  <2> QED
    BY <2>1, <2>2
<1> QED
  BY <1>1, <1>3, NamesKept DEF Numbered

LEMMA PruningKept == ASSUME Inv, Numbered, Pruning, Next PROVE Pruning'
<1> USE DEF files, working, outside, Pruning
<1>1. CASE List
  <2>1. /\ beside' = {} /\ plan' = Excess(group) /\ group' = group /\ setting' = setting /\ result' # "ok"
    BY <1>1 DEF List, Inv
  <2>2. plan' \subseteq group' /\ group' \ plan' = Newest(group)
    BY <2>1, NewestInside DEF Excess
  <2>3. Cardinality(Newest(group)) =< BackupRetention
    BY NewestFew DEF Inv, TypeOK, Numbered
  <2> QED
    BY <2>1, <2>2, <2>3 DEF BackupRetention
<1>2. CASE Prune
  <2>1. PICK d \in plan : plan' = plan \ {d} /\ group' = group \ {d}
    BY <1>2 DEF Prune
  <2>2. /\ pc = "prune" /\ beside' = beside /\ setting' = setting /\ result' # "ok"
    BY <1>2 DEF Prune, Inv
  <2>3. group' \ plan' = group \ plan /\ plan' \subseteq group'
    BY <2>1, <2>2
  <2> QED
    BY <2>2, <2>3 DEF BackupRetention
<1>3. CASE Return
  <2>1. /\ pc = "prune" /\ plan = {} /\ pc' = "idle" /\ UNCHANGED <<beside, group, setting>>
    BY <1>3 DEF Return
  <2>2. group \ plan = group
    BY <2>1
  <2> QED
    BY <2>1, <2>2 DEF BackupRetention
<1>4. CASE Edit
  BY <1>4 DEF Edit, BackupRetention
<1>5. CASE SetRetention \/ Ask
  BY <1>5 DEF SetRetention, Ask
<1>6. CASE \/ Inspect \/ MoveHashed \/ StartCopy \/ EndCopy \/ Prepare \/ Rename \/ Cleanup
           \/ StartMove \/ EndMove \/ RemoveSource \/ DropOld \/ Fail \/ Crash
  BY <1>6 DEF Inv, Inspect, MoveHashed, StartCopy, EndCopy, Prepare, Rename, Cleanup, StartMove, EndMove,
              RemoveSource, DropOld, Fail, Crash, Stop
<1> QED
  BY <1>1, <1>2, <1>3, <1>4, <1>5, <1>6 DEF Next

\* Two sequences, one after the other.
LEMMA ConcatFacts ==
  ASSUME NEW S, NEW s \in Seq(S), NEW t \in Seq(S)
  PROVE  /\ s \o t \in Seq(S) /\ Len(s \o t) = Len(s) + Len(t)
         /\ Len(s) \in Nat /\ Len(t) \in Nat
         /\ \A i \in 1 .. Len(s) : (s \o t)[i] = s[i]
         /\ \A i \in 1 .. Len(s) + Len(t) : i \notin 1 .. Len(s) =>
              i - Len(s) \in 1 .. Len(t) /\ (s \o t)[i] = t[i - Len(s)]
<1>1. /\ s \o t \in Seq(S) /\ Len(s \o t) = Len(s) + Len(t)
      /\ Len(s) \in Nat /\ Len(t) \in Nat
  OBVIOUS
<1>2. \A i \in 1 .. Len(s) : (s \o t)[i] = s[i]
  OBVIOUS
<1>3. ASSUME NEW i \in 1 .. Len(s) + Len(t), i \notin 1 .. Len(s)
      PROVE  i - Len(s) \in 1 .. Len(t) /\ (s \o t)[i] = t[i - Len(s)]
  <2>1. i - Len(s) \in 1 .. Len(t)
    BY <1>1, <1>3
  <2> QED
    BY <1>1, <1>3, <2>1
<1> QED
  BY <1>1, <1>2, <1>3

\* A finite set stays finite when an element takes the place of others.
LEMMA FiniteSwapped ==
  ASSUME NEW S, IsFiniteSet(S), NEW R, NEW e
  PROVE  IsFiniteSet((S \ R) \cup {e})
<1>1. IsFiniteSet(S \ R)
  BY FS_Subset
<1> DEFINE rest == S \ R
<1> HIDE DEF rest
<1>2. IsFiniteSet(rest \cup {e})
  BY <1>1, FS_AddElement DEF rest
<1> QED
  BY <1>2 DEF rest

\* A write or a migration that ends early is counted, once each.
LEMMA StopCounts ==
  ASSUME Inv, NEW how, Stop(how)
  PROVE  /\ Len(replaced') = Len(replaced) + Pending + (IF moving # None THEN 1 ELSE 0)
         /\ \A i \in DOMAIN replaced' : /\ i \in DOMAIN replaced => replaced'[i] = replaced[i]
                                        /\ i \notin DOMAIN replaced => replaced'[i] = None
         /\ replaced' \in Seq(Copies)
<1> DEFINE first == IF copied = None THEN << >> ELSE <<None>>
           second == IF moving = None THEN << >> ELSE <<None>>
<1>1. replaced' = (replaced \o first) \o second /\ pc # "idle"
  BY DEF Stop
<1>2. replaced \in Seq(Copies) /\ None \in Copies
  BY DEF Inv, TypeOK, Copies
<1>3. /\ first \in Seq(Copies) /\ Len(first) = Pending /\ \A i \in DOMAIN first : first[i] = None
      /\ second \in Seq(Copies) /\ Len(second) = (IF moving # None THEN 1 ELSE 0)
      /\ \A i \in DOMAIN second : second[i] = None
  <2>1. CASE copied = None
    BY <1>1, <1>2, <2>1 DEF Pending
  <2>2. CASE copied # None
    BY <1>1, <1>2, <2>2 DEF Pending
  <2> QED
    BY <2>1, <2>2
<1> HIDE DEF first, second
<1> DEFINE both == replaced \o first
           n == Len(replaced)
           k == Len(both)
<1>4. /\ both \in Seq(Copies) /\ k = n + Len(first) /\ n \in Nat /\ Len(first) \in Nat
      /\ \A i \in 1 .. n : both[i] = replaced[i]
      /\ \A i \in 1 .. k : i \notin 1 .. n => both[i] = None
  <2>1. /\ both \in Seq(Copies) /\ Len(both) = Len(replaced) + Len(first)
        /\ Len(replaced) \in Nat /\ Len(first) \in Nat
        /\ \A i \in 1 .. Len(replaced) : both[i] = replaced[i]
        /\ \A i \in 1 .. Len(replaced) + Len(first) : i \notin 1 .. Len(replaced) =>
             i - Len(replaced) \in 1 .. Len(first) /\ both[i] = first[i - Len(replaced)]
    <3>1. replaced \in Seq(Copies) /\ first \in Seq(Copies)
      BY <1>2, <1>3
    <3> QED
      BY ONLY <3>1, ConcatFacts
  <2>2. DOMAIN first = 1 .. Len(first)
    BY <1>3
  <2> HIDE DEF both
  <2> QED
    BY <1>3, <2>1, <2>2
<1> HIDE DEF both
<1>5. /\ replaced' \in Seq(Copies) /\ Len(replaced') = k + Len(second) /\ k \in Nat /\ Len(second) \in Nat
      /\ \A i \in 1 .. k : replaced'[i] = both[i]
      /\ \A i \in 1 .. Len(replaced') : i \notin 1 .. k => replaced'[i] = None
  <2>1. replaced' = both \o second
    BY <1>1 DEF both
  <2>2. /\ both \o second \in Seq(Copies) /\ Len(both \o second) = Len(both) + Len(second)
        /\ Len(both) \in Nat /\ Len(second) \in Nat
        /\ \A i \in 1 .. Len(both) : (both \o second)[i] = both[i]
        /\ \A i \in 1 .. Len(both) + Len(second) : i \notin 1 .. Len(both) =>
             i - Len(both) \in 1 .. Len(second) /\ (both \o second)[i] = second[i - Len(both)]
    <3>1. both \in Seq(Copies) /\ second \in Seq(Copies)
      BY <1>3, <1>4
    <3> QED
      BY ONLY <3>1, ConcatFacts
  <2>3. DOMAIN second = 1 .. Len(second)
    BY <1>3
  <2> QED
    BY <1>3, <2>1, <2>2, <2>3
<1>6. DOMAIN replaced = 1 .. n /\ DOMAIN replaced' = 1 .. Len(replaced')
  BY <1>2, <1>5
<1> HIDE DEF n, k
<1>7. \A i \in 1 .. n : i \in 1 .. k /\ replaced'[i] = replaced[i]
  BY <1>4, <1>5
<1>8. \A i \in 1 .. Len(replaced') : i \notin 1 .. n => replaced'[i] = None
  BY <1>4, <1>5
<1>9. Len(replaced') = Len(replaced) + Pending + (IF moving # None THEN 1 ELSE 0)
  BY <1>3, <1>4, <1>5 DEF n, k
<1> QED
  BY <1>5, <1>6, <1>7, <1>8, <1>9

\* What it leaves is no more than it was, the migrated backup aside.
LEMMA StopLeaves ==
  ASSUME Inv, Numbered, NEW how, Stop(how), NEW b \in group, b.time >= 0,
         Pending = 1 \/ moving # None => b.id < clock - 1
  PROVE  /\ b \in group'
         /\ Cardinality(Newer(b, group')) =< Cardinality(Newer(b, Placed)) + (IF moving # None THEN 1 ELSE 0)
<1>1. /\ IsFiniteSet(group) /\ group \subseteq Backup /\ clock \in Int /\ IsFiniteSet(Placed) /\ b.time \in Int
      /\ \/ Filling = {} \/ \E f \in group : Filling = {f}
  <2>1. IsFiniteSet(group) /\ group \subseteq Backup /\ clock \in Int
    BY DEF Inv, TypeOK, Numbered
  <2> QED
    BY <2>1, FillingOne, FS_Subset DEF Placed, Backup, Times
<1>2. Cardinality(Newer(b, Placed)) \in Nat /\ Cardinality(Newer(b, group)) \in Nat
  BY <1>1, NewerFinite
\* An unsettled copy is not b.
<1>3. Unsettled => b \notin Filling
  <2>1. ASSUME Unsettled
        PROVE  Pending = 1 \/ moving # None
    <3>1. CASE pc = "copying"
      <4>1. copied \in Versions
        BY <3>1 DEF Inv, Copying, TypeOK, Backup
      <4> QED
        BY <3>1, <4>1, FileAssumption DEF Pending, Versions
    <3>2. CASE pc \in {"moving", "moved"}
      BY <3>2 DEF Inv, TypeOK
    <3>3. CASE pc = "temporary" /\ copied # None
      BY <3>3 DEF Pending
    <3> QED
      BY <2>1, <3>1, <3>2, <3>3 DEF Unsettled
  <2> QED
    BY <1>1, <2>1, FillingOne
<1>4. \/ group' = group
      \/ Unsettled /\ group' = group \ Filling
      \/ Unsettled /\ group' = (group \ Filling) \cup {Filled(c) : c \in Filling}
  BY DEF Stop
<1>5. b \in group'
  BY <1>3, <1>4
<1>6. CASE Filling = {} \/ group' \subseteq group \ Filling
  <2>1. group' \subseteq Placed
    BY <1>4, <1>6 DEF Placed
  <2>2. Cardinality(Newer(b, group')) =< Cardinality(Newer(b, Placed))
    BY <1>1, <2>1, NewerFewer
  <2>3. IsFiniteSet(group')
    BY <1>1, <2>1, FS_Subset
  <2>4. Cardinality(Newer(b, group')) \in Nat
    BY <2>3, NewerFinite
  <2> QED
    BY <1>2, <1>5, <2>2, <2>4
<1>7. CASE Filling # {} /\ ~(group' \subseteq group \ Filling)
  <2>1. PICK f \in group : Filling = {f}
    BY <1>1, <1>7
  <2>2. Filled(f).time = f.time /\ Filled(f).id = f.id
    BY FilledIsBackup DEF Inv
  <2>3. group' = group \/ group' = (group \ {f}) \cup {Filled(f)}
    BY <1>4, <1>7, <2>1
  <2>4. IsFiniteSet(group')
    <3>1. IsFiniteSet((group \ {f}) \cup {Filled(f)})
      BY <1>1, FiniteSwapped
    <3> QED
      BY <1>1, <2>3, <3>1
  <2>5. Cardinality(Newer(b, group')) \in Nat
    BY <2>4, NewerFinite
  <2>6. CASE pc = "moving"
    <3>1. Placed = group \ {f} /\ moving # None
      BY <2>1, <2>6 DEF Placed, Inv, TypeOK
    <3>2. group' \subseteq Placed \cup {f} \/ group' \subseteq Placed \cup {Filled(f)}
      BY <2>3, <3>1
    <3>3. Cardinality(Newer(b, group')) =< Cardinality(Newer(b, Placed)) + 1
      BY <1>1, <3>2, NewerAdded
    <3> QED
      BY <1>5, <3>1, <3>3
  <2>7. CASE pc # "moving"
    <3>1. Placed = group
      BY <2>7 DEF Placed
    <3>2. Cardinality(Newer(b, group')) =< Cardinality(Newer(b, group))
      BY <1>1, <1>2, <2>2, <2>3, NewerSwapped
    <3> QED
      BY <1>2, <1>5, <2>5, <3>1, <3>2
  <2> QED
    BY <2>6, <2>7
<1> QED
  BY <1>6, <1>7

LEMMA KeptStays == ASSUME Inv, Numbered, Pruning, Kept, Next PROVE Kept'
<1> USE DEF files, working, outside
<1> SUFFICES ASSUME NEW i \in DOMAIN replaced', replaced'[i] # None,
                    Len(replaced') - i + Pending' < BackupRetention'
             PROVE  \E b \in group' : Keeps(i, b)'
  BY DEF Kept
<1>0. /\ IsFiniteSet(group) /\ group \subseteq Backup /\ clock \in Nat /\ Pending \in {0, 1}
      /\ replaced \in Seq(Copies) /\ Len(replaced) \in Nat
      /\ \A b \in group : b.id \in Int /\ b.time \in Int /\ b.id < clock
      /\ IsFiniteSet(Placed) /\ \A b : Cardinality(Newer(b, Placed)) \in Nat /\ Cardinality(Newer(b, group)) \in Nat
      /\ BackupRetention \in 1 .. 100
  <2>1. /\ IsFiniteSet(group) /\ group \subseteq Backup /\ clock \in Nat /\ Pending \in {0, 1}
        /\ replaced \in Seq(Copies) /\ Len(replaced) \in Nat
        /\ \A b \in group : b.id \in Int /\ b.time \in Int /\ b.id < clock
    BY DEF Inv, TypeOK, Dated, Numbered, Backup, Times, Pending
  <2>2. IsFiniteSet(Placed)
    BY <2>1, FS_Subset DEF Placed
  <2> QED
    BY <2>1, <2>2, NewerFinite, RetentionPositive DEF Inv
\* Where the writes that ended, the setting and what is pending stay, so do their copies.
<1>1. ASSUME UNCHANGED <<replaced, setting>>, Pending' >= Pending, Pending' \in {0, 1}
      PROVE  /\ i \in 1 .. Len(replaced) /\ replaced[i] # None
             /\ Len(replaced) - i + Pending < BackupRetention
             /\ \E b \in group : Keeps(i, b)
  <2>1. i \in 1 .. Len(replaced) /\ i \in DOMAIN replaced /\ replaced[i] # None /\ BackupRetention' = BackupRetention
    BY <1>0, <1>1 DEF BackupRetention
  <2>2. Len(replaced) - i + Pending < BackupRetention
    BY <1>0, <1>1, <2>1
  <2> QED
    BY <2>1, <2>2 DEF Kept
<1>2. CASE Ask \/ Inspect \/ Prepare \/ Rename \/ Cleanup \/ RemoveSource \/ DropOld \/ Edit
  <2>1. /\ UNCHANGED <<group, replaced, setting, clock>>
        /\ pc' = "moving" <=> pc = "moving"
        /\ pc' = "prune" => pc = "prune" /\ plan' = plan
        /\ moving' # None => moving # None
    BY <1>2 DEF Ask, Inspect, Prepare, Rename, Cleanup, RemoveSource, DropOld, Edit
  <2>2. Pending' = Pending
    BY <1>2 DEF Pending, Ask, Inspect, Prepare, Rename, Cleanup, RemoveSource, DropOld, Edit
  <2>3. Placed' = Placed
    BY <2>1 DEF Placed, Filling
  <2>4. PICK b \in group : Keeps(i, b)
    BY <1>0, <1>1, <2>1, <2>2
  <2> QED
    BY <2>1, <2>2, <2>3, <2>4 DEF Keeps
<1>3. CASE MoveHashed
  <2>1. PICK e \in hashed : group' = group \cup {e}
    BY <1>3 DEF MoveHashed
  <2>2. /\ UNCHANGED <<replaced, setting, clock, moving>> /\ pc = "save" /\ pc' = "save" /\ Pending' = Pending
    BY <1>3 DEF MoveHashed, Pending
  <2>3. e.time \in Int /\ e.time < 0
    BY FileAssumption DEF Inv, TypeOK, Backup, Times
  <2>4. PICK b \in group : Keeps(i, b)
    BY <1>0, <1>1, <2>2
  <2>5. Placed' = group' /\ Placed = group
    BY <2>2 DEF Placed
  <2>6. e.time < b.time
    BY <1>0, <2>3, <2>4 DEF Keeps
  <2>7. Cardinality(Newer(b, group')) =< Cardinality(Newer(b, group))
    BY <1>0, <2>1, <2>3, <2>6, NewerAdded
  <2>8. IsFiniteSet(group')
    BY <1>0, <2>1, FS_AddElement
  <2>9. Cardinality(Newer(b, group')) \in Nat
    BY <2>8, NewerFinite
  <2>10. Keeps(i, b)'
    BY <1>0, <1>1, <2>2, <2>4, <2>5, <2>7, <2>9 DEF Keeps
  <2> QED
    BY <2>1, <2>10
<1>4. CASE StartCopy
  <2>1. /\ group' = group \cup {NewBackup(file)} /\ UNCHANGED <<replaced, setting, moving>> /\ clock' = clock + 1
        /\ pc = "save" /\ pc' = "copying" /\ copied = None
    BY <1>4 DEF StartCopy, Inv
  <2>2. Pending = 0 /\ Pending' \in {0, 1}
    BY <2>1 DEF Pending
  <2>3. PICK b \in group : Keeps(i, b)
    BY <1>0, <1>1, <2>1, <2>2
  <2>4. Placed' = group' /\ Placed = group
    BY <2>1 DEF Placed
  <2>5. Cardinality(Newer(b, group')) =< Cardinality(Newer(b, group)) + 1
    BY <1>0, <2>1, NewerAdded
  <2>6. Pending' = 1
    <3>1. copied' \in Versions
      BY <1>4 DEF StartCopy, Inv, TypeOK
    <3> QED
      BY <2>1, <3>1, FileAssumption DEF Pending, Versions
  <2>7. IsFiniteSet(group')
    BY <1>0, <2>1, FS_AddElement
  <2>8. Cardinality(Newer(b, group')) \in Nat
    BY <2>7, NewerFinite
  <2>9. Keeps(i, b)'
    BY <1>0, <1>1, <2>1, <2>2, <2>3, <2>4, <2>5, <2>6, <2>8 DEF Keeps
  <2> QED
    BY <2>1, <2>9
<1>5. CASE EndCopy
  <2>1. /\ group' = (group \ Filling) \cup {Filled(b) : b \in Filling}
        /\ UNCHANGED <<replaced, setting, clock, moving, copied>> /\ pc = "copying" /\ pc' = "temporary"
    BY <1>5 DEF EndCopy
  <2>2. Pending = 1 /\ Pending' = 1
    <3>1. copied \in Versions
      BY <2>1 DEF Inv, Copying, TypeOK, Backup
    <3> QED
      BY <2>1, <3>1, FileAssumption DEF Pending, Versions
  <2>3. PICK b \in group : Keeps(i, b)
    BY <1>0, <1>1, <2>1, <2>2
  <2>4. Placed' = group' /\ Placed = group
    BY <2>1 DEF Placed
  <2>5. b \in group' /\ b.id < clock - 1
    BY <1>0, <2>1, <2>2, <2>3, FillingOne DEF Keeps
  <2>6. Cardinality(Newer(b, group')) =< Cardinality(Newer(b, group)) /\ Cardinality(Newer(b, group')) \in Nat
    <3>1. CASE Filling = {}
      <4>1. group' = group
        BY <2>1, <3>1
      <4> QED
        BY <1>0, <4>1
    <3>2. CASE Filling # {}
      <4>1. PICK f \in group : Filling = {f}
        BY <3>2, FillingOne
      <4>2. group' = (group \ {f}) \cup {Filled(f)} /\ Filled(f).time = f.time /\ Filled(f).id = f.id
        BY <2>1, <4>1, FilledIsBackup DEF Inv
      <4>3. IsFiniteSet(group')
        <5>1. IsFiniteSet((group \ {f}) \cup {Filled(f)})
          BY <1>0, FiniteSwapped
        <5> QED
          BY <4>2, <5>1
      <4>4. Cardinality(Newer(b, group')) =< Cardinality(Newer(b, group))
        BY <1>0, <4>2, NewerSwapped
      <4>5. Cardinality(Newer(b, group')) \in Nat
        BY <4>3, NewerFinite
      <4> QED
        BY <4>4, <4>5
    <3> QED
      BY <3>1, <3>2
  <2>7. Keeps(i, b)'
    BY <1>0, <1>1, <2>1, <2>2, <2>3, <2>4, <2>5, <2>6 DEF Keeps
  <2> QED
    BY <2>5, <2>7
<1>6. CASE StartMove
  <2>1. PICK v : group' = group \cup {NewBackup(v)}
    BY <1>6 DEF StartMove
  <2>2. /\ UNCHANGED <<replaced, setting, copied>> /\ clock' = clock + 1 /\ pc = "migrate" /\ pc' = "moving"
    BY <1>6 DEF StartMove
  <2>3. Pending' = Pending
    BY <2>2 DEF Pending
  <2>4. PICK b \in group : Keeps(i, b)
    BY <1>0, <1>1, <2>2, <2>3
  <2>5. NewBackup(v) \in Filling'
    BY <1>0, <2>1, <2>2 DEF Filling, NewBackup
  <2>6. Placed' \subseteq group /\ Placed = group
    BY <2>1, <2>2, <2>5 DEF Placed
  <2>7. Cardinality(Newer(b, Placed')) =< Cardinality(Newer(b, group))
    BY <1>0, <2>6, NewerFewer
  <2>8. IsFiniteSet(Placed')
    BY <1>0, <2>6, FS_Subset
  <2>9. Cardinality(Newer(b, Placed')) \in Nat
    BY <2>8, NewerFinite
  <2>10. Keeps(i, b)'
    BY <1>0, <1>1, <2>2, <2>3, <2>4, <2>6, <2>7, <2>9 DEF Keeps
  <2> QED
    BY <2>1, <2>10
<1>7. CASE EndMove
  <2>1. /\ group' = (group \ Filling) \cup {[Filled(b) EXCEPT !.time = moving.time] : b \in Filling}
        /\ UNCHANGED <<replaced, setting, clock, moving, copied>> /\ pc = "moving" /\ pc' = "moved"
        /\ moving # None /\ moving.time < 0 /\ moving.time \in Int
    BY <1>7, FileAssumption DEF EndMove, Inv, TypeOK, Backup, Times
  <2>2. Pending' = Pending
    BY <2>1 DEF Pending
  <2>3. PICK b \in group : Keeps(i, b)
    BY <1>0, <1>1, <2>1, <2>2
  <2>4. Placed' = group' /\ Placed = group \ Filling
    BY <2>1 DEF Placed
  <2>5. b \in group' /\ b.id < clock - 1 /\ b.time >= 0
    BY <1>0, <2>1, <2>3, FillingOne DEF Keeps
  <2>6. Cardinality(Newer(b, group')) =< Cardinality(Newer(b, Placed)) /\ Cardinality(Newer(b, group')) \in Nat
    <3>1. CASE Filling = {}
      <4>1. group' = Placed
        BY <2>1, <2>4, <3>1
      <4> QED
        BY <1>0, <4>1
    <3>2. CASE Filling # {}
      <4>1. PICK f \in group : Filling = {f}
        BY <3>2, FillingOne
      <4> DEFINE e == [Filled(f) EXCEPT !.time = moving.time]
      <4>2. e.time = moving.time
        BY <2>1, FilledIsBackup DEF Inv
      <4>3. group' = Placed \cup {e}
        BY <2>1, <2>4, <4>1
      <4> HIDE DEF e
      <4>4. e.time < b.time /\ e.time \in Int
        BY <1>0, <2>1, <2>5, <4>2
      <4>5. IsFiniteSet(group')
        BY <1>0, <4>3, FS_AddElement
      <4>6. Cardinality(Newer(b, group')) =< Cardinality(Newer(b, Placed))
        BY <1>0, <4>3, <4>4, NewerAdded
      <4>7. Cardinality(Newer(b, group')) \in Nat
        BY <4>5, NewerFinite
      <4> QED
        BY <4>6, <4>7
    <3> QED
      BY <3>1, <3>2
  <2>7. Keeps(i, b)'
    BY <1>0, <1>1, <2>1, <2>2, <2>3, <2>4, <2>5, <2>6 DEF Keeps
  <2> QED
    BY <2>5, <2>7
<1>8. CASE List
  <2>1. /\ plan' = Excess(group) /\ UNCHANGED <<group, replaced, setting, clock, moving, copied>>
        /\ pc = "migrate" /\ pc' = "prune"
    BY <1>8 DEF List
  <2>2. Pending' = Pending
    BY <2>1 DEF Pending
  <2>3. PICK b \in group : Keeps(i, b)
    BY <1>0, <1>1, <2>1, <2>2
  <2>4. Placed' = group /\ Placed = group
    BY <2>1 DEF Placed
  <2>5. b \notin plan'
    BY <1>0, <1>1, <2>1, <2>2, <2>3, <2>4 DEF Keeps, Excess, Newest
  <2>6. Keeps(i, b)'
    BY <2>1, <2>2, <2>3, <2>4, <2>5 DEF Keeps
  <2> QED
    BY <2>1, <2>6
<1>9. CASE Prune
  <2>1. PICK d \in plan : plan' = plan \ {d} /\ group' = group \ {d}
    BY <1>9 DEF Prune
  <2>2. UNCHANGED <<replaced, setting, clock, moving, copied>> /\ pc = "prune" /\ pc' = "prune"
    BY <1>9 DEF Prune
  <2>3. Pending' = Pending
    BY <2>2 DEF Pending
  <2>4. PICK b \in group : Keeps(i, b)
    BY <1>0, <1>1, <2>2, <2>3
  <2>5. Placed' = group' /\ Placed = group /\ b \in group' /\ b \notin plan'
    BY <2>1, <2>2, <2>4 DEF Placed, Keeps
  <2>6. Cardinality(Newer(b, group')) =< Cardinality(Newer(b, group))
    BY <1>0, <2>1, NewerFewer
  <2>7. IsFiniteSet(group')
    BY <1>0, <2>1, FS_RemoveElement
  <2>8. Cardinality(Newer(b, group')) \in Nat
    BY <2>7, NewerFinite
  <2>9. Keeps(i, b)'
    BY <1>0, <1>1, <2>2, <2>3, <2>4, <2>5, <2>6, <2>8 DEF Keeps
  <2> QED
    BY <2>5, <2>9
<1>10. CASE Return
  <2>1. /\ UNCHANGED <<group, setting, clock, moving, copied>> /\ pc = "prune" /\ pc' = "idle"
        /\ replaced' = IF copied = None THEN replaced ELSE Append(replaced, copied)
    BY <1>10 DEF Return
  <2>2. Pending' = 0 /\ Placed' = group /\ Placed = group /\ moving = None /\ BackupRetention' = BackupRetention
    BY <2>1 DEF Pending, Placed, Numbered, BackupRetention
  <2>3. /\ Len(replaced') = Len(replaced) + Pending
        /\ \A j \in 1 .. Len(replaced) : replaced'[j] = replaced[j]
        /\ copied # None => replaced'[Len(replaced) + 1] = copied
        /\ i \in 1 .. Len(replaced')
        /\ Pending = 1 <=> copied # None
    <3>1. CASE copied = None
      BY <1>0, <2>1, <3>1 DEF Pending
    <3>2. CASE copied # None
      <4>1. copied \in Copies
        BY DEF Inv, TypeOK, Copies
      <4>2. Pending = 1
        BY <2>1, <3>2 DEF Pending
      <4>3. replaced' = Append(replaced, copied)
        BY <2>1, <3>2
      <4>4. replaced' \in Seq(Copies) /\ Len(replaced') = Len(replaced) + 1
        BY <1>0, <4>1, <4>3
      <4> QED
        BY <1>0, <3>2, <4>1, <4>2, <4>3, <4>4
    <3> QED
      BY <3>1, <3>2
  <2>4. CASE i \in 1 .. Len(replaced)
    <3>1. i \in DOMAIN replaced /\ replaced[i] # None /\ Len(replaced) - i + Pending < BackupRetention
      BY <1>0, <2>2, <2>3, <2>4
    <3>2. PICK b \in group : Keeps(i, b)
      BY <3>1 DEF Kept
    <3>3. Keeps(i, b)'
      BY <1>0, <2>1, <2>2, <2>3, <2>4, <3>2 DEF Keeps
    <3> QED
      BY <2>1, <3>3
  <2>5. CASE i \notin 1 .. Len(replaced)
    <3>1. i = Len(replaced) + 1 /\ copied # None /\ replaced'[i] = copied /\ Len(replaced') - i = 0
      BY <1>0, <2>3, <2>5
    <3>2. PICK b \in group : IsCopy(b)
      BY <2>1, <3>1 DEF Inv, Saved, CopyDone
    <3>3. Newer(b, group) = {}
      BY <1>0, <2>1, <3>2 DEF IsCopy, Newer
    <3>4. Cardinality(Newer(b, group)) = 0
      BY <3>3, FS_EmptySet
    <3>5. Keeps(i, b)'
      BY <2>1, <2>2, <3>1, <3>2, <3>4 DEF Keeps, IsCopy
    <3> QED
      BY <2>1, <3>5
  <2> QED
    BY <2>4, <2>5
<1>11. CASE Fail \/ Crash
  <2>1. PICK how : Stop(how)
    BY <1>11 DEF Fail, Crash
  <2>2. pc # "idle" /\ pc' = "idle" /\ moving' = None /\ UNCHANGED <<setting, clock>>
    BY <2>1 DEF Stop
  <2>3. Pending' = 0 /\ Placed' = group' /\ BackupRetention' = BackupRetention
    BY <2>2 DEF Pending, Placed, BackupRetention
  <2> DEFINE lost == IF moving # None THEN 1 ELSE 0
  <2>4. /\ Len(replaced') = Len(replaced) + Pending + lost
        /\ i \in DOMAIN replaced /\ replaced'[i] = replaced[i]
    BY <2>1, StopCounts
  <2>5. lost \in {0, 1} /\ i \in Int
    BY <1>0, <2>4
  <2> HIDE DEF lost
  <2>6. Len(replaced) - i + Pending < BackupRetention
    BY <1>0, <2>3, <2>4, <2>5
  <2>7. PICK b \in group : Keeps(i, b)
    BY <2>4, <2>6 DEF Kept
  <2>8. b \in group' /\ Cardinality(Newer(b, group')) =< Cardinality(Newer(b, Placed)) + lost
    BY <2>1, <2>7, StopLeaves DEF Keeps, lost
  <2>9. IsFiniteSet(group')
    BY NamesKept
  <2>10. Cardinality(Newer(b, group')) \in Nat
    BY <2>9, NewerFinite
  <2>11. Keeps(i, b)'
    BY <1>0, <2>2, <2>3, <2>4, <2>5, <2>7, <2>8, <2>10 DEF Keeps
  <2> QED
    BY <2>8, <2>11
<1>12. CASE SetRetention
  <2>1. replaced' = << >>
    BY <1>12 DEF SetRetention
  <2> QED
    BY <2>1
<1> QED
  BY <1>2, <1>3, <1>4, <1>5, <1>6, <1>7, <1>8, <1>9, <1>10, <1>11, <1>12 DEF Next

\* The invariant behind LatestVersionsKept: what each ended write replaced has its
\* place in the history, counted from the newest.
THEOREM HistoryInvariant == Spec => []HistoryInv
<1>1. Init => Numbered /\ Pruning /\ Kept
  <2>1. ASSUME Init
        PROVE  Numbered /\ Pruning /\ Kept
    BY <2>1, FS_EmptySet DEF Init, Numbered, Pruning, Kept, Unsettled
  <2> QED
    BY <2>1
<1>2. ASSUME Inv, Numbered, Pruning, Kept, [Next]_vars
      PROVE  Numbered' /\ Pruning' /\ Kept'
  <2>1. CASE Next
    BY <1>2, <2>1, NumberedKept, PruningKept, KeptStays
  <2>2. CASE UNCHANGED vars
    <3>1. Numbered' /\ Pruning'
      BY <1>2, <2>2 DEF vars, Numbered, Unsettled, Pruning, BackupRetention
    <3>2. Pending' = Pending /\ Placed' = Placed /\ BackupRetention' = BackupRetention
      BY <2>2 DEF vars, Pending, Placed, Filling, BackupRetention
    <3>3. Kept'
      BY <1>2, <2>2, <3>2 DEF vars, Kept, Keeps
    <3> QED
      BY <3>1, <3>3
  <2> QED
    BY <1>2, <2>1, <2>2
<1> QED
  BY <1>1, <1>2, Invariance, PTL DEF Spec, HistoryInv

\* "The latest three historical versions are kept", as many as the setting says, and
\* nothing older is left in the group or beside the file (src/README.md:133).
THEOREM LatestVersionsAreKept == Spec => []LatestVersionsKept
<1>1. ASSUME HistoryInv
      PROVE  LatestVersionsKept
  <2> SUFFICES ASSUME result = "ok"
               PROVE  /\ Cardinality(group) =< BackupRetention /\ beside = {}
                      /\ \A i \in DOMAIN replaced : replaced[i] # None /\ Len(replaced) - i < BackupRetention =>
                           \E b \in group : b.whole /\ b.version = replaced[i]
    BY DEF LatestVersionsKept
  <2>1. Cardinality(group) =< BackupRetention /\ beside = {} /\ pc = "idle"
    BY <1>1 DEF HistoryInv, Pruning, Inv
  <2>2. Pending = 0
    BY <2>1 DEF Pending
  <2>3. ASSUME NEW i \in DOMAIN replaced, replaced[i] # None, Len(replaced) - i < BackupRetention
        PROVE  \E b \in group : b.whole /\ b.version = replaced[i]
    <3>1. Len(replaced) - i + 0 = Len(replaced) - i
      BY <1>1 DEF HistoryInv, Inv, TypeOK
    <3> QED
      BY <1>1, <2>2, <2>3, <3>1 DEF HistoryInv, Kept, Keeps
  <2> QED
    BY <2>1, <2>3
<1> QED
  BY <1>1, HistoryInvariant, PTL

-----------------------------------------------------------------------------
(* SkillLibrary: what is said of a variant, a backup and a call. *)

\* An Agent is managed for one variant at most, and for a stored one.
Sound(f) == /\ f \in Fact
            /\ \A t, u \in Managed(f) : t[2] = u[2] => t = u
            /\ \A t \in Managed(f) : t[1] \in Stored(f)

Archive  == [fact : Fact, content : SUBSET Hashes]
Previews == [hash : Hashes, kind : {"folder", "zip"}]

SoundBackup(b) == b \in Archive /\ Sound(b.fact) /\ b.content = Stored(b.fact)

ScanCall == [op : {"scan"}, stage : {"read"}, todo : SUBSET Agents, read : SUBSET Agents, mem : Fact,
             failed : BOOLEAN, at : {Nothing} \cup (Agents \X Hashes), touched : SUBSET Agents]
ApplyCall == [op : {"apply"},
              stage : {"check", "store", "stored", "targets", "write", "written", "removed", "end"},
              change : Change, refused : BOOLEAN, token : {Nothing} \cup Previews, todo : SUBSET Agents,
              mem : Fact, failed : BOOLEAN, at : {Nothing} \cup Agents, touched : SUBSET Agents]
UninstallCall == [op : {"uninstall"}, stage : {"backup", "targets", "write", "removed"},
                  todo : SUBSET (Hashes \X Agents), mem : Fact, failed : BOOLEAN,
                  at : {Nothing} \cup Agents, touched : SUBSET Agents]
RestoreCall == [op : {"restore"}, stage : {"publish", "published", "targets", "written"},
                backup : Archive, targets : SUBSET Agents, todo : SUBSET Agents, mem : Fact,
                failed : BOOLEAN, at : {Nothing} \cup Agents, touched : SUBSET Agents]
DoneCall == [op : {"done"}, targets : SUBSET Agents, backup : Archive, failed : BOOLEAN]

Active == call \in ScanCall \/ call \in ApplyCall \/ call \in UninstallCall \/ call \in RestoreCall

CallShape == call = Idle \/ Active \/ call \in DoneCall

StateSound == /\ SkillTypeOK
              /\ backups \in Seq(Archive)
              /\ preview \in Previews \cup {Nothing} /\ source \in Tree
              /\ Sound(registry)
              /\ \A i \in DOMAIN backups : SoundBackup(backups[i])

\* The Agents of which the registry in memory may say something else than their
\* directory once it is saved.
Unsure == IF call.op = "scan" THEN loose \ (call.read \ call.touched)
          ELSE IF call.stage = "written" THEN loose \ ({call.at} \ call.touched) ELSE loose

\* The registry in memory could be saved at any moment.
MemSound == Active =>
  /\ Sound(call.mem) /\ call.touched \subseteq loose
  /\ ~torn /\ ~raced => Stored(call.mem) \subseteq library
  /\ call.stage # "published" =>
       \A t \in Managed(call.mem) : dirs[t[2]] = t[1] \/ t[2] \in Unsure

\* A scan forgets no variant.
ScanSound == call \in ScanCall =>
  /\ call.at # Nothing => call.mem[call.at[2]] # Nothing
  /\ \A h \in Hashes : registry[h] # Nothing => call.mem[h] # Nothing

\* A change writes what it checked, and a deletion nobody refused is saved so far.
ApplySound == call \in ApplyCall =>
  LET h == call.change.hash IN
  /\ call.stage \in {"stored", "write", "written"} => call.mem[h] # Nothing
  /\ call.stage \in {"write", "written"} => call.at \in Agents
  /\ call.stage = "write" => IF call.change.delete THEN <<h, call.at>> \in Managed(call.mem)
                                                   ELSE h \in Stored(call.mem)
  /\ call.stage \in {"check", "store", "targets", "write"} /\ call.change.delete /\ ~call.refused =>
       call.mem = registry
  /\ call.stage = "removed" => call.mem = Unknown /\ library = {} /\ Managed(registry) = {}

\* An uninstall has a backup before it removes anything, and leaves no copy behind.
UninstallSound == call \in UninstallCall =>
  /\ call.todo \subseteq Managed(registry)
  /\ IF call.stage = "removed" THEN call.mem = Unknown /\ library = {} /\ call.todo = {}
                               ELSE call.mem = registry
  /\ call.stage = "backup" => call.todo = Managed(registry)
  /\ call.stage # "backup" =>
       /\ \A h \in Stored(registry) : \E i \in DOMAIN backups : h \in backups[i].content
       /\ \A t \in Managed(registry) \ call.todo :
            dirs[t[2]] # t[1] \/ t[2] \in call.touched \/ (call.stage = "write" /\ call.at = t[2])
  /\ call.stage = "write" =>
       /\ call.at \in Agents
       /\ call.at \in call.touched \/ dirs[call.at] = Nothing \/ dirs[call.at] \in Stored(registry)

\* A restore brings back the library first, then the entry, then copies.
RestoreSound == call \in RestoreCall =>
  /\ SoundBackup(call.backup) /\ \E h \in Hashes : call.backup.content = {h}
  /\ call.todo \subseteq call.targets
  /\ call.stage \in {"publish", "published"} => call.todo = call.targets /\ ~call.failed
  /\ call.stage # "publish" => library = call.backup.content /\ Stored(call.mem) = call.backup.content
  /\ call.stage = "written" => call.at \in Agents
  /\ ~call.failed /\ call.stage = "targets" => call.mem = registry
  /\ ~call.failed => \A a \in call.targets \ call.todo : \A h \in call.backup.content :
                       <<h, a>> \in Managed(call.mem)

\* The inductive invariant.
SkillInv == /\ StateSound /\ CallShape
            /\ StoredIsThere /\ ManagedIsThere /\ RestoreBringsBack
            /\ MemSound /\ ScanSound /\ ApplySound /\ UninstallSound /\ RestoreSound
-----------------------------------------------------------------------------
(* What is said of the variants of a Skill. *)

LEMMA FactParts ==
  ASSUME NEW f \in Fact
  PROVE  /\ \A h \in Hashes : f[h] # Nothing =>
              /\ f[h] \in Variant /\ f[h].stored \in BOOLEAN
              /\ f[h].seen \in SUBSET Agents /\ f[h].managed \in SUBSET Agents
         /\ \A h : h \in Stored(f) <=> h \in Hashes /\ f[h] # Nothing /\ f[h].stored
         /\ \A t \in Managed(f) : /\ t = <<t[1], t[2]>> /\ t[1] \in Hashes /\ t[2] \in Agents
                                  /\ f[t[1]] # Nothing /\ t[2] \in f[t[1]].managed
         /\ \A h \in Hashes, a \in Agents : f[h] # Nothing /\ a \in f[h].managed => <<h, a>> \in Managed(f)
<1>1. \A h \in Hashes : f[h] # Nothing => f[h] \in Variant
  BY DEF Fact
<1>2. \A v \in Variant : v.stored \in BOOLEAN /\ v.seen \in SUBSET Agents /\ v.managed \in SUBSET Agents
  BY DEF Variant
<1> QED
  BY <1>1, <1>2 DEF Stored, Managed

\* Soundness, by variant and Agent.
LEMMA SoundMeans ==
  ASSUME NEW f \in Fact
  PROVE  Sound(f) <=> \A h \in Hashes, a \in Agents : f[h] # Nothing /\ a \in f[h].managed =>
           f[h].stored /\ \A g \in Hashes : f[g] # Nothing /\ a \in f[g].managed => h = g
<1>1. ASSUME Sound(f), NEW h \in Hashes, NEW a \in Agents, f[h] # Nothing, a \in f[h].managed
      PROVE  f[h].stored /\ \A g \in Hashes : f[g] # Nothing /\ a \in f[g].managed => h = g
  <2>1. <<h, a>> \in Managed(f) /\ <<h, a>>[1] = h /\ <<h, a>>[2] = a
    BY <1>1, FactParts
  <2>2. f[h].stored
    BY <1>1, <2>1, FactParts DEF Sound
  <2>3. ASSUME NEW g \in Hashes, f[g] # Nothing, a \in f[g].managed
        PROVE  h = g
    <3>1. <<g, a>> \in Managed(f) /\ <<g, a>>[1] = g /\ <<g, a>>[2] = a
      BY <2>3, FactParts
    <3>2. <<h, a>> = <<g, a>>
      BY <1>1, <2>1, <3>1 DEF Sound
    <3> QED
      BY <3>2
  <2> QED
    BY <2>2, <2>3
<1>2. ASSUME \A h \in Hashes, a \in Agents : f[h] # Nothing /\ a \in f[h].managed =>
               f[h].stored /\ \A g \in Hashes : f[g] # Nothing /\ a \in f[g].managed => h = g
      PROVE  Sound(f)
  <2>1. ASSUME NEW t \in Managed(f)
        PROVE  t[1] \in Stored(f)
    BY <1>2, <2>1, FactParts
  <2>2. ASSUME NEW t \in Managed(f), NEW u \in Managed(f), t[2] = u[2]
        PROVE  t = u
    <3>1. /\ t = <<t[1], t[2]>> /\ t[1] \in Hashes /\ t[2] \in Agents /\ f[t[1]] # Nothing /\ t[2] \in f[t[1]].managed
          /\ u = <<u[1], u[2]>> /\ u[1] \in Hashes /\ u[2] \in Agents /\ f[u[1]] # Nothing /\ u[2] \in f[u[1]].managed
      BY FactParts
    <3>2. t[1] = u[1]
      BY <1>2, <2>2, <3>1
    <3> QED
      BY <2>2, <3>1, <3>2
  <2> QED
    BY <2>1, <2>2 DEF Sound
<1> QED
  BY <1>1, <1>2

LEMMA UnknownFacts ==
  Unknown \in Fact /\ Sound(Unknown) /\ Stored(Unknown) = {} /\ Managed(Unknown) = {}
<1>1. Unknown \in Fact /\ \A h \in Hashes : Unknown[h] = Nothing
  BY DEF Unknown, Fact
<1>2. Stored(Unknown) = {} /\ Managed(Unknown) = {}
  BY <1>1 DEF Stored, Managed
<1> QED
  BY <1>1, <1>2 DEF Sound

\* The Agent leaves every variant.
LEMMA WithoutFacts ==
  ASSUME NEW f \in Fact, NEW a \in Agents
  PROVE  /\ Without(f, a) \in Fact
         /\ \A h \in Hashes :
              /\ Without(f, a)[h] # Nothing <=> f[h] # Nothing
              /\ f[h] # Nothing => /\ Without(f, a)[h].stored = f[h].stored
                                   /\ Without(f, a)[h].managed = f[h].managed \ {a}
<1> DEFINE new == Without(f, a)
           out(v) == [v EXCEPT !.seen = @ \ {a}, !.managed = @ \ {a}]
<1>1. ASSUME NEW v \in Variant
      PROVE  /\ out(v) \in Variant /\ out(v) # Nothing
             /\ out(v).stored = v.stored /\ out(v).managed = v.managed \ {a}
  <2>1. out(v) \in Variant /\ out(v).stored = v.stored /\ out(v).managed = v.managed \ {a}
    BY DEF Variant
  <2> QED
    BY <2>1, NothingAssumption
<1>2. \A h \in Hashes : new[h] = IF f[h] = Nothing THEN Nothing ELSE out(f[h])
  BY DEF Without
<1>3. \A h \in Hashes : f[h] # Nothing => f[h] \in Variant
  BY FactParts
<1> HIDE DEF out
<1>4. \A h \in Hashes : new[h] \in Variant \cup {Nothing}
  BY <1>1, <1>2, <1>3
<1>5. new = [h \in Hashes |-> new[h]]
  BY DEF Without
<1>6. new \in Fact
  <2> HIDE DEF new
  <2> QED
    BY <1>4, <1>5 DEF Fact
<1> HIDE DEF new
<1>7. \A h \in Hashes : /\ new[h] # Nothing <=> f[h] # Nothing
                        /\ f[h] # Nothing => /\ new[h].stored = f[h].stored
                                             /\ new[h].managed = f[h].managed \ {a}
  BY <1>1, <1>2, <1>3
<1> QED
  BY <1>6, <1>7 DEF new

\* One variant changes: what becomes of the others is what they were.
LEMMA Replaced ==
  ASSUME NEW f \in Fact, NEW h \in Hashes, NEW v \in Variant
  PROVE  LET new == [f EXCEPT ![h] = v] IN
         /\ new \in Fact /\ new[h] = v /\ new[h] # Nothing
         /\ \A g \in Hashes \ {h} : new[g] = f[g]
BY NothingAssumption DEF Fact

\* The registry loses or gains no variant to store, and only a and h are affected.
Moves(f, new, a, h) ==
  /\ Sound(new) /\ Stored(new) = Stored(f)
  /\ \A t \in Managed(new) : (t \in Managed(f) /\ t[2] # a) \/ t = <<h, a>>
  /\ \A g \in Hashes : f[g] # Nothing => new[g] # Nothing

LEMMA MovesWhen ==
  ASSUME NEW f, Sound(f), NEW a \in Agents, NEW h, NEW new \in Fact,
         \A g \in Hashes : f[g] # Nothing =>
           /\ new[g] # Nothing /\ new[g].stored = f[g].stored
           /\ new[g].managed \subseteq (f[g].managed \ {a}) \cup (IF g = h /\ f[g].stored THEN {a} ELSE {}),
         \A g \in Hashes : f[g] = Nothing /\ new[g] # Nothing => ~new[g].stored /\ new[g].managed = {}
  PROVE  Moves(f, new, a, h)
<1>1. f \in Fact
  BY DEF Sound
<1>2. /\ \A g \in Hashes : f[g] # Nothing => f[g].stored \in BOOLEAN /\ f[g].managed \in SUBSET Agents
      /\ \A g \in Hashes, b \in Agents : f[g] # Nothing /\ b \in f[g].managed => f[g].stored
      /\ \A g, k \in Hashes, b \in Agents :
           f[g] # Nothing /\ b \in f[g].managed /\ f[k] # Nothing /\ b \in f[k].managed => g = k
  BY <1>1, SoundMeans, FactParts
\* Who is managed afterwards.
<1>3. ASSUME NEW g \in Hashes, NEW b \in Agents, new[g] # Nothing, b \in new[g].managed
      PROVE  /\ f[g] # Nothing /\ new[g].stored
             /\ (b # a /\ b \in f[g].managed) \/ (b = a /\ g = h)
  BY <1>2, <1>3
<1>4. Sound(new)
  <2>1. ASSUME NEW g \in Hashes, NEW b \in Agents, new[g] # Nothing, b \in new[g].managed
        PROVE  new[g].stored /\ \A k \in Hashes : new[k] # Nothing /\ b \in new[k].managed => g = k
    BY <1>2, <1>3, <2>1
  <2> QED
    BY <2>1, SoundMeans
<1>5. \A g : g \in Stored(new) <=> g \in Stored(f)
  BY <1>1, <1>2, FactParts
<1>6. ASSUME NEW t \in Managed(new)
      PROVE  (t \in Managed(f) /\ t[2] # a) \/ t = <<h, a>>
  <2>1. t = <<t[1], t[2]>> /\ t[1] \in Hashes /\ t[2] \in Agents /\ new[t[1]] # Nothing /\ t[2] \in new[t[1]].managed
    BY FactParts
  <2>2. /\ f[t[1]] # Nothing
        /\ (t[2] # a /\ t[2] \in f[t[1]].managed) \/ (t[2] = a /\ t[1] = h)
    BY <1>3, <2>1
  <2>3. CASE t[2] # a /\ t[2] \in f[t[1]].managed
    <3>1. <<t[1], t[2]>> \in Managed(f)
      BY <1>1, <2>1, <2>2, <2>3, FactParts
    <3> QED
      BY <2>1, <2>3, <3>1
  <2>4. CASE t[2] = a /\ t[1] = h
    BY <2>1, <2>4
  <2> QED
    BY <2>2, <2>3, <2>4
<1> QED
  BY <1>4, <1>5, <1>6 DEF Moves

LEMMA WithoutMoves ==
  ASSUME NEW f, Sound(f), NEW a \in Agents
  PROVE  Moves(f, Without(f, a), a, Nothing) /\ \A t \in Managed(Without(f, a)) : t[2] # a
<1>1. f \in Fact
  BY DEF Sound
<1> DEFINE new == Without(f, a)
<1>2. /\ new \in Fact
      /\ \A h \in Hashes : /\ new[h] # Nothing <=> f[h] # Nothing
                           /\ f[h] # Nothing => new[h].stored = f[h].stored /\ new[h].managed = f[h].managed \ {a}
  BY <1>1, WithoutFacts
<1> HIDE DEF new
<1>3. Moves(f, new, a, Nothing)
  BY <1>2, MovesWhen
<1>4. \A t \in Managed(new) : t[2] # a
  BY <1>2, FactParts
<1> QED
  BY <1>3, <1>4 DEF new

\* The Agent runs h, and leaves every other variant.
LEMMA FoundMoves ==
  ASSUME NEW f, Sound(f), NEW a \in Agents, NEW h \in Hashes
  PROVE  Moves(f, Found(f, a, h), a, h) /\ Found(f, a, h)[h] # Nothing
<1>1. f \in Fact
  BY DEF Sound
<1> DEFINE less == Without(f, a)
           v == IF f[h] = Nothing THEN New ELSE less[h]
           w == [v EXCEPT !.seen = @ \cup {a},
                          !.managed = IF f[h] # Nothing /\ f[h].stored THEN @ \cup {a} ELSE @]
           new == Found(f, a, h)
<1>2. /\ less \in Fact
      /\ \A g \in Hashes : /\ less[g] # Nothing <=> f[g] # Nothing
                           /\ f[g] # Nothing => less[g].stored = f[g].stored /\ less[g].managed = f[g].managed \ {a}
  BY <1>1, WithoutFacts
<1>3. new = [less EXCEPT ![h] = w]
  BY DEF Found
<1> HIDE DEF less, new
<1>4. v \in Variant /\ (f[h] = Nothing => ~v.stored /\ v.managed = {})
  <2>1. New \in Variant /\ ~New.stored /\ New.managed = {}
    BY DEF New, Variant
  <2> QED
    BY <1>2, <2>1, FactParts
<1>5. (f[h] # Nothing => v.stored = f[h].stored /\ v.managed = f[h].managed \ {a})
  BY <1>2
<1> HIDE DEF v
<1>6. /\ w \in Variant /\ w.stored = v.stored
      /\ w.managed = IF f[h] # Nothing /\ f[h].stored THEN v.managed \cup {a} ELSE v.managed
  BY <1>4 DEF Variant
<1> HIDE DEF w
<1>7. new \in Fact /\ new[h] = w /\ new[h] # Nothing /\ \A g \in Hashes \ {h} : new[g] = less[g]
  <2>1. [less EXCEPT ![h] = w] \in Fact /\ [less EXCEPT ![h] = w][h] = w /\ [less EXCEPT ![h] = w][h] # Nothing
        /\ \A g \in Hashes \ {h} : [less EXCEPT ![h] = w][g] = less[g]
    BY <1>2, <1>6, Replaced
  <2> QED
    BY <1>3, <2>1
<1>8. \A g \in Hashes : f[g] # Nothing =>
           /\ new[g] # Nothing /\ new[g].stored = f[g].stored
           /\ new[g].managed \subseteq (f[g].managed \ {a}) \cup (IF g = h /\ f[g].stored THEN {a} ELSE {})
  BY <1>2, <1>5, <1>6, <1>7
<1>9. \A g \in Hashes : f[g] = Nothing /\ new[g] # Nothing => ~new[g].stored /\ new[g].managed = {}
  BY <1>2, <1>4, <1>6, <1>7
<1>10. Moves(f, new, a, h)
  BY <1>7, <1>8, <1>9, MovesWhen
<1> QED
  BY <1>7, <1>10 DEF new

\* The Agent is given h, which is stored.
LEMMA CopiedMoves ==
  ASSUME NEW f, Sound(f), NEW a \in Agents, NEW h \in Stored(f)
  PROVE  /\ Moves(f, Copied(f, a, h), a, h)
         /\ <<h, a>> \in Managed(Copied(f, a, h))
         /\ \A b \in Agents : <<h, b>> \in Managed(f) => <<h, b>> \in Managed(Copied(f, a, h))
<1>1. f \in Fact /\ h \in Hashes /\ f[h] # Nothing /\ f[h].stored
  BY FactParts DEF Sound
<1> DEFINE out(v, g) == [v EXCEPT !.managed = IF g = h THEN @ \cup {a} ELSE @ \ {a}]
           new == Copied(f, a, h)
<1>2. ASSUME NEW v \in Variant, NEW g \in Hashes
      PROVE  /\ out(v, g) \in Variant /\ out(v, g) # Nothing /\ out(v, g).stored = v.stored
             /\ out(v, g).managed = IF g = h THEN v.managed \cup {a} ELSE v.managed \ {a}
  <2>1. /\ out(v, g) \in Variant /\ out(v, g).stored = v.stored
        /\ out(v, g).managed = IF g = h THEN v.managed \cup {a} ELSE v.managed \ {a}
    BY DEF Variant
  <2> QED
    BY <2>1, NothingAssumption
<1>3. \A g \in Hashes : new[g] = IF f[g] = Nothing THEN Nothing ELSE out(f[g], g)
  BY DEF Copied
<1>4. new = [g \in Hashes |-> new[g]]
  BY DEF Copied
<1>5. \A g \in Hashes : f[g] # Nothing => f[g] \in Variant
  BY <1>1, FactParts
<1> HIDE DEF out, new
<1>6. /\ new \in Fact
      /\ \A g \in Hashes : /\ f[g] = Nothing => new[g] = Nothing
                           /\ f[g] # Nothing => /\ new[g] # Nothing /\ new[g].stored = f[g].stored
                                                /\ new[g].managed = IF g = h THEN f[g].managed \cup {a}
                                                                             ELSE f[g].managed \ {a}
  <2>1. ASSUME NEW g \in Hashes
        PROVE  /\ new[g] \in Variant \cup {Nothing}
               /\ f[g] = Nothing => new[g] = Nothing
               /\ f[g] # Nothing => /\ new[g] # Nothing /\ new[g].stored = f[g].stored
                                    /\ new[g].managed = IF g = h THEN f[g].managed \cup {a}
                                                                 ELSE f[g].managed \ {a}
    <3>1. CASE f[g] = Nothing
      BY <1>3, <3>1
    <3>2. CASE f[g] # Nothing
      <4> DEFINE v == f[g]
      <4>1. v \in Variant /\ new[g] = out(v, g)
        BY <1>3, <1>5, <3>2
      <4>2. /\ out(v, g) \in Variant /\ out(v, g) # Nothing /\ out(v, g).stored = v.stored
            /\ out(v, g).managed = IF g = h THEN v.managed \cup {a} ELSE v.managed \ {a}
        BY <1>2, <4>1
      <4> QED
        BY <3>2, <4>1, <4>2
    <3> QED
      BY <3>1, <3>2
  <2>2. new \in Fact
    <3>1. \A g \in Hashes : new[g] \in Variant \cup {Nothing}
      BY <2>1
    <3> QED
      BY <1>4, <3>1 DEF Fact
  <2> QED
    BY <2>1, <2>2
<1>7. Moves(f, new, a, h)
  <2>1. \A g \in Hashes : f[g] # Nothing =>
           /\ new[g] # Nothing /\ new[g].stored = f[g].stored
           /\ new[g].managed \subseteq (f[g].managed \ {a}) \cup (IF g = h /\ f[g].stored THEN {a} ELSE {})
    BY <1>1, <1>6
  <2>2. \A g \in Hashes : f[g] = Nothing /\ new[g] # Nothing => ~new[g].stored /\ new[g].managed = {}
    BY <1>6
  <2> QED
    BY <1>6, <2>1, <2>2, MovesWhen
<1>8. \A b \in Agents : <<h, b>> \in Managed(f) => b \in f[h].managed
  BY DEF Managed
<1>9. \A b \in Agents : b \in f[h].managed \cup {a} => <<h, b>> \in Managed(new)
  <2>1. new[h] # Nothing /\ new[h].managed = f[h].managed \cup {a}
    BY <1>1, <1>6
  <2> QED
    BY <1>1, <1>6, <2>1, FactParts
<1> QED
  BY <1>7, <1>8, <1>9 DEF new

\* A variant is marked as stored.
LEMMA Marked ==
  ASSUME NEW f, Sound(f), NEW h \in Hashes, NEW v \in Variant,
         f[h] # Nothing => v = f[h],
         f[h] = Nothing => v = New
  PROVE  LET new == [f EXCEPT ![h] = [v EXCEPT !.stored = TRUE]] IN
         /\ Sound(new) /\ Stored(new) = Stored(f) \cup {h} /\ Managed(new) = Managed(f)
         /\ new[h] # Nothing /\ \A g \in Hashes : f[g] # Nothing => new[g] # Nothing
<1> DEFINE w == [v EXCEPT !.stored = TRUE]
           new == [f EXCEPT ![h] = w]
<1>1. f \in Fact
  BY DEF Sound
<1>2. w \in Variant /\ w.stored /\ w.managed = v.managed /\ (f[h] = Nothing => v.managed = {})
  <2>1. w \in Variant /\ w.stored /\ w.managed = v.managed
    BY DEF Variant
  <2>2. f[h] = Nothing => v.managed = {}
    BY DEF New
  <2> QED
    BY <2>1, <2>2
<1> HIDE DEF w
<1>3. new \in Fact /\ new[h] = w /\ new[h] # Nothing /\ \A g \in Hashes \ {h} : new[g] = f[g]
  BY <1>1, <1>2, Replaced
<1> HIDE DEF new
<1>4. \A g \in Hashes, a \in Agents :
        (new[g] # Nothing /\ a \in new[g].managed) <=> (f[g] # Nothing /\ a \in f[g].managed)
  BY <1>1, <1>2, <1>3
<1>5. Managed(new) = Managed(f)
  <2>1. \A t \in Hashes \X Agents : t[1] \in Hashes /\ t[2] \in Agents
    OBVIOUS
  <2> QED
    BY <1>4, <2>1 DEF Managed
<1>6. \A g \in Hashes : g \in Stored(new) <=> g \in Stored(f) \/ g = h
  BY <1>1, <1>2, <1>3, FactParts
<1>7. Stored(new) = Stored(f) \cup {h}
  BY <1>6 DEF Stored
<1>8. Sound(new)
  BY <1>3, <1>5, <1>7 DEF Sound
<1> QED
  BY <1>3, <1>5, <1>7, <1>8 DEF new, w

\* An Agent leaves one variant.
LEMMA Unmanaged ==
  ASSUME NEW f, Sound(f), NEW h \in Hashes, f[h] # Nothing, NEW a \in Agents
  PROVE  LET new == [f EXCEPT ![h].managed = @ \ {a}] IN
         /\ Sound(new) /\ Stored(new) = Stored(f)
         /\ \A t \in Managed(new) : t \in Managed(f) /\ t # <<h, a>>
         /\ \A g \in Hashes : f[g] # Nothing => new[g] # Nothing
<1> DEFINE w == [f[h] EXCEPT !.managed = @ \ {a}]
           new == [f EXCEPT ![h] = w]
<1>1. f \in Fact /\ f[h] \in Variant
  BY FactParts DEF Sound
<1>2. w \in Variant /\ w.stored = f[h].stored /\ w.managed = f[h].managed \ {a}
  BY <1>1 DEF Variant
<1> HIDE DEF w
<1>3. new \in Fact /\ new[h] = w /\ new[h] # Nothing /\ \A g \in Hashes \ {h} : new[g] = f[g]
  BY <1>1, <1>2, Replaced
<1> HIDE DEF new
<1>4. \A g \in Hashes, b \in Agents :
        new[g] # Nothing /\ b \in new[g].managed => f[g] # Nothing /\ b \in f[g].managed /\ (g # h \/ b # a)
  BY <1>1, <1>2, <1>3
<1>5. \A t \in Managed(new) : t \in Managed(f) /\ t # <<h, a>>
  <2>1. \A t \in Hashes \X Agents : t[1] \in Hashes /\ t[2] \in Agents /\ (t = <<h, a>> => t[1] = h /\ t[2] = a)
    OBVIOUS
  <2> QED
    BY <1>4, <2>1 DEF Managed
<1>6. \A g \in Hashes : g \in Stored(new) <=> g \in Stored(f)
  BY <1>1, <1>2, <1>3, FactParts
<1>7. Stored(new) = Stored(f)
  BY <1>6 DEF Stored
<1>8. Sound(new)
  BY <1>3, <1>5, <1>7 DEF Sound
<1>9. \A g \in Hashes : f[g] # Nothing => new[g] # Nothing
  BY <1>3
<1> QED
  BY <1>5, <1>7, <1>8, <1>9 DEF new, w
-----------------------------------------------------------------------------
(* Steps in general. *)

LEMMA OneKind ==
  ASSUME NEW c
  PROVE  /\ c \in ScanCall => c.op = "scan"
         /\ c \in ApplyCall => c.op = "apply"
         /\ c \in UninstallCall => c.op = "uninstall"
         /\ c \in RestoreCall => c.op = "restore"
         /\ c \in DoneCall => c.op = "done"
         /\ c = Idle => c.op = "idle"
BY DEF ScanCall, ApplyCall, UninstallCall, RestoreCall, DoneCall, Idle

\* The name of a call is its kind.
LEMMA Kind ==
  ASSUME CallShape
  PROVE  /\ call.op = "scan" => call \in ScanCall
         /\ call.op = "apply" => call \in ApplyCall
         /\ call.op = "uninstall" => call \in UninstallCall
         /\ call.op = "restore" => call \in RestoreCall
         /\ call.op = "done" => call \in DoneCall
<1>1. \/ call = Idle \/ call \in ScanCall \/ call \in ApplyCall
      \/ call \in UninstallCall \/ call \in RestoreCall \/ call \in DoneCall
  BY DEF CallShape, Active
<1> QED
  BY <1>1, OneKind

\* What has to be shown of a step after which a call goes on.
LEMMA GoesOn ==
  ASSUME StateSound', StoredIsThere', ManagedIsThere', MemSound',
         \/ call' \in ScanCall /\ ScanSound'
         \/ call' \in ApplyCall /\ ApplySound'
         \/ call' \in UninstallCall /\ UninstallSound'
         \/ call' \in RestoreCall /\ RestoreSound'
  PROVE  SkillInv'
<1>1. Active' /\ CallShape'
  BY DEF CallShape, Active
<1>2. call'.op \in {"scan", "apply", "uninstall", "restore"} /\ RestoreBringsBack'
  BY OneKind DEF RestoreBringsBack
<1>3. ScanSound' /\ ApplySound' /\ UninstallSound' /\ RestoreSound'
  BY OneKind DEF ScanSound, ApplySound, UninstallSound, RestoreSound
<1> QED
  BY <1>1, <1>2, <1>3 DEF SkillInv

\* And of one after which there is none.
LEMMA GoesIdle ==
  ASSUME StateSound', StoredIsThere', ManagedIsThere', call' = Idle
  PROVE  SkillInv'
<1>1. call'.op = "idle"
  BY OneKind
<1>2. /\ call' \notin ScanCall /\ call' \notin ApplyCall /\ call' \notin UninstallCall
      /\ call' \notin RestoreCall /\ call' \notin DoneCall
  BY <1>1, OneKind
<1> QED
  BY <1>1, <1>2 DEF SkillInv, CallShape, Active, MemSound, ScanSound, ApplySound, UninstallSound,
                    RestoreSound, RestoreBringsBack

LEMMA StateNext ==
  ASSUME StateSound, UNCHANGED backups, Sound(registry'), library' \subseteq Hashes,
         dirs' \in [Agents -> Tree], eligible' \subseteq Agents, loose' \subseteq Agents,
         torn' \in BOOLEAN, raced' \in BOOLEAN,
         preview' \in Previews \cup {Nothing}, source' \in Tree
  PROVE  StateSound'
<1>1. registry' \in Fact
  BY DEF Sound
<1>2. SkillTypeOK'
  BY <1>1 DEF StateSound, SkillTypeOK
<1> QED
  BY <1>2 DEF StateSound

\* Nothing but the call, the Agents, the previews and the bounds change.
LEMMA Untouched ==
  ASSUME SkillInv, UNCHANGED <<registry, library, dirs, backups, loose, torn, raced>>
  PROVE  /\ StoredIsThere' /\ ManagedIsThere'
         /\ eligible' = eligible /\ preview' = preview /\ source' = source => StateSound'
<1>1. StoredIsThere' /\ ManagedIsThere'
  BY DEF SkillInv, StoredIsThere, ManagedIsThere
<1>2. ASSUME eligible' = eligible, preview' = preview, source' = source
      PROVE  StateSound'
  BY <1>2, StateNext DEF SkillInv, StateSound, SkillTypeOK
<1> QED
  BY <1>1, <1>2

\* A call starts with the registry as it is.
LEMMA Starts ==
  ASSUME SkillInv, NEW c, Begins(c), UNCHANGED <<preview, source>>,
         c.mem = registry, c.touched = {}, c.stage \notin {"written", "published"},
         c.op = "scan" => c.read = {}
  PROVE  /\ StateSound' /\ StoredIsThere' /\ ManagedIsThere' /\ MemSound'
         /\ call' = c /\ UNCHANGED <<registry, library, dirs, backups>>
<1>1. call' = c /\ UNCHANGED <<registry, library, dirs, backups, eligible, loose, torn, raced>>
  BY DEF Begins
<1>2. StateSound' /\ StoredIsThere' /\ ManagedIsThere'
  BY <1>1, Untouched
<1>3. Unsure' = loose
  BY <1>1 DEF Unsure
<1>4. MemSound'
  BY <1>1, <1>3 DEF MemSound, SkillInv, StateSound, StoredIsThere, ManagedIsThere
<1> QED
  BY <1>1, <1>2, <1>4
-----------------------------------------------------------------------------
(* Scans. *)

LEMMA ScanStarts ==
  ASSUME SkillInv, Scan
  PROVE  SkillInv'
<1> DEFINE new == [op |-> "scan", stage |-> "read", todo |-> eligible, read |-> {}, mem |-> registry,
                   failed |-> FALSE, at |-> Nothing, touched |-> {}]
<1>1. Begins(new) /\ UNCHANGED <<preview, source>>
  BY DEF Scan
<1>2. /\ new.mem = registry /\ new.touched = {} /\ new.stage = "read" /\ new.read = {}
      /\ new.at = Nothing
  OBVIOUS
<1>3. new \in ScanCall
  BY DEF ScanCall, SkillInv, StateSound, SkillTypeOK
<1> HIDE DEF new
<1>4. /\ StateSound' /\ StoredIsThere' /\ ManagedIsThere' /\ MemSound'
      /\ call' = new /\ registry' = registry
  BY <1>1, <1>2, Starts
<1>5. ScanSound'
  BY <1>2, <1>4 DEF ScanSound
<1> QED
  BY <1>3, <1>4, <1>5, GoesOn

\* Scanning: the fields, and what they say of each other.
LEMMA ScanState ==
  ASSUME SkillInv, Reading
  PROVE  /\ call \in ScanCall /\ call.op = "scan"
         /\ Sound(call.mem) /\ call.touched \subseteq loose
         /\ ~torn /\ ~raced => Stored(call.mem) \subseteq library
         /\ \A t \in Managed(call.mem) : dirs[t[2]] = t[1] \/ t[2] \in loose \ (call.read \ call.touched)
         /\ call.at # Nothing => call.mem[call.at[2]] # Nothing
         /\ \A h \in Hashes : registry[h] # Nothing => call.mem[h] # Nothing
         /\ call.todo \in SUBSET Agents /\ call.read \in SUBSET Agents /\ call.touched \in SUBSET Agents
         /\ call.at \in {Nothing} \cup (Agents \X Hashes) /\ call.mem \in Fact /\ call.failed \in BOOLEAN
<1>1. call \in ScanCall /\ call.op = "scan" /\ call.stage = "read"
  BY Kind DEF Reading, At, SkillInv
<1>2. Active /\ Unsure = loose \ (call.read \ call.touched)
  BY <1>1 DEF Active, Unsure
<1> QED
  BY <1>1, <1>2 DEF SkillInv, MemSound, ScanSound, ScanCall

LEMMA ScanGoesOn ==
  ASSUME SkillInv, UNCHANGED <<registry, dirs, backups, eligible, preview, source, loose, torn, raced>>,
         library \subseteq library', library' \subseteq Hashes,
         call' \in ScanCall, Sound(call'.mem), call'.touched \subseteq loose,
         ~torn /\ ~raced => Stored(call'.mem) \subseteq library',
         \A t \in Managed(call'.mem) : dirs[t[2]] = t[1] \/ t[2] \in loose \ (call'.read \ call'.touched),
         call'.at # Nothing => call'.mem[call'.at[2]] # Nothing,
         \A h \in Hashes : registry[h] # Nothing => call'.mem[h] # Nothing
  PROVE  SkillInv'
<1>1. StateSound'
  BY StateNext DEF SkillInv, StateSound, SkillTypeOK
<1>2. StoredIsThere' /\ ManagedIsThere'
  BY DEF SkillInv, StoredIsThere, ManagedIsThere
<1>3. call'.op = "scan" /\ call'.stage = "read"
  BY DEF ScanCall
<1>4. Unsure' = loose \ (call'.read \ call'.touched)
  BY <1>3 DEF Unsure
<1>5. MemSound'
  BY <1>4 DEF MemSound
<1>6. ScanSound'
  BY DEF ScanSound
<1> QED
  BY <1>1, <1>2, <1>5, <1>6, GoesOn

LEMMA ScanSkipsKeeps ==
  ASSUME SkillInv, NEW a \in Agents, ScanSkips(a)
  PROVE  SkillInv'
<1> DEFINE new == [call EXCEPT !.todo = @ \ {a}]
<1>1. /\ Reading /\ call.at = Nothing /\ call' = new
      /\ UNCHANGED <<registry, library, dirs, loose, torn, backups, preview, source, raced, eligible>>
  BY DEF ScanSkips, Quiet, world
<1>2. /\ call \in ScanCall /\ Sound(call.mem) /\ call.touched \subseteq loose
      /\ ~torn /\ ~raced => Stored(call.mem) \subseteq library
      /\ \A t \in Managed(call.mem) : dirs[t[2]] = t[1] \/ t[2] \in loose \ (call.read \ call.touched)
      /\ \A h \in Hashes : registry[h] # Nothing => call.mem[h] # Nothing
  BY <1>1, ScanState
<1>3. /\ new \in ScanCall /\ new.mem = call.mem /\ new.touched = call.touched /\ new.read = call.read
      /\ new.at = Nothing
  BY <1>1, <1>2 DEF ScanCall
<1>4. library \subseteq Hashes
  BY DEF SkillInv, StateSound, SkillTypeOK
<1> HIDE DEF new
<1> QED
  BY <1>1, <1>2, <1>3, <1>4, ScanGoesOn

\* The Agent runs what its directory holds, and nothing else.
LEMMA ScanAgentKeeps ==
  ASSUME SkillInv, NEW a \in Agents, ScanAgent(a)
  PROVE  SkillInv'
<1> DEFINE h == dirs[a]
           mem == IF h = Nothing THEN Without(call.mem, a) ELSE Found(call.mem, a, h)
           at == IF h = Nothing \/ h \in Stored(mem) THEN Nothing ELSE <<a, h>>
           new == [call EXCEPT !.todo = @ \ {a}, !.read = @ \cup {a}, !.touched = @ \ {a}, !.mem = mem,
                               !.at = at]
<1>1. /\ Reading /\ call' = new
      /\ UNCHANGED <<registry, library, dirs, loose, torn, backups, preview, source, raced, eligible>>
  BY DEF ScanAgent, Quiet, world
<1>2. /\ call \in ScanCall /\ Sound(call.mem) /\ call.touched \subseteq loose
      /\ ~torn /\ ~raced => Stored(call.mem) \subseteq library
      /\ \A t \in Managed(call.mem) : dirs[t[2]] = t[1] \/ t[2] \in loose \ (call.read \ call.touched)
      /\ \A g \in Hashes : registry[g] # Nothing => call.mem[g] # Nothing
  BY <1>1, ScanState
<1>3. h \in Hashes \cup {Nothing} /\ library \subseteq Hashes
  BY DEF SkillInv, StateSound, SkillTypeOK, Tree
<1>4. /\ Moves(call.mem, mem, a, h)
      /\ h # Nothing => mem[h] # Nothing
      /\ h = Nothing => \A t \in Managed(mem) : t[2] # a
  <2>1. CASE h = Nothing
    BY <1>2, <2>1, WithoutMoves
  <2>2. CASE h # Nothing
    BY <1>2, <1>3, <2>2, FoundMoves
  <2> QED
    BY <2>1, <2>2
<1> HIDE DEF mem
<1>5. /\ Sound(mem) /\ mem \in Fact /\ Stored(mem) = Stored(call.mem)
      /\ \A t \in Managed(mem) : (t \in Managed(call.mem) /\ t[2] # a) \/ (t[1] = h /\ t[2] = a)
      /\ \A g \in Hashes : call.mem[g] # Nothing => mem[g] # Nothing
  BY <1>4 DEF Moves, Sound
<1>6. at \in {Nothing} \cup (Agents \X Hashes) /\ (at # Nothing => mem[at[2]] # Nothing)
  BY <1>3, <1>4
<1> HIDE DEF at
<1>7. /\ new \in ScanCall /\ new.mem = mem /\ new.touched = call.touched \ {a}
      /\ new.read = call.read \cup {a} /\ new.at = at
  BY <1>2, <1>5, <1>6 DEF ScanCall
<1> HIDE DEF new
<1>8. \A t \in Managed(mem) : dirs[t[2]] = t[1] \/ t[2] \in loose \ (new.read \ new.touched)
  BY <1>2, <1>5, <1>7
<1> HIDE DEF h
<1> QED
  BY <1>1, <1>2, <1>3, <1>5, <1>6, <1>7, <1>8, ScanGoesOn

LEMMA ScanStoreKeeps ==
  ASSUME SkillInv, ScanStore
  PROVE  SkillInv'
<1> DEFINE a == call.at[1]
           h == call.at[2]
<1>1. PICK done \in BOOLEAN : ScanStores(a, h, done)
  BY DEF ScanStore
<1>2. /\ Reading /\ call.at # Nothing
      /\ UNCHANGED <<registry, dirs, loose, torn, backups, preview, source, raced, eligible>>
  BY DEF ScanStore, Quiet, world
<1>3. /\ call \in ScanCall /\ Sound(call.mem) /\ call.touched \subseteq loose
      /\ ~torn /\ ~raced => Stored(call.mem) \subseteq library
      /\ \A t \in Managed(call.mem) : dirs[t[2]] = t[1] \/ t[2] \in loose \ (call.read \ call.touched)
      /\ \A g \in Hashes : registry[g] # Nothing => call.mem[g] # Nothing
      /\ h \in Hashes /\ call.mem[h] # Nothing /\ call.mem \in Fact
  BY <1>2, ScanState
<1>4. library \subseteq Hashes
  BY DEF SkillInv, StateSound, SkillTypeOK
<1>5. CASE done /\ dirs[a] = h
  <2> DEFINE v == call.mem[h]
             mem == [call.mem EXCEPT ![h] = [v EXCEPT !.stored = TRUE]]
             new == [call EXCEPT !.at = Nothing, !.mem = mem]
  <2>1. library' = library \cup {h} /\ call' = [call EXCEPT !.at = Nothing, !.mem[h].stored = TRUE]
    BY <1>1, <1>5 DEF ScanStores
  <2>2. call' = new
    BY <1>3, <2>1 DEF ScanCall
  <2>3. v \in Variant
    BY <1>3, FactParts
  <2>4. /\ Sound(mem) /\ Stored(mem) = Stored(call.mem) \cup {h} /\ Managed(mem) = Managed(call.mem)
        /\ \A g \in Hashes : call.mem[g] # Nothing => mem[g] # Nothing
    BY <1>3, <2>3, Marked
  <2> HIDE DEF mem
  <2>5. mem \in Fact
    BY <2>4 DEF Sound
  <2>6. /\ new \in ScanCall /\ new.mem = mem /\ new.touched = call.touched /\ new.read = call.read
        /\ new.at = Nothing
    BY <1>3, <2>5 DEF ScanCall
  <2> HIDE DEF new, h, a
  <2> QED
    BY <1>2, <1>3, <1>4, <2>1, <2>2, <2>4, <2>6, ScanGoesOn
<1>6. CASE ~(done /\ dirs[a] = h)
  <2> DEFINE new == [call EXCEPT !.at = Nothing]
  <2>1. library' = library /\ call' = new
    BY <1>1, <1>6 DEF ScanStores
  <2>2. /\ new \in ScanCall /\ new.mem = call.mem /\ new.touched = call.touched /\ new.read = call.read
        /\ new.at = Nothing
    BY <1>3 DEF ScanCall
  <2> HIDE DEF new, h, a
  <2> QED
    BY <1>2, <1>3, <1>4, <2>1, <2>2, ScanGoesOn
<1> QED
  BY <1>5, <1>6

LEMMA ScanSaveKeeps ==
  ASSUME SkillInv, ScanSave
  PROVE  SkillInv'
<1>1. /\ Reading /\ UNCHANGED <<library, dirs, torn, backups, preview, source, raced, eligible>>
      /\ \/ registry' = call.mem /\ loose' = loose \ (call.read \ call.touched)
         \/ UNCHANGED <<registry, loose>>
  BY DEF ScanSave, Quiet, world
<1>2. call' = Idle
  BY <1>1, ScanState DEF ScanSave, Ends
<1>3. /\ Sound(call.mem) /\ (~torn /\ ~raced => Stored(call.mem) \subseteq library)
      /\ \A t \in Managed(call.mem) : dirs[t[2]] = t[1] \/ t[2] \in loose \ (call.read \ call.touched)
  BY <1>1, ScanState
<1>4. StateSound'
  BY <1>1, <1>3, StateNext DEF SkillInv, StateSound, SkillTypeOK
<1>5. StoredIsThere' /\ ManagedIsThere'
  BY <1>1, <1>3 DEF SkillInv, StoredIsThere, ManagedIsThere
<1> QED
  BY <1>2, <1>4, <1>5, GoesIdle
-----------------------------------------------------------------------------
(* Changes. *)

\* The registry in memory is what it was, and no less is unsure than before.
LEMMA MemStays ==
  ASSUME SkillInv, Active, call.stage # "published",
         UNCHANGED <<library, dirs, loose, torn, raced>>,
         call'.mem = call.mem, call'.touched \subseteq call.touched,
         call'.op # "scan", call'.stage # "written"
  PROVE  MemSound'
<1>1. Unsure \subseteq loose /\ Unsure' = loose
  BY DEF Unsure
<1>2. /\ Sound(call.mem) /\ call.touched \subseteq loose
      /\ ~torn /\ ~raced => Stored(call.mem) \subseteq library
      /\ \A t \in Managed(call.mem) : dirs[t[2]] = t[1] \/ t[2] \in Unsure
  BY DEF SkillInv, MemSound
<1> QED
  BY <1>1, <1>2 DEF MemSound

\* Changing: the fields, and what they say of each other.
LEMMA ApplyState ==
  ASSUME SkillInv, NEW stage, At("apply", stage)
  PROVE  /\ call \in ApplyCall /\ Active /\ call.op = "apply" /\ call.stage = stage
         /\ Unsure = IF stage = "written" THEN loose \ ({call.at} \ call.touched) ELSE loose
         /\ Sound(call.mem) /\ call.mem \in Fact /\ call.touched \subseteq loose
         /\ ~torn /\ ~raced => Stored(call.mem) \subseteq library
         /\ \A t \in Managed(call.mem) : dirs[t[2]] = t[1] \/ t[2] \in Unsure
         /\ call.change \in Change /\ call.change.hash \in Hashes
         /\ call.change.targets \in SUBSET Agents /\ call.change.delete \in BOOLEAN
         /\ call.refused \in BOOLEAN /\ call.failed \in BOOLEAN /\ call.todo \in SUBSET Agents
         /\ call.touched \in SUBSET Agents
         /\ library \subseteq Hashes
<1>1. call \in ApplyCall /\ call.op = "apply" /\ call.stage = stage
  BY Kind DEF At, SkillInv
<1>2. /\ Active /\ call.stage # "published"
      /\ Unsure = IF stage = "written" THEN loose \ ({call.at} \ call.touched) ELSE loose
  BY <1>1 DEF Active, Unsure, ApplyCall
<1>3. call.change \in Change /\ call.refused \in BOOLEAN /\ call.failed \in BOOLEAN
      /\ call.todo \in SUBSET Agents /\ call.touched \in SUBSET Agents /\ call.mem \in Fact
  BY <1>1 DEF ApplyCall
<1>4. /\ call.change.hash \in Hashes /\ call.change.targets \in SUBSET Agents
      /\ call.change.delete \in BOOLEAN
  BY <1>3 DEF Change
<1> QED
  BY <1>1, <1>2, <1>3, <1>4 DEF SkillInv, MemSound, StateSound, SkillTypeOK

\* A step that only moves the change on.
LEMMA ApplyMoves ==
  ASSUME SkillInv, NEW stage, At("apply", stage), call' \in ApplyCall, call'.mem = call.mem,
         call'.touched \subseteq call.touched, call'.stage # "written",
         UNCHANGED <<registry, library, dirs, loose, torn>>, Quiet, ApplySound'
  PROVE  SkillInv'
<1>1. UNCHANGED <<backups, eligible, preview, source, raced>>
  BY DEF Quiet, world
<1>2. StateSound' /\ StoredIsThere' /\ ManagedIsThere'
  BY <1>1, Untouched
<1>3. call.stage # "published" /\ call'.op # "scan" /\ Active
  BY ApplyState DEF ApplyCall
<1>4. MemSound'
  BY <1>1, <1>3, MemStays
<1> QED
  BY <1>2, <1>4, GoesOn

LEMMA ApplyStarts ==
  ASSUME SkillInv, NEW change \in Change, NEW token \in BOOLEAN, Apply(change, token)
  PROVE  SkillInv'
<1> DEFINE new == [op |-> "apply", stage |-> "check", change |-> change, refused |-> FALSE,
                   token |-> IF token THEN preview ELSE Nothing, todo |-> {}, mem |-> registry,
                   failed |-> FALSE, at |-> Nothing, touched |-> {}]
<1>1. Begins(new) /\ UNCHANGED <<preview, source>>
  BY DEF Apply
<1>2. /\ new.mem = registry /\ new.touched = {} /\ new.stage = "check" /\ new.op = "apply"
  OBVIOUS
<1>3. new \in ApplyCall
  BY DEF ApplyCall, SkillInv, StateSound, SkillTypeOK
<1> HIDE DEF new
<1>4. /\ StateSound' /\ StoredIsThere' /\ ManagedIsThere' /\ MemSound'
      /\ call' = new /\ registry' = registry
  BY <1>1, <1>2, Starts
<1>5. ApplySound'
  BY <1>2, <1>4 DEF ApplySound
<1> QED
  BY <1>3, <1>4, <1>5, GoesOn

LEMMA TargetsAreAgents ==
  ASSUME SkillInv, NEW stage, At("apply", stage)
  PROVE  Targets \subseteq Agents
BY ApplyState, FactParts DEF Targets, Mine

\* A refusal ends the change, whatever it was about to do.
LEMMA RefuseKeeps ==
  ASSUME SkillInv, NEW stage, At("apply", stage), Refuse,
         UNCHANGED <<registry, library, dirs, loose, torn>>, Quiet
  PROVE  SkillInv'
<1> DEFINE new == [call EXCEPT !.stage = "end", !.failed = TRUE]
<1>1. call \in ApplyCall /\ call' = new
  BY ApplyState DEF Refuse
<1>2. new \in ApplyCall /\ new.mem = call.mem /\ new.touched = call.touched /\ new.stage = "end"
  BY <1>1 DEF ApplyCall
<1> HIDE DEF new
<1>3. ApplySound'
  BY <1>1, <1>2 DEF ApplySound
<1> QED
  BY <1>1, <1>2, <1>3, ApplyMoves

LEMMA ApplyCheckKeeps ==
  ASSUME SkillInv, ApplyCheck
  PROVE  SkillInv'
<1>1. At("apply", "check") /\ UNCHANGED <<registry, library, dirs, loose, torn>> /\ Quiet
  BY DEF ApplyCheck
<1>2. CASE Refuse
  BY <1>1, <1>2, RefuseKeeps
<1>3. CASE ~Refuse
  <2> DEFINE stage == IF call.token # Nothing /\ call.change.hash \notin Stored(call.mem)
                      THEN "store" ELSE "targets"
             new == [call EXCEPT !.todo = Targets, !.stage = stage]
  <2>1. call' = new
    BY <1>3 DEF ApplyCheck
  <2>2. call \in ApplyCall /\ Targets \in SUBSET Agents /\ stage \in {"store", "targets"}
    BY <1>1, ApplyState, TargetsAreAgents
  <2> HIDE DEF stage
  <2>3. /\ new \in ApplyCall /\ new.mem = call.mem /\ new.touched = call.touched /\ new.stage = stage
        /\ new.change = call.change /\ new.refused = call.refused
    BY <2>2 DEF ApplyCall
  <2> HIDE DEF new
  <2>4. ApplySound'
    BY <1>1, <2>1, <2>2, <2>3 DEF ApplySound, SkillInv, At
  <2> QED
    BY <1>1, <2>1, <2>2, <2>3, <2>4, ApplyMoves
<1> QED
  BY <1>2, <1>3

\* What the source holds now is stored; the change marks what it was to hold.
LEMMA ApplyStoreKeeps ==
  ASSUME SkillInv, ApplyStore
  PROVE  SkillInv'
<1>1. /\ At("apply", "store") /\ UNCHANGED <<registry, dirs, loose, torn, backups, preview, source, world>>
      /\ eligible' = eligible
  BY DEF ApplyStore, world
<1>2. CASE Refuse /\ UNCHANGED <<library, raced>>
  <2>1. Quiet
    BY <1>1, <1>2 DEF Quiet
  <2> QED
    BY <1>1, <1>2, <2>1, RefuseKeeps
<1> DEFINE h == call.change.hash
           v == IF Mine = Nothing THEN New ELSE Mine
           mem == [call.mem EXCEPT ![h] = [v EXCEPT !.stored = TRUE]]
           new == [call EXCEPT !.mem = mem, !.stage = "stored"]
<1>3. CASE /\ source # Nothing /\ library' = library \cup {source} /\ raced' = (raced \/ source # h)
           /\ call' = [call EXCEPT !.mem[h] = [v EXCEPT !.stored = TRUE], !.stage = "stored"]
  <2>1. /\ call \in ApplyCall /\ h \in Hashes /\ Sound(call.mem) /\ call.mem \in Fact
        /\ call.touched \subseteq loose /\ (~torn /\ ~raced => Stored(call.mem) \subseteq library)
        /\ \A t \in Managed(call.mem) : dirs[t[2]] = t[1] \/ t[2] \in loose
    BY <1>1, ApplyState
  <2>2. v \in Variant /\ (call.mem[h] # Nothing => v = call.mem[h]) /\ (call.mem[h] = Nothing => v = New)
    <3>1. New \in Variant
      BY DEF New, Variant
    <3> QED
      BY <2>1, <3>1, FactParts DEF Mine
  <2>3. call' = new
    BY <1>3, <2>1 DEF ApplyCall
  <2> HIDE DEF v
  <2>4. /\ Sound(mem) /\ Stored(mem) = Stored(call.mem) \cup {h} /\ Managed(mem) = Managed(call.mem)
        /\ mem[h] # Nothing
    BY <2>1, <2>2, Marked
  <2> HIDE DEF mem
  <2>5. mem \in Fact
    BY <2>4 DEF Sound
  <2>6. /\ new \in ApplyCall /\ new.mem = mem /\ new.touched = call.touched /\ new.stage = "stored"
        /\ new.change = call.change /\ new.op = "apply"
    BY <2>1, <2>5 DEF ApplyCall
  <2> HIDE DEF new
  <2>7. source \in Hashes /\ library' \subseteq Hashes /\ raced' \in BOOLEAN
    BY <1>3 DEF SkillInv, StateSound, SkillTypeOK, Tree
  <2>8. StateSound'
    BY <1>1, <2>7, StateNext DEF SkillInv, StateSound, SkillTypeOK
  <2>9. StoredIsThere' /\ ManagedIsThere'
    BY <1>1, <1>3 DEF SkillInv, StoredIsThere, ManagedIsThere
  <2>10. ~torn' /\ ~raced' => Stored(mem) \subseteq library'
    BY <1>1, <1>3, <2>1, <2>4
  <2>11. Unsure' = loose
    BY <1>1, <2>3, <2>6 DEF Unsure
  <2>12. MemSound'
    BY <1>1, <2>1, <2>3, <2>4, <2>6, <2>10, <2>11 DEF MemSound
  <2>13. ApplySound'
    BY <2>3, <2>4, <2>6 DEF ApplySound
  <2> QED
    BY <2>3, <2>6, <2>8, <2>9, <2>12, <2>13, GoesOn
<1> QED
  BY <1>2, <1>3 DEF ApplyStore

LEMMA ApplyStoredKeeps ==
  ASSUME SkillInv, ApplyStored
  PROVE  SkillInv'
<1>1. At("apply", "stored") /\ UNCHANGED <<library, dirs, loose, torn>> /\ Quiet
  BY DEF ApplyStored
<1>2. CASE registry' = registry /\ Refuse
  BY <1>1, <1>2, RefuseKeeps
<1> DEFINE new == [call EXCEPT !.stage = "targets", !.todo = Targets]
<1>3. CASE registry' = call.mem /\ call' = new
  <2>1. /\ call \in ApplyCall /\ Active /\ Targets \in SUBSET Agents /\ Sound(call.mem)
        /\ (~torn /\ ~raced => Stored(call.mem) \subseteq library)
        /\ \A t \in Managed(call.mem) : dirs[t[2]] = t[1] \/ t[2] \in loose
        /\ call.stage = "stored"
    BY <1>1, ApplyState, TargetsAreAgents
  <2>2. /\ new \in ApplyCall /\ new.mem = call.mem /\ new.touched = call.touched /\ new.stage = "targets"
        /\ new.op = "apply"
    BY <2>1 DEF ApplyCall
  <2> HIDE DEF new
  <2>3. UNCHANGED <<backups, eligible, preview, source, raced>>
    BY <1>1 DEF Quiet, world
  <2>4. StateSound'
    BY <1>1, <1>3, <2>1, <2>3, StateNext DEF SkillInv, StateSound, SkillTypeOK
  <2>5. StoredIsThere' /\ ManagedIsThere'
    BY <1>1, <1>3, <2>1, <2>3 DEF StoredIsThere, ManagedIsThere
  <2>6. MemSound'
    BY <1>1, <1>3, <2>1, <2>2, <2>3, MemStays
  <2>7. ApplySound'
    BY <1>3, <2>2 DEF ApplySound
  <2> QED
    BY <1>3, <2>2, <2>4, <2>5, <2>6, <2>7, GoesOn
<1> QED
  BY <1>2, <1>3 DEF ApplyStored

LEMMA ApplyTargetKeeps ==
  ASSUME SkillInv, NEW a \in Agents, ApplyTarget(a)
  PROVE  SkillInv'
<1> DEFINE h == call.change.hash
<1>1. At("apply", "targets") /\ a \in call.todo /\ UNCHANGED <<registry, library, dirs, loose, torn>> /\ Quiet
  BY DEF ApplyTarget
<1>2. /\ call \in ApplyCall /\ call.stage = "targets" /\ call.mem \in Fact
      /\ call.refused \in BOOLEAN /\ call.change.delete \in BOOLEAN
  BY <1>1, ApplyState
<1>3. CASE call' = [call EXCEPT !.todo = @ \ {a}, !.failed = TRUE, !.refused = @ \/ call.change.delete]
  <2> DEFINE refused == call.refused \/ call.change.delete
             new == [call EXCEPT !.todo = @ \ {a}, !.failed = TRUE, !.refused = refused]
  <2>1. refused \in BOOLEAN /\ (call.change.delete => refused)
    BY <1>2
  <2> HIDE DEF refused
  <2>2. /\ new \in ApplyCall /\ new.mem = call.mem /\ new.touched = call.touched /\ new.stage = "targets"
        /\ new.change = call.change /\ new.refused = refused
    BY <1>2, <2>1 DEF ApplyCall
  <2>3. call' = new
    BY <1>3 DEF refused
  <2> HIDE DEF new
  <2>4. ApplySound'
    BY <2>1, <2>2, <2>3 DEF ApplySound
  <2> QED
    BY <1>1, <2>2, <2>3, <2>4, ApplyMoves
<1>4. CASE ~Blocked(a) /\ call' = [call EXCEPT !.todo = @ \ {a}, !.at = a, !.touched = @ \ {a}, !.stage = "write"]
  <2> DEFINE new == [call EXCEPT !.todo = @ \ {a}, !.at = a, !.touched = @ \ {a}, !.stage = "write"]
  <2>1. /\ new \in ApplyCall /\ new.mem = call.mem /\ new.touched = call.touched \ {a} /\ new.stage = "write"
        /\ new.change = call.change /\ new.refused = call.refused /\ new.at = a
    BY <1>2 DEF ApplyCall
  <2>2. IF call.change.delete THEN <<h, a>> \in Managed(call.mem) ELSE h \in Stored(call.mem)
    BY <1>4 DEF Blocked
  <2>3. call.mem[h] # Nothing
    BY <1>2, <2>2, FactParts
  <2>4. call' = new
    BY <1>4
  <2> HIDE DEF new
  <2>5. ApplySound'
    BY <1>1, <1>2, <2>1, <2>2, <2>3, <2>4 DEF ApplySound, SkillInv
  <2> QED
    BY <1>1, <2>1, <2>4, <2>5, ApplyMoves
<1> QED
  BY <1>3, <1>4 DEF ApplyTarget

\* The tree is written and the registry in memory says so; the registry follows.
LEMMA ApplyWriteKeeps ==
  ASSUME SkillInv, ApplyWrite
  PROVE  SkillInv'
<1> DEFINE h == call.change.hash
           a == call.at
           tree == IF call.change.delete THEN Nothing ELSE h
           mem == IF call.change.delete THEN [call.mem EXCEPT ![h].managed = @ \ {a}] ELSE Copied(call.mem, a, h)
           new == [call EXCEPT !.mem = mem, !.stage = "written"]
<1>1. /\ At("apply", "write") /\ loose' = loose \cup {a}
      /\ UNCHANGED <<registry, library, torn, backups, eligible, preview, source, raced>>
  BY DEF ApplyWrite, Quiet, world
<1>2. /\ call \in ApplyCall /\ h \in Hashes /\ Sound(call.mem) /\ call.mem \in Fact
      /\ call.touched \subseteq loose /\ (~torn /\ ~raced => Stored(call.mem) \subseteq library)
      /\ \A t \in Managed(call.mem) : dirs[t[2]] = t[1] \/ t[2] \in loose
  BY <1>1, ApplyState
<1>3. /\ a \in Agents /\ call.mem[h] # Nothing
      /\ IF call.change.delete THEN <<h, a>> \in Managed(call.mem) ELSE h \in Stored(call.mem)
  BY <1>1, <1>2 DEF SkillInv, ApplySound, At
<1>4. dirs' = [dirs EXCEPT ![a] = tree] /\ call' = new
  <2>1. CASE call.change.delete
    BY <1>2, <2>1 DEF ApplyWrite, ApplyCall
  <2>2. CASE ~call.change.delete
    BY <1>2, <2>2 DEF ApplyWrite, ApplyCall, Published
  <2> QED
    BY <2>1, <2>2
<1>5. /\ Sound(mem) /\ Stored(mem) = Stored(call.mem) /\ mem[h] # Nothing
      /\ \A t \in Managed(mem) : (t \in Managed(call.mem) /\ t[2] # a) \/ (t[1] = tree /\ t[2] = a)
  <2>1. CASE call.change.delete
    <3> DEFINE f == call.mem
               less == [f EXCEPT ![h].managed = @ \ {a}]
    <3>1. mem = less
      BY <2>1
    <3>2. /\ Sound(less) /\ Stored(less) = Stored(f) /\ less[h] # Nothing
          /\ \A t \in Managed(less) : t \in Managed(f) /\ t # <<h, a>>
      <4>1. Sound(f) /\ h \in Hashes /\ f[h] # Nothing /\ a \in Agents
        BY <1>2, <1>3
      <4> HIDE DEF h, a, f, mem
      <4> QED
        BY <4>1, Unmanaged
    <3>3. <<h, a>> \in Managed(call.mem) /\ <<h, a>>[2] = a
      BY <1>3, <2>1
    <3>4. \A t \in Managed(call.mem) : t[2] = a => t = <<h, a>>
      BY <1>2, <3>3 DEF Sound
    <3> HIDE DEF mem, less
    <3> QED
      BY <3>1, <3>2, <3>4
  <2>2. CASE ~call.change.delete
    <3>1. mem = Copied(call.mem, a, h) /\ h \in Stored(call.mem) /\ tree = h
      BY <1>3, <2>2
    <3>2. Moves(call.mem, mem, a, h)
      BY <1>2, <1>3, <3>1, CopiedMoves
    <3> HIDE DEF mem
    <3> QED
      BY <1>2, <1>3, <3>1, <3>2 DEF Moves
  <2> QED
    BY <2>1, <2>2
<1>6. tree \in Tree
  BY <1>2 DEF Tree
<1> HIDE DEF mem, tree
<1>7. mem \in Fact
  BY <1>5 DEF Sound
<1>8. /\ new \in ApplyCall /\ new.mem = mem /\ new.touched = call.touched /\ new.stage = "written"
      /\ new.change = call.change /\ new.op = "apply" /\ new.at = a
  BY <1>2, <1>7 DEF ApplyCall
<1> HIDE DEF new
<1>9. /\ dirs' \in [Agents -> Tree] /\ dirs'[a] = tree
      /\ \A b \in Agents : b # a => dirs'[b] = dirs[b]
  BY <1>3, <1>4, <1>6 DEF SkillInv, StateSound, SkillTypeOK
<1>10. StateSound'
  BY <1>1, <1>3, <1>9, StateNext DEF SkillInv, StateSound, SkillTypeOK
<1>11. \A t \in Managed(registry) \cup Managed(call.mem) : t[2] \in Agents
  BY FactParts, <1>2 DEF SkillInv, StateSound, SkillTypeOK
<1>12. StoredIsThere' /\ ManagedIsThere'
  BY <1>1, <1>9, <1>11 DEF SkillInv, StoredIsThere, ManagedIsThere
<1>13. Unsure' = loose' \ ({a} \ call.touched)
  BY <1>4, <1>8 DEF Unsure
<1>14. \A t \in Managed(mem) : dirs'[t[2]] = t[1] \/ t[2] \in Unsure'
  BY <1>1, <1>2, <1>5, <1>9, <1>11, <1>13
<1>15. MemSound'
  BY <1>1, <1>2, <1>4, <1>5, <1>8, <1>14 DEF MemSound
<1>16. ApplySound'
  BY <1>3, <1>4, <1>5, <1>8 DEF ApplySound
<1> QED
  BY <1>4, <1>8, <1>10, <1>12, <1>15, <1>16, GoesOn

LEMMA ApplySaveKeeps ==
  ASSUME SkillInv, ApplySave
  PROVE  SkillInv'
<1>1. At("apply", "written") /\ UNCHANGED <<library, dirs, torn, backups, eligible, preview, source, raced>>
  BY DEF ApplySave, Quiet, world
<1>2. /\ call \in ApplyCall /\ Sound(call.mem) /\ call.touched \subseteq loose
      /\ (~torn /\ ~raced => Stored(call.mem) \subseteq library)
      /\ \A t \in Managed(call.mem) : dirs[t[2]] = t[1] \/ t[2] \in loose \ ({call.at} \ call.touched)
      /\ call.refused \in BOOLEAN /\ call.change.delete \in BOOLEAN
  BY <1>1, ApplyState
<1> DEFINE done == registry' = call.mem
           new1 == [call EXCEPT !.stage = "targets", !.at = Nothing]
           refused == call.refused \/ call.change.delete
           new2 == [call EXCEPT !.stage = "targets", !.at = Nothing, !.failed = TRUE, !.refused = refused]
<1>3. CASE registry' = call.mem /\ call' = new1 /\ loose' = loose \ ({call.at} \ call.touched)
  <2>1. /\ new1 \in ApplyCall /\ new1.mem = call.mem /\ new1.touched = call.touched /\ new1.stage = "targets"
        /\ new1.op = "apply"
    BY <1>2 DEF ApplyCall
  <2> HIDE DEF new1
  <2>2. StateSound'
    BY <1>1, <1>2, <1>3, StateNext DEF SkillInv, StateSound, SkillTypeOK
  <2>3. StoredIsThere' /\ ManagedIsThere'
    BY <1>1, <1>2, <1>3 DEF StoredIsThere, ManagedIsThere
  <2>4. Unsure' = loose'
    BY <1>3, <2>1 DEF Unsure
  <2>5. MemSound'
    BY <1>1, <1>2, <1>3, <2>1, <2>4 DEF MemSound
  <2>6. ApplySound'
    BY <1>3, <2>1 DEF ApplySound
  <2> QED
    BY <1>3, <2>1, <2>2, <2>3, <2>5, <2>6, GoesOn
<1>4. CASE registry' = registry /\ loose' = loose /\ call' = new2
  <2>1. refused \in BOOLEAN /\ (call.change.delete => refused)
    BY <1>2
  <2> HIDE DEF refused
  <2>2. /\ new2 \in ApplyCall /\ new2.mem = call.mem /\ new2.touched = call.touched /\ new2.stage = "targets"
        /\ new2.op = "apply" /\ new2.refused = refused /\ new2.change = call.change
    BY <1>2, <2>1 DEF ApplyCall
  <2> HIDE DEF new2
  <2>3. ApplySound'
    BY <1>4, <2>1, <2>2 DEF ApplySound
  <2>4. Quiet
    BY DEF ApplySave
  <2> QED
    BY <1>1, <1>4, <2>2, <2>3, <2>4, ApplyMoves
<1> QED
  BY <1>3, <1>4 DEF ApplySave

\* The Skill is removed from the library, when no target keeps it.
LEMMA ApplyTargetsDoneKeeps ==
  ASSUME SkillInv, ApplyTargetsDone
  PROVE  SkillInv'
<1>1. At("apply", "targets") /\ UNCHANGED <<registry, dirs, loose>> /\ Quiet
  BY DEF ApplyTargetsDone
<1>2. call \in ApplyCall /\ call.touched \subseteq loose
  BY <1>1, ApplyState
<1> DEFINE gone == [call EXCEPT !.mem = Unknown, !.stage = "removed"]
           ended == [call EXCEPT !.stage = "end"]
<1>3. CASE MayRemove /\ library' = {} /\ torn' = TRUE /\ call' = gone
  <2>1. /\ gone \in ApplyCall /\ gone.mem = Unknown /\ gone.stage = "removed" /\ gone.touched = call.touched
    BY <1>2, UnknownFacts DEF ApplyCall
  <2> HIDE DEF gone
  <2>2. Managed(registry) = {}
    BY <1>1, <1>2, <1>3 DEF MayRemove, DeletesSkill, SkillInv, ApplySound, At
  <2>3. StateSound'
    BY <1>1, <1>3, StateNext DEF SkillInv, StateSound, SkillTypeOK, Quiet, world
  <2>4. StoredIsThere' /\ ManagedIsThere'
    BY <1>1, <1>3 DEF SkillInv, StoredIsThere, ManagedIsThere
  <2>5. MemSound'
    BY <1>1, <1>2, <1>3, <2>1, UnknownFacts DEF MemSound
  <2>6. ApplySound'
    BY <1>1, <1>3, <2>1, <2>2 DEF ApplySound
  <2> QED
    BY <1>3, <2>1, <2>3, <2>4, <2>5, <2>6, GoesOn
<1>4. CASE Refuse /\ UNCHANGED <<library, torn>>
  BY <1>1, <1>4, RefuseKeeps
<1>5. CASE call' = ended /\ UNCHANGED <<library, torn>>
  <2>1. /\ ended \in ApplyCall /\ ended.mem = call.mem /\ ended.stage = "end" /\ ended.touched = call.touched
    BY <1>2 DEF ApplyCall
  <2> HIDE DEF ended
  <2>2. ApplySound'
    BY <1>5, <2>1 DEF ApplySound
  <2> QED
    BY <1>1, <1>5, <2>1, <2>2, ApplyMoves
<1> QED
  BY <1>3, <1>4, <1>5 DEF ApplyTargetsDone

LEMMA ApplyRemovedKeeps ==
  ASSUME SkillInv, ApplyRemoved
  PROVE  SkillInv'
<1>1. At("apply", "removed") /\ UNCHANGED <<library, dirs, loose>> /\ Quiet
  BY DEF ApplyRemoved
<1>2. call \in ApplyCall /\ call.touched \subseteq loose /\ call.mem = Unknown
  BY <1>1, ApplyState DEF SkillInv, ApplySound
<1> DEFINE ended == [call EXCEPT !.stage = "end"]
<1>3. CASE Saves /\ call' = ended
  <2>1. /\ ended \in ApplyCall /\ ended.mem = Unknown /\ ended.stage = "end" /\ ended.touched = call.touched
    BY <1>2 DEF ApplyCall
  <2> HIDE DEF ended
  <2>2. registry' = Unknown /\ torn' = FALSE
    BY <1>2, <1>3 DEF Saves
  <2>3. StateSound'
    BY <1>1, <2>2, UnknownFacts, StateNext DEF SkillInv, StateSound, SkillTypeOK, Quiet, world
  <2>4. StoredIsThere' /\ ManagedIsThere'
    BY <2>2, UnknownFacts DEF StoredIsThere, ManagedIsThere
  <2>5. MemSound'
    BY <1>1, <1>2, <1>3, <2>1, UnknownFacts DEF MemSound
  <2>6. ApplySound'
    BY <1>3, <2>1 DEF ApplySound
  <2> QED
    BY <1>3, <2>1, <2>3, <2>4, <2>5, <2>6, GoesOn
<1>4. CASE SaveFails /\ Refuse
  BY <1>1, <1>4, RefuseKeeps DEF SaveFails
<1> QED
  BY <1>3, <1>4 DEF ApplyRemoved

LEMMA ApplyEndKeeps ==
  ASSUME SkillInv, ApplyEnd
  PROVE  SkillInv'
<1>1. At("apply", "end") /\ UNCHANGED <<registry, library, dirs, backups, loose, torn, raced, eligible>>
  BY DEF ApplyEnd, world
<1>2. call' = Idle
  BY <1>1, ApplyState DEF ApplyEnd, Ends
<1>3. preview' \in Previews \cup {Nothing} /\ source' \in Tree
  BY DEF ApplyEnd, Cleaned, SkillInv, StateSound, Tree
<1>4. StateSound'
  BY <1>1, <1>3, StateNext DEF SkillInv, StateSound, SkillTypeOK
<1> QED
  BY <1>1, <1>2, <1>4, Untouched, GoesIdle
-----------------------------------------------------------------------------
(* Uninstalls. *)

\* Uninstalling: the fields, and what they say of each other.
LEMMA UninstallState ==
  ASSUME SkillInv, NEW stage, At("uninstall", stage)
  PROVE  /\ call \in UninstallCall /\ Active /\ call.op = "uninstall" /\ call.stage = stage
         /\ Sound(call.mem) /\ call.touched \subseteq loose
         /\ ~torn /\ ~raced => Stored(call.mem) \subseteq library
         /\ \A t \in Managed(call.mem) : dirs[t[2]] = t[1] \/ t[2] \in loose
         /\ call.todo \subseteq Managed(registry)
         /\ IF stage = "removed" THEN call.mem = Unknown /\ library = {} /\ call.todo = {}
                                 ELSE call.mem = registry
         /\ stage = "backup" => call.todo = Managed(registry)
         /\ stage # "backup" => \A h \in Stored(registry) : \E i \in DOMAIN backups : h \in backups[i].content
         /\ stage # "backup" => \A t \in Managed(registry) \ call.todo :
              dirs[t[2]] # t[1] \/ t[2] \in call.touched \/ (stage = "write" /\ call.at = t[2])
         /\ stage = "write" => call.at \in Agents /\
              (call.at \in call.touched \/ dirs[call.at] = Nothing \/ dirs[call.at] \in Stored(registry))
<1>1. call \in UninstallCall /\ call.op = "uninstall" /\ call.stage = stage
  BY Kind DEF At, SkillInv
<1>2. Active /\ call.stage \notin {"published", "written"}
  BY <1>1 DEF Active, UninstallCall
<1>3. Unsure = loose
  BY <1>1, <1>2 DEF Unsure
<1>4. /\ Sound(call.mem) /\ call.touched \subseteq loose
      /\ ~torn /\ ~raced => Stored(call.mem) \subseteq library
      /\ \A t \in Managed(call.mem) : dirs[t[2]] = t[1] \/ t[2] \in loose
  BY <1>2, <1>3 DEF SkillInv, MemSound
<1> QED
  BY <1>1, <1>2, <1>4 DEF SkillInv, UninstallSound

\* An error ends the call; what is on disk is as it was.
LEMMA UninstallStops ==
  ASSUME SkillInv, NEW stage, At("uninstall", stage), Ends(TRUE),
         UNCHANGED <<registry, library, dirs, backups, eligible, preview, source, loose, torn, raced>>
  PROVE  SkillInv'
<1>1. call' = Idle
  BY UninstallState DEF Ends
<1> QED
  BY <1>1, Untouched, GoesIdle

LEMMA UninstallStarts ==
  ASSUME SkillInv, Uninstall
  PROVE  SkillInv'
<1> DEFINE new == [op |-> "uninstall", stage |-> "backup", todo |-> Managed(registry), mem |-> registry,
                   failed |-> FALSE, at |-> Nothing, touched |-> {}]
<1>1. Begins(new) /\ UNCHANGED <<preview, source>>
  BY DEF Uninstall
<1>2. /\ new.mem = registry /\ new.touched = {} /\ new.stage = "backup" /\ new.op = "uninstall"
      /\ new.todo = Managed(registry)
  OBVIOUS
<1>3. new \in UninstallCall
  <2>1. Managed(registry) \in SUBSET (Hashes \X Agents)
    BY DEF Managed
  <2>2. registry \in Fact
    BY DEF SkillInv, StateSound, SkillTypeOK
  <2> QED
    BY <2>1, <2>2 DEF UninstallCall
<1> HIDE DEF new
<1>4. /\ StateSound' /\ StoredIsThere' /\ ManagedIsThere' /\ MemSound'
      /\ call' = new /\ registry' = registry
  BY <1>1, <1>2, Starts
<1>5. UninstallSound'
  BY <1>2, <1>4 DEF UninstallSound
<1> QED
  BY <1>3, <1>4, <1>5, GoesOn

\* A step of an uninstall that writes to no directory.
LEMMA UninstallMoves ==
  ASSUME SkillInv, NEW stage, At("uninstall", stage), call' \in UninstallCall, call'.mem = call.mem,
         call'.touched \subseteq call.touched, StateSound', UninstallSound',
         UNCHANGED <<registry, library, dirs, loose, torn, raced>>
  PROVE  SkillInv'
<1>1. StoredIsThere' /\ ManagedIsThere'
  BY DEF SkillInv, StoredIsThere, ManagedIsThere
<1>2. /\ call.stage # "published" /\ Active
      /\ call'.op # "scan" /\ call'.stage # "written"
  BY UninstallState DEF UninstallCall
<1>3. MemSound'
  BY <1>2, MemStays
<1> QED
  BY <1>1, <1>3, GoesOn

\* Pruning keeps the newest backup, and no more than there may be.
LEMMA PrunedFacts ==
  ASSUME NEW S, NEW s \in Seq(S), Len(s) <= Retention, NEW b \in S
  PROVE  LET new == Pruned(Append(s, b)) IN
         /\ new \in Seq(S) /\ Len(new) <= Retention
         /\ \A i \in DOMAIN new : new[i] = b \/ \E j \in DOMAIN s : new[i] = s[j]
         /\ Len(new) \in DOMAIN new /\ new[Len(new)] = b
<1> DEFINE long == Append(s, b)
           new == Pruned(long)
           n == Len(s)
<1>1. /\ n \in Nat /\ long \in Seq(S) /\ Len(long) = n + 1 /\ long[n + 1] = b
      /\ \A i \in 1..n : long[i] = s[i]
      /\ DOMAIN s = 1..n /\ Retention \in Nat \ {0}
  BY SkillAssumption
<1> HIDE DEF long
<1>2. CASE n + 1 > Retention
  <2>1. new = Tail(long) /\ n = Retention
    <3>1. n <= Retention
      OBVIOUS
    <3> HIDE DEF n
    <3>2. n = Retention
      BY <1>1, <1>2, <3>1
    <3>3. Len(long) > Retention
      BY <1>1, <1>2
    <3> QED
      BY <3>2, <3>3 DEF Pruned
  <2>2. long # <<>>
    BY <1>1
  <2>3. new \in Seq(S) /\ Len(new) = n /\ \A i \in 1..n : new[i] = long[i + 1]
    BY <1>1, <2>1, <2>2
  <2> HIDE DEF new, n
  <2>4. DOMAIN new = 1..n
    BY <2>3
  <2>5. new[n] = b /\ n \in 1..n
    BY <1>1, <2>1, <2>3
  <2>6. ASSUME NEW i \in 1..n
        PROVE  new[i] = b \/ \E j \in DOMAIN s : new[i] = s[j]
    <3>1. CASE i = n
      BY <2>5, <3>1
    <3>2. CASE i # n
      <4>1. i + 1 \in 1..n
        BY <1>1, <3>2
      <4> QED
        BY <1>1, <2>3, <4>1
    <3> QED
      BY <3>1, <3>2
  <2> QED
    BY <2>1, <2>3, <2>4, <2>5, <2>6, <1>1 DEF long, new
<1>3. CASE ~(n + 1 > Retention)
  <2>1. new = long
    BY <1>1, <1>3 DEF Pruned
  <2> HIDE DEF new, n
  <2>2. DOMAIN new = 1..(n + 1) /\ new \in Seq(S) /\ Len(new) = n + 1 /\ new[n + 1] = b
    BY <1>1, <2>1
  <2>3. ASSUME NEW i \in 1..(n + 1)
        PROVE  new[i] = b \/ \E j \in DOMAIN s : new[i] = s[j]
    <3>1. i = n + 1 \/ i \in 1..n
      BY <1>1
    <3> QED
      BY <1>1, <2>1, <3>1
  <2>4. n + 1 <= Retention /\ n + 1 \in 1..(n + 1)
    BY <1>1, <1>3
  <2> QED
    BY <2>2, <2>3, <2>4 DEF long, new
<1> QED
  BY <1>2, <1>3

\* The library is the newest backup before anything is removed.
LEMMA CreateBackupKeeps ==
  ASSUME SkillInv, CreateBackup
  PROVE  SkillInv'
<1>1. /\ At("uninstall", "backup")
      /\ UNCHANGED <<registry, library, dirs, loose, torn, preview, source, raced, eligible>>
  BY DEF CreateBackup, world
<1>2. /\ call \in UninstallCall /\ call.mem = registry /\ call.todo = Managed(registry)
      /\ Sound(registry)
  BY <1>1, UninstallState
<1> DEFINE new == [call EXCEPT !.stage = "targets"]
<1>3. /\ new \in UninstallCall /\ new.mem = call.mem /\ new.touched = call.touched /\ new.stage = "targets"
      /\ new.todo = call.todo
  BY <1>2 DEF UninstallCall
<1> HIDE DEF new
<1>4. CASE Stored(call.mem) = {} /\ call' = new /\ UNCHANGED backups
  <2>1. StateSound'
    BY <1>1, <1>4, Untouched
  <2>2. UninstallSound'
    BY <1>1, <1>2, <1>3, <1>4 DEF UninstallSound
  <2> QED
    BY <1>1, <1>3, <1>4, <2>1, <2>2, UninstallMoves
<1>5. CASE /\ Whole(call.mem) /\ call' = new
           /\ backups' = Pruned(Append(backups, [fact |-> call.mem, content |-> library]))
  <2> DEFINE b == [fact |-> call.mem, content |-> library]
  <2>1. b.fact = registry /\ b.content = library /\ library = Stored(registry)
    BY <1>2, <1>5 DEF Whole
  <2>2. b \in Archive
    BY <1>2 DEF Archive, SkillInv, StateSound, SkillTypeOK
  <2> HIDE DEF b
  <2>3. SoundBackup(b)
    BY <1>2, <2>1, <2>2 DEF SoundBackup
  <2>4. backups \in Seq(Archive) /\ Len(backups) <= Retention /\ \A i \in DOMAIN backups : SoundBackup(backups[i])
    BY DEF SkillInv, StateSound, SkillTypeOK
  <2>5. backups' = Pruned(Append(backups, b))
    BY <1>5 DEF b
  <2>6. /\ backups' \in Seq(Archive) /\ Len(backups') <= Retention
        /\ \A i \in DOMAIN backups' : backups'[i] = b \/ \E j \in DOMAIN backups : backups'[i] = backups[j]
        /\ Len(backups') \in DOMAIN backups' /\ backups'[Len(backups')] = b
    BY <2>2, <2>4, <2>5, PrunedFacts
  <2>7. \A i \in DOMAIN backups' : SoundBackup(backups'[i])
    BY <2>3, <2>4, <2>6
  <2>8. \A i \in DOMAIN backups' : backups'[i].fact \in Fact /\ backups'[i].content \subseteq Hashes
    BY <2>7 DEF SoundBackup, Archive
  <2>9. StateSound'
    BY <1>1, <2>6, <2>7, <2>8 DEF SkillInv, StateSound, SkillTypeOK
  <2>10. \A h \in Stored(registry) : \E i \in DOMAIN backups' : h \in backups'[i].content
    BY <2>1, <2>6
  <2>11. UninstallSound'
    BY <1>1, <1>2, <1>3, <1>5, <2>10 DEF UninstallSound
  <2> QED
    BY <1>1, <1>3, <1>5, <2>9, <2>11, UninstallMoves
<1>6. CASE Ends(TRUE) /\ UNCHANGED backups
  BY <1>1, <1>6, UninstallStops
<1> QED
  BY <1>4, <1>5, <1>6 DEF CreateBackup, new

\* A target is removed only if it holds what BootAgent copied there.
LEMMA UninstallTargetKeeps ==
  ASSUME SkillInv, NEW h \in Hashes, NEW a \in Agents, UninstallTarget(h, a)
  PROVE  SkillInv'
<1>1. /\ At("uninstall", "targets") /\ <<h, a>> \in call.todo
      /\ UNCHANGED <<registry, library, dirs, backups, eligible, preview, source, loose, torn, raced>>
  BY DEF UninstallTarget, Quiet, world
<1>2. /\ call \in UninstallCall /\ call.mem = registry /\ call.todo \subseteq Managed(registry)
      /\ call.op = "uninstall" /\ Sound(registry)
      /\ \A g \in Stored(registry) : \E i \in DOMAIN backups : g \in backups[i].content
      /\ \A t \in Managed(registry) \ call.todo : dirs[t[2]] # t[1] \/ t[2] \in call.touched
  BY <1>1, UninstallState
<1>3. CASE Ends(TRUE)
  BY <1>1, <1>3, UninstallStops
<1> DEFINE new == [call EXCEPT !.todo = @ \ {<<h, a>>}, !.at = a, !.touched = @ \ {a}, !.stage = "write"]
<1>4. CASE Removable(h, a) /\ call' = new
  <2>1. /\ new \in UninstallCall /\ new.mem = call.mem /\ new.touched = call.touched \ {a}
        /\ new.stage = "write" /\ new.todo = call.todo \ {<<h, a>>} /\ new.at = a
    BY <1>2 DEF UninstallCall
  <2> HIDE DEF new
  <2>2. h \in Stored(registry) /\ \A t \in Managed(registry) : t[2] = a => t = <<h, a>>
    <3>1. <<h, a>> \in Managed(registry) /\ <<h, a>>[1] = h /\ <<h, a>>[2] = a
      BY <1>1, <1>2
    <3> QED
      BY <1>2, <3>1 DEF Sound
  <2>3. dirs[a] = Nothing \/ dirs[a] \in Stored(registry)
    BY <1>4, <2>2 DEF Removable
  <2>4. \A t \in Managed(registry) \ new.todo : dirs[t[2]] # t[1] \/ t[2] \in new.touched \/ new.at = t[2]
    BY <1>2, <2>1, <2>2
  <2>5. UninstallSound'
    BY <1>1, <1>2, <1>4, <2>1, <2>3, <2>4 DEF UninstallSound
  <2>6. StateSound'
    BY <1>1, Untouched
  <2> QED
    BY <1>1, <1>4, <2>1, <2>5, <2>6, UninstallMoves
<1> QED
  BY <1>3, <1>4 DEF UninstallTarget

LEMMA UninstallWriteKeeps ==
  ASSUME SkillInv, UninstallWrite
  PROVE  SkillInv'
<1> DEFINE a == call.at
           new == [call EXCEPT !.stage = "targets", !.at = Nothing]
<1>1. /\ At("uninstall", "write") /\ dirs' = [dirs EXCEPT ![a] = Nothing] /\ loose' = loose \cup {a}
      /\ call' = new
      /\ UNCHANGED <<registry, library, backups, eligible, preview, source, torn, raced>>
  BY DEF UninstallWrite, Quiet, world
<1>2. /\ call \in UninstallCall /\ call.mem = registry /\ call.todo \subseteq Managed(registry)
      /\ call.op = "uninstall" /\ Sound(registry) /\ a \in Agents /\ call.touched \subseteq loose
      /\ ~torn /\ ~raced => Stored(registry) \subseteq library
      /\ \A g \in Stored(registry) : \E i \in DOMAIN backups : g \in backups[i].content
      /\ \A t \in Managed(registry) \ call.todo : dirs[t[2]] # t[1] \/ t[2] \in call.touched \/ a = t[2]
      /\ \A t \in Managed(registry) : dirs[t[2]] = t[1] \/ t[2] \in loose
  BY <1>1, UninstallState
<1>3. /\ new \in UninstallCall /\ new.mem = call.mem /\ new.touched = call.touched /\ new.stage = "targets"
      /\ new.todo = call.todo /\ new.op = "uninstall"
  BY <1>2 DEF UninstallCall
<1> HIDE DEF new
<1>4. /\ dirs' \in [Agents -> Tree] /\ dirs'[a] = Nothing /\ \A b \in Agents : b # a => dirs'[b] = dirs[b]
  BY <1>1, <1>2 DEF SkillInv, StateSound, SkillTypeOK, Tree
<1>5. \A t \in Managed(registry) : t[2] \in Agents /\ t[1] \in Hashes /\ t[1] # Nothing
  BY FactParts, NothingAssumption DEF SkillInv, StateSound, SkillTypeOK
<1>6. StateSound'
  BY <1>1, <1>2, <1>4, StateNext DEF SkillInv, StateSound, SkillTypeOK
<1>7. StoredIsThere' /\ ManagedIsThere'
  BY <1>1, <1>2, <1>4, <1>5 DEF SkillInv, StoredIsThere, ManagedIsThere
<1>8. Unsure' = loose'
  BY <1>1, <1>3 DEF Unsure
<1>9. \A t \in Managed(registry) : dirs'[t[2]] = t[1] \/ t[2] \in loose'
  BY <1>1, <1>2, <1>4, <1>5
<1>10. MemSound'
  BY <1>1, <1>2, <1>3, <1>8, <1>9 DEF MemSound
<1>11. \A t \in Managed(registry) \ call.todo : dirs'[t[2]] # t[1] \/ t[2] \in call.touched
  BY <1>2, <1>4, <1>5
<1>12. UninstallSound'
  BY <1>1, <1>2, <1>3, <1>11 DEF UninstallSound
<1> QED
  BY <1>1, <1>3, <1>6, <1>7, <1>10, <1>12, GoesOn

LEMMA UninstallRemoveKeeps ==
  ASSUME SkillInv, UninstallRemove
  PROVE  SkillInv'
<1>1. /\ At("uninstall", "targets") /\ call.todo = {}
      /\ UNCHANGED <<registry, dirs, backups, eligible, preview, source, loose, raced>>
  BY DEF UninstallRemove, Quiet, world
<1>2. /\ call \in UninstallCall /\ call.touched \subseteq loose
      /\ \A g \in Stored(registry) : \E i \in DOMAIN backups : g \in backups[i].content
      /\ \A t \in Managed(registry) \ call.todo : dirs[t[2]] # t[1] \/ t[2] \in call.touched
  BY <1>1, UninstallState
<1> DEFINE gone == [call EXCEPT !.mem = Unknown, !.stage = "removed"]
<1>3. CASE library' = {} /\ torn' = TRUE /\ call' = gone
  <2>1. /\ gone \in UninstallCall /\ gone.mem = Unknown /\ gone.stage = "removed"
        /\ gone.touched = call.touched /\ gone.todo = call.todo
    BY <1>2, UnknownFacts DEF UninstallCall
  <2> HIDE DEF gone
  <2>2. StateSound'
    BY <1>1, <1>3, StateNext DEF SkillInv, StateSound, SkillTypeOK
  <2>3. StoredIsThere' /\ ManagedIsThere'
    BY <1>1, <1>3 DEF SkillInv, StoredIsThere, ManagedIsThere
  <2>4. MemSound'
    BY <1>1, <1>2, <1>3, <2>1, UnknownFacts DEF MemSound
  <2>5. UninstallSound'
    BY <1>1, <1>2, <1>3, <2>1 DEF UninstallSound
  <2> QED
    BY <1>3, <2>1, <2>2, <2>3, <2>4, <2>5, GoesOn
<1>4. CASE Ends(TRUE) /\ UNCHANGED <<library, torn>>
  BY <1>1, <1>4, UninstallStops
<1> QED
  BY <1>3, <1>4 DEF UninstallRemove

LEMMA UninstallSaveKeeps ==
  ASSUME SkillInv, UninstallSave
  PROVE  SkillInv'
<1>1. /\ At("uninstall", "removed")
      /\ UNCHANGED <<library, dirs, backups, eligible, preview, source, loose, raced>>
  BY DEF UninstallSave, Quiet, world
<1>2. call.mem = Unknown /\ call.op = "uninstall"
  BY <1>1, UninstallState
<1>3. CASE Saves /\ Ends(FALSE)
  <2>1. registry' = Unknown /\ torn' = FALSE /\ call' = Idle
    BY <1>2, <1>3 DEF Saves, Ends
  <2>2. StateSound'
    BY <1>1, <2>1, UnknownFacts, StateNext DEF SkillInv, StateSound, SkillTypeOK
  <2>3. StoredIsThere' /\ ManagedIsThere'
    BY <2>1, UnknownFacts DEF StoredIsThere, ManagedIsThere
  <2> QED
    BY <2>1, <2>2, <2>3, GoesIdle
<1>4. CASE SaveFails /\ Ends(TRUE)
  BY <1>1, <1>4, UninstallStops DEF SaveFails
<1> QED
  BY <1>3, <1>4 DEF UninstallSave
-----------------------------------------------------------------------------
(* Restores. *)

LEMMA GoesDone ==
  ASSUME StateSound', StoredIsThere', ManagedIsThere', RestoreBringsBack', call' \in DoneCall
  PROVE  SkillInv'
<1>1. call'.op = "done"
  BY OneKind
<1>2. call' \notin ScanCall /\ call' \notin ApplyCall /\ call' \notin UninstallCall /\ call' \notin RestoreCall
  BY <1>1, OneKind
<1> QED
  BY <1>2 DEF SkillInv, CallShape, Active, MemSound, ScanSound, ApplySound, UninstallSound, RestoreSound

\* Restoring: the fields, and what they say of each other.
LEMMA RestoreState ==
  ASSUME SkillInv, NEW stage, At("restore", stage)
  PROVE  /\ call \in RestoreCall /\ Active /\ call.op = "restore" /\ call.stage = stage
         /\ Sound(call.mem) /\ call.mem \in Fact /\ call.touched \subseteq loose
         /\ call.failed \in BOOLEAN /\ call.targets \in SUBSET Agents /\ call.backup \in Archive
         /\ ~torn /\ ~raced => Stored(call.mem) \subseteq library
         /\ stage # "published" => \A t \in Managed(call.mem) :
              dirs[t[2]] = t[1] \/ t[2] \in (IF stage = "written" THEN loose \ ({call.at} \ call.touched) ELSE loose)
         /\ SoundBackup(call.backup) /\ \E h \in Hashes : call.backup.content = {h}
         /\ call.todo \subseteq call.targets
         /\ stage \in {"publish", "published"} => call.todo = call.targets /\ ~call.failed
         /\ stage # "publish" => library = call.backup.content /\ Stored(call.mem) = call.backup.content
         /\ stage = "written" => call.at \in Agents
         /\ ~call.failed /\ stage = "targets" => call.mem = registry
         /\ ~call.failed => \A a \in call.targets \ call.todo : \A h \in call.backup.content :
              <<h, a>> \in Managed(call.mem)
<1>1. call \in RestoreCall /\ call.op = "restore" /\ call.stage = stage
  BY Kind DEF At, SkillInv
<1>2. Active /\ Unsure = IF stage = "written" THEN loose \ ({call.at} \ call.touched) ELSE loose
  BY <1>1 DEF Active, Unsure
<1>3. /\ call.failed \in BOOLEAN /\ call.targets \in SUBSET Agents /\ call.backup \in Archive
      /\ call.mem \in Fact
  BY <1>1 DEF RestoreCall
<1>4. /\ Sound(call.mem) /\ call.touched \subseteq loose
      /\ ~torn /\ ~raced => Stored(call.mem) \subseteq library
      /\ stage # "published" => \A t \in Managed(call.mem) : dirs[t[2]] = t[1] \/ t[2] \in Unsure
  BY <1>1, <1>2 DEF SkillInv, MemSound
<1> QED
  BY <1>1, <1>2, <1>3, <1>4 DEF SkillInv, RestoreSound

\* An error before the first target ends the restore as a failure.
LEMMA RestoreStops ==
  ASSUME SkillInv, NEW stage, At("restore", stage), Ends(TRUE),
         UNCHANGED <<registry, library, dirs, backups, eligible, preview, source, loose, torn, raced>>
  PROVE  SkillInv'
<1>1. call \in RestoreCall /\ call.op = "restore" /\ call.failed \in BOOLEAN
  BY RestoreState
<1>2. call' \in DoneCall /\ call'.failed
  BY <1>1 DEF Ends, DoneCall, RestoreCall
<1>3. RestoreBringsBack'
  BY <1>2 DEF RestoreBringsBack
<1> QED
  BY <1>2, <1>3, Untouched, GoesDone

LEMMA RestoreStarts ==
  ASSUME SkillInv, NEW i \in DOMAIN backups, NEW targets \in SUBSET Agents, Restore(backups[i], targets)
  PROVE  SkillInv'
<1> DEFINE b == backups[i]
           new == [op |-> "restore", stage |-> "publish", backup |-> b, targets |-> targets,
                   todo |-> targets, mem |-> registry, failed |-> FALSE, at |-> Nothing, touched |-> {}]
<1>1. Begins(new) /\ UNCHANGED <<preview, source>> /\ Restorable(b)
  BY DEF Restore
<1>2. /\ new.mem = registry /\ new.touched = {} /\ new.stage = "publish" /\ new.op = "restore"
      /\ new.todo = targets /\ new.targets = targets /\ ~new.failed /\ new.backup = b
  OBVIOUS
<1>3. SoundBackup(b) /\ b \in Archive /\ registry \in Fact
  BY DEF SkillInv, StateSound, SkillTypeOK, SoundBackup
<1>4. \E h \in Hashes : b.content = {h}
  BY <1>1 DEF Restorable
<1> HIDE DEF b
<1>5. new \in RestoreCall
  BY <1>3 DEF RestoreCall
<1> HIDE DEF new
<1>6. /\ StateSound' /\ StoredIsThere' /\ ManagedIsThere' /\ MemSound' /\ call' = new
  BY <1>1, <1>2, Starts
<1>7. RestoreSound'
  BY <1>2, <1>3, <1>4, <1>6 DEF RestoreSound
<1> QED
  BY <1>5, <1>6, <1>7, GoesOn

\* The library is the backup again; the registry does not know yet.
LEMMA RestoreLibraryKeeps ==
  ASSUME SkillInv, RestoreLibrary
  PROVE  SkillInv'
<1>1. /\ At("restore", "publish")
      /\ UNCHANGED <<registry, dirs, backups, eligible, preview, source, loose, raced>>
  BY DEF RestoreLibrary, Quiet, world
<1>2. /\ call \in RestoreCall /\ call.touched \subseteq loose /\ SoundBackup(call.backup)
      /\ \E h \in Hashes : call.backup.content = {h}
      /\ call.todo = call.targets /\ ~call.failed
  BY <1>1, RestoreState
<1>3. /\ call.backup.content \subseteq Hashes /\ call.backup.fact \in Fact /\ Sound(call.backup.fact)
      /\ call.backup.content = Stored(call.backup.fact)
  BY <1>2 DEF SoundBackup, Archive
<1> DEFINE new == [call EXCEPT !.mem = call.backup.fact, !.stage = "published"]
<1>4. CASE library' = call.backup.content /\ torn' = TRUE /\ call' = new
  <2>1. /\ new \in RestoreCall /\ new.mem = call.backup.fact /\ new.stage = "published"
        /\ new.touched = call.touched /\ new.todo = call.todo /\ new.targets = call.targets
        /\ new.backup = call.backup /\ new.failed = call.failed
    BY <1>2, <1>3 DEF RestoreCall
  <2> HIDE DEF new
  <2>2. StateSound'
    BY <1>1, <1>3, <1>4, StateNext DEF SkillInv, StateSound, SkillTypeOK
  <2>3. StoredIsThere' /\ ManagedIsThere'
    BY <1>1, <1>4 DEF SkillInv, StoredIsThere, ManagedIsThere
  <2>4. MemSound'
    BY <1>1, <1>2, <1>3, <1>4, <2>1 DEF MemSound
  <2>5. RestoreSound'
    BY <1>2, <1>3, <1>4, <2>1 DEF RestoreSound
  <2> QED
    BY <1>4, <2>1, <2>2, <2>3, <2>4, <2>5, GoesOn
<1>5. CASE Ends(TRUE) /\ UNCHANGED <<library, torn>>
  BY <1>1, <1>5, RestoreStops
<1> QED
  BY <1>4, <1>5 DEF RestoreLibrary

LEMMA RestoreSaveKeeps ==
  ASSUME SkillInv, RestoreSave
  PROVE  SkillInv'
<1>1. /\ At("restore", "published")
      /\ UNCHANGED <<library, dirs, backups, eligible, preview, source, raced>>
  BY DEF RestoreSave, Quiet, world
<1>2. /\ call \in RestoreCall /\ call.touched \subseteq loose /\ SoundBackup(call.backup)
      /\ \E h \in Hashes : call.backup.content = {h}
      /\ call.todo = call.targets /\ ~call.failed /\ Sound(call.mem) /\ call.mem \in Fact
      /\ library = call.backup.content /\ Stored(call.mem) = call.backup.content
  BY <1>1, RestoreState
<1> DEFINE listed == {t[2] : t \in Managed(call.mem)}
           new == [call EXCEPT !.stage = "targets"]
<1>3. CASE Saves /\ call' = new /\ loose' = loose \cup listed
  <2>1. /\ new \in RestoreCall /\ new.mem = call.mem /\ new.stage = "targets" /\ new.op = "restore"
        /\ new.touched = call.touched /\ new.todo = call.todo /\ new.targets = call.targets
        /\ new.backup = call.backup /\ new.failed = call.failed
    BY <1>2 DEF RestoreCall
  <2> HIDE DEF new
  <2>2. listed \subseteq Agents /\ \A t \in Managed(call.mem) : t[2] \in listed
    BY <1>2, FactParts
  <2> HIDE DEF listed
  <2>3. registry' = call.mem /\ torn' = FALSE
    BY <1>3 DEF Saves
  <2>4. StateSound'
    BY <1>1, <1>2, <1>3, <2>2, <2>3, StateNext DEF SkillInv, StateSound, SkillTypeOK
  <2>5. StoredIsThere' /\ ManagedIsThere'
    BY <1>1, <1>2, <1>3, <2>2, <2>3 DEF StoredIsThere, ManagedIsThere
  <2>6. Unsure' = loose'
    BY <1>3, <2>1 DEF Unsure
  <2>7. MemSound'
    BY <1>1, <1>2, <1>3, <2>1, <2>2, <2>6 DEF MemSound
  <2>8. RestoreSound'
    BY <1>1, <1>2, <1>3, <2>1, <2>3 DEF RestoreSound
  <2> QED
    BY <1>3, <2>1, <2>4, <2>5, <2>7, <2>8, GoesOn
<1>4. CASE SaveFails /\ Ends(TRUE) /\ loose' = loose
  BY <1>1, <1>4, RestoreStops DEF SaveFails
<1> QED
  BY <1>3, <1>4 DEF RestoreSave

\* A step that only moves the restore on.
LEMMA RestoreMoves ==
  ASSUME SkillInv, NEW stage, At("restore", stage), stage # "published", call' \in RestoreCall,
         call'.mem = call.mem, call'.touched \subseteq call.touched, call'.stage # "written", RestoreSound',
         UNCHANGED <<registry, library, dirs, backups, eligible, preview, source, loose, torn, raced>>
  PROVE  SkillInv'
<1>1. StateSound' /\ StoredIsThere' /\ ManagedIsThere'
  BY Untouched
<1>2. call.stage # "published" /\ Active /\ call'.op # "scan"
  BY RestoreState DEF RestoreCall
<1>3. MemSound'
  BY <1>2, MemStays
<1> QED
  BY <1>1, <1>3, GoesOn

LEMMA RestoreTargetKeeps ==
  ASSUME SkillInv, NEW a \in Agents, RestoreTarget(a)
  PROVE  SkillInv'
<1>1. /\ At("restore", "targets") /\ a \in call.todo
      /\ UNCHANGED <<registry, library, torn, backups, eligible, preview, source, raced>>
  BY DEF RestoreTarget, Quiet, world
<1>2. /\ call \in RestoreCall /\ Sound(call.mem) /\ call.mem \in Fact /\ call.touched \subseteq loose
      /\ ~torn /\ ~raced => Stored(call.mem) \subseteq library
      /\ \A t \in Managed(call.mem) : dirs[t[2]] = t[1] \/ t[2] \in loose
      /\ SoundBackup(call.backup) /\ \E g \in Hashes : call.backup.content = {g}
      /\ call.todo \subseteq call.targets
      /\ library = call.backup.content /\ Stored(call.mem) = call.backup.content
      /\ ~call.failed => call.mem = registry
      /\ ~call.failed => \A b \in call.targets \ call.todo : \A g \in call.backup.content :
           <<g, b>> \in Managed(call.mem)
  BY <1>1, RestoreState
<1> DEFINE h == Restored
           mem == Copied(call.mem, a, h)
           new1 == [call EXCEPT !.todo = @ \ {a}, !.mem = mem, !.at = a, !.touched = @ \ {a}, !.stage = "written"]
           new2 == [call EXCEPT !.todo = @ \ {a}, !.failed = TRUE]
<1>3. h \in Hashes /\ call.backup.content = {h}
  BY <1>2 DEF Restored
<1>4. CASE /\ dirs' = [dirs EXCEPT ![a] = h] /\ loose' = loose \cup {a} /\ call' = new1
  <2>1. h \in Stored(call.mem)
    BY <1>2, <1>3
  <2>2. /\ Moves(call.mem, mem, a, h) /\ <<h, a>> \in Managed(mem)
        /\ \A b \in Agents : <<h, b>> \in Managed(call.mem) => <<h, b>> \in Managed(mem)
    <3> HIDE DEF h
    <3> QED
      BY <1>2, <2>1, CopiedMoves
  <2> HIDE DEF mem
  <2>3. /\ Sound(mem) /\ mem \in Fact /\ Stored(mem) = Stored(call.mem)
        /\ \A t \in Managed(mem) : (t \in Managed(call.mem) /\ t[2] # a) \/ (t[1] = h /\ t[2] = a)
    BY <2>2 DEF Moves, Sound
  <2> HIDE DEF h
  <2>4. /\ new1 \in RestoreCall /\ new1.mem = mem /\ new1.stage = "written" /\ new1.op = "restore"
        /\ new1.touched = call.touched \ {a} /\ new1.todo = call.todo \ {a} /\ new1.targets = call.targets
        /\ new1.backup = call.backup /\ new1.failed = call.failed /\ new1.at = a
    BY <1>2, <2>3 DEF RestoreCall
  <2> HIDE DEF new1
  <2>5. /\ dirs' \in [Agents -> Tree] /\ dirs'[a] = h /\ \A b \in Agents : b # a => dirs'[b] = dirs[b]
    BY <1>3, <1>4 DEF SkillInv, StateSound, SkillTypeOK, Tree
  <2>6. \A t \in Managed(registry) \cup Managed(call.mem) : t[2] \in Agents
    BY FactParts, <1>2 DEF SkillInv, StateSound, SkillTypeOK
  <2>7. StateSound'
    BY <1>1, <1>4, <2>5, StateNext DEF SkillInv, StateSound, SkillTypeOK
  <2>8. StoredIsThere' /\ ManagedIsThere'
    BY <1>1, <1>4, <2>5, <2>6 DEF SkillInv, StoredIsThere, ManagedIsThere
  <2>9. Unsure' = loose' \ ({a} \ (call.touched \ {a}))
    BY <1>4, <2>4 DEF Unsure
  <2>10. \A t \in Managed(mem) : dirs'[t[2]] = t[1] \/ t[2] \in Unsure'
    BY <1>2, <1>4, <2>3, <2>5, <2>6, <2>9
  <2>11. MemSound'
    BY <1>1, <1>2, <1>4, <2>3, <2>4, <2>10 DEF MemSound
  <2>12. ASSUME ~call.failed, NEW b \in call.targets \ (call.todo \ {a})
         PROVE  <<h, b>> \in Managed(mem)
    <3>1. b \in Agents
      BY <1>2 DEF RestoreCall
    <3> QED
      BY <1>2, <1>3, <2>2, <2>12, <3>1
  <2>13. RestoreSound'
    BY <1>1, <1>2, <1>3, <1>4, <2>3, <2>4, <2>12 DEF RestoreSound
  <2> QED
    BY <1>4, <2>4, <2>7, <2>8, <2>11, <2>13, GoesOn
<1>5. CASE call' = new2 /\ UNCHANGED <<dirs, loose>>
  <2>1. /\ new2 \in RestoreCall /\ new2.mem = call.mem /\ new2.stage = "targets"
        /\ new2.touched = call.touched /\ new2.todo = call.todo \ {a} /\ new2.targets = call.targets
        /\ new2.backup = call.backup /\ new2.failed
    BY <1>1, <1>2 DEF RestoreCall, At
  <2> HIDE DEF new2
  <2>2. RestoreSound'
    BY <1>1, <1>2, <1>5, <2>1 DEF RestoreSound
  <2> QED
    BY <1>1, <1>5, <2>1, <2>2, RestoreMoves
<1> QED
  BY <1>4, <1>5 DEF RestoreTarget, Published

LEMMA RestoreTargetSaveKeeps ==
  ASSUME SkillInv, RestoreTargetSave
  PROVE  SkillInv'
<1>1. /\ At("restore", "written")
      /\ UNCHANGED <<library, dirs, torn, backups, eligible, preview, source, raced>>
  BY DEF RestoreTargetSave, Quiet, world
<1>2. /\ call \in RestoreCall /\ Sound(call.mem) /\ call.touched \subseteq loose
      /\ ~torn /\ ~raced => Stored(call.mem) \subseteq library
      /\ \A t \in Managed(call.mem) : dirs[t[2]] = t[1] \/ t[2] \in loose \ ({call.at} \ call.touched)
      /\ SoundBackup(call.backup) /\ \E g \in Hashes : call.backup.content = {g}
      /\ call.todo \subseteq call.targets
      /\ library = call.backup.content /\ Stored(call.mem) = call.backup.content
      /\ ~call.failed => \A b \in call.targets \ call.todo : \A g \in call.backup.content :
           <<g, b>> \in Managed(call.mem)
  BY <1>1, RestoreState
<1> DEFINE new1 == [call EXCEPT !.stage = "targets", !.at = Nothing]
           new2 == [call EXCEPT !.stage = "targets", !.at = Nothing, !.failed = TRUE]
<1>3. CASE registry' = call.mem /\ call' = new1 /\ loose' = loose \ ({call.at} \ call.touched)
  <2>1. /\ new1 \in RestoreCall /\ new1.mem = call.mem /\ new1.stage = "targets" /\ new1.op = "restore"
        /\ new1.touched = call.touched /\ new1.todo = call.todo /\ new1.targets = call.targets
        /\ new1.backup = call.backup /\ new1.failed = call.failed
    BY <1>2 DEF RestoreCall
  <2> HIDE DEF new1
  <2>2. StateSound'
    BY <1>1, <1>2, <1>3, StateNext DEF SkillInv, StateSound, SkillTypeOK
  <2>3. StoredIsThere' /\ ManagedIsThere'
    BY <1>1, <1>2, <1>3 DEF StoredIsThere, ManagedIsThere
  <2>4. Unsure' = loose'
    BY <1>3, <2>1 DEF Unsure
  <2>5. MemSound'
    BY <1>1, <1>2, <1>3, <2>1, <2>4 DEF MemSound
  <2>6. RestoreSound'
    BY <1>1, <1>2, <1>3, <2>1 DEF RestoreSound
  <2> QED
    BY <1>3, <2>1, <2>2, <2>3, <2>5, <2>6, GoesOn
<1>4. CASE registry' = registry /\ loose' = loose /\ call' = new2
  <2>1. /\ new2 \in RestoreCall /\ new2.mem = call.mem /\ new2.stage = "targets"
        /\ new2.touched = call.touched /\ new2.todo = call.todo /\ new2.targets = call.targets
        /\ new2.backup = call.backup /\ new2.failed
    BY <1>2 DEF RestoreCall
  <2> HIDE DEF new2
  <2>2. RestoreSound'
    BY <1>1, <1>2, <1>4, <2>1 DEF RestoreSound
  <2> QED
    BY <1>1, <1>4, <2>1, <2>2, RestoreMoves
<1> QED
  BY <1>3, <1>4 DEF RestoreTargetSave

LEMMA RestoreEndKeeps ==
  ASSUME SkillInv, RestoreEnd
  PROVE  SkillInv'
<1>1. /\ At("restore", "targets") /\ call.todo = {} /\ Ends(FALSE)
      /\ UNCHANGED <<registry, library, dirs, backups, eligible, preview, source, loose, torn, raced>>
  BY DEF RestoreEnd, Quiet, world
<1>2. /\ call \in RestoreCall /\ call.op = "restore" /\ call.failed \in BOOLEAN
      /\ call.targets \in SUBSET Agents /\ call.backup \in Archive
      /\ \A t \in Managed(call.mem) : dirs[t[2]] = t[1] \/ t[2] \in loose
      /\ library = call.backup.content /\ Stored(call.mem) = call.backup.content
      /\ ~call.failed => call.mem = registry
      /\ ~call.failed => \A b \in call.targets \ call.todo : \A g \in call.backup.content :
           <<g, b>> \in Managed(call.mem)
  BY <1>1, RestoreState
<1> DEFINE new == [op |-> "done", targets |-> call.targets, backup |-> call.backup, failed |-> call.failed]
<1>3. call' = new
  BY <1>1, <1>2 DEF Ends
<1>4. new \in DoneCall /\ new.targets = call.targets /\ new.backup = call.backup /\ new.failed = call.failed
  BY <1>2 DEF DoneCall
<1> HIDE DEF new
<1>5. \A b \in Agents, g \in Hashes : <<g, b>>[1] = g /\ <<g, b>>[2] = b
  OBVIOUS
<1>6. call.backup.content \subseteq Hashes
  BY <1>2 DEF Archive
<1>7. RestoreBringsBack'
  BY <1>1, <1>2, <1>3, <1>4, <1>5, <1>6 DEF RestoreBringsBack
<1> QED
  BY <1>1, <1>3, <1>4, <1>7, Untouched, GoesDone
-----------------------------------------------------------------------------
(* The rest of the world, and the theorem. *)

\* Previews, the Agents that are installed, and steps that change nothing at all.
LEMMA CallStays ==
  ASSUME SkillInv, UNCHANGED <<registry, library, dirs, backups, call, loose, torn, raced>>,
         eligible' \subseteq Agents, preview' \in Previews \cup {Nothing}, source' \in Tree
  PROVE  SkillInv'
<1>1. StateSound'
  BY StateNext DEF SkillInv, StateSound, SkillTypeOK
<1>2. Unsure' = Unsure
  BY DEF Unsure
<1>3. MemSound'
  BY <1>2 DEF SkillInv, MemSound, Active
<1> QED
  BY <1>1, <1>3 DEF SkillInv, CallShape, Active, StoredIsThere, ManagedIsThere, RestoreBringsBack, ScanSound,
                    ApplySound, UninstallSound, RestoreSound

LEMMA WorldKeeps ==
  ASSUME SkillInv,
         \/ \E h \in Hashes, kind \in {"folder", "zip"} : Preview(h, kind)
         \/ Expire
         \/ \E a \in Agents : ComeOrGo(a)
         \/ \E t \in Tree : EditSource(t)
         \/ UNCHANGED skillVars
  PROVE  SkillInv'
<1>1. preview \in Previews \cup {Nothing} /\ source \in Tree /\ eligible \subseteq Agents
  BY DEF SkillInv, StateSound, SkillTypeOK
<1>2. ASSUME NEW h \in Hashes, NEW kind \in {"folder", "zip"}, Preview(h, kind)
      PROVE  SkillInv'
  <2>1. preview' \in Previews \cup {Nothing} /\ source' \in Tree
    BY <1>2 DEF Preview, Previews, Tree
  <2> QED
    BY <1>1, <1>2, <2>1, CallStays DEF Preview
<1>3. CASE Expire
  <2>1. preview' \in Previews \cup {Nothing} /\ source' \in Tree
    BY <1>1, <1>3 DEF Expire, Cleaned, Tree
  <2> QED
    BY <1>1, <1>3, <2>1, CallStays DEF Expire
<1>4. ASSUME NEW a \in Agents, ComeOrGo(a)
      PROVE  SkillInv'
  BY <1>1, <1>4, CallStays DEF ComeOrGo
<1>5. ASSUME NEW t \in Tree, EditSource(t)
      PROVE  SkillInv'
  BY <1>1, <1>5, CallStays DEF EditSource
<1>6. CASE UNCHANGED skillVars
  BY <1>1, <1>6, CallStays DEF skillVars
<1> QED
  BY <1>2, <1>3, <1>4, <1>5, <1>6

\* The call under way is told which directory was edited.
LEMMA EditDirKeeps ==
  ASSUME SkillInv, NEW a \in Agents, NEW t \in Tree, EditDir(a, t)
  PROVE  SkillInv'
<1>1. /\ dirs' = [dirs EXCEPT ![a] = t] /\ loose' = loose \cup {a}
      /\ UNCHANGED <<registry, library, backups, eligible, preview, source, torn, raced>>
  BY DEF EditDir
<1>2. /\ dirs' \in [Agents -> Tree] /\ \A b \in Agents : b # a => dirs'[b] = dirs[b]
  BY <1>1 DEF SkillInv, StateSound, SkillTypeOK
<1>3. ASSUME NEW f \in Fact, NEW u \in Managed(f)
      PROVE  u[2] \in Agents
  BY FactParts
<1>4. StateSound'
  BY <1>1, <1>2, StateNext DEF SkillInv, StateSound, SkillTypeOK
<1>5. StoredIsThere' /\ ManagedIsThere'
  <2>1. registry \in Fact
    BY DEF SkillInv, StateSound, SkillTypeOK
  <2> QED
    BY <1>1, <1>2, <1>3, <2>1 DEF SkillInv, StoredIsThere, ManagedIsThere
<1>6. CASE call = Idle
  <2>1. call' = Idle
    BY <1>6, OneKind DEF EditDir
  <2> QED
    BY <1>4, <1>5, <2>1, GoesIdle
<1>7. CASE call \in DoneCall
  <2>1. call' = call /\ call.op = "done"
    BY <1>7, OneKind DEF EditDir
  <2>2. RestoreBringsBack'
    BY <1>1, <1>2, <1>7, <2>1 DEF SkillInv, RestoreBringsBack, DoneCall
  <2> QED
    BY <1>4, <1>5, <1>7, <2>1, <2>2, GoesDone
<1>8. CASE Active
  <2> DEFINE new == [call EXCEPT !.touched = @ \cup {a}]
  <2>1. call.op \in {"scan", "apply", "uninstall", "restore"}
    BY <1>8, OneKind DEF Active
  <2>2. call' = new
    BY <2>1 DEF EditDir
  <2>3. new.mem = call.mem /\ new.touched = call.touched \cup {a} /\ new.op = call.op /\ new.stage = call.stage
        /\ new.todo = call.todo /\ new.at = call.at /\ new.failed = call.failed
    BY <1>8 DEF Active, ScanCall, ApplyCall, UninstallCall, RestoreCall
  <2>4. /\ call \in ScanCall => new \in ScanCall /\ new.read = call.read
        /\ call \in ApplyCall => new \in ApplyCall /\ new.change = call.change /\ new.refused = call.refused
        /\ call \in UninstallCall => new \in UninstallCall
        /\ call \in RestoreCall => new \in RestoreCall /\ new.targets = call.targets /\ new.backup = call.backup
    <3>1. call \in ScanCall => new \in ScanCall /\ new.read = call.read
      BY DEF ScanCall
    <3>2. call \in ApplyCall => new \in ApplyCall /\ new.change = call.change /\ new.refused = call.refused
      BY DEF ApplyCall
    <3>3. call \in UninstallCall => new \in UninstallCall
      BY DEF UninstallCall
    <3>4. call \in RestoreCall => new \in RestoreCall /\ new.targets = call.targets /\ new.backup = call.backup
      BY DEF RestoreCall
    <3> QED
      BY <3>1, <3>2, <3>3, <3>4
  <2>5. call.mem \in Fact
    BY <1>8 DEF Active, ScanCall, ApplyCall, UninstallCall, RestoreCall
  <2> HIDE DEF new
  <2>6. Unsure \cup {a} \subseteq Unsure'
    <3>1. CASE call.op = "scan"
      <4>1. call \in ScanCall
        BY <3>1, Kind DEF SkillInv
      <4> QED
        BY <1>1, <2>2, <2>3, <2>4, <3>1, <4>1 DEF Unsure
    <3>2. CASE call.op # "scan"
      BY <1>1, <2>2, <2>3, <3>2 DEF Unsure
    <3> QED
      BY <3>1, <3>2
  <2>7. MemSound'
    <3>1. /\ Sound(call.mem) /\ call.touched \subseteq loose
          /\ ~torn /\ ~raced => Stored(call.mem) \subseteq library
          /\ call.stage # "published" => \A u \in Managed(call.mem) : dirs[u[2]] = u[1] \/ u[2] \in Unsure
      BY <1>8 DEF SkillInv, MemSound
    <3>2. call.stage # "published" => \A u \in Managed(call.mem) : dirs'[u[2]] = u[1] \/ u[2] \in Unsure'
      BY <1>2, <1>3, <2>5, <2>6, <3>1
    <3> QED
      BY <1>1, <2>2, <2>3, <3>1, <3>2 DEF MemSound
  <2>8. CASE call \in ScanCall
    <3>1. ScanSound'
      BY <1>1, <2>2, <2>3, <2>8 DEF SkillInv, ScanSound
    <3> QED
      BY <1>4, <1>5, <2>2, <2>4, <2>7, <2>8, <3>1, GoesOn
  <2>9. CASE call \in ApplyCall
    <3>1. ApplySound'
      BY <1>1, <2>2, <2>3, <2>4, <2>9 DEF SkillInv, ApplySound
    <3> QED
      BY <1>4, <1>5, <2>2, <2>4, <2>7, <2>9, <3>1, GoesOn
  <2>10. CASE call \in UninstallCall
    <3>1. UninstallSound
      BY DEF SkillInv
    <3>2. registry \in Fact
      BY DEF SkillInv, StateSound, SkillTypeOK
    <3>3. call.stage # "backup" => \A u \in Managed(registry) \ call.todo :
            dirs'[u[2]] # u[1] \/ u[2] \in new.touched \/ (call.stage = "write" /\ call.at = u[2])
      BY <1>2, <1>3, <2>3, <2>10, <3>1, <3>2 DEF UninstallSound
    <3>4. call.stage = "write" => call.at \in Agents /\
            (call.at \in new.touched \/ dirs'[call.at] = Nothing \/ dirs'[call.at] \in Stored(registry))
      BY <1>2, <2>3, <2>10, <3>1 DEF UninstallSound
    <3>5. UninstallSound'
      BY <1>1, <2>2, <2>3, <2>10, <3>1, <3>3, <3>4 DEF UninstallSound
    <3> QED
      BY <1>4, <1>5, <2>2, <2>4, <2>7, <2>10, <3>5, GoesOn
  <2>11. CASE call \in RestoreCall
    <3>1. RestoreSound'
      BY <1>1, <2>2, <2>3, <2>4, <2>11 DEF SkillInv, RestoreSound
    <3> QED
      BY <1>4, <1>5, <2>2, <2>4, <2>7, <2>11, <3>1, GoesOn
  <2> QED
    BY <1>8, <2>8, <2>9, <2>10, <2>11 DEF Active
<1> QED
  BY <1>6, <1>7, <1>8 DEF SkillInv, CallShape

\* A crash, or a caller that has its answer, leaves what is on disk.
LEMMA CallGoes ==
  ASSUME SkillInv, ProcessDies \/ RestoreReturns
  PROVE  SkillInv'
<1>1. /\ call' = Idle /\ UNCHANGED <<registry, library, dirs, backups, eligible, loose, torn, raced>>
      /\ preview' \in {preview, Nothing} /\ source' \in {source, Nothing}
  BY DEF ProcessDies, RestoreReturns, Quiet, world
<1>2. StateSound'
  BY <1>1, StateNext DEF SkillInv, StateSound, SkillTypeOK, Tree
<1> QED
  BY <1>1, <1>2, Untouched, GoesIdle

LEMMA SkillStep ==
  ASSUME SkillInv, [SkillNext]_skillVars
  PROVE  SkillInv'
<1>1. CASE Scan \/ ScanStore \/ ScanSave
  BY <1>1, ScanStarts, ScanStoreKeeps, ScanSaveKeeps
<1>2. CASE \/ \E h \in Hashes, kind \in {"folder", "zip"} : Preview(h, kind)
           \/ Expire
           \/ \E t \in Tree : EditSource(t)
           \/ UNCHANGED skillVars
  BY <1>2, WorldKeeps
<1>3. CASE \E change \in Change, token \in BOOLEAN : Apply(change, token)
  BY <1>3, ApplyStarts
<1>4. CASE \/ ApplyCheck \/ ApplyStore \/ ApplyStored \/ ApplyWrite \/ ApplySave
           \/ ApplyTargetsDone \/ ApplyRemoved \/ ApplyEnd
  BY <1>4, ApplyCheckKeeps, ApplyStoreKeeps, ApplyStoredKeeps, ApplyWriteKeeps, ApplySaveKeeps,
     ApplyTargetsDoneKeeps, ApplyRemovedKeeps, ApplyEndKeeps
<1>5. CASE Uninstall \/ CreateBackup \/ UninstallWrite \/ UninstallRemove \/ UninstallSave
  BY <1>5, UninstallStarts, CreateBackupKeeps, UninstallWriteKeeps, UninstallRemoveKeeps, UninstallSaveKeeps
<1>6. CASE \E h \in Hashes, a \in Agents : UninstallTarget(h, a)
  BY <1>6, UninstallTargetKeeps
<1>7. CASE \E i \in DOMAIN backups, targets \in SUBSET Agents : Restore(backups[i], targets)
  BY <1>7, RestoreStarts
<1>8. CASE RestoreLibrary \/ RestoreSave \/ RestoreTargetSave \/ RestoreEnd
  BY <1>8, RestoreLibraryKeeps, RestoreSaveKeeps, RestoreTargetSaveKeeps, RestoreEndKeeps
<1>9. CASE \E a \in Agents : ScanSkips(a) \/ ScanAgent(a) \/ ApplyTarget(a) \/ RestoreTarget(a) \/ ComeOrGo(a)
  BY <1>9, ScanSkipsKeeps, ScanAgentKeeps, ApplyTargetKeeps, RestoreTargetKeeps, WorldKeeps
<1>10. CASE \E a \in Agents, t \in Tree : EditDir(a, t)
  BY <1>10, EditDirKeeps
<1>11. CASE ProcessDies \/ RestoreReturns
  BY <1>11, CallGoes
<1> QED
  BY <1>1, <1>2, <1>3, <1>4, <1>5, <1>6, <1>7, <1>8, <1>9, <1>10, <1>11 DEF SkillNext

LEMMA SkillStarts ==
  ASSUME SkillInit
  PROVE  SkillInv
<1> DEFINE run(h) == {a \in Agents : dirs[a] = h}
           entry(h, known) == [stored |-> TRUE, seen |-> run(h), managed |-> run(h) \cap known]
<1>1. PICK known \in SUBSET {a \in Agents : dirs[a] \in library} :
        registry = [h \in Hashes |-> IF h \notin library THEN Nothing ELSE entry(h, known)]
  BY DEF SkillInit
<1>2. /\ dirs \in [Agents -> Tree] /\ library \in SUBSET Hashes /\ backups = <<>> /\ eligible = Agents
      /\ preview \in {Nothing} \cup [hash : Hashes, kind : {"folder"}]
      /\ source = IF preview = Nothing THEN Nothing ELSE preview.hash
      /\ call = Idle /\ loose = {} /\ torn = FALSE /\ raced = FALSE
  BY DEF SkillInit
<1>3. \A h \in Hashes : /\ entry(h, known) \in Variant /\ entry(h, known) # Nothing /\ entry(h, known).stored
                        /\ \A a \in entry(h, known).managed : dirs[a] = h
  <2>1. \A h \in Hashes : /\ entry(h, known) \in Variant /\ entry(h, known).stored
                          /\ \A a \in entry(h, known).managed : dirs[a] = h
    BY DEF Variant
  <2> HIDE DEF entry
  <2> QED
    BY <2>1, NothingAssumption
<1> HIDE DEF entry
<1>4. /\ registry \in Fact
      /\ \A h \in Hashes : registry[h] # Nothing =>
           h \in library /\ registry[h].stored /\ \A a \in registry[h].managed : dirs[a] = h
  <2>1. registry \in Fact
    BY <1>1, <1>3 DEF Fact
  <2> QED
    BY <1>1, <1>3, <2>1
<1>5. Sound(registry)
  <2>1. \A h \in Hashes, a \in Agents : registry[h] # Nothing /\ a \in registry[h].managed =>
          registry[h].stored /\ \A g \in Hashes : registry[g] # Nothing /\ a \in registry[g].managed => h = g
    BY <1>4
  <2> QED
    BY <1>4, <2>1, SoundMeans
<1>6. Stored(registry) \subseteq library /\ \A t \in Managed(registry) : dirs[t[2]] = t[1]
  BY <1>4, FactParts
<1>7. SkillTypeOK
  <2>1. Len(backups) = 0 /\ DOMAIN backups = {} /\ 0 <= Retention
    BY <1>2, SkillAssumption
  <2> QED
    BY <1>2, <1>4, <2>1 DEF SkillTypeOK
<1>8. preview \in Previews \cup {Nothing} /\ source \in Tree
  BY <1>2 DEF Previews, Tree
<1>9. backups \in Seq(Archive) /\ \A i \in DOMAIN backups : SoundBackup(backups[i])
  BY <1>2
<1>10. StateSound /\ StoredIsThere /\ ManagedIsThere
  BY <1>5, <1>6, <1>7, <1>8, <1>9 DEF StateSound, StoredIsThere, ManagedIsThere
<1>11. call.op = "idle"
  BY <1>2, OneKind
<1>12. /\ call \notin ScanCall /\ call \notin ApplyCall /\ call \notin UninstallCall
       /\ call \notin RestoreCall /\ call \notin DoneCall
  BY <1>11, OneKind
<1> QED
  BY <1>2, <1>10, <1>11, <1>12 DEF SkillInv, CallShape, Active, MemSound, ScanSound, ApplySound, UninstallSound,
                                   RestoreSound, RestoreBringsBack

\* What is on disk, in the registry and in the call that changes both agree in
\* every reachable state, however many Agents, variants, backups and calls.
THEOREM SkillInvariant == SkillSpec => []SkillInv
<1>1. SkillInit => SkillInv
  BY SkillStarts
<1>2. SkillInv /\ [SkillNext]_skillVars => SkillInv'
  BY SkillStep
<1> QED
  BY <1>1, <1>2, PTL DEF SkillSpec

\* Stored variants are in the library, managed copies in their directories, and a
\* restore brings back what the backup kept (skill.go:446, 452-459, 590-696).
THEOREM LibraryStaysSafe == SkillSpec => []LibrarySafe
<1>1. SkillInv => LibrarySafe
  BY DEF SkillInv, StateSound, LibrarySafe
<1> QED
  BY <1>1, SkillInvariant, PTL
-----------------------------------------------------------------------------
(* What a step may never do. *)

EditsAreCounted == edits \in Nat

LEMMA EditsCount == SkillSpec => []EditsAreCounted
<1>1. SkillInit => EditsAreCounted
  BY DEF SkillInit, EditsAreCounted
<1>2. SkillNext => edits' \in {edits, edits + 1}
  <2>1. ASSUME NEW c, Begins(c)
        PROVE  edits' = edits
    BY <2>1 DEF Begins
  <2>2. Scan \/ Uninstall => edits' = edits
    BY <2>1 DEF Scan, Uninstall
  <2>3. \A change \in Change, token \in BOOLEAN : Apply(change, token) => edits' = edits
    BY <2>1 DEF Apply
  <2>4. \A i \in DOMAIN backups, targets \in SUBSET Agents : Restore(backups[i], targets) => edits' = edits
    BY <2>1 DEF Restore
  <2>5. \/ ScanStore \/ ScanSave \/ ApplyCheck \/ ApplyStored \/ ApplyWrite \/ ApplySave \/ ApplyTargetsDone
        \/ ApplyRemoved \/ UninstallWrite \/ UninstallRemove \/ UninstallSave \/ RestoreLibrary \/ RestoreSave
        \/ RestoreTargetSave \/ RestoreEnd \/ RestoreReturns
        => edits' = edits
    BY DEF ScanStore, ScanSave, ApplyCheck, ApplyStored, ApplyWrite, ApplySave, ApplyTargetsDone, ApplyRemoved,
           UninstallWrite, UninstallRemove, UninstallSave, RestoreLibrary, RestoreSave, RestoreTargetSave,
           RestoreEnd, RestoreReturns, Quiet, world
  <2>6. ApplyStore \/ ApplyEnd \/ CreateBackup \/ ProcessDies \/ Expire => edits' = edits
    BY DEF ApplyStore, ApplyEnd, CreateBackup, ProcessDies, Expire, world
  <2>7. \A a \in Agents : /\ ScanSkips(a) \/ ScanAgent(a) \/ ApplyTarget(a) \/ RestoreTarget(a) => edits' = edits
                          /\ \A h \in Hashes : UninstallTarget(h, a) => edits' = edits
    BY DEF ScanSkips, ScanAgent, ApplyTarget, RestoreTarget, UninstallTarget, Quiet, world
  <2>8. /\ \A h \in Hashes, kind \in {"folder", "zip"} : Preview(h, kind) => edits' = edits + 1
        /\ \A a \in Agents : ComeOrGo(a) => edits' = edits + 1
        /\ \A a \in Agents, t \in Tree : EditDir(a, t) => edits' = edits + 1
        /\ \A t \in Tree : EditSource(t) => edits' = edits + 1
    BY DEF Preview, ComeOrGo, EditDir, EditSource, Edits
  <2> QED
    BY <2>2, <2>3, <2>4, <2>5, <2>6, <2>7, <2>8 DEF SkillNext
<1>3. EditsAreCounted /\ [SkillNext]_skillVars => EditsAreCounted'
  BY <1>2 DEF skillVars, EditsAreCounted
<1> QED
  BY <1>1, <1>3, PTL DEF SkillSpec

\* The steps an uninstall past its backup can take, edits aside.
LEMMA UninstallSteps ==
  ASSUME SkillInv, edits \in Nat, SkillNext, call.op = "uninstall", call.stage # "backup", edits' = edits
  PROVE  \/ UninstallWrite \/ UninstallRemove \/ UninstallSave
         \/ UNCHANGED <<registry, library, dirs, backups>>
<1>1. call # Idle /\ ~Importing
  BY OneKind DEF Importing
<1>2. edits' # edits + 1
  OBVIOUS
<1>3. \A c : ~Begins(c)
  BY <1>1 DEF Begins
<1>4. ~Scan /\ ~Uninstall
  BY <1>3 DEF Scan, Uninstall
<1>5. \A change \in Change, token \in BOOLEAN : ~Apply(change, token)
  BY <1>3 DEF Apply
<1>6. \A i \in DOMAIN backups, targets \in SUBSET Agents : ~Restore(backups[i], targets)
  BY <1>3 DEF Restore
<1>7. ~ScanStore /\ ~ScanSave /\ ~CreateBackup /\ ~RestoreReturns
  BY DEF ScanStore, ScanSave, CreateBackup, RestoreReturns, Reading, At
<1>8. /\ ~ApplyCheck /\ ~ApplyStore /\ ~ApplyStored /\ ~ApplyWrite /\ ~ApplySave /\ ~ApplyTargetsDone
      /\ ~ApplyRemoved /\ ~ApplyEnd
  BY DEF ApplyCheck, ApplyStore, ApplyStored, ApplyWrite, ApplySave, ApplyTargetsDone, ApplyRemoved, ApplyEnd, At
<1>9. ~RestoreLibrary /\ ~RestoreSave /\ ~RestoreTargetSave /\ ~RestoreEnd
  BY DEF RestoreLibrary, RestoreSave, RestoreTargetSave, RestoreEnd, At
<1>10. \A a \in Agents : ~ScanSkips(a) /\ ~ScanAgent(a) /\ ~ApplyTarget(a) /\ ~RestoreTarget(a) /\ ~ComeOrGo(a)
  BY <1>1 DEF ScanSkips, ScanAgent, ApplyTarget, RestoreTarget, ComeOrGo, Reading, At
<1>11. /\ \A h \in Hashes, kind \in {"folder", "zip"} : ~Preview(h, kind)
       /\ \A a \in Agents, t \in Tree : ~EditDir(a, t)
       /\ \A t \in Tree : ~EditSource(t)
  BY <1>1, <1>2 DEF Preview, EditDir, EditSource, Edits
<1>12. Expire \/ ProcessDies => UNCHANGED <<registry, library, dirs, backups>>
  BY DEF Expire, ProcessDies
<1>13. \A h \in Hashes, a \in Agents : UninstallTarget(h, a) => UNCHANGED <<registry, library, dirs, backups>>
  BY DEF UninstallTarget, Quiet
<1> QED
  BY <1>4, <1>5, <1>6, <1>7, <1>8, <1>9, <1>10, <1>11, <1>12, <1>13 DEF SkillNext

LEMMA UninstallStepKeeps ==
  ASSUME SkillInv, edits \in Nat, SkillNext, call.op = "uninstall", call.stage # "backup", edits' = edits
  PROVE  Content \ {dirs[a] : a \in call.touched} \subseteq Content'
<1>1. CASE UNCHANGED <<registry, library, dirs, backups>>
  BY <1>1 DEF Content
<1>2. CASE UninstallWrite
  <2> DEFINE a == call.at
  <2>1. At("uninstall", "write") /\ dirs' = [dirs EXCEPT ![a] = Nothing] /\ UNCHANGED <<registry, library, backups>>
    BY <1>2 DEF UninstallWrite, Quiet
  <2>2. /\ \A h \in Stored(registry) : \E i \in DOMAIN backups : h \in backups[i].content
        /\ a \in Agents /\ (a \in call.touched \/ dirs[a] = Nothing \/ dirs[a] \in Stored(registry))
    BY <2>1, UninstallState
  <2>3. \A b \in Agents : b # a => dirs'[b] = dirs[b]
    BY <2>1 DEF SkillInv, StateSound, SkillTypeOK
  <2> HIDE DEF a
  <2>4. ASSUME NEW x \in Content, x \notin {dirs[b] : b \in call.touched}
        PROVE  x \in Content'
    <3>1. CASE \E b \in Agents : b # a /\ x = dirs[b] /\ x # Nothing
      BY <2>3, <3>1 DEF Content
    <3>2. CASE x = dirs[a] /\ x # Nothing
      <4>1. \E i \in DOMAIN backups : x \in backups[i].content
        BY <2>2, <2>4, <3>2
      <4> QED
        BY <2>1, <4>1 DEF Content
    <3>3. CASE x \in library \cap Stored(registry) \/ \E i \in DOMAIN backups : x \in backups[i].content
      BY <2>1, <3>3 DEF Content
    <3> QED
      BY <2>4, <3>1, <3>2, <3>3 DEF Content
  <2> QED
    BY <2>4
<1>3. CASE UninstallRemove
  <2>1. At("uninstall", "targets") /\ UNCHANGED <<registry, dirs, backups>>
    BY <1>3 DEF UninstallRemove, Quiet
  <2>2. \A h \in Stored(registry) : \E i \in DOMAIN backups : h \in backups[i].content
    BY <2>1, UninstallState
  <2> QED
    BY <2>1, <2>2 DEF Content
<1>4. CASE UninstallSave
  <2>1. At("uninstall", "removed") /\ UNCHANGED <<library, dirs, backups>>
    BY <1>4 DEF UninstallSave, Quiet
  <2>2. library = {}
    BY <2>1, UninstallState
  <2> QED
    BY <2>1, <2>2 DEF Content
<1> QED
  BY <1>1, <1>2, <1>3, <1>4, UninstallSteps

\* No uninstall loses anything the registry knows, at any number of Agents, variants
\* and backups: what it removes is in a backup (skill.go:524-531).
THEOREM UninstallLosesNothing == SkillSpec => UninstallKeeps
<1>1. SkillInv /\ EditsAreCounted /\ [SkillNext]_skillVars =>
        [call.op = "uninstall" /\ call.stage # "backup" /\ edits' = edits
           => Content \ {dirs[a] : a \in call.touched} \subseteq Content']_skillVars
  BY UninstallStepKeeps DEF EditsAreCounted
<1> QED
  BY <1>1, SkillInvariant, EditsCount, PTL DEF SkillSpec, UninstallKeeps

\* A fact that is not empty knows a variant.
LEMMA KnownFacts ==
  ASSUME NEW f \in Fact
  PROVE  f # Unknown <=> \E h \in Hashes : f[h] # Nothing
<1>1. Unknown = [h \in Hashes |-> Unknown[h]] /\ \A h \in Hashes : Unknown[h] = Nothing
  BY DEF Unknown
<1>2. f = [h \in Hashes |-> f[h]]
  BY DEF Fact
<1> QED
  BY <1>1, <1>2

\* The steps that save a registry.
LEMMA RegistryChanges ==
  ASSUME SkillNext, registry' # registry
  PROVE  ScanSave \/ ApplyStored \/ ApplySave \/ ApplyRemoved \/ UninstallSave \/ RestoreSave \/ RestoreTargetSave
<1>1. \A c : ~Begins(c)
  BY DEF Begins
<1>2. ~Scan /\ ~Uninstall
  BY <1>1 DEF Scan, Uninstall
<1>3. \A change \in Change, token \in BOOLEAN : ~Apply(change, token)
  BY <1>1 DEF Apply
<1>4. \A i \in DOMAIN backups, targets \in SUBSET Agents : ~Restore(backups[i], targets)
  BY <1>1 DEF Restore
<1>5. /\ ~ScanStore /\ ~ApplyCheck /\ ~ApplyStore /\ ~ApplyWrite /\ ~ApplyTargetsDone /\ ~ApplyEnd
      /\ ~CreateBackup /\ ~UninstallWrite /\ ~UninstallRemove /\ ~RestoreLibrary /\ ~RestoreEnd
      /\ ~Expire /\ ~ProcessDies /\ ~RestoreReturns
  BY DEF ScanStore, ApplyCheck, ApplyStore, ApplyWrite, ApplyTargetsDone, ApplyEnd, CreateBackup, UninstallWrite,
         UninstallRemove, RestoreLibrary, RestoreEnd, Expire, ProcessDies, RestoreReturns
<1>6. \A a \in Agents : /\ ~ScanSkips(a) /\ ~ScanAgent(a) /\ ~ApplyTarget(a) /\ ~RestoreTarget(a) /\ ~ComeOrGo(a)
                        /\ \A h \in Hashes : ~UninstallTarget(h, a)
                        /\ \A t \in Tree : ~EditDir(a, t)
  BY DEF ScanSkips, ScanAgent, ApplyTarget, RestoreTarget, ComeOrGo, UninstallTarget, EditDir
<1>7. /\ \A h \in Hashes, kind \in {"folder", "zip"} : ~Preview(h, kind)
      /\ \A t \in Tree : ~EditSource(t)
  BY DEF Preview, EditSource
<1> QED
  BY <1>2, <1>3, <1>4, <1>5, <1>6, <1>7 DEF SkillNext

LEMMA EntryStep ==
  ASSUME SkillInv, SkillNext, registry # Unknown, registry' = Unknown
  PROVE  /\ library = {}
         /\ \A t \in Managed(registry) : dirs[t[2]] # t[1] \/ t[2] \in call.touched
<1>1. registry' # registry /\ registry \in Fact
  BY DEF SkillInv, StateSound, SkillTypeOK
<1>2. CASE ScanSave
  <2>1. Reading /\ registry' = call.mem
    BY <1>1, <1>2 DEF ScanSave
  <2>2. call.mem \in Fact /\ \A h \in Hashes : registry[h] # Nothing => call.mem[h] # Nothing
    BY <2>1, ScanState
  <2> QED
    BY <1>1, <2>1, <2>2, KnownFacts
<1>3. CASE ApplyStored \/ ApplySave
  <2>1. /\ At("apply", "stored") \/ At("apply", "written")
        /\ registry' = call.mem
    BY <1>1, <1>3 DEF ApplyStored, ApplySave
  <2>2. call \in ApplyCall /\ call.mem \in Fact /\ call.change.hash \in Hashes /\ call.stage \in {"stored", "written"}
    BY <2>1, ApplyState
  <2>3. call.mem[call.change.hash] # Nothing
    BY <2>2 DEF SkillInv, ApplySound
  <2> QED
    BY <2>1, <2>2, <2>3, KnownFacts
<1>4. CASE ApplyRemoved
  <2>1. call \in ApplyCall /\ call.stage = "removed"
    BY <1>4, ApplyState DEF ApplyRemoved
  <2> QED
    BY <2>1 DEF SkillInv, ApplySound
<1>5. CASE UninstallSave
  <2>1. At("uninstall", "removed")
    BY <1>5 DEF UninstallSave
  <2> QED
    BY <2>1, UninstallState
<1>6. CASE RestoreSave \/ RestoreTargetSave
  <2>1. /\ At("restore", "published") \/ At("restore", "written")
        /\ registry' = call.mem
    BY <1>1, <1>6 DEF RestoreSave, RestoreTargetSave, Saves, SaveFails
  <2>2. /\ \E h \in Hashes : call.backup.content = {h}
        /\ Stored(call.mem) = call.backup.content
    BY <2>1, RestoreState
  <2> QED
    BY <2>1, <2>2, UnknownFacts
<1> QED
  BY <1>1, <1>2, <1>3, <1>4, <1>5, <1>6, RegistryChanges

\* The entry of a Skill goes last, whatever is stored and whoever holds a copy
\* (skill.go:543-566, 478-493).
THEOREM EntriesGoLast == SkillSpec => EntryGoesLast
<1>1. SkillInv /\ [SkillNext]_skillVars =>
        [registry # Unknown /\ registry' = Unknown =>
           /\ library = {}
           /\ \A t \in Managed(registry) : dirs[t[2]] # t[1] \/ t[2] \in call.touched]_skillVars
  BY EntryStep
<1> QED
  BY <1>1, SkillInvariant, PTL DEF SkillSpec, EntryGoesLast
=============================================================================
