--------------------------- MODULE TransferProofs ---------------------------
(***************************************************************************)
(* Theorems about Transfer, for any Providers, Profiles, Skills, packages  *)
(* and number of calls.                                                    *)
(***************************************************************************)
EXTENDS Transfer, TLAPS

Pairs == Skills \X Hashes
Stages == {"providers", "profiles", "skills", "refresh"}
Deletions == [op : {"delete"}, id : Profiles, stage : {"record", "secret", "pointer"}]
Activations == [op : {"activate"}, provider : Providers, stage : {"record", "pointer"}, id : Profiles]
Imports == [op : {"import"}, stage : Stages, pkg : Package, before : Disk,
            todo : SUBSET (Providers \cup Profiles \cup Skills), taken : SUBSET Providers,
            created : SUBSET Pairs, registry : [Skills -> SUBSET Hashes]]
Rollbacks == [op : {"undo"}, pkg : Package, before : Disk, created : SUBSET Pairs,
              taken : SUBSET Providers, step : 1..7, gone : BOOLEAN]
Running == Deletions \cup Activations \cup Imports \cup Rollbacks

CallTyped == \/ call = Idle \/ call \in Running
             \/ \E l \in Running : call = [op |-> "done", last |-> l]

\* Every variant the registry g names is among the trees t.
Stored(g, t) == \A s \in Skills : \A h \in g[s] : <<s, h>> \in t

\* What a package k makes of an entry, a Profile and the variants of a Skill of the disk b.
EntryOf(b, k, p) == [base |-> k.prov[p], key |-> b.prov[p] # None /\ b.prov[p].key]
ProfileOf(b, k, q) == [provider |-> k.prof[q], activated |-> FALSE \/ (b.prof[q] # None /\ b.prof[q].activated)]
VariantsOf(b, k, s) ==
  IF k.skills[s] = None \/ (k.policy = "skip" /\ b.registry[s] # {}) THEN b.registry[s]
  ELSE b.registry[s] \cup {k.skills[s]}

\* The Profiles and Skills an import has been through, and the Providers it has refreshed.
ProfilesDone(r) ==
  CASE r.stage = "providers" -> {}
    [] r.stage = "profiles" -> Listed(r.pkg.prof) \ r.todo
    [] r.stage \in {"skills", "refresh"} -> Listed(r.pkg.prof)
SkillsDone(r) ==
  CASE r.stage \in {"providers", "profiles"} -> {}
    [] r.stage = "skills" -> Skills \ r.todo
    [] r.stage = "refresh" -> Skills
Refreshed(r) == IF r.stage = "refresh" THEN r.taken \ r.todo ELSE {}

\* An import so far: what it has been through is as the package says, the rest as it was.
ProvidersSo(r) ==
  /\ r.taken = IF r.stage = "providers" THEN Listed(r.pkg.prov) \ r.todo ELSE Listed(r.pkg.prov)
  /\ \A p \in Providers : disk.prov[p] = IF p \in r.taken THEN EntryOf(r.before, r.pkg, p) ELSE r.before.prov[p]
ProfilesSo(r) ==
  \A q \in Profiles : disk.prof[q] = IF q \in ProfilesDone(r) THEN ProfileOf(r.before, r.pkg, q) ELSE r.before.prof[q]
SkillsSo(r) ==
  /\ \A s \in Skills : r.registry[s] = IF s \in SkillsDone(r) THEN VariantsOf(r.before, r.pkg, s) ELSE r.before.registry[s]
  /\ disk.registry = IF r.stage = "refresh" THEN r.registry ELSE r.before.registry
  /\ ~lapsed => Stored(r.registry, disk.trees)
MadeSo(r) ==
  \A p \in Providers : IF p \in Refreshed(r) THEN disk.made[p] \in {None, r.pkg.prov[p]} ELSE disk.made[p] = r.before.made[p]
TreesSo(r) == disk.trees = r.before.trees \cup r.created /\ r.created \cap r.before.trees = {}
TodoSo(r) ==
  /\ r.stage = "providers" => r.todo \subseteq Listed(r.pkg.prov)
  /\ r.stage = "profiles" => r.todo \subseteq Listed(r.pkg.prof)
  /\ r.stage = "skills" => r.todo \subseteq Listed(r.pkg.skills)
  /\ r.stage = "refresh" => r.todo \subseteq r.taken

ImportSo(r) == ProvidersSo(r) /\ ProfilesSo(r) /\ SkillsSo(r) /\ MadeSo(r) /\ TreesSo(r) /\ TodoSo(r)

\* A rollback so far: what it is through with is as it was.
UndoneSo(r) ==
  /\ IF r.step = 1 THEN TreesSo(r) ELSE disk.trees = r.before.trees
  /\ \A p \in Providers : p \notin r.taken \/ r.step > 2 => disk.made[p] = r.before.made[p]
  /\ r.step > 3 => disk.registry = r.before.registry
  /\ r.step > 4 => disk.prov = r.before.prov
  /\ r.step > 5 => disk.mcp = r.before.mcp
  /\ r.step > 6 => disk.prof = r.before.prof

\* What the import found was sound.
BeforeSo(r) ==
  ~lapsed => /\ Stored(r.before.registry, r.before.trees)
             /\ pointer # None => r.before.prof[pointer] # None \/ pointer \in cut

DeletedSo(r) ==
  /\ r.stage # "record" => disk.prof[r.id] = None
  /\ r.stage = "pointer" => r.id \notin secret

Doing ==
  /\ call.op = "delete" => DeletedSo(call)
  /\ call.op = "activate" /\ call.stage = "pointer" => disk.prof[call.id] # None
  /\ call.op = "import" => ImportSo(call) /\ BeforeSo(call)
  /\ call.op = "undo" => UndoneSo(call) /\ BeforeSo(call)

IInv == TypeOK /\ CallTyped /\ Doing /\ RegistryStored /\ PointerResolves /\ DeletionClears /\ ImportUndone /\ ImportComplete
-----------------------------------------------------------------------------
(* Records.                                                                *)

\* The disk, one store at a time.
LEMMA DiskFields ==
  ASSUME NEW d \in Disk
  PROVE  /\ d.prov \in [Providers -> Entry \cup {None}] /\ d.prof \in [Profiles -> Record \cup {None}]
         /\ d.mcp \in {"local", "imported", None} /\ d.registry \in [Skills -> SUBSET Hashes]
         /\ d.trees \subseteq Pairs /\ d.made \in [Providers -> Bases \cup {None}]
  BY DEF Disk, Pairs

SameBut(e, d, f) ==
  /\ f # "prov" => e.prov = d.prov
  /\ f # "prof" => e.prof = d.prof
  /\ f # "mcp" => e.mcp = d.mcp
  /\ f # "registry" => e.registry = d.registry
  /\ f # "trees" => e.trees = d.trees
  /\ f # "made" => e.made = d.made

\* Replacing one store keeps the others.
LEMMA DiskChanges ==
  ASSUME NEW d \in Disk
  PROVE  /\ \A v \in [Providers -> Entry \cup {None}] : LET e == [d EXCEPT !.prov = v] IN
              e \in Disk /\ e.prov = v /\ SameBut(e, d, "prov")
         /\ \A v \in [Profiles -> Record \cup {None}] : LET e == [d EXCEPT !.prof = v] IN
              e \in Disk /\ e.prof = v /\ SameBut(e, d, "prof")
         /\ \A v \in {"local", "imported", None} : LET e == [d EXCEPT !.mcp = v] IN
              e \in Disk /\ e.mcp = v /\ SameBut(e, d, "mcp")
         /\ \A v \in [Skills -> SUBSET Hashes] : LET e == [d EXCEPT !.registry = v] IN
              e \in Disk /\ e.registry = v /\ SameBut(e, d, "registry")
         /\ \A v \in SUBSET Pairs : LET e == [d EXCEPT !.trees = v] IN
              e \in Disk /\ e.trees = v /\ SameBut(e, d, "trees")
         /\ \A v \in [Providers -> Bases \cup {None}] : LET e == [d EXCEPT !.made = v] IN
              e \in Disk /\ e.made = v /\ SameBut(e, d, "made")
<1>1. \A v \in [Providers -> Entry \cup {None}] : LET e == [d EXCEPT !.prov = v] IN
        e \in Disk /\ e.prov = v /\ SameBut(e, d, "prov")
  BY DEF Disk, SameBut
<1>2. \A v \in [Profiles -> Record \cup {None}] : LET e == [d EXCEPT !.prof = v] IN
        e \in Disk /\ e.prof = v /\ SameBut(e, d, "prof")
  BY DEF Disk, SameBut
<1>3. \A v \in {"local", "imported", None} : LET e == [d EXCEPT !.mcp = v] IN
        e \in Disk /\ e.mcp = v /\ SameBut(e, d, "mcp")
  BY DEF Disk, SameBut
<1>4. \A v \in [Skills -> SUBSET Hashes] : LET e == [d EXCEPT !.registry = v] IN
        e \in Disk /\ e.registry = v /\ SameBut(e, d, "registry")
  BY DEF Disk, SameBut
<1>5. \A v \in SUBSET Pairs : LET e == [d EXCEPT !.trees = v] IN
        e \in Disk /\ e.trees = v /\ SameBut(e, d, "trees")
  BY DEF Disk, SameBut, Pairs
<1>6. \A v \in [Providers -> Bases \cup {None}] : LET e == [d EXCEPT !.made = v] IN
        e \in Disk /\ e.made = v /\ SameBut(e, d, "made")
  BY DEF Disk, SameBut
<1>. QED
  BY <1>1, <1>2, <1>3, <1>4, <1>5, <1>6

\* Two disks with the same stores are the same.
LEMMA SameDisk ==
  ASSUME NEW d \in Disk, NEW e \in Disk, d.prov = e.prov, d.prof = e.prof, d.mcp = e.mcp,
         d.registry = e.registry, d.trees = e.trees, d.made = e.made
  PROVE  d = e
  BY DEF Disk

\* What a package lists.
LEMMA PackageFields ==
  ASSUME NEW k \in Package
  PROVE  /\ k.prov \in [Providers -> Bases \cup {None}] /\ k.prof \in [Profiles -> Providers \cup {None}]
         /\ k.skills \in [Skills -> Hashes \cup {None}]
         /\ Listed(k.prov) \subseteq Providers /\ Listed(k.prof) \subseteq Profiles /\ Listed(k.skills) \subseteq Skills
         /\ \A p \in Listed(k.prov) : k.prov[p] \in Bases
         /\ \A q \in Listed(k.prof) : k.prof[q] \in Providers
         /\ \A s \in Listed(k.skills) : k.skills[s] \in Hashes
  BY DEF Package, Listed

\* What kind of call it is.
LEMMA CallIs ==
  ASSUME CallTyped
  PROVE  /\ call.op = "delete" => call \in Deletions
         /\ call.op = "activate" => call \in Activations
         /\ call.op = "import" => call \in Imports
         /\ call.op = "undo" => call \in Rollbacks
  BY DEF CallTyped, Running, Deletions, Activations, Imports, Rollbacks, Idle

\* The operation tells the kind of a call.
LEMMA RunningOp ==
  ASSUME NEW r \in Running
  PROVE  /\ r \in Deletions <=> r.op = "delete"
         /\ r \in Activations <=> r.op = "activate"
         /\ r \in Imports <=> r.op = "import"
         /\ r \in Rollbacks <=> r.op = "undo"
  BY DEF Running, Deletions, Activations, Imports, Rollbacks
-----------------------------------------------------------------------------
(* Profiles.                                                               *)

\* The initial states keep the invariant.
LEMMA Beginning == Init => IInv
<1>. SUFFICES ASSUME Init PROVE IInv
  OBVIOUS
<1>. DEFINE base == CHOOSE b \in Bases : TRUE
            h == CHOOSE x \in Hashes : TRUE
<1>1. base \in Bases /\ h \in Hashes
  BY TransferAssumption
<1>. HIDE DEF base, h
<1>2. PICK known \in SUBSET Providers : \E p \in Providers, use \in BOOLEAN :
       /\ disk = [prov |-> [r \in Providers |-> IF r \in known THEN [base |-> base, key |-> TRUE] ELSE None],
                  prof |-> [[q \in Profiles |-> None] EXCEPT ![Default] = [provider |-> p, activated |-> use]],
                  mcp |-> "local",
                  registry |-> [s \in Skills |-> {h}],
                  trees |-> Skills \X {h},
                  made |-> [r \in Providers |-> IF r \in known THEN base ELSE None]]
       /\ pointer = IF use THEN Default ELSE None
  BY DEF Init, base, h
<1>3. PICK p \in Providers : \E use \in BOOLEAN :
       /\ disk = [prov |-> [r \in Providers |-> IF r \in known THEN [base |-> base, key |-> TRUE] ELSE None],
                  prof |-> [[q \in Profiles |-> None] EXCEPT ![Default] = [provider |-> p, activated |-> use]],
                  mcp |-> "local",
                  registry |-> [s \in Skills |-> {h}],
                  trees |-> Skills \X {h},
                  made |-> [r \in Providers |-> IF r \in known THEN base ELSE None]]
       /\ pointer = IF use THEN Default ELSE None
  BY <1>2
<1>4. PICK use \in BOOLEAN :
       /\ disk = [prov |-> [r \in Providers |-> IF r \in known THEN [base |-> base, key |-> TRUE] ELSE None],
                  prof |-> [[q \in Profiles |-> None] EXCEPT ![Default] = [provider |-> p, activated |-> use]],
                  mcp |-> "local",
                  registry |-> [s \in Skills |-> {h}],
                  trees |-> Skills \X {h},
                  made |-> [r \in Providers |-> IF r \in known THEN base ELSE None]]
       /\ pointer = IF use THEN Default ELSE None
  BY <1>3
<1>5. disk \in Disk
  <2>. DEFINE rec == [provider |-> p, activated |-> use]
              pro == [[q \in Profiles |-> None] EXCEPT ![Default] = rec]
              prv == [r \in Providers |-> IF r \in known THEN [base |-> base, key |-> TRUE] ELSE None]
              mad == [r \in Providers |-> IF r \in known THEN base ELSE None]
              reg == [s \in Skills |-> {h}]
              tre == Skills \X {h}
  <2>1. rec \in Record
    BY DEF Record
  <2>. HIDE DEF rec
  <2>2. pro \in [Profiles -> Record \cup {None}]
    BY <2>1
  <2>3. prv \in [Providers -> Entry \cup {None}]
    BY <1>1 DEF Entry
  <2>4. mad \in [Providers -> Bases \cup {None}] /\ reg \in [Skills -> SUBSET Hashes] /\ tre \subseteq Skills \X Hashes
    BY <1>1
  <2>5. disk = [prov |-> prv, prof |-> pro, mcp |-> "local", registry |-> reg, trees |-> tre, made |-> mad]
    BY <1>4 DEF rec
  <2>. HIDE DEF pro, prv, mad, reg, tre
  <2>. QED
    BY <2>2, <2>3, <2>4, <2>5 DEF Disk
<1>6. package \in Package
  BY DEF Init, Empty, Package
<1>7. TypeOK
  <2>1. pointer \in Profiles \cup {None}
    BY <1>4, TransferAssumption
  <2>2. secret \subseteq Profiles /\ cut \subseteq Profiles /\ lapsed \in BOOLEAN
    BY TransferAssumption DEF Init
  <2>3. calls \in 0..MaxCalls
    BY TransferAssumption DEF Init
  <2>. QED
    BY <1>5, <1>6, <2>1, <2>2, <2>3 DEF TypeOK
<1>8. call = Idle /\ call.op = "idle"
  BY DEF Init, Idle
<1>9. RegistryStored
  BY <1>4 DEF RegistryStored
<1>10. PointerResolves
  <2>1. disk.prof[Default] = [provider |-> p, activated |-> use]
    BY <1>4, TransferAssumption
  <2>2. disk.prof[Default] \in Record
    BY <2>1 DEF Record
  <2>. QED
    BY <1>4, <2>2, TransferAssumption DEF PointerResolves
<1>. QED
  BY <1>7, <1>8, <1>9, <1>10 DEF IInv, CallTyped, Doing, DeletionClears, ImportUndone, ImportComplete

\* What is said about the end of a call.
Ended == DeletionClears /\ ImportUndone /\ ImportComplete

\* Nothing is said about the end of a call that has not ended.
LEMMA Unfinished ==
  ASSUME call'.op # "done"
  PROVE  Ended'
  BY DEF Ended, DeletionClears, ImportUndone, ImportComplete

\* A Profile is written.
WithProfile(q, x) == [disk EXCEPT !.prof[q] = x]

\* Writing one Profile keeps the other Profiles and stores.
LEMMA WrittenDisk ==
  ASSUME disk \in Disk, NEW q \in Profiles, NEW x \in Record \cup {None}, NEW e, e = WithProfile(q, x)
  PROVE  /\ e \in Disk /\ SameBut(e, disk, "prof") /\ e.prof[q] = x
         /\ \A r \in Profiles : r # q => e.prof[r] = disk.prof[r]
<1>. DEFINE v == [disk.prof EXCEPT ![q] = x]
            d == [disk EXCEPT !.prof = v]
<1>1. disk.prof \in [Profiles -> Record \cup {None}]
  BY DiskFields
<1>2. e = d
  BY DEF Disk, WithProfile
<1>3. v \in [Profiles -> Record \cup {None}] /\ v[q] = x /\ \A r \in Profiles : r # q => v[r] = disk.prof[r]
  BY <1>1
<1>. HIDE DEF v
<1>4. d \in Disk /\ d.prof = v /\ SameBut(d, disk, "prof")
  BY <1>3, DiskChanges
<1>. HIDE DEF d
<1>. QED
  BY <1>2, <1>3, <1>4

\* The record that Store.Save and WriteActive write.
RecordOf(q, p, b) == [provider |-> p, activated |-> b \/ (disk.prof[q] # None /\ disk.prof[q].activated)]

\* What Store.Save and WriteActive write is a Profile.
LEMMA WrittenRecord ==
  ASSUME disk \in Disk, NEW q \in Profiles, NEW p \in Providers, NEW b
  PROVE  /\ RecordOf(q, p, b) \in Record /\ RecordOf(q, p, b) # None
         /\ Written(q, p, b) = WithProfile(q, RecordOf(q, p, b))
<1>1. RecordOf(q, p, b) \in Record
  BY Zenon DEF Record, RecordOf
<1>2. Written(q, p, b) = WithProfile(q, RecordOf(q, p, b))
  BY DEF Written, RecordOf, Disk, WithProfile
<1>. QED
  BY <1>1, <1>2, TransferAssumption

\* Idle calls and those that begin.
LEMMA CallsCounted ==
  ASSUME TypeOK, NEW r, Begins(r)
  PROVE  calls' \in 0..MaxCalls /\ call = Idle /\ call' = r
  BY TransferAssumption DEF TypeOK, Begins

\* A Profile is saved.
LEMMA SaveProfileStep ==
  ASSUME IInv, NEW q \in Profiles, NEW p \in Providers, SaveProfile(q, p)
  PROVE  IInv'
<1>1. calls' \in 0..MaxCalls /\ call = Idle /\ call' = Idle /\ call.op = "idle" /\ call'.op = "idle"
  BY CallsCounted DEF SaveProfile, IInv, Idle
<1>2. PICK x \in Record : disk' = WithProfile(q, x) /\ x # None
  BY WrittenRecord DEF SaveProfile, IInv, TypeOK
<1>3. /\ disk' \in Disk /\ SameBut(disk', disk, "prof") /\ disk'.prof[q] # None
      /\ \A r \in Profiles : r # q => disk'.prof[r] = disk.prof[r]
  BY <1>2, WrittenDisk DEF IInv, TypeOK
<1>4. TypeOK'
  BY <1>1, <1>3 DEF IInv, TypeOK, SaveProfile
<1>5. RegistryStored'
  BY <1>1, <1>3 DEF IInv, RegistryStored, SaveProfile, SameBut
<1>6. PointerResolves'
  BY <1>1, <1>3 DEF IInv, TypeOK, PointerResolves, SaveProfile
<1>7. CallTyped' /\ Doing' /\ Ended'
  BY <1>1, Unfinished DEF CallTyped, Doing
<1>. QED
  BY <1>4, <1>5, <1>6, <1>7 DEF IInv, Ended

\* A deletion goes on.
Staged(c, stage) == [c EXCEPT !.stage = stage]

\* The record of a deletion that goes on.
LEMMA DeletionStaged ==
  ASSUME NEW c \in Deletions, NEW s \in {"record", "secret", "pointer"}, NEW r, r = Staged(c, s)
  PROVE  r \in Deletions /\ r.id = c.id /\ r.stage = s /\ r.op = "delete" /\ r \in Running
  BY DEF Deletions, Staged, Running

\* The record of an activation that goes on.
LEMMA ActivationStaged ==
  ASSUME NEW c \in Activations, NEW s \in {"record", "pointer"}, NEW r, r = Staged(c, s)
  PROVE  r \in Activations /\ r.id = c.id /\ r.stage = s /\ r.op = "activate" /\ r \in Running
  BY DEF Activations, Staged, Running

\* The three steps of a deletion.
LEMMA DeleteStep ==
  ASSUME IInv, NEW q \in Profiles, Delete(q)
  PROVE  IInv'
<1>. DEFINE r == [op |-> "delete", id |-> q, stage |-> "record"]
<1>1. r \in Deletions /\ r \in Running /\ r.op = "delete" /\ r.stage = "record"
  BY DEF Deletions, Running
<1>2. calls' \in 0..MaxCalls /\ call = Idle /\ call' = r
  BY CallsCounted DEF Delete, IInv
<1>. HIDE DEF r
<1>3. call.op = "idle"
  BY <1>2 DEF Idle
<1>4. TypeOK' /\ CallTyped' /\ Doing' /\ RegistryStored' /\ PointerResolves'
  BY <1>1, <1>2, <1>3 DEF IInv, TypeOK, CallTyped, Doing, DeletedSo, RegistryStored, PointerResolves, Delete, store
<1>. QED
  BY <1>1, <1>2, <1>4, Unfinished DEF IInv, Ended

\* The record goes first; the deletion itself excuses the pointer.
LEMMA DeleteRecordStep ==
  ASSUME IInv, DeleteRecord
  PROVE  IInv'
<1>1. call \in Deletions /\ call.id \in Profiles /\ call.op = "delete" /\ call.stage = "record"
  BY CallIs DEF DeleteRecord, IInv, Deletions
<1>2. PICK r : r = Staged(call, "secret")
  OBVIOUS
<1>3. r \in Running /\ r.id = call.id /\ r.stage = "secret" /\ r.op = "delete"
  BY <1>1, <1>2, DeletionStaged
<1>4. call' = r /\ disk' = WithProfile(call.id, None)
  BY <1>2 DEF DeleteRecord, Staged, WithProfile
<1>5. /\ disk' \in Disk /\ SameBut(disk', disk, "prof") /\ disk'.prof[call.id] = None
      /\ \A q \in Profiles : q # call.id => disk'.prof[q] = disk.prof[q]
  BY <1>1, <1>4, WrittenDisk DEF IInv, TypeOK
<1>6. TypeOK' /\ CallTyped' /\ Doing'
  BY <1>3, <1>4, <1>5 DEF IInv, TypeOK, CallTyped, Doing, DeletedSo, DeleteRecord
<1>7. RegistryStored'
  BY <1>1, <1>4, <1>5 DEF IInv, RegistryStored, DeleteRecord, SameBut
<1>8. PointerResolves'
  BY <1>1, <1>3, <1>4, <1>5 DEF IInv, TypeOK, PointerResolves, DeleteRecord
<1>. QED
  BY <1>3, <1>4, <1>6, <1>7, <1>8, Unfinished DEF IInv, Ended

\* The secret goes next.
LEMMA DeleteSecretStep ==
  ASSUME IInv, DeleteSecret
  PROVE  IInv'
<1>1. call \in Deletions /\ call.id \in Profiles /\ call.op = "delete" /\ call.stage = "secret"
  BY CallIs DEF DeleteSecret, IInv, Deletions
<1>2. PICK r : r = Staged(call, "pointer")
  OBVIOUS
<1>3. r \in Running /\ r.id = call.id /\ r.stage = "pointer" /\ r.op = "delete"
  BY <1>1, <1>2, DeletionStaged
<1>4. call' = r
  BY <1>2 DEF DeleteSecret, Staged
<1>5. disk.prof[call.id] = None
  BY <1>1 DEF IInv, Doing, DeletedSo
<1>6. TypeOK' /\ CallTyped' /\ Doing'
  BY <1>3, <1>4, <1>5 DEF IInv, TypeOK, CallTyped, Doing, DeletedSo, DeleteSecret
<1>7. RegistryStored' /\ PointerResolves'
  BY <1>1, <1>3, <1>4 DEF IInv, RegistryStored, PointerResolves, DeleteSecret
<1>. QED
  BY <1>3, <1>4, <1>6, <1>7, Unfinished DEF IInv, Ended

\* A call that ended, and was no import.
LEMMA EndedOther ==
  ASSUME NEW l \in Running, l.op \in {"delete", "activate"}, call' = [op |-> "done", last |-> l],
         l.op = "delete" => disk'.prof[l.id] = None /\ l.id \notin secret' /\ pointer' # l.id
  PROVE  Ended' /\ CallTyped' /\ Doing' /\ call'.op = "done"
  BY DEF Ended, DeletionClears, ImportUndone, ImportComplete, CallTyped, Doing

\* The pointer goes last: nothing remains.
LEMMA DeletePointerStep ==
  ASSUME IInv, DeletePointer
  PROVE  IInv'
<1>1. call \in Deletions /\ call \in Running /\ call.id \in Profiles /\ call.op = "delete" /\ call.stage = "pointer"
  BY CallIs DEF DeletePointer, IInv, Deletions, Running
<1>2. disk.prof[call.id] = None /\ call.id \notin secret
  BY <1>1 DEF IInv, Doing, DeletedSo
<1>3. /\ pointer' = IF pointer = call.id THEN None ELSE pointer
      /\ call' = [op |-> "done", last |-> call]
  BY DEF DeletePointer, ActiveId, Active, Ends
<1>4. pointer' # call.id
  BY <1>1, <1>3, TransferAssumption
<1>5. Ended' /\ CallTyped' /\ Doing' /\ call'.op = "done"
  BY <1>1, <1>2, <1>3, <1>4, EndedOther DEF DeletePointer
<1>6. TypeOK'
  BY <1>3 DEF IInv, TypeOK, DeletePointer
<1>7. RegistryStored' /\ PointerResolves'
  BY <1>1, <1>3, <1>5 DEF IInv, RegistryStored, PointerResolves, DeletePointer
<1>. QED
  BY <1>5, <1>6, <1>7 DEF IInv, Ended

\* WriteActive.
LEMMA ActivateStep ==
  ASSUME IInv, NEW q \in Profiles \cup {None}, NEW p \in Providers, Activate(q, p)
  PROVE  IInv'
<1>. DEFINE id == IF q # None THEN q ELSE IF ActiveId # None THEN ActiveId ELSE Default
            r == [op |-> "activate", provider |-> p, stage |-> "record", id |-> id]
<1>1. id \in Profiles
  BY TransferAssumption DEF ActiveId, Active, IInv, TypeOK
<1>. HIDE DEF id
<1>2. r \in Running /\ r.op = "activate" /\ r.stage = "record"
  BY <1>1 DEF Activations, Running
<1>3. calls' \in 0..MaxCalls /\ call = Idle /\ call' = r
  BY CallsCounted DEF Activate, IInv, id
<1>. HIDE DEF r
<1>4. call.op = "idle"
  BY <1>3 DEF Idle
<1>5. TypeOK' /\ CallTyped' /\ Doing' /\ RegistryStored' /\ PointerResolves'
  BY <1>2, <1>3, <1>4 DEF IInv, TypeOK, CallTyped, Doing, RegistryStored, PointerResolves, Activate, store
<1>. QED
  BY <1>2, <1>3, <1>5, Unfinished DEF IInv, Ended

\* The record is written before the pointer,
LEMMA ActivateRecordStep ==
  ASSUME IInv, ActivateRecord
  PROVE  IInv'
<1>1. call \in Activations /\ call.id \in Profiles /\ call.provider \in Providers /\ call.op = "activate"
  BY CallIs DEF ActivateRecord, IInv, Activations
<1>2. PICK r : r = Staged(call, "pointer")
  OBVIOUS
<1>3. r \in Running /\ r.id = call.id /\ r.stage = "pointer" /\ r.op = "activate"
  BY <1>1, <1>2, ActivationStaged
<1>4. call' = r
  BY <1>2 DEF ActivateRecord, Staged
<1>5. PICK x \in Record : disk' = WithProfile(call.id, x) /\ x # None
  BY <1>1, WrittenRecord DEF ActivateRecord, IInv, TypeOK
<1>6. /\ disk' \in Disk /\ SameBut(disk', disk, "prof") /\ disk'.prof[call.id] # None
      /\ \A q \in Profiles : q # call.id => disk'.prof[q] = disk.prof[q]
  BY <1>1, <1>5, WrittenDisk DEF IInv, TypeOK
<1>7. TypeOK' /\ CallTyped' /\ Doing'
  BY <1>3, <1>4, <1>6 DEF IInv, TypeOK, CallTyped, Doing, ActivateRecord
<1>8. RegistryStored'
  BY <1>1, <1>4, <1>6 DEF IInv, RegistryStored, ActivateRecord, SameBut
<1>9. PointerResolves'
  BY <1>1, <1>3, <1>4, <1>6 DEF IInv, TypeOK, PointerResolves, ActivateRecord
<1>. QED
  BY <1>3, <1>4, <1>7, <1>8, <1>9, Unfinished DEF IInv, Ended

\* so that the pointer finds it.
LEMMA ActivatePointerStep ==
  ASSUME IInv, ActivatePointer
  PROVE  IInv'
<1>1. call \in Activations /\ call \in Running /\ call.id \in Profiles /\ call.op = "activate" /\ call.stage = "pointer"
  BY CallIs DEF ActivatePointer, IInv, Activations, Running
<1>2. disk.prof[call.id] # None
  BY <1>1 DEF IInv, Doing
<1>3. pointer' = call.id /\ call' = [op |-> "done", last |-> call]
  BY DEF ActivatePointer, Ends
<1>4. Ended' /\ CallTyped' /\ Doing' /\ call'.op = "done"
  BY <1>1, <1>3, EndedOther DEF ActivatePointer
<1>5. TypeOK'
  BY <1>1, <1>3 DEF IInv, TypeOK, ActivatePointer
<1>6. RegistryStored' /\ PointerResolves'
  BY <1>1, <1>2, <1>3, <1>4 DEF IInv, RegistryStored, PointerResolves, ActivatePointer
<1>. QED
  BY <1>4, <1>5, <1>6 DEF IInv, Ended
-----------------------------------------------------------------------------
(* Exports, answers, and calls that are cut short.                         *)

\* An export of what the files hold is a package.
LEMMA ExportStep ==
  ASSUME IInv, Export
  PROVE  IInv'
<1>1. package' \in Package
  <2>. DEFINE prv == [p \in Providers |-> IF disk.prov[p] = None THEN None ELSE disk.prov[p].base]
              pro == [q \in Profiles |-> IF disk.prof[q] = None THEN None ELSE disk.prof[q].provider]
              skl == [s \in Skills |-> IF disk.registry[s] = {} THEN None ELSE CHOOSE h \in disk.registry[s] : TRUE]
  <2>1. /\ disk.prov \in [Providers -> Entry \cup {None}] /\ disk.prof \in [Profiles -> Record \cup {None}]
        /\ disk.registry \in [Skills -> SUBSET Hashes]
    BY DiskFields DEF IInv, TypeOK
  <2>2. prv \in [Providers -> Bases \cup {None}]
    BY <2>1 DEF Entry
  <2>3. pro \in [Profiles -> Providers \cup {None}]
    BY <2>1 DEF Record
  <2>4. skl \in [Skills -> Hashes \cup {None}]
    BY <2>1
  <2>5. package' = [prov |-> prv, prof |-> pro, mcp |-> disk.mcp # None, skills |-> skl, policy |-> "overwrite"]
    BY DEF Export
  <2>6. (disk.mcp # None) \in BOOLEAN
    BY Zenon
  <2>. HIDE DEF prv, pro, skl
  <2>. QED
    BY <2>2, <2>3, <2>4, <2>5, <2>6, Zenon DEF Package
<1>2. call' = call /\ call.op = "idle"
  BY DEF Export, Idle
<1>3. TypeOK' /\ CallTyped' /\ Doing' /\ RegistryStored' /\ PointerResolves'
  BY <1>1, <1>2 DEF IInv, TypeOK, CallTyped, Doing, RegistryStored, PointerResolves, Export, store
<1>. QED
  BY <1>2, <1>3, Unfinished DEF IInv, Ended

\* The caller has its answer.
LEMMA ReturnStep ==
  ASSUME IInv, Return
  PROVE  IInv'
<1>1. call' = Idle /\ call'.op = "idle" /\ call.op = "done"
  BY DEF Return, Idle
<1>2. TypeOK' /\ CallTyped' /\ Doing' /\ RegistryStored' /\ PointerResolves'
  BY <1>1 DEF IInv, TypeOK, CallTyped, Doing, RegistryStored, PointerResolves, Return, store
<1>. QED
  BY <1>1, <1>2, Unfinished DEF IInv, Ended

\* A rollback that is cut short is the one that lapses.
LEMMA StopStep ==
  ASSUME IInv, Stop
  PROVE  IInv'
<1>1. call' = Idle /\ call'.op = "idle" /\ UNCHANGED <<disk, pointer, secret, package, calls>>
  BY DEF Stop, Idle, store
<1>2. lapsed' \in BOOLEAN /\ (~lapsed' => ~lapsed /\ call.op # "undo")
  BY DEF Stop, IInv, TypeOK
<1>3. cut' \subseteq Profiles /\ cut \subseteq cut'
  BY CallIs DEF Stop, IInv, TypeOK, Deletions, Activations
<1>4. TypeOK'
  BY <1>1, <1>2, <1>3 DEF IInv, TypeOK
<1>5. RegistryStored'
  BY <1>1, <1>2 DEF IInv, RegistryStored
<1>6. PointerResolves'
  BY <1>1, <1>2, <1>3 DEF IInv, PointerResolves, Stop
<1>. QED
  BY <1>1, <1>4, <1>5, <1>6, Unfinished DEF IInv, Ended, CallTyped, Doing

-----------------------------------------------------------------------------
(* Imports.                                                                *)

\* An import begins: nothing is done, and what it found is what there is.
LEMMA ImportBegins ==
  ASSUME IInv, NEW k \in Package, Import(k)
  PROVE  IInv'
<1>0. PICK r : r = [op |-> "import", stage |-> "providers", pkg |-> k, before |-> disk, todo |-> Listed(k.prov),
                    taken |-> {}, created |-> {}, registry |-> disk.registry]
  OBVIOUS
<1>1. disk \in Disk /\ disk.registry \in [Skills -> SUBSET Hashes] /\ Listed(k.prov) \subseteq Providers
  BY DiskFields, PackageFields DEF IInv, TypeOK
<1>2. r \in Imports /\ r \in Running
  BY <1>0, <1>1 DEF Imports, Running, Stages
<1>3. calls' \in 0..MaxCalls /\ call = Idle /\ call' = r
  BY <1>0, CallsCounted DEF Import, IInv
<1>4. /\ r.op = "import" /\ r.stage = "providers" /\ r.pkg = k /\ r.before = disk /\ r.todo = Listed(k.prov)
      /\ r.taken = {} /\ r.created = {} /\ r.registry = disk.registry
  BY <1>0
<1>5. call.op = "idle"
  BY <1>3 DEF Idle
<1>6. RegistryStored' /\ PointerResolves' /\ TypeOK' /\ CallTyped'
  BY <1>2, <1>3, <1>4, <1>5 DEF IInv, TypeOK, CallTyped, RegistryStored, PointerResolves, Import, store
<1>7. BeforeSo(r)'
  BY <1>4, <1>5 DEF IInv, RegistryStored, PointerResolves, BeforeSo, Stored, Import, store
<1>8. ImportSo(r)
  <2>1. ProfilesDone(r) = {} /\ SkillsDone(r) = {} /\ Refreshed(r) = {}
    BY <1>4 DEF ProfilesDone, SkillsDone, Refreshed
  <2>2. ~lapsed => Stored(disk.registry, disk.trees)
    BY <1>5 DEF IInv, RegistryStored, Stored
  <2>3. ProvidersSo(r) /\ TodoSo(r) /\ TreesSo(r)
    BY <1>4 DEF ProvidersSo, TodoSo, TreesSo
  <2>4. ProfilesSo(r) /\ MadeSo(r) /\ SkillsSo(r)
    BY <1>4, <2>1, <2>2 DEF ProfilesSo, MadeSo, SkillsSo
  <2>. QED
    BY <2>3, <2>4 DEF ImportSo
<1>9. ImportSo(r)'
  BY <1>8 DEF ImportSo, ProvidersSo, ProfilesSo, SkillsSo, MadeSo, TreesSo, TodoSo, Import, store
<1>10. Doing'
  BY <1>3, <1>4, <1>7, <1>9 DEF Doing
<1>. QED
  BY <1>3, <1>4, <1>6, <1>10, Unfinished DEF IInv, Ended

\* How the record of an import goes on.
Moved(c, s, t) == [c EXCEPT !.stage = s, !.todo = t]
Dropped(c, x) == [c EXCEPT !.todo = @ \ {x}]
Takes(c, p) == [c EXCEPT !.todo = @ \ {p}, !.taken = @ \cup {p}]
Learns(c, s, m, h) == [c EXCEPT !.todo = @ \ {s}, !.created = @ \cup m, !.registry[s] = @ \cup {h}]

SameImport(r, c) == r.op = "import" /\ r.pkg = c.pkg /\ r.before = c.before

\* The record of an import that turns to another store,
LEMMA MovedRecord ==
  ASSUME NEW c \in Imports, NEW s \in Stages, NEW t \in SUBSET (Providers \cup Profiles \cup Skills),
         NEW r, r = Moved(c, s, t)
  PROVE  /\ r \in Imports /\ SameImport(r, c) /\ r.stage = s /\ r.todo = t
         /\ r.taken = c.taken /\ r.created = c.created /\ r.registry = c.registry
  BY DEF Imports, Moved, SameImport

\* is through with an element,
LEMMA DroppedRecord ==
  ASSUME NEW c \in Imports, NEW x, NEW r, r = Dropped(c, x)
  PROVE  /\ r \in Imports /\ SameImport(r, c) /\ r.stage = c.stage /\ r.todo = c.todo \ {x}
         /\ r.taken = c.taken /\ r.created = c.created /\ r.registry = c.registry
  BY DEF Imports, Dropped, SameImport

\* has written a Provider,
LEMMA TakesRecord ==
  ASSUME NEW c \in Imports, NEW p \in Providers, NEW r, r = Takes(c, p)
  PROVE  /\ r \in Imports /\ SameImport(r, c) /\ r.stage = c.stage /\ r.todo = c.todo \ {p}
         /\ r.taken = c.taken \cup {p} /\ r.created = c.created /\ r.registry = c.registry
  BY DEF Imports, Takes, SameImport

\* What the import has learnt of a Skill.
Learnt(r, c, s, m, h) ==
  /\ SameImport(r, c) /\ r.stage = c.stage /\ r.todo = c.todo \ {s}
  /\ r.taken = c.taken /\ r.created = c.created \cup m
  /\ r.registry[s] = c.registry[s] \cup {h}
  /\ \A x \in Skills : x # s => r.registry[x] = c.registry[x]

\* or has stored a Skill.
LEMMA LearnsRecord ==
  ASSUME NEW c \in Imports, NEW s \in Skills, NEW m \in SUBSET Pairs, NEW h \in Hashes, NEW r, r = Learns(c, s, m, h)
  PROVE  r \in Imports /\ Learnt(r, c, s, m, h)
<1>. DEFINE g == [c.registry EXCEPT ![s] = c.registry[s] \cup {h}]
            t == c.todo \ {s}
            k == c.created \cup m
            d == [c EXCEPT !.todo = t, !.created = k, !.registry = g]
<1>1. c.registry \in [Skills -> SUBSET Hashes]
  BY DEF Imports
<1>2. /\ g \in [Skills -> SUBSET Hashes] /\ g[s] = c.registry[s] \cup {h}
      /\ \A x \in Skills : x # s => g[x] = c.registry[x]
  BY <1>1
<1>3. r = d
  BY DEF Learns, Imports
<1>4. t \in SUBSET (Providers \cup Profiles \cup Skills) /\ k \in SUBSET Pairs
  BY DEF Imports
<1>. HIDE DEF g, t, k
<1>5. d \in Imports /\ SameImport(d, c) /\ d.stage = c.stage /\ d.todo = t /\ d.taken = c.taken /\ d.created = k /\ d.registry = g
  BY <1>2, <1>4 DEF Imports, SameImport
<1>. HIDE DEF d
<1>. QED
  BY <1>2, <1>3, <1>5 DEF t, k, Learnt

\* An imported Profile is a Profile.
LEMMA ProfileOfRecord ==
  ASSUME NEW b, NEW k \in Package, NEW q \in Listed(k.prof)
  PROVE  ProfileOf(b, k, q) \in Record /\ ProfileOf(b, k, q) # None
<1>1. k.prof[q] \in Providers
  BY PackageFields
<1>2. ProfileOf(b, k, q) \in Record
  BY <1>1, Zenon DEF ProfileOf, Record
<1>. QED
  BY <1>2, TransferAssumption

\* Where an import is: its record, and what it knows.
LEMMA ImportIs ==
  ASSUME IInv, call.op = "import"
  PROVE  /\ call \in Imports /\ call \in Running /\ call.pkg \in Package /\ call.before \in Disk /\ disk \in Disk
         /\ call.stage \in Stages /\ call.taken \subseteq Providers
         /\ ProvidersSo(call) /\ ProfilesSo(call) /\ SkillsSo(call) /\ MadeSo(call) /\ TreesSo(call) /\ TodoSo(call)
         /\ BeforeSo(call)
<1>1. call \in Imports
  BY CallIs DEF IInv
<1>. QED
  BY <1>1 DEF IInv, TypeOK, Doing, ImportSo, Imports, Running

\* An import that goes on.
LEMMA ImportGoesOn ==
  ASSUME IInv, call.op = "import", NEW r \in Imports, call' = r, SameImport(r, call), disk' \in Disk, Rest, ImportSo(r)'
  PROVE  IInv'
<1>1. r.op = "import" /\ r.pkg \in Package /\ r \in Running
  BY DEF Imports, Running
<1>2. BeforeSo(r)'
  BY ImportIs DEF BeforeSo, SameImport, Rest
<1>3. TypeOK' /\ CallTyped' /\ Doing'
  BY <1>1, <1>2 DEF IInv, TypeOK, CallTyped, Doing, Rest
<1>4. RegistryStored'
  BY <1>1, <1>2 DEF RegistryStored, ImportSo, SkillsSo, TreesSo, BeforeSo, Stored
<1>5. PointerResolves'
  <2>1. ASSUME pointer' # None, disk'.prof[pointer'] = None
        PROVE  r.before.prof[pointer'] = None
    <3>1. pointer' \in Profiles
      BY <2>1 DEF IInv, TypeOK, Rest
    <3>2. ProfilesDone(r) \subseteq Listed(r.pkg.prof)
      BY DEF ProfilesDone, Imports, Stages
    <3>3. pointer' \notin ProfilesDone(r)
      <4>1. ProfilesSo(r)'
        BY DEF ImportSo
      <4>. QED
        BY <1>1, <2>1, <3>1, <3>2, <4>1, ProfileOfRecord DEF ProfilesSo
    <3>. QED
      BY <2>1, <3>1, <3>3 DEF ImportSo, ProfilesSo
  <2>. QED
    BY <1>1, <1>2, <2>1 DEF PointerResolves, BeforeSo
<1>. QED
  BY <1>1, <1>3, <1>4, <1>5, Unfinished DEF IInv, Ended

\* One store of the disk is changed.
WithEntry(p, x) == [disk EXCEPT !.prov[p] = x]

\* Writing one Provider keeps the other Providers and stores.
LEMMA EntryDisk ==
  ASSUME disk \in Disk, NEW p \in Providers, NEW x \in Entry \cup {None}, NEW e, e = WithEntry(p, x)
  PROVE  /\ e \in Disk /\ SameBut(e, disk, "prov") /\ e.prov[p] = x
         /\ \A r \in Providers : r # p => e.prov[r] = disk.prov[r]
<1>. DEFINE v == [disk.prov EXCEPT ![p] = x]
            d == [disk EXCEPT !.prov = v]
<1>1. disk.prov \in [Providers -> Entry \cup {None}]
  BY DiskFields
<1>2. e = d
  BY DEF Disk, WithEntry
<1>3. v \in [Providers -> Entry \cup {None}] /\ v[p] = x /\ \A r \in Providers : r # p => v[r] = disk.prov[r]
  BY <1>1
<1>. HIDE DEF v
<1>4. d \in Disk /\ d.prov = v /\ SameBut(d, disk, "prov")
  BY <1>3, DiskChanges
<1>. HIDE DEF d
<1>. QED
  BY <1>2, <1>3, <1>4

\* An imported Provider is a Provider, with the endpoint of the package.
LEMMA EntryOfEntry ==
  ASSUME NEW b, NEW k \in Package, NEW p \in Listed(k.prov)
  PROVE  EntryOf(b, k, p) \in Entry /\ EntryOf(b, k, p).base = k.prov[p]
<1>1. k.prov[p] \in Bases
  BY PackageFields
<1>2. EntryOf(b, k, p) \in Entry
  BY <1>1, Zenon DEF EntryOf, Entry
<1>. QED
  BY <1>2 DEF EntryOf

\* A Provider is imported.
LEMMA ImportProviderStep ==
  ASSUME IInv, NEW p \in Providers, ImportProvider(p)
  PROVE  IInv'
<1>1. call.op = "import" /\ call.stage = "providers" /\ p \in call.todo
  BY DEF ImportProvider, Importing
<1>2. PICK r : r = Takes(call, p)
  OBVIOUS
<1>3. /\ r \in Imports /\ SameImport(r, call) /\ r.stage = call.stage /\ r.todo = call.todo \ {p}
      /\ r.taken = call.taken \cup {p} /\ r.created = call.created /\ r.registry = call.registry
  BY <1>1, <1>2, ImportIs, TakesRecord
<1>4. p \in Listed(call.pkg.prov) /\ p \notin call.taken /\ disk.prov[p] = call.before.prov[p]
  BY <1>1, ImportIs DEF TodoSo, ProvidersSo
<1>5. Merged(p) = EntryOf(call.before, call.pkg, p)
  BY <1>4, Zenon DEF Merged, EntryOf
<1>6. Merged(p) \in Entry
  BY <1>1, <1>4, <1>5, ImportIs, EntryOfEntry
<1>7. call' = r /\ disk' = WithEntry(p, Merged(p)) /\ Rest
  BY <1>2 DEF ImportProvider, Takes, WithEntry
<1>8. /\ disk' \in Disk /\ SameBut(disk', disk, "prov") /\ disk'.prov[p] = Merged(p)
      /\ \A x \in Providers : x # p => disk'.prov[x] = disk.prov[x]
  BY <1>1, <1>6, <1>7, ImportIs, EntryDisk
<1>9. ProvidersSo(r)'
  <2>1. r.taken = Listed(r.pkg.prov) \ r.todo
    BY <1>1, <1>3, <1>4, ImportIs DEF ProvidersSo, SameImport
  <2>2. \A x \in Providers : disk'.prov[x] = IF x \in r.taken THEN EntryOf(r.before, r.pkg, x) ELSE r.before.prov[x]
    BY <1>1, <1>3, <1>4, <1>5, <1>8, ImportIs DEF ProvidersSo, SameImport
  <2>. QED
    BY <1>1, <1>3, <2>1, <2>2 DEF ProvidersSo
<1>10. ProfilesDone(r) = ProfilesDone(call) /\ SkillsDone(r) = SkillsDone(call) /\ Refreshed(r) = Refreshed(call)
  BY <1>1, <1>3 DEF ProfilesDone, SkillsDone, Refreshed, SameImport
<1>11. ProfilesSo(r)' /\ MadeSo(r)' /\ TreesSo(r)' /\ TodoSo(r)'
  BY <1>1, <1>3, <1>4, <1>8, <1>10, ImportIs DEF ProfilesSo, MadeSo, TreesSo, TodoSo, SameBut, SameImport
<1>12. SkillsSo(r)'
  BY <1>1, <1>3, <1>7, <1>8, <1>10, ImportIs DEF SkillsSo, Rest, SameBut, SameImport
<1>. QED
  BY <1>1, <1>3, <1>7, <1>8, <1>9, <1>11, <1>12, ImportGoesOn DEF ImportSo

\* The import turns to the next store.
LEMMA ProvidersDoneStep ==
  ASSUME IInv, ProvidersDone
  PROVE  IInv'
<1>1. call.op = "import" /\ call.stage = "providers" /\ call.todo = {}
  BY DEF ProvidersDone, Importing
<1>. DEFINE t == Listed(call.pkg.prof)
<1>2. PICK r : r = Moved(call, "profiles", t)
  OBVIOUS
<1>3. t \subseteq Profiles /\ "profiles" \in Stages
  BY <1>1, ImportIs, PackageFields DEF Stages
<1>. HIDE DEF t
<1>4. /\ r \in Imports /\ SameImport(r, call) /\ r.stage = "profiles" /\ r.todo = t
      /\ r.taken = call.taken /\ r.created = call.created /\ r.registry = call.registry
  BY <1>1, <1>2, <1>3, ImportIs, MovedRecord
<1>5. call' = r /\ UNCHANGED disk /\ Rest
  BY <1>2 DEF ProvidersDone, Goes, Moved, t
<1>6. ProvidersSo(r)'
  BY <1>1, <1>4, <1>5, ImportIs DEF ProvidersSo, SameImport
<1>7. ProfilesDone(r) = {} /\ ProfilesDone(call) = {} /\ SkillsDone(r) = SkillsDone(call) /\ Refreshed(r) = Refreshed(call)
  BY <1>1, <1>4 DEF ProfilesDone, SkillsDone, Refreshed, SameImport, t
<1>8. ProfilesSo(r)' /\ MadeSo(r)' /\ TreesSo(r)' /\ TodoSo(r)'
  BY <1>1, <1>4, <1>5, <1>7, ImportIs DEF ProfilesSo, MadeSo, TreesSo, TodoSo, SameImport, t
<1>9. SkillsSo(r)'
  BY <1>1, <1>4, <1>5, <1>7, ImportIs DEF SkillsSo, Rest, SameImport
<1>10. disk' \in Disk
  BY <1>1, <1>5, ImportIs
<1>. QED
  BY <1>1, <1>4, <1>5, <1>6, <1>8, <1>9, <1>10, ImportGoesOn DEF ImportSo

\* A Profile is imported.
LEMMA ImportProfileStep ==
  ASSUME IInv, NEW q \in Profiles, ImportProfile(q)
  PROVE  IInv'
<1>1. call.op = "import" /\ call.stage = "profiles" /\ q \in call.todo
  BY DEF ImportProfile, Importing
<1>2. PICK r : r = Dropped(call, q)
  OBVIOUS
<1>3. /\ r \in Imports /\ SameImport(r, call) /\ r.stage = call.stage /\ r.todo = call.todo \ {q}
      /\ r.taken = call.taken /\ r.created = call.created /\ r.registry = call.registry
  BY <1>1, <1>2, ImportIs, DroppedRecord
<1>4. q \in Listed(call.pkg.prof) /\ call.pkg.prof[q] \in Providers
  BY <1>1, ImportIs, PackageFields DEF TodoSo
<1>5. q \notin ProfilesDone(call) /\ disk.prof[q] = call.before.prof[q]
  <2>1. q \notin ProfilesDone(call)
    BY <1>1 DEF ProfilesDone
  <2>. QED
    BY <1>1, <2>1, ImportIs DEF ProfilesSo
<1>6. RecordOf(q, call.pkg.prof[q], FALSE) = ProfileOf(call.before, call.pkg, q)
  BY <1>5, Zenon DEF RecordOf, ProfileOf
<1>. DEFINE x == ProfileOf(call.before, call.pkg, q)
<1>7. x \in Record
  BY <1>1, <1>4, ImportIs, ProfileOfRecord
<1>8. Written(q, call.pkg.prof[q], FALSE) = WithProfile(q, RecordOf(q, call.pkg.prof[q], FALSE))
  BY <1>1, <1>4, ImportIs, WrittenRecord
<1>9. call' = r /\ disk' = WithProfile(q, x) /\ Rest
  BY <1>2, <1>6, <1>8 DEF ImportProfile, Dropped
<1>. HIDE DEF x
<1>10. /\ disk' \in Disk /\ SameBut(disk', disk, "prof") /\ disk'.prof[q] = x
       /\ \A y \in Profiles : y # q => disk'.prof[y] = disk.prof[y]
  BY <1>1, <1>7, <1>9, ImportIs, WrittenDisk
<1>11. ProfilesSo(r)'
  <2>1. ProfilesDone(r) = ProfilesDone(call) \cup {q}
    BY <1>1, <1>3, <1>4 DEF ProfilesDone, SameImport
  <2>2. \A y \in Profiles : disk'.prof[y] = IF y \in ProfilesDone(r) THEN ProfileOf(r.before, r.pkg, y) ELSE r.before.prof[y]
    BY <1>1, <1>3, <1>10, <2>1, ImportIs DEF ProfilesSo, SameImport, x
  <2>. QED
    BY <2>2 DEF ProfilesSo
<1>12. SkillsDone(r) = SkillsDone(call) /\ Refreshed(r) = Refreshed(call)
  BY <1>1, <1>3 DEF SkillsDone, Refreshed
<1>13. ProvidersSo(r)' /\ MadeSo(r)' /\ TreesSo(r)' /\ TodoSo(r)'
  BY <1>1, <1>3, <1>10, <1>12, ImportIs DEF ProvidersSo, MadeSo, TreesSo, TodoSo, SameBut, SameImport
<1>14. SkillsSo(r)'
  BY <1>1, <1>3, <1>9, <1>10, <1>12, ImportIs DEF SkillsSo, Rest, SameBut, SameImport
<1>. QED
  BY <1>1, <1>3, <1>9, <1>10, <1>11, <1>13, <1>14, ImportGoesOn DEF ImportSo

\* The MCP registry is imported, and the import turns to the Skills.
LEMMA ImportMcpStep ==
  ASSUME IInv, ImportMcp
  PROVE  IInv'
<1>1. call.op = "import" /\ call.stage = "profiles" /\ call.todo = {}
  BY DEF ImportMcp, Importing
<1>. DEFINE t == Listed(call.pkg.skills)
<1>2. PICK r : r = Moved(call, "skills", t)
  OBVIOUS
<1>3. t \subseteq Skills /\ "skills" \in Stages
  BY <1>1, ImportIs, PackageFields DEF Stages
<1>. HIDE DEF t
<1>4. /\ r \in Imports /\ SameImport(r, call) /\ r.stage = "skills" /\ r.todo = t
      /\ r.taken = call.taken /\ r.created = call.created /\ r.registry = call.registry
  BY <1>1, <1>2, <1>3, ImportIs, MovedRecord
<1>5. call' = r /\ Rest
  BY <1>2 DEF ImportMcp, Goes, Moved, t
<1>6. disk' \in Disk /\ SameBut(disk', disk, "mcp")
  <2>. DEFINE e == [disk EXCEPT !.mcp = "imported"]
  <2>1. e \in Disk /\ SameBut(e, disk, "mcp")
    BY <1>1, ImportIs, DiskChanges
  <2>2. disk' \in {e, disk}
    BY DEF ImportMcp
  <2>. HIDE DEF e
  <2>. QED
    BY <1>1, <2>1, <2>2, ImportIs DEF SameBut
<1>7. ProfilesDone(r) = ProfilesDone(call) /\ Refreshed(r) = Refreshed(call)
  BY <1>1, <1>4 DEF ProfilesDone, Refreshed, SameImport
<1>8. ProvidersSo(r)' /\ ProfilesSo(r)' /\ MadeSo(r)' /\ TreesSo(r)' /\ TodoSo(r)'
  BY <1>1, <1>4, <1>6, <1>7, ImportIs DEF ProvidersSo, ProfilesSo, MadeSo, TreesSo, TodoSo, SameImport, SameBut, t
<1>9. SkillsSo(r)'
  <2>1. SkillsDone(call) = {} /\ SkillsDone(r) = Skills \ t
    BY <1>1, <1>4 DEF SkillsDone
  <2>2. \A s \in Skills \ t : VariantsOf(r.before, r.pkg, s) = r.before.registry[s]
    <3>1. \A s \in Skills \ t : call.pkg.skills[s] = None
      BY <1>1, ImportIs, PackageFields DEF Listed, t
    <3>. QED
      BY <1>4, <3>1 DEF VariantsOf, SameImport
  <2>. QED
    BY <1>1, <1>4, <1>5, <1>6, <2>1, <2>2, ImportIs DEF SkillsSo, Rest, SameImport, SameBut
<1>. QED
  BY <1>1, <1>4, <1>5, <1>6, <1>8, <1>9, ImportGoesOn DEF ImportSo

\* A Skill is skipped: the registry to be saved stays as it was.
LEMMA SkillSkipped ==
  ASSUME IInv, NEW s \in Skills, ImportSkill(s), call.pkg.policy = "skip", call.registry[s] # {}
  PROVE  IInv'
<1>1. call.op = "import" /\ call.stage = "skills" /\ s \in call.todo
  BY DEF ImportSkill, Importing
<1>2. PICK r : r = Dropped(call, s)
  OBVIOUS
<1>3. /\ r \in Imports /\ SameImport(r, call) /\ r.stage = call.stage /\ r.todo = call.todo \ {s}
      /\ r.taken = call.taken /\ r.created = call.created /\ r.registry = call.registry
  BY <1>1, <1>2, ImportIs, DroppedRecord
<1>4. call' = r /\ UNCHANGED disk /\ Rest
  BY <1>2 DEF ImportSkill, Dropped
<1>5. ProfilesDone(r) = ProfilesDone(call) /\ Refreshed(r) = Refreshed(call)
  BY <1>1, <1>3 DEF ProfilesDone, Refreshed, SameImport
<1>6. ProvidersSo(r)' /\ ProfilesSo(r)' /\ MadeSo(r)' /\ TreesSo(r)' /\ TodoSo(r)' /\ disk' \in Disk
  BY <1>1, <1>3, <1>4, <1>5, ImportIs DEF ProvidersSo, ProfilesSo, MadeSo, TreesSo, TodoSo, SameImport
<1>7. SkillsSo(r)'
  <2>1. SkillsDone(r) = SkillsDone(call) \cup {s} /\ s \notin SkillsDone(call)
    BY <1>1, <1>3 DEF SkillsDone
  <2>2. call.registry[s] = call.before.registry[s]
    BY <1>1, <2>1, ImportIs DEF SkillsSo
  <2>3. VariantsOf(r.before, r.pkg, s) = r.registry[s]
    BY <1>3, <2>2 DEF VariantsOf, SameImport
  <2>. QED
    BY <1>1, <1>3, <1>4, <2>1, <2>3, ImportIs DEF SkillsSo, Rest, SameImport
<1>. QED
  BY <1>1, <1>3, <1>4, <1>6, <1>7, ImportGoesOn DEF ImportSo

\* A Skill is stored: its tree is there before the registry names it.
LEMMA SkillLearnt ==
  ASSUME IInv, NEW s \in Skills, ImportSkill(s), ~(call.pkg.policy = "skip" /\ call.registry[s] # {})
  PROVE  IInv'
<1>1. call.op = "import" /\ call.stage = "skills" /\ s \in call.todo
  BY DEF ImportSkill, Importing
<1>2. PICK h : h = call.pkg.skills[s]
  OBVIOUS
<1>3. h \in Hashes /\ s \in Listed(call.pkg.skills)
  BY <1>1, <1>2, ImportIs, PackageFields DEF TodoSo
<1>4. PICK m : m = Creates(s, h)
  OBVIOUS
<1>5. m \in SUBSET Pairs /\ m = {<<s, h>>} \ disk.trees
  BY <1>3, <1>4 DEF Creates, Pairs
<1>6. PICK r : r = Learns(call, s, m, h)
  OBVIOUS
<1>7. /\ r \in Imports /\ SameImport(r, call) /\ r.stage = call.stage /\ r.todo = call.todo \ {s}
      /\ r.taken = call.taken /\ r.created = call.created \cup m
      /\ r.registry[s] = call.registry[s] \cup {h}
      /\ \A x \in Skills : x # s => r.registry[x] = call.registry[x]
  <2>1. call \in Imports
    BY <1>1, ImportIs
  <2>. QED
    <3>1. h \in Hashes /\ m \in SUBSET Pairs
      BY <1>3, <1>5
    <3>2. r \in Imports /\ Learnt(r, call, s, m, h)
      BY <1>6, <2>1, <3>1, LearnsRecord
    <3>. QED
      BY <3>2 DEF Learnt
<1>8. call' = r /\ disk' = [disk EXCEPT !.trees = @ \cup {<<s, h>>}] /\ Rest
  BY <1>2, <1>4, <1>6 DEF ImportSkill, Learns
<1>9. disk' \in Disk /\ SameBut(disk', disk, "trees") /\ disk'.trees = disk.trees \cup {<<s, h>>}
  <2>. DEFINE t == disk.trees \cup {<<s, h>>}
              e == [disk EXCEPT !.trees = t]
  <2>1. t \in SUBSET Pairs
    BY <1>1, <1>3, ImportIs, DiskFields DEF Pairs
  <2>. HIDE DEF t
  <2>2. e \in Disk /\ e.trees = t /\ SameBut(e, disk, "trees")
    BY <1>1, <2>1, ImportIs, DiskChanges
  <2>3. disk' = e
    BY <1>8 DEF t
  <2>. HIDE DEF e
  <2>. QED
    BY <2>2, <2>3 DEF t
<1>10. ProfilesDone(r) = ProfilesDone(call) /\ Refreshed(r) = Refreshed(call)
  BY <1>1, <1>7 DEF ProfilesDone, Refreshed, SameImport
<1>11. ProvidersSo(r)' /\ ProfilesSo(r)' /\ MadeSo(r)' /\ TodoSo(r)'
  BY <1>1, <1>7, <1>9, <1>10, ImportIs DEF ProvidersSo, ProfilesSo, MadeSo, TodoSo, SameImport, SameBut
<1>12. TreesSo(r)'
  BY <1>1, <1>5, <1>7, <1>9, ImportIs DEF TreesSo, SameImport
<1>13. SkillsSo(r)'
  <2>1. SkillsDone(r) = SkillsDone(call) \cup {s} /\ s \notin SkillsDone(call)
    BY <1>1, <1>7 DEF SkillsDone
  <2>2. call.registry[s] = call.before.registry[s]
    BY <1>1, <2>1, ImportIs DEF SkillsSo
  <2>3. VariantsOf(r.before, r.pkg, s) = r.registry[s]
    BY <1>2, <1>3, <1>7, <2>2, TransferAssumption DEF VariantsOf, SameImport
  <2>4. \A x \in Skills : r.registry[x] = IF x \in SkillsDone(r) THEN VariantsOf(r.before, r.pkg, x) ELSE r.before.registry[x]
    BY <1>1, <1>7, <2>1, <2>3, ImportIs DEF SkillsSo, SameImport
  <2>5. disk'.registry = r.before.registry /\ r.stage = "skills"
    BY <1>1, <1>7, <1>9, ImportIs DEF SkillsSo, SameBut, SameImport
  <2>6. ~lapsed' => Stored(r.registry, disk'.trees)
    <3>1. ~lapsed => Stored(call.registry, disk.trees)
      BY <1>1, ImportIs DEF SkillsSo
    <3>. QED
      BY <1>7, <1>8, <1>9, <3>1 DEF Stored, Rest
  <2>. QED
    BY <2>4, <2>5, <2>6 DEF SkillsSo
<1>. QED
  BY <1>1, <1>7, <1>8, <1>9, <1>11, <1>12, <1>13, ImportGoesOn DEF ImportSo

\* The registry of the Skills is saved; all it names is stored.
LEMMA SaveRegistryStep ==
  ASSUME IInv, SaveRegistry
  PROVE  IInv'
<1>1. call.op = "import" /\ call.stage = "skills" /\ call.todo = {}
  BY DEF SaveRegistry, Importing
<1>2. PICK r : r = Moved(call, "refresh", call.taken)
  OBVIOUS
<1>3. call.taken \in SUBSET (Providers \cup Profiles \cup Skills) /\ "refresh" \in Stages
  BY <1>1, ImportIs DEF Stages
<1>4. /\ r \in Imports /\ SameImport(r, call) /\ r.stage = "refresh" /\ r.todo = call.taken
      /\ r.taken = call.taken /\ r.created = call.created /\ r.registry = call.registry
  BY <1>1, <1>2, <1>3, ImportIs, MovedRecord
<1>5. call' = r /\ Rest /\ disk' = [disk EXCEPT !.registry = call.registry]
  BY <1>2 DEF SaveRegistry, Goes, Moved
<1>6. disk' \in Disk /\ SameBut(disk', disk, "registry") /\ disk'.registry = call.registry
  <2>. DEFINE e == [disk EXCEPT !.registry = call.registry]
  <2>1. call.registry \in [Skills -> SUBSET Hashes]
    BY <1>1, ImportIs DEF Imports
  <2>2. e \in Disk /\ SameBut(e, disk, "registry") /\ e.registry = call.registry
    BY <1>1, <2>1, ImportIs, DiskChanges
  <2>. HIDE DEF e
  <2>. QED
    BY <1>5, <2>2 DEF e
<1>7. ProfilesDone(r) = ProfilesDone(call) /\ Refreshed(r) = {} /\ Refreshed(call) = {} /\ SkillsDone(r) = Skills /\ SkillsDone(call) = Skills
  BY <1>1, <1>4 DEF ProfilesDone, Refreshed, SkillsDone, SameImport
<1>8. ProvidersSo(r)' /\ ProfilesSo(r)' /\ MadeSo(r)' /\ TreesSo(r)' /\ TodoSo(r)'
  BY <1>1, <1>4, <1>6, <1>7, ImportIs DEF ProvidersSo, ProfilesSo, MadeSo, TreesSo, TodoSo, SameImport, SameBut
<1>9. SkillsSo(r)'
  BY <1>1, <1>4, <1>5, <1>6, <1>7, ImportIs DEF SkillsSo, Rest, SameImport, SameBut
<1>. QED
  BY <1>1, <1>4, <1>5, <1>6, <1>8, <1>9, ImportGoesOn DEF ImportSo

WithMade(p, x) == [disk EXCEPT !.made[p] = x]

\* Rendering the Skills of one Provider keeps those of the others, and the stores.
LEMMA MadeDisk ==
  ASSUME disk \in Disk, NEW p \in Providers, NEW x \in Bases \cup {None}, NEW e, e = WithMade(p, x)
  PROVE  /\ e \in Disk /\ SameBut(e, disk, "made") /\ e.made[p] = x
         /\ \A r \in Providers : r # p => e.made[r] = disk.made[r]
<1>. DEFINE v == [disk.made EXCEPT ![p] = x]
            d == [disk EXCEPT !.made = v]
<1>1. disk.made \in [Providers -> Bases \cup {None}]
  BY DiskFields
<1>2. e = d
  BY DEF Disk, WithMade
<1>3. v \in [Providers -> Bases \cup {None}] /\ v[p] = x /\ \A r \in Providers : r # p => v[r] = disk.made[r]
  BY <1>1
<1>. HIDE DEF v
<1>4. d \in Disk /\ d.made = v /\ SameBut(d, disk, "made")
  BY <1>3, DiskChanges
<1>. HIDE DEF d
<1>. QED
  BY <1>2, <1>3, <1>4

\* The generated Skills of a Provider are rendered again.
LEMMA RefreshStep ==
  ASSUME IInv, NEW p \in Providers, Refresh(p)
  PROVE  IInv'
<1>1. call.op = "import" /\ call.stage = "refresh" /\ p \in call.todo
  BY DEF Refresh, Importing
<1>2. PICK r : r = Dropped(call, p)
  OBVIOUS
<1>3. /\ r \in Imports /\ SameImport(r, call) /\ r.stage = call.stage /\ r.todo = call.todo \ {p}
      /\ r.taken = call.taken /\ r.created = call.created /\ r.registry = call.registry
  BY <1>1, <1>2, ImportIs, DroppedRecord
<1>4. call' = r /\ Rest
  BY <1>2 DEF Refresh, Dropped
<1>5. p \in call.taken /\ p \in Listed(call.pkg.prov)
  BY <1>1, ImportIs DEF TodoSo, ProvidersSo
<1>6. disk.prov[p] = EntryOf(call.before, call.pkg, p)
  BY <1>1, <1>5, ImportIs DEF ProvidersSo
<1>7. disk.prov[p].base = call.pkg.prov[p] /\ call.pkg.prov[p] \in Bases
  BY <1>1, <1>5, <1>6, ImportIs, PackageFields, EntryOfEntry
<1>8. /\ disk' \in Disk /\ SameBut(disk', disk, "made") /\ disk'.made[p] \in {None, call.pkg.prov[p]}
      /\ \A x \in Providers : x # p => disk'.made[x] = disk.made[x]
  <2>1. CASE disk.made[p] = None
    <3>1. disk' = disk
      BY <2>1 DEF Refresh
    <3>. QED
      BY <1>1, <2>1, <3>1, ImportIs DEF SameBut
  <2>2. CASE disk.made[p] # None
    <3>1. disk' = WithMade(p, call.pkg.prov[p])
      BY <1>7, <2>2 DEF Refresh, WithMade
    <3>2. disk \in Disk
      BY <1>1, ImportIs
    <3>. QED
      BY <1>7, <3>1, <3>2, MadeDisk
  <2>. QED
    BY <2>1, <2>2
<1>9. ProfilesDone(r) = ProfilesDone(call) /\ SkillsDone(r) = SkillsDone(call)
  BY <1>1, <1>3 DEF ProfilesDone, SkillsDone, SameImport
<1>10. Refreshed(r) = Refreshed(call) \cup {p}
  BY <1>1, <1>3, <1>5 DEF Refreshed
<1>11. MadeSo(r)'
  BY <1>1, <1>3, <1>8, <1>10, ImportIs DEF MadeSo, SameImport
<1>12. ProvidersSo(r)' /\ ProfilesSo(r)' /\ TreesSo(r)' /\ TodoSo(r)'
  BY <1>1, <1>3, <1>8, <1>9, ImportIs DEF ProvidersSo, ProfilesSo, TreesSo, TodoSo, SameBut, SameImport
<1>13. SkillsSo(r)'
  BY <1>1, <1>3, <1>4, <1>8, <1>9, ImportIs DEF SkillsSo, Rest, SameBut, SameImport
<1>. QED
  BY <1>1, <1>3, <1>4, <1>8, <1>11, <1>12, <1>13, ImportGoesOn DEF ImportSo

\* The import is over: it did what the preview said.
LEMMA ImportedStep ==
  ASSUME IInv, Imported
  PROVE  IInv'
<1>1. call.op = "import" /\ call.stage = "refresh" /\ call.todo = {}
  BY DEF Imported, Importing
<1>2. PICK l : l = call
  OBVIOUS
<1>3. /\ l \in Running /\ l \in Imports /\ l.op = "import" /\ l.stage = "refresh" /\ l.todo = {}
      /\ ProvidersSo(l) /\ ProfilesSo(l) /\ SkillsSo(l) /\ MadeSo(l) /\ l.pkg \in Package /\ l.before \in Disk
  BY <1>1, <1>2, ImportIs
<1>4. call' = [op |-> "done", last |-> l] /\ UNCHANGED disk /\ Rest
  BY <1>2 DEF Imported, Ends
<1>5. TypeOK' /\ CallTyped' /\ Doing' /\ RegistryStored' /\ PointerResolves' /\ DeletionClears' /\ ImportUndone'
  BY <1>1, <1>3, <1>4 DEF IInv, TypeOK, CallTyped, Doing, RegistryStored, PointerResolves, DeletionClears, ImportUndone, Rest
<1>6. ImportComplete'
  <2>. DEFINE old == Conflicts(l.before, l.pkg)
  <2>1. ProfilesDone(l) = Listed(l.pkg.prof) /\ SkillsDone(l) = Skills /\ Refreshed(l) = l.taken /\ l.taken = Listed(l.pkg.prov)
    BY <1>3 DEF ProfilesDone, SkillsDone, Refreshed, ProvidersSo
  <2>2. /\ \A p \in Providers : p \in Listed(l.pkg.prov) <=> l.pkg.prov[p] # None
        /\ \A q \in Profiles : q \in Listed(l.pkg.prof) <=> l.pkg.prof[q] # None
    BY <1>3, PackageFields DEF Listed
  <2>3. ASSUME NEW p \in Providers
        PROVE  IF l.pkg.prov[p] = None THEN disk.prov[p] = l.before.prov[p] /\ disk.made[p] = l.before.made[p]
               ELSE /\ disk.prov[p] = [base |-> l.pkg.prov[p], key |-> p \in old.prov /\ l.before.prov[p].key]
                    /\ disk.made[p] \in {None, l.pkg.prov[p]}
    <3>1. l.pkg.prov[p] # None => (p \in old.prov <=> l.before.prov[p] # None)
      BY DEF Conflicts
    <3>2. disk.prov[p] = IF p \in l.taken THEN EntryOf(l.before, l.pkg, p) ELSE l.before.prov[p]
      BY <1>3 DEF ProvidersSo
    <3>3. IF p \in l.taken THEN disk.made[p] \in {None, l.pkg.prov[p]} ELSE disk.made[p] = l.before.made[p]
      BY <1>3, <2>1 DEF MadeSo
    <3>. HIDE DEF old
    <3>4. l.pkg.prov[p] # None =>
            EntryOf(l.before, l.pkg, p) = [base |-> l.pkg.prov[p], key |-> p \in old.prov /\ l.before.prov[p].key]
      BY <3>1, Zenon DEF EntryOf
    <3>. QED
      BY <2>1, <2>2, <3>2, <3>3, <3>4
  <2>4. ASSUME NEW q \in Profiles
        PROVE  IF l.pkg.prof[q] = None THEN disk.prof[q] = l.before.prof[q]
               ELSE disk.prof[q] = [provider |-> l.pkg.prof[q], activated |-> q \in old.prof /\ l.before.prof[q].activated]
    <3>1. l.pkg.prof[q] # None => (q \in old.prof <=> l.before.prof[q] # None)
      BY DEF Conflicts
    <3>2. disk.prof[q] = IF q \in Listed(l.pkg.prof) THEN ProfileOf(l.before, l.pkg, q) ELSE l.before.prof[q]
      BY <1>3, <2>1 DEF ProfilesSo
    <3>. HIDE DEF old
    <3>3. ((FALSE \/ (l.before.prof[q] # None /\ l.before.prof[q].activated)) <=> (l.before.prof[q] # None /\ l.before.prof[q].activated))
      OBVIOUS
    <3>4. l.pkg.prof[q] # None =>
            ProfileOf(l.before, l.pkg, q) = [provider |-> l.pkg.prof[q], activated |-> q \in old.prof /\ l.before.prof[q].activated]
      BY <3>1, <3>3, Zenon DEF ProfileOf
    <3>. QED
      BY <2>2, <3>2, <3>4
  <2>5. ASSUME NEW s \in Skills
        PROVE  disk.registry[s] = l.before.registry[s] \cup
                 (IF l.pkg.skills[s] = None \/ (s \in old.skills /\ l.pkg.policy = "skip") THEN {} ELSE {l.pkg.skills[s]})
    <3>1. disk.registry[s] = VariantsOf(l.before, l.pkg, s)
      BY <1>3, <2>1 DEF SkillsSo
    <3>2. l.pkg.skills[s] # None => (s \in old.skills <=> l.before.registry[s] # {})
      BY DEF Conflicts
    <3>. HIDE DEF old
    <3>. QED
      BY <3>1, <3>2 DEF VariantsOf
  <2>6. call'.last = l /\ call'.op = "done" /\ disk' = disk
    BY <1>4
  <2>. QED
    BY <2>3, <2>4, <2>5, <2>6 DEF ImportComplete
<1>. QED
  BY <1>5, <1>6 DEF IInv
-----------------------------------------------------------------------------
(* Rollbacks.                                                              *)

\* Where a rollback is: its record, and what it knows.
LEMMA UndoIs ==
  ASSUME IInv, call.op = "undo"
  PROVE  /\ call \in Rollbacks /\ call \in Running /\ call.pkg \in Package /\ call.before \in Disk /\ disk \in Disk
         /\ call.step \in 1..7 /\ call.gone \in BOOLEAN
         /\ UndoneSo(call) /\ BeforeSo(call)
<1>1. call \in Rollbacks
  BY CallIs DEF IInv
<1>. QED
  BY <1>1 DEF IInv, TypeOK, Doing, Rollbacks, Running

\* A step of the import fails: the rollback begins, and only what the import touched differs.
LEMMA FailStep ==
  ASSUME IInv, Fail
  PROVE  IInv'
<1>1. call.op = "import"
  BY DEF Fail
<1>2. PICK r : r = [op |-> "undo", pkg |-> call.pkg, before |-> call.before, created |-> call.created,
                    taken |-> call.taken, step |-> 1, gone |-> FALSE]
  OBVIOUS
<1>3. call' = r /\ UNCHANGED disk /\ Rest
  BY <1>2 DEF Fail
<1>4. /\ r.op = "undo" /\ r.before = call.before /\ r.created = call.created /\ r.taken = call.taken /\ r.step = 1
      /\ r \in Rollbacks /\ r \in Running
  <2>1. call \in Imports /\ 1 \in 1..7
    BY <1>1, ImportIs
  <2>. QED
    BY <1>2, <2>1 DEF Imports, Rollbacks, Running
<1>5. UndoneSo(r)'
  <2>1. \A p \in Providers : p \notin r.taken => disk.made[p] = r.before.made[p]
    BY <1>1, <1>4, ImportIs DEF MadeSo, Refreshed
  <2>2. TreesSo(r)'
    BY <1>1, <1>3, <1>4, ImportIs DEF TreesSo
  <2>. QED
    BY <1>3, <1>4, <2>1, <2>2 DEF UndoneSo
<1>6. BeforeSo(r)'
  BY <1>1, <1>3, <1>4, ImportIs DEF BeforeSo, Rest
<1>7. TypeOK' /\ CallTyped' /\ Doing' /\ RegistryStored' /\ PointerResolves'
  BY <1>3, <1>4, <1>5, <1>6 DEF IInv, TypeOK, CallTyped, Doing, RegistryStored, PointerResolves, Rest
<1>. QED
  BY <1>3, <1>4, <1>7, Unfinished DEF IInv, Ended

\* How the record of a rollback goes on.
Stepped(c) == [c EXCEPT !.step = @ + 1, !.gone = FALSE]
Gone(c) == [c EXCEPT !.gone = TRUE]

SameUndo(r, c) == r.op = "undo" /\ r.before = c.before /\ r.created = c.created /\ r.taken = c.taken

\* The record of a rollback that is through with a file,
LEMMA SteppedRecord ==
  ASSUME NEW c \in Rollbacks, c.step \in 1..6, NEW r, r = Stepped(c)
  PROVE  r \in Rollbacks /\ SameUndo(r, c) /\ r.step = c.step + 1
<1>. DEFINE k == c.step + 1
            d == [c EXCEPT !.step = k]
            e == [d EXCEPT !.gone = FALSE]
<1>1. k \in 1..7
  OBVIOUS
<1>2. r = e
  BY DEF Stepped, Rollbacks
<1>. HIDE DEF k
<1>3. d \in Rollbacks /\ SameUndo(d, c) /\ d.step = k
  BY <1>1 DEF Rollbacks, SameUndo
<1>. HIDE DEF d
<1>4. e \in Rollbacks /\ SameUndo(e, d) /\ e.step = d.step
  BY <1>3 DEF Rollbacks, SameUndo
<1>. HIDE DEF e
<1>. QED
  BY <1>2, <1>3, <1>4 DEF k, SameUndo

\* or has removed it.
LEMMA GoneRecord ==
  ASSUME NEW c \in Rollbacks, NEW r, r = Gone(c)
  PROVE  r \in Rollbacks /\ SameUndo(r, c) /\ r.step = c.step
  BY DEF Rollbacks, SameUndo, Gone

\* A rollback that goes on.
LEMMA UndoGoesOn ==
  ASSUME IInv, call.op = "undo", NEW r \in Rollbacks, call' = r, SameUndo(r, call), disk' \in Disk, Rest, UndoneSo(r)'
  PROVE  IInv'
<1>1. r.op = "undo" /\ r \in Running
  BY DEF Rollbacks, Running
<1>2. BeforeSo(r)'
  BY UndoIs DEF BeforeSo, SameUndo, Rest
<1>3. TypeOK' /\ CallTyped' /\ Doing' /\ RegistryStored' /\ PointerResolves'
  BY <1>1, <1>2 DEF IInv, TypeOK, CallTyped, Doing, RegistryStored, PointerResolves, Rest
<1>. QED
  BY <1>1, <1>3, Unfinished DEF IInv, Ended

\* Which step of the rollback restores what.
LEMMA UndoOrder ==
  ASSUME NEW f, Undoing(f), call.step \in 1..7
  PROVE  /\ call.op = "undo" /\ call.step \in 1..6
         /\ f = "created" => call.step = 1
         /\ f = "made" => call.step = 2
         /\ f = "registry" => call.step = 3
         /\ f = "prov" => call.step = 4
         /\ f = "mcp" => call.step = 5
         /\ f = "prof" => call.step = 6
  BY DEF Undoing, Undo

\* A step of a rollback that is through with its file.
LEMMA UndoStepped ==
  ASSUME IInv, NEW f, Undoing(f), Next1, NEW r, r = Stepped(call)
  PROVE  call' = r /\ r \in Rollbacks /\ SameUndo(r, call) /\ r.step = call.step + 1
<1>1. call.op = "undo"
  BY DEF Undoing
<1>2. call \in Rollbacks /\ call.step \in 1..6
  BY <1>1, UndoIs, UndoOrder
<1>3. call' = r
  BY DEF Next1, Stepped
<1>. QED
  BY <1>2, <1>3, SteppedRecord

\* The trees that the import made are removed, and no other.
LEMMA RemoveCreatedStep ==
  ASSUME IInv, RemoveCreated
  PROVE  IInv'
<1>1. call.op = "undo" /\ call.step = 1 /\ Undoing("created") /\ Next1 /\ Rest
  BY UndoIs, UndoOrder DEF RemoveCreated, Undoing
<1>2. PICK r : r = Stepped(call)
  OBVIOUS
<1>3. call' = r /\ r \in Rollbacks /\ SameUndo(r, call) /\ r.step = 2
  BY <1>1, <1>2, UndoStepped
<1>4. disk' \in Disk /\ SameBut(disk', disk, "trees") /\ disk'.trees = disk.trees \ call.created
  <2>. DEFINE t == disk.trees \ call.created
              e == [disk EXCEPT !.trees = t]
  <2>1. t \in SUBSET Pairs
    BY <1>1, UndoIs, DiskFields
  <2>2. disk' = e
    BY DEF RemoveCreated
  <2>. HIDE DEF t
  <2>3. e \in Disk /\ e.trees = t /\ SameBut(e, disk, "trees")
    BY <1>1, <2>1, UndoIs, DiskChanges
  <2>. HIDE DEF e
  <2>. QED
    BY <2>2, <2>3 DEF t
<1>5. UndoneSo(r)'
  BY <1>1, <1>3, <1>4, UndoIs DEF UndoneSo, TreesSo, SameUndo, SameBut
<1>. QED
  BY <1>1, <1>3, <1>4, <1>5, UndoGoesOn

\* The registry of the Skills is as it was.
LEMMA RestoreRegistryStep ==
  ASSUME IInv, RestoreRegistry
  PROVE  IInv'
<1>1. call.op = "undo" /\ call.step = 3 /\ Undoing("registry") /\ Next1 /\ Rest
  BY UndoIs, UndoOrder DEF RestoreRegistry, Undoing
<1>2. PICK r : r = Stepped(call)
  OBVIOUS
<1>3. call' = r /\ r \in Rollbacks /\ SameUndo(r, call) /\ r.step = 4
  BY <1>1, <1>2, UndoStepped
<1>4. disk' \in Disk /\ SameBut(disk', disk, "registry") /\ disk'.registry = call.before.registry
  <2>. DEFINE e == [disk EXCEPT !.registry = call.before.registry]
  <2>1. call.before.registry \in [Skills -> SUBSET Hashes]
    BY <1>1, UndoIs, DiskFields
  <2>2. disk' = e
    BY DEF RestoreRegistry
  <2>3. e \in Disk /\ e.registry = call.before.registry /\ SameBut(e, disk, "registry")
    BY <1>1, <2>1, UndoIs, DiskChanges
  <2>. HIDE DEF e
  <2>. QED
    BY <2>2, <2>3
<1>5. UndoneSo(r)'
  BY <1>1, <1>3, <1>4, UndoIs DEF UndoneSo, SameUndo, SameBut
<1>. QED
  BY <1>1, <1>3, <1>4, <1>5, UndoGoesOn

\* What a file that is being restored may hold: at first anything, at the end what it held.
LEMMA ErasedDisk ==
  ASSUME IInv, NEW f \in {"made", "prov", "mcp", "prof"}, Undoing(f), NEW e, e = Erased(f)
  PROVE  /\ e \in Disk /\ SameBut(e, disk, f)
         /\ f = "made" => \A p \in Providers : p \notin call.taken => e.made[p] = disk.made[p]
<1>1. disk \in Disk
  BY DEF IInv, TypeOK
<1>2. CASE f = "made"
  <2>. DEFINE v == [p \in Providers |-> IF p \in call.taken THEN None ELSE disk.made[p]]
              d == [disk EXCEPT !.made = v]
  <2>1. v \in [Providers -> Bases \cup {None}] /\ \A p \in Providers : p \notin call.taken => v[p] = disk.made[p]
    BY <1>1, DiskFields
  <2>2. e = d
    BY <1>1, <1>2 DEF Erased, Disk
  <2>. HIDE DEF v
  <2>3. d \in Disk /\ d.made = v /\ SameBut(d, disk, "made")
    BY <1>1, <2>1, DiskChanges
  <2>. HIDE DEF d
  <2>. QED
    BY <1>2, <2>1, <2>2, <2>3
<1>3. CASE f = "prov"
  <2>. DEFINE v == [p \in Providers |-> None]
              d == [disk EXCEPT !.prov = v]
  <2>1. v \in [Providers -> Entry \cup {None}]
    OBVIOUS
  <2>2. e = d
    BY <1>3 DEF Erased
  <2>. HIDE DEF v
  <2>3. d \in Disk /\ SameBut(d, disk, "prov")
    BY <1>1, <2>1, DiskChanges
  <2>. HIDE DEF d
  <2>. QED
    BY <1>3, <2>2, <2>3
<1>4. CASE f = "mcp"
  <2>. DEFINE d == [disk EXCEPT !.mcp = None]
  <2>1. e = d
    BY <1>4 DEF Erased
  <2>2. d \in Disk /\ SameBut(d, disk, "mcp")
    BY <1>1, DiskChanges
  <2>. HIDE DEF d
  <2>. QED
    BY <1>4, <2>1, <2>2
<1>5. CASE f = "prof"
  <2>. DEFINE v == [q \in Profiles |-> None]
              d == [disk EXCEPT !.prof = v]
  <2>1. v \in [Profiles -> Record \cup {None}]
    OBVIOUS
  <2>2. e = d
    BY <1>5 DEF Erased
  <2>. HIDE DEF v
  <2>3. d \in Disk /\ SameBut(d, disk, "prof")
    BY <1>1, <2>1, DiskChanges
  <2>. HIDE DEF d
  <2>. QED
    BY <1>5, <2>2, <2>3
<1>. QED
  BY <1>2, <1>3, <1>4, <1>5

\* What a restored file holds.
LEMMA RestoredDisk ==
  ASSUME IInv, NEW f \in {"made", "prov", "mcp", "prof"}, Undoing(f), NEW e, e = Restored(f)
  PROVE  /\ e \in Disk /\ SameBut(e, disk, f)
         /\ f = "made" => \A p \in Providers : e.made[p] = IF p \in call.taken THEN call.before.made[p] ELSE disk.made[p]
         /\ f = "prov" => e.prov = call.before.prov
         /\ f = "mcp" => e.mcp = call.before.mcp
         /\ f = "prof" => e.prof = call.before.prof
<1>1. disk \in Disk /\ call.before \in Disk
  BY UndoIs DEF Undoing
<1>2. CASE f = "made"
  <2>. DEFINE v == [p \in Providers |-> IF p \in call.taken THEN call.before.made[p] ELSE disk.made[p]]
              d == [disk EXCEPT !.made = v]
  <2>1. /\ v \in [Providers -> Bases \cup {None}]
        /\ \A p \in Providers : v[p] = IF p \in call.taken THEN call.before.made[p] ELSE disk.made[p]
    BY <1>1, DiskFields
  <2>2. e = d
    BY <1>1, <1>2 DEF Restored, Disk
  <2>. HIDE DEF v
  <2>3. d \in Disk /\ d.made = v /\ SameBut(d, disk, "made")
    BY <1>1, <2>1, DiskChanges
  <2>. HIDE DEF d
  <2>. QED
    BY <1>2, <2>1, <2>2, <2>3
<1>3. CASE f = "prov"
  <2>. DEFINE d == [disk EXCEPT !.prov = call.before.prov]
  <2>1. e = d
    BY <1>3 DEF Restored
  <2>2. d \in Disk /\ d.prov = call.before.prov /\ SameBut(d, disk, "prov")
    BY <1>1, DiskFields, DiskChanges
  <2>. HIDE DEF d
  <2>. QED
    BY <1>3, <2>1, <2>2
<1>4. CASE f = "mcp"
  <2>. DEFINE d == [disk EXCEPT !.mcp = call.before.mcp]
  <2>1. e = d
    BY <1>4 DEF Restored
  <2>2. d \in Disk /\ d.mcp = call.before.mcp /\ SameBut(d, disk, "mcp")
    BY <1>1, DiskFields, DiskChanges
  <2>. HIDE DEF d
  <2>. QED
    BY <1>4, <2>1, <2>2
<1>5. CASE f = "prof"
  <2>. DEFINE d == [disk EXCEPT !.prof = call.before.prof]
  <2>1. e = d
    BY <1>5 DEF Restored
  <2>2. d \in Disk /\ d.prof = call.before.prof /\ SameBut(d, disk, "prof")
    BY <1>1, DiskFields, DiskChanges
  <2>. HIDE DEF d
  <2>. QED
    BY <1>5, <2>1, <2>2
<1>. QED
  BY <1>2, <1>3, <1>4, <1>5

\* A file is removed, then written as it was.
LEMMA RestoreStep ==
  ASSUME IInv, NEW f \in {"made", "prov", "mcp", "prof"}, Restore(f)
  PROVE  IInv'
<1>1. call.op = "undo" /\ Undoing(f) /\ Rest
  BY DEF Restore, Undoing
<1>2. /\ f = "made" => call.step = 2
      /\ f = "prov" => call.step = 4
      /\ f = "mcp" => call.step = 5
      /\ f = "prof" => call.step = 6
  BY <1>1, UndoIs, UndoOrder
<1>3. CASE call.gone
  <2>1. PICK r : r = Stepped(call)
    OBVIOUS
  <2>2. disk' = Restored(f) /\ Next1
    BY <1>3 DEF Restore
  <2>3. call' = r /\ r \in Rollbacks /\ SameUndo(r, call) /\ r.step = call.step + 1
    BY <1>1, <2>1, <2>2, UndoStepped
  <2>4. PICK e : e = Restored(f)
    OBVIOUS
  <2>5. /\ e \in Disk /\ SameBut(e, disk, f)
        /\ f = "made" => \A p \in Providers : e.made[p] = IF p \in call.taken THEN call.before.made[p] ELSE disk.made[p]
        /\ f = "prov" => e.prov = call.before.prov
        /\ f = "mcp" => e.mcp = call.before.mcp
        /\ f = "prof" => e.prof = call.before.prof
    BY <1>1, <2>4, RestoredDisk
  <2>6. disk' = e
    BY <2>2, <2>4
  <2>7. UndoneSo(call) /\ call.step \in 1..7
    BY <1>1, UndoIs
  <2>8. UndoneSo(r)'
    BY <1>2, <2>3, <2>5, <2>6, <2>7 DEF UndoneSo, SameUndo, SameBut
  <2>. QED
    BY <1>1, <2>3, <2>5, <2>6, <2>8, UndoGoesOn
<1>4. CASE ~call.gone
  <2>1. PICK r : r = Gone(call)
    OBVIOUS
  <2>2. disk' = Erased(f) /\ call' = r
    BY <1>4, <2>1 DEF Restore, Gone
  <2>3. r \in Rollbacks /\ SameUndo(r, call) /\ r.step = call.step
    BY <1>1, <2>1, UndoIs, GoneRecord
  <2>4. PICK e : e = Erased(f)
    OBVIOUS
  <2>5. /\ e \in Disk /\ SameBut(e, disk, f)
        /\ f = "made" => \A p \in Providers : p \notin call.taken => e.made[p] = disk.made[p]
    BY <1>1, <2>4, ErasedDisk
  <2>6. disk' = e
    BY <2>2, <2>4
  <2>7. UndoneSo(call)
    BY <1>1, UndoIs
  <2>8. UndoneSo(r)'
    BY <1>2, <2>3, <2>5, <2>6, <2>7 DEF UndoneSo, SameUndo, SameBut
  <2>. QED
    BY <1>1, <2>2, <2>3, <2>5, <2>6, <2>8, UndoGoesOn
<1>. QED
  BY <1>3, <1>4

\* The rollback is over: everything is as it was.
LEMMA UndoneStep ==
  ASSUME IInv, Undone
  PROVE  IInv'
<1>1. call.op = "undo" /\ call.step = 7
  BY UndoIs DEF Undone, Undo
<1>2. PICK l : l = call
  OBVIOUS
<1>3. l \in Running /\ l.op = "undo" /\ l.step = 7 /\ l.before \in Disk /\ disk \in Disk /\ UndoneSo(l) /\ BeforeSo(l)
  BY <1>1, <1>2, UndoIs
<1>4. call' = [op |-> "done", last |-> l] /\ UNCHANGED disk /\ Rest
  BY <1>2 DEF Undone, Ends
<1>5. disk = l.before
  <2>1. /\ disk.trees = l.before.trees /\ disk.registry = l.before.registry /\ disk.prov = l.before.prov
        /\ disk.mcp = l.before.mcp /\ disk.prof = l.before.prof /\ \A p \in Providers : disk.made[p] = l.before.made[p]
    BY <1>3 DEF UndoneSo
  <2>2. disk.made = l.before.made
    BY <1>3, <2>1, DiskFields
  <2>. QED
    BY <1>3, <2>1, <2>2, SameDisk
<1>6. TypeOK' /\ CallTyped' /\ Doing' /\ DeletionClears' /\ ImportUndone' /\ ImportComplete'
  BY <1>3, <1>4, <1>5 DEF IInv, TypeOK, CallTyped, Doing, DeletionClears, ImportUndone, ImportComplete, Rest
<1>7. RegistryStored' /\ PointerResolves'
  BY <1>3, <1>4, <1>5 DEF RegistryStored, PointerResolves, BeforeSo, Stored, Rest
<1>. QED
  BY <1>6, <1>7 DEF IInv
-----------------------------------------------------------------------------
\* Nothing happens.
LEMMA Unchanged ==
  ASSUME IInv, UNCHANGED vars
  PROVE  IInv'
<1>1. TypeOK' /\ CallTyped' /\ RegistryStored' /\ PointerResolves' /\ DeletionClears' /\ ImportUndone' /\ ImportComplete'
  BY DEF IInv, vars, TypeOK, CallTyped, RegistryStored, PointerResolves, DeletionClears, ImportUndone, ImportComplete
<1>2. Doing'
  BY DEF IInv, vars, Doing, DeletedSo, ImportSo, ProvidersSo, ProfilesSo, SkillsSo, MadeSo, TreesSo, TodoSo, UndoneSo, BeforeSo
<1>. QED
  BY <1>1, <1>2 DEF IInv

\* A package that can be imported.
LEMMA Importable ==
  ASSUME TypeOK, NEW pkg \in {package} \cup Foreign
  PROVE  pkg \in Package
  BY TransferAssumption DEF TypeOK

\* Every step keeps the invariant.
LEMMA Inductive == IInv /\ [Next]_vars => IInv'
<1>. SUFFICES ASSUME IInv, [Next]_vars PROVE IInv'
  OBVIOUS
<1>1. CASE UNCHANGED vars
  BY <1>1, Unchanged
<1>2. CASE \E q \in Profiles, p \in Providers : SaveProfile(q, p)
  BY <1>2, SaveProfileStep
<1>3. CASE \E q \in Profiles : Delete(q) \/ ImportProfile(q)
  BY <1>3, DeleteStep, ImportProfileStep
<1>4. CASE \E q \in Profiles \cup {None}, p \in Providers : Activate(q, p)
  BY <1>4, ActivateStep
<1>5. CASE DeleteRecord \/ DeleteSecret \/ DeletePointer \/ ActivateRecord \/ ActivatePointer \/ Export
  BY <1>5, DeleteRecordStep, DeleteSecretStep, DeletePointerStep, ActivateRecordStep, ActivatePointerStep, ExportStep
<1>6. CASE \E pkg \in {package} \cup Foreign : Import(pkg)
  BY <1>6, Importable, ImportBegins DEF IInv
<1>7. CASE \E p \in Providers : ImportProvider(p) \/ Refresh(p)
  BY <1>7, ImportProviderStep, RefreshStep
<1>8. CASE ProvidersDone \/ ImportMcp \/ SaveRegistry \/ Imported
  BY <1>8, ProvidersDoneStep, ImportMcpStep, SaveRegistryStep, ImportedStep
<1>9. CASE \E s \in Skills : ImportSkill(s)
  BY <1>9, SkillSkipped, SkillLearnt
<1>10. CASE Fail \/ RemoveCreated \/ RestoreRegistry \/ Undone \/ Return \/ Stop
  BY <1>10, FailStep, RemoveCreatedStep, RestoreRegistryStep, UndoneStep, ReturnStep, StopStep
<1>11. CASE \E f \in {"made", "prov", "mcp", "prof"} : Restore(f)
  BY <1>11, RestoreStep
<1>. QED
  BY <1>1, <1>2, <1>3, <1>4, <1>5, <1>6, <1>7, <1>8, <1>9, <1>10, <1>11 DEF Next

\* The invariant behind the rest: a running import is as far as its record says, and
\* a running rollback knows what the import has touched (transfer.go:305-497).
THEOREM InvariantHolds == Spec => []IInv
  BY Beginning, Inductive, PTL DEF Spec

\* In every state, however calls fail or are cut short: every variant that skills.json
\* names is in the library, the active Profile exists unless its own deletion or
\* activation was cut short, a deletion that succeeds leaves no remains - as long as
\* no rollback has been cut short (write.go:95-126, 184-193, transfer.go:456-480).
THEOREM StoresStaySafe == Spec => []StoresSafe
<1>1. IInv => StoresSafe
  BY DEF IInv, StoresSafe
<1>. QED
  BY <1>1, InvariantHolds, PTL

\* An import that ends has replaced what the preview called conflicts and made what it
\* called new, and nothing else; one whose rollback ends has changed nothing at all
\* (transfer.go:305-349, 351-497).
THEOREM ImportsAreWhole == Spec => []ImportAllOrNothing
<1>1. IInv => ImportAllOrNothing
  BY DEF IInv, ImportAllOrNothing
<1>. QED
  BY <1>1, InvariantHolds, PTL

\* The entries of providers.json after a step that is not one of a rollback.
LEMMA EntriesAfter ==
  ASSUME IInv, [Next]_vars, call.op # "undo"
  PROVE  \/ disk'.prov = disk.prov
         \/ \E p \in Providers : ImportProvider(p)
<1>1. disk \in Disk
  BY DEF IInv, TypeOK
<1>2. ASSUME NEW q, NEW p, NEW b
      PROVE  Written(q, p, b).prov = disk.prov
  BY <1>1 DEF Written, Disk
<1>3. CASE UNCHANGED vars
  BY <1>3 DEF vars
<1>4. CASE \E q \in Profiles, p \in Providers : SaveProfile(q, p)
  BY <1>2, <1>4 DEF SaveProfile
<1>5. CASE \E q \in Profiles : Delete(q) \/ ImportProfile(q)
  <2>1. ASSUME NEW q \in Profiles, Delete(q)
        PROVE  disk'.prov = disk.prov
    BY <2>1 DEF Delete, store
  <2>2. ASSUME NEW q \in Profiles, ImportProfile(q)
        PROVE  disk'.prov = disk.prov
    BY <1>2, <2>2 DEF ImportProfile
  <2>. QED
    BY <1>5, <2>1, <2>2
<1>6. CASE \E q \in Profiles \cup {None}, p \in Providers : Activate(q, p)
  BY <1>6 DEF Activate, store
<1>7. CASE DeleteRecord
  BY <1>1, <1>7 DEF DeleteRecord, Disk
<1>8. CASE ActivateRecord
  BY <1>2, <1>8 DEF ActivateRecord
<1>9. CASE DeleteSecret \/ DeletePointer \/ ActivatePointer \/ Export
  BY <1>9 DEF DeleteSecret, DeletePointer, ActivatePointer, Export, store
<1>10. CASE \E pkg \in {package} \cup Foreign : Import(pkg)
  BY <1>10 DEF Import, store
<1>11. CASE \E p \in Providers : ImportProvider(p) \/ Refresh(p)
  <2>1. ASSUME NEW p \in Providers, Refresh(p)
        PROVE  disk'.prov = disk.prov
    BY <1>1, <2>1 DEF Refresh, Disk
  <2>. QED
    BY <1>11, <2>1
<1>12. CASE ProvidersDone \/ Imported
  BY <1>12 DEF ProvidersDone, Imported
<1>13. CASE ImportMcp
  BY <1>1, <1>13 DEF ImportMcp, Disk
<1>14. CASE SaveRegistry
  BY <1>1, <1>14 DEF SaveRegistry, Disk
<1>15. CASE \E s \in Skills : ImportSkill(s)
  BY <1>1, <1>15 DEF ImportSkill, Disk
<1>16. CASE Fail \/ Return \/ Stop
  BY <1>16 DEF Fail, Return, Stop, store
<1>17. ~(RemoveCreated \/ RestoreRegistry \/ Undone) /\ ~(\E f \in {"made", "prov", "mcp", "prof"} : Restore(f))
  BY DEF RemoveCreated, RestoreRegistry, Undone, Restore, Undoing
<1>18. CASE Next
  BY <1>4, <1>5, <1>6, <1>7, <1>8, <1>9, <1>10, <1>11, <1>12, <1>13, <1>14, <1>15, <1>16, <1>17, <1>18, Zenon DEF Next
<1>. QED
  BY <1>3, <1>18

\* Outside a rollback no step loses a saved key: an import merges the entry of the
\* package with the one it finds (transfer.go:382-385).
THEOREM KeysStay == Spec => KeysKept
<1>1. IInv /\ [Next]_vars =>
        [call.op # "undo" => \A p \in Providers :
           disk.prov[p] # None /\ disk.prov[p].key => disk'.prov[p] # None /\ disk'.prov[p].key]_vars
  <2>. SUFFICES ASSUME IInv, [Next]_vars, call.op # "undo", NEW p \in Providers, disk.prov[p] # None, disk.prov[p].key
                PROVE  disk'.prov[p] # None /\ disk'.prov[p].key
    OBVIOUS
  <2>1. ASSUME NEW x \in Providers, ImportProvider(x)
        PROVE  disk'.prov[p] # None /\ disk'.prov[p].key
    <3>1. call.op = "import" /\ call.stage = "providers" /\ x \in call.todo
      BY <2>1 DEF ImportProvider, Importing
    <3>2. x \in Listed(call.pkg.prov) /\ call.pkg.prov[x] \in Bases
      BY <3>1, ImportIs, PackageFields DEF TodoSo
    <3>3. Merged(x) \in Entry
      BY <3>2, Zenon DEF Merged, Entry
    <3>4. disk' = WithEntry(x, Merged(x)) /\ disk \in Disk
      BY <2>1 DEF ImportProvider, WithEntry, IInv, TypeOK
    <3>5. disk'.prov[x] = Merged(x) /\ \A r \in Providers : r # x => disk'.prov[r] = disk.prov[r]
      BY <3>3, <3>4, EntryDisk
    <3>6. x = p => Merged(x).key
      BY DEF Merged
    <3>7. Merged(x) # None
      BY <3>3, TransferAssumption
    <3>. QED
      BY <3>5, <3>6, <3>7
  <2>. QED
    BY <2>1, EntriesAfter
<1>. QED
  BY <1>1, InvariantHolds, PTL DEF Spec, KeysKept
=============================================================================
