----------------------------- MODULE SkillLibrary ---------------------------
(***************************************************************************)
(* One Skill in BootAgent's library and in the directories of its Agents   *)
(* (src/internal/app/skill.go, src/internal/skill).  The registry says     *)
(* which contents (variants, named by their hash) are stored, and to which *)
(* Agents BootAgent copied them.  Scans, changes, uninstalls and restores  *)
(* hold writeMu and walk over trees step by step; meanwhile users and      *)
(* Agents edit the directories and the folder an import was previewed      *)
(* from, previews come and expire, a save may fail, the process may die.   *)
(***************************************************************************)
EXTENDS Naturals, Sequences

CONSTANTS
  Agents, Hashes, Nothing,
  Retention,               \* backups kept
  MaxCalls, MaxEdits       \* bounds

ASSUME SkillAssumption == Retention \in Nat \ {0}

Variant == [stored : BOOLEAN, seen : SUBSET Agents, managed : SUBSET Agents]
Fact == [Hashes -> Variant \cup {Nothing}]
Unknown == [h \in Hashes |-> Nothing]
New == [stored |-> FALSE, seen |-> {}, managed |-> {}]
ASSUME NothingAssumption == Nothing \notin Hashes \cup Agents \cup Variant \cup (Agents \X Hashes)

\* A tree is its hash: two trees with one hash are the same Skill.
Tree == Hashes \cup {Nothing}

Stored(f) == {h \in Hashes : f[h] # Nothing /\ f[h].stored}
Managed(f) == {t \in Hashes \X Agents : f[t[1]] # Nothing /\ t[2] \in f[t[1]].managed}

VARIABLES
  registry,   \* skill-registry.json
  library,    \* skills/<id>/variants
  dirs,       \* what the directory of each Agent holds for the Skill
  backups,    \* newest last: [fact, content]
  eligible,   \* Agents that are installed
  preview,    \* the import preview and its token
  source,     \* the tree it was made from
  call,       \* the call that holds writeMu
  loose,      \* Agents whose directory changed and the registry did not follow
  torn,       \* the library changed and the registry did not follow
  raced,      \* a source changed in the middle of an import
  calls, edits

skillVars == <<registry, library, dirs, backups, eligible, preview, source, call, loose, torn, raced, calls, edits>>
world == <<eligible, calls, edits>>

Idle == [op |-> "idle"]

\* A library as scans and changes leave it, trees that came since, and perhaps a preview.
SkillInit ==
  /\ dirs \in [Agents -> Tree]
  /\ library \in SUBSET Hashes
  /\ \E known \in SUBSET {a \in Agents : dirs[a] \in library} :
       registry = [h \in Hashes |-> IF h \notin library THEN Nothing
                                   ELSE LET run == {a \in Agents : dirs[a] = h} IN
                                        [stored |-> TRUE, seen |-> run, managed |-> run \cap known]]
  /\ backups = <<>> /\ eligible = Agents
  /\ preview \in {Nothing} \cup [hash : Hashes, kind : {"folder"}]
  /\ source = IF preview = Nothing THEN Nothing ELSE preview.hash
  /\ call = Idle
  /\ loose = {} /\ torn = FALSE /\ raced = FALSE /\ calls = 0 /\ edits = 0

\* A call loads the registry into mem; failed is set by an error it reports; at is
\* what it is about to write, touched the Agents edited meanwhile.
Begins(c) ==
  /\ call = Idle /\ calls < MaxCalls /\ calls' = calls + 1
  /\ call' = c
  /\ UNCHANGED <<registry, library, dirs, backups, eligible, edits, loose, torn, raced>>

At(op, stage) == call.op = op /\ call.stage = stage
Ends(failed) ==
  call' = IF call.op = "restore"
          THEN [op |-> "done", targets |-> call.targets, backup |-> call.backup, failed |-> call.failed \/ failed]
          ELSE Idle

\* Store.Save: atomic, and refused or done.
Saves == registry' = call.mem /\ torn' = FALSE
SaveFails == UNCHANGED <<registry, torn>>
-----------------------------------------------------------------------------
(* ScanSkills.                                                             *)

Without(f, a) == [h \in Hashes |-> IF f[h] = Nothing THEN Nothing
                                   ELSE [f[h] EXCEPT !.seen = @ \ {a}, !.managed = @ \ {a}]]

\* The Agent runs h: a stored variant it runs counts as a copy of BootAgent's.
Found(f, a, h) ==
  LET v == IF f[h] = Nothing THEN New ELSE Without(f, a)[h] IN
  [Without(f, a) EXCEPT ![h] = [v EXCEPT !.seen = @ \cup {a},
                                         !.managed = IF f[h] # Nothing /\ f[h].stored THEN @ \cup {a} ELSE @]]

Scan ==
  /\ Begins([op |-> "scan", stage |-> "read", todo |-> eligible, read |-> {}, mem |-> registry, failed |-> FALSE,
             at |-> Nothing, touched |-> {}])
  /\ UNCHANGED <<preview, source>>

Reading == At("scan", "read")

Quiet == UNCHANGED <<backups, preview, source, raced, world>>

\* The directory cannot be read: what is known of the Agent stays.
ScanSkips(a) ==
  /\ Reading /\ call.at = Nothing /\ a \in call.todo
  /\ call' = [call EXCEPT !.todo = @ \ {a}]
  /\ UNCHANGED <<registry, library, dirs, loose, torn>> /\ Quiet

ScanAgent(a) ==
  LET h == dirs[a]
      mem == IF h = Nothing THEN Without(call.mem, a) ELSE Found(call.mem, a, h)
  IN /\ Reading /\ call.at = Nothing /\ a \in call.todo
     /\ call' = [call EXCEPT !.todo = @ \ {a}, !.read = @ \cup {a}, !.touched = @ \ {a}, !.mem = mem,
                             !.at = IF h = Nothing \/ h \in Stored(mem) THEN Nothing ELSE <<a, h>>]
     /\ UNCHANGED <<registry, library, dirs, loose, torn>> /\ Quiet

\* Refuted variant of ScanStores: a tree that could not be stored is marked.
ScanStoresAnyway(a, h, done) ==
  /\ library' = IF done /\ dirs[a] = h THEN library \cup {h} ELSE library
  /\ call' = [call EXCEPT !.at = Nothing, !.mem[h].stored = TRUE]

ScanStores(a, h, done) ==
  IF done /\ dirs[a] = h
  THEN library' = library \cup {h} /\ call' = [call EXCEPT !.at = Nothing, !.mem[h].stored = TRUE]
  ELSE library' = library /\ call' = [call EXCEPT !.at = Nothing]

\* SaveVariant copies the tree, and keeps the copy if its hash is the one read.
ScanStore ==
  /\ Reading /\ call.at # Nothing
  /\ \E done \in BOOLEAN : ScanStores(call.at[1], call.at[2], done)
  /\ UNCHANGED <<registry, dirs, loose, torn>> /\ Quiet

ScanSave ==
  /\ Reading /\ call.at = Nothing /\ call.todo = {}
  /\ \/ registry' = call.mem /\ loose' = loose \ (call.read \ call.touched) /\ Ends(FALSE)
     \/ UNCHANGED <<registry, loose>> /\ Ends(TRUE)
  /\ UNCHANGED <<library, dirs, torn>> /\ Quiet
-----------------------------------------------------------------------------
(* Previews: the token of one import.                                      *)

\* PreviewSkillImport, which holds only skillPreviewMu: a folder is read where it
\* is, an archive is unpacked to a private directory.
Preview(h, kind) ==
  /\ call = Idle /\ preview = Nothing
  /\ preview' = [hash |-> h, kind |-> kind] /\ source' = h
  /\ edits < MaxEdits /\ edits' = edits + 1
  /\ UNCHANGED <<registry, library, dirs, backups, eligible, call, loose, torn, raced, calls>>

Importing == call.op = "apply" /\ call.token # Nothing

\* CleanupCandidates removes an unpacked archive and leaves a folder alone.
Cleaned == preview' = Nothing /\ source' = IF preview.kind = "folder" /\ Importing THEN source ELSE Nothing

\* Another preview meets an expired token, perhaps one that an import has taken.
Expire ==
  /\ preview # Nothing /\ (call = Idle \/ Importing)
  /\ Cleaned
  /\ UNCHANGED <<registry, library, dirs, backups, eligible, call, loose, torn, raced, calls, edits>>
-----------------------------------------------------------------------------
(* ApplySkills: a change of the Skill, with or without a token.            *)

Change == {c \in [hash : Hashes, targets : SUBSET Agents, delete : BOOLEAN, skill : BOOLEAN] : c.skill => c.delete}

\* takeSkillPreview: the token stays.
Apply(change, token) ==
  /\ token => preview # Nothing
  /\ Begins([op |-> "apply", stage |-> "check", change |-> change, refused |-> FALSE,
             token |-> IF token THEN preview ELSE Nothing, todo |-> {}, mem |-> registry, failed |-> FALSE,
             at |-> Nothing, touched |-> {}])
  /\ UNCHANGED <<preview, source>>

DeletesSkill == call.change.delete /\ (call.change.skill \/ call.change.targets = {})
Mine == call.mem[call.change.hash]
Refuse == call' = [call EXCEPT !.stage = "end", !.failed = TRUE]

Targets == IF call.change.delete /\ call.change.targets = {} /\ Mine # Nothing
           THEN Mine.managed ELSE call.change.targets

\* The change is known, the preview shows it, and the source still is what it showed.
ApplyCheck ==
  LET h == call.change.hash IN
  /\ At("apply", "check")
  /\ IF \/ call.change.delete /\ call.mem = Unknown
        \/ call.token # Nothing /\ (call.token.hash # h \/ source # h)
     THEN Refuse
     ELSE call' = [call EXCEPT !.todo = Targets,
                               !.stage = IF call.token # Nothing /\ h \notin Stored(call.mem) THEN "store" ELSE "targets"]
  /\ UNCHANGED <<registry, library, dirs, loose, torn>> /\ Quiet

\* The source is hashed again, and stored under what it is now.
ApplyStore ==
  LET h == call.change.hash  v == IF Mine = Nothing THEN New ELSE Mine IN
  /\ At("apply", "store")
  /\ \/ Refuse /\ UNCHANGED <<library, raced>>
     \/ /\ source # Nothing
        /\ library' = library \cup {source}
        /\ raced' = (raced \/ source # h)
        /\ call' = [call EXCEPT !.mem[h] = [v EXCEPT !.stored = TRUE], !.stage = "stored"]
  /\ UNCHANGED <<registry, dirs, loose, torn, backups, preview, source, world>>

ApplyStored ==
  /\ At("apply", "stored")
  /\ \/ registry' = call.mem /\ call' = [call EXCEPT !.stage = "targets", !.todo = Targets]
     \/ registry' = registry /\ Refuse
  /\ UNCHANGED <<library, dirs, loose, torn>> /\ Quiet

\* A target that must not be touched.
Blocked(a) ==
  LET h == call.change.hash IN
  \/ a \notin eligible
  \/ call.change.delete /\ (<<h, a>> \notin Managed(call.mem) \/ dirs[a] \notin {Nothing, h})
  \/ ~call.change.delete /\ (h \notin Stored(call.mem) \/ dirs[a] \notin {Nothing, h} \/ h \notin library)

ApplyTarget(a) ==
  /\ At("apply", "targets") /\ a \in call.todo
  /\ \/ call' = [call EXCEPT !.todo = @ \ {a}, !.failed = TRUE, !.refused = @ \/ call.change.delete]
     \/ ~Blocked(a) /\ call' = [call EXCEPT !.todo = @ \ {a}, !.at = a, !.touched = @ \ {a}, !.stage = "write"]
  /\ UNCHANGED <<registry, library, dirs, loose, torn>> /\ Quiet

Copied(f, a, h) ==
  [g \in Hashes |-> IF f[g] = Nothing THEN Nothing
                    ELSE [f[g] EXCEPT !.managed = IF g = h THEN @ \cup {a} ELSE @ \ {a}]]

\* PublishTree: a staged copy takes the place of what is there by two renames.
Published(a, h) == [dirs EXCEPT ![a] = h]

\* The tree is removed, or replaced.
ApplyWrite ==
  LET h == call.change.hash  a == call.at IN
  /\ At("apply", "write")
  /\ IF call.change.delete
     THEN /\ dirs' = [dirs EXCEPT ![a] = Nothing]
          /\ call' = [call EXCEPT !.mem[h].managed = @ \ {a}, !.stage = "written"]
     ELSE /\ dirs' = Published(a, h)
          /\ call' = [call EXCEPT !.mem = Copied(@, a, h), !.stage = "written"]
  /\ loose' = loose \cup {a}
  /\ UNCHANGED <<registry, library, torn>> /\ Quiet

ApplySave ==
  /\ At("apply", "written")
  /\ \/ /\ registry' = call.mem /\ call' = [call EXCEPT !.stage = "targets", !.at = Nothing]
        /\ loose' = loose \ ({call.at} \ call.touched)
     \/ /\ registry' = registry /\ loose' = loose
        /\ call' = [call EXCEPT !.stage = "targets", !.at = Nothing, !.failed = TRUE, !.refused = @ \/ call.change.delete]
  /\ UNCHANGED <<library, dirs, torn>> /\ Quiet

\* Refuted variant of MayRemove: targets that stay do not keep the Skill.
MayRemoveAlways == DeletesSkill

MayRemove == DeletesSkill /\ ~call.refused /\ Managed(call.mem) = {}

\* Store.RemoveSkill, when the whole Skill is to go.
ApplyTargetsDone ==
  /\ At("apply", "targets") /\ call.todo = {}
  /\ \/ MayRemove /\ library' = {} /\ torn' = TRUE /\ call' = [call EXCEPT !.mem = Unknown, !.stage = "removed"]
     \/ MayRemove /\ Refuse /\ UNCHANGED <<library, torn>>
     \/ ~MayRemove /\ call' = [call EXCEPT !.stage = "end"] /\ UNCHANGED <<library, torn>>
  /\ UNCHANGED <<registry, dirs, loose>> /\ Quiet

ApplyRemoved ==
  /\ At("apply", "removed")
  /\ \/ Saves /\ call' = [call EXCEPT !.stage = "end"]
     \/ SaveFails /\ Refuse
  /\ UNCHANGED <<library, dirs, loose>> /\ Quiet

\* releaseSkillPreview, when every result is a success.
ApplyEnd ==
  /\ At("apply", "end")
  /\ Ends(FALSE)
  /\ IF call.token # Nothing /\ ~call.failed /\ preview # Nothing THEN Cleaned ELSE UNCHANGED <<preview, source>>
  /\ UNCHANGED <<registry, library, dirs, backups, loose, torn, raced, world>>
-----------------------------------------------------------------------------
(* UninstallSkill.                                                         *)

Uninstall ==
  /\ registry # Unknown
  /\ Begins([op |-> "uninstall", stage |-> "backup", todo |-> Managed(registry), mem |-> registry, failed |-> FALSE,
             at |-> Nothing, touched |-> {}])
  /\ UNCHANGED <<preview, source>>

\* validateStoredFact: the library holds exactly the stored variants.
Whole(f) == library = Stored(f)

\* pruneBackups keeps the newest.
Pruned(s) == IF Len(s) > Retention THEN Tail(s) ELSE s

\* CreateBackup copies the library, checks the copy, and prunes.
CreateBackup ==
  /\ At("uninstall", "backup")
  /\ \/ Stored(call.mem) = {} /\ call' = [call EXCEPT !.stage = "targets"] /\ UNCHANGED backups
     \/ /\ Stored(call.mem) # {} /\ Whole(call.mem)
        /\ backups' = Pruned(Append(backups, [fact |-> call.mem, content |-> library]))
        /\ call' = [call EXCEPT !.stage = "targets"]
     \/ Stored(call.mem) # {} /\ Ends(TRUE) /\ UNCHANGED backups
  /\ UNCHANGED <<registry, library, dirs, loose, torn, preview, source, raced, world>>

\* Refuted variant of Removable: the tree is not hashed again.
RemovableAlways(h, a) == a \in eligible

Removable(h, a) == a \in eligible /\ dirs[a] \in {Nothing, h}

\* removeManagedSkill: the first tree that is not what was copied ends the call.
UninstallTarget(h, a) ==
  /\ At("uninstall", "targets") /\ <<h, a>> \in call.todo
  /\ \/ /\ Removable(h, a)
        /\ call' = [call EXCEPT !.todo = @ \ {<<h, a>>}, !.at = a, !.touched = @ \ {a}, !.stage = "write"]
     \/ Ends(TRUE)
  /\ UNCHANGED <<registry, library, dirs, loose, torn>> /\ Quiet

UninstallWrite ==
  /\ At("uninstall", "write")
  /\ dirs' = [dirs EXCEPT ![call.at] = Nothing] /\ loose' = loose \cup {call.at}
  /\ call' = [call EXCEPT !.stage = "targets", !.at = Nothing]
  /\ UNCHANGED <<registry, library, torn>> /\ Quiet

UninstallRemove ==
  /\ At("uninstall", "targets") /\ call.todo = {}
  /\ \/ library' = {} /\ torn' = TRUE /\ call' = [call EXCEPT !.mem = Unknown, !.stage = "removed"]
     \/ Ends(TRUE) /\ UNCHANGED <<library, torn>>
  /\ UNCHANGED <<registry, dirs, loose>> /\ Quiet

UninstallSave ==
  /\ At("uninstall", "removed")
  /\ \/ Saves /\ Ends(FALSE)
     \/ SaveFails /\ Ends(TRUE)
  /\ UNCHANGED <<library, dirs, loose>> /\ Quiet
-----------------------------------------------------------------------------
(* RestoreSkillBackup.                                                     *)

\* InspectBackup: content and fact agree, and one variant is stored.
Restorable(b) == b.content = Stored(b.fact) /\ \E h \in Hashes : b.content = {h}

Restore(b, targets) ==
  /\ targets \subseteq eligible /\ Restorable(b)
  /\ Begins([op |-> "restore", stage |-> "publish", backup |-> b, targets |-> targets, todo |-> targets, mem |-> registry, failed |-> FALSE,
             at |-> Nothing, touched |-> {}])
  /\ UNCHANGED <<preview, source>>

\* The directory of the Skill is replaced as a whole.
RestoreLibrary ==
  /\ At("restore", "publish")
  /\ \/ /\ library' = call.backup.content /\ torn' = TRUE
        /\ call' = [call EXCEPT !.mem = call.backup.fact, !.stage = "published"]
     \/ Ends(TRUE) /\ UNCHANGED <<library, torn>>
  /\ UNCHANGED <<registry, dirs, loose>> /\ Quiet

\* The copies of the backup's days are listed again, made or not.
RestoreSave ==
  /\ At("restore", "published")
  /\ \/ Saves /\ call' = [call EXCEPT !.stage = "targets"] /\ loose' = loose \cup {t[2] : t \in Managed(call.mem)}
     \/ SaveFails /\ Ends(TRUE) /\ loose' = loose
  /\ UNCHANGED <<library, dirs>> /\ Quiet

Restored == CHOOSE h \in call.backup.content : TRUE

\* PublishTree over whatever the directory holds.
RestoreTarget(a) ==
  /\ At("restore", "targets") /\ a \in call.todo
  /\ \/ /\ dirs' = Published(a, Restored) /\ loose' = loose \cup {a}
        /\ call' = [call EXCEPT !.todo = @ \ {a}, !.mem = Copied(@, a, Restored), !.at = a,
                                !.touched = @ \ {a}, !.stage = "written"]
     \/ call' = [call EXCEPT !.todo = @ \ {a}, !.failed = TRUE] /\ UNCHANGED <<dirs, loose>>
  /\ UNCHANGED <<registry, library, torn>> /\ Quiet

RestoreTargetSave ==
  /\ At("restore", "written")
  /\ \/ /\ registry' = call.mem /\ call' = [call EXCEPT !.stage = "targets", !.at = Nothing]
        /\ loose' = loose \ ({call.at} \ call.touched)
     \/ registry' = registry /\ loose' = loose /\ call' = [call EXCEPT !.stage = "targets", !.at = Nothing, !.failed = TRUE]
  /\ UNCHANGED <<library, dirs, torn>> /\ Quiet

RestoreEnd == At("restore", "targets") /\ call.todo = {} /\ Ends(FALSE)
              /\ UNCHANGED <<registry, library, dirs, loose, torn>> /\ Quiet
-----------------------------------------------------------------------------
(* The rest of the world.                                                  *)

Edits == edits < MaxEdits /\ edits' = edits + 1

EditDir(a, t) ==
  /\ Edits /\ t # dirs[a]
  /\ dirs' = [dirs EXCEPT ![a] = t] /\ loose' = loose \cup {a}
  /\ call' = IF call.op \in {"scan", "apply", "uninstall", "restore"} THEN [call EXCEPT !.touched = @ \cup {a}] ELSE call
  /\ UNCHANGED <<registry, library, backups, eligible, preview, source, torn, raced, calls>>

EditSource(t) ==
  /\ Edits /\ (call = Idle \/ Importing) /\ preview # Nothing /\ preview.kind = "folder" /\ t # source
  /\ source' = t
  /\ UNCHANGED <<registry, library, dirs, backups, eligible, preview, call, loose, torn, raced, calls>>

\* An Agent is installed or removed; a call reads the Agents when it starts.
ComeOrGo(a) ==
  /\ Edits /\ call = Idle
  /\ eligible' = IF a \in eligible THEN eligible \ {a} ELSE eligible \cup {a}
  /\ UNCHANGED <<registry, library, dirs, backups, preview, source, call, loose, torn, raced, calls>>

\* Previews live in memory.
ProcessDies ==
  /\ call # Idle
  /\ call' = Idle /\ preview' = Nothing /\ source' = Nothing
  /\ UNCHANGED <<registry, library, dirs, backups, loose, torn, raced, world>>

RestoreReturns == call.op = "done" /\ call' = Idle
          /\ UNCHANGED <<registry, library, dirs, loose, torn>> /\ Quiet

SkillNext ==
  \/ Scan \/ ScanStore \/ ScanSave
  \/ \E h \in Hashes, kind \in {"folder", "zip"} : Preview(h, kind)
  \/ Expire
  \/ \E change \in Change, token \in BOOLEAN : Apply(change, token)
  \/ ApplyCheck \/ ApplyStore \/ ApplyStored \/ ApplyWrite \/ ApplySave \/ ApplyTargetsDone \/ ApplyRemoved \/ ApplyEnd
  \/ Uninstall \/ CreateBackup \/ UninstallWrite \/ UninstallRemove \/ UninstallSave
  \/ \E h \in Hashes, a \in Agents : UninstallTarget(h, a)
  \/ \E i \in DOMAIN backups, targets \in SUBSET Agents : Restore(backups[i], targets)
  \/ RestoreLibrary \/ RestoreSave \/ RestoreTargetSave \/ RestoreEnd
  \/ \E a \in Agents : ScanSkips(a) \/ ScanAgent(a) \/ ApplyTarget(a) \/ RestoreTarget(a) \/ ComeOrGo(a)
  \/ \E a \in Agents, t \in Tree : EditDir(a, t)
  \/ \E t \in Tree : EditSource(t)
  \/ ProcessDies \/ RestoreReturns

SkillSpec == SkillInit /\ [][SkillNext]_skillVars
-----------------------------------------------------------------------------
SkillTypeOK ==
  /\ registry \in Fact /\ library \subseteq Hashes
  /\ dirs \in [Agents -> Tree]
  /\ Len(backups) <= Retention
  /\ \A i \in DOMAIN backups : backups[i].fact \in Fact /\ backups[i].content \subseteq Hashes
  /\ eligible \subseteq Agents /\ loose \subseteq Agents
  /\ torn \in BOOLEAN /\ raced \in BOOLEAN

\* A variant the registry calls stored is in the library, through scans, imports
\* and crashes; only a removal or restore that did not reach its save breaks it
\* (src/docs/superpowers/specs/2026-08-12-skills-registry-design.md:130).
StoredIsThere == ~torn /\ ~raced => Stored(registry) \subseteq library

\* An Agent is managed for what its directory holds, so for one variant, unless
\* the directory changed and the registry did not follow (skill.go:446, 452-459).
ManagedIsThere == \A t \in Managed(registry) : dirs[t[2]] = t[1] \/ t[2] \in loose

\* What is in a directory, in a backup, or in the library and stored.
Content == ({dirs[a] : a \in Agents} \ {Nothing}) \cup (library \cap Stored(registry))
           \cup UNION {backups[i].content : i \in DOMAIN backups}

\* An uninstall loses nothing the registry knows but the oldest backup and what
\* was written to a directory while it was being removed: the rest is in a backup
\* first (skill.go:524-531).
UninstallKeeps ==
  [][call.op = "uninstall" /\ call.stage # "backup" /\ edits' = edits
       => Content \ {dirs[a] : a \in call.touched} \subseteq Content']_skillVars

\* The entry of a Skill goes last: when it does, the library is empty and no
\* Agent still holds a copy that it lists (skill.go:543-566, 478-493).
EntryGoesLast ==
  [][registry # Unknown /\ registry' = Unknown =>
       /\ library = {}
       /\ \A t \in Managed(registry) : dirs[t[2]] # t[1] \/ t[2] \in call.touched]_skillVars

\* A restore without failures brings back what the uninstall took: the stored
\* variant, its entry, and the copies that were asked for (skill.go:590-696).
RestoreBringsBack ==
  call.op = "done" /\ ~call.failed =>
    /\ library = call.backup.content /\ Stored(registry) = library
    /\ \A a \in call.targets : \A h \in library : <<h, a>> \in Managed(registry) /\ (dirs[a] = h \/ a \in loose)

\* What every reachable state keeps: types, what is stored or managed is there, and
\* what was backed up comes back.
LibrarySafe == SkillTypeOK /\ StoredIsThere /\ ManagedIsThere /\ RestoreBringsBack
=============================================================================
