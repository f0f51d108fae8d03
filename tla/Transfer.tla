------------------------------ MODULE Transfer ------------------------------
(***************************************************************************)
(* Moving settings between machines, over the Profile store they share     *)
(* with the rest of BootAgent (src/internal/app/transfer.go,               *)
(* internal/transfer/v2.go, internal/profile).  An import writes Provider  *)
(* after Provider, Profile after Profile, the MCP registry, one directory  *)
(* per Skill, the Skill registry, and renders generated Skills again; when *)
(* a step fails it restores what it had read, file after file.  A Profile  *)
(* is a record, perhaps a secret, and perhaps the active one; deleting and *)
(* activating one write these one after the other.  All of it holds        *)
(* writeMu; the process may die between any two steps.                     *)
(***************************************************************************)
EXTENDS Naturals, Sequences, FiniteSets

CONSTANTS
  Providers, Profiles, Skills,
  Default,     \* the Profile "default"
  Bases,       \* endpoints
  Hashes,      \* contents of a Skill
  None,
  Foreign,     \* packages of other machines
  MaxCalls     \* bound on calls

Entry == [base : Bases, key : BOOLEAN]             \* key: an API key is saved
Record == [provider : Providers, activated : BOOLEAN]

\* What an import may change.
Disk == [prov : [Providers -> Entry \cup {None}],  \* providers.json
         prof : [Profiles -> Record \cup {None}],  \* profiles/*.json
         mcp : {"local", "imported", None},        \* mcp.json
         registry : [Skills -> SUBSET Hashes],     \* skills.json
         trees : SUBSET (Skills \X Hashes),        \* the library of Skills
         made : [Providers -> Bases \cup {None}]]  \* endpoint in its generated Skills

\* A package without secrets: what is listed is to be imported.
Package == [prov : [Providers -> Bases \cup {None}], prof : [Profiles -> Providers \cup {None}],
            mcp : BOOLEAN, skills : [Skills -> Hashes \cup {None}], policy : {"overwrite", "skip"}]

ASSUME TransferAssumption ==
  /\ Default \in Profiles /\ Bases # {} /\ Hashes # {} /\ Foreign \subseteq Package /\ MaxCalls \in Nat
  /\ None \notin Bases \cup Hashes \cup Profiles \cup Entry \cup Record

VARIABLES
  disk,
  pointer,   \* profile.json: the active Profile, or None
  secret,    \* secrets/*: Profiles with a secret
  package,   \* the last export
  call,      \* the call that holds writeMu
  cut,       \* Profiles whose deletion or activation was cut short
  lapsed,    \* a rollback failed or was cut short
  calls

vars == <<disk, pointer, secret, package, call, cut, lapsed, calls>>
store == <<disk, pointer, secret>>

Idle == [op |-> "idle"]
Empty == [prov |-> [p \in Providers |-> None], prof |-> [q \in Profiles |-> None], mcp |-> FALSE,
          skills |-> [s \in Skills |-> None], policy |-> "overwrite"]

\* A machine with some Providers, one Profile and one variant of every Skill.
Init ==
  LET base == CHOOSE b \in Bases : TRUE
      h == CHOOSE x \in Hashes : TRUE
  IN
  /\ \E known \in SUBSET Providers, p \in Providers, use \in BOOLEAN :
       /\ disk = [prov |-> [r \in Providers |-> IF r \in known THEN [base |-> base, key |-> TRUE] ELSE None],
                  prof |-> [[q \in Profiles |-> None] EXCEPT ![Default] = [provider |-> p, activated |-> use]],
                  mcp |-> "local",
                  registry |-> [s \in Skills |-> {h}],
                  trees |-> Skills \X {h},
                  made |-> [r \in Providers |-> IF r \in known THEN base ELSE None]]
       /\ pointer = IF use THEN Default ELSE None
  /\ secret \in SUBSET {Default}
  /\ package = Empty
  /\ call = Idle
  /\ cut = {} /\ lapsed = FALSE /\ calls = 0

Begins(c) == call = Idle /\ calls < MaxCalls /\ calls' = calls + 1 /\ call' = c
Ends(c) == call' = [op |-> "done", last |-> c]
-----------------------------------------------------------------------------
(* Profiles.                                                               *)

\* LoadActiveContext: a pointer to a record that is gone keeps its identifier.
Active == [id |-> pointer, found |-> pointer # None /\ disk.prof[pointer] # None]

\* Refuted variant of ActiveId: a missing record is a missing pointer.
ActiveIdFound == IF Active.found THEN Active.id ELSE None

ActiveId == Active.id

Written(q, provider, activated) ==
  [disk EXCEPT !.prof[q] = [provider |-> provider,
                            activated |-> activated \/ (@ # None /\ @.activated)]]

\* Store.Save, as SaveProfile calls it.
SaveProfile(q, p) ==
  /\ Begins(Idle)
  /\ disk' = Written(q, p, FALSE)
  /\ UNCHANGED <<pointer, secret, package, cut, lapsed>>

\* Store.Delete: record, secret, pointer.
Delete(q) ==
  /\ Begins([op |-> "delete", id |-> q, stage |-> "record"])
  /\ UNCHANGED <<store, package, cut, lapsed>>

DeleteRecord ==
  /\ call.op = "delete" /\ call.stage = "record"
  /\ disk' = [disk EXCEPT !.prof[call.id] = None]
  /\ call' = [call EXCEPT !.stage = "secret"]
  /\ UNCHANGED <<pointer, secret, package, cut, lapsed, calls>>

DeleteSecret ==
  /\ call.op = "delete" /\ call.stage = "secret"
  /\ secret' = secret \ {call.id}
  /\ call' = [call EXCEPT !.stage = "pointer"]
  /\ UNCHANGED <<disk, pointer, package, cut, lapsed, calls>>

DeletePointer ==
  /\ call.op = "delete" /\ call.stage = "pointer"
  /\ pointer' = IF ActiveId = call.id THEN None ELSE pointer
  /\ Ends(call)
  /\ cut' = cut \ {call.id}
  /\ UNCHANGED <<disk, secret, package, lapsed, calls>>

\* WriteActive, at the end of an installation: without a Profile of its own it
\* takes the active one, or the default.
Activate(q, p) ==
  /\ Begins([op |-> "activate", provider |-> p, stage |-> "record",
             id |-> IF q # None THEN q ELSE IF ActiveId # None THEN ActiveId ELSE Default])
  /\ UNCHANGED <<store, package, cut, lapsed>>

ActivateRecord ==
  /\ call.op = "activate" /\ call.stage = "record"
  /\ disk' = Written(call.id, call.provider, TRUE)
  /\ call' = [call EXCEPT !.stage = "pointer"]
  /\ UNCHANGED <<pointer, secret, package, cut, lapsed, calls>>

ActivatePointer ==
  /\ call.op = "activate" /\ call.stage = "pointer"
  /\ pointer' = call.id
  /\ Ends(call)
  /\ cut' = cut \ {call.id}
  /\ UNCHANGED <<disk, secret, package, lapsed, calls>>
-----------------------------------------------------------------------------
(* Export and preview.                                                     *)

\* ExportTransferV2 takes no lock: it reads whatever the files hold.
Export ==
  /\ package' = [prov |-> [p \in Providers |-> IF disk.prov[p] = None THEN None ELSE disk.prov[p].base],
                 prof |-> [q \in Profiles |-> IF disk.prof[q] = None THEN None ELSE disk.prof[q].provider],
                 mcp |-> disk.mcp # None,
                 skills |-> [s \in Skills |-> IF disk.registry[s] = {} THEN None
                                              ELSE CHOOSE h \in disk.registry[s] : TRUE],
                 policy |-> "overwrite"]
  /\ call = Idle
  /\ UNCHANGED <<store, call, cut, lapsed, calls>>

\* PreviewTransferV2: what of a package exists here.
Conflicts(d, pkg) ==
  [prov |-> {p \in Providers : pkg.prov[p] # None /\ d.prov[p] # None},
   prof |-> {q \in Profiles : pkg.prof[q] # None /\ d.prof[q] # None},
   skills |-> {s \in Skills : pkg.skills[s] # None /\ d.registry[s] # {}}]
-----------------------------------------------------------------------------
(* ImportTransferV2WithOptions.                                            *)

Listed(f) == {x \in DOMAIN f : f[x] # None}

Import(pkg) ==
  /\ Begins([op |-> "import", stage |-> "providers", pkg |-> pkg, before |-> disk, todo |-> Listed(pkg.prov),
             taken |-> {}, created |-> {}, registry |-> disk.registry])
  /\ UNCHANGED <<store, package, cut, lapsed>>

Importing(stage) == call.op = "import" /\ call.stage = stage
Goes(stage, todo) == call' = [call EXCEPT !.stage = stage, !.todo = todo]
Rest == UNCHANGED <<pointer, secret, package, cut, lapsed, calls>>

\* Refuted variant of Merged: an entry of the package is saved as it is.
MergedBlank(p) == [base |-> call.pkg.prov[p], key |-> FALSE]

\* The key of the machine stays, the package has none.
Merged(p) == [base |-> call.pkg.prov[p], key |-> disk.prov[p] # None /\ disk.prov[p].key]

\* Snapshot of the generated Skills of the Provider, and its entry.
ImportProvider(p) ==
  /\ Importing("providers") /\ p \in call.todo
  /\ disk' = [disk EXCEPT !.prov[p] = Merged(p)]
  /\ call' = [call EXCEPT !.todo = @ \ {p}, !.taken = @ \cup {p}]
  /\ Rest

ProvidersDone ==
  /\ Importing("providers") /\ call.todo = {}
  /\ Goes("profiles", Listed(call.pkg.prof)) /\ UNCHANGED disk /\ Rest

ImportProfile(q) ==
  /\ Importing("profiles") /\ q \in call.todo
  /\ disk' = Written(q, call.pkg.prof[q], FALSE)
  /\ call' = [call EXCEPT !.todo = @ \ {q}]
  /\ Rest

ImportMcp ==
  /\ Importing("profiles") /\ call.todo = {}
  /\ disk' = IF call.pkg.mcp THEN [disk EXCEPT !.mcp = "imported"] ELSE disk
  /\ Goes("skills", Listed(call.pkg.skills)) /\ Rest

Creates(s, h) == {<<s, h>>} \ disk.trees

\* One archive: its directory in the library, and its place in the registry.
ImportSkill(s) ==
  LET h == call.pkg.skills[s]
      skipped == call.pkg.policy = "skip" /\ call.registry[s] # {}
  IN /\ Importing("skills") /\ s \in call.todo
     /\ IF skipped THEN call' = [call EXCEPT !.todo = @ \ {s}] /\ UNCHANGED disk
        ELSE /\ disk' = [disk EXCEPT !.trees = @ \cup {<<s, h>>}]
             /\ call' = [call EXCEPT !.todo = @ \ {s}, !.created = @ \cup Creates(s, h),
                                     !.registry[s] = @ \cup {h}]
     /\ Rest

SaveRegistry ==
  /\ Importing("skills") /\ call.todo = {}
  /\ disk' = [disk EXCEPT !.registry = call.registry]
  /\ Goes("refresh", call.taken) /\ Rest

\* reapplyGeneratedSkillsLocked for one changed Provider.
Refresh(p) ==
  /\ Importing("refresh") /\ p \in call.todo
  /\ disk' = IF disk.made[p] = None THEN disk ELSE [disk EXCEPT !.made[p] = disk.prov[p].base]
  /\ call' = [call EXCEPT !.todo = @ \ {p}]
  /\ Rest

Imported == Importing("refresh") /\ call.todo = {} /\ Ends(call) /\ UNCHANGED disk /\ Rest
-----------------------------------------------------------------------------
(* The rollback.  A snapshot is restored by removing what is there and     *)
(* writing what was there; the Skill registry is replaced atomically.      *)

\* Refuted variant of Undo: the Profiles are forgotten.
UndoButProfiles == <<"created", "made", "registry", "prov", "mcp">>

Undo == <<"created", "made", "registry", "prov", "mcp", "prof">>

Fail ==
  /\ call.op = "import" /\ call.stage \in {"providers", "profiles", "skills", "refresh"}
  /\ call.todo # {} \/ call.stage \in {"profiles", "skills"}
  /\ call' = [op |-> "undo", pkg |-> call.pkg, before |-> call.before, created |-> call.created,
              taken |-> call.taken, step |-> 1, gone |-> FALSE]
  /\ UNCHANGED disk /\ Rest

Undoing(file) == call.op = "undo" /\ call.step <= Len(Undo) /\ Undo[call.step] = file
Next1 == call' = [call EXCEPT !.step = @ + 1, !.gone = FALSE]

RemoveCreated ==
  /\ Undoing("created")
  /\ disk' = [disk EXCEPT !.trees = @ \ call.created]
  /\ Next1 /\ Rest

Erased(f) ==
  CASE f = "made" -> [disk EXCEPT !.made = [p \in Providers |-> IF p \in call.taken THEN None ELSE @[p]]]
    [] f = "prov" -> [disk EXCEPT !.prov = [p \in Providers |-> None]]
    [] f = "mcp"  -> [disk EXCEPT !.mcp = None]
    [] f = "prof" -> [disk EXCEPT !.prof = [q \in Profiles |-> None]]

Restored(f) ==
  CASE f = "made" -> [disk EXCEPT !.made = [p \in Providers |-> IF p \in call.taken THEN call.before.made[p] ELSE @[p]]]
    [] f = "prov" -> [disk EXCEPT !.prov = call.before.prov]
    [] f = "mcp"  -> [disk EXCEPT !.mcp = call.before.mcp]
    [] f = "prof" -> [disk EXCEPT !.prof = call.before.prof]

RestoreRegistry ==
  /\ Undoing("registry")
  /\ disk' = [disk EXCEPT !.registry = call.before.registry]
  /\ Next1 /\ Rest

Restore(f) ==
  /\ Undoing(f)
  /\ IF call.gone THEN disk' = Restored(f) /\ Next1
     ELSE disk' = Erased(f) /\ call' = [call EXCEPT !.gone = TRUE]
  /\ Rest

Undone == call.op = "undo" /\ call.step > Len(Undo) /\ Ends(call) /\ UNCHANGED disk /\ Rest
-----------------------------------------------------------------------------
\* The caller has its answer.
Return == call.op = "done" /\ call' = Idle /\ UNCHANGED <<store, package, cut, lapsed, calls>>

\* The process dies, or a step of a rollback, a deletion or an activation fails
\* and is the last one.
Stop ==
  /\ call.op \in {"import", "undo", "delete", "activate"}
  /\ call' = Idle
  /\ lapsed' = (lapsed \/ call.op = "undo")
  /\ cut' = IF call.op \in {"delete", "activate"} THEN cut \cup {call.id} ELSE cut
  /\ UNCHANGED <<store, package, calls>>

Next ==
  \/ \E q \in Profiles, p \in Providers : SaveProfile(q, p)
  \/ \E q \in Profiles : Delete(q) \/ ImportProfile(q)
  \/ \E q \in Profiles \cup {None}, p \in Providers : Activate(q, p)
  \/ DeleteRecord \/ DeleteSecret \/ DeletePointer \/ ActivateRecord \/ ActivatePointer
  \/ Export \/ \E pkg \in {package} \cup Foreign : Import(pkg)
  \/ \E p \in Providers : ImportProvider(p) \/ Refresh(p)
  \/ ProvidersDone \/ ImportMcp \/ SaveRegistry \/ Imported
  \/ \E s \in Skills : ImportSkill(s)
  \/ Fail \/ RemoveCreated \/ RestoreRegistry \/ Undone \/ Return \/ Stop
  \/ \E f \in {"made", "prov", "mcp", "prof"} : Restore(f)

Spec == Init /\ [][Next]_vars
-----------------------------------------------------------------------------
TypeOK ==
  /\ disk \in Disk
  /\ pointer \in Profiles \cup {None} /\ secret \subseteq Profiles
  /\ package \in Package
  /\ cut \subseteq Profiles /\ lapsed \in BOOLEAN /\ calls \in 0..MaxCalls

\* A failed import whose rollback went through leaves no trace in any file it
\* may have written (README.md:93 of the repository, transfer.go:318-349).
ImportUndone == call.op = "done" /\ call.last.op = "undo" => disk = call.last.before

\* A finished import made what the preview called new, replaced what it called a
\* conflict (or skipped the Skill), left the rest alone, kept the keys of the
\* machine, and its generated Skills use the imported endpoints.
ImportComplete ==
  call.op = "done" /\ call.last.op = "import" =>
    LET pkg == call.last.pkg  before == call.last.before  old == Conflicts(before, pkg) IN
    /\ \A p \in Providers :
         IF pkg.prov[p] = None THEN disk.prov[p] = before.prov[p] /\ disk.made[p] = before.made[p]
         ELSE /\ disk.prov[p] = [base |-> pkg.prov[p], key |-> p \in old.prov /\ before.prov[p].key]
              /\ disk.made[p] \in {None, pkg.prov[p]}
    /\ \A q \in Profiles :
         IF pkg.prof[q] = None THEN disk.prof[q] = before.prof[q]
         ELSE disk.prof[q] = [provider |-> pkg.prof[q], activated |-> q \in old.prof /\ before.prof[q].activated]
    /\ \A s \in Skills :
         disk.registry[s] = before.registry[s] \cup
           (IF pkg.skills[s] = None \/ (s \in old.skills /\ pkg.policy = "skip") THEN {} ELSE {pkg.skills[s]})

\* Every variant the Skill registry names is in the library, also in the middle
\* of an import and after one that was cut short, unless a rollback was
\* (transfer.go:456, 480).
RegistryStored ==
  call.op # "undo" /\ ~lapsed => \A s \in Skills : \A h \in disk.registry[s] : <<s, h>> \in disk.trees

\* No import, whole or cut short, loses a saved key: only a rollback, while it
\* replaces providers.json, has a moment without it (transfer.go:382-385, 333).
KeysKept ==
  [][call.op # "undo" => \A p \in Providers :
       disk.prov[p] # None /\ disk.prov[p].key => disk'.prov[p] # None /\ disk'.prov[p].key]_vars

\* The active Profile exists, unless its own deletion or activation was cut
\* short or a rollback was (write.go:110-124, 189-193).
PointerResolves ==
  call.op # "undo" /\ ~lapsed /\ pointer # None /\ disk.prof[pointer] = None =>
    \/ pointer \in cut
    \/ call.op = "delete" /\ call.id = pointer

\* A deletion that succeeds leaves no record, no secret and no pointer, also when
\* an earlier one was cut short (write.go:95-126).
DeletionClears ==
  call.op = "done" /\ call.last.op = "delete" =>
    /\ disk.prof[call.last.id] = None
    /\ call.last.id \notin secret
    /\ pointer # call.last.id

\* An import that ends did all of it or, after a failure, nothing.
ImportAllOrNothing == ImportUndone /\ ImportComplete

\* What every reachable state keeps, cut short or not: types, Skills that are where the
\* registry says, a pointer that resolves, deletions without remains.
StoresSafe == TypeOK /\ RegistryStored /\ PointerResolves /\ DeletionClears
=============================================================================
