---------------------------- MODULE Installations ---------------------------
(***************************************************************************)
(* Installing, updating and uninstalling one Agent of npm, and the Node    *)
(* runtime BootAgent brings for it (src/internal/install,                  *)
(* src/internal/app/install.go, runtime.go, update.go, uninstall.go,       *)
(* agent_installation.go).  A machine may hold several npm's, each with    *)
(* its own global prefix, and copies of the Agent in several prefixes.     *)
(* Installs and runtimes hold writeMu; installs, updates and each round of *)
(* an uninstall hold the Agent's task mutex.  A mutex is held by the calls *)
(* whose stage says so; how they wait for each other is TaskLocks'.        *)
(***************************************************************************)
EXTENDS Naturals, FiniteSets

CONSTANTS
  Procs, None,
  Npms, Own,               \* the user's npm's, and the one of the managed Node
  Prefixes,
  PrefixOf, GuessOf,       \* where an npm installs, and what its own path suggests
  UserPath,                \* the prefixes whose executables PATH reaches
  Odd,                     \* prefixes that hold a copy npm does not list
  MaxCalls                 \* calls after the start (bound)

\* Stands for the installation of the npm at hand, whatever its prefix.
AtHand == "at hand"

ASSUME InstallationsAssumption ==
  /\ Own \notin Npms /\ None \notin Npms \cup {Own} \cup Prefixes \cup {AtHand}
  /\ None \notin [npm : Npms \cup {Own}, prefix : Prefixes]
  /\ PrefixOf \in [Npms \cup {Own} -> Prefixes] /\ GuessOf \in [Npms \cup {Own} -> Prefixes]
  /\ UserPath \subseteq Prefixes /\ Odd \subseteq Prefixes /\ MaxCalls \in Nat

Global == PrefixOf[Own]
Parts == {"files", "junk", "escape", "marker"}

VARIABLES
  runtime,   \* the versioned directory, the sibling it was moved to, an earlier such sibling
  packages,  \* the version of the Agent in each prefix, 0 if none, 2 is the latest
  record,    \* the Agent's entry of agent-installs.json
  data,      \* whether the Agent's configuration and data are there
  login,     \* the directories the login PATH names
  session,   \* the npm of this process's PATH, and whether it reaches the managed prefix
  calls, made

vars == <<runtime, packages, record, data, login, session, calls, made>>

Idle == [op |-> "idle", pc |-> "none"]
Managed == "marker" \in runtime.tree

\* LookPath("npm"): the managed directories come first.
Npm == IF Managed THEN Own ELSE session.npm

\* The copies the Agent's command may resolve to, with and without the managed directories.
Reached(global) == {p \in UserPath \cup (IF global THEN {Global} ELSE {}) : packages[p] > 0}
Resolved == Reached(session.global \/ Managed)
Discovered == Reached(session.global)

HoldsWriter(c) == calls[c].op \in {"install", "runtime"}
HoldsAgent(c) == calls[c].op \in {"install", "update"} \/ (calls[c].op = "uninstall" /\ calls[c].id # None)
WriterFree == \A c \in Procs : ~HoldsWriter(c)

AgentFree == \A c \in Procs : ~HoldsAgent(c)

Goes(c, r) == calls' = [calls EXCEPT ![c] = r]
At(c, ops, pc) == calls[c].op \in ops /\ calls[c].pc = pc
To(c, pc) == Goes(c, [calls[c] EXCEPT !.pc = pc])

Init ==
  /\ \E t \in {{}, {"files"}, {"files", "marker"}} : runtime = [tree |-> t, backup |-> {}, orphan |-> FALSE]
  /\ packages \in [Prefixes -> {0, 1}]
  /\ record \in {None} \cup {[npm |-> n, prefix |-> GuessOf[n]] : n \in Npms \cup {Own}}
  /\ data = TRUE /\ login = {}
  /\ session \in [npm : Npms \cup {None}, global : {FALSE}]
  /\ calls = [c \in Procs |-> Idle] /\ made = 0

Begin(c, r) ==
  /\ calls[c] = Idle /\ made < MaxCalls
  /\ made' = made + 1 /\ Goes(c, r)
  /\ UNCHANGED <<runtime, packages, record, data, login, session>>
-----------------------------------------------------------------------------
(* InstallAgents and InstallRuntime.                                       *)

InstallAgents(c) ==
  /\ WriterFree /\ AgentFree
  /\ \E pinned \in BOOLEAN :
       Begin(c, [op |-> "install", pc |-> "manager", pinned |-> pinned, npm |-> Npm, parts |-> {}, placed |-> FALSE])

InstallRuntime(c) ==
  /\ WriterFree
  /\ Begin(c, [op |-> "runtime", pc |-> "manager", parts |-> {}])

Installs == {"install", "runtime"}

\* Where an install goes once Node is there, and once the bootstrap has recorded it.
AfterManager(c) == IF calls[c].op = "install" THEN "package" ELSE "login"

\* ensureAgentRuntime and EnsureRuntime: any npm at hand will do, managed or not.
Manager(c) ==
  /\ At(c, Installs, "manager")
  /\ To(c, IF Npm = None THEN "fetch" ELSE AfterManager(c))
  /\ UNCHANGED <<runtime, packages, record, data, login, session, made>>

\* fetchTo: the locked checksum decides, at the mirror and at the official source.
Verified(served) == served # "junk"

\* extract: the locked archive itself may hold a member, or a link, that leaves the directory.
Extracts(served) == served # {"escape"}

\* downloadArtifact: the sources in turn; none verified, or a cancelled call, fails.
Fetch(c) ==
  /\ At(c, Installs, "fetch")
  /\ \E served \in {"files", "junk", "escape"} :
       Verified(served) /\ Goes(c, [calls[c] EXCEPT !.pc = "stage", !.parts = {served}])
  /\ UNCHANGED <<runtime, packages, record, data, login, session, made>>

\* Extraction beside the final directory, then the marker inside.
Stage(c) ==
  /\ At(c, Installs, "stage") /\ Extracts(calls[c].parts)
  /\ Goes(c, [calls[c] EXCEPT !.pc = "aside", !.parts = @ \cup {"marker"}])
  /\ UNCHANGED <<runtime, packages, record, data, login, session, made>>

\* Refuted variant of SetAside: the old directory is deleted to make room.
SetAsideGone(r) == [r EXCEPT !.tree = {}]

SetAside(r) == [r EXCEPT !.tree = {}, !.backup = r.tree]

Aside(c) ==
  /\ At(c, Installs, "aside") /\ To(c, "publish")
  /\ runtime' = (IF runtime.tree = {} THEN runtime ELSE SetAside(runtime))
  /\ UNCHANGED <<packages, record, data, login, session, made>>

\* A sibling nobody will restore or remove any more.
Orphaned(r) == [r EXCEPT !.backup = {}, !.orphan = @ \/ r.backup # {}]

\* A refused rename puts the old directory back, if that rename is not refused too.
Publish(c) ==
  /\ At(c, Installs, "publish")
  /\ \/ runtime' = [runtime EXCEPT !.tree = calls[c].parts] /\ To(c, "clean")
     \/ runtime' = [runtime EXCEPT !.tree = @ \cup runtime.backup, !.backup = {}] /\ Goes(c, Idle)
     \/ runtime' = Orphaned(runtime) /\ Goes(c, Idle)
  /\ UNCHANGED <<packages, record, data, login, session, made>>

\* The old directory goes; if it cannot, the call fails although the new one is in place.
Clean(c) ==
  /\ At(c, Installs, "clean")
  /\ \/ runtime' = [runtime EXCEPT !.backup = {}] /\ To(c, IF calls[c].op = "install" THEN "boot" ELSE "login")
     \/ runtime.backup # {} /\ runtime' = Orphaned(runtime) /\ Goes(c, Idle)
  /\ UNCHANGED <<packages, record, data, login, session, made>>

\* ManagedPathDirs: the managed prefix only once npm has made it, and only beside a runtime.
PathDirs == IF ~Managed THEN {} ELSE {"runtime"} \cup (IF packages[Global] > 0 THEN {"global"} ELSE {})

\* PersistRuntimePath writes the one sourced script anew.  A prefix that was emptied
\* keeps its directory, so its entry stays.
Persisted == IF PathDirs = {} THEN login ELSE PathDirs \cup (login \cap {"global"})

Persist(c) ==
  /\ calls[c].op \in Installs /\ calls[c].pc \in {"boot", "login"}
  /\ login' = Persisted
  /\ To(c, IF calls[c].pc = "boot" THEN "package" ELSE IF calls[c].op = "runtime" THEN "done" ELSE "configure")
  /\ UNCHANGED <<runtime, packages, record, data, session, made>>

\* Refuted variant of Recording: the npm that was at hand before the bootstrap.
RecordingEarly(c) == calls[c].npm

\* The npm of the record is looked up after the bootstrap, as InstallAgent does.
Recording(c) == Npm

\* InstallAgent: a copy that resolves will do, unless another version is asked for;
\* otherwise npm installs into its own prefix.  A killed npm may have installed it.
Package(c) ==
  /\ At(c, {"install"}, "package") /\ Npm # None
  /\ \/ /\ \E p \in Resolved : calls[c].pinned => packages[p] = 2
        /\ To(c, "configure") /\ UNCHANGED packages
     \/ /\ Resolved = {} \/ (calls[c].pinned /\ \E p \in Resolved : packages[p] # 2)
        /\ packages' = [packages EXCEPT ![PrefixOf[Npm]] = 2]
        /\ \/ Goes(c, [calls[c] EXCEPT !.pc = "record", !.npm = Recording(c), !.placed = TRUE])
           \/ Goes(c, Idle)
  /\ UNCHANGED <<runtime, record, data, login, session, made>>

\* npm makes the managed prefix during this install, so PATH is written again.
AfterRecord(c) == "login"

Entry(n) == [npm |-> n, prefix |-> GuessOf[n]]

Record(c) ==
  /\ At(c, {"install"}, "record")
  /\ record' = (IF calls[c].npm = None THEN record ELSE Entry(calls[c].npm))
  /\ To(c, AfterRecord(c))
  /\ UNCHANGED <<runtime, packages, data, login, session, made>>

\* The Agent's configuration and its binding (Routing has what they say).
Configure(c) ==
  /\ At(c, {"install"}, "configure") /\ data' = TRUE /\ To(c, "done")
  /\ UNCHANGED <<runtime, packages, record, login, session, made>>
-----------------------------------------------------------------------------
(* UpdateAgent.                                                            *)

UpdateAgent(c) ==
  /\ AgentFree /\ Npm # None /\ Resolved # {}
  /\ Begin(c, [op |-> "update", pc |-> "package", npm |-> Npm])

\* npm update succeeds, and does nothing, in a prefix that has no copy.
Update(c) ==
  /\ At(c, {"update"}, "package") /\ To(c, "done")
  /\ packages' = [p \in Prefixes |-> IF p = PrefixOf[calls[c].npm] /\ packages[p] > 0 THEN 2 ELSE packages[p]]
  /\ UNCHANGED <<runtime, record, data, login, session, made>>
-----------------------------------------------------------------------------
(* UninstallAgentWithOptions.                                              *)

\* validateInstallationSelections: discovered ones, each once.
Choices == SUBSET Discovered

\* The installations that were chosen, or all that are discovered, or, if none is, the
\* one of the npm at hand.  A chosen one that was not discovered refuses the call, and
\* so do two executables of one prefix; a refused call changes nothing and is left out.
UninstallAgent(c) ==
  \E cross \in BOOLEAN, wipe \in BOOLEAN, some \in Choices :
    LET ids == IF some # {} THEN some ELSE IF Discovered # {} THEN Discovered ELSE {AtHand} IN
    Begin(c, [op |-> "uninstall", pc |-> "check", ids |-> ids, todo |-> ids, id |-> None, at |-> None,
              cross |-> cross, wipe |-> wipe, gone |-> {}])

Listed(p) == packages[p] > 0 /\ p \notin Odd

\* Refuted variant of Cross: the recorded environment is taken without asking.
CrossAlways(c) == TRUE

\* Removal through another npm needs the user's consent.
Cross(c) == calls[c].cross

\* The prefixes a removal of id may be sent to: its own, if npm lists the package there,
\* or the one recorded for another npm.
Targets(c, id) ==
  LET own == IF id = AtHand THEN PrefixOf[Npm] ELSE id IN
  IF Listed(own) THEN {own}
  ELSE IF record # None /\ record.npm # Npm /\ Cross(c) THEN {p \in {record.prefix} : Listed(p)}
  ELSE {}

\* The Agent's mutex, a second look at the choice, then npm list.
Check(c) ==
  /\ At(c, {"uninstall"}, "check") /\ AgentFree /\ Npm # None
  /\ \E id \in calls[c].todo :
       /\ id \in Discovered \cup {AtHand} /\ (id = AtHand => Resolved # {} \/ record # None)
       /\ \E p \in Targets(c, id) : Goes(c, [calls[c] EXCEPT !.pc = "remove", !.id = id, !.at = p])
  /\ UNCHANGED <<runtime, packages, record, data, login, session, made>>

\* Refuted variant of AfterRemoval: the data goes with the first installation.
AfterRemovalFirst(c, left) == IF calls[c].wipe THEN "wipe" ELSE IF left = {} THEN "done" ELSE "check"

AfterRemoval(c, left) == IF left # {} THEN "check" ELSE IF calls[c].wipe THEN "wipe" ELSE "done"

\* npm uninstall, and the mutex is released; a killed npm may have removed it.  Only the
\* removal of the npm at hand keeps the mutex until the data is gone.
Remove(c) ==
  /\ At(c, {"uninstall"}, "remove")
  /\ packages' = [packages EXCEPT ![calls[c].at] = 0]
  /\ LET left == calls[c].todo \ {calls[c].id} IN
     \/ Goes(c, [calls[c] EXCEPT !.pc = AfterRemoval(c, left), !.todo = left, !.at = None,
                                 !.id = IF @ = AtHand THEN @ ELSE None, !.gone = @ \cup {calls[c].id}])
     \/ Goes(c, Idle)
  /\ UNCHANGED <<runtime, record, data, login, session, made>>

\* removeAgentUserData.
Wipe(c) ==
  /\ At(c, {"uninstall"}, "wipe") /\ data' = FALSE /\ To(c, "done")
  /\ UNCHANGED <<runtime, packages, record, login, session, made>>
-----------------------------------------------------------------------------
\* Every stage but the renames may fail without a trace: refused, cancelled, timed out.
Fails(c) ==
  /\ calls[c].pc \notin {"none", "publish", "clean", "done"}
  /\ Goes(c, Idle)
  /\ UNCHANGED <<runtime, packages, record, data, login, session, made>>

Return(c) ==
  /\ calls[c].pc = "done" /\ Goes(c, Idle)
  /\ UNCHANGED <<runtime, packages, record, data, login, session, made>>

\* The process dies, or ends; the next one may run under the new login PATH, and its
\* PATH may have another npm.
Restart ==
  /\ made < MaxCalls
  /\ calls' = [c \in Procs |-> Idle] /\ runtime' = Orphaned(runtime)
  /\ session' \in [npm : Npms \cup {None}, global : BOOLEAN] /\ (session'.global => "global" \in login)
  /\ UNCHANGED <<packages, record, data, login, made>>

Bootstrap(c) == Manager(c) \/ Fetch(c) \/ Stage(c) \/ Aside(c) \/ Publish(c) \/ Clean(c) \/ Persist(c)
Step(c) ==
  \/ Bootstrap(c) \/ Package(c) \/ Record(c) \/ Configure(c) \/ Update(c)
  \/ Check(c) \/ Remove(c) \/ Wipe(c) \/ Fails(c) \/ Return(c)

Next ==
  \/ \E c \in Procs : InstallAgents(c) \/ InstallRuntime(c) \/ UpdateAgent(c) \/ UninstallAgent(c) \/ Step(c)
  \/ Restart

Spec == Init /\ [][Next]_vars
-----------------------------------------------------------------------------
Ids == Prefixes \cup {AtHand}
Bootstraps == {"manager", "fetch", "stage", "aside", "publish", "clean"}
Installing == [op : {"install"}, pc : Bootstraps \cup {"boot", "package", "record", "login", "configure", "done"},
               pinned : BOOLEAN, npm : Npms \cup {Own, None}, parts : SUBSET Parts, placed : BOOLEAN]
Bootstrapping == [op : {"runtime"}, pc : Bootstraps \cup {"login", "done"}, parts : SUBSET Parts]
Updating == [op : {"update"}, pc : {"package", "done"}, npm : Npms \cup {Own}]
Uninstalling == [op : {"uninstall"}, pc : {"check", "remove", "wipe", "done"}, ids : SUBSET Ids, todo : SUBSET Ids,
                 id : Ids \cup {None}, at : Prefixes \cup {None}, cross : BOOLEAN, wipe : BOOLEAN, gone : SUBSET Ids]
Call == {Idle} \cup Installing \cup Bootstrapping \cup Updating \cup Uninstalling

\* Shape of the state, and the two mutexes exclude.
TypeOK ==
  /\ runtime \in [tree : SUBSET Parts, backup : SUBSET Parts, orphan : BOOLEAN]
  /\ packages \in [Prefixes -> 0..2]
  /\ record \in {None} \cup [npm : Npms \cup {Own}, prefix : Prefixes]
  /\ data \in BOOLEAN /\ login \subseteq {"runtime", "global"}
  /\ session \in [npm : Npms \cup {None}, global : BOOLEAN]
  /\ calls \in [Procs -> Call] /\ made \in 0..MaxCalls
  /\ \A c, d \in Procs : (HoldsWriter(c) /\ HoldsWriter(d)) \/ (HoldsAgent(c) /\ HoldsAgent(d)) => c = d

\* A directory that counts as the managed runtime is a whole, verified one, wherever an
\* install fails or the process dies (bootstrap.go: the marker lands with the tree).
MarkedIsWhole == Managed => runtime.tree = {"files", "marker"}

\* Replacing a directory never leaves the machine without the old one and the new one.
Kept(r) == r.tree # {} \/ r.backup # {} \/ r.orphan
ReplacedNotLost == [][Kept(runtime) => Kept(runtime')]_vars

\* While an install that placed the package holds the Agent, its record names an npm whose
\* prefix has it: what a later uninstall falls back to (uninstall.go:171).
RecordLeadsToPackage ==
  \A c \in Procs :
    calls[c].op = "install" /\ calls[c].pc \in {"login", "configure", "done"} /\ calls[c].placed =>
      record # None /\ packages[PrefixOf[record.npm]] = 2

\* An Agent installed into BootAgent's own prefix resolves in the user's terminal: the
\* login PATH names the prefix before the install succeeds (install.go:403-413).
TerminalFindsAgent ==
  \A c \in Procs :
    At(c, {"install"}, "done") /\ calls[c].placed /\ calls[c].npm = Own => {"runtime", "global"} \subseteq login

\* A copy of the Agent goes only when an uninstall was asked for it: one of its prefixes,
\* that of the npm at hand if PATH shows none, or any other with consent, and always one
\* npm lists.
OnlyChosenGoes ==
  [][\A p \in Prefixes : packages[p] > 0 /\ packages'[p] = 0 =>
       /\ p \notin Odd
       /\ \E c \in Procs : calls[c].op = "uninstall" /\ (p \in calls[c].ids \/ AtHand \in calls[c].ids \/ calls[c].cross)]_vars

\* The Agent's data goes only when that was asked for, and after every installation of the
\* call: one that could not be removed keeps it.
DataGoesLast ==
  [][data /\ ~data' => \E c \in Procs : calls[c].op = "uninstall" /\ calls[c].wipe /\ calls[c].ids \subseteq calls[c].gone]_vars

\* What every reachable state keeps: types, a managed runtime that is whole, a record
\* that leads to the package, a terminal that finds the Agent.
InstallsSafe == TypeOK /\ MarkedIsWhole /\ RecordLeadsToPackage /\ TerminalFindsAgent
=============================================================================
