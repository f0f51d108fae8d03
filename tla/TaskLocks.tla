----------------------------- MODULE TaskLocks -----------------------------
(***************************************************************************)
(* The locks of app.UseCases and the calls that take them.                 *)
(*                                                                         *)
(* Every Wails call runs in a goroutine of its own.  Two static mutexes    *)
(* (writeMu, conversionMu) and a lazily filled table of per-target mutexes *)
(* (taskLocks) coordinate them.  A call is a record that says how far its  *)
(* goroutine has come; one action is one acquisition, one release, or the  *)
(* end of one piece of work done between two of them.                      *)
(*                                                                         *)
(* Agents are numbered by the position sort.Strings gives their keys.      *)
(***************************************************************************)
EXTENDS Integers

CONSTANTS Calls,      \* goroutines that serve calls
          Agents,     \* catalog Agents, numbered in key order
          LastAgent,  \* the largest of these numbers
          Runtimes,   \* bootstrappable runtimes (node, uv)
          Desktops,   \* desktop Agents
          Manager,    \* package manager of each Agent
          MaxRounds,  \* bound: installations one uninstall removes, sections of a conversion
          Free,       \* an unlocked mutex
          Absent      \* a task mutex nobody has asked for yet

ASSUME LockAssumption ==
  /\ LastAgent \in Nat
  /\ Agents \subseteq 1 .. LastAgent /\ Agents # {}
  /\ Manager \in [Agents -> {"npm", "uv", "official-script"}]
  /\ MaxRounds \in Nat \ {0}
  /\ Free \notin Calls /\ Absent \notin Calls /\ Free # Absent

AgentKey(a)  == <<"agent-task", a>>
WriteMu      == <<"writeMu", 0>>
ConversionMu == <<"conversionMu", 0>>
AgentKeys    == {"agent-task"} \X Agents
DownloadKeys == {"download"} \X Runtimes
DesktopKeys  == {"install-desktop"} \X Desktops
TaskKeys     == AgentKeys \cup DownloadKeys \cup DesktopKeys
Locks        == TaskKeys \cup {WriteMu, ConversionMu}

VARIABLES holder,   \* holder[l]: Absent, Free or the call that owns mutex l
          call      \* call[c]: what the goroutine c is doing

vars == <<holder, call>>

Kinds  == {"none", "install", "runtime", "update", "uninstall", "desktop",
           "configure", "convert"}
Stages == {"idle", "lookup", "lock", "step", "runtime", "package", "record",
           "config", "finish", "section", "restore", "desktop", "round",
           "files", "data", "unlock"}

CallState == [stage: Stages, kind: Kinds,
              key: Locks,                \* the mutex the call is after
              target: TaskKeys,          \* download or desktop key it was asked for
              todo: SUBSET Agents,       \* Agents still to lock, then to work on
              cur: Agents,               \* the Agent being worked on
              rounds: 0 .. MaxRounds,    \* installations or sections still to do
              data: {"keep", "locked", "after"}] \* RemoveUserData: where it happens

TypeOK == /\ holder \in [Locks -> Calls \cup {Free, Absent}]
          /\ call \in [Calls -> CallState]

AnyAgent == CHOOSE a \in Agents : TRUE

Idle == [stage |-> "idle", kind |-> "none", key |-> WriteMu,
         target |-> AgentKey(AnyAgent), todo |-> {}, cur |-> AnyAgent,
         rounds |-> 0, data |-> "keep"]

Init == /\ holder = [l \in Locks |-> IF l \in TaskKeys THEN Absent ELSE Free]
        /\ call = [c \in Calls |-> Idle]

\* How one call goes on: to a state, to a stage, after a mutex, or to its end
\* when something failed.
Enter(c, stage)  == [call[c] EXCEPT !.stage = stage]
Want(c, key)     == [call[c] EXCEPT !.stage = "lookup", !.key = key]
GiveUp(c)        == [call[c] EXCEPT !.stage = "unlock", !.rounds = 0, !.data = "keep"]
Becomes(c, next) == call' = [call EXCEPT ![c] = next]
Goto(c, stage)   == Becomes(c, Enter(c, stage))

Start(c, request) == /\ call[c].stage = "idle"
                     /\ Becomes(c, request)
                     /\ UNCHANGED holder

\* The smallest element of a non-empty set of Agents: the next key of lockTasks.
First(S) == CHOOSE a \in S : \A b \in S : a =< b

-----------------------------------------------------------------------------
(* Requests. *)

\* One or more Agents; writeMu comes first.
InstallAgents(c) == \E S \in (SUBSET Agents) \ {{}} :
  Start(c, [Idle EXCEPT !.stage = "lock", !.kind = "install", !.todo = S])

InstallRuntime(c) == \E k \in DownloadKeys :
  Start(c, [Idle EXCEPT !.stage = "lock", !.kind = "runtime", !.target = k])

\* Only npm-managed Agents; no writeMu.
UpdateAgent(c) == \E a \in {b \in Agents : Manager[b] = "npm"} :
  Start(c, [Idle EXCEPT !.stage = "lookup", !.kind = "update",
                        !.key = AgentKey(a), !.cur = a])

\* Without an explicit installation the call works through all the discovered
\* ones; a single one is removed by the manager that owns it.  Only the npm path
\* of a single installation removes the user data while it holds the Agent.
UninstallAgent(c) ==
  \E a \in Agents, n \in 1 .. MaxRounds, data \in {"keep", "locked", "after"} :
    /\ data = "locked" => n = 1 /\ Manager[a] # "uv"
    /\ Start(c, [Idle EXCEPT !.stage = "round", !.kind = "uninstall", !.cur = a,
                             !.rounds = n, !.data = data])

InstallDesktopAgent(c) == \E k \in DesktopKeys :
  Start(c, [Idle EXCEPT !.stage = "lookup", !.kind = "desktop", !.key = k, !.target = k])

\* ActivateAgent, SaveProvider, SaveProfile, ConfigureDesktopAgent and the other
\* calls that rewrite the configuration of some Agents under writeMu alone.
ActivateAgent(c) == \E S \in SUBSET Agents :
  Start(c, [Idle EXCEPT !.stage = "lock", !.kind = "configure", !.todo = S])

\* SaveConversion holds conversionMu around several sections, each of which
\* takes and drops writeMu on its own.
SaveConversion(c) == \E n \in 1 .. MaxRounds :
  Start(c, [Idle EXCEPT !.stage = "lock", !.kind = "convert",
                        !.key = ConversionMu, !.rounds = n])

-----------------------------------------------------------------------------
(* Acquisition. *)

\* Refuted variant: the mutex found under taskMu is replaced by a new one.
LookupReplaces(c) ==
  /\ call[c].stage = "lookup"
  /\ holder' = [holder EXCEPT ![call[c].key] = Free]
  /\ Goto(c, "lock")

\* The map access of lockTask, under taskMu: find the mutex or store a new one.
Lookup(c) ==
  /\ call[c].stage = "lookup"
  /\ holder' = [holder EXCEPT ![call[c].key] = IF @ = Absent THEN Free ELSE @]
  /\ Goto(c, "lock")

AfterConversionMu(c) ==
  /\ call[c].key = ConversionMu
  /\ Goto(c, "section")

AfterWriteMu(c) ==
  /\ call[c].key = WriteMu
  /\ \/ /\ call[c].kind = "install"
        /\ \/ Becomes(c, Want(c, AgentKey(First(call[c].todo))))
           \/ Goto(c, "unlock")                        \* validateInstall refuses
     \/ /\ call[c].kind = "runtime"
        /\ Becomes(c, Want(c, call[c].target))
     \/ /\ call[c].kind = "configure"
        /\ \/ Goto(c, "record")
           \/ Goto(c, "unlock")                        \* the request is refused
     \/ /\ call[c].kind = "convert"
        /\ \E S \in SUBSET Agents : Becomes(c, [Enter(c, "record") EXCEPT !.todo = S])

\* The Agents whose key lockTasks has not reached yet.
Ahead(c) == {a \in call[c].todo : a > call[c].key[2]}

AfterAgentKey(c) ==
  /\ call[c].key \in AgentKeys
  /\ \/ /\ call[c].kind = "install"
        /\ Ahead(c) # {}
        /\ Becomes(c, Want(c, AgentKey(First(Ahead(c)))))
     \/ /\ call[c].kind = "install"
        /\ Ahead(c) = {}
        /\ \/ Goto(c, "step")
           \/ Goto(c, "unlock")                        \* credentials or probe fail
     \/ /\ call[c].kind = "uninstall"
        /\ Goto(c, "package")
     \/ /\ call[c].kind = "update"
        /\ \/ Goto(c, "package")
           \/ Goto(c, "unlock")                        \* npm or the Agent is missing

AfterTargetKey(c) ==
  \/ call[c].key \in DownloadKeys /\ Goto(c, "runtime")
  \/ call[c].key \in DesktopKeys  /\ Goto(c, "desktop")

Lock(c) ==
  /\ call[c].stage = "lock"
  /\ holder[call[c].key] = Free
  /\ holder' = [holder EXCEPT ![call[c].key] = c]
  /\ \/ AfterConversionMu(c)
     \/ AfterWriteMu(c)
     \/ AfterAgentKey(c)
     \/ AfterTargetKey(c)

-----------------------------------------------------------------------------
(* Work. *)

\* The next Agent of a request: skipped (guide, unsupported, no package),
\* configured at once, or installed, through the runtime if npm or uv is missing.
StepWith(c, a) ==
  LET next == [call[c] EXCEPT !.todo = @ \ {a}, !.cur = a]
      At(stage) == [next EXCEPT !.stage = stage]
  IN \/ Becomes(c, At("config"))
     \/ /\ call[c].kind = "install"
        /\ \/ Becomes(c, next)
           \/ /\ Manager[a] # "official-script"
              /\ \/ Becomes(c, At("package"))
                 \/ \E k \in DownloadKeys : Becomes(c, [At("lookup") EXCEPT !.key = k])

Step(c) ==
  /\ call[c].stage = "step"
  /\ UNCHANGED holder
  /\ \/ \E a \in call[c].todo : StepWith(c, a)
     \/ /\ call[c].todo = {}
        /\ Goto(c, IF call[c].kind = "install" THEN "finish" ELSE "unlock")

\* EnsureRuntime returned; the download lock goes before anything else happens.
RuntimeDone(c) ==
  /\ call[c].stage = "runtime"
  /\ IF call[c].kind = "install"
     THEN /\ holder' = [holder EXCEPT ![call[c].key] = Free]
          /\ Goto(c, "package") \/ Goto(c, "step")
     ELSE /\ UNCHANGED holder
          /\ Goto(c, "unlock")

\* Refuted variant: an update records what it installed under writeMu, while it
\* still owns its Agent.
PackageDoneRecords(c) ==
  /\ call[c].stage = "package"
  /\ UNCHANGED holder
  /\ Becomes(c, [Enter(c, "lock") EXCEPT !.kind = "configure", !.key = WriteMu])

\* The package-manager command of an install, an update or an uninstall ended.
PackageDone(c) ==
  /\ call[c].stage = "package"
  /\ UNCHANGED holder
  /\ \/ /\ call[c].kind = "install"
        /\ Goto(c, "record") \/ Goto(c, "step")
     \/ /\ call[c].kind = "update"
        /\ Goto(c, "unlock")
     \/ /\ call[c].kind = "uninstall"
        /\ \/ Becomes(c, [Enter(c, IF call[c].data = "locked" THEN "data" ELSE "unlock")
                            EXCEPT !.rounds = @ - 1])
           \/ Becomes(c, GiveUp(c))

\* An installation goes from agent-installs.json and the login PATH to the
\* configuration of its Agent, the other calls from the key, Provider, Profile or
\* settings record to the Agents that follow it.
RecordDone(c) ==
  /\ call[c].stage = "record"
  /\ UNCHANGED holder
  /\ \/ call[c].kind = "install" /\ Goto(c, "config")
     \/ Goto(c, "step")

ConfigDone(c) ==
  /\ call[c].stage = "config"
  /\ UNCHANGED holder
  /\ Goto(c, "step")

\* installRun.finish: the profile record and the active pointer.
FinishDone(c) ==
  /\ call[c].stage = "finish"
  /\ UNCHANGED holder
  /\ Goto(c, "unlock")

DesktopDone(c) ==
  /\ call[c].stage = "desktop"
  /\ UNCHANGED holder
  /\ Goto(c, "unlock")

\* Refuted variant: an uninstall runs the package manager without the Agent's mutex.
RoundWithoutLock(c) ==
  /\ call[c].stage = "round"
  /\ UNCHANGED holder
  /\ IF call[c].rounds > 0 THEN Goto(c, "package") ELSE Goto(c, "unlock")

\* The next installation of an uninstall: npm and uv lock the Agent, the files
\* of an official script go without any lock.  Then, in the bulk, uv and script
\* cases, the user data, also without a lock.
Round(c) ==
  /\ call[c].stage = "round"
  /\ UNCHANGED holder
  /\ \/ /\ call[c].rounds > 0
        /\ \/ Becomes(c, Want(c, AgentKey(call[c].cur)))
           \/ /\ Manager[call[c].cur] = "official-script"
              /\ Goto(c, "files")
     \/ /\ call[c].rounds = 0 /\ call[c].data # "keep"
        /\ Goto(c, "data")
     \/ /\ call[c].rounds = 0 /\ call[c].data = "keep"
        /\ Goto(c, "unlock")

\* Refuted variant: the installation removed is not taken off the list.
FilesDoneAgain(c) ==
  /\ call[c].stage = "files"
  /\ UNCHANGED holder
  /\ Goto(c, "round")

FilesDone(c) ==
  /\ call[c].stage = "files"
  /\ UNCHANGED holder
  /\ \/ Becomes(c, [Enter(c, "round") EXCEPT !.rounds = @ - 1])
     \/ Becomes(c, GiveUp(c))

\* removeAgentUserData returned, the last thing an uninstall does.
DataDone(c) ==
  /\ call[c].stage = "data"
  /\ UNCHANGED holder
  /\ Becomes(c, [Enter(c, "unlock") EXCEPT !.data = "keep"])

\* Between the sections of a conversion: the next one, the end, or a failure
\* that puts the snapshot back with conversionMu alone.
Section(c) ==
  /\ call[c].stage = "section"
  /\ UNCHANGED holder
  /\ \/ /\ call[c].rounds > 0
        /\ Becomes(c, [Enter(c, "lock") EXCEPT !.key = WriteMu, !.rounds = @ - 1])
     \/ call[c].rounds = 0 /\ Goto(c, "unlock")
     \/ Becomes(c, [Enter(c, "restore") EXCEPT !.rounds = 0])

RestoreDone(c) ==
  /\ call[c].stage = "restore"
  /\ UNCHANGED holder
  /\ Goto(c, "unlock")

-----------------------------------------------------------------------------
(* Release. *)

\* The order in which one call may ask for two mutexes.
Before(k, l) ==
  \/ k = ConversionMu /\ l = WriteMu
  \/ k = WriteMu /\ l \in TaskKeys \ DesktopKeys
  \/ k \in AgentKeys /\ l \in AgentKeys /\ k[2] < l[2]
  \/ k \in AgentKeys /\ l \in DownloadKeys

Held(c) == {l \in Locks : holder[l] = c}

\* The deferred unlocks, last acquired first.  A conversion that drops writeMu
\* stays in its transaction; an uninstall may have another round to go.
Unlock(c) ==
  /\ call[c].stage = "unlock"
  /\ \/ \E l \in Held(c) :
          /\ \A k \in Held(c) : ~Before(l, k)
          /\ holder' = [holder EXCEPT ![l] = Free]
          /\ IF call[c].kind = "convert" /\ l = WriteMu
             THEN Goto(c, "section")
             ELSE UNCHANGED call
     \/ /\ Held(c) = {}
        /\ UNCHANGED holder
        /\ IF call[c].kind = "uninstall" /\ (call[c].rounds > 0 \/ call[c].data # "keep")
           THEN Goto(c, "round")
           ELSE Becomes(c, Idle)

-----------------------------------------------------------------------------
Request(c) == \/ InstallAgents(c) \/ InstallRuntime(c) \/ UpdateAgent(c)
              \/ UninstallAgent(c) \/ InstallDesktopAgent(c)
              \/ ActivateAgent(c) \/ SaveConversion(c)

Work(c) == \/ Lookup(c) \/ Step(c) \/ RuntimeDone(c) \/ PackageDone(c)
           \/ RecordDone(c) \/ ConfigDone(c) \/ FinishDone(c) \/ DesktopDone(c)
           \/ Round(c) \/ FilesDone(c) \/ DataDone(c)
           \/ Section(c) \/ RestoreDone(c) \/ Unlock(c)

Next == \E c \in Calls : Request(c) \/ Lock(c) \/ Work(c)

Spec == Init /\ [][Next]_vars

\* Commands run under a timeout and a stall watch, so work ends; sync.Mutex hands
\* itself to a waiter that has starved for a millisecond, so waiting is strongly
\* fair.  Nothing makes a user start a call.
FairSpec == /\ Spec
            /\ \A c \in Calls : WF_vars(Work(c)) /\ SF_vars(Lock(c))

-----------------------------------------------------------------------------
(* Properties. *)

Mutating(c, a) == call[c].stage = "package" /\ call[c].cur = a
Writing(c)     == call[c].stage \in {"record", "config", "finish"}

\* Two calls never run npm or uv for the same Agent at the same time, whichever
\* of install, update and uninstall they are.
PackageExclusive ==
  \A c, d \in Calls, a \in Agents : Mutating(c, a) /\ Mutating(d, a) => c = d

\* Records and configuration files have one writer at a time, also when one
\* installation and several configuration calls are under way.
ConfigExclusive == \A c, d \in Calls : Writing(c) /\ Writing(d) => c = d

BlockedBy(c, d) == call[c].stage = "lock" /\ holder[call[c].key] = d

\* No set of calls waits in a circle, a call for itself included: overlapping
\* installs, runtime bootstraps inside and outside an install, conversions.
NoCircularWait ==
  \A S \in (SUBSET Calls) \ {{}} : \E c \in S : \A d \in S : ~BlockedBy(c, d)

\* Every mutex a call owns comes before the one it is waiting for: the order
\* that the comment on InstallRuntime demands of every path.
LockOrder ==
  \A c \in Calls : call[c].stage \in {"lookup", "lock"} =>
    \A l \in Held(c) : Before(l, call[c].key)

\* What every reachable state keeps: one package-manager command per Agent, one
\* writer of records and configurations, one order of the mutexes.
LocksSafe == TypeOK /\ PackageExclusive /\ ConfigExclusive /\ LockOrder

\* Every call that was accepted returns.
EveryCallReturns == \A c \in Calls : call[c].stage # "idle" ~> call[c].stage = "idle"

-----------------------------------------------------------------------------
(* Refinement: the locks keep the promise of TargetExclusion. *)

writer  == IF \E c \in Calls : Writing(c)
           THEN CHOOSE c \in Calls : Writing(c) ELSE Free
mutator == [a \in Agents |-> IF \E c \in Calls : Mutating(c, a)
                             THEN CHOOSE c \in Calls : Mutating(c, a) ELSE Free]

Exclusion == INSTANCE TargetExclusion

\* The abstract permissions, as a property of the calls.
ExclusionSpec == Exclusion!Spec
=============================================================================
