# BootAgent in TLA+

BootAgent is a desktop program (Go behind Wails, React in front) that installs coding
Agents, such as Claude Code, Codex, OpenCode or ZCode, and points them at model Providers. These modules
model the parts of its backend where several pieces of state, several concurrent calls or
several failures meet. Paths are relative to the repository. Line numbers of every
definition are in `PROJECT.json` under `map`.

Contents: [Inventory](#inventory) · [Modules](#modules) · [Runs](#runs) ·
[Bounds](#bounds) · [Fairness](#fairness) · [Proofs](#proofs) ·
[Where code and comments disagree](#where-code-and-comments-disagree) ·
[Seen while modelling](#seen-while-modelling) · [Not modelled](#not-modelled) · [Plan](#plan)

## Inventory

The backend is one `UseCases` object (`internal/app`) over a handful of stores. Every call of the
frontend runs in a goroutine of its own (`internal/binding`), so calls are concurrent. All
durable state is files below `~/.bootagent` and the configuration files of the Agents, and
every write of them goes through `securefs.Store.AtomicWrite`.

| Component | State | Operations | What is hard | What makes it correct |
|---|---|---|---|---|
| `app`: locks (`status.go`, `task_lock.go`, all calls) | `writeMu`, `conversionMu`, `taskMu`, the lazy map `taskLocks` | install, update, uninstall, runtimes, desktop Agents, activation, conversion | overlapping sets of locks, locks taken inside locks, uninstalls in rounds, lazily created mutexes | no circular wait, one package command per Agent, one writer of records and configurations, every call returns |
| `app`: Providers, Profiles, bindings (`provider.go`, `status.go`, `agent.go`, `install.go`, `desktopapp.go`; `provider`, `profile`) | `providers.json`, Profile records, one binding and one configuration file per Agent | save and delete Provider or Profile, activate, install, configure a desktop Agent | copies that must follow edits, partial failures of a rewrite, reads before the lock, deletes under use | bindings tell what configurations say, Agents follow their Provider, keys stay with their endpoints |
| `securefs` | the file, its backup group, leftovers of two older backup layouts | `AtomicWrite`, `Backup`, migrations, pruning | errors and crashes between steps, other programs editing the file | atomic replacement, the replaced content can be restored, bounded history |
| `app`: conversion; `convertproxy/server.go` | `conversion.json`, three converter Providers and Profiles, a listener with a Serve goroutine | save, enable, retarget, new key, desktop setup, roll back; `SetConfig`, `Close` | a saga over many files, a server reconfigured under load, ports that others take | what runs is what is saved, a failed call leaves no trace, no listener leaks |
| `convertproxy`: conversion | the messages of a request, the two event streams of an answer | convert items, convert chunks, end a stream | deltas in any order, calls numbered by the upstream | one block open at a time; a stream says what the answer converts to |
| `app`: MCP; `mcp` | registry, one MCP section per Agent file | scan, apply, delete, export, import | entries the user edits, formats that lose information, partial failures | registry and files agree, servers go only when deleted |
| `app`: settings transfer; `transfer`; `profile` | all stores; record, secret and pointer of a Profile | export, preview, import with rollback; save, delete, activate | several stores, one snapshot, failures half way, crashes between files | all or nothing, keys that are absent are kept, the pointer resolves |
| `app`: Skills; `skill` | registry, library, backups, directories of the Agents, preview tokens | scan, preview, import, copy, remove, uninstall, restore | directories swapped into place, sources that change, tokens used later | what is removed is in a backup, what the registry names is there |
| `app`: multimodal Skills; `skillgen`, `modality` | generated variants, key variables, fallback files, capability cache | probe, install, follow a Provider edit, reconcile keys | probes that finish after an edit, user-edited trees, refused writes | a new key never reaches an old endpoint, keys go with the last Skill |
| `install`; `app`: installation records, runtimes, updates, uninstalls | runtimes and packages on disk, `agent-installs.json`, the login PATH | bootstrap Node, install, record, update, choose and uninstall | several npm's and prefixes, a bootstrap that changes which npm runs, promotion over an old directory | the old or the new runtime is in place, only what was chosen goes, the record leads to the package |
| `desktopapp`; `binding`: updater; `process`: stall guard | bundles at two destinations, the update on offer, the gate of quit and restart | inspect, download, verify, copy; check, resume, stage, restart, quit | resumption, stalls, late answers, torn copies | bytes continue where they stopped, only verified files are used, every call ends |
| `process`: commands | a child process, its activity | run with deadline and stall watch | end of the process against timer and cancellation | killed at most once, result of a finished process kept |
| `app`: task history, conversation and first-start migration, marketplace, latest versions, launch | files and caches nothing else depends on | append, read, copy once | little | bounded, readable |
| `config` | formats of Agent files | merge, write | parsing | foreign keys survive |
| `frontend` | wizard reducer, task centre | reducer actions, events | events of tasks out of order | a task ends once |

Interactions. `binding` calls `app`; `app` holds its locks and calls `provider`, `profile`,
`mcp`, `skill`, `config` and `install`; all of those write through `securefs`. A Provider edit (`SaveProvider`)
is carried by `app` to the configuration of every bound Agent and to generated Skills; a
Profile edit in the same way. The protocol adapter (conversion) offers three Providers of its own, whose
address and key follow its settings. An import of settings writes the stores of four components. Agents and their users
read and edit their own files at any time, without any lock.

`PROJECT.json` lists every component with its status, and under `hazards` the places
where this code could go wrong in ways that are hard to test.

## Modules

| Module | Models | Kind |
|---|---|---|
| `TargetExclusion` | what the locks promise to files and packages | abstract specification |
| `TaskLocks` | the mutexes of `UseCases` and every kind of call that takes them | detailed, implements `TargetExclusion` |
| `Routing` | Providers, Profiles, bindings, configurations | detailed |
| `AtomicRegister` | what `AtomicWrite` promises to its callers | abstract specification |
| `AtomicFile` | `AtomicWrite`, backups, migrations, pruning | detailed, implements `AtomicRegister` |
| `Conversion` | the protocol adapter: its files, its calls and its server | detailed |
| `ProtocolConversion` | one conversation through the adapter | the converters' loops, item by item and chunk by chunk |
| `McpRegistry` | the registry of MCP servers and the files of the Agents | detailed |
| `Transfer` | import and export of settings, the Profile store | detailed |
| `SkillLibrary` | the library of Skills, backups, the directories of the Agents | detailed |
| `GeneratedSkills` | Skills written for a Provider, and where its key goes | detailed |
| `Installations` | npm installs, the Node runtime, records, uninstalls | detailed |
| `Downloads` | desktop apps and BootAgent's own update | detailed, with fairness |
| `AgentFilesProofs` | `Routing` and `McpRegistry`: what the files of Agents say | theorems |
| `StorageProofs` | `AtomicFile` and `SkillLibrary`: what is kept and can be restored | theorems |
| `AdapterProofs` | `Conversion` and `ProtocolConversion`: the protocol adapter | theorems |
| `TaskLocksProofs`, `TransferProofs`, `DownloadsProofs`, `InstallationsProofs`, `GeneratedSkillsProofs` | the module each is named after | theorems |
| `MC...` | | instances for TLC |

The modules stack. `AtomicFile` shows that one write of one file is one step, so the others treat a write as a step that happens or
fails. `TaskLocks` shows that the operations on records and configurations exclude each other: `Routing`, `McpRegistry`, `Transfer`,
`SkillLibrary` and `GeneratedSkills` have one call at a time and let everybody else act between its steps. `Conversion`
shows when the entries of the converter Providers change; `Routing` shows that Agents follow such a change.

### TaskLocks

`holder[l]` is the owner of mutex `l`, `Free`, or `Absent` for a task mutex that the map
`taskLocks` does not have yet. `call[c]` is the goroutine `c`: its `stage`, the `kind` of
call, the `key` it is after, the Agents left `todo`, the Agent `cur` it works on, and how many
`rounds` (installations of an uninstall, sections of a conversion) remain.

* `Lookup` is the map access of `lockTask`: find the mutex or store a new one.
  `Lock` is `mutex.Lock()` and says, by the mutex and the kind of call, what follows:
  `AfterWriteMu`, `AfterAgentKey` and so on are the code between two acquisitions.
* `InstallAgents`: `writeMu`, then the Agent mutexes in the order `lockTasks` sorts them,
  then for each Agent a runtime (the mutex `download/<runtime>`, released before the
  package is installed), package, record, configuration; `finish` writes the Profile.
* `UpdateAgent` and the rounds of `UninstallAgent` take one Agent mutex and never `writeMu`;
  files of official scripts and (in most cases) user data go without any lock.
* `ActivateAgent` stands for every call that takes `writeMu` alone, with any set of Agents
  to rewrite: Provider and Profile edits, desktop configuration, MCP, Skills, imports.
* `SaveConversion` holds `conversionMu` around sections that each take and drop `writeMu`;
  `restore` is the rollback that rewrites files with `conversionMu` alone.
* `Unlock` is the chain of deferred unlocks, in reverse order, one at a time.

The duration of a piece of work is a stage; its end is an action. Failures are the
alternatives in which a call goes to `unlock` or gives up.

### Routing

`stored` is `providers.json`; `profile` the Profile records; `config[a]` the values BootAgent
manages in the file of Agent `a` (name, endpoint, key, model, depth); `binding[a]` what
BootAgent recorded about it; `pending[d]` what `ConfigureDesktopAgent` read before
it took `writeMu`. `state[a]` tells how the last attempt for `a` ended: `settled`; `stale` when
a rewrite that an edit called for was refused or never reached; `torn` when the
configuration was written and the binding was not.

* `SaveProvider`, `DeleteProvider`, `SaveProfile`, `DeleteProfile`, `ActivateAgent` and
  `InstallAgents` are whole handlers under `writeMu`: checks, the record, the key that a request
  brings (`SaveKey`), and the loop over the Agents. `InstallOnly` is an installation that configures nothing.
* `Rewrite` is the loop body: for each Agent the function `out` chooses `refused` (a check or
  a failed write), `half` (configuration without binding) or `done`. Without a key
  every Agent is refused, as in `activateAgentLocked`.
* `Get` hides the catalog entry of a built-in Provider under the saved one; deleting the saved
  entry brings it back.
* `ReadProfile`, `ReadProvider` and `ConfigureDesktop` are the three moments of
  `ConfigureDesktopAgent`; only the last one is under the lock.
* Endpoints and keys are pairs of a Provider and a version, so an endpoint or a key knows where
  it was entered. `Typed` is an endpoint given with a request.

### AtomicFile

`file`, `group`, `hashed` and `beside` are the four places on disk; `pc` is the next step of the
only write under way; `want`, `copied`, `moving`, `plan` are its local variables. A version stands
for a content and is numbered by its making, so an older version is a smaller one. A
backup carries its name (`id`), its modification time, its version, and whether it is `whole`.

Each action is one file-system step of the code: create a copy, complete it, rename, list,
remove one file. `Fail` (an error or a cancelled context) and `Crash` may follow any step; both leave a copy under way as
it was, complete or removed, since removing it may fail too. `Edit` is another program, at any moment.
`replaced` is a history variable: what successful writes backed up, in order.

### Conversion

`saved` is `conversion.json`; `conv` and `profs` are the entries of the three converter Providers and their Profiles; `upKey` and
`state` the Providers and Profiles an adapter may forward to; `desktop` and `agent` what Claude Desktop and an Agent on the Responses
converter were given. `cfg`, `http` and `bound` are the fields of `Server` and the addresses the process listens on.
`calls[c]` is a call: where it is (`pc`, `n`), what it wants, the key it will use, and the snapshot it took.

* `Call`, `Acquire`: what a call reads before and after it takes `conversionMu`; `SetConversionEnabled` and
  `SetConversionTargetProfile` bring a configuration that may be old by then.
* `Rotate`, `Check`, `Write`, `WriteSettings`: the files, one write each, every one of which may be refused.
* `Detach`, `Listen`: the two halves of `Server.SetConfig`. Shutting the old server down gives up after five seconds while a request is in flight
  (`TimesOut`); the new listener meets ports that are taken.
* `Restore`, `Stop`, `Start`: `rollbackConversionFailure`, file after file, then the server. Each may fail.
* `EditKey`, `EditProfile`, `Follow` are user edits under `writeMu`; `OtherProgram`, `Request`, `Answer`, `Close`, `Restart` are the world.

`lapsed` remembers that a crash, a failed rollback or a shutdown happened that no later call has made good.

### ProtocolConversion

In the phase `request` items are read and converted both ways. `chat` is the state of `responsesMessages`: messages, pending reasoning and calls, and
the last assistant message; `AppendItem` is its loop body. `wire` is a request in Anthropic's format: `Compose` is the client that puts consecutive blocks of a role into
one message, `AddBlock` the loop of `anthropicMessages` over the blocks of one, `AnthropicMessage` what becomes of it. Reasoning is the number of its item, so it can be recognised where it arrives.

In the phase `stream` each chunk goes to `AnthropicChunk` and `ResponsesChunk`. Every event the Anthropic stream writes (`Send`) is met by a client (`Received`), whose state stands for the events so far: which
block is open, the kinds of blocks begun, and whether the protocol was kept (`ok`). The events of the Responses stream are the sequence `res.out`. `Finish` completes both. `ChatResponseToAnthropic`
and `ChatResponseToResponses` convert the same answer without streaming: they are the reference the streams are compared with.
Texts, names and arguments are left out: an item is its type and its call; a delta of a call carries arguments, and the first one of a call its id and name.

### McpRegistry

`registry[id]` is the sequence of variants of a server with the Agents that run each; `config[a][id]` what the Agent's file holds.
A call loads the registry (`mem`), works on it file by file, and saves. `trusted` and `fresh` are history: the pairs a saved
or a running call has brought in line.

* `Scan`, `ReadAgent`, `EndScan`: `ScanMCP` rebuilds the registry from the files, in any order, and keeps what it knew of an Agent whose file fails (`Kept`).
* `Change`, `ReadFile`, `WriteFile`, `Record`, `EndChange`, `EndApply`: `ApplyMCP`, one change after the other on one registry in
  memory, saved after every Agent. `Recorded` and `Collapse` are the helpers on variants.
* `Native` is what an Agent's format keeps of a specification; `Redacted` what an export keeps.
* `EditFile`, `Damage`, `ComeOrGo`, `Crash` are the world.

### Transfer

`disk` is the record of everything an import may change: `providers.json`, the Profiles, the MCP registry, the Skill registry
and library, the endpoints in generated Skills. `pointer` and `secret` belong to the Profile store. `call` is the call that holds `writeMu`.

* `SaveProfile`; `Delete` with `DeleteRecord`, `DeleteSecret`, `DeletePointer`; `Activate` with `ActivateRecord`, `ActivatePointer`:
  the Profile store of `internal/profile`, file by file.
* `Import` and the stages `ImportProvider`, `ImportProfile`, `ImportMcp`, `ImportSkill`, `SaveRegistry`, `Refresh`: the order of `ImportTransferV2WithOptions`.
* `Fail` starts the rollback; `Undo` lists the files in the order of its `defer`; a snapshot is restored by removing what is there (`Erased`) and
  writing what was there (`Restored`), two steps.
* `Stop` is the end of the process, or of a call whose step failed, at any point. `cut` and `lapsed` remember it.

### SkillLibrary

One Skill whose variants are named by their hash. `registry` says which variants are stored, seen and managed where; `library`, `dirs`
and `backups` are on disk; `preview` is the token of an import and `source` the tree it was made from. A call carries its registry `mem`, the Agent it is about to
write (`at`) and the Agents somebody edited meanwhile (`touched`).

* `Scan`, `ScanAgent`, `ScanStore`, `ScanSave`: `ScanSkills`. `Apply...`: `ApplySkills` from the check of the token to its release. `Uninstall...`,
  `Backup`: `UninstallSkill`. `Restore...`: `RestoreSkillBackup`.
* `Blocked` and `Removable` are the checks before a directory is touched, a step before it is touched.
* `EditDir`, `EditSource`, `ComeOrGo`, `Expire`, `Crash` are the world. `loose`, `torn` and `raced` remember where a directory or the library
  changed and the registry did not follow.

### GeneratedSkills

A variant is a Provider and the endpoint its script sends to. `tree[c][x]` is what stands at place `x` (an Agent or the guide), `env` and `file` where
the Provider's key stands, `prov` is `providers.json`. `since` is history: the endpoints that were saved with a key or after it.

* `ProbeStart`, `ProbeEnd`: a probe that holds no lock. `InstallAsk`, `InstallStart`: evidence gathered before the lock, checked under it.
* `Save` is `SaveProvider` or `SaveKey`: the record, then one `Publish` per variant to render again, then `Reconcile`. `DeleteProvider`, `Remove`.
* `Publish` writes some of the places (`Mostly` bounds how many writes of one step fail) and the registry follows some of them.
* `Wanted` is the choice in `reconcileSkillEnvLocked`: no key while a variant at one of the places lags behind the Provider.

### Installations

One Agent of npm. `runtime` is the versioned directory of the managed Node with the sibling it was moved to; `packages[p]` the copy in prefix `p`; `record` the
entry of `agent-installs.json`; `login` what the sourced PATH script names; `session` the PATH of this process.

* `InstallAgents`, `InstallRuntime` with `Manager`, `Fetch`, `Stage`, `Aside`, `Publish`, `Clean`, `Persist`: the bootstrap. `Package`, `Record`, `Configure`: the install.
* `UpdateAgent`, `Update`. `UninstallAgent`, `Check`, `Remove`, `Wipe`: rounds over the chosen installations, each with its mutex; the data last.
* `Npm` and `Resolved` are look-ups on PATH, made again at each step as the code makes them. `Restart` may bring another PATH.

### Downloads

One desktop app on one system, and BootAgent's update. A body is the sequence of pieces `1..Pieces`; `calls[c].body` is the reader with what it `got`, where
the connection stands (`from`), and the guard (`quiet`, `verdict`, `closed`).

* `Deliver`, `Drop`, `End`, `Tick`, `Watch`: the stall guard of `internal/process`. `Resume`, `Answer`: `resumingBody`.
* `Install`, `Verify`, `PassOver`, `Copy`, `Write`, `Copied`, `CopyFails`, `StartInstaller`: `desktopapp`. The functions per app (`Sees...`, `Offer...`, `Passes...`)
  say what each looks for, downloads and verifies.
* `CheckUpdate`, `DownloadUpdate`, `StageUpdate`, `Restart`, `RestartFails`, `Quit`: `binding` and `main_wails.go`.
* `Cancel`, `Fail`, `Edit`, `Exit`, `OrphanWrites`: contexts, errors, the user, the end of the process, and a `ditto` that outlives it.

## Runs

| Run | Instance | Time | Shows |
|---|---|---|---|
| `live` (`TaskLocks_live.cfg`) | two calls of every kind, two Agents, a runtime, a desktop Agent, two rounds; 445 thousand states | 3 min | package commands and writers exclude each other, no circular wait, `TargetExclusion` is implemented, every accepted call returns |
| `endpoints` (`Routing_endpoints.cfg`) | a built-in and a custom Provider, a Profile, a catalog and a desktop Agent | 2 min | Agents follow endpoint edits; bindings say what configurations say; no bound Provider disappears; keys stay with their endpoints |
| `file` (`AtomicFile_safety.cfg`) | three contents, six copies, three old backups, retention 0, 1 and 2 | 20 s | `AtomicRegister` is implemented; what a successful write replaced can be restored; the history is bounded and keeps the newest |
| `adapter` (`Conversion_safety.cfg`) | two overlapping calls, two addresses, two targets, one event | 40 s | no listener leaks; between calls what runs is what is saved; a failed call leaves no trace |
| `streams` (`ProtocolConversion_orders.cfg`) | every request of six items with three calls, every answer of up to eight deltas of reasoning, text and three calls in any order; 143 thousand states | 20 s | calls and reasoning survive; blocks are well formed; a stream says what the answer converts to |
| `mcp` (`McpRegistry_sync.cfg`) | two Agents, one with a lossy format, two servers, two calls, two events | 1 min | registry and files agree on every pair that was brought in line; a server leaves only when it is deleted |
| `transfer` (`Transfer_rollback.cfg`) | two Providers, two Profiles, a Skill in two variants, two calls; 1.7 million states | 2 min | an import is all or nothing; no key is lost; pointer and Skill registry never dangle |
| `skills` (`SkillLibrary_steps.cfg`) | two Agents, two variants, one backup, two calls, one edit | 2 min | what is removed is in a backup; entries go last; what is stored or managed is there |
| `generated` (`GeneratedSkills_keys.cfg`) | an Agent with variables, one without, the guide, two Providers, two endpoints, two changes | 1 min | a new key stays away from an old endpoint; keys go with the last Skill; edits are kept |
| `filekey` (violation) | the same | s | a key reaches an old endpoint through the fallback file |
| `installs` (`Installations_calls.cfg`) | two calls at a time, three in all, four prefixes, one of which npm does not list | 1 min | the managed runtime is whole or the old one is kept; only what was chosen goes; data goes last; the record leads to the package |
| `downloads` (`Downloads_calls.cfg`) | two calls, bodies of two pieces, six apps on two systems; 365 thousand states | 2 min | bytes in order, paid resumes, no return of an abandoned transfer; only verified files are used; every call ends |

Every property of a passing run has a mutant in `PROJECT.json`: a plausible bug, such as a dropped
lock, a comparison that leaves out a field, or a snapshot that misses a file, with which TLC finds the property violated. The
mutated definitions stand beside the originals, marked as refuted variants.

## Bounds

* `TaskLocks`. Two calls show every conflict between two; a circle of three is covered by the proof for any number.
  `Agents = {1, 2}`, one managed by npm and one by an official script: enough for overlapping and disjoint
  sets and for the sorted order. `Runtimes = {node}`: two installs and a direct call compete for one runtime. `MaxRounds = 2`: a round after a round; the code
  repeats the same round.
* `Routing`. Two endpoints or keys per Provider, the catalog's version 0 included, so that an edit changes
  something. One depth only: that the recorded depth is the written one is proved for any number of them.
* `AtomicFile`. `MaxVersion = 3`, `MaxClock = 5`: three writes, one of which can fail or crash before
  and one after the migration; with three old backups the history exceeds every retention
  of the run. `Settings = {0, 1, 2}`: zero, which the code reads as 3, the lower limit and one above.
* `Conversion`. Two calls, so that one waits with an old configuration while the other changes it; one event (an edit, a port
  that is taken, a shutdown) at any moment; crashes and requests are not bounded.
* `ProtocolConversion`. Six items hold two calls with their outputs, reasoning and a text; `MaxChunks = 6` is the number of deltas after which no chunk follows: they hold each kind
  twice, or three calls between reasoning and text. Longer requests and answers are covered by the proof.
* `McpRegistry`. One Agent whose format is faithful and one whose format turns `sse` into `http`; two servers, so that a request has a second change; two calls and two events,
  so that something was brought in line before it is edited, damaged or interrupted.
* `Transfer`. The packages of `Foreign` are chosen to meet each Provider, Profile and Skill as new and as known; two calls, so that an import meets what was cut short before.
* `SkillLibrary`. `Retention = 1`, so that a second uninstall prunes the first; the initial states are every library, so two calls are enough. One edit may meet any step.
* `GeneratedSkills`. One Provider is edited and the other is a bystander whose key must survive; keys and endpoints have two values. `Misses = 1`: of the writes of one step all fail, none, or one.
* `Installations`. A prefix of BootAgent, the prefix npm's own path suggests, the one it really has, and one that npm does not list. Two calls interleave; the third meets what they left.
* `Downloads`. Two pieces: a drop after some and before all. `Window = 1`. At most two calls that overlap. `dsh` stands for `kimi` and `zcode`, which have a digest as well;
  `claude` has nothing to download.

## Fairness

Two specifications have fairness.

`TaskLocks!FairSpec`.

* Weak fairness of `Work(c)`: work ends. Commands run under a deadline and a stall watch
  (`internal/process`), downloads under their own, and file operations return.
* Strong fairness of `Lock(c)`: a waiter gets a mutex that is free again and again. `sync.Mutex`
  hands the lock to a goroutine that has waited for a millisecond (starvation mode), so a waiter cannot be overtaken forever.
* Nothing makes the user issue calls. `EveryCallReturns` speaks of accepted ones.

`Downloads!Spec`: weak fairness of `Runs(c)`, which is the ticker of the guard, the guard, the answer to a ranged request (the client's own header timeout),
the retry, and the ends of commands and calls. Nothing makes the network deliver, end or drop a body. `EveryCallEnds` must come from the guard and from the rule that
every resume was paid for.

The other modules check safety only: their calls are sequences of steps without waiting, and what makes them return is `TaskLocks`' question.

## Proofs

All proofs hold for every value of the constants that satisfies the module's named assumptions: constants have the
intended types, and the values for "nothing" differ from real ones. TLC evaluates the assumptions in every run.

`TaskLocksProofs`. The inductive invariant is local to a call: `Fit(r, H)` relates the
record `r` of a call to the set `H` of mutexes it owns, by five parts (kinds of
call that reach a stage, what a waiting call waits for, stages that own nothing, that own `writeMu`, that own
Agent mutexes). It is needed because exclusion alone says nothing about how a call
came to be in a stage. A mutex has one owner, so `PackagesExcluded` and `ConfigurationsExcluded` follow from
`Fit` of the two calls. `OrderKept` is part of `Fit`. `NoDeadlock`: every blocked call waits for a mutex after all it
owns, so along a chain of waiting calls the rank of the mutex grows; a set of calls without an
unblocked member would have no largest rank, but ranks are bounded, so one exists (`WFMin` on the distance to the bound).
`Refinement` maps `writer` and `mutator` to the calls in the writing and package stages, step by step.

`AgentFilesProofs`, `Routing`. The inductive invariant is `IInv`: types, the four properties, and two facts about origin:
an entry of `providers.json` (`StoredSound`) and the one a desktop call has read (`PendingSound`) hold an endpoint and a key of
the Provider they are stored under. Without them the origin of a key could
not be known at the time it is written. `Configuring` shows once that an attempt to write configurations keeps
the properties; each operation then has a lemma that it is such an attempt.

`AgentFilesProofs`, `McpRegistry`. `RegistryAgrees` speaks of the saved registry, which every call replaces by the one it has in memory, so `McpInv` says the same of that one at every step (`AgreesOn`), but for the pairs it
names. `ScanSound`: the Agents a scan has been through agree, those still to be read are in no variant. `ChangeSound`: every trusted pair agrees, but for deletions that Agents who are not installed never saw; a pair stops being trusted while it is written.
`FileSound`: the rest of a file is as it was read, or is not trusted since an edit. `RecordSound`: between the write of a file and its record, the file holds the wanted specification as its format keeps it.
`DeleteSound`: every installed Agent that is listed is still to come, at hand, or has refused, which is why nobody is listed when a server leaves. `Single` (one
variant per Agent, in memory as well) is what makes `Recorded` replace the right one, and `SectionsNative` (a file holds only what its format can say) is why a file that is read and written again is unchanged. `Selected` and `Collapse` are defined by
positions, so lemmas about them say which Agents and specifications survive without counting.

`StorageProofs`, `AtomicFile`. `PreviousKept` speaks of the end of a write, so the invariant says where the copy is before:
`Copying` while it is filled; `Saved` once it is complete: it stays the newest backup, but for one that
is being migrated and has not got its old time yet, and is not in the list of those to be pruned. `Dated` says that no backup is named or dated after
the clock, which makes the next copy the newest whatever failed and crashed writes left. `WritesAreAtomic`
is the refinement of `AtomicRegister`, step by step; it needs that the version being written is nobody else's.

`LatestVersionsKept` counts: after a successful write the history is as long as the setting allows or as many versions as were replaced, and holds the latest. `HistoryInv` turns this into a fact about each replaced version by itself: `Kept` says that the `i`-th one has a
whole backup (`Keeps`) with no more backups newer than it than writes replaced something after it, plus one for the copy of the write under way (`Pending`). A version whose place from the newest is within the setting is then not among the excess that
`List` takes from the old end, and a new copy moves every place by one exactly when `replaced` grows or is about to. The places are counted over distinct names, hence `Numbered`; over settled backups, hence `Placed`, which leaves out the one that a
migration has made and not dated; and `Pruning` says what the counting is for, that what is left fits the setting. Cardinalities of finite sets are enough: no induction over the history is made. This needs the last conjunct of `FileAssumption`: the names in the old
directory are distinct, which a file system gives.

`StorageProofs`, `SkillLibrary`. Every save writes the registry a call has in memory, so `SkillInv` says at every step that it could be saved now (`MemSound`): what it calls stored is in the library, what it calls managed is in the directory of the Agent, but for the Agents in `Unsure`, whose
directory changed since they were looked at. `UninstallSound` is why nothing is lost: past its backup, every variant the registry stores is in a backup, whatever is removed later, and what the call still has `todo` is exactly what it has not removed. `ApplySound` and `RestoreSound` say what a change
has checked and what a restore has brought back. `EntryGoesLast` follows because a call that reaches `removed` has emptied the library and left no managed copy.

`AdapterProofs`, `Conversion`. `IInv` is `TypeOK`, `ListenerOwnsConfig`, `Held` and `Between`. `Held` says of the call that holds `conversionMu` what its step knows: which formats already carry
the new key and address, that its snapshot was sound, and while it rolls back which files are as the snapshot has them. `Between` is `ServesWhatIsSaved` together with what it needs of
a configuration that is off. Each step is an operator on the whole record, so that a lemma can speak of it before and after.

`AdapterProofs`, `ProtocolConversion`. Nothing of a request is lost because at every item it has a place: `ChatFits` says of each call and each piece of reasoning read so far that it is in one message written, or is pending, in one place of either; that each output is one message
behind the one that has its call, which is why `AppendItem` must flush before an output; and that pending reasoning with no assistant message yet stays pending (`WireFits` says the same of the Anthropic converter and the message being composed). `RequestsSafe` is what is left
of it when the last flush has emptied what was pending.
Of a stream, `Telling` says that the converter knows whether there was a call, from which the stop reason comes in any order of deltas. `Building`, as long as they come in order, says that the blocks begun are those the answer converts to so far and that the last
one is open, with the index the converter holds; the order is needed, since without it `thinkingStarted` and `textStarted` say nothing about the open block. `ResponsesFit` says of the events written so far that an item which was mentioned was added once, has its deltas behind
that and is not done (`Begun`), that another one is `Absent`, and that the indexes of calls have no gap. `ItemsDelivered` then follows from positions in the concatenation of what was written and what the end writes, three events per call.

`TransferProofs`. `IInv` is `TypeOK`, the shape of a call (`CallTyped`), `Doing` (what a running call knows) and the five state properties. While an import runs, `ImportSo` says that
what it has been through is as the package says and the rest as it was; while it rolls back, `UndoneSo` says that the files it is through with are as they were; `BeforeSo` that what it found was sound.
The end of either is then `ImportComplete` or `ImportUndone`. `KeysStay` needs only that an import is the one call that writes entries outside a rollback, and `Merged` keeps the key.

`DownloadsProofs`. A body is sound when what it got is a prefix of `1..Pieces`, an open connection stands right behind it, and the resumes are at most the pieces, one less
while none came since the last (`advanced`). The rest is about calls: a file that is placed passed its checks, and while an install runs no bundle it made is complete, so that
`Copied` makes the first.

`InstallationsProofs`. `IInv` is `Files` (types, and a marked directory is whole, in its place or set aside), `Exclusive` (the two mutexes) and `Fits` for every call: `Bootstrapped` says what a call that brings the
runtime has in hand and that nothing is in the place it publishes to; `Placed` what an install knows of the package, the record and the login PATH from stage to stage; `Chosen` which installations an uninstall has left and
on what ground the next one goes. The properties hold because of who may act: what `Bootstrapped` and `Placed` say of the machine stays true while the call holds `writeMu` and the Agent (`OthersFit`), and every step of a call is an instance of `Stepping`. `Exclusive` is what
makes the difference: another call holds neither mutex at that time.

`GeneratedSkillsProofs`. `NewKeyStaysAway` is not inductive: a tree that is written again sends to the present endpoint, whatever old key still stands at its place. `Since` says that the present endpoint has joined those of every key
that was ever saved, and `Known` that a key which stands somewhere was saved, so such a tree is allowed every key it can meet. `Working` says of the call that holds `writeMu` which Provider its variants are of, and that the places it is
about are either all to be written again or ran the Provider before: a place that the last change has reached keeps its Provider while others are published, which is `Settled`. `Evident` is the same for evidence: it is about the entry it is filed under.

Every safety property that a run checks, invariant, action property or refinement, is a theorem. Three properties stay with TLC: `EveryCallReturns` and `EveryCallEnds` are liveness, whose fairness needs ENABLED, and `KeyStaysWithEndpoint` is the statement that the run `filekey` refutes. Converters and registries are written
without recursion: what the code computes in a loop over items, chunks or changes is the state of a step, so that an invariant over the steps takes the place of an induction over the data. That the converters' loops run to the end of their input is the structure of the Go code and is not stated.

## Where code and comments disagree

A run with expectation `violation` checks one statement of a comment; TLC shows a behaviour of the code that contradicts it. The quotes are in `PROJECT.json`.

* `filekey`: a new key is never handed to a variant that still sends to the old endpoint (`multimodal_install.go:539-540`). A lagging variant holds back the variable of its own Agent only; the
  fallback file is written when another Agent or the guide is up to date, and the lagging script reads that file once its variable is unset.

The same was found while modelling for the statements below. They have no run of their own, to keep a full pass of TLC short.

* Install and update share the Agent's mutex so that npm never changes a package while the Agent is configured (`install.go:101`). `ActivateAgent` does not take it and `UpdateAgent` takes no `writeMu` (`update.go:36`).
* Writes do not interleave (`agent.go:44`). `rollbackConversionFailure` restores files with `conversionMu` alone (`desktop_conversion.go:187`).
* "Nothing an Agent config carries has changed, so there is nothing to rewrite" (`provider.go:203`) compares with the record and not with the Agents: one whose rewrite failed is not repaired by saving again.
* A Provider edit leaves an Agent's own depth alone (`provider.go:314`); an empty depth with a Profile falls back to the Profile's (`:320`).
* A Profile never moves to another Provider without its followers (`status.go:664`); `WriteActive` in an installation does that (`install.go:627`).
* An edit of a Provider takes effect everywhere (`provider.go:163`); `ConfigureDesktopAgent` reads the Profile and the Provider before `writeMu` and writes the old endpoint afterwards (`desktopapp.go:198`). A running adapter keeps the key and
  endpoint of its target as well.
* "The latest three historical versions are kept" (`src/README.md:133`); copies that failed writes leave count as versions (`securefs.go:214`).
* Anthropic streams have one block open at a time (`convert_test.go:151`). `textStarted` and `thinkingStarted` are never reset (`convertproxy/server.go:308`): reasoning after text is a thinking delta of the text block, and text after a call goes to a
  block that was not started. `BlocksWellFormed` is therefore about answers that come in order.
* Removing an Agent from a server keeps the others in their variant (`mcp-registry-design.md:102-104`); `ApplyMCP` collapses before it removes the Agent (`mcp.go:431`), so a changed server may show a conflict.
* The source of an import is compared with its preview when it is stored (`skills-registry-design.md:213-215`); `ApplySkills` hashes it again and drops the comparison (`skill.go:367`): the variable `raced`.
* `npm update -g` runs in the npm at hand, whose prefix may have no copy, and reports success (`update.go:48-53`).
* "Writes use snapshots and rollback on failure" (`src/README.md:93`): a rollback of an import stops at its first error, and restores a file by removing and then writing it (`transfer.go:86`): the variable `lapsed`.

## Seen while modelling

Behaviours a reader of the models will meet. None contradicts a comment.

* Conversion. A failed call may leave the adapter off although `conversion.json` says it is on. Agents that followed a rotated key keep it after the rollback. Disabling fails when the Provider of the target has no key any more.
* Protocol conversion. Reasoning before a later call is attached to the previous assistant message. A user message with tool results puts its plain content first. Streams ignore the finish reason `length`. A Responses stream of calls only starts at
  `output_index` 1. An upstream that is cut off completes as done.
* MCP. A file that cannot be opened does not count as a failed deletion (`mcp.go:390`), nor does an Agent that is not installed at the moment: both keep the server, the registry forgets it. An import clears the list of Agents, and secrets become placeholders;
  the next scan drops the imported variant for the one in the files. Formats that lose the transport show conflicts. An edit between reading and writing a file is lost.
* Transfer. Imported Profiles lose their depth and context size (`transfer.go:403`). Agents bound to an imported Provider are not rewritten. An MCP server of the package replaces the registry's. An installation replaces the record of its Profile without the depth (`profile/write.go:173`), and
  the binding of an Agent whose adapter writes no depth records the depth that was asked for (`agent.go:150`).
* Skills. A second scan counts an Agent's own tree as managed. A removal whose save fails leaves stored entries without trees, after which no backup can be made. A restore replaces the whole library directory, writes over targets without looking, and lists the old targets again.
  A newer variant is not published over a managed older one. Staging directories of expired previews survive the process.
* Generated Skills. A registry save that fails after a tree was published leaves the tree ahead; a guide that was edited is not recognised, so its endpoint holds no key back; after a scan an edited tree is nobody's. An old key may meet a new endpoint for the time between tree and
  variable, or longer if that write fails. `desktop_conversion.go:90` writes the capability cache without `capabilityMu`.
* Installations. Two executables in one prefix make every uninstall without a choice refuse. An uninstall without a choice leaves the managed copy if PATH does not reach it. With consent for other environments a chosen installation that npm does not list leads to the removal of the recorded one. The prefix of a record is a guess
  and is used as `npm_config_prefix` (`uninstall.go:182-184`). A record outlives the uninstall. A crash between the two renames leaves no runtime and a sibling nobody removes. `.staging-` and `.download-` directories are never cleaned. The data goes after the locks are released.
* Downloads. A torn bundle that a failed `ditto` left counts as installed (`desktopapp.go:381`), and one that outlives BootAgent may become a second copy. A failed restart clears the gate of a quit the user asked for. An image stays mounted when the mount point cannot be parsed. ChatGPT and WorkBuddy
  have no digest, so an older build of the vendor's may be placed. The stall verdict is set after it was decided and counts the time of the consumer.

Hazards that are real, and that no property covers: an edit of another program between backup and rename is overwritten without a backup (`securefs.go:246`); a restore removes a file before it writes it (`transfer.go:86`); the end of the process against its
timers and the stall watch of commands (`process/activity.go:61`); the user data that goes when every lock is released (`uninstall.go:80`); the torn bundle above.

## Not modelled

* In `TaskLocks`: the leaf locks of caches (`capabilityMu`, `skillPreviewMu`, `regionMu`), and cancellation, which the
  failure alternatives cover.
* In `Routing`: the Provider `custom`, which has no record; the second (Anthropic) endpoint; the secret files
  of Profiles and the active pointer (they are in `Transfer`); generated Skills (in `GeneratedSkills`); the configuration that DSH desktop shares with `dsh`; and hand edits of
  Agent files. A refused attempt leaves the Agent's file as it was, which `AtomicFile` justifies.
* In `AtomicFile`: the store without a backup root, used for exports only; Windows permissions; the
  temporary files a crash leaves behind; two targets whose group has the same name; power loss; a clock that goes backwards;
  a file that another program changes in place during the copy. Writes of one file are one at a time, which holds for the files under `writeMu`.
* In `Conversion`: the Agents that follow a converter are one Agent whose rewrites succeed; the converter Providers are edited by conversion calls only.
* In `ProtocolConversion`: media, tool definitions, sampling parameters, usage, and every text.
* In `McpRegistry`: the draft flag of the page (`SetMCPDraftState`), fields of a server beyond its transport and header.
* In `Transfer`: packages with secrets, the limits and the format of an archive.
* In `SkillLibrary`: requests with several changes; formats and limits of archives; edits between the last check of a directory and the rename (`touched` excuses them).
* In `GeneratedSkills`: how models and rules resolve to a capability; steps of an uninstall. A process that dies leaves what it leaves when all later writes fail, so a crash is not a separate action. Edits and probes happen between calls, since a call reads a directory once.
* In `Installations`: uv and official scripts (their locks are in `TaskLocks`), previews, versions beyond "older" and "latest".
* In `Downloads`: opening an app, the override of its URL, the host allowlist and redirects, temporary directories; Wails' updater, which hashes, unpacks and swaps, is external.
* The components marked `not_modelled` in `PROJECT.json`. `config` and `jsonorder` are transformations of data; launching, `platform` and the marketplace are external input and output without state of
  their own; migrations copy once, before any call; `catalog`, `manifests`, build and documentation do not change at run time; `services.go` wraps calls.

## Plan

1. Done: `TaskLocks` with `TargetExclusion`, `Routing`, `AtomicFile` with `AtomicRegister`, `Conversion`, `ProtocolConversion`, `McpRegistry`, `Transfer` (which includes the Profile store), `SkillLibrary`,
   `GeneratedSkills`, `Installations`, `Downloads`, and the proofs above.
2. `ProcessWatch`: a command against its deadline, its cancellation and the stall watch over its activity (`process.go`, `activity.go`). Abstract specification: a process is killed at most once and the result of a finished one is kept.
3. `TaskCenter` and `Wizard` of the frontend: events of tasks out of order.
4. Done: proofs about `McpRegistry`, `SkillLibrary`, `ProtocolConversion` and the history of `AtomicFile`.
5. Properties the invariants already carry and no run checks: that a scan forgets no variant (`ScanSound` of `SkillLibrary`), and that pending reasoning waits for an assistant message. Shorter proofs where a lemma about `Once` or `Selected` can replace a case analysis.

Twelve runs are kept at most, so that a full pass of TLC stays short: as modules join, single-property runs are merged with others of their module.
