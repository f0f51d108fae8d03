----------------------------- MODULE Conversion -----------------------------
(***************************************************************************)
(* The local protocol adapter: conversion.json, the three converter         *)
(* Providers and their Profiles, the key in Claude Desktop's configuration, *)
(* and the HTTP server that uses them.  A call of the user interface holds  *)
(* conversionMu while it writes file after file and then replaces the       *)
(* listener; when a step fails it restores the files it had read and the    *)
(* previous listener.  Every file write, the two halves of                  *)
(* Server.SetConfig and every restored file are steps of their own; between *)
(* them the user edits Providers and Profiles, other programs take ports,   *)
(* requests arrive, and the process may die.                                *)
(***************************************************************************)
EXTENDS Naturals, Sequences, FiniteSets

CONSTANTS Callers,      \* calls of the user interface that may overlap
          Ports,        \* loopback addresses; DefaultPort is 127.0.0.1:8787
          DefaultPort,
          Targets,      \* Profiles an adapter may forward to
          None,         \* no target, no listener, no holder, no request
          MaxCalls,     \* bound on calls, each of which makes at most one key
          MaxEvents     \* bound on edits, port changes and shutdowns

ASSUME ConversionAssumption ==
  /\ DefaultPort \in Ports
  /\ None \notin Callers \cup Ports \cup Targets
  /\ MaxCalls \in Nat /\ MaxEvents \in Nat

VARIABLES
  saved,    \* conversion.json; the defaults stand for a missing file
  conv,     \* providers.json: key and address of each converter Provider
  profs,    \* the converter Profiles that have a record
  upKey,    \* providers.json: the key of each target's Provider, 0: none
  state,    \* each target Profile: Chat Completions, another protocol, deleted
  desktop,  \* key and address in Claude Desktop's configuration
  agent,    \* key and address of an Agent that follows the Responses converter
  cfg,      \* Server.cfg
  http,     \* the address of Server.http and Server.listener, or None
  bound,    \* addresses this process listens on
  busy,     \* addresses other programs listen on
  req,      \* the address at which a request being forwarded came in, or None
  calls,    \* the calls in progress
  mu,       \* the holder of conversionMu
  lapsed,   \* a crash, a failed rollback, a failed start or a shutdown that no
            \* later call has made good
  made,     \* adapter keys generated so far
  begun,    \* calls started
  events    \* edits, port changes and shutdowns so far

files == <<saved, conv, profs, upKey, state, desktop, agent>>
server == <<cfg, http, bound>>
world == <<busy, req, events>>
vars == <<files, server, world, calls, mu, lapsed, made, begun>>

Formats == <<"anthropic", "responses", "chat">>
FormatSet == {"anthropic", "responses", "chat"}
Entry == [key : Nat, listen : Ports]
NoEntry == [key |-> 0, listen |-> DefaultPort]
UpKeys == 0 .. MaxEvents + 1
Config == [enabled : BOOLEAN, listen : Ports, target : Targets \cup {None}]
Defaults == [enabled |-> FALSE, listen |-> DefaultPort, target |-> None]
Served == [enabled : BOOLEAN, listen : Ports, target : Targets \cup {None},
           key : Nat, up : UpKeys]
Off == [enabled |-> FALSE, listen |-> DefaultPort, target |-> None, key |-> 0, up |-> 0]
Snapshot == [saved : Config, conv : [FormatSet -> Entry], profs : SUBSET FormatSet,
             upKey : [Targets -> UpKeys], desktop : Entry]
Managed == [saved |-> saved, conv |-> conv, profs |-> profs, upKey |-> upKey,
            desktop |-> desktop]
NoSnapshot == [saved |-> Defaults, conv |-> [f \in FormatSet |-> NoEntry], profs |-> {},
               upKey |-> [t \in Targets |-> 0], desktop |-> NoEntry]
Kinds == {"save", "enabled", "target", "regenerate", "desktop"}
Steps == {"idle", "wait", "rotate", "check", "write", "settings", "detach", "listen",
          "configure", "commit", "restore", "stop", "start"}
Idle == [pc |-> "idle", kind |-> "save", want |-> Defaults, n |-> 0, key |-> 0,
         up |-> 0, snap |-> NoSnapshot, ok |-> TRUE]

Init ==
  /\ saved = Defaults
  /\ conv = [f \in FormatSet |-> NoEntry] /\ profs = {}
  /\ upKey = [t \in Targets |-> 1] /\ state = [t \in Targets |-> "chat"]
  /\ desktop = NoEntry /\ agent = NoEntry
  /\ cfg = Off /\ http = None /\ bound = {} /\ busy = {} /\ req = None
  /\ calls = [c \in Callers |-> Idle] /\ mu = None
  /\ lapsed = FALSE /\ made = 0 /\ begun = 0 /\ events = 0

At(c, pc) == calls[c].pc = pc
Goes(c, r) == calls' = [calls EXCEPT ![c] = r]
Goto(c, pc) == Goes(c, [calls[c] EXCEPT !.pc = pc, !.n = 0])
Advance(c) == Goes(c, [calls[c] EXCEPT !.n = @ + 1])
Fail(c) == Goto(c, "restore")
\* newConversionAPIKey.
FreshKey == made + 1

-----------------------------------------------------------------------------
\* SetConversionEnabled and SetConversionTargetProfile read the settings before
\* they take conversionMu; SaveConversion brings a whole configuration with it.
Wanted(kind) ==
  CASE kind = "enabled" -> {[saved EXCEPT !.enabled = b] : b \in BOOLEAN}
    [] kind = "target" -> {[saved EXCEPT !.target = t] : t \in Targets}
    [] kind = "save" -> {w \in Config : w.target # None}
    [] kind \in {"regenerate", "desktop"} -> {saved}

Call(c) ==
  /\ At(c, "idle") /\ begun < MaxCalls
  /\ \E kind \in Kinds : \E w \in Wanted(kind) :
       Goes(c, [Idle EXCEPT !.pc = "wait", !.kind = kind, !.want = w])
  /\ begun' = begun + 1
  /\ UNCHANGED <<files, server, world, mu, lapsed, made>>

\* The configurations with which a call goes on once it holds conversionMu: the
\* one it came with, the one it finds, or for a desktop call the adapter turned
\* on for a target whose upstream answered a probe.
Resumed(c) ==
  CASE calls[c].kind = "regenerate" -> {saved}
    [] calls[c].kind = "desktop" -> {[saved EXCEPT !.enabled = TRUE, !.target = t] :
                                      t \in {u \in Targets : state[u] = "chat" /\ upKey[u] # 0}}
    [] calls[c].kind \in {"save", "enabled", "target"} -> {calls[c].want}

\* conversionMu is taken, the previous configuration and the managed files are
\* read.  A desktop call whose target is not convertible ends here.
Acquire(c) ==
  /\ At(c, "wait") /\ mu = None
  /\ LET new == calls[c].kind = "regenerate" IN
     /\ \/ \E w \in Resumed(c) :
             /\ mu' = c /\ made' = IF new THEN FreshKey ELSE made
             /\ Goes(c, [calls[c] EXCEPT !.pc = IF new THEN "rotate" ELSE "check", !.want = w,
                                        !.key = IF new THEN FreshKey ELSE 0, !.snap = Managed])
        \/ calls[c].kind = "desktop" /\ Goes(c, Idle) /\ UNCHANGED <<mu, made>>
  /\ UNCHANGED <<files, server, world, lapsed, begun>>

\* SaveProvider writes the entry and, when it changed, rewrites the Agents that
\* follow the Provider.
SaveEntry(f, e) ==
  /\ conv' = [conv EXCEPT ![f] = e]
  /\ agent' = IF f = "responses" /\ agent # NoEntry /\ conv[f] # e THEN e ELSE agent

\* RegenerateConversionAPIKey gives the new key to one Provider after the other.
Rotate(c) ==
  /\ At(c, "rotate") /\ calls[c].n < 3
  /\ LET f == Formats[calls[c].n + 1] IN
       \/ /\ conv[f] # NoEntry /\ SaveEntry(f, [conv[f] EXCEPT !.key = calls[c].key])
          /\ Advance(c)
       \/ Fail(c) /\ UNCHANGED <<conv, agent>>
  /\ UNCHANGED <<saved, profs, upKey, state, desktop, server, world, mu, lapsed, made, begun>>

Rotated(c) ==
  /\ At(c, "rotate") /\ calls[c].n = 3 /\ Goto(c, "check")
  /\ UNCHANGED <<files, server, world, mu, lapsed, made, begun>>

\* The checks of saveConversion, and the key: the one in use, or a new one.
Check(c) ==
  LET w == calls[c].want
      valid == /\ w.target # None
               /\ state[w.target] = "chat" /\ upKey[w.target] # 0
      fresh == w.enabled /\ conv["anthropic"].key = 0
  IN /\ At(c, "check")
     /\ \/ ~valid /\ Fail(c) /\ UNCHANGED made
        \/ /\ valid
           /\ made' = IF fresh THEN FreshKey ELSE made
           /\ Goes(c, [calls[c] EXCEPT !.pc = IF w.enabled THEN "write" ELSE "settings", !.n = 0,
                                      !.key = IF fresh THEN FreshKey ELSE conv["anthropic"].key,
                                      !.up = upKey[w.target]])
     /\ UNCHANGED <<files, server, world, mu, lapsed, begun>>

\* The loop over the formats: the Provider, then the Profile of each.
Write(c) ==
  /\ At(c, "write") /\ calls[c].n < 6
  /\ LET f == Formats[calls[c].n \div 2 + 1]
         e == [key |-> calls[c].key, listen |-> calls[c].want.listen]
     IN \/ /\ IF calls[c].n % 2 = 0
              THEN SaveEntry(f, e) /\ UNCHANGED profs
              ELSE profs' = profs \cup {f} /\ UNCHANGED <<conv, agent>>
           /\ Advance(c)
        \/ Fail(c) /\ UNCHANGED <<conv, agent, profs>>
  /\ UNCHANGED <<saved, upKey, state, desktop, server, world, mu, lapsed, made, begun>>

\* conversion.json is written before the server is asked to follow it.
WriteSettings(c) ==
  /\ At(c, "settings") \/ (At(c, "write") /\ calls[c].n = 6)
  /\ \/ saved' = calls[c].want /\ Goto(c, "detach")
     \/ Fail(c) /\ UNCHANGED saved
  /\ UNCHANGED <<conv, profs, upKey, state, desktop, agent, server, world, mu, lapsed, made,
                 begun>>

-----------------------------------------------------------------------------
\* Server.SetConfig: the fields are cleared and the old server is shut down,
\* which closes its listener first and then waits five seconds for requests.
\* Refuted variant of Detached: the listener stays open.
DetachedKeepsListener == http' = None /\ UNCHANGED bound
Detached == http' = None /\ bound' = bound \ {http}
TimesOut == http # None /\ req = http

\* What the running call asks the server for.
Asked(c) ==
  [enabled |-> calls[c].want.enabled, listen |-> calls[c].want.listen,
   target |-> calls[c].want.target, key |-> calls[c].key, up |-> calls[c].up]

AfterServer(c) == IF calls[c].kind = "desktop" THEN "configure" ELSE "commit"

Detach(c) ==
  /\ At(c, "detach") /\ Detached
  /\ \/ TimesOut /\ Fail(c) /\ UNCHANGED cfg
     \/ /\ ~TimesOut /\ ~Asked(c).enabled
        /\ cfg' = Asked(c) /\ Goto(c, AfterServer(c))
     \/ ~TimesOut /\ Asked(c).enabled /\ Goto(c, "listen") /\ UNCHANGED cfg
  /\ UNCHANGED <<files, world, mu, lapsed, made, begun>>

\* net.Listen, then configuration, server and listener under Server.mu.
Opens(conf) == /\ conf.listen \notin busy \cup bound
               /\ cfg' = conf /\ http' = conf.listen /\ bound' = bound \cup {conf.listen}
Refused(conf) == /\ conf.listen \in busy \cup bound
                 /\ cfg' = [conf EXCEPT !.enabled = FALSE] /\ UNCHANGED <<http, bound>>

Listen(c) ==
  /\ At(c, "listen")
  /\ \/ Opens(Asked(c)) /\ Goto(c, AfterServer(c))
     \/ Refused(Asked(c)) /\ Fail(c)
  /\ UNCHANGED <<files, world, mu, lapsed, made, begun>>

\* A desktop call verifies the adapter through its own listener and then writes
\* Claude Desktop's configuration with the entry of the converter Provider.
Configure(c) ==
  /\ At(c, "configure")
  /\ \/ /\ http = calls[c].want.listen /\ cfg.key = conv["anthropic"].key
        /\ desktop' = conv["anthropic"] /\ Goto(c, "commit")
     \/ Fail(c) /\ UNCHANGED desktop
  /\ UNCHANGED <<saved, conv, profs, upKey, state, agent, server, world, mu, lapsed, made, begun>>

\* The call returns its result and releases conversionMu.
Commit(c) ==
  /\ At(c, "commit") /\ Goes(c, Idle) /\ mu' = None
  /\ lapsed' = (lapsed /\ ~(calls[c].want.enabled /\ http # None))
  /\ UNCHANGED <<files, server, world, made, begun>>

-----------------------------------------------------------------------------
\* Refuted variants of Restored: a file that no snapshot covers.
RestoredButSettings(c, n) ==
  LET old == calls[c].snap IN
  /\ UNCHANGED saved
  /\ desktop' = IF n = 0 THEN old.desktop ELSE desktop
  /\ profs' = IF n = 1 THEN old.profs ELSE profs
  /\ conv' = IF n = 2 THEN old.conv ELSE conv
  /\ upKey' = IF n = 2 THEN old.upKey ELSE upKey

RestoredButProfiles(c, n) ==
  LET old == calls[c].snap IN
  /\ UNCHANGED profs
  /\ desktop' = IF n = 0 THEN old.desktop ELSE desktop
  /\ conv' = IF n = 2 THEN old.conv ELSE conv
  /\ upKey' = IF n = 2 THEN old.upKey ELSE upKey
  /\ saved' = IF n = 3 THEN old.saved ELSE saved

\* rollbackConversionFailure: the files in reverse order, each of which may
\* refuse to be written, then the server.
Restored(c, n) ==
  LET old == calls[c].snap IN
  /\ desktop' = IF n = 0 THEN old.desktop ELSE desktop
  /\ profs' = IF n = 1 THEN old.profs ELSE profs
  /\ conv' = IF n = 2 THEN old.conv ELSE conv
  /\ upKey' = IF n = 2 THEN old.upKey ELSE upKey
  /\ saved' = IF n = 3 THEN old.saved ELSE saved

Restore(c) ==
  /\ At(c, "restore")
  /\ LET n == calls[c].n
         next(ok) == Goes(c, [calls[c] EXCEPT !.pc = IF n = 3 THEN "stop" ELSE @, !.n = n + 1,
                                              !.ok = @ /\ ok])
     IN \/ Restored(c, n) /\ next(TRUE)
        \/ next(FALSE) /\ UNCHANGED <<desktop, profs, conv, upKey, saved>>
  /\ UNCHANGED <<state, agent, server, world, mu, lapsed, made, begun>>

\* A failed call ends; a rollback that did not restore everything is reported.
Return(c, ok) ==
  /\ Goes(c, Idle) /\ mu' = None
  /\ lapsed' = (lapsed \/ ~(calls[c].ok /\ ok))

Stop(c) ==
  /\ At(c, "stop") /\ Detached
  /\ \/ TimesOut /\ Return(c, FALSE) /\ UNCHANGED cfg
     \/ ~TimesOut /\ ~calls[c].snap.saved.enabled /\ cfg' = Off /\ Return(c, TRUE)
     \/ /\ ~TimesOut /\ calls[c].snap.saved.enabled /\ cfg' = Off
        /\ Goto(c, "start") /\ UNCHANGED <<mu, lapsed>>
  /\ UNCHANGED <<files, world, made, begun>>

\* startSavedConversion: a target that is gone is no error, the adapter stays off.
Present == saved.target # None /\ state[saved.target] # "gone"
Startable == Present /\ state[saved.target] = "chat" /\ conv["anthropic"].key # 0
SavedConfig ==
  [enabled |-> TRUE, listen |-> saved.listen, target |-> saved.target,
   key |-> conv["anthropic"].key, up |-> upKey[saved.target]]

Start(c) ==
  /\ At(c, "start")
  /\ \/ ~(saved.enabled /\ Present) /\ Return(c, TRUE) /\ UNCHANGED server
     \/ saved.enabled /\ Present /\ ~Startable /\ Return(c, FALSE) /\ UNCHANGED server
     \/ saved.enabled /\ Startable /\ Opens(SavedConfig) /\ Return(c, TRUE)
     \/ saved.enabled /\ Startable /\ Refused(SavedConfig) /\ Return(c, FALSE)
  /\ UNCHANGED <<files, world, made, begun>>

-----------------------------------------------------------------------------
\* Edits of the user take writeMu, which saveConversion holds from the write of
\* conversion.json until the server has followed it.
Event == events < MaxEvents /\ events' = events + 1
Unlocked == \A c \in Callers : ~(At(c, "detach") \/ At(c, "listen"))

\* SaveProvider on the Provider of a target: another key, or none.
EditKey(t) ==
  /\ Event /\ Unlocked
  /\ \E k \in {0, events + 2} : upKey' = [upKey EXCEPT ![t] = k]
  /\ UNCHANGED <<saved, conv, profs, state, desktop, agent, server, busy, req, calls, mu, lapsed,
                 made, begun>>

\* SaveProfile and DeleteProfile on a target.
EditProfile(t) ==
  /\ Event /\ Unlocked
  /\ \E s \in {"chat", "other", "gone"} : state' = [state EXCEPT ![t] = s]
  /\ UNCHANGED <<saved, conv, profs, upKey, desktop, agent, server, busy, req, calls, mu, lapsed,
                 made, begun>>

\* ActivateAgent with the Responses converter Profile.
Follow ==
  /\ Event /\ Unlocked /\ "responses" \in profs /\ conv["responses"] # NoEntry
  /\ agent' = conv["responses"]
  /\ UNCHANGED <<saved, conv, profs, upKey, state, desktop, server, busy, req, calls, mu, lapsed,
                 made, begun>>

\* Another program takes or frees an address.
OtherProgram(p) ==
  /\ Event /\ p \notin bound
  /\ busy' = IF p \in busy THEN busy \ {p} ELSE busy \cup {p}
  /\ UNCHANGED <<files, server, req, calls, mu, lapsed, made, begun>>

\* Server.handle: a request reads the configuration and is forwarded with it.
Request(p) ==
  /\ req = None /\ p \in bound /\ req' = p
  /\ UNCHANGED <<files, server, busy, events, calls, mu, lapsed, made, begun>>

Answer ==
  /\ req # None /\ req' = None
  /\ UNCHANGED <<files, server, busy, events, calls, mu, lapsed, made, begun>>

\* CloseConversion when the application shuts down; lifecycleMu keeps it out of
\* the middle of SetConfig.
Close ==
  /\ Event /\ \A c \in Callers : ~At(c, "listen")
  /\ Detached /\ cfg' = [cfg EXCEPT !.enabled = FALSE] /\ lapsed' = TRUE
  /\ UNCHANGED <<files, busy, req, calls, mu, made, begun>>

\* The process dies and is started again: NewUseCases starts what was saved and
\* ignores a failure.
Restart ==
  LET starts == saved.enabled /\ Startable IN
  /\ calls' = [c \in Callers |-> Idle] /\ mu' = None /\ req' = None
  /\ IF starts /\ saved.listen \notin busy
     THEN cfg' = SavedConfig /\ http' = saved.listen /\ bound' = {saved.listen}
     ELSE /\ cfg' = IF starts THEN [SavedConfig EXCEPT !.enabled = FALSE] ELSE Off
          /\ http' = None /\ bound' = {}
  /\ lapsed' = (lapsed \/ mu # None \/ (saved.enabled /\ http' = None))
  /\ UNCHANGED <<files, busy, events, made, begun>>

Step(c) == \/ Acquire(c) \/ Rotate(c) \/ Rotated(c) \/ Check(c) \/ Write(c)
           \/ WriteSettings(c) \/ Detach(c) \/ Listen(c) \/ Configure(c) \/ Commit(c)
           \/ Restore(c) \/ Stop(c) \/ Start(c)
Environment == \/ \E t \in Targets : EditKey(t) \/ EditProfile(t)
               \/ \E p \in Ports : OtherProgram(p) \/ Request(p)
               \/ Follow \/ Answer \/ Close \/ Restart
Next == (\E c \in Callers : Call(c) \/ Step(c)) \/ Environment
Spec == Init /\ [][Next]_vars

-----------------------------------------------------------------------------
\* Types of all variables.
CallRecord == [pc : Steps, kind : Kinds, want : Config, n : 0 .. 6, key : Nat,
               up : UpKeys, snap : Snapshot, ok : BOOLEAN]
TypeOK ==
  /\ saved \in Config /\ conv \in [FormatSet -> Entry] /\ profs \subseteq FormatSet
  /\ upKey \in [Targets -> UpKeys] /\ state \in [Targets -> {"chat", "other", "gone"}]
  /\ desktop \in Entry /\ agent \in Entry
  /\ cfg \in Served /\ http \in Ports \cup {None} /\ bound \subseteq Ports
  /\ busy \subseteq Ports /\ req \in Ports \cup {None}
  /\ calls \in [Callers -> CallRecord] /\ mu \in Callers \cup {None}
  /\ lapsed \in BOOLEAN /\ made \in Nat /\ begun \in 0 .. MaxCalls
  /\ events \in 0 .. MaxEvents

\* No listener is leaked: the process listens exactly where Server.http says, and
\* a request that comes in there reads the configuration of that listener
\* (convert_test.go, TestConcurrentSetConfigDoesNotLeakListeners).
ListenerOwnsConfig ==
  /\ bound = IF http = None THEN {} ELSE {http}
  /\ http # None => cfg.enabled /\ cfg.listen = http

\* What every reachable state keeps: types, and one listener with its configuration.
AdapterSafe == TypeOK /\ ListenerOwnsConfig

\* Between calls an adapter that runs is the one conversion.json describes, for
\* every mixture of commits, rollbacks and restarts, and the converter Providers
\* carry its address and the one key it accepts, so their Agents are let in.
ServesWhatIsSaved ==
  mu = None /\ ~lapsed /\ http # None =>
    /\ saved = [enabled |-> TRUE, listen |-> http, target |-> cfg.target]
    /\ \A f \in FormatSet : conv[f] = [key |-> cfg.key, listen |-> http]
    /\ profs = FormatSet

\* A call that fails, and whose rollback reports no failure, leaves the managed
\* files as it found them.
FailureUndone ==
  [][\A c \in Callers :
       /\ Stop(c) \/ Start(c)
       /\ mu' = None /\ lapsed' = lapsed /\ ~lapsed
       => LET old == calls[c].snap IN
          <<saved, conv, profs, desktop>>' = <<old.saved, old.conv, old.profs, old.desktop>>]_vars
=============================================================================
