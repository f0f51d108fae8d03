----------------------------- MODULE McpRegistry -----------------------------
(***************************************************************************)
(* The registry of MCP servers (src/internal/app/mcp.go, internal/mcp):    *)
(* mcp.json says which Agents run which server with which specification,   *)
(* the files of the Agents say what they really run.  Scan reads the files *)
(* into the registry, Apply writes changes to both, file by file and       *)
(* without a transaction, and an import puts servers into the registry     *)
(* alone.  Every call holds writeMu, so calls follow one another; the      *)
(* Agents and their users edit the same files at any moment.               *)
(***************************************************************************)
EXTENDS Naturals, Sequences, FiniteSets

CONSTANTS
  McpAgents,   \* Agents that have an MCP adapter
  Flattening,  \* those whose format has one kind of remote server (OpenCode, Kilo)
  Ids,         \* server identifiers
  Missing,     \* no server
  MaxCalls,    \* bound: calls and changes of a call
  MaxEvents    \* bound: edits of files, damages, Agents that come and go, crashes

ASSUME McpAssumption == Flattening \subseteq McpAgents /\ MaxCalls \in Nat /\ MaxEvents \in Nat

\* A server: its transport, and whether its header still holds the user's
\* value or the placeholder an export without secrets leaves.
ServerSpec == [type: {"http", "sse"}, secret: {"own", "redacted"}]
ASSUME MissingAssumption == Missing \notin ServerSpec

\* RedactSpec.
Redacted(s) == [s EXCEPT !.secret = "redacted"]

\* What a file holds after the adapter encoded s, as a later Read decodes it:
\* a "remote" entry of OpenCode is read as http.
Native(a, s) == IF s # Missing /\ a \in Flattening THEN [s EXCEPT !.type = "http"] ELSE s

Variant == [spec: ServerSpec, agents: SUBSET McpAgents]

VARIABLES
  registry,  \* mcp.json: for each identifier its variants, <<>> when it has none
  section,   \* the MCP section of each Agent's file
  file,      \* "ok", or why the file fails: it does not parse, it cannot be opened
  eligible,  \* Agents that are installed
  package,   \* the last export
  call,      \* the call that holds writeMu, with its registry in memory
  fresh,     \* <<agent, id>> the call has brought in line, to be saved
  trusted,   \* <<agent, id>> brought in line by a saved call, not edited since
  calls, events

mcpVars == <<registry, section, file, eligible, package, call, fresh, trusted, calls, events>>
-----------------------------------------------------------------------------
(* Helpers on the variants of one server.                                  *)

Listed(fact, a) == {s \in ServerSpec : \E i \in DOMAIN fact : fact[i].spec = s /\ a \in fact[i].agents}

WithoutAgents(fact, leaving) == [i \in DOMAIN fact |-> [fact[i] EXCEPT !.agents = @ \ leaving]]

First(S) == CHOOSE i \in S : \A j \in S : i <= j

\* The first variant with the same specification takes the Agent, or a new one.
AddAgent(fact, a, s) ==
  LET same == {i \in DOMAIN fact : fact[i].spec = s}
  IN IF same = {} THEN Append(fact, [spec |-> s, agents |-> {a}])
     ELSE [fact EXCEPT ![First(same)].agents = @ \cup {a}]

\* The elements at the positions in keep, in their order.
Position(keep, k) == CHOOSE i \in keep : Cardinality({j \in keep : j < i}) = k - 1
Selected(fact, keep) == [k \in 1 .. Cardinality(keep) |-> fact[Position(keep, k)]]

Running(fact) == {i \in DOMAIN fact : fact[i].agents # {}}

\* Refuted variant of Collapse: a server no Agent runs is dropped.
CollapseDropsDrafts(fact) == Selected(fact, Running(fact))

\* Variants without Agents go, but a server without any Agent keeps one as a draft.
Collapse(fact) ==
  IF Running(fact) # {} THEN Selected(fact, Running(fact))
  ELSE IF fact = <<>> THEN <<>> ELSE <<fact[1]>>

\* mcpTargetAgents.
Targets(fact, chosen, elig) ==
  {a \in elig : a \in chosen \/ \E i \in DOMAIN fact : a \in fact[i].agents}
-----------------------------------------------------------------------------
Idle == [op |-> "idle"]
Nothing == [id \in Ids |-> Missing]

McpInit ==
  /\ registry = [id \in Ids |-> <<>>]
  /\ section = [a \in McpAgents |-> Nothing]
  /\ file = [a \in McpAgents |-> "ok"]
  /\ eligible = McpAgents
  /\ package = [id \in Ids |-> <<>>]
  /\ call = Idle
  /\ fresh = {}
  /\ trusted = McpAgents \X Ids
  /\ calls = 0 /\ events = 0

Free == call = Idle /\ calls < MaxCalls /\ calls' = calls + 1
-----------------------------------------------------------------------------
(* ScanMCP.                                                                *)

\* The registry without the Agents that will be read.
Scan ==
  /\ Free
  /\ call' = [op |-> "scan", old |-> registry, todo |-> eligible,
              mem |-> [id \in Ids |-> WithoutAgents(registry[id], eligible)]]
  /\ fresh' = {}
  /\ UNCHANGED <<registry, section, file, eligible, package, trusted, events>>

\* Refuted variant of Kept: a file that cannot be read is taken for an empty one.
KeptAsEmpty(a) == call.mem

\* restoreMCPAgentFacts: what the registry said of an Agent whose file fails.
Kept(a) ==
  [id \in Ids |-> IF Listed(call.old[id], a) = {} THEN call.mem[id]
                  ELSE AddAgent(call.mem[id], a, CHOOSE s \in Listed(call.old[id], a) : TRUE)]

Observed(a) ==
  [id \in Ids |-> IF section[a][id] = Missing THEN call.mem[id]
                  ELSE AddAgent(call.mem[id], a, section[a][id])]

\* The next Agent, in any order (a Go map).
ReadAgent(a) ==
  /\ call.op = "scan" /\ a \in call.todo
  /\ call' = [call EXCEPT !.todo = @ \ {a}, !.mem = IF file[a] = "ok" THEN Observed(a) ELSE Kept(a)]
  /\ fresh' = IF file[a] = "ok" THEN fresh \cup {<<a, id>> : id \in Ids} ELSE fresh
  /\ UNCHANGED <<registry, section, file, eligible, package, trusted, calls, events>>

EndScan ==
  /\ call.op = "scan" /\ call.todo = {}
  /\ \/ /\ registry' = [id \in Ids |-> Collapse(call.mem[id])]
        /\ trusted' = trusted \cup fresh
     \/ UNCHANGED <<registry, trusted>>          \* the save failed
  /\ call' = Idle /\ fresh' = {}
  /\ UNCHANGED <<section, file, eligible, package, calls, events>>
-----------------------------------------------------------------------------
(* ApplyMCP: a sequence of changes against one registry in memory.         *)

StartChange(mem, elig, dropped, id, spec, chosen, delete) ==
  [op |-> "change", mem |-> mem, elig |-> elig, dropped |-> dropped, id |-> id, spec |-> spec, chosen |-> chosen,
   delete |-> delete, todo |-> Targets(mem[id], chosen, elig), failed |-> FALSE, agent |-> Missing, data |-> Nothing, stage |-> "next"]

\* What an Agent of the change must run: nothing when it is deselected.
Wanted(a) == IF call.delete \/ a \notin call.chosen THEN Missing ELSE call.spec

\* A specification is typed in full or taken from the registry.
TypedSpecs == {s \in ServerSpec : s.secret = "own"}
StoredSpecs == {v.spec : v \in UNION {{registry[id][i] : i \in DOMAIN registry[id]} : id \in Ids}}

Change ==
  /\ calls < MaxCalls /\ calls' = calls + 1
  /\ \/ call = Idle
     \/ call.op = "change" /\ call.stage = "done"   \* the next change of the request
  /\ \E id \in Ids, spec \in TypedSpecs \cup StoredSpecs \cup {Missing}, chosen \in SUBSET McpAgents, delete \in BOOLEAN :
       /\ delete => spec = Missing /\ chosen = {}
       /\ call' = IF call = Idle THEN StartChange(registry, eligible, {}, id, spec, chosen, delete)
                  ELSE StartChange(call.mem, call.elig, call.dropped, id, spec, chosen, delete)
  /\ fresh' = {}
  /\ UNCHANGED <<registry, section, file, eligible, package, trusted, events>>

\* os.ReadFile.  A failure skips the Agent, and does not count as a failed
\* deletion.
ReadFile(a) ==
  /\ call.op = "change" /\ call.stage = "next" /\ a \in call.todo
  /\ IF file[a] = "closed"
     THEN /\ call' = [call EXCEPT !.todo = @ \ {a}]
          /\ trusted' = trusted \ {<<a, call.id>>}
     ELSE /\ call' = [call EXCEPT !.todo = @ \ {a}, !.agent = a, !.data = section[a], !.stage = "write"]
          /\ UNCHANGED trusted
  /\ UNCHANGED <<registry, section, file, eligible, package, fresh, calls, events>>

\* adapter.Apply: one server changes, the others stay as they were read.
Patched(a) == [call.data EXCEPT ![call.id] = Native(a, Wanted(a))]

WriteFails ==
  /\ call.op = "change" /\ call.stage = "write"
  /\ call' = [call EXCEPT !.stage = "next", !.failed = @ \/ call.delete]
  /\ UNCHANGED <<registry, section, file, eligible, package, fresh, trusted, calls, events>>

WriteFile ==
  /\ call.op = "change" /\ call.stage = "write" /\ file[call.agent] # "broken"
  /\ section' = [section EXCEPT ![call.agent] = Patched(call.agent)]
  /\ call' = [call EXCEPT !.stage = IF call.delete THEN "next" ELSE "record"]
  /\ fresh' = fresh \cup {<<call.agent, call.id>>}
  /\ trusted' = trusted \ {<<call.agent, call.id>>}
  /\ UNCHANGED <<registry, file, eligible, package, calls, events>>

\* Refuted variant of Recorded: the Agent stays in the variant it leaves.
RecordedTwice(fact, a, s) == IF s = Missing THEN WithoutAgents(fact, {a}) ELSE AddAgent(Collapse(fact), a, s)

\* The variants after one Agent was given s.
Recorded(fact, a, s) ==
  IF s = Missing THEN WithoutAgents(fact, {a})
  ELSE AddAgent(WithoutAgents(Collapse(fact), {a}), a, s)

\* Store.Save of the registry in memory, which may fail.  Deletions do not reach
\* the Agents that are not installed.
Saves(mem, dropped) ==
  \/ /\ registry' = mem
     /\ trusted' = (trusted \cup fresh) \ ((McpAgents \ call.elig) \X dropped)
  \/ UNCHANGED <<registry, trusted>>

\* The Agent's part of the registry.  A failed save keeps the change in memory.
Record ==
  /\ call.op = "change" /\ call.stage = "record"
  /\ LET mem == [call.mem EXCEPT ![call.id] = Recorded(@, call.agent, Wanted(call.agent))]
     IN /\ call' = [call EXCEPT !.mem = mem, !.stage = "next"]
        /\ Saves(mem, call.dropped)
  /\ fresh' = {}
  /\ UNCHANGED <<section, file, eligible, package, calls, events>>

Dropped == call.delete /\ ~call.failed

EndChange ==
  /\ call.op = "change" /\ call.stage = "next" /\ call.todo = {}
  /\ LET mem == IF Dropped THEN [call.mem EXCEPT ![call.id] = <<>>] ELSE call.mem
         dropped == call.dropped \cup (IF Dropped THEN {call.id} ELSE {})
     IN /\ call' = [call EXCEPT !.mem = mem, !.dropped = dropped, !.stage = "done"]
        /\ IF Dropped THEN Saves(mem, dropped) ELSE UNCHANGED <<registry, trusted>>
  /\ fresh' = {}
  /\ UNCHANGED <<section, file, eligible, package, calls, events>>

EndApply ==
  /\ call.op = "change" /\ call.stage = "done"
  /\ call' = Idle
  /\ UNCHANGED <<registry, section, file, eligible, package, fresh, trusted, calls, events>>
-----------------------------------------------------------------------------
(* ExportMCP, SaveImportedMCP and the MCP section of a transfer.           *)

\* An export lists no Agents; without secrets it holds placeholders.
Exported(redact) ==
  [id \in Ids |-> [i \in DOMAIN registry[id] |->
     [spec |-> IF redact THEN Redacted(registry[id][i].spec) ELSE registry[id][i].spec, agents |-> {}]]]

Export ==
  /\ call = Idle
  /\ \E redact \in BOOLEAN : package' = Exported(redact)
  /\ UNCHANGED <<registry, section, file, eligible, call, fresh, trusted, calls, events>>

\* Every server of the package replaces the one of the registry.
Import ==
  /\ Free
  /\ registry' = [id \in Ids |-> IF package[id] = <<>> THEN registry[id] ELSE package[id]]
  /\ trusted' = {p \in trusted : package[p[2]] = <<>> \/ section[p[1]][p[2]] = Missing}
  /\ UNCHANGED <<section, file, eligible, package, call, fresh, events>>
\* What the list shows as a conflict, and what an editor opens for one Agent.
Conflict(id) == Len(registry[id]) > 1
Detail(id, a) == {i \in DOMAIN registry[id] : a \in registry[id][i].agents}
-----------------------------------------------------------------------------
(* The rest of the world.                                                  *)

Event == events < MaxEvents /\ events' = events + 1

EditFile(a, id, s) ==
  /\ Event /\ file[a] = "ok"
  /\ section' = [section EXCEPT ![a][id] = Native(a, s)]
  /\ trusted' = trusted \ {<<a, id>>}
  /\ fresh' = fresh \ {<<a, id>>}
  /\ UNCHANGED <<registry, file, eligible, package, call, calls>>

Damage(a) ==
  /\ Event
  /\ \E f \in {"ok", "broken", "closed"} : file' = [file EXCEPT ![a] = f]
  /\ UNCHANGED <<registry, section, eligible, package, call, fresh, trusted, calls>>

ComeOrGo(a) ==
  /\ Event
  /\ eligible' = (eligible \ {a}) \cup ({a} \ eligible)
  /\ UNCHANGED <<registry, section, file, package, call, fresh, trusted, calls>>

Crash ==
  /\ Event /\ call # Idle
  /\ call' = Idle /\ fresh' = {}
  /\ UNCHANGED <<registry, section, file, eligible, package, trusted, calls>>
-----------------------------------------------------------------------------
McpNext ==
  \/ Scan \/ EndScan \/ Change \/ WriteFails \/ WriteFile \/ Record \/ EndChange \/ EndApply
  \/ Export \/ Import \/ Crash
  \/ \E a \in McpAgents : ReadAgent(a) \/ ReadFile(a) \/ Damage(a) \/ ComeOrGo(a)
  \/ \E a \in McpAgents, id \in Ids, s \in TypedSpecs \cup {Missing} : EditFile(a, id, s)

Sync == McpInit /\ [][McpNext]_mcpVars
-----------------------------------------------------------------------------
McpTypeOK ==
  /\ registry \in [Ids -> Seq(Variant)]
  /\ section \in [McpAgents -> [Ids -> ServerSpec \cup {Missing}]]
  /\ file \in [McpAgents -> {"ok", "broken", "closed"}]
  /\ eligible \subseteq McpAgents
  /\ package \in [Ids -> Seq(Variant)]
  /\ fresh \subseteq McpAgents \X Ids /\ trusted \subseteq McpAgents \X Ids
  /\ calls \in 0..MaxCalls /\ events \in 0..MaxEvents

\* The registry lists an Agent for a server exactly when the Agent's file holds
\* it, with the specification the file would be written with: for every pair
\* that a scan or a change brought in line and nobody edited since, whatever
\* else failed, was damaged or crashed in between (mcp.go:261-493).
RegistryAgrees ==
  \A p \in trusted :
    {Native(p[1], s) : s \in Listed(registry[p[2]], p[1])} = {section[p[1]][p[2]]} \ {Missing}

\* An Agent runs at most one variant of a server, so an editor that asks for
\* the specification of one Agent gets one (mcp.go:328, GetMCP).
OneVariantPerAgent ==
  \A id \in Ids, a \in McpAgents : \A i, j \in Detail(id, a) : i = j

\* A server leaves the registry only by a deletion that no Agent refused, even
\* when its save failed and a later change of the request saves it: every other
\* call keeps the server at least as a draft (mcp.go:247, 442, 472).
DraftsKept ==
  [][\A id \in Ids : registry[id] # <<>> /\ registry'[id] = <<>> =>
       call'.op = "change" /\ id \in call'.dropped]_mcpVars

\* What every reachable state keeps: types, and one variant of a server per Agent.
RegistrySafe == McpTypeOK /\ OneVariantPerAgent
=============================================================================
