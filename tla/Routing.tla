------------------------------ MODULE Routing ------------------------------
(***************************************************************************)
(* Which Provider every Agent talks to.                                    *)
(*                                                                         *)
(* providers.json and the Profiles are the source of truth.  Each Agent    *)
(* has a copy of what it needs twice: in its own configuration file, and   *)
(* in a binding that records what was written there and on behalf of which *)
(* Profile.  An edit of a Provider or a Profile is carried to the copies.  *)
(*                                                                         *)
(* All these operations run under writeMu (TaskLocks shows that it admits  *)
(* one writer), so each is one action; only a desktop Agent's Profile and  *)
(* Provider are read before the lock.  Each configuration may be refused,  *)
(* or written without its binding.                                         *)
(***************************************************************************)
EXTENDS Integers

CONSTANTS Providers,  \* Provider IDs
          BuiltIn,    \* those that the catalog ships with an endpoint
          Profiles,   \* Profile IDs
          Cli,        \* catalog Agents, configured automatically
          Desktops,   \* desktop Agents with a configuration adapter of their own
          DepthAgents,\* catalog Agents whose adapter writes the thinking depth
          Names,      \* display names of Providers
          CatalogName,\* the name that the catalog gives a built-in Provider
          Models,     \* model names
          Depths,     \* thinking depths
          NoDepth,    \* no depth chosen
          Versions,   \* bound: endpoints and keys a user enters for one Provider
          Typed,      \* an endpoint given with a request, in place of the Provider's
          NoKey,      \* the empty credential
          None        \* nothing stored

ASSUME RoutingAssumption ==
  /\ BuiltIn \subseteq Providers /\ DepthAgents \subseteq Cli
  /\ Cli \cap Desktops = {}
  /\ Versions \subseteq Nat \ {0}
  /\ NoDepth \in Depths /\ CatalogName \in Names
  /\ None \notin Providers \cup Profiles \cup Models
  /\ Typed \notin Providers \X Nat /\ NoKey \notin Providers \X Nat

Agents    == Cli \cup Desktops
Endpoints == Providers \X Nat
Keys      == (Providers \X Nat) \cup {NoKey}

Entry   == [name: Names, base: Endpoints \cup {Typed}, key: Keys]
Profile == [provider: Providers \cup {None}, model: Models \cup {None}, depth: Depths]
Config  == [name: Names, base: Endpoints \cup {Typed}, key: Keys, model: Models,
            depth: Depths]
Binding == [provider: Providers, base: Endpoints \cup {Typed}, model: Models,
            depth: Depths, ref: Profiles \cup {None}]

Pending == [profile: Profiles, provider: Providers, model: Models,
            entry: Entry \cup {None}]

ASSUME NoneAssumption == None \notin Entry \cup Profile \cup Config \cup Binding \cup Pending

VARIABLES stored,   \* stored[p]: the entry of providers.json, or None
          profile,  \* profile[r]: the Profile record, or None
          config,   \* config[a]: what the Agent's configuration file says
          binding,  \* binding[a]: what BootAgent recorded about it
          pending,  \* pending[d]: what a call read for desktop Agent d before writeMu
          state     \* state[a]: how the last rewrite of a ended (see Rewrite)

vars == <<stored, profile, config, binding, pending, state>>

States  == {"settled", "stale", "torn"}

TypeOK == /\ stored \in [Providers -> Entry \cup {None}]
          /\ profile \in [Profiles -> Profile \cup {None}]
          /\ config \in [Agents -> Config \cup {None}]
          /\ binding \in [Agents -> Binding \cup {None}]
          /\ pending \in [Desktops -> Pending \cup {None}]
          /\ state \in [Agents -> States]

Init == /\ stored = [p \in Providers |-> None]
        /\ profile = [r \in Profiles |-> None]
        /\ config = [a \in Agents |-> None]
        /\ binding = [a \in Agents |-> None]
        /\ pending = [d \in Desktops |-> None]
        /\ state = [a \in Agents |-> "settled"]

-----------------------------------------------------------------------------
(* Providers. *)

\* A saved entry hides the catalog's; without one a built-in has no key.
Get(entries, p) == IF entries[p] # None THEN entries[p]
                   ELSE IF p \in BuiltIn
                   THEN [name |-> CatalogName, base |-> <<p, 0>>, key |-> NoKey]
                   ELSE None

Known(p)  == Get(stored, p) # None
Target(p) == Get(stored, p)
KnownProviders == {p \in Providers : Known(p)}

\* Resolve, with the endpoint a request may bring.
Resolve(p, typed) == IF typed THEN [Target(p) EXCEPT !.base = Typed] ELSE Target(p)

\* What a user can enter as the credential of p.
KeysFor(p) == {<<p, v>> : v \in Versions}

\* The credential of a request for p: the one it brings or the Provider's.
Credentials(p) == KeysFor(p) \cup {Target(p).key}

\* saveProviderKeyLocked: a key that comes with a request becomes the Provider's.
SaveKey(p, key) == IF Target(p).key = key THEN stored
                   ELSE [stored EXCEPT ![p] = [Target(p) EXCEPT !.key = key]]

-----------------------------------------------------------------------------
(* Writing configurations and bindings. *)

DepthOf(r) == IF r = None \/ profile[r] = None THEN NoDepth ELSE profile[r].depth

\* An activation without a depth takes the one of its Profile.
Fallback(depth, r) == IF depth = NoDepth THEN DepthOf(r) ELSE depth

NewConfig(a, entry, model, depth) ==
  [name |-> entry.name, base |-> entry.base, key |-> entry.key, model |-> model,
   depth |-> IF a \in DepthAgents THEN depth ELSE NoDepth]

\* Refuted variant of NewBinding: it records the endpoint of the Provider where the
\* request brought another.
BindingOfProvider(a, p, entry, model, depth, ref) ==
  [provider |-> p, base |-> Target(p).base, model |-> model, depth |-> depth,
   ref |-> IF ref = None /\ binding[a] # None THEN binding[a].ref ELSE ref]

\* A request that names no Profile keeps the one the binding had.
NewBinding(a, p, entry, model, depth, ref) ==
  [provider |-> p, base |-> entry.base, model |-> model, depth |-> depth,
   ref |-> IF ref = None /\ binding[a] # None THEN binding[a].ref ELSE ref]

\* Refused by a check or a failed write; the configuration written but not the
\* binding; both written.
Outcomes == {"refused", "half", "done"}

\* Refuted variant: an empty key is written like any other.
OutcomeAnyKey(S, entry) == [S -> Outcomes]

\* Without a key nothing is written.
Outcome(S, entry) == IF entry.key = NoKey THEN [S -> {"refused"}] ELSE [S -> Outcomes]

\* A rewrite that is refused leaves an Agent behind the edit it should follow:
\* stale.  So does a rewrite that is never reached, because the program ended or the
\* write of the record reported an error after publishing it: then every Agent of the
\* operation is refused.  A rewrite that is cut short leaves configuration and binding apart: torn.
\* The result of the call names both.
AfterRefusal(a, follows) == IF follows /\ state[a] # "torn" THEN "stale" ELSE state[a]

\* One attempt for each Agent of S: model, depth and ref are functions on S.
Rewrite(S, out, p, entry, model, depth, ref, follows) ==
  /\ config' = [a \in Agents |->
                  IF a \in S /\ out[a] # "refused"
                  THEN NewConfig(a, entry, model[a], depth[a]) ELSE config[a]]
  /\ binding' = [a \in Agents |->
                   IF a \in S /\ out[a] = "done"
                   THEN NewBinding(a, p, entry, model[a], depth[a], ref[a]) ELSE binding[a]]
  /\ state' = [a \in Agents |->
                 IF a \notin S THEN state[a]
                 ELSE IF out[a] = "done" THEN "settled"
                 ELSE IF out[a] = "half" THEN "torn" ELSE AfterRefusal(a, follows)]

\* The same value for every Agent of S.
All(S, value) == [a \in S |-> value]

\* reapplyBindingsLocked: managed Agents go through activation, which falls back
\* to the depth of the Profile; a desktop Agent's binding keeps the depth passed.
Reapply(S, p, entry, model, depth) ==
  LET deep == [a \in S |-> IF a \in Cli THEN Fallback(depth[a], binding[a].ref) ELSE depth[a]]
      ref  == [a \in S |-> binding[a].ref]
  IN \E out \in Outcome(S, entry) : Rewrite(S, out, p, entry, model, deep, ref, TRUE)

-----------------------------------------------------------------------------
(* Operations. *)

Bound(p)     == {a \in Agents : binding[a] # None /\ binding[a].provider = p}
Followers(r) == {a \in Agents : binding[a] # None /\ binding[a].ref = r}

\* Refuted variant: the comparison leaves the endpoint out.
SaveProviderKeyOnly(p) ==
  \E name \in Names, v \in Versions : \E key \in KeysFor(p) \cup {NoKey} :
    LET entry == [name |-> name, base |-> <<p, v>>, key |-> key]
    IN /\ stored' = [stored EXCEPT ![p] = entry]
       /\ IF Known(p) /\ key = Target(p).key
          THEN UNCHANGED <<config, binding, state>>
          ELSE Reapply(Bound(p), p, entry, [a \in Bound(p) |-> binding[a].model],
                                           [a \in Bound(p) |-> binding[a].depth])
       /\ UNCHANGED <<profile, pending>>

\* An empty key clears the stored one; an import without keys keeps it.
SaveProvider(p) ==
  \E name \in Names, v \in Versions :
  \E key \in KeysFor(p) \cup {NoKey} \cup (IF Known(p) THEN {Target(p).key} ELSE {}) :
    LET entry == [name |-> name, base |-> <<p, v>>, key |-> key]
    IN /\ stored' = [stored EXCEPT ![p] = entry]
       /\ IF Known(p) /\ entry.base = Target(p).base /\ entry.key = Target(p).key
          THEN UNCHANGED <<config, binding, state>>
          ELSE Reapply(Bound(p), p, entry, [a \in Bound(p) |-> binding[a].model],
                                           [a \in Bound(p) |-> binding[a].depth])
       /\ UNCHANGED <<profile, pending>>

\* Refuted variant: the users of the Provider are not looked up.
DeleteProviderUsed(p) ==
  /\ stored[p] # None
  /\ stored' = [stored EXCEPT ![p] = None]
  /\ UNCHANGED <<profile, config, binding, pending, state>>

DeleteProvider(p) ==
  /\ stored[p] # None
  /\ Bound(p) \cap Cli = {}
  /\ stored' = [stored EXCEPT ![p] = None]
  /\ UNCHANGED <<profile, config, binding, pending, state>>

SaveProfile(r) ==
  \E p \in KnownProviders, model \in Models, depth \in Depths : \E key \in Credentials(p) :
    LET new    == [provider |-> p, model |-> model, depth |-> depth]
        target == [Target(p) EXCEPT !.key = key]
    IN /\ stored' = SaveKey(p, key)
       /\ \/ UNCHANGED <<profile, config, binding, state>>  \* a Skill refresh failed
          \/ /\ profile' = [profile EXCEPT ![r] = new]
             /\ IF profile[r] = new
                THEN UNCHANGED <<config, binding, state>>
                ELSE Reapply(Followers(r), p, target, All(Followers(r), model),
                                                      All(Followers(r), depth))
       /\ UNCHANGED pending

DeleteProfile(r) ==
  /\ Followers(r) \cap Cli = {}
  /\ profile' = [profile EXCEPT ![r] = None]
  /\ UNCHANGED <<stored, config, binding, pending, state>>

\* ActivateAgent; also a desktop Agent that shares a catalog Agent's configuration.
ActivateAgent(a) ==
  \E p \in KnownProviders, typed \in BOOLEAN, model \in Models, depth \in Depths,
     ref \in Profiles \cup {None} : \E key \in Credentials(p) \ {NoKey} :
    LET entry == [Resolve(p, typed) EXCEPT !.key = key]
        deep  == Fallback(depth, ref)
    IN /\ stored' = SaveKey(p, key)
       /\ \E out \in Outcome({a}, entry) :
            Rewrite({a}, out, p, entry, All({a}, model), All({a}, deep), All({a}, ref), FALSE)
       /\ UNCHANGED <<profile, pending>>

\* The configuring part of InstallAgents, for the Profile ref.  When every Agent
\* was configured, the record of that Profile is replaced.
InstallAgents(S) ==
  \E p \in KnownProviders, typed \in BOOLEAN, model \in Models, ref \in Profiles :
  \E key \in Credentials(p) \ {NoKey} :
    LET entry == [Resolve(p, typed) EXCEPT !.key = key]
        deep  == DepthOf(ref)
    IN /\ stored' = SaveKey(p, key)
       /\ \E out \in Outcome(S, entry) :
            /\ Rewrite(S, out, p, entry, All(S, model), All(S, deep), All(S, ref), FALSE)
            /\ \/ UNCHANGED profile
               \/ /\ \A a \in S : out[a] = "done"
                  /\ profile' = [profile EXCEPT ![ref] =
                                   [provider |-> p, model |-> model, depth |-> NoDepth]]
       /\ UNCHANGED pending

\* An installation that configures nothing leaves an existing-account record, without
\* Provider and model, in place of the Profile it names or of the active one.
InstallOnly(r) ==
  /\ profile' = [profile EXCEPT ![r] =
                   [provider |-> None, model |-> None, depth |-> NoDepth]]
  /\ UNCHANGED <<stored, config, binding, pending, state>>

\* ConfigureDesktopAgent reads the Profile, then its Provider, then takes writeMu.
ReadProfile(d) == \E r \in Profiles :
  /\ pending[d] = None /\ profile[r] # None
  /\ profile[r].provider # None /\ profile[r].model # None
  /\ pending' = [pending EXCEPT ![d] =
       [profile |-> r, provider |-> profile[r].provider, model |-> profile[r].model,
        entry |-> None]]
  /\ UNCHANGED <<stored, profile, config, binding, state>>

ReadProvider(d) ==
  /\ pending[d] # None /\ pending[d].entry = None
  /\ pending' = [pending EXCEPT ![d] =
       IF Known(pending[d].provider)
       THEN [pending[d] EXCEPT !.entry = Target(pending[d].provider)] ELSE None]
  /\ UNCHANGED <<stored, profile, config, binding, state>>

ConfigureDesktop(d) ==
  /\ pending[d] # None /\ pending[d].entry # None
  /\ LET q == pending[d]
     IN \E out \in Outcome({d}, q.entry) :
          Rewrite({d}, out, q.provider, q.entry, All({d}, q.model), All({d}, NoDepth),
                  All({d}, q.profile), FALSE)
  /\ pending' = [pending EXCEPT ![d] = None]
  /\ UNCHANGED <<stored, profile>>

Next == \/ \E p \in Providers : SaveProvider(p) \/ DeleteProvider(p)
        \/ \E r \in Profiles : SaveProfile(r) \/ DeleteProfile(r) \/ InstallOnly(r)
        \/ \E a \in Cli : ActivateAgent(a)
        \/ \E S \in (SUBSET Cli) \ {{}} : InstallAgents(S)
        \/ \E d \in Desktops : ReadProfile(d) \/ ReadProvider(d) \/ ConfigureDesktop(d)

Spec == Init /\ [][Next]_vars

-----------------------------------------------------------------------------
(* Properties. *)

\* An Agent whose last rewrite was not cut short has a binding that says what its
\* configuration file says, whichever operation wrote it last.
BindingRecordsConfig ==
  \A a \in Agents : state[a] # "torn" =>
    /\ (binding[a] = None) = (config[a] = None)
    /\ binding[a] # None => /\ binding[a].base = config[a].base
                            /\ binding[a].model = config[a].model
                            /\ a \in DepthAgents => binding[a].depth = config[a].depth

\* A catalog Agent that no failure left behind, and whose endpoint nobody typed in,
\* uses the endpoint its Provider has now: edits reach it, and no Provider it uses
\* is deleted or falls back to the catalog entry underneath.
EndpointIsCurrent ==
  \A a \in Cli : /\ state[a] = "settled" /\ binding[a] # None
                 /\ config[a].base # Typed
                 => /\ Known(binding[a].provider)
                    /\ config[a].base = Target(binding[a].provider).base

\* No catalog Agent is left with a Provider that does not exist.
BoundProvidersExist == \A a \in Cli : binding[a] # None => Known(binding[a].provider)

\* A credential is only ever configured together with an endpoint of the Provider
\* it was entered for, and never replaced by an empty one: Profiles that change
\* Provider, edits that clear a key, desktop Agents configured from older reads.
CredentialsStayHome ==
  \A a \in Agents : config[a] # None =>
    /\ config[a].key # NoKey
    /\ config[a].base # Typed => config[a].base[1] = config[a].key[1]


\* What every reachable state keeps besides: the records have their types and no
\* catalog Agent points at a Provider that does not exist.
RoutesSafe == TypeOK /\ BoundProvidersExist
=============================================================================
