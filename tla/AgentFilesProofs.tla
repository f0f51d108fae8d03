-------------------------- MODULE AgentFilesProofs --------------------------
(***************************************************************************)
(* Proofs about what the configuration files of Agents say: for every set  *)
(* of Providers, Profiles and Agents about Routing, and for every set of   *)
(* Agents, formats and servers about McpRegistry.                          *)
(*                                                                         *)
(* Routing.  The four safety properties are proved together with two facts *)
(* about where an endpoint and a key came from: an entry of                *)
(* providers.json, and the one a desktop call has read, belong to the      *)
(* Provider they are stored under.                                         *)
(*                                                                         *)
(* McpRegistry.  The registry agrees with the files because the registry   *)
(* in memory does at every step of a call, but for the pairs the invariant *)
(* names: those still to be read, at hand, or deleted without their Agent. *)
(***************************************************************************)
EXTENDS Routing, McpRegistry, FiniteSetTheorems, WellFoundedInduction, TLAPS

\* An endpoint and a key entered for p.
Own(p, entry) == /\ entry \in Entry
                 /\ entry.base # Typed => entry.base[1] = p
                 /\ entry.key # NoKey => entry.key[1] = p

StoredSound == \A p \in Providers : stored[p] # None =>
                 Own(p, stored[p]) /\ stored[p].base # Typed

PendingSound == \A d \in Desktops : pending[d] # None /\ pending[d].entry # None =>
                  Own(pending[d].provider, pending[d].entry)

\* The inductive invariant.
IInv == /\ TypeOK
        /\ StoredSound
        /\ PendingSound
        /\ BindingRecordsConfig
        /\ EndpointIsCurrent
        /\ BoundProvidersExist
        /\ CredentialsStayHome

\* What an attempt to rewrite the configuration of some Agents may and must find.
Attempt(S, out, p, entry, model, depth, ref) ==
  /\ S \subseteq Agents
  /\ out \in Outcome(S, entry)
  /\ p \in Providers
  /\ Own(p, entry)
  /\ model \in [S -> Models] /\ depth \in [S -> Depths]
  /\ ref \in [S -> Profiles \cup {None}]

\* The properties of Agents, without those of the stores.
AgentsSound == /\ config \in [Agents -> Config \cup {None}]
               /\ binding \in [Agents -> Binding \cup {None}]
               /\ state \in [Agents -> States]
               /\ BindingRecordsConfig
               /\ EndpointIsCurrent
               /\ BoundProvidersExist
               /\ CredentialsStayHome

-----------------------------------------------------------------------------
(* Entries. *)

\* The catalog's entry belongs to its Provider.
LEMMA CatalogOwn ==
  ASSUME NEW p \in BuiltIn
  PROVE  LET e == [name |-> CatalogName, base |-> <<p, 0>>, key |-> NoKey]
         IN  Own(p, e) /\ e.base # Typed
  BY RoutingAssumption DEF Own, Entry, Endpoints, Keys

\* What Get returns belongs to the Provider it was asked for.
LEMMA TargetOwn ==
  ASSUME StoredSound, NEW p \in KnownProviders
  PROVE  p \in Providers /\ Own(p, Target(p)) /\ Target(p).base # Typed /\ Target(p) # None
  <1>1. p \in Providers /\ Known(p) BY DEF KnownProviders
  <1>2. CASE stored[p] # None
    BY <1>1, <1>2 DEF StoredSound, Target, Get, Known
  <1>3. CASE stored[p] = None
    <2>1. p \in BuiltIn BY <1>1, <1>3 DEF Known, Get
    <2>2. Target(p) = [name |-> CatalogName, base |-> <<p, 0>>, key |-> NoKey]
      BY <1>3, <2>1 DEF Target, Get
    <2>3. Own(p, Target(p)) /\ Target(p).base # Typed BY <2>1, <2>2, CatalogOwn
    <2>. QED BY <1>1, <2>3 DEF Known, Target
  <1>. QED BY <1>2, <1>3

\* Storing an entry for p makes it what Get finds for p, and for nobody else.
LEMMA StorePut ==
  ASSUME TypeOK, StoredSound, NEW p \in Providers, NEW e,
         Own(p, e), e.base # Typed, stored' = [stored EXCEPT ![p] = e]
  PROVE  /\ stored' \in [Providers -> Entry \cup {None}]
         /\ StoredSound'
         /\ Get(stored', p) = e /\ e # None
         /\ \A q \in Providers \ {p} : Get(stored', q) = Get(stored, q)
  <1>1. e \in Entry /\ e # None BY NoneAssumption DEF Own
  <1>2. stored \in [Providers -> Entry \cup {None}] BY DEF TypeOK
  <1>3. stored'[p] = e /\ \A q \in Providers \ {p} : stored'[q] = stored[q] BY <1>2
  <1>4. stored' \in [Providers -> Entry \cup {None}] BY <1>1, <1>2
  <1>5. StoredSound' BY <1>3 DEF StoredSound, Own
  <1>. QED BY <1>1, <1>3, <1>4, <1>5 DEF Get

\* SaveKey leaves the endpoint of every Provider as it was.
LEMMA KeySaved ==
  ASSUME TypeOK, StoredSound, NEW p \in KnownProviders, NEW key \in Credentials(p),
         stored' = SaveKey(p, key)
  PROVE  /\ stored' \in [Providers -> Entry \cup {None}]
         /\ StoredSound'
         /\ Own(p, [Target(p) EXCEPT !.key = key])
         /\ Own(p, [Resolve(p, TRUE) EXCEPT !.key = key])
         /\ Own(p, [Resolve(p, FALSE) EXCEPT !.key = key])
         /\ [Resolve(p, TRUE) EXCEPT !.key = key].base = Typed
         /\ [Target(p) EXCEPT !.key = key].base = Target(p).base
         /\ Get(stored', p) # None /\ Get(stored', p).base = Target(p).base
         /\ \A q \in Providers \ {p} : Get(stored', q) = Get(stored, q)
  <1>1. p \in Providers /\ Own(p, Target(p)) /\ Target(p).base # Typed /\ Target(p) # None
    BY TargetOwn
  <1>2. key \in Keys /\ (key # NoKey => key[1] = p)
    BY <1>1, RoutingAssumption DEF Credentials, KeysFor, Own, Entry, Keys
  <1>3. Target(p) \in Entry BY <1>1 DEF Own
  <1>4. /\ [Target(p) EXCEPT !.key = key] \in Entry
        /\ [Target(p) EXCEPT !.key = key].base = Target(p).base
        /\ [Target(p) EXCEPT !.key = key].key = key
    BY <1>2, <1>3 DEF Entry
  <1>5. Own(p, [Target(p) EXCEPT !.key = key]) BY <1>1, <1>2, <1>4 DEF Own
  <1>6. /\ Own(p, [Resolve(p, TRUE) EXCEPT !.key = key])
        /\ [Resolve(p, TRUE) EXCEPT !.key = key].base = Typed
    BY <1>1, <1>2, <1>3 DEF Own, Resolve, Entry
  <1>7. Own(p, [Resolve(p, FALSE) EXCEPT !.key = key]) BY <1>5 DEF Resolve
  <1>8. CASE Target(p).key = key
    <2>1. stored' = stored BY <1>8 DEF SaveKey
    <2>. QED BY <1>1, <1>4, <1>5, <1>6, <1>7, <2>1 DEF TypeOK, StoredSound, Target, Own
  <1>9. CASE Target(p).key # key
    <2>1. stored' = [stored EXCEPT ![p] = [Target(p) EXCEPT !.key = key]]
      BY <1>9 DEF SaveKey
    <2>. QED BY <1>1, <1>4, <1>5, <1>6, <1>7, <2>1, StorePut
  <1>. QED BY <1>8, <1>9

-----------------------------------------------------------------------------
(* Rewriting Agents. *)

\* How one Agent comes out of an attempt.
Untouched(a, S, follows) ==
  /\ config'[a] = config[a] /\ binding'[a] = binding[a]
  /\ \/ state'[a] = state[a] /\ (a \notin S \/ ~follows \/ state[a] # "settled")
     \/ state'[a] = "stale" /\ state[a] # "torn"

Half(a, S, entry, model, depth) ==
  /\ a \in S /\ entry.key # NoKey
  /\ config'[a] = NewConfig(a, entry, model[a], depth[a])
  /\ binding'[a] = binding[a]
  /\ state'[a] = "torn"

Done(a, S, p, entry, model, depth, ref) ==
  /\ a \in S /\ entry.key # NoKey
  /\ config'[a] = NewConfig(a, entry, model[a], depth[a])
  /\ binding'[a] = NewBinding(a, p, entry, model[a], depth[a], ref[a])
  /\ state'[a] = "settled"

\* An attempt leaves every Agent untouched, half written or done.
LEMMA ThreeWays ==
  ASSUME TypeOK,
         NEW S, NEW out, NEW p, NEW entry, NEW model, NEW depth, NEW ref,
         NEW follows \in BOOLEAN,
         Attempt(S, out, p, entry, model, depth, ref),
         Rewrite(S, out, p, entry, model, depth, ref, follows),
         NEW a \in Agents
  PROVE  \/ Untouched(a, S, follows)
         \/ Half(a, S, entry, model, depth)
         \/ Done(a, S, p, entry, model, depth, ref)
  <1>1. a \in S => /\ out[a] \in Outcomes
                   /\ out[a] # "refused" => entry.key # NoKey
    BY DEF Attempt, Outcome, Outcomes
  <1>2. /\ config'[a] = IF a \in S /\ out[a] # "refused"
                        THEN NewConfig(a, entry, model[a], depth[a]) ELSE config[a]
        /\ binding'[a] = IF a \in S /\ out[a] = "done"
                         THEN NewBinding(a, p, entry, model[a], depth[a], ref[a])
                         ELSE binding[a]
        /\ state'[a] = IF a \notin S THEN state[a]
                       ELSE IF out[a] = "done" THEN "settled"
                       ELSE IF out[a] = "half" THEN "torn" ELSE AfterRefusal(a, follows)
    BY DEF Rewrite
  <1>3. CASE a \notin S
    BY <1>2, <1>3 DEF Untouched
  <1>4. CASE a \in S /\ out[a] = "refused"
    <2>1. state'[a] = AfterRefusal(a, follows) BY <1>2, <1>4
    <2>2. state[a] \in States BY DEF TypeOK
    <2>. QED BY <1>2, <1>4, <2>1, <2>2 DEF Untouched, AfterRefusal, States
  <1>5. CASE a \in S /\ out[a] = "half"
    BY <1>1, <1>2, <1>5 DEF Half
  <1>6. CASE a \in S /\ out[a] = "done"
    BY <1>1, <1>2, <1>6 DEF Done
  <1>. QED BY <1>1, <1>3, <1>4, <1>5, <1>6 DEF Outcomes

\* What NewConfig and NewBinding write for the same Agent agrees.
LEMMA NewRecords ==
  ASSUME TypeOK, NEW S, NEW out, NEW p, NEW entry, NEW model, NEW depth, NEW ref,
         Attempt(S, out, p, entry, model, depth, ref),
         NEW a \in S
  PROVE  LET c == NewConfig(a, entry, model[a], depth[a])
             b == NewBinding(a, p, entry, model[a], depth[a], ref[a])
         IN /\ c \in Config /\ b \in Binding
            /\ c.base = entry.base /\ c.key = entry.key /\ c.model = model[a]
            /\ b.base = entry.base /\ b.provider = p /\ b.model = model[a]
            /\ a \in DepthAgents => b.depth = c.depth
  <1>1. /\ entry.name \in Names /\ entry.base \in Endpoints \cup {Typed}
        /\ entry.key \in Keys /\ model[a] \in Models /\ depth[a] \in Depths
        /\ ref[a] \in Profiles \cup {None} /\ p \in Providers /\ a \in Agents
    BY DEF Attempt, Own, Entry
  <1>2. NewConfig(a, entry, model[a], depth[a]) \in Config
    BY <1>1, RoutingAssumption DEF NewConfig, Config
  <1>3. binding[a] # None => binding[a].ref \in Profiles \cup {None}
    BY <1>1 DEF TypeOK, Binding
  <1>4. NewBinding(a, p, entry, model[a], depth[a], ref[a]) \in Binding
    BY <1>1, <1>3 DEF NewBinding, Binding
  <1>. QED BY <1>2, <1>4 DEF NewConfig, NewBinding

\* An attempt keeps the properties of Agents, when the stores keep every Provider in
\* use, keep the endpoints of the Agents that do not follow this edit, and hold the
\* endpoint that is being written.
LEMMA Configuring ==
  ASSUME IInv,
         NEW S, NEW out, NEW p, NEW entry, NEW model, NEW depth, NEW ref,
         NEW follows \in BOOLEAN,
         Attempt(S, out, p, entry, model, depth, ref),
         Rewrite(S, out, p, entry, model, depth, ref, follows),
         \A a \in Cli : binding[a] # None => Get(stored', binding[a].provider) # None,
         \A a \in Cli : binding[a] # None /\ (a \notin S \/ ~follows) =>
           Get(stored', binding[a].provider).base = Get(stored, binding[a].provider).base,
         \A a \in S \cap Cli : /\ Get(stored', p) # None
                               /\ entry.base # Typed => entry.base = Get(stored', p).base
  PROVE  AgentsSound'
  <1>. DEFINE New(a) == NewConfig(a, entry, model[a], depth[a])
              Rec(a) == NewBinding(a, p, entry, model[a], depth[a], ref[a])
  <1>1. \A a \in Agents : \/ Untouched(a, S, follows)
                          \/ Half(a, S, entry, model, depth)
                          \/ Done(a, S, p, entry, model, depth, ref)
    BY ThreeWays DEF IInv
  <1>2. \A a \in S :
          /\ New(a) \in Config /\ Rec(a) \in Binding
          /\ New(a).base = entry.base /\ New(a).key = entry.key /\ New(a).model = model[a]
          /\ Rec(a).base = entry.base /\ Rec(a).provider = p /\ Rec(a).model = model[a]
          /\ a \in DepthAgents => Rec(a).depth = New(a).depth
    BY NewRecords DEF IInv
  <1>3. \A a \in S : New(a) # None /\ Rec(a) # None BY <1>2, NoneAssumption
  <1>4. \A a \in Agents :
          \/ Untouched(a, S, follows)
          \/ a \in S /\ entry.key # NoKey /\ config'[a] = New(a)
             /\ binding'[a] = binding[a] /\ state'[a] = "torn"
          \/ a \in S /\ entry.key # NoKey /\ config'[a] = New(a)
             /\ binding'[a] = Rec(a) /\ state'[a] = "settled"
    BY <1>1 DEF Half, Done
  <1>. HIDE DEF New, Rec
  <1>5. /\ config' \in [Agents -> Config \cup {None}]
        /\ binding' \in [Agents -> Binding \cup {None}]
        /\ state' \in [Agents -> States]
    <2>1. \A a \in Agents : /\ config[a] \in Config \cup {None}
                            /\ binding[a] \in Binding \cup {None} /\ state[a] \in States
      BY DEF IInv, TypeOK
    <2>2. \A a \in Agents : /\ config'[a] \in Config \cup {None}
                            /\ binding'[a] \in Binding \cup {None} /\ state'[a] \in States
      BY <1>2, <1>4, <2>1 DEF Untouched, States
    <2>3. /\ config' = [a \in Agents |-> config'[a]]
          /\ binding' = [a \in Agents |-> binding'[a]]
          /\ state' = [a \in Agents |-> state'[a]]
      BY DEF Rewrite
    <2>. QED BY <2>2, <2>3
  <1>6. BindingRecordsConfig'
    <2>. SUFFICES ASSUME NEW a \in Agents, state'[a] # "torn"
                  PROVE  /\ (binding'[a] = None) = (config'[a] = None)
                         /\ binding'[a] # None =>
                              /\ binding'[a].base = config'[a].base
                              /\ binding'[a].model = config'[a].model
                              /\ a \in DepthAgents => binding'[a].depth = config'[a].depth
      BY DEF BindingRecordsConfig
    <2>1. CASE Untouched(a, S, follows)
      BY <2>1 DEF Untouched, IInv, BindingRecordsConfig
    <2>2. CASE a \in S /\ config'[a] = New(a) /\ binding'[a] = Rec(a)
      BY <2>2, <1>2, <1>3
    <2>. QED BY <1>4, <2>1, <2>2
  <1>7. EndpointIsCurrent' /\ BoundProvidersExist'
    <2>. SUFFICES ASSUME NEW a \in Cli, binding'[a] # None
                  PROVE  /\ Get(stored', binding'[a].provider) # None
                         /\ state'[a] = "settled" /\ config'[a].base # Typed =>
                              config'[a].base = Get(stored', binding'[a].provider).base
      BY DEF EndpointIsCurrent, BoundProvidersExist, Known, Target
    <2>. a \in Agents BY DEF Agents
    <2>1. CASE Untouched(a, S, follows)
      <3>1. binding[a] # None /\ Get(stored', binding'[a].provider) # None
        BY <2>1 DEF Untouched
      <3>2. CASE state'[a] = "settled"
        <4>1. state[a] = "settled" /\ (a \notin S \/ ~follows) BY <2>1, <3>2 DEF Untouched
        <4>2. config[a].base # Typed =>
                config[a].base = Get(stored, binding[a].provider).base
          BY <3>1, <4>1 DEF IInv, EndpointIsCurrent, Target
        <4>. QED BY <2>1, <3>1, <4>1, <4>2 DEF Untouched
      <3>. QED BY <3>1, <3>2
    <2>2. CASE binding'[a] = binding[a] /\ state'[a] = "torn"
      BY <2>2
    <2>3. CASE a \in S /\ config'[a] = New(a) /\ binding'[a] = Rec(a)
      BY <2>3, <1>2
    <2>. QED BY <1>4, <2>1, <2>2, <2>3
  <1>8. CredentialsStayHome'
    <2>. SUFFICES ASSUME NEW a \in Agents, config'[a] # None
                  PROVE  /\ config'[a].key # NoKey
                         /\ config'[a].base # Typed => config'[a].base[1] = config'[a].key[1]
      BY DEF CredentialsStayHome
    <2>1. CASE Untouched(a, S, follows)
      BY <2>1 DEF Untouched, IInv, CredentialsStayHome
    <2>2. CASE a \in S /\ entry.key # NoKey /\ config'[a] = New(a)
      BY <2>2, <1>2 DEF Attempt, Own
    <2>. QED BY <1>4, <2>1, <2>2
  <1>. QED BY <1>5, <1>6, <1>7, <1>8 DEF AgentsSound

-----------------------------------------------------------------------------
(* One lemma per operation. *)

\* The initial state.
LEMMA InitSound == Init => IInv
  <1>. SUFFICES ASSUME Init PROVE IInv
    OBVIOUS
  <1>1. TypeOK BY DEF Init, TypeOK, States
  <1>2. \A a \in Agents : config[a] = None /\ binding[a] = None
    BY DEF Init
  <1>3. BindingRecordsConfig /\ EndpointIsCurrent /\ BoundProvidersExist /\ CredentialsStayHome
    BY <1>2 DEF BindingRecordsConfig, EndpointIsCurrent, BoundProvidersExist,
                CredentialsStayHome, Agents
  <1>4. StoredSound /\ PendingSound BY DEF Init, StoredSound, PendingSound
  <1>. QED BY <1>1, <1>3, <1>4 DEF IInv

\* A step that leaves every Agent alone and every Provider in use as it is.
LEMMA AgentsKept ==
  ASSUME IInv, UNCHANGED <<config, binding, state>>,
         \A a \in Cli : binding[a] # None =>
           /\ Get(stored', binding[a].provider) # None
           /\ Get(stored', binding[a].provider).base = Get(stored, binding[a].provider).base
  PROVE  AgentsSound'
  <1>1. /\ config' \in [Agents -> Config \cup {None}]
        /\ binding' \in [Agents -> Binding \cup {None}]
        /\ state' \in [Agents -> States]
    BY DEF IInv, TypeOK
  <1>2. BindingRecordsConfig' BY DEF IInv, BindingRecordsConfig
  <1>3. EndpointIsCurrent' /\ BoundProvidersExist'
    BY DEF IInv, EndpointIsCurrent, BoundProvidersExist, Known, Target
  <1>4. CredentialsStayHome' BY DEF IInv, CredentialsStayHome
  <1>. QED BY <1>1, <1>2, <1>3, <1>4 DEF AgentsSound

\* The Providers in use are known, so that a saved key changes none of their endpoints.
LEMMA KeyKeepsEndpoints ==
  ASSUME IInv, NEW p \in KnownProviders, NEW key \in Credentials(p),
         stored' = SaveKey(p, key), NEW a \in Cli, binding[a] # None
  PROVE  /\ Get(stored', binding[a].provider) # None
         /\ Get(stored', binding[a].provider).base = Get(stored, binding[a].provider).base
  <1>1. binding[a].provider \in Providers /\ Get(stored, binding[a].provider) # None
    BY DEF IInv, TypeOK, Agents, Binding, BoundProvidersExist, Known
  <1>2. /\ Get(stored', p) # None /\ Get(stored', p).base = Get(stored, p).base
        /\ \A q \in Providers \ {p} : Get(stored', q) = Get(stored, q)
    BY KeySaved DEF IInv, Target
  <1>. QED BY <1>1, <1>2

\* The arguments of reapplyBindingsLocked are those of an attempt.
LEMMA Reapplied ==
  ASSUME IInv, NEW S \in SUBSET Agents, \A a \in S : binding[a] # None,
         NEW p \in Providers, NEW entry, Own(p, entry),
         NEW model \in [S -> Models], NEW depth \in [S -> Depths],
         Reapply(S, p, entry, model, depth),
         \A a \in Cli : binding[a] # None => Get(stored', binding[a].provider) # None,
         \A a \in Cli : binding[a] # None /\ a \notin S =>
           Get(stored', binding[a].provider).base = Get(stored, binding[a].provider).base,
         Get(stored', p) # None, entry.base = Get(stored', p).base
  PROVE  AgentsSound'
  <1>. DEFINE deep == [a \in S |-> IF a \in Cli THEN Fallback(depth[a], binding[a].ref)
                                   ELSE depth[a]]
              ref  == [a \in S |-> binding[a].ref]
  <1>1. PICK out \in Outcome(S, entry) : Rewrite(S, out, p, entry, model, deep, ref, TRUE)
    BY DEF Reapply
  <1>2. \A a \in S : binding[a].ref \in Profiles \cup {None}
    BY DEF IInv, TypeOK, Binding
  <1>3. \A r \in Profiles \cup {None} : DepthOf(r) \in Depths
    BY RoutingAssumption DEF IInv, TypeOK, DepthOf, Profile
  <1>4. deep \in [S -> Depths] BY <1>2, <1>3 DEF Fallback
  <1>5. ref \in [S -> Profiles \cup {None}] BY <1>2
  <1>. HIDE DEF deep, ref
  <1>6. Attempt(S, out, p, entry, model, deep, ref) BY <1>1, <1>4, <1>5 DEF Attempt
  <1>. QED BY <1>1, <1>6, Configuring

\* The parts of the invariant, put together.
LEMMA Together ==
  ASSUME stored' \in [Providers -> Entry \cup {None}], StoredSound',
         profile' \in [Profiles -> Profile \cup {None}],
         pending' \in [Desktops -> Pending \cup {None}], PendingSound',
         AgentsSound'
  PROVE  IInv'
  BY DEF IInv, TypeOK, AgentsSound

\* A step that leaves the reads of desktop calls alone.
LEMMA PendingKept ==
  ASSUME IInv, UNCHANGED pending
  PROVE  pending' \in [Desktops -> Pending \cup {None}] /\ PendingSound'
  BY DEF IInv, TypeOK, PendingSound

\* A step that leaves the stores alone.
LEMMA StoredKept ==
  ASSUME IInv, UNCHANGED stored
  PROVE  /\ stored' \in [Providers -> Entry \cup {None}] /\ StoredSound'
         /\ \A a \in Cli : binding[a] # None =>
              /\ Get(stored', binding[a].provider) # None
              /\ Get(stored', binding[a].provider).base = Get(stored, binding[a].provider).base
  BY DEF IInv, TypeOK, StoredSound, Own, BoundProvidersExist, Known

\* SaveProvider: an entry of its own for p, then a rewrite of the Agents bound to p.
LEMMA SaveProviderKeeps ==
  ASSUME IInv, NEW p \in Providers, SaveProvider(p)
  PROVE  IInv'
  <1>. DEFINE Entered(name, v, key) == [name |-> name, base |-> <<p, v>>, key |-> key]
  <1>1. PICK name \in Names, v \in Versions,
             key \in KeysFor(p) \cup {NoKey} \cup (IF Known(p) THEN {Target(p).key} ELSE {}) :
          /\ stored' = [stored EXCEPT ![p] = Entered(name, v, key)]
          /\ IF Known(p) /\ Entered(name, v, key).base = Target(p).base
                         /\ Entered(name, v, key).key = Target(p).key
             THEN UNCHANGED <<config, binding, state>>
             ELSE Reapply(Bound(p), p, Entered(name, v, key),
                          [a \in Bound(p) |-> binding[a].model],
                          [a \in Bound(p) |-> binding[a].depth])
          /\ UNCHANGED <<profile, pending>>
    BY DEF SaveProvider
  <1>. DEFINE entry == Entered(name, v, key)
  <1>2. key \in Keys /\ (key # NoKey => key[1] = p)
    <2>1. CASE key \in KeysFor(p) \cup {NoKey}
      BY <2>1, RoutingAssumption DEF KeysFor, Keys
    <2>2. CASE Known(p) /\ key = Target(p).key
      <3>1. Own(p, Target(p)) BY <2>2, TargetOwn DEF IInv, KnownProviders
      <3>. QED BY <2>2, <3>1 DEF Own, Entry
    <2>. QED BY <2>1, <2>2
  <1>3. Own(p, entry) /\ entry.base # Typed
    BY <1>2, RoutingAssumption DEF Own, Entry, Endpoints
  <1>4. entry.base = <<p, v>> OBVIOUS
  <1>. HIDE DEF Entered
  <1>5. /\ stored' \in [Providers -> Entry \cup {None}] /\ StoredSound'
        /\ Get(stored', p) = entry /\ entry # None
        /\ \A q \in Providers \ {p} : Get(stored', q) = Get(stored, q)
    BY <1>1, <1>3, StorePut DEF IInv
  <1>6. \A a \in Cli : binding[a] # None =>
          binding[a].provider \in Providers /\ Get(stored, binding[a].provider) # None
    BY DEF IInv, TypeOK, Agents, Binding, BoundProvidersExist, Known
  <1>7. \A a \in Cli : binding[a] # None => Get(stored', binding[a].provider) # None
    BY <1>5, <1>6
  <1>8. AgentsSound'
    <2>1. CASE Known(p) /\ entry.base = Target(p).base /\ entry.key = Target(p).key
      <3>1. UNCHANGED <<config, binding, state>> BY <1>1, <2>1
      <3>2. \A a \in Cli : binding[a] # None =>
              Get(stored', binding[a].provider).base = Get(stored, binding[a].provider).base
        BY <1>5, <1>6, <2>1 DEF Target
      <3>. QED BY <1>7, <3>1, <3>2, AgentsKept
    <2>2. CASE ~(Known(p) /\ entry.base = Target(p).base /\ entry.key = Target(p).key)
      <3>. DEFINE model == [a \in Bound(p) |-> binding[a].model]
                  depth == [a \in Bound(p) |-> binding[a].depth]
      <3>1. Reapply(Bound(p), p, entry, model, depth) BY <1>1, <2>2
      <3>2. Bound(p) \in SUBSET Agents /\ \A a \in Bound(p) : binding[a] # None
        BY DEF Bound
      <3>3. model \in [Bound(p) -> Models] /\ depth \in [Bound(p) -> Depths]
        BY <3>2 DEF IInv, TypeOK, Binding
      <3>4. \A a \in Cli : binding[a] # None /\ a \notin Bound(p) =>
              Get(stored', binding[a].provider).base = Get(stored, binding[a].provider).base
        BY <1>5, <1>6 DEF Bound, Agents
      <3>. HIDE DEF model, depth
      <3>. QED BY <1>3, <1>5, <1>7, <3>1, <3>2, <3>3, <3>4, Reapplied
    <2>. QED BY <2>1, <2>2
  <1>9. profile' \in [Profiles -> Profile \cup {None}] BY <1>1 DEF IInv, TypeOK
  <1>. QED BY <1>1, <1>5, <1>8, <1>9, PendingKept, Together

\* DeleteProvider: none of the catalog Agents uses p.
LEMMA DeleteProviderKeeps ==
  ASSUME IInv, NEW p \in Providers, DeleteProvider(p)
  PROVE  IInv'
  <1>1. /\ stored' = [stored EXCEPT ![p] = None]
        /\ UNCHANGED <<profile, config, binding, pending, state>>
    BY DEF DeleteProvider
  <1>2. stored \in [Providers -> Entry \cup {None}] BY DEF IInv, TypeOK
  <1>3. stored'[p] = None /\ \A q \in Providers \ {p} : stored'[q] = stored[q]
    BY <1>1, <1>2
  <1>4. stored' \in [Providers -> Entry \cup {None}] /\ StoredSound'
    BY <1>1, <1>2, <1>3 DEF IInv, StoredSound, Own
  <1>5. \A a \in Cli : binding[a] # None => binding[a].provider \in Providers \ {p}
    BY DEF DeleteProvider, Bound, Agents, IInv, TypeOK, Binding
  <1>6. \A a \in Cli : binding[a] # None =>
          Get(stored', binding[a].provider) = Get(stored, binding[a].provider)
    BY <1>3, <1>5 DEF Get
  <1>7. \A a \in Cli : binding[a] # None => Get(stored, binding[a].provider) # None
    BY DEF IInv, BoundProvidersExist, Known
  <1>8. AgentsSound' BY <1>1, <1>6, <1>7, AgentsKept
  <1>9. profile' \in [Profiles -> Profile \cup {None}] BY <1>1 DEF IInv, TypeOK
  <1>. QED BY <1>1, <1>4, <1>8, <1>9, PendingKept, Together

\* SaveProfile: the key goes to the Provider, the Profile to its followers.
LEMMA SaveProfileKeeps ==
  ASSUME IInv, NEW r \in Profiles, SaveProfile(r)
  PROVE  IInv'
  <1>0. PICK p \in KnownProviders, model \in Models, depth \in Depths : \E key \in Credentials(p) :
          /\ stored' = SaveKey(p, key)
          /\ \/ UNCHANGED <<profile, config, binding, state>>
             \/ /\ profile' = [profile EXCEPT ![r] =
                                 [provider |-> p, model |-> model, depth |-> depth]]
                /\ \/ UNCHANGED <<config, binding, state>>
                   \/ Reapply(Followers(r), p, [Target(p) EXCEPT !.key = key],
                              All(Followers(r), model), All(Followers(r), depth))
          /\ UNCHANGED pending
    BY DEF SaveProfile
  <1>1. PICK key \in Credentials(p) :
          /\ stored' = SaveKey(p, key)
          /\ \/ UNCHANGED <<profile, config, binding, state>>
             \/ /\ profile' = [profile EXCEPT ![r] =
                                 [provider |-> p, model |-> model, depth |-> depth]]
                /\ \/ UNCHANGED <<config, binding, state>>
                   \/ Reapply(Followers(r), p, [Target(p) EXCEPT !.key = key],
                              All(Followers(r), model), All(Followers(r), depth))
          /\ UNCHANGED pending
    BY <1>0
  <1>. DEFINE entry == [Target(p) EXCEPT !.key = key]
  <1>2. p \in Providers BY DEF KnownProviders
  <1>3. /\ stored' \in [Providers -> Entry \cup {None}] /\ StoredSound'
        /\ Own(p, entry) /\ entry.base = Target(p).base
        /\ Get(stored', p) # None /\ Get(stored', p).base = Target(p).base
    BY <1>1, KeySaved DEF IInv
  <1>. HIDE DEF entry
  <1>4. \A a \in Cli : binding[a] # None =>
          /\ Get(stored', binding[a].provider) # None
          /\ Get(stored', binding[a].provider).base = Get(stored, binding[a].provider).base
    BY <1>1, KeyKeepsEndpoints
  <1>5. profile' \in [Profiles -> Profile \cup {None}]
    <2>1. [provider |-> p, model |-> model, depth |-> depth] \in Profile
      BY <1>2 DEF Profile
    <2>. QED BY <1>1, <2>1 DEF IInv, TypeOK
  <1>6. AgentsSound'
    <2>1. CASE UNCHANGED <<config, binding, state>>
      BY <1>4, <2>1, AgentsKept
    <2>2. CASE Reapply(Followers(r), p, entry, All(Followers(r), model), All(Followers(r), depth))
      <3>1. Followers(r) \in SUBSET Agents /\ \A a \in Followers(r) : binding[a] # None
        BY DEF Followers
      <3>2. /\ All(Followers(r), model) \in [Followers(r) -> Models]
            /\ All(Followers(r), depth) \in [Followers(r) -> Depths]
        BY DEF All
      <3>. QED BY <1>2, <1>3, <1>4, <2>2, <3>1, <3>2, Reapplied
    <2>. QED BY <1>1, <2>1, <2>2 DEF entry
  <1>. QED BY <1>1, <1>3, <1>5, <1>6, PendingKept, Together

\* DeleteProfile and InstallOnly touch the Profiles alone.
LEMMA ProfilesOnly ==
  ASSUME IInv, NEW r \in Profiles, DeleteProfile(r) \/ InstallOnly(r)
  PROVE  IInv'
  <1>1. UNCHANGED <<stored, config, binding, pending, state>>
    BY DEF DeleteProfile, InstallOnly
  <1>2. profile' \in [Profiles -> Profile \cup {None}]
    BY RoutingAssumption DEF DeleteProfile, InstallOnly, IInv, TypeOK, Profile
  <1>. QED BY <1>1, <1>2, StoredKept, AgentsKept, PendingKept, Together

\* The depth of a Profile, or of none, is a depth.
LEMMA DepthTyped ==
  ASSUME TypeOK, NEW r \in Profiles \cup {None}
  PROVE  DepthOf(r) \in Depths
  BY RoutingAssumption DEF TypeOK, DepthOf, Profile

\* The entry that a request configures: the endpoint of p, or a typed one.
LEMMA Requested ==
  ASSUME IInv, NEW p \in KnownProviders, NEW typed \in BOOLEAN,
         NEW key \in Credentials(p), stored' = SaveKey(p, key)
  PROVE  LET entry == [Resolve(p, typed) EXCEPT !.key = key]
         IN Own(p, entry) /\ (entry.base # Typed => entry.base = Get(stored', p).base)
  <1>1. /\ Own(p, [Resolve(p, TRUE) EXCEPT !.key = key])
        /\ Own(p, [Resolve(p, FALSE) EXCEPT !.key = key])
        /\ [Resolve(p, TRUE) EXCEPT !.key = key].base = Typed
        /\ [Target(p) EXCEPT !.key = key].base = Target(p).base
        /\ Get(stored', p).base = Target(p).base
    BY KeySaved DEF IInv
  <1>2. CASE typed = TRUE BY <1>1, <1>2
  <1>3. CASE typed = FALSE BY <1>1, <1>3 DEF Resolve
  <1>. QED BY <1>2, <1>3

\* ActivateAgent and InstallAgents: a key for p, then one entry for all Agents of S,
\* whatever they used before.
LEMMA Activated ==
  ASSUME IInv, NEW S \in SUBSET Cli, NEW p \in KnownProviders,
         NEW key \in Credentials(p), stored' = SaveKey(p, key),
         NEW model \in Models, NEW depth \in Depths, NEW ref \in Profiles \cup {None},
         NEW entry, Own(p, entry), entry.base # Typed => entry.base = Get(stored', p).base,
         NEW out \in Outcome(S, entry),
         Rewrite(S, out, p, entry, All(S, model), All(S, depth), All(S, ref), FALSE)
  PROVE  /\ stored' \in [Providers -> Entry \cup {None}] /\ StoredSound'
         /\ AgentsSound'
  <1>1. /\ stored' \in [Providers -> Entry \cup {None}] /\ StoredSound'
        /\ Get(stored', p) # None
    BY KeySaved DEF IInv
  <1>2. Attempt(S, out, p, entry, All(S, model), All(S, depth), All(S, ref))
    BY DEF Attempt, All, Agents, KnownProviders
  <1>3. \A a \in Cli : binding[a] # None =>
          /\ Get(stored', binding[a].provider) # None
          /\ Get(stored', binding[a].provider).base = Get(stored, binding[a].provider).base
    BY KeyKeepsEndpoints
  <1>4. AgentsSound' BY <1>1, <1>2, <1>3, Configuring
  <1>. QED BY <1>1, <1>4

\* ActivateAgent keeps the invariant.
LEMMA ActivateAgentKeeps ==
  ASSUME IInv, NEW a \in Cli, ActivateAgent(a)
  PROVE  IInv'
  <1>1. PICK p \in KnownProviders, typed \in BOOLEAN, model \in Models, depth \in Depths,
             ref \in Profiles \cup {None} :
          \E key \in Credentials(p) \ {NoKey} :
            LET entry == [Resolve(p, typed) EXCEPT !.key = key]
                deep  == Fallback(depth, ref)
            IN /\ stored' = SaveKey(p, key)
               /\ \E out \in Outcome({a}, entry) :
                    Rewrite({a}, out, p, entry, All({a}, model), All({a}, deep),
                            All({a}, ref), FALSE)
               /\ UNCHANGED <<profile, pending>>
    BY DEF ActivateAgent
  <1>2. PICK key \in Credentials(p) :
          /\ stored' = SaveKey(p, key)
          /\ \E out \in Outcome({a}, [Resolve(p, typed) EXCEPT !.key = key]) :
               Rewrite({a}, out, p, [Resolve(p, typed) EXCEPT !.key = key],
                       All({a}, model), All({a}, Fallback(depth, ref)), All({a}, ref), FALSE)
          /\ UNCHANGED <<profile, pending>>
    BY <1>1
  <1>3. Fallback(depth, ref) \in Depths BY DepthTyped DEF Fallback, IInv
  <1>4. {a} \in SUBSET Cli OBVIOUS
  <1>5. stored' \in [Providers -> Entry \cup {None}] /\ StoredSound' /\ AgentsSound'
    BY <1>2, <1>3, <1>4, Requested, Activated
  <1>6. profile' \in [Profiles -> Profile \cup {None}] BY <1>2 DEF IInv, TypeOK
  <1>. QED BY <1>2, <1>5, <1>6, PendingKept, Together

\* InstallAgents keeps it, for any set of Agents.
LEMMA InstallAgentsKeeps ==
  ASSUME IInv, NEW S \in SUBSET Cli, InstallAgents(S)
  PROVE  IInv'
  <1>1. PICK p \in KnownProviders, typed \in BOOLEAN, model \in Models, ref \in Profiles :
          \E key \in Credentials(p) \ {NoKey} :
            LET entry == [Resolve(p, typed) EXCEPT !.key = key]
                deep  == DepthOf(ref)
            IN /\ stored' = SaveKey(p, key)
               /\ \E out \in Outcome(S, entry) :
                    /\ Rewrite(S, out, p, entry, All(S, model), All(S, deep), All(S, ref), FALSE)
                    /\ \/ UNCHANGED profile
                       \/ /\ \A a \in S : out[a] = "done"
                          /\ profile' = [profile EXCEPT ![ref] =
                               [provider |-> p, model |-> model, depth |-> NoDepth]]
               /\ UNCHANGED pending
    BY DEF InstallAgents
  <1>2. PICK key \in Credentials(p) :
          /\ stored' = SaveKey(p, key)
          /\ \E out \in Outcome(S, [Resolve(p, typed) EXCEPT !.key = key]) :
               /\ Rewrite(S, out, p, [Resolve(p, typed) EXCEPT !.key = key],
                          All(S, model), All(S, DepthOf(ref)), All(S, ref), FALSE)
               /\ \/ UNCHANGED profile
                  \/ profile' = [profile EXCEPT ![ref] =
                       [provider |-> p, model |-> model, depth |-> NoDepth]]
          /\ UNCHANGED pending
    BY <1>1
  <1>3. DepthOf(ref) \in Depths BY DepthTyped DEF IInv
  <1>4. stored' \in [Providers -> Entry \cup {None}] /\ StoredSound' /\ AgentsSound'
    BY <1>2, <1>3, Requested, Activated
  <1>5. [provider |-> p, model |-> model, depth |-> NoDepth] \in Profile
    BY RoutingAssumption DEF Profile, KnownProviders
  <1>6. profile' \in [Profiles -> Profile \cup {None}]
    BY <1>2, <1>5 DEF IInv, TypeOK
  <1>. QED BY <1>2, <1>4, <1>6, PendingKept, Together

\* ReadProfile and ReadProvider: what is read for a desktop Agent is sound.
LEMMA ReadsKeep ==
  ASSUME IInv, NEW d \in Desktops, ReadProfile(d) \/ ReadProvider(d)
  PROVE  IInv'
  <1>1. UNCHANGED <<stored, profile, config, binding, state>>
    BY DEF ReadProfile, ReadProvider
  <1>2. pending \in [Desktops -> Pending \cup {None}] BY DEF IInv, TypeOK
  <1>3. pending' \in [Desktops -> Pending \cup {None}] /\ PendingSound'
    <2>1. CASE ReadProfile(d)
      <3>1. PICK r \in Profiles :
              /\ profile[r] # None /\ profile[r].provider # None /\ profile[r].model # None
              /\ pending' = [pending EXCEPT ![d] =
                   [profile |-> r, provider |-> profile[r].provider,
                    model |-> profile[r].model, entry |-> None]]
        BY <2>1 DEF ReadProfile
      <3>2. profile[r].provider \in Providers /\ profile[r].model \in Models
        BY <3>1 DEF IInv, TypeOK, Profile
      <3>3. [profile |-> r, provider |-> profile[r].provider,
             model |-> profile[r].model, entry |-> None] \in Pending
        BY <3>2 DEF Pending
      <3>. QED BY <1>2, <3>1, <3>3 DEF IInv, PendingSound
    <2>2. CASE ReadProvider(d)
      <3>. DEFINE q == pending[d]
                  found == [q EXCEPT !.entry = Target(q.provider)]
      <3>1. q # None /\ q \in Pending BY <1>2, <2>2 DEF ReadProvider
      <3>2. q.provider \in Providers BY <3>1 DEF Pending
      <3>3. pending' = [pending EXCEPT ![d] = IF Known(q.provider) THEN found ELSE None]
        BY <2>2 DEF ReadProvider
      <3>4. CASE Known(q.provider)
        <4>1. Own(q.provider, Target(q.provider))
          BY <3>2, <3>4, TargetOwn DEF IInv, KnownProviders
        <4>2. Target(q.provider) \in Entry BY <4>1 DEF Own
        <4>3. /\ found \in Pending /\ found.provider = q.provider
              /\ found.entry = Target(q.provider)
          BY <3>1, <4>2 DEF Pending
        <4>4. pending' = [pending EXCEPT ![d] = found] BY <3>3, <3>4
        <4>. HIDE DEF found, q
        <4>5. pending' \in [Desktops -> Pending \cup {None}] BY <1>2, <4>3, <4>4
        <4>6. PendingSound'
          <5>1. pending'[d] = found /\ \A e \in Desktops \ {d} : pending'[e] = pending[e]
            BY <1>2, <4>4
          <5>. QED BY <4>1, <4>3, <5>1 DEF IInv, PendingSound, Own
        <4>. QED BY <4>5, <4>6
      <3>5. CASE ~Known(q.provider)
        <4>1. pending' = [pending EXCEPT ![d] = None] BY <3>3, <3>5
        <4>. QED BY <1>2, <4>1 DEF IInv, PendingSound, Own
      <3>. QED BY <3>4, <3>5
    <2>. QED BY <2>1, <2>2
  <1>4. profile' \in [Profiles -> Profile \cup {None}] BY <1>1 DEF IInv, TypeOK
  <1>. QED BY <1>1, <1>3, <1>4, StoredKept, AgentsKept, Together

\* ConfigureDesktop writes what was read, which may be older than the stores.
LEMMA ConfigureDesktopKeeps ==
  ASSUME IInv, NEW d \in Desktops, ConfigureDesktop(d)
  PROVE  IInv'
  <1>. DEFINE q == pending[d]
  <1>1. /\ q # None /\ q.entry # None
        /\ \E out \in Outcome({d}, q.entry) :
             Rewrite({d}, out, q.provider, q.entry, All({d}, q.model), All({d}, NoDepth),
                     All({d}, q.profile), FALSE)
        /\ pending' = [pending EXCEPT ![d] = None]
        /\ UNCHANGED <<stored, profile>>
    BY DEF ConfigureDesktop
  <1>2. PICK out \in Outcome({d}, q.entry) :
          Rewrite({d}, out, q.provider, q.entry, All({d}, q.model), All({d}, NoDepth),
                  All({d}, q.profile), FALSE)
    BY <1>1
  <1>3. /\ q.profile \in Profiles /\ q.provider \in Providers /\ q.model \in Models
        /\ Own(q.provider, q.entry)
    BY <1>1 DEF IInv, TypeOK, Pending, PendingSound
  <1>. HIDE DEF q
  <1>4. Attempt({d}, out, q.provider, q.entry, All({d}, q.model), All({d}, NoDepth),
                All({d}, q.profile))
    BY <1>2, <1>3, RoutingAssumption DEF Attempt, All, Agents
  <1>5. {d} \cap Cli = {} BY RoutingAssumption
  <1>6. /\ stored' \in [Providers -> Entry \cup {None}] /\ StoredSound'
        /\ \A a \in Cli : binding[a] # None =>
             /\ Get(stored', binding[a].provider) # None
             /\ Get(stored', binding[a].provider).base = Get(stored, binding[a].provider).base
    BY <1>1, StoredKept
  <1>7. AgentsSound' BY <1>2, <1>4, <1>5, <1>6, Configuring
  <1>8. profile' \in [Profiles -> Profile \cup {None}] BY <1>1 DEF IInv, TypeOK
  <1>9. pending' \in [Desktops -> Pending \cup {None}] /\ PendingSound'
    BY <1>1 DEF IInv, TypeOK, PendingSound, Own
  <1>. QED BY <1>6, <1>7, <1>8, <1>9, Together

\* The inductive step.
LEMMA NextKeeps == IInv /\ [Next]_vars => IInv'
  <1>. SUFFICES ASSUME IInv, [Next]_vars PROVE IInv'
    OBVIOUS
  <1>1. ASSUME NEW p \in Providers, SaveProvider(p) PROVE IInv'
    BY <1>1, SaveProviderKeeps
  <1>2. ASSUME NEW p \in Providers, DeleteProvider(p) PROVE IInv'
    BY <1>2, DeleteProviderKeeps
  <1>3. ASSUME NEW r \in Profiles, SaveProfile(r) PROVE IInv'
    BY <1>3, SaveProfileKeeps
  <1>4. ASSUME NEW r \in Profiles, DeleteProfile(r) \/ InstallOnly(r) PROVE IInv'
    BY <1>4, ProfilesOnly
  <1>5. ASSUME NEW a \in Cli, ActivateAgent(a) PROVE IInv'
    BY <1>5, ActivateAgentKeeps
  <1>6. ASSUME NEW S \in (SUBSET Cli) \ {{}}, InstallAgents(S) PROVE IInv'
    BY <1>6, InstallAgentsKeeps
  <1>7. ASSUME NEW d \in Desktops, ReadProfile(d) \/ ReadProvider(d) PROVE IInv'
    BY <1>7, ReadsKeep
  <1>8. ASSUME NEW d \in Desktops, ConfigureDesktop(d) PROVE IInv'
    BY <1>8, ConfigureDesktopKeeps
  <1>9. CASE UNCHANGED vars
    BY <1>9, StoredKept, AgentsKept, PendingKept, Together DEF vars, IInv, TypeOK
  <1>. QED BY <1>1, <1>2, <1>3, <1>4, <1>5, <1>6, <1>7, <1>8, <1>9 DEF Next

-----------------------------------------------------------------------------
(* Theorems. *)

\* Every reachable state satisfies the inductive invariant.
THEOREM Invariance == Spec => []IInv
  BY InitSound, NextKeeps, PTL DEF Spec

\* The variables keep their types: no stored record is half a record.
THEOREM TypeCorrect == Spec => []TypeOK
  <1>1. IInv => TypeOK BY DEF IInv
  <1>. QED BY <1>1, Invariance, PTL

\* The bindings say what the configuration files say, for any number of Agents,
\* Providers, Profiles and failures of other Agents.
THEOREM BindingsTruthful == Spec => []BindingRecordsConfig
  <1>1. IInv => BindingRecordsConfig BY DEF IInv
  <1>. QED BY <1>1, Invariance, PTL

\* No endpoint edit, deletion or restored key is lost on a catalog Agent.
THEOREM EndpointsFollow == Spec => []EndpointIsCurrent
  <1>1. IInv => EndpointIsCurrent BY DEF IInv
  <1>. QED BY <1>1, Invariance, PTL

\* A Provider in use by a catalog Agent is never gone.
THEOREM ProvidersStay == Spec => []BoundProvidersExist
  <1>1. IInv => BoundProvidersExist BY DEF IInv
  <1>. QED BY <1>1, Invariance, PTL

\* No key is ever configured with the endpoint of another Provider.
THEOREM KeysStayHome == Spec => []CredentialsStayHome
  <1>1. IInv => CredentialsStayHome BY DEF IInv
  <1>. QED BY <1>1, Invariance, PTL

\* Records keep their types and Agents their Providers.
THEOREM RoutesStaySafe == Spec => []RoutesSafe
BY TypeCorrect, ProvidersStay, PTL DEF RoutesSafe


-----------------------------------------------------------------------------
-----------------------------------------------------------------------------
(* McpRegistry: what its invariant says.                                   *)

\* The Agent's file holds what the variants of a server say, as its format writes it.
Agree(fact, a, c) == {Native(a, s) : s \in Listed(fact, a)} = {c} \ {Missing}

Unlisted(fact, a) == \A i \in DOMAIN fact : a \notin fact[i].agents

\* An Agent is in one variant at most.
Single(fact) == \A a \in McpAgents : \A i, j \in DOMAIN fact :
                  a \in fact[i].agents /\ a \in fact[j].agents => i = j

Facts    == [Ids -> Seq(Variant)]
Sections == [Ids -> ServerSpec \cup {Missing}]

ScanCall   == [op : {"scan"}, old : Facts, todo : SUBSET McpAgents, mem : Facts]
ChangeCall == [op : {"change"}, mem : Facts, elig : SUBSET McpAgents, dropped : SUBSET Ids,
               id : Ids, spec : ServerSpec \cup {Missing}, chosen : SUBSET McpAgents,
               delete : BOOLEAN, todo : SUBSET McpAgents, failed : BOOLEAN,
               agent : McpAgents \cup {Missing}, data : Sections,
               stage : {"next", "write", "record", "done"}]

CallTyped == call = Idle \/ call \in ScanCall \/ call \in ChangeCall

SectionsNative == \A a \in McpAgents, id \in Ids : Native(a, section[a][id]) = section[a][id]
Singles        == \A id \in Ids : Single(registry[id])
PackageBare    == \A id \in Ids : \A i \in DOMAIN package[id] : package[id][i].agents = {}

AgreesOn(mem, p) == Agree(mem[p[2]], p[1], section[p[1]][p[2]])

\* A scan: who is read agrees, who is still to be read is in no variant, and nobody
\* else is touched.
ScanSound == call \in ScanCall =>
  /\ call.old = registry
  /\ \A id \in Ids : /\ Single(call.mem[id])
                     /\ registry[id] # <<>> => call.mem[id] # <<>>
  /\ \A a \in call.todo, id \in Ids : Unlisted(call.mem[id], a)
  /\ \A p \in fresh : p[1] \notin call.todo /\ AgreesOn(call.mem, p)
  /\ \A p \in trusted : p[1] \in call.todo \/ AgreesOn(call.mem, p)

\* A request: what is in memory agrees with the files but for the pair at hand,
\* and for deletions that Agents who are not installed did not see.
ChangeSound == call \in ChangeCall =>
  /\ \A id \in Ids : /\ Single(call.mem[id])
                     /\ registry[id] # <<>> => call.mem[id] # <<>> \/ id \in call.dropped
  /\ call.todo \subseteq call.elig
  /\ \A p \in trusted : AgreesOn(call.mem, p) \/ p \in (McpAgents \ call.elig) \X call.dropped
  /\ call.stage = "done" => fresh = {}

\* One Agent's file: the other servers are what was read, until they are edited.
FileSound == call \in ChangeCall /\ call.stage = "write" =>
  /\ call.agent \in call.elig
  /\ \A id \in Ids : Native(call.agent, call.data[id]) = call.data[id]
  /\ \A id \in Ids \ {call.id} : <<call.agent, id>> \in trusted =>
       call.data[id] = section[call.agent][id]

\* A change that is no deletion: the pair at hand holds what is wanted.
RecordSound == call \in ChangeCall /\ ~call.delete =>
  IF call.stage = "record"
  THEN /\ call.agent \in call.elig /\ <<call.agent, call.id>> \notin trusted
       /\ \A p \in fresh : /\ p = <<call.agent, call.id>>
                           /\ section[call.agent][call.id] = Native(call.agent, Wanted(call.agent))
  ELSE fresh = {}

\* A deletion: the server is gone from the files written, and every installed Agent
\* that was listed is still to come, at hand, or has refused.
DeleteSound == call \in ChangeCall /\ call.delete =>
  /\ call.stage # "record" /\ call.spec = Missing /\ call.chosen = {}
  /\ \A p \in fresh : p[2] = call.id /\ section[p[1]][p[2]] = Missing
  /\ call.stage # "done" /\ ~call.failed =>
       \A a \in call.elig \ call.todo : <<a, call.id>> \in trusted =>
         Unlisted(call.mem[call.id], a) \/ (call.stage = "write" /\ a = call.agent)

\* The inductive invariant.
McpInv == /\ McpTypeOK /\ CallTyped
          /\ SectionsNative /\ Singles /\ PackageBare
          /\ RegistryAgrees
          /\ ScanSound /\ ChangeSound /\ FileSound /\ RecordSound /\ DeleteSound
-----------------------------------------------------------------------------
(* Positions of a sequence. *)

\* A set of numbers has a first one.
LEMMA FirstOf ==
  ASSUME NEW S, S \subseteq Nat, S # {}
  PROVE  First(S) \in S /\ \A j \in S : First(S) <= j
<1>1. PICK i \in S : \A j \in S : ~(<<j, i>> \in OpToRel(<, Nat))
  BY WFMin, NatLessThanWellFounded
<1>2. ASSUME NEW j \in S
      PROVE  i <= j
  <2>1. <<j, i>> \in Nat \X Nat /\ <<j, i>>[1] = j /\ <<j, i>>[2] = i
    OBVIOUS
  <2>2. OpToRel(<, Nat) = {p \in Nat \X Nat : p[1] < p[2]}
    BY DEF OpToRel
  <2>3. ~(j < i)
    BY <1>1, <2>1, <2>2
  <2> QED
    BY <2>3
<1> QED
  BY <1>2 DEF First

\* Positions number the elements of a set from 1 to its size.
LEMMA Positions ==
  ASSUME NEW n \in Nat, NEW keep \in SUBSET (1 .. n)
  PROVE  /\ IsFiniteSet(keep) /\ Cardinality(keep) \in Nat
         /\ \A k \in 1 .. Cardinality(keep) : Position(keep, k) \in keep
         /\ \A k, l \in 1 .. Cardinality(keep) : Position(keep, k) = Position(keep, l) => k = l
         /\ \A i \in keep : \E k \in 1 .. Cardinality(keep) : Position(keep, k) = i
<1> DEFINE below(i) == {j \in keep : j < i}
           c == Cardinality(keep)
           r == [i \in keep |-> Cardinality(below(i)) + 1]
<1>1. IsFiniteSet(keep) /\ c \in Nat
  <2>1. IsFiniteSet(1 .. n)
    BY FS_Interval
  <2> QED
    BY <2>1, FS_Subset, FS_CardinalityType
<1>2. ASSUME NEW i \in keep
      PROVE  /\ IsFiniteSet(below(i)) /\ Cardinality(below(i)) \in Nat
             /\ Cardinality(below(i)) < c
  <2>1. i \in Int
    OBVIOUS
  <2>2. below(i) \subseteq keep \ {i}
    BY <2>1
  <2>3. IsFiniteSet(keep \ {i}) /\ Cardinality(keep \ {i}) = c - 1
    BY <1>1, FS_RemoveElement
  <2>4. IsFiniteSet(below(i)) /\ Cardinality(below(i)) <= Cardinality(keep \ {i})
    BY <2>2, <2>3, FS_Subset
  <2>5. Cardinality(below(i)) \in Nat
    BY <2>4, FS_CardinalityType
  <2> HIDE DEF below
  <2> QED
    BY <1>1, <2>3, <2>4, <2>5
<1>3. ASSUME NEW i \in keep, NEW j \in keep, i < j
      PROVE  Cardinality(below(i)) < Cardinality(below(j))
  <2>1. i \in Int /\ j \in Int /\ \A x \in keep : x \in Int
    OBVIOUS
  <2>2. below(i) \cup {i} \subseteq below(j) /\ i \notin below(i)
    <3>1. \A x \in keep : x < i => x < j
      BY <2>1, <1>3
    <3>2. ~(i < i)
      BY <2>1
    <3> QED
      BY <3>1, <3>2, <1>3
  <2>3. Cardinality(below(i) \cup {i}) = Cardinality(below(i)) + 1
    BY <1>2, <2>2, FS_AddElement
  <2>4. Cardinality(below(i) \cup {i}) <= Cardinality(below(j))
    BY <1>2, <2>2, FS_Subset
  <2>5. Cardinality(below(i)) \in Nat /\ Cardinality(below(j)) \in Nat
    BY <1>2
  <2> HIDE DEF below
  <2> QED
    BY <2>3, <2>4, <2>5
<1>4. r \in Injection(keep, 1 .. c)
  <2> HIDE DEF below
  <2>1. \A i \in keep : Cardinality(below(i)) + 1 \in 1 .. c
    BY <1>1, <1>2
  <2>2. \A i, j \in keep : i # j => i < j \/ j < i
    OBVIOUS
  <2>3. \A i, j \in keep : Cardinality(below(i)) + 1 = Cardinality(below(j)) + 1 => i = j
    BY <1>2, <1>3, <2>2
  <2>4. r \in [keep -> 1 .. c] /\ \A i \in keep : r[i] = Cardinality(below(i)) + 1
    BY <2>1
  <2> HIDE DEF r
  <2>5. \A i, j \in keep : r[i] = r[j] => i = j
    BY <2>3, <2>4
  <2> QED
    BY <2>4, <2>5 DEF Injection, IsInjective
<1>5. r \in Surjection(keep, 1 .. c)
  <2>1. IsFiniteSet(1 .. c) /\ Cardinality(1 .. c) = c
    BY <1>1, FS_Interval
  <2> HIDE DEF r, c
  <2> QED
    BY <1>4, <2>1, FS_Injection DEF c
<1>6. \A k \in 1 .. c : \E i \in keep : Cardinality(below(i)) = k - 1
  <2> HIDE DEF below
  <2>1. \A k \in 1 .. c : \E i \in keep : r[i] = k
    BY <1>5 DEF Surjection
  <2> QED
    BY <2>1, <1>1, <1>2
<1>7. \A k \in 1 .. c : Position(keep, k) \in keep /\ Cardinality(below(Position(keep, k))) = k - 1
  BY <1>6 DEF Position
<1> HIDE DEF below
<1>8. \A k, l \in 1 .. c : Position(keep, k) = Position(keep, l) => k = l
  BY <1>7, <1>1
<1>9. ASSUME NEW i \in keep
      PROVE  \E k \in 1 .. c : Position(keep, k) = i
  <2> DEFINE k == Cardinality(below(i)) + 1
  <2>1. k \in 1 .. c
    BY <1>1, <1>2
  <2>2. Cardinality(below(Position(keep, k))) = Cardinality(below(i)) /\ Position(keep, k) \in keep
    BY <1>2, <1>7, <2>1
  <2>3. Position(keep, k) = i
    <3> HIDE DEF k
    <3>1. \A x, y \in keep : x < y \/ y < x \/ x = y
      OBVIOUS
    <3>2. \A x, y \in keep : x < y => Cardinality(below(x)) # Cardinality(below(y))
      BY <1>2, <1>3
    <3> QED
      BY <2>2, <3>1, <3>2
  <2> QED
    BY <2>1, <2>3
<1> QED
  BY <1>1, <1>7, <1>8, <1>9
-----------------------------------------------------------------------------
(* The operators on the variants of one server. *)

\* A sequence of variants, by its positions.
LEMMA FactShape ==
  ASSUME NEW fact \in Seq(Variant)
  PROVE  /\ Len(fact) \in Nat /\ DOMAIN fact = 1 .. Len(fact)
         /\ \A i \in DOMAIN fact : /\ fact[i] \in Variant
                                   /\ fact[i].spec \in ServerSpec
                                   /\ fact[i].agents \in SUBSET McpAgents
         /\ fact # << >> <=> 1 \in DOMAIN fact
<1>1. \A i \in DOMAIN fact : fact[i] \in Variant
  OBVIOUS
<1> QED
  BY <1>1 DEF Variant

\* An Agent in no variant is listed with no specification.
LEMMA UnlistedIsEmpty ==
  ASSUME NEW fact \in Seq(Variant), NEW a \in McpAgents
  PROVE  Unlisted(fact, a) <=> Listed(fact, a) = {}
BY FactShape DEF Unlisted, Listed

\* Encoding what a file already holds changes nothing.
LEMMA NativeFacts ==
  ASSUME NEW a \in McpAgents, NEW s \in ServerSpec \cup {Missing}
  PROVE  /\ Native(a, s) \in ServerSpec \cup {Missing}
         /\ Native(a, Native(a, s)) = Native(a, s)
         /\ Native(a, s) = Missing <=> s = Missing
<1>1. CASE s = Missing
  BY <1>1 DEF Native
<1>2. CASE s \in ServerSpec
  BY <1>2, MissingAssumption DEF Native, ServerSpec
<1> QED
  BY <1>1, <1>2

\* Variants are taken over one by one.
LEMMA SelectedFacts ==
  ASSUME NEW fact \in Seq(Variant), NEW keep \in SUBSET (DOMAIN fact)
  PROVE  /\ Selected(fact, keep) \in Seq(Variant)
         /\ \A k \in DOMAIN Selected(fact, keep) :
              /\ Position(keep, k) \in keep
              /\ Selected(fact, keep)[k] = fact[Position(keep, k)]
         /\ \A k, l \in DOMAIN Selected(fact, keep) :
              Position(keep, k) = Position(keep, l) => k = l
         /\ \A i \in keep : \E k \in DOMAIN Selected(fact, keep) : Selected(fact, keep)[k] = fact[i]
<1>1. Len(fact) \in Nat /\ keep \in SUBSET (1 .. Len(fact)) /\ \A i \in keep : fact[i] \in Variant
  BY FactShape
<1> DEFINE c == Cardinality(keep)
<1>2. c \in Nat /\ \A k \in 1 .. c : Position(keep, k) \in keep
  BY <1>1, Positions
<1>3. /\ Selected(fact, keep) \in Seq(Variant)
      /\ DOMAIN Selected(fact, keep) = 1 .. c
      /\ \A k \in 1 .. c : Selected(fact, keep)[k] = fact[Position(keep, k)]
  <2>1. Selected(fact, keep) \in [1 .. c -> Variant]
    BY <1>1, <1>2 DEF Selected
  <2> QED
    BY <1>2, <2>1 DEF Selected
<1>4. \A k, l \in 1 .. c : Position(keep, k) = Position(keep, l) => k = l
  BY <1>1, Positions
<1>5. \A i \in keep : \E k \in 1 .. c : Position(keep, k) = i
  BY <1>1, Positions
<1> HIDE DEF c
<1> QED
  BY <1>2, <1>3, <1>4, <1>5

\* Collapse loses no Agent and never the whole server.
LEMMA CollapseFacts ==
  ASSUME NEW fact \in Seq(Variant)
  PROVE  /\ Collapse(fact) \in Seq(Variant)
         /\ \A a \in McpAgents : Listed(Collapse(fact), a) = Listed(fact, a)
         /\ Single(fact) => Single(Collapse(fact))
         /\ fact # << >> => Collapse(fact) # << >>
<1>1. CASE Running(fact) # {}
  <2> DEFINE keep == Running(fact)
             new == Selected(fact, keep)
  <2>1. keep \in SUBSET (DOMAIN fact)
    BY DEF Running
  <2>2. Collapse(fact) = new
    BY <1>1 DEF Collapse
  <2>3. /\ new \in Seq(Variant)
        /\ \A k \in DOMAIN new : Position(keep, k) \in keep /\ new[k] = fact[Position(keep, k)]
        /\ \A k, l \in DOMAIN new : Position(keep, k) = Position(keep, l) => k = l
        /\ \A i \in keep : \E k \in DOMAIN new : new[k] = fact[i]
    BY <2>1, SelectedFacts
  <2> HIDE DEF new
  <2>4. ASSUME NEW a \in McpAgents
        PROVE  Listed(new, a) = Listed(fact, a)
    <3>1. \A i \in DOMAIN fact : a \in fact[i].agents => i \in keep
      BY DEF Running
    <3> QED
      BY <2>1, <2>3, <3>1 DEF Listed
  <2>5. Single(fact) => Single(new)
    BY <2>1, <2>3 DEF Single
  <2>6. new # << >>
    <3>1. \E k \in DOMAIN new : TRUE
      BY <1>1, <2>3
    <3> QED
      BY <3>1
  <2> QED
    BY <2>2, <2>3, <2>4, <2>5, <2>6
<1>2. CASE Running(fact) = {} /\ fact = << >>
  BY <1>2 DEF Collapse
<1>3. CASE Running(fact) = {} /\ fact # << >>
  <2>1. fact[1] \in Variant /\ 1 \in DOMAIN fact /\ Collapse(fact) = <<fact[1]>>
    BY <1>3, FactShape DEF Collapse
  <2>2. \A i \in DOMAIN fact : fact[i].agents = {}
    BY <1>3 DEF Running
  <2> QED
    BY <2>1, <2>2 DEF Listed, Single
<1> QED
  BY <1>1, <1>2, <1>3

LEMMA WithoutFacts ==
  ASSUME NEW fact \in Seq(Variant), NEW leaving \in SUBSET McpAgents
  PROVE  /\ WithoutAgents(fact, leaving) \in Seq(Variant)
         /\ \A b \in leaving : Unlisted(WithoutAgents(fact, leaving), b)
         /\ \A b \in McpAgents \ leaving : Listed(WithoutAgents(fact, leaving), b) = Listed(fact, b)
         /\ Single(fact) => Single(WithoutAgents(fact, leaving))
         /\ fact # << >> => WithoutAgents(fact, leaving) # << >>
<1> DEFINE new == WithoutAgents(fact, leaving)
<1>1. /\ DOMAIN new = DOMAIN fact
      /\ \A i \in DOMAIN fact : /\ new[i] \in Variant
                                /\ new[i].spec = fact[i].spec
                                /\ new[i].agents = fact[i].agents \ leaving
  BY FactShape DEF WithoutAgents, Variant
<1>2. new \in Seq(Variant)
  <2>1. Len(fact) \in Nat /\ DOMAIN fact = 1 .. Len(fact)
    BY FactShape
  <2>2. new \in [1 .. Len(fact) -> Variant]
    <3>1. new \in [1 .. Len(fact) -> {new[i] : i \in 1 .. Len(fact)}]
      BY <2>1 DEF WithoutAgents
    <3> QED
      BY <1>1, <2>1, <3>1
  <2> HIDE DEF new
  <2> QED
    BY <2>1, <2>2
<1> HIDE DEF new
<1>3. (\A b \in leaving : Unlisted(new, b)) /\ \A b \in McpAgents \ leaving : Listed(new, b) = Listed(fact, b)
  BY <1>1 DEF Unlisted, Listed
<1>4. Single(fact) => Single(new)
  BY <1>1 DEF Single
<1>5. fact # << >> => new # << >>
  BY <1>1, <1>2, FactShape
<1> QED
  BY <1>2, <1>3, <1>4, <1>5 DEF new

LEMMA AddAgentFacts ==
  ASSUME NEW fact \in Seq(Variant), NEW a \in McpAgents, NEW s \in ServerSpec
  PROVE  /\ AddAgent(fact, a, s) \in Seq(Variant)
         /\ AddAgent(fact, a, s) # << >>
         /\ \A b \in McpAgents \ {a} : Listed(AddAgent(fact, a, s), b) = Listed(fact, b)
         /\ Unlisted(fact, a) => Listed(AddAgent(fact, a, s), a) = {s}
         /\ Single(fact) /\ Unlisted(fact, a) => Single(AddAgent(fact, a, s))
<1> DEFINE same == {i \in DOMAIN fact : fact[i].spec = s}
           new == AddAgent(fact, a, s)
<1>1. CASE same = {}
  <2> DEFINE v == [spec |-> s, agents |-> {a}]
             n == Len(fact)
  <2>1. v \in Variant /\ n \in Nat
    BY DEF Variant
  <2>2. new = Append(fact, v)
    BY <1>1 DEF AddAgent
  <2> HIDE DEF v
  <2>3. /\ new \in Seq(Variant) /\ DOMAIN new = 1 .. n + 1 /\ DOMAIN fact = 1 .. n
        /\ \A i \in 1 .. n : new[i] = fact[i]
        /\ new[n + 1] = v
    BY <2>1, <2>2
  <2> HIDE DEF n, new
  <2>4. v.spec = s /\ v.agents = {a} /\ n + 1 \in 1 .. n + 1 /\ 1 .. n + 1 = (1 .. n) \cup {n + 1}
        /\ n + 1 \notin 1 .. n
    BY <2>1 DEF v
  <2>5. \A b \in McpAgents \ {a} : Listed(new, b) = Listed(fact, b)
    BY <2>3, <2>4 DEF Listed
  <2>6. Unlisted(fact, a) => Listed(new, a) = {s}
    BY <2>3, <2>4 DEF Listed, Unlisted
  <2>7. Single(fact) /\ Unlisted(fact, a) => Single(new)
    BY <2>3, <2>4 DEF Single, Unlisted
  <2>8. new # << >>
    BY <2>3, <2>4
  <2> QED
    BY <2>3, <2>5, <2>6, <2>7, <2>8 DEF new
<1>2. CASE same # {}
  <2> DEFINE f == First(same)
             n == Len(fact)
  <2>1. n \in Nat /\ DOMAIN fact = 1 .. n /\ \A i \in 1 .. n : fact[i] \in Variant
    BY FactShape
  <2>2. f \in same
    <3>1. same \subseteq Nat
      BY <2>1
    <3> QED
      BY <1>2, <3>1, FirstOf
  <2>3. new = [fact EXCEPT ![f].agents = @ \cup {a}]
    BY <1>2 DEF AddAgent
  <2>4. f \in 1 .. n /\ fact[f].spec = s
    BY <2>1, <2>2
  <2> HIDE DEF f, same
  <2>5. /\ DOMAIN new = 1 .. n
        /\ \A i \in 1 .. n : i # f => new[i] = fact[i]
        /\ new[f] = [fact[f] EXCEPT !.agents = @ \cup {a}]
    BY <2>1, <2>3, <2>4
  <2>6. new[f].spec = s /\ new[f].agents = fact[f].agents \cup {a} /\ new[f] \in Variant
    BY <2>1, <2>4, <2>5 DEF Variant
  <2>7. new \in Seq(Variant)
    <3>1. \A i \in 1 .. n : new[i] \in Variant
      BY <2>1, <2>5, <2>6
    <3>2. new \in [1 .. n -> Variant]
      <4>1. new \in [1 .. n -> {new[i] : i \in 1 .. n}]
        BY <2>3, <2>1, <2>5
      <4> QED
        BY <3>1, <4>1
    <3> QED
      BY <2>1, <3>2
  <2> HIDE DEF new
  <2>8. \A b \in McpAgents \ {a} : Listed(new, b) = Listed(fact, b)
    BY <2>1, <2>4, <2>5, <2>6 DEF Listed
  <2>9. Unlisted(fact, a) => Listed(new, a) = {s}
    BY <2>1, <2>4, <2>5, <2>6 DEF Listed, Unlisted
  <2>10. Single(fact) /\ Unlisted(fact, a) => Single(new)
    <3> SUFFICES ASSUME Single(fact), Unlisted(fact, a), NEW b \in McpAgents,
                        NEW i \in DOMAIN new, NEW j \in DOMAIN new,
                        b \in new[i].agents, b \in new[j].agents
                 PROVE  i = j
      BY DEF Single
    <3>1. CASE b = a
      BY <3>1, <2>1, <2>4, <2>5, <2>6 DEF Unlisted
    <3>2. CASE b # a
      <4>1. \A k \in DOMAIN new : b \in new[k].agents => b \in fact[k].agents
        BY <3>2, <2>1, <2>4, <2>5, <2>6
      <4> QED
        BY <4>1, <2>1, <2>5 DEF Single
    <3> QED
      BY <3>1, <3>2
  <2>11. new # << >>
    BY <2>4, <2>5
  <2> QED
    BY <2>7, <2>8, <2>9, <2>10, <2>11 DEF new
<1> QED
  BY <1>1, <1>2

\* A change of one Agent: it is in the variant it was given, and nowhere else.
LEMMA RecordedFacts ==
  ASSUME NEW fact \in Seq(Variant), NEW a \in McpAgents, NEW s \in ServerSpec \cup {Missing}
  PROVE  /\ Recorded(fact, a, s) \in Seq(Variant)
         /\ Listed(Recorded(fact, a, s), a) = {s} \ {Missing}
         /\ \A b \in McpAgents \ {a} : Listed(Recorded(fact, a, s), b) = Listed(fact, b)
         /\ Single(fact) => Single(Recorded(fact, a, s))
         /\ fact # << >> => Recorded(fact, a, s) # << >>
<1>1. CASE s = Missing
  <2>1. Recorded(fact, a, s) = WithoutAgents(fact, {a})
    BY <1>1 DEF Recorded
  <2> QED
    BY <1>1, <2>1, WithoutFacts, UnlistedIsEmpty
<1>2. CASE s # Missing
  <2> DEFINE less == WithoutAgents(Collapse(fact), {a})
  <2>1. s \in ServerSpec /\ {s} \ {Missing} = {s} /\ Recorded(fact, a, s) = AddAgent(less, a, s)
    BY <1>2 DEF Recorded
  <2>2. /\ Collapse(fact) \in Seq(Variant)
        /\ \A b \in McpAgents : Listed(Collapse(fact), b) = Listed(fact, b)
        /\ Single(fact) => Single(Collapse(fact))
    BY CollapseFacts
  <2>3. /\ less \in Seq(Variant) /\ Unlisted(less, a)
        /\ \A b \in McpAgents \ {a} : Listed(less, b) = Listed(Collapse(fact), b)
        /\ Single(Collapse(fact)) => Single(less)
    BY <2>2, WithoutFacts
  <2> HIDE DEF less
  <2>4. /\ AddAgent(less, a, s) \in Seq(Variant) /\ AddAgent(less, a, s) # << >>
        /\ \A b \in McpAgents \ {a} : Listed(AddAgent(less, a, s), b) = Listed(less, b)
        /\ Listed(AddAgent(less, a, s), a) = {s}
        /\ Single(less) => Single(AddAgent(less, a, s))
    BY <2>1, <2>3, AddAgentFacts
  <2> QED
    BY <2>1, <2>2, <2>3, <2>4
<1> QED
  BY <1>1, <1>2
-----------------------------------------------------------------------------
(* Agreement, and the shape of calls. *)

\* Agreement is about what is listed for the Agent, and nothing else.
LEMMA AgreeSame ==
  ASSUME NEW f, NEW g, NEW a, NEW c, Listed(f, a) = Listed(g, a)
  PROVE  Agree(f, a, c) <=> Agree(g, a, c)
BY DEF Agree

\* An Agent in no variant agrees with a file without the server, and the other way round.
LEMMA AgreeUnlisted ==
  ASSUME NEW fact \in Seq(Variant), NEW a \in McpAgents, NEW c, Unlisted(fact, a)
  PROVE  Agree(fact, a, c) <=> c = Missing
<1>1. Listed(fact, a) = {}
  BY UnlistedIsEmpty
<1> QED
  BY <1>1 DEF Agree

\* An Agent listed with s agrees with a file that s was written to.
LEMMA AgreeOne ==
  ASSUME NEW fact, NEW a \in McpAgents, NEW s \in ServerSpec \cup {Missing},
         Listed(fact, a) = {s} \ {Missing}
  PROVE  Agree(fact, a, Native(a, s))
<1>1. Native(a, s) = Missing <=> s = Missing
  BY NativeFacts
<1>2. CASE s = Missing
  BY <1>1, <1>2 DEF Agree
<1>3. CASE s # Missing
  BY <1>1, <1>3 DEF Agree
<1> QED
  BY <1>2, <1>3

\* The invariant says of saved pairs what RegistryAgrees says.
LEMMA AgreesMeans == RegistryAgrees <=> \A p \in trusted : AgreesOn(registry, p)
BY DEF RegistryAgrees, AgreesOn, Agree

LEMMA AgreesMeansNext == RegistryAgrees' <=> \A p \in trusted' : Agree(registry'[p[2]], p[1], section'[p[1]][p[2]])
BY DEF RegistryAgrees, Agree, Listed, Native

\* The fields of a call tell which kind it is.
LEMMA CallKinds ==
  ASSUME CallTyped
  PROVE  /\ call.op = "scan" => call \in ScanCall
         /\ call.op = "change" => call \in ChangeCall
         /\ call \in ScanCall => call.op = "scan"
         /\ call \in ChangeCall => call.op = "change"
         /\ call = Idle => call \notin ScanCall /\ call \notin ChangeCall
         /\ call \in ScanCall => call \notin ChangeCall
<1>1. /\ call \in ScanCall => call.op = "scan"
      /\ call \in ChangeCall => call.op = "change"
      /\ call = Idle => call.op = "idle"
  BY DEF ScanCall, ChangeCall, Idle
<1> QED
  BY <1>1 DEF CallTyped

\* An empty registry and empty files agree.
LEMMA McpStarts == McpInit => McpInv
<1> SUFFICES ASSUME McpInit PROVE McpInv
  OBVIOUS
<1> USE DEF McpInit
<1>1. call = Idle /\ call \notin ScanCall /\ call \notin ChangeCall
  BY CallKinds DEF CallTyped
<1>2. McpTypeOK
  <2>1. << >> \in Seq(Variant)
    OBVIOUS
  <2>2. Nothing \in [Ids -> ServerSpec \cup {Missing}]
    BY DEF Nothing
  <2>3. calls \in 0 .. MaxCalls /\ events \in 0 .. MaxEvents
    BY McpAssumption
  <2> QED
    BY <2>1, <2>2, <2>3 DEF McpTypeOK
<1>3. SectionsNative
  BY NativeFacts DEF SectionsNative, Nothing
<1>4. Singles /\ PackageBare
  BY DEF Singles, PackageBare, Single
<1>5. RegistryAgrees
  <2>1. ASSUME NEW p \in trusted
        PROVE  AgreesOn(registry, p)
    <3>1. p[1] \in McpAgents /\ p[2] \in Ids /\ registry[p[2]] = << >> /\ section[p[1]][p[2]] = Missing
      BY DEF Nothing
    <3>2. Unlisted(<< >>, p[1]) /\ << >> \in Seq(Variant)
      BY DEF Unlisted
    <3>3. Agree(<< >>, p[1], Missing)
      BY <3>1, <3>2, AgreeUnlisted
    <3> QED
      BY <3>1, <3>3 DEF AgreesOn
  <2> QED
    BY <2>1, AgreesMeans
<1> QED
  BY <1>1, <1>2, <1>3, <1>4, <1>5
  DEF McpInv, CallTyped, ScanSound, ChangeSound, FileSound, RecordSound, DeleteSound
-----------------------------------------------------------------------------
(* Scans. *)

\* An Agent in one variant at most has one specification at most.
LEMMA ListedOnce ==
  ASSUME NEW fact \in Seq(Variant), NEW a \in McpAgents, Single(fact),
         NEW s \in Listed(fact, a), NEW u \in Listed(fact, a)
  PROVE  s = u
BY DEF Single, Listed

\* Nothing but the call changes: what the registry and the files say of each other stays.
LEMMA RegistryFrame ==
  ASSUME McpInv, UNCHANGED <<registry, section, package>>, trusted' \subseteq trusted
  PROVE  SectionsNative' /\ Singles' /\ PackageBare' /\ RegistryAgrees'
<1>1. SectionsNative'
  BY DEF McpInv, SectionsNative, Native
<1>2. Singles'
  BY DEF McpInv, Singles, Single
<1>3. PackageBare'
  BY DEF McpInv, PackageBare
<1>4. RegistryAgrees'
  BY AgreesMeans, AgreesMeansNext DEF McpInv, AgreesOn
<1> QED
  BY <1>1, <1>2, <1>3, <1>4

\* A scan starts without the Agents it will read.
LEMMA ScanKeeps ==
  ASSUME McpInv, Scan
  PROVE  McpInv'
<1> DEFINE mem == [id \in Ids |-> WithoutAgents(registry[id], eligible)]
           new == [op |-> "scan", old |-> registry, todo |-> eligible, mem |-> mem]
<1>1. /\ call' = new /\ fresh' = {} /\ calls' = calls + 1 /\ calls < MaxCalls
      /\ UNCHANGED <<registry, section, file, eligible, package, trusted, events>>
  BY DEF Scan, Free
<1>2. McpTypeOK'
  BY <1>1, McpAssumption DEF McpInv, McpTypeOK
<1>3. /\ mem \in Facts
      /\ \A id \in Ids : /\ Single(mem[id])
                         /\ registry[id] # << >> => mem[id] # << >>
                         /\ \A a \in eligible : Unlisted(mem[id], a)
                         /\ \A a \in McpAgents \ eligible : Listed(mem[id], a) = Listed(registry[id], a)
  <2>1. registry \in Facts /\ eligible \in SUBSET McpAgents /\ \A id \in Ids : Single(registry[id])
    BY DEF McpInv, McpTypeOK, Singles, Facts
  <2>2. \A id \in Ids : registry[id] \in Seq(Variant)
    BY <2>1 DEF Facts
  <2>3. \A id \in Ids : mem[id] \in Seq(Variant)
    BY <2>1, <2>2, WithoutFacts
  <2>4. mem \in Facts
    BY <2>3 DEF Facts
  <2> QED
    BY <2>1, <2>2, <2>4, WithoutFacts
<1>4. new \in ScanCall
  BY <1>3 DEF McpInv, McpTypeOK, ScanCall, Facts
<1>5. CallTyped' /\ call' \in ScanCall /\ call' \notin ChangeCall
  BY <1>1, <1>4 DEF CallTyped, ScanCall, ChangeCall
<1>6. SectionsNative' /\ Singles' /\ PackageBare' /\ RegistryAgrees'
  BY <1>1, RegistryFrame
<1> HIDE DEF mem
<1>7. ScanSound'
  <2>1. \A a \in new.todo, id \in Ids : Unlisted(mem[id], a)
    BY <1>3
  <2>2. ASSUME NEW p \in trusted, p[1] \notin eligible
        PROVE  Agree(mem[p[2]], p[1], section[p[1]][p[2]])
    <3>1. p[1] \in McpAgents /\ p[2] \in Ids
      BY DEF McpInv, McpTypeOK
    <3>2. Agree(registry[p[2]], p[1], section[p[1]][p[2]])
      BY AgreesMeans DEF McpInv, AgreesOn
    <3> QED
      BY <1>3, <2>2, <3>1, <3>2, AgreeSame
  <2> QED
    BY <1>1, <1>3, <2>1, <2>2 DEF ScanSound, AgreesOn
<1> QED
  BY <1>2, <1>5, <1>6, <1>7 DEF McpInv, ChangeSound, FileSound, RecordSound, DeleteSound

\* The file of one Agent is read, or fails and what was known is kept.
LEMMA ReadAgentKeeps ==
  ASSUME McpInv, NEW a \in McpAgents, ReadAgent(a)
  PROVE  McpInv'
<1> DEFINE seen == file[a] = "ok"
           mem == IF seen THEN Observed(a) ELSE Kept(a)
           new == [call EXCEPT !.todo = @ \ {a}, !.mem = mem]
<1>1. /\ call \in ScanCall /\ a \in call.todo
      /\ call' = new
      /\ fresh' = IF seen THEN fresh \cup {<<a, id>> : id \in Ids} ELSE fresh
      /\ UNCHANGED <<registry, section, file, eligible, package, trusted, calls, events>>
  BY CallKinds DEF McpInv, ReadAgent
<1>2. McpTypeOK'
  BY <1>1 DEF McpInv, McpTypeOK
<1>3. /\ call.mem \in Facts /\ registry \in Facts /\ call.old = registry
      /\ \A id \in Ids : /\ call.mem[id] \in Seq(Variant) /\ registry[id] \in Seq(Variant)
                         /\ Single(call.mem[id]) /\ Single(registry[id])
                         /\ Unlisted(call.mem[id], a)
                         /\ registry[id] # << >> => call.mem[id] # << >>
                         /\ section[a][id] \in ServerSpec \cup {Missing}
                         /\ Native(a, section[a][id]) = section[a][id]
  <2>1. call.mem \in Facts /\ registry \in Facts
    BY <1>1 DEF McpInv, McpTypeOK, ScanCall, Facts
  <2> QED
    BY <1>1, <2>1 DEF McpInv, McpTypeOK, ScanSound, Singles, SectionsNative, Facts
\* What becomes of one server.
<1>4. ASSUME NEW id \in Ids
      PROVE  /\ mem[id] \in Seq(Variant) /\ Single(mem[id])
             /\ registry[id] # << >> => mem[id] # << >>
             /\ \A b \in McpAgents \ {a} : Listed(mem[id], b) = Listed(call.mem[id], b)
             /\ seen => Agree(mem[id], a, section[a][id])
             /\ ~seen => Listed(mem[id], a) = Listed(registry[id], a)
  <2>1. CASE seen /\ section[a][id] = Missing
    <3>1. mem[id] = call.mem[id]
      BY <2>1 DEF Observed
    <3> QED
      BY <1>3, <2>1, <3>1, AgreeUnlisted
  <2>2. CASE seen /\ section[a][id] # Missing
    <3>1. mem[id] = AddAgent(call.mem[id], a, section[a][id]) /\ section[a][id] \in ServerSpec
      BY <1>3, <2>2 DEF Observed
    <3>2. /\ mem[id] \in Seq(Variant) /\ mem[id] # << >> /\ Single(mem[id])
          /\ Listed(mem[id], a) = {section[a][id]}
          /\ \A b \in McpAgents \ {a} : Listed(mem[id], b) = Listed(call.mem[id], b)
      BY <1>3, <3>1, AddAgentFacts
    <3>3. Agree(mem[id], a, Native(a, section[a][id]))
      BY <2>2, <3>1, <3>2, AgreeOne
    <3> QED
      BY <1>3, <2>2, <3>2, <3>3
  <2>3. CASE ~seen /\ Listed(registry[id], a) = {}
    <3>1. mem[id] = call.mem[id]
      BY <1>3, <2>3 DEF Kept
    <3>2. Listed(mem[id], a) = {}
      BY <1>3, <3>1, UnlistedIsEmpty
    <3> QED
      BY <1>3, <2>3, <3>1, <3>2
  <2>4. CASE ~seen /\ Listed(registry[id], a) # {}
    <3> DEFINE s == CHOOSE s \in Listed(registry[id], a) : TRUE
    <3>1. mem[id] = AddAgent(call.mem[id], a, s) /\ s \in Listed(registry[id], a)
      BY <1>3, <2>4 DEF Kept
    <3> HIDE DEF s
    <3>2. Listed(registry[id], a) = {s} /\ s \in ServerSpec
      BY <1>3, <3>1, ListedOnce DEF Listed
    <3>3. /\ mem[id] \in Seq(Variant) /\ mem[id] # << >> /\ Single(mem[id])
          /\ Listed(mem[id], a) = {s}
          /\ \A b \in McpAgents \ {a} : Listed(mem[id], b) = Listed(call.mem[id], b)
      BY <1>3, <3>1, <3>2, AddAgentFacts
    <3> QED
      BY <2>4, <3>2, <3>3
  <2> QED
    BY <2>1, <2>2, <2>3, <2>4
<1>5. mem \in Facts
  <2>1. mem = [id \in Ids |-> mem[id]]
    BY DEF Observed, Kept
  <2> QED
    BY <1>4, <2>1 DEF Facts
<1> HIDE DEF mem
<1>6. /\ new \in ScanCall /\ new.mem = mem /\ new.todo = call.todo \ {a} /\ new.old = registry
      /\ new.op = "scan"
  BY <1>1, <1>3, <1>5 DEF ScanCall
<1> HIDE DEF new
<1>7. CallTyped' /\ call' \notin ChangeCall
  BY <1>1, <1>6 DEF CallTyped, ChangeCall
<1>8. SectionsNative' /\ Singles' /\ PackageBare' /\ RegistryAgrees'
  BY <1>1, RegistryFrame
<1>9. ScanSound'
  <2>1. \A b \in new.todo, id \in Ids : Unlisted(mem[id], b)
    <3>1. \A b \in new.todo, id \in Ids : Unlisted(call.mem[id], b) /\ b \in McpAgents \ {a}
      BY <1>1, <1>6 DEF McpInv, ScanSound, ScanCall
    <3> QED
      BY <1>3, <1>4, <3>1, UnlistedIsEmpty
  <2>2. ASSUME NEW p \in fresh'
        PROVE  p[1] \notin new.todo /\ Agree(mem[p[2]], p[1], section[p[1]][p[2]])
    <3>1. CASE p \in fresh
      <4>1. p[1] \in McpAgents /\ p[2] \in Ids /\ p[1] \notin call.todo
            /\ Agree(call.mem[p[2]], p[1], section[p[1]][p[2]])
        BY <1>1, <3>1 DEF McpInv, McpTypeOK, ScanSound, AgreesOn
      <4>2. p[1] # a
        BY <1>1, <4>1
      <4> QED
        BY <1>4, <1>6, <4>1, <4>2, AgreeSame
    <3>2. CASE seen /\ p \in {<<a, id>> : id \in Ids}
      BY <1>4, <1>6, <3>2
    <3> QED
      BY <1>1, <3>1, <3>2
  <2>3. ASSUME NEW p \in trusted, p[1] \notin new.todo
        PROVE  Agree(mem[p[2]], p[1], section[p[1]][p[2]])
    <3>1. p[1] \in McpAgents /\ p[2] \in Ids
      BY DEF McpInv, McpTypeOK
    <3>2. CASE p[1] # a
      <4>1. Agree(call.mem[p[2]], p[1], section[p[1]][p[2]])
        BY <1>1, <1>6, <2>3, <3>2 DEF McpInv, ScanSound, AgreesOn
      <4> QED
        BY <1>4, <3>1, <3>2, <4>1, AgreeSame
    <3>3. CASE p[1] = a /\ seen
      BY <1>4, <3>1, <3>3
    <3>4. CASE p[1] = a /\ ~seen
      <4>1. Agree(registry[p[2]], p[1], section[p[1]][p[2]])
        BY AgreesMeans DEF McpInv, AgreesOn
      <4> QED
        BY <1>4, <3>1, <3>4, <4>1, AgreeSame
    <3> QED
      BY <3>2, <3>3, <3>4
  <2>4. \A id \in Ids : Single(mem[id]) /\ (registry[id] # << >> => mem[id] # << >>)
    BY <1>4
  <2> QED
    BY <1>1, <1>6, <2>1, <2>2, <2>3, <2>4 DEF ScanSound, AgreesOn
<1> QED
  BY <1>2, <1>7, <1>8, <1>9 DEF McpInv, ChangeSound, FileSound, RecordSound, DeleteSound

\* The result of a scan is saved, or not.
LEMMA EndScanKeeps ==
  ASSUME McpInv, EndScan
  PROVE  McpInv'
<1>1. /\ call \in ScanCall /\ call.todo = {} /\ call' = Idle /\ fresh' = {}
      /\ UNCHANGED <<section, file, eligible, package, calls, events>>
  BY CallKinds DEF McpInv, EndScan
<1>2. call' \notin ScanCall /\ call' \notin ChangeCall
  BY <1>1 DEF Idle, ScanCall, ChangeCall
<1>3. CASE UNCHANGED <<registry, trusted>>
  <2>1. SectionsNative' /\ Singles' /\ PackageBare' /\ RegistryAgrees'
    BY <1>1, <1>3, RegistryFrame
  <2>2. McpTypeOK'
    BY <1>1, <1>3 DEF McpInv, McpTypeOK
  <2> QED
    BY <1>1, <1>2, <2>1, <2>2
    DEF McpInv, CallTyped, ScanSound, ChangeSound, FileSound, RecordSound, DeleteSound
<1>4. CASE registry' = [id \in Ids |-> Collapse(call.mem[id])] /\ trusted' = trusted \cup fresh
  <2>1. \A id \in Ids : call.mem[id] \in Seq(Variant) /\ Single(call.mem[id])
    BY <1>1 DEF McpInv, ScanSound, ScanCall, Facts
  <2>2. \A id \in Ids : /\ registry'[id] \in Seq(Variant) /\ Single(registry'[id])
                        /\ \A a \in McpAgents : Listed(registry'[id], a) = Listed(call.mem[id], a)
    BY <1>4, <2>1, CollapseFacts
  <2>3. McpTypeOK'
    BY <1>1, <1>4, <2>2 DEF McpInv, McpTypeOK
  <2>4. SectionsNative' /\ PackageBare'
    BY <1>1 DEF McpInv, SectionsNative, PackageBare, Native
  <2>5. Singles'
    BY <2>2 DEF Singles, Single
  <2>6. RegistryAgrees'
    <3>1. ASSUME NEW p \in trusted'
          PROVE  Agree(registry'[p[2]], p[1], section[p[1]][p[2]])
      <4>1. p[1] \in McpAgents /\ p[2] \in Ids /\ p \in trusted \cup fresh
        BY <1>4 DEF McpInv, McpTypeOK
      <4>2. Agree(call.mem[p[2]], p[1], section[p[1]][p[2]])
        BY <1>1, <4>1 DEF McpInv, ScanSound, AgreesOn
      <4> QED
        BY <2>2, <4>1, <4>2, AgreeSame
    <3> QED
      BY <1>1, <3>1, AgreesMeansNext
  <2> QED
    BY <1>1, <1>2, <2>3, <2>4, <2>5, <2>6
    DEF McpInv, CallTyped, ScanSound, ChangeSound, FileSound, RecordSound, DeleteSound
<1> QED
  BY <1>3, <1>4 DEF EndScan
-----------------------------------------------------------------------------
(* Changes. *)

\* A call that is a change and whose registry in memory is sound.
LEMMA ChangeShape ==
  ASSUME McpInv, call \in ChangeCall
  PROVE  /\ call.mem \in Facts /\ registry \in Facts
         /\ call.id \in Ids /\ call.dropped \in SUBSET Ids /\ call.elig \in SUBSET McpAgents
         /\ call.todo \in SUBSET McpAgents /\ call.chosen \in SUBSET McpAgents
         /\ call.spec \in ServerSpec \cup {Missing} /\ call.data \in Sections
         /\ call.delete \in BOOLEAN /\ call.failed \in BOOLEAN
         /\ call.agent \in McpAgents \cup {Missing}
         /\ call.stage \in {"next", "write", "record", "done"}
         /\ \A id \in Ids : call.mem[id] \in Seq(Variant) /\ Single(call.mem[id])
BY DEF McpInv, McpTypeOK, ChangeSound, ChangeCall, Facts

\* An Agent that a change leaves alone is in no variant.
LEMMA TargetsListed ==
  ASSUME NEW fact \in Seq(Variant), NEW chosen, NEW elig, NEW a \in elig, a \notin Targets(fact, chosen, elig)
  PROVE  Unlisted(fact, a)
BY DEF Targets, Unlisted

\* A change starts with the registry as it is, or as the change before it left it.
LEMMA ChangeKeeps ==
  ASSUME McpInv, Change
  PROVE  McpInv'
<1>1. /\ calls < MaxCalls /\ calls' = calls + 1 /\ fresh' = {}
      /\ UNCHANGED <<registry, section, file, eligible, package, trusted, events>>
  BY DEF Change
<1>2. McpTypeOK'
  BY <1>1, McpAssumption DEF McpInv, McpTypeOK
<1>3. SectionsNative' /\ Singles' /\ PackageBare' /\ RegistryAgrees'
  BY <1>1, RegistryFrame
<1>4. PICK id \in Ids, spec \in TypedSpecs \cup StoredSpecs \cup {Missing},
           chosen \in SUBSET McpAgents, delete \in BOOLEAN :
        /\ delete => spec = Missing /\ chosen = {}
        /\ call' = IF call = Idle THEN StartChange(registry, eligible, {}, id, spec, chosen, delete)
                   ELSE StartChange(call.mem, call.elig, call.dropped, id, spec, chosen, delete)
  BY DEF Change
<1>5. PICK mem, elig, dropped :
        /\ mem \in Facts /\ elig \in SUBSET McpAgents /\ dropped \in SUBSET Ids
        /\ call' = StartChange(mem, elig, dropped, id, spec, chosen, delete)
        /\ \A i \in Ids : Single(mem[i]) /\ (registry[i] # << >> => mem[i] # << >> \/ i \in dropped)
        /\ \A p \in trusted : AgreesOn(mem, p) \/ p \in (McpAgents \ elig) \X dropped
  <2>1. CASE call = Idle
    <3>1. registry \in Facts /\ eligible \in SUBSET McpAgents
      BY DEF McpInv, McpTypeOK, Facts
    <3>2. \A i \in Ids : Single(registry[i])
      BY DEF McpInv, Singles
    <3>3. \A p \in trusted : AgreesOn(registry, p)
      BY AgreesMeans DEF McpInv
    <3> QED
      BY <1>4, <2>1, <3>1, <3>2, <3>3
  <2>2. CASE call # Idle
    <3>1. call \in ChangeCall
      BY <2>2, CallKinds DEF Change, McpInv
    <3> QED
      BY <1>4, <2>2, <3>1, ChangeShape DEF McpInv, ChangeSound
  <2> QED
    BY <2>1, <2>2
<1> DEFINE todo == Targets(mem[id], chosen, elig)
           new == StartChange(mem, elig, dropped, id, spec, chosen, delete)
<1>6. spec \in ServerSpec \cup {Missing} /\ Nothing \in Sections /\ todo \in SUBSET elig
  <2>1. \A i \in Ids : \A k \in DOMAIN registry[i] : registry[i][k].spec \in ServerSpec
    BY FactShape DEF McpInv, McpTypeOK
  <2>2. StoredSpecs \subseteq ServerSpec
    BY <2>1 DEF StoredSpecs
  <2> QED
    BY <2>2 DEF TypedSpecs, Nothing, Sections, Targets
<1> HIDE DEF todo
<1>7. /\ new.op = "change" /\ new.mem = mem /\ new.elig = elig /\ new.dropped = dropped
      /\ new.id = id /\ new.spec = spec /\ new.chosen = chosen /\ new.delete = delete
      /\ new.todo = todo /\ new.stage = "next" /\ new.failed = FALSE
      /\ new \in ChangeCall
  BY <1>5, <1>6 DEF StartChange, ChangeCall, todo
<1> HIDE DEF new
<1>8. call' = new /\ CallTyped' /\ call' \notin ScanCall
  BY <1>5, <1>7 DEF CallTyped, ScanCall, new
<1>9. ChangeSound'
  BY <1>1, <1>5, <1>6, <1>7, <1>8 DEF ChangeSound, AgreesOn
<1>10. FileSound' /\ RecordSound'
  BY <1>1, <1>7, <1>8 DEF FileSound, RecordSound
<1>11. DeleteSound'
  <2>1. \A a \in elig \ todo : Unlisted(mem[id], a)
    BY <1>5, TargetsListed DEF todo, Facts
  <2> QED
    BY <1>1, <1>4, <1>7, <1>8, <2>1 DEF DeleteSound
<1> QED
  BY <1>2, <1>3, <1>8, <1>9, <1>10, <1>11 DEF McpInv, ScanSound

\* The file of the next Agent is read, or the Agent skipped.
LEMMA ReadFileKeeps ==
  ASSUME McpInv, NEW a \in McpAgents, ReadFile(a)
  PROVE  McpInv'
<1>1. /\ call \in ChangeCall /\ call.stage = "next" /\ a \in call.todo
      /\ UNCHANGED <<registry, section, file, eligible, package, fresh, calls, events>>
  BY CallKinds DEF McpInv, ReadFile
<1>2. trusted' \subseteq trusted
  BY DEF ReadFile
<1>3. McpTypeOK'
  BY <1>1, <1>2 DEF McpInv, McpTypeOK
<1>4. SectionsNative' /\ Singles' /\ PackageBare' /\ RegistryAgrees'
  BY <1>1, <1>2, RegistryFrame
<1>5. CASE file[a] = "closed"
  <2> DEFINE new == [call EXCEPT !.todo = @ \ {a}]
  <2>1. call' = new /\ trusted' = trusted \ {<<a, call.id>>}
    BY <1>5 DEF ReadFile
  <2>2. /\ new \in ChangeCall /\ new.todo = call.todo \ {a} /\ new.stage = "next"
        /\ new.mem = call.mem /\ new.elig = call.elig /\ new.dropped = call.dropped
        /\ new.id = call.id /\ new.spec = call.spec /\ new.chosen = call.chosen
        /\ new.delete = call.delete /\ new.failed = call.failed
    BY <1>1 DEF ChangeCall
  <2> HIDE DEF new
  <2>3. CallTyped' /\ call' \notin ScanCall
    BY <2>1, <2>2 DEF CallTyped, ScanCall, ChangeCall
  <2>4. ChangeSound'
    BY <1>1, <1>2, <2>1, <2>2 DEF McpInv, ChangeSound, AgreesOn
  <2>5. FileSound' /\ RecordSound'
    BY <1>1, <2>1, <2>2 DEF McpInv, FileSound, RecordSound
  <2>6. DeleteSound'
    BY <1>1, <2>1, <2>2 DEF McpInv, DeleteSound
  <2> QED
    BY <1>3, <1>4, <2>3, <2>4, <2>5, <2>6 DEF McpInv, ScanSound
<1>6. CASE file[a] # "closed"
  <2> DEFINE new == [call EXCEPT !.todo = @ \ {a}, !.agent = a, !.data = section[a], !.stage = "write"]
  <2>1. call' = new /\ trusted' = trusted
    BY <1>6 DEF ReadFile
  <2>2. section[a] \in Sections
    BY DEF McpInv, McpTypeOK, Sections
  <2>3. /\ new \in ChangeCall /\ new.todo = call.todo \ {a} /\ new.stage = "write"
        /\ new.mem = call.mem /\ new.elig = call.elig /\ new.dropped = call.dropped
        /\ new.id = call.id /\ new.spec = call.spec /\ new.chosen = call.chosen
        /\ new.delete = call.delete /\ new.failed = call.failed
        /\ new.agent = a /\ new.data = section[a]
    BY <1>1, <2>2 DEF ChangeCall
  <2> HIDE DEF new
  <2>4. CallTyped' /\ call' \notin ScanCall
    BY <2>1, <2>3 DEF CallTyped, ScanCall, ChangeCall
  <2>5. ChangeSound'
    BY <1>1, <1>2, <2>1, <2>3 DEF McpInv, ChangeSound, AgreesOn
  <2>6. FileSound'
    <3>1. a \in call.elig
      BY <1>1 DEF McpInv, ChangeSound
    <3>2. \A id \in Ids : Native(a, section[a][id]) = section[a][id]
      BY DEF McpInv, SectionsNative
    <3> QED
      BY <1>1, <2>1, <2>3, <3>1, <3>2 DEF FileSound
  <2>7. RecordSound'
    BY <1>1, <2>1, <2>3 DEF McpInv, RecordSound
  <2>8. DeleteSound'
    BY <1>1, <2>1, <2>3 DEF McpInv, DeleteSound
  <2> QED
    BY <1>3, <1>4, <2>4, <2>5, <2>6, <2>7, <2>8 DEF McpInv, ScanSound
<1> QED
  BY <1>5, <1>6

\* A failed write leaves the file; a deletion remembers it.
LEMMA WriteFailsKeeps ==
  ASSUME McpInv, WriteFails
  PROVE  McpInv'
<1> DEFINE new == [call EXCEPT !.stage = "next", !.failed = @ \/ call.delete]
<1>1. /\ call \in ChangeCall /\ call.stage = "write" /\ call' = new
      /\ UNCHANGED <<registry, section, file, eligible, package, fresh, trusted, calls, events>>
  BY CallKinds DEF McpInv, WriteFails
<1>2. McpTypeOK'
  BY <1>1 DEF McpInv, McpTypeOK
<1>3. SectionsNative' /\ Singles' /\ PackageBare' /\ RegistryAgrees'
  BY <1>1, RegistryFrame
<1>4. /\ new \in ChangeCall /\ new.todo = call.todo /\ new.stage = "next"
      /\ new.mem = call.mem /\ new.elig = call.elig /\ new.dropped = call.dropped
      /\ new.id = call.id /\ new.spec = call.spec /\ new.chosen = call.chosen
      /\ new.delete = call.delete /\ (call.delete => new.failed)
  BY <1>1 DEF ChangeCall
<1> HIDE DEF new
<1>5. CallTyped' /\ call' \notin ScanCall
  BY <1>1, <1>4 DEF CallTyped, ScanCall, ChangeCall
<1>6. ChangeSound'
  BY <1>1, <1>4 DEF McpInv, ChangeSound, AgreesOn
<1>7. FileSound' /\ RecordSound' /\ DeleteSound'
  BY <1>1, <1>4 DEF McpInv, FileSound, RecordSound, DeleteSound
<1> QED
  BY <1>2, <1>3, <1>5, <1>6, <1>7 DEF McpInv, ScanSound

\* A write changes one server of the file and leaves the others as they were read.
LEMMA WriteFileKeeps ==
  ASSUME McpInv, WriteFile
  PROVE  McpInv'
<1> DEFINE a == call.agent
           stage == IF call.delete THEN "next" ELSE "record"
           new == [call EXCEPT !.stage = stage]
           wanted == Wanted(a)
<1>1. /\ call \in ChangeCall /\ call.stage = "write" /\ call' = new
      /\ section' = [section EXCEPT ![a] = Patched(a)]
      /\ fresh' = fresh \cup {<<a, call.id>>}
      /\ trusted' = trusted \ {<<a, call.id>>}
      /\ UNCHANGED <<registry, file, eligible, package, calls, events>>
  BY CallKinds DEF McpInv, WriteFile
<1>2. /\ a \in call.elig /\ a \in McpAgents /\ call.id \in Ids
      /\ call.spec \in ServerSpec \cup {Missing} /\ call.data \in Sections
      /\ fresh \subseteq McpAgents \X Ids /\ trusted \subseteq McpAgents \X Ids
      /\ section \in [McpAgents -> Sections]
  BY <1>1, ChangeShape DEF McpInv, McpTypeOK, FileSound, Sections
<1>3. wanted \in ServerSpec \cup {Missing} /\ (call.delete => wanted = Missing)
      /\ Native(a, wanted) \in ServerSpec \cup {Missing}
      /\ Native(a, Native(a, wanted)) = Native(a, wanted)
      /\ (wanted = Missing => Native(a, wanted) = Missing)
  BY <1>2, NativeFacts DEF Wanted
<1>4. /\ Patched(a) \in Sections
      /\ Patched(a)[call.id] = Native(a, wanted)
      /\ \A id \in Ids \ {call.id} : Patched(a)[id] = call.data[id]
  BY <1>2, <1>3 DEF Patched, Sections
<1> HIDE DEF wanted
<1>5. /\ section' \in [McpAgents -> Sections]
      /\ section'[a] = Patched(a)
      /\ \A b \in McpAgents \ {a} : section'[b] = section[b]
  BY <1>1, <1>2, <1>4
<1>6. /\ new \in ChangeCall /\ new.todo = call.todo /\ new.stage = stage
      /\ new.mem = call.mem /\ new.elig = call.elig /\ new.dropped = call.dropped
      /\ new.id = call.id /\ new.spec = call.spec /\ new.chosen = call.chosen
      /\ new.delete = call.delete /\ new.failed = call.failed /\ new.agent = a
  BY <1>1 DEF ChangeCall
<1> HIDE DEF new
<1>7. CallTyped' /\ call' \notin ScanCall
  BY <1>1, <1>6 DEF CallTyped, ScanCall, ChangeCall
<1>8. McpTypeOK'
  BY <1>1, <1>2, <1>5 DEF McpInv, McpTypeOK, Sections
\* Pairs that are still trusted are as they were.
<1>9. ASSUME NEW p \in trusted'
      PROVE  p \in trusted /\ section'[p[1]][p[2]] = section[p[1]][p[2]]
  <2>1. p \in trusted /\ p # <<a, call.id>> /\ p[1] \in McpAgents /\ p[2] \in Ids /\ p = <<p[1], p[2]>>
    BY <1>1, <1>2
  <2>2. CASE p[1] # a
    BY <1>5, <2>1, <2>2
  <2>3. CASE p[1] = a
    <3>1. p[2] \in Ids \ {call.id} /\ <<call.agent, p[2]>> \in trusted
      BY <2>1, <2>3
    <3>2. call.data[p[2]] = section[a][p[2]]
      BY <1>1, <3>1 DEF McpInv, FileSound
    <3> QED
      BY <1>4, <1>5, <2>1, <2>3, <3>1, <3>2
  <2> QED
    BY <2>2, <2>3
<1>10. SectionsNative'
  <2>1. \A id \in Ids : Native(a, Patched(a)[id]) = Patched(a)[id]
    BY <1>1, <1>3, <1>4 DEF McpInv, FileSound
  <2> QED
    BY <1>5, <2>1 DEF McpInv, SectionsNative
<1>11. Singles' /\ PackageBare'
  BY <1>1 DEF McpInv, Singles, PackageBare
<1>12. RegistryAgrees'
  <2>1. \A p \in trusted : Agree(registry[p[2]], p[1], section[p[1]][p[2]])
    BY AgreesMeans DEF McpInv, AgreesOn
  <2> QED
    BY <1>1, <1>9, <2>1, AgreesMeansNext
<1>13. ChangeSound'
  <2>1. \A p \in trusted' : Agree(call.mem[p[2]], p[1], section'[p[1]][p[2]])
                           \/ p \in (McpAgents \ call.elig) \X call.dropped
    BY <1>1, <1>9 DEF McpInv, ChangeSound, AgreesOn
  <2> QED
    BY <1>1, <1>6, <2>1 DEF McpInv, ChangeSound, AgreesOn
<1>14. FileSound'
  BY <1>1, <1>6 DEF FileSound
<1>15. RecordSound'
  <2>1. ~call.delete => Wanted(a)' = wanted
    BY <1>1, <1>6 DEF Wanted, wanted
  <2>2. ~call.delete => fresh' = {<<a, call.id>>}
    BY <1>1 DEF McpInv, RecordSound
  <2> QED
    BY <1>1, <1>2, <1>4, <1>5, <1>6, <2>1, <2>2 DEF RecordSound
<1>16. DeleteSound'
  <2>1. ASSUME call.delete, NEW p \in fresh'
        PROVE  p[2] = call.id /\ section'[p[1]][p[2]] = Missing
    <3>1. CASE p = <<a, call.id>>
      BY <1>3, <1>4, <1>5, <2>1, <3>1
    <3>2. CASE p # <<a, call.id>> /\ p \in fresh
      <4>1. p[1] \in McpAgents /\ p[2] = call.id /\ section[p[1]][p[2]] = Missing /\ p = <<p[1], p[2]>>
        BY <1>1, <1>2, <2>1, <3>2 DEF McpInv, DeleteSound
      <4> QED
        BY <1>5, <3>2, <4>1
    <3> QED
      BY <1>1, <3>1, <3>2
  <2> QED
    BY <1>1, <1>6, <2>1 DEF McpInv, DeleteSound
<1> QED
  BY <1>7, <1>8, <1>10, <1>11, <1>12, <1>13, <1>14, <1>15, <1>16 DEF McpInv, ScanSound

\* A save of a sound registry in memory, with what was brought in line.
LEMMA SaveKeeps ==
  ASSUME McpInv, call \in ChangeCall, NEW mem \in Facts, NEW dropped \in SUBSET Ids,
         Saves(mem, dropped), UNCHANGED <<section, package>>,
         \A id \in Ids : Single(mem[id]) /\ (call.mem[id] # << >> => mem[id] # << >> \/ id \in dropped),
         call.dropped \subseteq dropped,
         \A p \in trusted \cup fresh : Agree(mem[p[2]], p[1], section[p[1]][p[2]])
                                        \/ p \in (McpAgents \ call.elig) \X dropped
  PROVE  /\ SectionsNative' /\ Singles' /\ PackageBare' /\ RegistryAgrees'
         /\ registry' \in Facts /\ trusted' \subseteq McpAgents \X Ids
         /\ trusted' \subseteq trusted \cup fresh
         /\ \A id \in Ids : registry'[id] # << >> => mem[id] # << >> \/ id \in dropped
         /\ \A p \in trusted' : Agree(mem[p[2]], p[1], section[p[1]][p[2]])
                                \/ p \in (McpAgents \ call.elig) \X dropped
<1>0. trusted \subseteq McpAgents \X Ids /\ fresh \subseteq McpAgents \X Ids /\ registry \in Facts
  BY DEF McpInv, McpTypeOK, Facts
<1>1. CASE UNCHANGED <<registry, trusted>>
  <2>1. SectionsNative' /\ Singles' /\ PackageBare' /\ RegistryAgrees'
    BY <1>1, RegistryFrame
  <2>2. \A id \in Ids : registry[id] # << >> => call.mem[id] # << >> \/ id \in call.dropped
    BY DEF McpInv, ChangeSound
  <2> QED
    BY <1>0, <1>1, <2>1, <2>2
<1>2. CASE /\ registry' = mem
           /\ trusted' = (trusted \cup fresh) \ ((McpAgents \ call.elig) \X dropped)
  <2>1. SectionsNative' /\ PackageBare'
    BY DEF McpInv, SectionsNative, PackageBare
  <2>2. Singles'
    BY <1>2 DEF Singles
  <2>3. RegistryAgrees'
    BY <1>2, AgreesMeansNext
  <2> QED
    BY <1>0, <1>2, <2>1, <2>2, <2>3
<1> QED
  BY <1>1, <1>2 DEF Saves

\* The Agent is recorded where it was written, and the registry saved, or not.
LEMMA RecordKeeps ==
  ASSUME McpInv, Record
  PROVE  McpInv'
<1> DEFINE a == call.agent
           wanted == Wanted(a)
           mem == [call.mem EXCEPT ![call.id] = Recorded(@, a, wanted)]
           new == [call EXCEPT !.mem = mem, !.stage = "next"]
<1>1. /\ call \in ChangeCall /\ call.stage = "record" /\ call' = new
      /\ Saves(mem, call.dropped) /\ fresh' = {}
      /\ UNCHANGED <<section, file, eligible, package, calls, events>>
  BY CallKinds DEF McpInv, Record
<1>2. /\ ~call.delete /\ a \in call.elig /\ a \in McpAgents /\ call.id \in Ids
      /\ call.spec \in ServerSpec \cup {Missing} /\ call.dropped \in SUBSET Ids
      /\ call.mem \in Facts
      /\ \A id \in Ids : call.mem[id] \in Seq(Variant) /\ Single(call.mem[id])
  <2>1. ~call.delete
    BY <1>1 DEF McpInv, DeleteSound
  <2> QED
    BY <1>1, <2>1, ChangeShape DEF McpInv, RecordSound
<1>3. wanted \in ServerSpec \cup {Missing}
  BY <1>2 DEF Wanted
<1>4. /\ \A p \in fresh : p = <<a, call.id>> /\ section[a][call.id] = Native(a, wanted)
      /\ <<a, call.id>> \notin trusted
  BY <1>1, <1>2 DEF McpInv, RecordSound
<1> HIDE DEF wanted
<1>5. /\ mem[call.id] = Recorded(call.mem[call.id], a, wanted)
      /\ \A id \in Ids \ {call.id} : mem[id] = call.mem[id]
  BY <1>2 DEF Facts
<1>6. /\ Recorded(call.mem[call.id], a, wanted) \in Seq(Variant)
      /\ Listed(Recorded(call.mem[call.id], a, wanted), a) = {wanted} \ {Missing}
      /\ \A b \in McpAgents \ {a} :
           Listed(Recorded(call.mem[call.id], a, wanted), b) = Listed(call.mem[call.id], b)
      /\ Single(Recorded(call.mem[call.id], a, wanted))
      /\ call.mem[call.id] # << >> => Recorded(call.mem[call.id], a, wanted) # << >>
  BY <1>2, <1>3, RecordedFacts
<1>7. mem \in Facts
  BY <1>2, <1>6 DEF Facts
<1> HIDE DEF mem
<1>8. \A id \in Ids : Single(mem[id]) /\ (call.mem[id] # << >> => mem[id] # << >>)
  BY <1>2, <1>5, <1>6
<1>9. ASSUME NEW p \in trusted \cup fresh
      PROVE  Agree(mem[p[2]], p[1], section[p[1]][p[2]]) \/ p \in (McpAgents \ call.elig) \X call.dropped
  <2>1. p[1] \in McpAgents /\ p[2] \in Ids /\ p = <<p[1], p[2]>>
    BY DEF McpInv, McpTypeOK
  <2>2. CASE p \in fresh
    <3>1. p[1] = a /\ p[2] = call.id /\ section[p[1]][p[2]] = Native(a, wanted)
      BY <1>4, <2>2
    <3>2. Agree(mem[call.id], a, Native(a, wanted))
      BY <1>2, <1>3, <1>5, <1>6, AgreeOne
    <3> QED
      BY <3>1, <3>2
  <2>3. CASE p \in trusted
    <3>1. Agree(call.mem[p[2]], p[1], section[p[1]][p[2]]) \/ p \in (McpAgents \ call.elig) \X call.dropped
      BY <1>1, <2>3 DEF McpInv, ChangeSound, AgreesOn
    <3>2. p[2] # call.id \/ p[1] # a
      BY <1>4, <2>1, <2>3
    <3>3. Listed(mem[p[2]], p[1]) = Listed(call.mem[p[2]], p[1])
      BY <1>5, <1>6, <2>1, <3>2
    <3> QED
      BY <3>1, <3>3, AgreeSame
  <2> QED
    BY <2>2, <2>3
<1>10. /\ SectionsNative' /\ Singles' /\ PackageBare' /\ RegistryAgrees'
       /\ registry' \in Facts /\ trusted' \subseteq McpAgents \X Ids
       /\ \A id \in Ids : registry'[id] # << >> => mem[id] # << >> \/ id \in call.dropped
       /\ \A p \in trusted' : Agree(mem[p[2]], p[1], section[p[1]][p[2]])
                              \/ p \in (McpAgents \ call.elig) \X call.dropped
  BY <1>1, <1>2, <1>7, <1>8, <1>9, SaveKeeps
<1>11. /\ new \in ChangeCall /\ new.mem = mem /\ new.stage = "next" /\ new.todo = call.todo
       /\ new.elig = call.elig /\ new.dropped = call.dropped /\ new.delete = call.delete
  BY <1>1, <1>7 DEF ChangeCall
<1> HIDE DEF new
<1>12. CallTyped' /\ call' \notin ScanCall
  BY <1>1, <1>11 DEF CallTyped, ScanCall, ChangeCall
<1>13. McpTypeOK'
  BY <1>1, <1>10 DEF McpInv, McpTypeOK, Facts
<1>14. ChangeSound'
  BY <1>1, <1>8, <1>10, <1>11 DEF McpInv, ChangeSound, AgreesOn
<1>15. FileSound' /\ RecordSound' /\ DeleteSound'
  BY <1>1, <1>2, <1>11 DEF FileSound, RecordSound, DeleteSound
<1> QED
  BY <1>10, <1>12, <1>13, <1>14, <1>15 DEF McpInv, ScanSound

\* A deletion no Agent refused takes the server out, and the registry is saved, or not.
LEMMA EndChangeKeeps ==
  ASSUME McpInv, EndChange
  PROVE  McpInv'
<1> DEFINE mem == IF Dropped THEN [call.mem EXCEPT ![call.id] = << >>] ELSE call.mem
           dropped == call.dropped \cup (IF Dropped THEN {call.id} ELSE {})
           new == [call EXCEPT !.mem = mem, !.dropped = dropped, !.stage = "done"]
<1>1. /\ call \in ChangeCall /\ call.stage = "next" /\ call.todo = {} /\ call' = new
      /\ IF Dropped THEN Saves(mem, dropped) ELSE UNCHANGED <<registry, trusted>>
      /\ fresh' = {}
      /\ UNCHANGED <<section, file, eligible, package, calls, events>>
  BY CallKinds DEF McpInv, EndChange
<1>2. /\ call.id \in Ids /\ call.dropped \in SUBSET Ids /\ call.mem \in Facts
      /\ \A id \in Ids : call.mem[id] \in Seq(Variant) /\ Single(call.mem[id])
      /\ trusted \subseteq McpAgents \X Ids /\ fresh \subseteq McpAgents \X Ids
      /\ registry \in Facts
  BY <1>1, ChangeShape DEF McpInv, McpTypeOK
<1>3. /\ mem \in Facts /\ dropped \in SUBSET Ids /\ call.dropped \subseteq dropped
      /\ \A id \in Ids : Single(mem[id]) /\ (call.mem[id] # << >> => mem[id] # << >> \/ id \in dropped)
  <2>1. CASE Dropped
    <3>1. << >> \in Seq(Variant) /\ Single(<< >>)
      BY DEF Single
    <3> QED
      BY <1>2, <2>1, <3>1 DEF Facts
  <2>2. CASE ~Dropped
    BY <1>2, <2>2
  <2> QED
    BY <2>1, <2>2
<1>4. ASSUME NEW p \in trusted
      PROVE  Agree(call.mem[p[2]], p[1], section[p[1]][p[2]]) \/ p \in (McpAgents \ call.elig) \X call.dropped
  BY <1>1 DEF McpInv, ChangeSound, AgreesOn
<1>5. ASSUME Dropped, NEW p \in trusted \cup fresh
      PROVE  Agree(mem[p[2]], p[1], section[p[1]][p[2]]) \/ p \in (McpAgents \ call.elig) \X dropped
  <2>1. p[1] \in McpAgents /\ p[2] \in Ids /\ p = <<p[1], p[2]>> /\ call.delete /\ ~call.failed
    BY <1>2, <1>5 DEF Dropped
  <2>2. CASE p[2] = call.id
    <3>1. mem[p[2]] = << >> /\ Unlisted(<< >>, p[1]) /\ << >> \in Seq(Variant)
      BY <1>2, <1>5, <2>2 DEF Facts, Unlisted
    <3> DEFINE c == section[p[1]][p[2]]
    <3>0. Agree(<< >>, p[1], c) <=> c = Missing
      <4> DEFINE e == << >>
      <4>1. e \in Seq(Variant) /\ Unlisted(e, p[1])
        BY <3>1
      <4> HIDE DEF c, e
      <4>2. Agree(e, p[1], c) <=> c = Missing
        BY <2>1, <4>1, AgreeUnlisted
      <4> QED
        BY <4>2 DEF e
    <3> HIDE DEF mem
    <3>2. Agree(mem[p[2]], p[1], section[p[1]][p[2]]) <=> section[p[1]][p[2]] = Missing
      BY <3>0, <3>1
    <3>3. CASE p \in fresh
      BY <1>1, <2>1, <3>2, <3>3 DEF McpInv, DeleteSound
    <3>4. CASE p \in trusted /\ p[1] \notin call.elig
      BY <1>5, <2>1, <2>2, <3>4
    <3>5. CASE p \in trusted /\ p[1] \in call.elig
      <4>1. Unlisted(call.mem[p[2]], p[1])
        <5>1. <<p[1], call.id>> \in trusted /\ p[1] \in call.elig \ call.todo
          BY <1>1, <2>1, <2>2, <3>5
        <5> QED
          BY <1>1, <2>1, <2>2, <5>1 DEF McpInv, DeleteSound
      <4>2. Agree(call.mem[p[2]], p[1], section[p[1]][p[2]])
        BY <1>4, <2>1, <3>5
      <4> QED
        BY <1>2, <2>1, <3>2, <4>1, <4>2, AgreeUnlisted
    <3> QED
      BY <3>3, <3>4, <3>5
  <2>3. CASE p[2] # call.id
    <3>1. p \in trusted
      BY <1>1, <2>1, <2>3 DEF McpInv, DeleteSound
    <3>2. mem[p[2]] = call.mem[p[2]]
      BY <1>2, <2>1, <2>3 DEF Facts
    <3> QED
      BY <1>3, <1>4, <3>1, <3>2
  <2> QED
    BY <2>2, <2>3
<1>6. /\ SectionsNative' /\ Singles' /\ PackageBare' /\ RegistryAgrees'
      /\ registry' \in Facts /\ trusted' \subseteq McpAgents \X Ids
      /\ \A id \in Ids : registry'[id] # << >> => mem[id] # << >> \/ id \in dropped
      /\ \A p \in trusted' : Agree(mem[p[2]], p[1], section[p[1]][p[2]])
                             \/ p \in (McpAgents \ call.elig) \X dropped
  <2>1. CASE Dropped
    <3>1. Saves(mem, dropped) /\ UNCHANGED <<section, package>>
      BY <1>1, <2>1
    <3>2. \A p \in trusted \cup fresh : Agree(mem[p[2]], p[1], section[p[1]][p[2]])
                                        \/ p \in (McpAgents \ call.elig) \X dropped
      BY <1>5, <2>1
    <3> HIDE DEF mem, dropped
    <3> QED
      BY <1>1, <1>3, <3>1, <3>2, SaveKeeps
  <2>2. CASE ~Dropped
    <3>1. SectionsNative' /\ Singles' /\ PackageBare' /\ RegistryAgrees'
      BY <1>1, <2>2, RegistryFrame
    <3>2. \A id \in Ids : registry[id] # << >> => call.mem[id] # << >> \/ id \in call.dropped
      BY <1>1 DEF McpInv, ChangeSound
    <3> QED
      BY <1>1, <1>2, <1>4, <2>2, <3>1, <3>2
  <2> QED
    BY <2>1, <2>2
<1> HIDE DEF mem, dropped
<1>7. /\ new \in ChangeCall /\ new.mem = mem /\ new.stage = "done" /\ new.todo = {}
      /\ new.elig = call.elig /\ new.dropped = dropped /\ new.delete = call.delete
      /\ new.spec = call.spec /\ new.chosen = call.chosen
  BY <1>1, <1>3 DEF ChangeCall
<1> HIDE DEF new
<1>8. CallTyped' /\ call' \notin ScanCall
  BY <1>1, <1>7 DEF CallTyped, ScanCall, ChangeCall
<1>9. McpTypeOK'
  BY <1>1, <1>6 DEF McpInv, McpTypeOK, Facts
<1>10. ChangeSound'
  BY <1>1, <1>3, <1>6, <1>7 DEF McpInv, ChangeSound, AgreesOn
<1>11. FileSound' /\ RecordSound' /\ DeleteSound'
  BY <1>1, <1>7 DEF McpInv, FileSound, RecordSound, DeleteSound
<1> QED
  BY <1>6, <1>8, <1>9, <1>10, <1>11 DEF McpInv, ScanSound

\* A call that ends leaves what was saved.
LEMMA CallEnds ==
  ASSUME McpInv, call' = Idle, fresh' \subseteq fresh, events' \in 0 .. MaxEvents,
         UNCHANGED <<registry, section, file, eligible, package, trusted, calls>>
  PROVE  McpInv'
<1>1. call' \notin ScanCall /\ call' \notin ChangeCall
  BY DEF Idle, ScanCall, ChangeCall
<1>2. SectionsNative' /\ Singles' /\ PackageBare' /\ RegistryAgrees'
  BY RegistryFrame
<1>3. McpTypeOK'
  BY DEF McpInv, McpTypeOK
<1> QED
  BY <1>1, <1>2, <1>3
  DEF McpInv, CallTyped, ScanSound, ChangeSound, FileSound, RecordSound, DeleteSound
-----------------------------------------------------------------------------
(* Exports, imports and the rest of the world. *)

\* What does not touch the registry, the files' servers or the call keeps everything.
LEMMA Elsewhere ==
  ASSUME McpInv, UNCHANGED <<registry, section, call, fresh, trusted>>,
         PackageBare', McpTypeOK'
  PROVE  McpInv'
<1>1. SectionsNative' /\ Singles' /\ RegistryAgrees'
  BY AgreesMeans, AgreesMeansNext DEF McpInv, SectionsNative, Singles, AgreesOn
<1>2. ScanSound' /\ ChangeSound' /\ FileSound' /\ RecordSound' /\ DeleteSound' /\ CallTyped'
  BY DEF McpInv, ScanSound, ChangeSound, FileSound, RecordSound, DeleteSound, CallTyped,
         AgreesOn, Wanted
<1> QED
  BY <1>1, <1>2 DEF McpInv

\* An export lists no Agents.
LEMMA ExportKeeps ==
  ASSUME McpInv, Export
  PROVE  McpInv'
<1>1. PICK redact \in BOOLEAN : package' = Exported(redact)
  BY DEF Export
<1>2. UNCHANGED <<registry, section, file, eligible, call, fresh, trusted, calls, events>>
  BY DEF Export
<1>3. \A s \in ServerSpec : Redacted(s) \in ServerSpec
  BY DEF Redacted, ServerSpec
<1>4. ASSUME NEW id \in Ids
      PROVE  /\ package'[id] \in Seq(Variant)
             /\ \A i \in DOMAIN package'[id] : package'[id][i].agents = {}
  <2> DEFINE fact == registry[id]
             bare(i) == [spec |-> IF redact THEN Redacted(fact[i].spec) ELSE fact[i].spec, agents |-> {}]
             new == [i \in DOMAIN fact |-> bare(i)]
  <2>1. package'[id] = new
    BY <1>1 DEF Exported
  <2>2. fact \in Seq(Variant)
    BY DEF McpInv, McpTypeOK
  <2>3. Len(fact) \in Nat /\ DOMAIN fact = 1 .. Len(fact) /\ \A i \in DOMAIN fact : fact[i].spec \in ServerSpec
    BY <2>2, FactShape
  <2> HIDE DEF fact
  <2>4. \A i \in DOMAIN fact : bare(i) \in Variant /\ bare(i).agents = {}
    BY <1>3, <2>3 DEF Variant
  <2> HIDE DEF bare
  <2>5. new \in [1 .. Len(fact) -> Variant]
    BY <2>3, <2>4
  <2>6. new \in Seq(Variant) /\ \A i \in DOMAIN new : new[i].agents = {}
    BY <2>3, <2>4, <2>5
  <2> QED
    BY <2>1, <2>6
<1>5. PackageBare'
  BY <1>4 DEF PackageBare
<1>6. McpTypeOK'
  <2>1. package' = [id \in Ids |-> package'[id]]
    BY <1>1 DEF Exported
  <2>2. package' \in [Ids -> Seq(Variant)]
    BY <1>4, <2>1
  <2> QED
    BY <1>2, <2>2 DEF McpInv, McpTypeOK
<1> QED
  BY <1>2, <1>5, <1>6, Elsewhere

\* An import replaces servers and is agreed on where no file holds them.
LEMMA ImportKeeps ==
  ASSUME McpInv, Import
  PROVE  McpInv'
<1>1. /\ call = Idle /\ calls < MaxCalls /\ calls' = calls + 1
      /\ registry' = [id \in Ids |-> IF package[id] = << >> THEN registry[id] ELSE package[id]]
      /\ trusted' = {p \in trusted : package[p[2]] = << >> \/ section[p[1]][p[2]] = Missing}
      /\ UNCHANGED <<section, file, eligible, package, call, fresh, events>>
  BY DEF Import, Free
<1>2. call' \notin ScanCall /\ call' \notin ChangeCall /\ call' = Idle
  BY <1>1 DEF Idle, ScanCall, ChangeCall
<1>3. \A id \in Ids : /\ registry[id] \in Seq(Variant) /\ package[id] \in Seq(Variant)
                      /\ registry'[id] = IF package[id] = << >> THEN registry[id] ELSE package[id]
                      /\ \A a \in McpAgents : Unlisted(package[id], a)
  BY <1>1 DEF McpInv, McpTypeOK, PackageBare, Unlisted
<1>4. McpTypeOK'
  <2>1. registry' \in [Ids -> Seq(Variant)]
    BY <1>1, <1>3
  <2>2. calls' \in 0 .. MaxCalls
    BY <1>1, McpAssumption DEF McpInv, McpTypeOK
  <2> QED
    BY <1>1, <2>1, <2>2 DEF McpInv, McpTypeOK
<1>5. SectionsNative' /\ PackageBare'
  BY <1>1 DEF McpInv, SectionsNative, PackageBare
<1>6. Singles'
  <2>1. \A id \in Ids : Single(registry[id]) /\ Single(package[id])
    BY <1>3 DEF McpInv, Singles, Single, Unlisted
  <2>2. \A id \in Ids : Single(registry'[id])
    BY <1>3, <2>1
  <2> QED
    BY <2>2 DEF Singles, Single
<1>7. RegistryAgrees'
  <2>1. ASSUME NEW p \in trusted'
        PROVE  Agree(registry'[p[2]], p[1], section[p[1]][p[2]])
    <3> DEFINE c == section[p[1]][p[2]]
    <3>1. p \in trusted /\ p[1] \in McpAgents /\ p[2] \in Ids /\ (package[p[2]] = << >> \/ c = Missing)
      BY <1>1 DEF McpInv, McpTypeOK
    <3>2. CASE package[p[2]] = << >>
      <4>1. Agree(registry[p[2]], p[1], c)
        BY <3>1, AgreesMeans DEF McpInv, AgreesOn
      <4> QED
        BY <1>3, <3>1, <3>2, <4>1
    <3>3. CASE package[p[2]] # << >>
      <4>1. Agree(package[p[2]], p[1], c) <=> c = Missing
        <5> HIDE DEF c
        <5> QED
          BY <1>3, <3>1, AgreeUnlisted
      <4>2. registry'[p[2]] = package[p[2]]
        BY <1>3, <3>1, <3>3
      <4> QED
        BY <3>1, <3>3, <4>1, <4>2
    <3> QED
      BY <3>2, <3>3
  <2> QED
    BY <1>1, <2>1, AgreesMeansNext
<1> QED
  BY <1>2, <1>4, <1>5, <1>6, <1>7
  DEF McpInv, CallTyped, ScanSound, ChangeSound, FileSound, RecordSound, DeleteSound

\* A user edits one server of one file, and that pair is not trusted any more.
LEMMA EditFileKeeps ==
  ASSUME McpInv, NEW a \in McpAgents, NEW id \in Ids, NEW s \in TypedSpecs \cup {Missing},
         EditFile(a, id, s)
  PROVE  McpInv'
<1> DEFINE c == Native(a, s)
<1>1. /\ events < MaxEvents /\ events' = events + 1
      /\ section' = [section EXCEPT ![a][id] = c]
      /\ trusted' = trusted \ {<<a, id>>} /\ fresh' = fresh \ {<<a, id>>}
      /\ UNCHANGED <<registry, file, eligible, package, call, calls>>
  BY DEF EditFile, Event
<1>2. c \in ServerSpec \cup {Missing} /\ Native(a, c) = c
  BY NativeFacts DEF TypedSpecs
<1> HIDE DEF c
<1>3. /\ section \in [McpAgents -> Sections] /\ section' \in [McpAgents -> Sections]
      /\ section'[a][id] = c
      /\ \A b \in McpAgents, i \in Ids : <<b, i>> # <<a, id>> => section'[b][i] = section[b][i]
  BY <1>1, <1>2 DEF McpInv, McpTypeOK, Sections
<1>4. trusted \subseteq McpAgents \X Ids /\ fresh \subseteq McpAgents \X Ids
  BY DEF McpInv, McpTypeOK
<1>5. \A p \in trusted' \cup fresh' : section'[p[1]][p[2]] = section[p[1]][p[2]]
  BY <1>1, <1>3, <1>4
<1>6. McpTypeOK'
  BY <1>1, <1>3, McpAssumption DEF McpInv, McpTypeOK, Sections
<1>7. SectionsNative'
  BY <1>2, <1>3 DEF McpInv, SectionsNative
<1>8. Singles' /\ PackageBare' /\ CallTyped'
  BY <1>1 DEF McpInv, Singles, PackageBare, CallTyped
<1>9. RegistryAgrees'
  <2>1. \A p \in trusted : Agree(registry[p[2]], p[1], section[p[1]][p[2]])
    BY AgreesMeans DEF McpInv, AgreesOn
  <2> QED
    BY <1>1, <1>5, <2>1, AgreesMeansNext
<1>10. ScanSound'
  BY <1>1, <1>5 DEF McpInv, ScanSound, AgreesOn
<1>11. ChangeSound'
  BY <1>1, <1>5 DEF McpInv, ChangeSound, AgreesOn
<1>12. FileSound'
  <2> SUFFICES ASSUME call \in ChangeCall, call.stage = "write"
               PROVE  /\ call.agent \in call.elig
                      /\ \A i \in Ids : Native(call.agent, call.data[i]) = call.data[i]
                      /\ \A i \in Ids \ {call.id} : <<call.agent, i>> \in trusted' =>
                           call.data[i] = section'[call.agent][i]
    BY <1>1 DEF FileSound
  <2>1. ASSUME NEW i \in Ids \ {call.id}, <<call.agent, i>> \in trusted'
        PROVE  call.data[i] = section'[call.agent][i]
    <3>1. section'[call.agent][i] = section[call.agent][i]
      BY <1>5, <2>1
    <3>2. <<call.agent, i>> \in trusted
      BY <1>1, <2>1
    <3> QED
      BY <2>1, <3>1, <3>2 DEF McpInv, FileSound
  <2> QED
    BY <2>1 DEF McpInv, FileSound
<1>13. RecordSound'
  <2> SUFFICES ASSUME call \in ChangeCall, ~call.delete
               PROVE  IF call.stage = "record"
                      THEN /\ call.agent \in call.elig /\ <<call.agent, call.id>> \notin trusted'
                           /\ \A p \in fresh' : /\ p = <<call.agent, call.id>>
                                                /\ section'[call.agent][call.id] = Native(call.agent, Wanted(call.agent))
                      ELSE fresh' = {}
    BY <1>1 DEF RecordSound, Wanted
  <2>1. CASE call.stage = "record"
    <3>1. \A p \in fresh : /\ p = <<call.agent, call.id>>
                           /\ section[call.agent][call.id] = Native(call.agent, Wanted(call.agent))
      BY <2>1 DEF McpInv, RecordSound
    <3>2. \A p \in fresh' : p \in fresh
      BY <1>1
    <3>3. \A p \in fresh' : section'[call.agent][call.id] = section[call.agent][call.id]
      BY <1>5, <3>1, <3>2
    <3> QED
      BY <1>1, <2>1, <3>1, <3>2, <3>3 DEF McpInv, RecordSound
  <2>2. CASE call.stage # "record"
    BY <1>1, <2>2 DEF McpInv, RecordSound
  <2> QED
    BY <2>1, <2>2
<1>14. DeleteSound'
  BY <1>1, <1>5 DEF McpInv, DeleteSound
<1> QED
  BY <1>6, <1>7, <1>8, <1>9, <1>10, <1>11, <1>12, <1>13, <1>14 DEF McpInv

\* Damage, an Agent that comes or goes, and a step of somebody else.
LEMMA WorldKeeps ==
  ASSUME McpInv, \/ \E a \in McpAgents : Damage(a) \/ ComeOrGo(a)
                 \/ UNCHANGED mcpVars
  PROVE  McpInv'
<1>1. UNCHANGED <<registry, section, package, call, fresh, trusted, calls>>
  BY DEF Damage, ComeOrGo, mcpVars
<1>2. events' \in 0 .. MaxEvents
  BY McpAssumption DEF Damage, ComeOrGo, Event, mcpVars, McpInv, McpTypeOK
<1>3. file' \in [McpAgents -> {"ok", "broken", "closed"}] /\ eligible' \subseteq McpAgents
  BY DEF Damage, ComeOrGo, Event, mcpVars, McpInv, McpTypeOK
<1>4. McpTypeOK' /\ PackageBare'
  BY <1>1, <1>2, <1>3 DEF McpInv, McpTypeOK, PackageBare
<1> QED
  BY <1>1, <1>4, Elsewhere

\* Every step keeps the invariant.
LEMMA McpStep ==
  ASSUME McpInv, [McpNext]_mcpVars
  PROVE  McpInv'
<1>1. CASE Scan
  BY <1>1, ScanKeeps
<1>2. CASE EndScan
  BY <1>2, EndScanKeeps
<1>3. CASE Change
  BY <1>3, ChangeKeeps
<1>4. CASE WriteFails
  BY <1>4, WriteFailsKeeps
<1>5. CASE WriteFile
  BY <1>5, WriteFileKeeps
<1>6. CASE Record
  BY <1>6, RecordKeeps
<1>7. CASE EndChange
  BY <1>7, EndChangeKeeps
<1>8. CASE EndApply
  <2>1. events' \in 0 .. MaxEvents
    BY <1>8 DEF EndApply, McpInv, McpTypeOK
  <2> QED
    BY <1>8, <2>1, CallEnds DEF EndApply
<1>9. CASE Export
  BY <1>9, ExportKeeps
<1>10. CASE Import
  BY <1>10, ImportKeeps
<1>11. CASE Crash
  <2>1. events' \in 0 .. MaxEvents /\ fresh' \subseteq fresh
    BY <1>11, McpAssumption DEF Crash, Event, McpInv, McpTypeOK
  <2> QED
    BY <1>11, <2>1, CallEnds DEF Crash
<1>12. CASE \E a \in McpAgents : ReadAgent(a)
  BY <1>12, ReadAgentKeeps
<1>13. CASE \E a \in McpAgents : ReadFile(a)
  BY <1>13, ReadFileKeeps
<1>14. CASE \E a \in McpAgents : Damage(a) \/ ComeOrGo(a)
  BY <1>14, WorldKeeps
<1>15. CASE \E a \in McpAgents, id \in Ids, s \in TypedSpecs \cup {Missing} : EditFile(a, id, s)
  BY <1>15, EditFileKeeps
<1>16. CASE UNCHANGED mcpVars
  BY <1>16, WorldKeeps
<1> QED
  BY <1>1, <1>2, <1>3, <1>4, <1>5, <1>6, <1>7, <1>8, <1>9, <1>10, <1>11, <1>12, <1>13,
     <1>14, <1>15, <1>16 DEF McpNext
-----------------------------------------------------------------------------
(* What the registry promises. *)

\* Every reachable state satisfies the inductive invariant.
THEOREM McpInvariant == Sync => []McpInv
<1>1. McpInit => McpInv
  BY McpStarts
<1>2. McpInv /\ [McpNext]_mcpVars => McpInv'
  BY McpStep
<1> QED
  BY <1>1, <1>2, PTL DEF Sync

\* The registry, the files and the call keep their types, and an Agent runs at most
\* one variant of a server (mcp.go:328, GetMCP).
THEOREM RegistryStaysSafe == Sync => []RegistrySafe
<1>1. McpInv => RegistrySafe
  <2> SUFFICES ASSUME McpInv PROVE RegistrySafe
    OBVIOUS
  <2>1. OneVariantPerAgent
    BY DEF McpInv, Singles, Single, OneVariantPerAgent, Detail
  <2> QED
    BY <2>1 DEF RegistrySafe, McpInv
<1> QED
  BY <1>1, McpInvariant, PTL

\* Whatever fails, is damaged, crashes or is edited, the registry says of every pair
\* it brought in line what the Agent's file holds (mcp.go:261-493).
THEOREM RegistryFollowsFiles == Sync => []RegistryAgrees
<1>1. McpInv => RegistryAgrees
  BY DEF McpInv
<1> QED
  BY <1>1, McpInvariant, PTL

\* A step that takes a server from the registry is a deletion no Agent refused, or
\* a later change of the request that made one.
LEMMA OnlyDeletionsRemove ==
  ASSUME McpInv, McpInv', [McpNext]_mcpVars, NEW id \in Ids,
         registry[id] # << >>, registry'[id] = << >>
  PROVE  call'.op = "change" /\ id \in call'.dropped
<1> USE DEF McpInv
<1>0. registry' # registry
  OBVIOUS
<1>1. CASE EndScan
  <2>1. call \in ScanCall
    BY <1>1, CallKinds DEF EndScan
  <2>2. call.mem[id] \in Seq(Variant) /\ call.mem[id] # << >>
    BY <2>1 DEF ScanSound, ScanCall, Facts
  <2>3. registry'[id] = Collapse(call.mem[id])
    BY <1>0, <1>1 DEF EndScan
  <2> QED
    BY <2>2, <2>3, CollapseFacts
<1>2. CASE Record
  <2> DEFINE a == call.agent
             wanted == Wanted(a)
             mem == [call.mem EXCEPT ![call.id] = Recorded(@, a, wanted)]
  <2>1. /\ call \in ChangeCall /\ call'.op = "change" /\ call'.dropped = call.dropped
        /\ Saves(mem, call.dropped)
    BY <1>2, CallKinds DEF Record, ChangeCall
  <2>2. registry'[id] = mem[id]
    BY <1>0, <2>1 DEF Saves
  <2>3. /\ call.mem \in Facts /\ call.mem[call.id] \in Seq(Variant) /\ call.id \in Ids
        /\ wanted \in ServerSpec \cup {Missing} /\ a \in McpAgents
    BY <1>2, <2>1, ChangeShape DEF RecordSound, DeleteSound, Record, Wanted
  <2>4. call.mem[call.id] # << >> => Recorded(call.mem[call.id], a, wanted) # << >>
    BY <2>3, RecordedFacts
  <2>5. call.mem[id] = << >>
    BY <2>2, <2>3, <2>4 DEF Facts
  <2> QED
    BY <2>1, <2>5 DEF ChangeSound
<1>3. CASE EndChange
  <2> DEFINE mem == [call.mem EXCEPT ![call.id] = << >>]
             dropped == call.dropped \cup {call.id}
  <2>1. Dropped /\ call \in ChangeCall /\ Saves(mem, dropped)
    BY <1>0, <1>3, CallKinds DEF EndChange
  <2>2. registry'[id] = mem[id]
    BY <1>0, <2>1 DEF Saves
  <2>3. call'.op = "change" /\ call'.dropped = dropped
    BY <1>3, <2>1 DEF EndChange, ChangeCall
  <2>4. id = call.id \/ call.mem[id] = << >>
    BY <2>1, <2>2, ChangeShape DEF Facts
  <2> QED
    BY <2>1, <2>3, <2>4 DEF ChangeSound
<1>4. CASE Import
  BY <1>4 DEF Import
<1>5. CASE ~(EndScan \/ Record \/ EndChange \/ Import)
  BY <1>0, <1>5 DEF McpNext, mcpVars, Scan, Change, WriteFails, WriteFile, EndApply, Export,
     Crash, ReadAgent, ReadFile, Damage, ComeOrGo, EditFile
<1> QED
  BY <1>1, <1>2, <1>3, <1>4, <1>5

\* No other call takes a server out of the registry: scans, changes and imports keep
\* it at least as a draft (mcp.go:247, 442, 472).
THEOREM DraftsStay == Sync => DraftsKept
<1>1. McpInv /\ McpInv' /\ [McpNext]_mcpVars =>
        [\A id \in Ids : registry[id] # << >> /\ registry'[id] = << >> =>
           call'.op = "change" /\ id \in call'.dropped]_mcpVars
  BY OnlyDeletionsRemove
<1> QED
  BY <1>1, McpInvariant, PTL DEF Sync, DraftsKept
=============================================================================
