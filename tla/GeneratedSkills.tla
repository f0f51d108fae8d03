--------------------------- MODULE GeneratedSkills --------------------------
(***************************************************************************)
(* The Skills BootAgent writes for a Provider's models, and the Provider   *)
(* keys their scripts read (src/internal/app/multimodal_install.go,        *)
(* provider.go, src/internal/config/skill_env.go).  A variant names the    *)
(* Provider and the endpoint it sends to; the key reaches it through the   *)
(* Agent's own environment (Native) or through one private file per        *)
(* Provider (the others, and the guide).  A Provider edit renders the      *)
(* variants again and then writes the keys, one place at a time: a         *)
(* directory the user edited is left alone, and any write may fail.  A     *)
(* process that dies leaves what it leaves when every later write fails.   *)
(***************************************************************************)
EXTENDS Naturals, FiniteSets

CONSTANTS
  Native, Plain, Guide,    \* Agents with an environment, those without, the guide
  Providers, Skills,       \* one Skill per capability
  Endpoints, None,
  Edited,                  \* the Providers that are edited and probed (bound)
  MaxKey,                  \* keys are 1 .. MaxKey, 0 is no key
  MaxSaves, MaxEdits,      \* bounds
  Misses                   \* writes of one step that fail, short of all of them (bound)

Agents == Native \cup Plain
Places == Agents \cup {Guide}
Keys == 0..MaxKey
Entry == [base : Endpoints, key : Keys]
Variant == Providers \X Endpoints
Tree == [of : Variant, edited : BOOLEAN] \cup {None}
Fresh(v) == [of |-> v, edited |-> FALSE]
Fact == [known : SUBSET Variant, managed : [Agents -> Variant \cup {None}]]

ASSUME GeneratedAssumption ==
  /\ None \notin Providers \cup Variant \cup Entry \cup [of : Variant, edited : BOOLEAN]
  /\ Guide \notin Agents /\ Native \cap Plain = {} /\ Edited \subseteq Providers /\ MaxKey \in Nat \ {0}

VARIABLES
  prov,      \* providers.json
  verdicts,  \* capabilities.json: the fingerprint, and the entries that were probed
  reg,       \* skill-registry.json, the generated Skills of it
  tree,      \* what stands in the directory of each Agent, and in the guide's
  env,       \* the variables in the configuration of the native Agents
  file,      \* the fallback file of each Provider
  probe,     \* a probe in flight
  install,   \* an install that has its evidence and waits for writeMu
  call,      \* the call that holds writeMu
  since,     \* the endpoints saved with a key or after it
  stale,     \* places whose key the last change has not reached
  saves, edits

vars == <<prov, verdicts, reg, tree, env, file, probe, install, call, since, stale, saves, edits>>

Idle == [op |-> "idle"]
-----------------------------------------------------------------------------
(* What the registry, the trees and the Providers say.                     *)

\* The guide has no registry record: its hash is a variant's, or it is nobody's.
GuideVariant(f, t) == IF t # None /\ ~t.edited /\ t.of \in f.known THEN t.of ELSE None

At(c, x) == IF x = Guide THEN GuideVariant(reg[c], tree[c][Guide]) ELSE reg[c].managed[x]

Uses(c, v) == {x \in Places : At(c, x) = v}
Using(p) == {t \in Skills \X Variant : t[2] \in reg[t[1]].known /\ t[2][1] = p /\ Uses(t[1], t[2]) # {}}

Matches(v) == prov[v[1]] # None /\ prov[v[1]].base = v[2]

\* The variants of p at the places X.
Served(p, X) == {v \in Variant : v[1] = p /\ \E c \in Skills, x \in X : At(c, x) = v}

\* Refuted variant of Wanted: a lagging variant does not hold the key back.
WantedAnyway(p, X) == IF prov[p] # None /\ Served(p, X) # {} THEN prov[p].key ELSE 0

\* The key for p at the places that share one variable: none while one of them lags.
Wanted(p, X) ==
  IF prov[p] # None /\ Served(p, X) # {} /\ (\A v \in Served(p, X) : Matches(v)) THEN prov[p].key ELSE 0

WantedEnv(a) == [p \in Providers |-> Wanted(p, {a})]
WantedFile(p) == Wanted(p, Plain \cup {Guide})

\* The script of every tree (run.mjs): the variable, or the file if it is not set.
Resolved(x) == [p \in Providers |-> IF x \in Native /\ env[x][p] # 0 THEN env[x][p] ELSE file[p]]

\* Some Skills of an edited Provider's life: installed, their keys written.
Init ==
  /\ \E e \in Endpoints : prov = [p \in Providers |-> [base |-> e, key |-> 1]]
  /\ \E at \in [Skills -> [Places -> Edited \cup {None}]] :
       LET v == [c \in Skills |-> [x \in Places |-> IF at[c][x] = None THEN None ELSE <<at[c][x], prov[at[c][x]].base>>]] IN
       /\ tree = [c \in Skills |-> [x \in Places |-> IF v[c][x] = None THEN None ELSE Fresh(v[c][x])]]
       /\ reg = [c \in Skills |-> [known |-> {v[c][x] : x \in Places} \ {None},
                                   managed |-> [a \in Agents |-> v[c][a]]]]
  /\ env = [a \in Native |-> WantedEnv(a)]
  /\ file = [p \in Providers |-> WantedFile(p)]
  /\ verdicts = [p \in Providers |-> [entry |-> None, about |-> {}]]
  /\ since = [p \in Providers |-> [k \in Keys |-> IF k = 1 THEN {prov[p].base} ELSE {}]]
  /\ probe = None /\ install = None /\ call = Idle
  /\ stale = {} /\ saves = 0 /\ edits = 0
-----------------------------------------------------------------------------
(* Probes and their cache.                                                 *)

\* ProbeMultimodal reads the Provider and sends a request; no lock is held.  The
\* probes of interest are those a change overtakes (a bound: they start before it).
ProbeStart(p) ==
  /\ call = Idle /\ probe = None /\ install = None /\ saves = 0
  /\ prov[p] # None /\ prov[p].key # 0 /\ verdicts[p].entry # prov[p]
  /\ probe' = [of |-> p, entry |-> prov[p]]
  /\ UNCHANGED <<prov, verdicts, reg, tree, env, file, install, call, since, stale, saves, edits>>

\* SaveModality: records made for another fingerprint are dropped.
Recorded(saved, e) ==
  IF saved.entry = e THEN [saved EXCEPT !.about = @ \cup {e}] ELSE [entry |-> e, about |-> {e}]

\* The answer, however late: it is filed under the entry that was probed.
ProbeEnd ==
  /\ call = Idle /\ saves < MaxSaves /\ probe # None /\ probe' = None
  /\ \/ verdicts' = [verdicts EXCEPT ![probe.of] = Recorded(@, probe.entry)]
     \/ UNCHANGED verdicts
  /\ UNCHANGED <<prov, reg, tree, env, file, install, call, since, stale, saves, edits>>
-----------------------------------------------------------------------------
(* InstallMultimodal.                                                      *)

\* Modalities: a cache of another fingerprint is a miss, and the models are listed.
Evidence(p) == IF verdicts[p].entry = prov[p] THEN verdicts[p].about ELSE {prov[p]}

InstallAsk(p, c, X) ==
  /\ call = Idle /\ install = None /\ prov[p] # None /\ prov[p].key # 0 /\ X # {} /\ saves < MaxSaves
  /\ (Cardinality(X) > 1 => X = Places)
  /\ install' = [of |-> p, entry |-> prov[p], skill |-> c, places |-> X, evidence |-> Evidence(p)]
  /\ UNCHANGED <<prov, verdicts, reg, tree, env, file, probe, call, since, stale, saves, edits>>

\* Refuted variant of Unchanged: the entry may have been edited since.
UnchangedOrThere(i) == prov[i.of] # None

\* The entry read under the lock is the one the evidence is about.
Unchanged(i) == prov[i.of] = i.entry

Todo(c, v, X) == [skill |-> c, variant |-> v, places |-> X]

InstallStart ==
  /\ install # None /\ call = Idle /\ saves < MaxSaves /\ install' = None
  /\ IF Unchanged(install)
     THEN /\ call' = [op |-> "install", p |-> install.of, evidence |-> install.evidence,
                      todo |-> {Todo(install.skill, <<install.of, install.entry.base>>, install.places)}]
          /\ saves' = saves + 1
          /\ stale' = stale \cup Native \cup Providers
     ELSE UNCHANGED <<call, saves, stale>>
  /\ UNCHANGED <<prov, verdicts, reg, tree, env, file, probe, since, edits>>
-----------------------------------------------------------------------------
(* SaveProvider, SaveKey and DeleteProvider.                               *)

Later(s, k, e) == [j \in Keys |-> IF j = k \/ s[j] # {} THEN s[j] \cup {e} ELSE {}]

\* The Agents and files that reconcileSkillEnvLocked(p) will write.
Reached(p) == {a \in Native : \E c \in Skills : reg[c].managed[a] # None /\ reg[c].managed[a][1] = p} \cup {p}

\* The record first, then every variant that some place still runs.
Save(p, e, k) ==
  /\ call = Idle /\ saves < MaxSaves /\ saves' = saves + 1
  /\ prov' = [prov EXCEPT ![p] = [base |-> e, key |-> k]]
  /\ since' = [since EXCEPT ![p] = Later(@, k, e)]
  /\ IF Using(p) = {}
     THEN UNCHANGED <<call, stale>>
     ELSE /\ call' = [op |-> "save", p |-> p, evidence |-> {},
                      todo |-> {Todo(t[1], <<p, e>>, Uses(t[1], t[2])) : t \in {u \in Using(p) : u[2][2] # e}}]
          /\ stale' = stale \cup Reached(p)
  /\ UNCHANGED <<verdicts, reg, tree, env, file, probe, install, edits>>

Deletable(p) == prov[p] # None /\ Using(p) = {}

DeleteProvider(p) ==
  /\ call = Idle /\ saves < MaxSaves /\ saves' = saves + 1 /\ Deletable(p)
  /\ prov' = [prov EXCEPT ![p] = None]
  /\ UNCHANGED <<verdicts, reg, tree, env, file, probe, install, call, since, stale, edits>>
-----------------------------------------------------------------------------
(* publishGeneratedLocked: store the variant, then each place.             *)

\* Refuted variant of Replaceable: whatever is there is replaced.
ReplaceableAlways(t, f) == TRUE

\* verifyGeneratedTarget.
Replaceable(t, f) == (t # None => ~t.edited /\ t.of \in f.known)

Stored(f, v) == [f EXCEPT !.known = @ \cup {v}]

\* The Agents X leave the other variants of the Skill.
Follows(f, X, v) == [f EXCEPT !.managed = [a \in Agents |-> IF a \in X THEN v ELSE @[a]]]

Mostly(X) == {Y \in SUBSET X : Y = {} \/ Cardinality(X \ Y) <= Misses}

\* Some of the places are written; the others are refused, or fail.  The registry
\* is saved after each and may have missed the last ones (every choice of them).
PublishTo(t) ==
  LET c == t.skill  v == t.variant  f == Stored(reg[c], v) IN
  \E X \in Mostly({x \in t.places : Replaceable(tree[c][x], f)}) : \E S \in Mostly(X \ {Guide}) :
    /\ tree' = [tree EXCEPT ![c] = [x \in Places |-> IF x \in X THEN Fresh(v) ELSE @[x]]]
    /\ reg' = [reg EXCEPT ![c] = Follows(f, S, v)]

\* Nothing is published unless the registry was read and saved with the variant in it.
Publish ==
  /\ call # Idle
  /\ \E t \in call.todo : /\ call' = [call EXCEPT !.todo = @ \ {t}]
                         /\ (PublishTo(t) \/ UNCHANGED <<reg, tree>>)
  /\ UNCHANGED <<prov, verdicts, env, file, probe, install, since, stale, saves, edits>>

\* A removal (UninstallSkill, or ApplySkills for some Agents): copies that were
\* not edited go; with the last one the guide and the entry go too.
Remove(c, X) ==
  /\ call = Idle /\ saves < MaxSaves /\ saves' = saves + 1
  /\ X # {} /\ \A a \in X : reg[c].managed[a] # None /\ tree[c][a] \in {None, Fresh(reg[c].managed[a])}
  /\ LET left == {a \in Agents \ X : reg[c].managed[a] # None}
         gone == X \cup (IF left = {} /\ At(c, Guide) # None THEN {Guide} ELSE {})
     IN /\ tree' = [tree EXCEPT ![c] = [x \in Places |-> IF x \in gone THEN None ELSE @[x]]]
        /\ reg' = [reg EXCEPT ![c] = [known |-> IF left = {} THEN {} ELSE @.known,
                                      managed |-> [a \in Agents |-> IF a \in X THEN None ELSE @.managed[a]]]]
  /\ call' = [op |-> "remove", p |-> None, evidence |-> {}, todo |-> {}]
  /\ stale' = stale \cup Native \cup Providers
  /\ UNCHANGED <<prov, verdicts, env, file, probe, install, since, edits>>
-----------------------------------------------------------------------------
(* reconcileSkillEnvLocked.                                                *)

Written(op, p) == IF op = "save" THEN Reached(p) ELSE Native \cup Providers

\* Refuted variant of EnvWritten: variables nothing needs any more stay.
EnvKept(old, new) == [p \in Providers |-> IF new[p] = 0 THEN old[p] ELSE new[p]]

\* The variables become exactly the wanted ones; the file is written or removed.
EnvWritten(old, new) == new
FileWritten(old, new) == new

\* What every place should hold is settled from the registry on disk; then the
\* configurations and the files are written or cleared, each unless it fails.
Reconcile ==
  /\ call # Idle /\ call.todo = {} /\ call' = Idle
  /\ \E done \in Mostly(Written(call.op, call.p)) :
       /\ env' = [a \in Native |-> IF a \in done THEN EnvWritten(env[a], WantedEnv(a)) ELSE env[a]]
       /\ file' = [p \in Providers |-> IF p \in done THEN FileWritten(file[p], WantedFile(p)) ELSE file[p]]
       /\ stale' = stale \ done
  /\ UNCHANGED <<prov, verdicts, reg, tree, probe, install, since, saves, edits>>
-----------------------------------------------------------------------------
(* Users.  A call settles what it reads of a directory once, so an edit,   *)
(* like a probe or the evidence of an install, is placed between two calls. *)

Edit(c, x) ==
  /\ call = Idle /\ saves < MaxSaves /\ edits < MaxEdits /\ edits' = edits + 1
  /\ tree[c][x] # None /\ ~tree[c][x].edited
  /\ tree' = [tree EXCEPT ![c][x].edited = TRUE]
  /\ stale' = IF x = Guide THEN stale \cup {tree[c][x].of[1]} ELSE stale
  /\ UNCHANGED <<prov, verdicts, reg, env, file, probe, install, call, since, saves>>

Next ==
  \/ \E p \in Edited : ProbeStart(p) \/ DeleteProvider(p)
  \/ \E p \in Providers, c \in Skills, X \in SUBSET Places : InstallAsk(p, c, X)
  \/ \E p \in Edited, e \in Endpoints, k \in Keys : Save(p, e, k)
  \/ \E c \in Skills, X \in SUBSET Agents : Remove(c, X)
  \/ \E c \in Skills, x \in Places : Edit(c, x)
  \/ ProbeEnd \/ InstallStart \/ Publish \/ Reconcile

Spec == Init /\ [][Next]_vars
-----------------------------------------------------------------------------
(* Properties.                                                             *)

TypeOK ==
  /\ prov \in [Providers -> Entry \cup {None}]
  /\ verdicts \in [Providers -> [entry : Entry \cup {None}, about : SUBSET Entry]]
  /\ reg \in [Skills -> Fact] /\ tree \in [Skills -> [Places -> Tree]]
  /\ env \in [Native -> [Providers -> Keys]] /\ file \in [Providers -> Keys]
  /\ \A c \in Skills, a \in Agents : reg[c].managed[a] # None => reg[c].managed[a] \in reg[c].known

\* A key the user saved for an endpoint is never handed to a tree that still
\* sends to an endpoint of before: not in an Agent's own variables, and not in
\* the file that Agents without them and the guide read.  The tree is one that
\* the registry knows to be there, edited or not.
Follow(c, x, k) ==
  LET v == At(c, x) IN
  v # None /\ tree[c][x] # None /\ tree[c][x].of = v /\ k[v[1]] # 0 => v[2] \in since[v[1]][k[v[1]]]

NewKeyStaysAway ==
  /\ \A c \in Skills, a \in Native : Follow(c, a, env[a])
  /\ \A c \in Skills, x \in Plain \cup {Guide} : Follow(c, x, file)

\* ... and so wherever the script of a tree takes its key from.
KeyStaysWithEndpoint == \A c \in Skills, x \in Places : Follow(c, x, Resolved(x))

\* Once every write of a change was made, a key stands only where a Skill of its
\* Provider is installed: it went with the last one.
NeededBy(p, X) == \E c \in Skills, x \in X : At(c, x) # None /\ At(c, x)[1] = p
KeyGoesWithLastSkill ==
  call = Idle =>
    /\ \A a \in Native \ stale : \A p \in Providers : env[a][p] # 0 => NeededBy(p, {a})
    /\ \A p \in Providers \ stale : file[p] # 0 => NeededBy(p, Plain \cup {Guide})

\* ... and it is the Provider's current key.
KeyIsCurrent ==
  call = Idle =>
    /\ \A a \in Native \ stale : \A p \in Providers : env[a][p] # 0 => prov[p] # None /\ env[a][p] = prov[p].key
    /\ \A p \in Providers \ stale : file[p] # 0 => prov[p] # None /\ file[p] = prov[p].key

\* An install goes by evidence about the Provider as it is, whatever probes of
\* earlier entries answered meanwhile.
EvidenceIsCurrent == call.op = "install" => call.evidence = {prov[call.p]}

\* No Skill is left bound to a Provider that is gone.
ProviderStays == \A c \in Skills, x \in Places : At(c, x) # None => prov[At(c, x)[1]] # None

\* What the user changed in a directory is not overwritten.
EditsKept ==
  [][\A c \in Skills, x \in Places :
       tree[c][x] # None /\ tree[c][x].edited /\ edits' = edits => tree'[c][x] = tree[c][x]]_vars

\* Once every write of a change was made, the keys that stand in variables and fallback
\* files are the current ones of Providers whose Skills are installed there.
KeysFollow == KeyGoesWithLastSkill /\ KeyIsCurrent

\* What every reachable state keeps: types, Skills with a Provider, and installs that go
\* by evidence about the Provider as it is.
SkillsSafe == TypeOK /\ ProviderStays /\ EvidenceIsCurrent
=============================================================================
