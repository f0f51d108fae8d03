------------------------ MODULE GeneratedSkillsProofs ------------------------
(***************************************************************************)
(* Theorems about GeneratedSkills, for any number of Agents, Providers,    *)
(* Skills, keys and edits, whatever fails.                                 *)
(***************************************************************************)
EXTENDS GeneratedSkills, TLAPS

Tasks == [skill : Skills, variant : Variant, places : SUBSET Places]
Calls == [op : {"install", "save", "remove"}, p : Providers \cup {None}, evidence : SUBSET Entry, todo : SUBSET Tasks]
Asks == [of : Providers, entry : Entry, skill : Skills, places : SUBSET Places, evidence : SUBSET Entry]

Types ==
  /\ TypeOK
  /\ since \in [Providers -> [Keys -> SUBSET Endpoints]]
  /\ call \in {Idle} \cup Calls /\ install \in {None} \cup Asks
  /\ probe \in {None} \cup [of : Providers, entry : Entry]
  /\ edits \in Nat

\* Evidence is about the entry it is filed under.
Evident ==
  /\ \A p \in Providers : verdicts[p].entry # None => verdicts[p].about = {verdicts[p].entry}
  /\ install # None => install.evidence = {install.entry}
  /\ EvidenceIsCurrent

\* A key was saved for the present endpoint, or before it and still goes with it.
Since ==
  \A p \in Providers : prov[p] # None =>
    /\ since[p][prov[p].key] # {}
    /\ \A k \in Keys : since[p][k] # {} => prov[p].base \in since[p][k]

\* A key that stands somewhere was saved some time.
Known ==
  /\ \A a \in Native, p \in Providers : env[a][p] # 0 => since[p][env[a][p]] # {}
  /\ \A p \in Providers : file[p] # 0 => since[p][file[p]] # {}

\* A key that stands where the last change has reached is current and needed.
Right(p, k, X) == k # 0 => NeededBy(p, X) /\ prov[p] # None /\ k = prov[p].key
Settled ==
  /\ \A a \in Native \ stale, p \in Providers : Right(p, env[a][p], {a})
  /\ \A p \in Providers \ stale : Right(p, file[p], Plain \cup {Guide})

\* The Skill at a place is one of p.
Runs(p, c, x) == At(c, x) # None /\ At(c, x)[1] = p

\* What the call that holds writeMu is about: variants of the Provider as it is, for
\* places that run the Provider already, or with every key to be written again.
Working ==
  call # Idle =>
    /\ call.op = "remove" => call.todo = {}
    /\ call.op # "remove" =>
         /\ call.p \in Providers /\ prov[call.p] # None
         /\ \A t \in call.todo : t.variant = <<call.p, prov[call.p].base>>
    /\ call.op # "save" => Native \cup Providers \subseteq stale
    /\ call.op = "save" =>
         /\ call.p \in stale
         /\ \A t \in call.todo : \A x \in t.places : Runs(call.p, t.skill, x) /\ (x \in Native => x \in stale)

IInv == Types /\ Evident /\ ProviderStays /\ Since /\ Known /\ NewKeyStaysAway /\ Settled /\ Working
-----------------------------------------------------------------------------
(* Places and variants.                                                    *)

LEMMA PlacesApart == /\ Guide \notin Agents /\ Agents \subseteq Places /\ Guide \in Places
                     /\ Native \subseteq Agents /\ Plain \subseteq Agents
BY GeneratedAssumption DEF Agents, Places

LEMMA VariantTyped ==
  /\ None \notin Variant /\ None \notin Entry
  /\ \A v \in Variant : v[1] \in Providers /\ v[2] \in Endpoints /\ v = <<v[1], v[2]>>
  /\ \A p \in Providers, e \in Endpoints : <<p, e>> \in Variant /\ <<p, e>>[1] = p /\ <<p, e>>[2] = e
BY GeneratedAssumption DEF Variant

\* A place runs a variant its Skill's entry knows, or nothing.
LEMMA AtTyped ==
  ASSUME TypeOK, NEW c \in Skills, NEW x \in Places
  PROVE  At(c, x) # None => At(c, x) \in reg[c].known /\ At(c, x) \in Variant
<1>1. reg[c] \in Fact /\ reg[c].known \subseteq Variant
  BY DEF TypeOK, Fact
<1>2. CASE x = Guide
  BY <1>1, <1>2 DEF At, GuideVariant
<1>3. CASE x # Guide
  BY <1>1, <1>3 DEF At, TypeOK, Places
<1>. QED
  BY <1>2, <1>3

\* A Provider whose Skill is at a place is in use.
LEMMA UsingThere ==
  ASSUME TypeOK, NEW c \in Skills, NEW x \in Places, NEW p, Runs(p, c, x)
  PROVE  Using(p) # {}
<1>1. PICK v \in Variant : v = At(c, x) /\ v \in reg[c].known /\ v[1] = p
  BY AtTyped DEF Runs
<1>2. x \in Uses(c, v)
  BY <1>1 DEF Uses
<1>3. PICK t : t = <<c, v>>
  OBVIOUS
<1>4. t \in Skills \X Variant /\ t[1] = c /\ t[2] = v
  BY <1>1, <1>3
<1>. QED
  BY <1>1, <1>2, <1>4 DEF Using

\* The variants that places X of p run.
LEMMA ServedRuns ==
  ASSUME TypeOK, NEW p \in Providers, NEW X \in SUBSET Places, NEW c \in Skills, NEW x \in X, Runs(p, c, x)
  PROVE  At(c, x) \in Served(p, X)
BY AtTyped DEF Served, Runs

\* A wanted key is the Provider's, is needed, and every Skill there sends to its endpoint.
LEMMA WantedKey ==
  ASSUME TypeOK, NEW p \in Providers, NEW X \in SUBSET Places, NEW k, k = Wanted(p, X)
  PROVE  /\ k \in Keys
         /\ Right(p, k, X)
         /\ k # 0 => \A c \in Skills, x \in X : Runs(p, c, x) => At(c, x)[2] = prov[p].base
<1>1. 0 \in Keys
  BY GeneratedAssumption DEF Keys
<1>2. CASE prov[p] # None /\ Served(p, X) # {} /\ (\A v \in Served(p, X) : Matches(v))
  <2>1. k = prov[p].key
    BY <1>2 DEF Wanted
  <2>2. k \in Keys
    BY <1>2, <2>1 DEF TypeOK, Entry
  <2>3. NeededBy(p, X)
    BY <1>2, VariantTyped DEF Served, NeededBy
  <2>4. ASSUME NEW c \in Skills, NEW x \in X, Runs(p, c, x) PROVE At(c, x)[2] = prov[p].base
    <3>1. At(c, x) \in Served(p, X)
      BY <2>4, ServedRuns
    <3>2. At(c, x)[1] = p
      BY <2>4 DEF Runs
    <3>. QED
      BY <1>2, <3>1, <3>2 DEF Matches
  <2>. QED
    BY <1>2, <2>1, <2>2, <2>3, <2>4 DEF Right
<1>3. CASE ~(prov[p] # None /\ Served(p, X) # {} /\ (\A v \in Served(p, X) : Matches(v)))
  <2>1. k = 0
    BY <1>3 DEF Wanted
  <2>. QED
    BY <1>1, <2>1 DEF Right
<1>. QED
  BY <1>2, <1>3

\* A tree that was just written sends to its variant's endpoint.
LEMMA FreshTyped ==
  ASSUME NEW v \in Variant
  PROVE  Fresh(v) \in Tree /\ Fresh(v) # None /\ Fresh(v).of = v /\ Fresh(v).edited = FALSE
<1>1. Fresh(v) \in [of : Variant, edited : BOOLEAN] /\ Fresh(v).of = v /\ Fresh(v).edited = FALSE
  BY DEF Fresh
<1>. QED
  BY <1>1, GeneratedAssumption DEF Tree

\* Keys keep the endpoints they were saved for when others are added.
LEMMA KeysGrow ==
  ASSUME IInv, UNCHANGED <<reg, tree, env, file>>,
         since' \in [Providers -> [Keys -> SUBSET Endpoints]],
         \A q \in Providers, j \in Keys : since[q][j] \subseteq since'[q][j]
  PROVE  Known' /\ NewKeyStaysAway'
<1>1. /\ \A a \in Native, q \in Providers : env[a][q] \in Keys
      /\ \A q \in Providers : file[q] \in Keys
  BY DEF IInv, Types, TypeOK
<1>2. Known'
  BY <1>1 DEF IInv, Known
<1>3. ASSUME NEW c \in Skills, NEW x \in Places, NEW k, \A q \in Providers : k[q] \in Keys, Follow(c, x, k)
      PROVE  Follow(c, x, k)'
  <2>1. At(c, x)' = At(c, x)
    BY DEF At, GuideVariant
  <2>2. At(c, x) # None => At(c, x)[1] \in Providers
    BY AtTyped, VariantTyped DEF IInv, Types
  <2>. QED
    BY <1>3, <2>1, <2>2 DEF Follow
<1>4. NewKeyStaysAway'
  <2>1. ASSUME NEW c \in Skills, NEW a \in Native PROVE Follow(c, a, env[a])'
    <3>1. PICK k : k = env[a]
      OBVIOUS
    <3>2. Follow(c, a, k) /\ a \in Places /\ \A q \in Providers : k[q] \in Keys
      BY <1>1, <3>1, PlacesApart DEF IInv, NewKeyStaysAway
    <3>3. Follow(c, a, k)'
      BY <1>3, <3>2
    <3>. QED
      BY <3>1, <3>3
  <2>2. ASSUME NEW c \in Skills, NEW x \in Plain \cup {Guide} PROVE Follow(c, x, file)'
    <3>1. PICK k : k = file
      OBVIOUS
    <3>2. Follow(c, x, k) /\ x \in Places /\ \A q \in Providers : k[q] \in Keys
      BY <1>1, <3>1, PlacesApart DEF IInv, NewKeyStaysAway
    <3>3. Follow(c, x, k)'
      BY <1>3, <3>2
    <3>. QED
      BY <3>1, <3>3
  <2>. QED
    BY <2>1, <2>2 DEF NewKeyStaysAway
<1>. QED
  BY <1>2, <1>4
-----------------------------------------------------------------------------
(* Probes, and installs that begin.                                        *)

\* A step that leaves Providers, Skills, keys and the running call alone.
LEMMA QuietStep ==
  ASSUME IInv, UNCHANGED <<prov, reg, tree, env, file, call, since, stale, edits>>,
         verdicts' \in [Providers -> [entry : Entry \cup {None}, about : SUBSET Entry]],
         install' \in {None} \cup Asks, probe' \in {None} \cup [of : Providers, entry : Entry],
         \A p \in Providers : verdicts'[p].entry # None => verdicts'[p].about = {verdicts'[p].entry},
         install' # None => install'.evidence = {install'.entry}
  PROVE  IInv'
<1>1. Types'
  BY DEF IInv, Types, TypeOK
<1>2. Evident'
  BY DEF IInv, Evident, EvidenceIsCurrent
<1>3. ProviderStays' /\ Since'
  BY DEF IInv, ProviderStays, Since, At, GuideVariant
<1>4. Known' /\ NewKeyStaysAway'
  BY KeysGrow DEF IInv, Types
<1>5. Settled'
  BY DEF IInv, Settled, Right, NeededBy, At, GuideVariant
<1>6. Working'
  BY DEF IInv, Working, Runs, At, GuideVariant
<1>. QED
  BY <1>1, <1>2, <1>3, <1>4, <1>5, <1>6 DEF IInv

\* An entry of the cache is about what it is filed under.
LEMMA RecordedTyped ==
  ASSUME NEW s \in [entry : Entry \cup {None}, about : SUBSET Entry], NEW e \in Entry,
         s.entry # None => s.about = {s.entry}
  PROVE  LET t == Recorded(s, e) IN
         t \in [entry : Entry \cup {None}, about : SUBSET Entry] /\ t.entry = e /\ t.about = {e}
BY VariantTyped DEF Recorded

LEMMA ProbeSteps ==
  ASSUME IInv, \/ \E p \in Edited : ProbeStart(p)
               \/ ProbeEnd
  PROVE  IInv'
<1>1. CASE \E p \in Edited : ProbeStart(p)
  <2>1. PICK p \in Edited : ProbeStart(p)
    BY <1>1
  <2>2. p \in Providers /\ prov[p] \in Entry
    BY <2>1, GeneratedAssumption DEF ProbeStart, IInv, Types, TypeOK
  <2>3. probe' \in [of : Providers, entry : Entry]
    BY <2>1, <2>2 DEF ProbeStart
  <2>. QED
    BY <2>1, <2>3, QuietStep DEF ProbeStart, IInv, Types, TypeOK, Evident
<1>2. CASE ProbeEnd
  <2>1. probe \in [of : Providers, entry : Entry]
    BY <1>2 DEF ProbeEnd, IInv, Types
  <2>2. PICK p \in Providers, e \in Entry : p = probe.of /\ e = probe.entry
    BY <2>1
  <2>3. verdicts \in [Providers -> [entry : Entry \cup {None}, about : SUBSET Entry]]
        /\ \A q \in Providers : verdicts[q].entry # None => verdicts[q].about = {verdicts[q].entry}
    BY DEF IInv, Types, TypeOK, Evident
  <2>4. PICK r : r = Recorded(verdicts[p], e)
    OBVIOUS
  <2>5. r \in [entry : Entry \cup {None}, about : SUBSET Entry] /\ r.about = {r.entry}
    BY <2>2, <2>3, <2>4, RecordedTyped
  <2>6. verdicts' = [verdicts EXCEPT ![p] = r] \/ verdicts' = verdicts
    BY <1>2, <2>2, <2>4 DEF ProbeEnd
  <2>7. verdicts' \in [Providers -> [entry : Entry \cup {None}, about : SUBSET Entry]]
        /\ \A q \in Providers : verdicts'[q].entry # None => verdicts'[q].about = {verdicts'[q].entry}
    BY <2>2, <2>3, <2>5, <2>6
  <2>. QED
    BY <1>2, <2>7, QuietStep DEF ProbeEnd, IInv, Types, Evident
<1>. QED
  BY <1>1, <1>2

\* Evidence is asked for; a cache of another entry is a miss.
LEMMA AskStep ==
  ASSUME IInv, NEW p \in Providers, NEW c \in Skills, NEW X \in SUBSET Places, InstallAsk(p, c, X)
  PROVE  IInv'
<1>1. prov[p] \in Entry /\ prov[p] # None
  BY DEF InstallAsk, IInv, Types, TypeOK
<1>2. Evidence(p) = {prov[p]}
  BY <1>1 DEF Evidence, IInv, Evident
<1>3. install' = [of |-> p, entry |-> prov[p], skill |-> c, places |-> X, evidence |-> {prov[p]}]
  BY <1>2 DEF InstallAsk
<1>4. install' \in Asks /\ install'.evidence = {install'.entry}
  BY <1>1, <1>3 DEF Asks
<1>. QED
  BY <1>4, QuietStep DEF InstallAsk, IInv, Types, TypeOK, Evident

\* A call begins or ends next to what stays as it is; places and keys do not change.
LEMMA CallStep ==
  ASSUME IInv, UNCHANGED <<prov, verdicts, reg, tree, env, file, probe, since, edits>>,
         install' \in {install, None}, call' \in {Idle} \cup Calls, stale \subseteq stale', Working',
         call'.op = "install" => call'.evidence = {prov[call'.p]}
  PROVE  IInv'
<1>1. Types'
  BY DEF IInv, Types, TypeOK
<1>2. Evident'
  BY DEF IInv, Evident, EvidenceIsCurrent
<1>3. ProviderStays' /\ Since'
  BY DEF IInv, ProviderStays, Since, At, GuideVariant
<1>4. Known' /\ NewKeyStaysAway'
  BY KeysGrow DEF IInv, Types
<1>5. Settled'
  BY DEF IInv, Settled, Right, NeededBy, At, GuideVariant
<1>. QED
  BY <1>1, <1>2, <1>3, <1>4, <1>5 DEF IInv

\* The call takes writeMu, and goes on if the entry is the one the evidence is about.
LEMMA InstallStep ==
  ASSUME IInv, InstallStart
  PROVE  IInv'
<1>1. CASE ~Unchanged(install)
  BY <1>1, CallStep DEF InstallStart, IInv, Types, Working, Idle
<1>2. CASE Unchanged(install)
  <2>1. install \in Asks
    BY DEF InstallStart, IInv, Types
  <2>2. PICK p \in Providers, e \in Entry, c \in Skills, X \in SUBSET Places :
          p = install.of /\ e = install.entry /\ c = install.skill /\ X = install.places
    BY <2>1 DEF Asks
  <2>3. prov[p] = e /\ install.evidence = {e} /\ e # None
    BY <1>2, <2>2, VariantTyped DEF Unchanged, InstallStart, IInv, Evident
  <2>4. PICK t : t = [skill |-> c, variant |-> <<p, e.base>>, places |-> X]
    OBVIOUS
  <2>5. e.base \in Endpoints
    BY DEF Entry
  <2>6. <<p, e.base>> \in Variant
    BY <2>5, VariantTyped
  <2>7. t \in Tasks /\ t.variant = <<p, prov[p].base>>
    BY <2>3, <2>4, <2>6 DEF Tasks
  <2>8. call' = [op |-> "install", p |-> p, evidence |-> {e}, todo |-> {t}]
    BY <1>2, <2>2, <2>3, <2>4 DEF InstallStart, Todo
  <2>9. call' \in Calls /\ call'.op = "install" /\ call'.p = p /\ call'.evidence = {e} /\ call'.todo = {t}
    BY <2>7, <2>8 DEF Calls
  <2>10. stale' = stale \cup Native \cup Providers /\ UNCHANGED prov
    BY <1>2 DEF InstallStart
  <2>11. Working'
    BY <2>3, <2>7, <2>9, <2>10 DEF Working
  <2>. QED
    BY <2>3, <2>9, <2>10, <2>11, CallStep DEF InstallStart
<1>. QED
  BY <1>1, <1>2
-----------------------------------------------------------------------------
(* Providers.                                                              *)

\* An endpoint that is saved later joins those of every key there is.
LEMMA LaterTyped ==
  ASSUME NEW s \in [Keys -> SUBSET Endpoints], NEW k \in Keys, NEW e \in Endpoints, NEW t, t = Later(s, k, e)
  PROVE  /\ t \in [Keys -> SUBSET Endpoints] /\ t[k] # {}
         /\ \A j \in Keys : s[j] \subseteq t[j] /\ (s[j] # {} => t[j] # {}) /\ (t[j] # {} => e \in t[j])
BY DEF Later

\* The record first: the endpoint joins those of the keys, the places are to follow.
LEMMA SaveStep ==
  ASSUME IInv, NEW p \in Providers, NEW e \in Endpoints, NEW k \in Keys, Save(p, e, k)
  PROVE  IInv'
<1>. DEFINE n == [base |-> e, key |-> k]
<1>1. call = Idle /\ UNCHANGED <<verdicts, reg, tree, env, file, probe, install, edits>>
  BY DEF Save
<1>2. n \in Entry /\ n # None /\ n.base = e /\ n.key = k
  BY VariantTyped DEF Entry
<1>3. prov' \in [Providers -> Entry \cup {None}] /\ prov'[p] = n /\ \A q \in Providers : q # p => prov'[q] = prov[q]
  BY <1>2 DEF Save, IInv, Types, TypeOK
<1>4. since[p] \in [Keys -> SUBSET Endpoints]
  BY DEF IInv, Types
<1>5. PICK s : s = Later(since[p], k, e)
  OBVIOUS
<1>6. /\ s \in [Keys -> SUBSET Endpoints] /\ s[k] # {}
      /\ \A j \in Keys : since[p][j] \subseteq s[j] /\ (s[j] # {} => e \in s[j])
  BY <1>4, <1>5, LaterTyped
<1>7. since' = [since EXCEPT ![p] = s]
  BY <1>5 DEF Save
<1>8. /\ since' \in [Providers -> [Keys -> SUBSET Endpoints]] /\ since'[p] = s
      /\ \A q \in Providers : q # p => since'[q] = since[q]
  BY <1>6, <1>7 DEF IInv, Types
<1>9. \A c, x : At(c, x)' = At(c, x)
  BY <1>1 DEF At, GuideVariant
<1>10. Known' /\ NewKeyStaysAway'
  BY <1>1, <1>6, <1>8, KeysGrow
<1>11. Since'
  <2>1. ASSUME NEW q \in Providers, prov'[q] # None
        PROVE  /\ since'[q][prov'[q].key] # {}
               /\ \A j \in Keys : since'[q][j] # {} => prov'[q].base \in since'[q][j]
    <3>1. CASE q = p
      BY <1>2, <1>3, <1>6, <1>8, <3>1
    <3>2. CASE q # p
      BY <1>3, <1>8, <2>1, <3>2 DEF IInv, Since
    <3>. QED
      BY <3>1, <3>2
  <2>. QED
    BY <2>1 DEF Since
<1>12. ProviderStays'
  <2>1. ASSUME NEW c \in Skills, NEW x \in Places, At(c, x) # None PROVE prov'[At(c, x)[1]] # None
    <3>1. At(c, x)[1] \in Providers /\ prov[At(c, x)[1]] # None
      BY <2>1, AtTyped, VariantTyped DEF IInv, Types, ProviderStays
    <3>. QED
      BY <1>2, <1>3, <3>1
  <2>. QED
    BY <1>9, <2>1 DEF ProviderStays
<1>13. CASE Using(p) = {}
  <2>1. call' = call /\ stale' = stale
    BY <1>13 DEF Save
  <2>2. Types' /\ Evident' /\ Working'
    BY <1>1, <1>3, <1>8, <2>1 DEF IInv, Types, TypeOK, Evident, EvidenceIsCurrent, Working, Idle
  <2>3. \A X \in SUBSET Places : ~NeededBy(p, X)
    BY <1>13, UsingThere DEF NeededBy, Runs, IInv, Types
  <2>4. \A a \in Native : {a} \in SUBSET Places
    BY PlacesApart
  <2>5. Plain \cup {Guide} \in SUBSET Places
    BY PlacesApart
  <2>6. Settled'
    BY <1>1, <1>3, <1>9, <2>1, <2>3, <2>4, <2>5 DEF IInv, Settled, Right, NeededBy
  <2>. QED
    BY <1>10, <1>11, <1>12, <2>2, <2>6 DEF IInv
<1>14. CASE Using(p) # {}
  <2>1. PICK todo : todo = {Todo(t[1], <<p, e>>, Uses(t[1], t[2])) : t \in {u \in Using(p) : u[2][2] # e}}
    OBVIOUS
  <2>2. call' = [op |-> "save", p |-> p, evidence |-> {}, todo |-> todo] /\ stale' = stale \cup Reached(p)
    BY <1>14, <2>1 DEF Save
  <2>3. ASSUME NEW t \in todo
        PROVE  /\ t \in Tasks /\ t.variant = <<p, e>>
               /\ \A x \in t.places : Runs(p, t.skill, x) /\ (x \in Native => x \in Reached(p))
    <3>1. PICK u \in Using(p) : t = Todo(u[1], <<p, e>>, Uses(u[1], u[2]))
      BY <2>1
    <3>2. u[1] \in Skills /\ u[2] \in Variant /\ u[2][1] = p
      BY DEF Using
    <3>3. PICK c \in Skills, v \in Variant : c = u[1] /\ v = u[2] /\ v[1] = p
      BY <3>2
    <3>4. Uses(c, v) \subseteq Places
      BY DEF Uses
    <3>5. t = [skill |-> c, variant |-> <<p, e>>, places |-> Uses(c, v)]
      BY <3>1, <3>3 DEF Todo
    <3>6. t \in Tasks /\ t.skill = c /\ t.variant = <<p, e>> /\ t.places = Uses(c, v)
      BY <3>4, <3>5, VariantTyped DEF Tasks
    <3>7. ASSUME NEW x \in Uses(c, v) PROVE Runs(p, c, x) /\ (x \in Native => x \in Reached(p))
      <4>1. At(c, x) = v /\ v # None
        BY VariantTyped DEF Uses
      <4>2. x \in Native => reg[c].managed[x] = v
        BY <4>1, PlacesApart DEF At
      <4>. QED
        BY <3>3, <4>1, <4>2 DEF Runs, Reached
    <3>. QED
      BY <3>6, <3>7
  <2>4. call' \in Calls /\ call'.op = "save" /\ call'.p = p /\ call'.todo = todo
    BY <2>2, <2>3 DEF Calls
  <2>5. Types' /\ Evident'
    BY <1>1, <1>3, <1>8, <2>4 DEF IInv, Types, TypeOK, Evident, EvidenceIsCurrent
  <2>6. p \in Reached(p)
    BY DEF Reached
  <2>7. Working'
    <3>1. \A t \in todo : \A x \in t.places : Runs(p, t.skill, x)'
      BY <1>9, <2>3 DEF Runs
    <3>2. \A t \in todo : t.variant = <<p, prov'[p].base>>
      BY <1>2, <1>3, <2>3
    <3>3. \A t \in todo : \A x \in t.places : x \in Native => x \in stale'
      BY <2>2, <2>3
    <3>. QED
      BY <1>2, <1>3, <2>2, <2>4, <2>6, <3>1, <3>2, <3>3 DEF Working
  <2>8. ASSUME NEW a \in Native, a \notin Reached(p) PROVE ~NeededBy(p, {a})
    BY <2>8, PlacesApart DEF NeededBy, Reached, At
  <2>9. Settled'
    <3>1. ASSUME NEW a \in Native, a \notin stale', NEW q \in Providers PROVE Right(q, env[a][q], {a})'
      <4>1. a \notin stale /\ a \notin Reached(p)
        BY <2>2, <3>1
      <4>2. Right(q, env[a][q], {a})
        BY <4>1 DEF IInv, Settled
      <4>3. q = p => env[a][q] = 0
        BY <2>8, <4>1, <4>2 DEF Right
      <4>. QED
        BY <1>1, <1>3, <1>9, <4>2, <4>3 DEF Right, NeededBy
    <3>2. ASSUME NEW q \in Providers, q \notin stale' PROVE Right(q, file[q], Plain \cup {Guide})'
      <4>1. q \notin stale /\ q # p
        BY <2>2, <2>6, <3>2
      <4>2. Right(q, file[q], Plain \cup {Guide})
        BY <4>1 DEF IInv, Settled
      <4>. QED
        BY <1>1, <1>3, <1>9, <4>1, <4>2 DEF Right, NeededBy
    <3>. QED
      BY <3>1, <3>2 DEF Settled
  <2>. QED
    BY <1>10, <1>11, <1>12, <2>5, <2>7, <2>9 DEF IInv
<1>. QED
  BY <1>13, <1>14

\* A Provider goes when no place runs it.
LEMMA DeleteStep ==
  ASSUME IInv, NEW p \in Providers, DeleteProvider(p)
  PROVE  IInv'
<1>1. call = Idle /\ UNCHANGED <<verdicts, reg, tree, env, file, probe, install, call, since, stale, edits>>
      /\ prov[p] # None /\ Using(p) = {}
  BY DEF DeleteProvider, Deletable
<1>2. prov' \in [Providers -> Entry \cup {None}] /\ prov'[p] = None /\ \A q \in Providers : q # p => prov'[q] = prov[q]
  BY DEF DeleteProvider, IInv, Types, TypeOK
<1>3. Types' /\ Evident' /\ Working'
  BY <1>1, <1>2 DEF IInv, Types, TypeOK, Evident, EvidenceIsCurrent, Working, Idle
<1>4. \A c, x : At(c, x)' = At(c, x)
  BY <1>1 DEF At, GuideVariant
<1>5. \A c \in Skills, x \in Places : ~Runs(p, c, x)
  BY <1>1, UsingThere DEF IInv, Types
<1>6. ProviderStays'
  <2>1. ASSUME NEW c \in Skills, NEW x \in Places, At(c, x) # None PROVE prov'[At(c, x)[1]] # None
    <3>1. At(c, x)[1] \in Providers /\ prov[At(c, x)[1]] # None /\ At(c, x)[1] # p
      BY <1>5, <2>1, AtTyped, VariantTyped DEF IInv, Types, ProviderStays, Runs
    <3>. QED
      BY <1>2, <3>1
  <2>. QED
    BY <1>4, <2>1 DEF ProviderStays
<1>7. Since'
  BY <1>1, <1>2 DEF IInv, Since
<1>8. Known' /\ NewKeyStaysAway'
  BY <1>1, KeysGrow DEF IInv, Types
<1>9. Settled'
  <2>1. ASSUME NEW q \in Providers, NEW X \in SUBSET Places, NEW k, Right(q, k, X) PROVE Right(q, k, X)'
    <3>1. k # 0 => q # p
      BY <1>5, <2>1 DEF Right, NeededBy, Runs
    <3>. QED
      BY <1>2, <1>4, <2>1, <3>1 DEF Right, NeededBy
  <2>2. ASSUME NEW a \in Native, a \notin stale, NEW q \in Providers PROVE Right(q, env[a][q], {a})'
    <3>1. PICK k : k = env[a][q]
      OBVIOUS
    <3>2. Right(q, k, {a}) /\ {a} \in SUBSET Places
      BY <2>2, <3>1, PlacesApart DEF IInv, Settled
    <3>3. Right(q, k, {a})'
      BY <2>1, <3>2
    <3>. QED
      BY <1>1, <3>1, <3>3
  <2>3. ASSUME NEW q \in Providers, q \notin stale PROVE Right(q, file[q], Plain \cup {Guide})'
    <3>1. PICK k : k = file[q]
      OBVIOUS
    <3>2. Right(q, k, Plain \cup {Guide}) /\ Plain \cup {Guide} \in SUBSET Places
      BY <2>3, <3>1, PlacesApart DEF IInv, Settled
    <3>3. Right(q, k, Plain \cup {Guide})'
      BY <2>1, <3>2
    <3>. QED
      BY <1>1, <3>1, <3>3
  <2>. QED
    BY <1>1, <2>2, <2>3 DEF Settled
<1>. QED
  BY <1>3, <1>6, <1>7, <1>8, <1>9 DEF IInv
-----------------------------------------------------------------------------
(* Skills are published and removed.                                       *)

\* One task of the call is done, and all it was to change is as it was.
LEMMA TaskDone ==
  ASSUME IInv, call # Idle, NEW t \in call.todo
  PROVE  LET r == [call EXCEPT !.todo = @ \ {t}] IN
         /\ r \in Calls /\ r.op = call.op /\ r.p = call.p /\ r.evidence = call.evidence /\ r.todo \subseteq call.todo
         /\ r # Idle
<1>1. call \in Calls
  BY DEF IInv, Types
<1>. QED
  BY <1>1 DEF Calls, Idle

LEMMA NotPublished ==
  ASSUME IInv, call # Idle, NEW t \in call.todo, call' = [call EXCEPT !.todo = @ \ {t}],
         UNCHANGED <<prov, verdicts, reg, tree, env, file, probe, install, since, stale, edits>>
  PROVE  IInv'
<1>1. /\ call' \in Calls /\ call'.op = call.op /\ call'.p = call.p /\ call'.evidence = call.evidence
      /\ call'.todo \subseteq call.todo
  BY TaskDone
<1>2. \A c, x, p : Runs(p, c, x)' <=> Runs(p, c, x)
  BY DEF Runs, At, GuideVariant
<1>3. Working
  BY DEF IInv
<1>4. Working'
  BY <1>1, <1>2, <1>3 DEF Working
<1>5. call.op = "install" => call.evidence = {prov[call.p]}
  BY DEF IInv, Evident, EvidenceIsCurrent
<1>. QED
  BY <1>1, <1>4, <1>5, CallStep

\* What a task of the running call says.
LEMMA TaskTyped ==
  ASSUME IInv, call # Idle, NEW t \in call.todo
  PROVE  /\ t \in Tasks /\ call.p \in Providers /\ prov[call.p] # None
         /\ t.variant = <<call.p, prov[call.p].base>>
         /\ call.op \in {"install", "save"}
         /\ call.op = "install" => Native \cup Providers \subseteq stale
         /\ call.op = "save" => /\ call.p \in stale
              /\ \A s \in call.todo : \A x \in s.places : Runs(call.p, s.skill, x) /\ (x \in Native => x \in stale)
<1>1. call \in Calls
  BY DEF IInv, Types
<1>2. t \in Tasks /\ call.op \in {"install", "save", "remove"}
  BY <1>1 DEF Calls
<1>. QED
  BY <1>2 DEF IInv, Working

\* The variant of the task, and the places it reaches.
LEMMA PublishedStep ==
  ASSUME IInv, call # Idle, NEW t \in call.todo, call' = [call EXCEPT !.todo = @ \ {t}], PublishTo(t),
         UNCHANGED <<prov, verdicts, env, file, probe, install, since, stale, edits>>
  PROVE  IInv'
<1>1. PICK p \in Providers, c \in Skills, P \in SUBSET Places :
        p = call.p /\ c = t.skill /\ P = t.places /\ prov[p] # None /\ t.variant = <<p, prov[p].base>>
  BY TaskTyped DEF Tasks
<1>2. prov[p] \in Entry
  BY <1>1 DEF IInv, Types, TypeOK
<1>3. PICK v \in Variant : v = t.variant /\ v[1] = p /\ v[2] = prov[p].base
  BY <1>1, <1>2, VariantTyped DEF Entry
<1>4. PICK f : f = Stored(reg[t.skill], t.variant)
  OBVIOUS
<1>5. PICK X \in Mostly({x \in t.places : Replaceable(tree[t.skill][x], f)}) : \E S \in Mostly(X \ {Guide}) :
        /\ tree' = [tree EXCEPT ![t.skill] = [x \in Places |-> IF x \in X THEN Fresh(t.variant) ELSE @[x]]]
        /\ reg' = [reg EXCEPT ![t.skill] = Follows(f, S, t.variant)]
  BY <1>4 DEF PublishTo
<1>6. PICK S \in Mostly(X \ {Guide}) :
        /\ tree' = [tree EXCEPT ![c] = [x \in Places |-> IF x \in X THEN Fresh(v) ELSE @[x]]]
        /\ reg' = [reg EXCEPT ![c] = Follows(f, S, v)]
  BY <1>1, <1>3, <1>5
<1>7. X \subseteq P /\ S \subseteq X \ {Guide}
  BY <1>1 DEF Mostly
<1>8. reg[c] \in Fact /\ tree[c] \in [Places -> Tree]
  BY DEF IInv, Types, TypeOK
<1>9. PICK g : g = Follows(f, S, v)
  OBVIOUS
<1>10. /\ g \in Fact /\ g.known = reg[c].known \cup {v}
       /\ \A a \in Agents : g.managed[a] = IF a \in S THEN v ELSE reg[c].managed[a]
  BY <1>1, <1>3, <1>4, <1>8, <1>9 DEF Follows, Stored, Fact
<1>11. reg' \in [Skills -> Fact] /\ reg'[c] = g /\ \A d \in Skills : d # c => reg'[d] = reg[d]
  BY <1>6, <1>9, <1>10 DEF IInv, Types, TypeOK
<1>12. PICK w : w = [x \in Places |-> IF x \in X THEN Fresh(v) ELSE tree[c][x]]
  OBVIOUS
<1>13. Fresh(v) \in Tree /\ Fresh(v) # None /\ Fresh(v).of = v /\ Fresh(v).edited = FALSE
  BY FreshTyped
<1>14. w \in [Places -> Tree] /\ \A x \in Places : w[x] = IF x \in X THEN Fresh(v) ELSE tree[c][x]
  BY <1>8, <1>12, <1>13
<1>15. tree' \in [Skills -> [Places -> Tree]] /\ tree'[c] = w /\ \A d \in Skills : d # c => tree'[d] = tree[d]
  BY <1>6, <1>12, <1>14 DEF IInv, Types, TypeOK
<1>16. ASSUME NEW d \in Skills, NEW x \in Places
       PROVE  /\ At(d, x)' = At(d, x) \/ (At(d, x)' = v /\ d = c /\ (x \in P \/ At(d, x) = None))
              /\ tree'[d][x] # tree[d][x] => tree'[d][x].of = v
  <2>1. CASE d # c
    BY <1>11, <1>15, <2>1 DEF At, GuideVariant
  <2>2. CASE d = c /\ x # Guide
    <3>1. x \in Agents
      BY <2>2 DEF Places
    <3>2. At(d, x) = reg[c].managed[x] /\ At(d, x)' = g.managed[x]
      BY <1>11, <2>2 DEF At
    <3>. QED
      BY <1>7, <1>10, <1>13, <1>14, <1>15, <2>2, <3>1, <3>2
  <2>3. CASE d = c /\ x = Guide
    <3>1. At(d, x) = GuideVariant(reg[c], tree[c][Guide]) /\ At(d, x)' = GuideVariant(g, w[Guide])
      BY <1>11, <1>15, <2>3 DEF At, GuideVariant
    <3>2. CASE Guide \in X
      <4>1. w[Guide] = Fresh(v) /\ Fresh(v) # None => GuideVariant(g, w[Guide]) = v
        BY <1>10, <1>13, <3>2 DEF GuideVariant
      <4>2. w[Guide] = Fresh(v) /\ Guide \in P
        BY <1>7, <1>14, <2>3, <3>2
      <4>. QED
        BY <1>13, <1>15, <2>3, <3>1, <4>1, <4>2
    <3>3. CASE Guide \notin X
      <4>1. w[Guide] = tree[c][Guide]
        BY <1>14, <2>3, <3>3
      <4>. QED
        BY <1>10, <1>15, <2>3, <3>1, <4>1 DEF GuideVariant
    <3>. QED
      BY <3>2, <3>3
  <2>. QED
    BY <2>1, <2>2, <2>3
<1>17. /\ call' \in Calls /\ call'.op = call.op /\ call'.p = call.p /\ call'.evidence = call.evidence
       /\ call'.todo \subseteq call.todo
  BY TaskDone
<1>18. Types'
  <2>1. ASSUME NEW d \in Skills, NEW a \in Agents, reg'[d].managed[a] # None
        PROVE  reg'[d].managed[a] \in reg'[d].known
    <3>1. reg[d].managed[a] # None => reg[d].managed[a] \in reg[d].known
      BY DEF IInv, Types, TypeOK
    <3>2. CASE d = c
      BY <1>10, <1>11, <2>1, <3>1, <3>2
    <3>3. CASE d # c
      BY <1>11, <2>1, <3>1, <3>3
    <3>. QED
      BY <3>2, <3>3
  <2>. QED
    BY <1>11, <1>15, <1>17, <2>1 DEF IInv, Types, TypeOK
<1>19. Evident'
  BY <1>17 DEF IInv, Evident, EvidenceIsCurrent
<1>20. Since' /\ Known'
  BY DEF IInv, Since, Known
<1>21. ProviderStays'
  <2>1. ASSUME NEW d \in Skills, NEW x \in Places, At(d, x)' # None PROVE prov[At(d, x)'[1]] # None
    BY <1>1, <1>3, <1>16, <2>1 DEF IInv, ProviderStays
  <2>. QED
    BY <2>1 DEF ProviderStays
<1>22. ASSUME NEW d \in Skills, NEW x \in Places, NEW k, \A q \in Providers : k[q] \in Keys,
              \A q \in Providers : k[q] # 0 => since[q][k[q]] # {}, Follow(d, x, k)
       PROVE  Follow(d, x, k)'
  <2>1. k[p] # 0 => prov[p].base \in since[p][k[p]]
    BY <1>1, <1>22 DEF IInv, Since
  <2>2. CASE At(d, x)' = v
    BY <1>3, <2>1, <2>2 DEF Follow
  <2>3. CASE At(d, x)' = At(d, x) /\ At(d, x) # v
    <3>1. tree'[d][x] # tree[d][x] => tree'[d][x].of = v
      BY <1>16
    <3>. QED
      BY <1>22, <2>3, <3>1 DEF Follow
  <2>. QED
    BY <1>16, <2>2, <2>3
<1>23. NewKeyStaysAway'
  <2>1. ASSUME NEW d \in Skills, NEW a \in Native PROVE Follow(d, a, env[a])'
    <3>1. PICK k : k = env[a]
      OBVIOUS
    <3>2. /\ Follow(d, a, k) /\ a \in Places /\ \A q \in Providers : k[q] \in Keys
          /\ \A q \in Providers : k[q] # 0 => since[q][k[q]] # {}
      BY <3>1, PlacesApart DEF IInv, NewKeyStaysAway, Known, Types, TypeOK
    <3>3. Follow(d, a, k)'
      BY <1>22, <3>2
    <3>. QED
      BY <3>1, <3>3
  <2>2. ASSUME NEW d \in Skills, NEW x \in Plain \cup {Guide} PROVE Follow(d, x, file)'
    <3>1. PICK k : k = file
      OBVIOUS
    <3>2. /\ Follow(d, x, k) /\ x \in Places /\ \A q \in Providers : k[q] \in Keys
          /\ \A q \in Providers : k[q] # 0 => since[q][k[q]] # {}
      BY <3>1, PlacesApart DEF IInv, NewKeyStaysAway, Known, Types, TypeOK
    <3>3. Follow(d, x, k)'
      BY <1>22, <3>2
    <3>. QED
      BY <3>1, <3>3
  <2>. QED
    BY <2>1, <2>2 DEF NewKeyStaysAway
<1>24. CASE call.op = "install"
  <2>1. Native \cup Providers \subseteq stale
    BY <1>24, TaskTyped
  <2>2. Settled'
    BY <2>1 DEF Settled
  <2>3. Working'
    BY <1>17, <1>24, <2>1 DEF IInv, Working
  <2>. QED
    BY <1>18, <1>19, <1>20, <1>21, <1>23, <2>2, <2>3 DEF IInv
<1>25. CASE call.op = "save"
  <2>1. /\ p \in stale
        /\ \A s \in call.todo : \A x \in s.places : Runs(p, s.skill, x) /\ (x \in Native => x \in stale)
    BY <1>1, <1>25, TaskTyped
  <2>2. \A x \in P : Runs(p, c, x)
    BY <1>1, <2>1
  <2>3. ASSUME NEW d \in Skills, NEW x \in Places, NEW q, Runs(q, d, x) PROVE Runs(q, d, x)'
    <3>1. CASE At(d, x)' = At(d, x)
      BY <2>3, <3>1 DEF Runs
    <3>2. CASE At(d, x)' = v /\ d = c /\ x \in P
      BY <1>3, <2>2, <2>3, <3>2, VariantTyped DEF Runs
    <3>. QED
      BY <1>16, <2>3, <3>1, <3>2 DEF Runs
  <2>4. ASSUME NEW q, NEW X1 \in SUBSET Places, NEW k, Right(q, k, X1) PROVE Right(q, k, X1)'
    BY <2>3, <2>4 DEF Right, NeededBy, Runs
  <2>5. Settled'
    <3>1. ASSUME NEW a \in Native, a \notin stale, NEW q \in Providers PROVE Right(q, env[a][q], {a})'
      <4>1. PICK k : k = env[a][q]
        OBVIOUS
      <4>2. Right(q, k, {a}) /\ {a} \in SUBSET Places
        BY <3>1, <4>1, PlacesApart DEF IInv, Settled
      <4>3. Right(q, k, {a})'
        BY <2>4, <4>2
      <4>. QED
        BY <4>1, <4>3
    <3>2. ASSUME NEW q \in Providers, q \notin stale PROVE Right(q, file[q], Plain \cup {Guide})'
      <4>1. PICK k : k = file[q]
        OBVIOUS
      <4>2. Right(q, k, Plain \cup {Guide}) /\ Plain \cup {Guide} \in SUBSET Places
        BY <3>2, <4>1, PlacesApart DEF IInv, Settled
      <4>3. Right(q, k, Plain \cup {Guide})'
        BY <2>4, <4>2
      <4>. QED
        BY <4>1, <4>3
    <3>. QED
      BY <3>1, <3>2 DEF Settled
  <2>6. \A s \in call.todo : s.skill \in Skills /\ s.places \subseteq Places
    BY TaskTyped DEF Tasks
  <2>7. \A s \in call.todo : \A x \in s.places : Runs(p, s.skill, x)'
    BY <2>1, <2>3, <2>6
  <2>8. \A s \in call.todo : s.variant = <<p, prov[p].base>>
    BY <1>1, TaskTyped
  <2>9. Working'
    BY <1>1, <1>17, <1>25, <2>1, <2>7, <2>8 DEF Working
  <2>. QED
    BY <1>18, <1>19, <1>20, <1>21, <1>23, <2>5, <2>9 DEF IInv
<1>. QED
  BY <1>24, <1>25, TaskTyped

LEMMA PublishStep ==
  ASSUME IInv, Publish
  PROVE  IInv'
<1>1. PICK t \in call.todo : call' = [call EXCEPT !.todo = @ \ {t}] /\ (PublishTo(t) \/ UNCHANGED <<reg, tree>>)
  BY DEF Publish
<1>2. call # Idle /\ UNCHANGED <<prov, verdicts, env, file, probe, install, since, stale, edits>>
  BY DEF Publish
<1>. QED
  BY <1>1, <1>2, NotPublished, PublishedStep

\* Places lose their Skill; whoever stays keeps what it had.
LEMMA RemoveStep ==
  ASSUME IInv, NEW c \in Skills, NEW X \in SUBSET Agents, Remove(c, X)
  PROVE  IInv'
<1>1. UNCHANGED <<prov, verdicts, env, file, probe, install, since, edits>> /\ stale' = stale \cup Native \cup Providers
  BY DEF Remove
<1>2. PICK left : left = {a \in Agents \ X : reg[c].managed[a] # None}
  OBVIOUS
<1>3. PICK gone : gone = X \cup (IF left = {} /\ At(c, Guide) # None THEN {Guide} ELSE {})
  OBVIOUS
<1>4. PICK g : g = [known |-> IF left = {} THEN {} ELSE reg[c].known,
                    managed |-> [a \in Agents |-> IF a \in X THEN None ELSE reg[c].managed[a]]]
  OBVIOUS
<1>5. PICK w : w = [x \in Places |-> IF x \in gone THEN None ELSE tree[c][x]]
  OBVIOUS
<1>6. tree' = [tree EXCEPT ![c] = w] /\ reg' = [reg EXCEPT ![c] = g]
  BY <1>2, <1>3, <1>4, <1>5 DEF Remove
<1>7. reg[c] \in Fact /\ tree[c] \in [Places -> Tree]
  BY DEF IInv, Types, TypeOK
<1>8. g \in Fact /\ (g.known = {} \/ g.known = reg[c].known)
      /\ \A a \in Agents : g.managed[a] = IF a \in X THEN None ELSE reg[c].managed[a]
  BY <1>4, <1>7 DEF Fact
<1>9. w \in [Places -> Tree] /\ \A x \in Places : w[x] = None \/ w[x] = tree[c][x]
  BY <1>5, <1>7 DEF Tree
<1>10. /\ reg' \in [Skills -> Fact] /\ reg'[c] = g /\ \A d \in Skills : d # c => reg'[d] = reg[d]
  BY <1>6, <1>8 DEF IInv, Types, TypeOK
<1>11. /\ tree' \in [Skills -> [Places -> Tree]] /\ tree'[c] = w /\ \A d \in Skills : d # c => tree'[d] = tree[d]
  BY <1>6, <1>9 DEF IInv, Types, TypeOK
<1>12. ASSUME NEW d \in Skills, NEW x \in Places
       PROVE  /\ At(d, x)' = At(d, x) \/ At(d, x)' = None
              /\ tree'[d][x] = tree[d][x] \/ tree'[d][x] = None
  <2>1. CASE d # c
    BY <1>10, <1>11, <2>1 DEF At, GuideVariant
  <2>2. CASE d = c /\ x # Guide
    BY <1>8, <1>9, <1>10, <1>11, <2>2 DEF At, Places
  <2>3. CASE d = c /\ x = Guide
    BY <1>8, <1>9, <1>10, <1>11, <2>3 DEF At, GuideVariant
  <2>. QED
    BY <2>1, <2>2, <2>3
<1>13. call' = [op |-> "remove", p |-> None, evidence |-> {}, todo |-> {}]
  BY DEF Remove
<1>14. call' \in Calls /\ call'.op = "remove" /\ call'.todo = {}
  BY <1>13 DEF Calls
<1>15. Types'
  <2>1. \A a \in Agents : g.managed[a] # None => g.managed[a] \in g.known
    <3>1. ASSUME NEW a \in Agents, g.managed[a] # None PROVE g.managed[a] \in g.known
      <4>1. a \in left /\ g.managed[a] = reg[c].managed[a]
        BY <1>2, <1>8, <3>1
      <4>2. g.known = reg[c].known
        BY <1>4, <4>1
      <4>. QED
        BY <3>1, <4>1, <4>2 DEF IInv, Types, TypeOK
    <3>. QED
      BY <3>1
  <2>2. \A d \in Skills, a \in Agents : reg'[d].managed[a] # None => reg'[d].managed[a] \in reg'[d].known
    BY <1>10, <2>1 DEF IInv, Types, TypeOK
  <2>. QED
    BY <1>1, <1>10, <1>11, <1>14, <2>2 DEF IInv, Types, TypeOK
<1>16. Evident' /\ Since' /\ Known'
  BY <1>1, <1>14 DEF IInv, Evident, EvidenceIsCurrent, Since, Known
<1>17. ProviderStays'
  BY <1>1, <1>12 DEF IInv, ProviderStays
<1>18. ASSUME NEW d \in Skills, NEW x \in Places, NEW k, Follow(d, x, k) PROVE Follow(d, x, k)'
  BY <1>1, <1>12, <1>18 DEF Follow
<1>19. NewKeyStaysAway'
  <2>1. ASSUME NEW d \in Skills, NEW a \in Native PROVE Follow(d, a, env[a])'
    <3>1. PICK k : k = env[a]
      OBVIOUS
    <3>2. Follow(d, a, k) /\ a \in Places
      BY <3>1, PlacesApart DEF IInv, NewKeyStaysAway
    <3>. QED
      BY <1>1, <1>18, <3>1, <3>2
  <2>2. ASSUME NEW d \in Skills, NEW x \in Plain \cup {Guide} PROVE Follow(d, x, file)'
    <3>1. PICK k : k = file
      OBVIOUS
    <3>2. Follow(d, x, k) /\ x \in Places
      BY <3>1, PlacesApart DEF IInv, NewKeyStaysAway
    <3>. QED
      BY <1>1, <1>18, <3>1, <3>2
  <2>. QED
    BY <2>1, <2>2 DEF NewKeyStaysAway
<1>20. Settled' /\ Working'
  BY <1>1, <1>14 DEF Settled, Working
<1>. QED
  BY <1>15, <1>16, <1>17, <1>19, <1>20 DEF IInv
-----------------------------------------------------------------------------
(* Keys are written, and users edit.                                       *)

\* The keys of one variable, or of the files, are written or stay.
LEMMA KeyWritten ==
  ASSUME IInv, NEW q \in Providers, NEW X \in SUBSET Places, NEW k, k = Wanted(q, X), k # 0
  PROVE  /\ since[q][k] # {}
         /\ \A c \in Skills, x \in X : Runs(q, c, x) => At(c, x)[2] \in since[q][k]
<1>1. k \in Keys /\ Right(q, k, X) /\ \A c \in Skills, x \in X : Runs(q, c, x) => At(c, x)[2] = prov[q].base
  BY WantedKey DEF IInv, Types
<1>2. prov[q] # None /\ k = prov[q].key
  BY <1>1 DEF Right
<1>3. since[q][k] # {} /\ prov[q].base \in since[q][k]
  BY <1>1, <1>2 DEF IInv, Since
<1>. QED
  BY <1>1, <1>3

LEMMA ReconcileStep ==
  ASSUME IInv, Reconcile
  PROVE  IInv'
<1>1. PICK done :
       /\ env' = [a \in Native |-> IF a \in done THEN EnvWritten(env[a], WantedEnv(a)) ELSE env[a]]
       /\ file' = [p \in Providers |-> IF p \in done THEN FileWritten(file[p], WantedFile(p)) ELSE file[p]]
       /\ stale' = stale \ done
  BY DEF Reconcile
<1>2. call' = Idle /\ UNCHANGED <<prov, verdicts, reg, tree, probe, install, since, edits>>
  BY DEF Reconcile
<1>3. \A a \in Native : {a} \in SUBSET Places
  BY PlacesApart
<1>4. Plain \cup {Guide} \in SUBSET Places
  BY PlacesApart
<1>5. \A c, x : At(c, x)' = At(c, x)
  BY <1>2 DEF At, GuideVariant
<1>6. ASSUME NEW a \in Native, NEW q \in Providers
      PROVE  env'[a][q] = IF a \in done THEN Wanted(q, {a}) ELSE env[a][q]
  BY <1>1 DEF EnvWritten, WantedEnv
<1>7. ASSUME NEW q \in Providers
      PROVE  file'[q] = IF q \in done THEN Wanted(q, Plain \cup {Guide}) ELSE file[q]
  BY <1>1 DEF FileWritten, WantedFile
<1>8. \A a \in Native, q \in Providers : Wanted(q, {a}) \in Keys
  BY <1>3, WantedKey DEF IInv, Types
<1>9. \A q \in Providers : Wanted(q, Plain \cup {Guide}) \in Keys
  BY <1>4, WantedKey DEF IInv, Types
<1>10. env' \in [Native -> [Providers -> Keys]]
  <2>1. \A a \in Native : WantedEnv(a) \in [Providers -> Keys]
    BY <1>8 DEF WantedEnv
  <2>. QED
    BY <1>1, <2>1 DEF EnvWritten, IInv, Types, TypeOK
<1>11. file' \in [Providers -> Keys]
  BY <1>1, <1>9 DEF FileWritten, WantedFile, IInv, Types, TypeOK
<1>12. Types' /\ Evident' /\ Working'
  <2>1. Types'
    BY <1>2, <1>10, <1>11 DEF IInv, Types, TypeOK
  <2>2. Evident'
    BY <1>2 DEF IInv, Evident, EvidenceIsCurrent, Idle
  <2>. QED
    BY <1>2, <2>1, <2>2 DEF Working
<1>13. ProviderStays' /\ Since'
  BY <1>2, <1>5 DEF IInv, ProviderStays, Since
<1>14. Known'
  <2>1. ASSUME NEW a \in Native, NEW q \in Providers, env'[a][q] # 0 PROVE since[q][env'[a][q]] # {}
    <3>1. CASE a \in done
      <4>1. PICK k : k = Wanted(q, {a})
        OBVIOUS
      <4>2. env'[a][q] = k /\ k # 0
        BY <1>6, <2>1, <3>1, <4>1
      <4>3. since[q][k] # {}
        BY <1>3, <4>1, <4>2, KeyWritten
      <4>. QED
        BY <4>2, <4>3
    <3>2. CASE a \notin done
      <4>1. env'[a][q] = env[a][q]
        BY <1>6, <3>2
      <4>. QED
        BY <2>1, <4>1 DEF IInv, Known
    <3>. QED
      BY <3>1, <3>2
  <2>2. ASSUME NEW q \in Providers, file'[q] # 0 PROVE since[q][file'[q]] # {}
    <3>1. CASE q \in done
      <4>1. PICK k : k = Wanted(q, Plain \cup {Guide})
        OBVIOUS
      <4>2. file'[q] = k /\ k # 0
        BY <1>7, <2>2, <3>1, <4>1
      <4>3. since[q][k] # {}
        BY <1>4, <4>1, <4>2, KeyWritten
      <4>. QED
        BY <4>2, <4>3
    <3>2. CASE q \notin done
      <4>1. file'[q] = file[q]
        BY <1>7, <3>2
      <4>. QED
        BY <2>2, <4>1 DEF IInv, Known
    <3>. QED
      BY <3>1, <3>2
  <2>. QED
    BY <1>2, <2>1, <2>2 DEF Known
<1>15. NewKeyStaysAway'
  <2>1. ASSUME NEW c \in Skills, NEW a \in Native PROVE Follow(c, a, env[a])'
    <3>1. SUFFICES ASSUME At(c, a) # None, tree[c][a] # None, tree[c][a].of = At(c, a), env'[a][At(c, a)[1]] # 0
                   PROVE  At(c, a)[2] \in since[At(c, a)[1]][env'[a][At(c, a)[1]]]
      BY <1>2, <1>5 DEF Follow
    <3>2. PICK q \in Providers : q = At(c, a)[1]
      BY <3>1, AtTyped, VariantTyped, PlacesApart DEF IInv, Types
    <3>3. CASE a \in done
      <4>1. PICK k : k = Wanted(q, {a})
        OBVIOUS
      <4>2. env'[a][q] = k /\ k # 0
        BY <1>6, <3>1, <3>2, <3>3, <4>1
      <4>3. Runs(q, c, a)
        BY <3>1, <3>2 DEF Runs
      <4>4. At(c, a)[2] \in since[q][k]
        BY <1>3, <4>1, <4>2, <4>3, KeyWritten
      <4>. QED
        BY <3>2, <4>2, <4>4
    <3>4. CASE a \notin done
      <4>1. Follow(c, a, env[a])
        BY DEF IInv, NewKeyStaysAway
      <4>. QED
        BY <1>6, <3>1, <3>2, <3>4, <4>1 DEF Follow
    <3>. QED
      BY <3>3, <3>4
  <2>2. ASSUME NEW c \in Skills, NEW x \in Plain \cup {Guide} PROVE Follow(c, x, file)'
    <3>1. SUFFICES ASSUME At(c, x) # None, tree[c][x] # None, tree[c][x].of = At(c, x), file'[At(c, x)[1]] # 0
                   PROVE  At(c, x)[2] \in since[At(c, x)[1]][file'[At(c, x)[1]]]
      BY <1>2, <1>5 DEF Follow
    <3>2. PICK q \in Providers : q = At(c, x)[1]
      BY <3>1, AtTyped, VariantTyped, PlacesApart DEF IInv, Types
    <3>3. CASE q \in done
      <4>1. PICK k : k = Wanted(q, Plain \cup {Guide})
        OBVIOUS
      <4>2. file'[q] = k /\ k # 0
        BY <1>7, <3>1, <3>2, <3>3, <4>1
      <4>3. Runs(q, c, x)
        BY <3>1, <3>2 DEF Runs
      <4>4. At(c, x)[2] \in since[q][k]
        BY <1>4, <4>1, <4>2, <4>3, KeyWritten
      <4>. QED
        BY <3>2, <4>2, <4>4
    <3>4. CASE q \notin done
      <4>1. Follow(c, x, file)
        BY DEF IInv, NewKeyStaysAway
      <4>. QED
        BY <1>7, <3>1, <3>2, <3>4, <4>1 DEF Follow
    <3>. QED
      BY <3>3, <3>4
  <2>. QED
    BY <2>1, <2>2 DEF NewKeyStaysAway
<1>16. ASSUME NEW q, NEW X \in SUBSET Places, NEW k, Right(q, k, X) PROVE Right(q, k, X)'
  BY <1>2, <1>5, <1>16 DEF Right, NeededBy
<1>17. Settled'
  <2>1. ASSUME NEW a \in Native, a \notin stale', NEW q \in Providers PROVE Right(q, env[a][q], {a})'
    <3>1. PICK k : k = env'[a][q]
      OBVIOUS
    <3>2. Right(q, k, {a})
      <4>1. CASE a \in done
        BY <1>3, <1>6, <3>1, <4>1, WantedKey DEF IInv, Types
      <4>2. CASE a \notin done
        BY <1>1, <1>6, <2>1, <3>1, <4>2 DEF IInv, Settled
      <4>. QED
        BY <4>1, <4>2
    <3>3. Right(q, k, {a})'
      BY <1>3, <1>16, <3>2
    <3>. QED
      BY <3>1, <3>3
  <2>2. ASSUME NEW q \in Providers, q \notin stale' PROVE Right(q, file[q], Plain \cup {Guide})'
    <3>1. PICK k : k = file'[q]
      OBVIOUS
    <3>2. Right(q, k, Plain \cup {Guide})
      <4>1. CASE q \in done
        BY <1>4, <1>7, <3>1, <4>1, WantedKey DEF IInv, Types
      <4>2. CASE q \notin done
        BY <1>1, <1>7, <2>2, <3>1, <4>2 DEF IInv, Settled
      <4>. QED
        BY <4>1, <4>2
    <3>3. Right(q, k, Plain \cup {Guide})'
      BY <1>4, <1>16, <3>2
    <3>. QED
      BY <3>1, <3>3
  <2>. QED
    BY <2>1, <2>2 DEF Settled
<1>. QED
  BY <1>12, <1>13, <1>14, <1>15, <1>17 DEF IInv

\* An edited tree sends where it sent; an edited guide is nobody's.
LEMMA EditStep ==
  ASSUME IInv, NEW c \in Skills, NEW y \in Places, Edit(c, y)
  PROVE  IInv'
<1>1. /\ call = Idle /\ UNCHANGED <<prov, verdicts, reg, env, file, probe, install, call, since>>
      /\ tree[c][y] # None /\ ~tree[c][y].edited /\ edits' = edits + 1
      /\ tree' = [tree EXCEPT ![c][y].edited = TRUE]
      /\ stale' = IF y = Guide THEN stale \cup {tree[c][y].of[1]} ELSE stale
  BY DEF Edit
<1>2. PICK u \in [of : Variant, edited : BOOLEAN] : u = tree[c][y] /\ ~u.edited
  BY <1>1 DEF IInv, Types, TypeOK, Tree
<1>3. PICK v \in Variant : v = u.of
  OBVIOUS
<1>17. PICK w : w = [u EXCEPT !.edited = TRUE]
  OBVIOUS
<1>4. w \in Tree /\ w.of = v /\ w.edited
  <2>1. w \in [of : Variant, edited : BOOLEAN]
    BY <1>17
  <2>2. w.of = v /\ w.edited
    BY <1>3, <1>17
  <2>. QED
    BY <2>1, <2>2 DEF Tree
<1>5. [tree[c][y] EXCEPT !.edited = TRUE] = w
  BY <1>2, <1>17
<1>6. tree' = [tree EXCEPT ![c] = [tree[c] EXCEPT ![y] = w]]
  BY <1>1, <1>5
<1>7. tree \in [Skills -> [Places -> Tree]]
  BY DEF IInv, Types, TypeOK
<1>8. /\ tree' \in [Skills -> [Places -> Tree]] /\ tree'[c][y] = w
      /\ \A d \in Skills, x \in Places : d # c \/ x # y => tree'[d][x] = tree[d][x]
  BY <1>4, <1>6, <1>7
<1>9. ASSUME NEW d \in Skills, NEW x \in Places
      PROVE  /\ At(d, x)' = At(d, x) \/ At(d, x)' = None
             /\ At(d, x)' # At(d, x) => x = Guide /\ y = Guide /\ At(d, x) = v
  <2>1. CASE x # Guide
    BY <1>1, <2>1 DEF At
  <2>2. CASE x = Guide /\ (d # c \/ y # Guide)
    BY <1>1, <1>8, <2>2 DEF At, GuideVariant
  <2>3. CASE x = Guide /\ d = c /\ y = Guide
    <3>1. At(d, x)' = None
      BY <1>4, <1>8, <2>3 DEF At, GuideVariant
    <3>2. At(d, x) = None \/ At(d, x) = v
      BY <1>2, <1>3, <2>3 DEF At, GuideVariant
    <3>. QED
      BY <2>3, <3>1, <3>2
  <2>. QED
    BY <2>1, <2>2, <2>3
<1>10. ASSUME NEW d \in Skills, NEW x \in Places
       PROVE  tree'[d][x] # None => tree[d][x] # None /\ tree'[d][x].of = tree[d][x].of
  BY <1>1, <1>2, <1>3, <1>4, <1>8
<1>11. Types' /\ Evident' /\ Working'
  <2>1. Types'
    BY <1>1, <1>8 DEF IInv, Types, TypeOK
  <2>2. Evident' /\ Working'
    BY <1>1 DEF IInv, Evident, EvidenceIsCurrent, Working
  <2>. QED
    BY <2>1, <2>2
<1>12. ProviderStays'
  BY <1>1, <1>9 DEF IInv, ProviderStays
<1>13. Since' /\ Known'
  BY <1>1 DEF IInv, Since, Known
<1>14. ASSUME NEW d \in Skills, NEW x \in Places, NEW k, Follow(d, x, k) PROVE Follow(d, x, k)'
  BY <1>1, <1>9, <1>10, <1>14 DEF Follow
<1>15. NewKeyStaysAway'
  <2>1. ASSUME NEW d \in Skills, NEW a \in Native PROVE Follow(d, a, env[a])'
    <3>1. PICK k : k = env[a]
      OBVIOUS
    <3>2. Follow(d, a, k) /\ a \in Places
      BY <3>1, PlacesApart DEF IInv, NewKeyStaysAway
    <3>. QED
      BY <1>1, <1>14, <3>1, <3>2
  <2>2. ASSUME NEW d \in Skills, NEW x \in Plain \cup {Guide} PROVE Follow(d, x, file)'
    <3>1. PICK k : k = file
      OBVIOUS
    <3>2. Follow(d, x, k) /\ x \in Places
      BY <3>1, PlacesApart DEF IInv, NewKeyStaysAway
    <3>. QED
      BY <1>1, <1>14, <3>1, <3>2
  <2>. QED
    BY <2>1, <2>2 DEF NewKeyStaysAway
<1>16. Settled'
  <2>1. ASSUME NEW a \in Native, a \notin stale', NEW q \in Providers PROVE Right(q, env[a][q], {a})'
    <3>1. Right(q, env[a][q], {a})
      BY <1>1, <2>1 DEF IInv, Settled
    <3>2. \A d \in Skills : At(d, a)' = At(d, a)
      BY <1>9, PlacesApart
    <3>. QED
      BY <1>1, <3>1, <3>2 DEF Right, NeededBy
  <2>2. ASSUME NEW q \in Providers, q \notin stale' PROVE Right(q, file[q], Plain \cup {Guide})'
    <3>1. q \notin stale /\ (y = Guide => q # v[1])
      BY <1>1, <1>2, <1>3, <2>2
    <3>2. Right(q, file[q], Plain \cup {Guide})
      BY <3>1 DEF IInv, Settled
    <3>3. ASSUME NEW d \in Skills, NEW x \in Plain \cup {Guide}, Runs(q, d, x) PROVE Runs(q, d, x)'
      BY <1>9, <3>1, <3>3, PlacesApart DEF Runs
    <3>. QED
      BY <1>1, <3>2, <3>3 DEF Right, NeededBy, Runs
  <2>. QED
    BY <2>1, <2>2 DEF Settled
<1>. QED
  BY <1>11, <1>12, <1>13, <1>15, <1>16 DEF IInv
-----------------------------------------------------------------------------
(* The invariant.                                                          *)

\* Some Skills are installed, and their keys are written.
LEMMA Initially == Init => IInv
<1>. SUFFICES ASSUME Init PROVE IInv
  OBVIOUS
<1>1. PICK e \in Endpoints : prov = [p \in Providers |-> [base |-> e, key |-> 1]]
  BY DEF Init
<1>2. 0 \in Keys /\ 1 \in Keys
  BY GeneratedAssumption DEF Keys
<1>3. prov \in [Providers -> Entry] /\ \A p \in Providers : prov[p].base = e /\ prov[p].key = 1
  BY <1>1, <1>2 DEF Entry
<1>4. PICK at \in [Skills -> [Places -> Edited \cup {None}]] :
        LET v == [c \in Skills |-> [x \in Places |-> IF at[c][x] = None THEN None ELSE <<at[c][x], prov[at[c][x]].base>>]] IN
        /\ tree = [c \in Skills |-> [x \in Places |-> IF v[c][x] = None THEN None ELSE Fresh(v[c][x])]]
        /\ reg = [c \in Skills |-> [known |-> {v[c][x] : x \in Places} \ {None},
                                    managed |-> [a \in Agents |-> v[c][a]]]]
  BY DEF Init
<1>5. PICK v : v = [c \in Skills |-> [x \in Places |-> IF at[c][x] = None THEN None ELSE <<at[c][x], prov[at[c][x]].base>>]]
  OBVIOUS
<1>6. ASSUME NEW c \in Skills, NEW x \in Places
      PROVE  v[c][x] \in Variant \cup {None} /\ (v[c][x] # None => v[c][x][2] = e)
  <2>1. at[c][x] \in Providers \cup {None}
    BY GeneratedAssumption
  <2>2. v[c][x] = IF at[c][x] = None THEN None ELSE <<at[c][x], prov[at[c][x]].base>>
    BY <1>5
  <2>. QED
    BY <1>3, <2>1, <2>2, VariantTyped
<1>7. /\ tree = [c \in Skills |-> [x \in Places |-> IF v[c][x] = None THEN None ELSE Fresh(v[c][x])]]
      /\ reg = [c \in Skills |-> [known |-> {v[c][x] : x \in Places} \ {None},
                                  managed |-> [a \in Agents |-> v[c][a]]]]
  BY <1>4, <1>5
<1>8. tree \in [Skills -> [Places -> Tree]]
  BY <1>6, <1>7 DEF Tree, Fresh
<1>9. reg \in [Skills -> Fact]
  <2>1. ASSUME NEW c \in Skills
        PROVE  /\ {v[c][x] : x \in Places} \ {None} \in SUBSET Variant
               /\ [a \in Agents |-> v[c][a]] \in [Agents -> Variant \cup {None}]
    BY <1>6, PlacesApart
  <2>. QED
    BY <1>7, <2>1 DEF Fact
<1>10. \A c \in Skills, a \in Agents : reg[c].managed[a] # None => reg[c].managed[a] \in reg[c].known
  BY <1>7, PlacesApart
<1>11. /\ env = [a \in Native |-> WantedEnv(a)] /\ file = [p \in Providers |-> WantedFile(p)]
       /\ verdicts = [p \in Providers |-> [entry |-> None, about |-> {}]]
       /\ since = [p \in Providers |-> [k \in Keys |-> IF k = 1 THEN {prov[p].base} ELSE {}]]
       /\ probe = None /\ install = None /\ call = Idle /\ stale = {} /\ edits = 0
  BY DEF Init
<1>12. \A c \in Skills, x \in Places : At(c, x) # None => At(c, x) \in Variant /\ At(c, x)[2] = e
  <2>1. ASSUME NEW c \in Skills, NEW x \in Places, At(c, x) # None PROVE At(c, x) \in Variant /\ At(c, x)[2] = e
    <3>1. CASE x = Guide
      <4>1. At(c, x) \in reg[c].known
        BY <2>1, <3>1 DEF At, GuideVariant
      <4>2. reg[c].known = {v[c][y] : y \in Places} \ {None}
        BY <1>7
      <4>3. PICK y \in Places : At(c, x) = v[c][y]
        BY <4>1, <4>2
      <4>. QED
        BY <1>6, <2>1, <4>3
    <3>2. CASE x # Guide
      <4>1. At(c, x) = v[c][x]
        BY <1>7, <3>2 DEF At, Places
      <4>. QED
        BY <1>6, <2>1, <4>1
    <3>. QED
      BY <3>1, <3>2
  <2>. QED
    BY <2>1
<1>13. ASSUME NEW p \in Providers, NEW X, NEW k, k = Wanted(p, X), X \subseteq Places
       PROVE  k \in {0, 1} /\ Right(p, k, X)
  <2>1. k = 0 \/ (k = 1 /\ Served(p, X) # {} /\ prov[p] # None /\ prov[p].key = 1)
    BY <1>3, <1>13 DEF Wanted
  <2>2. Served(p, X) # {} => NeededBy(p, X)
    BY VariantTyped DEF Served, NeededBy
  <2>. QED
    BY <2>1, <2>2 DEF Right
<1>14. ASSUME NEW a \in Native, NEW p \in Providers PROVE env[a][p] \in {0, 1} /\ Right(p, env[a][p], {a})
  <2>1. env[a][p] = Wanted(p, {a}) /\ {a} \subseteq Places
    BY <1>11, PlacesApart DEF WantedEnv
  <2>. QED
    BY <1>13, <2>1
<1>15. ASSUME NEW p \in Providers PROVE file[p] \in {0, 1} /\ Right(p, file[p], Plain \cup {Guide})
  <2>1. file[p] = Wanted(p, Plain \cup {Guide}) /\ Plain \cup {Guide} \subseteq Places
    BY <1>11, PlacesApart DEF WantedFile
  <2>. QED
    BY <1>13, <2>1
<1>16. env \in [Native -> [Providers -> Keys]] /\ file \in [Providers -> Keys]
  <2>1. \A a \in Native : WantedEnv(a) \in [Providers -> Keys]
    BY <1>2, <1>11, <1>14 DEF WantedEnv
  <2>. QED
    BY <1>2, <1>11, <1>15, <2>1
<1>17. /\ since \in [Providers -> [Keys -> SUBSET Endpoints]]
       /\ \A p \in Providers : since[p][1] = {e} /\ \A k \in Keys : since[p][k] # {} => e \in since[p][k]
  BY <1>2, <1>3, <1>11
<1>18. Types
  <2>1. TypeOK
    BY <1>3, <1>8, <1>9, <1>10, <1>11, <1>16 DEF TypeOK
  <2>. QED
    BY <1>11, <1>17, <2>1 DEF Types
<1>19. Evident
  BY <1>11 DEF Evident, EvidenceIsCurrent, Idle
<1>20. ProviderStays
  BY <1>3, <1>12, VariantTyped DEF ProviderStays
<1>21. Since
  BY <1>3, <1>17 DEF Since
<1>22. Known
  BY <1>14, <1>15, <1>17 DEF Known
<1>23. ASSUME NEW c \in Skills, NEW x \in Places, NEW k, \A p \in Providers : k[p] \in {0, 1} PROVE Follow(c, x, k)
  BY <1>12, <1>17, <1>23, VariantTyped DEF Follow
<1>24. NewKeyStaysAway
  BY <1>14, <1>15, <1>23, PlacesApart DEF NewKeyStaysAway
<1>25. Settled /\ Working
  BY <1>11, <1>14, <1>15 DEF Settled, Working
<1>. QED
  BY <1>18, <1>19, <1>20, <1>21, <1>22, <1>24, <1>25 DEF IInv

\* Every step keeps the invariant.
LEMMA Inductive == IInv /\ [Next]_vars => IInv'
<1>. SUFFICES ASSUME IInv, [Next]_vars PROVE IInv'
  OBVIOUS
<1>1. CASE UNCHANGED vars
  BY <1>1, QuietStep DEF vars, IInv, Types, TypeOK, Evident
<1>2. CASE \E p \in Edited : ProbeStart(p) \/ DeleteProvider(p)
  BY <1>2, ProbeSteps, DeleteStep, GeneratedAssumption
<1>3. CASE \E p \in Providers, c \in Skills, X \in SUBSET Places : InstallAsk(p, c, X)
  BY <1>3, AskStep
<1>4. CASE \E p \in Edited, e \in Endpoints, k \in Keys : Save(p, e, k)
  BY <1>4, SaveStep, GeneratedAssumption
<1>5. CASE \E c \in Skills, X \in SUBSET Agents : Remove(c, X)
  BY <1>5, RemoveStep
<1>6. CASE \E c \in Skills, x \in Places : Edit(c, x)
  BY <1>6, EditStep
<1>7. CASE ProbeEnd \/ InstallStart \/ Publish \/ Reconcile
  BY <1>7, ProbeSteps, InstallStep, PublishStep, ReconcileStep
<1>. QED
  BY <1>1, <1>2, <1>3, <1>4, <1>5, <1>6, <1>7 DEF Next

THEOREM InvariantHolds == Spec => []IInv
BY Initially, Inductive, PTL DEF Spec
-----------------------------------------------------------------------------
(* What the invariant gives.                                               *)

\* Every Skill has its Provider, and an install goes by evidence about the Provider as it is
\* (multimodal_install.go:173, provider.go:430).
THEOREM SkillsStaySafe == Spec => []SkillsSafe
<1>1. IInv => SkillsSafe
  BY DEF IInv, Types, Evident, SkillsSafe
<1>. QED
  BY <1>1, InvariantHolds, PTL

\* A key is never where a tree still sends to an endpoint of before it was saved
\* (multimodal_install.go:537-545).
THEOREM NewKeysStayAway == Spec => []NewKeyStaysAway
<1>1. IInv => NewKeyStaysAway
  BY DEF IInv
<1>. QED
  BY <1>1, InvariantHolds, PTL

\* The keys that stand where every write was made are current, and needed
\* (reconcileSkillEnvLocked).
THEOREM KeysAreCurrent == Spec => []KeysFollow
<1>1. IInv => KeysFollow
  BY DEF IInv, Settled, Right, KeysFollow, KeyGoesWithLastSkill, KeyIsCurrent
<1>. QED
  BY <1>1, InvariantHolds, PTL

\* What the user changed in a directory is not overwritten (verifyGeneratedTarget).
THEOREM EditsStay == Spec => EditsKept
<1>1. ASSUME IInv, [Next]_vars, NEW c \in Skills, NEW x \in Places, tree[c][x] # None, tree[c][x].edited, edits' = edits
      PROVE  tree'[c][x] = tree[c][x]
  <2>1. edits \in Nat /\ tree \in [Skills -> [Places -> Tree]]
    BY <1>1 DEF IInv, Types, TypeOK
  <2>2. CASE UNCHANGED tree
    BY <2>2
  <2>3. CASE \E d \in Skills, y \in Places : Edit(d, y)
    BY <1>1, <2>1, <2>3 DEF Edit
  <2>4. CASE \E d \in Skills, X \in SUBSET Agents : Remove(d, X)
    <3>1. PICK d \in Skills, X \in SUBSET Agents : Remove(d, X)
      BY <2>4
    <3>2. PICK gone : /\ gone = X \/ (gone = X \cup {Guide} /\ At(d, Guide) # None)
                      /\ tree' = [tree EXCEPT ![d] = [y \in Places |-> IF y \in gone THEN None ELSE @[y]]]
      BY <3>1 DEF Remove
    <3>3. \A a \in X : tree[d][a] \in {None, Fresh(reg[d].managed[a])}
      BY <3>1 DEF Remove
    <3>4. c = d => x \notin X
      BY <1>1, <3>3 DEF Fresh
    <3>5. c = d /\ x = Guide => At(d, Guide) = None
      BY <1>1 DEF At, GuideVariant
    <3>. QED
      BY <2>1, <3>2, <3>4, <3>5
  <2>5. CASE Publish
    <3>1. PICK t \in call.todo : PublishTo(t) \/ UNCHANGED tree
      BY <2>5 DEF Publish
    <3>2. CASE PublishTo(t)
      <4>4. PICK f : f = Stored(reg[t.skill], t.variant)
        OBVIOUS
      <4>1. PICK X \in Mostly({y \in t.places : Replaceable(tree[t.skill][y], f)}) :
              tree' = [tree EXCEPT ![t.skill] = [y \in Places |-> IF y \in X THEN Fresh(t.variant) ELSE @[y]]]
        BY <3>2, <4>4 DEF PublishTo
      <4>2. \A y \in X : Replaceable(tree[t.skill][y], f)
        BY DEF Mostly
      <4>3. c = t.skill => x \notin X
        BY <1>1, <4>2 DEF Replaceable
      <4>. QED
        BY <2>1, <4>1, <4>3
    <3>. QED
      BY <3>1, <3>2
  <2>. QED
    BY <1>1, <2>2, <2>3, <2>4, <2>5 DEF vars, Next, ProbeStart, DeleteProvider, InstallAsk, Save,
       ProbeEnd, InstallStart, Reconcile
<1>2. IInv /\ [Next]_vars =>
        [\A c \in Skills, x \in Places :
           tree[c][x] # None /\ tree[c][x].edited /\ edits' = edits => tree'[c][x] = tree[c][x]]_vars
  BY <1>1
<1>. QED
  BY <1>2, InvariantHolds, PTL DEF Spec, EditsKept
=============================================================================
