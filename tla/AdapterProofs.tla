----------------------------- MODULE AdapterProofs ----------------------------
(***************************************************************************)
(* Theorems about the protocol adapter: Conversion, for any number of calls, *)
(* ports and targets, and ProtocolConversion, for any number of items, ids,  *)
(* chunks and calls.                                                         *)
(***************************************************************************)
EXTENDS Conversion, ProtocolConversion, FiniteSetTheorems, TLAPS


\* Settings, Providers and Profiles that fit: an adapter that is on has three
\* Providers with one key and its address, and their Profiles.
Settled(s) ==
  s.saved.enabled => /\ \A f \in FormatSet : s.conv[f] = [key |-> s.conv["anthropic"].key, listen |-> s.saved.listen]
                     /\ s.profs = FormatSet

\* The loop of saveConversion has written this much.
Filled(r) ==
  LET e == [key |-> r.key, listen |-> r.want.listen] IN
  /\ r.n >= 1 => conv["anthropic"] = e
  /\ r.n >= 2 => "anthropic" \in profs
  /\ r.n >= 3 => conv["responses"] = e
  /\ r.n >= 4 => "responses" \in profs
  /\ r.n >= 5 => conv["chat"] = e
  /\ r.n >= 6 => "chat" \in profs

\* The rollback has restored this much.
Back(r, n) ==
  /\ n >= 1 => desktop = r.snap.desktop
  /\ n >= 2 => profs = r.snap.profs
  /\ n >= 3 => conv = r.snap.conv
  /\ n >= 4 => saved = r.snap.saved

\* The new settings, and what they need, are written.
Stored(r) ==
  /\ saved = r.want
  /\ r.want.enabled => /\ \A f \in FormatSet : conv[f] = [key |-> r.key, listen |-> r.want.listen]
                       /\ profs = FormatSet

\* The call that holds conversionMu.
Doing(r) ==
  /\ ~lapsed => Settled(r.snap)
  /\ r.pc = "write" => r.want.enabled /\ Filled(r)
  /\ r.pc = "settings" => ~r.want.enabled
  /\ r.pc \in {"detach", "listen", "configure", "commit"} => Stored(r)
  /\ r.pc = "listen" => r.want.enabled /\ http = None
  /\ r.pc \in {"configure", "commit"} /\ http # None =>
       r.want.enabled /\ http = r.want.listen /\ cfg.key = r.key /\ cfg.target = r.want.target
  /\ r.pc = "restore" => r.n \in 0..3 /\ (r.ok => Back(r, r.n))
  /\ r.pc \in {"stop", "start"} => (r.ok => Back(r, 4))
  /\ r.pc = "start" => http = None

Holds(c) == calls[c].pc \notin {"idle", "wait"}

Held ==
  /\ \A c \in Callers : Holds(c) <=> mu = c
  /\ \A c \in Callers : Holds(c) => Doing(calls[c])

Between == mu = None /\ ~lapsed => Settled(Managed) /\ ServesWhatIsSaved

IInv == TypeOK /\ ListenerOwnsConfig /\ Held /\ Between
-----------------------------------------------------------------------------
(* Records of calls.                                                       *)

\* A field of the record of a call is changed at a time.
LEMMA OneField ==
  ASSUME NEW r \in CallRecord
  PROVE  /\ \A v \in Steps : [r EXCEPT !.pc = v] \in CallRecord
         /\ \A v \in Kinds : [r EXCEPT !.kind = v] \in CallRecord
         /\ \A v \in Config : [r EXCEPT !.want = v] \in CallRecord
         /\ \A v \in 0..6 : [r EXCEPT !.n = v] \in CallRecord
         /\ \A v \in Nat : [r EXCEPT !.key = v] \in CallRecord
         /\ \A v \in UpKeys : [r EXCEPT !.up = v] \in CallRecord
         /\ \A v \in Snapshot : [r EXCEPT !.snap = v] \in CallRecord
<1>1. \A v \in Steps : [r EXCEPT !.pc = v] \in CallRecord
  BY DEF CallRecord
<1>2. \A v \in Kinds : [r EXCEPT !.kind = v] \in CallRecord
  BY DEF CallRecord
<1>3. \A v \in Config : [r EXCEPT !.want = v] \in CallRecord
  BY DEF CallRecord
<1>4. \A v \in 0..6 : [r EXCEPT !.n = v] \in CallRecord
  BY DEF CallRecord
<1>5. \A v \in Nat : [r EXCEPT !.key = v] \in CallRecord
  BY DEF CallRecord
<1>6. \A v \in UpKeys : [r EXCEPT !.up = v] \in CallRecord
  BY DEF CallRecord
<1>7. \A v \in Snapshot : [r EXCEPT !.snap = v] \in CallRecord
  BY DEF CallRecord
<1>. QED
  BY <1>1, <1>2, <1>3, <1>4, <1>5, <1>6, <1>7

\* The two records are of one call: what they were asked and what they found is the same.
Same(r, q) == /\ r.kind = q.kind /\ r.want = q.want /\ r.key = q.key /\ r.up = q.up
              /\ r.snap = q.snap /\ (r.ok <=> q.ok)

Restaged(q, p) == [q EXCEPT !.pc = p, !.n = 0]
Advanced(q) == [q EXCEPT !.n = @ + 1]

\* Turning to another step keeps the kind, the wish and the snapshot of the call.
LEMMA Staged ==
  ASSUME NEW q \in CallRecord, NEW p \in Steps, NEW r, r = Restaged(q, p)
  PROVE  r \in CallRecord /\ r.pc = p /\ r.n = 0 /\ Same(r, q)
<1>. DEFINE d == [q EXCEPT !.pc = p]
            e == [d EXCEPT !.n = 0]
<1>0. r = e /\ 0 \in 0..6
  BY DEF Restaged
<1>1. d \in CallRecord /\ d.pc = p /\ Same(d, q)
  BY OneField DEF CallRecord, Same
<1>. HIDE DEF d
<1>2. e \in CallRecord /\ e.pc = p /\ e.n = 0 /\ Same(e, d)
  BY <1>0, <1>1, OneField DEF CallRecord, Same
<1>. HIDE DEF e
<1>3. Same(e, q)
  BY <1>1, <1>2 DEF Same
<1>. QED
  BY <1>0, <1>2, <1>3

\* Counting a file keeps the rest of the record.
LEMMA Counted ==
  ASSUME NEW q \in CallRecord, q.n < 6, NEW r, r = Advanced(q)
  PROVE  r \in CallRecord /\ r.pc = q.pc /\ Same(r, q)
<1>. DEFINE m == q.n + 1
            e == [q EXCEPT !.n = m]
<1>1. m \in 0..6
  BY DEF CallRecord
<1>2. r = e
  BY DEF Advanced
<1>. HIDE DEF m
<1>3. e \in CallRecord /\ e.pc = q.pc /\ Same(e, q)
  BY <1>1, OneField DEF CallRecord, Same
<1>. HIDE DEF e
<1>. QED
  BY <1>2, <1>3

\* Advancing counts one file.
LEMMA CountedOne ==
  ASSUME NEW q \in CallRecord, NEW r, r = Advanced(q)
  PROVE  r.n = q.n + 1
  BY DEF Advanced, CallRecord

\* An idle caller is a caller without a pending failure.
LEMMA IdleRecord == Idle \in CallRecord /\ Idle.pc = "idle" /\ Idle.ok
<1>1. Defaults \in Config /\ NoEntry \in Entry
  BY ConversionAssumption DEF Defaults, Config, NoEntry, Entry
<1>2. NoSnapshot \in Snapshot
  BY <1>1, ConversionAssumption DEF NoSnapshot, Snapshot, UpKeys
<1>3. 0 \in UpKeys /\ 0 \in 0..6 /\ 0 \in Nat
  BY ConversionAssumption DEF UpKeys
<1>. QED
  BY <1>1, <1>2, <1>3 DEF Idle, CallRecord, Steps, Kinds

\* Refusals of the type checker apart, a configuration is its three fields.
LEMMA ConfigIs ==
  ASSUME NEW w \in Config, w.enabled
  PROVE  w = [enabled |-> TRUE, listen |-> w.listen, target |-> w.target]
  BY DEF Config

\* What snapshotConversionFiles reads has the form of a snapshot.
LEMMA ManagedIsSnapshot ==
  ASSUME TypeOK
  PROVE  Managed \in Snapshot
  BY DEF TypeOK, Managed, Snapshot

\* One call goes on, the others stay.
LEMMA Going ==
  ASSUME TypeOK, NEW c \in Callers, NEW r \in CallRecord, Goes(c, r)
  PROVE  /\ calls' \in [Callers -> CallRecord] /\ calls'[c] = r
         /\ \A d \in Callers : d # c => calls'[d] = calls[d]
  BY DEF TypeOK, Goes
-----------------------------------------------------------------------------
(* Steps of the call that holds conversionMu.                              *)

\* A caller past the lock is the holder of conversionMu, and knows what its step knows.
LEMMA Holder ==
  ASSUME IInv, NEW c \in Callers, Holds(c)
  PROVE  calls[c] \in CallRecord /\ mu = c /\ mu # None /\ Doing(calls[c])
  BY ConversionAssumption DEF IInv, Held, TypeOK

\* Only conversionMu's holder goes on: what it knows is what the invariant says.
LEMMA HolderStep ==
  ASSUME IInv, NEW c \in Callers, Holds(c), NEW r \in CallRecord, r.pc \notin {"idle", "wait"},
         Goes(c, r), mu' = mu, TypeOK', ListenerOwnsConfig', Doing(r)'
  PROVE  IInv'
<1>1. mu = c /\ mu # None
  BY Holder
<1>2. calls'[c] = r /\ \A d \in Callers : d # c => calls'[d] = calls[d]
  BY Going DEF IInv
<1>3. \A d \in Callers : Holds(d)' <=> mu' = d
  BY <1>1, <1>2 DEF IInv, Held, Holds
<1>4. Doing(calls[c])'
  BY <1>2
<1>5. \A d \in Callers : Holds(d)' => Doing(calls[d])'
  BY <1>1, <1>3, <1>4
<1>. QED
  BY <1>1, <1>3, <1>5 DEF IInv, Held, Between

\* A call ends and leaves what the next one relies on.
LEMMA HolderEnds ==
  ASSUME IInv, NEW c \in Callers, Holds(c), Goes(c, Idle), mu' = None, TypeOK', ListenerOwnsConfig',
         ~lapsed' => Settled(Managed)' /\ ServesWhatIsSaved'
  PROVE  IInv'
<1>1. mu = c
  BY Holder
<1>2. calls'[c] = Idle /\ \A d \in Callers : d # c => calls'[d] = calls[d]
  BY Going, IdleRecord DEF IInv
<1>3. \A d \in Callers : ~Holds(d)'
  BY <1>1, <1>2, IdleRecord DEF IInv, Held, Holds
<1>4. \A d \in Callers : mu' # d
  BY ConversionAssumption
<1>. QED
  BY <1>3, <1>4 DEF IInv, Held, Between

\* A step that fails: the rollback has everything before it.
LEMMA Failing ==
  ASSUME IInv, NEW c \in Callers, Holds(c), Fail(c), UNCHANGED <<files, world, mu, lapsed, made, begun>>,
         cfg' \in Served, http' \in Ports \cup {None}, bound' \subseteq Ports, ListenerOwnsConfig'
  PROVE  IInv'
<1>1. calls[c] \in CallRecord /\ Doing(calls[c])
  BY Holder
<1>2. PICK r : r = Restaged(calls[c], "restore")
  OBVIOUS
<1>3. r \in CallRecord /\ r.pc = "restore" /\ r.n = 0 /\ Same(r, calls[c])
  <2>1. "restore" \in Steps
    BY DEF Steps
  <2>. QED
    BY <1>1, <1>2, <2>1, Staged
<1>4. Goes(c, r)
  BY <1>2 DEF Fail, Goto, Restaged
<1>5. TypeOK'
  BY <1>3, <1>4, Going DEF IInv, TypeOK, files, world
<1>6. Doing(r)'
  BY <1>1, <1>3 DEF Doing, Same, Back, Settled
<1>. QED
  BY <1>3, <1>4, <1>5, <1>6, HolderStep

\* The next stage, next to files and a server that stay.
LEMMA RotatedStep ==
  ASSUME IInv, NEW c \in Callers, Rotated(c)
  PROVE  IInv'
<1>1. Holds(c)
  BY DEF Rotated, At, Holds
<1>2. calls[c] \in CallRecord /\ Doing(calls[c])
  BY <1>1, Holder
<1>3. PICK r : r = Restaged(calls[c], "check")
  OBVIOUS
<1>4. r \in CallRecord /\ r.pc = "check" /\ r.n = 0 /\ Same(r, calls[c])
  <2>1. "check" \in Steps
    BY DEF Steps
  <2>. QED
    BY <1>2, <1>3, <2>1, Staged
<1>5. Goes(c, r)
  BY <1>3 DEF Rotated, Goto, Restaged
<1>6. TypeOK' /\ ListenerOwnsConfig'
  BY <1>4, <1>5, Going DEF IInv, TypeOK, ListenerOwnsConfig, Rotated, files, server, world
<1>7. Doing(r)'
  BY <1>2, <1>4 DEF Rotated, Doing, Same, Settled
<1>. QED
  BY <1>1, <1>4, <1>5, <1>6, <1>7, HolderStep DEF Rotated

\* Saving the entry of one Agent changes conversion.json and the file of the Agent only.
LEMMA EntryTyped ==
  ASSUME TypeOK, NEW f \in FormatSet, NEW e \in Entry, SaveEntry(f, e)
  PROVE  conv' \in [FormatSet -> Entry] /\ agent' \in Entry
  BY DEF TypeOK, SaveEntry

\* A new key goes to one Provider after the other.
LEMMA RotateStep ==
  ASSUME IInv, NEW c \in Callers, Rotate(c)
  PROVE  IInv'
<1>1. Holds(c)
  BY DEF Rotate, At, Holds
<1>2. calls[c] \in CallRecord /\ Doing(calls[c]) /\ calls[c].n < 3 /\ calls[c].pc = "rotate"
  BY <1>1, Holder DEF Rotate, At
<1>2a. calls[c].n < 6
  BY <1>2 DEF CallRecord
<1>3. CASE Fail(c) /\ UNCHANGED <<conv, agent>>
  BY <1>1, <1>3, Failing DEF Rotate, files, server, IInv, TypeOK, ListenerOwnsConfig
<1>4. ASSUME NEW f \in FormatSet, SaveEntry(f, [conv[f] EXCEPT !.key = calls[c].key]), Advance(c)
      PROVE  IInv'
  <2>1. PICK r : r = Advanced(calls[c])
    OBVIOUS
  <2>2. r \in CallRecord /\ r.pc = "rotate" /\ Same(r, calls[c])
    BY <1>2, <1>2a, <2>1, Counted
  <2>3. Goes(c, r)
    BY <1>4, <2>1 DEF Advance, Advanced
  <2>4. [conv[f] EXCEPT !.key = calls[c].key] \in Entry
    BY <1>2 DEF IInv, TypeOK, Entry, CallRecord
  <2>5. conv' \in [FormatSet -> Entry] /\ agent' \in Entry
    BY <1>4, <2>4, EntryTyped DEF IInv
  <2>6. TypeOK' /\ ListenerOwnsConfig'
    BY <2>2, <2>3, <2>5, Going DEF IInv, TypeOK, ListenerOwnsConfig, Rotate, server, world
  <2>7. Doing(r)'
    BY <1>2, <2>2 DEF Rotate, Doing, Same, Settled
  <2>. QED
    BY <1>1, <2>2, <2>3, <2>6, <2>7, HolderStep DEF Rotate
<1>5. Formats[calls[c].n + 1] \in FormatSet
  <2>1. calls[c].n \in {0, 1, 2}
    BY <1>2 DEF CallRecord
  <2>. QED
    BY <2>1 DEF Formats, FormatSet
<1>. QED
  BY <1>3, <1>4, <1>5 DEF Rotate

\* The checks passed: a key is chosen, the target's key is read.
Checked(q, p, k, u) == [q EXCEPT !.pc = p, !.n = 0, !.key = k, !.up = u]

\* The record of a call whose request was checked.
LEMMA CheckedRecord ==
  ASSUME NEW q \in CallRecord, NEW p \in Steps, NEW k \in Nat, NEW u \in UpKeys, NEW r, r = Checked(q, p, k, u)
  PROVE  r \in CallRecord /\ r.pc = p /\ r.n = 0 /\ r.want = q.want /\ r.snap = q.snap
<1>. DEFINE d1 == [q EXCEPT !.pc = p]
            d2 == [d1 EXCEPT !.n = 0]
            d3 == [d2 EXCEPT !.key = k]
            d == [d3 EXCEPT !.up = u]
<1>1. r = d /\ 0 \in 0..6
  BY DEF Checked
<1>2. d1 \in CallRecord /\ d1.pc = p /\ d1.want = q.want /\ d1.snap = q.snap
  BY OneField DEF CallRecord
<1>. HIDE DEF d1
<1>3. d2 \in CallRecord /\ d2.pc = p /\ d2.n = 0 /\ d2.want = q.want /\ d2.snap = q.snap
  BY <1>1, <1>2, OneField DEF CallRecord
<1>. HIDE DEF d2
<1>4. d3 \in CallRecord /\ d3.pc = p /\ d3.n = 0 /\ d3.want = q.want /\ d3.snap = q.snap
  BY <1>3, OneField DEF CallRecord
<1>. HIDE DEF d3
<1>5. d \in CallRecord /\ d.pc = p /\ d.n = 0 /\ d.want = q.want /\ d.snap = q.snap
  BY <1>4, OneField DEF CallRecord
<1>. HIDE DEF d
<1>. QED
  BY <1>1, <1>5

\* The request is checked, or refused.
LEMMA CheckStep ==
  ASSUME IInv, NEW c \in Callers, Check(c)
  PROVE  IInv'
<1>. DEFINE w == calls[c].want
            valid == w.target # None /\ state[w.target] = "chat" /\ upKey[w.target] # 0
            fresh == w.enabled /\ conv["anthropic"].key = 0
            k == IF fresh THEN FreshKey ELSE conv["anthropic"].key
            p == IF w.enabled THEN "write" ELSE "settings"
<1>1. Holds(c)
  BY DEF Check, At, Holds
<1>2. calls[c] \in CallRecord /\ Doing(calls[c])
  BY <1>1, Holder
<1>3. CASE ~valid
  BY <1>1, <1>3, Failing DEF Check, files, server, world, IInv, TypeOK, ListenerOwnsConfig
<1>4. CASE valid
  <2>1. PICK r : r = Checked(calls[c], p, k, upKey[w.target])
    OBVIOUS
  <2>2. Goes(c, r) /\ made' = IF fresh THEN FreshKey ELSE made
    BY <1>4, <2>1 DEF Check, Checked
  <2>3. k \in Nat /\ made' \in Nat
    BY <2>2 DEF IInv, TypeOK, Entry, FormatSet, FreshKey
  <2>4. upKey[w.target] \in UpKeys /\ w.target \in Targets
    BY <1>2, <1>4 DEF IInv, TypeOK, CallRecord, Config
  <2>5. p \in Steps
    BY DEF Steps
  <2>. HIDE DEF k
  <2>6. r \in CallRecord /\ r.pc = p /\ r.n = 0 /\ r.want = w /\ r.snap = calls[c].snap
    BY <1>2, <2>1, <2>3, <2>4, <2>5, CheckedRecord
  <2>7. TypeOK' /\ ListenerOwnsConfig'
    BY <2>2, <2>3, <2>6, Going DEF IInv, TypeOK, ListenerOwnsConfig, Check, files, server, world
  <2>8. Doing(r)'
    <3>1. UNCHANGED <<files, server, lapsed>>
      BY DEF Check
    <3>2. ~lapsed' => Settled(r.snap)'
      BY <1>2, <2>6, <3>1 DEF Doing, Settled
    <3>3. r.pc = "write" => r.want.enabled /\ Filled(r)'
      BY <2>6 DEF Filled
    <3>4. r.pc = "settings" => ~r.want.enabled
      BY <2>6
    <3>5. r.pc \in {"write", "settings"}
      BY <2>6
    <3>. QED
      BY <3>2, <3>3, <3>4, <3>5 DEF Doing
  <2>. QED
    BY <1>1, <2>2, <2>6, <2>7, <2>8, HolderStep DEF Check
<1>. QED
  BY <1>3, <1>4

\* Where the loop of saveConversion is after n writes.
LEMMA LoopPlace ==
  ASSUME NEW n \in 0..5
  PROVE  /\ n % 2 = 0 <=> n \in {0, 2, 4}
         /\ n \in {0, 1} => Formats[n \div 2 + 1] = "anthropic"
         /\ n \in {2, 3} => Formats[n \div 2 + 1] = "responses"
         /\ n \in {4, 5} => Formats[n \div 2 + 1] = "chat"
<1>1. /\ n \in {0, 1} => n \div 2 + 1 = 1
      /\ n \in {2, 3} => n \div 2 + 1 = 2
      /\ n \in {4, 5} => n \div 2 + 1 = 3
      /\ n % 2 = 0 <=> n \in {0, 2, 4}
  BY Z3
<1>. QED
  BY <1>1 DEF Formats

\* One Provider, or one Profile, is written.
LEMMA WriteStep ==
  ASSUME IInv, NEW c \in Callers, Write(c)
  PROVE  IInv'
<1>. DEFINE n == calls[c].n
            f == Formats[n \div 2 + 1]
            e == [key |-> calls[c].key, listen |-> calls[c].want.listen]
<1>1. Holds(c)
  BY DEF Write, At, Holds
<1>2. calls[c] \in CallRecord /\ Doing(calls[c]) /\ n \in 0..5 /\ calls[c].pc = "write"
  BY <1>1, Holder DEF Write, At, CallRecord
<1>3. CASE Fail(c) /\ UNCHANGED <<conv, agent, profs>>
  BY <1>1, <1>3, Failing DEF Write, files, server, IInv, TypeOK, ListenerOwnsConfig
<1>4. ASSUME Advance(c),
             IF n % 2 = 0 THEN SaveEntry(f, e) /\ UNCHANGED profs
                          ELSE profs' = profs \cup {f} /\ UNCHANGED <<conv, agent>>
      PROVE  IInv'
  <2>1. PICK r : r = Advanced(calls[c])
    OBVIOUS
  <2>2. calls[c].n < 6
    BY <1>2
  <2>3. r \in CallRecord /\ r.pc = "write" /\ Same(r, calls[c])
    BY <1>2, <2>1, <2>2, Counted
  <2>4. r.n = n + 1
    BY <1>2, <2>1, CountedOne
  <2>5. Goes(c, r)
    BY <1>4, <2>1 DEF Advance, Advanced
  <2>6. /\ n % 2 = 0 <=> n \in {0, 2, 4}
        /\ n \in {0, 1} => f = "anthropic"
        /\ n \in {2, 3} => f = "responses"
        /\ n \in {4, 5} => f = "chat"
    BY <1>2, LoopPlace
  <2>7. f \in FormatSet
    BY <1>2, <2>6 DEF FormatSet
  <2>8. e \in Entry
    BY <1>2 DEF CallRecord, Entry, Config
  <2>9. conv' \in [FormatSet -> Entry] /\ agent' \in Entry /\ profs' \subseteq FormatSet
    BY <1>4, <2>7, <2>8, EntryTyped DEF IInv, TypeOK
  <2>10. TypeOK' /\ ListenerOwnsConfig'
    BY <2>3, <2>5, <2>9, Going DEF IInv, TypeOK, ListenerOwnsConfig, Write, server, world
  <2>11. Filled(r)'
    <3>1. Filled(calls[c]) /\ e = [key |-> r.key, listen |-> r.want.listen]
      BY <1>2, <2>3 DEF Doing, Same
    <3>2. conv \in [FormatSet -> Entry]
      BY DEF IInv, TypeOK
    <3>3. CASE n \in {0, 2, 4}
      <4>1. conv' = [conv EXCEPT ![f] = e] /\ profs' = profs
        BY <1>4, <2>6, <3>3 DEF SaveEntry
      <4>2. conv'[f] = e /\ \A g \in FormatSet : g # f => conv'[g] = conv[g]
        BY <2>7, <3>2, <4>1
      <4>. HIDE DEF e
      <4>. QED
        BY <1>2, <2>4, <2>6, <3>1, <3>3, <4>1, <4>2 DEF Filled, FormatSet, e
    <3>4. CASE n \in {1, 3, 5}
      <4>1. conv' = conv /\ profs' = profs \cup {f}
        BY <1>4, <2>6, <3>4
      <4>. QED
        BY <1>2, <2>4, <2>6, <3>1, <3>4, <4>1 DEF Filled
    <3>. QED
      BY <1>2, <3>3, <3>4
  <2>12. Doing(r)'
    BY <1>2, <2>3, <2>11 DEF Write, Doing, Same, Settled
  <2>. QED
    BY <1>1, <2>3, <2>5, <2>10, <2>12, HolderStep DEF Write
<1>. QED
  BY <1>3, <1>4 DEF Write

\* A stage that starts with what the invariant wants of it.
LEMMA NextStage ==
  ASSUME IInv, NEW c \in Callers, Holds(c), NEW p \in Steps \ {"idle", "wait"}, Goto(c, p), mu' = mu,
         UNCHANGED <<world, made, begun, lapsed>>,
         saved' \in Config, desktop' \in Entry, UNCHANGED <<conv, profs, upKey, state, agent>>,
         cfg' \in Served, http' \in Ports \cup {None}, bound' \subseteq Ports, ListenerOwnsConfig',
         \A r \in CallRecord : r.pc = p /\ r.n = 0 /\ Same(r, calls[c]) => Doing(r)'
  PROVE  IInv'
<1>1. calls[c] \in CallRecord
  BY Holder
<1>2. PICK r : r = Restaged(calls[c], p)
  OBVIOUS
<1>3. r \in CallRecord /\ r.pc = p /\ r.n = 0 /\ Same(r, calls[c])
  BY <1>1, <1>2, Staged
<1>4. Goes(c, r)
  BY <1>2 DEF Goto, Restaged
<1>5. TypeOK'
  BY <1>3, <1>4, Going DEF IInv, TypeOK, world
<1>6. Doing(r)'
  BY <1>3
<1>. QED
  BY <1>3, <1>4, <1>5, <1>6, HolderStep

\* conversion.json is written.
LEMMA WriteSettingsStep ==
  ASSUME IInv, NEW c \in Callers, WriteSettings(c)
  PROVE  IInv'
<1>1. Holds(c)
  BY DEF WriteSettings, At, Holds
<1>2. calls[c] \in CallRecord /\ Doing(calls[c])
  BY <1>1, Holder
<1>3. CASE Fail(c) /\ UNCHANGED saved
  BY <1>1, <1>3, Failing DEF WriteSettings, files, server, IInv, TypeOK, ListenerOwnsConfig
<1>4. CASE saved' = calls[c].want /\ Goto(c, "detach")
  <2>1. "detach" \in Steps \ {"idle", "wait"}
    BY DEF Steps
  <2>2. saved' \in Config
    BY <1>2, <1>4 DEF CallRecord
  <2>3. ASSUME calls[c].want.enabled
        PROVE  /\ \A f \in FormatSet : conv[f] = [key |-> calls[c].key, listen |-> calls[c].want.listen]
               /\ profs = FormatSet
    <3>1. calls[c].pc = "write" /\ calls[c].n = 6 /\ Filled(calls[c])
      BY <1>2, <2>3 DEF WriteSettings, At, Doing
    <3>. DEFINE e == [key |-> calls[c].key, listen |-> calls[c].want.listen]
    <3>2. /\ conv["anthropic"] = e /\ conv["responses"] = e /\ conv["chat"] = e
          /\ "anthropic" \in profs /\ "responses" \in profs /\ "chat" \in profs
      BY <3>1 DEF Filled
    <3>. HIDE DEF e
    <3>3. \A f \in FormatSet : conv[f] = e
      BY <3>2 DEF FormatSet
    <3>4. profs = FormatSet
      BY <3>2 DEF FormatSet, IInv, TypeOK
    <3>. QED
      BY <3>3, <3>4 DEF e
  <2>4. ASSUME NEW r \in CallRecord, r.pc = "detach", Same(r, calls[c])
        PROVE  Doing(r)'
    BY <1>2, <1>4, <2>3, <2>4 DEF WriteSettings, Doing, Same, Stored, Settled
  <2>. QED
    BY <1>1, <1>4, <2>1, <2>2, <2>4, NextStage DEF WriteSettings, server, IInv, TypeOK, ListenerOwnsConfig
<1>. QED
  BY <1>3, <1>4 DEF WriteSettings

\* What the server is asked for is a configuration of it.
LEMMA AskedServed ==
  ASSUME NEW c \in Callers, calls[c] \in CallRecord
  PROVE  /\ Asked(c) \in Served /\ Asked(c).listen = calls[c].want.listen /\ Asked(c).listen \in Ports
         /\ Asked(c).key = calls[c].key /\ Asked(c).target = calls[c].want.target
         /\ (Asked(c).enabled <=> calls[c].want.enabled)
<1>1. calls[c].want \in Config
  BY DEF CallRecord
<1>2. calls[c].want.enabled \in BOOLEAN /\ calls[c].want.listen \in Ports /\ calls[c].want.target \in Targets \cup {None}
  BY <1>1 DEF Config
<1>. QED
  BY <1>2 DEF Asked, Served, CallRecord

\* Server.SetConfig closes the listener it has.
LEMMA DetachedOwns ==
  ASSUME ListenerOwnsConfig, Detached
  PROVE  http' = None /\ bound' = {} /\ ListenerOwnsConfig'
  BY DEF ListenerOwnsConfig, Detached

\* The adapter that served the old settings is given up.
LEMMA DetachStep ==
  ASSUME IInv, NEW c \in Callers, Detach(c)
  PROVE  IInv'
<1>1. Holds(c)
  BY DEF Detach, At, Holds
<1>2. calls[c] \in CallRecord /\ Doing(calls[c]) /\ calls[c].pc = "detach"
  BY <1>1, Holder DEF Detach, At
<1>3. http' = None /\ bound' = {} /\ ListenerOwnsConfig'
  BY DetachedOwns DEF IInv, Detach
<1>4. CASE Fail(c) /\ UNCHANGED cfg
  BY <1>1, <1>3, <1>4, Failing DEF Detach, files, IInv, TypeOK
<1>5. CASE ~Asked(c).enabled /\ cfg' = Asked(c) /\ Goto(c, AfterServer(c))
  <2>1. AfterServer(c) \in {"configure", "commit"} /\ AfterServer(c) \in Steps \ {"idle", "wait"}
    BY DEF AfterServer, Steps
  <2>2. ASSUME NEW r \in CallRecord, r.pc = AfterServer(c), Same(r, calls[c])
        PROVE  Doing(r)'
    BY <1>2, <1>3, <2>1, <2>2 DEF Detach, Doing, Same, Stored, Settled, files
  <2>. QED
    BY <1>1, <1>2, <1>3, <1>5, <2>1, <2>2, NextStage, AskedServed DEF Detach, files, IInv, TypeOK
<1>6. CASE Asked(c).enabled /\ Goto(c, "listen") /\ UNCHANGED cfg
  <2>1. "listen" \in Steps \ {"idle", "wait"}
    BY DEF Steps
  <2>2. calls[c].want.enabled
    BY <1>2, <1>6, AskedServed
  <2>3. ASSUME NEW r \in CallRecord, r.pc = "listen", Same(r, calls[c])
        PROVE  Doing(r)'
    BY <1>2, <1>3, <2>2, <2>3 DEF Detach, Doing, Same, Stored, Settled, files
  <2>. QED
    BY <1>1, <1>3, <1>6, <2>1, <2>3, NextStage DEF Detach, files, IInv, TypeOK
<1>. QED
  BY <1>4, <1>5, <1>6 DEF Detach

\* A new listener, or none.
LEMMA OpensOwns ==
  ASSUME ListenerOwnsConfig, http = None, NEW conf \in Served, conf.enabled, Opens(conf)
  PROVE  /\ cfg' = conf /\ http' = conf.listen /\ bound' = {conf.listen} /\ conf.listen \in Ports
         /\ ListenerOwnsConfig'
<1>1. conf.listen \in Ports
  BY DEF Served
<1>. QED
  BY <1>1, ConversionAssumption DEF ListenerOwnsConfig, Opens

\* An adapter whose port is taken leaves no listener behind.
LEMMA RefusedOwns ==
  ASSUME ListenerOwnsConfig, http = None, NEW conf \in Served, Refused(conf)
  PROVE  /\ cfg' \in Served /\ http' = None /\ bound' = bound /\ ListenerOwnsConfig'
  BY DEF ListenerOwnsConfig, Refused, Served

\* The new adapter listens, or the port is taken.
LEMMA ListenStep ==
  ASSUME IInv, NEW c \in Callers, Listen(c)
  PROVE  IInv'
<1>1. Holds(c)
  BY DEF Listen, At, Holds
<1>2. calls[c] \in CallRecord /\ Doing(calls[c]) /\ calls[c].pc = "listen"
  BY <1>1, Holder DEF Listen, At
<1>3. http = None /\ calls[c].want.enabled /\ Stored(calls[c]) /\ (~lapsed => Settled(calls[c].snap))
  BY <1>2 DEF Doing
<1>. DEFINE conf == Asked(c)
<1>4. /\ conf \in Served /\ conf.listen = calls[c].want.listen
      /\ conf.key = calls[c].key /\ conf.target = calls[c].want.target /\ conf.enabled
  BY <1>2, <1>3, AskedServed
<1>. HIDE DEF conf
<1>5. CASE Refused(conf) /\ Fail(c)
  <2>1. cfg' \in Served /\ http' = None /\ bound' = bound /\ ListenerOwnsConfig'
    BY <1>3, <1>4, <1>5, RefusedOwns DEF IInv
  <2>. QED
    BY <1>1, <1>5, <2>1, Failing DEF Listen, files, IInv, TypeOK
<1>6. CASE Opens(conf) /\ Goto(c, AfterServer(c))
  <2>1. AfterServer(c) \in {"configure", "commit"} /\ AfterServer(c) \in Steps \ {"idle", "wait"}
    BY DEF AfterServer, Steps
  <2>2. /\ cfg' = conf /\ http' = conf.listen /\ bound' = {conf.listen} /\ conf.listen \in Ports
        /\ ListenerOwnsConfig'
    BY <1>3, <1>4, <1>6, OpensOwns DEF IInv
  <2>3. ASSUME NEW r \in CallRecord, r.pc = AfterServer(c), Same(r, calls[c])
        PROVE  Doing(r)'
    BY <1>3, <1>4, <2>1, <2>2, <2>3 DEF Listen, Doing, Same, Stored, Settled, files
  <2>4. UNCHANGED <<saved, desktop, conv, profs, upKey, state, agent, world, mu, lapsed, made, begun>>
    BY DEF Listen, files
  <2>. QED
    BY <1>1, <1>4, <1>6, <2>1, <2>2, <2>3, <2>4, NextStage DEF IInv, TypeOK
<1>. QED
  BY <1>5, <1>6 DEF Listen, conf

\* Claude Desktop's configuration is written.
LEMMA ConfigureStep ==
  ASSUME IInv, NEW c \in Callers, Configure(c)
  PROVE  IInv'
<1>1. Holds(c)
  BY DEF Configure, At, Holds
<1>2. calls[c] \in CallRecord /\ Doing(calls[c]) /\ calls[c].pc = "configure"
  BY <1>1, Holder DEF Configure, At
<1>3. CASE Fail(c) /\ UNCHANGED desktop
  BY <1>1, <1>3, Failing DEF Configure, files, server, IInv, TypeOK, ListenerOwnsConfig
<1>4. CASE desktop' = conv["anthropic"] /\ Goto(c, "commit")
  <2>1. "commit" \in Steps \ {"idle", "wait"}
    BY DEF Steps
  <2>2. desktop' \in Entry
    BY <1>4 DEF IInv, TypeOK, FormatSet
  <2>3. ASSUME NEW r \in CallRecord, r.pc = "commit", Same(r, calls[c])
        PROVE  Doing(r)'
    BY <1>2, <2>3 DEF Configure, Doing, Same, Stored, Settled, server
  <2>. QED
    BY <1>1, <1>4, <2>1, <2>2, <2>3, NextStage DEF Configure, server, IInv, TypeOK, ListenerOwnsConfig
<1>. QED
  BY <1>3, <1>4 DEF Configure

\* A call that ends keeps the types.
LEMMA EndsTyped ==
  ASSUME TypeOK, NEW c \in Callers, Goes(c, Idle), mu' = None, lapsed' \in BOOLEAN,
         UNCHANGED <<files, world, made, begun>>,
         cfg' \in Served, http' \in Ports \cup {None}, bound' \subseteq Ports
  PROVE  TypeOK'
  BY IdleRecord, Going DEF TypeOK, files, world

\* A call that succeeded leaves what it wrote, and the server it asked for.
LEMMA CommitStep ==
  ASSUME IInv, NEW c \in Callers, Commit(c)
  PROVE  IInv'
<1>1. Holds(c)
  BY DEF Commit, At, Holds
<1>2. calls[c] \in CallRecord /\ Doing(calls[c]) /\ calls[c].pc = "commit"
  BY <1>1, Holder DEF Commit, At
<1>. DEFINE w == calls[c].want
<1>3. w \in Config /\ saved = w
  BY <1>2 DEF Doing, Stored, CallRecord
<1>4. TypeOK' /\ ListenerOwnsConfig'
  BY EndsTyped DEF IInv, Commit, TypeOK, ListenerOwnsConfig, server, files
<1>5. ASSUME w.enabled
      PROVE  /\ \A f \in FormatSet : conv[f] = [key |-> calls[c].key, listen |-> w.listen]
             /\ profs = FormatSet /\ "anthropic" \in FormatSet
             /\ w = [enabled |-> TRUE, listen |-> w.listen, target |-> w.target]
  BY <1>2, <1>3, <1>5, ConfigIs DEF Doing, Stored, FormatSet
<1>6. Settled(Managed)
  <2>1. ASSUME w.enabled
        PROVE  conv["anthropic"].key = calls[c].key
    BY <1>5, <2>1
  <2>. QED
    BY <1>3, <1>5, <2>1 DEF Settled, Managed
<1>7. http # None => /\ w.enabled /\ http = w.listen /\ cfg.key = calls[c].key /\ cfg.target = w.target
  BY <1>2 DEF Doing
<1>8. UNCHANGED <<saved, conv, profs, upKey, desktop, cfg, http>>
  BY DEF Commit, files, server
<1>9. Settled(Managed)'
  BY <1>6, <1>8 DEF Settled, Managed
<1>. HIDE DEF w
<1>10. ServesWhatIsSaved'
  BY <1>3, <1>5, <1>7, <1>8 DEF ServesWhatIsSaved
<1>. QED
  BY <1>1, <1>4, <1>9, <1>10, HolderEnds DEF Commit

\* One file of the rollback, restored or not.
Rolled(q, b) == [q EXCEPT !.pc = IF q.n = 3 THEN "stop" ELSE @, !.n = q.n + 1, !.ok = @ /\ b]

\* The record of a rollback that restored one more file.
LEMMA RolledRecord ==
  ASSUME NEW q \in CallRecord, q.n \in 0..3, NEW b \in BOOLEAN, NEW r, r = Rolled(q, b)
  PROVE  /\ r \in CallRecord /\ r.snap = q.snap
         /\ r.pc = IF q.n = 3 THEN "stop" ELSE q.pc
         /\ (r.ok <=> q.ok /\ b)
<1>. DEFINE p == IF q.n = 3 THEN "stop" ELSE q.pc
            m == q.n + 1
            v == q.ok /\ b
            d1 == [q EXCEPT !.pc = p]
            d2 == [d1 EXCEPT !.n = m]
            d == [d2 EXCEPT !.ok = v]
<1>1. p \in Steps /\ m \in 0..6
  BY DEF CallRecord, Steps
<1>2. d1 \in CallRecord /\ d1.pc = p /\ d1.snap = q.snap /\ d1.ok = q.ok
  BY <1>1, OneField DEF CallRecord
<1>3. r = d
  BY <1>2 DEF Rolled, CallRecord
<1>4. v \in BOOLEAN /\ (v <=> q.ok /\ b)
  BY Zenon DEF CallRecord
<1>. HIDE DEF d1, m, v
<1>5. d2 \in CallRecord /\ d2.pc = p /\ d2.snap = q.snap
  BY <1>1, <1>2, OneField DEF CallRecord
<1>. HIDE DEF d2, p
<1>6. d \in CallRecord /\ d.pc = p /\ d.snap = q.snap /\ d.ok = v
  BY <1>4, <1>5 DEF CallRecord
<1>. HIDE DEF d
<1>. QED
  BY <1>3, <1>4, <1>6 DEF p

\* A rollback counts every file, restored or not.
LEMMA RolledCount ==
  ASSUME NEW q \in CallRecord, NEW b, NEW r, r = Rolled(q, b)
  PROVE  r.n = q.n + 1
  BY DEF Rolled, CallRecord

\* A rollback restores the next file of its snapshot.
LEMMA RestoreStep ==
  ASSUME IInv, NEW c \in Callers, Restore(c)
  PROVE  IInv'
<1>. DEFINE q == calls[c]
            n == q.n
<1>1. Holds(c)
  BY DEF Restore, At, Holds
<1>2. q \in CallRecord /\ Doing(q) /\ q.pc = "restore"
  BY <1>1, Holder DEF Restore, At
<1>3. n \in 0..3 /\ (q.ok => Back(q, n)) /\ q.snap \in Snapshot
  BY <1>2 DEF Doing, CallRecord
<1>4. ASSUME NEW b \in BOOLEAN, Goes(c, Rolled(q, b)),
             IF b THEN Restored(c, n) ELSE UNCHANGED <<desktop, profs, conv, upKey, saved>>
      PROVE  IInv'
  <2>1. PICK r : r = Rolled(q, b)
    OBVIOUS
  <2>2. /\ r \in CallRecord /\ r.snap = q.snap
        /\ r.pc = IF n = 3 THEN "stop" ELSE "restore"
        /\ (r.ok <=> q.ok /\ b)
    BY <1>2, <1>3, <2>1, RolledRecord
  <2>3. r.n = n + 1
    BY <1>2, <2>1, RolledCount
  <2>4. /\ desktop' \in Entry /\ profs' \subseteq FormatSet /\ conv' \in [FormatSet -> Entry]
        /\ upKey' \in [Targets -> UpKeys] /\ saved' \in Config
    BY <1>3, <1>4 DEF Restored, Snapshot, IInv, TypeOK
  <2>5. TypeOK' /\ ListenerOwnsConfig'
    BY <1>4, <2>1, <2>2, <2>4, Going DEF IInv, TypeOK, ListenerOwnsConfig, Restore, server, world
  <2>6. PICK k \in 0..3 : k = n
    BY <1>3
  <2>7. Doing(r)'
    <3>1. ~lapsed' => Settled(r.snap)
      BY <1>2, <2>2 DEF Doing, Restore
    <3>2. ASSUME r.ok PROVE Back(r, k + 1)'
      <4>1. Restored(c, k) /\ Back(q, k)
        BY <1>3, <1>4, <2>2, <2>6, <3>2
      <4>. QED
        BY <2>2, <2>6, <4>1 DEF Restored, Back
    <3>3. CASE k = 3
      <4>1. r.pc = "stop" /\ (r.ok => Back(r, 4)')
        BY <2>2, <2>6, <3>2, <3>3
      <4>. QED
        BY <3>1, <4>1 DEF Doing, Settled
    <3>4. CASE k # 3
      <4>1. r.pc = "restore" /\ r.n \in 0..3 /\ (r.ok => Back(r, r.n)')
        BY <2>2, <2>3, <2>6, <3>2, <3>4
      <4>. QED
        BY <3>1, <4>1 DEF Doing, Settled
    <3>. QED
      BY <3>3, <3>4
  <2>8. r.pc \notin {"idle", "wait"} /\ Goes(c, r)
    BY <1>4, <2>1, <2>2
  <2>. QED
    BY <1>1, <2>2, <2>5, <2>7, <2>8, HolderStep DEF Restore
<1>5. \/ Goes(c, Rolled(q, TRUE)) /\ Restored(c, n)
      \/ Goes(c, Rolled(q, FALSE)) /\ UNCHANGED <<desktop, profs, conv, upKey, saved>>
  BY Zenon DEF Restore, Rolled
<1>. QED
  BY <1>4, <1>5

\* The rollback has put everything back: what the next call relies on is there.
LEMMA BackIsSettled ==
  ASSUME NEW r, Back(r, 4), Settled(r.snap)
  PROVE  Settled(Managed)
  BY DEF Back, Settled, Managed

\* When the files agree and conversion is on, they hold the settings of one listener.
LEMMA ConvertersAre ==
  ASSUME TypeOK, Settled(Managed), saved.enabled
  PROVE  /\ saved = [enabled |-> TRUE, listen |-> saved.listen, target |-> saved.target]
         /\ \A f \in FormatSet : conv[f] = [key |-> conv["anthropic"].key, listen |-> saved.listen]
         /\ profs = FormatSet
  BY ConfigIs DEF TypeOK, Settled, Managed

\* The saved configuration is one of the server.
LEMMA SavedServed ==
  ASSUME TypeOK, Startable
  PROVE  SavedConfig \in Served
<1>1. saved.listen \in Ports /\ saved.target \in Targets
  BY DEF TypeOK, Config, Startable, Present
<1>2. conv["anthropic"].key \in Nat /\ upKey[saved.target] \in UpKeys
  BY <1>1 DEF TypeOK, Entry, FormatSet
<1>. QED
  BY <1>1, <1>2 DEF SavedConfig, Served

\* Serving nothing is something to serve.
LEMMA OffServed == Off \in Served
<1>1. 0 \in UpKeys
  BY ConversionAssumption DEF UpKeys
<1>. QED
  BY <1>1, ConversionAssumption DEF Off, Served

\* The adapter is closed, and the call answers.
LEMMA StopStep ==
  ASSUME IInv, NEW c \in Callers, Stop(c)
  PROVE  IInv'
<1>1. Holds(c)
  BY DEF Stop, At, Holds
<1>2. calls[c] \in CallRecord /\ Doing(calls[c]) /\ calls[c].pc = "stop"
  BY <1>1, Holder DEF Stop, At
<1>3. http' = None /\ bound' = {} /\ ListenerOwnsConfig'
  BY DetachedOwns DEF IInv, Stop
<1>4. cfg' \in Served
  BY OffServed DEF Stop, IInv, TypeOK
<1>5. ASSUME NEW ok \in BOOLEAN, Return(c, ok)
      PROVE  IInv'
  <2>1. TypeOK'
    BY <1>3, <1>4, <1>5, EndsTyped DEF IInv, Stop, Return, TypeOK
  <2>2. ASSUME ~lapsed'
        PROVE  Settled(Managed)' /\ ServesWhatIsSaved'
    <3>1. Back(calls[c], 4) /\ Settled(calls[c].snap)
      BY <1>2, <1>5, <2>2 DEF Return, Doing
    <3>2. Settled(Managed)
      BY <3>1, BackIsSettled
    <3>. QED
      BY <1>3, <3>2 DEF Stop, files, Settled, Managed, ServesWhatIsSaved
  <2>. QED
    BY <1>1, <1>3, <1>5, <2>1, <2>2, HolderEnds DEF Return
<1>6. CASE Goto(c, "start") /\ UNCHANGED <<mu, lapsed>>
  <2>1. "start" \in Steps \ {"idle", "wait"}
    BY DEF Steps
  <2>2. ASSUME NEW r \in CallRecord, r.pc = "start", Same(r, calls[c])
        PROVE  Doing(r)'
    BY <1>2, <1>3, <1>6, <2>2 DEF Stop, files, Doing, Same, Back, Settled
  <2>. QED
    BY <1>1, <1>3, <1>4, <1>6, <2>1, <2>2, NextStage DEF Stop, files, IInv, TypeOK
<1>. QED
  BY <1>5, <1>6 DEF Stop

\* startSavedConversion, the end of every rollback.
LEMMA StartStep ==
  ASSUME IInv, NEW c \in Callers, Start(c)
  PROVE  IInv'
<1>1. Holds(c)
  BY DEF Start, At, Holds
<1>2. calls[c] \in CallRecord /\ Doing(calls[c]) /\ calls[c].pc = "start" /\ http = None
  BY <1>1, Holder DEF Start, At, Doing
<1>3. ASSUME NEW ok \in BOOLEAN, Return(c, ok), ListenerOwnsConfig',
             cfg' \in Served, http' \in Ports \cup {None}, bound' \subseteq Ports,
             http' # None => saved.enabled /\ http' = saved.listen /\ cfg' = SavedConfig
      PROVE  IInv'
  <2>1. TypeOK'
    BY <1>3, EndsTyped DEF IInv, Start, Return, TypeOK
  <2>2. ASSUME ~lapsed'
        PROVE  Settled(Managed)' /\ ServesWhatIsSaved'
    <3>1. Back(calls[c], 4) /\ Settled(calls[c].snap)
      BY <1>2, <1>3, <2>2 DEF Return, Doing
    <3>2. Settled(Managed)
      BY <3>1, BackIsSettled
    <3>3. UNCHANGED <<saved, conv, profs, upKey, desktop>>
      BY DEF Start, files
    <3>4. Settled(Managed)'
      BY <3>2, <3>3 DEF Settled, Managed
    <3>5. ASSUME http' # None
          PROVE  /\ saved' = [enabled |-> TRUE, listen |-> http', target |-> cfg'.target]
                 /\ \A f \in FormatSet : conv'[f] = [key |-> cfg'.key, listen |-> http']
                 /\ profs' = FormatSet
      <4>1. saved.enabled /\ http' = saved.listen /\ cfg'.target = saved.target /\ cfg'.key = conv["anthropic"].key
        BY <1>3, <3>5 DEF SavedConfig
      <4>. QED
        BY <3>2, <3>3, <4>1, ConvertersAre DEF IInv
    <3>. QED
      BY <3>4, <3>5 DEF ServesWhatIsSaved
  <2>. QED
    BY <1>1, <1>3, <2>1, <2>2, HolderEnds DEF Return
<1>4. CASE UNCHANGED server /\ \E ok \in BOOLEAN : Return(c, ok)
  BY <1>2, <1>3, <1>4 DEF server, IInv, TypeOK, ListenerOwnsConfig
<1>5. CASE saved.enabled /\ Startable /\ Opens(SavedConfig) /\ Return(c, TRUE)
  <2>. DEFINE conf == SavedConfig
  <2>1. conf \in Served /\ conf.enabled /\ conf.listen = saved.listen
    BY <1>5, SavedServed DEF IInv, SavedConfig
  <2>. HIDE DEF conf
  <2>2. Opens(conf)
    BY <1>5 DEF conf
  <2>3. /\ cfg' = conf /\ http' = conf.listen /\ bound' = {conf.listen} /\ conf.listen \in Ports
        /\ ListenerOwnsConfig'
    BY <1>2, <2>1, <2>2, OpensOwns DEF IInv
  <2>. QED
    BY <1>3, <1>5, <2>1, <2>3 DEF conf
<1>6. CASE Startable /\ Refused(SavedConfig) /\ Return(c, FALSE)
  <2>1. SavedConfig \in Served
    BY <1>6, SavedServed DEF IInv
  <2>2. cfg' \in Served /\ http' = None /\ bound' = bound /\ ListenerOwnsConfig'
    BY <1>2, <1>6, <2>1, RefusedOwns DEF IInv
  <2>. QED
    BY <1>3, <1>6, <2>2 DEF IInv, TypeOK
<1>. QED
  BY <1>4, <1>5, <1>6 DEF Start
-----------------------------------------------------------------------------
(* Calls that begin.                                                       *)

\* A call that does not hold conversionMu goes on and does not take it.
LEMMA OutsideStep ==
  ASSUME IInv, NEW c \in Callers, ~Holds(c), NEW r \in CallRecord, r.pc \in {"idle", "wait"}, Goes(c, r),
         UNCHANGED <<files, server, world, mu, lapsed, made>>, begun' \in 0..MaxCalls
  PROVE  IInv'
<1>1. calls'[c] = r /\ \A d \in Callers : d # c => calls'[d] = calls[d]
  BY Going DEF IInv
<1>2. TypeOK' /\ ListenerOwnsConfig'
  BY Going DEF IInv, TypeOK, ListenerOwnsConfig, files, server, world
<1>3. \A d \in Callers : (Holds(d)' <=> Holds(d)) /\ (Holds(d) => calls'[d] = calls[d])
  BY <1>1 DEF Holds
<1>4. ASSUME NEW d \in Callers, Holds(d)'
      PROVE  Doing(calls[d])'
  <2>1. Doing(calls[d]) /\ calls'[d] = calls[d]
    BY <1>3, <1>4 DEF IInv, Held
  <2>. QED
    BY <2>1 DEF Doing, Filled, Stored, Back, Settled, files, server
<1>5. Held'
  BY <1>3, <1>4 DEF IInv, Held
<1>6. Between'
  BY DEF IInv, Between, Settled, Managed, ServesWhatIsSaved, files, server
<1>. QED
  BY <1>2, <1>5, <1>6 DEF IInv

Reached(k, w) == [Idle EXCEPT !.pc = "wait", !.kind = k, !.want = w]

\* The record of a call that waits for the lock.
LEMMA CalledRecord ==
  ASSUME NEW k \in Kinds, NEW w \in Config
  PROVE  Reached(k, w) \in CallRecord /\ Reached(k, w).pc = "wait"
<1>. DEFINE d1 == [Idle EXCEPT !.pc = "wait"]
            d2 == [d1 EXCEPT !.kind = k]
            d == [d2 EXCEPT !.want = w]
<1>1. "wait" \in Steps
  BY DEF Steps
<1>2. d1 \in CallRecord /\ d1.pc = "wait"
  BY <1>1, IdleRecord, OneField DEF CallRecord
<1>3. Reached(k, w) = d
  BY DEF Reached
<1>. HIDE DEF d1
<1>4. d2 \in CallRecord /\ d2.pc = "wait"
  BY <1>2, OneField DEF CallRecord
<1>. HIDE DEF d2
<1>5. d \in CallRecord /\ d.pc = "wait"
  BY <1>4, OneField DEF CallRecord
<1>. QED
  BY <1>3, <1>5

\* What the callers ask for are settings.
LEMMA WantedConfig ==
  ASSUME TypeOK, NEW k \in Kinds
  PROVE  Wanted(k) \subseteq Config
  BY DEF Wanted, TypeOK, Config, Kinds

\* A caller asks for new settings.
LEMMA CallStep ==
  ASSUME IInv, NEW c \in Callers, Call(c)
  PROVE  IInv'
<1>1. ~Holds(c)
  BY DEF Call, At, Holds
<1>2. PICK k \in Kinds : \E w \in Wanted(k) : Goes(c, Reached(k, w))
  BY DEF Call, Reached
<1>3. PICK w \in Wanted(k) : Goes(c, Reached(k, w))
  BY <1>2
<1>4. PICK r : r = Reached(k, w)
  OBVIOUS
<1>5. r \in CallRecord /\ r.pc = "wait" /\ Goes(c, r)
  BY <1>3, <1>4, WantedConfig, CalledRecord DEF IInv
<1>6. begun' \in 0..MaxCalls
  BY ConversionAssumption DEF Call, IInv, TypeOK
<1>. QED
  BY <1>1, <1>5, <1>6, OutsideStep DEF Call

\* conversionMu is taken.
Acquired(q, p, w, k, m) == [q EXCEPT !.pc = p, !.want = w, !.key = k, !.snap = m]

\* The record of a call that has got the lock, with the snapshot it took.
LEMMA AcquiredRecord ==
  ASSUME NEW q \in CallRecord, NEW p \in Steps, NEW w \in Config, NEW k \in Nat, NEW m \in Snapshot,
         NEW r, r = Acquired(q, p, w, k, m)
  PROVE  r \in CallRecord /\ r.pc = p /\ r.snap = m
<1>. DEFINE d1 == [q EXCEPT !.pc = p]
            d2 == [d1 EXCEPT !.want = w]
            d3 == [d2 EXCEPT !.key = k]
            d == [d3 EXCEPT !.snap = m]
<1>1. r = d
  BY DEF Acquired
<1>2. d1 \in CallRecord /\ d1.pc = p
  BY OneField DEF CallRecord
<1>. HIDE DEF d1
<1>3. d2 \in CallRecord /\ d2.pc = p
  BY <1>2, OneField DEF CallRecord
<1>. HIDE DEF d2
<1>4. d3 \in CallRecord /\ d3.pc = p
  BY <1>3, OneField DEF CallRecord
<1>. HIDE DEF d3
<1>5. d \in CallRecord /\ d.pc = p /\ d.snap = m
  BY <1>4, OneField DEF CallRecord
<1>. HIDE DEF d
<1>. QED
  BY <1>1, <1>5

\* What a start resumes are the settings on the disk.
LEMMA ResumedConfig ==
  ASSUME TypeOK, NEW c \in Callers
  PROVE  Resumed(c) \subseteq Config
<1>1. calls[c].want \in Config /\ calls[c].kind \in Kinds
  BY DEF TypeOK, CallRecord
<1>2. saved \in Config
  BY DEF TypeOK
<1>3. \A t \in Targets : [saved EXCEPT !.enabled = TRUE, !.target = t] \in Config
  BY <1>2 DEF Config
<1>4. CASE calls[c].kind = "regenerate"
  BY <1>2, <1>4 DEF Resumed
<1>5. CASE calls[c].kind = "desktop"
  <2>1. Resumed(c) = {[saved EXCEPT !.enabled = TRUE, !.target = t] :
                        t \in {u \in Targets : state[u] = "chat" /\ upKey[u] # 0}}
    BY <1>5 DEF Resumed
  <2>. QED
    BY <1>3, <2>1
<1>6. CASE calls[c].kind \in {"save", "enabled", "target"}
  BY <1>1, <1>6 DEF Resumed
<1>. QED
  BY <1>1, <1>4, <1>5, <1>6 DEF Kinds

\* A caller gets conversionMu and takes its snapshot.
LEMMA AcquireStep ==
  ASSUME IInv, NEW c \in Callers, Acquire(c)
  PROVE  IInv'
<1>1. ~Holds(c) /\ mu = None /\ calls[c] \in CallRecord
  BY DEF Acquire, At, Holds, IInv, TypeOK
<1>2. CASE Goes(c, Idle) /\ UNCHANGED <<mu, made>>
  <2>1. begun' \in 0..MaxCalls
    BY DEF Acquire, IInv, TypeOK
  <2>. QED
    BY <1>1, <1>2, <2>1, IdleRecord, OutsideStep DEF Acquire
<1>. DEFINE p == IF calls[c].kind = "regenerate" THEN "rotate" ELSE "check"
            k == IF calls[c].kind = "regenerate" THEN FreshKey ELSE 0
<1>3. ASSUME NEW w \in Resumed(c), mu' = c, made' \in Nat, Goes(c, Acquired(calls[c], p, w, k, Managed))
      PROVE  IInv'
  <2>1. PICK r : r = Acquired(calls[c], p, w, k, Managed)
    OBVIOUS
  <2>2. p \in Steps /\ k \in Nat /\ w \in Config
    BY ResumedConfig DEF Steps, IInv, TypeOK, FreshKey
  <2>3. Managed \in Snapshot
    BY ManagedIsSnapshot DEF IInv
  <2>4. r \in CallRecord /\ r.pc = p /\ r.snap = Managed
    BY <1>1, <2>1, <2>2, <2>3, AcquiredRecord
  <2>5. Goes(c, r)
    BY <1>3, <2>1
  <2>6. calls'[c] = r /\ \A d \in Callers : d # c => calls'[d] = calls[d]
    BY <2>4, <2>5, Going DEF IInv
  <2>7. TypeOK' /\ ListenerOwnsConfig'
    BY <1>3, <2>4, <2>5, Going DEF IInv, TypeOK, ListenerOwnsConfig, Acquire, files, server, world
  <2>8. \A d \in Callers : ~Holds(d)
    BY <1>1, ConversionAssumption DEF IInv, Held
  <2>9. \A d \in Callers : Holds(d)' <=> d = c
    BY <2>4, <2>6, <2>8 DEF Holds
  <2>10. Doing(r)'
    <3>1. ~lapsed' => Settled(r.snap)
      BY <1>1, <2>4 DEF IInv, Between, Acquire
    <3>. QED
      BY <2>4, <3>1 DEF Doing, Settled
  <2>11. Held'
    BY <1>3, <2>6, <2>9, <2>10 DEF Held
  <2>12. Between'
    BY <1>3, ConversionAssumption DEF Between
  <2>. QED
    BY <2>7, <2>11, <2>12 DEF IInv
<1>4. FreshKey \in Nat /\ made \in Nat
  BY DEF IInv, TypeOK, FreshKey
<1>. QED
  BY <1>2, <1>3, <1>4 DEF Acquire, Acquired
-----------------------------------------------------------------------------
(* What happens outside the calls.                                         *)

\* Edits that leave calls, settings and converters as they are.
LEMMA AroundStep ==
  ASSUME IInv, TypeOK', ListenerOwnsConfig', UNCHANGED <<calls, mu, lapsed, saved, conv, profs, desktop, cfg, http>>
  PROVE  IInv'
<1>1. ASSUME NEW c \in Callers, Holds(c)
      PROVE  Doing(calls[c])'
  <2>1. Doing(calls[c])
    BY <1>1 DEF IInv, Held
  <2>. QED
    BY <2>1 DEF Doing, Filled, Stored, Back, Settled
<1>2. Held'
  BY <1>1 DEF IInv, Held, Holds
<1>3. Between'
  BY DEF IInv, Between, Settled, Managed, ServesWhatIsSaved
<1>. QED
  BY <1>2, <1>3 DEF IInv

\* Providers, other programs and requests go on meanwhile.
LEMMA EditStep ==
  ASSUME IInv, \/ \E t \in Targets : EditKey(t) \/ EditProfile(t)
               \/ \E p \in Ports : OtherProgram(p) \/ Request(p)
               \/ Follow \/ Answer
  PROVE  IInv'
<1>1. ASSUME NEW t \in Targets, EditKey(t)
      PROVE  TypeOK'
  <2>1. events' \in 0..MaxEvents /\ 0 \in UpKeys /\ events + 2 \in UpKeys
    BY <1>1, ConversionAssumption DEF EditKey, Event, UpKeys, IInv, TypeOK
  <2>2. upKey' \in [Targets -> UpKeys]
    BY <1>1, <2>1 DEF EditKey, IInv, TypeOK
  <2>. QED
    BY <1>1, <2>1, <2>2 DEF EditKey, IInv, TypeOK, server
<1>2. ASSUME Event
      PROVE  events' \in 0..MaxEvents
  BY <1>2, ConversionAssumption DEF Event, IInv, TypeOK
<1>3. ASSUME NEW t \in Targets, EditProfile(t)
      PROVE  TypeOK'
  BY <1>2, <1>3 DEF EditProfile, IInv, TypeOK, server
<1>4. ASSUME NEW p \in Ports, OtherProgram(p)
      PROVE  TypeOK'
  BY <1>2, <1>4 DEF OtherProgram, IInv, TypeOK, server, files
<1>5. ASSUME NEW p \in Ports, Request(p)
      PROVE  TypeOK'
  BY <1>5 DEF Request, IInv, TypeOK, server, files
<1>6. ASSUME Follow
      PROVE  TypeOK'
  BY <1>2, <1>6 DEF Follow, IInv, TypeOK, server, FormatSet
<1>7. ASSUME Answer
      PROVE  TypeOK'
  BY <1>7 DEF Answer, IInv, TypeOK, server, files
<1>8. UNCHANGED <<calls, mu, lapsed, saved, conv, profs, desktop, cfg, http, bound>>
  BY DEF EditKey, EditProfile, OtherProgram, Request, Follow, Answer, server, files
<1>9. ListenerOwnsConfig'
  BY <1>8 DEF IInv, ListenerOwnsConfig
<1>. QED
  BY <1>1, <1>3, <1>4, <1>5, <1>6, <1>7, <1>8, <1>9, AroundStep

\* The application shuts down: whatever call is in progress finds no listener.
LEMMA CloseStep ==
  ASSUME IInv, Close
  PROVE  IInv'
<1>1. http' = None /\ bound' = {} /\ ListenerOwnsConfig'
  BY DetachedOwns DEF IInv, Close
<1>2. events' \in 0..MaxEvents
  BY ConversionAssumption DEF Close, Event, IInv, TypeOK
<1>3. TypeOK'
  BY <1>1, <1>2 DEF Close, IInv, TypeOK, files, Served
<1>4. ASSUME NEW c \in Callers, Holds(c)
      PROVE  Doing(calls[c])'
  <2>1. Doing(calls[c])
    BY <1>4 DEF IInv, Held
  <2>. QED
    BY <1>1, <2>1 DEF Close, Doing, Filled, Stored, Back, Settled, files
<1>5. Held'
  BY <1>4 DEF IInv, Held, Holds, Close
<1>. QED
  BY <1>1, <1>3, <1>5 DEF IInv, Between, Close

\* The process dies and starts again.
LEMMA RestartStep ==
  ASSUME IInv, Restart
  PROVE  IInv'
<1>. DEFINE starts == saved.enabled /\ Startable
<1>1. /\ cfg' \in Served /\ http' \in Ports \cup {None} /\ bound' \subseteq Ports /\ ListenerOwnsConfig'
      /\ http' # None => saved.enabled /\ http' = saved.listen /\ cfg' = SavedConfig
  <2>1. CASE starts /\ saved.listen \notin busy
    <3>1. cfg' = SavedConfig /\ http' = saved.listen /\ bound' = {saved.listen}
      BY <2>1 DEF Restart
    <3>2. SavedConfig \in Served /\ SavedConfig.enabled /\ SavedConfig.listen = saved.listen
      BY <2>1, SavedServed DEF IInv, SavedConfig
    <3>3. saved.listen \in Ports
      BY DEF IInv, TypeOK, Config
    <3>. QED
      BY <2>1, <3>1, <3>2, <3>3, ConversionAssumption DEF ListenerOwnsConfig
  <2>2. CASE ~(starts /\ saved.listen \notin busy)
    <3>1. http' = None /\ bound' = {} /\ cfg' = IF starts THEN [SavedConfig EXCEPT !.enabled = FALSE] ELSE Off
      BY <2>2 DEF Restart
    <3>2. cfg' \in Served
      BY <3>1, SavedServed, OffServed DEF IInv, Served
    <3>. QED
      BY <3>1, <3>2 DEF ListenerOwnsConfig
  <2>. QED
    BY <2>1, <2>2
<1>2. /\ calls' = [c \in Callers |-> Idle] /\ mu' = None /\ req' = None
      /\ lapsed' = (lapsed \/ mu # None \/ (saved.enabled /\ http' = None))
      /\ UNCHANGED <<saved, conv, profs, upKey, state, desktop, agent, busy, events, made, begun>>
  BY DEF Restart, files
<1>3. TypeOK'
  BY <1>1, <1>2, IdleRecord DEF IInv, TypeOK
<1>4. Held'
  BY <1>2, IdleRecord, ConversionAssumption DEF Held, Holds
<1>5. ASSUME ~lapsed'
      PROVE  Settled(Managed)' /\ ServesWhatIsSaved'
  <2>1. Settled(Managed)
    BY <1>2, <1>5 DEF IInv, Between
  <2>2. Settled(Managed)'
    BY <1>2, <2>1 DEF Settled, Managed
  <2>3. ASSUME http' # None
        PROVE  /\ saved' = [enabled |-> TRUE, listen |-> http', target |-> cfg'.target]
               /\ \A f \in FormatSet : conv'[f] = [key |-> cfg'.key, listen |-> http']
               /\ profs' = FormatSet
    <3>1. saved.enabled /\ http' = saved.listen /\ cfg'.target = saved.target /\ cfg'.key = conv["anthropic"].key
      BY <1>1, <2>3 DEF SavedConfig
    <3>. QED
      BY <1>2, <2>1, <3>1, ConvertersAre DEF IInv
  <2>. QED
    BY <2>2, <2>3 DEF ServesWhatIsSaved
<1>. QED
  BY <1>1, <1>3, <1>4, <1>5 DEF IInv, Between
-----------------------------------------------------------------------------
(* The theorems.                                                           *)

\* The initial states keep the invariant.
LEMMA Beginning == Init => IInv
<1>. SUFFICES ASSUME Init PROVE IInv
  OBVIOUS
<1>1. Defaults \in Config /\ NoEntry \in Entry /\ ~Defaults.enabled
  BY ConversionAssumption DEF Defaults, Config, NoEntry, Entry
<1>2. 0 \in 0..MaxCalls /\ 0 \in 0..MaxEvents /\ 1 \in UpKeys
  BY ConversionAssumption DEF UpKeys
<1>3. TypeOK
  BY <1>1, <1>2, IdleRecord, OffServed DEF Init, TypeOK
<1>4. ListenerOwnsConfig
  BY DEF Init, ListenerOwnsConfig
<1>5. Held
  BY IdleRecord, ConversionAssumption DEF Init, Held, Holds
<1>6. Between
  BY <1>1 DEF Init, Between, Settled, Managed, ServesWhatIsSaved
<1>. QED
  BY <1>3, <1>4, <1>5, <1>6 DEF IInv

\* Every step keeps the invariant.
LEMMA Inductive == IInv /\ [Next]_vars => IInv'
<1>. SUFFICES ASSUME IInv, [Next]_vars PROVE IInv'
  OBVIOUS
<1>1. CASE UNCHANGED vars
  <2>1. TypeOK' /\ ListenerOwnsConfig'
    BY <1>1 DEF IInv, TypeOK, ListenerOwnsConfig, vars, files, server, world
  <2>. QED
    BY <1>1, <2>1, AroundStep DEF vars, files, server, world
<1>2. ASSUME NEW c \in Callers, Call(c) \/ Step(c)
      PROVE  IInv'
  BY <1>2, CallStep, AcquireStep, RotateStep, RotatedStep, CheckStep, WriteStep, WriteSettingsStep,
     DetachStep, ListenStep, ConfigureStep, CommitStep, RestoreStep, StopStep, StartStep DEF Step
<1>3. CASE Environment
  BY <1>3, EditStep, CloseStep, RestartStep DEF Environment
<1>. QED
  BY <1>1, <1>2, <1>3 DEF Next

\* The inductive invariant of the adapter.
THEOREM InvariantHolds == Spec => []IInv
  BY Beginning, Inductive, PTL DEF Spec

\* Types and the one listener hold for any number of calls, ports and targets.
THEOREM AdapterStaysSafe == Spec => []AdapterSafe
<1>1. IInv => AdapterSafe
  BY DEF IInv, AdapterSafe
<1>. QED
  BY <1>1, InvariantHolds, PTL

\* Whatever calls were committed, rolled back or cut off, between calls a running
\* adapter is the one conversion.json and the converter Providers describe.
THEOREM ServedIsSaved == Spec => []ServesWhatIsSaved
<1>1. IInv => ServesWhatIsSaved
  BY DEF IInv, Between, ServesWhatIsSaved
<1>. QED
  BY <1>1, InvariantHolds, PTL

\* A rollback that reports no failure has put back every file the call found.
THEOREM FailuresAreUndone == Spec => FailureUndone
<1>. DEFINE Undone ==
       \A c \in Callers :
         /\ Stop(c) \/ Start(c)
         /\ mu' = None /\ lapsed' = lapsed /\ ~lapsed
         => LET old == calls[c].snap IN
            <<saved, conv, profs, desktop>>' = <<old.saved, old.conv, old.profs, old.desktop>>
<1>1. ASSUME IInv, [Next]_vars
      PROVE  [Undone]_vars
  <2>. SUFFICES ASSUME NEW c \in Callers, Stop(c) \/ Start(c), mu' = None, lapsed' = lapsed, ~lapsed
                PROVE  <<saved, conv, profs, desktop>>' = <<calls[c].snap.saved, calls[c].snap.conv,
                                                            calls[c].snap.profs, calls[c].snap.desktop>>
    OBVIOUS
  <2>1. Holds(c) /\ calls[c].pc \in {"stop", "start"}
    BY DEF Stop, Start, At, Holds
  <2>2. mu # None /\ Doing(calls[c])
    BY <1>1, <2>1, Holder
  <2>3. calls[c].ok
    BY <2>2 DEF Stop, Start, Return
  <2>4. Back(calls[c], 4)
    BY <2>1, <2>2, <2>3 DEF Doing
  <2>5. UNCHANGED <<saved, conv, profs, desktop>>
    BY DEF Stop, Start, files
  <2>. QED
    BY <2>4, <2>5 DEF Back
<1>. QED
  BY <1>1, InvariantHolds, PTL DEF Spec, FailureUndone
-----------------------------------------------------------------------------
(* Requests: what is in a list, and what is carried by the messages written    *)
(* and by what is pending.                                                     *)

In(l, x) == \E j \in DOMAIN l : l[j] = x
Single(l, x) == \E j \in DOMAIN l : l[j] = x /\ \A i \in DOMAIN l : l[i] = x => i = j

\* x is in one place of the lists and the pending list.
OnceWith(A, P, x) ==
  \/ /\ \E n \in DOMAIN A : Single(A[n], x) /\ \A m \in DOMAIN A : m # n => ~In(A[m], x)
     /\ ~In(P, x)
  \/ Single(P, x) /\ \A m \in DOMAIN A : ~In(A[m], x)

\* So is everything in X, and they hold nothing else.
Carried(A, P, X) ==
  /\ \A x \in X : OnceWith(A, P, x)
  /\ \A x : In(P, x) => x \in X
  /\ \A m \in DOMAIN A : \A x : In(A[m], x) => x \in X

\* Nothing is in an empty list.
LEMMA NothingIn == \A x : ~In(<< >>, x)
BY DEF In

\* What is in one place of a list is in it.
LEMMA SingleIn == ASSUME NEW l, NEW x, Single(l, x) PROVE In(l, x)
BY DEF Single, In

\* Two sequences, one after the other.
LEMMA ConcatFacts ==
  ASSUME NEW S, NEW s \in Seq(S), NEW t \in Seq(S)
  PROVE  /\ s \o t \in Seq(S) /\ DOMAIN (s \o t) = 1 .. Len(s) + Len(t)
         /\ DOMAIN s = 1 .. Len(s) /\ DOMAIN t = 1 .. Len(t)
         /\ Len(s) \in Nat /\ Len(t) \in Nat /\ Len(s \o t) = Len(s) + Len(t)
         /\ \A i \in 1 .. Len(s) : (s \o t)[i] = s[i]
         /\ \A i \in 1 .. Len(t) : (s \o t)[Len(s) + i] = t[i]
         /\ \A i \in 1 .. Len(s) + Len(t) : i \notin 1 .. Len(s) =>
              i - Len(s) \in 1 .. Len(t) /\ (s \o t)[i] = t[i - Len(s)]
<1>1. /\ s \o t \in Seq(S) /\ Len(s \o t) = Len(s) + Len(t)
      /\ Len(s) \in Nat /\ Len(t) \in Nat
      /\ DOMAIN s = 1 .. Len(s) /\ DOMAIN t = 1 .. Len(t) /\ DOMAIN (s \o t) = 1 .. Len(s) + Len(t)
  OBVIOUS
<1>2. \A i \in 1 .. Len(s) : (s \o t)[i] = s[i]
  OBVIOUS
<1>3. ASSUME NEW i \in 1 .. Len(s) + Len(t), i \notin 1 .. Len(s)
      PROVE  i - Len(s) \in 1 .. Len(t) /\ (s \o t)[i] = t[i - Len(s)]
  <2>1. i - Len(s) \in 1 .. Len(t)
    BY <1>1, <1>3
  <2> QED
    BY <1>1, <1>3, <2>1
<1>4. ASSUME NEW i \in 1 .. Len(t)
      PROVE  (s \o t)[Len(s) + i] = t[i]
  <2>1. Len(s) + i \in 1 .. Len(s) + Len(t) /\ Len(s) + i \notin 1 .. Len(s) /\ Len(s) + i - Len(s) = i
    BY <1>1, <1>4
  <2> QED
    BY <1>3, <2>1
<1> QED
  BY <1>1, <1>2, <1>3, <1>4

\* What two lists hold, one after the other.
LEMMA ConcatHolds ==
  ASSUME NEW S, NEW s \in Seq(S), NEW t \in Seq(S), NEW x
  PROVE  /\ In(s \o t, x) <=> In(s, x) \/ In(t, x)
         /\ Single(s, x) /\ ~In(t, x) => Single(s \o t, x)
         /\ Single(t, x) /\ ~In(s, x) => Single(s \o t, x)
<1> DEFINE both == s \o t
           p == Len(s)
           q == Len(t)
<1>1. /\ DOMAIN both = 1 .. p + q /\ DOMAIN s = 1 .. p /\ DOMAIN t = 1 .. q /\ p \in Nat /\ q \in Nat
      /\ \A i \in 1 .. p : both[i] = s[i]
      /\ \A i \in 1 .. q : both[p + i] = t[i]
      /\ \A i \in 1 .. p + q : i \notin 1 .. p => i - p \in 1 .. q /\ both[i] = t[i - p]
  BY ConcatFacts
<1> HIDE DEF both, p, q
<1>2. In(both, x) <=> In(s, x) \/ In(t, x)
  <2>1. ASSUME In(s, x) PROVE In(both, x)
    BY <1>1, <2>1 DEF In
  <2>2. ASSUME In(t, x) PROVE In(both, x)
    <3>1. PICK j \in 1 .. q : t[j] = x
      BY <1>1, <2>2 DEF In
    <3>2. p + j \in DOMAIN both /\ both[p + j] = x
      BY <1>1, <3>1
    <3> QED
      BY <3>2 DEF In
  <2>3. ASSUME In(both, x) PROVE In(s, x) \/ In(t, x)
    BY <1>1, <2>3 DEF In
  <2> QED
    BY <2>1, <2>2, <2>3
<1>3. ASSUME Single(s, x), ~In(t, x)
      PROVE  Single(both, x)
  <2>1. PICK j \in 1 .. p : s[j] = x /\ \A i \in 1 .. p : s[i] = x => i = j
    BY <1>1, <1>3 DEF Single
  <2>2. j \in DOMAIN both /\ both[j] = x
    BY <1>1, <2>1
  <2>3. ASSUME NEW i \in DOMAIN both, both[i] = x PROVE i = j
    BY <1>1, <1>3, <2>1, <2>3 DEF In
  <2> QED
    BY <2>2, <2>3 DEF Single
<1>4. ASSUME Single(t, x), ~In(s, x)
      PROVE  Single(both, x)
  <2>1. PICK j \in 1 .. q : t[j] = x /\ \A i \in 1 .. q : t[i] = x => i = j
    BY <1>1, <1>4 DEF Single
  <2>2. p + j \in DOMAIN both /\ both[p + j] = x
    BY <1>1, <2>1
  <2>3. ASSUME NEW i \in DOMAIN both, both[i] = x PROVE i = p + j
    <3>1. i \notin 1 .. p
      BY <1>1, <1>4, <2>3 DEF In
    <3>2. i - p \in 1 .. q /\ t[i - p] = x
      BY <1>1, <2>3, <3>1
    <3>3. i - p = j
      BY <2>1, <3>2
    <3> QED
      BY <1>1, <2>3, <3>3
  <2> QED
    BY <2>2, <2>3 DEF Single
<1> QED
  BY <1>2, <1>3, <1>4 DEF both

\* One more element.
LEMMA AppendHolds ==
  ASSUME NEW S, NEW s \in Seq(S), NEW y \in S, NEW x
  PROVE  /\ In(Append(s, y), x) <=> In(s, x) \/ x = y
         /\ Single(s, x) /\ x # y => Single(Append(s, y), x)
         /\ ~In(s, y) => Single(Append(s, y), y)
<1>1. /\ Len(s) \in Nat /\ DOMAIN s = 1 .. Len(s) /\ DOMAIN Append(s, y) = 1 .. Len(s) + 1
      /\ \A i \in 1 .. Len(s) : Append(s, y)[i] = s[i]
      /\ Append(s, y)[Len(s) + 1] = y
  OBVIOUS
<1> DEFINE n == Len(s)
           more == Append(s, y)
<1>2. /\ n \in Nat /\ DOMAIN s = 1 .. n /\ DOMAIN more = 1 .. n + 1 /\ more[n + 1] = y
      /\ \A i \in 1 .. n : more[i] = s[i]
      /\ \A i \in 1 .. n + 1 : i \in 1 .. n \/ i = n + 1
      /\ n + 1 \in 1 .. n + 1 /\ n + 1 \notin 1 .. n /\ \A i \in 1 .. n : i \in 1 .. n + 1
  BY <1>1
<1> HIDE DEF n, more
<1>3. In(more, x) <=> In(s, x) \/ x = y
  BY <1>2 DEF In
<1>4. Single(s, x) /\ x # y => Single(more, x)
  BY <1>2 DEF Single
<1>5. ~In(s, y) => Single(more, y)
  BY <1>2 DEF Single, In
<1> QED
  BY <1>3, <1>4, <1>5 DEF more

\* A new element joins what is pending.
LEMMA CarriedNew ==
  ASSUME NEW A, NEW S, NEW P \in Seq(S), NEW X, NEW y \in S, Carried(A, P, X), y \notin X
  PROVE  Carried(A, Append(P, y), X \cup {y})
<1> DEFINE Q == Append(P, y)
<1>1. /\ \A x : In(Q, x) <=> In(P, x) \/ x = y
      /\ \A x : Single(P, x) /\ x # y => Single(Q, x)
      /\ ~In(P, y) => Single(Q, y)
  BY AppendHolds
<1> HIDE DEF Q
<1>2. ASSUME NEW x \in X PROVE OnceWith(A, Q, x)
  <2>1. x # y /\ OnceWith(A, P, x)
    BY <1>2 DEF Carried
  <2> QED
    BY <1>1, <2>1 DEF OnceWith
<1>3. OnceWith(A, Q, y)
  BY <1>1 DEF OnceWith, Carried
<1> QED
  BY <1>1, <1>2, <1>3 DEF Carried, Q

\* What is pending becomes a list of its own.
LEMMA CarriedFlushed ==
  ASSUME NEW A, NEW B, NEW P, NEW X, NEW n \in Nat, Carried(A, P, X),
         DOMAIN A = 1 .. n, DOMAIN B = 1 .. n + 1, \A m \in 1 .. n : B[m] = A[m], B[n + 1] = P
  PROVE  Carried(B, << >>, X)
<1>1. /\ \A m \in 1 .. n + 1 : m \in 1 .. n \/ m = n + 1
      /\ n + 1 \in 1 .. n + 1 /\ n + 1 \notin 1 .. n /\ \A m \in 1 .. n : m \in 1 .. n + 1
  OBVIOUS
<1>2. ASSUME NEW x \in X PROVE OnceWith(B, << >>, x)
  <2>1. CASE Single(P, x) /\ \A m \in DOMAIN A : ~In(A[m], x)
    BY <1>1, <2>1, NothingIn DEF OnceWith
  <2>2. CASE ~In(P, x) /\ \E m \in DOMAIN A : Single(A[m], x) /\ \A k \in DOMAIN A : k # m => ~In(A[k], x)
    BY <1>1, <2>2, NothingIn DEF OnceWith
  <2> QED
    BY <1>2, <2>1, <2>2 DEF Carried, OnceWith
<1> QED
  BY <1>1, <1>2, NothingIn DEF Carried

\* Lists that are empty join the others.
LEMMA CarriedLonger ==
  ASSUME NEW A, NEW B, NEW P, NEW X, Carried(A, P, X), DOMAIN A \subseteq DOMAIN B,
         \A m \in DOMAIN A : B[m] = A[m], \A m \in DOMAIN B \ DOMAIN A : B[m] = << >>
  PROVE  Carried(B, P, X)
<1>1. ASSUME NEW x \in X PROVE OnceWith(B, P, x)
  <2>1. OnceWith(A, P, x)
    BY <1>1 DEF Carried
  <2>2. \A m \in DOMAIN B : In(B[m], x) => m \in DOMAIN A
    BY NothingIn
  <2> QED
    BY <2>1, <2>2 DEF OnceWith
<1> QED
  BY <1>1, NothingIn DEF Carried

\* What is pending joins one of the lists.
LEMMA CarriedJoined ==
  ASSUME NEW S, NEW A, NEW B, NEW P \in Seq(S), NEW X, Carried(A, P, X), NEW n \in DOMAIN A,
         A[n] \in Seq(S), DOMAIN B = DOMAIN A, \A m \in DOMAIN A : m # n => B[m] = A[m], B[n] = A[n] \o P
  PROVE  Carried(B, << >>, X)
<1>1. ASSUME NEW x
      PROVE  /\ In(B[n], x) <=> In(A[n], x) \/ In(P, x)
             /\ Single(A[n], x) /\ ~In(P, x) => Single(B[n], x)
             /\ Single(P, x) /\ ~In(A[n], x) => Single(B[n], x)
  BY ConcatHolds
<1>2. ASSUME NEW x \in X PROVE OnceWith(B, << >>, x)
  <2>1. CASE Single(P, x) /\ \A m \in DOMAIN A : ~In(A[m], x)
    BY <1>1, <2>1, NothingIn DEF OnceWith
  <2>2. CASE ~In(P, x) /\ \E m \in DOMAIN A : Single(A[m], x) /\ \A k \in DOMAIN A : k # m => ~In(A[k], x)
    <3>1. PICK m \in DOMAIN A : Single(A[m], x) /\ \A k \in DOMAIN A : k # m => ~In(A[k], x)
      BY <2>2
    <3>2. Single(B[m], x) /\ \A k \in DOMAIN B : k # m => ~In(B[k], x)
      BY <1>1, <2>2, <3>1
    <3> QED
      BY <3>1, <3>2, NothingIn DEF OnceWith
  <2> QED
    BY <1>2, <2>1, <2>2 DEF Carried, OnceWith
<1> QED
  BY <1>1, <1>2, NothingIn DEF Carried

\* With nothing pending, everything has one place in the lists.
LEMMA CarriedOnce ==
  ASSUME NEW A, NEW X, Carried(A, << >>, X), NEW x \in X
  PROVE  Once(A, x) /\ \E m \in DOMAIN A : In(A[m], x)
<1>1. PICK n \in DOMAIN A : Single(A[n], x) /\ \A m \in DOMAIN A : m # n => ~In(A[m], x)
  <2>1. ~Single(<< >>, x)
    BY SingleIn, NothingIn
  <2> QED
    BY <2>1 DEF Carried, OnceWith
<1>2. PICK j \in DOMAIN A[n] : A[n][j] = x /\ \A i \in DOMAIN A[n] : A[n][i] = x => i = j
  BY <1>1 DEF Single
<1>3. \A m \in DOMAIN A : \A i \in DOMAIN A[m] : A[m][i] = x => m = n /\ i = j
  BY <1>1, <1>2 DEF In
<1> QED
  BY <1>2, <1>3 DEF Once, In

-----------------------------------------------------------------------------
(* Requests: the answers to calls. *)

CallsOf(msgs) == [n \in DOMAIN msgs |-> msgs[n].calls]
WhyOf(msgs) == [n \in DOMAIN msgs |-> msgs[n].why]
Answers(m, y) == m.role = "tool" /\ m.id = y

\* The answers in the messages and the results that follow are those to Y, one each,
\* behind the messages with the calls.
ToolsFit(msgs, results, Y) ==
  /\ \A y \in Y : (\E n \in DOMAIN msgs : Answers(msgs[n], y)) \/ \E j \in DOMAIN results : results[j].id = y
  /\ \A n \in DOMAIN msgs : msgs[n].role = "tool" =>
       /\ msgs[n].id \in Y
       /\ \A m \in DOMAIN msgs : Answers(msgs[m], msgs[n].id) => m = n
       /\ \E m \in 1 .. n - 1 : In(msgs[m].calls, msgs[n].id)
  /\ \A j \in DOMAIN results :
       /\ results[j].id \in Y
       /\ results[j] = ToolResult(results[j].id)
       /\ \A i \in DOMAIN results : results[i].id = results[j].id => i = j
       /\ \A m \in DOMAIN msgs : ~Answers(msgs[m], results[j].id)
       /\ \E m \in DOMAIN msgs : In(msgs[m].calls, results[j].id)

\* Messages that are no answers join, and others keep what matters here.
LEMMA ToolsLonger ==
  ASSUME NEW A, NEW B, NEW results, NEW Y, ToolsFit(A, results, Y), DOMAIN A \subseteq DOMAIN B,
         \A n \in DOMAIN A : /\ 1 .. n - 1 \subseteq DOMAIN A
                             /\ B[n].role = A[n].role /\ B[n].id = A[n].id /\ B[n].calls = A[n].calls,
         \A n \in DOMAIN B \ DOMAIN A : B[n].role # "tool"
  PROVE  ToolsFit(B, results, Y)
<1>1. ASSUME NEW n \in DOMAIN B, B[n].role = "tool"
      PROVE  /\ B[n].id \in Y
             /\ \A m \in DOMAIN B : Answers(B[m], B[n].id) => m = n
             /\ \E m \in 1 .. n - 1 : In(B[m].calls, B[n].id)
  <2>1. n \in DOMAIN A /\ A[n].role = "tool" /\ A[n].id = B[n].id
    BY <1>1
  <2>2. PICK m \in 1 .. n - 1 : In(A[m].calls, A[n].id)
    BY <2>1 DEF ToolsFit
  <2>3. B[m].calls = A[m].calls
    BY <2>1, <2>2
  <2> QED
    BY <2>1, <2>2, <2>3 DEF ToolsFit, Answers
<1>2. ASSUME NEW y \in Y
      PROVE  (\E n \in DOMAIN B : Answers(B[n], y)) \/ \E j \in DOMAIN results : results[j].id = y
  BY DEF ToolsFit, Answers
<1>3. ASSUME NEW j \in DOMAIN results
      PROVE  /\ \A m \in DOMAIN B : ~Answers(B[m], results[j].id)
             /\ \E m \in DOMAIN B : In(B[m].calls, results[j].id)
  <2>1. PICK m \in DOMAIN A : In(A[m].calls, results[j].id)
    BY DEF ToolsFit
  <2>2. m \in DOMAIN B /\ B[m].calls = A[m].calls
    BY <2>1
  <2>3. ASSUME NEW k \in DOMAIN B, Answers(B[k], results[j].id)
        PROVE  FALSE
    BY <2>3 DEF ToolsFit, Answers
  <2> QED
    BY <2>1, <2>2, <2>3
<1> QED
  BY <1>1, <1>2, <1>3 DEF ToolsFit

\* One more result.
LEMMA ToolsNew ==
  ASSUME NEW A, NEW S, NEW results \in Seq(S), NEW Y, NEW y, ToolResult(y) \in S, y \notin Y,
         ToolsFit(A, results, Y), \E m \in DOMAIN A : In(A[m].calls, y)
  PROVE  ToolsFit(A, Append(results, ToolResult(y)), Y \cup {y})
<1> DEFINE more == Append(results, ToolResult(y))
           n == Len(results)
<1>1. /\ n \in Nat /\ DOMAIN results = 1 .. n /\ DOMAIN more = 1 .. n + 1 /\ more[n + 1] = ToolResult(y)
      /\ \A i \in 1 .. n : more[i] = results[i]
  OBVIOUS
<1>2. /\ \A i \in 1 .. n + 1 : i \in 1 .. n \/ i = n + 1
      /\ n + 1 \in 1 .. n + 1 /\ n + 1 \notin 1 .. n /\ \A i \in 1 .. n : i \in 1 .. n + 1
  BY <1>1
<1> HIDE DEF more, n
<1>3. ToolResult(y).id = y
  BY DEF ToolResult, Message
<1>4. \A m \in DOMAIN A : ~Answers(A[m], y)
  BY DEF ToolsFit, Answers
<1>5. ASSUME NEW j \in 1 .. n
      PROVE  /\ j \in DOMAIN results /\ more[j] = results[j] /\ results[j].id \in Y /\ results[j].id # y
             /\ results[j] = ToolResult(results[j].id)
             /\ \A i \in 1 .. n : results[i].id = results[j].id => i = j
             /\ \A m \in DOMAIN A : ~Answers(A[m], results[j].id)
             /\ \E m \in DOMAIN A : In(A[m].calls, results[j].id)
  BY <1>1 DEF ToolsFit
<1>6. ASSUME NEW j \in DOMAIN more
      PROVE  /\ more[j].id \in Y \cup {y}
             /\ more[j] = ToolResult(more[j].id)
             /\ \A i \in DOMAIN more : more[i].id = more[j].id => i = j
             /\ \A m \in DOMAIN A : ~Answers(A[m], more[j].id)
             /\ \E m \in DOMAIN A : In(A[m].calls, more[j].id)
  <2>1. CASE j = n + 1
    BY <1>1, <1>2, <1>3, <1>4, <1>5, <2>1
  <2>2. CASE j \in 1 .. n
    <3>1. \A i \in DOMAIN more : more[i].id = more[j].id => i = j
      BY <1>1, <1>2, <1>3, <1>5, <2>2
    <3> QED
      BY <1>5, <2>2, <3>1
  <2> QED
    BY <1>1, <1>2, <2>1, <2>2
<1>7. ASSUME NEW z \in Y \cup {y}
      PROVE  (\E m \in DOMAIN A : Answers(A[m], z)) \/ \E j \in DOMAIN more : more[j].id = z
  <2>1. CASE z = y
    BY <1>1, <1>2, <1>3, <2>1
  <2>2. CASE z \in Y
    BY <1>1, <1>2, <2>2 DEF ToolsFit
  <2> QED
    BY <2>1, <2>2
<1>8. \A m \in DOMAIN A : A[m].role = "tool" =>
       /\ A[m].id \in Y
       /\ \A k \in DOMAIN A : Answers(A[k], A[m].id) => k = m
       /\ \E k \in 1 .. m - 1 : In(A[k].calls, A[m].id)
  BY DEF ToolsFit
<1> QED
  BY <1>6, <1>7, <1>8 DEF ToolsFit, more

\* The results become messages, behind the others.
LEMMA ToolsFlushed ==
  ASSUME NEW S, NEW A \in Seq(S), NEW results \in Seq(S), NEW Y, ToolsFit(A, results, Y)
  PROVE  ToolsFit(A \o results, << >>, Y)
<1> DEFINE B == A \o results
           p == Len(A)
           q == Len(results)
<1>1. /\ p \in Nat /\ q \in Nat /\ DOMAIN A = 1 .. p /\ DOMAIN results = 1 .. q /\ DOMAIN B = 1 .. p + q
      /\ \A i \in 1 .. p : B[i] = A[i]
      /\ \A i \in 1 .. q : B[p + i] = results[i]
      /\ \A i \in 1 .. p + q : i \notin 1 .. p => i - p \in 1 .. q /\ B[i] = results[i - p]
  BY ConcatFacts
<1> HIDE DEF B, p, q
<1>2. \A j \in 1 .. q : results[j].role = "tool" /\ p + j \in 1 .. p + q
  BY <1>1 DEF ToolsFit, ToolResult, Message
<1>3. ASSUME NEW y \in Y
      PROVE  \E n \in DOMAIN B : Answers(B[n], y)
  <2>1. CASE \E n \in DOMAIN A : Answers(A[n], y)
    BY <1>1, <2>1
  <2>2. CASE \E j \in DOMAIN results : results[j].id = y
    <3>1. PICK j \in 1 .. q : results[j].id = y
      BY <1>1, <2>2
    <3>2. p + j \in DOMAIN B /\ B[p + j] = results[j] /\ results[j].role = "tool"
      BY <1>1, <1>2
    <3>3. Answers(B[p + j], y)
      BY <3>1, <3>2 DEF Answers
    <3> QED
      BY <3>2, <3>3
  <2> QED
    BY <2>1, <2>2 DEF ToolsFit
<1>4. ASSUME NEW n \in DOMAIN B, B[n].role = "tool"
      PROVE  /\ B[n].id \in Y
             /\ \A m \in DOMAIN B : Answers(B[m], B[n].id) => m = n
             /\ \E m \in 1 .. n - 1 : In(B[m].calls, B[n].id)
  <2>1. CASE n \in 1 .. p
    <3>1. /\ A[n].id \in Y /\ B[n] = A[n] /\ A[n].role = "tool" /\ n \in DOMAIN A
          /\ \A m \in 1 .. p : Answers(A[m], A[n].id) => m = n
          /\ \E m \in 1 .. n - 1 : In(A[m].calls, A[n].id)
      BY <1>1, <1>4, <2>1 DEF ToolsFit
    <3>2. ASSUME NEW m \in DOMAIN B, Answers(B[m], B[n].id) PROVE m = n
      <4>1. CASE m \in 1 .. p
        BY <1>1, <3>1, <3>2, <4>1
      <4>2. CASE m \notin 1 .. p
        <5>1. m - p \in DOMAIN results /\ results[m - p].id = A[n].id
          BY <1>1, <3>1, <3>2, <4>2 DEF Answers
        <5>2. ~Answers(A[n], results[m - p].id)
          BY <3>1, <5>1 DEF ToolsFit
        <5> QED
          BY <3>1, <5>1, <5>2 DEF Answers
      <4> QED
        BY <4>1, <4>2
    <3>3. \E m \in 1 .. n - 1 : In(B[m].calls, B[n].id)
      BY <1>1, <2>1, <3>1
    <3> QED
      BY <3>1, <3>2, <3>3
  <2>2. CASE n \notin 1 .. p
    <3>1. n - p \in 1 .. q /\ n - p \in DOMAIN results /\ B[n] = results[n - p] /\ n \in Int
      BY <1>1, <2>2
    <3>2. /\ results[n - p].id \in Y
          /\ \A i \in DOMAIN results : results[i].id = results[n - p].id => i = n - p
          /\ \A m \in DOMAIN A : ~Answers(A[m], results[n - p].id)
          /\ \E m \in DOMAIN A : In(A[m].calls, results[n - p].id)
      BY <3>1 DEF ToolsFit
    <3>3. ASSUME NEW m \in DOMAIN B, Answers(B[m], B[n].id) PROVE m = n
      <4>1. m \notin 1 .. p
        BY <1>1, <3>1, <3>2, <3>3
      <4>2. m - p \in DOMAIN results /\ results[m - p].id = results[n - p].id /\ m \in Int
        BY <1>1, <3>1, <3>3, <4>1 DEF Answers
      <4>3. m - p = n - p
        BY <3>2, <4>2
      <4> QED
        BY <1>1, <3>1, <4>2, <4>3
    <3>4. \E m \in 1 .. n - 1 : In(B[m].calls, B[n].id)
      <4>1. PICK m \in 1 .. p : In(A[m].calls, results[n - p].id)
        BY <1>1, <3>2
      <4>2. m \in 1 .. n - 1 /\ B[m] = A[m]
        BY <1>1, <3>1, <4>1
      <4> QED
        BY <3>1, <4>1, <4>2
    <3> QED
      BY <3>1, <3>2, <3>3, <3>4
  <2> QED
    BY <2>1, <2>2
<1>5. DOMAIN << >> = {}
  OBVIOUS
<1> QED
  BY <1>3, <1>4, <1>5 DEF ToolsFit, B

\* What follows for the messages that are sent.
LEMMA ToolsAnswer ==
  ASSUME NEW msgs, NEW Y, ToolsFit(msgs, << >>, Y), NEW y \in Y
  PROVE  \E n \in DOMAIN msgs :
           /\ Answers(msgs[n], y)
           /\ \A m \in DOMAIN msgs : Answers(msgs[m], y) => m = n
           /\ \E m \in 1 .. n - 1 : In(msgs[m].calls, y)
<1>1. PICK n \in DOMAIN msgs : Answers(msgs[n], y)
  BY DEF ToolsFit
<1> QED
  BY <1>1 DEF ToolsFit, Answers

-----------------------------------------------------------------------------
(* Requests: the Responses converter. *)

\* X are the calls read so far, Y the answers, W the numbers of the reasoning items.
ChatFits(s, X, Y, W) ==
  /\ s \in Chats /\ s.last <= Len(s.msgs)
  /\ s.last = 0 => \A n \in DOMAIN s.msgs : s.msgs[n].role # "assistant"
  /\ Carried(CallsOf(s.msgs), s.calls, X)
  /\ Carried(WhyOf(s.msgs), s.why, W)
  /\ ToolsFit(s.msgs, << >>, Y)

\* One more message.
LEMMA OneMessage ==
  ASSUME NEW msgs \in Seq(Messages), NEW m \in Messages
  PROVE  LET n == Len(msgs)
             more == Append(msgs, m) IN
         /\ more \in Seq(Messages) /\ n \in Nat /\ Len(more) = n + 1
         /\ DOMAIN msgs = 1 .. n /\ DOMAIN more = 1 .. n + 1
         /\ more[n + 1] = m /\ \A i \in 1 .. n : more[i] = msgs[i]
         /\ DOMAIN CallsOf(msgs) = 1 .. n /\ DOMAIN CallsOf(more) = 1 .. n + 1
         /\ CallsOf(more)[n + 1] = m.calls /\ \A i \in 1 .. n : CallsOf(more)[i] = CallsOf(msgs)[i]
         /\ DOMAIN WhyOf(msgs) = 1 .. n /\ DOMAIN WhyOf(more) = 1 .. n + 1
         /\ WhyOf(more)[n + 1] = m.why /\ \A i \in 1 .. n : WhyOf(more)[i] = WhyOf(msgs)[i]
         /\ (1 .. n + 1) \ (1 .. n) = {n + 1}
<1> DEFINE n == Len(msgs)
           more == Append(msgs, m)
<1>1. /\ more \in Seq(Messages) /\ n \in Nat /\ Len(more) = n + 1
      /\ DOMAIN msgs = 1 .. n /\ DOMAIN more = 1 .. n + 1
      /\ more[n + 1] = m /\ \A i \in 1 .. n : more[i] = msgs[i]
  OBVIOUS
<1> HIDE DEF n, more
<1>2. \A i \in 1 .. n : i \in 1 .. n + 1
  BY <1>1
<1>3. n + 1 \in 1 .. n + 1 /\ (1 .. n + 1) \ (1 .. n) = {n + 1}
  BY <1>1
<1>4. /\ DOMAIN CallsOf(msgs) = 1 .. n /\ DOMAIN CallsOf(more) = 1 .. n + 1
      /\ CallsOf(more)[n + 1] = m.calls /\ \A i \in 1 .. n : CallsOf(more)[i] = CallsOf(msgs)[i]
  BY <1>1, <1>2, <1>3 DEF CallsOf
<1>5. /\ DOMAIN WhyOf(msgs) = 1 .. n /\ DOMAIN WhyOf(more) = 1 .. n + 1
      /\ WhyOf(more)[n + 1] = m.why /\ \A i \in 1 .. n : WhyOf(more)[i] = WhyOf(msgs)[i]
  BY <1>1, <1>2, <1>3 DEF WhyOf
<1> QED
  BY <1>1, <1>3, <1>4, <1>5 DEF n, more

\* A message that is no answer does not change which answers there are.
LEMMA ToolsOneMore ==
  ASSUME NEW msgs \in Seq(Messages), NEW m \in Messages, m.role # "tool", NEW Y, NEW results,
         ToolsFit(msgs, results, Y)
  PROVE  ToolsFit(Append(msgs, m), results, Y)
<1> DEFINE n == Len(msgs)
           more == Append(msgs, m)
<1>1. /\ n \in Nat /\ DOMAIN msgs = 1 .. n /\ DOMAIN more = 1 .. n + 1
      /\ more[n + 1] = m /\ \A i \in 1 .. n : more[i] = msgs[i]
      /\ (1 .. n + 1) \ (1 .. n) = {n + 1}
  BY OneMessage
<1> HIDE DEF n, more
<1>2. \A i \in 1 .. n : i \in 1 .. n + 1 /\ 1 .. i - 1 \subseteq 1 .. n
  BY <1>1
<1>3. \A i \in (1 .. n + 1) \ (1 .. n) : more[i].role # "tool"
  BY <1>1
<1> QED
  BY <1>1, <1>2, <1>3, ToolsLonger DEF more

\* flushReasoning: the pending reasoning goes to the last message of the assistant.
LEMMA FlushReasoningFits ==
  ASSUME NEW s, NEW X, NEW Y, NEW W, ChatFits(s, X, Y, W)
  PROVE  LET f == FlushReasoning(s) IN
         /\ ChatFits(f, X, Y, W) /\ f.calls = s.calls /\ f.last = s.last
         /\ f.last # 0 => f.why = << >>
<1>1. CASE s.why = << >> \/ s.last = 0
  BY <1>1 DEF FlushReasoning
<1>2. CASE s.why # << >> /\ s.last # 0
  <2> DEFINE msgs == s.msgs
             n == s.last
             new == [msgs EXCEPT ![n].why = @ \o s.why]
             f == [s EXCEPT !.msgs = new, !.why = << >>]
  <2>1. /\ s \in Chats /\ msgs \in Seq(Messages) /\ n \in DOMAIN msgs /\ s.why \in Seq(1 .. MaxItems)
        /\ DOMAIN msgs = 1 .. Len(msgs) /\ Len(msgs) \in Nat
        /\ msgs[n] \in Messages
    BY <1>2 DEF ChatFits, Chats
  <2>2. FlushReasoning(s) = f
    BY <1>2 DEF FlushReasoning
  <2>3. msgs[n].why \o s.why \in Seq(1 .. MaxItems) /\ msgs[n].why \in Seq(1 .. MaxItems)
    BY <2>1 DEF Messages
  <2>4. /\ DOMAIN new = DOMAIN msgs /\ \A i \in DOMAIN msgs : i # n => new[i] = msgs[i]
        /\ new[n] = [msgs[n] EXCEPT !.why = @ \o s.why]
    BY <2>1
  <2>5. new[n] \in Messages /\ new[n].why = msgs[n].why \o s.why /\ new[n].role = msgs[n].role
        /\ new[n].id = msgs[n].id /\ new[n].calls = msgs[n].calls
    BY <2>1, <2>3, <2>4 DEF Messages
  <2> HIDE DEF new
  <2>6. new \in Seq(Messages) /\ Len(new) = Len(msgs)
    <3>1. new \in [1 .. Len(msgs) -> Messages]
      <4>1. \A i \in 1 .. Len(msgs) : new[i] \in Messages
        BY <2>1, <2>4, <2>5
      <4>2. new = [i \in 1 .. Len(msgs) |-> new[i]]
        BY <2>1 DEF new
      <4> QED
        BY <4>1, <4>2
    <3> QED
      BY <2>1, <3>1
  <2>7. /\ f.msgs = new /\ f.why = << >> /\ f.calls = s.calls /\ f.last = s.last /\ f \in Chats
    <3>1. f.msgs = new /\ f.why = << >> /\ f.calls = s.calls /\ f.last = s.last
      BY <2>1 DEF Chats
    <3>2. << >> \in Seq(1 .. MaxItems)
      OBVIOUS
    <3> QED
      BY <2>1, <2>6, <3>1, <3>2 DEF Chats
  <2>8. CallsOf(new) = CallsOf(msgs)
    BY <2>4, <2>5 DEF CallsOf
  <2>9. /\ DOMAIN WhyOf(new) = DOMAIN WhyOf(msgs) /\ n \in DOMAIN WhyOf(msgs) /\ WhyOf(msgs)[n] \in Seq(1 .. MaxItems)
        /\ \A i \in DOMAIN WhyOf(msgs) : i # n => WhyOf(new)[i] = WhyOf(msgs)[i]
        /\ WhyOf(new)[n] = WhyOf(msgs)[n] \o s.why
    BY <2>1, <2>3, <2>4, <2>5 DEF WhyOf
  <2>10. Carried(WhyOf(new), << >>, W)
    <3>1. Carried(WhyOf(msgs), s.why, W)
      BY DEF ChatFits
    <3> QED
      BY ONLY <2>1, <2>9, <3>1, CarriedJoined
  <2>11. ToolsFit(new, << >>, Y)
    <3>1. \A i \in DOMAIN msgs : /\ 1 .. i - 1 \subseteq DOMAIN msgs
                                 /\ new[i].role = msgs[i].role /\ new[i].id = msgs[i].id /\ new[i].calls = msgs[i].calls
      <4> TAKE i \in DOMAIN msgs
      <4>1. 1 .. i - 1 \subseteq DOMAIN msgs
        BY <2>1
      <4>2. CASE i = n
        BY <2>5, <4>1, <4>2
      <4>3. CASE i # n
        BY <2>4, <4>1, <4>3
      <4> QED
        BY <4>2, <4>3
    <3>2. ToolsFit(msgs, << >>, Y) /\ DOMAIN new = DOMAIN msgs
      BY <2>4 DEF ChatFits
    <3> QED
      BY ONLY <3>1, <3>2, ToolsLonger
  <2>12. ChatFits(f, X, Y, W)
    BY <1>2, <2>1, <2>6, <2>7, <2>8, <2>10, <2>11 DEF ChatFits
  <2> QED
    BY <2>2, <2>7, <2>12
<1> QED
  BY <1>1, <1>2

\* The pending calls become a message, which takes the pending reasoning.
LEMMA FlushCallsFits ==
  ASSUME NEW s, NEW X, NEW Y, NEW W, ChatFits(s, X, Y, W), s.last # 0 => s.why = << >> \/ s.calls # << >>
  PROVE  LET f == FlushCalls(s) IN
         /\ ChatFits(f, X, Y, W) /\ f.calls = << >>
         /\ f.last # 0 => f.why = << >>
<1>1. CASE s.calls = << >>
  BY <1>1 DEF FlushCalls
<1>2. CASE s.calls # << >>
  <2> DEFINE msgs == s.msgs
             m == Message("assistant", s.calls, 0, s.why)
             new == Append(msgs, m)
             n == Len(msgs)
             f == [msgs |-> new, why |-> << >>, calls |-> << >>, last |-> n + 1]
  <2>1. FlushCalls(s) = f
    BY <1>2 DEF FlushCalls
  <2>2. s \in Chats /\ msgs \in Seq(Messages) /\ m \in Messages
    BY DEF ChatFits, Chats, Messages, Message
  <2>3. m.role = "assistant" /\ m.calls = s.calls /\ m.why = s.why
    BY DEF Message
  <2> HIDE DEF m
  <2>4. /\ new \in Seq(Messages) /\ n \in Nat /\ Len(new) = n + 1
        /\ DOMAIN CallsOf(msgs) = 1 .. n /\ DOMAIN CallsOf(new) = 1 .. n + 1
        /\ CallsOf(new)[n + 1] = m.calls /\ \A i \in 1 .. n : CallsOf(new)[i] = CallsOf(msgs)[i]
        /\ DOMAIN WhyOf(msgs) = 1 .. n /\ DOMAIN WhyOf(new) = 1 .. n + 1
        /\ WhyOf(new)[n + 1] = m.why /\ \A i \in 1 .. n : WhyOf(new)[i] = WhyOf(msgs)[i]
    BY <2>2, OneMessage
  <2>5. ToolsFit(new, << >>, Y)
    BY <2>2, <2>3, ToolsOneMore DEF ChatFits
  <2> HIDE DEF new, n
  <2>6. Carried(CallsOf(new), << >>, X)
    BY <2>3, <2>4, CarriedFlushed DEF ChatFits
  <2>7. Carried(WhyOf(new), << >>, W)
    BY <2>3, <2>4, CarriedFlushed DEF ChatFits
  <2>8. f \in Chats /\ f.last = n + 1 /\ f.msgs = new /\ f.calls = << >> /\ f.why = << >>
    BY <2>4 DEF Chats
  <2>9. ChatFits(f, X, Y, W)
    BY <2>4, <2>5, <2>6, <2>7, <2>8 DEF ChatFits
  <2> QED
    BY <2>1, <2>8, <2>9
<1> QED
  BY <1>1, <1>2

\* A message of the user joins.
LEMMA UserFits ==
  ASSUME NEW s, NEW X, NEW Y, NEW W, ChatFits(s, X, Y, W)
  PROVE  ChatFits(Says(s, Plain("user")), X, Y, W)
<1> DEFINE msgs == s.msgs
           m == Plain("user")
           new == Append(msgs, m)
           n == Len(msgs)
           f == [s EXCEPT !.msgs = new]
<1>1. Says(s, m) = f
  BY DEF Says
<1>2. s \in Chats /\ msgs \in Seq(Messages) /\ m \in Messages
  BY DEF ChatFits, Chats, Messages, Message, Plain
<1>3. m.role = "user" /\ m.calls = << >> /\ m.why = << >>
  BY DEF Message, Plain
<1> HIDE DEF m
<1>4. /\ new \in Seq(Messages) /\ n \in Nat /\ Len(new) = n + 1
      /\ DOMAIN msgs = 1 .. n /\ DOMAIN new = 1 .. n + 1
      /\ new[n + 1] = m /\ \A i \in 1 .. n : new[i] = msgs[i]
      /\ DOMAIN CallsOf(msgs) = 1 .. n /\ DOMAIN CallsOf(new) = 1 .. n + 1
      /\ CallsOf(new)[n + 1] = m.calls /\ \A i \in 1 .. n : CallsOf(new)[i] = CallsOf(msgs)[i]
      /\ DOMAIN WhyOf(msgs) = 1 .. n /\ DOMAIN WhyOf(new) = 1 .. n + 1
      /\ WhyOf(new)[n + 1] = m.why /\ \A i \in 1 .. n : WhyOf(new)[i] = WhyOf(msgs)[i]
      /\ (1 .. n + 1) \ (1 .. n) = {n + 1}
  BY <1>2, OneMessage
<1>5. ToolsFit(new, << >>, Y)
  BY <1>2, <1>3, ToolsOneMore DEF ChatFits
<1> HIDE DEF new, n
<1>6. 1 .. n \subseteq 1 .. n + 1
  BY <1>4
<1>7. Carried(CallsOf(new), s.calls, X)
  BY <1>3, <1>4, <1>6, CarriedLonger DEF ChatFits
<1>8. Carried(WhyOf(new), s.why, W)
  BY <1>3, <1>4, <1>6, CarriedLonger DEF ChatFits
<1>9. f \in Chats /\ f.msgs = new /\ f.calls = s.calls /\ f.why = s.why /\ f.last = s.last
  BY <1>2, <1>4 DEF Chats
<1>10. s.last = 0 => \A i \in DOMAIN new : new[i].role # "assistant"
  BY <1>3, <1>4 DEF ChatFits
<1>11. f.last =< Len(f.msgs)
  BY <1>2, <1>4, <1>9 DEF ChatFits, Chats
<1> QED
  BY <1>1, <1>5, <1>7, <1>8, <1>9, <1>10, <1>11 DEF ChatFits, m

\* The answer to a call that is written joins.
LEMMA ResultFits ==
  ASSUME NEW s, NEW X, NEW Y, NEW W, ChatFits(s, X, Y, W), s.calls = << >>, NEW y \in X \cap Ids, y \notin Y
  PROVE  ChatFits(Says(s, ToolResult(y)), X, Y \cup {y}, W)
<1> DEFINE msgs == s.msgs
           m == ToolResult(y)
           new == Append(msgs, m)
           n == Len(msgs)
           f == [s EXCEPT !.msgs = new]
<1>1. Says(s, m) = f
  BY DEF Says
<1>2. s \in Chats /\ msgs \in Seq(Messages) /\ m \in Messages
  BY DEF ChatFits, Chats, Messages, Message, ToolResult
<1>3. m.role = "tool" /\ m.calls = << >> /\ m.why = << >>
  BY DEF Message, ToolResult
<1>4. /\ new \in Seq(Messages) /\ n \in Nat /\ Len(new) = n + 1
      /\ DOMAIN msgs = 1 .. n /\ DOMAIN new = 1 .. n + 1
      /\ new[n + 1] = m /\ \A i \in 1 .. n : new[i] = msgs[i]
      /\ DOMAIN CallsOf(msgs) = 1 .. n /\ DOMAIN CallsOf(new) = 1 .. n + 1
      /\ CallsOf(new)[n + 1] = m.calls /\ \A i \in 1 .. n : CallsOf(new)[i] = CallsOf(msgs)[i]
      /\ DOMAIN WhyOf(msgs) = 1 .. n /\ DOMAIN WhyOf(new) = 1 .. n + 1
      /\ WhyOf(new)[n + 1] = m.why /\ \A i \in 1 .. n : WhyOf(new)[i] = WhyOf(msgs)[i]
      /\ (1 .. n + 1) \ (1 .. n) = {n + 1}
  BY <1>2, OneMessage
<1>5. ToolsFit(new, << >>, Y \cup {y})
  <2>1. \E k \in DOMAIN msgs : In(msgs[k].calls, y)
    BY CarriedOnce DEF ChatFits, CallsOf
  <2>2. << >> \in Seq(Messages) /\ ToolsFit(msgs, << >>, Y)
    BY DEF ChatFits
  <2>3. ToolsFit(msgs, Append(<< >>, m), Y \cup {y})
    BY <1>2, <2>1, <2>2, ToolsNew
  <2>4. Append(<< >>, m) \in Seq(Messages) /\ msgs \o Append(<< >>, m) = new
    BY <1>2
  <2>5. ToolsFit(msgs \o Append(<< >>, m), << >>, Y \cup {y})
    BY <1>2, <2>3, <2>4, ToolsFlushed
  <2> QED
    BY <2>4, <2>5
<1> HIDE DEF m, new, n
<1>6. 1 .. n \subseteq 1 .. n + 1
  BY <1>4
<1>7. Carried(CallsOf(new), s.calls, X)
  BY <1>3, <1>4, <1>6, CarriedLonger DEF ChatFits
<1>8. Carried(WhyOf(new), s.why, W)
  BY <1>3, <1>4, <1>6, CarriedLonger DEF ChatFits
<1>9. f \in Chats /\ f.msgs = new /\ f.calls = s.calls /\ f.why = s.why /\ f.last = s.last
  BY <1>2, <1>4 DEF Chats
<1>10. s.last = 0 => \A i \in DOMAIN new : new[i].role # "assistant"
  BY <1>3, <1>4 DEF ChatFits
<1>11. f.last =< Len(f.msgs)
  BY <1>2, <1>4, <1>9 DEF ChatFits, Chats
<1> QED
  BY <1>1, <1>5, <1>7, <1>8, <1>9, <1>10, <1>11 DEF ChatFits, m

\* A message of the assistant takes the reasoning with it.
LEMMA AssistantFits ==
  ASSUME NEW s, NEW X, NEW Y, NEW W, ChatFits(s, X, Y, W)
  PROVE  ChatFits([s EXCEPT !.msgs = Append(@, Message("assistant", <<>>, 0, s.why)),
                            !.why = <<>>, !.last = Len(s.msgs) + 1], X, Y, W)
<1> DEFINE msgs == s.msgs
           m == Message("assistant", <<>>, 0, s.why)
           new == Append(msgs, m)
           n == Len(msgs)
           f == [s EXCEPT !.msgs = Append(@, m), !.why = <<>>, !.last = n + 1]
<1>1. s \in Chats /\ msgs \in Seq(Messages) /\ m \in Messages /\ << >> \in Seq(1 .. MaxItems)
  BY DEF ChatFits, Chats, Messages, Message
<1>2. m.role = "assistant" /\ m.calls = << >> /\ m.why = s.why
  BY DEF Message
<1>3. /\ new \in Seq(Messages) /\ n \in Nat /\ Len(new) = n + 1
      /\ DOMAIN CallsOf(msgs) = 1 .. n /\ DOMAIN CallsOf(new) = 1 .. n + 1
      /\ CallsOf(new)[n + 1] = m.calls /\ \A i \in 1 .. n : CallsOf(new)[i] = CallsOf(msgs)[i]
      /\ DOMAIN WhyOf(msgs) = 1 .. n /\ DOMAIN WhyOf(new) = 1 .. n + 1
      /\ WhyOf(new)[n + 1] = m.why /\ \A i \in 1 .. n : WhyOf(new)[i] = WhyOf(msgs)[i]
      /\ (1 .. n + 1) \ (1 .. n) = {n + 1}
  BY <1>1, OneMessage
<1>4. f.msgs = new /\ f.calls = s.calls /\ f.why = << >> /\ f.last = n + 1 /\ f \in Chats
  <2>1. f = [msgs |-> new, why |-> << >>, calls |-> s.calls, last |-> n + 1]
    <3>1. f = [s EXCEPT !.msgs = new, !.why = << >>, !.last = n + 1]
      OBVIOUS
    <3> HIDE DEF f, new, n
    <3> QED
      BY <1>1, <3>1 DEF Chats
  <2> HIDE DEF f, new, n
  <2> QED
    BY <1>1, <1>3, <2>1 DEF Chats
<1>5. ToolsFit(new, << >>, Y)
  BY <1>1, <1>2, ToolsOneMore DEF ChatFits
<1> HIDE DEF m, new, n, f
<1>6. 1 .. n \subseteq 1 .. n + 1
  BY <1>3
<1>7. Carried(CallsOf(new), s.calls, X)
  BY <1>2, <1>3, <1>6, CarriedLonger DEF ChatFits
<1>8. Carried(WhyOf(new), << >>, W)
  BY <1>2, <1>3, CarriedFlushed DEF ChatFits
<1>9. ChatFits(f, X, Y, W)
  BY <1>3, <1>4, <1>5, <1>7, <1>8 DEF ChatFits
<1> QED
  BY <1>9 DEF f, m, n

\* Reasoning and calls wait.
LEMMA ReasoningFits ==
  ASSUME NEW s, NEW X, NEW Y, NEW W, ChatFits(s, X, Y, W), NEW k \in 1 .. MaxItems, k \notin W
  PROVE  ChatFits([s EXCEPT !.why = Append(@, k)], X, Y, W \cup {k})
<1> DEFINE f == [s EXCEPT !.why = Append(@, k)]
<1>1. s \in Chats /\ s.why \in Seq(1 .. MaxItems) /\ Append(s.why, k) \in Seq(1 .. MaxItems)
  BY DEF ChatFits, Chats
<1>2. f.msgs = s.msgs /\ f.calls = s.calls /\ f.last = s.last /\ f.why = Append(s.why, k) /\ f \in Chats
  BY <1>1 DEF Chats
<1>3. Carried(WhyOf(s.msgs), Append(s.why, k), W \cup {k})
  BY <1>1, CarriedNew DEF ChatFits
<1> QED
  BY <1>2, <1>3 DEF ChatFits

\* A call becomes pending.
LEMMA CallFits ==
  ASSUME NEW s, NEW X, NEW Y, NEW W, ChatFits(s, X, Y, W), NEW x \in Ids, x \notin X
  PROVE  ChatFits([s EXCEPT !.calls = Append(@, x)], X \cup {x}, Y, W)
<1> DEFINE f == [s EXCEPT !.calls = Append(@, x)]
<1>1. s \in Chats /\ s.calls \in Seq(Ids) /\ Append(s.calls, x) \in Seq(Ids)
  BY DEF ChatFits, Chats
<1>2. f.msgs = s.msgs /\ f.why = s.why /\ f.last = s.last /\ f.calls = Append(s.calls, x) /\ f \in Chats
  BY <1>1 DEF Chats
<1>3. Carried(CallsOf(s.msgs), Append(s.calls, x), X \cup {x})
  BY <1>1, CarriedNew DEF ChatFits
<1> QED
  BY <1>2, <1>3 DEF ChatFits

\* Both flushes.
LEMMA FlushedFits ==
  ASSUME NEW s, NEW X, NEW Y, NEW W, ChatFits(s, X, Y, W)
  PROVE  ChatFits(Flushed(s), X, Y, W) /\ Flushed(s).calls = << >>
<1> DEFINE f == FlushReasoning(s)
<1>1. ChatFits(f, X, Y, W) /\ (f.last # 0 => f.why = << >>)
  BY FlushReasoningFits
<1> HIDE DEF f
<1>2. ChatFits(FlushCalls(f), X, Y, W) /\ FlushCalls(f).calls = << >>
  BY <1>1, FlushCallsFits
<1> QED
  BY <1>2 DEF Flushed, f

\* What an item adds to the calls, the answers and the reasoning of a request.
With(S, yes, e) == IF yes THEN S \cup {e} ELSE S

\* appendItem: one more item.
LEMMA ItemFits ==
  ASSUME NEW s, NEW X, NEW Y, NEW W, ChatFits(s, X, Y, W),
         NEW item \in Items, NEW k \in 1 .. MaxItems, k \notin W,
         item.type = "function_call" => item.id \notin X,
         item.type = "output" => item.id \in X \ Y
  PROVE  ChatFits(AppendItem(s, item, k), With(X, item.type = "function_call", item.id),
                  With(Y, item.type = "output", item.id), With(W, item.type = "reasoning", k))
<1>1. /\ item.type \in {"reasoning", "assistant", "user", "input", "function_call", "output"}
      /\ item.type \in {"function_call", "output"} => item.id \in Ids
  BY DEF Items, Item
<1>2. CASE item.type = "reasoning"
  BY <1>2, ReasoningFits DEF AppendItem, With
<1>3. CASE item.type = "function_call"
  BY <1>1, <1>3, CallFits DEF AppendItem, With
<1>4. CASE item.type = "assistant"
  BY <1>4, AssistantFits DEF AppendItem, With
<1>5. CASE item.type = "output"
  <2>1. ChatFits(Flushed(s), X, Y, W) /\ Flushed(s).calls = << >>
    BY FlushedFits
  <2>2. ChatFits(Says(Flushed(s), ToolResult(item.id)), X, Y \cup {item.id}, W)
    BY <1>1, <1>5, <2>1, ResultFits
  <2> QED
    BY <1>5, <2>2 DEF AppendItem, With
<1>6. CASE item.type \in {"user", "input"}
  <2>1. ChatFits(Says(Flushed(s), Plain("user")), X, Y, W)
    BY FlushedFits, UserFits
  <2> QED
    BY <1>6, <2>1 DEF AppendItem, With
<1> QED
  BY <1>1, <1>2, <1>3, <1>4, <1>5, <1>6

\* The messages that are sent.
LEMMA SentFits ==
  ASSUME NEW s, NEW X, NEW Y, NEW W, ChatFits(s, X, Y, W)
  PROVE  LET sent == ResponsesMessages(s) IN
         /\ Carried(CallsOf(sent), << >>, X) /\ ToolsFit(sent, << >>, Y)
         /\ (\E n \in DOMAIN sent : sent[n].role = "assistant") => Carried(WhyOf(sent), << >>, W)
<1> DEFINE g == FlushReasoning(s)
\* The pending calls take the pending reasoning, so nothing is left to attach.
<1>1. CASE s.calls # << >>
  <2>1. ChatFits(FlushCalls(s), X, Y, W) /\ FlushCalls(s).calls = << >>
    BY <1>1, FlushCallsFits
  <2> DEFINE t == FlushCalls(s)
  <2> HIDE DEF t
  <2>2. LET f == FlushReasoning(t) IN
        ChatFits(f, X, Y, W) /\ f.calls = t.calls /\ (f.last # 0 => f.why = << >>)
    BY <2>1, FlushReasoningFits DEF t
  <2>3. ResponsesMessages(s) = FlushReasoning(t).msgs /\ t.calls = << >>
    BY <2>1 DEF ResponsesMessages, t
  <2> DEFINE f == FlushReasoning(t)
  <2> HIDE DEF f
  <2>4. ChatFits(f, X, Y, W) /\ f.calls = << >> /\ (f.last # 0 => f.why = << >>) /\ ResponsesMessages(s) = f.msgs
    BY <2>2, <2>3 DEF f
  <2> QED
    BY <2>4 DEF ChatFits
<1>2. CASE s.calls = << >>
  <2>1. ChatFits(g, X, Y, W) /\ g.calls = s.calls /\ (g.last # 0 => g.why = << >>)
    BY FlushReasoningFits
  <2>2. ResponsesMessages(s) = g.msgs
    BY <1>2 DEF ResponsesMessages, FlushCalls
  <2> HIDE DEF g
  <2> QED
    BY <1>2, <2>1, <2>2 DEF ChatFits
<1> QED
  BY <1>1, <1>2

Reasoned == {k \in DOMAIN items : items[k].type = "reasoning"}

\* What the endpoint gets, then.
LEMMA SentIsKept ==
  ASSUME NEW msgs, Carried(CallsOf(msgs), << >>, Named("function_call")), ToolsFit(msgs, << >>, Named("output")),
         (\E n \in DOMAIN msgs : msgs[n].role = "assistant") => Carried(WhyOf(msgs), << >>, Reasoned)
  PROVE  Kept(msgs)
<1>1. ASSUME NEW k \in DOMAIN items, items[k].type = "function_call"
      PROVE  Once([n \in DOMAIN msgs |-> msgs[n].calls], items[k].id)
  <2>1. items[k].id \in Named("function_call")
    BY <1>1 DEF Named
  <2> QED
    BY <2>1, CarriedOnce DEF CallsOf
<1>2. ASSUME NEW k \in DOMAIN items, items[k].type = "output"
      PROVE  \E n \in DOMAIN msgs :
               /\ msgs[n].role = "tool" /\ msgs[n].id = items[k].id
               /\ \A m \in DOMAIN msgs : msgs[m].role = "tool" /\ msgs[m].id = items[k].id => m = n
               /\ \E m \in 1 .. n - 1 : \E j \in DOMAIN msgs[m].calls : msgs[m].calls[j] = items[k].id
  <2>1. items[k].id \in Named("output")
    BY <1>2 DEF Named
  <2>2. PICK n \in DOMAIN msgs :
           /\ Answers(msgs[n], items[k].id)
           /\ \A m \in DOMAIN msgs : Answers(msgs[m], items[k].id) => m = n
           /\ \E m \in 1 .. n - 1 : In(msgs[m].calls, items[k].id)
    BY <2>1, ToolsAnswer
  <2> QED
    BY <2>2 DEF Answers, In
<1>3. ASSUME NEW n \in DOMAIN msgs, msgs[n].role = "assistant", NEW k \in DOMAIN items, items[k].type = "reasoning"
      PROVE  Once([m \in DOMAIN msgs |-> msgs[m].why], k)
  <2>1. k \in Reasoned /\ Carried(WhyOf(msgs), << >>, Reasoned)
    BY <1>3 DEF Reasoned
  <2> QED
    BY <2>1, CarriedOnce DEF WhyOf
<1> QED
  BY <1>1, <1>2, <1>3 DEF Kept, CallsPaired, ReasoningKept

-----------------------------------------------------------------------------
(* Requests: the Anthropic converter. *)

WireFits(w, X, Y, W) ==
  /\ w \in Wires
  /\ w.block.role # "assistant" => w.block.calls = << >> /\ w.block.why = << >>
  /\ w.block.role # "user" => w.block.results = << >>
  /\ Carried(CallsOf(w.msgs), w.block.calls, X)
  /\ Carried(WhyOf(w.msgs), w.block.why, W)
  /\ ToolsFit(w.msgs, w.block.results, Y)

\* Results carry no calls and no reasoning.
LEMMA ResultsBare ==
  ASSUME NEW msgs, NEW results, NEW Y, ToolsFit(msgs, results, Y), NEW j \in DOMAIN results
  PROVE  results[j].calls = << >> /\ results[j].why = << >>
BY DEF ToolsFit, ToolResult, Message

\* One message, then the results.
LEMMA ThenResults ==
  ASSUME NEW S, NEW a \in Seq(S), NEW e \in S, NEW c \in Seq(S)
  PROVE  a \o (<<e>> \o c) = Append(a, e) \o c
<1>1. Append(a, e) = a \o <<e>>
  OBVIOUS
<1>2. ASSUME NEW t \in Seq(S)
      PROVE  (a \o t) \o c = a \o (t \o c)
  OBVIOUS
<1>3. <<e>> \in Seq(S)
  OBVIOUS
<1> QED
  BY <1>1, <1>2, <1>3

\* A message of the user becomes its plain blocks, then the results.
LEMMA ConvertedUser ==
  ASSUME NEW w, NEW X, NEW Y, NEW W, WireFits(w, X, Y, W), w.block.role = "user"
  PROVE  LET M == AnthropicMessages(w) IN
         /\ M \in Seq(Messages)
         /\ Carried(CallsOf(M), << >>, X) /\ Carried(WhyOf(M), << >>, W) /\ ToolsFit(M, << >>, Y)
<1> DEFINE rs == w.block.results
           msgs == IF w.block.plain THEN Append(w.msgs, Plain("user")) ELSE w.msgs
<1>1. /\ w.msgs \in Seq(Messages) /\ rs \in Seq(Messages) /\ Plain("user") \in Messages
      /\ Plain("user").role = "user" /\ Plain("user").calls = << >> /\ Plain("user").why = << >>
  BY DEF WireFits, Wires, Messages, Plain, Message
<1>2. /\ msgs \in Seq(Messages) /\ ToolsFit(msgs, rs, Y)
      /\ Carried(CallsOf(msgs), << >>, X) /\ Carried(WhyOf(msgs), << >>, W)
  <2>1. CASE w.block.plain
    <3> DEFINE n == Len(w.msgs)
               new == Append(w.msgs, Plain("user"))
    <3>1. /\ new \in Seq(Messages) /\ n \in Nat
          /\ DOMAIN CallsOf(w.msgs) = 1 .. n /\ DOMAIN CallsOf(new) = 1 .. n + 1
          /\ CallsOf(new)[n + 1] = Plain("user").calls /\ \A i \in 1 .. n : CallsOf(new)[i] = CallsOf(w.msgs)[i]
          /\ DOMAIN WhyOf(w.msgs) = 1 .. n /\ DOMAIN WhyOf(new) = 1 .. n + 1
          /\ WhyOf(new)[n + 1] = Plain("user").why /\ \A i \in 1 .. n : WhyOf(new)[i] = WhyOf(w.msgs)[i]
          /\ (1 .. n + 1) \ (1 .. n) = {n + 1} /\ 1 .. n \subseteq 1 .. n + 1
      BY <1>1, OneMessage
    <3>2. ToolsFit(new, rs, Y)
      BY <1>1, ToolsOneMore DEF WireFits
    <3> HIDE DEF new, n
    <3>3. Carried(CallsOf(w.msgs), << >>, X) /\ Carried(WhyOf(w.msgs), << >>, W)
      BY DEF WireFits
    <3>4. Carried(CallsOf(new), << >>, X)
      BY <1>1, <3>1, <3>3, CarriedLonger
    <3>5. Carried(WhyOf(new), << >>, W)
      BY <1>1, <3>1, <3>3, CarriedLonger
    <3>6. msgs = new
      BY <2>1 DEF new
    <3> QED
      BY <3>1, <3>2, <3>4, <3>5, <3>6
  <2>2. CASE ~w.block.plain
    BY <1>1, <2>2 DEF WireFits
  <2> QED
    BY <2>1, <2>2
<1>3. AnthropicMessages(w) = msgs \o rs
  <2>1. AnthropicMessages(w) = w.msgs \o ((IF w.block.plain THEN <<Plain("user")>> ELSE << >>) \o rs)
    BY DEF AnthropicMessages, AnthropicMessage
  <2>2. CASE w.block.plain
    <3>1. w.msgs \o (<<Plain("user")>> \o rs) = Append(w.msgs, Plain("user")) \o rs
      <4> DEFINE before == w.msgs
                 said == Plain("user")
      <4>1. before \in Seq(Messages) /\ said \in Messages /\ rs \in Seq(Messages)
        BY <1>1
      <4> HIDE DEF before, said, rs
      <4>2. before \o (<<said>> \o rs) = Append(before, said) \o rs
        BY <4>1, ThenResults
      <4> QED
        BY <4>2 DEF before, said, rs
    <3> QED
      BY <2>1, <2>2, <3>1
  <2>3. CASE ~w.block.plain
    <3>1. << >> \o rs = rs
      BY <1>1
    <3> QED
      BY <2>1, <2>3, <3>1
  <2> QED
    BY <2>2, <2>3
<1> HIDE DEF msgs, rs
<1> DEFINE M == msgs \o rs
           p == Len(msgs)
           q == Len(rs)
<1>4. /\ M \in Seq(Messages) /\ p \in Nat /\ q \in Nat
      /\ DOMAIN M = 1 .. p + q /\ DOMAIN msgs = 1 .. p /\ DOMAIN rs = 1 .. q
      /\ \A i \in 1 .. p : M[i] = msgs[i]
      /\ \A i \in 1 .. p + q : i \notin 1 .. p => i - p \in 1 .. q /\ M[i] = rs[i - p]
  BY <1>1, <1>2, ConcatFacts
<1>5. ToolsFit(M, << >>, Y)
  BY <1>1, <1>2, ToolsFlushed
<1> HIDE DEF M, p, q
<1>6. 1 .. p \subseteq 1 .. p + q
  BY <1>4
<1>7. \A i \in (1 .. p + q) \ (1 .. p) : M[i].calls = << >> /\ M[i].why = << >>
  BY <1>2, <1>4, ResultsBare
<1>8. Carried(CallsOf(M), << >>, X)
  <2>1. /\ DOMAIN CallsOf(msgs) \subseteq DOMAIN CallsOf(M)
        /\ \A i \in DOMAIN CallsOf(msgs) : CallsOf(M)[i] = CallsOf(msgs)[i]
        /\ \A i \in DOMAIN CallsOf(M) \ DOMAIN CallsOf(msgs) : CallsOf(M)[i] = << >>
    BY <1>4, <1>6, <1>7 DEF CallsOf
  <2> QED
    BY <1>2, <2>1, CarriedLonger
<1>9. Carried(WhyOf(M), << >>, W)
  <2>1. /\ DOMAIN WhyOf(msgs) \subseteq DOMAIN WhyOf(M)
        /\ \A i \in DOMAIN WhyOf(msgs) : WhyOf(M)[i] = WhyOf(msgs)[i]
        /\ \A i \in DOMAIN WhyOf(M) \ DOMAIN WhyOf(msgs) : WhyOf(M)[i] = << >>
    BY <1>4, <1>6, <1>7 DEF WhyOf
  <2> QED
    BY <1>2, <2>1, CarriedLonger
<1> QED
  BY <1>3, <1>4, <1>5, <1>8, <1>9 DEF M

\* The messages that are sent.
LEMMA ConvertedFits ==
  ASSUME NEW w, NEW X, NEW Y, NEW W, WireFits(w, X, Y, W)
  PROVE  LET M == AnthropicMessages(w) IN
         /\ M \in Seq(Messages)
         /\ Carried(CallsOf(M), << >>, X) /\ Carried(WhyOf(M), << >>, W) /\ ToolsFit(M, << >>, Y)
<1>1. CASE w.block.role = "user"
  BY <1>1, ConvertedUser
<1>2. CASE w.block.role = "none"
  <2>1. AnthropicMessages(w) = w.msgs /\ w.msgs \in Seq(Messages)
    BY <1>2 DEF AnthropicMessages, AnthropicMessage, WireFits, Wires
  <2> QED
    BY <1>2, <2>1 DEF WireFits
<1>3. CASE w.block.role = "assistant"
  <2> DEFINE m == Message("assistant", w.block.calls, 0, w.block.why)
             new == Append(w.msgs, m)
             n == Len(w.msgs)
  <2>1. w.msgs \in Seq(Messages) /\ m \in Messages /\ m.role = "assistant" /\ m.calls = w.block.calls
        /\ m.why = w.block.why
    BY DEF WireFits, Wires, Messages, Message
  <2>2. AnthropicMessages(w) = new
    <3>1. AnthropicMessages(w) = w.msgs \o <<m>>
      BY <1>3 DEF AnthropicMessages, AnthropicMessage
    <3> QED
      BY <2>1, <3>1
  <2> HIDE DEF m
  <2>3. /\ new \in Seq(Messages) /\ n \in Nat
        /\ DOMAIN CallsOf(w.msgs) = 1 .. n /\ DOMAIN CallsOf(new) = 1 .. n + 1
        /\ CallsOf(new)[n + 1] = m.calls /\ \A i \in 1 .. n : CallsOf(new)[i] = CallsOf(w.msgs)[i]
        /\ DOMAIN WhyOf(w.msgs) = 1 .. n /\ DOMAIN WhyOf(new) = 1 .. n + 1
        /\ WhyOf(new)[n + 1] = m.why /\ \A i \in 1 .. n : WhyOf(new)[i] = WhyOf(w.msgs)[i]
    BY <2>1, OneMessage
  <2>4. ToolsFit(new, << >>, Y)
    <3>1. ToolsFit(w.msgs, << >>, Y)
      BY <1>3 DEF WireFits
    <3> QED
      BY <2>1, <3>1, ToolsOneMore
  <2> HIDE DEF new, n
  <2>5. Carried(CallsOf(new), << >>, X)
    BY <2>1, <2>3, CarriedFlushed DEF WireFits
  <2>6. Carried(WhyOf(new), << >>, W)
    BY <2>1, <2>3, CarriedFlushed DEF WireFits
  <2> QED
    BY <2>2, <2>3, <2>4, <2>5, <2>6
<1> QED
  BY <1>1, <1>2, <1>3 DEF WireFits, Wires

\* One more block of the message that is open.
LEMMA BlockFits ==
  ASSUME NEW w, NEW X, NEW Y, NEW W, WireFits(w, X, Y, W),
         NEW item \in Items, NEW k \in 1 .. MaxItems, k \notin W, w.block.role \in {"none", Role(item)},
         item.type = "function_call" => item.id \notin X,
         item.type = "output" => item.id \in X \ Y
  PROVE  WireFits([w EXCEPT !.block = AddBlock(@, item, k)], With(X, item.type = "function_call", item.id),
                  With(Y, item.type = "output", item.id), With(W, item.type = "reasoning", k))
<1> DEFINE b == w.block
           c == AddBlock(b, item, k)
           v == [w EXCEPT !.block = c]
<1>1. /\ item.type \in {"reasoning", "assistant", "user", "input", "function_call", "output"}
      /\ item.type \in {"function_call", "output"} => item.id \in Ids
  BY DEF Items, Item
<1>2. /\ w.msgs \in Seq(Messages) /\ b.calls \in Seq(Ids) /\ b.why \in Seq(1 .. MaxItems) /\ b.results \in Seq(Messages)
      /\ b \in [role : {"none", "assistant", "user"}, calls : Seq(Ids), why : Seq(1 .. MaxItems),
                plain : BOOLEAN, results : Seq(Messages)]
      /\ b.plain \in BOOLEAN
  BY DEF WireFits, Wires
<1>3. item.type = "output" => ToolResult(item.id) \in Messages
  BY <1>1 DEF ToolResult, Message, Messages
<1>4. /\ c.role = Role(item)
      /\ c.why = IF item.type = "reasoning" THEN Append(b.why, k) ELSE b.why
      /\ c.calls = IF item.type = "function_call" THEN Append(b.calls, item.id) ELSE b.calls
      /\ c.results = IF item.type = "output" THEN Append(b.results, ToolResult(item.id)) ELSE b.results
      /\ c.plain \in BOOLEAN
      /\ c = [role |-> c.role, why |-> c.why, calls |-> c.calls, results |-> c.results, plain |-> c.plain]
  BY <1>2 DEF AddBlock
<1>5. Role(item) \in {"assistant", "user"}
  BY DEF Role
<1> HIDE DEF b, c
<1>6. c.why \in Seq(1 .. MaxItems) /\ c.calls \in Seq(Ids) /\ c.results \in Seq(Messages)
  <2>1. c.why \in Seq(1 .. MaxItems)
    <3>1. Append(b.why, k) \in Seq(1 .. MaxItems)
      BY <1>2
    <3> QED
      BY <1>2, <1>4, <3>1
  <2>2. c.calls \in Seq(Ids)
    BY <1>1, <1>2, <1>4
  <2>3. c.results \in Seq(Messages)
    BY <1>2, <1>3, <1>4
  <2> QED
    BY <2>1, <2>2, <2>3
<1>7. v.msgs = w.msgs /\ v.block = c /\ v \in Wires
  <2>1. v = [msgs |-> w.msgs, block |-> c]
    BY DEF WireFits, Wires
  <2>2. c \in [role : {"none", "assistant", "user"}, calls : Seq(Ids), why : Seq(1 .. MaxItems),
               plain : BOOLEAN, results : Seq(Messages)]
    BY <1>4, <1>5, <1>6
  <2> QED
    BY <1>2, <2>1, <2>2 DEF Wires
<1>8. Carried(CallsOf(w.msgs), c.calls, With(X, item.type = "function_call", item.id))
  <2>1. CASE item.type = "function_call"
    BY <1>1, <1>2, <1>4, <2>1, CarriedNew DEF WireFits, With, b
  <2>2. CASE item.type # "function_call"
    BY <1>4, <2>2 DEF WireFits, With, b
  <2> QED
    BY <2>1, <2>2
<1>9. Carried(WhyOf(w.msgs), c.why, With(W, item.type = "reasoning", k))
  <2>1. CASE item.type = "reasoning"
    <3>1. Carried(WhyOf(w.msgs), b.why, W) /\ b.why \in Seq(1 .. MaxItems)
      BY <1>2 DEF WireFits, b
    <3>2. Carried(WhyOf(w.msgs), Append(b.why, k), W \cup {k})
      BY <3>1, CarriedNew
    <3> QED
      BY <1>4, <2>1, <3>2 DEF With
  <2>2. CASE item.type # "reasoning"
    BY <1>4, <2>2 DEF WireFits, With, b
  <2> QED
    BY <2>1, <2>2
<1>10. ToolsFit(w.msgs, c.results, With(Y, item.type = "output", item.id))
  <2>1. CASE item.type = "output"
    <3>1. b.calls = << >> /\ item.id \in X /\ item.id \notin Y
      BY <2>1 DEF WireFits, Role, b
    <3>2. \E m \in DOMAIN w.msgs : In(w.msgs[m].calls, item.id)
      <4>1. Carried(CallsOf(w.msgs), << >>, X)
        BY <3>1 DEF WireFits, b
      <4> QED
        BY <3>1, <4>1, CarriedOnce DEF CallsOf
    <3>3. ToolsFit(w.msgs, b.results, Y)
      BY DEF WireFits, b
    <3>4. ToolsFit(w.msgs, Append(b.results, ToolResult(item.id)), Y \cup {item.id})
      BY <1>2, <1>3, <2>1, <3>1, <3>2, <3>3, ToolsNew
    <3> QED
      BY <1>4, <2>1, <3>4 DEF With
  <2>2. CASE item.type # "output"
    BY <1>4, <2>2 DEF WireFits, With, b
  <2> QED
    BY <2>1, <2>2
<1>11. /\ c.role # "assistant" => c.calls = << >> /\ c.why = << >>
       /\ c.role # "user" => c.results = << >>
  BY <1>1, <1>4 DEF WireFits, Role, b
<1> QED
  BY <1>7, <1>8, <1>9, <1>10, <1>11 DEF WireFits, b, c

\* One more block of the request.
LEMMA ComposeFits ==
  ASSUME NEW w, NEW X, NEW Y, NEW W, WireFits(w, X, Y, W),
         NEW item \in Items, NEW k \in 1 .. MaxItems, k \notin W,
         item.type = "function_call" => item.id \notin X,
         item.type = "output" => item.id \in X \ Y
  PROVE  WireFits(Compose(w, item, k), With(X, item.type = "function_call", item.id),
                  With(Y, item.type = "output", item.id), With(W, item.type = "reasoning", k))
<1>1. CASE w.block.role \in {"none", Role(item)}
  BY <1>1, BlockFits DEF Compose
<1>2. CASE w.block.role \notin {"none", Role(item)}
  <2> DEFINE M == AnthropicMessages(w)
             v == [msgs |-> M, block |-> NoBlocks]
  <2>1. /\ M \in Seq(Messages)
        /\ Carried(CallsOf(M), << >>, X) /\ Carried(WhyOf(M), << >>, W) /\ ToolsFit(M, << >>, Y)
    BY ConvertedFits
  <2>2. Compose(w, item, k) = [v EXCEPT !.block = AddBlock(@, item, k)]
    <3>1. Compose(w, item, k) = [msgs |-> M, block |-> AddBlock(NoBlocks, item, k)]
      BY <1>2 DEF Compose, AnthropicMessages
    <3> HIDE DEF M
    <3> QED
      BY <3>1
  <2> HIDE DEF M
  <2>3. NoBlocks \in [role : {"none", "assistant", "user"}, calls : Seq(Ids), why : Seq(1 .. MaxItems),
                      plain : BOOLEAN, results : Seq(Messages)]
    BY DEF NoBlocks
  <2>4. v \in Wires /\ v.msgs = M /\ v.block = NoBlocks
    BY <2>1, <2>3 DEF Wires
  <2>5. v.block.role = "none" /\ v.block.calls = << >> /\ v.block.why = << >> /\ v.block.results = << >>
    BY <2>4 DEF NoBlocks
  <2> HIDE DEF v
  <2>6. WireFits(v, X, Y, W)
    BY <2>1, <2>4, <2>5 DEF WireFits
  <2> QED
    BY <2>2, <2>5, <2>6, BlockFits
<1> QED
  BY <1>1, <1>2

-----------------------------------------------------------------------------
(* The Anthropic stream. *)

Content(m) == ChatResponseToAnthropic(m).content

\* The client has built what the answer m converts to, and the last block is open.
Building(a, m) ==
  /\ a.client.ok /\ a.client.open = a.kind /\ a.client.kinds = Content(m)
  /\ (a.think <=> m.why) /\ (a.text <=> m.text) /\ a.tool = m.calls - 1
  /\ m.calls > 0 => a.kind = "tool"
  /\ m.calls = 0 /\ m.text => a.kind = "text"
  /\ m.calls = 0 /\ ~m.text /\ m.why => a.kind = "thinking"
  /\ m.calls = 0 /\ ~m.text /\ ~m.why => a.kind = ""
  /\ a.kind = "" => a.block = 0
  /\ a.kind # "" => a.block + 1 = Len(a.client.kinds)

\* In any order, a call is told from no call.
Telling(a, m) == a \in Ants /\ (a.tool = NoCall <=> m.calls = 0)

AnswerSet == [why : BOOLEAN, text : BOOLEAN, calls : 0 .. MaxToolCalls,
              finish : {"none", "stop", "length", "tool_calls"}]

\* The contents of an answer, one block for each kind and call.
LEMMA ContentFacts ==
  ASSUME NEW m \in AnswerSet
  PROVE  LET w == IF m.why THEN 1 ELSE 0
             t == IF m.text THEN 1 ELSE 0 IN
         /\ Content(m) \in Seq(BlockKinds) /\ Len(Content(m)) = w + t + m.calls
         /\ DOMAIN Content(m) = 1 .. w + t + m.calls
         /\ m.why => Content(m)[1] = "thinking"
         /\ m.text => Content(m)[w + 1] = "text"
         /\ \A i \in 1 .. w + t + m.calls : i > w + t => Content(m)[i] = "tool"
<1> DEFINE a == IF m.why THEN <<"thinking">> ELSE << >>
           b == IF m.text THEN <<"text">> ELSE << >>
           c == [i \in 1 .. m.calls |-> "tool"]
           w == IF m.why THEN 1 ELSE 0
           t == IF m.text THEN 1 ELSE 0
<1>1. Content(m) = (a \o b) \o c
  BY DEF Content, ChatResponseToAnthropic
<1>2. a \in Seq(BlockKinds) /\ Len(a) = w /\ (m.why => a[1] = "thinking")
  <2>1. CASE m.why
    BY <2>1 DEF BlockKinds
  <2>2. CASE ~m.why
    BY <2>2 DEF BlockKinds
  <2> QED
    BY <2>1, <2>2
<1>3. b \in Seq(BlockKinds) /\ Len(b) = t /\ (m.text => b[1] = "text")
  <2>1. CASE m.text
    BY <2>1 DEF BlockKinds
  <2>2. CASE ~m.text
    BY <2>2 DEF BlockKinds
  <2> QED
    BY <2>1, <2>2
<1>4. c \in Seq(BlockKinds) /\ Len(c) = m.calls /\ m.calls \in Nat /\ \A i \in 1 .. m.calls : c[i] = "tool"
  BY DEF BlockKinds, AnswerSet
<1>5. w \in {0, 1} /\ t \in {0, 1} /\ (m.why <=> w = 1) /\ (m.text <=> t = 1)
  BY DEF AnswerSet
<1> HIDE DEF a, b, c, w, t
<1> DEFINE ab == a \o b
<1>6. /\ ab \in Seq(BlockKinds) /\ Len(ab) = w + t
      /\ \A i \in 1 .. w : ab[i] = a[i]
      /\ \A i \in 1 .. t : ab[w + i] = b[i]
  <2>1. /\ ab \in Seq(BlockKinds) /\ Len(ab) = Len(a) + Len(b)
        /\ \A i \in 1 .. Len(a) : ab[i] = a[i]
        /\ \A i \in 1 .. Len(b) : ab[Len(a) + i] = b[i]
    <3>1. a \in Seq(BlockKinds) /\ b \in Seq(BlockKinds)
      BY <1>2, <1>3
    <3> QED
      BY ONLY <3>1, ConcatFacts
  <2> QED
    BY <1>2, <1>3, <2>1
<1>7. (m.why => ab[1] = "thinking") /\ (m.text => ab[w + 1] = "text")
  BY <1>2, <1>3, <1>5, <1>6
<1> HIDE DEF ab
<1> DEFINE all == ab \o c
<1>8. /\ all \in Seq(BlockKinds) /\ DOMAIN all = 1 .. w + t + m.calls /\ Len(all) = w + t + m.calls
      /\ \A i \in 1 .. w + t : all[i] = ab[i]
      /\ \A i \in 1 .. w + t + m.calls : i \notin 1 .. w + t =>
           i - (w + t) \in 1 .. m.calls /\ all[i] = c[i - (w + t)]
  <2>1. /\ all \in Seq(BlockKinds) /\ DOMAIN all = 1 .. Len(ab) + Len(c) /\ Len(all) = Len(ab) + Len(c)
        /\ \A i \in 1 .. Len(ab) : all[i] = ab[i]
        /\ \A i \in 1 .. Len(ab) + Len(c) : i \notin 1 .. Len(ab) =>
             i - Len(ab) \in 1 .. Len(c) /\ all[i] = c[i - Len(ab)]
    <3>1. ab \in Seq(BlockKinds) /\ c \in Seq(BlockKinds)
      BY <1>4, <1>6
    <3> QED
      BY ONLY <3>1, ConcatFacts
  <2>2. Len(ab) = w + t /\ Len(c) = m.calls
    BY <1>4, <1>6
  <2> QED
    BY <2>1, <2>2
<1> HIDE DEF all
<1>9. \A i \in 1 .. w + t + m.calls : i > w + t => all[i] = "tool"
  BY <1>4, <1>5, <1>8
<1>10. (m.why => all[1] = "thinking") /\ (m.text => all[w + 1] = "text")
  BY <1>5, <1>7, <1>8
<1>11. Content(m) = all
  BY <1>1 DEF all, ab
<1> QED
  BY <1>8, <1>9, <1>10, <1>11 DEF w, t

\* Two answers that have the same kinds and calls have the same contents, and the next
\* kind adds one.
LEMMA ContentNext ==
  ASSUME NEW m \in AnswerSet, NEW n \in AnswerSet
  PROVE  /\ n.why = m.why /\ n.text = m.text /\ n.calls = m.calls => Content(n) = Content(m)
         /\ n.why = m.why /\ n.text = m.text /\ n.calls = m.calls + 1 =>
              Content(n) = Append(Content(m), "tool")
         /\ ~m.text /\ m.calls = 0 /\ n.why = m.why /\ n.text /\ n.calls = 0 =>
              Content(n) = Append(Content(m), "text")
         /\ ~m.why /\ ~m.text /\ m.calls = 0 /\ n.why /\ ~n.text /\ n.calls = 0 =>
              Content(n) = Append(Content(m), "thinking")
<1>1. ASSUME n.why = m.why, n.text = m.text, n.calls = m.calls
      PROVE  Content(n) = Content(m)
  BY <1>1 DEF Content, ChatResponseToAnthropic
\* Sequences of one length that agree everywhere are one.
<1>2. ASSUME NEW s \in Seq(BlockKinds), NEW u \in Seq(BlockKinds), Len(s) = Len(u),
             \A i \in 1 .. Len(s) : s[i] = u[i]
      PROVE  s = u
  BY <1>2
<1> DEFINE w == IF m.why THEN 1 ELSE 0
           t == IF m.text THEN 1 ELSE 0
           k == Len(Content(m))
<1>3. /\ Content(m) \in Seq(BlockKinds) /\ k = w + t + m.calls
      /\ m.why => Content(m)[1] = "thinking"
      /\ m.text => Content(m)[w + 1] = "text"
      /\ \A i \in 1 .. w + t + m.calls : i > w + t => Content(m)[i] = "tool"
  BY ContentFacts
<1>4. w \in {0, 1} /\ t \in {0, 1} /\ (m.why <=> w = 1) /\ (m.text <=> t = 1) /\ m.calls \in Nat /\ n.calls \in Nat
  BY DEF AnswerSet
<1>5. ASSUME NEW e \in BlockKinds
      PROVE  LET s == Append(Content(m), e) IN
             /\ s \in Seq(BlockKinds) /\ Len(s) = k + 1 /\ s[k + 1] = e
             /\ \A i \in 1 .. k : s[i] = Content(m)[i]
  BY <1>3
<1> DEFINE v == IF n.why THEN 1 ELSE 0
           u == IF n.text THEN 1 ELSE 0
<1>9. /\ Content(n) \in Seq(BlockKinds) /\ Len(Content(n)) = v + u + n.calls
      /\ n.why => Content(n)[1] = "thinking"
      /\ n.text => Content(n)[v + 1] = "text"
      /\ \A i \in 1 .. v + u + n.calls : i > v + u => Content(n)[i] = "tool"
  BY ContentFacts
<1>10. v = (IF n.why THEN 1 ELSE 0) /\ u = (IF n.text THEN 1 ELSE 0)
       /\ w = (IF m.why THEN 1 ELSE 0) /\ t = (IF m.text THEN 1 ELSE 0)
  OBVIOUS
<1> HIDE DEF w, t, k, v, u
<1>6. ASSUME n.why = m.why, n.text = m.text, n.calls = m.calls + 1
      PROVE  Content(n) = Append(Content(m), "tool")
  <2>1. /\ Content(n) \in Seq(BlockKinds) /\ Len(Content(n)) = w + t + m.calls + 1
        /\ m.why => Content(n)[1] = "thinking"
        /\ m.text => Content(n)[w + 1] = "text"
        /\ \A i \in 1 .. w + t + m.calls + 1 : i > w + t => Content(n)[i] = "tool"
    <3>1. v = w /\ u = t /\ v + u + n.calls = w + t + m.calls + 1
      BY <1>4, <1>6, <1>10
    <3> QED
      BY <1>4, <1>6, <1>9, <3>1
  <2> DEFINE s == Append(Content(m), "tool")
  <2>2. /\ s \in Seq(BlockKinds) /\ Len(s) = k + 1 /\ s[k + 1] = "tool"
        /\ \A i \in 1 .. k : s[i] = Content(m)[i]
    BY <1>5 DEF BlockKinds
  <2> HIDE DEF s
  <2>3. ASSUME NEW i \in 1 .. k + 1 PROVE Content(n)[i] = s[i]
    <3>1. CASE i = k + 1
      BY <1>3, <1>4, <2>1, <2>2, <3>1
    <3>2. CASE i \in 1 .. k /\ i > w + t
      BY <1>3, <1>4, <2>1, <2>2, <3>2
    <3>3. CASE i = 1 /\ m.why
      BY <1>3, <1>4, <2>1, <2>2, <3>3
    <3>4. CASE i = w + 1 /\ m.text
      <4>1. w + 1 \in 1 .. k
        BY <1>3, <1>4, <3>4
      <4> QED
        BY <1>3, <2>1, <2>2, <3>4, <4>1
    <3>5. i = k + 1 \/ (i \in 1 .. k /\ i > w + t) \/ (i = 1 /\ w = 1) \/ (i = w + 1 /\ t = 1)
      BY <1>3, <1>4
    <3> QED
      BY <1>4, <3>1, <3>2, <3>3, <3>4, <3>5
  <2> QED
    BY <1>2, <1>3, <2>1, <2>2, <2>3 DEF s
<1>7. ASSUME ~m.text, m.calls = 0, n.why = m.why, n.text, n.calls = 0
      PROVE  Content(n) = Append(Content(m), "text")
  <2>1. /\ Content(n) \in Seq(BlockKinds) /\ Len(Content(n)) = w + 1
        /\ m.why => Content(n)[1] = "thinking"
        /\ Content(n)[w + 1] = "text"
    <3>1. v = w /\ u = 1 /\ v + u + n.calls = w + 1
      BY <1>4, <1>7, <1>10
    <3> QED
      BY <1>4, <1>7, <1>9, <3>1
  <2> DEFINE s == Append(Content(m), "text")
  <2>2. /\ s \in Seq(BlockKinds) /\ Len(s) = w + 1 /\ s[w + 1] = "text"
        /\ \A i \in 1 .. w : s[i] = Content(m)[i]
    BY <1>3, <1>4, <1>5, <1>7 DEF BlockKinds
  <2> HIDE DEF s
  <2>3. \A i \in 1 .. w + 1 : Content(n)[i] = s[i]
    BY <1>3, <1>4, <2>1, <2>2
  <2> QED
    BY <1>2, <2>1, <2>2, <2>3 DEF s
<1>8. ASSUME ~m.why, ~m.text, m.calls = 0, n.why, ~n.text, n.calls = 0
      PROVE  Content(n) = Append(Content(m), "thinking")
  <2>1. Content(n) \in Seq(BlockKinds) /\ Len(Content(n)) = 1 /\ Content(n)[1] = "thinking"
    <3>1. v = 1 /\ u = 0 /\ v + u + n.calls = 1
      BY <1>8, <1>10
    <3> QED
      BY <1>8, <1>9, <3>1
  <2> DEFINE s == Append(Content(m), "thinking")
  <2>2. s \in Seq(BlockKinds) /\ Len(s) = 1 /\ s[1] = "thinking"
    BY <1>3, <1>4, <1>5, <1>8 DEF BlockKinds
  <2> HIDE DEF s
  <2> QED
    BY <1>2, <2>1, <2>2 DEF s
<1> QED
  BY <1>1, <1>6, <1>7, <1>8

\* The fields of a stream and of its client.
LEMMA StreamFields ==
  ASSUME NEW a \in Ants
  PROVE  /\ a.client \in Clients /\ a.block \in Nat /\ a.kind \in BlockKinds \cup {""}
         /\ a.think \in BOOLEAN /\ a.text \in BOOLEAN /\ a.tool \in Indexes \cup {NoCall}
         /\ a.client.ok \in BOOLEAN /\ a.client.open \in BlockKinds \cup {""}
         /\ a.client.kinds \in Seq(BlockKinds) /\ a.client.stop \in {"", "end_turn", "tool_use"}
         /\ a.client.deltas \in Nat /\ Len(a.client.kinds) \in Nat
<1>1. /\ a.client \in Clients /\ a.block \in Nat /\ a.kind \in BlockKinds \cup {""}
      /\ a.think \in BOOLEAN /\ a.text \in BOOLEAN /\ a.tool \in Indexes \cup {NoCall}
  BY DEF Ants
<1> DEFINE c == a.client
<1>2. c \in Clients
  BY <1>1
<1> HIDE DEF c
<1>3. /\ c.ok \in BOOLEAN /\ c.open \in BlockKinds \cup {""}
      /\ c.kinds \in Seq(BlockKinds) /\ c.stop \in {"", "end_turn", "tool_use"} /\ c.deltas \in Nat
  BY <1>2 DEF Clients
<1>4. Len(c.kinds) \in Nat
  <2> DEFINE ks == c.kinds
  <2>1. ks \in Seq(BlockKinds)
    BY <1>3
  <2> HIDE DEF ks
  <2>2. Len(ks) \in Nat
    BY ONLY <2>1
  <2> QED
    BY <2>2 DEF ks
<1> QED
  BY <1>1, <1>3, <1>4 DEF c

\* The client closes the open block.
LEMMA DoneFits ==
  ASSUME NEW a \in Ants
  PROVE  LET s == WriteBlockDone(a) IN
         /\ s \in Ants /\ s.kind = a.kind /\ s.think = a.think /\ s.text = a.text /\ s.tool = a.tool
         /\ s.block = a.block /\ s.client.kinds = a.client.kinds /\ s.client.open = ""
         /\ s.client.ok <=> a.client.ok /\ a.client.open # "" /\ a.block + 1 = Len(a.client.kinds)
<1> DEFINE c == a.client
           s == WriteBlockDone(a)
           e == StreamEvent("stop", a.block, a.kind)
           d == [c EXCEPT !.ok = @ /\ c.open # "" /\ e.index + 1 = Len(c.kinds), !.open = ""]
<1>1. /\ c \in Clients /\ c.kinds \in Seq(BlockKinds) /\ a.block \in Nat /\ a.kind \in BlockKinds \cup {""}
      /\ Len(c.kinds) \in Nat /\ c.open \in BlockKinds \cup {""} /\ c.ok \in BOOLEAN
      /\ c.stop \in {"", "end_turn", "tool_use"} /\ c.deltas \in Nat
  BY StreamFields DEF BlockKinds
<1>2. e.ev = "stop" /\ e.index = a.block
  BY DEF StreamEvent
<1>3. Received(c, e) = d
  BY <1>2 DEF Received
<1>4. d \in Clients /\ d.kinds = c.kinds /\ d.open = ""
      /\ (d.ok <=> c.ok /\ c.open # "" /\ a.block + 1 = Len(c.kinds))
  BY <1>1, <1>2 DEF Clients
<1>5. s = [a EXCEPT !.client = d]
  BY <1>3 DEF WriteBlockDone, Send
<1> HIDE DEF d, e, s
<1>6. s \in Ants /\ s.client = d /\ s.block = a.block /\ s.kind = a.kind
      /\ s.think = a.think /\ s.text = a.text /\ s.tool = a.tool
  BY <1>4, <1>5 DEF Ants
<1> QED
  BY <1>4, <1>6 DEF s

\* The block in progress ends.
LEMMA LeaveFits ==
  ASSUME NEW a \in Ants
  PROVE  LET l == Leave(a) IN
         /\ l \in Ants /\ l.kind = a.kind /\ l.think = a.think /\ l.text = a.text /\ l.tool = a.tool
         /\ l.client.kinds = a.client.kinds
         /\ /\ a.client.ok /\ a.client.open = a.kind
            /\ IF a.kind = "" THEN a.block = 0 /\ Len(a.client.kinds) = 0
                              ELSE a.block + 1 = Len(a.client.kinds)
            => l.client.ok /\ l.client.open = "" /\ l.block = Len(a.client.kinds)
<1> DEFINE l == Leave(a)
           s == WriteBlockDone(a)
<1>1. CASE a.kind = ""
  BY <1>1 DEF Leave
<1>2. CASE a.kind # ""
  <2>1. /\ s \in Ants /\ s.kind = a.kind /\ s.think = a.think /\ s.text = a.text /\ s.tool = a.tool
        /\ s.block = a.block /\ s.client.kinds = a.client.kinds /\ s.client.open = ""
        /\ s.client.ok <=> a.client.ok /\ a.client.open # "" /\ a.block + 1 = Len(a.client.kinds)
    BY DoneFits
  <2>2. l = [s EXCEPT !.block = @ + 1]
    BY <1>2 DEF Leave
  <2> HIDE DEF l, s
  <2> DEFINE n == s.block + 1
  <2>3. n \in Nat /\ n = a.block + 1 /\ l = [s EXCEPT !.block = n]
    <3>1. a.block \in Nat
      BY StreamFields
    <3>2. n \in Nat /\ n = a.block + 1
      <4>1. s.block = a.block
        BY <2>1
      <4> QED
        BY <3>1, <4>1
    <3> QED
      BY <2>2, <3>2
  <2> HIDE DEF n
  <2>4. l \in Ants /\ l.kind = s.kind /\ l.think = s.think /\ l.text = s.text /\ l.tool = s.tool
        /\ l.client = s.client /\ l.block = n
    BY <2>1, <2>3 DEF Ants
  <2>5. l = Leave(a)
    BY DEF l
  <2> QED
    BY <1>2, <2>1, <2>3, <2>4, <2>5
<1> QED
  BY <1>1, <1>2

\* A block begins.
LEMMA StartFits ==
  ASSUME NEW l \in Ants, NEW kind \in BlockKinds
  PROVE  LET b == StartBlock(l, kind) IN
         /\ b \in Ants /\ b.kind = kind
         /\ b.think = l.think /\ b.text = l.text /\ b.tool = l.tool
         /\ b.client.kinds = Append(l.client.kinds, kind)
         /\ Len(b.client.kinds) = Len(l.client.kinds) + 1
         /\ l.client.ok /\ l.client.open = "" /\ l.block = Len(l.client.kinds)
            => b.client.ok /\ b.client.open = kind /\ b.block + 1 = Len(b.client.kinds)
<1> DEFINE b == StartBlock(l, kind)
<1> DEFINE lc == l.client
           e == StreamEvent("start", l.block, kind)
           d == [lc EXCEPT !.ok = @ /\ lc.open = "" /\ e.index = Len(lc.kinds),
                           !.open = e.kind, !.kinds = Append(@, e.kind)]
<1>3. e.ev = "start" /\ e.index = l.block /\ e.kind = kind
  BY DEF StreamEvent
<1>4. Received(lc, e) = d
  BY <1>3 DEF Received
<1>5. lc \in Clients /\ lc.kinds \in Seq(BlockKinds) /\ lc.ok \in BOOLEAN /\ Len(lc.kinds) \in Nat
  BY StreamFields
<1>6. Append(lc.kinds, kind) \in Seq(BlockKinds) /\ Len(Append(lc.kinds, kind)) = Len(lc.kinds) + 1
  BY <1>5
<1>7. d \in Clients /\ d.kinds = Append(lc.kinds, kind) /\ d.open = kind
      /\ (d.ok <=> lc.ok /\ lc.open = "" /\ l.block = Len(lc.kinds))
  BY <1>3, <1>5, <1>6 DEF Clients
<1>8. b = [Send(l, e) EXCEPT !.kind = kind] /\ Send(l, e) = [l EXCEPT !.client = d]
  BY <1>4 DEF StartBlock, Send
<1> DEFINE s == Send(l, e)
<1> HIDE DEF d, e, b, s
<1>9. s \in Ants /\ s.client = d /\ s.block = l.block
      /\ s.think = l.think /\ s.text = l.text /\ s.tool = l.tool
  <2>1. s = [l EXCEPT !.client = d] /\ l \in Ants /\ d \in Clients
    BY <1>7, <1>8 DEF s
  <2> QED
    BY <2>1 DEF Ants
<1>10. b \in Ants /\ b.kind = kind /\ b.think = l.think /\ b.text = l.text /\ b.tool = l.tool
       /\ b.client = d /\ b.block = l.block
  <2>1. b = [s EXCEPT !.kind = kind] /\ s \in Ants /\ d \in Clients
    BY <1>7, <1>8, <1>9 DEF s
  <2>2. /\ b \in Ants /\ b.client = s.client /\ b.block = s.block /\ b.kind = kind
        /\ b.think = s.think /\ b.text = s.text /\ b.tool = s.tool
    BY <2>1 DEF Ants
  <2> QED
    BY <1>9, <2>2
<1> QED
  BY <1>5, <1>6, <1>7, <1>10 DEF b

\* A block begins behind the one in progress.
LEMMA BlockBegins ==
  ASSUME NEW a \in Ants, NEW kind \in BlockKinds
  PROVE  LET b == StartBlock(Leave(a), kind) IN
         /\ b \in Ants /\ b.kind = kind
         /\ b.think = a.think /\ b.text = a.text /\ b.tool = a.tool
         /\ b.client.kinds = Append(a.client.kinds, kind)
         /\ /\ a.client.ok /\ a.client.open = a.kind
            /\ IF a.kind = "" THEN a.block = 0 /\ Len(a.client.kinds) = 0
                              ELSE a.block + 1 = Len(a.client.kinds)
            => b.client.ok /\ b.client.open = kind /\ b.block + 1 = Len(b.client.kinds)
<1> DEFINE l == Leave(a)
<1>1. /\ l \in Ants /\ l.kind = a.kind /\ l.think = a.think /\ l.text = a.text /\ l.tool = a.tool
      /\ l.client.kinds = a.client.kinds
      /\ /\ a.client.ok /\ a.client.open = a.kind
         /\ IF a.kind = "" THEN a.block = 0 /\ Len(a.client.kinds) = 0
                              ELSE a.block + 1 = Len(a.client.kinds)
         => l.client.ok /\ l.client.open = "" /\ l.block = Len(a.client.kinds)
  BY LeaveFits
<1> HIDE DEF l
<1> DEFINE b == StartBlock(l, kind)
<1>2. /\ b \in Ants /\ b.kind = kind
      /\ b.think = l.think /\ b.text = l.text /\ b.tool = l.tool
      /\ b.client.kinds = Append(l.client.kinds, kind)
      /\ l.client.ok /\ l.client.open = "" /\ l.block = Len(l.client.kinds)
         => b.client.ok /\ b.client.open = kind /\ b.block + 1 = Len(b.client.kinds)
  BY <1>1, StartFits
<1> HIDE DEF b
<1>3. b = StartBlock(Leave(a), kind)
  BY DEF b, l
<1> QED
  BY <1>1, <1>2, <1>3

\* A delta goes to the block that is open.
LEMMA DeltaGoes ==
  ASSUME NEW a \in Ants, NEW kind \in BlockKinds
  PROVE  LET b == Delta(a, kind) IN
         /\ b \in Ants /\ b.kind = a.kind /\ b.block = a.block
         /\ b.think = a.think /\ b.text = a.text /\ b.tool = a.tool
         /\ b.client.kinds = a.client.kinds /\ b.client.open = a.client.open
         /\ a.client.ok /\ a.client.open = kind /\ a.block + 1 = Len(a.client.kinds) => b.client.ok
<1> DEFINE c == a.client
           e == StreamEvent("delta", a.block, kind)
           d == [c EXCEPT !.ok = @ /\ c.open = e.kind /\ e.index + 1 = Len(c.kinds), !.deltas = @ + 1]
           b == Delta(a, kind)
<1>1. e.ev = "delta" /\ e.index = a.block /\ e.kind = kind
  BY DEF StreamEvent
<1>2. Received(c, e) = d
  BY <1>1 DEF Received
<1>3. /\ c \in Clients /\ c.kinds \in Seq(BlockKinds) /\ c.deltas \in Nat /\ c.ok \in BOOLEAN
      /\ Len(c.kinds) \in Nat /\ a.block \in Nat
  BY StreamFields
<1>4. d \in Clients /\ d.kinds = c.kinds /\ d.open = c.open
      /\ (d.ok <=> c.ok /\ c.open = kind /\ a.block + 1 = Len(c.kinds))
  <2> DEFINE ok == c.ok /\ c.open = e.kind /\ e.index + 1 = Len(c.kinds)
             n == c.deltas + 1
  <2>1. ok \in BOOLEAN /\ n \in Nat /\ (ok <=> c.ok /\ c.open = kind /\ a.block + 1 = Len(c.kinds))
    BY <1>1, <1>3
  <2>2. d = [c EXCEPT !.ok = ok, !.deltas = n]
    OBVIOUS
  <2> HIDE DEF ok, n, d, c
  <2>3. d \in Clients /\ d.kinds = c.kinds /\ d.open = c.open /\ d.ok = ok
    BY <1>3, <2>1, <2>2 DEF Clients
  <2> QED
    BY <2>1, <2>3
<1>5. b = [a EXCEPT !.client = d]
  BY <1>2 DEF Delta, Send
<1> HIDE DEF d, b, e
<1>6. b \in Ants /\ b.client = d /\ b.kind = a.kind /\ b.block = a.block
      /\ b.think = a.think /\ b.text = a.text /\ b.tool = a.tool
  BY <1>4, <1>5 DEF Ants
<1> QED
  BY <1>4, <1>6 DEF b

\* What has been built has a block for what the answer has, the last of them open.
LEMMA BuildingSays ==
  ASSUME NEW a \in Ants, NEW m \in AnswerSet, Building(a, m)
  PROVE  /\ a.client.ok /\ a.client.open = a.kind /\ a.client.kinds = Content(m)
         /\ (a.think <=> m.why) /\ (a.text <=> m.text)
         /\ m.calls \in Nat /\ a.tool = m.calls - 1 /\ (m.calls = 0 => a.tool = NoCall)
         /\ m.calls > 0 => a.kind = "tool"
         /\ m.calls = 0 /\ m.text => a.kind = "text"
         /\ m.calls = 0 /\ ~m.text /\ m.why => a.kind = "thinking"
         /\ m.calls = 0 /\ ~m.text /\ ~m.why => a.kind = ""
         /\ a.kind = "" => ~m.why /\ ~m.text /\ m.calls = 0
         /\ IF a.kind = "" THEN a.block = 0 /\ Len(a.client.kinds) = 0
                           ELSE a.block + 1 = Len(a.client.kinds)
<1>1. m.calls \in Nat
  BY DEF AnswerSet
<1>2. a.tool = m.calls - 1
  BY Zenon DEF Building
<1>3. m.calls > 0 \/ m.calls = 0
  BY <1>1
<1>4. a.kind = "" => ~m.why /\ ~m.text /\ m.calls = 0
  BY <1>3, Zenon DEF Building
<1>5. ~m.why /\ ~m.text /\ m.calls = 0 => Len(Content(m)) = 0
  <2>1. Len(Content(m)) = (IF m.why THEN 1 ELSE 0) + (IF m.text THEN 1 ELSE 0) + m.calls
    BY ContentFacts
  <2> QED
    BY <2>1
<1>6. a.client.kinds = Content(m) /\ (a.kind = "" => a.block = 0)
      /\ (a.kind # "" => a.block + 1 = Len(a.client.kinds))
  BY Zenon DEF Building
<1>7. IF a.kind = "" THEN a.block = 0 /\ Len(a.client.kinds) = 0
                     ELSE a.block + 1 = Len(a.client.kinds)
  BY <1>4, <1>5, <1>6
<1>8. m.calls = 0 => a.tool = NoCall
  BY <1>1, <1>2 DEF NoCall
<1> QED
  BY <1>1, <1>2, <1>4, <1>7, <1>8, Zenon DEF Building

\* Reasoning: its delta goes to the one thinking block of an answer in order.
LEMMA ThinkingFits ==
  ASSUME NEW a \in Ants, NEW m \in AnswerSet, NEW n \in AnswerSet
  PROVE  LET b == Thinking(a) IN
         /\ b \in Ants /\ b.tool = a.tool
         /\ /\ Building(a, m) /\ ~m.text /\ m.calls = 0
            /\ n.why /\ ~n.text /\ n.calls = 0
            => Building(b, n)
<1> DEFINE s == StartBlock(Leave(a), "thinking")
           t == [s EXCEPT !.think = TRUE]
           u == IF a.think THEN a ELSE t
           b == Delta(u, "thinking")
<1>1. "thinking" \in BlockKinds
  BY DEF BlockKinds
<1>2. /\ s \in Ants /\ s.kind = "thinking" /\ s.text = a.text /\ s.tool = a.tool
      /\ s.client.kinds = Append(a.client.kinds, "thinking")
      /\ /\ a.client.ok /\ a.client.open = a.kind
         /\ IF a.kind = "" THEN a.block = 0 /\ Len(a.client.kinds) = 0
                           ELSE a.block + 1 = Len(a.client.kinds)
         => s.client.ok /\ s.client.open = "thinking" /\ s.block + 1 = Len(s.client.kinds)
  BY <1>1, BlockBegins
<1> HIDE DEF s
<1>3. /\ t \in Ants /\ t.kind = s.kind /\ t.text = s.text /\ t.tool = s.tool /\ t.think
      /\ t.client = s.client /\ t.block = s.block
  BY <1>2 DEF Ants
<1> HIDE DEF t
<1>4. u \in Ants /\ u.tool = a.tool
  BY <1>2, <1>3
<1>5. Building(a, m) /\ ~m.text /\ m.calls = 0 /\ n.why /\ ~n.text /\ n.calls = 0
      => /\ u.client.ok /\ u.client.open = "thinking" /\ u.kind = "thinking" /\ u.think /\ ~u.text
         /\ u.client.kinds = Content(n) /\ u.tool = NoCall /\ u.block + 1 = Len(u.client.kinds)
  <2> SUFFICES ASSUME Building(a, m), ~m.text, m.calls = 0, n.why, ~n.text, n.calls = 0
               PROVE  /\ u.client.ok /\ u.client.open = "thinking" /\ u.kind = "thinking" /\ u.think /\ ~u.text
                      /\ u.client.kinds = Content(n) /\ u.tool = NoCall /\ u.block + 1 = Len(u.client.kinds)
    OBVIOUS
  <2>3. /\ a.client.ok /\ a.client.open = a.kind /\ a.client.kinds = Content(m)
        /\ (a.think <=> m.why) /\ (a.text <=> m.text)
        /\ m.calls \in Nat /\ a.tool = m.calls - 1 /\ (m.calls = 0 => a.tool = NoCall)
        /\ m.calls > 0 => a.kind = "tool"
        /\ m.calls = 0 /\ m.text => a.kind = "text"
        /\ m.calls = 0 /\ ~m.text /\ m.why => a.kind = "thinking"
        /\ m.calls = 0 /\ ~m.text /\ ~m.why => a.kind = ""
        /\ a.kind = "" => ~m.why /\ ~m.text /\ m.calls = 0
        /\ IF a.kind = "" THEN a.block = 0 /\ Len(a.client.kinds) = 0
                          ELSE a.block + 1 = Len(a.client.kinds)
    BY BuildingSays, Zenon
  <2>1. CASE m.why
    <3>1. Content(n) = Content(m)
      <4>1. n.why = m.why /\ n.text = m.text /\ n.calls = m.calls
        BY <2>1 DEF AnswerSet
      <4> QED
        BY <4>1, ContentNext
    <3>2. a.think /\ a.kind = "thinking" /\ a.tool = NoCall /\ ~a.text
      BY <2>1, <2>3
    <3> QED
      BY <2>1, <2>3, <3>1, <3>2
  <2>2. CASE ~m.why
    <3>1. Content(n) = Append(Content(m), "thinking")
      BY <2>2, ContentNext
    <3>2. ~a.think /\ a.kind = "" /\ a.tool = NoCall /\ a.block = 0 /\ ~a.text
          /\ a.client.ok /\ a.client.open = a.kind /\ a.client.kinds = Content(m)
      BY <2>2, <2>3
    <3>3. Len(a.client.kinds) = 0
      BY <2>3, <3>2
    <3> QED
      BY <1>2, <1>3, <3>1, <3>2, <3>3
  <2> QED
    BY <2>1, <2>2
<1> HIDE DEF u
<1>6. /\ b \in Ants /\ b.kind = u.kind /\ b.block = u.block
      /\ b.think = u.think /\ b.text = u.text /\ b.tool = u.tool
      /\ b.client.kinds = u.client.kinds /\ b.client.open = u.client.open
      /\ u.client.ok /\ u.client.open = "thinking" /\ u.block + 1 = Len(u.client.kinds) => b.client.ok
  BY <1>1, <1>4, DeltaGoes
<1>7. b = Thinking(a)
  BY DEF Thinking, u, t, s
<1> HIDE DEF b
<1>8. ASSUME Building(a, m), ~m.text, m.calls = 0, n.why, ~n.text, n.calls = 0
      PROVE  Building(b, n)
  <2>1. /\ b.client.ok /\ b.client.open = b.kind /\ b.kind = "thinking" /\ b.think /\ ~b.text
        /\ b.client.kinds = Content(n) /\ b.tool = NoCall /\ b.block + 1 = Len(b.client.kinds)
    BY <1>5, <1>6, <1>8
  <2>2. b.tool = n.calls - 1 /\ ~(n.calls > 0) /\ b.kind # ""
    BY <1>8, <2>1 DEF NoCall
  <2> QED
    BY <1>8, <2>1, <2>2, Zenon DEF Building
<1> QED
  BY <1>4, <1>6, <1>7, <1>8

\* A call: a new one begins a block, the last one continues its own.
LEMMA ToolCallFits ==
  ASSUME NEW a \in Ants, NEW m \in AnswerSet, NEW n \in AnswerSet, NEW index \in Indexes
  PROVE  LET b == ToolCall(a, index) IN
         /\ b \in Ants /\ b.tool = index
         /\ /\ Building(a, m) /\ n.why = m.why /\ n.text = m.text
            /\ \/ index = m.calls /\ n.calls = m.calls + 1
               \/ index = m.calls - 1 /\ n.calls = m.calls
            => Building(b, n)
<1> DEFINE s == StartBlock(Leave(a), "tool")
           t == [s EXCEPT !.tool = index]
           u == IF a.tool = index THEN a ELSE t
           b == Delta(u, "tool")
<1>1. "tool" \in BlockKinds /\ m.calls \in Nat /\ index \in Nat
  BY DEF BlockKinds, AnswerSet, Indexes
<1>2. /\ s \in Ants /\ s.kind = "tool" /\ s.text = a.text /\ s.think = a.think
      /\ s.client.kinds = Append(a.client.kinds, "tool")
      /\ /\ a.client.ok /\ a.client.open = a.kind
         /\ IF a.kind = "" THEN a.block = 0 /\ Len(a.client.kinds) = 0
                           ELSE a.block + 1 = Len(a.client.kinds)
         => s.client.ok /\ s.client.open = "tool" /\ s.block + 1 = Len(s.client.kinds)
  BY <1>1, BlockBegins
<1> HIDE DEF s
<1>3. /\ t \in Ants /\ t.kind = s.kind /\ t.text = s.text /\ t.tool = index /\ t.think = s.think
      /\ t.client = s.client /\ t.block = s.block
  BY <1>2 DEF Ants
<1> HIDE DEF t
<1>4. u \in Ants /\ u.tool = index
  BY <1>2, <1>3
<1>5. ASSUME Building(a, m), n.why = m.why, n.text = m.text,
             \/ index = m.calls /\ n.calls = m.calls + 1
             \/ index = m.calls - 1 /\ n.calls = m.calls
      PROVE  /\ u.client.ok /\ u.client.open = "tool" /\ u.kind = "tool" /\ (u.think <=> n.why) /\ (u.text <=> n.text)
             /\ u.client.kinds = Content(n) /\ u.block + 1 = Len(u.client.kinds)
             /\ n.calls > 0 /\ index = n.calls - 1
  <2>3. /\ a.client.ok /\ a.client.open = a.kind /\ a.client.kinds = Content(m)
        /\ (a.think <=> m.why) /\ (a.text <=> m.text)
        /\ m.calls \in Nat /\ a.tool = m.calls - 1 /\ (m.calls = 0 => a.tool = NoCall)
        /\ m.calls > 0 => a.kind = "tool"
        /\ m.calls = 0 /\ m.text => a.kind = "text"
        /\ m.calls = 0 /\ ~m.text /\ m.why => a.kind = "thinking"
        /\ m.calls = 0 /\ ~m.text /\ ~m.why => a.kind = ""
        /\ a.kind = "" => ~m.why /\ ~m.text /\ m.calls = 0
        /\ IF a.kind = "" THEN a.block = 0 /\ Len(a.client.kinds) = 0
                          ELSE a.block + 1 = Len(a.client.kinds)
    BY <1>5, BuildingSays, Zenon
  <2>1. CASE index = m.calls - 1 /\ n.calls = m.calls
    <3>1. Content(n) = Content(m)
      BY <1>5, <2>1, ContentNext
    <3>3. a.tool = index
      BY <2>1, <2>3
    <3>4. m.calls > 0
      BY <1>1, <2>1
    <3>2. a.tool = index /\ a.kind = "tool" /\ u = a /\ m.calls > 0
      BY <2>3, <3>3, <3>4
    <3> QED
      BY <1>1, <1>5, <2>1, <2>3, <3>1, <3>2
  <2>2. CASE index = m.calls /\ n.calls = m.calls + 1
    <3>1. Content(n) = Append(Content(m), "tool")
      BY <1>5, <2>2, ContentNext
    <3>6. a.tool # index
      <4>1. a.tool = index - 1
        BY <2>2, <2>3
      <4>2. index - 1 # index
        BY <1>1
      <4> QED
        BY <4>1, <4>2
    <3>7. (n.why <=> m.why) /\ (n.text <=> m.text)
      BY <1>5
    <3>2. /\ a.tool # index /\ a.client.ok /\ a.client.open = a.kind /\ a.client.kinds = Content(m)
          /\ (a.think <=> n.why) /\ (a.text <=> n.text)
      BY <2>3, <3>6, <3>7
    <3>3. IF a.kind = "" THEN a.block = 0 /\ Len(a.client.kinds) = 0
                        ELSE a.block + 1 = Len(a.client.kinds)
      BY <2>3
    <3>4. s.client.ok /\ s.client.open = "tool" /\ s.block + 1 = Len(s.client.kinds)
      BY <1>2, <3>2, <3>3
    <3>5. u = t
      BY <3>2
    <3>8. n.calls > 0 /\ index = n.calls - 1
      BY <1>1, <2>2
    <3> QED
      BY <1>2, <1>3, <3>1, <3>2, <3>4, <3>5, <3>8
  <2> QED
    BY <1>5, <2>1, <2>2
<1> HIDE DEF u
<1>6. /\ b \in Ants /\ b.kind = u.kind /\ b.block = u.block
      /\ b.think = u.think /\ b.text = u.text /\ b.tool = u.tool
      /\ b.client.kinds = u.client.kinds /\ b.client.open = u.client.open
      /\ u.client.ok /\ u.client.open = "tool" /\ u.block + 1 = Len(u.client.kinds) => b.client.ok
  BY <1>1, <1>4, DeltaGoes
<1>7. b = ToolCall(a, index)
  BY DEF ToolCall, u, t, s
<1> HIDE DEF b
<1>8. ASSUME Building(a, m), n.why = m.why, n.text = m.text,
             \/ index = m.calls /\ n.calls = m.calls + 1
             \/ index = m.calls - 1 /\ n.calls = m.calls
      PROVE  Building(b, n)
  <2>1. /\ b.client.ok /\ b.client.open = b.kind /\ b.kind = "tool" /\ (b.think <=> n.why) /\ (b.text <=> n.text)
        /\ b.client.kinds = Content(n) /\ b.block + 1 = Len(b.client.kinds)
        /\ n.calls > 0 /\ b.tool = n.calls - 1
    BY <1>4, <1>5, <1>6, <1>8
  <2>2. b.kind # "" /\ ~(n.calls = 0)
    BY <2>1
  <2> QED
    BY <2>1, <2>2, Zenon DEF Building
<1> QED
  BY <1>4, <1>6, <1>7, <1>8

\* Text: its delta goes to the one text block of an answer in order.
LEMMA TextFits ==
  ASSUME NEW a \in Ants, NEW m \in AnswerSet, NEW n \in AnswerSet
  PROVE  LET b == Text(a) IN
         /\ b \in Ants /\ b.tool = a.tool
         /\ /\ Building(a, m) /\ m.calls = 0
            /\ n.why = m.why /\ n.text /\ n.calls = 0
            => Building(b, n)
<1> DEFINE l == Leave(a)
           k == [l EXCEPT !.kind = "text"]
           f == IF a.kind = "text" THEN a ELSE k
           s == StartBlock(f, "text")
           t == [s EXCEPT !.text = TRUE]
           u == IF f.text THEN f ELSE t
           b == Delta(u, "text")
<1>1. "text" \in BlockKinds
  BY DEF BlockKinds
<1>2. /\ l \in Ants /\ l.think = a.think /\ l.text = a.text /\ l.tool = a.tool
      /\ l.client.kinds = a.client.kinds
      /\ /\ a.client.ok /\ a.client.open = a.kind
         /\ IF a.kind = "" THEN a.block = 0 /\ Len(a.client.kinds) = 0
                           ELSE a.block + 1 = Len(a.client.kinds)
         => l.client.ok /\ l.client.open = "" /\ l.block = Len(a.client.kinds)
  BY LeaveFits
<1> HIDE DEF l
<1>3. /\ k \in Ants /\ k.kind = "text" /\ k.text = l.text /\ k.tool = l.tool /\ k.think = l.think
      /\ k.client = l.client /\ k.block = l.block
  BY <1>1, <1>2 DEF Ants
<1> HIDE DEF k
<1>4. f \in Ants /\ f.text = a.text /\ f.tool = a.tool /\ f.think = a.think
      /\ f.client.kinds = a.client.kinds
  BY <1>2, <1>3
<1>5. (a.kind = "text" => f = a) /\ (a.kind # "text" => f = k)
  OBVIOUS
<1> HIDE DEF f
<1>6. /\ s \in Ants /\ s.kind = "text" /\ s.text = f.text /\ s.tool = f.tool /\ s.think = f.think
      /\ s.client.kinds = Append(f.client.kinds, "text")
      /\ f.client.ok /\ f.client.open = "" /\ f.block = Len(f.client.kinds)
         => s.client.ok /\ s.client.open = "text" /\ s.block + 1 = Len(s.client.kinds)
  BY <1>1, <1>4, StartFits
<1> HIDE DEF s
<1>7. /\ t \in Ants /\ t.kind = s.kind /\ t.text /\ t.tool = s.tool /\ t.think = s.think
      /\ t.client = s.client /\ t.block = s.block
  BY <1>6 DEF Ants
<1> HIDE DEF t
<1>8. u \in Ants /\ u.tool = a.tool
  BY <1>4, <1>6, <1>7
<1>9. (f.text => u = f) /\ (~f.text => u = t)
  OBVIOUS
<1> HIDE DEF u
<1>10. ASSUME Building(a, m), m.calls = 0, n.why = m.why, n.text, n.calls = 0
       PROVE  /\ u.client.ok /\ u.client.open = "text" /\ u.kind = "text" /\ (u.think <=> n.why) /\ u.text
              /\ u.client.kinds = Content(n) /\ u.tool = NoCall /\ u.block + 1 = Len(u.client.kinds)
  <2>3. /\ a.client.ok /\ a.client.open = a.kind /\ a.client.kinds = Content(m)
        /\ (a.think <=> m.why) /\ (a.text <=> m.text)
        /\ m.calls \in Nat /\ a.tool = m.calls - 1 /\ (m.calls = 0 => a.tool = NoCall)
        /\ m.calls > 0 => a.kind = "tool"
        /\ m.calls = 0 /\ m.text => a.kind = "text"
        /\ m.calls = 0 /\ ~m.text /\ m.why => a.kind = "thinking"
        /\ m.calls = 0 /\ ~m.text /\ ~m.why => a.kind = ""
        /\ a.kind = "" => ~m.why /\ ~m.text /\ m.calls = 0
        /\ IF a.kind = "" THEN a.block = 0 /\ Len(a.client.kinds) = 0
                          ELSE a.block + 1 = Len(a.client.kinds)
    BY <1>10, BuildingSays, Zenon
  <2>1. CASE m.text
    <3>1. Content(n) = Content(m)
      <4>1. n.why = m.why /\ n.text = m.text /\ n.calls = m.calls
        BY <1>10, <2>1 DEF AnswerSet
      <4> QED
        BY <4>1, ContentNext
    <3>2. a.text /\ a.kind = "text" /\ a.tool = NoCall
      BY <1>10, <2>1, <2>3
    <3>3. u = a
      BY <1>5, <1>9, <3>2
    <3> QED
      BY <1>10, <2>1, <2>3, <3>1, <3>2, <3>3
  <2>2. CASE ~m.text
    <3>1. Content(n) = Append(Content(m), "text")
      BY <1>10, <2>2, ContentNext
    <3>2. /\ ~a.text /\ a.kind # "text" /\ a.tool = NoCall /\ (a.think <=> n.why)
          /\ a.client.ok /\ a.client.open = a.kind /\ a.client.kinds = Content(m)
      BY <1>10, <2>2, <2>3
    <3>3. IF a.kind = "" THEN a.block = 0 /\ Len(a.client.kinds) = 0
                        ELSE a.block + 1 = Len(a.client.kinds)
      BY <2>3
    <3>4. f = k /\ f.client.ok /\ f.client.open = "" /\ f.block = Len(f.client.kinds)
      BY <1>2, <1>3, <1>5, <3>2, <3>3
    <3>5. s.client.ok /\ s.client.open = "text" /\ s.block + 1 = Len(s.client.kinds)
      BY <1>6, <3>4
    <3>6. u = t
      BY <1>4, <1>9, <3>2
    <3> QED
      BY <1>4, <1>6, <1>7, <1>10, <3>1, <3>2, <3>5, <3>6
  <2> QED
    BY <2>1, <2>2
<1>11. /\ b \in Ants /\ b.kind = u.kind /\ b.block = u.block
       /\ b.think = u.think /\ b.text = u.text /\ b.tool = u.tool
       /\ b.client.kinds = u.client.kinds /\ b.client.open = u.client.open
       /\ u.client.ok /\ u.client.open = "text" /\ u.block + 1 = Len(u.client.kinds) => b.client.ok
  BY <1>1, <1>8, DeltaGoes
<1>12. b = Text(a)
  BY DEF Text, u, t, s, f, k, l
<1> HIDE DEF b
<1>13. ASSUME Building(a, m), m.calls = 0, n.why = m.why, n.text, n.calls = 0
       PROVE  Building(b, n)
  <2>1. /\ b.client.ok /\ b.client.open = b.kind /\ b.kind = "text" /\ (b.think <=> n.why) /\ b.text
        /\ b.client.kinds = Content(n) /\ b.tool = NoCall /\ b.block + 1 = Len(b.client.kinds)
    BY <1>10, <1>11, <1>13
  <2>2. b.tool = n.calls - 1 /\ ~(n.calls > 0) /\ b.kind # ""
    BY <1>13, <2>1 DEF NoCall
  <2> QED
    BY <1>13, <2>1, <2>2, Zenon DEF Building
<1> QED
  BY <1>8, <1>11, <1>12, <1>13

\* Answers that have the same kinds and calls are built alike.
LEMMA BuiltAlike ==
  ASSUME NEW a \in Ants, NEW m \in AnswerSet, NEW n \in AnswerSet,
         n.why <=> m.why, n.text <=> m.text, n.calls = m.calls, Building(a, m)
  PROVE  Building(a, n)
<1>1. n.why = m.why /\ n.text = m.text
  BY DEF AnswerSet
<1>2. Content(n) = Content(m)
  BY <1>1, ContentNext
<1> QED
  BY <1>2, Zenon DEF Building

\* A chunk that keeps the order builds what the answer converts to with it; any chunk
\* keeps a call told from no call.
LEMMA AnthropicChunkFits ==
  ASSUME NEW a \in Ants, NEW m \in AnswerSet, NEW n \in AnswerSet, NEW chunk \in Chunk,
         chunk.call <= m.calls,
         n.why <=> m.why \/ chunk.why, n.text <=> m.text \/ chunk.text,
         n.calls = IF chunk.call = m.calls THEN m.calls + 1 ELSE m.calls
  PROVE  LET b == AnthropicChunk(a, chunk) IN
         /\ Telling(a, m) => Telling(b, n)
         /\ /\ Building(a, m)
            /\ chunk.why => ~m.text /\ m.calls = 0
            /\ chunk.text => m.calls = 0 /\ chunk.call = NoCall
            /\ chunk.call # NoCall => m.calls <= chunk.call + 1
            => Building(b, n)
<1> DEFINE thought == IF chunk.why THEN Thinking(a) ELSE a
           called == IF chunk.call = NoCall THEN thought ELSE ToolCall(thought, chunk.call)
           b == IF chunk.text THEN Text(called) ELSE called
           m1 == [why |-> m.why \/ chunk.why, text |-> m.text, calls |-> m.calls, finish |-> m.finish]
           m2 == [why |-> m.why \/ chunk.why, text |-> m.text, calls |-> n.calls, finish |-> m.finish]
           inOrder == /\ Building(a, m)
                      /\ chunk.why => ~m.text /\ m.calls = 0
                      /\ chunk.text => m.calls = 0 /\ chunk.call = NoCall
                      /\ chunk.call # NoCall => m.calls <= chunk.call + 1
<1>1. /\ chunk.why \in BOOLEAN /\ chunk.text \in BOOLEAN /\ chunk.call \in Indexes \cup {NoCall}
      /\ m.why \in BOOLEAN /\ m.text \in BOOLEAN /\ m.calls \in Nat /\ n.calls \in Nat
      /\ chunk.call \in Int /\ (chunk.call # NoCall => chunk.call \in Indexes /\ chunk.call \in Nat)
      /\ ~(NoCall \in Nat)
  <2>1. /\ chunk.why \in BOOLEAN /\ chunk.text \in BOOLEAN /\ chunk.call \in Indexes \cup {NoCall}
    BY DEF Chunk
  <2>2. m.why \in BOOLEAN /\ m.text \in BOOLEAN /\ m.calls \in Nat /\ n.calls \in Nat
    BY DEF AnswerSet
  <2>3. NoCall \in Int /\ ~(NoCall \in Nat)
    BY DEF NoCall
  <2>4. \A i \in Indexes : i \in Nat /\ i \in Int
    BY DEF Indexes
  <2>5. chunk.call # NoCall => chunk.call \in Indexes /\ chunk.call \in Nat
    BY <2>1, <2>4
  <2>6. chunk.call \in Int
    BY <2>1, <2>3, <2>4
  <2> QED
    BY <2>1, <2>2, <2>3, <2>5, <2>6, Zenon
<1>2. /\ m1 \in AnswerSet /\ m1.text = m.text /\ m1.calls = m.calls /\ (m1.why <=> m.why \/ chunk.why)
      /\ m2 \in AnswerSet /\ m2.text = m.text /\ m2.calls = n.calls /\ m2.why = m1.why
  <2>1. m.finish \in {"none", "stop", "length", "tool_calls"} /\ n.calls \in 0 .. MaxToolCalls
        /\ m.calls \in 0 .. MaxToolCalls
    BY DEF AnswerSet
  <2> QED
    BY <1>1, <2>1 DEF AnswerSet
<1> HIDE DEF m1, m2
<1>3. /\ thought \in Ants /\ thought.tool = a.tool
      /\ inOrder => Building(thought, m1)
  <2>1. CASE chunk.why
    <3>1. /\ Thinking(a) \in Ants /\ Thinking(a).tool = a.tool
          /\ Building(a, m) /\ ~m.text /\ m.calls = 0 /\ m1.why /\ ~m1.text /\ m1.calls = 0
             => Building(Thinking(a), m1)
      BY <1>2, ThinkingFits
    <3> QED
      BY <1>2, <2>1, <3>1
  <2>2. CASE ~chunk.why
    BY <1>2, <2>2, BuiltAlike
  <2> QED
    BY <2>1, <2>2
<1> HIDE DEF thought
<1>4. /\ called \in Ants
      /\ called.tool = (IF chunk.call = NoCall THEN a.tool ELSE chunk.call)
      /\ inOrder => Building(called, m2)
  <2>1. CASE chunk.call = NoCall
    <3>1. n.calls = m.calls
      BY <1>1, <2>1
    <3> QED
      BY <1>2, <1>3, <2>1, <3>1, BuiltAlike
  <2>2. CASE chunk.call # NoCall
    <3> DEFINE t == ToolCall(thought, chunk.call)
    <3>1. /\ t \in Ants /\ t.tool = chunk.call
          /\ /\ Building(thought, m1) /\ m2.why = m1.why /\ m2.text = m1.text
             /\ \/ chunk.call = m1.calls /\ m2.calls = m1.calls + 1
                \/ chunk.call = m1.calls - 1 /\ m2.calls = m1.calls
             => Building(t, m2)
      BY <1>1, <1>2, <1>3, <2>2, ToolCallFits
    <3>2. inOrder => \/ chunk.call = m.calls /\ n.calls = m.calls + 1
                     \/ chunk.call = m.calls - 1 /\ n.calls = m.calls
      BY <1>1, <2>2
    <3>3. called = t
      BY <2>2
    <3> QED
      BY <1>2, <1>3, <2>2, <3>1, <3>2, <3>3
  <2> QED
    BY <2>1, <2>2
<1> HIDE DEF called
<1>5. /\ b \in Ants /\ b.tool = called.tool
      /\ inOrder => Building(b, n)
  <2>1. CASE chunk.text
    <3>1. /\ Text(called) \in Ants /\ Text(called).tool = called.tool
          /\ Building(called, m2) /\ m2.calls = 0 /\ n.why = m2.why /\ n.text /\ n.calls = 0
             => Building(Text(called), n)
      BY <1>2, <1>4, TextFits
    <3>2. n.why = m2.why
      BY <1>1, <1>2 DEF AnswerSet
    <3>3. inOrder => n.calls = 0
      BY <1>1, <2>1
    <3> QED
      BY <1>2, <1>4, <2>1, <3>1, <3>2, <3>3
  <2>2. CASE ~chunk.text
    <3>1. (n.why <=> m2.why) /\ (n.text <=> m2.text) /\ n.calls = m2.calls
      BY <1>2, <2>2
    <3> QED
      BY <1>2, <1>4, <2>2, <3>1, BuiltAlike
  <2> QED
    BY <2>1, <2>2
<1>6. b = AnthropicChunk(a, chunk)
  BY DEF AnthropicChunk, called, thought
<1> HIDE DEF b
<1>7. ASSUME Telling(a, m) PROVE Telling(b, n)
  <2>1. a.tool = NoCall <=> m.calls = 0
    BY <1>7 DEF Telling
  <2>2. b.tool = NoCall <=> n.calls = 0
    <3>1. CASE chunk.call = NoCall
      <4>1. n.calls = m.calls
        BY <1>1, <3>1
      <4> QED
        BY <1>4, <1>5, <2>1, <3>1, <4>1
    <3>2. CASE chunk.call # NoCall
      <4>1. n.calls # 0
        BY <1>1, <3>2
      <4> QED
        BY <1>4, <1>5, <3>2, <4>1
    <3> QED
      BY <3>1, <3>2
  <2> QED
    BY <1>5, <2>2 DEF Telling
<1> QED
  BY <1>5, <1>6, <1>7

\* The end of the stream: the last block is closed, and the stop reason says whether there
\* was a call.
LEMMA AnthropicEndFits ==
  ASSUME NEW a \in Ants
  PROVE  LET b == AnthropicEnd(a) IN
         /\ b \in Ants /\ b.client.kinds = a.client.kinds
         /\ b.client.stop = (IF a.tool = NoCall THEN "end_turn" ELSE "tool_use")
         /\ \A m \in AnswerSet : Building(a, m) => b.client.ok
<1> DEFINE s == IF a.kind = "" THEN a ELSE WriteBlockDone(a)
           kind == IF a.tool = NoCall THEN "end_turn" ELSE "tool_use"
           e == StreamEvent("message_delta", 0, kind)
           f == StreamEvent("message_stop", 0, "")
           u == Send(s, e)
           b == Send(u, f)
<1>1. /\ s \in Ants /\ s.tool = a.tool /\ s.client.kinds = a.client.kinds
      /\ \A m \in AnswerSet : Building(a, m) => s.client.ok /\ s.client.open = ""
  <2>1. CASE a.kind = ""
    <3>1. \A m \in AnswerSet : Building(a, m) => a.client.ok /\ a.client.open = ""
      <4> SUFFICES ASSUME NEW m \in AnswerSet, Building(a, m)
                   PROVE  a.client.ok /\ a.client.open = ""
        OBVIOUS
      <4> QED
        BY <2>1, Zenon DEF Building
    <3> QED
      BY <2>1, <3>1
  <2>2. CASE a.kind # ""
    <3> DEFINE w == WriteBlockDone(a)
    <3>1. /\ w \in Ants /\ w.tool = a.tool /\ w.client.kinds = a.client.kinds /\ w.client.open = ""
          /\ w.client.ok <=> a.client.ok /\ a.client.open # "" /\ a.block + 1 = Len(a.client.kinds)
      BY DoneFits
    <3>2. ASSUME NEW m \in AnswerSet, Building(a, m)
          PROVE  a.client.ok /\ a.client.open # "" /\ a.block + 1 = Len(a.client.kinds)
      BY <2>2, <3>2, Zenon DEF Building
    <3>3. s = w
      BY <2>2
    <3> HIDE DEF w, s
    <3> QED
      BY <3>1, <3>2, <3>3
  <2> QED
    BY <2>1, <2>2
<1>2. kind \in {"end_turn", "tool_use"}
  OBVIOUS
<1> HIDE DEF s, kind
<1> DEFINE c == s.client
           d == [c EXCEPT !.ok = @ /\ c.open = "", !.stop = e.kind]
<1>3. /\ c \in Clients /\ c.kinds \in Seq(BlockKinds) /\ c.ok \in BOOLEAN
  BY <1>1, StreamFields
<1>4. e.ev = "message_delta" /\ e.kind = kind /\ f.ev = "message_stop"
  BY DEF StreamEvent
<1>5. Received(c, e) = d
  BY <1>4 DEF Received
<1>6. d \in Clients /\ d.kinds = c.kinds /\ d.stop = kind /\ (d.ok <=> c.ok /\ c.open = "")
  BY <1>2, <1>3, <1>4 DEF Clients
<1>7. u = [s EXCEPT !.client = d]
  BY <1>5 DEF Send
<1> HIDE DEF d, e, f, u, c
<1>8. u \in Ants /\ u.client = d
  BY <1>1, <1>6, <1>7 DEF Ants
<1>9. b = u
  <2>1. Received(u.client, f) = u.client
    BY <1>4 DEF Received
  <2>2. [u EXCEPT !.client = u.client] = u
    BY <1>8 DEF Ants
  <2> QED
    BY <2>1, <2>2 DEF Send
<1>10. b = AnthropicEnd(a)
  BY DEF AnthropicEnd, b, u, e, f, s, kind
<1> HIDE DEF b
<1>11. kind = (IF a.tool = NoCall THEN "end_turn" ELSE "tool_use")
  BY DEF kind
<1> QED
  BY <1>1, <1>6, <1>8, <1>9, <1>10, <1>11 DEF c

-----------------------------------------------------------------------------
(* The Responses stream. *)

OutputItems == {OutputItem(t, n) : t \in {"reasoning", "message", "call"}, n \in Nat}
OutEvents == [ev : {"added", "delta", "done"}, index : Nat, kind : OutputItems]

\* An item was added once, at this index, and has had nothing but deltas since.
Begun(out, kind, index) ==
  \E a \in 1 .. Len(out) :
    /\ out[a].ev = "added" /\ out[a].kind = kind /\ out[a].index = index
    /\ \A k \in 1 .. Len(out) : out[k].kind = kind /\ k # a => a < k /\ out[k].ev = "delta"

Absent(out, kind) == \A k \in 1 .. Len(out) : out[k].kind # kind

Responses == [out : Seq(OutEvents), message : BOOLEAN, why : BOOLEAN, calls : SUBSET Indexes,
              final : Seq(OutputItems)]

\* What has been written of the answer m: its reasoning, then its text, at the index after.
ResponsesFit(r, m, inOrder) ==
  /\ r \in Responses /\ \A k \in 1 .. Len(r.out) : r.out[k].kind \in {Reasoning, MessageItem}
  /\ (r.why <=> m.why) /\ (r.message <=> m.text) /\ r.calls = 0 .. m.calls - 1
  /\ r.why => Begun(r.out, Reasoning, 0)
  /\ ~r.why => Absent(r.out, Reasoning)
  /\ r.message => \E i \in Nat : Begun(r.out, MessageItem, i) /\ (inOrder => i = TextIndex(r))
  /\ ~r.message => Absent(r.out, MessageItem)

\* The fields of an event.
LEMMA EventsAre ==
  ASSUME NEW kind \in OutputItems, NEW index \in Nat, NEW ev \in {"added", "delta", "done"}
  PROVE  LET e == StreamEvent(ev, index, kind) IN
         e \in OutEvents /\ e.ev = ev /\ e.index = index /\ e.kind = kind
BY DEF StreamEvent, OutEvents

\* The items are different.
LEMMA ItemsDiffer ==
  /\ Reasoning \in OutputItems /\ MessageItem \in OutputItems /\ Reasoning # MessageItem
  /\ \A i \in Nat : CallItem(i) \in OutputItems /\ CallItem(i) # Reasoning /\ CallItem(i) # MessageItem
  /\ \A i, j \in Nat : CallItem(i) = CallItem(j) => i = j
<1>1. Reasoning \in OutputItems /\ MessageItem \in OutputItems /\ \A i \in Nat : CallItem(i) \in OutputItems
  BY DEF Reasoning, MessageItem, CallItem, OutputItems
<1>2. Reasoning.type = "reasoning" /\ MessageItem.type = "message"
      /\ \A i \in Nat : CallItem(i).type = "call" /\ CallItem(i).n = i
  BY DEF Reasoning, MessageItem, CallItem, OutputItem
<1>3. Reasoning # MessageItem
  BY <1>2
<1>4. \A i \in Nat : CallItem(i) # Reasoning /\ CallItem(i) # MessageItem
  BY <1>2
<1>5. \A i, j \in Nat : CallItem(i) = CallItem(j) => i = j
  BY <1>2
<1> QED
  BY <1>1, <1>3, <1>4, <1>5

\* One more event: the first of an item, a delta of it, or one of another item.
LEMMA OneEvent ==
  ASSUME NEW out \in Seq(OutEvents), NEW e \in OutEvents, NEW kind, NEW index
  PROVE  LET more == Append(out, e) IN
         /\ more \in Seq(OutEvents) /\ Len(more) = Len(out) + 1
         /\ \A S : e.kind \in S /\ (\A k \in 1 .. Len(out) : out[k].kind \in S)
                     => \A k \in 1 .. Len(more) : more[k].kind \in S
         /\ Absent(out, kind) /\ e.kind = kind /\ e.ev = "added" /\ e.index = index => Begun(more, kind, index)
         /\ Begun(out, kind, index) /\ (e.kind = kind => e.ev = "delta") => Begun(more, kind, index)
         /\ Absent(out, kind) /\ e.kind # kind => Absent(more, kind)
<1> DEFINE more == Append(out, e)
           n == Len(out)
<1>1. /\ more \in Seq(OutEvents) /\ Len(more) = n + 1 /\ n \in Nat /\ more[n + 1] = e
      /\ \A k \in 1 .. n : more[k] = out[k]
  OBVIOUS
<1>2. (\A k \in 1 .. n + 1 : k \in 1 .. n \/ k = n + 1) /\ n + 1 \in 1 .. n + 1
      /\ \A k \in 1 .. n : k \in 1 .. n + 1 /\ k < n + 1 /\ k # n + 1
  BY <1>1
<1> HIDE DEF more, n
<1>3. ASSUME Absent(out, kind), e.kind = kind, e.ev = "added", e.index = index
      PROVE  Begun(more, kind, index)
  <2>1. \A k \in 1 .. n + 1 : more[k].kind = kind => k = n + 1
    BY <1>1, <1>2, <1>3 DEF Absent, n
  <2> QED
    BY <1>1, <1>2, <1>3, <2>1 DEF Begun
<1>4. ASSUME Begun(out, kind, index), e.kind = kind => e.ev = "delta"
      PROVE  Begun(more, kind, index)
  <2>1. PICK a \in 1 .. n :
          /\ out[a].ev = "added" /\ out[a].kind = kind /\ out[a].index = index
          /\ \A k \in 1 .. n : out[k].kind = kind /\ k # a => a < k /\ out[k].ev = "delta"
    BY <1>4 DEF Begun, n
  <2>2. a \in 1 .. n + 1 /\ more[a].ev = "added" /\ more[a].kind = kind /\ more[a].index = index
    BY <1>1, <1>2, <2>1
  <2>3. \A k \in 1 .. n + 1 : more[k].kind = kind /\ k # a => a < k /\ more[k].ev = "delta"
    BY <1>1, <1>2, <1>4, <2>1
  <2> QED
    BY <1>1, <2>2, <2>3 DEF Begun
<1>5. ASSUME Absent(out, kind), e.kind # kind PROVE Absent(more, kind)
  BY <1>1, <1>2, <1>5 DEF Absent, n
<1>6. ASSUME NEW S, e.kind \in S, \A k \in 1 .. n : out[k].kind \in S
      PROVE  \A k \in 1 .. n + 1 : more[k].kind \in S
  BY <1>1, <1>2, <1>6
<1> QED
  BY <1>1, <1>3, <1>4, <1>5, <1>6 DEF more, n

\* An event of another item leaves an item absent.
LEMMA StillAbsent ==
  ASSUME NEW out \in Seq(OutEvents), NEW e \in OutEvents, NEW kind, Absent(out, kind), e.kind # kind
  PROVE  Absent(Append(out, e), kind)
<1>1. \A index : Absent(out, kind) /\ e.kind # kind => Absent(Append(out, e), kind)
  BY OneEvent
<1> QED
  BY <1>1

\* Emit adds an event and changes nothing else.
LEMMA EmitFields ==
  ASSUME NEW r \in Responses, NEW e \in OutEvents
  PROVE  LET f == Emit(r, e) IN
         /\ f \in Responses /\ f.out = Append(r.out, e)
         /\ f.message = r.message /\ f.why = r.why /\ f.calls = r.calls /\ f.final = r.final
<1> DEFINE out == Append(r.out, e)
           f == Emit(r, e)
<1>1. f = [r EXCEPT !.out = out]
  BY DEF Emit
<1>2. out \in Seq(OutEvents)
  <2>1. r.out \in Seq(OutEvents)
    BY DEF Responses
  <2> QED
    BY <2>1
<1> HIDE DEF out, f
<1>3. /\ f \in Responses /\ f.out = out
      /\ f.message = r.message /\ f.why = r.why /\ f.calls = r.calls /\ f.final = r.final
  BY <1>1, <1>2 DEF Responses
<1> QED
  BY <1>3 DEF f, out

\* A delta of reasoning.
LEMMA ResponsesReasoningFits ==
  ASSUME NEW r, NEW m \in AnswerSet, NEW n \in AnswerSet, NEW before \in BOOLEAN, NEW after \in BOOLEAN,
         ResponsesFit(r, m, before), n.why, n.text <=> m.text, n.calls = m.calls,
         after => before /\ ~m.text
  PROVE  ResponsesFit(ResponsesReasoning(r), n, after)
<1> DEFINE s == [r EXCEPT !.why = TRUE]
           e == StreamEvent("added", 0, Reasoning)
           d == StreamEvent("delta", 0, Reasoning)
           a == IF r.why THEN r ELSE Emit(s, e)
           f == Emit(a, d)
<1>1. /\ r \in Responses /\ (\A k \in 1 .. Len(r.out) : r.out[k].kind \in {Reasoning, MessageItem})
      /\ (r.why <=> m.why) /\ (r.message <=> m.text) /\ r.calls = 0 .. m.calls - 1
      /\ (r.why => Begun(r.out, Reasoning, 0)) /\ (~r.why => Absent(r.out, Reasoning))
      /\ (r.message => \E i \in Nat : Begun(r.out, MessageItem, i) /\ (before => i = TextIndex(r)))
      /\ (~r.message => Absent(r.out, MessageItem))
  BY DEF ResponsesFit
<1>2. /\ e \in OutEvents /\ e.ev = "added" /\ e.kind = Reasoning /\ e.index = 0
      /\ d \in OutEvents /\ d.ev = "delta" /\ d.kind = Reasoning
      /\ Reasoning # MessageItem /\ Reasoning \in {Reasoning, MessageItem}
  BY EventsAre, ItemsDiffer
<1> HIDE DEF e, d
<1>3. /\ s \in Responses /\ s.out = r.out /\ s.message = r.message /\ s.why /\ s.calls = r.calls
  BY <1>1 DEF Responses
<1> HIDE DEF s
<1> DEFINE g == Emit(s, e)
<1>4. /\ g \in Responses /\ g.out = Append(r.out, e) /\ g.message = r.message /\ g.why /\ g.calls = r.calls
  BY <1>2, <1>3, EmitFields
<1>5. r.out \in Seq(OutEvents)
  BY <1>1 DEF Responses
<1>6. /\ a \in Responses /\ a.out \in Seq(OutEvents) /\ a.message = r.message /\ a.why /\ a.calls = r.calls
      /\ \A k \in 1 .. Len(a.out) : a.out[k].kind \in {Reasoning, MessageItem}
      /\ Begun(a.out, Reasoning, 0)
      /\ \A i \in Nat : Begun(r.out, MessageItem, i) => Begun(a.out, MessageItem, i)
      /\ Absent(r.out, MessageItem) => Absent(a.out, MessageItem)
      /\ r.why => a = r
  <2>1. CASE r.why
    BY <1>1, <1>5, <2>1
  <2>2. CASE ~r.why
    <3>1. /\ g.out \in Seq(OutEvents)
          /\ \A k \in 1 .. Len(g.out) : g.out[k].kind \in {Reasoning, MessageItem}
      BY <1>1, <1>2, <1>4, <1>5, OneEvent
    <3>2. Begun(g.out, Reasoning, 0)
      BY <1>1, <1>2, <1>4, <1>5, <2>2, OneEvent
    <3>3. \A i \in Nat : Begun(r.out, MessageItem, i) => Begun(g.out, MessageItem, i)
      BY <1>2, <1>4, <1>5, OneEvent
    <3>4. ASSUME Absent(r.out, MessageItem) PROVE Absent(g.out, MessageItem)
      <4>1. e \in OutEvents /\ e.kind # MessageItem /\ g.out = Append(r.out, e)
        BY <1>2, <1>4
      <4> HIDE DEF g
      <4> QED
        BY <1>5, <3>4, <4>1, StillAbsent
    <3>5. a = g
      BY <2>2
    <3> HIDE DEF a, g
    <3> QED
      BY <1>4, <2>2, <3>1, <3>2, <3>3, <3>4, <3>5
  <2> QED
    BY <2>1, <2>2
<1> HIDE DEF a
<1>7. /\ f \in Responses /\ f.out = Append(a.out, d) /\ f.message = a.message /\ f.why = a.why
      /\ f.calls = a.calls
  BY <1>2, <1>6, EmitFields
<1>8. f = ResponsesReasoning(r)
  BY DEF ResponsesReasoning, f, a, s, e, d
<1> HIDE DEF f
<1>9. \A k \in 1 .. Len(f.out) : f.out[k].kind \in {Reasoning, MessageItem}
  BY <1>2, <1>6, <1>7, OneEvent
<1>10. Begun(f.out, Reasoning, 0)
  BY <1>2, <1>6, <1>7, OneEvent
<1>11. \A i \in Nat : Begun(r.out, MessageItem, i) => Begun(f.out, MessageItem, i)
  BY <1>2, <1>6, <1>7, OneEvent
<1>12. Absent(r.out, MessageItem) => Absent(f.out, MessageItem)
  BY <1>2, <1>6, <1>7, OneEvent
<1>13. (f.why <=> n.why) /\ (f.message <=> n.text) /\ f.calls = 0 .. n.calls - 1 /\ f.why
       /\ (f.message <=> r.message)
  BY <1>1, <1>6, <1>7
<1>14. f.message => \E i \in Nat : Begun(f.out, MessageItem, i) /\ (after => i = TextIndex(f))
  BY <1>1, <1>11, <1>13
<1>15. ~f.message => Absent(f.out, MessageItem)
  BY <1>1, <1>12, <1>13
<1> QED
  BY <1>7, <1>8, <1>9, <1>10, <1>13, <1>14, <1>15 DEF ResponsesFit

\* A delta of text.
LEMMA ResponsesTextFits ==
  ASSUME NEW r, NEW m \in AnswerSet, NEW n \in AnswerSet, NEW before \in BOOLEAN, NEW after \in BOOLEAN,
         ResponsesFit(r, m, before), n.text, n.why <=> m.why, n.calls = m.calls, after => before
  PROVE  ResponsesFit(ResponsesText(r), n, after)
<1> DEFINE at == TextIndex(r)
           s == [r EXCEPT !.message = TRUE]
           e == StreamEvent("added", at, MessageItem)
           d == StreamEvent("delta", at, MessageItem)
           a == IF r.message THEN r ELSE Emit(s, e)
           f == Emit(a, d)
<1>1. /\ r \in Responses /\ (\A k \in 1 .. Len(r.out) : r.out[k].kind \in {Reasoning, MessageItem})
      /\ (r.why <=> m.why) /\ (r.message <=> m.text) /\ r.calls = 0 .. m.calls - 1
      /\ (r.why => Begun(r.out, Reasoning, 0)) /\ (~r.why => Absent(r.out, Reasoning))
      /\ (r.message => \E i \in Nat : Begun(r.out, MessageItem, i) /\ (before => i = at))
      /\ (~r.message => Absent(r.out, MessageItem))
  BY DEF ResponsesFit
<1>a. at \in Nat
  BY DEF TextIndex
<1>b. \A x : x.why = r.why => TextIndex(x) = at
  BY DEF TextIndex
<1> HIDE DEF at
<1>2. /\ e \in OutEvents /\ e.ev = "added" /\ e.kind = MessageItem /\ e.index = at
      /\ d \in OutEvents /\ d.ev = "delta" /\ d.kind = MessageItem
      /\ Reasoning # MessageItem /\ MessageItem \in {Reasoning, MessageItem}
  BY <1>a, EventsAre, ItemsDiffer
<1> HIDE DEF e, d
<1>3. /\ s \in Responses /\ s.out = r.out /\ s.message /\ s.why = r.why /\ s.calls = r.calls
  BY <1>1 DEF Responses
<1> HIDE DEF s
<1> DEFINE g == Emit(s, e)
<1>4. /\ g \in Responses /\ g.out = Append(r.out, e) /\ g.message /\ g.why = r.why /\ g.calls = r.calls
  BY <1>2, <1>3, EmitFields
<1>5. r.out \in Seq(OutEvents)
  BY <1>1 DEF Responses
<1>6. /\ a \in Responses /\ a.out \in Seq(OutEvents) /\ a.message /\ a.why = r.why /\ a.calls = r.calls
      /\ \A k \in 1 .. Len(a.out) : a.out[k].kind \in {Reasoning, MessageItem}
      /\ \E i \in Nat : Begun(a.out, MessageItem, i) /\ (after => i = at)
      /\ Begun(r.out, Reasoning, 0) => Begun(a.out, Reasoning, 0)
      /\ Absent(r.out, Reasoning) => Absent(a.out, Reasoning)
  <2>1. CASE r.message
    BY <1>1, <1>5, <2>1
  <2>2. CASE ~r.message
    <3>1. /\ g.out \in Seq(OutEvents)
          /\ \A k \in 1 .. Len(g.out) : g.out[k].kind \in {Reasoning, MessageItem}
      BY <1>1, <1>2, <1>4, <1>5, OneEvent
    <3>2. Begun(g.out, MessageItem, at)
      BY <1>1, <1>2, <1>4, <1>5, <2>2, OneEvent
    <3>3. Begun(r.out, Reasoning, 0) => Begun(g.out, Reasoning, 0)
      BY <1>2, <1>4, <1>5, OneEvent
    <3>4. ASSUME Absent(r.out, Reasoning) PROVE Absent(g.out, Reasoning)
      <4>1. e \in OutEvents /\ e.kind # Reasoning /\ g.out = Append(r.out, e)
        BY <1>2, <1>4
      <4> HIDE DEF g
      <4> QED
        BY <1>5, <3>4, <4>1, StillAbsent
    <3>5. a = g
      BY <2>2
    <3> HIDE DEF a, g
    <3> QED
      BY <1>a, <1>4, <2>2, <3>1, <3>2, <3>3, <3>4, <3>5
  <2> QED
    BY <2>1, <2>2
<1> HIDE DEF a
<1>7. /\ f \in Responses /\ f.out = Append(a.out, d) /\ f.message = a.message /\ f.why = a.why
      /\ f.calls = a.calls
  BY <1>2, <1>6, EmitFields
<1>8. f = ResponsesText(r)
  BY DEF ResponsesText, f, a, s, e, d, at
<1> HIDE DEF f
<1>9. \A k \in 1 .. Len(f.out) : f.out[k].kind \in {Reasoning, MessageItem}
  BY <1>2, <1>6, <1>7, OneEvent
<1>10. Begun(r.out, Reasoning, 0) => Begun(f.out, Reasoning, 0)
  BY <1>2, <1>6, <1>7, OneEvent
<1>11. \A i \in Nat : Begun(a.out, MessageItem, i) => Begun(f.out, MessageItem, i)
  BY <1>2, <1>6, <1>7, OneEvent
<1>12. Absent(r.out, Reasoning) => Absent(f.out, Reasoning)
  BY <1>2, <1>6, <1>7, OneEvent
<1>13. f.why = r.why /\ f.message /\ f.calls = 0 .. n.calls - 1
  BY <1>1, <1>6, <1>7
<1>14. \E i \in Nat : Begun(f.out, MessageItem, i) /\ (after => i = TextIndex(f))
  BY <1>6, <1>11, <1>13, <1>b
<1>15. (f.why => Begun(f.out, Reasoning, 0)) /\ (~f.why => Absent(f.out, Reasoning)) /\ (f.why <=> n.why)
  BY <1>1, <1>10, <1>12, <1>13
<1> QED
  BY <1>7, <1>8, <1>9, <1>13, <1>14, <1>15 DEF ResponsesFit

\* A chunk: reasoning, a call, text.
LEMMA ResponsesChunkFits ==
  ASSUME NEW r, NEW m \in AnswerSet, NEW n \in AnswerSet, NEW chunk \in Chunk,
         NEW before \in BOOLEAN, NEW after \in BOOLEAN, ResponsesFit(r, m, before), chunk.call <= m.calls,
         n.why <=> m.why \/ chunk.why, n.text <=> m.text \/ chunk.text,
         n.calls = IF chunk.call = m.calls THEN m.calls + 1 ELSE m.calls,
         after => before /\ (chunk.why => ~m.text)
  PROVE  ResponsesFit(ResponsesChunk(r, chunk), n, after)
<1> DEFINE t == IF chunk.why THEN ResponsesReasoning(r) ELSE r
           c == IF chunk.call = NoCall THEN t ELSE [t EXCEPT !.calls = @ \cup {chunk.call}]
           f == IF chunk.text THEN ResponsesText(c) ELSE c
           m1 == [why |-> m.why \/ chunk.why, text |-> m.text, calls |-> m.calls, finish |-> m.finish]
           m2 == [why |-> m.why \/ chunk.why, text |-> m.text, calls |-> n.calls, finish |-> m.finish]
<1>1. /\ chunk.why \in BOOLEAN /\ chunk.text \in BOOLEAN /\ m.why \in BOOLEAN /\ m.text \in BOOLEAN
      /\ m.finish \in {"none", "stop", "length", "tool_calls"}
      /\ n.calls \in 0 .. MaxToolCalls /\ m.calls \in 0 .. MaxToolCalls
      /\ chunk.call \in Indexes \cup {NoCall}
  BY DEF Chunk, AnswerSet
<1>2. /\ m1 \in AnswerSet /\ m1.text = m.text /\ m1.calls = m.calls /\ (m1.why <=> m.why \/ chunk.why)
      /\ m2 \in AnswerSet /\ m2.text = m.text /\ m2.calls = n.calls /\ m2.why = m1.why
  BY <1>1 DEF AnswerSet
<1> HIDE DEF m1, m2
<1>3. ResponsesFit(t, m1, after)
  <2>1. CASE chunk.why
    <3>1. ResponsesFit(ResponsesReasoning(r), m1, after)
      BY <1>2, <2>1, ResponsesReasoningFits
    <3> QED
      BY <2>1, <3>1
  <2>2. CASE ~chunk.why
    <3>1. t = r /\ (m1.why <=> m.why)
      BY <1>2, <2>2
    <3> QED
      BY <1>2, <3>1 DEF ResponsesFit
  <2> QED
    BY <2>1, <2>2
<1> HIDE DEF t
<1>4. ResponsesFit(c, m2, after)
  <2>1. CASE chunk.call = NoCall
    <3>1. n.calls = m.calls
      BY <1>1, <2>1 DEF NoCall
    <3> QED
      BY <1>2, <1>3, <2>1, <3>1 DEF ResponsesFit
  <2>2. CASE chunk.call # NoCall
    <3> DEFINE taken == t.calls \cup {chunk.call}
    <3>1. t \in Responses /\ t.calls = 0 .. m.calls - 1
      BY <1>2, <1>3 DEF ResponsesFit
    <3>2. chunk.call \in Indexes /\ chunk.call \in Nat
      BY <1>1, <2>2 DEF Indexes
    <3>3. taken = 0 .. n.calls - 1
      BY <1>1, <3>1, <3>2
    <3>4. taken \in SUBSET Indexes
      BY <3>1, <3>2 DEF Responses
    <3>5. c = [t EXCEPT !.calls = taken]
      BY <2>2
    <3> HIDE DEF taken, c
    <3>6. /\ c \in Responses /\ c.calls = taken /\ c.out = t.out /\ c.why = t.why /\ c.message = t.message
      BY <3>1, <3>4, <3>5 DEF Responses
    <3>7. TextIndex(c) = TextIndex(t)
      BY <3>6 DEF TextIndex
    <3> QED
      BY <1>2, <1>3, <3>3, <3>6, <3>7 DEF ResponsesFit
  <2> QED
    BY <2>1, <2>2
<1> HIDE DEF c
<1>5. ResponsesFit(f, n, after)
  <2>1. CASE chunk.text
    <3>1. ResponsesFit(ResponsesText(c), n, after)
      BY <1>2, <1>4, <2>1, ResponsesTextFits
    <3> QED
      BY <2>1, <3>1
  <2>2. CASE ~chunk.text
    <3>1. f = c /\ (n.text <=> m2.text) /\ (n.why <=> m2.why) /\ n.calls = m2.calls
      BY <1>2, <2>2
    <3> QED
      BY <1>4, <3>1 DEF ResponsesFit
  <2> QED
    BY <2>1, <2>2
<1> QED
  BY <1>5 DEF ResponsesChunk, f, c, t

\* Three events for each call.
LEMMA Thirds ==
  ASSUME NEW c \in Nat
  PROVE  /\ \A k \in 1 .. 3 * c : (k - 1) \div 3 \in 0 .. c - 1 /\ k - 3 * ((k - 1) \div 3) \in 1 .. 3
         /\ \A i \in 0 .. c - 1, j \in 1 .. 3 : 3 * i + j \in 1 .. 3 * c /\ (3 * i + j - 1) \div 3 = i
<1>1. ASSUME NEW k \in 1 .. 3 * c
      PROVE  (k - 1) \div 3 \in 0 .. c - 1 /\ k - 3 * ((k - 1) \div 3) \in 1 .. 3
  BY <1>1
<1>2. ASSUME NEW i \in 0 .. c - 1, NEW j \in 1 .. 3
      PROVE  3 * i + j \in 1 .. 3 * c /\ (3 * i + j - 1) \div 3 = i
  BY <1>2
<1> QED
  BY <1>1, <1>2

\* All the calls of an answer are written.
LEMMA AllCalled ==
  ASSUME NEW r, NEW c \in Nat, r.calls = 0 .. c - 1
  PROVE  Called(r) = 0 .. c - 1 /\ Cardinality(Called(r)) = c
<1>1. Called(r) = 0 .. c - 1
  BY DEF Called
<1>2. 0 \in Int /\ c - 1 \in Int
  OBVIOUS
<1>3. Cardinality(0 .. c - 1) = IF 0 > c - 1 THEN 0 ELSE c - 1 - 0 + 1
  BY <1>2, FS_Interval
<1> QED
  BY <1>1, <1>3

\* The events of the calls, three for each.
LEMMA CallEventsAre ==
  ASSUME NEW r, NEW c \in Nat, r.calls = 0 .. c - 1
  PROVE  LET s == CallEvents(r) IN
         /\ s \in Seq(OutEvents) /\ Len(s) = 3 * c
         /\ \A i \in 0 .. c - 1 :
              /\ s[3 * i + 1] = StreamEvent("added", TextIndex(r) + 1 + i, CallItem(i))
              /\ s[3 * i + 2] = StreamEvent("delta", TextIndex(r) + 1 + i, CallItem(i))
              /\ s[3 * i + 3] = StreamEvent("done", TextIndex(r) + 1 + i, CallItem(i))
<1> DEFINE x == TextIndex(r)
           evs == <<"added", "delta", "done">>
           at(k) == (k - 1) \div 3
           n == 3 * c
           s == [k \in 1 .. n |-> StreamEvent(evs[k - 3 * at(k)], x + 1 + at(k), CallItem(at(k)))]
<1>1. CallEvents(r) = s
  BY AllCalled DEF CallEvents
<1>2. x \in Nat /\ n \in Nat
  BY DEF TextIndex
<1>3. /\ \A k \in 1 .. n : at(k) \in 0 .. c - 1 /\ k - 3 * at(k) \in 1 .. 3
      /\ \A i \in 0 .. c - 1, j \in 1 .. 3 : 3 * i + j \in 1 .. n /\ at(3 * i + j) = i
  BY Thirds
<1>4. /\ \A j \in 1 .. 3 : evs[j] \in {"added", "delta", "done"}
      /\ evs[1] = "added" /\ evs[2] = "delta" /\ evs[3] = "done"
  OBVIOUS
<1> HIDE DEF at, evs, n, x
<1>5. ASSUME NEW k \in 1 .. n
      PROVE  StreamEvent(evs[k - 3 * at(k)], x + 1 + at(k), CallItem(at(k))) \in OutEvents
  <2>1. at(k) \in Nat /\ at(k) \in 0 .. c - 1 /\ k - 3 * at(k) \in 1 .. 3
    BY <1>3
  <2>2. CallItem(at(k)) \in OutputItems
    BY <2>1, ItemsDiffer
  <2>3. x + 1 + at(k) \in Nat
    BY <1>2, <2>1
  <2>4. evs[k - 3 * at(k)] \in {"added", "delta", "done"}
    BY <1>4, <2>1
  <2> QED
    BY <2>2, <2>3, <2>4, EventsAre
<1>6. s \in Seq(OutEvents) /\ Len(s) = n
  BY <1>2, <1>5
<1>7. ASSUME NEW i \in 0 .. c - 1, NEW j \in 1 .. 3
      PROVE  s[3 * i + j] = StreamEvent(evs[j], x + 1 + i, CallItem(i))
  <2> DEFINE k == 3 * i + j
  <2>1. k \in 1 .. n /\ at(k) = i
    BY <1>3
  <2>2. k - 3 * i = j
    OBVIOUS
  <2> HIDE DEF k
  <2>3. s[k] = StreamEvent(evs[k - 3 * at(k)], x + 1 + at(k), CallItem(at(k)))
    BY <2>1
  <2> HIDE DEF s
  <2> QED
    BY <2>1, <2>2, <2>3 DEF k
<1> HIDE DEF s
<1>8. ASSUME NEW i \in 0 .. c - 1
      PROVE  /\ s[3 * i + 1] = StreamEvent("added", x + 1 + i, CallItem(i))
             /\ s[3 * i + 2] = StreamEvent("delta", x + 1 + i, CallItem(i))
             /\ s[3 * i + 3] = StreamEvent("done", x + 1 + i, CallItem(i))
  BY <1>4, <1>7
<1> QED
  BY <1>1, <1>6, <1>8 DEF n, x

\* What the end of the stream adds to it.
LEMMA EndEvents ==
  ASSUME NEW r \in Responses, NEW c \in Nat, r.calls = 0 .. c - 1
  PROVE  LET f == ResponsesEnd(r)
             o == Len(r.out)
             w == IF r.why THEN 1 ELSE 0
             t == IF r.message THEN 1 ELSE 0 IN
         /\ f.final = ItemsOf(r.why, r.message, c)
         /\ o \in Nat /\ Len(f.out) = o + w + t + 3 * c
         /\ \A k \in 1 .. o : f.out[k] = r.out[k]
         /\ r.why => f.out[o + 1] = StreamEvent("done", 0, Reasoning)
         /\ r.message => f.out[o + w + 1] = StreamEvent("done", w, MessageItem)
         /\ \A i \in 0 .. c - 1 :
              /\ f.out[o + w + t + 3 * i + 1] = StreamEvent("added", w + 1 + i, CallItem(i))
              /\ f.out[o + w + t + 3 * i + 2] = StreamEvent("delta", w + 1 + i, CallItem(i))
              /\ f.out[o + w + t + 3 * i + 3] = StreamEvent("done", w + 1 + i, CallItem(i))
<1> DEFINE out == r.out
           o == Len(out)
           w == IF r.why THEN 1 ELSE 0
           t == IF r.message THEN 1 ELSE 0
           x == TextIndex(r)
           a == IF r.why THEN <<StreamEvent("done", 0, Reasoning)>> ELSE << >>
           b == IF r.message THEN <<StreamEvent("done", x, MessageItem)>> ELSE << >>
           told == CallEvents(r)
           f == ResponsesEnd(r)
<1>1. /\ f.out = (out \o (a \o b)) \o told
      /\ f.final = ItemsOf(r.why, r.message, Cardinality(Called(r)))
  <2> DEFINE all == (out \o (a \o b)) \o told
             last == ItemsOf(r.why, r.message, Cardinality(Called(r)))
  <2>1. f = [r EXCEPT !.out = all, !.final = last]
    <3> DEFINE ab == a \o b
    <3>1. f = [r EXCEPT !.out = @ \o ab \o told, !.final = last]
      BY DEF ResponsesEnd
    <3> HIDE DEF ab, told, last, f
    <3>2. f = [r EXCEPT !.out = (r.out \o ab) \o told, !.final = last]
      BY <3>1
    <3> QED
      BY <3>2 DEF ab, told, last, f
  <2> HIDE DEF all, last, f
  <2>2. f.out = all /\ f.final = last
    BY <2>1 DEF Responses
  <2> QED
    BY <2>2 DEF all, last
<1>2. x = w /\ w \in {0, 1} /\ t \in {0, 1} /\ (r.why <=> w = 1) /\ (r.message <=> t = 1)
      /\ x \in Nat
  BY DEF TextIndex
<1>3. r.out \in Seq(OutEvents)
  BY DEF Responses
<1>4. StreamEvent("done", 0, Reasoning) \in OutEvents /\ StreamEvent("done", x, MessageItem) \in OutEvents
  BY <1>2, EventsAre, ItemsDiffer
<1> HIDE DEF x, w, t
<1>5. a \in Seq(OutEvents) /\ Len(a) = w /\ (r.why => a[1] = StreamEvent("done", 0, Reasoning))
  <2>1. CASE r.why
    BY <1>2, <1>4, <2>1
  <2>2. CASE ~r.why
    BY <1>2, <2>2
  <2> QED
    BY <2>1, <2>2
<1>6. b \in Seq(OutEvents) /\ Len(b) = t /\ (r.message => b[1] = StreamEvent("done", w, MessageItem))
  <2>1. CASE r.message
    BY <1>2, <1>4, <2>1
  <2>2. CASE ~r.message
    BY <1>2, <2>2
  <2> QED
    BY <2>1, <2>2
<1>7. /\ told \in Seq(OutEvents) /\ Len(told) = 3 * c
      /\ \A i \in 0 .. c - 1 :
           /\ told[3 * i + 1] = StreamEvent("added", w + 1 + i, CallItem(i))
           /\ told[3 * i + 2] = StreamEvent("delta", w + 1 + i, CallItem(i))
           /\ told[3 * i + 3] = StreamEvent("done", w + 1 + i, CallItem(i))
  <2>1. /\ told \in Seq(OutEvents) /\ Len(told) = 3 * c
        /\ \A i \in 0 .. c - 1 :
             /\ told[3 * i + 1] = StreamEvent("added", TextIndex(r) + 1 + i, CallItem(i))
             /\ told[3 * i + 2] = StreamEvent("delta", TextIndex(r) + 1 + i, CallItem(i))
             /\ told[3 * i + 3] = StreamEvent("done", TextIndex(r) + 1 + i, CallItem(i))
    BY CallEventsAre
  <2>2. TextIndex(r) = w
    BY <1>2 DEF x
  <2> HIDE DEF told
  <2> QED
    BY <2>1, <2>2
<1> HIDE DEF a, b, told, out, o
<1>8. o \in Nat /\ out \in Seq(OutEvents) /\ o = Len(out)
  <2>1. out \in Seq(OutEvents)
    BY <1>3 DEF out
  <2> QED
    BY <2>1 DEF o
<1> DEFINE ab == a \o b
<1>9. /\ ab \in Seq(OutEvents) /\ Len(ab) = w + t
      /\ \A i \in 1 .. w : ab[i] = a[i]
      /\ \A i \in 1 .. t : ab[w + i] = b[i]
  <2>1. a \in Seq(OutEvents) /\ b \in Seq(OutEvents)
    BY <1>5, <1>6
  <2>2. /\ ab \in Seq(OutEvents) /\ Len(ab) = Len(a) + Len(b)
        /\ \A i \in 1 .. Len(a) : ab[i] = a[i]
        /\ \A i \in 1 .. Len(b) : ab[Len(a) + i] = b[i]
    BY ONLY <2>1, ConcatFacts
  <2> QED
    BY <1>5, <1>6, <2>2
<1> HIDE DEF ab
<1> DEFINE p == out \o ab
<1>10. /\ p \in Seq(OutEvents) /\ Len(p) = o + (w + t)
       /\ \A i \in 1 .. o : p[i] = out[i]
       /\ \A i \in 1 .. w + t : p[o + i] = ab[i]
  <2>1. out \in Seq(OutEvents) /\ ab \in Seq(OutEvents)
    BY <1>8, <1>9
  <2>2. /\ p \in Seq(OutEvents) /\ Len(p) = Len(out) + Len(ab)
        /\ \A i \in 1 .. Len(out) : p[i] = out[i]
        /\ \A i \in 1 .. Len(ab) : p[Len(out) + i] = ab[i]
    BY ONLY <2>1, ConcatFacts
  <2> QED
    BY <1>8, <1>9, <2>2
<1> HIDE DEF p
<1> DEFINE all == p \o told
<1>11. /\ all \in Seq(OutEvents) /\ Len(all) = o + (w + t) + 3 * c
       /\ \A i \in 1 .. o + (w + t) : all[i] = p[i]
       /\ \A i \in 1 .. 3 * c : all[o + (w + t) + i] = told[i]
  <2>1. p \in Seq(OutEvents) /\ told \in Seq(OutEvents)
    BY <1>7, <1>10
  <2>2. /\ all \in Seq(OutEvents) /\ Len(all) = Len(p) + Len(told)
        /\ \A i \in 1 .. Len(p) : all[i] = p[i]
        /\ \A i \in 1 .. Len(told) : all[Len(p) + i] = told[i]
    BY ONLY <2>1, ConcatFacts
  <2> QED
    BY <1>7, <1>10, <2>2
<1> HIDE DEF all
<1>12. \A k \in 1 .. o : all[k] = out[k]
  BY <1>2, <1>8, <1>10, <1>11
<1>13. ASSUME r.why PROVE all[o + 1] = StreamEvent("done", 0, Reasoning)
  <2>1. 1 \in 1 .. w /\ 1 \in 1 .. w + t /\ o + 1 \in 1 .. o + (w + t)
    BY <1>2, <1>8, <1>13
  <2> QED
    BY <1>5, <1>9, <1>10, <1>11, <1>13, <2>1
<1>14. ASSUME r.message PROVE all[o + w + 1] = StreamEvent("done", w, MessageItem)
  <2>1. 1 \in 1 .. t /\ w + 1 \in 1 .. w + t /\ o + (w + 1) \in 1 .. o + (w + t) /\ o + (w + 1) = o + w + 1
    BY <1>2, <1>8, <1>14
  <2> QED
    BY <1>6, <1>9, <1>10, <1>11, <1>14, <2>1
<1>15. ASSUME NEW i \in 0 .. c - 1, NEW j \in 1 .. 3
       PROVE  all[o + w + t + 3 * i + j] = told[3 * i + j]
  <2>1. 3 * i + j \in 1 .. 3 * c
    BY Thirds
  <2>2. o + w + t + 3 * i + j = o + (w + t) + (3 * i + j)
    BY <1>2, <1>8
  <2> QED
    BY <1>11, <2>1, <2>2
<1>16. ASSUME NEW i \in 0 .. c - 1
       PROVE  /\ all[o + w + t + 3 * i + 1] = StreamEvent("added", w + 1 + i, CallItem(i))
              /\ all[o + w + t + 3 * i + 2] = StreamEvent("delta", w + 1 + i, CallItem(i))
              /\ all[o + w + t + 3 * i + 3] = StreamEvent("done", w + 1 + i, CallItem(i))
  BY <1>7, <1>15
<1>17. f.out = all
  BY <1>1 DEF all, p, ab, a, b, told, out
<1>18. f.final = ItemsOf(r.why, r.message, c)
  BY <1>1, AllCalled
<1>19. Len(all) = o + w + t + 3 * c
  BY <1>2, <1>8, <1>11
<1> HIDE DEF f
<1> QED
  BY <1>8, <1>12, <1>13, <1>14, <1>16, <1>17, <1>18, <1>19 DEF f, o, w, t, out

\* The items of an answer.
LEMMA ItemsOfAre ==
  ASSUME NEW why \in BOOLEAN, NEW text \in BOOLEAN, NEW c \in Nat
  PROVE  LET w == IF why THEN 1 ELSE 0
             t == IF text THEN 1 ELSE 0
             s == ItemsOf(why, text, c) IN
         /\ s \in Seq(OutputItems) /\ Len(s) = w + t + c
         /\ why => s[1] = Reasoning
         /\ text => s[w + 1] = MessageItem
         /\ \A i \in 1 .. c : s[w + t + i] = CallItem(i - 1)
<1> DEFINE a == IF why THEN <<Reasoning>> ELSE << >>
           b == IF text THEN <<MessageItem>> ELSE << >>
           d == [i \in 1 .. c |-> CallItem(i - 1)]
           w == IF why THEN 1 ELSE 0
           t == IF text THEN 1 ELSE 0
<1>1. ItemsOf(why, text, c) = (a \o b) \o d
  BY DEF ItemsOf
<1>0. Reasoning \in OutputItems /\ MessageItem \in OutputItems
  BY ItemsDiffer
<1>2. a \in Seq(OutputItems) /\ Len(a) = w /\ (why => a[1] = Reasoning)
  <2>1. CASE why
    BY <1>0, <2>1
  <2>2. CASE ~why
    BY <2>2
  <2> QED
    BY <2>1, <2>2
<1>3. b \in Seq(OutputItems) /\ Len(b) = t /\ (text => b[1] = MessageItem)
  <2>1. CASE text
    BY <1>0, <2>1
  <2>2. CASE ~text
    BY <2>2
  <2> QED
    BY <2>1, <2>2
<1>4. d \in Seq(OutputItems) /\ Len(d) = c /\ \A i \in 1 .. c : d[i] = CallItem(i - 1)
  <2>1. \A i \in 1 .. c : CallItem(i - 1) \in OutputItems
    <3> SUFFICES ASSUME NEW i \in 1 .. c PROVE CallItem(i - 1) \in OutputItems
      OBVIOUS
    <3>1. i - 1 \in Nat
      OBVIOUS
    <3> QED
      BY <3>1, ItemsDiffer
  <2> QED
    BY <2>1
<1>5. w \in {0, 1} /\ t \in {0, 1} /\ (why <=> w = 1) /\ (text <=> t = 1)
  OBVIOUS
<1> HIDE DEF a, b, d, w, t
<1> DEFINE ab == a \o b
<1>6. /\ ab \in Seq(OutputItems) /\ Len(ab) = w + t
      /\ \A i \in 1 .. w : ab[i] = a[i]
      /\ \A i \in 1 .. t : ab[w + i] = b[i]
  <2>1. a \in Seq(OutputItems) /\ b \in Seq(OutputItems)
    BY <1>2, <1>3
  <2>2. /\ ab \in Seq(OutputItems) /\ Len(ab) = Len(a) + Len(b)
        /\ \A i \in 1 .. Len(a) : ab[i] = a[i]
        /\ \A i \in 1 .. Len(b) : ab[Len(a) + i] = b[i]
    BY ONLY <2>1, ConcatFacts
  <2> QED
    BY <1>2, <1>3, <2>2
<1>7. (why => ab[1] = Reasoning) /\ (text => ab[w + 1] = MessageItem)
  BY <1>2, <1>3, <1>5, <1>6
<1> HIDE DEF ab
<1> DEFINE all == ab \o d
<1>8. /\ all \in Seq(OutputItems) /\ Len(all) = w + t + c
      /\ \A i \in 1 .. w + t : all[i] = ab[i]
      /\ \A i \in 1 .. c : all[w + t + i] = d[i]
  <2>1. ab \in Seq(OutputItems) /\ d \in Seq(OutputItems)
    BY <1>4, <1>6
  <2>2. /\ all \in Seq(OutputItems) /\ Len(all) = Len(ab) + Len(d)
        /\ \A i \in 1 .. Len(ab) : all[i] = ab[i]
        /\ \A i \in 1 .. Len(d) : all[Len(ab) + i] = d[i]
    BY ONLY <2>1, ConcatFacts
  <2> QED
    BY <1>4, <1>6, <2>2
<1> HIDE DEF all
<1>9. (why => all[1] = Reasoning) /\ (text => all[w + 1] = MessageItem)
  BY <1>5, <1>7, <1>8
<1>10. \A i \in 1 .. c : all[w + t + i] = CallItem(i - 1)
  BY <1>4, <1>8
<1>11. ItemsOf(why, text, c) = all
  BY <1>1 DEF all, ab
<1> QED
  BY <1>8, <1>9, <1>10, <1>11 DEF w, t

\* An item is added and done once, at these indexes, with its deltas between.
Delivered(out, kind, index, strict) ==
  LET at(ev) == {k \in 1 .. Len(out) : out[k].ev = ev /\ out[k].kind = kind} IN
  \E a \in at("added"), e \in at("done") :
    /\ at("added") = {a} /\ at("done") = {e}
    /\ \A d \in at("delta") : a < d /\ d < e
    /\ strict => out[a].index = index /\ out[e].index = index

\* Two events, and nothing but deltas between them, deliver an item.
LEMMA DeliveredOnce ==
  ASSUME NEW out, NEW kind, NEW index, NEW strict \in BOOLEAN, NEW a \in 1 .. Len(out), NEW e \in 1 .. Len(out),
         out[a].ev = "added", out[a].kind = kind, out[e].ev = "done", out[e].kind = kind,
         \A k \in 1 .. Len(out) : out[k].kind = kind => k = a \/ k = e \/ (out[k].ev = "delta" /\ a < k /\ k < e),
         strict => out[a].index = index /\ out[e].index = index
  PROVE  Delivered(out, kind, index, strict)
<1> DEFINE at(ev) == {k \in 1 .. Len(out) : out[k].ev = ev /\ out[k].kind = kind}
<1>1. at("added") = {a} /\ at("done") = {e}
  OBVIOUS
<1>2. \A d \in at("delta") : a < d /\ d < e
  OBVIOUS
<1> QED
  BY <1>1, <1>2 DEF Delivered

\* When the stream is over, it has what the answer converts to, each item delivered.
LEMMA ResponsesEndFits ==
  ASSUME NEW r, NEW m \in AnswerSet, NEW inOrder \in BOOLEAN, ResponsesFit(r, m, inOrder)
  PROVE  LET f == ResponsesEnd(r) IN
         /\ f.final = ItemsOf(m.why, m.text, m.calls)
         /\ \A n \in 1 .. Len(f.final) : Delivered(f.out, f.final[n], n - 1, inOrder /\ m.text)
<1> DEFINE f == ResponsesEnd(r)
           c == m.calls
           out == r.out
           o == Len(out)
           w == IF r.why THEN 1 ELSE 0
           t == IF r.message THEN 1 ELSE 0
           full == f.out
           strict == inOrder /\ m.text
<1>1. /\ r \in Responses /\ r.why \in BOOLEAN /\ r.message \in BOOLEAN /\ c \in Nat
      /\ m.why \in BOOLEAN /\ m.text \in BOOLEAN /\ r.calls = 0 .. c - 1
      /\ (r.why <=> m.why) /\ (r.message <=> m.text)
      /\ \A k \in 1 .. o : out[k].kind \in {Reasoning, MessageItem}
  BY DEF ResponsesFit, Responses, AnswerSet
<1>2. /\ r.why => Begun(out, Reasoning, 0)
      /\ ~r.why => Absent(out, Reasoning)
      /\ r.message => \E i \in Nat : Begun(out, MessageItem, i) /\ (inOrder => i = w)
      /\ ~r.message => Absent(out, MessageItem)
  BY DEF ResponsesFit, TextIndex
<1>3. /\ f.final = ItemsOf(r.why, r.message, c)
      /\ o \in Nat /\ Len(full) = o + w + t + 3 * c
      /\ \A k \in 1 .. o : full[k] = out[k]
      /\ r.why => full[o + 1] = StreamEvent("done", 0, Reasoning)
      /\ r.message => full[o + w + 1] = StreamEvent("done", w, MessageItem)
      /\ \A i \in 0 .. c - 1 :
           /\ full[o + w + t + 3 * i + 1] = StreamEvent("added", w + 1 + i, CallItem(i))
           /\ full[o + w + t + 3 * i + 2] = StreamEvent("delta", w + 1 + i, CallItem(i))
           /\ full[o + w + t + 3 * i + 3] = StreamEvent("done", w + 1 + i, CallItem(i))
  BY <1>1, EndEvents
<1>4. w \in {0, 1} /\ t \in {0, 1} /\ (r.why <=> w = 1) /\ (r.message <=> t = 1)
  BY <1>1
<1>5. f.final = ItemsOf(m.why, m.text, c)
  <2>1. r.why = m.why /\ r.message = m.text
    BY <1>1
  <2> QED
    BY <1>3, <2>1
<1> DEFINE final == f.final
<1>6. /\ Len(final) = w + t + c
      /\ r.why => final[1] = Reasoning
      /\ r.message => final[w + 1] = MessageItem
      /\ \A i \in 1 .. c : final[w + t + i] = CallItem(i - 1)
  <2> DEFINE s == ItemsOf(r.why, r.message, c)
  <2>1. r.why \in BOOLEAN /\ r.message \in BOOLEAN /\ c \in Nat
    BY <1>1
  <2> HIDE DEF c
  <2>2. /\ Len(s) = w + t + c
        /\ r.why => s[1] = Reasoning
        /\ r.message => s[w + 1] = MessageItem
        /\ \A i \in 1 .. c : s[w + t + i] = CallItem(i - 1)
    BY <2>1, ItemsOfAre
  <2>3. final = s
    BY <1>3
  <2> HIDE DEF s, final, w, t
  <2> QED
    BY <2>2, <2>3
<1> HIDE DEF f, o, w, t, out, full, c, final
<1> DEFINE at == o + w + t
<1>7. at \in Nat /\ Len(full) = at + 3 * c /\ (r.why => o + 1 \in 1 .. at) /\ (r.message => o + w + 1 \in 1 .. at)
  BY <1>1, <1>3, <1>4
\* The fields of the events at the end.
<1>8. /\ r.why => full[o + 1].ev = "done" /\ full[o + 1].kind = Reasoning /\ full[o + 1].index = 0
      /\ r.message => full[o + w + 1].ev = "done" /\ full[o + w + 1].kind = MessageItem /\ full[o + w + 1].index = w
      /\ \A i \in 0 .. c - 1 :
           /\ full[at + 3 * i + 1].ev = "added" /\ full[at + 3 * i + 1].kind = CallItem(i)
           /\ full[at + 3 * i + 1].index = w + 1 + i
           /\ full[at + 3 * i + 2].ev = "delta" /\ full[at + 3 * i + 2].kind = CallItem(i)
           /\ full[at + 3 * i + 3].ev = "done" /\ full[at + 3 * i + 3].kind = CallItem(i)
           /\ full[at + 3 * i + 3].index = w + 1 + i
  <2>1. \A ev, index, kind : LET e == StreamEvent(ev, index, kind) IN e.ev = ev /\ e.index = index /\ e.kind = kind
    BY DEF StreamEvent
  <2> QED
    BY <1>3, <2>1
\* Every event is of the stream before its end, or one of these.
<1>9. ASSUME NEW k \in 1 .. Len(full)
      PROVE  \/ k \in 1 .. o
             \/ r.why /\ k = o + 1
             \/ r.message /\ k = o + w + 1
             \/ \E i \in 0 .. c - 1, j \in 1 .. 3 : k = at + 3 * i + j
  <2>1. CASE k <= at
    BY <1>3, <1>4, <2>1
  <2>2. CASE k > at
    <3> DEFINE n == k - at
               i == (n - 1) \div 3
    <3>1. n \in 1 .. 3 * c /\ k = at + n
      BY <1>1, <1>7, <2>2
    <3> HIDE DEF n
    <3>2. i \in 0 .. c - 1 /\ n - 3 * i \in 1 .. 3
      BY <1>1, <3>1, Thirds
    <3> HIDE DEF i
    <3>3. k = at + 3 * i + (n - 3 * i)
      BY <1>7, <3>1, <3>2
    <3> QED
      BY <3>2, <3>3
  <2> QED
    BY <1>7, <2>1, <2>2
<1> HIDE DEF at
<1>10. /\ Reasoning # MessageItem
       /\ \A i \in Nat : CallItem(i) # Reasoning /\ CallItem(i) # MessageItem
       /\ \A i, j \in Nat : CallItem(i) = CallItem(j) => i = j
  BY ItemsDiffer
<1>11. ASSUME NEW i \in 0 .. c - 1, NEW j \in 1 .. 3
       PROVE  i \in Nat /\ full[at + 3 * i + j].kind = CallItem(i)
              /\ (j = 1 \/ j = 3 \/ (j = 2 /\ full[at + 3 * i + j].ev = "delta"))
  BY <1>8
<1>12. ASSUME r.why PROVE Delivered(full, Reasoning, 0, strict)
  <2>1. PICK a \in 1 .. o :
          /\ out[a].ev = "added" /\ out[a].kind = Reasoning /\ out[a].index = 0
          /\ \A k \in 1 .. o : out[k].kind = Reasoning /\ k # a => a < k /\ out[k].ev = "delta"
    BY <1>2, <1>12 DEF Begun, o
  <2> DEFINE e == o + 1
  <2>2. a \in 1 .. Len(full) /\ e \in 1 .. Len(full) /\ \A k \in 1 .. o : k < e
    BY <1>1, <1>3, <1>7, <1>12
  <2>3. full[a].ev = "added" /\ full[a].kind = Reasoning /\ full[a].index = 0
    BY <1>3, <2>1
  <2>4. full[e].ev = "done" /\ full[e].kind = Reasoning /\ full[e].index = 0
    BY <1>8, <1>12
  <2>5. ASSUME NEW k \in 1 .. Len(full), full[k].kind = Reasoning
        PROVE  k = a \/ k = e \/ (full[k].ev = "delta" /\ a < k /\ k < e)
    <3>1. CASE k \in 1 .. o
      BY <1>3, <2>1, <2>2, <2>5, <3>1
    <3>2. ~(r.message /\ k = o + w + 1)
      BY <1>8, <1>10, <2>5
    <3>3. ~ \E i \in 0 .. c - 1, j \in 1 .. 3 : k = at + 3 * i + j
      BY <1>10, <1>11, <2>5
    <3> QED
      BY <1>9, <3>1, <3>2, <3>3
  <2> HIDE DEF e
  <2> QED
    BY <2>2, <2>3, <2>4, <2>5, DeliveredOnce
<1>13. ASSUME r.message PROVE Delivered(full, MessageItem, w, strict)
  <2>0. PICK x \in Nat : Begun(out, MessageItem, x) /\ (inOrder => x = w)
    BY <1>2, <1>13
  <2>1. PICK a \in 1 .. o :
          /\ out[a].ev = "added" /\ out[a].kind = MessageItem /\ out[a].index = x
          /\ \A k \in 1 .. o : out[k].kind = MessageItem /\ k # a => a < k /\ out[k].ev = "delta"
    BY <2>0 DEF Begun, o
  <2> DEFINE e == o + w + 1
  <2>2. a \in 1 .. Len(full) /\ e \in 1 .. Len(full) /\ \A k \in 1 .. o : k < e
    BY <1>1, <1>3, <1>4, <1>7, <1>13
  <2>3. full[a].ev = "added" /\ full[a].kind = MessageItem /\ (strict => full[a].index = w)
    BY <1>3, <2>0, <2>1
  <2>4. full[e].ev = "done" /\ full[e].kind = MessageItem /\ full[e].index = w
    BY <1>8, <1>13
  <2>5. ASSUME NEW k \in 1 .. Len(full), full[k].kind = MessageItem
        PROVE  k = a \/ k = e \/ (full[k].ev = "delta" /\ a < k /\ k < e)
    <3>1. CASE k \in 1 .. o
      BY <1>3, <2>1, <2>2, <2>5, <3>1
    <3>2. ~(r.why /\ k = o + 1)
      BY <1>8, <1>10, <2>5
    <3>3. ~ \E i \in 0 .. c - 1, j \in 1 .. 3 : k = at + 3 * i + j
      BY <1>10, <1>11, <2>5
    <3> QED
      BY <1>9, <3>1, <3>2, <3>3
  <2> HIDE DEF e
  <2> QED
    BY <2>2, <2>3, <2>4, <2>5, DeliveredOnce
<1>14. ASSUME NEW i \in 0 .. c - 1 PROVE Delivered(full, CallItem(i), w + t + i, strict)
  <2> DEFINE a == at + 3 * i + 1
             e == at + 3 * i + 3
  <2>1. a \in 1 .. Len(full) /\ e \in 1 .. Len(full) /\ i \in Nat
    BY <1>1, <1>7
  <2>2. full[a].ev = "added" /\ full[a].kind = CallItem(i) /\ full[a].index = w + 1 + i
    BY <1>8
  <2>3. full[e].ev = "done" /\ full[e].kind = CallItem(i) /\ full[e].index = w + 1 + i
    BY <1>8
  <2>4. strict => w + 1 + i = w + t + i
    BY <1>1, <1>4
  <2>5. ASSUME NEW k \in 1 .. Len(full), full[k].kind = CallItem(i)
        PROVE  k = a \/ k = e \/ (full[k].ev = "delta" /\ a < k /\ k < e)
    <3>1. ~(k \in 1 .. o)
      BY <1>1, <1>3, <1>10, <2>1, <2>5
    <3>2. ~(r.message /\ k = o + w + 1) /\ ~(r.why /\ k = o + 1)
      BY <1>8, <1>10, <2>1, <2>5
    <3>3. PICK h \in 0 .. c - 1, j \in 1 .. 3 : k = at + 3 * h + j
      BY <1>9, <3>1, <3>2
    <3>4. h = i /\ (j = 1 \/ j = 3 \/ (j = 2 /\ full[k].ev = "delta"))
      <4>1. h \in Nat /\ full[at + 3 * h + j].kind = CallItem(h)
            /\ (j = 1 \/ j = 3 \/ (j = 2 /\ full[at + 3 * h + j].ev = "delta"))
        BY <1>11
      <4>2. full[k].kind = CallItem(h) /\ (j = 1 \/ j = 3 \/ (j = 2 /\ full[k].ev = "delta"))
        BY <3>3, <4>1
      <4>3. h = i
        BY <1>10, <2>1, <2>5, <4>1, <4>2
      <4> QED
        BY <4>2, <4>3
    <3>5. k = at + 3 * i + j
      BY <3>3, <3>4
    <3>6. at + 3 * i + 1 < at + 3 * i + 2 /\ at + 3 * i + 2 < at + 3 * i + 3
      BY <1>7, <2>1
    <3> QED
      BY <3>4, <3>5, <3>6
  <2> DEFINE x == w + t + i
  <2>6. strict => full[a].index = x /\ full[e].index = x
    BY <2>2, <2>3, <2>4
  <2> HIDE DEF a, e, x
  <2>7. Delivered(full, CallItem(i), x, strict)
    BY <2>1, <2>2, <2>3, <2>5, <2>6, DeliveredOnce
  <2> QED
    BY <2>7 DEF x
<1>15. ASSUME NEW n \in 1 .. Len(final) PROVE Delivered(full, final[n], n - 1, strict)
  <2>1. CASE n <= w + t
    <3>1. (r.why /\ n = 1) \/ (r.message /\ n = w + 1)
      BY <1>4, <2>1
    <3>2. CASE r.why /\ n = 1
      BY <1>6, <1>12, <3>2
    <3>3. CASE r.message /\ n = w + 1
      <4>1. n - 1 = w
        BY <1>4, <3>3
      <4> QED
        BY <1>6, <1>13, <3>3, <4>1
    <3> QED
      BY <3>1, <3>2, <3>3
  <2>2. CASE n > w + t
    <3> DEFINE i == n - (w + t) - 1
    <3>1. i \in 0 .. c - 1 /\ i + 1 \in 1 .. c /\ n = w + t + (i + 1) /\ n - 1 = w + t + i /\ (i + 1) - 1 = i
      BY <1>1, <1>4, <1>6, <2>2
    <3> HIDE DEF i
    <3>2. final[n] = CallItem(i)
      BY <1>6, <3>1
    <3> QED
      BY <1>14, <3>1, <3>2
  <2> QED
    BY <1>1, <1>4, <1>6, <2>1, <2>2
<1> QED
  BY <1>5, <1>15 DEF f, full, final, c

-----------------------------------------------------------------------------
(* The exchange. *)

RequestInv ==
  /\ items \in Seq(Items) /\ Len(items) <= MaxItems
  /\ ChatFits(chat, Named("function_call"), Named("output"), Reasoned)
  /\ WireFits(wire, Named("function_call"), Named("output"), Reasoned)

AnswerInv ==
  /\ phase \in {"request", "stream", "done"} /\ answer \in AnswerSet /\ ordered \in BOOLEAN
  /\ ant \in Ants /\ res.calls \subseteq Indexes

StreamInv ==
  /\ Telling(ant, answer)
  /\ ordered => Building(ant, answer)
  /\ ResponsesFit(res, answer, ordered)

\* The property of the events, item by item.
ItemsDelivered ==
  phase = "done" => \A n \in 1 .. Len(res.final) :
    Delivered(res.out, res.final[n], n - 1, ordered /\ answer.text)

ExchangeInv ==
  /\ RequestInv /\ AnswerInv
  /\ phase # "done" => StreamInv
  /\ phase = "done" => BlocksWellFormed
  /\ StreamEqualsResponse /\ ItemsDelivered

\* Delivered is what ItemsAddedThenDone says of each item.
LEMMA DeliveredItems == ItemsDelivered => ItemsAddedThenDone
<1> SUFFICES ASSUME ItemsDelivered, phase = "done", NEW n \in 1 .. Len(res.final)
             PROVE  LET kind == res.final[n]
                        at(ev) == {k \in 1 .. Len(res.out) : res.out[k].ev = ev /\ res.out[k].kind = kind}
                    IN \E a \in at("added"), e \in at("done") :
                         /\ at("added") = {a} /\ at("done") = {e}
                         /\ \A d \in at("delta") : a < d /\ d < e
                         /\ ordered /\ answer.text => res.out[a].index = n - 1 /\ res.out[e].index = n - 1
  BY DEF ItemsAddedThenDone
<1>1. Delivered(res.out, res.final[n], n - 1, ordered /\ answer.text)
  BY DEF ItemsDelivered
<1> QED
  BY <1>1, Zenon DEF Delivered

\* Nothing read is nothing to send.
LEMMA NothingRead ==
  ASSUME items = << >>, chat = NoChat, wire = NoWire
  PROVE  RequestInv
<1>1. Named("function_call") = {} /\ Named("output") = {} /\ Reasoned = {}
  BY DEF Named, Reasoned
<1>2. ChatFits(chat, {}, {}, {})
  <2>1. chat \in Chats /\ chat.last = 0 /\ chat.msgs = << >> /\ chat.calls = << >> /\ chat.why = << >>
    BY DEF NoChat, Chats
  <2> QED
    BY <2>1, NothingIn DEF ChatFits, Carried, CallsOf, WhyOf, ToolsFit
<1>3. WireFits(wire, {}, {}, {})
  <2>1. /\ wire \in Wires /\ wire.msgs = << >> /\ wire.block.calls = << >> /\ wire.block.why = << >>
        /\ wire.block.results = << >>
    BY DEF NoWire, NoBlocks, Wires
  <2> QED
    BY <2>1, NothingIn DEF WireFits, Carried, CallsOf, WhyOf, ToolsFit
<1>4. << >> \in Seq(Items) /\ Len(<< >>) = 0 /\ 0 <= MaxItems
  BY ProtocolConversionAssumption
<1> QED
  BY <1>1, <1>2, <1>3, <1>4 DEF RequestInv

\* One more item is read by both converters.
LEMMA OneMoreItem ==
  ASSUME RequestInv, NEW item \in Items, ReadItem(item)
  PROVE  RequestInv'
<1> DEFINE k == Len(items) + 1
           X == Named("function_call")
           Y == Named("output")
           W == Reasoned
<1>1. /\ items \in Seq(Items) /\ Len(items) <= MaxItems /\ ChatFits(chat, X, Y, W) /\ WireFits(wire, X, Y, W)
      /\ Len(items) < MaxItems /\ items' = Append(items, item)
      /\ chat' = AppendItem(chat, item, k) /\ wire' = Compose(wire, item, k)
      /\ (item.type = "function_call" => item.id \notin X)
      /\ (item.type = "output" => item.id \in X \ Y)
  BY DEF RequestInv, ReadItem, Sendable
<1>2. /\ DOMAIN items = 1 .. Len(items) /\ DOMAIN items' = 1 .. k /\ Len(items') = k /\ Len(items) \in Nat
      /\ items'[k] = item /\ (\A j \in 1 .. Len(items) : items'[j] = items[j]) /\ items' \in Seq(Items)
  BY <1>1
<1>3. /\ k \in 1 .. MaxItems /\ k \notin W /\ k <= MaxItems
      /\ 1 .. k = (1 .. Len(items)) \cup {k} /\ k \notin 1 .. Len(items)
  BY <1>1, <1>2, ProtocolConversionAssumption DEF Reasoned
<1>4. ASSUME NEW type
      PROVE  Named(type)' = With(Named(type), item.type = type, item.id)
  BY <1>2, <1>3 DEF Named, With
<1>5. Reasoned' = With(W, item.type = "reasoning", k)
  BY <1>2, <1>3 DEF Reasoned, With
<1>6. Named("function_call")' = With(X, item.type = "function_call", item.id)
      /\ Named("output")' = With(Y, item.type = "output", item.id)
  BY <1>4
<1> HIDE DEF k, X, Y, W
<1>7. ChatFits(chat', With(X, item.type = "function_call", item.id),
               With(Y, item.type = "output", item.id), With(W, item.type = "reasoning", k))
  BY <1>1, <1>3, ItemFits
<1>8. WireFits(wire', With(X, item.type = "function_call", item.id),
               With(Y, item.type = "output", item.id), With(W, item.type = "reasoning", k))
  BY <1>1, <1>3, ComposeFits
<1> QED
  BY <1>2, <1>3, <1>5, <1>6, <1>7, <1>8 DEF RequestInv

\* A chunk is written to both streams.
LEMMA OneMoreChunk ==
  ASSUME AnswerInv, StreamInv, NEW chunk \in Chunk, ReadChunk(chunk)
  PROVE  AnswerInv' /\ StreamInv'
<1>1. /\ answer \in AnswerSet /\ ordered \in BOOLEAN /\ ant \in Ants /\ phase = "stream" /\ phase' = phase
      /\ Telling(ant, answer) /\ (ordered => Building(ant, answer)) /\ ResponsesFit(res, answer, ordered)
      /\ chunk.call <= answer.calls
      /\ ant' = AnthropicChunk(ant, chunk) /\ res' = ResponsesChunk(res, chunk)
      /\ answer' = Answered(chunk)
      /\ ordered' = (/\ ordered
                     /\ chunk.why => ~answer.text /\ answer.calls = 0
                     /\ chunk.text => answer.calls = 0 /\ chunk.call = NoCall
                     /\ chunk.call # NoCall => answer.calls <= chunk.call + 1)
  BY DEF AnswerInv, StreamInv, ReadChunk, Follows
<1>2. /\ answer.why \in BOOLEAN /\ answer.text \in BOOLEAN /\ answer.calls \in 0 .. MaxToolCalls
      /\ answer.finish \in {"none", "stop", "length", "tool_calls"}
      /\ chunk.why \in BOOLEAN /\ chunk.text \in BOOLEAN /\ chunk.call \in Indexes \cup {NoCall}
  BY <1>1 DEF AnswerSet, Chunk
<1> DEFINE n == answer'
           more == IF chunk.call = answer.calls THEN answer.calls + 1 ELSE answer.calls
<1>3. /\ n \in AnswerSet /\ (n.why <=> answer.why \/ chunk.why) /\ (n.text <=> answer.text \/ chunk.text)
      /\ n.calls = more
  <2>1. more \in 0 .. MaxToolCalls
    <3>1. chunk.call = answer.calls => chunk.call \in 0 .. MaxToolCalls - 1
      BY <1>2 DEF NoCall, Indexes
    <3> QED
      BY <1>2, <3>1, ProtocolConversionAssumption
  <2>2. n = [answer EXCEPT !.why = answer.why \/ chunk.why, !.text = answer.text \/ chunk.text, !.calls = more]
    BY <1>1 DEF Answered
  <2> HIDE DEF n, more
  <2> QED
    BY <1>1, <1>2, <2>1, <2>2 DEF AnswerSet
<1>4. /\ Telling(ant, answer) => Telling(ant', n)
      /\ /\ Building(ant, answer)
         /\ chunk.why => ~answer.text /\ answer.calls = 0
         /\ chunk.text => answer.calls = 0 /\ chunk.call = NoCall
         /\ chunk.call # NoCall => answer.calls <= chunk.call + 1
         => Building(ant', n)
  BY <1>1, <1>3, AnthropicChunkFits
<1>5. ordered' \in BOOLEAN /\ (ordered' => ordered /\ (chunk.why => ~answer.text))
  BY <1>1
<1>6. ResponsesFit(res', n, ordered')
  BY <1>1, <1>3, <1>5, ResponsesChunkFits
<1>7. Telling(ant', n) /\ (ordered' => Building(ant', n))
  BY <1>1, <1>4
<1>8. ant' \in Ants /\ res'.calls \subseteq Indexes
  <2>1. res'.calls \subseteq Indexes
    BY <1>6 DEF ResponsesFit, Responses
  <2> QED
    BY <1>7, <2>1 DEF Telling
<1> HIDE DEF n
<1> QED
  BY <1>1, <1>3, <1>5, <1>6, <1>7, <1>8 DEF AnswerInv, StreamInv, n

\* The end of the answer: both streams hold what it converts to.
LEMMA AllWritten ==
  ASSUME AnswerInv, StreamInv, NEW reason \in {"stop", "length", "tool_calls", "none"}, Finish(reason)
  PROVE  AnswerInv' /\ BlocksWellFormed' /\ StreamEqualsResponse' /\ ItemsDelivered'
<1>1. /\ answer \in AnswerSet /\ ordered \in BOOLEAN /\ ant \in Ants /\ phase' = "done"
      /\ Telling(ant, answer) /\ (ordered => Building(ant, answer)) /\ ResponsesFit(res, answer, ordered)
      /\ ordered' = ordered /\ answer' = [answer EXCEPT !.finish = reason]
      /\ ant' = AnthropicEnd(ant) /\ res' = ResponsesEnd(res)
  BY DEF AnswerInv, StreamInv, Finish
<1>2. /\ answer' \in AnswerSet /\ answer'.why = answer.why /\ answer'.text = answer.text
      /\ answer'.calls = answer.calls /\ answer'.finish = reason
  BY <1>1 DEF AnswerSet
<1>3. Content(answer') = Content(answer)
  BY <1>1, <1>2, ContentNext
<1>4. /\ ant' \in Ants /\ ant'.client.kinds = ant.client.kinds
      /\ ant'.client.stop = (IF ant.tool = NoCall THEN "end_turn" ELSE "tool_use")
      /\ \A m \in AnswerSet : Building(ant, m) => ant'.client.ok
  BY <1>1, AnthropicEndFits
<1>5. BlocksWellFormed'
  BY <1>1, <1>4 DEF BlocksWellFormed
<1>6. ordered => ant'.client.kinds = ChatResponseToAnthropic(answer').content
  <2>1. ordered => ant.client.kinds = Content(answer)
    BY <1>1, Zenon DEF Building
  <2> QED
    BY <1>3, <1>4, <2>1 DEF Content
<1>7. answer'.finish = (IF answer'.calls = 0 THEN "stop" ELSE "tool_calls") =>
        ant'.client.stop = ChatResponseToAnthropic(answer').stop
  <2>1. ant.tool = NoCall <=> answer'.calls = 0
    BY <1>1, <1>2 DEF Telling
  <2> DEFINE m == answer'
             stop == CASE m.finish = "length" -> "max_tokens"
                       [] m.finish = "tool_calls" -> "tool_use"
                       [] OTHER -> "end_turn"
  <2>2. ChatResponseToAnthropic(m).stop = stop
    BY DEF ChatResponseToAnthropic
  <2>3. (m.finish = "stop" => stop = "end_turn") /\ (m.finish = "tool_calls" => stop = "tool_use")
    OBVIOUS
  <2> HIDE DEF stop
  <2> QED
    BY <1>4, <2>1, <2>2, <2>3
<1>8. /\ res'.final = ItemsOf(answer.why, answer.text, answer.calls)
      /\ \A n \in 1 .. Len(res'.final) : Delivered(res'.out, res'.final[n], n - 1, ordered /\ answer.text)
  BY <1>1, ResponsesEndFits
<1>9. res'.final = ChatResponseToResponses(answer').output
  BY <1>2, <1>8 DEF ChatResponseToResponses
<1>10. StreamEqualsResponse'
  BY <1>1, <1>6, <1>7, <1>9 DEF StreamEqualsResponse
<1>11. ItemsDelivered'
  <2>1. ordered' = ordered /\ answer'.text = answer.text
    BY <1>1, <1>2
  <2> QED
    BY <1>8, <2>1 DEF ItemsDelivered
<1>12. res'.calls \subseteq Indexes
  <2>1. res \in Responses
    BY <1>1 DEF ResponsesFit
  <2>2. res'.calls = res.calls
    BY <1>1, <2>1 DEF ResponsesEnd, Responses
  <2> QED
    BY <2>1, <2>2 DEF Responses
<1> QED
  BY <1>1, <1>2, <1>4, <1>5, <1>10, <1>11, <1>12 DEF AnswerInv

\* The inductive invariant: what is read so far is carried by what both converters have
\* written and hold, and what is answered so far is what both streams hold.
THEOREM ExchangeInvariant == ExchangeSpec => []ExchangeInv
<1>1. ExchangeInit => ExchangeInv
  <2> SUFFICES ASSUME ExchangeInit PROVE ExchangeInv
    OBVIOUS
  <2>1. RequestInv
    BY NothingRead DEF ExchangeInit
  <2>2. /\ NoAnswer \in AnswerSet /\ ~NoAnswer.why /\ ~NoAnswer.text /\ NoAnswer.calls = 0
    BY ProtocolConversionAssumption DEF NoAnswer, AnswerSet
  <2>3. /\ NoAnt \in Ants /\ NoAnt.client.ok /\ NoAnt.client.open = "" /\ NoAnt.client.kinds = << >>
        /\ NoAnt.block = 0 /\ NoAnt.kind = "" /\ ~NoAnt.think /\ ~NoAnt.text /\ NoAnt.tool = NoCall
    <3>1. << >> \in Seq(BlockKinds)
      OBVIOUS
    <3>2. NoClient \in Clients /\ NoClient.ok /\ NoClient.open = "" /\ NoClient.kinds = << >>
      BY <3>1 DEF NoClient, Clients
    <3> QED
      BY <3>2 DEF NoAnt, Ants
  <2>4. Content(NoAnswer) = << >>
    <3>1. Content(NoAnswer) \in Seq(BlockKinds) /\ Len(Content(NoAnswer)) = 0
      <4>1. /\ Content(NoAnswer) \in Seq(BlockKinds)
            /\ Len(Content(NoAnswer)) = (IF NoAnswer.why THEN 1 ELSE 0) + (IF NoAnswer.text THEN 1 ELSE 0)
                                         + NoAnswer.calls
        BY <2>2, ContentFacts
      <4> QED
        BY <2>2, <4>1
    <3> QED
      BY <3>1
  <2>5. NoCall = NoAnswer.calls - 1
    BY <2>2 DEF NoCall
  <2>6. ~(NoAnswer.calls > 0)
    BY <2>2
  <2>7. Building(NoAnt, NoAnswer)
    BY <2>2, <2>3, <2>4, <2>5, <2>6, Zenon DEF Building
  <2>8. Telling(NoAnt, NoAnswer)
    BY <2>2, <2>3 DEF Telling
  <2>9. /\ NoRes \in Responses /\ NoRes.out = << >> /\ ~NoRes.why /\ ~NoRes.message /\ NoRes.calls = {}
    BY DEF NoRes, Responses
  <2>10. ResponsesFit(NoRes, NoAnswer, TRUE)
    <3>1. 0 .. NoAnswer.calls - 1 = {}
      BY <2>2
    <3> QED
      BY <2>2, <2>9, <3>1 DEF ResponsesFit, Absent
  <2>11. phase = "request" /\ answer = NoAnswer /\ ordered = TRUE /\ ant = NoAnt /\ res = NoRes
    BY DEF ExchangeInit
  <2> QED
    BY <2>1, <2>2, <2>3, <2>7, <2>8, <2>9, <2>10, <2>11
       DEF ExchangeInv, AnswerInv, StreamInv, StreamEqualsResponse, ItemsDelivered
<1>2. ExchangeInv /\ [ExchangeNext]_exchangeVars => ExchangeInv'
  <2> SUFFICES ASSUME ExchangeInv, [ExchangeNext]_exchangeVars PROVE ExchangeInv'
    OBVIOUS
  <2>0. RequestInv /\ AnswerInv
    BY DEF ExchangeInv
  \* The part of the answer is as it was, and it is not over.
  <2>1. ASSUME UNCHANGED <<answer, ordered, ant, res>>, phase # "done", phase' \in {"request", "stream"}
        PROVE  /\ AnswerInv' /\ StreamInv' /\ StreamEqualsResponse' /\ ItemsDelivered'
               /\ phase' # "done"
    <3>1. StreamInv
      BY <2>1 DEF ExchangeInv
    <3>2. AnswerInv' /\ phase' # "done"
      BY <2>0, <2>1 DEF AnswerInv
    <3>3. StreamInv'
      BY <2>1, <3>1 DEF StreamInv
    <3> QED
      BY <3>2, <3>3 DEF StreamEqualsResponse, ItemsDelivered
  <2>2. ASSUME NEW item \in Items, ReadItem(item) PROVE ExchangeInv'
    <3>1. RequestInv'
      BY <2>0, <2>2, OneMoreItem
    <3>2. UNCHANGED <<answer, ordered, ant, res>> /\ phase = "request" /\ phase' = "request"
      BY <2>2 DEF ReadItem
    <3> QED
      BY <2>1, <3>1, <3>2 DEF ExchangeInv
  <2>3. ASSUME Forward PROVE ExchangeInv'
    <3>1. RequestInv'
      <4>1. items' = << >> /\ chat' = NoChat /\ wire' = NoWire
        BY <2>3 DEF Forward
      <4>2. (items = << >> /\ chat = NoChat /\ wire = NoWire => RequestInv)'
        BY NothingRead, PTL
      <4> QED
        BY <4>1, <4>2
    <3>2. UNCHANGED <<answer, ordered, ant, res>> /\ phase = "request" /\ phase' = "stream"
      BY <2>3 DEF Forward
    <3> QED
      BY <2>1, <3>1, <3>2 DEF ExchangeInv
  <2>4. ASSUME UNCHANGED <<items, chat, wire>> PROVE RequestInv'
    BY <2>0, <2>4 DEF RequestInv, Named, Reasoned
  <2>5. ASSUME NEW chunk \in Chunk, ReadChunk(chunk) PROVE ExchangeInv'
    <3>1. UNCHANGED <<phase, items, chat, wire>> /\ phase = "stream"
      BY <2>5 DEF ReadChunk
    <3>2. StreamInv
      BY <3>1 DEF ExchangeInv
    <3>3. AnswerInv' /\ StreamInv'
      BY <2>0, <2>5, <3>2, OneMoreChunk
    <3> QED
      BY <2>4, <3>1, <3>3 DEF ExchangeInv, StreamEqualsResponse, ItemsDelivered
  <2>6. ASSUME NEW reason \in {"stop", "length", "tool_calls", "none"}, Finish(reason) PROVE ExchangeInv'
    <3>1. UNCHANGED <<items, chat, wire>> /\ phase = "stream" /\ phase' = "done"
      BY <2>6 DEF Finish
    <3>2. StreamInv
      BY <3>1 DEF ExchangeInv
    <3>3. AnswerInv' /\ BlocksWellFormed' /\ StreamEqualsResponse' /\ ItemsDelivered'
      BY <2>0, <2>6, <3>2, AllWritten
    <3> QED
      BY <2>4, <3>1, <3>3 DEF ExchangeInv
  <2>7. CASE UNCHANGED exchangeVars
    <3>1. UNCHANGED <<phase, items, chat, wire, answer, ordered, ant, res>>
      BY <2>7 DEF exchangeVars
    <3>2. AnswerInv'
      BY <2>0, <3>1 DEF AnswerInv
    <3>3. phase # "done" => StreamInv'
      BY <3>1 DEF ExchangeInv, StreamInv
    <3>4. (phase = "done" => BlocksWellFormed') /\ StreamEqualsResponse'
      BY <3>1 DEF ExchangeInv, BlocksWellFormed, StreamEqualsResponse
    <3>5. ItemsDelivered'
      BY <3>1 DEF ExchangeInv, ItemsDelivered
    <3> QED
      BY <2>4, <3>1, <3>2, <3>3, <3>4, <3>5 DEF ExchangeInv
  <2> QED
    BY <2>2, <2>3, <2>5, <2>6, <2>7 DEF ExchangeNext
<1> QED
  BY <1>1, <1>2, PTL DEF ExchangeSpec

\* By either converter, nothing of a request is lost or sent twice.
THEOREM NothingLostOrSentTwice == ExchangeSpec => []RequestsSafe
<1>1. ExchangeInv => RequestsSafe
  <2> SUFFICES ASSUME ExchangeInv PROVE RequestsSafe
    OBVIOUS
  <2>1. /\ items \in Seq(Items) /\ Len(items) <= MaxItems
        /\ ChatFits(chat, Named("function_call"), Named("output"), Reasoned)
        /\ WireFits(wire, Named("function_call"), Named("output"), Reasoned)
    BY DEF ExchangeInv, RequestInv
  <2>2. ExchangeTypeOK
    <3>1. chat \in Chats /\ chat.last <= Len(chat.msgs) /\ wire \in Wires
      BY <2>1 DEF ChatFits, WireFits
    <3> QED
      BY <2>1, <3>1 DEF ExchangeTypeOK, ExchangeInv, AnswerInv, AnswerSet
  <2>3. Kept(ResponsesMessages(chat))
    BY <2>1, SentFits, SentIsKept
  <2>4. Kept(AnthropicMessages(wire))
    BY <2>1, ConvertedFits, SentIsKept
  <2> QED
    BY <2>2, <2>3, <2>4 DEF RequestsSafe
<1> QED
  BY <1>1, ExchangeInvariant, PTL

\* An answer in order is a well-formed Anthropic stream at every point.
THEOREM BlocksAreWellFormed == ExchangeSpec => []BlocksWellFormed
<1>1. ExchangeInv => BlocksWellFormed
  <2>1. ASSUME NEW a \in Ants, NEW m \in AnswerSet, Building(a, m) PROVE a.client.ok
    BY <2>1, BuildingSays
  <2> QED
    BY <2>1 DEF ExchangeInv, AnswerInv, StreamInv, BlocksWellFormed
<1> QED
  BY <1>1, ExchangeInvariant, PTL

\* A streaming client assembles what the same answer converts to at once.
THEOREM StreamingChangesNothing == ExchangeSpec => []StreamEqualsResponse
<1>1. ExchangeInv => StreamEqualsResponse
  BY DEF ExchangeInv
<1> QED
  BY <1>1, ExchangeInvariant, PTL

\* Every item of a Responses stream is added and done once, with its deltas between.
THEOREM ItemsAreDelivered == ExchangeSpec => []ItemsAddedThenDone
<1>1. ExchangeInv => ItemsAddedThenDone
  BY DeliveredItems DEF ExchangeInv
<1> QED
  BY <1>1, ExchangeInvariant, PTL
===============================================================================
