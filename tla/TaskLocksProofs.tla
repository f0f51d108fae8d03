-------------------------- MODULE TaskLocksProofs --------------------------
(***************************************************************************)
(* Proofs about TaskLocks for any number of calls, Agents, runtimes and    *)
(* desktop Agents.                                                         *)
(*                                                                         *)
(* The inductive invariant is local: Fit(r, H) relates what one call does  *)
(* to the mutexes it owns.  A mutex has one owner, so exclusion between    *)
(* calls follows from Fit of each of them.                                 *)
(***************************************************************************)
EXTENDS TaskLocks, WellFoundedInduction, TLAPS

Waiting(r) == r.stage \in {"lookup", "lock"}

\* The mutexes a call of each kind ever owns.
MayHold(r) ==
  CASE r.kind = "install" -> {WriteMu} \cup AgentKeys
                               \cup IF r.stage = "runtime" THEN {r.key} ELSE {}
    [] r.kind \in {"runtime", "desktop"} -> {WriteMu, r.target}
    [] r.kind \in {"update", "uninstall"} -> {AgentKey(r.cur)}
    [] r.kind = "configure" -> {WriteMu}
    [] r.kind = "convert" -> {ConversionMu, WriteMu}
    [] OTHER -> {}

\* What a waiting call waits for.
MayWant(r) ==
  CASE r.kind = "install" -> {WriteMu} \cup {AgentKey(a) : a \in r.todo} \cup DownloadKeys
    [] r.kind = "runtime" -> {WriteMu} \cup ({r.target} \cap DownloadKeys)
    [] r.kind = "desktop" -> {r.target} \cap DesktopKeys
    [] r.kind \in {"update", "uninstall"} -> {AgentKey(r.cur)}
    [] r.kind = "configure" -> {WriteMu}
    [] r.kind = "convert" -> {ConversionMu, WriteMu}
    [] OTHER -> {}

\* An installation that works on one of its Agents.
InstallWorks(r) ==
  /\ r.kind = "install"
  /\ \/ r.stage \in {"step", "runtime", "package", "record", "config"}
     \/ Waiting(r) /\ r.key \in DownloadKeys

\* The kinds of call that reach a stage, where the proof needs it.
FitKind(r) ==
  /\ r.stage \in {"round", "files", "data"} => r.kind = "uninstall"
  /\ r.stage \in {"section", "restore"} => r.kind = "convert"
  /\ r.stage = "desktop" => r.kind = "desktop"
  /\ r.stage = "runtime" => r.kind \in {"install", "runtime"}
  /\ r.kind = "runtime" => r.target \in DownloadKeys
  /\ r.kind = "uninstall" /\ (Waiting(r) \/ r.stage \in {"package", "files"}) => r.rounds > 0
  /\ r.kind = "install" /\ Waiting(r) /\ r.key = WriteMu => r.todo # {}

\* What a waiting call waits for comes after all it owns.
FitWaiting(r, H) ==
  Waiting(r) => r.key \in MayWant(r) /\ \A l \in H : Before(l, r.key)

\* Stages that own nothing, or not writeMu.
FitFree(r, H) ==
  /\ r.stage \in {"idle", "round", "files"} => H = {}
  /\ r.stage \in {"section", "restore"} => WriteMu \notin H

\* Stages that own writeMu.
FitWriter(r, H) ==
  /\ r.stage \in {"step", "record", "config", "finish"} => WriteMu \in H
  /\ r.kind = "install" /\ r.stage \notin {"idle", "unlock"} /\ ~(Waiting(r) /\ r.key = WriteMu)
       => WriteMu \in H

\* Stages that own the mutex of one or more Agents.
FitAgents(r, H) ==
  /\ r.stage = "package" => AgentKey(r.cur) \in H
  /\ InstallWorks(r) => \A a \in r.todo : AgentKey(a) \in H
  /\ InstallWorks(r) /\ (Waiting(r) \/ r.stage = "runtime") => AgentKey(r.cur) \in H
  /\ r.kind = "install" /\ r.stage = "runtime" => r.key \in DownloadKeys \cap H
  /\ r.kind = "install" /\ Waiting(r) /\ r.key \in AgentKeys
       => \A a \in r.todo : a < r.key[2] => AgentKey(a) \in H

Fit(r, H) == /\ H \subseteq MayHold(r)
             /\ FitKind(r)
             /\ FitWaiting(r, H)
             /\ FitFree(r, H)
             /\ FitWriter(r, H)
             /\ FitAgents(r, H)

IInv == TypeOK /\ \A c \in Calls : Fit(call[c], Held(c))

-----------------------------------------------------------------------------
(* Facts about the mutexes. *)

\* The kinds of mutexes are disjoint, and an Agent's mutex determines the Agent.
LEMMA Keys ==
  /\ WriteMu \in Locks /\ ConversionMu \in Locks /\ WriteMu # ConversionMu
  /\ WriteMu \notin TaskKeys /\ ConversionMu \notin TaskKeys
  /\ AgentKeys \subseteq TaskKeys /\ DownloadKeys \subseteq TaskKeys /\ DesktopKeys \subseteq TaskKeys
  /\ TaskKeys \subseteq Locks
  /\ AgentKeys \cap DownloadKeys = {} /\ AgentKeys \cap DesktopKeys = {}
  /\ DownloadKeys \cap DesktopKeys = {}
  /\ TaskKeys = AgentKeys \cup DownloadKeys \cup DesktopKeys
  /\ \A a \in Agents : AgentKey(a) \in AgentKeys /\ AgentKey(a)[2] = a
  /\ \A k \in AgentKeys : k[2] \in Agents /\ k = AgentKey(k[2])
BY DEF Locks, TaskKeys, AgentKeys, DownloadKeys, DesktopKeys, AgentKey, WriteMu, ConversionMu

\* What Before says of each pair of kinds.
LEMMA Order ==
  /\ \A l \in Locks : Before(l, WriteMu) <=> l = ConversionMu
  /\ \A l \in Locks : ~Before(l, ConversionMu)
  /\ \A l \in Locks, k \in DesktopKeys : ~Before(l, k)
  /\ \A k \in AgentKeys \cup DownloadKeys : Before(WriteMu, k)
  /\ \A a, b \in Agents : Before(AgentKey(a), AgentKey(b)) <=> a < b
  /\ \A l \in DownloadKeys \cup DesktopKeys, k \in Locks : ~Before(l, k)
  /\ \A a \in Agents, k \in DownloadKeys : Before(AgentKey(a), k)
  /\ \A l \in Locks, a \in Agents :
       Before(l, AgentKey(a)) => l = WriteMu \/ (l \in AgentKeys /\ l[2] < a)
<1>1. \A l \in Locks : l \in TaskKeys \/ l = WriteMu \/ l = ConversionMu
  BY DEF Locks
<1>2. \A l \in Locks, a \in Agents :
        Before(l, AgentKey(a)) => l = WriteMu \/ (l \in AgentKeys /\ l[2] < a)
  BY <1>1, Keys DEF Before
<1>3. \A a, b \in Agents : Before(AgentKey(a), AgentKey(b)) <=> a < b
  BY <1>1, Keys DEF Before
<1>4. \A l \in DownloadKeys \cup DesktopKeys, k \in Locks : ~Before(l, k)
  BY <1>1, Keys DEF Before
<1>5. /\ \A k \in AgentKeys \cup DownloadKeys : Before(WriteMu, k)
      /\ \A a \in Agents, k \in DownloadKeys : Before(AgentKey(a), k)
  BY <1>1, Keys DEF Before
<1>6. /\ \A l \in Locks : Before(l, WriteMu) <=> l = ConversionMu
      /\ \A l \in Locks : ~Before(l, ConversionMu)
      /\ \A l \in Locks, k \in DesktopKeys : ~Before(l, k)
  BY <1>1, Keys DEF Before
<1> QED  BY <1>2, <1>3, <1>4, <1>5, <1>6

\* Agents are numbers in a linear order.
LEMMA Numbers ==
  /\ \A a \in Agents : a \in Nat /\ ~(a < a)
  /\ \A a, b \in Agents : a < b \/ a = b \/ a > b
  /\ \A a, b \in Agents : a > b <=> b < a
  /\ \A a, b \in Agents : a =< b <=> ~(b < a)
  /\ \A a, b, d \in Agents : a < b /\ b < d => a < d
BY LockAssumption

\* lockTasks has a next key as long as there are keys left.
LEMMA FirstIsLeast ==
  ASSUME NEW S \in SUBSET Agents, S # {}
  PROVE  First(S) \in S /\ \A b \in S : First(S) =< b
<1> DEFINE R == {ss \in Nat \X Nat : ss[1] < ss[2]}
<1>1. S \subseteq Nat
  BY LockAssumption
<1>2. IsWellFoundedOn(R, Nat)
  BY NatLessThanWellFounded, Zenon DEF OpToRel
<1>3. PICK x \in S : \A y \in S : <<y, x>> \notin R
  <2> HIDE DEF R
  <2> QED  BY <1>1, <1>2, WFMin, Zenon
<1>4. \A y \in S : ~(y < x)
  BY <1>1, <1>3
<1>5. \A y \in S : x =< y
  BY <1>1, <1>4
<1> QED  BY <1>5 DEF First

-----------------------------------------------------------------------------
(* A step changes one call and at most one mutex: it keeps the invariant when it
   keeps the fit of that call. *)

\* Calls own known mutexes only.
LEMMA HeldTyped == \A c \in Calls : Held(c) \subseteq Locks
BY DEF Held

\* A step in which no mutex changes hands has to fit the call it moves alone.
LEMMA KeepMutexes ==
  ASSUME IInv, NEW c \in Calls, NEW r \in CallState,
         Becomes(c, r), UNCHANGED holder, Fit(r, Held(c))
  PROVE  IInv'
<1>1. TypeOK'
  BY DEF IInv, TypeOK, Becomes
<1>2. ASSUME NEW d \in Calls PROVE Fit(call'[d], Held(d)')
  <2>1. Held(d)' = Held(d)
    BY DEF Held
  <2>2. call'[d] = IF d = c THEN r ELSE call[d]
    BY DEF IInv, TypeOK, Becomes
  <2> QED  BY <2>1, <2>2 DEF IInv
<1> QED  BY <1>1, <1>2 DEF IInv

\* The call that takes a free mutex has to fit it; the others own what they owned.
LEMMA TakeMutex ==
  ASSUME IInv, NEW c \in Calls, NEW r \in CallState, NEW l \in Locks,
         Becomes(c, r), holder[l] = Free, holder' = [holder EXCEPT ![l] = c],
         Fit(r, Held(c) \cup {l})
  PROVE  IInv'
<1>1. TypeOK'
  BY DEF IInv, TypeOK, Becomes
<1>2. ASSUME NEW d \in Calls PROVE Fit(call'[d], Held(d)')
  <2>1. Held(d)' = IF d = c THEN Held(c) \cup {l} ELSE Held(d)
    BY LockAssumption DEF Held, IInv, TypeOK
  <2>2. call'[d] = IF d = c THEN r ELSE call[d]
    BY DEF IInv, TypeOK, Becomes
  <2> QED  BY <2>1, <2>2 DEF IInv
<1> QED  BY <1>1, <1>2 DEF IInv

\* The call that releases a mutex has to fit the rest.
LEMMA DropMutex ==
  ASSUME IInv, NEW c \in Calls, NEW r \in CallState, NEW l \in Held(c),
         Becomes(c, r), holder' = [holder EXCEPT ![l] = Free],
         Fit(r, Held(c) \ {l})
  PROVE  IInv'
<1>1. TypeOK'
  BY HeldTyped DEF IInv, TypeOK, Becomes
<1>2. ASSUME NEW d \in Calls PROVE Fit(call'[d], Held(d)')
  <2>1. Held(d)' = IF d = c THEN Held(c) \ {l} ELSE Held(d)
    BY LockAssumption DEF Held, IInv, TypeOK
  <2>2. call'[d] = IF d = c THEN r ELSE call[d]
    BY DEF IInv, TypeOK, Becomes
  <2> QED  BY <2>1, <2>2 DEF IInv
<1> QED  BY <1>1, <1>2 DEF IInv

-----------------------------------------------------------------------------
(* The invariant is inductive. *)

\* The target that stands for a request without one is an Agent.
LEMMA AnyAgentTyped == AnyAgent \in Agents
BY LockAssumption DEF AnyAgent

\* An idle call fits owning nothing.
LEMMA IdleFits == Idle \in CallState /\ Fit(Idle, {})
BY Keys, AnyAgentTyped, LockAssumption
   DEF Idle, CallState, Stages, Kinds, Fit, FitKind, FitWaiting, FitFree, FitWriter, FitAgents,
       InstallWorks, Waiting, MayHold

\* The initial state.
LEMMA InitFits == Init => IInv
<1> SUFFICES ASSUME Init PROVE IInv
  OBVIOUS
<1>1. TypeOK
  BY IdleFits DEF Init, TypeOK
<1>2. \A c \in Calls : Held(c) = {}
  BY LockAssumption DEF Init, Held
<1> QED  BY <1>1, <1>2, IdleFits DEF Init, IInv

\* A request starts from a call that owns nothing.
LEMMA RequestStep ==
  ASSUME IInv, NEW c \in Calls, Request(c)
  PROVE  IInv'
<1>1. ASSUME NEW r \in CallState, Start(c, r), Fit(r, {}) PROVE IInv'
  <2>1. call[c].stage = "idle" /\ Held(c) = {}
    BY <1>1 DEF Start, IInv, Fit, FitFree
  <2> QED  BY <1>1, <2>1, KeepMutexes DEF Start
<1>2. CASE InstallAgents(c)
  <2>1. PICK S \in (SUBSET Agents) \ {{}} :
          Start(c, [Idle EXCEPT !.stage = "lock", !.kind = "install", !.todo = S])
    BY <1>2 DEF InstallAgents
  <2> DEFINE r == [Idle EXCEPT !.stage = "lock", !.kind = "install", !.todo = S]
  <2>2. r \in CallState
    BY IdleFits, Keys, LockAssumption DEF CallState, Stages, Kinds
  <2>3. r.stage = "lock" /\ r.kind = "install" /\ r.todo = S /\ r.key = WriteMu /\ S # {}
    BY <2>1 DEF Idle
  <2>4. Fit(r, {})
    <3> HIDE DEF r
    <3>1. FitKind(r) /\ FitWaiting(r, {}) /\ FitFree(r, {})
      BY <2>3, Keys DEF FitKind, FitWaiting, FitFree, Waiting, MayWant
    <3>2. FitWriter(r, {}) /\ FitAgents(r, {})
      BY <2>3, Keys DEF FitWriter, FitAgents, InstallWorks, Waiting
    <3> QED  BY <3>1, <3>2 DEF Fit
  <2> QED  BY <1>1, <2>1, <2>2, <2>4
<1>3. CASE InstallRuntime(c)
  <2>1. PICK k \in DownloadKeys :
          Start(c, [Idle EXCEPT !.stage = "lock", !.kind = "runtime", !.target = k])
    BY <1>3 DEF InstallRuntime
  <2> DEFINE r == [Idle EXCEPT !.stage = "lock", !.kind = "runtime", !.target = k]
  <2>2. r \in CallState
    BY IdleFits, Keys, LockAssumption DEF CallState, Stages, Kinds
  <2>3. r.stage = "lock" /\ r.kind = "runtime" /\ r.target = k /\ r.key = WriteMu
    BY DEF Idle
  <2>4. Fit(r, {})
    <3> HIDE DEF r
    <3> QED  BY <2>3, Keys
             DEF Fit, FitKind, FitWaiting, FitFree, FitWriter, FitAgents, InstallWorks,
                 Waiting, MayHold, MayWant
  <2> QED  BY <1>1, <2>1, <2>2, <2>4
<1>4. CASE UpdateAgent(c)
  <2>1. PICK a \in {b \in Agents : Manager[b] = "npm"} :
          Start(c, [Idle EXCEPT !.stage = "lookup", !.kind = "update", !.key = AgentKey(a),
                                !.cur = a])
    BY <1>4 DEF UpdateAgent
  <2> DEFINE r == [Idle EXCEPT !.stage = "lookup", !.kind = "update", !.key = AgentKey(a),
                                !.cur = a]
  <2>2. r \in CallState
    BY IdleFits, Keys, LockAssumption DEF CallState, Stages, Kinds
  <2>3. r.stage = "lookup" /\ r.kind = "update" /\ r.key = AgentKey(a) /\ r.cur = a
    BY DEF Idle
  <2>4. Fit(r, {})
    <3> HIDE DEF r
    <3> QED  BY <2>3, Keys
             DEF Fit, FitKind, FitWaiting, FitFree, FitWriter, FitAgents, InstallWorks,
                 Waiting, MayHold, MayWant
  <2> QED  BY <1>1, <2>1, <2>2, <2>4
<1>5. CASE UninstallAgent(c)
  <2>1. PICK a \in Agents, n \in 1 .. MaxRounds, data \in {"keep", "locked", "after"} :
          Start(c, [Idle EXCEPT !.stage = "round", !.kind = "uninstall",
                                !.cur = a, !.rounds = n, !.data = data])
    BY <1>5 DEF UninstallAgent
  <2> DEFINE r == [Idle EXCEPT !.stage = "round", !.kind = "uninstall",
                                !.cur = a, !.rounds = n, !.data = data]
  <2>2. r \in CallState
    <3>1. n \in 0 .. MaxRounds
      BY LockAssumption
    <3> QED  BY <3>1, IdleFits, Keys DEF CallState, Stages, Kinds
  <2>3. r.stage = "round" /\ r.kind = "uninstall" /\ r.cur = a
    BY DEF Idle
  <2>4. Fit(r, {})
    <3> HIDE DEF r
    <3> QED  BY <2>3, Keys
             DEF Fit, FitKind, FitWaiting, FitFree, FitWriter, FitAgents, InstallWorks,
                 Waiting, MayHold, MayWant
  <2> QED  BY <1>1, <2>1, <2>2, <2>4
<1>6. CASE InstallDesktopAgent(c)
  <2>1. PICK k \in DesktopKeys :
          Start(c, [Idle EXCEPT !.stage = "lookup", !.kind = "desktop", !.key = k, !.target = k])
    BY <1>6 DEF InstallDesktopAgent
  <2> DEFINE r == [Idle EXCEPT !.stage = "lookup", !.kind = "desktop", !.key = k, !.target = k]
  <2>2. r \in CallState
    BY IdleFits, Keys, LockAssumption DEF CallState, Stages, Kinds
  <2>3. r.stage = "lookup" /\ r.kind = "desktop" /\ r.key = k /\ r.target = k
    BY DEF Idle
  <2>4. Fit(r, {})
    <3> HIDE DEF r
    <3> QED  BY <2>3, Keys
             DEF Fit, FitKind, FitWaiting, FitFree, FitWriter, FitAgents, InstallWorks,
                 Waiting, MayHold, MayWant
  <2> QED  BY <1>1, <2>1, <2>2, <2>4
<1>7. CASE ActivateAgent(c)
  <2>1. PICK S \in SUBSET Agents :
          Start(c, [Idle EXCEPT !.stage = "lock", !.kind = "configure", !.todo = S])
    BY <1>7 DEF ActivateAgent
  <2> DEFINE r == [Idle EXCEPT !.stage = "lock", !.kind = "configure", !.todo = S]
  <2>2. r \in CallState
    BY IdleFits, Keys, LockAssumption DEF CallState, Stages, Kinds
  <2>3. r.stage = "lock" /\ r.kind = "configure" /\ r.todo = S /\ r.key = WriteMu
    BY DEF Idle
  <2>4. Fit(r, {})
    <3> HIDE DEF r
    <3> QED  BY <2>3, Keys
             DEF Fit, FitKind, FitWaiting, FitFree, FitWriter, FitAgents, InstallWorks,
                 Waiting, MayHold, MayWant
  <2> QED  BY <1>1, <2>1, <2>2, <2>4
<1>8. CASE SaveConversion(c)
  <2>1. PICK n \in 1 .. MaxRounds :
          Start(c, [Idle EXCEPT !.stage = "lock", !.kind = "convert", !.key = ConversionMu, !.rounds = n])
    BY <1>8 DEF SaveConversion
  <2> DEFINE r == [Idle EXCEPT !.stage = "lock", !.kind = "convert", !.key = ConversionMu, !.rounds = n]
  <2>2. r \in CallState
    <3>1. n \in 0 .. MaxRounds
      BY LockAssumption
    <3> QED  BY <3>1, IdleFits, Keys DEF CallState, Stages, Kinds
  <2>3. r.stage = "lock" /\ r.kind = "convert" /\ r.key = ConversionMu
    BY DEF Idle
  <2>4. Fit(r, {})
    <3> HIDE DEF r
    <3> QED  BY <2>3, Keys
             DEF Fit, FitKind, FitWaiting, FitFree, FitWriter, FitAgents, InstallWorks,
                 Waiting, MayHold, MayWant
  <2> QED  BY <1>1, <2>1, <2>2, <2>4
<1> QED  BY <1>2, <1>3, <1>4, <1>5, <1>6, <1>7, <1>8 DEF Request

\* How a call goes on, field by field.
LEMMA Moves ==
  ASSUME IInv, NEW c \in Calls
  PROVE  /\ call[c] \in CallState
         /\ \A s \in Stages :
              /\ Enter(c, s) \in CallState
              /\ Enter(c, s).stage = s /\ Enter(c, s).kind = call[c].kind
              /\ Enter(c, s).key = call[c].key /\ Enter(c, s).target = call[c].target
              /\ Enter(c, s).todo = call[c].todo /\ Enter(c, s).cur = call[c].cur
         /\ \A k \in Locks :
              /\ Want(c, k) \in CallState
              /\ Want(c, k).stage = "lookup" /\ Want(c, k).kind = call[c].kind
              /\ Want(c, k).key = k /\ Want(c, k).target = call[c].target
              /\ Want(c, k).todo = call[c].todo /\ Want(c, k).cur = call[c].cur
         /\ GiveUp(c) \in CallState
         /\ GiveUp(c).stage = "unlock" /\ GiveUp(c).kind = call[c].kind
         /\ GiveUp(c).key = call[c].key /\ GiveUp(c).target = call[c].target
         /\ GiveUp(c).todo = call[c].todo /\ GiveUp(c).cur = call[c].cur
<1>1. call[c] \in CallState
  BY DEF IInv, TypeOK
<1>2. \A s \in Stages : Enter(c, s) \in CallState
  BY <1>1 DEF Enter, CallState
<1>3. \A k \in Locks : Want(c, k) \in CallState
  BY <1>1 DEF Want, CallState, Stages
<1>4. GiveUp(c) \in CallState
  <2>1. 0 \in 0 .. MaxRounds
    BY LockAssumption
  <2> QED  BY <1>1, <2>1 DEF GiveUp, CallState, Stages
<1>5. \A s \in Stages :
        /\ Enter(c, s).stage = s /\ Enter(c, s).kind = call[c].kind
        /\ Enter(c, s).key = call[c].key /\ Enter(c, s).target = call[c].target
        /\ Enter(c, s).todo = call[c].todo /\ Enter(c, s).cur = call[c].cur
  BY <1>1 DEF Enter, CallState
<1>6. \A k \in Locks :
        /\ Want(c, k).stage = "lookup" /\ Want(c, k).kind = call[c].kind
        /\ Want(c, k).key = k /\ Want(c, k).target = call[c].target
        /\ Want(c, k).todo = call[c].todo /\ Want(c, k).cur = call[c].cur
  BY <1>1 DEF Want, CallState
<1>7. /\ GiveUp(c).stage = "unlock" /\ GiveUp(c).kind = call[c].kind
      /\ GiveUp(c).key = call[c].key /\ GiveUp(c).target = call[c].target
      /\ GiveUp(c).todo = call[c].todo /\ GiveUp(c).cur = call[c].cur
  BY <1>1 DEF GiveUp, CallState
<1> QED  BY <1>1, <1>2, <1>3, <1>4, <1>5, <1>6, <1>7

\* Work that moves a call on without a mutex changing hands, and to a stage that
\* needs none it does not own.
LEMMA Advance ==
  ASSUME IInv, NEW c \in Calls, NEW r \in CallState, Becomes(c, r), UNCHANGED holder,
         r.kind = call[c].kind, r.key = call[c].key, r.target = call[c].target,
         r.todo = call[c].todo, r.cur = call[c].cur,
         \/ r.stage = "unlock" /\ ~(call[c].stage = "runtime" /\ r.kind = "install")
         \/ call[c].stage \in {"record", "config"} /\ r.stage \in {"step", "config"}
         \/ call[c].stage = "package" /\ r.kind = "install" /\ r.stage \in {"record", "step"}
         \/ call[c].stage = "package" /\ r.kind = "uninstall" /\ r.stage = "data"
         \/ call[c].stage = "step" /\ r.kind = "install" /\ r.stage = "finish"
         \/ call[c].stage = "round" /\ (r.stage = "data" \/ (r.stage = "files" /\ r.rounds > 0))
         \/ call[c].stage = "files" /\ r.stage = "round"
         \/ call[c].stage = "section" /\ r.stage = "restore"
  PROVE  IInv'
<1> DEFINE H == Held(c)
<1>1. Fit(call[c], H)
  BY DEF IInv
<1>2. Fit(r, H)
  <2> HIDE DEF H
  <2>1. H \subseteq MayHold(r)
    BY <1>1 DEF Fit, FitKind, MayHold
  <2>2. FitKind(r) /\ FitFree(r, H)
    BY <1>1 DEF Fit, FitKind, FitFree, Waiting
  <2>3. FitWaiting(r, H)
    BY DEF FitWaiting, Waiting
  <2>4. FitWriter(r, H)
    BY <1>1 DEF Fit, FitKind, FitWriter, Waiting
  <2>5. FitAgents(r, H)
    BY <1>1 DEF Fit, FitKind, FitAgents, InstallWorks, Waiting
  <2> QED  BY <2>1, <2>2, <2>3, <2>4, <2>5 DEF Fit
<1> QED  BY <1>2, KeepMutexes

\* The ends of pieces of work that only advance.
LEMMA DoneStep ==
  ASSUME IInv, NEW c \in Calls,
         \/ PackageDone(c) \/ RecordDone(c) \/ ConfigDone(c) \/ FinishDone(c)
         \/ DesktopDone(c) \/ FilesDone(c) \/ DataDone(c) \/ RestoreDone(c)
  PROVE  IInv'
<1>1. ASSUME NEW s \in Stages, Goto(c, s), UNCHANGED holder,
             \/ s = "unlock" /\ call[c].stage # "runtime"
             \/ call[c].stage \in {"record", "config"} /\ s \in {"step", "config"}
             \/ call[c].stage = "package" /\ call[c].kind = "install" /\ s \in {"record", "step"}
      PROVE  IInv'
  BY <1>1, Advance, Moves DEF Goto
<1>2. ASSUME Becomes(c, GiveUp(c)), UNCHANGED holder, call[c].stage # "runtime" PROVE IInv'
  BY <1>2, Advance, Moves
<1>3. ASSUME NEW s \in Stages, Becomes(c, [Enter(c, s) EXCEPT !.rounds = @ - 1]), UNCHANGED holder,
             call[c].rounds > 0, call[c].kind = "uninstall",
             \/ s \in {"data", "unlock"} /\ call[c].stage = "package"
             \/ s = "round" /\ call[c].stage = "files"
      PROVE  IInv'
  <2> DEFINE r == [Enter(c, s) EXCEPT !.rounds = @ - 1]
  <2>1. r \in CallState
    <3>1. Enter(c, s) \in CallState /\ Enter(c, s).rounds = call[c].rounds
      BY Moves DEF Enter, CallState
    <3>2. Enter(c, s).rounds - 1 \in 0 .. MaxRounds
      BY <3>1, <1>3, LockAssumption DEF CallState
    <3> QED  BY <3>1, <3>2 DEF CallState
  <2>2. /\ r.stage = s /\ r.kind = call[c].kind /\ r.key = call[c].key
        /\ r.target = call[c].target /\ r.todo = call[c].todo /\ r.cur = call[c].cur
    BY Moves DEF CallState
  <2> QED  BY <1>3, <2>1, <2>2, Advance
<1>4. call[c].kind = "uninstall" /\ call[c].stage \in {"package", "files"} => call[c].rounds > 0
  BY DEF IInv, Fit, FitKind
<1>5. CASE PackageDone(c)
  <2>1. CASE call[c].kind = "uninstall"
    <3> DEFINE s == IF call[c].data = "locked" THEN "data" ELSE "unlock"
    <3>1. s \in Stages /\ s \in {"data", "unlock"}
      BY DEF Stages
    <3>2. CASE Becomes(c, [Enter(c, s) EXCEPT !.rounds = @ - 1])
      <4> HIDE DEF s
      <4> QED  BY <1>3, <1>4, <1>5, <2>1, <3>1, <3>2 DEF PackageDone
    <3>3. CASE Becomes(c, GiveUp(c))
      BY <1>2, <1>5, <3>3 DEF PackageDone
    <3> QED  BY <1>5, <2>1, <3>2, <3>3 DEF PackageDone
  <2>2. CASE call[c].kind \in {"install", "update"}
    BY <1>1, <1>5, <2>2 DEF PackageDone, Stages
  <2> QED  BY <1>5, <2>1, <2>2 DEF PackageDone
<1>6. CASE RecordDone(c)
  BY <1>1, <1>6 DEF RecordDone, Stages
<1>7. CASE ConfigDone(c)
  BY <1>1, <1>7 DEF ConfigDone, Stages
<1>8. CASE FinishDone(c) \/ DesktopDone(c) \/ RestoreDone(c)
  BY <1>1, <1>8 DEF FinishDone, DesktopDone, RestoreDone, Stages
<1>9. CASE FilesDone(c)
  <2>1. call[c].kind = "uninstall"
    BY <1>9 DEF FilesDone, IInv, Fit, FitKind
  <2> QED  BY <1>2, <1>3, <1>4, <1>9, <2>1 DEF FilesDone, Stages
<1>10. CASE DataDone(c)
  <2> DEFINE r == [Enter(c, "unlock") EXCEPT !.data = "keep"]
  <2>1. /\ r \in CallState /\ r.stage = "unlock" /\ r.kind = call[c].kind /\ r.key = call[c].key
        /\ r.target = call[c].target /\ r.todo = call[c].todo /\ r.cur = call[c].cur
    BY Moves DEF CallState, Stages
  <2> QED  BY <1>10, <2>1, Advance DEF DataDone
<1> QED  BY <1>5, <1>6, <1>7, <1>8, <1>9, <1>10

\* The next Agent of a request.
LEMMA StepStep ==
  ASSUME IInv, NEW c \in Calls, Step(c)
  PROVE  IInv'
<1> DEFINE H == Held(c)
<1>1. call[c] \in CallState /\ Fit(call[c], H) /\ call[c].stage = "step" /\ UNCHANGED holder
  BY DEF IInv, TypeOK, Step
<1>2. ASSUME NEW a \in call[c].todo, NEW r \in CallState, Becomes(c, r),
             r.kind = call[c].kind, r.target = call[c].target,
             r.todo = call[c].todo \ {a}, r.cur = a,
             \/ r.stage = "config"
             \/ r.kind = "install" /\ r.stage \in {"step", "package"}
             \/ r.kind = "install" /\ r.stage = "lookup" /\ r.key \in DownloadKeys
      PROVE  IInv'
  <2>1. Fit(r, H)
    <3> HIDE DEF H
    <3>1. H \subseteq MayHold(r)
      <4>1. call[c].kind \notin {"update", "uninstall"}
        BY <1>1, Keys DEF Fit, FitWriter, MayHold, CallState
      <4> QED  BY <1>1, <1>2, <4>1 DEF Fit, MayHold
    <3>2. FitKind(r) /\ FitFree(r, H)
      BY <1>1, <1>2, Keys DEF Fit, FitKind, FitFree, Waiting
    <3>3. FitWriter(r, H)
      BY <1>1, <1>2, Keys DEF Fit, FitWriter
    <3>4. FitWaiting(r, H)
      <4>1. CASE r.stage = "lookup"
        <5>1. H \subseteq {WriteMu} \cup AgentKeys
          BY <1>1, <1>2, <4>1 DEF Fit, MayHold
        <5>2. r.key \in MayWant(r)
          BY <1>2, <4>1 DEF MayWant
        <5> QED  BY <1>2, <4>1, <5>1, <5>2, Keys, Order DEF FitWaiting
      <4>2. CASE r.stage # "lookup"
        BY <1>2, <4>2 DEF FitWaiting, Waiting
      <4> QED  BY <4>1, <4>2
    <3>5. FitAgents(r, H)
      BY <1>1, <1>2, Keys DEF Fit, FitAgents, InstallWorks, Waiting
    <3> QED  BY <3>1, <3>2, <3>3, <3>4, <3>5 DEF Fit
  <2> QED  BY <1>1, <1>2, <2>1, KeepMutexes
<1>3. CASE call[c].todo = {}
  <2>1. Goto(c, IF call[c].kind = "install" THEN "finish" ELSE "unlock")
    BY <1>3 DEF Step
  <2>2. CASE call[c].kind = "install"
    BY <1>1, <2>1, <2>2, Advance, Moves DEF Goto, Stages
  <2>3. CASE call[c].kind # "install"
    BY <1>1, <2>1, <2>3, Advance, Moves DEF Goto, Stages
  <2> QED  BY <2>2, <2>3
<1>4. CASE call[c].todo # {}
  <2>1. PICK a \in call[c].todo : StepWith(c, a)
    BY <1>4 DEF Step
  <2> DEFINE next == [call[c] EXCEPT !.todo = @ \ {a}, !.cur = a]
             At(stage) == [next EXCEPT !.stage = stage]
  <2>2. /\ next \in CallState /\ next.stage = "step" /\ next.kind = call[c].kind
        /\ next.target = call[c].target /\ next.todo = call[c].todo \ {a} /\ next.cur = a
    BY <1>1 DEF CallState
  <2>3. ASSUME NEW st \in Stages
        PROVE  /\ At(st) \in CallState /\ At(st).stage = st /\ At(st).kind = call[c].kind
               /\ At(st).target = call[c].target /\ At(st).todo = call[c].todo \ {a} /\ At(st).cur = a
    <3> HIDE DEF next
    <3> QED  BY <2>2 DEF CallState
  <2>4. CASE Becomes(c, At("config"))
    BY <1>2, <2>3, <2>4 DEF Stages
  <2>5. CASE call[c].kind = "install" /\ Becomes(c, next)
    BY <1>2, <2>2, <2>5
  <2>6. CASE call[c].kind = "install" /\ Becomes(c, At("package"))
    <3> DEFINE r == At("package")
    <3>1. /\ r \in CallState /\ r.stage = "package" /\ r.kind = "install"
          /\ r.target = call[c].target /\ r.todo = call[c].todo \ {a} /\ r.cur = a
      BY <2>3, <2>6 DEF Stages
    <3>2. Becomes(c, r)
      BY <2>6
    <3> HIDE DEF r
    <3> QED  BY <1>2, <2>6, <3>1, <3>2
  <2>7. ASSUME call[c].kind = "install", NEW k \in DownloadKeys,
               Becomes(c, [At("lookup") EXCEPT !.key = k])
        PROVE  IInv'
    <3> DEFINE l == At("lookup")
               r == [l EXCEPT !.key = k]
    <3>1. /\ l \in CallState /\ l.stage = "lookup" /\ l.kind = "install"
          /\ l.target = call[c].target /\ l.todo = call[c].todo \ {a} /\ l.cur = a
      BY <2>3, <2>7 DEF Stages
    <3> HIDE DEF l
    <3>2. /\ r \in CallState /\ r.stage = "lookup" /\ r.kind = "install" /\ r.key = k
          /\ r.target = call[c].target /\ r.todo = call[c].todo \ {a} /\ r.cur = a
      BY <3>1, Keys DEF CallState
    <3>3. Becomes(c, r)
      BY <2>7 DEF l
    <3> HIDE DEF r
    <3> QED  BY <1>2, <2>7, <3>2, <3>3
  <2> QED  BY <2>1, <2>4, <2>5, <2>6, <2>7 DEF StepWith
<1> QED  BY <1>3, <1>4

\* The next installation of an uninstall.
LEMMA RoundStep ==
  ASSUME IInv, NEW c \in Calls, Round(c)
  PROVE  IInv'
<1>1. /\ call[c] \in CallState /\ Fit(call[c], Held(c)) /\ call[c].stage = "round"
      /\ call[c].kind = "uninstall" /\ Held(c) = {} /\ UNCHANGED holder
  BY DEF IInv, TypeOK, Round, Fit, FitKind, FitFree
<1>2. CASE call[c].rounds > 0 /\ Becomes(c, Want(c, AgentKey(call[c].cur)))
  <2> DEFINE k == AgentKey(call[c].cur)
             r == Want(c, k)
  <2>1. k \in AgentKeys
    BY <1>1, Keys DEF CallState
  <2>2. /\ r \in CallState /\ r.stage = "lookup" /\ r.kind = "uninstall" /\ r.key = AgentKey(r.cur)
    BY <1>1, <2>1, Moves, Keys
  <2>3. r.rounds > 0
    BY <1>1, <1>2 DEF Want, CallState
  <2>4. Fit(r, {})
    <3> HIDE DEF r, k
    <3> QED  BY <2>2, <2>3, Keys
             DEF Fit, FitKind, FitWaiting, FitFree, FitWriter, FitAgents, InstallWorks,
                 Waiting, MayHold, MayWant
  <2> QED  BY <1>1, <1>2, <2>2, <2>4, KeepMutexes
<1>3. CASE call[c].rounds > 0 /\ Goto(c, "files")
  <2>1. Enter(c, "files").rounds > 0
    BY <1>1, <1>3 DEF Enter, CallState
  <2> QED  BY <1>1, <1>3, <2>1, Moves, Advance DEF Goto, Stages
<1>4. CASE Goto(c, "data")
  <2> DEFINE r == Enter(c, "data")
  <2>1. /\ r \in CallState /\ r.stage = "data" /\ r.kind = call[c].kind /\ r.key = call[c].key
        /\ r.target = call[c].target /\ r.todo = call[c].todo /\ r.cur = call[c].cur
    BY Moves DEF Stages
  <2>2. Becomes(c, r)
    BY <1>4 DEF Goto
  <2> HIDE DEF r
  <2> QED  BY <1>1, <2>1, <2>2, Advance
<1>5. CASE Goto(c, "unlock")
  BY <1>1, <1>5, Moves, Advance DEF Goto, Stages
<1> QED  BY <1>2, <1>3, <1>4, <1>5 DEF Round

\* Between two sections of a conversion.
LEMMA SectionStep ==
  ASSUME IInv, NEW c \in Calls, Section(c)
  PROVE  IInv'
<1>1. /\ call[c] \in CallState /\ Fit(call[c], Held(c)) /\ call[c].stage = "section"
      /\ call[c].kind = "convert" /\ Held(c) \subseteq {ConversionMu} /\ UNCHANGED holder
  BY DEF IInv, TypeOK, Section, Fit, FitKind, FitFree, MayHold
<1>2. CASE /\ call[c].rounds > 0
           /\ Becomes(c, [Enter(c, "lock") EXCEPT !.key = WriteMu, !.rounds = @ - 1])
  <2> DEFINE l == Enter(c, "lock")
             r == [l EXCEPT !.key = WriteMu, !.rounds = @ - 1]
             H == Held(c)
  <2>1. l \in CallState /\ l.stage = "lock" /\ l.kind = "convert" /\ l.rounds - 1 \in 0 .. MaxRounds
    <3>1. l.rounds = call[c].rounds
      BY <1>1 DEF Enter, CallState
    <3>2. call[c].rounds - 1 \in 0 .. MaxRounds
      BY <1>1, <1>2, LockAssumption DEF CallState
    <3> QED  BY <1>1, <3>1, <3>2, Moves DEF Stages
  <2>2. Becomes(c, r)
    BY <1>2
  <2> HIDE DEF l
  <2>3. r \in CallState /\ r.stage = "lock" /\ r.kind = "convert" /\ r.key = WriteMu
    BY <2>1, Keys DEF CallState
  <2>4. Fit(r, H)
    <3> HIDE DEF r, H
    <3>1. H \subseteq {ConversionMu}
      BY <1>1 DEF H
    <3> QED  BY <2>3, <3>1, Keys, Order
             DEF Fit, FitKind, FitWaiting, FitFree, FitWriter, FitAgents, InstallWorks,
                 Waiting, MayHold, MayWant
  <2> HIDE DEF r
  <2> QED  BY <1>1, <2>2, <2>3, <2>4, KeepMutexes
<1>3. CASE Goto(c, "unlock")
  BY <1>1, <1>3, Moves, Advance DEF Goto, Stages
<1>4. CASE Becomes(c, [Enter(c, "restore") EXCEPT !.rounds = 0])
  <2> DEFINE l == Enter(c, "restore")
             r == [l EXCEPT !.rounds = 0]
  <2>1. /\ l \in CallState /\ l.stage = "restore" /\ l.kind = call[c].kind /\ l.key = call[c].key
        /\ l.target = call[c].target /\ l.todo = call[c].todo /\ l.cur = call[c].cur
    BY Moves DEF Stages
  <2>2. Becomes(c, r) /\ 0 \in 0 .. MaxRounds
    BY <1>4, LockAssumption
  <2> HIDE DEF l
  <2>3. /\ r \in CallState /\ r.stage = "restore" /\ r.kind = call[c].kind /\ r.key = call[c].key
        /\ r.target = call[c].target /\ r.todo = call[c].todo /\ r.cur = call[c].cur
    BY <2>1, <2>2 DEF CallState
  <2> HIDE DEF r
  <2> QED  BY <1>1, <2>2, <2>3, Advance
<1> QED  BY <1>2, <1>3, <1>4 DEF Section

\* The end of a runtime installation.
LEMMA RuntimeStep ==
  ASSUME IInv, NEW c \in Calls, RuntimeDone(c)
  PROVE  IInv'
<1> DEFINE H == Held(c)
           k == call[c].key
<1>1. call[c] \in CallState /\ Fit(call[c], H) /\ call[c].stage = "runtime"
  BY DEF IInv, TypeOK, RuntimeDone
<1>2. CASE call[c].kind # "install"
  BY <1>1, <1>2, Moves, Advance DEF RuntimeDone, Goto, Stages
<1>3. CASE call[c].kind = "install"
  <2>1. /\ holder' = [holder EXCEPT ![k] = Free]
        /\ \E s \in {"package", "step"} : Goto(c, s)
    BY <1>3 DEF RuntimeDone
  <2>2. PICK s \in {"package", "step"} : Goto(c, s)
    BY <2>1
  <2> DEFINE r == Enter(c, s)
  <2>3. /\ r \in CallState /\ r.stage = s /\ r.kind = "install"
        /\ r.todo = call[c].todo /\ r.cur = call[c].cur
    BY <1>3, Moves DEF Stages
  <2>4. k \in DownloadKeys /\ k \in H
    BY <1>1, <1>3 DEF Fit, FitAgents
  <2>5. Fit(r, H \ {k})
    <3> HIDE DEF r, H, k
    <3> QED  BY <1>1, <1>3, <2>3, <2>4, Keys
             DEF Fit, FitKind, FitWaiting, FitFree, FitWriter, FitAgents, InstallWorks,
                 Waiting, MayHold, CallState
  <2> QED  BY <2>1, <2>2, <2>3, <2>4, <2>5, DropMutex DEF Goto
<1> QED  BY <1>2, <1>3

\* Looking a task mutex up leaves its owner alone.
LEMMA LookupStep ==
  ASSUME IInv, NEW c \in Calls, Lookup(c)
  PROVE  IInv'
<1> DEFINE r == Enter(c, "lock")
           k == call[c].key
<1>0. Fit(call[c], Held(c)) /\ call[c].stage = "lookup"
  BY DEF IInv, Lookup
<1>1. /\ call[c] \in CallState /\ k \in Locks /\ holder \in [Locks -> Calls \cup {Free, Absent}]
      /\ holder' = [holder EXCEPT ![k] = IF holder[k] = Absent THEN Free ELSE holder[k]]
      /\ Becomes(c, r)
  BY DEF IInv, TypeOK, Lookup, Goto, CallState
<1>2. /\ r \in CallState /\ r.stage = "lock" /\ r.kind = call[c].kind /\ r.key = k
      /\ r.target = call[c].target /\ r.todo = call[c].todo /\ r.cur = call[c].cur
  BY Moves DEF Stages
<1>3. r.rounds = call[c].rounds
  BY <1>1 DEF Enter, CallState
<1>4. TypeOK'
  <2> HIDE DEF r, k
  <2> QED  BY <1>1, <1>2 DEF IInv, TypeOK, Becomes
<1>5. ASSUME NEW d \in Calls PROVE Held(d)' = Held(d)
  <2> HIDE DEF r, k
  <2> QED  BY <1>1, LockAssumption DEF Held
<1>6. Fit(r, Held(c))
  <2> DEFINE H == Held(c)
  <2> HIDE DEF r, H
  <2>1. Fit(call[c], H)
    BY <1>0 DEF H
  <2>2. H \subseteq MayHold(r) /\ FitKind(r) /\ FitFree(r, H)
    BY <1>0, <1>2, <1>3, <2>1 DEF Fit, FitKind, FitFree, Waiting, MayHold
  <2>3. FitWaiting(r, H)
    BY <1>0, <1>2, <2>1 DEF Fit, FitWaiting, Waiting, MayWant
  <2>4. FitWriter(r, H) /\ FitAgents(r, H)
    BY <1>0, <1>2, <2>1 DEF Fit, FitWriter, FitAgents, InstallWorks, Waiting
  <2> QED  BY <2>2, <2>3, <2>4 DEF H, Fit
<1>7. ASSUME NEW d \in Calls PROVE Fit(call'[d], Held(d)')
  <2>1. call'[d] = IF d = c THEN r ELSE call[d]
    BY <1>1 DEF IInv, TypeOK, Becomes
  <2> HIDE DEF r
  <2> QED  BY <1>5, <1>6, <2>1 DEF IInv
<1> QED  BY <1>4, <1>7 DEF IInv

\* A release, and what follows the last one.
LEMMA UnlockStep ==
  ASSUME IInv, NEW c \in Calls, Unlock(c)
  PROVE  IInv'
<1> DEFINE H == Held(c)
<1>1. call[c] \in CallState /\ Fit(call[c], H) /\ call[c].stage = "unlock"
  BY DEF IInv, TypeOK, Unlock
<1>2. ASSUME NEW l \in H, holder' = [holder EXCEPT ![l] = Free],
             call[c].kind = "convert" /\ l = WriteMu, Goto(c, "section")
      PROVE  IInv'
  <2> DEFINE r == Enter(c, "section")
  <2>1. r \in CallState /\ r.stage = "section" /\ r.kind = "convert"
    BY <1>2, Moves DEF Stages
  <2>2. Becomes(c, r)
    BY <1>2 DEF Goto
  <2>3. Fit(r, H \ {l})
    <3> HIDE DEF r, H
    <3> QED  BY <1>1, <1>2, <2>1
             DEF Fit, FitKind, FitWaiting, FitFree, FitWriter, FitAgents, InstallWorks,
                 Waiting, MayHold
  <2> HIDE DEF r
  <2> QED  BY <1>2, <2>1, <2>2, <2>3, DropMutex
<1>3. ASSUME NEW l \in H, holder' = [holder EXCEPT ![l] = Free], UNCHANGED call
      PROVE  IInv'
  <2> DEFINE r == call[c]
  <2>1. Becomes(c, r)
    BY <1>3 DEF Becomes, IInv, TypeOK
  <2>2. Fit(r, H \ {l})
    <3> HIDE DEF H
    <3> QED  BY <1>1
             DEF Fit, FitKind, FitWaiting, FitFree, FitWriter, FitAgents, InstallWorks,
                 Waiting, MayHold
  <2> QED  BY <1>1, <1>3, <2>1, <2>2, DropMutex
<1>4. ASSUME H = {}, UNCHANGED holder, call[c].kind = "uninstall", Goto(c, "round")
      PROVE  IInv'
  <2> DEFINE r == Enter(c, "round")
  <2>1. r \in CallState /\ r.stage = "round" /\ r.kind = "uninstall"
    BY <1>4, Moves DEF Stages
  <2>2. Becomes(c, r)
    BY <1>4 DEF Goto
  <2>3. Fit(r, {})
    <3> HIDE DEF r
    <3> QED  BY <2>1 DEF Fit, FitKind, FitWaiting, FitFree, FitWriter, FitAgents,
                         InstallWorks, Waiting, MayHold
  <2> HIDE DEF r
  <2> QED  BY <1>4, <2>1, <2>2, <2>3, KeepMutexes
<1>5. ASSUME H = {}, UNCHANGED holder, Becomes(c, Idle)
      PROVE  IInv'
  BY <1>5, IdleFits, KeepMutexes
<1>6. CASE H # {}
  <2>1. PICK l \in H : /\ holder' = [holder EXCEPT ![l] = Free]
                       /\ IF call[c].kind = "convert" /\ l = WriteMu
                          THEN Goto(c, "section")
                          ELSE UNCHANGED call
    BY <1>6 DEF Unlock
  <2> QED  BY <1>2, <1>3, <2>1
<1>7. CASE H = {}
  BY <1>4, <1>5, <1>7 DEF Unlock
<1> QED  BY <1>6, <1>7

\* An acquisition, and where it leads.
LEMMA LockStep ==
  ASSUME IInv, NEW c \in Calls, Lock(c)
  PROVE  IInv'
<1> DEFINE H == Held(c)
           k == call[c].key
<1>1. call[c] \in CallState /\ Fit(call[c], H) /\ call[c].stage = "lock" /\ k \in Locks
  BY DEF IInv, TypeOK, Lock, CallState
<1>2. holder[k] = Free /\ holder' = [holder EXCEPT ![k] = c]
  BY DEF Lock
<1>3. ASSUME NEW r \in CallState, Becomes(c, r), Fit(r, H \cup {k}) PROVE IInv'
  BY <1>1, <1>2, <1>3, TakeMutex
<1>4. ASSUME NEW s \in Stages, Goto(c, s), Fit(Enter(c, s), H \cup {k}) PROVE IInv'
  BY <1>3, <1>4, Moves DEF Goto
<1>5. ASSUME NEW l \in Locks, Becomes(c, Want(c, l)), Fit(Want(c, l), H \cup {k}) PROVE IInv'
  BY <1>3, <1>5, Moves
<1>6. k \in MayWant(call[c]) /\ (\A l \in H : Before(l, k)) /\ H \subseteq MayHold(call[c])
  BY <1>1 DEF Fit, FitWaiting, Waiting
<1>7. call[c].cur \in Agents /\ call[c].todo \subseteq Agents
  BY <1>1 DEF CallState
<1>8. CASE AfterConversionMu(c)
  <2> DEFINE r == Enter(c, "section")
  <2>1. call[c].kind = "convert"
    BY <1>1, <1>6, <1>7, <1>8, Keys DEF AfterConversionMu, MayWant, CallState, Kinds
  <2>2. H = {} /\ k = ConversionMu
    BY <1>6, <1>8, Order, HeldTyped DEF AfterConversionMu
  <2>3. r.stage = "section" /\ r.kind = "convert"
    BY <2>1, Moves DEF Stages
  <2>4. Fit(r, H \cup {k})
    <3> HIDE DEF r, H, k
    <3> QED  BY <2>2, <2>3, Keys
             DEF Fit, FitKind, FitWaiting, FitFree, FitWriter, FitAgents, InstallWorks,
                 Waiting, MayHold, MayWant
  <2> QED  BY <1>4, <1>8, <2>4 DEF AfterConversionMu, Stages
<1>9. CASE AfterWriteMu(c)
  <2>1. k = WriteMu /\ H \subseteq {ConversionMu} /\ (call[c].kind # "convert" => H = {})
    <3>1. k = WriteMu
      BY <1>9 DEF AfterWriteMu
    <3>2. H \subseteq {ConversionMu}
      BY <1>6, <3>1, Order, HeldTyped
    <3>3. call[c].kind \in {"install", "runtime", "configure", "convert"}
      BY <1>6, <1>7, <3>1, Keys DEF MayWant
    <3>4. call[c].kind \in {"install", "runtime", "configure"} => ConversionMu \notin MayHold(call[c])
      <4>1. call[c].kind = "runtime" => call[c].target \in DownloadKeys
        BY <1>1 DEF Fit, FitKind
      <4> QED  BY <1>1, <4>1, Keys DEF MayHold
    <3> QED  BY <1>6, <3>1, <3>2, <3>3, <3>4
  <2>2. ASSUME NEW s \in Stages, Goto(c, s),
               \/ s = "unlock"
               \/ s = "record" /\ call[c].kind = "configure"
        PROVE  IInv'
    <3> DEFINE r == Enter(c, s)
    <3>1. r.stage = s /\ r.kind = call[c].kind /\ r.target = call[c].target /\ r.cur = call[c].cur
      BY Moves
    <3>2. call[c].kind \in {"install", "runtime", "configure", "convert"}
      BY <1>6, <1>7, <2>1, Keys DEF MayWant
    <3>3. Fit(r, H \cup {k})
      <4> HIDE DEF r, H, k
      <4> QED  BY <1>1, <2>1, <2>2, <3>1, <3>2, Keys
               DEF Fit, FitKind, FitWaiting, FitFree, FitWriter, FitAgents, InstallWorks,
                 Waiting, MayHold, MayWant
    <3> QED  BY <1>4, <2>2, <3>3
  <2>3. CASE call[c].kind = "install" /\ Becomes(c, Want(c, AgentKey(First(call[c].todo))))
    <3> DEFINE a == First(call[c].todo)
               r == Want(c, AgentKey(a))
    <3>1. call[c].todo # {}
      BY <1>1, <2>1, <2>3 DEF Fit, FitKind, Waiting
    <3>2. a \in call[c].todo /\ (\A b \in call[c].todo : a =< b) /\ a \in Agents
      BY <1>7, <3>1, FirstIsLeast
    <3> HIDE DEF a
    <3>3. AgentKey(a) \in AgentKeys /\ AgentKey(a) \in Locks /\ AgentKey(a)[2] = a
      BY <3>2, Keys
    <3>4. /\ r.stage = "lookup" /\ r.kind = "install" /\ r.key = AgentKey(a)
          /\ r.todo = call[c].todo
      BY <2>3, <3>3, Moves
    <3>5. \A b \in call[c].todo : ~(b < a)
      BY <1>7, <3>2, LockAssumption
    <3>6. H \cup {k} = {WriteMu}
      BY <2>1, <2>3
    <3>7. Fit(r, {WriteMu})
      <4> HIDE DEF r, k
      <4>1. {WriteMu} \subseteq MayHold(r) /\ FitKind(r) /\ FitFree(r, {WriteMu}) /\ FitWriter(r, {WriteMu})
        BY <3>3, <3>4, Keys DEF MayHold, FitKind, FitFree, FitWriter, Waiting
      <4>2. FitWaiting(r, {WriteMu})
        BY <3>2, <3>3, <3>4, Order DEF FitWaiting, MayWant
      <4>3. FitAgents(r, {WriteMu})
        BY <3>3, <3>4, <3>5, Keys DEF FitAgents, InstallWorks, Waiting
      <4> QED  BY <4>1, <4>2, <4>3 DEF Fit
    <3> QED  BY <1>5, <2>3, <3>3, <3>6, <3>7 DEF a
  <2>4. CASE call[c].kind = "runtime" /\ Becomes(c, Want(c, call[c].target))
    <3> DEFINE t == call[c].target
               r == Want(c, t)
    <3>1. t \in DownloadKeys /\ t \in Locks
      BY <1>1, <2>4, Keys DEF Fit, FitKind
    <3>2. r.stage = "lookup" /\ r.kind = "runtime" /\ r.key = t /\ r.target = t
      BY <2>4, <3>1, Moves
    <3>3. H \cup {k} = {WriteMu}
      BY <2>1, <2>4
    <3>4. Fit(r, {WriteMu})
      <4> HIDE DEF r, t, k
      <4> QED  BY <3>1, <3>2, Keys, Order
               DEF Fit, FitKind, FitWaiting, FitFree, FitWriter, FitAgents, InstallWorks,
                 Waiting, MayHold, MayWant
    <3> QED  BY <1>5, <2>4, <3>1, <3>3, <3>4
  <2>5. ASSUME NEW S \in SUBSET Agents, call[c].kind = "convert",
               Becomes(c, [Enter(c, "record") EXCEPT !.todo = S])
        PROVE  IInv'
    <3> DEFINE l == Enter(c, "record")
               r == [l EXCEPT !.todo = S]
    <3>1. l \in CallState /\ l.stage = "record" /\ l.kind = "convert"
      BY <2>5, Moves DEF Stages
    <3>2. Becomes(c, r)
      BY <2>5
    <3> HIDE DEF l
    <3>3. r \in CallState /\ r.stage = "record" /\ r.kind = "convert"
      BY <3>1 DEF CallState
    <3>4. Fit(r, H \cup {k})
      <4> HIDE DEF r, H, k
      <4> QED  BY <2>1, <3>3, Keys
               DEF Fit, FitKind, FitWaiting, FitFree, FitWriter, FitAgents, InstallWorks,
                 Waiting, MayHold, MayWant
    <3> HIDE DEF r
    <3> QED  BY <1>3, <3>2, <3>3, <3>4
  <2> QED  BY <1>9, <2>2, <2>3, <2>4, <2>5 DEF AfterWriteMu, Stages
<1>10. CASE AfterAgentKey(c)
  <2>1. k \in AgentKeys /\ k[2] \in Agents /\ k = AgentKey(k[2])
    BY <1>10, Keys DEF AfterAgentKey
  <2>2. CASE call[c].kind \in {"update", "uninstall"}
    <3>1. H = {} /\ k = AgentKey(call[c].cur)
      <4>1. k = AgentKey(call[c].cur) /\ H \subseteq {k}
        BY <1>6, <2>2 DEF MayWant, MayHold
      <4>2. ~Before(k, k)
        BY <2>1, Order, Numbers
      <4> QED  BY <1>6, <4>1, <4>2
    <3>2. ASSUME NEW s \in {"package", "unlock"}, Goto(c, s) PROVE IInv'
      <4> DEFINE r == Enter(c, s)
      <4>1. /\ r.stage = s /\ r.kind = call[c].kind /\ r.cur = call[c].cur /\ r.rounds = call[c].rounds
        BY <1>1 DEF Enter, CallState
      <4>2. call[c].kind = "uninstall" => call[c].rounds > 0
        BY <1>1 DEF Fit, FitKind, Waiting
      <4>3. Fit(r, H \cup {k})
        <5> HIDE DEF r, H, k
        <5> QED  BY <2>2, <3>1, <3>2, <4>1, <4>2
                 DEF Fit, FitKind, FitWaiting, FitFree, FitWriter, FitAgents, InstallWorks,
                 Waiting, MayHold, MayWant
      <4> QED  BY <1>4, <3>2, <4>3 DEF Stages
    <3> QED  BY <1>10, <2>2, <3>2 DEF AfterAgentKey
  <2>3. CASE call[c].kind = "install"
    <3>1. /\ H \subseteq {WriteMu} \cup AgentKeys /\ WriteMu \in H /\ k[2] \in call[c].todo
          /\ \A a \in call[c].todo : a < k[2] => AgentKey(a) \in H
      <4>1. WriteMu \in H /\ \A a \in call[c].todo : a < k[2] => AgentKey(a) \in H
        BY <1>1, <2>1, <2>3, Keys DEF Fit, FitWriter, FitAgents, Waiting
      <4>2. H \subseteq {WriteMu} \cup AgentKeys
        BY <1>1, <1>6, <2>3 DEF MayHold
      <4>3. k[2] \in call[c].todo
        BY <1>6, <1>7, <2>1, <2>3, Keys DEF MayWant
      <4> QED  BY <4>1, <4>2, <4>3
    <3>2. CASE Ahead(c) # {} /\ Becomes(c, Want(c, AgentKey(First(Ahead(c)))))
      <4> DEFINE a == First(Ahead(c))
                 r == Want(c, AgentKey(a))
      <4>1. a \in Ahead(c) /\ \A b \in Ahead(c) : a =< b
        BY <1>7, <3>2, FirstIsLeast DEF Ahead
      <4>2. a \in call[c].todo /\ a \in Agents /\ a > k[2]
        BY <1>7, <4>1 DEF Ahead
      <4>3. \A b \in call[c].todo : b > k[2] => a =< b
        BY <4>1 DEF Ahead
      <4> HIDE DEF a
      <4>4. AgentKey(a) \in AgentKeys /\ AgentKey(a) \in Locks /\ AgentKey(a)[2] = a
        BY <4>2, Keys
      <4>5. /\ r.stage = "lookup" /\ r.kind = "install" /\ r.key = AgentKey(a)
            /\ r.todo = call[c].todo
        BY <2>3, <4>4, Moves
      <4>6. \A b \in call[c].todo : b < a => AgentKey(b) \in H \cup {k}
        <5> SUFFICES ASSUME NEW b \in call[c].todo, b < a PROVE AgentKey(b) \in H \cup {k}
          OBVIOUS
        <5>1. b \in Agents /\ ~(a =< b)
          BY <1>7, <4>2, Numbers
        <5>2. b < k[2] \/ b = k[2]
          BY <2>1, <4>3, <5>1, Numbers
        <5> QED  BY <2>1, <3>1, <5>2
      <4>7. \A l \in H \cup {k} : Before(l, AgentKey(a))
        <5>1. Before(k, AgentKey(a))
          BY <2>1, <4>2, Order, Numbers
        <5>2. ASSUME NEW l \in H PROVE Before(l, AgentKey(a))
          <6>1. l = WriteMu \/ (l \in AgentKeys /\ l[2] < k[2])
            BY <1>6, <2>1, <5>2, Order, HeldTyped
          <6>2. CASE l = WriteMu
            BY <4>4, <6>2, Order
          <6>3. CASE l \in AgentKeys /\ l[2] < k[2]
            <7>1. l[2] \in Agents /\ l = AgentKey(l[2])
              BY <6>3, Keys
            <7>2. l[2] < a
              BY <2>1, <4>2, <6>3, <7>1, Numbers
            <7> QED  BY <4>2, <7>1, <7>2, Order
          <6> QED  BY <6>1, <6>2, <6>3
        <5> QED  BY <5>1, <5>2
      <4>8. Fit(r, H \cup {k})
        <5> HIDE DEF r, H, k
        <5>1. H \cup {k} \subseteq MayHold(r) /\ FitKind(r) /\ FitFree(r, H \cup {k}) /\ FitWriter(r, H \cup {k})
          BY <2>1, <3>1, <4>4, <4>5, Keys DEF MayHold, FitKind, FitFree, FitWriter, Waiting
        <5>2. FitWaiting(r, H \cup {k})
          BY <4>2, <4>5, <4>7 DEF FitWaiting, MayWant
        <5>3. FitAgents(r, H \cup {k})
          BY <4>4, <4>5, <4>6, Keys DEF FitAgents, InstallWorks, Waiting
        <5> QED  BY <5>1, <5>2, <5>3 DEF Fit
      <4> QED  BY <1>5, <3>2, <4>4, <4>8 DEF a
    <3>3. ASSUME Ahead(c) = {}, NEW s \in {"step", "unlock"}, Goto(c, s) PROVE IInv'
      <4> DEFINE r == Enter(c, s)
      <4>1. r.stage = s /\ r.kind = "install" /\ r.todo = call[c].todo
        BY <2>3, Moves DEF Stages
      <4>2. \A a \in call[c].todo : AgentKey(a) \in H \cup {k}
        <5> SUFFICES ASSUME NEW a \in call[c].todo PROVE AgentKey(a) \in H \cup {k}
          OBVIOUS
        <5>1. a \in Agents /\ ~(a > k[2])
          BY <1>7, <3>3 DEF Ahead
        <5>2. a < k[2] \/ a = k[2]
          BY <2>1, <5>1, Numbers
        <5> QED  BY <2>1, <3>1, <5>2
      <4>3. Fit(r, H \cup {k})
        <5> HIDE DEF r, H, k
        <5> QED  BY <2>1, <3>1, <3>3, <4>1, <4>2
                 DEF Fit, FitKind, FitWaiting, FitFree, FitWriter, FitAgents, InstallWorks,
                 Waiting, MayHold, MayWant
      <4> QED  BY <1>4, <3>3, <4>3 DEF Stages
    <3> QED  BY <1>10, <2>3, <3>2, <3>3 DEF AfterAgentKey
  <2> QED  BY <1>10, <2>2, <2>3 DEF AfterAgentKey
<1>11. CASE AfterTargetKey(c)
  <2>1. CASE k \in DownloadKeys /\ Goto(c, "runtime")
    <3> DEFINE r == Enter(c, "runtime")
    <3>1. /\ r.stage = "runtime" /\ r.kind = call[c].kind /\ r.key = k /\ r.todo = call[c].todo
          /\ r.cur = call[c].cur /\ r.target = call[c].target
      BY Moves DEF Stages
    <3>2. call[c].kind \in {"install", "runtime"} /\ (call[c].kind = "runtime" => k = call[c].target)
      BY <1>6, <1>7, <2>1, Keys DEF MayWant
    <3>3. CASE call[c].kind = "runtime"
      <4>1. Fit(r, H \cup {k})
        <5> HIDE DEF r, H
        <5> QED  BY <1>1, <1>6, <2>1, <3>1, <3>2, <3>3
                 DEF Fit, FitKind, FitWaiting, FitFree, FitWriter, FitAgents, InstallWorks,
                 Waiting, MayHold, MayWant
      <4> QED  BY <1>4, <2>1, <4>1 DEF Stages
    <3>4. CASE call[c].kind = "install"
      <4>1. /\ H \subseteq {WriteMu} \cup AgentKeys /\ WriteMu \in H /\ AgentKey(call[c].cur) \in H
            /\ \A a \in call[c].todo : AgentKey(a) \in H
        BY <1>1, <2>1, <3>4, Keys DEF Fit, FitWriter, FitAgents, InstallWorks, Waiting, MayHold
      <4>2. Fit(r, H \cup {k})
        <5> HIDE DEF r, H
        <5> QED  BY <2>1, <3>1, <3>4, <4>1
                 DEF Fit, FitKind, FitWaiting, FitFree, FitWriter, FitAgents, InstallWorks,
                 Waiting, MayHold, MayWant
      <4> QED  BY <1>4, <2>1, <4>2 DEF Stages
    <3> QED  BY <3>2, <3>3, <3>4
  <2>2. CASE k \in DesktopKeys /\ Goto(c, "desktop")
    <3> DEFINE r == Enter(c, "desktop")
    <3>1. r.stage = "desktop" /\ r.kind = call[c].kind /\ r.target = call[c].target
      BY Moves DEF Stages
    <3>2. call[c].kind = "desktop" /\ k = call[c].target
      BY <1>6, <1>7, <2>2, Keys DEF MayWant
    <3>3. Fit(r, H \cup {k})
      <4> HIDE DEF r, H
      <4> QED  BY <1>6, <3>1, <3>2
               DEF Fit, FitKind, FitWaiting, FitFree, FitWriter, FitAgents, InstallWorks,
                 Waiting, MayHold, MayWant
    <3> QED  BY <1>4, <2>2, <3>3 DEF Stages
  <2> QED  BY <1>11, <2>1, <2>2 DEF AfterTargetKey
<1> QED  BY <1>8, <1>9, <1>10, <1>11 DEF Lock

-----------------------------------------------------------------------------
(* Theorems. *)

\* Every step keeps the invariant.
LEMMA NextStep == IInv /\ [Next]_vars => IInv'
<1> SUFFICES ASSUME IInv, [Next]_vars PROVE IInv'
  OBVIOUS
<1>1. CASE UNCHANGED vars
  <2>1. TypeOK' /\ \A c \in Calls : call'[c] = call[c] /\ Held(c)' = Held(c)
    BY <1>1 DEF vars, IInv, TypeOK, Held
  <2> QED  BY <2>1 DEF IInv
<1>2. ASSUME NEW c \in Calls, Request(c) \/ Lock(c) \/ Work(c) PROVE IInv'
  BY <1>2, RequestStep, LockStep, LookupStep, StepStep, RuntimeStep, DoneStep, RoundStep,
     SectionStep, UnlockStep DEF Work
<1> QED  BY <1>1, <1>2 DEF Next

\* What a call does always fits the mutexes it owns.
THEOREM Invariance == Spec => []IInv
BY InitFits, NextStep, PTL DEF Spec

\* Calls and mutexes stay within their types.
THEOREM TypeCorrect == Spec => []TypeOK
BY Invariance, PTL DEF IInv

\* Two calls never run a package manager for the same Agent: the mutex of the
\* Agent belongs to the call that does.
THEOREM PackagesExcluded == Spec => []PackageExclusive
<1>1. IInv => PackageExclusive
  <2> SUFFICES ASSUME IInv, NEW c \in Calls, NEW d \in Calls, NEW a \in Agents,
                      Mutating(c, a), Mutating(d, a)
               PROVE  c = d
    BY DEF PackageExclusive
  <2>1. AgentKey(a) \in Held(c) /\ AgentKey(a) \in Held(d)
    BY DEF IInv, Fit, FitAgents, Mutating
  <2> QED  BY <2>1 DEF Held
<1> QED  BY <1>1, Invariance, PTL

\* Records and configuration files have one writer: the owner of writeMu.
THEOREM ConfigurationsExcluded == Spec => []ConfigExclusive
<1>1. IInv => ConfigExclusive
  <2> SUFFICES ASSUME IInv, NEW c \in Calls, NEW d \in Calls, Writing(c), Writing(d)
               PROVE  c = d
    BY DEF ConfigExclusive
  <2>1. WriteMu \in Held(c) /\ WriteMu \in Held(d)
    BY DEF IInv, Fit, FitWriter, Writing
  <2> QED  BY <2>1 DEF Held
<1> QED  BY <1>1, Invariance, PTL

\* A waiting call owns only mutexes that come before the one it waits for.
THEOREM OrderKept == Spec => []LockOrder
<1>1. IInv => LockOrder
  BY DEF IInv, Fit, FitWaiting, Waiting, LockOrder
<1> QED  BY <1>1, Invariance, PTL

\* The locks are safe for any number of calls, Agents and runtimes.
THEOREM LocksStaySafe == Spec => []LocksSafe
BY TypeCorrect, PackagesExcluded, ConfigurationsExcluded, OrderKept, PTL DEF LocksSafe

\* The position of a mutex in the order of acquisition.
Rank(l) == IF l = ConversionMu THEN 0
           ELSE IF l = WriteMu THEN 1
           ELSE IF l \in AgentKeys THEN 1 + l[2]
           ELSE LastAgent + 2

\* The rank of mutexes grows along their order, so a circle of waits is impossible.
LEMMA RankGrows ==
  ASSUME NEW k \in Locks, NEW l \in Locks, Before(k, l)
  PROVE  Rank(k) \in 0 .. LastAgent + 2 /\ Rank(l) \in 0 .. LastAgent + 2 /\ Rank(k) < Rank(l)
<1>1. \A a \in Agents : a \in 1 .. LastAgent
  BY LockAssumption
<1>2. /\ Rank(ConversionMu) = 0 /\ Rank(WriteMu) = 1
      /\ \A m \in AgentKeys : Rank(m) = 1 + m[2] /\ m[2] \in 1 .. LastAgent
      /\ \A m \in DownloadKeys : Rank(m) = LastAgent + 2
  BY <1>1, Keys DEF Rank
<1>3. CASE k = ConversionMu /\ l = WriteMu
  BY <1>2, <1>3, LockAssumption
<1>4. CASE k = WriteMu /\ l \in TaskKeys \ DesktopKeys
  <2>1. l \in AgentKeys \/ l \in DownloadKeys
    BY <1>4, Keys
  <2> QED  BY <1>2, <1>4, <2>1, LockAssumption
<1>5. CASE k \in AgentKeys /\ l \in AgentKeys /\ k[2] < l[2]
  BY <1>2, <1>5, LockAssumption
<1>6. CASE k \in AgentKeys /\ l \in DownloadKeys
  BY <1>2, <1>6, LockAssumption
<1> QED  BY <1>3, <1>4, <1>5, <1>6 DEF Before

\* Calls never wait for one another in a circle: of any set of them, the one
\* whose mutex comes last is not waiting for another of the set, because that
\* one, if it waited too, would wait for a mutex that comes later still.
THEOREM NoDeadlock == Spec => []NoCircularWait
<1>1. IInv => NoCircularWait
  <2> SUFFICES ASSUME IInv, NEW S \in (SUBSET Calls) \ {{}},
                      \A c \in S : \E d \in S : BlockedBy(c, d)
               PROVE  FALSE
    BY DEF NoCircularWait
  <2> DEFINE key(c) == call[c].key
             Gap == {LastAgent + 2 - Rank(key(c)) : c \in S}
             R == {ss \in Nat \X Nat : ss[1] < ss[2]}
  <2>1. ASSUME NEW c \in S, NEW d \in S, BlockedBy(c, d)
        PROVE  /\ Rank(key(c)) \in 0 .. LastAgent + 2 /\ Rank(key(d)) \in 0 .. LastAgent + 2
               /\ Rank(key(c)) < Rank(key(d))
    <3>1. key(c) \in Held(d) /\ key(c) \in Locks /\ key(d) \in Locks
      BY <2>1 DEF BlockedBy, Held, IInv, TypeOK, CallState
    <3>2. PICK e \in S : BlockedBy(d, e)
      BY <2>1
    <3>3. Before(key(c), key(d))
      BY <3>1, <3>2 DEF BlockedBy, IInv, Fit, FitWaiting, Waiting
    <3> HIDE DEF key
    <3> QED  BY <3>1, <3>3, RankGrows
  <2>2. \A c \in S : Rank(key(c)) \in 0 .. LastAgent + 2
    BY <2>1
  <2>3. Gap \subseteq Nat /\ Gap # {}
    <3>1. S # {}
      OBVIOUS
    <3>2. \A c \in S : LastAgent + 2 - Rank(key(c)) \in Nat
      BY <2>2, LockAssumption
    <3> QED  BY <3>1, <3>2
  <2>4. IsWellFoundedOn(R, Nat)
    BY NatLessThanWellFounded, Zenon DEF OpToRel
  <2>5. PICK x \in Gap : \A y \in Gap : <<y, x>> \notin R
    <3> HIDE DEF R, Gap
    <3> QED  BY <2>3, <2>4, WFMin, Zenon
  <2>6. PICK c \in S : x = LastAgent + 2 - Rank(key(c))
    OBVIOUS
  <2>7. PICK d \in S : BlockedBy(c, d)
    OBVIOUS
  <2>8. LastAgent + 2 - Rank(key(d)) \in Gap /\ LastAgent + 2 - Rank(key(d)) < x
    BY <2>1, <2>6, <2>7, LockAssumption
  <2> QED  BY <2>3, <2>5, <2>8
<1> QED  BY <1>1, Invariance, PTL

-----------------------------------------------------------------------------
(* TaskLocks implements TargetExclusion. *)

\* A step changes one call, and a call that runs a package manager, or writes,
\* does not go on to run a package manager in its next step.
LEMMA OneCall ==
  ASSUME IInv, NEW c \in Calls, Request(c) \/ Lock(c) \/ Work(c)
  PROVE  /\ \A d \in Calls : d # c => call'[d] = call[d]
         /\ call[c].stage = "package" \/ Writing(c) => call'[c].stage # "package"
<1>1. (\E r : Becomes(c, r)) \/ UNCHANGED call
  BY DEF Request, InstallAgents, InstallRuntime, UpdateAgent, UninstallAgent, InstallDesktopAgent,
         ActivateAgent, SaveConversion, Start, Lock, AfterConversionMu, AfterWriteMu, AfterAgentKey,
         AfterTargetKey, Work, Lookup, Step, StepWith, RuntimeDone, PackageDone, RecordDone, ConfigDone,
         FinishDone, DesktopDone, Round, FilesDone, DataDone, Section, RestoreDone, Unlock, Goto
<1>2. \A d \in Calls : d # c => call'[d] = call[d]
  BY <1>1 DEF Becomes, IInv, TypeOK
<1>3. ASSUME call[c].stage \in {"package", "record", "config", "finish"}
      PROVE  call'[c].stage # "package"
  <2>1. PackageDone(c) \/ RecordDone(c) \/ ConfigDone(c) \/ FinishDone(c)
    BY <1>3 DEF Request, InstallAgents, InstallRuntime, UpdateAgent, UninstallAgent, InstallDesktopAgent,
         ActivateAgent, SaveConversion, Start, Lock, Work, Lookup, Step, RuntimeDone, DesktopDone,
         Round, FilesDone, DataDone, Section, RestoreDone, Unlock
  <2>2. Goto(c, "record") \/ Goto(c, "step") \/ Goto(c, "config") \/ Goto(c, "unlock")
          => call'[c].stage # "package"
    BY Moves DEF Goto, Becomes, IInv, TypeOK, Stages
  <2>3. ASSUME NEW s \in Stages, s # "package", Becomes(c, [Enter(c, s) EXCEPT !.rounds = @ - 1])
        PROVE  call'[c].stage # "package"
    BY <2>3, Moves DEF Becomes, IInv, TypeOK, CallState
  <2>4. Becomes(c, GiveUp(c)) => call'[c].stage # "package"
    BY Moves DEF Becomes, IInv, TypeOK
  <2>5. CASE PackageDone(c)
    <3> DEFINE s == IF call[c].data = "locked" THEN "data" ELSE "unlock"
    <3>1. s \in Stages /\ s # "package"
      BY DEF Stages
    <3>2. \/ Goto(c, "record") \/ Goto(c, "step") \/ Goto(c, "unlock")
          \/ Becomes(c, [Enter(c, s) EXCEPT !.rounds = @ - 1])
          \/ Becomes(c, GiveUp(c))
      BY <2>5 DEF PackageDone
    <3> HIDE DEF s
    <3> QED  BY <2>2, <2>3, <2>4, <3>1, <3>2
  <2>6. CASE RecordDone(c) \/ ConfigDone(c) \/ FinishDone(c)
    BY <2>2, <2>6 DEF RecordDone, ConfigDone, FinishDone
  <2> QED  BY <2>1, <2>5, <2>6
<1> QED  BY <1>2, <1>3 DEF Writing

\* The mapped permissions name the calls that write and mutate, of which there
\* is one each.
Mapped ==
  /\ \A c, d \in Calls : Writing(c) /\ Writing(d) => c = d
  /\ \A c \in Calls : Writing(c) => writer = c
  /\ (\A c \in Calls : ~Writing(c)) => writer = Free
  /\ mutator = [a \in Agents |-> mutator[a]]
  /\ \A a \in Agents : /\ \A c, d \in Calls : Mutating(c, a) /\ Mutating(d, a) => c = d
                       /\ \A c \in Calls : Mutating(c, a) => mutator[a] = c
                       /\ (\A c \in Calls : ~Mutating(c, a)) => mutator[a] = Free
  /\ \A c \in Calls : call[c].stage = "package" => \E a \in Agents : Mutating(c, a)

\* The mapped permissions name the calls that use them.
LEMMA Mapping == IInv => Mapped
<1> SUFFICES ASSUME IInv PROVE Mapped
  OBVIOUS
<1>1. \A c, d \in Calls : Writing(c) /\ Writing(d) => c = d
  BY DEF IInv, Fit, FitWriter, Writing, Held
<1>2. \A c, d \in Calls, a \in Agents : Mutating(c, a) /\ Mutating(d, a) => c = d
  BY DEF IInv, Fit, FitAgents, Mutating, Held
<1>3. \A c \in Calls : Writing(c) => writer = c
  BY <1>1 DEF writer
<1>4. \A a \in Agents, c \in Calls : Mutating(c, a) => mutator[a] = c
  BY <1>2 DEF mutator
<1>5. \A c \in Calls : call[c].stage = "package" => \E a \in Agents : Mutating(c, a)
  BY DEF IInv, TypeOK, CallState, Mutating
<1> QED  BY <1>1, <1>2, <1>3, <1>4, <1>5 DEF Mapped, writer, mutator

\* A step of the locks is a step of TargetExclusion, or changes none of its permissions.
LEMMA StepRefines ==
  ASSUME IInv, Mapped, Mapped', NEW c \in Calls, Request(c) \/ Lock(c) \/ Work(c)
  PROVE  [Exclusion!Next]_(Exclusion!vars)
<1>1. /\ \A d \in Calls : d # c => call'[d] = call[d]
      /\ call[c].stage = "package" \/ Writing(c) => call'[c].stage # "package"
  BY OneCall
<1>2. \A d \in Calls : d # c => /\ Writing(d)' <=> Writing(d)
                               /\ \A a \in Agents : Mutating(d, a)' <=> Mutating(d, a)
  BY <1>1 DEF Writing, Mutating
<1>3. \/ writer' = writer /\ (Writing(c)' <=> Writing(c))
      \/ ~Writing(c) /\ writer = Free /\ writer' = c
      \/ Writing(c) /\ writer = c /\ writer' = Free
  BY <1>2 DEF Mapped
<1>4. \A a \in Agents :
        \/ mutator'[a] = mutator[a] /\ (Mutating(c, a)' <=> Mutating(c, a))
        \/ ~Mutating(c, a) /\ Mutating(c, a)' /\ mutator[a] = Free /\ mutator'[a] = c
        \/ Mutating(c, a) /\ ~Mutating(c, a)' /\ mutator[a] = c /\ mutator'[a] = Free
  BY <1>2 DEF Mapped
<1>5. \A a, b \in Agents : (Mutating(c, a) /\ Mutating(c, b) => a = b)
                         /\ (Mutating(c, a)' /\ Mutating(c, b)' => a = b)
  BY DEF Mutating
<1>6. CASE call[c].stage = "package"
  <2>1. PICK a \in Agents : Mutating(c, a)
    BY <1>6 DEF Mapped
  <2>2. \A b \in Agents : ~Mutating(c, b)'
    BY <1>1, <1>6 DEF Mutating
  <2>3. mutator[a] = c /\ mutator' = [mutator EXCEPT ![a] = Free]
    BY <1>4, <1>5, <2>1, <2>2 DEF Mapped
  <2>4. ~Writing(c)
    BY <1>6 DEF Writing
  <2>5. Exclusion!DropPackage(c, a) /\ (UNCHANGED writer \/ Exclusion!TakeWriter(c))
    BY <1>3, <2>3, <2>4 DEF Exclusion!DropPackage, Exclusion!TakeWriter
  <2> QED  BY <2>5 DEF Exclusion!Next
<1>7. CASE call'[c].stage = "package"
  <2>1. PICK a \in Agents : Mutating(c, a)'
    BY <1>7 DEF Mapped
  <2>2. \A b \in Agents : ~Mutating(c, b)
    BY <1>1, <1>7 DEF Mutating
  <2>3. mutator[a] = Free /\ mutator' = [mutator EXCEPT ![a] = c]
    BY <1>4, <1>5, <2>1, <2>2 DEF Mapped
  <2>4. ~Writing(c)' /\ ~Writing(c)
    BY <1>1, <1>7 DEF Writing
  <2>5. Exclusion!TakePackage(c, a) /\ UNCHANGED writer
    BY <1>2, <2>3, <2>4 DEF Exclusion!TakePackage, Mapped
  <2> QED  BY <2>5 DEF Exclusion!Next
<1>8. CASE call[c].stage # "package" /\ call'[c].stage # "package"
  <2>1. UNCHANGED mutator
    BY <1>4, <1>8 DEF Mutating, Mapped
  <2>2. UNCHANGED writer \/ Exclusion!TakeWriter(c) \/ Exclusion!DropWriter(c)
    BY <1>3 DEF Exclusion!TakeWriter, Exclusion!DropWriter
  <2> QED  BY <2>1, <2>2 DEF Exclusion!Next, Exclusion!vars
<1> QED  BY <1>6, <1>7, <1>8

\* The locks keep the promise of TargetExclusion: one writer of records and
\* configuration files, one package manager per Agent.
THEOREM Refinement == Spec => ExclusionSpec
<1>1. Init => Exclusion!Init
  <2> SUFFICES ASSUME Init PROVE Exclusion!Init
    OBVIOUS
  <2>1. \A c \in Calls : call[c].stage = "idle"
    BY DEF Init, Idle
  <2> QED  BY <2>1 DEF Exclusion!Init, writer, mutator, Writing, Mutating
<1>2. IInv /\ Mapped /\ Mapped' /\ [Next]_vars => [Exclusion!Next]_(Exclusion!vars)
  <2>1. ASSUME IInv, Mapped, Mapped', Next PROVE [Exclusion!Next]_(Exclusion!vars)
    BY <2>1, StepRefines DEF Next
  <2>2. ASSUME UNCHANGED vars PROVE [Exclusion!Next]_(Exclusion!vars)
    BY <2>2 DEF vars, Exclusion!vars, writer, mutator, Writing, Mutating
  <2> QED  BY <2>1, <2>2
<1>3. Spec => []Mapped
  BY Invariance, Mapping, PTL
<1> QED  BY <1>1, <1>2, <1>3, Invariance, PTL DEF Spec, ExclusionSpec, Exclusion!Spec
=============================================================================
