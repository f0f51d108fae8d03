------------------------- MODULE InstallationsProofs ------------------------
(***************************************************************************)
(* Theorems about Installations, for any number of calls, npm's, prefixes  *)
(* and copies.                                                             *)
(***************************************************************************)
EXTENDS Installations, TLAPS

Whole == {"files", "marker"}
Early == Bootstraps \cup {"boot", "package"}
Leads(npm) == packages[PrefixOf[npm]] = 2

\* What a call that brings the runtime has in hand and has put in place.
Bootstrapped(r) ==
  /\ r.pc = "stage" => r.parts \in {{"files"}, {"escape"}}
  /\ r.pc \in {"aside", "publish", "clean"} => r.parts = Whole
  /\ r.pc = "publish" => runtime.tree = {}
  /\ r.pc = "clean" => runtime.tree = Whole

\* What an install knows of the package it placed.
Placed(r) ==
  /\ r.pc \in Early => ~r.placed
  /\ r.pc = "record" => r.npm # None /\ Leads(r.npm)
  /\ r.pc \in {"record", "login"} /\ r.placed /\ r.npm = Own => Managed /\ packages[Global] = 2
  /\ r.pc \in {"login", "configure", "done"} /\ r.placed => record # None /\ Leads(record.npm)
  /\ r.pc \in {"configure", "done"} /\ r.placed /\ r.npm = Own => {"runtime", "global"} \subseteq login

\* What an uninstall has left to do, and whose copy it is about to remove.
Chosen(r) ==
  /\ r.ids \subseteq r.todo \cup r.gone /\ r.todo \subseteq r.ids
  /\ r.pc = "remove" => /\ r.id # None /\ r.at \in Prefixes \ Odd
                        /\ r.at \in r.ids \/ AtHand \in r.ids \/ r.cross
  /\ r.pc = "wipe" => r.wipe /\ r.ids \subseteq r.gone

Fits(r) ==
  /\ r.op \in Installs => Bootstrapped(r)
  /\ r.op = "install" => Placed(r)
  /\ r.op = "uninstall" => Chosen(r)

Exclusive ==
  /\ \A c, d \in Procs : HoldsWriter(c) /\ HoldsWriter(d) => c = d
  /\ \A c, d \in Procs : HoldsAgent(c) /\ HoldsAgent(d) => c = d

Files ==
  /\ runtime \in [tree : SUBSET Parts, backup : SUBSET Parts, orphan : BOOLEAN]
  /\ packages \in [Prefixes -> 0..2]
  /\ record \in {None} \cup [npm : Npms \cup {Own}, prefix : Prefixes]
  /\ data \in BOOLEAN /\ login \subseteq {"runtime", "global"}
  /\ session \in [npm : Npms \cup {None}, global : BOOLEAN]
  /\ made \in 0..MaxCalls
  /\ MarkedIsWhole
  /\ "marker" \in runtime.backup => runtime.backup = Whole

IInv ==
  /\ Files /\ Exclusive
  /\ calls \in [Procs -> Call] /\ \A c \in Procs : Fits(calls[c])
-----------------------------------------------------------------------------
(* Records.                                                                *)

\* The operation of a call tells the form of its record.
LEMMA Forms ==
  ASSUME NEW r \in Call
  PROVE  /\ r.op = "install" => r \in Installing
         /\ r.op = "runtime" => r \in Bootstrapping
         /\ r.op = "update" => r \in Updating
         /\ r.op = "uninstall" => r \in Uninstalling
         /\ r.op = "idle" <=> r = Idle
         /\ r.op \in {"idle", "install", "runtime", "update", "uninstall"}
BY DEF Call, Idle, Installing, Bootstrapping, Updating, Uninstalling

\* A call that is nobody's.
LEMMA IdleFits == Idle \in Call /\ Idle.op = "idle" /\ Idle.pc = "none" /\ Fits(Idle)
BY DEF Call, Idle, Fits, Installs

\* A stage is changed, and nothing else of an install.
LEMMA InstallStage ==
  ASSUME NEW r \in Installing, NEW p \in Bootstraps \cup {"boot", "package", "record", "login", "configure", "done"}
  PROVE  LET s == [r EXCEPT !.pc = p] IN
         /\ s \in Installing /\ s.pc = p /\ s.op = "install" /\ s.npm = r.npm /\ s.parts = r.parts
         /\ s.placed = r.placed
BY DEF Installing

\* ... of the bootstrap of a runtime alone.
LEMMA RuntimeStage ==
  ASSUME NEW r \in Bootstrapping, NEW p \in Bootstraps \cup {"login", "done"}
  PROVE  LET s == [r EXCEPT !.pc = p] IN s \in Bootstrapping /\ s.pc = p /\ s.op = "runtime" /\ s.parts = r.parts
BY DEF Bootstrapping

\* ... of an uninstall.
LEMMA UninstallStage ==
  ASSUME NEW r \in Uninstalling, NEW p \in {"check", "remove", "wipe", "done"}
  PROVE  LET s == [r EXCEPT !.pc = p] IN
         /\ s \in Uninstalling /\ s.pc = p /\ s.op = "uninstall" /\ s.ids = r.ids /\ s.todo = r.todo /\ s.id = r.id
         /\ s.at = r.at /\ s.gone = r.gone /\ s.cross = r.cross /\ s.wipe = r.wipe
BY DEF Uninstalling
-----------------------------------------------------------------------------
(* Steps of one call.                                                      *)

Agents(r) == r.op \in {"install", "update"} \/ (r.op = "uninstall" /\ r.id # None)

\* A call that goes on changes its own record.
LEMMA Going ==
  ASSUME IInv, NEW c \in Procs, NEW r \in Call, Goes(c, r)
  PROVE  /\ calls' \in [Procs -> Call] /\ calls'[c] = r
         /\ \A d \in Procs : d # c => calls'[d] = calls[d]
BY DEF IInv, Goes

\* What other calls know stays true: who changes the runtime, the record or the login PATH
\* holds writeMu, who changes a package holds the Agent.
LEMMA OthersFit ==
  ASSUME IInv, NEW c \in Procs, NEW d \in Procs, d # c, NEW k, k = calls[d],
         UNCHANGED <<runtime, record, login>> \/ HoldsWriter(c),
         UNCHANGED packages \/ HoldsAgent(c)
  PROVE  Fits(k)'
<1>1. k.op \in Installs => UNCHANGED <<runtime, record, login>>
  BY DEF IInv, Exclusive, HoldsWriter, Installs
<1>2. k.op = "install" => UNCHANGED packages
  BY DEF IInv, Exclusive, HoldsAgent
<1>3. Fits(k)
  BY DEF IInv
<1>4. k.op \in Installs /\ Bootstrapped(k) => Bootstrapped(k)'
  BY <1>1 DEF Bootstrapped
<1>5. k.op = "install" /\ Placed(k) => Placed(k)'
  BY <1>1, <1>2 DEF Placed, Leads, Managed, Installs
<1>6. Chosen(k) => Chosen(k)'
  BY DEF Chosen
<1>. QED
  BY <1>3, <1>4, <1>5, <1>6 DEF Fits

\* A step of one call keeps the invariant when the call it becomes fits, and takes a mutex
\* only if it is free.
LEMMA Stepping ==
  ASSUME IInv, NEW c \in Procs, NEW r \in Call, Goes(c, r), Files', Fits(r)',
         r.op \in {"install", "runtime"} => HoldsWriter(c) \/ WriterFree,
         Agents(r) => HoldsAgent(c) \/ AgentFree,
         UNCHANGED <<runtime, record, login>> \/ HoldsWriter(c),
         UNCHANGED packages \/ HoldsAgent(c)
  PROVE  IInv'
<1>1. /\ calls' \in [Procs -> Call] /\ calls'[c] = r
      /\ \A d \in Procs : d # c => calls'[d] = calls[d]
  BY Going
<1>2. \A d \in Procs : d # c => (HoldsWriter(d)' <=> HoldsWriter(d)) /\ (HoldsAgent(d)' <=> HoldsAgent(d))
  BY <1>1 DEF HoldsWriter, HoldsAgent
<1>3. (HoldsWriter(c)' => HoldsWriter(c) \/ WriterFree) /\ (HoldsAgent(c)' => HoldsAgent(c) \/ AgentFree)
  BY <1>1 DEF HoldsWriter, HoldsAgent, Agents
<1>4. Exclusive'
  BY <1>2, <1>3 DEF IInv, Exclusive, WriterFree, AgentFree
<1>5. ASSUME NEW d \in Procs
      PROVE  Fits(calls[d])'
  <2>1. CASE d = c
    BY <1>1, <2>1
  <2>2. CASE d # c
    <3>1. PICK k : k = calls[d]
      OBVIOUS
    <3>2. Fits(k)'
      BY <2>2, <3>1, OthersFit
    <3>. QED
      BY <1>1, <2>2, <3>1, <3>2
  <2>. QED
    BY <2>1, <2>2
<1>. QED
  BY <1>1, <1>4, <1>5 DEF IInv

\* A call that stays what it is, next to what stays as it is.
LEMMA SameFiles ==
  ASSUME IInv, UNCHANGED <<runtime, packages, record, data, login, session, made>>
  PROVE  Files'
BY DEF IInv, Files, MarkedIsWhole, Managed

\* A call that is given up.
LEMMA Ending ==
  ASSUME IInv, NEW c \in Procs, Goes(c, Idle), Files',
         UNCHANGED <<runtime, record, login>> \/ HoldsWriter(c),
         UNCHANGED packages \/ HoldsAgent(c)
  PROVE  IInv'
<1>1. Idle \in Call /\ ~Agents(Idle) /\ Idle.op \notin {"install", "runtime"} /\ Fits(Idle)'
  BY DEF Call, Idle, Agents, Fits, Installs
<1>. QED
  BY <1>1, Stepping

\* A call that failed, or is done.
LEMMA ReturnSteps ==
  ASSUME IInv, NEW c \in Procs, Fails(c) \/ Return(c)
  PROVE  IInv'
BY SameFiles, Ending DEF Fails, Return
-----------------------------------------------------------------------------
(* Calls begin.                                                            *)

\* The npm at hand.
LEMMA NpmTyped == ASSUME IInv PROVE Npm \in Npms \cup {Own, None} /\ (Npm = Own <=> Managed)
BY InstallationsAssumption DEF IInv, Files, Npm

\* A call that begins takes its mutexes only if they are free.
LEMMA BeginStep ==
  ASSUME IInv, NEW c \in Procs, NEW r \in Call, Begin(c, r), Fits(r),
         r.op \in {"install", "runtime"} => WriterFree,
         Agents(r) => AgentFree
  PROVE  IInv'
<1>1. Goes(c, r) /\ UNCHANGED <<runtime, packages, record, data, login, session>> /\ made' \in 0..MaxCalls
  BY InstallationsAssumption DEF Begin, IInv, Files
<1>2. Files'
  BY <1>1 DEF IInv, Files, MarkedIsWhole, Managed
<1>3. Fits(r)'
  BY <1>1 DEF Fits, Bootstrapped, Placed, Chosen, Managed, Leads
<1>. QED
  BY <1>1, <1>2, <1>3, Stepping

\* An install, a runtime, an update.
LEMMA BeginSteps ==
  ASSUME IInv, NEW c \in Procs, InstallAgents(c) \/ InstallRuntime(c) \/ UpdateAgent(c)
  PROVE  IInv'
<1>1. CASE InstallAgents(c)
  <2>1. PICK pinned \in BOOLEAN : Begin(c, [op |-> "install", pc |-> "manager", pinned |-> pinned, npm |-> Npm,
                                           parts |-> {}, placed |-> FALSE])
    BY <1>1 DEF InstallAgents
  <2>2. PICK n \in Npms \cup {Own, None} : n = Npm
    BY NpmTyped
  <2>3. PICK r : r = [op |-> "install", pc |-> "manager", pinned |-> pinned, npm |-> n, parts |-> {}, placed |-> FALSE]
    OBVIOUS
  <2>4. r \in Call
    BY <2>3 DEF Call, Installing, Bootstraps
  <2>5. Fits(r)
    BY <2>3 DEF Fits, Bootstrapped, Placed, Installs
  <2>. QED
    BY <1>1, <2>1, <2>2, <2>3, <2>4, <2>5, BeginStep DEF InstallAgents
<1>2. CASE InstallRuntime(c)
  <2>1. PICK r : r = [op |-> "runtime", pc |-> "manager", parts |-> {}]
    OBVIOUS
  <2>2. r \in Call /\ Fits(r) /\ ~Agents(r)
    BY <2>1 DEF Call, Bootstrapping, Bootstraps, Fits, Bootstrapped, Installs, Agents
  <2>. QED
    BY <1>2, <2>1, <2>2, BeginStep DEF InstallRuntime
<1>3. CASE UpdateAgent(c)
  <2>1. PICK n \in Npms \cup {Own} : n = Npm
    BY <1>3, NpmTyped DEF UpdateAgent
  <2>2. PICK r : r = [op |-> "update", pc |-> "package", npm |-> n]
    OBVIOUS
  <2>3. r \in Call /\ Fits(r) /\ r.op = "update"
    BY <2>2 DEF Call, Updating, Fits, Installs
  <2>. QED
    BY <1>3, <2>1, <2>2, <2>3, BeginStep DEF UpdateAgent
<1>. QED
  BY <1>1, <1>2, <1>3

\* PATH reaches prefixes only.
LEMMA DiscoveredTyped == Discovered \subseteq Prefixes
<1>1. Global \in Prefixes
  BY InstallationsAssumption DEF Global
<1>. QED
  BY <1>1, InstallationsAssumption DEF Discovered, Reached

\* An uninstall: what is chosen is to be removed.
LEMMA BeginUninstall ==
  ASSUME IInv, NEW c \in Procs, UninstallAgent(c)
  PROVE  IInv'
<1>1. PICK cross \in BOOLEAN, wipe \in BOOLEAN, some \in Choices :
        LET ids == IF some # {} THEN some ELSE IF Discovered # {} THEN Discovered ELSE {AtHand} IN
        Begin(c, [op |-> "uninstall", pc |-> "check", ids |-> ids, todo |-> ids, id |-> None, at |-> None,
                  cross |-> cross, wipe |-> wipe, gone |-> {}])
  BY DEF UninstallAgent
<1>2. PICK ids : ids = IF some # {} THEN some ELSE IF Discovered # {} THEN Discovered ELSE {AtHand}
  OBVIOUS
<1>6. ids \in SUBSET Ids
  BY <1>2, DiscoveredTyped DEF Choices, Ids
<1>3. PICK r : r = [op |-> "uninstall", pc |-> "check", ids |-> ids, todo |-> ids, id |-> None, at |-> None,
                    cross |-> cross, wipe |-> wipe, gone |-> {}]
  OBVIOUS
<1>4. r \in Call
  BY <1>3, <1>6 DEF Call, Uninstalling
<1>5. Fits(r) /\ ~Agents(r) /\ r.op = "uninstall"
  BY <1>3 DEF Fits, Chosen, Agents, Installs
<1>7. Begin(c, r)
  BY <1>1, <1>2, <1>3
<1>. QED
  BY <1>4, <1>5, <1>7, BeginStep
-----------------------------------------------------------------------------
(* The bootstrap of the runtime.                                           *)

\* The stages of a call that brings the runtime, and the call it becomes in one of them.
Stages(op) == Bootstraps \cup {"login", "done"} \cup (IF op = "install" THEN {"boot", "package", "configure"} ELSE {})
Moved(r, p, q) == [r EXCEPT !.pc = p, !.parts = q]

\* A call that brings the runtime goes to another stage of it, with other parts in hand.
LEMMA MovedFits ==
  ASSUME NEW r \in Call, r.op \in Installs, NEW q \in SUBSET Parts, NEW p \in Stages(r.op), NEW s, s = Moved(r, p, q)
  PROVE  /\ s \in Call /\ s.pc = p /\ s.parts = q /\ s.op = r.op
         /\ r.op = "install" => s.npm = r.npm
         /\ r.op = "install" /\ ~r.placed => ~s.placed
         /\ r.op = "install" /\ s.placed => r.placed
<1>1. CASE r \in Installing
  <2>1. s \in Installing
    BY <1>1 DEF Installing, Moved, Stages
  <2>. QED
    BY <1>1, <2>1 DEF Installing, Call, Moved
<1>2. CASE r \in Bootstrapping
  BY <1>2 DEF Bootstrapping, Call, Moved, Stages
<1>. QED
  BY <1>1, <1>2, Forms DEF Installs

\* The parts in hand stay when only the stage is named.
LEMMA SameParts ==
  ASSUME NEW r \in Call, r.op \in Installs
  PROVE  /\ r.parts \in SUBSET Parts
         /\ \A p : [r EXCEPT !.pc = p] = Moved(r, p, r.parts)
<1>1. CASE r \in Installing
  BY <1>1 DEF Installing, Moved
<1>2. CASE r \in Bootstrapping
  BY <1>2 DEF Bootstrapping, Moved
<1>. QED
  BY <1>1, <1>2, Forms DEF Installs

\* A step of a call that brings the runtime: it holds writeMu.
LEMMA Booting ==
  ASSUME IInv, NEW c \in Procs, calls[c].op \in Installs, NEW s \in Call, s.op = calls[c].op,
         Goes(c, s), Files', Bootstrapped(s)', s.op = "install" => Placed(s)',
         UNCHANGED packages
  PROVE  IInv'
<1>1. HoldsWriter(c) /\ (Agents(s) => HoldsAgent(c))
  BY DEF HoldsWriter, HoldsAgent, Agents, Installs
<1>2. Fits(s)'
  BY DEF Fits, Installs
<1>. QED
  BY <1>1, <1>2, Stepping

\* What a call knows of itself.
LEMMA Known ==
  ASSUME IInv, NEW c \in Procs, calls[c].op \in Installs
  PROVE  /\ calls[c] \in Call /\ Bootstrapped(calls[c])
         /\ calls[c].op = "install" => Placed(calls[c])
BY DEF IInv, Fits

\* Looking for Node, and the download of its archive.
LEMMA ManagerSteps ==
  ASSUME IInv, NEW c \in Procs, Manager(c) \/ Fetch(c) \/ Stage(c)
  PROVE  IInv'
<1>1. calls[c].op \in Installs /\ Files'
  BY SameFiles DEF Manager, Fetch, Stage, At
<1>2. PICK r \in Call : r = calls[c]
  BY <1>1, Known
<1>3. r.op \in Installs /\ Bootstrapped(r) /\ (r.op = "install" => Placed(r))
  BY <1>1, <1>2, Known
<1>4. r.op = "install" => ~r.placed
  BY <1>2, <1>3 DEF Manager, Fetch, Stage, At, Placed, Early, Bootstraps
<1>5. CASE Manager(c)
  <2>1. PICK p \in {"fetch", "package", "login"} : To(c, p) /\ (r.op = "runtime" => p # "package")
                                                /\ (r.op = "install" => p # "login")
    BY <1>2, <1>3, <1>5 DEF Manager, AfterManager, Installs
  <2>2. PICK s : s = Moved(r, p, r.parts)
    OBVIOUS
  <2>3. Goes(c, s)
    BY <1>2, <1>3, <2>1, <2>2, SameParts DEF To
  <2>4. s \in Call /\ s.pc = p /\ s.op = r.op /\ (r.op = "install" => ~s.placed)
    <3>1. r.parts \in SUBSET Parts /\ p \in Stages(r.op)
      BY <1>3, <2>1, SameParts DEF Stages, Bootstraps, Installs
    <3>. QED
      BY <1>3, <1>4, <2>2, <3>1, MovedFits
  <2>5. Bootstrapped(s)' /\ (s.op = "install" => Placed(s)')
    BY <2>1, <2>4 DEF Bootstrapped, Placed, Early
  <2>. QED
    BY <1>1, <1>2, <1>5, <2>3, <2>4, <2>5, Booting DEF Manager
<1>6. CASE Fetch(c)
  <2>1. PICK served \in {"files", "escape"} : Goes(c, [calls[c] EXCEPT !.pc = "stage", !.parts = {served}])
    BY <1>6 DEF Fetch, Verified
  <2>2. PICK s : s = Moved(r, "stage", {served})
    OBVIOUS
  <2>4. s \in Call /\ s.pc = "stage" /\ s.parts = {served} /\ s.op = r.op /\ (r.op = "install" => ~s.placed)
    <3>1. {served} \in SUBSET Parts /\ "stage" \in Stages(r.op)
      BY DEF Stages, Bootstraps, Parts
    <3>. QED
      BY <1>3, <1>4, <2>2, <3>1, MovedFits
  <2>5. Bootstrapped(s)' /\ (s.op = "install" => Placed(s)')
    BY <2>4 DEF Bootstrapped, Placed, Early
  <2>. QED
    BY <1>1, <1>2, <1>6, <2>1, <2>2, <2>4, <2>5, Booting DEF Fetch, Moved
<1>7. CASE Stage(c)
  <2>1. r.parts = {"files"}
    BY <1>2, <1>3, <1>7 DEF Stage, At, Bootstrapped, Extracts
  <2>2. PICK s : s = Moved(r, "aside", Whole)
    OBVIOUS
  <2>3. Goes(c, s)
    BY <1>2, <1>7, <2>1, <2>2 DEF Stage, Whole, Moved
  <2>4. s \in Call /\ s.pc = "aside" /\ s.parts = Whole /\ s.op = r.op /\ (r.op = "install" => ~s.placed)
    <3>1. Whole \in SUBSET Parts /\ "aside" \in Stages(r.op)
      BY DEF Stages, Bootstraps, Parts, Whole
    <3>. QED
      BY <1>3, <1>4, <2>2, <3>1, MovedFits
  <2>5. Bootstrapped(s)' /\ (s.op = "install" => Placed(s)')
    BY <2>4 DEF Bootstrapped, Placed, Early
  <2>. QED
    BY <1>1, <1>2, <1>7, <2>3, <2>4, <2>5, Booting DEF Stage
<1>. QED
  BY <1>5, <1>6, <1>7

\* The old directory moves aside.
LEMMA AsideStep ==
  ASSUME IInv, NEW c \in Procs, Aside(c)
  PROVE  IInv'
<1>1. calls[c].op \in Installs
  BY DEF Aside, At
<1>2. PICK r \in Call : r = calls[c]
  BY <1>1, Known
<1>3. r.op \in Installs /\ r.parts = Whole /\ (r.op = "install" => ~r.placed)
  BY <1>1, <1>2, Known DEF Aside, At, Bootstrapped, Placed, Early, Bootstraps
<1>4. runtime' \in [tree : SUBSET Parts, backup : SUBSET Parts, orphan : BOOLEAN] /\ runtime'.tree = {}
      /\ runtime'.backup \in {runtime.backup, runtime.tree}
  BY DEF Aside, SetAside, IInv, Files
<1>5. Files'
  BY <1>4 DEF Aside, IInv, Files, MarkedIsWhole, Managed, Whole
<1>6. PICK s : s = Moved(r, "publish", r.parts)
  OBVIOUS
<1>7. Goes(c, s)
  BY <1>2, <1>3, <1>6, SameParts DEF Aside, To
<1>8. s \in Call /\ s.pc = "publish" /\ s.parts = Whole /\ s.op = r.op /\ (r.op = "install" => ~s.placed)
  <2>1. r.parts \in SUBSET Parts /\ "publish" \in Stages(r.op)
    BY <1>3, SameParts DEF Stages, Bootstraps
  <2>. QED
    BY <1>3, <1>6, <2>1, MovedFits
<1>9. Bootstrapped(s)' /\ (s.op = "install" => Placed(s)')
  BY <1>4, <1>8 DEF Bootstrapped, Placed, Early
<1>. QED
  BY <1>1, <1>2, <1>5, <1>7, <1>8, <1>9, Booting DEF Aside

\* A sibling that is left behind is no backup any more.
LEMMA OrphanedTyped ==
  ASSUME IInv
  PROVE  LET o == Orphaned(runtime) IN
         /\ o \in [tree : SUBSET Parts, backup : SUBSET Parts, orphan : BOOLEAN]
         /\ o.tree = runtime.tree /\ o.backup = {}
BY DEF IInv, Files, Orphaned

\* The new directory takes the place, or the old one gets it back, or nobody does.
LEMMA PublishStep ==
  ASSUME IInv, NEW c \in Procs, Publish(c)
  PROVE  IInv'
<1>1. calls[c].op \in Installs
  BY DEF Publish, At
<1>2. PICK r \in Call : r = calls[c]
  BY <1>1, Known
<1>3. r.op \in Installs /\ r.parts = Whole /\ runtime.tree = {} /\ (r.op = "install" => ~r.placed)
  BY <1>1, <1>2, Known DEF Publish, At, Bootstrapped, Placed, Early, Bootstraps
<1>4. CASE runtime' = [runtime EXCEPT !.tree = calls[c].parts] /\ To(c, "clean")
  <2>1. runtime' \in [tree : SUBSET Parts, backup : SUBSET Parts, orphan : BOOLEAN] /\ runtime'.tree = Whole
        /\ runtime'.backup = runtime.backup
    BY <1>2, <1>3, <1>4 DEF IInv, Files, Whole, Parts
  <2>2. Files'
    BY <2>1 DEF Publish, IInv, Files, MarkedIsWhole, Managed, Whole
  <2>3. PICK s : s = Moved(r, "clean", r.parts)
    OBVIOUS
  <2>4. Goes(c, s)
    BY <1>2, <1>3, <1>4, <2>3, SameParts DEF To
  <2>5. s \in Call /\ s.pc = "clean" /\ s.parts = Whole /\ s.op = r.op /\ (r.op = "install" => ~s.placed)
    <3>1. r.parts \in SUBSET Parts /\ "clean" \in Stages(r.op)
      BY <1>3, SameParts DEF Stages, Bootstraps
    <3>. QED
      BY <1>3, <2>3, <3>1, MovedFits
  <2>6. Bootstrapped(s)' /\ (s.op = "install" => Placed(s)')
    BY <2>1, <2>5 DEF Bootstrapped, Placed, Early
  <2>. QED
    BY <1>1, <1>2, <2>2, <2>4, <2>5, <2>6, Booting DEF Publish
<1>5. CASE runtime' = [runtime EXCEPT !.tree = @ \cup runtime.backup, !.backup = {}] /\ Goes(c, Idle)
  <2>1. runtime' \in [tree : SUBSET Parts, backup : SUBSET Parts, orphan : BOOLEAN]
        /\ runtime'.tree = runtime.backup /\ runtime'.backup = {}
    BY <1>3, <1>5 DEF IInv, Files
  <2>2. Files'
    BY <2>1 DEF Publish, IInv, Files, MarkedIsWhole, Managed, Whole
  <2>. QED
    BY <1>1, <1>5, <2>2, Ending DEF Publish, HoldsWriter, Installs
<1>6. CASE runtime' = Orphaned(runtime) /\ Goes(c, Idle)
  <2>1. Files'
    BY <1>3, <1>6, OrphanedTyped DEF Publish, IInv, Files, MarkedIsWhole, Managed, Whole
  <2>. QED
    BY <1>1, <1>6, <2>1, Ending DEF Publish, HoldsWriter, Installs
<1>. QED
  BY <1>4, <1>5, <1>6 DEF Publish

\* The old directory goes.
LEMMA CleanStep ==
  ASSUME IInv, NEW c \in Procs, Clean(c)
  PROVE  IInv'
<1>1. calls[c].op \in Installs
  BY DEF Clean, At
<1>2. PICK r \in Call : r = calls[c]
  BY <1>1, Known
<1>3. r.op \in Installs /\ runtime.tree = Whole /\ (r.op = "install" => ~r.placed)
  BY <1>1, <1>2, Known DEF Clean, At, Bootstrapped, Placed, Early, Bootstraps
<1>4. CASE runtime' = [runtime EXCEPT !.backup = {}] /\ To(c, IF calls[c].op = "install" THEN "boot" ELSE "login")
  <2>1. runtime' \in [tree : SUBSET Parts, backup : SUBSET Parts, orphan : BOOLEAN] /\ runtime'.tree = Whole
        /\ runtime'.backup = {}
    BY <1>3, <1>4 DEF IInv, Files
  <2>2. Files'
    BY <2>1 DEF Clean, IInv, Files, MarkedIsWhole, Managed, Whole
  <2>3. PICK p \in {"boot", "login"} : To(c, p) /\ (r.op = "install" => p = "boot") /\ (r.op = "runtime" => p = "login")
    BY <1>2, <1>4
  <2>4. PICK s : s = Moved(r, p, r.parts)
    OBVIOUS
  <2>5. Goes(c, s)
    BY <1>2, <1>3, <2>3, <2>4, SameParts DEF To
  <2>6. s \in Call /\ s.pc = p /\ s.op = r.op /\ (r.op = "install" => ~s.placed)
    <3>1. r.parts \in SUBSET Parts /\ p \in Stages(r.op)
      BY <1>3, <2>3, SameParts DEF Stages, Bootstraps, Installs
    <3>. QED
      BY <1>3, <2>4, <3>1, MovedFits
  <2>7. Bootstrapped(s)' /\ (s.op = "install" => Placed(s)')
    BY <2>3, <2>6 DEF Bootstrapped, Placed, Early
  <2>. QED
    BY <1>1, <1>2, <2>2, <2>5, <2>6, <2>7, Booting DEF Clean
<1>5. CASE runtime.backup # {} /\ runtime' = Orphaned(runtime) /\ Goes(c, Idle)
  <2>1. Files'
    BY <1>3, <1>5, OrphanedTyped DEF Clean, IInv, Files, MarkedIsWhole, Managed, Whole
  <2>. QED
    BY <1>1, <1>5, <2>1, Ending DEF Clean, HoldsWriter, Installs
<1>. QED
  BY <1>4, <1>5 DEF Clean
-----------------------------------------------------------------------------
(* The rest of an install, and an update.                                  *)

\* PersistRuntimePath: beside a runtime, the managed prefix is named once it has a package.
LEMMA PersistedNames ==
  /\ login \subseteq {"runtime", "global"} => Persisted \subseteq {"runtime", "global"}
  /\ Managed /\ packages[Global] = 2 => {"runtime", "global"} \subseteq Persisted
BY DEF Persisted, PathDirs

LEMMA PersistStep ==
  ASSUME IInv, NEW c \in Procs, Persist(c)
  PROVE  IInv'
<1>1. calls[c].op \in Installs
  BY DEF Persist
<1>2. PICK r \in Call : r = calls[c]
  BY <1>1, Known
<1>3. r.op \in Installs /\ (r.op = "install" => Placed(r)) /\ r.pc \in {"boot", "login"}
  BY <1>1, <1>2, Known DEF Persist
<1>4. Files'
  BY PersistedNames DEF Persist, IInv, Files, MarkedIsWhole, Managed
<1>5. PICK p : p = IF r.pc = "boot" THEN "package" ELSE IF r.op = "runtime" THEN "done" ELSE "configure"
  OBVIOUS
<1>6. PICK s : s = Moved(r, p, r.parts)
  OBVIOUS
<1>7. Goes(c, s)
  BY <1>2, <1>3, <1>5, <1>6, SameParts DEF Persist, To
<1>8. r.op = "install" \/ (r.op = "runtime" /\ r.pc = "login")
  BY <1>3, Forms DEF Installs, Bootstrapping, Bootstraps
<1>9. r.parts \in SUBSET Parts /\ p \in Stages(r.op)
  BY <1>3, <1>5, <1>8, SameParts DEF Stages
<1>10. /\ s \in Call /\ s.pc = p /\ s.parts = r.parts /\ s.op = r.op
       /\ r.op = "install" => s.npm = r.npm
       /\ r.op = "install" /\ ~r.placed => ~s.placed
       /\ r.op = "install" /\ s.placed => r.placed
  BY <1>3, <1>6, <1>9, MovedFits
<1>11. Bootstrapped(s)'
  BY <1>5, <1>8, <1>10 DEF Bootstrapped
<1>12. ASSUME s.op = "install" PROVE Placed(s)'
  <2>1. CASE r.pc = "boot"
    BY <1>3, <1>5, <1>10, <1>12, <2>1 DEF Placed, Early
  <2>2. CASE r.pc = "login"
    <3>1. s.pc = "configure" /\ Placed(r) /\ s.npm = r.npm /\ (s.placed => r.placed)
      BY <1>3, <1>5, <1>10, <1>12, <2>2
    <3>2. s.placed => record' # None /\ Leads(record.npm)'
      BY <2>2, <3>1 DEF Placed, Leads, Persist
    <3>3. s.placed /\ s.npm = Own => {"runtime", "global"} \subseteq login'
      BY <2>2, <3>1, PersistedNames DEF Placed, Persist
    <3>. QED
      BY <3>1, <3>2, <3>3 DEF Placed, Early, Bootstraps
  <2>. QED
    BY <1>3, <2>1, <2>2
<1>. QED
  BY <1>1, <1>2, <1>4, <1>7, <1>10, <1>11, <1>12, Booting DEF Persist

\* npm changes packages, never to one that is less.
LEMMA PackagesTyped ==
  ASSUME IInv, packages' \in [Prefixes -> 0..2], UNCHANGED <<runtime, record, data, login, session, made>>
  PROVE  Files'
BY DEF IInv, Files, MarkedIsWhole, Managed

\* npm installs the package into the prefix of the npm that is recorded next.
LEMMA PackageStep ==
  ASSUME IInv, NEW c \in Procs, Package(c)
  PROVE  IInv'
<1>1. calls[c].op = "install" /\ calls[c].pc = "package"
  BY DEF Package, At
<1>2. PICK r \in Call : r = calls[c]
  BY <1>1, Known DEF Installs
<1>3. r \in Installing /\ r.op = "install" /\ ~r.placed
  BY <1>1, <1>2, Known, Forms DEF Installs, Placed, Early
<1>4. HoldsAgent(c) /\ HoldsWriter(c)
  BY <1>1 DEF HoldsAgent, HoldsWriter
<1>5. PICK n \in Npms \cup {Own, None} : n = Npm
  BY NpmTyped
<1>6. n # None /\ PrefixOf[n] \in Prefixes /\ (n = Own => Managed)
  BY <1>5, NpmTyped, InstallationsAssumption DEF Package
<1>7. CASE To(c, "configure") /\ UNCHANGED packages
  <2>1. PICK s : s = [r EXCEPT !.pc = "configure"]
    OBVIOUS
  <2>2. Goes(c, s) /\ UNCHANGED <<runtime, packages, record, data, login, session, made>>
    BY <1>2, <1>7, <2>1 DEF To, Package
  <2>3. s \in Installing /\ s.pc = "configure" /\ s.op = "install" /\ ~s.placed
    BY <1>3, <2>1, InstallStage
  <2>4. Files'
    BY <2>2, SameFiles
  <2>5. Bootstrapped(s)' /\ Placed(s)'
    BY <2>3 DEF Bootstrapped, Placed, Early, Bootstraps
  <2>. QED
    BY <1>1, <2>2, <2>3, <2>4, <2>5, Booting DEF Installs, Call
<1>8. CASE /\ packages' = [packages EXCEPT ![PrefixOf[Npm]] = 2]
           /\ \/ Goes(c, [calls[c] EXCEPT !.pc = "record", !.npm = Recording(c), !.placed = TRUE])
              \/ Goes(c, Idle)
  <2>1. packages' \in [Prefixes -> 0..2] /\ packages'[PrefixOf[n]] = 2
    BY <1>5, <1>6, <1>8 DEF IInv, Files
  <2>2. Files'
    BY <2>1, PackagesTyped DEF Package
  <2>3. CASE Goes(c, [calls[c] EXCEPT !.pc = "record", !.npm = Recording(c), !.placed = TRUE])
    <3>1. PICK s : s = [r EXCEPT !.pc = "record", !.npm = n, !.placed = TRUE]
      OBVIOUS
    <3>2. Goes(c, s)
      BY <1>2, <1>5, <2>3, <3>1 DEF Recording
    <3>3. s \in Installing
      BY <1>3, <3>1 DEF Installing
    <3>4. s.pc = "record" /\ s.npm = n /\ s.op = "install"
      BY <1>3, <3>1 DEF Installing
    <3>5. Placed(s)'
      BY <1>6, <2>1, <3>4 DEF Placed, Early, Bootstraps, Leads, Managed, Global, Package
    <3>6. Bootstrapped(s)'
      BY <3>4 DEF Bootstrapped
    <3>7. Fits(s)' /\ Agents(s) /\ s \in Call
      BY <3>3, <3>4, <3>5, <3>6 DEF Fits, Agents, Call
    <3>. QED
      BY <1>4, <2>2, <3>2, <3>4, <3>7, Stepping
  <2>4. CASE Goes(c, Idle)
    BY <1>4, <2>2, <2>4, Ending
  <2>. QED
    BY <1>8, <2>3, <2>4
<1>. QED
  BY <1>7, <1>8 DEF Package

\* The record names the npm whose prefix has the package.
LEMMA RecordStep ==
  ASSUME IInv, NEW c \in Procs, Record(c)
  PROVE  IInv'
<1>1. calls[c].op = "install" /\ calls[c].pc = "record"
  BY DEF Record, At
<1>2. PICK r \in Call : r = calls[c]
  BY <1>1, Known DEF Installs
<1>3. r \in Installing /\ Placed(r) /\ r.pc = "record"
  BY <1>1, <1>2, Known, Forms DEF Installs
<1>4. r.npm \in Npms \cup {Own} /\ Leads(r.npm)
  BY <1>3 DEF Installing, Placed
<1>5. record' = Entry(r.npm)
  BY <1>2, <1>4, InstallationsAssumption DEF Record
<1>6. record' \in [npm : Npms \cup {Own}, prefix : Prefixes] /\ record'.npm = r.npm
  BY <1>4, <1>5, InstallationsAssumption DEF Entry
<1>7. record' # None
  BY <1>6, InstallationsAssumption
<1>8. PICK s : s = [r EXCEPT !.pc = "login"]
  OBVIOUS
<1>9. Goes(c, s)
  BY <1>2, <1>8 DEF Record, AfterRecord, To
<1>10. /\ s \in Installing /\ s.pc = "login" /\ s.op = "install" /\ s.npm = r.npm
       /\ s.placed = r.placed
  BY <1>3, <1>8, InstallStage
<1>11. Files'
  BY <1>6 DEF Record, IInv, Files, MarkedIsWhole, Managed
<1>12. r.placed /\ r.npm = Own => Managed' /\ packages'[Global] = 2
  BY <1>3 DEF Placed, Record, Managed, Global
<1>13. Leads(record.npm)'
  BY <1>4, <1>6 DEF Leads, Record
<1>14. Placed(s)' /\ Bootstrapped(s)'
  BY <1>7, <1>10, <1>12, <1>13 DEF Placed, Bootstrapped, Early, Bootstraps
<1>. QED
  BY <1>1, <1>9, <1>10, <1>11, <1>14, Booting DEF Installs, Call, Record

\* The Agent is configured.
LEMMA ConfigureStep ==
  ASSUME IInv, NEW c \in Procs, Configure(c)
  PROVE  IInv'
<1>1. calls[c].op = "install" /\ calls[c].pc = "configure"
  BY DEF Configure, At
<1>2. PICK r \in Call : r = calls[c]
  BY <1>1, Known DEF Installs
<1>3. r \in Installing /\ Placed(r) /\ r.pc = "configure"
  BY <1>1, <1>2, Known, Forms DEF Installs
<1>4. PICK s : s = [r EXCEPT !.pc = "done"]
  OBVIOUS
<1>5. Goes(c, s)
  BY <1>2, <1>4 DEF Configure, To
<1>6. s \in Installing /\ s.pc = "done" /\ s.op = "install" /\ s.npm = r.npm /\ s.placed = r.placed
  BY <1>3, <1>4, InstallStage
<1>7. Files'
  BY DEF Configure, IInv, Files, MarkedIsWhole, Managed
<1>8. Placed(s)' /\ Bootstrapped(s)'
  BY <1>3, <1>6 DEF Placed, Bootstrapped, Early, Bootstraps, Leads, Configure
<1>. QED
  BY <1>1, <1>5, <1>6, <1>7, <1>8, Booting DEF Installs, Call, Configure

\* npm update.
LEMMA UpdateStep ==
  ASSUME IInv, NEW c \in Procs, Update(c)
  PROVE  IInv'
<1>1. calls[c].op = "update"
  BY DEF Update, At
<1>2. PICK r \in Call : r = calls[c]
  BY DEF IInv
<1>3. PICK s : s = [r EXCEPT !.pc = "done"]
  OBVIOUS
<1>4. Goes(c, s)
  BY <1>2, <1>3 DEF Update, To
<1>5. s \in Updating /\ s.op = "update"
  BY <1>1, <1>2, <1>3, Forms DEF Updating
<1>6. packages' \in [Prefixes -> 0..2]
  BY DEF Update, IInv, Files
<1>7. Files'
  BY <1>6, PackagesTyped DEF Update
<1>8. Fits(s)' /\ s \in Call
  BY <1>5 DEF Fits, Installs, Call
<1>9. HoldsAgent(c)
  BY <1>1 DEF HoldsAgent
<1>. QED
  BY <1>4, <1>5, <1>7, <1>8, <1>9, Stepping DEF Update
-----------------------------------------------------------------------------
(* An uninstall.                                                           *)

\* Where a removal may be sent, and on what ground.
LEMMA TargetsChosen ==
  ASSUME IInv, NEW c \in Procs, NEW id \in Ids, Npm # None, NEW p \in Targets(c, id)
  PROVE  p \in Prefixes \ Odd /\ (p = id \/ id = AtHand \/ calls[c].cross)
<1>1. Npm \in Npms \cup {Own}
  BY NpmTyped
<1>2. id # AtHand => id \in Prefixes
  BY DEF Ids
<1>3. PrefixOf[Npm] \in Prefixes
  BY <1>1, InstallationsAssumption
<1>4. PICK own \in Prefixes : own = IF id = AtHand THEN PrefixOf[Npm] ELSE id
  BY <1>2, <1>3
<1>5. CASE Listed(own) /\ p = own
  BY <1>4, <1>5 DEF Listed
<1>6. CASE record # None /\ Cross(c) /\ p = record.prefix /\ Listed(p)
  BY <1>6 DEF Listed, Cross, IInv, Files
<1>. QED
  BY <1>4, <1>5, <1>6 DEF Targets

\* The Agent's mutex is taken, and a removal is aimed.
LEMMA CheckStep ==
  ASSUME IInv, NEW c \in Procs, Check(c)
  PROVE  IInv'
<1>1. calls[c].op = "uninstall" /\ calls[c].pc = "check"
  BY DEF Check, At
<1>2. PICK r \in Call : r = calls[c]
  BY DEF IInv
<1>3. r \in Uninstalling /\ Chosen(r)
  BY <1>1, <1>2, Forms DEF IInv, Fits
<1>4. PICK id \in calls[c].todo : /\ id \in Discovered \cup {AtHand}
        /\ \E p \in Targets(c, id) : Goes(c, [calls[c] EXCEPT !.pc = "remove", !.id = id, !.at = p])
  BY DEF Check
<1>5. PICK p \in Targets(c, id) : Goes(c, [calls[c] EXCEPT !.pc = "remove", !.id = id, !.at = p])
  BY <1>4
<1>6. id \in Ids /\ id \in r.ids /\ id # None
  BY <1>2, <1>3, <1>4, InstallationsAssumption DEF Uninstalling, Chosen, Ids
<1>7. p \in Prefixes \ Odd /\ (p = id \/ id = AtHand \/ r.cross)
  BY <1>2, <1>6, TargetsChosen DEF Check
<1>8. PICK s : s = [r EXCEPT !.pc = "remove", !.id = id, !.at = p]
  OBVIOUS
<1>9. Goes(c, s)
  BY <1>2, <1>5, <1>8
<1>10. s \in Uninstalling
  BY <1>3, <1>6, <1>7, <1>8 DEF Uninstalling
<1>11. /\ s.op = "uninstall" /\ s.pc = "remove" /\ s.id = id /\ s.at = p
       /\ s.ids = r.ids /\ s.todo = r.todo /\ s.gone = r.gone
  BY <1>3, <1>8 DEF Uninstalling
<1>12. s.cross = r.cross
  BY <1>3, <1>8 DEF Uninstalling
<1>13. Chosen(s)'
  BY <1>3, <1>6, <1>7, <1>11, <1>12 DEF Chosen
<1>14. Fits(s)' /\ s \in Call
  BY <1>10, <1>11, <1>13 DEF Fits, Installs, Call
<1>15. Files' /\ AgentFree
  BY SameFiles DEF Check
<1>. QED
  BY <1>9, <1>11, <1>14, <1>15, Stepping DEF Check

\* The copy goes; what was to be removed is gone, or is left to do.
LEMMA RemoveStep ==
  ASSUME IInv, NEW c \in Procs, Remove(c)
  PROVE  IInv'
<1>1. calls[c].op = "uninstall" /\ calls[c].pc = "remove"
  BY DEF Remove, At
<1>2. PICK r \in Call : r = calls[c]
  BY DEF IInv
<1>3. r \in Uninstalling /\ Chosen(r) /\ r.id # None /\ r.pc = "remove"
  BY <1>1, <1>2, Forms DEF IInv, Fits, Chosen
<1>4. HoldsAgent(c)
  BY <1>1, <1>2, <1>3 DEF HoldsAgent
<1>5. packages' \in [Prefixes -> 0..2]
  <2>1. PICK p : p = r.at
    OBVIOUS
  <2>2. packages' = [packages EXCEPT ![p] = 0] /\ packages \in [Prefixes -> 0..2]
    BY <1>2, <2>1 DEF Remove, IInv, Files
  <2>3. 0 \in 0..2
    OBVIOUS
  <2>. QED
    BY <2>2, <2>3
<1>6. Files'
  BY <1>5, PackagesTyped DEF Remove
<1>7. CASE Goes(c, Idle)
  BY <1>4, <1>6, <1>7, Ending DEF Remove
<1>8. PICK left : left = r.todo \ {r.id}
  OBVIOUS
<1>9. PICK p : p = IF left # {} THEN "check" ELSE IF r.wipe THEN "wipe" ELSE "done"
  OBVIOUS
<1>10. PICK i : i = IF r.id = AtHand THEN r.id ELSE None
  OBVIOUS
<1>11. PICK s : s = [r EXCEPT !.pc = p, !.todo = left, !.at = None, !.id = i, !.gone = @ \cup {r.id}]
  OBVIOUS
<1>12. CASE Goes(c, s)
  <2>1. left \in SUBSET Ids /\ p \in {"check", "wipe", "done"} /\ i \in Ids \cup {None}
        /\ r.gone \cup {r.id} \in SUBSET Ids
    BY <1>3, <1>8, <1>9, <1>10 DEF Uninstalling
  <2>2. s \in Uninstalling
    BY <1>3, <1>11, <2>1 DEF Uninstalling
  <2>3. /\ s.op = "uninstall" /\ s.pc = p /\ s.todo = left /\ s.ids = r.ids /\ s.gone = r.gone \cup {r.id}
    BY <1>3, <1>11 DEF Uninstalling
  <2>4. s.wipe = r.wipe
    BY <1>3, <1>11 DEF Uninstalling
  <2>5. r.ids \subseteq left \cup (r.gone \cup {r.id}) /\ left \subseteq r.ids
    BY <1>3, <1>8 DEF Chosen
  <2>6. p = "wipe" => left = {} /\ r.wipe
    BY <1>9
  <2>7. Chosen(s)'
    BY <2>1, <2>3, <2>4, <2>5, <2>6 DEF Chosen
  <2>8. Fits(s)' /\ s \in Call
    BY <2>2, <2>3, <2>7 DEF Fits, Installs, Call
  <2>. QED
    BY <1>4, <1>6, <1>12, <2>3, <2>8, Stepping DEF Remove
<1>13. Goes(c, s) \/ Goes(c, Idle)
  BY <1>2, <1>8, <1>9, <1>10, <1>11 DEF Remove, AfterRemoval
<1>. QED
  BY <1>7, <1>12, <1>13

\* The data goes last.
LEMMA WipeStep ==
  ASSUME IInv, NEW c \in Procs, Wipe(c)
  PROVE  IInv'
<1>1. calls[c].op = "uninstall" /\ calls[c].pc = "wipe"
  BY DEF Wipe, At
<1>2. PICK r \in Call : r = calls[c]
  BY DEF IInv
<1>3. r \in Uninstalling /\ Chosen(r)
  BY <1>1, <1>2, Forms DEF IInv, Fits
<1>4. PICK s : s = [r EXCEPT !.pc = "done"]
  OBVIOUS
<1>5. Goes(c, s)
  BY <1>2, <1>4 DEF Wipe, To
<1>6. /\ s \in Uninstalling /\ s.pc = "done" /\ s.op = "uninstall" /\ s.ids = r.ids /\ s.todo = r.todo
      /\ s.id = r.id /\ s.gone = r.gone
  BY <1>3, <1>4, UninstallStage
<1>7. Files'
  BY DEF Wipe, IInv, Files, MarkedIsWhole, Managed
<1>8. Fits(s)' /\ s \in Call
  BY <1>3, <1>6 DEF Fits, Installs, Call, Chosen
<1>9. Agents(s) => HoldsAgent(c)
  BY <1>1, <1>2, <1>6 DEF Agents, HoldsAgent
<1>. QED
  BY <1>5, <1>6, <1>7, <1>8, <1>9, Stepping DEF Wipe
-----------------------------------------------------------------------------
(* The invariant.                                                          *)

\* A session either reaches the managed prefix or does not.
LEMMA GlobalTyped ==
  ASSUME NEW N, NEW G \in SUBSET BOOLEAN, NEW t \in [npm : N, global : G]
  PROVE  t \in [npm : N, global : BOOLEAN]
OBVIOUS

\* The process dies, and nobody holds anything.
LEMMA RestartStep ==
  ASSUME IInv, Restart
  PROVE  IInv'
<1>1. /\ runtime' \in [tree : SUBSET Parts, backup : SUBSET Parts, orphan : BOOLEAN]
      /\ runtime'.tree = runtime.tree /\ runtime'.backup = {}
  BY OrphanedTyped DEF Restart
<1>2. session' \in [npm : Npms \cup {None}, global : BOOLEAN]
  BY DEF Restart
<1>3. Files'
  BY <1>1, <1>2 DEF Restart, IInv, Files, MarkedIsWhole, Managed
<1>4. \A d \in Procs : calls'[d] = Idle
  BY DEF Restart
<1>5. Exclusive'
  BY <1>4, IdleFits DEF Exclusive, HoldsWriter, HoldsAgent
<1>6. calls' \in [Procs -> Call]
  BY IdleFits DEF Restart
<1>7. Fits(Idle)'
  BY DEF Idle, Fits, Installs
<1>8. \A d \in Procs : Fits(calls[d])'
  BY <1>4, <1>7
<1>. QED
  BY <1>3, <1>5, <1>6, <1>8 DEF IInv

\* A machine as it may be found.
LEMMA Initially == Init => IInv
<1>. SUFFICES ASSUME Init PROVE IInv
  OBVIOUS
<1>1. runtime \in [tree : SUBSET Parts, backup : SUBSET Parts, orphan : BOOLEAN] /\ MarkedIsWhole /\ runtime.backup = {}
  BY DEF Init, Parts, MarkedIsWhole, Managed
<1>2. record \in {None} \cup [npm : Npms \cup {Own}, prefix : Prefixes]
  BY InstallationsAssumption DEF Init
<1>3. session \in [npm : Npms \cup {None}, global : BOOLEAN]
  BY GlobalTyped DEF Init
<1>8. packages \in [Prefixes -> 0..2]
  BY DEF Init
<1>4. Files
  BY <1>1, <1>2, <1>3, <1>8, InstallationsAssumption DEF Init, Files
<1>5. \A d \in Procs : calls[d] = Idle
  BY DEF Init
<1>6. calls \in [Procs -> Call] /\ \A d \in Procs : Fits(calls[d])
  BY <1>5, IdleFits DEF Init
<1>7. Exclusive
  BY <1>5, IdleFits DEF Exclusive, HoldsWriter, HoldsAgent
<1>. QED
  BY <1>4, <1>6, <1>7 DEF IInv

\* Every step keeps the invariant.
LEMMA Inductive == IInv /\ [Next]_vars => IInv'
<1>. SUFFICES ASSUME IInv, [Next]_vars PROVE IInv'
  OBVIOUS
<1>1. CASE UNCHANGED vars
  BY <1>1 DEF vars, IInv, Files, Exclusive, HoldsWriter, HoldsAgent, Fits, Bootstrapped, Placed, Chosen, Leads,
              Managed, MarkedIsWhole
<1>2. CASE Restart
  BY <1>2, RestartStep
<1>3. CASE \E c \in Procs : InstallAgents(c) \/ InstallRuntime(c) \/ UpdateAgent(c) \/ UninstallAgent(c) \/ Step(c)
  <2>1. PICK c \in Procs : InstallAgents(c) \/ InstallRuntime(c) \/ UpdateAgent(c) \/ UninstallAgent(c) \/ Step(c)
    BY <1>3
  <2>2. CASE InstallAgents(c) \/ InstallRuntime(c) \/ UpdateAgent(c) \/ UninstallAgent(c)
    BY <2>2, BeginSteps, BeginUninstall
  <2>3. CASE Bootstrap(c)
    BY <2>3, ManagerSteps, AsideStep, PublishStep, CleanStep, PersistStep DEF Bootstrap
  <2>4. CASE Package(c) \/ Record(c) \/ Configure(c) \/ Update(c)
    BY <2>4, PackageStep, RecordStep, ConfigureStep, UpdateStep
  <2>5. CASE Check(c) \/ Remove(c) \/ Wipe(c) \/ Fails(c) \/ Return(c)
    BY <2>5, CheckStep, RemoveStep, WipeStep, ReturnSteps
  <2>. QED
    BY <2>1, <2>2, <2>3, <2>4, <2>5 DEF Step
<1>. QED
  BY <1>1, <1>2, <1>3 DEF Next

THEOREM InvariantHolds == Spec => []IInv
BY Initially, Inductive, PTL DEF Spec
-----------------------------------------------------------------------------
(* What the invariant gives.                                               *)

\* Every reachable state has its types and exclusive mutexes, a managed runtime that is a
\* whole, verified one, a record that leads to the package an install has placed, and a
\* login PATH that finds the Agent an install has put into BootAgent's own prefix
\* (bootstrap.go's publishDirectory, install.go:403-413, uninstall.go:171).
THEOREM InstallsStaySafe == Spec => []InstallsSafe
<1>1. ASSUME IInv PROVE InstallsSafe
  <2>1. TypeOK /\ MarkedIsWhole
    BY <1>1 DEF IInv, Files, Exclusive, TypeOK
  <2>2. ASSUME NEW c \in Procs, calls[c].op = "install" PROVE Placed(calls[c])
    BY <1>1, <2>2 DEF IInv, Fits
  <2>3. RecordLeadsToPackage
    BY <2>2 DEF RecordLeadsToPackage, Placed, Leads
  <2>4. TerminalFindsAgent
    BY <2>2 DEF TerminalFindsAgent, Placed, At
  <2>. QED
    BY <2>1, <2>3, <2>4 DEF InstallsSafe
<1>. QED
  BY <1>1, InvariantHolds, PTL

\* Which steps change the runtime, a package, the data.
Touches ==
  /\ UNCHANGED runtime \/ Restart \/ \E c \in Procs : Aside(c) \/ Publish(c) \/ Clean(c)
  /\ UNCHANGED packages \/ \E c \in Procs : Package(c) \/ Update(c) \/ Remove(c)
  /\ UNCHANGED data \/ \E c \in Procs : Configure(c) \/ Wipe(c)

LEMMA StepsTouch == [Next]_vars => Touches
<1>. SUFFICES ASSUME [Next]_vars PROVE Touches
  OBVIOUS
<1>1. CASE UNCHANGED vars
  BY <1>1 DEF vars, Touches
<1>2. CASE Restart
  BY <1>2 DEF Restart, Touches
<1>3. CASE \E c \in Procs : InstallAgents(c) \/ InstallRuntime(c) \/ UpdateAgent(c) \/ UninstallAgent(c) \/ Step(c)
  <2>1. PICK c \in Procs : InstallAgents(c) \/ InstallRuntime(c) \/ UpdateAgent(c) \/ UninstallAgent(c) \/ Step(c)
    BY <1>3
  <2>2. CASE InstallAgents(c) \/ InstallRuntime(c) \/ UpdateAgent(c) \/ UninstallAgent(c)
    BY <2>2 DEF InstallAgents, InstallRuntime, UpdateAgent, UninstallAgent, Begin, Touches
  <2>3. CASE Manager(c) \/ Fetch(c) \/ Stage(c) \/ Persist(c) \/ Record(c) \/ Check(c) \/ Fails(c) \/ Return(c)
    BY <2>3 DEF Manager, Fetch, Stage, Persist, Record, Check, Fails, Return, Touches
  <2>4. CASE Aside(c) \/ Publish(c) \/ Clean(c)
    BY <2>4 DEF Aside, Publish, Clean, Touches
  <2>5. CASE Package(c) \/ Update(c) \/ Remove(c)
    BY <2>5 DEF Package, Update, Remove, Touches
  <2>6. CASE Configure(c) \/ Wipe(c)
    BY <2>6 DEF Configure, Wipe, Touches
  <2>. QED
    BY <2>1, <2>2, <2>3, <2>4, <2>5, <2>6 DEF Step, Bootstrap
<1>. QED
  BY <1>1, <1>2, <1>3 DEF Next

\* A copy goes in a removal that was aimed at it.
LEMMA PackagesKept ==
  ASSUME IInv, [Next]_vars, NEW p \in Prefixes, packages[p] > 0, packages'[p] = 0
  PROVE  \E c \in Procs : Remove(c) /\ calls[c].at = p
<1>1. packages \in [Prefixes -> 0..2]
  BY DEF IInv, Files
<1>2. ~UNCHANGED packages
  OBVIOUS
<1>3. PICK c \in Procs : Package(c) \/ Update(c) \/ Remove(c)
  BY <1>2, StepsTouch DEF Touches
<1>4. CASE Package(c)
  <2>1. PICK n : packages' = [packages EXCEPT ![n] = 2]
    BY <1>2, <1>4 DEF Package
  <2>. QED
    BY <1>1, <2>1
<1>5. CASE Update(c)
  BY <1>1, <1>5 DEF Update
<1>6. CASE Remove(c)
  <2>1. PICK a : a = calls[c].at
    OBVIOUS
  <2>2. packages' = [packages EXCEPT ![a] = 0]
    BY <1>6, <2>1 DEF Remove
  <2>3. a = p
    BY <1>1, <2>2
  <2>. QED
    BY <1>6, <2>1, <2>3
<1>. QED
  BY <1>3, <1>4, <1>5, <1>6

\* A copy of the Agent goes only when an uninstall was asked for it, and only one that npm
\* lists (uninstall.go's validateInstallationSelections and resolveUninstallNPM).
THEOREM ChosenOnly == Spec => OnlyChosenGoes
<1>1. ASSUME IInv, [Next]_vars, NEW p \in Prefixes, packages[p] > 0, packages'[p] = 0
      PROVE  /\ p \notin Odd
             /\ \E c \in Procs : calls[c].op = "uninstall"
                /\ (p \in calls[c].ids \/ AtHand \in calls[c].ids \/ calls[c].cross)
  <2>1. PICK c \in Procs : Remove(c) /\ calls[c].at = p
    BY <1>1, PackagesKept
  <2>2. calls[c].op = "uninstall" /\ calls[c].pc = "remove"
    BY <2>1 DEF Remove, At
  <2>3. Chosen(calls[c])
    BY <1>1, <2>2 DEF IInv, Fits
  <2>. QED
    BY <2>1, <2>2, <2>3 DEF Chosen
<1>2. IInv /\ [Next]_vars =>
        [\A p \in Prefixes : packages[p] > 0 /\ packages'[p] = 0 =>
           /\ p \notin Odd
           /\ \E c \in Procs : calls[c].op = "uninstall"
                /\ (p \in calls[c].ids \/ AtHand \in calls[c].ids \/ calls[c].cross)]_vars
  BY <1>1
<1>. QED
  BY <1>2, InvariantHolds, PTL DEF Spec, OnlyChosenGoes

\* The Agent's data goes only in a call that was asked to, when every installation of the
\* call is gone (uninstall.go's removeAgentUserData comes last).
THEOREM DataLast == Spec => DataGoesLast
<1>1. ASSUME IInv, [Next]_vars, data, ~data'
      PROVE  \E c \in Procs : calls[c].op = "uninstall" /\ calls[c].wipe /\ calls[c].ids \subseteq calls[c].gone
  <2>1. ~UNCHANGED data
    BY <1>1
  <2>2. PICK c \in Procs : Wipe(c) \/ Configure(c)
    BY <1>1, <2>1, StepsTouch DEF Touches
  <2>3. Wipe(c)
    BY <1>1, <2>2 DEF Configure
  <2>4. calls[c].op = "uninstall" /\ calls[c].pc = "wipe"
    BY <2>3 DEF Wipe, At
  <2>5. Chosen(calls[c])
    BY <1>1, <2>4 DEF IInv, Fits
  <2>. QED
    BY <2>4, <2>5 DEF Chosen
<1>2. IInv /\ [Next]_vars =>
        [data /\ ~data' => \E c \in Procs : calls[c].op = "uninstall" /\ calls[c].wipe
                                          /\ calls[c].ids \subseteq calls[c].gone]_vars
  BY <1>1
<1>. QED
  BY <1>2, InvariantHolds, PTL DEF Spec, DataGoesLast

\* Wherever the replacement of the runtime's directory stops, the old one or the new one is
\* on the disk (directory_publish.go).
THEOREM ReplacedKept == Spec => ReplacedNotLost
<1>1. ASSUME IInv, [Next]_vars, Kept(runtime) PROVE Kept(runtime')
  <2>1. CASE UNCHANGED runtime
    BY <1>1, <2>1
  <2>2. CASE Restart
    BY <1>1, <2>2 DEF Restart, Orphaned, Kept, IInv, Files
  <2>3. CASE ~UNCHANGED runtime /\ ~Restart
    <3>1. PICK c \in Procs : Aside(c) \/ Publish(c) \/ Clean(c)
      BY <1>1, <2>3, StepsTouch DEF Touches
    <3>2. PICK r \in Call : r = calls[c]
      BY <1>1 DEF IInv
    <3>3. r.op \in Installs /\ Bootstrapped(r)
      BY <1>1, <3>1, <3>2, Known DEF Aside, Publish, Clean, At
    <3>4. CASE Aside(c)
      BY <1>1, <2>3, <3>4 DEF Aside, SetAside, Kept, IInv, Files
    <3>5. CASE Publish(c)
      <4>1. r.parts = Whole
        BY <3>2, <3>3, <3>5 DEF Publish, At, Bootstrapped
      <4>2. CASE runtime' = [runtime EXCEPT !.tree = calls[c].parts]
        BY <1>1, <3>2, <4>1, <4>2 DEF Kept, IInv, Files, Whole
      <4>3. CASE runtime' = [runtime EXCEPT !.tree = @ \cup runtime.backup, !.backup = {}]
        BY <1>1, <4>3 DEF Kept, IInv, Files
      <4>4. CASE runtime' = Orphaned(runtime)
        BY <1>1, <4>4 DEF Orphaned, Kept, IInv, Files
      <4>. QED
        BY <3>5, <4>2, <4>3, <4>4 DEF Publish
    <3>6. CASE Clean(c)
      <4>1. runtime.tree = Whole
        BY <3>2, <3>3, <3>6 DEF Clean, At, Bootstrapped
      <4>2. runtime \in [tree : SUBSET Parts, backup : SUBSET Parts, orphan : BOOLEAN]
        BY <1>1 DEF IInv, Files
      <4>3. runtime'.tree = runtime.tree
        BY <1>1, <3>6, <4>2, OrphanedTyped DEF Clean
      <4>. QED
        BY <4>1, <4>3 DEF Kept, Whole
    <3>. QED
      BY <3>1, <3>4, <3>5, <3>6
  <2>. QED
    BY <2>1, <2>2, <2>3
<1>2. IInv /\ [Next]_vars => [Kept(runtime) => Kept(runtime')]_vars
  BY <1>1
<1>. QED
  BY <1>2, InvariantHolds, PTL DEF Spec, ReplacedNotLost
=============================================================================
