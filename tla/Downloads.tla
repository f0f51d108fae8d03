------------------------------ MODULE Downloads -----------------------------
(***************************************************************************)
(* Software that BootAgent fetches and puts in place: a desktop app        *)
(* (src/internal/desktopapp) and its own update (src/internal/binding,     *)
(* src/cmd/bootagent-desktop).  Both stream a body under the stall guard   *)
(* of src/internal/process; only the update resumes a dropped one.  A body *)
(* is the sequence of its pieces 1..Pieces.  A mutex, a defer and a        *)
(* context end with the call that has them.                                *)
(***************************************************************************)
EXTENDS Naturals, Sequences

CONSTANTS
  Procs, None,
  Apps, Systems,           \* the desktop app and the system of a behaviour
  Pieces,                  \* pieces of a body (bound)
  Window,                  \* silent ticks that make a stall (bound)
  MaxCalls                 \* calls and edits of the user after the start (bound)

ASSUME DownloadsAssumption ==
  /\ Apps \subseteq {"chatgpt", "claude", "dsh", "kimi", "workbuddy", "zcode"}
  /\ Systems \subseteq {"macos", "windows"}
  /\ Pieces \in Nat \ {0} /\ Window \in Nat \ {0} /\ MaxCalls \in Nat

\* /Applications and ~/Applications; what a bundle there is, and how much of it.
Places == 1..2
Kinds == {"bootagent", "orphan", "user", "legacy", "foreign"}
Parts == {"stub", "torn", "whole"}
Bundles == [kind : Kinds, part : Parts]

ASSUME NoneAssumption == None \notin Bundles

\* What a server sends: the build that the feed or the release names, another one
\* of the vendor's, or anything else.
Files == {"named", "other", "foreign"}

VARIABLES
  app, system,
  place,     \* the bundle at each destination
  update,    \* what the window shows of the update, what is staged, and whether the check
             \* missed a release that the official source knew of
  gate,      \* quitting, restarting, and whether the app is terminating
  calls, made

vars == <<app, system, place, update, gate, calls, made>>

Idle == [op |-> "idle", pc |-> "none"]
Unchecked == [shown |-> "unchecked", staged |-> None, missed |-> FALSE]
Open == [quitting |-> FALSE, restarting |-> FALSE, terminating |-> FALSE]
Fresh == [got |-> <<>>, from |-> 1, body |-> "open", closed |-> FALSE, verdict |-> FALSE,
          quiet |-> 0, advanced |-> FALSE, resumes |-> 0]

Goes(c, r) == calls' = [calls EXCEPT ![c] = r]
To(c, pc) == Goes(c, [calls[c] EXCEPT !.pc = pc])
At(c, ops, pc) == calls[c].op \in ops /\ calls[c].pc = pc
Begin(c, r) == calls[c] = Idle /\ made < MaxCalls /\ made' = made + 1 /\ Goes(c, r)

Init ==
  /\ app \in Apps /\ system \in Systems
  /\ \E first \in {None} \cup [kind : {"user", "legacy", "foreign"}, part : {"whole"}] : place = <<first, None>>
  /\ update = Unchecked
  /\ gate = Open /\ calls = [c \in Procs |-> Idle] /\ made = 0
-----------------------------------------------------------------------------
(* The transfer: the reader, the watchdog, the network.                    *)

Transfers(c) == calls[c].pc = "transfer"
Body(c) == calls[c].body
Moves(c, b) == Goes(c, [calls[c] EXCEPT !.body = b])
StreamOnly == UNCHANGED <<app, system, place, update, gate, made>>

\* stallReader.Read and resumingBody.Read: a verdict ends the copy before the next read.
Reading(c) == Transfers(c) /\ ~Body(c).verdict /\ ~Body(c).closed /\ Body(c).body = "open"

Deliver(c) ==
  /\ Reading(c) /\ Body(c).from <= Pieces
  /\ Moves(c, [Body(c) EXCEPT !.got = Append(@, Body(c).from), !.from = @ + 1, !.quiet = 0, !.advanced = TRUE])
  /\ StreamOnly

\* The connection is lost.
Drop(c) == Reading(c) /\ Moves(c, [Body(c) EXCEPT !.body = "broken"]) /\ StreamOnly

\* The body ends; without a Content-Length a truncated one ends like a whole one.
\* An empty one is an error.
End(c) ==
  /\ Reading(c) /\ Body(c).got # <<>>
  /\ \E file \in Files :
       Goes(c, [op |-> calls[c].op, pc |-> "verify", cancelled |-> FALSE, file |-> file,
                whole |-> Body(c).from > Pieces])
  /\ StreamOnly

Tick(c) ==
  /\ Transfers(c) /\ Body(c).quiet < Window
  /\ Moves(c, [Body(c) EXCEPT !.quiet = @ + 1]) /\ StreamOnly

\* Refuted variant of Interrupted: the verdict is recorded, the parked read is left alone.
InterruptedByFlag(b) == [b EXCEPT !.verdict = TRUE]

\* The watchdog closes the body, the only thing that unblocks a read.
Interrupted(b) == [b EXCEPT !.verdict = TRUE, !.closed = TRUE]

Watch(c) ==
  /\ Transfers(c) /\ ~Body(c).verdict /\ Body(c).quiet = Window
  /\ Moves(c, Interrupted(Body(c))) /\ StreamOnly

Resumable(c) ==
  /\ ~Body(c).closed /\ ~Body(c).verdict
  /\ Body(c).advanced /\ Body(c).got # <<>>

Resume(c) ==
  /\ At(c, {"update"}, "transfer") /\ Body(c).body = "broken" /\ Resumable(c)
  /\ Moves(c, [Body(c) EXCEPT !.body = "resuming", !.resumes = @ + 1])
  /\ StreamOnly

\* Refuted variant of Continues: any answer with a body will do.
ContinuesAny(b, status, start) == TRUE

\* resume: a 206 whose Content-Range starts where the reader stopped.
Continues(b, status, start) == status = 206 /\ start = Len(b.got) + 1

\* Refuted variant of Swapped: the transfer may have been abandoned meanwhile.
SwappedBlindly(b, start) == [b EXCEPT !.body = "open", !.from = start, !.advanced = FALSE]

\* swap: an abandoned transfer discards the body that came.
Swapped(b, start) == IF b.closed THEN [b EXCEPT !.body = "broken", !.advanced = FALSE]
                     ELSE [b EXCEPT !.body = "open", !.from = start, !.advanced = FALSE]

\* The answer to the ranged request.  A server that ignores Range sends 200 and everything.
Answer(c) ==
  /\ Transfers(c) /\ Body(c).body = "resuming"
  /\ \E status \in {200, 206}, start \in 1..Pieces :
       /\ status = 200 => start = 1
       /\ Moves(c, IF Continues(Body(c), status, start)
                     THEN Swapped(Body(c), start)
                     ELSE [Body(c) EXCEPT !.body = "broken", !.advanced = FALSE])
  /\ StreamOnly
-----------------------------------------------------------------------------
(* A desktop app.                                                          *)

Has(p) == place[p] # None
Current == {"bootagent", "orphan", "user"}

\* The bundle identifier, read from the Info.plist; on Windows the file of that name.
Found(p, kinds) == Has(p) /\ (system = "windows" \/ (place[p].part # "stub" /\ place[p].kind \in kinds))

\* The AppX registration, or the Start menu's.
Registered(p) == Has(p)

SeesChatGPT(p) == IF system = "windows" THEN Registered(p) ELSE Found(p, Current)
SeesClaude(p) == Found(p, Current)
SeesDSH(p) == Found(p, Current)
SeesKimi(p) == Found(p, Current)
SeesWorkBuddy(p) == Found(p, Current \cup {"legacy"})
SeesZCode(p) == Found(p, Current)

Sees(p) ==
  CASE app = "chatgpt" -> SeesChatGPT(p)
    [] app = "claude" -> SeesClaude(p)
    [] app = "dsh" -> SeesDSH(p)
    [] app = "kimi" -> SeesKimi(p)
    [] app = "workbuddy" -> SeesWorkBuddy(p)
    [] app = "zcode" -> SeesZCode(p)

Installed == \E p \in Places : Sees(p)

\* What there is to download, and whether its feed gives a digest.
OfferChatGPT == [digest : {FALSE}]
OfferClaude == {}
OfferDSH == [digest : {TRUE}]
OfferKimi == [digest : {TRUE}]
OfferWorkBuddy == [digest : {FALSE}]
OfferZCode == [digest : {TRUE}]

Offer ==
  CASE app = "chatgpt" -> OfferChatGPT
    [] app = "claude" -> OfferClaude
    [] app = "dsh" -> OfferDSH
    [] app = "kimi" -> OfferKimi
    [] app = "workbuddy" -> OfferWorkBuddy
    [] app = "zcode" -> OfferZCode

\* Refuted variant of LockFree: no task mutex.
LockFreeAlways == TRUE

LockFree == \A c \in Procs : calls[c].op # "install"

\* InstallDesktopAgent: an installed app is left alone, except that ChatGPT's
\* installer on Windows also updates.
Install(c) ==
  /\ LockFree /\ Offer # {}
  /\ ~Installed \/ (app = "chatgpt" /\ system = "windows")
  /\ Begin(c, [op |-> "install", pc |-> "transfer", body |-> Fresh])
  /\ UNCHANGED <<app, system, place, update, gate>>

\* codesign, the identity and Gatekeeper; Authenticode and the publisher.
SignedOnMac(file, whole) == whole /\ file # "foreign"
SignedOnWindows(file, whole) == whole /\ file # "foreign"
Signed(file, whole) == IF system = "macos" THEN SignedOnMac(file, whole) ELSE SignedOnWindows(file, whole)

Digest(file, whole) == whole /\ file = "named"

PassesChatGPT(file, whole) == Signed(file, whole)
PassesDSH(file, whole) == Digest(file, whole) /\ Signed(file, whole)
PassesKimi(file, whole) == Digest(file, whole) /\ Signed(file, whole)
PassesWorkBuddy(file, whole) == Signed(file, whole)
PassesZCode(file, whole) == Digest(file, whole) /\ Signed(file, whole)

\* Refuted variant of Passes: a signature is thought to say enough.
PassesSigned(file, whole) == Signed(file, whole)

\* What a download passes before it is copied or started.
Passes(file, whole) ==
  CASE app = "chatgpt" -> PassesChatGPT(file, whole)
    [] app = "dsh" -> PassesDSH(file, whole)
    [] app = "kimi" -> PassesKimi(file, whole)
    [] app = "workbuddy" -> PassesWorkBuddy(file, whole)
    [] app = "zcode" -> PassesZCode(file, whole)

Verify(c) ==
  /\ At(c, {"install"}, "verify") /\ ~calls[c].cancelled /\ Passes(calls[c].file, calls[c].whole)
  /\ Goes(c, [op |-> "install", pc |-> "place", cancelled |-> FALSE, next |-> 1,
              file |-> calls[c].file, whole |-> calls[c].whole])
  /\ UNCHANGED <<app, system, place, update, gate, made>>

\* A destination that exists, or cannot be made, is passed over.
PassOver(c) ==
  /\ At(c, {"install"}, "place") /\ system = "macos" /\ calls[c].next \in Places
  /\ Goes(c, [calls[c] EXCEPT !.next = @ + 1])
  /\ UNCHANGED <<app, system, place, update, gate, made>>

\* ditto writes into the destination itself.
Copy(c) ==
  /\ At(c, {"install"}, "place") /\ system = "macos" /\ ~calls[c].cancelled
  /\ calls[c].next \in Places /\ ~Has(calls[c].next)
  /\ place' = [place EXCEPT ![calls[c].next] = [kind |-> "bootagent", part |-> "stub"]]
  /\ To(c, "copying")
  /\ UNCHANGED <<app, system, update, gate, made>>

\* More of the bundle, the Info.plist at some time before the last file.
Write(c) ==
  /\ At(c, {"install"}, "copying") /\ place[calls[c].next] = [kind |-> "bootagent", part |-> "stub"]
  /\ place' = [place EXCEPT ![calls[c].next] = [kind |-> "bootagent", part |-> "torn"]]
  /\ UNCHANGED <<app, system, update, gate, calls, made>>

\* ditto succeeds: the call reports the app installed.
Copied(c) ==
  /\ At(c, {"install"}, "copying") /\ ~calls[c].cancelled
  /\ Has(calls[c].next) /\ place[calls[c].next].kind = "bootagent"
  /\ place' = [place EXCEPT ![calls[c].next] = [kind |-> "bootagent", part |-> "whole"]]
  /\ Goes(c, Idle)
  /\ UNCHANGED <<app, system, update, gate, made>>

\* ditto fails or is killed; what it wrote stays, and the next destination is tried.
CopyFails(c) ==
  /\ At(c, {"install"}, "copying")
  /\ Goes(c, [calls[c] EXCEPT !.pc = "place", !.next = @ + 1])
  /\ UNCHANGED <<app, system, place, update, gate, made>>

\* The vendor's installer is started and goes on alone.
StartInstaller(c) ==
  /\ At(c, {"install"}, "place") /\ system = "windows"
  /\ place' \in {place, [place EXCEPT ![1] = [kind |-> "bootagent", part |-> "whole"]]}
  /\ Goes(c, Idle)
  /\ UNCHANGED <<app, system, update, gate, made>>
-----------------------------------------------------------------------------
(* BootAgent's own update.                                                 *)

Sources == {"official", "mirror"}

\* The application can be replaced where it is, or it runs from an image or a read-only directory.
Locations == {"ok", "translocated", "unwritable"}

\* updateProvider.Check: the other source when the preferred one fails, and the
\* official one when the mirror knows of nothing newer.
Answering(prefers, a) ==
  LET first == IF prefers THEN "mirror" ELSE "official"
      second == IF prefers THEN "official" ELSE "mirror"
  IN IF a[first] = "release" THEN "release"
     ELSE IF a[first] = "error" \/ (prefers /\ a[second] = "release") THEN a[second]
     ELSE "nothing"

\* AppUpdater checks once; a release without a SHA-256, or an installation that
\* cannot be replaced, is not offered.
CheckUpdate ==
  /\ update.shown = "unchecked"
  /\ \E prefers \in BOOLEAN, found \in Locations \cup {"undigested"}, a \in [Sources -> {"release", "nothing", "error"}] :
       update' = [shown |-> IF Answering(prefers, a) = "release" /\ found = "ok" THEN "found" ELSE "none", staged |-> None,
                  missed |-> a["official"] = "release" /\ Answering(prefers, a) # "release"]
  /\ UNCHANGED <<app, system, place, gate, calls, made>>

\* The user accepts the dialog.
DownloadUpdate(c) ==
  /\ update.shown = "found" /\ update' = [update EXCEPT !.shown = "loading"]
  /\ Begin(c, [op |-> "update", pc |-> "transfer", body |-> Fresh])
  /\ UNCHANGED <<app, system, place, gate>>

\* stagedArtifactError: a container that was not unpacked must not be swapped in.
Installable(staged) == staged = "app"

\* The updater compares the digest, unpacks and stages; the service looks at the result.
StageUpdate(c) ==
  /\ At(c, {"update"}, "verify") /\ ~calls[c].cancelled /\ Digest(calls[c].file, calls[c].whole)
  /\ \E staged \in {"app", "container"} :
       update' = [update EXCEPT !.shown = IF Installable(staged) THEN "ready" ELSE "none", !.staged = staged]
  /\ Goes(c, Idle)
  /\ UNCHANGED <<app, system, place, gate, made>>

\* quitAwareUpdater.Restart: the first call passes, the others return.
Restart(c) ==
  /\ update.shown = "ready" /\ ~gate.restarting
  /\ gate' = [gate EXCEPT !.restarting = TRUE, !.quitting = TRUE]
  /\ Begin(c, [op |-> "restart", pc |-> "swap"])
  /\ UNCHANGED <<app, system, place, update>>

Reopened(g) == [g EXCEPT !.quitting = FALSE, !.restarting = FALSE]

RestartFails(c) ==
  /\ At(c, {"restart"}, "swap")
  /\ gate' = Reopened(gate) /\ Goes(c, Idle)
  /\ UNCHANGED <<app, system, place, update, made>>

\* acceptQuit: the Dock, the menu, the tray, a logout.
Quit ==
  /\ ~gate.terminating
  /\ gate' = [gate EXCEPT !.quitting = TRUE, !.terminating = TRUE]
  /\ UNCHANGED <<app, system, place, update, calls, made>>
-----------------------------------------------------------------------------
(* Failures, the user and the end of the process.                          *)

\* The context of a cancelled call: the watchdog ends its transfer, and no command runs any more.
Cancel(c) ==
  /\ \/ Transfers(c) /\ ~Body(c).verdict /\ Moves(c, Interrupted(Body(c)))
     \/ calls[c].pc \in {"verify", "place", "copying"} /\ Goes(c, [calls[c] EXCEPT !.cancelled = TRUE])
  /\ StreamOnly

\* A call that cannot go on returns its error, its temporary files removed.
Stuck(c) ==
  \/ Transfers(c) /\ Body(c).verdict /\ Body(c).closed /\ Body(c).body # "resuming"
  \/ Transfers(c) /\ Body(c).body = "broken" /\ ~(calls[c].op = "update" /\ Resumable(c))
  \/ calls[c].op \in {"install", "update"} /\ calls[c].pc = "verify"
  \/ calls[c].pc = "place" /\ (calls[c].next \notin Places \/ calls[c].cancelled \/ system = "windows")

Fail(c) ==
  /\ Stuck(c) /\ Goes(c, Idle)
  /\ update' = IF calls[c].op = "update" THEN [update EXCEPT !.shown = "none"] ELSE update
  /\ UNCHANGED <<app, system, place, gate, made>>

\* The user removes a bundle, or brings one.
Edit ==
  /\ made < MaxCalls /\ made' = made + 1
  /\ \E p \in Places, b \in {None} \cup [kind : {"user"}, part : {"whole"}] :
       /\ (b = None) # (place[p] = None)
       /\ system = "windows" => p = 1
       /\ place' = [place EXCEPT ![p] = b]
  /\ UNCHANGED <<app, system, update, gate, calls>>

\* A crash, the end of a quit, or the restart into the new version.  A ditto goes on without it.
Exit ==
  /\ place' = [p \in Places |->
                IF \E c \in Procs : calls[c].pc = "copying" /\ calls[c].next = p /\ Has(p)
                  THEN [place[p] EXCEPT !.kind = "orphan"] ELSE place[p]]
  /\ calls' = [c \in Procs |-> Idle] /\ gate' = Open
  /\ update' = Unchecked
  /\ UNCHANGED <<app, system, made>>

OrphanWrites ==
  /\ \E p \in Places, part \in {"torn", "whole"} :
       /\ Has(p) /\ place[p].kind = "orphan" /\ place[p].part # "whole" /\ place[p].part # part
       /\ place' = [place EXCEPT ![p].part = part]
  /\ UNCHANGED <<app, system, update, gate, calls, made>>

Ends(c) == Fail(c) \/ Copied(c) \/ CopyFails(c) \/ PassOver(c) \/ StartInstaller(c) \/ StageUpdate(c) \/ RestartFails(c)
Runs(c) == Tick(c) \/ Watch(c) \/ Answer(c) \/ Resume(c) \/ Ends(c)

Next ==
  \/ \E c \in Procs :
       \/ Deliver(c) \/ Drop(c) \/ End(c) \/ Tick(c) \/ Watch(c) \/ Resume(c) \/ Answer(c)
       \/ Install(c) \/ Verify(c) \/ PassOver(c) \/ Copy(c) \/ Write(c) \/ Copied(c) \/ CopyFails(c)
       \/ StartInstaller(c) \/ DownloadUpdate(c) \/ StageUpdate(c) \/ Restart(c) \/ RestartFails(c)
       \/ Cancel(c) \/ Fail(c)
  \/ CheckUpdate \/ Quit \/ Edit \/ Exit \/ OrphanWrites

Spec == Init /\ [][Next]_vars /\ \A c \in Procs : WF_vars(Runs(c))
-----------------------------------------------------------------------------
(* Properties.                                                             *)

Bodies == [got : Seq(1..Pieces), from : 1..Pieces + 1, body : {"open", "broken", "resuming"}, closed : BOOLEAN,
           verdict : BOOLEAN, quiet : 0..Window, advanced : BOOLEAN, resumes : Nat]

Transferring == [op : {"install", "update"}, pc : {"transfer"}, body : Bodies]
Verifying == [op : {"install", "update"}, pc : {"verify"}, cancelled : BOOLEAN, file : Files, whole : BOOLEAN]
Placing == [op : {"install"}, pc : {"place", "copying"}, cancelled : BOOLEAN, next : 1..3, file : Files, whole : BOOLEAN]
Swapping == [op |-> "restart", pc |-> "swap"]

\* The records have the fields of their stage, at most one call of a kind runs (the task mutex of an
\* install, one download per window, the gate of a restart), and Windows has one place.
TypeOK ==
  /\ place \in [Places -> {None} \cup Bundles] /\ (system = "windows" => place[2] = None)
  /\ \A c \in Procs : calls[c] \in {Idle, Swapping} \cup Transferring \cup Verifying \cup Placing
  /\ \A c, d \in Procs : c # d /\ calls[c] # Idle => calls[c].op # calls[d].op

\* Across any number of dropped connections the updater is handed the pieces that one
\* uninterrupted read would have given (resumingBody).
HandedOverInOrder == \A c \in Procs : Transfers(c) => Body(c).got = [i \in 1..Len(Body(c).got) |-> i]

\* A transfer that the guard or the user ended is never read from again, even when the
\* answer to its ranged request comes later (swap).
AbandonedStaysClosed ==
  [][\A c \in Procs : (Transfers(c) /\ Body(c).closed /\ Transfers(c)')
       => (Body(c).got = Body(c)'.got /\ (Body(c).body # "open" => Body(c)'.body # "open"))]_vars

\* An endpoint that accepts ranges and drops them at once is not asked for ever: every
\* repair is paid for by bytes (resumable).
RepairsArePaid == \A c \in Procs : Transfers(c) => Body(c).resumes <= Len(Body(c).got)

\* Nothing cut short, and nothing that is not the vendor's, is copied or started; where
\* the feed gives a digest, only the build that it names.
OnlyVerifiedIsUsed ==
  \A c \in Procs : calls[c].pc \in {"place", "copying"} =>
    /\ calls[c].whole /\ calls[c].file # "foreign"
    /\ [digest |-> TRUE] \in Offer => calls[c].file = "named"

\* Installs never leave two complete copies of an app: the second finds the first.  (A copy
\* that outlived its process is not counted: nothing knows of it while it is a stub.)
OneWholeCopy == \E p \in Places : place[p] # [kind |-> "bootagent", part |-> "whole"]

\* A check that finds nothing means that the official source did not know of a release:
\* a mirror that lags or fails hides none (updateProvider.Check).
NoReleaseIsHidden == ~update.missed

\* What a restart swaps over the application is an unpacked application.
RestartSwapsApp == \A c \in Procs : calls[c].op = "restart" => update.staged = "app"

\* The gate is shut only while a restart runs or the app terminates: after a failed restart
\* closing the window hides it again and the user may try again (quitAwareUpdater).
GateReopens ==
  /\ gate.restarting => \E c \in Procs : calls[c].op = "restart"
  /\ gate.quitting => gate.terminating \/ \E c \in Procs : calls[c].op = "restart"

\* Every download and every install comes to an end, on a silent connection too
\* (the stall guard, the closed body, the paid resumes).
EveryCallEnds == \A c \in Procs : (calls[c] # Idle) ~> (calls[c] = Idle)

\* What the reader of a transfer is given, and what a server can cost it.
TransfersSound == HandedOverInOrder /\ RepairsArePaid

\* What every reachable state keeps besides: types, one copy of an app, no hidden release,
\* a gate that reopens and an application to swap in.
DownloadsSafe == TypeOK /\ OneWholeCopy /\ NoReleaseIsHidden /\ RestartSwapsApp /\ GateReopens
=============================================================================
