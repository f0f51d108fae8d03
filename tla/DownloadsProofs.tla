--------------------------- MODULE DownloadsProofs --------------------------
(***************************************************************************)
(* Theorems about Downloads, for any number of calls, pieces and ticks.    *)
(***************************************************************************)
EXTENDS Downloads, TLAPS

\* A transfer has been handed the first pieces, an open body goes on from there, and
\* there is a piece for every repair, and one to spare for the next.
Sound(b) ==
  /\ b.got = [i \in 1..Len(b.got) |-> i]
  /\ b.body = "open" => b.from = Len(b.got) + 1
  /\ b.resumes <= Len(b.got)
  /\ (b.advanced /\ b.body # "resuming") => b.resumes < Len(b.got)

SoundBodies == {b \in Bodies : Sound(b)}
SoundTransfers == [op : {"install", "update"}, pc : {"transfer"}, body : SoundBodies]

\* What a download that passed verification is known to be.
Verified(file, whole) == whole /\ file # "foreign" /\ ([digest |-> TRUE] \in Offer => file = "named")
Verifieds == {r \in Placing : Verified(r.file, r.whole) /\ (r.pc = "copying" => r.next \in Places)}

Steps == {Idle, Swapping} \cup SoundTransfers \cup Verifying \cup Verifieds

Updates == [shown : {"unchecked", "none", "found", "loading", "ready"}, staged : {None, "app", "container"}, missed : {FALSE}]
Gates == [quitting : BOOLEAN, restarting : BOOLEAN, terminating : BOOLEAN]
WholeCopy == [kind |-> "bootagent", part |-> "whole"]

Typed ==
  /\ app \in Apps /\ system \in Systems
  /\ place \in [Places -> {None} \cup Bundles] /\ (system = "windows" => place[2] = None)
  /\ calls \in [Procs -> Steps]
  /\ update \in Updates /\ gate \in Gates

\* One call of a kind.
Single == \A c, d \in Procs : c # d /\ calls[c] # Idle => calls[c].op # calls[d].op

\* While an install runs on macOS there is no whole copy yet: nobody else makes one.
NoCopyYet ==
  /\ \A c \in Procs : calls[c].op = "install" =>
       app # "claude" /\ (system = "macos" => \A p \in Places : place[p] # WholeCopy)
  /\ OneWholeCopy

\* The window's view of the update and the gate tell which call runs.
Shown ==
  /\ \A c \in Procs : calls[c].op = "update" => update.shown = "loading"
  /\ \A c \in Procs : calls[c].op = "restart" => update.shown = "ready"
  /\ update.shown = "ready" => update.staged = "app"

Gated ==
  /\ \A c \in Procs : calls[c].op = "restart" => gate.restarting
  /\ GateReopens

IInv == Typed /\ Single /\ NoCopyYet /\ Shown /\ Gated
-----------------------------------------------------------------------------
(* The transfer.                                                           *)

\* A body stays one when one field is assigned.
LEMMA OneField ==
  ASSUME NEW b \in Bodies
  PROVE  /\ \A v \in Seq(1..Pieces) : [b EXCEPT !.got = v] \in Bodies
         /\ \A v \in 1..Pieces + 1 : [b EXCEPT !.from = v] \in Bodies
         /\ \A v \in {"open", "broken", "resuming"} : [b EXCEPT !.body = v] \in Bodies
         /\ \A v \in 0..Window : [b EXCEPT !.quiet = v] \in Bodies
         /\ [b EXCEPT !.advanced = TRUE] \in Bodies /\ [b EXCEPT !.advanced = FALSE] \in Bodies
         /\ \A v \in Nat : [b EXCEPT !.resumes = v] \in Bodies
<1>1. \A v \in Seq(1..Pieces) : [b EXCEPT !.got = v] \in Bodies
  BY DEF Bodies
<1>2. \A v \in 1..Pieces + 1 : [b EXCEPT !.from = v] \in Bodies
  BY DEF Bodies
<1>3. \A v \in {"open", "broken", "resuming"} : [b EXCEPT !.body = v] \in Bodies
  BY DEF Bodies
<1>4. \A v \in 0..Window : [b EXCEPT !.quiet = v] \in Bodies
  BY DEF Bodies
<1>5. [b EXCEPT !.advanced = TRUE] \in Bodies /\ [b EXCEPT !.advanced = FALSE] \in Bodies
  BY DEF Bodies
<1>6. \A v \in Nat : [b EXCEPT !.resumes = v] \in Bodies
  BY DEF Bodies
<1>. QED
  BY <1>1, <1>2, <1>3, <1>4, <1>5, <1>6

\* The empty beginning of a transfer is sound.
LEMMA FreshIsSound == Fresh \in SoundBodies
<1>1. <<>> \in Seq(1..Pieces) /\ Len(<<>>) = 0
  OBVIOUS
<1>2. <<>> = [i \in 1..0 |-> i]
  OBVIOUS
<1>. QED
  BY <1>1, <1>2, DownloadsAssumption DEF Fresh, SoundBodies, Sound, Bodies

\* Handing over the next piece (resumingBody.Read) keeps the order.
LEMMA DeliverIsSound ==
  ASSUME NEW b \in SoundBodies, b.body = "open", b.from <= Pieces
  PROVE  [b EXCEPT !.got = Append(@, b.from), !.from = @ + 1, !.quiet = 0, !.advanced = TRUE] \in SoundBodies
<1>. DEFINE q == Append(b.got, b.from)
            d1 == [b EXCEPT !.got = q]
            d2 == [d1 EXCEPT !.from = b.from + 1]
            d3 == [d2 EXCEPT !.quiet = 0]
            d == [d3 EXCEPT !.advanced = TRUE]
<1>1. b \in Bodies /\ Sound(b) /\ b.got \in Seq(1..Pieces) /\ b.from \in 1..Pieces /\ b.resumes \in Nat
  BY DownloadsAssumption DEF SoundBodies, Bodies
<1>2. q \in Seq(1..Pieces) /\ Len(q) = Len(b.got) + 1 /\ Len(b.got) \in Nat
  BY <1>1
<1>3. b.from = Len(b.got) + 1
  BY <1>1 DEF Sound
<1>4. q = [i \in 1..Len(q) |-> i]
  <2>1. \A i \in 1..Len(b.got) : b.got[i] = i
    BY <1>1 DEF Sound
  <2>2. \A i \in 1..Len(q) : q[i] = i
    BY <1>1, <1>2, <1>3, <2>1
  <2>. QED
    BY <1>2, <2>2
<1>5. b.resumes < Len(q) /\ b.from + 1 = Len(q) + 1
  BY <1>1, <1>2, <1>3 DEF Sound
<1>6. b.from + 1 \in 1..Pieces + 1 /\ 0 \in 0..Window
  BY <1>1, DownloadsAssumption
<1>. HIDE DEF q
<1>7. d1 \in Bodies /\ d1.got = q /\ d1.body = b.body /\ d1.resumes = b.resumes
  <2>1. d1 \in Bodies
    BY <1>1, <1>2, OneField
  <2>. QED
    BY <1>1, <2>1 DEF Bodies
<1>. HIDE DEF d1
<1>8. d2 \in Bodies /\ d2.got = q /\ d2.body = b.body /\ d2.resumes = b.resumes /\ d2.from = b.from + 1
  <2>1. d2 \in Bodies
    BY <1>6, <1>7, OneField
  <2>. QED
    BY <1>6, <1>7, <2>1 DEF Bodies
<1>. HIDE DEF d2
<1>9. d3 \in Bodies /\ d3.got = q /\ d3.body = b.body /\ d3.resumes = b.resumes /\ d3.from = b.from + 1
  <2>1. d3 \in Bodies
    BY <1>6, <1>8, OneField
  <2>. QED
    BY <1>8, <2>1 DEF Bodies
<1>. HIDE DEF d3
<1>10. d \in Bodies /\ d.got = q /\ d.body = b.body /\ d.resumes = b.resumes /\ d.from = b.from + 1
  <2>1. d \in Bodies
    BY <1>9, OneField
  <2>. QED
    BY <1>9, <2>1 DEF Bodies
<1>. HIDE DEF d
<1>11. Sound(d)
  BY <1>1, <1>2, <1>4, <1>5, <1>10 DEF Sound
<1>. QED
  BY <1>10, <1>11 DEF SoundBodies, d, d3, d2, d1, q

\* Losing the connection keeps what was read.
LEMMA DropIsSound ==
  ASSUME NEW b \in SoundBodies, b.body = "open"
  PROVE  [b EXCEPT !.body = "broken"] \in SoundBodies
  BY DEF SoundBodies, Bodies, Sound

\* So does time, and the interruption by the watchdog or the user.
LEMMA TickIsSound ==
  ASSUME NEW b \in SoundBodies, b.quiet < Window
  PROVE  [b EXCEPT !.quiet = @ + 1] \in SoundBodies
<1>. DEFINE n == b.quiet + 1
            d == [b EXCEPT !.quiet = n]
<1>1. b \in Bodies /\ Sound(b)
  BY DEF SoundBodies
<1>2. n \in 0..Window
  BY <1>1, DownloadsAssumption DEF Bodies
<1>. HIDE DEF n
<1>3. /\ d \in Bodies /\ d.got = b.got /\ d.body = b.body /\ d.resumes = b.resumes /\ d.from = b.from
      /\ d.advanced <=> b.advanced
  BY <1>1, <1>2, OneField DEF Bodies
<1>. HIDE DEF d
<1>4. Sound(d)
  BY <1>1, <1>3 DEF Sound
<1>. QED
  BY <1>3, <1>4 DEF SoundBodies, d, n

\* A body whose connection breaks holds a prefix of the release, or nothing.
LEMMA InterruptedIsSound ==
  ASSUME NEW b \in SoundBodies
  PROVE  Interrupted(b) \in SoundBodies
  BY DEF SoundBodies, Bodies, Sound, Interrupted

\* A repair is paid for by the piece that came since the last one (resumable).
LEMMA ResumeIsSound ==
  ASSUME NEW b \in SoundBodies, b.body = "broken", b.advanced
  PROVE  [b EXCEPT !.body = "resuming", !.resumes = @ + 1] \in SoundBodies
<1>. DEFINE n == b.resumes + 1
            d1 == [b EXCEPT !.body = "resuming"]
            d == [d1 EXCEPT !.resumes = n]
<1>1. b \in Bodies /\ Sound(b) /\ Len(b.got) \in Nat
  BY DEF SoundBodies, Bodies
<1>2. n \in Nat /\ n <= Len(b.got)
  BY <1>1 DEF Sound, Bodies
<1>. HIDE DEF n
<1>3. d1 \in Bodies /\ d1.got = b.got /\ d1.body = "resuming"
  BY <1>1, OneField DEF Bodies
<1>. HIDE DEF d1
<1>4. d \in Bodies /\ d.got = b.got /\ d.body = "resuming" /\ d.resumes = n
  BY <1>2, <1>3, OneField DEF Bodies
<1>. HIDE DEF d
<1>5. Sound(d)
  BY <1>1, <1>2, <1>4 DEF Sound
<1>. QED
  BY <1>4, <1>5 DEF SoundBodies, d, d1, n

\* Only an answer that continues is read (resume, swap); any other leaves the body broken.
LEMMA AnswerIsSound ==
  ASSUME NEW b \in SoundBodies, NEW status \in {200, 206}, NEW start \in 1..Pieces
  PROVE  /\ Continues(b, status, start) => Swapped(b, start) \in SoundBodies
         /\ [b EXCEPT !.body = "broken", !.advanced = FALSE] \in SoundBodies
<1>1. b \in Bodies /\ Sound(b) /\ start \in 1..Pieces + 1
  BY DownloadsAssumption DEF SoundBodies
<1>2. [b EXCEPT !.body = "broken", !.advanced = FALSE] \in SoundBodies
  BY DEF SoundBodies, Bodies, Sound
<1>3. ASSUME start = Len(b.got) + 1
      PROVE  [b EXCEPT !.body = "open", !.from = start, !.advanced = FALSE] \in SoundBodies
  <2>. DEFINE d1 == [b EXCEPT !.body = "open"]
              d2 == [d1 EXCEPT !.from = start]
              d == [d2 EXCEPT !.advanced = FALSE]
  <2>1. d1 \in Bodies /\ d1.got = b.got /\ d1.resumes = b.resumes
    <3>1. d1 \in Bodies
      BY <1>1, OneField
    <3>. QED
      BY <1>1, <3>1 DEF Bodies
  <2>. HIDE DEF d1
  <2>2. d2 \in Bodies /\ d2.got = b.got /\ d2.resumes = b.resumes /\ d2.from = start
    <3>1. d2 \in Bodies
      BY <1>1, <2>1, OneField
    <3>. QED
      BY <2>1, <3>1, <1>1 DEF Bodies
  <2>. HIDE DEF d2
  <2>3. d \in Bodies /\ d.got = b.got /\ d.resumes = b.resumes /\ d.from = start /\ ~d.advanced
    <3>1. d \in Bodies
      BY <2>2, OneField
    <3>2. d.got = d2.got /\ d.resumes = d2.resumes /\ d.from = d2.from
      BY <2>2 DEF Bodies
    <3>3. d.advanced = FALSE
      BY <2>2 DEF Bodies
    <3>. QED
      BY <2>2, <3>1, <3>2, <3>3
  <2>. HIDE DEF d
  <2>4. Sound(d)
    BY <1>1, <1>3, <2>3 DEF Sound
  <2>. QED
    BY <2>3, <2>4 DEF SoundBodies, d, d2, d1
<1>. QED
  BY <1>2, <1>3 DEF Continues, Swapped
-----------------------------------------------------------------------------
(* The calls.                                                              *)

\* The states of a process without a transfer.
LEMMA IdleStep == Idle \in Steps /\ Swapping \in Steps /\ Idle.op = "idle" /\ Swapping.op = "restart"
  BY DEF Steps, Idle, Swapping

\* Which states a process with a given operation is in.
LEMMA StepOps ==
  ASSUME NEW r \in Steps
  PROVE  /\ r.op \in {"idle", "install", "update", "restart"}
         /\ r.op = "idle" <=> r = Idle
         /\ r.op = "restart" <=> r = Swapping
  BY DEF Steps, Idle, Swapping, SoundTransfers, Verifying, Verifieds, Placing

\* The app of a behaviour does not change, nor does what is verified of it.
LEMMA SameSteps ==
  ASSUME UNCHANGED app
  PROVE  Steps' = Steps
<1>1. Offer' = Offer
  BY DEF Offer, OfferChatGPT, OfferClaude, OfferDSH, OfferKimi, OfferWorkBuddy, OfferZCode
<1>. QED
  BY <1>1 DEF Steps, SoundTransfers, Verifying, Verifieds, Verified, Placing, SoundBodies, Bodies, Sound,
              Idle, Swapping, Files

\* The stage tells the form of the record.
LEMMA Forms ==
  ASSUME NEW r \in Steps
  PROVE  /\ r.pc = "transfer" => r \in SoundTransfers
         /\ r.pc = "verify" => r \in Verifying
         /\ r.pc \in {"place", "copying"} => r \in Verifieds
         /\ r.pc = "swap" => r = Swapping
         /\ r.pc = "none" => r = Idle
  BY DEF Steps, Idle, Swapping, SoundTransfers, Verifying, Verifieds, Placing

\* A process that goes on changes its own state only.
LEMMA Going ==
  ASSUME Typed, NEW c \in Procs, NEW r \in Steps, Goes(c, r)
  PROVE  /\ calls' \in [Procs -> Steps]
         /\ calls'[c] = r
         /\ \A d \in Procs : d # c => calls'[d] = calls[d]
  BY DEF Typed, Goes

\* A transfer whose body changes soundly is still a transfer of the same call.
LEMMA Moving ==
  ASSUME Typed, NEW c \in Procs, Transfers(c)
  PROVE  /\ Body(c) \in SoundBodies
         /\ \A b \in SoundBodies : /\ [calls[c] EXCEPT !.body = b] \in Steps
                                  /\ [calls[c] EXCEPT !.body = b].op = calls[c].op
<1>1. calls[c] \in SoundTransfers
  BY Forms DEF Typed, Transfers
<1>. QED
  BY <1>1 DEF SoundTransfers, Body, Steps

\* A call that stays the call it is, next to files, window and gate that stay, keeps the invariant.
LEMMA SameCall ==
  ASSUME IInv, NEW c \in Procs, NEW r \in Steps, r.op = calls[c].op, Goes(c, r),
         UNCHANGED <<app, system, place, update, gate>>
  PROVE  IInv'
<1>1. /\ calls' \in [Procs -> Steps]
      /\ \A d \in Procs : calls'[d].op = calls[d].op
  BY Going DEF IInv
<1>2. \A d \in Procs : calls'[d] = Idle <=> calls[d] = Idle
  BY <1>1, StepOps DEF IInv, Typed
<1>3. Typed'
  BY <1>1, SameSteps DEF IInv, Typed, Updates, Gates, Bundles, Places, Kinds, Parts
<1>4. Single'
  BY <1>1, <1>2 DEF IInv, Single
<1>5. NoCopyYet' /\ Shown'
  BY <1>1 DEF IInv, NoCopyYet, Shown, OneWholeCopy, WholeCopy, Places
<1>6. Gated'
  BY <1>1 DEF IInv, Gated, GateReopens
<1>. QED
  BY <1>3, <1>4, <1>5, <1>6 DEF IInv

\* The steps of a transfer.
LEMMA StreamSteps ==
  ASSUME IInv, NEW c \in Procs,
         Deliver(c) \/ Drop(c) \/ Tick(c) \/ Watch(c) \/ Resume(c) \/ Answer(c)
  PROVE  IInv'
<1>1. Transfers(c) /\ Typed
  BY DEF IInv, Deliver, Drop, Tick, Watch, Resume, Answer, Reading, At, Transfers
<1>2. Body(c) \in SoundBodies
  BY <1>1, Moving
<1>3. ASSUME NEW b \in SoundBodies, Moves(c, b), StreamOnly
      PROVE  IInv'
  <2>. DEFINE r == [calls[c] EXCEPT !.body = b]
  <2>1. r \in Steps /\ r.op = calls[c].op
    BY <1>1, <1>3, Moving
  <2>. HIDE DEF r
  <2>. QED
    BY <1>3, <2>1, SameCall DEF Moves, StreamOnly, r
<1>4. CASE Deliver(c)
  BY <1>2, <1>3, <1>4, DeliverIsSound DEF Deliver, Reading
<1>5. CASE Drop(c)
  BY <1>2, <1>3, <1>5, DropIsSound DEF Drop, Reading
<1>6. CASE Tick(c)
  BY <1>2, <1>3, <1>6, TickIsSound DEF Tick
<1>7. CASE Watch(c)
  BY <1>2, <1>3, <1>7, InterruptedIsSound DEF Watch
<1>8. CASE Resume(c)
  BY <1>2, <1>3, <1>8, ResumeIsSound DEF Resume, Resumable
<1>9. CASE Answer(c)
  <2>1. PICK status \in {200, 206}, start \in 1..Pieces :
          Moves(c, IF Continues(Body(c), status, start) THEN Swapped(Body(c), start)
                   ELSE [Body(c) EXCEPT !.body = "broken", !.advanced = FALSE])
    BY <1>9 DEF Answer
  <2>2. StreamOnly
    BY <1>9 DEF Answer
  <2>3. CASE Continues(Body(c), status, start)
    BY <1>2, <1>3, <2>1, <2>2, <2>3, AnswerIsSound
  <2>4. CASE ~Continues(Body(c), status, start)
    BY <1>2, <1>3, <2>1, <2>2, <2>4, AnswerIsSound
  <2>. QED
    BY <2>3, <2>4
<1>. QED
  BY <1>4, <1>5, <1>6, <1>7, <1>8, <1>9

\* The body ends, and the download is about to be verified.
LEMMA EndStep ==
  ASSUME IInv, NEW c \in Procs, End(c)
  PROVE  IInv'
<1>1. calls[c] \in SoundTransfers
  BY Forms DEF IInv, Typed, End, Reading, Transfers
<1>2. PICK file \in Files :
        Goes(c, [op |-> calls[c].op, pc |-> "verify", cancelled |-> FALSE, file |-> file, whole |-> Body(c).from > Pieces])
  BY DEF End
<1>. DEFINE w == Body(c).from > Pieces
            r == [op |-> calls[c].op, pc |-> "verify", cancelled |-> FALSE, file |-> file, whole |-> w]
<1>3. w \in BOOLEAN /\ calls[c].op \in {"install", "update"}
  BY <1>1 DEF SoundTransfers
<1>. HIDE DEF w
<1>4. r \in Steps /\ r.op = calls[c].op
  BY <1>3 DEF Steps, Verifying
<1>. HIDE DEF r
<1>. QED
  BY <1>2, <1>4, SameCall DEF End, StreamOnly, r, w

\* Only what passes verification gets a place (Passes names a check for each app with an offer).
LEMMA VerifyStep ==
  ASSUME IInv, NEW c \in Procs, Verify(c)
  PROVE  IInv'
<1>. DEFINE r == [op |-> "install", pc |-> "place", cancelled |-> FALSE, next |-> 1,
                  file |-> calls[c].file, whole |-> calls[c].whole]
<1>1. calls[c] \in Verifying /\ calls[c].op = "install"
  BY Forms DEF IInv, Typed, Verify, At
<1>2. Passes(calls[c].file, calls[c].whole) /\ app # "claude"
  BY <1>1 DEF Verify, IInv, NoCopyYet
<1>3. app \in {"chatgpt", "dsh", "kimi", "workbuddy", "zcode"} /\ system \in {"macos", "windows"}
  BY <1>2, DownloadsAssumption DEF IInv, Typed
<1>4. calls[c].file \in Files /\ calls[c].whole \in BOOLEAN
  BY <1>1 DEF Verifying
<1>5. Signed(calls[c].file, calls[c].whole) => calls[c].whole /\ calls[c].file # "foreign"
  BY <1>3 DEF Signed, SignedOnMac, SignedOnWindows
<1>6. Verified(calls[c].file, calls[c].whole)
  BY <1>2, <1>3, <1>5 DEF Passes, PassesChatGPT, PassesDSH, PassesKimi, PassesWorkBuddy, PassesZCode, Digest,
     Verified, Offer, OfferChatGPT, OfferDSH, OfferKimi, OfferWorkBuddy, OfferZCode
<1>7. r \in Steps /\ r.op = calls[c].op
  BY <1>1, <1>4, <1>6 DEF Steps, Verifieds, Placing
<1>. HIDE DEF r
<1>. QED
  BY <1>7, SameCall DEF Verify, r

\* Another destination, or a cancelled context, changes nothing that verification established.
LEMMA PlacingSteps ==
  ASSUME IInv, NEW c \in Procs, PassOver(c) \/ CopyFails(c) \/ Cancel(c)
  PROVE  IInv'
<1>1. CASE PassOver(c)
  <2>1. calls[c] \in Verifieds /\ calls[c].next \in Places /\ calls[c].pc = "place"
    BY <1>1, Forms DEF IInv, Typed, PassOver, At
  <2>2. calls[c].next + 1 \in 1..3
    BY <2>1 DEF Places
  <2>. DEFINE r == [calls[c] EXCEPT !.next = @ + 1]
  <2>3. r \in Steps /\ r.op = calls[c].op
    BY <2>1, <2>2 DEF Steps, Verifieds, Placing
  <2>. HIDE DEF r
  <2>. QED
    BY <1>1, <2>3, SameCall DEF PassOver, r
<1>2. CASE CopyFails(c)
  <2>1. calls[c] \in Verifieds /\ calls[c].pc = "copying"
    BY <1>2, Forms DEF IInv, Typed, CopyFails, At
  <2>2. calls[c].next + 1 \in 1..3
    BY <2>1 DEF Verifieds, Places
  <2>. DEFINE r == [calls[c] EXCEPT !.pc = "place", !.next = @ + 1]
  <2>3. r \in Steps /\ r.op = calls[c].op
    BY <2>1, <2>2 DEF Steps, Verifieds, Placing
  <2>. HIDE DEF r
  <2>. QED
    BY <1>2, <2>3, SameCall DEF CopyFails, r
<1>3. CASE Cancel(c)
  <2>1. CASE Transfers(c) /\ Moves(c, Interrupted(Body(c)))
    <3>. DEFINE r == [calls[c] EXCEPT !.body = Interrupted(Body(c))]
    <3>1. r \in Steps /\ r.op = calls[c].op
      BY <2>1, Moving, InterruptedIsSound DEF IInv
    <3>. HIDE DEF r
    <3>. QED
      BY <1>3, <2>1, <3>1, SameCall DEF Cancel, Moves, StreamOnly, r
  <2>2. CASE calls[c].pc \in {"verify", "place", "copying"} /\ Goes(c, [calls[c] EXCEPT !.cancelled = TRUE])
    <3>. DEFINE r == [calls[c] EXCEPT !.cancelled = TRUE]
    <3>1. calls[c] \in Verifying \cup Verifieds
      BY <2>2, Forms DEF IInv, Typed
    <3>2. ASSUME calls[c] \in Verifying
          PROVE  r \in Steps /\ r.op = calls[c].op
      BY <3>2 DEF Steps, Verifying
    <3>3. ASSUME calls[c] \in Verifieds
          PROVE  r \in Steps /\ r.op = calls[c].op
      BY <3>3 DEF Steps, Verifieds, Placing
    <3>4. r \in Steps /\ r.op = calls[c].op
      BY <3>1, <3>2, <3>3
    <3>. HIDE DEF r
    <3>. QED
      BY <1>3, <2>2, <3>4, SameCall DEF Cancel, StreamOnly, r
  <2>. QED
    BY <1>3, <2>1, <2>2 DEF Cancel
<1>. QED
  BY <1>1, <1>2, <1>3
-----------------------------------------------------------------------------
(* Beginnings, ends and the rest.                                          *)

\* A transfer that begins.
LEMMA FreshStep ==
  ASSUME NEW op \in {"install", "update"}
  PROVE  [op |-> op, pc |-> "transfer", body |-> Fresh] \in Steps
  BY FreshIsSound DEF Steps, SoundTransfers

\* A call of a kind that none is running joins the others.
LEMMA Joining ==
  ASSUME IInv, NEW c \in Procs, calls[c] = Idle, NEW r \in Steps, Goes(c, r), UNCHANGED <<app, system>>,
         \A d \in Procs : calls[d].op # r.op
  PROVE  /\ calls' \in [Procs -> Steps'] /\ Single'
         /\ calls'[c] = r
         /\ \A d \in Procs : d # c => calls'[d] = calls[d]
<1>1. /\ calls' \in [Procs -> Steps] /\ calls'[c] = r
      /\ \A d \in Procs : d # c => calls'[d] = calls[d]
  BY Going DEF IInv
<1>2. Single'
  BY <1>1 DEF IInv, Single
<1>. QED
  BY <1>1, <1>2, SameSteps

\* An install begins when no app is there: no whole copy is.
LEMMA InstallStep ==
  ASSUME IInv, NEW c \in Procs, Install(c)
  PROVE  IInv'
<1>. DEFINE r == [op |-> "install", pc |-> "transfer", body |-> Fresh]
<1>1. r \in Steps /\ r.op = "install"
  BY FreshStep
<1>. HIDE DEF r
<1>2. calls[c] = Idle /\ Goes(c, r) /\ \A d \in Procs : calls[d].op # "install"
  BY DEF Install, Begin, LockFree, r
<1>3. /\ calls' \in [Procs -> Steps'] /\ Single' /\ calls'[c] = r
      /\ \A d \in Procs : d # c => calls'[d] = calls[d]
  BY <1>1, <1>2, Joining DEF Install
<1>4. Typed'
  BY <1>3 DEF Install, IInv, Typed, Updates, Gates, Bundles, Places, Kinds, Parts
<1>5. app # "claude"
  BY DEF Install, Offer, OfferClaude
<1>6. ASSUME system = "macos", NEW p \in Places, place[p] = WholeCopy
      PROVE  FALSE
  <2>1. Found(p, Current) /\ Found(p, Current \cup {"legacy"})
    <3>1. WholeCopy \in Bundles /\ Has(p)
      BY <1>6, NoneAssumption DEF Has, Bundles, Kinds, Parts, WholeCopy
    <3>. QED
      BY <1>6, <3>1 DEF Found, Current, WholeCopy
  <2>2. app \in {"chatgpt", "claude", "dsh", "kimi", "workbuddy", "zcode"}
    BY DownloadsAssumption DEF IInv, Typed
  <2>3. Sees(p)
    BY <1>6, <2>1, <2>2 DEF Sees, SeesChatGPT, SeesClaude, SeesDSH, SeesKimi, SeesWorkBuddy, SeesZCode
  <2>. QED
    BY <1>6, <2>3 DEF Install, Installed
<1>7. NoCopyYet'
  BY <1>1, <1>2, <1>3, <1>5, <1>6 DEF Install, IInv, NoCopyYet, OneWholeCopy, WholeCopy, Places
<1>8. Shown' /\ Gated'
  BY <1>1, <1>2, <1>3, IdleStep DEF Install, IInv, Shown, Gated, GateReopens
<1>. QED
  BY <1>3, <1>4, <1>7, <1>8 DEF IInv

\* The download of an update begins when the window offers one, so that none is running.
LEMMA DownloadUpdateStep ==
  ASSUME IInv, NEW c \in Procs, DownloadUpdate(c)
  PROVE  IInv'
<1>. DEFINE r == [op |-> "update", pc |-> "transfer", body |-> Fresh]
<1>1. r \in Steps /\ r.op = "update"
  BY FreshStep
<1>. HIDE DEF r
<1>2. calls[c] = Idle /\ Goes(c, r)
  BY DEF DownloadUpdate, Begin, r
<1>3. \A d \in Procs : calls[d].op \notin {"update", "restart"}
  BY DEF DownloadUpdate, IInv, Shown
<1>4. /\ calls' \in [Procs -> Steps'] /\ Single' /\ calls'[c] = r
      /\ \A d \in Procs : d # c => calls'[d] = calls[d]
  BY <1>1, <1>2, <1>3, Joining DEF DownloadUpdate
<1>5. update' \in Updates /\ update'.shown = "loading"
  BY DEF DownloadUpdate, IInv, Typed, Updates
<1>6. Typed'
  BY <1>4, <1>5 DEF DownloadUpdate, IInv, Typed, Updates, Gates, Bundles, Places, Kinds, Parts
<1>7. NoCopyYet'
  BY <1>1, <1>4 DEF DownloadUpdate, IInv, NoCopyYet, OneWholeCopy, WholeCopy, Places
<1>8. Shown' /\ Gated'
  BY <1>1, <1>2, <1>3, <1>4, <1>5, IdleStep DEF DownloadUpdate, IInv, Shown, Gated, GateReopens
<1>. QED
  BY <1>4, <1>6, <1>7, <1>8 DEF IInv

\* A restart passes the gate alone (quitAwareUpdater.Restart).
LEMMA RestartStep ==
  ASSUME IInv, NEW c \in Procs, Restart(c)
  PROVE  IInv'
<1>1. calls[c] = Idle /\ Goes(c, Swapping)
  BY DEF Restart, Begin, Swapping
<1>2. \A d \in Procs : calls[d].op \notin {"update", "restart"}
  BY DEF Restart, IInv, Shown, Gated
<1>3. /\ calls' \in [Procs -> Steps'] /\ Single' /\ calls'[c] = Swapping
      /\ \A d \in Procs : d # c => calls'[d] = calls[d]
  BY <1>1, <1>2, IdleStep, Joining DEF Restart
<1>4. gate' \in Gates /\ gate'.restarting
  BY DEF Restart, IInv, Typed, Gates
<1>5. Typed'
  BY <1>3, <1>4 DEF Restart, IInv, Typed, Updates, Gates, Bundles, Places, Kinds, Parts
<1>6. NoCopyYet'
  BY <1>3, IdleStep DEF Restart, IInv, NoCopyYet, OneWholeCopy, WholeCopy, Places
<1>7. Shown' /\ Gated'
  BY <1>3, <1>4, IdleStep DEF Restart, IInv, Shown, Gated, GateReopens
<1>. QED
  BY <1>3, <1>5, <1>6, <1>7 DEF IInv

\* A call that ends leaves the others as they were.
LEMMA Leaving ==
  ASSUME IInv, NEW c \in Procs, Goes(c, Idle), UNCHANGED app
  PROVE  /\ calls' \in [Procs -> Steps'] /\ Single'
         /\ calls'[c] = Idle
         /\ \A d \in Procs : d # c => calls'[d] = calls[d]
<1>1. /\ calls' \in [Procs -> Steps] /\ calls'[c] = Idle
      /\ \A d \in Procs : d # c => calls'[d] = calls[d]
  BY Going, IdleStep DEF IInv
<1>2. Single'
  <2>. SUFFICES ASSUME NEW d \in Procs, NEW e \in Procs, d # e, calls'[d] # Idle
                PROVE  calls'[d].op # calls'[e].op
    BY DEF Single
  <2>1. calls'[d] = calls[d] /\ calls[d] # Idle /\ calls[d].op # "idle"
    BY <1>1, StepOps DEF IInv, Typed
  <2>. QED
    BY <1>1, <2>1, IdleStep DEF IInv, Single
<1>. QED
  BY <1>1, <1>2, SameSteps

\* A failed call, and an update that is staged, leave the window in a view that fits.
LEMMA EndingSteps ==
  ASSUME IInv, NEW c \in Procs, Fail(c) \/ StageUpdate(c)
  PROVE  IInv'
<1>1. Goes(c, Idle) /\ UNCHANGED <<app, system, place, gate>>
  BY DEF Fail, StageUpdate
<1>2. /\ calls' \in [Procs -> Steps'] /\ Single' /\ calls'[c] = Idle
      /\ \A d \in Procs : d # c => calls'[d] = calls[d]
  BY <1>1, Leaving
<1>3. calls[c].op \in {"install", "update"} /\ calls[c] # Idle
  BY Forms, IdleStep DEF IInv, Typed, Fail, Stuck, StageUpdate, At, Transfers, SoundTransfers, Verifieds, Placing
<1>4. \A d \in Procs : d # c => calls[d].op # calls[c].op
  BY <1>3 DEF IInv, Single
<1>5. /\ update' \in Updates
      /\ IF calls[c].op = "update" THEN update'.shown = "ready" => update'.staged = "app"
                                   ELSE update' = update
  BY DEF Fail, StageUpdate, At, Installable, IInv, Typed, Updates
<1>6. Typed'
  BY <1>1, <1>2, <1>5 DEF IInv, Typed, Updates, Gates, Bundles, Places, Kinds, Parts
<1>7. NoCopyYet'
  BY <1>1, <1>2, IdleStep DEF IInv, NoCopyYet, OneWholeCopy, WholeCopy, Places
<1>8. Shown'
  <2>1. CASE calls[c].op = "update"
    <3>1. \A d \in Procs : calls'[d].op \notin {"update", "restart"}
      BY <1>2, <1>4, <2>1, IdleStep DEF IInv, Shown
    <3>. QED
      BY <1>5, <2>1, <3>1 DEF Shown
  <2>2. CASE calls[c].op # "update"
    BY <1>2, <1>5, <2>2, IdleStep DEF IInv, Shown
  <2>. QED
    BY <2>1, <2>2
<1>9. Gated'
  BY <1>1, <1>2, <1>3, IdleStep DEF IInv, Gated, GateReopens
<1>. QED
  BY <1>2, <1>6, <1>7, <1>8, <1>9 DEF IInv

\* A restart that fails opens the gate again.
LEMMA RestartFailsStep ==
  ASSUME IInv, NEW c \in Procs, RestartFails(c)
  PROVE  IInv'
<1>1. /\ calls' \in [Procs -> Steps'] /\ Single' /\ calls'[c] = Idle
      /\ \A d \in Procs : d # c => calls'[d] = calls[d]
  BY Leaving DEF RestartFails
<1>2. calls[c].op = "restart" /\ calls[c] # Idle
  BY IdleStep DEF RestartFails, At
<1>3. \A d \in Procs : calls'[d].op # "restart"
  BY <1>1, <1>2, IdleStep DEF IInv, Single
<1>4. gate' \in Gates /\ ~gate'.restarting /\ ~gate'.quitting
  BY DEF RestartFails, Reopened, IInv, Typed, Gates
<1>5. Typed'
  BY <1>1, <1>4 DEF RestartFails, IInv, Typed, Updates, Gates, Bundles, Places, Kinds, Parts
<1>6. NoCopyYet' /\ Shown'
  BY <1>1, IdleStep DEF RestartFails, IInv, NoCopyYet, Shown, OneWholeCopy, WholeCopy, Places
<1>7. Gated'
  BY <1>3, <1>4 DEF Gated, GateReopens
<1>. QED
  BY <1>1, <1>5, <1>6, <1>7 DEF IInv

\* The bundles that a copy goes through.
LEMMA Bundling ==
  /\ WholeCopy \in Bundles /\ None # WholeCopy
  /\ \A k \in Kinds, t \in Parts :
       /\ [kind |-> k, part |-> t] \in Bundles
       /\ [kind |-> k, part |-> t] = WholeCopy <=> k = "bootagent" /\ t = "whole"
  BY NoneAssumption DEF Bundles, Kinds, Parts, WholeCopy

\* ditto at work: the bundle is not whole yet.
LEMMA CopyingSteps ==
  ASSUME IInv, NEW c \in Procs, Copy(c) \/ Write(c)
  PROVE  IInv'
<1>1. /\ calls[c] \in Verifieds /\ calls[c].next \in Places
      /\ UNCHANGED <<app, system, update, gate>>
  BY Forms DEF IInv, Typed, Copy, Write, At, Verifieds
<1>2. PICK t \in {"stub", "torn"} : place' = [place EXCEPT ![calls[c].next] = [kind |-> "bootagent", part |-> t]]
  BY DEF Copy, Write
<1>3. /\ calls' \in [Procs -> Steps]
      /\ \A d \in Procs : calls'[d].op = calls[d].op /\ (calls'[d] = Idle <=> calls[d] = Idle)
  <2>1. CASE Copy(c)
    <3>. DEFINE r == [calls[c] EXCEPT !.pc = "copying"]
    <3>1. r \in Steps /\ r.op = calls[c].op
      BY <1>1 DEF Steps, Verifieds, Placing
    <3>. HIDE DEF r
    <3>2. Goes(c, r)
      BY <2>1 DEF Copy, To, r
    <3>3. /\ calls' \in [Procs -> Steps]
          /\ \A d \in Procs : calls'[d].op = calls[d].op
      BY <3>1, <3>2, Going DEF IInv
    <3>. QED
      BY <3>3, StepOps DEF IInv, Typed
  <2>2. CASE Write(c)
    BY <2>2 DEF Write, IInv, Typed
  <2>. QED
    BY <2>1, <2>2
<1>4. system = "windows" => calls[c].next # 2
  <2>1. ASSUME Write(c), calls[c].next = 2, system = "windows"
        PROVE  FALSE
    <3>1. place[2] = None /\ place[2] = [kind |-> "bootagent", part |-> "stub"]
      BY <2>1 DEF Write, IInv, Typed
    <3>. QED
      BY <3>1, Bundling, NoneAssumption DEF Kinds, Parts
  <2>2. Copy(c) => system # "windows"
    BY DEF Copy
  <2>. QED
    BY <2>1, <2>2
<1>5. /\ place' \in [Places -> {None} \cup Bundles]
      /\ system = "windows" => place'[2] = None
      /\ \A p \in Places : place'[p] = WholeCopy => place[p] = WholeCopy
  BY <1>1, <1>2, <1>4, Bundling DEF IInv, Typed, Places, Kinds, Parts
<1>6. Typed'
  BY <1>1, <1>3, <1>5, SameSteps DEF IInv, Typed, Updates, Gates, Bundles, Places, Kinds, Parts
<1>7. Single'
  BY <1>3 DEF IInv, Single
<1>8. NoCopyYet'
  BY <1>1, <1>3, <1>5 DEF IInv, NoCopyYet, OneWholeCopy, WholeCopy, Places
<1>9. Shown' /\ Gated'
  BY <1>1, <1>3 DEF IInv, Shown, Gated, GateReopens
<1>. QED
  BY <1>6, <1>7, <1>8, <1>9 DEF IInv

\* An install ends with a whole copy: the only one.
LEMMA PlacedSteps ==
  ASSUME IInv, NEW c \in Procs, Copied(c) \/ StartInstaller(c)
  PROVE  IInv'
<1>1. Goes(c, Idle) /\ UNCHANGED <<app, system, update, gate>> /\ calls[c].op = "install"
  BY DEF Copied, StartInstaller, At
<1>2. /\ calls' \in [Procs -> Steps'] /\ Single' /\ calls'[c] = Idle
      /\ \A d \in Procs : d # c => calls'[d] = calls[d]
  BY <1>1, Leaving
<1>3. \A d \in Procs : calls'[d].op # "install"
  BY <1>1, <1>2, IdleStep DEF IInv, Single
<1>4. PICK p \in Places :
        /\ place' = place \/ place' = [place EXCEPT ![p] = WholeCopy]
        /\ system = "windows" => p = 1
  <2>1. CASE Copied(c)
    <3>1. calls[c].next \in Places /\ Has(calls[c].next)
      BY <2>1, Forms DEF IInv, Typed, Copied, At, Verifieds
    <3>2. system = "windows" => calls[c].next = 1
      BY <3>1 DEF IInv, Typed, Has, Places
    <3>. QED
      BY <2>1, <3>1, <3>2 DEF Copied, WholeCopy
  <2>2. CASE StartInstaller(c)
    BY <2>2 DEF StartInstaller, WholeCopy, Places
  <2>. QED
    BY <2>1, <2>2
<1>5. place' \in [Places -> {None} \cup Bundles] /\ (system = "windows" => place'[2] = None)
  BY <1>4, Bundling DEF IInv, Typed, Places
<1>6. OneWholeCopy'
  <2>1. system \in {"macos", "windows"}
    BY DownloadsAssumption DEF IInv, Typed
  <2>2. CASE system = "windows"
    BY <1>5, <2>2, Bundling DEF OneWholeCopy, WholeCopy, Places
  <2>3. CASE system = "macos"
    <3>1. \A q \in Places : place[q] # WholeCopy
      BY <1>1, <2>3 DEF IInv, NoCopyYet
    <3>2. PICK q \in Places : q # p
      BY DEF Places
    <3>3. place'[q] # WholeCopy
      BY <1>4, <3>1, <3>2 DEF IInv, Typed
    <3>. QED
      BY <3>3 DEF OneWholeCopy, WholeCopy, Places
  <2>. QED
    BY <2>1, <2>2, <2>3
<1>7. Typed'
  BY <1>1, <1>2, <1>5 DEF IInv, Typed, Updates, Gates, Bundles, Places, Kinds, Parts
<1>8. NoCopyYet'
  BY <1>3, <1>6 DEF NoCopyYet
<1>9. Shown' /\ Gated'
  BY <1>1, <1>2, IdleStep DEF IInv, Shown, Gated, GateReopens
<1>. QED
  BY <1>2, <1>7, <1>8, <1>9 DEF IInv

\* The check: a source that fails or knows of nothing hides no release of the official one.
LEMMA CheckUpdateStep ==
  ASSUME IInv, CheckUpdate
  PROVE  IInv'
<1>1. PICK prefers \in BOOLEAN, found \in Locations \cup {"undigested"}, a \in [Sources -> {"release", "nothing", "error"}] :
        update' = [shown |-> IF Answering(prefers, a) = "release" /\ found = "ok" THEN "found" ELSE "none", staged |-> None,
                   missed |-> a["official"] = "release" /\ Answering(prefers, a) # "release"]
  BY DEF CheckUpdate
<1>2. a["official"] = "release" => Answering(prefers, a) = "release"
  BY DEF Answering, Sources
<1>3. update' \in Updates /\ update'.shown \in {"none", "found"}
  BY <1>1, <1>2 DEF Updates
<1>4. \A d \in Procs : calls[d].op \notin {"update", "restart"}
  BY DEF CheckUpdate, IInv, Shown
<1>5. Typed'
  BY <1>3, SameSteps DEF CheckUpdate, IInv, Typed, Updates, Gates, Bundles, Places, Kinds, Parts
<1>6. Single' /\ NoCopyYet' /\ Gated'
  BY DEF CheckUpdate, IInv, Single, NoCopyYet, Gated, GateReopens, OneWholeCopy, WholeCopy, Places, Idle
<1>7. Shown'
  BY <1>3, <1>4 DEF CheckUpdate, Shown
<1>. QED
  BY <1>5, <1>6, <1>7 DEF IInv

\* A quit, the user's edits, and a ditto that outlived BootAgent.
LEMMA OutsideSteps ==
  ASSUME IInv, Quit \/ Edit \/ OrphanWrites
  PROVE  IInv'
<1>1. UNCHANGED <<app, system, update, calls>>
  BY DEF Quit, Edit, OrphanWrites
<1>2. /\ gate' \in Gates /\ gate'.restarting = gate.restarting
      /\ (gate'.quitting => gate.quitting \/ gate'.terminating) /\ (gate.terminating => gate'.terminating)
  BY DEF Quit, Edit, OrphanWrites, IInv, Typed, Gates
<1>3. /\ place' \in [Places -> {None} \cup Bundles] /\ (system = "windows" => place'[2] = None)
      /\ \A p \in Places : place'[p] = WholeCopy => place[p] = WholeCopy
  <2>1. CASE Quit
    BY <2>1 DEF Quit, IInv, Typed
  <2>2. CASE Edit
    <3>1. PICK p \in Places, b \in {None} \cup [kind : {"user"}, part : {"whole"}] :
            place' = [place EXCEPT ![p] = b] /\ (system = "windows" => p = 1)
      BY <2>2 DEF Edit
    <3>2. b \in {None} \cup Bundles /\ b # WholeCopy
      BY Bundling DEF Bundles, Kinds, Parts, WholeCopy
    <3>. QED
      BY <3>1, <3>2 DEF IInv, Typed, Places
  <2>3. CASE OrphanWrites
    <3>1. PICK p \in Places, t \in {"torn", "whole"} :
            Has(p) /\ place[p].kind = "orphan" /\ place' = [place EXCEPT ![p].part = t]
      BY <2>3 DEF OrphanWrites
    <3>2. place[p] \in Bundles
      BY <3>1 DEF Has, IInv, Typed
    <3>3. [place[p] EXCEPT !.part = t] \in Bundles /\ [place[p] EXCEPT !.part = t] # WholeCopy
      BY <3>1, <3>2 DEF Bundles, Kinds, Parts, WholeCopy
    <3>4. place' = [place EXCEPT ![p] = [place[p] EXCEPT !.part = t]]
      BY <3>1 DEF IInv, Typed
    <3>. QED
      BY <3>1, <3>3, <3>4 DEF IInv, Typed, Places, Has
  <2>. QED
    BY <2>1, <2>2, <2>3
<1>4. Typed'
  BY <1>1, <1>2, <1>3, SameSteps DEF IInv, Typed, Updates, Gates, Bundles, Places, Kinds, Parts
<1>5. NoCopyYet'
  BY <1>1, <1>3 DEF IInv, NoCopyYet, OneWholeCopy, WholeCopy, Places
<1>6. Single' /\ Shown'
  BY <1>1 DEF IInv, Single, Shown, Idle
<1>7. Gated'
  BY <1>1, <1>2 DEF IInv, Gated, GateReopens
<1>. QED
  BY <1>4, <1>5, <1>6, <1>7 DEF IInv

\* The end of the process ends every call; a copy that goes on is no longer BootAgent's.
LEMMA ExitStep ==
  ASSUME IInv, Exit
  PROVE  IInv'
<1>1. calls' \in [Procs -> Steps'] /\ \A d \in Procs : calls'[d] = Idle
  BY IdleStep, SameSteps DEF Exit
<1>2. /\ place' \in [Places -> {None} \cup Bundles] /\ (system = "windows" => place'[2] = None)
      /\ \A p \in Places : place'[p] = WholeCopy => place[p] = WholeCopy
  <2>1. \A p \in Places : place'[p] = place[p] \/ (Has(p) /\ place'[p] = [place[p] EXCEPT !.kind = "orphan"])
    BY DEF Exit
  <2>2. \A p \in Places : Has(p) => place[p] \in Bundles
    BY DEF Has, IInv, Typed
  <2>3. \A b \in Bundles : [b EXCEPT !.kind = "orphan"] \in Bundles /\ [b EXCEPT !.kind = "orphan"] # WholeCopy
    BY DEF Bundles, Kinds, Parts, WholeCopy
  <2>4. \A p \in Places : place'[p] \in {None} \cup Bundles /\ (place'[p] = WholeCopy => place[p] = WholeCopy)
    BY <2>1, <2>2, <2>3 DEF IInv, Typed
  <2>5. place' = [p \in Places |-> place'[p]]
    BY DEF Exit
  <2>6. system = "windows" => place'[2] = None
    BY <2>1 DEF Has, IInv, Typed, Places
  <2>. QED
    BY <2>4, <2>5, <2>6
<1>3. Typed'
  BY <1>1, <1>2 DEF Exit, Unchecked, Open, IInv, Typed, Updates, Gates, Bundles, Places, Kinds, Parts
<1>4. Single' /\ NoCopyYet' /\ Shown' /\ Gated'
  BY <1>1, <1>2, IdleStep DEF Exit, Unchecked, Open, IInv, Single, NoCopyYet, OneWholeCopy, WholeCopy, Places,
                              Shown, Gated, GateReopens
<1>. QED
  BY <1>3, <1>4 DEF IInv
-----------------------------------------------------------------------------
(* The theorems.                                                           *)

\* The initial states keep the invariant.
LEMMA Beginning ==
  ASSUME Init
  PROVE  IInv
<1>1. calls \in [Procs -> Steps] /\ \A d \in Procs : calls[d] = Idle
  BY IdleStep DEF Init
<1>2. Typed
  <2>1. PICK first \in {None} \cup [kind : {"user", "legacy", "foreign"}, part : {"whole"}] : place = <<first, None>>
    BY DEF Init
  <2>2. first \in {None} \cup Bundles
    BY DEF Bundles, Kinds, Parts
  <2>3. place \in [Places -> {None} \cup Bundles] /\ place[2] = None
    BY <2>1, <2>2 DEF Places
  <2>. QED
    BY <1>1, <2>3 DEF Init, Typed, Updates, Unchecked, Gates, Open
<1>3. OneWholeCopy
  BY Bundling DEF Init, OneWholeCopy, WholeCopy, Places
<1>. QED
  BY <1>1, <1>2, <1>3, IdleStep DEF Init, IInv, Single, NoCopyYet, Shown, Gated, GateReopens, Unchecked, Open

\* Every step keeps the invariant.
LEMMA Inductive == IInv /\ [Next]_vars => IInv'
<1>. SUFFICES ASSUME IInv, [Next]_vars
              PROVE  IInv'
  OBVIOUS
<1>1. CASE UNCHANGED vars
  <2>1. Typed'
    BY <1>1, SameSteps DEF vars, IInv, Typed, Places, Updates, Gates, Bundles, Kinds, Parts
  <2>2. Single' /\ Shown' /\ Gated'
    BY <1>1 DEF vars, IInv, Single, Shown, Gated, GateReopens, Idle
  <2>3. NoCopyYet'
    BY <1>1 DEF vars, IInv, NoCopyYet, OneWholeCopy, WholeCopy, Places
  <2>. QED
    BY <2>1, <2>2, <2>3 DEF IInv
<1>2. ASSUME NEW c \in Procs,
             \/ Deliver(c) \/ Drop(c) \/ End(c) \/ Tick(c) \/ Watch(c) \/ Resume(c) \/ Answer(c)
             \/ Install(c) \/ Verify(c) \/ PassOver(c) \/ Copy(c) \/ Write(c) \/ Copied(c) \/ CopyFails(c)
             \/ StartInstaller(c) \/ DownloadUpdate(c) \/ StageUpdate(c) \/ Restart(c) \/ RestartFails(c)
             \/ Cancel(c) \/ Fail(c)
      PROVE  IInv'
  BY <1>2, StreamSteps, EndStep, VerifyStep, PlacingSteps, CopyingSteps, PlacedSteps, InstallStep,
     DownloadUpdateStep, RestartStep, EndingSteps, RestartFailsStep
<1>3. CASE CheckUpdate \/ Quit \/ Edit \/ Exit \/ OrphanWrites
  BY <1>3, CheckUpdateStep, OutsideSteps, ExitStep
<1>. QED
  BY <1>1, <1>2, <1>3 DEF Next

THEOREM InvariantHolds == Spec => []IInv
  BY Beginning, Inductive, PTL DEF Spec

\* What every reachable state keeps: the types and the forms of the calls, one copy of an app
\* (InstallDesktopAgent), no release hidden by a mirror (updateProvider.Check), an application to swap
\* in (stagedArtifactError) and a gate that reopens (quitAwareUpdater).
THEOREM DownloadsStaySafe == Spec => []DownloadsSafe
<1>1. IInv => DownloadsSafe
  <2>. SUFFICES ASSUME IInv
                PROVE  DownloadsSafe
    OBVIOUS
  <2>1. \A c \in Procs : calls[c] \in {Idle, Swapping} \cup Transferring \cup Verifying \cup Placing
    BY DEF IInv, Typed, Steps, SoundTransfers, SoundBodies, Transferring, Verifieds
  <2>2. TypeOK
    BY <2>1 DEF TypeOK, IInv, Typed, Single
  <2>3. OneWholeCopy /\ NoReleaseIsHidden /\ RestartSwapsApp /\ GateReopens
    BY DEF IInv, Typed, NoCopyYet, Shown, Gated, Updates, NoReleaseIsHidden, RestartSwapsApp
  <2>. QED
    BY <2>2, <2>3 DEF DownloadsSafe
<1>. QED
  BY <1>1, InvariantHolds, PTL

\* However often the connection drops, the updater is handed the pieces in order, and every
\* repair is paid for by a piece (resumingBody).
THEOREM TransfersStaySound == Spec => []TransfersSound
<1>1. IInv => TransfersSound
  <2>. SUFFICES ASSUME IInv, NEW c \in Procs, Transfers(c)
                PROVE  /\ Body(c).got = [i \in 1..Len(Body(c).got) |-> i]
                       /\ Body(c).resumes <= Len(Body(c).got)
    BY DEF TransfersSound, HandedOverInOrder, RepairsArePaid
  <2>1. Sound(Body(c))
    BY Moving DEF IInv, SoundBodies
  <2>. QED
    BY <2>1 DEF Sound
<1>. QED
  BY <1>1, InvariantHolds, PTL

\* What is copied or started passed the checks of its app (Install, the verifications).
THEOREM UsedIsVerified == Spec => []OnlyVerifiedIsUsed
<1>1. IInv => OnlyVerifiedIsUsed
  <2>. SUFFICES ASSUME IInv, NEW c \in Procs, calls[c].pc \in {"place", "copying"}
                PROVE  /\ calls[c].whole /\ calls[c].file # "foreign"
                       /\ [digest |-> TRUE] \in Offer => calls[c].file = "named"
    BY DEF OnlyVerifiedIsUsed
  <2>1. calls[c] \in Verifieds
    BY Forms DEF IInv, Typed
  <2>. QED
    BY <2>1 DEF Verifieds, Verified
<1>. QED
  BY <1>1, InvariantHolds, PTL

\* A step leaves the body of an abandoned transfer closed to the reader (swap, stallReader.Read).
LEMMA AbandonedStep ==
  ASSUME IInv, [Next]_vars, NEW c \in Procs, Transfers(c), Body(c).closed, Transfers(c)'
  PROVE  Body(c).got = Body(c)'.got /\ (Body(c).body # "open" => Body(c)'.body # "open")
<1>. DEFINE Kept == Body(c).got = Body(c)'.got /\ (Body(c).body # "open" => Body(c)'.body # "open")
<1>0. Body(c) \in Bodies /\ calls[c] \in SoundTransfers /\ calls \in [Procs -> Steps]
  BY Moving, Forms DEF IInv, Typed, SoundBodies, Transfers
<1>1. ASSUME calls'[c] = calls[c]
      PROVE  Kept
  BY <1>1 DEF Body
<1>2. ASSUME NEW b, Moves(c, b), b.got = Body(c).got, Body(c).body # "open" => b.body # "open"
      PROVE  Kept
  <2>1. calls'[c] = [calls[c] EXCEPT !.body = b]
    BY <1>0, <1>2 DEF Moves, Goes
  <2>2. Body(c)' = b
    BY <1>0, <2>1 DEF Body, SoundTransfers
  <2>. QED
    BY <1>2, <2>2
<1>3. ASSUME NEW r, Goes(c, r), r.pc # "transfer"
      PROVE  FALSE
  BY <1>0, <1>3 DEF Goes, Transfers
<1>4. CASE UNCHANGED vars \/ CheckUpdate \/ Quit \/ Edit \/ OrphanWrites
  BY <1>1, <1>4 DEF vars, CheckUpdate, Quit, Edit, OrphanWrites
<1>5. CASE Exit
  BY <1>5, IdleStep DEF Exit, Idle, Transfers
<1>6. ASSUME NEW d \in Procs, d # c, NEW r, Goes(d, r)
      PROVE  Kept
  BY <1>0, <1>1, <1>6 DEF Goes
<1>7. ASSUME NEW d \in Procs,
             \/ Deliver(d) \/ Drop(d) \/ End(d) \/ Tick(d) \/ Watch(d) \/ Resume(d) \/ Answer(d)
             \/ Cancel(d) \/ Fail(d)
      PROVE  Kept
  <2>1. CASE d # c
    BY <1>6, <1>7, <2>1 DEF Deliver, Drop, End, Tick, Watch, Resume, Answer, Cancel, Fail, Moves
  <2>2. CASE d = c
    <3>1. ~Deliver(c) /\ ~Drop(c) /\ ~End(c) /\ ~Resume(c)
      BY DEF Deliver, Drop, End, Resume, Reading, Resumable
    <3>2. CASE Tick(c)
      BY <1>0, <1>2, <3>2 DEF Tick, Bodies
    <3>3. Interrupted(Body(c)).got = Body(c).got /\ Interrupted(Body(c)).body = Body(c).body
      BY <1>0 DEF Interrupted, Bodies
    <3>4. CASE Watch(c)
      BY <1>2, <3>3, <3>4 DEF Watch
    <3>5. CASE Answer(c)
      <4>1. PICK status \in {200, 206}, start \in 1..Pieces :
              Moves(c, IF Continues(Body(c), status, start) THEN Swapped(Body(c), start)
                       ELSE [Body(c) EXCEPT !.body = "broken", !.advanced = FALSE])
        BY <3>5 DEF Answer
      <4>2. Moves(c, [Body(c) EXCEPT !.body = "broken", !.advanced = FALSE])
        BY <4>1 DEF Swapped
      <4>3. /\ [Body(c) EXCEPT !.body = "broken", !.advanced = FALSE].got = Body(c).got
            /\ [Body(c) EXCEPT !.body = "broken", !.advanced = FALSE].body = "broken"
        BY <1>0 DEF Bodies
      <4>. QED
        BY <1>2, <4>2, <4>3
    <3>6. CASE Cancel(c)
      BY <1>2, <3>3, <3>6 DEF Cancel, Transfers
    <3>7. CASE Fail(c)
      BY <1>3, <3>7 DEF Fail, Idle
    <3>. QED
      BY <1>7, <2>2, <3>1, <3>2, <3>4, <3>5, <3>6, <3>7
  <2>. QED
    BY <2>1, <2>2
<1>8. ASSUME NEW d \in Procs,
             \/ Install(d) \/ Verify(d) \/ PassOver(d) \/ Copy(d) \/ Write(d) \/ Copied(d) \/ CopyFails(d)
             \/ StartInstaller(d) \/ DownloadUpdate(d) \/ StageUpdate(d) \/ Restart(d) \/ RestartFails(d)
      PROVE  Kept
  <2>1. CASE Write(d)
    BY <1>1, <2>1 DEF Write
  <2>2. CASE Install(d) \/ DownloadUpdate(d) \/ Restart(d)
    <3>1. calls[d] = Idle
      BY <2>2 DEF Install, DownloadUpdate, Restart, Begin
    <3>2. d # c
      BY <3>1 DEF Idle, Transfers
    <3>. QED
      BY <1>6, <2>2, <3>2 DEF Install, DownloadUpdate, Restart, Begin
  <2>3. CASE \/ Verify(d) \/ PassOver(d) \/ Copy(d) \/ Copied(d) \/ CopyFails(d)
             \/ StartInstaller(d) \/ StageUpdate(d) \/ RestartFails(d)
    <3>1. calls[d].pc # "transfer"
      BY <2>3 DEF Verify, PassOver, Copy, Copied, CopyFails, StartInstaller, StageUpdate, RestartFails, At
    <3>2. d # c
      BY <3>1 DEF Transfers
    <3>. QED
      BY <1>6, <2>3, <3>2 DEF Verify, PassOver, Copy, Copied, CopyFails, StartInstaller, StageUpdate, RestartFails, To
  <2>. QED
    BY <1>8, <2>1, <2>2, <2>3
<1>. QED
  BY <1>4, <1>5, <1>7, <1>8 DEF Next

\* A transfer that was given up is never read from again, whatever answers come later (swap).
THEOREM AbandonedIsNeverRead == Spec => AbandonedStaysClosed
<1>1. IInv /\ [Next]_vars =>
        [\A c \in Procs : (Transfers(c) /\ Body(c).closed /\ Transfers(c)')
           => (Body(c).got = Body(c)'.got /\ (Body(c).body # "open" => Body(c)'.body # "open"))]_vars
  BY AbandonedStep
<1>. QED
  BY <1>1, InvariantHolds, PTL DEF Spec, AbandonedStaysClosed
=============================================================================
