--------------------------- MODULE AtomicRegister ---------------------------
(***************************************************************************)
(* What securefs.Store.AtomicWrite promises to its callers: a reader of    *)
(* the file finds a complete value at any time, a write replaces it at     *)
(* most once and in one step, a write that reports success did replace it, *)
(* and a crash leaves one of the two values.  A write that reports a       *)
(* failure may have replaced it too.                                       *)
(***************************************************************************)
CONSTANTS Values,  \* contents of the file, one of them the lack of a file
          NoCall   \* nobody is writing

VARIABLES value,   \* what a reader finds
          call,    \* the write under way
          result   \* how the last write ended

vars == <<value, call, result>>

Init == /\ value \in Values
        /\ call = NoCall
        /\ result = "none"

Ask == /\ call = NoCall
       /\ \E v \in Values : call' = [want |-> v, published |-> FALSE]
       /\ result' = "none"
       /\ UNCHANGED value

Publish == /\ call # NoCall /\ ~call.published
           /\ value' = call.want
           /\ call' = [want |-> call.want, published |-> TRUE]
           /\ UNCHANGED result

Return == /\ call # NoCall
          /\ call' = NoCall
          /\ \/ call.published /\ result' = "ok"
             \/ result' \in {"failed", "none"}
          /\ UNCHANGED value

\* Somebody else replaces or removes the file; nobody else has this call's content.
Edit == /\ value' \in Values
        /\ call # NoCall => value' # call.want
        /\ UNCHANGED <<call, result>>

\* The result of an earlier write is nobody's concern any more.
Forget == result' = "none" /\ UNCHANGED <<value, call>>

Next == Ask \/ Publish \/ Return \/ Edit \/ Forget

Spec == Init /\ [][Next]_vars
=============================================================================
