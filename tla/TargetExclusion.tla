-------------------------- MODULE TargetExclusion --------------------------
(***************************************************************************)
(* What the locks of app.UseCases promise to the files they protect,       *)
(* without saying how: BootAgent's own records and the Agent configuration *)
(* files have one writer at a time, and the npm or uv tree of one Agent    *)
(* has one package-manager command at a time.  A call may hold both kinds  *)
(* of permission, and it hands one over to the other in a single step when *)
(* an installation moves on from the package to its records.               *)
(***************************************************************************)
CONSTANTS Calls,    \* the calls served by the backend
          Agents,   \* the Agents whose packages are managed
          Free      \* the value of a permission nobody holds

VARIABLES writer,   \* the call writing records and configuration files
          mutator   \* per Agent, the call running a package-manager command

vars == <<writer, mutator>>

Init == /\ writer = Free
        /\ mutator = [a \in Agents |-> Free]

TakeWriter(c)     == writer = Free /\ writer' = c
DropWriter(c)     == writer = c /\ writer' = Free
TakePackage(c, a) == mutator[a] = Free /\ mutator' = [mutator EXCEPT ![a] = c]
DropPackage(c, a) == mutator[a] = c /\ mutator' = [mutator EXCEPT ![a] = Free]

Next == \E c \in Calls :
          \/ TakeWriter(c) /\ UNCHANGED mutator
          \/ DropWriter(c) /\ UNCHANGED mutator
          \/ \E a \in Agents :
                \/ TakePackage(c, a) /\ UNCHANGED writer
                \/ DropPackage(c, a) /\ UNCHANGED writer
                \/ DropPackage(c, a) /\ TakeWriter(c)

Spec == Init /\ [][Next]_vars
=============================================================================
