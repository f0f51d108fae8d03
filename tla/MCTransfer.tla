---- MODULE MCTransfer ----
(* Instances of Transfer for TLC. *)
EXTENDS Transfer
CONSTANTS b2, h1, h2
\* From another machine: new endpoints for every Provider, and a Skill, known or new.
MCForeign ==
  {[prov |-> [p \in Providers |-> b2], prof |-> [q \in Profiles |-> CHOOSE p \in Providers : TRUE],
    mcp |-> TRUE, skills |-> [s \in Skills |-> h], policy |-> policy] :
     h \in {h1, h2}, policy \in {"overwrite", "skip"}}
  \cup {[Empty EXCEPT !.prof = [q \in Profiles |-> CHOOSE p \in Providers : TRUE]]}
====
