---------------------------- MODULE MCTaskLocks ----------------------------
(* Instances of TaskLocks for TLC. *)
EXTENDS TaskLocks, TLC

MCManager == [a \in Agents |-> CASE a = 1 -> "npm" [] a = 2 -> "official-script" [] OTHER -> "uv"]
=============================================================================
