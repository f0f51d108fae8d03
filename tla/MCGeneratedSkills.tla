---- MODULE MCGeneratedSkills ----
(* Instances of GeneratedSkills for TLC. *)
EXTENDS GeneratedSkills, TLC
Symmetry == Permutations(Endpoints)
====
