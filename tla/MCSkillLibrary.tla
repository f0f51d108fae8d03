---- MODULE MCSkillLibrary ----
(* Instances of SkillLibrary for TLC. *)
EXTENDS SkillLibrary, TLC
Symmetry == Permutations(Agents) \cup Permutations(Hashes)
====
