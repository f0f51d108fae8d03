---------------------------- MODULE MCConversion ----------------------------
(* Instances of Conversion for TLC. *)
EXTENDS Conversion, TLC

Symmetry == Permutations(Callers)
=============================================================================
