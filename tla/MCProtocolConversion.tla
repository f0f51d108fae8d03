------------------------ MODULE MCProtocolConversion ------------------------
(* Instances of ProtocolConversion for TLC. *)
EXTENDS ProtocolConversion

\* The calls of a request are numbered in the instance.
MCIds == 1 .. 3
=============================================================================
