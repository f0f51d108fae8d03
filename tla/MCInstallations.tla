---- MODULE MCInstallations ----
(* An npm of the user's with a prefix of its own choosing, one copy npm does not list. *)
EXTENDS Installations, TLC
CONSTANTS global, sysdir, custom, box, sys
MCPrefixOf == (Own :> global) @@ (sys :> custom)
MCGuessOf == (Own :> global) @@ (sys :> sysdir)
Symmetry == Permutations(Procs)
====
