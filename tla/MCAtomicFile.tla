---------------------------- MODULE MCAtomicFile ----------------------------
EXTENDS AtomicFile

\* An earlier release left one backup under the hashed name and two beside the file.
Left(t) == [id |-> t, time |-> t, version |-> 0, whole |-> TRUE]
MCHashed == {Left(-3)}
MCBeside == {Left(-2), Left(-1)}
=============================================================================
