------------------------------ MODULE MCCommand -------------------------------
(***************************************************************************)
(* An instance of Command: a file of two parts and as many workers.        *)
(***************************************************************************)
EXTENDS Command

CONSTANTS x, y, p1

MCContents == {x, y}
Served == {<<x, y>>}
OnePull == {p1}

\* Bound: the destination is there, or a leftover of an earlier run is; either
\* of them with the other absent.
OneOfTwo == dir.dest = None <=> dir.partial # None

BoundedInit == CommandInit /\ OneOfTwo

\* CommandFairSpec, from there.
BoundedSpec == BoundedInit /\ [][CommandNext]_commandVars /\ CommandFairness
=============================================================================
