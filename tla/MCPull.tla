------------------------------- MODULE MCPull --------------------------------
(***************************************************************************)
(* Instances of Pull: a leftover may be too short, of the right size and   *)
(* right, or of the right size and torn in either part.                    *)
(***************************************************************************)
EXTENDS Pull

CONSTANTS x, y, p1, p2

MCContents == {x, y}
\* A file of two parts and the empty file, whose leftover proves nothing.
Served == {<<x, y>>, <<>>}
Just == {<<x, y>>}
OnePull == {p1}
TwoPulls == {p1, p2}
=============================================================================
