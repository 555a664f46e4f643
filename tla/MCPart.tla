------------------------------- MODULE MCPart ---------------------------------
(***************************************************************************)
(* An instance of Part: a part of three bytes over an alphabet of two, so  *)
(* a byte out of place may differ from the one that belongs there; waits   *)
(* of a small integer type, whose doubling would overflow it.              *)
(***************************************************************************)
EXTENDS Part

MCRight == <<1, 0, 1>>

\* None, one second, and one more than a duration holds.
MCCounts == {-1, 1, 3}
MCUntils == {-1, 7}
=============================================================================
