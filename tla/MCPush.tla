------------------------------- MODULE MCPush -------------------------------
(***************************************************************************)
(* Instances of Push: a five byte file cut at two, so its last part is     *)
(* short and its first two may be twins.                                   *)
(***************************************************************************)
EXTENDS Push, TLC

CONSTANTS a, b, z, cfg, w1, w2

MCContents == {a, b, z}
MCSizeOf == [c \in MCContents |-> IF c = z THEN 1 ELSE 2]
MCWorkers == {w1, w2}
\* Without the short last part, for the runs that follow behaviours.
TwoContents == {a, b}
TwoSizeOf == [c \in TwoContents |-> 2]

\* The workers are interchangeable, and so are the two full-length contents.
Alike == Permutations(MCWorkers) \cup Permutations({a, b})
=============================================================================
