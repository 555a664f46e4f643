----------------------------- MODULE MCAuthState -----------------------------
(***************************************************************************)
(* Instances of AuthState.  Ids leaves a slot for each scope's entry and   *)
(* for each entry a request may still point to.                            *)
(***************************************************************************)
EXTENDS AuthState, TLC

CONSTANTS r1, r2, t1, t2

One == {r1}
Two == {r1, r2}
Bearers == {t1, t2}

\* The goroutines are interchangeable, and so are the tokens.
Alike == Permutations(Two) \cup Permutations(Bearers)
=============================================================================
