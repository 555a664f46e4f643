------------------------------ MODULE Reporter ------------------------------
(***************************************************************************)
(* internal/transfer's reporter: the account of one watched transfer, as   *)
(* operators on a record.  Every recording happens under the reporter's    *)
(* lock, the callback included, so it is one step of whoever records.      *)
(*                                                                         *)
(* Milestones are delivered as they happen; bytes pile up to ProgressStep  *)
(* first.  What the callback was last given is kept as seen.               *)
(***************************************************************************)
EXTENDS Integers

CONSTANT ProgressStep

ASSUME ReporterAssumption == ProgressStep \in Nat \ {0}

Snapshot == [phase : {"resolving", "transferring", "finalizing", "done", "failed"},
             parts : Nat, bytes : Nat, skipped : Nat,
             wire : Nat, hashed : Nat, retries : Nat]

Report == [snap : Snapshot, seen : Snapshot, credited : SUBSET Nat,
           pending : Nat, closed : BOOLEAN]

Terminal == {"done", "failed"}

-----------------------------------------------------------------------------
\* Mistake: bytes are delivered once they pass a step, not when they reach it.
CoalescePastStep(r, n) ==
    IF r.pending + n > ProgressStep
    THEN [r EXCEPT !.pending = 0, !.seen = r.snap]
    ELSE [r EXCEPT !.pending = @ + n]

\* A milestone and the bytes before it are one report.
deliver(r) == [r EXCEPT !.pending = 0, !.seen = r.snap]

coalesce(r, n) == IF r.pending + n >= ProgressStep THEN deliver(r)
                  ELSE [r EXCEPT !.pending = @ + n]

\* begin: the first snapshot, before anything is known or done.
Started(phase) ==
    LET snap == [phase |-> phase, parts |-> 0, bytes |-> 0, skipped |-> 0,
                 wire |-> 0, hashed |-> 0, retries |-> 0]
    IN  [snap |-> snap, seen |-> snap, credited |-> {}, pending |-> 0, closed |-> FALSE]

\* Once the terminal snapshot is out, a recording is dropped.
Unless(dropped, old, new) == IF dropped THEN old ELSE new

\* measured and finalizing.
Enter(r, phase) == Unless(r.closed, r, deliver([r EXCEPT !.snap.phase = phase]))

\* Mistake: the end of the account does not end the counting.
WireUnlatched(r, n) == coalesce([r EXCEPT !.snap.wire = @ + n], n)

wire(r, n) == Unless(r.closed \/ n <= 0, r, coalesce([r EXCEPT !.snap.wire = @ + n], n))

hashed(r, n) == Unless(r.closed \/ n <= 0, r, coalesce([r EXCEPT !.snap.hashed = @ + n], n))

\* Mistake: an attempt starts counting from nothing.
RetriedAnew(r) ==
    Unless(r.closed, r, deliver([r EXCEPT !.snap.retries = @ + 1, !.snap.wire = 0]))

retried(r) == Unless(r.closed, r, deliver([r EXCEPT !.snap.retries = @ + 1]))

\* A part is credited once, however often it is reported.
complete(r, index, size, skipped) ==
    Unless(r.closed \/ index \in r.credited, r,
           deliver([r EXCEPT !.credited = @ \cup {index},
                             !.snap.parts = @ + 1, !.snap.bytes = @ + size,
                             !.snap.skipped = @ + IF skipped THEN 1 ELSE 0]))

finish(r, ok) ==
    Unless(r.closed, r, deliver([r EXCEPT !.closed = TRUE,
                                          !.snap.phase = IF ok THEN "done" ELSE "failed"]))
=============================================================================
