------------------------------ MODULE Attempts -------------------------------
(***************************************************************************)
(* What one part of a watched transfer has in either direction: attempted, *)
(* which runs it attempt after attempt under retry.Do, the waits between   *)
(* them, the end of ctx, and the reporter, which is closed when the        *)
(* transfer, which has this one part, ends.  Fetch and Send say what an    *)
(* attempt does.                                                           *)
(***************************************************************************)
EXTENDS Backoff, Reporter, Sequences

CONSTANTS Byte,         \* what a byte may be
          Right,        \* the part: what its digest names
          Counts,       \* the seconds a Retry-After may count
          Untils        \* how far off the date is that another names

Size == Len(Right)

\* The waits a failed answer may ask for; most ask for none.
Afters == {0} \cup {AfterCount(n) : n \in Counts} \cup {AfterDate(u) : u \in Untils}

ASSUME AttemptsAssumption ==
    /\ Right \in Seq(Byte)
    /\ Counts \subseteq Int /\ Untils \subseteq -(MaxWait + 1) .. MaxWait

VARIABLES pc,        \* where the part is
          attempt,   \* which attempt this is
          pause,     \* the wait after it, and the one the registry asked for
          cancelled, \* ctx is done
          report     \* the reporter

attemptVars == <<pc, attempt, pause, cancelled, report>>

NoPause == [wait |-> 0, after |-> 0]

FirstAttempt == /\ attempt = 1 /\ pause = NoPause
                /\ cancelled = FALSE

\* The phase a watcher sees while parts move.
Moving == Started("transferring")

-----------------------------------------------------------------------------
\* retry.Do, told of a failed attempt and of the wait the far end asked for.
AttemptFails(transient, after) ==
    IF transient /\ ~cancelled /\ attempt < MaxAttempts
    THEN /\ pc' = "sleep"
         /\ \E w \in Waits(attempt, after) : pause' = [wait |-> w, after |-> after]
    ELSE pc' = "failed" /\ UNCHANGED pause

Over == pc \in {"placed", "failed"}

Cancel == /\ ~cancelled /\ ~Over
          /\ cancelled' = TRUE
          /\ UNCHANGED <<pc, attempt, pause, report>>

\* attempted counts every entry after the first.
Entered == IF attempt > 1 THEN retried(report) ELSE report

\* Mistake: an attempt that follows a wait is not counted.
WakeUncounted ==
    /\ pc = "sleep" /\ pause' = NoPause
    /\ pc' = IF cancelled THEN "failed" ELSE "begin"
    /\ UNCHANGED <<attempt, cancelled, report>>

\* The backoff runs out, or the end of ctx cuts it short.
Wake ==
    /\ pc = "sleep" /\ pause' = NoPause
    /\ IF cancelled THEN pc' = "failed" /\ UNCHANGED attempt
       ELSE pc' = "begin" /\ attempt' = attempt + 1
    /\ UNCHANGED <<cancelled, report>>

\* The transfer has all its parts, and commits or writes the manifest.
Finalize ==
    /\ pc = "placed" /\ report.snap.phase = "transferring"
    /\ report' = Enter(report, "finalizing")
    /\ UNCHANGED <<pc, attempt, pause, cancelled>>

\* The transfer returns, without error only if that is done.
Finish ==
    /\ Over /\ ~report.closed
    /\ \E ok \in BOOLEAN : /\ ok => report.snap.phase = "finalizing"
                           /\ report' = finish(report, ok)
    /\ UNCHANGED <<pc, attempt, pause, cancelled>>
=============================================================================
