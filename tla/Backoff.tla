------------------------------- MODULE Backoff -------------------------------
(***************************************************************************)
(* How long internal/retry waits after a failed attempt: a jittered        *)
(* backoff whose ceiling doubles up to a cap, raised to meet a wait the    *)
(* far end asked for, itself bounded by the cap.  Durations are w-bit      *)
(* integers, MaxWait being the largest, because the doubling is guarded    *)
(* against overflowing them.                                               *)
(***************************************************************************)
EXTENDS Integers

CONSTANTS MaxWait,     \* the largest duration (int64 in Go)
          Second,      \* a second
          Base, Cap,   \* Policy.Base and Policy.Cap, their defaults filled in
          MaxAttempts  \* Policy.Attempts, its default filled in

ASSUME BackoffAssumption == /\ MaxWait \in Nat
                            /\ Second \in Nat \ {0} /\ MaxAttempts \in Nat \ {0}
                            /\ Base \in 1 .. MaxWait /\ Cap \in 1 .. MaxWait

Lesser(a, b) == IF a < b THEN a ELSE b
Greater(a, b) == IF a < b THEN b ELSE a

\* retryAfter: the wait a Retry-After header asks for, as a count of seconds or
\* by the date it ends at; what is past, or is no duration, asks for nothing.
AfterCount(n) == IF n <= 0 \/ n > MaxWait \div Second THEN 0 ELSE n * Second
AfterDate(until) == Greater(until, 0)

\* What doubling c leaves in w bits.
Twice(c) == ((2 * c + MaxWait + 1) % (2 * (MaxWait + 1))) - (MaxWait + 1)

\* Mistake: the doubling is bounded only after it is done.
DoubledUnguarded(c) == Lesser(Twice(c), Cap)

\* One turn of backoff's loop.
Doubled(c) == IF c >= Cap THEN c
              ELSE IF c > Cap \div 2 THEN Cap
              ELSE Twice(c)

\* The ceiling of the wait after each attempt.
Ceiling[n \in 1 .. MaxAttempts] ==
    IF n = 1 THEN Lesser(Base, Cap) ELSE Doubled(Ceiling[n - 1])

\* Policy.backoff: what Rand may draw.
backoff(n) == IF Ceiling[n] <= 0 THEN {0} ELSE 0 .. Ceiling[n] - 1

\* The waits Do may take after attempt n, the far end having asked for after.
Waits(n, after) ==
    {IF after > 0 THEN Greater(w, Lesser(after, Cap)) ELSE w : w \in backoff(n)}
=============================================================================
