-------------------------------- MODULE Part --------------------------------
(***************************************************************************)
(* One part of a watched transfer, in the direction the transfer has:      *)
(* Fetch for a pull, Send for a push.                                      *)
(***************************************************************************)
EXTENDS Attempts, FiniteSets

CONSTANTS MaxStart,     \* bound: the offsets a blob port may report
          MaxLate       \* bound: the readers that outlive their attempt at once

ASSUME PartAssumption == MaxStart \in Nat /\ MaxLate \in Nat

VARIABLES direction,                                \* which transfer it is
          hasher,                                   \* the hash, in either
          done, moved, disk,                        \* Fetch
          sent, uploaded, late, stored, changed     \* Send

Fetching == INSTANCE Fetch
Sending == INSTANCE Send

ownOfFetch == <<done, moved, disk>>
ownOfSend == <<sent, uploaded, late, stored, changed>>

vars == <<direction, attemptVars, hasher, ownOfFetch, ownOfSend>>

\* What the other direction keeps is at rest.
Init == \/ /\ direction = "pull" /\ Fetching!FetchInit
           /\ sent = 0 /\ uploaded = FALSE /\ late = {} /\ stored = {} /\ changed = FALSE
        \/ /\ direction = "push" /\ Sending!SendInit
           /\ done = 0 /\ moved = 0 /\ disk = <<>>

-----------------------------------------------------------------------------
FetchStep == direction = "pull" /\ Fetching!FetchSteps /\ UNCHANGED <<direction, ownOfSend>>
SendStep == direction = "push" /\ Sending!SendSteps /\ UNCHANGED <<direction, ownOfFetch>>

Elsewhere == direction = "push" /\ Sending!Elsewhere /\ UNCHANGED <<direction, ownOfFetch>>

Unmoved == UNCHANGED <<direction, hasher, ownOfFetch, ownOfSend>>

Worker == \/ FetchStep \/ SendStep
          \/ (Wake \/ Finalize \/ Finish) /\ Unmoved

Caller == Cancel /\ Unmoved

\* The transfer is over, and so is everybody else who could still act.
Finished == report.closed /\ UNCHANGED vars

Next == Worker \/ Caller \/ Elsewhere \/ Finished

Spec == Init /\ [][Next]_vars

\* The worker is scheduled, and the registry answers or breaks off.
FairSpec == Spec /\ WF_vars(Worker)

-----------------------------------------------------------------------------
(* Properties. *)

\* A part reported in place is in place, byte for byte, over however many
\* attempts: on the disk of a pull (attempt: "an attempt that returns without
\* error is one that hashed the whole part and matched it against the
\* manifest"), and in the repository of a push, which never holds other bytes
\* under the part's digest although the file changes, a registry checks
\* nothing, and a transport sends on for an attempt that is over.
PlacedIsRight ==
    /\ direction = "pull" /\ pc = "placed" => disk = Right
    /\ direction = "push" => stored \subseteq {Right} /\ (pc = "placed" => stored # {})

\* Pull: whenever an attempt may carry on from an earlier one, the hash, the
\* disk and the count agree to the byte (stream: "after a read failure the
\* hasher, the sink, and the count agree to the byte"); and a range is asked
\* for only where the part has bytes left, so no registry can fail to satisfy
\* it.  Push: an attempt hashes what it reads and nothing else, so a file that
\* has not changed is not taken for one that has (attempt: "a spent hasher
\* would reject a file that had not changed").
Carried == pc \in {"stream", "end"} \/ (pc \notin {"verify", "failed"} /\ done + moved > 0)

AgreeToTheByte ==
    /\ direction = "pull" /\ Carried =>
         /\ Len(hasher) = done + moved
         /\ \A k \in DOMAIN hasher : hasher[k] = disk[k]
         /\ pc = "get" => done < Size \/ done = 0
    /\ pc = "body" => Len(hasher) = sent
    /\ pc = "broken" => changed

\* Waits double up to the cap, and a registry that asks for one neither
\* shortens them, nor takes their jitter away, nor parks the transfer past the
\* cap (Do: "a floor and never a ceiling").
WaitsEscalate ==
    pc = "sleep" =>
        /\ Ceiling[attempt] = Lesser(Cap, Base * 2 ^ (attempt - 1))
        /\ Lesser(pause.after, Cap) <= pause.wait /\ pause.wait <= Cap
        /\ Greater(Ceiling[attempt] - 1, Lesser(pause.after, Cap))
                \in Waits(attempt, pause.after)

\* What the callback was last given is the account but for fewer bytes than a
\* step: milestones are never held back, movement is, and not for long.
SeenIsCurrent ==
    LET snap == report.snap
        seen == report.seen
    IN  /\ seen = [snap EXCEPT !.wire = seen.wire, !.hashed = seen.hashed]
        /\ (snap.wire - seen.wire) + (snap.hashed - seen.hashed) \in 0 .. ProgressStep - 1

\* The account is what happened, over all attempts together: what is carried
\* or sent crossed the wire, a part in place is credited once, and counts as
\* skipped only if none of its bytes did, those of an attempt whose answer was
\* lost included (upload: "An upload whose bytes landed and whose answer was
\* lost is found by the next attempt's existence check, and that part was not
\* skipped"); a retry is an attempt that was entered again.
AccountIsHonest ==
    LET snap == report.snap
        placed == IF pc = "placed" THEN 1 ELSE 0
    IN  /\ snap.parts = placed /\ snap.bytes = placed * Size
        /\ snap.skipped = 1 => snap.wire = 0 /\ placed = 1
        /\ direction = "pull" =>
             /\ pc \notin {"verify", "failed"} => snap.wire >= done + moved
             /\ snap.hashed <= Size
             /\ pc = "placed" /\ snap.skipped = 0 => snap.wire >= Size
        /\ pc \in {"body", "sent"} => snap.wire >= sent
        /\ pc \notin {"verify", "begin", "sleep", "failed"} => snap.retries = attempt - 1

\* A watcher is told things in order, and nothing after the terminal snapshot,
\* although a transport may still be reading (finish: "such a straggler either
\* recorded before the terminal snapshot or is dropped, and never lands after
\* it").
AccountOnlyGrows ==
    [][LET Grows(old, new) == /\ \A f \in {"parts", "bytes", "skipped", "wire", "hashed", "retries"} :
                                   old[f] <= new[f]
                              /\ old.phase = "finalizing" => new.phase # "transferring"
       IN  /\ Grows(report.snap, report'.snap) /\ Grows(report.seen, report'.seen)
           /\ report.seen.phase \in {"done", "failed"} => report' = report]_vars

\* Whatever the registry and the file do, the part ends, and so does the
\* account of it.
PartEnds == <>(Over /\ report.closed /\ report.seen.phase \in {"done", "failed"})

-----------------------------------------------------------------------------
(* Why they hold. *)

\* What lags behind the account is counted to the byte, so what the watcher
\* was shown differs from it by that and nothing else; only the terminal
\* snapshot closes the account.
Watched(r) ==
    /\ r \in Report
    /\ r.seen.phase = r.snap.phase /\ r.seen.retries = r.snap.retries
    /\ r.seen.parts = r.snap.parts /\ r.seen.bytes = r.snap.bytes
    /\ r.seen.skipped = r.snap.skipped
    /\ r.seen.wire <= r.snap.wire /\ r.seen.hashed <= r.snap.hashed
    /\ r.pending = (r.snap.wire - r.seen.wire) + (r.snap.hashed - r.seen.hashed)
    /\ r.pending < ProgressStep
    /\ r.closed <=> r.snap.phase \in Terminal

\* A sequence that says of every byte what table says of it.
Follows(bytes, table) == \A k \in DOMAIN bytes : bytes[k] = table[k]

\* Pull: the count and the hash describe the disk, outside a read that is not
\* to be carried on.
FetchInv ==
    /\ pc \in {"verify", "begin", "get", "stream", "end", "sleep", "placed", "failed"}
    /\ disk \in [1 .. Size -> Byte] /\ hasher \in Seq(Byte)
    /\ done \in Nat /\ moved \in Nat /\ done + moved <= Size
    /\ pc = "verify" => done = 0 /\ Len(hasher) = moved /\ Follows(hasher, disk)
    /\ pc \notin {"verify", "stream", "failed"} => moved = 0
    /\ pc = "end" => done = Size
    /\ Carried => Len(hasher) = done + moved /\ Follows(hasher, disk)
    /\ pc = "get" => done < Size \/ done = 0

\* Push: nobody hands on a whole range but the right one, and a range that has
\* not changed never goes wrong; what is under way has been begun.
SendInv ==
    /\ pc \in {"begin", "exists", "post", "body", "broken", "sent", "sleep", "placed", "failed"}
    /\ hasher \in Seq(Byte) /\ sent \in 0 .. Size /\ uploaded \in BOOLEAN
    /\ late \subseteq Seq(Byte)
    /\ \A read \in late : Len(read) <= Size /\ (Len(read) = Size => read = Right)
    /\ late # {} \/ pc \in {"post", "body", "broken", "sent"} => uploaded
    /\ pc \in {"post", "body", "sent"} => Len(hasher) = sent
    /\ pc = "post" => sent = 0
    /\ pc = "body" => sent < Size /\ (changed \/ Follows(hasher, Right))
    /\ pc = "sent" => hasher = Right

\* A part is credited where it is placed, once, and what was never uploaded
\* never crossed the wire, whoever asks.
CreditInv ==
    LET snap == report.snap
    IN  /\ report.credited = (IF pc = "placed" THEN {0} ELSE {})
        /\ snap.skipped \in {0, 1}
        /\ report.closed => Over
        /\ direction = "pull" /\ pc = "verify" => snap.wire = 0 /\ snap.hashed = moved
        /\ direction = "push" => /\ snap.skipped = 1 => ~uploaded
                                 /\ uploaded \/ snap.wire = 0
                                 /\ pc = "post" => snap.wire >= sent

\* An attempt is counted as a retry when it begins, not when it is due.
RetryInv ==
    /\ attempt \in Nat \ {0}
    /\ pc = "verify" => attempt = 1
    /\ pc \in {"verify", "begin"} =>
         report.snap.retries = IF attempt = 1 THEN 0 ELSE attempt - 2
    /\ pc = "sleep" => report.snap.retries = attempt - 1

\* A wait is one the policy has for the attempt that failed and is not the last.
PauseInv == pc = "sleep" => /\ attempt < MaxAttempts /\ pause.after \in Int
                            /\ pause.wait \in Waits(attempt, pause.after)

\* What every state of Spec satisfies and every step preserves.
PartInv ==
    /\ direction \in {"pull", "push"}
    /\ Watched(report)
    /\ direction = "pull" => FetchInv
    /\ direction = "push" => SendInv
    /\ CreditInv /\ RetryInv
    /\ PlacedIsRight /\ AgreeToTheByte /\ AccountIsHonest
=============================================================================
