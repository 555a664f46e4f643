-------------------------------- MODULE Fetch --------------------------------
(***************************************************************************)
(* One part of a watched pull, partFetcher.fetch: what is on disk is       *)
(* verified when the pull resumes; attempt after attempt asks the registry *)
(* for the rest of the part, streams what arrives into the part's range of *)
(* the partial file and onto a running hash, and carries on where a broken *)
(* attempt stopped.                                                        *)
(*                                                                         *)
(* The registry may answer with any range, serve wrong bytes, too few or   *)
(* too many, and break the stream at any byte.                             *)
(***************************************************************************)
EXTENDS Attempts

CONSTANT MaxStart       \* bound: the offsets a blob port may report

Offsets == 0 .. MaxStart

VARIABLES done,      \* how much of the part is recorded as arrived
          moved,     \* what this attempt's copy has written, or a verify read
          hasher,    \* what the hash has been fed since its reset
          disk       \* the part's range of the partial file

fetchVars == <<done, moved, hasher, disk>>

\* The range holds whatever an earlier run left, or zeros.
FetchInit == /\ FirstAttempt
             /\ pc \in {"verify", "begin"}
             /\ done = 0 /\ moved = 0
             /\ hasher = <<>>
             /\ disk \in [1 .. Size -> Byte]
             /\ report = Moving

-----------------------------------------------------------------------------
\* Where in the part the copy writes next.
Position == done + moved

\* verify reads the range back; a read that overlaps the end of ctx counts.
VerifyReads ==
    /\ pc = "verify" /\ moved < Size
    /\ moved' = moved + 1
    /\ hasher' = Append(hasher, disk[moved + 1])
    /\ report' = hashed(report, 1)
    /\ pc' = IF cancelled THEN "failed" ELSE pc
    /\ UNCHANGED <<pause, attempt, done, disk, cancelled>>

\* ctx is over, or the disk does not read.
VerifyStops ==
    /\ pc = "verify"
    /\ pc' = "failed"
    /\ UNCHANGED <<pause, attempt, done, moved, hasher, disk, cancelled, report>>

\* What is there is the part, and nothing is moved; or it has to be fetched.
VerifyEnds ==
    /\ pc = "verify" /\ moved = Size /\ ~cancelled
    /\ moved' = 0
    /\ IF hasher = Right
       THEN pc' = "placed" /\ report' = complete(report, 0, Size, TRUE)
       ELSE pc' = "begin" /\ UNCHANGED report
    /\ UNCHANGED <<pause, attempt, done, hasher, disk, cancelled>>

\* An attempt begins; a part that has all its bytes is asked for again whole.
Begin ==
    /\ pc = "begin"
    /\ IF cancelled THEN pc' = "failed" /\ UNCHANGED <<done, report>>
       ELSE /\ pc' = "get" /\ report' = Entered
            /\ done' = IF done = Size THEN 0 ELSE done
    /\ UNCHANGED <<pause, attempt, moved, hasher, disk, cancelled>>

\* Mistake: the hash of a part that is restarted midway is not reset.
OpenedUnreset(start) ==
    /\ pc' = "stream" /\ moved' = 0
    /\ done' = start
    /\ hasher' = IF done = 0 THEN <<>> ELSE hasher

\* The stream begins at start: from the part's first byte, or where the
\* earlier attempts stopped.
Opened(start) ==
    /\ pc' = "stream" /\ moved' = 0
    /\ done' = start
    /\ hasher' = IF start = 0 THEN <<>> ELSE hasher

\* The blob port answers with a stream that begins at start.
GetAnswers ==
    /\ pc = "get"
    /\ \E start \in Offsets :
          IF start \in {0, done} THEN Opened(start)
          ELSE pc' = "failed" /\ UNCHANGED <<done, moved, hasher>>
    /\ UNCHANGED <<pause, attempt, disk, cancelled, report>>

GetFails ==
    /\ pc = "get"
    /\ \E transient \in BOOLEAN, after \in Afters : AttemptFails(transient, after)
    /\ UNCHANGED <<attempt, done, moved, hasher, disk, cancelled, report>>

\* One more byte, right or wrong, is hashed, written and then counted.
Chunk ==
    /\ pc = "stream" /\ Position < Size
    /\ \E b \in Byte :
         /\ hasher' = Append(hasher, b)
         /\ disk' = [disk EXCEPT ![Position + 1] = b]
    /\ moved' = moved + 1
    /\ report' = wire(report, 1)
    /\ UNCHANGED <<pause, pc, attempt, done, cancelled>>

\* The disk refuses a chunk the hash has taken already: never tried again.
WriteFails ==
    /\ pc = "stream" /\ Position < Size
    /\ \E b \in Byte : hasher' = Append(hasher, b)
    /\ pc' = "failed"
    /\ UNCHANGED <<pause, attempt, done, moved, disk, cancelled, report>>

\* What the copy wrote is recorded.
Record == done' = Position /\ moved' = 0

\* The stream breaks, perhaps together with its last chunk.
ReadFails ==
    /\ pc = "stream"
    /\ Record
    /\ \E transient \in BOOLEAN : AttemptFails(transient, 0)
    /\ UNCHANGED <<attempt, hasher, disk, cancelled, report>>

\* The stream ends cleanly before the part does, which is worth repeating.
EndsShort ==
    /\ pc = "stream" /\ Position < Size
    /\ Record
    /\ AttemptFails(TRUE, 0)
    /\ UNCHANGED <<attempt, hasher, disk, cancelled, report>>

\* The copy stops at the part's declared length.
Copied ==
    /\ pc = "stream" /\ Position = Size
    /\ Record
    /\ pc' = "end"
    /\ UNCHANGED <<pause, attempt, hasher, disk, cancelled, report>>

\* Mistake: the length is taken for the proof.
DigestUnchecked == Len(hasher) = Size

DigestAgrees == hasher = Right

\* The stream ends with the part, and the digest decides.
EndsThere ==
    /\ pc = "end"
    /\ IF DigestAgrees
       THEN pc' = "placed" /\ report' = complete(report, 0, Size, FALSE)
       ELSE pc' = "failed" /\ UNCHANGED report
    /\ UNCHANGED <<pause, attempt, done, moved, hasher, disk, cancelled>>

\* There is a byte too many.
EndsLong ==
    /\ pc = "end"
    /\ pc' = "failed"
    /\ UNCHANGED <<pause, attempt, done, moved, hasher, disk, cancelled, report>>

\* The probe for the end fails instead.
EndFails ==
    /\ pc = "end"
    /\ \E transient \in BOOLEAN : AttemptFails(transient, 0)
    /\ UNCHANGED <<attempt, done, moved, hasher, disk, cancelled, report>>

FetchSteps == \/ VerifyReads \/ VerifyStops \/ VerifyEnds \/ Begin
              \/ GetAnswers \/ GetFails \/ Chunk \/ WriteFails \/ ReadFails
              \/ EndsShort \/ Copied \/ EndsThere \/ EndsLong \/ EndFails
=============================================================================
