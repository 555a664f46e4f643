-------------------------------- MODULE Send --------------------------------
(***************************************************************************)
(* One part of a watched push, uploader.upload with the claim in hand:     *)
(* attempt after attempt asks the registry for the part's blob and, where  *)
(* it has none, lets a transport stream the file's range into a PUT.       *)
(*                                                                         *)
(* The file may change between any two reads, or not read at all.  The     *)
(* transport reads on a goroutine of its own, which may outlive the        *)
(* attempt it belongs to: its reader is then one of late, still counts,    *)
(* and may still deliver.  The registry checks nothing.                    *)
(***************************************************************************)
EXTENDS Attempts, FiniteSets

CONSTANT MaxLate        \* bound: the readers that outlive their attempt at once

VARIABLES sent,      \* how much the attempt's reader has read
          hasher,    \* what its hash has been fed
          uploaded,  \* an attempt has begun to upload
          late,      \* what the readers of earlier attempts have read
          stored,    \* what the registry holds under the part's digest
          changed    \* history: a read has not returned what was hashed

sendVars == <<sent, hasher, uploaded, late, stored, changed>>

\* The hash pass has read the part, and claims has been asked.
SendInit == /\ FirstAttempt
            /\ pc = "begin"
            /\ sent = 0 /\ hasher = <<>> /\ uploaded = FALSE
            /\ late = {}
            /\ stored \in {{}, {Right}}
            /\ changed = FALSE
            /\ report = hashed(Moving, Size)

-----------------------------------------------------------------------------
Start ==
    /\ pc = "begin"
    /\ IF cancelled THEN pc' = "failed" /\ UNCHANGED report
       ELSE pc' = "exists" /\ report' = Entered
    /\ UNCHANGED <<attempt, pause, cancelled, sent, hasher, uploaded, late, stored, changed>>

\* The part is in place: it is credited, and was skipped if nothing was sent.
Credit == pc' = "placed" /\ report' = complete(report, 0, Size, ~uploaded)

ExistsFound ==
    /\ pc = "exists" /\ stored # {}
    /\ Credit
    /\ UNCHANGED <<attempt, pause, cancelled, sent, hasher, uploaded, late, stored, changed>>

\* Mistake: whether anything was sent is a matter of the attempt.
ExistsMissingForgets ==
    /\ pc = "exists" /\ stored = {}
    /\ pc' = "post" /\ uploaded' = (attempt > 1)
    /\ sent' = 0 /\ hasher' = <<>>
    /\ UNCHANGED <<attempt, pause, cancelled, late, stored, changed, report>>

\* Mistake: the hash is made once for all attempts.
ExistsMissingReused ==
    /\ pc = "exists" /\ stored = {}
    /\ pc' = "post" /\ uploaded' = TRUE
    /\ sent' = 0
    /\ UNCHANGED <<attempt, pause, cancelled, hasher, late, stored, changed, report>>

\* The blob is not there: a reader and a hash are made for this attempt.
ExistsMissing ==
    /\ pc = "exists" /\ stored = {}
    /\ pc' = "post" /\ uploaded' = TRUE
    /\ sent' = 0 /\ hasher' = <<>>
    /\ UNCHANGED <<attempt, pause, cancelled, late, stored, changed, report>>

\* The question, or the opening of the session before any byte is read, fails.
AskFails ==
    /\ pc \in {"exists", "post"}
    /\ \E transient \in BOOLEAN, after \in Afters : AttemptFails(transient, after)
    /\ UNCHANGED <<attempt, cancelled, sent, hasher, uploaded, late, stored, changed, report>>

\* The session is open, and the transport turns to the body; the range of an
\* empty file ends before the file is read.
PostAnswers ==
    /\ pc = "post"
    /\ pc' = IF Size = 0 THEN "sent" ELSE "body"
    /\ UNCHANGED <<attempt, pause, cancelled, sent, hasher, uploaded, late, stored, changed, report>>

\* Mistake: a range of the right length is taken to be the right one.
LengthAgrees(read) == TRUE

\* What the reader compares once it has read as much as was declared.
RangeAgrees(read) == read = Right

\* The transport takes one more byte, whatever the file now holds there.  The
\* one that completes a range that has changed never leaves the reader.
SendChunk ==
    /\ pc = "body" /\ sent < Size
    /\ sent' = sent + 1
    /\ \E b \in Byte :
         /\ hasher' = Append(hasher, b)
         /\ changed' = (changed \/ b # Right[sent + 1])
    /\ IF sent' = Size /\ ~RangeAgrees(hasher')
       THEN pc' = "broken" /\ UNCHANGED report
       ELSE /\ pc' = IF sent' = Size THEN "sent" ELSE "body"
            /\ report' = wire(report, 1)
    /\ UNCHANGED <<attempt, pause, cancelled, uploaded, late, stored>>

\* The file ends too early, or does not read.
SourceFails ==
    /\ pc = "body" /\ sent < Size
    /\ pc' = "broken" /\ changed' = TRUE
    /\ UNCHANGED <<attempt, pause, cancelled, sent, hasher, uploaded, late, stored, report>>

\* The failure carries the source's tag out of the upload: never tried again.
SourceError ==
    /\ pc = "broken"
    /\ pc' = "failed"
    /\ UNCHANGED <<attempt, pause, cancelled, sent, hasher, uploaded, late, stored, changed, report>>

\* The registry has stored the whole body, and says so.
PutAnswers ==
    /\ pc = "sent"
    /\ stored' = IF stored = {} THEN {hasher} ELSE stored
    /\ Credit
    /\ UNCHANGED <<attempt, pause, cancelled, sent, hasher, uploaded, late, changed>>

\* The upload fails: the connection breaks, or the registry has answered early
\* and so covers up even a failure of the source.  A whole body may have been
\* stored before its answer was lost; one that is not may still be read.
PutFails ==
    /\ pc \in {"body", "broken", "sent"}
    /\ \E transient \in BOOLEAN, after \in Afters : AttemptFails(transient, after)
    /\ \/ pc = "sent" /\ stored = {} /\ stored' = {hasher}
       \/ UNCHANGED stored
    /\ \/ pc # "broken" /\ Cardinality(late) < MaxLate /\ late' = late \cup {hasher}
       \/ UNCHANGED late
    /\ UNCHANGED <<attempt, cancelled, sent, hasher, uploaded, changed, report>>

\* A transport reads on for an attempt that is over, and for a push that is.
LateChunk ==
    /\ \E read \in late, b \in Byte :
         LET more == Append(read, b)
             agrees == Len(more) < Size \/ RangeAgrees(more)
         IN  /\ Len(read) < Size
             /\ changed' = (changed \/ b # Right[Len(more)])
             /\ late' = (late \ {read}) \cup (IF agrees THEN {more} ELSE {})
             /\ report' = IF agrees THEN wire(report, 1) ELSE report
    /\ UNCHANGED <<pc, attempt, pause, cancelled, sent, hasher, uploaded, stored>>

\* What such a transport has sent arrives whole.
LateLands ==
    /\ \E read \in late : /\ Len(read) = Size
                          /\ late' = late \ {read}
                          /\ stored' = IF stored = {} THEN {read} ELSE stored
    /\ UNCHANGED <<pc, attempt, pause, cancelled, sent, hasher, uploaded, changed, report>>

\* Its connection is closed, or the file is.
LateStops ==
    /\ \E read \in late : late' = late \ {read}
    /\ UNCHANGED <<pc, attempt, pause, cancelled, sent, hasher, uploaded, stored, changed, report>>

\* Somebody else pushes the same content.
OtherPush ==
    /\ stored = {} /\ stored' = {Right}
    /\ UNCHANGED <<pc, attempt, pause, cancelled, sent, hasher, uploaded, late, changed, report>>

SendSteps == \/ Start \/ ExistsFound \/ ExistsMissing \/ AskFails \/ PostAnswers
             \/ SendChunk \/ SourceFails \/ SourceError \/ PutAnswers \/ PutFails

Elsewhere == LateChunk \/ LateLands \/ LateStops \/ OtherPush
=============================================================================
