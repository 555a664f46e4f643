----------------------------- MODULE PartProofs -----------------------------
(***************************************************************************)
(* Part's safety properties hold for every part, alphabet, retry policy    *)
(* and step of the account, an empty part included: PartInv is inductive.  *)
(* The bytes and the account are argued apart, action by action; what the  *)
(* account's operators do to it is said once, first.                       *)
(***************************************************************************)
EXTENDS Part, SequenceTheorems, FiniteSetTheorems, TLAPS

\* The length of the part is one.
LEMMA SizeIsNat == Size \in Nat /\ Right \in [1 .. Size -> Byte]
  BY AttemptsAssumption, LenProperties DEF AttemptsAssumption, Size

\* One byte more, and what a table says of it.
LEMMA OneByteMore ==
    ASSUME NEW bytes \in Seq(Byte), NEW b \in Byte, NEW table
    PROVE  /\ Append(bytes, b) \in Seq(Byte) /\ Len(Append(bytes, b)) = Len(bytes) + 1
           /\ Append(bytes, b)[Len(bytes) + 1] = b
           /\ Follows(bytes, table) /\ b = table[Len(bytes) + 1]
                => Follows(Append(bytes, b), table)
<1>1. /\ Append(bytes, b) \in Seq(Byte) /\ Len(Append(bytes, b)) = Len(bytes) + 1
      /\ Append(bytes, b)[Len(bytes) + 1] = b
      /\ \A k \in 1 .. Len(bytes) : Append(bytes, b)[k] = bytes[k]
      /\ DOMAIN bytes = 1 .. Len(bytes) /\ Len(bytes) \in Nat
      /\ DOMAIN Append(bytes, b) = 1 .. Len(bytes) + 1
  BY AppendProperties, LenProperties
<1>2. \A k \in 1 .. Len(bytes) + 1 : k \in 1 .. Len(bytes) \/ k = Len(bytes) + 1
  BY <1>1
<1> QED BY <1>1, <1>2 DEF Follows

\* A whole range that says of every byte what a table says is that table.
LEMMA WholeRange ==
    ASSUME NEW bytes \in Seq(Byte), Len(bytes) = Size,
           NEW table \in [1 .. Size -> Byte], Follows(bytes, table)
    PROVE  bytes = table
<1>1. bytes \in [1 .. Size -> Byte]
  BY LenProperties
<1> QED BY <1>1 DEF Follows

\* A sequence without bytes follows any table.
LEMMA NoBytes == \A table : Follows(<<>>, table) /\ <<>> \in Seq(Byte) /\ Len(<<>>) = 0
  BY DEF Follows

-----------------------------------------------------------------------------
(* The account. *)

Grows(old, new) == /\ old.parts <= new.parts /\ old.bytes <= new.bytes
                   /\ old.skipped <= new.skipped /\ old.retries <= new.retries
                   /\ old.wire <= new.wire /\ old.hashed <= new.hashed
                   /\ old.phase = "finalizing" => new.phase # "transferring"

\* What any recording may make of the account r.
Onward(r, q) == /\ Watched(q)
                /\ Grows(r.snap, q.snap) /\ Grows(r.seen, q.seen)
                /\ r.closed => q = r

\* Nothing recorded is a recording, too.
LEMMA NothingRecorded == ASSUME NEW r, Watched(r) PROVE Onward(r, r)
  BY DEF Onward, Watched, Grows, Report, Snapshot

\* A milestone, and the bytes before it: whatever snapshot follows, if it only
\* grows, is what the watcher is shown.
LEMMA Delivered ==
    ASSUME NEW r, Watched(r), ~r.closed, NEW snap \in Snapshot, Grows(r.snap, snap),
           NEW credited \in SUBSET Nat, NEW closed \in BOOLEAN,
           closed <=> snap.phase \in Terminal,
           NEW q, q = [r EXCEPT !.snap = snap, !.seen = snap, !.pending = 0,
                                !.credited = credited, !.closed = closed]
    PROVE  Onward(r, q)
<1>1. /\ q.snap = snap /\ q.seen = snap /\ q.pending = 0
      /\ q.credited = credited /\ q.closed = closed
      /\ q \in Report
  BY ReporterAssumption DEF ReporterAssumption, Watched, Report
<1>2. Grows(r.seen, snap)
  BY DEF Watched, Grows, Report, Snapshot
<1>3. Watched(q)
  BY <1>1, ReporterAssumption DEF ReporterAssumption, Watched, Snapshot
<1> QED BY <1>1, <1>2, <1>3 DEF Onward

\* What n bytes more make of the snapshot of r.
Adds(r, snap, n) == \/ snap = [r.snap EXCEPT !.wire = @ + n]
                    \/ snap = [r.snap EXCEPT !.hashed = @ + n]

\* The account r with that snapshot.
Holding(r, snap) == [r EXCEPT !.snap = snap]

\* The account r with that snapshot, whatever of it has been shown.
Showing(r, snap, q) == q = [r EXCEPT !.snap = snap, !.seen = q.seen, !.pending = q.pending]

\* Movement is added to the account, and shown once it amounts to a step.
LEMMA Moved ==
    ASSUME NEW r, Watched(r), ~r.closed, NEW n \in Nat, NEW snap \in Snapshot,
           Adds(r, snap, n), NEW q, q = coalesce(Holding(r, snap), n)
    PROVE  Onward(r, q) /\ Showing(r, snap, q)
<1> DEFINE m == Holding(r, snap)
<1>1. /\ m \in Report /\ m.snap = snap /\ m.seen = r.seen /\ m.pending = r.pending
      /\ m.credited = r.credited /\ m.closed = r.closed
      /\ r.snap \in Snapshot /\ r.seen \in Snapshot /\ r.pending \in Nat
  BY DEF Holding, Watched, Report
<1>2. /\ Grows(r.snap, snap) /\ snap.phase = r.snap.phase
      /\ (snap.wire - r.seen.wire) + (snap.hashed - r.seen.hashed) = r.pending + n
      /\ r.seen.wire <= snap.wire /\ r.seen.hashed <= snap.hashed
      /\ r.seen.phase = snap.phase /\ r.seen.retries = snap.retries
      /\ r.seen.parts = snap.parts /\ r.seen.bytes = snap.bytes
      /\ r.seen.skipped = snap.skipped
  <2>1. /\ r.seen.wire <= r.snap.wire /\ r.seen.hashed <= r.snap.hashed
        /\ r.seen.phase = r.snap.phase /\ r.seen.retries = r.snap.retries
        /\ r.seen.parts = r.snap.parts /\ r.seen.bytes = r.snap.bytes
        /\ r.seen.skipped = r.snap.skipped
        /\ r.pending = (r.snap.wire - r.seen.wire) + (r.snap.hashed - r.seen.hashed)
    BY DEF Watched
  <2>2. /\ snap.phase = r.snap.phase /\ snap.retries = r.snap.retries
        /\ snap.parts = r.snap.parts /\ snap.bytes = r.snap.bytes
        /\ snap.skipped = r.snap.skipped
        /\ \/ snap.wire = r.snap.wire + n /\ snap.hashed = r.snap.hashed
           \/ snap.hashed = r.snap.hashed + n /\ snap.wire = r.snap.wire
    BY <1>1 DEF Adds, Snapshot
  <2> QED BY <1>1, <2>1, <2>2 DEF Grows, Snapshot
<1>3. CASE r.pending + n >= ProgressStep
  <2>1. q = [r EXCEPT !.snap = snap, !.seen = snap, !.pending = 0,
                      !.credited = r.credited, !.closed = FALSE]
    BY <1>1, <1>3 DEF Holding, coalesce, deliver, Watched, Report
  <2>2. Onward(r, q)
    BY <1>1, <1>2, <2>1, Delivered DEF Watched, Report
  <2>3. q.seen = snap /\ q.pending = 0
    BY <1>1, <2>1 DEF Watched, Report
  <2> QED BY <1>1, <2>1, <2>2, <2>3 DEF Showing, Watched, Report
<1>4. CASE ~(r.pending + n >= ProgressStep)
  <2>1. q = [m EXCEPT !.pending = @ + n]
    BY <1>1, <1>4 DEF coalesce
  <2>2. r.pending + n \in Nat
    BY <1>1
  <2> HIDE DEF m
  <2>3. /\ q \in Report /\ q.snap = snap /\ q.seen = r.seen /\ q.pending = r.pending + n
        /\ q.closed = r.closed
    BY <1>1, <2>1, <2>2 DEF Report
  <2>4. Watched(q)
    BY <1>1, <1>2, <1>4, <2>3, ReporterAssumption DEF ReporterAssumption, Watched
  <2>5. Grows(r.seen, r.seen)
    BY <1>1 DEF Grows, Snapshot
  <2>6. Showing(r, snap, q)
    <3>1. r.seen = q.seen /\ r.pending + n = q.pending
      BY <2>3
    <3>2. q = [r EXCEPT !.snap = snap, !.seen = r.seen, !.pending = r.pending + n]
      BY <2>1, <1>1 DEF m, Holding, Watched, Report
    <3> QED BY <3>1, <3>2 DEF Showing
  <2> QED BY <1>2, <2>3, <2>4, <2>5, <2>6 DEF Onward
<1> QED BY <1>3, <1>4

\* Who keeps the credit of the account r.
Credited(r, q) == /\ q.credited = r.credited /\ q.closed = r.closed
                  /\ q.snap.phase = r.snap.phase
                  /\ q.snap.parts = r.snap.parts /\ q.snap.bytes = r.snap.bytes
                  /\ q.snap.skipped = r.snap.skipped

LEMMA WireRecorded ==
    ASSUME NEW r, Watched(r), NEW q, q = wire(r, 1)
    PROVE  /\ Onward(r, q) /\ Credited(r, q)
           /\ q.snap.hashed = r.snap.hashed /\ q.snap.retries = r.snap.retries
           /\ ~r.closed => q.snap.wire = r.snap.wire + 1
<1>1. CASE r.closed
  <2>1. q = r
    BY <1>1 DEF wire, Unless
  <2> QED BY <1>1, <2>1, NothingRecorded DEF Credited
<1>2. CASE ~r.closed
  <2> DEFINE snap == [r.snap EXCEPT !.wire = @ + 1]
  <2>1. q = coalesce(Holding(r, snap), 1)
    BY <1>2 DEF Holding, wire, Unless, Watched, Report
  <2>2. snap \in Snapshot
    BY DEF Watched, Report, Snapshot
  <2>3. Onward(r, q) /\ Showing(r, snap, q)
    <3>1. Adds(r, snap, 1)
      BY DEF Adds
    <3> HIDE DEF snap
    <3>2. 1 \in Nat
      OBVIOUS
    <3> QED BY <1>2, <2>1, <2>2, <3>1, <3>2, Moved, Zenon
  <2>4. q.snap = snap /\ q.credited = r.credited /\ q.closed = r.closed
    BY <2>2, <2>3 DEF Showing, Watched, Report
  <2> QED BY <2>3, <2>4 DEF Credited, Watched, Report, Snapshot
<1> QED BY <1>1, <1>2

LEMMA HashedRecorded ==
    ASSUME NEW r, Watched(r), NEW n \in Nat, NEW q, q = hashed(r, n)
    PROVE  /\ Onward(r, q) /\ Credited(r, q)
           /\ q.snap.wire = r.snap.wire /\ q.snap.retries = r.snap.retries
           /\ ~r.closed => q.snap.hashed = r.snap.hashed + n
<1>1. CASE r.closed \/ n = 0
  <2>1. q = r
    BY <1>1 DEF hashed, Unless
  <2> QED BY <1>1, <2>1, NothingRecorded DEF Credited, Watched, Report, Snapshot
<1>2. CASE ~r.closed /\ n # 0
  <2> DEFINE snap == [r.snap EXCEPT !.hashed = @ + n]
  <2>1. q = coalesce(Holding(r, snap), n)
    BY <1>2 DEF Holding, hashed, Unless, Watched, Report
  <2>2. snap \in Snapshot
    BY DEF Watched, Report, Snapshot
  <2>3. Onward(r, q) /\ Showing(r, snap, q)
    <3>1. Adds(r, snap, n)
      BY DEF Adds
    <3> HIDE DEF snap
    <3> QED BY <1>2, <2>1, <2>2, <3>1, Moved, Zenon
  <2>4. q.snap = snap /\ q.credited = r.credited /\ q.closed = r.closed
    BY <2>2, <2>3 DEF Showing, Watched, Report
  <2> QED BY <2>3, <2>4 DEF Credited, Watched, Report, Snapshot
<1> QED BY <1>1, <1>2

LEMMA RetryRecorded ==
    ASSUME NEW r, Watched(r), ~r.closed, NEW q, q = retried(r)
    PROVE  /\ Onward(r, q) /\ Credited(r, q)
           /\ q.snap.wire = r.snap.wire /\ q.snap.hashed = r.snap.hashed
           /\ q.snap.retries = r.snap.retries + 1
<1> DEFINE snap == [r.snap EXCEPT !.retries = @ + 1]
<1>1. q = [r EXCEPT !.snap = snap, !.seen = snap, !.pending = 0,
                    !.credited = r.credited, !.closed = FALSE]
  BY DEF retried, deliver, Unless, Watched, Report
<1>2. snap \in Snapshot /\ Grows(r.snap, snap) /\ snap.phase = r.snap.phase
  BY DEF Watched, Report, Snapshot, Grows
<1>3. Onward(r, q)
  BY <1>1, <1>2, Delivered DEF Watched, Report
<1>4. q.snap = snap /\ q.credited = r.credited /\ q.closed = r.closed
  BY <1>1, <1>2 DEF Watched, Report
<1> QED BY <1>3, <1>4 DEF Credited, Watched, Report, Snapshot

LEMMA CompleteRecorded ==
    ASSUME NEW r, Watched(r), ~r.closed, r.credited = {}, NEW skipped \in BOOLEAN,
           NEW q, q = complete(r, 0, Size, skipped)
    PROVE  /\ Onward(r, q)
           /\ q.credited = {0} /\ q.closed = r.closed
           /\ q.snap.parts = r.snap.parts + 1 /\ q.snap.bytes = r.snap.bytes + Size
           /\ skipped => q.snap.skipped = r.snap.skipped + 1
           /\ ~skipped => q.snap.skipped = r.snap.skipped
           /\ q.snap.wire = r.snap.wire /\ q.snap.hashed = r.snap.hashed
           /\ q.snap.retries = r.snap.retries
<1> DEFINE one == IF skipped THEN 1 ELSE 0
           snap == [r.snap EXCEPT !.parts = @ + 1, !.bytes = @ + Size, !.skipped = @ + one]
<1>1. q = [r EXCEPT !.snap = snap, !.seen = snap, !.pending = 0,
                    !.credited = {0}, !.closed = FALSE]
  BY DEF complete, deliver, Unless, Watched, Report
<1>2. one \in Nat /\ Size \in Nat
  BY SizeIsNat
<1> HIDE DEF one
<1>3. snap \in Snapshot /\ Grows(r.snap, snap) /\ snap.phase = r.snap.phase
  <2>1. r.snap \in Snapshot
    BY DEF Watched, Report
  <2>2. r.snap.parts + 1 \in Nat /\ r.snap.bytes + Size \in Nat /\ r.snap.skipped + one \in Nat
    BY <1>2, <2>1 DEF Snapshot
  <2>3. snap \in Snapshot
    BY <2>1, <2>2 DEF Snapshot
  <2> QED BY <1>2, <2>1, <2>3 DEF Snapshot, Grows
<1>4. /\ snap.parts = r.snap.parts + 1 /\ snap.bytes = r.snap.bytes + Size
      /\ snap.skipped = r.snap.skipped + one
      /\ snap.wire = r.snap.wire /\ snap.hashed = r.snap.hashed
      /\ snap.retries = r.snap.retries
  BY DEF Watched, Report, Snapshot
<1> HIDE DEF snap
<1>5. Onward(r, q)
  <2>1. /\ {0} \in SUBSET Nat /\ FALSE \in BOOLEAN
        /\ FALSE <=> snap.phase \in Terminal
    BY <1>3 DEF Watched
  <2> QED BY <1>1, <1>3, <2>1, Delivered, Zenon
<1>6. q.snap = snap /\ q.credited = {0} /\ q.closed = r.closed
  BY <1>1, <1>3 DEF Watched, Report
<1>7. /\ skipped => q.snap.skipped = r.snap.skipped + 1
      /\ ~skipped => q.snap.skipped = r.snap.skipped
  <2>1. skipped => one = 1
    BY DEF one
  <2>2. ~skipped => one = 0
    BY DEF one
  <2>3. r.snap.skipped + 0 = r.snap.skipped
    BY DEF Watched, Report, Snapshot
  <2> QED BY <1>4, <1>6, <2>1, <2>2, <2>3
<1> QED BY <1>4, <1>5, <1>6, <1>7

\* A change of phase, the terminal ones included, changes nothing else.
LEMMA PhaseRecorded ==
    ASSUME NEW r, Watched(r), ~r.closed, NEW phase \in {"finalizing", "done", "failed"},
           NEW q, \/ phase = "finalizing" /\ q = Enter(r, phase)
                  \/ \E ok \in BOOLEAN : /\ q = finish(r, ok)
                                         /\ phase = IF ok THEN "done" ELSE "failed"
    PROVE  /\ Onward(r, q)
           /\ q.credited = r.credited
           /\ q.snap.parts = r.snap.parts /\ q.snap.bytes = r.snap.bytes
           /\ q.snap.skipped = r.snap.skipped
           /\ q.snap.wire = r.snap.wire /\ q.snap.hashed = r.snap.hashed
           /\ q.snap.retries = r.snap.retries
           /\ q.closed <=> phase # "finalizing"
<1> DEFINE snap == [r.snap EXCEPT !.phase = phase]
           closed == phase # "finalizing"
<1>1. q = [r EXCEPT !.snap = snap, !.seen = snap, !.pending = 0,
                    !.credited = r.credited, !.closed = closed]
  <2>1. CASE phase = "finalizing"
    BY <2>1 DEF Enter, finish, deliver, Unless, Watched, Report
  <2>2. CASE phase # "finalizing"
    BY <2>2 DEF Enter, finish, deliver, Unless, Watched, Report
  <2> QED BY <2>1, <2>2
<1>2. /\ snap \in Snapshot /\ Grows(r.snap, snap) /\ snap.phase = phase
      /\ closed \in BOOLEAN /\ (closed <=> snap.phase \in Terminal)
  BY DEF Watched, Report, Snapshot, Grows, Terminal
<1>3. Onward(r, q)
  BY <1>1, <1>2, Delivered DEF Watched, Report
<1>4. q.snap = snap /\ q.credited = r.credited /\ q.closed = closed
  BY <1>1, <1>2 DEF Watched, Report
<1> QED BY <1>3, <1>4 DEF Watched, Report, Snapshot

-----------------------------------------------------------------------------
(* Either direction keeps its account, and retries, as Attempts says. *)

LEMMA FetchingAccount ==
    /\ Fetching!Size = Size /\ Fetching!Entered = Entered /\ Fetching!Moving = Moving
    /\ \A r, n : Fetching!wire(r, n) = wire(r, n) /\ Fetching!hashed(r, n) = hashed(r, n)
    /\ \A r, s, k : Fetching!complete(r, 0, s, k) = complete(r, 0, s, k)
<1>1. Fetching!Size = Size /\ Fetching!Moving = Moving /\ Fetching!Entered = Entered
  BY DEF Fetching!Size, Size, Fetching!Moving, Moving, Fetching!Started, Started,
         Fetching!Entered, Entered, Fetching!retried, retried, Fetching!Unless, Unless,
         Fetching!deliver, deliver
<1>2. ASSUME NEW r, NEW n
      PROVE  Fetching!wire(r, n) = wire(r, n) /\ Fetching!hashed(r, n) = hashed(r, n)
  BY DEF Fetching!wire, wire, Fetching!hashed, hashed, Fetching!Unless, Unless,
         Fetching!coalesce, coalesce, Fetching!deliver, deliver
<1>3. ASSUME NEW r, NEW s, NEW k
      PROVE  Fetching!complete(r, 0, s, k) = complete(r, 0, s, k)
  BY DEF Fetching!complete, complete, Fetching!Unless, Unless, Fetching!deliver, deliver
<1> QED BY <1>1, <1>2, <1>3

LEMMA SendingAccount ==
    /\ Sending!Size = Size /\ Sending!Entered = Entered /\ Sending!Moving = Moving
    /\ \A r, n : Sending!wire(r, n) = wire(r, n) /\ Sending!hashed(r, n) = hashed(r, n)
    /\ \A r, s, k : Sending!complete(r, 0, s, k) = complete(r, 0, s, k)
<1>1. Sending!Size = Size /\ Sending!Moving = Moving /\ Sending!Entered = Entered
  BY DEF Sending!Size, Size, Sending!Moving, Moving, Sending!Started, Started,
         Sending!Entered, Entered, Sending!retried, retried, Sending!Unless, Unless,
         Sending!deliver, deliver
<1>2. ASSUME NEW r, NEW n
      PROVE  Sending!wire(r, n) = wire(r, n) /\ Sending!hashed(r, n) = hashed(r, n)
  BY DEF Sending!wire, wire, Sending!hashed, hashed, Sending!Unless, Unless,
         Sending!coalesce, coalesce, Sending!deliver, deliver
<1>3. ASSUME NEW r, NEW s, NEW k
      PROVE  Sending!complete(r, 0, s, k) = complete(r, 0, s, k)
  BY DEF Sending!complete, complete, Sending!Unless, Unless, Sending!deliver, deliver
<1> QED BY <1>1, <1>2, <1>3

\* A failed attempt is followed by a wait or by none.
LEMMA FailsEitherWay ==
    ASSUME NEW transient, NEW after,
           Fetching!AttemptFails(transient, after) \/ Sending!AttemptFails(transient, after)
    PROVE  pc' \in {"sleep", "failed"}
BY DEF Fetching!AttemptFails, Sending!AttemptFails

-----------------------------------------------------------------------------
(* The bytes of a pull. *)

FetchOK == FetchInv /\ (pc = "placed" => disk = Right)

LEMMA FetchAgrees ==
    ASSUME direction = "pull", FetchOK PROVE PlacedIsRight /\ AgreeToTheByte
BY DEF FetchOK, FetchInv, PlacedIsRight, AgreeToTheByte, Follows

\* Where nothing is written or hashed, where the part is decides.
LEMMA FetchBytesStay ==
    ASSUME FetchOK, UNCHANGED <<hasher, disk>>,
           NEW d \in 0 .. Size, done' = d, moved' = 0 \/ (pc' = "failed" /\ moved' = moved),
           moved' # 0 => d + moved <= Size,
           pc' \in {"begin", "get", "end", "sleep", "failed"},
           pc' = "failed" \/ d = 0 \/ (Carried /\ d = done + moved),
           pc' = "end" => d = Size /\ Carried /\ d = done + moved,
           pc' = "get" => d < Size \/ d = 0
    PROVE  FetchOK'
<1>1. CASE pc' = "failed"
  BY <1>1, SizeIsNat DEF FetchOK, FetchInv, Carried
<1>2. CASE pc' # "failed"
  <2>1. moved' = 0 /\ hasher' = hasher /\ disk' = disk
    BY <1>2
  <2>2. CASE pc' # "end" /\ d = 0
    BY <1>2, <2>1, <2>2, SizeIsNat DEF FetchOK, FetchInv, Carried
  <2>3. CASE pc' = "end" \/ d # 0
    <3>1. Carried /\ d = done + moved
      BY <1>2, <2>3
    <3> QED BY <1>2, <2>1, <3>1, SizeIsNat DEF FetchOK, FetchInv, Carried, Follows
  <2> QED BY <2>2, <2>3
<1> QED BY <1>1, <1>2

LEMMA FetchBytesKept ==
    ASSUME FetchOK, Fetching!FetchSteps PROVE FetchOK'
<1> USE DEF FetchOK
<1>0. Size \in Nat /\ Fetching!Size = Size
  BY SizeIsNat, FetchingAccount
<1>1. CASE Fetching!VerifyReads
  <2>1. /\ pc = "verify" /\ moved < Size /\ moved' = moved + 1
        /\ hasher' = Append(hasher, disk[moved + 1]) /\ pc' \in {"verify", "failed"}
        /\ UNCHANGED <<done, disk>>
    BY <1>0, <1>1 DEF Fetching!VerifyReads
  <2>2. done = 0 /\ disk[moved + 1] \in Byte /\ Len(hasher) = moved
    BY <1>0, <2>1 DEF FetchInv
  <2>3. hasher' \in Seq(Byte) /\ Len(hasher') = moved' /\ Follows(hasher', disk)
    BY <2>1, <2>2, OneByteMore DEF FetchInv
  <2> QED BY <1>0, <2>1, <2>2, <2>3 DEF FetchInv, Carried
<1>2. CASE Fetching!VerifyStops \/ Fetching!WriteFails \/ Fetching!EndsLong
  <2>1. /\ pc' = "failed" /\ UNCHANGED <<done, moved, disk>>
        /\ hasher' \in Seq(Byte)
    <3>1. hasher' = hasher \/ \E b \in Byte : hasher' = Append(hasher, b)
      BY <1>2 DEF Fetching!VerifyStops, Fetching!WriteFails, Fetching!EndsLong
    <3>2. hasher' \in Seq(Byte)
      BY <3>1, OneByteMore DEF FetchInv
    <3> QED BY <1>2, <3>2 DEF Fetching!VerifyStops, Fetching!WriteFails, Fetching!EndsLong
  <2> QED BY <2>1 DEF FetchInv, Carried
<1>3. CASE Fetching!VerifyEnds
  <2>1. /\ pc = "verify" /\ moved = Size /\ moved' = 0 /\ UNCHANGED <<done, hasher, disk>>
        /\ (hasher = Right /\ pc' = "placed") \/ pc' = "begin"
    BY <1>0, <1>3 DEF Fetching!VerifyEnds
  <2>2. hasher = disk
    BY <2>1, WholeRange DEF FetchInv
  <2> QED BY <1>0, <2>1, <2>2 DEF FetchInv, Carried
<1>4. CASE Fetching!Begin
  <2>1. /\ pc = "begin" /\ UNCHANGED <<moved, hasher, disk>>
        /\ \/ pc' = "failed" /\ done' = done
           \/ pc' = "get" /\ done' = IF done = Size THEN 0 ELSE done
    BY <1>0, <1>4 DEF Fetching!Begin
  <2>2. moved = 0 /\ done \in Nat /\ done <= Size /\ (done > 0 => Carried)
    BY <2>1 DEF FetchInv, Carried
  <2> QED BY <1>0, <2>1, <2>2, FetchBytesStay
<1>5. CASE Fetching!GetAnswers
  <2>1. PICK start \in Fetching!Offsets :
          IF start \in {0, done} THEN Fetching!Opened(start)
          ELSE pc' = "failed" /\ UNCHANGED <<done, moved, hasher>>
    BY <1>5 DEF Fetching!GetAnswers
  <2>2. pc = "get" /\ disk' = disk
    BY <1>5 DEF Fetching!GetAnswers
  <2>3. CASE start \in {0, done}
    <3>1. /\ pc' = "stream" /\ moved' = 0 /\ done' = start
          /\ hasher' = IF start = 0 THEN <<>> ELSE hasher
      BY <2>1, <2>3 DEF Fetching!Opened
    <3>2. moved = 0 /\ done \in Nat /\ done <= Size /\ (done > 0 => Carried)
      BY <2>2 DEF FetchInv, Carried
    <3>3. CASE start = 0
      BY <1>0, <2>2, <3>1, <3>3, NoBytes DEF FetchInv, Carried
    <3>4. CASE start # 0
      BY <1>0, <2>2, <2>3, <3>1, <3>2, <3>4 DEF FetchInv, Carried
    <3> QED BY <3>3, <3>4
  <2>4. CASE start \notin {0, done}
    BY <2>1, <2>2, <2>4 DEF FetchInv, Carried
  <2> QED BY <2>3, <2>4
<1>6. CASE Fetching!GetFails
  <2>1. pc = "get" /\ pc' \in {"sleep", "failed"} /\ UNCHANGED <<done, moved, hasher, disk>>
    BY <1>6, FailsEitherWay DEF Fetching!GetFails
  <2>2. moved = 0 /\ done \in Nat /\ done <= Size /\ (done > 0 => Carried)
    BY <2>1 DEF FetchInv, Carried
  <2> QED BY <1>0, <2>1, <2>2, FetchBytesStay
<1>7. CASE Fetching!Chunk
  <2>1. PICK b \in Byte : /\ hasher' = Append(hasher, b)
                          /\ disk' = [disk EXCEPT ![done + moved + 1] = b]
    BY <1>7 DEF Fetching!Chunk, Fetching!Position
  <2>2. pc = "stream" /\ pc' = pc /\ done' = done /\ moved' = moved + 1 /\ done + moved < Size
    BY <1>0, <1>7 DEF Fetching!Chunk, Fetching!Position
  <2>3. Len(hasher) = done + moved /\ Follows(hasher, disk) /\ hasher \in Seq(Byte)
    BY <2>2 DEF FetchInv, Carried
  <2>4. /\ disk' \in [1 .. Size -> Byte] /\ disk'[Len(hasher) + 1] = b
        /\ Follows(hasher, disk')
    BY <1>0, <2>1, <2>2, <2>3, LenProperties DEF FetchInv, Follows
  <2>5. hasher' \in Seq(Byte) /\ Len(hasher') = done' + moved' /\ Follows(hasher', disk')
    <3> DEFINE table == disk'
    <3>1. table[Len(hasher) + 1] = b /\ Follows(hasher, table)
      BY <2>4
    <3> HIDE DEF table
    <3>2. Follows(hasher', table) /\ hasher' \in Seq(Byte) /\ Len(hasher') = Len(hasher) + 1
      BY <2>1, <2>3, <3>1, OneByteMore
    <3> QED BY <2>2, <2>3, <3>2 DEF table, FetchInv
  <2> QED BY <1>0, <2>2, <2>4, <2>5 DEF FetchInv, Carried
<1>8. CASE Fetching!ReadFails \/ Fetching!EndsShort \/ Fetching!Copied
  <2>1. /\ pc = "stream" /\ done' = done + moved /\ moved' = 0 /\ UNCHANGED <<hasher, disk>>
        /\ pc' \in {"sleep", "failed"} \/ (pc' = "end" /\ done + moved = Size)
    BY <1>0, <1>8, FailsEitherWay DEF Fetching!ReadFails, Fetching!EndsShort, Fetching!Copied,
       Fetching!Record, Fetching!Position
  <2>2. /\ done \in Nat /\ moved \in Nat /\ done + moved <= Size /\ Carried
    BY <2>1 DEF FetchInv, Carried
  <2> QED BY <1>0, <2>1, <2>2, FetchBytesStay
<1>9. CASE Fetching!EndsThere
  <2>1. /\ pc = "end" /\ UNCHANGED <<done, moved, hasher, disk>>
        /\ (hasher = Right /\ pc' = "placed") \/ pc' = "failed"
    BY <1>9 DEF Fetching!EndsThere, Fetching!DigestAgrees
  <2>2. Len(hasher) = Size /\ Follows(hasher, disk) /\ moved = 0 /\ done = Size
    BY <1>0, <2>1 DEF FetchInv, Carried
  <2>3. hasher = disk
    BY <2>2, WholeRange DEF FetchInv
  <2> QED BY <1>0, <2>1, <2>2, <2>3 DEF FetchInv, Carried
<1>10. CASE Fetching!EndFails
  <2>1. pc = "end" /\ pc' \in {"sleep", "failed"} /\ UNCHANGED <<done, moved, hasher, disk>>
    BY <1>10, FailsEitherWay DEF Fetching!EndFails
  <2>2. moved = 0 /\ done \in Nat /\ done = Size /\ Carried
    BY <2>1 DEF FetchInv, Carried
  <2> QED BY <1>0, <2>1, <2>2, FetchBytesStay
<1> QED BY <1>1, <1>2, <1>3, <1>4, <1>5, <1>6, <1>7, <1>8, <1>9, <1>10 DEF Fetching!FetchSteps

-----------------------------------------------------------------------------
(* The account of a pull. *)

AccountOK == Watched(report) /\ CreditInv /\ RetryInv /\ AccountIsHonest

\* The account r of a pull that is at p in attempt a, d and m being its counts.
PullAccount(p, a, d, m, r) ==
    LET snap == r.snap
        placed == IF p = "placed" THEN 1 ELSE 0
    IN  /\ Watched(r)
        /\ r.credited = IF p = "placed" THEN {0} ELSE {}
        /\ snap.skipped \in {0, 1} /\ (r.closed => p \in {"placed", "failed"})
        /\ a \in Nat \ {0}
        /\ p = "verify" => snap.wire = 0 /\ snap.hashed = m /\ a = 1
        /\ p \in {"verify", "begin"} => snap.retries = IF a = 1 THEN 0 ELSE a - 2
        /\ p \notin {"verify", "begin", "failed"} => snap.retries = a - 1
        /\ snap.parts = placed /\ snap.bytes = (IF p = "placed" THEN Size ELSE 0)
        /\ snap.skipped = 1 => snap.wire = 0 /\ p = "placed"
        /\ p \notin {"verify", "failed"} => snap.wire >= d + m
        /\ snap.hashed <= Size
        /\ p = "placed" /\ snap.skipped = 0 => snap.wire >= Size

LEMMA FetchAccountReads ==
    ASSUME direction = "pull", FetchInv
    PROVE  AccountOK <=> PullAccount(pc, attempt, done, moved, report)
<1>1. (IF pc = "placed" THEN 1 ELSE 0) * Size = IF pc = "placed" THEN Size ELSE 0
  BY SizeIsNat
<1> QED BY <1>1 DEF AccountOK, PullAccount, CreditInv, RetryInv, AccountIsHonest, Over, FetchInv

\* A step that records nothing fails, or ends at q, having moved no more bytes
\* than before.
LEMMA FetchFails ==
    ASSUME NEW p, NEW a, NEW d, NEW m, NEW r, PullAccount(p, a, d, m, r), p # "placed",
           NEW e, NEW n
    PROVE  PullAccount("failed", a, e, n, r) /\ Onward(r, r)
BY NothingRecorded DEF PullAccount

LEMMA FetchQuiet ==
    ASSUME NEW p, NEW a, NEW d \in Nat, NEW m \in Nat, NEW r, PullAccount(p, a, d, m, r),
           NEW q \in {"begin", "get", "stream", "end", "sleep"},
           p \in (IF q = "begin" THEN {"verify"} ELSE {"get", "stream", "end"}),
           NEW e \in Nat, NEW n \in Nat, e + n <= (IF q = "begin" THEN 0 ELSE d + m)
    PROVE  PullAccount(q, a, e, n, r) /\ Onward(r, r)
<1>1. r.snap.wire \in Nat
  BY DEF PullAccount, Watched, Report, Snapshot
<1> QED BY <1>1, NothingRecorded DEF PullAccount

\* A byte is read back, or crosses the wire.
LEMMA FetchMoves ==
    ASSUME NEW p, NEW a, NEW d \in Nat, NEW m \in Nat, NEW r, PullAccount(p, a, d, m, r),
           NEW o, NEW q,
           \/ p = "verify" /\ o \in {"verify", "failed"} /\ q = hashed(r, 1) /\ m < Size
           \/ p = "stream" /\ o = p /\ q = wire(r, 1)
    PROVE  PullAccount(o, a, d, m + 1, q) /\ Onward(r, q)
<1>1. ~r.closed /\ Watched(r) /\ r.snap \in Snapshot
  BY DEF PullAccount, Watched, Report
<1>2. CASE p = "verify" /\ o \in {"verify", "failed"} /\ q = hashed(r, 1) /\ m < Size
  <2>1. /\ Onward(r, q) /\ Credited(r, q)
        /\ q.snap.wire = r.snap.wire /\ q.snap.retries = r.snap.retries
        /\ q.snap.hashed = r.snap.hashed + 1
    BY <1>1, <1>2, HashedRecorded
  <2>2. r.snap.hashed = m /\ r.snap.wire = 0 /\ r.snap.skipped = 0
    BY <1>2 DEF PullAccount
  <2>3. q.snap.hashed = m + 1 /\ q.snap.hashed <= Size
    BY <1>2, <2>1, <2>2, SizeIsNat
  <2> QED BY <1>1, <1>2, <2>1, <2>2, <2>3 DEF PullAccount, Credited, Onward
<1>3. CASE p = "stream" /\ o = p /\ q = wire(r, 1)
  <2>1. /\ Onward(r, q) /\ Credited(r, q)
        /\ q.snap.hashed = r.snap.hashed /\ q.snap.retries = r.snap.retries
        /\ q.snap.wire = r.snap.wire + 1
    BY <1>1, <1>3, WireRecorded
  <2>2. q.snap.wire >= d + (m + 1)
    BY <1>1, <1>3, <2>1 DEF PullAccount, Snapshot
  <2>3. r.snap.skipped = 0
    BY <1>3 DEF PullAccount
  <2> QED BY <1>1, <1>3, <2>1, <2>2, <2>3 DEF PullAccount, Credited, Onward
<1> QED BY <1>2, <1>3

\* Where a part is when it is found in place, or fetched to its end.
Complete(p, skipped, d, m) == \/ p = "verify" /\ skipped /\ d = 0
                              \/ p = "end" /\ ~skipped /\ d = Size /\ m = 0

LEMMA FetchPlaces ==
    ASSUME NEW p, NEW a, NEW d \in Nat, NEW m \in Nat, NEW r, PullAccount(p, a, d, m, r),
           NEW skipped \in BOOLEAN, Complete(p, skipped, d, m),
           NEW q, q = complete(r, 0, Size, skipped)
    PROVE  PullAccount("placed", a, d, 0, q) /\ Onward(r, q)
<1> USE DEF Complete
<1>1. ~r.closed /\ r.credited = {} /\ Watched(r) /\ r.snap \in Snapshot
  BY DEF PullAccount, Watched, Report
<1>2. /\ Onward(r, q) /\ q.credited = {0} /\ ~q.closed
      /\ q.snap.parts = r.snap.parts + 1 /\ q.snap.bytes = r.snap.bytes + Size
      /\ skipped => q.snap.skipped = r.snap.skipped + 1
      /\ ~skipped => q.snap.skipped = r.snap.skipped
      /\ q.snap.wire = r.snap.wire /\ q.snap.hashed = r.snap.hashed
      /\ q.snap.retries = r.snap.retries
  BY <1>1, CompleteRecorded
<1>3. r.snap.parts = 0 /\ r.snap.bytes = 0 /\ r.snap.skipped = 0
  BY DEF PullAccount
<1>4. CASE p = "verify"
  <2>1. skipped /\ d = 0
    BY <1>4
  <2>2. /\ r.snap.wire = 0 /\ a = 1 /\ r.snap.retries = 0 /\ r.snap.hashed <= Size
        /\ a \in Nat \ {0}
    BY <1>4 DEF PullAccount
  <2>3. Watched(q) /\ q.snap.parts = 1 /\ q.snap.bytes = Size
    BY <1>2, <1>3, SizeIsNat DEF Onward
  <2>4. q.snap.skipped = 1
    <3>1. q.snap.skipped = r.snap.skipped + 1
      BY <1>2, <2>1, Zenon
    <3> QED BY <1>3, <3>1
  <2>5. q.snap.wire = 0 /\ q.snap.retries = a - 1 /\ q.snap.hashed <= Size
    BY <1>2, <2>2
  <2>6. q.snap.wire >= d + 0 /\ ~(q.snap.skipped = 0)
    <3>1. d = 0
      BY <1>4
    <3> QED BY <2>4, <2>5, <3>1
  <2>7. q.credited = {0} /\ ~q.closed
    BY <1>2
  <2> QED BY <1>2, <2>2, <2>3, <2>4, <2>5, <2>6, <2>7 DEF PullAccount
<1>5. CASE p = "end"
  <2>1. ~skipped /\ d = Size
    BY <1>5
  <2>2. /\ r.snap.wire >= Size /\ r.snap.retries = a - 1 /\ r.snap.hashed <= Size
        /\ a \in Nat \ {0}
    BY <1>1, <1>5, <2>1, SizeIsNat DEF PullAccount, Snapshot
  <2>3. Watched(q) /\ q.snap.skipped = 0 /\ q.snap.parts = 1 /\ q.snap.bytes = Size
    BY <1>2, <1>3, <2>1, SizeIsNat DEF Onward
  <2> QED BY <1>1, <1>2, <2>1, <2>2, <2>3, SizeIsNat DEF PullAccount
<1> QED BY <1>4, <1>5

\* An attempt begins, and is a retry if it is not the first.
LEMMA FetchEnters ==
    ASSUME NEW a, NEW d \in Nat, NEW r, PullAccount("begin", a, d, 0, r),
           NEW e \in {0, d}, NEW q, q = IF a > 1 THEN retried(r) ELSE r
    PROVE  PullAccount("get", a, e, 0, q) /\ Onward(r, q)
<1>1. ~r.closed /\ Watched(r) /\ r.snap \in Snapshot
  BY DEF PullAccount, Watched, Report
<1>2. CASE a > 1
  <2>1. /\ Onward(r, q) /\ Credited(r, q)
        /\ q.snap.wire = r.snap.wire /\ q.snap.hashed = r.snap.hashed
        /\ q.snap.retries = r.snap.retries + 1
    BY <1>1, <1>2, RetryRecorded
  <2> QED BY <1>1, <1>2, <2>1 DEF PullAccount, Credited, Onward, Snapshot
<1>3. CASE ~(a > 1)
  BY <1>1, <1>3, NothingRecorded DEF PullAccount, Snapshot
<1> QED BY <1>2, <1>3

LEMMA FetchAccountKept ==
    ASSUME FetchOK, FetchOK', PullAccount(pc, attempt, done, moved, report),
           Fetching!FetchSteps
    PROVE  /\ PullAccount(pc', attempt', done', moved', report')
           /\ Onward(report, report')
<1>0. /\ Size \in Nat /\ Fetching!Size = Size
      /\ done \in Nat /\ moved \in Nat /\ done' \in Nat /\ moved' \in Nat
      /\ Watched(report)
  BY SizeIsNat, FetchingAccount DEF FetchOK, FetchInv, PullAccount
<1>1. CASE Fetching!VerifyReads \/ Fetching!Chunk
  <2>1. /\ moved' = moved + 1 /\ UNCHANGED <<attempt, done>>
        /\ \/ pc = "verify" /\ pc' \in {"verify", "failed"} /\ moved < Size
              /\ report' = hashed(report, 1)
           \/ pc = "stream" /\ pc' = pc /\ report' = wire(report, 1)
    BY <1>0, <1>1, FetchingAccount DEF Fetching!VerifyReads, Fetching!Chunk
  <2>2. PullAccount(pc', attempt, done, moved + 1, report') /\ Onward(report, report')
    BY <1>0, <2>1, FetchMoves
  <2> QED BY <2>1, <2>2
<1>2. CASE (Fetching!VerifyEnds \/ Fetching!EndsThere) /\ hasher = Right
  <2>1. /\ pc' = "placed" /\ moved' \in {0, moved} /\ UNCHANGED <<attempt, done>>
        /\ \/ pc = "verify" /\ moved' = 0 /\ report' = complete(report, 0, Size, TRUE)
           \/ pc = "end" /\ moved' = moved /\ report' = complete(report, 0, Size, FALSE)
    BY <1>0, <1>2, FetchingAccount
       DEF Fetching!VerifyEnds, Fetching!EndsThere, Fetching!DigestAgrees
  <2>2. /\ pc = "verify" => done = 0
        /\ pc = "end" => done = Size /\ moved = 0
    BY DEF FetchOK, FetchInv
  <2>3. PullAccount("placed", attempt, done, 0, report') /\ Onward(report, report')
    <3>1. PICK skipped \in BOOLEAN : /\ skipped <=> pc = "verify"
                                    /\ report' = complete(report, 0, Size, skipped)
      BY <2>1
    <3>2. Complete(pc, skipped, done, moved)
      BY <2>1, <2>2, <3>1 DEF Complete
    <3>3. done \in Nat /\ moved \in Nat
      BY <1>0
    <3> QED BY <3>1, <3>2, <3>3, FetchPlaces
  <2> QED BY <2>1, <2>2, <2>3
<1>3. CASE Fetching!Begin /\ ~cancelled
  <2>1. /\ pc = "begin" /\ pc' = "get" /\ UNCHANGED <<attempt, moved>>
        /\ done' \in {0, done} /\ report' = IF attempt > 1 THEN retried(report) ELSE report
    BY <1>0, <1>3, FetchingAccount DEF Fetching!Begin, Entered
  <2>2. moved = 0
    BY <2>1 DEF FetchOK, FetchInv
  <2>3. PullAccount("get", attempt, done', 0, report') /\ Onward(report, report')
    BY <1>0, <2>1, <2>2, FetchEnters
  <2> QED BY <2>1, <2>2, <2>3
<1>4. CASE \/ Fetching!VerifyStops \/ Fetching!WriteFails \/ Fetching!EndsLong
           \/ Fetching!Begin /\ cancelled
           \/ Fetching!EndsThere /\ hasher # Right
  <2>1. /\ pc' = "failed" /\ pc \notin {"placed", "failed"}
        /\ UNCHANGED <<attempt, report, done, moved>>
    BY <1>4 DEF Fetching!VerifyStops, Fetching!WriteFails, Fetching!EndsLong, Fetching!Begin,
                Fetching!EndsThere, Fetching!DigestAgrees
  <2>2. PullAccount("failed", attempt, done, moved, report)
    BY <2>1, FetchFails
  <2> QED BY <1>0, <2>1, <2>2, NothingRecorded
<1>5. CASE \/ Fetching!VerifyEnds /\ hasher # Right
           \/ Fetching!ReadFails \/ Fetching!EndsShort \/ Fetching!Copied
  <2>1. /\ UNCHANGED <<attempt, report>> /\ moved' = 0
        /\ \/ pc = "verify" /\ pc' = "begin" /\ done' = done
           \/ pc = "stream" /\ pc' \in {"sleep", "failed", "end"} /\ done' = done + moved
    BY <1>0, <1>5, FailsEitherWay
       DEF Fetching!VerifyEnds, Fetching!ReadFails, Fetching!EndsShort, Fetching!Copied,
           Fetching!Record, Fetching!Position
  <2>2. CASE pc = "verify"
    <3>1. done = 0 /\ pc' = "begin"
      BY <2>1, <2>2 DEF FetchOK, FetchInv
    <3>2. PullAccount("begin", attempt, 0, 0, report)
      <4>1. PullAccount("verify", attempt, 0, moved, report)
        BY <2>2, <3>1
      <4> QED BY <1>0, <4>1, FetchQuiet
    <3> QED BY <1>0, <2>1, <2>2, <3>1, <3>2, NothingRecorded
  <2>3. CASE pc = "stream"
    <3>1. pc' \in {"sleep", "failed", "end"} /\ done + moved \in Nat
      BY <1>0, <2>1, <2>3
    <3>2. PullAccount(pc', attempt, done + moved, 0, report)
      <4>1. CASE pc' = "failed"
        BY <2>3, <4>1, FetchFails
      <4>2. CASE pc' # "failed"
        <5> DEFINE e == done + moved
        <5>1. e \in Nat /\ e + 0 <= done + moved
          BY <3>1
        <5> HIDE DEF e
        <5>2. PullAccount(pc', attempt, e, 0, report)
          BY <1>0, <2>3, <3>1, <4>2, <5>1, FetchQuiet
        <5> QED BY <5>2 DEF e
      <4> QED BY <4>1, <4>2
    <3> QED BY <1>0, <2>1, <2>3, <3>2, NothingRecorded
  <2> QED BY <2>1, <2>2, <2>3
<1>6. CASE Fetching!GetAnswers \/ Fetching!GetFails \/ Fetching!EndFails
  <2>1. /\ UNCHANGED <<attempt, report>>
        /\ pc \in {"get", "end"} /\ pc' \in {"stream", "sleep", "failed"}
        /\ moved' \in {0, moved} /\ done' \in {0, done}
    BY <1>6, FailsEitherWay
       DEF Fetching!GetAnswers, Fetching!GetFails, Fetching!EndFails, Fetching!Opened
  <2>2. CASE pc' = "failed"
    BY <2>1, <2>2, FetchFails
  <2>3. CASE pc' # "failed"
    <3>1. PICK e \in Nat, n \in Nat : e + n <= done + moved /\ done' = e /\ moved' = n
      BY <1>0, <2>1
    <3>2. PullAccount(pc', attempt, e, n, report)
      <4>1. PICK q \in {"stream", "sleep"} : q = pc'
        BY <2>1, <2>3
      <4>2. PullAccount(q, attempt, e, n, report)
        <5>1. e + n <= done + moved
          BY <3>1
        <5>2. q # "begin" /\ pc \in {"get", "stream", "end"}
          BY <2>1, <4>1
        <5>3. done \in Nat /\ moved \in Nat
          BY <1>0
        <5> QED BY <5>1, <5>2, <5>3, FetchQuiet, SMTT(40)
      <4> QED BY <4>1, <4>2
    <3> QED BY <1>0, <2>1, <3>1, <3>2, NothingRecorded
  <2> QED BY <2>2, <2>3
<1> QED BY <1>1, <1>2, <1>3, <1>4, <1>5, <1>6 DEF Fetching!FetchSteps

-----------------------------------------------------------------------------
(* The bytes of a push. *)

\* A reader that may still deliver, and what it has read.
LateOK(read) == /\ read \in Seq(Byte) /\ Len(read) <= Size
                /\ Len(read) = Size => read = Right

SendOK == /\ SendInv
          /\ stored \subseteq {Right} /\ (pc = "placed" => stored # {})
          /\ pc = "broken" => changed

LEMMA SendAgrees ==
    ASSUME direction = "push", SendOK PROVE PlacedIsRight /\ AgreeToTheByte
BY DEF SendOK, SendInv, PlacedIsRight, AgreeToTheByte

\* A step that leaves the bytes alone.
LEMMA SendBytesStay ==
    ASSUME SendOK, UNCHANGED <<sent, hasher, uploaded, late, stored, changed>>,
           pc' \in {"exists", "sleep", "placed", "failed"},
           pc' = "placed" => stored # {}
    PROVE  SendOK'
BY DEF SendOK, SendInv

LEMMA SendChunkKept == ASSUME SendOK, Sending!SendChunk PROVE SendOK'
<1> USE DEF SendOK
<1>1. /\ pc = "body" /\ sent < Size /\ sent' = sent + 1 /\ UNCHANGED <<uploaded, late, stored>>
      /\ sent \in Nat /\ Size \in Nat /\ uploaded
      /\ hasher \in Seq(Byte) /\ Len(hasher) = sent /\ (changed \/ Follows(hasher, Right))
  BY SizeIsNat, SendingAccount DEF Sending!SendChunk, SendInv
<1>2. PICK b \in Byte : /\ hasher' = Append(hasher, b)
                        /\ changed' = (changed \/ b # Right[sent + 1])
  BY DEF Sending!SendChunk
<1>3. /\ hasher' \in Seq(Byte) /\ Len(hasher') = sent + 1
      /\ changed' \/ Follows(hasher', Right)
  BY <1>1, <1>2, OneByteMore
<1>4. CASE sent + 1 = Size /\ hasher' # Right
  <2>1. pc' = "broken"
    BY <1>1, <1>4, SendingAccount DEF Sending!SendChunk, Sending!RangeAgrees
  <2>2. changed'
    BY <1>3, <1>4, WholeRange, SizeIsNat
  <2> QED BY <1>1, <1>3, <2>1, <2>2 DEF SendInv
<1>5. CASE ~(sent + 1 = Size /\ hasher' # Right)
  <2>1. pc' = IF sent + 1 = Size THEN "sent" ELSE "body"
    BY <1>1, <1>5, SendingAccount DEF Sending!SendChunk, Sending!RangeAgrees
  <2>2. sent + 1 = Size => hasher' = Right
    BY <1>5
  <2> QED BY <1>1, <1>3, <2>1, <2>2 DEF SendInv
<1> QED BY <1>4, <1>5

LEMMA PutFailsKept == ASSUME SendOK, Sending!PutFails PROVE SendOK'
<1> USE DEF SendOK
<1>1. /\ pc \in {"body", "broken", "sent"} /\ pc' \in {"sleep", "failed"}
      /\ UNCHANGED <<sent, hasher, uploaded, changed>>
      /\ stored' = stored \/ (pc = "sent" /\ stored' = {hasher})
      /\ late' = late \/ (pc # "broken" /\ late' = late \cup {hasher})
  BY FailsEitherWay DEF Sending!PutFails
<1>2. stored' \subseteq {Right}
  BY <1>1 DEF SendInv
<1>3. pc # "broken" => LateOK(hasher)
  BY <1>1, SizeIsNat DEF SendInv, LateOK
<1>4. \A read \in late' : LateOK(read)
  BY <1>1, <1>3 DEF SendInv, LateOK
<1>5. uploaded /\ sent \in 0 .. Size /\ hasher \in Seq(Byte)
  BY <1>1 DEF SendInv
<1> QED BY <1>1, <1>2, <1>4, <1>5 DEF SendInv, LateOK

LEMMA SendBytesKept ==
    ASSUME SendOK, Sending!SendSteps PROVE SendOK'
<1> USE DEF SendOK
<1>0. Size \in Nat /\ Sending!Size = Size
  BY SizeIsNat, SendingAccount
<1>1. CASE \/ Sending!Start \/ Sending!ExistsFound \/ Sending!AskFails \/ Sending!SourceError
  <2>1. /\ UNCHANGED <<sent, hasher, uploaded, late, stored, changed>>
        /\ pc' \in {"exists", "sleep", "placed", "failed"}
        /\ pc' = "placed" => stored # {}
    BY <1>1, FailsEitherWay DEF Sending!Start, Sending!ExistsFound, Sending!Credit,
       Sending!AskFails, Sending!SourceError
  <2> QED BY <2>1, SendBytesStay
<1>2. CASE Sending!ExistsMissing
  <2>1. /\ pc' = "post" /\ uploaded' /\ sent' = 0 /\ hasher' = <<>>
        /\ UNCHANGED <<late, stored, changed>>
    BY <1>2 DEF Sending!ExistsMissing
  <2> QED BY <1>0, <2>1, NoBytes DEF SendInv
<1>3. CASE Sending!PostAnswers
  <2>1. /\ pc = "post" /\ pc' = IF Size = 0 THEN "sent" ELSE "body"
        /\ UNCHANGED <<sent, hasher, uploaded, late, stored, changed>>
    BY <1>0, <1>3 DEF Sending!PostAnswers
  <2>2. hasher \in Seq(Byte) /\ Len(hasher) = 0 /\ sent = 0 /\ uploaded
    BY <2>1 DEF SendInv
  <2>3. Follows(hasher, Right)
    BY <2>2, LenProperties DEF Follows
  <2>4. Size = 0 => hasher = Right
    BY <2>2, <2>3, WholeRange, SizeIsNat
  <2> QED BY <1>0, <2>1, <2>2, <2>3, <2>4 DEF SendInv
<1>4. CASE Sending!SourceFails
  <2>1. /\ pc = "body" /\ pc' = "broken" /\ changed'
        /\ UNCHANGED <<sent, hasher, uploaded, late, stored>>
    BY <1>4 DEF Sending!SourceFails
  <2> QED BY <2>1 DEF SendInv
<1>5. CASE Sending!PutAnswers
  <2>1. /\ pc = "sent" /\ pc' = "placed"
        /\ stored' = (IF stored = {} THEN {hasher} ELSE stored)
        /\ UNCHANGED <<sent, hasher, uploaded, late, changed>>
    BY <1>5 DEF Sending!PutAnswers, Sending!Credit
  <2>2. hasher = Right
    BY <2>1 DEF SendInv
  <2> QED BY <2>1, <2>2 DEF SendInv
<1> QED BY <1>1, <1>2, <1>3, <1>4, <1>5, SendChunkKept, PutFailsKept DEF Sending!SendSteps

\* What others do: the bytes of an attempt stay as they are.
LEMMA ElsewhereBytesKept ==
    ASSUME SendOK, Sending!Elsewhere PROVE SendOK' /\ (late' # {} => late # {})
<1> USE DEF SendOK
<1>0. /\ UNCHANGED <<pc, sent, hasher, uploaded>> /\ (changed => changed')
      /\ Size \in Nat /\ Sending!Size = Size
  BY SizeIsNat, SendingAccount DEF Sending!Elsewhere, Sending!LateChunk, Sending!LateLands,
     Sending!LateStops, Sending!OtherPush
<1>1. SUFFICES /\ \A read \in late' : LateOK(read)
               /\ stored' \subseteq {Right} /\ (stored # {} => stored' # {})
               /\ late' # {} => late # {}
  BY <1>0 DEF SendInv, LateOK, Follows
<1>2. \A read \in late : LateOK(read)
  BY DEF SendInv, LateOK
<1>3. CASE Sending!LateChunk
  <2>1. stored' = stored
    BY <1>3 DEF Sending!LateChunk
  <2>2. PICK read \in late : \E b \in Byte :
          /\ Len(read) < Size
          /\ late' = (late \ {read}) \cup
                (IF Len(Append(read, b)) < Size \/ Append(read, b) = Right
                 THEN {Append(read, b)} ELSE {})
    BY <1>0, <1>3 DEF Sending!LateChunk, Sending!RangeAgrees
  <2>3. PICK b \in Byte :
          /\ Len(read) < Size
          /\ late' = (late \ {read}) \cup
                (IF Len(Append(read, b)) < Size \/ Append(read, b) = Right
                 THEN {Append(read, b)} ELSE {})
    BY <2>2
  <2>4. /\ Append(read, b) \in Seq(Byte) /\ Len(Append(read, b)) = Len(read) + 1
        /\ Len(read) \in Nat
    BY <1>2, OneByteMore, LenProperties DEF LateOK
  <2>5. Len(Append(read, b)) < Size \/ Append(read, b) = Right => LateOK(Append(read, b))
    BY <1>0, <2>3, <2>4 DEF LateOK
  <2> QED BY <1>2, <2>1, <2>3, <2>5
<1>4. CASE Sending!LateLands
  <2>1. PICK read \in late : /\ Len(read) = Size /\ late' = late \ {read}
                             /\ stored' = IF stored = {} THEN {read} ELSE stored
    BY <1>0, <1>4 DEF Sending!LateLands
  <2>2. read = Right
    BY <1>2, <2>1 DEF LateOK
  <2> QED BY <1>2, <2>1, <2>2
<1>5. CASE Sending!LateStops
  BY <1>2, <1>5 DEF Sending!LateStops
<1>6. CASE Sending!OtherPush
  BY <1>2, <1>6 DEF Sending!OtherPush
<1> QED BY <1>3, <1>4, <1>5, <1>6 DEF Sending!Elsewhere

-----------------------------------------------------------------------------
(* The account of a push. *)

\* The account r of a push that is at p in attempt a, whose reader is at s.
PushAccount(p, a, s, r) ==
    LET snap == r.snap
        placed == IF p = "placed" THEN 1 ELSE 0
    IN  /\ Watched(r)
        /\ r.credited = IF p = "placed" THEN {0} ELSE {}
        /\ snap.skipped \in {0, 1} /\ (r.closed => p \in {"placed", "failed"})
        /\ a \in Nat \ {0}
        /\ p = "begin" => snap.retries = IF a = 1 THEN 0 ELSE a - 2
        /\ p \notin {"begin", "failed"} => snap.retries = a - 1
        /\ snap.parts = placed /\ snap.bytes = (IF p = "placed" THEN Size ELSE 0)
        /\ snap.skipped = 1 => snap.wire = 0 /\ p = "placed"
        /\ p \in {"post", "body", "sent"} => snap.wire >= s

\* What was never uploaded never crossed the wire, and only that was skipped.
Unsent(up, r) == (up \/ r.snap.wire = 0) /\ (r.snap.skipped = 1 => ~up)

LEMMA SendAccountReads ==
    ASSUME direction = "push", SendInv
    PROVE  AccountOK <=> PushAccount(pc, attempt, sent, report) /\ Unsent(uploaded, report)
<1>1. (IF pc = "placed" THEN 1 ELSE 0) * Size = IF pc = "placed" THEN Size ELSE 0
  BY SizeIsNat
<1> QED BY <1>1 DEF AccountOK, PushAccount, Unsent, CreditInv, RetryInv, AccountIsHonest, Over,
                    SendInv

\* A step that records nothing.
LEMMA SendQuiet ==
    ASSUME NEW p, NEW a, NEW s \in Nat, NEW r, PushAccount(p, a, s, r), p # "placed",
           NEW q, NEW t \in Nat,
           \/ q = "failed"
           \/ q \in {"broken", "sleep"} /\ p \notin {"begin", "failed"}
           \/ q = "post" /\ t = 0 /\ p = "exists"
           \/ q \in {"body", "sent"} /\ t = s /\ p = "post"
    PROVE  PushAccount(q, a, t, r) /\ Onward(r, r)
<1>1. r.snap.wire \in Nat
  BY DEF PushAccount, Watched, Report, Snapshot
<1> QED BY <1>1, NothingRecorded DEF PushAccount

\* A byte crosses the wire, that of the attempt's reader or another's.
LEMMA SendMoves ==
    ASSUME NEW p, NEW a, NEW s \in Nat, NEW r, PushAccount(p, a, s, r),
           NEW q, q = wire(r, 1), r.snap.skipped = 0,
           NEW o, NEW t,
           \/ p = "body" /\ o \in {"body", "sent"} /\ t = s + 1
           \/ o = p /\ t = s
    PROVE  PushAccount(o, a, t, q) /\ Onward(r, q) /\ q.snap.skipped = 0
<1>1. Watched(r) /\ r.snap \in Snapshot
  BY DEF PushAccount, Watched, Report
<1>2. /\ Onward(r, q) /\ Credited(r, q)
      /\ q.snap.hashed = r.snap.hashed /\ q.snap.retries = r.snap.retries
      /\ ~r.closed => q.snap.wire = r.snap.wire + 1
  BY <1>1, WireRecorded
<1>3. Watched(q) /\ q.snap.wire \in Nat /\ q.snap.wire >= r.snap.wire
  BY <1>2 DEF Onward, Watched, Report, Snapshot, Grows
<1>4. CASE p = "body" /\ o \in {"body", "sent"} /\ t = s + 1
  <2>1. ~r.closed /\ r.snap.wire >= s
    BY <1>4 DEF PushAccount
  <2>2. q.snap.wire >= t
    BY <1>1, <1>2, <1>4, <2>1 DEF Snapshot
  <2> QED BY <1>2, <1>3, <1>4, <2>2 DEF PushAccount, Credited
<1>5. CASE o = p /\ t = s
  <2>1. p \in {"post", "body", "sent"} => q.snap.wire >= s
    BY <1>1, <1>3 DEF PushAccount, Snapshot
  <2> QED BY <1>2, <1>3, <1>5, <2>1 DEF PushAccount, Credited
<1> QED BY <1>4, <1>5

\* The part is in place, and was skipped if nothing was ever uploaded.
LEMMA SendPlaces ==
    ASSUME NEW p \in {"exists", "sent"}, NEW a, NEW s, NEW r, PushAccount(p, a, s, r),
           NEW up \in BOOLEAN, Unsent(up, r), NEW q, q = complete(r, 0, Size, ~up)
    PROVE  PushAccount("placed", a, s, q) /\ Unsent(up, q) /\ Onward(r, q)
<1>1. ~r.closed /\ r.credited = {} /\ Watched(r) /\ (~up) \in BOOLEAN
  BY DEF PushAccount
<1>2. /\ Onward(r, q) /\ q.credited = {0} /\ ~q.closed
      /\ q.snap.parts = r.snap.parts + 1 /\ q.snap.bytes = r.snap.bytes + Size
      /\ ~up => q.snap.skipped = r.snap.skipped + 1
      /\ up => q.snap.skipped = r.snap.skipped
      /\ q.snap.wire = r.snap.wire /\ q.snap.retries = r.snap.retries
  <2> DEFINE skipped == ~up
  <2>1. skipped \in BOOLEAN /\ q = complete(r, 0, Size, skipped)
    BY <1>1
  <2>2. skipped <=> ~up
    OBVIOUS
  <2> HIDE DEF skipped
  <2> QED BY <1>1, <2>1, <2>2, CompleteRecorded
<1>3. /\ r.snap.parts = 0 /\ r.snap.bytes = 0 /\ r.snap.skipped = 0
      /\ r.snap.retries = a - 1 /\ a \in Nat \ {0}
  BY DEF PushAccount
<1>4. Watched(q) /\ q.snap.parts = 1 /\ q.snap.bytes = Size /\ q.snap.retries = a - 1
  BY <1>2, <1>3, SizeIsNat DEF Onward
<1>5. CASE up
  <2>1. q.snap.skipped = 0
    <3>1. q.snap.skipped = r.snap.skipped
      BY <1>2, <1>5, Zenon
    <3> QED BY <1>3, <3>1
  <2>2. PushAccount("placed", a, s, q)
    BY <1>2, <1>3, <1>4, <2>1 DEF PushAccount
  <2>3. ~(q.snap.skipped = 1)
    BY <2>1
  <2> QED BY <1>2, <1>5, <2>2, <2>3 DEF Unsent
<1>6. CASE ~up
  <2>1. q.snap.skipped = 1
    <3>1. q.snap.skipped = r.snap.skipped + 1
      BY <1>2, <1>6, Zenon
    <3> QED BY <1>3, <3>1
  <2>2. q.snap.wire = 0
    <3>1. r.snap.wire = 0
      BY <1>6, Zenon DEF Unsent
    <3> QED BY <1>2, <3>1
  <2>3. PushAccount("placed", a, s, q)
    BY <1>2, <1>3, <1>4, <2>1, <2>2 DEF PushAccount
  <2> QED BY <1>2, <1>6, <2>2, <2>3 DEF Unsent
<1> QED BY <1>5, <1>6

LEMMA SendEnters ==
    ASSUME NEW a, NEW s \in Nat, NEW r, PushAccount("begin", a, s, r),
           NEW q, q = IF a > 1 THEN retried(r) ELSE r
    PROVE  /\ PushAccount("exists", a, s, q) /\ Onward(r, q)
           /\ q.snap.skipped = r.snap.skipped /\ q.snap.wire = r.snap.wire
<1>1. ~r.closed /\ Watched(r) /\ r.snap \in Snapshot
  BY DEF PushAccount, Watched, Report
<1>2. CASE a > 1
  <2>1. /\ Onward(r, q) /\ Credited(r, q)
        /\ q.snap.wire = r.snap.wire /\ q.snap.hashed = r.snap.hashed
        /\ q.snap.retries = r.snap.retries + 1
    BY <1>1, <1>2, RetryRecorded
  <2> QED BY <1>1, <1>2, <2>1 DEF PushAccount, Credited, Onward, Snapshot
<1>3. CASE ~(a > 1)
  BY <1>1, <1>3, NothingRecorded DEF PushAccount, Snapshot
<1> QED BY <1>2, <1>3

SendAccount == PushAccount(pc, attempt, sent, report) /\ Unsent(uploaded, report)

LEMMA SendAccountKept ==
    ASSUME SendOK, SendOK', SendAccount, Sending!SendSteps
    PROVE  SendAccount' /\ Onward(report, report')
<1> USE DEF SendAccount
<1>0. /\ Sending!Size = Size /\ Size \in Nat /\ sent \in Nat /\ uploaded \in BOOLEAN
  BY SizeIsNat, SendingAccount DEF SendOK, SendInv
<1>1. CASE Sending!Start /\ ~cancelled
  <2>1. /\ pc = "begin" /\ pc' = "exists" /\ UNCHANGED <<attempt, sent, uploaded>>
        /\ report' = IF attempt > 1 THEN retried(report) ELSE report
    BY <1>1, SendingAccount DEF Sending!Start, Entered
  <2>2. /\ PushAccount("exists", attempt, sent, report') /\ Onward(report, report')
        /\ report'.snap.skipped = report.snap.skipped /\ report'.snap.wire = report.snap.wire
    BY <1>0, <2>1, SendEnters
  <2> QED BY <2>1, <2>2 DEF Unsent
<1>2. CASE Sending!ExistsFound \/ Sending!PutAnswers
  <2>1. /\ pc \in {"exists", "sent"} /\ pc' = "placed" /\ UNCHANGED <<attempt, sent, uploaded>>
        /\ report' = complete(report, 0, Size, ~uploaded)
    BY <1>0, <1>2, SendingAccount DEF Sending!ExistsFound, Sending!PutAnswers, Sending!Credit
  <2>2. /\ PushAccount("placed", attempt, sent, report') /\ Unsent(uploaded, report')
        /\ Onward(report, report')
    BY <1>0, <2>1, SendPlaces
  <2> QED BY <2>1, <2>2
<1>3. CASE Sending!ExistsMissing
  <2>1. /\ pc = "exists" /\ pc' = "post" /\ uploaded' /\ sent' = 0
        /\ UNCHANGED <<attempt, report>>
    BY <1>3 DEF Sending!ExistsMissing
  <2>2. PushAccount("post", attempt, 0, report) /\ Onward(report, report)
    BY <1>0, <2>1, SendQuiet
  <2>3. ~(report.snap.skipped = 1)
    BY <2>1 DEF PushAccount
  <2> QED BY <2>1, <2>2, <2>3 DEF Unsent
<1>4. CASE /\ Sending!SendChunk
           /\ ~(sent' = Size /\ ~Sending!RangeAgrees(hasher'))
  <2>1. /\ pc = "body" /\ pc' \in {"body", "sent"} /\ sent' = sent + 1
        /\ UNCHANGED <<attempt, uploaded>> /\ report' = wire(report, 1)
    BY <1>0, <1>4, SendingAccount DEF Sending!SendChunk
  <2>2. uploaded /\ report.snap.skipped = 0
    BY <2>1 DEF SendOK, SendInv, PushAccount
  <2>3. /\ PushAccount(pc', attempt, sent + 1, report') /\ Onward(report, report')
        /\ report'.snap.skipped = 0
    BY <1>0, <2>1, <2>2, SendMoves
  <2>4. ~(report'.snap.skipped = 1)
    BY <2>3
  <2> QED BY <2>1, <2>2, <2>3, <2>4 DEF Unsent
<1>5. CASE \/ Sending!Start /\ cancelled
           \/ Sending!AskFails \/ Sending!PostAnswers
           \/ Sending!SendChunk /\ sent' = Size /\ ~Sending!RangeAgrees(hasher')
           \/ Sending!SourceFails \/ Sending!SourceError \/ Sending!PutFails
  <2>1. /\ UNCHANGED <<attempt, uploaded, report>>
        /\ \/ pc' = "failed" /\ pc # "placed"
           \/ pc' \in {"broken", "sleep"} /\ pc \in {"exists", "post", "body", "broken", "sent"}
           \/ pc' \in {"body", "sent"} /\ sent' = sent /\ pc = "post"
    <3>1. CASE Sending!AskFails
      BY <3>1, FailsEitherWay DEF Sending!AskFails
    <3>2. CASE Sending!PutFails
      BY <3>2, FailsEitherWay DEF Sending!PutFails
    <3>3. CASE Sending!SendChunk /\ sent' = Size /\ ~Sending!RangeAgrees(hasher')
      BY <1>0, <3>3 DEF Sending!SendChunk
    <3>4. CASE \/ Sending!Start /\ cancelled
               \/ Sending!PostAnswers \/ Sending!SourceFails \/ Sending!SourceError
      BY <3>4 DEF Sending!Start, Sending!PostAnswers, Sending!SourceFails, Sending!SourceError
    <3> QED BY <1>5, <3>1, <3>2, <3>3, <3>4
  <2>2. PICK t \in Nat : t = sent'
    BY SizeIsNat DEF SendOK, SendInv
  <2>3. PushAccount(pc', attempt, t, report) /\ Onward(report, report)
    BY <1>0, <2>1, <2>2, SendQuiet
  <2> QED BY <2>1, <2>2, <2>3
<1> QED BY <1>1, <1>2, <1>3, <1>4, <1>5 DEF Sending!SendSteps

\* What others read is counted until the account is closed.
LEMMA ElsewhereAccountKept ==
    ASSUME SendOK, SendAccount, Sending!Elsewhere
    PROVE  SendAccount' /\ Onward(report, report')
<1> USE DEF SendAccount
<1>0. sent \in Nat /\ UNCHANGED <<pc, attempt, sent, uploaded>>
  BY SizeIsNat DEF SendOK, SendInv, Sending!Elsewhere, Sending!LateChunk, Sending!LateLands,
     Sending!LateStops, Sending!OtherPush
<1>1. CASE report' = report
  BY <1>0, <1>1, NothingRecorded DEF PushAccount
<1>2. CASE report' # report
  <2>1. report' = wire(report, 1) /\ late # {}
    BY <1>2, SendingAccount DEF Sending!Elsewhere, Sending!LateChunk, Sending!LateLands,
       Sending!LateStops, Sending!OtherPush
  <2>2. uploaded
    BY <2>1 DEF SendOK, SendInv
  <2>3. report.snap.skipped = 0
    <3>1. ~(report.snap.skipped = 1)
      BY <2>2 DEF Unsent
    <3> QED BY <3>1 DEF PushAccount
  <2>4. /\ PushAccount(pc, attempt, sent, report') /\ Onward(report, report')
        /\ report'.snap.skipped = 0
    BY <1>0, <2>1, <2>3, SendMoves
  <2>5. ~(report'.snap.skipped = 1)
    BY <2>4
  <2> QED BY <1>0, <2>2, <2>4, <2>5 DEF Unsent
<1> QED BY <1>1, <1>2

-----------------------------------------------------------------------------
(* The part as a whole. *)

LEMMA PullReads ==
    ASSUME direction = "pull"
    PROVE  PartInv <=> FetchOK /\ PullAccount(pc, attempt, done, moved, report)
<1>1. PartInv => FetchOK /\ AccountOK
  BY DEF PartInv, FetchOK, AccountOK, PlacedIsRight
<1>2. FetchOK /\ AccountOK => PartInv
  BY FetchAgrees DEF PartInv, AccountOK, FetchOK
<1> QED BY <1>1, <1>2, FetchAccountReads DEF FetchOK

LEMMA PushReads ==
    ASSUME direction = "push"
    PROVE  PartInv <=> SendOK /\ SendAccount
<1>1. PartInv => SendOK /\ AccountOK
  BY DEF PartInv, SendOK, AccountOK, PlacedIsRight, AgreeToTheByte
<1>2. SendOK /\ AccountOK => PartInv
  BY SendAgrees DEF PartInv, AccountOK, SendOK
<1> QED BY <1>1, <1>2, SendAccountReads DEF SendOK, SendAccount

\* Which transfer it is never changes.
LEMMA PullReadsNext ==
    ASSUME direction' = "pull"
    PROVE  PartInv' <=> FetchOK' /\ PullAccount(pc', attempt', done', moved', report')
<1>1. (direction = "pull" =>
         (PartInv <=> FetchOK /\ PullAccount(pc, attempt, done, moved, report)))'
  BY PullReads, PTL
<1> QED BY <1>1 DEF PullAccount

LEMMA PushReadsNext ==
    ASSUME direction' = "push"
    PROVE  PartInv' <=> SendOK' /\ SendAccount'
<1>1. (direction = "push" => (PartInv <=> SendOK /\ SendAccount))'
  BY PushReads, PTL
<1> QED BY <1>1

-----------------------------------------------------------------------------
LEMMA StartedWatched == Watched(Moving) /\ Moving.snap.wire = 0 /\ Moving.snap.hashed = 0
BY ReporterAssumption
   DEF ReporterAssumption, Moving, Started, Watched, Report, Snapshot, Terminal

LEMMA InitInv == Init => PartInv
<1> SUFFICES ASSUME Init PROVE PartInv
  OBVIOUS
<1>0. Size \in Nat
  BY SizeIsNat
<1>1. CASE direction = "pull"
  <2>1. /\ pc \in {"verify", "begin"} /\ attempt = 1 /\ done = 0 /\ moved = 0 /\ hasher = <<>>
        /\ disk \in [1 .. Size -> Byte] /\ report = Moving
    BY <1>1, FetchingAccount DEF Init, Fetching!FetchInit, Fetching!FirstAttempt
  <2>2. FetchOK
    BY <1>0, <2>1, NoBytes DEF FetchOK, FetchInv, Carried
  <2>3. PullAccount(pc, attempt, done, moved, report)
    BY <1>0, <2>1, StartedWatched DEF PullAccount, Moving, Started
  <2> QED BY <1>1, <2>2, <2>3, PullReads
<1>2. CASE direction = "push"
  <2>1. /\ pc = "begin" /\ attempt = 1 /\ sent = 0 /\ hasher = <<>> /\ uploaded = FALSE
        /\ late = {} /\ stored \in {{}, {Right}} /\ changed = FALSE
        /\ report = hashed(Moving, Size)
    BY <1>2, SendingAccount DEF Init, Sending!SendInit, Sending!FirstAttempt
  <2>2. SendOK
    <3>1. uploaded \in BOOLEAN /\ late = {} /\ stored \subseteq {Right}
      BY <2>1
    <3>2. sent \in 0 .. Size
      BY <1>0, <2>1
    <3>3. hasher \in Seq(Byte) /\ pc = "begin"
      BY <2>1, NoBytes
    <3> QED BY <3>1, <3>2, <3>3 DEF SendOK, SendInv
  <2>3. /\ Watched(report) /\ Credited(Moving, report)
        /\ report.snap.wire = 0 /\ report.snap.retries = Moving.snap.retries
    BY <1>0, <2>1, StartedWatched, HashedRecorded DEF Onward
  <2>4. /\ ~report.closed /\ report.credited = {} /\ report.snap.parts = 0
        /\ report.snap.bytes = 0 /\ report.snap.skipped = 0 /\ report.snap.retries = 0
    BY <2>3 DEF Credited, Moving, Started
  <2>5. PushAccount(pc, attempt, sent, report) /\ Unsent(uploaded, report)
    BY <2>1, <2>3, <2>4 DEF PushAccount, Unsent
  <2> QED BY <1>2, <2>2, <2>5, PushReads DEF SendAccount
<1> QED BY <1>1, <1>2 DEF Init

\* The transfer moves on, or returns: the account changes its phase only.
LEMMA PhaseKept ==
    ASSUME Finalize \/ Finish, Watched(report)
    PROVE  /\ pc \in {"placed", "failed"} /\ Onward(report, report')
           /\ \A a, d, m : PullAccount(pc, a, d, m, report) => PullAccount(pc, a, d, m, report')
           /\ \A a, s : PushAccount(pc, a, s, report) => PushAccount(pc, a, s, report')
           /\ \A up : Unsent(up, report) => Unsent(up, report')
<1>1. ~report.closed /\ pc \in {"placed", "failed"}
  BY DEF Finalize, Finish, Watched, Over, Terminal
<1>2. PICK phase \in {"finalizing", "done", "failed"} :
        \/ phase = "finalizing" /\ report' = Enter(report, phase)
        \/ \E ok \in BOOLEAN : /\ report' = finish(report, ok)
                               /\ phase = IF ok THEN "done" ELSE "failed"
  <2>1. CASE Finalize
    BY <2>1 DEF Finalize
  <2>2. CASE Finish
    <3>1. PICK ok \in BOOLEAN : report' = finish(report, ok)
      BY <2>2 DEF Finish
    <3> QED BY <3>1
  <2> QED BY <2>1, <2>2
<1>3. /\ Onward(report, report')
      /\ report'.credited = report.credited
      /\ report'.snap.parts = report.snap.parts /\ report'.snap.bytes = report.snap.bytes
      /\ report'.snap.skipped = report.snap.skipped
      /\ report'.snap.wire = report.snap.wire /\ report'.snap.hashed = report.snap.hashed
      /\ report'.snap.retries = report.snap.retries
  BY <1>1, <1>2, PhaseRecorded
<1>4. Watched(report')
  BY <1>3 DEF Onward
<1> QED BY <1>1, <1>3, <1>4 DEF PullAccount, PushAccount, Unsent

LEMMA PullStep ==
    ASSUME PartInv, direction = "pull", Next PROVE PartInv' /\ Onward(report, report')
<1>0. /\ FetchOK /\ PullAccount(pc, attempt, done, moved, report) /\ Watched(report)
      /\ direction' = "pull"
  BY PullReads DEF PartInv, Next, Worker, Caller, FetchStep, SendStep, Elsewhere, Finished, Unmoved,
     vars
<1> SUFFICES /\ FetchOK' /\ PullAccount(pc', attempt', done', moved', report')
             /\ Onward(report, report')
  BY <1>0, PullReadsNext
<1>1. CASE FetchStep
  BY <1>0, <1>1, FetchBytesKept, FetchAccountKept DEF FetchStep
<1>2. CASE Wake /\ Unmoved
  <2>1. /\ pc = "sleep" /\ UNCHANGED <<report, hasher, done, moved, disk>>
        /\ \/ pc' = "failed" /\ attempt' = attempt
           \/ pc' = "begin" /\ attempt' = attempt + 1
    BY <1>2 DEF Wake, Unmoved, ownOfFetch
  <2>2. FetchOK'
    <3>1. moved = 0 /\ done \in 0 .. Size /\ (done = 0 \/ Carried) /\ done = done + moved
      BY <1>0, <2>1, SizeIsNat DEF FetchOK, FetchInv, Carried
    <3> QED BY <1>0, <2>1, <3>1, FetchBytesStay
  <2>3. PullAccount(pc', attempt', done, moved, report)
    BY <1>0, <2>1 DEF PullAccount
  <2> QED BY <1>0, <2>1, <2>2, <2>3, NothingRecorded
<1>3. CASE (Finalize \/ Finish) /\ Unmoved
  <2>1. UNCHANGED <<pc, attempt, hasher, done, moved, disk>>
    BY <1>3 DEF Finalize, Finish, Unmoved, ownOfFetch
  <2>2. FetchOK'
    BY <1>0, <2>1 DEF FetchOK, FetchInv, Carried, Follows
  <2>3. PullAccount(pc, attempt, done, moved, report') /\ Onward(report, report')
    BY <1>0, <1>3, PhaseKept
  <2> QED BY <2>1, <2>2, <2>3
<1>4. CASE Caller \/ Finished
  <2>1. UNCHANGED <<pc, attempt, report, hasher, done, moved, disk>>
    BY <1>4 DEF Caller, Cancel, Unmoved, ownOfFetch, Finished, vars, attemptVars
  <2>2. FetchOK'
    BY <1>0, <2>1 DEF FetchOK, FetchInv, Carried, Follows
  <2> QED BY <1>0, <2>1, <2>2, NothingRecorded
<1> QED BY <1>1, <1>2, <1>3, <1>4 DEF Next, Worker, SendStep, Elsewhere

LEMMA PushStep ==
    ASSUME PartInv, direction = "push", Next PROVE PartInv' /\ Onward(report, report')
<1>0. /\ SendOK /\ SendAccount /\ Watched(report) /\ direction' = "push"
  BY PushReads DEF PartInv, Next, Worker, Caller, FetchStep, SendStep, Elsewhere, Finished, Unmoved,
     vars
<1> SUFFICES SendOK' /\ SendAccount' /\ Onward(report, report')
  BY <1>0, PushReadsNext
<1>1. CASE SendStep
  BY <1>0, <1>1, SendBytesKept, SendAccountKept DEF SendStep
<1>2. CASE Elsewhere
  BY <1>0, <1>2, ElsewhereBytesKept, ElsewhereAccountKept DEF Elsewhere
<1>3. CASE Wake /\ Unmoved
  <2>1. /\ pc = "sleep"
        /\ UNCHANGED <<report, sent, hasher, uploaded, late, stored, changed>>
        /\ \/ pc' = "failed" /\ attempt' = attempt
           \/ pc' = "begin" /\ attempt' = attempt + 1
    BY <1>3 DEF Wake, Unmoved, ownOfSend
  <2>2. SendOK'
    BY <1>0, <2>1 DEF SendOK, SendInv
  <2>3. PushAccount(pc', attempt', sent, report)
    BY <1>0, <2>1 DEF SendAccount, PushAccount
  <2> QED BY <1>0, <2>1, <2>2, <2>3, NothingRecorded DEF SendAccount
<1>4. CASE (Finalize \/ Finish) /\ Unmoved
  <2>1. UNCHANGED <<pc, attempt, sent, hasher, uploaded, late, stored, changed>>
    BY <1>4 DEF Finalize, Finish, Unmoved, ownOfSend
  <2>2. SendOK'
    BY <1>0, <2>1 DEF SendOK, SendInv, Follows
  <2>3. /\ PushAccount(pc, attempt, sent, report') /\ Unsent(uploaded, report')
        /\ Onward(report, report')
    BY <1>0, <1>4, PhaseKept DEF SendAccount
  <2> QED BY <2>1, <2>2, <2>3 DEF SendAccount
<1>5. CASE Caller \/ Finished
  <2>1. UNCHANGED <<pc, attempt, report, sent, hasher, uploaded, late, stored, changed>>
    BY <1>5 DEF Caller, Cancel, Unmoved, ownOfSend, Finished, vars, attemptVars
  <2>2. SendOK'
    BY <1>0, <2>1 DEF SendOK, SendInv, Follows
  <2> QED BY <1>0, <2>1, <2>2, NothingRecorded DEF SendAccount
<1> QED BY <1>1, <1>2, <1>3, <1>4, <1>5 DEF Next, Worker, FetchStep

LEMMA StepInv == PartInv /\ [Next]_vars => PartInv' /\ Onward(report, report')
<1> SUFFICES ASSUME PartInv, [Next]_vars PROVE PartInv' /\ Onward(report, report')
  OBVIOUS
<1>1. CASE Next
  BY <1>1, PullStep, PushStep DEF PartInv
<1>2. CASE UNCHANGED vars
  <2>1. Finished \/ report' = report
    BY <1>2 DEF vars, attemptVars
  <2>2. PartInv'
    BY <1>2 DEF vars, attemptVars, ownOfFetch, ownOfSend, PartInv, FetchInv, SendInv, CreditInv,
       RetryInv, PlacedIsRight, AgreeToTheByte, AccountIsHonest, Carried, Follows, Over, Watched
  <2> QED BY <1>2, <2>2, NothingRecorded DEF PartInv, vars, attemptVars
<1> QED BY <1>1, <1>2

-----------------------------------------------------------------------------
\* The inductive invariant: hash, disk and count agree, readers that may still
\* deliver hold nothing but the part, and the account is what happened.
THEOREM PartInvHolds == Spec => []PartInv
<1>1. PartInv /\ [Next]_vars => PartInv'
  BY StepInv
<1> QED BY InitInv, <1>1, PTL DEF Spec

\* A part reported in place is in place, byte for byte, in either direction
\* (attempt; tagSourceReads.Read).
THEOREM Placed == Spec => []PlacedIsRight
<1>1. PartInv => PlacedIsRight
  BY DEF PartInv
<1> QED BY PartInvHolds, <1>1, PTL

\* Hash, disk and count agree wherever an attempt may carry on, and a file that
\* has not changed is never taken for one that has (stream; uploader.attempt).
THEOREM Agrees == Spec => []AgreeToTheByte
<1>1. PartInv => AgreeToTheByte
  BY DEF PartInv
<1> QED BY PartInvHolds, <1>1, PTL

\* The account says what happened, over all attempts together (reporter).
THEOREM Honest == Spec => []AccountIsHonest
<1>1. PartInv => AccountIsHonest
  BY DEF PartInv
<1> QED BY PartInvHolds, <1>1, PTL

\* The watcher is less than a step behind, and only in bytes (coalesce).
THEOREM Current == Spec => []SeenIsCurrent
<1>1. ASSUME PartInv PROVE SeenIsCurrent
  <2>1. /\ Watched(report) /\ report.snap \in Snapshot /\ report.seen \in Snapshot
        /\ ProgressStep \in Nat
    BY <1>1, ReporterAssumption DEF ReporterAssumption, PartInv, Watched, Report
  <2>2. report.seen = [report.snap EXCEPT !.wire = report.seen.wire,
                                          !.hashed = report.seen.hashed]
    BY <2>1 DEF Watched, Snapshot
  <2>3. (report.snap.wire - report.seen.wire) + (report.snap.hashed - report.seen.hashed)
            \in 0 .. ProgressStep - 1
    BY <2>1 DEF Watched, Snapshot
  <2> QED BY <2>2, <2>3 DEF SeenIsCurrent
<1> QED BY PartInvHolds, <1>1, PTL

\* The watcher is told things in order, and nothing after the terminal snapshot
\* (finish).
THEOREM OnlyGrows == Spec => AccountOnlyGrows
<1> DEFINE GrowsIn(old, new) ==
             /\ \A f \in {"parts", "bytes", "skipped", "wire", "hashed", "retries"} :
                    old[f] <= new[f]
             /\ old.phase = "finalizing" => new.phase # "transferring"
           Step == /\ GrowsIn(report.snap, report'.snap) /\ GrowsIn(report.seen, report'.seen)
                   /\ report.seen.phase \in {"done", "failed"} => report' = report
<1>1. ASSUME PartInv, [Next]_vars PROVE Step
  <2>1. Onward(report, report') /\ Watched(report)
    BY <1>1, StepInv DEF PartInv
  <2>2. \A old, new : Grows(old, new) => GrowsIn(old, new)
    BY DEF Grows
  <2>3. report.seen.phase \in {"done", "failed"} => report' = report
    BY <2>1 DEF Onward, Watched, Terminal
  <2> QED BY <2>1, <2>2, <2>3 DEF Onward
<1>2. PartInv /\ [Next]_vars => [Step]_vars
  BY <1>1
<1> QED BY PartInvHolds, <1>2, PTL DEF Spec, AccountOnlyGrows

-----------------------------------------------------------------------------
(* The waits: what Ceiling computes, and what a failed attempt draws. *)

\* Every number is reached by counting.
LEMMA Counting ==
    ASSUME NEW S, 0 \in S, \A n \in Nat : n \in S => n + 1 \in S
    PROVE  Nat \subseteq S
<1> DEFINE Below == {ss \in Nat \X Nat : ss[1] < ss[2]}
           Rest == Nat \ S
<1> SUFFICES ASSUME Rest # {} PROVE FALSE
  OBVIOUS
<1>1. IsWellFoundedOn(Below, Nat)
  BY NatLessThanWellFounded, Zenon DEF OpToRel
<1>2. \A m, n \in Nat : m < n => <<m, n>> \in Below
  OBVIOUS
<1> HIDE DEF Below
<1>3. PICK n \in Rest : \A m \in Rest : <<m, n>> \notin Below
  BY <1>1, WFMin
<1>4. \A m \in Nat \ S : ~(m < n)
  BY <1>2, <1>3
<1>5. n # 0 /\ n - 1 \in Nat
  BY <1>3
<1>6. n - 1 \in S
  BY <1>4, <1>5
<1> QED BY <1>3, <1>5, <1>6

\* A set of n + 1 has twice the subsets of one of n.
LEMMA PowerOfTwo ==
    ASSUME NEW n \in Nat
    PROVE  2 ^ n \in Nat \ {0} /\ 2 ^ (n + 1) = 2 * 2 ^ n
<1> DEFINE S == SUBSET (1 .. n)
           T == {s \cup {n + 1} : s \in S}
<1>1. \A m \in Nat : /\ IsFiniteSet(SUBSET (1 .. m)) /\ Cardinality(SUBSET (1 .. m)) = 2 ^ m
                     /\ 2 ^ m \in Nat
  <2> TAKE m \in Nat
  <2>1. IsFiniteSet(1 .. m) /\ Cardinality(1 .. m) = m
    <3>1. 1 \in Int /\ m \in Int
      OBVIOUS
    <3>2. IsFiniteSet(1 .. m) /\ Cardinality(1 .. m) = IF 1 > m THEN 0 ELSE m - 1 + 1
      BY <3>1, FS_Interval
    <3> QED BY <3>2
  <2>2. IsFiniteSet(SUBSET (1 .. m)) /\ Cardinality(SUBSET (1 .. m)) = 2 ^ Cardinality(1 .. m)
    BY <2>1, FS_SUBSET
  <2> QED BY <2>1, <2>2, FS_CardinalityType
<1>2. IsFiniteSet(S) /\ Cardinality(S) = 2 ^ n /\ 2 ^ n \in Nat
  BY <1>1
<1>3. SUBSET (1 .. n + 1) = S \cup T
  <2>1. ASSUME NEW s \in SUBSET (1 .. n + 1) PROVE s \in S \cup T
    <3>1. CASE n + 1 \in s
      <4>1. s \ {n + 1} \in S /\ s = (s \ {n + 1}) \cup {n + 1}
        BY <3>1
      <4> QED BY <4>1
    <3>2. CASE n + 1 \notin s
      BY <3>2
    <3> QED BY <3>1, <3>2
  <2>2. 1 .. n \subseteq 1 .. n + 1 /\ n + 1 \in 1 .. n + 1
    OBVIOUS
  <2>3. \A s \in S : s \in SUBSET (1 .. n + 1) /\ s \cup {n + 1} \in SUBSET (1 .. n + 1)
    BY <2>2
  <2>4. ASSUME NEW t \in T PROVE t \in SUBSET (1 .. n + 1)
    <3>1. PICK s \in S : t = s \cup {n + 1}
      OBVIOUS
    <3> QED BY <2>3, <3>1
  <2> HIDE DEF S, T
  <2> QED BY <2>1, <2>3, <2>4
<1>4. S \cap T = {}
  OBVIOUS
<1>5. IsFiniteSet(T) /\ Cardinality(T) = Cardinality(S)
  <2> DEFINE f == [s \in S |-> s \cup {n + 1}]
  <2>1. \A s \in S : f[s] \in T /\ s = f[s] \ {n + 1}
    OBVIOUS
  <2>2. f \in [S -> T] /\ \A t \in T : \E s \in S : f[s] = t
    BY <2>1
  <2>3. \A r, s \in S : f[r] = f[s] => r = s
    BY <2>1
  <2> HIDE DEF f, S, T
  <2>4. ExistsBijection(S, T)
    BY <2>2, <2>3 DEF ExistsBijection, Bijection, Injection, IsInjective, Surjection
  <2> QED BY <1>2, <2>4, FS_Bijection
<1> HIDE DEF S, T
<1>6. Cardinality(S \cup T) = Cardinality(S) + Cardinality(T) - 0
  BY <1>2, <1>4, <1>5, FS_Union, FS_EmptySet
<1>7. 2 ^ (n + 1) = 2 ^ n + 2 ^ n
  BY <1>1, <1>2, <1>3, <1>5, <1>6
<1>8. S # {}
  BY DEF S
<1>9. 2 ^ n # 0
  BY <1>2, <1>8, FS_EmptySet
<1> QED BY <1>2, <1>7, <1>9

\* The ceilings are what Ceiling's equation says.
LEMMA CeilingUnfolds ==
    \A n \in 1 .. MaxAttempts :
        Ceiling[n] = IF n = 1 THEN Lesser(Base, Cap) ELSE Doubled(Ceiling[n - 1])
<1> DEFINE Table(f, m) == f = [n \in 1 .. m |-> IF n = 1 THEN Lesser(Base, Cap)
                                               ELSE Doubled(f[n - 1])]
           S == {m \in Nat : \E f : Table(f, m)}
<1>1. 0 \in S
  <2>1. Table([n \in 1 .. 0 |-> 0], 0)
    OBVIOUS
  <2> QED BY <2>1
<1>2. ASSUME NEW m \in Nat, m \in S PROVE m + 1 \in S
  <2>1. PICK f : Table(f, m)
    BY <1>2
  <2> DEFINE next == IF m + 1 = 1 THEN Lesser(Base, Cap) ELSE Doubled(f[m])
             g == [n \in 1 .. m + 1 |-> IF n = m + 1 THEN next ELSE f[n]]
  <2>2. ASSUME NEW n \in 1 .. m + 1
        PROVE  g[n] = IF n = 1 THEN Lesser(Base, Cap) ELSE Doubled(g[n - 1])
    <3>1. CASE n = m + 1
      <4>1. n # 1 => n - 1 = m /\ m \in 1 .. m + 1 /\ m # m + 1
        BY <3>1
      <4>2. n # 1 => g[n - 1] = f[m]
        BY <4>1
      <4> QED BY <3>1, <4>2
    <3>2. CASE n # m + 1
      <4>1. n \in 1 .. m /\ (n # 1 => n - 1 \in 1 .. m + 1 /\ n - 1 # m + 1)
        BY <3>2
      <4>2. g[n] = f[n] /\ (n # 1 => g[n - 1] = f[n - 1])
        BY <3>2, <4>1
      <4>3. f[n] = IF n = 1 THEN Lesser(Base, Cap) ELSE Doubled(f[n - 1])
        BY <2>1, <4>1
      <4> QED BY <4>2, <4>3
    <3> QED BY <3>1, <3>2
  <2> HIDE DEF next
  <2>3. g = [n \in 1 .. m + 1 |-> g[n]]
    OBVIOUS
  <2> HIDE DEF g
  <2>4. Table(g, m + 1)
    BY <2>2, <2>3
  <2> QED BY <2>4
<1> HIDE DEF S
<1>3. MaxAttempts \in S
  BY <1>1, <1>2, Counting, BackoffAssumption DEF BackoffAssumption
<1>4. \E f : Table(f, MaxAttempts)
  BY <1>3 DEF S
<1>5. Table(Ceiling, MaxAttempts)
  BY <1>4 DEF Ceiling
<1> QED BY <1>5

\* A doubled ceiling is the cap or twice as much, and no duration overflows.
LEMMA DoubledBelowCap ==
    ASSUME NEW x \in Nat \ {0}
    PROVE  Doubled(Lesser(Cap, x)) = Lesser(Cap, 2 * x)
<1>1. MaxWait \in Nat /\ Cap \in 1 .. MaxWait
  BY BackoffAssumption DEF BackoffAssumption
<1>2. Cap \div 2 \in Nat /\ 2 * (Cap \div 2) <= Cap /\ Cap <= 2 * (Cap \div 2) + 1
  BY <1>1
<1>3. CASE x >= Cap
  BY <1>1, <1>3 DEF Doubled, Lesser
<1>4. CASE x < Cap /\ x > Cap \div 2
  BY <1>1, <1>2, <1>4 DEF Doubled, Lesser
<1>5. CASE x < Cap /\ ~(x > Cap \div 2)
  <2>1. 2 * x <= MaxWait /\ 2 * x <= Cap
    BY <1>1, <1>2, <1>5
  <2>2. \A k, m \in Nat : k < m => k % m = k
    OBVIOUS
  <2>3. 2 * x + MaxWait + 1 \in Nat /\ 2 * (MaxWait + 1) \in Nat
        /\ 2 * x + MaxWait + 1 < 2 * (MaxWait + 1)
    BY <1>1, <2>1
  <2>4. (2 * x + MaxWait + 1) % (2 * (MaxWait + 1)) = 2 * x + MaxWait + 1
    BY <2>2, <2>3
  <2>5. Twice(x) = 2 * x
    BY <1>1, <2>4 DEF Twice
  <2> QED BY <1>1, <1>5, <2>1, <2>5 DEF Doubled, Lesser
<1> QED BY <1>1, <1>3, <1>4, <1>5

\* Ceilings double up to the cap.
LEMMA CeilingDoubles ==
    \A n \in 1 .. MaxAttempts : Ceiling[n] = Lesser(Cap, Base * 2 ^ (n - 1))
<1> DEFINE S == {m \in Nat : m + 1 <= MaxAttempts =>
                                Ceiling[m + 1] = Lesser(Cap, Base * 2 ^ m)}
<1>1. MaxAttempts \in Nat /\ Base \in Nat \ {0} /\ Cap \in Nat
  BY BackoffAssumption DEF BackoffAssumption
<1>2. 0 \in S
  <2>1. 1 \in 1 .. MaxAttempts /\ 0 + 1 = 1 /\ 2 ^ 0 = 1 /\ Base * 1 = Base
    BY <1>1, BackoffAssumption DEF BackoffAssumption
  <2>2. Ceiling[1] = Lesser(Cap, Base)
    BY <1>1, <2>1, CeilingUnfolds DEF Lesser
  <2>3. Base * 2 ^ 0 = Base
    BY <2>1
  <2> QED BY <2>1, <2>2, <2>3
<1>3. ASSUME NEW m \in Nat, m \in S PROVE m + 1 \in S
  <2> SUFFICES ASSUME (m + 1) + 1 <= MaxAttempts
               PROVE  Ceiling[(m + 1) + 1] = Lesser(Cap, Base * 2 ^ (m + 1))
    OBVIOUS
  <2> DEFINE power == 2 ^ m
  <2>1. power \in Nat \ {0} /\ 2 ^ (m + 1) = 2 * power
    BY PowerOfTwo
  <2>2. Ceiling[m + 1] = Lesser(Cap, Base * power)
    BY <1>1, <1>3
  <2> HIDE DEF power
  <2>3. Base * power \in Nat \ {0} /\ Base * (2 * power) = 2 * (Base * power)
    BY <1>1, <2>1
  <2>4. (m + 1) + 1 \in 1 .. MaxAttempts /\ (m + 1) + 1 # 1 /\ ((m + 1) + 1) - 1 = m + 1
    BY <1>1
  <2>5. Ceiling[(m + 1) + 1] = Doubled(Ceiling[m + 1])
    BY <2>4, CeilingUnfolds
  <2>6. Doubled(Lesser(Cap, Base * power)) = Lesser(Cap, 2 * (Base * power))
    BY <2>3, DoubledBelowCap
  <2> QED BY <2>1, <2>2, <2>3, <2>5, <2>6
<1>4. Nat \subseteq S
  <2> HIDE DEF S
  <2> QED BY <1>2, <1>3, Counting
<1> SUFFICES ASSUME NEW n \in 1 .. MaxAttempts
             PROVE  Ceiling[n] = Lesser(Cap, Base * 2 ^ (n - 1))
  OBVIOUS
<1>5. n - 1 \in Nat /\ (n - 1) + 1 = n
  BY <1>1
<1> QED BY <1>1, <1>4, <1>5

\* What a policy may draw after attempt n lies between the wait asked for and
\* the cap, and may be the longest of either.
LEMMA WaitsFacts ==
    ASSUME NEW n \in 1 .. MaxAttempts, NEW after \in Int, NEW wait \in Waits(n, after)
    PROVE  /\ Lesser(after, Cap) <= wait /\ wait <= Cap
           /\ Greater(Ceiling[n] - 1, Lesser(after, Cap)) \in Waits(n, after)
<1>1. Cap \in Nat \ {0} /\ Base \in Nat \ {0} /\ MaxAttempts \in Nat
  BY BackoffAssumption DEF BackoffAssumption
<1>2. Ceiling[n] \in 1 .. Cap
  <2> DEFINE power == 2 ^ (n - 1)
  <2>1. n - 1 \in Nat
    BY <1>1
  <2>2. power \in Nat \ {0}
    BY <2>1, PowerOfTwo
  <2>3. Ceiling[n] = Lesser(Cap, Base * power)
    BY CeilingDoubles
  <2> HIDE DEF power
  <2>4. Base * power \in Nat \ {0}
    BY <1>1, <2>2
  <2> QED BY <1>1, <2>3, <2>4 DEF Lesser
<1>3. backoff(n) = 0 .. Ceiling[n] - 1
  BY <1>2 DEF backoff
<1>4. PICK w \in 0 .. Ceiling[n] - 1 :
        wait = IF after > 0 THEN Greater(w, Lesser(after, Cap)) ELSE w
  BY <1>3 DEF Waits
<1>5. Lesser(after, Cap) <= wait /\ wait <= Cap
  BY <1>1, <1>2, <1>4 DEF Lesser, Greater
<1> DEFINE top == Ceiling[n] - 1
<1>6. top \in backoff(n) /\ top \in Nat
  BY <1>2, <1>3
<1>7. (IF after > 0 THEN Greater(top, Lesser(after, Cap)) ELSE top) \in Waits(n, after)
  BY <1>6 DEF Waits
<1>8. after <= 0 => Greater(top, Lesser(after, Cap)) = top
  BY <1>1, <1>6 DEF Greater, Lesser
<1>9. Greater(top, Lesser(after, Cap)) \in Waits(n, after)
  BY <1>7, <1>8
<1> QED BY <1>5, <1>9

Drawn(place, n, rest) ==
    place = "sleep" => /\ n < MaxAttempts /\ rest.after \in Int
                       /\ rest.wait \in Waits(n, rest.after)

LEMMA PauseReads == /\ PauseInv <=> Drawn(pc, attempt, pause)
                    /\ PauseInv' <=> Drawn(pc', attempt', pause')
<1>1. PauseInv <=> Drawn(pc, attempt, pause)
  BY DEF PauseInv, Drawn
<1>2. PauseInv' <=> Drawn(pc', attempt', pause')
  BY DEF PauseInv, Drawn
<1> QED BY <1>1, <1>2

LEMMA AftersAreTimes == Afters \subseteq Int /\ 0 \in Afters
<1>1. \A n \in Counts : AfterCount(n) \in Int
  BY AttemptsAssumption, BackoffAssumption
     DEF AttemptsAssumption, BackoffAssumption, AfterCount
<1>2. \A u \in Untils : AfterDate(u) \in Int
  BY AttemptsAssumption, BackoffAssumption
     DEF AttemptsAssumption, BackoffAssumption, AfterDate, Greater
<1> QED BY <1>1, <1>2 DEF Afters

\* Both directions wait by the same policy.
LEMMA SamePolicy ==
    /\ \A n, after : Fetching!Waits(n, after) = Waits(n, after)
    /\ \A n, after : Sending!Waits(n, after) = Waits(n, after)
    /\ Fetching!Afters = Afters /\ Sending!Afters = Afters
<1>1. Fetching!Ceiling = Ceiling /\ Sending!Ceiling = Ceiling
  BY DEF Fetching!Ceiling, Sending!Ceiling, Ceiling, Fetching!Lesser, Sending!Lesser, Lesser,
         Fetching!Doubled, Sending!Doubled, Doubled, Fetching!Twice, Sending!Twice, Twice
<1>2. \A n, after : Fetching!Waits(n, after) = Waits(n, after)
  BY <1>1 DEF Fetching!Waits, Waits, Fetching!backoff, backoff, Fetching!Greater, Greater,
              Fetching!Lesser, Lesser
<1>3. \A n, after : Sending!Waits(n, after) = Waits(n, after)
  BY <1>1 DEF Sending!Waits, Waits, Sending!backoff, backoff, Sending!Greater, Greater,
              Sending!Lesser, Lesser
<1>4. Fetching!Afters = Afters /\ Sending!Afters = Afters
  BY DEF Fetching!Afters, Sending!Afters, Afters, Fetching!AfterCount, Sending!AfterCount,
         AfterCount, Fetching!AfterDate, Sending!AfterDate, AfterDate, Fetching!Greater,
         Sending!Greater, Greater
<1> QED BY <1>2, <1>3, <1>4

\* A step that ends asleep has failed an attempt, or changes nothing about it.
Rests == \/ pc' # "sleep"
         \/ UNCHANGED <<pc, attempt, pause>>
         \/ /\ attempt' = attempt
            /\ \E transient \in BOOLEAN, after \in Afters :
                 Fetching!AttemptFails(transient, after) \/ Sending!AttemptFails(transient, after)

LEMMA StepRests == [Next]_vars => Rests
<1>1. CASE FetchStep
  BY <1>1, AftersAreTimes, SamePolicy
     DEF FetchStep, Rests, Fetching!FetchSteps, Fetching!VerifyReads, Fetching!VerifyStops,
         Fetching!VerifyEnds, Fetching!Begin, Fetching!GetAnswers, Fetching!Opened,
         Fetching!GetFails, Fetching!Chunk, Fetching!WriteFails, Fetching!ReadFails,
         Fetching!EndsShort, Fetching!Copied, Fetching!EndsThere, Fetching!EndsLong,
         Fetching!EndFails
<1>2. CASE SendStep
  BY <1>2, SamePolicy
     DEF SendStep, Rests, Sending!SendSteps, Sending!Start, Sending!Credit, Sending!ExistsFound,
         Sending!ExistsMissing, Sending!AskFails, Sending!PostAnswers, Sending!SendChunk,
         Sending!SourceFails, Sending!SourceError, Sending!PutAnswers, Sending!PutFails
<1>3. CASE Elsewhere
  BY <1>3 DEF Elsewhere, Rests, Sending!Elsewhere, Sending!LateChunk, Sending!LateLands,
              Sending!LateStops, Sending!OtherPush
<1>4. CASE Wake \/ Finalize \/ Finish \/ Cancel
  BY <1>4 DEF Wake, Finalize, Finish, Cancel, Rests
<1>5. CASE UNCHANGED vars
  BY <1>5 DEF vars, attemptVars, Rests
<1> QED BY <1>1, <1>2, <1>3, <1>4, <1>5 DEF Next, Worker, Caller, Finished

\* Waits double up to the cap, and a registry that asks for one neither
\* shortens them, nor takes their jitter away, nor parks the transfer past the
\* cap (Do, Policy.backoff).
THEOREM Escalates == Spec => []WaitsEscalate
<1>1. Init => PauseInv
  BY DEF Init, Fetching!FetchInit, Sending!SendInit, PauseInv
<1>2. PauseInv /\ [Next]_vars => PauseInv'
  <2> SUFFICES ASSUME PauseInv, Rests PROVE Drawn(pc', attempt', pause')
    BY StepRests, PauseReads
  <2>1. CASE pc' # "sleep"
    BY <2>1 DEF Drawn
  <2>2. CASE UNCHANGED <<pc, attempt, pause>>
    BY <2>2, PauseReads DEF Drawn
  <2>3. ASSUME NEW transient \in BOOLEAN, NEW after \in Afters, attempt' = attempt,
               Fetching!AttemptFails(transient, after) \/ Sending!AttemptFails(transient, after)
        PROVE  Drawn(pc', attempt', pause')
    BY <2>3, AftersAreTimes, SamePolicy DEF Drawn, Fetching!AttemptFails, Sending!AttemptFails
  <2> QED BY <2>1, <2>2, <2>3 DEF Rests
<1>3. PartInv /\ PauseInv => WaitsEscalate
  <2> SUFFICES ASSUME PartInv, PauseInv, pc = "sleep"
               PROVE  /\ Ceiling[attempt] = Lesser(Cap, Base * 2 ^ (attempt - 1))
                      /\ Lesser(pause.after, Cap) <= pause.wait /\ pause.wait <= Cap
                      /\ Greater(Ceiling[attempt] - 1, Lesser(pause.after, Cap))
                              \in Waits(attempt, pause.after)
    BY DEF WaitsEscalate
  <2>1. attempt \in 1 .. MaxAttempts
    BY BackoffAssumption DEF BackoffAssumption, PartInv, RetryInv, PauseInv
  <2> QED BY <2>1, CeilingDoubles, WaitsFacts DEF PauseInv
<1> QED BY <1>1, <1>2, <1>3, PartInvHolds, PTL DEF Spec
=============================================================================
