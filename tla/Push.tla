-------------------------------- MODULE Push --------------------------------
(***************************************************************************)
(* One push of internal/transfer: a goroutine that hashes the file part by *)
(* part and queues each part, a pool of workers that upload what the       *)
(* registry lacks, the claim set that keeps twins (parts with one digest)  *)
(* from being uploaded twice, the empty config blob and the manifest that  *)
(* follow, the retry budget around every unit, and the account of parts a  *)
(* progress callback sees.                                                 *)
(*                                                                         *)
(* A part's content stands for its digest.  The registry stores whatever   *)
(* body a PUT carries, so nothing is taken from a server that verifies.    *)
(***************************************************************************)
EXTENDS Plan, FiniteSets

CONSTANTS FileSize, PartSize,
          Contents,     \* what a part-sized range of the file may hold
          SizeOf,       \* the length of each content
          EmptyConfig,  \* the config blob
          Workers,      \* the pool Push started
          Main,         \* the goroutine that called Push
          MaxAttempts,  \* Policy.Attempts
          MaxEdits,     \* bound: how often the file changes under the push
          None

NumParts == NewPlan(FileSize, PartSize).numParts
Parts == 0 .. NumParts - 1
PartLength(i) == PartAt(FileSize, PartSize, i).size
Blobs == Contents \cup {EmptyConfig}
Actors == Workers \cup {Main}

\* The contents a range of part i's length may have; None is a range that
\* ends early or no longer reads.
Ranges(i) == {c \in Contents : SizeOf[c] = PartLength(i)}

ASSUME PushAssumption ==
    /\ FileSize \in Nat /\ PartSize \in Nat \ {0}
    /\ FileSize <= MaxInt /\ PartSize <= MaxInt
    /\ NewPlan(FileSize, PartSize).err = "none"
    /\ SizeOf \in [Contents -> Nat]
    /\ None \notin Blobs /\ None \notin [Parts -> Contents]
    /\ Workers # {} /\ IsFiniteSet(Workers) /\ IsFiniteSet(Contents)
    /\ Main \notin Workers
    /\ MaxAttempts \in Nat \ {0}
    /\ MaxEdits \in Nat

VARIABLES
    source,     \* the file: what each range holds now
    edits,      \* how often it has changed
    hasher,     \* the hash pass: between, reading, failing, left
    hashed,     \* how many parts the pass has recorded and queued
    recorded,   \* the digest the pass recorded for each part
    taken,      \* how many jobs the workers have received
    claims,     \* claimSet: what the push knows about each digest
    act,        \* per goroutine: the unit of work it is on, and where in it
    cancelled,  \* the caller's ctx is done
    groupErr,   \* the errgroup holds an error, so its ctx is done
    stored,     \* the repository's blobs: the body stored under each digest
    manifest,   \* what the reference resolves to
    credited,   \* reporter: the part indexes already counted
    snap        \* reporter: the snapshot

envVars == <<source, edits, cancelled>>
passVars == <<hasher, hashed, recorded>>
registryVars == <<stored, manifest>>
reportVars == <<credited, snap>>
vars == <<source, edits, hasher, hashed, recorded, taken, claims, act,
          cancelled, groupErr, stored, manifest, credited, snap>>

-----------------------------------------------------------------------------
Claim == [state : {"free", "pending", "done"}, waiting : Nat]

Actor == [unit : {"part", "config", "manifest"},
          pc : {"wait", "idle", "begin", "exists", "put", "landed", "sleep",
                "settle", "credit", "twins", "left"},
          part : Parts,
          attempt : 1 .. MaxAttempts,
          uploaded : BOOLEAN,
          owed : Nat]

Snapshot == [phase : {"transferring", "finalizing", "done", "failed"},
             parts : Nat, bytes : Nat, skipped : Nat]

\* The type invariant.
TypeOK ==
    /\ source \in [Parts -> Contents \cup {None}]
    /\ edits \in 0 .. MaxEdits
    /\ hasher \in {"between", "reading", "failing", "left"}
    /\ hashed \in 0 .. NumParts
    /\ recorded \in [Parts -> Contents \cup {None}]
    /\ taken \in 0 .. NumParts
    /\ claims \in [Contents -> Claim]
    /\ act \in [Actors -> Actor]
    /\ cancelled \in BOOLEAN
    /\ groupErr \in BOOLEAN
    /\ stored \in [Blobs -> Blobs \cup {None}]
    /\ manifest \in [Parts -> Contents] \cup {None}
    /\ credited \subseteq Parts
    /\ snap \in Snapshot

Fresh(unit, pc) == [unit |-> unit, pc |-> pc, part |-> 0, attempt |-> 1,
                    uploaded |-> FALSE, owed |-> 0]

Init ==
    /\ source \in [Parts -> Contents] /\ \A i \in Parts : source[i] \in Ranges(i)
    /\ edits = 0
    /\ hasher = "between" /\ hashed = 0
    /\ recorded = [i \in Parts |-> None]
    /\ taken = 0
    /\ claims = [c \in Contents |-> [state |-> "free", waiting |-> 0]]
    /\ act = [a \in Actors |-> IF a = Main THEN Fresh("config", "wait")
                                           ELSE Fresh("part", "idle")]
    /\ cancelled = FALSE /\ groupErr = FALSE
    /\ \E held \in SUBSET Blobs :
           stored = [b \in Blobs |-> IF b \in held THEN b ELSE None]
    /\ manifest = None
    /\ credited = {}
    /\ snap = [phase |-> "transferring", parts |-> 0, bytes |-> 0, skipped |-> 0]

-----------------------------------------------------------------------------
(* What every goroutine shares. *)

\* The ctx the pool and the hash pass run under is over.  Main's own ctx is
\* over only with the caller's, but Main works only once the pool has ended
\* without an error, so one test serves every actor.
CtxDone == cancelled \/ groupErr

Ended == act[Main].pc = "left"

\* The digest the unit of work of a is about.
Blob(a) == IF act[a].unit = "part" THEN recorded[act[a].part] ELSE EmptyConfig

At(a, pc) == act[a].pc = pc
Goto(a, pc) == act' = [act EXCEPT ![a].pc = pc]

\* Mistake: the pool loses an error, as a group not fed its goroutines' would.
ReturnErrorLost(a) ==
    /\ Goto(a, "left")
    /\ IF a = Main THEN snap' = [snap EXCEPT !.phase = "failed"] /\ UNCHANGED groupErr
                   ELSE UNCHANGED <<groupErr, snap>>

\* The goroutine returns an error: a pool goroutine's ends the group, Main's
\* is what Push returns, and the reporter closes on it.
ReturnError(a) ==
    /\ Goto(a, "left")
    /\ IF a = Main THEN snap' = [snap EXCEPT !.phase = "failed"] /\ UNCHANGED groupErr
                   ELSE groupErr' = TRUE /\ UNCHANGED snap

\* The attempt a is in has failed; retry.Do decides what that means.
AttemptFails(a, transient) ==
    IF transient /\ ~CtxDone /\ act[a].attempt < MaxAttempts
    THEN Goto(a, "sleep") /\ UNCHANGED <<groupErr, snap>>
    ELSE ReturnError(a)

\* The attempt has succeeded, which ends the unit's budget.
UnitDone(a) ==
    \/ /\ act[a].unit = "part"
       /\ Goto(a, "settle") /\ UNCHANGED snap
    \/ /\ act[a].unit = "config"
       /\ act' = [act EXCEPT ![a] = Fresh("manifest", "begin")] /\ UNCHANGED snap
    \/ /\ act[a].unit = "manifest"
       /\ Goto(a, "left") /\ snap' = [snap EXCEPT !.phase = "done"]

-----------------------------------------------------------------------------
(* The surroundings: the caller may cancel, the file may change. *)

Cancel ==
    /\ ~cancelled /\ ~Ended
    /\ cancelled' = TRUE
    /\ UNCHANGED <<source, edits, passVars, taken, claims, act, groupErr,
                   registryVars, reportVars>>

EditSource ==
    /\ edits < MaxEdits /\ ~Ended
    /\ edits' = edits + 1
    /\ \E i \in Parts : \E c \in Ranges(i) \cup {None} :
           source' = [source EXCEPT ![i] = c]
    /\ UNCHANGED <<cancelled, passVars, taken, claims, act, groupErr,
                   registryVars, reportVars>>

-----------------------------------------------------------------------------
(* The hash pass.  Its channel has room for every part, so a send never    *)
(* blocks; the channel is closed once the pass is failing or has left,     *)
(* which is before the errgroup hears of a failure.                        *)

\* Mistake: the channel is closed only when the pass succeeds.
ClosedOnSuccess == hasher = "left" /\ hashed = NumParts

Closed == hasher \in {"failing", "left"}

HashNext ==
    /\ hasher = "between"
    /\ hasher' = IF hashed = NumParts THEN "left"
                 ELSE IF CtxDone THEN "failing" ELSE "reading"
    /\ UNCHANGED <<envVars, hashed, recorded, taken, claims, act, groupErr,
                   registryVars, reportVars>>

HashPart ==
    /\ hasher = "reading"
    /\ source[hashed] # None
    /\ hasher' = "between"
    /\ hashed' = hashed + 1
    /\ recorded' = [recorded EXCEPT ![hashed] = source[hashed]]
    /\ UNCHANGED <<envVars, taken, claims, act, groupErr, registryVars, reportVars>>

\* The range is short, or the disk refuses it.
HashFails ==
    /\ hasher = "reading"
    /\ hasher' = "failing"
    /\ UNCHANGED <<envVars, hashed, recorded, taken, claims, act, groupErr,
                   registryVars, reportVars>>

HasherReturns ==
    /\ hasher = "failing"
    /\ hasher' = "left"
    /\ groupErr' = TRUE
    /\ UNCHANGED <<envVars, hashed, recorded, taken, claims, act,
                   registryVars, reportVars>>

-----------------------------------------------------------------------------
(* The pool. *)

\* Mistakes: a claim that is pending counts as free, or as settled.
FreeUntilDone(d) == claims[d].state # "done"
DoneOnceTaken(d) == claims[d].state # "free"

\* claimSet.take: nobody has the digest, its upload is under way, or settled.
Free(d) == claims[d].state = "free"
Settled(d) == claims[d].state = "done"

\* drain receives a job and, unless ctx is over, takes the claim on its digest.
Take(w) ==
    /\ At(w, "idle") /\ taken < hashed
    /\ taken' = taken + 1
    /\ IF CtxDone
       THEN ReturnError(w) /\ UNCHANGED claims
       ELSE LET d == recorded[taken]
                job == [Fresh("part", "begin") EXCEPT !.part = taken]
            IN  /\ \/ /\ Free(d)
                      /\ claims' = [claims EXCEPT ![d].state = "pending"]
                      /\ act' = [act EXCEPT ![w] = job]
                   \/ /\ ~Free(d) /\ ~Settled(d)
                      /\ claims' = [claims EXCEPT ![d].waiting = @ + 1]
                      /\ UNCHANGED act
                   \/ /\ Settled(d)
                      /\ act' = [act EXCEPT ![w] = [job EXCEPT !.pc = "credit"]]
                      /\ UNCHANGED claims
                /\ UNCHANGED <<groupErr, snap>>
    /\ UNCHANGED <<envVars, passVars, registryVars, credited>>

\* The channel is closed and drained.
Depart(w) ==
    /\ At(w, "idle") /\ taken = hashed /\ Closed
    /\ Goto(w, "left")
    /\ UNCHANGED <<envVars, passVars, taken, claims, groupErr, registryVars, reportVars>>

\* Mistakes: the claimer's own part is among those it owes, or nothing is.
OwedWithOwn(d) == claims[d].waiting + 1
OwedNothing(d) == 0

\* The parts a settling worker credits besides its own.
OwedBy(d) == claims[d].waiting

\* claimSet.settle: the digest is in place, and its claimer owes the credit
\* of every part that was waiting on it.
Settle(w) ==
    /\ At(w, "settle")
    /\ LET d == Blob(w)
       IN  /\ act' = [act EXCEPT ![w].pc = "credit", ![w].owed = OwedBy(d)]
           /\ claims' = [claims EXCEPT ![d] = [state |-> "done", waiting |-> 0]]
    /\ UNCHANGED <<envVars, passVars, taken, groupErr, registryVars, reportVars>>

\* reporter.complete for the worker's own part.
Credit(w) ==
    /\ At(w, "credit")
    /\ Goto(w, "twins")
    /\ LET i == act[w].part
       IN  IF i \in credited THEN UNCHANGED reportVars
           ELSE /\ credited' = credited \cup {i}
                /\ snap' = [snap EXCEPT !.parts = @ + 1, !.bytes = @ + PartLength(i),
                                        !.skipped = @ + IF act[w].uploaded THEN 0 ELSE 1]
    /\ UNCHANGED <<envVars, passVars, taken, claims, groupErr, registryVars>>

\* reporter.completeTwins for the parts that were waiting.
CreditTwins(w) ==
    /\ At(w, "twins")
    /\ act' = [act EXCEPT ![w] = Fresh("part", "idle")]
    /\ LET n == act[w].owed
       IN  snap' = [snap EXCEPT !.parts = @ + n, !.bytes = @ + n * PartLength(act[w].part),
                                !.skipped = @ + n]
    /\ UNCHANGED <<envVars, passVars, taken, claims, groupErr, registryVars, credited>>

-----------------------------------------------------------------------------
(* One unit of work under its retry budget: a part, the empty config blob, *)
(* the manifest.  The first two ask whether the blob exists and put it if  *)
(* not; the manifest is put outright.                                      *)

Begin(a) ==
    /\ At(a, "begin")
    /\ IF CtxDone THEN ReturnError(a)
       ELSE /\ Goto(a, IF act[a].unit = "manifest" THEN "put" ELSE "exists")
            /\ UNCHANGED <<groupErr, snap>>
    /\ UNCHANGED <<envVars, passVars, taken, claims, registryVars, credited>>

\* Mistake: attempts are not counted.
WakeUncounted(a) ==
    /\ At(a, "sleep")
    /\ IF CtxDone THEN ReturnError(a) ELSE Goto(a, "begin") /\ UNCHANGED <<groupErr, snap>>
    /\ UNCHANGED <<envVars, passVars, taken, claims, registryVars, credited>>

\* The backoff runs out, or the end of ctx cuts it short.
Wake(a) ==
    /\ At(a, "sleep")
    /\ IF CtxDone THEN ReturnError(a)
       ELSE /\ act' = [act EXCEPT ![a].pc = "begin", ![a].attempt = @ + 1]
            /\ UNCHANGED <<groupErr, snap>>
    /\ UNCHANGED <<envVars, passVars, taken, claims, registryVars, credited>>

ExistsFound(a) ==
    /\ At(a, "exists") /\ stored[Blob(a)] # None
    /\ UnitDone(a)
    /\ UNCHANGED <<envVars, passVars, taken, claims, groupErr, registryVars, credited>>

ExistsMissing(a) ==
    /\ At(a, "exists") /\ stored[Blob(a)] = None
    /\ act' = [act EXCEPT ![a].pc = "put", ![a].uploaded = (act[a].unit = "part")]
    /\ UNCHANGED <<envVars, passVars, taken, claims, groupErr, registryVars, reportVars>>

\* Mistake: the body is sent as it reads.
BodyUnchecked(a) == act[a].unit = "part" => source[act[a].part] # None

\* tagSourceReads hands over the last chunk only if the range still hashes to
\* the digest the pass recorded; until then the body is short of its length.
BodyVerified(a) == act[a].unit = "part" => source[act[a].part] = Blob(a)

\* The whole body arrives, and the registry acts on it.
PutLands(a) ==
    /\ At(a, "put") /\ BodyVerified(a)
    /\ Goto(a, "landed")
    /\ \/ /\ act[a].unit = "part"
          /\ stored' = [stored EXCEPT ![Blob(a)] = source[act[a].part]]
          /\ UNCHANGED manifest
       \/ /\ act[a].unit = "config"
          /\ stored' = [stored EXCEPT ![EmptyConfig] = EmptyConfig]
          /\ UNCHANGED manifest
       \/ /\ act[a].unit = "manifest"
          /\ manifest' = recorded
          /\ UNCHANGED stored
    /\ UNCHANGED <<envVars, passVars, taken, claims, groupErr, reportVars>>

\* The range no longer holds the digest: terminal, whatever the transport said.
PutSourceChanged(a) ==
    /\ At(a, "put") /\ ~BodyVerified(a)
    /\ AttemptFails(a, FALSE)
    /\ UNCHANGED <<envVars, passVars, taken, claims, registryVars, credited>>

PutAnswered(a) ==
    /\ At(a, "landed")
    /\ UnitDone(a)
    /\ UNCHANGED <<envVars, passVars, taken, claims, groupErr, registryVars, credited>>

\* A request is refused, or breaks on the way out or, its work done, on the
\* way back.
RequestFails(a) ==
    /\ act[a].pc \in {"exists", "put", "landed"}
    /\ \E transient \in BOOLEAN : AttemptFails(a, transient)
    /\ UNCHANGED <<envVars, passVars, taken, claims, registryVars, credited>>

-----------------------------------------------------------------------------
\* Mistake: an empty queue is taken for the end of the pool.
PoolDrained == hasher = "left" /\ taken = NumParts

PoolEnded == hasher = "left" /\ \A w \in Workers : At(w, "left")

\* group.Wait returns: the tail work starts, or Push fails.
GroupDone ==
    /\ At(Main, "wait")
    /\ PoolEnded
    /\ IF groupErr THEN ReturnError(Main)
       ELSE /\ Goto(Main, "begin")
            /\ snap' = [snap EXCEPT !.phase = "finalizing"]
            /\ UNCHANGED groupErr
    /\ UNCHANGED <<envVars, passVars, taken, claims, registryVars, credited>>

\* Push has returned and every goroutine it started is gone.
Returned == Ended /\ UNCHANGED vars

Hasher == HashNext \/ HashPart \/ HashFails \/ HasherReturns
Worker(w) == Take(w) \/ Depart(w) \/ Settle(w) \/ Credit(w) \/ CreditTwins(w)
Budget(a) == Begin(a) \/ Wake(a)
Request(a) == ExistsFound(a) \/ ExistsMissing(a) \/ PutLands(a)
              \/ PutSourceChanged(a) \/ PutAnswered(a) \/ RequestFails(a)

Next == \/ Cancel \/ EditSource
        \/ Hasher
        \/ \E w \in Workers : Worker(w)
        \/ \E a \in Actors : Budget(a) \/ Request(a)
        \/ GroupDone
        \/ Returned

Spec == Init /\ [][Next]_vars

\* Every goroutine is scheduled, the disk answers, a backoff ends, and a
\* request whose ctx is done fails.  A peer is under no obligation: a request
\* of a live transfer may stall for ever.
FairSpec == /\ Spec
            /\ WF_vars(Hasher)
            /\ \A w \in Workers : WF_vars(Worker(w))
            /\ \A a \in Actors : WF_vars(Budget(a)) /\ WF_vars(CtxDone /\ Request(a))
            /\ WF_vars(GroupDone)

\* The peer answers or drops every request in the end: what PushReturns
\* assumes beyond FairSpec.
PeerAnswers == \A a \in Actors : WF_vars(Request(a))

-----------------------------------------------------------------------------
(* Properties. *)

\* The artifact is whole: whenever the reference resolves to a manifest this
\* push wrote, every blob it names and the empty config are in the repository,
\* whichever worker, twin or earlier push put them there (push: "The manifest
\* goes last, once every part and the empty config blob exist").
ManifestIsWhole ==
    manifest # None =>
        /\ \A i \in Parts : manifest[i] \in Contents /\ stored[manifest[i]] # None
        /\ stored[EmptyConfig] # None

\* A blob holds what its digest says, although the file may change between
\* the hash pass and the upload and the registry verifies nothing
\* (tagSourceReads withholds the last chunk of a range that changed).
StoredMatchesDigest == \A b \in Blobs : stored[b] \in {b, None}

\* A digest has one uploader: the workers that are between a claim and its
\* settling work on different digests, each of them still pending
\* (claimSet: "uploaded exactly once").
Uploading(w) == act[w].pc \in {"begin", "exists", "put", "landed", "sleep", "settle"}

OneUploaderPerDigest ==
    \A w \in Workers : Uploading(w) =>
        /\ claims[Blob(w)].state = "pending"
        /\ \A v \in Workers \ {w} : Uploading(v) => Blob(v) # Blob(w)

\* Nothing is reported complete that is not in the repository: the parts
\* counted never outnumber the received parts whose blob is there.  And a
\* digest is paid for once however many parts share it: the parts counted as
\* moved never outnumber the digests that have settled.  Nor is one forgotten:
\* success is reported only of a push whose every part and byte was counted
\* and whose manifest the registry took.
CreditIsEarned ==
    /\ \A i \in credited : recorded[i] # None /\ stored[recorded[i]] # None
    /\ snap.parts <= Cardinality({i \in 0 .. taken - 1 : stored[recorded[i]] # None})
    /\ snap.parts - snap.skipped <= Cardinality({c \in Contents : claims[c].state = "done"})
    /\ snap.phase = "done" =>
         manifest # None /\ snap.parts = NumParts /\ snap.bytes = FileSize

\* The ledger balances: as long as no goroutine has failed, every job
\* received is either credited, in the hands of a worker, owed by a worker
\* that settled its digest, or waiting in the claim set for one that will.
Holding(w) == act[w].pc \notin {"idle", "left", "twins"}
InHand == {w \in Workers : Holding(w)}
Owing == UNION {{w} \X (1 .. act[w].owed) : w \in Workers}
Waiting == UNION {{c} \X (1 .. claims[c].waiting) : c \in Contents}

LedgerBalances ==
    ~groupErr => taken = snap.parts + Cardinality(InHand) + Cardinality(Owing)
                                    + Cardinality(Waiting)

\* The account a watcher sees only grows, its phase only advances, and
\* nothing follows the terminal snapshot.
Rank(phase) == CASE phase = "transferring" -> 1 [] phase = "finalizing" -> 2
                 [] OTHER -> 3
AccountOnlyGrows ==
    [][/\ Rank(snap.phase) < Rank(snap'.phase) \/ snap.phase = snap'.phase
       /\ snap.parts <= snap'.parts /\ snap.bytes <= snap'.bytes
       /\ snap.skipped <= snap'.skipped
       /\ Rank(snap.phase) < 3]_snap

\* Cancellation unwinds without a rendezvous: once the caller cancels, or any
\* goroutine fails, Push returns, although the peer may have stalled every
\* other request: nobody waits on a channel that is not closed.
CancellationUnwinds == CtxDone ~> Ended

\* With a peer that answers or drops every request, Push returns: the queue
\* drains and every budget runs out.
PushReturns == PeerAnswers => <>Ended

\* Push's doc comment: "A push that fails or is cancelled therefore leaves no
\* artifact behind, only unreferenced blobs the registry collects."
FailedLeavesNoArtifact == snap.phase = "failed" => manifest = None

\* A push publishes as Publication promises: blobs accumulate, the artifact
\* appears at once over blobs that are there, and "done" is said only of it.
Promise == INSTANCE Publication WITH
    Blobs <- Blobs, Config <- EmptyConfig, Artifacts <- [Parts -> Contents],
    NoArtifact <- None,
    held <- {b \in Blobs : stored[b] # None},
    artifact <- manifest,
    outcome <- IF snap.phase \in {"done", "failed"} THEN snap.phase ELSE "running"

PublishesAtomically == Promise!PubSpec

-----------------------------------------------------------------------------
(* Why a manifest is whole: the inductive invariant behind ManifestIsWhole, *)
(* StoredMatchesDigest and OneUploaderPerDigest.                            *)

\* The hash pass fills recorded in order, ahead of the workers.
PassInv ==
    /\ taken <= hashed
    /\ hasher = "reading" => hashed < NumParts
    /\ \A i \in Parts : i < hashed => recorded[i] \in Contents

\* Who may be where: a worker past idle carries a part it received.
PlaceInv ==
    /\ \A w \in Workers :
         /\ act[w].unit = "part" /\ act[w].pc # "wait"
         /\ act[w].pc \notin {"idle", "left"} => act[w].part < taken
    /\ act[Main].unit \in {"config", "manifest"}
    /\ act[Main].pc \notin {"idle", "settle", "credit", "twins"}

\* A blob is where its uploader or its claim says it is.
PlacedInv ==
    /\ \A w \in Workers : act[w].pc \in {"landed", "settle"} => stored[Blob(w)] # None
    /\ \A c \in Contents : claims[c].state = "done" => stored[c] # None
    /\ act[Main].unit = "config" /\ act[Main].pc = "landed" => stored[EmptyConfig] # None
    /\ act[Main].unit = "manifest" => stored[EmptyConfig] # None

\* Until the group fails, every received part's digest is claimed, and every
\* pending claim has a worker that will settle it.
ClaimInv ==
    ~groupErr =>
        /\ \A i \in Parts : i < taken => claims[recorded[i]].state # "free"
        /\ \A c \in Contents : claims[c].state = "pending" =>
               \E w \in Workers : Uploading(w) /\ Blob(w) = c

\* Until the group fails, a goroutine leaves only when its work is done, and
\* the tail starts only when all have left.
LeavingInv ==
    /\ hasher = "left" /\ ~groupErr => hashed = NumParts
    /\ \A w \in Workers : At(w, "left") /\ ~groupErr => taken = hashed /\ Closed
    /\ act[Main].pc \notin {"wait", "left"} => PoolEnded /\ ~groupErr

\* A goroutine sleeps only with an attempt left.
SleepInv == \A a \in Actors : At(a, "sleep") => act[a].attempt < MaxAttempts

\* What the caller has been told follows Main, which works once everybody has
\* left; the manifest is what the pass recorded, and no second one follows it.
TailInv ==
    /\ act[Main].pc # "wait" => PoolEnded
    /\ snap.phase = "transferring" <=> act[Main].pc = "wait"
    /\ snap.phase \in {"done", "failed"} <=> act[Main].pc = "left"
    /\ manifest # None => manifest = recorded /\ hasher = "left"
    /\ act[Main].unit = "manifest" => act[Main].pc # "exists"
    /\ act[Main].unit = "manifest" /\ act[Main].pc = "landed" => manifest # None
    /\ snap.phase = "done" => manifest # None

\* A manifest is the end of a pool that ended without an error.
EndInv == manifest # None => PoolEnded /\ ~groupErr

\* The account adds up because every received part is in one place: in the
\* hands of a worker, owed by one, waiting for a claim, counted, or lost with
\* the error of a worker that has left.
Own(w) == <<"own", w>>
Owed(w) == <<"owed", w>>
Waits(c) == <<"waits", c>>
Counted == <<"counted">>
Lost == <<"lost">>
Places == {Own(w) : w \in Workers} \cup {Owed(w) : w \in Workers}
            \cup {Waits(c) : c \in Contents} \cup {Counted, Lost}

PartsIn(place, x) == {i \in DOMAIN place : place[i] = x}
LastPart == NumParts - 1
ShortBy == PartSize - PartLength(LastPart)

PlaceOfEach(place) ==
    /\ \A w \in Workers :
         /\ PartsIn(place, Own(w)) = IF Holding(w) THEN {act[w].part} ELSE {}
         /\ Cardinality(PartsIn(place, Owed(w))) = act[w].owed
         /\ \A i \in PartsIn(place, Owed(w)) : recorded[i] = recorded[act[w].part]
    /\ \A c \in Contents :
         /\ Cardinality(PartsIn(place, Waits(c))) = claims[c].waiting
         /\ \A i \in PartsIn(place, Waits(c)) : recorded[i] = c
    /\ Cardinality(PartsIn(place, Counted)) = snap.parts
    /\ \A i \in PartsIn(place, Counted) : claims[recorded[i]].state = "done"
    /\ snap.bytes + (IF LastPart \in PartsIn(place, Counted) THEN ShortBy ELSE 0)
         = snap.parts * PartSize
    /\ credited \subseteq PartsIn(place, Counted)
    /\ ~groupErr => PartsIn(place, Lost) = {}

PlacesInv ==
    /\ \E place \in [0 .. taken - 1 -> Places] : PlaceOfEach(place)
    /\ \A w \in Workers :
         /\ act[w].pc \in {"credit", "twins"} =>
              act[w].part < taken /\ claims[recorded[act[w].part]].state = "done"
         /\ act[w].pc \notin {"credit", "twins"} => act[w].owed = 0
    /\ \A c \in Contents : claims[c].state # "pending" => claims[c].waiting = 0

\* A recorded part has the length of its range, its twins' too.
RangeInv == \A i \in Parts : /\ source[i] \in Ranges(i) \cup {None}
                             /\ i < hashed => recorded[i] \in Ranges(i)

\* Every part counted as moved was paid for by a digest of its own: a worker
\* about to count one has yet to pay.
Paying(w) == act[w].pc = "credit" /\ act[w].uploaded
Paid(digests) ==
    /\ \A c \in digests : claims[c].state = "done"
    /\ Cardinality(digests) + snap.skipped = snap.parts
    /\ \A w \in Workers : Paying(w) => Blob(w) \notin digests
PaidInv ==
    /\ \E digests \in SUBSET Contents : Paid(digests)
    /\ \A w, v \in Workers : w # v /\ Paying(w) /\ Paying(v) => Blob(v) # Blob(w)

PushInv == /\ SleepInv
           /\ TypeOK /\ PassInv /\ PlaceInv /\ PlacedInv /\ ClaimInv /\ LeavingInv
           /\ StoredMatchesDigest /\ OneUploaderPerDigest /\ ManifestIsWhole
=============================================================================
