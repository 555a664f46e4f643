# bigoci in TLA+

bigoci stores one large file as an OCI artifact: it cuts the file into parts,
pushes each part as a blob, and writes a manifest that names them; a pull puts
the file back together. This directory models the parts of the program whose
correctness depends on order: goroutines that share state, requests that are
lost after they took effect, files that change under a push, machines that stop
in the middle of a pull, tokens that expire while others wait for them.

Paths are relative to the repository, `src/` being its root. Module and action
names follow the code; `PROJECT.json` maps every definition to the lines it
stands for.

## 1. Inventory

| Component | State it keeps | Operations | What is hard about it |
|---|---|---|---|
| Push orchestration, `internal/transfer/push.go` | digest of every part, job channel, claim set, errgroup | hash pass, `drain`, `claimSet.take`/`settle`, `blobUploader`, tail (`config`, manifest) | workers meet one digest; the file changes between hashing and sending; the PUT lands and its answer does not; cancellation with workers in requests |
| Pull orchestration, `internal/transfer/pull.go` | resume flag, job channel; per part: bytes done, running hash | `fetchManifest`, `Truncate`, `fetchWorker`, `verify`, `attempt`, `stream`, `Commit` | a leftover that may be right, torn or foreign; a part carried on over broken attempts |
| Destination file, `internal/file/sink*.go` | partial file, destination path | `CreateSink`, `Truncate`, `WriteAt`, `Commit`, `Close`, `Discard` | crashes between write, fsync, rename and directory fsync; two pulls at one path |
| Source file, `internal/file/source.go`, read through `internal/transfer/push.go` | an open file; per attempt a reader and its hash | `ReadAt`, `partBody`, `tagSourceReads` | the file may change, shrink or not read; a transport may go on reading for an attempt that is over |
| Split plan, `internal/plan` | none | `New`, `Parts` | overflow at the largest sizes; the empty file |
| Retry, `internal/retry` | attempt counter | `Do`, `backoff`, `sleep` | overflow of a doubling; a wait the far end asks for; cancellation during a wait |
| Progress account, `internal/transfer/progress.go`, `src/progress.go` | parts credited, snapshot, phase | `complete`, `completeTwins`, `wire`, `retried`, `finish` | many goroutines, one terminal snapshot |
| Authentication state, `internal/oci/authstate.go`, `token.go`, `repository.go`, `credentials.go` | requirement, token entry per scope | `authorize`, `refused`, `answered`, `deny`, `wait`, exchange | stampedes on one refusal; a token replaced while a request carrying it is refused; waiters of a failed exchange |
| Redirects, `internal/oci/redirect.go`, `endpoint.go` | hop count, "away" flag; per trip what its connections met | `follow`, `nextHop`, `redirectTarget`, `externalTransport.RoundTrip`, `gotConn` | where the credential goes, whose word an answer is, loops; where a name leads is known only once a connection is there |
| Registry adapter, `internal/oci/blobs.go`, `blob_transport.go`, `manifests.go`, `classify.go` | none | `Exists`, `Get`, `Put` | statuses and ranges read as verdicts |
| Manifest format, `internal/manifest` | none | `Encode`, `Decode` | what decoding must refuse so that a pull can trust it |
| Credential store, `internal/auth` | none | look-up in Docker's configuration | reading files, an external helper |
| Client, `src/client.go`, `options.go`, `errors.go`, `file.go` | options | `Push`, `Pull` | the clean-up of a failed pull |
| Command line, `src/cli` | signal recorded, disposition, deadline; latest snapshot, renderer | `Run`, `watchSignals`, `withDeadline`, `record`, `render`, `stop`, `reportError` | a second signal while the first is handled; a tick beside the last line; a standard error nobody reads |
| Benchmarks, `src/bench` | | | a measuring tool |

How they interact. `Client.Push` and `Client.Pull` build a repository and a
source or sink and call the orchestration. A push runs one hash goroutine and a
pool of workers under an errgroup; the hash goroutine feeds the workers through
a channel with room for every part. Each worker asks `Blobs.Exists`, then
`Blobs.Put`, inside `retry.Do`. When all have left, the calling goroutine
writes the empty config blob and the manifest. A pull runs a pool of workers
that verify or fetch parts into the partial file, then commits. Every request
passes through the repository: it takes a token from the authentication state
that all requests share, follows redirects, and reports what the answer says of
the token. Progress is reported from all of these goroutines into one reporter,
whose callback, in the command, stores the snapshot for a goroutine that renders
it. The command runs the transfer under a context that a deadline or the signal
handler ends.

What makes each correct is stated at each module below, and the hazards the
properties are for are in `PROJECT.json` under `hazards`.

## 2. Modules

```
Plan ------> Push ------> PushProofs      Publication  (abstract; Push implements it)
     \-----> PlanProofs                   Destination  (abstract; Pull implements it)
     \-----> Manifest --> ManifestProofs
                                          Pull ------> Command
Backoff ---> Attempts ---> Fetch --> Part    \--> PullProofs --> CommandProofs
Reporter -/           \--> Send ---/   |
                                       \--> PartProofs
AuthState --> AuthProofs                  Redirect --> RedirectProofs
```

`MC*` modules and the `.cfg` files instantiate these for TLC.

**Plan** — the split rule as pure operators on w-bit integers (`countParts`,
`Parts`, `New`, the part size an error suggests).

**Manifest** — the manifest from the push that writes it to the pull that reads
it, for every file and part size of a small integer type. `Yield` is one turn of
the iterator over the parts, `Write` is `Encode` and the PUT, `Replace` is
whoever else writes at the reference (the same document with any one member
altered, a layer exchanged, missing or added), `Read` is the GET by tag or by
the digest the push returned, `checkBound`, and `Decode`. `validate` and
`validateDecoded` are the two copies of the format's rules, kept apart as in the
code.

**Push** — one push. `hasher`/`hashed`/`recorded` are the hash pass, `taken`
the receiving end of the channel, `claims` the claim set, `act` what each
goroutine is doing and in which attempt, `groupErr` the errgroup's context,
`stored`/`manifest` the repository, `credited`/`snap` the reporter. `Take` is
`drain`'s receive with `claimSet.take`; `Begin`, `Wake`, `Exists*`, `Put*` and
`RequestFails` are one unit of work inside `retry.Do`, shared by parts, config
and manifest; `Settle`, `Credit` and `CreditTwins` follow a part; `GroupDone` is
`group.Wait`. `EditSource` lets the file change at any moment, `PutLands`
separates a PUT's effect from its answer, and the registry is not trusted to
verify digests: what keeps wrong bytes out is `BodyVerified`, the last chunk
withheld by `tagSourceReads`.

**Publication** — what a push promises a reader of the repository: blobs
accumulate, the artifact appears in one step and only over blobs that are
there, success is said only of it.

**Pull** — pulls into a destination, and the file system beneath. `data` is
what files hold, `safe` what of it has reached the disk, `dir` the directory and
`onDisk` the directories a crash may leave. `Open`, `Resolve`, `SizeFile` are
`CreateSink`, the manifest and `Truncate`; `Take`, `Verify`, `WriteSome`,
`PartLands`, `PartFails` the pool; `Sync`, `Rename`, `SyncDir`, `CommitFails`
are `Commit`; `Cleanup` is `discardEmptyPartial`. `Kill` stops the process
(what it wrote survives in the kernel), `Crash` stops the machine (unsynced
ranges become old, new or torn; an unsynced directory entry may be undone).

**Destination** — what a pull promises whoever reads the destination path.

**Command** — the process of `bigoci pull`, around the steps of `Pull`. `main`
is where `run` and `main` are, from the flags to `os.Exit`; `handler` walks
through `Order`, what the goroutine of `watchSignals` does on a signal;
`Press` is a signal, which lands in the channel or, once the disposition is
restored, kills; `Expire` is the deadline and `Inherit` hands the end of the
context down to the pull. `Tick`, `WriteLine` and `Leave` are the renderer and
`Join` the wait for it. With `debug`, `tap` says how far the wire tap of
`debug.go` is with the request of each goroutine: `Ask` and `RequestEnds` bring
it to a line it has to write before the request goes out and before its result
is handed on, `TapWrites` is that line written. A goroutine that waits for the
tap's lock or for the guarded stream behind another's line is one whose own line
is still to be written. Every write to standard error, from the preflight line
(`StartTransfer`) to the summary and the last reason, is a step that may never
be taken.

**Attempts** — what a part does in either direction: enter an attempt, fail it,
wait, be cancelled, be credited, and tell the reporter of each; at the end of
the transfer, `Finalize` and `Finish`.

**Fetch** — one part of a pull, byte by byte: the registry's answer at the asked
offset or at zero, the running hash, the disk, the recorded count, a stream that
breaks anywhere (also together with its last chunk), is short or long; before
the attempts, when the pull resumes, `Verify*` read what is on disk and credit
the part or hand it over. `Pull` takes from Fetch that a part lands only when
its digest agrees.

**Send** — one part of a push, byte by byte: `Exists*` asks for the blob,
`SendChunk` is a read of the file by the transport, with the hash beside it and
the last chunk withheld until it agrees, `SourceFails` and `SourceError` a file
that does not read or has changed, `PutAnswers` and `PutFails` the end of the
request. A reader that outlives its attempt is in `late`: it still counts bytes
(`LateChunk`) and may still deliver (`LateLands`). `OtherPush` is another client
that stores the same blob. `Push` takes from Send that what lands under a digest
has it.

**Part** — one part of a watched transfer: Fetch or Send, whichever way it goes,
up to the terminal snapshot and after.

**Reporter** — the account a callback watches, as operators on one record: the
snapshot, what was last delivered of it, the movement held back until a step is
full (`coalesce`), credits that count once, and the terminal snapshot after
which recordings are dropped.

**Backoff** — the waits of `internal/retry`, used by Attempts: the guarded doubling
on w-bit integers, jitter, and the floor a registry may ask for, read from its
Retry-After as a count of seconds or as a date.

**AuthState** — the tokens of one repository and the requests that share them.
Entries live on a heap, since requests keep pointers to entries that have been
replaced. A step is one lock section with the send that follows. A request is a
read (follows redirects), a write (body replayable) or an upload (body sent
once). The token endpoint and the registry answer anything at any time; `Expire`
is the clock. `Answers`, `Refusable` and `Breakable` are `acquire`: which headers
a credential can answer a Bearer or Basic challenge with, and when the exchange
ends in a refusal (the scope is condemned) or in a failure (it is not). The
credential is looked up for every exchange, since a helper is asked afresh; an
exchange answers the challenge it began with although another may arrive.
`Entry.refused` is a history variable.

**Redirect** — one request from its send to its verdict: `Answer` is `sendWith`,
`accepted` and what the caller makes of a status (a write is a manifest's PUT,
which only a 201 satisfies); `Follow` is one turn of
`follow` with `nextHop`. Below a hop to another host than the registry's is
`externalTransport`: `GuardRefuses` is what it refuses before anything is sent,
`Connect` the look `gotConn` takes at a connection, dialled or from the pool, and
`Broken` the verdict on a trip that met one it closed. Token exchanges and
off-origin uploads go through the same transport. `AuthState` abstracts a
chain into "answered", "refused in the end" or "over"; Redirect justifies this:
a refusal comes out of a chain only from the registry's own origin and only of a
request that carried what was presented (`VerdictIsTheRegistrys`).

Definitions whose comment begins with "Mistake" are plausible slips in the code
they stand beside. No specification uses them: each takes the place of the
definition it varies to show that the property named in `PROJECT.json` notices.

## 3. What the runs check

States are distinct states, times those of two TLC workers.

| Run | Question | Result |
|---|---|---|
| `push_safety` | Three-part file with possible twins, short last part, two workers, two attempts per unit, one change of the file, any blobs already there | artifact whole, content matches digest, one uploader per digest, account exact |
| `push_live` | The same with two parts of full length: cancellation, return, and refinement of Publication | all hold |
| `push_failed_artifact` | "A push that fails … leaves no artifact behind" | violated, see section 7 |
| `auth_safety` | Two requests, reads or writes, any credential and challenge, two tokens that expire | one exchange per scope, each with a reason, denial justified and absorbing |
| `auth_live` | Two writes or uploads: how often they are sent, and that they end, those that wait for another's exchange included | at most twice, an upload's body once; all end |
| `auth_redirect` | "the auth state bounds the loop" for reads | violated, see section 7 |
| `manifest` | Every file and part size of a 6-bit integer, up to four parts; the document written, or one altered in any one member, read by tag or digest | parts tile the file, the advice works, what is written reads back, what is accepted makes up its file and could have been written |
| `redirect` | Every chain among registry, another port of its host, storage host | credential stays home, verdicts are the registry's, only public addresses are written to, every chain ends |
| `pull_safety` | A two-part and an empty file, two workers, pulls repeated at will, kills, failures, two crashes anywhere | destination whole, placed parts in place, a resume loses nothing, Destination refined |
| `pull_shared` | Two pulls to one destination | `DestinationIsWhole` violated, see section 7 |
| `part` | A three-byte part, pulled (verified first or not) or pushed, over four attempts, any breaks, any changes of the file, one late reader at a time | a placed part is right, hash, disk and count agree, waits escalate within bounds, the account is honest, never a step behind, only grows and is closed for good, part and account end |
| `command` | `bigoci pull` as a process: signals, deadline, a registry that stalls, a standard error nobody reads, with and without `-debug` | the exit code says why, the last progress line is the terminal one, a second signal always gets through, a stopped pull returns unless `-debug` writes to a standard error nobody reads, the command ends |

The less obvious properties:

* `LedgerBalances` (Push): while no goroutine has failed, jobs received = parts
  credited + jobs in workers' hands + credits owed by settling workers + parts
  waiting in the claim set. It is the reason no twin is lost or counted twice.
  A credit that is owed or waits is a pair of its owner and a number, so that
  the four can be counted as sets.
* `CreditIsEarned` (Push), `SeenIsCurrent`, `AccountIsHonest`, `AccountOnlyGrows`
  (Part; the last in Push as well): what a progress callback may conclude at any
  moment. A twin counts as skipped, a part that crossed the wire in any attempt
  does not; a milestone is never shown without the bytes before it, a watcher is
  never a step behind, and a transport that is still reading when the push is
  over adds nothing to the terminal snapshot. `CreditIsEarned` includes that a
  push that succeeded shows every part.
* `ExchangeIsJustified` (AuthState): a token is replaced only because it
  expired or because the request that starts the exchange carried exactly it
  when it was refused; this excludes the stampede in which each of several
  refused requests throws away the token the previous one fetched.
* `ResumeLosesNothing` (Pull): a part an earlier run had in place survives any
  failure, cancellation or kill of a pull that resumes.
* `DestinationKept` (Pull refines Destination): every step, crashes included, is
  one the abstract destination allows; a file that was reported survives.
* `AgreeToTheByte` (Part): whenever a later attempt of a pull may carry on, the
  hash was fed exactly the bytes that are on disk before the recorded position,
  and a range is asked for only where the part has bytes left; an attempt of a
  push fails for a changed file only if the file has changed, however many
  attempts and late readers read it before.
* `StatusTellsWhy`, `LastLineIsTheEnd` (Command): the handler and `run` share a
  recorded signal, the renderer and `stop` a snapshot and a stream. A pull the
  handler stopped exits with that signal's code wherever the two goroutines were
  when it did; whatever tick was being served when the pull ended, the line left
  on the terminal is the terminal snapshot's.
* `Interruptible`, `StoppedPullsReturn` (Command): pressing again ends the
  process although the registry stalls and every write blocks, which needs the
  disposition reset before anything else; a context that is done, or a part that
  failed, brings the pull back although requests stay unanswered and the renderer
  is stuck in a write, which needs the callback not to share its lock with that
  write. The latter is so without `-debug`; with it, only if standard error is
  read, since the tap writes in the goroutines of the transfer (section 7).
* `ReadsBack`, `AcceptedIsRewritable` (Manifest): the two copies of the format's
  rules agree. What a push writes, a pull accepts and gets back as it was, by
  digest whatever the registry holds; what a pull accepts, the encoder would
  write, and reading that gives the same.

### Bounds

* Push: two workers are needed for every race on a claim; three parts give a
  twin pair and a short last part of its own; two attempts give a failure that
  is repeated and one that is final; one edit of the file can fall before,
  between or after the two reads of a range. The workers and the two full-length
  contents are interchangeable, so the safety run uses their symmetry; the
  temporal run uses none.
* Pull: two parts give a worker that fails beside one that writes; two crashes
  give a crash of a pull that resumes what a crash left; three inodes hold the
  destination, a partial and one more that is unlinked while open. The model
  keeps leftovers of every earlier run, so pulls are not bounded in number.
* AuthState: two requests make a pair of racers; four heap slots leave one for
  each scope's entry and for each entry a request may still point to, so the
  heap is never exhausted; two bearer tokens tell a fresh one from a stale one,
  and a Basic header is one that never expires and is the same when acquired
  again. A token presented verbatim behaves like the latter and is in the
  liveness run only. Reads and writes include everything an upload does but its
  early end, so the safety run has those two and the liveness run writes and
  uploads.
* Part: three bytes over a two-letter alphabet, so that a misplaced byte may
  differ from the right one, with a first, a middle and a last chunk; four
  attempts are the default; reported offsets run one past the part. One late
  reader at a time meets every state of the attempts after it. Waits are of a
  4-bit type in which an unguarded doubling overflows within three attempts, and
  three seconds are one more than it holds. A step of two bytes of progress is
  less than the part and no divisor of it, so movement is both held back and
  delivered.
* Command: one pull, since a process has one, with two workers and the two-part
  file; the empty file has no second worker to race with and is the safety run's.
  `OneOfTwo` starts it over either a file at the destination and no leftover, or
  a leftover with a torn first part and no file, so that a resume and a fresh
  start are both there; the states of a leftover and the crashes are the safety
  run's as well. Signals are any number of SIGINT and SIGTERM. In the tap one
  request stands for all that a part or the manifest takes, and a part's body is
  read after it: two lines are as many as it takes to block a goroutine on either
  side of a request.
* Redirect: three hops are the code's own limit, so nothing is cut off. Ports
  are the scheme's (spelled out or not) and another. One idle connection gives a
  trip that meets one and then dials.
* Manifest: the whole range of the type, negative sizes included; numbers in a
  foreign document are off by one, negative, the largest, beyond the largest,
  or no number. A foreign document differs in one member from the one written;
  two alterations at once are left out, so a second one that hides the first is
  not seen.

### Fairness

`FairSpec` asks only what the runtime and the operating system give: every
goroutine that can run is scheduled, the disk answers, a backoff timer fires,
and a request whose context is done fails (net/http's contract). It does *not*
oblige a registry to answer. Under it, cancellation unwinds
(`CancellationUnwinds`, `StoppedPullsReturn`): the properties say nobody waits
for a channel or a lock that will not come. That a transfer returns at all
additionally needs a registry that answers or drops each request; this
assumption is a premise of the property (`PeerAnswers => …`), not of the
specification. Nothing obliges the caller to cancel, a file to change, a token
to expire or a machine to crash. In AuthState, Redirect and Part the exchange
and the registry are assumed to answer or break, because a request has the
client's timeouts and its context; nobody is obliged to start another request,
and in Part no late reader to end.

In Command nothing obliges a write to standard error to return; that somebody
reads it, so that the renderer's lines, the tap's and those of `run` get written,
is the premise `StderrDrains`, and that somebody goes on pressing the premise of
`Interruptible`. What the goroutines do otherwise is one fairness condition,
`Local`: the caller, the handler, the workers and a request whose context is done
take finitely many of these steps between them, so none can be passed over for
ever while others go on. A request whose context is not done ends only under
`PeerAnswers`. `Leave` has strong fairness, since ticks interrupt
its being enabled: Go's `select` chooses at random among the channels that are
ready, so it does not overlook a closed one for ever.

## 4. What is proved

Proofs are checked by TLAPS for every value of the constants that the named
assumptions of the modules admit: any number of workers, parts, contents,
attempts and edits; any integer width and limit on parts; any artifacts, inodes
and crashes; any requests, scopes and tokens; any registry, hosts, ports and
statuses. Every safety property the passing runs check, invariant, action
property and refinement alike, is a theorem; each rests on an inductive
invariant, which stands at the end of the component's module under "Why".
TLC checked each of them on the instances of the runs before it was proved, but
for `ManifestInv`, which quantifies over all numbers.

### The split and the manifest: `PlanProofs`, `ManifestProofs`

`PartsTileTheFile` and `PlanHasUsableParts` follow from lemmas on division with
remainder; in particular no intermediate value of `countParts` leaves the
integer type. `AdviceIsSound` turns on one equivalence: a split stays within m
parts exactly when m of them hold the file (`FitsIn`), whatever is rounded on
the way. `WhatIsWrittenReadsBack` and `RulesAgree`: decoding inverts encoding on
everything `validate` accepts, and `validateDecoded` implies `validate`;
`ManifestInv` carries that what was written is the encoding of the artifact the
push found, and that a verdict was made of some document held at the reference,
through the steps in between. `AcceptedMakesUpTheFile` adds the sizes of an
accepted artifact up: each part ends where the plan has the next one begin, by
counting up from the first (`PlannedEnds`).

### A push: `PushProofs`

`ManifestsAreWhole`, `BlobsMatchTheirDigests` and `DigestsHaveOneUploader` rest
on `PushInv`. The manifest is written by the calling goroutine, which looks at
nothing but the errgroup; so that its step preserves `ManifestIsWhole`, one must
know that "all goroutines left without an error" implies "every recorded digest
is stored". The chain is: an error-free hash pass left only when everything was
recorded (`LeavingInv`, `PassInv`); an error-free worker left only when all jobs
were taken; a taken job's digest is claimed, and a pending claim has a worker
that is still uploading it (`ClaimInv`) — but all workers have left, so every
claim is settled, and a settled claim is stored (`PlacedInv`). The config blob is
stored before the manifest unit begins.

`AccountGrows` and `PublicationHolds` (Push implements Publication, step by
step) add `TailInv`: what the caller has been told follows the calling goroutine,
which works only once the pool has ended, so no credit meets the change of phase
and no second manifest follows the first.

`LedgerHolds` and `CreditEarned` are sums over goroutines, and no sum over a set
is an invariant that a prover can push through a step. What is inductive is a
placement: `PlacesInv` says that every received part can be put in exactly one
place (in the hands of a worker, owed by one, waiting for a claim, counted, or
lost with a worker that failed) so that each counter of the code is the number of
parts in its place. Each action of the push moves parts between two places
(`PlacesTake`, `PlacesSettle`, `PlacesCredit`, `PlacesTwins`, `PlacesLost`), and
parts of one digest stay together, which is what entitles the worker that settles
a digest to count the twins that waited for it. With `RangeInv`, twins have the
same length, so the bytes agree with the parts up to the short last one; with
`PaidInv`, whose witness is the set of digests already paid for, parts counted as
moved are no more than the digests settled. `EndInv` says that a manifest is the
end of a pool without an error, in which every place but "counted" is empty:
hence every part and byte of a push that succeeded. The counting itself is in
`Tagged`, `OneEach` and `FourWays`.

### The tokens: `AuthProofs`

`OneExchange`, `DenialNames`, `TwoSends`, `Justified`, `Absorbs` and
`TypeCorrect` rest on `AuthInv`. Whoever mints holds the entry of its scope,
alone, and that entry is not ready; an entry in flight has a minter, and so has
one that is waited for and not ready, even if the scope has moved on to another
(`MintInv`). Two scopes never share an entry (`EntryInv`), which is why a refusal
for one cannot condemn the other. What a slot's state says of its header and its
history is `SlotInv`; that a request has been sent as often as its stage says is
`SendInv`.

### Pulls: `PullProofs`, `CommandProofs`

`Whole`, `InPlace`, `LosesNothing`, `Implements` (Pull implements Destination,
kills and crashes included) and `TypeCorrect` rest on `PullInv`, for any
artifacts, number of parts and workers, and any crashes. What is renamed is
whole and synced (`HandleInv`), because a pool ends without an error only when
every part is placed, and a part that is fetched over a leftover was not in it
(`WorkInv`); whatever directory a crash may leave, the file at the destination is
whole, on the disk, and nobody's partial (`DirInv`).

These five assume `Alone`, one pull at a time into the destination, in any
number one after the other. It is a hypothesis of the theorems and not of the
module, because it is false of the program: `pull_shared` shows what two at once
do (section 7).

Command assumes one pull because a process of this kind has one. `CommandInv`
adds to `PullInv` where the goroutines of the process can be relative to each
other: a signal that stops the pull was noted first, so whoever decides on the
exit code finds it (`SignalInv`, `StatusIsTrue`); the code is made once of a
result that does not change (`ResultInv`); the snapshot follows the pull, and a
renderer that has left writes nothing (`LineInv`, `LastLineStays`); the tap is
busy only with requests that are under way (`TapInv`), so what it does leaves the
rest alone.
Every step of the process is one of `Pull`'s or leaves its files and pulls alone
(`CommandPulls`), so `CommandIsWhole`, `CommandImplements` and
`CommandLosesNothing` carry what is proved of a pull over to it: a second signal
that kills, a deadline or a stuck standard error takes nothing away.

### One part, byte by byte: `PartProofs`

`Placed`, `Agrees`, `Honest`, `Current`, `OnlyGrows`, for parts of any length
(the empty one included), any bytes and any number of attempts, late readers and
changes, rest on `PartInv`: `FetchInv` and `SendInv` say what hash, disk and
position, or hash and reader, have to do with each other in each direction,
`CreditInv` and `RetryInv` what the account has to do with the part, and
`Watched` what a watcher has seen of the account. `Escalates` rests on `PauseInv`
and on what the recursive `Ceiling` computes.

### Redirects: `RedirectProofs`

`CredentialsStayHome`, `VerdictsAreTheRegistrys`, `OnlySeenPeersAnswer` and
`RedirectTypeCorrect`. `RedirectInv` adds that a chain that is not away is on the
registry's origin and still carries what it began with, and that one that is
away gets no verdict of the registry's. The steps use that having one origin is
an equivalence: the credential is compared with the neighbour in the chain and
not with the registry, and the flag sticks. For the connections it adds that a
closed one is on record and that a trip over has none of them.

### Induction, assumptions, and what is left to TLC

The library's induction theorems take an operator as a parameter, which no
installed back end instantiates. Where a recursive function is proved about
(`Ceiling`, `Ends`) the induction is the lemma `Counting` instead: a set of
numbers that has 0 and the successor of each member has all, by its least
counterexample (`WFMin`). No module declares RECURSIVE operators, which would
disable the SMT back end.

The assumptions on constants say that model values are not data (`None` is no
token, no challenge, no inode, no artifact and no table of digests), that sets
the code holds in memory are finite (workers, and the contents that occur), that
integers are of the type's range, that some artifact is the longest, and that an
inode or two exist to open a file. TLC evaluates them on every run.

Only model-checked: the liveness properties (`CancellationUnwinds`,
`PushReturns`, `RequestsEnd`, `ChainsEnd`, `PartEnds`, `Interruptible`,
`StoppedPullsReturn`, `CommandEnds`), which need fairness and `ENABLED`, and that
no run deadlocks where the configuration asks for it.

## 5. What is abstracted, and what is not modelled

* A part's content stands for its digest: collisions do not exist.
* Contents of messages, headers, error texts, logging, media types are left out,
  as is the redaction of secrets from them.
* A push is alone in its repository but for blobs that are there beforehand;
  nothing deletes blobs while it runs (a registry's collector could).
* In Push the account is parts, twins, bytes, skipped and the phase; bytes on the
  wire, hashed bytes, retries and coalescing are in Reporter, which Part drives
  with one part.
* In Send a chunk is a byte. A file that fails under a reader ends the attempt in
  one of two ways, as in the code, where a registry's early answer may come
  before the error is seen. A late reader may do everything the transport's
  contract allows; `Put`'s comment in `blobs.go` promises that the wire is at rest
  when it returns, and the properties do not need that.
* Command leaves out flag parsing, the sizes, and the text of what is printed and
  of the debug log with its redaction; of the log it has the writes. Of a push it
  has nothing: the process is the same, with another transfer inside.
* `TypeOK` is proved for Push, Redirect, AuthState and Pull (it bounds the
  attempts of a unit and the hops of a chain); the type invariants of Part and
  Command are parts of `PartInv` and `CommandInv`. None is part of a run.
* AuthState has one grant per scope and leaves out the grants a challenge adds,
  the version probe and the grammar of challenges; `Expire` stands for the clock.
* Manifest has no JSON text: a document is the members `Decode` reads, or
  garbage, or too large. A foreign document with more layers than a manifest may
  have is refused while it is parsed, before its kind is known, so it is reported
  as having too many parts and not as no bigoci artifact.
* Pull leaves out the ownership and mode checks of an existing partial and the
  platforms without a directory fsync, where the crash guarantee is weaker.
* The upload session protocol lives in an upstream client; it is modelled as one
  PUT that lands or does not.
* The credential store and the benchmarks: see the notes of the
  components in `PROJECT.json`.

## 6. Plan

In order of importance:

1. `Push` and `Pull` record through `Reporter`, with several parts in one
   account.
2. `Endpoint`: the checks of a token realm before it is dialled; so far
   `Refusable` allows their refusals and nothing is said of when they must come.
3. `Upload`: the session protocol (POST, PUT) with authentication as one
   request, composing AuthState's upload and Redirect's refusals.

## 7. Where documents and code disagree

* `push_failed_artifact`: the manifest PUT takes effect, its answer is lost (or
  the caller cancels while it is awaited), the push fails and the artifact is
  there. The comment of `Push` and `errors.md` say a failed push leaves none.
* `auth_redirect`: a read is redirected inside the registry and refused at the
  end of the chain. The redirect itself has marked the token as working, so the
  refusal starts another exchange; the fresh token is proven by the next
  redirect and refused again. The scope never becomes denied and the request
  never ends, as long as the registry keeps answering this way.
* `pull_shared`: two pulls to one destination share its partial file, so one can
  rename what the other is still writing. `Sink` says the destination is absent
  or complete, and the client's comment allows concurrent pulls.
* Not a run of its own: when the directory fsync after the rename fails,
  `Commit` reports a failure although the destination has been replaced
  (`CommitFails` after `Rename` in Pull; `DestinationKept` allows it, since
  nothing was reported). The comment of `Pull` says a failed pull leaves the
  destination as it was.
* Not runs of their own, in the account: `progress.go` counts under
  `SkippedParts` the parts satisfied "without this transfer moving their own
  bytes". `upload` notes that it uploads before the PUT begins, so when the PUT
  dies before its first byte and another client stores the blob meanwhile, the
  next attempt finds it and the part counts as not skipped with no byte on the
  wire. `AccountIsHonest` states the direction that holds.
* Not a run of its own: with `-debug`, the tap writes two lines inside every
  `RoundTrip` (`debug.go:196-215` and `300-305`), in the goroutine whose request
  it is, to the stream the renderer writes to, and asks no context. If nobody
  reads standard error, that goroutine never gets to its request, or never back
  from it, and every other one that makes a request waits behind it for the tap's
  lock; neither a signal nor `-timeout` nor another part's failure then makes
  `pull -debug` return. In Command `tap` stays at "asking": without the conjunct
  `~debug`, TLC refutes the first half of `StoppedPullsReturn` with that. The
  comment of `watcher` says "nothing this CLI does can slow a transfer down", and
  that of `fetchParts` "a failed or cancelled pull cannot leave a worker behind".
  A second signal still kills (`Interruptible`).
* In the exit code: `reportError` says a recorded signal means the run stopped
  because it was told to. A pull that failed on its own and is signalled while
  its result is being written exits 130 or 143 all the same; `StatusTellsWhy` is
  about pulls the handler did stop.
* `Repository.checkSession` (`redirect.go`) "refuses an upload-session URL this
  package will not write to" and is called by a test only. Where an upload goes
  is the upstream client's decision, and the guard below it looks at the address.
