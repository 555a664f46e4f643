-------------------------------- MODULE Pull --------------------------------
(***************************************************************************)
(* Pulls of internal/transfer into a Sink of internal/file, and the file   *)
(* system beneath them: a pull opens the partial file next to the          *)
(* destination, sizes it for the artifact it resolved, verifies what an    *)
(* earlier run left there, fetches the rest with a pool of workers, and    *)
(* commits by fsync, rename and directory fsync.                           *)
(*                                                                         *)
(* A file is the sequence of what its part-sized ranges hold; a part is    *)
(* its place in it.  Which bytes a fetch moves, and in how many attempts,  *)
(* is Fetch's business: here a range is torn until its digest agrees.      *)
(***************************************************************************)
EXTENDS Naturals, Sequences, FiniteSets

CONSTANTS Pulls,       \* the pulls under way at one time
          Contents,    \* what a part may hold
          Artifacts,   \* the files the registry serves, as sequences of contents
          Inodes,      \* the files of the file system
          Workers,     \* how many parts a pull moves at once
          MaxCrashes,  \* bound: how often the machine crashes
          Zero,        \* a range nobody wrote
          Torn,        \* a range that holds neither zeros nor a content
          None

Bytes == Contents \cup {Zero, Torn}
MaxLen == CHOOSE n \in {Len(a) : a \in Artifacts} : \A a \in Artifacts : Len(a) <= n
Slots == 1 .. (IF MaxLen = 0 THEN 1 ELSE MaxLen)
FilesUpTo == UNION {[1 .. n -> Bytes] : n \in 0 .. MaxLen}

ASSUME PullAssumption ==
    /\ Artifacts \subseteq Seq(Contents)
    /\ \E b \in Artifacts : \A a \in Artifacts : Len(a) <= Len(b)
    /\ Zero \notin Contents /\ Torn \notin Contents /\ Zero # Torn
    /\ None \notin Inodes /\ None \notin Artifacts
    /\ Inodes \subseteq Nat
    /\ Workers \in Nat \ {0}
    /\ MaxCrashes \in Nat

VARIABLES data,     \* what each inode holds
          safe,     \* what of it is on the disk for certain
          dir,      \* the directory
          onDisk,   \* what of the directory a crash may leave
          crashes,  \* how often the machine has crashed
          pull      \* the pulls

fileVars == <<data, safe>>
vars == <<data, safe, dir, onDisk, crashes, pull>>

Directory == [dest : Inodes \cup {None}, partial : Inodes \cup {None}]

Job == {"queued", "verify", "fetch", "placed"}

Process == [pc : {"idle", "resolve", "size", "fetching", "sync", "rename",
                  "dirsync", "cleanup"},
            inode : Inodes \cup {None},
            art : Artifacts \cup {None},
            resume : BOOLEAN,
            work : [Slots -> Job],
            err : BOOLEAN,
            cancelled : BOOLEAN,
            result : {"none", "done", "failed"}]

\* The type invariant; an open handle is on a file.
TypeOK == /\ data \in [Inodes -> FilesUpTo] /\ safe \in [Inodes -> FilesUpTo]
          /\ dir \in Directory /\ dir \in onDisk /\ onDisk \subseteq Directory
          /\ crashes \in 0 .. MaxCrashes
          /\ pull \in [Pulls -> Process]
          /\ \A p \in Pulls : pull[p].pc \notin {"idle", "rename", "dirsync"}
                                  => pull[p].inode # None

-----------------------------------------------------------------------------
(* Files. *)

\* partSize and fileSize apart, an artifact has a part even when it is empty.
PartsOf(a) == IF a = <<>> THEN {1} ELSE 1 .. Len(a)

\* Whether range s of file f holds what artifact a has there.
Matches(f, a, s) == s > Len(a) \/ (s <= Len(f) /\ f[s] = a[s])

\* ftruncate: cut, or extended by a hole that reads as zeros.
Resized(f, n) == [s \in 1 .. n |-> IF s <= Len(f) THEN f[s] ELSE Zero]

\* pwrite: a write past the end extends the file.
Written(f, s, c) == [Resized(f, IF s <= Len(f) THEN Len(f) ELSE s) EXCEPT ![s] = c]

\* What a crash may leave of inode i: what fsync wrote, what was written since,
\* or some of each.
Remains(i) ==
    LET Left(f, s) == IF s <= Len(f) THEN f[s] ELSE Zero
        May(s) == LET was == Left(safe[i], s)  is == Left(data[i], s)
                  IN  IF was = is THEN {is} ELSE {was, is, Torn}
    IN  IF safe[i] = data[i] THEN {data[i]}
        ELSE UNION {{f \in [1 .. n -> Bytes] : \A s \in 1 .. n : f[s] \in May(s)} :
                       n \in {Len(safe[i]), Len(data[i])}}

Reachable(i) == \/ \E d \in onDisk : i \in {d.dest, d.partial}
                \/ \E p \in Pulls : pull[p].inode = i
Unused == {i \in Inodes : ~Reachable(i)}

\* Files become these; what nothing names or holds open is free again.
FilesBecome(d, s) == /\ data' = [i \in Inodes |-> IF Reachable(i)' THEN d[i] ELSE <<>>]
                     /\ safe' = [i \in Inodes |-> IF Reachable(i)' THEN s[i] ELSE <<>>]

\* The directory changes, which a crash may undo until it is synced.
DirBecomes(d) == dir' = d /\ onDisk' = onDisk \cup {d}

\* What the destination path holds.
Visible == IF dir.dest = None THEN None ELSE data[dir.dest]

Idle == [pc |-> "idle", inode |-> None, art |-> None, resume |-> FALSE,
         work |-> [s \in Slots |-> "placed"], err |-> FALSE, cancelled |-> FALSE,
         result |-> "none"]

\* The destination is absent or an earlier pull's; there is no partial yet.
Init == /\ \E i \in Inodes : \E f \in Artifacts \cup {None} :
             /\ \A j \in Inodes : i <= j
             /\ data = [j \in Inodes |-> IF j = i /\ f # None THEN f ELSE <<>>]
             /\ dir = [dest |-> IF f = None THEN None ELSE i, partial |-> None]
        /\ safe = data
        /\ onDisk = {dir}
        /\ crashes = 0
        /\ pull = [p \in Pulls |-> Idle]

-----------------------------------------------------------------------------
(* A pull, up to its pool. *)

At(p, pc) == pull[p].pc = pc
CtxDone(p) == pull[p].cancelled \/ pull[p].err
Goto(p, pc) == pull' = [pull EXCEPT ![p].pc = pc]

\* The pull returns, its handle closed.
Return(p, result) ==
    pull' = [pull EXCEPT ![p] = [Idle EXCEPT !.result = result]]

\* CreateSink: the partial file is made, or opened as it stands.
Open(p) ==
    /\ At(p, "idle")
    /\ \E i \in Inodes :
         /\ IF dir.partial # None
            THEN i = dir.partial /\ UNCHANGED <<dir, onDisk>>
            ELSE /\ i \in Unused /\ \A j \in Unused : i <= j
                 /\ DirBecomes([dir EXCEPT !.partial = i])
         /\ pull' = [pull EXCEPT ![p] = [Idle EXCEPT !.pc = "resolve", !.inode = i]]
    /\ UNCHANGED <<fileVars, crashes>>

\* resumable: a leftover exactly as long as the artifact, and not empty.
Resumable(f, a) == Len(f) = Len(a) /\ Len(f) > 0

\* fetchManifest, Decode, and Size before the truncate destroys the evidence.
Resolve(p) ==
    /\ At(p, "resolve")
    /\ \E a \in Artifacts :
         pull' = [pull EXCEPT ![p].pc = "size", ![p].art = a,
                              ![p].resume = Resumable(data[pull[p].inode], a)]
    /\ UNCHANGED <<fileVars, dir, onDisk, crashes>>

\* Truncate to the artifact's size; then every part is a job.
SizeFile(p) ==
    /\ At(p, "size")
    /\ LET i == pull[p].inode
           a == pull[p].art
       IN  /\ data' = [data EXCEPT ![i] = Resized(@, Len(a))]
           /\ pull' = [pull EXCEPT ![p].pc = "fetching",
                          ![p].work = [s \in Slots |-> IF s \in PartsOf(a) THEN "queued"
                                                       ELSE "placed"]]
    /\ UNCHANGED <<safe, dir, onDisk, crashes>>

\* The reference resolves to nothing usable, the sink cannot be sized or
\* synced, or the caller's ctx is over.
PullFails(p) ==
    /\ pull[p].pc \in {"resolve", "size", "sync"}
    /\ Goto(p, "cleanup")
    /\ UNCHANGED <<fileVars, dir, onDisk, crashes>>

\* The caller cancels.  A pull that has failed already, or that is past its
\* pool, does not look any more.
Cancel(p) ==
    /\ pull[p].pc \in {"resolve", "size", "fetching"} /\ ~CtxDone(p)
    /\ pull' = [pull EXCEPT ![p].cancelled = TRUE]
    /\ UNCHANGED <<fileVars, dir, onDisk, crashes>>

-----------------------------------------------------------------------------
(* The pool: fetchWorker drains the queue in order. *)

Busy(p) == {s \in Slots : pull[p].work[s] \in {"verify", "fetch"}}
Queued(p) == {s \in Slots : pull[p].work[s] = "queued"}
InPool(p, s, job) == At(p, "fetching") /\ pull[p].work[s] = job

\* A worker receives the next job, unless its ctx is over.
Take(p) ==
    /\ At(p, "fetching") /\ Cardinality(Busy(p)) < Workers
    /\ \E s \in Queued(p) :
         /\ \A t \in Queued(p) : s <= t
         /\ pull' = IF CtxDone(p) THEN [pull EXCEPT ![p].err = TRUE]
                    ELSE [pull EXCEPT ![p].work[s] =
                             IF pull[p].resume THEN "verify" ELSE "fetch"]
         /\ ~pull[p].err
    /\ UNCHANGED <<fileVars, dir, onDisk, crashes>>

\* Mistake: what is there is trusted unless it is a hole.
TrustLeftover(p, s) == data[pull[p].inode][s] # Zero

\* The digest of what the partial holds for part s is the one the manifest
\* names.
Verified(p, s) == Matches(data[pull[p].inode], pull[p].art, s)

\* partFetcher.verify: the range is hashed, and fetched only if it differs.
Verify(p, s) ==
    /\ InPool(p, s, "verify") /\ ~CtxDone(p)
    /\ pull' = [pull EXCEPT ![p].work[s] = IF Verified(p, s) THEN "placed" ELSE "fetch"]
    /\ UNCHANGED <<fileVars, dir, onDisk, crashes>>

\* Some bytes land in the part's range; they may be anything.
WriteSome(p, s) ==
    /\ InPool(p, s, "fetch") /\ s <= Len(pull[p].art)
    /\ data' = [data EXCEPT ![pull[p].inode] = Written(@, s, Torn)]
    /\ UNCHANGED <<safe, dir, onDisk, crashes, pull>>

\* The last byte lands, and the digest agrees.
PartLands(p, s) ==
    /\ InPool(p, s, "fetch")
    /\ data' = IF s > Len(pull[p].art) THEN data
               ELSE [data EXCEPT ![pull[p].inode] = Written(@, s, pull[p].art[s])]
    /\ pull' = [pull EXCEPT ![p].work[s] = "placed"]
    /\ UNCHANGED <<safe, dir, onDisk, crashes>>

\* A read or a write of the partial fails, the registry serves something
\* else, the budget is used up, or ctx ends.
PartFails(p, s) ==
    /\ At(p, "fetching") /\ s \in Busy(p)
    /\ pull' = [pull EXCEPT ![p].work[s] = "queued", ![p].err = TRUE]
    /\ UNCHANGED <<fileVars, dir, onDisk, crashes>>

\* Mistake: the pool waits for its jobs rather than for its workers.
JobsEnded(p) == Busy(p) = {} /\ Queued(p) = {}

\* group.Wait: every worker has left, an error or an empty queue behind it.
PoolEnded(p) == Busy(p) = {} /\ (Queued(p) = {} \/ pull[p].err)

\* A pull whose ctx is cancelled after its last part still commits.
GroupDone(p) ==
    /\ At(p, "fetching") /\ PoolEnded(p)
    /\ Goto(p, IF pull[p].err THEN "cleanup" ELSE "sync")
    /\ UNCHANGED <<fileVars, dir, onDisk, crashes>>

-----------------------------------------------------------------------------
(* Sink.Commit, and what becomes of the partial of a pull that failed.     *)

\* Mistake: the file is closed without being synced.
SyncSkipped(p) ==
    /\ At(p, "sync")
    /\ pull' = [pull EXCEPT ![p].pc = "rename", ![p].inode = None]
    /\ UNCHANGED <<dir, onDisk, crashes>>
    /\ FilesBecome(data, safe)

\* fsync, and the handle is closed.
Sync(p) ==
    /\ At(p, "sync")
    /\ pull' = [pull EXCEPT ![p].pc = "rename", ![p].inode = None]
    /\ UNCHANGED <<dir, onDisk, crashes>>
    /\ FilesBecome(data, [safe EXCEPT ![pull[p].inode] = data[pull[p].inode]])

\* rename, by name: whatever is at the partial path now.
Rename(p) ==
    /\ At(p, "rename") /\ dir.partial # None
    /\ DirBecomes([dest |-> dir.partial, partial |-> None])
    /\ Goto(p, "dirsync")
    /\ UNCHANGED crashes
    /\ FilesBecome(data, safe)

\* Mistake: success is reported before the directory is synced.
SyncDirSkipped(p) ==
    /\ At(p, "dirsync")
    /\ Return(p, "done")
    /\ UNCHANGED <<fileVars, dir, onDisk, crashes>>

\* syncDir, and the pull has succeeded.
SyncDir(p) ==
    /\ At(p, "dirsync")
    /\ onDisk' = {dir}
    /\ Return(p, "done")
    /\ UNCHANGED <<dir, crashes>>
    /\ FilesBecome(data, safe)

\* The close, the rename or the directory sync fails.  The handle is gone, so
\* discardEmptyPartial cannot measure the file and leaves it.
CommitFails(p) ==
    /\ pull[p].pc \in {"rename", "dirsync"}
    /\ Return(p, "failed")
    /\ UNCHANGED <<fileVars, dir, onDisk, crashes>>

\* Mistake: a failed pull takes its partial away.
HoldsNothingEver(f) == TRUE

HoldsNothing(f) == f = <<>>

\* discardEmptyPartial: the handle tells the length, the name is removed.
Cleanup(p) ==
    /\ At(p, "cleanup")
    /\ Return(p, "failed")
    /\ IF HoldsNothing(data[pull[p].inode]) /\ dir.partial # None
       THEN DirBecomes([dir EXCEPT !.partial = None])
       ELSE UNCHANGED <<dir, onDisk>>
    /\ UNCHANGED crashes
    /\ FilesBecome(data, safe)

-----------------------------------------------------------------------------
(* The machine. *)

\* The directory is written back on its own.
Writeback == /\ onDisk # {dir}
             /\ onDisk' = {dir}
             /\ UNCHANGED <<dir, crashes, pull>>
             /\ FilesBecome(data, safe)

\* The process is killed; what it wrote is the kernel's and stays.
Kill(p) ==
    /\ ~At(p, "idle")
    /\ Return(p, "none")
    /\ UNCHANGED <<dir, onDisk, crashes>>
    /\ FilesBecome(data, safe)

\* The machine stops: every pull is gone, and of the directory and of the
\* files only what had reached the disk is left.
Crash ==
    /\ crashes < MaxCrashes
    /\ crashes' = crashes + 1
    /\ pull' = [p \in Pulls |-> [Idle EXCEPT !.result = pull[p].result]]
    /\ \E d \in onDisk :
         LET Left(i) == IF i = None THEN {<<>>} ELSE Remains(i)
         IN  \E f \in Left(d.dest), g \in Left(d.partial) :
               /\ dir' = d /\ onDisk' = {d}
               /\ data' = [i \in Inodes |-> IF i = d.dest THEN f
                                            ELSE IF i = d.partial THEN g ELSE <<>>]
               /\ safe' = data'

Worker(p) == Take(p) \/ \E s \in Slots : Verify(p, s)
Landing(p, s) == PartLands(p, s) \/ PartFails(p, s)
Owner(p) == \/ SizeFile(p) \/ GroupDone(p) \/ Sync(p) \/ Rename(p)
            \/ SyncDir(p) \/ CommitFails(p) \/ Cleanup(p)

Next == \/ \E p \in Pulls : \/ Open(p) \/ Resolve(p) \/ PullFails(p)
                            \/ Worker(p) \/ Owner(p)
                            \/ Cancel(p) \/ Kill(p)
                            \/ \E s \in Slots : WriteSome(p, s) \/ Landing(p, s)
        \/ Writeback \/ Crash

Spec == Init /\ [][Next]_vars

-----------------------------------------------------------------------------
(* Properties. *)

\* The destination is absent or a complete file, at every moment and after
\* every crash (Sink: "so the destination is either absent or the complete
\* content").
DestinationIsWhole == Visible \in Artifacts \cup {None}

\* A part counted as placed is in the file, although other workers write
\* around it and it may have been placed by an earlier run.
PlacedIsInPlace ==
    \A p \in Pulls : pull[p].pc \in {"fetching", "sync"} =>
        \A s \in PartsOf(pull[p].art) :
            pull[p].work[s] = "placed" => Matches(data[pull[p].inode], pull[p].art, s)

\* A pull that resumes never damages a part an earlier run had in place,
\* whatever fails and whenever it is cancelled: short of a crash the part
\* stays in the partial file, or goes with it to the destination.  A kill is
\* among what may happen (design.md, "What a resume proves").
InPartial(a, s) == dir.partial # None /\ Len(data[dir.partial]) = Len(a)
                   /\ Matches(data[dir.partial], a, s)

ResumeLosesNothing ==
    [][\A p \in Pulls : \A a \in Artifacts : \A s \in DOMAIN a :
          pull[p].resume /\ pull[p].art = a /\ InPartial(a, s) /\ crashes' = crashes =>
              InPartial(a, s)' \/ (Visible' = a /\ dir'.partial = None)]_vars

\* A pull does to the destination what Destination allows, crashes included:
\* one whole file replaces another in one step, and a file a pull reported
\* survives.
Promise == INSTANCE Destination WITH
    Files <- Artifacts, Absent <- None,
    visible <- Visible,
    survivors <- UNION {IF d.dest = None THEN {None} ELSE Remains(d.dest) : d \in onDisk},
    told <- \E p \in Pulls : pull[p].result = "done"

DestinationKept == Promise!DestSpec

-----------------------------------------------------------------------------
\* Why, when one pull is under way at a time: its handle, while it has one, is
\* on the file its partial path names, and what it renames is whole and synced.
HandleInv == \A p \in Pulls : LET q == pull[p] IN
    /\ q.pc \in {"resolve", "size", "fetching", "sync", "cleanup"} => q.inode = dir.partial
    /\ q.pc \in {"size", "fetching", "sync", "rename"} => q.art # None
    /\ q.pc = "rename" =>
          dir.partial # None /\ data[dir.partial] = q.art /\ safe[dir.partial] = q.art
    /\ q.pc = "dirsync" => dir.dest # None /\ dir.partial = None
    /\ q.pc \in {"idle", "resolve"} => ~q.resume
    /\ q.pc # "idle" => q.result = "none"

\* A part that is fetched over a leftover was not in it, and a pool ends
\* without an error only when every part is placed.
WorkInv == \A p \in Pulls : LET q == pull[p]  f == data[q.inode] IN
    q.pc \in {"fetching", "sync"} =>
        /\ Len(f) = Len(q.art)
        /\ \A s \in PartsOf(q.art) : q.work[s] = "placed" => Matches(f, q.art, s)
        /\ \A s \in Slots : q.resume /\ q.work[s] = "fetch" => ~Matches(f, q.art, s)
        /\ q.pc = "sync" => \A s \in Slots : q.work[s] = "placed"

\* Whatever directory a crash leaves, its destination is whole, is on the disk,
\* and is nobody's partial.
DirInv == \A d \in onDisk : d.dest # None =>
    /\ data[d.dest] \in Artifacts /\ safe[d.dest] = data[d.dest]
    /\ d.dest # d.partial /\ d.dest # dir.partial

PullInv == TypeOK /\ HandleInv /\ WorkInv /\ DirInv
=============================================================================
