----------------------------- MODULE PullProofs ------------------------------
(***************************************************************************)
(* For every artifact, part count, pool size and number of crashes: pulls  *)
(* that run one at a time keep PullInv, so the destination is whole at     *)
(* every moment, a resume loses nothing, and Pull implements Destination.  *)
(***************************************************************************)
EXTENDS Pull, TLAPS

\* One pull into the destination at a time; two at once may publish a torn file.
Alone == \A p, q \in Pulls : p = q

-----------------------------------------------------------------------------
(* Files. *)

LEMMA LongestArtifact ==
    /\ MaxLen \in Nat
    /\ \A a \in Artifacts : Len(a) <= MaxLen
<1> DEFINE Longest(n) == \A a \in Artifacts : Len(a) <= n
           Lens == {Len(a) : a \in Artifacts}
<1>1. \E n \in Lens : Longest(n)
  BY PullAssumption DEF PullAssumption
<1>2. MaxLen \in Lens /\ Longest(MaxLen)
  BY <1>1 DEF MaxLen
<1>3. Lens \subseteq Nat
  BY PullAssumption DEF PullAssumption
<1> QED BY <1>2, <1>3

LEMMA ArtifactFacts ==
    ASSUME NEW a \in Artifacts
    PROVE  /\ a \in Seq(Contents) /\ Len(a) \in 0 .. MaxLen
           /\ a \in FilesUpTo /\ a # None
           /\ PartsOf(a) \subseteq Slots
<1>1. a \in Seq(Contents) /\ a # None
  BY PullAssumption DEF PullAssumption
<1>2. Len(a) \in Nat /\ a \in [1 .. Len(a) -> Contents]
  BY <1>1
<1>3. Len(a) \in 0 .. MaxLen /\ MaxLen \in Nat
  BY <1>2, LongestArtifact
<1>4. a \in [1 .. Len(a) -> Bytes]
  BY <1>2 DEF Bytes
<1>5. a \in FilesUpTo
  BY <1>3, <1>4 DEF FilesUpTo
<1>6. PartsOf(a) \subseteq Slots
  BY <1>3 DEF PartsOf, Slots
<1> QED BY <1>1, <1>3, <1>5, <1>6

LEMMA FileFacts ==
    ASSUME NEW f \in FilesUpTo
    PROVE  /\ Len(f) \in 0 .. MaxLen /\ f \in [1 .. Len(f) -> Bytes]
           /\ \A s \in 1 .. Len(f) : f[s] \in Bytes
<1>1. PICK n \in 0 .. MaxLen : f \in [1 .. n -> Bytes]
  BY DEF FilesUpTo
<1>2. n \in Nat
  BY LongestArtifact
<1>3. f \in Seq(Bytes) /\ Len(f) = n
  BY <1>1, <1>2
<1> QED BY <1>1, <1>3

LEMMA EmptyIsFile == <<>> \in FilesUpTo /\ Len(<<>>) = 0
<1>1. <<>> \in [1 .. 0 -> Bytes]
  OBVIOUS
<1> QED BY <1>1, LongestArtifact DEF FilesUpTo

LEMMA ResizedIsFile ==
    ASSUME NEW f \in FilesUpTo, NEW n \in 0 .. MaxLen
    PROVE  /\ Resized(f, n) \in FilesUpTo /\ Len(Resized(f, n)) = n
           /\ Len(f) = n => Resized(f, n) = f
           /\ \A s \in 1 .. n : s <= Len(f) => Resized(f, n)[s] = f[s]
<1>1. Len(f) \in Nat /\ f \in [1 .. Len(f) -> Bytes] /\ n \in Nat
  BY FileFacts, LongestArtifact
<1>2. Resized(f, n) \in [1 .. n -> Bytes]
  BY <1>1 DEF Resized, Bytes
<1>3. Resized(f, n) \in FilesUpTo
  BY <1>2 DEF FilesUpTo
<1>4. Resized(f, n) \in Seq(Bytes) /\ Len(Resized(f, n)) = n
  BY <1>1, <1>2
<1>5. \A s \in 1 .. n : s <= Len(f) => Resized(f, n)[s] = f[s]
  BY <1>1 DEF Resized
<1>6. Len(f) = n => Resized(f, n) = f
  BY <1>1, <1>2, <1>5
<1> QED BY <1>3, <1>4, <1>5, <1>6

\* A write within a file changes one range and not the length.
LEMMA WrittenInFile ==
    ASSUME NEW f \in FilesUpTo, NEW s \in 1 .. Len(f), NEW c \in Bytes
    PROVE  /\ Written(f, s, c) \in FilesUpTo /\ Len(Written(f, s, c)) = Len(f)
           /\ \A t \in 1 .. Len(f) : Written(f, s, c)[t] = IF t = s THEN c ELSE f[t]
<1>1. Len(f) \in 0 .. MaxLen /\ Len(f) \in Nat /\ f \in [1 .. Len(f) -> Bytes]
  BY FileFacts, LongestArtifact
<1>2. Resized(f, Len(f)) = f
  BY <1>1, ResizedIsFile
<1>3. Written(f, s, c) = [f EXCEPT ![s] = c]
  BY <1>1, <1>2 DEF Written
<1>4. Written(f, s, c) \in [1 .. Len(f) -> Bytes]
  BY <1>1, <1>3
<1>5. Written(f, s, c) \in FilesUpTo
  BY <1>1, <1>4 DEF FilesUpTo
<1>6. Written(f, s, c) \in Seq(Bytes) /\ Len(Written(f, s, c)) = Len(f)
  BY <1>1, <1>4
<1> QED BY <1>1, <1>3, <1>5, <1>6

\* A crash leaves a file, and of a synced file just what it held.
LEMMA RemainsFacts ==
    ASSUME NEW i \in Inodes, data[i] \in FilesUpTo, safe[i] \in FilesUpTo
    PROVE  /\ Remains(i) \subseteq FilesUpTo
           /\ safe[i] = data[i] => Remains(i) = {data[i]}
<1>1. safe[i] = data[i] => Remains(i) = {data[i]}
  BY DEF Remains
<1>2. ASSUME safe[i] # data[i], NEW f \in Remains(i) PROVE f \in FilesUpTo
  <2>1. PICK n \in {Len(safe[i]), Len(data[i])} : f \in [1 .. n -> Bytes]
    BY <1>2 DEF Remains
  <2>2. n \in 0 .. MaxLen
    BY FileFacts
  <2> QED BY <2>1, <2>2 DEF FilesUpTo
<1> QED BY <1>1, <1>2

\* A file of an artifact's length that matches it everywhere is that artifact.
LEMMA AllMatch ==
    ASSUME NEW a \in Artifacts, NEW f \in FilesUpTo, Len(f) = Len(a),
           \A s \in PartsOf(a) : Matches(f, a, s)
    PROVE  f = a
<1>1. /\ Len(a) \in Nat /\ a \in [1 .. Len(a) -> Contents]
      /\ f \in [1 .. Len(f) -> Bytes]
  BY ArtifactFacts, FileFacts, LongestArtifact
<1>2. ASSUME NEW s \in 1 .. Len(a) PROVE f[s] = a[s]
  <2>1. s \in PartsOf(a)
    BY <1>1 DEF PartsOf
  <2> QED BY <2>1, <1>1 DEF Matches
<1> QED BY <1>1, <1>2

LEMMA WrongContents ==
    ASSUME NEW a \in Artifacts, NEW s \in 1 .. Len(a)
    PROVE  a[s] \in Bytes /\ a[s] # Torn
<1>1. a \in [1 .. Len(a) -> Contents]
  BY ArtifactFacts
<1> QED BY <1>1, PullAssumption DEF Bytes, PullAssumption

-----------------------------------------------------------------------------
(* One pull by itself; the invariant is said of values, those before a step *)
(* or those after it.                                                      *)

HandleOK(q, d, da, sa) ==
    /\ q.pc \in {"resolve", "size", "fetching", "sync", "cleanup"} => q.inode = d.partial
    /\ q.pc \in {"size", "fetching", "sync", "rename"} => q.art # None
    /\ q.pc = "rename" =>
          d.partial # None /\ da[d.partial] = q.art /\ sa[d.partial] = q.art
    /\ q.pc = "dirsync" => d.dest # None /\ d.partial = None
    /\ q.pc \in {"idle", "resolve"} => ~q.resume
    /\ q.pc # "idle" => q.result = "none"

WorkOK(q, da) == q.pc \in {"fetching", "sync"} =>
    /\ Len(da[q.inode]) = Len(q.art)
    /\ \A s \in PartsOf(q.art) : q.work[s] = "placed" => Matches(da[q.inode], q.art, s)
    /\ \A s \in Slots : q.resume /\ q.work[s] = "fetch" => ~Matches(da[q.inode], q.art, s)
    /\ q.pc = "sync" => \A s \in Slots : q.work[s] = "placed"

PullOK(q, d, da, sa) ==
    /\ q \in Process
    /\ q.pc \notin {"idle", "rename", "dirsync"} => q.inode # None
    /\ HandleOK(q, d, da, sa) /\ WorkOK(q, da)

DirOK(ds, cur, da, sa) == \A d \in ds : d.dest # None =>
    /\ da[d.dest] \in Artifacts /\ sa[d.dest] = da[d.dest]
    /\ d.dest # d.partial /\ d.dest # cur.partial

LEMMA HandlesAlike == /\ HandleInv <=> \A p \in Pulls : HandleOK(pull[p], dir, data, safe)
                      /\ HandleInv' <=> \A p \in Pulls : HandleOK(pull'[p], dir', data', safe')
<1>1. HandleInv <=> \A p \in Pulls : HandleOK(pull[p], dir, data, safe)
  BY DEF HandleInv, HandleOK
<1>2. HandleInv' <=> \A p \in Pulls : HandleOK(pull'[p], dir', data', safe')
  BY DEF HandleInv, HandleOK
<1> QED BY <1>1, <1>2

LEMMA WorkAlike == /\ WorkInv <=> \A p \in Pulls : WorkOK(pull[p], data)
                   /\ WorkInv' <=> \A p \in Pulls : WorkOK(pull'[p], data')
<1>1. WorkInv <=> \A p \in Pulls : WorkOK(pull[p], data)
  BY DEF WorkInv, WorkOK
<1>2. WorkInv' <=> \A p \in Pulls : WorkOK(pull'[p], data')
  BY DEF WorkInv, WorkOK
<1> QED BY <1>1, <1>2

LEMMA DirAlike == /\ DirInv <=> DirOK(onDisk, dir, data, safe)
                  /\ DirInv' <=> DirOK(onDisk', dir', data', safe')
  BY DEF DirInv, DirOK

LEMMA PullFacts ==
    ASSUME PullInv, NEW p \in Pulls
    PROVE  PullOK(pull[p], dir, data, safe) /\ DirOK(onDisk, dir, data, safe)
  BY HandlesAlike, WorkAlike, DirAlike DEF PullInv, TypeOK, PullOK

\* What a step of the one pull leaves well formed.
LEMMA Composed ==
    ASSUME Alone, PullInv, NEW p \in Pulls,
           data' \in [Inodes -> FilesUpTo], safe' \in [Inodes -> FilesUpTo],
           dir' \in Directory, dir' \in onDisk', onDisk' \subseteq Directory,
           crashes' \in 0 .. MaxCrashes,
           pull' = [pull EXCEPT ![p] = pull'[p]],
           PullOK(pull'[p], dir', data', safe'),
           DirOK(onDisk', dir', data', safe')
    PROVE  PullInv'
<1>1. \A m \in Pulls : pull'[m] = pull'[p]
  BY DEF Alone
<1>2. pull' \in [Pulls -> Process]
  BY DEF PullInv, TypeOK, PullOK
<1>3. TypeOK'
  BY <1>1, <1>2 DEF TypeOK, PullOK
<1>4. HandleInv' /\ WorkInv'
  BY <1>1, HandlesAlike, WorkAlike DEF PullOK
<1> QED BY <1>3, <1>4, DirAlike DEF PullInv

LEMMA IdleOK ==
    ASSUME NEW result \in {"none", "done", "failed"}, NEW d, NEW da, NEW sa
    PROVE  PullOK([Idle EXCEPT !.result = result], d, da, sa)
  BY PullAssumption
     DEF PullOK, HandleOK, WorkOK, Idle, Process, Job, PullAssumption

-----------------------------------------------------------------------------
(* What stays on the disk. *)

Named(ds, ps, i) == \/ \E d \in ds : i \in {d.dest, d.partial}
                    \/ \E p \in Pulls : ps[p].inode = i

LEMMA Kept ==
    ASSUME NEW d \in [Inodes -> FilesUpTo], NEW s \in [Inodes -> FilesUpTo], FilesBecome(d, s)
    PROVE  /\ data' \in [Inodes -> FilesUpTo] /\ safe' \in [Inodes -> FilesUpTo]
           /\ \A i \in Inodes : Named(onDisk', pull', i) => data'[i] = d[i] /\ safe'[i] = s[i]
<1>1. /\ data' = [i \in Inodes |-> IF Named(onDisk', pull', i) THEN d[i] ELSE <<>>]
      /\ safe' = [i \in Inodes |-> IF Named(onDisk', pull', i) THEN s[i] ELSE <<>>]
  BY DEF FilesBecome, Reachable, Named
<1> QED BY <1>1, EmptyIsFile

LEMMA DirTypes ==
    ASSUME TypeOK, NEW d \in onDisk
    PROVE  /\ d.dest # None => d.dest \in Inodes
           /\ d.partial # None => d.partial \in Inodes
  BY DEF TypeOK, Directory

\* A destination stays whole while the file system changes round it.
LEMMA DirKept ==
    ASSUME PullInv, onDisk' \subseteq onDisk \/ onDisk' = onDisk \cup {dir'},
           dir' \in onDisk',
           dir'.partial # None => dir'.partial = dir.partial,
           dir'.dest = dir.dest,
           NEW d, NEW s, d \in [Inodes -> FilesUpTo], s \in [Inodes -> FilesUpTo],
           FilesBecome(d, s),
           \A e \in onDisk : e.dest # None =>
               d[e.dest] = data[e.dest] /\ s[e.dest] = safe[e.dest]
    PROVE  DirOK(onDisk', dir', data', safe')
<1>1. DirOK(onDisk, dir, data, safe) /\ dir \in onDisk
  BY DirAlike DEF PullInv, TypeOK
<1>2. SUFFICES ASSUME NEW e \in onDisk', e.dest # None
               PROVE  /\ data'[e.dest] \in Artifacts /\ safe'[e.dest] = data'[e.dest]
                      /\ e.dest # e.partial /\ e.dest # dir'.partial
  BY DEF DirOK
<1>3. PICK o \in onDisk : o.dest = e.dest /\ (e = o \/ e = dir')
  BY <1>1, <1>2
<1>4. e.dest \in Inodes
  BY <1>2, <1>3, DirTypes DEF PullInv
<1>5. data'[e.dest] = d[e.dest] /\ safe'[e.dest] = s[e.dest]
  BY <1>4, Kept DEF Named
<1>6. data'[e.dest] \in Artifacts /\ safe'[e.dest] = data'[e.dest]
  BY <1>1, <1>2, <1>3, <1>5 DEF DirOK
<1>7. e.dest # dir'.partial
  BY <1>1, <1>2, <1>3 DEF DirOK
<1> QED BY <1>1, <1>2, <1>3, <1>6, <1>7 DEF DirOK

-----------------------------------------------------------------------------
(* PullInv, action by action: steps of the pull that touch no file. *)

LEMMA PullOnly ==
    ASSUME Alone, PullInv, NEW p \in Pulls,
           UNCHANGED <<fileVars, dir, onDisk, crashes>>,
           NEW q, PullOK(q, dir, data, safe), pull' = [pull EXCEPT ![p] = q]
    PROVE  PullInv'
<1>1. pull'[p] = q /\ pull' = [pull EXCEPT ![p] = pull'[p]]
  BY DEF PullInv, TypeOK
<1>2. DirOK(onDisk', dir', data', safe') /\ PullOK(pull'[p], dir', data', safe')
  BY <1>1, DirAlike DEF PullInv, fileVars
<1>3. /\ data' \in [Inodes -> FilesUpTo] /\ safe' \in [Inodes -> FilesUpTo]
      /\ dir' \in Directory /\ dir' \in onDisk' /\ onDisk' \subseteq Directory
      /\ crashes' \in 0 .. MaxCrashes
  BY DEF PullInv, TypeOK, fileVars
<1> QED BY <1>1, <1>2, <1>3, Composed

LEMMA ResolveKeeps == ASSUME Alone, PullInv, NEW p \in Pulls, Resolve(p) PROVE PullInv'
<1>1. PICK a \in Artifacts :
        pull' = [pull EXCEPT ![p].pc = "size", ![p].art = a,
                             ![p].resume = Resumable(data[pull[p].inode], a)]
  BY DEF Resolve
<1>2. Resumable(data[pull[p].inode], a) \in BOOLEAN /\ a # None
  BY ArtifactFacts DEF Resumable
<1> DEFINE q == [pull[p] EXCEPT !.pc = "size", !.art = a,
                                !.resume = Resumable(data[pull[p].inode], a)]
<1>3. PullOK(pull[p], dir, data, safe) /\ At(p, "resolve")
  BY PullFacts DEF Resolve
<1>4. PullOK(q, dir, data, safe)
  BY <1>2, <1>3 DEF PullOK, HandleOK, WorkOK, Process, At
<1>5. pull' = [pull EXCEPT ![p] = q]
  BY <1>1 DEF PullInv, TypeOK
<1> QED BY <1>4, <1>5, PullOnly DEF Resolve

LEMMA PullFailsKeeps == ASSUME Alone, PullInv, NEW p \in Pulls, PullFails(p) PROVE PullInv'
<1> DEFINE q == [pull[p] EXCEPT !.pc = "cleanup"]
<1>1. PullOK(pull[p], dir, data, safe) /\ pull[p].pc \in {"resolve", "size", "sync"}
  BY PullFacts DEF PullFails
<1>2. PullOK(q, dir, data, safe)
  BY <1>1 DEF PullOK, HandleOK, WorkOK, Process
<1>3. pull' = [pull EXCEPT ![p] = q]
  BY DEF PullFails, Goto, PullInv, TypeOK
<1> QED BY <1>2, <1>3, PullOnly DEF PullFails

LEMMA CancelKeeps == ASSUME Alone, PullInv, NEW p \in Pulls, Cancel(p) PROVE PullInv'
<1> DEFINE q == [pull[p] EXCEPT !.cancelled = TRUE]
<1>1. PullOK(pull[p], dir, data, safe)
  BY PullFacts
<1>2. PullOK(q, dir, data, safe)
  BY <1>1 DEF PullOK, HandleOK, WorkOK, Process
<1>3. pull' = [pull EXCEPT ![p] = q]
  BY DEF Cancel, PullInv, TypeOK
<1> QED BY <1>2, <1>3, PullOnly DEF Cancel

\* The pool, once more: a job changes, and perhaps there is an error.
LEMMA JobOK ==
    ASSUME NEW q, PullOK(q, dir, data, safe), q.pc = "fetching",
           NEW s \in Slots, NEW job \in Job, NEW err \in BOOLEAN,
           s \in PartsOf(q.art) /\ job = "placed" => Matches(data[q.inode], q.art, s),
           q.resume /\ job = "fetch" => ~Matches(data[q.inode], q.art, s)
    PROVE  PullOK([q EXCEPT !.work[s] = job, !.err = err], dir, data, safe)
<1> DEFINE g == [q EXCEPT !.work[s] = job, !.err = err]
<1>1. /\ g \in Process /\ g.pc = q.pc /\ g.inode = q.inode /\ g.art = q.art
      /\ g.resume = q.resume /\ g.result = q.result
      /\ \A t \in Slots : g.work[t] = IF t = s THEN job ELSE q.work[t]
  <2> DEFINE w == [q.work EXCEPT ![s] = job]
  <2>1. q \in Process /\ w \in [Slots -> Job]
    BY DEF PullOK, Process
  <2>2. g = [q EXCEPT !.work = w, !.err = err]
    BY <2>1 DEF Process
  <2>3. \A t \in Slots : w[t] = IF t = s THEN job ELSE q.work[t]
    BY <2>1 DEF Process
  <2> HIDE DEF w
  <2>4. /\ [q EXCEPT !.work = w, !.err = err] \in Process
        /\ [q EXCEPT !.work = w, !.err = err].work = w
    BY <2>1 DEF Process
  <2> QED BY <2>1, <2>2, <2>3, <2>4 DEF Process
<1> HIDE DEF g
<1>2. HandleOK(g, dir, data, safe)
  BY <1>1 DEF PullOK, HandleOK
<1>3. \A t \in PartsOf(q.art) : g.work[t] = "placed" => Matches(data[q.inode], q.art, t)
  <2>1. PartsOf(q.art) \subseteq Slots
    BY ArtifactFacts DEF PullOK, HandleOK, Process
  <2> QED BY <1>1, <2>1 DEF PullOK, WorkOK
<1>4. \A t \in Slots : g.resume /\ g.work[t] = "fetch" => ~Matches(data[q.inode], q.art, t)
  BY <1>1 DEF PullOK, WorkOK
<1>5. WorkOK(g, data)
  BY <1>1, <1>3, <1>4 DEF PullOK, WorkOK
<1>6. PullOK(g, dir, data, safe)
  BY <1>1, <1>2, <1>5 DEF PullOK
<1> QED BY <1>6 DEF g

LEMMA TakeKeeps == ASSUME Alone, PullInv, NEW p \in Pulls, Take(p) PROVE PullInv'
<1> DEFINE q == pull[p]
<1>1. PullOK(q, dir, data, safe) /\ q.pc = "fetching" /\ q.err \in BOOLEAN
  BY PullFacts DEF Take, At, PullOK, Process
<1>2. PICK s \in Queued(p) :
        pull' = IF CtxDone(p) THEN [pull EXCEPT ![p].err = TRUE]
                ELSE [pull EXCEPT ![p].work[s] = IF q.resume THEN "verify" ELSE "fetch"]
  BY DEF Take
<1>3. s \in Slots /\ q.work[s] = "queued" /\ q.work \in [Slots -> Job]
  BY <1>1 DEF Queued, PullOK, Process
<1>4. CASE CtxDone(p)
  <2>1. PullOK([q EXCEPT !.err = TRUE], dir, data, safe)
    BY <1>1 DEF PullOK, HandleOK, WorkOK, Process
  <2>2. pull' = [pull EXCEPT ![p] = [q EXCEPT !.err = TRUE]]
    BY <1>2, <1>4 DEF PullInv, TypeOK
  <2> QED BY <2>1, <2>2, PullOnly DEF Take
<1>5. CASE ~CtxDone(p)
  <2> DEFINE job == IF q.resume THEN "verify" ELSE "fetch"
             g == [q EXCEPT !.work[s] = job, !.err = q.err]
  <2>1. PullOK(g, dir, data, safe)
    BY <1>1, <1>3, JobOK DEF Job
  <2>2. g = [q EXCEPT !.work[s] = job]
    BY <1>1 DEF PullOK, Process
  <2>3. pull' = [pull EXCEPT ![p] = g]
    BY <1>2, <1>5, <2>2 DEF PullInv, TypeOK
  <2> QED BY <2>1, <2>3, PullOnly DEF Take
<1> QED BY <1>4, <1>5

LEMMA VerifyKeeps ==
    ASSUME Alone, PullInv, NEW p \in Pulls, NEW s \in Slots, Verify(p, s)
    PROVE  PullInv'
<1> DEFINE q == pull[p]
           job == IF Verified(p, s) THEN "placed" ELSE "fetch"
           g == [q EXCEPT !.work[s] = job, !.err = q.err]
<1>1. PullOK(q, dir, data, safe) /\ q.pc = "fetching" /\ q.err \in BOOLEAN
  BY PullFacts DEF Verify, InPool, At, PullOK, Process
<1>2. PullOK(g, dir, data, safe)
  BY <1>1, JobOK DEF Job, Verified
<1>3. g = [q EXCEPT !.work[s] = job]
  BY <1>1 DEF PullOK, Process
<1>4. pull' = [pull EXCEPT ![p] = g]
  BY <1>3 DEF Verify, PullInv, TypeOK
<1> QED BY <1>2, <1>4, PullOnly DEF Verify

LEMMA PartFailsKeeps ==
    ASSUME Alone, PullInv, NEW p \in Pulls, NEW s \in Slots, PartFails(p, s)
    PROVE  PullInv'
<1> DEFINE q == pull[p]
           g == [q EXCEPT !.work[s] = "queued", !.err = TRUE]
<1>1. PullOK(q, dir, data, safe) /\ q.pc = "fetching"
  BY PullFacts DEF PartFails, At
<1>2. PullOK(g, dir, data, safe)
  BY <1>1, JobOK DEF Job
<1>3. pull' = [pull EXCEPT ![p] = g]
  BY DEF PartFails, PullInv, TypeOK
<1> QED BY <1>2, <1>3, PullOnly DEF PartFails

LEMMA GroupDoneKeeps == ASSUME Alone, PullInv, NEW p \in Pulls, GroupDone(p) PROVE PullInv'
<1> DEFINE q == pull[p]
           g == [q EXCEPT !.pc = IF q.err THEN "cleanup" ELSE "sync"]
<1>1. PullOK(q, dir, data, safe) /\ q.pc = "fetching" /\ q.work \in [Slots -> Job]
  BY PullFacts DEF GroupDone, At, PullOK, Process
<1>2. ~q.err => \A s \in Slots : q.work[s] = "placed"
  BY <1>1 DEF GroupDone, PoolEnded, Busy, Queued, Job
<1>3. PullOK(g, dir, data, safe)
  BY <1>1, <1>2 DEF PullOK, HandleOK, WorkOK, Process
<1>4. pull' = [pull EXCEPT ![p] = g]
  BY DEF GroupDone, Goto, PullInv, TypeOK
<1> QED BY <1>3, <1>4, PullOnly DEF GroupDone

LEMMA CommitFailsKeeps == ASSUME Alone, PullInv, NEW p \in Pulls, CommitFails(p) PROVE PullInv'
  BY IdleOK, PullOnly DEF CommitFails, Return

-----------------------------------------------------------------------------
(* Steps of the pull that write its file. *)

\* The file a pull writes is its partial, and nobody's destination.
LEMMA OpenFile ==
    ASSUME PullInv, NEW p \in Pulls, pull[p].pc \in {"resolve", "size", "fetching", "sync", "cleanup"}
    PROVE  /\ pull[p].inode \in Inodes /\ pull[p].inode = dir.partial
           /\ data[pull[p].inode] \in FilesUpTo
           /\ \A d \in onDisk : d.dest # None => d.dest # pull[p].inode
<1>1. PullOK(pull[p], dir, data, safe) /\ DirOK(onDisk, dir, data, safe)
  BY PullFacts
<1>2. pull[p].inode \in Inodes /\ pull[p].inode = dir.partial
  BY <1>1 DEF PullOK, HandleOK, Process
<1> QED BY <1>1, <1>2 DEF DirOK, PullInv, TypeOK

LEMMA DataOnly ==
    ASSUME Alone, PullInv, NEW p \in Pulls, pull[p].pc \in {"size", "fetching"},
           UNCHANGED <<safe, dir, onDisk, crashes>>,
           NEW f \in FilesUpTo, data' = [data EXCEPT ![pull[p].inode] = f],
           NEW q, PullOK(q, dir, data', safe), pull' = [pull EXCEPT ![p] = q]
    PROVE  PullInv'
<1>1. pull'[p] = q /\ pull' = [pull EXCEPT ![p] = pull'[p]]
  BY DEF PullInv, TypeOK
<1>2. /\ pull[p].inode \in Inodes
      /\ \A d \in onDisk : d.dest # None => d.dest # pull[p].inode
  BY OpenFile
<1>3. DirOK(onDisk, dir, data', safe)
  BY <1>2, DirAlike, DirTypes DEF PullInv, TypeOK, DirOK
<1>4. /\ data' \in [Inodes -> FilesUpTo] /\ safe' \in [Inodes -> FilesUpTo]
      /\ dir' \in Directory /\ dir' \in onDisk' /\ onDisk' \subseteq Directory
      /\ crashes' \in 0 .. MaxCrashes
  BY <1>2 DEF PullInv, TypeOK
<1> QED BY <1>1, <1>3, <1>4, Composed

LEMMA SizeFileKeeps == ASSUME Alone, PullInv, NEW p \in Pulls, SizeFile(p) PROVE PullInv'
<1> DEFINE i == pull[p].inode
           a == pull[p].art
           w == [s \in Slots |-> IF s \in PartsOf(a) THEN "queued" ELSE "placed"]
           q == [pull[p] EXCEPT !.pc = "fetching", !.work = w]
           f == Resized(data[i], Len(a))
<1>1. PullOK(pull[p], dir, data, safe) /\ pull[p].pc = "size"
  BY PullFacts DEF SizeFile, At
<1>2. i \in Inodes /\ data[i] \in FilesUpTo /\ a \in Artifacts
  BY <1>1, OpenFile DEF PullOK, HandleOK, Process
<1>3. f \in FilesUpTo /\ Len(f) = Len(a)
  BY <1>2, ArtifactFacts, ResizedIsFile
<1>4. /\ data' = [data EXCEPT ![i] = f]
      /\ pull' = [pull EXCEPT ![p] = q]
      /\ UNCHANGED <<safe, dir, onDisk, crashes>>
  BY DEF SizeFile, PullInv, TypeOK
<1>5. data'[i] = f
  BY <1>2, <1>4 DEF PullInv, TypeOK
<1>6. /\ w \in [Slots -> Job]
      /\ \A s \in PartsOf(a) : w[s] # "placed"
      /\ \A s \in Slots : w[s] # "fetch"
  <2>1. PartsOf(a) \subseteq Slots
    BY <1>2, ArtifactFacts
  <2> HIDE DEF a
  <2>2. \A s \in Slots : w[s] = IF s \in PartsOf(a) THEN "queued" ELSE "placed"
    OBVIOUS
  <2> QED BY <2>1, <2>2 DEF Job
<1> HIDE DEF w, f
<1>7. /\ q \in Process /\ q.pc = "fetching" /\ q.work = w
      /\ q.inode = i /\ q.art = a /\ q.result = pull[p].result
  BY <1>1, <1>6 DEF PullOK, Process
<1> HIDE DEF q
<1>8. HandleOK(q, dir, data', safe)
  BY <1>1, <1>7 DEF PullOK, HandleOK
<1>9. WorkOK(q, data')
  BY <1>3, <1>5, <1>6, <1>7 DEF WorkOK
<1>10. PullOK(q, dir, data', safe)
  BY <1>1, <1>7, <1>8, <1>9 DEF PullOK
<1> QED BY <1>1, <1>3, <1>4, <1>10, DataOnly

LEMMA WriteSomeKeeps ==
    ASSUME Alone, PullInv, NEW p \in Pulls, NEW s \in Slots, WriteSome(p, s)
    PROVE  PullInv'
<1> DEFINE q == pull[p]
           i == q.inode
           f == Written(data[i], s, Torn)
<1>1. PullOK(q, dir, data, safe) /\ q.pc = "fetching" /\ q.work[s] = "fetch"
  BY PullFacts DEF WriteSome, InPool, At
<1>2. /\ i \in Inodes /\ data[i] \in FilesUpTo /\ q.art \in Artifacts
      /\ Len(data[i]) = Len(q.art)
  BY <1>1, OpenFile DEF PullOK, HandleOK, WorkOK, Process
<1>3. s \in 1 .. Len(data[i]) /\ Torn \in Bytes
  BY <1>2, ArtifactFacts, LongestArtifact DEF WriteSome, Slots, Bytes
<1>4. /\ f \in FilesUpTo /\ Len(f) = Len(q.art)
      /\ \A t \in 1 .. Len(q.art) : f[t] = IF t = s THEN Torn ELSE data[i][t]
  <2>1. /\ f \in FilesUpTo /\ Len(f) = Len(data[i])
        /\ \A t \in 1 .. Len(data[i]) : f[t] = IF t = s THEN Torn ELSE data[i][t]
    BY <1>2, <1>3, WrittenInFile
  <2> QED BY <1>2, <2>1
<1>5. /\ data' = [data EXCEPT ![i] = f] /\ pull' = pull
      /\ UNCHANGED <<safe, dir, onDisk, crashes>>
  BY DEF WriteSome
<1>p. pull' = [pull EXCEPT ![p] = q]
  BY <1>5 DEF PullInv, TypeOK
<1>6. data'[i] = f
  BY <1>2, <1>5 DEF PullInv, TypeOK
<1> HIDE DEF f
<1>7. s <= Len(q.art) /\ q.art[s] # Torn
  BY <1>2, <1>3, WrongContents
<1>8. \A t \in Slots : Matches(f, q.art, t) <=> t # s /\ Matches(data[i], q.art, t)
  BY <1>2, <1>3, <1>4, <1>7, ArtifactFacts, LongestArtifact DEF Matches, Slots
<1>9. PartsOf(q.art) \subseteq Slots
  BY <1>2, ArtifactFacts
<1>10. WorkOK(q, data')
  BY <1>1, <1>4, <1>6, <1>8, <1>9 DEF PullOK, WorkOK
<1>11. PullOK(q, dir, data', safe)
  BY <1>1, <1>10 DEF PullOK, HandleOK
<1> QED BY <1>1, <1>4, <1>5, <1>p, <1>11, DataOnly

LEMMA PartLandsKeeps ==
    ASSUME Alone, PullInv, NEW p \in Pulls, NEW s \in Slots, PartLands(p, s)
    PROVE  PullInv'
<1> DEFINE q == pull[p]
           i == q.inode
           g == [q EXCEPT !.work[s] = "placed", !.err = q.err]
<1>1. PullOK(q, dir, data, safe) /\ q.pc = "fetching" /\ q.work[s] = "fetch"
  BY PullFacts DEF PartLands, InPool, At
<1>2. /\ i \in Inodes /\ data[i] \in FilesUpTo /\ q.art \in Artifacts
      /\ Len(data[i]) = Len(q.art) /\ q.err \in BOOLEAN
  BY <1>1, OpenFile DEF PullOK, HandleOK, WorkOK, Process
<1>3. /\ g = [q EXCEPT !.work[s] = "placed"]
      /\ pull' = [pull EXCEPT ![p] = g]
  BY <1>1 DEF PartLands, PullInv, TypeOK, PullOK, Process
<1>4. UNCHANGED <<safe, dir, onDisk, crashes>>
  BY DEF PartLands
<1>5. CASE s > Len(q.art)
  <2>1. data' = data
    BY <1>5 DEF PartLands
  <2>2. Matches(data[i], q.art, s)
    BY <1>5 DEF Matches
  <2>3. PullOK(g, dir, data, safe)
    BY <1>1, <1>2, <2>2, JobOK DEF Job
  <2>4. UNCHANGED <<fileVars, dir, onDisk, crashes>>
    BY <2>1, <1>4 DEF fileVars
  <2> QED BY <1>3, <2>3, <2>4, PullOnly
<1>6. CASE ~(s > Len(q.art))
  <2> DEFINE f == Written(data[i], s, q.art[s])
  <2>1. s \in 1 .. Len(data[i]) /\ q.art[s] \in Bytes
    BY <1>2, <1>6, ArtifactFacts, LongestArtifact, WrongContents DEF Slots
  <2>2. /\ f \in FilesUpTo /\ Len(f) = Len(q.art)
        /\ \A t \in 1 .. Len(q.art) : f[t] = IF t = s THEN q.art[s] ELSE data[i][t]
    BY <1>2, <2>1, WrittenInFile
  <2>3. data' = [data EXCEPT ![i] = f]
    BY <1>6 DEF PartLands
  <2>4. data'[i] = f
    BY <1>2, <2>3 DEF PullInv, TypeOK
  <2> HIDE DEF f
  <2>5. \A t \in Slots : Matches(f, q.art, t) <=> t = s \/ Matches(data[i], q.art, t)
    BY <1>2, <2>1, <2>2, ArtifactFacts, LongestArtifact DEF Matches, Slots
  <2>6. PartsOf(q.art) \subseteq Slots
    BY <1>2, ArtifactFacts
  <2> DEFINE w == [q.work EXCEPT ![s] = "placed"]
  <2>7. w \in [Slots -> Job] /\ \A t \in Slots : w[t] = IF t = s THEN "placed" ELSE q.work[t]
    BY <1>1 DEF PullOK, Process, Job
  <2>8. g = [q EXCEPT !.work = w]
    BY <1>1, <1>3 DEF PullOK, Process
  <2> HIDE DEF w
  <2>9. /\ g \in Process /\ g.work = w /\ g.pc = "fetching"
        /\ g.inode = i /\ g.art = q.art /\ g.resume = q.resume /\ g.result = q.result
    BY <1>1, <2>7, <2>8 DEF PullOK, Process
  <2> HIDE DEF g
  <2>10. WorkOK(g, data')
    BY <1>1, <2>2, <2>4, <2>5, <2>6, <2>7, <2>9 DEF PullOK, WorkOK
  <2>11. HandleOK(g, dir, data', safe)
    BY <1>1, <2>9 DEF PullOK, HandleOK
  <2>12. PullOK(g, dir, data', safe)
    BY <1>1, <2>9, <2>10, <2>11 DEF PullOK
  <2> QED BY <1>1, <1>3, <1>4, <2>2, <2>3, <2>12, DataOnly
<1> QED BY <1>5, <1>6

-----------------------------------------------------------------------------
(* Steps that close a handle or change the directory. *)

LEMMA ComposedAll ==
    ASSUME data' \in [Inodes -> FilesUpTo], safe' \in [Inodes -> FilesUpTo],
           dir' \in Directory, dir' \in onDisk', onDisk' \subseteq Directory,
           crashes' \in 0 .. MaxCrashes,
           NEW ps, pull' = [p \in Pulls |-> ps[p]],
           \A p \in Pulls : PullOK(ps[p], dir', data', safe'),
           DirOK(onDisk', dir', data', safe')
    PROVE  PullInv'
<1>1. \A p \in Pulls : pull'[p] = ps[p]
  OBVIOUS
<1>2. TypeOK'
  BY <1>1 DEF TypeOK, PullOK
<1>3. HandleInv' /\ WorkInv'
  BY <1>1, HandlesAlike, WorkAlike DEF PullOK
<1> QED BY <1>2, <1>3, DirAlike DEF PullInv

LEMMA OthersAlike ==
    ASSUME Alone, PullInv, NEW p \in Pulls, NEW q, pull' = [pull EXCEPT ![p] = q]
    PROVE  pull' = [m \in Pulls |-> q] /\ pull'[p] = q
  BY DEF Alone, PullInv, TypeOK

\* The destination stays: the pull returns, or closes its handle.
LEMMA Closing ==
    ASSUME Alone, PullInv, NEW p \in Pulls, NEW q, pull' = [pull EXCEPT ![p] = q],
           UNCHANGED crashes,
           onDisk' \subseteq onDisk \/ onDisk' = onDisk \cup {dir'},
           dir' \in onDisk', dir' \in Directory,
           dir'.partial # None => dir'.partial = dir.partial,
           dir'.dest = dir.dest,
           NEW s \in [Inodes -> FilesUpTo], FilesBecome(data, s),
           \A e \in onDisk : e.dest # None => s[e.dest] = safe[e.dest],
           PullOK(q, dir', data', safe')
    PROVE  PullInv'
<1>1. data \in [Inodes -> FilesUpTo] /\ onDisk \subseteq Directory /\ crashes' \in 0 .. MaxCrashes
  BY DEF PullInv, TypeOK
<1>2. DirOK(onDisk', dir', data', safe')
  BY <1>1, DirKept
<1>3. data' \in [Inodes -> FilesUpTo] /\ safe' \in [Inodes -> FilesUpTo]
  BY <1>1, Kept
<1>4. onDisk' \subseteq Directory
  BY <1>1
<1>5. pull' = [pull EXCEPT ![p] = pull'[p]] /\ pull'[p] = q
  BY OthersAlike
<1> QED BY <1>1, <1>2, <1>3, <1>4, <1>5, Composed

LEMMA CleanupKeeps == ASSUME Alone, PullInv, NEW p \in Pulls, Cleanup(p) PROVE PullInv'
<1> DEFINE q == [Idle EXCEPT !.result = "failed"]
<1>1. /\ dir \in onDisk /\ dir \in Directory /\ safe \in [Inodes -> FilesUpTo]
      /\ pull' = [pull EXCEPT ![p] = q]
      /\ FilesBecome(data, safe) /\ UNCHANGED crashes
  BY DEF Cleanup, Return, PullInv, TypeOK
<1>2. PullOK(q, dir', data', safe')
  BY IdleOK
<1> HIDE DEF q
<1>3. CASE dir' = dir /\ onDisk' = onDisk
  BY <1>1, <1>2, <1>3, Closing
<1>4. CASE dir' = [dir EXCEPT !.partial = None] /\ onDisk' = onDisk \cup {dir'}
  <2>1. /\ dir'.partial = None /\ dir'.dest = dir.dest
        /\ dir' \in Directory /\ dir' \in onDisk'
    BY <1>1, <1>4 DEF Directory
  <2> QED BY <1>1, <1>2, <1>4, <2>1, Closing
<1> QED BY <1>3, <1>4 DEF Cleanup, DirBecomes

LEMMA SyncKeeps == ASSUME Alone, PullInv, NEW p \in Pulls, Sync(p) PROVE PullInv'
<1> DEFINE i == pull[p].inode
           a == pull[p].art
           q == [pull[p] EXCEPT !.pc = "rename", !.inode = None]
           s == [safe EXCEPT ![i] = data[i]]
<1>1. PullOK(pull[p], dir, data, safe) /\ pull[p].pc = "sync"
  BY PullFacts DEF Sync, At
<1>2. /\ i \in Inodes /\ i = dir.partial /\ data[i] \in FilesUpTo /\ a \in Artifacts
      /\ Len(data[i]) = Len(a)
      /\ \A d \in onDisk : d.dest # None => d.dest # i
  BY <1>1, OpenFile DEF PullOK, HandleOK, WorkOK, Process
<1>3. data[i] = a
  <2>1. \A t \in PartsOf(a) : Matches(data[i], a, t)
    BY <1>1, <1>2, ArtifactFacts DEF PullOK, WorkOK
  <2> QED BY <1>2, <2>1, AllMatch
<1>4. /\ dir \in onDisk /\ dir \in Directory /\ s \in [Inodes -> FilesUpTo]
      /\ data \in [Inodes -> FilesUpTo] /\ s[i] = a
      /\ \A d \in onDisk : d.dest # None => s[d.dest] = safe[d.dest]
  BY <1>2, <1>3, DirTypes DEF PullInv, TypeOK
<1>5. /\ pull' = [pull EXCEPT ![p] = q]
      /\ dir' = dir /\ onDisk' = onDisk /\ UNCHANGED crashes
      /\ FilesBecome(data, s)
  BY DEF Sync, PullInv, TypeOK
<1> HIDE DEF s
<1>6. Named(onDisk', pull', i)
  BY <1>2, <1>4, <1>5 DEF Named
<1>7. data'[i] = a /\ safe'[i] = a
  BY <1>2, <1>3, <1>4, <1>5, <1>6, Kept
<1>8. PullOK(q, dir', data', safe')
  BY <1>1, <1>2, <1>5, <1>7, PullAssumption DEF PullOK, HandleOK, WorkOK, Process, PullAssumption
<1> HIDE DEF q
<1> QED BY <1>4, <1>5, <1>8, Closing

LEMMA SyncDirKeeps == ASSUME Alone, PullInv, NEW p \in Pulls, SyncDir(p) PROVE PullInv'
<1> DEFINE q == [Idle EXCEPT !.result = "done"]
<1>1. /\ dir \in onDisk /\ dir \in Directory /\ safe \in [Inodes -> FilesUpTo]
      /\ pull' = [pull EXCEPT ![p] = q]
      /\ FilesBecome(data, safe) /\ UNCHANGED crashes
      /\ dir' = dir /\ onDisk' = {dir}
  BY DEF SyncDir, Return, PullInv, TypeOK
<1>2. PullOK(q, dir', data', safe')
  BY IdleOK
<1> HIDE DEF q
<1> QED BY <1>1, <1>2, Closing

LEMMA KillKeeps == ASSUME Alone, PullInv, NEW p \in Pulls, Kill(p) PROVE PullInv'
<1> DEFINE q == [Idle EXCEPT !.result = "none"]
<1>1. /\ dir \in onDisk /\ dir \in Directory /\ safe \in [Inodes -> FilesUpTo]
      /\ pull' = [pull EXCEPT ![p] = q]
      /\ FilesBecome(data, safe) /\ UNCHANGED crashes
      /\ dir' = dir /\ onDisk' = onDisk
  BY DEF Kill, Return, PullInv, TypeOK
<1>2. PullOK(q, dir', data', safe')
  BY IdleOK
<1> HIDE DEF q
<1> QED BY <1>1, <1>2, Closing

LEMMA RenameKeeps == ASSUME Alone, PullInv, NEW p \in Pulls, Rename(p) PROVE PullInv'
<1> DEFINE i == dir.partial
           q == [pull[p] EXCEPT !.pc = "dirsync"]
<1>1. PullOK(pull[p], dir, data, safe) /\ pull[p].pc = "rename"
  BY PullFacts DEF Rename, At
<1>2. /\ i \in Inodes /\ data[i] = safe[i] /\ data[i] \in Artifacts
  BY <1>1 DEF PullOK, HandleOK, Process, PullInv, TypeOK, Directory
<1>3. /\ dir' = [dest |-> i, partial |-> None] /\ onDisk' = onDisk \cup {dir'}
      /\ pull' = [pull EXCEPT ![p] = q] /\ UNCHANGED crashes
      /\ FilesBecome(data, safe)
  BY DEF Rename, DirBecomes, Goto, PullInv, TypeOK
<1>4. dir' \in Directory /\ dir'.dest = i /\ dir'.partial = None /\ dir' \in onDisk'
  BY <1>2, <1>3 DEF Directory
<1>5. /\ data \in [Inodes -> FilesUpTo] /\ safe \in [Inodes -> FilesUpTo]
      /\ onDisk' \subseteq Directory /\ crashes' \in 0 .. MaxCrashes
  BY <1>3, <1>4 DEF PullInv, TypeOK
<1>6. \A j \in Inodes : (\E d \in onDisk' : d.dest = j) => data'[j] = data[j] /\ safe'[j] = safe[j]
  BY <1>3, <1>5, Kept DEF Named
<1>7. ASSUME NEW d \in onDisk', d.dest # None
      PROVE  /\ data'[d.dest] \in Artifacts /\ safe'[d.dest] = data'[d.dest]
             /\ d.dest # d.partial
  <2>1. CASE d = dir'
    BY <2>1, <1>2, <1>4, <1>6, PullAssumption DEF PullAssumption
  <2>2. CASE d \in onDisk
    <3>1. /\ data[d.dest] \in Artifacts /\ safe[d.dest] = data[d.dest]
          /\ d.dest # d.partial /\ d.dest \in Inodes
      BY <2>2, <1>7, DirAlike, DirTypes DEF PullInv, DirOK
    <3> QED BY <3>1, <1>6
  <2> QED BY <2>1, <2>2, <1>3
<1>8. DirOK(onDisk', dir', data', safe')
  BY <1>4, <1>7 DEF DirOK
<1>9. PullOK(q, dir', data', safe')
  BY <1>1, <1>2, <1>4, PullAssumption DEF PullOK, HandleOK, WorkOK, Process, PullAssumption
<1> HIDE DEF q
<1>10. pull' = [pull EXCEPT ![p] = pull'[p]] /\ pull'[p] = q
  BY <1>3, OthersAlike
<1>11. data' \in [Inodes -> FilesUpTo] /\ safe' \in [Inodes -> FilesUpTo]
  BY <1>3, <1>5, Kept
<1> QED BY <1>4, <1>5, <1>8, <1>9, <1>10, <1>11, Composed

LEMMA OpenKeeps == ASSUME Alone, PullInv, NEW p \in Pulls, Open(p) PROVE PullInv'
<1>1. PICK i \in Inodes :
         /\ IF dir.partial # None
            THEN i = dir.partial /\ UNCHANGED <<dir, onDisk>>
            ELSE /\ i \in Unused /\ \A j \in Unused : i <= j
                 /\ DirBecomes([dir EXCEPT !.partial = i])
         /\ pull' = [pull EXCEPT ![p] = [Idle EXCEPT !.pc = "resolve", !.inode = i]]
  BY DEF Open
<1> DEFINE q == [Idle EXCEPT !.pc = "resolve", !.inode = i]
<1>2. /\ data' = data /\ safe' = safe /\ crashes' = crashes
      /\ data \in [Inodes -> FilesUpTo] /\ safe \in [Inodes -> FilesUpTo]
      /\ dir \in Directory /\ dir \in onDisk /\ onDisk \subseteq Directory
      /\ crashes \in 0 .. MaxCrashes /\ DirOK(onDisk, dir, data, safe)
  BY DirAlike DEF Open, fileVars, PullInv, TypeOK
<1>3. /\ dir' \in Directory /\ dir' \in onDisk' /\ onDisk' \subseteq Directory
      /\ dir'.partial = i
  BY <1>1, <1>2 DEF DirBecomes, Directory
<1>4. DirOK(onDisk', dir', data', safe')
  <2>1. CASE dir.partial # None
    BY <2>1, <1>1, <1>2
  <2>2. CASE dir.partial = None
    <3>1. onDisk' = onDisk \cup {dir'} /\ dir' = [dir EXCEPT !.partial = i]
      BY <2>2, <1>1 DEF DirBecomes
    <3>2. \A d \in onDisk : d.dest # i
      BY <2>2, <1>1 DEF Unused, Reachable
    <3>3. dir'.dest = dir.dest
      BY <3>1, <1>2 DEF Directory
    <3> QED BY <3>1, <3>2, <3>3, <1>2, <1>3 DEF DirOK
  <2> QED BY <2>1, <2>2
<1>5. PullOK(q, dir', data', safe')
  BY <1>3, PullAssumption DEF PullOK, HandleOK, WorkOK, Idle, Process, Job, PullAssumption
<1> HIDE DEF q
<1>6. pull' = [pull EXCEPT ![p] = pull'[p]] /\ pull'[p] = q
  BY <1>1, OthersAlike DEF q
<1> QED BY <1>2, <1>3, <1>4, <1>5, <1>6, Composed

LEMMA WritebackKeeps == ASSUME Alone, PullInv, Writeback PROVE PullInv'
<1>1. /\ dir \in onDisk /\ dir \in Directory /\ onDisk \subseteq Directory
      /\ safe \in [Inodes -> FilesUpTo] /\ data \in [Inodes -> FilesUpTo]
      /\ pull' = pull /\ pull \in [Pulls -> Process]
      /\ FilesBecome(data, safe) /\ crashes' = crashes /\ crashes' \in 0 .. MaxCrashes
      /\ dir' = dir /\ onDisk' = {dir}
  BY DEF Writeback, PullInv, TypeOK
<1>2. DirOK(onDisk', dir', data', safe')
  BY <1>1, DirKept
<1>3. /\ data' \in [Inodes -> FilesUpTo] /\ safe' \in [Inodes -> FilesUpTo]
      /\ \A i \in Inodes : Named(onDisk', pull', i) => data'[i] = data[i] /\ safe'[i] = safe[i]
  BY <1>1, Kept
<1>4. dir.partial # None => /\ data'[dir.partial] = data[dir.partial]
                            /\ safe'[dir.partial] = safe[dir.partial]
  BY <1>1, <1>3, DirTypes DEF Named, PullInv
<1>5. ASSUME NEW p \in Pulls PROVE PullOK(pull[p], dir', data', safe')
  <2>1. PullOK(pull[p], dir, data, safe)
    BY PullFacts
  <2>2. pull[p].pc \in {"fetching", "sync"} => data'[pull[p].inode] = data[pull[p].inode]
    BY <1>1, <1>3, OpenFile DEF Named
  <2> QED BY <2>1, <2>2, <1>1, <1>4 DEF PullOK, HandleOK, WorkOK
<1>6. pull' = [p \in Pulls |-> pull[p]]
  BY <1>1
<1>7. dir' \in Directory /\ dir' \in onDisk' /\ onDisk' \subseteq Directory
  BY <1>1
<1> QED BY <1>1, <1>2, <1>3, <1>5, <1>6, <1>7, ComposedAll

LEMMA CrashKeeps == ASSUME PullInv, Crash PROVE PullInv'
<1> DEFINE Left(i) == IF i = None THEN {<<>>} ELSE Remains(i)
           q(p) == [Idle EXCEPT !.result = pull[p].result]
<1>1. PICK d \in onDisk : \E f \in Left(d.dest), g \in Left(d.partial) :
               /\ dir' = d /\ onDisk' = {d}
               /\ data' = [i \in Inodes |-> IF i = d.dest THEN f
                                            ELSE IF i = d.partial THEN g ELSE <<>>]
               /\ safe' = data'
  BY DEF Crash
<1>2. PICK f \in Left(d.dest), g \in Left(d.partial) :
               /\ dir' = d /\ onDisk' = {d}
               /\ data' = [i \in Inodes |-> IF i = d.dest THEN f
                                            ELSE IF i = d.partial THEN g ELSE <<>>]
               /\ safe' = data'
  BY <1>1
<1>3. /\ DirOK(onDisk, dir, data, safe) /\ onDisk \subseteq Directory
      /\ data \in [Inodes -> FilesUpTo] /\ safe \in [Inodes -> FilesUpTo]
      /\ d.dest # None => d.dest \in Inodes
      /\ d.partial # None => d.partial \in Inodes
  BY DirAlike, DirTypes DEF PullInv, TypeOK
<1>4. f \in FilesUpTo /\ g \in FilesUpTo
  BY <1>3, RemainsFacts, EmptyIsFile
<1>5. d.dest # None => f = data[d.dest]
  BY <1>3, RemainsFacts DEF DirOK
<1>6. data' \in [Inodes -> FilesUpTo] /\ safe' \in [Inodes -> FilesUpTo]
  BY <1>2, <1>4, EmptyIsFile
<1>7. DirOK(onDisk', dir', data', safe')
  BY <1>2, <1>3, <1>5 DEF DirOK
<1>8. /\ dir' \in Directory /\ dir' \in onDisk' /\ onDisk' \subseteq Directory
      /\ crashes' \in 0 .. MaxCrashes
  BY <1>2, <1>3, PullAssumption DEF Crash, PullInv, TypeOK, PullAssumption
<1>9. ASSUME NEW p \in Pulls PROVE PullOK(q(p), dir', data', safe')
  <2>1. pull[p].result \in {"none", "done", "failed"}
    BY DEF PullInv, TypeOK, Process
  <2> QED BY <2>1, IdleOK
<1>10. pull' = [p \in Pulls |-> q(p)]
  BY DEF Crash
<1> DEFINE ps == [p \in Pulls |-> q(p)]
<1>11. pull' = [p \in Pulls |-> ps[p]] /\ \A p \in Pulls : PullOK(ps[p], dir', data', safe')
  BY <1>9, <1>10
<1> QED BY <1>6, <1>7, <1>8, <1>11, ComposedAll

LEMMA PullInvInit == Init => PullInv
<1> SUFFICES ASSUME Init PROVE PullInv
  OBVIOUS
<1>1. PICK i \in Inodes, f \in Artifacts \cup {None} :
        /\ data = [j \in Inodes |-> IF j = i /\ f # None THEN f ELSE <<>>]
        /\ dir = [dest |-> IF f = None THEN None ELSE i, partial |-> None]
  BY DEF Init
<1>2. /\ safe = data /\ onDisk = {dir} /\ crashes = 0
      /\ pull = [p \in Pulls |-> Idle]
  BY DEF Init
<1>3. data \in [Inodes -> FilesUpTo]
  BY <1>1, EmptyIsFile, ArtifactFacts
<1>4. /\ dir \in Directory /\ dir.partial = None
      /\ dir.dest # None => dir.dest = i /\ f \in Artifacts /\ data[i] = f
  BY <1>1 DEF Directory
<1>5. DirOK(onDisk, dir, data, safe)
  BY <1>2, <1>4, PullAssumption DEF DirOK, PullAssumption
<1>6. PullOK(Idle, dir, data, safe)
  BY PullAssumption DEF PullOK, HandleOK, WorkOK, Idle, Process, Job, PullAssumption
<1>7. \A p \in Pulls : pull[p] = Idle
  BY <1>2
<1>8. TypeOK
  BY <1>2, <1>3, <1>4, <1>6, PullAssumption DEF TypeOK, PullOK, PullAssumption
<1>9. HandleInv /\ WorkInv
  BY <1>6, <1>7, HandlesAlike, WorkAlike DEF PullOK
<1> QED BY <1>5, <1>8, <1>9, DirAlike DEF PullInv

LEMMA PullInvNext == ASSUME Alone PROVE PullInv /\ [Next]_vars => PullInv'
<1> SUFFICES ASSUME PullInv, [Next]_vars PROVE PullInv'
  OBVIOUS
<1>1. ASSUME NEW p \in Pulls, Open(p) \/ Resolve(p) \/ PullFails(p) \/ Cancel(p) \/ Kill(p)
      PROVE  PullInv'
  BY <1>1, OpenKeeps, ResolveKeeps, PullFailsKeeps, CancelKeeps, KillKeeps
<1>2. ASSUME NEW p \in Pulls, Worker(p) PROVE PullInv'
  BY <1>2, TakeKeeps, VerifyKeeps DEF Worker
<1>3. ASSUME NEW p \in Pulls, Owner(p) PROVE PullInv'
  BY <1>3, SizeFileKeeps, GroupDoneKeeps, SyncKeeps, RenameKeeps, SyncDirKeeps,
     CommitFailsKeeps, CleanupKeeps DEF Owner
<1>4. ASSUME NEW p \in Pulls, NEW s \in Slots, WriteSome(p, s) \/ Landing(p, s) PROVE PullInv'
  BY <1>4, WriteSomeKeeps, PartLandsKeeps, PartFailsKeeps DEF Landing
<1>5. CASE UNCHANGED vars
  <2>1. TypeOK' /\ HandleInv' /\ WorkInv' /\ DirInv'
    BY <1>5, HandlesAlike, WorkAlike, DirAlike DEF vars, fileVars, PullInv, TypeOK
  <2> QED BY <2>1 DEF PullInv
<1> QED BY <1>1, <1>2, <1>3, <1>4, <1>5, WritebackKeeps, CrashKeeps DEF Next

THEOREM PullInvHolds == ASSUME Alone PROVE Spec => []PullInv
<1>1. PullInv /\ [Next]_vars => PullInv'
  BY PullInvNext
<1> QED BY <1>1, PullInvInit, PTL DEF Spec

-----------------------------------------------------------------------------
\* Pulls that run one at a time are of the declared types in every reachable
\* state, and an open pull has a file (CreateSink, Sink.Commit).
THEOREM TypeCorrect == ASSUME Alone PROVE Spec => []TypeOK
  BY PullInvHolds, PTL DEF PullInv

\* The destination is absent or a complete file, at every moment and after
\* every crash (Sink.Commit).
THEOREM Whole == ASSUME Alone PROVE Spec => []DestinationIsWhole
<1>1. PullInv => DestinationIsWhole
  BY DirAlike DEF PullInv, TypeOK, DirOK, DestinationIsWhole, Visible
<1> QED BY <1>1, PullInvHolds, PTL

\* A part that counts as placed is in the file, in this run or since an earlier
\* one (partFetcher.verify, fetchWorker).
THEOREM InPlace == ASSUME Alone PROVE Spec => []PlacedIsInPlace
<1>1. PullInv => PlacedIsInPlace
  BY DEF PullInv, WorkInv, PlacedIsInPlace
<1> QED BY <1>1, PullInvHolds, PTL

-----------------------------------------------------------------------------
(* A resume loses nothing. *)

\* What a step may not do to a part that the partial holds.
Preserved(a, s) == InPartial(a, s)' \/ (Visible' = a /\ dir'.partial = None)

LEMMA Untouched ==
    ASSUME TypeOK, NEW a, NEW s, InPartial(a, s), dir' \in onDisk',
           dir'.partial = dir.partial,
           data' = data \/ \E t \in [Inodes -> FilesUpTo] : FilesBecome(data, t)
    PROVE  InPartial(a, s)'
<1>1. dir.partial \in Inodes /\ Named(onDisk', pull', dir.partial) /\ data \in [Inodes -> FilesUpTo]
  BY DEF InPartial, TypeOK, Directory, Named
<1>2. data'[dir.partial] = data[dir.partial]
  BY <1>1, Kept
<1> QED BY <1>2 DEF InPartial

LEMMA StepPreserves ==
    ASSUME Alone, PullInv, NEW p \in Pulls, NEW a \in Artifacts, NEW s \in DOMAIN a,
           pull[p].resume, pull[p].art = a, InPartial(a, s),
           Open(p) \/ Resolve(p) \/ PullFails(p) \/ Worker(p) \/ Owner(p)
           \/ Cancel(p) \/ Kill(p) \/ \E t \in Slots : WriteSome(p, t) \/ Landing(p, t)
    PROVE  Preserved(a, s)
<1> DEFINE i == dir.partial
           q == pull[p]
<1>1. /\ PullOK(q, dir, data, safe) /\ dir \in onDisk
      /\ data \in [Inodes -> FilesUpTo] /\ safe \in [Inodes -> FilesUpTo]
      /\ TypeOK
  BY PullFacts DEF PullInv, TypeOK
<1>2. /\ i \in Inodes /\ Len(data[i]) = Len(a) /\ Matches(data[i], a, s)
      /\ Len(a) \in Nat /\ s \in 1 .. Len(a) /\ s \in Slots
  BY <1>1, ArtifactFacts, LongestArtifact DEF InPartial, TypeOK, Directory, Slots
<1>3. q.pc \notin {"idle", "resolve"}
  BY <1>1 DEF PullOK, HandleOK
<1>4. CASE UNCHANGED <<fileVars, dir, onDisk>>
  BY <1>1, <1>4, Untouched DEF Preserved, fileVars
<1>5. CASE SizeFile(p)
  <2>1. i = q.inode
    BY <1>1, <1>5 DEF SizeFile, At, PullOK, HandleOK
  <2>2. data'[i] = Resized(data[i], Len(a)) /\ dir' = dir
    BY <1>1, <1>2, <1>5, <2>1 DEF SizeFile
  <2>3. Resized(data[i], Len(a)) = data[i]
    BY <1>1, <1>2, ArtifactFacts, ResizedIsFile
  <2> QED BY <2>2, <2>3 DEF Preserved, InPartial
<1>6. ASSUME NEW t \in Slots, NEW c \in Bytes, q.pc = "fetching", t \in 1 .. Len(a),
             dir' = dir, data' = [data EXCEPT ![q.inode] = Written(@, t, c)],
             t = s => c = a[s]
      PROVE  Preserved(a, s)
  <2>1. i = q.inode /\ data[i] \in FilesUpTo
    BY <1>1, <1>2, <1>6 DEF PullOK, HandleOK
  <2>2. data'[i] = Written(data[i], t, c)
    BY <1>1, <1>2, <1>6, <2>1
  <2>3. t \in 1 .. Len(data[i])
    BY <1>2, <1>6
  <2>4. /\ Len(data'[i]) = Len(data[i])
        /\ \A u \in 1 .. Len(data[i]) : data'[i][u] = IF u = t THEN c ELSE data[i][u]
    <3> DEFINE f == data[i]
    <3>1. f \in FilesUpTo /\ t \in 1 .. Len(f) /\ c \in Bytes
      BY <2>1, <2>3
    <3> HIDE DEF f
    <3>2. /\ Len(Written(f, t, c)) = Len(f)
          /\ \A u \in 1 .. Len(f) : Written(f, t, c)[u] = IF u = t THEN c ELSE f[u]
      BY <3>1, WrittenInFile
    <3> QED BY <2>2, <3>2 DEF f
  <2>5. Len(data'[i]) = Len(a) /\ Matches(data'[i], a, s)
    BY <1>2, <1>6, <2>4 DEF Matches
  <2> QED BY <1>6, <2>5 DEF Preserved, InPartial
<1>7. ASSUME NEW t \in Slots, WriteSome(p, t) PROVE Preserved(a, s)
  <2>0. /\ q.pc = "fetching" /\ q.work[t] = "fetch" /\ t <= Len(a) /\ dir' = dir
        /\ data' = [data EXCEPT ![q.inode] = Written(@, t, Torn)]
    BY <1>7 DEF WriteSome, InPool, At
  <2>1. q.inode = i /\ t \in 1 .. Len(a)
    BY <1>1, <1>2, <2>0, LongestArtifact DEF PullOK, HandleOK, Slots
  <2>2. t # s
    BY <1>1, <1>2, <2>0, <2>1 DEF PullOK, WorkOK
  <2>3. Torn \in Bytes
    BY DEF Bytes
  <2> QED BY <2>0, <2>1, <2>2, <2>3, <1>6
<1>8. ASSUME NEW t \in Slots, PartLands(p, t) PROVE Preserved(a, s)
  <2>1. q.pc = "fetching" /\ dir' = dir
    BY <1>8 DEF PartLands, InPool, At
  <2>2. CASE t > Len(a)
    BY <1>1, <1>8, <2>1, <2>2, Untouched DEF PartLands, Preserved
  <2>3. CASE ~(t > Len(a))
    <3>1. t \in 1 .. Len(a)
      BY <1>2, <2>3, LongestArtifact DEF Slots
    <3>2. a[t] \in Bytes
      BY <3>1, WrongContents
    <3>3. data' = [data EXCEPT ![q.inode] = Written(@, t, a[t])]
      BY <1>8, <2>3 DEF PartLands
    <3> QED BY <2>1, <3>1, <3>2, <3>3, <1>6
  <2> QED BY <2>2, <2>3
<1>9. CASE Sync(p)
  <2> DEFINE z == [safe EXCEPT ![q.inode] = data[q.inode]]
  <2>1. q.inode \in Inodes
    BY <1>9, OpenFile DEF Sync, At
  <2>2. z \in [Inodes -> FilesUpTo]
    BY <1>1, <2>1
  <2>3. FilesBecome(data, z) /\ dir' = dir /\ onDisk' = onDisk
    BY <1>9 DEF Sync
  <2> HIDE DEF z
  <2> QED BY <1>1, <2>2, <2>3, Untouched DEF Preserved
<1>10. CASE Kill(p)
  <2>1. FilesBecome(data, safe) /\ dir' = dir /\ onDisk' = onDisk
    BY <1>10 DEF Kill
  <2> QED BY <1>1, <2>1, Untouched DEF Preserved
<1>11. CASE Cleanup(p)
  <2>1. q.inode = i /\ data[i] # <<>>
    BY <1>1, <1>2, <1>11, EmptyIsFile DEF Cleanup, At, PullOK, HandleOK
  <2>2. FilesBecome(data, safe) /\ dir' = dir /\ onDisk' = onDisk
    BY <1>11, <2>1 DEF Cleanup, HoldsNothing
  <2> QED BY <1>1, <2>2, Untouched DEF Preserved
<1>12. CASE Rename(p)
  <2>1. data[i] = a
    BY <1>1, <1>12 DEF Rename, At, PullOK, HandleOK
  <2>2. /\ dir' = [dest |-> i, partial |-> None] /\ onDisk' = onDisk \cup {dir'}
        /\ FilesBecome(data, safe)
    BY <1>12 DEF Rename, DirBecomes
  <2>3. dir'.dest = i /\ dir'.partial = None /\ dir' \in onDisk'
    BY <2>2
  <2>4. data'[i] = data[i]
    BY <1>1, <1>2, <2>2, <2>3, Kept DEF Named
  <2>5. i # None
    BY DEF InPartial
  <2> QED BY <2>1, <2>3, <2>4, <2>5 DEF Preserved, Visible
<1>13. ~SyncDir(p)
  BY <1>1 DEF SyncDir, At, PullOK, HandleOK, InPartial
<1>14. ~Open(p) /\ ~Resolve(p)
  BY <1>3 DEF Open, Resolve, At
<1>15. ASSUME NEW t \in Slots, PartFails(p, t) \/ Verify(p, t) PROVE Preserved(a, s)
  BY <1>4, <1>15 DEF PartFails, Verify
<1>16. CASE PullFails(p) \/ Cancel(p) \/ Take(p) \/ GroupDone(p) \/ CommitFails(p)
  BY <1>4, <1>16 DEF PullFails, Cancel, Take, GroupDone, CommitFails
<1> QED BY <1>5, <1>7, <1>8, <1>9, <1>10, <1>11, <1>12, <1>13, <1>14, <1>15, <1>16
        DEF Worker, Owner, Landing

\* What ResumeLosesNothing says of a step.
NothingLost == \A p \in Pulls : \A a \in Artifacts : \A s \in DOMAIN a :
    pull[p].resume /\ pull[p].art = a /\ InPartial(a, s) /\ crashes' = crashes =>
        InPartial(a, s)' \/ (Visible' = a /\ dir'.partial = None)

LEMMA StepLosesNothing ==
    ASSUME Alone, PullInv, [Next]_vars
    PROVE  NothingLost
<1> SUFFICES ASSUME NEW p \in Pulls, NEW a \in Artifacts, NEW s \in DOMAIN a,
                    pull[p].resume, pull[p].art = a, InPartial(a, s), crashes' = crashes
             PROVE  Preserved(a, s)
  BY DEF Preserved, NothingLost
<1>1. TypeOK /\ dir \in onDisk /\ safe \in [Inodes -> FilesUpTo]
  BY DEF PullInv, TypeOK
<1>2. CASE \E m \in Pulls :
             Open(m) \/ Resolve(m) \/ PullFails(m) \/ Worker(m) \/ Owner(m)
             \/ Cancel(m) \/ Kill(m) \/ \E t \in Slots : WriteSome(m, t) \/ Landing(m, t)
  BY <1>2, StepPreserves DEF Alone
<1>3. CASE Writeback
  <2>1. dir' = dir /\ onDisk' = {dir} /\ FilesBecome(data, safe)
    BY <1>3 DEF Writeback
  <2> QED BY <1>1, <2>1, Untouched DEF Preserved
<1>4. ~Crash
  <2>1. crashes \in Nat
    BY PullAssumption DEF PullInv, TypeOK, PullAssumption
  <2> QED BY <2>1 DEF Crash
<1>5. CASE UNCHANGED vars
  BY <1>1, <1>5, Untouched DEF Preserved, vars, fileVars
<1> QED BY <1>2, <1>3, <1>4, <1>5 DEF Next

\* A pull that resumes keeps every part an earlier run had in place, in the
\* partial or at the destination, unless the machine crashes (Size, verify,
\* discardEmptyPartial).
THEOREM LosesNothing == ASSUME Alone PROVE Spec => ResumeLosesNothing
<1>1. PullInv /\ [Next]_vars => NothingLost
  BY StepLosesNothing
<1> QED BY <1>1, PullInvHolds, PTL DEF Spec, ResumeLosesNothing, NothingLost

-----------------------------------------------------------------------------
(* Pull implements Destination. *)

\* What a crash may leave at the destination, and whether a pull has reported.
Survivors == UNION {IF d.dest = None THEN {None} ELSE Remains(d.dest) : d \in onDisk}
Told == \E p \in Pulls : pull[p].result = "done"

\* The same, when what a destination names is synced.
Found(d, da) == IF d.dest = None THEN None ELSE da[d.dest]
FoundIn(ds, da) == {Found(d, da) : d \in ds}

LEMMA SurvivorsAreFound == PullInv => Survivors = FoundIn(onDisk, data)
<1> SUFFICES ASSUME PullInv PROVE Survivors = FoundIn(onDisk, data)
  OBVIOUS
<1>1. ASSUME NEW d \in onDisk
      PROVE  (IF d.dest = None THEN {None} ELSE Remains(d.dest)) = {Found(d, data)}
  <2>1. DirOK(onDisk, dir, data, safe) /\ (d.dest # None => d.dest \in Inodes)
    BY DirAlike, DirTypes DEF PullInv
  <2>2. d.dest # None => data[d.dest] \in FilesUpTo /\ safe[d.dest] = data[d.dest]
    BY <2>1 DEF DirOK, PullInv, TypeOK
  <2> QED BY <2>1, <2>2, RemainsFacts DEF Found
<1> QED BY <1>1 DEF Survivors, FoundIn

LEMMA SurvivorsStayFound == PullInv' => Survivors' = FoundIn(onDisk', data')
<1>1. (PullInv => Survivors = FoundIn(onDisk, data))'
  BY SurvivorsAreFound, PTL
<1> QED BY <1>1

\* A step of Destination, said of what Pull shows of it.
DestStep(visible, survivors, told, seen, left, said) ==
    \/ seen \in Artifacts /\ left = survivors \cup {seen} /\ ~said
    \/ left = {visible} /\ seen = visible /\ said = told
    \/ visible # None /\ left = {visible} /\ said /\ seen = visible
    \/ ~said /\ seen = visible /\ left = survivors
    \/ seen \in survivors /\ left = {seen} /\ said \in {FALSE, told}
    \/ seen = visible /\ left = survivors /\ said = told

LEMMA DestStepMaps ==
    DestStep(Visible, Survivors, Told, Visible', Survivors', Told') =>
        [Promise!DestNext]_(Promise!destVars)
  BY DEF DestStep, Told, Survivors, Promise!DestNext, Promise!destVars,
         Promise!Publish, Promise!Settle, Promise!TellDone, Promise!Ask, Promise!Crash

\* What readers of the destination see of most steps is nothing.
LEMMA SameDest ==
    ASSUME PullInv, dir'.dest = dir.dest,
           onDisk' = onDisk \/ onDisk' = onDisk \cup {dir'},
           \/ data' = data
           \/ \E s \in [Inodes -> FilesUpTo] : FilesBecome(data, s)
           \/ \E f : data' = [data EXCEPT ![dir.partial] = f]
    PROVE  Visible' = Visible /\ FoundIn(onDisk', data') = FoundIn(onDisk, data)
<1>1. /\ dir \in onDisk /\ data \in [Inodes -> FilesUpTo]
      /\ DirOK(onDisk, dir, data, safe)
  BY DirAlike DEF PullInv, TypeOK
<1>2. ASSUME NEW d \in onDisk, d.dest # None PROVE data'[d.dest] = data[d.dest]
  <2>1. d.dest \in Inodes /\ d.dest # dir.partial /\ d \in onDisk'
    BY <1>1, <1>2, DirTypes DEF PullInv, DirOK
  <2>2. Named(onDisk', pull', d.dest)
    BY <2>1 DEF Named
  <2> QED BY <1>1, <2>1, <2>2, Kept
<1>3. \A d \in onDisk : Found(d, data') = Found(d, data)
  BY <1>2 DEF Found
<1>4. Found(dir', data') = Found(dir, data)
  BY <1>1, <1>3 DEF Found
<1>5. FoundIn(onDisk', data') = FoundIn(onDisk, data)
  BY <1>1, <1>3, <1>4 DEF FoundIn
<1> QED BY <1>4, <1>5 DEF Visible, Found

LEMMA Unreported ==
    ASSUME Alone, PullInv, NEW p \in Pulls, NEW q, pull' = [pull EXCEPT ![p] = q],
           q.result # "done"
    PROVE  ~Told'
  BY OthersAlike DEF Told

LEMMA PullStepMaps ==
    ASSUME Alone, PullInv, PullInv', NEW p \in Pulls,
           Open(p) \/ Resolve(p) \/ PullFails(p) \/ Worker(p) \/ Owner(p)
           \/ Cancel(p) \/ Kill(p) \/ \E t \in Slots : WriteSome(p, t) \/ Landing(p, t)
    PROVE  DestStep(Visible, Survivors, Told, Visible', Survivors', Told')
<1>1. /\ PullOK(pull[p], dir, data, safe) /\ dir \in onDisk /\ dir \in Directory
      /\ data \in [Inodes -> FilesUpTo] /\ safe \in [Inodes -> FilesUpTo]
      /\ pull \in [Pulls -> Process]
  BY PullFacts DEF PullInv, TypeOK
<1>2. Survivors = FoundIn(onDisk, data) /\ Survivors' = FoundIn(onDisk', data')
  BY SurvivorsAreFound, SurvivorsStayFound
<1>3. ASSUME ~Told', dir'.dest = dir.dest,
             onDisk' = onDisk \/ onDisk' = onDisk \cup {dir'},
             \/ data' = data
             \/ \E s \in [Inodes -> FilesUpTo] : FilesBecome(data, s)
             \/ \E f : data' = [data EXCEPT ![dir.partial] = f]
      PROVE  DestStep(Visible, Survivors, Told, Visible', Survivors', Told')
  <2>1. Visible' = Visible /\ Survivors' = Survivors
    BY <1>2, <1>3, SameDest
  <2> QED BY <2>1, <1>3 DEF DestStep
<1>4. pull[p].pc # "idle" => pull[p].result = "none"
  BY <1>1 DEF PullOK, HandleOK
<1>5. ASSUME pull'[p].result \in {"none", "failed"} PROVE ~Told'
  BY <1>5 DEF Told, Alone
<1>6. CASE Open(p)
  <2>1. PICK i \in Inodes :
          /\ \/ dir' = dir /\ onDisk' = onDisk
             \/ DirBecomes([dir EXCEPT !.partial = i])
          /\ pull' = [pull EXCEPT ![p] = [Idle EXCEPT !.pc = "resolve", !.inode = i]]
    BY <1>6 DEF Open
  <2>2. dir'.dest = dir.dest /\ (onDisk' = onDisk \/ onDisk' = onDisk \cup {dir'})
    BY <1>1, <2>1 DEF DirBecomes, Directory
  <2>3. pull'[p].result = "none"
    BY <1>1, <2>1 DEF Idle
  <2> QED BY <1>3, <1>5, <1>6, <2>2, <2>3 DEF Open, fileVars
<1>7. CASE /\ UNCHANGED <<fileVars, dir, onDisk>>
           /\ pull'[p].result \in {"none", "failed"}
  BY <1>3, <1>5, <1>7 DEF fileVars
<1>8. CASE Resolve(p) \/ PullFails(p) \/ Cancel(p) \/ Take(p) \/ GroupDone(p)
           \/ \E t \in Slots : Verify(p, t) \/ PartFails(p, t)
  <2>1. pull[p].pc # "idle" /\ UNCHANGED <<fileVars, dir, onDisk>>
    BY <1>8 DEF Resolve, PullFails, Cancel, Take, GroupDone, Verify, PartFails, At, InPool
  <2>2. CASE Resolve(p) \/ PullFails(p) \/ Cancel(p) \/ Take(p) \/ GroupDone(p)
    <3>1. pull'[p].result = pull[p].result
      <4>1. CASE Resolve(p)
        <5>1. PICK a, b : pull' = [pull EXCEPT ![p].pc = "size", ![p].art = a,
                                               ![p].resume = b]
          BY <4>1 DEF Resolve
        <5>2. pull'[p] = [pull[p] EXCEPT !.pc = "size", !.art = a, !.resume = b]
          BY <1>1, <5>1
        <5> QED BY <1>1, <5>2 DEF Process
      <4>2. CASE Take(p)
        BY <1>1, <4>2 DEF Take, Process
      <4>3. CASE PullFails(p) \/ Cancel(p) \/ GroupDone(p)
        BY <1>1, <4>3 DEF PullFails, Cancel, GroupDone, Goto, Process
      <4> QED BY <2>2, <4>1, <4>2, <4>3
    <3> QED BY <1>4, <1>7, <2>1, <3>1
  <2>3. ASSUME NEW t \in Slots, Verify(p, t) \/ PartFails(p, t)
        PROVE  DestStep(Visible, Survivors, Told, Visible', Survivors', Told')
    <3>1. pull'[p].result = pull[p].result
      BY <1>1, <2>3 DEF Verify, PartFails, Process
    <3> QED BY <1>4, <1>7, <2>1, <3>1
  <2> QED BY <1>8, <2>2, <2>3
<1>9. CASE CommitFails(p)
  <2>1. pull'[p].result = "failed" /\ UNCHANGED <<fileVars, dir, onDisk>>
    BY <1>1, <1>9 DEF CommitFails, Return, Idle
  <2> QED BY <1>7, <2>1
<1>10. CASE SizeFile(p) \/ \E t \in Slots : WriteSome(p, t) \/ PartLands(p, t)
  <2>1. /\ pull[p].pc \in {"size", "fetching"} /\ dir' = dir /\ onDisk' = onDisk
        /\ data' = data \/ \E f : data' = [data EXCEPT ![pull[p].inode] = f]
    BY <1>10 DEF SizeFile, WriteSome, PartLands, At, InPool
  <2>2. pull[p].inode = dir.partial
    BY <2>1, OpenFile
  <2>3. pull'[p].result = pull[p].result
    BY <1>1, <1>10 DEF SizeFile, WriteSome, PartLands, Process
  <2> QED BY <1>3, <1>4, <1>5, <2>1, <2>2, <2>3
<1>11. CASE Sync(p)
  <2> DEFINE s == [safe EXCEPT ![pull[p].inode] = data[pull[p].inode]]
  <2>1. pull[p].pc = "sync" /\ pull[p].inode \in Inodes
    BY <1>11, OpenFile DEF Sync, At
  <2>2. s \in [Inodes -> FilesUpTo]
    BY <1>1, <2>1
  <2>3. FilesBecome(data, s) /\ dir' = dir /\ onDisk' = onDisk
    BY <1>11 DEF Sync
  <2>4. pull'[p].result = pull[p].result
    BY <1>1, <1>11 DEF Sync, Process
  <2> HIDE DEF s
  <2> QED BY <1>3, <1>4, <1>5, <2>1, <2>2, <2>3, <2>4
<1>12. CASE Kill(p) \/ Cleanup(p)
  <2>1. /\ FilesBecome(data, safe)
        /\ \/ dir' = dir /\ onDisk' = onDisk
           \/ DirBecomes([dir EXCEPT !.partial = None])
    BY <1>12 DEF Kill, Cleanup
  <2>2. dir'.dest = dir.dest /\ (onDisk' = onDisk \/ onDisk' = onDisk \cup {dir'})
    BY <1>1, <2>1 DEF DirBecomes, Directory
  <2>3. pull'[p].result \in {"none", "failed"}
    BY <1>1, <1>12 DEF Kill, Cleanup, Return, Idle
  <2> QED BY <1>1, <1>3, <1>5, <2>1, <2>2, <2>3
<1>13. CASE Rename(p)
  <2> DEFINE i == dir.partial
  <2>1. /\ pull[p].pc = "rename" /\ i \in Inodes /\ i # None /\ data[i] \in Artifacts
    BY <1>1, <1>13 DEF Rename, At, PullOK, HandleOK, Process, Directory
  <2>2. /\ dir' = [dest |-> i, partial |-> None] /\ onDisk' = onDisk \cup {dir'}
        /\ FilesBecome(data, safe)
    BY <1>13 DEF Rename, DirBecomes
  <2>3. dir'.dest = i /\ dir' \in onDisk'
    BY <2>2
  <2>4. \A d \in onDisk : d.dest # None => data'[d.dest] = data[d.dest]
    BY <1>1, <2>2, Kept, DirTypes DEF Named, PullInv
  <2>5. data'[i] = data[i]
    BY <1>1, <2>1, <2>2, <2>3, Kept DEF Named
  <2>6. Found(dir', data') = data[i] /\ Visible' = data[i]
    BY <2>1, <2>3, <2>5 DEF Found, Visible
  <2>7. \A d \in onDisk : Found(d, data') = Found(d, data)
    BY <2>4 DEF Found
  <2>8. FoundIn(onDisk', data') = FoundIn(onDisk, data) \cup {data[i]}
    BY <2>2, <2>6, <2>7 DEF FoundIn
  <2>9. pull'[p].result = pull[p].result
    BY <1>1, <1>13 DEF Rename, Goto, Process
  <2>10. ~Told'
    BY <1>4, <1>5, <2>1, <2>9
  <2> QED BY <1>2, <2>1, <2>6, <2>8, <2>10 DEF DestStep
<1>14. CASE SyncDir(p)
  <2>1. /\ dir.dest # None /\ onDisk' = {dir} /\ dir' = dir /\ FilesBecome(data, safe)
        /\ pull'[p].result = "done"
    BY <1>1, <1>14 DEF SyncDir, At, PullOK, HandleOK, Return, Idle
  <2>2. dir.dest \in Inodes /\ Named(onDisk', pull', dir.dest)
    BY <1>1, <2>1 DEF Directory, Named
  <2>3. data'[dir.dest] = data[dir.dest] /\ data[dir.dest] \in Artifacts
    BY <1>1, <2>1, <2>2, Kept, DirAlike DEF PullInv, DirOK
  <2>4. Visible' = Visible /\ Visible # None
    BY <2>1, <2>3, ArtifactFacts DEF Visible
  <2>5. FoundIn(onDisk', data') = {Visible}
    BY <2>1, <2>3 DEF FoundIn, Found, Visible
  <2>6. Told'
    BY <2>1 DEF Told
  <2> QED BY <1>2, <2>4, <2>5, <2>6 DEF DestStep
<1> QED BY <1>6, <1>8, <1>9, <1>10, <1>11, <1>12, <1>13, <1>14 DEF Worker, Owner, Landing

LEMMA MachineMaps ==
    ASSUME PullInv, PullInv', Writeback \/ Crash \/ UNCHANGED vars
    PROVE  DestStep(Visible, Survivors, Told, Visible', Survivors', Told')
<1>1. /\ dir \in onDisk /\ onDisk \subseteq Directory
      /\ data \in [Inodes -> FilesUpTo] /\ safe \in [Inodes -> FilesUpTo]
      /\ pull \in [Pulls -> Process]
  BY DEF PullInv, TypeOK
<1>2. Survivors = FoundIn(onDisk, data) /\ Survivors' = FoundIn(onDisk', data')
  BY SurvivorsAreFound, SurvivorsStayFound
<1>3. CASE Writeback
  <2>1. /\ onDisk' = {dir} /\ dir' = dir /\ FilesBecome(data, safe) /\ pull' = pull
    BY <1>3 DEF Writeback
  <2>2. dir.dest # None => data'[dir.dest] = data[dir.dest]
    BY <1>1, <2>1, Kept, DirTypes DEF Named, PullInv
  <2>3. Visible' = Visible /\ FoundIn(onDisk', data') = {Visible}
    BY <2>1, <2>2 DEF FoundIn, Found, Visible
  <2>4. Told' = Told
    BY <2>1 DEF Told
  <2> QED BY <1>2, <2>3, <2>4 DEF DestStep
<1>4. CASE Crash
  <2>1. PICK d \in onDisk : \E f \in (IF d.dest = None THEN {<<>>} ELSE Remains(d.dest)) :
               /\ dir' = d /\ onDisk' = {d}
               /\ \A i \in Inodes : i = d.dest => data'[i] = f
    BY <1>4 DEF Crash
  <2>2. PICK f \in (IF d.dest = None THEN {<<>>} ELSE Remains(d.dest)) :
               /\ dir' = d /\ onDisk' = {d}
               /\ \A i \in Inodes : i = d.dest => data'[i] = f
    BY <2>1
  <2>3. d.dest # None => d.dest \in Inodes
    BY DirTypes DEF PullInv
  <2>4. Visible' = IF d.dest = None THEN None ELSE f
    BY <2>2, <2>3 DEF Visible
  <2>5. Visible' \in Survivors
    BY <2>2, <2>4 DEF Survivors
  <2>6. FoundIn(onDisk', data') = {Visible'}
    BY <2>2, <2>3, <2>4 DEF FoundIn, Found
  <2>7. Told' = Told
    <3>1. \A p \in Pulls : pull'[p].result = pull[p].result
      BY <1>1, <1>4 DEF Crash, Idle
    <3> QED BY <3>1 DEF Told
  <2>8. Told \in BOOLEAN
    BY DEF Told
  <2> QED BY <1>2, <2>5, <2>6, <2>7, <2>8 DEF DestStep
<1>5. CASE UNCHANGED vars
  <2>1. Visible' = Visible /\ Told' = Told /\ FoundIn(onDisk', data') = FoundIn(onDisk, data)
    BY <1>5 DEF vars, fileVars, Visible, Told, FoundIn, Found
  <2> QED BY <1>2, <2>1 DEF DestStep
<1> QED BY <1>3, <1>4, <1>5

LEMMA FirstPromise ==
    ASSUME PullInv, onDisk = {dir}, pull = [p \in Pulls |-> Idle]
    PROVE  Promise!DestInit
<1>1. Survivors = {Visible}
  BY SurvivorsAreFound DEF FoundIn, Found, Visible
<1>2. Told = FALSE
  BY DEF Told, Idle
<1>3. Visible \in Artifacts \cup {None}
  BY DirAlike DEF PullInv, TypeOK, DirOK, Visible
<1> QED BY <1>1, <1>2, <1>3 DEF Survivors, Told, Promise!DestInit

LEMMA PromiseKept ==
    ASSUME Alone, PullInv, PullInv', [Next]_vars
    PROVE  [Promise!DestNext]_(Promise!destVars)
<1> SUFFICES DestStep(Visible, Survivors, Told, Visible', Survivors', Told')
  BY DestStepMaps
<1>1. CASE Writeback \/ Crash \/ UNCHANGED vars
  BY <1>1, MachineMaps
<1>2. CASE \E p \in Pulls :
             Open(p) \/ Resolve(p) \/ PullFails(p) \/ Worker(p) \/ Owner(p)
             \/ Cancel(p) \/ Kill(p) \/ \E t \in Slots : WriteSome(p, t) \/ Landing(p, t)
  BY <1>2, PullStepMaps
<1> QED BY <1>1, <1>2 DEF Next

\* A pull does to the destination what Destination allows, crashes of the
\* machine included: one whole file replaces another in one step, and a file
\* that was reported survives (Sink.Commit: fsync, rename, directory fsync).
THEOREM Implements == ASSUME Alone PROVE Spec => DestinationKept
<1>1. PullInv /\ PullInv' /\ [Next]_vars => [Promise!DestNext]_(Promise!destVars)
  BY PromiseKept
<1>2. Init => Promise!DestInit
  BY PullInvInit, FirstPromise DEF Init
<1> QED BY <1>1, <1>2, PullInvHolds, PTL DEF Spec, DestinationKept, Promise!DestSpec
=============================================================================
