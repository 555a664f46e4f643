----------------------------- MODULE PushProofs -----------------------------
(***************************************************************************)
(* For every file, pool, retry budget and set of contents: a push keeps    *)
(* PushInv, so its manifest is whole, its blobs match their digests, and   *)
(* each digest has one uploader; with TailInv, it implements Publication   *)
(* and its account only grows; with PlacesInv and PaidInv, its ledger      *)
(* balances and every credit is earned.                                    *)
(***************************************************************************)
EXTENDS Push, PlanProofs, FiniteSetTheorems

LEMMA PlanFacts == NumParts \in Nat \ {0} /\ \A i \in Parts : PartLength(i) \in Nat
<1>1. FileSize \in Sizes /\ PartSize \in Sizes \ {0}
  BY PushAssumption, PlanAssumption DEF Sizes
<1>2. NumParts = CountParts(FileSize, PartSize) /\ NumParts \in Nat \ {0}
  BY <1>1, PushAssumption, PlanHasParts, PlanAssumption DEF NumParts
<1>3. ASSUME NEW i \in Parts PROVE PartLength(i) \in Nat
  <2>1. PartAt(FileSize, PartSize, i).size \in 0 .. PartSize
    BY <1>1, <1>2, PartInFile DEF Parts
  <2> QED
    BY <2>1, PushAssumption DEF PartLength
<1> QED
  BY <1>2, <1>3

LEMMA InitKeepsInv == Init => PushInv
<1> SUFFICES ASSUME Init PROVE PushInv
  OBVIOUS
<1>1. TypeOK
  <2>1. act \in [Actors -> Actor]
    BY PlanFacts, PushAssumption DEF Init, Actor, Actors, Fresh, Parts
  <2>2. stored \in [Blobs -> Blobs \cup {None}]
    BY DEF Init
  <2>3. claims \in [Contents -> Claim]
    BY DEF Init, Claim
  <2>4. snap \in Snapshot
    BY DEF Init, Snapshot
  <2>5. source \in [Parts -> Contents \cup {None}] /\ recorded \in [Parts -> Contents \cup {None}]
    <3> HIDE DEF Parts
    <3> QED
      BY DEF Init
  <2>6. edits \in 0 .. MaxEdits /\ hashed \in 0 .. NumParts /\ taken \in 0 .. NumParts
    BY PlanFacts, PushAssumption DEF Init
  <2> QED
    BY <2>1, <2>2, <2>3, <2>4, <2>5, <2>6 DEF Init, TypeOK
<1>2. PassInv /\ PlaceInv
  BY PlanFacts, PushAssumption DEF Init, PassInv, PlaceInv, Fresh, Actors, Parts
<1>3. SleepInv /\ PlacedInv /\ ClaimInv /\ LeavingInv
  BY PlanFacts, PushAssumption
     DEF SleepInv, Init, PlacedInv, ClaimInv, LeavingInv, Fresh, Actors, Parts, At
<1>4. StoredMatchesDigest /\ OneUploaderPerDigest /\ ManifestIsWhole
  BY PushAssumption
     DEF Init, StoredMatchesDigest, OneUploaderPerDigest, ManifestIsWhole,
         Uploading, Fresh, Actors
<1> QED
  BY <1>1, <1>2, <1>3, <1>4 DEF PushInv

-----------------------------------------------------------------------------
(* Steps that move one goroutine and leave pass, claims and registry alone. *)

\* A worker that is uploading stays in its unit of work or leaves with the
\* group's error.
LEMMA WorkerStep ==
  ASSUME PushInv, TypeOK',
         NEW w \in Workers, Uploading(w),
         UNCHANGED <<passVars, taken, claims, registryVars>>,
         act' = [act EXCEPT ![w] = act'[w]],
         act'[w].unit = "part", act'[w].part = act[w].part,
         groupErr => groupErr',
         act'[w].pc = "sleep" => act'[w].attempt < MaxAttempts,
         \/ act'[w].pc \in {"begin", "exists", "put", "sleep"} /\ groupErr' = groupErr
         \/ act'[w].pc \in {"landed", "settle"} /\ stored[Blob(w)] # None /\ groupErr' = groupErr
         \/ act'[w].pc = "left" /\ groupErr'
  PROVE  PushInv'
<1> USE DEF PushInv
<1>1. PassInv'
  BY DEF PassInv, passVars
<1>2. /\ act[w].part < taken /\ Blob(w)' = Blob(w)
      /\ \A v \in Actors \ {w} : act'[v] = act[v] /\ Blob(v)' = Blob(v)
  BY DEF TypeOK, PlaceInv, Uploading, Blob, passVars, Actors
<1>3. w \in Actors /\ w # Main /\ Main \in Actors
  BY PushAssumption DEF Actors
<1>4. PlaceInv'
  BY <1>2, <1>3 DEF PlaceInv, Actors
<1>5. PlacedInv'
  BY <1>2, <1>3 DEF PlacedInv, Actors, registryVars
<1>6. ClaimInv'
  BY <1>2, <1>3 DEF ClaimInv, Actors, Uploading, passVars
<1>7. LeavingInv'
  BY <1>2, <1>3 DEF LeavingInv, Actors, At, Uploading, PoolEnded, Closed, passVars
<1>8. OneUploaderPerDigest'
  BY <1>2, <1>3 DEF OneUploaderPerDigest, Actors, Uploading
<1>9. StoredMatchesDigest' /\ ManifestIsWhole'
  BY DEF StoredMatchesDigest, ManifestIsWhole, registryVars
<1>10. SleepInv'
  BY <1>2, <1>3 DEF SleepInv, At
<1> QED
  BY <1>10, <1>1, <1>4, <1>5, <1>6, <1>7, <1>8, <1>9

\* Main moves on in the tail, or leaves.
LEMMA MainStep ==
  ASSUME PushInv, TypeOK',
         UNCHANGED <<passVars, taken, claims, registryVars, groupErr>>,
         act' = [act EXCEPT ![Main] = act'[Main]],
         act'[Main].unit \in {"config", "manifest"},
         act'[Main].pc \in {"begin", "exists", "put", "landed", "sleep", "left"},
         act'[Main].pc = "sleep" => act'[Main].attempt < MaxAttempts,
         act'[Main].pc # "left" => PoolEnded /\ ~groupErr,
         act'[Main].unit = "manifest" => stored[EmptyConfig] # None,
         act'[Main].unit = "config" /\ act'[Main].pc = "landed" => stored[EmptyConfig] # None
  PROVE  PushInv'
<1> USE DEF PushInv
<1>1. PassInv'
  BY DEF PassInv, passVars
<1>2. /\ \A w \in Workers : w # Main /\ w \in Actors /\ act'[w] = act[w]
      /\ \A w \in Workers : Blob(w)' = Blob(w) /\ Uploading(w)' = Uploading(w)
  BY PushAssumption DEF TypeOK, Blob, passVars, Actors, Uploading
<1>3. PlaceInv' /\ PlacedInv'
  BY <1>2 DEF PlaceInv, PlacedInv, Actors, registryVars
<1>4. ClaimInv'
  BY <1>2 DEF ClaimInv, passVars
<1>5. LeavingInv'
  BY <1>2 DEF LeavingInv, At, PoolEnded, Closed, passVars
<1>6. OneUploaderPerDigest'
  BY <1>2 DEF OneUploaderPerDigest
<1>7. StoredMatchesDigest' /\ ManifestIsWhole'
  BY DEF StoredMatchesDigest, ManifestIsWhole, registryVars
<1>8. SleepInv'
  BY <1>2 DEF SleepInv, At, Actors
<1> QED
  BY <1>8, <1>1, <1>3, <1>4, <1>5, <1>6, <1>7

-----------------------------------------------------------------------------
(* Requests and budgets. *)

\* However an attempt fails, its goroutine sleeps or leaves, and a worker
\* that leaves takes the group with it.
LEMMA Failure ==
  ASSUME TypeOK, NEW a \in Actors, NEW t \in BOOLEAN, AttemptFails(a, t)
  PROVE  /\ act' = [act EXCEPT ![a] = act'[a]] /\ act'[a] \in Actor
         /\ act'[a].unit = act[a].unit /\ act'[a].part = act[a].part
         /\ snap' \in Snapshot /\ groupErr' \in BOOLEAN
         /\ groupErr => groupErr'
         /\ act'[a].pc = "sleep" => act'[a].attempt < MaxAttempts
         /\ \/ act'[a].pc = "sleep" /\ groupErr' = groupErr
            \/ act'[a].pc = "left" /\ (a # Main => groupErr') /\ (a = Main => groupErr' = groupErr)
<1>1. act \in [Actors -> Actor] /\ snap \in Snapshot /\ groupErr \in BOOLEAN
  BY DEF TypeOK
<1>2. CASE act[a].attempt < MaxAttempts /\ Goto(a, "sleep") /\ UNCHANGED <<groupErr, snap>>
  BY <1>1, <1>2 DEF Goto, Actor
<1>3. CASE ReturnError(a)
  <2>1. act' = [act EXCEPT ![a].pc = "left"]
    BY <1>3 DEF ReturnError, Goto
  <2>2. act'[a].pc = "left" /\ act' = [act EXCEPT ![a] = act'[a]] /\ act'[a] \in Actor
        /\ act'[a].unit = act[a].unit /\ act'[a].part = act[a].part
    BY <1>1, <2>1 DEF Actor
  <2>3. CASE a = Main
    BY <1>1, <1>3, <2>2, <2>3 DEF ReturnError, Snapshot
  <2>4. CASE a # Main
    BY <1>1, <1>3, <2>2, <2>4 DEF ReturnError, Snapshot
  <2> QED
    BY <2>3, <2>4
<1> QED
  BY <1>2, <1>3 DEF AttemptFails

\* A type-correct change of one goroutine, group error and snapshot.
LEMMA TypeStep ==
  ASSUME TypeOK, NEW a \in Actors,
         UNCHANGED <<envVars, passVars, taken, claims, registryVars, credited>>,
         act' = [act EXCEPT ![a] = act'[a]], act'[a] \in Actor,
         snap' \in Snapshot, groupErr' \in BOOLEAN
  PROVE  TypeOK'
BY DEF TypeOK, envVars, passVars, registryVars

\* A failed attempt keeps the invariant, whoever made it.
LEMMA FailureKeepsInv ==
  ASSUME PushInv, NEW a \in Actors, NEW t \in BOOLEAN, AttemptFails(a, t),
         a \in Workers => Uploading(a),
         a = Main => act[Main].pc \notin {"wait", "left"},
         UNCHANGED <<envVars, passVars, taken, claims, registryVars, credited>>
  PROVE  PushInv'
<1>1. TypeOK'
  BY Failure, TypeStep DEF PushInv
<1>2. CASE a = Main
  <2>1. act'[Main].pc \in {"sleep", "left"} /\ groupErr' = groupErr
        /\ (act'[Main].pc = "sleep" => act'[Main].attempt < MaxAttempts)
        /\ act'[Main].unit = act[Main].unit /\ act' = [act EXCEPT ![Main] = act'[Main]]
    BY <1>2, Failure DEF PushInv
  <2>2. PoolEnded /\ ~groupErr
    BY <1>2 DEF PushInv, LeavingInv
  <2>3. /\ act[Main].unit \in {"config", "manifest"}
        /\ act[Main].unit = "manifest" => stored[EmptyConfig] # None
    BY DEF PushInv, PlaceInv, PlacedInv
  <2> QED
    BY <1>1, <2>1, <2>2, <2>3, MainStep
<1>3. CASE a \in Workers
  <2>1. a # Main /\ act[a].unit = "part" /\ Uploading(a)
    BY <1>3, PushAssumption DEF PushInv, PlaceInv
  <2>2. /\ act' = [act EXCEPT ![a] = act'[a]]
        /\ act'[a].unit = "part" /\ act'[a].part = act[a].part
        /\ groupErr => groupErr'
        /\ act'[a].pc = "sleep" => act'[a].attempt < MaxAttempts
        /\ \/ act'[a].pc = "sleep" /\ groupErr' = groupErr
           \/ act'[a].pc = "left" /\ groupErr'
    BY <2>1, Failure DEF PushInv
  <2> QED
    BY <1>1, <1>3, <2>1, <2>2, WorkerStep
<1> QED
  BY <1>2, <1>3 DEF Actors

\* Only an actor with a request or a budget is in one of these places.
LEMMA AtWork ==
  ASSUME PushInv, NEW a \in Actors,
         act[a].pc \in {"begin", "exists", "put", "landed", "sleep"}
  PROVE  /\ a \in Workers => a # Main /\ Uploading(a) /\ act[a].unit = "part" /\ act[a].part < taken
                              /\ Blob(a) \in Contents
         /\ a = Main => act[Main].pc \notin {"wait", "left"} /\ PoolEnded /\ ~groupErr
                        /\ act[a].unit \in {"config", "manifest"} /\ Blob(a) = EmptyConfig
         /\ act[a] \in Actor
<1>1. act[a] \in Actor
  BY DEF PushInv, TypeOK
<1>2. ASSUME a \in Workers
      PROVE  a # Main /\ Uploading(a) /\ act[a].unit = "part" /\ act[a].part < taken
             /\ Blob(a) \in Contents
  <2>1. a # Main /\ Uploading(a) /\ act[a].unit = "part" /\ act[a].part < taken
    BY <1>2, PushAssumption DEF PushInv, PlaceInv, Uploading
  <2>2. act[a].part \in Parts /\ act[a].part < hashed
    BY <1>1, <2>1, PlanFacts DEF PushInv, PassInv, TypeOK, Actor, Parts
  <2> QED
    BY <2>1, <2>2 DEF PushInv, PassInv, Blob
<1>3. ASSUME a = Main
      PROVE  act[Main].pc \notin {"wait", "left"} /\ PoolEnded /\ ~groupErr
             /\ act[a].unit \in {"config", "manifest"} /\ Blob(a) = EmptyConfig
  BY <1>3 DEF PushInv, PlaceInv, LeavingInv, Blob
<1> QED
  BY <1>1, <1>2, <1>3

LEMMA BeginKeepsInv ==
  ASSUME PushInv, NEW a \in Actors, Begin(a)
  PROVE  PushInv'
<1> USE AtWork DEF Begin, At
<1>1. CASE CtxDone
  <2>1. AttemptFails(a, FALSE)
    BY <1>1 DEF AttemptFails
  <2> QED
    BY <2>1, FailureKeepsInv DEF Actors
<1>2. CASE ~CtxDone
  <2> DEFINE pc == IF act[a].unit = "manifest" THEN "put" ELSE "exists"
  <2>1. act' = [act EXCEPT ![a].pc = pc] /\ UNCHANGED <<groupErr, snap>>
    BY <1>2 DEF Goto
  <2>2. /\ act' = [act EXCEPT ![a] = act'[a]] /\ act'[a] \in Actor /\ act'[a].pc = pc
        /\ act'[a].unit = act[a].unit /\ act'[a].part = act[a].part
    BY <2>1 DEF PushInv, TypeOK, Actor
  <2>3. TypeOK'
    BY <2>1, <2>2, TypeStep DEF PushInv, TypeOK
  <2>4. CASE a \in Workers
    <3>1. Uploading(a) /\ act'[a].unit = "part" /\ act'[a].pc = "exists"
      BY <2>2, <2>4
    <3> QED
      BY <2>1, <2>2, <2>3, <2>4, <3>1, WorkerStep
  <2>5. CASE a = Main
    BY <2>1, <2>2, <2>3, <2>5, MainStep DEF PushInv, PlacedInv
  <2> QED
    BY <2>4, <2>5 DEF Actors
<1> QED
  BY <1>1, <1>2

LEMMA WakeKeepsInv ==
  ASSUME PushInv, NEW a \in Actors, Wake(a)
  PROVE  PushInv'
<1> USE AtWork DEF Wake, At
<1>1. CASE CtxDone
  <2>1. AttemptFails(a, FALSE)
    BY <1>1 DEF AttemptFails
  <2> QED
    BY <2>1, FailureKeepsInv DEF Actors
<1>2. CASE ~CtxDone
  <2>1. /\ act' = [act EXCEPT ![a].pc = "begin", ![a].attempt = @ + 1]
        /\ UNCHANGED <<groupErr, snap>>
    BY <1>2
  <2>2. act[a].attempt < MaxAttempts
    BY DEF PushInv, SleepInv
  <2>3. /\ act' = [act EXCEPT ![a] = act'[a]] /\ act'[a].pc = "begin"
        /\ act'[a].unit = act[a].unit /\ act'[a].part = act[a].part
        /\ act'[a].attempt = act[a].attempt + 1 /\ act'[a].owed = act[a].owed
        /\ act'[a].uploaded = act[a].uploaded
    BY <2>1 DEF PushInv, TypeOK, Actor
  <2>4. act'[a] \in Actor
    BY <2>1, <2>2, PushAssumption DEF PushInv, TypeOK, Actor
  <2>5. TypeOK'
    BY <2>1, <2>3, <2>4, TypeStep DEF PushInv, TypeOK
  <2>6. CASE a \in Workers
    BY <2>1, <2>3, <2>5, <2>6, WorkerStep
  <2>7. CASE a = Main
    BY <2>1, <2>3, <2>5, <2>7, MainStep DEF PushInv, PlacedInv
  <2> QED
    BY <2>6, <2>7 DEF Actors
<1> QED
  BY <1>1, <1>2

LEMMA ExistsMissingKeepsInv ==
  ASSUME PushInv, NEW a \in Actors, ExistsMissing(a)
  PROVE  PushInv'
<1> USE AtWork DEF ExistsMissing, At
<1>1. /\ act' = [act EXCEPT ![a] = act'[a]] /\ act'[a] \in Actor /\ act'[a].pc = "put"
      /\ act'[a].unit = act[a].unit /\ act'[a].part = act[a].part
  BY DEF PushInv, TypeOK, Actor
<1>2. TypeOK' /\ UNCHANGED <<passVars, taken, claims, registryVars, groupErr, snap>>
      /\ act[a].pc = "exists"
  BY <1>1, TypeStep DEF PushInv, TypeOK, reportVars
<1> HIDE DEF ExistsMissing
<1>3. CASE a \in Workers
  <2>1. Uploading(a) /\ act'[a].unit = "part" /\ act'[a].pc = "put"
    BY <1>1, <1>2, <1>3
  <2> QED
    BY <1>1, <1>2, <1>3, <2>1, WorkerStep
<1>4. CASE a = Main
  BY <1>1, <1>2, <1>4, MainStep DEF PushInv, PlacedInv
<1> QED
  BY <1>3, <1>4 DEF Actors

\* A unit ends well only over a blob that is there.
LEMMA UnitDoneKeepsInv ==
  ASSUME PushInv, NEW a \in Actors, UnitDone(a),
         act[a].pc \in {"exists", "landed"},
         act[a].unit # "manifest" => stored[Blob(a)] # None,
         UNCHANGED <<envVars, passVars, taken, claims, groupErr, registryVars, credited>>
  PROVE  PushInv'
<1> USE AtWork
<1>1. CASE act[a].unit = "part"
  <2>1. act' = [act EXCEPT ![a].pc = "settle"] /\ snap' = snap
    BY <1>1 DEF UnitDone, Goto
  <2>2. /\ act' = [act EXCEPT ![a] = act'[a]] /\ act'[a] \in Actor /\ act'[a].pc = "settle"
        /\ act'[a].unit = act[a].unit /\ act'[a].part = act[a].part
    BY <2>1 DEF PushInv, TypeOK, Actor
  <2>3. TypeOK'
    BY <2>1, <2>2, TypeStep DEF PushInv, TypeOK
  <2>4. a \in Workers
    BY <1>1 DEF Actors
  <2> QED
    BY <1>1, <2>2, <2>3, <2>4, WorkerStep
<1>2. CASE act[a].unit = "config"
  <2>1. act' = [act EXCEPT ![a] = Fresh("manifest", "begin")] /\ snap' = snap
    BY <1>2 DEF UnitDone
  <2>2. act' = [act EXCEPT ![a] = act'[a]] /\ act'[a] = Fresh("manifest", "begin")
    BY <2>1 DEF PushInv, TypeOK
  <2>3. Fresh("manifest", "begin") \in Actor
    BY PlanFacts, PushAssumption DEF Fresh, Actor, Parts
  <2>4. TypeOK'
    BY <2>1, <2>2, <2>3, TypeStep DEF PushInv, TypeOK
  <2>5. a = Main /\ stored[EmptyConfig] # None
    BY <1>2 DEF Actors
  <2> QED
    BY <2>2, <2>4, <2>5, MainStep DEF Fresh
<1>3. CASE act[a].unit = "manifest"
  <2>1. act' = [act EXCEPT ![a].pc = "left"] /\ snap' = [snap EXCEPT !.phase = "done"]
    BY <1>3 DEF UnitDone, Goto
  <2>2. /\ act' = [act EXCEPT ![a] = act'[a]] /\ act'[a] \in Actor /\ act'[a].pc = "left"
        /\ act'[a].unit = act[a].unit
    BY <2>1 DEF PushInv, TypeOK, Actor
  <2>3. TypeOK'
    BY <2>1, <2>2, TypeStep DEF PushInv, TypeOK, Snapshot
  <2>4. a = Main
    BY <1>3 DEF Actors
  <2> QED
    BY <1>3, <2>2, <2>3, <2>4, MainStep DEF PushInv, PlacedInv
<1> QED
  BY <1>1, <1>2, <1>3 DEF UnitDone

LEMMA AnswersKeepInv ==
  ASSUME PushInv, NEW a \in Actors, ExistsFound(a) \/ PutAnswered(a)
  PROVE  PushInv'
<1>1. CASE ExistsFound(a)
  BY <1>1, UnitDoneKeepsInv DEF ExistsFound, At
<1>2. CASE PutAnswered(a)
  <2>1. act[a].unit # "manifest" => stored[Blob(a)] # None
    BY <1>2, AtWork DEF PutAnswered, At, PushInv, PlacedInv, Actors
  <2> QED
    BY <1>2, <2>1, UnitDoneKeepsInv DEF PutAnswered, At
<1> QED
  BY <1>1, <1>2

LEMMA FailuresKeepInv ==
  ASSUME PushInv, NEW a \in Actors, RequestFails(a) \/ PutSourceChanged(a)
  PROVE  PushInv'
<1>1. act[a].pc \in {"exists", "put", "landed"}
      /\ \E t \in BOOLEAN : AttemptFails(a, t)
      /\ UNCHANGED <<envVars, passVars, taken, claims, registryVars, credited>>
  BY DEF RequestFails, PutSourceChanged, At
<1> QED
  BY <1>1, AtWork, FailureKeepsInv

\* The body that lands is the one its digest names, and a manifest lands only
\* over a group that ended well, so over claims that have all settled.
LEMMA PutLandsKeepsInv ==
  ASSUME PushInv, NEW a \in Actors, PutLands(a)
  PROVE  PushInv'
<1>1. /\ act[a].pc = "put" /\ BodyVerified(a)
      /\ UNCHANGED <<envVars, passVars, taken, claims, groupErr, credited, snap>>
      /\ act' = [act EXCEPT ![a].pc = "landed"]
  BY DEF PutLands, At, Goto, reportVars
<1>2. /\ act' = [act EXCEPT ![a] = act'[a]] /\ act'[a] \in Actor /\ act'[a].pc = "landed"
      /\ act'[a].unit = act[a].unit /\ act'[a].part = act[a].part
  BY <1>1 DEF PushInv, TypeOK, Actor
<1>3. \A v \in Actors : Blob(v)' = Blob(v) /\ (v # a => act'[v] = act[v])
  BY <1>1, <1>2 DEF Blob, passVars, PushInv, TypeOK
<1>4. PassInv' /\ PlaceInv' /\ SleepInv'
  BY <1>1, <1>2, <1>3, AtWork DEF PushInv, PassInv, PlaceInv, SleepInv, At, passVars, Actors
<1>5. ClaimInv' /\ OneUploaderPerDigest'
  BY <1>1, <1>2, <1>3, AtWork DEF PushInv, ClaimInv, OneUploaderPerDigest, Uploading, passVars, Actors
<1>6. LeavingInv'
  BY <1>1, <1>2, <1>3, AtWork DEF PushInv, LeavingInv, At, PoolEnded, Closed, passVars, Actors
<1>7. CASE act[a].unit \in {"part", "config"}
  <2> DEFINE b == Blob(a)
  <2>1. b \in Blobs /\ b # None
    BY <1>1, <1>7, AtWork, PushAssumption DEF Actors, Blobs
  <2>2. stored' = [stored EXCEPT ![b] = b] /\ UNCHANGED manifest
    BY <1>1, <1>7 DEF PutLands, BodyVerified, Blob
  <2> HIDE DEF b
  <2>3. stored \in [Blobs -> Blobs \cup {None}]
    BY DEF PushInv, TypeOK
  <2>4. /\ stored' \in [Blobs -> Blobs \cup {None}]
        /\ stored'[b] = b
        /\ \A c \in Blobs : stored[c] # None => stored'[c] # None
        /\ \A c \in Blobs : stored'[c] \in {stored[c], c}
    BY <2>1, <2>2, <2>3
  <2>5. TypeOK'
    BY <1>1, <1>2, <2>2, <2>4 DEF PushInv, TypeOK, envVars, passVars
  <2>6. StoredMatchesDigest'
    BY <2>4 DEF PushInv, StoredMatchesDigest
  <2>7. ManifestIsWhole'
    BY <2>2, <2>4 DEF PushInv, ManifestIsWhole, Blobs
  <2>8. PlacedInv'
    <3>1. \A w \in Workers : act'[w].pc \in {"landed", "settle"} => stored'[Blob(w)'] # None
      <4> SUFFICES ASSUME NEW w \in Workers, act'[w].pc \in {"landed", "settle"}
                   PROVE  stored'[Blob(w)] # None
        BY <1>3 DEF Actors
      <4>1. CASE w = a
        BY <2>1, <2>4, <4>1 DEF b
      <4>2. CASE w # a
        <5>1. act[w].pc \in {"landed", "settle"} /\ stored[Blob(w)] # None
          BY <1>3, <4>2 DEF Actors, PushInv, PlacedInv
        <5>2. Blob(w) \in Contents
          <6>1. act[w].unit = "part" /\ act[w].part < taken /\ act[w].part \in Parts
            BY <5>1 DEF PushInv, PlaceInv, TypeOK, Actor, Actors
          <6> QED
            BY <6>1, PlanFacts DEF Blob, PushInv, PassInv, TypeOK, Parts
        <5> QED
          BY <5>1, <5>2, <2>4 DEF Blobs
      <4> QED
        BY <4>1, <4>2
    <3>2. \A c \in Contents : claims'[c].state = "done" => stored'[c] # None
      BY <1>1, <2>4 DEF PushInv, PlacedInv, Blobs
    <3>3. /\ act'[Main].unit = "config" /\ act'[Main].pc = "landed" => stored'[EmptyConfig] # None
          /\ act'[Main].unit = "manifest" => stored'[EmptyConfig] # None
      <4>1. CASE a = Main
        <5>1. b = EmptyConfig
          BY <1>1, <4>1, AtWork DEF b
        <5> QED
          BY <2>1, <2>4, <5>1
      <4>2. CASE a # Main
        BY <1>3, <2>4, <4>2 DEF Actors, Blobs, PushInv, PlacedInv
      <4> QED
        BY <4>1, <4>2
    <3> QED
      BY <3>1, <3>2, <3>3 DEF PlacedInv
  <2> QED
    BY <1>4, <1>5, <1>6, <2>5, <2>6, <2>7, <2>8 DEF PushInv
<1>8. CASE act[a].unit = "manifest"
  <2>1. a = Main /\ PoolEnded /\ ~groupErr /\ stored[EmptyConfig] # None
    BY <1>1, <1>8, AtWork DEF Actors, PushInv, PlacedInv
  <2>2. manifest' = recorded /\ UNCHANGED stored
    BY <1>8 DEF PutLands
  <2>3. hashed = NumParts /\ taken = NumParts /\ \A w \in Workers : ~Uploading(w)
    BY <2>1, PushAssumption DEF PushInv, LeavingInv, PoolEnded, At, Uploading
  <2>4. \A i \in Parts : recorded[i] \in Contents /\ stored[recorded[i]] # None
    <3> SUFFICES ASSUME NEW i \in Parts
                 PROVE  recorded[i] \in Contents /\ stored[recorded[i]] # None
      OBVIOUS
    <3>1. i < taken /\ recorded[i] \in Contents
      BY <2>3, PlanFacts DEF PushInv, PassInv, Parts
    <3>2. claims[recorded[i]].state = "done"
      BY <2>1, <2>3, <3>1 DEF PushInv, ClaimInv, TypeOK, Claim
    <3> QED
      BY <3>1, <3>2 DEF PushInv, PlacedInv
  <2>5. manifest' \in [Parts -> Contents]
    BY <2>2, <2>4 DEF PushInv, TypeOK
  <2>6. TypeOK'
    BY <1>1, <1>2, <2>2, <2>5 DEF PushInv, TypeOK, envVars, passVars
  <2>7. ManifestIsWhole' /\ StoredMatchesDigest'
    BY <2>1, <2>2, <2>4 DEF PushInv, ManifestIsWhole, StoredMatchesDigest
  <2>8. PlacedInv'
    BY <1>1, <1>2, <1>3, <1>8, <2>1, <2>2, PushAssumption DEF PushInv, PlacedInv, Actors
  <2> QED
    BY <1>4, <1>5, <1>6, <2>6, <2>7, <2>8 DEF PushInv
<1> QED
  BY <1>7, <1>8 DEF PutLands

-----------------------------------------------------------------------------
(* The surroundings and the hash pass. *)

LEMMA SurroundingsKeepInv ==
  ASSUME PushInv, Cancel \/ EditSource
  PROVE  PushInv'
<1>1. /\ UNCHANGED <<hasher, hashed, recorded, taken, claims, act, groupErr, stored,
                     manifest, credited, snap>>
      /\ cancelled' \in BOOLEAN
  BY DEF Cancel, EditSource, passVars, registryVars, reportVars, PushInv, TypeOK
<1>2. source' \in [Parts -> Contents \cup {None}] /\ edits' \in 0 .. MaxEdits
  <2>1. CASE Cancel
    BY <2>1 DEF Cancel, PushInv, TypeOK
  <2>2. CASE EditSource
    BY <2>2, PushAssumption DEF EditSource, PushInv, TypeOK, Ranges
  <2> QED
    BY <2>1, <2>2
<1>3. TypeOK'
  BY <1>1, <1>2 DEF PushInv, TypeOK
<1>4. PassInv' /\ PlaceInv' /\ SleepInv'
  BY <1>1 DEF PushInv, PassInv, PlaceInv, SleepInv, At
<1>5. PlacedInv' /\ ClaimInv' /\ OneUploaderPerDigest'
  BY <1>1 DEF PushInv, PlacedInv, ClaimInv, OneUploaderPerDigest, Uploading, Blob
<1>6. LeavingInv' /\ StoredMatchesDigest' /\ ManifestIsWhole'
  BY <1>1 DEF PushInv, LeavingInv, At, PoolEnded, Closed, StoredMatchesDigest, ManifestIsWhole
<1> QED
  BY <1>3, <1>4, <1>5, <1>6 DEF PushInv

\* The pool cannot have ended while the pass has not left.
LEMMA HasherKeepsInv ==
  ASSUME PushInv, Hasher
  PROVE  PushInv'
<1>1. /\ UNCHANGED <<source, edits, cancelled, taken, claims, act, stored, manifest,
                     credited, snap>>
      /\ hasher \in {"between", "reading", "failing"}
      /\ hasher' \in {"between", "reading", "failing", "left"}
      /\ groupErr => groupErr'
      /\ groupErr' \in BOOLEAN
  BY DEF Hasher, HashNext, HashPart, HashFails, HasherReturns, envVars, registryVars,
         reportVars, PushInv, TypeOK
<1>2. /\ hashed' \in 0 .. NumParts /\ hashed' >= hashed
      /\ recorded' \in [Parts -> Contents \cup {None}]
      /\ \A i \in Parts : i < hashed => recorded'[i] = recorded[i]
      /\ \A i \in Parts : i < hashed' => recorded'[i] \in Contents
      /\ hasher' = "reading" => hashed' < NumParts
      /\ hasher' = "left" /\ ~groupErr' => hashed' = NumParts
      /\ hasher = "failing" => hashed' = hashed
  <2>1. CASE HashPart
    <3>1. hashed \in Parts /\ source[hashed] \in Contents
      BY <2>1, PlanFacts DEF HashPart, PushInv, PassInv, TypeOK, Parts
    <3>2. recorded' = [recorded EXCEPT ![hashed] = source[hashed]] /\ hashed' = hashed + 1
      BY <2>1 DEF HashPart
    <3> QED
      BY <2>1, <3>1, <3>2, PlanFacts DEF HashPart, PushInv, PassInv, TypeOK, Parts
  <2>2. CASE HashNext \/ HashFails \/ HasherReturns
    BY <2>2, PlanFacts DEF HashNext, HashFails, HasherReturns, PushInv, PassInv, TypeOK
  <2> QED
    BY <2>1, <2>2 DEF Hasher
<1>3. TypeOK'
  BY <1>1, <1>2 DEF PushInv, TypeOK
<1>4. PassInv'
  BY <1>1, <1>2, PlanFacts DEF PushInv, PassInv, TypeOK
<1>5. PlaceInv' /\ SleepInv'
  BY <1>1 DEF PushInv, PlaceInv, SleepInv, At
<1>6. \A i \in Parts : i < taken => recorded'[i] = recorded[i]
  BY <1>2, PlanFacts DEF PushInv, PassInv, TypeOK, Parts
<1>7. \A w \in Workers : act[w].pc \notin {"idle", "left"} => Blob(w)' = Blob(w)
  <2> SUFFICES ASSUME NEW w \in Workers, act[w].pc \notin {"idle", "left"}
               PROVE  Blob(w)' = Blob(w)
    OBVIOUS
  <2>1. act[w].part \in Parts /\ act[w].part < taken
    BY DEF PushInv, PlaceInv, TypeOK, Actor, Actors
  <2> QED
    BY <1>1, <1>6, <2>1 DEF Blob
<1>8. PlacedInv'
  BY <1>1, <1>7 DEF PushInv, PlacedInv
<1>9. \A w \in Workers : Uploading(w)' = Uploading(w)
  BY <1>1 DEF Uploading
<1>10. OneUploaderPerDigest'
  BY <1>1, <1>7, <1>9 DEF PushInv, OneUploaderPerDigest, Uploading
<1>11. ClaimInv'
  <2> SUFFICES ASSUME ~groupErr' PROVE ClaimInv'
    BY DEF ClaimInv
  <2>1. ~groupErr
    BY <1>1
  <2>2. \A i \in Parts : i < taken' => claims'[recorded'[i]].state # "free"
    BY <1>1, <1>6, <2>1 DEF PushInv, ClaimInv
  <2>3. \A c \in Contents : claims[c].state = "pending" =>
            \E w \in Workers : Uploading(w) /\ Blob(w) = c
    BY <2>1 DEF PushInv, ClaimInv
  <2>4. \A w \in Workers : Uploading(w) => Uploading(w)' /\ Blob(w)' = Blob(w)
    BY <1>7, <1>9 DEF Uploading
  <2>5. \A c \in Contents : claims'[c].state = "pending" =>
            \E w \in Workers : Uploading(w)' /\ Blob(w)' = c
    BY <1>1, <2>3, <2>4
  <2> QED
    BY <2>2, <2>5 DEF ClaimInv
<1>12. LeavingInv'
  <2>1. ~PoolEnded
    BY <1>1 DEF PoolEnded
  <2>2. \A w \in Workers : At(w, "left")' /\ ~groupErr' => taken' = hashed' /\ Closed'
    <3> SUFFICES ASSUME NEW w \in Workers, At(w, "left"), ~groupErr'
                 PROVE  taken = hashed' /\ Closed'
      BY <1>1 DEF At
    <3>1. taken = hashed /\ Closed /\ ~groupErr
      BY <1>1 DEF PushInv, LeavingInv
    <3>2. hasher = "failing" /\ hashed' = hashed
      BY <1>1, <1>2, <3>1 DEF Closed
    <3>3. hasher' \in {"failing", "left"}
      BY <3>2 DEF Hasher, HashNext, HashPart, HashFails, HasherReturns
    <3> QED
      BY <3>1, <3>2, <3>3 DEF Closed
  <2> QED
    BY <1>1, <1>2, <2>1, <2>2 DEF PushInv, LeavingInv, At
<1>13. StoredMatchesDigest' /\ ManifestIsWhole'
  BY <1>1 DEF PushInv, StoredMatchesDigest, ManifestIsWhole
<1> QED
  BY <1>3, <1>4, <1>5, <1>8, <1>10, <1>11, <1>12, <1>13 DEF PushInv

-----------------------------------------------------------------------------
(* The pool. *)

\* A worker with a claim or a settled part goes on with it, or comes back.
LEMMA LeavesUploading ==
  ASSUME PushInv, TypeOK', NEW w \in Workers,
         UNCHANGED <<passVars, taken, claims, groupErr, registryVars>>,
         act' = [act EXCEPT ![w] = act'[w]],
         act[w].pc \in {"idle", "credit", "twins"},
         act'[w].unit = "part",
         \/ act[w].pc = "credit" /\ act'[w].pc = "twins" /\ act'[w].part = act[w].part
         \/ act'[w].pc = "idle"
         \/ act'[w].pc = "left" /\ taken = hashed /\ Closed
  PROVE  PushInv'
<1>1. /\ w # Main /\ Main \in Actors /\ w \in Actors
      /\ \A v \in Actors \ {w} : act'[v] = act[v] /\ Blob(v)' = Blob(v)
  BY PushAssumption DEF PushInv, TypeOK, Blob, passVars, Actors
<1>2. PassInv' /\ StoredMatchesDigest' /\ ManifestIsWhole'
  BY DEF PushInv, PassInv, StoredMatchesDigest, ManifestIsWhole, passVars, registryVars
<1>3. PlaceInv' /\ SleepInv'
  BY <1>1 DEF PushInv, PlaceInv, SleepInv, At, Actors
<1>4. PlacedInv'
  BY <1>1 DEF PushInv, PlacedInv, Actors, registryVars
<1>5. \A v \in Workers : Uploading(v)' = Uploading(v) /\ (Uploading(v) => Blob(v)' = Blob(v))
  BY <1>1 DEF Uploading, Actors
<1>6. ClaimInv'
  BY <1>5 DEF PushInv, ClaimInv, passVars
<1>7. OneUploaderPerDigest'
  BY <1>5 DEF PushInv, OneUploaderPerDigest
<1>8. LeavingInv'
  BY <1>1 DEF PushInv, LeavingInv, At, PoolEnded, Closed, passVars, Actors
<1> QED
  BY <1>2, <1>3, <1>4, <1>6, <1>7, <1>8 DEF PushInv

\* A snapshot only counts upwards.
LEMMA SnapshotCounts ==
  ASSUME snap \in Snapshot, NEW p \in Nat, NEW b \in Nat, NEW s \in Nat,
         snap' = [snap EXCEPT !.parts = @ + p, !.bytes = @ + b, !.skipped = @ + s]
  PROVE  snap' \in Snapshot
<1>1. /\ snap.parts \in Nat /\ snap.bytes \in Nat /\ snap.skipped \in Nat
      /\ snap.phase \in {"transferring", "finalizing", "done", "failed"}
  BY DEF Snapshot
<1>2. snap' = [phase |-> snap.phase, parts |-> snap.parts + p,
               bytes |-> snap.bytes + b, skipped |-> snap.skipped + s]
  BY DEF Snapshot
<1>3. snap.parts + p \in Nat /\ snap.bytes + b \in Nat /\ snap.skipped + s \in Nat
  BY <1>1
<1> QED
  BY <1>1, <1>2, <1>3 DEF Snapshot

LEMMA CreditsKeepInv ==
  ASSUME PushInv, NEW w \in Workers, Depart(w) \/ Credit(w) \/ CreditTwins(w)
  PROVE  PushInv'
<1>1. act[w] \in Actor /\ act[w].unit = "part" /\ w \in Actors /\ act \in [Actors -> Actor]
      /\ PartLength(act[w].part) \in Nat /\ act[w].owed \in Nat
  BY PlanFacts DEF PushInv, TypeOK, PlaceInv, Actors, Actor
<1>2. CASE Depart(w)
  <2>1. /\ act' = [act EXCEPT ![w].pc = "left"] /\ act[w].pc = "idle"
        /\ taken = hashed /\ Closed
        /\ UNCHANGED <<envVars, passVars, taken, claims, groupErr, registryVars, reportVars>>
    BY <1>2 DEF Depart, Goto, At
  <2>2. act' = [act EXCEPT ![w] = act'[w]] /\ act'[w] \in Actor
        /\ act'[w].unit = "part" /\ act'[w].pc = "left"
    BY <1>1, <2>1 DEF Actor
  <2>3. TypeOK'
    BY <1>1, <2>1, <2>2, TypeStep DEF PushInv, TypeOK, reportVars
  <2> QED
    BY <2>1, <2>2, <2>3, LeavesUploading
<1>3. CASE Credit(w)
  <2>1. /\ act' = [act EXCEPT ![w].pc = "twins"] /\ act[w].pc = "credit"
        /\ UNCHANGED <<envVars, passVars, taken, claims, groupErr, registryVars>>
    BY <1>3 DEF Credit, Goto, At
  <2>2. /\ act' = [act EXCEPT ![w] = act'[w]] /\ act'[w] \in Actor
        /\ act'[w].unit = "part" /\ act'[w].pc = "twins" /\ act'[w].part = act[w].part
    BY <1>1, <2>1 DEF Actor
  <2>3. credited' \subseteq Parts /\ snap' \in Snapshot
    <3> DEFINE i == act[w].part
               fresh == IF act[w].uploaded THEN 0 ELSE 1
    <3>1. i \in Parts /\ credited \subseteq Parts /\ snap \in Snapshot
      BY <1>1 DEF PushInv, TypeOK, Actor
    <3>2. fresh \in Nat
      OBVIOUS
    <3>3. CASE i \in credited
      BY <1>3, <3>1, <3>3 DEF Credit, reportVars
    <3>4. CASE i \notin credited
      <4>1. /\ credited' = credited \cup {i}
            /\ snap' = [snap EXCEPT !.parts = @ + 1, !.bytes = @ + PartLength(i),
                                    !.skipped = @ + fresh]
        BY <1>3, <3>4 DEF Credit
      <4> HIDE DEF i, fresh, Parts
      <4>2. PartLength(i) \in Nat
        BY <1>1 DEF i
      <4> QED
        BY <3>1, <3>2, <4>1, <4>2, SnapshotCounts
    <3> QED
      BY <3>3, <3>4
  <2>4. TypeOK'
    BY <1>1, <2>1, <2>2, <2>3 DEF PushInv, TypeOK, envVars, passVars, registryVars
  <2> QED
    BY <2>1, <2>2, <2>4, LeavesUploading
<1>4. CASE CreditTwins(w)
  <2>1. /\ act' = [act EXCEPT ![w] = Fresh("part", "idle")] /\ act[w].pc = "twins"
        /\ UNCHANGED <<envVars, passVars, taken, claims, groupErr, registryVars, credited>>
    BY <1>4 DEF CreditTwins, At
  <2>2. act' = [act EXCEPT ![w] = act'[w]] /\ act'[w] = Fresh("part", "idle")
    BY <1>1, <2>1
  <2>3. act'[w] \in Actor /\ act'[w].unit = "part" /\ act'[w].pc = "idle"
    BY <2>2, PlanFacts, PushAssumption DEF Fresh, Actor, Parts
  <2>4. act[w].owed * PartLength(act[w].part) \in Nat
    BY <1>1
  <2>5. snap' \in Snapshot
    <3> DEFINE moved == act[w].owed * PartLength(act[w].part)
    <3>1. snap' = [snap EXCEPT !.parts = @ + act[w].owed, !.bytes = @ + moved,
                               !.skipped = @ + act[w].owed]
      BY <1>4 DEF CreditTwins
    <3>2. moved \in Nat /\ snap \in Snapshot
      BY <2>4 DEF PushInv, TypeOK
    <3> HIDE DEF moved
    <3> QED
      BY <1>1, <3>1, <3>2, SnapshotCounts
  <2>6. TypeOK'
    BY <1>1, <2>1, <2>2, <2>3, <2>5, TypeStep DEF PushInv, TypeOK
  <2> QED
    BY <2>1, <2>2, <2>3, <2>6, LeavesUploading
<1> QED
  BY <1>2, <1>3, <1>4

\* The claim settles over the blob its uploader put or found, and no other
\* worker was counting on it.
LEMMA SettleKeepsInv ==
  ASSUME PushInv, NEW w \in Workers, Settle(w)
  PROVE  PushInv'
<1> DEFINE d == Blob(w)
<1>1. /\ act[w].pc = "settle"
      /\ act' = [act EXCEPT ![w].pc = "credit", ![w].owed = claims[d].waiting]
      /\ claims' = [claims EXCEPT ![d] = [state |-> "done", waiting |-> 0]]
      /\ UNCHANGED <<envVars, passVars, taken, groupErr, registryVars, reportVars>>
  BY DEF Settle, At, OwedBy
<1>2. /\ w \in Actors /\ w # Main /\ Main \in Actors /\ act[w].unit = "part"
      /\ act[w].part \in Parts /\ act[w].part < taken /\ act \in [Actors -> Actor]
      /\ claims \in [Contents -> Claim]
  BY <1>1, PushAssumption DEF PushInv, TypeOK, PlaceInv, Actors, Actor
<1>3. d \in Contents /\ stored[d] # None
  BY <1>1, <1>2, PlanFacts DEF PushInv, PassInv, PlacedInv, TypeOK, Blob, Parts
<1>4. /\ act'[w].pc = "credit" /\ act'[w].unit = "part" /\ act'[w].part = act[w].part
      /\ act'[w] \in Actor /\ act' \in [Actors -> Actor]
      /\ \A v \in Actors : Blob(v)' = Blob(v) /\ (v # w => act'[v] = act[v])
  <2>1. claims[d].waiting \in Nat
    BY <1>2, <1>3 DEF Claim
  <2> HIDE DEF d
  <2>2. /\ act'[w].pc = "credit" /\ act'[w].unit = "part" /\ act'[w].part = act[w].part
        /\ act'[w] \in Actor /\ act' \in [Actors -> Actor]
        /\ \A v \in Actors : v # w => act'[v] = act[v]
    BY <1>1, <1>2, <2>1 DEF Actor
  <2> QED
    BY <1>1, <1>2, <2>2 DEF Blob, passVars
<1> HIDE DEF d
<1>5. /\ claims'[d].state = "done" /\ claims' \in [Contents -> Claim]
      /\ \A c \in Contents : c # d => claims'[c] = claims[c]
  BY <1>1, <1>2, <1>3 DEF Claim
<1>6. TypeOK'
  BY <1>1, <1>4, <1>5 DEF PushInv, TypeOK, envVars, passVars, registryVars, reportVars
<1>7. PassInv' /\ StoredMatchesDigest' /\ ManifestIsWhole'
  BY <1>1 DEF PushInv, PassInv, StoredMatchesDigest, ManifestIsWhole, passVars, registryVars
<1>8. PlaceInv' /\ SleepInv'
  BY <1>1, <1>2, <1>4 DEF PushInv, PlaceInv, SleepInv, At, Actors
<1>9. PlacedInv'
  BY <1>1, <1>2, <1>3, <1>4, <1>5 DEF PushInv, PlacedInv, Actors, registryVars
<1>10. /\ \A v \in Workers : v # w => Uploading(v)' = Uploading(v)
       /\ ~Uploading(w)' /\ Uploading(w)
       /\ \A v \in Workers : v # w /\ Uploading(v) => Blob(v) # d
  BY <1>1, <1>2, <1>4 DEF Uploading, Actors, PushInv, OneUploaderPerDigest, d
<1>11. OneUploaderPerDigest'
  <2> SUFFICES ASSUME NEW v \in Workers, Uploading(v)'
               PROVE  /\ claims'[Blob(v)'].state = "pending"
                      /\ \A u \in Workers \ {v} : Uploading(u)' => Blob(u)' # Blob(v)'
    BY DEF OneUploaderPerDigest
  <2>1. v # w /\ Uploading(v) /\ Blob(v)' = Blob(v) /\ Blob(v) # d
    BY <1>4, <1>10 DEF Actors
  <2>2. act[v].pc # "idle" /\ act[v].pc # "left" /\ v \in Actors
    BY <2>1 DEF Uploading, Actors
  <2>3. act[v].unit = "part" /\ act[v].part \in Parts /\ act[v].part < taken
    BY <1>2, <2>2 DEF PushInv, PlaceInv, Actor
  <2>4. Blob(v) \in Contents
    BY <2>3, PlanFacts DEF Blob, PushInv, PassInv, TypeOK, Parts
  <2> QED
    BY <1>4, <1>5, <1>10, <2>1, <2>4 DEF Actors, PushInv, OneUploaderPerDigest
<1>12. ClaimInv'
  <2> SUFFICES ASSUME ~groupErr' PROVE ClaimInv'
    BY DEF ClaimInv
  <2>1. ~groupErr /\ recorded' = recorded /\ taken' = taken
    BY <1>1 DEF passVars
  <2>2. \A i \in Parts : i < taken => recorded[i] \in Contents /\ claims[recorded[i]].state # "free"
    BY <2>1, PlanFacts DEF PushInv, ClaimInv, PassInv, TypeOK, Parts
  <2>3. \A i \in Parts : i < taken => claims'[recorded[i]].state # "free"
    BY <2>2, <1>5
  <2>4. \A c \in Contents : claims'[c].state = "pending" =>
            \E v \in Workers : Uploading(v)' /\ Blob(v)' = c
    BY <1>4, <1>5, <1>10, <2>1 DEF PushInv, ClaimInv, Actors, d
  <2> QED
    BY <2>1, <2>3, <2>4 DEF ClaimInv
<1>13. LeavingInv'
  BY <1>1, <1>2, <1>4 DEF PushInv, LeavingInv, At, PoolEnded, Closed, passVars, Actors
<1> QED
  BY <1>6, <1>7, <1>8, <1>9, <1>11, <1>12, <1>13 DEF PushInv

\* A worker receives a job the pass has recorded; the claim it takes, joins
\* or finds settled covers it.
LEMMA TakeKeepsInv ==
  ASSUME PushInv, NEW w \in Workers, Take(w)
  PROVE  PushInv'
<1> DEFINE d == recorded[taken]
           job == [Fresh("part", "begin") EXCEPT !.part = taken]
<1>1. /\ act[w].pc = "idle" /\ taken < hashed /\ taken' = taken + 1
      /\ UNCHANGED <<envVars, passVars, registryVars, credited>>
  BY DEF Take, At
<1>2. /\ w \in Actors /\ w # Main /\ Main \in Actors /\ act[w].unit = "part"
      /\ act \in [Actors -> Actor] /\ claims \in [Contents -> Claim]
      /\ taken \in Parts /\ d \in Contents /\ taken' \in 0 .. NumParts
  <2>1. /\ w \in Actors /\ w # Main /\ Main \in Actors /\ act[w].unit = "part"
        /\ act \in [Actors -> Actor] /\ claims \in [Contents -> Claim]
    BY PushAssumption DEF PushInv, PlaceInv, TypeOK, Actors
  <2>2. taken \in 0 .. NumParts /\ hashed \in 0 .. NumParts /\ NumParts \in Nat
    BY PlanFacts DEF PushInv, TypeOK
  <2>3. taken \in Parts /\ taken' \in 0 .. NumParts
    BY <1>1, <2>2 DEF Parts
  <2>4. d \in Contents
    BY <1>1, <2>3 DEF PushInv, PassInv
  <2> QED
    BY <2>1, <2>3, <2>4
<1>3. \A v \in Workers : act[v].pc \notin {"idle", "left"} =>
          \/ /\ act[v].part \in Parts /\ act[v].part < taken
             /\ Blob(v)' = Blob(v) /\ Blob(v) \in Contents
          \/ v = w
  <2> SUFFICES ASSUME NEW v \in Workers, act[v].pc \notin {"idle", "left"}, v # w
               PROVE  act[v].part \in Parts /\ act[v].part < taken /\ Blob(v)' = Blob(v)
                      /\ Blob(v) \in Contents
    OBVIOUS
  <2>1. act[v].part \in Parts /\ act[v].part < taken /\ act[v].unit = "part" /\ v \in Actors
    BY DEF PushInv, PlaceInv, TypeOK, Actors, Actor
  <2>2. act'[v] = act[v]
    BY <1>2, <2>1 DEF Take, ReturnError, Goto
  <2>3. Blob(v) \in Contents
    BY <1>1, <2>1, PlanFacts DEF Blob, PushInv, PassInv, TypeOK, Parts
  <2> QED
    BY <1>1, <2>1, <2>2, <2>3 DEF Blob, passVars
<1>4. ~PoolEnded
  BY <1>1 DEF PoolEnded, At
<1>5. PassInv' /\ StoredMatchesDigest' /\ ManifestIsWhole'
  BY <1>1, PlanFacts
     DEF PushInv, PassInv, TypeOK, StoredMatchesDigest, ManifestIsWhole, passVars, registryVars
<1>6. job \in Actor
  <2> DEFINE fresh == Fresh("part", "begin")
  <2>1. fresh \in Actor
    BY PlanFacts, PushAssumption DEF Fresh, Actor, Parts
  <2>2. job = [fresh EXCEPT !.part = taken]
    OBVIOUS
  <2> HIDE DEF fresh, job
  <2> QED
    BY <1>2, <2>1, <2>2 DEF Actor
<1>7. job.pc = "begin" /\ job.unit = "part" /\ job.part = taken
  BY DEF Fresh
<1> HIDE DEF job
<1>8. CASE CtxDone
  <2>1. act' = [act EXCEPT ![w].pc = "left"] /\ groupErr' /\ groupErr' \in BOOLEAN
        /\ UNCHANGED <<claims, snap>>
    BY <1>2, <1>8 DEF Take, ReturnError, Goto
  <2>2. /\ act' \in [Actors -> Actor] /\ act'[w].pc = "left" /\ act'[w].unit = "part"
        /\ \A v \in Actors : v # w => act'[v] = act[v]
    BY <1>2, <2>1 DEF Actor
  <2>3. TypeOK'
    BY <1>1, <1>2, <2>1, <2>2 DEF PushInv, TypeOK, envVars, passVars, registryVars
  <2>4. PlaceInv' /\ SleepInv'
    <3>1. taken \in Nat
      BY <1>2, PlanFacts DEF Parts
    <3>2. \A v \in Workers : act[v].pc \notin {"idle", "left"} /\ v # w => act'[v].part < taken'
      BY <1>1, <1>3, <2>2, <3>1, PlanFacts DEF Actors, Parts
    <3> QED
      BY <1>1, <1>2, <2>2, <3>1, <3>2 DEF PushInv, PlaceInv, SleepInv, At, Actors
  <2>5. PlacedInv'
    BY <1>1, <1>2, <1>3, <2>1, <2>2 DEF PushInv, PlacedInv, Actors, registryVars
  <2>6. OneUploaderPerDigest'
    BY <1>1, <1>2, <1>3, <2>1, <2>2 DEF PushInv, OneUploaderPerDigest, Uploading, Actors
  <2>7. ClaimInv' /\ LeavingInv'
    BY <1>1, <1>2, <1>4, <2>1, <2>2 DEF PushInv, ClaimInv, LeavingInv, At, Actors, passVars
  <2> QED
    BY <1>5, <2>3, <2>4, <2>5, <2>6, <2>7 DEF PushInv
<1>9. CASE ~CtxDone
  <2>1. UNCHANGED <<groupErr, snap>>
    BY <1>9 DEF Take
  <2>2. \/ /\ claims[d].state = "free" /\ claims' = [claims EXCEPT ![d].state = "pending"]
           /\ act' = [act EXCEPT ![w] = job]
        \/ /\ claims[d].state = "pending" /\ claims' = [claims EXCEPT ![d].waiting = @ + 1]
           /\ UNCHANGED act
        \/ /\ claims[d].state = "done" /\ UNCHANGED claims
           /\ act' = [act EXCEPT ![w] = [job EXCEPT !.pc = "credit"]]
    BY <1>2, <1>9 DEF Take, Free, Settled, Claim, job
  <2> HIDE DEF d
  <2>3. /\ claims' \in [Contents -> Claim] /\ claims'[d].state # "free"
        /\ \A c \in Contents : c # d => claims'[c] = claims[c]
        /\ claims[d].state # "free" => claims'[d].state = claims[d].state
    BY <1>2, <2>2 DEF Claim
  <2>4. /\ act' \in [Actors -> Actor] /\ act'[w].unit = "part"
        /\ act'[w].pc = "idle" \/ (act'[w].part = taken /\ act'[w].pc \in {"begin", "credit"})
        /\ \A v \in Actors : v # w => act'[v] = act[v]
    BY <1>1, <1>2, <1>6, <1>7, <2>2 DEF Actor
  <2>5. TypeOK'
    BY <1>1, <1>2, <2>1, <2>3, <2>4 DEF PushInv, TypeOK, envVars, passVars, registryVars
  <2>6. PlaceInv' /\ SleepInv'
    <3>1. taken \in Nat
      BY <1>2, PlanFacts DEF Parts
    <3>2. \A v \in Workers : act[v].pc \notin {"idle", "left"} /\ v # w => act'[v].part < taken'
      BY <1>1, <1>3, <2>4, <3>1, PlanFacts DEF Actors, Parts
    <3> QED
      BY <1>1, <1>2, <2>4, <3>1, <3>2 DEF PushInv, PlaceInv, SleepInv, At, Actors
  <2>7. PlacedInv'
    <3>1. \A v \in Workers : act'[v].pc \in {"landed", "settle"} => stored'[Blob(v)'] # None
      BY <1>1, <1>2, <1>3, <2>4 DEF PushInv, PlacedInv, Actors, registryVars
    <3>2. \A c \in Contents : claims'[c].state = "done" => stored'[c] # None
      BY <1>1, <1>2, <2>2, <2>3 DEF PushInv, PlacedInv, registryVars, Claim
    <3> QED
      BY <1>1, <1>2, <2>4, <3>1, <3>2 DEF PushInv, PlacedInv, registryVars
  <2>8. \A v \in Workers \ {w} : /\ Uploading(v)' = Uploading(v)
                                 /\ Uploading(v) => Blob(v)' = Blob(v) /\ Blob(v) \in Contents
                                                    /\ claims[Blob(v)].state = "pending"
    BY <1>3, <2>4 DEF Uploading, Actors, PushInv, OneUploaderPerDigest
  <2>9. Uploading(w)' => Blob(w)' = d /\ claims[d].state = "free" /\ claims'[d].state = "pending"
    <3> SUFFICES ASSUME Uploading(w)' PROVE Blob(w)' = d /\ claims[d].state = "free"
                                            /\ claims'[d].state = "pending"
      OBVIOUS
    <3>1. claims[d].state = "free"
      BY <1>1, <1>2, <1>6, <1>7, <2>2 DEF Uploading, Actor
    <3>2. act'[w] = job /\ claims'[d].state = "pending"
      BY <1>2, <2>2, <3>1 DEF Claim
    <3> QED
      BY <1>1, <1>7, <3>1, <3>2 DEF Blob, passVars, d
  <2>10. OneUploaderPerDigest'
    <3>1. \A v \in Workers : Uploading(v)' => claims'[Blob(v)'].state = "pending"
      BY <2>3, <2>8, <2>9
    <3>2. \A v, u \in Workers : v # u /\ Uploading(v)' /\ Uploading(u)' => Blob(u)' # Blob(v)'
      <4> SUFFICES ASSUME NEW v \in Workers, NEW u \in Workers, v # u,
                          Uploading(v)', Uploading(u)'
                   PROVE  Blob(u)' # Blob(v)'
        OBVIOUS
      <4>1. CASE v = w \/ u = w
        BY <2>8, <2>9, <4>1
      <4>2. CASE v # w /\ u # w
        BY <2>8, <4>2 DEF PushInv, OneUploaderPerDigest
      <4> QED
        BY <4>1, <4>2
    <3> QED
      BY <3>1, <3>2 DEF OneUploaderPerDigest
  <2>11. ClaimInv'
    <3> SUFFICES ASSUME ~groupErr PROVE ClaimInv'
      BY <2>1 DEF ClaimInv
    <3>1. \A i \in Parts : i < taken' => claims'[recorded'[i]].state # "free"
      <4> SUFFICES ASSUME NEW i \in Parts, i < taken + 1
                   PROVE  claims'[recorded[i]].state # "free"
        BY <1>1 DEF passVars
      <4>1. CASE i = taken
        BY <2>3, <4>1 DEF d
      <4>2. CASE i < taken
        <5>1. recorded[i] \in Contents /\ claims[recorded[i]].state # "free"
          BY <1>1, <4>2, PlanFacts DEF PushInv, PassInv, ClaimInv, TypeOK, Parts
        <5> QED
          BY <2>3, <5>1
      <4> QED
        BY <1>2, <4>1, <4>2 DEF Parts
    <3>2. \A c \in Contents : claims'[c].state = "pending" =>
              \E v \in Workers : Uploading(v)' /\ Blob(v)' = c
      <4> SUFFICES ASSUME NEW c \in Contents, claims'[c].state = "pending"
                   PROVE  \E v \in Workers : Uploading(v)' /\ Blob(v)' = c
        OBVIOUS
      <4>1. CASE claims[c].state = "pending"
        <5>1. PICK v \in Workers : Uploading(v) /\ Blob(v) = c
          BY <4>1 DEF PushInv, ClaimInv
        <5>2. v # w
          BY <1>1, <5>1 DEF Uploading
        <5> QED
          BY <2>8, <5>1, <5>2
      <4>2. CASE claims[c].state # "pending"
        <5>1. c = d /\ claims[d].state = "free"
          BY <2>2, <2>3, <4>2
        <5>2. act'[w] = job
          BY <1>2, <2>2, <5>1
        <5>3. Uploading(w)'
          BY <1>7, <5>2 DEF Uploading
        <5> QED
          BY <2>9, <5>1, <5>3
      <4> QED
        BY <4>1, <4>2
    <3> QED
      BY <3>1, <3>2 DEF ClaimInv
  <2>12. LeavingInv'
    <3>1. \A v \in Workers : ~(At(v, "left")' /\ ~groupErr')
      BY <1>1, <1>2, <2>1, <2>4 DEF PushInv, LeavingInv, At, Actors, TypeOK
    <3> QED
      BY <1>1, <1>2, <1>4, <2>1, <2>4, <3>1 DEF PushInv, LeavingInv, At, passVars
  <2> QED
    BY <1>5, <2>5, <2>6, <2>7, <2>10, <2>11, <2>12 DEF PushInv
<1> QED
  BY <1>8, <1>9

LEMMA GroupDoneKeepsInv ==
  ASSUME PushInv, GroupDone
  PROVE  PushInv'
<1>1. /\ act[Main].pc = "wait" /\ PoolEnded
      /\ UNCHANGED <<envVars, passVars, taken, claims, registryVars, credited>>
      /\ Main \in Actors /\ act[Main] \in Actor /\ act \in [Actors -> Actor]
      /\ act[Main].unit \in {"config", "manifest"}
      /\ act[Main].unit = "manifest" => stored[EmptyConfig] # None
  BY DEF GroupDone, At, Actors, PushInv, TypeOK, PlaceInv, PlacedInv
<1>2. /\ UNCHANGED groupErr /\ snap' \in Snapshot
      /\ \/ act' = [act EXCEPT ![Main].pc = "left"]
         \/ act' = [act EXCEPT ![Main].pc = "begin"] /\ ~groupErr
  BY DEF GroupDone, ReturnError, Goto, PushInv, TypeOK, Snapshot
<1>3. /\ act' = [act EXCEPT ![Main] = act'[Main]] /\ act'[Main] \in Actor
      /\ act'[Main].unit = act[Main].unit /\ act'[Main].pc \in {"begin", "left"}
      /\ act'[Main].pc = "begin" => ~groupErr
  BY <1>1, <1>2 DEF Actor
<1>4. groupErr' \in BOOLEAN
  BY <1>2 DEF PushInv, TypeOK
<1>5. TypeOK'
  BY <1>1, <1>2, <1>3, <1>4, TypeStep DEF PushInv
<1> QED
  BY <1>1, <1>2, <1>3, <1>5, MainStep

-----------------------------------------------------------------------------
\* PushInv is inductive.
LEMMA NextKeepsInv == PushInv /\ [Next]_vars => PushInv'
<1> SUFFICES ASSUME PushInv, [Next]_vars PROVE PushInv'
  OBVIOUS
<1>1. CASE UNCHANGED vars
  BY <1>1
     DEF vars, PushInv, SleepInv, TypeOK, PassInv, PlaceInv, PlacedInv, ClaimInv, LeavingInv,
         StoredMatchesDigest, OneUploaderPerDigest, ManifestIsWhole, Uploading, Blob, At,
         PoolEnded, Closed
<1>2. CASE Cancel \/ EditSource
  BY <1>2, SurroundingsKeepInv
<1>3. CASE Hasher
  BY <1>3, HasherKeepsInv
<1>4. ASSUME NEW w \in Workers, Worker(w) PROVE PushInv'
  BY <1>4, TakeKeepsInv, CreditsKeepInv, SettleKeepsInv DEF Worker
<1>5. ASSUME NEW a \in Actors, Budget(a) PROVE PushInv'
  BY <1>5, BeginKeepsInv, WakeKeepsInv DEF Budget
<1>6. ASSUME NEW a \in Actors, Request(a) PROVE PushInv'
  BY <1>6, AnswersKeepInv, ExistsMissingKeepsInv, PutLandsKeepsInv, FailuresKeepInv DEF Request
<1>7. CASE GroupDone
  BY <1>7, GroupDoneKeepsInv
<1> QED
  BY <1>1, <1>2, <1>3, <1>4, <1>5, <1>6, <1>7 DEF Next, Returned

LEMMA PushInvariant == Spec => []PushInv
BY InitKeepsInv, NextKeepsInv, PTL DEF Spec

\* Every reachable state of a push is type-correct.
THEOREM PushTypeCorrect == Spec => []TypeOK
<1>1. PushInv => TypeOK
  BY DEF PushInv
<1> QED
  BY <1>1, PushInvariant, PTL

\* The reference never resolves to a manifest with a blob missing, whatever
\* the interleaving of workers, retries, failures and edits of the file.
THEOREM ManifestsAreWhole == Spec => []ManifestIsWhole
<1>1. PushInv => ManifestIsWhole
  BY DEF PushInv
<1> QED
  BY <1>1, PushInvariant, PTL

\* No blob of the repository holds a body other than the one its digest
\* names, although the registry takes whatever it is sent.
THEOREM BlobsMatchTheirDigests == Spec => []StoredMatchesDigest
<1>1. PushInv => StoredMatchesDigest
  BY DEF PushInv
<1> QED
  BY <1>1, PushInvariant, PTL

\* However many workers and twins there are, a digest has one uploader.
THEOREM DigestsHaveOneUploader == Spec => []OneUploaderPerDigest
<1>1. PushInv => OneUploaderPerDigest
  BY DEF PushInv
<1> QED
  BY <1>1, PushInvariant, PTL

-----------------------------------------------------------------------------
(* The tail: what the caller has been told, and the manifest. *)

\* The end of the pool and the phase, said of values.
PoolOver(h, ac) == h = "left" /\ \A w \in Workers : ac[w].pc = "left"

TailOK(h, ac, phase, man, rec) ==
    /\ ac[Main].pc # "wait" => PoolOver(h, ac)
    /\ phase = "transferring" <=> ac[Main].pc = "wait"
    /\ phase \in {"done", "failed"} <=> ac[Main].pc = "left"
    /\ man # None => man = rec /\ h = "left"
    /\ ac[Main].unit = "manifest" => ac[Main].pc # "exists"
    /\ ac[Main].unit = "manifest" /\ ac[Main].pc = "landed" => man # None
    /\ phase = "done" => man # None

LEMMA TailReads == /\ TailInv <=> TailOK(hasher, act, snap.phase, manifest, recorded)
                   /\ TailInv' <=> TailOK(hasher', act', snap'.phase, manifest', recorded')
<1>1. TailInv <=> TailOK(hasher, act, snap.phase, manifest, recorded)
  BY DEF TailInv, TailOK, PoolEnded, PoolOver, At
<1>2. TailInv' <=> TailOK(hasher', act', snap'.phase, manifest', recorded')
  BY DEF TailInv, TailOK, PoolEnded, PoolOver, At
<1> QED BY <1>1, <1>2

\* As long as the pool runs, Main waits and there is no manifest of this push
\* to keep.
LEMMA PoolTails ==
    ASSUME TailInv, ~PoolOver(hasher, act),
           act'[Main] = act[Main], snap'.phase = snap.phase, manifest' = manifest,
           hasher = "left" => hasher' = "left" /\ recorded' = recorded
    PROVE  TailInv'
<1>1. /\ act[Main].pc = "wait" /\ snap.phase = "transferring"
      /\ manifest # None => manifest = recorded /\ hasher = "left"
  BY TailReads DEF TailOK
<1> QED BY <1>1, TailReads DEF TailOK

\* Afterwards only Main moves, and what it is at goes with what has been told.
Told(q, phase, man) ==
    /\ q.pc # "wait" /\ phase # "transferring"
    /\ phase \in {"done", "failed"} <=> q.pc = "left"
    /\ man # None => man = recorded
    /\ q.unit = "manifest" => q.pc # "exists"
    /\ q.unit = "manifest" /\ q.pc = "landed" => man # None
    /\ phase = "done" => man # None

LEMMA MainTails ==
    ASSUME PushInv, PoolOver(hasher, act), UNCHANGED passVars,
           act' = [act EXCEPT ![Main] = act'[Main]],
           Told(act'[Main], snap'.phase, manifest')
    PROVE  TailInv'
<1>1. \A w \in Workers : act'[w] = act[w]
  BY PushAssumption DEF PushInv, TypeOK, Actors, PushAssumption
<1> QED BY <1>1, TailReads DEF TailOK, Told, PoolOver, passVars

\* Whoever is not Main leaves Main alone.
LEMMA MainAside ==
    ASSUME TypeOK, NEW w \in Workers, act' = [act EXCEPT ![w] = act'[w]]
    PROVE  act'[Main] = act[Main] /\ w # Main
  BY PushAssumption DEF TypeOK, Actors, PushAssumption

LEMMA MainReturns ==
    ASSUME TypeOK, ReturnError(Main)
    PROVE  /\ act' = [act EXCEPT ![Main] = act'[Main]] /\ act'[Main].pc = "left"
           /\ act'[Main].unit = act[Main].unit /\ snap'.phase = "failed"
  BY DEF ReturnError, Goto, TypeOK, Actors, Actor, Snapshot

LEMMA MainFails ==
    ASSUME TypeOK, snap.phase = "finalizing", NEW t \in BOOLEAN, AttemptFails(Main, t)
    PROVE  /\ act' = [act EXCEPT ![Main] = act'[Main]]
           /\ act'[Main].unit = act[Main].unit
           /\ \/ act'[Main].pc = "sleep" /\ snap'.phase = "finalizing"
              \/ act'[Main].pc = "left" /\ snap'.phase = "failed"
<1>1. CASE ReturnError(Main)
  BY <1>1, MainReturns
<1>2. CASE Goto(Main, "sleep") /\ UNCHANGED <<groupErr, snap>>
  BY <1>2 DEF Goto, TypeOK, Actors, Actor
<1> QED BY <1>1, <1>2 DEF AttemptFails

\* The tail's steps, requests and backoffs.
LEMMA MainWorks ==
    ASSUME PushInv, TailInv, Budget(Main) \/ Request(Main)
    PROVE  TailInv'
<1>1. /\ Main \in Actors /\ act \in [Actors -> Actor]
      /\ recorded \in [Parts -> Contents \cup {None}]
  BY DEF PushInv, TypeOK, Actors
<1>2. act[Main].pc \in {"begin", "exists", "put", "landed", "sleep"}
  BY DEF Budget, Begin, Wake, Request, ExistsFound, ExistsMissing, PutLands,
         PutSourceChanged, PutAnswered, RequestFails, At
<1>3. /\ act[Main].pc \notin {"wait", "left"} /\ act[Main].unit \in {"config", "manifest"}
      /\ PoolEnded /\ ~groupErr
  BY <1>1, <1>2, AtWork
<1>4. PoolOver(hasher, act) /\ Told(act[Main], snap.phase, manifest)
      /\ snap.phase = "finalizing"
  BY <1>3, TailReads DEF TailOK, Told, PoolEnded, PoolOver, At, PushInv, TypeOK, Snapshot
<1>5. hashed = NumParts /\ recorded # None
  <2>1. hashed = NumParts
    BY <1>3 DEF PushInv, LeavingInv, PoolEnded
  <2>2. recorded \in [Parts -> Contents]
    BY <1>1, <2>1, PlanFacts DEF PushInv, PassInv, Parts
  <2> QED BY <2>1, <2>2, PushAssumption DEF PushAssumption
<1>6. UNCHANGED passVars
  BY DEF Budget, Begin, Wake, Request, ExistsFound, ExistsMissing, PutLands,
         PutSourceChanged, PutAnswered, RequestFails
<1> SUFFICES act' = [act EXCEPT ![Main] = act'[Main]]
             /\ Told(act'[Main], snap'.phase, manifest')
  BY <1>4, <1>6, MainTails
<1>7. CASE Begin(Main)
  <2>1. manifest' = manifest
    BY <1>7 DEF Begin, registryVars
  <2>2. CASE ReturnError(Main)
    BY <1>4, <2>1, <2>2, MainReturns DEF Told, PushInv
  <2>3. CASE /\ Goto(Main, IF act[Main].unit = "manifest" THEN "put" ELSE "exists")
             /\ UNCHANGED <<groupErr, snap>>
    BY <1>1, <1>4, <2>1, <2>3 DEF Told, Goto, Actor
  <2> QED BY <1>7, <2>2, <2>3 DEF Begin
<1>8. CASE Wake(Main)
  <2>1. manifest' = manifest
    BY <1>8 DEF Wake, registryVars
  <2>2. CASE ReturnError(Main)
    BY <1>4, <2>1, <2>2, MainReturns DEF Told, PushInv
  <2>3. CASE /\ act' = [act EXCEPT ![Main].pc = "begin", ![Main].attempt = @ + 1]
             /\ UNCHANGED <<groupErr, snap>>
    BY <1>1, <1>4, <2>1, <2>3 DEF Told, Actor
  <2> QED BY <1>8, <2>2, <2>3 DEF Wake
<1>9. CASE ExistsMissing(Main)
  BY <1>1, <1>4, <1>9 DEF ExistsMissing, Told, Actor, registryVars, reportVars
<1>10. CASE ExistsFound(Main) \/ PutAnswered(Main)
  <2>1. UnitDone(Main) /\ manifest' = manifest
        /\ (act[Main].unit = "manifest" => manifest # None)
    BY <1>4, <1>10 DEF ExistsFound, PutAnswered, registryVars, At, Told
  <2>2. CASE act[Main].unit = "config"
    BY <1>1, <1>4, <2>1, <2>2 DEF UnitDone, Fresh, Told
  <2>3. CASE act[Main].unit = "manifest"
    <3>1. Goto(Main, "left") /\ snap'.phase = "done"
      BY <2>1, <2>3 DEF UnitDone, PushInv, TypeOK, Snapshot
    <3> QED BY <1>1, <1>4, <2>1, <2>3, <3>1 DEF Told, Goto, Actor
  <2> QED BY <1>3, <2>2, <2>3
<1>11. CASE PutLands(Main)
  <2>1. act' = [act EXCEPT ![Main].pc = "landed"] /\ snap' = snap
        /\ (act[Main].unit = "config" => manifest' = manifest)
        /\ (act[Main].unit = "manifest" => manifest' = recorded)
    BY <1>3, <1>11 DEF PutLands, Goto, reportVars
  <2> QED BY <1>1, <1>3, <1>4, <1>5, <2>1 DEF Told, Actor
<1>12. CASE RequestFails(Main) \/ PutSourceChanged(Main)
  <2>1. manifest' = manifest /\ \E t \in BOOLEAN : AttemptFails(Main, t)
    BY <1>12 DEF RequestFails, PutSourceChanged, registryVars
  <2> QED BY <1>4, <2>1, MainFails DEF Told, PushInv
<1> QED BY <1>7, <1>8, <1>9, <1>10, <1>11, <1>12 DEF Budget, Request

-----------------------------------------------------------------------------
(* The pool's steps, from the tail's point of view. *)

\* Who returns an error leaves, and only Main closes the account.
LEMMA OthersReturn ==
    ASSUME TypeOK, NEW w \in Workers, ReturnError(w)
    PROVE  act' = [act EXCEPT ![w].pc = "left"] /\ snap' = snap
  BY PushAssumption DEF ReturnError, Goto, PushAssumption

LEMMA OthersFail ==
    ASSUME TypeOK, NEW w \in Workers, NEW t \in BOOLEAN, AttemptFails(w, t)
    PROVE  \E pc \in {"left", "sleep"} : act' = [act EXCEPT ![w].pc = pc] /\ snap' = snap
  BY OthersReturn DEF AttemptFails, Goto

\* The account counts upwards, if it changes.
Counts(s, t) == /\ t.phase = s.phase
                /\ s.parts <= t.parts /\ s.bytes <= t.bytes /\ s.skipped <= t.skipped

LEMMA CountsOn ==
    ASSUME snap \in Snapshot, NEW p \in Nat, NEW b \in Nat, NEW s \in Nat,
           snap' = [snap EXCEPT !.parts = @ + p, !.bytes = @ + b, !.skipped = @ + s]
    PROVE  Counts(snap, snap')
<1>1. snap.parts \in Nat /\ snap.bytes \in Nat /\ snap.skipped \in Nat
  BY DEF Snapshot
<1>2. /\ snap'.phase = snap.phase /\ snap'.parts = snap.parts + p
      /\ snap'.bytes = snap.bytes + b /\ snap'.skipped = snap.skipped + s
  BY DEF Snapshot
<1>3. \A m, n \in Nat : m <= m + n
  OBVIOUS
<1> QED BY <1>1, <1>2, <1>3 DEF Counts

LEMMA CountsStill == ASSUME snap \in Snapshot, snap' = snap PROVE Counts(snap, snap')
<1>1. snap.parts \in Nat /\ snap.bytes \in Nat /\ snap.skipped \in Nat
  BY DEF Snapshot
<1> QED BY <1>1 DEF Counts

\* A worker's credits.
LEMMA CreditCounts ==
    ASSUME PushInv, NEW w \in Workers, Credit(w) \/ CreditTwins(w)
    PROVE  Counts(snap, snap')
<1>1. /\ act[w] \in Actor /\ snap \in Snapshot /\ act[w].owed \in Nat
      /\ PartLength(act[w].part) \in Nat
  BY PlanFacts DEF PushInv, TypeOK, Actors, Actor
<1>2. CASE Credit(w)
  <2> DEFINE n == IF act[w].uploaded THEN 0 ELSE 1
  <2>1. \/ snap' = snap
        \/ snap' = [snap EXCEPT !.parts = @ + 1, !.bytes = @ + PartLength(act[w].part),
                                !.skipped = @ + n]
    BY <1>2 DEF Credit, reportVars
  <2>2. n \in Nat
    OBVIOUS
  <2> HIDE DEF n
  <2> QED BY <1>1, <2>1, <2>2, CountsOn, CountsStill
<1>3. CASE CreditTwins(w)
  <2> DEFINE n == act[w].owed
             b == n * PartLength(act[w].part)
  <2>1. snap' = [snap EXCEPT !.parts = @ + n, !.bytes = @ + b, !.skipped = @ + n]
    BY <1>3 DEF CreditTwins
  <2>2. n \in Nat /\ b \in Nat
    BY <1>1
  <2> HIDE DEF n, b
  <2> QED BY <1>1, <2>1, <2>2, CountsOn
<1> QED BY <1>2, <1>3

\* A worker that is still in the pool keeps it from being over, moves only
\* itself, and at most stores a blob or counts a part.
LEMMA WorkerAside ==
    ASSUME PushInv, NEW w \in Workers, Worker(w) \/ Budget(w) \/ Request(w)
    PROVE  /\ ~PoolOver(hasher, act) /\ act'[Main] = act[Main]
           /\ UNCHANGED passVars /\ manifest' = manifest
           /\ Counts(snap, snap')
           /\ stored' = stored \/ PutLands(w)
<1>1. /\ TypeOK /\ w \in Actors /\ w # Main /\ act[w] \in Actor /\ act[w].unit = "part"
      /\ snap \in Snapshot /\ act \in [Actors -> Actor]
  BY PushAssumption DEF PushAssumption, PushInv, TypeOK, PlaceInv, Actors
<1>2. ASSUME NEW x, act' = [act EXCEPT ![w] = x] PROVE act'[Main] = act[Main]
  BY <1>1, <1>2 DEF Actors
<1>3. act[w].pc # "left" => ~PoolOver(hasher, act)
  BY DEF PoolOver
<1>4. CASE Take(w)
  <2>1. \/ ReturnError(w)
        \/ snap' = snap /\ (act' = act \/ \E x : act' = [act EXCEPT ![w] = x])
    BY <1>4 DEF Take
  <2>2. snap' = snap /\ act'[Main] = act[Main]
    BY <1>1, <1>2, <2>1, OthersReturn
  <2> QED BY <1>1, <1>3, <1>4, <2>2, CountsStill DEF Take, At, registryVars
<1>5. CASE Depart(w) \/ Settle(w)
  BY <1>1, <1>3, <1>5, CountsStill
     DEF Depart, Settle, Goto, At, registryVars, reportVars, Actors
<1>6. CASE Credit(w) \/ CreditTwins(w)
  <2>1. Counts(snap, snap')
    BY <1>6, CreditCounts
  <2> QED BY <1>1, <1>3, <1>6, <2>1 DEF Credit, CreditTwins, Goto, At, registryVars, Actors
<1>7. CASE Begin(w) \/ Wake(w)
  <2>1. snap' = snap /\ act'[Main] = act[Main]
    BY <1>1, <1>7, OthersReturn DEF Begin, Wake, Goto, Actors
  <2> QED BY <1>1, <1>3, <1>7, <2>1, CountsStill DEF Begin, Wake, At, registryVars
<1>8. CASE ExistsFound(w) \/ PutAnswered(w)
  <2>1. snap' = snap /\ act'[Main] = act[Main]
    BY <1>1, <1>8 DEF ExistsFound, PutAnswered, UnitDone, Goto, Actors
  <2> QED BY <1>1, <1>3, <1>8, <2>1, CountsStill DEF ExistsFound, PutAnswered, At, registryVars
<1>9. CASE ExistsMissing(w)
  BY <1>1, <1>3, <1>9, CountsStill DEF ExistsMissing, At, registryVars, reportVars, Actors
<1>10. CASE PutLands(w)
  <2>1. snap' = snap /\ act'[Main] = act[Main] /\ manifest' = manifest
    BY <1>1, <1>10 DEF PutLands, Goto, Actors, reportVars
  <2> QED BY <1>1, <1>3, <1>10, <2>1, CountsStill DEF PutLands, At
<1>11. CASE PutSourceChanged(w) \/ RequestFails(w)
  <2>1. /\ \E t \in BOOLEAN : AttemptFails(w, t)
        /\ act[w].pc # "left" /\ UNCHANGED <<passVars, registryVars>>
    BY <1>11 DEF PutSourceChanged, RequestFails, At
  <2>2. snap' = snap /\ act'[Main] = act[Main]
    BY <1>1, <2>1, OthersFail DEF Actors
  <2> QED BY <1>1, <1>3, <2>1, <2>2, CountsStill DEF registryVars
<1> QED BY <1>4, <1>5, <1>6, <1>7, <1>8, <1>9, <1>10, <1>11 DEF Worker, Budget, Request

LEMMA HasherAside ==
    ASSUME Hasher
    PROVE  /\ ~PoolOver(hasher, act) /\ hasher # "left"
           /\ UNCHANGED <<act, snap, stored, manifest>>
  BY DEF Hasher, HashNext, HashPart, HashFails, HasherReturns, PoolOver,
         registryVars, reportVars

\* group.Wait returns.
LEMMA GroupTails ==
    ASSUME PushInv, TailInv, GroupDone
    PROVE  /\ TailInv' /\ snap.phase = "transferring"
           /\ snap'.phase \in {"finalizing", "failed"}
           /\ Counts([snap EXCEPT !.phase = snap'.phase], snap')
           /\ UNCHANGED <<stored, manifest>>
<1>1. /\ act \in [Actors -> Actor] /\ Main \in Actors /\ snap \in Snapshot
      /\ snap.parts \in Nat /\ snap.bytes \in Nat /\ snap.skipped \in Nat
  BY DEF PushInv, TypeOK, Actors, Snapshot
<1>2. /\ act[Main].pc = "wait" /\ PoolOver(hasher, act)
      /\ UNCHANGED <<passVars, stored, manifest>>
  BY DEF GroupDone, At, PoolEnded, PoolOver, registryVars
<1>3. /\ snap.phase = "transferring"
      /\ manifest # None => manifest = recorded
      /\ act[Main].unit = "manifest" => act[Main].pc # "exists"
  BY <1>2, TailReads DEF TailOK
<1>4. \E ph, pc : /\ <<ph, pc>> \in {<<"finalizing", "begin">>, <<"failed", "left">>}
                  /\ act' = [act EXCEPT ![Main].pc = pc]
                  /\ snap' = [snap EXCEPT !.phase = ph]
  BY DEF GroupDone, ReturnError, Goto
<1>5. PICK ph, pc : /\ <<ph, pc>> \in {<<"finalizing", "begin">>, <<"failed", "left">>}
                    /\ act' = [act EXCEPT ![Main].pc = pc]
                    /\ snap' = [snap EXCEPT !.phase = ph]
  BY <1>4
<1>6. /\ snap'.phase = ph /\ act'[Main].pc = pc /\ act'[Main].unit = act[Main].unit
      /\ act' = [act EXCEPT ![Main] = act'[Main]]
      /\ Counts([snap EXCEPT !.phase = ph], snap')
  BY <1>1, <1>5 DEF Actor, Snapshot, Counts
<1>7. Told(act'[Main], snap'.phase, manifest')
  BY <1>2, <1>3, <1>5, <1>6 DEF Told
<1> QED BY <1>2, <1>3, <1>5, <1>6, <1>7, MainTails

-----------------------------------------------------------------------------
\* TailInv is inductive over PushInv.
LEMMA InitTails == Init => TailInv
<1> SUFFICES ASSUME Init PROVE TailInv
  OBVIOUS
<1>1. /\ act[Main] = Fresh("config", "wait") /\ snap.phase = "transferring"
      /\ manifest = None
  BY DEF Init, Actors
<1> QED BY <1>1, TailReads DEF TailOK, Fresh

LEMMA NextTails == PushInv /\ TailInv /\ [Next]_vars => TailInv'
<1> SUFFICES ASSUME PushInv, TailInv, [Next]_vars PROVE TailInv'
  OBVIOUS
<1>1. CASE Cancel \/ EditSource \/ UNCHANGED vars
  BY <1>1, TailReads DEF Cancel, EditSource, vars, passVars, registryVars, reportVars
<1>2. CASE Hasher
  BY <1>2, HasherAside, PoolTails
<1>3. ASSUME NEW w \in Workers, Worker(w) \/ Budget(w) \/ Request(w) PROVE TailInv'
  BY <1>3, WorkerAside, PoolTails DEF Counts, passVars
<1>4. CASE Budget(Main) \/ Request(Main)
  BY <1>4, MainWorks
<1>5. CASE GroupDone
  BY <1>5, GroupTails
<1> QED BY <1>1, <1>2, <1>3, <1>4, <1>5 DEF Next, Returned, Actors

LEMMA TailInvHolds == Spec => [](PushInv /\ TailInv)
<1>1. Init => PushInv /\ TailInv
  BY InitKeepsInv, InitTails
<1>2. (PushInv /\ TailInv) /\ [Next]_vars => (PushInv /\ TailInv)'
  BY NextKeepsInv, NextTails
<1> QED BY <1>1, <1>2, PTL DEF Spec

\* What Main's steps do to the account and to the repository.
LEMMA MainAccounts ==
    ASSUME PushInv, TailInv, Budget(Main) \/ Request(Main)
    PROVE  /\ snap.phase = "finalizing"
           /\ snap' = [snap EXCEPT !.phase = snap'.phase]
           /\ snap'.phase \in {"finalizing", "done", "failed"}
           /\ \/ stored' = stored /\ manifest' = manifest
              \/ PutLands(Main) /\ snap' = snap
           /\ snap'.phase = "done" => manifest # None
<1>1. /\ act[Main].pc \in {"begin", "exists", "put", "landed", "sleep"}
      /\ Main \in Actors /\ snap \in Snapshot
  BY DEF Budget, Begin, Wake, Request, ExistsFound, ExistsMissing, PutLands,
         PutSourceChanged, PutAnswered, RequestFails, At, PushInv, TypeOK, Actors
<1>2. /\ snap.phase = "finalizing" /\ act[Main].unit \in {"config", "manifest"}
      /\ act[Main].unit = "manifest" => act[Main].pc # "exists"
      /\ act[Main].unit = "manifest" /\ act[Main].pc = "landed" => manifest # None
  BY <1>1, AtWork, TailReads DEF TailOK, Snapshot
<1>3. snap = [snap EXCEPT !.phase = snap.phase]
  BY <1>1 DEF Snapshot
<1>4. ASSUME ReturnError(Main)
      PROVE  snap'.phase = "failed" /\ snap' = [snap EXCEPT !.phase = snap'.phase]
  BY <1>1, <1>4 DEF ReturnError, Snapshot
<1>5. CASE Begin(Main) \/ Wake(Main)
  <2>1. (ReturnError(Main) \/ snap' = snap) /\ stored' = stored /\ manifest' = manifest
    BY <1>5 DEF Begin, Wake, registryVars
  <2> QED BY <1>2, <1>3, <1>4, <2>1
<1>6. CASE PutSourceChanged(Main) \/ RequestFails(Main)
  <2>1. (ReturnError(Main) \/ snap' = snap) /\ stored' = stored /\ manifest' = manifest
    BY <1>6 DEF PutSourceChanged, RequestFails, AttemptFails, registryVars
  <2> QED BY <1>2, <1>3, <1>4, <2>1
<1>7. CASE ExistsFound(Main) \/ PutAnswered(Main)
  <2>1. UnitDone(Main) /\ stored' = stored /\ manifest' = manifest
    BY <1>7 DEF ExistsFound, PutAnswered, registryVars
  <2>2. CASE act[Main].unit = "config"
    BY <1>2, <1>3, <2>1, <2>2 DEF UnitDone
  <2>3. CASE act[Main].unit = "manifest"
    <3>1. snap' = [snap EXCEPT !.phase = "done"]
      BY <2>1, <2>3 DEF UnitDone
    <3>2. snap'.phase = "done"
      BY <1>1, <3>1 DEF Snapshot
    <3>3. manifest # None
      BY <1>2, <1>7, <2>3 DEF ExistsFound, PutAnswered, At
    <3> QED BY <1>2, <2>1, <3>1, <3>2, <3>3
  <2> QED BY <1>2, <2>2, <2>3
<1>8. CASE ExistsMissing(Main) \/ PutLands(Main)
  BY <1>2, <1>3, <1>8 DEF ExistsMissing, PutLands, registryVars, reportVars
<1> QED BY <1>5, <1>6, <1>7, <1>8 DEF Budget, Request

-----------------------------------------------------------------------------
(* What a watcher sees. *)

\* The account only counts upwards, its phase only advances, and nothing
\* follows the terminal snapshot, whatever the workers, twins and failures.
THEOREM AccountGrows == Spec => AccountOnlyGrows
<1> DEFINE Grows(s, t) ==
             /\ Rank(s.phase) < Rank(t.phase) \/ s.phase = t.phase
             /\ s.parts <= t.parts /\ s.bytes <= t.bytes /\ s.skipped <= t.skipped
             /\ Rank(s.phase) < 3
<1>1. ASSUME PushInv, TailInv, [Next]_vars PROVE Grows(snap, snap') \/ snap' = snap
  <2>1. /\ snap \in Snapshot
        /\ snap.parts \in Nat /\ snap.bytes \in Nat /\ snap.skipped \in Nat
    BY <1>1 DEF PushInv, TypeOK, Snapshot
  <2>2. CASE Cancel \/ EditSource \/ Hasher \/ UNCHANGED vars
    BY <2>2, HasherAside DEF Cancel, EditSource, vars, reportVars
  <2>3. ASSUME NEW w \in Workers, Worker(w) \/ Budget(w) \/ Request(w)
        PROVE  Grows(snap, snap')
    <3>1. ~PoolOver(hasher, act) /\ Counts(snap, snap')
      BY <1>1, <2>3, WorkerAside
    <3>2. snap.phase = "transferring"
      BY <1>1, <3>1, TailReads DEF TailOK
    <3> QED BY <3>1, <3>2 DEF Counts, Rank
  <2>4. CASE Budget(Main) \/ Request(Main)
    <3>1. /\ snap.phase = "finalizing"
          /\ snap' = [snap EXCEPT !.phase = snap'.phase]
          /\ snap'.phase \in {"finalizing", "done", "failed"}
      BY <1>1, <2>4, MainAccounts
    <3>2. /\ snap'.parts = snap.parts /\ snap'.bytes = snap.bytes
          /\ snap'.skipped = snap.skipped
      BY <2>1, <3>1 DEF Snapshot
    <3>3. Rank(snap.phase) < Rank(snap'.phase) \/ snap.phase = snap'.phase
      BY <3>1 DEF Rank
    <3> QED BY <2>1, <3>1, <3>2, <3>3 DEF Rank
  <2>5. CASE GroupDone
    <3>1. /\ snap.phase = "transferring" /\ snap'.phase \in {"finalizing", "failed"}
          /\ Counts([snap EXCEPT !.phase = snap'.phase], snap')
      BY <1>1, <2>5, GroupTails
    <3>2. /\ snap.parts <= snap'.parts /\ snap.bytes <= snap'.bytes
          /\ snap.skipped <= snap'.skipped
      BY <2>1, <3>1 DEF Counts, Snapshot
    <3>3. Rank(snap.phase) < Rank(snap'.phase) /\ Rank(snap.phase) < 3
      BY <3>1 DEF Rank
    <3> QED BY <3>2, <3>3
  <2> QED BY <1>1, <2>2, <2>3, <2>4, <2>5 DEF Next, Returned, Actors
<1>2. PushInv /\ TailInv /\ [Next]_vars =>
        [/\ Rank(snap.phase) < Rank(snap'.phase) \/ snap.phase = snap'.phase
         /\ snap.parts <= snap'.parts /\ snap.bytes <= snap'.bytes
         /\ snap.skipped <= snap'.skipped
         /\ Rank(snap.phase) < 3]_snap
  BY <1>1
<1> QED BY <1>2, TailInvHolds, PTL DEF Spec, AccountOnlyGrows

-----------------------------------------------------------------------------
(* A push publishes as Publication promises. *)

Held(s) == {b \in Blobs : s[b] # None}
Outcome(phase) == IF phase \in {"done", "failed"} THEN phase ELSE "running"

\* A step of Publication, said of what a push shows of it.
PubStep(held, artifact, outcome, stock, found, told) ==
    \/ stock = held /\ found = artifact /\ told = outcome
    \/ /\ outcome = "running" /\ told = outcome /\ found = artifact
       /\ \E b \in Blobs : stock = held \cup {b}
    \/ /\ outcome = "running" /\ told = outcome /\ stock = held /\ artifact = None
       /\ found \in [Parts -> Contents]
       /\ {found[i] : i \in DOMAIN found} \cup {EmptyConfig} \subseteq held
    \/ /\ outcome = "running" /\ stock = held /\ found = artifact
       /\ told = "failed" \/ (told = "done" /\ artifact # None)

LEMMA PubStepMaps ==
    PubStep(Held(stored), manifest, Outcome(snap.phase),
            Held(stored'), manifest', Outcome(snap'.phase)) =>
        [Promise!PubNext]_(Promise!pubVars)
  BY DEF PubStep, Held, Outcome, Promise!PubNext, Promise!pubVars, Promise!Store,
         Promise!Publish, Promise!TellDone, Promise!TellFailed, Promise!NamedBy

\* A blob that lands is one more blob in the repository.
LEMMA BlobLands ==
    ASSUME PushInv, NEW a \in Actors, PutLands(a), act[a].unit # "manifest"
    PROVE  manifest' = manifest /\ \E b \in Blobs : Held(stored') = Held(stored) \cup {b}
<1>1. /\ act[a].pc = "put" /\ BodyVerified(a) /\ stored \in [Blobs -> Blobs \cup {None}]
  BY DEF PutLands, At, PushInv, TypeOK
<1>2. /\ Blob(a) \in Blobs /\ act[a].unit \in {"part", "config"}
      /\ act[a].unit = "config" => Blob(a) = EmptyConfig
  BY <1>1, AtWork DEF Actors, Blobs, PutLands
<1>3. PICK b \in Blobs : b = Blob(a)
  BY <1>2
<1>4. stored' = [stored EXCEPT ![b] = b] /\ manifest' = manifest
  BY <1>1, <1>2, <1>3 DEF PutLands, BodyVerified
<1>5. b # None
  BY <1>3, PushAssumption DEF PushAssumption
<1>6. \A c \in Blobs : c \in Held(stored') <=> c \in Held(stored) \cup {b}
  BY <1>1, <1>4, <1>5 DEF Held
<1>7. Held(stored') = Held(stored) \cup {b}
  BY <1>6 DEF Held
<1> QED BY <1>4, <1>7

\* A manifest that lands is published over its blobs, or lands again.
LEMMA ManifestLands ==
    ASSUME PushInv, PushInv', TailInv, NEW a \in Actors, PutLands(a), act[a].unit = "manifest"
    PROVE  /\ stored' = stored
           /\ \/ manifest' = manifest
              \/ /\ manifest = None /\ manifest' \in [Parts -> Contents]
                 /\ {manifest'[i] : i \in DOMAIN manifest'} \cup {EmptyConfig} \subseteq Held(stored)
<1>1. stored' = stored /\ manifest' = recorded
  BY DEF PutLands
<1>2. manifest = None \/ manifest' = manifest
  BY <1>1, TailReads DEF TailOK
<1>3. ASSUME manifest' # None
      PROVE  /\ manifest' \in [Parts -> Contents]
             /\ {manifest'[i] : i \in DOMAIN manifest'} \cup {EmptyConfig} \subseteq Held(stored)
  <2>1. /\ \A i \in Parts : manifest'[i] \in Contents /\ stored'[manifest'[i]] # None
        /\ stored'[EmptyConfig] # None /\ manifest' \in [Parts -> Contents]
    BY <1>3 DEF PushInv, ManifestIsWhole, TypeOK
  <2>2. DOMAIN manifest' = Parts
    BY <2>1
  <2>3. \A i \in Parts : manifest'[i] \in Held(stored)
    BY <1>1, <2>1 DEF Held, Blobs
  <2>4. EmptyConfig \in Held(stored)
    BY <1>1, <2>1 DEF Held, Blobs
  <2>5. {manifest'[i] : i \in DOMAIN manifest'} \subseteq Held(stored)
    BY <2>2, <2>3
  <2> QED BY <2>1, <2>4, <2>5
<1>4. CASE manifest' = None
  BY <1>1, <1>2, <1>4
<1> QED BY <1>1, <1>2, <1>3, <1>4

LEMMA PushStepMaps ==
    ASSUME PushInv, TailInv, PushInv', [Next]_vars
    PROVE  PubStep(Held(stored), manifest, Outcome(snap.phase),
                   Held(stored'), manifest', Outcome(snap'.phase))
<1>1. CASE Cancel \/ EditSource \/ Hasher \/ UNCHANGED vars
  BY <1>1, HasherAside DEF Cancel, EditSource, vars, registryVars, reportVars, PubStep
<1>2. ASSUME NEW a \in Actors, PutLands(a), snap.phase \in {"transferring", "finalizing"},
             snap'.phase = snap.phase
      PROVE  PubStep(Held(stored), manifest, Outcome(snap.phase),
                     Held(stored'), manifest', Outcome(snap'.phase))
  <2>1. Outcome(snap.phase) = "running"
    BY <1>2 DEF Outcome
  <2>2. CASE act[a].unit # "manifest"
    BY <1>2, <2>1, <2>2, BlobLands DEF PubStep
  <2>3. CASE act[a].unit = "manifest"
    BY <1>2, <2>1, <2>3, ManifestLands DEF PubStep
  <2> QED BY <2>2, <2>3
<1>3. ASSUME NEW w \in Workers, Worker(w) \/ Budget(w) \/ Request(w)
      PROVE  PubStep(Held(stored), manifest, Outcome(snap.phase),
                     Held(stored'), manifest', Outcome(snap'.phase))
  <2>1. /\ ~PoolOver(hasher, act) /\ snap'.phase = snap.phase /\ manifest' = manifest
        /\ stored' = stored \/ PutLands(w)
    BY <1>3, WorkerAside DEF Counts
  <2>2. snap.phase = "transferring"
    BY <2>1, TailReads DEF TailOK
  <2>3. CASE stored' = stored
    BY <2>1, <2>3 DEF PubStep
  <2> QED BY <1>2, <2>1, <2>2, <2>3 DEF Actors
<1>4. CASE Budget(Main) \/ Request(Main)
  <2>1. /\ snap.phase = "finalizing"
        /\ snap'.phase \in {"finalizing", "done", "failed"}
        /\ \/ stored' = stored /\ manifest' = manifest
           \/ PutLands(Main) /\ snap' = snap
        /\ snap'.phase = "done" => manifest # None
    BY <1>4, MainAccounts
  <2>2. CASE stored' = stored /\ manifest' = manifest
    BY <2>1, <2>2 DEF PubStep, Outcome
  <2> QED BY <1>2, <2>1, <2>2 DEF Actors
<1>5. CASE GroupDone
  BY <1>5, GroupTails DEF PubStep, Outcome
<1> QED BY <1>1, <1>3, <1>4, <1>5 DEF Next, Returned, Actors

LEMMA PushInitMaps == Init => Promise!PubInit
<1> SUFFICES ASSUME Init PROVE Promise!PubInit
  OBVIOUS
<1>1. snap.phase = "transferring" /\ manifest = None
  BY DEF Init
<1> QED BY <1>1 DEF Promise!PubInit

\* A push publishes as Publication promises, for every file, pool, budget and
\* set of contents: blobs only accumulate, the artifact appears at once, over
\* blobs that are there, it never changes, and "done" is said only of it.
THEOREM PublicationHolds == Spec => PublishesAtomically
<1>1. (PushInv /\ TailInv) /\ (PushInv /\ TailInv)' /\ [Next]_vars =>
          [Promise!PubNext]_(Promise!pubVars)
  BY PushStepMaps, PubStepMaps
<1> QED BY <1>1, PushInitMaps, TailInvHolds, PTL
        DEF Spec, PublishesAtomically, Promise!PubSpec

-----------------------------------------------------------------------------
(* Where the received parts are. *)

LEMMA PlacesDiffer ==
    /\ \A w \in Workers : Own(w) \in Places /\ Owed(w) \in Places
    /\ \A c \in Contents : Waits(c) \in Places
    /\ Counted \in Places /\ Lost \in Places /\ Counted # Lost
    /\ \A w, v \in Workers : /\ Own(w) # Owed(v) /\ Own(w) # Counted /\ Own(w) # Lost
                             /\ Owed(w) # Counted /\ Owed(w) # Lost
                             /\ Own(w) = Own(v) => w = v
                             /\ Owed(w) = Owed(v) => w = v
    /\ \A w \in Workers, c \in Contents : Own(w) # Waits(c) /\ Owed(w) # Waits(c)
    /\ \A c, d \in Contents : /\ Waits(c) # Counted /\ Waits(c) # Lost
                              /\ Waits(c) = Waits(d) => c = d
    /\ \A x \in Places : \/ \E w \in Workers : x = Own(w) \/ x = Owed(w)
                         \/ \E c \in Contents : x = Waits(c)
                         \/ x = Counted \/ x = Lost
  BY DEF Places, Own, Owed, Waits, Counted, Lost

LEMMA PartsAreFinite ==
    ASSUME NEW n \in Nat, NEW place \in [0 .. n - 1 -> Places], NEW x
    PROVE  /\ IsFiniteSet(PartsIn(place, x)) /\ PartsIn(place, x) \subseteq 0 .. n - 1
           /\ Cardinality(PartsIn(place, x)) \in Nat
           /\ Cardinality(PartsIn(place, x)) = 0 <=> PartsIn(place, x) = {}
<1>1. IsFiniteSet(0 .. n - 1)
  BY FS_Interval
<1>2. PartsIn(place, x) \subseteq 0 .. n - 1
  BY DEF PartsIn
<1>3. IsFiniteSet(PartsIn(place, x))
  BY <1>1, <1>2, FS_Subset
<1> QED BY <1>2, <1>3, FS_EmptySet, FS_CardinalityType

\* The parts at x move on to y.
Merge(place, x, y) == [i \in DOMAIN place |-> IF place[i] = x THEN y ELSE place[i]]

LEMMA Merges ==
    ASSUME NEW n \in Nat, NEW place \in [0 .. n - 1 -> Places],
           NEW x \in Places, NEW y \in Places, x # y
    PROVE  /\ Merge(place, x, y) \in [0 .. n - 1 -> Places]
           /\ PartsIn(Merge(place, x, y), x) = {}
           /\ PartsIn(Merge(place, x, y), y) = PartsIn(place, y) \cup PartsIn(place, x)
           /\ Cardinality(PartsIn(Merge(place, x, y), y)) =
                Cardinality(PartsIn(place, y)) + Cardinality(PartsIn(place, x))
           /\ \A z : z # x /\ z # y => PartsIn(Merge(place, x, y), z) = PartsIn(place, z)
<1> DEFINE m == Merge(place, x, y)
           p == PartsIn(place, x)
           q == PartsIn(place, y)
<1>1. /\ m \in [0 .. n - 1 -> Places]
      /\ \A i \in 0 .. n - 1 : m[i] = IF place[i] = x THEN y ELSE place[i]
  BY DEF Merge
<1>2. /\ DOMAIN m = 0 .. n - 1 /\ DOMAIN place = 0 .. n - 1
  BY <1>1
<1> HIDE DEF m
<1>3. PartsIn(m, x) = {} /\ PartsIn(m, y) = q \cup p
  BY <1>1, <1>2 DEF PartsIn
<1>4. \A z : z # x /\ z # y => PartsIn(m, z) = PartsIn(place, z)
  BY <1>1, <1>2 DEF PartsIn
<1>5. p \cap q = {}
  BY DEF PartsIn
<1>6. /\ IsFiniteSet(p) /\ IsFiniteSet(q)
      /\ Cardinality(p) \in Nat /\ Cardinality(q) \in Nat
  BY PartsAreFinite
<1> HIDE DEF p, q
<1>7. Cardinality(q \cup p) = Cardinality(q) + Cardinality(p)
  <2>1. Cardinality(q \cap p) = 0
    <3>1. q \cap p = {}
      BY <1>5
    <3> QED BY <3>1, FS_EmptySet
  <2>2. Cardinality(q \cup p) = Cardinality(q) + Cardinality(p) - Cardinality(q \cap p)
    BY <1>6, FS_Union
  <2> QED BY <1>6, <2>1, <2>2
<1> QED BY <1>1, <1>3, <1>4, <1>7 DEF m, p, q

\* A part is received, and goes to x.
Extend(place, n, x) == [i \in 0 .. n |-> IF i = n THEN x ELSE place[i]]

LEMMA Extends ==
    ASSUME NEW n \in Nat, NEW place \in [0 .. n - 1 -> Places], NEW x \in Places
    PROVE  /\ Extend(place, n, x) \in [0 .. (n + 1) - 1 -> Places]
           /\ PartsIn(Extend(place, n, x), x) = PartsIn(place, x) \cup {n}
           /\ Cardinality(PartsIn(Extend(place, n, x), x)) =
                Cardinality(PartsIn(place, x)) + 1
           /\ \A z : z # x => PartsIn(Extend(place, n, x), z) = PartsIn(place, z)
<1> DEFINE m == Extend(place, n, x)
           p == PartsIn(place, x)
<1>1. /\ (n + 1) - 1 = n /\ n \notin 0 .. n - 1
      /\ \A i : i \in 0 .. n <=> i \in 0 .. n - 1 \/ i = n
  OBVIOUS
<1>2. /\ m \in [0 .. n -> Places] /\ m[n] = x /\ \A i \in 0 .. n - 1 : m[i] = place[i]
      /\ DOMAIN m = 0 .. n /\ DOMAIN place = 0 .. n - 1
  BY <1>1 DEF Extend
<1> HIDE DEF m
<1>3. /\ PartsIn(m, x) = p \cup {n} /\ n \notin p
      /\ \A z : z # x => PartsIn(m, z) = PartsIn(place, z)
  BY <1>1, <1>2 DEF PartsIn
<1>4. IsFiniteSet(p)
  BY PartsAreFinite
<1>5. Cardinality(p \cup {n}) = Cardinality(p) + 1
  BY <1>3, <1>4, FS_AddElement
<1> QED BY <1>1, <1>2, <1>3, <1>5 DEF m, p

\* PlacesInv, said of values.
Busy(q) == q.pc \notin {"idle", "left", "twins"}
Crediting(q) == q.pc \in {"credit", "twins"}

WorkerPlaces(place, w, q, rec) ==
    /\ PartsIn(place, Own(w)) = IF Busy(q) THEN {q.part} ELSE {}
    /\ Cardinality(PartsIn(place, Owed(w))) = q.owed
    /\ \A i \in PartsIn(place, Owed(w)) : rec[i] = rec[q.part]

ClaimPlaces(place, c, k, rec) ==
    /\ Cardinality(PartsIn(place, Waits(c))) = k
    /\ \A i \in PartsIn(place, Waits(c)) : rec[i] = c

CountedPlaces(place, cl, rec, parts, bytes, cr) ==
    /\ Cardinality(PartsIn(place, Counted)) = parts
    /\ \A i \in PartsIn(place, Counted) : cl[rec[i]].state = "done"
    /\ bytes + (IF LastPart \in PartsIn(place, Counted) THEN ShortBy ELSE 0) = parts * PartSize
    /\ cr \subseteq PartsIn(place, Counted)

PlacesOK(place, n, cl, ac, rec, sn, cr, failed) ==
    /\ place \in [0 .. n - 1 -> Places]
    /\ \A w \in Workers : WorkerPlaces(place, w, ac[w], rec)
    /\ \A c \in Contents : ClaimPlaces(place, c, cl[c].waiting, rec)
    /\ CountedPlaces(place, cl, rec, sn.parts, sn.bytes, cr)
    /\ ~failed => PartsIn(place, Lost) = {}

OwesOK(q, n, cl, rec) ==
    /\ Crediting(q) => q.part < n /\ cl[rec[q.part]].state = "done"
    /\ ~Crediting(q) => q.owed = 0

OwingOK(n, cl, ac, rec) ==
    /\ \A w \in Workers : OwesOK(ac[w], n, cl, rec)
    /\ \A c \in Contents : cl[c].state # "pending" => cl[c].waiting = 0

LEMMA PlacesReads ==
    /\ PlacesInv <=>
         /\ \E place : PlacesOK(place, taken, claims, act, recorded, snap, credited, groupErr)
         /\ OwingOK(taken, claims, act, recorded)
    /\ PlacesInv' <=>
         /\ \E place : PlacesOK(place, taken', claims', act', recorded', snap', credited', groupErr')
         /\ OwingOK(taken', claims', act', recorded')
<1>1. PlacesInv <=>
         /\ \E place : PlacesOK(place, taken, claims, act, recorded, snap, credited, groupErr)
         /\ OwingOK(taken, claims, act, recorded)
  BY DEF PlacesInv, PlaceOfEach, PlacesOK, OwingOK, OwesOK, WorkerPlaces, ClaimPlaces,
         CountedPlaces, Busy, Crediting, Holding
<1>2. PlacesInv' <=>
         /\ \E place : PlacesOK(place, taken', claims', act', recorded', snap', credited', groupErr')
         /\ OwingOK(taken', claims', act', recorded')
  BY DEF PlacesInv, PlaceOfEach, PlacesOK, OwingOK, OwesOK, WorkerPlaces, ClaimPlaces,
         CountedPlaces, Busy, Crediting, Holding
<1> QED BY <1>1, <1>2

\* A step that moves no part.
LEMMA PlacesStay ==
    ASSUME PlacesInv, TypeOK,
           taken' = taken, claims' = claims, credited' = credited,
           snap'.parts = snap.parts, snap'.bytes = snap.bytes,
           groupErr => groupErr',
           \A i \in Parts : i < taken => recorded'[i] = recorded[i],
           \A w \in Workers : /\ act'[w].part = act[w].part /\ act'[w].owed = act[w].owed
                              /\ Busy(act'[w]) <=> Busy(act[w])
                              /\ Crediting(act'[w]) <=> Crediting(act[w])
    PROVE  PlacesInv'
<1>1. OwingOK(taken, claims, act, recorded)
  BY PlacesReads
<1>2. PICK place : PlacesOK(place, taken, claims, act, recorded, snap, credited, groupErr)
  BY PlacesReads
<1>3. taken \in Nat /\ place \in [0 .. taken - 1 -> Places] /\ taken <= NumParts
  BY <1>2, PlanFacts DEF TypeOK, PlacesOK
<1>4. \A x : PartsIn(place, x) \subseteq 0 .. taken - 1
  BY <1>3, PartsAreFinite
<1>5. \A x : \A i \in PartsIn(place, x) : recorded'[i] = recorded[i]
  BY <1>3, <1>4, PlanFacts DEF Parts
<1>6. \A w \in Workers : act[w].part \in Parts /\ act[w] \in Actor
  BY DEF TypeOK, Actors, Actor
<1>7. ASSUME NEW w \in Workers, Crediting(act[w])
      PROVE  act[w].part < taken /\ recorded'[act[w].part] = recorded[act[w].part]
  BY <1>1, <1>6, <1>7 DEF OwingOK, OwesOK
<1>8. ASSUME NEW w \in Workers PROVE WorkerPlaces(place, w, act'[w], recorded')
  <2>1. WorkerPlaces(place, w, act[w], recorded)
    BY <1>2 DEF PlacesOK
  <2>2. CASE Crediting(act[w])
    BY <1>5, <1>7, <2>1, <2>2 DEF WorkerPlaces
  <2>3. CASE ~Crediting(act[w])
    <3>1. act[w].owed = 0
      BY <1>1, <2>3 DEF OwingOK, OwesOK
    <3>2. PartsIn(place, Owed(w)) = {}
      BY <1>3, <2>1, <3>1, PartsAreFinite DEF WorkerPlaces
    <3> QED BY <2>1, <3>2 DEF WorkerPlaces
  <2> QED BY <2>2, <2>3
<1>9. \A c \in Contents : ClaimPlaces(place, c, claims'[c].waiting, recorded')
  BY <1>2, <1>5 DEF PlacesOK, ClaimPlaces
<1>10. CountedPlaces(place, claims', recorded', snap'.parts, snap'.bytes, credited')
  BY <1>2, <1>5 DEF PlacesOK, CountedPlaces
<1>11. PlacesOK(place, taken', claims', act', recorded', snap', credited', groupErr')
  BY <1>2, <1>3, <1>8, <1>9, <1>10 DEF PlacesOK
<1>12. OwingOK(taken', claims', act', recorded')
  BY <1>1, <1>7 DEF OwingOK, OwesOK
<1> QED BY <1>11, <1>12, PlacesReads

\* A worker leaves with an error, and what it held is lost with it.
LEMMA PlacesLost ==
    ASSUME PlacesInv, TypeOK, NEW w \in Workers, Busy(act[w]), ~Crediting(act[w]),
           UNCHANGED <<taken, claims, credited, recorded>>,
           snap'.parts = snap.parts, snap'.bytes = snap.bytes,
           groupErr', act' = [act EXCEPT ![w] = act'[w]],
           act'[w].pc = "left", act'[w].owed = act[w].owed, act'[w].part = act[w].part
    PROVE  PlacesInv'
<1>1. OwingOK(taken, claims, act, recorded)
  BY PlacesReads
<1>2. PICK place : PlacesOK(place, taken, claims, act, recorded, snap, credited, groupErr)
  BY PlacesReads
<1>3. taken \in Nat /\ place \in [0 .. taken - 1 -> Places]
  BY <1>2, PlanFacts DEF TypeOK, PlacesOK
<1> DEFINE new == Merge(place, Own(w), Lost)
<1>4. /\ new \in [0 .. taken - 1 -> Places] /\ PartsIn(new, Own(w)) = {}
      /\ \A x : x # Own(w) /\ x # Lost => PartsIn(new, x) = PartsIn(place, x)
  BY <1>3, Merges, PlacesDiffer
<1> HIDE DEF new
<1>5. \A v \in Workers : v # w => act'[v] = act[v]
  BY DEF TypeOK, Actors
<1>6. ASSUME NEW v \in Workers PROVE WorkerPlaces(new, v, act'[v], recorded')
  <2>1. WorkerPlaces(place, v, act[v], recorded)
    BY <1>2 DEF PlacesOK
  <2>2. PartsIn(new, Owed(v)) = PartsIn(place, Owed(v))
    BY <1>4, PlacesDiffer
  <2>3. CASE v = w
    BY <1>4, <2>1, <2>2, <2>3 DEF WorkerPlaces, Busy
  <2>4. CASE v # w
    <3>1. PartsIn(new, Own(v)) = PartsIn(place, Own(v))
      BY <1>4, <2>4, PlacesDiffer
    <3> QED BY <1>5, <2>1, <2>2, <2>4, <3>1 DEF WorkerPlaces
  <2> QED BY <2>3, <2>4
<1>7. ASSUME NEW c \in Contents PROVE ClaimPlaces(new, c, claims'[c].waiting, recorded')
  <2>1. PartsIn(new, Waits(c)) = PartsIn(place, Waits(c))
    BY <1>4, PlacesDiffer
  <2> QED BY <1>2, <2>1 DEF PlacesOK, ClaimPlaces
<1>8. CountedPlaces(new, claims', recorded', snap'.parts, snap'.bytes, credited')
  <2>1. PartsIn(new, Counted) = PartsIn(place, Counted)
    BY <1>4, PlacesDiffer
  <2> QED BY <1>2, <2>1 DEF PlacesOK, CountedPlaces
<1>9. PlacesOK(new, taken', claims', act', recorded', snap', credited', groupErr')
  BY <1>4, <1>6, <1>7, <1>8 DEF PlacesOK
<1>10. OwingOK(taken', claims', act', recorded')
  BY <1>1, <1>5 DEF OwingOK, OwesOK, Crediting
<1> QED BY <1>9, <1>10, PlacesReads

\* Settling hands the parts that waited for the claim to its worker.
LEMMA PlacesSettle ==
    ASSUME PushInv, PlacesInv, NEW w \in Workers, Settle(w)
    PROVE  PlacesInv'
<1>1. OwingOK(taken, claims, act, recorded)
  BY PlacesReads
<1>2. PICK place : PlacesOK(place, taken, claims, act, recorded, snap, credited, groupErr)
  BY PlacesReads
<1>3. taken \in Nat /\ place \in [0 .. taken - 1 -> Places] /\ act[w] \in Actor
      /\ act \in [Actors -> Actor] /\ w \in Actors /\ claims \in [Contents -> Claim]
  BY <1>2, PlanFacts DEF PushInv, TypeOK, PlacesOK, Actors
<1>4. /\ act[w].pc = "settle" /\ act[w].unit = "part" /\ act[w].part < taken
      /\ UNCHANGED <<recorded, taken, groupErr, snap, credited>>
  BY DEF Settle, At, PushInv, PlaceInv, passVars, reportVars
<1>5. PICK d : d = recorded[act[w].part]
  OBVIOUS
<1>6. /\ d \in Contents /\ Blob(w) = d
  <2>1. act[w].part \in Parts /\ act[w].part < hashed
    BY <1>3, <1>4, PlanFacts DEF PushInv, PassInv, TypeOK, Actor, Parts
  <2> QED BY <1>4, <1>5, <2>1 DEF PushInv, PassInv, Blob
<1>7. /\ act' = [act EXCEPT ![w].pc = "credit", ![w].owed = claims[d].waiting]
      /\ claims' = [claims EXCEPT ![d] = [state |-> "done", waiting |-> 0]]
  BY <1>6 DEF Settle, OwedBy
<1>8. /\ act'[w].pc = "credit" /\ act'[w].owed = claims[d].waiting
      /\ act'[w].part = act[w].part /\ act[w].owed = 0
      /\ \A v \in Workers : v # w => act'[v] = act[v]
  BY <1>1, <1>3, <1>4, <1>7 DEF Actor, Actors, OwingOK, OwesOK, Crediting
<1>9. /\ claims'[d].state = "done" /\ claims'[d].waiting = 0
      /\ \A c \in Contents : c # d => claims'[c] = claims[c]
      /\ \A c \in Contents : claims[c].state = "done" => claims'[c].state = "done"
  BY <1>3, <1>6, <1>7
<1> DEFINE new == Merge(place, Waits(d), Owed(w))
<1>10. /\ new \in [0 .. taken - 1 -> Places] /\ PartsIn(new, Waits(d)) = {}
       /\ PartsIn(new, Owed(w)) = PartsIn(place, Owed(w)) \cup PartsIn(place, Waits(d))
       /\ Cardinality(PartsIn(new, Owed(w))) =
            Cardinality(PartsIn(place, Owed(w))) + Cardinality(PartsIn(place, Waits(d)))
       /\ \A x : x # Waits(d) /\ x # Owed(w) => PartsIn(new, x) = PartsIn(place, x)
  BY <1>3, <1>6, Merges, PlacesDiffer
<1> HIDE DEF new
<1>11. /\ WorkerPlaces(place, w, act[w], recorded)
       /\ ClaimPlaces(place, d, claims[d].waiting, recorded)
  BY <1>2, <1>6 DEF PlacesOK
<1>12. ASSUME NEW v \in Workers PROVE WorkerPlaces(new, v, act'[v], recorded')
  <2>1. WorkerPlaces(place, v, act[v], recorded)
    BY <1>2 DEF PlacesOK
  <2>2. PartsIn(new, Own(v)) = PartsIn(place, Own(v))
    BY <1>6, <1>10, PlacesDiffer
  <2>3. CASE v = w
    <3>1. PartsIn(place, Owed(w)) = {}
      BY <1>3, <1>8, <1>11, PartsAreFinite DEF WorkerPlaces
    <3>2. PartsIn(new, Owed(w)) = PartsIn(place, Waits(d))
      BY <1>10, <3>1
    <3> QED BY <1>4, <1>5, <1>8, <1>11, <2>2, <2>3, <3>2
            DEF WorkerPlaces, ClaimPlaces, Busy
  <2>4. CASE v # w
    <3>1. PartsIn(new, Owed(v)) = PartsIn(place, Owed(v))
      BY <1>6, <1>10, <2>4, PlacesDiffer
    <3> QED BY <1>4, <1>8, <2>1, <2>2, <2>4, <3>1 DEF WorkerPlaces
  <2> QED BY <2>3, <2>4
<1>13. ASSUME NEW c \in Contents PROVE ClaimPlaces(new, c, claims'[c].waiting, recorded')
  <2>1. CASE c = d
    BY <1>9, <1>10, <2>1, FS_EmptySet DEF ClaimPlaces
  <2>2. CASE c # d
    <3>1. PartsIn(new, Waits(c)) = PartsIn(place, Waits(c))
      BY <1>6, <1>10, <2>2, PlacesDiffer
    <3> QED BY <1>2, <1>4, <1>9, <2>2, <3>1 DEF PlacesOK, ClaimPlaces
  <2> QED BY <2>1, <2>2
<1>14. \A i \in 0 .. taken - 1 : recorded[i] \in Contents
  BY <1>3, PlanFacts DEF PushInv, PassInv, TypeOK, Parts
<1>15. CountedPlaces(new, claims', recorded', snap'.parts, snap'.bytes, credited')
  <2>1. PartsIn(new, Counted) = PartsIn(place, Counted)
    BY <1>6, <1>10, PlacesDiffer
  <2>2. PartsIn(place, Counted) \subseteq 0 .. taken - 1
    BY <1>3, PartsAreFinite
  <2> QED BY <1>2, <1>4, <1>9, <1>14, <2>1, <2>2 DEF PlacesOK, CountedPlaces
<1>16. PlacesOK(new, taken', claims', act', recorded', snap', credited', groupErr')
  <2>1. PartsIn(new, Lost) = PartsIn(place, Lost)
    BY <1>6, <1>10, PlacesDiffer
  <2> QED BY <1>2, <1>4, <1>10, <1>12, <1>13, <1>15, <2>1 DEF PlacesOK
<1>17. ASSUME NEW v \in Workers PROVE OwesOK(act'[v], taken', claims', recorded')
  <2>1. CASE v = w
    BY <1>4, <1>5, <1>8, <1>9, <2>1 DEF OwesOK, Crediting
  <2>2. CASE v # w
    <3>1. OwesOK(act[v], taken, claims, recorded) /\ act'[v] = act[v]
      BY <1>1, <1>8, <2>2 DEF OwingOK
    <3>2. act[v].part \in Parts
      BY <1>3 DEF Actors, Actor
    <3>3. act[v].part < taken => recorded[act[v].part] \in Contents
      BY <1>3, <1>14, <3>2, PlanFacts DEF Parts
    <3> QED BY <1>4, <1>9, <3>1, <3>3 DEF OwesOK
  <2> QED BY <2>1, <2>2
<1>18. OwingOK(taken', claims', act', recorded')
  BY <1>1, <1>9, <1>17 DEF OwingOK
<1> QED BY <1>16, <1>18, PlacesReads

\* Every part but the last is PartSize long; ShortBy is what the last lacks.
LEMMA LengthsOfParts ==
    /\ LastPart \in Parts /\ PartSize \in Nat /\ FileSize \in Nat
    /\ \A i \in Parts : i # LastPart => PartLength(i) = PartSize
    /\ ShortBy \in Nat /\ PartLength(LastPart) \in Nat
    /\ PartLength(LastPart) + ShortBy = PartSize
    /\ NumParts * PartSize = FileSize + ShortBy
<1>1. FileSize \in Sizes /\ PartSize \in Sizes \ {0} /\ PartSize \in Nat /\ FileSize \in Nat
  BY PushAssumption, PlanAssumption DEF Sizes
<1>2. NumParts = CountParts(FileSize, PartSize) /\ NumParts \in Nat \ {0}
  BY <1>1, PushAssumption, PlanHasParts, PlanAssumption DEF NumParts
<1>3. LastPart \in Parts /\ LastPart + 1 = NumParts /\ LastPart \in Nat
  BY <1>2 DEF LastPart, Parts
<1>4. ASSUME NEW i \in Parts
      PROVE  /\ PartAt(FileSize, PartSize, i).offset = i * PartSize
             /\ PartAt(FileSize, PartSize, i).size = PartLength(i)
             /\ PartLength(i) \in 0 .. PartSize
             /\ i + 1 < NumParts =>
                  i * PartSize + PartLength(i) = PartAt(FileSize, PartSize, i + 1).offset
             /\ i + 1 = NumParts => i * PartSize + PartLength(i) = FileSize
  <2>1. i \in 0 .. CountParts(FileSize, PartSize) - 1
    BY <1>2 DEF Parts
  <2>2. /\ PartAt(FileSize, PartSize, i).offset = i * PartSize
        /\ PartAt(FileSize, PartSize, i).size \in 0 .. PartSize
    BY <1>1, <2>1, PartInFile
  <2> QED BY <1>1, <1>2, <2>1, <2>2, PartsTile DEF PartLength
<1>5. ASSUME NEW i \in Parts, i # LastPart PROVE PartLength(i) = PartSize
  <2>1. i + 1 \in Parts /\ i + 1 < NumParts /\ i \in Nat
    BY <1>2, <1>3, <1>5 DEF Parts
  <2>2. i * PartSize + PartLength(i) = (i + 1) * PartSize
    BY <1>4, <2>1
  <2>3. (i + 1) * PartSize = i * PartSize + PartSize
    BY <1>1, <2>1
  <2>4. PartLength(i) \in Nat /\ i * PartSize \in Nat
    BY <1>1, <1>4, <2>1
  <2> QED BY <1>1, <2>2, <2>3, <2>4
<1>6. PartLength(LastPart) \in 0 .. PartSize /\ LastPart * PartSize + PartLength(LastPart) = FileSize
  BY <1>3, <1>4
<1>7. NumParts * PartSize = LastPart * PartSize + PartSize
  BY <1>1, <1>3
<1>8. LastPart * PartSize \in Nat
  BY <1>1, <1>3
<1>9. ShortBy = PartSize - PartLength(LastPart)
  BY DEF ShortBy
<1> HIDE DEF LastPart, ShortBy
<1> QED BY <1>1, <1>3, <1>5, <1>6, <1>7, <1>8, <1>9

\* Counting more parts of one length keeps the bytes in step.
LEMMA BytesInStep ==
    ASSUME NEW m \in Nat, NEW place \in [0 .. m - 1 -> Places],
           NEW o \in SUBSET Parts, IsFiniteSet(o), o \cap PartsIn(place, Counted) = {},
           NEW l \in Nat, \A i \in o : PartLength(i) = l,
           NEW bytes \in Nat, NEW parts \in Nat,
           bytes + (IF LastPart \in PartsIn(place, Counted) THEN ShortBy ELSE 0)
             = parts * PartSize
    PROVE  (bytes + Cardinality(o) * l)
             + (IF LastPart \in PartsIn(place, Counted) \cup o THEN ShortBy ELSE 0)
               = (parts + Cardinality(o)) * PartSize
<1> DEFINE n == Cardinality(o)
           q == PartsIn(place, Counted)
           short == IF LastPart \in q THEN ShortBy ELSE 0
           later == IF LastPart \in q \cup o THEN ShortBy ELSE 0
           moved == n * l
           whole == n * PartSize
           sum == parts * PartSize
<1>1. n \in Nat /\ PartSize \in Nat /\ ShortBy \in Nat
  BY FS_CardinalityType, LengthsOfParts
<1>2. (parts + n) * PartSize = sum + whole
  BY <1>1
<1>3. sum \in Nat /\ whole \in Nat /\ moved \in Nat /\ short \in Nat /\ later \in Nat
  BY <1>1
<1>4. LastPart \in q => LastPart \notin o
  OBVIOUS
<1>5. moved + later = short + whole
  <2>1. CASE o = {}
    <3>1. n = 0 /\ q \cup o = q
      BY <2>1, FS_EmptySet
    <3>2. moved = 0 /\ whole = 0
      BY <1>1, <3>1
    <3>3. later = short
      BY <3>1
    <3> HIDE DEF moved, whole, later, short
    <3> QED BY <1>3, <3>2, <3>3
  <2>2. CASE l = PartSize
    <3>1. LastPart \in o => ShortBy = 0
      <4>1. LastPart \in o => PartLength(LastPart) = PartSize
        BY <2>2
      <4> QED BY <4>1, LengthsOfParts
    <3>2. later = short
      BY <3>1
    <3>3. moved = whole
      BY <2>2
    <3> HIDE DEF moved, whole, later, short
    <3> QED BY <1>3, <3>2, <3>3
  <2>3. CASE o # {} /\ l # PartSize
    <3>1. \A i \in o : i = LastPart
      BY <2>3, LengthsOfParts
    <3>2. o = {LastPart}
      BY <2>3, <3>1
    <3>3. n = 1
      BY <3>2, FS_Singleton
    <3>4. LastPart \notin q /\ LastPart \in q \cup o
      BY <1>4, <3>2
    <3>5. l + ShortBy = PartSize
      BY <3>2, LengthsOfParts
    <3>6. moved = l /\ whole = PartSize
      BY <1>1, <3>3
    <3>7. short = 0 /\ later = ShortBy
      BY <3>4
    <3> HIDE DEF moved, whole, later, short
    <3> QED BY <1>1, <1>3, <3>5, <3>6, <3>7
  <2> QED BY <2>1, <2>2, <2>3
<1>6. bytes + short = sum
  OBVIOUS
<1>7. (bytes + moved) + later = sum + whole
  <2> HIDE DEF moved, whole, later, short, sum
  <2> QED BY <1>3, <1>5, <1>6
<1> QED BY <1>2, <1>7

\* The parts at x are counted: the worker's own, or those it owes.
LEMMA PlacesCount ==
    ASSUME PushInv, RangeInv, NEW w \in Workers, NEW x \in {Own(w), Owed(w)},
           NEW place, PlacesOK(place, taken, claims, act, recorded, snap, credited, groupErr),
           act[w].part < taken, claims[recorded[act[w].part]].state = "done",
           \A i \in PartsIn(place, x) : recorded[i] = recorded[act[w].part],
           NEW n, n = Cardinality(PartsIn(place, x)),
           snap'.parts = snap.parts + n,
           snap'.bytes = snap.bytes + n * PartLength(act[w].part),
           credited' \subseteq credited \cup PartsIn(place, x),
           UNCHANGED <<claims, recorded>>
    PROVE  CountedPlaces(Merge(place, x, Counted), claims', recorded', snap'.parts, snap'.bytes,
                         credited')
<1>1. taken \in Nat /\ place \in [0 .. taken - 1 -> Places] /\ taken <= hashed
      /\ hashed <= NumParts /\ hashed \in Nat
      /\ snap.parts \in Nat /\ snap.bytes \in Nat /\ act[w].part \in Parts
  BY PlanFacts DEF PushInv, TypeOK, PassInv, PlacesOK, Snapshot, Actors, Actor
<1>2. x \in Places /\ x # Counted /\ Counted \in Places
  BY PlacesDiffer
<1> DEFINE new == Merge(place, x, Counted)
           o == PartsIn(place, x)
<1>3. /\ PartsIn(new, Counted) = PartsIn(place, Counted) \cup o
      /\ Cardinality(PartsIn(new, Counted)) = Cardinality(PartsIn(place, Counted)) + n
  BY <1>1, <1>2, Merges
<1>4. /\ o \subseteq 0 .. taken - 1 /\ IsFiniteSet(o) /\ n \in Nat
  BY <1>1, PartsAreFinite
<1>5. CountedPlaces(place, claims, recorded, snap.parts, snap.bytes, credited)
  BY DEF PlacesOK
<1>6. o \in SUBSET Parts /\ o \cap PartsIn(place, Counted) = {}
  <2>1. \A i \in 0 .. taken - 1 : i \in Parts
    BY <1>1, PlanFacts DEF Parts
  <2>2. o \cap PartsIn(place, Counted) = {}
    BY <1>2 DEF PartsIn
  <2> QED BY <1>4, <2>1, <2>2
<1>7. ASSUME NEW i \in o PROVE PartLength(i) = PartLength(act[w].part)
  <2>1. i \in Parts /\ i < hashed /\ act[w].part < hashed
    BY <1>1, <1>4, <1>6 DEF Parts
  <2>2. SizeOf[recorded[i]] = PartLength(i)
        /\ SizeOf[recorded[act[w].part]] = PartLength(act[w].part)
    BY <1>1, <2>1 DEF RangeInv, Ranges
  <2> QED BY <2>2
<1>8. PartLength(act[w].part) \in Nat
  BY <1>1, PlanFacts
<1>9. snap.bytes + (IF LastPart \in PartsIn(place, Counted) THEN ShortBy ELSE 0)
        = snap.parts * PartSize
  BY <1>5 DEF CountedPlaces
<1>10. snap'.bytes + (IF LastPart \in PartsIn(new, Counted) THEN ShortBy ELSE 0)
         = snap'.parts * PartSize
  <2> DEFINE l == PartLength(act[w].part)
  <2>1. \A i \in o : PartLength(i) = l
    BY <1>7
  <2>2. l \in Nat
    BY <1>8
  <2> HIDE DEF l, o, new
  <2>3. (snap.bytes + Cardinality(o) * l)
             + (IF LastPart \in PartsIn(place, Counted) \cup o THEN ShortBy ELSE 0)
               = (snap.parts + Cardinality(o)) * PartSize
    BY <1>1, <1>4, <1>6, <1>9, <2>1, <2>2, BytesInStep
  <2>4. snap'.parts = snap.parts + Cardinality(o) /\ snap'.bytes = snap.bytes + Cardinality(o) * l
    BY DEF o, l
  <2> QED BY <1>3, <2>3, <2>4
<1>11. Cardinality(PartsIn(new, Counted)) = snap'.parts
  BY <1>3, <1>5 DEF CountedPlaces
<1>12. \A i \in PartsIn(new, Counted) : claims'[recorded'[i]].state = "done"
  BY <1>3, <1>5 DEF CountedPlaces
<1>13. credited' \subseteq PartsIn(new, Counted)
  BY <1>3, <1>5 DEF CountedPlaces
<1> QED BY <1>10, <1>11, <1>12, <1>13 DEF CountedPlaces

\* What a merge of x into the counted parts leaves as it was.
LEMMA CountingKeeps ==
    ASSUME PushInv, NEW w \in Workers, NEW x \in {Own(w), Owed(w)},
           NEW place, PlacesOK(place, taken, claims, act, recorded, snap, credited, groupErr),
           UNCHANGED <<claims, recorded, groupErr>>, act' = [act EXCEPT ![w] = act'[w]],
           NEW new, new = Merge(place, x, Counted)
    PROVE  /\ new \in [0 .. taken - 1 -> Places] /\ PartsIn(new, x) = {}
           /\ \A y : y # x /\ y # Counted => PartsIn(new, y) = PartsIn(place, y)
           /\ \A v \in Workers : v # w => WorkerPlaces(new, v, act'[v], recorded')
           /\ \A c \in Contents : ClaimPlaces(new, c, claims'[c].waiting, recorded')
           /\ ~groupErr' => PartsIn(new, Lost) = {}
<1>1. taken \in Nat /\ place \in [0 .. taken - 1 -> Places] /\ act \in [Actors -> Actor]
  BY PlanFacts DEF PushInv, TypeOK, PlacesOK
<1>2. x \in Places /\ x # Counted /\ Counted \in Places
  BY PlacesDiffer
<1>3. /\ new \in [0 .. taken - 1 -> Places] /\ PartsIn(new, x) = {}
      /\ \A y : y # x /\ y # Counted => PartsIn(new, y) = PartsIn(place, y)
  BY <1>1, <1>2, Merges
<1>4. ASSUME NEW v \in Workers, v # w PROVE WorkerPlaces(new, v, act'[v], recorded')
  <2>1. act'[v] = act[v] /\ WorkerPlaces(place, v, act[v], recorded)
    BY <1>1, <1>4 DEF PlacesOK, Actors
  <2>2. /\ PartsIn(new, Own(v)) = PartsIn(place, Own(v))
        /\ PartsIn(new, Owed(v)) = PartsIn(place, Owed(v))
    BY <1>3, <1>4, PlacesDiffer
  <2> QED BY <2>1, <2>2 DEF WorkerPlaces
<1>5. ASSUME NEW c \in Contents PROVE ClaimPlaces(new, c, claims'[c].waiting, recorded')
  <2>1. ClaimPlaces(place, c, claims[c].waiting, recorded)
    BY DEF PlacesOK
  <2>2. PartsIn(new, Waits(c)) = PartsIn(place, Waits(c))
    BY <1>3, PlacesDiffer
  <2> QED BY <2>1, <2>2 DEF ClaimPlaces
<1>6. ~groupErr' => PartsIn(new, Lost) = {}
  <2>1. PartsIn(new, Lost) = PartsIn(place, Lost)
    BY <1>3, PlacesDiffer
  <2> QED BY <2>1 DEF PlacesOK
<1> QED BY <1>3, <1>4, <1>5, <1>6

LEMMA PlacesCredit ==
    ASSUME PushInv, RangeInv, PlacesInv, NEW w \in Workers, Credit(w)
    PROVE  PlacesInv'
<1>1. OwingOK(taken, claims, act, recorded)
  BY PlacesReads
<1>2. PICK place : PlacesOK(place, taken, claims, act, recorded, snap, credited, groupErr)
  BY PlacesReads
<1>3. taken \in Nat /\ place \in [0 .. taken - 1 -> Places] /\ act[w] \in Actor
      /\ act \in [Actors -> Actor] /\ w \in Actors /\ snap \in Snapshot
  BY <1>2, PlanFacts DEF PushInv, TypeOK, PlacesOK, Actors
<1>4. /\ act[w].pc = "credit" /\ act' = [act EXCEPT ![w].pc = "twins"]
      /\ UNCHANGED <<claims, recorded, taken, groupErr>>
  BY DEF Credit, At, Goto, passVars
<1>5. /\ act' = [act EXCEPT ![w] = act'[w]] /\ act'[w].pc = "twins"
      /\ act'[w].part = act[w].part /\ act'[w].owed = act[w].owed
      /\ \A v \in Workers : v # w => act'[v] = act[v]
  BY <1>3, <1>4 DEF Actor, Actors
<1>6. act[w].part < taken /\ claims[recorded[act[w].part]].state = "done"
  BY <1>1, <1>4 DEF OwingOK, OwesOK, Crediting
<1>7. WorkerPlaces(place, w, act[w], recorded)
  BY <1>2 DEF PlacesOK
<1>8. PartsIn(place, Own(w)) = {act[w].part}
  BY <1>4, <1>7 DEF WorkerPlaces, Busy
<1>9. act[w].part \notin credited
  <2>1. credited \subseteq PartsIn(place, Counted)
    BY <1>2 DEF PlacesOK, CountedPlaces
  <2>2. Own(w) # Counted
    BY PlacesDiffer
  <2> QED BY <1>8, <2>1, <2>2 DEF PartsIn
<1>10. /\ credited' = credited \cup PartsIn(place, Own(w))
       /\ snap' = [snap EXCEPT !.parts = @ + 1, !.bytes = @ + PartLength(act[w].part),
                               !.skipped = @ + IF act[w].uploaded THEN 0 ELSE 1]
  BY <1>8, <1>9 DEF Credit
<1>11. snap'.parts = snap.parts + 1 /\ snap'.bytes = snap.bytes + PartLength(act[w].part)
  BY <1>3, <1>10 DEF Snapshot
<1>12. PartLength(act[w].part) \in Nat
  BY <1>3, PlanFacts DEF Actor
<1>13. snap'.bytes = snap.bytes + 1 * PartLength(act[w].part)
  BY <1>11, <1>12
<1>14. 1 = Cardinality(PartsIn(place, Own(w)))
  BY <1>8, FS_Singleton
<1>15. PICK new : new = Merge(place, Own(w), Counted)
  OBVIOUS
<1>16. CountedPlaces(new, claims', recorded', snap'.parts, snap'.bytes, credited')
  BY <1>2, <1>4, <1>6, <1>8, <1>10, <1>11, <1>13, <1>14, <1>15, PlacesCount
<1>17. /\ new \in [0 .. taken - 1 -> Places] /\ PartsIn(new, Own(w)) = {}
       /\ PartsIn(new, Owed(w)) = PartsIn(place, Owed(w))
       /\ \A v \in Workers : v # w => WorkerPlaces(new, v, act'[v], recorded')
       /\ \A c \in Contents : ClaimPlaces(new, c, claims'[c].waiting, recorded')
       /\ ~groupErr' => PartsIn(new, Lost) = {}
  <2>1. Own(w) \in {Own(w), Owed(w)} /\ Owed(w) # Own(w) /\ Owed(w) # Counted
    BY PlacesDiffer
  <2>2. UNCHANGED <<claims, recorded, groupErr>> /\ act' = [act EXCEPT ![w] = act'[w]]
    BY <1>4, <1>5
  <2> QED BY <1>2, <1>15, <2>1, <2>2, CountingKeeps
<1>18. WorkerPlaces(new, w, act'[w], recorded')
  BY <1>4, <1>5, <1>7, <1>17 DEF WorkerPlaces, Busy
<1>19. PlacesOK(new, taken', claims', act', recorded', snap', credited', groupErr')
  BY <1>4, <1>16, <1>17, <1>18 DEF PlacesOK
<1>20. OwingOK(taken', claims', act', recorded')
  BY <1>1, <1>4, <1>5, <1>6 DEF OwingOK, OwesOK, Crediting
<1> QED BY <1>19, <1>20, PlacesReads

LEMMA PlacesTwins ==
    ASSUME PushInv, RangeInv, PlacesInv, NEW w \in Workers, CreditTwins(w)
    PROVE  PlacesInv'
<1>1. OwingOK(taken, claims, act, recorded)
  BY PlacesReads
<1>2. PICK place : PlacesOK(place, taken, claims, act, recorded, snap, credited, groupErr)
  BY PlacesReads
<1>3. taken \in Nat /\ place \in [0 .. taken - 1 -> Places] /\ act[w] \in Actor
      /\ act \in [Actors -> Actor] /\ w \in Actors /\ snap \in Snapshot
  BY <1>2, PlanFacts DEF PushInv, TypeOK, PlacesOK, Actors
<1>4. /\ act[w].pc = "twins" /\ act' = [act EXCEPT ![w] = Fresh("part", "idle")]
      /\ UNCHANGED <<claims, recorded, taken, groupErr, credited>>
  BY DEF CreditTwins, At, passVars
<1>5. /\ act' = [act EXCEPT ![w] = act'[w]] /\ act'[w].pc = "idle" /\ act'[w].owed = 0
      /\ \A v \in Workers : v # w => act'[v] = act[v]
  BY <1>3, <1>4 DEF Actors, Fresh
<1>6. act[w].part < taken /\ claims[recorded[act[w].part]].state = "done"
  BY <1>1, <1>4 DEF OwingOK, OwesOK, Crediting
<1>7. WorkerPlaces(place, w, act[w], recorded)
  BY <1>2 DEF PlacesOK
<1>8. /\ Cardinality(PartsIn(place, Owed(w))) = act[w].owed
      /\ \A i \in PartsIn(place, Owed(w)) : recorded[i] = recorded[act[w].part]
      /\ PartsIn(place, Own(w)) = {}
  BY <1>4, <1>7 DEF WorkerPlaces, Busy
<1> DEFINE n == act[w].owed
           b == n * PartLength(act[w].part)
<1>9. snap' = [snap EXCEPT !.parts = @ + n, !.bytes = @ + b, !.skipped = @ + n]
  BY DEF CreditTwins
<1> HIDE DEF b
<1>10. snap'.parts = snap.parts + n /\ snap'.bytes = snap.bytes + b
  BY <1>3, <1>9 DEF Snapshot
<1>11. PICK new : new = Merge(place, Owed(w), Counted)
  OBVIOUS
<1>12. CountedPlaces(new, claims', recorded', snap'.parts, snap'.bytes, credited')
  BY <1>2, <1>4, <1>6, <1>8, <1>10, <1>11, PlacesCount DEF b
<1>13. /\ new \in [0 .. taken - 1 -> Places] /\ PartsIn(new, Owed(w)) = {}
       /\ PartsIn(new, Own(w)) = PartsIn(place, Own(w))
       /\ \A v \in Workers : v # w => WorkerPlaces(new, v, act'[v], recorded')
       /\ \A c \in Contents : ClaimPlaces(new, c, claims'[c].waiting, recorded')
       /\ ~groupErr' => PartsIn(new, Lost) = {}
  <2>1. Owed(w) \in {Own(w), Owed(w)} /\ Own(w) # Owed(w) /\ Own(w) # Counted
    BY PlacesDiffer
  <2>2. UNCHANGED <<claims, recorded, groupErr>> /\ act' = [act EXCEPT ![w] = act'[w]]
    BY <1>4, <1>5
  <2> QED BY <1>2, <1>11, <2>1, <2>2, CountingKeeps
<1>14. WorkerPlaces(new, w, act'[w], recorded')
  BY <1>5, <1>8, <1>13, FS_EmptySet DEF WorkerPlaces, Busy
<1>15. PlacesOK(new, taken', claims', act', recorded', snap', credited', groupErr')
  BY <1>4, <1>12, <1>13, <1>14 DEF PlacesOK
<1>16. OwingOK(taken', claims', act', recorded')
  BY <1>1, <1>4, <1>5 DEF OwingOK, OwesOK, Crediting
<1> QED BY <1>15, <1>16, PlacesReads

LEMMA PlacesTake ==
    ASSUME PushInv, PlacesInv, NEW w \in Workers, Take(w)
    PROVE  PlacesInv'
<1>1. OwingOK(taken, claims, act, recorded)
  BY PlacesReads
<1>2. PICK place : PlacesOK(place, taken, claims, act, recorded, snap, credited, groupErr)
  BY PlacesReads
<1>3. taken \in Nat /\ place \in [0 .. taken - 1 -> Places] /\ act[w] \in Actor
      /\ act \in [Actors -> Actor] /\ w \in Actors /\ claims \in [Contents -> Claim]
  BY <1>2, PlanFacts DEF PushInv, TypeOK, PlacesOK, Actors
<1>4. /\ act[w].pc = "idle" /\ taken < hashed /\ taken' = taken + 1
      /\ UNCHANGED <<recorded, credited>>
  BY DEF Take, At, passVars
<1>5. \A i \in 0 .. taken : i \in Parts /\ recorded[i] \in Contents
  BY <1>3, <1>4, PlanFacts DEF PushInv, PassInv, TypeOK, Parts
<1>6. PICK d \in Contents : d = recorded[taken]
  BY <1>3, <1>5
<1>7. /\ act[w].owed = 0 /\ WorkerPlaces(place, w, act[w], recorded)
      /\ PartsIn(place, Own(w)) = {} /\ PartsIn(place, Owed(w)) = {}
  <2>1. act[w].owed = 0 /\ WorkerPlaces(place, w, act[w], recorded)
    BY <1>1, <1>2, <1>4 DEF OwingOK, OwesOK, Crediting, PlacesOK
  <2> QED BY <1>3, <1>4, <2>1, PartsAreFinite DEF WorkerPlaces, Busy
<1>8. \A x : \A i \in PartsIn(place, x) : i \in 0 .. taken - 1 /\ recorded[i] \in Contents
  <2>1. \A x : PartsIn(place, x) \subseteq 0 .. taken - 1
    BY <1>3, PartsAreFinite
  <2> QED BY <1>3, <1>5, <2>1
<1>9. \A v \in Workers : act[v].part \in Parts /\ (Crediting(act[v]) => recorded[act[v].part] \in Contents)
  <2>1. \A v \in Workers : act[v].part \in Parts
    BY <1>3 DEF Actors, Actor
  <2>2. \A v \in Workers : Crediting(act[v]) => act[v].part < taken
    BY <1>1 DEF OwingOK, OwesOK
  <2>3. \A i \in Parts : i < taken => i \in 0 .. taken
    BY <1>3, PlanFacts DEF Parts
  <2> QED BY <1>5, <2>1, <2>2, <2>3
<1>10. ASSUME claims' \in [Contents -> Claim],
              \A c \in Contents : claims[c].state = "done" => claims'[c].state = "done",
              \A c \in Contents : claims'[c].state # "pending" => claims'[c].waiting = 0,
              \A v \in Workers : v # w => act'[v] = act[v],
              OwesOK(act'[w], taken', claims', recorded')
       PROVE  OwingOK(taken', claims', act', recorded')
  <2>1. ASSUME NEW v \in Workers, v # w PROVE OwesOK(act'[v], taken', claims', recorded')
    <3>1. OwesOK(act[v], taken, claims, recorded) /\ act'[v] = act[v]
      BY <1>1, <1>10, <2>1 DEF OwingOK
    <3>2. act[v].part < taken => act[v].part < taken + 1
      BY <1>3, <1>9, PlanFacts DEF Parts
    <3> QED BY <1>4, <1>9, <1>10, <3>1, <3>2 DEF OwesOK
  <2> QED BY <1>10, <2>1 DEF OwingOK
<1>11. ASSUME NEW x \in Places, NEW new, new = Extend(place, taken, x), x # Counted,
              x \in {Own(w), Lost, Waits(d)},
              snap' = snap, x = Lost => groupErr', groupErr => groupErr',
              \A c \in Contents : claims[c].state = "done" => claims'[c].state = "done",
              \A v \in Workers : v # w => act'[v] = act[v],
              \A c \in Contents \ {d} : claims'[c].waiting = claims[c].waiting,
              WorkerPlaces(new, w, act'[w], recorded'),
              ClaimPlaces(new, d, claims'[d].waiting, recorded')
       PROVE  PlacesOK(new, taken', claims', act', recorded', snap', credited', groupErr')
  <2>1. /\ new \in [0 .. (taken + 1) - 1 -> Places]
        /\ \A z : z # x => PartsIn(new, z) = PartsIn(place, z)
    BY <1>3, <1>11, Extends
  <2>2. ASSUME NEW v \in Workers, v # w PROVE WorkerPlaces(new, v, act'[v], recorded')
    <3>1. WorkerPlaces(place, v, act[v], recorded) /\ act'[v] = act[v]
      BY <1>2, <1>11, <2>2 DEF PlacesOK
    <3>2. Own(v) # x /\ Owed(v) # x
      BY <1>6, <1>11, <2>2, PlacesDiffer
    <3> QED BY <1>4, <2>1, <3>1, <3>2 DEF WorkerPlaces
  <2>3. ASSUME NEW c \in Contents, c # d PROVE ClaimPlaces(new, c, claims'[c].waiting, recorded')
    <3>1. Waits(c) # x
      BY <1>6, <1>11, <2>3, PlacesDiffer
    <3> QED BY <1>2, <1>4, <1>11, <2>1, <2>3, <3>1 DEF PlacesOK, ClaimPlaces
  <2>4. CountedPlaces(new, claims', recorded', snap'.parts, snap'.bytes, credited')
    <3>1. PartsIn(new, Counted) = PartsIn(place, Counted)
      BY <1>11, <2>1
    <3> QED BY <1>2, <1>4, <1>8, <1>11, <3>1 DEF PlacesOK, CountedPlaces
  <2>5. ~groupErr' => PartsIn(new, Lost) = {}
    BY <1>2, <1>11, <2>1 DEF PlacesOK
  <2> QED BY <1>4, <1>11, <2>1, <2>2, <2>3, <2>4, <2>5 DEF PlacesOK
<1>12. ASSUME NEW x \in Places
       PROVE  /\ PartsIn(Extend(place, taken, x), x) = PartsIn(place, x) \cup {taken}
              /\ Cardinality(PartsIn(Extend(place, taken, x), x)) =
                   Cardinality(PartsIn(place, x)) + 1
              /\ \A z : z # x => PartsIn(Extend(place, taken, x), z) = PartsIn(place, z)
  BY <1>3, Extends
<1>13. ClaimPlaces(place, d, claims[d].waiting, recorded)
  BY <1>2 DEF PlacesOK
<1>14. ASSUME NEW x \in {Own(w), Lost} PROVE Waits(d) # x /\ Owed(w) # x /\ x # Counted /\ x \in Places
  BY PlacesDiffer
<1>15. CASE CtxDone
  <2>1. ReturnError(w) /\ UNCHANGED claims
    BY <1>15 DEF Take
  <2>2. act' = [act EXCEPT ![w].pc = "left"] /\ snap' = snap /\ groupErr'
    BY <2>1, PushAssumption DEF ReturnError, Goto, PushAssumption
  <2>3. /\ act'[w].pc = "left" /\ act'[w].owed = 0
        /\ \A v \in Workers : v # w => act'[v] = act[v]
    BY <1>3, <1>7, <2>2 DEF Actor, Actors
  <2>4. PICK new : new = Extend(place, taken, Lost)
    OBVIOUS
  <2>5. Own(w) # Lost /\ Owed(w) # Lost /\ Waits(d) # Lost /\ Lost # Counted /\ Lost \in Places
    BY PlacesDiffer
  <2>6. /\ PartsIn(new, Own(w)) = {} /\ PartsIn(new, Owed(w)) = {}
        /\ PartsIn(new, Waits(d)) = PartsIn(place, Waits(d))
    BY <1>7, <1>12, <2>4, <2>5
  <2>7. WorkerPlaces(new, w, act'[w], recorded')
    BY <2>3, <2>6, FS_EmptySet DEF WorkerPlaces, Busy
  <2>8. ClaimPlaces(new, d, claims'[d].waiting, recorded')
    BY <1>4, <1>13, <2>1, <2>6 DEF ClaimPlaces
  <2>9. PlacesOK(new, taken', claims', act', recorded', snap', credited', groupErr')
    BY <1>11, <2>1, <2>2, <2>3, <2>4, <2>5, <2>7, <2>8
  <2>10. OwingOK(taken', claims', act', recorded')
    <3>1. OwesOK(act'[w], taken', claims', recorded')
      BY <2>3 DEF OwesOK, Crediting
    <3> QED BY <1>1, <1>3, <1>10, <2>1, <2>3, <3>1 DEF OwingOK
  <2> QED BY <2>9, <2>10, PlacesReads
<1>16. CASE ~CtxDone /\ (Free(d) \/ Settled(d))
  <2> DEFINE job == [Fresh("part", "begin") EXCEPT !.part = taken]
  <2>1. /\ UNCHANGED <<groupErr, snap>>
        /\ \/ Free(d) /\ claims' = [claims EXCEPT ![d].state = "pending"]
              /\ act' = [act EXCEPT ![w] = job]
           \/ Settled(d) /\ claims' = claims /\ act' = [act EXCEPT ![w] = [job EXCEPT !.pc = "credit"]]
    BY <1>6, <1>16 DEF Take, Free, Settled
  <2>2. /\ act'[w].part = taken /\ act'[w].owed = 0 /\ act'[w].pc \in {"begin", "credit"}
        /\ act'[w].pc = "credit" => Settled(d) /\ claims' = claims
        /\ \A v \in Workers : v # w => act'[v] = act[v]
    BY <1>3, <2>1 DEF Fresh, Actors
  <2>3. /\ claims' \in [Contents -> Claim]
        /\ \A c \in Contents : claims'[c].waiting = claims[c].waiting
        /\ \A c \in Contents : claims[c].state = "done" => claims'[c].state = "done"
        /\ \A c \in Contents : claims'[c].state # "pending" => claims[c].state # "pending"
    <3>1. CASE claims' = claims
      BY <1>3, <3>1
    <3>2. CASE Free(d) /\ claims' = [claims EXCEPT ![d].state = "pending"]
      <4>1. /\ \A c \in Contents : c # d => claims'[c] = claims[c]
            /\ claims'[d] = [claims[d] EXCEPT !.state = "pending"] /\ claims[d].state = "free"
            /\ claims' \in [Contents -> Claim]
        BY <1>3, <3>2 DEF Claim, Free
      <4>2. claims'[d].waiting = claims[d].waiting /\ claims'[d].state = "pending"
        BY <1>3, <4>1 DEF Claim
      <4> QED BY <4>1, <4>2
    <3> QED BY <2>1, <3>1, <3>2
  <2>4. PICK new : new = Extend(place, taken, Own(w))
    OBVIOUS
  <2>5. /\ Own(w) # Owed(w) /\ Own(w) # Waits(d) /\ Own(w) # Counted /\ Own(w) # Lost
        /\ Own(w) \in Places
    BY PlacesDiffer
  <2>6. /\ PartsIn(new, Own(w)) = {taken} /\ PartsIn(new, Owed(w)) = {}
        /\ PartsIn(new, Waits(d)) = PartsIn(place, Waits(d))
    BY <1>7, <1>12, <2>4, <2>5
  <2>7. WorkerPlaces(new, w, act'[w], recorded')
    BY <2>2, <2>6, FS_EmptySet DEF WorkerPlaces, Busy
  <2>8. ClaimPlaces(new, d, claims'[d].waiting, recorded')
    BY <1>4, <1>13, <2>3, <2>6 DEF ClaimPlaces
  <2>9. PlacesOK(new, taken', claims', act', recorded', snap', credited', groupErr')
    BY <1>11, <2>1, <2>2, <2>3, <2>4, <2>5, <2>7, <2>8
  <2>10. OwingOK(taken', claims', act', recorded')
    <3>1. OwesOK(act'[w], taken', claims', recorded')
      BY <1>3, <1>4, <1>6, <2>2 DEF OwesOK, Crediting, Settled
    <3> QED BY <1>1, <1>10, <2>2, <2>3, <3>1 DEF OwingOK
  <2> QED BY <2>9, <2>10, PlacesReads
<1>17. CASE ~CtxDone /\ ~Free(d) /\ ~Settled(d)
  <2>1. /\ UNCHANGED <<groupErr, snap, act>>
        /\ claims' = [claims EXCEPT ![d].waiting = @ + 1]
        /\ claims[d].state = "pending"
    BY <1>3, <1>6, <1>17 DEF Take, Free, Settled, Claim
  <2>2. /\ claims' \in [Contents -> Claim] /\ claims'[d].waiting = claims[d].waiting + 1
        /\ claims'[d].state = "pending"
        /\ \A c \in Contents : c # d => claims'[c] = claims[c]
        /\ \A c \in Contents : claims[c].state = "done" => claims'[c].state = "done"
    BY <1>3, <2>1 DEF Claim
  <2>3. PICK new : new = Extend(place, taken, Waits(d))
    OBVIOUS
  <2>4. /\ Own(w) # Waits(d) /\ Owed(w) # Waits(d) /\ Waits(d) # Counted /\ Waits(d) # Lost
        /\ Waits(d) \in Places
    BY PlacesDiffer
  <2>5. /\ PartsIn(new, Own(w)) = {} /\ PartsIn(new, Owed(w)) = {}
        /\ PartsIn(new, Waits(d)) = PartsIn(place, Waits(d)) \cup {taken}
        /\ Cardinality(PartsIn(new, Waits(d))) = Cardinality(PartsIn(place, Waits(d))) + 1
    BY <1>7, <1>12, <2>3, <2>4
  <2>6. WorkerPlaces(new, w, act'[w], recorded')
    BY <1>4, <1>7, <2>1, <2>5, FS_EmptySet DEF WorkerPlaces, Busy
  <2>7. ClaimPlaces(new, d, claims'[d].waiting, recorded')
    BY <1>4, <1>6, <1>13, <2>2, <2>5 DEF ClaimPlaces
  <2>8. PlacesOK(new, taken', claims', act', recorded', snap', credited', groupErr')
    BY <1>11, <2>1, <2>2, <2>3, <2>4, <2>6, <2>7
  <2>9. OwingOK(taken', claims', act', recorded')
    <3>1. OwesOK(act'[w], taken', claims', recorded')
      BY <1>4, <1>7, <2>1 DEF OwesOK, Crediting
    <3>2. \A c \in Contents : claims'[c].state # "pending" => claims'[c].waiting = 0
      BY <1>1, <2>2 DEF OwingOK
    <3> QED BY <1>10, <2>1, <2>2, <3>1, <3>2
  <2> QED BY <2>8, <2>9, PlacesReads
<1> QED BY <1>15, <1>16, <1>17

\* A worker on its unit goes on with it, or leaves with an error.
LEMMA WorkerGoesOn ==
    ASSUME PushInv, NEW w \in Workers, Budget(w) \/ Request(w)
    PROVE  /\ UNCHANGED <<envVars, passVars, taken, claims, credited, snap>>
           /\ act[w].pc \in {"begin", "exists", "put", "landed", "sleep"}
           /\ act' = [act EXCEPT ![w] = act'[w]]
           /\ act'[w].part = act[w].part /\ act'[w].owed = act[w].owed
           /\ groupErr => groupErr'
           /\ \/ act'[w].pc \in {"begin", "exists", "put", "landed", "sleep", "settle"}
              \/ act'[w].pc = "left" /\ groupErr'
<1>1. /\ act[w].pc \in {"begin", "exists", "put", "landed", "sleep"}
      /\ UNCHANGED <<envVars, passVars, taken, claims, credited>>
  BY DEF Budget, Begin, Wake, Request, ExistsFound, ExistsMissing, PutLands,
         PutSourceChanged, PutAnswered, RequestFails, At, reportVars
<1>2. /\ act[w] \in Actor /\ w \in Actors /\ w # Main /\ act[w].unit = "part"
      /\ act \in [Actors -> Actor]
  BY PushAssumption DEF PushAssumption, PushInv, TypeOK, PlaceInv, Actors
<1>3. \/ ReturnError(w)
      \/ /\ snap' = snap /\ groupErr' = groupErr
         /\ \E pc \in {"begin", "exists", "put", "landed", "sleep", "settle"} :
              \/ act' = [act EXCEPT ![w].pc = pc]
              \/ act' = [act EXCEPT ![w].pc = pc, ![w].attempt = @ + 1]
              \/ act' = [act EXCEPT ![w].pc = pc, ![w].uploaded = TRUE]
  <2>1. CASE Begin(w)
    BY <1>2, <2>1 DEF Begin, Goto
  <2>2. CASE Wake(w)
    BY <1>2, <2>2 DEF Wake
  <2>3. CASE ExistsFound(w) \/ PutAnswered(w)
    BY <1>2, <2>3 DEF ExistsFound, PutAnswered, UnitDone, Goto
  <2>4. CASE ExistsMissing(w)
    <3>1. (act[w].unit = "part") = TRUE
      BY <1>2
    <3> QED BY <2>4, <3>1 DEF ExistsMissing, reportVars
  <2>5. CASE PutLands(w)
    BY <2>5 DEF PutLands, Goto, reportVars
  <2>6. CASE PutSourceChanged(w) \/ RequestFails(w)
    BY <2>6 DEF PutSourceChanged, RequestFails, AttemptFails, Goto
  <2> QED BY <2>1, <2>2, <2>3, <2>4, <2>5, <2>6 DEF Budget, Request
<1>4. CASE ReturnError(w)
  BY <1>1, <1>2, <1>4 DEF ReturnError, Goto, Actor
<1>5. CASE /\ snap' = snap /\ groupErr' = groupErr
           /\ \E pc \in {"begin", "exists", "put", "landed", "sleep", "settle"} :
                \/ act' = [act EXCEPT ![w].pc = pc]
                \/ act' = [act EXCEPT ![w].pc = pc, ![w].attempt = @ + 1]
                \/ act' = [act EXCEPT ![w].pc = pc, ![w].uploaded = TRUE]
  <2>1. /\ act' = [act EXCEPT ![w] = act'[w]]
        /\ act'[w].part = act[w].part /\ act'[w].owed = act[w].owed
        /\ act'[w].pc \in {"begin", "exists", "put", "landed", "sleep", "settle"}
    BY <1>2, <1>5 DEF Actor
  <2> QED BY <1>1, <1>5, <2>1
<1> QED BY <1>3, <1>4, <1>5

\* What nobody but a worker or the pass does leaves the workers as they were.
LEMMA OthersAside ==
    ASSUME PushInv, TailInv,
           Cancel \/ EditSource \/ UNCHANGED vars \/ Budget(Main) \/ Request(Main) \/ GroupDone
    PROVE  /\ UNCHANGED <<passVars, taken, claims, credited, groupErr>>
           /\ \A w \in Workers : act'[w] = act[w]
           /\ snap'.parts = snap.parts /\ snap'.bytes = snap.bytes
           /\ snap'.skipped = snap.skipped
<1>1. Main \in Actors /\ Main \notin Workers /\ snap \in Snapshot /\ TypeOK /\ act \in [Actors -> Actor]
  BY PushAssumption DEF PushInv, TypeOK, Actors, PushAssumption
<1>2. CASE Cancel \/ EditSource \/ UNCHANGED vars
  BY <1>2 DEF Cancel, EditSource, vars, passVars, reportVars
<1>3. ASSUME UNCHANGED <<passVars, taken, claims, credited, groupErr>>,
             NEW x, act' = [act EXCEPT ![Main] = x],
             NEW ph, snap' = [snap EXCEPT !.phase = ph]
      PROVE  /\ \A w \in Workers : act'[w] = act[w]
             /\ snap'.parts = snap.parts /\ snap'.bytes = snap.bytes
             /\ snap'.skipped = snap.skipped
  BY <1>1, <1>3 DEF Snapshot, Actors
<1>4. CASE GroupDone
  <2>1. UNCHANGED <<passVars, taken, claims, credited, groupErr>>
    BY <1>4 DEF GroupDone, ReturnError
  <2>2. \E x, ph : act' = [act EXCEPT ![Main] = x] /\ snap' = [snap EXCEPT !.phase = ph]
    BY <1>4 DEF GroupDone, ReturnError, Goto
  <2> QED BY <1>3, <2>1, <2>2
<1>5. CASE Budget(Main) \/ Request(Main)
  <2>1. snap' = [snap EXCEPT !.phase = snap'.phase]
    BY <1>5, MainAccounts
  <2>2. /\ UNCHANGED <<passVars, taken, claims, credited>>
        /\ \/ UNCHANGED groupErr
           \/ \E t \in BOOLEAN : AttemptFails(Main, t)
           \/ ReturnError(Main)
        /\ \/ \E x : act' = [act EXCEPT ![Main] = x]
           \/ \E t \in BOOLEAN : AttemptFails(Main, t)
    BY <1>5 DEF Budget, Begin, Wake, Request, ExistsFound, ExistsMissing, PutLands,
         PutSourceChanged, PutAnswered, RequestFails, reportVars, UnitDone, Goto, ReturnError
  <2>3. groupErr' = groupErr /\ \E x : act' = [act EXCEPT ![Main] = x]
    BY <2>2 DEF AttemptFails, ReturnError, Goto
  <2> QED BY <1>3, <2>1, <2>2, <2>3
<1> QED BY <1>2, <1>4, <1>5

LEMMA HasherPlaces ==
    ASSUME PushInv, Hasher
    PROVE  /\ UNCHANGED <<taken, claims, credited, act, snap>> /\ (groupErr => groupErr')
           /\ \A i \in Parts : i < taken => recorded'[i] = recorded[i]
           /\ source' = source /\ hashed' \in {hashed, hashed + 1}
           /\ \/ recorded' = recorded /\ hashed' = hashed
              \/ /\ hashed' = hashed + 1 /\ hashed \in Parts
                 /\ source[hashed] # None
                 /\ recorded' = [recorded EXCEPT ![hashed] = source[hashed]]
<1>1. /\ UNCHANGED <<taken, claims, credited, act, snap, source>> /\ (groupErr => groupErr')
      /\ \/ recorded' = recorded /\ hashed' = hashed
         \/ /\ hashed' = hashed + 1 /\ hasher = "reading" /\ source[hashed] # None
            /\ recorded' = [recorded EXCEPT ![hashed] = source[hashed]]
  BY DEF Hasher, HashNext, HashPart, HashFails, HasherReturns, envVars, reportVars
<1>2. /\ hasher = "reading" => hashed \in Parts
      /\ taken <= hashed /\ taken \in Nat /\ hashed \in Nat
      /\ recorded \in [Parts -> Contents \cup {None}]
  BY PlanFacts DEF PushInv, TypeOK, PassInv, Parts
<1>3. \A i \in Parts : i < taken => i # hashed
  BY <1>2, PlanFacts DEF Parts
<1> QED BY <1>1, <1>2, <1>3

LEMMA InitPlaces == Init => RangeInv /\ PlacesInv /\ PaidInv
<1> SUFFICES ASSUME Init PROVE RangeInv /\ PlacesInv /\ PaidInv
  OBVIOUS
<1>1. RangeInv
  BY PlanFacts DEF Init, RangeInv, Parts
<1>2. /\ taken = 0 /\ groupErr = FALSE /\ credited = {} /\ snap.parts = 0 /\ snap.bytes = 0
      /\ snap.skipped = 0
      /\ \A w \in Workers : act[w] = Fresh("part", "idle")
      /\ \A c \in Contents : claims[c].state = "free" /\ claims[c].waiting = 0
  BY PushAssumption DEF Init, Actors, PushAssumption
<1>3. \A w \in Workers : act[w].pc = "idle" /\ act[w].owed = 0
  BY <1>2 DEF Fresh
<1> DEFINE place == [i \in 0 .. taken - 1 |-> Lost]
<1>4. place \in [0 .. taken - 1 -> Places]
  BY PlacesDiffer
<1>5. \A x : PartsIn(place, x) = {} /\ Cardinality(PartsIn(place, x)) = 0
  <2>1. 0 .. taken - 1 = {}
    BY <1>2
  <2>2. \A x : PartsIn(place, x) = {}
    BY <2>1 DEF PartsIn
  <2> QED BY <2>2, FS_EmptySet
<1> HIDE DEF place
<1>6. PlacesOK(place, taken, claims, act, recorded, snap, credited, groupErr)
  <2>1. \A w \in Workers : WorkerPlaces(place, w, act[w], recorded)
    BY <1>3, <1>5 DEF WorkerPlaces, Busy
  <2>2. \A c \in Contents : ClaimPlaces(place, c, claims[c].waiting, recorded)
    BY <1>2, <1>5 DEF ClaimPlaces
  <2>3. CountedPlaces(place, claims, recorded, snap.parts, snap.bytes, credited)
    BY <1>2, <1>5, LengthsOfParts DEF CountedPlaces
  <2> QED BY <1>4, <1>5, <2>1, <2>2, <2>3 DEF PlacesOK
<1>7. OwingOK(taken, claims, act, recorded)
  BY <1>2, <1>3 DEF OwingOK, OwesOK, Crediting
<1>8. PlacesInv
  BY <1>6, <1>7, PlacesReads
<1>9. PaidInv
  <2>1. \A w \in Workers : ~Paying(w)
    BY <1>3 DEF Paying
  <2>2. Paid({})
    BY <1>2, <2>1, FS_EmptySet DEF Paid
  <2> QED BY <2>1, <2>2 DEF PaidInv
<1> QED BY <1>1, <1>8, <1>9

\* What a range holds, and what was recorded of it, has its length.
LEMMA NextRanges ==
    ASSUME PushInv, TailInv, RangeInv, [Next]_vars
    PROVE  RangeInv'
<1>1. TypeOK
  BY DEF PushInv
<1>2. CASE UNCHANGED <<source, hashed, recorded>>
  BY <1>2 DEF RangeInv
<1>3. CASE EditSource
  BY <1>1, <1>3 DEF EditSource, RangeInv, passVars, TypeOK
<1>4. CASE Hasher
  <2>1. /\ source' = source
        /\ \/ recorded' = recorded /\ hashed' = hashed
           \/ /\ hashed' = hashed + 1 /\ hashed \in Parts /\ source[hashed] # None
              /\ recorded' = [recorded EXCEPT ![hashed] = source[hashed]]
    BY <1>4, HasherPlaces
  <2>2. CASE recorded' = recorded /\ hashed' = hashed
    BY <1>2, <2>1, <2>2
  <2>3. CASE /\ hashed' = hashed + 1 /\ hashed \in Parts /\ source[hashed] # None
             /\ recorded' = [recorded EXCEPT ![hashed] = source[hashed]]
    <3>1. ASSUME NEW i \in Parts, i < hashed + 1 PROVE recorded'[i] \in Ranges(i)
      <4>1. CASE i = hashed
        BY <1>1, <2>3, <4>1 DEF RangeInv, TypeOK
      <4>2. CASE i # hashed
        <5>1. i < hashed
          BY <2>3, <3>1, <4>2, PlanFacts DEF Parts
        <5> QED BY <1>1, <2>3, <4>2, <5>1 DEF RangeInv, TypeOK
      <4> QED BY <4>1, <4>2
    <3> QED BY <2>1, <2>3, <3>1 DEF RangeInv
  <2> QED BY <2>1, <2>2, <2>3
<1>5. ASSUME NEW w \in Workers, Worker(w) PROVE UNCHANGED <<source, hashed, recorded>>
  BY <1>5 DEF Worker, Take, Depart, Settle, Credit, CreditTwins, envVars, passVars
<1>6. ASSUME NEW a \in Actors, Budget(a) \/ Request(a) PROVE UNCHANGED <<source, hashed, recorded>>
  BY <1>6 DEF Budget, Begin, Wake, Request, ExistsFound, ExistsMissing, PutLands,
         PutSourceChanged, PutAnswered, RequestFails, envVars, passVars
<1>7. CASE Cancel \/ GroupDone \/ UNCHANGED vars
  BY <1>2, <1>7 DEF Cancel, GroupDone, vars, envVars, passVars
<1> QED BY <1>2, <1>3, <1>4, <1>5, <1>6, <1>7 DEF Next, Returned

LEMMA NextPlaces ==
    ASSUME PushInv, TailInv, RangeInv, PlacesInv, [Next]_vars
    PROVE  PlacesInv'
<1>1. TypeOK
  BY DEF PushInv
<1>2. CASE Cancel \/ EditSource \/ UNCHANGED vars \/ Budget(Main) \/ Request(Main) \/ GroupDone
  <2>1. /\ UNCHANGED <<passVars, taken, claims, credited, groupErr>>
        /\ \A w \in Workers : act'[w] = act[w]
        /\ snap'.parts = snap.parts /\ snap'.bytes = snap.bytes
    BY <1>2, OthersAside
  <2>2. recorded' = recorded
    BY <2>1 DEF passVars
  <2> QED BY <1>1, <2>1, <2>2, PlacesStay
<1>3. CASE Hasher
  <2>1. /\ UNCHANGED <<taken, claims, credited, act, snap>> /\ (groupErr => groupErr')
        /\ \A i \in Parts : i < taken => recorded'[i] = recorded[i]
    BY <1>3, HasherPlaces
  <2> QED BY <1>1, <2>1, PlacesStay
<1>4. ASSUME NEW w \in Workers, Budget(w) \/ Request(w) PROVE PlacesInv'
  <2>1. /\ UNCHANGED <<passVars, taken, claims, credited, snap>>
        /\ act[w].pc \in {"begin", "exists", "put", "landed", "sleep"}
        /\ act' = [act EXCEPT ![w] = act'[w]]
        /\ act'[w].part = act[w].part /\ act'[w].owed = act[w].owed
        /\ groupErr => groupErr'
        /\ \/ act'[w].pc \in {"begin", "exists", "put", "landed", "sleep", "settle"}
           \/ act'[w].pc = "left" /\ groupErr'
    BY <1>4, WorkerGoesOn
  <2>2. recorded' = recorded /\ \A v \in Workers : v # w => act'[v] = act[v]
    BY <1>1, <2>1 DEF passVars, TypeOK, Actors
  <2>3. Busy(act[w]) /\ ~Crediting(act[w])
    BY <2>1 DEF Busy, Crediting
  <2>4. CASE act'[w].pc = "left" /\ groupErr'
    BY <1>1, <2>1, <2>2, <2>3, <2>4, PlacesLost
  <2>5. CASE act'[w].pc \in {"begin", "exists", "put", "landed", "sleep", "settle"}
    <3>1. Busy(act'[w]) /\ ~Crediting(act'[w])
      BY <2>5 DEF Busy, Crediting
    <3> QED BY <1>1, <2>1, <2>2, <2>3, <3>1, PlacesStay
  <2> QED BY <2>1, <2>4, <2>5
<1>5. ASSUME NEW w \in Workers, Worker(w) PROVE PlacesInv'
  <2>1. CASE Depart(w)
    <3>1. /\ act[w].pc = "idle" /\ act' = [act EXCEPT ![w].pc = "left"]
          /\ UNCHANGED <<taken, claims, credited, snap, recorded, groupErr>>
          /\ act \in [Actors -> Actor] /\ w \in Actors
      BY <1>1, <2>1 DEF Depart, At, Goto, passVars, reportVars, TypeOK, Actors
    <3>2. /\ act'[w].pc = "left" /\ act'[w].part = act[w].part /\ act'[w].owed = act[w].owed
          /\ \A v \in Workers : v # w => act'[v] = act[v]
      BY <3>1 DEF Actor, Actors
    <3>3. ~Busy(act[w]) /\ ~Crediting(act[w]) /\ ~Busy(act'[w]) /\ ~Crediting(act'[w])
      BY <3>1, <3>2 DEF Busy, Crediting
    <3> QED BY <1>1, <3>1, <3>2, <3>3, PlacesStay
  <2> QED BY <1>5, <2>1, PlacesTake, PlacesSettle, PlacesCredit, PlacesTwins DEF Worker
<1> QED BY <1>2, <1>3, <1>4, <1>5 DEF Next, Returned, Actors

-----------------------------------------------------------------------------
(* What the digests paid for. *)

Pays(q) == q.pc = "credit" /\ q.uploaded

PaidOK(digests, cl, ac, rec, parts, skipped) ==
    /\ digests \in SUBSET Contents
    /\ \A c \in digests : cl[c].state = "done"
    /\ Cardinality(digests) + skipped = parts
    /\ \A w \in Workers : Pays(ac[w]) => rec[ac[w].part] \notin digests
ApartOK(ac, rec) ==
    \A w, v \in Workers : w # v /\ Pays(ac[w]) /\ Pays(ac[v]) => rec[ac[v].part] # rec[ac[w].part]

LEMMA PaidReads ==
    /\ PushInv => (PaidInv <=>
         /\ \E digests : PaidOK(digests, claims, act, recorded, snap.parts, snap.skipped)
         /\ ApartOK(act, recorded))
    /\ PushInv' => (PaidInv' <=>
         /\ \E digests : PaidOK(digests, claims', act', recorded', snap'.parts, snap'.skipped)
         /\ ApartOK(act', recorded'))
<1>1. ASSUME PushInv PROVE \A w \in Workers : Blob(w) = recorded[act[w].part]
  BY <1>1 DEF PushInv, PlaceInv, Blob
<1>2. ASSUME PushInv' PROVE \A w \in Workers : Blob(w)' = recorded'[act'[w].part]
  BY <1>2 DEF PushInv, PlaceInv, Blob
<1>3. PushInv => (PaidInv <=>
         /\ \E digests : PaidOK(digests, claims, act, recorded, snap.parts, snap.skipped)
         /\ ApartOK(act, recorded))
  BY <1>1 DEF PaidInv, Paid, PaidOK, ApartOK, Pays, Paying
<1>4. PushInv' => (PaidInv' <=>
         /\ \E digests : PaidOK(digests, claims', act', recorded', snap'.parts, snap'.skipped)
         /\ ApartOK(act', recorded'))
  BY <1>2 DEF PaidInv, Paid, PaidOK, ApartOK, Pays, Paying
<1> QED BY <1>3, <1>4

\* A step in which nobody comes to pay, and nobody pays.
LEMMA PaidStays ==
    ASSUME PushInv, PushInv', PaidInv,
           \A c \in Contents : claims[c].state = "done" => claims'[c].state = "done",
           NEW n \in Nat, snap'.parts = snap.parts + n, snap'.skipped = snap.skipped + n,
           \A w \in Workers : Pays(act'[w]) =>
               /\ Pays(act[w])
               /\ recorded'[act'[w].part] = recorded[act[w].part]
    PROVE  PaidInv'
<1>1. snap.parts \in Nat /\ snap.skipped \in Nat
  BY DEF PushInv, TypeOK, Snapshot
<1>2. PICK digests : PaidOK(digests, claims, act, recorded, snap.parts, snap.skipped)
  BY PaidReads
<1>3. IsFiniteSet(digests) /\ Cardinality(digests) \in Nat
  BY <1>2, PushAssumption, FS_Subset, FS_CardinalityType DEF PaidOK, PushAssumption
<1>4. Cardinality(digests) + snap'.skipped = snap'.parts
  <2> DEFINE k == Cardinality(digests)
             p == snap.parts
             s == snap.skipped
  <2>1. k \in Nat /\ p \in Nat /\ s \in Nat /\ k + s = p
    BY <1>1, <1>2, <1>3 DEF PaidOK
  <2>2. snap'.parts = p + n /\ snap'.skipped = s + n
    OBVIOUS
  <2> HIDE DEF k, p, s
  <2>3. k + (s + n) = p + n
    BY <2>1
  <2> QED BY <2>2, <2>3 DEF k
<1>5. PaidOK(digests, claims', act', recorded', snap'.parts, snap'.skipped)
  BY <1>2, <1>4 DEF PaidOK
<1>6. ApartOK(act', recorded')
  BY PaidReads DEF ApartOK
<1> QED BY <1>5, <1>6, PaidReads

\* A settled digest is one nobody paid with yet.
LEMMA PaidSettle ==
    ASSUME PushInv, PushInv', PlacesInv, PaidInv, NEW w \in Workers, Settle(w)
    PROVE  PaidInv'
<1>1. /\ act[w].pc = "settle" /\ act \in [Actors -> Actor] /\ w \in Actors
      /\ claims \in [Contents -> Claim] /\ act[w].unit = "part"
      /\ UNCHANGED <<recorded, snap>>
  BY DEF Settle, At, PushInv, TypeOK, PlaceInv, Actors, passVars, reportVars
<1>2. PICK d : d = recorded[act[w].part]
  OBVIOUS
<1>3. Blob(w) = d /\ claims[d].state = "pending"
  <2>1. Uploading(w)
    BY <1>1 DEF Uploading
  <2> QED BY <1>1, <1>2, <2>1 DEF PushInv, OneUploaderPerDigest, Blob
<1>4. /\ claims' = [claims EXCEPT ![d] = [state |-> "done", waiting |-> 0]]
      /\ act'[w].part = act[w].part
      /\ \A v \in Workers : v # w => act'[v] = act[v]
  BY <1>1, <1>3 DEF Settle, Actor, Actors
<1>5. \A c \in Contents : claims[c].state = "done" => claims'[c].state = "done"
  BY <1>1, <1>4
<1>6. PICK digests : PaidOK(digests, claims, act, recorded, snap.parts, snap.skipped)
  BY PaidReads
<1>7. d \notin digests
  BY <1>3, <1>6 DEF PaidOK
<1>8. ASSUME NEW v \in Workers, Pays(act[v]) PROVE v # w /\ recorded[act[v].part] # d
  <2>1. claims[recorded[act[v].part]].state = "done"
    BY <1>8, PlacesReads DEF OwingOK, OwesOK, Crediting, Pays
  <2> QED BY <1>1, <1>3, <1>8, <2>1 DEF Pays
<1>9. PaidOK(digests, claims', act', recorded', snap'.parts, snap'.skipped)
  <2>1. ASSUME NEW v \in Workers, Pays(act'[v]) PROVE recorded'[act'[v].part] \notin digests
    <3>1. CASE v = w
      BY <1>1, <1>2, <1>4, <1>7, <3>1
    <3>2. CASE v # w
      BY <1>1, <1>4, <1>6, <2>1, <3>2 DEF PaidOK
    <3> QED BY <3>1, <3>2
  <2> QED BY <1>1, <1>5, <1>6, <2>1 DEF PaidOK
<1>10. ApartOK(act', recorded')
  <2> SUFFICES ASSUME NEW u \in Workers, NEW v \in Workers, u # v, Pays(act'[u]), Pays(act'[v])
               PROVE  recorded[act'[v].part] # recorded[act'[u].part]
    BY <1>1 DEF ApartOK
  <2>1. CASE u # w /\ v # w
    BY <1>4, <2>1, PaidReads DEF ApartOK
  <2>2. CASE u = w
    BY <1>2, <1>4, <1>8, <2>2
  <2>3. CASE v = w
    BY <1>2, <1>4, <1>8, <2>3
  <2> QED BY <2>1, <2>2, <2>3
<1> QED BY <1>9, <1>10, PaidReads

\* A part counted as moved pays with its digest.
LEMMA PaidCredit ==
    ASSUME PushInv, PushInv', PlacesInv, PaidInv, NEW w \in Workers, Credit(w)
    PROVE  PaidInv'
<1>1. /\ act[w].pc = "credit" /\ act \in [Actors -> Actor] /\ w \in Actors
      /\ act[w] \in Actor /\ snap \in Snapshot /\ snap.parts \in Nat /\ snap.skipped \in Nat
      /\ UNCHANGED <<recorded, claims>>
  BY DEF Credit, At, PushInv, TypeOK, Actors, passVars, Snapshot
<1>2. /\ act'[w].pc = "twins" /\ \A v \in Workers : v # w => act'[v] = act[v]
  BY <1>1 DEF Credit, Goto, Actor, Actors
<1>3. \A v \in Workers : Pays(act'[v]) =>
          /\ v # w /\ Pays(act[v]) /\ recorded'[act'[v].part] = recorded[act[v].part]
  BY <1>1, <1>2 DEF Pays
<1>4. CASE snap' = snap
  <2>1. snap'.parts = snap.parts + 0 /\ snap'.skipped = snap.skipped + 0
    BY <1>1, <1>4
  <2> QED BY <1>1, <1>3, <2>1, PaidStays
<1>5. CASE snap' # snap
  <2> DEFINE k == IF act[w].uploaded THEN 0 ELSE 1
  <2>1. snap' = [snap EXCEPT !.parts = @ + 1, !.bytes = @ + PartLength(act[w].part),
                             !.skipped = @ + k]
    BY <1>5 DEF Credit, reportVars
  <2> HIDE DEF k
  <2>2. snap'.parts = snap.parts + 1 /\ snap'.skipped = snap.skipped + k
    BY <1>1, <2>1 DEF Snapshot
  <2>3. CASE ~act[w].uploaded
    BY <1>1, <1>3, <2>2, <2>3, PaidStays DEF k
  <2>4. CASE act[w].uploaded
    <3>1. snap'.skipped = snap.skipped
      BY <1>1, <2>2, <2>4 DEF k
    <3>2. PICK digests : PaidOK(digests, claims, act, recorded, snap.parts, snap.skipped)
      BY PaidReads
    <3>3. IsFiniteSet(digests) /\ Cardinality(digests) \in Nat
      BY <3>2, PushAssumption, FS_Subset, FS_CardinalityType DEF PaidOK, PushAssumption
    <3>4. PICK d : d = recorded[act[w].part]
      OBVIOUS
    <3>5. Pays(act[w]) /\ d \notin digests
      BY <1>1, <2>4, <3>2, <3>4 DEF PaidOK, Pays
    <3>6. d \in Contents /\ claims[d].state = "done"
      <4>1. act[w].part \in Parts /\ act[w].part < taken /\ claims[d].state = "done"
        BY <1>1, <3>4, PlacesReads DEF OwingOK, OwesOK, Crediting, Actor
      <4>2. act[w].part < hashed
        BY <4>1, PlanFacts DEF PushInv, PassInv, TypeOK, Parts
      <4> QED BY <3>4, <4>1, <4>2 DEF PushInv, PassInv
    <3>7. Cardinality(digests \cup {d}) = Cardinality(digests) + 1
      BY <3>3, <3>5, FS_AddElement
    <3>8. Cardinality(digests \cup {d}) + snap'.skipped = snap'.parts
      <4>1. Cardinality(digests) + snap.skipped = snap.parts
        BY <3>2 DEF PaidOK
      <4>2. \A m, p, s \in Nat : m + s = p => (m + 1) + s = p + 1
        OBVIOUS
      <4> QED BY <1>1, <2>2, <3>1, <3>3, <3>7, <4>1, <4>2
    <3>9. ASSUME NEW v \in Workers, Pays(act'[v]) PROVE recorded'[act'[v].part] \notin digests \cup {d}
      <4>1. v # w /\ Pays(act[v]) /\ recorded'[act'[v].part] = recorded[act[v].part]
        BY <1>3, <3>9
      <4>2. recorded[act[v].part] # d
        BY <3>4, <3>5, <4>1, PaidReads DEF ApartOK
      <4> QED BY <3>2, <4>1, <4>2 DEF PaidOK
    <3>10. PaidOK(digests \cup {d}, claims', act', recorded', snap'.parts, snap'.skipped)
      BY <1>1, <3>2, <3>6, <3>8, <3>9 DEF PaidOK
    <3>11. ApartOK(act', recorded')
      BY <1>3, PaidReads DEF ApartOK
    <3> QED BY <3>10, <3>11, PaidReads
  <2> QED BY <2>3, <2>4
<1> QED BY <1>4, <1>5

LEMMA NextPaid ==
    ASSUME PushInv, TailInv, PlacesInv, PaidInv, [Next]_vars
    PROVE  PaidInv'
<1>1. /\ PushInv' /\ TypeOK /\ snap \in Snapshot /\ snap.parts \in Nat /\ snap.skipped \in Nat
      /\ act \in [Actors -> Actor] /\ claims \in [Contents -> Claim]
      /\ \A w \in Workers : w \in Actors
  BY NextKeepsInv DEF PushInv, TypeOK, Snapshot, Actors
<1>2. ASSUME UNCHANGED claims, snap'.parts = snap.parts, snap'.skipped = snap.skipped,
             \A w \in Workers : Pays(act'[w]) =>
               /\ Pays(act[w])
               /\ recorded'[act'[w].part] = recorded[act[w].part]
      PROVE  PaidInv'
  <2>1. snap'.parts = snap.parts + 0 /\ snap'.skipped = snap.skipped + 0
    BY <1>1, <1>2
  <2> QED BY <1>1, <1>2, <2>1, PaidStays
<1>3. CASE Cancel \/ EditSource \/ UNCHANGED vars \/ Budget(Main) \/ Request(Main) \/ GroupDone
  <2>1. /\ UNCHANGED <<passVars, taken, claims, credited, groupErr>>
        /\ \A w \in Workers : act'[w] = act[w]
        /\ snap'.parts = snap.parts /\ snap'.skipped = snap.skipped
    BY <1>3, OthersAside
  <2> QED BY <1>2, <2>1 DEF passVars
<1>4. CASE Hasher
  <2>1. /\ UNCHANGED <<claims, act, snap>>
        /\ \A i \in Parts : i < taken => recorded'[i] = recorded[i]
    BY <1>4, HasherPlaces
  <2>2. \A w \in Workers : Pays(act[w]) => act[w].part \in Parts /\ act[w].part < taken
    BY <1>1, PlacesReads DEF OwingOK, OwesOK, Crediting, Pays, Actor
  <2> QED BY <1>2, <2>1, <2>2
<1>5. ASSUME NEW w \in Workers, Budget(w) \/ Request(w) PROVE PaidInv'
  <2>1. /\ UNCHANGED <<passVars, claims, snap>> /\ act' = [act EXCEPT ![w] = act'[w]]
        /\ act'[w].pc # "credit"
    BY <1>5, WorkerGoesOn
  <2>2. recorded' = recorded /\ \A v \in Workers : v # w => act'[v] = act[v]
    BY <1>1, <2>1 DEF passVars
  <2> QED BY <1>2, <2>1, <2>2 DEF Pays
<1>6. ASSUME NEW w \in Workers, Take(w) PROVE PaidInv'
  <2> DEFINE job == [Fresh("part", "begin") EXCEPT !.part = taken]
  <2>1. act[w].pc = "idle" /\ recorded' = recorded
    BY <1>6 DEF Take, At, passVars
  <2>2. /\ snap' = snap /\ ~Pays(act'[w])
        /\ \A v \in Workers : v # w => act'[v] = act[v]
        /\ \A c \in Contents : claims[c].state = "done" => claims'[c].state = "done"
    <3>1. CASE CtxDone
      <4>1. ReturnError(w) /\ w # Main /\ claims' = claims
        BY <1>6, <3>1, PushAssumption DEF Take, PushAssumption
      <4> QED BY <1>1, <4>1 DEF ReturnError, Goto, Pays, Actor
    <3>2. CASE ~CtxDone
      <4>1. PICK d : d = recorded[taken]
        OBVIOUS
      <4>2. /\ snap' = snap
            /\ \/ Free(d) /\ claims' = [claims EXCEPT ![d].state = "pending"]
                  /\ act' = [act EXCEPT ![w] = job]
               \/ ~Settled(d) /\ claims' = [claims EXCEPT ![d].waiting = @ + 1] /\ act' = act
               \/ claims' = claims /\ act' = [act EXCEPT ![w] = [job EXCEPT !.pc = "credit"]]
        BY <1>6, <3>2, <4>1 DEF Take
      <4>3. ~Pays(act'[w]) /\ \A v \in Workers : v # w => act'[v] = act[v]
        BY <1>1, <2>1, <4>2 DEF Pays, Fresh
      <4>4. \A c \in Contents : claims[c].state = "done" => claims'[c].state = "done"
        <5>1. ASSUME NEW c \in Contents, claims[c].state = "done", c # d
              PROVE  claims'[c].state = "done"
          BY <1>1, <4>2, <5>1
        <5>2. ASSUME d \in Contents, claims[d].state = "done" PROVE claims'[d].state = "done"
          BY <1>1, <4>2, <5>2 DEF Free, Settled
        <5> QED BY <5>1, <5>2
      <4> QED BY <4>2, <4>3, <4>4
    <3> QED BY <3>1, <3>2
  <2>4. snap'.parts = snap.parts + 0 /\ snap'.skipped = snap.skipped + 0
    BY <1>1, <2>2
  <2> QED BY <1>1, <2>1, <2>2, <2>4, PaidStays
<1>7. ASSUME NEW w \in Workers, Depart(w) PROVE PaidInv'
  <2>1. /\ UNCHANGED <<claims, snap, recorded>> /\ ~Pays(act'[w])
        /\ \A v \in Workers : v # w => act'[v] = act[v]
    BY <1>1, <1>7 DEF Depart, Goto, Pays, Actor, passVars, reportVars
  <2> QED BY <1>2, <2>1
<1>8. ASSUME NEW w \in Workers, CreditTwins(w) PROVE PaidInv'
  <2> DEFINE n == act[w].owed
  <2>1. /\ UNCHANGED <<claims, recorded>> /\ ~Pays(act'[w])
        /\ \A v \in Workers : v # w => act'[v] = act[v]
    BY <1>1, <1>8 DEF CreditTwins, Pays, Fresh, passVars
  <2>2. n \in Nat
    BY <1>1 DEF Actor
  <2>3. snap' = [snap EXCEPT !.parts = @ + n, !.bytes = @ + n * PartLength(act[w].part),
                             !.skipped = @ + n]
    BY <1>8 DEF CreditTwins
  <2>4. snap'.parts = snap.parts + n /\ snap'.skipped = snap.skipped + n
    BY <1>1, <2>3 DEF Snapshot
  <2> HIDE DEF n
  <2> QED BY <1>1, <2>1, <2>2, <2>4, PaidStays
<1> QED BY <1>1, <1>3, <1>4, <1>5, <1>6, <1>7, <1>8, PaidSettle, PaidCredit
        DEF Next, Returned, Actors, Worker
\* A manifest is of a pool that ended well, and nothing can end it otherwise.
LEMMA NextEnds ==
    ASSUME PushInv, TailInv, EndInv, [Next]_vars
    PROVE  EndInv'
<1>1. EndInv <=> (manifest # None => PoolOver(hasher, act) /\ ~groupErr)
  BY DEF EndInv, PoolEnded, PoolOver, At
<1>2. EndInv' <=> (manifest' # None => PoolOver(hasher', act') /\ ~groupErr')
  BY DEF EndInv, PoolEnded, PoolOver, At
<1>3. CASE Cancel \/ EditSource \/ UNCHANGED vars \/ Budget(Main) \/ Request(Main) \/ GroupDone
  <2>1. UNCHANGED <<passVars, groupErr>> /\ \A w \in Workers : act'[w] = act[w]
    BY <1>3, OthersAside
  <2>2. PoolOver(hasher, act) => PoolOver(hasher', act')
    BY <2>1 DEF PoolOver, passVars
  <2>3. CASE manifest' = manifest
    BY <1>1, <1>2, <2>1, <2>2, <2>3
  <2>4. CASE PutLands(Main)
    <3>1. PoolEnded /\ ~groupErr
      <4>1. act[Main].pc = "put" /\ Main \in Actors
        BY <2>4 DEF PutLands, At, Actors
      <4> QED BY <4>1, AtWork
    <3>2. PoolOver(hasher, act)
      BY <3>1 DEF PoolEnded, PoolOver, At
    <3> QED BY <1>2, <2>1, <2>2, <3>1, <3>2
  <2>5. manifest' = manifest \/ PutLands(Main)
    <3>1. CASE Budget(Main) \/ Request(Main)
      BY <3>1, MainAccounts
    <3> QED BY <1>3, <3>1 DEF Cancel, EditSource, vars, GroupDone, registryVars
  <2> QED BY <2>3, <2>4, <2>5
<1>4. CASE Hasher
  BY <1>1, <1>2, <1>4, HasherAside
<1>5. ASSUME NEW w \in Workers, Worker(w) \/ Budget(w) \/ Request(w) PROVE EndInv'
  BY <1>1, <1>2, <1>5, WorkerAside
<1> QED BY <1>3, <1>4, <1>5 DEF Next, Returned, Actors

\* Where everything is once the pool has ended well: counted.
LEMMA AllCounted ==
    ASSUME PushInv, PlacesInv, PoolEnded, ~groupErr
    PROVE  snap.parts = NumParts /\ snap.bytes = FileSize
<1>1. OwingOK(taken, claims, act, recorded)
  BY PlacesReads
<1>2. PICK place : PlacesOK(place, taken, claims, act, recorded, snap, credited, groupErr)
  BY PlacesReads
<1>3. taken = NumParts /\ taken \in Nat /\ place \in [0 .. taken - 1 -> Places]
      /\ claims \in [Contents -> Claim] /\ snap.bytes \in Nat /\ snap.parts \in Nat
  <2>1. hashed = NumParts
    BY DEF PushInv, LeavingInv, PoolEnded
  <2>2. \E w \in Workers : act[w].pc = "left"
    BY PushAssumption DEF PoolEnded, At, PushAssumption
  <2>3. taken = hashed
    BY <2>2 DEF PushInv, LeavingInv, At
  <2> QED BY <1>2, <2>1, <2>3, PlanFacts DEF PlacesOK, PushInv, TypeOK, Snapshot
<1>4. ASSUME NEW w \in Workers PROVE PartsIn(place, Own(w)) = {} /\ PartsIn(place, Owed(w)) = {}
  <2>1. act[w].pc = "left" /\ WorkerPlaces(place, w, act[w], recorded) /\ act[w].owed = 0
    BY <1>1, <1>2 DEF PoolEnded, At, PlacesOK, OwingOK, OwesOK, Crediting
  <2> QED BY <1>3, <2>1, PartsAreFinite DEF WorkerPlaces, Busy
<1>5. ASSUME NEW c \in Contents PROVE PartsIn(place, Waits(c)) = {}
  <2>1. \A w \in Workers : ~Uploading(w)
    BY DEF PoolEnded, At, Uploading
  <2>2. claims[c].state # "pending"
    BY <2>1 DEF PushInv, ClaimInv
  <2>3. ClaimPlaces(place, c, 0, recorded)
    BY <1>1, <1>2, <2>2 DEF OwingOK, PlacesOK
  <2> QED BY <1>3, <2>3, PartsAreFinite DEF ClaimPlaces
<1>6. PartsIn(place, Lost) = {}
  BY <1>2 DEF PlacesOK
<1>7. \A i \in 0 .. taken - 1 : i \in PartsIn(place, place[i]) /\ place[i] \in Places
  BY <1>3 DEF PartsIn
<1>8. \A i \in 0 .. taken - 1 : place[i] = Counted
  BY <1>4, <1>5, <1>6, <1>7, PlacesDiffer
<1>9. PartsIn(place, Counted) = Parts
  BY <1>3, <1>7, <1>8 DEF PartsIn, Parts
<1>10. Cardinality(Parts) = NumParts
  BY PlanFacts, FS_Interval DEF Parts
<1>11. CountedPlaces(place, claims, recorded, snap.parts, snap.bytes, credited)
  BY <1>2 DEF PlacesOK
<1>12. snap.parts = NumParts
  BY <1>9, <1>10, <1>11 DEF CountedPlaces
<1>13. snap.bytes + ShortBy = FileSize + ShortBy
  BY <1>9, <1>11, <1>12, LengthsOfParts DEF CountedPlaces
<1>14. snap.bytes = FileSize
  <2>1. ShortBy \in Nat /\ FileSize \in Nat
    BY LengthsOfParts
  <2> HIDE DEF ShortBy
  <2> QED BY <1>3, <1>13, <2>1
<1> QED BY <1>12, <1>14

LEMMA AccountHolds == Spec => [](PushInv /\ TailInv /\ EndInv /\ RangeInv /\ PlacesInv /\ PaidInv)
<1> DEFINE I == PushInv /\ TailInv /\ EndInv /\ RangeInv /\ PlacesInv /\ PaidInv
<1>1. Init => I
  BY InitKeepsInv, InitTails, InitPlaces DEF EndInv, Init
<1>2. I /\ [Next]_vars => I'
  BY NextKeepsInv, NextTails, NextEnds, NextRanges, NextPlaces, NextPaid
<1> QED BY <1>1, <1>2, PTL DEF Spec

-----------------------------------------------------------------------------
\* Whatever the pool, the twins and the failures: the parts counted never
\* outnumber the received parts whose blob is there, nor the parts counted as
\* moved the digests that settled, and a push that succeeds has counted every
\* part and byte.
THEOREM CreditEarned == Spec => []CreditIsEarned
<1>1. ASSUME PushInv, TailInv, EndInv, PlacesInv, PaidInv PROVE CreditIsEarned
  <2>1. PICK place : PlacesOK(place, taken, claims, act, recorded, snap, credited, groupErr)
    BY <1>1, PlacesReads
  <2>2. PICK digests : PaidOK(digests, claims, act, recorded, snap.parts, snap.skipped)
    BY <1>1, PaidReads
  <2>3. /\ taken \in Nat /\ place \in [0 .. taken - 1 -> Places] /\ taken <= hashed
        /\ hashed <= NumParts /\ hashed \in Nat /\ snap.skipped \in Nat /\ snap.parts \in Nat
    BY <1>1, <2>1, PlanFacts DEF PushInv, TypeOK, PassInv, PlacesOK, Snapshot
  <2>4. CountedPlaces(place, claims, recorded, snap.parts, snap.bytes, credited)
    BY <2>1 DEF PlacesOK
  <2> DEFINE counted == PartsIn(place, Counted)
             there == {i \in 0 .. taken - 1 : stored[recorded[i]] # None}
             settled == {c \in Contents : claims[c].state = "done"}
  <2>5. counted \subseteq 0 .. taken - 1
    BY <2>3, PartsAreFinite
  <2>6. ASSUME NEW i \in counted PROVE recorded[i] # None /\ stored[recorded[i]] # None
    <3>1. i \in Parts /\ i < hashed
      BY <2>3, <2>5, PlanFacts DEF Parts
    <3>2. recorded[i] \in Contents /\ claims[recorded[i]].state = "done"
      BY <1>1, <2>4, <3>1 DEF PushInv, PassInv, CountedPlaces
    <3> QED BY <1>1, <3>2, PushAssumption DEF PushInv, PlacedInv, PushAssumption, Blobs
  <2>7. \A i \in credited : recorded[i] # None /\ stored[recorded[i]] # None
    BY <2>4, <2>6 DEF CountedPlaces
  <2>8. snap.parts <= Cardinality(there)
    <3>1. IsFiniteSet(0 .. taken - 1)
      BY <2>3, FS_Interval
    <3>2. IsFiniteSet(there)
      BY <3>1, FS_Subset
    <3>3. counted \in SUBSET there
      BY <2>5, <2>6
    <3>4. Cardinality(counted) <= Cardinality(there)
      BY <3>2, <3>3, FS_Subset
    <3> QED BY <2>4, <3>4 DEF CountedPlaces
  <2>9. snap.parts - snap.skipped <= Cardinality(settled)
    <3>1. IsFiniteSet(settled) /\ digests \in SUBSET settled
      BY <2>2, PushAssumption, FS_Subset DEF PaidOK, PushAssumption
    <3>2. Cardinality(digests) <= Cardinality(settled) /\ Cardinality(digests) \in Nat
          /\ Cardinality(settled) \in Nat
      BY <3>1, FS_Subset, FS_CardinalityType
    <3>3. Cardinality(digests) + snap.skipped = snap.parts
      BY <2>2 DEF PaidOK
    <3>4. \A k, s, p, m \in Nat : k + s = p /\ k <= m => p - s <= m
      OBVIOUS
    <3> HIDE DEF settled
    <3> QED BY <2>3, <3>2, <3>3, <3>4
  <2>10. snap.phase = "done" => manifest # None /\ snap.parts = NumParts /\ snap.bytes = FileSize
    BY <1>1, AllCounted DEF TailInv, EndInv
  <2> QED BY <2>7, <2>8, <2>9, <2>10 DEF CreditIsEarned
<1> QED BY <1>1, AccountHolds, PTL

-----------------------------------------------------------------------------
(* The ledger: every received part is counted, or in one of three places. *)

\* Sets of the sizes n told apart by their owners are as many as what they
\* stand for.
LEMMA Tagged ==
    ASSUME NEW S, NEW D, IsFiniteSet(D), NEW P \in [S -> SUBSET D], NEW n \in [S -> Nat],
           \A x, y \in S : x # y => P[x] \cap P[y] = {},
           \A i \in D : \E x \in S : i \in P[x],
           \A x \in S : Cardinality(P[x]) = n[x]
    PROVE  LET U == UNION {{x} \X (1 .. n[x]) : x \in S}
           IN  IsFiniteSet(U) /\ Cardinality(U) = Cardinality(D)
<1> DEFINE U == UNION {{x} \X (1 .. n[x]) : x \in S}
           g == [x \in S |-> CHOOSE f : f \in Bijection(1 .. n[x], P[x])]
           h == [u \in U |-> g[u[1]][u[2]]]
<1>1. ASSUME NEW x \in S PROVE g[x] \in Bijection(1 .. n[x], P[x])
  <2>1. IsFiniteSet(P[x])
    BY FS_Subset
  <2>2. ExistsBijection(1 .. n[x], P[x])
    BY <2>1, FS_CardinalityType
  <2>3. \E f : f \in Bijection(1 .. n[x], P[x])
    BY <2>2 DEF ExistsBijection
  <2> QED BY <2>3
<1> HIDE DEF g
<1>2. ASSUME NEW x \in S
      PROVE  /\ \A k \in 1 .. n[x] : g[x][k] \in P[x]
             /\ \A k, l \in 1 .. n[x] : g[x][k] = g[x][l] => k = l
             /\ \A i \in P[x] : \E k \in 1 .. n[x] : g[x][k] = i
  BY <1>1 DEF Bijection, Injection, Surjection, IsInjective
<1>3. /\ \A u \in U : u[1] \in S /\ u[2] \in 1 .. n[u[1]] /\ u = <<u[1], u[2]>>
      /\ \A x \in S : \A k \in 1 .. n[x] : <<x, k>> \in U
  OBVIOUS
<1> HIDE DEF U
<1>4. \A u \in U : h[u] \in P[u[1]] /\ h[u] \in D
  BY <1>2, <1>3
<1>5. ASSUME NEW u \in U, NEW v \in U, h[u] = h[v] PROVE u = v
  <2>1. u[1] = v[1]
    BY <1>3, <1>4, <1>5
  <2>2. g[u[1]][u[2]] = g[u[1]][v[2]]
    BY <1>5, <2>1
  <2>3. u[2] = v[2]
    BY <1>2, <1>3, <2>1, <2>2
  <2> QED BY <1>3, <2>1, <2>3
<1>6. ASSUME NEW i \in D PROVE \E u \in U : h[u] = i
  <2>1. PICK x \in S : i \in P[x]
    OBVIOUS
  <2>2. PICK k \in 1 .. n[x] : g[x][k] = i
    BY <1>2, <2>1
  <2>3. <<x, k>> \in U /\ h[<<x, k>>] = i
    BY <1>3, <2>2
  <2> QED BY <2>3
<1>7. h \in [U -> D]
  BY <1>4
<1> HIDE DEF h
<1>8. h \in Injection(U, D) /\ h \in Surjection(U, D)
  BY <1>5, <1>6, <1>7 DEF Injection, Surjection, IsInjective
<1> QED BY <1>8, FS_Injection DEF U

\* As many members as parts, one part to each.
LEMMA OneEach ==
    ASSUME NEW W, NEW D, IsFiniteSet(D), NEW part \in [W -> D],
           \A w, v \in W : part[w] = part[v] => w = v,
           \A i \in D : \E w \in W : part[w] = i
    PROVE  IsFiniteSet(W) /\ Cardinality(W) = Cardinality(D)
<1>1. part \in Injection(W, D) /\ part \in Surjection(W, D)
  BY DEF Injection, Surjection, IsInjective
<1> QED BY <1>1, FS_Injection

LEMMA Apart ==
    ASSUME NEW a, NEW b, IsFiniteSet(a), IsFiniteSet(b), a \cap b = {}
    PROVE  /\ IsFiniteSet(a \cup b)
           /\ Cardinality(a \cup b) = Cardinality(a) + Cardinality(b)
<1>1. Cardinality(a \cap b) = 0
  BY FS_EmptySet
<1>2. Cardinality(a) \in Nat /\ Cardinality(b) \in Nat
  BY FS_CardinalityType
<1>3. /\ IsFiniteSet(a \cup b)
      /\ Cardinality(a \cup b) = Cardinality(a) + Cardinality(b) - Cardinality(a \cap b)
  BY FS_Union
<1> QED BY <1>1, <1>2, <1>3

\* Four places that share a set of parts between them.
LEMMA FourWays ==
    ASSUME NEW a, NEW b, NEW c, NEW d,
           IsFiniteSet(a), IsFiniteSet(b), IsFiniteSet(c), IsFiniteSet(d),
           a \cap b = {}, (a \cup b) \cap c = {}, (a \cup b \cup c) \cap d = {}
    PROVE  Cardinality(a \cup b \cup c \cup d) =
             Cardinality(a) + Cardinality(b) + Cardinality(c) + Cardinality(d)
<1>1. IsFiniteSet(a \cup b) /\ Cardinality(a \cup b) = Cardinality(a) + Cardinality(b)
  BY Apart
<1>2. /\ IsFiniteSet((a \cup b) \cup c)
      /\ Cardinality((a \cup b) \cup c) = Cardinality(a \cup b) + Cardinality(c)
  BY <1>1, Apart
<1>3. Cardinality(((a \cup b) \cup c) \cup d) = Cardinality((a \cup b) \cup c) + Cardinality(d)
  BY <1>2, Apart
<1> QED BY <1>1, <1>2, <1>3

\* No received job is dropped and none is counted twice, whichever of twins,
\* claims and failures interleave: until the group fails, the parts received
\* are the parts counted, in hand, owed and waiting.
THEOREM LedgerHolds == Spec => []LedgerBalances
<1>1. ASSUME PushInv, PlacesInv, ~groupErr
      PROVE  taken = snap.parts + Cardinality(InHand) + Cardinality(Owing) + Cardinality(Waiting)
  <2>1. PICK place : PlacesOK(place, taken, claims, act, recorded, snap, credited, groupErr)
    BY <1>1, PlacesReads
  <2>2. /\ taken \in Nat /\ place \in [0 .. taken - 1 -> Places] /\ snap.parts \in Nat
        /\ \A w \in Workers : act[w].owed \in Nat
        /\ \A c \in Contents : claims[c].waiting \in Nat
    BY <1>1, <2>1, PlanFacts DEF PushInv, TypeOK, PlacesOK, Snapshot, Actors, Actor, Claim
  <2> DEFINE own == UNION {PartsIn(place, Own(w)) : w \in Workers}
             owed == UNION {PartsIn(place, Owed(w)) : w \in Workers}
             waits == UNION {PartsIn(place, Waits(c)) : c \in Contents}
             counted == PartsIn(place, Counted)
  <2>3. /\ \A x : \A i : i \in PartsIn(place, x) <=> i \in 0 .. taken - 1 /\ place[i] = x
        /\ \A i \in 0 .. taken - 1 : place[i] \in Places /\ place[i] # Lost
    BY <1>1, <2>1, <2>2 DEF PartsIn, PlacesOK
  <2>4. own \cup owed \cup waits \cup counted = 0 .. taken - 1
    <3>1. ASSUME NEW i \in 0 .. taken - 1 PROVE i \in own \cup owed \cup waits \cup counted
      BY <2>3, PlacesDiffer
    <3> QED BY <2>3, <3>1
  <2>5. /\ \A i \in own : \E w \in Workers : place[i] = Own(w)
        /\ \A i \in owed : \E w \in Workers : place[i] = Owed(w)
        /\ \A i \in waits : \E c \in Contents : place[i] = Waits(c)
        /\ \A i \in counted : place[i] = Counted
    BY <2>3
  <2>6. /\ own \cap owed = {} /\ (own \cup owed) \cap waits = {}
        /\ (own \cup owed \cup waits) \cap counted = {}
    <3> HIDE DEF own, owed, waits, counted
    <3> QED BY <2>5, PlacesDiffer
  <2>7. own \subseteq 0 .. taken - 1 /\ owed \subseteq 0 .. taken - 1 /\ waits \subseteq 0 .. taken - 1
    BY <2>3
  <2>8. IsFiniteSet(own) /\ IsFiniteSet(owed) /\ IsFiniteSet(waits)
    <3>1. IsFiniteSet(0 .. taken - 1)
      BY <2>2, FS_Interval
    <3> HIDE DEF own, owed, waits
    <3> QED BY <2>7, <3>1, FS_Subset
  <2>9. Cardinality(own) = Cardinality(InHand)
    <3> DEFINE part == [w \in InHand |-> act[w].part]
    <3>1. \A w \in Workers : PartsIn(place, Own(w)) = IF Holding(w) THEN {act[w].part} ELSE {}
      BY <2>1 DEF PlacesOK, WorkerPlaces, Busy, Holding
    <3>2. \A w \in InHand : w \in Workers /\ PartsIn(place, Own(w)) = {act[w].part}
      BY <3>1 DEF InHand
    <3>3. part \in [InHand -> own]
      BY <3>2
    <3>4. ASSUME NEW w \in InHand, NEW v \in InHand, part[w] = part[v] PROVE w = v
      <4>1. place[act[w].part] = Own(w) /\ place[act[v].part] = Own(v)
        BY <2>3, <3>2
      <4> QED BY <3>2, <3>4, <4>1, PlacesDiffer
    <3>5. ASSUME NEW i \in own PROVE \E w \in InHand : part[w] = i
      BY <3>1 DEF InHand
    <3> HIDE DEF part, own
    <3> QED BY <2>8, <3>3, <3>4, <3>5, OneEach
  <2>10. Cardinality(owed) = Cardinality(Owing)
    <3> DEFINE P == [w \in Workers |-> PartsIn(place, Owed(w))]
               n == [w \in Workers |-> act[w].owed]
    <3>1. P \in [Workers -> SUBSET owed] /\ n \in [Workers -> Nat]
      BY <2>2
    <3>2. ASSUME NEW w \in Workers, NEW v \in Workers, w # v PROVE P[w] \cap P[v] = {}
      BY <2>3, <3>2, PlacesDiffer
    <3>3. \A i \in owed : \E w \in Workers : i \in P[w]
      OBVIOUS
    <3>4. \A w \in Workers : Cardinality(P[w]) = n[w]
      BY <2>1 DEF PlacesOK, WorkerPlaces
    <3>5. Owing = UNION {{w} \X (1 .. n[w]) : w \in Workers}
      BY DEF Owing
    <3> HIDE DEF P, n, owed
    <3> QED BY <2>8, <3>1, <3>2, <3>3, <3>4, <3>5, Tagged
  <2>11. Cardinality(waits) = Cardinality(Waiting)
    <3> DEFINE P == [c \in Contents |-> PartsIn(place, Waits(c))]
               n == [c \in Contents |-> claims[c].waiting]
    <3>1. P \in [Contents -> SUBSET waits] /\ n \in [Contents -> Nat]
      BY <2>2
    <3>2. ASSUME NEW c \in Contents, NEW d \in Contents, c # d PROVE P[c] \cap P[d] = {}
      BY <2>3, <3>2, PlacesDiffer
    <3>3. \A i \in waits : \E c \in Contents : i \in P[c]
      OBVIOUS
    <3>4. \A c \in Contents : Cardinality(P[c]) = n[c]
      BY <2>1 DEF PlacesOK, ClaimPlaces
    <3>5. Waiting = UNION {{c} \X (1 .. n[c]) : c \in Contents}
      BY DEF Waiting
    <3> HIDE DEF P, n, waits
    <3> QED BY <2>8, <3>1, <3>2, <3>3, <3>4, <3>5, Tagged
  <2>12. Cardinality(counted) = snap.parts
    BY <2>1 DEF PlacesOK, CountedPlaces
  <2>13. taken = Cardinality(own) + Cardinality(owed) + Cardinality(waits) + Cardinality(counted)
    <3> HIDE DEF own, owed, waits, counted
    <3>1. Cardinality(0 .. taken - 1) = taken
      BY <2>2, FS_Interval
    <3>2. IsFiniteSet(counted)
      BY <2>2, PartsAreFinite DEF counted
    <3>3. Cardinality(own \cup owed \cup waits \cup counted) =
            Cardinality(own) + Cardinality(owed) + Cardinality(waits) + Cardinality(counted)
      BY <2>6, <2>8, <3>2, FourWays
    <3> QED BY <2>4, <3>1, <3>3
  <2>14. Cardinality(own) \in Nat /\ Cardinality(owed) \in Nat /\ Cardinality(waits) \in Nat
    BY <2>8, FS_CardinalityType
  <2> HIDE DEF own, owed, waits, counted
  <2> QED BY <2>2, <2>9, <2>10, <2>11, <2>12, <2>13, <2>14
<1>2. PushInv /\ PlacesInv => LedgerBalances
  BY <1>1 DEF LedgerBalances
<1> QED BY <1>2, AccountHolds, PTL
=============================================================================
