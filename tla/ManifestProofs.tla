----------------------------- MODULE ManifestProofs ----------------------------
(***************************************************************************)
(* For every width of the integers: the walk over a plan tiles the file,   *)
(* the advice of a refused one works, what a push writes a pull reads      *)
(* back, and what a pull accepts makes up its file.                        *)
(***************************************************************************)
EXTENDS Manifest, PlanProofs, SequenceTheorems, NaturalsInduction, WellFoundedInduction

\* The iterator yields no more parts than the plan has, and only a plan that
\* was not refused yields any.
WalkInv == /\ fileSize \in Int64 /\ partSize \in Int64
           /\ next \in Nat
           /\ next > 0 => Planned.err = "none" /\ next <= Planned.numParts

LEMMA LegalInputs ==
  ASSUME fileSize \in Int64, partSize \in Int64, Planned.err = "none"
  PROVE  fileSize \in Sizes /\ partSize \in Sizes \ {0}
BY PlanAssumption DEF Planned, NewPlan, Int64, Sizes

LEMMA WalkIsBounded == Spec => []WalkInv
<1>1. Init => WalkInv
  BY DEF Init, WalkInv
<1>2. WalkInv /\ [Next]_vars => WalkInv'
  <2> SUFFICES ASSUME WalkInv, [Next]_vars PROVE WalkInv'
    OBVIOUS
  <2>1. CASE Yield
    <3>1. Planned' = Planned
      BY <2>1 DEF Yield, Planned
    <3>2. Planned.err = "none"
      <4>1. SUFFICES ASSUME Planned.err # "none" PROVE FALSE
        OBVIOUS
      <4>2. Planned.numParts = 0
        BY <4>1 DEF Planned, NewPlan
      <4> QED
        BY <2>1, <4>2 DEF Yield, WalkInv
    <3>3. Planned.numParts \in Nat
      BY <3>2, LegalInputs, PlanHasParts DEF WalkInv, Planned
    <3> QED
      BY <2>1, <3>1, <3>2, <3>3 DEF Yield, WalkInv
  <2>2. CASE UNCHANGED <<fileSize, partSize, next>>
    BY <2>2 DEF WalkInv, Planned
  <2> QED
    BY <2>1, <2>2 DEF Next, Write, Replace, Read, vars
<1> QED
  BY <1>1, <1>2, PTL DEF Spec

\* Push, pull and decode cut a file into the same parts: in file order, without
\* a gap, an overlap or an overflow, from its first byte to its last.
THEOREM PartsTileTheFile == Spec => []TilesTheFile
<1>1. WalkInv => TilesTheFile
  <2> SUFFICES ASSUME WalkInv, next > 0 PROVE TilesTheFile
    BY DEF TilesTheFile
  <2> DEFINE f == fileSize
             p == partSize
             n == CountParts(f, p)
  <2>1. f \in Sizes /\ p \in Sizes \ {0}
    BY LegalInputs DEF WalkInv
  <2>2. Planned.numParts = n /\ n \in Nat \ {0} /\ next \in 1 .. n
    BY <2>1, PlanHasParts, CountIsPositive DEF WalkInv, Planned
  <2>3. next - 1 \in 0 .. n - 1 /\ (next - 1) + 1 = next
    BY <2>2
  <2>4. /\ (next - 1) * p \in 0 .. f
        /\ LastPart = [offset |-> (next - 1) * p, size |-> LesserOf(p, f - (next - 1) * p)]
        /\ LastPart.size \in 0 .. p
    BY <2>1, <2>3, PartInFile DEF LastPart
  <2>5. /\ LastPart.size = 0 => f = 0
        /\ next < n => LastPart.offset + LastPart.size = PartAt(f, p, next).offset
        /\ next = n => LastPart.offset + LastPart.size = f
    BY <2>1, <2>3, PartsTile DEF LastPart
  <2>6. LastPart.offset \in 0 .. f
    BY <2>4
  <2> HIDE DEF n
  <2> QED
    BY <2>2, <2>4, <2>5, <2>6 DEF TilesTheFile
<1> QED
  BY <1>1, WalkIsBounded, PTL

\* A plan has between one part and the most a manifest may name.
THEOREM PlanHasUsableParts == Spec => []PlanIsUsable
<1>1. WalkInv => PlanIsUsable
  <2> SUFFICES ASSUME WalkInv PROVE PlanIsUsable
    OBVIOUS
  <2>1. Planned.err = "none" => Planned.numParts \in 1 .. MaxParts
    BY LegalInputs, PlanHasParts DEF WalkInv, Planned
  <2>2. Planned.err = "invalid" <=> (fileSize < 0 \/ partSize <= 0)
    BY DEF Planned, NewPlan
  <2> QED
    BY <2>1, <2>2 DEF PlanIsUsable
<1> QED
  BY <1>1, WalkIsBounded, PTL

\* The part size a refusal names works, and is the least that does.
THEOREM AdviceIsSound == Spec => []AdviceWorks
<1>1. WalkInv => AdviceWorks
  <2> SUFFICES ASSUME WalkInv, Planned.err = "too_many" PROVE AdviceWorks
    BY DEF AdviceWorks
  <2> DEFINE s == SmallestPartSize(fileSize)
  <2>1. /\ ~(fileSize < 0 \/ partSize <= 0) /\ CountParts(fileSize, partSize) > MaxParts
        /\ Planned.retryWith = s
    BY DEF Planned, NewPlan
  <2>2. fileSize \in Sizes /\ partSize \in Sizes \ {0}
    BY <2>1, PlanAssumption DEF WalkInv, Int64, Sizes
  <2>3. /\ s \in Sizes \ {0} /\ CountParts(fileSize, s) <= MaxParts
        /\ s - 1 \in Sizes \ {0} /\ CountParts(fileSize, s - 1) > MaxParts
    BY <2>1, <2>2, AdviceIsLeast
  <2> HIDE DEF s
  <2>4. NewPlan(fileSize, s).err = "none"
    <3>1. ~(fileSize < 0 \/ s <= 0) /\ ~(CountParts(fileSize, s) > MaxParts)
      BY <2>2, <2>3, CountIsPositive, PlanAssumption DEF Sizes
    <3> QED BY <3>1 DEF NewPlan
  <2>5. NewPlan(fileSize, s - 1).err # "none"
    BY <2>3 DEF NewPlan
  <2> QED BY <2>1, <2>4, <2>5 DEF AdviceWorks
<1> QED
  BY <1>1, WalkIsBounded, PTL

-----------------------------------------------------------------------------
(* The round trip.  A sequence of parts, or of layers, is a function on    *)
(* 1 .. n of records with these two members among theirs.                  *)

PartsOf(seq) == [i \in DOMAIN seq |-> [digest |-> seq[i].digest, size |-> seq[i].size]]

IsArtifact(a) ==
    /\ a = [fileDigest |-> a.fileDigest, fileSize |-> a.fileSize,
            partSize |-> a.partSize, title |-> a.title, parts |-> a.parts]
    /\ a.fileSize \in Int64 /\ a.partSize \in Int64
    /\ \E n \in Nat : DOMAIN a.parts = 1 .. n
    /\ a.parts = PartsOf(a.parts)

\* What Encode accepts, Decode reads back from what Encode made of it.
LEMMA RoundTrip ==
  ASSUME NEW a, IsArtifact(a), validate(a)
  PROVE  Decode(Encode(a)) = [err |-> "none", artifact |-> <<a>>]
<1> DEFINE doc == Encode(a)
<1>1. PICK n \in Nat : DOMAIN a.parts = 1 .. n
  BY DEF IsArtifact
<1>2. DOMAIN doc.layers = 1 .. n
  BY <1>1 DEF Encode
<1>3. Len(doc.layers) = n /\ Len(a.parts) = n
  <2>1. a.parts = [i \in 1 .. n |-> [digest |-> a.parts[i].digest, size |-> a.parts[i].size]]
    BY <1>1 DEF IsArtifact, PartsOf
  <2>2. doc.layers = [i \in 1 .. n |-> [mediaType |-> "exact", digest |-> a.parts[i].digest,
                                        size |-> a.parts[i].size]]
    BY <1>1 DEF Encode
  <2> QED
    BY <2>1, <2>2
<1>4. ~(Len(doc.layers) > MaxParts)
  BY <1>3 DEF validate, validateParts, NewPlan
<1>5. doc.form = "manifest" /\ checkKind(doc) /\ doc.schemaVersion = 2
  BY DEF Encode, checkKind, EqualFold
<1>6. checkConfig(doc.config) /\ Annotated(doc.annotations)
  BY DEF Encode, checkConfig, EmptyConfig, EqualFold, Annotated, ParsesAsInt, FormatInt,
         IsArtifact
<1>7. readLayers(doc.layers)
  BY <1>1 DEF Encode, readLayers, EqualFold
<1>8. Described(doc) = a
  <2>1. [i \in DOMAIN doc.layers |-> [digest |-> doc.layers[i].digest,
                                     size |-> doc.layers[i].size]] = a.parts
    BY <1>1, <1>2 DEF Encode, IsArtifact, PartsOf
  <2>2. Json(doc.annotations.title) = a.title
    BY DEF Encode, Json, validate
  <2>3. /\ doc.annotations.fileDigest[1] = a.fileDigest
        /\ doc.annotations.fileSize.value = a.fileSize
        /\ doc.annotations.partSize.value = a.partSize
    BY DEF Encode, FormatInt
  <2> QED
    BY <2>1, <2>2, <2>3 DEF Described, IsArtifact
<1>9. validateDecoded(a)
  BY DEF validate, validateParts, validateDecoded
<1> QED
  BY <1>4, <1>5, <1>6, <1>7, <1>8, <1>9 DEF Decode

-----------------------------------------------------------------------------
(* What the push wrote, what is held in its place, what was made of it.    *)

SomeLayers(layers) == \E n \in Nat : layers = [i \in 1 .. n |-> layers[i]]

Wrote == \E title \in Titles : /\ IsArtifact(Found(title)) /\ validate(Found(title))
                              /\ written = <<Found(title), Encode(Found(title))>>

Holds == /\ written # Nothing
         /\ held = <<held[1]>>
         /\ SomeLayers(held[1].layers)

MadeOf(pinned, doc) ==
    IF Oversized(doc) \/ ~Matches(pinned, doc) THEN Verdict("refused")
    ELSE Decode(doc)

WasRead == /\ held # Nothing
           /\ Pinned \in BOOLEAN
           /\ read = <<Pinned, MadeOf(Pinned, held[1])>>

ManifestInv == /\ WalkInv
               /\ written # Nothing => Wrote
               /\ held # Nothing => Holds
               /\ read # Nothing => WasRead

LEMMA FoundIsArtifact ==
  ASSUME WalkInv, Planned.err = "none", NEW title
  PROVE  IsArtifact(Found(title))
<1>1. Planned.numParts \in Nat
  BY LegalInputs, PlanHasParts DEF WalkInv, Planned
<1> QED
  BY <1>1 DEF IsArtifact, Found, PartsOf, WalkInv

LEMMA EncodedLayers ==
  ASSUME NEW a, IsArtifact(a)
  PROVE  SomeLayers(Encode(a).layers)
BY DEF IsArtifact, SomeLayers, Encode

LEMMA ReplacedLayers ==
  ASSUME NEW a, IsArtifact(a), validate(a), NEW layers \in Layerings(Encode(a).layers)
  PROVE  SomeLayers(layers)
<1> DEFINE old == Encode(a).layers
<1>0. layers \in Layerings(old)
  OBVIOUS
<1>1. PICK n \in Nat : old = [i \in 1 .. n |-> old[i]]
  BY EncodedLayers DEF SomeLayers
<1>2. DOMAIN old = 1 .. n
  BY <1>1
<1>3. Len(old) = n
  BY <1>1
<1>4. n # 0
  <2>1. a.parts # <<>>
    BY DEF validate, validateParts
  <2>2. DOMAIN old = DOMAIN a.parts
    BY DEF Encode
  <2>3. PICK m \in Nat : DOMAIN a.parts = 1 .. m
    BY DEF IsArtifact
  <2>4. a.parts = [i \in 1 .. m |-> a.parts[i]]
    BY <2>3 DEF IsArtifact, PartsOf
  <2> QED
    BY <1>2, <2>1, <2>2, <2>3, <2>4
<1>5. SomeLayers(SubSeq(old, 1, Len(old) - 1))
  <2>1. SubSeq(old, 1, Len(old) - 1) = SubSeq(old, 1, n - 1)
    BY <1>3
  <2>2. SubSeq(old, 1, n - 1) = [i \in 1 .. n - 1 |-> SubSeq(old, 1, n - 1)[i]]
    <3> DEFINE S == {old[i] : i \in 1 .. n}
    <3>1. \A i \in 1 .. n - 1 : old[i] \in S
      OBVIOUS
    <3>2. SubSeq(old, 1, n - 1) \in Seq(S) /\ Len(SubSeq(old, 1, n - 1)) = n - 1
      <4> HIDE DEF old, S
      <4> QED
        BY <1>4, <3>1, SubSeqProperties
    <3> HIDE DEF old, S
    <3> QED
      BY <3>2
  <2> HIDE DEF old
  <2> QED
    BY <1>4, <2>1, <2>2 DEF SomeLayers
<1>6. SomeLayers(Append(old, old[1]))
  <2>1. Append(old, old[1]) = [i \in 1 .. n + 1 |-> IF i = n + 1 THEN old[1] ELSE old[i]]
    BY <1>1, <1>2, <1>3
  <2> HIDE DEF old
  <2> QED
    BY <2>1 DEF SomeLayers
<1>7. ASSUME NEW i \in DOMAIN old, NEW l PROVE SomeLayers([old EXCEPT ![i] = l])
  <2> HIDE DEF old
  <2> QED
    BY <1>2 DEF SomeLayers
<1>8. CASE layers \in {SubSeq(old, 1, Len(old) - 1), Append(old, old[1])}
  BY <1>5, <1>6, <1>8
<1>9. CASE layers \notin {SubSeq(old, 1, Len(old) - 1), Append(old, old[1])}
  <2>1. \E i \in DOMAIN old, l \in Spares(old) : layers = [old EXCEPT ![i] = l]
    <3> HIDE DEF old
    <3> QED
      BY <1>0, <1>9 DEF Layerings
  <2> QED
    BY <1>7, <2>1
<1> QED
  BY <1>8, <1>9

LEMMA OthersLayers ==
  ASSUME NEW a, IsArtifact(a), validate(a), NEW doc \in Others(Encode(a))
  PROVE  SomeLayers(doc.layers)
<1> DEFINE old == Encode(a)
<1>0. doc \in Others(old)
  OBVIOUS
<1>1. SomeLayers(old.layers)
  BY EncodedLayers
<1>2. old = [form |-> old.form, schemaVersion |-> old.schemaVersion,
             mediaType |-> old.mediaType, artifactType |-> old.artifactType,
             config |-> old.config, annotations |-> old.annotations, layers |-> old.layers]
  BY DEF Encode
<1>3. doc.layers = old.layers \/ doc.layers \in Layerings(old.layers)
  <2> HIDE DEF old
  <2> QED
    BY <1>0, <1>2 DEF Others
<1> QED
  BY <1>1, <1>3, ReplacedLayers

LEMMA ManifestInvHolds == Spec => []ManifestInv
<1>1. Init => ManifestInv
  BY DEF Init, ManifestInv, WalkInv
<1>2. ManifestInv /\ WalkInv' /\ [Next]_vars => ManifestInv'
  <2> SUFFICES ASSUME ManifestInv, WalkInv', [Next]_vars PROVE ManifestInv'
    OBVIOUS
  <2> USE DEF ManifestInv
  <2>1. CASE Yield
    <3>1. Planned' = Planned /\ \A title : Found(title)' = Found(title)
      BY <2>1 DEF Yield, Planned, Found
    <3>2. UNCHANGED <<written, held, read>>
      BY <2>1 DEF Yield
    <3> QED
      BY <3>1, <3>2 DEF Wrote, Holds, WasRead, MadeOf, Matches, Pinned
  <2>2. CASE Write
    <3>1. \A title : Found(title)' = Found(title)
      BY <2>2 DEF Write, Planned, Found
    <3>2. PICK title \in Titles :
             /\ validate(Found(title))
             /\ written' = <<Found(title), Encode(Found(title))>>
             /\ held' = <<Encode(Found(title))>>
      BY <2>2 DEF Write
    <3>3. IsArtifact(Found(title))
      BY <2>2, FoundIsArtifact DEF Write
    <3>4. Wrote'
      BY <3>1, <3>2, <3>3 DEF Wrote
    <3>5. Holds'
      BY <3>2, <3>3, EncodedLayers DEF Holds, Nothing
    <3>6. read = Nothing
      BY <2>2 DEF Write, WasRead, Holds, Nothing
    <3> QED
      BY <2>2, <3>4, <3>5, <3>6 DEF Write
  <2>3. CASE Replace
    <3>1. \A title : Found(title)' = Found(title)
      BY <2>3 DEF Replace, Planned, Found
    <3>2. PICK title \in Titles : /\ IsArtifact(Found(title)) /\ validate(Found(title))
                                  /\ written = <<Found(title), Encode(Found(title))>>
      BY <2>3 DEF Replace, Wrote
    <3>3. PICK doc \in Others(written[2]) : held' = <<doc>>
      BY <2>3 DEF Replace
    <3>4. SomeLayers(doc.layers)
      BY <3>2, <3>3, OthersLayers
    <3>5. Wrote' /\ Holds'
      BY <2>3, <3>1, <3>2, <3>3, <3>4 DEF Replace, Wrote, Holds
    <3> QED
      BY <2>3, <3>5 DEF Replace
  <2>4. CASE Read
    <3>1. /\ \A title : Found(title)' = Found(title)
          /\ UNCHANGED <<written, held>>
      BY <2>4 DEF Read, Planned, Found
    <3>2. PICK pinned \in BOOLEAN : read' = <<pinned, MadeOf(pinned, held[1])>>
      BY <2>4 DEF Read, MadeOf
    <3>3. WasRead'
      BY <2>4, <3>1, <3>2 DEF Read, WasRead, Pinned, MadeOf, Matches
    <3> QED
      BY <3>1, <3>3 DEF Wrote, Holds
  <2>5. CASE UNCHANGED vars
    BY <2>5 DEF vars, Wrote, Holds, WasRead, Found, Planned, MadeOf, Matches, Pinned
  <2> QED
    BY <2>1, <2>2, <2>3, <2>4, <2>5 DEF Next
<1> QED
  BY <1>1, <1>2, WalkIsBounded, PTL DEF Spec

\* What a push wrote, a pull reads back as what the push found; by digest it
\* gets that or nothing.
THEOREM WhatIsWrittenReadsBack == Spec => []ReadsBack
<1>1. ManifestInv => ReadsBack
  <2> SUFFICES ASSUME ManifestInv, read # Nothing PROVE ReadsBack
    BY DEF ReadsBack, Accepted
  <2>1. Wrote /\ Holds /\ WasRead
    BY DEF ManifestInv, WasRead, Holds
  <2>2. PICK title \in Titles : /\ IsArtifact(Found(title)) /\ validate(Found(title))
                                /\ written = <<Found(title), Encode(Found(title))>>
    BY <2>1 DEF Wrote
  <2>3. Decode(written[2]) = [err |-> "none", artifact |-> <<written[1]>>]
    BY <2>2, RoundTrip
  <2>4. written[2].form = "manifest"
    BY <2>2 DEF Encode
  <2>5. Outcome = MadeOf(Pinned, held[1]) /\ held = <<held[1]>> /\ Pinned \in BOOLEAN
    BY <2>1 DEF WasRead, Holds, Outcome
  <2>6. held = <<written[2]>> => Outcome = [err |-> "none", artifact |-> <<written[1]>>]
    BY <2>3, <2>4, <2>5 DEF MadeOf, Matches, Oversized
  <2>7. Accepted /\ Pinned => held = <<written[2]>>
    BY <2>5 DEF Accepted, MadeOf, Matches, Verdict
  <2> QED
    BY <2>6, <2>7 DEF ReadsBack, Accepted
<1> QED
  BY <1>1, ManifestInvHolds, PTL

LEMMA DescribedIsArtifact ==
  ASSUME NEW doc, SomeLayers(doc.layers), Annotated(doc.annotations)
  PROVE  IsArtifact(Described(doc))
BY DEF IsArtifact, Described, SomeLayers, Annotated, ParsesAsInt, PartsOf

\* Whatever a pull accepts, a push would write, and it would read back.
THEOREM RulesAgree == Spec => []AcceptedIsRewritable
<1>1. ManifestInv => AcceptedIsRewritable
  <2> SUFFICES ASSUME ManifestInv, Accepted PROVE AcceptedIsRewritable
    BY DEF AcceptedIsRewritable
  <2> DEFINE doc == held[1]
             a == Described(doc)
  <2>1. SomeLayers(doc.layers) /\ Outcome = MadeOf(Pinned, doc)
    BY DEF ManifestInv, Accepted, WasRead, Holds, Outcome
  <2>2. Outcome = Decode(doc)
    BY <2>1 DEF MadeOf, Accepted, Verdict
  <2>3. /\ Outcome = [err |-> "none", artifact |-> <<a>>]
        /\ Annotated(doc.annotations) /\ validateDecoded(a)
    BY <2>2 DEF Decode, Accepted, Verdict
  <2>4. IsArtifact(a)
    BY <2>1, <2>3, DescribedIsArtifact
  <2>5. validate(a)
    BY <2>3 DEF validate, validateParts, validateDecoded
  <2> HIDE DEF a
  <2>6. Decode(Encode(a)) = [err |-> "none", artifact |-> <<a>>]
    BY <2>4, <2>5, RoundTrip
  <2> QED
    BY <2>3, <2>5, <2>6 DEF AcceptedIsRewritable
<1> QED
  BY <1>1, ManifestInvHolds, PTL

-----------------------------------------------------------------------------
(* What an accepted document's parts make up. *)

\* Every number is reached by counting.
LEMMA Counting ==
    ASSUME NEW S, 0 \in S, \A n \in Nat : n \in S => n + 1 \in S
    PROVE  Nat \subseteq S
<1> DEFINE Below == {ss \in Nat \X Nat : ss[1] < ss[2]}
           Rest == Nat \ S
<1> SUFFICES ASSUME Rest # {} PROVE FALSE
  OBVIOUS
<1>1. IsWellFoundedOn(Below, Nat)
  BY NatLessThanWellFounded, Zenon DEF OpToRel
<1>2. \A m, n \in Nat : m < n => <<m, n>> \in Below
  OBVIOUS
<1> HIDE DEF Below
<1>3. PICK n \in Rest : \A m \in Rest : <<m, n>> \notin Below
  BY <1>1, WFMin
<1>4. \A m \in Nat \ S : ~(m < n)
  BY <1>2, <1>3
<1>5. n # 0 /\ n - 1 \in Nat
  BY <1>3
<1>6. n - 1 \in S
  BY <1>4, <1>5
<1> QED BY <1>3, <1>5, <1>6

\* Parts of the planned sizes end where the plan's parts begin, the last one
\* where the file ends.
LEMMA PlannedEnds ==
    ASSUME NEW f \in Sizes, NEW p \in Sizes \ {0}, NEW parts,
           Len(parts) = CountParts(f, p),
           \A i \in 1 .. CountParts(f, p) : parts[i].size = PartAt(f, p, i - 1).size
    PROVE  /\ \A i \in 1 .. CountParts(f, p) : PartAt(f, p, i - 1).offset = Ends(parts)[i - 1]
           /\ Ends(parts)[CountParts(f, p)] = f
<1> DEFINE n == CountParts(f, p)
           at == [i \in 0 .. n |-> IF i = n THEN f ELSE i * p]
           end == Ends(parts)
           Table(e) == e = [i \in 0 .. n |-> IF i = 0 THEN 0 ELSE e[i - 1] + parts[i].size]
<1>1. n \in Nat \ {0} /\ f \in Nat /\ p \in Nat
  BY CountIsPositive, PlanAssumption DEF Sizes
<1>2. ASSUME NEW i \in 1 .. n
      PROVE  /\ i - 1 \in 0 .. n - 1 /\ i - 1 # n /\ (i - 1) * p \in Nat
             /\ PartAt(f, p, i - 1).offset = (i - 1) * p
             /\ parts[i].size \in Nat
             /\ (i - 1) * p + parts[i].size = IF i = n THEN f ELSE i * p
  <2>1. i - 1 \in 0 .. n - 1 /\ i - 1 # n /\ (i - 1) + 1 = i
    BY <1>1
  <2>2. /\ (i - 1) * p \in 0 .. f /\ PartAt(f, p, i - 1).offset = (i - 1) * p
        /\ PartAt(f, p, i - 1).size \in 0 .. p
    BY <2>1, PartInFile
  <2>3. i = n => PartAt(f, p, i - 1).offset + PartAt(f, p, i - 1).size = f
    BY <2>1, PartsTile
  <2>4. ASSUME i # n PROVE PartAt(f, p, i - 1).offset + PartAt(f, p, i - 1).size = i * p
    <3>1. i < n /\ i \in 0 .. n - 1
      BY <1>1, <2>4
    <3>2. PartAt(f, p, i).offset = i * p
      BY <3>1, PartInFile
    <3> QED BY <2>1, <3>1, <3>2, PartsTile
  <2> QED BY <1>1, <2>1, <2>2, <2>3, <2>4
<1> HIDE DEF n
<1>3. at[0] = 0 /\ at[n] = f /\ \A i \in 1 .. n : at[i - 1] = (i - 1) * p
  BY <1>1, <1>2
<1>4. Table(at)
  <2>1. ASSUME NEW i \in 0 .. n
        PROVE  at[i] = IF i = 0 THEN 0 ELSE at[i - 1] + parts[i].size
    <3>1. CASE i = 0
      BY <1>3, <3>1
    <3>2. CASE i # 0
      <4>1. i \in 1 .. n
        BY <1>1, <3>2
      <4> QED BY <1>2, <1>3, <3>2, <4>1
    <3> QED BY <3>1, <3>2
  <2> HIDE DEF at
  <2>2. at = [i \in 0 .. n |-> at[i]]
    BY DEF at
  <2> QED BY <2>1, <2>2
<1>5. Table(end)
  <2>1. Len(parts) = n
    BY DEF n
  <2>2. \E e : Table(e)
    BY <1>4
  <2> QED BY <2>1, <2>2 DEF Ends
<1> HIDE DEF end, at
<1>6. \A i \in 0 .. n : end[i] = at[i]
  <2> DEFINE S == {k \in Nat : k <= n => end[k] = at[k]}
  <2>1. 0 \in S
    BY <1>1, <1>4, <1>5
  <2>2. ASSUME NEW k \in Nat, k \in S PROVE k + 1 \in S
    <3>1. CASE k + 1 <= n
      <4>1. k + 1 \in 0 .. n /\ k + 1 # 0 /\ (k + 1) - 1 = k /\ end[k] = at[k]
        BY <1>1, <2>2, <3>1
      <4>2. end[k + 1] = end[k] + parts[k + 1].size
        BY <1>5, <4>1
      <4>3. at[k + 1] = at[k] + parts[k + 1].size
        BY <1>4, <4>1
      <4> QED BY <4>1, <4>2, <4>3
    <3> QED BY <3>1
  <2> HIDE DEF S
  <2>3. Nat \subseteq S
    BY <2>1, <2>2, Counting
  <2> QED BY <1>1, <2>3 DEF S
<1>7. end[n] = f
  BY <1>1, <1>3, <1>6
<1>8. \A i \in 1 .. n : PartAt(f, p, i - 1).offset = end[i - 1]
  <2> TAKE i \in 1 .. n
  <2>1. i - 1 \in 0 .. n
    BY <1>1
  <2> QED BY <1>2, <1>3, <1>6, <2>1
<1> QED BY <1>7, <1>8 DEF n, end

\* Whatever document is served, the parts a pull accepts tile its file.
THEOREM AcceptedMakesUpTheFile == Spec => []AcceptedTiles
<1>1. ManifestInv => AcceptedTiles
  <2> SUFFICES ASSUME ManifestInv, Accepted PROVE AcceptedTiles
    BY DEF AcceptedTiles
  <2> DEFINE doc == held[1]
             a == Described(doc)
             f == a.fileSize
             p == a.partSize
             n == CountParts(f, p)
  <2>1. SomeLayers(doc.layers) /\ Outcome = MadeOf(Pinned, doc)
    BY DEF ManifestInv, Accepted, WasRead, Holds, Outcome
  <2>2. Outcome = Decode(doc)
    BY <2>1 DEF MadeOf, Accepted, Verdict
  <2>3. /\ Outcome = [err |-> "none", artifact |-> <<a>>]
        /\ Annotated(doc.annotations) /\ validateDecoded(a)
    BY <2>2 DEF Decode, Accepted, Verdict
  <2>4. IsArtifact(a)
    BY <2>1, <2>3, DescribedIsArtifact
  <2> HIDE DEF a
  <2>5. f \in Int64 /\ p \in Int64 /\ NewPlan(f, p).err = "none"
    BY <2>3, <2>4 DEF IsArtifact, validateDecoded
  <2>6. f \in Sizes /\ p \in Sizes \ {0}
    BY <2>5, PlanAssumption DEF NewPlan, Int64, Sizes
  <2>7. Len(a.parts) = n /\ n \in 1 .. MaxParts
    BY <2>3, <2>5, <2>6, PlanHasParts DEF validateDecoded
  <2>8. DOMAIN a.parts = 1 .. n
    <3>1. PICK m \in Nat : DOMAIN a.parts = 1 .. m
      BY <2>4 DEF IsArtifact
    <3>2. a.parts = [i \in 1 .. m |-> [digest |-> a.parts[i].digest, size |-> a.parts[i].size]]
      BY <2>4, <3>1 DEF IsArtifact, PartsOf
    <3>3. Len(a.parts) = m
      BY <3>2
    <3> QED BY <2>7, <3>1, <3>3
  <2>9. \A i \in 1 .. n : a.parts[i].size = PartAt(f, p, i - 1).size
    BY <2>3, <2>8 DEF validateDecoded
  <2>10. ASSUME NEW i \in 1 .. n PROVE a.parts[i].size \in 0 .. p
    <3>1. i - 1 \in 0 .. n - 1
      BY <2>7
    <3> QED BY <2>6, <2>9, <3>1, PartInFile
  <2>11. /\ \A i \in 1 .. n : PartAt(f, p, i - 1).offset = Ends(a.parts)[i - 1]
         /\ Ends(a.parts)[n] = f
    <3> DEFINE parts == a.parts
    <3>1. Len(parts) = n /\ \A i \in 1 .. n : parts[i].size = PartAt(f, p, i - 1).size
      BY <2>7, <2>9
    <3> HIDE DEF parts, f, p
    <3>2. /\ \A i \in 1 .. n : PartAt(f, p, i - 1).offset = Ends(parts)[i - 1]
          /\ Ends(parts)[n] = f
      BY <2>6, <3>1, PlannedEnds
    <3> QED BY <3>2 DEF parts
  <2>12. Outcome.artifact[1] = a
    BY <2>3
  <2> HIDE DEF n
  <2> QED BY <2>7, <2>8, <2>10, <2>11, <2>12 DEF AcceptedTiles
<1> QED
  BY <1>1, ManifestInvHolds, PTL
=============================================================================
