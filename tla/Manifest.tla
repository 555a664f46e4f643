------------------------------ MODULE Manifest ------------------------------
(***************************************************************************)
(* The manifest, from the push that writes it to the pull that reads it:   *)
(* a push walks the parts of its split in file order (internal/plan),      *)
(* encodes what it found (internal/manifest) and puts it at its reference; *)
(* the registry, or whoever else writes there, may hold another document;  *)
(* a pull gets what is held, by tag or by digest (internal/oci), and       *)
(* decodes it.  Every file and part size of the integer type is an input.  *)
(*                                                                         *)
(* JSON is a record of the members Decode consumes.  A media type is known *)
(* by how it compares, a digest by its algorithm and by what it is of.     *)
(***************************************************************************)
EXTENDS Plan, Sequences

VARIABLES fileSize, partSize,  \* the inputs of plan.New
          next,                \* how many parts the walk has yielded
          written,             \* what the push wrote: the artifact, the document
          held,                \* the document the reference resolves to
          read                 \* what the pull made of it

vars == <<fileSize, partSize, next, written, held, read>>

Int64 == -(MaxInt + 1) .. MaxInt
Planned == NewPlan(fileSize, partSize)
LastPart == PartAt(fileSize, partSize, next - 1)

Nothing == <<>>

Init == /\ fileSize \in Int64 /\ partSize \in Int64 /\ next = 0
        /\ written = Nothing /\ held = Nothing /\ read = Nothing

\* The hash pass yields one more part of the split.
Yield == /\ next < Planned.numParts
         /\ next' = next + 1
         /\ UNCHANGED <<fileSize, partSize, written, held, read>>

-----------------------------------------------------------------------------
(* What a document holds. *)

MediaTypes == {"exact", "recased", "foreign", "absent"}
EqualFold(type) == type \in {"exact", "recased"}

DigestOf(what) == [algorithm |-> "sha256", of |-> what]
\* What go-digest accepts, and the one algorithm of the format.
GoodDigest(digest) == digest.algorithm = "sha256"

\* A size travels as text: a decimal, something else, or not at all.
FormatInt(n) == [form |-> "decimal", value |-> n]
ParsesAsInt(text) == text.form = "decimal" /\ text.value \in Int64

\* encoding/json writes and reads a broken rune as the replacement rune.
Titles == {"", "name", "broken", "replaced"}
ValidString(title) == title # "broken"
Json(title) == IF ValidString(title) THEN title ELSE "replaced"

EmptyConfig == [mediaType |-> "exact", digest |-> "empty", size |-> "two", data |-> "none"]

-----------------------------------------------------------------------------
(* Encode. *)

\* validateParts: the parts are those of the split the two sizes imply.
validateParts(a) ==
    LET plan == NewPlan(a.fileSize, a.partSize)
    IN  /\ a.parts # <<>>
        /\ plan.err = "none" /\ plan.numParts = Len(a.parts)
        /\ \A i \in DOMAIN a.parts :
               /\ GoodDigest(a.parts[i].digest)
               /\ a.parts[i].size = PartAt(a.fileSize, a.partSize, i - 1).size

\* Mistake: a title is written as it comes.
validateAnyTitle(a) == GoodDigest(a.fileDigest) /\ validateParts(a)

validate(a) == /\ ValidString(a.title)
               /\ GoodDigest(a.fileDigest)
               /\ validateParts(a)

Encode(a) ==
    [form |-> "manifest",
     schemaVersion |-> 2, mediaType |-> "exact", artifactType |-> "exact",
     config |-> EmptyConfig,
     annotations |-> [fileDigest |-> <<a.fileDigest>>,
                      fileSize |-> FormatInt(a.fileSize),
                      partSize |-> FormatInt(a.partSize),
                      title |-> Json(a.title)],
     layers |-> [i \in DOMAIN a.parts |->
                    [mediaType |-> "exact", digest |-> a.parts[i].digest,
                     size |-> a.parts[i].size]]]

-----------------------------------------------------------------------------
(* Decode. *)

checkKind(doc) == /\ doc.mediaType = "absent" \/ EqualFold(doc.mediaType)
                  /\ EqualFold(doc.artifactType)

checkConfig(config) == /\ EqualFold(config.mediaType)
                       /\ config.digest = "empty" /\ config.size = "two"
                       /\ config.data \in {"none", "empty"}

\* readAnnotations: three of the four are required, two of them numbers.
Annotated(notes) == /\ notes.fileDigest # <<>>
                    /\ ParsesAsInt(notes.fileSize) /\ ParsesAsInt(notes.partSize)

readLayers(layers) == \A i \in DOMAIN layers : EqualFold(layers[i].mediaType)

\* The artifact a document with all its members describes.
Described(doc) ==
    [fileDigest |-> doc.annotations.fileDigest[1],
     fileSize |-> doc.annotations.fileSize.value,
     partSize |-> doc.annotations.partSize.value,
     title |-> Json(doc.annotations.title),
     parts |-> [i \in DOMAIN doc.layers |->
                   [digest |-> doc.layers[i].digest, size |-> doc.layers[i].size]]]

\* Mistakes: parts are checked by their number only, or digests not at all.
validateDecodedCount(a) ==
    /\ GoodDigest(a.fileDigest) /\ ValidString(a.title)
    /\ a.parts # <<>>
    /\ NewPlan(a.fileSize, a.partSize).err = "none"
    /\ NewPlan(a.fileSize, a.partSize).numParts = Len(a.parts)
validateDecodedSizes(a) ==
    /\ validateDecodedCount(a)
    /\ \A i \in DOMAIN a.parts :
           a.parts[i].size = PartAt(a.fileSize, a.partSize, i - 1).size

\* validateDecoded and validateDecodedParts: validate's rules once more, the
\* code keeping two copies so that these can say nothing a registry chose.
validateDecoded(a) ==
    /\ ValidString(a.title) /\ GoodDigest(a.fileDigest)
    /\ a.parts # <<>>
    /\ NewPlan(a.fileSize, a.partSize).err = "none"
    /\ NewPlan(a.fileSize, a.partSize).numParts = Len(a.parts)
    /\ \A i \in DOMAIN a.parts :
           /\ GoodDigest(a.parts[i].digest)
           /\ a.parts[i].size = PartAt(a.fileSize, a.partSize, i - 1).size

Verdict(err) == [err |-> err, artifact |-> Nothing]

\* Too many layers are refused as the document is parsed, before its kind.
Decode(doc) ==
    IF doc.form # "manifest" \/ Len(doc.layers) > MaxParts THEN Verdict("unparsed")
    ELSE IF ~checkKind(doc) THEN Verdict("not_bigoci")
    ELSE IF /\ doc.schemaVersion = 2
            /\ checkConfig(doc.config)
            /\ Annotated(doc.annotations)
            /\ readLayers(doc.layers)
            /\ validateDecoded(Described(doc))
         THEN [err |-> "none", artifact |-> <<Described(doc)>>]
    ELSE Verdict("broken")

-----------------------------------------------------------------------------
(* The push's tail, the registry, and the pull's head. *)

\* The artifact a push has found once its walk is over.
Found(title) ==
    [fileDigest |-> DigestOf(0), fileSize |-> fileSize, partSize |-> partSize,
     title |-> title,
     parts |-> [i \in 1 .. Planned.numParts |->
                   [digest |-> DigestOf(i),
                    size |-> PartAt(fileSize, partSize, i - 1).size]]]

\* writeManifest and Manifests.Put.
Write ==
    /\ written = Nothing
    /\ Planned.err = "none" /\ next = Planned.numParts
    /\ \E title \in Titles :
         LET a == Found(title)
         IN  /\ validate(a)
             /\ written' = <<a, Encode(a)>>
             /\ held' = <<Encode(a)>>
    /\ UNCHANGED <<fileSize, partSize, next, read>>

\* What text may stand in the place of a number, n being a size.
Numbers(n) == {[form |-> "absent", value |-> 0], [form |-> "garbled", value |-> 0]}
              \cup {FormatInt(v) : v \in {-1, 0, n - 1, n + 1, MaxInt, MaxInt + 1}}

\* What may stand in the place of a layer: a neighbour, or one altered.
Spares(layers) ==
    UNION {{[layers[j] EXCEPT !.mediaType = m] : m \in MediaTypes}
           \cup {[layers[j] EXCEPT !.size = layers[j].size + d] : d \in {-1, 1}}
           \cup {[layers[j] EXCEPT !.digest.algorithm = "other"]} : j \in DOMAIN layers}

\* Layers with one exchanged, one missing, or one too many.
Layerings(layers) ==
    {[layers EXCEPT ![i] = l] : i \in DOMAIN layers, l \in Spares(layers)}
    \cup {SubSeq(layers, 1, Len(layers) - 1), Append(layers, layers[1])}

OtherNotes(notes) ==
    {[notes EXCEPT !.title = t] : t \in Titles}
    \cup {[notes EXCEPT !.fileDigest = <<>>], [notes EXCEPT !.fileDigest[1].algorithm = "other"]}
    \cup {[notes EXCEPT !.fileSize = t] : t \in Numbers(notes.fileSize.value)}
    \cup {[notes EXCEPT !.partSize = t] : t \in Numbers(notes.partSize.value)}

OtherConfigs(config) ==
    {[config EXCEPT !.mediaType = t] : t \in MediaTypes}
    \cup {[config EXCEPT !.data = d] : d \in {"empty", "other"}}
    \cup {[config EXCEPT !.digest = "other"], [config EXCEPT !.size = "other"]}

\* The documents that differ from this one in one member.
Others(doc) ==
    {[doc EXCEPT !.form = f] : f \in {"garbage", "oversized"}}
    \cup {[doc EXCEPT !.schemaVersion = 1]}
    \cup {[doc EXCEPT !.mediaType = t] : t \in MediaTypes}
    \cup {[doc EXCEPT !.artifactType = t] : t \in MediaTypes}
    \cup {[doc EXCEPT !.config = c] : c \in OtherConfigs(doc.config)}
    \cup {[doc EXCEPT !.annotations = n] : n \in OtherNotes(doc.annotations)}
    \cup {[doc EXCEPT !.layers = l] : l \in Layerings(doc.layers)}

\* The tag is moved, or the registry answers with something else.
Replace ==
    /\ written # Nothing /\ held = <<written[2]>> /\ read = Nothing
    /\ \E doc \in Others(written[2]) : held' = <<doc>>
    /\ UNCHANGED <<fileSize, partSize, next, written, read>>

\* checkBound: a pull by digest accepts only what has it.
Matches(pinned, doc) == pinned => doc = written[2]

\* readManifest gives up on a body above its limit.
Oversized(doc) == doc.form = "oversized"

\* Manifests.Get, by tag or by the digest the push returned, and Decode.
Read ==
    /\ held # Nothing /\ read = Nothing
    /\ \E pinned \in BOOLEAN :
         LET doc == held[1]
         IN  read' = <<pinned, IF Oversized(doc) \/ ~Matches(pinned, doc)
                               THEN Verdict("refused") ELSE Decode(doc)>>
    /\ UNCHANGED <<fileSize, partSize, next, written, held>>

Next == Yield \/ Write \/ Replace \/ Read

Spec == Init /\ [][Next]_vars

-----------------------------------------------------------------------------
(* Properties. *)

\* The parts tile the file: the part yielded last lies inside the file, full
\* unless it is the last, non-empty unless the file is, and the ones yielded
\* so far end exactly where the next begins or where the file does.
TilesTheFile ==
    next > 0 =>
        LET end == LastPart.offset + LastPart.size
        IN  /\ LastPart.offset \in 0 .. fileSize
            /\ LastPart.size \in 0 .. partSize
            /\ LastPart.size = 0 => fileSize = 0
            /\ IF next = Planned.numParts THEN end = fileSize
               ELSE end = PartAt(fileSize, partSize, next).offset

\* A plan has a part however small the file, never more than a manifest may
\* name, and every legal input gets either a plan or the advice below.
PlanIsUsable ==
    /\ Planned.err = "none" => Planned.numParts \in 1 .. MaxParts
    /\ Planned.err = "invalid" <=> (fileSize < 0 \/ partSize <= 0)

\* A split refused for its number of parts names a part size that works, and
\* no smaller one does ("retry with a part size of at least").
AdviceWorks ==
    Planned.err = "too_many" =>
        /\ NewPlan(fileSize, Planned.retryWith).err = "none"
        /\ NewPlan(fileSize, Planned.retryWith - 1).err # "none"

Pinned == read[1]
Outcome == read[2]
Accepted == read # Nothing /\ Outcome.err = "none"

\* What a push wrote reads back as what it found (Encode: "bigoci never writes
\* a manifest it would later refuse to read"), and a pull by digest gets that
\* or nothing, whatever its registry holds.
ReadsBack ==
    /\ read # Nothing /\ held = <<written[2]>> => Accepted
    /\ Accepted /\ (Pinned \/ held = <<written[2]>>) =>
           Outcome.artifact = <<written[1]>>

\* Where the first i parts end.
Ends(parts) ==
    LET end[i \in 0 .. Len(parts)] == IF i = 0 THEN 0 ELSE end[i - 1] + parts[i].size
    IN  end

\* Whatever a pull accepts, its parts make up its file, one after the other,
\* each at the offset the pull's plan gives it; what it resumes into and
\* commits is sized by them.
AcceptedTiles ==
    Accepted => LET a == Outcome.artifact[1]
                IN  /\ Len(a.parts) \in 1 .. MaxParts
                    /\ \A i \in DOMAIN a.parts :
                           /\ a.parts[i].size \in 0 .. a.partSize
                           /\ PartAt(a.fileSize, a.partSize, i - 1).offset = Ends(a.parts)[i - 1]
                    /\ Ends(a.parts)[Len(a.parts)] = a.fileSize

\* The two copies of the rules agree: what Decode accepts, Encode writes, and
\* what it then writes reads back the same (Encode: "Decode enforces the same
\* rules").
AcceptedIsRewritable ==
    Accepted => LET a == Outcome.artifact[1]
                IN  /\ validate(a)
                    /\ Decode(Encode(a)).artifact = <<a>>
=============================================================================
