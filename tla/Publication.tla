---------------------------- MODULE Publication ----------------------------
(***************************************************************************)
(* What a push promises the readers of a repository, and nothing about how *)
(* it keeps the promise: blobs accumulate, an artifact appears in one step *)
(* and only over blobs that are already there, it never changes once it    *)
(* has appeared, and the caller is told "done" only of a visible artifact. *)
(***************************************************************************)
CONSTANTS Blobs,      \* everything a repository may hold
          Config,     \* the config blob every artifact names
          Artifacts,  \* the artifacts that may be published: functions onto blobs
          NoArtifact  \* the reference resolves to nothing

VARIABLES held,       \* the blobs the repository holds
          artifact,   \* what the reference resolves to
          outcome     \* what the caller has been told

pubVars == <<held, artifact, outcome>>

PubTypeOK == /\ held \subseteq Blobs
             /\ artifact \in Artifacts \cup {NoArtifact}
             /\ outcome \in {"running", "done", "failed"}

\* The blobs an artifact names.
NamedBy(m) == {m[i] : i \in DOMAIN m} \cup {Config}

PubInit == /\ held \subseteq Blobs
           /\ artifact = NoArtifact
           /\ outcome = "running"

Store == /\ outcome = "running"
         /\ \E b \in Blobs : held' = held \cup {b}
         /\ UNCHANGED <<artifact, outcome>>

Publish == /\ outcome = "running"
           /\ artifact = NoArtifact
           /\ \E m \in Artifacts : NamedBy(m) \subseteq held /\ artifact' = m
           /\ UNCHANGED <<held, outcome>>

TellDone == /\ outcome = "running"
            /\ artifact # NoArtifact
            /\ outcome' = "done"
            /\ UNCHANGED <<held, artifact>>

TellFailed == /\ outcome = "running"
              /\ outcome' = "failed"
              /\ UNCHANGED <<held, artifact>>

PubNext == Store \/ Publish \/ TellDone \/ TellFailed

PubSpec == PubInit /\ [][PubNext]_pubVars
=============================================================================
