------------------------------ MODULE Redirect ------------------------------
(***************************************************************************)
(* One request of internal/oci, from its send to its verdict, through the  *)
(* redirects a registry may answer it with.  net/http follows none of      *)
(* them: Repository.follow decides, hop by hop, whether to go where a peer *)
(* points, whether the credential goes along, and whose word the last      *)
(* answer is.  Answering a refusal is AuthState's business.                *)
(*                                                                         *)
(* A request to a host the registry named goes through externalTransport,  *)
(* which looks at the address each of its connections lands on.            *)
(*                                                                         *)
(* A peer may answer with any status and point anywhere.  A relative       *)
(* Location is one that names the origin it came from.                     *)
(***************************************************************************)
EXTENDS Naturals

CONSTANTS Registry,  \* the repository's scheme, host and port
          Hosts,     \* the hosts a Location may name
          Ports,     \* the ports it may name
          Statuses,  \* the statuses a peer may answer with
          NoHost, NoPort,
          MaxIdle    \* bound: the idle connections of the pool

maxRedirectHops == 3

URL == [scheme : {"https", "http", "other"}, host : Hosts \cup {NoHost},
        port : Ports \cup {NoPort}, userinfo : BOOLEAN]

\* What is sent: a HEAD; a GET of all or of the rest; or the PUT of a manifest.
Wants == {"probe", "whole", "rest", "write"}
Over == {"content", "absent", "taken", "refused", "transient", "failed"}

\* The caller's transport: one whose connections can be looked at, one that
\* hides them, and one the caller answers for.
Transports == {"inspectable", "hidden", "allowed"}

ASSUME RedirectAssumption ==
    /\ Registry \in URL /\ Registry.scheme \in {"https", "http"}
    /\ Registry.host # NoHost /\ ~Registry.userinfo
    /\ NoHost \notin Hosts /\ NoPort \notin Ports
    /\ Statuses \subseteq Nat
    /\ MaxIdle \in Nat

VARIABLES want,       \* what was asked for
          presented,  \* it was sent with a credential
          transport,  \* what it goes through
          url,        \* where the request in flight went
          carries,    \* it carries the credential
          hops,       \* how many redirects have been followed
          away,       \* the chain has left the registry's origin
          status,     \* the redirect being followed
          state,      \* "sent", "redirected", or the verdict
          peer,       \* where the connection of the trip leads, once it has one
          caught,     \* connectionCheck.err of the trip
          idle        \* connections in the pool that nobody has used yet

request == <<want, presented, transport>>
chain == <<url, carries, hops, away>>
trip == <<peer, caught, idle>>
vars == <<request, chain, status, state, trip>>

\* The type invariant; the chain is bounded.
TypeOK == /\ want \in Wants /\ presented \in BOOLEAN /\ transport \in Transports
          /\ url \in URL /\ carries \in BOOLEAN
          /\ hops \in 0 .. maxRedirectHops
          /\ away \in BOOLEAN
          /\ status \in Statuses \cup {0}
          /\ state \in {"sent", "redirected"} \cup Over
          /\ peer \in {"none", "public", "local", "unknown", "closed"}
          /\ caught \in BOOLEAN /\ idle \in 0 .. MaxIdle

-----------------------------------------------------------------------------
isRedirect(s) == s \in {301, 302, 303, 307, 308}
isRefusal(s) == s \in {401, 403}
transientStatus(s) == s = 429 \/ s \in 500 .. 599

\* What a failure with this status comes back as.
Failure(transient) == IF transient THEN "transient" ELSE "failed"

portOf(u) == IF u.port # NoPort THEN u.port
             ELSE IF u.scheme = "https" THEN 443 ELSE 80

\* The rule that decides what carries a credential.
sameOrigin(u, v) == u.scheme = v.scheme /\ u.host = v.host /\ portOf(u) = portOf(v)

\* Only a read is sent again, and a HEAD not where a 303 points.
followMethod(s) == want \in {"whole", "rest"} \/ (want = "probe" /\ s # 303)

\* redirectTarget: the locations that are refused are those that are no web
\* address, would give up https, or choose a credential.
redirectTarget(u) == /\ u.scheme \in {"https", "http"}
                     /\ u.host # NoHost
                     /\ ~(u.scheme = "http" /\ Registry.scheme = "https")
                     /\ ~u.userinfo

\* What Blobs.Exists, Blobs.Get and the manifest requests make of an answer:
\* a body under another coding, or a range nobody asked for, is refused; a
\* manifest is taken only where it is said to have been created.
Verdicts(s) ==
    LET verdict == CASE isRefusal(s)                            -> "refused"
                     [] want # "write" /\ s = 200               -> "content"
                     [] want = "rest" /\ s = 206                -> "content"
                     [] want # "write" /\ s = 404               -> "absent"
                     [] want = "write" /\ s = 201               -> "taken"
                     [] OTHER -> Failure(transientStatus(s))
    IN  {verdict} \cup IF want \in {"whole", "rest"} /\ ~isRefusal(s) THEN {"failed"} ELSE {}

\* offOriginTransient: what a signed location answers once its signature is
\* stale is cured by asking the registry again.
offOriginTransient(s) == s \in {401, 403, 404, 410} \/ transientStatus(s)

\* offOriginResponse: content is content; whatever else a storage host says is
\* a failure of its own kind.
offOriginResponse(s) ==
    IF s \in {200, 206} THEN Verdicts(s) ELSE {Failure(offOriginTransient(s))}

-----------------------------------------------------------------------------
\* The request goes to the registry; it may need no credential.
Init == /\ want \in Wants /\ presented \in BOOLEAN /\ transport \in Transports
        /\ url = Registry /\ carries = presented
        /\ hops = 0 /\ away = FALSE
        /\ status = 0 /\ state = "sent"
        /\ peer = "none" /\ caught = FALSE /\ idle \in 0 .. MaxIdle

-----------------------------------------------------------------------------
(* externalTransport.RoundTrip, below a hop. *)

\* sameEndpointHost: whose host a request goes to.
SameHost == url.host = Registry.host

\* Nothing is looked at on the way to the registry's own host, and nothing if
\* the caller allowed it.
Guarded == hops > 0 /\ ~SameHost /\ transport # "allowed"

\* It is refused before anything is sent: the transport is opaque or dials by a
\* hook of the caller's, or a proxy would connect.
GuardRefuses ==
    /\ state = "sent" /\ Guarded /\ peer = "none"
    /\ state' = "failed"
    /\ UNCHANGED <<request, chain, status, trip>>

\* Mistake: an address that cannot be read passes.
PassesUnlessLocal(q) == q # "local"

\* gotConn: where a connection may lead.
Passes(q) == q = "public"

\* The transport has a connection, of the pool if that has one: RoundTrip looks
\* at it and closes it before anything is written if it does not pass.  A
\* transport that finds a connection of the pool dead, closed that way or not,
\* takes the next.
Connect ==
    /\ state = "sent" /\ Guarded /\ transport = "inspectable" /\ peer = "none"
    /\ \E q \in {"public", "local", "unknown"} :
          /\ \/ Passes(q) /\ peer' = q
             \/ ~Passes(q) /\ idle = 0 /\ peer' = "closed"
             \/ idle > 0 /\ peer' = "none"
          /\ caught' = (caught \/ ~Passes(q))
    /\ idle' = IF idle > 0 THEN idle - 1 ELSE 0
    /\ UNCHANGED <<request, chain, status, state>>

\* Something has come of the request: it needed a connection that is open.
Carried == Guarded => peer \notin {"none", "closed"}

-----------------------------------------------------------------------------
(* Repository.send and follow. *)

\* An answer arrives.  The first request's refusal is looked for before a
\* redirect is; on a hop the redirect is.  The two never meet in one status.  No
\* answer counts on a trip that has met a connection it closed.
Answer ==
    /\ state = "sent" /\ Carried
    /\ \E s \in Statuses :
          IF caught THEN state' = "failed" /\ status' = 0
          ELSE IF isRedirect(s) THEN state' = "redirected" /\ status' = s
          ELSE /\ state' \in (IF away THEN offOriginResponse(s) ELSE Verdicts(s))
               /\ status' = 0
    /\ UNCHANGED <<request, chain, trip>>

\* Mistake: a connection that was closed on purpose is a network that failed.
BrokenIsTransient == {"transient", "failed"}

\* What a trip that breaks comes back as: what the check has recorded outranks
\* what the transport makes of it, and is no reason to try again.
Broken == IF caught THEN {"failed"} ELSE {"transient", "failed"}

\* The exchange breaks, or ctx ends.
ExchangeFails ==
    /\ state = "sent" /\ (Guarded => transport = "inspectable")
    /\ state' \in Broken
    /\ UNCHANGED <<request, chain, status, trip>>

\* Mistakes: another port of a host taken for the same party; away
\* forgotten when the chain comes home; a hop that is not counted.
CarriesByHost(target) == carries /\ url.host = target.host
LeavesUnstuck(target) == ~sameOrigin(Registry, target)
CountNone(target) == hops' = IF hops = 0 THEN 1 ELSE hops

\* nextHop: whether the chain may go on at all.
MayFollow == hops < maxRedirectHops

\* nextHop: a credential stays with the origin that redirected it.
Carries(target) == carries /\ sameOrigin(url, target)

\* follow: once away, away.
Leaves(target) == away \/ ~sameOrigin(Registry, target)

CountHop(target) == hops' = hops + 1

\* The request goes out again, to where the peer pointed.
Follow ==
    /\ state = "redirected"
    /\ MayFollow /\ followMethod(status)
    /\ \E target \in URL :
          /\ redirectTarget(target)
          /\ url' = target
          /\ carries' = Carries(target)
          /\ away' = Leaves(target)
          /\ CountHop(target)
    /\ state' = "sent" /\ status' = 0
    /\ peer' = "none" /\ caught' = FALSE
    /\ UNCHANGED <<request, idle>>

\* There have been too many hops, the method may not be sent again, or the
\* Location is missing, no URL, or one of those that are refused.
FollowFails ==
    /\ state = "redirected"
    /\ state' = "failed" /\ status' = 0
    /\ UNCHANGED <<request, chain, trip>>

Finished == state \in Over /\ UNCHANGED vars

Step == Answer \/ ExchangeFails \/ GuardRefuses \/ Connect \/ Follow \/ FollowFails

Next == Step \/ Finished

Spec == Init /\ [][Next]_vars

\* The transport connects or fails, and a peer answers or breaks off.
FairSpec == Spec /\ WF_vars(Step)

-----------------------------------------------------------------------------
(* Properties. *)

\* The credential goes to the registry's own origin and nowhere else, over
\* whatever chain (follow: "Authorization rides a hop only when the target's
\* scheme, host, and port all equal those of the request that received the
\* redirect").
CredentialStaysHome == carries => presented /\ sameOrigin(Registry, url)

\* That a credential is refused, or that something is not there, is said only
\* by the registry, of a request that carried what the caller presents
\* (accepted: "A refusal that comes back from a chain is on the registry's own
\* origin by construction"; redirectError: "statements only the registry is in
\* a position to make").
VerdictIsTheRegistrys ==
    state \in {"refused", "absent"} => sameOrigin(Registry, url) /\ carries = presented

\* A request to a host the registry named is written to no connection but one
\* that was seen to lead to a public address, and one that met another is not
\* tried again (gotConn: "closes it synchronously before the transport can write
\* an HTTP request when refused"; hop's errors: a refusal is no network that
\* failed).
OnlySeenPeers ==
    Guarded => /\ peer \in {"none", "closed", "public"}
               /\ state \notin {"sent", "failed"} =>
                     ~caught /\ peer \in {"public"} \cup IF state = "transient" THEN {"none"} ELSE {}

\* Whatever its peers answer, two that point at each other included, a request
\* ends (maxRedirectHops bounds the chain).
ChainsEnd == <>(state \in Over)

-----------------------------------------------------------------------------
\* Why: a chain that has not left the origin still carries what it began with,
\* and one that has left it gets no verdict of the registry's.
ChainInv == ~away => sameOrigin(Registry, url) /\ carries = presented
AwayInv == state \in {"refused", "absent"} => ~away
\* A connection that does not pass is gone; what it leaves is caught.
PeerInv == Guarded => peer \in {"none", "closed", "public"} /\ (peer = "closed" => caught)
TripInv == Guarded /\ state \notin {"sent", "failed"} =>
             ~caught /\ (peer = "public" \/ (state = "transient" /\ peer = "none"))
RedirectInv == /\ TypeOK /\ CredentialStaysHome /\ ChainInv /\ AwayInv
               /\ PeerInv /\ TripInv
=============================================================================
