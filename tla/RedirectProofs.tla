--------------------------- MODULE RedirectProofs ---------------------------
(***************************************************************************)
(* Redirect's safety properties hold for every registry and whatever hosts *)
(* and ports its peers may name: RedirectInv is inductive, because having  *)
(* one origin is an equivalence and the flag for having left it sticks.    *)
(***************************************************************************)
EXTENDS Redirect, TLAPS

\* Having one origin is an equivalence; a chain is compared link by link.
LEMMA OriginReflexive == \A u \in URL : sameOrigin(u, u)
  BY DEF sameOrigin

LEMMA OriginSymmetric == \A u, v \in URL : sameOrigin(u, v) => sameOrigin(v, u)
  BY DEF sameOrigin

LEMMA OriginTransitive ==
    \A u, v, w \in URL : sameOrigin(u, v) /\ sameOrigin(v, w) => sameOrigin(u, w)
  BY DEF sameOrigin

\* An answer is read as one of the verdicts.
LEMMA VerdictTyped == \A s \in Statuses : Verdicts(s) \subseteq Over
  BY DEF Verdicts, Over, Failure

\* The same of an answer from elsewhere, which never speaks for the registry.
LEMMA OffOriginTyped ==
    \A s \in Statuses : /\ offOriginResponse(s) \subseteq Over
                        /\ "refused" \notin offOriginResponse(s)
                        /\ "absent" \notin offOriginResponse(s)
<1> SUFFICES ASSUME NEW s \in Statuses
             PROVE  /\ offOriginResponse(s) \subseteq Over
                    /\ "refused" \notin offOriginResponse(s)
                    /\ "absent" \notin offOriginResponse(s)
  OBVIOUS
<1>1. CASE s \in {200, 206}
  <2>1. offOriginResponse(s) = Verdicts(s)
    BY <1>1 DEF offOriginResponse
  <2>2. "refused" \notin Verdicts(s) /\ "absent" \notin Verdicts(s)
    BY <1>1 DEF Verdicts, isRefusal, Failure
  <2> QED BY <2>1, <2>2, VerdictTyped
<1>2. CASE s \notin {200, 206}
  <2>1. offOriginResponse(s) = {Failure(offOriginTransient(s))}
    BY <1>2 DEF offOriginResponse
  <2> QED BY <2>1 DEF Failure, Over
<1> QED BY <1>1, <1>2

-----------------------------------------------------------------------------
LEMMA InitInv == Init => RedirectInv
<1> SUFFICES ASSUME Init PROVE RedirectInv
  OBVIOUS
<1>1. TypeOK
  <2>1. url \in URL
    BY RedirectAssumption DEF RedirectAssumption, Init
  <2>2. hops \in 0 .. maxRedirectHops
    BY DEF Init, maxRedirectHops
  <2>3. presented \in BOOLEAN /\ carries \in BOOLEAN /\ away \in BOOLEAN /\ caught \in BOOLEAN
    BY Zenon DEF Init
  <2> QED BY <2>1, <2>2, <2>3 DEF Init, TypeOK
<1>2. sameOrigin(Registry, url)
  BY OriginReflexive, RedirectAssumption DEF RedirectAssumption, Init
<1>3. ~Guarded
  BY DEF Init, Guarded
<1> QED BY <1>1, <1>2, <1>3 DEF Init, RedirectInv, CredentialStaysHome, ChainInv, AwayInv,
                              PeerInv, TripInv

\* A step that leaves the chain alone leaves alone what is said of it.
LEMMA ChainKept ==
    ASSUME RedirectInv, UNCHANGED <<request, chain>>
    PROVE  /\ CredentialStaysHome' /\ ChainInv'
           /\ Guarded' <=> Guarded
  BY DEF RedirectInv, request, chain, CredentialStaysHome, ChainInv, Guarded, SameHost,
         sameOrigin, portOf

LEMMA AnswerInv == ASSUME RedirectInv, Answer PROVE RedirectInv'
<1> USE DEF RedirectInv
<1> PICK s \in Statuses :
      IF caught THEN state' = "failed" /\ status' = 0
      ELSE IF isRedirect(s) THEN state' = "redirected" /\ status' = s
      ELSE /\ state' \in (IF away THEN offOriginResponse(s) ELSE Verdicts(s))
           /\ status' = 0
  BY DEF Answer
<1>1. UNCHANGED <<request, chain, trip>> /\ Carried
  BY DEF Answer
<1>2. state' = "redirected" \/ state' \in Over
  BY VerdictTyped, OffOriginTyped DEF Over
<1>3. TypeOK'
  BY <1>1, <1>2 DEF request, chain, trip, TypeOK
<1>4. AwayInv'
  BY <1>1, OffOriginTyped DEF chain, AwayInv
<1>5. PeerInv' /\ TripInv'
  <2>1. UNCHANGED <<peer, caught>>
    BY <1>1 DEF trip
  <2>2. caught => state' = "failed"
    OBVIOUS
  <2> QED BY <1>1, <2>1, <2>2, ChainKept DEF PeerInv, TripInv, Carried
<1> QED BY <1>1, <1>3, <1>4, <1>5, ChainKept

LEMMA FailInv == ASSUME RedirectInv, ExchangeFails \/ GuardRefuses PROVE RedirectInv'
<1> USE DEF RedirectInv
<1>1. UNCHANGED <<request, chain, status, trip>>
  BY DEF ExchangeFails, GuardRefuses
<1>2. /\ state' \in {"transient", "failed"}
      /\ caught => state' = "failed"
  BY DEF ExchangeFails, GuardRefuses, Broken
<1>3. TypeOK'
  BY <1>1, <1>2 DEF request, chain, trip, TypeOK, Over
<1>4. AwayInv'
  BY <1>2 DEF AwayInv
<1>5. PeerInv' /\ TripInv'
  <2>1. UNCHANGED <<peer, caught>>
    BY <1>1 DEF trip
  <2> QED BY <1>1, <1>2, <2>1, ChainKept DEF PeerInv, TripInv
<1> QED BY <1>1, <1>3, <1>4, <1>5, ChainKept

LEMMA ConnectInv == ASSUME RedirectInv, Connect PROVE RedirectInv'
<1> USE DEF RedirectInv
<1>1. UNCHANGED <<request, chain, status, state>> /\ state = "sent"
  BY DEF Connect
<1> PICK q \in {"public", "local", "unknown"} :
      /\ \/ Passes(q) /\ peer' = q
         \/ ~Passes(q) /\ idle = 0 /\ peer' = "closed"
         \/ idle > 0 /\ peer' = "none"
      /\ caught' = (caught \/ ~Passes(q))
  BY DEF Connect
<1>2. idle' \in 0 .. MaxIdle
  BY RedirectAssumption DEF Connect, TypeOK, RedirectAssumption
<1>3. caught' \in BOOLEAN
  <2>1. Passes(q) \in BOOLEAN
    BY DEF Passes
  <2> QED BY <2>1, Zenon DEF TypeOK
<1>4. TypeOK'
  BY <1>1, <1>2, <1>3 DEF request, chain, TypeOK
<1>5. AwayInv' /\ TripInv'
  BY <1>1 DEF AwayInv, TripInv
<1>6. PeerInv'
  BY DEF PeerInv, Passes
<1> QED BY <1>1, <1>4, <1>5, <1>6, ChainKept

LEMMA FollowInv == ASSUME RedirectInv, Follow PROVE RedirectInv'
<1> USE DEF RedirectInv
<1> PICK target \in URL : /\ url' = target
                          /\ carries' = Carries(target)
                          /\ away' = Leaves(target)
                          /\ CountHop(target)
  BY DEF Follow
<1>1. url \in URL /\ Registry \in URL
  BY RedirectAssumption DEF TypeOK, RedirectAssumption
<1>2. hops' \in 0 .. maxRedirectHops
  BY DEF Follow, MayFollow, CountHop, TypeOK, maxRedirectHops
<1>3. presented' = presented /\ state' = "sent" /\ peer' = "none"
  BY DEF Follow, request
<1>4. TypeOK'
  BY <1>2, <1>3 DEF Follow, request, TypeOK, Carries, Leaves
<1>5. sameOrigin(Registry, url)' <=> sameOrigin(Registry, target)
  BY DEF sameOrigin, portOf
<1>6. CredentialStaysHome'
  <2> SUFFICES ASSUME carries' PROVE presented /\ sameOrigin(Registry, target)
    BY <1>3, <1>5 DEF CredentialStaysHome
  <2>1. carries /\ sameOrigin(url, target)
    BY DEF Carries
  <2> QED BY <2>1, <1>1, OriginTransitive DEF CredentialStaysHome
<1>7. ChainInv'
  <2> SUFFICES ASSUME ~away' PROVE sameOrigin(Registry, target) /\ carries' = presented
    BY <1>3, <1>5 DEF ChainInv
  <2>1. ~away /\ sameOrigin(Registry, target)
    BY DEF Leaves
  <2>2. sameOrigin(Registry, url) /\ carries = presented
    BY <2>1 DEF ChainInv
  <2>3. sameOrigin(url, target)
    BY <2>1, <2>2, <1>1, OriginSymmetric, OriginTransitive
  <2> QED BY <2>1, <2>2, <2>3 DEF Carries, TypeOK
<1>8. AwayInv' /\ PeerInv' /\ TripInv'
  BY <1>3 DEF AwayInv, PeerInv, TripInv
<1> QED BY <1>4, <1>6, <1>7, <1>8

LEMMA NextInv == RedirectInv /\ [Next]_vars => RedirectInv'
<1> SUFFICES ASSUME RedirectInv, [Next]_vars PROVE RedirectInv'
  OBVIOUS
<1>1. CASE FollowFails
  <2>1. /\ UNCHANGED <<request, chain, trip>>
        /\ state' = "failed" /\ status' = 0
    BY <1>1 DEF FollowFails
  <2>2. TypeOK'
    BY <2>1 DEF RedirectInv, request, chain, trip, TypeOK, Over
  <2>3. AwayInv' /\ TripInv' /\ PeerInv'
    BY <2>1, ChainKept DEF RedirectInv, trip, AwayInv, TripInv, PeerInv
  <2> QED BY <2>1, <2>2, <2>3, ChainKept DEF RedirectInv
<1>2. CASE UNCHANGED vars
  <2>1. UNCHANGED <<request, chain, status, state, trip>>
    BY <1>2 DEF vars
  <2>2. TypeOK'
    BY <2>1 DEF RedirectInv, request, chain, trip, TypeOK
  <2>3. AwayInv' /\ TripInv' /\ PeerInv'
    BY <2>1, ChainKept DEF RedirectInv, chain, trip, AwayInv, TripInv, PeerInv
  <2> QED BY <2>1, <2>2, <2>3, ChainKept DEF RedirectInv
<1> QED BY <1>1, <1>2, AnswerInv, FailInv, ConnectInv, FollowInv DEF Next, Step, Finished

LEMMA InvHolds == Spec => []RedirectInv
  BY InitInv, NextInv, PTL DEF Spec

-----------------------------------------------------------------------------
\* Whatever peers answer, a request's state is well formed, and it follows at
\* most three redirects.
THEOREM RedirectTypeCorrect == Spec => []TypeOK
<1>1. RedirectInv => TypeOK
  BY DEF RedirectInv
<1> QED BY InvHolds, <1>1, PTL

\* No chain of redirects takes the credential to another origin than the
\* registry's.
THEOREM CredentialsStayHome == Spec => []CredentialStaysHome
<1>1. RedirectInv => CredentialStaysHome
  BY DEF RedirectInv
<1> QED BY InvHolds, <1>1, PTL

\* A refusal and a "not found" are the registry's own, of the request as the
\* caller presents it: what AuthState condemns a token on.
THEOREM VerdictsAreTheRegistrys == Spec => []VerdictIsTheRegistrys
<1>1. RedirectInv => VerdictIsTheRegistrys
  BY DEF RedirectInv, VerdictIsTheRegistrys, ChainInv, AwayInv
<1> QED BY InvHolds, <1>1, PTL

\* Whatever addresses a peer's hosts have and however often the transport
\* connects, a request to one is written to a public address or to none, and a
\* trip that met another is over for good.
THEOREM OnlySeenPeersAnswer == Spec => []OnlySeenPeers
<1>1. RedirectInv => OnlySeenPeers
  BY DEF RedirectInv, OnlySeenPeers, PeerInv, TripInv
<1> QED BY InvHolds, <1>1, PTL
=============================================================================
