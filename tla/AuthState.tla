------------------------------ MODULE AuthState ------------------------------
(***************************************************************************)
(* internal/oci's authState: one repository's tokens, shared by every      *)
(* request in flight, and the requests that acquire, share, prove, refresh *)
(* and condemn them.  A token is one entry per scope; requests keep        *)
(* pointers to entries across the exchange they wait for, so entries live  *)
(* on a heap.  The lock is held for one step at a time and never across a  *)
(* network call: a step here is a lock section with the send that follows. *)
(*                                                                         *)
(* The registry and the token endpoint may answer anything at any time.    *)
(***************************************************************************)
EXTENDS Naturals, FiniteSets

CONSTANTS Requests,     \* the goroutines that send
          Kinds,        \* the requests they send, among those below
          Credentials,  \* what a lookup may find, among those below
          Issued,       \* the bearer headers the token endpoint may give out
          basicHeader,  \* the header made of a user name and a secret
          registryToken, \* the header of a token presented verbatim
          Ids,          \* the heap
          None

\* A read is a GET or HEAD and follows redirects; a write has no body, or one
\* that can be replayed; an upload's body can be sent once.
AllKinds == {"read", "write", "upload"}
Scopes == {"pull", "push"}

\* What a lookup finds: nothing; a secret; only an identity token; or a token
\* to present as it is.  A helper is asked afresh every time.
AllCredentials == {"empty", "secret", "identityOnly", "registryToken"}

Challenges == {"bearer", "basic"}

\* Header values; those that are not Issued have no stated lifetime.
Tokens == Issued \cup {basicHeader, registryToken}

ASSUME AuthAssumption ==
    /\ Kinds \subseteq AllKinds
    /\ Credentials \subseteq AllCredentials
    /\ basicHeader \notin Issued /\ registryToken \notin Issued
    /\ None \notin Tokens /\ None \notin Ids /\ None \notin Challenges
    /\ Ids \subseteq Nat

VARIABLES challenge,   \* what the registry asked for last, if it has
          entries,     \* the entry of each scope
          heap,        \* the entries themselves
          req          \* each goroutine's request

vars == <<challenge, entries, heap, req>>

\* An entry; refused is history: a request carrying its token was refused
\* since it was acquired.
Entry == [state : {"acquiring", "unproven", "proven", "denied"},
          header : Tokens \cup {None},
          usable : BOOLEAN,
          failed : BOOLEAN,
          refused : BOOLEAN]

\* A request; stage is the send it is in or is getting a header for, asked the
\* challenge its exchange answers, sends counts those of a kind that is not
\* redirected.
Request == [pc : {"idle", "waiting", "minting", "sent"},
            kind : AllKinds,
            stage : {"first", "replay", "chain"},
            header : Tokens \cup {None},
            id : Ids \cup {None},
            asked : Challenges \cup {None},
            sends : 0 .. 3]

\* The type invariant; a replay always carries the header it was given.
TypeOK == /\ challenge \in Challenges \cup {None}
          /\ entries \in [Scopes -> Ids \cup {None}]
          /\ heap \in [Ids -> Entry]
          /\ req \in [Requests -> Request]
          /\ \A r \in Requests :
                /\ req[r].pc \in {"waiting", "minting"} <=> req[r].id # None
                /\ req[r].pc = "minting" <=> req[r].asked # None
                /\ req[r].pc = "sent" /\ req[r].stage = "replay" => req[r].header # None

Blank == [state |-> "acquiring", header |-> None, usable |-> FALSE,
          failed |-> FALSE, refused |-> FALSE]

Idle == [pc |-> "idle", kind |-> "read", stage |-> "first", header |-> None,
         id |-> None, asked |-> None, sends |-> 0]

Init == /\ challenge = None
        /\ entries = [s \in Scopes |-> None]
        /\ heap = [i \in Ids |-> Blank]
        /\ req = [r \in Requests |-> Idle]

-----------------------------------------------------------------------------
\* scopeFor: reading needs pull, everything else pull and push.
ScopeOf(kind) == IF kind = "read" THEN "pull" ELSE "push"

ScopeAt(r) == ScopeOf(req[r].kind)

\* The entry a scope holds, if it holds one.
Holds(s, states) == entries[s] # None /\ heap[entries[s]].state \in states
Held(s) == heap[entries[s]]

\* The exchange is over and the entry's ready channel closed.
Ready(i) == heap[i].state # "acquiring" \/ heap[i].failed

Ends(r) == req' = [req EXCEPT ![r] = Idle]

\* Request r goes out as q with this header (replayWith's second send too).
Goes(r, q, header) ==
    req' = [req EXCEPT ![r] = [q EXCEPT !.pc = "sent", !.header = header,
                                        !.id = None, !.asked = None,
                                        !.sends = IF q.kind = "read" \/ @ = 3 THEN @ ELSE @ + 1]]

\* Mistake: a body is replayed although it is spent.
PresentAlways(r, q, header) == Goes(r, q, header)

\* Request r goes out as q with the header it was given, unless it is an
\* upload's second send: its body is spent, and the attempt ends instead.
Present(r, q, header) ==
    IF q.kind = "upload" /\ q.stage = "replay" THEN Ends(r) ELSE Goes(r, q, header)

Await(r, q) ==
    req' = [req EXCEPT ![r] = [q EXCEPT !.pc = "waiting", !.header = None,
                                        !.id = entries[ScopeOf(q.kind)]]]

\* What nothing points to any more is the collector's, to be used again.
Reachable(i) == \/ \E s \in Scopes : entries[s] = i
                \/ \E r \in Requests : req[r].id = i

Unused == {i \in Ids : ~Reachable(i)}

HeapBecomes(h) == heap' = [i \in Ids |-> IF Reachable(i)' THEN h[i] ELSE Blank]

\* beginLocked: a fresh entry in flight replaces whatever the scope held.
Begin(r, q, asked, old) ==
    \E i \in Unused :
        /\ \A j \in Unused : i <= j
        /\ entries' = [entries EXCEPT ![ScopeOf(q.kind)] = i]
        /\ req' = [req EXCEPT ![r] = [q EXCEPT !.pc = "minting", !.header = None, !.id = i,
                                                !.asked = asked]]
        /\ HeapBecomes([old EXCEPT ![i] = Blank])

-----------------------------------------------------------------------------
\* authorize, as a request of an attempt begins.
Start(r) ==
    /\ req[r].pc = "idle"
    /\ UNCHANGED challenge
    /\ \E kind \in Kinds :
         LET q == [Idle EXCEPT !.kind = kind]
             s == ScopeOf(kind)
         IN  \/ /\ challenge = None
                /\ Present(r, q, None) /\ UNCHANGED <<entries, heap>>
             \/ /\ challenge # None /\ Holds(s, {"acquiring"})
                /\ Await(r, q) /\ UNCHANGED <<entries, heap>>
             \/ /\ challenge # None /\ Holds(s, {"denied"})
                /\ UNCHANGED <<entries, heap, req>>
             \/ /\ challenge # None /\ Holds(s, {"unproven", "proven"}) /\ Held(s).usable
                /\ Present(r, q, Held(s).header) /\ UNCHANGED <<entries, heap>>
             \/ /\ challenge # None
                /\ entries[s] = None \/ (Holds(s, {"unproven", "proven"}) /\ ~Held(s).usable)
                /\ Begin(r, q, challenge, heap)

\* acquire: the headers a credential may answer a challenge with.
Answers(cred, asked) ==
    CASE cred = "registryToken" -> {registryToken}
      [] cred = "identityOnly" -> {}
      [] asked = "basic" -> IF cred = "secret" THEN {basicHeader} ELSE {}
      [] OTHER -> Issued

\* acquire: bigoci refuses an identity token, and a Basic challenge it has no
\* secret for; a realm may be one that gets no credential, and its endpoint
\* may refuse the credential it gets.
Refusable(cred, asked) ==
    \/ cred = "identityOnly"
    \/ cred = "empty" /\ asked = "basic"
    \/ cred \in {"empty", "secret"} /\ asked = "bearer"

\* acquire: the lookup of a configured credential fails, or the token endpoint
\* has a bad minute or answers no token.
Breakable(asked) == Credentials # {"empty"} \/ asked = "bearer"

\* finishLocked, the exchange having produced a token.
Acquired(r) ==
    /\ req[r].pc = "minting"
    /\ \E cred \in Credentials : \E t \in Answers(cred, req[r].asked) :
         /\ UNCHANGED <<challenge, entries>>
         /\ Present(r, req[r], t)
         /\ HeapBecomes([heap EXCEPT ![req[r].id] =
                            [Blank EXCEPT !.state = "unproven", !.header = t, !.usable = TRUE]])

\* finishLocked, the credential having been refused.
Unauthorized(r) ==
    /\ req[r].pc = "minting"
    /\ \E cred \in Credentials : Refusable(cred, req[r].asked)
    /\ Ends(r)
    /\ UNCHANGED <<challenge, entries>>
    /\ HeapBecomes([heap EXCEPT ![req[r].id].state = "denied", ![req[r].id].failed = TRUE])

\* Mistake: the entry is dropped without its ready channel being closed.
ExchangeFailsSilently(r) ==
    /\ req[r].pc = "minting"
    /\ entries' = [entries EXCEPT ![ScopeAt(r)] = None]
    /\ Ends(r)
    /\ HeapBecomes(heap)
    /\ UNCHANGED challenge

\* finishLocked, the exchange having failed: the entry is dropped, and whoever
\* waits on it fails with it.
ExchangeFails(r) ==
    /\ req[r].pc = "minting" /\ Breakable(req[r].asked)
    /\ entries' = IF entries[ScopeAt(r)] = req[r].id
                  THEN [entries EXCEPT ![ScopeAt(r)] = None] ELSE entries
    /\ Ends(r)
    /\ HeapBecomes([heap EXCEPT ![req[r].id].failed = TRUE])
    /\ UNCHANGED challenge

\* wait: the entry is ready, and is read as it is now.
Wake(r) ==
    /\ req[r].pc = "waiting" /\ Ready(req[r].id)
    /\ IF heap[req[r].id].failed THEN Ends(r)
       ELSE Present(r, req[r], heap[req[r].id].header)
    /\ UNCHANGED <<challenge, entries>>
    /\ HeapBecomes(heap)

\* wait: the ctx of the request ends first.
GiveUp(r) ==
    /\ req[r].pc = "waiting"
    /\ Ends(r)
    /\ UNCHANGED <<challenge, entries>>
    /\ HeapBecomes(heap)

-----------------------------------------------------------------------------
\* Mistake: a reply also revives a token that is denied.
ProvenAny(header) ==
    [i \in Ids |-> IF /\ \E s \in Scopes : entries[s] = i
                      /\ heap[i].state # "acquiring" /\ heap[i].header = header
                   THEN [heap[i] EXCEPT !.state = "proven"] ELSE heap[i]]

\* answered: the token the reply's request carried works, in every entry that
\* holds it.
Proven(header) ==
    [i \in Ids |-> IF /\ \E s \in Scopes : entries[s] = i
                      /\ heap[i].state = "unproven" /\ heap[i].header = header
                   THEN [heap[i] EXCEPT !.state = "proven"] ELSE heap[i]]

\* The registry answers: content, a 404, or a redirect that ends elsewhere.
Answered(r) ==
    /\ req[r].pc = "sent" /\ req[r].stage \in {"first", "replay"}
    /\ heap' = Proven(req[r].header)
    /\ Ends(r)
    /\ UNCHANGED <<challenge, entries>>

\* The registry answers a read with a redirect inside itself, which the
\* credential follows.
Redirected(r) ==
    /\ req[r].pc = "sent" /\ req[r].stage \in {"first", "replay"} /\ req[r].kind = "read"
    /\ heap' = Proven(req[r].header)
    /\ req' = [req EXCEPT ![r].stage = "chain"]
    /\ UNCHANGED <<challenge, entries>>

\* The request breaks, or its chain ends where no registry speaks.
Over(r) ==
    /\ req[r].pc = "sent"
    /\ Ends(r)
    /\ UNCHANGED <<challenge, entries, heap>>

\* A refusal states no requirement, or none that bigoci can read and answer.
Unanswerable(r) ==
    /\ req[r].pc = "sent" /\ req[r].stage \in {"first", "chain"}
    /\ Ends(r)
    /\ UNCHANGED <<challenge, entries, heap>>

\* History: a request carrying this header has been refused.
Suspect(header) ==
    [i \in Ids |-> IF heap[i].header = header /\ header # None
                   THEN [heap[i] EXCEPT !.refused = TRUE] ELSE heap[i]]

Condemn(s, header) ==
    heap' = [Suspect(header) EXCEPT ![entries[s]].state = "denied",
                                    ![entries[s]].failed = TRUE]

\* Mistake: a token is taken for the one that was refused.
ReplacedNever(s, sent) == FALSE

\* Another request has already replaced the token that was refused.
Replaced(s, sent) == Holds(s, {"unproven", "proven"}) /\ Held(s).header # sent

\* refused: what a refusal of a first send, or at the end of a chain, is worth.
Refused(r) ==
    /\ req[r].pc = "sent" /\ req[r].stage \in {"first", "chain"}
    /\ challenge' \in Challenges
    /\ LET s == ScopeAt(r)
           sent == req[r].header
           q == [req[r] EXCEPT !.stage = "replay"]
           asked == challenge'
       IN  \/ /\ Holds(s, {"acquiring"})
              /\ Await(r, q) /\ heap' = Suspect(sent) /\ UNCHANGED entries
           \/ /\ Holds(s, {"denied"})
              /\ Ends(r) /\ heap' = Suspect(sent) /\ UNCHANGED entries
           \/ /\ Replaced(s, sent)
              /\ Present(r, q, Held(s).header) /\ heap' = Suspect(sent) /\ UNCHANGED entries
           \/ /\ Holds(s, {"unproven"}) /\ ~Replaced(s, sent)
              /\ Condemn(s, sent) /\ Ends(r) /\ UNCHANGED entries
           \/ /\ entries[s] = None \/ (Holds(s, {"proven"}) /\ ~Replaced(s, sent))
              /\ Begin(r, q, asked, Suspect(sent))

\* deny: the replay was refused too, which condemns the scope unless its token
\* has been replaced meanwhile.
RefusedAgain(r) ==
    /\ req[r].pc = "sent" /\ req[r].stage = "replay"
    /\ LET s == ScopeAt(r)
       IN  IF Holds(s, {"unproven", "proven"}) /\ ~Replaced(s, req[r].header)
           THEN Condemn(s, req[r].header) ELSE heap' = Suspect(req[r].header)
    /\ Ends(r)
    /\ UNCHANGED <<challenge, entries>>

\* usableLocked stops presenting a token a margin before its stated end.
Expire(s) ==
    /\ Holds(s, {"unproven", "proven"}) /\ Held(s).usable /\ Held(s).header \in Issued
    /\ heap' = [heap EXCEPT ![entries[s]].usable = FALSE]
    /\ UNCHANGED <<challenge, entries, req>>

Exchange(r) == Acquired(r) \/ Unauthorized(r) \/ ExchangeFails(r)
Reply(r) == \/ Answered(r) \/ Redirected(r) \/ Over(r)
            \/ Unanswerable(r) \/ Refused(r) \/ RefusedAgain(r)

Next == \/ \E r \in Requests : Start(r) \/ Exchange(r) \/ Wake(r) \/ GiveUp(r) \/ Reply(r)
        \/ \E s \in Scopes : Expire(s)

Spec == Init /\ [][Next]_vars

\* The token endpoint and the registry answer, or the request breaks; nobody
\* need ask again.
FairSpec == Spec /\ \A r \in Requests :
                WF_vars(Exchange(r)) /\ WF_vars(Wake(r)) /\ WF_vars(Reply(r))

-----------------------------------------------------------------------------
(* Properties. *)

\* A stampede is held to one exchange: a scope has at most one in flight, its
\* entry is the one in flight, and whoever waits on an entry that is not ready
\* waits on a request that will make it so.
Minting(s) == {r \in Requests : req[r].pc = "minting" /\ ScopeAt(r) = s}

OneExchangePerScope ==
    /\ \A s \in Scopes : \A r \in Minting(s) :
           entries[s] = req[r].id /\ ~Ready(req[r].id) /\ Minting(s) = {r}
    /\ \A r \in Requests : req[r].pc = "waiting" /\ ~Ready(req[r].id) =>
           \E m \in Requests : req[m].pc = "minting" /\ req[m].id = req[r].id

\* An exchange replaces a token only for a reason: it has expired, or it is
\* what the request that starts the exchange carried when it was refused.
ExchangeIsJustified ==
    [][\A s \in Scopes :
           Holds(s, {"unproven", "proven"}) /\ entries'[s] # entries[s] =>
               \/ ~Held(s).usable
               \/ \E r \in Requests : req[r].pc = "sent" /\ req[r].header = Held(s).header
                                      /\ req'[r].pc = "minting"]_vars

\* A scope is condemned only over what it holds: the token endpoint refused
\* the credential, or the registry refused the token in the entry.
DenialNamesItsCredential ==
    \A s \in Scopes : Holds(s, {"denied"}) => Held(s).header = None \/ Held(s).refused

\* Denial absorbs: the scope stays denied, no exchange begins for it, and
\* requests of it only drain (stateDenied: "every later request for the same
\* scope fails against it without sending anything").
Busy(s) == {r \in Requests : req[r].pc # "idle" /\ ScopeAt(r) = s}

DenialAbsorbs ==
    [][\A s \in Scopes : Holds(s, {"denied"}) =>
           /\ entries'[s] = entries[s] /\ heap'[entries[s]].state = "denied"
           /\ Busy(s)' \subseteq Busy(s)
           /\ Minting(s)' = {}]_vars

\* The two-send rule: a request that follows no redirect is sent at most
\* twice, and an upload's body once.
AtMostTwoSends ==
    \A r \in Requests :
        /\ req[r].kind # "read" => req[r].sends <= 2
        /\ req[r].kind = "upload" => req[r].sends <= 1

\* Every request ends, one that waits for another's exchange included: the
\* refusals it may answer are bounded (accepted: "the
\* auth state bounds the loop the way it bounds every refusal: denied is
\* absorbing").
RequestsEnd == \A r \in Requests : []<>(req[r].pc = "idle")

-----------------------------------------------------------------------------
\* Why: an entry is what its state says; a request has been sent as often as
\* its stage says.
SlotInv == \A i \in Ids :
    /\ heap[i].state = "acquiring" => heap[i].header = None
    /\ heap[i].state \in {"unproven", "proven"} => heap[i].header # None /\ ~heap[i].failed
    /\ heap[i].state = "denied" => heap[i].failed /\ (heap[i].header = None \/ heap[i].refused)

SendInv == \A r \in Requests : req[r].kind # "read" =>
    /\ req[r].pc # "idle" /\ req[r].stage # "chain"
    /\ req[r].stage = "first" => req[r].sends = IF req[r].pc = "sent" THEN 1 ELSE 0
    /\ req[r].stage = "replay" => req[r].sends = IF req[r].pc = "sent" THEN 2 ELSE 1
    /\ req[r].stage = "replay" /\ req[r].pc = "sent" => req[r].kind # "upload"

\* No entry without a challenge, none for both scopes.
EntryInv == /\ \A s, u \in Scopes : entries[s] = entries[u] /\ entries[s] # None => s = u
            /\ \A s \in Scopes : entries[s] # None => challenge # None

\* Whoever mints holds its scope's entry, alone; an entry in flight has a minter,
\* and so has one that is waited for and not ready.
IsMinting(r, i) == req[r].pc = "minting" /\ req[r].id = i

MintInv == /\ \A r \in Requests : req[r].pc = "minting" =>
                 /\ entries[ScopeAt(r)] = req[r].id /\ ~Ready(req[r].id)
                 /\ \A m \in Requests : IsMinting(m, req[r].id) => m = r
           /\ \A s \in Scopes : Holds(s, {"acquiring"}) =>
                 \E m \in Requests : IsMinting(m, entries[s])
           /\ \A r \in Requests : req[r].pc = "waiting" /\ ~Ready(req[r].id) =>
                 \E m \in Requests : IsMinting(m, req[r].id)

AuthInv == TypeOK /\ SlotInv /\ SendInv /\ EntryInv /\ MintInv
=============================================================================
