----------------------------- MODULE AuthProofs -----------------------------
(***************************************************************************)
(* For every set of requests, credentials and tokens: AuthState keeps      *)
(* AuthInv, so an exchange has one owner and a reason, denial is earned    *)
(* and absorbs, and no request is sent more often than it may be.          *)
(***************************************************************************)
EXTENDS AuthState, TLAPS

(* A request by itself. *)

RequestOK(q) == /\ q \in Request
                /\ q.pc \in {"waiting", "minting"} <=> q.id # None
                /\ q.pc = "minting" <=> q.asked # None
                /\ q.pc = "sent" /\ q.stage = "replay" => q.header # None

SendsOK(q) == q.kind # "read" =>
    /\ q.pc # "idle" /\ q.stage # "chain"
    /\ q.stage = "first" => q.sends = IF q.pc = "sent" THEN 1 ELSE 0
    /\ q.stage = "replay" => q.sends = IF q.pc = "sent" THEN 2 ELSE 1
    /\ q.stage = "replay" /\ q.pc = "sent" => q.kind # "upload"

GoodRequest(q) == RequestOK(q) /\ SendsOK(q)

\* A request that is about to go out, or to get a header.
Pending(q) == /\ q.pc \in {"idle", "waiting", "minting", "sent"}
              /\ q.kind \in AllKinds /\ q.stage \in {"first", "replay", "chain"}
              /\ q.sends \in 0 .. 3
              /\ q.kind # "read" => /\ q.stage # "chain"
                                    /\ q.sends = IF q.stage = "first" THEN 0 ELSE 1

LEMMA RequestsAlike ==
    /\ TypeOK /\ SendInv => \A r \in Requests : GoodRequest(req[r])
    /\ req \in [Requests -> Request] /\ (\A r \in Requests : GoodRequest(req[r])) =>
          SendInv /\ \A r \in Requests : RequestOK(req[r])
  BY DEF TypeOK, SendInv, GoodRequest, RequestOK, SendsOK

LEMMA IdleGood == GoodRequest(Idle)
  BY AuthAssumption DEF GoodRequest, RequestOK, SendsOK, Idle, Request, AllKinds, AuthAssumption

LEMMA EndsGood ==
    ASSUME TypeOK, NEW r \in Requests, Ends(r)
    PROVE  /\ req' = [req EXCEPT ![r] = req'[r]]
           /\ req'[r] = Idle /\ GoodRequest(req'[r])
  BY IdleGood DEF TypeOK, Ends

LEMMA GoesGood ==
    ASSUME TypeOK, NEW r \in Requests, NEW q \in Request, Pending(q),
           NEW h \in Tokens \cup {None}, q.stage = "replay" => h # None,
           q.kind = "upload" => q.stage # "replay",
           Goes(r, q, h)
    PROVE  /\ req' = [req EXCEPT ![r] = req'[r]]
           /\ req'[r].pc = "sent" /\ req'[r].kind = q.kind
           /\ GoodRequest(req'[r])
<1> DEFINE n == IF q.kind = "read" \/ q.sends = 3 THEN q.sends ELSE q.sends + 1
           g == [q EXCEPT !.pc = "sent", !.header = h, !.id = None, !.asked = None, !.sends = n]
<1>1. req'[r] = g /\ req' = [req EXCEPT ![r] = g]
  BY DEF TypeOK, Goes
<1>2. n \in 0 .. 3 /\ (q.kind # "read" => n = IF q.stage = "first" THEN 1 ELSE 2)
  BY DEF Pending
<1>3. g \in Request
  BY <1>2 DEF Request
<1>4. RequestOK(g)
  BY <1>3, AuthAssumption DEF RequestOK, Request
<1>5. SendsOK(g)
  BY <1>2 DEF SendsOK, Pending, Request
<1> QED BY <1>1, <1>4, <1>5 DEF GoodRequest, Request

LEMMA PresentGood ==
    ASSUME TypeOK, NEW r \in Requests, NEW q \in Request, Pending(q),
           NEW h \in Tokens \cup {None}, q.stage = "replay" => h # None,
           Present(r, q, h)
    PROVE  /\ req' = [req EXCEPT ![r] = req'[r]]
           /\ req'[r].pc \in {"idle", "sent"}
           /\ req'[r].pc = "sent" => req'[r].kind = q.kind
           /\ req'[r].id = None
           /\ GoodRequest(req'[r])
<1>1. CASE q.kind = "upload" /\ q.stage = "replay"
  BY <1>1, EndsGood DEF Present, Idle
<1>2. CASE ~(q.kind = "upload" /\ q.stage = "replay")
  <2>1. Goes(r, q, h)
    BY <1>2 DEF Present
  <2>2. q.kind = "upload" => q.stage # "replay"
    BY <1>2
  <2>3. /\ req' = [req EXCEPT ![r] = req'[r]]
        /\ req'[r].pc = "sent" /\ req'[r].kind = q.kind
        /\ GoodRequest(req'[r])
    BY <2>1, <2>2, GoesGood
  <2> QED BY <2>3 DEF GoodRequest, RequestOK, Request
<1> QED BY <1>1, <1>2

LEMMA AwaitGood ==
    ASSUME TypeOK, NEW r \in Requests, NEW q \in Request, Pending(q), q.asked = None,
           entries[ScopeOf(q.kind)] # None,
           Await(r, q)
    PROVE  /\ req' = [req EXCEPT ![r] = req'[r]]
           /\ req'[r].pc = "waiting" /\ req'[r].kind = q.kind
           /\ req'[r].id = entries[ScopeOf(q.kind)]
           /\ GoodRequest(req'[r])
<1> DEFINE i == entries[ScopeOf(q.kind)]
           g == [q EXCEPT !.pc = "waiting", !.header = None, !.id = i]
<1>1. req'[r] = g /\ req' = [req EXCEPT ![r] = g]
  BY DEF TypeOK, Await
<1>2. i \in Ids
  BY DEF TypeOK, ScopeOf, Scopes
<1>3. RequestOK(g)
  BY <1>2 DEF RequestOK, Request
<1>4. SendsOK(g)
  BY DEF SendsOK, Pending, Request
<1> QED BY <1>1, <1>3, <1>4 DEF GoodRequest, Request

\* Begin makes one request the minter of a slot nothing pointed to.
Minter(r, q, i, asked) ==
    [q EXCEPT !.pc = "minting", !.header = None, !.id = i, !.asked = asked]

LEMMA BeginGood ==
    ASSUME TypeOK, NEW r \in Requests, NEW q \in Request, Pending(q),
           NEW asked \in Challenges, NEW i \in Ids,
           req' = [req EXCEPT ![r] = Minter(r, q, i, asked)]
    PROVE  /\ req' = [req EXCEPT ![r] = req'[r]]
           /\ req'[r].pc = "minting" /\ req'[r].kind = q.kind /\ req'[r].id = i
           /\ GoodRequest(req'[r])
<1> DEFINE g == Minter(r, q, i, asked)
<1>1. req'[r] = g /\ g \in Request
  BY DEF TypeOK, Minter, Request
<1>2. RequestOK(g)
  BY <1>1, AuthAssumption DEF RequestOK, Request, AuthAssumption, Minter
<1>3. SendsOK(g)
  BY DEF SendsOK, Pending, Request, Minter
<1>4. g.pc = "minting" /\ g.kind = q.kind /\ g.id = i
  BY DEF Minter, Request
<1> QED BY <1>1, <1>2, <1>3, <1>4 DEF GoodRequest

-----------------------------------------------------------------------------
(* The heap. *)

SlotOK(e) == /\ e.state = "acquiring" => e.header = None
             /\ e.state \in {"unproven", "proven"} => e.header # None /\ ~e.failed
             /\ e.state = "denied" => e.failed /\ (e.header = None \/ e.refused)

GoodHeap(h) == h \in [Ids -> Entry] /\ \A i \in Ids : SlotOK(h[i])

LEMMA BlankGood == Blank \in Entry /\ SlotOK(Blank)
  BY DEF Blank, Entry, SlotOK

LEMMA HeapAlike == TypeOK /\ SlotInv => GoodHeap(heap)
  BY DEF TypeOK, SlotInv, GoodHeap, SlotOK

\* The collector keeps a heap good, and what is reachable as it is.
LEMMA HeapBecomesGood ==
    ASSUME NEW h, GoodHeap(h), HeapBecomes(h)
    PROVE  /\ GoodHeap(heap')
           /\ \A i \in Ids : Reachable(i)' => heap'[i] = h[i]
<1>1. heap' = [i \in Ids |-> IF Reachable(i)' THEN h[i] ELSE Blank]
  BY DEF HeapBecomes
<1>2. \A i \in Ids : heap'[i] \in Entry /\ SlotOK(heap'[i])
  BY <1>1, BlankGood DEF GoodHeap
<1> QED BY <1>1, <1>2 DEF GoodHeap

LEMMA SuspectGood ==
    ASSUME GoodHeap(heap), NEW t
    PROVE  /\ GoodHeap(Suspect(t))
           /\ \A i \in Ids : /\ Suspect(t)[i].state = heap[i].state
                             /\ Suspect(t)[i].failed = heap[i].failed
                             /\ Suspect(t)[i].header = heap[i].header
                             /\ t # None /\ heap[i].header = t => Suspect(t)[i].refused
<1> SUFFICES ASSUME NEW i \in Ids
             PROVE  /\ Suspect(t)[i] \in Entry /\ SlotOK(Suspect(t)[i])
                    /\ Suspect(t)[i].state = heap[i].state
                    /\ Suspect(t)[i].failed = heap[i].failed
                    /\ Suspect(t)[i].header = heap[i].header
                    /\ t # None /\ heap[i].header = t => Suspect(t)[i].refused
  BY DEF GoodHeap, Suspect
<1>1. heap[i] \in Entry /\ SlotOK(heap[i])
  BY DEF GoodHeap
<1>2. Suspect(t)[i] = IF heap[i].header = t /\ t # None
                      THEN [heap[i] EXCEPT !.refused = TRUE] ELSE heap[i]
  BY DEF Suspect
<1> QED BY <1>1, <1>2 DEF Entry, SlotOK

LEMMA ProvenGood ==
    ASSUME GoodHeap(heap), NEW t
    PROVE  /\ GoodHeap(Proven(t))
           /\ \A i \in Ids : /\ Proven(t)[i].state = "acquiring" <=> heap[i].state = "acquiring"
                             /\ Proven(t)[i].state = "denied" <=> heap[i].state = "denied"
                             /\ Proven(t)[i].failed = heap[i].failed
<1> SUFFICES ASSUME NEW i \in Ids
             PROVE  /\ Proven(t)[i] \in Entry /\ SlotOK(Proven(t)[i])
                    /\ Proven(t)[i].state = "acquiring" <=> heap[i].state = "acquiring"
                    /\ Proven(t)[i].state = "denied" <=> heap[i].state = "denied"
                    /\ Proven(t)[i].failed = heap[i].failed
  BY DEF GoodHeap, Proven
<1>1. heap[i] \in Entry /\ SlotOK(heap[i])
  BY DEF GoodHeap
<1>2. \/ Proven(t)[i] = heap[i]
      \/ heap[i].state = "unproven" /\ Proven(t)[i] = [heap[i] EXCEPT !.state = "proven"]
  BY DEF Proven
<1> QED BY <1>1, <1>2 DEF Entry, SlotOK

Denied(e) == [e EXCEPT !.state = "denied", !.failed = TRUE]

LEMMA DeniedGood ==
    ASSUME NEW e \in Entry, e.header = None \/ e.refused
    PROVE  Denied(e) \in Entry /\ SlotOK(Denied(e)) /\ Denied(e).state = "denied"
<1>1. /\ Denied(e) \in Entry
      /\ Denied(e).state = "denied" /\ Denied(e).failed = TRUE
      /\ Denied(e).header = e.header /\ Denied(e).refused = e.refused
  BY DEF Entry, Denied
<1>2. SlotOK(Denied(e))
  BY <1>1 DEF SlotOK
<1> QED BY <1>1, <1>2

\* Condemning an entry over the token it holds.
LEMMA CondemnGood ==
    ASSUME GoodHeap(heap), NEW s \in Scopes, entries[s] \in Ids,
           Holds(s, {"unproven", "proven"}), NEW t, ~Replaced(s, t), Condemn(s, t)
    PROVE  /\ GoodHeap(heap')
           /\ heap'[entries[s]].state = "denied"
           /\ \A i \in Ids \ {entries[s]} : /\ heap'[i].state = heap[i].state
                                            /\ heap'[i].failed = heap[i].failed
<1> DEFINE j == entries[s]
           g == Suspect(t)
<1>1. heap[j].header = t /\ t # None
  BY DEF Holds, Held, Replaced, GoodHeap, SlotOK
<1>2. GoodHeap(g) /\ g[j].refused /\ g[j].header = t
  BY <1>1, SuspectGood
<1>3. heap' = [g EXCEPT ![j].state = "denied", ![j].failed = TRUE]
  BY DEF Condemn
<1>4. heap'[j] = Denied(g[j])
  BY <1>2, <1>3 DEF GoodHeap, Denied
<1>5. heap'[j] \in Entry /\ SlotOK(heap'[j]) /\ heap'[j].state = "denied"
  BY <1>2, <1>4, DeniedGood DEF GoodHeap
<1>6. heap' \in [Ids -> Entry] /\ \A i \in Ids \ {j} : heap'[i] = g[i]
  BY <1>2, <1>3, <1>4, <1>5 DEF GoodHeap
<1> QED BY <1>2, <1>5, <1>6, SuspectGood DEF GoodHeap

\* What a step of one request leaves well formed.
LEMMA Composed ==
    ASSUME AuthInv, NEW r \in Requests,
           challenge' \in Challenges \cup {None},
           entries' \in [Scopes -> Ids \cup {None}],
           GoodHeap(heap'),
           req' = [req EXCEPT ![r] = req'[r]], GoodRequest(req'[r])
    PROVE  TypeOK' /\ SlotInv' /\ SendInv'
<1>1. \A m \in Requests : GoodRequest(req[m])
  BY RequestsAlike DEF AuthInv
<1>2. /\ req \in [Requests -> Request]
      /\ \A m \in Requests : req'[m] = IF m = r THEN req'[r] ELSE req[m]
  BY DEF AuthInv, TypeOK
<1>3. \A m \in Requests : GoodRequest(req'[m])
  BY <1>1, <1>2
<1>4. req' \in [Requests -> Request]
  BY <1>2, <1>3 DEF GoodRequest, RequestOK
<1>5. TypeOK'
  BY <1>3, <1>4 DEF TypeOK, GoodHeap, GoodRequest, RequestOK
<1>6. SendInv'
  BY <1>3 DEF SendInv, GoodRequest, SendsOK
<1>7. SlotInv'
  BY DEF SlotInv, GoodHeap, SlotOK
<1> QED BY <1>5, <1>6, <1>7

-----------------------------------------------------------------------------
(* Exchanges: what begins, ends or leaves alone the ones in flight.  MintInv *)
(* is said of values, those before a step or those after it.               *)

Closed(e) == e.state # "acquiring" \/ e.failed

Mints(q, i) == q.pc = "minting" /\ q.id = i

Pointed(es, rs, i) == \/ \E s \in Scopes : es[s] = i
                      \/ \E r \in Requests : rs[r].id = i

MintOK(es, h, rs) ==
    /\ \A r \in Requests : rs[r].pc = "minting" =>
          /\ es[ScopeOf(rs[r].kind)] = rs[r].id /\ ~Closed(h[rs[r].id])
          /\ \A m \in Requests : Mints(rs[m], rs[r].id) => m = r
    /\ \A s \in Scopes : es[s] # None /\ h[es[s]].state = "acquiring" =>
          \E m \in Requests : Mints(rs[m], es[s])
    /\ \A r \in Requests : rs[r].pc = "waiting" /\ ~Closed(h[rs[r].id]) =>
          \E m \in Requests : Mints(rs[m], rs[r].id)

LEMMA MintAlike == /\ MintInv <=> MintOK(entries, heap, req)
                   /\ MintInv' <=> MintOK(entries', heap', req')
<1>1. MintInv <=> MintOK(entries, heap, req)
  BY DEF MintInv, MintOK, Closed, Ready, Mints, IsMinting, Holds, ScopeAt
<1>2. MintInv' <=> MintOK(entries', heap', req')
  BY DEF MintInv, MintOK, Closed, Ready, Mints, IsMinting, Holds, ScopeAt
<1> QED BY <1>1, <1>2

\* An entry is as ready, and as much in flight, as it was.
SameSlot(i) == /\ Closed(heap'[i]) <=> Closed(heap[i])
               /\ heap'[i].state = "acquiring" <=> heap[i].state = "acquiring"

LEMMA MinterFacts ==
    ASSUME AuthInv, NEW m \in Requests, req[m].pc = "minting"
    PROVE  /\ req[m].id \in Ids /\ ScopeAt(m) \in Scopes
           /\ entries[ScopeAt(m)] = req[m].id
           /\ heap[req[m].id].state = "acquiring" /\ ~heap[req[m].id].failed
           /\ Holds(ScopeAt(m), {"acquiring"})
<1>1. req[m].id \in Ids
  BY DEF AuthInv, TypeOK, Request
<1>2. ScopeAt(m) \in Scopes
  BY DEF ScopeAt, ScopeOf, Scopes
<1> QED BY <1>1, <1>2, AuthAssumption DEF AuthInv, MintInv, Ready, Holds, AuthAssumption

LEMMA QuietStep ==
    ASSUME AuthInv, TypeOK', NEW r \in Requests,
           req' = [req EXCEPT ![r] = req'[r]],
           req[r].pc # "minting", req'[r].pc # "minting",
           req'[r].pc = "waiting" =>
               \/ req[r].pc = "waiting" /\ req'[r].id = req[r].id
               \/ \E s \in Scopes : req'[r].id = entries[s] /\ Holds(s, {"acquiring"}),
           entries' = entries, challenge # None => challenge' # None,
           \A i \in Ids : Pointed(entries', req', i) => SameSlot(i)
    PROVE  EntryInv' /\ MintInv'
<1> USE DEF AuthInv
<1>1. EntryInv'
  BY DEF EntryInv
<1>0. MintOK(entries, heap, req)
  BY MintAlike
<1>2. \A m \in Requests \ {r} : req'[m] = req[m]
  BY DEF TypeOK
<1>3. \A m \in Requests : \A i : Mints(req'[m], i) <=> Mints(req[m], i)
  BY <1>2 DEF Mints
<1>4. ASSUME NEW m \in Requests, req'[m].pc = "minting"
      PROVE  /\ entries'[ScopeOf(req'[m].kind)] = req'[m].id
             /\ ~Closed(heap'[req'[m].id])
             /\ \A n \in Requests : Mints(req'[n], req'[m].id) => n = m
  <2>1. m # r /\ req'[m] = req[m]
    BY <1>2, <1>4
  <2>2. /\ entries[ScopeOf(req[m].kind)] = req[m].id /\ ~Closed(heap[req[m].id])
        /\ \A n \in Requests : Mints(req[n], req[m].id) => n = m
    BY <2>1, <1>4, <1>0 DEF MintOK
  <2>3. req[m].id \in Ids /\ Pointed(entries', req', req[m].id)
    BY <2>1, <1>4, MinterFacts DEF Pointed
  <2>4. ~Closed(heap'[req[m].id])
    BY <2>2, <2>3 DEF SameSlot
  <2> QED BY <2>1, <2>2, <2>4, <1>3
<1>5. ASSUME NEW s \in Scopes, entries'[s] # None, heap'[entries'[s]].state = "acquiring"
      PROVE  \E m \in Requests : Mints(req'[m], entries'[s])
  <2>1. entries[s] \in Ids /\ Pointed(entries', req', entries[s])
    BY <1>5 DEF TypeOK, Pointed
  <2>2. heap[entries[s]].state = "acquiring"
    BY <1>5, <2>1 DEF SameSlot
  <2> QED BY <2>2, <1>0, <1>3, <1>5 DEF MintOK
<1>6. ASSUME NEW m \in Requests, req'[m].pc = "waiting", ~Closed(heap'[req'[m].id])
      PROVE  \E n \in Requests : Mints(req'[n], req'[m].id)
  <2>1. req'[m].id \in Ids
    BY <1>6 DEF TypeOK, Request
  <2>2. Pointed(entries', req', req'[m].id)
    BY DEF Pointed
  <2>3. ~Closed(heap[req'[m].id])
    BY <1>6, <2>1, <2>2 DEF SameSlot
  <2>4. CASE req[m].pc = "waiting" /\ req'[m].id = req[m].id
    BY <2>3, <2>4, <1>0, <1>3 DEF MintOK
  <2>5. CASE ~(req[m].pc = "waiting" /\ req'[m].id = req[m].id)
    <3>1. m = r
      BY <2>5, <1>2, <1>6
    <3>2. PICK s \in Scopes : req'[r].id = entries[s] /\ Holds(s, {"acquiring"})
      BY <1>6, <2>5, <3>1
    <3>3. entries[s] # None /\ heap[entries[s]].state = "acquiring"
      BY <3>2 DEF Holds
    <3> QED BY <3>1, <3>2, <3>3, <1>0, <1>3 DEF MintOK
  <2> QED BY <2>4, <2>5
<1>7. MintOK(entries', heap', req')
  BY <1>4, <1>5, <1>6 DEF MintOK
<1> QED BY <1>1, <1>7, MintAlike

\* The exchange of r is over: its entry is ready, or gone.
LEMMA ExchangeEnds ==
    ASSUME AuthInv, TypeOK', NEW r \in Requests,
           req' = [req EXCEPT ![r] = req'[r]],
           req[r].pc = "minting", req'[r].pc \in {"idle", "sent"},
           challenge' = challenge,
           NEW j, j = req[r].id,
           \/ /\ entries' = entries
              /\ Pointed(entries', req', j) => heap'[j].state # "acquiring"
           \/ entries' = [entries EXCEPT ![ScopeAt(r)] = None],
           Pointed(entries', req', j) => Closed(heap'[j]),
           \A i \in Ids \ {j} : Pointed(entries', req', i) => SameSlot(i)
    PROVE  EntryInv' /\ MintInv'
<1> USE DEF AuthInv
<1> DEFINE t == ScopeAt(r)
<1>0. /\ j \in Ids /\ t \in Scopes /\ entries[t] = j
      /\ j # None
  BY MinterFacts, AuthAssumption DEF AuthAssumption
<1>m. MintOK(entries, heap, req)
  BY MintAlike
<1>1. \A s \in Scopes : entries'[s] = entries[s] \/ (s = t /\ entries'[s] = None)
  BY <1>0 DEF TypeOK
<1>r. entries' = entries \/ entries'[t] = None
  BY <1>0 DEF TypeOK
<1> HIDE DEF t
<1>2. EntryInv'
  BY <1>1 DEF EntryInv
<1>3. \A m \in Requests \ {r} : req'[m] = req[m]
  BY DEF TypeOK
<1>4. \A m \in Requests : \A i : Mints(req'[m], i) <=> m # r /\ Mints(req[m], i)
  BY <1>3 DEF Mints
<1>5. ASSUME NEW m \in Requests, req'[m].pc = "minting"
      PROVE  /\ entries'[ScopeOf(req'[m].kind)] = req'[m].id
             /\ ~Closed(heap'[req'[m].id])
             /\ \A n \in Requests : Mints(req'[n], req'[m].id) => n = m
  <2>1. m # r /\ req'[m] = req[m] /\ req[m].pc = "minting"
    BY <1>3, <1>5
  <2>2. /\ entries[ScopeOf(req[m].kind)] = req[m].id /\ ~Closed(heap[req[m].id])
        /\ \A n \in Requests : Mints(req[n], req[m].id) => n = m
    BY <2>1, <1>m DEF MintOK
  <2>3. req[m].id # j
    BY <2>1, <2>2 DEF Mints
  <2>4. ScopeOf(req[m].kind) \in Scopes
    BY DEF ScopeOf, Scopes
  <2>5. entries'[ScopeOf(req[m].kind)] = req[m].id
    BY <2>2, <2>3, <2>4, <1>0, <1>1
  <2>6. req[m].id \in Ids /\ Pointed(entries', req', req[m].id)
    BY <2>1, MinterFacts DEF Pointed
  <2>7. ~Closed(heap'[req[m].id])
    BY <2>2, <2>3, <2>6 DEF SameSlot
  <2> QED BY <2>1, <2>2, <2>5, <2>7, <1>4
<1>6. ASSUME NEW s \in Scopes, entries'[s] # None, heap'[entries'[s]].state = "acquiring"
      PROVE  \E m \in Requests : Mints(req'[m], entries'[s])
  <2>1. /\ entries'[s] = entries[s] /\ entries[s] \in Ids
        /\ Pointed(entries', req', entries[s])
    BY <1>1, <1>6 DEF TypeOK, Pointed
  <2>2. entries[s] # j
    <3> SUFFICES ASSUME entries[s] = j PROVE FALSE
      OBVIOUS
    <3>1. s = t
      BY <1>0 DEF EntryInv
    <3>2. entries' = entries
      BY <1>6, <1>r, <3>1
    <3>3. heap'[j].state # "acquiring"
      BY <3>2, <2>1, <1>6, <1>0, <1>r, <3>1 DEF TypeOK, t
    <3> QED BY <3>3, <1>6, <2>1
  <2>3. heap[entries[s]].state = "acquiring"
    BY <1>6, <2>1, <2>2 DEF SameSlot
  <2>4. PICK m \in Requests : Mints(req[m], entries[s])
    BY <2>1, <2>3, <1>6, <1>m DEF MintOK
  <2> QED BY <2>1, <2>2, <2>4, <1>4 DEF Mints
<1>7. ASSUME NEW m \in Requests, req'[m].pc = "waiting", ~Closed(heap'[req'[m].id])
      PROVE  \E n \in Requests : Mints(req'[n], req'[m].id)
  <2>1. m # r /\ req'[m] = req[m]
    BY <1>3, <1>7
  <2>2. req[m].id \in Ids /\ Pointed(entries', req', req[m].id)
    BY <2>1, <1>7 DEF TypeOK, Request, Pointed
  <2>3. req[m].id # j
    BY <2>1, <2>2, <1>7
  <2>4. ~Closed(heap[req[m].id])
    BY <1>7, <2>1, <2>2, <2>3 DEF SameSlot
  <2>5. PICK n \in Requests : Mints(req[n], req[m].id)
    BY <1>7, <2>1, <2>4, <1>m DEF MintOK
  <2> QED BY <2>1, <2>3, <2>5, <1>4 DEF Mints
<1>8. MintOK(entries', heap', req')
  BY <1>5, <1>6, <1>7 DEF MintOK
<1> QED BY <1>2, <1>8, MintAlike

\* r begins an exchange for its scope, in a slot nothing pointed to; the entry
\* it replaces was not in flight.
LEMMA ExchangeBegins ==
    ASSUME AuthInv, TypeOK', NEW r \in Requests,
           req' = [req EXCEPT ![r] = req'[r]],
           req[r].pc # "minting", req'[r].pc = "minting",
           NEW j \in Ids, req'[r].id = j, ~Pointed(entries, req, j),
           NEW t \in Scopes, t = ScopeOf(req'[r].kind),
           entries[t] # None => heap[entries[t]].state # "acquiring",
           entries' = [entries EXCEPT ![t] = j],
           heap'[j] = Blank, challenge' # None,
           \A i \in Ids \ {j} : Pointed(entries', req', i) => SameSlot(i)
    PROVE  EntryInv' /\ MintInv'
<1> USE DEF AuthInv
<1>m. MintOK(entries, heap, req)
  BY MintAlike
<1>1. \A s \in Scopes : entries'[s] = IF s = t THEN j ELSE entries[s]
  BY DEF TypeOK
<1>2. EntryInv'
  <2>1. \A s \in Scopes : entries[s] # j
    BY DEF Pointed
  <2> QED BY <1>1, <2>1 DEF EntryInv
<1>3. /\ \A m \in Requests \ {r} : req'[m] = req[m]
      /\ \A m \in Requests : req[m].id # j
  BY DEF TypeOK, Pointed
<1>4. \A m \in Requests : \A i : Mints(req'[m], i) <=> Mints(req[m], i) \/ (m = r /\ i = j)
  BY <1>3 DEF Mints
<1>b. ~Closed(heap'[j])
  BY DEF Blank, Closed
<1>5. ASSUME NEW m \in Requests, req'[m].pc = "minting"
      PROVE  /\ entries'[ScopeOf(req'[m].kind)] = req'[m].id
             /\ ~Closed(heap'[req'[m].id])
             /\ \A n \in Requests : Mints(req'[n], req'[m].id) => n = m
  <2>1. CASE m = r
    BY <2>1, <1>1, <1>3, <1>4, <1>b DEF Mints
  <2>2. CASE m # r
    <3>1. req'[m] = req[m] /\ req[m].pc = "minting"
      BY <2>2, <1>3, <1>5
    <3>2. /\ entries[ScopeOf(req[m].kind)] = req[m].id /\ ~Closed(heap[req[m].id])
          /\ \A n \in Requests : Mints(req[n], req[m].id) => n = m
      BY <3>1, <1>m DEF MintOK
    <3>3. req[m].id \in Ids /\ req[m].id # None /\ heap[req[m].id].state = "acquiring"
      BY <3>1, MinterFacts, AuthAssumption DEF AuthAssumption
    <3>4. ScopeOf(req[m].kind) \in Scopes /\ ScopeOf(req[m].kind) # t
      BY <3>2, <3>3 DEF ScopeOf, Scopes
    <3>5. Pointed(entries', req', req[m].id)
      BY <3>1 DEF Pointed
    <3>6. ~Closed(heap'[req[m].id])
      BY <3>2, <3>3, <3>5, <1>3 DEF SameSlot
    <3> QED BY <2>2, <3>1, <3>2, <3>4, <3>6, <1>1, <1>3, <1>4
  <2> QED BY <2>1, <2>2
<1>6. ASSUME NEW s \in Scopes, entries'[s] # None, heap'[entries'[s]].state = "acquiring"
      PROVE  \E m \in Requests : Mints(req'[m], entries'[s])
  <2>1. CASE s = t
    BY <2>1, <1>1, <1>4
  <2>2. CASE s # t
    <3>1. entries'[s] = entries[s] /\ entries[s] \in Ids \ {j}
      BY <2>2, <1>1, <1>6 DEF TypeOK, Pointed
    <3>2. heap[entries[s]].state = "acquiring"
      BY <3>1, <1>6 DEF SameSlot, Pointed
    <3> QED BY <3>1, <3>2, <1>6, <1>m, <1>4 DEF MintOK
  <2> QED BY <2>1, <2>2
<1>7. ASSUME NEW m \in Requests, req'[m].pc = "waiting", ~Closed(heap'[req'[m].id])
      PROVE  \E n \in Requests : Mints(req'[n], req'[m].id)
  <2>1. m # r /\ req'[m] = req[m] /\ req[m].id # j
    BY <1>3, <1>7
  <2>2. req[m].id \in Ids /\ Pointed(entries', req', req[m].id)
    BY <2>1, <1>7 DEF TypeOK, Request, Pointed
  <2>3. ~Closed(heap[req[m].id])
    BY <1>7, <2>1, <2>2 DEF SameSlot
  <2> QED BY <2>1, <2>3, <1>7, <1>m, <1>4 DEF MintOK
<1>8. MintOK(entries', heap', req')
  BY <1>5, <1>6, <1>7 DEF MintOK
<1> QED BY <1>2, <1>8, MintAlike

-----------------------------------------------------------------------------
(* One step, whole. *)

LEMMA Collected ==
    ASSUME NEW h, GoodHeap(h), HeapBecomes(h)
    PROVE  /\ GoodHeap(heap')
           /\ \A i \in Ids : Pointed(entries', req', i) => heap'[i] = h[i]
  BY HeapBecomesGood DEF Reachable, Pointed

\* Nothing begins and nothing ends.
LEMMA Quiet ==
    ASSUME AuthInv, NEW r \in Requests,
           challenge' \in Challenges \cup {None}, challenge # None => challenge' # None,
           entries' = entries, GoodHeap(heap'),
           req' = [req EXCEPT ![r] = req'[r]], GoodRequest(req'[r]),
           req[r].pc # "minting", req'[r].pc # "minting",
           req'[r].pc = "waiting" =>
               \/ req[r].pc = "waiting" /\ req'[r].id = req[r].id
               \/ \E s \in Scopes : req'[r].id = entries[s] /\ Holds(s, {"acquiring"}),
           \A i \in Ids : Pointed(entries', req', i) => SameSlot(i)
    PROVE  AuthInv'
<1>1. entries' \in [Scopes -> Ids \cup {None}]
  BY DEF AuthInv, TypeOK
<1>2. TypeOK' /\ SlotInv' /\ SendInv'
  BY <1>1, Composed
<1>3. EntryInv' /\ MintInv'
  BY <1>2, QuietStep
<1> QED BY <1>2, <1>3 DEF AuthInv

\* An exchange begins.
LEMMA Began ==
    ASSUME AuthInv, NEW r \in Requests, req[r].pc # "minting",
           NEW q \in Request, Pending(q), NEW asked \in Challenges, challenge' = asked,
           entries[ScopeOf(q.kind)] # None =>
               heap[entries[ScopeOf(q.kind)]].state # "acquiring",
           NEW old, GoodHeap(old),
           \A i \in Ids : /\ old[i].state = heap[i].state
                          /\ old[i].failed = heap[i].failed,
           Begin(r, q, asked, old)
    PROVE  AuthInv'
<1> DEFINE t == ScopeOf(q.kind)
<1>1. PICK j \in Unused :
          /\ entries' = [entries EXCEPT ![t] = j]
          /\ req' = [req EXCEPT ![r] = Minter(r, q, j, asked)]
          /\ HeapBecomes([old EXCEPT ![j] = Blank])
  BY DEF Begin, Minter
<1>2. j \in Ids /\ ~Pointed(entries, req, j)
  BY DEF Unused, Reachable, Pointed
<1>3. /\ req' = [req EXCEPT ![r] = req'[r]]
      /\ req'[r].pc = "minting" /\ req'[r].kind = q.kind /\ req'[r].id = j
      /\ GoodRequest(req'[r])
  BY <1>1, <1>2, BeginGood DEF AuthInv
<1>4. GoodHeap([old EXCEPT ![j] = Blank])
  BY <1>2, BlankGood DEF GoodHeap
<1>5. /\ GoodHeap(heap')
      /\ \A i \in Ids : Pointed(entries', req', i) => heap'[i] = [old EXCEPT ![j] = Blank][i]
  BY <1>1, <1>4, Collected
<1>6. t \in Scopes
  BY DEF ScopeOf, Scopes
<1>7. entries' \in [Scopes -> Ids \cup {None}]
  BY <1>1, <1>2, <1>6 DEF AuthInv, TypeOK
<1>8. TypeOK' /\ SlotInv' /\ SendInv'
  BY <1>3, <1>5, <1>7, Composed
<1>9. Pointed(entries', req', j)
  BY <1>3 DEF Pointed
<1>10. heap'[j] = Blank
  BY <1>2, <1>5, <1>9 DEF GoodHeap
<1>11. \A i \in Ids \ {j} : Pointed(entries', req', i) => heap'[i] = old[i]
  BY <1>2, <1>5 DEF GoodHeap
<1>12. \A i \in Ids \ {j} : Pointed(entries', req', i) => SameSlot(i)
  BY <1>11 DEF SameSlot, Closed
<1>13. challenge' # None
  BY AuthAssumption DEF AuthAssumption
<1>14. EntryInv' /\ MintInv'
  BY <1>1, <1>2, <1>3, <1>6, <1>8, <1>10, <1>12, <1>13, ExchangeBegins
<1> QED BY <1>8, <1>14 DEF AuthInv

\* Condemning, suspecting and proving are quiet.
LEMMA Ended ==
    ASSUME AuthInv, NEW r \in Requests, req[r].pc # "minting",
           challenge' \in Challenges \cup {None}, challenge # None => challenge' # None,
           entries' = entries, GoodHeap(heap'), Ends(r),
           \A i \in Ids : Pointed(entries', req', i) => SameSlot(i)
    PROVE  AuthInv'
<1>1. /\ req' = [req EXCEPT ![r] = req'[r]]
      /\ req'[r] = Idle /\ GoodRequest(req'[r])
  BY EndsGood DEF AuthInv
<1>2. req'[r].pc = "idle"
  BY <1>1 DEF Idle
<1> QED BY <1>1, <1>2, Quiet

LEMMA Presented ==
    ASSUME AuthInv, NEW r \in Requests, req[r].pc # "minting",
           challenge' \in Challenges \cup {None}, challenge # None => challenge' # None,
           entries' = entries, GoodHeap(heap'),
           NEW q \in Request, Pending(q), NEW h \in Tokens \cup {None},
           q.stage = "replay" => h # None, Present(r, q, h),
           \A i \in Ids : Pointed(entries', req', i) => SameSlot(i)
    PROVE  AuthInv'
<1>1. /\ req' = [req EXCEPT ![r] = req'[r]]
      /\ req'[r].pc \in {"idle", "sent"}
      /\ GoodRequest(req'[r])
  BY PresentGood DEF AuthInv
<1> QED BY <1>1, Quiet

LEMMA Awaited ==
    ASSUME AuthInv, NEW r \in Requests, req[r].pc # "minting",
           challenge' \in Challenges \cup {None}, challenge # None => challenge' # None,
           entries' = entries, GoodHeap(heap'),
           NEW q \in Request, Pending(q), q.asked = None,
           Holds(ScopeOf(q.kind), {"acquiring"}), Await(r, q),
           \A i \in Ids : Pointed(entries', req', i) => SameSlot(i)
    PROVE  AuthInv'
<1>1. ScopeOf(q.kind) \in Scopes /\ entries[ScopeOf(q.kind)] # None
  BY DEF ScopeOf, Scopes, Holds
<1>2. /\ req' = [req EXCEPT ![r] = req'[r]]
      /\ req'[r].pc = "waiting"
      /\ req'[r].id = entries[ScopeOf(q.kind)]
      /\ GoodRequest(req'[r])
  BY <1>1, AwaitGood DEF AuthInv
<1> QED BY <1>1, <1>2, Quiet

-----------------------------------------------------------------------------
(* AuthInv, action by action. *)

LEMMA RequestFacts ==
    ASSUME AuthInv, NEW r \in Requests
    PROVE  /\ req[r] \in Request /\ GoodRequest(req[r])
           /\ ScopeAt(r) \in Scopes /\ GoodHeap(heap)
  BY RequestsAlike, HeapAlike DEF AuthInv, TypeOK, ScopeAt, ScopeOf, Scopes

LEMMA StartKeeps == ASSUME AuthInv, NEW r \in Requests, Start(r) PROVE AuthInv'
<1>1. PICK kind \in Kinds :
        LET q == [Idle EXCEPT !.kind = kind]
            s == ScopeOf(kind)
        IN  \/ /\ challenge = None
               /\ Present(r, q, None) /\ UNCHANGED <<entries, heap>>
            \/ /\ challenge # None /\ Holds(s, {"acquiring"})
               /\ Await(r, q) /\ UNCHANGED <<entries, heap>>
            \/ /\ challenge # None /\ Holds(s, {"denied"})
               /\ UNCHANGED <<entries, heap, req>>
            \/ /\ challenge # None /\ Holds(s, {"unproven", "proven"}) /\ Held(s).usable
               /\ Present(r, q, Held(s).header) /\ UNCHANGED <<entries, heap>>
            \/ /\ challenge # None
               /\ entries[s] = None \/ (Holds(s, {"unproven", "proven"}) /\ ~Held(s).usable)
               /\ Begin(r, q, challenge, heap)
  BY DEF Start
<1> DEFINE q == [Idle EXCEPT !.kind = kind]
           s == ScopeOf(kind)
<1>2. /\ q \in Request /\ Pending(q) /\ q.kind = kind /\ q.asked = None /\ q.stage = "first"
  BY AuthAssumption DEF AuthAssumption, Idle, Request, Pending, AllKinds
<1>3. /\ req[r].pc = "idle" /\ challenge' = challenge
      /\ challenge' \in Challenges \cup {None}
  BY DEF Start, AuthInv, TypeOK
<1>4. GoodHeap(heap) /\ s \in Scopes
  BY RequestFacts DEF ScopeOf, Scopes
<1>h. ASSUME heap' = heap PROVE GoodHeap(heap') /\ \A i \in Ids : SameSlot(i)
  BY <1>h, <1>4 DEF SameSlot
<1>5. CASE challenge = None /\ Present(r, q, None) /\ UNCHANGED <<entries, heap>>
  BY <1>2, <1>3, <1>h, <1>5, Presented
<1>6. CASE Holds(s, {"acquiring"}) /\ Await(r, q) /\ UNCHANGED <<entries, heap>>
  BY <1>2, <1>3, <1>h, <1>6, Awaited
<1>7. CASE UNCHANGED <<entries, heap, req>>
  <2>1. req' = [req EXCEPT ![r] = req'[r]] /\ req'[r] = req[r] /\ GoodRequest(req'[r])
    BY <1>7, RequestFacts DEF AuthInv, TypeOK
  <2> QED BY <2>1, <1>3, <1>h, <1>7, Quiet
<1>8. CASE /\ Holds(s, {"unproven", "proven"})
           /\ Present(r, q, Held(s).header) /\ UNCHANGED <<entries, heap>>
  <2>1. Held(s).header \in Tokens \cup {None}
    BY <1>4, <1>8 DEF Holds, Held, AuthInv, TypeOK, Entry
  <2> QED BY <2>1, <1>2, <1>3, <1>h, <1>8, Presented
<1>9. CASE /\ challenge # None
           /\ entries[s] = None \/ (Holds(s, {"unproven", "proven"}) /\ ~Held(s).usable)
           /\ Begin(r, q, challenge, heap)
  <2>1. entries[s] # None => heap[entries[s]].state # "acquiring"
    BY <1>9 DEF Holds
  <2>2. challenge \in Challenges
    BY <1>9 DEF AuthInv, TypeOK
  <2> QED BY <2>1, <2>2, <1>2, <1>3, <1>4, <1>9, Began
<1> QED BY <1>1, <1>5, <1>6, <1>7, <1>8, <1>9

\* An exchange's end, whatever comes of it.
LEMMA ExchangeKeeps ==
    ASSUME AuthInv, NEW r \in Requests, req[r].pc = "minting",
           challenge' = challenge,
           NEW h, GoodHeap(h), HeapBecomes(h), Closed(h[req[r].id]),
           \A i \in Ids \ {req[r].id} : h[i] = heap[i],
           \/ entries' = entries /\ h[req[r].id].state # "acquiring"
           \/ entries' = [entries EXCEPT ![ScopeAt(r)] = None],
           req' = [req EXCEPT ![r] = req'[r]], req'[r].pc \in {"idle", "sent"},
           GoodRequest(req'[r])
    PROVE  AuthInv'
<1> DEFINE j == req[r].id
<1>1. j \in Ids
  BY MinterFacts
<1>2. /\ GoodHeap(heap')
      /\ \A i \in Ids : Pointed(entries', req', i) => heap'[i] = h[i]
  BY Collected
<1>3. /\ entries' \in [Scopes -> Ids \cup {None}]
      /\ challenge' \in Challenges \cup {None}
  BY RequestFacts DEF AuthInv, TypeOK
<1>4. TypeOK' /\ SlotInv' /\ SendInv'
  BY <1>2, <1>3, Composed
<1>5. \A i \in Ids \ {j} : Pointed(entries', req', i) => SameSlot(i)
  BY <1>2 DEF SameSlot
<1>6. Pointed(entries', req', j) => heap'[j] = h[j]
  BY <1>1, <1>2
<1>7. /\ Pointed(entries', req', j) => Closed(heap'[j])
      /\ \/ /\ entries' = entries
            /\ Pointed(entries', req', j) => heap'[j].state # "acquiring"
         \/ entries' = [entries EXCEPT ![ScopeAt(r)] = None]
  BY <1>6
<1>8. EntryInv' /\ MintInv'
  BY <1>4, <1>5, <1>7, ExchangeEnds
<1> QED BY <1>4, <1>8 DEF AuthInv

LEMMA MintingPends ==
    ASSUME AuthInv, NEW r \in Requests, req[r].pc \in {"minting", "waiting"}
    PROVE  req[r] \in Request /\ Pending(req[r])
<1>1. req[r] \in Request /\ GoodRequest(req[r])
  BY RequestFacts
<1>2. req[r].kind # "read" =>
          req[r].stage # "chain" /\ req[r].sends = IF req[r].stage = "first" THEN 0 ELSE 1
  BY <1>1 DEF GoodRequest, SendsOK, Request
<1> QED BY <1>1, <1>2 DEF Pending, Request

LEMMA AcquiredKeeps == ASSUME AuthInv, NEW r \in Requests, Acquired(r) PROVE AuthInv'
<1> DEFINE e(t) == [Blank EXCEPT !.state = "unproven", !.header = t, !.usable = TRUE]
<1>0. PICK cred \in Credentials : \E t \in Answers(cred, req[r].asked) :
          /\ UNCHANGED <<challenge, entries>>
          /\ Present(r, req[r], t)
          /\ HeapBecomes([heap EXCEPT ![req[r].id] = e(t)])
  BY DEF Acquired
<1>1. PICK t \in Answers(cred, req[r].asked) :
          /\ UNCHANGED <<challenge, entries>>
          /\ Present(r, req[r], t)
          /\ HeapBecomes([heap EXCEPT ![req[r].id] = e(t)])
  BY <1>0
<1>2. req[r].pc = "minting"
  BY DEF Acquired
<1>3. t \in Tokens /\ t # None
  BY AuthAssumption DEF Answers, Tokens, AuthAssumption
<1>4. e(t) \in Entry /\ SlotOK(e(t)) /\ e(t).state = "unproven"
  BY <1>3 DEF Blank, Entry, SlotOK
<1> HIDE DEF e
<1>5. req[r].id \in Ids /\ GoodHeap(heap)
  BY <1>2, MinterFacts, RequestFacts
<1> DEFINE h == [heap EXCEPT ![req[r].id] = e(t)]
<1>6. /\ GoodHeap(h) /\ Closed(h[req[r].id]) /\ h[req[r].id].state # "acquiring"
      /\ \A i \in Ids \ {req[r].id} : h[i] = heap[i]
  BY <1>4, <1>5 DEF GoodHeap, Closed
<1>7. req[r] \in Request /\ Pending(req[r]) /\ TypeOK
  BY <1>2, MintingPends DEF AuthInv
<1>8. /\ req' = [req EXCEPT ![r] = req'[r]]
      /\ req'[r].pc \in {"idle", "sent"}
      /\ GoodRequest(req'[r])
  BY <1>1, <1>3, <1>7, PresentGood
<1> HIDE DEF h
<1>9. HeapBecomes(h) /\ challenge' = challenge /\ entries' = entries
  BY <1>1 DEF h
<1> QED BY <1>2, <1>6, <1>8, <1>9, ExchangeKeeps

LEMMA EndedGood ==
    ASSUME AuthInv, NEW r \in Requests, Ends(r)
    PROVE  /\ req' = [req EXCEPT ![r] = req'[r]]
           /\ req'[r].pc = "idle" /\ GoodRequest(req'[r])
  BY EndsGood DEF AuthInv, Idle

LEMMA UnauthorizedKeeps == ASSUME AuthInv, NEW r \in Requests, Unauthorized(r) PROVE AuthInv'
<1> DEFINE j == req[r].id
           h == [heap EXCEPT ![j].state = "denied", ![j].failed = TRUE]
<1>1. /\ req[r].pc = "minting" /\ Ends(r)
      /\ challenge' = challenge /\ entries' = entries
      /\ HeapBecomes(h)
  BY DEF Unauthorized
<1>2. j \in Ids /\ heap[j].state = "acquiring" /\ GoodHeap(heap)
  BY <1>1, MinterFacts, RequestFacts
<1>3. heap[j] \in Entry /\ heap[j].header = None
  BY <1>2 DEF GoodHeap, SlotOK
<1>4. h = [heap EXCEPT ![j] = Denied(heap[j])]
  BY <1>2 DEF Denied, GoodHeap
<1>5. Denied(heap[j]) \in Entry /\ SlotOK(Denied(heap[j])) /\ Denied(heap[j]).state = "denied"
  BY <1>3, DeniedGood
<1> HIDE DEF h
<1>6. /\ GoodHeap(h) /\ Closed(h[j]) /\ h[j].state # "acquiring"
      /\ \A i \in Ids \ {j} : h[i] = heap[i]
  BY <1>2, <1>4, <1>5 DEF GoodHeap, Closed
<1>7. /\ req' = [req EXCEPT ![r] = req'[r]]
      /\ req'[r].pc \in {"idle", "sent"} /\ GoodRequest(req'[r])
  BY <1>1, EndedGood
<1> QED BY <1>1, <1>6, <1>7, ExchangeKeeps

LEMMA ExchangeFailsKeeps == ASSUME AuthInv, NEW r \in Requests, ExchangeFails(r) PROVE AuthInv'
<1> DEFINE j == req[r].id
           e == [heap[j] EXCEPT !.failed = TRUE]
           h == [heap EXCEPT ![j].failed = TRUE]
<1>1. /\ req[r].pc = "minting" /\ Ends(r) /\ challenge' = challenge
      /\ HeapBecomes(h)
  BY DEF ExchangeFails
<1>2. /\ j \in Ids /\ heap[j].state = "acquiring" /\ GoodHeap(heap)
      /\ entries[ScopeAt(r)] = j
  BY <1>1, MinterFacts, RequestFacts
<1>3. entries' = [entries EXCEPT ![ScopeAt(r)] = None]
  BY <1>2 DEF ExchangeFails
<1>4. h = [heap EXCEPT ![j] = e] /\ heap[j] \in Entry /\ SlotOK(heap[j])
  BY <1>2 DEF GoodHeap
<1>5. e \in Entry /\ e.failed = TRUE /\ e.state = heap[j].state /\ e.header = heap[j].header
  BY <1>4 DEF Entry
<1>6. SlotOK(e)
  BY <1>2, <1>4, <1>5 DEF SlotOK
<1> HIDE DEF h, e
<1>7. /\ GoodHeap(h) /\ Closed(h[j])
      /\ \A i \in Ids \ {j} : h[i] = heap[i]
  BY <1>2, <1>4, <1>5, <1>6 DEF GoodHeap, Closed
<1>8. /\ req' = [req EXCEPT ![r] = req'[r]]
      /\ req'[r].pc \in {"idle", "sent"} /\ GoodRequest(req'[r])
  BY <1>1, EndedGood
<1> QED BY <1>1, <1>3, <1>7, <1>8, ExchangeKeeps

LEMMA WakeKeeps == ASSUME AuthInv, NEW r \in Requests, Wake(r) PROVE AuthInv'
<1>1. /\ req[r].pc = "waiting" /\ Ready(req[r].id)
      /\ challenge' = challenge /\ entries' = entries
      /\ HeapBecomes(heap)
  BY DEF Wake
<1>2. GoodHeap(heap) /\ challenge' \in Challenges \cup {None}
  BY <1>1, RequestFacts DEF AuthInv, TypeOK
<1>3. /\ GoodHeap(heap')
      /\ \A i \in Ids : Pointed(entries', req', i) => SameSlot(i)
  BY <1>1, <1>2, Collected DEF SameSlot
<1>4. CASE Ends(r)
  BY <1>1, <1>2, <1>3, <1>4, Ended
<1>5. CASE ~heap[req[r].id].failed /\ Present(r, req[r], heap[req[r].id].header)
  <2>1. req[r].id \in Ids
    BY <1>1, RequestFacts, AuthAssumption DEF GoodRequest, RequestOK, Request
  <2>2. heap[req[r].id] \in Entry /\ SlotOK(heap[req[r].id])
    BY <2>1, <1>2 DEF GoodHeap
  <2>3. heap[req[r].id].header \in Tokens \cup {None} /\ heap[req[r].id].header # None
    BY <2>2, <1>1, <1>5 DEF Ready, SlotOK, Entry
  <2> QED BY <2>3, <1>1, <1>2, <1>3, <1>5, MintingPends, Presented
<1> QED BY <1>4, <1>5 DEF Wake

LEMMA GiveUpKeeps == ASSUME AuthInv, NEW r \in Requests, GiveUp(r) PROVE AuthInv'
<1>1. /\ req[r].pc = "waiting" /\ Ends(r)
      /\ challenge' = challenge /\ entries' = entries
      /\ HeapBecomes(heap)
  BY DEF GiveUp
<1>2. GoodHeap(heap) /\ challenge' \in Challenges \cup {None}
  BY <1>1, RequestFacts DEF AuthInv, TypeOK
<1>3. /\ GoodHeap(heap')
      /\ \A i \in Ids : Pointed(entries', req', i) => SameSlot(i)
  BY <1>1, <1>2, Collected DEF SameSlot
<1> QED BY <1>1, <1>2, <1>3, Ended

LEMMA AnsweredKeeps == ASSUME AuthInv, NEW r \in Requests, Answered(r) PROVE AuthInv'
<1>1. /\ req[r].pc = "sent" /\ Ends(r) /\ heap' = Proven(req[r].header)
      /\ challenge' = challenge /\ entries' = entries
  BY DEF Answered
<1>2. GoodHeap(heap) /\ challenge' \in Challenges \cup {None}
  BY <1>1, RequestFacts DEF AuthInv, TypeOK
<1>3. GoodHeap(heap') /\ \A i \in Ids : SameSlot(i)
  BY <1>1, <1>2, ProvenGood DEF SameSlot, Closed
<1> QED BY <1>1, <1>2, <1>3, Ended

LEMMA RedirectedKeeps == ASSUME AuthInv, NEW r \in Requests, Redirected(r) PROVE AuthInv'
<1>1. /\ req[r].pc = "sent" /\ req[r].kind = "read" /\ heap' = Proven(req[r].header)
      /\ req' = [req EXCEPT ![r].stage = "chain"]
      /\ challenge' = challenge /\ entries' = entries
  BY DEF Redirected
<1>2. /\ GoodHeap(heap) /\ challenge' \in Challenges \cup {None}
      /\ req[r] \in Request /\ GoodRequest(req[r])
  BY <1>1, RequestFacts DEF AuthInv, TypeOK
<1>3. GoodHeap(heap') /\ \A i \in Ids : SameSlot(i)
  BY <1>1, <1>2, ProvenGood DEF SameSlot, Closed
<1> DEFINE g == [req[r] EXCEPT !.stage = "chain"]
<1>4. req'[r] = g /\ req' = [req EXCEPT ![r] = g]
  BY <1>1 DEF AuthInv, TypeOK
<1>5. g.pc = "sent" /\ GoodRequest(g)
  BY <1>1, <1>2 DEF GoodRequest, RequestOK, SendsOK, Request
<1> QED BY <1>1, <1>2, <1>3, <1>4, <1>5, Quiet

LEMMA OverKeeps ==
    ASSUME AuthInv, NEW r \in Requests, Over(r) \/ Unanswerable(r)
    PROVE  AuthInv'
<1>1. /\ req[r].pc = "sent" /\ Ends(r)
      /\ challenge' = challenge /\ entries' = entries /\ heap' = heap
  BY DEF Over, Unanswerable
<1>2. GoodHeap(heap') /\ challenge' \in Challenges \cup {None}
  BY <1>1, RequestFacts DEF AuthInv, TypeOK
<1> QED BY <1>1, <1>2, Ended DEF SameSlot

\* What a refused request goes on as.
LEMMA ReplayPends ==
    ASSUME AuthInv, NEW r \in Requests, req[r].pc = "sent", req[r].stage \in {"first", "chain"},
           NEW q, q = [req[r] EXCEPT !.stage = "replay"]
    PROVE  /\ q \in Request /\ Pending(q) /\ q.asked = None /\ q.stage = "replay"
           /\ ScopeOf(q.kind) = ScopeAt(r)
<1>1. req[r] \in Request /\ GoodRequest(req[r])
  BY RequestFacts
<1>2. req[r].kind # "read" => req[r].sends = 1
  BY <1>1 DEF GoodRequest, SendsOK
<1> QED BY <1>1, <1>2 DEF GoodRequest, RequestOK, Request, Pending, ScopeAt

\* Condemning an entry is the end of nothing: it was ready already.
LEMMA CondemnedSlots ==
    ASSUME AuthInv, NEW s \in Scopes, Holds(s, {"unproven", "proven"}),
           NEW t, ~Replaced(s, t), Condemn(s, t)
    PROVE  GoodHeap(heap') /\ \A i \in Ids : SameSlot(i)
<1>1. GoodHeap(heap) /\ entries[s] \in Ids
  BY HeapAlike DEF AuthInv, TypeOK, Holds
<1>2. /\ GoodHeap(heap')
      /\ heap'[entries[s]].state = "denied"
      /\ \A i \in Ids \ {entries[s]} : /\ heap'[i].state = heap[i].state
                                       /\ heap'[i].failed = heap[i].failed
  BY <1>1, CondemnGood
<1>3. SameSlot(entries[s])
  BY <1>2 DEF SameSlot, Closed, Holds
<1>4. \A i \in Ids \ {entries[s]} : SameSlot(i)
  BY <1>2 DEF SameSlot, Closed
<1> QED BY <1>2, <1>3, <1>4

LEMMA RefusedKeeps == ASSUME AuthInv, NEW r \in Requests, Refused(r) PROVE AuthInv'
<1> DEFINE s == ScopeAt(r)
           sent == req[r].header
           q == [req[r] EXCEPT !.stage = "replay"]
<1>1. /\ req[r].pc = "sent" /\ req[r].stage \in {"first", "chain"}
      /\ challenge' \in Challenges
      /\ \/ /\ Holds(s, {"acquiring"})
            /\ Await(r, q) /\ heap' = Suspect(sent) /\ entries' = entries
         \/ /\ Holds(s, {"denied"})
            /\ Ends(r) /\ heap' = Suspect(sent) /\ entries' = entries
         \/ /\ Replaced(s, sent)
            /\ Present(r, q, Held(s).header) /\ heap' = Suspect(sent) /\ entries' = entries
         \/ /\ Holds(s, {"unproven"}) /\ ~Replaced(s, sent)
            /\ Condemn(s, sent) /\ Ends(r) /\ entries' = entries
         \/ /\ entries[s] = None \/ (Holds(s, {"proven"}) /\ ~Replaced(s, sent))
            /\ Begin(r, q, challenge', Suspect(sent))
  BY DEF Refused
<1>2. q \in Request /\ Pending(q) /\ q.asked = None /\ ScopeOf(q.kind) = s
  BY <1>1, ReplayPends
<1>3. s \in Scopes /\ GoodHeap(heap) /\ challenge' # None
  BY <1>1, RequestFacts, AuthAssumption DEF AuthAssumption
<1>4. /\ GoodHeap(Suspect(sent))
      /\ \A i \in Ids : /\ Suspect(sent)[i].state = heap[i].state
                        /\ Suspect(sent)[i].failed = heap[i].failed
  BY <1>3, SuspectGood
<1>5. ASSUME heap' = Suspect(sent) PROVE GoodHeap(heap') /\ \A i \in Ids : SameSlot(i)
  BY <1>4, <1>5 DEF SameSlot, Closed
<1> HIDE DEF q
<1>6. CASE /\ Holds(s, {"acquiring"})
           /\ Await(r, q) /\ heap' = Suspect(sent) /\ entries' = entries
  BY <1>1, <1>2, <1>3, <1>5, <1>6, Awaited
<1>7. CASE Ends(r) /\ heap' = Suspect(sent) /\ entries' = entries
  BY <1>1, <1>3, <1>5, <1>7, Ended
<1>8. CASE /\ Replaced(s, sent)
           /\ Present(r, q, Held(s).header) /\ heap' = Suspect(sent) /\ entries' = entries
  <2>1. heap[entries[s]] \in Entry /\ SlotOK(heap[entries[s]])
    BY <1>3, <1>8 DEF Replaced, Holds, AuthInv, TypeOK, GoodHeap
  <2>2. Held(s).header \in Tokens \cup {None} /\ Held(s).header # None
    BY <1>8, <2>1 DEF Replaced, Holds, Held, SlotOK, Entry
  <2> QED BY <2>2, <1>1, <1>2, <1>3, <1>5, <1>8, Presented
<1>9. CASE /\ Holds(s, {"unproven"}) /\ ~Replaced(s, sent)
           /\ Condemn(s, sent) /\ Ends(r) /\ entries' = entries
  <2>1. Holds(s, {"unproven", "proven"})
    BY <1>9 DEF Holds
  <2>2. GoodHeap(heap') /\ \A i \in Ids : SameSlot(i)
    BY <2>1, <1>3, <1>9, CondemnedSlots
  <2> QED BY <2>2, <1>1, <1>3, <1>9, Ended
<1>10. CASE /\ entries[s] = None \/ (Holds(s, {"proven"}) /\ ~Replaced(s, sent))
            /\ Begin(r, q, challenge', Suspect(sent))
  <2>1. entries[s] # None => heap[entries[s]].state # "acquiring"
    BY <1>10 DEF Holds
  <2>2. PICK asked \in Challenges : challenge' = asked
    BY <1>1
  <2>3. Begin(r, q, asked, Suspect(sent))
    BY <2>2, <1>10
  <2> QED BY <2>1, <2>2, <2>3, <1>1, <1>2, <1>4, Began
<1> QED BY <1>1, <1>6, <1>7, <1>8, <1>9, <1>10 DEF q

LEMMA RefusedAgainKeeps == ASSUME AuthInv, NEW r \in Requests, RefusedAgain(r) PROVE AuthInv'
<1> DEFINE s == ScopeAt(r)
           t == req[r].header
<1>1. /\ req[r].pc = "sent" /\ Ends(r)
      /\ challenge' = challenge /\ entries' = entries
  BY DEF RefusedAgain
<1>2. s \in Scopes /\ GoodHeap(heap) /\ challenge' \in Challenges \cup {None}
  BY <1>1, RequestFacts DEF AuthInv, TypeOK
<1>3. GoodHeap(heap') /\ \A i \in Ids : SameSlot(i)
  <2>1. CASE Holds(s, {"unproven", "proven"}) /\ ~Replaced(s, t)
    BY <2>1, <1>2, CondemnedSlots DEF RefusedAgain
  <2>2. CASE ~(Holds(s, {"unproven", "proven"}) /\ ~Replaced(s, t))
    <3>1. heap' = Suspect(t)
      BY <2>2 DEF RefusedAgain
    <3> QED BY <3>1, <1>2, SuspectGood DEF SameSlot, Closed
  <2> QED BY <2>1, <2>2
<1> QED BY <1>1, <1>2, <1>3, Ended

\* What is no request's step leaves every exchange alone.
LEMMA ElsewhereKeeps ==
    ASSUME AuthInv, challenge' = challenge, entries' = entries, req' = req,
           GoodHeap(heap'), \A i \in Ids : SameSlot(i)
    PROVE  AuthInv'
<1> USE DEF AuthInv
<1>1. TypeOK'
  BY DEF TypeOK, GoodHeap
<1>2. SlotInv' /\ SendInv' /\ EntryInv'
  BY DEF SlotInv, SendInv, EntryInv, GoodHeap, SlotOK
<1>3. MintOK(entries, heap, req)
  BY MintAlike
<1>4. /\ \A r \in Requests : req[r].pc \in {"waiting", "minting"} => req[r].id \in Ids
      /\ \A s \in Scopes : entries[s] # None => entries[s] \in Ids
  BY DEF TypeOK, Request
<1>5. MintOK(entries, heap', req)
  BY <1>3, <1>4 DEF MintOK, SameSlot
<1> QED BY <1>1, <1>2, <1>5, MintAlike

LEMMA ExpireKeeps == ASSUME AuthInv, NEW s \in Scopes, Expire(s) PROVE AuthInv'
<1> DEFINE i == entries[s]
           e == [heap[i] EXCEPT !.usable = FALSE]
<1>1. /\ Holds(s, {"unproven", "proven"})
      /\ heap' = [heap EXCEPT ![i].usable = FALSE]
      /\ challenge' = challenge /\ entries' = entries /\ req' = req
  BY DEF Expire
<1>2. i \in Ids /\ GoodHeap(heap)
  BY <1>1, HeapAlike DEF AuthInv, TypeOK, Holds
<1>3. heap[i] \in Entry /\ SlotOK(heap[i]) /\ heap' = [heap EXCEPT ![i] = e]
  BY <1>1, <1>2 DEF GoodHeap
<1>4. /\ e \in Entry /\ e.state = heap[i].state /\ e.failed = heap[i].failed
      /\ e.header = heap[i].header /\ e.refused = heap[i].refused
  BY <1>3 DEF Entry
<1>5. SlotOK(e)
  BY <1>3, <1>4 DEF SlotOK
<1> HIDE DEF e
<1>6. GoodHeap(heap') /\ \A j \in Ids : SameSlot(j)
  BY <1>2, <1>3, <1>4, <1>5 DEF GoodHeap, SameSlot, Closed
<1> QED BY <1>1, <1>6, ElsewhereKeeps

LEMMA StutterKeeps == ASSUME AuthInv, UNCHANGED vars PROVE AuthInv'
  BY HeapAlike, ElsewhereKeeps DEF AuthInv, vars, SameSlot

-----------------------------------------------------------------------------
LEMMA AuthInvInit == Init => AuthInv
<1> SUFFICES ASSUME Init PROVE AuthInv
  OBVIOUS
<1>1. req \in [Requests -> Request] /\ \A r \in Requests : GoodRequest(req[r])
  BY IdleGood DEF Init, GoodRequest, RequestOK
<1>2. TypeOK
  BY <1>1, BlankGood DEF Init, TypeOK, GoodRequest, RequestOK
<1>3. SlotInv /\ SendInv
  BY <1>1, BlankGood DEF Init, SlotInv, SlotOK, SendInv, GoodRequest, SendsOK
<1>4. EntryInv /\ MintInv
  BY DEF Init, EntryInv, MintInv, Idle, Holds
<1> QED BY <1>2, <1>3, <1>4 DEF AuthInv

LEMMA AuthInvNext == AuthInv /\ [Next]_vars => AuthInv'
<1> SUFFICES ASSUME AuthInv, [Next]_vars PROVE AuthInv'
  OBVIOUS
<1>1. ASSUME NEW r \in Requests, Start(r) PROVE AuthInv'
  BY <1>1, StartKeeps
<1>2. ASSUME NEW r \in Requests, Exchange(r) PROVE AuthInv'
  BY <1>2, AcquiredKeeps, UnauthorizedKeeps, ExchangeFailsKeeps DEF Exchange
<1>3. ASSUME NEW r \in Requests, Wake(r) \/ GiveUp(r) PROVE AuthInv'
  BY <1>3, WakeKeeps, GiveUpKeeps
<1>4. ASSUME NEW r \in Requests, Reply(r) PROVE AuthInv'
  BY <1>4, AnsweredKeeps, RedirectedKeeps, OverKeeps, RefusedKeeps, RefusedAgainKeeps DEF Reply
<1>5. ASSUME NEW s \in Scopes, Expire(s) PROVE AuthInv'
  BY <1>5, ExpireKeeps
<1> QED BY <1>1, <1>2, <1>3, <1>4, <1>5, StutterKeeps DEF Next

THEOREM AuthInvHolds == Spec => []AuthInv
  BY AuthInvInit, AuthInvNext, PTL DEF Spec

\* Every reachable state is of the declared types, and a replay always carries
\* the header it was given (authorize, replayWith).
THEOREM TypeCorrect == Spec => []TypeOK
  BY AuthInvHolds, PTL DEF AuthInv

\* A stampede is held to one exchange per scope, and nobody waits for an
\* exchange that has no owner (beginLocked, wait).
THEOREM OneExchange == Spec => []OneExchangePerScope
<1>1. AuthInv => OneExchangePerScope
  <2> SUFFICES ASSUME AuthInv PROVE OneExchangePerScope
    OBVIOUS
  <2>1. ASSUME NEW s \in Scopes, NEW r \in Minting(s)
        PROVE  entries[s] = req[r].id /\ ~Ready(req[r].id) /\ Minting(s) = {r}
    <3>1. r \in Requests /\ entries[s] = req[r].id /\ ~Ready(req[r].id)
      BY <2>1 DEF Minting, AuthInv, MintInv
    <3>2. \A n \in Minting(s) : n = r
      BY <2>1, <3>1 DEF Minting, AuthInv, MintInv, IsMinting
    <3> QED BY <3>1, <3>2, <2>1
  <2> QED BY <2>1 DEF OneExchangePerScope, AuthInv, MintInv, IsMinting
<1> QED BY <1>1, AuthInvHolds, PTL

\* A scope is condemned only over a credential the endpoint refused or a token
\* of the entry that the registry refused (finishLocked, refused, deny).
THEOREM DenialNames == Spec => []DenialNamesItsCredential
<1>1. AuthInv => DenialNamesItsCredential
  BY DEF AuthInv, TypeOK, SlotInv, DenialNamesItsCredential, Holds, Held
<1> QED BY <1>1, AuthInvHolds, PTL

\* A request that follows no redirect goes out at most twice, and an upload's
\* body once (replayWith).
THEOREM TwoSends == Spec => []AtMostTwoSends
<1>1. AuthInv => AtMostTwoSends
  <2> SUFFICES ASSUME AuthInv, NEW r \in Requests, req[r].kind # "read"
               PROVE  req[r].sends <= 2 /\ (req[r].kind = "upload" => req[r].sends <= 1)
    BY DEF AtMostTwoSends
  <2>1. req[r] \in Request /\ GoodRequest(req[r])
    BY RequestFacts
  <2> QED BY <2>1 DEF GoodRequest, SendsOK, Request
<1> QED BY <1>1, AuthInvHolds, PTL

-----------------------------------------------------------------------------
(* What a step may do to a scope's entry. *)

\* Only three actions touch an entry's place: Start and Refused begin, and
\* ExchangeFails drops what it was minting.
LEMMA EntryMoves ==
    ASSUME AuthInv, [Next]_vars, NEW s \in Scopes, entries'[s] # entries[s], entries[s] # None
    PROVE  \/ heap[entries[s]].state = "acquiring"
           \/ Holds(s, {"unproven", "proven"}) /\ ~Held(s).usable
           \/ \E r \in Requests : /\ Holds(s, {"proven"})
                                  /\ req[r].pc = "sent" /\ req[r].header = Held(s).header
                                  /\ req'[r].pc = "minting"
<1> DEFINE Moved(r) == \/ heap[entries[s]].state = "acquiring"
                       \/ Holds(s, {"unproven", "proven"}) /\ ~Held(s).usable
                       \/ /\ Holds(s, {"proven"})
                          /\ req[r].pc = "sent" /\ req[r].header = Held(s).header
                          /\ req'[r].pc = "minting"
<1>1. ASSUME NEW r \in Requests, Start(r) PROVE Moved(r)
  <2>1. PICK kind \in Kinds :
          /\ \/ entries[ScopeOf(kind)] = None
             \/ Holds(ScopeOf(kind), {"unproven", "proven"}) /\ ~Held(ScopeOf(kind)).usable
          /\ Begin(r, [Idle EXCEPT !.kind = kind], challenge, heap)
    BY <1>1 DEF Start
  <2>2. [Idle EXCEPT !.kind = kind].kind = kind
    BY DEF Idle
  <2>3. ScopeOf(kind) = s
    BY <2>1, <2>2 DEF Begin, AuthInv, TypeOK
  <2> QED BY <2>1, <2>3
<1>2. ASSUME NEW r \in Requests, Exchange(r) PROVE Moved(r)
  <2>1. req[r].pc = "minting" /\ ExchangeFails(r)
    BY <1>2 DEF Exchange, Acquired, Unauthorized, ExchangeFails
  <2>2. ScopeAt(r) \in Scopes /\ entries[ScopeAt(r)] = req[r].id
        /\ heap[req[r].id].state = "acquiring"
    BY <2>1, MinterFacts
  <2>3. ScopeAt(r) = s
    BY <2>1, <2>2 DEF ExchangeFails, AuthInv, TypeOK
  <2> QED BY <2>2, <2>3
<1>3. ASSUME NEW r \in Requests, Reply(r) PROVE Moved(r)
  <2> DEFINE q == [req[r] EXCEPT !.stage = "replay"]
  <2>1. /\ req[r].pc = "sent"
        /\ \/ entries[ScopeAt(r)] = None
           \/ Holds(ScopeAt(r), {"proven"}) /\ ~Replaced(ScopeAt(r), req[r].header)
        /\ Begin(r, q, challenge', Suspect(req[r].header))
    BY <1>3 DEF Reply, Answered, Redirected, Over, Unanswerable, Refused, RefusedAgain
  <2>2. ScopeOf(q.kind) = ScopeAt(r) /\ q \in Request
    BY RequestFacts DEF ScopeAt, Request
  <2>3. ScopeAt(r) = s
    BY <2>1, <2>2 DEF Begin, AuthInv, TypeOK
  <2>4. req'[r].pc = "minting"
    BY <2>1, <2>2 DEF Begin, AuthInv, TypeOK, Request
  <2>5. Holds(s, {"proven"}) /\ Held(s).header = req[r].header
    BY <2>1, <2>3 DEF Replaced, Holds
  <2> QED BY <2>1, <2>4, <2>5
<1>4. ~(\E r \in Requests : Wake(r) \/ GiveUp(r)) /\ ~(\E u \in Scopes : Expire(u))
      /\ ~(UNCHANGED vars)
  BY DEF Wake, GiveUp, Expire, vars
<1> QED BY <1>1, <1>2, <1>3, <1>4 DEF Next

\* No exchange replaces a token that works: it has expired, or a request that
\* carried it was refused (usableLocked, refused).
THEOREM Justified == Spec => ExchangeIsJustified
<1> DEFINE Step == \A s \in Scopes :
             Holds(s, {"unproven", "proven"}) /\ entries'[s] # entries[s] =>
               \/ ~Held(s).usable
               \/ \E r \in Requests : req[r].pc = "sent" /\ req[r].header = Held(s).header
                                      /\ req'[r].pc = "minting"
<1>1. AuthInv /\ [Next]_vars => Step
  <2> SUFFICES ASSUME AuthInv, [Next]_vars, NEW s \in Scopes,
                      Holds(s, {"unproven", "proven"}), entries'[s] # entries[s]
               PROVE  \/ ~Held(s).usable
                      \/ \E r \in Requests :
                            req[r].pc = "sent" /\ req[r].header = Held(s).header
                            /\ req'[r].pc = "minting"
    OBVIOUS
  <2>1. entries[s] # None /\ heap[entries[s]].state # "acquiring"
    BY DEF Holds
  <2> QED BY <2>1, EntryMoves
<1> QED BY <1>1, AuthInvHolds, PTL DEF Spec, ExchangeIsJustified

\* A request keeps its kind for as long as it is not idle, and only Begin makes
\* it mint.
Drains(r, s) == req'[r].pc # "idle" /\ ScopeOf(req'[r].kind) = s =>
                   req[r].pc # "idle" /\ ScopeAt(r) = s /\ req'[r].pc # "minting"

LEMMA DeniedFacts ==
    ASSUME AuthInv, NEW s \in Scopes, Holds(s, {"denied"})
    PROVE  /\ entries[s] \in Ids /\ challenge # None /\ Minting(s) = {}
           /\ heap[entries[s]].state = "denied" /\ heap[entries[s]].failed
<1>1. entries[s] \in Ids /\ challenge # None
  BY DEF AuthInv, TypeOK, EntryInv, Holds
<1>2. heap[entries[s]].state = "denied" /\ heap[entries[s]].failed
  BY <1>1 DEF AuthInv, SlotInv, Holds
<1>3. \A r \in Requests : req[r].pc = "minting" => ScopeAt(r) # s
  BY <1>2, MinterFacts
<1> QED BY <1>1, <1>2, <1>3 DEF Minting

LEMMA StepDrains ==
    ASSUME AuthInv, NEW s \in Scopes, Holds(s, {"denied"}),
           NEW r \in Requests,
           Start(r) \/ Exchange(r) \/ Wake(r) \/ GiveUp(r) \/ Reply(r)
    PROVE  Drains(r, s) /\ \A m \in Requests \ {r} : req'[m] = req[m]
<1>0. /\ req[r] \in Request
      /\ Ends(r) => Drains(r, s) /\ \A m \in Requests \ {r} : req'[m] = req[m]
  BY RequestFacts, EndsGood DEF AuthInv, TypeOK, Ends, Drains, Idle
<1>p. ASSUME NEW q \in Request, Pending(q), NEW h \in Tokens \cup {None},
             q.stage = "replay" => h # None, Present(r, q, h),
             ScopeOf(q.kind) = s => req[r].pc # "idle" /\ ScopeAt(r) = s
      PROVE  Drains(r, s) /\ \A m \in Requests \ {r} : req'[m] = req[m]
  <2>1. /\ req' = [req EXCEPT ![r] = req'[r]]
        /\ req'[r].pc \in {"idle", "sent"}
        /\ req'[r].pc = "sent" => req'[r].kind = q.kind
    BY <1>p, PresentGood DEF AuthInv
  <2> QED BY <2>1, <1>p DEF Drains, AuthInv, TypeOK
<1>1. CASE Start(r)
  <2>1. PICK kind \in Kinds :
          LET q == [Idle EXCEPT !.kind = kind]
              u == ScopeOf(kind)
          IN  \/ /\ Holds(u, {"acquiring"}) /\ Await(r, q)
              \/ req' = req
              \/ Holds(u, {"unproven", "proven"}) /\ Present(r, q, Held(u).header)
              \/ /\ entries[u] = None \/ Holds(u, {"unproven", "proven"})
                 /\ Begin(r, q, challenge, heap)
    BY <1>1, DeniedFacts DEF Start
  <2> DEFINE q == [Idle EXCEPT !.kind = kind]
  <2>2. q \in Request /\ q.kind = kind /\ q.stage = "first" /\ Pending(q)
    BY AuthAssumption DEF AuthAssumption, Idle, Request, Pending, AllKinds
  <2>3. CASE req' = req
    BY <2>3, DeniedFacts DEF Drains, Minting, ScopeAt
  <2>4. CASE ScopeOf(kind) # s /\ Await(r, q)
    BY <2>2, <2>4 DEF Await, Drains, AuthInv, TypeOK, Request
  <2>5. CASE /\ ScopeOf(kind) # s /\ Holds(ScopeOf(kind), {"unproven", "proven"})
             /\ Present(r, q, Held(ScopeOf(kind)).header)
    <3>1. Held(ScopeOf(kind)).header \in Tokens \cup {None}
      BY <2>5 DEF Holds, Held, AuthInv, TypeOK, Entry, ScopeOf, Scopes
    <3> QED BY <3>1, <2>2, <2>5, <1>p
  <2>6. CASE ScopeOf(kind) # s /\ Begin(r, q, challenge, heap)
    BY <2>2, <2>6 DEF Begin, Drains, AuthInv, TypeOK, Request
  <2> QED BY <2>1, <2>3, <2>4, <2>5, <2>6, DeniedFacts DEF Holds
<1>2. CASE Exchange(r) \/ Wake(r) \/ GiveUp(r)
  <2>1. CASE Ends(r)
    BY <2>1, <1>0
  <2>2. CASE Acquired(r)
    <3>1. req[r].pc = "minting"
      BY <2>2 DEF Acquired
    <3>2. PICK t \in Tokens : Present(r, req[r], t)
      BY <2>2 DEF Acquired, Answers, Tokens
    <3>3. t # None
      BY AuthAssumption DEF AuthAssumption
    <3> QED BY <3>1, <3>2, <3>3, <1>p, MintingPends DEF ScopeAt
  <2>3. CASE /\ Wake(r) /\ ~heap[req[r].id].failed
             /\ Present(r, req[r], heap[req[r].id].header)
    <3>1. req[r].pc = "waiting" /\ Ready(req[r].id)
      BY <2>3 DEF Wake
    <3>2. req[r].id \in Ids
      BY <3>1, RequestFacts, AuthAssumption DEF GoodRequest, RequestOK, Request
    <3>3. heap[req[r].id] \in Entry /\ SlotOK(heap[req[r].id])
      BY <3>2, RequestFacts DEF GoodHeap
    <3>4. heap[req[r].id].header \in Tokens \cup {None} /\ heap[req[r].id].header # None
      BY <3>1, <3>3, <2>3 DEF Ready, SlotOK, Entry
    <3> QED BY <3>1, <3>4, <2>3, <1>p, MintingPends DEF ScopeAt
  <2> QED BY <1>2, <2>1, <2>2, <2>3 DEF Exchange, Unauthorized, ExchangeFails, Wake, GiveUp
<1>3. CASE Reply(r)
  <2> DEFINE q == [req[r] EXCEPT !.stage = "replay"]
             u == ScopeAt(r)
  <2>1. CASE Ends(r)
    BY <2>1, <1>0
  <2>2. CASE Redirected(r)
    BY <2>2, <1>0 DEF Redirected, Drains, ScopeAt, AuthInv, TypeOK, Request
  <2>3. CASE Refused(r) /\ ~Ends(r)
    <3>1. /\ req[r].pc = "sent" /\ req[r].stage \in {"first", "chain"}
          /\ \/ Await(r, q)
             \/ Replaced(u, req[r].header) /\ Present(r, q, Held(u).header)
             \/ /\ entries[u] = None \/ Holds(u, {"proven"})
                /\ Begin(r, q, challenge', Suspect(req[r].header))
      BY <2>3 DEF Refused
    <3>2. q \in Request /\ Pending(q) /\ q.kind = req[r].kind /\ ScopeOf(q.kind) = u
      BY <3>1, ReplayPends, <1>0 DEF Request
    <3>3. CASE Await(r, q)
      BY <3>1, <3>2, <3>3 DEF Await, Drains, AuthInv, TypeOK, Request
    <3>4. CASE Replaced(u, req[r].header) /\ Present(r, q, Held(u).header)
      <4>1. entries[u] \in Ids
        BY <3>4, RequestFacts DEF Replaced, Holds, AuthInv, TypeOK
      <4>2. heap[entries[u]] \in Entry /\ SlotOK(heap[entries[u]])
        BY <4>1, RequestFacts DEF GoodHeap
      <4>3. Held(u).header \in Tokens \cup {None} /\ Held(u).header # None
        BY <4>2, <3>4 DEF Replaced, Holds, Held, SlotOK, Entry
      <4> QED BY <3>1, <3>2, <3>4, <4>3, <1>p
    <3>5. CASE /\ entries[u] = None \/ Holds(u, {"proven"})
               /\ Begin(r, q, challenge', Suspect(req[r].header))
      <4>1. u # s
        BY <3>5 DEF Holds
      <4> QED BY <4>1, <3>2, <3>5 DEF Begin, Drains, AuthInv, TypeOK, Request
    <3> QED BY <3>1, <3>3, <3>4, <3>5
  <2> QED BY <1>3, <2>1, <2>2, <2>3 DEF Reply, Answered, Over, Unanswerable, RefusedAgain
<1> QED BY <1>1, <1>2, <1>3

LEMMA DenialStays ==
    ASSUME AuthInv, [Next]_vars, NEW s \in Scopes, Holds(s, {"denied"})
    PROVE  entries'[s] = entries[s] /\ heap'[entries[s]].state = "denied"
<1> DEFINE i == entries[s]
<1>1. /\ i \in Ids /\ i # None /\ GoodHeap(heap)
      /\ heap[i].state = "denied" /\ heap[i] \in Entry
  BY DeniedFacts, HeapAlike DEF GoodHeap, AuthInv, Holds
<1>2. entries'[s] = i
  BY <1>1, EntryMoves DEF Holds
<1>3. Pointed(entries', req', i)
  BY <1>2 DEF Pointed
<1>4. ASSUME NEW h, HeapBecomes(h), h[i].state = "denied" PROVE heap'[i].state = "denied"
  <2>1. heap' = [k \in Ids |-> IF Pointed(entries', req', k) THEN h[k] ELSE Blank]
    BY <1>4 DEF HeapBecomes, Reachable, Pointed
  <2> QED BY <2>1, <1>1, <1>3, <1>4
<1>5. \A t : /\ Suspect(t)[i].state = "denied" /\ Suspect(t) \in [Ids -> Entry]
             /\ Proven(t)[i].state = "denied"
  BY <1>1, SuspectGood, ProvenGood DEF GoodHeap
<1>6. ASSUME NEW r, NEW q, NEW asked, NEW old, old \in [Ids -> Entry],
             old[i].state = "denied", Begin(r, q, asked, old)
      PROVE  heap'[i].state = "denied"
  <2>1. PICK j \in Unused : HeapBecomes([old EXCEPT ![j] = Blank])
    BY <1>6 DEF Begin
  <2>2. j \in Ids /\ j # i
    BY DEF Unused, Reachable
  <2>3. [old EXCEPT ![j] = Blank][i].state = "denied"
    BY <1>1, <1>6, <2>2
  <2> QED BY <2>1, <2>3, <1>4
<1>7. ASSUME NEW r \in Requests, Start(r) PROVE heap'[i].state = "denied"
  BY <1>1, <1>6, <1>7 DEF Start, GoodHeap
<1>8. ASSUME NEW r \in Requests, Exchange(r) PROVE heap'[i].state = "denied"
  <2>1. req[r].id # i
    BY <1>1, <1>8, MinterFacts DEF Exchange, Acquired, Unauthorized, ExchangeFails
  <2>2. ASSUME NEW e PROVE [heap EXCEPT ![req[r].id] = e][i] = heap[i]
    BY <1>1, <2>1 DEF GoodHeap
  <2>3. \E e : HeapBecomes([heap EXCEPT ![req[r].id] = e])
    BY <1>8, Zenon DEF Exchange, Acquired, Unauthorized, ExchangeFails
  <2> QED BY <2>2, <2>3, <1>1, <1>4
<1>9. ASSUME NEW r \in Requests, Wake(r) \/ GiveUp(r) PROVE heap'[i].state = "denied"
  BY <1>1, <1>4, <1>9 DEF Wake, GiveUp
<1>10. ASSUME NEW u \in Scopes, NEW t, Condemn(u, t) PROVE heap'[i].state = "denied"
  <2>1. Suspect(t) \in [Ids -> Entry] /\ Suspect(t)[i].state = "denied"
    BY <1>5
  <2> QED BY <1>1, <1>10, <2>1 DEF Condemn
<1>11. ASSUME NEW r \in Requests, Reply(r) PROVE heap'[i].state = "denied"
  <2>1. ScopeAt(r) \in Scopes
    BY DEF ScopeAt, ScopeOf, Scopes
  <2>2. CASE \E t : heap' = Proven(t) \/ heap' = Suspect(t)
    BY <2>2, <1>5
  <2>3. CASE Condemn(ScopeAt(r), req[r].header)
    BY <2>1, <2>3, <1>10
  <2>4. CASE Refused(r) /\ \E q : Begin(r, q, challenge', Suspect(req[r].header))
    BY <2>4, <1>5, <1>6
  <2>5. CASE heap' = heap
    BY <2>5, <1>1
  <2> QED BY <1>11, <2>2, <2>3, <2>4, <2>5
          DEF Reply, Answered, Redirected, Over, Unanswerable, Refused, RefusedAgain
<1>12. ASSUME NEW u \in Scopes, Expire(u) PROVE heap'[i].state = "denied"
  <2>1. entries[u] \in Ids
    BY <1>12 DEF Expire, Holds, AuthInv, TypeOK
  <2> QED BY <1>1, <1>12, <2>1 DEF Expire, GoodHeap
<1>13. CASE UNCHANGED vars
  BY <1>1, <1>13 DEF vars
<1> QED BY <1>2, <1>7, <1>8, <1>9, <1>11, <1>12, <1>13 DEF Next

LEMMA EveryoneDrains ==
    ASSUME AuthInv, [Next]_vars, NEW s \in Scopes, Holds(s, {"denied"}), NEW m \in Requests
    PROVE  Drains(m, s)
<1>1. ASSUME req'[m] = req[m] PROVE Drains(m, s)
  BY <1>1, DeniedFacts DEF Drains, Minting, ScopeAt
<1>2. CASE \E r \in Requests : Start(r) \/ Exchange(r) \/ Wake(r) \/ GiveUp(r) \/ Reply(r)
  BY <1>1, <1>2, StepDrains
<1>3. CASE (\E u \in Scopes : Expire(u)) \/ UNCHANGED vars
  BY <1>1, <1>3 DEF Expire, vars
<1> QED BY <1>2, <1>3 DEF Next

\* Denial absorbs: the entry stays, stays denied, no exchange begins for the
\* scope and no request of it starts (stateDenied, authorize, refused).
THEOREM Absorbs == Spec => DenialAbsorbs
<1> DEFINE Step == \A s \in Scopes : Holds(s, {"denied"}) =>
               /\ entries'[s] = entries[s] /\ heap'[entries[s]].state = "denied"
               /\ Busy(s)' \subseteq Busy(s)
               /\ Minting(s)' = {}
<1>1. AuthInv /\ [Next]_vars => Step
  <2> SUFFICES ASSUME AuthInv, [Next]_vars, NEW s \in Scopes, Holds(s, {"denied"})
               PROVE  /\ entries'[s] = entries[s] /\ heap'[entries[s]].state = "denied"
                      /\ Busy(s)' \subseteq Busy(s)
                      /\ Minting(s)' = {}
    OBVIOUS
  <2>1. \A m \in Requests : Drains(m, s)
    BY EveryoneDrains
  <2>2. Busy(s)' \subseteq Busy(s) /\ Minting(s)' = {}
    BY <2>1 DEF Busy, Minting, Drains, ScopeAt
  <2> QED BY <2>2, DenialStays
<1> QED BY <1>1, AuthInvHolds, PTL DEF Spec, DenialAbsorbs
=============================================================================
