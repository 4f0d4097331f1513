-------------------------- MODULE AunHostImmProofs --------------------------
(***************************************************************************)
(* For any number of originators, immediates, INITs and reaps: replies of  *)
(* the host are never mis-routed (RoutedInv, the generation guard of       *)
(* aun_himm_reply); and when the reply cache outlives the originator's     *)
(* retries, a lone originator's immediate runs once and one that was       *)
(* reaped stays refused (OnceInv: what is settled is held or in the cache  *)
(* for as long as its originator may repeat it).                           *)
(***************************************************************************)
EXTENDS AunHostImm, FiniteSetTheorems, TLAPS

\* What the host runs is what is held, as long as the generation it polled is
\* the one held; a request is held only if it is one; and the cache keeps
\* positive outcomes with the request they are of.
RoutedInv ==
  /\ himm.gen \in Nat /\ himm.polled \in Nat /\ himm.polled <= himm.gen
  /\ himm.active /\ himm.polled = himm.gen /\ host # NoReq => host = himm.req
  /\ ~cache.nak => cache.of = cache.req
  /\ ReplyRouted

\* The fields that RoutedInv reads are there.
Shape ==
  /\ himm \in [active : BOOLEAN, req : Reqs \cup {NoReq}, left : Nat,
               gen : Nat, polled : Nat]
  /\ cache \in [req : Reqs \cup {NoReq}, nak : BOOLEAN, of : Reqs \cup {NoReq},
                left : Nat]
  /\ wire \subseteq Reqs /\ host \in Reqs \cup {NoReq}
  /\ peer \in [Peers -> [seq : Nat \ {0}, kind : Kinds, left : Nat]]

\* The engine starts with nothing held and nothing cached (aun_init).
LEMMA ShapeInit == Init => Shape
  BY AunHostImmAssumption DEF Init, Shape, NoHimm, NoCache

\* aun_udp_input fills the held slot under a new generation.
LEMMA HoldShape ==
  ASSUME Shape, NEW r \in Reqs, Hold(r)
  PROVE  himm' \in [active : BOOLEAN, req : Reqs \cup {NoReq}, left : Nat,
                    gen : Nat, polled : Nat]
<1>1. himm.gen + 1 \in Nat /\ HimmTimeout \in Nat
  BY AunHostImmAssumption DEF Shape
<1>2. QED
  BY <1>1, Zenon DEF Shape, Hold

\* No handler leaves a field of the held slot or the cache out of range.
LEMMA ShapeStep == Shape /\ [Next]_vars => Shape'
<1> SUFFICES ASSUME Shape, [Next]_vars PROVE Shape'
  OBVIOUS
<1> USE AunHostImmAssumption
<1>1. ASSUME NEW p \in Peers, PeerSend(p) PROVE Shape'
  <2>1. Current(p) \in Reqs
    BY <1>1 DEF PeerSend, Current, Reqs, Shape
  <2>2. QED
    BY <1>1, <2>1 DEF PeerSend, Shape
<1>2. ASSUME NEW p \in Peers, PeerNext(p) PROVE Shape'
  BY <1>2 DEF PeerNext, Shape
<1>3. ASSUME NEW r \in wire, NEW valid \in BOOLEAN, aun_udp_input(r, valid)
      PROVE  Shape'
  <2>1. r \in Reqs
    BY DEF Shape
  <2>2. CASE UNCHANGED himm
    BY <1>3, <2>2 DEF aun_udp_input, Shape
  <2>3. CASE Hold(r)
    BY <1>3, <2>1, <2>3, HoldShape DEF aun_udp_input, Shape
  <2>4. QED
    BY <1>3, <2>2, <2>3 DEF aun_udp_input, rx_imm4_data, RxImmediate, Replay
<1>4. CASE aun_poll
  BY <1>4 DEF aun_poll, himm_cache_store, Shape
<1>5. CASE ImmPoll
  BY <1>5 DEF ImmPoll, Shape
<1>6. CASE ImmReply
  <2>1. CASE ReplyWanted
    <3>1. himm' = [himm EXCEPT !.active = FALSE] /\ host' = NoReq
          /\ UNCHANGED <<wire, peer>>
      BY <1>6, <2>1 DEF ImmReply
    <3>2. cache' = [req |-> himm.req, nak |-> FALSE, of |-> host, left |-> CacheTtl]
      BY <1>6, <2>1 DEF ImmReply, himm_cache_store
    <3>3. QED
      BY <3>1, <3>2 DEF Shape
  <2>2. CASE ~ReplyWanted
    BY <1>6, <2>2 DEF ImmReply, Shape
  <2>3. QED
    BY <2>1, <2>2
<1>7. CASE HostForgets
  BY <1>7 DEF HostForgets, Shape
<1>8. ASSUME NEW on \in BOOLEAN, aun_set_host_imm(on) PROVE Shape'
  BY <1>8 DEF aun_set_host_imm, NoHimm, NoCache, Shape
<1>9. CASE Tick
  <2> DEFINE dec(n) == IF n = 0 THEN 0 ELSE n - 1
  <2>1. \A n \in Nat : dec(n) \in Nat
    OBVIOUS
  <2>2. /\ himm' = [himm EXCEPT !.left = dec(@)]
        /\ cache' = [cache EXCEPT !.left = dec(@)]
        /\ peer' = [p \in Peers |-> [peer[p] EXCEPT !.left = dec(@)]]
        /\ wire' \subseteq wire /\ host' = host
    BY <1>9 DEF Tick
  <2> HIDE DEF dec
  <2>3. himm' \in [active : BOOLEAN, req : Reqs \cup {NoReq}, left : Nat,
                   gen : Nat, polled : Nat]
    BY <2>1, <2>2 DEF Shape
  <2>4. cache' \in [req : Reqs \cup {NoReq}, nak : BOOLEAN,
                    of : Reqs \cup {NoReq}, left : Nat]
    BY <2>1, <2>2 DEF Shape
  <2>5. peer' \in [Peers -> [seq : Nat \ {0}, kind : Kinds, left : Nat]]
    BY <2>1, <2>2 DEF Shape
  <2>6. QED
    BY <2>2, <2>3, <2>4, <2>5 DEF Shape
<1>10. CASE UNCHANGED vars
  BY <1>10 DEF vars, Shape
<1>11. QED
  BY <1>1, <1>2, <1>3, <1>4, <1>5, <1>6, <1>7, <1>8, <1>9, <1>10 DEF Next

\* Every handler keeps what the host runs and what is held together.
LEMMA RoutedStep ==
  ASSUME Shape, RoutedInv, [Next]_vars
  PROVE  RoutedInv'
<1>1. ASSUME NEW p \in Peers, PeerSend(p) \/ PeerNext(p) PROVE RoutedInv'
  BY <1>1 DEF PeerSend, PeerNext, RoutedInv, ReplyRouted
<1>2. ASSUME NEW r \in wire, NEW valid \in BOOLEAN, aun_udp_input(r, valid)
      PROVE  RoutedInv'
  <2>0. UNCHANGED <<cache, host>>
    BY <1>2 DEF aun_udp_input
  <2>1. CASE Hold(r)
    <3>1. himm'.gen = himm.gen + 1 /\ himm'.polled = himm.polled
      BY <2>1 DEF Hold, Shape
    <3>2. UNCHANGED answers
      BY <2>1 DEF Hold
    <3>3. himm'.gen \in Nat /\ himm'.polled \in Nat /\ himm'.polled < himm'.gen
      BY <3>1 DEF RoutedInv
    <3>4. QED
      BY <2>0, <3>2, <3>3 DEF RoutedInv, ReplyRouted
  <2>2. CASE UNCHANGED himm /\ (UNCHANGED answers \/ Answer(r, NoReq, FALSE))
    BY <2>0, <2>2 DEF Answer, RoutedInv, ReplyRouted
  <2>3. CASE Cached(r) /\ Replay(r)
    <3> DEFINE b == [req |-> r, of |-> cache.of, yes |-> ~cache.nak]
    <3>1. UNCHANGED himm /\ answers' = answers \cup {b}
      BY <2>3 DEF Replay, Answer
    <3>2. b.yes => b.of = b.req
      BY <2>3, Zenon DEF Cached, RoutedInv
    <3> HIDE DEF b
    <3>3. ReplyRouted'
      BY <3>1, <3>2 DEF RoutedInv, ReplyRouted
    <3>4. QED
      BY <2>0, <3>1, <3>3 DEF RoutedInv
  <2>4. QED
    BY <1>2, <2>1, <2>2, <2>3 DEF aun_udp_input, rx_imm4_data, RxImmediate
<1>3. CASE aun_poll
  BY <1>3 DEF aun_poll, Answer, himm_cache_store, RoutedInv, ReplyRouted, Shape
<1>4. CASE ImmPoll
  BY <1>4 DEF ImmPoll, RoutedInv, ReplyRouted, Shape
<1>5. CASE ImmReply
  <2>1. CASE ReplyWanted
    <3>1. host = himm.req
      BY <1>5, <2>1 DEF ImmReply, ReplyWanted, RoutedInv
    <3>2. QED
      BY <1>5, <2>1, <3>1
         DEF ImmReply, Answer, himm_cache_store, RoutedInv, ReplyRouted, Shape
  <2>2. CASE ~ReplyWanted
    BY <1>5, <2>2 DEF ImmReply, RoutedInv, ReplyRouted
  <2>3. QED
    BY <2>1, <2>2
<1>6. CASE HostForgets
  BY <1>6 DEF HostForgets, RoutedInv, ReplyRouted
<1>7. ASSUME NEW on \in BOOLEAN, aun_set_host_imm(on) PROVE RoutedInv'
  BY <1>7 DEF aun_set_host_imm, NoHimm, NoCache, RoutedInv, ReplyRouted
<1>8. CASE Tick
  BY <1>8 DEF Tick, RoutedInv, ReplyRouted, Shape
<1>9. CASE UNCHANGED vars
  BY <1>9 DEF vars, RoutedInv, ReplyRouted
<1>10. QED
  BY <1>1, <1>2, <1>3, <1>4, <1>5, <1>6, <1>7, <1>8, <1>9 DEF Next

\* A positive answer carries the outcome of the request it answers, also when
\* the host replies after a reap and a refill (aun_himm_reply), for any number
\* of originators and generations.
THEOREM RoutedCorrect == Spec => []ReplyRouted
<1>1. Init => RoutedInv
  BY DEF Init, NoHimm, NoCache, RoutedInv, ReplyRouted
<1>2. Shape /\ RoutedInv /\ [Next]_vars => RoutedInv'
  BY RoutedStep
<1>3. RoutedInv => ReplyRouted
  BY DEF RoutedInv
<1>4. QED
  BY <1>1, <1>2, <1>3, ShapeInit, ShapeStep, PTL DEF Spec

-----------------------------------------------------------------------------
(* Retransmissions.  The replay cache outlives the retransmit window       *)
(* (CacheTtl >= Window), so a request that was settled and may still       *)
(* arrive is held or in the cache, as long as all that was settled came    *)
(* from one originator.                                                    *)

\* A request the engine has had: settled, or held now.
Had(r) == r \in Settled \/ (himm.active /\ r = himm.req)

\* Alone, without cardinalities.
OnePeer == inits = 0 /\ \A r, s \in Settled : r.peer = s.peer

\* What arrives is the current immediate of its peer, within its window.
WireInv == \A r \in wire : r = Current(r.peer) /\ peer[r.peer].left > 0

\* Request r is the current immediate of its peer or an older one.
Older(r) == r.seq <= peer[r.peer].seq /\ (r.seq = peer[r.peer].seq => r = Current(r.peer))

\* What the engine has had is the current immediate of its peer or an older
\* one, and what it holds is no older than what it settled for that peer.
HadInv ==
  /\ himm.active => himm.req \in Reqs
  /\ \A r \in Reqs : Had(r) => Older(r)
  /\ himm.active => \A r \in Settled : r.peer = himm.req.peer => r.seq <= himm.req.seq
  /\ himm.active /\ himm.polled = himm.gen => runs[himm.req] > 0

\* A settled request that may arrive again is the one held, or its outcome
\* stays in the cache for as long as it may arrive.
Remembered ==
  \A r \in Settled : r = Current(r.peer) =>
     \/ himm.active /\ himm.req = r
     \/ cache.req = r /\ cache.left >= peer[r.peer].left

\* What is held was not reaped, nor run unless the host polled it.
HeldNew ==
  himm.active => /\ himm.req \notin reaped
                 /\ himm.polled # himm.gen => runs[himm.req] = 0

\* The counts and the requests that OnceInv speaks of.
Counts ==
  /\ inits \in Nat /\ runs \in [Reqs -> Nat] /\ reaped \subseteq Reqs
  /\ \A p \in Peers : peer[p].left <= Window

\* The inductive invariant.
OnceInv ==
  /\ Counts /\ WireInv /\ HadInv
  /\ OnePeer => Remembered /\ HeldNew /\ \A r \in Reqs : runs[r] <= 1

\* The requests are records with a peer and a number; NoReq is none of them.
LEMMA ReqFields ==
  /\ \A r \in Reqs : r.peer \in Peers /\ r.seq \in Nat
  /\ Settled \subseteq Reqs \/ ~(reaped \subseteq Reqs)
  BY AunHostImmAssumption DEF Reqs, Settled

\* At most one peer settled something: what the cardinality in Alone says.
LEMMA AloneOnePeer == ASSUME reaped \subseteq Reqs, Alone PROVE OnePeer
<1> DEFINE P == {r.peer : r \in Settled}
<1>1. P \in SUBSET Peers
  BY ReqFields
<1>2. IsFiniteSet(P) /\ Cardinality(P) \in Nat /\ Cardinality(P) <= 1
  BY <1>1, FS_Subset, FS_CardinalityType, AunHostImmAssumption DEF Alone
<1>3. Cardinality(P) = 0 \/ Cardinality(P) = 1
  BY <1>2
<1>4. \A a, b \in P : a = b
  <2> HIDE DEF P
  <2>1. P = {} \/ \E a : P = {a}
    BY <1>2, <1>3, FS_EmptySet, FS_Singleton, Zenon
  <2>2. QED
    BY <2>1, Zenon
<1>5. QED
  BY <1>4 DEF OnePeer, Alone

\* A peer sends or retransmits its current immediate.
LEMMA PeerSendOnce ==
  ASSUME Shape, OnceInv, NEW p \in Peers, PeerSend(p) PROVE OnceInv'
<1>1. UNCHANGED <<enabled, himm, cache, host, peer, answers, runs, reaped, inits>>
  BY DEF PeerSend
<1>2. WireInv'
  BY DEF PeerSend, OnceInv, WireInv, Current, Shape
<1>3. QED
  BY <1>1, <1>2, Zenon
     DEF OnceInv, Counts, HadInv, Older, Had, Settled, OnePeer, Remembered, HeldNew, Current

\* What is older stays so as long as the peers do nothing.
LEMMA OlderSame == ASSUME UNCHANGED peer PROVE \A r : Older(r)' <=> Older(r)
  BY Zenon DEF Older, Current

\* A peer goes on to its next immediate: what the engine has had of it is older.
LEMMA PeerNextOnce ==
  ASSUME Shape, OnceInv, NEW p \in Peers, PeerNext(p) PROVE OnceInv'
<1>1. UNCHANGED <<himm, cache, runs, reaped, inits>> /\ wire' = wire \ {Current(p)}
  BY DEF PeerNext
<1>2. /\ peer'[p].seq = peer[p].seq + 1 /\ peer'[p].left = Window /\ peer[p].seq \in Nat
      /\ \A q \in Peers : q # p => peer'[q] = peer[q] /\ Current(q)' = Current(q)
  BY DEF PeerNext, Shape, Current
<1>3. Settled' = Settled /\ \A r : Had(r)' <=> Had(r)
  BY <1>1, Zenon DEF Settled, Had
<1>4. ASSUME NEW r \in Reqs, Had(r), r.peer = p PROVE r.seq < peer'[p].seq
  <2>1. Older(r)
    BY <1>4, Zenon DEF OnceInv, HadInv
  <2>2. QED
    BY <1>2, <1>4, <2>1, ReqFields DEF Older
<1>5. \A r \in Reqs : r.peer # p => peer'[r.peer] = peer[r.peer]
        /\ Current(r.peer)' = Current(r.peer)
  BY <1>2, ReqFields, Zenon
<1>6. WireInv'
  BY <1>1, <1>5, Zenon DEF OnceInv, WireInv, Shape
<1>7. Counts'
  BY <1>1, <1>2, AunHostImmAssumption DEF OnceInv, Counts
<1>8. HadInv'
  <2>1. ASSUME NEW r \in Reqs, Had(r) PROVE Older(r)'
    <3>1. CASE r.peer = p
      BY <1>2, <1>4, <2>1, <3>1, ReqFields DEF Older
    <3>2. CASE r.peer # p
      <4>1. Older(r)
        BY <2>1, Zenon DEF OnceInv, HadInv
      <4>2. QED
        BY <1>5, <3>2, <4>1 DEF Older
    <3>3. QED
      BY <3>1, <3>2
  <2>2. QED
    BY <1>1, <1>3, <2>1, Zenon DEF OnceInv, HadInv
<1>9. ASSUME OnePeer PROVE Remembered'
  <2> SUFFICES ASSUME NEW r \in Settled, r = Current(r.peer)'
               PROVE  \/ himm.active /\ himm.req = r
                      \/ cache.req = r /\ cache.left >= peer'[r.peer].left
    BY <1>1, <1>3, Zenon DEF Remembered
  <2>1. r \in Reqs /\ Had(r)
    BY ReqFields DEF OnceInv, Counts, Had
  <2>2. CASE r.peer = p
    <3>1. r.seq = peer'[p].seq
      BY <2>2 DEF Current
    <3>2. QED
      BY <1>2, <1>4, <2>1, <2>2, <3>1, ReqFields
  <2>3. CASE r.peer # p
    BY <1>5, <1>9, <2>1, <2>3, Zenon DEF OnceInv, Remembered
  <2>4. QED
    BY <2>2, <2>3
<1>10. QED
  BY <1>1, <1>3, <1>6, <1>7, <1>8, <1>9, Zenon DEF OnceInv, OnePeer, HeldNew

\* Time passes for the cache and for the peers alike.
LEMMA TickOnce == ASSUME Shape, OnceInv, Tick PROVE OnceInv'
<1> DEFINE dec(n) == IF n = 0 THEN 0 ELSE n - 1
<1>1. /\ himm' = [himm EXCEPT !.left = dec(@)] /\ cache' = [cache EXCEPT !.left = dec(@)]
      /\ peer' = [q \in Peers |-> [peer[q] EXCEPT !.left = dec(@)]]
      /\ wire' = {r \in wire : peer'[r.peer].left > 0}
      /\ UNCHANGED <<runs, reaped, inits>>
  BY DEF Tick
<1>2. \A m, n \in Nat : dec(n) \in Nat /\ dec(n) <= n /\ (m >= n => dec(m) >= dec(n))
  OBVIOUS
<1> HIDE DEF dec
<1>3. /\ himm'.active = himm.active /\ himm'.req = himm.req
      /\ himm'.gen = himm.gen /\ himm'.polled = himm.polled
      /\ cache'.req = cache.req /\ cache'.left = dec(cache.left) /\ cache.left \in Nat
  BY <1>1 DEF Shape
<1>4. \A q \in Peers : /\ peer'[q].left = dec(peer[q].left) /\ peer[q].left \in Nat
                        /\ peer'[q].seq = peer[q].seq /\ peer'[q].kind = peer[q].kind
  BY <1>1 DEF Shape
<1>5. \A r \in Reqs : /\ peer'[r.peer].left = dec(peer[r.peer].left) /\ peer[r.peer].left \in Nat
                       /\ peer'[r.peer].seq = peer[r.peer].seq /\ Current(r.peer)' = Current(r.peer)
  BY <1>4, ReqFields, Zenon DEF Current
<1>6. Settled' = Settled /\ \A r : Had(r)' <=> Had(r)
  BY <1>1, <1>3, Zenon DEF Settled, Had
<1>7. WireInv'
  BY <1>1, <1>5, Zenon DEF OnceInv, WireInv, Shape
<1>8. Counts'
  <2>1. ASSUME NEW q \in Peers PROVE peer'[q].left <= Window
    <3>1. peer[q].left <= Window /\ dec(peer[q].left) <= peer[q].left /\ dec(peer[q].left) \in Nat
      BY <1>2, <1>4, Zenon DEF OnceInv, Counts
    <3>2. QED
      BY <1>4, <3>1, AunHostImmAssumption
  <2>2. QED
    BY <1>1, <2>1, Zenon DEF OnceInv, Counts
<1>9. HadInv'
  <2>1. \A r \in Reqs : Older(r) => Older(r)'
    BY <1>5, Zenon DEF Older
  <2>2. QED
    BY <1>1, <1>3, <1>6, <2>1, Zenon DEF OnceInv, HadInv
<1>10. ASSUME OnePeer PROVE Remembered'
  <2> SUFFICES ASSUME NEW r \in Settled, r = Current(r.peer)'
               PROVE  \/ himm'.active /\ himm'.req = r
                      \/ cache'.req = r /\ cache'.left >= peer'[r.peer].left
    BY <1>6, Zenon DEF Remembered
  <2>1. r \in Reqs
    BY ReqFields DEF OnceInv, Counts
  <2>2. \/ himm.active /\ himm.req = r
        \/ cache.req = r /\ cache.left >= peer[r.peer].left
    BY <1>5, <1>10, <2>1, Zenon DEF OnceInv, Remembered
  <2>3. cache.left >= peer[r.peer].left => cache'.left >= peer'[r.peer].left
    BY <1>2, <1>3, <1>5, <2>1
  <2>4. QED
    BY <1>3, <2>2, <2>3, Zenon
<1>11. (OnePeer' => OnePeer) /\ (HeldNew => HeldNew')
  <2>1. OnePeer' => OnePeer
    BY <1>1, <1>6, Zenon DEF OnePeer
  <2>2. HeldNew => HeldNew'
    BY <1>1, <1>3 DEF HeldNew
  <2>3. QED
    BY <2>1, <2>2
<1>12. QED
  BY <1>1, <1>7, <1>8, <1>9, <1>10, <1>11, Zenon DEF OnceInv

\* A request that arrives is held only if the engine has not settled it: a
\* settled one is in the cache for as long as it arrives.
LEMMA InputOnce ==
  ASSUME Shape, RoutedInv, OnceInv, NEW r \in wire, NEW valid \in BOOLEAN, aun_udp_input(r, valid)
  PROVE  OnceInv'
<1>1. UNCHANGED <<cache, peer, runs, reaped, inits>> /\ wire' \subseteq wire
  BY DEF aun_udp_input
<1>2. r \in Reqs /\ r = Current(r.peer) /\ peer[r.peer].left > 0
  BY DEF Shape, OnceInv, WireInv
<1>3. WireInv' /\ Counts' /\ Settled' = Settled /\ (OnePeer' <=> OnePeer)
        /\ \A q : Current(q)' = Current(q)
  BY <1>1, Zenon DEF OnceInv, WireInv, Counts, Current, Settled, OnePeer
<1>4. CASE UNCHANGED himm
  <2>1. HadInv' /\ (Remembered => Remembered') /\ (HeldNew => HeldNew')
    BY <1>1, <1>3, <1>4, OlderSame, Zenon DEF OnceInv, HadInv, Had, Remembered, HeldNew
  <2>2. QED
    BY <1>1, <1>3, <2>1, Zenon DEF OnceInv
<1>5. CASE ~himm.active /\ ~Cached(r) /\ Hold(r)
  <2>1. himm'.active /\ himm'.req = r /\ himm'.polled # himm'.gen
    BY <1>5 DEF Hold, Shape, RoutedInv
  <2>2. \A s \in Reqs : Had(s)' => Had(s) \/ s = r
    BY <1>3, <1>5, <2>1, Zenon DEF Had
  <2>3. r.seq = peer[r.peer].seq /\ r.seq \in Nat
    <3>1. Current(r.peer).seq = peer[r.peer].seq
      BY Zenon DEF Current
    <3>2. QED
      BY <1>2, <3>1, ReqFields, Zenon
  <2>4. HadInv'
    <3>1. \A s \in Reqs : Had(s)' => Older(s)
      <4>1. Older(r)
        BY <1>2, <2>3 DEF Older
      <4>2. QED
        BY <2>2, <4>1, Zenon DEF OnceInv, HadInv
    <3>2. ASSUME NEW s \in Settled, s.peer = r.peer PROVE s.seq <= r.seq
      <4>1. Older(s)
        BY ReqFields, Zenon DEF OnceInv, HadInv, Had, Counts
      <4>2. QED
        BY <2>3, <3>2, <4>1, Zenon DEF Older
    <3>3. QED
      BY <1>1, <1>2, <1>3, <2>1, <3>1, <3>2, OlderSame, Zenon DEF HadInv
  <2>5. ASSUME OnePeer PROVE r \notin Settled
    BY <1>2, <1>5, <2>5, AunHostImmAssumption DEF OnceInv, Remembered, Cached, Shape, Reqs
  <2>6. ASSUME OnePeer PROVE Remembered'
    BY <1>1, <1>3, <1>5, <2>6, Zenon DEF OnceInv, Remembered
  <2>7. ASSUME OnePeer PROVE HeldNew'
    BY <1>1, <1>2, <2>1, <2>5, <2>7 DEF HeldNew, Settled, OnceInv, Counts
  <2>8. QED
    BY <1>1, <1>3, <2>4, <2>6, <2>7, Zenon DEF OnceInv
<1>6. QED
  BY <1>4, <1>5, Zenon DEF aun_udp_input, rx_imm4_data, RxImmediate, Replay

\* The held request is answered and its outcome cached: it is the newest the
\* engine has had of the one peer, so no other settled request is current.
LEMMA StoreOnce ==
  ASSUME CacheTtl >= Window, Shape, OnceInv, himm.active, ~himm'.active,
         cache'.req = himm.req, cache'.left = CacheTtl,
         UNCHANGED <<peer, wire, runs, inits>>,
         reaped' = reaped \cup {himm.req} \/ (reaped' = reaped /\ himm.req \in Settled)
  PROVE  OnceInv'
<1> DEFINE h == himm.req
<1>1. h \in Reqs /\ h.peer \in Peers /\ h.seq \in Nat /\ Settled \subseteq Reqs
  BY ReqFields DEF OnceInv, HadInv, Counts
<1>2. Settled' = Settled \cup {h} /\ \A q : Current(q)' = Current(q)
  BY <1>1, Zenon DEF Settled, Current
<1>3. WireInv' /\ Counts' /\ (OnePeer' => OnePeer) /\ HeldNew'
  BY <1>1, <1>2, Zenon DEF OnceInv, WireInv, Counts, OnePeer, HeldNew
<1>4. HadInv'
  BY <1>1, <1>2, OlderSame, Zenon DEF OnceInv, HadInv, Had
<1>5. ASSUME OnePeer' PROVE Remembered'
  <2> SUFFICES ASSUME NEW r \in Settled', r = Current(r.peer)
               PROVE  cache'.req = r /\ cache'.left >= peer[r.peer].left
    BY <1>2, Zenon DEF Remembered
  <2>1. r \in Reqs /\ r.peer = h.peer /\ r.peer \in Peers /\ r.seq \in Nat
    BY <1>1, <1>2, <1>5, ReqFields, Zenon DEF OnePeer
  <2>2. r.seq = peer[h.peer].seq
    <3>1. Current(r.peer).seq = peer[r.peer].seq
      BY Zenon DEF Current
    <3>2. QED
      BY <2>1, <3>1, Zenon
  <2>3. r # h => r.seq <= h.seq
    BY <1>2, <2>1, Zenon DEF OnceInv, HadInv
  <2>4. /\ h.seq <= peer[h.peer].seq
        /\ h.seq = peer[h.peer].seq => h = Current(h.peer)
    BY <1>1, Zenon DEF OnceInv, HadInv, Had, Older
  <2>5. r = h
    BY <1>1, <2>1, <2>2, <2>3, <2>4
  <2>6. peer[r.peer].left <= Window /\ peer[r.peer].left \in Nat
    BY <2>1 DEF OnceInv, Counts, Shape
  <2>7. QED
    BY <2>5, <2>6, AunHostImmAssumption
<1>6. QED
  BY <1>3, <1>4, <1>5, Zenon DEF OnceInv

\* The host takes what is held, for the first time or again.
LEMMA ImmPollOnce == ASSUME Shape, OnceInv, ImmPoll PROVE OnceInv'
<1> DEFINE h == himm.req
<1>1. /\ himm.active /\ himm'.active /\ himm'.req = h /\ himm'.polled = himm'.gen
      /\ UNCHANGED <<cache, peer, wire, reaped, inits>>
  BY DEF ImmPoll, Shape
<1>2. /\ h \in Reqs /\ runs[h] \in Nat /\ runs'[h] \in Nat /\ runs'[h] > 0
      /\ runs' \in [Reqs -> Nat] /\ \A r \in Reqs : r # h => runs'[r] = runs[r]
      /\ himm.polled # himm.gen => runs'[h] = runs[h] + 1
      /\ himm.polled = himm.gen => runs'[h] = runs[h]
  <2>1. h \in Reqs /\ runs \in [Reqs -> Nat] /\ (himm.polled = himm.gen => runs[h] > 0)
    BY <1>1, Zenon DEF OnceInv, HadInv, Counts
  <2>2. CASE himm.polled = himm.gen
    BY <2>1, <2>2 DEF ImmPoll
  <2>3. CASE himm.polled # himm.gen
    BY <2>1, <2>3 DEF ImmPoll
  <2>4. QED
    BY <2>2, <2>3
<1>3. Settled' = Settled \cup {h} /\ Settled \subseteq Reqs /\ \A q : Current(q)' = Current(q)
  <2>1. \A r \in Reqs : runs'[r] > 0 <=> runs[r] > 0 \/ r = h
    BY <1>2, Zenon
  <2>2. QED
    BY <1>1, <1>2, <2>1, ReqFields, Zenon DEF Settled, Current, OnceInv, Counts
<1>4. WireInv' /\ Counts' /\ (OnePeer' => OnePeer)
  BY <1>1, <1>2, <1>3, Zenon DEF OnceInv, WireInv, Counts, OnePeer
<1>5. HadInv'
  <2>1. \A r : Had(r)' <=> Had(r)
    BY <1>1, <1>3, Zenon DEF Had
  <2>2. h.seq <= h.seq
    BY <1>2, ReqFields
  <2>3. QED
    BY <1>1, <1>2, <1>3, <2>1, <2>2, OlderSame, Zenon DEF OnceInv, HadInv
<1>6. Remembered => Remembered'
  BY <1>1, <1>3, Zenon DEF Remembered
<1>7. HeldNew => HeldNew'
  BY <1>1, Zenon DEF HeldNew
<1>8. ASSUME HeldNew, \A r \in Reqs : runs[r] <= 1 PROVE \A r \in Reqs : runs'[r] <= 1
  <2>1. runs'[h] <= 1
    <3>1. himm.polled # himm.gen => runs[h] = 0
      BY <1>1, <1>8, Zenon DEF HeldNew
    <3>2. QED
      BY <1>2, <1>8, <3>1
  <2>2. QED
    BY <1>2, <1>8, <2>1, Zenon
<1>9. QED
  BY <1>4, <1>5, <1>6, <1>7, <1>8, Zenon DEF OnceInv

\* Every step keeps it.
LEMMA OnceStep ==
  ASSUME CacheTtl >= Window, Shape, RoutedInv, OnceInv, [Next]_vars
  PROVE  OnceInv'
<1>1. CASE aun_poll
  <2>1. /\ himm.active /\ ~himm'.active /\ cache'.req = himm.req /\ cache'.left = CacheTtl
        /\ UNCHANGED <<peer, wire, runs, inits>> /\ reaped' = reaped \cup {himm.req}
    BY <1>1 DEF aun_poll, himm_cache_store, Shape
  <2>2. QED
    BY <2>1, StoreOnce
<1>2. CASE ImmReply
  <2>1. UNCHANGED <<peer, wire, runs, reaped, inits>>
    BY <1>2 DEF ImmReply
  <2>2. CASE ReplyWanted
    <3>1. himm.active /\ ~himm'.active /\ cache'.req = himm.req /\ cache'.left = CacheTtl
      BY <1>2, <2>2 DEF ImmReply, ReplyWanted, himm_cache_store, Shape
    <3>2. himm.req \in Settled
      BY <2>2, Zenon DEF ReplyWanted, OnceInv, HadInv, Settled
    <3>3. QED
      BY <2>1, <3>1, <3>2, StoreOnce
  <2>3. CASE ~ReplyWanted
    <3>1. UNCHANGED <<himm, cache>>
      BY <1>2, <2>3 DEF ImmReply
    <3>2. QED
      BY <2>1, <3>1, Zenon
         DEF OnceInv, WireInv, Counts, HadInv, Older, Had, Settled, OnePeer, Remembered,
            HeldNew, Current
  <2>4. QED
    BY <2>2, <2>3
<1>3. CASE HostForgets \/ UNCHANGED vars
  <2>1. UNCHANGED <<himm, cache, peer, wire, runs, reaped, inits>>
    BY <1>3 DEF HostForgets, vars
  <2>2. QED
    BY <2>1, Zenon
       DEF OnceInv, WireInv, Counts, HadInv, Older, Had, Settled, OnePeer, Remembered, HeldNew,
          Current
<1>4. ASSUME NEW on \in BOOLEAN, aun_set_host_imm(on) PROVE OnceInv'
  <2>1. /\ inits' = inits + 1 /\ ~himm'.active
        /\ UNCHANGED <<peer, wire, runs, reaped>>
    BY <1>4 DEF aun_set_host_imm, NoHimm
  <2>2. inits' \in Nat /\ inits' # 0
    BY <2>1 DEF OnceInv, Counts
  <2>3. WireInv' /\ Counts'
    BY <2>1, <2>2, Zenon DEF OnceInv, WireInv, Counts, Current
  <2>4. HadInv'
    BY <2>1, OlderSame, Zenon DEF OnceInv, HadInv, Had, Settled
  <2>5. QED
    BY <2>2, <2>3, <2>4, Zenon DEF OnceInv, OnePeer
<1>5. QED
  BY <1>1, <1>2, <1>3, <1>4, PeerSendOnce, PeerNextOnce, InputOnce, ImmPollOnce, TickOnce DEF Next

\* Nothing is held, cached or settled after INIT.
LEMMA OnceInit == Init => OnceInv
<1> SUFFICES ASSUME Init PROVE OnceInv
  OBVIOUS
<1>1. Settled = {} /\ ~himm.active
  BY DEF Init, Settled, NoHimm
<1>2. Counts /\ WireInv
  BY AunHostImmAssumption DEF Init, Counts, WireInv
<1>3. \A r \in Reqs : runs[r] <= 1
  BY DEF Init
<1>4. QED
  BY <1>1, <1>2, <1>3, Zenon DEF OnceInv, HadInv, Had, Remembered, HeldNew

\* OnceInv holds of every reachable state when the cache outlives the window.
LEMMA OnceHolds == ASSUME CacheTtl >= Window PROVE Spec => []OnceInv
<1>1. Init => Shape /\ RoutedInv /\ OnceInv
  BY ShapeInit, OnceInit DEF Init, NoHimm, NoCache, RoutedInv, ReplyRouted
<1>2. Shape /\ RoutedInv /\ OnceInv /\ [Next]_vars => Shape' /\ RoutedInv' /\ OnceInv'
  BY ShapeStep, RoutedStep, OnceStep
<1>3. QED
  BY <1>1, <1>2, PTL DEF Spec

\* A retransmitted immediate is not executed a second time by the host as long
\* as one originator's outcomes went through the cache slot, for any number of
\* peers, requests and ticks, provided the cache outlives the retransmit window
\* (himm_cache_store, AUN_HIMM_CACHE_MS).
THEOREM RunOnceCorrect == ASSUME CacheTtl >= Window PROVE Spec => []RunOnceAlone
<1>1. OnceInv => RunOnceAlone
  BY AloneOnePeer DEF OnceInv, Counts, RunOnceAlone
<1>2. QED
  BY <1>1, OnceHolds, PTL

\* A reaped immediate is not held again under the same conditions (the refusal
\* that aun_poll leaves in the cache).
THEOREM ReapedCorrect == ASSUME CacheTtl >= Window PROVE Spec => []ReapedStaysRefused
<1>1. OnceInv => ReapedStaysRefused
  BY AloneOnePeer DEF OnceInv, Counts, HeldNew, ReapedStaysRefused
<1>2. QED
  BY <1>1, OnceHolds, PTL
=============================================================================
