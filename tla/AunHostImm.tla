----------------------------- MODULE AunHostImm -----------------------------
(***************************************************************************)
(* Host-executed immediates of the AUN engine (aun.c): the one held        *)
(* immediate with its generation guard, the reaper, the one-slot replay    *)
(* cache, and IMM_POLL / IMM_REPLY from the host (aun_emulator.c).         *)
(*                                                                         *)
(* An immediate is a type-5 datagram, answered with an IMM_REPLY, or a     *)
(* DATA datagram to port 0, answered with an ACK.  Deadlines are kept as   *)
(* the ticks left.  aun_poll here is its reaping half.                     *)
(***************************************************************************)
EXTENDS Naturals, FiniteSets

CONSTANTS
  Peers,        \* originators
  Kinds,        \* "imm" (type 5) and "data" (port 0), or one of them
  HimmTimeout,  \* AUN_HIMM_TIMEOUT_MS, in ticks
  CacheTtl,     \* AUN_HIMM_CACHE_MS, in ticks
  Window,       \* ticks a peer retransmits an immediate for
  MaxSeq,       \* immediates each peer sends
  MaxGen,       \* immediates held between two INITs
  MaxInit       \* AUN_CMD_INITs after the first

ASSUME AunHostImmAssumption ==
  /\ IsFiniteSet(Peers) /\ Kinds \subseteq {"imm", "data"} /\ Kinds # {}
  /\ HimmTimeout \in Nat \ {0} /\ CacheTtl \in Nat \ {0}
  /\ Window \in Nat /\ MaxSeq \in Nat
  /\ MaxGen \in Nat /\ MaxInit \in Nat

VARIABLES
  enabled,   \* host_imm_enabled
  himm,      \* e->himm: held request, reap time, generations
  cache,     \* e->himm_cache
  host,      \* the request the Beeb is executing, or NoReq
  peer,      \* peer -> [seq, kind, left]: its current immediate
  wire,      \* requests on their way to the engine
  answers,   \* history: [req, of, yes]: what the engine sent
  runs,      \* history: how often each request was held and taken by the host
  reaped,    \* history: the requests the reaper refused
  inits      \* INITs so far

vars == <<enabled, himm, cache, host, peer, wire, answers, runs, reaped, inits>>

NoReq == [peer |-> "none", seq |-> 0, kind |-> "imm"]
Reqs  == [peer : Peers, seq : 1 .. MaxSeq, kind : Kinds]

\* The engine matches (ip, port, seq); a peer gives one seq to one request.
Current(p) == [peer |-> p, seq |-> peer[p].seq, kind |-> peer[p].kind]

NoHimm  == [active |-> FALSE, req |-> NoReq, left |-> 0, gen |-> 0, polled |-> 0]
NoCache == [req |-> NoReq, nak |-> FALSE, of |-> NoReq, left |-> 0]

\* The engine after an AUN_CMD_INIT.
Init ==
  /\ enabled \in BOOLEAN
  /\ himm = NoHimm /\ cache = NoCache /\ host = NoReq
  /\ peer \in [Peers -> [seq : {1}, kind : Kinds, left : {Window}]]
  /\ wire = {} /\ answers = {} /\ runs = [r \in Reqs |-> 0] /\ reaped = {} /\ inits = 0

-----------------------------------------------------------------------------
(* The peers *)

\* Send or retransmit within the window.
PeerSend(p) ==
  /\ peer[p].seq <= MaxSeq /\ peer[p].left > 0
  /\ wire' = wire \cup {Current(p)}
  /\ UNCHANGED <<enabled, himm, cache, host, peer, answers, runs, reaped, inits>>

\* The next immediate, after an answer or after giving up.  A duplicate of
\* the old one no longer arrives.
PeerNext(p) ==
  /\ peer[p].seq <= MaxSeq
  /\ \E k \in Kinds :
       peer' = [peer EXCEPT ![p] = [seq |-> @.seq + 1, kind |-> k,
                                    left |-> Window]]
  /\ wire' = wire \ {Current(p)}
  /\ UNCHANGED <<enabled, himm, cache, host, answers, runs, reaped, inits>>

-----------------------------------------------------------------------------
(* The engine *)

\* A reply, ACK or NAK to request r, made from the execution of request of.
\* Whether it arrives is up to the network.
Answer(r, of, yes) == answers' = answers \cup {[req |-> r, of |-> of, yes |-> yes]}

\* Mutant: the cache expires a tick early.
CachedShort(r) == cache.req = r /\ cache.left > 1

Cached(r) == cache.req = r /\ cache.left > 0

Replay(r) == Answer(r, cache.of, ~cache.nak) /\ UNCHANGED himm

\* A fresh immediate is held under a new generation.
Hold(r) ==
  /\ himm.gen < MaxGen
  /\ himm' = [himm EXCEPT !.active = TRUE, !.req = r, !.left = HimmTimeout,
                          !.gen = @ + 1]
  /\ UNCHANGED answers

\* rx_imm4_data: refused when invalid; the cache is consulted before the
\* busy test; a busy engine is silent.
rx_imm4_data(r, valid) ==
  \/ ~(enabled /\ valid) /\ Answer(r, NoReq, FALSE) /\ UNCHANGED himm
  \/ enabled /\ valid /\ Cached(r) /\ Replay(r)
  \/ enabled /\ valid /\ ~Cached(r) /\ himm.active /\ UNCHANGED <<himm, answers>>
  \/ enabled /\ valid /\ ~Cached(r) /\ ~himm.active /\ Hold(r)

\* AUN_TYPE_IMMEDIATE: the busy test comes first, and refuses another
\* request than the one held.
RxImmediate(r, valid) ==
  \/ ~(enabled /\ valid) /\ Answer(r, NoReq, FALSE) /\ UNCHANGED himm
  \/ enabled /\ valid /\ himm.active /\ himm.req = r /\ UNCHANGED <<himm, answers>>
  \/ /\ enabled /\ valid /\ himm.active /\ himm.req # r
     /\ Answer(r, NoReq, FALSE)
     /\ UNCHANGED himm
  \/ enabled /\ valid /\ ~himm.active /\ Cached(r) /\ Replay(r)
  \/ enabled /\ valid /\ ~himm.active /\ ~Cached(r) /\ Hold(r)

\* A request is taken off the network, or stays on it as a duplicate.
aun_udp_input(r, valid) ==
  /\ wire' \in {wire, wire \ {r}}
  /\ IF r.kind = "data" THEN rx_imm4_data(r, valid) ELSE RxImmediate(r, valid)
  /\ UNCHANGED <<enabled, cache, host, peer, runs, reaped, inits>>

\* Mutant: a reaped immediate is not remembered.
CacheStorePositive(nak, of) ==
  cache' = IF nak THEN cache
           ELSE [req |-> himm.req, nak |-> nak, of |-> of, left |-> CacheTtl]

himm_cache_store(nak, of) ==
  cache' = [req |-> himm.req, nak |-> nak, of |-> of, left |-> CacheTtl]

\* Mutant: an immediate the host has taken is not reaped.
PollReapsUntaken ==
  /\ himm.active /\ himm.left = 0 /\ himm.polled # himm.gen
  /\ Answer(himm.req, NoReq, FALSE)
  /\ himm_cache_store(TRUE, NoReq)
  /\ himm' = [himm EXCEPT !.active = FALSE]
  /\ reaped' = reaped \cup {himm.req}
  /\ UNCHANGED <<enabled, host, peer, wire, runs, inits>>

\* The reaper of aun_poll.
aun_poll ==
  /\ himm.active /\ himm.left = 0
  /\ Answer(himm.req, NoReq, FALSE)
  /\ himm_cache_store(TRUE, NoReq)
  /\ himm' = [himm EXCEPT !.active = FALSE]
  /\ reaped' = reaped \cup {himm.req}
  /\ UNCHANGED <<enabled, host, peer, wire, runs, inits>>

-----------------------------------------------------------------------------
(* The host *)

\* AUN_CMD_IMM_POLL with an immediate held: the Beeb takes it and runs it.
\* Polling again before the reply returns the same generation again.
ImmPoll ==
  /\ himm.active
  /\ himm' = [himm EXCEPT !.polled = himm.gen]
  /\ host' = himm.req
  /\ runs' = IF himm.polled = himm.gen THEN runs
             ELSE [runs EXCEPT ![himm.req] = @ + 1]
  /\ UNCHANGED <<enabled, cache, peer, wire, answers, reaped, inits>>

\* Mutant: the generation guard is missing.
ReplyWantedAny == himm.active

ReplyWanted == himm.active /\ himm.gen = himm.polled

\* AUN_CMD_IMM_REPLY and aun_himm_reply: the outcome of what the host ran,
\* sent to the originator of what is held.
ImmReply ==
  /\ host # NoReq
  /\ host' = NoReq
  /\ IF ReplyWanted
     THEN /\ Answer(himm.req, host, TRUE)
          /\ himm_cache_store(FALSE, host)
          /\ himm' = [himm EXCEPT !.active = FALSE]
     ELSE UNCHANGED <<himm, cache, answers>>
  /\ UNCHANGED <<enabled, peer, wire, runs, reaped, inits>>

\* The Beeb aborts the operation and never replies.
HostForgets ==
  /\ host # NoReq /\ host' = NoReq
  /\ UNCHANGED <<enabled, himm, cache, peer, wire, answers, runs, reaped, inits>>

\* AUN_CMD_INIT: aun_init zeroes the engine, aun_set_host_imm sets the
\* switch and drops the held immediate and the cache.
aun_set_host_imm(on) ==
  /\ inits < MaxInit /\ inits' = inits + 1
  /\ enabled' = on /\ himm' = NoHimm /\ cache' = NoCache /\ host' = NoReq
  /\ UNCHANGED <<peer, wire, answers, runs, reaped>>

\* Time passes; the main loop polls more often than once a tick.
Tick ==
  LET dec(n) == IF n = 0 THEN 0 ELSE n - 1 IN
  /\ ~(himm.active /\ himm.left = 0)
  /\ himm' = [himm EXCEPT !.left = dec(@)]
  /\ cache' = [cache EXCEPT !.left = dec(@)]
  /\ peer' = [p \in Peers |-> [peer[p] EXCEPT !.left = dec(@)]]
  /\ wire' = {r \in wire : peer'[r.peer].left > 0}
  /\ UNCHANGED <<enabled, host, answers, runs, reaped, inits>>

-----------------------------------------------------------------------------
Next ==
  \/ \E p \in Peers : PeerSend(p) \/ PeerNext(p)
  \/ \E r \in wire, valid \in BOOLEAN : aun_udp_input(r, valid)
  \/ aun_poll \/ ImmPoll \/ ImmReply \/ HostForgets \/ Tick
  \/ \E on \in BOOLEAN : aun_set_host_imm(on)

Spec == Init /\ [][Next]_vars

\* The main loop polls and the clock runs; nothing is asked of the host.
FairSpec == Spec /\ WF_vars(aun_poll) /\ WF_vars(Tick)

-----------------------------------------------------------------------------
(* Properties *)

TypeOK ==
  /\ enabled \in BOOLEAN
  /\ himm \in [active : BOOLEAN, req : Reqs \cup {NoReq},
               left : 0 .. HimmTimeout, gen : 0 .. MaxGen, polled : 0 .. MaxGen]
  /\ himm.polled <= himm.gen
  /\ cache \in [req : Reqs \cup {NoReq}, nak : BOOLEAN,
                of : Reqs \cup {NoReq}, left : 0 .. CacheTtl]
  /\ host \in Reqs \cup {NoReq}
  /\ peer \in [Peers -> [seq : 1 .. MaxSeq + 1, kind : Kinds, left : 0 .. Window]]
  /\ wire \subseteq Reqs /\ reaped \subseteq Reqs
  /\ runs \in [Reqs -> Nat] /\ inits \in 0 .. MaxInit
  /\ answers \subseteq [req : Reqs, of : Reqs \cup {NoReq}, yes : BOOLEAN]

\* A positive answer carries the outcome of the request it answers: a reply
\* the host makes after a reap and refill is dropped, "not mis-routed"
\* (AUN_CMD_IMM_POLL).
ReplyRouted == \A a \in answers : a.yes => a.of = a.req

\* The requests whose outcome the replay cache has held.
Settled == reaped \cup {r \in Reqs : runs[r] > 0}

\* Only one originator's outcomes have been cached since INIT.
Alone == inits = 0 /\ Cardinality({r.peer : r \in Settled}) <= 1

\* Poke, JSR and OSProcCall are not idempotent: a retransmission is
\* "answered from here instead of being handed to the host a second time"
\* (himm_cache_store), as long as no other originator's outcome went through
\* the one cache slot.
RunOnceAlone == Alone => \A r \in Reqs : runs[r] <= 1

\* An immediate refused by the reaper is not held again within its
\* retransmit window: "re-refused, not re-held and re-executed" (aun_poll),
\* as long as no other originator's outcome went through the cache slot.
ReapedStaysRefused == Alone /\ himm.active => himm.req \notin reaped

\* The slot is freed, whatever the host does (AUN_HIMM_TIMEOUT_MS: a silent
\* host "must not wedge the engine").
SlotReleased ==
  \A g \in 1 .. MaxGen :
     himm.active /\ himm.gen = g ~> ~(himm.active /\ himm.gen = g)
=============================================================================
