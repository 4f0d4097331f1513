------------------------------- MODULE AunRx -------------------------------
(***************************************************************************)
(* The receive side of the AUN engine (aun.c): inbound DATA and broadcast  *)
(* datagrams, the receive blocks with their queues, RX_POLL / RX_DONE from *)
(* the host, ACK-on-collect, defer-in-place, condemned streams and the     *)
(* two-tier duplicate filter, together with the peers that send to it over *)
(* a network that loses datagrams.                                         *)
(*                                                                         *)
(* Every function of aun.c runs in the main loop, so each is one step.     *)
(***************************************************************************)
EXTENDS AunTables, Sequences, Functions

CONSTANTS
  Srcs,            \* peers, each an (IP, UDP port)
  Ports,           \* Econet ports the peers send to
  Stns,            \* stations: the keys of the station map
  StaticMap,       \* the station map after INIT: <<station, peer>> pairs
  Learn,           \* [Srcs -> Stns \cup {None}]: what learn_attribute says
  MapMax,          \* AUN_MAP_MAX
  Blocks,          \* 0 .. AUN_RX_BLOCKS - 1
  Filters,         \* [port, stn] filters RX_OPEN is called with
  RxQueue,         \* AUN_RX_QUEUE
  DeferSlots,      \* AUN_RX_DEFER_SLOTS
  CondemnSlots,    \* AUN_CONDEMN_SLOTS
  DeferRetries,    \* AUN_DEFER_RETRIES
  CondemnRetries,  \* AUN_CONDEMN_RETRIES
  DeferDelay,      \* AUN_DEFER_DELAY_MS, in ticks
  CondemnTtl,      \* AUN_CONDEMN_TTL_MS, in ticks
  Oversize,        \* sequence numbers whose payload exceeds buf_size
  MayAbandon,      \* a peer may give a transaction up
  MaxSeq,          \* transactions each peer sends, one fewer after a restart
  MaxNet,          \* datagrams in flight in each direction, per peer
  MaxLoss,         \* datagrams the network or the transport loses
  MaxAdmin,        \* INITs, RX_OPENs, RX_CLOSEs, MAP_ADDs, broadcasts, restarts
  MaxRestart       \* restarts of a peer

None  == "none"
Wild  == "any"      \* AUN_WILDCARD, or port 0 in a filter
Local == "local"    \* source of a broadcast or loopback frame

ASSUME AunRxAssumption ==
  /\ {Local, None} \cap Srcs = {} /\ None \notin Stns
  /\ StaticMap \in Seq(Stns \X Srcs)
  /\ Learn \in [Srcs -> Stns \cup {None}]
  /\ Blocks \subseteq Nat
  /\ Filters \subseteq [port : Ports \cup {Wild}, stn : Stns \cup {Wild}]
  /\ \A n \in {RxQueue, DeferSlots, CondemnSlots, DeferDelay, CondemnTtl} :
       n \in Nat \ {0}
  /\ \A n \in {MapMax, DeferRetries, CondemnRetries, MaxSeq, MaxNet,
               MaxLoss, MaxAdmin, MaxRestart} : n \in Nat
  /\ MayAbandon \in BOOLEAN

Closed == [port |-> None, stn |-> None]   \* filter of a closed block

VARIABLES
  map,        \* entries [stn, src, last]; last = 0 when seq_valid is false
  filter,     \* block -> filter, or Closed
  queue,      \* block -> frames from head, oldest first
  defer,      \* block -> deferred streams
  pres,       \* block -> 1 + pres_off while presented, else 0
  buf,        \* block -> the message last copied to the host's buffer
  condemned,  \* condemned streams
  peer,       \* peer -> [inc, seq, port]: the transaction it is sending
  toEngine,   \* peer -> datagrams on their way to the engine, in order
  toPeer,     \* peer -> ACKs and NAKs on their way back, in order
  budget,     \* losses and rare events left
  taken,      \* history: the messages the host accepted, in order
  shed        \* history: the messages acknowledged and discarded

blockVars == <<filter, queue, defer, pres, buf>>
netVars   == <<peer, toEngine, toPeer>>
history   == <<taken, shed>>
vars == <<map, blockVars, condemned, netVars, budget, history>>

\* inc, the peer's incarnation, is not on the wire; the engine never reads
\* it.  It tells a message apart from one sent before the peer restarted.
Msg(f)    == [src |-> f.src, inc |-> f.inc, seq |-> f.seq, port |-> f.port]
Stream(f) == <<f.src, f.port>>
NoMsg     == [src |-> Local, inc |-> 0, seq |-> 0, port |-> None]

Confirmed == Range(taken) \cup shed

Init ==
  /\ map = [i \in 1 .. Len(StaticMap) |->
              [stn |-> StaticMap[i][1], src |-> StaticMap[i][2], last |-> 0]]
  /\ filter \in [Blocks -> Filters \cup {Closed}]
  /\ queue = [h \in Blocks |-> << >>]
  /\ defer = [h \in Blocks |-> EmptyTable(DeferSlots)]
  /\ pres = [h \in Blocks |-> 0]
  /\ buf = [h \in Blocks |-> NoMsg]
  /\ condemned = EmptyTable(CondemnSlots)
  /\ peer \in [Srcs -> [inc : {0}, seq : {1}, port : Ports]]
  /\ toEngine = [s \in Srcs |-> << >>]
  /\ toPeer = [s \in Srcs |-> << >>]
  /\ budget = [loss |-> MaxLoss, admin |-> MaxAdmin]
  /\ taken = << >>
  /\ shed = {}

-----------------------------------------------------------------------------
(* The peers and the network *)

\* Send or retransmit the current transaction.
PeerSend(s) ==
  /\ peer[s].seq + peer[s].inc <= MaxSeq /\ Len(toEngine[s]) < MaxNet
  /\ toEngine' = [toEngine EXCEPT ![s] =
                    Append(@, [src |-> s, inc |-> peer[s].inc,
                               seq |-> peer[s].seq, port |-> peer[s].port])]
  /\ UNCHANGED <<map, blockVars, condemned, peer, toPeer, budget, history>>

NextTransaction(s) ==
  \E p \in Ports :
     peer' = [peer EXCEPT ![s] = [inc |-> @.inc, seq |-> @.seq + 1,
                                  port |-> p]]

\* An ACK of the current transaction completes it; after a NAK, or an answer
\* to an earlier transaction, the peer keeps retransmitting.
PeerRecv(s) ==
  /\ toPeer[s] # << >>
  /\ toPeer' = [toPeer EXCEPT ![s] = Tail(@)]
  /\ LET a == Head(toPeer[s]) IN
       IF a.type = "ack" /\ a.seq = peer[s].seq
       THEN NextTransaction(s) ELSE UNCHANGED peer
  /\ UNCHANGED <<map, blockVars, condemned, toEngine, budget, history>>

\* The peer's retransmit budget is spent.
PeerAbandon(s) ==
  /\ MayAbandon /\ peer[s].seq + peer[s].inc <= MaxSeq
  /\ NextTransaction(s)
  /\ UNCHANGED <<map, blockVars, condemned, toEngine, toPeer, budget, history>>

\* A restarted peer numbers its transactions from the start again, as
\* aun_init does (next_seq = 4); nothing of its past is in flight.
PeerRestart(s) ==
  /\ peer[s].inc < MaxRestart /\ budget.admin > 0
  /\ toEngine[s] = << >> /\ toPeer[s] = << >>
  /\ \E p \in Ports :
       peer' = [peer EXCEPT ![s] = [inc |-> @.inc + 1, seq |-> 1, port |-> p]]
  /\ budget' = [budget EXCEPT !.admin = @ - 1]
  /\ UNCHANGED <<map, blockVars, condemned, toEngine, toPeer, history>>

\* The network drops a datagram, or udp_send fails.
Lose(s) ==
  /\ budget.loss > 0
  /\ budget' = [budget EXCEPT !.loss = @ - 1]
  /\ \/ /\ toEngine[s] # << >>
        /\ toEngine' = [toEngine EXCEPT ![s] = Tail(@)]
        /\ UNCHANGED toPeer
     \/ /\ toPeer[s] # << >>
        /\ toPeer' = [toPeer EXCEPT ![s] = Tail(@)]
        /\ UNCHANGED toEngine
  /\ UNCHANGED <<map, blockVars, condemned, peer, history>>

-----------------------------------------------------------------------------
(* Inbound datagrams: aun_udp_input *)

\* send_ack_nak to peer s, answering message m.
Reply(s, type, m) ==
  /\ Len(toPeer[s]) < MaxNet
  /\ toPeer' = [toPeer EXCEPT ![s] =
                  Append(@, [type |-> type, inc |-> m.inc, seq |-> m.seq])]

\* The first of the places I, 0 for none.
FirstOf(I) == IF I # {} THEN Min(I) ELSE 0

\* map_find_by_ip and map_find_by_addr.
ByIp(m, s)     == FirstOf({i \in DOMAIN m : m[i].src = s})
ByAddr(m, stn) == FirstOf({i \in DOMAIN m : m[i].stn = stn})

\* aun_map_add: an existing entry of the station is redirected.
MapAdd(m, stn, s) ==
  LET e == [stn |-> stn, src |-> s, last |-> 0] IN
  CASE ByAddr(m, stn) # 0 -> [m EXCEPT ![ByAddr(m, stn)] = e]
    [] ByAddr(m, stn) = 0 /\ Len(m) < MapMax -> Append(m, e)
    [] OTHER -> m

\* The map once learn mode has had its chance to attribute the source.
Attributed(s) ==
  IF ByIp(map, s) = 0 /\ Learn[s] # None THEN MapAdd(map, Learn[s], s) ELSE map

rx_seq_pending(m) ==
  \E h \in Blocks : \E i \in DOMAIN queue[h] :
     queue[h][i].src = m.src /\ queue[h][i].seq = m.seq

\* rx_match: the open blocks whose filters fit, and those with room.
Listening(port, stn) ==
  {h \in Blocks : filter[h].port \in {Wild, port} /\ filter[h].stn \in {Wild, stn}}

HasRoom(port, stn) ==
  {h \in Listening(port, stn) : Len(queue[h]) < RxQueue}

Enqueue(h, m) ==
  queue' = [queue EXCEPT ![h] =
              Append(@, [src |-> m.src, inc |-> m.inc, seq |-> m.seq,
                         port |-> m.port, rejects |-> 0])]

\* Mutant: the frame is acknowledged when it is queued.
RxDeliverAcks(s, m, stn) ==
  \/ /\ HasRoom(m.port, stn) # {} /\ m.seq \notin Oversize
     /\ Enqueue(Min(HasRoom(m.port, stn)), m)
     /\ Reply(s, "ack", m)
  \/ /\ HasRoom(m.port, stn) = {} /\ Listening(m.port, stn) # {}
     /\ UNCHANGED <<queue, toPeer>>
  \/ /\ \/ Listening(m.port, stn) = {}
        \/ HasRoom(m.port, stn) # {} /\ m.seq \in Oversize
     /\ Reply(s, "nak", m)
     /\ UNCHANGED queue

\* rx_deliver and the answer to it: queued without an ACK, dropped in
\* silence when every listening queue is full, else refused.
RxDeliver(s, m, stn) ==
  \/ /\ HasRoom(m.port, stn) # {} /\ m.seq \notin Oversize
     /\ Enqueue(Min(HasRoom(m.port, stn)), m)
     /\ UNCHANGED toPeer
  \/ /\ HasRoom(m.port, stn) = {} /\ Listening(m.port, stn) # {}
     /\ UNCHANGED <<queue, toPeer>>
  \/ /\ \/ Listening(m.port, stn) = {}
        \/ HasRoom(m.port, stn) # {} /\ m.seq \in Oversize
     /\ Reply(s, "nak", m)
     /\ UNCHANGED queue

\* Mutant: the re-ACK test comes without the pending-duplicate test.
RxVerdictNoPending(s, m) ==
  LET i == ByIp(map', s) IN
  \/ i = 0 /\ UNCHANGED <<queue, toPeer>>
  \/ i # 0 /\ map'[i].last = m.seq /\ Reply(s, "ack", m) /\ UNCHANGED queue
  \/ i # 0 /\ map'[i].last # m.seq /\ RxDeliver(s, m, map'[i].stn)

\* What becomes of a DATA datagram: unknown source, retransmission of a
\* queued frame, retransmission of the last collected frame, new frame.
RxVerdict(s, m) ==
  LET i == ByIp(map', s) IN
  \/ i = 0 /\ UNCHANGED <<queue, toPeer>>
  \/ i # 0 /\ rx_seq_pending(m) /\ UNCHANGED <<queue, toPeer>>
  \/ /\ i # 0 /\ ~rx_seq_pending(m) /\ map'[i].last = m.seq
     /\ Reply(s, "ack", m)
     /\ UNCHANGED queue
  \/ /\ i # 0 /\ ~rx_seq_pending(m) /\ map'[i].last # m.seq
     /\ RxDeliver(s, m, map'[i].stn)

RxData(s) ==
  /\ toEngine[s] # << >>
  /\ toEngine' = [toEngine EXCEPT ![s] = Tail(@)]
  /\ map' = Attributed(s)
  /\ RxVerdict(s, Head(toEngine[s]))
  /\ UNCHANGED <<filter, defer, pres, buf, condemned, peer, budget, history>>

\* A broadcast, or a frame of the loopback test responder: queued with a
\* zero source, never acknowledged, dropped when nothing can take it.
RxBroadcast(port, stn) ==
  /\ budget.admin > 0
  /\ budget' = [budget EXCEPT !.admin = @ - 1]
  /\ IF HasRoom(port, stn) # {}
     THEN Enqueue(Min(HasRoom(port, stn)), [NoMsg EXCEPT !.port = port])
     ELSE UNCHANGED queue
  /\ UNCHANGED <<map, filter, defer, pres, buf, condemned, netVars, history>>

-----------------------------------------------------------------------------
(* The host: RX_OPEN, RX_CLOSE, RX_POLL, RX_DONE, INIT, MAP_ADD *)

\* Mutant: re-opening a block leaves it presented.
WipeKeepsPresented(h, f) ==
  /\ filter' = [filter EXCEPT ![h] = f]
  /\ queue' = [queue EXCEPT ![h] = << >>]
  /\ defer' = [defer EXCEPT ![h] = EmptyTable(DeferSlots)]
  /\ UNCHANGED pres

\* memset of a block.
Wipe(h, f) ==
  /\ filter' = [filter EXCEPT ![h] = f]
  /\ queue' = [queue EXCEPT ![h] = << >>]
  /\ defer' = [defer EXCEPT ![h] = EmptyTable(DeferSlots)]
  /\ pres' = [pres EXCEPT ![h] = 0]

Admin ==
  /\ budget.admin > 0
  /\ budget' = [budget EXCEPT !.admin = @ - 1]
  /\ UNCHANGED <<buf, netVars, history>>

aun_rx_open(h, f) == Admin /\ Wipe(h, f) /\ UNCHANGED <<map, condemned>>

aun_rx_close(h) ==
  /\ filter[h] # Closed
  /\ Admin /\ Wipe(h, Closed) /\ UNCHANGED <<map, condemned>>

aun_map_add(stn, s) ==
  /\ Admin
  /\ map' = MapAdd(map, stn, s)
  /\ UNCHANGED <<filter, queue, defer, pres, condemned>>

\* AUN_CMD_INIT: the engine is zeroed and the configured map added again.
aun_init ==
  /\ Admin
  /\ map' = [i \in 1 .. Len(StaticMap) |->
               [stn |-> StaticMap[i][1], src |-> StaticMap[i][2], last |-> 0]]
  /\ filter' = [h \in Blocks |-> Closed]
  /\ queue' = [h \in Blocks |-> << >>]
  /\ defer' = [h \in Blocks |-> EmptyTable(DeferSlots)]
  /\ pres' = [h \in Blocks |-> 0]
  /\ condemned' = EmptyTable(CondemnSlots)

\* rx_frame_eligible, rx_first_eligible (0 for none).
Eligible(h, f) == f.src = Local \/ ~Live(defer[h], Stream(f))

rx_first_eligible(h) == FirstOf({i \in DOMAIN queue[h] : Eligible(h, queue[h][i])})

\* The deferrals of block h once the first n frames have been looked up.
Swept(h, n) ==
  [i \in DOMAIN defer[h] |->
     IF /\ defer[h][i].left = 0
        /\ \E k \in 1 .. n : Stream(queue[h][k]) = defer[h][i].stream
     THEN Vacant ELSE defer[h][i]]

\* How far rx_first_eligible looks.
Looked(h) ==
  IF rx_first_eligible(h) # 0 THEN rx_first_eligible(h) ELSE Len(queue[h])

aun_rx_poll(h) ==
  /\ filter[h] # Closed /\ queue[h] # << >> /\ pres[h] = 0
  /\ defer' = [defer EXCEPT ![h] = Swept(h, Looked(h))]
  /\ pres' = [pres EXCEPT ![h] = rx_first_eligible(h)]
  /\ buf' = IF rx_first_eligible(h) = 0 THEN buf
            ELSE [buf EXCEPT ![h] = Msg(queue[h][rx_first_eligible(h)])]
  /\ UNCHANGED <<map, filter, queue, condemned, netVars, budget, history>>

\* aun_rx_ready, called for the IRQ status: looks every frame up.
aun_rx_ready(h) ==
  /\ filter[h] # Closed
  /\ defer' = [defer EXCEPT ![h] = Swept(h, Len(queue[h]))]
  /\ UNCHANGED <<map, filter, queue, pres, buf, condemned, netVars, budget,
                 history>>

\* The frame RX_DONE is about (0 for none), and the deferrals after the
\* lookups that found it.
Offset(h) == IF pres[h] # 0 THEN pres[h] ELSE rx_first_eligible(h)
LookedUp(h) == IF pres[h] # 0 THEN defer[h] ELSE Swept(h, Looked(h))

\* The frames behind the one removed move up.
Without(q, i) == [k \in 1 .. Len(q) - 1 |-> IF k < i THEN q[k] ELSE q[k + 1]]

rx_remove_at(h) == queue' = [queue EXCEPT ![h] = Without(@, Offset(h))]

\* The map after f has been acknowledged: last_rx_seq of its source.
Stamp(f) ==
  map' = IF ByIp(map, f.src) = 0 THEN map
         ELSE [map EXCEPT ![ByIp(map, f.src)].last = f.seq]

\* RX_DONE with verdict 0.
CollectAccept(h, f) ==
  /\ rx_remove_at(h)
  /\ defer' = [defer EXCEPT ![h] = LookedUp(h)]
  /\ IF f.src = Local
     THEN UNCHANGED <<map, condemned, toPeer, history>>
     ELSE /\ Reply(f.src, "ack", f)
          /\ Stamp(f)
          /\ condemned' = Lift(condemned, Stream(f))
          /\ taken' = Append(taken, Msg(f))
          /\ UNCHANGED shed

RejectBudget(f) ==
  IF Live(condemned, Stream(f)) THEN CondemnRetries ELSE DeferRetries

\* Mutant: the stray is dropped in silence.
CollectShedSilent(h, f) ==
  /\ f.rejects >= RejectBudget(f)
  /\ condemned' = Set(AfterFind(condemned, Stream(f)), Stream(f), CondemnTtl)
  /\ rx_remove_at(h)
  /\ defer' = [defer EXCEPT ![h] = LookedUp(h)]
  /\ UNCHANGED <<map, toPeer, history>>

\* RX_DONE with verdict 1, the reject budget spent: acknowledge, discard
\* and condemn the stream.
CollectShed(h, f) ==
  /\ f.rejects >= RejectBudget(f)
  /\ Reply(f.src, "ack", f)
  /\ Stamp(f)
  /\ condemned' = Set(AfterFind(condemned, Stream(f)), Stream(f), CondemnTtl)
  /\ rx_remove_at(h)
  /\ defer' = [defer EXCEPT ![h] = LookedUp(h)]
  /\ shed' = shed \cup {Msg(f)}
  /\ UNCHANGED taken

\* Mutant: the refused frame goes to the back of the queue.
CollectDeferRequeues(h, f) ==
  /\ f.rejects < RejectBudget(f)
  /\ queue' = [queue EXCEPT ![h] = Append(Without(@, Offset(h)),
                                         [f EXCEPT !.rejects = @ + 1])]
  /\ defer' = [defer EXCEPT ![h] = Set(LookedUp(h), Stream(f), DeferDelay)]
  /\ condemned' = AfterFind(condemned, Stream(f))
  /\ UNCHANGED <<map, toPeer, history>>

\* ... and not spent: the frame stays and its stream is deferred.
CollectDefer(h, f) ==
  /\ f.rejects < RejectBudget(f)
  /\ queue' = [queue EXCEPT ![h][Offset(h)].rejects = @ + 1]
  /\ defer' = [defer EXCEPT ![h] = Set(LookedUp(h), Stream(f), DeferDelay)]
  /\ condemned' = AfterFind(condemned, Stream(f))
  /\ UNCHANGED <<map, toPeer, history>>

\* A refused broadcast is dropped.
CollectDrop(h) ==
  /\ rx_remove_at(h)
  /\ defer' = [defer EXCEPT ![h] = LookedUp(h)]
  /\ UNCHANGED <<map, condemned, toPeer, history>>

\* Every RX_DONE ends the presentation.
Release(h) == pres' = [pres EXCEPT ![h] = 0]

aun_rx_collect(h, accept) ==
  /\ filter[h] # Closed
  /\ Release(h)
  /\ IF queue[h] = << >> \/ Offset(h) = 0
     THEN /\ defer' = [defer EXCEPT ![h] = LookedUp(h)]
          /\ UNCHANGED <<map, queue, condemned, toPeer, history>>
     ELSE LET f == queue[h][Offset(h)] IN
          \/ accept /\ CollectAccept(h, f)
          \/ ~accept /\ f.src = Local /\ CollectDrop(h)
          \/ ~accept /\ f.src # Local /\ CollectShed(h, f)
          \/ ~accept /\ f.src # Local /\ CollectDefer(h, f)
  /\ UNCHANGED <<filter, buf, peer, toEngine, budget>>

\* Time passes.
Tick ==
  /\ defer' = [h \in Blocks |-> Age(defer[h])]
  /\ condemned' = Age(condemned)
  /\ UNCHANGED <<map, filter, queue, pres, buf, netVars, budget, history>>

-----------------------------------------------------------------------------
Engine == \E s \in Srcs : RxData(s)

Host ==
  \/ \E h \in Blocks, accept \in BOOLEAN : aun_rx_collect(h, accept)
  \/ \E h \in Blocks : aun_rx_poll(h) \/ aun_rx_ready(h) \/ aun_rx_close(h)
  \/ \E h \in Blocks, f \in Filters : aun_rx_open(h, f)
  \/ \E s \in Srcs, stn \in Stns : aun_map_add(stn, s)
  \/ aun_init

Network ==
  \/ \E s \in Srcs : \/ PeerSend(s) \/ PeerRecv(s) \/ PeerAbandon(s)
                     \/ PeerRestart(s) \/ Lose(s)
  \/ \E p \in Ports, stn \in Stns \cup {None} : RxBroadcast(p, stn)

Next == Engine \/ Host \/ Network \/ Tick

Spec == Init /\ [][Next]_vars

\* The host answers a frame it can be presented with.
HostServes(h) ==
  Offset(h) # 0 /\ \E accept \in BOOLEAN : aun_rx_collect(h, accept)

\* Peers retransmit until acknowledged, the main loop takes datagrams off
\* the wire, time passes, and the ROM's pump serves nIRQ.
Fairness ==
  /\ \A s \in Srcs : /\ WF_vars(PeerSend(s)) /\ WF_vars(PeerRecv(s))
                     /\ WF_vars(RxData(s))
  /\ \A h \in Blocks : WF_vars(HostServes(h))
  /\ WF_vars(Tick)

FairSpec == Spec /\ Fairness

-----------------------------------------------------------------------------
(* Properties *)

Frames == [src : Srcs \cup {Local}, inc : 0 .. MaxRestart,
           seq : 0 .. MaxSeq, port : Ports, rejects : 0 .. DeferRetries]
Entries(max) == [stream : {NoStream} \cup (Srcs \X Ports), left : 0 .. max]

\* rejects is a uint8_t in the code; it never passes the larger budget.
TypeOK ==
  /\ map \in Seq([stn : Stns, src : Srcs, last : 0 .. MaxSeq])
  /\ Len(map) <= IF MapMax > Len(StaticMap) THEN MapMax ELSE Len(StaticMap)
  /\ filter \in [Blocks -> Filters \cup {Closed}]
  /\ \A h \in Blocks : /\ queue[h] \in Seq(Frames)
                       /\ Len(queue[h]) <= RxQueue
                       /\ pres[h] \in 0 .. Len(queue[h])
  /\ defer \in [Blocks -> [1 .. DeferSlots -> Entries(DeferDelay)]]
  /\ condemned \in [1 .. CondemnSlots -> Entries(CondemnTtl)]
  /\ \A s \in Srcs : Len(toPeer[s]) <= MaxNet /\ Len(toEngine[s]) <= MaxNet

\* An ACK on the wire answers a message the host accepted, or one shed after
\* its whole reject budget: "the ACK is the delivery confirmation"
\* (aun.h), with the condemned-stream exception the same comment makes.
AckTruthful ==
  \A s \in Srcs : \A i \in DOMAIN toPeer[s] :
     LET a == toPeer[s][i] IN
     a.type = "ack" =>
       \E m \in Confirmed : m.src = s /\ m.inc = a.inc /\ m.seq = a.seq

\* AckTruthful, as long as no peer has restarted its sequence numbers: a
\* re-ACK (aun_udp_input) is then of the very message collected last.
AckTruthfulUnrestarted == (\A s \in Srcs : peer[s].inc = 0) => AckTruthful

\* No message reaches the host twice: a retransmission of a collected frame
\* is "re-ACKed but not delivered twice" (aun.c).
DeliveredOnce ==
  \A i, j \in DOMAIN taken : taken[i] = taken[j] => i = j

\* No message is both accepted by the host and discarded.
NotShedAndTaken == Range(taken) \cap shed = {}

\* The messages of a stream reach the host in the order they were sent, also
\* when an earlier one was deferred (rx_first_eligible).
StreamOrder ==
  \A i, j \in DOMAIN taken :
     i < j /\ Stream(taken[i]) = Stream(taken[j]) =>
       \/ taken[i].inc < taken[j].inc
       \/ taken[i].inc = taken[j].inc /\ taken[i].seq <= taken[j].seq

\* What the host reads in its buffer is the frame the next RX_DONE answers:
\* nothing moves the queue under a presented frame.
PresentedStable ==
  \A h \in Blocks : pres[h] # 0 =>
     pres[h] <= Len(queue[h]) /\ buf[h] = Msg(queue[h][pres[h]])

\* Each table holds a stream at most once (the comment in condemn_set says
\* what a second entry would do), and a live deferral is of a stream with a
\* queued frame that is not the presented one, so a full queue still leaves a
\* slot for every stream: "the table cannot over-subscribe" (defer_set).
TablesSound ==
  /\ NoDuplicates(condemned)
  /\ \A h \in Blocks :
       /\ NoDuplicates(defer[h])
       /\ \A i \in DOMAIN defer[h] : defer[h][i].left > 0 =>
            /\ \E k \in DOMAIN queue[h] : Stream(queue[h][k]) = defer[h][i].stream
            /\ pres[h] \in DOMAIN queue[h] => Stream(queue[h][pres[h]]) # defer[h][i].stream

\* While a wildcard block listens, a peer is released from every transaction
\* even if the host takes nothing: a stray is acknowledged once its budget is
\* spent.
PeerReleased ==
  \A s \in Srcs, n \in 1 .. MaxSeq :
     (\E h \in Blocks : filter[h] = [port |-> Wild, stn |-> Wild])
         /\ peer[s].seq = n
       ~> peer[s].seq > n
=============================================================================
