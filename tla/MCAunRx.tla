------------------------------ MODULE MCAunRx ------------------------------
(* AunRx for TLC: two small worlds in one run.  In "queue" (the constants of *)
(* AunRx.cfg) one peer may give transactions up and the host administers its *)
(* blocks; in "peer" a learned peer retransmits to two overlapping blocks    *)
(* over a lossy network until it is released.                                *)
EXTENDS AunRx

EmptyMap == << >>
NoLearn  == [s \in Srcs |-> None]
Funnel   == {[port |-> Wild, stn |-> Wild]}

Peer == INSTANCE AunRx WITH
  Srcs <- {"a"}, Stns <- {"fs"}, Learn <- [s \in {"a"} |-> "fs"], MapMax <- 2,
  Blocks <- {0, 1}, Filters <- Funnel \cup {[port |-> "data", stn |-> Wild]},
  RxQueue <- 1, DeferSlots <- 1, DeferDelay <- 1, CondemnTtl <- 1,
  Oversize <- {}, MayAbandon <- FALSE,
  MaxSeq <- 2, MaxLoss <- 1, MaxAdmin <- 0, MaxRestart <- 0

VARIABLE world

worldVars == <<world, vars>>
In(w) == world = w

MCInit ==
  \/ In("queue") /\ Init
  \/ In("peer") /\ Peer!Init
MCNext ==
  /\ world' = world
  /\ \/ In("queue") /\ Next
     \/ In("peer") /\ Peer!Next

\* Peer!Fairness, in the peer's world.
MCFairness ==
  /\ WF_worldVars(In("peer") /\ Peer!PeerSend("a") /\ world' = world)
  /\ WF_worldVars(In("peer") /\ Peer!PeerRecv("a") /\ world' = world)
  /\ WF_worldVars(In("peer") /\ Peer!RxData("a") /\ world' = world)
  /\ \A h \in {0, 1} : WF_worldVars(In("peer") /\ Peer!HostServes(h) /\ world' = world)
  /\ WF_worldVars(In("peer") /\ Peer!Tick /\ world' = world)

MCSpec == MCInit /\ [][MCNext]_worldVars /\ MCFairness

-----------------------------------------------------------------------------
\* StreamOrder, PresentedStable, AckTruthfulUnrestarted and TablesSound speak
\* of block 0 and of peer "a", which both worlds have; they are checked in both.

\* Retransmissions to two overlapping blocks reach the host once, and a
\* message the engine sheds as a stray never does (aun_udp_input).
DeliveredOrShedOnce == In("peer") => Peer!DeliveredOnce /\ Peer!NotShedAndTaken

Wildcard(h) == filter[h] = [port |-> Wild, stn |-> Wild]
PeerAt(n) ==
  IF In("peer") THEN peer["a"].seq = n /\ (\E h \in DOMAIN filter : Wildcard(h)) ELSE FALSE
PeerPast(n) == IF In("peer") THEN peer["a"].seq > n ELSE FALSE

\* While a wildcard block listens, a peer is released from every transaction
\* even if the host takes nothing (aun_rx_collect sheds and acknowledges).
PeersReleased == \A n \in 1 .. 2 : PeerAt(n) ~> PeerPast(n)
=============================================================================
