---------------------------- MODULE AunRxProofs ----------------------------
(***************************************************************************)
(* Proofs about AunRx.  Four inductive invariants, each on top of Inv:     *)
(*   Inv       types, array bounds and the state of every receive block:   *)
(*             the presented frame, the tables and what they speak of;     *)
(*   AckInv    what the ACKs, last_rx_seq and the queues know of the       *)
(*             messages confirmed, as long as no peer has restarted;       *)
(*   OrderInv  a stream is in order from the peer to the host;             *)
(*   OnceInv   where each peer stands with the last message confirmed.     *)
(* A lemma XInductive holds the lemmas that only its own proof needs, as   *)
(* named steps; those that several proofs need are lemmas of the module.   *)
(***************************************************************************)
EXTENDS AunRx, TLAPS

\* A set of naturals has a least element.  The lemmas that look for a first entry
\* take it as a hypothesis, and NatWellOrdered, at the end of the module, discharges
\* it: the theorems of WellFoundedInduction are instantiated only there, because
\* the provers carry whatever precedes a step along with it.
WellOrdered == \A S \in SUBSET Nat : S # {} => \E x \in S : \A y \in S : x <= y

\* The indices of a sequence that has grown by one.
LEMMA NextIndex ==
  \A a \in Nat : /\ \A k \in 1 .. a + 1 : k \in 1 .. a \/ k = a + 1
                 /\ \A j, k \in 1 .. a + 1 : j < k => j \in 1 .. a
  OBVIOUS

\* What the host's buffer keeps of a frame.
LEMMA MsgIs ==
  \A f : /\ Msg(f).src = f.src /\ Msg(f).inc = f.inc
         /\ Msg(f).seq = f.seq /\ Msg(f).port = f.port
  BY DEF Msg

\* Min picks the least element.
LEMMA MinIs ==
  ASSUME WellOrdered, NEW S \in SUBSET Nat, S # {}
  PROVE  Min(S) \in S /\ \A y \in S : Min(S) <= y
  BY Zenon DEF WellOrdered, Min

\* The first entry of a source (map_find_by_ip).
LEMMA ByIpIs ==
  ASSUME WellOrdered, NEW T, NEW m \in Seq(T), NEW s
  PROVE  \/ ByIp(m, s) = 0 /\ \A i \in 1 .. Len(m) : m[i].src # s
         \/ ByIp(m, s) \in 1 .. Len(m) /\ m[ByIp(m, s)].src = s
            /\ \A i \in 1 .. Len(m) : m[i].src = s => ByIp(m, s) <= i
<1> DEFINE I == {i \in 1 .. Len(m) : m[i].src = s}
<1>1. ByIp(m, s) = IF I # {} THEN Min(I) ELSE 0
  <2>1. DOMAIN m = 1 .. Len(m)
    OBVIOUS
  <2> QED
    BY <2>1, Zenon DEF ByIp, FirstOf
<1>2. I \in SUBSET Nat
  OBVIOUS
<1>3. CASE I # {}
  <2>1. Min(I) \in I /\ \A y \in I : Min(I) <= y
    BY <1>2, <1>3, MinIs, Zenon
  <2> QED
    BY <1>1, <1>3, <2>1, Zenon
<1> QED
  BY <1>1, <1>3, Zenon
\* The first entry of a station (map_find_by_addr).
LEMMA ByAddrIs ==
  ASSUME WellOrdered, NEW T, NEW m \in Seq(T), NEW stn
  PROVE  \/ ByAddr(m, stn) = 0 /\ \A i \in 1 .. Len(m) : m[i].stn # stn
         \/ ByAddr(m, stn) \in 1 .. Len(m) /\ m[ByAddr(m, stn)].stn = stn
<1> DEFINE I == {i \in 1 .. Len(m) : m[i].stn = stn}
<1>1. ByAddr(m, stn) = IF I # {} THEN Min(I) ELSE 0
  <2>1. DOMAIN m = 1 .. Len(m)
    OBVIOUS
  <2> QED
    BY <2>1, Zenon DEF ByAddr, FirstOf
<1>2. I \in SUBSET Nat
  OBVIOUS
<1>3. CASE I # {}
  <2>1. Min(I) \in I
    BY <1>2, <1>3, MinIs, Zenon
  <2> QED
    BY <1>1, <1>3, <2>1, Zenon
<1> QED
  BY <1>1, <1>3, Zenon

\* rx_remove_at: the frames after the one removed move up.
LEMMA WithoutIs ==
  ASSUME NEW T, NEW q \in Seq(T), NEW i \in 1 .. Len(q)
  PROVE  /\ Without(q, i) \in Seq(T) /\ Len(Without(q, i)) = Len(q) - 1
         /\ \A k \in 1 .. Len(q) - 1 : Without(q, i)[k] = IF k < i THEN q[k] ELSE q[k + 1]
<1>1. Len(q) \in Nat /\ i \in Nat /\ 1 <= i /\ i <= Len(q)
  OBVIOUS
<1>2. \A k \in 1 .. Len(q) - 1 : (IF k < i THEN q[k] ELSE q[k + 1]) \in T
  BY <1>1
<1>3. Len(q) - 1 \in Nat
  BY <1>1
<1> QED
  BY <1>2, <1>3 DEF Without
-----------------------------------------------------------------------------
(* The tables of streams (defer_find, defer_set, condemn_find, condemn_set). *)

\* The streams the tables are keyed by: a source and a port.
Streams == Srcs \X Ports

\* A table of n entries, each with at most max ticks left.
Tables(n, max) == [1 .. n -> Entries(max)]

\* What a lookup, a sweep or a lifted condemnation leaves: entries as they were,
\* or vacant.
Thinned(u, t) == DOMAIN u = DOMAIN t /\ \A i \in DOMAIN t : u[i] = t[i] \/ u[i] = Vacant

\* A vacant entry is an entry.
LEMMA VacantIs ==
  ASSUME NEW max \in Nat
  PROVE  Vacant \in Entries(max) /\ Vacant.left = 0 /\ Vacant.stream = NoStream
  BY DEF Vacant, Entries

\* A thinned table is a table, holds no stream twice and has no new live entry.
LEMMA ThinnedIs ==
  ASSUME NEW n \in Nat, NEW max \in Nat, NEW t \in Tables(n, max), NEW u, Thinned(u, t),
         u = [i \in 1 .. n |-> u[i]]
  PROVE  /\ u \in Tables(n, max)
         /\ NoDuplicates(t) => NoDuplicates(u)
         /\ \A i \in 1 .. n : u[i].left > 0 => u[i] = t[i]
<1>1. DOMAIN t = 1 .. n /\ \A i \in 1 .. n : t[i] \in Entries(max)
  BY DEF Tables
<1>2. Vacant \in Entries(max) /\ Vacant.left = 0 /\ Vacant.stream = NoStream
  BY VacantIs
<1>3. \A i \in 1 .. n : u[i] \in Entries(max)
  BY <1>1, <1>2, Zenon DEF Thinned
<1>4. u \in Tables(n, max)
  BY <1>3, Zenon DEF Tables
<1>5. NoDuplicates(t) => NoDuplicates(u)
  <2> SUFFICES ASSUME NoDuplicates(t), NEW i \in 1 .. n, NEW j \in 1 .. n,
                      u[i].stream = u[j].stream, u[i].stream # NoStream
               PROVE  i = j
    BY <1>1, Zenon DEF Thinned, NoDuplicates
  <2>1. u[i] = t[i] /\ u[j] = t[j]
    BY <1>1, <1>2, Zenon DEF Thinned
  <2> QED
    BY <1>1, <2>1, Zenon DEF NoDuplicates
<1>6. \A i \in 1 .. n : u[i].left > 0 => u[i] = t[i]
  BY <1>1, <1>2 DEF Thinned
<1> QED
  BY <1>4, <1>5, <1>6, Zenon

\* The first entry of a stream is one of its entries.
LEMMA OwnIs ==
  ASSUME WellOrdered, NEW n \in Nat, NEW t, DOMAIN t = 1 .. n, NEW s, Own(t, s) # {}
  PROVE  Min(Own(t, s)) \in 1 .. n /\ t[Min(Own(t, s))].stream = s
<1>1. DOMAIN t = 1 .. n
  OBVIOUS
<1>2. Own(t, s) \in SUBSET (1 .. n)
  BY <1>1, Zenon DEF Own
<1>3. Own(t, s) \in SUBSET Nat
  BY <1>2
<1>4. Min(Own(t, s)) \in Own(t, s)
  BY <1>3, MinIs, Zenon
<1> QED
  BY <1>1, <1>4, Zenon DEF Own

-----------------------------------------------------------------------------
(* A receive block.  The parts of the invariant take the block's state as    *)
(* arguments: queue q, presented frame p, buffer b and deferrals d.          *)

\* The larger reject budget bounds the count of every frame.
Budget == IF CondemnRetries <= DeferRetries THEN DeferRetries ELSE CondemnRetries

\* The frames a queue holds.
QFrames ==
  {f \in [src : Srcs \cup {Local}, inc : 0 .. MaxRestart, seq : 0 .. MaxSeq,
          port : Ports, rejects : 0 .. Budget] : f.src # Local => f.seq # 0}

\* The defer table of a block.
Deferrals == Tables(DeferSlots, DeferDelay)

\* No live deferral in d is of the stream of frame f.
Undeferred(d, f) == \A i \in 1 .. DeferSlots : d[i].left > 0 => d[i].stream # Stream(f)

\* No frame before place p in q is of the stream of the frame at p.
FirstOfStream(q, p) ==
  q[p].src # Local => \A k \in 1 .. Len(q) : k < p => Stream(q[k]) # Stream(q[p])

\* The frame at place p may be answered.
Chosen(q, d, p) == p \in 1 .. Len(q) /\ Undeferred(d, q[p]) /\ FirstOfStream(q, p)

\* Every live deferral is of a stream with a queued frame.
Backed(q, d) ==
  \A i \in 1 .. DeferSlots :
    d[i].left > 0 => \E k \in 1 .. Len(q) : Stream(q[k]) = d[i].stream

\* The invariant of a block: PresentedStable and TablesSound, and the presented
\* frame is the first of its stream.
BlockOK(q, p, b, d) ==
  /\ p # 0 => Chosen(q, d, p) /\ b = Msg(q[p])
  /\ NoDuplicates(d) /\ Backed(q, d)

\* The constants.
LEMMA Consts ==
  /\ RxQueue \in Nat \ {0} /\ DeferSlots \in Nat \ {0} /\ CondemnSlots \in Nat \ {0}
  /\ DeferDelay \in Nat \ {0} /\ CondemnTtl \in Nat \ {0}
  /\ MapMax \in Nat /\ DeferRetries \in Nat /\ CondemnRetries \in Nat /\ MaxSeq \in Nat
  /\ MaxNet \in Nat /\ MaxRestart \in Nat
  /\ RxQueue \in Nat /\ DeferSlots \in Nat /\ CondemnSlots \in Nat
  /\ DeferDelay \in Nat /\ CondemnTtl \in Nat
<1>1. \A n \in {RxQueue, DeferSlots, CondemnSlots, DeferDelay, CondemnTtl} : n \in Nat \ {0}
  BY AunRxAssumption, Zenon DEF AunRxAssumption
<1>2. \A n \in {MapMax, DeferRetries, CondemnRetries, MaxSeq, MaxNet,
                MaxLoss, MaxAdmin, MaxRestart} : n \in Nat
  BY AunRxAssumption, Zenon DEF AunRxAssumption
<1>3. \A n \in Nat \ {0} : n \in Nat
  OBVIOUS
<1> QED
  BY <1>1, <1>2, <1>3, Zenon

\* A frame's stream is one of a table when the frame is a peer's, and none is a
\* broadcast's.
LEMMA StreamIs ==
  ASSUME NEW f \in QFrames
  PROVE  /\ Stream(f) # NoStream
         /\ f.src # Local => Stream(f) \in Streams
         /\ f.src = Local => Stream(f) \notin Streams
<1>1. f.src \in Srcs \cup {Local} /\ f.port \in Ports
  BY DEF QFrames
<1>2. Local \notin Srcs
  BY AunRxAssumption, Zenon DEF AunRxAssumption
<1> QED
  BY <1>1, <1>2 DEF Stream, Streams, NoStream

\* A sweep of the deferrals, the presentation kept or ended.
LEMMA BlockThinned ==
  ASSUME NEW q, NEW p, NEW b, NEW d \in Deferrals, BlockOK(q, p, b, d),
         NEW u, Thinned(u, d), u = [i \in 1 .. DeferSlots |-> u[i]]
  PROVE  /\ u \in Deferrals /\ BlockOK(q, p, b, u) /\ BlockOK(q, 0, b, u)
         /\ \A f : Undeferred(d, f) => Undeferred(u, f)
<1>1. /\ u \in Deferrals /\ NoDuplicates(u)
      /\ \A i \in 1 .. DeferSlots : u[i].left > 0 => u[i] = d[i]
  <2>1. d \in Tables(DeferSlots, DeferDelay) /\ NoDuplicates(d)
    BY Zenon DEF Deferrals, BlockOK
  <2>2. DeferSlots \in Nat /\ DeferDelay \in Nat
    BY Consts, Zenon
  <2>3. /\ u \in Tables(DeferSlots, DeferDelay) /\ (NoDuplicates(d) => NoDuplicates(u))
        /\ \A i \in 1 .. DeferSlots : u[i].left > 0 => u[i] = d[i]
    BY <2>1, <2>2, ThinnedIs
  <2> QED
    BY <2>1, <2>3, Zenon DEF Deferrals
<1>2. Backed(q, u)
  BY <1>1, Zenon DEF BlockOK, Backed
<1>3. \A f : Undeferred(d, f) => Undeferred(u, f)
  BY <1>1, Zenon DEF Undeferred
<1> QED
  BY <1>1, <1>2, <1>3, Zenon DEF BlockOK, Chosen

-----------------------------------------------------------------------------
(* The invariant: types, bounds and the state of every block.               *)

\* The datagrams of the peers, and the answers to them.
Wire == [src : Srcs, inc : 0 .. MaxRestart, seq : 1 .. MaxSeq, port : Ports]

\* The two answers to a data frame.
Kinds == {"ack", "nak"}

\* The fields of a datagram, and the two answers.
LEMMA WireIs ==
  /\ \A m \in Wire : /\ m.src \in Srcs /\ m.inc \in 0 .. MaxRestart
                      /\ m.seq \in 0 .. MaxSeq /\ m.seq \in Nat
  /\ "ack" \in Kinds /\ "nak" \in Kinds
  BY Consts DEF Wire, Kinds

\* An answer on the wire, with the numbers of the frame it answers.
Answers == [type : Kinds, inc : 0 .. MaxRestart, seq : 0 .. MaxSeq]

\* The transaction a peer is at.
Sending == [inc : 0 .. MaxRestart, seq : Nat \ {0}, port : Ports]

\* A station of the map: its address and its last_rx_seq.
MapEntries == [stn : Stns, src : Srcs, last : 0 .. MaxSeq]

\* The station map outgrows neither its array nor its configuration.
MapCap == IF MapMax > Len(StaticMap) THEN MapMax ELSE Len(StaticMap)

\* The station map within its bound.
MapOK(m) == m \in Seq(MapEntries) /\ Len(m) <= MapCap

\* The datagrams in flight: only peer s sends in its direction.
InOK(t) ==
  /\ t \in [Srcs -> Seq(Wire)]
  /\ \A s \in Srcs : Len(t[s]) <= MaxNet /\ \A k \in 1 .. Len(t[s]) : t[s][k].src = s

\* The answers in flight.
OutOK(t) == t \in [Srcs -> Seq(Answers)] /\ \A s \in Srcs : Len(t[s]) <= MaxNet

\* What the host took and what was shed came off the wire.
HistoryOK(tk, sh) == tk \in Seq(Wire) /\ sh \in SUBSET Wire

\* The condemn table holds a stream at most once.
CondemnedOK(c) == c \in Tables(CondemnSlots, CondemnTtl) /\ NoDuplicates(c)

\* Every receive block is sound, its queue within the array.
BlocksOK(q, p, b, d) ==
  /\ q \in [Blocks -> Seq(QFrames)] /\ p \in [Blocks -> Nat] /\ d \in [Blocks -> Deferrals]
  /\ b = [h \in Blocks |-> b[h]]
  /\ \A h \in Blocks : Len(q[h]) <= RxQueue /\ BlockOK(q[h], p[h], b[h], d[h])

\* A block is closed or listens to a filter RX_OPEN was given.
FilterOK(f) == f \in [Blocks -> Filters \cup {Closed}]

\* The inductive invariant behind the type and table theorems.
Inv ==
  /\ MapOK(map) /\ FilterOK(filter) /\ BlocksOK(queue, pres, buf, defer)
  /\ CondemnedOK(condemned) /\ peer \in [Srcs -> Sending]
  /\ InOK(toEngine) /\ OutOK(toPeer) /\ HistoryOK(taken, shed)

\* g is f but at h.
But(g, f, h) == g = [f EXCEPT ![h] = g[h]]

\* What is assigned at h, and what is not.
LEMMA ButIs ==
  ASSUME NEW f, f = [g \in Blocks |-> f[g]], NEW h \in Blocks
  PROVE  /\ But(f, f, h)
         /\ \A x : But([f EXCEPT ![h] = x], f, h) /\ [f EXCEPT ![h] = x][h] = x
  BY DEF But

\* What the invariant says of one block.
LEMMA BlockFacts ==
  ASSUME Inv, NEW h \in Blocks
  PROVE  /\ queue[h] \in Seq(QFrames) /\ Len(queue[h]) <= RxQueue /\ Len(queue[h]) \in Nat
         /\ pres[h] \in Nat /\ defer[h] \in Deferrals
         /\ BlockOK(queue[h], pres[h], buf[h], defer[h])
         /\ queue = [g \in Blocks |-> queue[g]] /\ pres = [g \in Blocks |-> pres[g]]
         /\ buf = [g \in Blocks |-> buf[g]] /\ defer = [g \in Blocks |-> defer[g]]
         /\ But(queue, queue, h) /\ But(pres, pres, h) /\ But(buf, buf, h) /\ But(defer, defer, h)
<1>1. BlocksOK(queue, pres, buf, defer)
  BY Zenon DEF Inv
<1>2. /\ queue \in [Blocks -> Seq(QFrames)] /\ pres \in [Blocks -> Nat]
      /\ defer \in [Blocks -> Deferrals] /\ buf = [g \in Blocks |-> buf[g]]
  BY <1>1, Zenon DEF BlocksOK
<1>3. /\ queue = [g \in Blocks |-> queue[g]] /\ pres = [g \in Blocks |-> pres[g]]
      /\ defer = [g \in Blocks |-> defer[g]]
  BY <1>2
<1>4. /\ But(queue, queue, h) /\ But(pres, pres, h) /\ But(buf, buf, h) /\ But(defer, defer, h)
  BY <1>2, <1>3, ButIs, Zenon
<1>5. queue[h] \in Seq(QFrames) /\ pres[h] \in Nat /\ defer[h] \in Deferrals
  BY <1>2
<1>6. Len(queue[h]) \in Nat
  BY <1>5
<1> QED
  BY <1>1, <1>2, <1>3, <1>4, <1>5, <1>6, Zenon DEF BlocksOK

\* Swept only takes expired deferrals away.
LEMMA SweptIs ==
  ASSUME NEW h, defer[h] \in Deferrals, NEW n
  PROVE  Thinned(Swept(h, n), defer[h]) /\ Swept(h, n) = [i \in 1 .. DeferSlots |-> Swept(h, n)[i]]
<1>1. DOMAIN defer[h] = 1 .. DeferSlots
  BY DEF Deferrals, Tables
<1> QED
  BY <1>1, Zenon DEF Swept, Thinned

\* The frame RX_DONE is about may be answered, and the lookups before it leave
\* the block as the invariant says.
LEMMA OffsetIs ==
  WellOrdered /\ Inv =>
    \A h \in Blocks : /\ LookedUp(h) \in Deferrals /\ BlockOK(queue[h], 0, buf[h], LookedUp(h))
                      /\ Offset(h) # 0 => Chosen(queue[h], LookedUp(h), Offset(h))
<1> SUFFICES ASSUME WellOrdered
             PROVE  Inv => \A h \in Blocks :
                             /\ LookedUp(h) \in Deferrals
                             /\ BlockOK(queue[h], 0, buf[h], LookedUp(h))
                             /\ Offset(h) # 0 => Chosen(queue[h], LookedUp(h), Offset(h))
  BY Zenon
\* rx_first_eligible.
<1>FirstIs.
    ASSUME NEW T, NEW h \in Blocks, queue[h] \in Seq(T)
    PROVE  \/ /\ rx_first_eligible(h) = 0
              /\ \A i \in 1 .. Len(queue[h]) : ~Eligible(h, queue[h][i])
           \/ /\ rx_first_eligible(h) \in 1 .. Len(queue[h])
              /\ Eligible(h, queue[h][rx_first_eligible(h)])
              /\ \A i \in 1 .. Len(queue[h]) :
                   i < rx_first_eligible(h) => ~Eligible(h, queue[h][i])
  <2> USE <1>FirstIs
  <2> DEFINE I == {i \in 1 .. Len(queue[h]) : Eligible(h, queue[h][i])}
  <2>1. rx_first_eligible(h) = IF I # {} THEN Min(I) ELSE 0
    <3>1. DOMAIN queue[h] = 1 .. Len(queue[h])
      OBVIOUS
    <3> QED
      BY <3>1, Zenon DEF rx_first_eligible, FirstOf
  <2>2. I \in SUBSET Nat
    OBVIOUS
  <2>3. CASE I # {}
    <3>1. Min(I) \in I /\ \A y \in I : Min(I) <= y
      BY <2>2, <2>3, MinIs, Zenon
    <3>2. \A i \in 1 .. Len(queue[h]) : i < Min(I) => i \notin I
      BY <2>2, <3>1
    <3> QED
      BY <2>1, <2>3, <3>1, <3>2, Zenon
  <2> QED
    BY <2>1, <2>3, Zenon
\* A stream has a live entry exactly when the lookup says so.
<1>LiveIs.
    ASSUME NEW n \in Nat, NEW max \in Nat, NEW t \in Tables(n, max), NEW s
    PROVE  /\ Live(t, s) => \E i \in 1 .. n : t[i].stream = s /\ t[i].left > 0
           /\ NoDuplicates(t) /\ s # NoStream =>
                \A i \in 1 .. n : t[i].stream = s /\ t[i].left > 0 => Live(t, s)
  <2> USE <1>LiveIs
  <2>1. DOMAIN t = 1 .. n
    BY Zenon DEF Tables
  <2>2. Live(t, s) => \E i \in 1 .. n : t[i].stream = s /\ t[i].left > 0
    <3> SUFFICES ASSUME Live(t, s) PROVE \E i \in 1 .. n : t[i].stream = s /\ t[i].left > 0
      BY Zenon
    <3>1. Own(t, s) # {} /\ t[Min(Own(t, s))].left > 0
      BY Zenon DEF Live
    <3>2. Min(Own(t, s)) \in 1 .. n /\ t[Min(Own(t, s))].stream = s
      BY <2>1, <3>1, OwnIs, Zenon
    <3> QED
      BY <3>1, <3>2, Zenon
  <2>3. ASSUME NoDuplicates(t), s # NoStream, NEW i \in 1 .. n, t[i].stream = s, t[i].left > 0
        PROVE  Live(t, s)
    <3>1. Own(t, s) # {}
      BY <2>1, <2>3, Zenon DEF Own
    <3>2. Min(Own(t, s)) \in 1 .. n /\ t[Min(Own(t, s))].stream = s
      BY <2>1, <3>1, OwnIs, Zenon
    <3>3. Min(Own(t, s)) = i
      BY <2>1, <2>3, <3>2, Zenon DEF NoDuplicates
    <3> QED
      BY <2>3, <3>1, <3>3, Zenon DEF Live
  <2> QED
    BY <2>2, <2>3, Zenon
\* The first eligible frame may be answered.
<1>FirstChosen.
    ASSUME Inv, NEW h \in Blocks, rx_first_eligible(h) # 0
    PROVE  Chosen(queue[h], defer[h], rx_first_eligible(h))
  <2> USE <1>FirstChosen
  <2> DEFINE q == queue[h]
             d == defer[h]
             i == rx_first_eligible(h)
  <2>1. q \in Seq(QFrames) /\ d \in Deferrals /\ NoDuplicates(d) /\ Len(q) \in Nat
    BY BlockFacts, Zenon DEF BlockOK
  <2>2. /\ i \in 1 .. Len(q) /\ Eligible(h, q[i])
        /\ \A k \in 1 .. Len(q) : k < i => ~Eligible(h, q[k])
    BY <2>1, <1>FirstIs, Zenon
  <2>3. \A k \in 1 .. Len(q) : q[k] \in QFrames
    BY <2>1
  <2>4. d \in Tables(DeferSlots, DeferDelay) /\ DeferSlots \in Nat /\ DeferDelay \in Nat
    BY <2>1, Consts, Zenon DEF Deferrals
  <2>5. \A j \in 1 .. DeferSlots : d[j].left > 0 => d[j].stream \in {NoStream} \cup Streams
    BY <2>4 DEF Tables, Entries, Streams
  <2>6. \A s : Live(d, s) => \E j \in 1 .. DeferSlots : d[j].stream = s /\ d[j].left > 0
    BY <2>4, <1>LiveIs
  <2>7. \A s : s # NoStream =>
          \A j \in 1 .. DeferSlots : d[j].stream = s /\ d[j].left > 0 => Live(d, s)
    BY <2>1, <2>4, <1>LiveIs, Zenon
  <2>8. \A k \in 1 .. Len(q) : Eligible(h, q[k]) => Undeferred(d, q[k])
    <3> SUFFICES ASSUME NEW k \in 1 .. Len(q), Eligible(h, q[k]), NEW j \in 1 .. DeferSlots,
                        d[j].left > 0, d[j].stream = Stream(q[k])
                 PROVE  FALSE
      BY Zenon DEF Undeferred
    <3>1. Stream(q[k]) # NoStream /\ (q[k].src = Local => Stream(q[k]) \notin Streams)
      BY <2>3, StreamIs, Zenon
    <3>2. q[k].src # Local
      BY <2>5, <3>1
    <3>3. ~Live(d, Stream(q[k]))
      BY <3>2, Zenon DEF Eligible
    <3> QED
      BY <2>7, <3>1, <3>3, Zenon
  <2>9. Undeferred(d, q[i])
    BY <2>2, <2>8, Zenon
  <2>10. FirstOfStream(q, i)
    <3> SUFFICES ASSUME NEW k \in 1 .. Len(q), k < i, Stream(q[k]) = Stream(q[i])
                 PROVE  FALSE
      BY Zenon DEF FirstOfStream
    <3>1. Live(d, Stream(q[k]))
      BY <2>2, Zenon DEF Eligible
    <3> QED
      BY <2>6, <2>9, <3>1, Zenon DEF Undeferred
  <2> QED
    BY <2>2, <2>9, <2>10, Zenon DEF Chosen
<1> SUFFICES ASSUME Inv, NEW h \in Blocks
             PROVE  /\ LookedUp(h) \in Deferrals /\ BlockOK(queue[h], 0, buf[h], LookedUp(h))
                    /\ Offset(h) # 0 => Chosen(queue[h], LookedUp(h), Offset(h))
  BY Zenon
<1>1. BlockOK(queue[h], pres[h], buf[h], defer[h]) /\ defer[h] \in Deferrals
  BY BlockFacts, Zenon
<1>2. CASE pres[h] # 0
  <2>1. Offset(h) = pres[h] /\ LookedUp(h) = defer[h]
    BY <1>2, Zenon DEF Offset, LookedUp
  <2> QED
    BY <1>1, <1>2, <2>1, Zenon DEF BlockOK
<1>3. CASE pres[h] = 0
  <2> DEFINE u == Swept(h, Looked(h))
  <2>1. Offset(h) = rx_first_eligible(h) /\ LookedUp(h) = u
    BY <1>3, Zenon DEF Offset, LookedUp
  <2>2. Thinned(u, defer[h]) /\ u = [i \in 1 .. DeferSlots |-> u[i]]
    BY <1>1, SweptIs, Zenon
  <2> HIDE DEF u
  <2>3. /\ u \in Deferrals /\ BlockOK(queue[h], 0, buf[h], u)
        /\ \A f : Undeferred(defer[h], f) => Undeferred(u, f)
    BY <1>1, <2>2, BlockThinned, Zenon
  <2>4. Offset(h) # 0 => Chosen(queue[h], defer[h], Offset(h))
    BY <2>1, <1>FirstChosen, Zenon
  <2> QED
    BY <2>1, <2>3, <2>4, Zenon DEF Chosen
<1> QED
  BY <1>2, <1>3, Zenon
-----------------------------------------------------------------------------
(* The steps.                                                                *)

\* A datagram, or an answer, leaves the network.
LEMMA TailIs ==
  ASSUME NEW T, NEW t \in [Srcs -> Seq(T)], NEW s \in Srcs, t[s] # << >>,
         NEW u, u = [t EXCEPT ![s] = Tail(@)]
  PROVE  /\ u \in [Srcs -> Seq(T)] /\ Len(u[s]) = Len(t[s]) - 1 /\ Len(t[s]) \in Nat \ {0}
         /\ \A k \in 1 .. Len(u[s]) : k + 1 \in 1 .. Len(t[s]) /\ u[s][k] = t[s][k + 1]
         /\ \A x \in Srcs : x # s => u[x] = t[x]
         /\ Head(t[s]) \in T /\ Head(t[s]) = t[s][1] /\ 1 \in 1 .. Len(t[s])
<1>1. t[s] \in Seq(T)
  OBVIOUS
<1>2. Tail(t[s]) \in Seq(T) /\ Len(Tail(t[s])) = Len(t[s]) - 1 /\ Len(t[s]) \in Nat \ {0}
  BY <1>1
<1>3. \A k \in 1 .. Len(Tail(t[s])) : k + 1 \in 1 .. Len(t[s]) /\ Tail(t[s])[k] = t[s][k + 1]
  BY <1>1, <1>2
<1>4. Head(t[s]) \in T /\ Head(t[s]) = t[s][1] /\ 1 \in 1 .. Len(t[s])
  BY <1>1, <1>2
<1>5. u \in [Srcs -> Seq(T)] /\ u[s] = Tail(t[s]) /\ \A x \in Srcs : x # s => u[x] = t[x]
  BY <1>2
<1> QED
  BY <1>2, <1>3, <1>4, <1>5, Zenon

\* A datagram, or an answer, enters the network.
LEMMA SentIs ==
  ASSUME NEW T, NEW t \in [Srcs -> Seq(T)], NEW s \in Srcs, NEW a \in T,
         NEW u, u = [t EXCEPT ![s] = Append(@, a)]
  PROVE  /\ u \in [Srcs -> Seq(T)] /\ Len(u[s]) = Len(t[s]) + 1 /\ Len(t[s]) \in Nat
         /\ \A k \in 1 .. Len(t[s]) : u[s][k] = t[s][k]
         /\ u[s][Len(u[s])] = a
         /\ \A x \in Srcs : x # s => u[x] = t[x]
<1>1. t[s] \in Seq(T)
  OBVIOUS
<1>2. /\ Append(t[s], a) \in Seq(T) /\ Len(Append(t[s], a)) = Len(t[s]) + 1 /\ Len(t[s]) \in Nat
      /\ \A k \in 1 .. Len(t[s]) : Append(t[s], a)[k] = t[s][k]
      /\ Append(t[s], a)[Len(t[s]) + 1] = a
  BY <1>1
<1>3. u \in [Srcs -> Seq(T)] /\ u[s] = Append(t[s], a) /\ \A x \in Srcs : x # s => u[x] = t[x]
  BY <1>2
<1> QED
  BY <1>2, <1>3, Zenon

\* Taking a datagram off the wire: its head is of its source.
LEMMA InTail ==
  ASSUME NEW t, InOK(t), NEW s \in Srcs, t[s] # << >>
  PROVE  /\ InOK([t EXCEPT ![s] = Tail(@)])
         /\ Head(t[s]) \in Wire /\ Head(t[s]).src = s
<1> DEFINE u == [t EXCEPT ![s] = Tail(@)]
<1>0. u = [t EXCEPT ![s] = Tail(@)]
  OBVIOUS
<1> HIDE DEF u
<1>1. t \in [Srcs -> Seq(Wire)]
  BY Zenon DEF InOK
<1>2. /\ u \in [Srcs -> Seq(Wire)] /\ Len(u[s]) = Len(t[s]) - 1 /\ Len(t[s]) \in Nat \ {0}
      /\ \A k \in 1 .. Len(u[s]) : k + 1 \in 1 .. Len(t[s]) /\ u[s][k] = t[s][k + 1]
      /\ \A x \in Srcs : x # s => u[x] = t[x]
      /\ Head(t[s]) \in Wire /\ Head(t[s]) = t[s][1] /\ 1 \in 1 .. Len(t[s])
  BY <1>0, <1>1, TailIs
<1>3. Len(u[s]) <= MaxNet
  <2>1. Len(t[s]) <= MaxNet
    BY Zenon DEF InOK
  <2> QED
    BY <1>2, <2>1, Consts
<1>4. \A k \in 1 .. Len(u[s]) : u[s][k].src = s
  <2>1. \A k \in 1 .. Len(t[s]) : t[s][k].src = s
    BY Zenon DEF InOK
  <2>2. \A k \in 1 .. Len(u[s]) : k + 1 \in 1 .. Len(t[s]) /\ u[s][k] = t[s][k + 1]
    BY <1>2, Zenon
  <2> QED
    BY <2>1, <2>2, Zenon
<1>5. ASSUME NEW x \in Srcs
      PROVE  Len(u[x]) <= MaxNet /\ \A k \in 1 .. Len(u[x]) : u[x][k].src = x
  <2>1. Len(t[x]) <= MaxNet /\ \A k \in 1 .. Len(t[x]) : t[x][k].src = x
    BY Zenon DEF InOK
  <2>2. x # s => u[x] = t[x]
    BY <1>2, Zenon
  <2> QED
    BY <1>3, <1>4, <2>1, <2>2, Zenon
<1>6. Head(t[s]).src = s
  <2>1. Head(t[s]) = t[s][1] /\ 1 \in 1 .. Len(t[s])
    BY <1>2, Zenon
  <2>2. t[s][1].src = s
    BY <2>1, Zenon DEF InOK
  <2> QED
    BY <2>1, <2>2, Zenon
<1> QED
  BY <1>2, <1>5, <1>6, Zenon DEF InOK, u

\* A block with room is one.
LEMMA RoomIs ==
  ASSUME WellOrdered, NEW port, NEW stn, HasRoom(port, stn) # {}
  PROVE  Min(HasRoom(port, stn)) \in Blocks /\ Len(queue[Min(HasRoom(port, stn))]) < RxQueue
<1>1. HasRoom(port, stn) \in SUBSET Nat /\ Blocks \subseteq Nat
  <2>1. Blocks \subseteq Nat
    BY AunRxAssumption, Zenon DEF AunRxAssumption
  <2> QED
    BY <2>1, Zenon DEF HasRoom, Listening
<1>2. Min(HasRoom(port, stn)) \in HasRoom(port, stn)
  BY <1>1, MinIs, Zenon
<1> QED
  BY <1>2, Zenon DEF HasRoom, Listening

\* The frame an RX_DONE is about.
LEMMA AnsweredIs ==
  ASSUME WellOrdered, Inv, NEW h \in Blocks, Offset(h) # 0
  PROVE  LET f == queue[h][Offset(h)] IN
         /\ f \in QFrames /\ f.inc \in 0 .. MaxRestart /\ f.seq \in 0 .. MaxSeq
         /\ f.src # Local => f.src \in Srcs /\ Msg(f) \in Wire /\ Stream(f) \in Streams
<1> DEFINE f == queue[h][Offset(h)]
<1>1. Offset(h) \in 1 .. Len(queue[h]) /\ queue[h] \in Seq(QFrames)
  BY OffsetIs, BlockFacts, Zenon DEF Chosen
<1>2. f \in QFrames
  BY <1>1
<1> HIDE DEF f
<1>3. f.inc \in 0 .. MaxRestart /\ f.seq \in 0 .. MaxSeq
  BY <1>2 DEF QFrames
<1>4. f.src # Local => f.src \in Srcs /\ Msg(f) \in Wire
  BY <1>2, Consts DEF QFrames, Msg, Wire
<1>5. f.src # Local => Stream(f) \in Streams
  BY <1>2, StreamIs, Zenon
<1> QED
  BY <1>2, <1>3, <1>4, <1>5, Zenon DEF f

\* The invariant is inductive.
LEMMA InvInductive == WellOrdered => (Init => Inv) /\ (Inv /\ [Next]_vars => Inv')
<1> SUFFICES ASSUME WellOrdered PROVE (Init => Inv) /\ (Inv /\ [Next]_vars => Inv')
  BY Zenon
\* A table as aun_init clears it: no stream twice, nothing live.
<1>EmptyIs.
    ASSUME NEW n \in Nat, NEW max \in Nat
    PROVE  /\ EmptyTable(n) \in Tables(n, max) /\ NoDuplicates(EmptyTable(n))
           /\ \A i \in DOMAIN EmptyTable(n) : EmptyTable(n)[i].left = 0
    BY <1>EmptyIs, VacantIs DEF EmptyTable, Tables, NoDuplicates
\* A lookup (defer_find, condemn_find) only vacates entries that ran out.
<1>FindIs.
    ASSUME NEW n \in Nat, NEW max \in Nat, NEW t \in Tables(n, max), NEW s
    PROVE  /\ Thinned(AfterFind(t, s), t)
           /\ AfterFind(t, s) = [i \in 1 .. n |-> AfterFind(t, s)[i]]
  <2> USE <1>FindIs
  <2>1. t = [i \in 1 .. n |-> t[i]] /\ DOMAIN t = 1 .. n
    BY Zenon DEF Tables
  <2>2. CASE Own(t, s) # {} /\ ~Live(t, s)
    <3>1. AfterFind(t, s) = [t EXCEPT ![Min(Own(t, s))] = Vacant]
      BY <2>2, Zenon DEF AfterFind
    <3> QED
      BY <2>1, <3>1, Zenon DEF Thinned
  <2>3. CASE ~(Own(t, s) # {} /\ ~Live(t, s))
    <3>1. AfterFind(t, s) = t
      BY <2>3, Zenon DEF AfterFind
    <3> QED
      BY <2>1, <3>1, Zenon DEF Thinned
  <2> QED
    BY <2>2, <2>3, Zenon
\* Lifting the entry of a stream only vacates entries, and leaves none of it.
<1>LiftIs.
    ASSUME NEW n \in Nat, NEW max \in Nat, NEW t \in Tables(n, max), NEW s
    PROVE  Thinned(Lift(t, s), t) /\ Lift(t, s) = [i \in 1 .. n |-> Lift(t, s)[i]]
  <2> USE <1>LiftIs
  <2>1. t = [i \in 1 .. n |-> t[i]] /\ DOMAIN t = 1 .. n
    BY Zenon DEF Tables
  <2>2. CASE Own(t, s) # {}
    <3>1. Lift(t, s) = [t EXCEPT ![Min(Own(t, s))] = Vacant]
      BY <2>2, Zenon DEF Lift
    <3> QED
      BY <2>1, <3>1, Zenon DEF Thinned
  <2>3. CASE Own(t, s) = {}
    <3>1. Lift(t, s) = t
      BY <2>3, Zenon DEF Lift
    <3> QED
      BY <2>1, <3>1, Zenon DEF Thinned
  <2> QED
    BY <2>2, <2>3, Zenon
\* The slot written is one of the table, the stream's own if it has one.
<1>VictimIs.
    ASSUME NEW n \in Nat \ {0}, NEW max \in Nat, NEW t \in Tables(n, max), NEW s
    PROVE  /\ Victim(t, s) \in 1 .. n
           /\ Own(t, s) # {} => t[Victim(t, s)].stream = s
  <2> USE <1>VictimIs
  <2>1. DOMAIN t = 1 .. n /\ \A i \in 1 .. n : t[i].left \in Nat
    BY DEF Tables, Entries
  <2>2. CASE Own(t, s) # {}
    BY <2>1, <2>2, OwnIs, Zenon DEF Victim
  <2>3. CASE Own(t, s) = {} /\ Free(t) # {}
    <3>1. Free(t) \in SUBSET (1 .. n)
      BY <2>1, Zenon DEF Free
    <3>2. Free(t) \in SUBSET Nat
      BY <3>1
    <3>3. Min(Free(t)) \in 1 .. n
      BY <2>3, <3>1, <3>2, MinIs, Zenon
    <3> QED
      BY <2>3, <3>3, Zenon DEF Victim
  <2>4. CASE Own(t, s) = {} /\ Free(t) = {}
    <3> DEFINE L == {t[i].left : i \in 1 .. n}
               I == {i \in DOMAIN t : \A j \in DOMAIN t : t[i].left <= t[j].left}
    <3>1. L \in SUBSET Nat
      BY <2>1, Zenon
    <3>2. 1 \in 1 .. n
      OBVIOUS
    <3>3. L # {}
      BY <3>2, Zenon
    <3>4. Min(L) \in L /\ \A y \in L : Min(L) <= y
      BY <3>1, <3>3, MinIs, Zenon
    <3>5. I # {}
      <4>1. PICK i \in 1 .. n : Min(L) = t[i].left
        BY <3>4, Zenon
      <4>2. \A j \in 1 .. n : t[j].left \in L
        BY Zenon
      <4>3. \A j \in 1 .. n : t[i].left <= t[j].left
        BY <3>4, <4>1, <4>2, Zenon
      <4> QED
        BY <2>1, <4>1, <4>3, Zenon
    <3>6. I \in SUBSET (1 .. n)
      BY <2>1, Zenon
    <3>7. I \in SUBSET Nat
      BY <3>6
    <3>8. Min(I) \in 1 .. n
      BY <3>5, <3>6, <3>7, MinIs, Zenon
    <3> QED
      BY <2>4, <3>8, Zenon DEF Victim
  <2> QED
    BY <2>2, <2>3, <2>4, Zenon
\* A table with a stream set still has it once: "a second entry" would outlive
\* the first (condemn_set).
<1>SetIs.
    ASSUME NEW n \in Nat \ {0}, NEW max \in Nat, NEW t \in Tables(n, max),
           NEW s \in Streams, NEW left \in 0 .. max
    PROVE  /\ Set(t, s, left) \in Tables(n, max)
           /\ NoDuplicates(t) => NoDuplicates(Set(t, s, left))
           /\ \A i \in 1 .. n : \/ Set(t, s, left)[i] = t[i]
                                \/ Set(t, s, left)[i] = [stream |-> s, left |-> left]
  <2> USE <1>SetIs
  <2> DEFINE v == Victim(t, s)
             e == [stream |-> s, left |-> left]
             u == Set(t, s, left)
  <2>1. DOMAIN t = 1 .. n /\ \A i \in 1 .. n : t[i] \in Entries(max)
    BY Zenon DEF Tables
  <2>2. v \in 1 .. n /\ (Own(t, s) # {} => t[v].stream = s)
    BY <1>VictimIs, Zenon
  <2>3. e \in Entries(max) /\ e.stream = s
    BY DEF Entries, Streams
  <2>4. u = [t EXCEPT ![v] = e]
    BY Zenon DEF Set
  <2> HIDE DEF v, e, u
  <2>5. DOMAIN u = 1 .. n /\ u[v] = e /\ \A i \in 1 .. n : i # v => u[i] = t[i]
    BY <2>1, <2>2, <2>4, Zenon
  <2>6. u \in Tables(n, max)
    BY <2>1, <2>3, <2>4, Zenon DEF Tables
  <2>7. ASSUME NoDuplicates(t) PROVE NoDuplicates(u)
    <3>1. ASSUME NEW i \in 1 .. n, i # v, t[i].stream = s, s # NoStream PROVE FALSE
      <4>1. Own(t, s) # {}
        BY <2>1, <3>1, Zenon DEF Own
      <4> QED
        BY <2>1, <2>2, <2>7, <3>1, <4>1, Zenon DEF NoDuplicates
    <3> QED
      BY <2>1, <2>3, <2>5, <2>7, <3>1, Zenon DEF NoDuplicates
  <2> QED
    BY <2>5, <2>6, <2>7, Zenon DEF u, e
\* Time only takes entries to their expiry.
<1>AgeIs.
    ASSUME NEW n \in Nat, NEW max \in Nat, NEW t \in Tables(n, max)
    PROVE  /\ Age(t) \in Tables(n, max)
           /\ NoDuplicates(t) => NoDuplicates(Age(t))
           /\ \A i \in 1 .. n : Age(t)[i].stream = t[i].stream /\ (Age(t)[i].left > 0 => t[i].left > 0)
  <2> USE <1>AgeIs
  <2>1. DOMAIN t = 1 .. n /\ \A i \in 1 .. n : t[i] \in Entries(max)
    BY Zenon DEF Tables
  <2> DEFINE e(i) == [t[i] EXCEPT !.left = IF @ = 0 THEN 0 ELSE @ - 1]
  <2>2. Age(t) = [i \in 1 .. n |-> e(i)]
    BY <2>1, Zenon DEF Age
  <2>3. ASSUME NEW i \in 1 .. n
        PROVE  e(i) \in Entries(max) /\ e(i).stream = t[i].stream /\ (e(i).left > 0 => t[i].left > 0)
    BY <2>1 DEF Entries
  <2> HIDE DEF e
  <2>4. Age(t) \in Tables(n, max)
    BY <2>2, <2>3, Zenon DEF Tables
  <2>5. DOMAIN Age(t) = 1 .. n /\ \A i \in 1 .. n : Age(t)[i] = e(i)
    BY <2>2, Zenon
  <2>6. NoDuplicates(t) => NoDuplicates(Age(t))
    BY <2>1, <2>3, <2>5, Zenon DEF NoDuplicates
  <2> QED
    BY <2>3, <2>4, <2>5, <2>6, Zenon
\* What is queued behind changes nothing.
<1>BlockAppend.
    ASSUME NEW q \in Seq(QFrames), NEW f \in QFrames, NEW p, NEW b, NEW d, BlockOK(q, p, b, d)
    PROVE  BlockOK(Append(q, f), p, b, d)
  <2> USE <1>BlockAppend
  <2> DEFINE r == Append(q, f)
  <2>1. Len(q) \in Nat /\ Len(r) = Len(q) + 1 /\ \A k \in 1 .. Len(q) : r[k] = q[k]
    OBVIOUS
  <2> HIDE DEF r
  <2>2. \A k \in 1 .. Len(q) : k \in 1 .. Len(r)
    BY <2>1
  <2>3. Backed(r, d)
    BY <2>1, <2>2, Zenon DEF BlockOK, Backed
  <2>4. ASSUME p # 0 PROVE Chosen(r, d, p) /\ b = Msg(r[p])
    <3>1. p \in 1 .. Len(q) /\ Undeferred(d, q[p]) /\ FirstOfStream(q, p) /\ b = Msg(q[p])
      BY <2>4, Zenon DEF BlockOK, Chosen
    <3>2. r[p] = q[p] /\ p \in 1 .. Len(r)
      BY <2>1, <2>2, <3>1, Zenon
    <3>3. \A k \in 1 .. Len(r) : k < p => k \in 1 .. Len(q)
      BY <2>1, <3>1
    <3>4. FirstOfStream(r, p)
      BY <2>1, <3>1, <3>2, <3>3, Zenon DEF FirstOfStream
    <3> QED
      BY <3>1, <3>2, <3>4, Zenon DEF Chosen
  <2> QED
    BY <2>3, <2>4, Zenon DEF BlockOK, r
\* A block just opened, closed or zeroed.
<1>BlockWiped.
    ASSUME NEW b
    PROVE  BlockOK(<< >>, 0, b, EmptyTable(DeferSlots)) /\ EmptyTable(DeferSlots) \in Deferrals
  <2> USE <1>BlockWiped
  <2>1. /\ EmptyTable(DeferSlots) \in Deferrals /\ NoDuplicates(EmptyTable(DeferSlots))
        /\ DOMAIN EmptyTable(DeferSlots) = 1 .. DeferSlots
        /\ \A i \in DOMAIN EmptyTable(DeferSlots) : EmptyTable(DeferSlots)[i].left = 0
    <3>1. DeferSlots \in Nat /\ DeferDelay \in Nat
      BY Consts, Zenon
    <3>2. DOMAIN EmptyTable(DeferSlots) = 1 .. DeferSlots
      BY Zenon DEF EmptyTable
    <3> QED
      BY <3>1, <3>2, <1>EmptyIs, Zenon DEF Deferrals
  <2>2. Backed(<< >>, EmptyTable(DeferSlots))
    BY <2>1 DEF Backed
  <2> QED
    BY <2>1, <2>2, Zenon DEF BlockOK
\* RX_POLL presents a frame that may be answered.
<1>BlockPresent.
    ASSUME NEW q, NEW b, NEW d, BlockOK(q, 0, b, d), NEW i, Chosen(q, d, i)
    PROVE  BlockOK(q, i, Msg(q[i]), d)
    BY <1>BlockPresent, Zenon DEF BlockOK
\* The frame answered leaves the queue.
<1>BlockRemove.
    ASSUME NEW q \in Seq(QFrames), NEW b, NEW d, BlockOK(q, 0, b, d), NEW i, Chosen(q, d, i)
    PROVE  BlockOK(Without(q, i), 0, b, d)
  <2> USE <1>BlockRemove
  <2>1. i \in 1 .. Len(q) /\ Undeferred(d, q[i])
    BY Zenon DEF Chosen
  <2> DEFINE r == Without(q, i)
  <2>2. Len(r) = Len(q) - 1 /\ \A k \in 1 .. Len(q) - 1 : r[k] = IF k < i THEN q[k] ELSE q[k + 1]
    BY <2>1, WithoutIs, Zenon
  <2> HIDE DEF r
  <2>3. ASSUME NEW j \in 1 .. DeferSlots, d[j].left > 0
        PROVE  \E k \in 1 .. Len(r) : Stream(r[k]) = d[j].stream
    <3>1. PICK k \in 1 .. Len(q) : Stream(q[k]) = d[j].stream
      BY <2>3, Zenon DEF BlockOK, Backed
    <3>2. k # i
      BY <2>1, <2>3, <3>1, Zenon DEF Undeferred
    <3>3. CASE k < i
      <4>1. k \in 1 .. Len(r) /\ r[k] = q[k]
        BY <2>1, <2>2, <3>3
      <4> QED
        BY <3>1, <4>1, Zenon
    <3>4. CASE k > i
      <4>1. k - 1 \in 1 .. Len(r) /\ r[k - 1] = q[k]
        BY <2>1, <2>2, <3>4
      <4> QED
        BY <3>1, <4>1, Zenon
    <3> QED
      BY <2>1, <3>1, <3>2, <3>3, <3>4
  <2> QED
    BY <2>3, Zenon DEF BlockOK, Backed, r
\* The frame refused stays where it is and its stream is deferred.
<1>BlockDefer.
    ASSUME NEW q \in Seq(QFrames), NEW b, NEW d \in Deferrals, BlockOK(q, 0, b, d),
           NEW i \in 1 .. Len(q), q[i].src # Local
    PROVE  /\ Set(d, Stream(q[i]), DeferDelay) \in Deferrals
           /\ BlockOK([q EXCEPT ![i].rejects = @ + 1], 0, b, Set(d, Stream(q[i]), DeferDelay))
  <2> USE <1>BlockDefer
  <2> DEFINE r == [q EXCEPT ![i].rejects = @ + 1]
             s == Stream(q[i])
             u == Set(d, s, DeferDelay)
  <2>1. q[i] \in QFrames /\ DOMAIN q = 1 .. Len(q)
    OBVIOUS
  <2>2. s \in Streams
    BY <2>1, StreamIs, Zenon
  <2>3. \A k \in 1 .. Len(q) : Stream(r[k]) = Stream(q[k])
    <3>1. "src" \in DOMAIN q[i] /\ "port" \in DOMAIN q[i]
      BY <2>1 DEF QFrames
    <3>2. r[i].src = q[i].src /\ r[i].port = q[i].port
      BY <2>1, <3>1
    <3>3. \A k \in 1 .. Len(q) : k # i => r[k] = q[k]
      BY <2>1, Zenon
    <3> QED
      BY <3>2, <3>3, Zenon DEF Stream
  <2>4. Len(r) = Len(q)
    OBVIOUS
  <2>5. DeferDelay \in 0 .. DeferDelay /\ DeferDelay \in Nat
    BY Consts
  <2> HIDE DEF r, s
  <2>6. /\ u \in Deferrals /\ NoDuplicates(u)
        /\ \A j \in 1 .. DeferSlots : u[j] = d[j] \/ u[j] = [stream |-> s, left |-> DeferDelay]
    <3>1. d \in Tables(DeferSlots, DeferDelay) /\ NoDuplicates(d)
      BY Zenon DEF Deferrals, BlockOK
    <3>2. DeferSlots \in Nat \ {0}
      BY Consts, Zenon
    <3>3. /\ u \in Tables(DeferSlots, DeferDelay)
          /\ NoDuplicates(d) => NoDuplicates(u)
          /\ \A j \in 1 .. DeferSlots : u[j] = d[j] \/ u[j] = [stream |-> s, left |-> DeferDelay]
      BY <2>2, <2>5, <3>1, <3>2, <1>SetIs
    <3> QED
      BY <3>1, <3>3, Zenon DEF Deferrals
  <2> HIDE DEF u
  <2>7. Backed(r, u)
    <3> SUFFICES ASSUME NEW j \in 1 .. DeferSlots, u[j].left > 0
                 PROVE  \E k \in 1 .. Len(r) : Stream(r[k]) = u[j].stream
      BY Zenon DEF Backed
    <3>1. CASE u[j] = d[j]
      BY <2>3, <2>4, <3>1, Zenon DEF BlockOK, Backed
    <3>2. CASE u[j] = [stream |-> s, left |-> DeferDelay]
      <4>1. u[j].stream = s
        BY <3>2
      <4> QED
        BY <2>3, <2>4, <4>1, Zenon DEF s
    <3> QED
      BY <2>6, <3>1, <3>2, Zenon
  <2> QED
    BY <2>6, <2>7, Zenon DEF BlockOK, r, s, u
\* Time passes.
<1>BlockAge.
    ASSUME NEW q, NEW p, NEW b, NEW d \in Deferrals, BlockOK(q, p, b, d)
    PROVE  Age(d) \in Deferrals /\ BlockOK(q, p, b, Age(d))
  <2> USE <1>BlockAge
  <2>1. /\ Age(d) \in Deferrals /\ NoDuplicates(Age(d))
        /\ \A i \in 1 .. DeferSlots : /\ Age(d)[i].stream = d[i].stream
                                      /\ Age(d)[i].left > 0 => d[i].left > 0
    BY Consts, <1>AgeIs, Zenon DEF Deferrals, BlockOK
  <2>2. Backed(q, Age(d))
    BY <2>1, Zenon DEF BlockOK, Backed
  <2>3. \A f : Undeferred(d, f) => Undeferred(Age(d), f)
    BY <2>1, Zenon DEF Undeferred
  <2> QED
    BY <2>1, <2>2, <2>3, Zenon DEF BlockOK, Chosen
\* A step at one block.
<1>BlocksBut.
    ASSUME NEW q, NEW p, NEW b, NEW d, BlocksOK(q, p, b, d), NEW h \in Blocks,
           NEW q1, NEW p1, NEW b1, NEW d1,
           But(q1, q, h), But(p1, p, h), But(b1, b, h), But(d1, d, h),
           q1[h] \in Seq(QFrames), Len(q1[h]) <= RxQueue, p1[h] \in Nat, d1[h] \in Deferrals,
           BlockOK(q1[h], p1[h], b1[h], d1[h])
    PROVE  BlocksOK(q1, p1, b1, d1)
  <2> USE <1>BlocksBut
  <2>1. /\ q \in [Blocks -> Seq(QFrames)] /\ p \in [Blocks -> Nat] /\ d \in [Blocks -> Deferrals]
        /\ b = [g \in Blocks |-> b[g]]
    BY Zenon DEF BlocksOK
  <2>2. q1 \in [Blocks -> Seq(QFrames)] /\ \A g \in Blocks : g # h => q1[g] = q[g]
    BY <2>1, Zenon DEF But
  <2>3. p1 \in [Blocks -> Nat] /\ \A g \in Blocks : g # h => p1[g] = p[g]
    BY <2>1, Zenon DEF But
  <2>4. d1 \in [Blocks -> Deferrals] /\ \A g \in Blocks : g # h => d1[g] = d[g]
    BY <2>1, Zenon DEF But
  <2>5. b1 = [g \in Blocks |-> b1[g]] /\ \A g \in Blocks : g # h => b1[g] = b[g]
    BY <2>1, Zenon DEF But
  <2>6. ASSUME NEW g \in Blocks
        PROVE  Len(q1[g]) <= RxQueue /\ BlockOK(q1[g], p1[g], b1[g], d1[g])
    <3>1. CASE g = h
      BY <3>1, Zenon
    <3>2. CASE g # h
      <4>1. q1[g] = q[g] /\ p1[g] = p[g] /\ b1[g] = b[g] /\ d1[g] = d[g]
        BY <2>2, <2>3, <2>4, <2>5, <3>2, Zenon
      <4> QED
        BY <4>1, Zenon DEF BlocksOK
    <3> QED
      BY <3>1, <3>2, Zenon
  <2> QED
    BY <2>2, <2>3, <2>4, <2>5, <2>6, Zenon DEF BlocksOK
\* Taking an answer off the wire.
<1>OutTail.
    ASSUME NEW t, OutOK(t), NEW s \in Srcs, t[s] # << >>
    PROVE  OutOK([t EXCEPT ![s] = Tail(@)]) /\ Head(t[s]) \in Answers
  <2> USE <1>OutTail
  <2> DEFINE u == [t EXCEPT ![s] = Tail(@)]
  <2>0. u = [t EXCEPT ![s] = Tail(@)]
    OBVIOUS
  <2> HIDE DEF u
  <2>1. t \in [Srcs -> Seq(Answers)] /\ Len(t[s]) <= MaxNet
    BY Zenon DEF OutOK
  <2>2. /\ u \in [Srcs -> Seq(Answers)] /\ Len(u[s]) = Len(t[s]) - 1 /\ Len(t[s]) \in Nat \ {0}
        /\ \A x \in Srcs : x # s => u[x] = t[x]
        /\ Head(t[s]) \in Answers
    BY <2>0, <2>1, TailIs
  <2>3. Len(u[s]) <= MaxNet
    BY <2>1, <2>2, Consts
  <2> QED
    BY <2>2, <2>3, Zenon DEF OutOK, u
\* Putting a datagram on the wire.
<1>InSent.
    ASSUME NEW t, InOK(t), NEW s \in Srcs, NEW m \in Wire, m.src = s, Len(t[s]) < MaxNet
    PROVE  InOK([t EXCEPT ![s] = Append(@, m)])
  <2> USE <1>InSent
  <2> DEFINE u == [t EXCEPT ![s] = Append(@, m)]
  <2>0. u = [t EXCEPT ![s] = Append(@, m)]
    OBVIOUS
  <2> HIDE DEF u
  <2>1. t \in [Srcs -> Seq(Wire)]
    BY Zenon DEF InOK
  <2>2. /\ u \in [Srcs -> Seq(Wire)] /\ Len(u[s]) = Len(t[s]) + 1 /\ Len(t[s]) \in Nat
        /\ \A k \in 1 .. Len(t[s]) : u[s][k] = t[s][k]
        /\ u[s][Len(u[s])] = m
        /\ \A x \in Srcs : x # s => u[x] = t[x]
    BY <2>0, <2>1, SentIs
  <2>3. Len(u[s]) <= MaxNet
    BY <2>2, Consts
  <2>4. \A k \in 1 .. Len(u[s]) : k \in 1 .. Len(t[s]) \/ k = Len(u[s])
    BY <2>2
  <2>5. \A k \in 1 .. Len(u[s]) : u[s][k].src = s
    <3>1. \A k \in 1 .. Len(t[s]) : t[s][k].src = s
      BY Zenon DEF InOK
    <3> QED
      BY <2>2, <2>4, <3>1, Zenon
  <2>6. ASSUME NEW x \in Srcs
        PROVE  Len(u[x]) <= MaxNet /\ \A k \in 1 .. Len(u[x]) : u[x][k].src = x
    <3>1. Len(t[x]) <= MaxNet /\ \A k \in 1 .. Len(t[x]) : t[x][k].src = x
      BY Zenon DEF InOK
    <3> QED
      <4>1. CASE x = s
        BY <2>3, <2>5, <4>1, Zenon
      <4>2. CASE x # s
        <5>1. u[x] = t[x]
          BY <2>2, <4>2, Zenon
        <5> QED
          BY <3>1, <5>1, Zenon
      <4> QED
        BY <4>1, <4>2, Zenon
  <2> QED
    BY <2>2, <2>6, Zenon DEF InOK, u
\* An answer is sent.
<1>ReplyIs.
    ASSUME OutOK(toPeer), NEW s \in Srcs, NEW type \in {"ack", "nak"},
           NEW m, m.inc \in 0 .. MaxRestart, m.seq \in 0 .. MaxSeq, Reply(s, type, m)
    PROVE  OutOK(toPeer')
  <2> USE <1>ReplyIs
  <2> DEFINE a == [type |-> type, inc |-> m.inc, seq |-> m.seq]
             u == [toPeer EXCEPT ![s] = Append(@, a)]
  <2>1. a \in Answers /\ toPeer \in [Srcs -> Seq(Answers)]
    <3>1. a \in Answers
      BY DEF Answers, Kinds
    <3> QED
      BY <3>1, Zenon DEF OutOK
  <2>2. Len(toPeer[s]) < MaxNet /\ toPeer' = u
    BY Zenon DEF Reply
  <2>0. u = [toPeer EXCEPT ![s] = Append(@, a)]
    OBVIOUS
  <2> HIDE DEF a, u
  <2>3. /\ u \in [Srcs -> Seq(Answers)] /\ Len(u[s]) = Len(toPeer[s]) + 1 /\ Len(toPeer[s]) \in Nat
        /\ \A x \in Srcs : x # s => u[x] = toPeer[x]
    BY <2>0, <2>1, SentIs
  <2>4. Len(u[s]) <= MaxNet
    BY <2>2, <2>3, Consts
  <2> QED
    BY <2>2, <2>3, <2>4, Zenon DEF OutOK
\* The station map.
<1>StaticIs.
    MapOK([i \in 1 .. Len(StaticMap) |->
             [stn |-> StaticMap[i][1], src |-> StaticMap[i][2], last |-> 0]])
  <2>1. StaticMap \in Seq(Stns \X Srcs)
    BY AunRxAssumption, Zenon DEF AunRxAssumption
  <2>2. Len(StaticMap) \in Nat /\ \A i \in 1 .. Len(StaticMap) : StaticMap[i] \in Stns \X Srcs
    BY <2>1
  <2>3. MapMax \in Nat /\ MaxSeq \in Nat
    BY Consts, Zenon
  <2>4. \A i \in 1 .. Len(StaticMap) :
          [stn |-> StaticMap[i][1], src |-> StaticMap[i][2], last |-> 0] \in MapEntries
    BY <2>2, <2>3 DEF MapEntries
  <2> QED
    BY <2>2, <2>3, <2>4 DEF MapOK, MapCap
\* aun_map_add keeps the map within its bound.
<1>MapAddIs.
    ASSUME NEW m, MapOK(m), NEW stn \in Stns, NEW s \in Srcs
    PROVE  MapOK(MapAdd(m, stn, s))
  <2> USE <1>MapAddIs
  <2> DEFINE e == [stn |-> stn, src |-> s, last |-> 0]
  <2>1. e \in MapEntries /\ m \in Seq(MapEntries) /\ Len(m) <= MapCap
    BY Consts DEF MapEntries, MapOK
  <2>2. ByAddr(m, stn) = 0 \/ ByAddr(m, stn) \in 1 .. Len(m)
    BY <2>1, ByAddrIs, Zenon
  <2>3. CASE ByAddr(m, stn) # 0
    <3>1. MapAdd(m, stn, s) = [m EXCEPT ![ByAddr(m, stn)] = e]
      BY <2>3 DEF MapAdd
    <3> HIDE DEF e
    <3>2. \A i \in 1 .. Len(m) : [m EXCEPT ![i] = e] \in Seq(MapEntries)
                                 /\ Len([m EXCEPT ![i] = e]) = Len(m)
      BY <2>1
    <3> QED
      BY <2>1, <2>2, <2>3, <3>1, <3>2, Zenon DEF MapOK
  <2>4. CASE ByAddr(m, stn) = 0 /\ Len(m) < MapMax
    <3>1. MapAdd(m, stn, s) = Append(m, e)
      BY <2>4 DEF MapAdd
    <3> HIDE DEF e
    <3>2. Append(m, e) \in Seq(MapEntries) /\ Len(Append(m, e)) = Len(m) + 1
      BY <2>1
    <3>3. Len(m) + 1 <= MapCap
      <4>1. Len(m) \in Nat /\ MapMax \in Nat /\ Len(StaticMap) \in Nat
        BY <2>1, Consts, AunRxAssumption DEF AunRxAssumption
      <4> QED
        BY <2>4, <4>1 DEF MapCap
    <3> QED
      BY <3>1, <3>2, <3>3, Zenon DEF MapOK
  <2>5. CASE ByAddr(m, stn) = 0 /\ ~(Len(m) < MapMax)
    <3>1. MapAdd(m, stn, s) = m
      BY <2>5 DEF MapAdd
    <3> QED
      BY <3>1, Zenon
  <2> QED
    BY <2>3, <2>4, <2>5, Zenon
\* learn_attribute keeps the map within its bound.
<1>AttributedIs.
    ASSUME Inv, NEW s \in Srcs
    PROVE  MapOK(Attributed(s))
  <2> USE <1>AttributedIs
  <2>1. MapOK(map)
    BY Zenon DEF Inv
  <2>2. Learn[s] # None => Learn[s] \in Stns
    BY AunRxAssumption DEF AunRxAssumption
  <2> QED
    BY <2>1, <2>2, <1>MapAddIs, Zenon DEF Attributed
\* Recording last_rx_seq keeps the map (aun_rx_collect).
<1>StampIs.
    ASSUME MapOK(map), NEW f, f.seq \in 0 .. MaxSeq, Stamp(f)
    PROVE  MapOK(map')
  <2> USE <1>StampIs
  <2>1. map \in Seq(MapEntries) /\ Len(map) <= MapCap
    BY Zenon DEF MapOK
  <2>2. ByIp(map, f.src) = 0 \/ ByIp(map, f.src) \in 1 .. Len(map)
    BY <2>1, ByIpIs, Zenon
  <2>3. CASE ByIp(map, f.src) = 0
    BY <2>3, Zenon DEF Stamp
  <2>4. CASE ByIp(map, f.src) # 0
    <3> DEFINE n == f.seq
               i == ByIp(map, f.src)
    <3>1. map' = [map EXCEPT ![i].last = n]
      BY <2>4, Zenon DEF Stamp
    <3>2. i \in 1 .. Len(map) /\ n \in 0 .. MaxSeq
      BY <2>2, <2>4, Zenon
    <3> HIDE DEF i, n
    <3>3. [map[i] EXCEPT !.last = n] \in MapEntries
      <4>1. map[i] \in MapEntries
        BY <2>1, <3>2
      <4> QED
        BY <3>2, <4>1 DEF MapEntries
    <3>4. map' = [map EXCEPT ![i] = [map[i] EXCEPT !.last = n]]
      BY <3>1, Zenon
    <3> DEFINE e == [map[i] EXCEPT !.last = n]
    <3> HIDE DEF e
    <3>5. map' \in Seq(MapEntries) /\ Len(map') = Len(map)
      BY <2>1, <3>2, <3>3, <3>4 DEF e
    <3> QED
      BY <2>1, <3>5, Zenon DEF MapOK
  <2> QED
    BY <2>3, <2>4, Zenon
\* A frame is queued.
<1>EnqueueIs.
    ASSUME Inv, NEW h \in Blocks, Len(queue[h]) < RxQueue, NEW m,
           [src |-> m.src, inc |-> m.inc, seq |-> m.seq, port |-> m.port, rejects |-> 0] \in QFrames,
           Enqueue(h, m), UNCHANGED <<pres, buf, defer>>
    PROVE  BlocksOK(queue', pres', buf', defer')
  <2> USE <1>EnqueueIs
  <2> DEFINE f == [src |-> m.src, inc |-> m.inc, seq |-> m.seq, port |-> m.port, rejects |-> 0]
             r == Append(queue[h], f)
  <2>1. f \in QFrames
    OBVIOUS
  <2>2. queue' = [queue EXCEPT ![h] = r]
    BY Zenon DEF Enqueue
  <2> HIDE DEF f
  <2>3. BlocksOK(queue, pres, buf, defer)
    BY Zenon DEF Inv
  <2>4. /\ queue[h] \in Seq(QFrames) /\ Len(queue[h]) \in Nat /\ pres[h] \in Nat /\ defer[h] \in Deferrals
        /\ BlockOK(queue[h], pres[h], buf[h], defer[h]) /\ queue = [g \in Blocks |-> queue[g]]
        /\ But(pres, pres, h) /\ But(buf, buf, h) /\ But(defer, defer, h)
    BY BlockFacts, Zenon
  <2>5. r \in Seq(QFrames) /\ Len(r) <= RxQueue
    BY <2>1, <2>4, Consts
  <2>6. BlockOK(r, pres[h], buf[h], defer[h])
    BY <2>1, <2>4, <1>BlockAppend, Zenon
  <2> HIDE DEF r
  <2>7. But(queue', queue, h) /\ queue'[h] = r
    BY <2>2, <2>4, ButIs, Zenon
  <2>8. BlocksOK(queue', pres, buf, defer)
    BY <2>3, <2>4, <2>5, <2>6, <2>7, <1>BlocksBut, Zenon
  <2> QED
    BY <2>8, Zenon
\* A datagram is taken in (aun_udp_input).
<1>RxDataStep.
    ASSUME Inv, NEW s \in Srcs, RxData(s)
    PROVE  Inv'
  <2> USE <1>RxDataStep
  <2> DEFINE m == Head(toEngine[s])
  <2>1. InOK(toEngine') /\ m \in Wire /\ m.src = s
    BY InTail, Zenon DEF Inv, RxData
  <2>2. MapOK(map')
    BY <1>AttributedIs, Zenon DEF RxData
  <2>3. UNCHANGED <<filter, defer, pres, buf, condemned, peer, history>> /\ RxVerdict(s, m)
    BY Zenon DEF RxData
  <2> HIDE DEF m
  <2>4. m.inc \in 0 .. MaxRestart /\ m.seq \in 1 .. MaxSeq /\ m.seq \in 0 .. MaxSeq /\ m.port \in Ports
    BY <2>1, Consts DEF Wire
  <2>5. \A h \in Blocks : Enqueue(h, m) /\ Len(queue[h]) < RxQueue
                            => BlocksOK(queue', pres', buf', defer')
    <3>1. [src |-> m.src, inc |-> m.inc, seq |-> m.seq, port |-> m.port, rejects |-> 0] \in QFrames
      BY <2>1, <2>4, Consts DEF QFrames, Budget
    <3> QED
      BY <2>3, <3>1, <1>EnqueueIs, Zenon
  <2>6. queue' = queue => BlocksOK(queue', pres', buf', defer')
    BY <2>3, Zenon DEF Inv
  <2>7. OutOK(toPeer) /\ (toPeer' = toPeer => OutOK(toPeer'))
    BY Zenon DEF Inv
  <2>8. \A type \in {"ack", "nak"} : Reply(s, type, m) => OutOK(toPeer')
    BY <2>4, <2>7, <1>ReplyIs
  <2>9. \A stn : RxDeliver(s, m, stn) => BlocksOK(queue', pres', buf', defer') /\ OutOK(toPeer')
    BY <2>5, <2>6, <2>7, <2>8, RoomIs, Zenon DEF RxDeliver
  <2>10. BlocksOK(queue', pres', buf', defer') /\ OutOK(toPeer')
    BY <2>3, <2>6, <2>7, <2>8, <2>9, Zenon DEF RxVerdict
  <2> QED
    BY <2>1, <2>2, <2>3, <2>10, Zenon DEF Inv, history
\* A broadcast is taken in (aun_udp_input).
<1>BroadcastStep.
    ASSUME Inv, NEW port \in Ports, NEW stn, RxBroadcast(port, stn)
    PROVE  Inv'
  <2> USE <1>BroadcastStep
  <2> DEFINE m == [NoMsg EXCEPT !.port = port]
  <2>1. UNCHANGED <<map, filter, defer, pres, buf, condemned, netVars, history>>
    BY Zenon DEF RxBroadcast
  <2>2. [src |-> m.src, inc |-> m.inc, seq |-> m.seq, port |-> m.port, rejects |-> 0] \in QFrames
    BY Consts DEF QFrames, Budget, NoMsg, Local
  <2>3. CASE HasRoom(port, stn) # {}
    <3>1. Enqueue(Min(HasRoom(port, stn)), m)
      BY <2>3, Zenon DEF RxBroadcast
    <3> HIDE DEF m
    <3> QED
      BY <2>1, <2>2, <2>3, <3>1, RoomIs, <1>EnqueueIs, Zenon DEF Inv, netVars, history
  <2>4. CASE HasRoom(port, stn) = {}
    BY <2>1, <2>4, Zenon DEF Inv, RxBroadcast, netVars, history
  <2> QED
    BY <2>3, <2>4, Zenon
\* A block is zeroed.
<1>WipeIs.
    ASSUME Inv, NEW h \in Blocks, NEW f \in Filters \cup {Closed}, Wipe(h, f), buf' = buf
    PROVE  BlocksOK(queue', pres', buf', defer') /\ FilterOK(filter')
  <2> USE <1>WipeIs
  <2>1. BlocksOK(queue, pres, buf, defer) /\ filter \in [Blocks -> Filters \cup {Closed}]
    BY Zenon DEF Inv, FilterOK
  <2>2. /\ queue = [g \in Blocks |-> queue[g]] /\ pres = [g \in Blocks |-> pres[g]]
        /\ defer = [g \in Blocks |-> defer[g]] /\ But(buf, buf, h)
    BY BlockFacts, Zenon
  <2>3. But(queue', queue, h) /\ queue'[h] = << >>
    BY <2>2, ButIs, Zenon DEF Wipe
  <2>4. But(pres', pres, h) /\ pres'[h] = 0
    BY <2>2, ButIs, Zenon DEF Wipe
  <2>5. But(defer', defer, h) /\ defer'[h] = EmptyTable(DeferSlots)
    BY <2>2, ButIs, Zenon DEF Wipe
  <2>6. << >> \in Seq(QFrames) /\ Len(<< >>) <= RxQueue /\ 0 \in Nat
    BY Consts
  <2>7. BlockOK(<< >>, 0, buf[h], EmptyTable(DeferSlots)) /\ EmptyTable(DeferSlots) \in Deferrals
    BY <1>BlockWiped, Zenon
  <2>8. BlocksOK(queue', pres', buf, defer')
    BY <2>1, <2>2, <2>3, <2>4, <2>5, <2>6, <2>7, <1>BlocksBut, Zenon
  <2>9. FilterOK(filter')
    BY <2>1 DEF Wipe, FilterOK
  <2> QED
    BY <2>8, <2>9, Zenon
\* RX_OPEN (aun_rx_open).
<1>OpenStep.
    ASSUME Inv, NEW h \in Blocks, NEW f \in Filters, aun_rx_open(h, f)
    PROVE  Inv'
  <2> USE <1>OpenStep
  <2>1. UNCHANGED <<map, condemned, buf, netVars, history>> /\ Wipe(h, f)
    BY Zenon DEF aun_rx_open, Admin
  <2>2. BlocksOK(queue', pres', buf', defer') /\ FilterOK(filter')
    BY <2>1, <1>WipeIs, Zenon
  <2> QED
    BY <2>1, <2>2, Zenon DEF Inv, netVars, history
\* RX_CLOSE (aun_rx_close).
<1>CloseStep.
    ASSUME Inv, NEW h \in Blocks, aun_rx_close(h)
    PROVE  Inv'
  <2> USE <1>CloseStep
  <2>1. UNCHANGED <<map, condemned, buf, netVars, history>> /\ Wipe(h, Closed)
    BY Zenon DEF aun_rx_close, Admin
  <2>2. BlocksOK(queue', pres', buf', defer') /\ FilterOK(filter')
    BY <2>1, <1>WipeIs, Zenon
  <2> QED
    BY <2>1, <2>2, Zenon DEF Inv, netVars, history
\* MAP_ADD (aun_map_add).
<1>MapAddStep.
    ASSUME Inv, NEW stn \in Stns, NEW s \in Srcs, aun_map_add(stn, s)
    PROVE  Inv'
  <2> USE <1>MapAddStep
  <2>1. /\ UNCHANGED <<filter, queue, defer, pres, condemned, buf, netVars, history>>
        /\ map' = MapAdd(map, stn, s)
    BY Zenon DEF aun_map_add, Admin
  <2>2. MapOK(map')
    BY <2>1, <1>MapAddIs, Zenon DEF Inv
  <2> QED
    BY <2>1, <2>2, Zenon DEF Inv, netVars, history
\* The blocks as they start.
<1>BlocksStart.
    ASSUME NEW b, b = [h \in Blocks |-> b[h]]
    PROVE  BlocksOK([h \in Blocks |-> << >>], [h \in Blocks |-> 0], b,
                    [h \in Blocks |-> EmptyTable(DeferSlots)])
  <2> USE <1>BlocksStart
  <2>1. << >> \in Seq(QFrames) /\ Len(<< >>) <= RxQueue /\ 0 \in Nat
    BY Consts
  <2>2. \A h \in Blocks : BlockOK(<< >>, 0, b[h], EmptyTable(DeferSlots))
    BY <1>BlockWiped, Zenon
  <2>3. EmptyTable(DeferSlots) \in Deferrals
    BY <1>BlockWiped, Zenon
  <2> QED
    BY <2>1, <2>2, <2>3, Zenon DEF BlocksOK
\* The condemn table starts empty (aun_init).
<1>CondemnedStart. CondemnedOK(EmptyTable(CondemnSlots))
  <2>1. CondemnSlots \in Nat /\ CondemnTtl \in Nat
    BY Consts, Zenon
  <2> QED
    BY <2>1, <1>EmptyIs, Zenon DEF CondemnedOK
\* INIT (aun_init).
<1>AunInitStep.
    ASSUME Inv, aun_init
    PROVE  Inv'
  <2> USE <1>AunInitStep
  <2>1. UNCHANGED <<buf, netVars, history>>
    BY Zenon DEF aun_init, Admin
  <2>2. buf = [h \in Blocks |-> buf[h]]
    BY Zenon DEF Inv, BlocksOK
  <2>3. BlocksOK(queue', pres', buf, defer')
    BY <2>2, <1>BlocksStart, Zenon DEF aun_init
  <2>4. MapOK(map') /\ CondemnedOK(condemned')
    BY <1>StaticIs, <1>CondemnedStart, Zenon DEF aun_init
  <2>5. FilterOK(filter')
    BY DEF aun_init, FilterOK
  <2> QED
    BY <2>1, <2>3, <2>4, <2>5, Zenon DEF Inv, netVars, history
\* The condemned streams through a listener's return, a lookup and a new entry.
<1>CondemnedFind.
    ASSUME NEW c, CondemnedOK(c), NEW s
    PROVE  CondemnedOK(AfterFind(c, s))
  <2> USE <1>CondemnedFind
  <2>1. /\ c \in Tables(CondemnSlots, CondemnTtl) /\ NoDuplicates(c)
        /\ CondemnSlots \in Nat /\ CondemnTtl \in Nat
    BY Consts, Zenon DEF CondemnedOK
  <2> DEFINE u == AfterFind(c, s)
  <2>2. Thinned(u, c) /\ u = [i \in 1 .. CondemnSlots |-> u[i]]
    BY <2>1, <1>FindIs, Zenon
  <2> HIDE DEF u
  <2>3. u \in Tables(CondemnSlots, CondemnTtl) /\ NoDuplicates(u)
    BY <2>1, <2>2, ThinnedIs
  <2> QED
    BY <2>3, Zenon DEF CondemnedOK, u
\* An accepted frame lifts the condemnation of its stream (aun_rx_collect).
<1>CondemnedLift.
    ASSUME NEW c, CondemnedOK(c), NEW s
    PROVE  CondemnedOK(Lift(c, s))
  <2> USE <1>CondemnedLift
  <2>1. /\ c \in Tables(CondemnSlots, CondemnTtl) /\ NoDuplicates(c)
        /\ CondemnSlots \in Nat /\ CondemnTtl \in Nat
    BY Consts, Zenon DEF CondemnedOK
  <2> DEFINE u == Lift(c, s)
  <2>2. Thinned(u, c) /\ u = [i \in 1 .. CondemnSlots |-> u[i]]
    BY <2>1, <1>LiftIs, Zenon
  <2> HIDE DEF u
  <2>3. u \in Tables(CondemnSlots, CondemnTtl) /\ NoDuplicates(u)
    BY <2>1, <2>2, ThinnedIs
  <2> QED
    BY <2>3, Zenon DEF CondemnedOK, u
\* A spent budget condemns the stream, once (condemn_set).
<1>CondemnedSet.
    ASSUME NEW c, CondemnedOK(c), NEW s \in Streams
    PROVE  CondemnedOK(Set(AfterFind(c, s), s, CondemnTtl))
  <2> USE <1>CondemnedSet
  <2> DEFINE u == AfterFind(c, s)
  <2>1. /\ u \in Tables(CondemnSlots, CondemnTtl) /\ NoDuplicates(u)
        /\ CondemnSlots \in Nat \ {0} /\ CondemnTtl \in Nat
    BY Consts, <1>CondemnedFind, Zenon DEF CondemnedOK
  <2> HIDE DEF u
  <2>2. CondemnTtl \in 0 .. CondemnTtl
    BY <2>1
  <2>3. Set(u, s, CondemnTtl) \in Tables(CondemnSlots, CondemnTtl) /\ NoDuplicates(Set(u, s, CondemnTtl))
    <3>1. /\ Set(u, s, CondemnTtl) \in Tables(CondemnSlots, CondemnTtl)
          /\ NoDuplicates(u) => NoDuplicates(Set(u, s, CondemnTtl))
      BY <2>1, <2>2, <1>SetIs, Zenon
    <3> QED
      BY <2>1, <3>1, Zenon
  <2> QED
    BY <2>3, Zenon DEF CondemnedOK, u
\* Condemnations run out as time passes.
<1>CondemnedAge.
    ASSUME NEW c, CondemnedOK(c)
    PROVE  CondemnedOK(Age(c))
  <2> USE <1>CondemnedAge
  <2>1. /\ c \in Tables(CondemnSlots, CondemnTtl) /\ NoDuplicates(c)
        /\ CondemnSlots \in Nat /\ CondemnTtl \in Nat
    BY Consts, Zenon DEF CondemnedOK
  <2> QED
    BY <2>1, <1>AgeIs, Zenon DEF CondemnedOK
\* RX_POLL presents the first eligible frame (aun_rx_poll).
<1>PollStep.
    ASSUME Inv, NEW h \in Blocks, aun_rx_poll(h)
    PROVE  Inv'
  <2> USE <1>PollStep
  <2> DEFINE i == rx_first_eligible(h)
             u == Swept(h, Looked(h))
  <2>1. /\ pres[h] = 0 /\ defer' = [defer EXCEPT ![h] = u] /\ pres' = [pres EXCEPT ![h] = i]
        /\ buf' = IF i = 0 THEN buf ELSE [buf EXCEPT ![h] = Msg(queue[h][i])]
        /\ UNCHANGED <<map, filter, queue, condemned, netVars, history>>
    BY Zenon DEF aun_rx_poll
  <2>2. /\ queue[h] \in Seq(QFrames) /\ Len(queue[h]) <= RxQueue /\ Len(queue[h]) \in Nat
        /\ pres = [g \in Blocks |-> pres[g]]
        /\ buf = [g \in Blocks |-> buf[g]] /\ defer = [g \in Blocks |-> defer[g]]
        /\ But(queue, queue, h) /\ But(buf, buf, h) /\ BlocksOK(queue, pres, buf, defer)
    BY BlockFacts, Zenon DEF Inv
  <2>3. LookedUp(h) = u /\ Offset(h) = i
    BY <2>1, Zenon DEF LookedUp, Offset
  <2>4. u \in Deferrals /\ BlockOK(queue[h], 0, buf[h], u) /\ (i # 0 => Chosen(queue[h], u, i))
    BY <2>3, OffsetIs, Zenon
  <2>5. i \in Nat
    <3>1. i # 0 => i \in 1 .. Len(queue[h])
      BY <2>4, Zenon DEF Chosen
    <3> QED
      BY <2>2, <3>1
  <2> HIDE DEF i, u
  <2>6. But(defer', defer, h) /\ defer'[h] = u
    BY <2>1, <2>2, ButIs, Zenon
  <2>7. But(pres', pres, h) /\ pres'[h] = i
    BY <2>1, <2>2, ButIs, Zenon
  <2>8. But(buf', buf, h) /\ BlockOK(queue[h], i, buf'[h], u)
    <3>1. CASE i = 0
      BY <2>1, <2>2, <2>4, <3>1, Zenon
    <3>2. CASE i # 0
      <4>1. But(buf', buf, h) /\ buf'[h] = Msg(queue[h][i])
        BY <2>1, <2>2, <3>2, ButIs, Zenon
      <4> QED
        BY <2>4, <3>2, <4>1, <1>BlockPresent, Zenon
    <3> QED
      BY <3>1, <3>2, Zenon
  <2>9. BlocksOK(queue, pres', buf', defer')
    BY <2>2, <2>4, <2>5, <2>6, <2>7, <2>8, <1>BlocksBut, Zenon
  <2> QED
    BY <2>1, <2>9, Zenon DEF Inv, netVars, history
\* The nIRQ test only sweeps the defer table (aun_rx_ready).
<1>ReadyStep.
    ASSUME Inv, NEW h \in Blocks, aun_rx_ready(h)
    PROVE  Inv'
  <2> USE <1>ReadyStep
  <2> DEFINE u == Swept(h, Len(queue[h]))
  <2>1. /\ defer' = [defer EXCEPT ![h] = u]
        /\ UNCHANGED <<map, filter, queue, pres, buf, condemned, netVars, history>>
    BY Zenon DEF aun_rx_ready
  <2>2. /\ queue[h] \in Seq(QFrames) /\ Len(queue[h]) <= RxQueue /\ pres[h] \in Nat
        /\ defer[h] \in Deferrals /\ BlockOK(queue[h], pres[h], buf[h], defer[h])
        /\ defer = [g \in Blocks |-> defer[g]] /\ BlocksOK(queue, pres, buf, defer)
        /\ But(queue, queue, h) /\ But(pres, pres, h) /\ But(buf, buf, h)
    BY BlockFacts, Zenon DEF Inv
  <2>3. Thinned(u, defer[h]) /\ u = [j \in 1 .. DeferSlots |-> u[j]]
    BY <2>2, SweptIs, Zenon
  <2> HIDE DEF u
  <2>4. u \in Deferrals /\ BlockOK(queue[h], pres[h], buf[h], u)
    BY <2>2, <2>3, BlockThinned, Zenon
  <2>5. But(defer', defer, h) /\ defer'[h] = u
    BY <2>1, <2>2, ButIs, Zenon
  <2>6. BlocksOK(queue, pres, buf, defer')
    BY <2>2, <2>4, <2>5, <1>BlocksBut, Zenon
  <2> QED
    BY <2>1, <2>6, Zenon DEF Inv, netVars, history
\* An RX_DONE that takes the frame off the queue.
<1>RemovedIs.
    ASSUME Inv, NEW h \in Blocks, Offset(h) # 0, rx_remove_at(h), Release(h),
           defer' = [defer EXCEPT ![h] = LookedUp(h)], buf' = buf
    PROVE  BlocksOK(queue', pres', buf', defer')
  <2> USE <1>RemovedIs
  <2> DEFINE i == Offset(h)
             u == LookedUp(h)
             r == Without(queue[h], i)
  <2>1. /\ queue[h] \in Seq(QFrames) /\ Len(queue[h]) <= RxQueue /\ Len(queue[h]) \in Nat
        /\ queue = [g \in Blocks |-> queue[g]] /\ pres = [g \in Blocks |-> pres[g]]
        /\ defer = [g \in Blocks |-> defer[g]]
        /\ But(buf, buf, h) /\ BlocksOK(queue, pres, buf, defer)
    BY BlockFacts, Zenon DEF Inv
  <2>2. u \in Deferrals /\ BlockOK(queue[h], 0, buf[h], u) /\ Chosen(queue[h], u, i)
    BY OffsetIs, Zenon
  <2>3. BlockOK(r, 0, buf[h], u)
    BY <2>1, <2>2, <1>BlockRemove, Zenon
  <2>4. i \in 1 .. Len(queue[h])
    BY <2>2, Zenon DEF Chosen
  <2>5. r \in Seq(QFrames) /\ Len(r) = Len(queue[h]) - 1
    BY <2>1, <2>4, WithoutIs, Zenon
  <2>6. queue' = [queue EXCEPT ![h] = r] /\ pres' = [pres EXCEPT ![h] = 0]
    BY Zenon DEF rx_remove_at, Release
  <2> HIDE DEF r, u, i
  <2>7. Len(r) <= RxQueue
    BY <2>1, <2>5, Consts
  <2>8. But(queue', queue, h) /\ queue'[h] = r
    BY <2>1, <2>6, ButIs, Zenon
  <2>9. But(pres', pres, h) /\ pres'[h] = 0
    BY <2>1, <2>6, ButIs, Zenon
  <2>12. 0 \in Nat
    OBVIOUS
  <2>10. But(defer', defer, h) /\ defer'[h] = u
    BY <2>1, ButIs, Zenon DEF u
  <2>11. BlocksOK(queue', pres', buf, defer')
    BY <2>1, <2>2, <2>3, <2>5, <2>7, <2>8, <2>9, <2>10, <2>12, <1>BlocksBut, Zenon
  <2> QED
    BY <2>11, Zenon
\* RX_DONE accepts the presented frame (aun_rx_collect).
<1>AcceptStep.
    ASSUME Inv, NEW h \in Blocks, Offset(h) # 0, CollectAccept(h, queue[h][Offset(h)]), Release(h),
           UNCHANGED <<filter, buf, peer, toEngine>>
    PROVE  Inv'
  <2> USE <1>AcceptStep
  <2> DEFINE f == queue[h][Offset(h)]
  <2>1. /\ f \in QFrames /\ f.inc \in 0 .. MaxRestart /\ f.seq \in 0 .. MaxSeq
        /\ f.src # Local => f.src \in Srcs /\ Msg(f) \in Wire /\ Stream(f) \in Streams
    BY AnsweredIs, Zenon
  <2>2. CollectAccept(h, f)
    OBVIOUS
  <2> HIDE DEF f
  <2>3. BlocksOK(queue', pres', buf', defer')
    BY <2>2, <1>RemovedIs, Zenon DEF CollectAccept
  <2>4. CASE f.src = Local
    <3>1. UNCHANGED <<map, condemned, toPeer, history>>
      BY <2>2, <2>4, Zenon DEF CollectAccept
    <3> QED
      BY <2>3, <3>1, Zenon DEF Inv, history
  <2>5. CASE f.src # Local
    <3>1. /\ Reply(f.src, "ack", f) /\ Stamp(f) /\ condemned' = Lift(condemned, Stream(f))
          /\ taken' = Append(taken, Msg(f)) /\ shed' = shed
      BY <2>2, <2>5, Zenon DEF CollectAccept
    <3>2. OutOK(toPeer')
      <4>1. OutOK(toPeer) /\ "ack" \in {"ack", "nak"} /\ f.src \in Srcs
        BY <2>1, <2>5, Zenon DEF Inv
      <4> QED
        BY <2>1, <3>1, <4>1, <1>ReplyIs, Zenon
    <3>3. MapOK(map')
      BY <2>1, <3>1, <1>StampIs, Zenon DEF Inv
    <3>4. CondemnedOK(condemned')
      BY <3>1, <1>CondemnedLift, Zenon DEF Inv
    <3>5. HistoryOK(taken', shed')
      <4>1. taken \in Seq(Wire) /\ Msg(f) \in Wire
        BY <2>1, <2>5, Zenon DEF Inv, HistoryOK
      <4>2. Append(taken, Msg(f)) \in Seq(Wire)
        BY <4>1
      <4> QED
        BY <3>1, <4>2, Zenon DEF Inv, HistoryOK
    <3> QED
      BY <2>3, <3>2, <3>3, <3>4, <3>5, Zenon DEF Inv
  <2> QED
    BY <2>4, <2>5, Zenon
\* RX_DONE refuses a frame with no budget left (aun_rx_collect).
<1>ShedStep.
    ASSUME Inv, NEW h \in Blocks, Offset(h) # 0, CollectShed(h, queue[h][Offset(h)]), Release(h),
           queue[h][Offset(h)].src # Local, UNCHANGED <<filter, buf, peer, toEngine>>
    PROVE  Inv'
  <2> USE <1>ShedStep
  <2> DEFINE f == queue[h][Offset(h)]
  <2>1. /\ f \in QFrames /\ f.inc \in 0 .. MaxRestart /\ f.seq \in 0 .. MaxSeq
        /\ f.src \in Srcs /\ Msg(f) \in Wire /\ Stream(f) \in Streams
    BY AnsweredIs, Zenon
  <2>2. CollectShed(h, f)
    OBVIOUS
  <2> HIDE DEF f
  <2>3. BlocksOK(queue', pres', buf', defer')
    BY <2>2, <1>RemovedIs, Zenon DEF CollectShed
  <2>4. /\ Reply(f.src, "ack", f) /\ Stamp(f) /\ shed' = shed \cup {Msg(f)} /\ taken' = taken
        /\ condemned' = Set(AfterFind(condemned, Stream(f)), Stream(f), CondemnTtl)
    BY <2>2, Zenon DEF CollectShed
  <2>5. OutOK(toPeer')
    <3>1. OutOK(toPeer) /\ "ack" \in {"ack", "nak"}
      BY Zenon DEF Inv
    <3> QED
      BY <2>1, <2>4, <3>1, <1>ReplyIs, Zenon
  <2>6. MapOK(map')
    BY <2>1, <2>4, <1>StampIs, Zenon DEF Inv
  <2>7. CondemnedOK(condemned')
    BY <2>1, <2>4, <1>CondemnedSet, Zenon DEF Inv
  <2>8. HistoryOK(taken', shed')
    BY <2>1, <2>4, Zenon DEF Inv, HistoryOK
  <2> QED
    BY <2>3, <2>5, <2>6, <2>7, <2>8, Zenon DEF Inv
\* RX_DONE refuses a frame, and its stream is deferred (aun_rx_collect).
<1>DeferStep.
    ASSUME Inv, NEW h \in Blocks, Offset(h) # 0, CollectDefer(h, queue[h][Offset(h)]), Release(h),
           queue[h][Offset(h)].src # Local, UNCHANGED <<filter, buf, peer, toEngine>>
    PROVE  Inv'
  <2> USE <1>DeferStep
  <2> DEFINE i == Offset(h)
             f == queue[h][i]
             u == LookedUp(h)
             v == Set(u, Stream(f), DeferDelay)
             r == [queue[h] EXCEPT ![i].rejects = @ + 1]
  <2>1. /\ queue[h] \in Seq(QFrames) /\ Len(queue[h]) <= RxQueue
        /\ queue = [g \in Blocks |-> queue[g]] /\ pres = [g \in Blocks |-> pres[g]]
        /\ defer = [g \in Blocks |-> defer[g]]
        /\ But(buf, buf, h) /\ BlocksOK(queue, pres, buf, defer)
    BY BlockFacts, Zenon DEF Inv
  <2>2. u \in Deferrals /\ BlockOK(queue[h], 0, buf[h], u) /\ i \in 1 .. Len(queue[h])
    BY OffsetIs, Zenon DEF Chosen
  <2>3. /\ f.rejects < RejectBudget(f) /\ defer' = [defer EXCEPT ![h] = v]
        /\ queue' = [queue EXCEPT ![h][i].rejects = @ + 1]
        /\ condemned' = AfterFind(condemned, Stream(f)) /\ UNCHANGED <<map, toPeer, history>>
    BY Zenon DEF CollectDefer
  <2>4. v \in Deferrals /\ BlockOK(r, 0, buf[h], v)
    BY <2>1, <2>2, <1>BlockDefer, Zenon
  <2>5. f \in QFrames
    BY <2>1, <2>2
  <2>6. r \in Seq(QFrames) /\ Len(r) = Len(queue[h])
    <3> DEFINE e == [f EXCEPT !.rejects = @ + 1]
    <3>1. f.rejects + 1 \in 0 .. Budget
      <4>1. f.rejects \in Nat
        BY <2>5 DEF QFrames
      <4>2. RejectBudget(f) = CondemnRetries \/ RejectBudget(f) = DeferRetries
        BY Zenon DEF RejectBudget
      <4> QED
        BY <2>3, <4>1, <4>2, Consts DEF Budget
    <3>2. e \in QFrames
      <4> HIDE DEF f
      <4> QED
        BY <2>5, <3>1 DEF QFrames
    <3>3. r = [queue[h] EXCEPT ![i] = e]
      BY Zenon
    <3> HIDE DEF e, r, i, f
    <3> QED
      BY <2>1, <2>2, <3>2, <3>3
  <2>7. queue' = [queue EXCEPT ![h] = r]
    BY <2>3, Zenon
  <2>8. pres' = [pres EXCEPT ![h] = 0]
    BY Zenon DEF Release
  <2> HIDE DEF r, v, u, i, f
  <2>9. But(queue', queue, h) /\ queue'[h] = r
    BY <2>1, <2>7, ButIs, Zenon
  <2>10. But(pres', pres, h) /\ pres'[h] = 0
    BY <2>1, <2>8, ButIs, Zenon
  <2>11. But(defer', defer, h) /\ defer'[h] = v
    BY <2>1, <2>3, ButIs, Zenon
  <2>12. 0 \in Nat
    OBVIOUS
  <2>13. BlocksOK(queue', pres', buf, defer')
    BY <2>1, <2>4, <2>6, <2>9, <2>10, <2>11, <2>12, <1>BlocksBut, Zenon
  <2>14. CondemnedOK(condemned')
    BY <2>3, <1>CondemnedFind, Zenon DEF Inv
  <2> QED
    BY <2>3, <2>13, <2>14, Zenon DEF Inv, history
\* An RX_DONE with no frame to answer.
<1>NothingStep.
    ASSUME Inv, NEW h \in Blocks, Release(h), defer' = [defer EXCEPT ![h] = LookedUp(h)],
           UNCHANGED <<map, queue, condemned, toPeer, history, filter, buf, peer, toEngine>>
    PROVE  Inv'
  <2> USE <1>NothingStep
  <2>1. /\ queue[h] \in Seq(QFrames) /\ Len(queue[h]) <= RxQueue
        /\ pres = [g \in Blocks |-> pres[g]] /\ defer = [g \in Blocks |-> defer[g]]
        /\ But(queue, queue, h) /\ But(buf, buf, h) /\ BlocksOK(queue, pres, buf, defer)
    BY BlockFacts, Zenon DEF Inv
  <2> DEFINE u == LookedUp(h)
  <2>2. u \in Deferrals /\ BlockOK(queue[h], 0, buf[h], u)
    BY OffsetIs, Zenon
  <2>3. But(pres', pres, h) /\ pres'[h] = 0
    BY <2>1, ButIs, Zenon DEF Release
  <2>4. But(defer', defer, h) /\ defer'[h] = u
    BY <2>1, ButIs, Zenon
  <2>5. 0 \in Nat
    OBVIOUS
  <2> HIDE DEF u
  <2>6. BlocksOK(queue, pres', buf, defer')
    BY <2>1, <2>2, <2>3, <2>4, <2>5, <1>BlocksBut, Zenon
  <2> QED
    BY <2>6, Zenon DEF Inv, history
\* RX_DONE, whatever the answer (aun_rx_collect).
<1>CollectStep.
    ASSUME Inv, NEW h \in Blocks, NEW accept \in BOOLEAN, aun_rx_collect(h, accept)
    PROVE  Inv'
  <2> USE <1>CollectStep
  <2> DEFINE f == queue[h][Offset(h)]
  <2>1. Release(h) /\ UNCHANGED <<filter, buf, peer, toEngine>>
    BY Zenon DEF aun_rx_collect
  <2>2. CASE queue[h] = << >> \/ Offset(h) = 0
    <3>1. /\ defer' = [defer EXCEPT ![h] = LookedUp(h)]
          /\ UNCHANGED <<map, queue, condemned, toPeer, history>>
      BY <2>2, Zenon DEF aun_rx_collect
    <3> QED
      BY <2>1, <3>1, <1>NothingStep, Zenon
  <2>3. CASE ~(queue[h] = << >> \/ Offset(h) = 0)
    <3>1. \/ CollectAccept(h, f)
          \/ CollectDrop(h)
          \/ f.src # Local /\ CollectShed(h, f)
          \/ f.src # Local /\ CollectDefer(h, f)
      BY <2>3, Zenon DEF aun_rx_collect
    <3>2. Offset(h) # 0
      BY <2>3, Zenon
    <3>3. CASE CollectDrop(h)
      <4>1. BlocksOK(queue', pres', buf', defer')
        BY <2>1, <3>2, <3>3, <1>RemovedIs, Zenon DEF CollectDrop
      <4>2. UNCHANGED <<map, condemned, toPeer, history>>
        BY <3>3, Zenon DEF CollectDrop
      <4> QED
        BY <2>1, <4>1, <4>2, Zenon DEF Inv, history
    <3> QED
      BY <2>1, <3>1, <3>2, <3>3, <1>AcceptStep, <1>ShedStep, <1>DeferStep, Zenon
  <2> QED
    BY <2>2, <2>3, Zenon
\* Time passes.
<1>TickStep.
    ASSUME Inv, Tick
    PROVE  Inv'
  <2> USE <1>TickStep
  <2>1. /\ defer' = [h \in Blocks |-> Age(defer[h])] /\ condemned' = Age(condemned)
        /\ UNCHANGED <<map, filter, queue, pres, buf, netVars, history>>
    BY Zenon DEF Tick
  <2>2. \A h \in Blocks : Age(defer[h]) \in Deferrals /\ BlockOK(queue[h], pres[h], buf[h], Age(defer[h]))
    BY BlockFacts, <1>BlockAge, Zenon
  <2>3. BlocksOK(queue, pres, buf, defer')
    BY <2>1, <2>2, Zenon DEF Inv, BlocksOK
  <2>4. CondemnedOK(condemned')
    BY <2>1, <1>CondemnedAge, Zenon DEF Inv
  <2> QED
    BY <2>1, <2>3, <2>4, Zenon DEF Inv, netVars, history
\* A peer's next transaction.
<1>NextTransactionIs.
    ASSUME peer \in [Srcs -> Sending], NEW s \in Srcs, NextTransaction(s)
    PROVE  peer' \in [Srcs -> Sending]
  <2> USE <1>NextTransactionIs
  <2>1. PICK p \in Ports : peer' = [peer EXCEPT ![s] = [inc |-> @.inc, seq |-> @.seq + 1, port |-> p]]
    BY Zenon DEF NextTransaction
  <2>2. [inc |-> peer[s].inc, seq |-> peer[s].seq + 1, port |-> p] \in Sending
    BY DEF Sending
  <2> QED
    BY <2>1, <2>2
\* A peer sends, or sends again.
<1>PeerSendStep.
    ASSUME Inv, NEW s \in Srcs, PeerSend(s)
    PROVE  Inv'
  <2> USE <1>PeerSendStep
  <2> DEFINE m == [src |-> s, inc |-> peer[s].inc, seq |-> peer[s].seq, port |-> peer[s].port]
  <2>1. /\ peer[s].seq + peer[s].inc <= MaxSeq /\ Len(toEngine[s]) < MaxNet
        /\ toEngine' = [toEngine EXCEPT ![s] = Append(@, m)]
        /\ UNCHANGED <<map, blockVars, condemned, peer, toPeer, history>>
    BY Zenon DEF PeerSend
  <2>2. m \in Wire
    <3>1. peer[s] \in Sending
      BY DEF Inv
    <3> QED
      BY <2>1, <3>1, Consts DEF Sending, Wire
  <2>3. m.src = s
    OBVIOUS
  <2> HIDE DEF m
  <2>4. InOK(toEngine')
    BY <2>1, <2>2, <2>3, <1>InSent, Zenon DEF Inv
  <2> QED
    BY <2>1, <2>4, Zenon DEF Inv, blockVars, history
\* A peer hears an answer.
<1>PeerRecvStep.
    ASSUME Inv, NEW s \in Srcs, PeerRecv(s)
    PROVE  Inv'
  <2> USE <1>PeerRecvStep
  <2>1. /\ toPeer[s] # << >> /\ toPeer' = [toPeer EXCEPT ![s] = Tail(@)]
        /\ NextTransaction(s) \/ peer' = peer
        /\ UNCHANGED <<map, blockVars, condemned, toEngine, history>>
    BY Zenon DEF PeerRecv
  <2>2. OutOK(toPeer')
    BY <2>1, <1>OutTail, Zenon DEF Inv
  <2>3. peer' \in [Srcs -> Sending]
    BY <2>1, <1>NextTransactionIs, Zenon DEF Inv
  <2> QED
    BY <2>1, <2>2, <2>3, Zenon DEF Inv, blockVars, history
\* A peer gives its transaction up.
<1>PeerAbandonStep.
    ASSUME Inv, NEW s \in Srcs, PeerAbandon(s)
    PROVE  Inv'
  <2> USE <1>PeerAbandonStep
  <2>1. NextTransaction(s) /\ UNCHANGED <<map, blockVars, condemned, toEngine, toPeer, history>>
    BY Zenon DEF PeerAbandon
  <2>2. peer' \in [Srcs -> Sending]
    BY <2>1, <1>NextTransactionIs, Zenon DEF Inv
  <2> QED
    BY <2>1, <2>2, Zenon DEF Inv, blockVars, history
\* A peer restarts its numbers.
<1>PeerRestartStep.
    ASSUME Inv, NEW s \in Srcs, PeerRestart(s)
    PROVE  Inv'
  <2> USE <1>PeerRestartStep
  <2>1. /\ peer[s].inc < MaxRestart
        /\ UNCHANGED <<map, blockVars, condemned, toEngine, toPeer, history>>
    BY Zenon DEF PeerRestart
  <2>2. PICK p \in Ports : peer' = [peer EXCEPT ![s] = [inc |-> @.inc + 1, seq |-> 1, port |-> p]]
    BY Zenon DEF PeerRestart
  <2>3. peer \in [Srcs -> Sending]
    BY Zenon DEF Inv
  <2>4. [inc |-> peer[s].inc + 1, seq |-> 1, port |-> p] \in Sending
    BY <2>1, <2>3, Consts DEF Sending
  <2>5. peer' \in [Srcs -> Sending]
    BY <2>2, <2>3, <2>4
  <2> QED
    BY <2>1, <2>5, Zenon DEF Inv, blockVars, history
\* A datagram is lost.
<1>LoseStep.
    ASSUME Inv, NEW s \in Srcs, Lose(s)
    PROVE  Inv'
  <2> USE <1>LoseStep
  <2>1. UNCHANGED <<map, blockVars, condemned, peer, history>>
    BY Zenon DEF Lose
  <2>2. InOK(toEngine')
    <3>1. InOK(toEngine)
      BY Zenon DEF Inv
    <3>2. toEngine' = toEngine \/ (toEngine[s] # << >> /\ toEngine' = [toEngine EXCEPT ![s] = Tail(@)])
      BY Zenon DEF Lose
    <3> QED
      BY <3>1, <3>2, InTail
  <2>3. OutOK(toPeer')
    <3>1. OutOK(toPeer)
      BY Zenon DEF Inv
    <3>2. toPeer' = toPeer \/ (toPeer[s] # << >> /\ toPeer' = [toPeer EXCEPT ![s] = Tail(@)])
      BY Zenon DEF Lose
    <3> QED
      BY <3>1, <3>2, <1>OutTail, Zenon
  <2> QED
    BY <2>1, <2>2, <2>3, Zenon DEF Inv, blockVars, history
\* The engine starts in the invariant.
<1>InitInv. Init => Inv
  <2> SUFFICES ASSUME Init PROVE Inv
    OBVIOUS
  <2>1. MapOK(map) /\ CondemnedOK(condemned)
    BY <1>StaticIs, <1>CondemnedStart, Zenon DEF Init
  <2>2. BlocksOK(queue, pres, buf, defer)
    BY <1>BlocksStart, Zenon DEF Init
  <2>3. FilterOK(filter)
    BY Zenon DEF Init, FilterOK
  <2>4. peer \in [Srcs -> Sending]
    <3>1. [inc : {0}, seq : {1}, port : Ports] \subseteq Sending
      BY Consts DEF Sending
    <3> QED
      BY <3>1 DEF Init
  <2>5. InOK(toEngine) /\ OutOK(toPeer)
    <3>1. toEngine = [s \in Srcs |-> << >>] /\ toPeer = [s \in Srcs |-> << >>]
      BY Zenon DEF Init
    <3>2. MaxNet \in Nat
      BY Consts, Zenon
    <3> QED
      BY <3>1, <3>2 DEF InOK, OutOK
  <2>6. HistoryOK(taken, shed)
    BY DEF Init, HistoryOK
  <2> QED
    BY <2>1, <2>2, <2>3, <2>4, <2>5, <2>6, Zenon DEF Inv
\* Every step keeps the invariant.
<1>NextInv. Inv /\ [Next]_vars => Inv'
  <2> SUFFICES ASSUME Inv, [Next]_vars PROVE Inv'
    OBVIOUS
  <2>1. CASE UNCHANGED vars
    BY <2>1, Zenon DEF Inv, vars, blockVars, netVars, history
  <2>2. CASE Engine
    BY <2>2, <1>RxDataStep, Zenon DEF Engine
  <2>3. CASE Host
    BY <2>3, <1>CollectStep, <1>PollStep, <1>ReadyStep, <1>CloseStep, <1>OpenStep, <1>MapAddStep, <1>AunInitStep, Zenon
       DEF Host
  <2>4. CASE Network
    BY <2>4, <1>PeerSendStep, <1>PeerRecvStep, <1>PeerAbandonStep, <1>PeerRestartStep, <1>LoseStep, <1>BroadcastStep,
       Zenon DEF Network
  <2> QED
    BY <2>1, <2>2, <2>3, <2>4, <1>TickStep, Zenon DEF Next
<1> QED
  BY <1>InitInv, <1>NextInv, Zenon

\* What the invariant says of the presented frame, of the tables and of the types.
LEMMA InvSays ==
  Inv => PresentedStable /\ TablesSound /\ (CondemnRetries <= DeferRetries => TypeOK)
<1>1. Inv => PresentedStable
  <2>1. ASSUME Inv, NEW h \in Blocks, pres[h] # 0
        PROVE  pres[h] <= Len(queue[h]) /\ buf[h] = Msg(queue[h][pres[h]])
    <3>1. Chosen(queue[h], defer[h], pres[h]) /\ buf[h] = Msg(queue[h][pres[h]])
      BY <2>1, BlockFacts, Zenon DEF BlockOK
    <3>2. pres[h] \in 1 .. Len(queue[h])
      BY <3>1, Zenon DEF Chosen
    <3> QED
      BY <3>1, <3>2
  <2> QED
    BY <2>1, Zenon DEF PresentedStable
<1>2. Inv => TablesSound
  <2>1. ASSUME Inv, NEW h \in Blocks
        PROVE  /\ NoDuplicates(defer[h])
               /\ \A i \in DOMAIN defer[h] : defer[h][i].left > 0 =>
                    /\ \E k \in DOMAIN queue[h] : Stream(queue[h][k]) = defer[h][i].stream
                    /\ pres[h] \in DOMAIN queue[h] => Stream(queue[h][pres[h]]) # defer[h][i].stream
    <3>1. BlockOK(queue[h], pres[h], buf[h], defer[h])
      BY <2>1, BlockFacts, Zenon
    <3>2. DOMAIN queue[h] = 1 .. Len(queue[h]) /\ DOMAIN defer[h] = 1 .. DeferSlots
      BY <2>1, BlockFacts DEF Deferrals, Tables
    <3>3. pres[h] \in DOMAIN queue[h] => Undeferred(defer[h], queue[h][pres[h]])
      <4>1. pres[h] \in DOMAIN queue[h] => pres[h] # 0
        BY <3>2
      <4> QED
        BY <3>1, <4>1, Zenon DEF BlockOK, Chosen
    <3> QED
      BY <3>1, <3>2, <3>3, Zenon DEF BlockOK, Backed, Undeferred
  <2> QED
    BY <2>1, Zenon DEF TablesSound, Inv, CondemnedOK
<1>3. ASSUME CondemnRetries <= DeferRetries PROVE Inv => TypeOK
  <2>1. QFrames \subseteq Frames
    BY <1>3, Consts DEF QFrames, Frames, Budget
  <2>2. ASSUME Inv, NEW h \in Blocks
        PROVE  queue[h] \in Seq(Frames) /\ Len(queue[h]) <= RxQueue /\ pres[h] \in 0 .. Len(queue[h])
    <3>1. /\ queue[h] \in Seq(QFrames) /\ Len(queue[h]) <= RxQueue /\ Len(queue[h]) \in Nat
          /\ BlockOK(queue[h], pres[h], buf[h], defer[h])
      BY <2>2, BlockFacts, Zenon
    <3>2. pres[h] # 0 => pres[h] \in 1 .. Len(queue[h])
      BY <3>1, Zenon DEF BlockOK, Chosen
    <3>3. queue[h] \in Seq(Frames)
      BY <2>1, <3>1
    <3> QED
      BY <3>1, <3>2, <3>3
  <2>3. Inv => TypeOK
    <3> SUFFICES ASSUME Inv PROVE TypeOK
      OBVIOUS
    <3>1. map \in Seq([stn : Stns, src : Srcs, last : 0 .. MaxSeq]) /\ Len(map) <= MapCap
      BY Zenon DEF Inv, MapOK, MapEntries
    <3>2. filter \in [Blocks -> Filters \cup {Closed}]
      BY Zenon DEF Inv, FilterOK
    <3>3. /\ defer \in [Blocks -> [1 .. DeferSlots -> Entries(DeferDelay)]]
          /\ condemned \in [1 .. CondemnSlots -> Entries(CondemnTtl)]
      BY Zenon DEF Inv, BlocksOK, CondemnedOK, Deferrals, Tables
    <3>4. \A s \in Srcs : Len(toPeer[s]) <= MaxNet /\ Len(toEngine[s]) <= MaxNet
      BY Zenon DEF Inv, InOK, OutOK
    <3> QED
      BY <2>2, <3>1, <3>2, <3>3, <3>4, Zenon DEF TypeOK, MapCap
  <2> QED
    BY <2>3, Zenon
<1> QED
  BY <1>1, <1>2, <1>3, Zenon

-----------------------------------------------------------------------------
(* What the operations do to the queues.                                     *)

\* rx_deliver puts the frame behind the others of its block, and touches no other block.
LEMMA Enqueued ==
  ASSUME Inv, NEW h \in Blocks, NEW m, Enqueue(h, m)
  PROVE  /\ Len(queue'[h]) = Len(queue[h]) + 1 /\ Len(queue[h]) \in Nat
         /\ \A k \in 1 .. Len(queue[h]) : queue'[h][k] = queue[h][k]
         /\ queue'[h][Len(queue[h]) + 1] =
              [src |-> m.src, inc |-> m.inc, seq |-> m.seq, port |-> m.port, rejects |-> 0]
         /\ \A g \in Blocks : g # h => queue'[g] = queue[g]
<1> DEFINE f == [src |-> m.src, inc |-> m.inc, seq |-> m.seq, port |-> m.port, rejects |-> 0]
           r == Append(queue[h], f)
<1>1. queue' = [queue EXCEPT ![h] = r]
  BY Zenon DEF Enqueue
<1>2. queue[h] \in Seq(QFrames) /\ queue = [g \in Blocks |-> queue[g]]
  BY BlockFacts, Zenon
<1> HIDE DEF f
<1>3. /\ Len(r) = Len(queue[h]) + 1 /\ Len(queue[h]) \in Nat
      /\ \A k \in 1 .. Len(queue[h]) : r[k] = queue[h][k]
      /\ r[Len(queue[h]) + 1] = f
  BY <1>2
<1> HIDE DEF r
<1>4. queue'[h] = r /\ \A g \in Blocks : g # h => queue'[g] = queue[g]
  BY <1>1, <1>2, Zenon
<1> QED
  BY <1>3, <1>4, Zenon DEF f

\* The frame it puts there is the message.
LEMMA EnqueuedAs ==
  ASSUME Inv, NEW h \in Blocks, NEW m, Enqueue(h, m)
  PROVE  /\ queue'[h][Len(queue[h]) + 1].src = m.src /\ queue'[h][Len(queue[h]) + 1].inc = m.inc
         /\ queue'[h][Len(queue[h]) + 1].seq = m.seq
<1> DEFINE q == queue'[h][Len(queue[h]) + 1]
<1>1. q = [src |-> m.src, inc |-> m.inc, seq |-> m.seq, port |-> m.port, rejects |-> 0]
  BY Enqueued, Zenon
<1> HIDE DEF q
<1>2. q.src = m.src /\ q.inc = m.inc /\ q.seq = m.seq
  BY <1>1
<1> QED
  BY <1>2, Zenon DEF q

\* rx_remove_at takes the answered frame out and moves the ones behind it up.
LEMMA Removed ==
  ASSUME WellOrdered, Inv, NEW h \in Blocks, Offset(h) # 0, rx_remove_at(h)
  PROVE  /\ Offset(h) \in 1 .. Len(queue[h])
         /\ Len(queue'[h]) = Len(queue[h]) - 1 /\ Len(queue[h]) \in Nat
         /\ \A k \in 1 .. Len(queue'[h]) :
              queue'[h][k] = IF k < Offset(h) THEN queue[h][k] ELSE queue[h][k + 1]
         /\ \A g \in Blocks : g # h => queue'[g] = queue[g]
<1> DEFINE i == Offset(h)
           r == Without(queue[h], i)
<1>1. queue' = [queue EXCEPT ![h] = r]
  BY Zenon DEF rx_remove_at
<1>2. queue[h] \in Seq(QFrames) /\ queue = [g \in Blocks |-> queue[g]] /\ Len(queue[h]) \in Nat
  BY BlockFacts, Zenon
<1>3. i \in 1 .. Len(queue[h])
  BY OffsetIs, Zenon DEF Chosen
<1>4. /\ Len(r) = Len(queue[h]) - 1
      /\ \A k \in 1 .. Len(queue[h]) - 1 : r[k] = IF k < i THEN queue[h][k] ELSE queue[h][k + 1]
  BY <1>2, <1>3, WithoutIs, Zenon
<1> HIDE DEF r
<1>5. queue'[h] = r /\ \A g \in Blocks : g # h => queue'[g] = queue[g]
  BY <1>1, <1>2, Zenon
<1> QED
  BY <1>2, <1>3, <1>4, <1>5, Zenon

\* Where the k-th frame of block g was before the answered frame of block h was removed.
Was(h, g, k) == IF g = h /\ k >= Offset(h) THEN k + 1 ELSE k

\* Where the frames of a shortened queue were.
LEMMA RemovedFrom ==
  ASSUME WellOrdered, Inv, NEW h \in Blocks, Offset(h) # 0, rx_remove_at(h)
  PROVE  \A g \in Blocks : \A k \in 1 .. Len(queue'[g]) :
           /\ Was(h, g, k) \in 1 .. Len(queue[g]) /\ queue'[g][k] = queue[g][Was(h, g, k)]
           /\ g = h => Was(h, g, k) # Offset(h)
<1> SUFFICES ASSUME NEW g \in Blocks, NEW k \in 1 .. Len(queue'[g])
             PROVE  /\ Was(h, g, k) \in 1 .. Len(queue[g])
                    /\ queue'[g][k] = queue[g][Was(h, g, k)]
                    /\ g = h => Was(h, g, k) # Offset(h)
  BY Zenon
<1>1. /\ Offset(h) \in 1 .. Len(queue[h])
      /\ Len(queue'[h]) = Len(queue[h]) - 1 /\ Len(queue[h]) \in Nat
      /\ \A n \in 1 .. Len(queue'[h]) :
           queue'[h][n] = IF n < Offset(h) THEN queue[h][n] ELSE queue[h][n + 1]
      /\ \A x \in Blocks : x # h => queue'[x] = queue[x]
  BY Removed, Zenon
<1>2. CASE g # h
  <2>1. Was(h, g, k) = k /\ queue'[g] = queue[g]
    BY <1>1, <1>2, Zenon DEF Was
  <2> QED
    BY <1>2, <2>1, Zenon
<1>3. CASE g = h /\ k < Offset(h)
  <2>1. k \in 1 .. Len(queue[h]) /\ k # Offset(h) /\ ~(k >= Offset(h))
    BY <1>1, <1>3
  <2>2. queue'[h][k] = queue[h][k] /\ Was(h, g, k) = k
    BY <1>1, <1>3, <2>1, Zenon DEF Was
  <2> QED
    BY <1>3, <2>1, <2>2, Zenon
<1>4. CASE g = h /\ ~(k < Offset(h))
  <2>1. k + 1 \in 1 .. Len(queue[h]) /\ k + 1 # Offset(h) /\ k >= Offset(h)
    BY <1>1, <1>4
  <2>2. queue'[h][k] = queue[h][k + 1] /\ Was(h, g, k) = k + 1
    BY <1>1, <1>4, <2>1, Zenon DEF Was
  <2> QED
    BY <1>4, <2>1, <2>2, Zenon
<1> QED
  BY <1>2, <1>3, <1>4, Zenon

\* A refused frame keeps its place, with one more reject.
LEMMA Refused ==
  ASSUME WellOrdered, Inv, NEW h \in Blocks, Offset(h) # 0, CollectDefer(h, queue[h][Offset(h)])
  PROVE  \A g \in Blocks :
           /\ Len(queue'[g]) = Len(queue[g])
           /\ \A k \in 1 .. Len(queue[g]) :
                /\ queue'[g][k].src = queue[g][k].src /\ queue'[g][k].inc = queue[g][k].inc
                /\ queue'[g][k].seq = queue[g][k].seq /\ queue'[g][k].port = queue[g][k].port
<1> DEFINE i == Offset(h)
           r == [queue[h] EXCEPT ![i].rejects = @ + 1]
           e == [queue[h][i] EXCEPT !.rejects = @ + 1]
<1>1. queue' = [queue EXCEPT ![h][i].rejects = @ + 1]
  BY Zenon DEF CollectDefer
<1>2. queue[h] \in Seq(QFrames) /\ queue = [g \in Blocks |-> queue[g]] /\ Len(queue[h]) \in Nat
  BY BlockFacts, Zenon
<1>3. i \in 1 .. Len(queue[h])
  BY OffsetIs, Zenon DEF Chosen
<1>4. queue[h][i] \in QFrames
  BY <1>2, <1>3
<1>5. /\ e.src = queue[h][i].src /\ e.inc = queue[h][i].inc
      /\ e.seq = queue[h][i].seq /\ e.port = queue[h][i].port
  BY <1>4 DEF QFrames
<1>6. queue' = [queue EXCEPT ![h] = r] /\ r = [queue[h] EXCEPT ![i] = e]
  BY <1>1, Zenon
<1> HIDE DEF e, i, r
<1>7. Len(r) = Len(queue[h]) /\ r[i] = e /\ \A k \in 1 .. Len(queue[h]) : k # i => r[k] = queue[h][k]
  BY <1>2, <1>3, <1>6
<1>8. queue'[h] = r /\ \A g \in Blocks : g # h => queue'[g] = queue[g]
  BY <1>2, <1>6, Zenon
<1> QED
  BY <1>3, <1>5, <1>7, <1>8, Zenon

\* The branches of RX_DONE.
LEMMA CollectCases ==
  ASSUME Inv, NEW h \in Blocks, NEW accept, aun_rx_collect(h, accept)
  PROVE  LET f == queue[h][Offset(h)] IN
         /\ UNCHANGED <<peer, toEngine, budget>>
         /\ \/ UNCHANGED <<map, queue, toPeer, history>>
            \/ Offset(h) # 0 /\ rx_remove_at(h) /\ UNCHANGED <<map, toPeer, history>>
            \/ /\ Offset(h) # 0 /\ f.src # Local /\ rx_remove_at(h)
               /\ Reply(f.src, "ack", f) /\ Stamp(f)
               /\ \/ taken' = Append(taken, Msg(f)) /\ shed' = shed
                  \/ taken' = taken /\ shed' = shed \cup {Msg(f)}
            \/ /\ Offset(h) # 0 /\ CollectDefer(h, f) /\ UNCHANGED <<map, toPeer, history>>
<1> DEFINE f == queue[h][Offset(h)]
<1>1. UNCHANGED <<peer, toEngine, budget>>
  BY Zenon DEF aun_rx_collect
<1>2. CASE queue[h] = << >> \/ Offset(h) = 0
  BY <1>1, <1>2, Zenon DEF aun_rx_collect
<1>3. CASE ~(queue[h] = << >> \/ Offset(h) = 0)
  <2>1. \/ CollectAccept(h, f)
        \/ CollectDrop(h)
        \/ f.src # Local /\ CollectShed(h, f)
        \/ f.src # Local /\ CollectDefer(h, f)
    BY <1>3, Zenon DEF aun_rx_collect
  <2>2. Offset(h) # 0
    BY <1>3, Zenon
  <2> HIDE DEF f
  <2>3. CASE CollectAccept(h, f)
    BY <1>1, <2>2, <2>3, Zenon DEF CollectAccept, f
  <2>4. CASE CollectDrop(h)
    BY <1>1, <2>2, <2>4, Zenon DEF CollectDrop
  <2>5. CASE f.src # Local /\ CollectShed(h, f)
    BY <1>1, <2>2, <2>5, Zenon DEF CollectShed, f
  <2>6. CASE f.src # Local /\ CollectDefer(h, f)
    <3>1. UNCHANGED <<map, toPeer, history>>
      BY <2>6, Zenon DEF CollectDefer
    <3> QED
      BY <1>1, <2>2, <2>6, <3>1, Zenon DEF f
  <2> QED
    BY <2>1, <2>3, <2>4, <2>5, <2>6, Zenon
<1> QED
  BY <1>2, <1>3, Zenon

-----------------------------------------------------------------------------
(* An ACK answers a message the host accepted or one shed: as long as no     *)
(* peer has restarted, a last_rx_seq is the number of such a message.        *)

\* No peer has restarted.
Unrestarted(p) == \A s \in Srcs : p[s].inc = 0

\* The datagrams in flight are of first incarnations.
InFresh(t) == \A s \in Srcs : \A k \in 1 .. Len(t[s]) : t[s][k].inc = 0

\* So are the frames queued for the host.
QueuesFresh(q) ==
  \A h \in Blocks : \A k \in 1 .. Len(q[h]) : q[h][k].src # Local => q[h][k].inc = 0

\* Message n of source s, of its first incarnation, is among C.
Backs(C, s, n) == \E c \in C : c.src = s /\ c.inc = 0 /\ c.seq = n

\* A last_rx_seq is the number of a message among C.
MapBacked(m, C) == \A i \in 1 .. Len(m) : m[i].last # 0 => Backs(C, m[i].src, m[i].last)

\* AckTruthful, for the messages of a first incarnation.
AcksBacked(t, C) ==
  \A s \in Srcs : \A k \in 1 .. Len(t[s]) :
     t[s][k].type = "ack" => t[s][k].inc = 0 /\ Backs(C, s, t[s][k].seq)

\* The inductive invariant behind AckTruthfulUnrestarted.
AckInv == Unrestarted(peer) =>
  /\ InFresh(toEngine) /\ QueuesFresh(queue)
  /\ MapBacked(map, Confirmed) /\ AcksBacked(toPeer, Confirmed)

\* The map after Stamp.
LEMMA Stamped ==
  ASSUME WellOrdered, Inv, NEW f, Stamp(f)
  PROVE  LET i == ByIp(map, f.src) IN
         \/ i = 0 /\ map' = map
         \/ /\ i \in 1 .. Len(map) /\ Len(map') = Len(map)
            /\ map'[i].last = f.seq /\ map'[i].src = f.src /\ map'[i].stn = map[i].stn
            /\ \A j \in 1 .. Len(map) : j # i => map'[j] = map[j]
<1> DEFINE i == ByIp(map, f.src)
           n == f.seq
<1>1. map \in Seq(MapEntries)
  BY Zenon DEF Inv, MapOK
<1>2. i = 0 \/ (i \in 1 .. Len(map) /\ map[i].src = f.src)
  BY <1>1, ByIpIs, Zenon
<1>3. CASE i = 0
  BY <1>3, Zenon DEF Stamp
<1>4. CASE i # 0
  <2>1. map' = [map EXCEPT ![i].last = n]
    BY <1>4, Zenon DEF Stamp
  <2>2. i \in 1 .. Len(map) /\ map[i].src = f.src
    BY <1>2, <1>4, Zenon
  <2>3. map[i] \in MapEntries
    BY <1>1, <2>2
  <2> DEFINE e == [map[i] EXCEPT !.last = n]
  <2>4. e.last = n /\ e.src = map[i].src /\ e.stn = map[i].stn
    BY <2>3 DEF MapEntries
  <2>5. map' = [map EXCEPT ![i] = e]
    BY <2>1, Zenon
  <2> HIDE DEF e, i
  <2>6. Len(map') = Len(map) /\ map'[i] = e /\ \A j \in 1 .. Len(map) : j # i => map'[j] = map[j]
    BY <1>1, <2>2, <2>5
  <2> QED
    BY <2>2, <2>4, <2>6, Zenon DEF i
<1> QED
  BY <1>3, <1>4, Zenon

\* An answer is sent: the answers in flight.
LEMMA Replied ==
  ASSUME Inv, NEW s \in Srcs, NEW type, type \in Kinds,
         NEW m, m.inc \in 0 .. MaxRestart, m.seq \in 0 .. MaxSeq, Reply(s, type, m)
  PROVE  /\ Len(toPeer'[s]) = Len(toPeer[s]) + 1 /\ Len(toPeer[s]) \in Nat
         /\ \A k \in 1 .. Len(toPeer'[s]) :
              \/ k \in 1 .. Len(toPeer[s]) /\ toPeer'[s][k] = toPeer[s][k]
              \/ toPeer'[s][k].type = type /\ toPeer'[s][k].inc = m.inc /\ toPeer'[s][k].seq = m.seq
         /\ \A x \in Srcs : x # s => toPeer'[x] = toPeer[x]
<1> DEFINE a == [type |-> type, inc |-> m.inc, seq |-> m.seq]
<1>1. a \in Answers
  BY DEF Answers, Kinds
<1>2. toPeer \in [Srcs -> Seq(Answers)]
  BY Zenon DEF Inv, OutOK
<1>3. toPeer' = [toPeer EXCEPT ![s] = Append(@, a)]
  BY Zenon DEF Reply
<1>4. a.type = type /\ a.inc = m.inc /\ a.seq = m.seq
  OBVIOUS
<1> HIDE DEF a
<1>5. /\ Len(toPeer'[s]) = Len(toPeer[s]) + 1 /\ Len(toPeer[s]) \in Nat
      /\ \A k \in 1 .. Len(toPeer[s]) : toPeer'[s][k] = toPeer[s][k]
      /\ toPeer'[s][Len(toPeer'[s])] = a
      /\ \A x \in Srcs : x # s => toPeer'[x] = toPeer[x]
  BY <1>1, <1>2, <1>3, SentIs
<1>6. \A k \in 1 .. Len(toPeer'[s]) : k \in 1 .. Len(toPeer[s]) \/ k = Len(toPeer'[s])
  BY <1>5
<1> QED
  BY <1>4, <1>5, <1>6, Zenon

\* AckInv is inductive given Inv.
LEMMA AckInductive ==
  WellOrdered =>
    /\ Init => AckInv
    /\ Inv /\ Inv' /\ AckInv /\ [Next]_vars => AckInv'
    /\ Inv /\ AckInv => AckTruthfulUnrestarted
<1> SUFFICES ASSUME WellOrdered
             PROVE  /\ Init => AckInv
                    /\ Inv /\ Inv' /\ AckInv /\ [Next]_vars => AckInv'
                    /\ Inv /\ AckInv => AckTruthfulUnrestarted
  BY Zenon
\* What is confirmed stays confirmed.
<1>BackedMore.
    ASSUME NEW C, NEW D, C \subseteq D
    PROVE  /\ \A s, n : Backs(C, s, n) => Backs(D, s, n)
           /\ \A m : MapBacked(m, C) => MapBacked(m, D)
           /\ \A t : AcksBacked(t, C) => AcksBacked(t, D)
  <2> USE <1>BackedMore
  <2>1. \A s, n : Backs(C, s, n) => Backs(D, s, n)
    BY Zenon DEF Backs
  <2> QED
    BY <2>1, Zenon DEF MapBacked, AcksBacked
\* A station added, or redirected, has no last_rx_seq.
<1>MapAddFrom.
    ASSUME NEW m, MapOK(m), NEW stn \in Stns, NEW s \in Srcs
    PROVE  \A i \in 1 .. Len(MapAdd(m, stn, s)) :
              MapAdd(m, stn, s)[i].last = 0 \/ (i \in 1 .. Len(m) /\ MapAdd(m, stn, s)[i] = m[i])
  <2> USE <1>MapAddFrom
  <2> DEFINE e == [stn |-> stn, src |-> s, last |-> 0]
             j == ByAddr(m, stn)
  <2>1. m \in Seq(MapEntries) /\ Len(m) \in Nat
    BY DEF MapOK
  <2>2. j = 0 \/ j \in 1 .. Len(m)
    BY <2>1, ByAddrIs, Zenon
  <2>3. e.last = 0
    OBVIOUS
  <2>4. CASE j # 0
    <3>1. MapAdd(m, stn, s) = [m EXCEPT ![j] = e]
      BY <2>4 DEF MapAdd
    <3> HIDE DEF e, j
    <3>2. /\ Len([m EXCEPT ![j] = e]) = Len(m)
          /\ \A i \in 1 .. Len(m) : [m EXCEPT ![j] = e][i] = IF i = j THEN e ELSE m[i]
      BY <2>1
    <3> QED
      BY <2>3, <3>1, <3>2, Zenon
  <2>5. CASE j = 0 /\ Len(m) < MapMax
    <3>1. MapAdd(m, stn, s) = Append(m, e)
      BY <2>5 DEF MapAdd
    <3> HIDE DEF e, j
    <3>2. \A i \in 1 .. Len(Append(m, e)) : Append(m, e)[i] = e \/ (i \in 1 .. Len(m) /\ Append(m, e)[i] = m[i])
      BY <2>1
    <3> QED
      BY <2>3, <3>1, <3>2, Zenon
  <2>6. CASE j = 0 /\ ~(Len(m) < MapMax)
    <3>1. MapAdd(m, stn, s) = m
      BY <2>6 DEF MapAdd
    <3> QED
      BY <3>1, Zenon
  <2> QED
    BY <2>4, <2>5, <2>6, Zenon
\* aun_map_add keeps the map backed.
<1>MapAddBacked.
    ASSUME NEW m, MapOK(m), NEW stn \in Stns, NEW s \in Srcs, NEW C, MapBacked(m, C)
    PROVE  MapBacked(MapAdd(m, stn, s), C)
    BY <1>MapAddBacked, <1>MapAddFrom, Zenon DEF MapBacked
\* learn_attribute keeps the map backed.
<1>AttributedBacked.
    ASSUME Inv, NEW s \in Srcs, NEW C, MapBacked(map, C)
    PROVE  MapBacked(Attributed(s), C)
  <2> USE <1>AttributedBacked
  <2>1. MapOK(map)
    BY Zenon DEF Inv
  <2>2. Learn[s] # None => Learn[s] \in Stns
    BY AunRxAssumption DEF AunRxAssumption
  <2> QED
    BY <2>1, <2>2, <1>MapAddBacked, Zenon DEF Attributed
\* One more answer, an ACK only to a message among C (send_ack_nak).
<1>RepliedBacked.
    ASSUME Inv, NEW s \in Srcs, NEW type, type \in Kinds,
           NEW m, m.inc \in 0 .. MaxRestart, m.seq \in 0 .. MaxSeq, Reply(s, type, m),
           NEW C, AcksBacked(toPeer, C), type = "ack" => m.inc = 0 /\ Backs(C, s, m.seq)
    PROVE  AcksBacked(toPeer', C)
  <2> USE <1>RepliedBacked
  <2>1. /\ Len(toPeer'[s]) = Len(toPeer[s]) + 1 /\ Len(toPeer[s]) \in Nat
        /\ \A k \in 1 .. Len(toPeer'[s]) :
             \/ k \in 1 .. Len(toPeer[s]) /\ toPeer'[s][k] = toPeer[s][k]
             \/ toPeer'[s][k].type = type /\ toPeer'[s][k].inc = m.inc /\ toPeer'[s][k].seq = m.seq
        /\ \A x \in Srcs : x # s => toPeer'[x] = toPeer[x]
    BY Replied, Zenon
  <2> SUFFICES ASSUME NEW x \in Srcs, NEW k \in 1 .. Len(toPeer'[x]), toPeer'[x][k].type = "ack"
               PROVE  toPeer'[x][k].inc = 0 /\ Backs(C, x, toPeer'[x][k].seq)
    BY Zenon DEF AcksBacked
  <2>2. CASE x # s
    <3>1. toPeer'[x] = toPeer[x]
      BY <2>1, <2>2, Zenon
    <3> QED
      BY <3>1, Zenon DEF AcksBacked
  <2>3. CASE x = s
    <3>1. CASE k \in 1 .. Len(toPeer[s]) /\ toPeer'[s][k] = toPeer[s][k]
      BY <2>3, <3>1, Zenon DEF AcksBacked
    <3>2. CASE toPeer'[s][k].type = type /\ toPeer'[s][k].inc = m.inc /\ toPeer'[s][k].seq = m.seq
      BY <2>3, <3>2, Zenon
    <3> QED
      BY <2>1, <2>3, <3>1, <3>2, Zenon
  <2> QED
    BY <2>2, <2>3, Zenon
\* A message taken or shed is confirmed.
<1>ConfirmedMore.
    ASSUME Inv, NEW m \in Wire,
           \/ taken' = Append(taken, m) /\ shed' = shed
           \/ taken' = taken /\ shed' = shed \cup {m}
    PROVE  Confirmed \subseteq Confirmed' /\ m \in Confirmed' /\ Confirmed' \subseteq Confirmed \cup {m}
  <2> USE <1>ConfirmedMore
  <2>1. taken \in Seq(Wire)
    BY Zenon DEF Inv, HistoryOK
  <2>2. CASE taken' = Append(taken, m) /\ shed' = shed
    <3>1. Range(Append(taken, m)) = Range(taken) \cup {m}
      <4>1. /\ DOMAIN taken = 1 .. Len(taken) /\ DOMAIN Append(taken, m) = 1 .. Len(taken) + 1
            /\ Len(taken) \in Nat
            /\ \A k \in 1 .. Len(taken) : Append(taken, m)[k] = taken[k]
            /\ Append(taken, m)[Len(taken) + 1] = m
        BY <2>1
      <4>2. \A k \in 1 .. Len(taken) + 1 : k \in 1 .. Len(taken) \/ k = Len(taken) + 1
        BY <4>1
      <4>3. Len(taken) + 1 \in 1 .. Len(taken) + 1 /\ \A k \in 1 .. Len(taken) : k \in 1 .. Len(taken) + 1
        BY <4>1
      <4> QED
        BY <4>1, <4>2, <4>3, Zenon DEF Range
    <3> QED
      BY <2>2, <3>1, Zenon DEF Confirmed
  <2>3. CASE taken' = taken /\ shed' = shed \cup {m}
    BY <2>3, Zenon DEF Confirmed
  <2> QED
    BY <2>2, <2>3, Zenon
\* A datagram: the re-ACK is of last_rx_seq (aun_udp_input).
<1>AckRxData.
    ASSUME Inv, Inv', AckInv, NEW s \in Srcs, RxData(s)
    PROVE  AckInv'
  <2> USE <1>AckRxData
  <2> SUFFICES ASSUME Unrestarted(peer')
               PROVE  /\ InFresh(toEngine') /\ QueuesFresh(queue')
                      /\ MapBacked(map', Confirmed') /\ AcksBacked(toPeer', Confirmed')
    BY Zenon DEF AckInv
  <2> DEFINE m == Head(toEngine[s])
  <2>1. /\ peer' = peer /\ Confirmed' = Confirmed /\ RxVerdict(s, m) /\ map' = Attributed(s)
        /\ toEngine[s] # << >> /\ toEngine' = [toEngine EXCEPT ![s] = Tail(@)]
    BY Zenon DEF RxData, Confirmed, history
  <2>2. /\ InFresh(toEngine) /\ QueuesFresh(queue)
        /\ MapBacked(map, Confirmed) /\ AcksBacked(toPeer, Confirmed)
    BY <2>1, Zenon DEF AckInv
  <2>3. toEngine \in [Srcs -> Seq(Wire)] /\ m \in Wire /\ m.src = s
    BY <2>1, InTail, Zenon DEF Inv, InOK
  <2>4. /\ \A k \in 1 .. Len(toEngine'[s]) :
             k + 1 \in 1 .. Len(toEngine[s]) /\ toEngine'[s][k] = toEngine[s][k + 1]
        /\ \A x \in Srcs : x # s => toEngine'[x] = toEngine[x]
        /\ m = toEngine[s][1] /\ 1 \in 1 .. Len(toEngine[s])
    BY <2>1, <2>3, TailIs
  <2>5. InFresh(toEngine') /\ m.inc = 0
    <3>1. \A x \in Srcs : \A k \in 1 .. Len(toEngine[x]) : toEngine[x][k].inc = 0
      BY <2>2, Zenon DEF InFresh
    <3>2. m.inc = 0
      <4>1. 1 \in 1 .. Len(toEngine[s]) /\ m = toEngine[s][1]
        BY <2>4, Zenon
      <4>2. toEngine[s][1].inc = 0
        BY <3>1, <4>1, Zenon
      <4> QED
        BY <4>1, <4>2, Zenon
    <3> SUFFICES ASSUME NEW x \in Srcs, NEW k \in 1 .. Len(toEngine'[x])
                 PROVE  toEngine'[x][k].inc = 0
      BY <3>2, Zenon DEF InFresh
    <3>3. CASE x = s
      <4> HIDE DEF m
      <4>1. k + 1 \in 1 .. Len(toEngine[s]) /\ toEngine'[x][k] = toEngine[s][k + 1]
        BY <2>4, <3>3, Zenon
      <4> QED
        BY <3>1, <4>1, Zenon
    <3>4. CASE x # s
      <4> HIDE DEF m
      <4> QED
        BY <2>4, <3>1, <3>4, Zenon
    <3> QED
      BY <3>3, <3>4, Zenon
  <2> HIDE DEF m
  <2>6. MapBacked(map', Confirmed)
    BY <2>1, <2>2, <1>AttributedBacked, Zenon
  <2>7. m.inc \in 0 .. MaxRestart /\ m.seq \in 1 .. MaxSeq /\ m.seq \in 0 .. MaxSeq /\ m.seq # 0
    BY <2>3, Consts DEF Wire
  <2>8. \A h \in Blocks : Enqueue(h, m) => QueuesFresh(queue')
    <3> SUFFICES ASSUME NEW h \in Blocks, Enqueue(h, m), NEW g \in Blocks,
                        NEW k \in 1 .. Len(queue'[g]), queue'[g][k].src # Local
                 PROVE  queue'[g][k].inc = 0
      BY Zenon DEF QueuesFresh
    <3>1. /\ Len(queue'[h]) = Len(queue[h]) + 1 /\ Len(queue[h]) \in Nat
          /\ \A n \in 1 .. Len(queue[h]) : queue'[h][n] = queue[h][n]
          /\ queue'[h][Len(queue[h]) + 1] =
                [src |-> m.src, inc |-> m.inc, seq |-> m.seq, port |-> m.port, rejects |-> 0]
          /\ \A x \in Blocks : x # h => queue'[x] = queue[x]
      BY Enqueued, Zenon
    <3>2. queue'[h][Len(queue[h]) + 1].inc = m.inc
      BY <3>1
    <3>3. g = h => k \in 1 .. Len(queue[h]) \/ k = Len(queue[h]) + 1
      BY <3>1
    <3>4. \A n \in 1 .. Len(queue[g]) : queue[g][n].src # Local => queue[g][n].inc = 0
      BY <2>2, Zenon DEF QueuesFresh
    <3>5. CASE g # h
      BY <3>1, <3>4, <3>5, Zenon
    <3>6. CASE g = h
      BY <2>5, <3>1, <3>2, <3>3, <3>4, <3>6, Zenon
    <3> QED
      BY <3>5, <3>6, Zenon
  <2>9. queue' = queue => QueuesFresh(queue')
    BY <2>2, Zenon
  <2>10. toPeer' = toPeer => AcksBacked(toPeer', Confirmed)
    BY <2>2, Zenon
  <2>11. ASSUME Reply(s, "nak", m) PROVE AcksBacked(toPeer', Confirmed)
    <3>1. "nak" \in Kinds /\ ("nak" = "ack" => m.inc = 0 /\ Backs(Confirmed, s, m.seq))
      BY DEF Kinds
    <3> QED
      BY <2>2, <2>7, <2>11, <3>1, <1>RepliedBacked, Zenon
  <2>12. \A stn : RxDeliver(s, m, stn) => QueuesFresh(queue') /\ AcksBacked(toPeer', Confirmed)
    BY <2>8, <2>9, <2>10, <2>11, RoomIs, Zenon DEF RxDeliver
  <2>13. ASSUME ByIp(map', s) # 0, map'[ByIp(map', s)].last = m.seq, Reply(s, "ack", m)
         PROVE  AcksBacked(toPeer', Confirmed)
    <3>1. MapOK(map') /\ map' \in Seq(MapEntries)
      BY Zenon DEF Inv, MapOK
    <3>2. ByIp(map', s) \in 1 .. Len(map') /\ map'[ByIp(map', s)].src = s
      BY <2>13, <3>1, ByIpIs, Zenon
    <3>3. Backs(Confirmed, s, m.seq)
      BY <2>6, <2>7, <2>13, <3>2, Zenon DEF MapBacked
    <3>4. "ack" \in Kinds
      BY DEF Kinds
    <3> QED
      BY <2>2, <2>5, <2>7, <2>13, <3>3, <3>4, <1>RepliedBacked, Zenon
  <2>14. QueuesFresh(queue') /\ AcksBacked(toPeer', Confirmed)
    BY <2>1, <2>9, <2>10, <2>12, <2>13, Zenon DEF RxVerdict
  <2> QED
    BY <2>1, <2>5, <2>6, <2>14, Zenon
\* RX_DONE acknowledges what it confirms (aun_rx_collect).
<1>AckCollect.
    ASSUME Inv, AckInv, NEW h \in Blocks, NEW accept, aun_rx_collect(h, accept)
    PROVE  AckInv'
  <2> USE <1>AckCollect
  <2> SUFFICES ASSUME Unrestarted(peer')
               PROVE  /\ InFresh(toEngine') /\ QueuesFresh(queue')
                      /\ MapBacked(map', Confirmed') /\ AcksBacked(toPeer', Confirmed')
    BY Zenon DEF AckInv
  <2> DEFINE f == queue[h][Offset(h)]
  <2>1. /\ UNCHANGED <<peer, toEngine>>
        /\ \/ UNCHANGED <<map, queue, toPeer, history>>
           \/ Offset(h) # 0 /\ rx_remove_at(h) /\ UNCHANGED <<map, toPeer, history>>
           \/ /\ Offset(h) # 0 /\ f.src # Local /\ rx_remove_at(h)
              /\ Reply(f.src, "ack", f) /\ Stamp(f)
              /\ \/ taken' = Append(taken, Msg(f)) /\ shed' = shed
                 \/ taken' = taken /\ shed' = shed \cup {Msg(f)}
           \/ /\ Offset(h) # 0 /\ CollectDefer(h, f) /\ UNCHANGED <<map, toPeer, history>>
    BY CollectCases, Zenon
  <2>2. /\ InFresh(toEngine) /\ QueuesFresh(queue)
        /\ MapBacked(map, Confirmed) /\ AcksBacked(toPeer, Confirmed)
    BY <2>1, Zenon DEF AckInv
  <2>3. UNCHANGED history => Confirmed' = Confirmed
    BY Zenon DEF history, Confirmed
  <2>4. ASSUME Offset(h) # 0, rx_remove_at(h)
        PROVE  QueuesFresh(queue')
    <3>1. \A x \in Blocks : \A z \in 1 .. Len(queue'[x]) :
            /\ Was(h, x, z) \in 1 .. Len(queue[x]) /\ queue'[x][z] = queue[x][Was(h, x, z)]
            /\ x = h => Was(h, x, z) # Offset(h)
      BY <2>4, RemovedFrom, Zenon
    <3> SUFFICES ASSUME NEW g \in Blocks, NEW k \in 1 .. Len(queue'[g]), queue'[g][k].src # Local
                 PROVE  queue'[g][k].inc = 0
      BY Zenon DEF QueuesFresh
    <3>2. PICK j \in 1 .. Len(queue[g]) : queue'[g][k] = queue[g][j]
      BY <3>1, Zenon
    <3>3. queue[g][j].src # Local => queue[g][j].inc = 0
      BY <2>2, Zenon DEF QueuesFresh
    <3> QED
      BY <3>2, <3>3, Zenon
  <2>5. CASE UNCHANGED <<map, queue, toPeer, history>>
    BY <2>1, <2>2, <2>3, <2>5, Zenon
  <2>6. CASE Offset(h) # 0 /\ rx_remove_at(h) /\ UNCHANGED <<map, toPeer, history>>
    BY <2>1, <2>2, <2>3, <2>4, <2>6, Zenon
  <2>7. CASE Offset(h) # 0 /\ CollectDefer(h, f) /\ UNCHANGED <<map, toPeer, history>>
    <3>1. \A g \in Blocks :
             /\ Len(queue'[g]) = Len(queue[g])
             /\ \A k \in 1 .. Len(queue[g]) :
                  /\ queue'[g][k].src = queue[g][k].src /\ queue'[g][k].inc = queue[g][k].inc
      BY <2>7, Refused, Zenon
    <3>2. QueuesFresh(queue')
      <4> SUFFICES ASSUME NEW g \in Blocks, NEW k \in 1 .. Len(queue'[g]), queue'[g][k].src # Local
                   PROVE  queue'[g][k].inc = 0
        BY Zenon DEF QueuesFresh
      <4>1. k \in 1 .. Len(queue[g])
        BY <3>1, Zenon
      <4>2. queue'[g][k].src = queue[g][k].src /\ queue'[g][k].inc = queue[g][k].inc
        BY <3>1, <4>1, Zenon
      <4>3. queue[g][k].src # Local => queue[g][k].inc = 0
        BY <2>2, <4>1, Zenon DEF QueuesFresh
      <4> QED
        BY <4>2, <4>3, Zenon
    <3> QED
      BY <2>1, <2>2, <2>3, <2>7, <3>2, Zenon
  <2>8. CASE /\ Offset(h) # 0 /\ f.src # Local /\ rx_remove_at(h)
             /\ Reply(f.src, "ack", f) /\ Stamp(f)
             /\ \/ taken' = Append(taken, Msg(f)) /\ shed' = shed
                \/ taken' = taken /\ shed' = shed \cup {Msg(f)}
    <3>1. /\ f.src \in Srcs /\ f.inc \in 0 .. MaxRestart /\ f.seq \in 0 .. MaxSeq
          /\ Msg(f) \in Wire
      BY <2>8, AnsweredIs, Zenon
    <3>2. f.inc = 0
      <4>1. Offset(h) \in 1 .. Len(queue[h])
        BY <2>8, Removed, Zenon
      <4> QED
        BY <2>2, <2>8, <4>1, Zenon DEF QueuesFresh
    <3> HIDE DEF f
    <3>3. Confirmed \subseteq Confirmed' /\ Msg(f) \in Confirmed'
      BY <2>8, <3>1, <1>ConfirmedMore, Zenon
    <3>4. Msg(f).src = f.src /\ Msg(f).inc = f.inc /\ Msg(f).seq = f.seq
      BY DEF Msg
    <3>5. Backs(Confirmed', f.src, f.seq)
      BY <3>2, <3>3, <3>4, Zenon DEF Backs
    <3>6. MapBacked(map, Confirmed') /\ AcksBacked(toPeer, Confirmed')
      BY <2>2, <3>3, <1>BackedMore, Zenon
    <3>7. MapBacked(map', Confirmed')
      <4>1. \/ map' = map
            \/ /\ Len(map') = Len(map)
               /\ map'[ByIp(map, f.src)].last = f.seq /\ map'[ByIp(map, f.src)].src = f.src
               /\ \A j \in 1 .. Len(map) : j # ByIp(map, f.src) => map'[j] = map[j]
        BY <2>8, Stamped, Zenon
      <4> QED
        BY <3>5, <3>6, <4>1, Zenon DEF MapBacked
    <3>8. AcksBacked(toPeer', Confirmed')
      <4>1. "ack" \in Kinds
        BY DEF Kinds
      <4> QED
        BY <2>8, <3>1, <3>2, <3>5, <3>6, <4>1, <1>RepliedBacked, Zenon
    <3> QED
      BY <2>1, <2>2, <2>4, <2>8, <3>7, <3>8, Zenon
  <2> QED
    BY <2>1, <2>5, <2>6, <2>7, <2>8, Zenon
\* A step of the host or of time that touches neither history nor network.
<1>AckQuiet.
    ASSUME Inv, AckInv, UNCHANGED <<netVars, history>>,
           Unrestarted(peer) /\ QueuesFresh(queue) => QueuesFresh(queue'),
           MapBacked(map, Confirmed) => MapBacked(map', Confirmed)
    PROVE  AckInv'
  <2> USE <1>AckQuiet
  <2>1. UNCHANGED <<peer, toEngine, toPeer>> /\ Confirmed' = Confirmed
    BY Zenon DEF netVars, history, Confirmed
  <2> QED
    BY <2>1, Zenon DEF AckInv
\* A block reopened or closed loses its frames (aun_rx_open, aun_rx_close).
<1>AckWipe.
    ASSUME Inv, NEW h \in Blocks, NEW f, Wipe(h, f), QueuesFresh(queue)
    PROVE  QueuesFresh(queue')
  <2> USE <1>AckWipe
  <2>1. queue = [g \in Blocks |-> queue[g]]
    BY BlockFacts, Zenon
  <2>2. queue'[h] = << >> /\ \A g \in Blocks : g # h => queue'[g] = queue[g]
    BY <2>1, Zenon DEF Wipe
  <2>3. \A k \in 1 .. Len(<< >>) : FALSE
    OBVIOUS
  <2> SUFFICES ASSUME NEW g \in Blocks, NEW k \in 1 .. Len(queue'[g]), queue'[g][k].src # Local
               PROVE  queue'[g][k].inc = 0
    BY Zenon DEF QueuesFresh
  <2>4. g # h
    BY <2>2, <2>3, Zenon
  <2>5. queue'[g] = queue[g]
    BY <2>2, <2>4, Zenon
  <2> QED
    BY <2>5, Zenon DEF QueuesFresh
\* The host's commands keep AckInv.
<1>AckHost.
    ASSUME Inv, AckInv, Host
    PROVE  AckInv'
  <2> USE <1>AckHost
  <2>1. ASSUME NEW h \in Blocks, NEW accept \in BOOLEAN, aun_rx_collect(h, accept) PROVE AckInv'
    BY <2>1, <1>AckCollect, Zenon
  <2>2. ASSUME NEW h \in Blocks, aun_rx_poll(h) \/ aun_rx_ready(h) PROVE AckInv'
    <3>1. UNCHANGED <<netVars, history, queue, map>>
      BY <2>2, Zenon DEF aun_rx_poll, aun_rx_ready
    <3> QED
      BY <3>1, <1>AckQuiet, Zenon
  <2>3. ASSUME NEW h \in Blocks, aun_rx_close(h) PROVE AckInv'
    <3>1. UNCHANGED <<netVars, history, map>> /\ Wipe(h, Closed)
      BY <2>3, Zenon DEF aun_rx_close, Admin
    <3> QED
      BY <3>1, <1>AckWipe, <1>AckQuiet, Zenon
  <2>4. ASSUME NEW h \in Blocks, NEW f \in Filters, aun_rx_open(h, f) PROVE AckInv'
    <3>1. UNCHANGED <<netVars, history, map>> /\ Wipe(h, f)
      BY <2>4, Zenon DEF aun_rx_open, Admin
    <3> QED
      BY <3>1, <1>AckWipe, <1>AckQuiet, Zenon
  <2>5. ASSUME NEW s \in Srcs, NEW stn \in Stns, aun_map_add(stn, s) PROVE AckInv'
    <3>1. UNCHANGED <<netVars, history, queue>> /\ map' = MapAdd(map, stn, s)
      BY <2>5, Zenon DEF aun_map_add, Admin
    <3>2. MapBacked(map, Confirmed) => MapBacked(map', Confirmed)
      BY <3>1, <1>MapAddBacked, Zenon DEF Inv
    <3> QED
      BY <3>1, <3>2, <1>AckQuiet, Zenon
  <2>6. ASSUME aun_init PROVE AckInv'
    <3>1. UNCHANGED <<netVars, history>> /\ queue' = [h \in Blocks |-> << >>]
      BY <2>6, Zenon DEF aun_init, Admin
    <3>2. QueuesFresh(queue')
      BY <3>1 DEF QueuesFresh
    <3>3. MapBacked(map', Confirmed)
      <4>1. map' = [i \in 1 .. Len(StaticMap) |->
                 [stn |-> StaticMap[i][1], src |-> StaticMap[i][2], last |-> 0]]
        BY <2>6, Zenon DEF aun_init
      <4>2. Len(StaticMap) \in Nat
        BY AunRxAssumption DEF AunRxAssumption
      <4>3. \A i \in 1 .. Len(map') : map'[i].last = 0
        BY <4>1, <4>2
      <4> QED
        BY <4>3, Zenon DEF MapBacked
    <3> QED
      BY <3>1, <3>2, <3>3, <1>AckQuiet, Zenon
  <2> QED
    BY <2>1, <2>2, <2>3, <2>4, <2>5, <2>6, Zenon DEF Host
\* A step of a peer or of the network.
<1>AckNet.
    ASSUME Inv, AckInv, UNCHANGED <<map, queue, history>>, Unrestarted(peer') => Unrestarted(peer),
           Unrestarted(peer) /\ InFresh(toEngine) => InFresh(toEngine'),
           AcksBacked(toPeer, Confirmed) => AcksBacked(toPeer', Confirmed)
    PROVE  AckInv'
  <2> USE <1>AckNet
  <2>1. Confirmed' = Confirmed
    BY Zenon DEF history, Confirmed
  <2> QED
    BY <2>1, Zenon DEF AckInv
\* A peer's next transaction is of the same incarnation.
<1>NextTransactionInc.
    ASSUME Inv, NEW s \in Srcs, NextTransaction(s)
    PROVE  \A x \in Srcs : peer'[x].inc = peer[x].inc
  <2> USE <1>NextTransactionInc
  <2>1. PICK p \in Ports : peer' = [peer EXCEPT ![s] = [inc |-> @.inc, seq |-> @.seq + 1, port |-> p]]
    BY Zenon DEF NextTransaction
  <2>2. peer \in [Srcs -> Sending]
    BY Zenon DEF Inv
  <2> QED
    BY <2>1, <2>2
\* What a loss or a delivery leaves in flight.
<1>TailFresh.
    ASSUME Inv, NEW s \in Srcs, toEngine[s] # << >>, toEngine' = [toEngine EXCEPT ![s] = Tail(@)],
           InFresh(toEngine)
    PROVE  InFresh(toEngine')
  <2> USE <1>TailFresh
  <2>1. toEngine \in [Srcs -> Seq(Wire)]
    BY Zenon DEF Inv, InOK
  <2>2. /\ \A k \in 1 .. Len(toEngine'[s]) :
             k + 1 \in 1 .. Len(toEngine[s]) /\ toEngine'[s][k] = toEngine[s][k + 1]
        /\ \A x \in Srcs : x # s => toEngine'[x] = toEngine[x]
    BY <2>1, TailIs
  <2> SUFFICES ASSUME NEW x \in Srcs, NEW k \in 1 .. Len(toEngine'[x]) PROVE toEngine'[x][k].inc = 0
    BY Zenon DEF InFresh
  <2>3. \A y \in Srcs : \A n \in 1 .. Len(toEngine[y]) : toEngine[y][n].inc = 0
    BY Zenon DEF InFresh
  <2>4. CASE x = s
    <3>1. k + 1 \in 1 .. Len(toEngine[s]) /\ toEngine'[s][k] = toEngine[s][k + 1]
      BY <2>2, <2>4, Zenon
    <3> QED
      BY <2>3, <2>4, <3>1, Zenon
  <2>5. CASE x # s
    <3>1. toEngine'[x] = toEngine[x]
      BY <2>2, <2>5, Zenon
    <3> QED
      BY <2>3, <3>1, Zenon
  <2> QED
    BY <2>4, <2>5, Zenon
\* An answer leaves the wire.
<1>TailBacked.
    ASSUME Inv, NEW s \in Srcs, toPeer[s] # << >>, toPeer' = [toPeer EXCEPT ![s] = Tail(@)],
           NEW C, AcksBacked(toPeer, C)
    PROVE  AcksBacked(toPeer', C)
  <2> USE <1>TailBacked
  <2>1. toPeer \in [Srcs -> Seq(Answers)]
    BY Zenon DEF Inv, OutOK
  <2>2. /\ \A k \in 1 .. Len(toPeer'[s]) :
             k + 1 \in 1 .. Len(toPeer[s]) /\ toPeer'[s][k] = toPeer[s][k + 1]
        /\ \A x \in Srcs : x # s => toPeer'[x] = toPeer[x]
    BY <2>1, TailIs
  <2> SUFFICES ASSUME NEW x \in Srcs, NEW k \in 1 .. Len(toPeer'[x]), toPeer'[x][k].type = "ack"
               PROVE  toPeer'[x][k].inc = 0 /\ Backs(C, x, toPeer'[x][k].seq)
    BY Zenon DEF AcksBacked
  <2>3. CASE x = s
    <3>1. k + 1 \in 1 .. Len(toPeer[s]) /\ toPeer'[s][k] = toPeer[s][k + 1]
      BY <2>2, <2>3, Zenon
    <3> QED
      BY <2>3, <3>1, Zenon DEF AcksBacked
  <2>4. CASE x # s
    <3>1. toPeer'[x] = toPeer[x]
      BY <2>2, <2>4, Zenon
    <3> QED
      BY <3>1, Zenon DEF AcksBacked
  <2> QED
    BY <2>3, <2>4, Zenon
\* The peers and the network keep AckInv.
<1>AckNetwork.
    ASSUME Inv, AckInv, Network
    PROVE  AckInv'
  <2> USE <1>AckNetwork
  <2>1. ASSUME NEW s \in Srcs, PeerSend(s) PROVE AckInv'
    <3> DEFINE m == [src |-> s, inc |-> peer[s].inc, seq |-> peer[s].seq, port |-> peer[s].port]
    <3>1. /\ toEngine' = [toEngine EXCEPT ![s] = Append(@, m)]
          /\ peer[s].seq + peer[s].inc <= MaxSeq
          /\ UNCHANGED <<map, queue, history, peer, toPeer>>
      BY <2>1, Zenon DEF PeerSend, blockVars
    <3>2. m \in Wire /\ m.inc = peer[s].inc
      <4>1. peer[s] \in Sending
        BY DEF Inv
      <4> QED
        BY <3>1, <4>1, Consts DEF Sending, Wire
    <3> HIDE DEF m
    <3>3. toEngine \in [Srcs -> Seq(Wire)]
      BY Zenon DEF Inv, InOK
    <3>4. /\ Len(toEngine'[s]) = Len(toEngine[s]) + 1 /\ Len(toEngine[s]) \in Nat
          /\ \A k \in 1 .. Len(toEngine[s]) : toEngine'[s][k] = toEngine[s][k]
          /\ toEngine'[s][Len(toEngine'[s])] = m
          /\ \A x \in Srcs : x # s => toEngine'[x] = toEngine[x]
      BY <3>1, <3>2, <3>3, SentIs
    <3>5. \A k \in 1 .. Len(toEngine'[s]) : k \in 1 .. Len(toEngine[s]) \/ k = Len(toEngine'[s])
      BY <3>4
    <3>6. Unrestarted(peer) /\ InFresh(toEngine) => InFresh(toEngine')
      <4> SUFFICES ASSUME Unrestarted(peer), InFresh(toEngine), NEW x \in Srcs,
                          NEW k \in 1 .. Len(toEngine'[x])
                   PROVE  toEngine'[x][k].inc = 0
        BY Zenon DEF InFresh
      <4>1. \A y \in Srcs : \A n \in 1 .. Len(toEngine[y]) : toEngine[y][n].inc = 0
        BY Zenon DEF InFresh
      <4>2. m.inc = 0
        BY <3>2, Zenon DEF Unrestarted
      <4>3. CASE x = s
        <5>1. k \in 1 .. Len(toEngine[s]) \/ k = Len(toEngine'[s])
          BY <3>5, <4>3, Zenon
        <5>2. CASE k \in 1 .. Len(toEngine[s])
          BY <3>4, <4>1, <4>3, <5>2, Zenon
        <5>3. CASE k = Len(toEngine'[s])
          <6>1. toEngine'[x][k] = m
            BY <3>4, <4>3, <5>3, Zenon
          <6> QED
            BY <4>2, <6>1, Zenon
        <5> QED
          BY <5>1, <5>2, <5>3, Zenon
      <4>4. CASE x # s
        BY <3>4, <4>1, <4>4, Zenon
      <4> QED
        BY <4>3, <4>4, Zenon
    <3> QED
      BY <3>1, <3>6, <1>AckNet, Zenon
  <2>2. ASSUME NEW s \in Srcs, PeerRecv(s) PROVE AckInv'
    <3>1. /\ toPeer[s] # << >> /\ toPeer' = [toPeer EXCEPT ![s] = Tail(@)]
          /\ NextTransaction(s) \/ peer' = peer
          /\ UNCHANGED <<map, queue, history, toEngine>>
      BY <2>2, Zenon DEF PeerRecv, blockVars
    <3>2. Unrestarted(peer') => Unrestarted(peer)
      BY <3>1, <1>NextTransactionInc, Zenon DEF Unrestarted
    <3>3. AcksBacked(toPeer, Confirmed) => AcksBacked(toPeer', Confirmed)
      <4> DEFINE C == Confirmed
      <4> HIDE DEF C
      <4>1. toPeer[s] # << >> /\ toPeer' = [toPeer EXCEPT ![s] = Tail(@)]
        BY <3>1, Zenon
      <4>2. ASSUME AcksBacked(toPeer, C) PROVE AcksBacked(toPeer', C)
        BY <4>1, <4>2, <1>TailBacked, Zenon
      <4> QED
        BY <4>2, Zenon DEF C
    <3> QED
      BY <3>1, <3>2, <3>3, <1>AckNet, Zenon
  <2>3. ASSUME NEW s \in Srcs, PeerAbandon(s) PROVE AckInv'
    <3>1. NextTransaction(s) /\ UNCHANGED <<map, queue, history, toEngine, toPeer>>
      BY <2>3, Zenon DEF PeerAbandon, blockVars
    <3>2. Unrestarted(peer') => Unrestarted(peer)
      BY <3>1, <1>NextTransactionInc, Zenon DEF Unrestarted
    <3> QED
      BY <3>1, <3>2, <1>AckNet, Zenon
  <2>4. ASSUME NEW s \in Srcs, PeerRestart(s) PROVE AckInv'
    <3>1. PICK p \in Ports : peer' = [peer EXCEPT ![s] = [inc |-> @.inc + 1, seq |-> 1, port |-> p]]
      BY <2>4, Zenon DEF PeerRestart
    <3>2. peer \in [Srcs -> Sending]
      BY Zenon DEF Inv
    <3>3. peer'[s].inc # 0
      BY <3>1, <3>2, Consts DEF Sending
    <3> QED
      BY <3>3, Zenon DEF AckInv, Unrestarted
  <2>5. ASSUME NEW s \in Srcs, Lose(s) PROVE AckInv'
    <3>1. /\ UNCHANGED <<map, queue, history, peer>>
          /\ toEngine' = toEngine \/ (toEngine[s] # << >> /\ toEngine' = [toEngine EXCEPT ![s] = Tail(@)])
          /\ toPeer' = toPeer \/ (toPeer[s] # << >> /\ toPeer' = [toPeer EXCEPT ![s] = Tail(@)])
      BY <2>5, Zenon DEF Lose, blockVars
    <3>2. InFresh(toEngine) => InFresh(toEngine')
      BY <3>1, <1>TailFresh
    <3>3. AcksBacked(toPeer, Confirmed) => AcksBacked(toPeer', Confirmed)
      <4> DEFINE C == Confirmed
      <4> HIDE DEF C
      <4>1. AcksBacked(toPeer, C) => AcksBacked(toPeer', C)
        BY <3>1, <1>TailBacked
      <4> QED
        BY <4>1, Zenon DEF C
    <3> QED
      BY <3>1, <3>2, <3>3, <1>AckNet, Zenon
  <2>6. ASSUME NEW port \in Ports, NEW stn, RxBroadcast(port, stn) PROVE AckInv'
    <3> DEFINE m == [NoMsg EXCEPT !.port = port]
               h == Min(HasRoom(port, stn))
    <3>1. UNCHANGED <<netVars, history, map>>
      BY <2>6, Zenon DEF RxBroadcast
    <3>2. CASE HasRoom(port, stn) = {}
      BY <2>6, <3>1, <3>2, <1>AckQuiet, Zenon DEF RxBroadcast
    <3>3. CASE HasRoom(port, stn) # {}
      <4>1. Enqueue(h, m) /\ h \in Blocks
        BY <2>6, <3>3, RoomIs, Zenon DEF RxBroadcast
      <4>2. m.src = Local
        BY DEF NoMsg
      <4> HIDE DEF m, h
      <4>3. /\ Len(queue'[h]) = Len(queue[h]) + 1 /\ Len(queue[h]) \in Nat
            /\ \A n \in 1 .. Len(queue[h]) : queue'[h][n] = queue[h][n]
            /\ queue'[h][Len(queue[h]) + 1] =
                  [src |-> m.src, inc |-> m.inc, seq |-> m.seq, port |-> m.port, rejects |-> 0]
            /\ \A x \in Blocks : x # h => queue'[x] = queue[x]
        BY <4>1, Enqueued, Zenon
      <4>4. queue'[h][Len(queue[h]) + 1].src = Local
        BY <4>2, <4>3
      <4>5. \A k \in 1 .. Len(queue'[h]) : k \in 1 .. Len(queue[h]) \/ k = Len(queue[h]) + 1
        BY <4>3
      <4>6. QueuesFresh(queue) => QueuesFresh(queue')
        <5> SUFFICES ASSUME QueuesFresh(queue), NEW g \in Blocks, NEW k \in 1 .. Len(queue'[g]),
                            queue'[g][k].src # Local
                     PROVE  queue'[g][k].inc = 0
          BY Zenon DEF QueuesFresh
        <5>1. \A n \in 1 .. Len(queue[g]) : queue[g][n].src # Local => queue[g][n].inc = 0
          BY Zenon DEF QueuesFresh
        <5>2. CASE g # h
          BY <4>3, <5>1, <5>2, Zenon
        <5>3. CASE g = h
          BY <4>3, <4>4, <4>5, <5>1, <5>3, Zenon
        <5> QED
          BY <5>2, <5>3, Zenon
      <4> QED
        BY <3>1, <4>6, <1>AckQuiet, Zenon
    <3> QED
      BY <3>2, <3>3, Zenon
  <2> QED
    BY <2>1, <2>2, <2>3, <2>4, <2>5, <2>6, Zenon DEF Network
\* Every step keeps AckInv.
<1>AckNextInv. Inv /\ Inv' /\ AckInv /\ [Next]_vars => AckInv'
  <2> SUFFICES ASSUME Inv, Inv', AckInv, [Next]_vars PROVE AckInv'
    OBVIOUS
  <2>1. CASE UNCHANGED vars
    BY <2>1, Zenon DEF AckInv, vars, blockVars, netVars, history, Confirmed
  <2>2. CASE Engine
    BY <2>2, <1>AckRxData, Zenon DEF Engine
  <2>3. CASE Tick
    <3>1. UNCHANGED <<netVars, history, queue, map>>
      BY <2>3, Zenon DEF Tick
    <3> QED
      BY <3>1, <1>AckQuiet, Zenon
  <2> QED
    BY <2>1, <2>2, <2>3, <1>AckHost, <1>AckNetwork, Zenon DEF Next
\* No ACK is out at the start.
<1>AckInit. Init => AckInv
  <2> SUFFICES ASSUME Init PROVE AckInv
    OBVIOUS
  <2>1. /\ map = [i \in 1 .. Len(StaticMap) |->
                    [stn |-> StaticMap[i][1], src |-> StaticMap[i][2], last |-> 0]]
        /\ queue = [h \in Blocks |-> << >>] /\ toEngine = [s \in Srcs |-> << >>]
        /\ toPeer = [s \in Srcs |-> << >>]
    BY Zenon DEF Init
  <2>2. Len(StaticMap) \in Nat
    BY AunRxAssumption DEF AunRxAssumption
  <2>3. \A i \in 1 .. Len(map) : map[i].last = 0
    BY <2>1, <2>2
  <2>4. MapBacked(map, Confirmed)
    BY <2>3, Zenon DEF MapBacked
  <2>5. InFresh(toEngine) /\ QueuesFresh(queue) /\ AcksBacked(toPeer, Confirmed)
    BY <2>1 DEF InFresh, QueuesFresh, AcksBacked
  <2> QED
    BY <2>4, <2>5, Zenon DEF AckInv
\* AckInv says that the ACKs are truthful.
<1>AckSays. Inv /\ AckInv => AckTruthfulUnrestarted
  <2> SUFFICES ASSUME Inv, AckInv, \A s \in Srcs : peer[s].inc = 0,
                      NEW s \in Srcs, NEW i \in DOMAIN toPeer[s], toPeer[s][i].type = "ack"
               PROVE  \E m \in Confirmed : /\ m.src = s /\ m.inc = toPeer[s][i].inc
                                           /\ m.seq = toPeer[s][i].seq
    BY Zenon DEF AckTruthfulUnrestarted, AckTruthful
  <2>1. AcksBacked(toPeer, Confirmed)
    BY Zenon DEF AckInv, Unrestarted
  <2>2. DOMAIN toPeer[s] = 1 .. Len(toPeer[s])
    BY DEF Inv, OutOK
  <2>3. toPeer[s][i].inc = 0 /\ Backs(Confirmed, s, toPeer[s][i].seq)
    BY <2>1, <2>2, Zenon DEF AcksBacked
  <2> QED
    BY <2>3, Zenon DEF Backs
<1> QED
  BY <1>AckInit, <1>AckNextInv, <1>AckSays, Zenon

-----------------------------------------------------------------------------
(* The messages of a stream reach the host in the order they were sent.      *)
(* Those taken, those queued, those in flight and the one a peer is sending  *)
(* are each no older than the ones before.                                   *)

\* m was sent no later than n, by the same peer.
Le(m, n) == m.inc < n.inc \/ (m.inc = n.inc /\ m.seq <= n.seq)

\* What order compares: messages and frames, and what a peer is sending.
Numbered(m) == m.inc \in Nat /\ m.seq \in Nat

\* A peer's datagrams are in order, none newer than what it sends.
NetOrder(t, p) ==
  \A s \in Srcs :
    /\ \A k \in 1 .. Len(t[s]) : Le(t[s][k], p[s])
    /\ \A j, k \in 1 .. Len(t[s]) : j < k => Le(t[s][j], t[s][k])

\* Message m is no newer than what its source has in flight and is sending.
Before(m, t, p) == Le(m, p[m.src]) /\ \A k \in 1 .. Len(t[m.src]) : Le(m, t[m.src][k])

\* A peer's queued frames are in order, none newer than its datagrams.
QueueOrder(q, t, p) ==
  \A h \in Blocks : \A i \in 1 .. Len(q[h]) : q[h][i].src # Local =>
    /\ Before(q[h][i], t, p)
    /\ \A j \in 1 .. Len(q[h]) : i < j /\ q[h][j].src = q[h][i].src => Le(q[h][i], q[h][j])

\* What the host took is no newer than the rest of its stream.
TakenOrder(tk, q, t, p) ==
  \A i \in 1 .. Len(tk) :
    /\ Before(tk[i], t, p)
    /\ \A h \in Blocks : \A j \in 1 .. Len(q[h]) :
         Stream(q[h][j]) = Stream(tk[i]) => Le(tk[i], q[h][j])

\* The inductive invariant behind StreamOrder.
OrderInv ==
  /\ NetOrder(toEngine, peer) /\ QueueOrder(queue, toEngine, peer)
  /\ TakenOrder(taken, queue, toEngine, peer) /\ StreamOrder

\* A step of a peer, of the network or of the engine keeps what was sent before.
KeepsBefore ==
  \A m : Numbered(m) /\ m.src \in Srcs /\ Before(m, toEngine, peer) => Before(m, toEngine', peer')

\* Frames with the same source, number and port.
Like(f, g) == f.src = g.src /\ f.inc = g.inc /\ f.seq = g.seq /\ f.port = g.port

\* The queues q1 hold frames of q, in the order they have there.
Within(q1, q) ==
  \A h \in Blocks : \A i, j \in 1 .. Len(q1[h]) :
    \E a, b \in 1 .. Len(q[h]) : Like(q1[h][i], q[h][a]) /\ Like(q1[h][j], q[h][b]) /\ (i < j => a < b)

\* The queues a step leaves in order.
LEMMA WithinSame ==
  ASSUME NEW q
  PROVE  Within(q, q)
<1>1. \A f : Like(f, f)
  BY Zenon DEF Like
<1> QED
  BY <1>1, Zenon DEF Within

\* Removing a frame leaves frames of the queue, in order (rx_remove_at).
LEMMA WithinRemoved ==
  ASSUME WellOrdered, Inv, NEW h \in Blocks, Offset(h) # 0, rx_remove_at(h)
  PROVE  Within(queue', queue)
<1>1. \A x \in Blocks : \A z \in 1 .. Len(queue'[x]) :
        /\ Was(h, x, z) \in 1 .. Len(queue[x]) /\ queue'[x][z] = queue[x][Was(h, x, z)]
        /\ x = h => Was(h, x, z) # Offset(h)
  BY RemovedFrom, Zenon
<1> SUFFICES ASSUME NEW g \in Blocks, NEW i \in 1 .. Len(queue'[g]), NEW j \in 1 .. Len(queue'[g])
             PROVE  \E a, b \in 1 .. Len(queue[g]) : /\ Like(queue'[g][i], queue[g][a])
                                                     /\ Like(queue'[g][j], queue[g][b])
                                                     /\ i < j => a < b
  BY Zenon DEF Within
<1> DEFINE a == Was(h, g, i)
           b == Was(h, g, j)
<1>2. /\ a \in 1 .. Len(queue[g]) /\ queue'[g][i] = queue[g][a]
      /\ b \in 1 .. Len(queue[g]) /\ queue'[g][j] = queue[g][b]
  BY <1>1, Zenon
<1>3. Offset(h) \in 1 .. Len(queue[h])
  BY Removed, Zenon
<1>4. i < j => a < b
  BY <1>3 DEF Was
<1> HIDE DEF a, b
<1>5. Like(queue'[g][i], queue[g][a]) /\ Like(queue'[g][j], queue[g][b])
  BY <1>2, Zenon DEF Like
<1> QED
  BY <1>2, <1>4, <1>5, Zenon

\* So does refusing one (aun_rx_collect).
LEMMA WithinRefused ==
  ASSUME WellOrdered, Inv, NEW h \in Blocks, Offset(h) # 0, CollectDefer(h, queue[h][Offset(h)])
  PROVE  Within(queue', queue)
<1>1. \A g \in Blocks : /\ Len(queue'[g]) = Len(queue[g])
                        /\ \A k \in 1 .. Len(queue[g]) : Like(queue'[g][k], queue[g][k])
  BY Refused, Zenon DEF Like
<1> QED
  BY <1>1, Zenon DEF Within

\* With one receive block, OrderInv is inductive given Inv.
LEMMA OrderInductive ==
  WellOrdered =>
    /\ Init => OrderInv
    /\ (\A g, h \in Blocks : g = h) /\ Inv /\ OrderInv /\ [Next]_vars => OrderInv'
<1> SUFFICES ASSUME WellOrdered
             PROVE  /\ Init => OrderInv
                    /\ (\A g, h \in Blocks : g = h) /\ Inv /\ OrderInv /\ [Next]_vars => OrderInv'
  BY Zenon
\* The order of a peer's messages is transitive.
<1>LeTrans.
    ASSUME NEW a, NEW b, NEW c, Numbered(a), Numbered(b), Numbered(c), Le(a, b), Le(b, c)
    PROVE  Le(a, c)
    BY <1>LeTrans DEF Le, Numbered
\* Everything compared is numbered.
<1>NumberedIs.
    ASSUME Inv
    PROVE  /\ \A s \in Srcs : Numbered(peer[s]) /\ peer[s].inc \in 0 .. MaxRestart
           /\ \A s \in Srcs : \A k \in 1 .. Len(toEngine[s]) : Numbered(toEngine[s][k]) /\ toEngine[s][k].src = s
           /\ \A h \in Blocks : \A k \in 1 .. Len(queue[h]) :
                Numbered(queue[h][k]) /\ (queue[h][k].src # Local => queue[h][k].src \in Srcs)
           /\ \A k \in 1 .. Len(taken) : Numbered(taken[k]) /\ taken[k].src \in Srcs
  <2> USE <1>NumberedIs
  <2>1. /\ peer \in [Srcs -> Sending] /\ InOK(toEngine)
        /\ toEngine \in [Srcs -> Seq(Wire)] /\ queue \in [Blocks -> Seq(QFrames)] /\ taken \in Seq(Wire)
    BY Zenon DEF Inv, InOK, BlocksOK, HistoryOK
  <2>2. \A m \in Wire : Numbered(m) /\ m.src \in Srcs
    BY Consts DEF Wire, Numbered
  <2>3. \A f \in QFrames : Numbered(f) /\ (f.src # Local => f.src \in Srcs)
    BY Consts DEF QFrames, Numbered
  <2>4. \A x \in Sending : Numbered(x) /\ x.inc \in 0 .. MaxRestart
    BY Consts DEF Sending, Numbered
  <2>5. \A s \in Srcs : peer[s] \in Sending
    BY <2>1
  <2>6. \A s \in Srcs : \A k \in 1 .. Len(toEngine[s]) : toEngine[s][k] \in Wire
    BY <2>1
  <2>7. \A h \in Blocks : \A k \in 1 .. Len(queue[h]) : queue[h][k] \in QFrames
    BY <2>1
  <2>8. \A k \in 1 .. Len(taken) : taken[k] \in Wire
    BY <2>1
  <2>9. \A s \in Srcs : \A k \in 1 .. Len(toEngine[s]) : toEngine[s][k].src = s
    BY <2>1, Zenon DEF InOK
  <2> QED
    BY <2>2, <2>3, <2>4, <2>5, <2>6, <2>7, <2>8, <2>9, Zenon
\* A step of the network that keeps what is Before keeps the order.
<1>OrderKept.
    ASSUME Inv, OrderInv, KeepsBefore
    PROVE  QueueOrder(queue, toEngine', peer') /\ TakenOrder(taken, queue, toEngine', peer')
  <2> USE <1>OrderKept
  <2>2. QueueOrder(queue, toEngine', peer')
    <3> SUFFICES ASSUME NEW h \in Blocks, NEW i \in 1 .. Len(queue[h]), queue[h][i].src # Local
                 PROVE  /\ Before(queue[h][i], toEngine', peer')
                        /\ \A j \in 1 .. Len(queue[h]) :
                             i < j /\ queue[h][j].src = queue[h][i].src => Le(queue[h][i], queue[h][j])
      BY Zenon DEF QueueOrder
    <3>1. Numbered(queue[h][i]) /\ queue[h][i].src \in Srcs
      BY <1>NumberedIs, Zenon
    <3>2. /\ Before(queue[h][i], toEngine, peer)
          /\ \A j \in 1 .. Len(queue[h]) :
               i < j /\ queue[h][j].src = queue[h][i].src => Le(queue[h][i], queue[h][j])
      BY Zenon DEF OrderInv, QueueOrder
    <3> QED
      BY <3>1, <3>2, Zenon DEF KeepsBefore
  <2>3. TakenOrder(taken, queue, toEngine', peer')
    <3> SUFFICES ASSUME NEW i \in 1 .. Len(taken)
                 PROVE  /\ Before(taken[i], toEngine', peer')
                        /\ \A h \in Blocks : \A j \in 1 .. Len(queue[h]) :
                             Stream(queue[h][j]) = Stream(taken[i]) => Le(taken[i], queue[h][j])
      BY Zenon DEF TakenOrder
    <3>1. Numbered(taken[i]) /\ taken[i].src \in Srcs
      BY <1>NumberedIs, Zenon
    <3>2. /\ Before(taken[i], toEngine, peer)
          /\ \A h \in Blocks : \A j \in 1 .. Len(queue[h]) :
               Stream(queue[h][j]) = Stream(taken[i]) => Le(taken[i], queue[h][j])
      BY Zenon DEF OrderInv, TakenOrder
    <3> QED
      BY <3>1, <3>2, Zenon DEF KeepsBefore
  <2> QED
    BY <2>2, <2>3, Zenon
\* A step that only moves datagrams keeps the order.
<1>OrderNet.
    ASSUME Inv, OrderInv, KeepsBefore, NetOrder(toEngine', peer'), UNCHANGED <<queue, history>>
    PROVE  OrderInv'
  <2> USE <1>OrderNet
  <2>1. taken' = taken /\ queue' = queue
    BY Zenon DEF history
  <2>2. StreamOrder'
    BY <2>1, Zenon DEF OrderInv, StreamOrder
  <2> QED
    BY <2>1, <2>2, <1>OrderKept, Zenon DEF OrderInv
\* What a peer sends is no older than before.
<1>OrderPeer.
    ASSUME Inv, OrderInv, UNCHANGED <<queue, history, toEngine>>,
           \A s \in Srcs : Numbered(peer'[s]) /\ Le(peer[s], peer'[s])
    PROVE  OrderInv'
  <2> USE <1>OrderPeer
  <2>1. \A s \in Srcs : Numbered(peer[s])
    BY <1>NumberedIs, Zenon
  <2>2. \A m : \A s \in Srcs : Numbered(m) /\ Le(m, peer[s]) => Le(m, peer'[s])
    BY <2>1, <1>LeTrans, Zenon
  <2>3. KeepsBefore
    BY <2>2, Zenon DEF KeepsBefore, Before
  <2>4. NetOrder(toEngine, peer')
    <3> SUFFICES ASSUME NEW s \in Srcs
                 PROVE  /\ \A k \in 1 .. Len(toEngine[s]) : Le(toEngine[s][k], peer'[s])
                        /\ \A j, k \in 1 .. Len(toEngine[s]) : j < k => Le(toEngine[s][j], toEngine[s][k])
      BY Zenon DEF NetOrder
    <3>1. /\ \A k \in 1 .. Len(toEngine[s]) : Le(toEngine[s][k], peer[s])
          /\ \A j, k \in 1 .. Len(toEngine[s]) : j < k => Le(toEngine[s][j], toEngine[s][k])
      BY Zenon DEF OrderInv, NetOrder
    <3>2. \A k \in 1 .. Len(toEngine[s]) : Numbered(toEngine[s][k])
      BY <1>NumberedIs, Zenon
    <3> QED
      BY <2>2, <3>1, <3>2, Zenon
  <2> QED
    BY <2>3, <2>4, <1>OrderNet, Zenon
\* A peer's next transaction is newer.
<1>OrderNext.
    ASSUME Inv, NEW s \in Srcs, NextTransaction(s)
    PROVE  \A x \in Srcs : Numbered(peer'[x]) /\ Le(peer[x], peer'[x])
  <2> USE <1>OrderNext
  <2>1. PICK p \in Ports : peer' = [peer EXCEPT ![s] = [inc |-> @.inc, seq |-> @.seq + 1, port |-> p]]
    BY Zenon DEF NextTransaction
  <2>2. peer \in [Srcs -> Sending]
    BY Zenon DEF Inv
  <2>3. \A x \in Srcs : Numbered(peer[x])
    BY <1>NumberedIs, Zenon
  <2>4. peer'[s].inc = peer[s].inc /\ peer'[s].seq = peer[s].seq + 1 /\ \A x \in Srcs : x # s => peer'[x] = peer[x]
    BY <2>1, <2>2
  <2> QED
    BY <2>3, <2>4 DEF Numbered, Le
\* A restarted peer's transactions are newer.
<1>OrderRestart.
    ASSUME Inv, NEW s \in Srcs, PeerRestart(s)
    PROVE  \A x \in Srcs : Numbered(peer'[x]) /\ Le(peer[x], peer'[x])
  <2> USE <1>OrderRestart
  <2>1. PICK p \in Ports : peer' = [peer EXCEPT ![s] = [inc |-> @.inc + 1, seq |-> 1, port |-> p]]
    BY Zenon DEF PeerRestart
  <2>2. peer \in [Srcs -> Sending]
    BY Zenon DEF Inv
  <2>3. \A x \in Srcs : Numbered(peer[x])
    BY <1>NumberedIs, Zenon
  <2>4. peer'[s].inc = peer[s].inc + 1 /\ peer'[s].seq = 1 /\ \A x \in Srcs : x # s => peer'[x] = peer[x]
    BY <2>1, <2>2
  <2> QED
    BY <2>3, <2>4 DEF Numbered, Le
\* A datagram leaves the network: those left keep their order, and are no older.
<1>OrderTail.
    ASSUME Inv, NetOrder(toEngine, peer), NEW s \in Srcs, toEngine[s] # << >>,
           toEngine' = [toEngine EXCEPT ![s] = Tail(@)], peer' = peer
    PROVE  /\ KeepsBefore /\ NetOrder(toEngine', peer')
           /\ Before(Head(toEngine[s]), toEngine', peer')
  <2> USE <1>OrderTail
  <2> DEFINE m == Head(toEngine[s])
             t == toEngine[s]
             u == toEngine'[s]
  <2>1. toEngine \in [Srcs -> Seq(Wire)]
    BY Zenon DEF Inv, InOK
  <2>2. /\ Len(u) = Len(t) - 1 /\ Len(t) \in Nat \ {0}
        /\ \A k \in 1 .. Len(u) : k + 1 \in 1 .. Len(t) /\ u[k] = t[k + 1]
        /\ \A x \in Srcs : x # s => toEngine'[x] = toEngine[x]
        /\ m = t[1] /\ 1 \in 1 .. Len(t)
    BY <2>1, TailIs
  <2> HIDE DEF m
  <2>3. /\ \A k \in 1 .. Len(t) : Le(t[k], peer[s])
        /\ \A j, k \in 1 .. Len(t) : j < k => Le(t[j], t[k])
    BY Zenon DEF NetOrder
  <2>4. m.src = s
    BY <2>2, <1>NumberedIs, Zenon
  <2> HIDE DEF t, u
  <2>5. Before(m, toEngine', peer')
    <3>1. Le(m, peer[s])
      BY <2>2, <2>3, Zenon
    <3>2. ASSUME NEW k \in 1 .. Len(u) PROVE Le(m, u[k])
      <4>1. 1 < k + 1 /\ k + 1 \in 1 .. Len(t) /\ 1 \in 1 .. Len(t)
        BY <2>2
      <4> QED
        BY <2>2, <2>3, <4>1, Zenon
    <3> QED
      BY <2>4, <3>1, <3>2, Zenon DEF Before, u
  <2>6. KeepsBefore
    <3> SUFFICES ASSUME NEW f, f.src \in Srcs, Before(f, toEngine, peer)
                 PROVE  Before(f, toEngine', peer')
      BY Zenon DEF KeepsBefore
    <3>1. Le(f, peer[f.src]) /\ \A k \in 1 .. Len(toEngine[f.src]) : Le(f, toEngine[f.src][k])
      BY Zenon DEF Before
    <3>2. CASE f.src # s
      BY <2>2, <3>1, <3>2, Zenon DEF Before
    <3>3. CASE f.src = s
      <4>1. \A k \in 1 .. Len(t) : Le(f, t[k])
        BY <3>1, <3>3, Zenon DEF t
      <4>2. \A k \in 1 .. Len(u) : Le(f, u[k])
        BY <2>2, <4>1, Zenon
      <4> QED
        BY <3>1, <3>3, <4>2, Zenon DEF Before, u
    <3> QED
      BY <3>2, <3>3, Zenon
  <2>7. NetOrder(toEngine', peer')
    <3> SUFFICES ASSUME NEW x \in Srcs
                 PROVE  /\ \A k \in 1 .. Len(toEngine'[x]) : Le(toEngine'[x][k], peer[x])
                        /\ \A j, k \in 1 .. Len(toEngine'[x]) : j < k => Le(toEngine'[x][j], toEngine'[x][k])
      BY Zenon DEF NetOrder
    <3>1. CASE x # s
      BY <2>2, <3>1, Zenon DEF NetOrder
    <3>2. CASE x = s
      <4>1. \A k \in 1 .. Len(u) : Le(u[k], peer[s])
        BY <2>2, <2>3, Zenon
      <4>2. ASSUME NEW j \in 1 .. Len(u), NEW k \in 1 .. Len(u), j < k PROVE Le(u[j], u[k])
        <5>1. j + 1 < k + 1 /\ j + 1 \in 1 .. Len(t) /\ k + 1 \in 1 .. Len(t)
          BY <2>2, <4>2
        <5> QED
          BY <2>2, <2>3, <5>1, Zenon
      <4> QED
        BY <3>2, <4>1, <4>2, Zenon DEF u
    <3> QED
      BY <3>1, <3>2, Zenon
  <2> QED
    BY <2>5, <2>6, <2>7, Zenon DEF m
\* A peer sends: the newest of its datagrams is the one it is sending.
<1>OrderSend.
    ASSUME Inv, OrderInv, NEW s \in Srcs, PeerSend(s)
    PROVE  OrderInv'
  <2> USE <1>OrderSend
  <2> DEFINE m == [src |-> s, inc |-> peer[s].inc, seq |-> peer[s].seq, port |-> peer[s].port]
             t == toEngine[s]
             u == toEngine'[s]
  <2>1. /\ toEngine' = [toEngine EXCEPT ![s] = Append(@, m)] /\ peer[s].seq + peer[s].inc <= MaxSeq
        /\ UNCHANGED <<queue, history, peer>>
    BY Zenon DEF PeerSend, blockVars
  <2>2. m \in Wire /\ m.inc = peer[s].inc /\ m.seq = peer[s].seq
    <3>1. peer[s] \in Sending
      BY DEF Inv
    <3> QED
      BY <2>1, <3>1, Consts DEF Sending, Wire
  <2> HIDE DEF m
  <2>3. toEngine \in [Srcs -> Seq(Wire)]
    BY Zenon DEF Inv, InOK
  <2>4. /\ Len(u) = Len(t) + 1 /\ Len(t) \in Nat
        /\ \A k \in 1 .. Len(t) : u[k] = t[k]
        /\ u[Len(u)] = m
        /\ \A x \in Srcs : x # s => toEngine'[x] = toEngine[x]
    BY <2>1, <2>2, <2>3, SentIs
  <2> HIDE DEF t, u
  <2>5. \A k \in 1 .. Len(u) : k \in 1 .. Len(t) \/ k = Len(u)
    BY <2>4
  <2>6. Le(m, peer[s]) /\ \A f : Le(f, peer[s]) => Le(f, m)
    <3>1. Numbered(peer[s])
      BY <1>NumberedIs, Zenon
    <3>2. Le(m, peer[s])
      BY <2>2, <3>1 DEF Le, Numbered
    <3> QED
      BY <2>2, <3>2, Zenon DEF Le
  <2>7. KeepsBefore
    <3> SUFFICES ASSUME NEW f, f.src \in Srcs, Before(f, toEngine, peer)
                 PROVE  Before(f, toEngine', peer')
      BY Zenon DEF KeepsBefore
    <3>1. Le(f, peer[f.src]) /\ \A k \in 1 .. Len(toEngine[f.src]) : Le(f, toEngine[f.src][k])
      BY Zenon DEF Before
    <3>2. CASE f.src # s
      BY <2>1, <2>4, <3>1, <3>2, Zenon DEF Before
    <3>3. CASE f.src = s
      <4>1. \A k \in 1 .. Len(t) : Le(f, t[k])
        BY <3>1, <3>3, Zenon DEF t
      <4>2. Le(f, m)
        BY <2>6, <3>1, <3>3, Zenon
      <4>3. \A k \in 1 .. Len(u) : Le(f, u[k])
        BY <2>4, <2>5, <4>1, <4>2, Zenon
      <4> QED
        BY <2>1, <3>1, <3>3, <4>3, Zenon DEF Before, u
    <3> QED
      BY <3>2, <3>3, Zenon
  <2>8. NetOrder(toEngine', peer')
    <3> SUFFICES ASSUME NEW x \in Srcs
                 PROVE  /\ \A k \in 1 .. Len(toEngine'[x]) : Le(toEngine'[x][k], peer[x])
                        /\ \A j, k \in 1 .. Len(toEngine'[x]) : j < k => Le(toEngine'[x][j], toEngine'[x][k])
      BY <2>1, Zenon DEF NetOrder
    <3>1. CASE x # s
      BY <2>4, <3>1, Zenon DEF NetOrder, OrderInv
    <3>2. CASE x = s
      <4>0. /\ \A k \in 1 .. Len(t) : Le(t[k], peer[s])
            /\ \A j, k \in 1 .. Len(t) : j < k => Le(t[j], t[k])
        BY Zenon DEF NetOrder, OrderInv, t
      <4>1. \A k \in 1 .. Len(u) : Le(u[k], peer[s])
        BY <2>4, <2>5, <2>6, <4>0, Zenon
      <4>2. ASSUME NEW j \in 1 .. Len(u), NEW k \in 1 .. Len(u), j < k PROVE Le(u[j], u[k])
        <5>1. j \in 1 .. Len(t)
          BY <2>4, <4>2
        <5>2. CASE k \in 1 .. Len(t)
          BY <2>4, <4>0, <4>2, <5>1, <5>2, Zenon
        <5>3. CASE k = Len(u)
          BY <2>4, <2>6, <4>0, <5>1, <5>3, Zenon
        <5> QED
          BY <2>5, <5>2, <5>3, Zenon
      <4> QED
        BY <3>2, <4>1, <4>2, Zenon DEF u
    <3> QED
      BY <3>1, <3>2, Zenon
  <2> QED
    BY <2>1, <2>7, <2>8, <1>OrderNet, Zenon
\* Nothing is out of order in queues that hold less.
<1>OrderWithin.
    ASSUME NEW q, NEW q1, Within(q1, q), NEW t, NEW p
    PROVE  /\ QueueOrder(q, t, p) => QueueOrder(q1, t, p)
           /\ \A tk : TakenOrder(tk, q, t, p) => TakenOrder(tk, q1, t, p)
  <2> USE <1>OrderWithin
  <2>1. \A f, g, x : Like(f, g) => /\ Le(f, x) <=> Le(g, x)
                                   /\ Le(x, f) <=> Le(x, g)
                                   /\ Before(f, t, p) <=> Before(g, t, p)
                                   /\ Stream(f) = Stream(g)
    <3> SUFFICES ASSUME NEW f, NEW g, Like(f, g), NEW x
                 PROVE  /\ Le(f, x) <=> Le(g, x)
                        /\ Le(x, f) <=> Le(x, g)
                        /\ Before(f, t, p) <=> Before(g, t, p)
                        /\ Stream(f) = Stream(g)
      BY Zenon
    <3>1. f.src = g.src /\ f.inc = g.inc /\ f.seq = g.seq /\ f.port = g.port
      BY Zenon DEF Like
    <3>2. \A y : Le(f, y) <=> Le(g, y)
      BY <3>1, Zenon DEF Le
    <3>3. Le(x, f) <=> Le(x, g)
      BY <3>1, Zenon DEF Le
    <3>4. Stream(f) = Stream(g)
      BY <3>1, Zenon DEF Stream
    <3>5. Before(f, t, p) <=> Before(g, t, p)
      BY <3>1, <3>2, Zenon DEF Before
    <3> QED
      BY <3>2, <3>3, <3>4, <3>5, Zenon
  <2>2. ASSUME QueueOrder(q, t, p), NEW h \in Blocks, NEW i \in 1 .. Len(q1[h]), q1[h][i].src # Local
        PROVE  /\ Before(q1[h][i], t, p)
               /\ \A j \in 1 .. Len(q1[h]) :
                    i < j /\ q1[h][j].src = q1[h][i].src => Le(q1[h][i], q1[h][j])
    <3>1. ASSUME NEW j \in 1 .. Len(q1[h])
          PROVE  /\ Before(q1[h][i], t, p)
                 /\ i < j /\ q1[h][j].src = q1[h][i].src => Le(q1[h][i], q1[h][j])
      <4>1. PICK a \in 1 .. Len(q[h]), b \in 1 .. Len(q[h]) :
              Like(q1[h][i], q[h][a]) /\ Like(q1[h][j], q[h][b]) /\ (i < j => a < b)
        BY Zenon DEF Within
      <4>2. q1[h][i].src = q[h][a].src /\ q1[h][j].src = q[h][b].src
        BY <4>1, Zenon DEF Like
      <4>3. /\ Before(q[h][a], t, p)
            /\ a < b /\ q[h][b].src = q[h][a].src => Le(q[h][a], q[h][b])
        BY <2>2, <4>2, Zenon DEF QueueOrder
      <4>4. Before(q1[h][i], t, p)
        BY <2>1, <4>1, <4>3, Zenon
      <4>5. ASSUME i < j, q1[h][j].src = q1[h][i].src PROVE Le(q1[h][i], q1[h][j])
        <5>1. Le(q[h][a], q[h][b])
          BY <4>1, <4>2, <4>3, <4>5, Zenon
        <5>2. Le(q1[h][i], q[h][b])
          BY <2>1, <4>1, <5>1, Zenon
        <5> QED
          BY <2>1, <4>1, <5>2, Zenon
      <4> QED
        BY <4>4, <4>5, Zenon
    <3> QED
      BY <3>1, Zenon
  <2>3. ASSUME NEW tk, TakenOrder(tk, q, t, p), NEW i \in 1 .. Len(tk)
        PROVE  /\ Before(tk[i], t, p)
               /\ \A h \in Blocks : \A j \in 1 .. Len(q1[h]) :
                    Stream(q1[h][j]) = Stream(tk[i]) => Le(tk[i], q1[h][j])
    <3>1. /\ Before(tk[i], t, p)
          /\ \A h \in Blocks : \A j \in 1 .. Len(q[h]) :
               Stream(q[h][j]) = Stream(tk[i]) => Le(tk[i], q[h][j])
      BY <2>3, Zenon DEF TakenOrder
    <3>2. ASSUME NEW h \in Blocks, NEW j \in 1 .. Len(q1[h]), Stream(q1[h][j]) = Stream(tk[i])
          PROVE  Le(tk[i], q1[h][j])
      <4>1. PICK a \in 1 .. Len(q[h]) : Like(q1[h][j], q[h][a])
        BY Zenon DEF Within
      <4>2. Le(tk[i], q[h][a])
        BY <2>1, <3>1, <3>2, <4>1, Zenon
      <4> QED
        BY <2>1, <4>1, <4>2, Zenon
    <3> QED
      BY <3>1, <3>2, Zenon
  <2> QED
    BY <2>2, <2>3, Zenon DEF QueueOrder, TakenOrder
\* So does emptying a block (aun_rx_open, aun_rx_close).
<1>WithinWiped.
    ASSUME Inv, NEW h \in Blocks, NEW f, Wipe(h, f)
    PROVE  Within(queue', queue)
  <2> USE <1>WithinWiped
  <2>1. queue = [g \in Blocks |-> queue[g]]
    BY BlockFacts, Zenon
  <2>2. queue'[h] = << >> /\ \A g \in Blocks : g # h => queue'[g] = queue[g]
    BY <2>1, Zenon DEF Wipe
  <2>3. \A k \in 1 .. Len(<< >>) : FALSE
    OBVIOUS
  <2>4. \A f1 : Like(f1, f1)
    BY Zenon DEF Like
  <2> QED
    BY <2>2, <2>3, <2>4, Zenon DEF Within
\* A step of the host that takes nothing, or of time.
<1>OrderQuiet.
    ASSUME OrderInv, UNCHANGED <<peer, toEngine, taken>>, Within(queue', queue)
    PROVE  OrderInv'
  <2> USE <1>OrderQuiet
  <2>1. QueueOrder(queue', toEngine, peer) /\ TakenOrder(taken, queue', toEngine, peer)
    BY <1>OrderWithin, Zenon DEF OrderInv
  <2> QED
    BY <2>1, Zenon DEF OrderInv, StreamOrder
\* A frame queued is no older than those queued or taken.
<1>OrderEnqueue.
    ASSUME Inv, NEW t, NEW p, QueueOrder(queue, t, p), TakenOrder(taken, queue, t, p),
           NEW h \in Blocks, NEW m, Enqueue(h, m), m.src # Local => Before(m, t, p),
           \A g \in Blocks : \A i \in 1 .. Len(queue[g]) :
             queue[g][i].src = m.src /\ m.src # Local => Le(queue[g][i], m),
           \A i \in 1 .. Len(taken) : taken[i].src = m.src => Le(taken[i], m)
    PROVE  QueueOrder(queue', t, p) /\ TakenOrder(taken, queue', t, p)
  <2> USE <1>OrderEnqueue
  <2> DEFINE n == Len(queue[h]) + 1
             f == [src |-> m.src, inc |-> m.inc, seq |-> m.seq, port |-> m.port, rejects |-> 0]
  <2>1. /\ Len(queue'[h]) = n /\ Len(queue[h]) \in Nat
        /\ \A k \in 1 .. Len(queue[h]) : queue'[h][k] = queue[h][k]
        /\ queue'[h][n] = f
        /\ \A x \in Blocks : x # h => queue'[x] = queue[x]
    BY Enqueued, Zenon
  <2>2. f.src = m.src /\ f.inc = m.inc /\ f.seq = m.seq /\ f.port = m.port
    OBVIOUS
  <2> HIDE DEF f
  <2>3. /\ \A x : Le(x, m) => Le(x, f)
        /\ Before(m, t, p) => Before(f, t, p)
    BY <2>2, Zenon DEF Le, Before
  <2>4. \A k \in 1 .. Len(queue'[h]) : k \in 1 .. Len(queue[h]) \/ k = n
    BY <2>1, NextIndex, Zenon
  <2>5. \A k, j \in 1 .. Len(queue'[h]) : k < j => k \in 1 .. Len(queue[h])
    BY <2>1, NextIndex, Zenon
  <2> HIDE DEF n
  <2>6. ASSUME NEW i \in 1 .. Len(queue'[h]), queue'[h][i].src # Local
        PROVE  /\ Before(queue'[h][i], t, p)
               /\ \A j \in 1 .. Len(queue'[h]) :
                    i < j /\ queue'[h][j].src = queue'[h][i].src => Le(queue'[h][i], queue'[h][j])
    <3>1. Before(queue'[h][i], t, p)
      <4>1. CASE i \in 1 .. Len(queue[h])
        BY <2>1, <2>6, <4>1, Zenon DEF QueueOrder
      <4>2. CASE i = n
        BY <2>1, <2>2, <2>3, <2>6, <4>2, Zenon
      <4> QED
        BY <2>4, <4>1, <4>2, Zenon
    <3>2. ASSUME NEW j \in 1 .. Len(queue'[h]), i < j, queue'[h][j].src = queue'[h][i].src
          PROVE  Le(queue'[h][i], queue'[h][j])
      <4>1. i \in 1 .. Len(queue[h]) /\ queue'[h][i] = queue[h][i]
        BY <2>1, <2>5, <3>2, Zenon
      <4>2. CASE j \in 1 .. Len(queue[h])
        <5>1. queue'[h][j] = queue[h][j]
          BY <2>1, <4>2, Zenon
        <5> QED
          BY <2>6, <3>2, <4>1, <4>2, <5>1, Zenon DEF QueueOrder
      <4>3. CASE j = n
        <5>1. queue[h][i].src = m.src /\ m.src # Local
          BY <2>1, <2>2, <2>6, <3>2, <4>1, <4>3, Zenon
        <5>2. Le(queue[h][i], m)
          BY <4>1, <5>1, Zenon
        <5> QED
          BY <2>1, <2>3, <4>1, <4>3, <5>2, Zenon
      <4> QED
        BY <2>4, <4>2, <4>3, Zenon
    <3> QED
      BY <3>1, <3>2, Zenon
  <2>7. QueueOrder(queue', t, p)
    <3> SUFFICES ASSUME NEW g \in Blocks, NEW i \in 1 .. Len(queue'[g]), queue'[g][i].src # Local
                 PROVE  /\ Before(queue'[g][i], t, p)
                        /\ \A j \in 1 .. Len(queue'[g]) :
                             i < j /\ queue'[g][j].src = queue'[g][i].src => Le(queue'[g][i], queue'[g][j])
      BY Zenon DEF QueueOrder
    <3>1. CASE g = h
      BY <2>6, <3>1, Zenon
    <3>2. CASE g # h
      <4>1. queue'[g] = queue[g]
        BY <2>1, <3>2, Zenon
      <4> QED
        BY <4>1, Zenon DEF QueueOrder
    <3> QED
      BY <3>1, <3>2, Zenon
  <2>8. TakenOrder(taken, queue', t, p)
    <3> SUFFICES ASSUME NEW i \in 1 .. Len(taken)
                 PROVE  /\ Before(taken[i], t, p)
                        /\ \A g \in Blocks : \A j \in 1 .. Len(queue'[g]) :
                             Stream(queue'[g][j]) = Stream(taken[i]) => Le(taken[i], queue'[g][j])
      BY Zenon DEF TakenOrder
    <3>1. /\ Before(taken[i], t, p)
          /\ \A g \in Blocks : \A j \in 1 .. Len(queue[g]) :
               Stream(queue[g][j]) = Stream(taken[i]) => Le(taken[i], queue[g][j])
      BY Zenon DEF TakenOrder
    <3>2. ASSUME NEW g \in Blocks, NEW j \in 1 .. Len(queue'[g]),
                 Stream(queue'[g][j]) = Stream(taken[i])
          PROVE  Le(taken[i], queue'[g][j])
      <4>1. CASE g # h
        <5>1. queue'[g] = queue[g]
          BY <2>1, <4>1, Zenon
        <5> QED
          BY <3>1, <3>2, <5>1, Zenon
      <4>2. CASE g = h /\ j \in 1 .. Len(queue[h])
        <5>1. queue'[g][j] = queue[g][j]
          BY <2>1, <4>2, Zenon
        <5> QED
          BY <3>1, <3>2, <4>2, <5>1, Zenon
      <4>3. CASE g = h /\ j = n
        <5>1. queue'[g][j] = f
          BY <2>1, <4>3, Zenon
        <5>2. taken[i].src = f.src
          BY <3>2, <5>1 DEF Stream
        <5>3. Le(taken[i], m)
          BY <2>2, <5>2, Zenon
        <5> QED
          BY <2>3, <5>1, <5>3, Zenon
      <4> QED
        BY <2>4, <4>1, <4>2, <4>3, Zenon
    <3> QED
      BY <3>1, <3>2, Zenon
  <2> QED
    BY <2>7, <2>8, Zenon
\* A datagram is taken in (aun_udp_input).
<1>OrderRxData.
    ASSUME Inv, OrderInv, NEW s \in Srcs, RxData(s)
    PROVE  OrderInv'
  <2> USE <1>OrderRxData
  <2> DEFINE m == Head(toEngine[s])
  <2>1. /\ peer' = peer /\ taken' = taken /\ RxVerdict(s, m)
        /\ toEngine[s] # << >> /\ toEngine' = [toEngine EXCEPT ![s] = Tail(@)]
    BY Zenon DEF RxData, history
  <2>2. /\ NetOrder(toEngine, peer) /\ QueueOrder(queue, toEngine, peer)
        /\ TakenOrder(taken, queue, toEngine, peer) /\ StreamOrder
    BY Zenon DEF OrderInv
  <2>3. KeepsBefore /\ NetOrder(toEngine', peer') /\ Before(m, toEngine', peer')
    BY <2>1, <2>2, <1>OrderTail, Zenon
  <2>4. QueueOrder(queue, toEngine', peer') /\ TakenOrder(taken, queue, toEngine', peer')
    BY <2>3, <1>OrderKept, Zenon
  <2>5. m = toEngine[s][1] /\ 1 \in 1 .. Len(toEngine[s]) /\ m.src = s
    <3>1. toEngine \in [Srcs -> Seq(Wire)] /\ InOK(toEngine)
      BY Zenon DEF Inv, InOK
    <3>2. m = toEngine[s][1] /\ 1 \in 1 .. Len(toEngine[s])
      BY <2>1, <3>1, TailIs
    <3> QED
      BY <2>1, <3>1, <3>2, InTail, Zenon
  <2> HIDE DEF m
  <2>6. ASSUME NEW h \in Blocks, Enqueue(h, m)
        PROVE  QueueOrder(queue', toEngine', peer') /\ TakenOrder(taken, queue', toEngine', peer')
    <3>1. \A g \in Blocks : \A i \in 1 .. Len(queue[g]) :
             queue[g][i].src = m.src /\ m.src # Local => Le(queue[g][i], m)
      <4> SUFFICES ASSUME NEW g \in Blocks, NEW i \in 1 .. Len(queue[g]),
                          queue[g][i].src = m.src, m.src # Local
                   PROVE  Le(queue[g][i], m)
        BY Zenon
      <4>1. Before(queue[g][i], toEngine, peer)
        BY <2>2, Zenon DEF QueueOrder
      <4> QED
        BY <2>5, <4>1, Zenon DEF Before
    <3>2. \A i \in 1 .. Len(taken) : taken[i].src = m.src => Le(taken[i], m)
      BY <2>2, <2>5, Zenon DEF TakenOrder, Before
    <3> DEFINE t == toEngine'
               p == peer'
    <3>3. QueueOrder(queue, t, p) /\ TakenOrder(taken, queue, t, p) /\ Before(m, t, p)
      BY <2>3, <2>4, Zenon
    <3> HIDE DEF t, p
    <3>4. QueueOrder(queue', t, p) /\ TakenOrder(taken, queue', t, p)
      BY <2>6, <3>1, <3>2, <3>3, <1>OrderEnqueue, Zenon
    <3> QED
      BY <3>4, Zenon DEF t, p
  <2>7. queue' = queue \/ \E h \in Blocks : Enqueue(h, m)
    BY <2>1, RoomIs, Zenon DEF RxVerdict, RxDeliver
  <2>8. QueueOrder(queue', toEngine', peer') /\ TakenOrder(taken, queue', toEngine', peer')
    BY <2>4, <2>6, <2>7, Zenon
  <2>9. StreamOrder'
    BY <2>1, <2>2, Zenon DEF StreamOrder
  <2> QED
    BY <2>1, <2>3, <2>8, <2>9, Zenon DEF OrderInv
\* With one receive block, a message taken is no newer than those left in the queue.
<1>OrderAccept.
    ASSUME Inv, OrderInv, \A g, h \in Blocks : g = h, NEW h \in Blocks, Offset(h) # 0,
           queue[h][Offset(h)].src # Local, rx_remove_at(h),
           taken' = Append(taken, Msg(queue[h][Offset(h)])), UNCHANGED <<peer, toEngine>>
    PROVE  OrderInv'
  <2> USE <1>OrderAccept
  <2> DEFINE i == Offset(h)
             f == queue[h][i]
             m == Msg(f)
             n == Len(taken) + 1
  <2>1. Chosen(queue[h], LookedUp(h), i) /\ i \in 1 .. Len(queue[h])
    BY OffsetIs, Zenon DEF Chosen
  <2>2. m.src = f.src /\ m.inc = f.inc /\ m.seq = f.seq /\ m.port = f.port
    BY MsgIs, Zenon
  <2>3. m \in Wire
    BY AnsweredIs, Zenon
  <2>4. taken' = Append(taken, m) /\ taken \in Seq(Wire)
    BY Zenon DEF Inv, HistoryOK
  <2>5. /\ FirstOfStream(queue[h], i) /\ f.src # Local
        /\ Before(f, toEngine, peer)
        /\ \A j \in 1 .. Len(queue[h]) : i < j /\ queue[h][j].src = f.src => Le(f, queue[h][j])
    BY <2>1, Zenon DEF Chosen, OrderInv, QueueOrder
  <2>6. \A g \in Blocks : \A k \in 1 .. Len(queue'[g]) :
          \E j \in 1 .. Len(queue[g]) : queue'[g][k] = queue[g][j] /\ (g = h => j # i)
    <3>1. \A x \in Blocks : \A z \in 1 .. Len(queue'[x]) :
            /\ Was(h, x, z) \in 1 .. Len(queue[x]) /\ queue'[x][z] = queue[x][Was(h, x, z)]
            /\ x = h => Was(h, x, z) # Offset(h)
      BY RemovedFrom, Zenon
    <3> TAKE g \in Blocks
    <3> TAKE k \in 1 .. Len(queue'[g])
    <3> /\ Was(h, g, k) \in 1 .. Len(queue[g]) /\ queue'[g][k] = queue[g][Was(h, g, k)]
        /\ g = h => Was(h, g, k) # i
      BY <3>1, Zenon
    <3> WITNESS Was(h, g, k) \in 1 .. Len(queue[g])
    <3> QED
      OBVIOUS
  <2> HIDE DEF m
  <2>7. /\ Len(taken') = n /\ Len(taken) \in Nat /\ \A k \in 1 .. Len(taken) : taken'[k] = taken[k]
        /\ taken'[n] = m
        /\ DOMAIN taken' = 1 .. n /\ DOMAIN taken = 1 .. Len(taken)
    BY <2>3, <2>4
  <2>8. /\ \A k \in 1 .. n : k \in 1 .. Len(taken) \/ k = n
        /\ \A j, k \in 1 .. n : j < k => j \in 1 .. Len(taken)
    BY <2>7
  <2> HIDE DEF n, f, i
  <2>9. /\ \A x : Le(m, x) <=> Le(f, x)
        /\ \A x : Le(x, m) <=> Le(x, f)
        /\ Before(m, toEngine, peer) /\ Stream(m) = Stream(f)
    <3>1. \A x : Le(m, x) <=> Le(f, x)
      BY <2>2, Zenon DEF Le
    <3>2. \A x : Le(x, m) <=> Le(x, f)
      BY <2>2, Zenon DEF Le
    <3>3. Before(m, toEngine, peer)
      BY <2>2, <2>5, <3>1, Zenon DEF Before
    <3>4. Stream(m) = Stream(f)
      BY <2>2, Zenon DEF Stream
    <3> QED
      BY <3>1, <3>2, <3>3, <3>4, Zenon
  <2>10. ASSUME NEW k \in 1 .. Len(queue[h]), k # i, Stream(queue[h][k]) = Stream(f)
         PROVE  Le(f, queue[h][k])
    <3>1. ~(k < i)
      BY <2>5, <2>10, Zenon DEF FirstOfStream, f
    <3>2. i < k
      BY <2>1, <2>10, <3>1
    <3>3. queue[h][k].src = f.src
      BY <2>10 DEF Stream
    <3> QED
      BY <2>5, <3>2, <3>3, Zenon
  <2>11. QueueOrder(queue', toEngine, peer) /\ TakenOrder(taken, queue', toEngine, peer)
    BY WithinRemoved, <1>OrderWithin, Zenon DEF OrderInv
  <2>12. \A g \in Blocks : \A j \in 1 .. Len(queue'[g]) :
           Stream(queue'[g][j]) = Stream(m) => Le(m, queue'[g][j])
    <3> SUFFICES ASSUME NEW g \in Blocks, NEW j \in 1 .. Len(queue'[g]),
                        Stream(queue'[g][j]) = Stream(m)
                 PROVE  Le(m, queue'[g][j])
      BY Zenon
    <3>1. g = h
      BY Zenon
    <3>2. PICK k \in 1 .. Len(queue[h]) : queue'[h][j] = queue[h][k] /\ k # i
      BY <2>6, <3>1, Zenon
    <3> QED
      BY <2>9, <2>10, <3>1, <3>2, Zenon
  <2>13. TakenOrder(taken', queue', toEngine, peer)
    <3> SUFFICES ASSUME NEW k \in 1 .. n
                 PROVE  /\ Before(taken'[k], toEngine, peer)
                        /\ \A g \in Blocks : \A j \in 1 .. Len(queue'[g]) :
                             Stream(queue'[g][j]) = Stream(taken'[k]) => Le(taken'[k], queue'[g][j])
      BY <2>7, Zenon DEF TakenOrder
    <3>1. CASE k \in 1 .. Len(taken)
      <4>1. taken'[k] = taken[k]
        BY <2>7, <3>1, Zenon
      <4> QED
        BY <2>11, <3>1, <4>1, Zenon DEF TakenOrder
    <3>2. CASE k = n
      BY <2>7, <2>9, <2>12, <3>2, Zenon
    <3> QED
      BY <2>8, <3>1, <3>2, Zenon
  <2>14. StreamOrder'
    <3>0. DOMAIN taken' = 1 .. n /\ DOMAIN taken = 1 .. Len(taken)
      BY <2>7, Zenon
    <3> SUFFICES ASSUME NEW j \in 1 .. n, NEW k \in 1 .. n, j < k, Stream(taken'[j]) = Stream(taken'[k])
                 PROVE  Le(taken'[j], taken'[k])
      BY <3>0, Zenon DEF StreamOrder, Le
    <3>1. j \in 1 .. Len(taken) /\ taken'[j] = taken[j]
      BY <2>7, <2>8, Zenon
    <3>2. CASE k \in 1 .. Len(taken)
      <4>1. taken'[k] = taken[k]
        BY <2>7, <3>2, Zenon
      <4>2. StreamOrder
        BY Zenon DEF OrderInv
      <4>3. Stream(taken[j]) = Stream(taken[k])
        BY <3>1, <4>1, Zenon
      <4>4. Le(taken[j], taken[k])
        BY <3>0, <3>1, <3>2, <4>2, <4>3, Zenon DEF StreamOrder, Le
      <4> QED
        BY <3>1, <4>1, <4>4, Zenon
    <3>3. CASE k = n
      <4>1. taken'[k] = m /\ Stream(taken[j]) = Stream(f)
        BY <2>7, <2>9, <3>1, <3>3, Zenon
      <4>2. Le(taken[j], f)
        <5>1. \A x \in 1 .. Len(queue[h]) : Stream(queue[h][x]) = Stream(taken[j]) => Le(taken[j], queue[h][x])
          BY <3>1, Zenon DEF OrderInv, TakenOrder
        <5> QED
          BY <2>1, <4>1, <5>1, Zenon DEF f
      <4> QED
        BY <2>9, <3>1, <4>1, <4>2, Zenon
    <3> QED
      BY <2>8, <3>2, <3>3, Zenon
  <2> QED
    BY <2>11, <2>13, <2>14, Zenon DEF OrderInv
\* The host answers a frame.
<1>OrderCollect.
    ASSUME Inv, OrderInv, \A g, h \in Blocks : g = h,
           NEW h \in Blocks, NEW accept, aun_rx_collect(h, accept)
    PROVE  OrderInv'
  <2> USE <1>OrderCollect
  <2> DEFINE f == queue[h][Offset(h)]
  <2>1. /\ UNCHANGED <<peer, toEngine>>
        /\ \/ UNCHANGED <<queue, taken>>
           \/ Offset(h) # 0 /\ rx_remove_at(h) /\ UNCHANGED taken
           \/ Offset(h) # 0 /\ rx_remove_at(h) /\ f.src # Local /\ taken' = Append(taken, Msg(f))
           \/ Offset(h) # 0 /\ CollectDefer(h, f) /\ UNCHANGED taken
    BY CollectCases, Zenon DEF history
  <2>2. CASE UNCHANGED <<queue, taken>>
    BY <2>1, <2>2, WithinSame, <1>OrderQuiet, Zenon
  <2>3. CASE Offset(h) # 0 /\ rx_remove_at(h) /\ UNCHANGED taken
    BY <2>1, <2>3, WithinRemoved, <1>OrderQuiet, Zenon
  <2>4. CASE Offset(h) # 0 /\ rx_remove_at(h) /\ f.src # Local /\ taken' = Append(taken, Msg(f))
    BY <2>1, <2>4, <1>OrderAccept, Zenon
  <2>5. CASE Offset(h) # 0 /\ CollectDefer(h, f) /\ UNCHANGED taken
    BY <2>1, <2>5, WithinRefused, <1>OrderQuiet, Zenon
  <2> QED
    BY <2>1, <2>2, <2>3, <2>4, <2>5, Zenon
\* The host's commands keep the order.
<1>OrderHost.
    ASSUME Inv, OrderInv, \A g, h \in Blocks : g = h, Host
    PROVE  OrderInv'
  <2> USE <1>OrderHost
  <2>1. ASSUME NEW h \in Blocks, NEW accept \in BOOLEAN, aun_rx_collect(h, accept) PROVE OrderInv'
    BY <2>1, <1>OrderCollect, Zenon
  <2>2. ASSUME NEW h \in Blocks, aun_rx_poll(h) \/ aun_rx_ready(h) PROVE OrderInv'
    <3>1. UNCHANGED <<peer, toEngine, taken, queue>>
      BY <2>2, Zenon DEF aun_rx_poll, aun_rx_ready, netVars, history
    <3> QED
      BY <3>1, WithinSame, <1>OrderQuiet, Zenon
  <2>3. ASSUME NEW h \in Blocks, aun_rx_close(h) PROVE OrderInv'
    <3>1. UNCHANGED <<peer, toEngine, taken>> /\ Wipe(h, Closed)
      BY <2>3, Zenon DEF aun_rx_close, Admin, netVars, history
    <3> QED
      BY <3>1, <1>WithinWiped, <1>OrderQuiet, Zenon
  <2>4. ASSUME NEW h \in Blocks, NEW f \in Filters, aun_rx_open(h, f) PROVE OrderInv'
    <3>1. UNCHANGED <<peer, toEngine, taken>> /\ Wipe(h, f)
      BY <2>4, Zenon DEF aun_rx_open, Admin, netVars, history
    <3> QED
      BY <3>1, <1>WithinWiped, <1>OrderQuiet, Zenon
  <2>5. ASSUME NEW s \in Srcs, NEW stn \in Stns, aun_map_add(stn, s) PROVE OrderInv'
    <3>1. UNCHANGED <<peer, toEngine, taken, queue>>
      BY <2>5, Zenon DEF aun_map_add, Admin, netVars, history
    <3> QED
      BY <3>1, WithinSame, <1>OrderQuiet, Zenon
  <2>6. ASSUME aun_init PROVE OrderInv'
    <3>1. UNCHANGED <<peer, toEngine, taken>> /\ queue' = [h \in Blocks |-> << >>]
      BY <2>6, Zenon DEF aun_init, Admin, netVars, history
    <3>2. \A h \in Blocks : \A i \in 1 .. Len(queue'[h]) : FALSE
      BY <3>1
    <3>3. Within(queue', queue)
      BY <3>2, Zenon DEF Within
    <3> QED
      BY <3>1, <3>3, <1>OrderQuiet, Zenon
  <2> QED
    BY <2>1, <2>2, <2>3, <2>4, <2>5, <2>6, Zenon DEF Host
\* The peers and the network keep the order.
<1>OrderNetwork.
    ASSUME Inv, OrderInv, Network
    PROVE  OrderInv'
  <2> USE <1>OrderNetwork
  <2>1. ASSUME NEW s \in Srcs, PeerSend(s) PROVE OrderInv'
    BY <2>1, <1>OrderSend, Zenon
  <2>2. ASSUME NEW s \in Srcs, PeerRecv(s) PROVE OrderInv'
    <3>1. (NextTransaction(s) \/ peer' = peer) /\ UNCHANGED <<queue, history, toEngine>>
      BY <2>2, Zenon DEF PeerRecv, blockVars
    <3>2. CASE NextTransaction(s)
      BY <3>1, <3>2, <1>OrderNext, <1>OrderPeer, Zenon
    <3>3. CASE peer' = peer
      BY <3>1, <3>3, WithinSame, <1>OrderQuiet, Zenon DEF history
    <3> QED
      BY <3>1, <3>2, <3>3, Zenon
  <2>3. ASSUME NEW s \in Srcs, PeerAbandon(s) PROVE OrderInv'
    <3>1. NextTransaction(s) /\ UNCHANGED <<queue, history, toEngine>>
      BY <2>3, Zenon DEF PeerAbandon, blockVars
    <3> QED
      BY <3>1, <1>OrderNext, <1>OrderPeer, Zenon
  <2>4. ASSUME NEW s \in Srcs, PeerRestart(s) PROVE OrderInv'
    <3>1. UNCHANGED <<queue, history, toEngine>>
      BY <2>4, Zenon DEF PeerRestart, blockVars
    <3> QED
      BY <2>4, <3>1, <1>OrderRestart, <1>OrderPeer, Zenon
  <2>5. ASSUME NEW s \in Srcs, Lose(s) PROVE OrderInv'
    <3>1. /\ UNCHANGED <<queue, history, peer>>
          /\ toEngine' = toEngine \/ (toEngine[s] # << >> /\ toEngine' = [toEngine EXCEPT ![s] = Tail(@)])
      BY <2>5, Zenon DEF Lose, blockVars
    <3>2. CASE toEngine' = toEngine
      BY <3>1, <3>2, WithinSame, <1>OrderQuiet, Zenon DEF history
    <3>3. CASE toEngine[s] # << >> /\ toEngine' = [toEngine EXCEPT ![s] = Tail(@)]
      <4>1. KeepsBefore /\ NetOrder(toEngine', peer')
        BY <3>1, <3>3, <1>OrderTail, Zenon DEF OrderInv
      <4> QED
        BY <3>1, <4>1, <1>OrderNet, Zenon
    <3> QED
      BY <3>1, <3>2, <3>3, Zenon
  <2>6. ASSUME NEW port \in Ports, NEW stn, RxBroadcast(port, stn) PROVE OrderInv'
    <3> DEFINE m == [NoMsg EXCEPT !.port = port]
               h == Min(HasRoom(port, stn))
    <3>1. UNCHANGED <<peer, toEngine, taken>>
      BY <2>6, Zenon DEF RxBroadcast, netVars, history
    <3>2. CASE HasRoom(port, stn) = {}
      <4>1. queue' = queue
        BY <2>6, <3>2, Zenon DEF RxBroadcast
      <4> QED
        BY <3>1, <4>1, WithinSame, <1>OrderQuiet, Zenon
    <3>3. CASE HasRoom(port, stn) # {}
      <4>1. Enqueue(h, m) /\ h \in Blocks
        BY <2>6, <3>3, RoomIs, Zenon DEF RxBroadcast
      <4>2. m.src = Local
        BY DEF NoMsg
      <4> HIDE DEF m, h
      <4>3. \A i \in 1 .. Len(taken) : taken[i].src # m.src
        <5>1. \A i \in 1 .. Len(taken) : taken[i].src \in Srcs
          BY <1>NumberedIs, Zenon
        <5>2. Local \notin Srcs
          BY AunRxAssumption, Zenon DEF AunRxAssumption
        <5> QED
          BY <4>2, <5>1, <5>2, Zenon
      <4>4. QueueOrder(queue, toEngine, peer) /\ TakenOrder(taken, queue, toEngine, peer)
        BY Zenon DEF OrderInv
      <4>5. QueueOrder(queue', toEngine, peer) /\ TakenOrder(taken, queue', toEngine, peer)
        <5> DEFINE t == toEngine
                   p == peer
        <5>1. QueueOrder(queue, t, p) /\ TakenOrder(taken, queue, t, p)
          BY <4>4, Zenon
        <5> HIDE DEF t, p
        <5>2. QueueOrder(queue', t, p) /\ TakenOrder(taken, queue', t, p)
          BY <4>1, <4>2, <4>3, <5>1, <1>OrderEnqueue, Zenon
        <5> QED
          BY <5>2, Zenon DEF t, p
      <4> QED
        BY <3>1, <4>5, Zenon DEF OrderInv, StreamOrder
    <3> QED
      BY <3>2, <3>3, Zenon
  <2> QED
    BY <2>1, <2>2, <2>3, <2>4, <2>5, <2>6, Zenon DEF Network
\* Every step keeps the order, with one receive block.
<1>OrderNextInv. (\A g, h \in Blocks : g = h) /\ Inv /\ OrderInv /\ [Next]_vars => OrderInv'
  <2> SUFFICES ASSUME \A g, h \in Blocks : g = h, Inv, OrderInv, [Next]_vars PROVE OrderInv'
    OBVIOUS
  <2>1. CASE UNCHANGED vars
    <3>1. UNCHANGED <<peer, toEngine, taken, queue>>
      BY <2>1, Zenon DEF vars, blockVars, netVars, history
    <3> QED
      BY <3>1, WithinSame, <1>OrderQuiet, Zenon
  <2>2. CASE Engine
    BY <2>2, <1>OrderRxData, Zenon DEF Engine
  <2>3. CASE Tick
    <3>1. UNCHANGED <<peer, toEngine, taken, queue>>
      BY <2>3, Zenon DEF Tick, netVars, history
    <3> QED
      BY <3>1, WithinSame, <1>OrderQuiet, Zenon
  <2> QED
    BY <2>1, <2>2, <2>3, <1>OrderHost, <1>OrderNetwork, Zenon DEF Next
\* Nothing is queued, in flight or taken at the start.
<1>OrderInit. Init => OrderInv
  <2> SUFFICES ASSUME Init PROVE OrderInv
    OBVIOUS
  <2>1. /\ queue = [h \in Blocks |-> << >>] /\ toEngine = [s \in Srcs |-> << >>] /\ taken = << >>
    BY Zenon DEF Init
  <2> QED
    BY <2>1 DEF OrderInv, NetOrder, QueueOrder, TakenOrder, StreamOrder
<1> QED
  BY <1>OrderInit, <1>OrderNextInv, Zenon

-----------------------------------------------------------------------------
(* A message reaches the host once.                                          *)

\* last_rx_seq of a source, 0 for none.
Last(m, s) == IF ByIp(m, s) = 0 THEN 0 ELSE m[ByIp(m, s)].last

\* The stations learned for a source are of no other source.
Keyed(m) == \A i \in 1 .. Len(m) : \A s \in Srcs : m[i].stn = Learn[s] => m[i].src = s

\* With message n the last confirmed, peer s is sending it or the next one, and
\* so are its datagrams, in order.
OnceNet(t, p, s, n) ==
  /\ p[s].inc = 0 /\ p[s].seq \in {n, n + 1}
  /\ \A k \in 1 .. Len(t[s]) :
       /\ t[s][k].inc = 0 /\ t[s][k].seq \in {n, n + 1} /\ t[s][k].seq <= p[s].seq
       /\ \A j \in 1 .. Len(t[s]) : k < j => t[s][k].seq <= t[s][j].seq

\* Peer s has only message n + 1 under way.
Ahead(t, p, s, n) == p[s].seq = n + 1 /\ \A k \in 1 .. Len(t[s]) : t[s][k].seq = n + 1

\* Message m of s follows message n, all s has under way is it, and s has an entry.
Following(m, s, n, mp, t, p) ==
  m.src = s /\ m.inc = 0 /\ m.seq = n + 1 /\ ByIp(mp, s) # 0 /\ Ahead(t, p, s, n)

\* A frame of s in a queue is message n + 1, and s has an entry.
OnceQueued(q, m, t, p, s, n) ==
  \A h \in Blocks : \A i \in 1 .. Len(q[h]) : q[h][i].src = s =>
    ByIp(m, s) # 0 /\ q[h][i].inc = 0 /\ q[h][i].seq = n + 1 /\ Ahead(t, p, s, n)

\* Two frames of one peer are the same frame.
Alone(q, g, i, h, j) ==
  q[g][i].src \in Srcs /\ q[g][i].src = q[h][j].src => g = h /\ i = j

\* A peer has one frame in all the queues.
OnceAlone(q) ==
  \A g, h \in Blocks : \A i \in 1 .. Len(q[g]) : \A j \in 1 .. Len(q[h]) : Alone(q, g, i, h, j)

\* No later message of s than n is acknowledged ...
OnceAcked(a, s, n) == \A k \in 1 .. Len(a[s]) : a[s][k].type = "ack" => a[s][k].seq <= n

\* ... nor taken or shed.
OnceTaken(tk, sh, s, n) ==
  /\ \A i \in 1 .. Len(tk) : tk[i].src = s => tk[i].inc = 0 /\ tk[i].seq <= n
  /\ \A m \in sh : m.src = s => m.seq <= n

\* Where source s stands when message n is the last confirmed.
OnceOf(s, n) ==
  /\ OnceNet(toEngine, peer, s, n) /\ OnceQueued(queue, map, toEngine, peer, s, n)
  /\ OnceAcked(toPeer, s, n) /\ OnceTaken(taken, shed, s, n)

\* The inductive invariant behind DeliveredOnce and NotShedAndTaken, and behind
\* StreamOrder with any number of blocks.
OnceInv ==
  /\ budget.admin = 0 /\ Keyed(map) /\ OnceAlone(queue)
  /\ DeliveredOnce /\ NotShedAndTaken /\ StreamOrder
  /\ \A s \in Srcs : OnceOf(s, Last(map, s))

\* The map of the peers' stations: no two learned alike, none configured for another.
Apart ==
  /\ \A s, x \in Srcs : Learn[s] = Learn[x] /\ Learn[s] # None => s = x
  /\ \A i \in 1 .. Len(StaticMap) : \A s \in Srcs : StaticMap[i][1] = Learn[s] => StaticMap[i][2] = s

\* u is t without the first datagram of source s.
Shorter(t, u, s) ==
  /\ \A k \in 1 .. Len(u[s]) : k + 1 \in 1 .. Len(t[s]) /\ u[s][k] = t[s][k + 1]
  /\ \A y \in Srcs : y # s => u[y] = t[y]
  /\ Len(u[s]) \in Nat

\* The answers on their way to s are those there were and one with number q.
RepliedWith(s, q) ==
  /\ \A j \in 1 .. Len(toPeer'[s]) :
       \/ j \in 1 .. Len(toPeer[s]) /\ toPeer'[s][j] = toPeer[s][j]
       \/ toPeer'[s][j].seq = q
  /\ \A y \in Srcs : y # s => toPeer'[y] = toPeer[y]

\* OnceInv is inductive given Inv.
LEMMA OnceInductive ==
  WellOrdered =>
    /\ MaxAdmin = 0 /\ Apart /\ Inv /\ Init => OnceInv
    /\ ~MayAbandon /\ Apart /\ Inv /\ Inv' /\ OnceInv /\ [Next]_vars => OnceInv'
<1> SUFFICES ASSUME WellOrdered
             PROVE  /\ MaxAdmin = 0 /\ Apart /\ Inv /\ Init => OnceInv
                    /\ ~MayAbandon /\ Apart /\ Inv /\ Inv' /\ OnceInv /\ [Next]_vars => OnceInv'
  BY Zenon
\* last_rx_seq is a sequence number.
<1>LastIs.
    ASSUME NEW m, MapOK(m), NEW s
    PROVE  Last(m, s) \in 0 .. MaxSeq /\ Last(m, s) \in Nat
  <2> USE <1>LastIs
  <2>1. m \in Seq(MapEntries)
    BY Zenon DEF MapOK
  <2>2. ByIp(m, s) = 0 \/ ByIp(m, s) \in 1 .. Len(m)
    BY <2>1, ByIpIs, Zenon
  <2>3. \A i \in 1 .. Len(m) : m[i].last \in 0 .. MaxSeq
    <3> SUFFICES ASSUME NEW i \in 1 .. Len(m) PROVE m[i].last \in 0 .. MaxSeq
      BY Zenon
    <3>1. m[i] \in MapEntries
      BY <2>1
    <3> QED
      BY <3>1 DEF MapEntries
  <2>4. Last(m, s) \in 0 .. MaxSeq
    BY <2>2, <2>3, Consts DEF Last
  <2> QED
    BY <2>4, Consts
\* Maps with the same sources have the same first entries.
<1>SameFirst.
    ASSUME NEW m \in Seq(MapEntries), NEW m1 \in Seq(MapEntries), Len(m1) = Len(m),
           \A i \in 1 .. Len(m) : m1[i].src = m[i].src, NEW s
    PROVE  ByIp(m1, s) = ByIp(m, s)
  <2> USE <1>SameFirst
  <2>1. DOMAIN m = 1 .. Len(m) /\ DOMAIN m1 = DOMAIN m
    OBVIOUS
  <2>2. {i \in DOMAIN m1 : m1[i].src = s} = {i \in DOMAIN m : m[i].src = s}
    BY <2>1, Zenon
  <2> QED
    BY <2>2, Zenon DEF ByIp
\* An acknowledgement stamps the entry of its source, and no other.
<1>LastStamped.
    ASSUME Inv, NEW f, f.seq \in 0 .. MaxSeq, Stamp(f), ByIp(map, f.src) # 0, Keyed(map), MapOK(map')
    PROVE  /\ Last(map', f.src) = f.seq /\ Keyed(map')
           /\ \A x : ByIp(map', x) = ByIp(map, x)
           /\ \A x : x # f.src => Last(map', x) = Last(map, x)
  <2> USE <1>LastStamped
  <2> DEFINE i == ByIp(map, f.src)
  <2>1. /\ i \in 1 .. Len(map) /\ Len(map') = Len(map)
        /\ map'[i].last = f.seq /\ map'[i].src = f.src /\ map'[i].stn = map[i].stn
        /\ \A j \in 1 .. Len(map) : j # i => map'[j] = map[j]
    BY Stamped, Zenon
  <2>2. map \in Seq(MapEntries) /\ map' \in Seq(MapEntries)
    BY Zenon DEF Inv, MapOK
  <2>3. map[i].src = f.src
    BY <2>1, <2>2, ByIpIs, Zenon
  <2>4. \A j \in 1 .. Len(map) : map'[j].src = map[j].src /\ map'[j].stn = map[j].stn
    BY <2>1, <2>3, Zenon
  <2>5. \A x : ByIp(map', x) = ByIp(map, x)
    BY <2>1, <2>2, <2>4, <1>SameFirst, Zenon
  <2>6. Last(map', f.src) = f.seq
    BY <2>1, <2>5, Zenon DEF Last
  <2>7. Keyed(map')
    <3> SUFFICES ASSUME NEW j \in 1 .. Len(map'), NEW x \in Srcs, map'[j].stn = Learn[x]
                 PROVE  map'[j].src = x
      BY Zenon DEF Keyed
    <3>1. map'[j].src = map[j].src /\ map'[j].stn = map[j].stn /\ j \in 1 .. Len(map)
      BY <2>1, <2>4
    <3> QED
      BY <3>1, Zenon DEF Keyed
  <2>8. ASSUME NEW x, x # f.src PROVE Last(map', x) = Last(map, x)
    <3>1. ByIp(map, x) = 0 \/ (ByIp(map, x) \in 1 .. Len(map) /\ map[ByIp(map, x)].src = x)
      BY <2>2, ByIpIs, Zenon
    <3> QED
      BY <2>1, <2>3, <2>5, <2>8, <3>1 DEF Last
  <2> QED
    BY <2>5, <2>6, <2>7, <2>8, Zenon
\* Learning a source adds an entry without a number, and disturbs no other.
<1>LastLearned.
    ASSUME Inv, Inv', Apart, Keyed(map), NEW s \in Srcs, map' = Attributed(s)
    PROVE  /\ Keyed(map') /\ \A x : Last(map', x) = Last(map, x)
           /\ \A x : ByIp(map, x) # 0 => ByIp(map', x) # 0
  <2> USE <1>LastLearned
  <2>1. CASE map' = map
    BY <2>1, Zenon
  <2>2. CASE map' # map
    <3> DEFINE e == [stn |-> Learn[s], src |-> s, last |-> 0]
    <3>1. ByIp(map, s) = 0 /\ Learn[s] # None /\ map' = MapAdd(map, Learn[s], s)
      BY <2>2, Zenon DEF Attributed
    <3>2. map \in Seq(MapEntries) /\ MapOK(map')
      BY Zenon DEF Inv, MapOK
    <3>3. \A i \in 1 .. Len(map) : map[i].src # s
      BY <3>1, <3>2, ByIpIs
    <3>4. \A i \in 1 .. Len(map) : map[i].stn # Learn[s]
      BY <3>3, Zenon DEF Keyed
    <3>5. ByAddr(map, Learn[s]) = 0
      <4>1. DOMAIN map = 1 .. Len(map)
        BY <3>2
      <4>2. {i \in DOMAIN map : map[i].stn = Learn[s]} = {}
        BY <3>4, <4>1, Zenon
      <4> QED
        BY <4>2, Zenon DEF ByAddr, FirstOf
    <3>6. map' = Append(map, e)
      BY <2>2, <3>1, <3>5, Zenon DEF MapAdd
    <3>7. e.src = s /\ e.last = 0 /\ e.stn = Learn[s]
      OBVIOUS
    <3> HIDE DEF e
    <3> DEFINE n == Len(map) + 1
    <3>8. /\ Len(map') = n /\ Len(map) \in Nat /\ map'[n] = e /\ n # 0 /\ n \notin 1 .. Len(map)
          /\ \A i \in 1 .. Len(map) : map'[i] = map[i]
          /\ \A i \in 1 .. n : i \in 1 .. Len(map) \/ i = n
          /\ \A i \in 1 .. Len(map) : i \in 1 .. n
          /\ DOMAIN map = 1 .. Len(map) /\ DOMAIN map' = 1 .. n
      BY <3>2, <3>6
    <3> HIDE DEF n
    <3>9. Keyed(map')
      <4> SUFFICES ASSUME NEW i \in 1 .. n, NEW x \in Srcs, map'[i].stn = Learn[x]
                   PROVE  map'[i].src = x
        BY <3>8, Zenon DEF Keyed
      <4>1. CASE i = n
        <5>1. map'[i].stn = Learn[s] /\ map'[i].src = s
          BY <3>7, <3>8, <4>1, Zenon
        <5>2. Learn[s] = Learn[x]
          BY <5>1, Zenon
        <5> QED
          BY <3>1, <5>1, <5>2, Zenon DEF Apart
      <4>2. CASE i \in 1 .. Len(map)
        BY <3>8, <4>2, Zenon DEF Keyed
      <4> QED
        BY <3>8, <4>1, <4>2, Zenon
    <3>10. ASSUME NEW x, x # s PROVE ByIp(map', x) = ByIp(map, x)
      <4>1. {i \in DOMAIN map' : map'[i].src = x} = {i \in DOMAIN map : map[i].src = x}
        <5>1. DOMAIN map = 1 .. Len(map) /\ DOMAIN map' = 1 .. n /\ map'[n].src = s
          BY <3>7, <3>8, Zenon
        <5>2. ASSUME NEW i \in 1 .. n, map'[i].src = x PROVE i \in 1 .. Len(map) /\ map[i].src = x
          <6>1. i # n
            BY <3>10, <5>1, <5>2, Zenon
          <6>2. i \in 1 .. Len(map)
            BY <3>8, <6>1, Zenon
          <6>3. map'[i] = map[i]
            BY <3>8, <6>2, Zenon
          <6> QED
            BY <5>2, <6>2, <6>3, Zenon
        <5>3. ASSUME NEW i \in 1 .. Len(map), map[i].src = x PROVE i \in 1 .. n /\ map'[i].src = x
          <6>1. i \in 1 .. n /\ map'[i] = map[i]
            BY <3>8, Zenon
          <6> QED
            BY <5>3, <6>1, Zenon
        <5> QED
          BY <5>1, <5>2, <5>3, Zenon
      <4> QED
        BY <4>1, Zenon DEF ByIp
    <3>11. ASSUME NEW x, x # s PROVE Last(map', x) = Last(map, x)
      <4>1. ByIp(map, x) = 0 \/ ByIp(map, x) \in 1 .. Len(map)
        BY <3>2, ByIpIs, Zenon
      <4> QED
        BY <3>8, <3>10, <3>11, <4>1, Zenon DEF Last
    <3>12. Last(map', s) = 0 /\ Last(map, s) = 0
      <4>1. map' \in Seq(MapEntries)
        BY <3>2, Zenon DEF MapOK
      <4>2. \/ ByIp(map', s) = 0
            \/ ByIp(map', s) \in 1 .. Len(map') /\ map'[ByIp(map', s)].src = s
        BY <4>1, ByIpIs, Zenon
      <4>3. ByIp(map', s) = 0 \/ ByIp(map', s) = n
        BY <3>3, <3>8, <4>2, Zenon
      <4> QED
        BY <3>1, <3>7, <3>8, <4>3, Zenon DEF Last
    <3> QED
      BY <3>1, <3>9, <3>10, <3>11, <3>12, Zenon
  <2> QED
    BY <2>1, <2>2, Zenon
\* Queues that hold less.
<1>OnceWithin.
    ASSUME NEW q, NEW q1, Within(q1, q)
    PROVE  /\ \A m, t, p, s, n : OnceQueued(q, m, t, p, s, n) => OnceQueued(q1, m, t, p, s, n)
           /\ (\A h \in Blocks : Len(q1[h]) \in Nat) /\ OnceAlone(q) => OnceAlone(q1)
  <2> USE <1>OnceWithin
  <2>1. ASSUME NEW h \in Blocks, NEW i \in 1 .. Len(q1[h])
        PROVE  \E a \in 1 .. Len(q[h]) : Like(q1[h][i], q[h][a])
    BY Zenon DEF Within
  <2>3. ASSUME \A h \in Blocks : Len(q1[h]) \in Nat, OnceAlone(q),
               NEW g \in Blocks, NEW h \in Blocks, NEW i \in 1 .. Len(q1[g]), NEW j \in 1 .. Len(q1[h]),
               q1[g][i].src \in Srcs, q1[g][i].src = q1[h][j].src
        PROVE  g = h /\ i = j
    <3>1. PICK a \in 1 .. Len(q[g]) : Like(q1[g][i], q[g][a])
      BY <2>1, Zenon
    <3>2. PICK b \in 1 .. Len(q[h]) : Like(q1[h][j], q[h][b])
      BY <2>1, Zenon
    <3>3. g = h
      BY <2>3, <3>1, <3>2, Zenon DEF OnceAlone, Alone, Like
    <3>4. ASSUME NEW k \in 1 .. Len(q1[g]), NEW l \in 1 .. Len(q1[g]), k < l,
                 q1[g][k].src \in Srcs, q1[g][k].src = q1[g][l].src
          PROVE  FALSE
      <4>1. PICK c, d \in 1 .. Len(q[g]) : Like(q1[g][k], q[g][c]) /\ Like(q1[g][l], q[g][d]) /\ c < d
        BY <3>4, Zenon DEF Within
      <4>2. q[g][c].src \in Srcs /\ q[g][c].src = q[g][d].src
        BY <3>4, <4>1, Zenon DEF Like
      <4>3. c = d
        BY <2>3, <4>2, Zenon DEF OnceAlone, Alone
      <4> QED
        BY <2>3, <4>1, <4>3
    <3>5. ~(i < j) /\ ~(j < i)
      BY <2>3, <3>3, <3>4, Zenon
    <3>6. i \in Int /\ j \in Int
      OBVIOUS
    <3> QED
      BY <3>3, <3>5, <3>6
  <2>4. ASSUME NEW m, NEW t, NEW p, NEW s, NEW n, OnceQueued(q, m, t, p, s, n)
        PROVE  OnceQueued(q1, m, t, p, s, n)
    <3> SUFFICES ASSUME NEW h \in Blocks, NEW i \in 1 .. Len(q1[h]), q1[h][i].src = s
                 PROVE  ByIp(m, s) # 0 /\ q1[h][i].inc = 0 /\ q1[h][i].seq = n + 1 /\ Ahead(t, p, s, n)
      BY Zenon DEF OnceQueued
    <3>1. PICK a \in 1 .. Len(q[h]) : Like(q1[h][i], q[h][a])
      BY <2>1, Zenon
    <3>2. q[h][a].src = s /\ q1[h][i].inc = q[h][a].inc /\ q1[h][i].seq = q[h][a].seq
      BY <3>1, Zenon DEF Like
    <3> QED
      BY <2>4, <3>2, Zenon DEF OnceQueued
  <2>5. ASSUME \A h \in Blocks : Len(q1[h]) \in Nat, OnceAlone(q) PROVE OnceAlone(q1)
    BY <2>3, <2>5, Zenon DEF OnceAlone, Alone
  <2> QED
    BY <2>4, <2>5, Zenon
\* A step of the host that confirms nothing, or of time.
<1>OnceQuiet.
    ASSUME Inv', OnceInv, UNCHANGED <<map, peer, toEngine, toPeer, taken, shed, budget>>,
           Within(queue', queue)
    PROVE  OnceInv'
  <2> USE <1>OnceQuiet
  <2>1. \A h \in Blocks : Len(queue'[h]) \in Nat
    <3>1. queue' \in [Blocks -> Seq(QFrames)]
      BY Zenon DEF Inv, BlocksOK
    <3> QED
      BY <3>1
  <2>2. OnceAlone(queue')
    BY <2>1, <1>OnceWithin, Zenon DEF OnceInv
  <2>3. ASSUME NEW s \in Srcs PROVE OnceOf(s, Last(map, s))'
    <3> DEFINE n == Last(map, s)
    <3>1. OnceQueued(queue, map, toEngine, peer, s, n) /\ OnceNet(toEngine, peer, s, n)
          /\ OnceAcked(toPeer, s, n) /\ OnceTaken(taken, shed, s, n)
      BY Zenon DEF OnceInv, OnceOf
    <3>2. OnceQueued(queue', map, toEngine, peer, s, n)
      <4> HIDE DEF n
      <4> QED
        BY <3>1, <1>OnceWithin, Zenon
    <3>3. n' = n
      BY Zenon
    <3> QED
      BY <3>1, <3>2, <3>3, Zenon DEF OnceOf
  <2> QED
    BY <2>2, <2>3, Zenon DEF OnceInv, DeliveredOnce, NotShedAndTaken, StreamOrder
\* A step of a peer or of the network.
<1>OnceLink.
    ASSUME OnceInv, UNCHANGED <<map, queue, taken, shed>>, budget'.admin = budget.admin,
           \A s \in Srcs :
             /\ OnceNet(toEngine', peer', s, Last(map, s)) /\ OnceAcked(toPeer', s, Last(map, s))
             /\ Ahead(toEngine, peer, s, Last(map, s)) => Ahead(toEngine', peer', s, Last(map, s))
    PROVE  OnceInv'
  <2> USE <1>OnceLink
  <2>1. ASSUME NEW s \in Srcs PROVE OnceOf(s, Last(map, s))'
    <3> DEFINE n == Last(map, s)
    <3>1. OnceQueued(queue, map, toEngine, peer, s, n) /\ OnceTaken(taken, shed, s, n)
      BY Zenon DEF OnceInv, OnceOf
    <3>2. /\ OnceNet(toEngine', peer', s, n) /\ OnceAcked(toPeer', s, n)
          /\ Ahead(toEngine, peer, s, n) => Ahead(toEngine', peer', s, n)
      BY Zenon
    <3>3. n' = n
      BY Zenon
    <3> HIDE DEF n
    <3>4. OnceQueued(queue, map, toEngine', peer', s, n)
      BY <3>1, <3>2, Zenon DEF OnceQueued
    <3>5. OnceOf(s, n)'
      BY <3>1, <3>2, <3>3, <3>4, Zenon DEF OnceOf
    <3> QED
      BY <3>5, Zenon DEF n
  <2> QED
    BY <2>1, Zenon DEF OnceInv, DeliveredOnce, NotShedAndTaken, StreamOrder
\* A datagram leaves the network.
<1>OnceTail.
    ASSUME NEW t, NEW s \in Srcs, NEW u, Shorter(t, u, s), NEW p, NEW x \in Srcs, NEW n
    PROVE  /\ OnceNet(t, p, x, n) => OnceNet(u, p, x, n)
           /\ Ahead(t, p, x, n) => Ahead(u, p, x, n)
  <2> USE <1>OnceTail
  <2>1. /\ \A k \in 1 .. Len(u[s]) : k + 1 \in 1 .. Len(t[s]) /\ u[s][k] = t[s][k + 1]
        /\ \A y \in Srcs : y # s => u[y] = t[y]
        /\ Len(u[s]) \in Nat
    BY Zenon DEF Shorter
  <2>2. CASE x # s
    BY <2>1, <2>2, Zenon DEF OnceNet, Ahead
  <2>3. CASE x = s
    <3>1. \A j, k \in 1 .. Len(u[s]) : k < j => k + 1 < j + 1
      BY <2>1
    <3>2. OnceNet(t, p, s, n) => OnceNet(u, p, s, n)
      <4> SUFFICES ASSUME OnceNet(t, p, s, n), NEW k \in 1 .. Len(u[s])
                   PROVE  /\ u[s][k].inc = 0 /\ u[s][k].seq \in {n, n + 1} /\ u[s][k].seq <= p[s].seq
                          /\ \A j \in 1 .. Len(u[s]) : k < j => u[s][k].seq <= u[s][j].seq
        BY Zenon DEF OnceNet
      <4>1. k + 1 \in 1 .. Len(t[s]) /\ u[s][k] = t[s][k + 1]
        BY <2>1, Zenon
      <4>2. /\ t[s][k + 1].inc = 0 /\ t[s][k + 1].seq \in {n, n + 1} /\ t[s][k + 1].seq <= p[s].seq
            /\ \A j \in 1 .. Len(t[s]) : k + 1 < j => t[s][k + 1].seq <= t[s][j].seq
        BY <4>1, Zenon DEF OnceNet
      <4>3. ASSUME NEW j \in 1 .. Len(u[s]), k < j PROVE u[s][k].seq <= u[s][j].seq
        <5>1. j + 1 \in 1 .. Len(t[s]) /\ u[s][j] = t[s][j + 1] /\ k + 1 < j + 1
          BY <2>1, <3>1, <4>3, Zenon
        <5> QED
          BY <4>1, <4>2, <5>1, Zenon
      <4> QED
        BY <4>1, <4>2, <4>3, Zenon
    <3>3. Ahead(t, p, s, n) => Ahead(u, p, s, n)
      BY <2>1, Zenon DEF Ahead
    <3> QED
      BY <2>3, <3>2, <3>3, Zenon
  <2> QED
    BY <2>2, <2>3, Zenon
\* An answer leaves the network.
<1>OnceTailAcked.
    ASSUME NEW a \in [Srcs -> Seq(Answers)], NEW s \in Srcs, a[s] # << >>,
           NEW x \in Srcs, NEW n, OnceAcked(a, x, n)
    PROVE  OnceAcked([a EXCEPT ![s] = Tail(@)], x, n)
  <2> USE <1>OnceTailAcked
  <2> DEFINE u == [a EXCEPT ![s] = Tail(@)]
  <2>1. /\ \A k \in 1 .. Len(u[s]) : k + 1 \in 1 .. Len(a[s]) /\ u[s][k] = a[s][k + 1]
        /\ \A y \in Srcs : y # s => u[y] = a[y]
    BY TailIs
  <2> SUFFICES OnceAcked(u, x, n)
    BY Zenon
  <2> HIDE DEF u
  <2>2. CASE x # s
    BY <2>1, <2>2, Zenon DEF OnceAcked
  <2>3. CASE x = s
    <3> SUFFICES ASSUME NEW k \in 1 .. Len(u[s]), u[s][k].type = "ack" PROVE u[s][k].seq <= n
      BY <2>3, Zenon DEF OnceAcked
    <3>1. k + 1 \in 1 .. Len(a[s]) /\ u[s][k] = a[s][k + 1]
      BY <2>1, Zenon
    <3> QED
      BY <2>3, <3>1, Zenon DEF OnceAcked
  <2> QED
    BY <2>2, <2>3, Zenon
\* A peer sends again what it is sending.
<1>OnceSend.
    ASSUME Inv, OnceInv, NEW s \in Srcs, PeerSend(s)
    PROVE  OnceInv'
  <2> USE <1>OnceSend
  <2> DEFINE m == [src |-> s, inc |-> peer[s].inc, seq |-> peer[s].seq, port |-> peer[s].port]
  <2>1. /\ toEngine' = [toEngine EXCEPT ![s] = Append(@, m)]
        /\ peer[s].seq + peer[s].inc <= MaxSeq
        /\ UNCHANGED <<map, queue, taken, shed, peer, toPeer, budget>>
    BY Zenon DEF PeerSend, blockVars, history
  <2>2. peer[s] \in Sending /\ peer[s].seq \in Nat
    <3>1. peer[s] \in Sending
      BY DEF Inv
    <3> QED
      BY <3>1 DEF Sending
  <2>3. m \in Wire /\ m.inc = peer[s].inc /\ m.seq = peer[s].seq
    BY <2>1, <2>2, Consts DEF Sending, Wire
  <2> HIDE DEF m
  <2>4. toEngine \in [Srcs -> Seq(Wire)]
    BY Zenon DEF Inv, InOK
  <2>5. /\ Len(toEngine'[s]) = Len(toEngine[s]) + 1 /\ Len(toEngine[s]) \in Nat
        /\ \A k \in 1 .. Len(toEngine[s]) : toEngine'[s][k] = toEngine[s][k]
        /\ toEngine'[s][Len(toEngine'[s])] = m
        /\ \A x \in Srcs : x # s => toEngine'[x] = toEngine[x]
    BY <2>1, <2>3, <2>4, SentIs
  <2>6. /\ \A k \in 1 .. Len(toEngine'[s]) : k \in 1 .. Len(toEngine[s]) \/ k = Len(toEngine'[s])
        /\ \A k, j \in 1 .. Len(toEngine'[s]) : k < j => k \in 1 .. Len(toEngine[s])
    BY <2>5, NextIndex, Zenon
  <2>7. ASSUME NEW x \in Srcs, NEW n, n = Last(map, x)
        PROVE  /\ OnceNet(toEngine', peer', x, n) /\ OnceAcked(toPeer', x, n)
               /\ Ahead(toEngine, peer, x, n) => Ahead(toEngine', peer', x, n)
    <3>1. OnceNet(toEngine, peer, x, n) /\ OnceAcked(toPeer, x, n)
      BY <2>7, Zenon DEF OnceInv, OnceOf
    <3>2. CASE x # s
      <4>1. toEngine'[x] = toEngine[x] /\ peer' = peer /\ toPeer' = toPeer
        BY <2>1, <2>5, <3>2, Zenon
      <4>2. OnceNet(toEngine', peer', x, n)
        BY <3>1, <4>1, Zenon DEF OnceNet
      <4>3. Ahead(toEngine, peer, x, n) => Ahead(toEngine', peer', x, n)
        BY <4>1, Zenon DEF Ahead
      <4> QED
        BY <3>1, <4>1, <4>2, <4>3, Zenon
    <3>3. CASE x = s
      <4>1. peer[s].inc = 0 /\ peer[s].seq \in {n, n + 1} /\ peer[s].seq <= peer[s].seq
        BY <2>2, <3>1, <3>3 DEF OnceNet
      <4>2. ASSUME NEW k \in 1 .. Len(toEngine'[s])
            PROVE  /\ toEngine'[s][k].inc = 0 /\ toEngine'[s][k].seq \in {n, n + 1}
                   /\ toEngine'[s][k].seq <= peer[s].seq
        <5>1. CASE k \in 1 .. Len(toEngine[s])
          BY <2>5, <3>1, <3>3, <5>1, Zenon DEF OnceNet
        <5>2. CASE k = Len(toEngine'[s])
          BY <2>3, <2>5, <4>1, <5>2, Zenon
        <5> QED
          BY <2>6, <5>1, <5>2, Zenon
      <4>3. ASSUME NEW k \in 1 .. Len(toEngine'[s]), NEW j \in 1 .. Len(toEngine'[s]), k < j
            PROVE  toEngine'[s][k].seq <= toEngine'[s][j].seq
        <5>1. k \in 1 .. Len(toEngine[s]) /\ toEngine'[s][k] = toEngine[s][k]
          BY <2>5, <2>6, <4>3, Zenon
        <5>2. CASE j \in 1 .. Len(toEngine[s])
          BY <2>5, <3>1, <3>3, <4>3, <5>1, <5>2, Zenon DEF OnceNet
        <5>3. CASE j = Len(toEngine'[s])
          <6>1. toEngine'[s][j].seq = peer[s].seq
            BY <2>3, <2>5, <5>3, Zenon
          <6> QED
            BY <4>2, <6>1, Zenon
        <5> QED
          BY <2>6, <5>2, <5>3, Zenon
      <4>4. Ahead(toEngine, peer, s, n) => Ahead(toEngine', peer', s, n)
        BY <2>1, <2>3, <2>5, <2>6, Zenon DEF Ahead
      <4>5. OnceNet(toEngine', peer', s, n)
        BY <2>1, <4>1, <4>2, <4>3, Zenon DEF OnceNet
      <4> QED
        BY <2>1, <3>1, <3>3, <4>4, <4>5, Zenon
    <3> QED
      BY <3>2, <3>3, Zenon
  <2> QED
    BY <2>1, <2>7, <1>OnceLink, Zenon
\* An acknowledgement moves a peer on to the message after the last confirmed.
<1>OnceRecv.
    ASSUME Inv, OnceInv, NEW s \in Srcs, PeerRecv(s)
    PROVE  OnceInv'
  <2> USE <1>OnceRecv
  <2> DEFINE a == Head(toPeer[s])
  <2>1. /\ toPeer[s] # << >> /\ toPeer' = [toPeer EXCEPT ![s] = Tail(@)]
        /\ \/ a.type = "ack" /\ a.seq = peer[s].seq /\ NextTransaction(s)
           \/ peer' = peer
        /\ UNCHANGED <<map, queue, taken, shed, toEngine, budget>>
    BY Zenon DEF PeerRecv, blockVars, history
  <2>2. toPeer \in [Srcs -> Seq(Answers)] /\ peer \in [Srcs -> Sending]
    BY Zenon DEF Inv, OutOK
  <2>3. a = toPeer[s][1] /\ 1 \in 1 .. Len(toPeer[s])
    BY <2>1, <2>2, TailIs
  <2>4. peer[s].seq \in Nat
    BY <2>2 DEF Sending
  <2> HIDE DEF a
  <2>5. ASSUME NEW x \in Srcs, NEW n, n = Last(map, x)
        PROVE  /\ OnceNet(toEngine', peer', x, n) /\ OnceAcked(toPeer', x, n)
               /\ Ahead(toEngine, peer, x, n) => Ahead(toEngine', peer', x, n)
    <3>1. OnceNet(toEngine, peer, x, n) /\ OnceAcked(toPeer, x, n)
      BY <2>5, Zenon DEF OnceInv, OnceOf
    <3>2. OnceAcked(toPeer', x, n)
      <4> DEFINE u == toPeer'
      <4>1. u = [toPeer EXCEPT ![s] = Tail(@)]
        BY <2>1, Zenon
      <4> HIDE DEF u
      <4>2. toPeer[s] # << >> /\ toPeer \in [Srcs -> Seq(Answers)] /\ OnceAcked(toPeer, x, n)
        BY <2>1, <2>2, <3>1, Zenon
      <4>3. OnceAcked(u, x, n)
        BY <4>1, <4>2, <1>OnceTailAcked, Zenon
      <4> QED
        BY <4>3, Zenon DEF u
    <3>3. CASE peer' = peer
      BY <2>1, <3>1, <3>2, <3>3, Zenon
    <3>4. CASE a.type = "ack" /\ a.seq = peer[s].seq /\ NextTransaction(s)
      <4>1. PICK p \in Ports : peer' = [peer EXCEPT ![s] = [inc |-> @.inc, seq |-> @.seq + 1, port |-> p]]
        BY <3>4, Zenon DEF NextTransaction
      <4>2. /\ peer'[s].inc = peer[s].inc /\ peer'[s].seq = peer[s].seq + 1
            /\ \A y \in Srcs : y # s => peer'[y] = peer[y]
        BY <2>2, <4>1
      <4>3. CASE x # s
        BY <2>1, <3>1, <3>2, <4>2, <4>3, Zenon DEF OnceNet, Ahead
      <4>4. CASE x = s
        <5>1. n \in Nat
          BY <2>5, <1>LastIs, Zenon DEF Inv
        <5>2. a.seq <= n
          BY <2>3, <3>1, <3>4, <4>4, Zenon DEF OnceAcked
        <5>3. peer[s].seq = n
          BY <2>4, <3>1, <3>4, <4>4, <5>1, <5>2 DEF OnceNet
        <5>4. peer'[s].seq = n + 1 /\ peer'[s].inc = 0 /\ peer'[s].seq \in {n, n + 1}
          BY <3>1, <4>2, <4>4, <5>3 DEF OnceNet
        <5>5. ~Ahead(toEngine, peer, s, n)
          BY <5>1, <5>3 DEF Ahead
        <5>6. \A k \in 1 .. Len(toEngine[s]) : toEngine[s][k].seq <= peer'[s].seq
          BY <3>1, <4>4, <5>1, <5>4 DEF OnceNet
        <5>7. OnceNet(toEngine, peer', s, n)
          BY <3>1, <4>4, <5>4, <5>6, Zenon DEF OnceNet
        <5> QED
          BY <2>1, <3>2, <4>4, <5>5, <5>7, Zenon
      <4> QED
        BY <4>3, <4>4, Zenon
    <3> QED
      BY <2>1, <3>3, <3>4, Zenon
  <2> QED
    BY <2>1, <2>5, <1>OnceLink, Zenon
\* A datagram or an answer is lost.
<1>OnceLose.
    ASSUME Inv, OnceInv, NEW s \in Srcs, Lose(s)
    PROVE  OnceInv'
  <2> USE <1>OnceLose
  <2> DEFINE t == toEngine'
             u == toPeer'
  <2>1. /\ UNCHANGED <<map, queue, taken, shed, peer>>
        /\ t = toEngine \/ (toEngine[s] # << >> /\ t = [toEngine EXCEPT ![s] = Tail(@)])
        /\ u = toPeer \/ (toPeer[s] # << >> /\ u = [toPeer EXCEPT ![s] = Tail(@)])
    BY Zenon DEF Lose, blockVars, history
  <2>2. budget' = [budget EXCEPT !.loss = @ - 1]
    BY Zenon DEF Lose
  <2>3. budget'.admin = budget.admin
    BY <2>2
  <2>4. toEngine \in [Srcs -> Seq(Wire)] /\ toPeer \in [Srcs -> Seq(Answers)]
    BY Zenon DEF Inv, InOK, OutOK
  <2> HIDE DEF t, u
  <2>5. ASSUME NEW x \in Srcs, NEW n, n = Last(map, x)
        PROVE  /\ OnceNet(toEngine', peer', x, n) /\ OnceAcked(toPeer', x, n)
               /\ Ahead(toEngine, peer, x, n) => Ahead(toEngine', peer', x, n)
    <3>1. OnceNet(toEngine, peer, x, n) /\ OnceAcked(toPeer, x, n)
      BY <2>5, Zenon DEF OnceInv, OnceOf
    <3>2. OnceAcked(u, x, n)
      <4>1. toPeer[s] # << >> => OnceAcked([toPeer EXCEPT ![s] = Tail(@)], x, n)
        BY <2>4, <3>1, <1>OnceTailAcked, Zenon
      <4> QED
        BY <2>1, <3>1, <4>1, Zenon
    <3> DEFINE p == peer
    <3>3. OnceNet(toEngine, p, x, n)
      BY <3>1, Zenon
    <3> HIDE DEF p
    <3>4. OnceNet(t, p, x, n) /\ (Ahead(toEngine, p, x, n) => Ahead(t, p, x, n))
      <4>1. CASE toEngine[s] # << >> /\ t = [toEngine EXCEPT ![s] = Tail(@)]
        <5>1. Shorter(toEngine, t, s)
          BY <2>4, <4>1, TailIs DEF Shorter
        <5> QED
          BY <3>3, <5>1, <1>OnceTail, Zenon
      <4> QED
        BY <2>1, <3>3, <4>1, Zenon
    <3> QED
      BY <2>1, <3>2, <3>4, Zenon DEF t, u, p
  <2> QED
    BY <2>1, <2>3, <2>5, <1>OnceLink, Zenon
\* A message that is the next of its source, with no other queued, is queued.
<1>OnceEnqueue.
    ASSUME Inv, NEW h \in Blocks, NEW m, Enqueue(h, m), NEW s \in Srcs, NEW n, NEW mp, NEW t, NEW p,
           Following(m, s, n, mp, t, p),
           \A g \in Blocks : \A i \in 1 .. Len(queue[g]) : queue[g][i].src # s
    PROVE  /\ OnceAlone(queue) => OnceAlone(queue')
           /\ \A x \in Srcs : \A k : (x = s => k = n) /\ OnceQueued(queue, mp, t, p, x, k)
                                       => OnceQueued(queue', mp, t, p, x, k)
  <2> USE <1>OnceEnqueue
  <2>1. /\ Len(queue'[h]) = Len(queue[h]) + 1 /\ Len(queue[h]) \in Nat
        /\ \A k \in 1 .. Len(queue[h]) : queue'[h][k] = queue[h][k]
        /\ queue'[h][Len(queue[h]) + 1] =
             [src |-> m.src, inc |-> m.inc, seq |-> m.seq, port |-> m.port, rejects |-> 0]
        /\ \A g \in Blocks : g # h => queue'[g] = queue[g]
    BY Enqueued, Zenon
  <2> DEFINE e == Len(queue[h]) + 1
  <2>2. queue'[h][e].src = s /\ queue'[h][e].inc = 0 /\ queue'[h][e].seq = n + 1
    <3>1. queue'[h][e].src = m.src /\ queue'[h][e].inc = m.inc /\ queue'[h][e].seq = m.seq
      BY EnqueuedAs, Zenon
    <3>2. m.src = s /\ m.inc = 0 /\ m.seq = n + 1
      BY Zenon DEF Following
    <3> QED
      BY <3>1, <3>2, Zenon
  <2> m.src = s /\ m.inc = 0 /\ m.seq = n + 1 /\ ByIp(mp, s) # 0 /\ Ahead(t, p, s, n)
    BY Zenon DEF Following
  <2>3. ASSUME NEW g \in Blocks, NEW i \in 1 .. Len(queue'[g])
        PROVE  \/ i \in 1 .. Len(queue[g]) /\ queue'[g][i] = queue[g][i]
               \/ g = h /\ i = e
    <3>1. CASE g # h
      BY <2>1, <3>1
    <3>2. CASE g = h
      BY <2>1, <3>2
    <3> QED
      BY <3>1, <3>2, Zenon
  <2> HIDE DEF e
  <2>4. ASSUME OnceAlone(queue) PROVE OnceAlone(queue')
    <3> DEFINE q == queue'
    <3>1. ASSUME NEW g \in Blocks, NEW i \in 1 .. Len(q[g])
          PROVE  \/ i \in 1 .. Len(queue[g]) /\ q[g][i] = queue[g][i]
                 \/ g = h /\ i = e
      BY <2>3, Zenon
    <3>2. q[h][e].src = s
      BY <2>2, Zenon
    <3> HIDE DEF q
    <3>3. ASSUME NEW g \in Blocks, NEW k \in Blocks,
                 NEW i \in 1 .. Len(q[g]), NEW j \in 1 .. Len(q[k])
          PROVE  Alone(q, g, i, k, j)
      <4> SUFFICES ASSUME q[g][i].src \in Srcs, q[g][i].src = q[k][j].src
                   PROVE  g = k /\ i = j
        BY Zenon DEF Alone
      <4>1. CASE g = h /\ i = e
        <5>1. q[k][j].src = s
          BY <3>2, <4>1, Zenon
        <5> QED
          BY <3>1, <4>1, <5>1, Zenon
      <4>2. CASE k = h /\ j = e
        <5>1. q[g][i].src = s
          BY <3>2, <4>2, Zenon
        <5> QED
          BY <3>1, <4>2, <5>1, Zenon
      <4>3. CASE /\ i \in 1 .. Len(queue[g]) /\ q[g][i] = queue[g][i]
                 /\ j \in 1 .. Len(queue[k]) /\ q[k][j] = queue[k][j]
        <5>1. queue[g][i].src \in Srcs /\ queue[g][i].src = queue[k][j].src
          BY <4>3, Zenon
        <5>2. Alone(queue, g, i, k, j)
          BY <2>4, <4>3, Zenon DEF OnceAlone
        <5> QED
          BY <5>1, <5>2, Zenon DEF Alone
      <4> QED
        BY <3>1, <4>1, <4>2, <4>3, Zenon
    <3>4. OnceAlone(q)
      BY <3>3, Zenon DEF OnceAlone
    <3> QED
      BY <3>4, Zenon DEF q
  <2>5. ASSUME NEW x \in Srcs, NEW k, x = s => k = n, OnceQueued(queue, mp, t, p, x, k)
        PROVE  OnceQueued(queue', mp, t, p, x, k)
    <3> SUFFICES ASSUME NEW g \in Blocks, NEW i \in 1 .. Len(queue'[g]), queue'[g][i].src = x
                 PROVE  /\ ByIp(mp, x) # 0 /\ queue'[g][i].inc = 0 /\ queue'[g][i].seq = k + 1
                        /\ Ahead(t, p, x, k)
      BY Zenon DEF OnceQueued
    <3>1. CASE i \in 1 .. Len(queue[g]) /\ queue'[g][i] = queue[g][i]
      BY <2>5, <3>1, Zenon DEF OnceQueued
    <3>2. CASE g = h /\ i = e
      <4>1. x = s /\ k = n
        BY <2>2, <2>5, <3>2, Zenon
      <4> QED
        BY <2>2, <3>2, <4>1, Zenon
    <3> QED
      BY <2>3, <3>1, <3>2, Zenon
  <2> QED
    BY <2>4, <2>5, Zenon
\* A datagram arrives: dropped, refused, acknowledged again, or queued.
<1>OnceRxData.
    ASSUME Inv, Inv', Apart, OnceInv, NEW s \in Srcs, RxData(s)
    PROVE  OnceInv'
  <2> USE <1>OnceRxData
  <2> DEFINE m == Head(toEngine[s])
             i == ByIp(map', s)
             n == Last(map, s)
  <2>1. /\ toEngine[s] # << >> /\ toEngine' = [toEngine EXCEPT ![s] = Tail(@)]
        /\ map' = Attributed(s) /\ UNCHANGED <<peer, budget, taken, shed>>
    BY Zenon DEF RxData, history
  <2>2. \/ queue' = queue /\ toPeer' = toPeer
        \/ queue' = queue /\ Reply(s, "nak", m)
        \/ queue' = queue /\ Reply(s, "ack", m) /\ i # 0 /\ map'[i].last = m.seq
        \/ /\ toPeer' = toPeer /\ i # 0 /\ map'[i].last # m.seq /\ ~rx_seq_pending(m)
           /\ \E h \in Blocks : Enqueue(h, m)
    BY RoomIs, Zenon DEF RxData, RxVerdict, RxDeliver
  <2>3. /\ Keyed(map') /\ \A x : Last(map', x) = Last(map, x)
        /\ \A x : ByIp(map, x) # 0 => ByIp(map', x) # 0
    BY <2>1, <1>LastLearned, Zenon DEF OnceInv
  <2>4. toEngine \in [Srcs -> Seq(Wire)] /\ m \in Wire /\ m.src = s
    BY <2>1, InTail, Zenon DEF Inv, InOK
  <2>5. /\ \A k \in 1 .. Len(toEngine'[s]) :
             k + 1 \in 1 .. Len(toEngine[s]) /\ toEngine'[s][k] = toEngine[s][k + 1]
        /\ m = toEngine[s][1] /\ 1 \in 1 .. Len(toEngine[s])
    BY <2>1, <2>4, TailIs
  <2>6. m.inc \in 0 .. MaxRestart /\ m.seq \in 0 .. MaxSeq
    BY <2>4, Consts DEF Wire
  <2>7. /\ m.inc = 0 /\ m.seq \in {n, n + 1} /\ m.seq <= peer[s].seq /\ peer[s].seq \in {n, n + 1}
        /\ \A k \in 1 .. Len(toEngine[s]) : 1 < k => m.seq <= toEngine[s][k].seq
        /\ \A k \in 1 .. Len(toEngine[s]) : toEngine[s][k].seq \in {n, n + 1}
    <3>1. OnceNet(toEngine, peer, s, n)
      BY Zenon DEF OnceInv, OnceOf
    <3> HIDE DEF m, n
    <3> QED
      BY <2>5, <3>1, Zenon DEF OnceNet
  <2>8. n \in Nat
    BY <1>LastIs, Zenon DEF Inv
  <2>9. i # 0 => n = map'[i].last
    BY <2>3, Zenon DEF Last
  <2> HIDE DEF m, n, i
  <2>10. m.seq = n + 1 => Ahead(toEngine', peer, s, n)
    <3> SUFFICES ASSUME m.seq = n + 1, NEW k \in 1 .. Len(toEngine'[s])
                 PROVE  peer[s].seq = n + 1 /\ toEngine'[s][k].seq = n + 1
      <4>1. m.seq = n + 1 => peer[s].seq = n + 1
        BY <2>7, <2>8
      <4> QED
        BY <4>1, Zenon DEF Ahead
    <3>1. k + 1 \in 1 .. Len(toEngine[s]) /\ toEngine'[s][k] = toEngine[s][k + 1] /\ 1 < k + 1
      <4>1. 1 < k + 1
        OBVIOUS
      <4> QED
        BY <2>5, <4>1, Zenon
    <3>2. m.seq <= toEngine[s][k + 1].seq /\ toEngine[s][k + 1].seq \in {n, n + 1}
      BY <2>7, <3>1, Zenon
    <3> QED
      BY <2>7, <2>8, <3>1, <3>2
  <2>11. ASSUME NEW x \in Srcs, NEW z, z = Last(map, x)
         PROVE  OnceNet(toEngine', peer, x, z) /\ OnceQueued(queue, map', toEngine', peer, x, z)
    <3> DEFINE t == toEngine'
               p == peer
    <3>1. OnceNet(toEngine, p, x, z) /\ OnceQueued(queue, map, toEngine, p, x, z)
      BY <2>11, Zenon DEF OnceInv, OnceOf
    <3>2. toEngine[s] # << >> /\ t = [toEngine EXCEPT ![s] = Tail(@)]
      BY <2>1, Zenon
    <3> HIDE DEF t, p
    <3>3. OnceNet(t, p, x, z) /\ (Ahead(toEngine, p, x, z) => Ahead(t, p, x, z))
      <4>1. toEngine \in [Srcs -> Seq(Wire)] /\ OnceNet(toEngine, p, x, z)
        BY <2>4, <3>1, Zenon
      <4>2. Shorter(toEngine, t, s)
        BY <3>2, <4>1, TailIs DEF Shorter
      <4> QED
        BY <4>1, <4>2, <1>OnceTail, Zenon
    <3>4. OnceQueued(queue, map', t, p, x, z)
      BY <2>3, <3>1, <3>3, Zenon DEF OnceQueued
    <3> QED
      BY <3>3, <3>4, Zenon DEF t, p
  <2>12. /\ OnceAlone(queue')
         /\ \A x \in Srcs : OnceQueued(queue', map', toEngine', peer, x, Last(map, x))
    <3>1. CASE queue' = queue
      BY <2>11, <3>1, Zenon DEF OnceInv
    <3>2. CASE i # 0 /\ map'[i].last # m.seq /\ ~rx_seq_pending(m) /\ \E h \in Blocks : Enqueue(h, m)
      <4>1. m.seq = n + 1
        BY <2>7, <2>9, <3>2
      <4>2. ASSUME NEW g \in Blocks, NEW j \in 1 .. Len(queue[g]) PROVE queue[g][j].src # s
        <5> SUFFICES ASSUME queue[g][j].src = s PROVE FALSE
          BY Zenon
        <5>1. OnceQueued(queue, map, toEngine, peer, s, n)
          BY Zenon DEF OnceInv, OnceOf, n
        <5>2. queue[g][j].seq = n + 1
          BY <5>1, Zenon DEF OnceQueued
        <5>3. queue[g] \in Seq(QFrames)
          BY BlockFacts, Zenon
        <5>4. j \in DOMAIN queue[g]
          BY <5>3
        <5> QED
          BY <2>4, <3>2, <4>1, <5>2, <5>4, Zenon DEF rx_seq_pending
      <4>3. PICK h \in Blocks : Enqueue(h, m)
        BY <3>2, Zenon
      <4> DEFINE t == toEngine'
                 p == peer
                 mp == map'
      <4>4. ByIp(mp, s) # 0 /\ Ahead(t, p, s, n)
        BY <2>10, <3>2, <4>1, Zenon DEF i
      <4>5. ASSUME NEW x \in Srcs PROVE OnceQueued(queue, mp, t, p, x, Last(map, x))
        BY <2>11, Zenon
      <4> HIDE DEF t, p, mp
      <4>6. /\ OnceAlone(queue) => OnceAlone(queue')
            /\ \A x \in Srcs : \A k : (x = s => k = n) /\ OnceQueued(queue, mp, t, p, x, k)
                                        => OnceQueued(queue', mp, t, p, x, k)
        <5>1. Following(m, s, n, mp, t, p)
          BY <2>4, <2>7, <4>1, <4>4, Zenon DEF Following
        <5>2. \A g \in Blocks : \A j \in 1 .. Len(queue[g]) : queue[g][j].src # s
          BY <4>2, Zenon
        <5> QED
          BY <4>3, <5>1, <5>2, <1>OnceEnqueue, Zenon
      <4>7. ASSUME NEW x \in Srcs PROVE OnceQueued(queue', mp, t, p, x, Last(map, x))
        <5>1. x = s => Last(map, x) = n
          BY Zenon DEF n
        <5> QED
          BY <4>5, <4>6, <5>1, Zenon
      <4> QED
        BY <4>6, <4>7, Zenon DEF t, p, mp, OnceInv
    <3> QED
      BY <2>2, <3>1, <3>2, Zenon
  <2>13. ASSUME NEW x \in Srcs, NEW k, k = Last(map, x) PROVE OnceAcked(toPeer', x, k)
    <3>1. OnceAcked(toPeer, x, k)
      BY <2>13, Zenon DEF OnceInv, OnceOf
    <3>2. CASE toPeer' = toPeer
      BY <3>1, <3>2, Zenon
    <3>3. ASSUME NEW type, type \in Kinds, Reply(s, type, m), type = "ack" => m.seq = n
          PROVE  OnceAcked(toPeer', x, k)
      <4>1. /\ Len(toPeer'[s]) = Len(toPeer[s]) + 1 /\ Len(toPeer[s]) \in Nat
            /\ \A j \in 1 .. Len(toPeer'[s]) :
                 \/ j \in 1 .. Len(toPeer[s]) /\ toPeer'[s][j] = toPeer[s][j]
                 \/ toPeer'[s][j].type = type /\ toPeer'[s][j].inc = m.inc /\ toPeer'[s][j].seq = m.seq
            /\ \A y \in Srcs : y # s => toPeer'[y] = toPeer[y]
        BY <2>6, <3>3, Replied, Zenon
      <4>2. CASE x # s
        BY <3>1, <4>1, <4>2, Zenon DEF OnceAcked
      <4>3. CASE x = s
        <5> SUFFICES ASSUME NEW j \in 1 .. Len(toPeer'[s]), toPeer'[s][j].type = "ack"
                     PROVE  toPeer'[s][j].seq <= k
          BY <4>3, Zenon DEF OnceAcked
        <5>1. CASE j \in 1 .. Len(toPeer[s]) /\ toPeer'[s][j] = toPeer[s][j]
          BY <3>1, <4>3, <5>1, Zenon DEF OnceAcked
        <5>2. CASE toPeer'[s][j].type = type /\ toPeer'[s][j].seq = m.seq
          <6>1. toPeer'[s][j].seq = n /\ n = k
            BY <2>13, <3>3, <4>3, <5>2, Zenon DEF n
          <6> QED
            BY <2>8, <6>1
        <5> QED
          BY <4>1, <5>1, <5>2, Zenon
      <4> QED
        BY <4>2, <4>3, Zenon
    <3>4. CASE Reply(s, "nak", m)
      <4>1. "nak" \in Kinds /\ ("nak" = "ack" => m.seq = n)
        BY DEF Kinds
      <4> QED
        BY <3>3, <3>4, <4>1, Zenon
    <3>5. CASE Reply(s, "ack", m) /\ i # 0 /\ map'[i].last = m.seq
      <4>1. "ack" \in Kinds /\ m.seq = n
        BY <2>9, <3>5, WireIs, Zenon
      <4> QED
        BY <3>3, <3>5, <4>1, Zenon
    <3> QED
      BY <2>2, <3>2, <3>4, <3>5, Zenon
  <2>14. ASSUME NEW x \in Srcs PROVE OnceOf(x, Last(map, x))'
    <3>1. OnceTaken(taken, shed, x, Last(map, x))
      BY Zenon DEF OnceInv, OnceOf
    <3> QED
      BY <2>1, <2>3, <2>11, <2>12, <2>13, <3>1, Zenon DEF OnceOf
  <2> QED
    BY <2>1, <2>3, <2>12, <2>14, Zenon DEF OnceInv, DeliveredOnce, NotShedAndTaken, StreamOrder
\* The message after the last confirmed one was neither taken nor shed before.
<1>OnceHistory.
    ASSUME taken \in Seq(Wire), shed \subseteq Wire, DeliveredOnce, NotShedAndTaken, StreamOrder,
           NEW m \in Wire, NEW n \in Nat, m.inc = 0, m.seq = n + 1, OnceTaken(taken, shed, m.src, n),
           \/ taken' = Append(taken, m) /\ shed' = shed
           \/ taken' = taken /\ shed' = shed \cup {m}
    PROVE  /\ DeliveredOnce' /\ NotShedAndTaken' /\ StreamOrder'
           /\ OnceTaken(taken', shed', m.src, n + 1)
           /\ \A x, k : x # m.src /\ OnceTaken(taken, shed, x, k) => OnceTaken(taken', shed', x, k)
  <2> USE <1>OnceHistory
  <2>1. DOMAIN taken = 1 .. Len(taken) /\ Len(taken) \in Nat
    OBVIOUS
  <2>2. ASSUME NEW c \in Wire, c.src = m.src, c.seq <= n PROVE c # m /\ c.seq <= n + 1
    <3>1. c.seq \in Nat
      BY DEF Wire
    <3> QED
      BY <2>2, <3>1
  <2>3. ASSUME NEW i \in 1 .. Len(taken)
        PROVE  taken[i] # m /\ (taken[i].src = m.src => taken[i].inc = 0 /\ taken[i].seq <= n + 1)
    <3>1. taken[i] \in Wire
      OBVIOUS
    <3> QED
      BY <2>2, <3>1, Zenon DEF OnceTaken
  <2>4. ASSUME NEW c \in shed PROVE c # m /\ (c.src = m.src => c.seq <= n + 1)
    <3>1. c \in Wire
      OBVIOUS
    <3> QED
      BY <2>2, <3>1, Zenon DEF OnceTaken
  <2>5. m.seq <= n + 1
    OBVIOUS
  <2>6. CASE taken' = Append(taken, m) /\ shed' = shed
    <3> DEFINE N == Len(taken) + 1
    <3>1. /\ DOMAIN taken' = 1 .. Len(taken') /\ Len(taken') = N
          /\ \A i \in 1 .. Len(taken) : taken'[i] = taken[i]
          /\ taken'[N] = m
      BY <2>6
    <3>2. /\ \A i \in 1 .. Len(taken') : i \in 1 .. Len(taken) \/ i = N
          /\ \A i, j \in 1 .. Len(taken') : i < j => i \in 1 .. Len(taken)
      BY <2>1, <3>1, NextIndex, Zenon
    <3> HIDE DEF N
    <3>3. DeliveredOnce'
      <4>1. \A i \in 1 .. Len(taken) : taken[i] # m
        BY <2>3, Zenon
      <4>2. \A i, j \in 1 .. Len(taken) : taken[i] = taken[j] => i = j
        BY <2>1, Zenon DEF DeliveredOnce
      <4> SUFFICES ASSUME NEW i \in 1 .. Len(taken'), NEW j \in 1 .. Len(taken'), taken'[i] = taken'[j]
                   PROVE  i = j
        BY <3>1, Zenon DEF DeliveredOnce
      <4>3. \A k \in 1 .. Len(taken) : taken'[k] # taken'[N]
        BY <3>1, <4>1, Zenon
      <4>4. CASE i \in 1 .. Len(taken) /\ j \in 1 .. Len(taken)
        <5>1. taken'[i] = taken[i]
          BY <3>1, <4>4
        <5>2. taken'[j] = taken[j]
          BY <3>1, <4>4
        <5> QED
          BY <4>2, <4>4, <5>1, <5>2, Zenon
      <4>5. (i \in 1 .. Len(taken) \/ i = N) /\ (j \in 1 .. Len(taken) \/ j = N)
        BY <3>2, Zenon
      <4> QED
        BY <4>3, <4>4, <4>5, Zenon
    <3>4. NotShedAndTaken'
      <4> SUFFICES ASSUME NEW i \in DOMAIN taken' PROVE taken'[i] \notin shed
        BY <2>6, Zenon DEF NotShedAndTaken, Range
      <4>1. \A j \in 1 .. Len(taken) : taken[j] \notin shed
        BY <2>1, Zenon DEF NotShedAndTaken, Range
      <4> QED
        BY <2>4, <3>1, <3>2, <4>1, Zenon
    <3>5. OnceTaken(taken', shed', m.src, n + 1)
      <4>1. ASSUME NEW i \in 1 .. Len(taken'), taken'[i].src = m.src
            PROVE  taken'[i].inc = 0 /\ taken'[i].seq <= n + 1
        <5>1. CASE i = N
          BY <2>5, <3>1, <5>1, Zenon
        <5>2. CASE i \in 1 .. Len(taken)
          <6>1. taken'[i] = taken[i]
            BY <3>1, <5>2, Zenon
          <6> QED
            BY <2>3, <4>1, <5>2, <6>1, Zenon
        <5> QED
          BY <3>2, <5>1, <5>2, Zenon
      <4> QED
        BY <2>4, <2>6, <4>1, Zenon DEF OnceTaken
    <3>6. ASSUME NEW x, NEW k, x # m.src, OnceTaken(taken, shed, x, k)
          PROVE  OnceTaken(taken', shed', x, k)
      <4>1. ASSUME NEW i \in 1 .. Len(taken'), taken'[i].src = x
            PROVE  taken'[i].inc = 0 /\ taken'[i].seq <= k
        <5>1. i # N
          BY <3>1, <3>6, <4>1, Zenon
        <5>2. i \in 1 .. Len(taken)
          BY <3>2, <5>1, Zenon
        <5>3. taken'[i] = taken[i]
          BY <3>1, <5>2, Zenon
        <5> QED
          BY <3>6, <4>1, <5>2, <5>3, Zenon DEF OnceTaken
      <4> QED
        BY <2>6, <3>6, <4>1, Zenon DEF OnceTaken
    <3>7. StreamOrder'
      <4>1. \A i, j \in 1 .. Len(taken') : i < j => i \in 1 .. Len(taken)
        BY <3>2, Zenon
      <4>2. \A i \in 1 .. Len(taken) : Stream(taken[i]) = Stream(m) => taken[i].src = m.src
        BY DEF Stream
      <4> SUFFICES ASSUME NEW i \in 1 .. Len(taken'), NEW j \in 1 .. Len(taken'), i < j,
                          Stream(taken'[i]) = Stream(taken'[j])
                   PROVE  \/ taken'[i].inc < taken'[j].inc
                          \/ taken'[i].inc = taken'[j].inc /\ taken'[i].seq <= taken'[j].seq
        BY <3>1, Zenon DEF StreamOrder
      <4>3. i \in 1 .. Len(taken) /\ taken'[i] = taken[i]
        BY <3>1, <4>1, Zenon
      <4>4. CASE j = N
        <5>1. taken'[j] = m
          BY <3>1, <4>4, Zenon
        <5>2. taken[i].src = m.src
          BY <4>2, <4>3, <5>1, Zenon
        <5>3. taken[i].inc = 0 /\ taken[i].seq <= n + 1
          BY <2>3, <4>3, <5>2, Zenon
        <5> QED
          BY <4>3, <5>1, <5>3, Zenon
      <4>5. CASE j \in 1 .. Len(taken)
        <5>1. taken'[j] = taken[j]
          BY <3>1, <4>5, Zenon
        <5>2. Stream(taken[i]) = Stream(taken[j]) /\ i \in DOMAIN taken /\ j \in DOMAIN taken
          BY <2>1, <4>3, <4>5, <5>1, Zenon
        <5>3. \/ taken[i].inc < taken[j].inc
              \/ taken[i].inc = taken[j].inc /\ taken[i].seq <= taken[j].seq
          BY <5>2, Zenon DEF StreamOrder
        <5> QED
          BY <4>3, <5>1, <5>3, Zenon
      <4> QED
        BY <3>2, <4>4, <4>5, Zenon
    <3> QED
      BY <3>3, <3>4, <3>5, <3>6, <3>7, Zenon
  <2>7. CASE taken' = taken /\ shed' = shed \cup {m}
    <3>1. DeliveredOnce'
      BY <2>7, Zenon DEF DeliveredOnce
    <3>2. NotShedAndTaken'
      <4> SUFFICES ASSUME NEW i \in DOMAIN taken PROVE taken[i] \notin shed \cup {m}
        BY <2>7, Zenon DEF NotShedAndTaken, Range
      <4> QED
        BY <2>1, <2>3, Zenon DEF NotShedAndTaken, Range
    <3>3. OnceTaken(taken', shed', m.src, n + 1)
      BY <2>3, <2>4, <2>5, <2>7, Zenon DEF OnceTaken
    <3>4. \A x, k : x # m.src /\ OnceTaken(taken, shed, x, k) => OnceTaken(taken', shed', x, k)
      BY <2>7, Zenon DEF OnceTaken
    <3>5. StreamOrder'
      BY <2>7, Zenon DEF StreamOrder
    <3> QED
      BY <3>1, <3>2, <3>3, <3>4, <3>5, Zenon
  <2> QED
    BY <2>6, <2>7, Zenon
\* An answer is sent.
<1>OnceReplied.
    Inv => \A s \in Srcs : \A type \in Kinds : \A f :
             f.inc \in 0 .. MaxRestart /\ f.seq \in 0 .. MaxSeq /\ Reply(s, type, f) => RepliedWith(s, f.seq)
  <2> SUFFICES ASSUME Inv, NEW s \in Srcs, NEW type \in Kinds, NEW f,
                      f.inc \in 0 .. MaxRestart, f.seq \in 0 .. MaxSeq, Reply(s, type, f)
               PROVE  RepliedWith(s, f.seq)
    BY Zenon
  <2>1. /\ Len(toPeer'[s]) = Len(toPeer[s]) + 1 /\ Len(toPeer[s]) \in Nat
        /\ \A k \in 1 .. Len(toPeer'[s]) :
             \/ k \in 1 .. Len(toPeer[s]) /\ toPeer'[s][k] = toPeer[s][k]
             \/ toPeer'[s][k].type = type /\ toPeer'[s][k].inc = f.inc /\ toPeer'[s][k].seq = f.seq
        /\ \A x \in Srcs : x # s => toPeer'[x] = toPeer[x]
    BY Replied, Zenon
  <2> QED
    BY <2>1, Zenon DEF RepliedWith
\* The host accepts a frame, or the engine sheds it, and acknowledges it.
<1>OnceConfirm.
    ASSUME Inv, Inv', OnceInv, NEW h \in Blocks, Offset(h) # 0, NEW f, f = queue[h][Offset(h)],
           f.src # Local, rx_remove_at(h), Reply(f.src, "ack", f), Stamp(f),
           UNCHANGED <<peer, toEngine, budget>>,
           \/ taken' = Append(taken, Msg(f)) /\ shed' = shed
           \/ taken' = taken /\ shed' = shed \cup {Msg(f)}
    PROVE  OnceInv'
  <2> USE <1>OnceConfirm
  <2> DEFINE m == Msg(f)
             s == f.src
             n == Last(map, s)
  <2>1. m.src = s /\ m.inc = f.inc /\ m.seq = f.seq
    BY MsgIs, Zenon
  <2>2. m \in Wire /\ Offset(h) \in 1 .. Len(queue[h])
    BY AnsweredIs, Removed, Zenon
  <2>3. s \in Srcs /\ f.inc \in 0 .. MaxRestart /\ f.seq \in 0 .. MaxSeq
    <3>1. m.src \in Srcs /\ m.inc \in 0 .. MaxRestart /\ m.seq \in 0 .. MaxSeq
      BY <2>2, WireIs, Zenon
    <3> QED
      BY <2>1, <3>1, Zenon
  <2>4. n \in Nat
    BY <1>LastIs, Zenon DEF Inv
  <2>5. OnceOf(s, n)
    BY <2>3, Zenon DEF OnceInv
  <2>6. ByIp(map, s) # 0 /\ f.inc = 0 /\ f.seq = n + 1 /\ Ahead(toEngine, peer, s, n)
    BY <2>2, <2>5, Zenon DEF OnceOf, OnceQueued
  <2>7. MapOK(map') /\ Keyed(map)
    BY Zenon DEF Inv, OnceInv
  <2>8. /\ Last(map', s) = n + 1 /\ Keyed(map') /\ \A x : ByIp(map', x) = ByIp(map, x)
        /\ \A x : x # s => Last(map', x) = Last(map, x)
    <3>1. /\ Last(map', f.src) = f.seq /\ Keyed(map')
          /\ \A x : ByIp(map', x) = ByIp(map, x)
          /\ \A x : x # f.src => Last(map', x) = Last(map, x)
      BY <2>3, <2>6, <2>7, <1>LastStamped, Zenon
    <3> QED
      BY <2>6, <3>1, Zenon
  <2> HIDE DEF m, s, n
  <2>9. \A g \in Blocks : \A k \in 1 .. Len(queue'[g]) : queue'[g][k].src # s
    <3>1. \A x \in Blocks : \A z \in 1 .. Len(queue'[x]) :
            /\ Was(h, x, z) \in 1 .. Len(queue[x]) /\ queue'[x][z] = queue[x][Was(h, x, z)]
            /\ x = h => Was(h, x, z) # Offset(h)
      BY RemovedFrom, Zenon
    <3> SUFFICES ASSUME NEW g \in Blocks, NEW k \in 1 .. Len(queue'[g]), queue'[g][k].src = s
                 PROVE  FALSE
      BY Zenon
    <3>2. PICK j \in 1 .. Len(queue[g]) : queue'[g][k] = queue[g][j] /\ (g = h => j # Offset(h))
      BY <3>1, Zenon
    <3>3. queue[g][j].src \in Srcs /\ queue[g][j].src = queue[h][Offset(h)].src
      <4>1. queue[g][j].src = s
        BY <3>2, Zenon
      <4> QED
        BY <2>3, <4>1, Zenon DEF s
    <3>4. g = h /\ j = Offset(h)
      <4>1. OnceAlone(queue)
        BY Zenon DEF OnceInv
      <4>2. Alone(queue, g, j, h, Offset(h))
        BY <2>2, <4>1, Zenon DEF OnceAlone
      <4> QED
        BY <3>3, <4>2, Zenon DEF Alone
    <3> QED
      BY <3>2, <3>4, Zenon
  <2>10. Within(queue', queue) /\ \A g \in Blocks : Len(queue'[g]) \in Nat
    <3>1. queue' \in [Blocks -> Seq(QFrames)]
      BY Zenon DEF Inv, BlocksOK
    <3>2. \A g \in Blocks : Len(queue'[g]) \in Nat
      BY <3>1
    <3> QED
      BY <3>2, WithinRemoved, Zenon
  <2>11. OnceAlone(queue')
    BY <2>10, <1>OnceWithin, Zenon DEF OnceInv
  <2>12. /\ DeliveredOnce' /\ NotShedAndTaken' /\ StreamOrder'
         /\ OnceTaken(taken', shed', s, n + 1)
         /\ \A x, k : x # s /\ OnceTaken(taken, shed, x, k) => OnceTaken(taken', shed', x, k)
    <3>1. taken \in Seq(Wire) /\ shed \subseteq Wire /\ DeliveredOnce /\ NotShedAndTaken /\ StreamOrder
      BY Zenon DEF Inv, HistoryOK, OnceInv
    <3>2. m.inc = 0 /\ m.seq = n + 1 /\ OnceTaken(taken, shed, m.src, n)
      BY <2>1, <2>5, <2>6, Zenon DEF OnceOf
    <3>3. \/ taken' = Append(taken, m) /\ shed' = shed
          \/ taken' = taken /\ shed' = shed \cup {m}
      BY Zenon DEF m
    <3>4. /\ DeliveredOnce' /\ NotShedAndTaken' /\ StreamOrder'
          /\ OnceTaken(taken', shed', m.src, n + 1)
          /\ \A x, k : x # m.src /\ OnceTaken(taken, shed, x, k) => OnceTaken(taken', shed', x, k)
      BY <2>2, <2>4, <3>1, <3>2, <3>3, <1>OnceHistory, Zenon
    <3> QED
      BY <2>1, <3>4, Zenon
  <2>13. /\ \A j \in 1 .. Len(toPeer'[s]) :
              \/ j \in 1 .. Len(toPeer[s]) /\ toPeer'[s][j] = toPeer[s][j]
              \/ toPeer'[s][j].seq = n + 1
         /\ \A y \in Srcs : y # s => toPeer'[y] = toPeer[y]
    <3>1. Reply(s, "ack", f) /\ "ack" \in Kinds
      BY WireIs, Zenon DEF s
    <3>2. RepliedWith(s, f.seq)
      BY <2>3, <3>1, <1>OnceReplied, Zenon
    <3>3. RepliedWith(s, n + 1)
      BY <2>6, <3>2, Zenon
    <3> QED
      BY <3>3, Zenon DEF RepliedWith
  <2>14. /\ OnceNet(toEngine', peer', s, n + 1) /\ OnceQueued(queue', map', toEngine', peer', s, n + 1)
         /\ OnceAcked(toPeer', s, n + 1) /\ OnceTaken(taken', shed', s, n + 1)
    <3>1. OnceNet(toEngine', peer', s, n + 1)
      <4>1. OnceNet(toEngine, peer, s, n)
        BY <2>5, Zenon DEF OnceOf
      <4>2. OnceNet(toEngine, peer, s, n + 1)
        BY <2>6, <4>1, Zenon DEF OnceNet, Ahead
      <4> QED
        BY <4>2, Zenon
    <3>2. OnceQueued(queue', map', toEngine', peer', s, n + 1)
      BY <2>9, Zenon DEF OnceQueued
    <3>3. OnceAcked(toPeer', s, n + 1)
      <4> SUFFICES ASSUME NEW j \in 1 .. Len(toPeer'[s]), toPeer'[s][j].type = "ack"
                   PROVE  toPeer'[s][j].seq <= n + 1
        BY Zenon DEF OnceAcked
      <4>1. CASE j \in 1 .. Len(toPeer[s]) /\ toPeer'[s][j] = toPeer[s][j]
        <5>1. toPeer[s][j].seq <= n
          BY <2>5, <4>1, Zenon DEF OnceOf, OnceAcked
        <5>2. toPeer[s] \in Seq(Answers)
          BY <2>3, Zenon DEF Inv, OutOK
        <5>3. toPeer[s][j] \in Answers
          BY <4>1, <5>2
        <5>4. toPeer[s][j].seq \in Nat
          BY <5>3, Consts DEF Answers
        <5> QED
          BY <2>4, <4>1, <5>1, <5>4
      <4>2. CASE toPeer'[s][j].seq = n + 1
        BY <2>4, <4>2
      <4> QED
        BY <2>13, <4>1, <4>2, Zenon
    <3> QED
      BY <2>12, <3>1, <3>2, <3>3, Zenon
  <2>15. ASSUME NEW x \in Srcs, x # s, NEW k, k = Last(map, x) PROVE OnceOf(x, k)'
    <3>1. OnceOf(x, k)
      BY <2>15, Zenon DEF OnceInv
    <3>2. OnceNet(toEngine', peer', x, k)
      BY <3>1, Zenon DEF OnceOf
    <3>3. OnceQueued(queue', map', toEngine', peer', x, k)
      <4>1. OnceQueued(queue', map, toEngine, peer, x, k)
        BY <2>10, <3>1, <1>OnceWithin, Zenon DEF OnceOf
      <4> QED
        BY <2>8, <4>1, Zenon DEF OnceQueued
    <3>4. OnceAcked(toPeer', x, k)
      BY <2>13, <2>15, <3>1, Zenon DEF OnceOf, OnceAcked
    <3>5. OnceTaken(taken', shed', x, k)
      BY <2>12, <2>15, <3>1, Zenon DEF OnceOf
    <3> QED
      BY <3>2, <3>3, <3>4, <3>5, Zenon DEF OnceOf
  <2>16. ASSUME NEW x \in Srcs PROVE OnceOf(x, Last(map, x))'
    <3>1. CASE x = s
      BY <2>8, <2>14, <3>1, Zenon DEF OnceOf
    <3>2. CASE x # s
      BY <2>8, <2>15, <3>2, Zenon
    <3> QED
      BY <3>1, <3>2, Zenon
  <2> QED
    BY <2>8, <2>11, <2>12, <2>16, Zenon DEF OnceInv
\* The host answers a frame.
<1>OnceCollect.
    ASSUME Inv, Inv', OnceInv, NEW h \in Blocks, NEW accept, aun_rx_collect(h, accept)
    PROVE  OnceInv'
  <2> USE <1>OnceCollect
  <2> DEFINE f == queue[h][Offset(h)]
  <2>1. /\ UNCHANGED <<peer, toEngine, budget>>
        /\ \/ UNCHANGED <<map, queue, toPeer, taken, shed>>
           \/ Offset(h) # 0 /\ rx_remove_at(h) /\ UNCHANGED <<map, toPeer, taken, shed>>
           \/ /\ Offset(h) # 0 /\ f.src # Local /\ rx_remove_at(h)
              /\ Reply(f.src, "ack", f) /\ Stamp(f)
              /\ \/ taken' = Append(taken, Msg(f)) /\ shed' = shed
                 \/ taken' = taken /\ shed' = shed \cup {Msg(f)}
           \/ /\ Offset(h) # 0 /\ CollectDefer(h, f) /\ UNCHANGED <<map, toPeer, taken, shed>>
    BY CollectCases, Zenon DEF history
  <2>2. CASE UNCHANGED <<map, queue, toPeer, taken, shed>>
    BY <2>1, <2>2, WithinSame, <1>OnceQuiet, Zenon
  <2>3. CASE Offset(h) # 0 /\ rx_remove_at(h) /\ UNCHANGED <<map, toPeer, taken, shed>>
    BY <2>1, <2>3, WithinRemoved, <1>OnceQuiet, Zenon
  <2>4. CASE /\ Offset(h) # 0 /\ f.src # Local /\ rx_remove_at(h)
             /\ Reply(f.src, "ack", f) /\ Stamp(f)
             /\ \/ taken' = Append(taken, Msg(f)) /\ shed' = shed
                \/ taken' = taken /\ shed' = shed \cup {Msg(f)}
    BY <2>1, <2>4, <1>OnceConfirm, Zenon
  <2>5. CASE Offset(h) # 0 /\ CollectDefer(h, f) /\ UNCHANGED <<map, toPeer, taken, shed>>
    BY <2>1, <2>5, WithinRefused, <1>OnceQuiet, Zenon
  <2> QED
    BY <2>1, <2>2, <2>3, <2>4, <2>5, Zenon
\* No step is left to the administrator.
<1>OnceHost.
    ASSUME Inv, Inv', OnceInv, Host
    PROVE  OnceInv'
  <2> USE <1>OnceHost
  <2>1. ~Admin
    <3>1. budget.admin = 0
      BY Zenon DEF OnceInv
    <3> QED
      BY <3>1 DEF Admin
  <2>2. ASSUME NEW h \in Blocks, aun_rx_poll(h) \/ aun_rx_ready(h) PROVE OnceInv'
    <3>1. UNCHANGED <<map, peer, toEngine, toPeer, taken, shed, budget, queue>>
      BY <2>2, Zenon DEF aun_rx_poll, aun_rx_ready, netVars, history
    <3> QED
      BY <3>1, WithinSame, <1>OnceQuiet, Zenon
  <2>3. ASSUME NEW h \in Blocks, NEW accept \in BOOLEAN, aun_rx_collect(h, accept) PROVE OnceInv'
    BY <2>3, <1>OnceCollect, Zenon
  <2> QED
    BY <2>1, <2>2, <2>3, Zenon DEF Host, aun_rx_close, aun_rx_open, aun_map_add, aun_init
\* Peers send, hear and lose datagrams; none gives up or restarts.
<1>OnceNetwork.
    ASSUME ~MayAbandon, Inv, OnceInv, Network
    PROVE  OnceInv'
  <2> USE <1>OnceNetwork
  <2>1. \A s, port, stn : ~PeerAbandon(s) /\ ~PeerRestart(s) /\ ~RxBroadcast(port, stn)
    <3>1. ~(budget.admin > 0)
      BY DEF OnceInv
    <3> QED
      BY <3>1, Zenon DEF PeerAbandon, PeerRestart, RxBroadcast
  <2> QED
    BY <2>1, <1>OnceSend, <1>OnceRecv, <1>OnceLose, Zenon DEF Network
\* Every step keeps OnceInv, when no peer gives a transaction up.
<1>OnceNextInv. ~MayAbandon /\ Apart /\ Inv /\ Inv' /\ OnceInv /\ [Next]_vars => OnceInv'
  <2> SUFFICES ASSUME ~MayAbandon, Apart, Inv, Inv', OnceInv, [Next]_vars PROVE OnceInv'
    OBVIOUS
  <2>1. CASE UNCHANGED vars
    <3>1. UNCHANGED <<map, peer, toEngine, toPeer, taken, shed, budget, queue>>
      BY <2>1, Zenon DEF vars, blockVars, netVars, history
    <3> QED
      BY <3>1, WithinSame, <1>OnceQuiet, Zenon
  <2>2. CASE Engine
    BY <2>2, <1>OnceRxData, Zenon DEF Engine
  <2>3. CASE Tick
    <3>1. UNCHANGED <<map, peer, toEngine, toPeer, taken, shed, budget, queue>>
      BY <2>3, Zenon DEF Tick, netVars, history
    <3> QED
      BY <3>1, WithinSame, <1>OnceQuiet, Zenon
  <2> QED
    BY <2>1, <2>2, <2>3, <1>OnceHost, <1>OnceNetwork, Zenon DEF Next
\* Nothing is confirmed at the start.
<1>OnceInit. MaxAdmin = 0 /\ Apart /\ Inv /\ Init => OnceInv
  <2> SUFFICES ASSUME MaxAdmin = 0, Apart, Inv, Init PROVE OnceInv
    OBVIOUS
  <2>1. /\ queue = [h \in Blocks |-> << >>] /\ toEngine = [s \in Srcs |-> << >>]
        /\ toPeer = [s \in Srcs |-> << >>] /\ taken = << >> /\ shed = {}
    BY Zenon DEF Init
  <2>2. budget.admin = 0
    BY DEF Init
  <2>3. \A s \in Srcs : peer[s].inc = 0 /\ peer[s].seq = 1
    BY DEF Init
  <2>4. /\ Len(map) = Len(StaticMap)
        /\ \A i \in 1 .. Len(map) :
             map[i].stn = StaticMap[i][1] /\ map[i].src = StaticMap[i][2] /\ map[i].last = 0
    <3>1. map = [i \in 1 .. Len(StaticMap) |->
                   [stn |-> StaticMap[i][1], src |-> StaticMap[i][2], last |-> 0]]
      BY Zenon DEF Init
    <3>2. Len(StaticMap) \in Nat
      <4>1. StaticMap \in Seq(Stns \X Srcs)
        BY AunRxAssumption, Zenon DEF AunRxAssumption
      <4> QED
        BY <4>1
    <3>3. Len(map) = Len(StaticMap)
      BY <3>1, <3>2
    <3> QED
      BY <3>1, <3>3
  <2>5. Keyed(map)
    <3> SUFFICES ASSUME NEW i \in 1 .. Len(map), NEW s \in Srcs, map[i].stn = Learn[s]
                 PROVE  map[i].src = s
      BY Zenon DEF Keyed
    <3>1. i \in 1 .. Len(StaticMap) /\ StaticMap[i][1] = Learn[s] /\ map[i].src = StaticMap[i][2]
      BY <2>4, Zenon
    <3> QED
      BY <3>1, Zenon DEF Apart
  <2>6. ASSUME NEW s \in Srcs PROVE Last(map, s) = 0
    <3>1. map \in Seq(MapEntries)
      BY Zenon DEF Inv, MapOK
    <3>2. ByIp(map, s) = 0 \/ ByIp(map, s) \in 1 .. Len(map)
      BY <3>1, ByIpIs, Zenon
    <3> QED
      BY <2>4, <3>2, Zenon DEF Last
  <2>7. /\ \A h \in Blocks : \A i \in 1 .. Len(queue[h]) : FALSE
        /\ \A s \in Srcs : \A k \in 1 .. Len(toEngine[s]) : FALSE
        /\ \A s \in Srcs : \A k \in 1 .. Len(toPeer[s]) : FALSE
        /\ \A i \in 1 .. Len(taken) : FALSE
        /\ \A i \in DOMAIN taken : FALSE
    BY <2>1
  <2>8. ASSUME NEW s \in Srcs PROVE OnceOf(s, 0)
    <3>1. peer[s].inc = 0 /\ peer[s].seq \in {0, 0 + 1}
      BY <2>3
    <3>2. OnceNet(toEngine, peer, s, 0)
      BY <2>7, <3>1, Zenon DEF OnceNet
    <3> QED
      BY <2>1, <2>7, <3>2, Zenon DEF OnceOf, OnceQueued, OnceAcked, OnceTaken
  <2>9. DeliveredOnce /\ NotShedAndTaken /\ StreamOrder /\ OnceAlone(queue)
    BY <2>1, <2>7, Zenon DEF DeliveredOnce, NotShedAndTaken, StreamOrder, OnceAlone
  <2> QED
    BY <2>2, <2>5, <2>6, <2>8, <2>9, Zenon DEF OnceInv
<1> QED
  BY <1>OnceInit, <1>OnceNextInv, Zenon

-----------------------------------------------------------------------------
(* The theorems.                                                             *)

\* Well-founded relations, for the order of the naturals.
WF == INSTANCE WellFoundedInduction

\* The naturals are well-ordered.
LEMMA NatWellOrdered == WellOrdered
<1> SUFFICES ASSUME NEW S \in SUBSET Nat, S # {} PROVE \E x \in S : \A y \in S : x <= y
  BY Zenon DEF WellOrdered
<1>1. PICK x \in S : \A y \in S : <<y, x>> \notin WF!OpToRel(<, Nat)
  BY WF!NatLessThanWellFounded, WF!WFMin, Zenon
<1>2. WF!OpToRel(<, Nat) = {ss \in Nat \X Nat : ss[1] < ss[2]}
  BY Zenon DEF WF!OpToRel
<1>3. \A y \in S : <<y, x>> \notin {ss \in Nat \X Nat : ss[1] < ss[2]}
  BY <1>1, <1>2, Zenon
<1>4. ASSUME NEW y \in S PROVE x <= y
  <2>1. y \in Nat /\ x \in Nat /\ <<y, x>> \in Nat \X Nat
    BY Zenon
  <2>2. <<y, x>>[1] = y /\ <<y, x>>[2] = x
    BY Zenon
  <2>3. ~(y < x)
    BY <1>3, <2>1, <2>2, Zenon
  <2> QED
    BY <2>1, <2>3
<1> QED
  BY <1>4, Zenon

\* The invariant holds throughout.
THEOREM InvHolds == Spec => []Inv
<1>1. (Init => Inv) /\ (Inv /\ [Next]_vars => Inv')
  BY NatWellOrdered, InvInductive, Zenon
<1> QED
  BY <1>1, PTL DEF Spec

\* What the host reads in its buffer is the frame the next RX_DONE answers: no
\* datagram, deferral, reopened or closed block and no INIT moves the queue under a
\* presented frame (aun_rx_poll, aun_rx_collect, rx_remove_at).
THEOREM PresentedStableHolds == Spec => []PresentedStable
<1>1. Inv => PresentedStable
  BY InvSays, Zenon
<1> QED
  BY <1>1, InvHolds, PTL

\* The defer and condemn tables hold a stream at most once, and a live deferral is
\* of a stream with a queued frame that is not the presented one (defer_set,
\* condemn_set, rx_first_eligible).
THEOREM TablesSoundHolds == Spec => []TablesSound
<1>1. Inv => TablesSound
  BY InvSays, Zenon
<1> QED
  BY <1>1, InvHolds, PTL

\* No table, queue or map outgrows its array, and no frame is refused more often
\* than the larger reject budget, the one of a stream that is not condemned.
THEOREM TypeOKHolds ==
  ASSUME CondemnRetries <= DeferRetries
  PROVE  Spec => []TypeOK
<1>1. Inv => TypeOK
  BY InvSays, Zenon
<1> QED
  BY <1>1, InvHolds, PTL

\* As long as no peer has restarted its sequence numbers, an ACK on the wire answers
\* a message the host accepted or one shed after its reject budget, the re-ACK of a
\* retransmission included (aun_udp_input, aun_rx_collect, send_ack_nak).
THEOREM AckTruthfulHolds == Spec => []AckTruthfulUnrestarted
<1>1. /\ Init => AckInv
      /\ Inv /\ Inv' /\ AckInv /\ [Next]_vars => AckInv'
      /\ Inv /\ AckInv => AckTruthfulUnrestarted
  BY NatWellOrdered, AckInductive, Zenon
<1> QED
  BY <1>1, InvHolds, PTL DEF Spec

\* With one receive block, the messages of a stream reach the host in the order they
\* were sent, whatever is lost, retransmitted, deferred, shed or restarted in between
\* (rx_first_eligible, aun_rx_collect).
THEOREM StreamOrderHolds ==
  ASSUME \A g, h \in Blocks : g = h
  PROVE  Spec => []StreamOrder
<1>1. /\ Init => OrderInv
      /\ Inv /\ OrderInv /\ [Next]_vars => OrderInv'
  BY NatWellOrdered, OrderInductive, Zenon
<1>2. OrderInv => StreamOrder
  BY Zenon DEF OrderInv
<1> QED
  BY <1>1, <1>2, InvHolds, PTL DEF Spec

\* With peers that give no message up, and neither an administrative command nor a
\* restart, no message reaches the host twice, none that was shed reaches it at all,
\* and the messages of a stream reach it in order through any number of blocks
\* (rx_seq_pending, aun_rx_collect, the last_rx_seq test of aun_udp_input).
THEOREM DeliveredOnceHolds ==
  ASSUME ~MayAbandon, MaxAdmin = 0, Apart
  PROVE  Spec => [](DeliveredOnce /\ NotShedAndTaken /\ StreamOrder)
<1>1. /\ Inv /\ Init => OnceInv
      /\ Inv /\ Inv' /\ OnceInv /\ [Next]_vars => OnceInv'
  BY NatWellOrdered, OnceInductive, Zenon
<1>2. OnceInv => DeliveredOnce /\ NotShedAndTaken /\ StreamOrder
  BY Zenon DEF OnceInv
<1> QED
  BY <1>1, <1>2, InvHolds, PTL DEF Spec
=============================================================================
