--------------------------- MODULE NetTnfsProofs ---------------------------
(***************************************************************************)
(* A TNFS session implements RemoteCalls, for any number of transactions,  *)
(* resends, busy answers and datagrams in the network.                     *)
(***************************************************************************)
EXTENDS NetTnfs, SequenceTheorems, TLAPS

\* The types of the messages and of the session.
Ops      == {"mount", "open", "read", "write", "close", "umount"}
Requests == [op : Ops, seq : Nat, tid : Nat]
Replies  == [op : Ops, seq : Nat, connid : Nat, status : {"ok", "error", "eagain"},
             tid : Nat]
Handles  == [phase : Phases, op : Ops, seq : Nat, connid : Nat, retries : Nat,
             eagain : Nat, timer : Nat]

\* The number on the wire is the transaction's: it does not wrap.
Shape ==
  /\ h \in Handles /\ tid \in 1 .. MaxTid /\ h.seq = tid
  /\ toSrv \in Seq(Requests) /\ toCli \in Seq(Replies) /\ ring \in Seq(Replies)
  /\ srv \in [seq : Nat, reply : Replies \cup {None}]
  /\ ran \in Seq(Nat) /\ result \in [1 .. MaxTid -> Int]

\* The session has said farewell.
Closed == h.phase = "closed"

\* A request is of a transaction, or a farewell of the closed handle.
Proper(q) ==
  \/ q.tid = q.seq /\ 1 <= q.seq /\ q.seq <= tid
  \/ q.tid = 0 /\ q.seq > tid /\ Closed

\* Requests in the order of their numbers, none older than n.
InOrder(c, n) ==
  /\ \A i \in 1 .. Len(c) : n <= c[i].seq
  /\ \A i, j \in 1 .. Len(c) : i <= j => c[i].seq <= c[j].seq

\* The server is not ahead of the requests in the network.
RequestsInOrder ==
  /\ \A i \in 1 .. Len(toSrv) : Proper(toSrv[i])
  /\ InOrder(toSrv, srv.seq)
  /\ ~Closed => srv.seq <= tid

\* What the server has run is not past its last number; a farewell is run
\* last.
RanInOrder ==
  \A i \in 1 .. Len(ran) : ran[i] <= srv.seq /\ (ran[i] = 0 => srv.seq > tid)

\* The server has run transaction t.
HasRun(t) == \E i \in 1 .. Len(ran) : ran[i] = t

\* A reply to an open handle names its own transaction, and one that is not
\* "busy" is from a server that has run it.
Truthful(d) == d.tid = d.seq /\ (d.status # "eagain" => HasRun(d.tid))

\* So are the server's last reply and every reply under way or in the ring.
RepliesTruthful ==
  /\ srv.seq # 0 => srv.reply \in Replies
  /\ ~Closed =>
       /\ srv.seq # 0 => Truthful(srv.reply)
       /\ \A i \in 1 .. Len(toCli) : Truthful(toCli[i])
       /\ \A i \in 1 .. Len(ring) : Truthful(ring[i])

\* A transaction is open until the Beeb is told how it ended.
ResultsKnown ==
  /\ \A t \in 1 .. MaxTid : t > tid => result[t] = NotYet
  /\ h.phase \in Busy => result[tid] = NotYet
  /\ h.phase \in {"ready", "failed"} => result[tid] # NotYet

\* The inductive invariant.
CallsInv ==
  Shape /\ RequestsInOrder /\ RanInOrder /\ RepliesTruthful /\ ResultsKnown

-----------------------------------------------------------------------------
(* Lemmas about numbers and channels. *)

\* A number below the modulus is its own residue.
LEMMA SmallMod ==
  ASSUME NEW a \in Nat, NEW m \in Nat, a < m
  PROVE  a % m = a
  BY SMT

\* A channel after one more datagram: as it was, or with the datagram last.
LEMMA SentProperties ==
  ASSUME NEW S, NEW c \in Seq(S), NEW d \in S
  PROVE  /\ Sent(c, d) \in Seq(S)
         /\ \/ Sent(c, d) = c
            \/ /\ Len(Sent(c, d)) = Len(c) + 1
               /\ \A i \in 1 .. Len(c) : Sent(c, d)[i] = c[i]
               /\ Sent(c, d)[Len(c) + 1] = d
  BY DEF Sent

\* A channel after its first datagram is taken.
LEMMA TailProperties ==
  ASSUME NEW S, NEW c \in Seq(S), c # << >>
  PROVE  /\ Tail(c) \in Seq(S) /\ Len(c) \in Nat /\ Len(c) >= 1
         /\ Head(c) = c[1] /\ Head(c) \in S
         /\ Len(Tail(c)) = Len(c) - 1
         /\ \A i \in 1 .. Len(Tail(c)) : i + 1 \in 1 .. Len(c) /\ Tail(c)[i] = c[i + 1]
  <1>1. Len(c) \in Nat /\ Len(c) >= 1 /\ c \in [1 .. Len(c) -> S]
    BY EmptySeq, LenProperties
  <1>. QED  BY <1>1, HeadTailProperties

\* What is sent with the highest number keeps the order.
LEMMA SentInOrder ==
  ASSUME NEW c \in Seq(Requests), NEW n \in Nat, NEW q \in Requests,
         InOrder(c, n), n <= q.seq,
         \A i \in 1 .. Len(c) : c[i].seq <= q.seq
  PROVE  InOrder(Sent(c, q), n)
  <1>1. Len(c) \in Nat /\ \A i \in 1 .. Len(c) : c[i] \in Requests
    BY LenProperties
  <1>2. /\ q.seq \in Nat
        /\ \A i \in 1 .. Len(c) : c[i].seq \in Nat
    BY <1>1 DEF Requests
  <1>3. CASE Sent(c, q) = c
    BY <1>3
  <1>4. CASE /\ Len(Sent(c, q)) = Len(c) + 1
             /\ \A i \in 1 .. Len(c) : Sent(c, q)[i] = c[i]
             /\ Sent(c, q)[Len(c) + 1] = q
    <2>. DEFINE s == Sent(c, q)
    <2>1. /\ Len(s) = Len(c) + 1
          /\ \A i \in 1 .. Len(c) : s[i].seq = c[i].seq
          /\ s[Len(c) + 1].seq = q.seq
      BY <1>4
    <2>. HIDE DEF s
    <2>2. \A i \in 1 .. Len(s) : i \in 1 .. Len(c) \/ i = Len(c) + 1
      BY <1>1, <2>1
    <2>3. \A i \in 1 .. Len(s) : n <= s[i].seq
      BY <2>1, <2>2 DEF InOrder
    <2>4. ASSUME NEW i \in 1 .. Len(s), NEW j \in 1 .. Len(s), i <= j
          PROVE  s[i].seq <= s[j].seq
      <3>1. CASE j = Len(c) + 1
        BY <1>2, <2>1, <2>2, <3>1
      <3>2. CASE j \in 1 .. Len(c)
        <4>1. i \in 1 .. Len(c)
          BY <1>1, <2>4, <3>2, <2>1
        <4>. QED  BY <2>1, <2>4, <3>2, <4>1 DEF InOrder
      <3>. QED  BY <2>2, <3>1, <3>2
    <2>5. InOrder(s, n)
      BY <2>3, <2>4 DEF InOrder
    <2>. QED  BY <2>5 DEF s
  <1>. QED  BY <1>3, <1>4, SentProperties

\* What is left behind a request is not older than it.
LEMMA TailInOrder ==
  ASSUME NEW c \in Seq(Requests), NEW n \in Nat, InOrder(c, n), c # << >>
  PROVE  InOrder(Tail(c), n) /\ InOrder(Tail(c), Head(c).seq) /\ n <= Head(c).seq
  <1>. DEFINE t == Tail(c)
  <1>1. /\ Len(c) \in Nat /\ Len(c) >= 1 /\ Head(c) = c[1] /\ Len(t) = Len(c) - 1
        /\ \A i \in 1 .. Len(t) : i + 1 \in 1 .. Len(c) /\ t[i] = c[i + 1]
    BY TailProperties
  <1>. HIDE DEF t
  <1>2. n <= c[1].seq /\ \A i \in 1 .. Len(t) : n <= t[i].seq /\ c[1].seq <= t[i].seq
    <2>1. /\ \A i \in 1 .. Len(c) : n <= c[i].seq
          /\ \A i, j \in 1 .. Len(c) : i <= j => c[i].seq <= c[j].seq
      BY DEF InOrder
    <2>2. 1 \in 1 .. Len(c)
      BY <1>1
    <2>3. ASSUME NEW i \in 1 .. Len(t)
          PROVE  n <= t[i].seq /\ c[1].seq <= t[i].seq
      <3>1. i + 1 \in 1 .. Len(c) /\ t[i] = c[i + 1] /\ 1 <= i + 1
        BY <1>1
      <3>. QED  BY <2>1, <2>2, <3>1
    <2>. QED  BY <2>1, <2>2, <2>3
  <1>3. ASSUME NEW i \in 1 .. Len(t), NEW j \in 1 .. Len(t), i <= j
        PROVE  t[i].seq <= t[j].seq
    <2>1. i + 1 \in 1 .. Len(c) /\ j + 1 \in 1 .. Len(c) /\ i + 1 <= j + 1
      BY <1>1, <1>3
    <2>. QED  BY <1>1, <2>1 DEF InOrder
  <1>4. InOrder(t, n) /\ InOrder(t, c[1].seq)
    BY <1>2, <1>3 DEF InOrder
  <1>. QED  BY <1>1, <1>2, <1>4 DEF t

-----------------------------------------------------------------------------
(* Lemmas about the parts of a step. *)

\* net_udp_pop leaves replies that were in the ring.
LEMMA RestKept ==
  ASSUME ring \in Seq(Replies), ring' = Rest
  PROVE  /\ ring' \in Seq(Replies)
         /\ \A i \in 1 .. Len(ring') : \E j \in 1 .. Len(ring) : ring'[i] = ring[j]
  <1>1. CASE ring = << >>
    BY <1>1 DEF Rest
  <1>2. CASE ring # << >>
    <2>1. ring' = Tail(ring)
      BY <1>2 DEF Rest
    <2>. QED  BY <1>2, <2>1, TailProperties
  <1>. QED  BY <1>1, <1>2

\* Replies stay truthful while only the ring loses some of its own.
LEMMA RepliesStill ==
  ASSUME RepliesTruthful, UNCHANGED <<toCli, srv, ran>>, Closed => Closed',
         \A i \in 1 .. Len(ring') : \E j \in 1 .. Len(ring) : ring'[i] = ring[j]
  PROVE  RepliesTruthful'
  BY DEF RepliesTruthful, Truthful, HasRun

\* Requests stay in order while none is sent or taken.
LEMMA RequestsStill ==
  ASSUME RequestsInOrder, UNCHANGED <<toSrv, srv, tid>>, Closed => Closed'
  PROVE  RequestsInOrder'
  BY DEF RequestsInOrder, Proper

\* net_tnfs_fire and net_tnfs_start: a request with the transaction's number
\* is the youngest.
LEMMA RequestSent ==
  ASSUME CallsInv, NEW q \in Requests, toSrv' = Sent(toSrv, q), UNCHANGED srv,
         ~Closed, ~Closed', tid' \in {tid, tid + 1}, q.tid = tid', q.seq = tid'
  PROVE  toSrv' \in Seq(Requests) /\ RequestsInOrder'
  <1>1. /\ tid \in Nat /\ tid >= 1 /\ tid' \in Nat /\ tid <= tid' /\ srv.seq \in Nat
        /\ toSrv \in Seq(Requests)
    BY NetTnfsAssumption DEF CallsInv, Shape
  <1>2. \A i \in 1 .. Len(toSrv) :
           toSrv[i].tid = toSrv[i].seq /\ 1 <= toSrv[i].seq /\ toSrv[i].seq <= tid
    BY DEF CallsInv, RequestsInOrder, Proper
  <1>3. Len(toSrv) \in Nat /\ \A i \in 1 .. Len(toSrv) : toSrv[i].seq \in Nat
    <2>1. Len(toSrv) \in Nat /\ toSrv \in [1 .. Len(toSrv) -> Requests]
      BY <1>1, LenProperties
    <2>. QED  BY <2>1 DEF Requests
  <1>4. srv.seq <= tid /\ InOrder(toSrv, srv.seq)
    BY DEF CallsInv, RequestsInOrder
  <1>5. \A i \in 1 .. Len(toSrv) : toSrv[i].seq <= q.seq
    BY <1>1, <1>2, <1>3
  <1>6. InOrder(toSrv', srv.seq)
    BY <1>1, <1>4, <1>5, SentInOrder
  <1>7. /\ toSrv' \in Seq(Requests)
        /\ \/ toSrv' = toSrv
           \/ /\ Len(toSrv') = Len(toSrv) + 1
              /\ \A i \in 1 .. Len(toSrv) : toSrv'[i] = toSrv[i]
              /\ toSrv'[Len(toSrv) + 1] = q
    <2>. DEFINE s == Sent(toSrv, q)
    <2>1. /\ s \in Seq(Requests)
          /\ \/ s = toSrv
             \/ /\ Len(s) = Len(toSrv) + 1
                /\ \A i \in 1 .. Len(toSrv) : s[i] = toSrv[i]
                /\ s[Len(toSrv) + 1] = q
      BY <1>1, SentProperties
    <2>2. toSrv' = s
      OBVIOUS
    <2>. HIDE DEF s
    <2>. QED  BY <2>1, <2>2
  <1>8. \A i \in 1 .. Len(toSrv') : toSrv'[i] = q \/ \E j \in 1 .. Len(toSrv) : toSrv'[i] = toSrv[j]
    BY <1>3, <1>7
  <1>9. \A i \in 1 .. Len(toSrv') : Proper(toSrv[i])'
    <2>1. ASSUME NEW i \in 1 .. Len(toSrv')
          PROVE  /\ toSrv'[i].tid = toSrv'[i].seq
                 /\ 1 <= toSrv'[i].seq /\ toSrv'[i].seq <= tid'
      <3>1. CASE toSrv'[i] = q
        BY <1>1, <3>1
      <3>2. ASSUME NEW j \in 1 .. Len(toSrv), toSrv'[i] = toSrv[j]
            PROVE  /\ toSrv'[i].tid = toSrv'[i].seq
                   /\ 1 <= toSrv'[i].seq /\ toSrv'[i].seq <= tid'
        <4>1. toSrv[j].seq \in Nat /\ toSrv[j].seq <= tid /\ 1 <= toSrv[j].seq
          BY <1>2, <1>3
        <4>2. toSrv[j].seq <= tid'
          BY <1>1, <4>1
        <4>. QED  BY <1>2, <3>2, <4>1, <4>2
      <3>. QED  BY <1>8, <3>1, <3>2
    <2>. QED  BY <2>1 DEF Proper
  <1>10. srv'.seq <= tid'
    BY <1>1, <1>4
  <1>. QED  BY <1>6, <1>7, <1>9, <1>10 DEF RequestsInOrder

\* net_tnfs_poll returns NET_OK or NET_ERR_CONN for the transaction that is
\* out; an answer is its own, and from a server that has run it.
LEMMA AnswerOwn ==
  ASSUME CallsInv, h.phase \in Busy, PollOk
  PROVE  Head(ring).tid = tid /\ HasRun(tid) /\ Head(ring).connid \in Nat
  <1>1. ring # << >> /\ Head(ring).seq = tid /\ Head(ring).status # "eagain"
    BY DEF PollOk, Answered, Answers, CallsInv, Shape
  <1>2. Len(ring) \in Nat /\ Len(ring) >= 1 /\ Head(ring) = ring[1] /\ Head(ring) \in Replies
    BY <1>1, TailProperties DEF CallsInv, Shape
  <1>3. ~Closed
    BY DEF Busy, Closed
  <1>4. Truthful(ring[1])
    BY <1>2, <1>3 DEF CallsInv, RepliesTruthful
  <1>. QED  BY <1>1, <1>2, <1>4 DEF Truthful, Replies

\* The constants are numbers.
LEMMA Bounds ==
  /\ TNFS_RETRIES \in Nat /\ TNFS_EAGAIN_MAX \in Nat /\ Timeout \in Nat
  /\ MaxTid \in Nat /\ MaxTid >= 1 /\ SeqMod \in Nat /\ SeqMod > MaxTid + 2
  <1>1. Timeout \in Nat \ {0} /\ MaxTid \in Nat \ {0}
    BY NetTnfsAssumption, Zenon
  <1>2. MaxTid \in Nat /\ MaxTid >= 1 /\ Timeout \in Nat
    BY <1>1
  <1>. QED  BY <1>2, NetTnfsAssumption

\* net_tnfs_start takes the next number, which is the next transaction's.
LEMMA Starts ==
  ASSUME CallsInv, ~Closed, UNCHANGED <<srv, ran>>,
         NEW r \in Handles, r.seq = tid,
         NEW phase \in {"open", "reading", "writing"}, NEW op \in Ops,
         net_tnfs_start(r, phase, op)
  PROVE  /\ tid < MaxTid /\ tid' = tid + 1 /\ tid' \in 1 .. MaxTid
         /\ h' \in Handles /\ h'.seq = tid' /\ h'.phase = phase
         /\ toSrv' \in Seq(Requests) /\ RequestsInOrder' /\ RanInOrder'
  <1>. DEFINE s == Started(r, phase, op)
             q == Request(s, tid + 1)
  <1>1. /\ tid < MaxTid /\ tid' = tid + 1 /\ toSrv' = Sent(toSrv, q) /\ h' = s
    BY DEF net_tnfs_start
  <1>2. tid \in Nat /\ tid >= 1
    BY Bounds DEF CallsInv, Shape
  <1>3. tid' \in 1 .. MaxTid /\ tid + 1 \in Nat /\ tid + 1 < SeqMod
    BY <1>1, <1>2, Bounds
  <1>4. (r.seq + 1) % SeqMod = tid + 1
    BY <1>3, SmallMod, Bounds
  <1>5. s \in Handles /\ s.seq = tid + 1 /\ s.phase = phase
    <2>1. s = [r EXCEPT !.phase = phase, !.op = op, !.seq = tid + 1,
                 !.retries = TNFS_RETRIES, !.eagain = TNFS_EAGAIN_MAX, !.timer = Timeout]
      BY <1>4 DEF Started, Handles
    <2>. HIDE DEF s
    <2>. QED  BY <1>3, <2>1, Bounds DEF Handles, Phases
  <1>. HIDE DEF s
  <1>6. q \in Requests /\ q.tid = tid' /\ q.seq = tid'
    BY <1>1, <1>3, <1>5 DEF Request, Requests, Handles
  <1>7. ~Closed'
    BY <1>1, <1>5 DEF Closed
  <1>. HIDE DEF q
  <1>8. toSrv' \in Seq(Requests) /\ RequestsInOrder'
    BY <1>1, <1>6, <1>7, RequestSent
  <1>9. RanInOrder'
    <2>1. srv.seq <= tid /\ srv.seq \in Nat
      BY DEF CallsInv, RequestsInOrder, Shape
    <2>2. ~(srv.seq > tid)
      BY <2>1, <1>2
    <2>. QED  BY <2>2 DEF CallsInv, RanInOrder
  <1>. QED  BY <1>1, <1>3, <1>5, <1>8, <1>9

\* The transaction that is out ends, and no other.
LEMMA Ends ==
  ASSUME CallsInv, NEW how \in {Failed, tid}, Ended(how)
  PROVE  /\ result' \in [1 .. MaxTid -> Int]
         /\ result'[tid] = how /\ how # NotYet
         /\ \A t \in 1 .. MaxTid : t # tid => result'[t] = result[t]
  <1>1. result \in [1 .. MaxTid -> Int] /\ tid \in 1 .. MaxTid /\ tid \in Nat /\ tid >= 1
    BY Bounds DEF CallsInv, Shape
  <1>2. how \in Int /\ how # NotYet
    BY <1>1 DEF Failed, NotYet
  <1>. QED  BY <1>1, <1>2 DEF Ended

-----------------------------------------------------------------------------
(* The invariant. *)

\* The session starts with its MOUNT out.
LEMMA InitCalls == Init => CallsInv
  <1>. SUFFICES ASSUME Init PROVE CallsInv
    OBVIOUS
  <1>1. Shape
    <2>1. h \in Handles /\ tid \in 1 .. MaxTid /\ h.seq = tid
      BY Bounds DEF Init, Handles, Phases, Ops
    <2>2. ring \in Seq(Replies) /\ toCli \in Seq(Replies) /\ ran \in Seq(Nat)
      BY DEF Init
    <2>3. toSrv \in Seq(Requests)
      BY DEF Init, Requests, Ops
    <2>4. srv \in [seq : Nat, reply : Replies \cup {None}]
      BY DEF Init
    <2>5. result \in [1 .. MaxTid -> Int]
      BY DEF Init, NotYet
    <2>. QED  BY <2>1, <2>2, <2>3, <2>4, <2>5 DEF Shape
  <1>2. RequestsInOrder
    BY DEF Init, RequestsInOrder, InOrder, Proper
  <1>3. RanInOrder /\ RepliesTruthful
    BY DEF Init, RanInOrder, RepliesTruthful
  <1>4. ResultsKnown
    BY Bounds DEF Init, ResultsKnown, NotYet
  <1>. QED  BY <1>1, <1>2, <1>3, <1>4 DEF CallsInv

\* do_url_open ends the MOUNT or the OPEN that is out.
LEMMA OpenStep ==
  ASSUME CallsInv, do_url_open
  PROVE  CallsInv'
  <1>0. /\ h \in Handles /\ tid \in 1 .. MaxTid /\ h.seq = tid /\ tid \in Nat
        /\ ring \in Seq(Replies) /\ h.phase \in Busy /\ ~Closed
    <2>1. h.phase \in Busy /\ ~Closed
      BY DEF do_url_open, Busy, Closed
    <2>. QED  BY <2>1, Bounds DEF CallsInv, Shape
  <1>1. ring' = Rest /\ UNCHANGED <<toCli, srv, ran>>
    BY DEF do_url_open, PollOk, PollGivesUp, Network
  <1>2. ring' \in Seq(Replies) /\ RepliesTruthful'
    BY <1>0, <1>1, RestKept, RepliesStill DEF CallsInv
  <1>3. CASE /\ h' = [h EXCEPT !.phase = "failed"] \/ h' = [h EXCEPT !.phase = "ready"]
             /\ Ended(Failed) \/ (PollOk /\ Ended(Head(ring).tid))
             /\ UNCHANGED <<tid, toSrv>>
    <2>1. h' \in Handles /\ h'.seq = tid /\ h'.phase \in {"ready", "failed"} /\ ~Closed'
      BY <1>0, <1>3 DEF Handles, Phases, Closed
    <2>2. Ended(Failed) \/ Ended(tid)
      BY <1>0, <1>3, AnswerOwn
    <2>3. /\ result' \in [1 .. MaxTid -> Int] /\ result'[tid] # NotYet
          /\ \A t \in 1 .. MaxTid : t # tid => result'[t] = result[t]
      BY <2>2, Ends
    <2>4. ResultsKnown'
      BY <1>0, <1>3, <2>1, <2>3 DEF ResultsKnown, CallsInv, Busy
    <2>5. Shape'
      BY <1>0, <1>1, <1>2, <1>3, <2>1, <2>3 DEF Shape, CallsInv
    <2>6. RequestsInOrder' /\ RanInOrder'
      BY <1>0, <1>1, <1>3, RequestsStill DEF CallsInv, RanInOrder
    <2>. QED  BY <1>2, <2>4, <2>5, <2>6 DEF CallsInv
  <1>4. CASE /\ PollOk /\ Ended(Head(ring).tid)
             /\ net_tnfs_start([h EXCEPT !.connid = Head(ring).connid], "open", "open")
    <2>. DEFINE r == [h EXCEPT !.connid = Head(ring).connid]
    <2>1. Head(ring).tid = tid /\ Head(ring).connid \in Nat
      BY <1>0, <1>4, AnswerOwn
    <2>2. r \in Handles /\ r.seq = tid
      BY <1>0, <2>1 DEF Handles
    <2>3. net_tnfs_start(r, "open", "open") /\ "open" \in Ops
      BY <1>4 DEF Ops
    <2>. HIDE DEF r
    <2>4. /\ tid' = tid + 1 /\ tid' \in 1 .. MaxTid
          /\ h' \in Handles /\ h'.seq = tid' /\ h'.phase = "open"
          /\ toSrv' \in Seq(Requests) /\ RequestsInOrder' /\ RanInOrder'
      BY <1>0, <1>1, <2>2, <2>3, Starts
    <2>5. /\ result' \in [1 .. MaxTid -> Int]
          /\ \A t \in 1 .. MaxTid : t # tid => result'[t] = result[t]
      BY <1>4, <2>1, Ends
    <2>6. ResultsKnown'
      <3>1. \A t \in 1 .. MaxTid : t > tid => result[t] = NotYet
        BY DEF ResultsKnown, CallsInv
      <3>2. ASSUME NEW t \in 1 .. MaxTid, t > tid
            PROVE  result'[t] = NotYet
        <4>1. t # tid
          BY <1>0, <3>2
        <4>. QED  BY <2>5, <3>1, <3>2, <4>1
      <3>3. tid' > tid /\ \A t \in 1 .. MaxTid : t > tid' => t > tid
        BY <1>0, <2>4
      <3>4. result'[tid'] = NotYet
        BY <2>4, <3>2, <3>3
      <3>. QED  BY <2>4, <3>2, <3>3, <3>4 DEF ResultsKnown
    <2>7. Shape'
      BY <1>1, <1>2, <2>4, <2>5 DEF Shape, CallsInv
    <2>. QED  BY <1>2, <2>4, <2>6, <2>7 DEF CallsInv
  <1>. QED  BY <1>3, <1>4 DEF do_url_open

\* A call that finds the transaction out may send it again.
LEMMA PollStep ==
  ASSUME CallsInv, UrlPoll
  PROVE  CallsInv'
  <1>0. /\ h \in Handles /\ tid \in 1 .. MaxTid /\ h.seq = tid /\ tid \in Nat
        /\ ring \in Seq(Replies) /\ h.phase \in Busy /\ ~Closed
    <2>1. h.phase \in Busy /\ ~Closed
      BY DEF UrlPoll, Pending, Busy, Closed
    <2>. QED  BY <2>1, Bounds DEF CallsInv, Shape
  <1>1. ring' = Rest /\ UNCHANGED <<toCli, srv, ran, tid, result>>
    BY DEF UrlPoll, Pending, PollWaits, PollBusy, Network
  <1>2. h' \in Handles /\ h'.seq = tid /\ h'.phase = h.phase
    <2>1. CASE Fire
      <3>1. h.retries \in Nat /\ h.retries > 0
        BY <1>0, <2>1 DEF Fire, Handles
      <3>2. h.retries - 1 \in Nat
        BY <3>1
      <3>. QED  BY <1>0, <2>1, <3>2, Bounds DEF Fire, Handles
    <2>2. CASE PollBusy
      <3>1. h.eagain \in Nat /\ h.eagain > 0
        BY <1>0, <2>2 DEF PollBusy, Handles
      <3>2. h.eagain - 1 \in Nat
        BY <3>1
      <3>. QED  BY <1>0, <2>2, <3>2, Bounds DEF PollBusy, Handles
    <2>3. CASE UNCHANGED h
      BY <1>0, <2>3
    <2>. QED  BY <2>1, <2>2, <2>3 DEF UrlPoll, Pending, PollWaits
  <1>3. ring' \in Seq(Replies) /\ RepliesTruthful'
    BY <1>0, <1>1, RestKept, RepliesStill DEF CallsInv
  <1>4. ~Closed'
    BY <1>0, <1>2 DEF Closed
  <1>5. toSrv' \in Seq(Requests) /\ RequestsInOrder'
    <2>1. CASE Fire
      <3>. DEFINE q == Request(h, tid)
      <3>1. q \in Requests /\ q.tid = tid /\ q.seq = tid /\ toSrv' = Sent(toSrv, q)
        BY <1>0, <2>1 DEF Request, Requests, Handles, Fire
      <3>. HIDE DEF q
      <3>. QED  BY <1>0, <1>1, <1>4, <3>1, RequestSent
    <2>2. CASE UNCHANGED toSrv
      BY <1>0, <1>1, <2>2, RequestsStill DEF CallsInv, Shape
    <2>. QED  BY <2>1, <2>2 DEF UrlPoll, Pending, PollWaits, PollBusy
  <1>6. Shape'
    BY <1>0, <1>1, <1>2, <1>3, <1>5 DEF Shape, CallsInv
  <1>7. RanInOrder' /\ ResultsKnown'
    BY <1>1, <1>2 DEF CallsInv, RanInOrder, ResultsKnown
  <1>. QED  BY <1>3, <1>5, <1>6, <1>7 DEF CallsInv

\* A READ or WRITE of a ready file begins.
LEMMA IoStartStep ==
  ASSUME CallsInv, NEW phase \in {"reading", "writing"}, NEW op \in {"read", "write"},
         UrlIoStart(phase, op)
  PROVE  CallsInv'
  <1>0. /\ h \in Handles /\ h.seq = tid /\ ~Closed /\ op \in Ops
        /\ tid \in 1 .. MaxTid /\ tid \in Nat
    BY Bounds DEF CallsInv, Shape, UrlIoStart, Closed, Ops
  <1>1. UNCHANGED <<ring, result, toCli, srv, ran>> /\ net_tnfs_start(h, phase, op)
    BY DEF UrlIoStart, Network
  <1>2. /\ tid' = tid + 1 /\ tid' \in 1 .. MaxTid
        /\ h' \in Handles /\ h'.seq = tid' /\ h'.phase = phase
        /\ toSrv' \in Seq(Requests) /\ RequestsInOrder' /\ RanInOrder'
    BY <1>0, <1>1, Starts
  <1>3. ResultsKnown'
    BY <1>0, <1>1, <1>2 DEF ResultsKnown, CallsInv
  <1>4. RepliesTruthful'
    BY <1>0, <1>1 DEF CallsInv, RepliesTruthful, Truthful, HasRun
  <1>5. Shape'
    BY <1>1, <1>2 DEF Shape, CallsInv
  <1>. QED  BY <1>2, <1>3, <1>4, <1>5 DEF CallsInv

\* A READ or WRITE ends, and the file is ready again.
LEMMA IoEndStep ==
  ASSUME CallsInv, UrlIoEnd
  PROVE  CallsInv'
  <1>0. /\ h \in Handles /\ tid \in 1 .. MaxTid /\ h.seq = tid /\ tid \in Nat
        /\ ring \in Seq(Replies) /\ h.phase \in Busy /\ ~Closed
    <2>1. h.phase \in Busy /\ ~Closed
      BY DEF UrlIoEnd, Busy, Closed
    <2>. QED  BY <2>1, Bounds DEF CallsInv, Shape
  <1>1. ring' = Rest /\ UNCHANGED <<toCli, srv, ran, tid, toSrv>>
    BY DEF UrlIoEnd, PollOk, PollGivesUp, Network
  <1>2. ring' \in Seq(Replies) /\ RepliesTruthful'
    BY <1>0, <1>1, RestKept, RepliesStill DEF CallsInv
  <1>3. h' \in Handles /\ h'.seq = tid /\ h'.phase = "ready"
    BY <1>0 DEF UrlIoEnd, Handles, Phases
  <1>4. Ended(Failed) \/ Ended(tid)
    BY <1>0, AnswerOwn DEF UrlIoEnd
  <1>5. /\ result' \in [1 .. MaxTid -> Int] /\ result'[tid] # NotYet
        /\ \A t \in 1 .. MaxTid : t # tid => result'[t] = result[t]
    BY <1>4, Ends
  <1>6. ResultsKnown'
    BY <1>0, <1>1, <1>3, <1>5 DEF ResultsKnown, CallsInv, Busy
  <1>7. Shape'
    BY <1>0, <1>1, <1>2, <1>3, <1>5 DEF Shape, CallsInv
  <1>8. RequestsInOrder' /\ RanInOrder'
    BY <1>0, <1>1, RequestsStill DEF CallsInv, RanInOrder
  <1>. QED  BY <1>2, <1>6, <1>7, <1>8 DEF CallsInv

\* A request of a closed handle.
Filed(q) == (q.tid = q.seq /\ 1 <= q.seq /\ q.seq <= tid) \/ (q.tid = 0 /\ q.seq > tid)

\* A farewell follows everything that was sent before it.
LEMMA FarewellSent ==
  ASSUME NEW c \in Seq(Requests), NEW n \in Nat, InOrder(c, n),
         NEW q \in Requests, n <= q.seq, Filed(q),
         \A i \in 1 .. Len(c) : Filed(c[i]) /\ c[i].seq <= q.seq
  PROVE  /\ Sent(c, q) \in Seq(Requests) /\ InOrder(Sent(c, q), n)
         /\ \A i \in 1 .. Len(Sent(c, q)) : Filed(Sent(c, q)[i]) /\ Sent(c, q)[i].seq <= q.seq
  <1>. DEFINE s == Sent(c, q)
  <1>1. /\ s \in Seq(Requests)
        /\ \/ s = c
           \/ /\ Len(s) = Len(c) + 1
              /\ \A i \in 1 .. Len(c) : s[i] = c[i]
              /\ s[Len(c) + 1] = q
    BY SentProperties
  <1>2. InOrder(s, n)
    BY SentInOrder
  <1>3. Len(c) \in Nat /\ q.seq <= q.seq
    BY LenProperties DEF Requests
  <1>. HIDE DEF s
  <1>4. \A i \in 1 .. Len(s) : s[i] = q \/ \E j \in 1 .. Len(c) : s[i] = c[j]
    BY <1>1, <1>3
  <1>5. \A i \in 1 .. Len(s) : Filed(s[i]) /\ s[i].seq <= q.seq
    BY <1>3, <1>4
  <1>. QED  BY <1>1, <1>2, <1>5 DEF s

\* do_close sends its farewells and forgets the replies.
LEMMA CloseStep ==
  ASSUME CallsInv, do_close
  PROVE  CallsInv'
  <1>0. /\ h \in Handles /\ tid \in Nat /\ tid >= 1 /\ tid <= MaxTid /\ h.seq = tid
        /\ ~Closed /\ srv.seq \in Nat /\ toSrv \in Seq(Requests)
    BY Bounds DEF CallsInv, Shape, do_close, Closed
  <1>1. /\ ring' = << >> /\ UNCHANGED <<tid, result, toCli, srv, ran>>
        /\ h' = [h EXCEPT !.phase = "closed"]
    BY DEF do_close, Network
  <1>2. h' \in Handles /\ h'.seq = tid /\ h'.phase = "closed" /\ Closed'
    BY <1>0, <1>1 DEF Handles, Phases, Closed
  <1>3. /\ InOrder(toSrv, srv.seq) /\ srv.seq <= tid
        /\ \A i \in 1 .. Len(toSrv) :
             /\ toSrv[i].tid = toSrv[i].seq /\ 1 <= toSrv[i].seq /\ toSrv[i].seq <= tid
    BY <1>0 DEF CallsInv, RequestsInOrder, Proper
  <1>4. \A i \in 1 .. Len(toSrv) : toSrv[i].seq \in Nat
    <2>1. Len(toSrv) \in Nat /\ toSrv \in [1 .. Len(toSrv) -> Requests]
      BY <1>0, LenProperties
    <2>. QED  BY <2>1 DEF Requests
  <1>. DEFINE F(op, n) == [op |-> op, seq |-> tid + n, tid |-> 0]
             c1 == Sent(toSrv, F("close", 1))
             u1 == Sent(toSrv, F("umount", 1))
             c2 == Sent(c1, F("umount", 2))
  <1>5. toSrv' = toSrv \/ toSrv' = u1 \/ toSrv' = c2
    <2>. /\ tid + 1 \in Nat /\ tid + 1 < SeqMod /\ tid + 2 \in Nat /\ tid + 2 < SeqMod
         /\ SeqMod \in Nat
      BY <1>0, Bounds
    <2>1. (h.seq + 1) % SeqMod = tid + 1
      BY <1>0, SmallMod
    <2>2. (h.seq + 2) % SeqMod = tid + 2
      BY <1>0, SmallMod
    <2>. QED  BY <2>1, <2>2 DEF do_close
  <1>6. ASSUME NEW op \in Ops, NEW n \in {1, 2}
        PROVE  F(op, n) \in Requests /\ F(op, n).seq = tid + n /\ Filed(F(op, n))
    BY <1>0 DEF Requests, Filed
  <1>7. \A i \in 1 .. Len(toSrv) : Filed(toSrv[i]) /\ toSrv[i].seq <= tid + 1
    BY <1>0, <1>3, <1>4 DEF Filed
  <1>8. /\ "close" \in Ops /\ "umount" \in Ops
        /\ srv.seq <= tid + 1 /\ srv.seq <= tid + 2 /\ tid + 1 \in Nat
    BY <1>0, <1>3 DEF Ops
  <1>9. /\ u1 \in Seq(Requests) /\ InOrder(u1, srv.seq)
        /\ \A i \in 1 .. Len(u1) : Filed(u1[i])
    <2>. DEFINE q == F("umount", 1)
    <2>1. q \in Requests /\ q.seq = tid + 1 /\ Filed(q)
      BY <1>6, <1>8
    <2>. HIDE DEF q
    <2>. QED  BY <1>0, <1>3, <1>7, <1>8, <2>1, FarewellSent DEF q
  <1>10. /\ c1 \in Seq(Requests) /\ InOrder(c1, srv.seq)
         /\ \A i \in 1 .. Len(c1) : Filed(c1[i]) /\ c1[i].seq <= tid + 1
    <2>. DEFINE q == F("close", 1)
    <2>1. q \in Requests /\ q.seq = tid + 1 /\ Filed(q)
      BY <1>6, <1>8
    <2>2. c1 = Sent(toSrv, q)
      OBVIOUS
    <2>. HIDE DEF q, F, c1
    <2>. QED  BY <1>0, <1>3, <1>7, <1>8, <2>1, <2>2, FarewellSent
  <1>11. /\ c2 \in Seq(Requests) /\ InOrder(c2, srv.seq)
         /\ \A i \in 1 .. Len(c2) : Filed(c2[i])
    <2>. DEFINE q == F("umount", 2)
    <2>1. q \in Requests /\ q.seq = tid + 2 /\ Filed(q)
      BY <1>6, <1>8
    <2>2. c2 = Sent(c1, q)
      OBVIOUS
    <2>. HIDE DEF q, F, c1, c2
    <2>3. Len(c1) \in Nat /\ \A i \in 1 .. Len(c1) : c1[i].seq \in Nat
      <3>1. Len(c1) \in Nat /\ c1 \in [1 .. Len(c1) -> Requests]
        BY <1>10, LenProperties
      <3>. QED  BY <3>1 DEF Requests
    <2>4. \A i \in 1 .. Len(c1) : Filed(c1[i]) /\ c1[i].seq <= q.seq
      BY <1>0, <1>10, <2>1, <2>3
    <2>. QED  BY <1>0, <1>8, <1>10, <2>1, <2>2, <2>4, FarewellSent
  <1>. HIDE DEF F, c1, u1, c2
  <1>12. /\ toSrv' \in Seq(Requests) /\ InOrder(toSrv', srv.seq)
         /\ \A i \in 1 .. Len(toSrv') : Filed(toSrv'[i])
    BY <1>0, <1>3, <1>5, <1>7, <1>9, <1>11
  <1>13. RequestsInOrder'
    BY <1>1, <1>2, <1>12 DEF RequestsInOrder, Proper, Filed
  <1>14. RanInOrder' /\ ResultsKnown'
    BY <1>1, <1>2 DEF CallsInv, RanInOrder, ResultsKnown, Busy
  <1>15. RepliesTruthful'
    BY <1>1, <1>2 DEF CallsInv, RepliesTruthful
  <1>16. Shape'
    BY <1>1, <1>2, <1>12 DEF Shape, CallsInv
  <1>. QED  BY <1>13, <1>14, <1>15, <1>16 DEF CallsInv

\* The network or the server takes the oldest request.
LEMMA RequestTaken ==
  ASSUME CallsInv, toSrv # << >>, toSrv' = Tail(toSrv), UNCHANGED <<h, tid>>,
         srv'.seq \in {srv.seq, Head(toSrv).seq}
  PROVE  /\ toSrv' \in Seq(Requests) /\ RequestsInOrder'
         /\ Head(toSrv) \in Requests /\ Proper(Head(toSrv)) /\ srv.seq <= Head(toSrv).seq
  <1>0. /\ toSrv \in Seq(Requests) /\ srv.seq \in Nat /\ tid \in Nat /\ tid >= 1
        /\ InOrder(toSrv, srv.seq)
    BY Bounds DEF CallsInv, Shape, RequestsInOrder
  <1>1. /\ toSrv' \in Seq(Requests) /\ Head(toSrv) \in Requests /\ Head(toSrv) = toSrv[1]
        /\ 1 \in 1 .. Len(toSrv)
        /\ \A i \in 1 .. Len(toSrv') : \E j \in 1 .. Len(toSrv) : toSrv'[i] = toSrv[j]
    BY <1>0, TailProperties
  <1>2. InOrder(toSrv', srv'.seq) /\ srv.seq <= Head(toSrv).seq
    BY <1>0, TailInOrder
  <1>3. /\ \A i \in 1 .. Len(toSrv) : Proper(toSrv[i])
        /\ ~Closed => srv.seq <= tid
    BY DEF CallsInv, RequestsInOrder
  <1>4. Proper(Head(toSrv))
    BY <1>1, <1>3
  <1>5. ~Closed' => srv'.seq <= tid'
    BY <1>3, <1>4 DEF Proper, Closed
  <1>6. \A i \in 1 .. Len(toSrv') : Proper(toSrv[i])'
    BY <1>1, <1>3 DEF Proper, Closed
  <1>. QED  BY <1>1, <1>2, <1>4, <1>5, <1>6 DEF RequestsInOrder

\* A reply that is sent is in the network, or lost.
LEMMA ReplySent ==
  ASSUME NEW c \in Seq(Replies), NEW d \in Replies
  PROVE  /\ Sent(c, d) \in Seq(Replies)
         /\ \A i \in 1 .. Len(Sent(c, d)) :
              Sent(c, d)[i] = d \/ \E j \in 1 .. Len(c) : Sent(c, d)[i] = c[j]
  <1>. DEFINE s == Sent(c, d)
  <1>1. /\ s \in Seq(Replies)
        /\ \/ s = c
           \/ /\ Len(s) = Len(c) + 1
              /\ \A i \in 1 .. Len(c) : s[i] = c[i]
              /\ s[Len(c) + 1] = d
    BY SentProperties
  <1>2. Len(c) \in Nat
    BY LenProperties
  <1>. HIDE DEF s
  <1>3. \A i \in 1 .. Len(s) : s[i] = d \/ \E j \in 1 .. Len(c) : s[i] = c[j]
    BY <1>1, <1>2
  <1>. QED  BY <1>1, <1>3 DEF s

\* The server repeats an answer, is busy, or runs the request.
LEMMA ServerStep ==
  ASSUME CallsInv, Server
  PROVE  CallsInv'
  <1>. PICK q : q = Head(toSrv)
    OBVIOUS
  <1>0. /\ toSrv # << >> /\ toSrv' = Tail(toSrv) /\ UNCHANGED <<h, tid, ring, result>>
    BY DEF Server
  <1>1. /\ tid \in Nat /\ tid >= 1 /\ toCli \in Seq(Replies) /\ ran \in Seq(Nat)
        /\ srv \in [seq : Nat, reply : Replies \cup {None}] /\ srv.seq \in Nat
    BY Bounds DEF CallsInv, Shape
  <1>2. ResultsKnown' /\ Closed' = Closed
    BY <1>0 DEF CallsInv, ResultsKnown, Closed
  <1>3. /\ ~Closed => \A i \in 1 .. Len(toCli) : Truthful(toCli[i])
        /\ ~Closed => \A i \in 1 .. Len(ring) : Truthful(ring[i])
        /\ srv.seq # 0 => srv.reply \in Replies /\ (~Closed => Truthful(srv.reply))
    BY DEF CallsInv, RepliesTruthful
  <1>4. CASE /\ q.seq = srv.seq /\ toCli' = Sent(toCli, srv.reply)
             /\ UNCHANGED <<srv, ran>>
    <2>1. /\ toSrv' \in Seq(Requests) /\ RequestsInOrder'
          /\ q \in Requests /\ Proper(q)
      BY <1>0, <1>4, RequestTaken
    <2>2. srv.seq # 0
      BY <1>1, <1>4, <2>1 DEF Proper
    <2>. DEFINE d == srv.reply
    <2>3. d \in Replies /\ (~Closed => Truthful(d)) /\ toCli' = Sent(toCli, d)
      BY <1>3, <1>4, <2>2
    <2>. HIDE DEF d
    <2>4. /\ toCli' \in Seq(Replies)
          /\ \A i \in 1 .. Len(toCli') :
               toCli'[i] = d \/ \E j \in 1 .. Len(toCli) : toCli'[i] = toCli[j]
      BY <1>1, <2>3, ReplySent
    <2>5. RepliesTruthful'
      <3>1. \A f : Truthful(f) => Truthful(f)'
        BY <1>4 DEF Truthful, HasRun
      <3>2. ASSUME ~Closed', NEW i \in 1 .. Len(toCli')
            PROVE  Truthful(toCli[i])'
        <4>1. PICK e : e = toCli'[i]
          OBVIOUS
        <4>2. e = d \/ \E j \in 1 .. Len(toCli) : e = toCli[j]
          BY <2>4, <4>1
        <4>3. Truthful(e)
          BY <1>2, <1>3, <2>3, <3>2, <4>2
        <4>4. Truthful(e)'
          BY <3>1, <4>3
        <4>. QED  BY <4>1, <4>4 DEF Truthful, HasRun
      <3>3. ~Closed' => /\ srv'.seq # 0 => Truthful(srv.reply)'
                        /\ \A i \in 1 .. Len(ring') : Truthful(ring[i])'
        BY <1>0, <1>2, <1>3, <1>4, <3>1 DEF Truthful
      <3>. QED  BY <1>3, <1>4, <3>2, <3>3 DEF RepliesTruthful
    <2>6. Shape' /\ RanInOrder'
      BY <1>0, <1>4, <2>1, <2>4 DEF CallsInv, Shape, RanInOrder
    <2>. QED  BY <1>2, <2>1, <2>5, <2>6 DEF CallsInv
  <1>5. CASE /\ q.seq # srv.seq /\ toCli' = Sent(toCli, Reply(q, "eagain"))
             /\ UNCHANGED <<srv, ran>>
    <2>1. /\ toSrv' \in Seq(Requests) /\ RequestsInOrder'
          /\ q \in Requests /\ Proper(q)
      BY <1>0, <1>5, RequestTaken
    <2>. DEFINE d == Reply(q, "eagain")
    <2>2. d \in Replies /\ (~Closed => Truthful(d)) /\ toCli' = Sent(toCli, d)
      BY <1>5, <2>1 DEF Reply, Replies, Requests, Truthful, Proper
    <2>. HIDE DEF d
    <2>3. /\ toCli' \in Seq(Replies)
          /\ \A i \in 1 .. Len(toCli') :
               toCli'[i] = d \/ \E j \in 1 .. Len(toCli) : toCli'[i] = toCli[j]
      BY <1>1, <2>2, ReplySent
    <2>4. RepliesTruthful'
      <3>1. \A f : Truthful(f) => Truthful(f)'
        BY <1>5 DEF Truthful, HasRun
      <3>2. ASSUME ~Closed', NEW i \in 1 .. Len(toCli')
            PROVE  Truthful(toCli[i])'
        <4>1. PICK e : e = toCli'[i]
          OBVIOUS
        <4>2. e = d \/ \E j \in 1 .. Len(toCli) : e = toCli[j]
          BY <2>3, <4>1
        <4>3. Truthful(e)
          BY <1>2, <1>3, <2>2, <3>2, <4>2
        <4>4. Truthful(e)'
          BY <3>1, <4>3
        <4>. QED  BY <4>1, <4>4 DEF Truthful, HasRun
      <3>3. ~Closed' => /\ srv'.seq # 0 => Truthful(srv.reply)'
                        /\ \A i \in 1 .. Len(ring') : Truthful(ring[i])'
        BY <1>0, <1>2, <1>3, <1>5, <3>1 DEF Truthful
      <3>. QED  BY <1>3, <1>5, <3>2, <3>3 DEF RepliesTruthful
    <2>5. Shape' /\ RanInOrder'
      BY <1>0, <1>5, <2>1, <2>3 DEF CallsInv, Shape, RanInOrder
    <2>. QED  BY <1>2, <2>1, <2>4, <2>5 DEF CallsInv
  <1>6. ASSUME NEW status \in {"ok", "error"}, q.seq # srv.seq,
               srv' = [srv EXCEPT !.seq = q.seq, !.reply = Reply(q, status)],
               toCli' = Sent(toCli, Reply(q, status)),
               ran' = Append(ran, q.tid)
        PROVE  CallsInv'
    <2>. DEFINE d == Reply(q, status)
    <2>1. srv'.seq = q.seq /\ srv'.reply = d
      BY <1>1, <1>6
    <2>2. /\ toSrv' \in Seq(Requests) /\ RequestsInOrder'
          /\ q \in Requests /\ Proper(q) /\ srv.seq <= q.seq
      BY <1>0, <2>1, RequestTaken
    <2>3. q.seq \in Nat /\ q.tid \in Nat /\ srv.seq < q.seq
      BY <1>1, <1>6, <2>2 DEF Requests
    <2>4. /\ Len(ran) \in Nat /\ \A i \in 1 .. Len(ran) : ran[i] \in Nat
          /\ ran' \in Seq(Nat) /\ Len(ran') = Len(ran) + 1
          /\ \A i \in 1 .. Len(ran) : ran'[i] = ran[i]
          /\ ran'[Len(ran) + 1] = q.tid
      BY <1>1, <1>6, <2>3, LenProperties
    <2>5. \A t : HasRun(t) => HasRun(t)'
      BY <2>4 DEF HasRun
    <2>6. HasRun(q.tid)'
      BY <2>4 DEF HasRun
    <2>7. RanInOrder'
      <3>1. \A i \in 1 .. Len(ran) : ran[i] <= q.seq /\ (ran[i] = 0 => q.seq > tid)
        <4>1. \A i \in 1 .. Len(ran) : ran[i] <= srv.seq /\ (ran[i] = 0 => srv.seq > tid)
          BY DEF CallsInv, RanInOrder
        <4>2. ASSUME NEW i \in 1 .. Len(ran)
              PROVE  ran[i] <= q.seq /\ (ran[i] = 0 => q.seq > tid)
          <5>1. ran[i] \in Nat /\ srv.seq \in Nat /\ q.seq \in Nat /\ tid \in Nat
            BY <1>1, <2>3, <2>4
          <5>2. ran[i] <= srv.seq /\ (ran[i] = 0 => srv.seq > tid) /\ srv.seq < q.seq
            BY <2>3, <4>1
          <5>. QED  BY <5>1, <5>2
        <4>. QED  BY <4>2
      <3>2. q.tid <= q.seq /\ (q.tid = 0 => q.seq > tid)
        BY <1>1, <2>2, <2>3 DEF Proper
      <3>3. \A i \in 1 .. Len(ran') : i \in 1 .. Len(ran) \/ i = Len(ran) + 1
        BY <2>4
      <3>. QED  BY <1>0, <2>1, <2>4, <3>1, <3>2, <3>3 DEF RanInOrder
    <2>8. d \in Replies /\ (~Closed => Truthful(d)') /\ toCli' = Sent(toCli, d)
      <3>1. d \in Replies /\ d.tid = q.tid /\ d.seq = q.seq
        BY <2>2 DEF Reply, Replies, Requests
      <3>2. ~Closed => q.tid = q.seq
        BY <2>2 DEF Proper
      <3>3. toCli' = Sent(toCli, d)
        BY <1>6
      <3>. HIDE DEF d
      <3>. QED  BY <2>6, <3>1, <3>2, <3>3 DEF Truthful
    <2>. HIDE DEF d
    <2>9. /\ toCli' \in Seq(Replies)
          /\ \A i \in 1 .. Len(toCli') :
               toCli'[i] = d \/ \E j \in 1 .. Len(toCli) : toCli'[i] = toCli[j]
      <3>1. d \in Replies /\ toCli \in Seq(Replies)
        BY <1>1, <2>8
      <3>2. /\ Sent(toCli, d) \in Seq(Replies)
            /\ \A i \in 1 .. Len(Sent(toCli, d)) :
                 \/ Sent(toCli, d)[i] = d
                 \/ \E j \in 1 .. Len(toCli) : Sent(toCli, d)[i] = toCli[j]
        BY <3>1, ReplySent
      <3>3. toCli' = Sent(toCli, d)
        BY <2>8
      <3>. QED  BY <3>2, <3>3
    <2>10. RepliesTruthful'
      <3>1. \A e : Truthful(e) => Truthful(e)'
        BY <2>5 DEF Truthful
      <3>2. ~Closed' => Truthful(srv.reply)'
        BY <1>2, <2>1, <2>8 DEF Truthful
      <3>3. ~Closed' => \A i \in 1 .. Len(toCli') : Truthful(toCli[i])'
        BY <1>2, <1>3, <2>8, <2>9, <3>1 DEF Truthful
      <3>4. ~Closed' => \A i \in 1 .. Len(ring') : Truthful(ring[i])'
        BY <1>0, <1>2, <1>3, <3>1 DEF Truthful
      <3>. QED  BY <2>1, <2>8, <3>2, <3>3, <3>4 DEF RepliesTruthful
    <2>11. Shape'
      <3>1. srv' \in [seq : Nat, reply : Replies \cup {None}]
        BY <1>1, <1>6, <2>3, <2>8 DEF d
      <3>. QED  BY <1>0, <2>2, <2>4, <2>9, <3>1 DEF CallsInv, Shape
    <2>. QED  BY <1>2, <2>2, <2>7, <2>10, <2>11 DEF CallsInv
  <1>. QED  BY <1>4, <1>5, <1>6 DEF Server

\* net_udp_recv moves a reply to the ring or drops it.
LEMMA RecvStep ==
  ASSUME CallsInv, net_udp_recv
  PROVE  CallsInv'
  <1>0. /\ toCli # << >> /\ toCli' = Tail(toCli)
        /\ UNCHANGED <<h, tid, toSrv, srv, ran, result>>
        /\ ring' = ring \/ ring' = Append(ring, Head(toCli))
    BY DEF net_udp_recv
  <1>1. toCli \in Seq(Replies) /\ ring \in Seq(Replies)
    BY DEF CallsInv, Shape
  <1>2. /\ toCli' \in Seq(Replies) /\ Head(toCli) \in Replies
        /\ 1 \in 1 .. Len(toCli) /\ Head(toCli) = toCli[1]
        /\ \A i \in 1 .. Len(toCli') : \E j \in 1 .. Len(toCli) : toCli'[i] = toCli[j]
    BY <1>0, <1>1, TailProperties
  <1>3. /\ ring' \in Seq(Replies)
        /\ \A i \in 1 .. Len(ring') :
             ring'[i] = toCli[1] \/ \E j \in 1 .. Len(ring) : ring'[i] = ring[j]
    <2>1. CASE ring' = ring
      BY <1>1, <2>1
    <2>2. CASE ring' = Append(ring, toCli[1])
      <3>1. /\ Len(ring) \in Nat /\ Len(ring') = Len(ring) + 1 /\ ring' \in Seq(Replies)
            /\ \A i \in 1 .. Len(ring) : ring'[i] = ring[i]
            /\ ring'[Len(ring) + 1] = toCli[1]
        BY <1>1, <1>2, <2>2, LenProperties
      <3>. QED  BY <3>1
    <2>. QED  BY <1>0, <1>2, <2>1, <2>2
  <1>4. Closed' = Closed /\ \A e : Truthful(e) => Truthful(e)'
    BY <1>0 DEF Closed, Truthful, HasRun
  <1>5. RepliesTruthful'
    <2>1. ~Closed => /\ \A i \in 1 .. Len(toCli) : Truthful(toCli[i])
                     /\ \A i \in 1 .. Len(ring) : Truthful(ring[i])
      BY DEF CallsInv, RepliesTruthful
    <2>2. ~Closed' => \A i \in 1 .. Len(toCli') : Truthful(toCli[i])'
      BY <1>0, <1>2, <1>4, <2>1 DEF Truthful, HasRun
    <2>3. ~Closed' => \A i \in 1 .. Len(ring') : Truthful(ring[i])'
      BY <1>0, <1>2, <1>3, <1>4, <2>1 DEF Truthful, HasRun
    <2>4. ~Closed' => (srv'.seq # 0 => Truthful(srv.reply)')
      BY <1>0, <1>4 DEF CallsInv, RepliesTruthful, Truthful, HasRun
    <2>. QED  BY <1>0, <2>2, <2>3, <2>4 DEF CallsInv, RepliesTruthful
  <1>6. Shape' /\ RanInOrder' /\ ResultsKnown'
    BY <1>0, <1>2, <1>3 DEF CallsInv, Shape, RanInOrder, ResultsKnown
  <1>7. RequestsInOrder'
    BY <1>0, <1>4, RequestsStill DEF CallsInv
  <1>. QED  BY <1>5, <1>6, <1>7 DEF CallsInv

\* The network loses a datagram.
LEMMA LoseStep ==
  ASSUME CallsInv, Lose
  PROVE  CallsInv'
  <1>0. UNCHANGED <<h, tid, ring, srv, ran, result>>
    BY DEF Lose
  <1>1. RanInOrder' /\ ResultsKnown' /\ Closed' = Closed
    BY <1>0 DEF CallsInv, RanInOrder, ResultsKnown, Closed
  <1>2. CASE toSrv # << >> /\ toSrv' = Tail(toSrv) /\ UNCHANGED toCli
    <2>1. toSrv' \in Seq(Requests) /\ RequestsInOrder'
      BY <1>0, <1>2, RequestTaken
    <2>2. RepliesTruthful'
      BY <1>0, <1>1, <1>2 DEF CallsInv, RepliesTruthful, Truthful, HasRun
    <2>3. Shape'
      BY <1>0, <1>2, <2>1 DEF CallsInv, Shape
    <2>. QED  BY <1>1, <2>1, <2>2, <2>3 DEF CallsInv
  <1>3. CASE toCli # << >> /\ toCli' = Tail(toCli) /\ UNCHANGED toSrv
    <2>1. toCli \in Seq(Replies)
      BY DEF CallsInv, Shape
    <2>2. /\ toCli' \in Seq(Replies)
          /\ \A i \in 1 .. Len(toCli') : \E j \in 1 .. Len(toCli) : toCli'[i] = toCli[j]
      BY <1>3, <2>1, TailProperties
    <2>3. RepliesTruthful'
      <3>1. \A e : Truthful(e) => Truthful(e)'
        BY <1>0 DEF Truthful, HasRun
      <3>2. ~Closed' => \A i \in 1 .. Len(toCli) : Truthful(toCli[i])
        BY <1>1 DEF CallsInv, RepliesTruthful
      <3>3. ~Closed' => \A i \in 1 .. Len(toCli') : Truthful(toCli[i])'
        BY <2>2, <3>1, <3>2 DEF Truthful
      <3>4. /\ srv'.seq # 0 => srv'.reply \in Replies
            /\ ~Closed' => /\ srv'.seq # 0 => Truthful(srv.reply)'
                           /\ \A i \in 1 .. Len(ring') : Truthful(ring[i])'
        BY <1>0, <1>1 DEF CallsInv, RepliesTruthful, Truthful, HasRun
      <3>. QED  BY <3>3, <3>4 DEF RepliesTruthful
    <2>4. Shape'
      BY <1>0, <1>3, <2>2 DEF CallsInv, Shape
    <2>5. RequestsInOrder'
      BY <1>0, <1>1, <1>3, RequestsStill DEF CallsInv
    <2>. QED  BY <1>1, <2>3, <2>4, <2>5 DEF CallsInv
  <1>. QED  BY <1>2, <1>3 DEF Lose

\* Time passes, or nothing happens.
LEMMA ClockStep ==
  ASSUME CallsInv, net_now_ms \/ UNCHANGED vars
  PROVE  CallsInv'
  <1>0. /\ UNCHANGED <<tid, ring, toSrv, toCli, srv, ran, result>>
        /\ h' = h \/ (h.timer > 0 /\ h' = [h EXCEPT !.timer = @ - 1])
    BY DEF net_now_ms, vars
  <1>1. h' \in Handles /\ h'.seq = h.seq /\ h'.phase = h.phase
    <2>1. h \in Handles /\ h.timer \in Nat
      BY DEF CallsInv, Shape, Handles
    <2>2. h.timer > 0 => h.timer - 1 \in Nat
      BY <2>1
    <2>. QED  BY <1>0, <2>1, <2>2 DEF Handles
  <1>2. Shape' /\ RanInOrder' /\ ResultsKnown'
    BY <1>0, <1>1 DEF CallsInv, Shape, RanInOrder, ResultsKnown
  <1>3. RequestsInOrder'
    BY <1>0, <1>1, RequestsStill DEF CallsInv, Closed
  <1>4. RepliesTruthful'
    BY <1>0, <1>1 DEF CallsInv, RepliesTruthful, Truthful, HasRun, Closed
  <1>. QED  BY <1>2, <1>3, <1>4 DEF CallsInv

\* Every step keeps the invariant.
LEMMA CallsStep == CallsInv /\ [Next]_vars => CallsInv'
  <1>. SUFFICES ASSUME CallsInv, [Next]_vars PROVE CallsInv'
    OBVIOUS
  <1>1. CASE UrlIoStart("reading", "read") \/ UrlIoStart("writing", "write")
    BY <1>1, IoStartStep
  <1>. QED  BY <1>1, OpenStep, PollStep, IoEndStep, CloseStep, RecvStep, ServerStep,
               LoseStep, ClockStep DEF Next

-----------------------------------------------------------------------------
(* The refinement. *)

\* Functions that agree everywhere are equal.
LEMMA Extensional ==
  ASSUME NEW S, NEW T, NEW f \in [S -> T], NEW g \in [S -> T],
         \A x \in S : f[x] = g[x]
  PROVE  f = g
  OBVIOUS

\* What the Beeb can be told of a transaction.
Told == {"open", "failed", "done", "wrong"}

\* The Beeb is told one of four things.
LEMMA OutcomeType == Outcome \in [1 .. MaxTid -> Told]
  <1>1. ASSUME NEW t \in 1 .. MaxTid
        PROVE  (CASE result[t] = NotYet -> "open"
                  [] result[t] = Failed -> "failed"
                  [] result[t] = t      -> "done"
                  [] OTHER              -> "wrong") \in Told
    BY DEF Told
  <1>. QED  BY <1>1 DEF Outcome

\* A transaction that ends changes its own outcome and no other.
LEMMA OutcomeEnds ==
  ASSUME CallsInv, h.phase \in Busy, NEW how \in {Failed, tid}, Ended(how)
  PROVE  /\ Outcome[tid] = "open"
         /\ Outcome' = [Outcome EXCEPT ![tid] = IF how = tid THEN "done" ELSE "failed"]
  <1>1. result \in [1 .. MaxTid -> Int] /\ tid \in 1 .. MaxTid /\ tid \in Nat /\ tid >= 1
    BY Bounds DEF CallsInv, Shape
  <1>2. result[tid] = NotYet
    BY DEF CallsInv, ResultsKnown
  <1>3. /\ result' \in [1 .. MaxTid -> Int] /\ result'[tid] = how /\ how # NotYet
        /\ \A t \in 1 .. MaxTid : t # tid => result'[t] = result[t]
    BY Ends
  <1>4. how = tid => how # Failed
    BY <1>1 DEF Failed
  <1>5. Outcome[tid] = "open"
    BY <1>1, <1>2 DEF Outcome, NotYet, Failed
  <1>. DEFINE new == [Outcome EXCEPT ![tid] = IF how = tid THEN "done" ELSE "failed"]
  <1>6. ASSUME NEW t \in 1 .. MaxTid
        PROVE  Outcome'[t] = new[t]
    <2>1. CASE t = tid
      BY <1>1, <1>3, <1>4, <2>1 DEF Outcome
    <2>2. CASE t # tid
      BY <1>1, <1>3, <2>2 DEF Outcome
    <2>. QED  BY <2>1, <2>2
  <1>7. Outcome' = new
    <2>0. (Outcome \in [1 .. MaxTid -> Told])'
      BY OutcomeType, PTL
    <2>1. /\ Outcome' \in [1 .. MaxTid -> Told]
          /\ new \in [1 .. MaxTid -> Told]
      BY <2>0, OutcomeType DEF Told
    <2>. HIDE DEF new
    <2>2. PICK f, g, S : f = Outcome' /\ g = new /\ S = 1 .. MaxTid
      OBVIOUS
    <2>3. /\ f \in [S -> Told]
          /\ g \in [S -> Told]
      BY <2>1, <2>2
    <2>4. \A t \in S : f[t] = g[t]
      BY <1>6, <2>2
    <2>5. f = g
      BY <2>3, <2>4, Extensional
    <2>. QED  BY <2>2, <2>5
  <1>. QED  BY <1>5, <1>7

\* A step of the session is a step of the calls, or none.
LEMMA StepRefines == CallsInv /\ [Next]_vars => [Calls!Next]_(Calls!vars)
  <1>. SUFFICES ASSUME CallsInv, [Next]_vars PROVE [Calls!Next]_(Calls!vars)
    OBVIOUS
  <1>0. tid \in 1 .. MaxTid /\ tid \in Nat /\ tid >= 1 /\ MaxTid \in Nat
    BY Bounds DEF CallsInv, Shape
  <1>1. CASE UNCHANGED <<tid, ran, result>>
    <2>1. UNCHANGED <<tid, ran, Outcome>>
      BY <1>1 DEF Outcome
    <2>. QED  BY <2>1 DEF Calls!vars
  <1>2. CASE do_url_open \/ UrlIoEnd
    <2>1. h.phase \in Busy /\ UNCHANGED ran
      BY <1>2 DEF do_url_open, UrlIoEnd, Busy, Network
    <2>2. \/ Ended(Failed) /\ tid' = tid
          \/ Ended(tid) /\ HasRun(tid) /\ tid' = tid
          \/ Ended(tid) /\ HasRun(tid) /\ tid < MaxTid /\ tid' = tid + 1
      BY <1>2, <2>1, AnswerOwn DEF do_url_open, UrlIoEnd, net_tnfs_start
    <2>3. CASE Ended(Failed) /\ tid' = tid
      <3>1. Failed # tid
        BY <1>0 DEF Failed
      <3>2. Outcome[tid] = "open" /\ Outcome' = [Outcome EXCEPT ![tid] = "failed"]
        BY <2>1, <2>3, <3>1, OutcomeEnds
      <3>3. Calls!Finish("failed")
        BY <2>1, <2>3, <3>2 DEF Calls!Finish
      <3>. QED  BY <3>3 DEF Calls!Next
    <2>4. CASE /\ Ended(tid) /\ HasRun(tid)
               /\ tid' = tid \/ (tid < MaxTid /\ tid' = tid + 1)
      <3>1. Outcome[tid] = "open" /\ Outcome' = [Outcome EXCEPT ![tid] = "done"]
        BY <2>1, <2>4, OutcomeEnds
      <3>2. Calls!RanAlready(tid)
        BY <2>4 DEF HasRun, Calls!RanAlready
      <3>3. Calls!Finish("done")
        BY <2>1, <2>4, <3>1, <3>2 DEF Calls!Finish
      <3>. QED  BY <3>3 DEF Calls!Next
    <2>. QED  BY <2>2, <2>3, <2>4
  <1>3. CASE UrlIoStart("reading", "read") \/ UrlIoStart("writing", "write")
    <2>1. /\ h.phase = "ready" /\ tid < MaxTid /\ tid' = tid + 1
          /\ UNCHANGED <<ran, result>>
      BY <1>3 DEF UrlIoStart, net_tnfs_start, Network
    <2>2. result[tid] # NotYet
      BY <2>1 DEF CallsInv, ResultsKnown
    <2>3. Outcome[tid] # "open" /\ UNCHANGED Outcome
      BY <1>0, <2>1, <2>2 DEF Outcome
    <2>4. Calls!Issue
      BY <2>1, <2>3 DEF Calls!Issue
    <2>. QED  BY <2>4 DEF Calls!Next
  <1>4. CASE Server
    <2>1. CASE UNCHANGED ran
      BY <1>1, <1>4, <2>1 DEF Server
    <2>2. CASE ran' = Append(ran, Head(toSrv).tid) /\ Head(toSrv).seq # srv.seq
               /\ srv'.seq = Head(toSrv).seq
      <3>1. PICK q : q = Head(toSrv)
        OBVIOUS
      <3>2. /\ toSrv # << >> /\ toSrv' = Tail(toSrv) /\ UNCHANGED <<h, tid, result>>
        BY <1>4 DEF Server
      <3>3. q \in Requests /\ Proper(q) /\ srv.seq <= q.seq
        BY <2>2, <3>1, <3>2, RequestTaken
      <3>4. UNCHANGED Outcome
        BY <3>2 DEF Outcome
      <3>5. CASE q.tid = 0
        <4>1. Calls!Leave
          BY <2>2, <3>1, <3>2, <3>4, <3>5 DEF Calls!Leave, Calls!Farewell
        <4>. QED  BY <4>1 DEF Calls!Next
      <3>6. CASE q.tid = q.seq /\ 1 <= q.seq /\ q.seq <= tid
        <4>1. q.tid \in Nat /\ q.seq \in Nat /\ srv.seq \in Nat
          BY <3>3 DEF Requests, CallsInv, Shape
        <4>2. q.tid \in 1 .. tid /\ srv.seq < q.tid /\ srv.seq < tid
          BY <1>0, <2>2, <3>1, <3>3, <3>6, <4>1
        <4>3. ASSUME NEW i \in 1 .. Len(ran)
              PROVE  ran[i] # 0 /\ ran[i] < q.tid
          <5>1. ran[i] \in Nat
            BY DEF CallsInv, Shape
          <5>2. ran[i] <= srv.seq /\ (ran[i] = 0 => srv.seq > tid)
            BY DEF CallsInv, RanInOrder
          <5>. QED  BY <1>0, <4>1, <4>2, <5>1, <5>2
        <4>4. Calls!Run(q.tid)
          BY <2>2, <3>1, <3>2, <3>4, <4>3 DEF Calls!Run, Calls!Farewell
        <4>. QED  BY <4>2, <4>4 DEF Calls!Next
      <3>. QED  BY <3>3, <3>5, <3>6 DEF Proper
    <2>3. srv \in [seq : Nat, reply : Replies \cup {None}]
      BY DEF CallsInv, Shape
    <2>. QED  BY <1>4, <2>1, <2>2, <2>3 DEF Server
  <1>5. CASE UrlPoll \/ do_close \/ net_udp_recv \/ Lose \/ net_now_ms \/ UNCHANGED vars
    BY <1>1, <1>5 DEF UrlPoll, Pending, PollWaits, PollBusy, do_close, net_udp_recv, Lose,
                      net_now_ms, Network, vars
  <1>. QED  BY <1>2, <1>3, <1>4, <1>5 DEF Next

\* The invariant holds: requests reach the server in the order of their
\* transactions, and what the handle takes for an answer is the server's
\* word on the transaction that is out (net_tnfs_poll, net_tnfs_fire).
THEOREM CallsInvariant == Spec => []CallsInv
  BY InitCalls, CallsStep, PTL DEF Spec

\* The session implements remote calls, for every number of transactions,
\* resends, busy answers and datagrams under way (net_tnfs_poll and
\* net_tnfs_fire; the 8-bit number does not come round within a session).
THEOREM CallsImplemented == Spec => ImplementsCalls
  <1>1. Init => Calls!Init
    <2>. SUFFICES ASSUME Init PROVE Calls!Init
      OBVIOUS
    <2>1. ASSUME NEW t \in 1 .. MaxTid
          PROVE  Outcome[t] = "open"
      BY Bounds DEF Init, Outcome, NotYet, Failed
    <2>2. Outcome = [t \in 1 .. MaxTid |-> "open"]
      BY <2>1, OutcomeType
    <2>. QED  BY <2>2 DEF Init, Calls!Init
  <1>. QED  BY <1>1, StepRefines, CallsInvariant, PTL DEF Spec, ImplementsCalls, Calls!Spec
=============================================================================
