------------------------------ MODULE NetTnfs ------------------------------
(***************************************************************************)
(* N:TNFS (net_service.c, net_tnfs.c): a URL handle as client of a TNFS    *)
(* server over UDP, with one transaction out at a time, numbered, resent   *)
(* on a timer and backed off when the server is busy.                      *)
(*                                                                         *)
(* The resolver and the rest of the handle are in NetService.  The network *)
(* delays and loses datagrams and keeps their order.  The server is        *)
(* external: it runs a request unless it has just answered one with the    *)
(* same number, which it answers again.  tid numbers the transactions, so  *)
(* that properties can tell two with the same 8-bit number apart.          *)
(***************************************************************************)
EXTENDS Integers, Sequences

CONSTANTS
  TNFS_RETRIES,     \* resends before giving up
  TNFS_EAGAIN_MAX,  \* busy answers before giving up
  Timeout,          \* resend timeout and back-off, in ticks
  SeqMod,           \* 2^8: tnfs_seq is a uint8_t
  RingRecs,         \* datagrams the receive ring takes
  MaxNet,           \* datagrams in the network, each way
  MaxTid            \* transactions

ASSUME NetTnfsAssumption ==
  /\ TNFS_RETRIES \in Nat /\ TNFS_EAGAIN_MAX \in Nat
  /\ \A n \in {Timeout, RingRecs, MaxNet, MaxTid} : n \in Nat \ {0}
  /\ SeqMod \in Nat /\ SeqMod > MaxTid + 2

VARIABLES
  h,       \* the handle: see Init
  tid,     \* transactions begun
  ring,    \* replies in the receive ring
  toSrv,   \* requests in the network
  toCli,   \* replies in the network
  srv,     \* the server: last number answered, and that answer
  ran,     \* transactions the server has run, in order
  result   \* how each transaction ended: Failed, or with the answer to which

vars == <<h, tid, ring, toSrv, toCli, srv, ran, result>>

None   == "none"
NotYet == 0
Failed == -1

\* phase is tnfs_phase, with `failed' for URL_FAIL and `closed' for a free
\* handle; op the command in tnfs_req; timer the ticks to tnfs_deadline.
Phases == {"mount", "open", "ready", "reading", "writing", "failed", "closed"}

Busy == {"mount", "open", "reading", "writing"}

\* net_tnfs_begin, with its MOUNT sent (see net_tnfs_start).
Init ==
  /\ h = [phase |-> "mount", op |-> "mount", seq |-> 1, connid |-> 0,
          retries |-> TNFS_RETRIES, eagain |-> TNFS_EAGAIN_MAX, timer |-> Timeout]
  /\ tid = 1
  /\ ring = << >> /\ toCli = << >>
  /\ toSrv = << [op |-> "mount", seq |-> 1, tid |-> 1] >>
  /\ srv = [seq |-> 0, reply |-> None]
  /\ ran = << >>
  /\ result = [t \in 1 .. MaxTid |-> NotYet]

\* A datagram that finds the network full is lost.
Sent(chan, d) == IF Len(chan) < MaxNet THEN Append(chan, d) ELSE chan

Request(r, t) == [op |-> r.op, seq |-> r.seq, tid |-> t]

\* net_tnfs_start: number, send, and arm the budgets.
Started(r, phase, op) ==
  [r EXCEPT !.phase = phase, !.op = op, !.seq = (@ + 1) % SeqMod,
            !.retries = TNFS_RETRIES, !.eagain = TNFS_EAGAIN_MAX, !.timer = Timeout]

net_tnfs_start(r, phase, op) ==
  /\ tid < MaxTid
  /\ h' = Started(r, phase, op)
  /\ tid' = tid + 1
  /\ toSrv' = Sent(toSrv, Request(Started(r, phase, op), tid + 1))

-----------------------------------------------------------------------------
(* net_tnfs_poll *)

\* tnfs_parse_reply, and the session of the reply.
Answers(d) ==
  d.seq = h.seq /\ d.op = h.op /\ (h.connid = 0 \/ d.connid = h.connid)

\* net_udp_pop: one datagram is taken; does it answer, and what is left.
Answered == ring # << >> /\ Answers(Head(ring))

Rest == IF ring = << >> THEN ring ELSE Tail(ring)

\* Mutant: a resend is numbered anew.
FireRenumbered ==
  /\ h.retries > 0
  /\ h' = [h EXCEPT !.retries = @ - 1, !.timer = Timeout, !.seq = (@ + 1) % SeqMod]
  /\ toSrv' = Sent(toSrv, Request([h EXCEPT !.seq = (@ + 1) % SeqMod], tid))

\* net_tnfs_fire.
Fire ==
  /\ h.retries > 0
  /\ h' = [h EXCEPT !.retries = @ - 1, !.timer = Timeout]
  /\ toSrv' = Sent(toSrv, Request(h, tid))

\* Nothing in the ring answers: resend once the deadline has passed.
PollWaits ==
  /\ ~Answered /\ ring' = Rest
  /\ \/ h.timer = 0 /\ Fire
     \/ h.timer > 0 /\ UNCHANGED <<h, toSrv>>
  /\ UNCHANGED <<tid, result>>

\* The server is busy: back off, with the resend budget restored.
PollBusy ==
  /\ Answered /\ Head(ring).status = "eagain"
  /\ h.eagain > 0
  /\ ring' = Rest
  /\ h' = [h EXCEPT !.eagain = @ - 1, !.retries = TNFS_RETRIES, !.timer = Timeout]
  /\ UNCHANGED <<tid, toSrv, result>>

\* Mutant: silence is not a reason to give up.
GivesUpWhenBusy ==
  /\ Answered /\ Head(ring).status = "eagain"
  /\ h.eagain = 0
  /\ ring' = Rest

\* NET_ERR_CONN: the deadline has passed with no resend left, or the server
\* was busy too often.
PollGivesUp ==
  \/ ~Answered /\ h.timer = 0 /\ h.retries = 0 /\ ring' = Rest
  \/ /\ Answered /\ Head(ring).status = "eagain"
     /\ h.eagain = 0
     /\ ring' = Rest

\* NET_OK: Head(ring) is the answer.
PollOk ==
  /\ Answered /\ Head(ring).status # "eagain"
  /\ ring' = Rest

Ended(how) == result' = [result EXCEPT ![tid] = how]

Pending == h.phase \in Busy /\ (PollWaits \/ PollBusy)

Network == UNCHANGED <<toCli, srv, ran>>

-----------------------------------------------------------------------------
(* Commands of the Beeb. *)

\* do_url_open in URL_CONNECTING: MOUNT, then OPEN, then ready.
do_url_open ==
  /\ h.phase \in {"mount", "open"}
  /\ \/ /\ PollGivesUp \/ (PollOk /\ Head(ring).status = "error")
        /\ h' = [h EXCEPT !.phase = "failed"]
        /\ Ended(Failed)
        /\ UNCHANGED <<tid, toSrv>>
     \/ /\ PollOk /\ Head(ring).status = "ok" /\ h.phase = "mount"
        /\ Ended(Head(ring).tid)
        /\ net_tnfs_start([h EXCEPT !.connid = Head(ring).connid], "open", "open")
     \/ /\ PollOk /\ Head(ring).status = "ok" /\ h.phase = "open"
        /\ Ended(Head(ring).tid)
        /\ h' = [h EXCEPT !.phase = "ready"]
        /\ UNCHANGED <<tid, toSrv>>
  /\ Network

\* do_url_read and do_url_write of a ready file begin a transaction ...
UrlIoStart(phase, op) ==
  /\ h.phase = "ready"
  /\ net_tnfs_start(h, phase, op)
  /\ UNCHANGED <<ring, result>>
  /\ Network

\* ... and finish it on a later call, with the handle ready again.
UrlIoEnd ==
  /\ h.phase \in {"reading", "writing"}
  /\ h' = [h EXCEPT !.phase = "ready"]
  /\ \/ PollGivesUp /\ Ended(Failed)
     \/ /\ PollOk
        /\ Ended(IF Head(ring).status = "ok" THEN Head(ring).tid ELSE Failed)
  /\ UNCHANGED <<tid, toSrv>>
  /\ Network

\* A call that finds the transaction still out.
UrlPoll == Pending /\ Network

\* CLOSE if a file is open and no WRITE is out, UMOUNT if mounted, both
\* without waiting.
do_close ==
  /\ h.phase # "closed"
  /\ LET Final(op, n) == [op |-> op, seq |-> (h.seq + n) % SeqMod, tid |-> 0]
     IN toSrv' = IF h.connid = 0 THEN toSrv
                 ELSE IF h.phase \in {"ready", "reading"}
                 THEN Sent(Sent(toSrv, Final("close", 1)), Final("umount", 2))
                 ELSE Sent(toSrv, Final("umount", 1))
  /\ h' = [h EXCEPT !.phase = "closed"]
  /\ ring' = << >>
  /\ UNCHANGED <<tid, result>>
  /\ Network

-----------------------------------------------------------------------------
(* Datagrams and time. *)

\* net_udp_recv drops what does not fit; a closed socket receives nothing.
net_udp_recv ==
  /\ toCli # << >>
  /\ toCli' = Tail(toCli)
  /\ ring' = IF h.phase # "closed" /\ Len(ring) < RingRecs
             THEN Append(ring, Head(toCli)) ELSE ring
  /\ UNCHANGED <<h, tid, toSrv, srv, ran, result>>

Reply(q, status) ==
  [op |-> q.op, seq |-> q.seq, connid |-> 1, status |-> status, tid |-> q.tid]

\* The server runs a request and remembers its answer, is busy, refuses, or
\* repeats its last answer.
Server ==
  /\ toSrv # << >>
  /\ LET q == Head(toSrv) IN
     \/ /\ q.seq = srv.seq
        /\ toCli' = Sent(toCli, srv.reply)
        /\ UNCHANGED <<srv, ran>>
     \/ /\ q.seq # srv.seq
        /\ toCli' = Sent(toCli, Reply(q, "eagain"))
        /\ UNCHANGED <<srv, ran>>
     \/ /\ q.seq # srv.seq
        /\ \E status \in {"ok", "error"} :
             /\ srv' = [srv EXCEPT !.seq = q.seq, !.reply = Reply(q, status)]
             /\ toCli' = Sent(toCli, Reply(q, status))
        /\ ran' = Append(ran, q.tid)
  /\ toSrv' = Tail(toSrv)
  /\ UNCHANGED <<h, tid, ring, result>>

Lose ==
  /\ \/ toSrv # << >> /\ toSrv' = Tail(toSrv) /\ UNCHANGED toCli
     \/ toCli # << >> /\ toCli' = Tail(toCli) /\ UNCHANGED toSrv
  /\ UNCHANGED <<h, tid, ring, srv, ran, result>>

net_now_ms ==
  /\ h.phase \in Busy /\ h.timer > 0
  /\ h' = [h EXCEPT !.timer = @ - 1]
  /\ UNCHANGED <<tid, ring, toSrv, toCli, srv, ran, result>>

Next ==
  \/ do_url_open \/ UrlPoll \/ UrlIoEnd \/ do_close
  \/ UrlIoStart("reading", "read") \/ UrlIoStart("writing", "write")
  \/ net_udp_recv \/ Server \/ Lose \/ net_now_ms

\* The Beeb repeats a command while it is pending, and the clock runs.
\* Nothing is assumed of the server or the network.
Fairness ==
  /\ WF_vars(do_url_open \/ UrlPoll \/ UrlIoEnd)
  /\ WF_vars(net_now_ms)

Spec == Init /\ [][Next]_vars /\ Fairness

-----------------------------------------------------------------------------
\* Every variable has its type.
TypeOK ==
  /\ h \in [phase : Phases, op : {"mount", "open", "read", "write"},
            seq : 0 .. SeqMod - 1, connid : {0, 1}, retries : 0 .. TNFS_RETRIES,
            eagain : 0 .. TNFS_EAGAIN_MAX, timer : 0 .. Timeout]
  /\ tid \in 1 .. MaxTid
  /\ result \in [1 .. MaxTid -> -1 .. MaxTid]
  /\ Len(ring) <= RingRecs /\ Len(toSrv) <= MaxNet /\ Len(toCli) <= MaxNet

\* What the Beeb has been told of each transaction.
Outcome ==
  [t \in 1 .. MaxTid |->
     CASE result[t] = NotYet -> "open"
       [] result[t] = Failed -> "failed"
       [] result[t] = t      -> "done"
       [] OTHER              -> "wrong"]

Calls == INSTANCE RemoteCalls WITH
  MaxCalls <- MaxTid, issued <- tid, outcome <- Outcome

\* The session implements remote calls.  The server runs every transaction at
\* most once and in the order of the Beeb's commands, whatever is resent: a
\* READ moves the file on and a WRITE appends, so one run twice loses or
\* doubles a block (net_tnfs_fire).  And a command that returns NET_OK has the
\* answer to its own transaction, which the server has run, and not a late
\* answer to an earlier one (net_tnfs_poll, "a stale/duplicate/foreign
\* datagram - ignore it").
ImplementsCalls == Calls!Spec

\* A transaction the Beeb polls comes to an end, with a dead server too.
TransactionEnds ==
  \A t \in 1 .. MaxTid :
    (tid = t /\ h.phase \in Busy) ~> (result[t] # NotYet \/ h.phase = "closed")
=============================================================================
