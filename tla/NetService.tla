----------------------------- MODULE NetService -----------------------------
(***************************************************************************)
(* The handle table of the network service (net_service.c): raw TCP and    *)
(* UDP sockets, DNS, listen/accept and the N: device, driven by the Beeb's *)
(* commands on one side and by lwIP's callbacks on the other.  Both run in *)
(* the main loop, so each handler is one step.  The mailbox that carries   *)
(* the commands is in ServicesPort, N:TNFS in NetTnfs.                     *)
(*                                                                         *)
(* A command that returns a code and changes nothing has no action.  Ring  *)
(* contents are counted in items: item i of connection c is <<c, i>>, and  *)
(* a UDP record is a header item <<0, n>> followed by n items <<0, -1>>.   *)
(***************************************************************************)
EXTENDS Integers, SequencesExt

CONSTANTS
  Handles,    \* 0 .. NET_MAX_HANDLES - 1
  Names,      \* host names
  Schemes,    \* URL schemes in use
  RingSize,   \* NET_RX_RING_SIZE, in items
  HdrLens,    \* lengths of HTTP response headers, in items
  Watched,    \* handles that fairness and liveness are about
  MaxOpen,    \* handles the Beeb's program opens at a time
  Reads,      \* how many items a read asks for
  MaxConn,    \* TCP pcbs at a time
  SegSizes,   \* sizes of TCP segments, in items
  DgramSizes, \* sizes of datagrams, in items
  MaxEvents   \* segments, datagrams and errors that arrive, and BBC resets

ASSUME NetServiceAssumption ==
  /\ Handles \subseteq Nat /\ MaxOpen \in Nat
  /\ Watched \subseteq Handles
  /\ Reads \subseteq Nat \ {0}
  /\ Schemes \subseteq {"tcp", "udp", "http", "telnet"}
  /\ HdrLens \subseteq Nat \ {0} /\ HdrLens # {}
  /\ RingSize \in Nat \ {0}
  /\ SegSizes \subseteq 1 .. RingSize /\ DgramSizes \subseteq Nat
  /\ MaxConn \in Nat /\ MaxEvents \in Nat

None  == "none"
Null  == -1            \* no handle
Conns == 1 .. MaxConn

VARIABLES
  net_h,   \* the handle table
  pcb,     \* lwIP's TCP pcbs, with what their peers have sent
  query,   \* lwIP's DNS queries out: [h, name]
  left,    \* events left
  own,     \* the handles the Beeb's program knows to be its own
  hist     \* history, per handle: see Fresh

vars == <<net_h, pcb, query, left, own, hist>>

\* net_handle_reset.  tpcb is 0 for NULL; accept is accept_h while
\* accept_ready; ok and dns stand for dns_ok and for the name whose address
\* dns_ip holds, both only while dns_done, as nothing reads them else.
Free ==
  [state |-> "free", type |-> "tcp", url |-> None, phase |-> "start",
   tpcb |-> 0, upcb |-> FALSE, ring |-> << >>, eof |-> FALSE,
   parked |-> FALSE, hdr |-> FALSE, done |-> FALSE, ok |-> FALSE,
   dns |-> None, accept |-> Null]

\* History of a handle since it was opened: the connection it was given, the
\* items drained from its ring, the name being asked for, how the last read
\* ended the stream if it did, and whether the listener that offered it was
\* closed before the Beeb collected it.
Fresh == [conn |-> 0, taken |-> << >>, asked |-> None, read |-> None,
          orphan |-> FALSE]

\* A pcb (gone: freed by lwIP, kept for the history; unused: free to be
\* handed out).  seg is the size of the segment lwIP holds for the handle, 0 if
\* none; hdr the length of the headers of an HTTP response.
NoPcb == [st |-> "unused", arg |-> Null, got |-> 0, seg |-> 0, fin |-> FALSE,
          hdr |-> 0]

Init ==
  /\ net_h = [x \in Handles |-> Free]
  /\ pcb = [c \in Conns |-> NoPcb]
  /\ query = {} /\ own = {}
  /\ left = MaxEvents
  /\ hist = [x \in Handles |-> Fresh]

Put(x, r) == net_h' = [net_h EXCEPT ![x] = r]

\* The next pcb lwIP hands out.
New == {c \in Conns : pcb[c].st = "unused"
                        /\ \A d \in 1 .. c - 1 : pcb[d].st # "unused"}

-----------------------------------------------------------------------------
(* lwIP callbacks.  The pcb's arg is the handle. *)

net_tcp_connected(c) ==
  /\ pcb[c].st = "syn"
  /\ pcb' = [pcb EXCEPT ![c].st = "est"]
  /\ Put(pcb[c].arg, [net_h[pcb[c].arg] EXCEPT !.state = "connected"])
  /\ UNCHANGED <<query, left, own, hist>>

\* Mutant: the freed pcb is kept.
TcpErrKeepsPcb(c) ==
  /\ pcb[c].st \in {"syn", "est"} /\ left > 0 /\ left' = left - 1
  /\ pcb' = [pcb EXCEPT ![c].st = "gone", ![c].arg = Null]
  /\ Put(pcb[c].arg, [net_h[pcb[c].arg] EXCEPT !.state = "error"])
  /\ UNCHANGED <<query, own, hist>>

\* A reset or a failed connect; lwIP has freed the pcb.
net_tcp_err(c) ==
  /\ pcb[c].st \in {"syn", "est"} /\ left > 0 /\ left' = left - 1
  /\ pcb' = [pcb EXCEPT ![c].st = "gone", ![c].arg = Null]
  /\ Put(pcb[c].arg, [net_h[pcb[c].arg] EXCEPT !.tpcb = 0, !.state = "error"])
  /\ UNCHANGED <<query, own, hist>>

Fits(h, n) == n <= RingSize - Len(h.ring)

\* telnet_filter passes on a part of a segment, in order.
Filtered(h, seg) ==
  IF h.url = "telnet"
  THEN {SelectSeq(seg, LAMBDA i : i \in keep) : keep \in SUBSET Range(seg)}
  ELSE {seg}

Segment(c, n) == [i \in 1 .. n |-> <<c, pcb[c].got + i>>]

\* Mutant: a segment that does not fit is freed and acknowledged.
RecvDataDrops(c) ==
  LET h == net_h[pcb[c].arg] IN
  /\ pcb[c].seg # 0
  /\ pcb' = [pcb EXCEPT ![c].got = @ + pcb[c].seg, ![c].seg = 0]
  /\ \/ /\ Fits(h, pcb[c].seg)
        /\ Put(pcb[c].arg, [h EXCEPT !.ring = @ \o Segment(c, pcb[c].seg)])
     \/ ~Fits(h, pcb[c].seg) /\ UNCHANGED net_h

\* The held segment: accepted whole, or refused, in which case lwIP keeps
\* it and presents it again.
RecvData(c) ==
  LET h == net_h[pcb[c].arg] IN
  /\ pcb[c].seg # 0
  /\ \/ /\ Fits(h, pcb[c].seg)
        /\ \E seg \in Filtered(h, Segment(c, pcb[c].seg)) :
             Put(pcb[c].arg, [h EXCEPT !.ring = @ \o seg, !.parked = FALSE])
        /\ pcb' = [pcb EXCEPT ![c].got = @ + pcb[c].seg, ![c].seg = 0]
     \/ /\ ~Fits(h, pcb[c].seg)
        /\ Put(pcb[c].arg, [h EXCEPT !.parked = TRUE])
        /\ UNCHANGED pcb

\* The FIN comes behind all data.
RecvFin(c) ==
  /\ pcb[c].fin /\ pcb[c].seg = 0
  /\ Put(pcb[c].arg, [net_h[pcb[c].arg] EXCEPT !.eof = TRUE])
  /\ UNCHANGED pcb

net_tcp_recv(c) ==
  /\ pcb[c].st = "est"
  /\ RecvData(c) \/ RecvFin(c)
  /\ UNCHANGED <<query, left, own, hist>>

FreeHandles ==
  {x \in Handles : net_h[x].state = "free"
                     /\ \A y \in Handles : net_h[y].state = "free" => x <= y}

\* Mutant: the one-deep backlog is overwritten.
AcceptOver(l, c) ==
  LET lh == pcb[l].arg IN
  /\ pcb[l].st = "listen" /\ c \in New
  /\ \E x \in FreeHandles :
       /\ net_h' = [net_h EXCEPT
                      ![x] = [Free EXCEPT !.state = "connected", !.tpcb = c],
                      ![lh].accept = x]
       /\ pcb' = [pcb EXCEPT ![c].st = "est", ![c].arg = x]
       /\ hist' = [hist EXCEPT ![x] = [Fresh EXCEPT !.conn = c]]
  /\ UNCHANGED <<query, left, own>>

\* A connection for listener l is given a handle of its own.  (It is aborted,
\* and nothing changes, when the one-deep backlog is taken or no handle is
\* free.)
net_tcp_accept(l, c) ==
  LET lh == pcb[l].arg IN
  /\ pcb[l].st = "listen" /\ c \in New
  /\ net_h[lh].accept = Null
  /\ \E x \in FreeHandles :
       /\ net_h' = [net_h EXCEPT
                      ![x] = [Free EXCEPT !.state = "connected", !.tpcb = c],
                      ![lh].accept = x]
       /\ pcb' = [pcb EXCEPT ![c].st = "est", ![c].arg = x]
       /\ hist' = [hist EXCEPT ![x] = [Fresh EXCEPT !.conn = c]]
  /\ UNCHANGED <<query, left, own>>

net_dns_found(q, ok) ==
  /\ query' = query \ {q}
  /\ Put(q.h, [net_h[q.h] EXCEPT
                 !.done = TRUE, !.ok = ok,
                 !.dns = IF ok THEN q.name ELSE @,
                 !.state = IF @ = "resolving" THEN "idle" ELSE @])
  /\ UNCHANGED <<pcb, left, own, hist>>

UdpRoom(h, n) == n + 1 <= RingSize - Len(h.ring)

\* A datagram is queued whole, as header and payload, or dropped.
net_udp_recv(x, n) ==
  /\ net_h[x].upcb /\ left > 0
  /\ left' = left - 1
  /\ net_h' = IF UdpRoom(net_h[x], n)
              THEN [net_h EXCEPT ![x].ring =
                      @ \o << <<0, n>> >> \o [i \in 1 .. n |-> <<0, -1>>]]
              ELSE net_h
  /\ UNCHANGED <<pcb, query, own, hist>>

\* The peers.
PeerSend(c, n) ==
  /\ pcb[c].st = "est" /\ ~pcb[c].fin
  /\ pcb[c].seg = 0 /\ left > 0
  /\ pcb' = [pcb EXCEPT ![c].seg = n]
  /\ left' = left - 1
  /\ UNCHANGED <<net_h, query, own, hist>>

PeerFin(c) ==
  /\ pcb[c].st = "est" /\ ~pcb[c].fin
  /\ pcb' = [pcb EXCEPT ![c].fin = TRUE]
  /\ UNCHANGED <<net_h, query, left, own, hist>>

-----------------------------------------------------------------------------
(* Raw socket commands. *)

\* The Beeb's program opens the first handle that is not in use.
MayOpen(x) ==
  /\ x \notin own /\ Cardinality(own) < MaxOpen
  /\ \A y \in Handles : y < x => net_h[y].state # "free"

do_open(x, type) ==
  /\ MayOpen(x) /\ net_h[x].state = "free"
  /\ Put(x, [Free EXCEPT !.state = "idle", !.type = type, !.upcb = (type = "udp")])
  /\ own' = own \union {x}
  /\ hist' = [hist EXCEPT ![x] = Fresh]
  /\ UNCHANGED <<pcb, query, left>>

\* The Beeb's program uses a raw command on x.
Raw(x) == x \in own /\ net_h[x].url = None /\ net_h[x].state # "free"

do_listen(x) ==
  LET h == net_h[x] IN
  /\ Raw(x) /\ h.type = "tcp"
  /\ \/ /\ h.state = "idle"
        /\ \E c \in New :
             /\ pcb' = [pcb EXCEPT ![c].st = "listen", ![c].arg = x]
             /\ Put(x, [h EXCEPT !.tpcb = c, !.state = "listening"])
        /\ UNCHANGED own
     \/ /\ h.state = "listening" /\ h.accept # Null
        /\ Put(x, [h EXCEPT !.accept = Null])
        /\ own' = own \union {h.accept}
        /\ UNCHANGED pcb
  /\ UNCHANGED <<query, left, hist>>

Consumed(h) == [h EXCEPT !.done = FALSE, !.ok = FALSE, !.dns = None]

\* The Beeb asks with one name until it has an answer, and before the handle
\* has a connection.  (An answer from lwIP's cache comes at once and changes
\* nothing.)
do_dns(x, name) ==
  LET h == net_h[x] IN
  /\ Raw(x) /\ hist[x].asked \in {None, name}
  /\ h.tpcb = 0 /\ h.state = "idle"
  /\ \/ /\ h.done
        /\ Put(x, Consumed(h))
        /\ hist' = [hist EXCEPT ![x].asked = None]
        /\ UNCHANGED query
     \/ /\ ~h.done
        /\ query' = query \union {[h |-> x, name |-> name]}
        /\ Put(x, [h EXCEPT !.state = "resolving"])
        /\ hist' = [hist EXCEPT ![x].asked = name]
  /\ UNCHANGED <<pcb, left, own>>

\* The history of x becomes g, as its address is dialled.
Dialled(x, g) ==
  hist' = [hist EXCEPT ![x] = [g EXCEPT !.asked = None]]

Noted(x, g) == hist' = [hist EXCEPT ![x] = g]

Syn(x, c, h) ==
  /\ \E n \in IF h.url = "http" THEN HdrLens ELSE {0} :
       pcb' = [pcb EXCEPT ![c] = [NoPcb EXCEPT !.st = "syn", !.arg = x, !.hdr = n]]
  /\ Put(x, [h EXCEPT !.tpcb = c, !.state = "connecting"])

\* A connect with h and g as the record and history of x: it starts,
\* altcp_connect fails, or no pcb is to be had; then the URL phase is
\* `failed'.  A pcb that was in h
\* is forgotten.
net_start_connect(x, h, g, failed) ==
  \/ \E c \in New : Syn(x, c, h) /\ Dialled(x, [g EXCEPT !.conn = c])
  \/ /\ \E state \in {"error", h.state} :
          Put(x, [h EXCEPT !.tpcb = 0, !.state = state, !.phase = failed])
     /\ Noted(x, g) /\ UNCHANGED pcb

\* The Beeb connects to an address of its own choice.
do_connect(x) ==
  /\ Raw(x) /\ net_h[x].type = "tcp" /\ net_h[x].state = "idle"
  /\ net_start_connect(x, net_h[x], hist[x], "start")
  /\ UNCHANGED <<query, left, own>>

\* The end of the stream that a read of h reports once it has drained n items.
StreamEnd(h, n) ==
  IF n # 0 \/ h.ring # << >> THEN None
  ELSE IF h.eof THEN "eof" ELSE IF h.state = "error" THEN "error" ELSE None

\* ring_get of up to max items, after a header of `skip' items.
Drain(x, max, skip) ==
  LET h == net_h[x]
      n == skip + IF max < Len(h.ring) - skip THEN max ELSE Len(h.ring) - skip
      r == [h EXCEPT !.ring = SubSeq(@, n + 1, Len(@)), !.hdr = @ \/ skip # 0]
  IN /\ Put(x, r)
     /\ hist' = [hist EXCEPT ![x].taken = @ \o SubSeq(h.ring, 1, n),
                             ![x].read = StreamEnd(r, n - skip)]

do_recv(x, max) ==
  /\ Raw(x) /\ net_h[x].type = "tcp"
  /\ Drain(x, max, 0)
  /\ UNCHANGED <<pcb, query, left, own>>

\* One whole datagram leaves the ring, whatever part of it the caller takes.
PopRecord(x) ==
  LET h == net_h[x] IN
  /\ h.ring # << >>
  /\ Put(x, [h EXCEPT !.ring = SubSeq(@, Head(@)[2] + 2, Len(@))])
  /\ UNCHANGED <<pcb, query, left, own, hist>>

do_udp_recvfrom(x) == Raw(x) /\ net_h[x].type = "udp" /\ PopRecord(x)

\* net_pcb_release: lwIP frees the pcbs cs.  A DNS query out keeps its arg.
Released(p, cs) == [c \in Conns |-> IF c \in cs
                                    THEN NoPcb
                                    ELSE p[c]]

\* What is left when the handles xs are closed: the answer to a DNS query that
\* is out will come to whoever has the handle then, and a connection that a
\* listener has accepted stays open on a handle that nobody knows.
Closed(xs) ==
  [x \in Handles |->
     IF x \in xs THEN Fresh
     ELSE [hist[x] EXCEPT !.orphan = @ \/ \E y \in xs : net_h[y].accept = x]]

do_close(x) ==
  /\ x \in own
  /\ pcb' = Released(pcb, {net_h[x].tpcb, hist[x].conn})
  /\ Put(x, Free)
  /\ own' = own \ {x}
  /\ hist' = Closed({x})
  /\ UNCHANGED <<query, left>>

\* net_service_init and the teardown of the next net_service_poll.
BeebReset ==
  /\ left > 0
  /\ left' = left - 1
  /\ pcb' = Released(pcb, UNION {{net_h[x].tpcb, hist[x].conn} : x \in Handles})
  /\ net_h' = [x \in Handles |-> Free]
  /\ own' = {}
  /\ hist' = Closed(Handles)
  /\ UNCHANGED query

-----------------------------------------------------------------------------
(* The N: device. *)

\* The address is known: UDP is ready at once or fails, the rest connect.
url_after_resolve(x, h, g) ==
  \/ /\ h.url = "udp"
     /\ \/ /\ Put(x, [h EXCEPT !.upcb = TRUE, !.state = "connected", !.phase = "ready"])
           /\ Dialled(x, g)
        \/ Put(x, [h EXCEPT !.phase = "fail"]) /\ Noted(x, g)
     /\ UNCHANGED pcb
  \/ /\ h.url # "udp"
     /\ net_start_connect(x, [h EXCEPT !.phase = "connecting"], g, "fail")

\* URL_START: the first call takes the handle.  The address is at hand
\* (dotted, or in lwIP's cache), is being looked up, or cannot be.
UrlStart(x, url, name) ==
  LET h == [Free EXCEPT !.url = url, !.state = "idle",
                        !.type = IF url = "udp" THEN "udp" ELSE "tcp"]
      g == [Fresh EXCEPT !.asked = name]
  IN
  /\ MayOpen(x) /\ net_h[x].state = "free" /\ net_h[x].phase = "start"
  /\ own' = own \union {x}
  /\ \/ url_after_resolve(x, h, g) /\ UNCHANGED query
     \/ /\ query' = query \union {[h |-> x, name |-> name]}
        /\ Put(x, [h EXCEPT !.state = "resolving", !.phase = "resolving"])
        /\ Noted(x, g) /\ UNCHANGED pcb
     \/ /\ Put(x, [h EXCEPT !.phase = "fail"])
        /\ Noted(x, g) /\ UNCHANGED <<pcb, query>>

\* URL_RESOLVING and URL_CONNECTING: a later call with the same URL.
UrlResolving(x) ==
  LET h == net_h[x] IN
  /\ x \in own /\ h.phase = "resolving" /\ h.done
  /\ \/ /\ ~h.ok /\ Put(x, [Consumed(h) EXCEPT !.phase = "fail"])
        /\ UNCHANGED <<pcb, hist>>
     \/ /\ h.ok
        /\ url_after_resolve(x, [Consumed(h) EXCEPT !.state = "idle"], hist[x])
  /\ UNCHANGED <<query, own>>

\* The HTTP request may find no memory.
UrlConnecting(x) ==
  LET h == net_h[x] IN
  /\ x \in own /\ h.phase = "connecting"
  /\ \/ h.state = "error" /\ Put(x, [h EXCEPT !.phase = "fail"])
     \/ /\ h.state = "connected"
        /\ \E phase \in {"ready"} \union (IF h.url = "http" THEN {"fail"} ELSE {}) :
             Put(x, [h EXCEPT !.phase = phase])
  /\ UNCHANGED <<pcb, query, own, hist>>

\* A malformed URL spoils the handle only when somebody has it.
UrlBad(x) ==
  /\ x \notin own /\ net_h[x].state # "free"
  /\ Put(x, [net_h[x] EXCEPT !.phase = "fail"])
  /\ UNCHANGED <<pcb, query, own, hist>>

do_url_open(x, url, name) ==
  /\ UNCHANGED left
  /\ UrlStart(x, url, name) \/ UrlResolving(x) \/ UrlConnecting(x) \/ UrlBad(x)

\* Header items in the ring, 0 while the end of the headers is missing.
net_http_find_headers(x) ==
  LET n == pcb[hist[x].conn].hdr IN
  IF Len(net_h[x].ring) >= n THEN n ELSE 0

\* Mutant: only a ring full to the last byte counts as stuck.
HeadersStuckByCount(h) == Len(h.ring) >= RingSize

HeadersStuck(h) == h.parked \/ Len(h.ring) >= RingSize - 1

\* HTTP before the headers are in.
ReadHeaders(x, max) ==
  LET h == net_h[x] IN
  \/ /\ net_http_find_headers(x) = 0
     /\ hist' = [hist EXCEPT ![x].read =
                   IF HeadersStuck(h) THEN "error"
                   ELSE StreamEnd([h EXCEPT !.ring = << >>], 0)]
     /\ UNCHANGED net_h
  \/ /\ net_http_find_headers(x) # 0
     /\ Drain(x, max, net_http_find_headers(x))

do_url_read(x, max) ==
  /\ x \in own /\ net_h[x].url # None /\ net_h[x].phase = "ready"
  /\ \/ net_h[x].url = "udp" /\ PopRecord(x)
     \/ /\ net_h[x].url # "udp"
        /\ IF net_h[x].url = "http" /\ ~net_h[x].hdr
           THEN ReadHeaders(x, max) ELSE Drain(x, max, 0)
        /\ UNCHANGED <<pcb, query, left, own>>

-----------------------------------------------------------------------------
Command(x) ==
  \/ \E type \in {"tcp", "udp"} : do_open(x, type)
  \/ do_listen(x) \/ do_connect(x) \/ do_close(x) \/ do_udp_recvfrom(x)
  \/ \E name \in Names : do_dns(x, name)
  \/ \E url \in Schemes, name \in Names : do_url_open(x, url, name)
  \/ \E max \in Reads : do_recv(x, max) \/ do_url_read(x, max)

Callback ==
  \/ \E c \in Conns : net_tcp_connected(c) \/ net_tcp_err(c) \/ net_tcp_recv(c)
  \/ \E l, c \in Conns : net_tcp_accept(l, c)
  \/ \E q \in query, ok \in BOOLEAN : net_dns_found(q, ok)
  \/ \E x \in Handles, n \in DgramSizes : net_udp_recv(x, n)

Next ==
  \/ \E x \in Handles : Command(x)
  \/ Callback
  \/ \E c \in Conns : PeerFin(c) \/ \E n \in SegSizes : PeerSend(c, n)
  \/ BeebReset

\* lwIP delivers what it has, peers end their streams, and the Beeb reads an
\* open URL to its end.
Fairness ==
  /\ \A c \in Conns : WF_vars(net_tcp_recv(c)) /\ WF_vars(PeerFin(c))
  /\ \A x \in Watched : WF_vars(\E max \in Reads : do_url_read(x, max))

Spec == Init /\ [][Next]_vars /\ Fairness

-----------------------------------------------------------------------------
\* Every variable has its type.
TypeOK ==
  /\ net_h \in [Handles ->
       [state : {"free", "idle", "resolving", "connecting", "connected",
                 "listening", "error"},
        type : {"tcp", "udp"}, url : Schemes \union {None},
        phase : {"start", "resolving", "connecting", "ready", "fail"},
        tpcb : {0} \union Conns, upcb : BOOLEAN,
        ring : Seq(({0} \union Conns) \X (Int)),
        eof : BOOLEAN, parked : BOOLEAN, hdr : BOOLEAN, done : BOOLEAN,
        ok : BOOLEAN, dns : Names \union {None},
        accept : Handles \union {Null}]]
  /\ pcb \in [Conns ->
       [st : {"unused", "listen", "syn", "est", "gone"},
        arg : Handles \union {Null}, got : Nat,
        seg : {0} \union SegSizes, fin : BOOLEAN, hdr : {0} \union HdrLens]]
  /\ query \subseteq [h : Handles, name : Names]
  /\ own \subseteq Handles

\* A handle's pcb and lwIP's pcbs agree: every pcb that calls a handle back
\* is the one the handle holds, and a handle holds no pcb that lwIP has freed.
\* (net_tcp_err: "NULL it, never touch it again"; net_pcb_release.)
PcbOwned ==
  /\ \A c \in Conns : pcb[c].arg # Null => net_h[pcb[c].arg].tpcb = c
  /\ \A x \in Handles : net_h[x].tpcb # 0 => pcb[net_h[x].tpcb].arg = x

\* A handle in use is known to the Beeb, or offered to it by exactly one
\* listener, or was offered by a listener that is closed, and only one of
\* these: net_tcp_accept claims a handle that do_listen reports, and nothing
\* but do_close of that listener loses it, until the next reset of the Beeb.
HandlesAccounted ==
  \A x \in Handles :
    LET by == {y \in Handles : net_h[y].accept = x} IN
    /\ net_h[x].state # "free" <=> x \in own \/ by # {} \/ hist[x].orphan
    /\ x \in own => by = {} /\ ~hist[x].orphan
    /\ hist[x].orphan => by = {}
    /\ \A y, z \in by : y = z

\* The end of a stream is reported when everything its peer sent has been
\* read, or thrown away with headers that never ended (do_recv, do_url_read).
EofAfterData ==
  \A x \in Handles :
    (hist[x].read = "eof" /\ net_h[x].url # "telnet") =>
      \/ Len(hist[x].taken) = pcb[hist[x].conn].got + pcb[hist[x].conn].seg
      \/ net_h[x].url = "http" /\ ~net_h[x].hdr

\* What the Beeb has drained and what is in the ring are together a prefix
\* of the connection's stream, with nothing lost, repeated or moved by
\* refused segments, and the whole of it when the end is reported; no ring,
\* of a UDP socket either, is overfilled.  (The telnet filter leaves items out.)
StreamExact ==
  /\ EofAfterData
  /\ \A x \in Handles : Len(net_h[x].ring) <= RingSize
  /\ \A x \in Handles :
       LET s == hist[x].taken \o net_h[x].ring IN
       net_h[x].type = "tcp" =>
         /\ \A i, j \in 1 .. Len(s) : i < j => s[i][2] < s[j][2]
         /\ \A i \in 1 .. Len(s) : s[i][1] = hist[x].conn
         /\ (hist[x].conn # 0 /\ net_h[x].url # "telnet") => Len(s) = pcb[hist[x].conn].got

\* A program that reads a stream URL to its end gets there: in particular it
\* never waits for HTTP headers that back-pressure keeps out (do_url_read:
\* "fail rather than deadlock").
UrlReadEnds ==
  \A x \in Watched :
    (net_h[x].url \notin {None, "udp"} /\ net_h[x].phase = "ready") ~>
      (hist[x].read \in {"eof", "error"} \/ net_h[x].state = "free")
=============================================================================
