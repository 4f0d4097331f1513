------------------------------- MODULE AunTx -------------------------------
(***************************************************************************)
(* The transmit side of the AUN engine (aun.c): one outstanding transmit   *)
(* or immediate, retransmitted on an explicit reject, reported as failed   *)
(* on silence, over a network that loses, reorders and duplicates.         *)
(*                                                                         *)
(* Deadlines are kept as the ticks left.  Every function runs in the main  *)
(* loop and is one step; aun_poll here is its transmit half.               *)
(***************************************************************************)
EXTENDS Naturals, FiniteSets

CONSTANTS
  Peers,          \* peers, each an (IP, UDP port)
  Dests,          \* Econet addresses the host transmits to
  Route,          \* [Dests -> Peers \cup {None}]: station map and learn mode
  TestDest,       \* the loopback responder's address, or None
  RejectRetries,  \* AUN_REJECT_RETRIES
  NorespRetries,  \* AUN_NORESP_RETRIES
  RejectTimeout,  \* AUN_REJECT_TIMEOUT_MS, in ticks
  NorespTimeout,  \* AUN_NORESP_TIMEOUT_MS, in ticks
  MaxDup,         \* answers the network duplicates
  MaxSeq,         \* transactions and broadcasts, one fewer after an INIT
  MaxInit         \* AUN_CMD_INITs after the first

None == "none"

ASSUME AunTxAssumption ==
  /\ None \notin Peers \cup Dests
  /\ Route \in [Dests -> Peers \cup {None}]
  /\ TestDest \in Dests \cup {None}
  /\ RejectRetries \in Nat /\ NorespRetries \in Nat
  /\ RejectTimeout \in Nat \ {0} /\ NorespTimeout \in Nat \ {0}
  /\ MaxSeq \in Nat /\ MaxInit \in Nat /\ MaxDup \in Nat

Types   == {"data", "imm"}
Answers == {"ack", "nak", "reply"}
Pending == "pending"
States  == {"ok", "not_listening", "net_error", Pending}

VARIABLES
  tx,       \* e->tx
  nextSeq,  \* e->next_seq / 4
  out,      \* datagrams on their way to the peers
  in,       \* answers on their way to the engine
  inc,      \* INITs so far
  dups,     \* answers duplicated so far
  served,   \* history: transactions a peer has carried out
  age       \* history: ticks the current transaction has been pending

vars == <<tx, nextSeq, out, in, inc, dups, served, age>>

\* wire is false for a transaction the loopback responder completed.
Txs == [state : States, type : Types, peer : Peers \cup {None},
        seq : 0 .. MaxSeq, wire : BOOLEAN,
        rejectLeft : 0 .. RejectRetries, rejectPending : BOOLEAN,
        norespLeft : 0 .. NorespRetries,
        left : 0 .. RejectTimeout + NorespTimeout]

Datagrams == [type : Types, peer : Peers, seq : 1 .. MaxSeq]
Replies   == [type : Answers, peer : Peers, seq : 1 .. MaxSeq]

Idle == [state |-> "ok", type |-> "data", peer |-> None, seq |-> 0,
         wire |-> FALSE, rejectLeft |-> 0, rejectPending |-> FALSE,
         norespLeft |-> 0, left |-> 0]

\* The engine after the first AUN_CMD_INIT.
Init ==
  /\ tx = Idle /\ nextSeq = 1 /\ inc = 0
  /\ out = {} /\ in = {} /\ dups = 0 /\ served = {} /\ age = 0

Transaction == [type |-> tx.type, peer |-> tx.peer, seq |-> tx.seq]

-----------------------------------------------------------------------------
(* The peers and the network *)

\* A peer takes a datagram off the network and carries the request out, now
\* or earlier, and answers; or rejects it; or stays silent.  An immediate
\* may be acknowledged as well as replied to.
PeerAnswers(d) ==
  /\ out' = out \ {d}
  /\ \/ /\ served' = served \cup {d}
        /\ \E a \in IF d.type = "data" THEN {"ack"} ELSE {"ack", "reply"} :
             in' = in \cup {[d EXCEPT !.type = a]}
     \/ in' = in \cup {[d EXCEPT !.type = "nak"]} /\ UNCHANGED served
     \/ UNCHANGED <<in, served>>
  /\ UNCHANGED <<tx, nextSeq, inc, age, dups>>

\* An answer is lost, or was the last copy of a duplicated one.
Lose(a) ==
  /\ in' = in \ {a}
  /\ UNCHANGED <<tx, nextSeq, out, inc, served, age, dups>>

-----------------------------------------------------------------------------
(* The engine *)

\* udp_send of the current datagram; the transport may refuse it.
Send(t) ==
  \/ /\ out' = out \cup {[type |-> t.type, peer |-> t.peer, seq |-> t.seq]}
     /\ tx' = [t EXCEPT !.left = NorespTimeout]
  \/ /\ tx' = [t EXCEPT !.state = "net_error"]
     /\ UNCHANGED out

RejectBudget(type) == IF type = "data" THEN RejectRetries ELSE 0

\* tx_begin to a peer.
Begin(type, p) ==
  /\ nextSeq + inc <= MaxSeq
  /\ Send([state |-> Pending, type |-> type, peer |-> p, seq |-> nextSeq,
           wire |-> TRUE, rejectLeft |-> RejectBudget(type),
           rejectPending |-> FALSE, norespLeft |-> NorespRetries,
           left |-> tx.left])
  /\ nextSeq' = nextSeq + 1
  /\ age' = 0

\* tx_begin to the loopback responder: completed on the spot, as OK or, for
\* a data frame no receive block takes, as NOT_LISTENING.
Loopback(type) ==
  /\ \/ tx' = [tx EXCEPT !.state = "ok", !.wire = FALSE]
     \/ /\ type = "data"
        /\ tx' = [tx EXCEPT !.state = "not_listening", !.wire = FALSE]
  /\ UNCHANGED <<nextSeq, out, age>>

\* AUN_CMD_TX and AUN_CMD_IMMEDIATE.  BUSY, PARAM and NO_ROUTE are returned
\* to the host and change nothing.
tx_begin(type, dest) ==
  /\ tx.state # Pending
  /\ \/ dest = TestDest /\ Loopback(type)
     \/ /\ dest # TestDest /\ Route[dest] # None
        /\ Begin(type, Route[dest])
  /\ UNCHANGED <<in, inc, served, dups>>

\* AUN_CMD_BCAST: fire and forget, but it takes a sequence number.
aun_broadcast ==
  /\ nextSeq + inc <= MaxSeq
  /\ nextSeq' = nextSeq + 1
  /\ UNCHANGED <<tx, out, in, inc, served, age, dups>>

\* AUN_CMD_INIT: the engine is zeroed, a transmit in flight forgotten.
aun_init ==
  /\ inc < MaxInit
  /\ inc' = inc + 1
  /\ tx' = Idle /\ nextSeq' = 1 /\ age' = 0
  /\ UNCHANGED <<out, in, served, dups>>

\* Mutant: the answer's sequence number is not compared.
ForCurrentNoSeq(a) == tx.state = Pending /\ a.peer = tx.peer

ForCurrent(a) ==
  tx.state = Pending /\ a.seq = tx.seq /\ a.peer = tx.peer

\* Mutant: a reject does not use the budget up.
RejectForever ==
  tx' = [tx EXCEPT !.rejectPending = TRUE, !.left = RejectTimeout]

\* A NAK: schedule a retransmission while the budget lasts, else fail.
Reject ==
  tx' = IF tx.rejectLeft > 0
        THEN [tx EXCEPT !.rejectLeft = @ - 1, !.rejectPending = TRUE,
                        !.left = RejectTimeout]
        ELSE [tx EXCEPT !.state = "not_listening"]

\* aun_udp_input of an ACK, NAK or IMM_REPLY.  An ACK completes data only, a
\* reply an immediate only.
aun_udp_input(a) ==
  /\ \/ in' = in \ {a} /\ UNCHANGED dups
     \/ dups < MaxDup /\ dups' = dups + 1 /\ UNCHANGED in
  /\ \/ ForCurrent(a) /\ a.type = "nak" /\ Reject
     \/ /\ ForCurrent(a)
        /\ <<a.type, tx.type>> \in {<<"ack", "data">>, <<"reply", "imm">>}
        /\ tx' = [tx EXCEPT !.state = "ok"]
     \/ /\ ~ForCurrent(a) \/ <<a.type, tx.type>> \in {<<"ack", "imm">>,
                                                     <<"reply", "data">>}
        /\ UNCHANGED tx
  /\ UNCHANGED <<nextSeq, out, inc, served, age>>

\* Mutant: silence is not timed out.
PollDueRejectOnly == tx.state = Pending /\ tx.left = 0 /\ tx.rejectPending

PollDue == tx.state = Pending /\ tx.left = 0

\* aun_poll once the deadline has passed: the scheduled retransmission, else
\* silence, which fails the transmit when no silence retry is left.
aun_poll ==
  /\ PollDue
  /\ \/ /\ tx.rejectPending
        /\ Send([tx EXCEPT !.rejectPending = FALSE])
     \/ /\ ~tx.rejectPending /\ tx.norespLeft = 0
        /\ tx' = [tx EXCEPT !.state = "not_listening"]
        /\ UNCHANGED <<out>>
     \/ /\ ~tx.rejectPending /\ tx.norespLeft > 0
        /\ Send([tx EXCEPT !.norespLeft = @ - 1])
  /\ UNCHANGED <<nextSeq, in, inc, served, age, dups>>

\* Time passes.  The main loop polls more often than once a tick, so a due
\* poll comes before the next tick.
Tick ==
  /\ tx.state = Pending /\ tx.left > 0
  /\ tx' = [tx EXCEPT !.left = @ - 1]
  /\ age' = age + 1
  /\ UNCHANGED <<nextSeq, out, in, inc, served, dups>>

-----------------------------------------------------------------------------
Next ==
  \/ \E type \in Types, dest \in Dests : tx_begin(type, dest)
  \/ aun_broadcast \/ aun_init \/ aun_poll \/ Tick
  \/ \E a \in in : aun_udp_input(a) \/ Lose(a)
  \/ \E d \in out : PeerAnswers(d)

Spec == Init /\ [][Next]_vars

\* The main loop polls and the clock runs.  Nothing is asked of the network.
FairSpec == Spec /\ WF_vars(aun_poll) /\ WF_vars(Tick)

-----------------------------------------------------------------------------
(* Properties *)

TypeOK ==
  /\ tx \in Txs
  /\ nextSeq \in 1 .. MaxSeq + 1
  /\ inc \in 0 .. MaxInit /\ dups \in 0 .. MaxDup
  /\ out \subseteq Datagrams /\ served \subseteq Datagrams
  /\ in \subseteq Replies
  /\ age \in Nat

\* As long as INIT has not restarted the numbering, a transmit reported OK was
\* carried out by the peer it was addressed to; late, duplicated and
\* reordered answers to earlier transactions complete nothing (aun_udp_input).
OkMeansServed ==
  inc = 0 /\ tx.state = "ok" /\ tx.wire => Transaction \in served

\* The Beeb's foreground stall (aun.h: "the engine's timeout IS the Beeb's
\* foreground stall"): a transmit is pending no longer than one silence
\* window for each datagram and one reject delay for each rejection.
StallBounded ==
  tx.state = Pending =>
    age + tx.left <= (1 + RejectRetries + NorespRetries) * NorespTimeout
                       + RejectRetries * RejectTimeout

\* Every transmit completes, whatever the network does.
TxCompletes == tx.state = Pending ~> tx.state # Pending
=============================================================================
