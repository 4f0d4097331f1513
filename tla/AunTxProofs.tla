---------------------------- MODULE AunTxProofs ----------------------------
(***************************************************************************)
(* The transmit engine for any routes, budgets, timeouts and number of     *)
(* transactions: an OK is the peer's, and the Beeb's stall is bounded.     *)
(***************************************************************************)
EXTENDS AunTx, TLAPS

\* The longest a transmit may still be pending after its deadline: a silence
\* window for each silence retry, a reject delay and a silence window for each
\* reject retry, and the window of a retransmission already scheduled.
Remaining(t) ==
  t.norespLeft * NorespTimeout + t.rejectLeft * (RejectTimeout + NorespTimeout)
    + IF t.rejectPending THEN NorespTimeout ELSE 0

\* The longest a transmit may be pending at all.
Total ==
  NorespTimeout + NorespRetries * NorespTimeout
    + RejectRetries * (RejectTimeout + NorespTimeout)

\* Its age and what may still come are within that.
StallInv ==
  TypeOK /\ (tx.state = Pending => age + tx.left + Remaining(tx) <= Total)

\* What is under way or was carried out under the current number is the
\* current transaction ...
Numbered ==
  \A d \in out \cup served :
    d.seq < nextSeq /\ (d.seq = tx.seq => d = Transaction)

\* ... and a positive answer is to something that was carried out.
AnswersServed ==
  \A a \in in : a.type \in {"ack", "reply"} =>
    \E d \in served : d.seq = a.seq /\ d.peer = a.peer

\* What makes an OK true ...
Truth == tx.seq < nextSeq /\ Numbered /\ AnswersServed /\ OkMeansServed

\* ... and is kept while no INIT reuses numbers.
ServedInv == TypeOK /\ (inc = 0 => Truth)

USE DEF Pending, States, Types, Answers

-----------------------------------------------------------------------------
(* Types *)

\* A transaction that is sent keeps its type, whether the transport takes it
\* or not (udp_send).
LEMMA SendType ==
  ASSUME TypeOK, NEW t \in Txs, t.peer \in Peers, t.seq > 0, Send(t)
  PROVE  tx' \in Txs /\ out' \subseteq Datagrams
  BY AunTxAssumption DEF Send, Txs, Datagrams, TypeOK

\* tx_begin arms a transaction within its budgets.
LEMMA BeginType ==
  ASSUME TypeOK, NEW type \in Types, NEW p \in Peers, Begin(type, p)
  PROVE  tx' \in Txs /\ out' \subseteq Datagrams /\ nextSeq' \in 1 .. MaxSeq + 1
<1> DEFINE t == [state |-> Pending, type |-> type, peer |-> p, seq |-> nextSeq,
                 wire |-> TRUE, rejectLeft |-> RejectBudget(type),
                 rejectPending |-> FALSE, norespLeft |-> NorespRetries,
                 left |-> tx.left]
<1>1. t \in Txs /\ t.peer \in Peers /\ t.seq > 0 /\ nextSeq + 1 \in 1 .. MaxSeq + 1
  BY AunTxAssumption DEF Begin, RejectBudget, TypeOK, Txs
<1>2. Send(t)
  BY DEF Begin
<1> HIDE DEF t
<1>3. QED
  BY <1>1, <1>2, SendType DEF Begin

\* The engine starts idle (aun_init).
LEMMA TypeInit == Init => TypeOK
  BY AunTxAssumption DEF Init, TypeOK, Idle, Txs

\* A pending transaction is of a peer and has a number.
PendingSent == tx.state = Pending => tx.peer \in Peers /\ tx.seq > 0

\* Every handler keeps the types.
LEMMA TypeStep ==
  ASSUME TypeOK, PendingSent, [Next]_vars
  PROVE  TypeOK' /\ PendingSent'
<1> USE AunTxAssumption
<1>1. ASSUME NEW type \in Types, NEW dest \in Dests, tx_begin(type, dest)
      PROVE  TypeOK' /\ PendingSent'
  <2>1. CASE dest = TestDest /\ Loopback(type)
    <3>1. tx' \in Txs /\ tx'.state # Pending
      <4>1. CASE tx' = [tx EXCEPT !.state = "ok", !.wire = FALSE]
        BY <4>1 DEF TypeOK, Txs
      <4>2. CASE tx' = [tx EXCEPT !.state = "not_listening", !.wire = FALSE]
        BY <4>2 DEF TypeOK, Txs
      <4>3. QED
        BY <2>1, <4>1, <4>2 DEF Loopback
    <3>2. QED
      BY <1>1, <2>1, <3>1 DEF tx_begin, Loopback, TypeOK, PendingSent
  <2>2. CASE dest # TestDest /\ Route[dest] # None /\ Begin(type, Route[dest])
    <3>1. Route[dest] \in Peers
      BY <2>2
    <3>2. tx' \in Txs /\ out' \subseteq Datagrams /\ nextSeq' \in 1 .. MaxSeq + 1
      BY <2>2, <3>1, BeginType
    <3>3. tx'.peer = Route[dest] /\ tx'.seq = nextSeq
      BY <2>2 DEF Begin, Send
    <3>4. QED
      BY <1>1, <2>2, <3>1, <3>2, <3>3 DEF tx_begin, Begin, TypeOK, PendingSent
  <2>3. QED
    BY <1>1, <2>1, <2>2 DEF tx_begin
<1>2. CASE aun_broadcast
  BY <1>2 DEF aun_broadcast, TypeOK, PendingSent
<1>3. CASE aun_init
  BY <1>3 DEF aun_init, TypeOK, Idle, Txs, PendingSent
<1>4. CASE aun_poll
  <2>1. CASE tx.rejectPending /\ Send([tx EXCEPT !.rejectPending = FALSE])
    <3> DEFINE t == [tx EXCEPT !.rejectPending = FALSE]
    <3>1. t \in Txs /\ t.peer \in Peers /\ t.seq > 0
      BY <1>4 DEF aun_poll, PollDue, TypeOK, Txs, PendingSent
    <3>2. tx' \in Txs /\ out' \subseteq Datagrams
      BY <2>1, <3>1, SendType
    <3>3. tx'.peer = tx.peer /\ tx'.seq = tx.seq
      BY <2>1 DEF Send, TypeOK, Txs
    <3>4. QED
      BY <1>4, <3>1, <3>2, <3>3 DEF aun_poll, TypeOK, PendingSent, Txs
  <2>2. CASE ~tx.rejectPending /\ tx.norespLeft = 0
    BY <1>4, <2>2 DEF aun_poll, TypeOK, Txs, PendingSent
  <2>3. CASE /\ ~tx.rejectPending /\ tx.norespLeft > 0
             /\ Send([tx EXCEPT !.norespLeft = @ - 1])
    <3> DEFINE t == [tx EXCEPT !.norespLeft = @ - 1]
    <3>1. t \in Txs /\ t.peer \in Peers /\ t.seq > 0
      BY <1>4, <2>3 DEF aun_poll, PollDue, TypeOK, Txs, PendingSent
    <3>2. tx' \in Txs /\ out' \subseteq Datagrams
      BY <2>3, <3>1, SendType
    <3>3. tx'.peer = tx.peer /\ tx'.seq = tx.seq
      BY <2>3 DEF Send, TypeOK, Txs
    <3>4. QED
      BY <1>4, <3>1, <3>2, <3>3 DEF aun_poll, TypeOK, PendingSent, Txs
  <2>4. QED
    BY <1>4, <2>1, <2>2, <2>3 DEF aun_poll
<1>5. CASE Tick
  BY <1>5 DEF Tick, TypeOK, Txs, PendingSent
<1>6. ASSUME NEW a \in in, aun_udp_input(a)
      PROVE  TypeOK' /\ PendingSent'
  <2>1. tx' \in Txs /\ tx'.peer = tx.peer /\ tx'.seq = tx.seq
        /\ (tx'.state = Pending => tx.state = Pending)
    <3>1. CASE tx' = [tx EXCEPT !.rejectLeft = @ - 1, !.rejectPending = TRUE,
                                !.left = RejectTimeout]
               /\ tx.rejectLeft > 0 /\ tx.state = Pending
      <4>1. tx.rejectLeft - 1 \in 0 .. RejectRetries
            /\ RejectTimeout \in 0 .. RejectTimeout + NorespTimeout
        BY <3>1 DEF TypeOK, Txs
      <4>2. QED
        BY <3>1, <4>1, Zenon DEF TypeOK, Txs
    <3>2. CASE \E r \in {"ok", "not_listening"} : tx' = [tx EXCEPT !.state = r]
      BY <3>2 DEF TypeOK, Txs
    <3>3. CASE UNCHANGED tx
      BY <3>3 DEF TypeOK
    <3>4. QED
      BY <1>6, <3>1, <3>2, <3>3 DEF aun_udp_input, ForCurrent, Reject
  <2>2. dups' \in 0 .. MaxDup /\ in' \subseteq Replies
    BY <1>6 DEF aun_udp_input, TypeOK
  <2>3. QED
    BY <1>6, <2>1, <2>2 DEF aun_udp_input, TypeOK, PendingSent
<1>7. ASSUME NEW a \in in, Lose(a)
      PROVE  TypeOK' /\ PendingSent'
  BY <1>7 DEF Lose, TypeOK, PendingSent
<1>8. ASSUME NEW d \in out, PeerAnswers(d)
      PROVE  TypeOK' /\ PendingSent'
  <2>1. d \in Datagrams /\ \A a \in Answers : [d EXCEPT !.type = a] \in Replies
    BY DEF TypeOK, Datagrams, Replies
  <2>2. QED
    BY <1>8, <2>1 DEF PeerAnswers, TypeOK, PendingSent
<1>9. CASE UNCHANGED vars
  BY <1>9 DEF vars, TypeOK, PendingSent
<1>10. QED
  BY <1>1, <1>2, <1>3, <1>4, <1>5, <1>6, <1>7, <1>8, <1>9 DEF Next

\* Every variable keeps its type: no sequence number, budget or deadline of
\* e->tx leaves its range.
THEOREM TxTypeCorrect == Spec => []TypeOK
<1>1. Init => PendingSent
  BY DEF Init, Idle, PendingSent
<1>2. TypeOK /\ PendingSent /\ [Next]_vars => TypeOK' /\ PendingSent'
  BY TypeStep
<1>3. QED
  BY <1>1, <1>2, TypeInit, PTL DEF Spec

-----------------------------------------------------------------------------
(* The stall *)

\* Spending one unit of a budget frees exactly its share of time.
LEMMA OneFewer ==
  ASSUME NEW n \in Nat, n > 0, NEW k \in Nat
  PROVE  (n - 1) * k + k = n * k /\ (n - 1) * k \in Nat
<1>1. n - 1 \in Nat
  OBVIOUS
<1>2. QED
  BY <1>1, SMTT(30)

\* All budgets together are the bound of StallBounded.
LEMMA TotalBound ==
  Total = (1 + RejectRetries + NorespRetries) * NorespTimeout
            + RejectRetries * RejectTimeout
  BY AunTxAssumption, SMTT(30) DEF Total

\* A first datagram uses the whole budget of its type.
LEMMA BeginBound ==
  ASSUME TypeOK, NEW type \in Types, NEW p \in Peers, Begin(type, p), tx'.state = Pending
  PROVE  age' + tx'.left + Remaining(tx') <= Total
<1> USE AunTxAssumption
<1>1. /\ age' = 0 /\ tx'.left = NorespTimeout /\ ~tx'.rejectPending
      /\ tx'.norespLeft = NorespRetries /\ tx'.rejectLeft = RejectBudget(type)
  BY DEF Begin, Send
<1>2. CASE type = "data"
  BY <1>1, <1>2 DEF Remaining, Total, RejectBudget
<1>3. CASE type # "data"
  <2>1. tx'.rejectLeft * (RejectTimeout + NorespTimeout) = 0
        /\ RejectRetries * (RejectTimeout + NorespTimeout) \in Nat
    BY <1>1, <1>3 DEF RejectBudget
  <2>2. QED
    BY <1>1, <2>1 DEF Remaining, Total
<1>4. QED
  BY <1>2, <1>3

\* Every handler spends what it adds to the wait (aun_poll, aun_udp_input).
LEMMA StallStep ==
  ASSUME StallInv, PendingSent, [Next]_vars, TypeOK'
  PROVE  StallInv'
<1> USE AunTxAssumption
<1> DEFINE W == RejectTimeout + NorespTimeout
<1> SUFFICES ASSUME tx'.state = Pending
             PROVE  age' + tx'.left + Remaining(tx') <= Total
  BY DEF StallInv
<1>0. TypeOK /\ tx \in Txs /\ age \in Nat
  BY DEF StallInv, TypeOK
<1>t. /\ tx.left \in Nat /\ tx.norespLeft \in Nat /\ tx.rejectLeft \in Nat
      /\ tx.rejectPending \in BOOLEAN
      /\ tx.norespLeft * NorespTimeout \in Nat /\ tx.rejectLeft * W \in Nat
      /\ W \in Nat /\ NorespTimeout \in Nat /\ Total \in Nat
  BY <1>0 DEF Txs, Total
<1>1. ASSUME NEW type \in Types, NEW dest \in Dests, tx_begin(type, dest)
      PROVE  age' + tx'.left + Remaining(tx') <= Total
  <2>1. dest # TestDest /\ Route[dest] # None /\ Begin(type, Route[dest])
    BY <1>0, <1>1 DEF tx_begin, Loopback, Txs
  <2>2. Route[dest] \in Peers
    BY <2>1
  <2>3. QED
    BY <1>0, <2>1, <2>2, BeginBound
<1>2. CASE aun_broadcast \/ UNCHANGED vars
  BY <1>2 DEF aun_broadcast, vars, StallInv
<1>3. CASE aun_init
  BY <1>3 DEF aun_init, Idle
<1>4. CASE aun_poll
  <2>0. tx.state = Pending /\ tx.left = 0 /\ age' = age
    BY <1>4 DEF aun_poll, PollDue
  <2>1. CASE tx.rejectPending /\ Send([tx EXCEPT !.rejectPending = FALSE])
    <3>1. /\ tx'.left = NorespTimeout /\ ~tx'.rejectPending
          /\ tx'.norespLeft = tx.norespLeft /\ tx'.rejectLeft = tx.rejectLeft
      BY <1>0, <2>1 DEF Send, Txs
    <3>2. QED
      BY <1>0, <1>t, <2>0, <2>1, <3>1 DEF StallInv, Remaining
  <2>2. CASE /\ ~tx.rejectPending /\ tx.norespLeft > 0
             /\ Send([tx EXCEPT !.norespLeft = @ - 1])
    <3>1. /\ tx'.left = NorespTimeout /\ tx'.rejectPending = tx.rejectPending
          /\ tx'.norespLeft = tx.norespLeft - 1 /\ tx'.rejectLeft = tx.rejectLeft
      BY <1>0, <2>2 DEF Send, Txs
    <3>2. (tx.norespLeft - 1) * NorespTimeout + NorespTimeout
            = tx.norespLeft * NorespTimeout
          /\ (tx.norespLeft - 1) * NorespTimeout \in Nat
      BY <1>t, <2>2, OneFewer
    <3>3. QED
      BY <1>0, <1>t, <2>0, <2>2, <3>1, <3>2 DEF StallInv, Remaining
  <2>3. QED
    BY <1>0, <1>4, <2>1, <2>2 DEF aun_poll, Txs
<1>5. CASE Tick
  <2>1. /\ tx.state = Pending /\ age' = age + 1 /\ tx'.left = tx.left - 1
        /\ tx'.norespLeft = tx.norespLeft /\ tx'.rejectLeft = tx.rejectLeft
        /\ tx'.rejectPending = tx.rejectPending
    BY <1>0, <1>5 DEF Tick, Txs
  <2>2. QED
    BY <1>0, <1>t, <2>1 DEF StallInv, Remaining
<1>6. ASSUME NEW a \in in, aun_udp_input(a)
      PROVE  age' + tx'.left + Remaining(tx') <= Total
  <2>1. CASE UNCHANGED tx
    BY <1>6, <2>1 DEF aun_udp_input, StallInv
  <2>2. CASE /\ tx.state = Pending /\ tx.rejectLeft > 0
             /\ tx' = [tx EXCEPT !.rejectLeft = @ - 1, !.rejectPending = TRUE,
                                 !.left = RejectTimeout]
    <3>1. /\ age' = age /\ tx'.left = RejectTimeout /\ tx'.rejectPending = TRUE
          /\ tx'.norespLeft = tx.norespLeft /\ tx'.rejectLeft = tx.rejectLeft - 1
      BY <1>0, <1>6, <2>2 DEF aun_udp_input, Txs
    <3>2. (tx.rejectLeft - 1) * W + W = tx.rejectLeft * W
          /\ (tx.rejectLeft - 1) * W \in Nat
      BY <1>t, <2>2, OneFewer
    <3>3. QED
      BY <1>0, <1>t, <2>2, <3>1, <3>2 DEF StallInv, Remaining
  <2>3. QED
    BY <1>0, <1>6, <2>1, <2>2 DEF aun_udp_input, ForCurrent, Reject, Txs
<1>7. ASSUME NEW a \in in, Lose(a)
      PROVE  age' + tx'.left + Remaining(tx') <= Total
  BY <1>7 DEF Lose, StallInv
<1>8. ASSUME NEW d \in out, PeerAnswers(d)
      PROVE  age' + tx'.left + Remaining(tx') <= Total
  BY <1>8 DEF PeerAnswers, StallInv
<1>9. QED
  BY <1>1, <1>2, <1>3, <1>4, <1>5, <1>6, <1>7, <1>8 DEF Next

\* What may still be waited for is not negative.
LEMMA StallImplied == StallInv => StallBounded
<1> SUFFICES ASSUME StallInv, tx.state = Pending
             PROVE  age + tx.left <= Total
  BY TotalBound DEF StallBounded
<1>1. /\ age \in Nat /\ tx.left \in Nat /\ NorespTimeout \in Nat /\ Total \in Nat
      /\ tx.norespLeft * NorespTimeout \in Nat
      /\ tx.rejectLeft * (RejectTimeout + NorespTimeout) \in Nat
  BY AunTxAssumption DEF StallInv, TypeOK, Txs, Total
<1>2. QED
  BY <1>1 DEF StallInv, Remaining

\* The Beeb's stall is bounded by the budgets (aun_poll, aun_udp_input), for
\* every budget and timeout and whatever the network delivers.
THEOREM StallCorrect == Spec => []StallBounded
<1>1. Init => StallInv /\ PendingSent
  BY TypeInit DEF Init, Idle, StallInv, PendingSent
<1>2. StallInv /\ PendingSent /\ [Next]_vars => StallInv' /\ PendingSent'
  BY TypeStep, StallStep DEF StallInv
<1>3. QED
  BY <1>1, <1>2, StallImplied, PTL DEF Spec

-----------------------------------------------------------------------------
(* What OK means *)

\* A step that sends the current transaction again, or not at all, keeps it.
LEMMA ResendTruth ==
  ASSUME TypeOK, Truth, PendingSent, tx.state = Pending,
         tx'.type = tx.type, tx'.peer = tx.peer, tx'.seq = tx.seq,
         tx'.state # "ok", out' \subseteq out \cup {Transaction},
         UNCHANGED <<nextSeq, in, served>>
  PROVE  Truth'
<1>1. Transaction' = Transaction /\ Transaction.seq = tx.seq
  BY DEF Transaction
<1>2. Numbered'
  BY <1>1 DEF Truth, Numbered
<1>3. QED
  BY <1>2 DEF Truth, AnswersServed, OkMeansServed

\* A new transaction has a number of its own.
LEMMA BeginTruth ==
  ASSUME TypeOK, Truth, NEW type \in Types, NEW p \in Peers, Begin(type, p),
         UNCHANGED <<in, served>>
  PROVE  Truth'
<1>1. /\ tx'.seq = nextSeq /\ tx'.type = type /\ tx'.peer = p
      /\ tx'.state # "ok" /\ nextSeq' = nextSeq + 1 /\ nextSeq \in Nat
      /\ out' \subseteq out \cup {[type |-> type, peer |-> p, seq |-> nextSeq]}
  BY DEF Begin, Send, TypeOK
<1>2. \A d \in out \cup served : d.seq \in Nat
  BY AunTxAssumption DEF TypeOK, Datagrams
<1>3. Numbered'
  <2>1. Transaction' = [type |-> type, peer |-> p, seq |-> nextSeq]
    BY <1>1 DEF Transaction
  <2>2. ASSUME NEW d \in out \cup served
        PROVE  d.seq < nextSeq' /\ d.seq # tx'.seq
    BY <1>1, <1>2 DEF Truth, Numbered
  <2>3. QED
    BY <1>1, <2>1, <2>2 DEF Numbered
<1>4. QED
  BY <1>1, <1>3 DEF Truth, AnswersServed, OkMeansServed

\* Every handler keeps answers and numbers in agreement with what was done.
LEMMA ServedStep ==
  ASSUME ServedInv, PendingSent, [Next]_vars, TypeOK'
  PROVE  ServedInv'
<1> USE AunTxAssumption
<1> SUFFICES ASSUME inc' = 0 PROVE Truth'
  BY DEF ServedInv
<1>0. TypeOK /\ tx \in Txs /\ inc \in Nat /\ nextSeq \in Nat
  BY DEF ServedInv, TypeOK
<1>t. Truth
  <2>1. inc = 0
    BY <1>0 DEF Next, tx_begin, aun_broadcast, aun_init, aun_poll, Tick,
       aun_udp_input, Lose, PeerAnswers, vars
  <2>2. QED
    BY <2>1 DEF ServedInv
<1>1. ASSUME NEW type \in Types, NEW dest \in Dests, tx_begin(type, dest)
      PROVE  Truth'
  <2>1. CASE dest = TestDest /\ Loopback(type)
    <3>1. /\ tx'.type = tx.type /\ tx'.peer = tx.peer /\ tx'.seq = tx.seq
          /\ tx'.wire = FALSE
      BY <1>0, <2>1 DEF Loopback, Txs
    <3>2. Transaction' = Transaction
      BY <3>1 DEF Transaction
    <3>3. UNCHANGED <<nextSeq, out, in, served>>
      BY <1>1, <2>1 DEF tx_begin, Loopback
    <3>4. QED
      BY <1>t, <3>1, <3>2, <3>3 DEF Truth, Numbered, AnswersServed, OkMeansServed
  <2>2. CASE dest # TestDest /\ Route[dest] # None /\ Begin(type, Route[dest])
    <3>1. Route[dest] \in Peers
      BY <2>2
    <3>2. QED
      BY <1>0, <1>1, <1>t, <2>2, <3>1, BeginTruth DEF tx_begin
  <2>3. QED
    BY <1>1, <2>1, <2>2 DEF tx_begin
<1>2. CASE aun_broadcast
  <2>1. /\ nextSeq' = nextSeq + 1
        /\ UNCHANGED <<tx, out, in, served, Transaction>>
    BY <1>2 DEF aun_broadcast, Transaction
  <2>2. tx.seq \in Nat /\ \A d \in out \cup served : d.seq \in Nat
    BY <1>0 DEF TypeOK, Datagrams, Txs
  <2>3. Numbered' /\ tx'.seq < nextSeq'
    BY <1>0, <1>t, <2>1, <2>2 DEF Truth, Numbered
  <2>4. OkMeansServed' /\ AnswersServed'
    BY <1>2, <1>t, <2>1 DEF Truth, AnswersServed, OkMeansServed, aun_broadcast
  <2>5. QED
    BY <2>3, <2>4 DEF Truth
<1>3. CASE aun_init
  BY <1>0, <1>3 DEF aun_init
<1>4. CASE aun_poll
  <2>1. /\ tx'.type = tx.type /\ tx'.peer = tx.peer /\ tx'.seq = tx.seq
        /\ tx'.state # "ok" /\ out' \subseteq out \cup {Transaction}
    <3>1. ASSUME NEW t \in Txs, t.type = tx.type, t.peer = tx.peer, t.seq = tx.seq,
                 t.state = Pending, Send(t)
          PROVE  /\ tx'.type = tx.type /\ tx'.peer = tx.peer /\ tx'.seq = tx.seq
                 /\ tx'.state # "ok" /\ out' \subseteq out \cup {Transaction}
      BY <3>1 DEF Send, Transaction, Txs
    <3>2. CASE tx' = [tx EXCEPT !.state = "not_listening"] /\ UNCHANGED out
      BY <1>0, <3>2 DEF Txs
    <3>3. CASE Send([tx EXCEPT !.rejectPending = FALSE])
      <4> DEFINE t == [tx EXCEPT !.rejectPending = FALSE]
      <4>1. /\ t \in Txs /\ t.type = tx.type /\ t.peer = tx.peer /\ t.seq = tx.seq
            /\ t.state = Pending
        BY <1>0, <1>4 DEF aun_poll, PollDue, Txs
      <4> HIDE DEF t
      <4>2. Send(t)
        BY <3>3 DEF t
      <4>3. QED
        BY <3>1, <4>1, <4>2
    <3>4. CASE tx.norespLeft > 0 /\ Send([tx EXCEPT !.norespLeft = @ - 1])
      <4> DEFINE t == [tx EXCEPT !.norespLeft = @ - 1]
      <4>1. /\ t \in Txs /\ t.type = tx.type /\ t.peer = tx.peer /\ t.seq = tx.seq
            /\ t.state = Pending
        BY <1>0, <1>4, <3>4 DEF aun_poll, PollDue, Txs
      <4> HIDE DEF t
      <4>2. Send(t)
        BY <3>4 DEF t
      <4>3. QED
        BY <3>1, <4>1, <4>2
    <3>5. QED
      BY <1>4, <3>2, <3>3, <3>4 DEF aun_poll
  <2>2. QED
    BY <1>0, <1>4, <1>t, <2>1, ResendTruth DEF aun_poll, PollDue
<1>5. CASE Tick
  <2>1. /\ tx'.type = tx.type /\ tx'.peer = tx.peer /\ tx'.seq = tx.seq
        /\ tx'.state = Pending
    BY <1>0, <1>5 DEF Tick, Txs
  <2>2. QED
    BY <1>0, <1>5, <1>t, <2>1, ResendTruth DEF Tick
<1>6. ASSUME NEW a \in in, aun_udp_input(a)
      PROVE  Truth'
  <2>0. /\ tx'.type = tx.type /\ tx'.peer = tx.peer /\ tx'.seq = tx.seq
        /\ tx'.wire = tx.wire
    <3>1. CASE Reject
      <4>1. \/ tx' = [tx EXCEPT !.rejectLeft = @ - 1, !.rejectPending = TRUE,
                             !.left = RejectTimeout]
            \/ tx' = [tx EXCEPT !.state = "not_listening"]
        BY <3>1 DEF Reject
      <4>2. QED
        BY <1>0, <4>1 DEF Txs
    <3>2. CASE tx' = [tx EXCEPT !.state = "ok"]
      BY <1>0, <3>2 DEF Txs
    <3>3. QED
      BY <1>6, <3>1, <3>2 DEF aun_udp_input
  <2>1. /\ in' \subseteq in /\ UNCHANGED <<nextSeq, out, served, Transaction>>
    BY <1>6, <2>0 DEF aun_udp_input, Transaction
  <2>2. tx'.seq < nextSeq' /\ Numbered' /\ AnswersServed'
    BY <1>t, <2>0, <2>1 DEF Truth, Numbered, AnswersServed
  <2>3. CASE tx.state = "ok" \/ tx'.state # "ok"
    BY <1>0, <1>6, <1>t, <2>1, <2>2, <2>3, <2>0
       DEF Truth, OkMeansServed, aun_udp_input, ForCurrent, Reject, Txs
  <2>4. CASE tx.state # "ok" /\ tx'.state = "ok"
    <3>1. a.seq = tx.seq /\ a.peer = tx.peer /\ a.type \in {"ack", "reply"}
      BY <1>0, <1>6, <2>4 DEF aun_udp_input, ForCurrent, Reject, Txs
    <3>2. PICK d \in served : d.seq = a.seq
      BY <1>t, <3>1 DEF Truth, AnswersServed
    <3>3. d = Transaction
      BY <1>t, <3>1, <3>2 DEF Truth, Numbered
    <3>4. QED
      BY <2>1, <2>2, <3>2, <3>3 DEF Truth, OkMeansServed
  <2>5. QED
    BY <2>3, <2>4
<1>7. ASSUME NEW a \in in, Lose(a)
      PROVE  Truth'
  <2>1. in' \subseteq in /\ UNCHANGED <<tx, nextSeq, out, served, inc, Transaction>>
    BY <1>7 DEF Lose, Transaction
  <2>2. QED
    BY <1>t, <2>1 DEF Truth, Numbered, AnswersServed, OkMeansServed
<1>8. ASSUME NEW d \in out, PeerAnswers(d)
      PROVE  Truth'
  <2>1. /\ UNCHANGED <<tx, nextSeq, inc, Transaction>>
        /\ out' \cup served' \subseteq out \cup served
        /\ served \subseteq served'
    BY <1>8 DEF PeerAnswers, Transaction
  <2>2. Numbered' /\ tx'.seq < nextSeq' /\ OkMeansServed'
    BY <1>t, <2>1 DEF Truth, Numbered, OkMeansServed
  <2>3. AnswersServed'
    <3>1. d \in Datagrams
      BY <1>0 DEF TypeOK
    <3>2. CASE in' = in
      BY <1>t, <2>1, <3>2 DEF Truth, AnswersServed
    <3>3. CASE in' = in \cup {[d EXCEPT !.type = "nak"]}
      BY <1>t, <2>1, <3>1, <3>3 DEF Truth, AnswersServed, Datagrams
    <3>4. CASE /\ served' = served \cup {d}
               /\ \E r \in {"ack", "reply"} : in' = in \cup {[d EXCEPT !.type = r]}
      BY <1>t, <2>1, <3>1, <3>4 DEF Truth, AnswersServed, Datagrams
    <3>5. QED
      BY <1>8, <3>2, <3>3, <3>4 DEF PeerAnswers
  <2>4. QED
    BY <2>2, <2>3 DEF Truth
<1>9. CASE UNCHANGED vars
  <2>1. UNCHANGED <<tx, nextSeq, out, in, served, inc, Transaction>>
    BY <1>9 DEF vars, Transaction
  <2>2. QED
    BY <1>t, <2>1 DEF Truth, Numbered, AnswersServed, OkMeansServed
<1>10. QED
  BY <1>1, <1>2, <1>3, <1>4, <1>5, <1>6, <1>7, <1>8, <1>9 DEF Next

\* As long as INIT has not restarted the numbering, OK means that the peer
\* carried the transaction out (aun_udp_input), for any number of peers,
\* transactions, losses and duplicates.
THEOREM OkCorrect == Spec => []OkMeansServed
<1>1. Init => ServedInv /\ PendingSent
  BY TypeInit, AunTxAssumption
     DEF Init, Idle, ServedInv, Truth, PendingSent, Numbered, AnswersServed, OkMeansServed
<1>2. ServedInv /\ PendingSent /\ [Next]_vars => ServedInv' /\ PendingSent'
  BY TypeStep, ServedStep DEF ServedInv
<1>3. ServedInv => OkMeansServed
  BY DEF ServedInv, Truth, OkMeansServed
<1>4. QED
  BY <1>1, <1>2, <1>3, PTL DEF Spec
=============================================================================
