---------------------------- MODULE WifiTxProofs ----------------------------
(***************************************************************************)
(* For every queue depth, window, age limit and number of frames, faults   *)
(* and restarts: frames reach the chip in lwIP's order (OrderInv); while   *)
(* the faults are fewer than half the sequence numbers, the chip is never  *)
(* sent a number it has used (SeqInv: a number the driver is ahead by has  *)
(* cost a fault); and a frame is dropped only when the slots open to it    *)
(* are taken (SlotInv: s_tx_tcp_count counts the TCP frames held).         *)
(***************************************************************************)
EXTENDS WifiTx, SequenceTheorems, FiniteSetTheorems, TLAPS

\* A frame of the hold queue.
HeldFrames == [id : Nat, tcp : BOOLEAN, age : Nat]

\* The types of what the order is about.
Shape ==
  /\ queue \in Seq(HeldFrames) /\ sent \in Nat /\ aired \in Nat
  /\ out \in [id : Nat, tcp : BOOLEAN]

\* Held frames are in order ...
Ordered == \A i, j \in 1 .. Len(queue) : i <= j => queue[i].id <= queue[j].id

\* ... and between the last frame the chip took and the last lwIP sent, which
\* is the one in wifi_lwip_link_output's hands if any is.  A frame goes past
\* the queue only when nothing is held.
OrderInv ==
  /\ Shape /\ Ordered
  /\ \A i \in 1 .. Len(queue) : aired <= queue[i].id /\ queue[i].id <= sent
  /\ aired <= sent
  /\ out # NoFrame => out.id = sent
  /\ at = "loop" => out = NoFrame
  /\ at = "direct" => out # NoFrame /\ queue = << >>

\* The driver starts with an empty queue.
LEMMA OrderInit == Init => OrderInv
  BY DEF Init, OrderInv, Shape, Ordered, NoFrame

\* Whatever becomes of a frame, the chip took it or took nothing
\* (sdio_runtime_send_ethernet_frame).
LEMMA SendAired ==
  ASSUME NEW f, NEW ok \in BOOLEAN, Send(f, ok)
  PROVE  aired' \in {aired, f.id}
  BY DEF Send, GivenBack, Unsure, ChipTakes, ChipUntouched

\* Taking the head off, having sent it or not.
LEMMA PopOrder ==
  ASSUME OrderInv, queue # << >>, Pop, aired' \in {aired, Head(queue).id},
         UNCHANGED <<out, sent, at>>, at = "flush"
  PROVE  OrderInv' /\ aired' >= aired
<1>0. queue \in Seq(HeldFrames) /\ Len(queue) \in Nat /\ Len(queue) > 0
      /\ queue[1] \in HeldFrames /\ Head(queue) = queue[1]
  BY DEF OrderInv, Shape
<1>1. /\ queue' \in Seq(HeldFrames) /\ Len(queue') = Len(queue) - 1
      /\ \A i \in 1 .. Len(queue') : queue'[i] = queue[i + 1]
  BY <1>0 DEF Pop
<1>2. Head(queue).id \in Nat /\ aired <= Head(queue).id /\ Head(queue).id <= sent
  BY <1>0 DEF OrderInv, HeldFrames
<1>a. /\ \A i, j \in 1 .. Len(queue) : i <= j => queue[i].id <= queue[j].id
      /\ \A i \in 1 .. Len(queue) : queue[i].id <= sent /\ aired <= queue[i].id
  BY DEF OrderInv, Ordered
<1>b. \A i \in 1 .. Len(queue') : i \in Nat /\ 1 <= i /\ i + 1 \in 1 .. Len(queue)
  BY <1>0, <1>1
<1>3. Ordered'
  <2>1. ASSUME NEW i \in 1 .. Len(queue'), NEW j \in 1 .. Len(queue'), i <= j
        PROVE  queue'[i].id <= queue'[j].id
    <3>1. i + 1 \in 1 .. Len(queue) /\ j + 1 \in 1 .. Len(queue) /\ i + 1 <= j + 1
      BY <1>b, <2>1
    <3>2. QED
      BY <1>1, <1>a, <3>1
  <2>2. QED
    BY <2>1 DEF Ordered
<1>4. \A i \in 1 .. Len(queue') : aired' <= queue'[i].id /\ queue'[i].id <= sent
  <2>1. ASSUME NEW i \in 1 .. Len(queue')
        PROVE  aired' <= queue'[i].id /\ queue'[i].id <= sent
    <3>1. i + 1 \in 1 .. Len(queue) /\ 1 \in 1 .. Len(queue) /\ 1 <= i + 1
      BY <1>0, <1>b
    <3>2. /\ queue[1].id <= queue[i + 1].id /\ aired <= queue[i + 1].id
          /\ queue[i + 1].id <= sent
      BY <1>a, <3>1
    <3>3. QED
      BY <1>0, <1>1, <3>2
  <2>2. QED
    BY <2>1
<1>5. QED
  BY <1>0, <1>1, <1>2, <1>3, <1>4 DEF OrderInv, Shape

\* Holding the new frame behind the others (wifi_lwip_tx_hold_push).
LEMMA HoldOrder ==
  ASSUME OrderInv, out # NoFrame, Hold,
         aired' \in Nat, aired' >= aired, aired' <= sent,
         \A i \in 1 .. Len(queue) : aired' <= queue[i].id,
         Return, UNCHANGED sent
  PROVE  OrderInv'
<1> DEFINE f == [id |-> out.id, tcp |-> out.tcp, age |-> 0]
<1>0. queue \in Seq(HeldFrames) /\ Len(queue) \in Nat /\ f \in HeldFrames
      /\ f.id = sent /\ sent \in Nat /\ NoFrame \in [id : Nat, tcp : BOOLEAN]
  BY DEF OrderInv, Shape, HeldFrames, NoFrame
<1>1. CASE queue' = queue
  BY <1>0, <1>1 DEF OrderInv, Shape, Ordered, Return
<1>2. CASE queue' = Append(queue, f)
  <2>1. /\ queue' \in Seq(HeldFrames) /\ Len(queue') = Len(queue) + 1
        /\ \A i \in 1 .. Len(queue) : queue'[i] = queue[i]
        /\ queue'[Len(queue) + 1] = f
    BY <1>0, <1>2
  <2> HIDE DEF f
  <2>2. \A i \in 1 .. Len(queue') : queue'[i].id <= sent /\ aired' <= queue'[i].id
    BY <1>0, <2>1 DEF OrderInv
  <2>3. Ordered'
    <3>1. ASSUME NEW i \in 1 .. Len(queue'), NEW j \in 1 .. Len(queue'), i <= j
          PROVE  queue'[i].id <= queue'[j].id
      <4>1. CASE j <= Len(queue)
        <5>1. i \in 1 .. Len(queue) /\ j \in 1 .. Len(queue)
          BY <1>0, <2>1, <3>1, <4>1
        <5>2. queue[i].id <= queue[j].id
          BY <3>1, <5>1 DEF OrderInv, Ordered
        <5>3. QED
          BY <2>1, <5>1, <5>2
      <4>2. CASE j = Len(queue) + 1
        BY <1>0, <2>1, <2>2, <3>1, <4>2
      <4>3. QED
        BY <1>0, <2>1, <4>1, <4>2
    <3>2. QED
      BY <3>1 DEF Ordered
  <2>4. QED
    BY <1>0, <2>1, <2>2, <2>3 DEF OrderInv, Shape, Return
<1>3. QED
  BY <1>1, <1>2 DEF Hold

\* A step that leaves the frames alone.
LEMMA Untouched ==
  ASSUME OrderInv, UNCHANGED <<queue, aired, sent, out>>,
         at' = at \/ at' = "flush" \/ (at' = "loop" /\ out = NoFrame)
  PROVE  OrderInv' /\ aired' >= aired
  BY DEF OrderInv, Shape, Ordered

\* Time only makes the held frames older.
LEMMA TickOrder == OrderInv /\ Tick => OrderInv' /\ aired' >= aired
<1> SUFFICES ASSUME OrderInv, Tick PROVE OrderInv' /\ aired' >= aired
  OBVIOUS
<1>1. queue \in Seq(HeldFrames) /\ Len(queue) \in Nat
      /\ DOMAIN queue = 1 .. Len(queue)
  BY DEF OrderInv, Shape
<1> DEFINE older(i) == [queue[i] EXCEPT !.age = Older(@, HoldAge + 1)]
<1>2. \A i \in 1 .. Len(queue) : older(i) \in HeldFrames /\ older(i).id = queue[i].id
  <2>1. \A n \in Nat : Older(n, HoldAge + 1) \in Nat
    BY DEF Older
  <2>2. \A i \in 1 .. Len(queue) : queue[i] \in HeldFrames
    BY <1>1
  <2>3. QED
    BY <2>1, <2>2 DEF HeldFrames
<1>3. queue' = [i \in 1 .. Len(queue) |-> older(i)]
  BY <1>1 DEF Tick
<1> HIDE DEF older
<1>4. queue' \in Seq(HeldFrames)
  <2>1. queue' \in [1 .. Len(queue) -> HeldFrames]
    BY <1>2, <1>3
  <2>2. QED
    BY <1>1, <2>1, SeqDef
<1>5. Len(queue') = Len(queue) /\ \A i \in 1 .. Len(queue) : queue'[i].id = queue[i].id
  <2>1. DOMAIN queue' = 1 .. Len(queue) /\ DOMAIN queue' = 1 .. Len(queue')
        /\ Len(queue') \in Nat
    BY <1>3, <1>4, LenProperties
  <2>2. Len(queue') = Len(queue)
    BY <1>1, <2>1
  <2>3. QED
    BY <1>2, <1>3, <2>2
<1>6. at = "loop" /\ UNCHANGED <<aired, sent, out, at>>
  BY DEF Tick, history
<1>7. QED
  BY <1>4, <1>5, <1>6 DEF OrderInv, Shape, Ordered

\* One pass of the flush loop.
LEMMA FlushOrder ==
  OrderInv /\ wifi_lwip_tx_hold_flush => OrderInv' /\ aired' >= aired
<1> SUFFICES ASSUME OrderInv, wifi_lwip_tx_hold_flush
             PROVE  OrderInv' /\ aired' >= aired
  OBVIOUS
<1>0. /\ at = "flush" /\ UNCHANGED sent
      /\ aired \in Nat /\ sent \in Nat /\ aired <= sent
  BY DEF wifi_lwip_tx_hold_flush, OrderInv, Shape
<1>1. CASE queue # << >> /\ FlushStale
  BY <1>0, <1>1, PopOrder DEF FlushStale, history
<1>2. CASE FlushPaced
  <2>1. UNCHANGED aired /\ Return
    BY <1>2 DEF FlushPaced, history
  <2>2. CASE out = NoFrame /\ UNCHANGED <<queue, tcpCount>>
    BY <1>0, <2>1, <2>2, Untouched DEF Return
  <2>3. CASE out # NoFrame /\ Hold
    BY <1>0, <2>1, <2>3, HoldOrder DEF OrderInv
  <2>4. QED
    BY <1>2, <2>2, <2>3 DEF FlushPaced, FlushFails
<1>3. CASE queue # << >> /\ Send(Head(queue), TRUE) /\ Pop /\ UNCHANGED <<at, out>>
  BY <1>0, <1>3, SendAired, PopOrder
<1>4. CASE queue # << >> /\ Send(Head(queue), FALSE) /\ FlushFails /\ Return
  <2>1. aired' \in {aired, Head(queue).id}
    BY <1>4, SendAired
  <2>2. queue[1] \in HeldFrames /\ Head(queue) = queue[1] /\ 1 \in 1 .. Len(queue)
        /\ Len(queue) \in Nat
    BY <1>4 DEF OrderInv, Shape
  <2>3. aired' \in Nat /\ aired' >= aired /\ aired' <= sent
    BY <1>0, <2>1, <2>2 DEF OrderInv, HeldFrames
  <2>4. \A i \in 1 .. Len(queue) : aired' <= queue[i].id
    BY <2>1, <2>2 DEF OrderInv, Ordered
  <2>5. CASE out = NoFrame /\ UNCHANGED <<queue, tcpCount>>
    BY <1>0, <1>4, <2>3, <2>4, <2>5 DEF OrderInv, Shape, Ordered, Return
  <2>6. CASE out # NoFrame /\ Hold
    BY <1>0, <1>4, <2>3, <2>4, <2>6, HoldOrder
  <2>7. QED
    BY <1>4, <2>5, <2>6 DEF FlushFails
<1>5. CASE FlushDone
  <2>1. CASE out = NoFrame
    BY <1>5, <2>1, Untouched, <1>0 DEF FlushDone, Return, history
  <2>2. CASE out # NoFrame
    BY <1>0, <1>5, <2>2 DEF FlushDone, history, OrderInv, Shape, Ordered
  <2>3. QED
    BY <2>1, <2>2
<1>6. QED
  BY <1>1, <1>2, <1>3, <1>4, <1>5 DEF wifi_lwip_tx_hold_flush, FlushSend

\* A frame that found nothing held.
LEMMA DirectOrder == OrderInv /\ Direct => OrderInv' /\ aired' >= aired
<1> SUFFICES ASSUME OrderInv, Direct PROVE OrderInv' /\ aired' >= aired
  OBVIOUS
<1>0. /\ out # NoFrame /\ queue = << >> /\ Len(queue) = 0 /\ Return /\ UNCHANGED sent
      /\ aired \in Nat /\ sent \in Nat /\ aired <= sent /\ out.id = sent
  BY DEF Direct, OrderInv, Shape
<1>1. aired' \in {aired, out.id}
  BY SendAired DEF Direct
<1>2. aired' \in Nat /\ aired' >= aired /\ aired' <= sent
  BY <1>0, <1>1
<1>3. CASE UNCHANGED <<queue, tcpCount>>
  <2>1. out' = NoFrame /\ NoFrame \in [id : Nat, tcp : BOOLEAN] /\ at' = "loop"
    BY <1>0 DEF Return, NoFrame
  <2>2. QED
    BY <1>0, <1>2, <1>3, <2>1 DEF OrderInv, Shape, Ordered
<1>4. CASE Hold
  BY <1>0, <1>2, <1>4, HoldOrder
<1>5. QED
  BY <1>2, <1>3, <1>4 DEF Direct

\* Every step keeps the order, and the chip never goes back.
LEMMA OrderStep == OrderInv /\ [Next]_vars => OrderInv' /\ aired' >= aired
<1> SUFFICES ASSUME OrderInv, [Next]_vars PROVE OrderInv' /\ aired' >= aired
  OBVIOUS
<1> USE DEF history, hostVars
<1>1. ASSUME NEW tcp \in BOOLEAN, wifi_lwip_link_output(tcp)
      PROVE  OrderInv' /\ aired' >= aired
  <2>1. /\ sent' = sent + 1 /\ out' = [id |-> sent + 1, tcp |-> tcp]
        /\ at' = "flush" /\ UNCHANGED <<queue, aired>>
    BY <1>1 DEF wifi_lwip_link_output
  <2>2. sent \in Nat /\ aired \in Nat /\ queue \in Seq(HeldFrames)
    BY DEF OrderInv, Shape
  <2>3. \A i \in 1 .. Len(queue) : queue[i] \in HeldFrames
    BY <2>2
  <2>4. \A i \in 1 .. Len(queue) : queue[i].id \in Nat
    BY <2>3 DEF HeldFrames
  <2>5. QED
    BY <2>1, <2>2, <2>4 DEF OrderInv, Shape, Ordered
<1>2. CASE PollFlush
  BY <1>2, Untouched DEF PollFlush
<1>3. CASE Receive
  BY <1>3, Untouched DEF Receive
<1>4. CASE Control
  <2>1. UNCHANGED aired
    BY <1>4 DEF Control, ChipTakes, ChipUntouched
  <2>2. QED
    BY <1>4, <2>1, Untouched DEF Control
<1>5. CASE sdio_runtime_start
  BY <1>5, Untouched DEF sdio_runtime_start
<1>6. CASE Booted
  BY <1>6, Untouched DEF Booted
<1>7. CASE Chip
  BY <1>7, Untouched DEF Chip
<1>8. CASE UNCHANGED vars
  BY <1>8, Untouched DEF vars
<1>9. QED
  BY <1>1, <1>2, <1>3, <1>4, <1>5, <1>6, <1>7, <1>8, FlushOrder, DirectOrder, TickOrder
     DEF Next

\* Frames reach the chip in the order lwIP sent them ("order is preserved
\* absolutely", wifi_lwip.c), for every depth, window, limit and number of
\* frames, faults and restarts.
THEOREM FrameOrderCorrect == Spec => FrameOrder
<1>1. OrderInv /\ [Next]_vars => [aired' >= aired]_vars
  BY OrderStep
<1>2. OrderInv /\ [Next]_vars => OrderInv'
  BY OrderStep
<1>3. QED
  BY <1>1, <1>2, OrderInit, PTL DEF Spec, FrameOrder

-----------------------------------------------------------------------------
(* Sequence numbers.                                                       *)

\* How far the driver's number is ahead of the one the chip expects: by the
\* numbers of the transfers that failed with nobody knowing how far they got.
Gap == IF gate.seq >= chip.next THEN gate.seq - chip.next
                                ELSE gate.seq - chip.next + SeqMod

\* The fields there are.
Fields ==
  /\ DOMAIN gate = DOMAIN FreshGate /\ DOMAIN chip = DOMAIN FreshChip
  /\ DOMAIN budget = {"stop", "fault", "control", "restart"}

\* The range of the numbers, and each number the chip is behind has cost a fault.
SeqInv ==
  /\ Fields
  /\ gate.seq \in 0 .. SeqMod - 1 /\ chip.next \in 0 .. SeqMod - 1
  /\ budget.fault \in 0 .. MaxFault /\ Gap <= MaxFault - budget.fault
  /\ ~replayed

\* uint8_t arithmetic: the number after n, and the difference of two numbers.
LEMMA ModSucc ==
  ASSUME NEW m \in Nat \ {0}, NEW n \in 0 .. m - 1
  PROVE  (n + 1) % m = IF n + 1 = m THEN 0 ELSE n + 1
  OBVIOUS

\* The difference of two sequence numbers, as uint8_t has it.
LEMMA ModDiff ==
  ASSUME NEW m \in Nat \ {0}, NEW a \in 0 .. m - 1, NEW b \in 0 .. m - 1
  PROVE  (a - b) % m = IF a >= b THEN a - b ELSE a - b + m
  OBVIOUS

\* Fewer than half the numbers is below the sign bit of int8_t.
LEMMA HalfOf == ASSUME NEW m \in Nat, NEW d \in Nat, m % 2 = 0, 2 * d < m PROVE d < m \div 2
  OBVIOUS

\* The gate's answer changes neither the number nor the fields.
LEMMA AskedSeq ==
  ASSUME NEW g, DOMAIN g = DOMAIN FreshGate
  PROVE  DOMAIN Asked(g) = DOMAIN FreshGate /\ Asked(g).seq = g.seq
<1>1. "seq" \in DOMAIN FreshGate
  BY DEF FreshGate
<1>2. Asked(g) \in {g, Unstalled(g), FirstRefusal(g), Cleared(g)}
  BY Zenon DEF Asked
<1>3. QED
  BY <1>1, <1>2 DEF Unstalled, FirstRefusal, Cleared

\* The driver's number moves on by one, or stays.
LEMMA NumberedSeq ==
  ASSUME NEW g, DOMAIN g = DOMAIN FreshGate, g.seq \in 0 .. SeqMod - 1
  PROVE  /\ DOMAIN Numbered(g) = DOMAIN FreshGate
         /\ Numbered(g).seq = (IF g.seq + 1 = SeqMod THEN 0 ELSE g.seq + 1)
<1>1. "seq" \in DOMAIN FreshGate
  BY DEF FreshGate
<1>2. SeqMod \in Nat \ {0}
  BY WifiTxAssumption
<1>3. (g.seq + 1) % SeqMod = IF g.seq + 1 = SeqMod THEN 0 ELSE g.seq + 1
  BY <1>2, ModSucc
<1>4. QED
  BY <1>1, <1>3 DEF Numbered

\* The chip takes the driver's number: it is not one that it has used, and the
\* two agree again.
LEMMA TakesSeq ==
  ASSUME 2 * MaxFault < SeqMod, SeqInv, NEW f, ChipTakes(gate.seq, f)
  PROVE  /\ DOMAIN chip' = DOMAIN FreshChip /\ replayed' = replayed
         /\ chip'.next = (IF gate.seq + 1 = SeqMod THEN 0 ELSE gate.seq + 1)
<1>1. SeqMod \in Nat \ {0} /\ SeqMod % 2 = 0 /\ MaxFault \in Nat /\ "next" \in DOMAIN FreshChip
  BY WifiTxAssumption DEF FreshChip
<1>2. Gap \in Nat /\ 2 * Gap < SeqMod
  BY <1>1 DEF SeqInv, Gap
<1>3. (gate.seq - chip.next) % SeqMod = Gap
  BY <1>1, ModDiff DEF SeqInv, Gap
<1>4. NotBelow(gate.seq, chip.next)
  BY <1>1, <1>2, <1>3, HalfOf DEF NotBelow
<1>5. (gate.seq + 1) % SeqMod = IF gate.seq + 1 = SeqMod THEN 0 ELSE gate.seq + 1
  BY <1>1, ModSucc DEF SeqInv
<1>6. DOMAIN chip = DOMAIN FreshChip
  BY DEF SeqInv, Fields
<1>7. /\ DOMAIN chip' = DOMAIN chip /\ replayed' = replayed
      /\ chip'.next = (gate.seq + 1) % SeqMod
  BY <1>1, <1>4, <1>6 DEF ChipTakes
<1>8. QED
  BY <1>5, <1>6, <1>7

\* What a transfer may do: nothing to either number; or the driver moves on and
\* the chip with it; or the driver moves on alone, and a fault is spent.
LEMMA SeqMoves ==
  ASSUME SeqInv, Fields', budget'.fault \in 0 .. budget.fault, replayed' = replayed,
         NEW n, n = (IF gate.seq + 1 = SeqMod THEN 0 ELSE gate.seq + 1),
         \/ gate'.seq = gate.seq /\ chip'.next = chip.next
         \/ gate'.seq = n /\ chip'.next = n
         \/ gate'.seq = n /\ chip'.next = chip.next /\ budget'.fault = budget.fault - 1
         \/ gate'.seq = 0 /\ chip'.next = 0
  PROVE  SeqInv'
<1>1. SeqMod \in Nat \ {0} /\ MaxFault \in Nat
  BY WifiTxAssumption
<1>2. QED
  BY <1>1 DEF SeqInv, Gap

\* sdio_runtime_send_ethernet_frame keeps the numbers together.
LEMMA SendSeq ==
  ASSUME 2 * MaxFault < SeqMod, SeqInv, NEW f, NEW ok \in BOOLEAN, Send(f, ok)
  PROVE  SeqInv'
<1> DEFINE g == Asked(gate)
           armed == [g EXCEPT !.dead = TRUE]
           n == IF gate.seq + 1 = SeqMod THEN 0 ELSE gate.seq + 1
<1>1. Fields /\ gate.seq \in 0 .. SeqMod - 1 /\ budget.fault \in 0 .. MaxFault /\ MaxFault \in Nat
  BY WifiTxAssumption DEF SeqInv
<1>2. DOMAIN g = DOMAIN FreshGate /\ g.seq = gate.seq
  BY <1>1, AskedSeq DEF Fields
<1>3. DOMAIN armed = DOMAIN FreshGate /\ armed.seq = gate.seq
  <2>1. "seq" \in DOMAIN FreshGate
    BY DEF FreshGate
  <2>2. QED
    BY <1>2, <2>1
<1>4. /\ DOMAIN Numbered(g) = DOMAIN FreshGate /\ Numbered(g).seq = n
      /\ DOMAIN Numbered(armed) = DOMAIN FreshGate /\ Numbered(armed).seq = n
  <2> HIDE DEF g, armed
  <2>1. QED
    BY <1>1, <1>2, <1>3, NumberedSeq
<1>5. Fault => /\ DOMAIN budget' = DOMAIN budget /\ budget'.fault = budget.fault - 1
               /\ budget'.fault \in 0 .. budget.fault
  BY <1>1 DEF Fault, Fields
<1>6. ChipUntouched => UNCHANGED <<chip, replayed>>
  BY DEF ChipUntouched
<1>7. ChipTakes(gate.seq, f) => /\ DOMAIN chip' = DOMAIN FreshChip /\ replayed' = replayed
                                /\ chip'.next = n
  BY TakesSeq
<1>8. \/ gate' \in {gate, g} /\ ChipUntouched /\ (UNCHANGED budget \/ Fault)
      \/ Fault /\ gate' = armed /\ ChipUntouched
      \/ Fault /\ gate' = Numbered(armed) /\ (ChipUntouched \/ ChipTakes(gate.seq, f))
      \/ gate' = Numbered(g) /\ ChipTakes(gate.seq, f) /\ UNCHANGED budget
  <2> USE <1>2
  <2>1. QED
    BY DEF Send, GivenBack, Unsure
<1> HIDE DEF g, armed, n
<1>9. Fields' /\ budget'.fault \in 0 .. budget.fault /\ replayed' = replayed
  <2>1. UNCHANGED budget => budget'.fault \in 0 .. budget.fault
    BY <1>1
  <2>2. QED
    BY <1>1, <1>2, <1>3, <1>4, <1>5, <1>6, <1>7, <1>8, <2>1, Zenon DEF Fields
<1>10. \/ gate'.seq = gate.seq /\ chip'.next = chip.next
       \/ gate'.seq = n /\ chip'.next = n
       \/ gate'.seq = n /\ chip'.next = chip.next /\ budget'.fault = budget.fault - 1
  BY <1>2, <1>3, <1>4, <1>5, <1>6, <1>7, <1>8
<1>11. QED
  BY <1>9, <1>10, SeqMoves DEF n

\* Every step keeps the numbers together.
LEMMA SeqStep ==
  ASSUME 2 * MaxFault < SeqMod, SeqInv, [Next]_vars PROVE SeqInv'
<1> DEFINE n == IF gate.seq + 1 = SeqMod THEN 0 ELSE gate.seq + 1
<1>0. Fields /\ gate.seq \in 0 .. SeqMod - 1 /\ budget.fault \in 0 .. MaxFault /\ MaxFault \in Nat
      /\ "seq" \in DOMAIN FreshGate /\ "next" \in DOMAIN FreshChip
  BY WifiTxAssumption DEF SeqInv, FreshGate, FreshChip
<1>1. ASSUME UNCHANGED <<chip, budget, replayed>>, DOMAIN gate' = DOMAIN gate, gate'.seq = gate.seq
      PROVE  SeqInv'
  BY <1>0, <1>1, SeqMoves DEF Fields
<1>2. CASE wifi_lwip_tx_hold_flush
  <2>1. CASE FlushSend
    BY <2>1, SendSeq DEF FlushSend
  <2>2. CASE FlushStale \/ FlushPaced \/ FlushDone
    BY <1>1, <2>2 DEF FlushStale, FlushPaced, FlushDone, history
  <2>3. QED
    BY <1>2, <2>1, <2>2 DEF wifi_lwip_tx_hold_flush
<1>3. CASE Direct
  BY <1>3, SendSeq DEF Direct
<1>4. CASE Receive
  <2>1. DOMAIN gate' = DOMAIN gate /\ gate'.seq = gate.seq
    BY <1>0, <1>4 DEF Receive, Heard, Fields
  <2>2. QED
    BY <1>1, <1>4, <2>1 DEF Receive, history
<1>5. CASE Control
  <2>1. DOMAIN Numbered(gate) = DOMAIN FreshGate /\ Numbered(gate).seq = n
    BY <1>0, NumberedSeq DEF Fields
  <2>2. ChipTakes(gate.seq, NoFrame) =>
          DOMAIN chip' = DOMAIN FreshChip /\ replayed' = replayed /\ chip'.next = n
    BY TakesSeq
  <2>3. ChipUntouched => UNCHANGED <<chip, replayed>>
    BY DEF ChipUntouched
  <2> HIDE DEF n
  <2>4. CASE /\ gate' = Numbered(gate) /\ ChipTakes(gate.seq, NoFrame)
             /\ budget' = [budget EXCEPT !.control = @ - 1]
    <3>1. DOMAIN budget' = DOMAIN budget /\ budget'.fault = budget.fault
      BY <1>0, <2>4 DEF Fields
    <3>2. QED
      BY <1>0, <2>1, <2>2, <2>4, <3>1, SeqMoves DEF Fields, n
  <2>5. CASE /\ budget.fault > 0
             /\ budget' = [budget EXCEPT !.control = @ - 1, !.fault = @ - 1]
             /\ \/ UNCHANGED gate /\ ChipUntouched
                \/ gate' = Numbered(gate) /\ (ChipUntouched \/ ChipTakes(gate.seq, NoFrame))
    <3>1. /\ DOMAIN budget' = DOMAIN budget /\ budget'.fault = budget.fault - 1
          /\ budget'.fault \in 0 .. budget.fault
      BY <1>0, <2>5 DEF Fields
    <3>2. Fields' /\ replayed' = replayed
      BY <1>0, <2>1, <2>2, <2>3, <2>5, <3>1, Zenon DEF Fields
    <3>3. \/ gate'.seq = gate.seq /\ chip'.next = chip.next
          \/ gate'.seq = n /\ chip'.next = n
          \/ gate'.seq = n /\ chip'.next = chip.next /\ budget'.fault = budget.fault - 1
      BY <2>1, <2>2, <2>3, <2>5, <3>1
    <3>4. QED
      BY <3>1, <3>2, <3>3, SeqMoves DEF n
  <2>6. QED
    BY <1>5, <2>4, <2>5 DEF Control
<1>6. CASE sdio_runtime_start
  <2>1. /\ DOMAIN gate' = DOMAIN FreshGate /\ gate'.seq = 0
        /\ DOMAIN chip' = DOMAIN FreshChip /\ chip'.next = 0
        /\ DOMAIN budget' = DOMAIN budget /\ budget'.fault = budget.fault /\ replayed' = replayed
    BY <1>0, <1>6 DEF sdio_runtime_start, FreshGate, FreshChip, Fields, history
  <2>2. QED
    BY <1>0, <2>1, SeqMoves DEF Fields
<1>7. CASE Booted
  <2>1. DOMAIN gate' = DOMAIN gate /\ gate'.seq = gate.seq
    BY <1>0, <1>7 DEF Booted, Fields
  <2>2. QED
    BY <1>1, <1>7, <2>1 DEF Booted, history
<1>8. CASE Chip
  <2>1. DOMAIN chip' = DOMAIN chip /\ chip'.next = chip.next
    BY <1>0, <1>8 DEF Chip, Fields
  <2>2. DOMAIN budget' = DOMAIN budget /\ budget'.fault = budget.fault
    BY <1>0, <1>8 DEF Chip, Fields
  <2>3. QED
    BY <1>0, <1>8, <2>1, <2>2, SeqMoves DEF Chip, Fields, hostVars, history
<1>9. CASE Tick
  <2>1. DOMAIN gate' = DOMAIN gate /\ gate'.seq = gate.seq
    BY <1>0, <1>9 DEF Tick, Fields
  <2>2. QED
    BY <1>1, <1>9, <2>1 DEF Tick, history
<1>10. ASSUME NEW tcp \in BOOLEAN, wifi_lwip_link_output(tcp) PROVE SeqInv'
  BY <1>1, <1>10 DEF wifi_lwip_link_output, history
<1>11. CASE PollFlush
  BY <1>1, <1>11 DEF PollFlush, history
<1>12. CASE UNCHANGED vars
  BY <1>1, <1>12 DEF vars, hostVars, history
<1>13. QED
  BY <1>2, <1>3, <1>4, <1>5, <1>6, <1>7, <1>8, <1>9, <1>10, <1>11, <1>12 DEF Next

\* The chip is never sent a number it has used before, through refusals, failed
\* transfers, commands and restarts, as long as the transfers that fail are fewer
\* than half the numbers (128 of the 256 of an uint8_t): a failed number is given
\* back only when the chip cannot have it (sdio_runtime_send_ethernet_frame).
THEOREM NeverReplayedCorrect == ASSUME 2 * MaxFault < SeqMod PROVE Spec => []NeverReplayed
<1>1. Init => SeqInv
  <2>1. SeqMod \in Nat \ {0} /\ MaxFault \in Nat
    BY WifiTxAssumption
  <2>2. QED
    BY <2>1 DEF Init, SeqInv, Fields, FreshGate, FreshChip, Gap
<1>2. SeqInv /\ [Next]_vars => SeqInv'
  BY SeqStep
<1>3. SeqInv => NeverReplayed
  BY DEF SeqInv, NeverReplayed
<1>4. QED
  BY <1>1, <1>2, <1>3, PTL DEF Spec
-----------------------------------------------------------------------------
(* The reserved slots.                                                     *)

\* The places of q that TCP frames take: HeldTcp, of any queue.
TcpOf(q) == {i \in DOMAIN q : q[i].tcp}

\* There are finitely many.
LEMMA TcpFinite ==
  ASSUME NEW q \in Seq(HeldFrames)
  PROVE  /\ Len(q) \in Nat /\ DOMAIN q = 1 .. Len(q) /\ TcpOf(q) \subseteq 1 .. Len(q)
         /\ IsFiniteSet(1 .. Len(q)) /\ Cardinality(1 .. Len(q)) = Len(q)
         /\ IsFiniteSet(TcpOf(q)) /\ Cardinality(TcpOf(q)) \in Nat
<1>1. Len(q) \in Nat /\ DOMAIN q = 1 .. Len(q)
  BY LenProperties
<1>2. TcpOf(q) \subseteq 1 .. Len(q)
  BY <1>1, Zenon DEF TcpOf
<1>3. IsFiniteSet(1 .. Len(q)) /\ Cardinality(1 .. Len(q)) = Len(q)
  BY <1>1, FS_Interval
<1>4. IsFiniteSet(TcpOf(q))
  BY <1>2, <1>3, FS_Subset, Zenon
<1>5. QED
  BY <1>1, <1>2, <1>3, <1>4, FS_CardinalityType, Zenon

\* The other frames have the rest of the queue.
LEMMA TcpOther ==
  ASSUME NEW q \in Seq(HeldFrames)
  PROVE  Cardinality(DOMAIN q \ TcpOf(q)) = Len(q) - Cardinality(TcpOf(q))
<1> DEFINE S == TcpOf(q)
           T == DOMAIN q \ TcpOf(q)
<1>1. /\ Len(q) \in Nat /\ DOMAIN q = 1 .. Len(q) /\ S \subseteq 1 .. Len(q)
      /\ IsFiniteSet(1 .. Len(q)) /\ Cardinality(1 .. Len(q)) = Len(q)
      /\ IsFiniteSet(S) /\ Cardinality(S) \in Nat
  BY TcpFinite, Zenon
<1>2. T \in SUBSET (1 .. Len(q)) /\ S \cup T = 1 .. Len(q) /\ S \cap T = {}
  BY <1>1, Zenon
<1>3. IsFiniteSet(T)
  BY <1>1, <1>2, FS_Subset, Zenon
<1>4. Cardinality(T) \in Nat
  BY <1>3, FS_CardinalityType, Zenon
<1> HIDE DEF S, T
<1>5. Cardinality(S \cup T) = Cardinality(S) + Cardinality(T) - Cardinality(S \cap T)
  BY <1>1, <1>3, FS_Union, Zenon
<1>6. Cardinality(S \cap T) = 0
  BY <1>2, FS_EmptySet, Zenon
<1>7. Cardinality(T) = Len(q) - Cardinality(S)
  <2>1. Len(q) = Cardinality(S) + Cardinality(T) - 0
    BY <1>1, <1>2, <1>5, <1>6, Zenon
  <2>2. PICK a \in Nat, b \in Nat : a = Cardinality(S) /\ b = Cardinality(T)
    BY <1>1, <1>4, Zenon
  <2>3. Len(q) = a + b - 0
    BY <2>1, <2>2, Zenon
  <2>4. b = Len(q) - a
    BY <1>1, <2>3
  <2>5. QED
    BY <2>2, <2>4, Zenon
<1>8. QED
  BY <1>7, Zenon DEF S, T

\* A frame put at the end takes a TCP place when it is TCP's.
LEMMA TcpAppend ==
  ASSUME NEW q \in Seq(HeldFrames), NEW f \in HeldFrames
  PROVE  Cardinality(TcpOf(Append(q, f)))
           = IF f.tcp THEN Cardinality(TcpOf(q)) + 1 ELSE Cardinality(TcpOf(q))
<1> DEFINE n == Len(q) + 1
<1>1. /\ Len(q) \in Nat /\ DOMAIN q = 1 .. Len(q) /\ TcpOf(q) \subseteq 1 .. Len(q)
      /\ IsFiniteSet(TcpOf(q)) /\ Cardinality(TcpOf(q)) \in Nat
  BY TcpFinite, Zenon
<1>2. /\ DOMAIN Append(q, f) = 1 .. Len(q) + 1 /\ Append(q, f)[n] = f
      /\ \A i \in 1 .. Len(q) : Append(q, f)[i] = q[i]
  BY <1>1, AppendProperties, LenProperties
<1>3. /\ n \in 1 .. Len(q) + 1 /\ n \notin 1 .. Len(q)
      /\ \A i \in 1 .. Len(q) + 1 : i \in 1 .. Len(q) \/ i = n
      /\ \A i \in 1 .. Len(q) : i \in 1 .. Len(q) + 1
  BY <1>1
<1> HIDE DEF n
<1>4. CASE f.tcp
  <2>1. TcpOf(Append(q, f)) = TcpOf(q) \cup {n}
    BY <1>1, <1>2, <1>3, <1>4, Zenon DEF TcpOf
  <2>2. n \notin TcpOf(q)
    BY <1>1, <1>3, Zenon
  <2>3. QED
    BY <1>1, <1>4, <2>1, <2>2, FS_AddElement
<1>5. CASE ~f.tcp
  <2>1. TcpOf(Append(q, f)) = TcpOf(q)
    BY <1>1, <1>2, <1>3, <1>5, Zenon DEF TcpOf
  <2>2. QED
    BY <1>5, <2>1, Zenon
<1>6. QED
  BY <1>4, <1>5, Zenon

\* The head taken off gives up a TCP place when it is TCP's.
LEMMA TcpTail ==
  ASSUME NEW q \in Seq(HeldFrames), q # << >>
  PROVE  /\ Tail(q) \in Seq(HeldFrames)
         /\ Cardinality(TcpOf(Tail(q)))
              = IF Head(q).tcp THEN Cardinality(TcpOf(q)) - 1 ELSE Cardinality(TcpOf(q))
         /\ Head(q).tcp => Cardinality(TcpOf(q)) > 0
<1> DEFINE S == TcpOf(q) \ {1}
           T == TcpOf(Tail(q))
           g == [i \in S |-> i - 1]
<1>1. /\ Len(q) \in Nat /\ DOMAIN q = 1 .. Len(q) /\ TcpOf(q) \subseteq 1 .. Len(q)
      /\ IsFiniteSet(TcpOf(q)) /\ Cardinality(TcpOf(q)) \in Nat
  BY TcpFinite, Zenon
<1>2. /\ Tail(q) \in Seq(HeldFrames) /\ Len(Tail(q)) = Len(q) - 1
      /\ \A i \in 1 .. Len(Tail(q)) : Tail(q)[i] = q[i + 1]
      /\ Head(q) = q[1] /\ Len(q) > 0
  BY <1>1, HeadTailProperties, EmptySeq
<1>3. DOMAIN Tail(q) = 1 .. Len(q) - 1
  BY <1>2, LenProperties
<1>4. \A i \in S : i - 1 \in T
  <2>1. ASSUME NEW i \in S PROVE i - 1 \in T
    <3>1. i \in 1 .. Len(q) /\ i # 1 /\ q[i].tcp
      BY <1>1, Zenon DEF TcpOf
    <3>2. i - 1 \in 1 .. Len(q) - 1 /\ (i - 1) + 1 = i
      BY <1>1, <3>1
    <3>3. Tail(q)[i - 1] = q[i]
      BY <1>2, <3>2
    <3>4. QED
      BY <1>3, <3>1, <3>2, <3>3, Zenon DEF TcpOf
  <2>2. QED
    BY <2>1, Zenon
<1>5. \A j \in T : j \in Nat /\ j + 1 \in S
  <2>1. ASSUME NEW j \in T PROVE j \in Nat /\ j + 1 \in S
    <3>1. j \in 1 .. Len(q) - 1 /\ Tail(q)[j].tcp
      BY <1>3, Zenon DEF TcpOf
    <3>2. j \in Nat /\ j + 1 \in 1 .. Len(q) /\ j + 1 # 1 /\ Tail(q)[j] = q[j + 1]
      BY <1>1, <1>2, <3>1
    <3>3. QED
      BY <1>1, <3>1, <3>2, Zenon DEF TcpOf
  <2>2. QED
    BY <2>1, Zenon
<1>6. \A i \in S : i \in Int
  BY <1>1
<1>7. IsFiniteSet(S) /\ Cardinality(S)
        = IF 1 \in TcpOf(q) THEN Cardinality(TcpOf(q)) - 1 ELSE Cardinality(TcpOf(q))
  BY <1>1, FS_RemoveElement, Zenon
<1>8. 1 \in TcpOf(q) <=> Head(q).tcp
  <2>1. 1 \in 1 .. Len(q)
    BY <1>1, <1>2
  <2>2. QED
    BY <1>1, <1>2, <2>1, Zenon DEF TcpOf
<1> HIDE DEF S, T
<1>9. g \in [S -> T]
  BY <1>4
<1>10. \A a, b \in S : g[a] = g[b] => a = b
  BY <1>6
<1>11. \A j \in T : \E i \in S : g[i] = j
  <2>1. ASSUME NEW j \in T PROVE \E i \in S : g[i] = j
    <3>1. j + 1 \in S /\ g[j + 1] = (j + 1) - 1 /\ j \in Nat
      BY <1>5, <2>1
    <3>2. QED
      BY <3>1
  <2>2. QED
    BY <2>1, Zenon
<1> HIDE DEF g
<1>12. ExistsBijection(S, T)
  BY <1>9, <1>10, <1>11, Zenon
     DEF ExistsBijection, Bijection, Injection, Surjection, IsInjective
<1>13. Cardinality(T) = Cardinality(S)
  BY <1>7, <1>12, FS_Bijection, Zenon
<1>14. Head(q).tcp => Cardinality(TcpOf(q)) > 0
  <2>1. Head(q).tcp => Cardinality(TcpOf(q)) # 0
    BY <1>1, <1>8, FS_EmptySet, Zenon
  <2>2. QED
    BY <1>1, <2>1
<1>15. QED
  BY <1>2, <1>7, <1>8, <1>13, <1>14, Zenon DEF T
\* s_tx_tcp_count counts the TCP frames held, which are never more than their
\* share: the decrement of wifi_lwip_tx_hold_pop always has something to count
\* down from.
SlotInv == OrderInv /\ tcpCount = Cardinality(TcpOf(queue)) /\ tcpCount <= TcpMax

\* The count after a frame is taken off ...
LEMMA PopSlots ==
  ASSUME SlotInv, queue # << >>, Pop
  PROVE  tcpCount' = Cardinality(TcpOf(queue')) /\ tcpCount' <= TcpMax
<1>1. queue \in Seq(HeldFrames)
  BY Zenon DEF SlotInv, OrderInv, Shape
<1>2. TcpMax \in Nat
  BY WifiTxAssumption
<1>3. tcpCount \in Nat /\ tcpCount <= TcpMax
  BY <1>1, TcpFinite, Zenon DEF SlotInv
<1>4. /\ Cardinality(TcpOf(queue')) = IF Head(queue).tcp THEN tcpCount - 1 ELSE tcpCount
      /\ Head(queue).tcp => tcpCount > 0
  BY <1>1, TcpTail, Zenon DEF SlotInv, Pop
<1>5. tcpCount' = IF Head(queue).tcp THEN tcpCount - 1 ELSE tcpCount
  BY <1>4, Zenon DEF Pop
<1>6. QED
  BY <1>2, <1>3, <1>4, <1>5

\* ... and after the new one is held or dropped.
LEMMA HoldSlots ==
  ASSUME SlotInv, Hold
  PROVE  tcpCount' = Cardinality(TcpOf(queue')) /\ tcpCount' <= TcpMax
<1> DEFINE f == [id |-> out.id, tcp |-> out.tcp, age |-> 0]
<1>1. queue \in Seq(HeldFrames) /\ f \in HeldFrames /\ f.tcp = out.tcp /\ out.tcp \in BOOLEAN
  BY DEF SlotInv, OrderInv, Shape, HeldFrames
<1>2. TcpMax \in Nat
  BY WifiTxAssumption
<1>3. tcpCount \in Nat /\ tcpCount <= TcpMax /\ tcpCount = Cardinality(TcpOf(queue))
  BY <1>1, TcpFinite, Zenon DEF SlotInv
<1>4. CASE HasSlot(out)
  <2>1. /\ queue' = Append(queue, f)
        /\ tcpCount' = IF out.tcp THEN tcpCount + 1 ELSE tcpCount
    BY <1>4, Zenon DEF Hold, HasSlot
  <2> HIDE DEF f
  <2>2. Cardinality(TcpOf(queue')) = IF f.tcp THEN tcpCount + 1 ELSE tcpCount
    BY <1>1, <1>3, <2>1, TcpAppend, Zenon
  <2>3. CASE out.tcp
    <3>1. tcpCount' = tcpCount + 1 /\ Cardinality(TcpOf(queue')) = tcpCount + 1
          /\ tcpCount < TcpMax
      BY <1>1, <1>4, <2>1, <2>2, <2>3, Zenon DEF HasSlot
    <3>2. QED
      BY <1>2, <1>3, <3>1
  <2>4. CASE ~out.tcp
    BY <1>1, <1>3, <2>1, <2>2, <2>4, Zenon
  <2>5. QED
    BY <2>3, <2>4, Zenon
<1>5. CASE ~HasSlot(out)
  BY <1>3, <1>5, Zenon DEF Hold
<1>6. QED
  BY <1>4, <1>5, Zenon

\* Every step keeps the count.
LEMMA SlotStep == SlotInv /\ [Next]_vars => SlotInv'
<1> SUFFICES ASSUME SlotInv, [Next]_vars
             PROVE  tcpCount' = Cardinality(TcpOf(queue')) /\ tcpCount' <= TcpMax
  BY OrderStep, Zenon DEF SlotInv
<1> USE DEF history, hostVars
<1>1. CASE UNCHANGED <<queue, tcpCount>>
  BY <1>1, Zenon DEF SlotInv
<1>2. CASE wifi_lwip_tx_hold_flush
  <2>1. CASE queue # << >> /\ Pop
    BY <2>1, PopSlots, Zenon
  <2>2. CASE Hold
    BY <2>2, HoldSlots, Zenon
  <2>3. QED
    BY <1>1, <1>2, <2>1, <2>2, Zenon
       DEF wifi_lwip_tx_hold_flush, FlushStale, FlushPaced, FlushSend, FlushFails, FlushDone
<1>3. CASE Direct
  BY <1>1, <1>3, HoldSlots, Zenon DEF Direct
<1>4. CASE Tick
  <2>1. queue \in Seq(HeldFrames) /\ DOMAIN queue = 1 .. Len(queue)
    BY DEF SlotInv, OrderInv, Shape
  <2>2. \A i \in DOMAIN queue : queue[i] \in HeldFrames
    BY <2>1
  <2>3. \A i \in DOMAIN queue : "tcp" \in DOMAIN queue[i]
    BY <2>2 DEF HeldFrames
  <2>4. queue' = [i \in DOMAIN queue |-> [queue[i] EXCEPT !.age = Older(@, HoldAge + 1)]]
        /\ UNCHANGED tcpCount
    BY <1>4, Zenon DEF Tick
  <2>5. DOMAIN queue' = DOMAIN queue /\ \A i \in DOMAIN queue : queue'[i].tcp = queue[i].tcp
    BY <2>3, <2>4
  <2>6. TcpOf(queue') = TcpOf(queue)
    BY <2>5, Zenon DEF TcpOf
  <2>7. QED
    BY <2>4, <2>6, Zenon DEF SlotInv
<1>5. QED
  BY <1>1, <1>2, <1>3, <1>4, Zenon
     DEF Next, vars, wifi_lwip_link_output, PollFlush, Receive, Control,
         sdio_runtime_start, Booted, Chip

\* A frame that wifi_lwip_tx_hold_push has no room for finds the slots taken
\* by frames of its own kind, or all of them.
LEMMA NoSlot ==
  ASSUME SlotInv, out # NoFrame, ~HasSlot(out)
  PROVE  \/ Cardinality(DOMAIN queue \ HeldTcp) >= QueueDepth - TcpMax
         \/ out.tcp /\ Cardinality(HeldTcp) >= TcpMax
<1>1. queue \in Seq(HeldFrames) /\ out.tcp \in BOOLEAN
  BY DEF SlotInv, OrderInv, Shape
<1>2. TcpMax \in Nat /\ QueueDepth \in Nat
  <2>1. QueueDepth \in Nat
    BY WifiTxAssumption, Zenon DEF WifiTxAssumption
  <2>2. TcpMax \in 0 .. QueueDepth
    BY WifiTxAssumption, Zenon DEF WifiTxAssumption
  <2>3. QED
    BY <2>1, <2>2
<1>3. /\ tcpCount \in Nat /\ tcpCount <= TcpMax /\ tcpCount = Cardinality(HeldTcp)
      /\ Len(queue) \in Nat
      /\ Cardinality(DOMAIN queue \ HeldTcp) = Len(queue) - tcpCount
  BY <1>1, TcpFinite, TcpOther, Zenon DEF SlotInv, HeldTcp, TcpOf
<1>4. CASE ~(Len(queue) < QueueDepth)
  BY <1>2, <1>3, <1>4
<1>5. CASE out.tcp /\ ~(tcpCount < TcpMax)
  <2>1. Cardinality(HeldTcp) >= TcpMax
    BY <1>2, <1>3, <1>5
  <2>2. QED
    BY <1>5, <2>1, Zenon
<1>6. QED
  BY <1>4, <1>5, Zenon DEF HasSlot

\* A frame that is held is among the held frames.
LEMMA HeldAfter ==
  ASSUME OrderInv, Hold, HasSlot(out) PROVE out.id \in Held'
<1> DEFINE f == [id |-> out.id, tcp |-> out.tcp, age |-> 0]
<1>1. queue \in Seq(HeldFrames) /\ f \in HeldFrames /\ f.id = out.id
  BY DEF OrderInv, Shape, HeldFrames
<1>2. queue' = Append(queue, f)
  BY Zenon DEF Hold
<1> HIDE DEF f
<1>3. Len(queue) + 1 \in DOMAIN queue' /\ queue'[Len(queue) + 1] = f
  BY <1>1, <1>2, AppendProperties, LenProperties
<1>4. QED
  BY <1>1, <1>3 DEF Held

\* A frame the chip is sent and takes is the last it took: it is sent no number
\* it had used before.
LEMMA SentAired ==
  ASSUME NEW f, f # NoFrame, Send(f, TRUE), ~replayed' PROVE aired' = f.id
  BY Zenon DEF Send, ChipTakes

\* A frame is lost in wifi_lwip_link_output only when the slots open to it are
\* taken, and no TCP frame takes a slot reserved for the others, for every
\* depth, share, window, limit and number of frames and restarts, as long as
\* the faults leave the sequence numbers apart (wifi_lwip_tx_hold_push).
THEOREM ReservedSlotsCorrect == ASSUME 2 * MaxFault < SeqMod PROVE Spec => ReservedSlots
<1> DEFINE P == out # NoFrame /\ out' = NoFrame /\ out.id \notin Held' /\ aired' # out.id
           Q == \/ Cardinality(DOMAIN queue \ HeldTcp) >= QueueDepth - TcpMax
                \/ out.tcp /\ Cardinality(HeldTcp) >= TcpMax
<1>1. Init => SlotInv
  <2>1. Init => tcpCount = 0 /\ TcpOf(queue) = {} /\ 0 <= TcpMax
    BY WifiTxAssumption DEF Init, TcpOf
  <2>2. QED
    BY <2>1, OrderInit, FS_EmptySet, Zenon DEF SlotInv
<1>2. SlotInv /\ ~replayed' /\ [Next]_vars => [P => Q]_vars
  <2> SUFFICES ASSUME SlotInv, ~replayed', Next, P PROVE Q
    BY Zenon
  <2>1. OrderInv
    BY Zenon DEF SlotInv
  <2>2. out # NoFrame /\ at # "loop"
    BY <2>1, Zenon DEF OrderInv
  <2>3. CASE Hold
    BY <2>1, <2>2, <2>3, HeldAfter, NoSlot, Zenon
  <2>4. CASE Direct
    <3>1. ~(Send(out, TRUE))
      BY <2>2, SentAired, Zenon
    <3>2. QED
      BY <2>3, <2>4, <3>1, Zenon DEF Direct
  <2>5. CASE wifi_lwip_tx_hold_flush
    <3>1. ~(out' = out)
      BY Zenon
    <3>2. QED
      BY <2>2, <2>3, <2>5, <3>1, Zenon
         DEF wifi_lwip_tx_hold_flush, FlushStale, FlushPaced, FlushSend, FlushFails, FlushDone
  <2>6. QED
    BY <2>2, <2>4, <2>5, Zenon
       DEF Next, wifi_lwip_link_output, PollFlush, Receive, Control,
           sdio_runtime_start, Booted, Chip, Tick
<1>3. Spec => []~replayed
  BY NeverReplayedCorrect, PTL DEF NeverReplayed
<1>4. QED
  BY <1>1, <1>2, <1>3, SlotStep, PTL DEF Spec, ReservedSlots
=============================================================================
