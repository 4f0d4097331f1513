------------------------------ MODULE WifiTx ------------------------------
(***************************************************************************)
(* The Wi-Fi transmit path: lwIP's frames through the hold queue           *)
(* (wifi_lwip.c) and the SDPCM credit gate (sdio.c) to the radio chip.     *)
(*                                                                         *)
(* All of it runs in the main loop.  `at' says where the loop stands, so   *)
(* that one pass of the while loop in wifi_lwip_tx_hold_flush is one step; *)
(* `owed' makes the loop flush after every drain and before time passes.   *)
(* The chip is external: it takes frames by number, credits one number for *)
(* each frame it sends on, discards a number it has used before, and puts  *)
(* its window and its stop flag into the header of every frame it sends.   *)
(***************************************************************************)
EXTENDS Integers, Sequences, FiniteSets

CONSTANTS
  SeqMod,      \* 2^8: sequence numbers are uint8_t
  Window,      \* frames the chip buffers
  QueueDepth,  \* WIFI_LWIP_TX_QUEUE_DEPTH
  TcpMax,      \* WIFI_LWIP_TX_QUEUE_TCP_MAX
  HoldAge,     \* WIFI_LWIP_TX_HOLD_MAX_AGE_US, in ticks
  StallIdle,   \* SDPCM_TX_STALL_IDLE_RESYNC_US
  Stall,       \* SDPCM_TX_STALL_RESYNC_US
  MaxFrame,    \* frames lwIP sends
  MaxStop,     \* flow-control stops of the chip
  MaxFault,    \* transfers that fail
  MaxControl,  \* commands sent beside the frames
  MaxRestart   \* chip restarts

ASSUME WifiTxAssumption ==
  /\ SeqMod \in Nat /\ SeqMod % 2 = 0 /\ SeqMod > 2 * (Window + MaxControl)
  /\ \A n \in {Window, QueueDepth, StallIdle} : n \in Nat \ {0}
  /\ TcpMax \in 0 .. QueueDepth /\ HoldAge \in Nat /\ Stall \in Nat
  /\ \A n \in {MaxFrame, MaxStop, MaxFault, MaxControl, MaxRestart} : n \in Nat

VARIABLES
  gate,     \* the driver's view of the credit window: see Init
  queue,    \* held frames, oldest first
  tcpCount, \* s_tx_tcp_count
  blocked,  \* s_tx_flush_blocked
  news,     \* blocked, and something has arrived since
  at,       \* where the main loop is
  out,      \* the frame wifi_lwip_link_output was called with
  owed,     \* a flush is due before time passes
  chip,     \* the radio chip: see Init
  budget,   \* faults and rare events left
  sent,     \* frames lwIP has sent
  aired,    \* history: the last frame the chip took
  replayed  \* history: the chip was sent a number it had used before

hostVars == <<gate, queue, tcpCount, blocked, news, at, out, owed>>
history  == <<aired, replayed>>
vars == <<hostVars, chip, budget, sent, history>>

NoFrame == [id |-> 0, tcp |-> FALSE]

\* seq is g_sdpcm_tx_sequence; max, valid and stop are g_runtime_max_seq,
\* g_runtime_max_seq_valid and g_runtime_wlan_flow_control; age is the time
\* since tx_stall_since_us, heard says that something arrived since then;
\* dead says that the TX-dead clock (tx_shut_since_us) runs.
FreshGate == [up |-> TRUE, seq |-> 0, max |-> 0, valid |-> FALSE, stop |-> FALSE,
              stalled |-> FALSE, age |-> 0, heard |-> FALSE, dead |-> FALSE]

\* next is the number the chip expects, max the window it advertises, used
\* the frames it has not sent on.
FreshChip == [next |-> 0, max |-> Window, used |-> 0, stop |-> FALSE]

Init ==
  /\ gate = FreshGate /\ chip = FreshChip
  /\ queue = << >> /\ tcpCount = 0 /\ blocked = FALSE /\ news = FALSE
  /\ at = "loop" /\ out = NoFrame /\ owed = FALSE
  /\ budget = [stop |-> MaxStop, fault |-> MaxFault, control |-> MaxControl,
               restart |-> MaxRestart]
  /\ sent = 0 /\ aired = 0 /\ replayed = FALSE

-----------------------------------------------------------------------------
(* The credit gate: sdio_runtime_send_ethernet_frame *)

\* (int8_t)(a - b) >= 0.
NotBelow(a, b) == (a - b) % SeqMod < SeqMod \div 2

\* sdio_runtime_tx_window_shut.
Shut(g) == g.valid /\ (g.stop \/ NotBelow(g.seq, g.max))

\* A shut window that has stood for long enough: a stop is forgotten, credit
\* is not.
Cleared(g) == [g EXCEPT !.stop = FALSE, !.age = 0, !.heard = FALSE]

Waiting(g) == g.age < IF g.heard THEN Stall ELSE StallIdle

\* age and heard mean nothing, and are kept at rest, without a stall.
Unstalled(g) == [g EXCEPT !.stalled = FALSE, !.age = 0, !.heard = FALSE]

FirstRefusal(g) == [g EXCEPT !.stalled = TRUE, !.age = 0, !.heard = FALSE,
                             !.dead = TRUE]

\* What the gate leaves behind, and whether it lets the frame through.
Asked(g) ==
  CASE ~Shut(g)                            -> Unstalled(g)
    [] Shut(g) /\ ~g.stalled               -> FirstRefusal(g)
    [] Shut(g) /\ g.stalled /\ Waiting(g)  -> g
    [] Shut(g) /\ g.stalled /\ ~Waiting(g) -> Cleared(g)

Open(g) == ~Shut(Asked(g)) /\ (Shut(g) => g.stalled /\ ~Waiting(g))

Numbered(g) == [g EXCEPT !.seq = (@ + 1) % SeqMod]

\* The chip is handed frame f with number n; a command uses no buffer and is
\* credited at once.
ChipTakes(n, f) ==
  IF NotBelow(n, chip.next)
  THEN /\ chip' = IF f = NoFrame
                  THEN [chip EXCEPT !.next = (n + 1) % SeqMod, !.max = (@ + 1) % SeqMod]
                  ELSE [chip EXCEPT !.next = (n + 1) % SeqMod, !.used = @ + 1]
       /\ aired' = IF f = NoFrame THEN aired ELSE f.id
       /\ UNCHANGED replayed
  ELSE replayed' = TRUE /\ UNCHANGED <<chip, aired>>

ChipUntouched == UNCHANGED <<chip, aired, replayed>>

Fault == budget.fault > 0 /\ budget' = [budget EXCEPT !.fault = @ - 1]

\* The command phase timed out: the number is given back ...
GivenBack(g, armed) ==
  Fault /\ gate' = armed /\ ChipUntouched

\* Mutant: the number is given back after every failure.
UnsureGivesBack(g, armed, f) ==
  /\ Fault /\ gate' = armed
  /\ \/ ChipUntouched \/ ChipTakes(g.seq, f)

\* ... and after a later failure it is not: the chip may have the frame.
Unsure(g, armed, f) ==
  /\ Fault /\ gate' = Numbered(armed)
  /\ \/ ChipUntouched \/ ChipTakes(g.seq, f)

\* sdio_runtime_send_ethernet_frame(f) returns ok.
Send(f, ok) ==
  LET g     == Asked(gate)
      armed == [g EXCEPT !.dead = TRUE]
  IN \/ \* not started, or refused by the gate
        /\ ~ok /\ (~gate.up \/ ~Open(gate))
        /\ gate' = IF gate.up THEN g ELSE gate
        /\ UNCHANGED budget /\ ChipUntouched
     \/ \* sdio_runtime_wake_bus finds the chip asleep
        /\ ~ok /\ gate.up /\ Open(gate)
        /\ Fault /\ gate' = g
        /\ ChipUntouched
     \/ \* the transfer fails
        /\ ~ok /\ gate.up /\ Open(gate)
        /\ GivenBack(g, armed) \/ Unsure(g, armed, f)
     \/ /\ ok /\ gate.up /\ Open(gate)
        /\ gate' = Numbered(g)
        /\ ChipTakes(g.seq, f)
        /\ UNCHANGED budget

-----------------------------------------------------------------------------
(* The hold queue *)

\* Mutant: frames are aged out only to make room.
IsStaleFull(f) == f.age > HoldAge /\ Len(queue) = QueueDepth

IsStale(f) == f.age > HoldAge

\* wifi_lwip_tx_hold_pop.
Pop ==
  /\ queue' = Tail(queue)
  /\ tcpCount' = IF Head(queue).tcp /\ tcpCount > 0 THEN tcpCount - 1 ELSE tcpCount

\* Mutant: TCP may fill the queue.
HasSlotUnreserved(f) == Len(queue) < QueueDepth

\* wifi_lwip_tx_hold_push has room: TCP may not take the reserved slots.
HasSlot(f) == Len(queue) < QueueDepth /\ (f.tcp => tcpCount < TcpMax)

\* wifi_lwip_link_output with a frame the chip would not take.
Hold ==
  IF HasSlot(out)
  THEN /\ queue' = Append(queue, [id |-> out.id, tcp |-> out.tcp, age |-> 0])
       /\ tcpCount' = IF out.tcp THEN tcpCount + 1 ELSE tcpCount
  ELSE UNCHANGED <<queue, tcpCount>>

Return == at' = "loop" /\ out' = NoFrame

\* wifi_lwip_tx_hold_flush returns false.
FlushFails ==
  \/ out = NoFrame /\ UNCHANGED <<queue, tcpCount>>
  \/ out # NoFrame /\ Hold

\* One pass of the loop: the head is too old ...
FlushStale ==
  /\ IsStale(Head(queue)) /\ Pop
  /\ UNCHANGED <<gate, blocked, news, at, out, chip, budget, history>>

\* ... or was refused and nothing has arrived since ...
FlushPaced ==
  /\ ~IsStale(Head(queue)) /\ blocked /\ ~news
  /\ FlushFails /\ Return
  /\ UNCHANGED <<gate, blocked, news, chip, budget, history>>

\* ... or is offered to the chip.
FlushSend ==
  /\ ~IsStale(Head(queue)) /\ (blocked => news)
  /\ \/ /\ Send(Head(queue), TRUE) /\ Pop
        /\ blocked' = FALSE /\ news' = FALSE /\ UNCHANGED <<at, out>>
     \/ /\ Send(Head(queue), FALSE)
        /\ blocked' = TRUE /\ news' = FALSE
        /\ FlushFails /\ Return

\* Nothing is held: the new frame, if any, goes straight to the chip.
FlushDone ==
  /\ queue = << >> /\ blocked' = FALSE /\ news' = FALSE
  /\ IF out = NoFrame THEN Return ELSE at' = "direct" /\ UNCHANGED out
  /\ UNCHANGED <<gate, queue, tcpCount, chip, budget, history>>

wifi_lwip_tx_hold_flush ==
  /\ at = "flush"
  /\ \/ queue # << >> /\ (FlushStale \/ FlushPaced \/ FlushSend)
     \/ FlushDone
  /\ UNCHANGED <<owed, sent>>

Direct ==
  /\ at = "direct" /\ Return
  /\ \/ Send(out, TRUE) /\ UNCHANGED <<queue, tcpCount>>
     \/ Send(out, FALSE) /\ Hold
  /\ UNCHANGED <<blocked, news, owed, sent>>

\* Mutant: a frame that finds frames held goes to the chip all the same.
OvertakeHeld(tcp) ==
  /\ at = "loop" /\ sent < MaxFrame /\ sent' = sent + 1
  /\ out' = [id |-> sent + 1, tcp |-> tcp] /\ at' = "direct"
  /\ UNCHANGED <<gate, queue, tcpCount, blocked, news, owed, chip, budget,
                 history>>

\* lwIP sends a frame: what is held goes first.
wifi_lwip_link_output(tcp) ==
  /\ at = "loop" /\ sent < MaxFrame /\ sent' = sent + 1
  /\ out' = [id |-> sent + 1, tcp |-> tcp] /\ at' = "flush"
  /\ UNCHANGED <<gate, queue, tcpCount, blocked, news, owed, chip, budget,
                 history>>

\* The flush of wifi_lwip_poll.
PollFlush ==
  /\ at = "loop" /\ owed
  /\ at' = "flush" /\ owed' = FALSE
  /\ UNCHANGED <<gate, queue, tcpCount, blocked, news, out, chip, budget,
                 sent, history>>

-----------------------------------------------------------------------------
(* Frames from the chip, commands to it, and time *)

\* sdio_runtime_complete_read_ethernet_frame_timeout reads a header: only a
\* window that is open stops the TX-dead clock.
Heard(g, h) ==
  LET r == [g EXCEPT !.stop = h.stop, !.max = h.max, !.valid = TRUE,
                     !.heard = g.stalled]
  IN IF Shut(r) THEN r ELSE [r EXCEPT !.dead = FALSE]

\* The header is the chip's view when the host reads it: what the chip did
\* while a header waited in its FIFO may as well be done after the read.
Receive ==
  /\ at = "loop" /\ gate.up
  /\ gate' = Heard(gate, chip) /\ news' = blocked /\ owed' = TRUE
  /\ UNCHANGED <<queue, tcpCount, blocked, at, out, chip, budget, sent, history>>

\* sdio_probe_send_single_tx_control_template_timeout: the join's commands
\* pass the gate by.
Control ==
  /\ at = "loop" /\ gate.up /\ budget.control > 0
  /\ \/ /\ gate' = Numbered(gate) /\ ChipTakes(gate.seq, NoFrame)
        /\ budget' = [budget EXCEPT !.control = @ - 1]
     \/ /\ budget.fault > 0
        /\ budget' = [budget EXCEPT !.control = @ - 1, !.fault = @ - 1]
        /\ \/ UNCHANGED gate /\ ChipUntouched
           \/ gate' = Numbered(gate) /\ (ChipUntouched \/ ChipTakes(gate.seq, NoFrame))
  /\ UNCHANGED <<queue, tcpCount, blocked, news, at, out, owed, sent>>

\* sdio_runtime_start, whenever the ladder (WifiLink) asks for it: both sides
\* count from 0 again.
sdio_runtime_start ==
  /\ at = "loop" /\ budget.restart > 0
  /\ budget' = [budget EXCEPT !.restart = @ - 1]
  /\ gate' = [FreshGate EXCEPT !.up = FALSE] /\ news' = blocked
  /\ chip' = FreshChip
  /\ UNCHANGED <<queue, tcpCount, blocked, at, out, owed, sent, history>>

\* SDIO_RUNTIME_STAGE_WRITE_INTR_MASK.
Booted ==
  /\ at = "loop" /\ ~gate.up
  /\ gate' = [gate EXCEPT !.up = TRUE]
  /\ UNCHANGED <<queue, tcpCount, blocked, news, at, out, owed, chip, budget,
                 sent, history>>

\* The chip sends a buffered frame on, or changes its mind about flow control.
Chip ==
  /\ at = "loop"
  /\ \/ /\ chip.used > 0
        /\ chip' = [chip EXCEPT !.used = @ - 1, !.max = (@ + 1) % SeqMod]
        /\ UNCHANGED budget
     \/ /\ chip.stop \/ budget.stop > 0
        /\ chip' = [chip EXCEPT !.stop = ~@]
        /\ budget' = IF chip.stop THEN budget ELSE [budget EXCEPT !.stop = @ - 1]
  /\ UNCHANGED <<hostVars, sent, history>>

Older(n, max) == IF n < max THEN n + 1 ELSE n

Tick ==
  /\ at = "loop" /\ ~owed /\ owed' = TRUE
  /\ gate' = [gate EXCEPT !.age = IF gate.stalled THEN Older(@, Stall) ELSE @]
  /\ queue' = [i \in DOMAIN queue |-> [queue[i] EXCEPT !.age = Older(@, HoldAge + 1)]]
  /\ UNCHANGED <<tcpCount, blocked, news, at, out, chip, budget, sent, history>>

-----------------------------------------------------------------------------
Next ==
  \/ \E tcp \in BOOLEAN : wifi_lwip_link_output(tcp)
  \/ PollFlush \/ wifi_lwip_tx_hold_flush \/ Direct
  \/ Receive \/ Control \/ sdio_runtime_start \/ Booted
  \/ Chip \/ Tick

\* The main loop turns, and time passes however much the chip has to say
\* (strong: a tick waits for the flush that every frame from the chip asks
\* for).  Nothing is assumed of the chip.
Fairness ==
  /\ WF_vars(PollFlush) /\ WF_vars(wifi_lwip_tx_hold_flush) /\ WF_vars(Direct)
  /\ SF_vars(Tick)

Spec == Init /\ [][Next]_vars /\ Fairness

-----------------------------------------------------------------------------
(* Properties *)

Held == {queue[i].id : i \in DOMAIN queue}

HeldTcp == {i \in DOMAIN queue : queue[i].tcp}

\* Frames reach the chip in the order lwIP sent them, through refusals,
\* failed transfers, aging and restarts: "order is preserved absolutely"
\* (wifi_lwip.c).  A frame may arrive twice, after a failure that was none.
FrameOrder == [][aired' >= aired]_vars

\* The chip is never sent a number it has used before, which it would discard
\* without giving credit: a number is taken back only "when the command phase
\* timed out" and "NEVER" rewritten (sdio_runtime_send_ethernet_frame).
NeverReplayed == ~replayed

\* link_output loses a frame that has no second chance only when such frames
\* hold all the slots reserved for them, and a TCP frame only when TCP has its
\* share or the queue is full (wifi_lwip_tx_hold_push).
ReservedSlots ==
  [][out # NoFrame /\ out' = NoFrame /\ out.id \notin Held' /\ aired' # out.id =>
       \/ Cardinality(DOMAIN queue \ HeldTcp) >= QueueDepth - TcpMax
       \/ out.tcp /\ Cardinality(HeldTcp) >= TcpMax]_vars

\* After a burst of frames the queue empties, each frame sent or dropped, also
\* when the chip never says another word: "a stuck head cannot pin the queue"
\* (wifi_lwip_tx_hold_flush).
HeldFramesLeave == []<>(queue = << >>)

\* The chip has taken or lost every number it gave credit for, and will give
\* no more.
Exhausted == gate.valid /\ NotBelow(gate.seq, chip.max) /\ chip.used = 0

\* A frame refused for want of credit that will never come leaves the TX-dead
\* clock running, so that the recovery ladder acts: it "has been counting
\* since the first refusal" (sdio_runtime_send_ethernet_frame).  The code does
\* not promise this, and no run checks it: with two faults TLC reaches a
\* refusal with the stall flag up, which does not arm a clock that a header
\* with an open window has cleared.
DeadClockRuns == [][at = "direct" /\ gate.up /\ Exhausted => gate'.dead]_vars
=============================================================================
