----------------------------- MODULE WifiLink -----------------------------
(***************************************************************************)
(* How the Pi gets on the Wi-Fi and back on it: the boot (wifi.c), the     *)
(* recovery ladder of rejoins and chip restarts (wifi_lwip.c), and the     *)
(* bring-up stages, link events and freshness clocks under it (sdio.c).    *)
(*                                                                         *)
(* One pass of wifi_dispatch_poll is one step, written as functions from   *)
(* states to sets of states.  The chip and the access point are external:  *)
(* they associate, key, lose the link and break between two passes.  A     *)
(* tick of time stands for several seconds; while the chip hears the       *)
(* network some frame arrives in every tick, and while it swallows what it *)
(* is sent some frame is refused in every tick.  A scan takes less than a  *)
(* tick.                                                                   *)
(***************************************************************************)
EXTENDS Integers, Sequences

CONSTANTS
  First, MaxInterval,  \* WIFI_LWIP_REJOIN_FIRST_US, WIFI_LWIP_REJOIN_MAX_US
  TxDead, TxRestart,   \* WIFI_LWIP_TX_DEAD_LIMIT_US, WIFI_LWIP_TX_DEAD_RESTART_US
  Grace,               \* the 20 s after a restart
  BootWindow,          \* WIFI_LWIP_LINK_TIMEOUT_US
  Silence, Dwell,      \* WIFI_LWIP_RX_SILENCE_LIMIT_US, WIFI_LWIP_HEALTH_DWELL_US
  KeyedGrace,          \* SDIO_PSK_KEYED_GRACE_US
  RejoinCap,           \* 3 rejoins escalate
  RestartCap,          \* 3 restarts at most while rejoins are possible
  MaxTrouble,          \* rare events: failing steps, chip faults, losses
  MaxFifo              \* events the chip holds

ASSUME WifiLinkAssumption ==
  /\ \A n \in {First, TxDead, Grace, BootWindow, KeyedGrace} : n \in Nat \ {0}
  /\ MaxInterval >= First /\ TxRestart >= TxDead /\ Dwell > Silence /\ Silence > 0
  /\ RejoinCap \in Nat \ {0} /\ RestartCap \in Nat /\ MaxFifo \in Nat \ {0}
  /\ MaxTrouble \in Nat

VARIABLES
  wifi,    \* boot: phase, err (WIFI_STATE_ERROR), core (s_lwip_core_up), timers
  ladder,  \* the retry schedule of wifi_lwip.c: see Init
  runtime, \* the driver of sdio.c: see FreshRuntime
  chip,    \* the radio chip: see FreshChip
  fifo,    \* events the chip has for the driver
  ap,      \* the access point is there
  budget,  \* rare events left
  polled,  \* the main loop has passed since the last tick
  spent    \* history: restarts of a ready runtime since the link was last steady

vars == <<wifi, ladder, runtime, chip, fifo, ap, budget, polled, spent>>

Off == -1   \* a clock that does not run, a schedule that is not set

\* What sdio_runtime_start resets.  upAge, rx and tx are the times since
\* link_up_us, last_rx_us and tx_shut_since_us; last says that the event
\* in g_sdio_probe_result reads as a link-up; stalled is
\* g_runtime_tx_stalled, from the moment the window shuts for good.
FreshRuntime ==
  [stage |-> "boot", linkUp |-> FALSE, keyed |-> FALSE, upAge |-> Off,
   trusted |-> FALSE, last |-> FALSE, rx |-> 0, tx |-> Off,
   stalled |-> FALSE]

\* wants: a join has reached the chip and its scan is not over.
FreshChip == [fault |-> "none", wants |-> FALSE, assoc |-> "none"]

\* due is the time to s_rejoin_due_us, healthy the time since
\* s_healthy_since_us, age the time since init_time_us until the link is first
\* up.
Init ==
  /\ wifi = [phase |-> "start", err |-> FALSE, core |-> FALSE, timers |-> FALSE]
  /\ ladder = [active |-> FALSE, due |-> Off, interval |-> First, rejoins |-> 0,
               restarts |-> 0, healthy |-> Off, established |-> FALSE,
               linkUp |-> FALSE, age |-> 0]
  /\ runtime = [FreshRuntime EXCEPT !.stage = "idle"]
  /\ chip = FreshChip /\ fifo = << >> /\ ap = TRUE
  /\ budget = MaxTrouble
  /\ polled = FALSE /\ spent = 0

-----------------------------------------------------------------------------
(* The runtime, on s = [w |-> wifi, l |-> ladder, r |-> runtime, c |-> chip,
   f |-> fifo, b |-> budget] *)

Started(r) == r.stage \in {"join", "sweep", "done"}
Ready(r)   == r.stage = "done"
Busy(r)    == r.stage \in {"join", "sweep"}

\* A step that fails, while failures are left.
Failing(s, t) == IF s.b > 0 THEN {[t EXCEPT !.b = @ - 1]} ELSE {}

\* sdio_runtime_start: WL_REG_ON cures the chip.
RuntimeStart(s) == [s EXCEPT !.r = FreshRuntime, !.c = FreshChip, !.f = << >>]

InError(s) == [s EXCEPT !.r.stage = "error"]

\* The join list reaches a chip that listens to commands, all of it or, when
\* a command fails, the part before WLC_SET_SSID, with its WLC_DOWN or without.
Joined(s) ==
  LET sent == [s EXCEPT !.r.stage = "sweep"]
      down == [sent EXCEPT !.c.wants = FALSE, !.c.assoc = "none"]
  IN IF s.c.fault = "poisoned" THEN {sent}
     ELSE {[down EXCEPT !.c.wants = TRUE]} \cup Failing(s, sent) \cup Failing(s, down)

IsLink(e) == e \in {"link", "lost"}   \* WLC_E_LINK, status 0, reason 0

\* SDIO_RUNTIME_STAGE_SWEEP_RX looks only at the last event decoded, and does
\* not see the LINK flag.
Swept(s, read) ==
  LET last == IF read THEN IsLink(s.f[Len(s.f)]) ELSE s.r.last
  IN [s EXCEPT !.r.stage = "done", !.r.last = last, !.r.linkUp = @ \/ last,
               !.f = IF read THEN << >> ELSE @]

\* Events are rarely there at that moment.
SweepRx(s) ==
  {Swept(s, FALSE)} \cup IF s.f = << >> THEN {} ELSE Failing(s, Swept(s, TRUE))

\* sdio_runtime_tick: what it may leave behind, and what it returns.
RuntimeTick(s) ==
  CASE s.r.stage = "boot"  -> {[s |-> [s EXCEPT !.r.stage = "join"], more |-> TRUE]}
                              \cup {[s |-> t, more |-> FALSE] : t \in Failing(s, InError(s))}
    [] s.r.stage = "join"  -> {[s |-> t, more |-> TRUE] : t \in Joined(s)}
    [] s.r.stage = "sweep" -> {[s |-> t, more |-> FALSE] : t \in SweepRx(s)}
    [] OTHER               -> {[s |-> s, more |-> FALSE]}

\* sdio_runtime_rejoin_start, from STAGE_DONE.
RejoinStart(s) ==
  [s EXCEPT !.r.stage = "join", !.r.linkUp = FALSE, !.r.keyed = FALSE]

\* sdio_runtime_note_event.
Noted(r, e) ==
  LET t == [r EXCEPT !.last = IsLink(e), !.keyed = @ \/ e = "keyed",
                     !.trusted = @ \/ e = "link", !.linkUp = @ \/ IsLink(e)]
  IN IF e = "deauth" \/ (e = "lost" /\ t.trusted)
     THEN [t EXCEPT !.linkUp = FALSE, !.keyed = FALSE, !.upAge = Off]
     ELSE t

-----------------------------------------------------------------------------
(* The ladder: wifi_lwip_rejoin_service *)

Least(a, b) == IF a <= b THEN a ELSE b

\* wifi_lwip_schedule_next_rejoin.
ScheduleNext(s) ==
  [s EXCEPT !.l.due = s.l.interval, !.l.interval = Least(2 * @, MaxInterval)]

\* Mutant: silence does not count against a link that is reported up.
LinkHealthyDeaf(s) == s.l.linkUp /\ s.r.tx < TxDead

LinkHealthy(s) == s.l.linkUp /\ s.r.rx < Silence /\ s.r.tx < TxDead

\* Mutant: the budget is refunded by the first healthy pass.
HealthyPassRefunds(s) ==
  [s EXCEPT !.l.interval = First, !.l.due = Off, !.l.rejoins = 0,
            !.l.healthy = IF @ = Off THEN 0 ELSE @, !.l.restarts = 0]

HealthyPass(s) ==
  [s EXCEPT !.l.interval = First, !.l.due = Off, !.l.rejoins = 0,
            !.l.healthy = IF @ = Off THEN 0 ELSE @,
            !.l.restarts = IF s.l.healthy >= Dwell THEN 0 ELSE @]

\* The first time down.
FirstDue(s) ==
  [s EXCEPT !.l.due = IF s.l.established THEN s.l.interval
                      ELSE IF s.l.age < BootWindow THEN BootWindow - s.l.age ELSE 0]

\* Mutant: only a dead transmit or failed rejoins lead to a restart.
WantsRestartNotParked(s) ==
  /\ s.r.tx >= TxRestart \/ s.l.rejoins >= RejoinCap
  /\ s.l.restarts < RestartCap

WantsRestart(s) ==
  /\ ~Ready(s.r) \/ s.r.tx >= TxRestart \/ s.l.rejoins >= RejoinCap
  /\ s.l.restarts < RestartCap \/ ~Ready(s.r)

\* The restart begins, or the firmware cannot be loaded, or the host does not
\* open.
Restart(s) ==
  {[RuntimeStart(s) EXCEPT !.l.active = TRUE, !.l.restarts = (@ + 1) % 256]}
    \cup Failing(s, ScheduleNext(s))
    \cup Failing(s, ScheduleNext(InError(RuntimeStart(s))))

Rejoin(s) ==
  ScheduleNext(IF Ready(s.r) THEN [RejoinStart(s) EXCEPT !.l.rejoins = Least(@ + 1, RejoinCap)]
               ELSE s)

Unhealthy(s) ==
  CASE s.l.due = Off                   -> {FirstDue(s)}
    [] s.l.due > 0                     -> {s}
    [] s.l.due = 0 /\ WantsRestart(s)  -> Restart(s)
    [] s.l.due = 0 /\ ~WantsRestart(s) -> {Rejoin(s)}

Serve(s) ==
  CASE Busy(s.r)                        -> {t.s : t \in RuntimeTick(s)}
    [] ~Busy(s.r) /\ LinkHealthy(s)     -> {HealthyPass(s)}
    [] ~Busy(s.r) /\ ~LinkHealthy(s)    -> Unhealthy([s EXCEPT !.l.healthy = Off])

\* A restart that has come through gets a fresh schedule.
Completed(s) ==
  [s EXCEPT !.l.active = FALSE, !.l.interval = First, !.l.due = Grace, !.l.rejoins = 0]

wifi_lwip_rejoin_service(s) ==
  IF ~s.l.active THEN Serve(s)
  ELSE UNION {CASE t.more                   -> {t.s}
                [] ~t.more /\ ~Ready(t.s.r) -> {ScheduleNext([t.s EXCEPT !.l.active = FALSE])}
                [] ~t.more /\ Ready(t.s.r)  -> Serve(Completed(t.s))
              : t \in RuntimeTick(s)}

\* wifi_lwip_drain_rx_frames, for the events.
Drained(s) ==
  LET noted[i \in 0 .. Len(s.f)] == IF i = 0 THEN s.r ELSE Noted(noted[i - 1], s.f[i])
  IN IF Started(s.r) THEN [s EXCEPT !.r = noted[Len(s.f)], !.f = << >>] ELSE s

\* wifi_lwip_update_runtime_state with sdio_runtime_link_is_up: the link is
\* up when it is keyed, or when it has not been for KeyedGrace.
LinkUpdated(s) ==
  LET up    == Started(s.r) /\ s.r.linkUp
      since == IF up /\ ~s.r.keyed /\ s.r.upAge = Off THEN 0 ELSE s.r.upAge
      net   == up /\ (s.r.keyed \/ since >= KeyedGrace)
  IN [s EXCEPT !.r.upAge = since, !.l.linkUp = net,
               !.l.established = @ \/ net, !.l.age = IF net THEN 0 ELSE @]

\* wifi_lwip_poll.
LwipPoll(s) ==
  CASE ~s.w.timers              -> {s}
    [] s.w.timers /\ s.w.err    -> {[s EXCEPT !.w.timers = FALSE]}
    [] s.w.timers /\ ~s.w.err   -> {LinkUpdated(Drained(t)) : t \in wifi_lwip_rejoin_service(s)}

-----------------------------------------------------------------------------
(* The boot *)

BootFailed(s) == [s EXCEPT !.w.err = TRUE, !.w.phase = "complete"]

\* wifi_lwip_init_stack: the core is brought up once; netif_add or dhcp_start
\* may fail.
InitStack(s) ==
  LET done == [s EXCEPT !.w.phase = "complete"]
      up   == [done EXCEPT !.w.core = TRUE, !.w.timers = TRUE, !.l.age = 0]
  IN IF s.w.core THEN {LinkUpdated(done)}
     ELSE {LinkUpdated(up)} \cup Failing(s, BootFailed(s))
            \cup Failing(s, LinkUpdated([up EXCEPT !.w.err = TRUE]))

\* wifi_boot.
wifi_boot(s) ==
  CASE s.w.err \/ s.w.phase = "complete" -> {s}
    [] ~s.w.err /\ s.w.phase = "start"   ->
         {[RuntimeStart(s) EXCEPT !.w.phase = "wait"]} \cup Failing(s, BootFailed(RuntimeStart(s)))
    [] ~s.w.err /\ s.w.phase = "wait"    ->
         {IF t.more THEN t.s
          ELSE IF Started(t.s.r) THEN [t.s EXCEPT !.w.phase = "lwip"] ELSE BootFailed(t.s)
          : t \in RuntimeTick(s)}
    [] ~s.w.err /\ s.w.phase = "lwip"    -> InitStack(s)

Here == [w |-> wifi, l |-> ladder, r |-> runtime, c |-> chip, f |-> fifo, b |-> budget]

\* The link has been in order for long enough.
Steady == ladder.healthy >= Dwell /\ ladder.linkUp

\* One pass of the main loop.
wifi_dispatch_poll ==
  /\ polled' = TRUE /\ UNCHANGED ap
  /\ \E s \in UNION {LwipPoll(t) : t \in wifi_boot(Here)} :
       /\ wifi' = s.w /\ ladder' = s.l /\ runtime' = s.r
       /\ chip' = s.c /\ fifo' = s.f /\ budget' = s.b
       /\ spent' = IF Steady THEN 0
                   ELSE IF s.l.restarts > ladder.restarts /\ Ready(runtime) THEN spent + 1
                   ELSE spent

\* wifi_init on a BBC reset: only a boot that failed is done again.
wifi_init ==
  /\ wifi.err
  /\ wifi' = [wifi EXCEPT !.err = FALSE, !.phase = "start"]
  /\ UNCHANGED <<ladder, runtime, chip, fifo, ap, budget, polled, spent>>

-----------------------------------------------------------------------------
(* The chip, the access point and time *)

Trouble == budget > 0 /\ budget' = budget - 1

Tell(e) == Len(fifo) < MaxFifo /\ fifo' = Append(fifo, e)

Scanning == chip.wants /\ chip.assoc = "none"

\* The chip finds the access point and is keyed by it.
Associate ==
  /\ ap /\ Started(runtime)
  /\ \/ Scanning /\ Tell("link") /\ chip' = [chip EXCEPT !.assoc = "linked"]
     \/ chip.assoc = "linked" /\ Tell("keyed") /\ chip' = [chip EXCEPT !.assoc = "keyed"]
  /\ UNCHANGED <<wifi, ladder, runtime, ap, budget, polled, spent>>

\* The scan comes back empty (WLC_E_SET_SSID, status 3): no access point, or a
\* noisy moment.  The chip does not try again.
NotFound ==
  /\ Scanning /\ Started(runtime) /\ Tell("not_found")
  /\ chip' = [chip EXCEPT !.wants = FALSE]
  /\ \/ ~ap /\ UNCHANGED budget
     \/ ap /\ Trouble
  /\ UNCHANGED <<wifi, ladder, runtime, ap, polled, spent>>

\* A beacon timeout or a deauthentication; the chip does not try again.
LoseLink ==
  /\ chip.assoc # "none" /\ chip' = [chip EXCEPT !.assoc = "none", !.wants = FALSE]
  /\ \/ ~ap /\ Tell("lost") /\ UNCHANGED budget
     \/ ap /\ Tell("deauth") /\ Trouble
  /\ UNCHANGED <<wifi, ladder, runtime, ap, polled, spent>>

AccessPoint ==
  /\ \/ ap /\ Trouble
     \/ ~ap /\ UNCHANGED budget
  /\ ap' = ~ap
  /\ UNCHANGED <<wifi, ladder, runtime, chip, fifo, polled, spent>>

\* The chip goes deaf, or its sequence window is poisoned and it discards
\* what it is sent.  The window of a link that has been up may have been shut
\* for a moment before: a frame was refused, a header then said that there is
\* room and stopped the clock, and no frame has been sent since that would
\* have cleared g_runtime_tx_stalled.
Break ==
  /\ Trouble /\ chip.fault = "none" /\ Started(runtime)
  /\ \/ /\ chip' = [chip EXCEPT !.fault = "deaf"] /\ UNCHANGED runtime
     \/ /\ chip' = [chip EXCEPT !.fault = "poisoned"]
        /\ \E b \in {FALSE, runtime.trusted} : runtime' = [runtime EXCEPT !.stalled = b]
  /\ UNCHANGED <<wifi, ladder, fifo, ap, polled, spent>>

Up(n, max) == IF n = Off THEN Off ELSE Least(n + 1, max)

Hearing == chip.assoc # "none" /\ ap /\ chip.fault # "deaf"

\* A frame refused by the shut window starts the clock of the dead window
\* only when the refusal is the first (sdio_runtime_send_ethernet_frame).
Refused(r) == IF r.stalled THEN r ELSE [r EXCEPT !.stalled = TRUE, !.tx = 0]

Tick ==
  /\ polled /\ polled' = FALSE
  /\ Started(runtime) => ~Scanning /\ ~(ap /\ chip.assoc = "linked")
  /\ ladder' = [ladder EXCEPT !.due = IF @ > 0 THEN @ - 1 ELSE @,
                              !.healthy = Up(@, Dwell), !.age = IF ladder.established THEN @ ELSE Up(@, BootWindow)]
  /\ LET aged == [runtime EXCEPT !.upAge = Up(@, KeyedGrace), !.tx = Up(@, TxRestart),
                                !.rx = IF Hearing THEN 0 ELSE Up(@, Silence)]
     IN runtime' = IF chip.fault = "poisoned" /\ ladder.linkUp THEN Refused(aged) ELSE aged
  /\ UNCHANGED <<wifi, chip, fifo, ap, budget, spent>>

-----------------------------------------------------------------------------
Next ==
  \/ wifi_dispatch_poll \/ wifi_init
  \/ Associate \/ NotFound \/ LoseLink \/ AccessPoint \/ Break \/ Tick

\* The main loop turns, time passes, and a chip that was told to associates
\* with an access point that is there, or notices that it is not there or gone.
Fairness ==
  /\ WF_vars(wifi_dispatch_poll) /\ WF_vars(Tick) /\ WF_vars(Associate)
  /\ WF_vars(~ap /\ NotFound) /\ WF_vars(~ap /\ LoseLink)

Spec == Init /\ [][Next]_vars /\ Fairness

-----------------------------------------------------------------------------
(* Properties *)

Connected == ladder.linkUp /\ chip.assoc = "keyed" /\ chip.fault = "none"

\* The restart budget is spent, and the runtime has come through its bring-up.
Capped == ladder.restarts >= RestartCap /\ Started(runtime)

\* The transmit window of a link that is reported up is dead and no clock
\* shows it: the refusal that should have started it was not the first.
Unseen ==
  ladder.linkUp /\ chip.fault = "poisoned" /\ runtime.stalled /\ runtime.tx = Off

\* Once the access point stays, the link comes back, whatever failed before:
\* joins that are not sent or find nothing, swept-up events, bring-ups that
\* stop half way, a deaf chip, a dead window.  A ladder that sees the trouble
\* has a rung that can fire (rejoin_service), with two exceptions: a chip
\* that breaks after the last restart stays broken, and so does a dead window
\* that no clock shows.
Recovers ==
  <>[](ap /\ wifi.timers) =>
    []<>Connected \/ <>[](chip.fault # "none" /\ (Capped \/ Unseen))

\* A link that is gone does not stay reported: neither a lost event, nor one
\* without its flag trusted, nor the sweep's stale one keeps netif up for good.
LossNoticed ==
  ladder.linkUp /\ chip.assoc = "none" ~> ~ladder.linkUp \/ chip.assoc # "none"

\* A runtime that can rejoin is restarted at most RestartCap times between two
\* stretches of a link in order: one good pass after a restart does not refund
\* the budget (s_healthy_since_us).  (The 8-bit count of restarts would wrap
\* after 256 bring-ups without one such stretch, beyond MaxTrouble.)
RestartsBounded == spent <= RestartCap

\* A boot that ends without an error has the network stack polled: a BBC
\* reset "retries transient hardware/join failures" (wifi_init).  The code
\* does not promise this, and no run checks it: after a failed dhcp_start the
\* poll clears timers_running, and the boot that the reset repeats does not
\* set it.
BootedIsPolled == wifi.phase = "complete" /\ ~wifi.err => wifi.timers
=============================================================================
