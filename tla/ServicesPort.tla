---------------------------- MODULE ServicesPort ----------------------------
(***************************************************************************)
(* The command mailbox of the services port.  The Beeb writes base+4; the  *)
(* FIQ callback (services_emulator_command) echoes the value and calls the *)
(* service's handler, which for AUN and NET only latches the command.  The *)
(* main loop executes it later and writes the result to base+4, the byte   *)
(* the Beeb is polling.  AUN also publishes an IRQ status byte at base+5,  *)
(* the other half of the same VPU word.                                    *)
(*                                                                         *)
(* The FIQ may preempt the main loop between any two of its accesses to    *)
(* shared state, so the main loop is a program counter with one step per   *)
(* such access; a FIQ callback is one step.                                *)
(***************************************************************************)
EXTENDS Integers

CONSTANTS MaxCmds,     \* commands the Beeb issues
          MaxResets,   \* times the Beeb's RST line is pulled
          IrqModes,    \* values AUN INIT may give aun_irq_enabled
          IrqStatus    \* non-zero AUN IRQ status bytes

ASSUME ServicesPortAssumption ==
  /\ MaxCmds \in Nat \ {0}
  /\ MaxResets \in Nat
  /\ IrqModes \subseteq BOOLEAN
  /\ IrqStatus \subseteq Nat \ {0}

Services == {"fat", "aun", "net"}
Queued   == {"aun", "net"}        \* services whose handler only latches

\* Values of the command register besides 0 and the result of command i,
\* which is written i.  The Beeb spins on both.
Echo == -1                        \* the echoed page number, &E0 and above
Busy == -2                        \* NET_BUSY, bit 7 set

Ids     == 1 .. MaxCmds
IrqVals == {0} \cup IrqStatus
RegVals == {Echo, Busy} \cup Ids \cup IrqVals
Bytes   == {"cmd", "irq"}         \* base+4 and base+5

VARIABLES
  vpu,        \* per byte: the word the bus reads (Pi1MHz_Memory_VPU)
  shadow,     \* per byte: the CPU-side copy (Pi1MHz->Memory)
  slot,       \* per queued service: pending flag and latched command
  pc,         \* where the main loop is
  cp,         \* the command the main loop took out of a slot
  w,          \* the MemoryWrite in progress: byte, value, neighbour, return
  aunIrq,     \* aun_irq_enabled, aun_irq_state; history: ever enabled
  net,        \* [reset, armed, state, rx]: net_service.c flags, data waiting
  nirq,       \* sources in Pi1MHz_nirq_mask
  port,       \* the FRED callbacks of the port are registered
  rst,        \* [line, old, n]: RST level, oldreset, pulses so far
  beeb        \* the Beeb's driver: state, service, command id, last result

vars == <<vpu, shadow, slot, pc, cp, w, aunIrq, net, nirq, port, rst, beeb>>
busVars  == <<vpu, shadow>>
mainVars == <<pc, cp, w>>

Other(b) == IF b = "cmd" THEN "irq" ELSE "cmd"
NoWrite  == [byte |-> "cmd", data |-> 0, other |-> 0, ret |-> "top"]

Pcs == {"top", "aun_take", "aun_clear", "aun_exec", "aun_irq", "aun_line",
        "net_poll", "net_take", "net_clear", "net_exec", "net_irq",
        "wr_vpu", "wr_shadow", "init_clear", "init_services", "init_aun",
        "init_net"}

\* The values of each variable.
Registers == [Bytes -> RegVals]
Slots     == [Queued -> [pending : BOOLEAN, cp : {0} \cup Ids]]
Writes    == [byte : Bytes, data : RegVals, other : RegVals, ret : Pcs]
AunIrqs   == [enabled : BOOLEAN, state : IrqVals, ever : BOOLEAN]
NetFlags  == [reset : BOOLEAN, armed : BOOLEAN, state : BOOLEAN, rx : BOOLEAN]
RstStates == [line : BOOLEAN, old : BOOLEAN, n : 0 .. MaxResets]
Drivers   == [wait : BOOLEAN, svc : Services, id : {0} \cup Ids,
              got : {0} \cup Ids, res : RegVals]

TypeOK ==
  /\ vpu \in Registers /\ shadow \in Registers
  /\ slot \in Slots
  /\ pc \in Pcs
  /\ cp \in {0} \cup Ids
  /\ w \in Writes
  /\ aunIrq \in AunIrqs
  /\ net \in NetFlags
  /\ nirq \in SUBSET Queued
  /\ port \in BOOLEAN
  /\ rst \in RstStates
  /\ beeb \in Drivers

\* After the first init_emulator, before the first pass of the poll loop.
Init ==
  /\ vpu = [b \in Bytes |-> 0]
  /\ shadow = [b \in Bytes |-> 0]
  /\ slot = [s \in Queued |-> [pending |-> FALSE, cp |-> 0]]
  /\ pc = "top" /\ cp = 0 /\ w = NoWrite
  /\ aunIrq = [enabled |-> FALSE, state |-> 0, ever |-> FALSE]
  /\ net = [reset |-> TRUE, armed |-> FALSE, state |-> FALSE, rx |-> FALSE]
  /\ nirq = {}
  /\ port = TRUE
  /\ rst = [line |-> FALSE, old |-> FALSE, n |-> 0]
  /\ beeb = [wait |-> FALSE, svc |-> "fat", id |-> 0, got |-> 0, res |-> 0]

-----------------------------------------------------------------------------
(* The Beeb and the FIQ *)

\* Pi1MHz_MemoryWrite run to completion (FIQ context): the word is rebuilt
\* from the shadow of the neighbouring byte.
FiqMemoryWrite(byte, data) ==
  /\ vpu' = [vpu EXCEPT ![byte] = data, ![Other(byte)] = shadow[Other(byte)]]
  /\ shadow' = [shadow EXCEPT ![byte] = data]

\* Mutant: the data byte is latched in place of the command pointer.
LatchData(s, id) == slot' = [slot EXCEPT ![s] = [pending |-> TRUE, cp |-> Echo]]

\* The latch of aun_emulator_command and net_service_command.
Latch(s, id) == slot' = [slot EXCEPT ![s] = [pending |-> TRUE, cp |-> id]]

\* Mutant: net_service_command does not publish NET_BUSY.
NetCommandNoBusy(id) == Latch("net", id) /\ UNCHANGED busVars

\* The echo was written first; NET_BUSY replaces it in the same callback.
net_service_command(id) == FiqMemoryWrite("cmd", Busy) /\ Latch("net", id)

\* A write to base+4: services_emulator_command echoes the byte and calls
\* the handler.  The FAT service answers within the callback.
services_emulator_command(s, id) ==
  \/ s = "fat" /\ FiqMemoryWrite("cmd", id) /\ UNCHANGED slot
  \/ s = "aun" /\ FiqMemoryWrite("cmd", Echo) /\ Latch("aun", id)
  \/ s = "net" /\ net_service_command(id)

\* The Beeb issues its next command only when it has the previous result.
BeebCommand(s) ==
  /\ port /\ ~rst.line /\ ~beeb.wait /\ beeb.id < MaxCmds
  /\ services_emulator_command(s, beeb.id + 1)
  /\ beeb' = [beeb EXCEPT !.wait = TRUE, !.svc = s, !.id = @ + 1]
  /\ UNCHANGED <<mainVars, aunIrq, net, nirq, port, rst>>

\* The Beeb's polling read of base+4 finds neither an echo nor NET_BUSY.
BeebResult ==
  /\ beeb.wait /\ vpu["cmd"] \notin {Echo, Busy}
  /\ beeb' = [beeb EXCEPT !.wait = FALSE, !.got = beeb.id, !.res = vpu["cmd"]]
  /\ UNCHANGED <<busVars, slot, mainVars, aunIrq, net, nirq, port, rst>>

\* BREAK: the Beeb forgets what it was doing.
BeebReset ==
  /\ ~rst.line /\ rst.n < MaxResets
  /\ rst' = [rst EXCEPT !.line = TRUE, !.n = @ + 1]
  /\ beeb' = [beeb EXCEPT !.wait = FALSE]
  /\ UNCHANGED <<busVars, slot, mainVars, aunIrq, net, nirq, port>>

BeebRelease ==
  /\ rst.line
  /\ rst' = [rst EXCEPT !.line = FALSE]
  /\ UNCHANGED <<busVars, slot, mainVars, aunIrq, net, nirq, port, beeb>>

-----------------------------------------------------------------------------
(* The main loop *)

Goto(from, to) == pc = from /\ pc' = to

\* Pi1MHz_MemoryWrite from the main loop: read the neighbour's shadow ...
MemoryWrite(byte, data, ret) ==
  /\ w' = [byte |-> byte, data |-> data, other |-> shadow[Other(byte)],
           ret |-> ret]
  /\ pc' = "wr_vpu"

\* ... store the word the bus sees ...
WriteVpu ==
  /\ Goto("wr_vpu", "wr_shadow")
  /\ vpu' = [vpu EXCEPT ![w.byte] = w.data, ![Other(w.byte)] = w.other]
  /\ UNCHANGED <<shadow, slot, cp, w, aunIrq, net, nirq, port, rst, beeb>>

\* ... and then the shadow.
WriteShadow ==
  /\ pc = "wr_shadow" /\ pc' = w.ret
  /\ shadow' = [shadow EXCEPT ![w.byte] = w.data]
  /\ w' = NoWrite
  /\ UNCHANGED <<vpu, slot, cp, aunIrq, net, nirq, port, rst, beeb>>

\* Top of the loop in kernel_main: the RST level is sampled once a pass.
Top ==
  /\ Goto("top", IF rst.line /\ ~rst.old THEN "init_clear" ELSE "aun_take")
  /\ rst' = [rst EXCEPT !.old = rst.line]
  /\ UNCHANGED <<busVars, slot, cp, w, aunIrq, net, nirq, port, beeb>>

\* aun_emulator_poll: test aun_pending and take the command by value.
AunTake ==
  /\ Goto("aun_take", IF slot["aun"].pending THEN "aun_clear" ELSE "aun_irq")
  /\ cp' = IF slot["aun"].pending THEN slot["aun"].cp ELSE cp
  /\ UNCHANGED <<busVars, slot, w, aunIrq, net, nirq, port, rst, beeb>>

Clear(s) == slot' = [slot EXCEPT ![s].pending = FALSE]

AunClear ==
  /\ Goto("aun_clear", "aun_exec")
  /\ Clear("aun")
  /\ UNCHANGED <<busVars, cp, w, aunIrq, net, nirq, port, rst, beeb>>

\* aun_execute: the result byte is written as its last act.  INIT may set
\* aun_irq_enabled; the other commands leave it alone.
AunExec ==
  /\ pc = "aun_exec"
  /\ \E en \in IrqModes \cup {aunIrq.enabled} :
        aunIrq' = [aunIrq EXCEPT !.enabled = en, !.ever = @ \/ en]
  /\ MemoryWrite("cmd", cp, "aun_irq")
  /\ UNCHANGED <<busVars, slot, cp, net, nirq, port, rst, beeb>>

\* Mutant: aun_emulator_poll clears aun_pending after aun_execute.
AunIrqLateClear ==
  /\ Goto("aun_irq", "net_poll")
  /\ Clear("aun")
  /\ UNCHANGED <<busVars, cp, w, aunIrq, net, nirq, port, rst, beeb>>

\* aun_irq_update: the engine's readiness (ready frames, held immediate) is
\* any status; a change is published through services_irq.
AunIrq ==
  /\ pc = "aun_irq"
  /\ \E st \in IF aunIrq.enabled THEN IrqVals ELSE {0} :
       IF st = aunIrq.state
       THEN pc' = "net_poll" /\ UNCHANGED <<w, aunIrq>>
       ELSE /\ aunIrq' = [aunIrq EXCEPT !.state = st]
            /\ MemoryWrite("irq", st, "aun_line")
  /\ UNCHANGED <<busVars, slot, cp, net, nirq, port, rst, beeb>>

\* The rest of services_irq; the mask update runs with FIQ disabled.
AunLine ==
  /\ Goto("aun_line", "net_poll")
  /\ nirq' = IF aunIrq.state # 0 THEN nirq \cup {"aun"} ELSE nirq \ {"aun"}
  /\ UNCHANGED <<busVars, slot, cp, w, aunIrq, net, port, rst, beeb>>

\* net_service_poll: lwIP may have filled or drained rings since the last
\* pass; a pending reset tears every handle down and disarms nIRQ.
NetPoll ==
  /\ Goto("net_poll", "net_take")
  /\ \E rx \in BOOLEAN :
       net' = IF net.reset
              THEN [net EXCEPT !.reset = FALSE, !.armed = FALSE, !.rx = FALSE]
              ELSE [net EXCEPT !.rx = rx]
  /\ UNCHANGED <<busVars, slot, cp, w, aunIrq, nirq, port, rst, beeb>>

NetTake ==
  /\ Goto("net_take", IF slot["net"].pending THEN "net_clear" ELSE "net_irq")
  /\ cp' = IF slot["net"].pending THEN slot["net"].cp ELSE cp
  /\ UNCHANGED <<busVars, slot, w, aunIrq, net, nirq, port, rst, beeb>>

\* Mutant: the slot stays armed after the command was taken.
NetClearNot ==
  /\ Goto("net_clear", "net_exec")
  /\ UNCHANGED <<busVars, slot, cp, w, aunIrq, net, nirq, port, rst, beeb>>

NetClear ==
  /\ Goto("net_clear", "net_exec")
  /\ Clear("net")
  /\ UNCHANGED <<busVars, cp, w, aunIrq, net, nirq, port, rst, beeb>>

\* net_dispatch: NET_CMD_IRQ sets net_irq_armed, a receive or close may
\* empty the rings; then the result byte is written.
NetExec ==
  /\ pc = "net_exec"
  /\ \E armed \in BOOLEAN, rx \in {net.rx, FALSE} :
        net' = [net EXCEPT !.armed = armed, !.rx = rx]
  /\ MemoryWrite("cmd", cp, "net_irq")
  /\ UNCHANGED <<busVars, slot, cp, aunIrq, nirq, port, rst, beeb>>

\* net_update_irq: line only, on a change.
NetIrq ==
  LET any == net.armed /\ net.rx IN
  /\ Goto("net_irq", "top")
  /\ net' = [net EXCEPT !.state = any]
  /\ nirq' = CASE any = net.state -> nirq
               [] any /\ ~net.state -> nirq \cup {"net"}
               [] ~any /\ net.state -> nirq \ {"net"}
  /\ UNCHANGED <<busVars, slot, cp, w, aunIrq, port, rst, beeb>>

-----------------------------------------------------------------------------
(* init_emulator, run again on a Beeb reset *)

\* Mutant: the reset leaves the nIRQ mask as it was.
InitClearKeepsMask ==
  /\ Goto("init_clear", "init_services")
  /\ vpu' = [b \in Bytes |-> 0] /\ shadow' = [b \in Bytes |-> 0]
  /\ port' = FALSE
  /\ UNCHANGED <<slot, cp, w, aunIrq, net, nirq, rst, beeb>>

\* The callback table, FRED memory and the nIRQ mask are cleared.
InitClear ==
  /\ Goto("init_clear", "init_services")
  /\ vpu' = [b \in Bytes |-> 0] /\ shadow' = [b \in Bytes |-> 0]
  /\ nirq' = {} /\ port' = FALSE
  /\ UNCHANGED <<slot, cp, w, aunIrq, net, rst, beeb>>

\* services_emulator_init registers the callbacks and clears +4 and +5.
\* The service table is static, so the handlers are already in it.
services_emulator_init ==
  /\ Goto("init_services", "init_aun")
  /\ port' = TRUE
  /\ vpu' = [b \in Bytes |-> 0] /\ shadow' = [b \in Bytes |-> 0]
  /\ UNCHANGED <<slot, cp, w, aunIrq, net, nirq, rst, beeb>>

aun_emulator_init ==
  /\ Goto("init_aun", "init_net")
  /\ Clear("aun")
  /\ aunIrq' = [aunIrq EXCEPT !.enabled = FALSE, !.state = 0]
  /\ UNCHANGED <<busVars, cp, w, net, nirq, port, rst, beeb>>

net_service_init ==
  /\ Goto("init_net", "aun_take")
  /\ net' = [net EXCEPT !.reset = TRUE]
  /\ nirq' = nirq \ {"net"}
  /\ UNCHANGED <<busVars, slot, cp, w, aunIrq, port, rst, beeb>>

-----------------------------------------------------------------------------
Main ==
  \/ Top \/ WriteVpu \/ WriteShadow
  \/ AunTake \/ AunClear \/ AunExec \/ AunIrq \/ AunLine
  \/ NetPoll \/ NetTake \/ NetClear \/ NetExec \/ NetIrq
  \/ InitClear \/ services_emulator_init \/ aun_emulator_init
  \/ net_service_init

Beeb ==
  \/ \E s \in Services : BeebCommand(s)
  \/ BeebResult \/ BeebReset \/ BeebRelease

Next == Main \/ Beeb

\* The main loop never stops, the ROM polls until it sees a result, and the
\* RST line does not stay low for ever.
Fairness == WF_vars(Main) /\ WF_vars(BeebResult) /\ WF_vars(BeebRelease)

Spec == Init /\ [][Next]_vars
FairSpec == Spec /\ Fairness

-----------------------------------------------------------------------------
(* Properties *)

\* The result the Beeb reads is the result of the command it issued: the
\* echo, or NET_BUSY, hides the previous result until the main loop has
\* executed this command (net_service_command, aun_execute).
NoStaleResult == beeb.got # 0 => beeb.res = beeb.got

\* The Beeb has not been reset and AUN has never published IRQ status.
Quiet == rst.n = 0 /\ ~aunIrq.ever

\* The result the Beeb reads is its own as long as AUN has not published IRQ
\* status and the Beeb was not reset, whatever the FIQ interrupts.
QuietResult == Quiet => NoStaleResult

\* In the same mode, where the command the Beeb is waiting for can be:
\* latched, taken by the main loop and not yet answered, or answered on the
\* bus.  Nothing else is latched or about to be written to the register.
CommandTracked ==
  Quiet =>
    /\ \A s \in Queued : slot[s].pending =>
         beeb.wait /\ beeb.svc = s /\ slot[s].cp = beeb.id
    /\ beeb.wait =>
         \/ vpu["cmd"] = beeb.id
         \/ beeb.svc \in Queued /\ slot[beeb.svc].pending
         \/ pc \in {"aun_exec", "net_exec"} /\ cp = beeb.id
         \/ pc = "wr_vpu" /\ w.byte = "cmd" /\ w.data = beeb.id

\* Until the Beeb is reset every command is answered, the one-slot mailbox
\* loses none; and a NET command is answered across resets too: neither
\* net_service_init nor the teardown in net_service_poll drops the latch.
EveryCommandAnswered ==
  /\ beeb.wait /\ rst.n = 0 ~> ~beeb.wait \/ rst.n > 0
  /\ beeb.wait /\ beeb.svc = "net" ~> ~beeb.wait

\* At the top of the poll loop the shared nIRQ line agrees with what each
\* service believes it published, also after a reset has zeroed the mask
\* without touching net_irq_state.
LineFollowsServices ==
  pc = "top" => /\ "aun" \in nirq <=> aunIrq.state # 0
                /\ "net" \in nirq <=> net.state
=============================================================================
