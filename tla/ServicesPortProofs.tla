------------------------- MODULE ServicesPortProofs -------------------------
(***************************************************************************)
(* The mailbox handshake, for any number of commands: while AUN does not   *)
(* publish IRQ status and the Beeb is not reset, the result the Beeb reads *)
(* is the result of its own command.                                       *)
(***************************************************************************)
EXTENDS ServicesPort, TLAPS

\* The Beeb spins: the mailbox shows its own command byte, or busy.
Spinning == vpu["cmd"] \in {Echo, Busy}

\* What holds at each point of the poll loop in quiet mode.
AtPc ==
  /\ pc \in {"aun_clear", "net_clear"} =>
       LET s == IF pc = "aun_clear" THEN "aun" ELSE "net" IN
       slot[s].pending /\ cp = slot[s].cp
  /\ pc \in {"aun_exec", "net_exec"} =>
       beeb.wait /\ cp = beeb.id /\ Spinning
  /\ pc = "wr_vpu" => beeb.wait /\ w.data = beeb.id /\ Spinning
  /\ pc \in {"aun_exec", "net_exec", "wr_vpu"} =>
       \A s \in Queued : ~slot[s].pending
  /\ pc \in {"wr_vpu", "wr_shadow"} =>
       w.byte = "cmd" /\ w.ret \in {"aun_irq", "net_irq"}

\* The inductive invariant, in the mode where the handshake is sound ...
QuietState ==
  /\ ~rst.line
  /\ aunIrq.enabled = FALSE /\ aunIrq.state = 0
  /\ pc \notin {"init_clear", "init_services", "init_aun", "init_net",
                "aun_line"}
  /\ AtPc
  /\ \A s \in Queued : slot[s].pending =>
       beeb.wait /\ beeb.svc = s /\ slot[s].cp = beeb.id /\ Spinning
  /\ beeb.wait =>
       \/ vpu["cmd"] = beeb.id
       \/ beeb.svc \in Queued /\ slot[beeb.svc].pending
       \/ pc \in {"aun_exec", "net_exec", "wr_vpu"}
  /\ NoStaleResult

\* ... and in general.
QuietInv == TypeOK /\ (Quiet => QuietState)

USE DEF Queued, Services, Bytes

\* The port starts with no command and no write under way.
LEMMA QuietInit == Init => QuietInv
<1> SUFFICES ASSUME Init PROVE QuietInv
    OBVIOUS
<1> USE ServicesPortAssumption
<1>1. TypeOK
  BY DEF Init, TypeOK, RegVals, IrqVals, Pcs, NoWrite, Ids, Registers,
     Slots, Writes, AunIrqs, NetFlags, RstStates, Drivers
<1>2. QED
  BY <1>1 DEF Init, QuietInv, QuietState, AtPc, NoStaleResult, NoWrite

\* The values of the registers and the places of the main loop, listed.
LEMMA Ranges ==
  /\ {Echo, Busy} \subseteq RegVals /\ IrqVals \subseteq RegVals
  /\ Ids \subseteq RegVals /\ 0 \in IrqVals
  /\ Pcs = {"top", "aun_take", "aun_clear", "aun_exec", "aun_irq",
            "aun_line", "net_poll", "net_take", "net_clear", "net_exec",
            "net_irq", "wr_vpu", "wr_shadow", "init_clear",
            "init_services", "init_aun", "init_net"}
  BY DEF RegVals, IrqVals, Pcs

\* Emptying a mailbox leaves a mailbox.
LEMMA ClearType ==
  ASSUME slot \in Slots, NEW s \in Queued, Clear(s)
  PROVE  slot' \in Slots
  BY DEF Slots, Clear

\* Every step of the FIQ, the main loop and the Beeb keeps the types.
LEMMA TypeStep == TypeOK /\ [Next]_vars => TypeOK'
<1> USE ServicesPortAssumption
<1> SUFFICES ASSUME TypeOK, [Next]_vars PROVE TypeOK'
    OBVIOUS
<1> USE DEF TypeOK, busVars, mainVars, Goto
<1> USE Ranges
<1>1. CASE Top
  BY <1>1 DEF Top, RstStates
<1>2. CASE WriteVpu
  BY <1>2 DEF WriteVpu, Other, Registers, Writes
<1>3. CASE WriteShadow
  BY <1>3 DEF WriteShadow, NoWrite, Registers, Writes
<1>4. CASE AunTake
  BY <1>4 DEF AunTake, Slots
<1>5. CASE AunClear
  <2>1. slot' \in Slots
    BY <1>5, ClearType DEF AunClear
  <2>2. QED
    BY <1>5, <2>1 DEF AunClear
<1>6. CASE AunExec
  <2>1. aunIrq' \in AunIrqs
    BY <1>6 DEF AunExec, AunIrqs
  <2>2. w' \in Writes
    BY <1>6 DEF AunExec, MemoryWrite, Other, Registers, Writes
  <2>3. QED
    BY <1>6, <2>1, <2>2 DEF AunExec, MemoryWrite
<1>7. CASE AunIrq
  BY <1>7 DEF AunIrq, MemoryWrite, Other, AunIrqs, Registers, Writes
<1>8. CASE AunLine
  BY <1>8 DEF AunLine
<1>9. CASE NetPoll
  BY <1>9 DEF NetPoll, NetFlags
<1>10. CASE NetTake
  BY <1>10 DEF NetTake, Slots
<1>11. CASE NetClear
  <2>1. slot' \in Slots
    BY <1>11, ClearType DEF NetClear
  <2>2. QED
    BY <1>11, <2>1 DEF NetClear
<1>12. CASE NetExec
  <2>1. net' \in NetFlags
    BY <1>12 DEF NetExec, NetFlags
  <2>2. w' \in Writes
    BY <1>12 DEF NetExec, MemoryWrite, Other, Registers, Writes
  <2>3. QED
    BY <1>12, <2>1, <2>2 DEF NetExec, MemoryWrite
<1>13. CASE NetIrq
  BY <1>13 DEF NetIrq, NetFlags
<1>14. CASE InitClear
  BY <1>14 DEF InitClear, Registers
<1>15. CASE services_emulator_init
  BY <1>15 DEF services_emulator_init, Registers
<1>16. CASE aun_emulator_init
  <2>1. slot' \in Slots
    BY <1>16, ClearType DEF aun_emulator_init
  <2>2. aunIrq' \in AunIrqs
    BY <1>16 DEF aun_emulator_init, AunIrqs
  <2>3. QED
    BY <1>16, <2>1, <2>2 DEF aun_emulator_init
<1>17. CASE net_service_init
  BY <1>17 DEF net_service_init, NetFlags
<1>20. ASSUME NEW s \in Services, BeebCommand(s) PROVE TypeOK'
  <2>0. beeb.id + 1 \in Ids
    BY <1>20 DEF BeebCommand, Drivers, Ids
  <2>1. beeb.id + 1 \in Ids /\ beeb' \in Drivers
    BY <1>20, <2>0 DEF BeebCommand, Drivers
  <2>2. vpu' \in Registers /\ shadow' \in Registers /\ slot' \in Slots
    <3>1. CASE s = "fat"
      BY <1>20, <2>1, <3>1 DEF BeebCommand, services_emulator_command, net_service_command,
         FiqMemoryWrite, Other, Registers
    <3>2. CASE s = "aun"
      <4>0. Latch("aun", beeb.id + 1)
        BY <1>20, <3>2 DEF BeebCommand, services_emulator_command, net_service_command
      <4>1. slot' \in Slots
        BY <2>0, <4>0 DEF Latch, Slots
      <4>2. QED
        BY <1>20, <4>1, <3>2 DEF BeebCommand, services_emulator_command, net_service_command,
           FiqMemoryWrite, Other, Registers
    <3>3. CASE s = "net"
      <4>0. Latch("net", beeb.id + 1)
        BY <1>20, <3>3 DEF BeebCommand, services_emulator_command, net_service_command
      <4>1. slot' \in Slots
        BY <2>0, <4>0 DEF Latch, Slots
      <4>2. QED
        BY <1>20, <4>1, <3>3 DEF BeebCommand, services_emulator_command, net_service_command,
           FiqMemoryWrite, Other, Registers
    <3>4. QED
      BY <3>1, <3>2, <3>3
  <2>3. QED
    BY <1>20, <2>1, <2>2 DEF BeebCommand
<1>21. CASE BeebResult
  BY <1>21 DEF BeebResult, Registers, Drivers
<1>22. CASE BeebReset
  <2>0. rst.n + 1 \in 0 .. MaxResets
    BY <1>22 DEF BeebReset, RstStates
  <2>1. rst' \in RstStates
    BY <1>22, <2>0 DEF BeebReset, RstStates
  <2>2. beeb' \in Drivers
    BY <1>22 DEF BeebReset, Drivers
  <2>3. QED
    BY <1>22, <2>1, <2>2 DEF BeebReset
<1>23. CASE BeebRelease
  BY <1>23 DEF BeebRelease, RstStates
<1>24. CASE UNCHANGED vars
  BY <1>24 DEF vars
<1> HIDE DEF TypeOK
<1>25. QED
  BY <1>1, <1>2, <1>3, <1>4, <1>5, <1>6, <1>7, <1>8, <1>9, <1>10, <1>11, <1>12, <1>13, <1>14,
     <1>15, <1>16, <1>17,
     <1>20, <1>21, <1>22, <1>23, <1>24 DEF Next, Main, Beeb

\* The registers, flags and program counter keep their ranges, whatever the
\* constants: in particular every byte the bus can read is an echo, NET_BUSY,
\* a result or an IRQ status, also while a main-loop Pi1MHz_MemoryWrite is
\* half done.
THEOREM TypeCorrect == Spec => []TypeOK
<1>1. Init => TypeOK
  BY ServicesPortAssumption DEF Init, TypeOK, RegVals, IrqVals, Pcs, NoWrite, Ids, Registers,
     Slots, Writes, AunIrqs, NetFlags, RstStates, Drivers
<1>2. QED
  BY <1>1, TypeStep, PTL DEF Spec

\* A history without resets and IRQs was without them before.
LEMMA QuietBefore ==
  TypeOK /\ [Next]_vars /\ Quiet' => Quiet
<1> SUFFICES ASSUME TypeOK, [Next]_vars PROVE Quiet' => Quiet
  OBVIOUS
<1>1. rst.n \in Nat /\ aunIrq.ever \in BOOLEAN
  BY ServicesPortAssumption DEF TypeOK, RstStates, AunIrqs
<1>2. rst'.n = rst.n \/ rst'.n = rst.n + 1
  BY DEF TypeOK, RstStates, Next, Main, Beeb, Top, WriteVpu, WriteShadow,
     AunTake, AunClear, AunExec, AunIrq, AunLine, NetPoll, NetTake, NetClear,
     NetExec, NetIrq, InitClear, services_emulator_init, aun_emulator_init,
     net_service_init, BeebCommand, BeebResult, BeebReset, BeebRelease, vars
<1>3. aunIrq.ever => aunIrq'.ever
  BY DEF TypeOK, AunIrqs, Next, Main, Beeb, Top, WriteVpu, WriteShadow,
     AunTake, AunClear, AunExec, AunIrq, AunLine, NetPoll, NetTake, NetClear,
     NetExec, NetIrq, InitClear, services_emulator_init, aun_emulator_init,
     net_service_init, BeebCommand, BeebResult, BeebReset, BeebRelease, vars
<1>4. QED
  BY <1>1, <1>2, <1>3 DEF Quiet

\* Every step keeps the command, the mailbox and the shadow in agreement.
LEMMA QuietStep == QuietInv /\ [Next]_vars => QuietInv'
<1> SUFFICES ASSUME QuietInv, [Next]_vars, Quiet' PROVE QuietState'
  BY TypeStep DEF QuietInv
<1> USE ServicesPortAssumption
<1>0. TypeOK /\ TypeOK'
  BY TypeStep DEF QuietInv
<1>q. Quiet
  BY <1>0, QuietBefore
<1>s. QuietState
  BY <1>q DEF QuietInv
<1> USE <1>s DEF QuietState, AtPc, Spinning, NoStaleResult, busVars, mainVars, Goto
<1>1. CASE Top
  BY <1>0, <1>1 DEF Top, RstStates
<1>2. CASE WriteVpu
  <2>1. vpu'["cmd"] = beeb.id
    BY <1>0, <1>2 DEF WriteVpu, Other, TypeOK, Registers
  <2>2. QED
    BY <1>0, <1>2, <2>1 DEF WriteVpu
<1>3. CASE WriteShadow
  BY <1>0, <1>3 DEF WriteShadow
<1>4. CASE AunTake
  BY <1>0, <1>4 DEF AunTake
<1>5. CASE AunClear
  <2>1. ~slot'["aun"].pending /\ slot'["net"] = slot["net"]
    BY <1>0, <1>5 DEF AunClear, Clear, TypeOK, Slots
  <2>2. beeb.wait /\ cp = beeb.id /\ Spinning /\ ~slot["net"].pending
    BY <1>5 DEF AunClear
  <2>3. QED
    BY <1>0, <1>5, <2>1, <2>2 DEF AunClear
<1>6. CASE AunExec
  <2>1. aunIrq'.enabled = FALSE /\ aunIrq'.state = 0
    BY <1>0, <1>6 DEF AunExec, Quiet, TypeOK, AunIrqs
  <2>2. QED
    BY <1>0, <1>6, <2>1 DEF AunExec, MemoryWrite
<1>7. CASE AunIrq
  BY <1>0, <1>7 DEF AunIrq, MemoryWrite, AunIrqs
<1>8. CASE AunLine
  BY <1>8 DEF AunLine
<1>9. CASE NetPoll
  BY <1>0, <1>9 DEF NetPoll
<1>10. CASE NetTake
  BY <1>0, <1>10 DEF NetTake
<1>11. CASE NetClear
  <2>1. ~slot'["net"].pending /\ slot'["aun"] = slot["aun"]
    BY <1>0, <1>11 DEF NetClear, Clear, TypeOK, Slots
  <2>2. beeb.wait /\ cp = beeb.id /\ Spinning /\ ~slot["aun"].pending
    BY <1>11 DEF NetClear
  <2>3. QED
    BY <1>0, <1>11, <2>1, <2>2 DEF NetClear
<1>12. CASE NetExec
  BY <1>0, <1>12 DEF NetExec, MemoryWrite
<1>13. CASE NetIrq
  BY <1>0, <1>13 DEF NetIrq
<1>14. CASE InitClear
  BY <1>14 DEF InitClear
<1>15. CASE services_emulator_init
  BY <1>15 DEF services_emulator_init
<1>16. CASE aun_emulator_init
  BY <1>16 DEF aun_emulator_init
<1>17. CASE net_service_init
  BY <1>17 DEF net_service_init
<1>20. ASSUME NEW s \in Services, BeebCommand(s) PROVE QuietState'
  <2>1. /\ beeb'.wait /\ beeb'.svc = s /\ beeb'.id = beeb.id + 1
        /\ beeb'.got = beeb.got /\ beeb'.res = beeb.res
    BY <1>0, <1>20 DEF BeebCommand, TypeOK, Drivers
  <2>2. /\ \A q \in Queued : ~slot[q].pending
        /\ pc \notin {"aun_clear", "net_clear", "aun_exec", "net_exec",
                      "wr_vpu"}
    BY <1>20 DEF BeebCommand
  <2>3. /\ s = "fat" => vpu'["cmd"] = beeb.id + 1
        /\ s # "fat" => vpu'["cmd"] \in {Echo, Busy}
    BY <1>0, <1>20 DEF BeebCommand, services_emulator_command, net_service_command,
       FiqMemoryWrite, Other, TypeOK, Registers
  <2>4. /\ s = "fat" => slot' = slot
        /\ s # "fat" => /\ slot'[s] = [pending |-> TRUE, cp |-> beeb.id + 1]
                        /\ \A q \in Queued \ {s} : slot'[q] = slot[q]
    BY <1>0, <1>20 DEF BeebCommand, services_emulator_command, net_service_command, Latch,
       TypeOK, Slots
  <2>5. QED
    BY <1>0, <1>20, <2>1, <2>2, <2>3, <2>4 DEF BeebCommand
<1>21. CASE BeebResult
  BY <1>0, <1>21 DEF BeebResult, Drivers, TypeOK
<1>22. CASE BeebReset
  BY <1>0, <1>22 DEF BeebReset, Quiet, TypeOK, RstStates
<1>23. CASE BeebRelease
  BY <1>23 DEF BeebRelease
<1>24. CASE UNCHANGED vars
  BY <1>0, <1>24 DEF vars
<1> HIDE DEF QuietState
<1>25. QED
  BY <1>1, <1>2, <1>3, <1>4, <1>5, <1>6, <1>7, <1>8, <1>9, <1>10, <1>11, <1>12, <1>13, <1>14,
     <1>15, <1>16, <1>17,
     <1>20, <1>21, <1>22, <1>23, <1>24 DEF Next, Main, Beeb

\* As long as AUN has not published IRQ status and the Beeb was not reset,
\* the result the Beeb reads is the result of the command it issued, for any
\* number of commands and any mix of services.
THEOREM NoStale == Spec => []QuietResult
<1>1. QuietInv => QuietResult
  BY DEF QuietInv, QuietState, QuietResult
<1>2. QED
  BY QuietInit, QuietStep, <1>1, PTL DEF Spec

\* In the same mode the command the Beeb waits for is always latched, being
\* executed, or answered: the mailbox holds no other command.
THEOREM Tracked == Spec => []CommandTracked
<1>1. QuietInv => CommandTracked
  BY DEF QuietInv, QuietState, CommandTracked, AtPc
<1>2. QED
  BY QuietInit, QuietStep, <1>1, PTL DEF Spec

-----------------------------------------------------------------------------
(* The nIRQ line, with any number of resets.  A reset zeroes the mask but  *)
(* not net_irq_state; the disagreement lasts until the net_update_irq of   *)
(* that pass, which sees no waiting data because net_reset_pending is      *)
(* still set when net_service_poll starts.                                 *)

\* The place of the poll loop, or the one a mailbox write returns to.
Where == IF pc \in {"wr_vpu", "wr_shadow"} THEN w.ret ELSE pc

\* The bit of each service in the mask is what the service believes, except at the
\* places of the poll loop that put it right.
LineInv ==
  /\ TypeOK
  /\ pc \in {"wr_vpu", "wr_shadow"} =>
       w.ret \in {"aun_irq", "aun_line", "net_irq"}
  /\ pc \in {"init_services", "init_aun"} => nirq = {}
  /\ \/ "aun" \in nirq <=> aunIrq.state # 0
     \/ Where \in {"aun_line", "init_services", "init_aun"}
  /\ \/ "net" \in nirq <=> net.state
     \/ /\ "net" \notin nirq
        /\ \/ Where \in {"init_services", "init_aun", "init_net"}
           \/ /\ Where \in {"aun_take", "aun_clear", "aun_exec", "aun_irq",
                            "aun_line", "net_poll"}
              /\ net.reset
           \/ /\ Where \in {"net_take", "net_clear", "net_exec", "net_irq"}
              /\ ~net.rx

\* Every step of the poll loop and of init_emulator keeps the mask bits that already agree.
LEMMA LineStep == LineInv /\ [Next]_vars => LineInv'
<1> SUFFICES ASSUME LineInv, [Next]_vars PROVE LineInv'
    OBVIOUS
<1>0. TypeOK /\ TypeOK'
  BY TypeStep DEF LineInv
<1> USE DEF LineInv, Where, busVars, mainVars, Goto
<1>1. CASE Top
  BY <1>0, <1>1 DEF Top
<1>2. CASE WriteVpu
  BY <1>0, <1>2 DEF WriteVpu, TypeOK, Writes
<1>3. CASE WriteShadow
  BY <1>0, <1>3 DEF WriteShadow, TypeOK, Writes
<1>4. CASE AunTake
  BY <1>0, <1>4 DEF AunTake
<1>5. CASE AunClear
  BY <1>0, <1>5 DEF AunClear
<1>6. CASE AunExec
  BY <1>0, <1>6 DEF AunExec, TypeOK, MemoryWrite, AunIrqs
<1>7. CASE AunIrq
  BY <1>0, <1>7 DEF AunIrq, TypeOK, MemoryWrite, AunIrqs
<1>8. CASE AunLine
  BY <1>0, <1>8 DEF AunLine
<1>9. CASE NetPoll
  BY <1>0, <1>9 DEF NetPoll, TypeOK, NetFlags
<1>10. CASE NetTake
  BY <1>0, <1>10 DEF NetTake
<1>11. CASE NetClear
  BY <1>0, <1>11 DEF NetClear
<1>12. CASE NetExec
  BY <1>0, <1>12 DEF NetExec, TypeOK, MemoryWrite, NetFlags
<1>13. CASE NetIrq
  BY <1>0, <1>13 DEF NetIrq, TypeOK, NetFlags
<1>14. CASE InitClear
  BY <1>0, <1>14 DEF InitClear
<1>15. CASE services_emulator_init
  BY <1>0, <1>15 DEF services_emulator_init
<1>16. CASE aun_emulator_init
  BY <1>0, <1>16 DEF aun_emulator_init
<1>17. CASE net_service_init
  BY <1>0, <1>17 DEF net_service_init, TypeOK, NetFlags
<1>20. ASSUME NEW s \in Services, BeebCommand(s) PROVE LineInv'
  BY <1>0, <1>20 DEF BeebCommand
<1>21. CASE BeebResult
  BY <1>0, <1>21 DEF BeebResult
<1>22. CASE BeebReset
  BY <1>0, <1>22 DEF BeebReset
<1>23. CASE BeebRelease
  BY <1>0, <1>23 DEF BeebRelease
<1>24. CASE UNCHANGED vars
  BY <1>0, <1>24 DEF vars
<1> HIDE DEF LineInv
<1>25. QED
  BY <1>1, <1>2, <1>3, <1>4, <1>5, <1>6, <1>7, <1>8, <1>9, <1>10, <1>11, <1>12, <1>13, <1>14,
     <1>15, <1>16, <1>17,
     <1>20, <1>21, <1>22, <1>23, <1>24 DEF Next, Main, Beeb

\* At the top of the poll loop the nIRQ mask agrees with aun_irq_state and
\* net_irq_state, whatever commands and resets came before and wherever the
\* main loop was when they came.
THEOREM LineCorrect == Spec => []LineFollowsServices
<1>1. Init => LineInv
  <2>1. Init => TypeOK
    BY QuietInit DEF QuietInv
  <2>2. QED
    BY <2>1 DEF Init, LineInv, Where
<1>2. LineInv => LineFollowsServices
  BY DEF LineInv, Where, LineFollowsServices
<1>3. QED
  BY <1>1, <1>2, LineStep, PTL DEF Spec

=============================================================================
