----------------------------- MODULE ScsiTarget -----------------------------
(***************************************************************************)
(* The hard disc: the host adapter registers at &FC40..&FC43               *)
(* (harddisc_emulator.c) between the Beeb, whose accesses run in the FIQ   *)
(* handler, and the BeebSCSI target (BeebSCSI/scsi.c), which runs in the   *)
(* main loop and waits for every byte with REQ/ACK.  One LUN, transfers    *)
(* from block 0.  The stores of one call before REQ are one step; so is    *)
(* one FIQ handler.                                                        *)
(***************************************************************************)
EXTENDS Integers, Sequences

CONSTANTS BlockLen,    \* bytes in a block (256)
          MaxBlocks,   \* blocks of a transfer (256)
          SectorBuffer,\* SECTOR_BUFFER_LENGTH: blocks staged before f_write
          Commands,    \* command blocks the host sends: <<opcode, operand>>
          MaxCmds,     \* bound on commands
          MaxEvents    \* bound on stalls, BREAKs, writes of the IRQ enable
                       \* register and card errors

ASSUME ConstantsOK ==
    /\ {BlockLen, MaxBlocks, SectorBuffer} \subseteq Nat \ {0}
    /\ Commands \subseteq Nat \X Nat
    /\ {MaxCmds, MaxEvents} \subseteq Nat

VARIABLES reg,    \* the registers shared with the FIQ: HD_DATA, HD_ACK, HD_SEL,
                  \* the byte and the status the Beeb reads
          irq,    \* HD_IRQ_ENABLE and the adapter's bit of the nIRQ mask
          rst,    \* the RST pin, and oldreset of kernel_main
          tg,     \* the target
          lunOn,  \* fsLunStatus
          sense,  \* requestSenseData
          disc,   \* the image, and Beeb_write_protect as read from the card at boot
          h,      \* the host
          left    \* what remains of the bounds

vars == <<reg, irq, rst, tg, lunOn, sense, disc, h, left>>

Junk == -1      \* a byte nobody wrote: the stack buffer of WRITE6
HostID == 1
OK == 0
CHECK == 2      \* SCSI_STATUS_CHECK_COND
NO_ERROR == 0
UNIT_NOT_READY == 2
DRIVE_NOT_READY == 4
BAD_FORMAT == 28
BAD_ARG == 36
ILLEGAL_ADDR == 161

TESTUNITREADY == 0
REZEROUNIT == 1
REQUESTSENSE == 3
READ6 == 8
WRITE6 == 10
SEEK == 11
STARTSTOP == 27
READCAPACITY == 37
VERIFY == 47

CdbLen == 2     \* bytes of a command block: opcode and operand, which is the
                \* count of READ6 and WRITE6, the address of VERIFY, the PMI
                \* byte of READ CAPACITY and the start bit of START/STOP UNIT
Blocks == 0 .. MaxBlocks - 1

\* Where the target is: BUS FREE before and after its signals are dropped,
\* COMMAND, a command to run, its bytes in or out, STATUS, MESSAGE.
Places == {"free0", "free1", "cmd", "exec", "in", "blkin", "blkout", "status", "msg"}

\* Bus phase of each place with a handshake.
Phase(at) == CASE at = "cmd" -> "cmd" [] at \in {"in", "blkin"} -> "in"
               [] at = "blkout" -> "out" [] at = "status" -> "status"
               [] at = "msg" -> "msg"

Handshake == {"cmd", "in", "blkin", "blkout", "status", "msg"}

\* The byte i of block b in the n-th command of the host, and on a new image.
Sent(n, b, i) == 100 * n + b * BlockLen + i
Block(n, b) == [i \in 1 .. BlockLen |-> Sent(n, b, i)]
NewImage == [b \in Blocks |-> Block(0, b)]

\* The block count of a command: 0 is the maximum.
NumberOfBlocks(c) == IF c = 0 \/ c > MaxBlocks THEN MaxBlocks ELSE c

Target == [at |-> "free0", turn |-> "check", w |-> "off", k |-> 0, b |-> 0, cdb |-> <<>>,
           buf |-> <<>>, sec |-> <<>>, st |-> OK]

NoCommand == <<TESTUNITREADY, 0>>

\* Every variable has its type, and the target is inside a phase function only
\* where that function exchanges bytes.
TypeOK ==
    /\ reg.data \in Int /\ reg.bus \in Int
    /\ {reg.ack, reg.sel, reg.req, reg.bsy} \subseteq BOOLEAN
    /\ reg.ph \in {"cmd", "in", "out", "status", "msg"}
    /\ irq \in [en : BOOLEAN, line : BOOLEAN]
    /\ rst \in [pin : BOOLEAN, old : BOOLEAN]
    /\ tg.at \in Places /\ tg.turn \in {"check", "poll"} /\ tg.w \in {"off", "sector", "set", "irq", "on"}
    /\ tg.w # "off" => tg.at \in Handshake
    /\ Len(tg.cdb) <= CdbLen /\ Len(tg.buf) <= BlockLen /\ Len(tg.sec) < SectorBuffer
    /\ tg.b \in Blocks /\ tg.st \in {OK, CHECK}
    /\ lunOn \in BOOLEAN
    /\ sense \in {NO_ERROR, UNIT_NOT_READY, DRIVE_NOT_READY, BAD_FORMAT, BAD_ARG, ILLEGAL_ADDR}
    /\ disc \in [img : [Blocks -> Seq(Int)], wp : BOOLEAN]
    /\ h.at \in {"idle", "talk"} /\ {h.slow, h.clean, h.upset, h.failed} \subseteq BOOLEAN
    /\ left \in [cmds : 0 .. MaxCmds, events : 0 .. MaxEvents]

\* After harddisc_emulator_init at power on.
Init ==
    /\ reg = [data |-> 0, bus |-> 0, ack |-> FALSE, sel |-> FALSE,
              req |-> FALSE, bsy |-> FALSE, ph |-> "out"]
    /\ irq = [en |-> FALSE, line |-> FALSE]
    /\ rst = [pin |-> FALSE, old |-> FALSE]
    /\ tg = Target
    /\ lunOn = FALSE
    /\ sense = NO_ERROR
    /\ \E wp \in BOOLEAN : disc = [img |-> NewImage, wp |-> wp]
    /\ h = [at |-> "idle", cmd |-> NoCommand, n |-> 0, k |-> 0, sent |-> 0, got |-> <<>>,
            stat |-> Junk, clean |-> FALSE, slow |-> FALSE, upset |-> FALSE,
            failed |-> FALSE]
    /\ left = [cmds |-> MaxCmds, events |-> MaxEvents]

-----------------------------------------------------------------------------
(* The host: ADFS follows the phase lines, one access per REQ, without a   *)
(* time-out.  It looks at REQ again only after the target has seen its     *)
(* ACK: the main loop's spin is faster than the 1MHz bus.                  *)

\* What the phase asks of the host: whether it has a byte to send.
Expected == \/ reg.ph = "cmd" /\ h.k < CdbLen
            \/ reg.ph = "out" /\ h.sent < NumberOfBlocks(h.cmd[2]) * BlockLen
            \/ reg.ph \in {"in", "status", "msg"}

HostReady == /\ h.at = "talk" /\ ~h.slow /\ ~rst.pin
             /\ reg.bsy /\ reg.req /\ ~reg.ack
             /\ Expected

\* The bus is free: the ID on the data bus and a write to the select register.
hd_emulator_nSEL(c) ==
    /\ h.at = "idle" /\ ~h.slow /\ ~reg.bsy /\ ~rst.pin
    /\ left.cmds > 0
    /\ left' = [left EXCEPT !.cmds = @ - 1]
    /\ reg' = [reg EXCEPT !.data = HostID, !.bus = HostID, !.ack = TRUE, !.sel = TRUE]
    /\ h' = [h EXCEPT !.at = "talk", !.cmd = c, !.n = @ + 1, !.k = 0, !.sent = 0, !.got = <<>>,
                      !.stat = Junk, !.clean = TRUE, !.upset = FALSE,
                      !.failed = h.clean /\ h.stat = CHECK
                                 /\ h.cmd[1] \in {TESTUNITREADY, SEEK, READ6, WRITE6, STARTSTOP}]
    /\ UNCHANGED <<irq, rst, tg, lunOn, sense, disc>>

HostWrites(v, next) ==
    /\ reg' = [reg EXCEPT !.data = v, !.bus = v, !.ack = TRUE]
    /\ h' = next

\* A write of &FC40 in COMMAND or DATA OUT phase
hd_emulator_write_data ==
    /\ HostReady
    /\ \/ reg.ph = "cmd" /\ HostWrites(h.cmd[h.k + 1], [h EXCEPT !.k = @ + 1])
       \/ /\ reg.ph = "out"
          /\ HostWrites(Sent(h.n, h.sent \div BlockLen, (h.sent % BlockLen) + 1),
                        [h EXCEPT !.sent = @ + 1])
    /\ UNCHANGED <<irq, rst, tg, lunOn, sense, disc, left>>

\* A read of &FC40 in DATA IN, STATUS or MESSAGE phase
hd_emulator_read_data ==
    /\ HostReady
    /\ reg.ph \in {"in", "status", "msg"}
    /\ reg' = [reg EXCEPT !.ack = TRUE]
    /\ h' = CASE reg.ph = "in" ->
                   [h EXCEPT !.got = IF Len(@) < MaxBlocks * BlockLen THEN Append(@, reg.bus) ELSE @]
              [] reg.ph = "status" -> [h EXCEPT !.stat = reg.bus]
              [] reg.ph = "msg" -> [h EXCEPT !.at = "idle"]
    /\ UNCHANGED <<irq, rst, tg, lunOn, sense, disc, left>>

\* A write of the IRQ enable register
hd_emulator_IRQ(on) ==
    /\ left.events > 0 /\ ~rst.pin
    /\ left' = [left EXCEPT !.events = @ - 1]
    /\ irq' = [en |-> on, line |-> on /\ (irq.line \/ reg.req)]
    /\ UNCHANGED <<reg, rst, tg, lunOn, sense, disc, h>>

\* The host stops for longer than HD_ACK_TIMEOUT_US, or goes on.
Stall ==
    /\ ~h.slow /\ left.events > 0
    /\ left' = [left EXCEPT !.events = @ - 1]
    /\ h' = [h EXCEPT !.slow = TRUE, !.upset = TRUE]
    /\ UNCHANGED <<reg, irq, rst, tg, lunOn, sense, disc>>

Resume ==
    /\ h.slow
    /\ h' = [h EXCEPT !.slow = FALSE]
    /\ UNCHANGED <<reg, irq, rst, tg, lunOn, sense, disc, left>>

\* BREAK: RST goes active and the Beeb starts afresh; later it is released.
Break ==
    /\ ~rst.pin /\ left.events > 0
    /\ left' = [left EXCEPT !.events = @ - 1]
    /\ rst' = [rst EXCEPT !.pin = TRUE]
    /\ h' = [h EXCEPT !.at = "idle", !.clean = FALSE, !.slow = FALSE, !.stat = Junk,
                      !.failed = FALSE]
    /\ UNCHANGED <<reg, irq, tg, lunOn, sense, disc>>

Release ==
    /\ rst.pin
    /\ rst' = [rst EXCEPT !.pin = FALSE]
    /\ UNCHANGED <<reg, irq, tg, lunOn, sense, disc, h, left>>
-----------------------------------------------------------------------------
(* The main loop: kernel_main looks at RST, then scsiProcessEmulation runs *)
(* the function of the target's state to its end.                          *)

\* Between two calls of scsiProcessEmulation
Between == tg.w = "off"

At(at) == Between /\ tg.turn = "poll" /\ tg.at = at

\* The function returns: the next state, and RST is looked at first.
Goto(t, at) == [t EXCEPT !.at = at, !.turn = "check", !.w = "off", !.k = 0, !.b = 0,
                         !.buf = <<>>, !.sec = <<>>]

ResetSignals == reg' = [reg EXCEPT !.ack = FALSE, !.sel = FALSE, !.req = FALSE,
                                   !.bsy = FALSE, !.ph = "out"]

\* init_emulator: every signal off, the sense data cleared, the LUN stopped.
\* scsiEmulationBusFreestate is not reset.
harddisc_emulator_init ==
    /\ ResetSignals
    /\ irq' = [en |-> FALSE, line |-> FALSE]
    /\ tg' = Goto(tg, IF tg.at = "free1" THEN "free1" ELSE "free0")
    /\ lunOn' = FALSE
    /\ sense' = NO_ERROR

kernel_main ==
    /\ Between /\ tg.turn = "check"
    /\ rst' = [rst EXCEPT !.old = rst.pin]
    /\ IF rst.pin /\ ~rst.old
       THEN harddisc_emulator_init
       ELSE /\ tg' = [tg EXCEPT !.turn = "poll"]
            /\ UNCHANGED <<reg, irq, lunOn, sense>>
    /\ UNCHANGED <<disc, h, left>>

\* Mutant: the signals of the last command are kept.
BusFreeKeepsSignals ==
    /\ tg.at \in {"free0", "free1"} /\ At(tg.at)
    /\ IF reg.sel
       THEN /\ reg' = [reg EXCEPT !.bsy = TRUE, !.sel = FALSE]
            /\ tg' = [Goto(tg, "cmd") EXCEPT !.cdb = <<>>]
       ELSE tg' = Goto(tg, "free1") /\ UNCHANGED reg
    /\ UNCHANGED <<irq, rst, lunOn, sense, disc, h, left>>

\* BUS FREE: the signals are dropped once, then the select flag is polled.
scsiEmulationBusFree ==
    /\ tg.at \in {"free0", "free1"} /\ At(tg.at)
    /\ IF reg.sel
       THEN /\ reg' = [reg EXCEPT !.ph = "out", !.req = (tg.at = "free1" /\ @), !.bsy = TRUE, !.sel = FALSE]
            /\ tg' = [Goto(tg, "cmd") EXCEPT !.cdb = <<>>]
       ELSE /\ reg' = IF tg.at = "free1" THEN reg
                      ELSE [reg EXCEPT !.ph = "out", !.req = FALSE, !.bsy = FALSE]
            /\ tg' = Goto(tg, "free1")
    /\ UNCHANGED <<irq, rst, lunOn, sense, disc, h, left>>

\* COMMAND, STATUS and MESSAGE start with their phase lines.
scsiInformationTransferPhase(at) ==
    /\ At(at)
    /\ reg' = [reg EXCEPT !.ph = Phase(at)]
    /\ tg' = [tg EXCEPT !.w = "set"]
    /\ UNCHANGED <<irq, rst, lunOn, sense, disc, h, left>>

\* The byte the target puts on the bus
ByteOut == CASE tg.at = "in" -> (IF tg.cdb[1] = REQUESTSENSE THEN sense ELSE MaxBlocks - 1)
             [] tg.at = "blkin" -> tg.buf[tg.k + 1]
             [] tg.at = "status" -> tg.st
             [] tg.at = "msg" -> 0

\* Mutant: HD_ACK is not cleared before REQ.
RequestKeepsAck ==
    /\ tg.w = "set"
    /\ reg' = [reg EXCEPT !.req = TRUE,
                          !.bus = IF tg.at \in {"cmd", "blkout"} THEN @ ELSE ByteOut]
    /\ tg' = [tg EXCEPT !.w = IF irq.en THEN "irq" ELSE "on"]
    /\ UNCHANGED <<irq, rst, lunOn, sense, disc, h, left>>

\* The byte, HD_ACK cleared and REQ; HD_IRQ_ENABLE is read after REQ.
hostadapterWriteRequestFlag ==
    /\ tg.w = "set"
    /\ reg' = [reg EXCEPT !.ack = FALSE, !.req = TRUE,
                          !.bus = IF tg.at \in {"cmd", "blkout"} THEN @ ELSE ByteOut]
    /\ tg' = [tg EXCEPT !.w = IF irq.en THEN "irq" ELSE "on"]
    /\ UNCHANGED <<irq, rst, lunOn, sense, disc, h, left>>

\* The interrupt of a REQ, with HD_IRQ_ENABLE as it was
hd_emulator_set_IRQ ==
    /\ tg.w = "irq"
    /\ irq' = [irq EXCEPT !.line = TRUE]
    /\ tg' = [tg EXCEPT !.w = "on"]
    /\ UNCHANGED <<reg, rst, lunOn, sense, disc, h, left>>

\* Mutant: the wait has no time-out.
WaitForEver(acked) ==
    /\ tg.w = "on" /\ acked
    /\ (reg.ack \/ rst.pin) /\ UNCHANGED h

\* The wait ends with ACK or RST, or after HD_ACK_TIMEOUT_US: a host that is
\* ready answers in time.
hd_wait_ack(acked) ==
    /\ tg.w = "on"
    /\ IF acked THEN (reg.ack \/ rst.pin) /\ UNCHANGED h
       ELSE /\ ~reg.ack /\ ~rst.pin /\ ~HostReady
            /\ h' = [h EXCEPT !.clean = FALSE]

DropReq == reg' = [reg EXCEPT !.req = FALSE]

Decoded == {TESTUNITREADY, REZEROUNIT, REQUESTSENSE, READ6, WRITE6, SEEK, STARTSTOP,
            READCAPACITY, VERIFY}

\* Mutant: an opcode that is not decoded frees the bus without a status.
UnknownFreesBus(t) ==
    IF t.cdb[1] \in Decoded THEN Goto(t, "exec") ELSE Goto(t, "free0")

\* The state of the opcode; one that is not decoded fails without sense data.
Decode(t) == IF t.cdb[1] \in Decoded THEN Goto(t, "exec")
             ELSE Goto([t EXCEPT !.st = CHECK], "status")

\* COMMAND: hostadapterReadByte takes HD_DATA whether the host answered or not.
scsiEmulationCommand(acked) ==
    /\ tg.at = "cmd"
    /\ hd_wait_ack(acked)
    /\ DropReq
    /\ LET t == [tg EXCEPT !.w = "set", !.cdb = Append(@, reg.data)]
       IN  tg' = IF Len(t.cdb) = CdbLen THEN Decode(t) ELSE t
    /\ UNCHANGED <<irq, rst, lunOn, sense, disc, left>>

\* STATUS, then MESSAGE, then BUS FREE: one byte each
scsiEmulationStatus(acked) ==
    /\ tg.at = "status"
    /\ hd_wait_ack(acked)
    /\ DropReq
    /\ tg' = Goto(tg, "msg")
    /\ UNCHANGED <<irq, rst, lunOn, sense, disc, left>>

scsiEmulationMessage(acked) ==
    /\ tg.at = "msg"
    /\ hd_wait_ack(acked)
    /\ DropReq
    /\ tg' = Goto([tg EXCEPT !.cdb = <<>>], "free0")
    /\ UNCHANGED <<irq, rst, lunOn, sense, disc, left>>

-----------------------------------------------------------------------------
(* The commands.                                                           *)

Op == tg.cdb[1]
Count == NumberOfBlocks(tg.cdb[2])

Finish(st) == tg' = Goto([tg EXCEPT !.st = st], "status")
Succeed == Finish(OK) /\ UNCHANGED sense
Fail(code) == Finish(CHECK) /\ sense' = code

\* The card fails an operation.
Fault == left.events > 0 /\ left' = [left EXCEPT !.events = @ - 1]

\* TEST UNIT READY, REZERO UNIT and SEEK report whether the LUN is started.
scsiCommandTestUnitReady ==
    /\ At("exec") /\ Op \in {TESTUNITREADY, REZEROUNIT, SEEK}
    /\ \/ lunOn /\ Succeed
       \/ ~lunOn /\ Fail(IF Op = SEEK THEN DRIVE_NOT_READY ELSE UNIT_NOT_READY)
    /\ UNCHANGED <<reg, irq, rst, lunOn, disc, h, left>>

\* VERIFY and READ CAPACITY of a stopped LUN fail without sense data.
scsiCommandVerify ==
    /\ At("exec") /\ Op = VERIFY
    /\ \/ ~lunOn /\ Finish(CHECK) /\ UNCHANGED sense
       \/ lunOn /\ tg.cdb[2] \in Blocks /\ Succeed
       \/ lunOn /\ tg.cdb[2] \notin Blocks /\ Fail(ILLEGAL_ADDR)
    /\ UNCHANGED <<reg, irq, rst, lunOn, disc, h, left>>

\* The data bytes of a command: the first of them stands for all.
SendByte == /\ reg' = [reg EXCEPT !.ph = "in"]
            /\ tg' = [tg EXCEPT !.at = "in", !.w = "set"]

scsiCommandReadCapacity ==
    /\ At("exec") /\ Op = READCAPACITY
    /\ \/ lunOn /\ tg.cdb[2] \in {0, 1} /\ SendByte /\ UNCHANGED sense
       \/ lunOn /\ tg.cdb[2] \notin {0, 1} /\ Fail(BAD_ARG) /\ UNCHANGED reg
       \/ ~lunOn /\ Finish(CHECK) /\ UNCHANGED <<reg, sense>>
    /\ UNCHANGED <<irq, rst, lunOn, disc, h, left>>

\* START/STOP UNIT
scsiCommandStartStop ==
    /\ At("exec") /\ Op = STARTSTOP
    /\ \/ tg.cdb[2] % 2 = 0 /\ lunOn' = FALSE /\ Succeed /\ UNCHANGED left
       \/ tg.cdb[2] % 2 = 1 /\ lunOn' = TRUE /\ Succeed /\ UNCHANGED left
       \/ tg.cdb[2] % 2 = 1 /\ ~lunOn /\ Fault /\ Fail(BAD_ARG) /\ UNCHANGED lunOn
    /\ UNCHANGED <<reg, irq, rst, disc, h>>

\* REQUEST SENSE, of a stopped LUN too
scsiCommandRequestSense ==
    /\ At("exec") /\ Op = REQUESTSENSE
    /\ SendByte
    /\ UNCHANGED <<irq, rst, lunOn, sense, disc, h, left>>

\* The sense data is cleared once sent, read by the host or not.
hostadapterWriteByte(acked) ==
    /\ tg.at = "in"
    /\ hd_wait_ack(acked)
    /\ DropReq
    /\ Finish(OK)
    /\ sense' = IF Op = REQUESTSENSE THEN NO_ERROR ELSE sense
    /\ UNCHANGED <<irq, rst, lunOn, disc, left>>

\* READ6 and WRITE6 start a stopped LUN, set the phase lines and open the image
\* at the block.  filesystemCloseLunForRead/Write stop the LUN.
OpenLun(ph, t) ==
    /\ \/ /\ ~lunOn /\ Fault /\ Fail(BAD_FORMAT)
          /\ UNCHANGED <<reg, lunOn>>
       \/ /\ Fault /\ Fail(DRIVE_NOT_READY)
          /\ reg' = [reg EXCEPT !.ph = ph]
          /\ lunOn' = FALSE
       \/ /\ lunOn' = TRUE
          /\ reg' = [reg EXCEPT !.ph = ph]
          /\ tg' = t
          /\ UNCHANGED <<sense, left>>
    /\ UNCHANGED <<irq, rst, disc, h>>

scsiCommandRead6 ==
    /\ At("exec") /\ Op = READ6
    /\ OpenLun("in", [tg EXCEPT !.at = "blkin", !.w = "sector"])

scsiCommandWrite6 ==
    /\ At("exec") /\ Op = WRITE6
    /\ OpenLun("out", [tg EXCEPT !.at = "blkout", !.w = "set"])

\* The next block, from the sector buffer or read into it from the card
filesystemReadNextSector ==
    /\ tg.at = "blkin" /\ tg.w = "sector"
    /\ \/ /\ tg.sec # <<>> /\ UNCHANGED <<sense, lunOn, left>>
          /\ tg' = [tg EXCEPT !.w = "set", !.k = 0, !.buf = Head(tg.sec), !.sec = Tail(@)]
       \/ /\ tg.sec = <<>> /\ UNCHANGED <<sense, lunOn, left>>
          /\ LET m == IF Count - tg.b < SectorBuffer THEN Count - tg.b ELSE SectorBuffer
             IN  tg' = [tg EXCEPT !.w = "set", !.k = 0, !.buf = disc.img[tg.b],
                                  !.sec = [i \in 1 .. m - 1 |-> disc.img[tg.b + i]]]
       \/ /\ tg.sec = <<>> /\ Fault
          /\ Fail(DRIVE_NOT_READY) /\ lunOn' = FALSE
    /\ UNCHANGED <<reg, irq, rst, disc, h>>

\* A byte of a block to the host.  A time-out ends the block with REQ still
\* set.  RST after the block gives the command up.
hostadapterPerformReadDMA(acked) ==
    /\ tg.at = "blkin"
    /\ hd_wait_ack(acked)
    /\ IF acked THEN DropReq ELSE UNCHANGED reg
    /\ \/ /\ acked /\ tg.k + 1 < BlockLen
          /\ tg' = [tg EXCEPT !.w = "set", !.k = @ + 1]
          /\ UNCHANGED lunOn
       \/ /\ ~acked \/ tg.k + 1 = BlockLen
          /\ \/ rst.pin /\ tg' = Goto(tg, "free0") /\ lunOn' = FALSE
             \/ /\ ~rst.pin /\ UNCHANGED lunOn
                /\ tg' = IF tg.b + 1 < Count
                         THEN [tg EXCEPT !.w = "sector", !.k = 0, !.b = @ + 1]
                         ELSE Goto([tg EXCEPT !.st = OK], "status")
    /\ UNCHANGED <<irq, rst, sense, disc, left>>

\* A byte of a block from the host.  After a time-out the rest of the block is
\* what the stack held.
hostadapterPerformWriteDMA(acked) ==
    /\ tg.at = "blkout"
    /\ hd_wait_ack(acked)
    /\ IF acked THEN DropReq ELSE UNCHANGED reg
    /\ LET full == [i \in 1 .. BlockLen |-> IF i <= tg.k THEN tg.buf[i] ELSE Junk]
           more == Append(tg.buf, reg.data)
       IN  tg' = IF ~acked THEN [tg EXCEPT !.w = "sector", !.buf = full]
                 ELSE [tg EXCEPT !.w = IF tg.k + 1 < BlockLen THEN "set" ELSE "sector",
                                 !.k = @ + 1, !.buf = more]
    /\ UNCHANGED <<irq, rst, lunOn, sense, disc, left>>

\* Mutant: only a full sector buffer is written.
FlushWhenFull(staged, last) == Len(staged) = SectorBuffer

\* The staged blocks are written when they fill the buffer or end the transfer.
FlushDue(staged, last) == last \/ Len(staged) = SectorBuffer

\* WRITE6 after a block: RST gives the command up; otherwise the block is
\* staged, and the staged blocks are written when the buffer is full or the
\* transfer complete.  With Beeb_write_protect the block is dropped and the
\* command goes on.
filesystemWriteNextSector ==
    /\ tg.at = "blkout" /\ tg.w = "sector"
    /\ LET staged == Append(tg.sec, tg.buf)
           last   == tg.b + 1 = Count
           flush  == FlushDue(staged, last)
           After(sec) ==
             IF last THEN Goto([tg EXCEPT !.st = OK], "status")
             ELSE [tg EXCEPT !.w = "set", !.k = 0, !.b = @ + 1, !.buf = <<>>, !.sec = sec]
           image  == [x \in Blocks |-> IF x \in tg.b - Len(tg.sec) .. tg.b
                                       THEN staged[x - tg.b + Len(staged)] ELSE disc.img[x]]
       IN  \/ rst.pin /\ tg' = Goto(tg, "free0") /\ lunOn' = FALSE
              /\ UNCHANGED <<sense, disc, left>>
           \/ /\ ~rst.pin /\ disc.wp
              /\ tg' = After(tg.sec)
              /\ UNCHANGED <<lunOn, sense, disc, left>>
           \/ /\ ~rst.pin /\ ~disc.wp
              /\ disc' = IF flush THEN [img |-> image, wp |-> FALSE] ELSE disc
              /\ tg' = After(IF flush THEN <<>> ELSE staged)
              /\ UNCHANGED <<lunOn, sense, left>>
           \/ ~rst.pin /\ ~disc.wp /\ flush /\ Fault
              /\ Fail(DRIVE_NOT_READY) /\ lunOn' = FALSE /\ UNCHANGED disc
    /\ UNCHANGED <<reg, irq, rst, h>>

-----------------------------------------------------------------------------
Host == \/ \E c \in Commands : hd_emulator_nSEL(c)
        \/ hd_emulator_write_data \/ hd_emulator_read_data

World == \/ \E on \in BOOLEAN : hd_emulator_IRQ(on)
         \/ Stall \/ Resume \/ Break \/ Release

MainLoop ==
    \/ kernel_main
    \/ scsiEmulationBusFree
    \/ \E at \in {"cmd", "status", "msg"} : scsiInformationTransferPhase(at)
    \/ hostadapterWriteRequestFlag \/ hd_emulator_set_IRQ
    \/ \E acked \in BOOLEAN :
          \/ scsiEmulationCommand(acked) \/ scsiEmulationStatus(acked)
          \/ scsiEmulationMessage(acked) \/ hostadapterWriteByte(acked)
          \/ hostadapterPerformReadDMA(acked) \/ hostadapterPerformWriteDMA(acked)
    \/ scsiCommandTestUnitReady \/ scsiCommandVerify \/ scsiCommandStartStop
    \/ scsiCommandReadCapacity \/ scsiCommandRequestSense
    \/ scsiCommandRead6 \/ scsiCommandWrite6
    \/ filesystemReadNextSector \/ filesystemWriteNextSector

Next == Host \/ World \/ MainLoop

\* The main loop never stops, and a host that is ready goes on.
Fairness == /\ WF_vars(MainLoop)
            /\ WF_vars(hd_emulator_write_data \/ hd_emulator_read_data)

Spec == Init /\ [][Next]_vars /\ Fairness

-----------------------------------------------------------------------------
\* A host that was neither late nor reset since it selected the target has its
\* command run as it sent it: whatever an earlier late or reset command left in
\* HD_DATA, HD_ACK or the signals, the next selection starts in step.
CommandAsSent == (h.clean /\ tg.at = "exec") => tg.cdb = h.cmd

\* A good status of WRITE6 means that every block the host sent is in the image
\* at its place (staged blocks included), or, with Beeb_write_protect, that the
\* image is the one there was at boot; of READ6, that the host has read exactly
\* the image's blocks in order.
OkMeansDone ==
    LET n == NumberOfBlocks(h.cmd[2])
    IN  (h.clean /\ h.stat = OK) =>
          /\ h.cmd[1] = WRITE6 => IF disc.wp THEN disc.img = NewImage
                                  ELSE \A b \in 0 .. n - 1 : disc.img[b] = Block(h.n, b)
          /\ h.cmd[1] = READ6 =>
                h.got = [i \in 1 .. n * BlockLen |->
                            disc.img[(i - 1) \div BlockLen][((i - 1) % BlockLen) + 1]]

\* The error of a failed command survives in requestSenseData until the REQUEST
\* SENSE that follows, which reports it.
SenseTold == (h.clean /\ h.failed /\ h.cmd[1] = REQUESTSENSE /\ h.stat = OK)
                => h.got # <<NO_ERROR>>

\* Both: what the host is told about a command, at once or by REQUEST SENSE, is
\* what became of it (scsiCommandWrite6, scsiCommandRead6, scsiCommandRequestSense).
StatusTruthful == OkMeansDone /\ SenseTold

\* While the target polls for selection its signals are off, so that a host that
\* waits for BSY to drop can always select it, also after a reset, whose
\* harddisc_emulator_init leaves scsiEmulationBusFreestate alone.
BusFreeIsFree == (tg.at = "free1" /\ Between) => ~reg.bsy /\ ~reg.req

\* The target comes back to BUS FREE whatever the host does: no stall, reset or
\* card error keeps the main loop in a command for ever.
TargetRecovers == []<>(tg.at \in {"free0", "free1"})

\* A host that goes on has its command completed: to the message byte, unless it
\* stalls or is reset.
CommandEnds == (h.at = "talk" /\ ~h.upset) ~> (h.at = "idle" \/ h.upset)
=============================================================================
