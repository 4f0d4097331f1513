# Pi1MHz in TLA+

Pi1MHz is bare-metal Raspberry Pi firmware that answers a BBC Micro's 1MHz
bus. Bus accesses arrive in the FIQ handler; everything slow runs in a
cooperative main loop (`kernel_main` in `src/src/Pi1MHz.c`) that polls each
device in turn. The models in this directory cover the parts of the firmware
that run a protocol: between the FIQ and the main loop, between the firmware
and the Beeb, and between the firmware and peers on the network.

## Inventory

| Part | Source | State | Actors | Modelled by |
|---|---|---|---|---|
| Services port (&FCA6..&FCAB) | `services_emulator.c`, `Pi1MHz.c` | VPU word, shadow, nIRQ mask, two mailboxes | FIQ, main loop, Beeb, RST line | `ServicesPort` |
| AUN engine, receive | `AUN/aun.c` | receive blocks, defer and condemn tables, station map | main loop, Beeb ROM, peers, network | `AunTables`, `AunRx` |
| AUN engine, transmit | `AUN/aun.c` | one outstanding transmit, sequence counter | main loop, peers, network, clock | `AunTx` |
| AUN host-executed immediates | `AUN/aun.c`, `AUN/aun_emulator.c` | held immediate, generations, replay cache | main loop, Beeb ROM, peers, clock | `AunHostImm` |
| Network service | `net_service.c`, `net_telnet.c` | handle table, receive rings, DNS queries | main loop, Beeb, lwIP callbacks | `NetService` (mailbox: `ServicesPort`) |
| TNFS client | `net_service.c`, `net_tnfs.c` | one numbered transaction, retry budgets | main loop, Beeb, TNFS server, network | `NetTnfs`, `RemoteCalls` |
| Hard disc host adapter | `harddisc_emulator.c` | data, status, REQ/ACK and select latches, IRQ enable | FIQ, SCSI target in the main loop, RST line | `ScsiTarget` |
| BeebSCSI target | `BeebSCSI/scsi.c`, `filesystem.c` | bus phase, command block, sense data, sector buffer | main loop, host adapter, FatFs | `ScsiTarget` |
| LUN images | `BeebSCSI/filesystem.c`, `usb/mtp_fs.c`, `wifi/webserver.c` | started LUNs, host lock and revoke masks, files and transfers | SCSI commands, MTP callbacks, WebDAV and form requests | `LunImages` |
| FAT service | `fat_service.c` | open files, directories | FIQ | its completion in `ServicesPort` |
| Teletext adapter, video player, mouse, RAM expansion, watchdog | one file each | FIQ-shared buffers and timers | FIQ, main loop, VPU | see Plan |
| Wi-Fi transmit path | `wifi/wifi_lwip.c`, `wifi/sdio.c` | hold queue, SDPCM credit window, stall and dead clocks | main loop, lwIP, radio chip, clock | `WifiTx` |
| Wi-Fi boot and link recovery | `wifi/wifi.c`, `wifi/wifi_lwip.c`, `wifi/sdio.c` | boot phase, bring-up stage, link flags, retry schedule and budgets | main loop, radio chip, access point, RST line, clock | `WifiLink` |
| Web server, MTP otherwise | `wifi/`, `usb/` | connections, object handles | main loop, lwIP or TinyUSB callbacks | see Plan |
| Frame buffer, Music 5000, SID | `framebuffer/`, `M5000_emulator.c`, `fastsid/` | pixels, samples | main loop | no: arithmetic without a protocol |
| FatFs, lwIP, CYW43 and SDIO registers, SD card, start-up code | `BeebSCSI/fatfs`, `wifi/sdio_host.c`, `wifi/cyw43.c`, `rpi/` | device registers | — | no: third-party code or fixed register sequences |

`PROJECT.json` lists the same parts file by file, the source lines each
definition models, and the hazards each property is aimed at.

## Modules

### ServicesPort

Variables. `vpu` and `shadow` are the bus word and its shadow copy for the
command register (base+4) and the IRQ status register (base+5); `slot` is
`aun_pending`/`net_pending` with their command numbers; `nirq` is the nIRQ
source mask; `pc` says where the main loop is in `kernel_main`'s poll list or
in `init_emulator`, with `cp` and `w` the command and the memory write it has
in hand; `aunIrq` and `net` are what each service believes it published;
`port` and `rst` are the registration and the resets; `beeb` is what the Beeb
waits for.

Actions. `BeebCommand` is the FIQ taking a command write: it is enabled
between any two main-loop steps, because the FIQ preempts the main loop
anywhere. The main loop is split where it touches shared memory: a
`Pi1MHz_MemoryWrite` is a read of the neighbour's shadow, a write of the VPU
word and a write of the shadow, three steps the FIQ can come between. The
mailbox read, clear, execute, publish sequence of `aun_emulator_poll` and
`net_service_poll` is split in the same places.

Assumptions. The Beeb issues a command only when the port is registered and
it is not waiting for another. The stores of `services_emulator_init` after
registration are one step. An IRQ only delays the main loop.

### AunTables, AunRx

`AunTables` holds the operators for the two fixed tables of timed entries.
`AunRx` is the receive side: `RxData` is `aun_udp_input` for a DATA datagram,
`aun_rx_poll` and `aun_rx_collect` are RX_POLL and RX_DONE, and the other
commands that touch the same state (`aun_rx_open`, `aun_rx_close`,
`aun_map_add`, `aun_init`) are actions too. Peers are external: stop-and-wait,
retransmitting until acknowledged, with a bounded choice to give up or to
restart. A message carries its peer's incarnation, which the engine never
reads, so that properties can tell messages apart. Sequence numbers are
1..MaxSeq: the 2^32 wrap is not modelled. Due times are ticks left, so the
wrap of the millisecond clock is not modelled either.

`MCAunRx` puts two instances of the module side by side, and a behaviour stays
in the one it starts in. In the queue world a peer may give a transaction up
and the host administers its blocks; in the peer world a conforming peer
retransmits to two overlapping blocks over a network that loses. `StreamOrder`,
`PresentedStable`, `AckTruthfulUnrestarted` and `TablesSound` speak of a block
and of a peer that both worlds have, and are checked in both.

### AunTx

`tx_begin`, `aun_broadcast`, the ACK/NAK/IMM_REPLY branch of `aun_udp_input`
and the transmit half of `aun_poll` (its other half, the reaper, shares no
state and is in `AunHostImm`). Datagrams and answers are sets: the network
reorders freely, loses answers and duplicates up to `MaxDup` of them.

### AunHostImm

The held immediate with its generation guard, the reaper, the replay cache and
the host's IMM_POLL/IMM_REPLY. A poll of the generation already taken is not a
new hand-over. A peer retransmits within `Window` ticks, network delay
included, and `Window` is at most the cache lifetime.

### NetService

`net_h` is the handle table, `pcb` lwIP's TCP control blocks, `query` the DNS
queries out, `own` the handles the Beeb's program knows. Each command of
`net_dispatch` and each lwIP callback is one action, because both run in the
main loop; a command that changes nothing has no action. lwIP is external:
connects fail, segments are offered again after a refusal, and an error frees
the pcb before the callback. A handle may be closed, and BREAK may come, at
any point: the code cancels no query, whose answer then goes to whoever has
the handle, and closing a listener leaves a connection it has accepted and not
reported on a handle that nobody knows (`orphan` in the history). The Beeb's
program keeps one rule that the code does not check: it asks for names before
it connects (`do_dns`), because a query on a connected handle overwrites its
state. Ring contents are items. The telnet filter
is any order-preserving choice of items, and no run uses the telnet or the tcp
scheme. Bind, send, sendto, the status commands and URL_WRITE are not
modelled.

### NetTnfs

One TNFS handle from its MOUNT on: `do_url_open` goes through MOUNT and OPEN,
`UrlIoStart` and `UrlIoEnd` begin and finish a READ or WRITE, `do_close` is the
teardown. `PollWaits` (resends included), `PollBusy`, `PollGivesUp` and
`PollOk` are the outcomes of `net_tnfs_poll`. The network delays, loses and keeps
order; the server is external and answers a repeated number from memory, as
the protocol asks of it. The 8-bit number does not wrap within the bounds (see Proofs).

`RemoteCalls` says what the transactions promise, without messages, numbers,
retries or time: calls are run at most once and in order, a call reported done
has been run, and one reported failed may still be run before any later one.
`NetTnfs` implements it (`ImplementsCalls`): the calls issued and their
outcomes are those of the handle, the calls run are what the server ran.

### ScsiTarget

`reg` holds the host adapter's registers, written by the FIQ
(`hd_emulator_*`) and by the target; `tg` is the target: its SCSI state, where
it is in the byte handshake (`w`), and its buffers. `turn` alternates
`kernel_main`'s look at RST with `scsiProcessEmulation`, which runs one state's
function to its end, so that a RST pulse shorter than a command is missed as
it is in the code. Every byte is a step to raise REQ, perhaps one to raise the
interrupt, and one for ACK, RST or the time-out; the FIQ comes between any
two. The host is ADFS as the handshake needs it: it follows the phase lines,
selects when BSY is off, and has no time-out. It may stall for longer than
`HD_ACK_TIMEOUT_US` at any point and come back, and BREAK may come at any
point. A host that is ready is assumed to answer within 100 ms, and the target
to see an ACK before the host's next look at REQ. A command block is two
bytes (opcode, operand), one byte stands for the data of the short commands, and
there is one LUN, read and written from block 0; `SCSIID` is not set.
`Beeb_write_protect` is on or off from boot (`disc.wp`): when it is on,
`filesystemWriteNextSector` swallows the block and reports success, so that
`StatusTruthful` then says that the image is unchanged. VERIFY may name an
address past the end of the LUN and READ CAPACITY a bad PMI. The
opcodes modelled are TEST UNIT READY, REZERO UNIT, SEEK, REQUEST SENSE,
START/STOP, READ6, WRITE6, READ CAPACITY and VERIFY; every other one is taken
as unknown, which the commands of the run respect. The result of `f_sync` is
not told apart.

### LunImages

The files on the card by path, the started LUNs with the file each has open,
the host lock and revoke masks, and four transfers in progress (MTP upload,
WebDAV PUT, form upload, WebDAV COPY). A step is one SCSI command, one MTP or
lwIP callback, or one request; the jukebox register, which the FIQ serves, is
taken between two of these and not inside a FatFs call. A file is a cluster
chain's identity, so a delete followed by a create gives another file.

FatFs is built with `FF_FS_LOCK` 0: it deletes, truncates and renames files
that are open, and gives their clusters and directory slots to others. A handle
whose entry was removed or renamed is `Stale`. A write through it counts as
one under every started LUN (`UnderLun`), as does any write while a started
LUN's own file has lost its entry, whether or not the clusters happen to be
the same. Where a stale write lands is not followed: it is recorded
(`stale_write`) and the properties about files end there (`Astray`), as they do
when a MOVE renames an open file. `f_rename` may fail after the target was
unlinked, and FORMAT may be refused, for want of a file or because of
`Beeb_write_protect`. The `kernel.now` upload is left out. Once two uploads
have shared one `.part` file the model no longer follows what is in it, and
`UploadAtomic` leaves that case out.

### WifiTx

A frame's way from `wifi_lwip_link_output` to the chip. `gate` is the driver's
view of the credit window (`g_sdpcm_tx_sequence`, `g_runtime_max_seq`, the stop
flag, the stall and dead clocks), `queue` the hold queue, `at` the place of the
main loop: one pass of the loop in `wifi_lwip_tx_hold_flush` is one step.
`Send` is `sdio_runtime_send_ethernet_frame` with its outcomes: refused by the
gate, the bus asleep, a command phase that timed out (the number is given
back), a later failure (the chip may or may not have the frame), success.
`Receive` applies the header of a frame from the chip, `Control` sends a
command past the gate, `sdio_runtime_start` restarts both sides at any moment
the ladder may choose. Numbers wrap at `SeqMod` and are compared as the signed byte of the code compares them.
The chip is external: it credits one number per frame it sends on and discards
a number it has used.

### WifiLink

`wifi` is the boot, `ladder` the schedule and budgets of
`wifi_lwip_rejoin_service`, `runtime` the stage, link flags and freshness clocks
of `sdio.c`. One pass of `wifi_dispatch_poll` (`wifi_boot`, then
`wifi_lwip_poll`) is one step, composed of functions from a state to the set of
states that it may leave. The stages of a bring-up in which only registers are
written are one stage that succeeds or fails. A join may stop half way, with
the chip taken down or not (`Joined`), and its scan may find nothing
(`NotFound`). The chip associates, is thrown off, goes deaf or has its window
poisoned between two passes; it never joins again by itself, only when the
driver tells it to. The access point comes and goes. A tick stands for several
seconds, and the constants keep the order of the code's time limits, not their
ratios. As in the code, a refused frame arms the dead clock only when no stall
is on record (`Refused`), and a window that opened for a moment before the
fault leaves a stall on record with the clock stopped (`Break`).

## Runs

| Run | Expect | What it shows |
|---|---|---|
| `services` | pass | Until a reset or AUN IRQ publication, the Beeb reads its own command's result (`QuietResult`) and the command is in exactly one place (`CommandTracked`); the nIRQ mask agrees with what the services published (`LineFollowsServices`); commands are answered, those of NET across a reset as well (`EveryCommandAnswered`). |
| `services_irq_race` | violation | A base+5 write interrupted by a command restores the previous result. |
| `aunrx` | pass | Order within a stream (`StreamOrder`), a presented frame that stays the one the next RX_DONE answers (`PresentedStable`), ACKs only for what was taken or shed while no peer restarts (`AckTruthfulUnrestarted`), and both tables (`TablesSound`), with peers that give up and administrative commands in between; in the peer world at-most-once delivery and shed frames that stay shed (`DeliveredOrShedOnce`), and a conforming peer that is always released (`PeersReleased`). |
| `auntx` | pass | OK only for a transmit that was carried out (until an INIT), a bound on the stall, completion. |
| `himm` | pass | At-most-once execution and no second hold of a refused immediate while one originator uses the cache, replies never mis-routed, the slot always freed. |
| `net` | pass | Handles and pcbs agree whatever lwIP calls back, an accepted connection has one owner until its listener is closed, streams arrive whole and in order, the end of a stream is reported after its data, rings never overflow, and a URL read to its end gets there. |
| `tnfs` | pass | The client implements `RemoteCalls`: resent transactions run once and in order, an OK is the answer to its own command. Every transaction that is polled ends. |
| `scsi` | pass | A host neither late nor reset since its selection has its command run as sent, its data moved exactly (or, write protected, dropped with the image unchanged), and the error of the command before it reported, whatever an earlier stall or reset left behind; the signals are off while the target waits for selection; the target always comes back to BUS FREE; a command ends unless its host stalls or is reset. |
| `lun` | pass | A started LUN keeps its image unless it was started under a COPY or a transfer went astray; no transfer writes under it except in the cases `NoHostWriteUnderLun` names; locks are given back; a partial upload never becomes an image, except in the cases `UploadAtomic` names. |
| `lun_copy` | violation | The Beeb starts a LUN whose image a COPY is writing; the copy's cleanup deletes the file the LUN has open. |
| `wifi_tx` | pass | No number is used twice (`NeverReplayed`), frames reach the chip in lwIP's order (`FrameOrder`), a frame is lost for want of a slot only when its kind has its share (`ReservedSlots`), and the queue empties even if the chip falls silent (`HeldFramesLeave`). |
| `wifi_link` | pass | Once the access point stays and the stack is polled the link comes back, except that a chip which breaks after the last restart stays broken, and so does a dead window that no clock shows (`Recovers`); a lost link does not stay reported (`LossNoticed`); a chip that can rejoin is not restarted beyond the budget (`RestartsBounded`). |

Some invariants carry their assumption as an antecedent over the history
(`Quiet`, `Alone`, the events of `LunImages`, `h.clean` of `ScsiTarget`): one
state space then serves both the case the code protects and the case it does
not. `services_irq_race` and `lun_copy` show that the antecedent is needed.
`TypeOK` is an invariant of `services`, and the ring bound of `net` is a conjunct
of `StreamExact`. In `ServicesPort`, `AunTx` and `AunRx` it is proved (`TypeCorrect`,
`TxTypeCorrect`, `TypeOKHolds`); in the other modules it is documentation.

Deadlock is checked in `services`, `aunrx`, `scsi`, `wifi_tx` and `wifi_link`. It is off in the others, where the bounds on
commands, transactions, immediates or requests let the system come to rest.

### Bounds

- `services`: three commands let a result of an older command be on the bus
  while a newer one is latched; one reset can fall anywhere in the loop.
- `aunrx`, queue world: three transactions with a queue of two fill the queue and
  refuse one; two ports make two streams compete for two slots; two
  administrative commands allow a MAP_ADD followed by any other. Without the
  MAP_ADD the source is unknown and its datagrams are dropped.
- `aunrx`, peer world: two overlapping blocks, two transactions, one loss; one reject
  before shedding and none once condemned, so both budgets run out.
- `auntx`: two transactions and one after INIT, one duplicate, one reject
  retry and one silence retry. One duplicate is enough for a late answer to an
  earlier transaction to meet a later one.
- `himm`: two originators and two generations reach reap and refill between
  the host's poll and its reply.
- `net`: the program opens one handle at a time, and three in all let a
  listener, a connection it has reported and one it has not exist at once; a
  ring of three items with segments of two and headers of two or four, so that
  back-pressure and headers longer than the ring both happen.
  Two segments, datagrams or resets arrive in a behaviour, enough for a query
  that outlives a close or a reset to be answered on the handle's next use.
  The liveness property is about handle 0. 405,792 states.
- `tnfs`: four transactions (mount, open and two more), two resends and one
  busy answer before giving up, two datagrams in the network each way.
- `scsi`: two commands, so that one follows whatever the other left; blocks of
  two bytes and transfers of three blocks through a buffer of two, so that a
  full and a partial buffer are both written; two disturbances among stalls,
  BREAKs, interrupt switches and card errors; with and without write
  protection. 665,605 states.
- `lun`: one LUN in two directories, two requests from the host side and three
  commands from the Beeb: start, stop or jukebox between the beginning and the
  end of a transfer, and a second transfer beside it. Two chunks
  leave a point between two writes of a transfer. A delete or a FORMAT between
  them makes its handle stale. 544,697 states. Two commands from the Beeb
  are enough for `lun_copy`.
- `wifi_tx`: three frames through a queue of two with one slot for TCP and a
  chip that buffers two; numbers would wrap at eight, but a behaviour uses about
  five, so that the wrap rests on the theorem `NeverReplayedCorrect`; one stop, one failed transfer,
  one command past the gate and one restart.
- `wifi_link`: three rare events in any mixture (a failed bring-up, a join not
  sent, an empty scan, events lost in the sweep, a chip fault, a
  deauthentication, an absence of the access point, a BBC reset); two rejoins
  escalate and one restart is allowed while rejoins are possible, where the
  code has three of each. The longest interval is above the health dwell, as
  in the code. 195,491 states.

### Fairness

Weak fairness is assumed of main-loop steps (the loop never blocks for ever),
of the clock, in `services` of the Beeb reading a result and letting go of RST, and in the peer world of `aunrx` of conforming peers, the network beyond its
loss budget and the ROM's receive pump. Nothing is assumed of the host in
`himm`, of the network in `auntx` or of the server in `tnfs`: their liveness
holds against silence; in `tnfs` the Beeb repeats a pending command, which is
how the code gets to poll. In `net` lwIP delivers what it holds, peers end
their streams and the Beeb goes on reading: a read cannot end otherwise. In
`scsi` the main loop runs on, and a ready host goes on; nothing makes a
stalled host come back. In `wifi_tx` the main loop flushes and time passes; the
clock is strongly fair because a tick waits for the flush that each frame from
the chip asks for, and nothing is assumed of the chip. In `wifi_link` the main
loop turns, time passes, and the chip associates when it was told to and the
access point is there, or notices that it is not there or gone; that its scan
comes back empty beside an access point is a rare event. `lun` has no liveness
property.

## Proofs

Each proof module extends the module it is about and proves its theorems for
every value of the constants that satisfies the module's `ASSUME`. The
theorems `PROJECT.json` lists state properties that a run checks on a small
instance, and two more about `AunRx` (`TypeOKHolds`, `DeliveredOnceHolds`).

`ServicesPortProofs`:

- `TypeCorrect`: `Spec => []TypeOK`.
- `NoStale`: `Spec => []QuietResult`. The invariant `QuietInv` adds to it where
  the main loop may be (`QuietState`, `AtPc`): while no write of base+5 has
  started, each step of `Pi1MHz_MemoryWrite` holds a neighbour that agrees
  with the shadow, and a command being executed is the one the Beeb waits for.
  Without these the invariant is not inductive: a write begun before the
  command would carry an old byte.
- `Tracked`: `Spec => []CommandTracked`, from the same invariant.
- `LineCorrect`: `Spec => []LineFollowsServices`, from `LineInv`, which says
  for every point of the poll loop and of re-initialisation which of the mask
  bits already agree.

`AunTxProofs`:

- `TxTypeCorrect`: `Spec => []TypeOK`.
- `StallCorrect`: `Spec => []StallBounded`. `StallInv` says that the time a
  transmit has been pending, the time to its deadline and what its budgets can
  still add (`Remaining`) stay within the total. `StallBounded` alone is not
  inductive: it does not say that a retry is paid for when it is scheduled.
- `OkCorrect`: `Spec => []OkMeansServed`. `ServedInv` adds that whatever is
  under way or was carried out with the current number is the current
  transaction, and that a positive answer in the network is to something that
  was carried out. It holds until an INIT restarts the numbering, as the
  property does.

`AunRxProofs`, for any number of peers, ports, blocks and slots, any station map,
losses, restarts and administrative commands, unless a hypothesis is named:

- `PresentedStableHolds`, `TablesSoundHolds` and `TypeOKHolds`, from `Inv`. It
  gives the state of each block: the presented frame is in the queue and the
  buffer is a copy of it; a deferral is of a stream that has a queued frame, and
  never of the presented one; and what is in the network, the queues and the
  history is what a peer could have sent. `TablesSound` alone is not inductive:
  RX_DONE turns the presented frame into a deferral, so where it stands in the
  queue matters. `TypeOKHolds` assumes `CondemnRetries <= DeferRetries` (12 and
  250 in `aun.h`): a frame's count of rejects stays within the larger budget.
- `AckTruthfulHolds`: `Spec => []AckTruthfulUnrestarted`. `AckInv` says that
  `last_rx_seq` is the number of a message that was taken or shed, so that a
  re-ACK from it is true, and that nothing in flight is of a later incarnation.
- `StreamOrderHolds`: `Spec => []StreamOrder` with one receive block. `OrderInv`
  orders a stream along its whole way: what was taken is no newer than what is
  queued, and that no newer than what is in the network or still to be sent.
  The hypothesis is needed: with two overlapping blocks a message that its peer
  gave up can be collected after the next one, which went to the other block.
- `DeliveredOnceHolds`: `Spec => [](DeliveredOnce /\ NotShedAndTaken /\
  StreamOrder)` (the first two are what the run checks as
  `DeliveredOrShedOnce`), through any number of overlapping blocks, for peers
  that give nothing up (`~MayAbandon`), no administrative command or restart
  (`MaxAdmin = 0`) and a map in which no two peers share a station (`Apart`),
  the hypotheses that the peer world meets. `OnceInv` says where a peer stands
  with message n the last confirmed: it sends n or n + 1, in that order; only
  n + 1 is ever queued, once in all the blocks, and then n is no longer in the
  network; and nothing past n is acknowledged, taken or shed.

The lemmas about the first entry of a table assume that a set of naturals has a
least element (`WellOrdered`); `NatWellOrdered` proves it from the library's
theorem on well-founded orders, and the theorems use it.

`AunHostImmProofs`:

- `RoutedCorrect`: `Spec => []ReplyRouted`. `RoutedInv` says what the generation
  guard is for: while the generation the host polled is the one held, the host
  runs the request that is held.
- `RunOnceCorrect` and `ReapedCorrect`: `Spec => []RunOnceAlone` and `Spec =>
  []ReapedStaysRefused` when `CacheTtl >= Window`. `OnceInv` says that what was
  run or reaped is held or in the reply cache for as long as its originator may
  repeat it; it compares the time left of the entry with the time left of the
  retries, which is where the hypothesis comes in.

`WifiTxProofs`:

- `FrameOrderCorrect`: `Spec => FrameOrder`. `OrderInv` places the held frames,
  in order, between the last frame the chip took and the last lwIP sent, and
  says that a frame passes the queue only when nothing is held.
- `NeverReplayedCorrect`: `Spec => []NeverReplayed` when `2 * MaxFault < SeqMod`.
  `SeqInv` says that each number by which the driver is ahead of the chip has
  cost a fault. The hypothesis keeps the gap within what a signed comparison of
  8-bit numbers tells apart.
- `ReservedSlotsCorrect`: `Spec => ReservedSlots`, under the same hypothesis (a
  number the chip discards is a frame lost with slots free).
  `SlotInv` says that `s_tx_tcp_count` is the number of TCP frames held.

`ScsiTargetProofs`, for every block length, buffer, command set and number of
disturbances:

- `CommandAsSentHolds`, `BusFreeIsFreeHolds` and `StatusTruthfulHolds`: `Spec =>
  []CommandAsSent`, `[]BusFreeIsFree` and `[]StatusTruthful`. The invariant
  `Inv` follows a command of a host that is in step (`h.clean`) from selection to
  status: how many bytes the two sides have exchanged and which, and which of
  the host's blocks are in the image, in the sector buffer and on the bus.
  One byte may be acknowledged and not yet seen, so both counts are needed.
  `ProtectedHolds` says that a write-protected image never changes, which is
  the other half of what a GOOD status of WRITE6 means.

`LunImagesProofs`, for every set of LUNs, any number of requests and at most as
many directories as files (`ConstantsOK`: the images of the initial card are files):

- `LockHasHolderHolds`, `KeptUnlessCopiedHolds`, `UploadAtomicHolds` and
  `NoHostWriteUnderLunHolds`, one for each invariant of the run, from `Shape` and
  `Inv`. `Inv` adds that a started LUN keeps its image until a revoked COPY
  frees it, and that before a `copy_taken` no COPY writes the image of a started
  LUN (`KeptInv`); that a file has one directory entry (`OneEntry`, whatever
  happened before); that uploads write different files until two have shared
  a `.part` (`ApartInv`); that an upload without a chunk to come is whole
  (`AtomicInv`); and that a COPY into a started LUN has been told to stop
  (`UnderInv`). `OneEntry` is what makes the check of a path before each write
  enough: a transfer whose handle is not stale and whose path is not that of a
  started LUN has no file in common with one.

`NetTnfsProofs`:

- `CallsImplemented`: `Spec => ImplementsCalls`, the refinement of `RemoteCalls`
  by the TNFS session. `CallsInv` says that the requests in the network are in
  the order of their numbers and none is older than the server's last
  (`RequestsInOrder`), that the server ran nothing past that number and a
  farewell last (`RanInOrder`), that every reply on its way to an open handle
  names its own transaction and, unless it says busy, comes from a server that
  has run it (`RepliesTruthful`), and that a transaction is open exactly until
  the Beeb is told of it (`ResultsKnown`). `StepRefines` then maps each action:
  a finished command to `Finish`, a READ or WRITE that starts to `Issue`, the
  server running a request to `Run` or `Leave`, and everything else to a
  stutter. The proof rests on the network keeping the order of datagrams and
  on `SeqMod > MaxTid + 2`: the 8-bit number does not come round within
  the session. A longer session needs the further assumption that no datagram
  is delayed by 256 transactions, which the model does not express.

Model-checked only are the liveness properties of all runs (liveness under
fairness and ENABLED are outside the prover's reach), and the invariants of
`NetService` (`PcbOwned`, `HandlesAccounted`, `StreamExact`) and `RestartsBounded`
of `WifiLink`, which have no proof yet. What a recursive definition computes for
every input is outside the prover's reach too.

## Plan

1. The rest of the SCSI target (INQUIRY, MODE SENSE and MODE SELECT data, FORMAT,
   TRANSLATE, the FAT transfer and F-code commands, the status byte that
   `HD_status` and `HD_IRQ` are combined into) and of the network service
   (bind, send, sendto, URL_WRITE, the telnet filter as a function).
2. The web server's connection life cycle and the MTP object handles.
3. The remaining FIQ-shared devices: teletext, RAM expansion, mouse, watchdog,
   the registration tables of `Pi1MHz.c`.
4. More abstract specifications: an at-most-once mailbox for `ServicesPort`, a
   channel for `AunRx`, an abstract disc (one atomic command at a time) for
   `ScsiTarget` with hosts that keep up; `WifiTx` and `WifiLink` composed, so
   that the dead clock of one is the dead clock of the other.
5. Proofs: the invariants of `NetService` and `RestartsBounded` of `WifiLink`.

## Not modelled

Packet formats, buffers and addresses in the page RAM; the pixel and sample
arithmetic; FatFs (beyond what its open, unlink and sync do to open files), lwIP and the device drivers; the 2^32 wrap of sequence
numbers and of the millisecond clock; FatFs calls made from the FIQ in the
middle of another (FatFs is built without re-entrancy).

Behaviours met while modelling that have no run of their own:

- an AUN command issued while a reset re-initialises the services is latched
  and then dropped by `aun_emulator_init`;
- with two originators the one-slot replay cache of host immediates lets one
  be run twice;
- a handle closed with a DNS query out and opened again takes the old answer;
- a listener closed with an accepted connection not yet reported leaves that
  handle and its connection open until the next reset (`orphan` in
  `HandlesAccounted`); the Beeb cannot know that the accept has come;
- a ranged PUT or an upload whose file is deleted, moved or reformatted under
  it goes on writing through a stale handle, into clusters and a directory slot
  that can be another file's, an image of a started LUN included (`Astray`);
- an AUN transmit that meets slow NAKs keeps the Beeb waiting for up to the sum
  that `StallBounded` states, about 11 s with the constants of `aun.h`, whose
  comment speaks of about 1 s;
- a restarted AUN peer's first frame can be acknowledged and not delivered,
  and learn mode can redirect a configured station;
- a SCSI command byte that times out is taken from the stale data register,
  and a WRITE6 block that times out is written with what the stack held and
  reported good;
- a four-way immediate (DATA to port 0) that meets a held one is dropped in
  silence, as `rx_imm4_data` intends, although `aun.h` says that further
  immediates are NAKed;
- a peer with two unacknowledged frames out can have the first delivered again
  when its ACK is lost (`SPEC_AUDIT.md` accepts it as a known limitation);
- with two overlapping receive blocks, a peer that gives a message up while it
  is queued can have the next one collected first (`StreamOrder` with two blocks
  and `MayAbandon`);
- the Beeb can disable the hard disc interrupt between the target's test of
  `HD_IRQ_ENABLE` and its assertion, which leaves nIRQ asserted.
- a complete MTP upload of a LUN image in the current directory is refused at
  its end: the check in `tud_mtp_data_complete_cb` counts the upload's own
  lock (`RefusedOnlyForBeeb` in `LunImages`, false with any upload);
- the dead clock of the Wi-Fi transmit window is armed at a refusal only when
  no stall is on record, and a header with an open window clears it without
  clearing the stall: a refusal after that does not arm it, although the
  comment says that it counts from the first refusal (`DeadClockRuns` in
  `WifiTx`, false with two failed transfers). A window that dies in that state
  is not seen by the recovery ladder while frames still arrive (`Unseen` in
  `Recovers`);
- `s_full_restarts_since_healthy` is an 8-bit count without a limit: after 256
  restarts without a healthy spell it wraps and gives the budget back
  (`RestartsBounded` is about fewer);
- after `dhcp_start` fails at boot the poll clears `timers_running`, and the
  boot repeated by a BBC reset does not set it again, so the stack is not
  polled (`BootedIsPolled` in `WifiLink`, false with the constants of
  `WifiLink.cfg`);
- a chip whose window dies after the restart budget is spent is only rejoined
  from then on (`Capped` in `Recovers`);
- the sweep after a join decodes events without `sdio_runtime_note_event`, so
  a loss read there is noticed only by the silence that follows.
