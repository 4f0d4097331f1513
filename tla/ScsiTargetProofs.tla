-------------------------- MODULE ScsiTargetProofs --------------------------
(***************************************************************************)
(* What the SCSI target promises its host, for every block length, count   *)
(* of blocks, sector buffer, set of commands and number of events: it runs *)
(* the command block the host sent, its BUS FREE is free, and the status   *)
(* it gives is true of the image and of what the host was sent.            *)
(*                                                                         *)
(* All three hold of a host that was neither late nor reset since it       *)
(* selected the target (h.clean).  The inductive invariant Inv follows     *)
(* such a command from selection to status: how many bytes the two have    *)
(* exchanged and which (InStep in COMMAND, DataInv, ReadInv and WriteInv   *)
(* in the data phases), and which of the host's blocks are in the image,   *)
(* which in the sector buffer and which on the bus, so that the status is  *)
(* true when it is decided and still is when the host reads it.  One byte  *)
(* may be acknowledged by the host and not yet seen by the target: Acked   *)
(* and More count it.                                                      *)
(***************************************************************************)
EXTENDS ScsiTarget, SequenceTheorems, TLAPS

\* The fields of the records: what is left alone by an update keeps its value.
RegF == {"data", "bus", "ack", "sel", "req", "bsy", "ph"}
TgF == {"at", "turn", "w", "k", "b", "cdb", "buf", "sec", "st"}
HostF == {"at", "cmd", "n", "k", "sent", "got", "stat", "clean", "slow", "upset", "failed"}

\* The records have these fields, whatever their values.
Fields ==
    /\ DOMAIN reg = RegF /\ DOMAIN tg = TgF /\ DOMAIN h = HostF
    /\ DOMAIN rst = {"pin", "old"}

\* The signals and the place of the target.  The target is in a handshake only
\* where its place has one, and its phase lines are then those of the place;
\* without BSY it is in BUS FREE and REQ is off; a selection is pending only
\* without BSY.
BusInv ==
    /\ tg.at \in Places /\ tg.w \in {"off", "sector", "set", "irq", "on"}
    /\ tg.w # "off" => tg.at \in Handshake /\ reg.ph = Phase(tg.at)
    /\ tg.at = "free1" => ~reg.bsy
    /\ ~reg.bsy => tg.at \in {"free0", "free1"} /\ ~reg.req
    /\ reg.bsy => ~reg.sel

\* The counters and buffers of the target are used inside a transfer only.
CountInv ==
    /\ tg.at \notin {"blkin", "blkout"} => tg.k = 0 /\ tg.b = 0 /\ tg.buf = <<>> /\ tg.sec = <<>>
    /\ h.n \in Nat /\ h.cmd \in Nat \X Nat
    /\ rst.pin => ~h.clean

\* The first j bytes of command block c.
Prefix(c, j) == IF j = 0 THEN <<>> ELSE IF j = 1 THEN <<c[1]>> ELSE <<c[1], c[2]>>

\* The target is waiting for the host's ACK, or has it and has not seen it yet.
Waiting == tg.w \in {"irq", "on"}
Acked == Waiting /\ reg.ack
More == IF Acked THEN 1 ELSE 0

\* In COMMAND the target has what the host sent, except for a byte acknowledged
\* and not yet taken.
InStep ==
    IF Acked
    THEN h.k \in {1, 2} /\ tg.cdb = Prefix(h.cmd, h.k - 1) /\ reg.data = h.cmd[h.k]
    ELSE h.k \in {0, 1} /\ tg.cdb = Prefix(h.cmd, h.k)

\* The target is in scsiEmulationBusFree.
Free == tg.at \in {"free0", "free1"}

\* A host that was neither late nor reset since it selected the target: where
\* the two are.
CleanInv == h.clean =>
    IF Free
    THEN \/ h.at = "talk" /\ reg.sel /\ h.k = 0
         \/ h.at = "idle" /\ ~reg.sel
    ELSE /\ ~reg.sel
         /\ reg.req => Waiting
         /\ IF tg.at = "cmd" THEN InStep ELSE tg.cdb = h.cmd
         /\ tg.at = "msg" /\ Acked => h.at = "idle"

-----------------------------------------------------------------------------
\* The host's command has been selected and not yet run.
Starting == \/ Free /\ h.at = "talk"
            \/ tg.at \in {"cmd", "exec"}

\* The opcodes whose CHECK CONDITION comes with sense data.
WithSense == {TESTUNITREADY, SEEK, READ6, WRITE6, STARTSTOP}

\* The bytes 1 .. k of block x of the n-th command, the m blocks of it that are
\* staged before block x, and those before them in image d.
Received(n, x, k) == [i \in 1 .. k |-> Sent(n, x, i)]
Staged(n, x, m) == [i \in 1 .. m |-> Block(n, x - m + i - 1)]
Written(d, n, x) == \A y \in 0 .. x - 1 : d[y] = Block(n, y)
WrittenOrStaged(s, d, n, x) == \E m \in 0 .. x : s = Staged(n, x, m) /\ Written(d, n, x - m)

\* The blocks of image d after block x, and its first l bytes.
Following(d, x, m) == [i \in 1 .. m |-> d[x + i]]
ReadAhead(s, d, x) == \E m \in Nat : s = Following(d, x, m)
Image(d, l) == [i \in 1 .. l |-> d[(i - 1) \div BlockLen][((i - 1) % BlockLen) + 1]]

\* What a host whose n-th command is c, that has read g and is told status s can
\* rely on, when its command before failed (f): disc d and sense data e.
Told(s, c, n, d, g, f, e) ==
    /\ s = OK /\ c[1] = WRITE6 /\ ~d.wp => Written(d.img, n, NumberOfBlocks(c[2]))
    /\ s = OK /\ c[1] = READ6 => g = Image(d.img, NumberOfBlocks(c[2]) * BlockLen)
    /\ s = OK /\ c[1] = REQUESTSENSE /\ f => g # <<NO_ERROR>>
    /\ s = CHECK /\ c[1] \in WithSense => e # NO_ERROR

\* Told, of the host that is on the bus.
ToldHost(s) == Told(s, h.cmd, h.n, disc, h.got, h.failed, sense)

\* Until the command runs the host has nothing but its block; the command before
\* it left sense data if the host saw it fail (scsiCommandRequestSense clears them).
StartInv == h.clean /\ Starting =>
    /\ h.stat = Junk /\ h.sent = 0 /\ h.got = <<>>
    /\ h.failed => sense # NO_ERROR

\* While a REQUEST SENSE or READ CAPACITY answers: the byte on the bus is the
\* sense data, which stay until the host has them.
DataInv == h.clean /\ tg.at = "in" =>
    /\ h.stat = Junk
    /\ h.cmd[1] \in {REQUESTSENSE, READCAPACITY}
    /\ h.cmd[1] = REQUESTSENSE /\ h.failed =>
         /\ sense # NO_ERROR
         /\ h.got = IF Acked THEN <<sense>> ELSE <<>>
         /\ Waiting => reg.bus = sense

\* In the data phase of scsiCommandWrite6: the block being filled has the bytes the host
\* sent, and the blocks before it are in the image or in the sector buffer
\* unless the disc is write protected.
WriteInv == h.clean /\ tg.at = "blkout" =>
    /\ h.stat = Junk
    /\ h.cmd[1] = WRITE6
    /\ tg.w # "off"
    /\ tg.b \in Nat /\ tg.b < NumberOfBlocks(h.cmd[2])
    /\ tg.k \in Nat /\ IF tg.w = "sector" THEN tg.k = BlockLen ELSE tg.k < BlockLen
    /\ tg.buf = Received(h.n, tg.b, tg.k)
    /\ h.sent = tg.b * BlockLen + tg.k + More
    /\ Acked => reg.data = Sent(h.n, tg.b, tg.k + 1)
    /\ ~disc.wp => WrittenOrStaged(tg.sec, disc.img, h.n, tg.b)

\* In the data phase of scsiCommandRead6: the host has the image up to the byte on the
\* bus, the block being sent is the image's, and so is what was read ahead of it.
ReadInv == h.clean /\ tg.at = "blkin" =>
    /\ h.stat = Junk
    /\ h.cmd[1] = READ6
    /\ tg.w # "off"
    /\ tg.b \in Nat /\ tg.b < NumberOfBlocks(h.cmd[2])
    /\ tg.k \in Nat /\ tg.k < BlockLen
    /\ h.got = Image(disc.img, tg.b * BlockLen + tg.k + More)
    /\ Waiting => reg.bus = disc.img[tg.b][tg.k + 1]
    /\ IF tg.w = "sector"
       THEN tg.k = 0 /\ ReadAhead(tg.sec, disc.img, tg.b - 1)
       ELSE tg.buf = disc.img[tg.b] /\ ReadAhead(tg.sec, disc.img, tg.b)

\* In scsiEmulationStatus: the status is true when it is decided, and still is when the
\* host has read it.
StatusInv == h.clean =>
    /\ tg.at = "status" => /\ ToldHost(tg.st)
                           /\ Waiting => reg.bus = tg.st
                           /\ ~Acked => h.stat = Junk
    /\ h.stat # Junk => ToldHost(h.stat)

\* What the invariant says of a host that is in step.
InStepInv == CleanInv /\ StartInv /\ DataInv /\ WriteInv /\ ReadInv /\ StatusInv

\* The inductive invariant.
Inv == Fields /\ BusInv /\ CountInv /\ InStepInv

-----------------------------------------------------------------------------
(* The records and the operators.                                          *)

\* A phase function returns.
LEMMA GotoFields ==
  ASSUME NEW t, DOMAIN t = TgF, NEW at
  PROVE  /\ DOMAIN Goto(t, at) = TgF
         /\ Goto(t, at).at = at /\ Goto(t, at).w = "off"
         /\ Goto(t, at).k = 0 /\ Goto(t, at).b = 0
         /\ Goto(t, at).buf = <<>> /\ Goto(t, at).sec = <<>>
         /\ Goto(t, at).cdb = t.cdb /\ Goto(t, at).st = t.st
  BY Zenon DEF Goto, TgF

\* The command block is set (scsiEmulationCommand) and nothing else.
LEMMA SetFields ==
  ASSUME NEW t, DOMAIN t = TgF, NEW v
  PROVE  /\ DOMAIN [t EXCEPT !.cdb = v] = TgF
         /\ [t EXCEPT !.cdb = v].cdb = v /\ [t EXCEPT !.cdb = v].st = t.st
  BY Zenon DEF TgF

\* The phase lines of the places that have a handshake.
LEMMA PhaseOf ==
  /\ Phase("cmd") = "cmd" /\ Phase("in") = "in" /\ Phase("blkin") = "in"
  /\ Phase("blkout") = "out" /\ Phase("status") = "status" /\ Phase("msg") = "msg"
  BY Zenon DEF Phase

\* A sequence written as a function, and one element more.
LEMMA AppendFcn ==
  ASSUME NEW S, NEW n \in Nat, NEW f \in [1 .. n -> S], NEW g \in [1 .. n + 1 -> S],
         \A i \in 1 .. n : g[i] = f[i]
  PROVE  Append(f, g[n + 1]) = g /\ Len(f) = n
<1>1. f \in Seq(S) /\ Len(f) = n
  BY SeqDef
<1>2. g \in Seq(S) /\ Len(g) = n + 1 /\ g[n + 1] \in S
  BY SeqDef
<1> DEFINE a == Append(f, g[n + 1])
<1>3. /\ a \in Seq(S) /\ Len(a) = n + 1
      /\ \A i \in 1 .. n : a[i] = f[i]
      /\ a[n + 1] = g[n + 1]
  BY <1>1, <1>2, AppendProperties
<1> HIDE DEF a
<1>4. \A i \in 1 .. n + 1 : i \in 1 .. n \/ i = n + 1
  OBVIOUS
<1>5. \A i \in 1 .. Len(a) : a[i] = g[i]
  BY <1>3, <1>4, Zenon
<1>6. a = g
  BY <1>2, <1>3, <1>5, SeqEqual, Zenon
<1> QED
  BY <1>1, <1>6, Zenon DEF a

\* The first element of such a sequence, and the others.
LEMMA TailFcn ==
  ASSUME NEW S, NEW n \in Nat \ {0}, NEW f \in [1 .. n -> S], NEW g \in [1 .. n - 1 -> S],
         \A i \in 1 .. n - 1 : g[i] = f[i + 1]
  PROVE  Head(f) = f[1] /\ Tail(f) = g
<1>1. f \in Seq(S) /\ Len(f) = n
  BY SeqDef
<1>2. n - 1 \in Nat
  OBVIOUS
<1>3. g \in Seq(S) /\ Len(g) = n - 1
  BY <1>2, SeqDef
<1>4. f # <<>>
  BY <1>1, Zenon
<1>5. /\ Tail(f) \in Seq(S) /\ Len(Tail(f)) = n - 1
      /\ \A i \in 1 .. n - 1 : Tail(f)[i] = f[i + 1]
  BY <1>1, <1>4, HeadTailProperties, Zenon
<1>6. Tail(f) = g
  BY <1>3, <1>5, SeqEqual, Zenon
<1> QED
  BY <1>1, <1>4, <1>6

\* A command block is two bytes in the model, taken one at a time
\* (scsiEmulationCommand).
LEMMA PrefixStep ==
  ASSUME NEW c \in Nat \X Nat
  PROVE  /\ Len(Prefix(c, 0)) = 0 /\ Append(Prefix(c, 0), c[1]) = Prefix(c, 1)
         /\ Len(Prefix(c, 1)) = 1 /\ Append(Prefix(c, 1), c[2]) = Prefix(c, 2)
         /\ Prefix(c, 2) = c /\ Len(Prefix(c, 2)) = 2
<1>1. PICK a \in Nat, b \in Nat : c = <<a, b>>
  OBVIOUS
<1>2. Prefix(c, 0) = <<>> /\ Prefix(c, 1) = <<a>> /\ Prefix(c, 2) = <<a, b>>
  BY <1>1 DEF Prefix
<1>3. Append(<<>>, a) = <<a>>
  OBVIOUS
<1>4. Append(<<a>>, b) = <<a, b>>
  <2> DEFINE f == <<a>>
             g == <<a, b>>
  <2>1. PICK n \in Nat : n = 1
    BY Zenon
  <2>2. f \in [1 .. n -> Nat] /\ g \in [1 .. n + 1 -> Nat]
    BY <2>1
  <2>3. g[n + 1] = b /\ \A i \in 1 .. n : g[i] = f[i]
    BY <2>1
  <2> HIDE DEF f, g
  <2>4. Append(f, g[n + 1]) = g
    BY <2>2, <2>3, AppendFcn
  <2> QED
    BY <2>3, <2>4, Zenon DEF f, g
<1> QED
  BY <1>1, <1>2, <1>3, <1>4, Zenon

\* Byte k of block b is byte b * BlockLen + k of the transfer.
LEMMA BytePlace ==
  ASSUME NEW b \in Nat, NEW k \in Nat, k < BlockLen
  PROVE  /\ (b * BlockLen + k) \div BlockLen = b
         /\ (b * BlockLen + k) % BlockLen = k
         /\ b * BlockLen + k \in Nat
<1> DEFINE x == b * BlockLen + k
<1>1. BlockLen \in Nat \ {0}
  BY ConstantsOK, Zenon
<1>2. x \in Nat
  BY <1>1
<1> HIDE DEF x
<1>3. PICK q \in Int, r \in 0 .. BlockLen - 1 :
        q = x \div BlockLen /\ r = x % BlockLen /\ x = BlockLen * q + r
  BY <1>1, <1>2
<1>4. (q - b) * BlockLen = k - r
  BY <1>1, <1>3 DEF x
<1>5. \A d \in Int : d >= 1 => d * BlockLen >= BlockLen
  BY <1>1
<1>6. \A d \in Int : d <= -1 => d * BlockLen <= -BlockLen
  BY <1>1
<1>7. q - b = 0
  BY <1>1, <1>3, <1>4, <1>5, <1>6
<1> QED
  BY <1>1, <1>2, <1>3, <1>4, <1>7 DEF x

\* A transfer has a block at least, and at most MaxBlocks.
LEMMA BlocksCount ==
  ASSUME NEW c \in Nat
  PROVE  NumberOfBlocks(c) \in 1 .. MaxBlocks
  BY ConstantsOK DEF NumberOfBlocks

\* So has the transfer of the host's command.
LEMMA HostCount ==
  ASSUME CountInv PROVE NumberOfBlocks(h.cmd[2]) \in 1 .. MaxBlocks
<1>1. h.cmd[2] \in Nat
  BY Zenon DEF CountInv
<1> QED
  BY <1>1, BlocksCount, Zenon

\* The host's buffer has room for every byte of a transfer.
LEMMA Room ==
  ASSUME NEW b \in Nat, NEW k \in Nat, k < BlockLen, b < MaxBlocks
  PROVE  b * BlockLen + k < MaxBlocks * BlockLen
<1>1. b * BlockLen + BlockLen = (b + 1) * BlockLen
  BY ConstantsOK
<1>2. \A y, z \in Nat : y <= z => y * BlockLen <= z * BlockLen
  BY ConstantsOK
<1>3. (b + 1) * BlockLen <= MaxBlocks * BlockLen
  BY <1>2, ConstantsOK
<1> QED
  BY <1>1, <1>3, ConstantsOK

\* A byte more of a block the host sends.
LEMMA ReceivedStep ==
  ASSUME NEW n \in Nat, NEW x \in Nat, NEW k \in Nat
  PROVE  /\ Received(n, x, 0) = <<>>
         /\ Append(Received(n, x, k), Sent(n, x, k + 1)) = Received(n, x, k + 1)
<1> DEFINE f == Received(n, x, k)
           g == Received(n, x, k + 1)
           S == {Sent(n, x, i) : i \in 1 .. k + 1}
<1>1. f \in [1 .. k -> S] /\ g \in [1 .. k + 1 -> S] /\ \A i \in 1 .. k : g[i] = f[i]
  BY DEF Received
<1>2. g[k + 1] = Sent(n, x, k + 1)
  BY DEF Received
<1>3. Received(n, x, 0) = <<>>
  BY DEF Received
<1> HIDE DEF f, g, S
<1>4. Append(f, g[k + 1]) = g
  BY <1>1, AppendFcn, Zenon
<1> QED
  BY <1>2, <1>3, <1>4, Zenon DEF f, g

\* A block more in the sector buffer (scsiCommandWrite6).
LEMMA StagedStep ==
  ASSUME NEW n \in Nat, NEW x \in Nat, NEW m \in Nat
  PROVE  /\ Staged(n, x, 0) = <<>>
         /\ Len(Staged(n, x, m)) = m
         /\ Append(Staged(n, x, m), Block(n, x)) = Staged(n, x + 1, m + 1)
<1> DEFINE f == Staged(n, x, m)
           g == Staged(n, x + 1, m + 1)
           S == {Block(n, x - m + i - 1) : i \in 1 .. m + 1}
<1>1. \A i \in 1 .. m + 1 : (x + 1) - (m + 1) + i - 1 = x - m + i - 1
  OBVIOUS
<1>2. f \in [1 .. m -> S]
  BY DEF Staged
<1>3. g = [i \in 1 .. m + 1 |-> Block(n, x - m + i - 1)]
  BY <1>1, Zenon DEF Staged
<1>4. g \in [1 .. m + 1 -> S]
  BY <1>3, Zenon
<1>5. \A i \in 1 .. m : g[i] = f[i]
  BY <1>3 DEF Staged
<1>6. g[m + 1] = Block(n, x)
  <2>1. x - m + (m + 1) - 1 = x
    OBVIOUS
  <2> QED
    BY <1>3, <2>1
<1>7. Staged(n, x, 0) = <<>>
  BY DEF Staged
<1> HIDE DEF f, g, S
<1>8. Append(f, g[m + 1]) = g /\ Len(f) = m
  BY <1>2, <1>4, <1>5, AppendFcn, Zenon
<1> QED
  BY <1>6, <1>7, <1>8, Zenon DEF f, g

\* The next block read ahead (scsiCommandRead6).
LEMMA FollowingStep ==
  ASSUME NEW d, NEW x \in Int, NEW m \in Nat \ {0}
  PROVE  /\ Head(Following(d, x - 1, m)) = d[x]
         /\ Tail(Following(d, x - 1, m)) = Following(d, x, m - 1)
<1> DEFINE f == Following(d, x - 1, m)
           g == Following(d, x, m - 1)
           S == {d[x - 1 + i] : i \in 1 .. m}
<1>1. f \in [1 .. m -> S]
  BY Zenon DEF Following
<1>2. \A i \in 1 .. m - 1 : i + 1 \in 1 .. m /\ x - 1 + (i + 1) = x + i
  OBVIOUS
<1>3. \A i \in 1 .. m - 1 : d[x + i] \in S /\ d[x + i] = f[i + 1]
  BY <1>2, Zenon DEF Following
<1>4. g \in [1 .. m - 1 -> S] /\ \A i \in 1 .. m - 1 : g[i] = f[i + 1]
  BY <1>3, Zenon DEF Following
<1>5. f[1] = d[x]
  <2>1. x - 1 + 1 = x /\ 1 \in 1 .. m
    OBVIOUS
  <2> QED
    BY <2>1, Zenon DEF Following
<1> HIDE DEF f, g, S
<1>6. Head(f) = f[1] /\ Tail(f) = g
  BY <1>1, <1>4, TailFcn, Zenon
<1> QED
  BY <1>5, <1>6, Zenon DEF f, g

\* A byte more of the image.
LEMMA ImageStep ==
  ASSUME NEW d, NEW b \in Nat, NEW k \in Nat, k < BlockLen
  PROVE  /\ Image(d, 0) = <<>>
         /\ Len(Image(d, b * BlockLen + k)) = b * BlockLen + k
         /\ Append(Image(d, b * BlockLen + k), d[b][k + 1]) = Image(d, b * BlockLen + k + 1)
<1> DEFINE l == b * BlockLen + k
           E(i) == d[(i - 1) \div BlockLen][((i - 1) % BlockLen) + 1]
           f == Image(d, l)
           g == Image(d, l + 1)
           S == {E(i) : i \in 1 .. l + 1}
<1>1. l \in Nat /\ l \div BlockLen = b /\ l % BlockLen = k
  BY BytePlace, Zenon
<1> HIDE DEF l
<1>2. f = [i \in 1 .. l |-> E(i)] /\ g = [i \in 1 .. l + 1 |-> E(i)]
  BY Zenon DEF Image
<1>3. E(l + 1) = d[b][k + 1]
  <2>1. (l + 1) - 1 = l
    BY <1>1
  <2> QED
    BY <2>1, <1>1, Zenon
<1> HIDE DEF E, f, g
<1>6. f \in [1 .. l -> S] /\ g \in [1 .. l + 1 -> S] /\ \A i \in 1 .. l : g[i] = f[i]
  BY <1>1, <1>2
<1>7. g[l + 1] = E(l + 1)
  BY <1>1, <1>2
<1>4. Image(d, 0) = <<>>
  BY DEF Image
<1> HIDE DEF S
<1>5. Append(f, g[l + 1]) = g /\ Len(f) = l
  BY <1>1, <1>6, AppendFcn, Zenon
<1> QED
  BY <1>3, <1>4, <1>5, <1>7, Zenon DEF f, g, l

-----------------------------------------------------------------------------
(* The steps.                                                              *)

\* The invariant reads the same of the target, and of the host, as before.
SameTg == /\ tg'.at = tg.at /\ tg'.k = tg.k /\ tg'.b = tg.b /\ tg'.cdb = tg.cdb
          /\ tg'.buf = tg.buf /\ tg'.sec = tg.sec /\ tg'.st = tg.st

SameHost == /\ h'.at = h.at /\ h'.cmd = h.cmd /\ h'.n = h.n /\ h'.k = h.k /\ h'.sent = h.sent
            /\ h'.got = h.got /\ h'.stat = h.stat /\ h'.failed = h.failed

\* A step that the invariant does not see.
LEMMA QuietStep ==
  ASSUME Inv, Fields', SameTg, SameHost, h'.clean = h.clean, rst'.pin => rst.pin,
         tg'.w = tg.w \/ (tg.w = "irq" /\ tg'.w = "on"), UNCHANGED <<reg, sense, disc>>
  PROVE  Inv'
<1>1. Waiting' = Waiting /\ Acked' = Acked /\ More' = More /\ Free' = Free /\ Starting' = Starting
  BY DEF SameTg, SameHost, Waiting, Acked, More, Free, Starting
<1>2. BusInv'
  BY Zenon DEF Inv, BusInv, SameTg
<1>3. CountInv'
  BY Zenon DEF Inv, CountInv, SameTg, SameHost
<1>4. InStep' = InStep
  BY <1>1, Zenon DEF InStep, SameTg, SameHost
<1>5. CleanInv'
  BY <1>1, <1>4, Zenon DEF Inv, InStepInv, CleanInv, SameTg, SameHost
<1>6. StartInv' /\ DataInv'
  BY <1>1, Zenon DEF Inv, InStepInv, StartInv, DataInv, SameTg, SameHost
<1>7. WriteInv'
  BY <1>1 DEF Inv, InStepInv, WriteInv, SameTg, SameHost, BusInv
<1>8. ReadInv'
  BY <1>1, Zenon DEF Inv, InStepInv, ReadInv, SameTg, SameHost, BusInv
<1>9. StatusInv'
  BY <1>1, Zenon DEF Inv, InStepInv, StatusInv, ToldHost, SameTg, SameHost
<1> QED
  BY <1>2, <1>3, <1>5, <1>6, <1>7, <1>8, <1>9, Zenon DEF Inv, InStepInv

\* Nothing is said of a host that was late or reset.
LEMMA OutOfStep ==
  ASSUME ~h'.clean PROVE InStepInv'
  BY Zenon DEF InStepInv, CleanInv, StartInv, DataInv, WriteInv, ReadInv, StatusInv

\* The host stalls, goes on, enables the interrupt or is reset.
LEMMA WorldStep ==
  ASSUME Inv, World PROVE Inv'
<1>1. CASE \E on \in BOOLEAN : hd_emulator_IRQ(on)
  <2>1. UNCHANGED <<reg, rst, tg, sense, disc, h>>
    BY <1>1, Zenon DEF hd_emulator_IRQ
  <2> QED
    BY <2>1, QuietStep, Zenon DEF Inv, Fields, SameTg, SameHost
<1>2. CASE Stall \/ Resume
  <2>1. UNCHANGED <<reg, rst, tg, sense, disc>>
    BY <1>2, Zenon DEF Stall, Resume
  <2>2. SameHost /\ DOMAIN h' = HostF /\ h'.clean = h.clean
    BY <1>2, Zenon DEF Stall, Resume, Inv, Fields, SameHost, HostF
  <2> QED
    BY <2>1, <2>2, QuietStep, Zenon DEF Inv, Fields, SameTg
<1>3. CASE Break
  <2>1. UNCHANGED <<reg, tg>>
    BY <1>3, Zenon DEF Break
  <2>2. DOMAIN h' = HostF /\ ~h'.clean /\ h'.n = h.n /\ h'.cmd = h.cmd
    BY <1>3, Zenon DEF Break, Inv, Fields, HostF
  <2>3. DOMAIN rst' = {"pin", "old"}
    BY <1>3, Zenon DEF Break, Inv, Fields
  <2>4. Fields' /\ BusInv' /\ CountInv'
    BY <2>1, <2>2, <2>3, Zenon DEF Inv, Fields, BusInv, CountInv
  <2> QED
    BY <2>2, <2>4, OutOfStep, Zenon DEF Inv
<1>4. CASE Release
  <2>1. UNCHANGED <<reg, tg, sense, disc, h>>
    BY <1>4, Zenon DEF Release
  <2>2. ~rst'.pin /\ DOMAIN rst' = {"pin", "old"}
    BY <1>4, Zenon DEF Release, Inv, Fields
  <2> QED
    BY <2>1, <2>2, QuietStep, Zenon DEF Inv, Fields, SameTg, SameHost
<1> QED
  BY <1>1, <1>2, <1>3, <1>4, Zenon DEF World

\* The host selects the target.
LEMMA SelectStep ==
  ASSUME Inv, NEW c \in Commands, hd_emulator_nSEL(c) PROVE Inv'
<1>1. UNCHANGED <<rst, tg, sense, disc>> /\ ~rst.pin /\ ~reg.bsy
  BY Zenon DEF hd_emulator_nSEL
<1>2. /\ DOMAIN reg' = RegF
      /\ reg'.sel = TRUE /\ reg'.req = reg.req /\ reg'.bsy = reg.bsy /\ reg'.ph = reg.ph
  BY Zenon DEF hd_emulator_nSEL, Inv, Fields, RegF
<1>3. /\ DOMAIN h' = HostF
      /\ h'.at = "talk" /\ h'.cmd = c /\ h'.n = h.n + 1 /\ h'.k = 0 /\ h'.sent = 0
      /\ h'.got = <<>> /\ h'.stat = Junk
  BY Zenon DEF hd_emulator_nSEL, Inv, Fields, HostF
<1>4. h'.failed => h.clean /\ h.stat = CHECK /\ h.cmd[1] \in WithSense
  BY Zenon DEF hd_emulator_nSEL, Inv, Fields, HostF, WithSense
<1>5. Free /\ ~reg.req /\ tg.w = "off"
  BY <1>1, Zenon DEF Inv, BusInv, Free, Handshake
<1>6. Free' /\ tg'.w = "off"
  BY <1>1, <1>5, Zenon DEF Free
<1>7. Fields' /\ BusInv'
  BY <1>1, <1>2, <1>3, <1>5, Zenon DEF Inv, Fields, BusInv, Free
<1>8. CountInv'
  <2>1. h.n \in Nat
    BY Zenon DEF Inv, CountInv
  <2>2. h'.n \in Nat
    BY <1>3, <2>1
  <2>3. h'.cmd \in Nat \X Nat
    BY <1>3, ConstantsOK, Zenon DEF ConstantsOK
  <2>4. tg.k = 0 /\ tg.b = 0 /\ tg.buf = <<>> /\ tg.sec = <<>>
    <3>1. tg.at \notin {"blkin", "blkout"}
      BY <1>5 DEF Free
    <3>2. QED
      BY <3>1, Zenon DEF Inv, CountInv
  <2>5. QED
    BY <1>1, <2>2, <2>3, <2>4, Zenon DEF CountInv
<1>9. CleanInv'
  BY <1>2, <1>3, <1>6, Zenon DEF CleanInv
<1>10. h'.failed => sense' # NO_ERROR
  BY <1>1, <1>4 DEF Inv, InStepInv, StatusInv, ToldHost, Told, Junk, CHECK, OK
<1>11. StartInv'
  BY <1>3, <1>10, Zenon DEF StartInv
<1>12. DataInv' /\ WriteInv' /\ ReadInv' /\ StatusInv'
  BY <1>3, <1>6, Zenon DEF Free, DataInv, WriteInv, ReadInv, StatusInv
<1> QED
  BY <1>7, <1>8, <1>9, <1>11, <1>12, Zenon DEF Inv, InStepInv

\* A host in step that finds REQ is in the phase of the target's place.
LEMMA HostInPhase ==
  ASSUME Inv, HostReady, h.clean
  PROVE  /\ Waiting /\ ~Acked /\ ~Free /\ reg.ph = Phase(tg.at) /\ tg.at \in Handshake
         /\ reg.ph = "cmd" => tg.at = "cmd"
         /\ reg.ph = "out" => tg.at = "blkout"
         /\ reg.ph = "in" => tg.at \in {"in", "blkin"}
         /\ reg.ph = "status" => tg.at = "status"
         /\ reg.ph = "msg" => tg.at = "msg"
<1>1. ~Free
  BY Zenon DEF HostReady, Inv, InStepInv, CleanInv, BusInv
<1>2. Waiting /\ ~Acked
  BY <1>1, Zenon DEF HostReady, Inv, InStepInv, CleanInv, Acked
<1>3. reg.ph = Phase(tg.at) /\ tg.at \in Handshake
  BY <1>2, Zenon DEF Inv, BusInv, Waiting
<1> QED
  BY <1>1, <1>2, <1>3, PhaseOf, Zenon DEF Handshake

\* The host writes a byte.
LEMMA WriteStep ==
  ASSUME Inv, hd_emulator_write_data PROVE Inv'
<1>1. UNCHANGED <<rst, tg, sense, disc>> /\ HostReady
  BY Zenon DEF hd_emulator_write_data
<1>2. /\ DOMAIN reg' = RegF
      /\ reg'.sel = reg.sel /\ reg'.req = reg.req /\ reg'.bsy = reg.bsy /\ reg'.ph = reg.ph
      /\ reg'.ack = TRUE
  BY Zenon DEF hd_emulator_write_data, HostWrites, Inv, Fields, RegF
<1>3. /\ DOMAIN h' = HostF
      /\ h'.at = h.at /\ h'.cmd = h.cmd /\ h'.n = h.n /\ h'.got = h.got /\ h'.stat = h.stat
      /\ h'.clean = h.clean /\ h'.failed = h.failed
  BY Zenon DEF hd_emulator_write_data, HostWrites, Inv, Fields, HostF
<1>4. Fields' /\ BusInv' /\ CountInv'
  BY <1>1, <1>2, <1>3, Zenon DEF Inv, Fields, BusInv, CountInv
<1>5. CASE ~h.clean
  BY <1>3, <1>4, <1>5, OutOfStep, Zenon DEF Inv
<1>6. CASE h.clean
  <2>1. Waiting /\ ~Acked /\ ~Free
    BY <1>1, <1>6, HostInPhase, Zenon
  <2>2. Waiting' /\ Acked' /\ ~Free'
    BY <1>1, <1>2, <2>1, Zenon DEF Waiting, Acked, Free
  <2>3. CASE reg.ph = "cmd"
    <3>1. tg.at = "cmd"
      BY <1>1, <1>6, <2>3, HostInPhase, Zenon
    <3>2. h.k < 2 /\ h'.k = h.k + 1 /\ h'.sent = h.sent /\ reg'.data = h.cmd[h.k + 1]
      BY <1>1, <2>3, Zenon
         DEF hd_emulator_write_data, HostWrites, HostReady, Expected, CdbLen, Inv, Fields,
         RegF, HostF
    <3>3. h.k \in {0, 1} /\ tg.cdb = Prefix(h.cmd, h.k)
      BY <1>6, <2>1, <3>1, Zenon DEF Inv, InStepInv, CleanInv, InStep
    <3>4. h'.k \in {1, 2} /\ h'.k - 1 = h.k
      BY <3>2, <3>3
    <3>5. InStep'
      BY <1>1, <1>3, <2>2, <3>2, <3>3, <3>4, Zenon DEF InStep
    <3>6. CleanInv'
      BY <1>1, <1>2, <1>3, <1>6, <2>1, <2>2, <3>1, <3>5, Zenon DEF Inv, InStepInv, CleanInv
    <3>7. StartInv' /\ DataInv' /\ WriteInv' /\ ReadInv' /\ StatusInv'
      BY <1>1, <1>3, <1>6, <2>1, <2>2, <3>1, <3>2, Zenon
      DEF Inv, InStepInv, StartInv, Starting, DataInv, WriteInv, ReadInv, StatusInv
    <3> QED
      BY <1>4, <3>6, <3>7, Zenon DEF Inv, InStepInv
  <2>4. CASE reg.ph = "out"
    <3>1. tg.at = "blkout"
      BY <1>1, <1>6, <2>4, HostInPhase, Zenon
    <3>2. /\ h'.sent = h.sent + 1
          /\ reg'.data = Sent(h.n, h.sent \div BlockLen, (h.sent % BlockLen) + 1)
      BY <1>1, <2>4, Zenon DEF hd_emulator_write_data, HostWrites, Inv, Fields, RegF, HostF
    <3>3. CleanInv'
      BY <1>1, <1>2, <1>3, <1>6, <2>1, <2>2, <3>1, Zenon DEF Inv, InStepInv, CleanInv
    <3>4. StartInv' /\ DataInv' /\ ReadInv' /\ StatusInv'
      BY <1>1, <1>3, <1>6, <2>1, <2>2, <3>1, Zenon
      DEF Inv, InStepInv, StartInv, Starting, DataInv, WriteInv, ReadInv, StatusInv
    <3>5. /\ tg.b \in Nat /\ tg.k \in Nat /\ tg.k < BlockLen
          /\ h.sent = tg.b * BlockLen + tg.k
      <4>1. More = 0 /\ tg.w # "sector"
        BY <2>1, Zenon DEF More, Waiting
      <4> QED
        BY <1>6, <3>1, <4>1, ConstantsOK DEF Inv, InStepInv, WriteInv
    <3>6. reg'.data = Sent(h.n, tg.b, tg.k + 1)
      BY <3>2, <3>5, BytePlace, Zenon
    <3>7. h'.sent = tg.b * BlockLen + tg.k + More'
      BY <2>2, <3>2, <3>5, Zenon DEF More
    <3>8. WriteInv'
      BY <1>1, <1>3, <1>6, <2>2, <3>1, <3>6, <3>7, Zenon DEF Inv, InStepInv, WriteInv
    <3> QED
      BY <1>4, <3>3, <3>4, <3>8, Zenon DEF Inv, InStepInv
  <2> QED
    BY <2>3, <2>4, Zenon DEF hd_emulator_write_data
<1> QED
  BY <1>5, <1>6, Zenon

\* The host reads a byte.
LEMMA ReadStep ==
  ASSUME Inv, hd_emulator_read_data PROVE Inv'
<1>1. UNCHANGED <<rst, tg, sense, disc>> /\ HostReady /\ reg.ph \in {"in", "status", "msg"}
  BY Zenon DEF hd_emulator_read_data
<1>2. /\ DOMAIN reg' = RegF
      /\ reg'.sel = reg.sel /\ reg'.req = reg.req /\ reg'.bsy = reg.bsy /\ reg'.ph = reg.ph
      /\ reg'.ack = TRUE /\ reg'.data = reg.data /\ reg'.bus = reg.bus
  BY Zenon DEF hd_emulator_read_data, Inv, Fields, RegF
<1>3. /\ DOMAIN h' = HostF
      /\ h'.cmd = h.cmd /\ h'.n = h.n /\ h'.k = h.k /\ h'.sent = h.sent
      /\ h'.clean = h.clean /\ h'.failed = h.failed
  BY <1>1, Zenon DEF hd_emulator_read_data, Inv, Fields, HostF
<1>4. Fields' /\ BusInv' /\ CountInv'
  BY <1>1, <1>2, <1>3, Zenon DEF Inv, Fields, BusInv, CountInv
<1>5. CASE ~h.clean
  BY <1>3, <1>4, <1>5, OutOfStep, Zenon DEF Inv
<1>6. CASE h.clean
  <2>1. Waiting /\ ~Acked /\ ~Free
    BY <1>1, <1>6, HostInPhase, Zenon
  <2>2. Waiting' /\ Acked' /\ ~Free' /\ tg'.w = tg.w /\ tg.w # "sector"
    BY <1>1, <1>2, <2>1, Zenon DEF Waiting, Acked, Free
  <2>3. CASE reg.ph = "in"
    <3>1. tg.at \in {"in", "blkin"}
      BY <1>1, <1>6, <2>3, HostInPhase, Zenon
    <3>2. /\ h'.at = h.at /\ h'.stat = h.stat
          /\ h'.got = IF Len(h.got) < MaxBlocks * BlockLen THEN Append(h.got, reg.bus) ELSE h.got
      BY <2>3, Zenon DEF hd_emulator_read_data, Inv, Fields, HostF
    <3>3. CleanInv'
      BY <1>1, <1>2, <1>3, <1>6, <2>1, <2>2, <3>1, Zenon DEF Inv, InStepInv, CleanInv
    <3>4. StartInv' /\ WriteInv' /\ StatusInv'
      BY <1>1, <1>3, <1>6, <2>1, <2>2, <3>1, <3>2, Zenon
      DEF Inv, InStepInv, StartInv, Starting, DataInv, WriteInv, ReadInv, StatusInv
    <3>5. DataInv'
      <4>1. CASE tg.at = "in" /\ h.cmd[1] = REQUESTSENSE /\ h.failed
        <5>1. h.got = <<>> /\ reg.bus = sense
          BY <1>6, <2>1, <4>1, Zenon DEF Inv, InStepInv, DataInv
        <5>2. 0 < MaxBlocks * BlockLen
          BY ConstantsOK
        <5>3. h'.got = <<sense>>
          BY <3>2, <5>1, <5>2
        <5> QED
          BY <1>1, <1>2, <1>3, <1>6, <2>2, <3>2, <4>1, <5>1, <5>3, Zenon DEF Inv, InStepInv, DataInv
      <4>2. CASE ~(tg.at = "in" /\ h.cmd[1] = REQUESTSENSE /\ h.failed)
        BY <1>1, <1>3, <1>6, <3>2, <4>2, Zenon DEF Inv, InStepInv, DataInv
      <4> QED
        BY <4>1, <4>2, Zenon
    <3>6. ReadInv'
      <4>1. CASE tg.at = "blkin"
        <5>1. /\ tg.b \in Nat /\ tg.b < NumberOfBlocks(h.cmd[2]) /\ tg.k \in Nat /\ tg.k < BlockLen
              /\ h.got = Image(disc.img, tg.b * BlockLen + tg.k + More)
              /\ reg.bus = disc.img[tg.b][tg.k + 1]
          BY <1>6, <2>1, <4>1, Zenon DEF Inv, InStepInv, ReadInv
        <5>2. tg.b * BlockLen + tg.k \in Nat /\ More = 0 /\ More' = 1
          BY <5>1, <2>1, <2>2, BytePlace, Zenon DEF More
        <5>3. h.got = Image(disc.img, tg.b * BlockLen + tg.k)
          BY <5>1, <5>2
        <5>4. tg.b < MaxBlocks
          BY <5>1, HostCount, ConstantsOK DEF Inv
        <5>5. Len(h.got) < MaxBlocks * BlockLen
          BY <5>1, <5>3, <5>4, Room, ImageStep
        <5>6. h'.got = Image(disc.img, tg.b * BlockLen + tg.k + More')
          <6>1. h'.got = Append(Image(disc.img, tg.b * BlockLen + tg.k), disc.img[tg.b][tg.k + 1])
            BY <3>2, <5>1, <5>3, <5>5, Zenon
          <6>2. h'.got = Image(disc.img, tg.b * BlockLen + tg.k + 1)
            BY <6>1, <5>1, ImageStep, Zenon
          <6> QED
            BY <6>2, <5>2, Zenon
        <5> QED
          BY <1>1, <1>2, <1>3, <1>6, <2>1, <2>2, <3>2, <4>1, <5>6, Zenon DEF Inv, InStepInv, ReadInv
      <4>2. CASE tg.at # "blkin"
        BY <1>1, <4>2, Zenon DEF ReadInv
      <4> QED
        BY <4>1, <4>2, Zenon
    <3> QED
      BY <1>4, <3>3, <3>4, <3>5, <3>6, Zenon DEF Inv, InStepInv
  <2>4. CASE reg.ph = "status"
    <3>1. tg.at = "status"
      BY <1>1, <1>6, <2>4, HostInPhase, Zenon
    <3>2. h'.at = h.at /\ h'.got = h.got /\ h'.stat = reg.bus
      BY <2>4, Zenon DEF hd_emulator_read_data, Inv, Fields, HostF
    <3>3. CleanInv'
      BY <1>1, <1>2, <1>3, <1>6, <2>1, <2>2, <3>1, Zenon DEF Inv, InStepInv, CleanInv
    <3>4. StartInv' /\ DataInv' /\ WriteInv' /\ ReadInv'
      BY <1>1, <2>2, <3>1, Zenon DEF StartInv, Starting, DataInv, WriteInv, ReadInv
    <3>5. reg.bus = tg.st /\ ToldHost(tg.st)
      BY <1>6, <2>1, <3>1, Zenon DEF Inv, InStepInv, StatusInv
    <3>6. ToldHost(tg.st)'
      BY <1>1, <1>3, <3>2, <3>5, Zenon DEF ToldHost
    <3>7. ToldHost(h.stat)'
      BY <1>1, <3>2, <3>5, <3>6, Zenon DEF ToldHost
    <3>8. StatusInv'
      BY <1>1, <1>2, <2>2, <3>5, <3>6, <3>7, Zenon DEF StatusInv
    <3> QED
      BY <1>4, <3>3, <3>4, <3>8, Zenon DEF Inv, InStepInv
  <2>5. CASE reg.ph = "msg"
    <3>1. tg.at = "msg"
      BY <1>1, <1>6, <2>5, HostInPhase, Zenon
    <3>2. h'.at = "idle" /\ h'.got = h.got /\ h'.stat = h.stat
      BY <2>5, Zenon DEF hd_emulator_read_data, Inv, Fields, HostF
    <3>3. CleanInv'
      BY <1>1, <1>2, <1>3, <1>6, <2>1, <2>2, <3>1, <3>2, Zenon DEF Inv, InStepInv, CleanInv
    <3>4. StartInv' /\ DataInv' /\ WriteInv' /\ ReadInv'
      BY <1>1, <2>2, <3>1, Zenon DEF StartInv, Starting, DataInv, WriteInv, ReadInv
    <3>5. StatusInv'
      BY <1>1, <1>3, <1>6, <3>1, <3>2, Zenon DEF Inv, InStepInv, StatusInv, ToldHost
    <3> QED
      BY <1>4, <3>3, <3>4, <3>5, Zenon DEF Inv, InStepInv
  <2> QED
    BY <1>1, <2>3, <2>4, <2>5, Zenon
<1> QED
  BY <1>5, <1>6, Zenon

\* The host selects the target, writes a byte or reads one.
LEMMA HostStep ==
  ASSUME Inv, Host PROVE Inv'
  BY SelectStep, WriteStep, ReadStep, Zenon DEF Host

-----------------------------------------------------------------------------
(* The main loop.                                                          *)

\* A reset, or no reset.
LEMMA KernelStep ==
  ASSUME Inv, kernel_main PROVE Inv'
<1>1. UNCHANGED <<disc, h>>
  BY Zenon DEF kernel_main
<1>2. DOMAIN rst' = {"pin", "old"} /\ rst'.pin = rst.pin
  BY Zenon DEF kernel_main, Inv, Fields
<1>3. CASE rst.pin /\ ~rst.old
  <2>1. harddisc_emulator_init
    BY <1>3, Zenon DEF kernel_main
  <2>2. /\ DOMAIN reg' = RegF
        /\ ~reg'.sel /\ ~reg'.req /\ ~reg'.bsy
    BY <2>1, Zenon DEF harddisc_emulator_init, ResetSignals, Inv, Fields, RegF
  <2>3. PICK at \in {"free0", "free1"} : tg' = Goto(tg, at)
    BY <2>1, Zenon DEF harddisc_emulator_init
  <2>4. /\ DOMAIN tg' = TgF /\ tg'.at = at /\ tg'.w = "off" /\ tg'.k = 0 /\ tg'.b = 0
        /\ tg'.buf = <<>> /\ tg'.sec = <<>>
    BY <2>3, GotoFields DEF Inv, Fields
  <2>5. Fields' /\ BusInv' /\ CountInv'
    BY <1>1, <1>2, <2>2, <2>3, <2>4, Zenon DEF Inv, Fields, BusInv, CountInv, Places
  <2>6. ~h'.clean
    BY <1>1, <1>3, Zenon DEF Inv, CountInv
  <2> QED
    BY <2>5, <2>6, OutOfStep, Zenon DEF Inv
<1>4. CASE ~(rst.pin /\ ~rst.old)
  <2>1. tg' = [tg EXCEPT !.turn = "poll"] /\ UNCHANGED <<reg, sense>>
    BY <1>4, Zenon DEF kernel_main
  <2>2. DOMAIN tg' = TgF /\ SameTg /\ tg'.w = tg.w
    BY <2>1, Zenon DEF Inv, Fields, TgF, SameTg
  <2>3. Fields' /\ SameHost
    BY <1>1, <1>2, <2>1, <2>2, Zenon DEF Inv, Fields, SameHost
  <2> QED
    BY <1>1, <1>2, <2>1, <2>2, <2>3, QuietStep, Zenon
<1> QED
  BY <1>3, <1>4, Zenon

\* BUS FREE, with and without a selection.
LEMMA BusFreeStep ==
  ASSUME Inv, scsiEmulationBusFree PROVE Inv'
<1>1. UNCHANGED <<rst, sense, disc, h>> /\ Free /\ tg.w = "off"
  BY Zenon DEF scsiEmulationBusFree, Free, At, Between
<1>2. CASE reg.sel
  <2>1. ~reg.bsy /\ ~reg.req
    BY <1>2, Zenon DEF Inv, BusInv
  <2>2. /\ reg' = [reg EXCEPT !.ph = "out", !.req = (tg.at = "free1" /\ @),
                             !.bsy = TRUE, !.sel = FALSE]
        /\ tg' = [Goto(tg, "cmd") EXCEPT !.cdb = <<>>]
    BY <1>2, Zenon DEF scsiEmulationBusFree
  <2>3. DOMAIN reg' = RegF /\ ~reg'.req /\ reg'.bsy = TRUE /\ reg'.sel = FALSE
    BY <2>1, <2>2, Zenon DEF Inv, Fields, RegF
  <2>4. /\ DOMAIN tg' = TgF /\ tg'.at = "cmd" /\ tg'.w = "off" /\ tg'.k = 0 /\ tg'.b = 0
        /\ tg'.buf = <<>> /\ tg'.sec = <<>> /\ tg'.cdb = <<>>
    BY <2>2, Zenon DEF Goto, Inv, Fields, TgF
  <2>5. Fields' /\ BusInv' /\ CountInv'
    BY <1>1, <2>3, <2>4, Zenon DEF Inv, Fields, BusInv, CountInv, Places
  <2>6. ~Waiting' /\ ~Acked' /\ ~Free'
    BY <2>4, Zenon DEF Waiting, Acked, Free
  <2>7. h.clean => h.at = "talk" /\ h.k = 0
    BY <1>1, <1>2, Zenon DEF Inv, InStepInv, CleanInv
  <2>8. CleanInv'
    BY <1>1, <2>3, <2>4, <2>6, <2>7, Zenon DEF CleanInv, InStep, Prefix
  <2>9. StartInv' /\ DataInv' /\ WriteInv' /\ ReadInv' /\ StatusInv'
    BY <1>1, <2>4, <2>7, Zenon
       DEF Inv, InStepInv, StartInv, Starting, DataInv, WriteInv, ReadInv, StatusInv
  <2> QED
    BY <2>5, <2>8, <2>9, Zenon DEF Inv, InStepInv
<1>3. CASE ~reg.sel
  <2>1. /\ reg' = IF tg.at = "free1" THEN reg
                  ELSE [reg EXCEPT !.ph = "out", !.req = FALSE, !.bsy = FALSE]
        /\ tg' = Goto(tg, "free1")
    BY <1>3, Zenon DEF scsiEmulationBusFree
  <2>2. DOMAIN reg' = RegF /\ ~reg'.req /\ ~reg'.bsy /\ ~reg'.sel
    BY <1>1, <1>3, <2>1, Zenon DEF Inv, Fields, RegF, BusInv, Free
  <2>3. /\ DOMAIN tg' = TgF /\ tg'.at = "free1" /\ tg'.w = "off" /\ tg'.k = 0 /\ tg'.b = 0
        /\ tg'.buf = <<>> /\ tg'.sec = <<>>
    BY <2>1, GotoFields DEF Inv, Fields
  <2>4. Fields' /\ BusInv' /\ CountInv'
    BY <1>1, <2>2, <2>3, Zenon DEF Inv, Fields, BusInv, CountInv, Places
  <2>5. h.clean => h.at = "idle"
    BY <1>1, <1>3, Zenon DEF Inv, InStepInv, CleanInv
  <2>6. CleanInv' /\ StartInv' /\ DataInv' /\ WriteInv' /\ ReadInv'
    BY <1>1, <2>2, <2>3, <2>5, Zenon
       DEF CleanInv, Free, StartInv, Starting, DataInv, WriteInv, ReadInv
  <2>7. StatusInv'
    BY <1>1, <2>3, Zenon DEF Inv, InStepInv, StatusInv, ToldHost
  <2> QED
    BY <2>4, <2>6, <2>7, Zenon DEF Inv, InStepInv
<1> QED
  BY <1>2, <1>3, Zenon

\* The phase lines of COMMAND, STATUS and MESSAGE.
LEMMA PhaseStep ==
  ASSUME Inv, NEW at \in {"cmd", "status", "msg"}, scsiInformationTransferPhase(at) PROVE Inv'
<1>1. UNCHANGED <<rst, sense, disc, h>> /\ tg.w = "off" /\ tg.at = at
  BY Zenon DEF scsiInformationTransferPhase, At, Between
<1>2. /\ DOMAIN reg' = RegF /\ reg'.ph = Phase(at)
      /\ reg'.sel = reg.sel /\ reg'.req = reg.req /\ reg'.bsy = reg.bsy
  BY Zenon DEF scsiInformationTransferPhase, Inv, Fields, RegF
<1>3. DOMAIN tg' = TgF /\ tg'.w = "set" /\ SameTg
  BY Zenon DEF scsiInformationTransferPhase, Inv, Fields, TgF, SameTg
<1>4. ~Waiting /\ ~Acked /\ ~Waiting' /\ ~Acked'
  BY <1>1, <1>3, Zenon DEF Waiting, Acked
<1>5. ~Free /\ ~Free'
  BY <1>1, <1>3, Zenon DEF Free, SameTg
<1>6. Fields' /\ BusInv' /\ CountInv'
  BY <1>1, <1>2, <1>3, Zenon DEF Inv, Fields, BusInv, CountInv, SameTg, Handshake
<1>7. CleanInv'
  BY <1>1, <1>2, <1>3, <1>4, <1>5, Zenon DEF Inv, InStepInv, CleanInv, InStep, SameTg
<1>8. StartInv' /\ DataInv' /\ WriteInv' /\ ReadInv'
  BY <1>1, <1>3, <1>5, Zenon
     DEF Inv, InStepInv, StartInv, Starting, DataInv, WriteInv, ReadInv, SameTg
<1>9. StatusInv'
  BY <1>1, <1>3, <1>4, Zenon DEF Inv, InStepInv, StatusInv, ToldHost, SameTg
<1> QED
  BY <1>6, <1>7, <1>8, <1>9, Zenon DEF Inv, InStepInv

\* A byte on the bus, HD_ACK cleared, and REQ.
LEMMA RequestStep ==
  ASSUME Inv, hostadapterWriteRequestFlag PROVE Inv'
<1>1. UNCHANGED <<rst, sense, disc, h>> /\ tg.w = "set"
  BY Zenon DEF hostadapterWriteRequestFlag
<1>2. /\ DOMAIN reg' = RegF /\ reg'.ack = FALSE /\ reg'.req = TRUE
      /\ reg'.sel = reg.sel /\ reg'.bsy = reg.bsy /\ reg'.ph = reg.ph
      /\ tg.at \in {"in", "blkin", "status"} => reg'.bus = ByteOut
  BY Zenon DEF hostadapterWriteRequestFlag, Inv, Fields, RegF
<1>3. DOMAIN tg' = TgF /\ tg'.w \in {"irq", "on"} /\ SameTg
  BY Zenon DEF hostadapterWriteRequestFlag, Inv, Fields, TgF, SameTg
<1>4. ~Waiting /\ ~Acked /\ Waiting' /\ ~Acked' /\ More = 0 /\ More' = 0
  BY <1>1, <1>2, <1>3, Zenon DEF Waiting, Acked, More
<1>5. tg.at \in Handshake /\ ~Free /\ ~Free' /\ reg.bsy
  BY <1>1, <1>3, Zenon DEF Inv, BusInv, Free, Handshake, SameTg
<1>6. Fields' /\ BusInv' /\ CountInv'
  BY <1>1, <1>2, <1>3, <1>5, Zenon DEF Inv, Fields, BusInv, CountInv, SameTg
<1>7. CleanInv'
  BY <1>1, <1>2, <1>3, <1>4, <1>5, Zenon DEF Inv, InStepInv, CleanInv, InStep, SameTg
<1>8. StartInv'
  BY <1>1, <1>3, <1>5, Zenon DEF Inv, InStepInv, StartInv, Starting, SameTg
<1>9. DataInv'
  <2>1. h.clean /\ tg.at = "in" => tg.cdb = h.cmd
    BY <1>5, Zenon DEF Inv, InStepInv, CleanInv
  <2>2. h.clean /\ tg.at = "in" /\ h.cmd[1] = REQUESTSENSE => reg'.bus = sense
    BY <1>2, <2>1, Zenon DEF ByteOut
  <2> QED
    BY <1>1, <1>3, <1>4, <2>2, Zenon DEF Inv, InStepInv, DataInv, SameTg
<1>10. WriteInv'
  BY <1>1, <1>3, <1>4, Zenon DEF Inv, InStepInv, WriteInv, SameTg
<1>11. ReadInv'
  <2>1. tg.at = "blkin" => reg'.bus = tg.buf[tg.k + 1]
    BY <1>2, Zenon DEF ByteOut
  <2> QED
    BY <1>1, <1>3, <1>4, <2>1, Zenon DEF Inv, InStepInv, ReadInv, SameTg
<1>12. StatusInv'
  <2>1. tg.at = "status" => reg'.bus = tg.st
    BY <1>2, Zenon DEF ByteOut
  <2> QED
    BY <1>1, <1>3, <1>4, <2>1, Zenon DEF Inv, InStepInv, StatusInv, ToldHost, SameTg
<1> QED
  BY <1>6, <1>7, <1>8, <1>9, <1>10, <1>11, <1>12, Zenon DEF Inv, InStepInv

\* The interrupt of a REQ.
LEMMA InterruptStep ==
  ASSUME Inv, hd_emulator_set_IRQ PROVE Inv'
<1>1. UNCHANGED <<reg, rst, sense, disc, h>> /\ tg.w = "irq"
  BY Zenon DEF hd_emulator_set_IRQ
<1>2. DOMAIN tg' = TgF /\ tg'.w = "on" /\ SameTg
  BY Zenon DEF hd_emulator_set_IRQ, Inv, Fields, TgF, SameTg
<1>3. Fields' /\ SameHost
  BY <1>1, <1>2, Zenon DEF Inv, Fields, SameHost
<1> QED
  BY <1>1, <1>2, <1>3, QuietStep, Zenon

-----------------------------------------------------------------------------
(* The waits for ACK, and the ends of a command.                           *)

\* After a wait a host in step has acknowledged the byte.
LEMMA WaitEnds ==
  ASSUME Inv, NEW acked \in BOOLEAN, hd_wait_ack(acked)
  PROVE  /\ DOMAIN h' = HostF /\ SameHost /\ tg.w = "on" /\ Waiting
         /\ h'.clean => h.clean /\ acked /\ Acked
<1>1. tg.w = "on" /\ Waiting
  BY Zenon DEF hd_wait_ack, Waiting
<1>2. CASE acked
  BY <1>1, <1>2, Zenon DEF hd_wait_ack, Inv, Fields, SameHost, CountInv, Acked
<1>3. CASE ~acked
  <2>1. h' = [h EXCEPT !.clean = FALSE]
    BY <1>3, Zenon DEF hd_wait_ack
  <2> QED
    BY <1>1, <2>1, Zenon DEF Inv, Fields, HostF, SameHost
<1> QED
  BY <1>2, <1>3, Zenon

\* What DropReq leaves alone when a wait ends.
LEMMA DropFields ==
  ASSUME Inv, DropReq
  PROVE  /\ DOMAIN reg' = RegF /\ ~reg'.req /\ reg'.sel = reg.sel /\ reg'.bsy = reg.bsy
         /\ reg'.ph = reg.ph /\ reg'.data = reg.data /\ reg'.ack = reg.ack
  BY Zenon DEF Inv, Fields, RegF, DropReq

\* A command ends with its status.
LEMMA FinishStep ==
  ASSUME Inv, NEW st, Finish(st), ~Free, tg.at # "cmd", DOMAIN reg' = RegF, DOMAIN h' = HostF,
         reg'.sel = reg.sel, reg'.bsy = reg.bsy, SameHost, UNCHANGED rst,
         h'.clean => h.clean /\ ~reg'.req /\ h.stat = Junk /\ ToldHost(st)'
  PROVE  Inv'
<1>1. /\ DOMAIN tg' = TgF /\ tg'.at = "status" /\ tg'.w = "off" /\ tg'.k = 0 /\ tg'.b = 0
      /\ tg'.buf = <<>> /\ tg'.sec = <<>> /\ tg'.cdb = tg.cdb /\ tg'.st = st
  BY Zenon DEF Finish, Goto, Inv, Fields, TgF
<1>2. ~Free' /\ ~Waiting' /\ ~Acked'
  BY <1>1, Zenon DEF Free, Waiting, Acked
<1>3. Fields' /\ BusInv' /\ CountInv'
  BY <1>1, Zenon DEF Inv, Fields, BusInv, CountInv, Places, Free, SameHost
<1>4. CleanInv'
  BY <1>1, <1>2, Zenon DEF Inv, InStepInv, CleanInv, SameHost
<1>5. StartInv' /\ DataInv' /\ WriteInv' /\ ReadInv'
  BY <1>1, <1>2, Zenon DEF StartInv, Starting, DataInv, WriteInv, ReadInv
<1>6. StatusInv'
  BY <1>1, <1>2, Zenon DEF StatusInv, ToldHost, SameHost
<1> QED
  BY <1>3, <1>4, <1>5, <1>6, Zenon DEF Inv, InStepInv

\* RST gives a transfer up.
LEMMA GiveUpStep ==
  ASSUME Inv, rst.pin, ~Free, tg' = Goto(tg, "free0"), DOMAIN reg' = RegF, DOMAIN h' = HostF,
         reg'.sel = reg.sel, reg'.bsy = reg.bsy, SameHost, UNCHANGED rst, h'.clean => h.clean
  PROVE  Inv'
<1>1. /\ DOMAIN tg' = TgF /\ tg'.at = "free0" /\ tg'.w = "off" /\ tg'.k = 0 /\ tg'.b = 0
      /\ tg'.buf = <<>> /\ tg'.sec = <<>>
  BY GotoFields DEF Inv, Fields
<1>2. ~h'.clean
  BY Zenon DEF Inv, CountInv
<1>3. Fields' /\ BusInv' /\ CountInv'
  BY <1>1, <1>2, Zenon DEF Inv, Fields, BusInv, CountInv, Places, Free, SameHost
<1> QED
  BY <1>2, <1>3, OutOfStep, Zenon DEF Inv

\* A byte of the command block; after the last one the command is decoded.
LEMMA CommandStep ==
  ASSUME Inv, NEW acked \in BOOLEAN, scsiEmulationCommand(acked) PROVE Inv'
<1>1. UNCHANGED <<rst, sense, disc>> /\ hd_wait_ack(acked) /\ DropReq /\ tg.at = "cmd"
  BY Zenon DEF scsiEmulationCommand
<1>2. /\ DOMAIN h' = HostF /\ SameHost /\ tg.w = "on" /\ Waiting
      /\ h'.clean => h.clean /\ acked /\ Acked
  BY <1>1, WaitEnds, Zenon
<1>3. /\ DOMAIN reg' = RegF /\ ~reg'.req /\ reg'.sel = reg.sel /\ reg'.bsy = reg.bsy
      /\ reg'.ph = reg.ph /\ reg'.data = reg.data /\ reg'.ack = reg.ack
  BY <1>1, DropFields, Zenon
<1>4. ~Free /\ reg.bsy /\ reg.ph = "cmd" /\ tg.k = 0 /\ tg.b = 0 /\ tg.buf = <<>> /\ tg.sec = <<>>
  BY <1>1, <1>2, PhaseOf, Zenon DEF Inv, BusInv, CountInv, Free
<1> DEFINE t == [tg EXCEPT !.w = "set", !.cdb = Append(@, reg.data)]
<1>5. tg' = IF Len(t.cdb) = CdbLen THEN Decode(t) ELSE t
  BY Zenon DEF scsiEmulationCommand
<1>6. /\ DOMAIN t = TgF /\ t.cdb = Append(tg.cdb, reg.data) /\ t.at = "cmd" /\ t.w = "set"
      /\ t.k = 0 /\ t.b = 0 /\ t.buf = <<>> /\ t.sec = <<>>
  BY <1>1, <1>4, Zenon DEF Inv, Fields, TgF
<1> HIDE DEF t
\* What a host in step has sent.
<1>7. ASSUME h'.clean
      PROVE  /\ h.k \in {1, 2} /\ t.cdb = Prefix(h.cmd, h.k) /\ Len(t.cdb) = h.k
             /\ h.k = 2 => t.cdb = h.cmd
             /\ h.stat = Junk /\ ~reg.sel
  <2>1. h.k \in {1, 2} /\ tg.cdb = Prefix(h.cmd, h.k - 1) /\ reg.data = h.cmd[h.k] /\ ~reg.sel
    BY <1>1, <1>2, <1>4, <1>7, Zenon DEF Inv, InStepInv, CleanInv, InStep
  <2>2. h.cmd \in Nat \X Nat
    BY Zenon DEF Inv, CountInv
  <2>3. h.stat = Junk
    BY <1>1, <1>2, <1>7, Zenon DEF Inv, InStepInv, StartInv, Starting
  <2>4. CASE h.k = 1
    BY <1>6, <2>1, <2>2, <2>3, <2>4, PrefixStep
  <2>5. CASE h.k = 2
    BY <1>6, <2>1, <2>2, <2>3, <2>5, PrefixStep
  <2> QED
    BY <2>1, <2>4, <2>5, Zenon
<1>8. CASE Len(t.cdb) # CdbLen
  <2>1. tg' = t
    BY <1>5, <1>8, Zenon
  <2>2. Fields' /\ BusInv' /\ CountInv'
    BY <1>1, <1>2, <1>3, <1>4, <1>6, <2>1, PhaseOf
       DEF Inv, Fields, BusInv, CountInv, SameHost, Handshake, Places
  <2>3. ~Free' /\ ~Waiting' /\ ~Acked'
    BY <1>6, <2>1, Zenon DEF Free, Waiting, Acked
  <2>4. CleanInv'
    BY <1>2, <1>3, <1>6, <1>7, <1>8, <2>1, <2>3, Zenon DEF CleanInv, InStep, SameHost, CdbLen
  <2>5. StartInv' /\ DataInv' /\ WriteInv' /\ ReadInv' /\ StatusInv'
    BY <1>1, <1>2, <1>6, <1>7, <2>1, <2>3, Zenon
    DEF Inv, InStepInv, StartInv, Starting, DataInv, WriteInv, ReadInv, StatusInv, SameHost
  <2> QED
    BY <2>2, <2>4, <2>5, Zenon DEF Inv, InStepInv
<1>9. CASE Len(t.cdb) = CdbLen /\ t.cdb[1] \in Decoded
  <2>1. tg' = Goto(t, "exec")
    BY <1>5, <1>9, Zenon DEF Decode
  <2>2. /\ DOMAIN tg' = TgF /\ tg'.at = "exec" /\ tg'.w = "off" /\ tg'.k = 0 /\ tg'.b = 0
        /\ tg'.buf = <<>> /\ tg'.sec = <<>> /\ tg'.cdb = t.cdb
    BY <1>6, <2>1, GotoFields
  <2>3. Fields' /\ BusInv' /\ CountInv'
    BY <1>1, <1>2, <1>3, <1>4, <2>2, Zenon DEF Inv, Fields, BusInv, CountInv, SameHost, Places
  <2>4. ~Free' /\ ~Waiting' /\ ~Acked'
    BY <2>2, Zenon DEF Free, Waiting, Acked
  <2>5. CleanInv'
    BY <1>2, <1>3, <1>7, <1>9, <2>2, <2>4, Zenon DEF CleanInv, SameHost, CdbLen
  <2>6. StartInv' /\ DataInv' /\ WriteInv' /\ ReadInv' /\ StatusInv'
    BY <1>1, <1>2, <1>7, <2>2, <2>4, Zenon
    DEF Inv, InStepInv, StartInv, Starting, DataInv, WriteInv, ReadInv, StatusInv, SameHost
  <2> QED
    BY <2>3, <2>5, <2>6, Zenon DEF Inv, InStepInv
<1>10. CASE Len(t.cdb) = CdbLen /\ t.cdb[1] \notin Decoded
  <2>1. tg' = Goto([t EXCEPT !.st = CHECK], "status")
    BY <1>5, <1>10, Zenon DEF Decode
  <2>2. /\ DOMAIN tg' = TgF /\ tg'.at = "status" /\ tg'.w = "off" /\ tg'.k = 0 /\ tg'.b = 0
        /\ tg'.buf = <<>> /\ tg'.sec = <<>> /\ tg'.cdb = t.cdb /\ tg'.st = CHECK
    BY <1>6, <2>1, Zenon DEF Goto, TgF
  <2>3. Fields' /\ BusInv' /\ CountInv'
    BY <1>1, <1>2, <1>3, <1>4, <2>2, Zenon DEF Inv, Fields, BusInv, CountInv, SameHost, Places
  <2>4. ~Free' /\ ~Waiting' /\ ~Acked'
    BY <2>2, Zenon DEF Free, Waiting, Acked
  <2>5. CleanInv'
    BY <1>2, <1>3, <1>7, <1>10, <2>2, <2>4, Zenon DEF CleanInv, SameHost, CdbLen
  <2>6. h'.clean => ToldHost(CHECK)'
    BY <1>2, <1>7, <1>10, Zenon DEF ToldHost, Told, SameHost, CdbLen, Decoded, WithSense, CHECK, OK
  <2>7. StartInv' /\ DataInv' /\ WriteInv' /\ ReadInv'
    BY <2>2, <2>4, Zenon DEF StartInv, Starting, DataInv, WriteInv, ReadInv
  <2>8. StatusInv'
    BY <1>2, <1>7, <2>2, <2>4, <2>6, Zenon DEF StatusInv, ToldHost, SameHost
  <2> QED
    BY <2>3, <2>5, <2>7, <2>8, Zenon DEF Inv, InStepInv
<1> QED
  BY <1>8, <1>9, <1>10, Zenon

\* STATUS, then MESSAGE.
LEMMA StatusStep ==
  ASSUME Inv, NEW acked \in BOOLEAN, scsiEmulationStatus(acked) PROVE Inv'
<1>1. UNCHANGED <<rst, sense, disc>> /\ hd_wait_ack(acked) /\ DropReq /\ tg.at = "status"
  BY Zenon DEF scsiEmulationStatus
<1>2. DOMAIN h' = HostF /\ SameHost /\ (h'.clean => h.clean)
  BY <1>1, WaitEnds, Zenon
<1>3. DOMAIN reg' = RegF /\ ~reg'.req /\ reg'.sel = reg.sel /\ reg'.bsy = reg.bsy
  BY <1>1, DropFields, Zenon
<1>4. tg' = Goto(tg, "msg")
  BY Zenon DEF scsiEmulationStatus
<1>5. /\ DOMAIN tg' = TgF /\ tg'.at = "msg" /\ tg'.w = "off" /\ tg'.k = 0 /\ tg'.b = 0
      /\ tg'.buf = <<>> /\ tg'.sec = <<>> /\ tg'.cdb = tg.cdb
  BY <1>4, GotoFields DEF Inv, Fields
<1>6. ~Free /\ ~Free' /\ ~Waiting' /\ ~Acked'
  BY <1>1, <1>5, Zenon DEF Free, Waiting, Acked
<1>7. Fields' /\ BusInv' /\ CountInv'
  BY <1>1, <1>2, <1>3, <1>5, Zenon DEF Inv, Fields, BusInv, CountInv, Places, SameHost
<1>8. CleanInv'
  BY <1>1, <1>2, <1>3, <1>5, <1>6, Zenon DEF Inv, InStepInv, CleanInv, SameHost
<1>9. StartInv' /\ DataInv' /\ WriteInv' /\ ReadInv'
  BY <1>5, <1>6, Zenon DEF StartInv, Starting, DataInv, WriteInv, ReadInv
<1>10. StatusInv'
  BY <1>1, <1>2, <1>5, Zenon DEF Inv, InStepInv, StatusInv, ToldHost, SameHost
<1> QED
  BY <1>7, <1>8, <1>9, <1>10, Zenon DEF Inv, InStepInv

\* MESSAGE, then BUS FREE.
LEMMA MessageStep ==
  ASSUME Inv, NEW acked \in BOOLEAN, scsiEmulationMessage(acked) PROVE Inv'
<1>1. UNCHANGED <<rst, sense, disc>> /\ hd_wait_ack(acked) /\ DropReq /\ tg.at = "msg"
  BY Zenon DEF scsiEmulationMessage
<1>2. DOMAIN h' = HostF /\ SameHost /\ (h'.clean => h.clean /\ Acked)
  BY <1>1, WaitEnds, Zenon
<1>3. DOMAIN reg' = RegF /\ ~reg'.req /\ reg'.sel = reg.sel /\ reg'.bsy = reg.bsy
  BY <1>1, DropFields, Zenon
<1>4. tg' = Goto([tg EXCEPT !.cdb = <<>>], "free0")
  BY Zenon DEF scsiEmulationMessage
<1>5. /\ DOMAIN tg' = TgF /\ tg'.at = "free0" /\ tg'.w = "off" /\ tg'.k = 0 /\ tg'.b = 0
      /\ tg'.buf = <<>> /\ tg'.sec = <<>>
  BY <1>4, GotoFields, SetFields DEF Inv, Fields
<1>6. ~Free /\ Free' /\ ~Waiting' /\ ~Acked'
  BY <1>1, <1>5, Zenon DEF Free, Waiting, Acked
<1>7. Fields' /\ BusInv' /\ CountInv'
  BY <1>1, <1>2, <1>3, <1>5, Zenon DEF Inv, Fields, BusInv, CountInv, Places, SameHost
<1>8. h'.clean => h'.at = "idle" /\ ~reg'.sel
  BY <1>1, <1>2, <1>3, <1>6, Zenon DEF Inv, InStepInv, CleanInv, SameHost
<1>9. CleanInv' /\ StartInv' /\ DataInv' /\ WriteInv' /\ ReadInv'
  BY <1>5, <1>6, <1>8, Zenon DEF CleanInv, StartInv, Starting, DataInv, WriteInv, ReadInv
<1>10. StatusInv'
  BY <1>1, <1>2, <1>5, Zenon DEF Inv, InStepInv, StatusInv, ToldHost, SameHost
<1> QED
  BY <1>7, <1>9, <1>10, Zenon DEF Inv, InStepInv

-----------------------------------------------------------------------------
(* The commands.                                                           *)

\* Where a command starts to run.
LEMMA AtExec ==
  ASSUME Inv, At("exec")
  PROVE  /\ tg.at = "exec" /\ tg.w = "off" /\ ~Free /\ ~Waiting /\ reg.bsy
         /\ tg.k = 0 /\ tg.b = 0 /\ tg.buf = <<>> /\ tg.sec = <<>>
         /\ h.clean => /\ tg.cdb = h.cmd /\ ~reg.req /\ ~reg.sel
                       /\ h.stat = Junk /\ h.sent = 0 /\ h.got = <<>>
                       /\ h.failed => sense # NO_ERROR
<1>1. tg.at = "exec" /\ tg.w = "off" /\ ~Free /\ ~Waiting
  BY Zenon DEF At, Between, Free, Waiting
<1>2. reg.bsy /\ tg.k = 0 /\ tg.b = 0 /\ tg.buf = <<>> /\ tg.sec = <<>>
  BY <1>1, Zenon DEF Inv, BusInv, CountInv
<1>3. h.clean => tg.cdb = h.cmd /\ ~reg.req /\ ~reg.sel
  BY <1>1, Zenon DEF Inv, InStepInv, CleanInv
<1>4. h.clean => /\ h.stat = Junk /\ h.sent = 0 /\ h.got = <<>>
                 /\ h.failed => sense # NO_ERROR
  BY <1>1, Zenon DEF Inv, InStepInv, StartInv, Starting
<1> QED
  BY <1>1, <1>2, <1>3, <1>4, Zenon

\* A command that ends without data.
LEMMA EndsStep ==
  ASSUME Inv, At("exec"), NEW st, Finish(st), DOMAIN reg' = RegF,
         reg'.sel = reg.sel, reg'.bsy = reg.bsy, reg'.req = reg.req, UNCHANGED <<rst, h>>,
         h.clean => ToldHost(st)'
  PROVE  Inv'
<1>1. SameHost /\ DOMAIN h' = HostF
  BY Zenon DEF SameHost, Inv, Fields
<1>2. ~Free /\ tg.at # "cmd" /\ (h.clean => ~reg.req /\ h.stat = Junk)
  BY AtExec, Zenon
<1>3. h'.clean => h.clean /\ ~reg'.req /\ h.stat = Junk /\ ToldHost(st)'
  BY <1>2, Zenon
<1> QED
  BY <1>1, <1>2, <1>3, FinishStep, Zenon

\* A status that says nothing.
LEMMA ToldOk ==
  ASSUME UNCHANGED h, h.cmd[1] \notin {WRITE6, READ6, REQUESTSENSE} PROVE ToldHost(OK)'
  BY DEF ToldHost, Told, OK, CHECK

\* A command may fail: CHECK CONDITION with sense data is true.
LEMMA ToldCheck ==
  ASSUME sense' # NO_ERROR PROVE ToldHost(CHECK)'
  BY DEF ToldHost, Told, OK, CHECK

\* scsiCommandTestUnitReady, scsiCommandRezeroUnit and scsiCommandSeek.
LEMMA TestUnitStep ==
  ASSUME Inv, scsiCommandTestUnitReady PROVE Inv'
<1>1. UNCHANGED <<reg, rst, disc, h>> /\ At("exec")
        /\ tg.cdb[1] \in {TESTUNITREADY, REZEROUNIT, SEEK}
  BY Zenon DEF scsiCommandTestUnitReady, Op
<1>2. h.clean => tg.cdb = h.cmd
  BY <1>1, AtExec, Zenon
<1>3. DOMAIN reg' = RegF
  BY <1>1, Zenon DEF Inv, Fields
<1>4. CASE Succeed
  <2>1. h.clean => ToldHost(OK)'
    BY <1>1, <1>2, ToldOk DEF TESTUNITREADY, REZEROUNIT, SEEK, WRITE6, READ6, REQUESTSENSE
  <2> QED
    BY <1>1, <1>3, <1>4, <2>1, EndsStep, Zenon DEF Succeed
<1>5. CASE Finish(CHECK) /\ sense' # NO_ERROR
  BY <1>1, <1>3, <1>5, ToldCheck, EndsStep, Zenon
<1> QED
  BY <1>4, <1>5 DEF scsiCommandTestUnitReady, Fail, DRIVE_NOT_READY, UNIT_NOT_READY, NO_ERROR

\* scsiCommandVerify.
LEMMA VerifyStep ==
  ASSUME Inv, scsiCommandVerify PROVE Inv'
<1>1. UNCHANGED <<reg, rst, disc, h>> /\ At("exec") /\ tg.cdb[1] = VERIFY
  BY Zenon DEF scsiCommandVerify, Op
<1>2. h.clean => h.cmd[1] = VERIFY
  BY <1>1, AtExec, Zenon
<1>3. DOMAIN reg' = RegF
  BY <1>1, Zenon DEF Inv, Fields
<1>4. h.clean => ToldHost(OK)' /\ ToldHost(CHECK)'
  BY <1>1, <1>2
  DEF ToldHost, Told, OK, CHECK, VERIFY, WRITE6, READ6, REQUESTSENSE, WithSense, TESTUNITREADY,
     SEEK, STARTSTOP
<1>5. PICK st \in {OK, CHECK} : Finish(st)
  BY Zenon DEF scsiCommandVerify, Succeed, Fail
<1> QED
  BY <1>1, <1>3, <1>4, <1>5, EndsStep, Zenon

\* scsiCommandStartStop.
LEMMA StartStopStep ==
  ASSUME Inv, scsiCommandStartStop PROVE Inv'
<1>1. UNCHANGED <<reg, rst, disc, h>> /\ At("exec") /\ tg.cdb[1] = STARTSTOP
  BY Zenon DEF scsiCommandStartStop, Op
<1>2. h.clean => h.cmd[1] = STARTSTOP
  BY <1>1, AtExec, Zenon
<1>3. DOMAIN reg' = RegF
  BY <1>1, Zenon DEF Inv, Fields
<1>4. CASE Succeed
  <2>1. h.clean => ToldHost(OK)'
    BY <1>1, <1>2, ToldOk DEF STARTSTOP, WRITE6, READ6, REQUESTSENSE
  <2> QED
    BY <1>1, <1>3, <1>4, <2>1, EndsStep, Zenon DEF Succeed
<1>5. CASE Finish(CHECK) /\ sense' # NO_ERROR
  BY <1>1, <1>3, <1>5, ToldCheck, EndsStep, Zenon
<1> QED
  BY <1>4, <1>5 DEF scsiCommandStartStop, Fail, BAD_ARG, NO_ERROR

\* The first data byte of REQUEST SENSE and of READ CAPACITY.
LEMMA SendByteStep ==
  ASSUME Inv, At("exec"), SendByte, tg.cdb[1] \in {REQUESTSENSE, READCAPACITY},
         UNCHANGED <<rst, sense, disc, h>>
  PROVE  Inv'
<1>1. /\ tg.at = "exec" /\ tg.w = "off" /\ ~Free /\ ~Waiting /\ reg.bsy
      /\ tg.k = 0 /\ tg.b = 0 /\ tg.buf = <<>> /\ tg.sec = <<>>
      /\ h.clean => /\ tg.cdb = h.cmd /\ ~reg.req /\ ~reg.sel
                    /\ h.stat = Junk /\ h.sent = 0 /\ h.got = <<>>
                    /\ h.failed => sense # NO_ERROR
  BY AtExec, Zenon
<1>2. /\ DOMAIN reg' = RegF /\ reg'.ph = "in"
      /\ reg'.sel = reg.sel /\ reg'.req = reg.req /\ reg'.bsy = reg.bsy
  BY Zenon DEF SendByte, Inv, Fields, RegF
<1>3. /\ DOMAIN tg' = TgF /\ tg'.at = "in" /\ tg'.w = "set" /\ tg'.cdb = tg.cdb
      /\ tg'.k = 0 /\ tg'.b = 0 /\ tg'.buf = <<>> /\ tg'.sec = <<>>
  BY <1>1, Zenon DEF SendByte, Inv, Fields, TgF
<1>4. ~Free' /\ ~Waiting' /\ ~Acked'
  BY <1>3, Zenon DEF Free, Waiting, Acked
<1>5. Fields' /\ BusInv' /\ CountInv'
  BY <1>1, <1>2, <1>3, PhaseOf, Zenon DEF Inv, Fields, BusInv, CountInv, Places, Handshake
<1>6. CleanInv'
  BY <1>1, <1>2, <1>3, <1>4, Zenon DEF CleanInv
<1>7. StartInv' /\ DataInv' /\ WriteInv' /\ ReadInv' /\ StatusInv'
  BY <1>1, <1>3, <1>4, Zenon DEF StartInv, Starting, DataInv, WriteInv, ReadInv, StatusInv
<1> QED
  BY <1>5, <1>6, <1>7, Zenon DEF Inv, InStepInv

\* scsiCommandReadCapacity.
LEMMA ReadCapacityStep ==
  ASSUME Inv, scsiCommandReadCapacity PROVE Inv'
<1>1. UNCHANGED <<rst, disc, h>> /\ At("exec") /\ tg.cdb[1] = READCAPACITY
  BY Zenon DEF scsiCommandReadCapacity, Op
<1>2. CASE SendByte /\ UNCHANGED sense
  BY <1>1, <1>2, SendByteStep, Zenon
<1>3. CASE Finish(CHECK) /\ UNCHANGED reg
  <2>1. h.clean => h.cmd[1] = READCAPACITY
    BY <1>1, AtExec, Zenon
  <2>2. h.clean => ToldHost(CHECK)'
    BY <1>1, <2>1
       DEF ToldHost, Told, OK, CHECK, READCAPACITY, WithSense, WRITE6, READ6, TESTUNITREADY,
       SEEK, STARTSTOP
  <2>3. DOMAIN reg' = RegF
    BY <1>3, Zenon DEF Inv, Fields
  <2> QED
    BY <1>1, <1>3, <2>2, <2>3, EndsStep, Zenon
<1> QED
  BY <1>2, <1>3, Zenon DEF scsiCommandReadCapacity, Fail

\* scsiCommandRequestSense: a host that saw its command fail reads why.
LEMMA RequestSenseStep ==
  ASSUME Inv, scsiCommandRequestSense PROVE Inv'
  BY SendByteStep, Zenon DEF scsiCommandRequestSense, Op

\* The data byte is sent, and the sense data cleared.
LEMMA WriteByteStep ==
  ASSUME Inv, NEW acked \in BOOLEAN, hostadapterWriteByte(acked) PROVE Inv'
<1>1. /\ UNCHANGED <<rst, disc>> /\ hd_wait_ack(acked) /\ DropReq /\ tg.at = "in" /\ Finish(OK)
      /\ sense' = IF Op = REQUESTSENSE THEN NO_ERROR ELSE sense
  BY Zenon DEF hostadapterWriteByte
<1>2. /\ DOMAIN h' = HostF /\ SameHost
      /\ h'.clean => h.clean /\ Acked
  BY <1>1, WaitEnds, Zenon
<1>3. DOMAIN reg' = RegF /\ ~reg'.req /\ reg'.sel = reg.sel /\ reg'.bsy = reg.bsy
  BY <1>1, DropFields, Zenon
<1>4. ~Free
  BY <1>1, Zenon DEF Free
<1>5. h'.clean => /\ h.stat = Junk /\ h.cmd[1] \in {REQUESTSENSE, READCAPACITY}
                  /\ h.cmd[1] = REQUESTSENSE /\ h.failed => sense # NO_ERROR /\ h.got = <<sense>>
  BY <1>1, <1>2, Zenon DEF Inv, InStepInv, DataInv
<1>6. sense # NO_ERROR => <<sense>> # <<NO_ERROR>>
  BY Zenon
<1>7. h'.clean => ToldHost(OK)'
  BY <1>2, <1>5, <1>6
     DEF ToldHost, Told, SameHost, OK, CHECK, REQUESTSENSE, READCAPACITY, WRITE6, READ6
<1> QED
  BY <1>1, <1>2, <1>3, <1>4, <1>5, <1>7, FinishStep, Zenon

\* READ6 and WRITE6 that could not open the image.
LEMMA NotOpened ==
  ASSUME Inv, At("exec"), NEW ph, NEW code, Finish(CHECK), sense' = code, code # NO_ERROR,
         reg' = reg \/ reg' = [reg EXCEPT !.ph = ph], UNCHANGED <<rst, h>>
  PROVE  Inv'
<1>1. DOMAIN reg' = RegF /\ reg'.sel = reg.sel /\ reg'.bsy = reg.bsy /\ reg'.req = reg.req
  BY Zenon DEF Inv, Fields, RegF
<1> QED
  BY <1>1, ToldCheck, EndsStep, Zenon

\* READ6 and WRITE6 open the image, or answer CHECK CONDITION.
LEMMA OpenFails ==
  ASSUME Inv, At("exec"), NEW ph, NEW t, OpenLun(ph, t)
  PROVE  \/ Inv'
         \/ reg' = [reg EXCEPT !.ph = ph] /\ tg' = t /\ UNCHANGED <<rst, sense, disc, h>>
<1>1. CASE Fail(BAD_FORMAT) /\ UNCHANGED reg /\ UNCHANGED <<rst, h>>
  BY <1>1, NotOpened DEF Fail, BAD_FORMAT, NO_ERROR
<1>2. CASE Fail(DRIVE_NOT_READY) /\ reg' = [reg EXCEPT !.ph = ph] /\ UNCHANGED <<rst, h>>
  BY <1>2, NotOpened DEF Fail, DRIVE_NOT_READY, NO_ERROR
<1> QED
  BY <1>1, <1>2, Zenon DEF OpenLun

\* READ6 starts.
LEMMA Read6Step ==
  ASSUME Inv, scsiCommandRead6 PROVE Inv'
<1> DEFINE t == [tg EXCEPT !.at = "blkin", !.w = "sector"]
<1>1. At("exec") /\ tg.cdb[1] = READ6 /\ OpenLun("in", t)
  BY Zenon DEF scsiCommandRead6, Op
<1>2. SUFFICES ASSUME reg' = [reg EXCEPT !.ph = "in"], tg' = t, UNCHANGED <<rst, sense, disc, h>>
               PROVE  Inv'
  <2> HIDE DEF t
  <2> QED
    BY <1>1, OpenFails, Zenon
<1>3. /\ tg.at = "exec" /\ tg.w = "off" /\ ~Free /\ ~Waiting /\ reg.bsy
      /\ tg.k = 0 /\ tg.b = 0 /\ tg.buf = <<>> /\ tg.sec = <<>>
      /\ h.clean => /\ tg.cdb = h.cmd /\ ~reg.req /\ ~reg.sel
                    /\ h.stat = Junk /\ h.sent = 0 /\ h.got = <<>>
  BY <1>1, AtExec, Zenon
<1>4. /\ DOMAIN reg' = RegF /\ reg'.ph = "in"
      /\ reg'.sel = reg.sel /\ reg'.req = reg.req /\ reg'.bsy = reg.bsy
  BY <1>2, Zenon DEF Inv, Fields, RegF
<1>5. /\ DOMAIN tg' = TgF /\ tg'.at = "blkin" /\ tg'.w = "sector" /\ tg'.cdb = tg.cdb
      /\ tg'.k = 0 /\ tg'.b = 0 /\ tg'.sec = <<>>
  BY <1>2, <1>3, Zenon DEF Inv, Fields, TgF
<1>6. ~Free' /\ ~Waiting' /\ ~Acked' /\ More' = 0
  BY <1>5, Zenon DEF Free, Waiting, Acked, More
<1>7. Fields' /\ BusInv' /\ CountInv'
  BY <1>2, <1>3, <1>4, <1>5, PhaseOf, Zenon DEF Inv, Fields, BusInv, CountInv, Places, Handshake
<1>8. CleanInv'
  BY <1>2, <1>3, <1>4, <1>5, <1>6, Zenon DEF CleanInv
<1>9. StartInv' /\ DataInv' /\ WriteInv' /\ StatusInv'
  BY <1>2, <1>3, <1>5, <1>6, Zenon DEF StartInv, Starting, DataInv, WriteInv, StatusInv
<1>10. 0 < NumberOfBlocks(h.cmd[2])
  BY HostCount DEF Inv
<1>11. Image(disc.img, tg'.b * BlockLen + tg'.k + More') = <<>>
  <2>1. tg'.b * BlockLen + tg'.k + More' = 0
    BY <1>5, <1>6, ConstantsOK
  <2>2. Image(disc.img, 0) = <<>>
    BY DEF Image
  <2> QED
    BY <2>1, <2>2, Zenon
<1>12. ReadAhead(<<>>, disc.img, tg'.b - 1)
  <2>1. Following(disc.img, tg'.b - 1, 0) = <<>>
    BY DEF Following
  <2> QED
    BY <2>1, Zenon DEF ReadAhead
<1>13. ReadInv'
  BY <1>1, <1>2, <1>3, <1>5, <1>6, <1>10, <1>11, <1>12, ConstantsOK DEF ReadInv
<1> QED
  BY <1>7, <1>8, <1>9, <1>13, Zenon DEF Inv, InStepInv

\* WRITE6 starts.
LEMMA Write6Step ==
  ASSUME Inv, scsiCommandWrite6 PROVE Inv'
<1> DEFINE t == [tg EXCEPT !.at = "blkout", !.w = "set"]
<1>1. At("exec") /\ tg.cdb[1] = WRITE6 /\ OpenLun("out", t)
  BY Zenon DEF scsiCommandWrite6, Op
<1>2. SUFFICES ASSUME reg' = [reg EXCEPT !.ph = "out"], tg' = t, UNCHANGED <<rst, sense, disc, h>>
               PROVE  Inv'
  <2> HIDE DEF t
  <2> QED
    BY <1>1, OpenFails, Zenon
<1>3. /\ tg.at = "exec" /\ tg.w = "off" /\ ~Free /\ ~Waiting /\ reg.bsy
      /\ tg.k = 0 /\ tg.b = 0 /\ tg.buf = <<>> /\ tg.sec = <<>>
      /\ h.clean => /\ tg.cdb = h.cmd /\ ~reg.req /\ ~reg.sel
                    /\ h.stat = Junk /\ h.sent = 0 /\ h.got = <<>>
  BY <1>1, AtExec, Zenon
<1>4. /\ DOMAIN reg' = RegF /\ reg'.ph = "out"
      /\ reg'.sel = reg.sel /\ reg'.req = reg.req /\ reg'.bsy = reg.bsy
  BY <1>2, Zenon DEF Inv, Fields, RegF
<1>5. /\ DOMAIN tg' = TgF /\ tg'.at = "blkout" /\ tg'.w = "set" /\ tg'.cdb = tg.cdb
      /\ tg'.k = 0 /\ tg'.b = 0 /\ tg'.buf = <<>> /\ tg'.sec = <<>>
  BY <1>2, <1>3, Zenon DEF Inv, Fields, TgF
<1>6. ~Free' /\ ~Waiting' /\ ~Acked' /\ More' = 0
  BY <1>5, Zenon DEF Free, Waiting, Acked, More
<1>7. Fields' /\ BusInv' /\ CountInv'
  BY <1>2, <1>3, <1>4, <1>5, PhaseOf, Zenon DEF Inv, Fields, BusInv, CountInv, Places, Handshake
<1>8. CleanInv'
  BY <1>2, <1>3, <1>4, <1>5, <1>6, Zenon DEF CleanInv
<1>9. StartInv' /\ DataInv' /\ ReadInv' /\ StatusInv'
  BY <1>2, <1>3, <1>5, <1>6, Zenon DEF StartInv, Starting, DataInv, ReadInv, StatusInv
<1>10. 0 < NumberOfBlocks(h.cmd[2]) /\ h.n \in Nat
  BY HostCount DEF Inv, CountInv
<1>11. 0 * BlockLen + 0 + 0 = 0 /\ 0 < BlockLen
  BY ConstantsOK
<1>12. <<>> = Received(h.n, 0, 0)
  BY <1>10, ReceivedStep, Zenon
<1>13. WrittenOrStaged(<<>>, disc.img, h.n, 0)
  <2>1. <<>> = Staged(h.n, 0, 0)
    BY <1>10, StagedStep, Zenon
  <2>2. Written(disc.img, h.n, 0 - 0)
    BY DEF Written
  <2>3. 0 \in 0 .. 0
    OBVIOUS
  <2> QED
    BY <2>1, <2>2, <2>3, Zenon DEF WrittenOrStaged
<1>14. WriteInv'
  BY <1>1, <1>2, <1>3, <1>5, <1>6, <1>10, <1>11, <1>12, <1>13 DEF WriteInv
<1> QED
  BY <1>7, <1>8, <1>9, <1>14, Zenon DEF Inv, InStepInv

\* A read error inside a transfer, or a write error.
LEMMA CardFails ==
  ASSUME Inv, tg.at \in {"blkin", "blkout"}, tg.w = "sector", Fail(DRIVE_NOT_READY),
         UNCHANGED <<reg, rst, h>>
  PROVE  Inv'
<1>1. SameHost /\ DOMAIN h' = HostF /\ DOMAIN reg' = RegF
  BY Zenon DEF SameHost, Inv, Fields
<1>2. ~Free /\ ~Waiting /\ tg.at # "cmd"
  BY Zenon DEF Free, Waiting
<1>3. h.clean => ~reg.req /\ h.stat = Junk
  BY <1>2, Zenon DEF Inv, InStepInv, CleanInv, WriteInv, ReadInv
<1>4. ToldHost(CHECK)' /\ Finish(CHECK)
  BY ToldCheck DEF Fail, DRIVE_NOT_READY, NO_ERROR
<1> QED
  BY <1>1, <1>2, <1>3, <1>4, FinishStep, Zenon

-----------------------------------------------------------------------------
(* The transfers.                                                          *)

\* Where the target is inside a transfer, and stays.
LEMMA InTransfer ==
  ASSUME Inv, tg.at \in {"blkin", "blkout"}, tg'.at = tg.at, DOMAIN tg' = TgF, tg'.cdb = tg.cdb,
         tg'.w \in {"sector", "set"}, DOMAIN reg' = RegF, reg'.ph = reg.ph, tg.w # "off",
         reg'.sel = reg.sel, reg'.bsy = reg.bsy, DOMAIN h' = HostF, SameHost, UNCHANGED rst,
         h'.clean => h.clean /\ ~reg'.req
  PROVE  /\ Fields' /\ BusInv' /\ CountInv' /\ CleanInv' /\ StartInv' /\ DataInv'
         /\ tg.at = "blkin" => WriteInv'
         /\ tg.at = "blkout" => ReadInv'
         /\ ~Waiting' /\ ~Acked' /\ More' = 0
<1>1. ~Waiting' /\ ~Acked' /\ More' = 0 /\ ~Free /\ ~Free'
  BY Zenon DEF Waiting, Acked, More, Free
<1>2. Fields' /\ BusInv'
  BY <1>1, Zenon DEF Inv, Fields, BusInv, Free
<1>3. CountInv'
  BY Zenon DEF Inv, CountInv, SameHost
<1>4. CleanInv'
  BY <1>1, Zenon DEF Inv, InStepInv, CleanInv, SameHost
<1>5. StartInv' /\ DataInv' /\ (tg.at = "blkin" => WriteInv') /\ (tg.at = "blkout" => ReadInv')
  BY <1>1, Zenon DEF StartInv, Starting, DataInv, WriteInv, ReadInv
<1> QED
  BY <1>1, <1>2, <1>3, <1>4, <1>5, Zenon

\* The next block to send.
LEMMA ReadSectorStep ==
  ASSUME Inv, filesystemReadNextSector PROVE Inv'
<1>1. UNCHANGED <<reg, rst, disc, h>> /\ tg.at = "blkin" /\ tg.w = "sector"
  BY Zenon DEF filesystemReadNextSector
<1>2. CASE Fail(DRIVE_NOT_READY)
  BY <1>1, <1>2, CardFails, Zenon
<1>3. CASE ~Fail(DRIVE_NOT_READY)
  <2>1. /\ DOMAIN tg' = TgF /\ tg'.at = "blkin" /\ tg'.w = "set" /\ tg'.k = 0 /\ tg'.b = tg.b
        /\ tg'.cdb = tg.cdb
    BY <1>1, <1>3, Zenon DEF filesystemReadNextSector, Inv, Fields, TgF
  <2>2. DOMAIN reg' = RegF /\ DOMAIN h' = HostF /\ SameHost
    BY <1>1, Zenon DEF Inv, Fields, SameHost
  <2>3. h.clean => ~reg.req
    BY <1>1, Zenon DEF Inv, InStepInv, CleanInv, Free, Waiting
  <2>4. /\ Fields' /\ BusInv' /\ CountInv' /\ CleanInv' /\ StartInv' /\ DataInv' /\ WriteInv'
        /\ ~Waiting' /\ ~Acked' /\ More' = 0
    BY <1>1, <2>1, <2>2, <2>3, InTransfer, Zenon
  <2>5. CASE ~h.clean
    BY <1>1, <2>4, <2>5, OutOfStep, Zenon DEF Inv
  <2>6. CASE h.clean
    <3>1. /\ h.stat = Junk /\ h.cmd[1] = READ6 /\ tg.b \in Nat /\ tg.b < NumberOfBlocks(h.cmd[2])
          /\ h.got = Image(disc.img, tg.b * BlockLen + tg.k + More) /\ tg.k = 0
          /\ ReadAhead(tg.sec, disc.img, tg.b - 1)
      BY <1>1, <2>6, Zenon DEF Inv, InStepInv, ReadInv
    <3>2. More = 0
      BY <1>1, Zenon DEF More, Acked, Waiting
    <3>3. tg'.buf = disc.img[tg.b] /\ ReadAhead(tg'.sec, disc.img, tg.b)
      <4>1. CASE tg.sec # <<>>
        <5>1. tg'.buf = Head(tg.sec) /\ tg'.sec = Tail(tg.sec)
          BY <1>1, <1>3, <4>1, Zenon DEF filesystemReadNextSector, Inv, Fields, TgF
        <5>2. PICK m \in Nat : tg.sec = Following(disc.img, tg.b - 1, m)
          BY <3>1, Zenon DEF ReadAhead
        <5>3. m # 0
          <6>1. Following(disc.img, tg.b - 1, 0) = <<>>
            BY DEF Following
          <6> QED
            BY <6>1, <4>1, <5>2, Zenon
        <5>4. tg'.buf = disc.img[tg.b] /\ tg'.sec = Following(disc.img, tg.b, m - 1)
          <6>1. tg.b \in Int /\ m \in Nat \ {0}
            BY <3>1, <5>3
          <6>2. /\ Head(Following(disc.img, tg.b - 1, m)) = disc.img[tg.b]
                /\ Tail(Following(disc.img, tg.b - 1, m)) = Following(disc.img, tg.b, m - 1)
            BY <6>1, FollowingStep, Zenon
          <6> QED
            BY <5>1, <5>2, <6>2, Zenon
        <5> QED
          BY <5>3, <5>4 DEF ReadAhead
      <4>2. CASE tg.sec = <<>>
        <5> DEFINE m == IF Count - tg.b < SectorBuffer THEN Count - tg.b ELSE SectorBuffer
        <5>1. tg' = [tg EXCEPT !.w = "set", !.k = 0, !.buf = disc.img[tg.b],
                               !.sec = [i \in 1 .. m - 1 |-> disc.img[tg.b + i]]]
          BY <1>1, <1>3, <4>2, Zenon DEF filesystemReadNextSector
        <5>2. Count = NumberOfBlocks(h.cmd[2])
          BY <1>1, <2>6, Zenon DEF Inv, InStepInv, CleanInv, Free, Count
        <5>3. m - 1 \in Nat
          BY <3>1, <5>2, HostCount, ConstantsOK DEF Inv
        <5> HIDE DEF m
        <5>4. tg'.buf = disc.img[tg.b] /\ tg'.sec = Following(disc.img, tg.b, m - 1)
          BY <5>1, Zenon DEF Following, Inv, Fields, TgF
        <5> QED
          BY <5>3, <5>4, Zenon DEF ReadAhead
      <4> QED
        BY <4>1, <4>2, Zenon
    <3>4. tg'.w # "sector" /\ tg'.w # "off"
      BY <2>1, Zenon
    <3>5. h'.got = Image(disc'.img, tg'.b * BlockLen + tg'.k + More')
      BY <1>1, <2>1, <2>4, <3>1, <3>2, Zenon
    <3>6. ReadInv'
      BY <1>1, <2>1, <2>4, <3>1, <3>3, <3>4, <3>5, ConstantsOK DEF ReadInv
    <3>7. StatusInv'
      BY <1>1, <2>1, <3>1, Zenon DEF StatusInv
    <3> QED
      BY <2>4, <3>6, <3>7, Zenon DEF Inv, InStepInv
  <2> QED
    BY <2>5, <2>6, Zenon
<1> QED
  BY <1>2, <1>3, Zenon

\* A byte of a block to the host.
LEMMA ReadDMAStep ==
  ASSUME Inv, NEW acked \in BOOLEAN, hostadapterPerformReadDMA(acked) PROVE Inv'
<1>1. UNCHANGED <<rst, sense, disc>> /\ hd_wait_ack(acked) /\ tg.at = "blkin"
  BY Zenon DEF hostadapterPerformReadDMA
<1>2. /\ DOMAIN h' = HostF /\ SameHost /\ tg.w = "on" /\ Waiting
      /\ h'.clean => h.clean /\ acked /\ Acked
  BY <1>1, WaitEnds, Zenon
<1>3. /\ DOMAIN reg' = RegF /\ reg'.sel = reg.sel /\ reg'.bsy = reg.bsy /\ reg'.ph = reg.ph
      /\ acked => ~reg'.req
  BY DropFields, Zenon DEF hostadapterPerformReadDMA, Inv, Fields
<1>4. ~Free /\ tg.at # "cmd"
  BY <1>1, Zenon DEF Free
\* What a host in step has read.
<1>5. h'.clean =>
        /\ h.stat = Junk /\ h.cmd[1] = READ6 /\ tg.b \in Nat /\ tg.b < NumberOfBlocks(h.cmd[2])
        /\ tg.k \in Nat /\ tg.k < BlockLen /\ More = 1
        /\ h.got = Image(disc.img, tg.b * BlockLen + tg.k + More)
        /\ tg.buf = disc.img[tg.b] /\ ReadAhead(tg.sec, disc.img, tg.b)
        /\ Count = NumberOfBlocks(h.cmd[2])
  BY <1>1, <1>2, <1>4, Zenon DEF Inv, InStepInv, ReadInv, CleanInv, More, Count
<1>6. CASE acked /\ tg.k + 1 < BlockLen /\ tg' = [tg EXCEPT !.w = "set", !.k = @ + 1]
  <2>1. /\ DOMAIN tg' = TgF /\ tg'.at = "blkin" /\ tg'.w = "set" /\ tg'.k = tg.k + 1
        /\ tg'.b = tg.b /\ tg'.cdb = tg.cdb /\ tg'.buf = tg.buf /\ tg'.sec = tg.sec
    BY <1>1, <1>6, Zenon DEF Inv, Fields, TgF
  <2>2. /\ Fields' /\ BusInv' /\ CountInv' /\ CleanInv' /\ StartInv' /\ DataInv' /\ WriteInv'
        /\ ~Waiting' /\ ~Acked' /\ More' = 0
    BY <1>1, <1>2, <1>3, <1>6, <2>1, InTransfer, Zenon
  <2>3. h'.clean => tg.b * BlockLen + tg.k + More = tg'.b * BlockLen + tg'.k + More'
    BY <1>5, <2>1, <2>2, ConstantsOK
  <2>4. h'.clean => h'.got = Image(disc'.img, tg'.b * BlockLen + tg'.k + More')
    BY <1>1, <1>2, <1>5, <2>3, Zenon DEF SameHost
  <2>5. ReadInv'
    BY <1>1, <1>2, <1>5, <1>6, <2>1, <2>2, <2>4 DEF ReadInv, SameHost
  <2>6. StatusInv'
    BY <1>2, <1>5, <2>1, Zenon DEF StatusInv, SameHost
  <2> QED
    BY <2>2, <2>5, <2>6, Zenon DEF Inv, InStepInv
<1>7. CASE rst.pin /\ tg' = Goto(tg, "free0")
  BY <1>1, <1>2, <1>3, <1>4, <1>7, GiveUpStep, Zenon
<1>8. ASSUME ~acked \/ tg.k + 1 = BlockLen
      PROVE  h'.clean => /\ tg.k + 1 = BlockLen
                         /\ tg.b * BlockLen + tg.k + More = (tg.b + 1) * BlockLen
  BY <1>2, <1>5, <1>8, ConstantsOK
<1>9. CASE /\ ~acked \/ tg.k + 1 = BlockLen
           /\ tg.b + 1 < Count /\ tg' = [tg EXCEPT !.w = "sector", !.k = 0, !.b = @ + 1]
  <2>1. /\ DOMAIN tg' = TgF /\ tg'.at = "blkin" /\ tg'.w = "sector" /\ tg'.k = 0
        /\ tg'.b = tg.b + 1 /\ tg'.cdb = tg.cdb /\ tg'.sec = tg.sec
    BY <1>1, <1>9, Zenon DEF Inv, Fields, TgF
  <2>2. /\ Fields' /\ BusInv' /\ CountInv' /\ CleanInv' /\ StartInv' /\ DataInv' /\ WriteInv'
        /\ ~Waiting' /\ ~Acked' /\ More' = 0
    BY <1>1, <1>2, <1>3, <2>1, InTransfer, Zenon
  <2>3. h'.clean => tg.b * BlockLen + tg.k + More = tg'.b * BlockLen + tg'.k + More'
    <3>1. h'.clean => (tg.b + 1) * BlockLen = (tg.b + 1) * BlockLen + 0 + 0
      BY <1>5, ConstantsOK
    <3> QED
      BY <1>8, <1>9, <2>1, <2>2, <3>1, Zenon
  <2>4. h'.clean => h'.got = Image(disc'.img, tg'.b * BlockLen + tg'.k + More')
    BY <1>1, <1>2, <1>5, <2>3, Zenon DEF SameHost
  <2>5. h'.clean => tg'.b - 1 = tg.b /\ tg'.b \in Nat /\ tg'.b < NumberOfBlocks(h.cmd[2])
    BY <1>5, <1>9, <2>1
  <2>6. ReadInv'
    BY <1>1, <1>2, <1>5, <2>1, <2>2, <2>4, <2>5, ConstantsOK DEF ReadInv, SameHost
  <2>7. StatusInv'
    BY <1>2, <1>5, <2>1, Zenon DEF StatusInv, SameHost
  <2> QED
    BY <2>2, <2>6, <2>7, Zenon DEF Inv, InStepInv
<1>10. CASE /\ ~acked \/ tg.k + 1 = BlockLen
            /\ ~(tg.b + 1 < Count) /\ Finish(OK)
  <2>1. h'.clean => tg.b + 1 = NumberOfBlocks(h.cmd[2])
    BY <1>5, <1>10, HostCount DEF Inv
  <2>2. h'.clean => h'.got = Image(disc'.img, NumberOfBlocks(h.cmd[2]) * BlockLen)
    BY <1>1, <1>2, <1>5, <1>8, <1>10, <2>1, Zenon DEF SameHost
  <2>3. h'.clean => ToldHost(OK)'
    BY <1>2, <1>5, <2>2 DEF ToldHost, Told, SameHost, OK, CHECK, READ6, WRITE6, REQUESTSENSE
  <2> QED
    BY <1>1, <1>2, <1>3, <1>4, <1>5, <1>10, <2>3, FinishStep, Zenon
<1> QED
  BY <1>6, <1>7, <1>9, <1>10, Zenon DEF hostadapterPerformReadDMA, Finish

\* A byte of a block from the host.
LEMMA WriteDMAStep ==
  ASSUME Inv, NEW acked \in BOOLEAN, hostadapterPerformWriteDMA(acked) PROVE Inv'
<1>1. UNCHANGED <<rst, sense, disc>> /\ hd_wait_ack(acked) /\ tg.at = "blkout"
  BY Zenon DEF hostadapterPerformWriteDMA
<1>2. /\ DOMAIN h' = HostF /\ SameHost /\ tg.w = "on" /\ Waiting
      /\ h'.clean => h.clean /\ acked /\ Acked
  BY <1>1, WaitEnds, Zenon
<1>3. /\ DOMAIN reg' = RegF /\ reg'.sel = reg.sel /\ reg'.bsy = reg.bsy /\ reg'.ph = reg.ph
      /\ acked => ~reg'.req
  BY DropFields, Zenon DEF hostadapterPerformWriteDMA, Inv, Fields
<1>4. /\ DOMAIN tg' = TgF /\ tg'.at = "blkout" /\ tg'.w \in {"set", "sector"}
      /\ tg'.cdb = tg.cdb /\ tg'.b = tg.b /\ tg'.sec = tg.sec
  BY <1>1, Zenon DEF hostadapterPerformWriteDMA, Inv, Fields, TgF
<1>5. acked => /\ tg'.w = IF tg.k + 1 < BlockLen THEN "set" ELSE "sector"
               /\ tg'.k = tg.k + 1 /\ tg'.buf = Append(tg.buf, reg.data)
  BY Zenon DEF hostadapterPerformWriteDMA, Inv, Fields, TgF
<1>6. /\ Fields' /\ BusInv' /\ CountInv' /\ CleanInv' /\ StartInv' /\ DataInv' /\ ReadInv'
      /\ ~Waiting' /\ ~Acked' /\ More' = 0
  BY <1>1, <1>2, <1>3, <1>4, InTransfer, Zenon
<1>7. CASE ~h'.clean
  BY <1>6, <1>7, OutOfStep, Zenon DEF Inv
<1>8. CASE h'.clean
  <2>1. /\ h.stat = Junk /\ h.cmd[1] = WRITE6 /\ tg.b \in Nat /\ tg.b < NumberOfBlocks(h.cmd[2])
        /\ tg.k \in Nat /\ tg.k < BlockLen /\ More = 1
        /\ tg.buf = Received(h.n, tg.b, tg.k)
        /\ h.sent = tg.b * BlockLen + tg.k + More
        /\ reg.data = Sent(h.n, tg.b, tg.k + 1)
        /\ ~disc.wp => WrittenOrStaged(tg.sec, disc.img, h.n, tg.b)
    BY <1>1, <1>2, <1>8, Zenon DEF Inv, InStepInv, WriteInv, More
  <2>2. /\ tg'.w = IF tg.k + 1 < BlockLen THEN "set" ELSE "sector"
        /\ tg'.k = tg.k + 1 /\ tg'.buf = Append(tg.buf, reg.data)
    BY <1>2, <1>5, <1>8, Zenon
  <2>3. h.n \in Nat
    BY Zenon DEF Inv, CountInv
  <2>4. tg'.buf = Received(h.n, tg.b, tg.k + 1)
    <3>1. Append(Received(h.n, tg.b, tg.k), Sent(h.n, tg.b, tg.k + 1))
            = Received(h.n, tg.b, tg.k + 1)
      BY <2>1, <2>3, ReceivedStep, Zenon
    <3> QED
      BY <2>1, <2>2, <3>1, Zenon
  <2>5. tg.b * BlockLen + tg.k + 1 = tg.b * BlockLen + (tg.k + 1) + 0
    BY <2>1, ConstantsOK
  <2>6. h'.sent = tg'.b * BlockLen + tg'.k + More'
    BY <1>2, <1>4, <1>6, <2>1, <2>2, <2>5, Zenon DEF SameHost
  <2>7. tg'.k \in Nat /\ IF tg'.w = "sector" THEN tg'.k = BlockLen ELSE tg'.k < BlockLen
    BY <2>1, <2>2, ConstantsOK
  <2>8. WriteInv'
    BY <1>1, <1>2, <1>4, <1>6, <2>1, <2>2, <2>4, <2>6, <2>7, Zenon DEF WriteInv, SameHost
  <2>9. StatusInv'
    BY <1>2, <1>4, <2>1, Zenon DEF StatusInv, SameHost
  <2> QED
    BY <1>6, <2>8, <2>9, Zenon DEF Inv, InStepInv
<1> QED
  BY <1>7, <1>8, Zenon

\* The staged blocks and the one just received are written: image e.
LEMMA FlushWrites ==
  ASSUME NEW d, NEW n \in Nat, NEW b \in Nat, b < MaxBlocks, NEW m \in 0 .. b,
         Written(d, n, b - m), NEW e,
         e = [x \in Blocks |-> IF x \in b - m .. b
                               THEN Staged(n, b + 1, m + 1)[x - b + (m + 1)] ELSE d[x]]
  PROVE  Written(e, n, b + 1)
<1>1. SUFFICES ASSUME NEW y \in 0 .. b PROVE e[y] = Block(n, y)
  BY DEF Written
<1>2. y \in Blocks
  BY ConstantsOK DEF Blocks
<1>3. CASE y \in b - m .. b
  <2>1. y - b + (m + 1) \in 1 .. m + 1 /\ (b + 1) - (m + 1) + (y - b + (m + 1)) - 1 = y
    BY <1>3
  <2>2. Staged(n, b + 1, m + 1)[y - b + (m + 1)] = Block(n, y)
    BY <2>1, Zenon DEF Staged
  <2> QED
    BY <1>2, <1>3, <2>2, Zenon
<1>4. CASE y \notin b - m .. b
  <2>1. y \in 0 .. (b - m) - 1
    BY <1>4
  <2> QED
    BY <1>2, <1>4, <2>1, Zenon DEF Written
<1> QED
  BY <1>3, <1>4, Zenon

\* A block of WRITE6 is complete.
LEMMA WriteSectorStep ==
  ASSUME Inv, filesystemWriteNextSector PROVE Inv'
<1>1. UNCHANGED <<reg, rst, h>> /\ tg.at = "blkout" /\ tg.w = "sector"
  BY Zenon DEF filesystemWriteNextSector
<1>2. ~Free /\ tg.at # "cmd" /\ ~Waiting /\ More = 0
  BY <1>1, Zenon DEF Free, Waiting, More, Acked
<1>3. DOMAIN reg' = RegF /\ DOMAIN h' = HostF /\ SameHost
  BY <1>1, Zenon DEF Inv, Fields, SameHost
<1>4. h.clean => ~reg.req
  BY <1>2, Zenon DEF Inv, InStepInv, CleanInv
<1>5. CASE rst.pin /\ tg' = Goto(tg, "free0")
  BY <1>1, <1>2, <1>3, <1>5, GiveUpStep, Zenon
<1>6. CASE Fail(DRIVE_NOT_READY)
  BY <1>1, <1>6, CardFails, Zenon
<1> DEFINE staged == Append(tg.sec, tg.buf)
           last   == tg.b + 1 = Count
           flush  == FlushDue(staged, last)
           image  == [x \in Blocks |-> IF x \in tg.b - Len(tg.sec) .. tg.b
                                       THEN staged[x - tg.b + Len(staged)] ELSE disc.img[x]]
           card   == IF ~disc.wp /\ flush THEN [img |-> image, wp |-> FALSE] ELSE disc
           sec    == IF disc.wp THEN tg.sec ELSE IF flush THEN <<>> ELSE staged
<1>7. ASSUME h.clean
      PROVE  /\ h.stat = Junk /\ h.cmd[1] = WRITE6 /\ h.n \in Nat
             /\ tg.b \in Nat /\ tg.b < NumberOfBlocks(h.cmd[2])
             /\ Count = NumberOfBlocks(h.cmd[2])
             /\ h.sent = (tg.b + 1) * BlockLen
             /\ ~disc.wp /\ flush => Written(image, h.n, tg.b + 1)
             /\ ~disc.wp /\ ~flush => WrittenOrStaged(staged, disc.img, h.n, tg.b + 1)
  <2>1. /\ h.stat = Junk /\ h.cmd[1] = WRITE6 /\ tg.b \in Nat /\ tg.b < NumberOfBlocks(h.cmd[2])
        /\ tg.k = BlockLen /\ tg.buf = Received(h.n, tg.b, tg.k)
        /\ h.sent = tg.b * BlockLen + tg.k + More
        /\ ~disc.wp => WrittenOrStaged(tg.sec, disc.img, h.n, tg.b)
    BY <1>1, <1>7, Zenon DEF Inv, InStepInv, WriteInv
  <2>2. Count = NumberOfBlocks(h.cmd[2]) /\ h.n \in Nat
    BY <1>2, <1>7, Zenon DEF Inv, InStepInv, CleanInv, Count, CountInv
  <2>3. h.sent = (tg.b + 1) * BlockLen
    BY <1>2, <2>1, ConstantsOK
  <2>4. ASSUME ~disc.wp
        PROVE  Written(image, h.n, tg.b + 1) /\ WrittenOrStaged(staged, disc.img, h.n, tg.b + 1)
    <3>1. PICK m \in 0 .. tg.b : tg.sec = Staged(h.n, tg.b, m) /\ Written(disc.img, h.n, tg.b - m)
      BY <2>1, <2>4, Zenon DEF WrittenOrStaged
    <3>2. tg.buf = Block(h.n, tg.b)
      BY <2>1, Zenon DEF Received, Block
    <3>3. Len(tg.sec) = m /\ staged = Staged(h.n, tg.b + 1, m + 1)
      <4>1. m \in Nat
        BY <2>1
      <4>2. /\ Len(Staged(h.n, tg.b, m)) = m
            /\ Append(Staged(h.n, tg.b, m), Block(h.n, tg.b)) = Staged(h.n, tg.b + 1, m + 1)
        BY <2>1, <2>2, <4>1, StagedStep, Zenon
      <4> QED
        BY <3>1, <3>2, <4>2, Zenon
    <3>4. Len(staged) = m + 1
      <4>1. m + 1 \in Nat /\ tg.b + 1 \in Nat
        BY <2>1
      <4>2. Len(Staged(h.n, tg.b + 1, m + 1)) = m + 1
        BY <2>2, <4>1, StagedStep, Zenon
      <4> QED
        BY <3>3, <4>2, Zenon
    <3>5. tg.b < MaxBlocks
      BY <2>1, HostCount, ConstantsOK DEF Inv
    <3> HIDE DEF staged
    <3>6. Written(image, h.n, tg.b + 1)
      <4>1. image = [x \in Blocks |-> IF x \in tg.b - m .. tg.b
                                 THEN Staged(h.n, tg.b + 1, m + 1)[x - tg.b + (m + 1)] ELSE disc.img[x]]
        BY <3>3, <3>4, Zenon
      <4> HIDE DEF image
      <4> QED
        BY <2>1, <2>2, <3>1, <3>5, <4>1, FlushWrites, Zenon
    <3>7. WrittenOrStaged(staged, disc.img, h.n, tg.b + 1)
      <4>1. m + 1 \in 0 .. tg.b + 1 /\ (tg.b + 1) - (m + 1) = tg.b - m
        BY <2>1
      <4> QED
        BY <3>1, <3>3, <4>1, Zenon DEF WrittenOrStaged
    <3> QED
      BY <3>6, <3>7, Zenon
  <2> QED
    BY <2>1, <2>2, <2>3, <2>4, Zenon
<1>8. CASE disc' = card /\ last /\ Finish(OK)
  <2>1. flush
    BY <1>8, Zenon DEF FlushDue
  <2> HIDE DEF flush, image
  <2>2. h.clean /\ ~disc'.wp => Written(disc'.img, h.n, NumberOfBlocks(h.cmd[2]))
    BY <1>7, <1>8, <2>1, Zenon
  <2>3. h.clean => ToldHost(OK)'
    BY <1>1, <1>7, <2>2 DEF ToldHost, Told, OK, CHECK, READ6, WRITE6, REQUESTSENSE
  <2> QED
    BY <1>1, <1>2, <1>3, <1>4, <1>7, <1>8, <2>3, FinishStep, Zenon
<1>9. CASE /\ disc' = card /\ ~last
           /\ tg' = [tg EXCEPT !.w = "set", !.k = 0, !.b = @ + 1, !.buf = <<>>, !.sec = sec]
  <2> HIDE DEF flush, image, staged
  <2>1. /\ DOMAIN tg' = TgF /\ tg'.at = "blkout" /\ tg'.w = "set" /\ tg'.k = 0
        /\ tg'.b = tg.b + 1 /\ tg'.cdb = tg.cdb /\ tg'.buf = <<>>
        /\ tg'.sec = sec
    BY <1>1, <1>9, Zenon DEF Inv, Fields, TgF
  <2>2. /\ Fields' /\ BusInv' /\ CountInv' /\ CleanInv' /\ StartInv' /\ DataInv' /\ ReadInv'
        /\ ~Waiting' /\ ~Acked' /\ More' = 0
    BY <1>1, <1>3, <1>4, <2>1, InTransfer, Zenon
  <2>3. CASE ~h.clean
    BY <1>1, <2>2, <2>3, OutOfStep, Zenon DEF Inv
  <2>4. CASE h.clean
    <3>1. /\ h.stat = Junk /\ h.cmd[1] = WRITE6 /\ h.n \in Nat
          /\ tg.b \in Nat /\ tg.b < NumberOfBlocks(h.cmd[2])
          /\ Count = NumberOfBlocks(h.cmd[2])
          /\ h.sent = (tg.b + 1) * BlockLen
          /\ ~disc.wp /\ flush => Written(image, h.n, tg.b + 1)
          /\ ~disc.wp /\ ~flush => WrittenOrStaged(staged, disc.img, h.n, tg.b + 1)
      BY <1>7, <2>4, Zenon
    <3>2. tg'.b \in Nat /\ tg'.b < NumberOfBlocks(h.cmd[2]) /\ 0 < BlockLen
      BY <1>9, <2>1, <3>1, HostCount, ConstantsOK DEF Inv
    <3>3. tg'.buf = Received(h.n, tg'.b, tg'.k)
      BY <2>1, <3>1, <3>2, ReceivedStep, Zenon
    <3>4. h'.sent = tg'.b * BlockLen + tg'.k + More'
      <4>1. (tg.b + 1) * BlockLen = (tg.b + 1) * BlockLen + 0 + 0
        BY <3>1, ConstantsOK
      <4> QED
        BY <1>1, <2>1, <2>2, <3>1, <4>1, Zenon
    <3>5. ~disc'.wp => WrittenOrStaged(tg'.sec, disc'.img, h.n, tg'.b)
      <4>1. CASE ~disc.wp /\ flush
        <5>1. <<>> = Staged(h.n, tg'.b, 0)
          BY <3>1, <3>2, StagedStep, Zenon
        <5>2. tg'.b - 0 = tg.b + 1 /\ 0 \in 0 .. tg'.b
          BY <2>1, <3>1
        <5>3. Written(disc'.img, h.n, tg'.b - 0)
          BY <1>9, <3>1, <4>1, <5>2, Zenon
        <5> QED
          BY <2>1, <4>1, <5>1, <5>2, <5>3, Zenon DEF WrittenOrStaged
      <4>2. CASE ~disc.wp /\ ~flush
        BY <1>9, <2>1, <3>1, <4>2, Zenon
      <4> QED
        BY <1>9, <4>1, <4>2, Zenon
    <3>6. WriteInv'
      BY <1>1, <2>1, <2>2, <3>1, <3>2, <3>3, <3>4, <3>5 DEF WriteInv
    <3>7. StatusInv'
      BY <1>1, <2>1, <3>1, Zenon DEF StatusInv
    <3> QED
      BY <2>2, <3>6, <3>7, Zenon DEF Inv, InStepInv
  <2> QED
    BY <2>3, <2>4, Zenon
<1> QED
  BY <1>5, <1>6, <1>8, <1>9, Zenon DEF filesystemWriteNextSector, Finish

-----------------------------------------------------------------------------
(* The theorems.                                                           *)

\* At power-up nobody is selected.
LEMMA InitInv ==
  Init => Inv
<1> SUFFICES ASSUME Init PROVE Inv
  BY Zenon
<1>1. Fields /\ BusInv
  BY Zenon DEF Init, Fields, BusInv, RegF, TgF, HostF, Target, Places
<1>2. CountInv
  BY Zenon DEF Init, CountInv, Target, NoCommand, TESTUNITREADY
<1>3. InStepInv
  BY Zenon DEF Init, InStepInv, CleanInv, StartInv, DataInv, WriteInv, ReadInv, StatusInv
<1> QED
  BY <1>1, <1>2, <1>3, Zenon DEF Inv

\* A step that changes nothing.
LEMMA StutterStep ==
  ASSUME Inv, UNCHANGED vars PROVE Inv'
<1>1. UNCHANGED <<reg, rst, tg, sense, disc, h>>
  BY Zenon DEF vars
<1>2. SameTg /\ SameHost /\ Fields'
  BY <1>1, Zenon DEF SameTg, SameHost, Inv, Fields
<1> QED
  BY <1>1, <1>2, QuietStep, Zenon

\* Every step of the host, the FIQ handler and the target keeps the invariant.
LEMMA InvStep ==
  Inv /\ [Next]_vars => Inv'
<1> SUFFICES ASSUME Inv, [Next]_vars PROVE Inv'
  BY Zenon
<1>1. CASE MainLoop
  BY <1>1, KernelStep, BusFreeStep, PhaseStep, RequestStep, InterruptStep, CommandStep, StatusStep,
     MessageStep, WriteByteStep, ReadDMAStep, WriteDMAStep, TestUnitStep, VerifyStep, StartStopStep,
     ReadCapacityStep, RequestSenseStep, Read6Step, Write6Step, ReadSectorStep,
       WriteSectorStep, Zenon
  DEF MainLoop
<1> QED
  BY <1>1, HostStep, WorldStep, StutterStep, Zenon DEF Next

\* The invariant holds of every behaviour of the host, the FIQ handler and the
\* target.
THEOREM InvHolds == Spec => []Inv
  BY InitInv, InvStep, PTL DEF Spec

\* A command is run with the block the host sent, whatever the interleaving of its
\* writes, the FIQ handler and the target, and whatever an earlier command left in
\* the registers (scsiEmulationCommand, hd_emulator_write_data).
THEOREM CommandAsSentHolds == Spec => []CommandAsSent
<1>1. Inv => CommandAsSent
  BY Zenon DEF Inv, InStepInv, CleanInv, CommandAsSent, Free
<1> QED
  BY <1>1, InvHolds, PTL

\* While scsiEmulationBusFree polls for selection BSY and REQ are off, also after a
\* reset in the middle of a command.
THEOREM BusFreeIsFreeHolds == Spec => []BusFreeIsFree
<1>1. Inv => BusFreeIsFree
  BY Zenon DEF Inv, BusInv, BusFreeIsFree
<1> QED
  BY <1>1, InvHolds, PTL

\* Nothing but a write of WRITE6 changes the disc.
LEMMA DiscStep ==
  ASSUME [Next]_vars, ~filesystemWriteNextSector PROVE UNCHANGED disc
<1>1. CASE Host \/ World
  BY <1>1, Zenon DEF Host, World, hd_emulator_nSEL, hd_emulator_write_data, hd_emulator_read_data,
     hd_emulator_IRQ, Stall, Resume, Break, Release
<1>2. kernel_main \/ scsiEmulationBusFree => UNCHANGED disc
  BY Zenon DEF kernel_main, harddisc_emulator_init, scsiEmulationBusFree
<1>3. \A at : scsiInformationTransferPhase(at) => UNCHANGED disc
  BY Zenon DEF scsiInformationTransferPhase
<1>4. hostadapterWriteRequestFlag \/ hd_emulator_set_IRQ => UNCHANGED disc
  BY Zenon DEF hostadapterWriteRequestFlag, hd_emulator_set_IRQ
<1>5. \A acked : scsiEmulationCommand(acked) \/ scsiEmulationStatus(acked)
                  \/ scsiEmulationMessage(acked) => UNCHANGED disc
  BY Zenon DEF scsiEmulationCommand, scsiEmulationStatus, scsiEmulationMessage
<1>6. \A acked : hostadapterWriteByte(acked) \/ hostadapterPerformReadDMA(acked)
                  \/ hostadapterPerformWriteDMA(acked) => UNCHANGED disc
  BY Zenon DEF hostadapterWriteByte, hostadapterPerformReadDMA, hostadapterPerformWriteDMA
<1>7. scsiCommandTestUnitReady \/ scsiCommandVerify \/ scsiCommandStartStop
        \/ scsiCommandReadCapacity \/ scsiCommandRequestSense => UNCHANGED disc
  BY Zenon DEF scsiCommandTestUnitReady, scsiCommandVerify, scsiCommandStartStop,
     scsiCommandReadCapacity, scsiCommandRequestSense
<1>8. scsiCommandRead6 \/ scsiCommandWrite6 \/ filesystemReadNextSector => UNCHANGED disc
  BY Zenon DEF scsiCommandRead6, scsiCommandWrite6, OpenLun, filesystemReadNextSector
<1>9. CASE MainLoop
  BY <1>2, <1>3, <1>4, <1>5, <1>6, <1>7, <1>8, <1>9, Zenon DEF MainLoop
<1> QED
  BY <1>1, <1>9 DEF Next, vars

\* With Beeb_write_protect the image is the one there was at boot.
Protected == disc.wp => disc.img = NewImage

\* A write-protected image never changes (filesystemWriteNextSector).
THEOREM ProtectedHolds == Spec => []Protected
<1>1. Init => Protected
  BY DEF Init, Protected
<1>2. Protected /\ [Next]_vars => Protected'
  <2> SUFFICES ASSUME Protected, [Next]_vars PROVE Protected'
    BY Zenon
  <2>1. CASE UNCHANGED disc
    BY <2>1, Zenon DEF Protected
  <2>2. CASE filesystemWriteNextSector
    <3>1. UNCHANGED disc \/ disc'.wp = FALSE
      BY <2>2 DEF filesystemWriteNextSector
    <3> QED
      BY <3>1, Zenon DEF Protected
  <2> QED
    BY <2>1, <2>2, DiscStep, Zenon
<1> QED
  BY <1>1, <1>2, PTL DEF Spec

\* A status the host has read is true: GOOD after a WRITE6 means that its blocks
\* are in the image, or that the disc is write protected and the image as it was;
\* GOOD after a READ6 that the host has the image's bytes in order; and a REQUEST
\* SENSE after a failure tells of one (scsiEmulationStatus).
THEOREM StatusTruthfulHolds == Spec => []StatusTruthful
<1>1. Inv /\ Protected => StatusTruthful
  <2> SUFFICES ASSUME Inv, Protected, h.clean, h.stat = OK
               PROVE  /\ h.cmd[1] = WRITE6 /\ ~disc.wp
                           => Written(disc.img, h.n, NumberOfBlocks(h.cmd[2]))
                      /\ h.cmd[1] = READ6
                           => h.got = Image(disc.img, NumberOfBlocks(h.cmd[2]) * BlockLen)
                      /\ h.cmd[1] = REQUESTSENSE /\ h.failed => h.got # <<NO_ERROR>>
    BY Zenon DEF StatusTruthful, OkMeansDone, SenseTold, Written, Image, Protected
  <2>1. Told(OK, h.cmd, h.n, disc, h.got, h.failed, sense)
    BY DEF Inv, InStepInv, StatusInv, ToldHost, Junk, OK
  <2> QED
    BY <2>1, Zenon DEF Told
<1> QED
  BY <1>1, InvHolds, ProtectedHolds, PTL
=============================================================================
