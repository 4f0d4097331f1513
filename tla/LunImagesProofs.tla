-------------------------- MODULE LunImagesProofs --------------------------
(***************************************************************************)
(* Theorems about LunImages: the interlock between started LUNs and the    *)
(* writers on the network and USB side.  Shape is what the steps rely on   *)
(* of the types; Inv is inductive under it and implies LockHasHolder,      *)
(* KeptUnlessCopied, UploadAtomic and NoHostWriteUnderLun.  The steps are  *)
(* grouped by what they do to the card and to the transfers (a start, a    *)
(* new image, a transfer that begins, writes, is promoted or ends, a       *)
(* removal, a rename), one lemma for each; MtpInv, PutInv, CopyInv and     *)
(* BeebInv apply them to the handlers.                                     *)
(***************************************************************************)
EXTENDS LunImages, TLAPS

\* A transfer, as Idle and Open make it.
XferSet == [on : BOOLEAN, path : Paths \cup {<<0, None>>}, fil : Files \cup {None},
            lk : Luns \cup {None}, todo : Nat, failed : BOOLEAN, valid : BOOLEAN,
            inPlace : BOOLEAN]

\* What every step keeps of the transfers: one in progress has a target and a file,
\* one that is not has neither file nor lock, only a PUT writes in place, only an
\* MTP upload goes on after a failure, and a COPY ends with its last chunk.
XShape ==
    /\ x \in [Xfers -> XferSet]
    /\ \A t \in Xfers : x[t].on => x[t].path \in Paths /\ x[t].fil \in Files
    /\ \A t \in Xfers : ~x[t].on => x[t].fil = None /\ x[t].lk = None
    /\ \A t \in Xfers : x[t].inPlace => t = "put"
    /\ \A t \in Xfers : x[t].failed => t = "mtp"
    /\ x["copy"].on => x["copy"].todo > 0

\* The shape of the state that the steps rely on: the part of TypeOK that does not
\* speak of the bounds.
Shape ==
    /\ card \in [Paths -> Files \cup {None}]
    /\ part \in [Paths -> Files \cup {None}]
    /\ content \in [Files -> {"whole", "upload", "copy", "patch"}]
    /\ lunDirectory \in Dirs
    /\ lun \in [Luns -> [on : BOOLEAN, fil : Files \cup {None}]]
    /\ \A l \in Luns : lun[l].on => lun[l].fil \in Files
    /\ lock \subseteq Luns /\ revoke \subseteq Luns
    /\ XShape

\* None is no file and no LUN.
LEMMA NoneApart == None \notin Files /\ None \notin Luns /\ None \in Int
  BY ConstantsOK DEF None, Files

\* No transfer.
LEMMA IdleX == Idle \in XferSet /\ ~Idle.on /\ Idle.fil = None /\ Idle.lk = None /\ ~Idle.inPlace
               /\ ~Idle.failed
  BY Zenon DEF Idle, XferSet

\* A transfer that begins (Open) has the target, file and lock it was given.
LEMMA OpenX ==
  ASSUME NEW t, NEW p \in Paths, NEW f \in Files, NEW l \in Luns \cup {None}
  PROVE  LET o == Open(t, p, f, l) IN
         /\ o \in XferSet /\ o.on /\ o.path = p /\ o.fil = f /\ o.lk = l
         /\ o.todo = MaxChunks /\ ~o.failed /\ o.valid /\ ~o.inPlace
<1>1. MaxChunks \in Nat
  BY ConstantsOK, Zenon
<1>2. QED
  BY <1>1, Zenon DEF Open, Idle, XferSet

\* One transfer is replaced by o: the shape holds and the others are as they were.
LEMMA SetX ==
  ASSUME XShape, NEW t \in Xfers, NEW o \in XferSet, x' = [x EXCEPT ![t] = o],
         o.on => o.path \in Paths /\ o.fil \in Files,
         ~o.on => o.fil = None /\ o.lk = None,
         o.inPlace => t = "put", o.failed => t = "mtp",
         t = "copy" /\ o.on => o.todo > 0
  PROVE  XShape' /\ x'[t] = o /\ \A u \in Xfers : u # t => x'[u] = x[u]
<1>1. x'[t] = o /\ x' \in [Xfers -> XferSet] /\ \A u \in Xfers : u # t => x'[u] = x[u]
  BY Zenon DEF XShape
<1>2. QED
  BY <1>1 DEF XShape

\* A transfer ends (Ended).
LEMMA EndedX ==
  ASSUME XShape, NEW t \in Xfers, Ended(t)
  PROVE  XShape' /\ x'[t] = Idle /\ \A u \in Xfers : u # t => x'[u] = x[u]
  BY SetX, IdleX, Zenon DEF Ended

\* filesystemLunFromHostPath returns a LUN or None, and the LUN of its own path.
LEMMA LunOfPath ==
  ASSUME NEW p \in Paths
  PROVE  LunFromHostPath(p) \in Luns \cup {None}
  BY Zenon DEF LunFromHostPath, Paths

\* The image of a LUN is at one of the paths.
LEMMA PathType == ASSUME Shape, NEW l \in Luns PROVE Path(l) \in Paths
  BY Zenon DEF Shape, Path, Paths

\* The shape after power on.
LEMMA ShapeInit == Init => Shape
<1> SUFFICES ASSUME Init PROVE Shape
  BY Zenon
<1>1. card \in [Paths -> Files \cup {None}]
  <2>1. \A p \in Paths : p[1] + 1 \in Files
    <3>1. MaxFiles \in Nat
      BY ConstantsOK, Zenon
    <3>2. QED
      <4>1. \A p \in Paths : p[1] \in Dirs
        BY Zenon DEF Paths
      <4>2. \A d \in Dirs : d + 1 \in Files
        BY <3>1, ConstantsOK DEF Files
      <4>3. QED
        BY <4>1, <4>2, Zenon
  <2>2. QED
    BY <2>1, Zenon DEF Init
<1>2. XShape
  BY IdleX, Zenon DEF Init, XShape, Xfers
<1>3. 0 \in Dirs
  BY ConstantsOK, Zenon
<1>4. QED
  BY <1>1, <1>2, <1>3, NoneApart, Zenon DEF Init, Shape, Stopped

\* The files a step may put at a path, and what it may write into a file.
LEMMA FileSet ==
  ASSUME Shape
  PROVE  /\ \A p \in Paths, f \in Files \cup {None} :
              /\ [card EXCEPT ![p] = f] \in [Paths -> Files \cup {None}]
              /\ [part EXCEPT ![p] = f] \in [Paths -> Files \cup {None}]
         /\ \A f \in Files, c \in {"whole", "upload", "copy", "patch"} :
              [content EXCEPT ![f] = c] \in [Files -> {"whole", "upload", "copy", "patch"}]
  BY Zenon DEF Shape

\* One LUN is started on a file or stopped.
LEMMA LunSet ==
  ASSUME Shape, NEW l \in Luns,
         \/ \E f \in Files : lun' = [lun EXCEPT ![l] = [on |-> TRUE, fil |-> f]]
         \/ lun' = [lun EXCEPT ![l] = Stopped]
         \/ lun' = lun
  PROVE  /\ lun' \in [Luns -> [on : BOOLEAN, fil : Files \cup {None}]]
         /\ \A m \in Luns : lun'[m].on => lun'[m].fil \in Files
<1>1. CASE \E f \in Files : lun' = [lun EXCEPT ![l] = [on |-> TRUE, fil |-> f]]
  <2>1. PICK f \in Files : lun' = [lun EXCEPT ![l] = [on |-> TRUE, fil |-> f]]
    BY <1>1, Zenon
  <2>2. QED
    BY <2>1, Zenon DEF Shape
<1>2. CASE lun' = [lun EXCEPT ![l] = Stopped]
  BY <1>2, Zenon DEF Shape, Stopped
<1>3. CASE lun' = lun
  BY <1>3, Zenon DEF Shape
<1>4. QED
  BY <1>1, <1>2, <1>3, Zenon

\* The commands of the Beeb keep the shape.
LEMMA ShapeBeeb == Shape /\ BeebStep => Shape'
<1> SUFFICES ASSUME Shape, BeebStep PROVE Shape'
  BY Zenon
<1>1. ASSUME NEW l \in Luns, NEW told, CheckLunImage(l, told)
      PROVE  /\ lun' \in [Luns -> [on : BOOLEAN, fil : Files \cup {None}]]
             /\ \A m \in Luns : lun'[m].on => lun'[m].fil \in Files
  <2>1. card[Path(l)] \in Files \cup {None}
    BY PathType, Zenon DEF Shape
  <2>2. QED
    BY <1>1, <2>1, LunSet, Zenon DEF CheckLunImage
<1>2. ASSUME NEW l \in Luns, scsiStart(l) PROVE Shape'
  BY <1>1, <1>2, Zenon DEF scsiStart, HostRevokeLun, Shape, XShape
<1>3. ASSUME NEW l \in Luns, scsiStop(l) PROVE Shape'
  BY <1>3, LunSet, Zenon DEF scsiStop, Shape, XShape
<1>4. ASSUME NEW l \in Luns, scsiCommandModeSelect6(l) PROVE Shape'
  BY <1>1, <1>4, Zenon DEF scsiCommandModeSelect6, Shape, XShape
<1>5. ASSUME NEW l \in Luns, NEW ok \in BOOLEAN, scsiCommandFormat(l, ok) PROVE Shape'
  <2>1. PICK f \in Files :
          /\ card' = [card EXCEPT ![Path(l)] = f]
          /\ content' = [content EXCEPT ![f] = "whole"]
          /\ lun' = [lun EXCEPT ![l] = IF ok THEN [on |-> TRUE, fil |-> f] ELSE Stopped]
    BY <1>5, Zenon DEF scsiCommandFormat
  <2>2. UNCHANGED <<part, lunDirectory, lock, revoke, x>>
    BY <1>5, Zenon DEF scsiCommandFormat
  <2>3. /\ lun' \in [Luns -> [on : BOOLEAN, fil : Files \cup {None}]]
        /\ \A m \in Luns : lun'[m].on => lun'[m].fil \in Files
    BY <2>1, LunSet, Zenon
  <2>4. QED
    BY <2>1, <2>2, <2>3, FileSet, PathType, Zenon DEF Shape, XShape
<1>11. ASSUME NEW l \in Luns, FormatRefused(l) PROVE Shape'
  BY <1>11, LunSet, Zenon DEF FormatRefused, Shape, XShape
<1>6. ASSUME Remounted
      PROVE  /\ lun' \in [Luns -> [on : BOOLEAN, fil : Files \cup {None}]]
             /\ \A m \in Luns : lun'[m].on => lun'[m].fil \in Files
             /\ XShape'
  <2>1. \A t \in Xfers : /\ x'[t] = [x[t] EXCEPT !.valid = ~x[t].on]
                         /\ x[t] \in XferSet
    BY <1>6, Zenon DEF Remounted, Shape, XShape
  <2>2. \A t \in Xfers :
          /\ x'[t] \in XferSet /\ x'[t].on = x[t].on /\ x'[t].path = x[t].path
          /\ x'[t].fil = x[t].fil /\ x'[t].lk = x[t].lk /\ x'[t].inPlace = x[t].inPlace
          /\ x'[t].todo = x[t].todo /\ x'[t].failed = x[t].failed
    <3> SUFFICES ASSUME NEW t \in Xfers
        PROVE  /\ x'[t] \in XferSet /\ x'[t].on = x[t].on /\ x'[t].path = x[t].path
               /\ x'[t].fil = x[t].fil /\ x'[t].lk = x[t].lk /\ x'[t].inPlace = x[t].inPlace
               /\ x'[t].todo = x[t].todo /\ x'[t].failed = x[t].failed
      BY Zenon
    <3>1. x'[t] = [x[t] EXCEPT !.valid = ~x[t].on] /\ x[t] \in XferSet
      BY <2>1, Zenon
    <3>2. PICK v \in BOOLEAN : v = ~x[t].on
      BY Zenon
    <3>3. x'[t] = [x[t] EXCEPT !.valid = v]
      BY <3>1, <3>2, Zenon
    <3>4. x'[t] \in XferSet
      BY <3>1, <3>3, Zenon DEF XferSet
    <3>5. QED
      BY <3>1, <3>3, <3>4, Zenon DEF XferSet
  <2>3. x' \in [Xfers -> XferSet]
    BY <1>6, <2>2, Zenon DEF Remounted
  <2>4. XShape'
    BY <2>2, <2>3, Zenon DEF Shape, XShape, Xfers
  <2>5. QED
    BY <1>6, <2>4, Zenon DEF Remounted, Stopped
<1>7. ASSUME NEW d \in Dirs, scsiBeebScsiSelect(d) PROVE Shape'
  BY <1>7, Zenon DEF scsiBeebScsiSelect, Shape, XShape
<1>8. ASSUME NEW d \in Dirs, hd_emulator_write_scsijuke(d) PROVE Shape'
  BY <1>6, <1>8, Zenon DEF hd_emulator_write_scsijuke, Shape
<1>9. CASE filesystemReset
  BY <1>6, <1>9, Zenon DEF filesystemReset, Shape
<1>10. QED
  BY <1>2, <1>3, <1>4, <1>5, <1>7, <1>8, <1>9, <1>11, Zenon DEF BeebStep

\* A chunk of t has gone by.
LEMMA ChunkX ==
  ASSUME XShape, NEW t \in Xfers, x[t].on, x[t].todo > 0, t = "copy" => x[t].todo # 1,
         NEW bad \in BOOLEAN,
         \/ x' = [x EXCEPT ![t].todo = @ - 1]
         \/ t = "mtp" /\ x' = [x EXCEPT ![t].todo = @ - 1, ![t].failed = bad]
  PROVE  /\ XShape' /\ \A u \in Xfers : u # t => x'[u] = x[u]
         /\ x'[t].on = x[t].on /\ x'[t].path = x[t].path /\ x'[t].fil = x[t].fil
         /\ x'[t].lk = x[t].lk /\ x'[t].inPlace = x[t].inPlace /\ x'[t].todo = x[t].todo - 1
         /\ \/ x'[t].failed = x[t].failed
            \/ x'[t].failed = bad /\ x' = [x EXCEPT ![t].todo = @ - 1, ![t].failed = bad]
<1>0. x[t] \in XferSet /\ x[t].todo \in Nat /\ x[t].todo - 1 \in Nat
  BY DEF XShape, XferSet
<1>1. CASE x' = [x EXCEPT ![t].todo = @ - 1]
  <2> DEFINE o == [x[t] EXCEPT !.todo = @ - 1]
  <2>1. /\ o \in XferSet /\ o.on = x[t].on /\ o.path = x[t].path /\ o.fil = x[t].fil
        /\ o.lk = x[t].lk /\ o.inPlace = x[t].inPlace /\ o.todo = x[t].todo - 1
        /\ o.failed = x[t].failed
    BY <1>0, Zenon DEF XferSet
  <2>2. x' = [x EXCEPT ![t] = o]
    BY <1>1, Zenon
  <2> HIDE DEF o
  <2>3. x[t].fil \in Files /\ x[t].path \in Paths /\ (x[t].inPlace => t = "put")
          /\ (x[t].failed => t = "mtp")
        /\ (t = "copy" => x[t].todo - 1 > 0)
    BY <1>0 DEF XShape
  <2>4. XShape' /\ x'[t] = o /\ \A u \in Xfers : u # t => x'[u] = x[u]
    BY <2>1, <2>2, <2>3, SetX, Zenon
  <2>5. QED
    BY <1>1, <2>1, <2>4, Zenon
<1>2. CASE t = "mtp" /\ x' = [x EXCEPT ![t].todo = @ - 1, ![t].failed = bad]
  <2> DEFINE o == [x[t] EXCEPT !.todo = @ - 1, !.failed = bad]
  <2>1. /\ o \in XferSet /\ o.on = x[t].on /\ o.path = x[t].path /\ o.fil = x[t].fil
        /\ o.lk = x[t].lk /\ o.inPlace = x[t].inPlace /\ o.todo = x[t].todo - 1
        /\ o.failed = bad
    BY <1>0, Zenon DEF XferSet
  <2>2. x' = [x EXCEPT ![t] = o]
    BY <1>0, <1>2, Zenon DEF XShape
  <2> HIDE DEF o
  <2>3. x[t].fil \in Files /\ x[t].path \in Paths /\ (x[t].inPlace => t = "put") /\ t = "mtp"
        /\ (t = "copy" => x[t].todo - 1 > 0)
    BY <1>0, <1>2, Zenon DEF XShape
  <2>4. XShape' /\ x'[t] = o /\ \A u \in Xfers : u # t => x'[u] = x[u]
    BY <2>1, <2>2, <2>3, SetX, Zenon
  <2>5. QED
    BY <1>2, <2>1, <2>4, Zenon
<1>3. QED
  BY <1>1, <1>2, Zenon

\* A transfer of p begins with file f open.
LEMMA OpenedX ==
  ASSUME XShape, NEW t \in Xfers, NEW p \in Paths, NEW f \in Files, NEW l \in Luns \cup {None},
         NEW here \in BOOLEAN, here => t = "put",
         \/ ~here /\ x' = [x EXCEPT ![t] = Open(t, p, f, l)]
         \/ here /\ x' = [x EXCEPT ![t] = [Open(t, p, f, l) EXCEPT !.inPlace = TRUE]]
  PROVE  /\ XShape' /\ \A u \in Xfers : u # t => x'[u] = x[u]
         /\ x'[t].on /\ x'[t].path = p /\ x'[t].fil = f /\ x'[t].lk = l
         /\ x'[t].todo = MaxChunks /\ ~x'[t].failed /\ x'[t].inPlace = here
<1>1. MaxChunks \in Nat /\ MaxChunks > 0
  BY ConstantsOK
<1>2. PICK o : /\ o \in XferSet /\ o.on /\ o.path = p /\ o.fil = f /\ o.lk = l
               /\ o.todo = MaxChunks /\ ~o.failed /\ o.inPlace = here
               /\ x' = [x EXCEPT ![t] = o]
  <2>1. CASE ~here /\ x' = [x EXCEPT ![t] = Open(t, p, f, l)]
    BY <1>1, <2>1, Zenon DEF Open, Idle, XferSet
  <2>2. CASE here /\ x' = [x EXCEPT ![t] = [Open(t, p, f, l) EXCEPT !.inPlace = TRUE]]
    BY <1>1, <2>2, Zenon DEF Open, Idle, XferSet
  <2>3. QED
    BY <2>1, <2>2, Zenon
<1>3. XShape' /\ x'[t] = o /\ \A u \in Xfers : u # t => x'[u] = x[u]
  BY <1>1, <1>2, SetX, Zenon
<1>4. QED
  BY <1>2, <1>3, Zenon

\* What t may do to the card when it ends well.
LEMMA PromotedSet ==
  ASSUME Shape, NEW t \in Xfers, x[t].on, Promoted(t)
  PROVE  card' \in [Paths -> Files \cup {None}] /\ part' \in [Paths -> Files \cup {None}]
<1>1. x[t].path \in Paths
  BY Zenon DEF Shape, XShape
<1>2. /\ \/ card' = [card EXCEPT ![x[t].path] = part[x[t].path]]
         \/ card' = [card EXCEPT ![x[t].path] = None]
      /\ part' = part \/ part' = [part EXCEPT ![x[t].path] = None]
  BY DEF Promoted, PartDropped
<1>3. part[x[t].path] \in Files \cup {None}
  BY <1>1, Zenon DEF Shape
<1>4. /\ card \in [Paths -> Files \cup {None}] /\ part \in [Paths -> Files \cup {None}]
      /\ None \in Files \cup {None}
  BY Zenon DEF Shape
<1>5. QED
  BY <1>1, <1>2, <1>3, <1>4

\* A "<path>.part" is deleted.
LEMMA DroppedSet ==
  ASSUME Shape, NEW t \in Xfers, x[t].on
  PROVE  PartDropped(t) \in [Paths -> Files \cup {None}]
<1>1. x[t].path \in Paths
  BY Zenon DEF Shape, XShape
<1>2. QED
  BY <1>1, FileSet, Zenon DEF PartDropped

\* A chunk is written into the open file of t.
LEMMA WroteSet ==
  ASSUME Shape, NEW t \in Xfers, x[t].on, NEW d \in {"upload", "copy", "patch"}, Wrote(t, d)
  PROVE  content' \in [Files -> {"whole", "upload", "copy", "patch"}]
<1>1. x[t].fil \in Files
  BY Zenon DEF Shape, XShape
<1>2. QED
  BY <1>1, FileSet, Zenon DEF Wrote

\* The steps of an MTP upload keep the shape.
LEMMA ShapeMtp ==
  ASSUME Shape,
         \/ \E p \in Paths : fs_send_object_info(p)
         \/ fs_send_object \/ tud_mtp_data_complete_cb \/ tud_mtp_request_cancel_cb
  PROVE  Shape'
<1>0. "mtp" \in Xfers /\ XShape
  BY Zenon DEF Xfers, Shape
<1>1. ASSUME NEW p \in Paths, fs_send_object_info(p) PROVE Shape'
  <2> DEFINE l == LunFromHostPath(p)
  <2>1. PartReleased \in [Paths -> Files \cup {None}]
    BY <1>0, DroppedSet, Zenon DEF PartReleased, Shape
  <2>2. UNCHANGED <<card, lunDirectory, lun>>
    BY <1>1, Zenon DEF fs_send_object_info
  <2>3. CASE fs_release_write_state /\ part' = PartReleased /\ UNCHANGED content
    <3>1. XShape' /\ lock' \subseteq Luns /\ revoke' \subseteq Luns
      BY <1>0, <2>3, EndedX, Zenon DEF fs_release_write_state, Unlock, Shape
    <3>2. QED
      BY <2>1, <2>2, <2>3, <3>1, Zenon DEF Shape
  <2>4. CASE /\ \E f \in Files :
                 /\ part' = [PartReleased EXCEPT ![p] = f]
                 /\ content' = [content EXCEPT ![f] = "upload"]
                 /\ x' = [x EXCEPT !["mtp"] = Open("mtp", p, f, l)]
             /\ lock' = (lock \ {x["mtp"].lk}) \cup ({l} \ {None})
             /\ revoke' = revoke \ {x["mtp"].lk, l}
    <3>1. PICK f \in Files :
                 /\ part' = [PartReleased EXCEPT ![p] = f]
                 /\ content' = [content EXCEPT ![f] = "upload"]
                 /\ x' = [x EXCEPT !["mtp"] = Open("mtp", p, f, l)]
      BY <2>4, Zenon
    <3>2. l \in Luns \cup {None}
      BY LunOfPath, Zenon
    <3> HIDE DEF l
    <3>3. XShape'
      BY <1>0, <3>1, <3>2, OpenedX, Zenon
    <3>4. lock' \subseteq Luns /\ revoke' \subseteq Luns
      BY <2>4, <3>2, Zenon DEF Shape
    <3>5. part' \in [Paths -> Files \cup {None}]
      BY <2>1, <3>1, Zenon
    <3>6. QED
      BY <2>2, <3>1, <3>3, <3>4, <3>5, FileSet, Zenon DEF Shape
  <2>5. QED
    BY <1>1, <2>3, <2>4, Zenon DEF fs_send_object_info
<1>2. CASE fs_send_object
  <2>1. /\ x["mtp"].on /\ x["mtp"].todo > 0
        /\ \E bad \in BOOLEAN : x' = [x EXCEPT !["mtp"].todo = @ - 1, !["mtp"].failed = bad]
        /\ UNCHANGED content \/ Wrote("mtp", "upload")
        /\ UNCHANGED <<card, part, lunDirectory, lun, lock, revoke>>
    BY <1>2, Zenon DEF fs_send_object
  <2>2. XShape'
    BY <1>0, <2>1, ChunkX, Zenon
  <2>3. QED
    BY <1>0, <2>1, <2>2, WroteSet, Zenon DEF Shape
<1>3. CASE tud_mtp_data_complete_cb
  <2>1. /\ x["mtp"].on /\ Ended("mtp") /\ Unlock("mtp") /\ UNCHANGED <<lunDirectory, lun>>
        /\ \/ Promoted("mtp") /\ content' \in {content, [content EXCEPT ![x["mtp"].fil] = "upload"]}
           \/ part' = PartDropped("mtp") /\ UNCHANGED <<card, content>>
    BY <1>3, Zenon DEF tud_mtp_data_complete_cb
  <2>2. XShape' /\ lock' \subseteq Luns /\ revoke' \subseteq Luns
    BY <1>0, <2>1, EndedX, Zenon DEF Unlock, Shape
  <2>3. x["mtp"].fil \in Files
    BY <1>0, <2>1, Zenon DEF XShape
  <2>4. content' \in [Files -> {"whole", "upload", "copy", "patch"}]
    BY <2>1, <2>3, FileSet, Zenon DEF Shape
  <2>5. card' \in [Paths -> Files \cup {None}] /\ part' \in [Paths -> Files \cup {None}]
    BY <1>0, <2>1, PromotedSet, DroppedSet, Zenon DEF Shape
  <2>6. QED
    BY <2>1, <2>2, <2>4, <2>5, Zenon DEF Shape
<1>4. CASE tud_mtp_request_cancel_cb
  <2>1. /\ x["mtp"].on /\ Ended("mtp") /\ Unlock("mtp") /\ part' = PartDropped("mtp")
        /\ UNCHANGED <<card, content, lunDirectory, lun>>
    BY <1>4, Zenon DEF tud_mtp_request_cancel_cb, fs_release_write_state
  <2>2. XShape' /\ lock' \subseteq Luns /\ revoke' \subseteq Luns
    BY <1>0, <2>1, EndedX, Zenon DEF Unlock, Shape
  <2>3. QED
    BY <1>0, <2>1, <2>2, DroppedSet, Zenon DEF Shape
<1>5. QED
  BY <1>1, <1>2, <1>3, <1>4, Zenon

\* The steps of PUT and of the upload form keep the shape.
LEMMA ShapePut ==
  ASSUME Shape,
         \/ \E t \in {"put", "form"} :
              \/ \E p \in Paths : PutBegin(t, p)
              \/ PutChunk(t) \/ PutFinish(t) \/ conn_close(t)
         \/ \E p \in Paths : PutInPlace(p)
         \/ PutFlushInPlace \/ PutFinishInPlace
  PROVE  Shape'
<1>0. {"put", "form"} \subseteq Xfers /\ XShape
  BY Zenon DEF Xfers, Shape
<1>1. ASSUME NEW t \in {"put", "form"}, NEW p \in Paths, PutBegin(t, p) PROVE Shape'
  <2>1. PICK f \in Files, l \in Luns \cup {None} :
          /\ part' = [part EXCEPT ![p] = f] /\ content' = [content EXCEPT ![f] = "upload"]
          /\ x' = [x EXCEPT ![t] = Open(t, p, f, l)]
    BY <1>1, LunOfPath, Zenon DEF PutBegin
  <2>2. UNCHANGED <<card, lunDirectory, lun, lock, revoke>>
    BY <1>1, Zenon DEF PutBegin
  <2>3. XShape'
    BY <1>0, <2>1, OpenedX, Zenon
  <2>4. QED
    BY <2>1, <2>2, <2>3, FileSet, Zenon DEF Shape
<1>2. ASSUME NEW t \in {"put", "form"}, PutChunk(t) PROVE Shape'
  <2>1. /\ x[t].on /\ x[t].todo > 0 /\ UNCHANGED <<card, lunDirectory, lun, lock, revoke>>
        /\ \/ x' = [x EXCEPT ![t].todo = @ - 1] /\ Wrote(t, "upload") /\ UNCHANGED part
           \/ Ended(t) /\ part' = PartDropped(t) /\ UNCHANGED content
    BY <1>2, Zenon DEF PutChunk
  <2>2. XShape'
    BY <1>0, <2>1, ChunkX, EndedX, Zenon
  <2>3. QED
    BY <1>0, <2>1, <2>2, WroteSet, DroppedSet DEF Shape
<1>3. ASSUME NEW t \in {"put", "form"}, PutFinish(t) PROVE Shape'
  <2>1. /\ x[t].on /\ Ended(t) /\ UNCHANGED <<content, lunDirectory, lun, lock, revoke>>
        /\ Promoted(t) \/ (part' = PartDropped(t) /\ UNCHANGED card)
    BY <1>3, Zenon DEF PutFinish
  <2>2. QED
    BY <1>0, <2>1, EndedX, PromotedSet, DroppedSet DEF Shape
<1>4. ASSUME NEW t \in {"put", "form"}, conn_close(t) PROVE Shape'
  <2>1. /\ x[t].on /\ Ended(t) /\ UNCHANGED <<card, content, lunDirectory, lun, lock, revoke>>
        /\ part' \in {part, PartDropped(t)}
    BY <1>4, Zenon DEF conn_close
  <2>2. QED
    BY <1>0, <2>1, EndedX, DroppedSet DEF Shape
<1>5. ASSUME NEW p \in Paths, PutInPlace(p) PROVE Shape'
  <2>1. /\ card[p] \in Files
        /\ x' = [x EXCEPT !["put"] = [Open("put", p, card[p], None) EXCEPT !.inPlace = TRUE]]
        /\ UNCHANGED <<card, part, content, lunDirectory, lun, lock, revoke>>
    BY <1>5, Zenon DEF PutInPlace, Shape
  <2>2. XShape'
    BY <1>0, <2>1, OpenedX, Zenon
  <2>3. QED
    BY <2>1, <2>2, Zenon DEF Shape
<1>6. CASE PutFlushInPlace
  <2>1. /\ x["put"].on /\ x["put"].todo > 0
        /\ UNCHANGED <<card, part, lunDirectory, lun, lock, revoke>>
        /\ \/ x' = [x EXCEPT !["put"].todo = @ - 1] /\ Wrote("put", "patch")
           \/ Ended("put") /\ UNCHANGED content
    BY <1>6, Zenon DEF PutFlushInPlace
  <2>2. XShape'
    BY <1>0, <2>1, ChunkX, EndedX, Zenon
  <2>3. QED
    BY <1>0, <2>1, <2>2, WroteSet, Zenon DEF Shape
<1>7. CASE PutFinishInPlace
  <2>1. Ended("put") /\ UNCHANGED <<card, part, content, lunDirectory, lun, lock, revoke>>
    BY <1>7, Zenon DEF PutFinishInPlace
  <2>2. QED
    BY <1>0, <2>1, EndedX, Zenon DEF Shape
<1>8. QED
  BY <1>1, <1>2, <1>3, <1>4, <1>5, <1>6, <1>7, Zenon

\* The steps of COPY, MOVE and DELETE keep the shape.
LEMMA ShapeCopy ==
  ASSUME Shape,
         \/ \E p \in Paths : route_dav_copy(p) \/ route_dav_delete(p)
         \/ \E p, q \in Paths : route_dav_move(p, q)
         \/ ws_copy_step \/ CopyAbort
  PROVE  Shape'
<1>0. "copy" \in Xfers /\ XShape
  BY Zenon DEF Xfers, Shape
<1>1. ASSUME NEW p \in Paths, route_dav_copy(p) PROVE Shape'
  <2>1. CASE x["copy"].on
    BY <1>1, <2>1, FileSet, Zenon DEF route_dav_copy, Shape, XShape
  <2>2. CASE ~x["copy"].on
    <3> DEFINE l == LunFromHostPath(p)
    <3>1. PICK f \in Files :
             /\ card' = [card EXCEPT ![p] = f] /\ content' = [content EXCEPT ![f] = "copy"]
             /\ x' = [x EXCEPT !["copy"] = Open("copy", p, f, l)]
      BY <1>1, <2>2, Zenon DEF route_dav_copy
    <3>2. /\ lock' = lock \cup ({l} \ {None}) /\ revoke' = revoke \ {l}
          /\ UNCHANGED <<part, lunDirectory, lun>>
      BY <1>1, <2>2, Zenon DEF route_dav_copy
    <3>3. l \in Luns \cup {None}
      BY LunOfPath, Zenon
    <3> HIDE DEF l
    <3>4. XShape'
      BY <1>0, <3>1, <3>3, OpenedX, Zenon
    <3>5. QED
      BY <3>1, <3>2, <3>3, <3>4, FileSet, Zenon DEF Shape
  <2>3. QED
    BY <2>1, <2>2, Zenon
<1>2. ASSUME NEW p \in Paths, route_dav_delete(p) PROVE Shape'
  BY <1>2, FileSet, Zenon DEF route_dav_delete, Shape, XShape
<1>3. ASSUME NEW p \in Paths, NEW q \in Paths, route_dav_move(p, q) PROVE Shape'
  <2>1. card' \in [Paths -> Files \cup {None}]
    BY <1>3, Zenon DEF route_dav_move, Shape
  <2>2. QED
    BY <1>3, <2>1, Zenon DEF route_dav_move, Shape, XShape
<1>4. CASE ws_copy_step
  <2>1. x["copy"].on /\ x["copy"].path \in Paths /\ x["copy"].fil \in Files
        /\ UNCHANGED <<part, lunDirectory, lun>>
    BY <1>0, <1>4, Zenon DEF ws_copy_step, XShape
  <2>2. /\ card' \in [Paths -> Files \cup {None}]
        /\ content' \in [Files -> {"whole", "upload", "copy", "patch"}]
    BY <1>4, <2>1, FileSet DEF ws_copy_step, Shape
  <2>3. \/ Ended("copy") /\ Unlock("copy")
        \/ x' = [x EXCEPT !["copy"].todo = @ - 1] /\ x["copy"].todo # 1
             /\ UNCHANGED <<lock, revoke>>
    BY <1>4, Zenon DEF ws_copy_step, ws_copy_slot_release
  <2>4. CASE Ended("copy") /\ Unlock("copy")
    BY <1>0, <2>1, <2>2, <2>4, EndedX, Zenon DEF Unlock, Shape
  <2>5. CASE x' = [x EXCEPT !["copy"].todo = @ - 1] /\ x["copy"].todo # 1
               /\ UNCHANGED <<lock, revoke>>
    <3>1. x["copy"].todo > 0
      BY <1>0, <2>1, Zenon DEF XShape
    <3>2. XShape'
      BY <1>0, <2>1, <2>5, <3>1, ChunkX, Zenon
    <3>3. QED
      BY <2>1, <2>2, <2>5, <3>2, Zenon DEF Shape
  <2>6. QED
    BY <2>3, <2>4, <2>5, Zenon
<1>5. CASE CopyAbort
  <2>1. Ended("copy") /\ Unlock("copy") /\ UNCHANGED <<card, part, content, lunDirectory, lun>>
    BY <1>5, Zenon DEF CopyAbort, ws_copy_slot_release
  <2>2. QED
    BY <1>0, <2>1, EndedX, Zenon DEF Unlock, Shape
<1>6. QED
  BY <1>1, <1>2, <1>3, <1>4, <1>5, Zenon

\* Every step keeps the shape.
LEMMA ShapeStep == Shape /\ [Next]_vars => Shape'
<1>1. Shape /\ HostStep => Shape'
  BY ShapeMtp, ShapePut, ShapeCopy, Zenon DEF HostStep
<1>2. Shape /\ UNCHANGED vars => Shape'
  BY Zenon DEF vars, Shape, XShape
<1>3. QED
  BY <1>1, <1>2, ShapeBeeb, Zenon DEF Next

\* KeptUnlessCopied is inductive together with: a started LUN loses its image only
\* to a revoked COPY, and no COPY is writing the image of a started LUN, since such
\* a start is the event copy_taken.
KeptInv ==
    /\ "image_freed" \notin hist => StartedImageKept
    /\ "copy_taken" \notin hist =>
         "image_freed" \notin hist /\ \A l \in Luns : lun[l].on => ~CopyingTo(l)

\* The transfers that write a "<path>.part".
Uploads == {"mtp", "put", "form"}

\* Transfer t is in progress and not in place.
Uploading(t) == x[t].on /\ ~x[t].inPlace

\* A file has one entry: at one path, or as one "<path>.part".
OneEntry ==
    /\ \A p, q \in Paths : card[p] # None /\ card[p] = card[q] => p = q
    /\ \A p, q \in Paths : part[p] # None /\ part[p] = part[q] => p = q
    /\ \A p, q \in Paths : part[p] # None => part[p] # card[q]

\* The file of an upload is the "<path>.part" of its target and nothing else: at
\* no path and open in no other transfer.
Private(t) == Uploading(t) =>
    /\ part[x[t].path] = x[t].fil
    /\ \A p \in Paths : card[p] # x[t].fil
    /\ \A u \in Xfers \ {t} : x[u].fil # x[t].fil
    /\ \A u \in Uploads \ {t} : Uploading(u) => x[u].path # x[t].path

\* No transfer has the file of an upload open by accident.
Apart == \A t \in Uploads : Private(t)

\* This holds until two uploads have used one "<path>.part".
ApartInv == "shared_part" \notin hist => Apart

\* UploadAtomic is inductive together with: an upload with no chunk to come that
\* has not failed is whole.
AtomicInv == hist \cap {"shared_part", "unsynced"} = {} =>
    /\ \A p \in Paths : card[p] # None => content[card[p]] # "upload"
    /\ \A t \in Uploads : Uploading(t) /\ x[t].todo = 0 /\ ~x[t].failed
         => content[x[t].fil] = "whole"

\* The events that excuse a write in NoHostWriteUnderLun.
Excused == hist \cap {"unannounced", "lock_stolen", "image_freed", "stale_write"} # {}

\* A COPY to an image holds the lock or has been revoked, and once the LUN of its
\* target is started it has been revoked.
CopyWatched == x["copy"].on =>
    /\ x["copy"].lk # None => x["copy"].lk \in lock \cup revoke
    /\ \A l \in Luns : lun[l].on /\ CopyingTo(l) => x["copy"].lk \in revoke

\* NoHostWriteUnderLun with what keeps it.
UnderInv == ~Excused => "wrote_under_lun" \notin hist /\ CopyWatched

\* The inductive invariant.
Inv == LockHasHolder /\ KeptInv /\ OneEntry /\ ApartInv /\ AtomicInv /\ UnderInv

\* What a step that writes nothing and takes no image away adds to the events.
Quiet ==
    /\ hist \subseteq hist'
    /\ "wrote_under_lun" \in hist' => "wrote_under_lun" \in hist
    /\ "image_freed" \in hist' => "image_freed" \in hist

\* The transfers, by name.
LEMMA XferNames ==
  /\ {"mtp", "put", "form", "copy"} = Xfers
  /\ Uploads = {"mtp", "put", "form"} /\ Uploads \subseteq Xfers
  BY Zenon DEF Xfers, Uploads

\* A stopped LUN is started on its image, or nothing happens to it.
LEMMA StartInv ==
  ASSUME Shape, Shape', Inv, NEW l \in Luns, NEW told \in BOOLEAN, CheckLunImage(l, told),
         UNCHANGED <<card, part, content, lunDirectory, x>>,
         \/ HostRevokeLun(l) /\ told = (x["copy"].lk = l)
         \/ ~told /\ UNCHANGED <<lock, revoke>>
  PROVE  Inv'
<1>0. Path(l) \in Paths /\ \A m \in Luns : Path(m)' = Path(m)
  BY PathType, Zenon DEF Path
<1>1. lock' \cup revoke' = lock \cup revoke /\ revoke \subseteq revoke'
      /\ (told => x["copy"].lk = l)
      /\ (told /\ l \in lock \cup revoke => l \in revoke')
  BY Zenon DEF HostRevokeLun
<1>2. LockHasHolder'
  BY <1>1, Zenon DEF Inv, LockHasHolder
<1>3. CASE UNCHANGED <<lun, hist>>
  BY <1>0, <1>1, <1>2, <1>3
     DEF Inv, KeptInv, StartedImageKept, CopyingTo, OneEntry, ApartInv, Apart, Private,
         AtomicInv, Uploading, UnderInv, CopyWatched, Excused
<1>4. CASE /\ ~lun[l].on /\ card[Path(l)] # None
           /\ lun' = [lun EXCEPT ![l] = [on |-> TRUE, fil |-> card[Path(l)]]]
           /\ hist' = hist \cup Taken(l, told)
  <2>1. /\ lun'[l].on /\ lun'[l].fil = card[Path(l)] /\ card[Path(l)] \in Files
        /\ \A m \in Luns : m # l => lun'[m] = lun[m]
    BY <1>0, <1>4, Zenon DEF Shape
  <2>2. /\ hist \subseteq hist' /\ (CopyingTo(l) => "copy_taken" \in hist')
        /\ (CopyingTo(l) /\ ~told => "unannounced" \in hist')
        /\ hist' \subseteq hist \cup {"copy_taken", "unannounced"}
    BY <1>4, Zenon DEF Taken
  <2>3. KeptInv'
    BY <1>0, <2>1, <2>2, Zenon DEF Inv, KeptInv, StartedImageKept, CopyingTo
  <2>4. ApartInv'
    <3> SUFFICES ASSUME Apart PROVE Apart'
      BY <2>2, Zenon DEF Inv, ApartInv
    <3>1. QED
      BY Zenon DEF Apart, Private, Uploading
  <2>5. AtomicInv'
    BY <2>2, Zenon DEF Inv, AtomicInv, Uploading
  <2>6. UnderInv'
    <3> SUFFICES ASSUME ~Excused' PROVE (UnderInv')
      BY Zenon DEF UnderInv
    <3>1. ~Excused /\ "wrote_under_lun" \notin hist' /\ CopyWatched
          /\ (CopyingTo(l) => told)
      BY <2>2, Zenon DEF Inv, UnderInv, Excused
    <3>3. CopyWatched'
      <4> SUFFICES ASSUME x["copy"].on PROVE CopyWatched'
        BY Zenon DEF CopyWatched
      <4>1. CopyingTo(l) => x["copy"].lk \in revoke'
        <5>1. HAVE CopyingTo(l)
        <5>2. x["copy"].lk = l
          BY <1>1, <3>1, <5>1, Zenon
        <5>3. l \in lock \cup revoke
          BY <3>1, <5>2, NoneApart, Zenon DEF CopyWatched
        <5>4. QED
          BY <1>1, <3>1, <5>1, <5>2, <5>3, Zenon
      <4>2. QED
        BY <1>0, <1>1, <2>1, <3>1, <4>1, Zenon DEF CopyWatched, CopyingTo
    <3>4. QED
      BY <3>1, <3>3, Zenon DEF UnderInv
  <2>7. OneEntry'
    BY Zenon DEF Inv, OneEntry
  <2>8. QED
    BY <1>2, <2>7, <2>3, <2>4, <2>5, <2>6, Zenon DEF Inv
<1>5. QED
  BY <1>3, <1>4, Zenon DEF CheckLunImage

\* What the invariants read of a transfer is as it was.
SameX(u) ==
    /\ x'[u].on = x[u].on /\ x'[u].path = x[u].path /\ x'[u].fil = x[u].fil
    /\ x'[u].lk = x[u].lk /\ x'[u].todo = x[u].todo /\ x'[u].failed = x[u].failed
    /\ x'[u].inPlace = x[u].inPlace

\* LUNs are stopped, the jukebox directory changes once all are.
LEMMA StopInv ==
  ASSUME Shape, Shape', Inv, \A u \in Xfers : SameX(u),
         UNCHANGED <<card, part, content, lock, revoke, hist>>,
         \A m \in Luns : lun'[m].on => lun[m].on /\ lun'[m].fil = lun[m].fil,
         UNCHANGED lunDirectory \/ \A m \in Luns : ~lun'[m].on
  PROVE  Inv'
<1>0. /\ \A m \in Luns : lun'[m].on => Path(m)' = Path(m)
      /\ \A u \in {"mtp", "put", "form", "copy"} : SameX(u)
  BY XferNames, Zenon DEF Path
<1>1. LockHasHolder'
  BY <1>0 DEF Inv, LockHasHolder, SameX
<1>2. KeptInv'
  BY <1>0, Zenon DEF Inv, KeptInv, StartedImageKept, CopyingTo, SameX
<1>3. ApartInv'
  <2> SUFFICES ASSUME Apart PROVE Apart'
    BY Zenon DEF Inv, ApartInv
  <2>2. ASSUME NEW t \in Uploads PROVE Private(t)'
    BY <1>0, <2>2, XferNames DEF Apart, Private, Uploading, SameX
  <2>3. QED
    BY <2>2, Zenon DEF Apart
<1>4. AtomicInv'
  BY <1>0, XferNames DEF Inv, AtomicInv, Uploading, SameX
<1>5. UnderInv'
  BY <1>0 DEF Inv, UnderInv, Excused, CopyWatched, CopyingTo, SameX
<1>6. OneEntry'
  BY Zenon DEF Inv, OneEntry
<1>7. QED
  BY <1>6, <1>1, <1>2, <1>3, <1>4, <1>5, Zenon DEF Inv

\* What is true of the file a step creates.
LEMMA FreshApart ==
  ASSUME NEW f, Fresh(f)
  PROVE  /\ f \in Files /\ f # None
         /\ \A p \in Paths : card[p] # f /\ part[p] # f
         /\ \A l \in Luns : lun[l].fil # f
         /\ \A t \in Xfers : x[t].fil # f
  BY NoneApart, Zenon DEF Fresh, Held

\* FORMAT puts a new image in place of the old one.
LEMMA FormatInv ==
  ASSUME Shape, Shape', Inv, NEW l \in Luns, NEW ok \in BOOLEAN, scsiCommandFormat(l, ok)
  PROVE  Inv'
<1>0. \A m \in Luns : Path(m) \in Paths /\ Path(m)' = Path(m)
  BY PathType, Zenon DEF Path, scsiCommandFormat
<1>1. UNCHANGED <<part, lunDirectory, lock, revoke, x>>
  BY Zenon DEF scsiCommandFormat
<1>2. PICK f \in Files : /\ Fresh(f) /\ card' = [card EXCEPT ![Path(l)] = f]
                         /\ content' = [content EXCEPT ![f] = "whole"]
                         /\ lun' = [lun EXCEPT ![l] = IF ok THEN [on |-> TRUE, fil |-> f]
                              ELSE Stopped]
  BY Zenon DEF scsiCommandFormat
<1>3. /\ card'[Path(l)] = f /\ \A p \in Paths : p # Path(l) => card'[p] = card[p]
      /\ content'[f] = "whole" /\ \A g \in Files : g # f => content'[g] = content[g]
      /\ lun'[l].on => lun'[l].fil = f
      /\ \A m \in Luns : m # l => lun'[m] = lun[m] /\ Path(m) # Path(l)
  BY <1>0, <1>2, Zenon DEF Shape, Stopped, Path
<1>4. /\ hist \subseteq hist' /\ (CopyingTo(l) => {"copy_taken", "unannounced"} \subseteq hist')
      /\ hist' \subseteq hist \cup {"copy_taken", "unannounced"}
  BY Zenon DEF scsiCommandFormat, Taken
<1>5. LockHasHolder'
  BY <1>1, Zenon DEF Inv, LockHasHolder
<1>6. KeptInv'
  BY <1>0, <1>1, <1>3, <1>4 DEF Inv, KeptInv, StartedImageKept, CopyingTo
<1>7. ApartInv'
  <2> SUFFICES ASSUME Apart PROVE Apart'
    BY <1>4, Zenon DEF Inv, ApartInv
  <2>3. \A t \in Uploads : Private(t)'
    BY <1>1, <1>2, <1>3, FreshApart, XferNames DEF Apart, Private, Uploading
  <2>4. QED
    BY <2>3, Zenon DEF Apart
<1>8. AtomicInv'
  BY <1>1, <1>2, <1>3, <1>4, FreshApart, XferNames DEF Inv, AtomicInv, Uploading, Shape, XShape
<1>9. UnderInv'
  <2> SUFFICES ASSUME ~Excused' PROVE UnderInv'
    BY Zenon DEF UnderInv
  <2>1. ~Excused /\ "wrote_under_lun" \notin hist' /\ CopyWatched /\ ~CopyingTo(l)
    BY <1>4, Zenon DEF Inv, UnderInv, Excused
  <2>3. CopyWatched'
    BY <1>0, <1>1, <1>3, <2>1, Zenon DEF CopyWatched, CopyingTo
  <2>4. QED
    BY <2>1, <2>3, Zenon DEF UnderInv
<1>10. OneEntry'
  BY <1>0, <1>1, <1>2, <1>3, FreshApart DEF Inv, OneEntry
<1>11. QED
  BY <1>10, <1>5, <1>6, <1>7, <1>8, <1>9, Zenon DEF Inv

\* A command of the Beeb.
LEMMA BeebInv == ASSUME Shape, Shape', Inv, BeebStep PROVE Inv'
<1>1. ASSUME NEW l \in Luns, scsiStart(l) PROVE Inv'
  <2>1. PICK told \in BOOLEAN : told = (x["copy"].lk = l)
    BY Zenon
  <2>2. CheckLunImage(l, told)
    BY <1>1, <2>1, Zenon DEF scsiStart
  <2>3. QED
    BY <1>1, <2>1, <2>2, StartInv, Zenon DEF scsiStart
<1>2. ASSUME NEW l \in Luns, scsiStop(l) PROVE Inv'
  <2>1. \A m \in Luns : lun'[m].on => lun[m].on /\ lun'[m].fil = lun[m].fil
    BY <1>2, Zenon DEF scsiStop, Stopped, Shape
  <2>2. QED
    BY <1>2, <2>1, StopInv, Zenon DEF scsiStop, SameX
<1>3. ASSUME NEW l \in Luns, scsiCommandModeSelect6(l) PROVE Inv'
  BY <1>3, StartInv, Zenon DEF scsiCommandModeSelect6
<1>4. ASSUME NEW l \in Luns, NEW ok \in BOOLEAN, scsiCommandFormat(l, ok) PROVE Inv'
  BY <1>4, FormatInv, Zenon
<1>10. ASSUME NEW l \in Luns, FormatRefused(l) PROVE Inv'
  <2>1. \A m \in Luns : lun'[m].on => lun[m].on /\ lun'[m].fil = lun[m].fil
    BY <1>10, Zenon DEF FormatRefused, Stopped, Shape
  <2>2. QED
    BY <1>10, <2>1, StopInv, Zenon DEF FormatRefused, SameX
<1>5. ASSUME NEW d \in Dirs, scsiBeebScsiSelect(d) PROVE Inv'
  BY <1>5, StopInv, Zenon DEF scsiBeebScsiSelect, SameX
<1>6. ASSUME Remounted, UNCHANGED <<card, part, content, lock, revoke, hist>> PROVE Inv'
  <2>1. \A m \in Luns : ~lun'[m].on
    BY <1>6, Zenon DEF Remounted, Stopped
  <2>2. ASSUME NEW u \in Xfers PROVE SameX(u)
    <3>1. x'[u] = [x[u] EXCEPT !.valid = ~x[u].on] /\ x[u] \in XferSet
      BY <1>6, Zenon DEF Remounted, Shape, XShape
    <3>2. QED
      BY <3>1, Zenon DEF XferSet, SameX
  <2>3. QED
    BY <1>6, <2>1, <2>2, StopInv, Zenon
<1>7. ASSUME NEW d \in Dirs, hd_emulator_write_scsijuke(d) PROVE Inv'
  BY <1>6, <1>7, Zenon DEF hd_emulator_write_scsijuke
<1>8. CASE filesystemReset
  BY <1>6, <1>8, Zenon DEF filesystemReset
<1>9. QED
  BY <1>1, <1>2, <1>3, <1>4, <1>5, <1>7, <1>8, <1>10, Zenon DEF BeebStep

\* What a step of the network and USB side does to the lock of a COPY that
\* is no part of it.
CopyLockKept ==
    /\ Quiet
    /\ "lock_stolen" \notin hist' /\ x["copy"].lk # None =>
         /\ x["copy"].lk \in lock \cup revoke => x["copy"].lk \in lock' \cup revoke'
         /\ x["copy"].lk \in revoke => x["copy"].lk \in revoke'

\* The lock of an ended transfer is given back.
LEMMA UnlockHolder ==
  ASSUME Shape, LockHasHolder, NEW t \in {"mtp", "copy"}, Ended(t), Unlock(t)
  PROVE  LockHasHolder'
<1>1. /\ \A u \in {"mtp", "copy"} : u # t => x'[u] = x[u]
  BY EndedX, XferNames, Zenon DEF Shape
<1>2. QED
  BY <1>1 DEF LockHasHolder, Unlock

\* A transfer ends and leaves the images alone.
LEMMA EndInv ==
  ASSUME Shape, Shape', Inv, NEW t \in Xfers, Ended(t), LockHasHolder',
         t # "copy" => CopyLockKept,
         Quiet,
         part' = part \/ (t \in Uploads /\ Uploading(t) /\ part' = PartDropped(t)),
         UNCHANGED <<card, content, lunDirectory, lun>>
  PROVE  Inv'
<1>0. /\ \A m \in Luns : Path(m)' = Path(m)
      /\ x'[t] = Idle /\ ~Idle.on /\ Idle.fil = None
      /\ \A u \in Xfers : u # t => x'[u] = x[u]
  BY EndedX, IdleX, Zenon DEF Path, Shape
<1>1. \A u \in Xfers : x'[u].on => u # t
  BY <1>0, Zenon
<1>2. KeptInv'
  BY <1>0, <1>1, XferNames, Zenon DEF Inv, KeptInv, StartedImageKept, CopyingTo, Quiet
<1>3. ApartInv'
  <2> SUFFICES ASSUME Apart PROVE Apart'
    BY Zenon DEF Inv, ApartInv, Quiet
  <2>2. ASSUME NEW u \in Uploads, Uploading(u)' PROVE Private(u)'
    <3>1. u # t /\ u \in Xfers /\ x'[u] = x[u] /\ Uploading(u) /\ Private(u)
          /\ x[u].path \in Paths /\ x[u].fil \in Files
      BY <1>0, <1>1, <2>2, XferNames DEF Apart, Uploading, Shape, XShape
    <3>2. part'[x[u].path] = part[x[u].path]
      BY <3>1, Zenon DEF PartDropped, Private, Shape
    <3>3. QED
      BY <1>0, <1>1, <3>1, <3>2, NoneApart, XferNames DEF Private, Uploading
  <2>3. QED
    BY <2>2, Zenon DEF Apart, Private
<1>4. AtomicInv'
  BY <1>0, <1>1, XferNames DEF Inv, AtomicInv, Uploading, Quiet
<1>5. UnderInv'
  <2> SUFFICES ASSUME ~Excused' PROVE UnderInv'
    BY Zenon DEF UnderInv
  <2>1. ~Excused /\ "lock_stolen" \notin hist' /\ "wrote_under_lun" \notin hist'
        /\ CopyWatched
    BY Zenon DEF Inv, UnderInv, Excused, Quiet
  <2>3. CopyWatched'
    <3> SUFFICES ASSUME x'["copy"].on PROVE CopyWatched'
      BY Zenon DEF CopyWatched
    <3>1. t # "copy" /\ x'["copy"] = x["copy"] /\ CopyLockKept
      BY <1>0, <1>1, XferNames, Zenon
    <3>2. x["copy"].lk \in revoke => x["copy"].lk # None
      BY NoneApart, Zenon DEF Shape
    <3>3. QED
      BY <1>0, <2>1, <3>1, <3>2, Zenon DEF CopyWatched, CopyingTo, CopyLockKept
  <2>4. QED
    BY <2>1, <2>3, Zenon DEF UnderInv
<1>6. OneEntry'
  <2>1. x[t].path \in Paths \/ part' = part
    BY Zenon DEF Uploading, Shape, XShape
  <2>2. \A p \in Paths : part'[p] = part[p] \/ part'[p] = None
    BY <2>1, Zenon DEF PartDropped, Shape
  <2>3. QED
    BY <2>2, Zenon DEF Inv, OneEntry
<1>7. QED
  BY <1>2, <1>3, <1>4, <1>5, <1>6, Zenon DEF Inv

\* A finished upload takes the place of the image.
LEMMA PromoteInv ==
  ASSUME Shape, Shape', Inv, NEW t \in Uploads, Uploading(t), x[t].todo = 0, ~x[t].failed,
         Ended(t), Promoted(t), ~PathBusy(x[t].path), LockHasHolder', CopyLockKept,
         content' = content \/ "unsynced" \in hist', UNCHANGED <<lunDirectory, lun>>
  PROVE  Inv'
<1>0. /\ \A m \in Luns : Path(m)' = Path(m) /\ Path(m) \in Paths
      /\ t \in Xfers /\ x'[t] = Idle /\ ~Idle.on /\ Idle.fil = None
      /\ \A u \in Xfers : u # t => x'[u] = x[u]
  BY EndedX, IdleX, PathType, XferNames, Zenon DEF Path, Shape
<1>1. \A u \in Xfers : x'[u].on => u # t
  BY <1>0, Zenon
<1>2. x[t].path \in Paths /\ x[t].fil \in Files
  BY <1>0, Zenon DEF Shape, XShape, Uploading
<1>3. /\ \/ card'[x[t].path] = None
         \/ card'[x[t].path] = part[x[t].path] /\ part'[x[t].path] = None
      /\ part'[x[t].path] = None \/ part'[x[t].path] = part[x[t].path]
      /\ \A p \in Paths : p # x[t].path => card'[p] = card[p] /\ part'[p] = part[p]
  BY <1>2 DEF Promoted, PartDropped, Shape
<1>4. \A m \in Luns : lun[m].on => Path(m) # x[t].path
  BY Zenon DEF PathBusy, BusyWith
<1>5. Quiet
  BY Zenon DEF CopyLockKept
<1>6. KeptInv'
  BY <1>0, <1>1, <1>3, <1>4, <1>5, XferNames DEF Inv, KeptInv, StartedImageKept, CopyingTo, Quiet
<1>7. ASSUME Apart
      PROVE  /\ part[x[t].path] = x[t].fil
             /\ \A p \in Paths : card[p] # x[t].fil
             /\ \A u \in Xfers \ {t} : x[u].fil # x[t].fil
             /\ \A u \in Uploads \ {t} : Uploading(u) => x[u].path # x[t].path
  BY <1>7, Zenon DEF Apart, Private
<1>8. ApartInv'
  <2> SUFFICES ASSUME Apart PROVE Apart'
    BY <1>5, Zenon DEF Inv, ApartInv, Quiet
  <2>3. ASSUME NEW u \in Uploads, Uploading(u)' PROVE Private(u)'
    <3>1. u # t /\ u \in Xfers /\ x'[u] = x[u] /\ Uploading(u) /\ Private(u)
          /\ x[u].path \in Paths /\ x[u].fil \in Files
      BY <1>0, <1>1, <2>3, XferNames DEF Apart, Uploading, Shape, XShape
    <3>2. x[u].fil # x[t].fil /\ x[u].path # x[t].path
      BY <1>7, <3>1, Zenon
    <3>3. QED
      BY <1>0, <1>1, <1>2, <1>3, <1>7, <3>1, <3>2, NoneApart, XferNames DEF Private, Uploading
  <2>4. QED
    BY <2>3, Zenon DEF Apart, Private
<1>9. AtomicInv'
  <2> SUFFICES ASSUME hist' \cap {"shared_part", "unsynced"} = {} PROVE AtomicInv'
    BY Zenon DEF AtomicInv
  <2>1. /\ \A p \in Paths : card[p] # None => content[card[p]] # "upload"
        /\ \A u \in Uploads : Uploading(u) /\ x[u].todo = 0 /\ ~x[u].failed
             => content[x[u].fil] = "whole"
        /\ content' = content /\ Apart
    BY <1>5, Zenon DEF Inv, AtomicInv, ApartInv, Quiet
  <2>2. \A p \in Paths : card'[p] # None => content[card'[p]] # "upload"
    BY <1>3, <1>7, <2>1, Zenon DEF Uploads
  <2>3. \A u \in Uploads : Uploading(u)' /\ x'[u].todo = 0 /\ ~x'[u].failed
          => content[x'[u].fil] = "whole"
    BY <1>0, <1>1, <2>1, XferNames DEF Uploading
  <2>4. QED
    BY <2>1, <2>2, <2>3, Zenon DEF AtomicInv
<1>10. UnderInv'
  <2> SUFFICES ASSUME ~Excused' PROVE UnderInv'
    BY Zenon DEF UnderInv
  <2>1. ~Excused /\ "lock_stolen" \notin hist' /\ "wrote_under_lun" \notin hist'
        /\ CopyWatched
    BY <1>5, Zenon DEF Inv, UnderInv, Excused, Quiet
  <2>3. CopyWatched'
    <3> SUFFICES ASSUME x'["copy"].on PROVE CopyWatched'
      BY Zenon DEF CopyWatched
    <3>1. t # "copy" /\ x'["copy"] = x["copy"] /\ CopyLockKept
      BY <1>0, <1>1, XferNames, Zenon
    <3>2. x["copy"].lk \in revoke => x["copy"].lk # None
      BY NoneApart, Zenon DEF Shape
    <3>3. QED
      BY <1>0, <2>1, <3>1, <3>2, Zenon DEF CopyWatched, CopyingTo, CopyLockKept
  <2>4. QED
    BY <2>1, <2>3, Zenon DEF UnderInv
<1>11. OneEntry'
  BY <1>2, <1>3 DEF Inv, OneEntry
<1>12. QED
  BY <1>11, <1>6, <1>8, <1>9, <1>10, Zenon DEF Inv

\* An upload begins.
LEMMA BeginInv ==
  ASSUME Shape, Shape', Inv, NEW t \in Uploads, NEW p \in Paths, NEW f \in Files, Fresh(f),
         NEW l \in Luns \cup {None}, x' = [x EXCEPT ![t] = Open(t, p, f, l)],
         \/ part' = [part EXCEPT ![p] = f]
         \/ Uploading(t) /\ part' = [PartDropped(t) EXCEPT ![p] = f],
         content' = [content EXCEPT ![f] = "upload"], Shared(t, p) \subseteq hist',
         LockHasHolder', CopyLockKept, UNCHANGED <<card, lunDirectory, lun>>
  PROVE  Inv'
<1>0. \A m \in Luns : Path(m)' = Path(m)
  BY Zenon DEF Path
<1>1. /\ t \in Xfers /\ \A u \in Xfers : u # t => x'[u] = x[u]
      /\ x'[t].on /\ x'[t].path = p /\ x'[t].fil = f /\ x'[t].todo = MaxChunks /\ ~x'[t].inPlace
  <2>1. t \in Xfers /\ XShape
    BY XferNames, Zenon DEF Shape
  <2>2. PICK here \in BOOLEAN : here = FALSE
    BY Zenon
  <2>3. QED
    BY <2>1, <2>2, OpenedX, Zenon
<1>2. /\ f # None /\ \A q \in Paths : card[q] # f /\ part[q] # f
      /\ \A m \in Luns : lun[m].fil # f
      /\ \A u \in Xfers : x[u].fil # f
  BY FreshApart, Zenon
<1>3. content'[f] = "upload" /\ \A g \in Files : g # f => content'[g] = content[g]
  BY Zenon DEF Shape
<1>4. part'[p] = f /\ \A q \in Paths : q # p /\ (Uploading(t) => q # x[t].path)
        => part'[q] = part[q]
  BY Zenon DEF PartDropped, Shape
<1>11. \A q \in Paths : q # p => part'[q] = part[q] \/ part'[q] = None
  BY Zenon DEF PartDropped, Shape
<1>5. Quiet
  BY Zenon DEF CopyLockKept
<1>6. KeptInv'
  BY <1>0, <1>1, <1>5, XferNames DEF Inv, KeptInv, StartedImageKept, CopyingTo, Uploads, Quiet
<1>7. ApartInv'
  <2> SUFFICES ASSUME Apart, "shared_part" \notin hist' PROVE Apart'
    BY <1>5, Zenon DEF Inv, ApartInv, Quiet
  <2>2. \A u \in Uploads \ {t} : Uploading(u) => x[u].path # p
    BY XferNames, Zenon DEF Shared, Uploading
  <2>3. Private(t)'
    BY <1>1, <1>2, <1>4, <2>2, XferNames DEF Private, Uploading
  <2>4. ASSUME NEW u \in Uploads \ {t}, Uploading(u)' PROVE Private(u)'
    <3>1. u # t /\ u \in Xfers /\ x'[u] = x[u] /\ Uploading(u) /\ Private(u)
          /\ x[u].path \in Paths /\ x[u].fil \in Files
      BY <1>1, <2>4, XferNames, Zenon DEF Apart, Uploading, Shape, XShape
    <3>2. x[u].path # p /\ (Uploading(t) => x[u].path # x[t].path)
      BY <2>2, <3>1, Zenon DEF Private
    <3>3. QED
      BY <1>1, <1>2, <1>4, <3>1, <3>2, XferNames DEF Private, Uploading
  <2>5. QED
    BY <2>3, <2>4 DEF Apart, Private
<1>8. AtomicInv'
  <2> SUFFICES ASSUME hist' \cap {"shared_part", "unsynced"} = {} PROVE AtomicInv'
    BY Zenon DEF AtomicInv
  <2>1. /\ \A q \in Paths : card[q] # None => content[card[q]] # "upload"
        /\ \A u \in Uploads : Uploading(u) /\ x[u].todo = 0 /\ ~x[u].failed
             => content[x[u].fil] = "whole"
    BY <1>5, Zenon DEF Inv, AtomicInv, Quiet
  <2>2. \A q \in Paths : card[q] # None => content'[card[q]] # "upload"
    BY <1>2, <1>3, <2>1 DEF Shape
  <2>3. MaxChunks # 0
    BY ConstantsOK, Zenon
  <2>4. ASSUME NEW u \in Uploads, Uploading(u)', x'[u].todo = 0, ~x'[u].failed
        PROVE  content'[x'[u].fil] = "whole"
    <3>1. u # t /\ u \in Xfers /\ x'[u] = x[u] /\ x[u].on
      BY <1>1, <2>3, <2>4, XferNames, Zenon DEF Uploading
    <3>2. x[u].fil \in Files /\ x[u].fil # f
      BY <1>2, <3>1, Zenon DEF Shape, XShape
    <3>3. content[x[u].fil] = "whole"
      BY <2>1, <2>4, <3>1, Zenon DEF Uploading
    <3>4. QED
      BY <1>3, <3>1, <3>2, <3>3, Zenon
  <2>5. QED
    BY <2>2, <2>4, Zenon DEF AtomicInv
<1>9. UnderInv'
  <2> SUFFICES ASSUME ~Excused' PROVE UnderInv'
    BY Zenon DEF UnderInv
  <2>1. ~Excused /\ "lock_stolen" \notin hist' /\ "wrote_under_lun" \notin hist'
        /\ CopyWatched
    BY <1>5, Zenon DEF Inv, UnderInv, Excused, Quiet
  <2>3. "copy" # t
    BY XferNames, Zenon
  <2>4. CopyWatched'
    BY <1>0, <1>1, <2>1, <2>3, XferNames, NoneApart DEF CopyWatched, CopyingTo, CopyLockKept, Shape
  <2>5. QED
    BY <2>1, <2>4, Zenon DEF UnderInv
<1>10. OneEntry'
  BY <1>2, <1>4, <1>11 DEF Inv, OneEntry
<1>12. QED
  BY <1>10, <1>6, <1>7, <1>8, <1>9, Zenon DEF Inv

\* A write through a handle that has kept its entry lands in no file a started LUN
\* has open, when each LUN has kept its image and none is started at the target of a
\* ranged PUT or a COPY.
LEMMA NotUnder ==
  ASSUME Shape, Inv, "image_freed" \notin hist, NEW t \in Xfers, x[t].on, Entry(t) = x[t].fil,
         t = "copy" \/ x[t].inPlace => \A l \in Luns : lun[l].on => Path(l) # x[t].path
  PROVE  UnderLun(t) = {}
<1>1. x[t].path \in Paths /\ x[t].fil # None
  BY NoneApart, Zenon DEF Shape, XShape
<1>2. ASSUME NEW l \in Luns, lun[l].on PROVE card[Path(l)] = lun[l].fil /\ lun[l].fil # x[t].fil
  <2>1. card[Path(l)] = lun[l].fil /\ Path(l) \in Paths
    BY <1>2, PathType, Zenon DEF Inv, KeptInv, StartedImageKept
  <2>2. CASE t = "copy" \/ x[t].inPlace
    <3>1. card[x[t].path] = x[t].fil /\ Path(l) # x[t].path
      BY <1>2, <2>2, Zenon DEF Entry
    <3>2. QED
      BY <1>1, <2>1, <3>1, Zenon DEF Inv, OneEntry
  <2>3. CASE ~(t = "copy" \/ x[t].inPlace)
    <3>1. part[x[t].path] = x[t].fil
      BY <2>3, Zenon DEF Entry
    <3>2. QED
      BY <1>1, <2>1, <3>1, Zenon DEF Inv, OneEntry
  <2>4. QED
    BY <2>1, <2>2, <2>3, Zenon
<1>3. ~Stale(t)
  BY Zenon DEF Stale
<1>4. QED
  BY <1>2, <1>3, Zenon DEF UnderLun

\* A chunk of an upload goes by, and reaches its file or not.
LEMMA UploadInv ==
  ASSUME Shape, Shape', Inv, NEW t \in Uploads, Uploading(t), x[t].todo > 0,
         \A u \in Xfers : u # t => x'[u] = x[u],
         x'[t].on, x'[t].path = x[t].path, x'[t].fil = x[t].fil, x'[t].lk = x[t].lk,
         ~x'[t].inPlace, x'[t].todo = x[t].todo - 1,
         \/ x[t].valid /\ Wrote(t, "upload")
         \/ x'[t].failed /\ UNCHANGED <<content, hist>>,
         UNCHANGED <<card, part, lunDirectory, lun, lock, revoke>>
  PROVE  Inv'
<1>0. \A m \in Luns : Path(m)' = Path(m)
  BY Zenon DEF Path
<1>1. t \in Xfers /\ x[t].fil \in Files /\ x[t].todo \in Nat
      /\ \A u \in Xfers : x'[u].path = x[u].path /\ x'[u].fil = x[u].fil
                          /\ x'[u].lk = x[u].lk /\ (Uploading(u)' => Uploading(u))
  BY XferNames DEF Uploading, Shape, XShape, XferSet
<1>2. /\ hist' = hist \/ (x[t].valid /\ hist' = hist \cup UnderLun(t) \cup StaleWrite(t))
      /\ \A g \in Files : g # x[t].fil => content'[g] = content[g]
      /\ x'[t].todo = 0 => content'[x[t].fil] = "whole" \/ x'[t].failed
  <2>1. CASE x[t].valid /\ Wrote(t, "upload")
    <3>1. /\ content' = [content EXCEPT ![x[t].fil] = IF x[t].todo = 1 THEN "whole" ELSE "upload"]
          /\ hist' = hist \cup UnderLun(t) \cup StaleWrite(t)
      BY <2>1, Zenon DEF Wrote
    <3>2. DOMAIN content = Files
      BY Zenon DEF Shape
    <3>3. x'[t].todo = 0 => x[t].todo = 1
      BY <1>1
    <3>4. QED
      BY <1>1, <2>1, <3>1, <3>2, <3>3, Zenon
  <2>2. CASE x'[t].failed /\ UNCHANGED <<content, hist>>
    BY <2>2, Zenon
  <2>3. QED
    BY <2>1, <2>2, Zenon
<1>3. hist \subseteq hist' /\ hist' \subseteq hist \cup {"wrote_under_lun", "stale_write"}
  BY <1>2, Zenon DEF UnderLun, StaleWrite
<1>4. ASSUME Apart
      PROVE  /\ \A p \in Paths : card[p] # x[t].fil
             /\ \A u \in Xfers \ {t} : x[u].fil # x[t].fil
  <2>1. Private(t)
    BY <1>4, Zenon DEF Apart
  <2>2. QED
    BY <2>1, Zenon DEF Private
<1>5. LockHasHolder'
  <2>1. \A u \in {"mtp", "copy"} : x[u].on => x'[u].on /\ x'[u].lk = x[u].lk
    BY <1>1, XferNames, Zenon
  <2>2. QED
    <3> SUFFICES ASSUME NEW l \in lock \cup revoke
                 PROVE  \E u \in {"mtp", "copy"} : x'[u].on /\ x'[u].lk = l
      BY Zenon DEF LockHasHolder
    <3>1. PICK u \in {"mtp", "copy"} : x[u].on /\ x[u].lk = l
      BY Zenon DEF Inv, LockHasHolder
    <3>2. QED
      BY <2>1, <3>1, Zenon
<1>6. KeptInv'
  BY <1>0, <1>3, XferNames, Zenon DEF Inv, KeptInv, StartedImageKept, CopyingTo
<1>7. ApartInv'
  <2> SUFFICES ASSUME Apart PROVE Apart'
    BY <1>3, Zenon DEF Inv, ApartInv
  <2>2. \A u \in Uploads : Private(u)'
    BY <1>1, XferNames DEF Apart, Private
  <2>3. QED
    BY <2>2, Zenon DEF Apart
<1>8. AtomicInv'
  <2> SUFFICES ASSUME hist' \cap {"shared_part", "unsynced"} = {} PROVE AtomicInv'
    BY Zenon DEF AtomicInv
  <2>1. /\ \A q \in Paths : card[q] # None => content[card[q]] # "upload"
        /\ \A u \in Uploads : Uploading(u) /\ x[u].todo = 0 /\ ~x[u].failed
             => content[x[u].fil] = "whole"
        /\ Apart
    BY <1>3, Zenon DEF Inv, AtomicInv, ApartInv
  <2>2. \A q \in Paths : card[q] # None => content'[card[q]] # "upload"
    <3> SUFFICES ASSUME NEW q \in Paths, card[q] # None PROVE content'[card[q]] # "upload"
      BY Zenon
    <3>1. card[q] \in Files /\ card[q] # x[t].fil
      <4>1. card[q] \in Files \cup {None}
        BY Zenon DEF Shape
      <4>2. QED
        BY <1>4, <2>1, <4>1, Zenon
    <3>2. QED
      BY <1>2, <2>1, <3>1, Zenon
  <2>3. ASSUME NEW u \in Uploads, Uploading(u)', x'[u].todo = 0, ~x'[u].failed
        PROVE  content'[x'[u].fil] = "whole"
    <3>1. CASE u = t
      BY <1>1, <1>2, <2>3, <3>1, Zenon
    <3>2. CASE u # t
      <4>1. u \in Xfers /\ x'[u] = x[u] /\ x[u].on /\ Uploading(u)
        BY <1>1, <2>3, <3>2, XferNames, Zenon DEF Uploading
      <4>2. x[u].fil \in Files /\ x[u].fil # x[t].fil
        BY <1>4, <2>1, <3>2, <4>1, Zenon DEF Shape, XShape
      <4>3. content[x[u].fil] = "whole"
        BY <2>1, <2>3, <4>1, Zenon
      <4>4. QED
        BY <1>2, <4>1, <4>2, <4>3, Zenon
    <3>3. QED
      BY <3>1, <3>2, Zenon
  <2>4. QED
    BY <2>2, <2>3, Zenon DEF AtomicInv
<1>9. UnderInv'
  <2> SUFFICES ASSUME ~Excused' PROVE UnderInv'
    BY Zenon DEF UnderInv
  <2>1. ~Excused /\ CopyWatched /\ "wrote_under_lun" \notin hist /\ "image_freed" \notin hist
        /\ "stale_write" \notin hist'
    BY <1>3, Zenon DEF Inv, UnderInv, Excused
  <2>2. "wrote_under_lun" \notin hist'
    <3> SUFFICES ASSUME x[t].valid, hist' = hist \cup UnderLun(t) \cup StaleWrite(t)
                 PROVE  "wrote_under_lun" \notin hist'
      BY <1>2, <2>1, Zenon
    <3>1. Entry(t) = x[t].fil
      BY <2>1, Zenon DEF StaleWrite, Stale, Uploading
    <3>2. x[t].on /\ ~(t = "copy" \/ x[t].inPlace)
      BY XferNames, Zenon DEF Uploading
    <3>3. UnderLun(t) = {}
      BY <1>1, <2>1, <3>1, <3>2, NotUnder, Zenon
    <3>4. QED
      BY <2>1, <3>3, Zenon DEF StaleWrite
  <2>4. "copy" # t
    BY XferNames, Zenon
  <2>5. CopyWatched'
    BY <1>0, <1>1, <2>1, <2>4, XferNames DEF CopyWatched, CopyingTo
  <2>6. QED
    BY <2>2, <2>5, Zenon DEF UnderInv
<1>10. OneEntry'
  BY Zenon DEF Inv, OneEntry
<1>11. QED
  BY <1>10, <1>5, <1>6, <1>7, <1>8, <1>9, Zenon DEF Inv

\* A ranged PUT or a COPY writes into the file it has open.
LEMMA OverwriteInv ==
  ASSUME Shape, Shape', Inv, LockHasHolder', NEW t \in Xfers, x[t].on, x[t].inPlace \/ t = "copy",
         NEW v \in {"whole", "copy", "patch"}, content' = [content EXCEPT ![x[t].fil] = v],
         hist \subseteq hist', "image_freed" \in hist' => "image_freed" \in hist,
         "wrote_under_lun" \in hist' => "wrote_under_lun" \in hist \/ Excused',
         \A u \in Xfers : u # t => x'[u] = x[u],
         \/ x'[t] = Idle
         \/ /\ x'[t].on /\ x'[t].path = x[t].path /\ x'[t].fil = x[t].fil /\ x'[t].lk = x[t].lk
            /\ x'[t].inPlace = x[t].inPlace,
         x'["copy"].on => UNCHANGED <<lock, revoke>>,
         UNCHANGED <<card, part, lunDirectory, lun>>
  PROVE  Inv'
<1>0. /\ \A m \in Luns : Path(m)' = Path(m)
      /\ x[t].fil \in Files /\ ~Idle.on /\ Idle.fil = None
  BY IdleX, Zenon DEF Path, Shape, XShape
<1>1. /\ \A g \in Files : g # x[t].fil => content'[g] = content[g]
      /\ content'[x[t].fil] # "upload"
  BY <1>0, Zenon DEF Shape
<1>2. \A u \in Uploads : /\ u \in Xfers
                         /\ Uploading(u) => u # t /\ x'[u] = x[u] /\ Uploading(u)'
                         /\ Uploading(u)' => u # t /\ x'[u] = x[u] /\ Uploading(u)
  BY <1>0, XferNames, Zenon DEF Uploading
<1>3. KeptInv'
  BY <1>0, XferNames DEF Inv, KeptInv, StartedImageKept, CopyingTo
<1>4. ApartInv'
  <2> SUFFICES ASSUME Apart PROVE Apart'
    BY Zenon DEF Inv, ApartInv
  <2>2. \A u \in Xfers : x'[u].fil = x[u].fil \/ x'[u].fil = None
    BY <1>0, Zenon
  <2>3. ASSUME NEW u \in Uploads, Uploading(u)' PROVE Private(u)'
    <3>1. u \in Xfers /\ x'[u] = x[u] /\ Uploading(u) /\ Private(u) /\ x[u].fil \in Files
      BY <1>2, <2>3, Zenon DEF Apart, Uploading, Shape, XShape
    <3>2. QED
      BY <1>2, <2>2, <3>1, NoneApart DEF Private
  <2>4. QED
    BY <2>3, Zenon DEF Apart, Private
<1>5. AtomicInv'
  <2> SUFFICES ASSUME hist' \cap {"shared_part", "unsynced"} = {} PROVE AtomicInv'
    BY Zenon DEF AtomicInv
  <2>1. /\ \A q \in Paths : card[q] # None => content[card[q]] # "upload"
        /\ \A u \in Uploads : Uploading(u) /\ x[u].todo = 0 /\ ~x[u].failed
             => content[x[u].fil] = "whole"
        /\ Apart
    BY Zenon DEF Inv, AtomicInv, ApartInv
  <2>2. \A q \in Paths : card[q] # None => content'[card[q]] # "upload"
    BY <1>1, <2>1 DEF Shape
  <2>3. ASSUME NEW u \in Uploads, Uploading(u)', x'[u].todo = 0, ~x'[u].failed
        PROVE  content'[x'[u].fil] = "whole"
    <3>1. u \in Xfers /\ u # t /\ x'[u] = x[u] /\ Uploading(u) /\ x[u].fil \in Files
      BY <1>2, <2>3, Zenon DEF Uploading, Shape, XShape
    <3>2. x[u].fil # x[t].fil
      BY <2>1, <3>1, Zenon DEF Apart, Private
    <3>3. QED
      BY <1>1, <2>1, <2>3, <3>1, <3>2, Zenon
  <2>4. QED
    BY <2>2, <2>3, Zenon DEF AtomicInv
<1>6. UnderInv'
  <2> SUFFICES ASSUME ~Excused' PROVE UnderInv'
    BY Zenon DEF UnderInv
  <2>1. ~Excused /\ "wrote_under_lun" \notin hist' /\ CopyWatched
    BY Zenon DEF Inv, UnderInv, Excused
  <2>3. CopyWatched'
    BY <1>0, <2>1, XferNames DEF CopyWatched, CopyingTo
  <2>4. QED
    BY <2>1, <2>3, Zenon DEF UnderInv
<1>7. OneEntry'
  BY Zenon DEF Inv, OneEntry
<1>8. QED
  BY <1>7, <1>3, <1>4, <1>5, <1>6, Zenon DEF Inv

\* An image is deleted: on request, or by a COPY that was revoked.
LEMMA RemoveInv ==
  ASSUME Shape, Shape', Inv, LockHasHolder', NEW p \in Paths, card' = [card EXCEPT ![p] = None],
         \A m \in Luns : lun[m].on /\ "image_freed" \notin hist' => Path(m) # p,
         hist \subseteq hist', "wrote_under_lun" \in hist' => "wrote_under_lun" \in hist,
         "image_freed" \in hist' => "image_freed" \in hist \/ "copy_taken" \in hist,
         Ended("copy") \/ UNCHANGED <<x, lock, revoke>>,
         UNCHANGED <<part, content, lunDirectory, lun>>
  PROVE  Inv'
<1>0. /\ \A m \in Luns : Path(m)' = Path(m) /\ Path(m) \in Paths
      /\ ~Idle.on /\ Idle.fil = None
  BY IdleX, PathType, Zenon DEF Path
<1>1. \A q \in Paths : card'[q] = IF q = p THEN None ELSE card[q]
  BY Zenon DEF Shape
<1>2. /\ \A u \in Xfers : u # "copy" => x'[u] = x[u]
      /\ x'["copy"] = Idle \/ UNCHANGED <<x, lock, revoke>>
  BY EndedX, XferNames, Zenon DEF Shape
<1>3. KeptInv'
  BY <1>0, <1>1, <1>2, Zenon DEF Inv, KeptInv, StartedImageKept, CopyingTo
<1>4. ApartInv'
  <2> SUFFICES ASSUME Apart PROVE Apart'
    BY Zenon DEF Inv, ApartInv
  <2>3. ASSUME NEW u \in Uploads, Uploading(u)' PROVE Private(u)'
    <3>1. u \in Xfers /\ x'[u] = x[u] /\ Uploading(u) /\ Private(u) /\ x[u].fil \in Files
      BY <1>2, <2>3, XferNames DEF Apart, Uploading, Shape, XShape
    <3>2. \A w \in Uploads : x'[w] = x[w]
      BY <1>2, XferNames, Zenon
    <3>3. QED
      BY <1>0, <1>1, <1>2, <3>1, <3>2, NoneApart DEF Private, Uploading
  <2>4. QED
    BY <2>3, Zenon DEF Apart, Private
<1>5. AtomicInv'
  BY <1>1, <1>2, XferNames DEF Inv, AtomicInv, Uploading
<1>6. UnderInv'
  <2> SUFFICES ASSUME ~Excused' PROVE UnderInv'
    BY Zenon DEF UnderInv
  <2>1. ~Excused /\ "wrote_under_lun" \notin hist' /\ CopyWatched
    BY Zenon DEF Inv, UnderInv, Excused
  <2>3. CopyWatched'
    <3> SUFFICES ASSUME x["copy"].on, UNCHANGED <<x, lock, revoke>> PROVE CopyWatched'
      BY <1>0, <1>2, Zenon DEF CopyWatched
    <3>1. QED
      BY <1>0, <2>1, Zenon DEF CopyWatched, CopyingTo
  <2>4. QED
    BY <2>1, <2>3, Zenon DEF UnderInv
<1>7. OneEntry'
  BY <1>1 DEF Inv, OneEntry
<1>8. QED
  BY <1>7, <1>3, <1>4, <1>5, <1>6, Zenon DEF Inv

\* An image is renamed.
LEMMA MoveInv ==
  ASSUME Shape, Shape', Inv, NEW p \in Paths, NEW q \in Paths, route_dav_move(p, q)
  PROVE  Inv'
<1>0. /\ \A m \in Luns : Path(m)' = Path(m) /\ Path(m) \in Paths
      /\ UNCHANGED <<part, content, lunDirectory, lun, lock, revoke, x>>
      /\ p # q /\ card[p] # None
      /\ \A m \in Luns : lun[m].on => Path(m) # p /\ Path(m) # q
  BY PathType, Zenon DEF Path, route_dav_move, PathBusy, BusyWith
<1>1. \A r \in Paths : card'[r] = IF r = p THEN None ELSE IF r = q THEN card[p] ELSE card[r]
  BY Zenon DEF Shape, route_dav_move
<1>2. hist \subseteq hist' /\ hist' \subseteq hist \cup {"moved_open"}
  BY Zenon DEF route_dav_move
<1>3. LockHasHolder'
  BY <1>0, Zenon DEF Inv, LockHasHolder
<1>4. KeptInv'
  BY <1>0, <1>1, <1>2, Zenon DEF Inv, KeptInv, StartedImageKept, CopyingTo
<1>5. ApartInv'
  <2> SUFFICES ASSUME Apart PROVE Apart'
    BY <1>2, Zenon DEF Inv, ApartInv
  <2>3. ASSUME NEW u \in Uploads, Uploading(u) PROVE Private(u)'
    <3>1. u \in Xfers /\ Private(u) /\ x[u].fil \in Files
      BY <2>3, XferNames, Zenon DEF Apart, Uploading, Shape, XShape
    <3>2. QED
      BY <1>0, <1>1, <2>3, <3>1, NoneApart, Zenon DEF Private, Uploading
  <2>4. QED
    BY <1>0, <2>3, Zenon DEF Apart, Private, Uploading
<1>6. AtomicInv'
  BY <1>0, <1>1, <1>2, Zenon DEF Inv, AtomicInv, Uploading
<1>7. UnderInv'
  <2> SUFFICES ASSUME ~Excused' PROVE UnderInv'
    BY Zenon DEF UnderInv
  <2>1. ~Excused /\ "wrote_under_lun" \notin hist' /\ CopyWatched
    BY <1>2, Zenon DEF Inv, UnderInv, Excused
  <2>3. CopyWatched'
    BY <1>0, <2>1, Zenon DEF CopyWatched, CopyingTo
  <2>4. QED
    BY <2>1, <2>3, Zenon DEF UnderInv
<1>8. OneEntry'
  BY <1>0, <1>1, Zenon DEF Inv, OneEntry
<1>9. QED
  BY <1>8, <1>3, <1>4, <1>5, <1>6, <1>7, Zenon DEF Inv

\* A ranged PUT begins.
LEMMA InPlaceInv ==
  ASSUME Shape, Shape', Inv, NEW p \in Paths, PutInPlace(p)
  PROVE  Inv'
<1>0. /\ \A m \in Luns : Path(m)' = Path(m)
      /\ UNCHANGED <<card, part, content, lunDirectory, lun, lock, revoke, hist>>
      /\ card[p] \in Files /\ card[p] # None
      /\ x' = [x EXCEPT !["put"] = [Open("put", p, card[p], None) EXCEPT !.inPlace = TRUE]]
  BY Zenon DEF Path, PutInPlace, Shape
<1>1. /\ \A u \in Xfers : u # "put" => x'[u] = x[u]
      /\ x'["put"].path = p /\ x'["put"].fil = card[p] /\ x'["put"].inPlace
  <2>1. "put" \in Xfers /\ XShape
    BY XferNames, Zenon DEF Shape
  <2>2. PICK here \in BOOLEAN : here
    BY Zenon
  <2>3. PICK none \in Luns \cup {None} : none = None
    BY Zenon
  <2>4. PICK f \in Files : f = card[p]
    BY <1>0, Zenon
  <2>5. here /\ x' = [x EXCEPT !["put"] = [Open("put", p, f, none) EXCEPT !.inPlace = TRUE]]
    BY <1>0, <2>2, <2>3, <2>4, Zenon
  <2>6. /\ \A u \in Xfers : u # "put" => x'[u] = x[u]
        /\ x'["put"].path = p /\ x'["put"].fil = f /\ x'["put"].inPlace = here
    BY <2>1, <2>5, OpenedX, Zenon
  <2>7. QED
    BY <2>2, <2>4, <2>6, Zenon
<1>2. LockHasHolder'
  BY <1>0, <1>1, XferNames DEF Inv, LockHasHolder
<1>3. KeptInv'
  BY <1>0, <1>1, XferNames, Zenon DEF Inv, KeptInv, StartedImageKept, CopyingTo
<1>4. ApartInv'
  <2> SUFFICES ASSUME Apart PROVE Apart'
    BY <1>0, Zenon DEF Inv, ApartInv
  <2>2. ASSUME NEW u \in Uploads, Uploading(u)' PROVE Private(u)'
    <3>1. u # "put" /\ u \in Xfers /\ x'[u] = x[u] /\ Uploading(u) /\ Private(u)
      BY <1>1, <2>2, XferNames, Zenon DEF Apart, Uploading
    <3>2. \A w \in Uploads : Uploading(w)' => Uploading(w) /\ x'[w] = x[w]
      BY <1>1, XferNames, Zenon DEF Uploading
    <3>3. \A w \in Xfers \ {u} : x'[w].fil # x[u].fil
      BY <1>0, <1>1, <2>2, <3>1 DEF Private
    <3>4. \A w \in Uploads \ {u} : Uploading(w)' => x'[w].path # x[u].path
      BY <3>1, <3>2, Zenon DEF Private
    <3>5. QED
      BY <1>0, <3>1, <3>3, <3>4, Zenon DEF Private
  <2>3. QED
    BY <2>2, Zenon DEF Apart, Private
<1>5. AtomicInv'
  BY <1>0, <1>1, XferNames DEF Inv, AtomicInv, Uploading
<1>6. UnderInv'
  <2> SUFFICES ASSUME ~Excused' PROVE UnderInv'
    BY Zenon DEF UnderInv
  <2>1. ~Excused /\ "wrote_under_lun" \notin hist' /\ CopyWatched
    BY <1>0, Zenon DEF Inv, UnderInv, Excused
  <2>3. CopyWatched'
    BY <1>0, <1>1, <2>1, XferNames DEF CopyWatched, CopyingTo
  <2>4. QED
    BY <2>1, <2>3, Zenon DEF UnderInv
<1>7. OneEntry'
  BY <1>0, Zenon DEF Inv, OneEntry
<1>8. QED
  BY <1>7, <1>2, <1>3, <1>4, <1>5, <1>6, Zenon DEF Inv

\* A COPY begins.
LEMMA CopyBeginInv ==
  ASSUME Shape, Shape', Inv, NEW p \in Paths, ~PathBusy(p), ~x["copy"].on,
         NEW f \in Files, Fresh(f), NEW l \in Luns \cup {None},
         card' = [card EXCEPT ![p] = f], content' = [content EXCEPT ![f] = "copy"],
         x' = [x EXCEPT !["copy"] = Open("copy", p, f, l)],
         lock' = lock \cup ({l} \ {None}), revoke' = revoke \ {l},
         hist' = hist \cup Stolen("copy", l), UNCHANGED <<part, lunDirectory, lun>>
  PROVE  Inv'
<1>0. \A m \in Luns : Path(m)' = Path(m) /\ Path(m) \in Paths /\ (lun[m].on => Path(m) # p)
  BY PathType, Zenon DEF Path, PathBusy, BusyWith
<1>1. /\ \A u \in Xfers : u # "copy" => x'[u] = x[u]
      /\ x'["copy"].on /\ x'["copy"].path = p /\ x'["copy"].fil = f /\ x'["copy"].lk = l
  <2>1. "copy" \in Xfers /\ XShape
    BY XferNames, Zenon DEF Shape
  <2>2. PICK here \in BOOLEAN : here = FALSE
    BY Zenon
  <2>3. QED
    BY <2>1, <2>2, OpenedX, Zenon
<1>2. /\ f # None /\ \A q \in Paths : card[q] # f /\ part[q] # f
      /\ \A m \in Luns : lun[m].fil # f
      /\ \A u \in Xfers : x[u].fil # f
  BY FreshApart, Zenon
<1>3. /\ content'[f] = "copy" /\ \A g \in Files : g # f => content'[g] = content[g]
      /\ card'[p] = f /\ \A q \in Paths : q # p => card'[q] = card[q]
  BY Zenon DEF Shape
<1>4. hist \subseteq hist' /\ hist' \subseteq hist \cup {"lock_stolen"}
  BY Zenon DEF Stolen
<1>5. LockHasHolder'
  BY <1>1, XferNames DEF Inv, LockHasHolder
<1>6. KeptInv'
  BY <1>0, <1>1, <1>3, <1>4 DEF Inv, KeptInv, StartedImageKept, CopyingTo
<1>7. ApartInv'
  <2> SUFFICES ASSUME Apart PROVE Apart'
    BY <1>4, Zenon DEF Inv, ApartInv
  <2>3. ASSUME NEW u \in Uploads, Uploading(u)' PROVE Private(u)'
    <3>1. u # "copy" /\ u \in Xfers /\ x'[u] = x[u] /\ Uploading(u) /\ Private(u)
      BY <1>1, <2>3, XferNames, Zenon DEF Apart, Uploading
    <3>2. \A w \in Uploads : x'[w] = x[w]
      BY <1>1, XferNames, Zenon
    <3>3. \A w \in Xfers \ {u} : x'[w].fil # x[u].fil
      BY <1>1, <1>2, <3>1 DEF Private
    <3>4. \A q \in Paths : card'[q] # x[u].fil
      BY <1>2, <1>3, <3>1 DEF Private
    <3>5. QED
      BY <3>1, <3>2, <3>3, <3>4, Zenon DEF Private, Uploading
  <2>4. QED
    BY <2>3, Zenon DEF Apart, Private
<1>8. AtomicInv'
  <2> SUFFICES ASSUME hist' \cap {"shared_part", "unsynced"} = {} PROVE AtomicInv'
    BY Zenon DEF AtomicInv
  <2>1. /\ \A q \in Paths : card[q] # None => content[card[q]] # "upload"
        /\ \A u \in Uploads : Uploading(u) /\ x[u].todo = 0 /\ ~x[u].failed
             => content[x[u].fil] = "whole"
    BY <1>4, Zenon DEF Inv, AtomicInv
  <2>2. \A q \in Paths : card'[q] # None => content'[card'[q]] # "upload"
    BY <1>2, <1>3, <2>1, Zenon DEF Shape
  <2>3. ASSUME NEW u \in Uploads, Uploading(u)', x'[u].todo = 0, ~x'[u].failed
        PROVE  content'[x'[u].fil] = "whole"
    <3>1. u \in Xfers /\ x'[u] = x[u] /\ Uploading(u)
      BY <1>1, <2>3, XferNames, Zenon DEF Uploading
    <3>2. x[u].fil \in Files /\ x[u].fil # f
      BY <1>2, <3>1, Zenon DEF Shape, XShape, Uploading
    <3>3. QED
      BY <1>3, <2>1, <2>3, <3>1, <3>2
  <2>4. QED
    BY <2>2, <2>3, Zenon DEF AtomicInv
<1>9. UnderInv'
  <2> SUFFICES ASSUME ~Excused' PROVE UnderInv'
    BY Zenon DEF UnderInv
  <2>1. ~Excused /\ "wrote_under_lun" \notin hist'
    BY <1>4, Zenon DEF Inv, UnderInv, Excused
  <2>4. CopyWatched'
    <3>2. l # None => l \in lock'
      BY Zenon
    <3>3. QED
      BY <1>0, <1>1, <3>2, Zenon DEF CopyWatched, CopyingTo
  <2>5. QED
    BY <2>1, <2>4, Zenon DEF UnderInv
<1>10. OneEntry'
  BY <1>2, <1>3 DEF Inv, OneEntry
<1>11. QED
  BY <1>10, <1>5, <1>6, <1>7, <1>8, <1>9, Zenon DEF Inv

\* Ending an MTP upload is recorded when it takes the lock of a COPY away.
LEMMA MtpUnlock ==
  ASSUME Shape, Unlock("mtp"), Stolen("mtp", x["mtp"].lk) \subseteq hist', Quiet
  PROVE  CopyLockKept
  BY Zenon DEF CopyLockKept, Unlock, Stolen

\* The steps of an MTP upload.
LEMMA MtpInv ==
  ASSUME Shape, Shape', Inv,
         \/ \E p \in Paths : fs_send_object_info(p)
         \/ fs_send_object \/ tud_mtp_data_complete_cb \/ tud_mtp_request_cancel_cb
  PROVE  Inv'
<1>0. /\ "mtp" \in Xfers /\ "mtp" \in Uploads /\ XShape /\ LockHasHolder
      /\ x["mtp"].on => Uploading("mtp")
  BY XferNames, Zenon DEF Shape, XShape, Inv, Uploading
<1>1. ASSUME NEW p \in Paths, fs_send_object_info(p) PROVE Inv'
  <2> DEFINE l == LunFromHostPath(p)
  <2>0. l \in Luns \cup {None}
    BY LunOfPath, Zenon
  <2>1. UNCHANGED <<card, lunDirectory, lun>>
    BY <1>1, Zenon DEF fs_send_object_info
  <2>2. CASE fs_release_write_state /\ part' = PartReleased /\ UNCHANGED content
    <3>1. /\ Ended("mtp") /\ Unlock("mtp")
          /\ hist' = hist \cup Stolen("mtp", x["mtp"].lk) \cup StaleWrite("mtp")
      BY <2>2, Zenon DEF fs_release_write_state
    <3>2. Quiet /\ Stolen("mtp", x["mtp"].lk) \subseteq hist'
      BY <3>1, Zenon DEF Stolen, StaleWrite, Quiet
    <3>3. LockHasHolder' /\ CopyLockKept
      BY <1>0, <3>1, <3>2, UnlockHolder, MtpUnlock, Zenon
    <3>4. part' = part \/ (Uploading("mtp") /\ part' = PartDropped("mtp"))
      BY <1>0, <2>2, Zenon DEF PartReleased
    <3>5. QED
      BY <1>0, <2>1, <2>2, <3>1, <3>2, <3>3, <3>4, EndInv, Zenon
  <2>3. CASE /\ \E f \in Files :
                 /\ Fresh(f)
                 /\ part' = [PartReleased EXCEPT ![p] = f]
                 /\ content' = [content EXCEPT ![f] = "upload"]
                 /\ x' = [x EXCEPT !["mtp"] = Open("mtp", p, f, l)]
             /\ lock' = (lock \ {x["mtp"].lk}) \cup ({l} \ {None})
             /\ revoke' = revoke \ {x["mtp"].lk, l}
             /\ hist' = hist \cup Stolen("mtp", x["mtp"].lk) \cup Stolen("mtp", l)
                            \cup Shared("mtp", p) \cup StaleWrite("mtp")
    <3>1. PICK f \in Files :
                 /\ Fresh(f)
                 /\ part' = [PartReleased EXCEPT ![p] = f]
                 /\ content' = [content EXCEPT ![f] = "upload"]
                 /\ x' = [x EXCEPT !["mtp"] = Open("mtp", p, f, l)]
      BY <2>3, Zenon
    <3> HIDE DEF l
    <3>2. Quiet /\ Shared("mtp", p) \subseteq hist'
      BY <2>3, Zenon DEF Stolen, Shared, StaleWrite, Quiet
    <3>3. CopyLockKept
      BY <2>3, <3>2, Zenon DEF CopyLockKept, Stolen
    <3>4. x'["mtp"].on /\ x'["mtp"].lk = l /\ x'["copy"] = x["copy"]
      <4>1. PICK here \in BOOLEAN : here = FALSE
        BY Zenon
      <4>2. QED
        BY <1>0, <2>0, <3>1, <4>1, OpenedX, XferNames, Zenon
    <3>5. LockHasHolder'
      BY <1>0, <2>3, <3>4 DEF LockHasHolder
    <3>6. \/ part' = [part EXCEPT ![p] = f]
          \/ Uploading("mtp") /\ part' = [PartDropped("mtp") EXCEPT ![p] = f]
      BY <1>0, <3>1, Zenon DEF PartReleased
    <3>7. QED
      BY <1>0, <2>0, <2>1, <3>1, <3>2, <3>3, <3>5, <3>6, BeginInv, Zenon
  <2>4. QED
    BY <1>1, <2>2, <2>3, Zenon DEF fs_send_object_info
<1>2. CASE fs_send_object
  <2>1. /\ x["mtp"].on /\ x["mtp"].todo > 0
        /\ UNCHANGED <<card, part, lunDirectory, lun, lock, revoke>>
    BY <1>2, Zenon DEF fs_send_object
  <2>2. PICK bad \in BOOLEAN :
        /\ x' = [x EXCEPT !["mtp"].todo = @ - 1, !["mtp"].failed = bad]
        /\ (x["mtp"].valid /\ Wrote("mtp", "upload")) \/ (bad /\ UNCHANGED <<content, hist>>)
    <3>1. PICK ok \in Io("mtp") :
            LET good == ok /\ ~x["mtp"].failed /\ x["mtp"].lk \notin revoke IN
            /\ x' = [x EXCEPT !["mtp"].todo = @ - 1, !["mtp"].failed = ~good]
            /\ IF good THEN Wrote("mtp", "upload") ELSE UNCHANGED <<content, hist>>
      BY <1>2, Zenon DEF fs_send_object
    <3>2. ok => x["mtp"].valid
      BY Zenon DEF Io
    <3>3. QED
      BY <3>1, <3>2, Zenon
  <2>3. /\ \A u \in Xfers : u # "mtp" => x'[u] = x[u]
        /\ x'["mtp"].on /\ x'["mtp"].path = x["mtp"].path /\ x'["mtp"].fil = x["mtp"].fil
        /\ x'["mtp"].lk = x["mtp"].lk /\ ~x'["mtp"].inPlace /\ x'["mtp"].todo = x["mtp"].todo - 1
    BY <1>0, <2>1, <2>2, ChunkX, Zenon DEF Uploading
  <2>4. x'["mtp"].failed = bad
    BY <1>0, <2>2, Zenon DEF XShape, XferSet
  <2>5. QED
    BY <1>0, <2>1, <2>2, <2>3, <2>4, UploadInv, Zenon
<1>3. CASE tud_mtp_data_complete_cb
  <2>1. /\ x["mtp"].on /\ x["mtp"].todo = 0 /\ Ended("mtp") /\ Unlock("mtp")
        /\ UNCHANGED <<lunDirectory, lun>>
        /\ \/ /\ ~x["mtp"].failed /\ ~PathBusy(x["mtp"].path) /\ Promoted("mtp")
              /\ \/ /\ content' = content
                    /\ hist' = hist \cup Stolen("mtp", x["mtp"].lk) \cup StaleWrite("mtp") \cup {}
                 \/ hist' = hist \cup Stolen("mtp", x["mtp"].lk) \cup StaleWrite("mtp")
                                 \cup {"unsynced"}
           \/ /\ part' = PartDropped("mtp") /\ UNCHANGED <<card, content>>
              /\ \E e \in {{}, SelfRefused} :
                   hist' = hist \cup Stolen("mtp", x["mtp"].lk) \cup StaleWrite("mtp") \cup e
    BY <1>3, Zenon DEF tud_mtp_data_complete_cb
  <2>2. Quiet /\ Stolen("mtp", x["mtp"].lk) \subseteq hist'
    BY <2>1 DEF Stolen, SelfRefused, StaleWrite, Quiet
  <2>3. LockHasHolder' /\ CopyLockKept
    BY <1>0, <2>1, <2>2, UnlockHolder, MtpUnlock, Zenon
  <2>4. CASE /\ ~x["mtp"].failed /\ ~PathBusy(x["mtp"].path) /\ Promoted("mtp")
             /\ content' = content \/ "unsynced" \in hist'
    BY <1>0, <2>1, <2>3, <2>4, PromoteInv, Zenon
  <2>5. CASE part' = PartDropped("mtp") /\ UNCHANGED <<card, content>>
    BY <1>0, <2>1, <2>2, <2>3, <2>5, EndInv, Zenon
  <2>6. QED
    BY <2>1, <2>4, <2>5, Zenon
<1>4. CASE tud_mtp_request_cancel_cb
  <2>1. /\ x["mtp"].on /\ Ended("mtp") /\ Unlock("mtp") /\ part' = PartDropped("mtp")
        /\ hist' = hist \cup Stolen("mtp", x["mtp"].lk) \cup StaleWrite("mtp")
        /\ UNCHANGED <<card, content, lunDirectory, lun>>
    BY <1>4, Zenon DEF tud_mtp_request_cancel_cb, fs_release_write_state
  <2>2. Quiet /\ Stolen("mtp", x["mtp"].lk) \subseteq hist'
    BY <2>1, Zenon DEF Stolen, StaleWrite, Quiet
  <2>3. LockHasHolder' /\ CopyLockKept
    BY <1>0, <2>1, <2>2, UnlockHolder, MtpUnlock, Zenon
  <2>4. QED
    BY <1>0, <2>1, <2>2, <2>3, EndInv, Zenon
<1>5. QED
  BY <1>1, <1>2, <1>3, <1>4, Zenon

\* The steps of PUT and of the upload form.
LEMMA PutInv ==
  ASSUME Shape, Shape', Inv,
         \/ \E t \in {"put", "form"} :
              \/ \E p \in Paths : PutBegin(t, p)
              \/ PutChunk(t) \/ PutFinish(t) \/ conn_close(t)
         \/ \E p \in Paths : PutInPlace(p)
         \/ PutFlushInPlace \/ PutFinishInPlace
  PROVE  Inv'
<1>0. /\ {"put", "form"} \subseteq Xfers /\ {"put", "form"} \subseteq Uploads /\ XShape
      /\ LockHasHolder
  BY XferNames, Zenon DEF Shape, Inv
<1>1. /\ Quiet /\ UNCHANGED <<lock, revoke>> => CopyLockKept
      /\ \A t \in Xfers : hist' = hist \cup StaleWrite(t) => Quiet
  BY Zenon DEF CopyLockKept, StaleWrite, Quiet
<1>2. ASSUME NEW t \in {"put", "form"}, UNCHANGED <<lock, revoke>>,
             \A u \in Xfers : u # t => x'[u] = x[u]
      PROVE  LockHasHolder'
  BY <1>0, <1>2, XferNames DEF LockHasHolder
<1>3. ASSUME NEW t \in {"put", "form"}, NEW p \in Paths, PutBegin(t, p) PROVE Inv'
  <2>1. PICK f \in Files, l \in Luns \cup {None} :
          /\ Fresh(f) /\ part' = [part EXCEPT ![p] = f]
          /\ content' = [content EXCEPT ![f] = "upload"]
          /\ x' = [x EXCEPT ![t] = Open(t, p, f, l)]
    BY <1>3, LunOfPath, Zenon DEF PutBegin
  <2>2. hist' = hist \cup Shared(t, p) /\ UNCHANGED <<card, lunDirectory, lun, lock, revoke>>
    BY <1>3, Zenon DEF PutBegin
  <2>3. Quiet /\ Shared(t, p) \subseteq hist'
    BY <2>2, Zenon DEF Shared, Quiet
  <2>4. \A u \in Xfers : u # t => x'[u] = x[u]
    BY <1>0, <2>1, Zenon DEF XShape
  <2>5. LockHasHolder' /\ CopyLockKept
    BY <1>1, <1>2, <2>2, <2>3, <2>4, Zenon
  <2>6. QED
    BY <1>0, <2>1, <2>2, <2>3, <2>5, BeginInv, Zenon
<1>4. ASSUME NEW t \in {"put", "form"}, PutChunk(t) PROVE Inv'
  <2>1. /\ x[t].on /\ ~x[t].inPlace /\ x[t].todo > 0
        /\ UNCHANGED <<card, lunDirectory, lun, lock, revoke>>
        /\ \/ /\ x' = [x EXCEPT ![t].todo = @ - 1] /\ x[t].valid /\ Wrote(t, "upload")
              /\ UNCHANGED part
           \/ /\ Ended(t) /\ part' = PartDropped(t) /\ hist' = hist \cup StaleWrite(t)
              /\ UNCHANGED content
    <3>1. \A ok \in Io(t) : ok => x[t].valid
      BY Zenon DEF Io
    <3>2. QED
      BY <1>4, <3>1, Zenon DEF PutChunk
  <2>2. Uploading(t)
    BY <2>1, Zenon DEF Uploading
  <2>3. CASE /\ x' = [x EXCEPT ![t].todo = @ - 1] /\ x[t].valid /\ Wrote(t, "upload")
             /\ UNCHANGED part
    <3>1. /\ \A u \in Xfers : u # t => x'[u] = x[u]
          /\ x'[t].on /\ x'[t].path = x[t].path /\ x'[t].fil = x[t].fil
          /\ x'[t].lk = x[t].lk /\ ~x'[t].inPlace /\ x'[t].todo = x[t].todo - 1
      BY <1>0, <2>1, <2>3, ChunkX, Zenon
    <3>2. QED
      BY <1>0, <2>1, <2>2, <2>3, <3>1, UploadInv, Zenon
  <2>4. CASE /\ Ended(t) /\ part' = PartDropped(t) /\ hist' = hist \cup StaleWrite(t)
             /\ UNCHANGED content
    <3>1. LockHasHolder' /\ CopyLockKept /\ Quiet
      BY <1>0, <1>1, <1>2, <2>1, <2>4, EndedX, Zenon
    <3>2. QED
      BY <1>0, <2>1, <2>2, <2>4, <3>1, EndInv, Zenon
  <2>5. QED
    BY <2>1, <2>3, <2>4, Zenon
<1>5. ASSUME NEW t \in {"put", "form"}, PutFinish(t) PROVE Inv'
  <2>1. /\ x[t].on /\ ~x[t].inPlace /\ x[t].todo = 0 /\ Ended(t)
        /\ hist' = hist \cup StaleWrite(t) /\ UNCHANGED <<content, lunDirectory, lun, lock, revoke>>
        /\ \/ ~PathBusy(x[t].path) /\ Promoted(t)
           \/ part' = PartDropped(t) /\ UNCHANGED card
    BY <1>5, Zenon DEF PutFinish
  <2>2. Uploading(t) /\ ~x[t].failed
    BY <1>0, <2>1, Zenon DEF Uploading, XShape
  <2>3. LockHasHolder' /\ CopyLockKept /\ Quiet
    BY <1>0, <1>1, <1>2, <2>1, EndedX, Zenon
  <2>4. CASE ~PathBusy(x[t].path) /\ Promoted(t)
    BY <1>0, <2>1, <2>2, <2>3, <2>4, PromoteInv, Zenon
  <2>5. CASE part' = PartDropped(t) /\ UNCHANGED card
    BY <1>0, <2>1, <2>2, <2>3, <2>5, EndInv, Zenon
  <2>6. QED
    BY <2>1, <2>4, <2>5, Zenon
<1>6. ASSUME NEW t \in {"put", "form"}, conn_close(t) PROVE Inv'
  <2>1. /\ x[t].on /\ Ended(t) /\ UNCHANGED <<card, content, lunDirectory, lun, lock, revoke>>
        /\ hist' = hist \cup StaleWrite(t)
        /\ part' = part \/ (Uploading(t) /\ part' = PartDropped(t))
    BY <1>6, Zenon DEF conn_close, Uploading
  <2>2. LockHasHolder' /\ CopyLockKept /\ Quiet
    BY <1>0, <1>1, <1>2, <2>1, EndedX, Zenon
  <2>3. QED
    BY <1>0, <2>1, <2>2, EndInv, Zenon
<1>7. ASSUME NEW p \in Paths, PutInPlace(p) PROVE Inv'
  BY <1>7, InPlaceInv, Zenon
<1>8. ASSUME Ended("put"), hist' = hist \cup StaleWrite("put"),
             UNCHANGED <<card, part, content, lunDirectory, lun, lock, revoke>>
      PROVE  Inv'
  <2>1. LockHasHolder' /\ CopyLockKept /\ Quiet
    BY <1>0, <1>1, <1>2, <1>8, EndedX, Zenon
  <2>2. QED
    BY <1>0, <1>8, <2>1, EndInv, Zenon
<1>9. CASE PutFlushInPlace
  <2>1. /\ x["put"].on /\ x["put"].inPlace /\ x["put"].todo > 0
        /\ UNCHANGED <<card, part, lunDirectory, lun, lock, revoke>>
        /\ \/ /\ ~PathBusy(x["put"].path) /\ x' = [x EXCEPT !["put"].todo = @ - 1]
              /\ x["put"].valid /\ Wrote("put", "patch")
           \/ Ended("put") /\ hist' = hist \cup StaleWrite("put") /\ UNCHANGED content
    <3>1. \A ok \in Io("put") : ok => x["put"].valid
      BY Zenon DEF Io
    <3>2. QED
      BY <1>9, <3>1, Zenon DEF PutFlushInPlace
  <2>2. CASE /\ ~PathBusy(x["put"].path) /\ x' = [x EXCEPT !["put"].todo = @ - 1]
             /\ x["put"].valid /\ Wrote("put", "patch")
    <3>1. /\ \A u \in Xfers : u # "put" => x'[u] = x[u]
          /\ x'["put"].on /\ x'["put"].path = x["put"].path /\ x'["put"].fil = x["put"].fil
          /\ x'["put"].lk = x["put"].lk /\ x'["put"].inPlace = x["put"].inPlace
      BY <1>0, <2>1, <2>2, ChunkX, Zenon
    <3>2. PICK v \in {"whole", "copy", "patch"} : content' = [content EXCEPT ![x["put"].fil] = v]
      BY <2>2, Zenon DEF Wrote
    <3>3. hist' = hist \cup UnderLun("put") \cup StaleWrite("put")
      BY <2>2, Zenon DEF Wrote
    <3>4. ASSUME ~Excused' PROVE UnderLun("put") = {}
      <4>1. \A m \in Luns : lun[m].on => Path(m) # x["put"].path
        BY <2>2, Zenon DEF PathBusy, BusyWith
      <4>2. "image_freed" \notin hist /\ "stale_write" \notin hist'
        BY <3>3, <3>4, Zenon DEF Excused
      <4>3. Entry("put") = x["put"].fil
        BY <2>1, <2>2, <3>3, <4>2, Zenon DEF StaleWrite, Stale
      <4>4. QED
        BY <1>0, <2>1, <4>1, <4>2, <4>3, NotUnder, Zenon
    <3>5. /\ hist \subseteq hist' /\ ("image_freed" \in hist' => "image_freed" \in hist)
          /\ "wrote_under_lun" \in hist' => "wrote_under_lun" \in hist \/ Excused'
      BY <3>3, <3>4, Zenon DEF UnderLun, StaleWrite
    <3>6. LockHasHolder'
      BY <1>2, <2>1, <3>1, Zenon
    <3>7. QED
      BY <1>0, <2>1, <3>1, <3>2, <3>5, <3>6, OverwriteInv, Zenon
  <2>3. QED
    BY <1>8, <2>1, <2>2, Zenon
<1>10. CASE PutFinishInPlace
  BY <1>8, <1>10, Zenon DEF PutFinishInPlace
<1>11. QED
  BY <1>3, <1>4, <1>5, <1>6, <1>7, <1>9, <1>10, Zenon

\* The steps of COPY, MOVE and DELETE.
LEMMA CopyInv ==
  ASSUME Shape, Shape', Inv,
         \/ \E p \in Paths : route_dav_copy(p) \/ route_dav_delete(p)
         \/ \E p, q \in Paths : route_dav_move(p, q)
         \/ ws_copy_step \/ CopyAbort
  PROVE  Inv'
<1>0. "copy" \in Xfers /\ XShape /\ LockHasHolder
  BY XferNames, Zenon DEF Shape, Inv
<1>1. ASSUME NEW p \in Paths, ~PathBusy(p), card' = [card EXCEPT ![p] = None],
             UNCHANGED <<part, content, lunDirectory, lun, x, lock, revoke, hist>>
      PROVE  Inv'
  <2>1. LockHasHolder'
    BY <1>0, <1>1, Zenon DEF LockHasHolder
  <2>2. \A m \in Luns : lun[m].on => Path(m) # p
    BY <1>1, Zenon DEF PathBusy, BusyWith
  <2>3. QED
    BY <1>1, <2>1, <2>2, RemoveInv, Zenon
<1>2. ASSUME NEW p \in Paths, route_dav_copy(p) PROVE Inv'
  <2>1. CASE x["copy"].on
    BY <1>1, <1>2, <2>1, Zenon DEF route_dav_copy
  <2>2. CASE ~x["copy"].on
    <3>1. PICK l \in Luns \cup {None} : l = LunFromHostPath(p)
      BY LunOfPath, Zenon
    <3>2. QED
      BY <1>2, <2>2, <3>1, CopyBeginInv, Zenon DEF route_dav_copy
  <2>3. QED
    BY <2>1, <2>2, Zenon
<1>3. ASSUME NEW p \in Paths, route_dav_delete(p) PROVE Inv'
  BY <1>1, <1>3, Zenon DEF route_dav_delete
<1>4. ASSUME NEW p \in Paths, NEW q \in Paths, route_dav_move(p, q) PROVE Inv'
  BY <1>4, MoveInv, Zenon
<1>5. ASSUME NEW more, ws_copy_slot_release(more)
      PROVE  /\ Ended("copy") /\ LockHasHolder'
             /\ hist' = hist \cup Stolen("copy", x["copy"].lk) \cup StaleWrite("copy") \cup more
  BY <1>0, <1>5, UnlockHolder, Zenon DEF ws_copy_slot_release
<1>6. ASSUME ws_copy_slot_release({}), UNCHANGED <<card, part, content, lunDirectory, lun>>
      PROVE  Inv'
  <2>1. Ended("copy") /\ LockHasHolder'
        /\ hist' = hist \cup Stolen("copy", x["copy"].lk) \cup StaleWrite("copy") \cup {}
    BY <1>5, <1>6, Zenon
  <2>2. Quiet
    BY <2>1, Zenon DEF Stolen, StaleWrite, Quiet
  <2>3. QED
    BY <1>0, <1>6, <2>1, <2>2, EndInv, Zenon
<1>7. CASE ws_copy_step
  <2>0. x["copy"].on /\ x["copy"].path \in Paths /\ x["copy"].fil \in Files
        /\ UNCHANGED <<part, lunDirectory, lun>>
    BY <1>0, <1>7, Zenon DEF ws_copy_step, XShape
  <2>1. CASE /\ ws_copy_slot_release(Freed(x["copy"].path))
             /\ card' = [card EXCEPT ![x["copy"].path] = None] /\ UNCHANGED content
    <3>1. /\ Ended("copy") /\ LockHasHolder'
          /\ hist' = hist \cup Stolen("copy", x["copy"].lk) \cup StaleWrite("copy")
                          \cup Freed(x["copy"].path)
      BY <1>5, <2>1, Zenon
    <3>2. /\ \A m \in Luns : lun[m].on /\ "image_freed" \notin hist' => Path(m) # x["copy"].path
          /\ hist \subseteq hist' /\ ("wrote_under_lun" \in hist' => "wrote_under_lun" \in hist)
      BY <3>1, Zenon DEF Freed, Stolen, StaleWrite
    <3>3. "image_freed" \in hist' => "image_freed" \in hist \/ "copy_taken" \in hist
      <4>1. Freed(x["copy"].path) # {} => \E m \in Luns : lun[m].on /\ CopyingTo(m)
        BY <2>0, Zenon DEF Freed, CopyingTo
      <4>2. (\E m \in Luns : lun[m].on /\ CopyingTo(m)) => "copy_taken" \in hist
        BY Zenon DEF Inv, KeptInv
      <4>3. QED
        BY <3>1, <4>1, <4>2, Zenon DEF Stolen, StaleWrite
    <3>4. QED
      BY <2>0, <2>1, <3>1, <3>2, <3>3, RemoveInv, Zenon
  <2>2. CASE ws_copy_slot_release({}) /\ UNCHANGED <<card, content>>
    BY <1>6, <2>0, <2>2, Zenon
  <2>3. CASE /\ x["copy"].lk \notin revoke
             /\ content' = [content EXCEPT ![x["copy"].fil] = IF x["copy"].todo = 1
                  THEN "whole" ELSE "copy"]
             /\ x["copy"].valid
             /\ \/ ws_copy_slot_release(UnderLun("copy"))
                \/ /\ x["copy"].todo # 1 /\ x' = [x EXCEPT !["copy"].todo = @ - 1]
                   /\ hist' = hist \cup UnderLun("copy") \cup StaleWrite("copy")
                   /\ UNCHANGED <<lock, revoke>>
             /\ UNCHANGED card
    <3>0. /\ UnderLun("copy") \subseteq {"wrote_under_lun"}
          /\ hist \cup UnderLun("copy") \cup StaleWrite("copy") \subseteq hist'
          /\ hist' \subseteq hist \cup Stolen("copy", x["copy"].lk) \cup StaleWrite("copy")
                            \cup UnderLun("copy")
      BY <2>3, Zenon DEF ws_copy_slot_release, UnderLun
    <3>1. PICK v \in {"whole", "copy", "patch"} : content' = [content EXCEPT ![x["copy"].fil] = v]
      BY <2>3, Zenon
    <3>2. ASSUME ~Excused' PROVE UnderLun("copy") = {}
      <4>1. ~Excused /\ "image_freed" \notin hist /\ StaleWrite("copy") = {}
        BY <3>0, <3>2, Zenon DEF Excused, StaleWrite
      <4>2. Entry("copy") = x["copy"].fil
        BY <2>0, <2>3, <4>1, Zenon DEF StaleWrite, Stale
      <4>3. \A m \in Luns : lun[m].on => Path(m) # x["copy"].path
        BY <2>0, <2>3, <4>1, Zenon DEF Inv, UnderInv, CopyWatched, CopyingTo
      <4>4. QED
        BY <1>0, <2>0, <4>1, <4>2, <4>3, NotUnder, Zenon
    <3>3. /\ hist \subseteq hist' /\ ("image_freed" \in hist' => "image_freed" \in hist)
          /\ "wrote_under_lun" \in hist' => "wrote_under_lun" \in hist \/ Excused'
      BY <3>0, <3>2, Zenon DEF Stolen, StaleWrite
    <3>4. CASE ws_copy_slot_release(UnderLun("copy"))
      <4>1. LockHasHolder' /\ x'["copy"] = Idle /\ \A u \in Xfers : u # "copy" => x'[u] = x[u]
        BY <1>0, <1>5, <3>4, EndedX, Zenon
      <4>2. ~x'["copy"].on
        BY <4>1, IdleX, Zenon
      <4>3. QED
        BY <1>0, <2>0, <2>3, <3>1, <3>3, <4>1, <4>2, OverwriteInv, Zenon
    <3>5. CASE x["copy"].todo # 1 /\ x' = [x EXCEPT !["copy"].todo = @ - 1]
                 /\ UNCHANGED <<lock, revoke>>
      <4>0. x["copy"].todo > 0
        BY <1>0, <2>0, Zenon DEF XShape
      <4>1. /\ \A u \in Xfers : u # "copy" => x'[u] = x[u]
            /\ x'["copy"].on /\ x'["copy"].path = x["copy"].path /\ x'["copy"].fil = x["copy"].fil
            /\ x'["copy"].lk = x["copy"].lk /\ x'["copy"].inPlace = x["copy"].inPlace
        BY <1>0, <2>0, <3>5, <4>0, ChunkX, Zenon
      <4>2. LockHasHolder'
        BY <1>0, <3>5, <4>1, XferNames DEF LockHasHolder
      <4>3. QED
        BY <1>0, <2>0, <2>3, <3>1, <3>3, <3>5, <4>1, <4>2, OverwriteInv, Zenon
    <3>6. QED
      BY <2>3, <3>4, <3>5, Zenon
  <2>4. QED
    <3>1. TRUE \in Io("copy") => x["copy"].valid
      BY Zenon DEF Io
    <3>2. QED
      BY <1>7, <2>1, <2>2, <2>3, <3>1, Zenon DEF ws_copy_step
<1>8. CASE CopyAbort
  BY <1>6, <1>8, Zenon DEF CopyAbort
<1>9. QED
  BY <1>2, <1>3, <1>4, <1>7, <1>8, Zenon

\* The invariant holds after power on.
LEMMA InvInit == Init => Inv
<1> SUFFICES ASSUME Init PROVE Inv
  BY Zenon
<1>1. \A t \in Xfers : ~x[t].on
  BY IdleX, Zenon DEF Init
<1>2. LockHasHolder
  BY Zenon DEF Init, LockHasHolder
<1>3. KeptInv
  BY <1>1, Zenon DEF Init, Stopped, KeptInv, StartedImageKept
<1>4. OneEntry
  <2>1. \A p, q \in Paths : card[p] # None /\ card[p] = card[q] => p = q
    <3> SUFFICES ASSUME NEW p \in Paths, NEW q \in Paths, card[p] # None, card[p] = card[q]
        PROVE  p = q
      BY Zenon
    <3>1. p[1] \in Int /\ q[1] \in Int
      <4>1. p[1] \in Dirs /\ q[1] \in Dirs
        BY Zenon DEF Paths
      <4>2. MaxFiles \in Nat
        BY ConstantsOK, Zenon
      <4>3. \A d \in Dirs : d \in Int
        BY <4>2, ConstantsOK
      <4>4. QED
        BY <4>1, <4>3, Zenon
    <3>2. p[2] = 0 /\ q[2] = 0 /\ p[1] = q[1]
      BY <3>1 DEF Init
    <3>3. p = <<p[1], p[2]>> /\ q = <<q[1], q[2]>>
      BY DEF Paths
    <3>4. QED
      BY <3>2, <3>3, Zenon
  <2>2. QED
    BY <2>1, Zenon DEF Init, OneEntry
<1>5. AtomicInv
  <2>1. \A f \in Files : content[f] = "whole"
    BY Zenon DEF Init
  <2>2. QED
    BY <1>1, <2>1, ShapeInit, XferNames, Zenon DEF AtomicInv, Uploading, Shape
<1>6. UnderInv
  BY <1>1, XferNames, Zenon DEF Init, UnderInv, CopyWatched
<1>7. Apart
  BY <1>1, XferNames, Zenon DEF Apart, Private, Uploading
<1>8. QED
  BY <1>7, <1>2, <1>3, <1>4, <1>5, <1>6, Zenon DEF Inv, ApartInv

\* Every step keeps the invariant.
LEMMA InvStep == Shape /\ Shape' /\ Inv /\ [Next]_vars => Inv'
<1>1. Shape /\ Shape' /\ Inv /\ HostStep => Inv'
  BY MtpInv, PutInv, CopyInv, Zenon DEF HostStep
<1>2. Inv /\ UNCHANGED vars => Inv'
  <2> SUFFICES ASSUME Inv, UNCHANGED vars PROVE Inv'
    OBVIOUS
  <2>1. LockHasHolder' /\ KeptInv' /\ OneEntry'
    BY Zenon DEF vars, Inv, LockHasHolder, KeptInv, StartedImageKept, CopyingTo, Path, OneEntry
  <2>2. (Apart => Apart') /\ (CopyWatched => CopyWatched')
    BY Zenon DEF vars, Apart, Private, Uploading, CopyWatched, CopyingTo, Path
  <2>3. AtomicInv'
    BY Zenon DEF vars, Inv, AtomicInv, Uploading
  <2>4. QED
    BY <2>1, <2>2, <2>3, Zenon DEF vars, Inv, ApartInv, UnderInv, Excused
<1>3. QED
  BY <1>1, <1>2, BeebInv, Zenon DEF Next

\* Shape and the inductive invariant hold of every reachable state.
THEOREM InvHolds == Spec => [](Shape /\ Inv)
<1>1. Shape /\ Inv /\ [Next]_vars => Shape' /\ Inv'
  BY ShapeStep, InvStep, Zenon
<1>2. QED
  BY <1>1, ShapeInit, InvInit, PTL DEF Spec

\* A locked or revoked LUN belongs to an MTP upload or a COPY in progress, however
\* many LUNs, directories, files, chunks and requests there are (filesystemHostLockLun
\* and filesystemHostRevokeLun against every way a transfer can end).
THEOREM LockHasHolderHolds == Spec => []LockHasHolder
<1>1. Inv => LockHasHolder
  BY Zenon DEF Inv
<1>2. QED
  BY <1>1, InvHolds, PTL

\* The path of a started LUN names the file its handle is open on, unless a LUN was
\* started on an image a COPY was writing or a transfer went astray
\* (filesystemHostPathBusy and the re-checks before f_unlink and f_rename).
THEOREM KeptUnlessCopiedHolds == Spec => []KeptUnlessCopied
<1>1. Inv => KeptUnlessCopied
  BY Zenon DEF Inv, KeptInv, KeptUnlessCopied
<1>2. QED
  BY <1>1, InvHolds, PTL

\* No image path ever names an upload that is not complete, unless two uploads shared
\* a "<path>.part", an f_sync failed, a transfer went astray or a LUN lost its image
\* (dav_put_finish, upload_finish, tud_mtp_data_complete_cb).
THEOREM UploadAtomicHolds == Spec => []UploadAtomic
<1>1. Inv => UploadAtomic
  BY Zenon DEF Inv, AtomicInv, UploadAtomic
<1>2. QED
  BY <1>1, InvHolds, PTL

\* No write of a transfer lands in clusters a started LUN has open, clusters a lost
\* entry has freed for reuse included, unless the COPY was not told of the start, its
\* lock was taken over, it freed the image when revoked, or a transfer went astray
\* (hostRevokeMask for COPY, filesystemHostPathBusy for a ranged PUT).
THEOREM NoHostWriteUnderLunHolds == Spec => []NoHostWriteUnderLun
<1>1. Inv => NoHostWriteUnderLun
  BY Zenon DEF Inv, UnderInv, Excused, NoHostWriteUnderLun, Astray
<1>2. QED
  BY <1>1, InvHolds, PTL
=============================================================================
