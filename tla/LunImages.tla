----------------------------- MODULE LunImages -----------------------------
(***************************************************************************)
(* The hard disc images on the SD card, shared by the BeebSCSI target,     *)
(* which holds the image of every started LUN open, and by the writers on  *)
(* the network and USB side: MTP uploads (usb/mtp_fs.c), WebDAV PUT, COPY, *)
(* MOVE and DELETE and the browser upload form (wifi/webserver.c).  FatFs  *)
(* keeps no count of open handles (FF_FS_LOCK is 0), so the two sides keep *)
(* apart with fsLunStatus, hostLockMask and hostRevokeMask of              *)
(* BeebSCSI/filesystem.c.  All of it runs in the main loop, a SCSI command *)
(* or a callback at a time, except the jukebox register, whose handler     *)
(* runs in the FIQ; a step of this module is one of these, and the FIQ is  *)
(* taken between two steps of the main loop.                               *)
(***************************************************************************)
EXTENDS Integers, FiniteSets

CONSTANTS Luns,       \* LUN numbers
          Dirs,       \* jukebox directories, /BeebSCSI<d>
          MaxFiles,   \* files that can exist or be open at a time
          MaxChunks,  \* chunks in the body of a transfer
          MaxHost,    \* bound on requests from the network and USB side
          MaxBeeb     \* bound on commands from the Beeb

\* The card has room for the image that each directory starts with.
ASSUME ConstantsOK == /\ Luns \subseteq Nat /\ 0 \in Dirs
                      /\ {MaxFiles, MaxChunks, MaxHost, MaxBeeb} \subseteq Nat \ {0}
                      /\ Dirs \subseteq 0 .. MaxFiles - 1

VARIABLES card,          \* path of an image -> the file there
          part,          \* path of an image -> the file at "<path>.part"
          content,       \* file -> what it holds
          lunDirectory,  \* filesystemState.lunDirectory
          lun,           \* LUN -> fsLunStatus and fileObject
          lock, revoke,  \* hostLockMask, hostRevokeMask
          x,             \* transfers in progress
          left,          \* what remains of the bounds
          hist           \* what has happened (read by properties only)

vars == <<card, part, content, lunDirectory, lun, lock, revoke, x, left, hist>>

None == -1
Paths == Dirs \X Luns
Files == 1 .. MaxFiles

\* One MTP upload (g_write_state), one WebDAV PUT, one browser upload and one
\* WebDAV COPY (g_ws_active_copy) at a time.
Xfers == {"mtp", "put", "form", "copy"}

Path(l) == <<lunDirectory, l>>

\* A transfer: its target, the file it has open, the LUN it locked (mtp, copy)
\* or watches (form), the chunks to come, whether it failed, whether the
\* volume is still the one it opened the file on, and whether it writes in
\* place.
Idle == [on |-> FALSE, path |-> <<0, None>>, fil |-> None, lk |-> None, todo |-> 0,
         failed |-> FALSE, valid |-> TRUE, inPlace |-> FALSE]

Stopped == [on |-> FALSE, fil |-> None]

Events == {"copy_taken", "unannounced", "lock_stolen", "shared_part", "moved_open",
           "unsynced", "stale_write", "image_freed", "wrote_under_lun", "self_refused"}

\* The type of every variable.  A file is "upload" or "copy" while a transfer
\* has written only part of it, "patch" while a ranged PUT is in progress.
TypeOK ==
    /\ card \in [Paths -> Files \cup {None}]
    /\ part \in [Paths -> Files \cup {None}]
    /\ content \in [Files -> {"whole", "upload", "copy", "patch"}]
    /\ lunDirectory \in Dirs
    /\ lun \in [Luns -> [on : BOOLEAN, fil : Files \cup {None}]]
    /\ \A l \in Luns : lun[l].on <=> lun[l].fil # None
    /\ lock \subseteq Luns /\ revoke \subseteq Luns
    /\ DOMAIN x = Xfers
    /\ \A t \in Xfers : /\ x[t].on <=> x[t].fil # None
                        /\ x[t].on => x[t].path \in Paths
                        /\ x[t].lk \in Luns \cup {None}
                        /\ x[t].todo \in 0 .. MaxChunks
    /\ left \in [host : 0 .. MaxHost, beeb : 0 .. MaxBeeb]
    /\ hist \subseteq Events

\* After power on: mounted, every LUN stopped, one image in each directory.
Init ==
    /\ card = [p \in Paths |-> IF p[2] = 0 THEN p[1] + 1 ELSE None]
    /\ part = [p \in Paths |-> None]
    /\ content = [f \in Files |-> "whole"]
    /\ lunDirectory = 0
    /\ lun = [l \in Luns |-> Stopped]
    /\ lock = {} /\ revoke = {}
    /\ x = [t \in Xfers |-> Idle]
    /\ left = [host |-> MaxHost, beeb |-> MaxBeeb]
    /\ hist = {}

-----------------------------------------------------------------------------
(* Files.                                                                  *)

Held == {card[p] : p \in Paths} \cup {part[p] : p \in Paths}
        \cup {lun[l].fil : l \in Luns} \cup {x[t].fil : t \in Xfers}

\* A new file (f_open with FA_CREATE_ALWAYS, which gives up what was at the
\* path) is none that an entry names or a handle has open.  Its clusters may be
\* those of a file that has lost its entry while a handle has it open.
Fresh(f) == f \in Files \ Held /\ \A g \in Files \ Held : f <= g

\* The entry that t opened its file by.
Entry(t) == IF t = "copy" \/ x[t].inPlace THEN card[x[t].path] ELSE part[x[t].path]

\* The handle of t is stale: its entry was removed or renamed under it.
Stale(t) == x[t].on /\ x[t].valid /\ Entry(t) # x[t].fil

\* f_write and f_close of a stale handle write to clusters that can be any
\* file's by now, and to a directory entry that can be any file's (f_sync).
\* Where they land is not modelled: no property speaks of files after it.
StaleWrite(t) == IF Stale(t) THEN {"stale_write"} ELSE {}

-----------------------------------------------------------------------------
(* The interlock of filesystem.c.                                          *)

\* filesystemHostPathBusy: the path is a file of a LUN that is started or
\* locked.
BusyWith(p, locked) == \E l \in Luns : p = Path(l) /\ (lun[l].on \/ l \in locked)

PathBusy(p) == BusyWith(p, lock)

\* filesystemLunFromHostPath
LunFromHostPath(p) == IF p[1] = lunDirectory THEN p[2] ELSE None

CopyingTo(l) == x["copy"].on /\ x["copy"].path = Path(l)

\* What starting l means to a COPY writing its image: the image is taken, and
\* the COPY is not told when the start passes the lock by or the COPY has none.
Taken(l, told) ==
    IF ~CopyingTo(l) THEN {}
    ELSE {"copy_taken"} \cup IF told THEN {} ELSE {"unannounced"}

\* filesystemHostRevokeLun
HostRevokeLun(l) ==
    /\ lock' = lock \ {l}
    /\ revoke' = IF l \in lock THEN revoke \cup {l} ELSE revoke

-----------------------------------------------------------------------------
(* Commands of the Beeb.                                                   *)

Beeb == left.beeb > 0 /\ left' = [left EXCEPT !.beeb = @ - 1]

\* filesystemCheckLunImage: a stopped LUN opens its image and is started.
CheckLunImage(l, told) ==
    IF lun[l].on \/ card[Path(l)] = None
    THEN UNCHANGED <<lun, hist>>
    ELSE /\ lun' = [lun EXCEPT ![l] = [on |-> TRUE, fil |-> card[Path(l)]]]
         /\ hist' = hist \cup Taken(l, told)

\* Mutant: The start without filesystemHostRevokeLun.
StartNoRevoke(l) ==
    /\ Beeb
    /\ CheckLunImage(l, x["copy"].lk = l)
    /\ UNCHANGED <<card, part, content, lunDirectory, lock, revoke, x>>

\* READ6, WRITE6 and TRANSLATE on a stopped LUN and START/STOP with the start
\* bit set: the image is first taken back from the transfer that locked it.
scsiStart(l) ==
    /\ Beeb
    /\ HostRevokeLun(l)
    /\ CheckLunImage(l, x["copy"].lk = l)
    /\ UNCHANGED <<card, part, content, lunDirectory, x>>

\* START/STOP with the start bit clear (*BYE), and the error paths of READ6
\* and WRITE6: filesystemSetLunStatus(l, false).
scsiStop(l) ==
    /\ Beeb
    /\ lun[l].on
    /\ lun' = [lun EXCEPT ![l] = Stopped]
    /\ UNCHANGED <<card, part, content, lunDirectory, lock, revoke, x, hist>>

\* MODE SELECT starts the LUN through filesystemCheckLunImage, without taking
\* it back.
scsiCommandModeSelect6(l) ==
    /\ Beeb
    /\ CheckLunImage(l, FALSE)
    /\ UNCHANGED <<card, part, content, lunDirectory, lock, revoke, x>>

\* FORMAT stops the LUN, makes a new image in place of the old one and starts
\* the LUN on it; when the card cannot hold the image (ok false) the LUN stays
\* stopped and the path names an empty file.
scsiCommandFormat(l, ok) ==
    /\ Beeb
    /\ \E f \in Files :
        /\ Fresh(f)
        /\ card' = [card EXCEPT ![Path(l)] = f]
        /\ content' = [content EXCEPT ![f] = "whole"]
        /\ lun' = [lun EXCEPT ![l] = IF ok THEN [on |-> TRUE, fil |-> f] ELSE Stopped]
    /\ hist' = hist \cup Taken(l, FALSE)
    /\ UNCHANGED <<part, lunDirectory, lock, revoke, x>>

\* FORMAT when the image cannot be opened, or of a stopped LUN with
\* Beeb_write_protect: the LUN is stopped and the image stays.
FormatRefused(l) ==
    /\ Beeb
    /\ lun' = [lun EXCEPT ![l] = Stopped]
    /\ UNCHANGED <<card, part, content, lunDirectory, lock, revoke, x, hist>>

\* BSSELECT (scsiJukebox): only while no LUN is started.
scsiBeebScsiSelect(d) ==
    /\ Beeb
    /\ \A l \in Luns : ~lun[l].on
    /\ lunDirectory' = d
    /\ UNCHANGED <<card, part, content, lun, lock, revoke, x, hist>>

\* filesystemReset: every LUN stopped and the volume remounted, so that every
\* file a transfer has open is one FatFs no longer accepts.
Remounted ==
    /\ lun' = [l \in Luns |-> Stopped]
    /\ x' = [t \in Xfers |-> [x[t] EXCEPT !.valid = ~x[t].on]]

\* BREAK (harddisc_emulator_init)
filesystemReset ==
    /\ Beeb
    /\ Remounted
    /\ UNCHANGED <<card, part, content, lunDirectory, lock, revoke, hist>>

\* A write to the jukebox register (*SCSIJUKE)
hd_emulator_write_scsijuke(d) ==
    /\ Beeb
    /\ Remounted
    /\ lunDirectory' = d
    /\ UNCHANGED <<card, part, content, lock, revoke, hist>>

-----------------------------------------------------------------------------
(* Transfers from the network and USB side.                                *)

Host == left.host > 0 /\ left' = [left EXCEPT !.host = @ - 1]

\* A transfer t of path p with file f open.
Open(t, p, f, l) ==
    [Idle EXCEPT !.on = TRUE, !.path = p, !.fil = f, !.lk = l, !.todo = MaxChunks]

Ended(t) == x' = [x EXCEPT ![t] = Idle]

\* Whether the next f_write of t succeeds: the card may fail, and a file of
\* the volume before a reset is refused.
Io(t) == IF x[t].valid THEN BOOLEAN ELSE {FALSE}

\* filesystemHostLockLun keeps no owner: t takes or drops the lock of l
\* whatever other transfer holds it.
Stolen(t, l) ==
    IF \E u \in {"mtp", "copy"} \ {t} : l # None /\ x[u].lk = l THEN {"lock_stolen"} ELSE {}

Unlock(t) == /\ lock' = lock \ {x[t].lk}
             /\ revoke' = revoke \ {x[t].lk}

\* Uploads to the same path use the same "<path>.part".
Shared(t, p) ==
    IF \E u \in {"mtp", "put", "form"} \ {t} : x[u].on /\ ~x[u].inPlace /\ x[u].path = p
    THEN {"shared_part"} ELSE {}

\* What t writes may land in clusters a started LUN has open: the two have the
\* same file open, or one of them has a file that lost its entry.
UnderLun(t) ==
    IF \E l \in Luns : lun[l].on /\ \/ lun[l].fil = x[t].fil
                                    \/ Stale(t)
                                    \/ card[Path(l)] # lun[l].fil
    THEN {"wrote_under_lun"} ELSE {}

\* One chunk of t reaches the card; during is what the file is until the last.
Wrote(t, during) ==
    /\ content' = [content EXCEPT ![x[t].fil] = IF x[t].todo = 1 THEN "whole" ELSE during]
    /\ hist' = hist \cup UnderLun(t) \cup StaleWrite(t)

PartDropped(t) == [part EXCEPT ![x[t].path] = None]

\* The finished "<path>.part" takes the place of the image: f_unlink, f_rename.
\* When the rename fails the image is gone; PUT then deletes the "<path>.part",
\* the form and MTP keep it.
Promoted(t) ==
    \/ /\ card' = [card EXCEPT ![x[t].path] = part[x[t].path]]
       /\ part' = PartDropped(t)
    \/ /\ card' = [card EXCEPT ![x[t].path] = None]
       /\ part' = IF t = "put" THEN PartDropped(t) ELSE part

-----------------------------------------------------------------------------
(* MTP.                                                                    *)

\* Mutant: A release that forgets filesystemHostLockLun.
ReleaseKeepsLock ==
    /\ Ended("mtp")
    /\ UNCHANGED <<lock, revoke, hist>>

\* The LUN is given back; "<path>.part" goes too (PartReleased).
fs_release_write_state ==
    /\ Ended("mtp")
    /\ Unlock("mtp")
    /\ hist' = hist \cup Stolen("mtp", x["mtp"].lk) \cup StaleWrite("mtp")

PartReleased == IF x["mtp"].on THEN PartDropped("mtp") ELSE part

\* SendObjectInfo: what was in progress is dropped; the target must not be
\* busy; its LUN is locked and "<path>.part" opened.
fs_send_object_info(p) ==
    /\ Host
    /\ LET kept == lock \ {x["mtp"].lk}
           l == LunFromHostPath(p)
       IN \/ /\ BusyWith(p, kept)
             /\ fs_release_write_state
             /\ part' = PartReleased
             /\ UNCHANGED content
          \/ /\ ~BusyWith(p, kept)
             /\ \E f \in Files :
                 /\ Fresh(f)
                 /\ part' = [PartReleased EXCEPT ![p] = f]
                 /\ content' = [content EXCEPT ![f] = "upload"]
                 /\ x' = [x EXCEPT !["mtp"] = Open("mtp", p, f, l)]
             /\ lock' = kept \cup ({l} \ {None})
             /\ revoke' = revoke \ {x["mtp"].lk, l}
             /\ hist' = hist \cup Stolen("mtp", x["mtp"].lk) \cup Stolen("mtp", l)
                            \cup Shared("mtp", p) \cup StaleWrite("mtp")
    /\ UNCHANGED <<card, lunDirectory, lun>>

\* SendObject, data phase: a failure is remembered and the rest drained.
fs_send_object ==
    LET m == x["mtp"] IN
    /\ m.on /\ m.todo > 0
    /\ \E ok \in Io("mtp") :
        LET good == ok /\ ~m.failed /\ m.lk \notin revoke IN
        /\ x' = [x EXCEPT !["mtp"].todo = @ - 1, !["mtp"].failed = ~good]
        /\ IF good THEN Wrote("mtp", "upload") ELSE UNCHANGED <<content, hist>>
    /\ UNCHANGED <<card, part, lunDirectory, lun, lock, revoke, left>>

\* The only reason the target is busy is the lock of this very upload.
SelfRefused ==
    LET m == x["mtp"] IN
    IF PathBusy(m.path) /\ ~lun[m.path[2]].on /\ x["copy"].lk # m.lk
    THEN {"self_refused"} ELSE {}

\* SendObject, end of the data phase: what is staged is flushed (nothing may
\* be), the file is synced without a look at the result, the target is checked
\* again and replaced.
tud_mtp_data_complete_cb ==
    LET m == x["mtp"] IN
    /\ m.on /\ m.todo = 0
    /\ Ended("mtp")
    /\ Unlock("mtp")
    /\ \E flushed \in Io("mtp") \cup {TRUE}, synced \in Io("mtp") :
        LET good == flushed /\ ~m.failed IN
        IF good /\ ~PathBusy(m.path)
        THEN /\ Promoted("mtp")
             /\ content' = IF synced THEN content ELSE [content EXCEPT ![m.fil] = "upload"]
             /\ hist' = hist \cup Stolen("mtp", m.lk) \cup StaleWrite("mtp")
                            \cup IF synced THEN {} ELSE {"unsynced"}
        ELSE /\ part' = PartDropped("mtp")
             /\ hist' = hist \cup Stolen("mtp", m.lk) \cup StaleWrite("mtp")
                            \cup IF good THEN SelfRefused ELSE {}
             /\ UNCHANGED <<card, content>>
    /\ UNCHANGED <<lunDirectory, lun, left>>

\* Cancel request, end of the session.
tud_mtp_request_cancel_cb ==
    /\ x["mtp"].on
    /\ fs_release_write_state
    /\ part' = PartDropped("mtp")
    /\ UNCHANGED <<card, content, lunDirectory, lun, left>>

-----------------------------------------------------------------------------
(* WebDAV PUT ("put") and the browser upload form ("form").                *)

\* route_dav_put, upload_begin_part
PutBegin(t, p) ==
    /\ Host
    /\ ~x[t].on
    /\ ~PathBusy(p)
    /\ \E f \in Files :
        /\ Fresh(f)
        /\ part' = [part EXCEPT ![p] = f]
        /\ content' = [content EXCEPT ![f] = "upload"]
        /\ x' = [x EXCEPT ![t] = Open(t, p, f, IF t = "form" THEN LunFromHostPath(p) ELSE None)]
    /\ hist' = hist \cup Shared(t, p)
    /\ UNCHANGED <<card, lunDirectory, lun, lock, revoke>>

\* dav_put_flush, upload_write: on a write error, or when the form sees its
\* LUN started, the temporary file is dropped.
PutChunk(t) ==
    /\ x[t].on /\ ~x[t].inPlace /\ x[t].todo > 0
    /\ \E ok \in Io(t) :
        IF ok /\ ~(t = "form" /\ x[t].lk # None /\ lun[x[t].lk].on)
        THEN /\ x' = [x EXCEPT ![t].todo = @ - 1]
             /\ Wrote(t, "upload")
             /\ UNCHANGED part
        ELSE /\ Ended(t)
             /\ part' = PartDropped(t)
             /\ hist' = hist \cup StaleWrite(t)
             /\ UNCHANGED content
    /\ UNCHANGED <<card, lunDirectory, lun, lock, revoke, left>>

\* Mutant: Finish without the second check.
FinishUnchecked(t) ==
    /\ x[t].on /\ ~x[t].inPlace /\ x[t].todo = 0
    /\ Ended(t)
    /\ Promoted(t)
    /\ hist' = hist \cup StaleWrite(t)
    /\ UNCHANGED <<content, lunDirectory, lun, lock, revoke, left>>

\* Mutant: Finish before the last chunk is flushed.
FinishEarly(t) ==
    /\ x[t].on /\ ~x[t].inPlace /\ x[t].todo <= 1
    /\ Ended(t)
    /\ \E closed \in Io(t) :
        IF closed /\ ~PathBusy(x[t].path) THEN Promoted(t)
                                         ELSE part' = PartDropped(t) /\ UNCHANGED card
    /\ hist' = hist \cup StaleWrite(t)
    /\ UNCHANGED <<content, lunDirectory, lun, lock, revoke, left>>

\* dav_put_finish, upload_finish: the temporary file must close without error;
\* the target is checked again and replaced.
PutFinish(t) ==
    /\ x[t].on /\ ~x[t].inPlace /\ x[t].todo = 0
    /\ Ended(t)
    /\ \E closed \in Io(t) :
        IF closed /\ ~PathBusy(x[t].path) THEN Promoted(t)
                                         ELSE part' = PartDropped(t) /\ UNCHANGED card
    /\ hist' = hist \cup StaleWrite(t)
    /\ UNCHANGED <<content, lunDirectory, lun, lock, revoke, left>>

\* route_dav_put with ?offset=N: the target is opened and written in place.
PutInPlace(p) ==
    /\ Host
    /\ ~x["put"].on
    /\ ~PathBusy(p)
    /\ card[p] # None
    /\ x' = [x EXCEPT !["put"] = [Open("put", p, card[p], None) EXCEPT !.inPlace = TRUE]]
    /\ UNCHANGED <<card, part, content, lunDirectory, lun, lock, revoke, hist>>

\* dav_put_flush in place: the target is checked before every write.
PutFlushInPlace ==
    /\ x["put"].on /\ x["put"].inPlace /\ x["put"].todo > 0
    /\ \E ok \in Io("put") :
        IF ok /\ ~PathBusy(x["put"].path)
        THEN x' = [x EXCEPT !["put"].todo = @ - 1] /\ Wrote("put", "patch")
        ELSE /\ Ended("put")
             /\ hist' = hist \cup StaleWrite("put")
             /\ UNCHANGED content
    /\ UNCHANGED <<card, part, lunDirectory, lun, lock, revoke, left>>

\* dav_put_finish in place
PutFinishInPlace ==
    /\ x["put"].on /\ x["put"].inPlace /\ x["put"].todo = 0
    /\ Ended("put")
    /\ hist' = hist \cup StaleWrite("put")
    /\ UNCHANGED <<card, part, content, lunDirectory, lun, lock, revoke, left>>

\* conn_close, ws_err: the connection goes away and the temporary file with it.
conn_close(t) ==
    /\ x[t].on
    /\ Ended(t)
    /\ part' = IF x[t].inPlace THEN part ELSE PartDropped(t)
    /\ hist' = hist \cup StaleWrite(t)
    /\ UNCHANGED <<card, content, lunDirectory, lun, lock, revoke, left>>

-----------------------------------------------------------------------------
(* WebDAV COPY, MOVE and DELETE.                                           *)

\* COPY over p: an existing destination is deleted, even when another COPY is
\* in progress and this one is then refused.
route_dav_copy(p) ==
    /\ Host
    /\ ~PathBusy(p)
    /\ \/ /\ x["copy"].on
          /\ card' = [card EXCEPT ![p] = None]
          /\ UNCHANGED <<content, x, lock, revoke, hist>>
       \/ /\ ~x["copy"].on
          /\ LET l == LunFromHostPath(p) IN
              /\ \E f \in Files :
                  /\ Fresh(f)
                  /\ card' = [card EXCEPT ![p] = f]
                  /\ content' = [content EXCEPT ![f] = "copy"]
                  /\ x' = [x EXCEPT !["copy"] = Open("copy", p, f, l)]
              /\ lock' = lock \cup ({l} \ {None})
              /\ revoke' = revoke \ {l}
              /\ hist' = hist \cup Stolen("copy", l)
    /\ UNCHANGED <<part, lunDirectory, lun>>

\* A started LUN loses the file at p, the one it has open.
Freed(p) == IF \E l \in Luns : lun[l].on /\ p = Path(l) THEN {"image_freed"} ELSE {}

ws_copy_slot_release(more) ==
    /\ Ended("copy")
    /\ Unlock("copy")
    /\ hist' = hist \cup Stolen("copy", x["copy"].lk) \cup StaleWrite("copy") \cup more

\* One chunk of the COPY.  A revoked copy deletes its destination; a failed
\* one leaves what it has written.
ws_copy_step ==
    LET c == x["copy"] IN
    /\ c.on
    /\ \/ /\ c.lk \in revoke
          /\ ws_copy_slot_release(Freed(c.path))
          /\ card' = [card EXCEPT ![c.path] = None]
          /\ UNCHANGED content
       \/ /\ c.lk \notin revoke
          /\ FALSE \in Io("copy")
          /\ ws_copy_slot_release({})
          /\ UNCHANGED <<card, content>>
       \/ /\ c.lk \notin revoke
          /\ TRUE \in Io("copy")
          /\ content' = [content EXCEPT ![c.fil] = IF c.todo = 1 THEN "whole" ELSE "copy"]
          /\ IF c.todo = 1
             THEN ws_copy_slot_release(UnderLun("copy"))
             ELSE /\ x' = [x EXCEPT !["copy"].todo = @ - 1]
                  /\ hist' = hist \cup UnderLun("copy") \cup StaleWrite("copy")
                  /\ UNCHANGED <<lock, revoke>>
          /\ UNCHANGED card
    /\ UNCHANGED <<part, lunDirectory, lun, left>>

\* conn_close of the connection that copies: what is written stays.
CopyAbort ==
    /\ x["copy"].on
    /\ ws_copy_slot_release({})
    /\ UNCHANGED <<card, part, content, lunDirectory, lun, left>>

\* DELETE, from WebDAV or MTP
route_dav_delete(p) ==
    /\ Host
    /\ ~PathBusy(p)
    /\ card[p] # None
    /\ card' = [card EXCEPT ![p] = None]
    /\ UNCHANGED <<part, content, lunDirectory, lun, lock, revoke, x, hist>>

\* MOVE of p to q
route_dav_move(p, q) ==
    /\ Host
    /\ p # q
    /\ ~PathBusy(p) /\ ~PathBusy(q)
    /\ card[p] # None
    /\ card' = [card EXCEPT ![q] = card[p], ![p] = None]
    /\ hist' = hist \cup IF \E t \in Xfers : x[t].fil = card[p] THEN {"moved_open"} ELSE {}
    /\ UNCHANGED <<part, content, lunDirectory, lun, lock, revoke, x>>

-----------------------------------------------------------------------------
BeebStep ==
    \/ \E l \in Luns : \/ scsiStart(l)
                       \/ scsiStop(l)
                       \/ scsiCommandModeSelect6(l)
                       \/ \E ok \in BOOLEAN : scsiCommandFormat(l, ok)
                       \/ FormatRefused(l)
    \/ \E d \in Dirs : scsiBeebScsiSelect(d) \/ hd_emulator_write_scsijuke(d)
    \/ filesystemReset

HostStep ==
    \/ \E p \in Paths : \/ fs_send_object_info(p)
                        \/ \E t \in {"put", "form"} : PutBegin(t, p)
                        \/ PutInPlace(p)
                        \/ route_dav_copy(p)
                        \/ route_dav_delete(p)
                        \/ \E q \in Paths : route_dav_move(p, q)
    \/ fs_send_object
    \/ tud_mtp_data_complete_cb
    \/ tud_mtp_request_cancel_cb
    \/ \E t \in {"put", "form"} : PutChunk(t) \/ PutFinish(t) \/ conn_close(t)
    \/ PutFlushInPlace
    \/ PutFinishInPlace
    \/ ws_copy_step
    \/ CopyAbort

Next == BeebStep \/ HostStep

Spec == Init /\ [][Next]_vars

-----------------------------------------------------------------------------
(* Properties.                                                             *)

\* The path of a started LUN names the file its handle is open on: no writer
\* on the network or USB side replaces, moves or deletes an image the target
\* is running from (filesystemHostPathBusy and the re-checks before rename).
StartedImageKept == \A l \in Luns : lun[l].on => card[Path(l)] = lun[l].fil

\* A transfer wrote through a handle whose directory entry was removed or
\* renamed under it, or a MOVE renamed a file that is open: FatFs then writes
\* to clusters, and to an entry, that can be any file's.
Astray == hist \cap {"stale_write", "moved_open"} # {}

\* The same, as long as no LUN was started on an image a COPY was writing and
\* no transfer went astray.
KeptUnlessCopied == "copy_taken" \notin hist /\ ~Astray => StartedImageKept

\* No write of a transfer lands in clusters a started LUN has open, unless the
\* LUN was started by a command that does not revoke the lock or on a target
\* that was no image when the COPY began, the lock was taken over by another
\* transfer, a revoked COPY freed the image under its LUN, or a transfer's own
\* file was removed or renamed under it: the revoke flag stops a COPY, the
\* re-check before every write a ranged PUT.
NoHostWriteUnderLun ==
    "wrote_under_lun" \in hist
        => Astray \/ hist \cap {"unannounced", "lock_stolen", "image_freed"} # {}

\* A locked or revoked LUN belongs to a transfer in progress: every way a
\* transfer can end gives its LUN back, or the image could not be written
\* again from the network until the next reset.
LockHasHolder ==
    \A l \in lock \cup revoke : \E t \in {"mtp", "copy"} : x[t].on /\ x[t].lk = l

\* An upload that is not complete on the card is never at the path of an image,
\* unless two uploads shared one "<path>.part", the last sync of an MTP upload
\* failed, or a transfer went astray or a LUN lost its image: the temporary
\* file is renamed only after its last chunk (dav_put_finish, upload_finish,
\* tud_mtp_data_complete_cb).
UploadAtomic ==
    \/ Astray \/ hist \cap {"shared_part", "unsynced", "image_freed"} # {}
    \/ \A p \in Paths : card[p] # None => content[card[p]] # "upload"

\* A complete MTP upload is refused as busy only when the target is started or
\* another transfer holds it.  The code does not keep this: the upload's own
\* lock counts as busy (SelfRefused), so no configuration lists it.
RefusedOnlyForBeeb == "self_refused" \notin hist
=============================================================================
