-------------------------------- MODULE AtaDisk --------------------------------
(***************************************************************************)
(* The CompactFlash storage card of src/hw/cf.c: its taskfile, the sector  *)
(* buffer behind the data register, the image in memory and the image file *)
(* it was read from.  A sector is SectorWords words; a word is the number  *)
(* the guest wrote there, or 0.  An image is a function of word addresses. *)
(*   kind      what is in the socket: "none", "ata" or an I/O card, "io"   *)
(*   visible   boot_visible;  lba, count, lbamode: the taskfile            *)
(*   status    {"drdy", "drq", "err"};  count has the width of CountMod    *)
(*   buf, pos  data_buffer and data_pos; Len(buf) is data_length           *)
(*   pend, tlba, trem   pending_write, transfer_lba, transfer_remaining    *)
(***************************************************************************)
EXTENDS Integers, Sequences

CONSTANTS
    Sectors,        \* sectors of the image
    SectorWords,    \* CF_SECTOR_SIZE, in words
    CountMod        \* the sector count register wraps at 256

ASSUME DiskAssumption ==
    /\ Sectors \in Nat \ {0} /\ SectorWords \in Nat \ {0} /\ CountMod \in Nat \ {0}

Words  == 0 .. Sectors * SectorWords - 1
Blank  == [w \in Words |-> 0]
Sector(image, s) == [i \in 1..SectorWords |-> image[s * SectorWords + i - 1]]

NoDisk == [kind |-> "none", image |-> Blank, dirty |-> FALSE, visible |-> FALSE,
           lba |-> 1, count |-> 1, lbamode |-> TRUE, status |-> {},
           buf |-> <<>>, pos |-> 0, pend |-> FALSE, tlba |-> 0, trem |-> 0]

Present(d) == d.kind # "none"
Idle(d)    == IF Present(d) THEN {"drdy"} ELSE {}

\* cylinder 0, sector number 1, LBA mode (drive_head 0xE0)
ResetTaskfile(d) ==
    [d EXCEPT !.lba = 1, !.count = 1, !.lbamode = TRUE,
              !.status = Idle(d), !.buf = <<>>, !.pos = 0, !.pend = FALSE,
              !.tlba = 0, !.trem = 0]

Ready(d) == [d EXCEPT !.status = Idle(d)]
Closed(d) == [d EXCEPT !.buf = <<>>, !.pos = 0, !.pend = FALSE, !.trem = 0]
Failed(d) == [Closed(d) EXCEPT !.status = {"err"} \cup Idle(d)]
Finished(d) == Ready(Closed(d))

--------------------------------------------------------------------------------
(***************************************************************************)
(* Loading, ejecting and saving.  A save writes <path>.tmp and renames it: *)
(* either the whole image reaches the file or nothing does.                *)
(***************************************************************************)
Loaded(d, file) ==
    ResetTaskfile([d EXCEPT !.kind = "ata", !.image = file, !.dirty = FALSE, !.visible = FALSE])
IoCardIn(d) ==
    ResetTaskfile([d EXCEPT !.kind = "io", !.image = Blank, !.dirty = FALSE, !.visible = FALSE])
\* As if an image were saved only between transfers.
MustSave_Idle(d) == d.kind = "ata" /\ d.dirty /\ d.buf = <<>>
MustSave(d) == d.kind = "ata" /\ d.dirty
WriteAtomic(d, file, works) == IF MustSave(d) /\ works THEN d.image ELSE file
\* What is saved is the caller's business; a failure is not looked at.
Ejected(d) ==
    IF ~Present(d) THEN d
    ELSE ResetTaskfile([d EXCEPT !.kind = "none", !.image = Blank, !.dirty = FALSE])
BootVisible(d, visible) == ResetTaskfile([d EXCEPT !.visible = visible /\ d.kind = "ata"])

--------------------------------------------------------------------------------
(***************************************************************************)
(* The commands.                                                           *)
(***************************************************************************)
Asked(d) == IF d.count = 0 THEN CountMod ELSE d.count
Fits(d)  == d.lba + Asked(d) <= Sectors

Open(d, words, writing) ==
    [d EXCEPT !.buf = words, !.pos = 0, !.pend = writing, !.status = {"drdy", "drq"}]
LoadSector(d) ==
    IF d.tlba < Sectors THEN Open(d, Sector(d.image, d.tlba), FALSE) ELSE Failed(d)
PrepareWrite(d) == Open(d, [i \in 1..SectorWords |-> 0], TRUE)

BeginTransfer(d, writing) ==
    IF ~d.lbamode \/ ~Fits(d) THEN Failed(d)
    ELSE LET t == [d EXCEPT !.tlba = d.lba, !.trem = Asked(d)]
         IN IF writing THEN PrepareWrite(t) ELSE LoadSector(t)

Identify(d) == [Open(d, [i \in 1..SectorWords |-> "id"], FALSE) EXCEPT !.trem = 0]

\* "none" stands for RECALIBRATE, READ VERIFY, DIAGNOSTIC and SET FEATURES
\* with a feature it knows: they report ready and leave an open transfer open.
Command(d, cmd) ==
    IF ~Present(d) THEN Failed(d)
    ELSE CASE cmd = "identify" -> Identify(d)
           [] cmd = "read"     -> BeginTransfer(d, FALSE)
           [] cmd = "write"    -> BeginTransfer(d, TRUE)
           [] cmd = "none"     -> Ready(d)
           [] OTHER            -> Failed(d)
Commands == {"identify", "read", "write", "none", "other"}

--------------------------------------------------------------------------------
(***************************************************************************)
(* The data register, n words at a time.                                   *)
(***************************************************************************)
\* The next sector: the taskfile follows, and remaining counts down to 0.
\* As if the taskfile were what the transfer steps from.
Stepped_Taskfile(d) ==
    [d EXCEPT !.lba = @ + 1, !.count = (@ + CountMod - 1) % CountMod,
              !.tlba = d.lba + 1, !.trem = IF @ > 0 THEN @ - 1 ELSE 0]
Stepped(d) ==
    LET left == IF d.trem > 0 THEN d.trem - 1 ELSE 0
    IN [d EXCEPT !.lba = d.tlba + 1, !.count = left % CountMod,
                 !.tlba = d.tlba + 1, !.trem = left]

Readable(d) == d.buf # <<>> /\ ~d.pend
Writable(d) == d.buf # <<>> /\ d.pend
Taken(d, n) == IF d.pos + n < Len(d.buf) THEN d.pos + n ELSE Len(d.buf)

\* A read past the sector's end gives ones for the words that are missing.
DataRead(d, n) ==
    LET r == [d EXCEPT !.pos = Taken(d, n)]
        s == Stepped(r)
    IN IF ~Readable(d) THEN d
       ELSE IF r.pos < Len(d.buf) THEN r
       ELSE IF s.trem > 0 THEN LoadSector(s) ELSE Finished(s)

CommitWrite(d) ==
    LET at == d.tlba * SectorWords
        s  == Stepped([d EXCEPT !.dirty = TRUE,
                  !.image = [w \in Words |-> IF w \in at .. at + SectorWords - 1
                                             THEN d.buf[w - at + 1] ELSE d.image[w]]])
    IN IF s.trem > 0 THEN PrepareWrite(s) ELSE Finished(s)

\* words: the n words of the access, of which those past the end are dropped
DataWrite(d, words) ==
    LET to == Taken(d, Len(words))
        r  == [d EXCEPT !.pos = to,
                 !.buf = [i \in DOMAIN @ |-> IF i \in d.pos + 1 .. to
                                             THEN words[i - d.pos] ELSE @[i]]]
    IN IF ~Writable(d) THEN d ELSE IF to = Len(d.buf) THEN CommitWrite(r) ELSE r

\* The device control register: its reset bit, or a zero on the boot path.
Control(d, reset) == IF reset THEN ResetTaskfile(d) ELSE d
================================================================================
